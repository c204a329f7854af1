------------------------------- MODULE SimKernel -------------------------------
(***************************************************************************)
(* The hook list of the simulator library (sim/sim/simulator.c): the state *)
(* that sim_hook_add, sim_hook_remove, sim_fire_events and sim_wait share, *)
(* and what each of them does to it.  The callbacks belong to the clients, *)
(* in modules that extend this one.                                        *)
(*                                                                         *)
(* One round of callbacks runs after each wait.  sim_fire_events takes the *)
(* list away from the simulator (old), so that what callbacks schedule     *)
(* goes to a list of its own (hooks), and merges the two at the end: then  *)
(* old is the list it makes, and hooks what is left to add to it.          *)
(***************************************************************************)
EXTENDS Naturals, Sequences, SequencesExt

CONSTANT Hooks            \* the sig_hook structures of the program

VARIABLES
  picos,                  \* sim->picos, the simulator's time
  time,                   \* hook->time of every hook, 0 for none
  hooks,                  \* sim->hooks
  old,                    \* the list being walked by sim_fire_events
  todo,                   \* what is left of that walk
  calling                 \* a round runs (sim->calling_hooks until its merge)

kernelVars == <<picos, time, hooks, old, todo, calling>>

KernelInit ==
  /\ picos = 0
  /\ time = [h \in Hooks |-> 0]
  /\ hooks = <<>> /\ old = <<>> /\ todo = <<>>
  /\ calling = FALSE

\* sim_hook_add outside a round: timed hooks come first, in increasing time.
HookAdd(list, tm, h) ==
  LET later == SelectInSeq(list, LAMBDA i : tm[i] = 0 \/ tm[i] > tm[h])
  IN  IF tm[h] # 0 /\ later # 0 THEN InsertAt(list, later, h)
                                ELSE Append(list, h)

\* sim_hook_remove.
HookRemove(list, h) == RemoveFirst(list, h)

\* next_hook_delay looks at the head of the list only.  0 is "no timeout".
NextHookDelay ==
  IF hooks # <<>> /\ time[Head(hooks)] > picos
    THEN time[Head(hooks)] - picos
    ELSE 0

\* sim_fire_events begins: the list changes hands.
StartRound ==
  /\ ~calling
  /\ calling' = TRUE
  /\ old' = hooks /\ todo' = hooks /\ hooks' = <<>>

\* A hook is called if its time has come or a signal it watches had an event.
Due(h) == time[h] # 0 /\ time[h] <= picos

\* The walk passes a hook that is not to be called.
SkipHook ==
  /\ todo' = Tail(todo)
  /\ UNCHANGED <<picos, time, hooks, old, calling>>

\* A slip: the time of a hook that has fired is left in place.
AfterCallbackKeepsTime(h, removed, tm, adds) ==
  LET moved == ~removed /\ tm[h] # time[h]
  IN  /\ time' = tm
      /\ old' = IF removed \/ moved THEN HookRemove(old, h) ELSE old
      /\ hooks' = IF moved THEN Append(hooks \o adds, h) ELSE hooks \o adds
      /\ todo' = Tail(todo)
      /\ UNCHANGED <<picos, calling>>

\* The callback of h has returned: non-zero (removed) takes the hook out, else a
\* time in the past is disabled and a hook whose time changed is rescheduled.
\* tm is hook->time as the callback left it, adds the hooks it added.
AfterCallback(h, removed, tm, adds) ==
  LET t     == IF removed \/ tm[h] <= picos THEN 0 ELSE tm[h]
      moved == ~removed /\ t # time[h]
  IN  /\ time' = [tm EXCEPT ![h] = t]
      /\ old' = IF removed \/ moved THEN HookRemove(old, h) ELSE old
      /\ hooks' = IF moved THEN Append(hooks \o adds, h) ELSE hooks \o adds
      /\ todo' = Tail(todo)
      /\ UNCHANGED <<picos, calling>>

\* A slip: what callbacks scheduled is forgotten.
MergeHookForgets ==
  /\ calling /\ todo = <<>> /\ hooks # <<>>
  /\ hooks' = Tail(hooks)
  /\ UNCHANGED <<picos, time, old, todo, calling>>

\* The walk is over: what was scheduled meanwhile is added to the old list, one hook
\* after another.  No callback runs, and nothing else can happen, until all are.
MergeHook ==
  /\ calling /\ todo = <<>> /\ hooks # <<>>
  /\ old' = HookAdd(old, time, Head(hooks))
  /\ hooks' = Tail(hooks)
  /\ UNCHANGED <<picos, time, todo, calling>>

\* Then the immediate hooks are called.  This one removes h, if it is scheduled.
CallImmediate(h) ==
  /\ calling /\ todo = <<>> /\ hooks = <<>>
  /\ old' = HookRemove(old, h)
  /\ time' = [time EXCEPT ![h] = 0]
  /\ UNCHANGED <<picos, hooks, todo, calling>>

\* The end of sim_fire_events: the list is the simulator's again.
EndRound ==
  /\ calling /\ todo = <<>> /\ hooks = <<>>
  /\ calling' = FALSE
  /\ hooks' = old /\ old' = <<>>
  /\ UNCHANGED <<picos, time, todo>>

===============================================================================
