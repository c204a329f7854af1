------------------------------- MODULE SimHooks --------------------------------
(***************************************************************************)
(* The hook list of simulator.c under any client that keeps the rules that *)
(* simulator.h states: a callback may change the time of its own hook, add *)
(* a hook that is not in the list, ask for an immediate hook, and stay or  *)
(* leave; an immediate hook removes one, the main program adds or removes. *)
(***************************************************************************)
EXTENDS SimKernel

CONSTANTS
  MaxTime,                \* bound on the simulator's time
  MaxDelay                \* bound on how far ahead a hook is scheduled

ASSUME HooksAssumption == MaxTime \in Nat /\ MaxDelay \in Nat \ {0}

VARIABLES
  evented,                \* hooks that watch a signal with an event
  cancelled,              \* hooks that immediate hooks of this round will remove
  registered,             \* hooks the clients have added and not removed (history)
  rounds,                 \* a wait is over and its round has to follow
  edged                   \* this round's wait was one for a clock edge (history)

vars == <<kernelVars, evented, cancelled, registered, rounds, edged>>

Init ==
  /\ KernelInit
  /\ evented = {} /\ cancelled = {} /\ registered = {}
  /\ rounds = FALSE /\ edged = FALSE

NewTimes == {0} \cup {picos + d : d \in 1 .. MaxDelay}

\* The main program adds or removes a hook between two waits.
Add == \E h \in Hooks \ registered, t \in NewTimes :
  /\ ~calling /\ ~rounds
  /\ time' = [time EXCEPT ![h] = t]
  /\ hooks' = HookAdd(hooks, time', h)
  /\ registered' = registered \cup {h}
  /\ UNCHANGED <<picos, old, todo, calling, evented, cancelled, rounds, edged>>

DropHook == \E h \in registered :
  /\ ~calling /\ ~rounds
  /\ hooks' = HookRemove(hooks, h)
  /\ time' = [time EXCEPT ![h] = 0]
  /\ registered' = registered \ {h}
  /\ UNCHANGED <<picos, old, todo, calling, evented, cancelled, rounds, edged>>

\* A slip: sim_wait_time ignores the hooks and waits the delay it was given.
WaitForWholeDelay(asked) == asked

\* sim_wait_time waits no longer than the first target time.
WaitFor(asked) ==
  IF NextHookDelay = 0 \/ NextHookDelay > asked THEN asked ELSE NextHookDelay

\* sim_wait and sim_wait_time: the vhdl side runs until the delay is over or a signal
\* has an event.
Wait == \E asked \in 1 .. MaxDelay, d \in 0 .. MaxDelay, evs \in SUBSET Hooks :
  /\ ~calling /\ ~rounds
  /\ d <= WaitFor(asked)
  /\ (d < WaitFor(asked)) => evs # {}
  /\ picos + d <= MaxTime
  /\ picos' = picos + d
  /\ evented' = evs
  /\ rounds' = TRUE
  /\ UNCHANGED <<time, hooks, old, todo, calling, cancelled, registered, edged>>

\* sim_wait_clk_edge does not ask for the first target time: the vhdl side runs to
\* the clock edge, before or after that time.
WaitClkEdge == \E d \in 0 .. MaxDelay, evs \in SUBSET Hooks :
  /\ ~calling /\ ~rounds
  /\ picos + d <= MaxTime
  /\ picos' = picos + d
  /\ evented' = evs
  /\ rounds' = TRUE /\ edged' = TRUE
  /\ UNCHANGED <<time, hooks, old, todo, calling, cancelled, registered>>

Fire ==
  /\ rounds /\ StartRound
  /\ rounds' = FALSE
  /\ UNCHANGED <<picos, time, evented, cancelled, registered, edged>>

Called == Due(Head(todo)) \/ Head(todo) \in evented

\* A callback that returns zero, with its time as it was or changed.
CallAndStay ==
  /\ calling /\ todo # <<>> /\ Called
  /\ \E t \in {time[Head(todo)]} \cup NewTimes :
       AfterCallback(Head(todo), FALSE, [time EXCEPT ![Head(todo)] = t], <<>>)
  /\ UNCHANGED <<evented, cancelled, registered, rounds, edged>>

CallAndLeave ==
  /\ calling /\ todo # <<>> /\ Called
  /\ AfterCallback(Head(todo), TRUE, time, <<>>)
  /\ registered' = registered \ {Head(todo)}
  /\ UNCHANGED <<evented, cancelled, rounds, edged>>

\* A callback that adds a hook of its own.
CallAndAdd == \E new \in Hooks \ registered, t \in NewTimes :
  /\ calling /\ todo # <<>> /\ Called
  /\ AfterCallback(Head(todo), FALSE, [time EXCEPT ![new] = t], <<new>>)
  /\ registered' = registered \cup {new}
  /\ UNCHANGED <<evented, cancelled, rounds, edged>>

\* A callback that wants a hook removed after the round.
CallAndCancel == \E other \in registered :
  /\ calling /\ todo # <<>> /\ Called
  /\ AfterCallback(Head(todo), FALSE, time, <<>>)
  /\ cancelled' = cancelled \cup {other}
  /\ UNCHANGED <<evented, registered, rounds, edged>>

NotCalled ==
  /\ calling /\ todo # <<>> /\ ~Called
  /\ SkipHook
  /\ UNCHANGED <<evented, cancelled, registered, rounds, edged>>

Merge ==
  /\ MergeHook
  /\ UNCHANGED <<evented, cancelled, registered, rounds, edged>>

\* An immediate hook removes the hook that it was asked to remove.
Immediate == \E h \in cancelled :
  /\ CallImmediate(h)
  /\ cancelled' = cancelled \ {h}
  /\ registered' = registered \ {h}
  /\ UNCHANGED <<evented, rounds, edged>>

RoundOver ==
  /\ cancelled = {} /\ EndRound
  /\ evented' = {} /\ edged' = FALSE
  /\ UNCHANGED <<cancelled, registered, rounds>>

Next ==
  \/ Add \/ DropHook \/ Wait \/ WaitClkEdge \/ Fire
  \/ CallAndStay \/ CallAndLeave \/ CallAndAdd \/ CallAndCancel \/ NotCalled
  \/ Merge \/ Immediate \/ RoundOver

Spec == Init /\ [][Next]_vars

-------------------------------------------------------------------------------

\* No hook is lost and none is in the lists twice, whatever callbacks add, remove
\* and reschedule while sim_fire_events walks: between rounds the list holds the
\* hooks that clients have added and not removed.
ExactlyRegistered ==
  LET all == hooks \o old
  IN  /\ ToSet(all) = registered
      /\ Len(all) = Cardinality(registered)

\* Between rounds no hook is left with a target time that has passed: it would
\* block every timed hook behind it, next_hook_delay reading the head as "none".
NothingOverdue ==
  (~calling /\ ~rounds) => \A h \in registered : time[h] # 0 => time[h] > picos

\* A round that follows sim_wait or sim_wait_time finds no hook whose target time has
\* passed: a hook called for its time is called at that very time (mem_bus.c compares
\* them for equality).  Nor does a hook stay late after a wait for a clock edge, which
\* may pass target times: it is late in the round of that wait only.
NeverLate ==
  ~edged => \A h \in ToSet(hooks) \cup ToSet(todo) : time[h] # 0 => time[h] >= picos

===============================================================================
