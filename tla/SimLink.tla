-------------------------------- MODULE SimLink --------------------------------
(***************************************************************************)
(* The link between the test bench (sim/sim/simulator.c) and the simulator *)
(* it drives through a pty, where vpibridge.c serves it from inside the    *)
(* simulator's callbacks.  Two processes, two bounded pipes of lines, and  *)
(* an idle handshake: the test bench learns that nothing more will come by *)
(* getting back the last echo it asked for, and it asks again after each   *)
(* line that is not an echo.                                               *)
(*                                                                         *)
(* The design inside the simulator is external: out follows in after one   *)
(* delta, clk toggles every HalfPeriod, q takes in one delta after clk     *)
(* rises.  The simulator stops at StopTime and its process ends.           *)
(***************************************************************************)
EXTENDS Naturals, Sequences, FiniteSets

CONSTANTS
  Batch,          \* signals asked for at startup before the test bench listens
  PipeCap,        \* lines that each direction of the pty holds
  EchoMod,        \* echo_arg counts modulo this
  Burst,          \* writes a client makes before it listens again
  WaitTimes,      \* the times a client waits for
  HalfPeriod, StopTime,
  MaxOps          \* calls of the client, and writes of its callbacks

ASSUME LinkAssumption ==
  /\ Batch \in Nat \ {0} /\ PipeCap \in Nat \ {0} /\ EchoMod \in Nat \ {0, 1}
  /\ Burst \in Nat /\ HalfPeriod \in Nat \ {0} /\ WaitTimes \subseteq Nat \ {0}

\* One exchange has a batch of reads, or a burst of writes and a wait, and an echo.
\* echo_arg, a uint16_t, tells that many apart, and the pipes hold them.
ASSUME EchoAssumption == Batch + 1 < EchoMod /\ Burst + 2 < EchoMod
ASSUME PipeAssumption == Batch + 1 <= 2 * PipeCap /\ Burst + 2 <= 2 * PipeCap

VARIABLES
  cpc,            \* the test bench is in: start, idle (sim_go_to_idle), round
                  \* (sim_fire_events), client or exited
  tosend,         \* lines it is about to write
  op,             \* the call it is serving
  echo_arg, last, \* the next echo, and the last one sent (cmd_buf)
  val, events, picos, dirty_writes, io_error,
  toSim, toC,     \* the pipes
  mode,           \* the bridge is in read_cmds (read) or not (run), or is gone
  reaped,         \* the simulator's process can be waited for
  echo_data,      \* [dirty, pending, arg]
  is_waiting, active_wait,             \* active_wait 0 is none
  known,          \* the signals the bridge watches
  sv, deltas, now, toggle,             \* the design
  burst, ops      \* counters

client == <<cpc, tosend, op, echo_arg, last, val, events, picos, dirty_writes, io_error, burst, ops>>
bridge == <<mode, reaped, echo_data, is_waiting, active_wait, known>>
design == <<sv, deltas, now, toggle>>
vars == <<client, toSim, toC, bridge, design>>

Signals == <<"in", "out", "clk", "q">>
Signal == {Signals[i] : i \in DOMAIN Signals}
Bit == {0, 1}
NoValue == 2

Echo(a)        == [c |-> ".", a |-> a]
ReadCmd(s)     == [c |-> "r", s |-> s]
WriteCmd(s, v) == [c |-> "w", s |-> s, v |-> v]
WaitCmd(d)     == [c |-> "wait", d |-> d]        \* d = 0: for anything
Value(s, v, t) == [c |-> "v", s |-> s, v |-> v, t |-> t]
Time(t)        == [c |-> "t", t |-> t]
ReadVal(s, v)  == [c |-> "r", s |-> s, v |-> v]

None == [k |-> "none"]

-------------------------------------------------------------------------------
(* The test bench.                                                           *)

\* sim_write_pty, one line at a time; it blocks while the pipe is full.  What is
\* written to a simulator that is gone is lost.
Write ==
  /\ tosend # <<>> /\ cpc # "exited"
  /\ \/ mode # "gone" /\ Len(toSim) < PipeCap /\ toSim' = Append(toSim, Head(tosend))
     \/ mode = "gone" /\ UNCHANGED toSim
  /\ tosend' = Tail(tosend)
  /\ UNCHANGED <<cpc, op, echo_arg, last, val, events, picos, dirty_writes, io_error,
                 burst, ops, toC, bridge, design>>

\* Every eleventh sim_write_pty looks whether the simulator still runs, as does a
\* failed write: SIMEXIT_EXIT, which both programs choose, ends the test bench.
CheckChild ==
  /\ tosend # <<>> /\ reaped /\ cpc # "exited"
  /\ cpc' = "exited"
  /\ UNCHANGED <<tosend, op, echo_arg, last, val, events, picos, dirty_writes, io_error,
                 burst, ops, toSim, toC, bridge, design>>

\* lines, and then sim_go_to_idle as far as its first echo.
GoToIdle(lines, o) ==
  /\ op' = o
  /\ IF io_error
       THEN cpc' = "round" /\ tosend' = lines /\ UNCHANGED <<echo_arg, last>>
       ELSE /\ cpc' = "idle"
            /\ tosend' = Append(lines, Echo(echo_arg))
            /\ last' = echo_arg /\ echo_arg' = (echo_arg + 1) % EchoMod

\* A slip: all the signals are asked for before the test bench listens.
AskedAtOnce(i) == Len(Signals)

\* sim_startup listens after every Batch signals, and after the last one.
Asked(i) == IF i + Batch < Len(Signals) THEN i + Batch ELSE Len(Signals)

\* sim_startup: a read of every signal, some at a time.
Startup ==
  /\ cpc = "start" /\ tosend = <<>>
  /\ LET n == Asked(op.i)
     IN  GoToIdle([j \in 1 .. n - op.i |-> ReadCmd(Signals[op.i + j])], [op EXCEPT !.i = n])
  /\ UNCHANGED <<val, events, picos, dirty_writes, io_error, burst, ops, toSim, toC,
                 bridge, design>>

\* sim_handle_cmd.
HandleCmd(l) ==
  /\ val' = IF l.c \in {"v", "r"} THEN [val EXCEPT ![l.s] = l.v] ELSE val
  /\ events' = IF l.c = "v" THEN events \cup {l.s} ELSE events
  /\ picos' = IF l.c \in {"v", "t"} THEN l.t ELSE picos

\* A slip: any echo will do.
IsLastEchoAny(l) == l.c = "."

IsLastEcho(l) == l = Echo(last)

\* A slip: one echo is asked for, however many changes come.
AskAgainOnce ==
  IF events = {} THEN /\ tosend' = <<Echo(echo_arg)>>
                      /\ last' = echo_arg /\ echo_arg' = (echo_arg + 1) % EchoMod
                 ELSE UNCHANGED <<tosend, last, echo_arg>>

AskAgain ==
  /\ tosend' = <<Echo(echo_arg)>>
  /\ last' = echo_arg /\ echo_arg' = (echo_arg + 1) % EchoMod

\* The loop of sim_go_to_idle.
ReadLine ==
  /\ cpc = "idle" /\ tosend = <<>> /\ toC # <<>>
  /\ toC' = Tail(toC)
  /\ LET l == Head(toC) IN
     IF l.c # "."
       THEN AskAgain /\ HandleCmd(l) /\ UNCHANGED cpc
       ELSE /\ cpc' = IF IsLastEcho(l) THEN "round" ELSE "idle"
            /\ UNCHANGED <<tosend, last, echo_arg, val, events, picos>>
  /\ UNCHANGED <<op, dirty_writes, io_error, burst, ops, toSim, bridge, design>>

\* read fails: the simulator has closed the pty.  waitpid may be too early to see
\* that the process ended, and the test bench then goes on with io_error set.
ReadError ==
  /\ cpc = "idle" /\ tosend = <<>> /\ toC = <<>> /\ mode = "gone"
  /\ io_error' = TRUE
  /\ cpc' = IF reaped THEN "exited" ELSE "round"
  /\ UNCHANGED <<tosend, op, echo_arg, last, val, events, picos, dirty_writes, burst,
                 ops, toSim, toC, bridge, design>>

\* A slip: a write from within a callback does not count.
MarkDirtyOutside(calling) == IF calling THEN dirty_writes ELSE TRUE

\* sim_set marks every write, from a callback or not.
MarkDirty(calling) == TRUE

\* What is left of a call: a forced wait for a time, a wait for a signal.
Unfinished(o) == (o.k = "until" /\ picos < o.t) \/ (o.k = "signal" /\ o.s \notin events)

\* sim_fire_events and sim_clear_events.  A callback may write a signal; it sees the
\* copies as they are.  The startup fires nothing.
Round ==
  /\ cpc = "round" /\ tosend = <<>>
  /\ IF op.k = "start"
       THEN /\ cpc' = IF op.i < Len(Signals) THEN "start" ELSE "client"
            /\ op' = IF op.i < Len(Signals) THEN op ELSE None
            /\ events' = IF op.i < Len(Signals) THEN events ELSE {}
            /\ UNCHANGED <<tosend, dirty_writes, ops>> /\ burst' = 0
       ELSE /\ cpc' = "client"
            /\ events' = {}
            /\ op' = IF Unfinished(op) THEN op ELSE None
            /\ \/ UNCHANGED <<tosend, dirty_writes, ops>> /\ burst' = 0
               \/ \E v \in Bit :
                    /\ ops < MaxOps /\ Burst > 0
                    /\ tosend' = <<WriteCmd("in", v)>>
                    /\ dirty_writes' = MarkDirty(TRUE) /\ burst' = 1 /\ ops' = ops + 1
  /\ UNCHANGED <<echo_arg, last, val, picos, io_error, toSim, toC, bridge, design>>

Ready == cpc = "client" /\ tosend = <<>> /\ op = None /\ ops < MaxOps

\* sim_set and its variants.
Set == \E v \in Bit :
  /\ Ready /\ burst < Burst
  /\ tosend' = <<WriteCmd("in", v)>>
  /\ dirty_writes' = MarkDirty(FALSE)
  /\ burst' = burst + 1 /\ ops' = ops + 1
  /\ UNCHANGED <<cpc, op, echo_arg, last, val, events, picos, io_error, toSim, toC,
                 bridge, design>>

\* sim_get, sim_geti: without writes they return the copy, and nothing changes.
Get ==
  /\ Ready /\ dirty_writes
  /\ dirty_writes' = FALSE
  /\ ops' = ops + 1
  /\ GoToIdle(<<>>, [k |-> "get"])
  /\ UNCHANGED <<val, events, picos, io_error, burst, toSim, toC, bridge, design>>

\* sim_idle, sim_wait, sim_wait_time, sim_force_read.
Call == \E lines \in {<<>>, <<WaitCmd(0)>>} \cup {<<WaitCmd(d)>> : d \in WaitTimes}
                     \cup {<<ReadCmd(s)>> : s \in {"q"}} :
  /\ Ready
  /\ ops' = ops + 1
  /\ GoToIdle(lines, [k |-> "call"])
  /\ UNCHANGED <<val, events, picos, dirty_writes, io_error, burst, toSim, toC, bridge,
                 design>>

\* sim_wait_time with force, and sim_wait_signal: the first of several waits.
Loop ==
  /\ Ready
  /\ ops' = ops + 1
  /\ \/ \E d \in WaitTimes : GoToIdle(<<WaitCmd(d)>>, [k |-> "until", t |-> picos + d])
     \/ GoToIdle(<<WaitCmd(0)>>, [k |-> "signal", s |-> "q"])
  /\ UNCHANGED <<val, events, picos, dirty_writes, io_error, burst, toSim, toC, bridge,
                 design>>

\* The loops go round.
LoopAgain ==
  /\ cpc = "client" /\ tosend = <<>> /\ op # None
  /\ GoToIdle(<<WaitCmd(IF op.k = "until" THEN op.t - picos ELSE 0)>>, op)
  /\ UNCHANGED <<val, events, picos, dirty_writes, io_error, burst, ops, toSim, toC,
                 bridge, design>>

-------------------------------------------------------------------------------
(* The bridge, in the simulator's callbacks.  Printing blocks while the pipe  *)
(* is full.                                                                   *)

PrintLine(lines) == Len(toC) + Len(lines) <= PipeCap /\ toC' = toC \o lines

\* schedule_echo: one callback at a time, with the latest argument.
ScheduleEcho(a) ==
  IF echo_data.pending THEN [echo_data EXCEPT !.arg = a]
                       ELSE [dirty |-> FALSE, pending |-> TRUE, arg |-> a]

\* The events a change of s to v leaves for the next delta.
Follows(s, v) ==
  CASE s = "in"             -> <<[s |-> "out", v |-> v]>>
    [] s = "clk" /\ v = 1   -> <<[s |-> "q", v |-> sv["in"]]>>
    [] OTHER                -> <<>>

\* What one command prints.
Printed(l) ==
  CASE l.c = "r"                      -> <<ReadVal(l.s, sv[l.s])>>
    [] l.c = "w" /\ sv[l.s] # l.v     -> <<Value(l.s, l.v, now)>>
    [] OTHER                          -> <<>>

\* read_cmds, one command.  A write calls val_change_cb from within, which does not
\* read commands then.
ReadCommand ==
  /\ mode = "read" /\ toSim # <<>>
  /\ toSim' = Tail(toSim)
  /\ LET l == Head(toSim) IN
     /\ PrintLine(Printed(l))
     /\ mode' = IF l.c \in {".", "wait"} THEN "run" ELSE "read"
     /\ known' = IF l.c \in {"r", "w"} THEN known \cup {l.s} ELSE known
     /\ CASE l.c = "."    -> /\ echo_data' = ScheduleEcho(l.a)
                             /\ UNCHANGED <<is_waiting, active_wait, design>>
          [] l.c = "wait" -> /\ is_waiting' = TRUE
                             /\ active_wait' = IF l.d = 0 THEN 0 ELSE now + l.d
                             /\ UNCHANGED <<echo_data, design>>
          [] l.c = "w" /\ sv[l.s] # l.v ->
               /\ sv' = [sv EXCEPT ![l.s] = l.v]
               /\ deltas' = deltas \o Follows(l.s, l.v)
               /\ is_waiting' = FALSE
               /\ echo_data' = [echo_data EXCEPT !.dirty = TRUE]
               /\ UNCHANGED <<active_wait, now, toggle>>
          [] OTHER -> UNCHANGED <<echo_data, is_waiting, active_wait, design>>
  /\ UNCHANGED <<client, reaped>>

\* A callback ends in read_cmds, which drops the timed wait.
EnterReadCmds == mode' = "read" /\ active_wait' = 0

\* A delta of the design, and val_change_cb for a watched signal that changes.
Delta ==
  /\ mode = "run" /\ deltas # <<>>
  /\ LET d == Head(deltas) IN
     /\ sv' = [sv EXCEPT ![d.s] = d.v]
     /\ deltas' = Tail(deltas) \o (IF sv[d.s] # d.v THEN Follows(d.s, d.v) ELSE <<>>)
     /\ IF sv[d.s] # d.v /\ d.s \in known
          THEN /\ is_waiting' = FALSE
               /\ PrintLine(<<Value(d.s, d.v, now)>>)
               /\ echo_data' = [echo_data EXCEPT !.dirty = TRUE]
               /\ EnterReadCmds
          ELSE UNCHANGED <<is_waiting, toC, echo_data, mode, active_wait>>
  /\ UNCHANGED <<client, toSim, reaped, known, now, toggle>>

CheckWait == IF is_waiting THEN <<Time(now)>> ELSE <<>>

\* echo_cb, once the current time has no more deltas.
EchoCb ==
  /\ mode = "run" /\ deltas = <<>> /\ echo_data.pending
  /\ is_waiting' = FALSE
  /\ IF echo_data.dirty
       THEN /\ PrintLine(CheckWait)
            /\ echo_data' = [echo_data EXCEPT !.dirty = FALSE]
            /\ UNCHANGED <<mode, active_wait>>
       ELSE /\ PrintLine(Append(CheckWait, Echo(echo_data.arg)))
            /\ echo_data' = [echo_data EXCEPT !.pending = FALSE]
            /\ EnterReadCmds
  /\ UNCHANGED <<client, toSim, reaped, known, design>>

\* wait_cb, at the end of a timed wait.
WaitCb ==
  /\ mode = "run" /\ deltas = <<>> /\ active_wait # 0 /\ active_wait = now
  /\ PrintLine(CheckWait)
  /\ is_waiting' = FALSE
  /\ EnterReadCmds
  /\ UNCHANGED <<client, toSim, reaped, echo_data, known, design>>

\* The simulator goes on to the next time at which something happens, or stops.
TimeStep ==
  /\ mode = "run" /\ deltas = <<>> /\ ~echo_data.pending
  /\ active_wait = 0 \/ active_wait # now
  /\ LET next == IF active_wait # 0 /\ active_wait < toggle THEN active_wait ELSE toggle
     IN  IF next > StopTime
           THEN mode' = "gone" /\ UNCHANGED design
           ELSE /\ now' = next
                /\ toggle' = IF next = toggle THEN toggle + HalfPeriod ELSE toggle
                /\ deltas' = IF next = toggle THEN <<[s |-> "clk", v |-> 1 - sv["clk"]]>> ELSE <<>>
                /\ UNCHANGED <<mode, sv>>
  /\ UNCHANGED <<client, toSim, toC, reaped, echo_data, is_waiting, active_wait, known>>

\* The process of a simulator that is gone can be waited for, some time later.
Reap ==
  /\ mode = "gone" /\ ~reaped
  /\ reaped' = TRUE
  /\ UNCHANGED <<client, toSim, toC, mode, echo_data, is_waiting, active_wait, known, design>>

-------------------------------------------------------------------------------

Init ==
  /\ cpc = "start" /\ tosend = <<>> /\ op = [k |-> "start", i |-> 0]
  /\ echo_arg = 0 /\ last = 0
  /\ val = [s \in Signal |-> NoValue] /\ events = {} /\ picos = 0
  /\ dirty_writes = FALSE /\ io_error = FALSE
  /\ toSim = <<>> /\ toC = <<>>
  /\ mode = "read" /\ reaped = FALSE
  /\ echo_data = [dirty |-> FALSE, pending |-> FALSE, arg |-> 0]
  /\ is_waiting = FALSE /\ active_wait = 0 /\ known = {}
  /\ sv = [s \in Signal |-> 0] /\ deltas = <<>> /\ now = 0 /\ toggle = HalfPeriod
  /\ burst = 0 /\ ops = 0

LibraryNext == Write \/ CheckChild \/ Startup \/ ReadLine \/ ReadError \/ Round \/ LoopAgain

SimNext == ReadCommand \/ Delta \/ EchoCb \/ WaitCb \/ TimeStep \/ Reap

\* The client has made its calls, or the test bench has ended.
Finished ==
  /\ cpc = "exited" \/ (cpc = "client" /\ tosend = <<>> /\ op = None /\ ops = MaxOps)
  /\ UNCHANGED vars

Next == LibraryNext \/ Set \/ Get \/ Call \/ Loop \/ SimNext \/ Finished

\* Two processes that the host schedules.  Looking for the child only every so often
\* is still looking again and again.
Spec == Init /\ [][Next]_vars /\ WF_vars(LibraryNext) /\ WF_vars(SimNext)
             /\ SF_vars(CheckChild)

-------------------------------------------------------------------------------
(* Properties.                                                               *)

\* When sim_go_to_idle returns the link is at rest: every line of the simulator has
\* been read, it waits for a command with nothing of its own under way, and the test
\* bench's copies and its time are the simulator's.  A signal may change many times
\* meanwhile, and echoes cross the lines they are an answer to.
IdleIsQuiet ==
  (cpc = "round" /\ ~io_error) =>
    /\ toSim = <<>> /\ toC = <<>> /\ mode = "read"
    /\ deltas = <<>> /\ ~echo_data.pending
    /\ picos = now
    /\ op.k # "start" => val = sv

\* A client that reads a signal sees the design as its writes have left it: unless
\* dirty_writes will make sim_get listen first, the copies are the simulator's.
CopyIsCurrent ==
  (cpc = "client" /\ ~dirty_writes /\ ~io_error) => val = sv /\ toC = <<>>

\* The two processes never wait for each other, each with a full pipe before it
\* ("read commands periodically to avoid filling pipe and deadlocking").
NoMutualBlock ==
  ~ /\ cpc # "exited" /\ tosend # <<>> /\ Len(toSim) = PipeCap
    /\ mode = "read" /\ Len(toC) + Len(Printed(Head(toSim))) > PipeCap

\* Every call of the library comes back, or ends the test bench because the simulator
\* is gone: the last echo is always answered, and a forced wait or a wait for a signal
\* does not go round for ever after the link is broken.
CallEnds == (op # None) ~> (op = None \/ cpc = "exited")

===============================================================================
