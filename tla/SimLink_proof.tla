----------------------------- MODULE SimLink_proof ------------------------------
(***************************************************************************)
(* The idle handshake of the link to the simulator is right, for every     *)
(* length of the pipes, every batch and burst, every set of waits and      *)
(* every stopping time.                                                    *)
(*                                                                         *)
(* The argument.  Outside sim_go_to_idle the bridge listens and owes       *)
(* nothing.  Within it the lines under way number at most Most, because a  *)
(* command makes the bridge print one line at the most, and the test bench *)
(* asks for one echo per line it reads.  So the echoes under way are       *)
(* consecutive numbers that the counter cannot confuse, and the last one   *)
(* is printed when nothing else is left to print.                          *)
(***************************************************************************)
EXTENDS SimLink, Integers, TLAPS, SequenceTheorems

EchoArg == 0 .. EchoMod - 1

Command ==
  [c : {"."}, a : EchoArg] \cup [c : {"r"}, s : Signal]
    \cup [c : {"w"}, s : Signal, v : Bit] \cup [c : {"wait"}, d : Int]

Line ==
  [c : {"."}, a : EchoArg] \cup [c : {"v"}, s : Signal, v : Bit, t : Int]
    \cup [c : {"t"}, t : Int] \cup [c : {"r"}, s : Signal, v : Bit]

Event == [s : Signal, v : Bit]

Op ==
  {None} \cup [k : {"start"}, i : 0 .. 4] \cup [k : {"get", "call"}]
    \cup [k : {"until"}, t : Int] \cup [k : {"signal"}, s : Signal]

ClientTypes ==
  /\ cpc \in {"start", "idle", "round", "client", "exited"}
  /\ tosend \in Seq(Command) /\ op \in Op
  /\ echo_arg \in EchoArg /\ last \in EchoArg
  /\ val \in [Signal -> 0 .. 2] /\ picos \in Int
  /\ dirty_writes \in BOOLEAN /\ io_error \in BOOLEAN /\ burst \in 0 .. Burst

PipeTypes == toSim \in Seq(Command) /\ toC \in Seq(Line)

BridgeTypes ==
  /\ mode \in {"read", "run", "gone"} /\ reaped \in BOOLEAN
  /\ echo_data \in [dirty : BOOLEAN, pending : BOOLEAN, arg : EchoArg]
  /\ is_waiting \in BOOLEAN /\ active_wait \in Int
  /\ known \subseteq Signal
  /\ sv \in [Signal -> Bit] /\ deltas \in Seq(Event) /\ now \in Int /\ toggle \in Int

Types == ClientTypes /\ PipeTypes /\ BridgeTypes

Pending == echo_data.pending

\* The bridge runs the simulation because of a wait or of an echo, not of both.
ModeInv ==
  /\ io_error \/ reaped \/ cpc = "exited" => mode = "gone"
  /\ mode = "gone" => ~Pending /\ (io_error \/ cpc \in {"idle", "exited"})
  /\ mode = "run" => (Pending <=> ~is_waiting)
  /\ mode = "read" => ~is_waiting
  /\ cpc = "start" => op.k = "start" /\ op.i < 4
  /\ cpc = "client" => op.k # "start"

\* Between the calls the bridge listens, with at most the client's writes and their
\* echoes under way.
RestInv ==
  (mode # "gone" /\ cpc # "idle") =>
    /\ mode = "read" /\ ~Pending
    /\ \A j \in DOMAIN tosend : tosend[j].c = "w"
    /\ \A j \in DOMAIN toSim : toSim[j].c = "w"
    /\ \A j \in DOMAIN toC : toC[j].c = "v"
    /\ Len(toC) + Len(toSim) + Len(tosend) <= burst
    /\ (cpc # "client" \/ ~dirty_writes) =>
         tosend = <<>> /\ toSim = <<>> /\ toC = <<>> /\ deltas = <<>>

\* How many echoes ago a was the last.
Ago(a) == IF a <= last THEN last - a ELSE last + EchoMod - a

\* The number after a.
Succ(a) == IF a + 1 = EchoMod THEN 0 ELSE a + 1

\* The most lines under way.
Most == IF Batch > Burst + 1 THEN Batch + 1 ELSE Burst + 2

UnderWay == Len(toC) + Len(toSim) + Len(tosend) + (IF mode = "run" THEN 1 ELSE 0)

\* Nothing but what is in toC is left.
Settled ==
  toSim = <<>> /\ tosend = <<>> /\ mode = "read" /\ ~Pending /\ deltas = <<>>

\* The echoes to come: consecutive, the last one at the end.
AskedInv ==
  (cpc = "idle" /\ mode # "gone") =>
    /\ UnderWay <= Most
    /\ tosend # <<>> => tosend[Len(tosend)] = Echo(last)
    /\ \A j \in DOMAIN tosend : tosend[j].c = "." => j = Len(tosend)
    /\ \A j \in DOMAIN toSim : toSim[j].c = "." =>
         /\ Ago(toSim[j].a) = Len(toSim) - j + Len(tosend)
         /\ Len(tosend) <= 1
         /\ \A k \in DOMAIN toSim : k > j => toSim[k].c = "."
    /\ (tosend = <<>> /\ toSim # <<>>) => toSim[Len(toSim)].c = "."
    /\ Pending =>
         /\ Ago(echo_data.arg) = Len(toSim) + Len(tosend)
         /\ Len(tosend) <= 1
         /\ \A k \in DOMAIN toSim : toSim[k].c = "."

\* The echoes that have come back: the last one with nothing left behind it.
AnswerInv ==
  cpc = "idle" =>
    /\ ~io_error
    /\ echo_arg = Succ(last)
    /\ \A i \in DOMAIN toC : toC[i].c = "." =>
         /\ Ago(toC[i].a) + i <= Most
         /\ Ago(toC[i].a) = 0 => Settled /\ i = Len(toC)

\* What the test bench will know of s when it has read toC.
About(l, s) == l.c \in {"v", "r"} /\ l.s = s

Copied(s) ==
  /\ (\A i \in DOMAIN toC : ~About(toC[i], s)) => val[s] = sv[s]
  /\ \A i \in DOMAIN toC :
       (About(toC[i], s) /\ \A j \in DOMAIN toC : j > i => ~About(toC[j], s)) =>
         toC[i].v = sv[s]

CopyInv == mode # "gone" => \A s \in known : Copied(s)

\* What time the test bench will think it is then.
Timed(l) == l.c \in {"v", "t"}

OnTime ==
  /\ (\A i \in DOMAIN toC : ~Timed(toC[i])) => picos = now
  /\ \A i \in DOMAIN toC :
       (Timed(toC[i]) /\ \A j \in DOMAIN toC : j > i => ~Timed(toC[j])) => toC[i].t = now

TimeInv == (mode = "read" \/ (mode = "run" /\ Pending)) => OnTime

\* The signals are watched, or about to be.
KnownInv ==
  mode # "gone" =>
    /\ op.k # "start" => known = Signal
    /\ op.k = "start" =>
         /\ \A i \in 1 .. op.i :
              \/ Signals[i] \in known
              \/ \E j \in DOMAIN toSim : toSim[j] = ReadCmd(Signals[i])
              \/ \E j \in DOMAIN tosend : tosend[j] = ReadCmd(Signals[i])
         /\ \A j \in DOMAIN toSim : toSim[j].c # "w"
         /\ \A j \in DOMAIN tosend : tosend[j].c # "w"

Inv ==
  /\ Types /\ ModeInv /\ RestInv /\ AskedInv /\ AnswerInv
  /\ CopyInv /\ TimeInv /\ KnownInv

-------------------------------------------------------------------------------
(* Lines and sequences of them.                                              *)

\* The four signals are those of the list that startup goes through.
LEMMA SignalFacts ==
  /\ Signal = {"in", "out", "clk", "q"}
  /\ Len(Signals) = 4
  /\ \A i \in 1 .. 4 : Signals[i] \in Signal
  /\ \A s \in Signal : \E i \in 1 .. 4 : Signals[i] = s
<1>1. DOMAIN Signals = 1 .. 4 /\ Len(Signals) = 4
  BY DEF Signals
<1>2. Signal = {"in", "out", "clk", "q"}
  <2>1. DOMAIN Signals = {1, 2, 3, 4}
    BY <1>1
  <2>2. Signals[1] = "in" /\ Signals[2] = "out" /\ Signals[3] = "clk" /\ Signals[4] = "q"
    BY DEF Signals
  <2> QED  BY <2>1, <2>2 DEF Signal
<1> QED  BY <1>1, <1>2 DEF Signal

\* The fields of a command, by its letter,
LEMMA CommandFacts ==
  ASSUME NEW l \in Command
  PROVE  /\ l.c \in {".", "r", "w", "wait"}
         /\ l.c = "." => l.a \in EchoArg
         /\ l.c = "r" => l.s \in Signal
         /\ l.c = "w" => l.s \in Signal /\ l.v \in Bit
         /\ l.c = "wait" => l.d \in Int
BY DEF Command

\* and those of a line of the bridge.
LEMMA LineFacts ==
  ASSUME NEW l \in Line
  PROVE  /\ l.c \in {".", "v", "t", "r"}
         /\ l.c = "." => l.a \in EchoArg /\ l = Echo(l.a)
         /\ l.c \in {"v", "r"} => l.s \in Signal /\ l.v \in Bit
         /\ l.c \in {"v", "t"} => l.t \in Int
BY DEF Line, Echo

\* What the test bench writes is a command,
LEMMA MakeCommand ==
  /\ \A a \in EchoArg : Echo(a) \in Command /\ Echo(a).c = "." /\ Echo(a).a = a
  /\ \A s \in Signal : ReadCmd(s) \in Command /\ ReadCmd(s).c = "r"
  /\ \A s \in Signal, v \in Bit : WriteCmd(s, v) \in Command /\ WriteCmd(s, v).c = "w"
  /\ \A d \in Int : WaitCmd(d) \in Command /\ WaitCmd(d).c = "wait"
BY DEF Command, Echo, ReadCmd, WriteCmd, WaitCmd

\* and what the bridge prints is a line.
LEMMA MakeLine ==
  /\ \A a \in EchoArg : Echo(a) \in Line /\ Echo(a).c = "." /\ Echo(a).a = a
  /\ \A s \in Signal, v \in Bit, t \in Int :
       /\ Value(s, v, t) \in Line /\ Value(s, v, t).c = "v" /\ Value(s, v, t).s = s
       /\ Value(s, v, t).v = v /\ Value(s, v, t).t = t
  /\ \A t \in Int : Time(t) \in Line /\ Time(t).c = "t" /\ Time(t).t = t
  /\ \A s \in Signal, v \in Bit :
       /\ ReadVal(s, v) \in Line /\ ReadVal(s, v).c = "r" /\ ReadVal(s, v).s = s
       /\ ReadVal(s, v).v = v
BY DEF Line, Echo, Value, Time, ReadVal

\* A sequence with one element more, and with its first taken off.
LEMMA OneMore ==
  ASSUME NEW S, NEW q \in Seq(S), NEW e \in S
  PROVE  /\ Append(q, e) \in Seq(S) /\ Len(Append(q, e)) = Len(q) + 1
         /\ DOMAIN Append(q, e) = 1 .. Len(q) + 1
         /\ \A i \in 1 .. Len(q) : Append(q, e)[i] = q[i]
         /\ Append(q, e)[Len(q) + 1] = e
         /\ Append(q, e) # <<>>
         /\ DOMAIN q = 1 .. Len(q) /\ Len(q) \in Nat
OBVIOUS

\* A sequence without its head.
LEMMA OneLess ==
  ASSUME NEW S, NEW q \in Seq(S), q # <<>>
  PROVE  /\ Tail(q) \in Seq(S) /\ Len(Tail(q)) = Len(q) - 1 /\ Head(q) = q[1]
         /\ Head(q) \in S
         /\ DOMAIN Tail(q) = 1 .. Len(q) - 1
         /\ \A i \in 1 .. Len(q) - 1 : Tail(q)[i] = q[i + 1]
         /\ DOMAIN q = 1 .. Len(q) /\ Len(q) \in Nat /\ Len(q) > 0
OBVIOUS

\* The empty sequence.
LEMMA NoLines ==
  ASSUME NEW S
  PROVE  /\ <<>> \in Seq(S) /\ Len(<<>>) = 0
         /\ \A q \in Seq(S) : (q = <<>> <=> Len(q) = 0) /\ DOMAIN q = 1 .. Len(q)
                                /\ Len(q) \in Nat
OBVIOUS

\* The bridge prints one line or none.
LEMMA Printing ==
  ASSUME NEW S, NEW q \in Seq(S), NEW e \in S
  PROVE  q \o <<>> = q /\ q \o <<e>> = Append(q, e)
BY ConcatEmptySeq, AppendIsConcat

-------------------------------------------------------------------------------
(* What the test bench will know when it has read toC: nothing changes, a    *)
(* line is printed, a line is read.                                          *)

\* Copied is kept by steps that touch neither the signal nor the pipe,
LEMMA CopiedStays ==
  ASSUME NEW s, Copied(s), toC' = toC, val' = val, sv'[s] = sv[s]
  PROVE  Copied(s)'
BY DEF Copied, About

\* by a line printed with the present value,
LEMMA CopiedPrinted ==
  ASSUME NEW s, NEW l \in Line, PipeTypes, toC' = Append(toC, l), val' = val,
         About(l, s) => l.v = sv'[s],
         ~About(l, s) => Copied(s) /\ sv'[s] = sv[s]
  PROVE  Copied(s)'
<1>1. /\ DOMAIN toC' = 1 .. Len(toC) + 1 /\ DOMAIN toC = 1 .. Len(toC) /\ Len(toC) \in Nat
      /\ \A i \in 1 .. Len(toC) : toC'[i] = toC[i]
      /\ toC'[Len(toC) + 1] = l
  BY OneMore DEF PipeTypes
<1>2. CASE About(l, s)
  BY <1>1, <1>2 DEF Copied
<1>3. CASE ~About(l, s)
  BY <1>1, <1>3 DEF Copied
<1> QED  BY <1>2, <1>3

\* and by reading a line.
LEMMA CopiedRead ==
  ASSUME NEW s \in Signal, Copied(s), PipeTypes, val \in [Signal -> 0 .. 2],
         toC # <<>>, toC' = Tail(toC), sv' = sv,
         val' = IF Head(toC).c \in {"v", "r"}
                  THEN [val EXCEPT ![Head(toC).s] = Head(toC).v] ELSE val
  PROVE  Copied(s)'
<1>1. /\ DOMAIN toC' = 1 .. Len(toC) - 1 /\ DOMAIN toC = 1 .. Len(toC)
      /\ Len(toC) \in Nat /\ Len(toC) > 0 /\ Head(toC) = toC[1]
      /\ \A i \in 1 .. Len(toC) - 1 : toC'[i] = toC[i + 1]
  BY OneLess DEF PipeTypes
<1>2. ASSUME \A i \in DOMAIN toC' : ~About(toC'[i], s)
      PROVE  val'[s] = sv'[s]
  <2>1. \A i \in DOMAIN toC : i > 1 => ~About(toC[i], s)
    <3>1. SUFFICES ASSUME NEW i \in DOMAIN toC, i > 1 PROVE ~About(toC[i], s)
      OBVIOUS
    <3>2. i - 1 \in DOMAIN toC' /\ toC'[i - 1] = toC[i]
      BY <1>1, <3>1
    <3> QED  BY <1>2, <3>2
  <2>2. CASE About(toC[1], s)
    <3>1. toC[1].v = sv[s]
      BY <1>1, <2>1, <2>2 DEF Copied
    <3> QED  BY <1>1, <2>2, <3>1 DEF About
  <2>3. CASE ~About(toC[1], s)
    <3>1. val[s] = sv[s]
      BY <1>1, <2>1, <2>3 DEF Copied
    <3>2. ~(toC[1].c \in {"v", "r"} /\ toC[1].s = s)
      BY <2>3 DEF About
    <3> QED  BY <1>1, <3>1, <3>2
  <2> QED  BY <2>2, <2>3
<1>3. ASSUME NEW i \in DOMAIN toC', About(toC'[i], s),
             \A j \in DOMAIN toC' : j > i => ~About(toC'[j], s)
      PROVE  toC'[i].v = sv'[s]
  <2>1. \A j \in DOMAIN toC : j > i + 1 => ~About(toC[j], s)
    <3>1. SUFFICES ASSUME NEW j \in DOMAIN toC, j > i + 1 PROVE ~About(toC[j], s)
      OBVIOUS
    <3>2. j - 1 \in DOMAIN toC' /\ toC'[j - 1] = toC[j] /\ j - 1 > i
      BY <1>1, <3>1
    <3> QED  BY <1>3, <3>2
  <2>2. i + 1 \in DOMAIN toC /\ toC'[i] = toC[i + 1]
    BY <1>1
  <2> QED  BY <1>3, <2>1, <2>2 DEF Copied
<1> QED  BY <1>2, <1>3 DEF Copied, About

\* The same three of the time.
LEMMA OnTimeStays ==
  ASSUME OnTime, toC' = toC, picos' = picos, now' = now
  PROVE  OnTime'
BY DEF OnTime, Timed

\* A line printed with the present time,
LEMMA OnTimePrinted ==
  ASSUME NEW l \in Line, PipeTypes, toC' = Append(toC, l), picos' = picos, now' = now,
         Timed(l) => l.t = now,
         ~Timed(l) => OnTime
  PROVE  OnTime'
<1>1. /\ DOMAIN toC' = 1 .. Len(toC) + 1 /\ DOMAIN toC = 1 .. Len(toC) /\ Len(toC) \in Nat
      /\ \A i \in 1 .. Len(toC) : toC'[i] = toC[i]
      /\ toC'[Len(toC) + 1] = l
  BY OneMore DEF PipeTypes
<1>2. CASE Timed(l)
  BY <1>1, <1>2 DEF OnTime
<1>3. CASE ~Timed(l)
  BY <1>1, <1>3 DEF OnTime
<1> QED  BY <1>2, <1>3

\* and a line read.
LEMMA OnTimeRead ==
  ASSUME OnTime, PipeTypes, toC # <<>>, toC' = Tail(toC), now' = now,
         picos' = IF Head(toC).c \in {"v", "t"} THEN Head(toC).t ELSE picos
  PROVE  OnTime'
<1>1. /\ DOMAIN toC' = 1 .. Len(toC) - 1 /\ DOMAIN toC = 1 .. Len(toC)
      /\ Len(toC) \in Nat /\ Len(toC) > 0 /\ Head(toC) = toC[1]
      /\ \A i \in 1 .. Len(toC) - 1 : toC'[i] = toC[i + 1]
  BY OneLess DEF PipeTypes
<1>2. ASSUME \A i \in DOMAIN toC' : ~Timed(toC'[i])
      PROVE  picos' = now'
  <2>1. \A i \in DOMAIN toC : i > 1 => ~Timed(toC[i])
    <3>1. SUFFICES ASSUME NEW i \in DOMAIN toC, i > 1 PROVE ~Timed(toC[i])
      OBVIOUS
    <3>2. i - 1 \in DOMAIN toC' /\ toC'[i - 1] = toC[i]
      BY <1>1, <3>1
    <3> QED  BY <1>2, <3>2
  <2>2. CASE Timed(toC[1])
    <3>1. toC[1].t = now
      BY <1>1, <2>1, <2>2 DEF OnTime
    <3> QED  BY <1>1, <2>2, <3>1 DEF Timed
  <2>3. CASE ~Timed(toC[1])
    <3>1. picos = now
      BY <1>1, <2>1, <2>3 DEF OnTime
    <3> QED  BY <1>1, <2>3, <3>1 DEF Timed
  <2> QED  BY <2>2, <2>3
<1>3. ASSUME NEW i \in DOMAIN toC', Timed(toC'[i]),
             \A j \in DOMAIN toC' : j > i => ~Timed(toC'[j])
      PROVE  toC'[i].t = now'
  <2>1. \A j \in DOMAIN toC : j > i + 1 => ~Timed(toC[j])
    <3>1. SUFFICES ASSUME NEW j \in DOMAIN toC, j > i + 1 PROVE ~Timed(toC[j])
      OBVIOUS
    <3>2. j - 1 \in DOMAIN toC' /\ toC'[j - 1] = toC[j] /\ j - 1 > i
      BY <1>1, <3>1
    <3> QED  BY <1>3, <3>2
  <2>2. i + 1 \in DOMAIN toC /\ toC'[i] = toC[i + 1]
    BY <1>1
  <2> QED  BY <1>3, <2>1, <2>2 DEF OnTime
<1> QED  BY <1>2, <1>3 DEF OnTime, Timed

-------------------------------------------------------------------------------
(* The echo counter.                                                         *)

\* The assumptions on the constants as facts about Most.
LEMMA Bounds ==
  /\ EchoMod \in Nat /\ EchoMod > 1 /\ Most \in Nat /\ Most < EchoMod
  /\ Batch \in Nat /\ Burst \in Nat /\ Batch + 1 <= Most /\ Burst + 2 <= Most
  /\ Batch > 0 /\ PipeCap \in Nat
BY LinkAssumption, EchoAssumption DEF Most

\* The counter of echoes wraps as Succ does.
LEMMA NextEcho ==
  ASSUME NEW a \in EchoArg
  PROVE  (a + 1) % EchoMod = Succ(a) /\ Succ(a) \in EchoArg
<1>1. EchoMod \in Nat /\ EchoMod > 1 /\ a \in 0 .. EchoMod - 1
  BY Bounds DEF EchoArg
<1>2. CASE a + 1 = EchoMod
  BY <1>1, <1>2, SMTT(30) DEF Succ, EchoArg
<1>3. CASE a + 1 < EchoMod
  BY <1>1, <1>3, SMTT(30) DEF Succ, EchoArg
<1> QED  BY <1>1, <1>2, <1>3

\* One echo more makes the others one older, as long as they are not too old.
LEMMA Older ==
  ASSUME last \in EchoArg, last' = Succ(last), NEW a \in EchoArg,
         Ago(a) + 1 < EchoMod
  PROVE  Ago(a)' = Ago(a) + 1 /\ Ago(a) \in Nat
<1>1. EchoMod \in Nat /\ EchoMod > 1 /\ a \in 0 .. EchoMod - 1 /\ last \in 0 .. EchoMod - 1
  BY Bounds DEF EchoArg
<1> QED  BY <1>1 DEF Ago, Succ

\* The last echo is the only one that is no echo ago.
LEMMA LastIsNew ==
  ASSUME last \in EchoArg
  PROVE  /\ Ago(last) = 0
         /\ \A a \in EchoArg : (Ago(a) = 0 <=> a = last) /\ Ago(a) \in Nat
<1>1. EchoMod \in Nat /\ EchoMod > 1 /\ last \in 0 .. EchoMod - 1
  BY Bounds DEF EchoArg
<1> QED  BY <1>1 DEF Ago, EchoArg

-------------------------------------------------------------------------------
(* The test bench.                                                           *)

\* When the simulator is gone little is left to say.
LEMMA GoneKeeps ==
  ASSUME Types', ModeInv', AnswerInv', mode' = "gone"
  PROVE  Inv'
BY DEF Inv, RestInv, AskedInv, CopyInv, TimeInv, KnownInv

\* Write moves a command into the pipe, or drops it when the simulator has gone.
LEMMA WriteKeeps ==
  ASSUME Inv, Write
  PROVE  Inv'
<1>0. Types /\ ModeInv /\ RestInv /\ AskedInv /\ AnswerInv /\ CopyInv /\ TimeInv /\ KnownInv
  BY DEF Inv
<1>1. /\ tosend # <<>> /\ cpc # "exited" /\ tosend' = Tail(tosend)
      /\ cpc' = cpc /\ op' = op /\ echo_arg' = echo_arg /\ last' = last /\ val' = val
      /\ picos' = picos /\ dirty_writes' = dirty_writes /\ io_error' = io_error
      /\ burst' = burst /\ toC' = toC
      /\ mode' = mode /\ reaped' = reaped /\ echo_data' = echo_data
      /\ is_waiting' = is_waiting /\ active_wait' = active_wait /\ known' = known
      /\ sv' = sv /\ deltas' = deltas /\ now' = now /\ toggle' = toggle
  BY DEF Write, bridge, design
<1>2. /\ tosend' \in Seq(Command) /\ Len(tosend') = Len(tosend) - 1
      /\ Head(tosend) = tosend[1] /\ Head(tosend) \in Command
      /\ DOMAIN tosend' = 1 .. Len(tosend) - 1
      /\ \A i \in 1 .. Len(tosend) - 1 : tosend'[i] = tosend[i + 1]
      /\ DOMAIN tosend = 1 .. Len(tosend) /\ Len(tosend) \in Nat /\ Len(tosend) > 0
  BY <1>0, <1>1, OneLess DEF Types, ClientTypes
<1>3. ModeInv'
  BY <1>0, <1>1 DEF ModeInv, Pending
<1>4. ~Settled /\ ~Settled'
  <2>1. CASE mode = "gone"
    BY <1>1, <2>1 DEF Settled
  <2>2. CASE mode # "gone"
    <3>1. toSim' = Append(toSim, Head(tosend))
      BY <2>2 DEF Write
    <3> QED  BY <1>0, <1>1, <1>2, <3>1, OneMore DEF Settled, Types, PipeTypes
  <2> QED  BY <2>1, <2>2
<1>5. AnswerInv'
  BY <1>0, <1>1, <1>4 DEF AnswerInv, Ago
<1>6. CASE mode = "gone"
  <2>1. toSim' = toSim
    BY <1>6 DEF Write
  <2>2. Types'
    BY <1>0, <1>1, <1>2, <2>1 DEF Types, ClientTypes, PipeTypes, BridgeTypes
  <2> QED  BY <1>1, <1>3, <1>5, <1>6, <2>2, GoneKeeps
<1>7. CASE mode # "gone"
  <2>1. toSim' = Append(toSim, Head(tosend))
    BY <1>7 DEF Write
  <2>2. /\ toSim' \in Seq(Command) /\ Len(toSim') = Len(toSim) + 1
        /\ DOMAIN toSim' = 1 .. Len(toSim) + 1
        /\ \A i \in 1 .. Len(toSim) : toSim'[i] = toSim[i]
        /\ toSim'[Len(toSim) + 1] = tosend[1]
        /\ DOMAIN toSim = 1 .. Len(toSim) /\ Len(toSim) \in Nat /\ toSim' # <<>>
    BY <1>0, <1>2, <2>1, OneMore DEF Types, PipeTypes
  <2>3. Len(toC) \in Nat
    BY <1>0, NoLines DEF Types, PipeTypes
  <2>4. Types'
    BY <1>0, <1>1, <1>2, <2>2 DEF Types, ClientTypes, PipeTypes, BridgeTypes
  <2>5. CopyInv'
    BY <1>0, <1>1, CopiedStays DEF CopyInv
  <2>6. TimeInv'
    BY <1>0, <1>1, OnTimeStays DEF TimeInv, Pending
  <2>7. RestInv'
    <3> SUFFICES ASSUME cpc # "idle" PROVE RestInv'
      BY <1>1 DEF RestInv
    <3>1. /\ mode = "read" /\ ~Pending
          /\ \A j \in DOMAIN tosend : tosend[j].c = "w"
          /\ \A j \in DOMAIN toSim : toSim[j].c = "w"
          /\ \A j \in DOMAIN toC : toC[j].c = "v"
          /\ Len(toC) + Len(toSim) + Len(tosend) <= burst
          /\ cpc = "client" /\ dirty_writes
      BY <1>0, <1>1, <1>7 DEF RestInv
    <3>2. /\ \A j \in DOMAIN tosend' : tosend'[j].c = "w"
          /\ \A j \in DOMAIN toSim' : toSim'[j].c = "w"
          /\ Len(toC) + Len(toSim') + Len(tosend') <= burst
      <4>1. \A j \in DOMAIN tosend' : j + 1 \in DOMAIN tosend /\ tosend'[j] = tosend[j + 1]
        BY <1>2
      <4>2. \A j \in DOMAIN tosend' : tosend'[j].c = "w"
        BY <3>1, <4>1
      <4>3. tosend[1].c = "w"
        BY <1>2, <3>1
      <4>4. \A j \in DOMAIN toSim' : toSim'[j].c = "w"
        BY <2>2, <3>1, <4>3
      <4>5. burst \in Nat
        BY <1>0, Bounds DEF Types, ClientTypes
      <4> QED  BY <1>2, <2>2, <2>3, <3>1, <4>2, <4>4, <4>5
    <3> QED  BY <1>1, <3>1, <3>2 DEF RestInv, Pending
  <2>8. AskedInv'
    <3> SUFFICES ASSUME cpc = "idle" PROVE AskedInv'
      BY <1>1 DEF AskedInv
    <3>1. /\ UnderWay <= Most
          /\ tosend[Len(tosend)] = Echo(last)
          /\ \A j \in DOMAIN tosend : tosend[j].c = "." => j = Len(tosend)
          /\ \A j \in DOMAIN toSim : toSim[j].c = "." =>
               /\ Ago(toSim[j].a) = Len(toSim) - j + Len(tosend)
               /\ Len(tosend) <= 1
               /\ \A k \in DOMAIN toSim : k > j => toSim[k].c = "."
          /\ Pending =>
               /\ Ago(echo_data.arg) = Len(toSim) + Len(tosend)
               /\ Len(tosend) <= 1
               /\ \A k \in DOMAIN toSim : toSim[k].c = "."
      BY <1>0, <1>1, <1>7 DEF AskedInv
    <3>2. Echo(last).c = "." /\ Echo(last).a = last /\ Ago(last) = 0
      BY <1>0, MakeCommand, LastIsNew DEF Types, ClientTypes
    <3>3. UnderWay' <= Most
      BY <1>1, <1>2, <2>2, <2>3, <3>1 DEF UnderWay
    <3>4. /\ tosend' # <<>> => tosend'[Len(tosend')] = Echo(last)
          /\ \A j \in DOMAIN tosend' : tosend'[j].c = "." => j = Len(tosend')
          /\ (tosend' = <<>> /\ toSim' # <<>>) => toSim'[Len(toSim')].c = "."
      <4>1. tosend' = <<>> <=> Len(tosend) = 1
        BY <1>2, NoLines
      <4>2. tosend' # <<>> => tosend'[Len(tosend')] = Echo(last)
        BY <1>2, <3>1, <4>1
      <4>3. \A j \in DOMAIN tosend' : j + 1 \in DOMAIN tosend /\ tosend'[j] = tosend[j + 1]
        BY <1>2
      <4>4. \A j \in DOMAIN tosend' : tosend'[j].c = "." => j = Len(tosend')
        BY <1>2, <3>1, <4>3
      <4> QED  BY <2>2, <3>1, <3>2, <4>1, <4>2, <4>4
    <3>5. \A j \in DOMAIN toSim' : toSim'[j].c = "." =>
               /\ Ago(toSim'[j].a) = Len(toSim') - j + Len(tosend')
               /\ Len(tosend') <= 1
               /\ \A k \in DOMAIN toSim' : k > j => toSim'[k].c = "."
      <4> SUFFICES ASSUME NEW j \in DOMAIN toSim', toSim'[j].c = "."
                   PROVE  /\ Ago(toSim'[j].a) = Len(toSim') - j + Len(tosend')
                          /\ Len(tosend') <= 1
                          /\ \A k \in DOMAIN toSim' : k > j => toSim'[k].c = "."
        OBVIOUS
      <4>1. CASE j = Len(toSim) + 1
        <5>1. Len(tosend) = 1
          BY <1>2, <2>2, <3>1, <4>1
        <5> QED  BY <1>2, <2>2, <3>1, <3>2, <4>1, <5>1
      <4>2. CASE j \in DOMAIN toSim
        <5>1. toSim[j].c = "." /\ toSim'[j] = toSim[j]
          BY <2>2, <4>2
        <5>2. Len(tosend) = 1 /\ Ago(toSim[j].a) = Len(toSim) - j + Len(tosend)
          BY <1>2, <3>1, <4>2, <5>1
        <5>3. \A k \in DOMAIN toSim' : k > j => toSim'[k].c = "."
          BY <2>2, <3>1, <3>2, <4>2, <5>1, <5>2
        <5> QED  BY <1>2, <2>2, <4>2, <5>1, <5>2, <5>3
      <4> QED  BY <2>2, <4>1, <4>2
    <3>6. Pending =>
               /\ Ago(echo_data.arg) = Len(toSim') + Len(tosend')
               /\ Len(tosend') <= 1
               /\ \A k \in DOMAIN toSim' : toSim'[k].c = "."
      BY <1>2, <2>2, <3>1, <3>2
    <3>7. \A a : Ago(a)' = Ago(a)
      BY <1>1 DEF Ago
    <3> QED  BY <1>1, <3>3, <3>4, <3>5, <3>6, <3>7 DEF AskedInv, Pending, Ago
  <2>9. KnownInv'
    <3>1. op.k # "start" => known = Signal
      BY <1>0, <1>7 DEF KnownInv
    <3> SUFFICES ASSUME op.k = "start" PROVE KnownInv'
      BY <1>1, <3>1 DEF KnownInv
    <3>2. /\ \A i \in 1 .. op.i :
               \/ Signals[i] \in known
               \/ \E j \in DOMAIN toSim : toSim[j] = ReadCmd(Signals[i])
               \/ \E j \in DOMAIN tosend : tosend[j] = ReadCmd(Signals[i])
          /\ \A j \in DOMAIN toSim : toSim[j].c # "w"
          /\ \A j \in DOMAIN tosend : tosend[j].c # "w"
      BY <1>0, <1>7 DEF KnownInv
    <3>3. \A x : (\E j \in DOMAIN tosend : tosend[j] = x) =>
                    \/ \E j \in DOMAIN toSim' : toSim'[j] = x
                    \/ \E j \in DOMAIN tosend' : tosend'[j] = x
      <4> SUFFICES ASSUME NEW j \in DOMAIN tosend
                   PROVE  \/ \E k \in DOMAIN toSim' : toSim'[k] = tosend[j]
                          \/ \E k \in DOMAIN tosend' : tosend'[k] = tosend[j]
        OBVIOUS
      <4>1. CASE j = 1
        <5>1. Len(toSim) + 1 \in DOMAIN toSim'
          BY <2>2
        <5> QED  BY <2>2, <4>1, <5>1
      <4>2. CASE j # 1
        <5>1. j - 1 \in DOMAIN tosend' /\ tosend'[j - 1] = tosend[j]
          BY <1>2, <4>2
        <5> QED  BY <5>1
      <4> QED  BY <4>1, <4>2
    <3>4. \A x : (\E j \in DOMAIN toSim : toSim[j] = x) =>
                    (\E j \in DOMAIN toSim' : toSim'[j] = x)
      BY <2>2
    <3>5. /\ \A j \in DOMAIN toSim' : toSim'[j].c # "w"
          /\ \A j \in DOMAIN tosend' : tosend'[j].c # "w"
      <4>1. \A j \in DOMAIN tosend' : j + 1 \in DOMAIN tosend /\ tosend'[j] = tosend[j + 1]
        BY <1>2
      <4>2. \A j \in DOMAIN tosend' : tosend'[j].c # "w"
        BY <3>2, <4>1
      <4>3. tosend[1].c # "w"
        BY <1>2, <3>2
      <4> QED  BY <2>2, <3>2, <4>2, <4>3
    <3>6. \A i \in 1 .. op.i :
               \/ Signals[i] \in known
               \/ \E j \in DOMAIN toSim' : toSim'[j] = ReadCmd(Signals[i])
               \/ \E j \in DOMAIN tosend' : tosend'[j] = ReadCmd(Signals[i])
      BY <3>2, <3>3, <3>4
    <3> QED  BY <1>1, <3>5, <3>6 DEF KnownInv, ReadCmd
  <2> QED  BY <1>3, <1>5, <2>4, <2>5, <2>6, <2>7, <2>8, <2>9 DEF Inv
<1> QED  BY <1>6, <1>7

\* The test bench learns that the simulator has gone.
LEMMA EndKeeps ==
  ASSUME Inv, CheckChild \/ ReadError
  PROVE  Inv'
<1>0. Types /\ ModeInv /\ AnswerInv
  BY DEF Inv
<1>1. /\ tosend' = tosend /\ op' = op /\ echo_arg' = echo_arg /\ last' = last /\ val' = val
      /\ picos' = picos /\ dirty_writes' = dirty_writes /\ burst' = burst
      /\ toSim' = toSim /\ toC' = toC /\ mode' = "gone" /\ mode = "gone"
      /\ reaped' = reaped /\ echo_data' = echo_data
      /\ is_waiting' = is_waiting /\ active_wait' = active_wait /\ known' = known
      /\ sv' = sv /\ deltas' = deltas /\ now' = now /\ toggle' = toggle
      /\ io_error' \in BOOLEAN /\ cpc' \in {"exited", "round"}
      /\ cpc' = "round" => io_error'
  BY <1>0 DEF CheckChild, ReadError, bridge, design, ModeInv, Types, ClientTypes
<1>2. Types'
  BY <1>0, <1>1 DEF Types, ClientTypes, PipeTypes, BridgeTypes
<1>3. ModeInv' /\ AnswerInv'
  BY <1>0, <1>1 DEF ModeInv, AnswerInv, Pending
<1> QED  BY <1>1, <1>2, <1>3, GoneKeeps

\* A call of the library: some lines, and the first echo.
LEMMA GoesIdle ==
  ASSUME Inv, NEW lines \in Seq(Command), NEW o \in Op, GoToIdle(lines, o),
         cpc \in {"start", "client"}, tosend = <<>>,
         \A j \in DOMAIN lines : lines[j].c \notin {".", "w"},
         Len(lines) <= 1 \/ (cpc = "start" /\ Len(lines) <= Batch),
         op.k # "start" => o.k # "start",
         op.k = "start" =>
           /\ o.k = "start"
           /\ \A i \in 1 .. o.i :
                i \in 1 .. op.i \/ \E j \in DOMAIN lines : lines[j] = ReadCmd(Signals[i]),
         val' = val, picos' = picos, io_error' = io_error, burst' = burst,
         dirty_writes' \in BOOLEAN, toSim' = toSim, toC' = toC,
         UNCHANGED <<bridge, design>>
  PROVE  Inv'
<1>0. Types /\ ModeInv /\ RestInv /\ CopyInv /\ TimeInv /\ KnownInv
  BY DEF Inv
<1>1. /\ op' = o
      /\ mode' = mode /\ reaped' = reaped /\ echo_data' = echo_data
      /\ is_waiting' = is_waiting /\ active_wait' = active_wait /\ known' = known
      /\ sv' = sv /\ deltas' = deltas /\ now' = now /\ toggle' = toggle
  BY DEF GoToIdle, bridge, design
<1>2. CASE io_error
  <2>1. cpc' = "round" /\ tosend' = lines /\ echo_arg' = echo_arg /\ last' = last
    BY <1>2 DEF GoToIdle
  <2>2. Types'
    BY <1>0, <1>1, <2>1 DEF Types, ClientTypes, PipeTypes, BridgeTypes
  <2>3. ModeInv' /\ AnswerInv' /\ mode' = "gone"
    BY <1>0, <1>1, <1>2, <2>1 DEF ModeInv, AnswerInv, Pending
  <2> QED  BY <2>2, <2>3, GoneKeeps
<1>3. CASE ~io_error
  <2>1. /\ cpc' = "idle" /\ tosend' = Append(lines, Echo(echo_arg))
        /\ last' = echo_arg /\ echo_arg' = (echo_arg + 1) % EchoMod
    BY <1>3 DEF GoToIdle
  <2>2. /\ echo_arg \in EchoArg /\ echo_arg' = Succ(echo_arg) /\ echo_arg' \in EchoArg
        /\ Echo(echo_arg) \in Command /\ Echo(echo_arg).c = "."
    BY <1>0, <2>1, NextEcho, MakeCommand DEF Types, ClientTypes
  <2>3. /\ tosend' \in Seq(Command) /\ Len(tosend') = Len(lines) + 1
        /\ DOMAIN tosend' = 1 .. Len(lines) + 1 /\ DOMAIN lines = 1 .. Len(lines)
        /\ \A i \in 1 .. Len(lines) : tosend'[i] = lines[i]
        /\ tosend'[Len(lines) + 1] = Echo(echo_arg)
        /\ Len(lines) \in Nat /\ tosend' # <<>>
    BY <2>1, <2>2, OneMore
  <2>4. mode # "gone" /\ cpc # "idle"
    BY <1>0, <1>3 DEF ModeInv
  <2>5. /\ mode = "read" /\ ~Pending
        /\ \A j \in DOMAIN toSim : toSim[j].c = "w"
        /\ \A j \in DOMAIN toC : toC[j].c = "v"
        /\ Len(toC) + Len(toSim) + Len(tosend) <= burst
        /\ cpc = "start" => toSim = <<>> /\ toC = <<>>
    BY <1>0, <2>4 DEF RestInv
  <2>6. Types'
    BY <1>0, <1>1, <2>1, <2>2, <2>3 DEF Types, ClientTypes, PipeTypes, BridgeTypes
  <2>7. ModeInv' /\ RestInv' /\ Pending' = Pending
    BY <1>0, <1>1, <2>1, <2>4 DEF ModeInv, RestInv, Pending
  <2>8. CopyInv'
    BY <1>0, <1>1, CopiedStays DEF CopyInv
  <2>9. TimeInv'
    BY <1>0, <1>1, OnTimeStays DEF TimeInv, Pending
  <2>10. AnswerInv'
    BY <1>3, <2>1, <2>2, <2>5 DEF AnswerInv
  <2>11. UnderWay' <= Most
    <3>1. Len(toC) \in Nat /\ Len(toSim) \in Nat /\ Len(tosend) = 0 /\ burst \in 0 .. Burst
      BY <1>0, NoLines DEF Types, PipeTypes, ClientTypes
    <3>2. UnderWay' = Len(toC) + Len(toSim) + Len(lines) + 1
      BY <1>1, <2>3, <2>5, <3>1 DEF UnderWay
    <3>3. CASE cpc = "start"
      <4>1. Len(toC) = 0 /\ Len(toSim) = 0
        BY <2>5, <3>3, NoLines
      <4> QED  BY <2>3, <3>2, <4>1, Bounds
    <3>4. CASE cpc # "start"
      BY <2>3, <2>5, <3>1, <3>2, <3>4, Bounds
    <3> QED  BY <3>3, <3>4
  <2>12. AskedInv'
    <3>1. /\ tosend'[Len(tosend')] = Echo(last')
          /\ \A j \in DOMAIN tosend' : tosend'[j].c = "." => j = Len(tosend')
      BY <2>1, <2>2, <2>3
    <3>2. \A j \in DOMAIN toSim' : toSim'[j].c # "."
      BY <2>5
    <3> QED  BY <2>3, <2>5, <2>7, <2>11, <3>1, <3>2 DEF AskedInv
  <2>13. KnownInv'
    <3>1. op.k # "start" => known = Signal
      BY <1>0, <2>4 DEF KnownInv
    <3> SUFFICES ASSUME op.k = "start" PROVE KnownInv'
      BY <1>1, <3>1 DEF KnownInv
    <3>2. /\ \A i \in 1 .. op.i :
               \/ Signals[i] \in known
               \/ \E j \in DOMAIN toSim : toSim[j] = ReadCmd(Signals[i])
               \/ \E j \in DOMAIN tosend : tosend[j] = ReadCmd(Signals[i])
          /\ \A j \in DOMAIN toSim : toSim[j].c # "w"
      BY <1>0, <2>4 DEF KnownInv
    <3>3. \A j \in DOMAIN tosend' : tosend'[j].c # "w"
      BY <2>2, <2>3
    <3>4. \A i \in 1 .. o.i :
               \/ Signals[i] \in known
               \/ \E j \in DOMAIN toSim : toSim[j] = ReadCmd(Signals[i])
               \/ \E j \in DOMAIN tosend' : tosend'[j] = ReadCmd(Signals[i])
      <4>1. \A x : (\E j \in DOMAIN lines : lines[j] = x) =>
                      \E j \in DOMAIN tosend' : tosend'[j] = x
        BY <2>3
      <4>2. DOMAIN tosend = {}
        BY NoLines
      <4> QED  BY <3>2, <4>1, <4>2
    <3> QED  BY <1>1, <3>2, <3>3, <3>4 DEF KnownInv, ReadCmd
  <2> QED  BY <2>6, <2>7, <2>8, <2>9, <2>10, <2>12, <2>13 DEF Inv
<1> QED  BY <1>2, <1>3

\* Startup asks for a batch of signals and an echo.
LEMMA StartupKeeps ==
  ASSUME Inv, Startup
  PROVE  Inv'
<1>0. Types /\ ModeInv
  BY DEF Inv
<1>1. op.k = "start" /\ op.i \in 0 .. 3 /\ op = [k |-> "start", i |-> op.i]
  <2>1. op.k = "start" /\ op.i < 4 /\ op \in Op
    BY <1>0 DEF ModeInv, Startup, Types, ClientTypes
  <2>2. op \in [k : {"start"}, i : 0 .. 4]
    BY <2>1 DEF Op, None
  <2> QED  BY <2>1, <2>2
<1>2. /\ Asked(op.i) \in 1 .. 4 /\ Asked(op.i) > op.i /\ Asked(op.i) - op.i <= Batch
  BY <1>1, SignalFacts, Bounds DEF Asked
<1>3. PICK n \in 1 .. 4 : n = Asked(op.i)
  BY <1>2
<1>4. PICK lines : lines = [j \in 1 .. n - op.i |-> ReadCmd(Signals[op.i + j])]
  OBVIOUS
<1>5. PICK o : o = [op EXCEPT !.i = n]
  OBVIOUS
<1>6. /\ cpc = "start" /\ tosend = <<>> /\ GoToIdle(lines, o)
      /\ val' = val /\ picos' = picos /\ io_error' = io_error /\ burst' = burst
      /\ dirty_writes' = dirty_writes /\ toSim' = toSim /\ toC' = toC
      /\ UNCHANGED <<bridge, design>>
  BY <1>3, <1>4, <1>5 DEF Startup
<1>7. o \in Op /\ o.k = "start" /\ o.i = n
  BY <1>1, <1>3, <1>5 DEF Op
<1>8. n - op.i \in 1 .. 4 /\ n - op.i <= Batch /\ n \in Nat /\ op.i \in Nat
  BY <1>1, <1>2, <1>3
<1>9. \A j \in 1 .. n - op.i :
        /\ lines[j] = ReadCmd(Signals[op.i + j]) /\ lines[j] \in Command
        /\ lines[j].c = "r"
  <2> SUFFICES ASSUME NEW j \in 1 .. n - op.i
               PROVE  /\ lines[j] = ReadCmd(Signals[op.i + j]) /\ lines[j] \in Command
                      /\ lines[j].c = "r"
    OBVIOUS
  <2>1. op.i + j \in 1 .. 4
    BY <1>1, <1>8
  <2>2. lines[j] = ReadCmd(Signals[op.i + j])
    BY <1>4
  <2> QED  BY <2>1, <2>2, SignalFacts, MakeCommand
<1>10. DOMAIN lines = 1 .. n - op.i /\ lines \in Seq(Command) /\ Len(lines) = n - op.i
  <2>1. lines \in [1 .. n - op.i -> Command]
    BY <1>4, <1>9
  <2> QED  BY <1>8, <2>1
<1>11. \A i \in 1 .. o.i :
         i \in 1 .. op.i \/ \E j \in DOMAIN lines : lines[j] = ReadCmd(Signals[i])
  <2> SUFFICES ASSUME NEW i \in 1 .. n, i \notin 1 .. op.i
               PROVE  \E j \in DOMAIN lines : lines[j] = ReadCmd(Signals[i])
    BY <1>7
  <2>1. i - op.i \in 1 .. n - op.i /\ op.i + (i - op.i) = i
    BY <1>8
  <2> QED  BY <1>9, <1>10, <2>1
<1>12. \A j \in DOMAIN lines : lines[j].c \notin {".", "w"}
  BY <1>9, <1>10
<1>13. dirty_writes' \in BOOLEAN /\ Len(lines) <= Batch
  BY <1>0, <1>6, <1>8, <1>10 DEF Types, ClientTypes
<1> QED  BY <1>1, <1>6, <1>7, <1>10, <1>11, <1>12, <1>13, GoesIdle

\* The client's calls, and the loops of the library that call again.
LEMMA CallKeeps ==
  ASSUME Inv, Get \/ Call \/ Loop \/ LoopAgain
  PROVE  Inv'
<1>0. Types /\ ModeInv
  BY DEF Inv
<1>1. /\ cpc = "client" /\ tosend = <<>>
      /\ val' = val /\ picos' = picos /\ io_error' = io_error /\ burst' = burst
      /\ dirty_writes' \in BOOLEAN /\ toSim' = toSim /\ toC' = toC
      /\ UNCHANGED <<bridge, design>>
  BY <1>0 DEF Get, Call, Loop, LoopAgain, Ready, Types, ClientTypes
<1>2. op.k # "start"
  BY <1>0, <1>1 DEF ModeInv
<1>3. ASSUME NEW o \in Op, o.k # "start", GoToIdle(<<>>, o)
      PROVE  Inv'
  <2>1. <<>> \in Seq(Command) /\ Len(<<>>) <= 1 /\ DOMAIN <<>> = {}
    BY NoLines
  <2> QED  BY <1>1, <1>2, <1>3, <2>1, GoesIdle
<1>4. ASSUME NEW o \in Op, o.k # "start", NEW l \in Command, l.c \notin {".", "w"},
             GoToIdle(<<l>>, o)
      PROVE  Inv'
  <2>1. PICK lines : lines = <<l>>
    OBVIOUS
  <2>2. /\ lines \in Seq(Command) /\ Len(lines) <= 1
        /\ \A j \in DOMAIN lines : lines[j].c \notin {".", "w"}
    BY <1>4, <2>1
  <2>3. GoToIdle(lines, o)
    BY <1>4, <2>1
  <2> QED  BY <1>1, <1>2, <1>4, <2>2, <2>3, GoesIdle
<1>5. \A d \in Int : WaitCmd(d) \in Command /\ WaitCmd(d).c = "wait"
  BY MakeCommand
<1>6. /\ picos \in Int /\ WaitTimes \subseteq Int /\ op \in Op /\ "q" \in Signal
  BY <1>0, LinkAssumption, SignalFacts DEF Types, ClientTypes
<1>7. CASE Get
  <2>1. [k |-> "get"] \in Op /\ [k |-> "get"].k # "start"
    BY DEF Op
  <2> QED  BY <1>3, <1>7, <2>1 DEF Get
<1>8. CASE Call
  <2>1. [k |-> "call"] \in Op /\ [k |-> "call"].k # "start"
    BY DEF Op
  <2>2. ReadCmd("q") \in Command /\ ReadCmd("q").c = "r"
    BY <1>6, MakeCommand
  <2>3. PICK lines \in {<<>>, <<WaitCmd(0)>>} \cup {<<WaitCmd(d)>> : d \in WaitTimes}
                         \cup {<<ReadCmd(s)>> : s \in {"q"}} :
          GoToIdle(lines, [k |-> "call"])
    BY <1>8 DEF Call
  <2>4. CASE lines = <<>>
    BY <1>3, <2>1, <2>3, <2>4
  <2>5. CASE \E d \in Int : lines = <<WaitCmd(d)>>
    BY <1>4, <1>5, <2>1, <2>3, <2>5
  <2>6. CASE lines = <<ReadCmd("q")>>
    BY <1>4, <2>1, <2>2, <2>3, <2>6
  <2> QED  BY <1>6, <2>3, <2>4, <2>5, <2>6
<1>9. CASE Loop
  <2>1. CASE \E d \in WaitTimes : GoToIdle(<<WaitCmd(d)>>, [k |-> "until", t |-> picos + d])
    <3>1. PICK d \in WaitTimes : GoToIdle(<<WaitCmd(d)>>, [k |-> "until", t |-> picos + d])
      BY <2>1
    <3>2. PICK o : o = [k |-> "until", t |-> picos + d]
      OBVIOUS
    <3>3. d \in Int /\ o \in Op /\ o.k # "start"
      BY <1>6, <3>2 DEF Op
    <3> QED  BY <1>4, <1>5, <3>1, <3>2, <3>3
  <2>2. CASE GoToIdle(<<WaitCmd(0)>>, [k |-> "signal", s |-> "q"])
    <3>1. PICK o : o = [k |-> "signal", s |-> "q"]
      OBVIOUS
    <3>2. o \in Op /\ o.k # "start"
      BY <1>6, <3>1 DEF Op
    <3> QED  BY <1>4, <1>5, <2>2, <3>1, <3>2
  <2> QED  BY <1>9, <2>1, <2>2 DEF Loop
<1>10. CASE LoopAgain
  <2>1. PICK d : d = IF op.k = "until" THEN op.t - picos ELSE 0
    OBVIOUS
  <2>2. op.k = "until" => op.t \in Int
    BY <1>6 DEF Op, None
  <2>3. d \in Int
    BY <1>6, <2>1, <2>2
  <2>4. GoToIdle(<<WaitCmd(d)>>, op)
    BY <1>10, <2>1 DEF LoopAgain
  <2> QED  BY <1>2, <1>4, <1>5, <1>6, <2>3, <2>4
<1> QED  BY <1>7, <1>8, <1>9, <1>10

\* A line is read that is not an echo: the others grow one older.
LEMMA ReadsNews ==
  ASSUME Inv, ReadLine, Head(toC).c # "."
  PROVE  Inv'
<1>0. Types /\ ModeInv /\ RestInv /\ AskedInv /\ AnswerInv /\ CopyInv /\ TimeInv /\ KnownInv
  BY DEF Inv
<1>1. /\ cpc = "idle" /\ cpc' = "idle" /\ tosend = <<>> /\ toC # <<>> /\ toC' = Tail(toC)
      /\ tosend' = <<Echo(echo_arg)>> /\ last' = echo_arg
      /\ echo_arg' = (echo_arg + 1) % EchoMod
      /\ val' = IF Head(toC).c \in {"v", "r"}
                  THEN [val EXCEPT ![Head(toC).s] = Head(toC).v] ELSE val
      /\ picos' = IF Head(toC).c \in {"v", "t"} THEN Head(toC).t ELSE picos
      /\ op' = op /\ dirty_writes' = dirty_writes /\ io_error' = io_error
      /\ burst' = burst /\ toSim' = toSim
      /\ mode' = mode /\ reaped' = reaped /\ echo_data' = echo_data
      /\ is_waiting' = is_waiting /\ active_wait' = active_wait /\ known' = known
      /\ sv' = sv /\ deltas' = deltas /\ now' = now /\ toggle' = toggle
  BY DEF ReadLine, AskAgain, HandleCmd, bridge, design
<1>2. /\ toC' \in Seq(Line) /\ Len(toC') = Len(toC) - 1 /\ Head(toC) \in Line
      /\ DOMAIN toC' = 1 .. Len(toC) - 1
      /\ \A i \in 1 .. Len(toC) - 1 : toC'[i] = toC[i + 1]
      /\ DOMAIN toC = 1 .. Len(toC) /\ Len(toC) \in Nat /\ Len(toC) > 0
  BY <1>0, <1>1, OneLess DEF Types, PipeTypes
<1>3. /\ echo_arg \in EchoArg /\ last \in EchoArg /\ last' = Succ(last)
      /\ echo_arg' = Succ(last') /\ echo_arg' \in EchoArg
      /\ Echo(echo_arg) \in Command /\ Echo(echo_arg).c = "."
  BY <1>0, <1>1, NextEcho, MakeCommand DEF Types, ClientTypes, AnswerInv
<1>4. /\ tosend' \in Seq(Command) /\ Len(tosend') = 1 /\ DOMAIN tosend' = {1}
      /\ tosend'[1] = Echo(last') /\ tosend' # <<>> /\ Len(tosend) = 0
  BY <1>1, <1>3
<1>5. Types'
  <2>1. val' \in [Signal -> 0 .. 2] /\ picos' \in Int
    BY <1>0, <1>1, <1>2, LineFacts DEF Types, ClientTypes, Bit
  <2>2. ClientTypes'
    BY <1>0, <1>1, <1>3, <1>4, <2>1 DEF Types, ClientTypes
  <2>3. PipeTypes' /\ BridgeTypes'
    BY <1>0, <1>1, <1>2 DEF Types, PipeTypes, BridgeTypes
  <2> QED  BY <2>2, <2>3 DEF Types
<1>6. ModeInv' /\ RestInv' /\ Pending' = Pending
  BY <1>0, <1>1 DEF ModeInv, RestInv, Pending
<1>7. AnswerInv'
  <2>1. ASSUME NEW i \in DOMAIN toC', toC'[i].c = ".", NEW a, a = toC'[i].a
        PROVE  Ago(a)' + i <= Most /\ Ago(a)' # 0
    <3>1. i + 1 \in DOMAIN toC /\ toC'[i] = toC[i + 1] /\ i \in Nat /\ i > 0
      BY <1>2
    <3>2. a = toC[i + 1].a
      BY <2>1, <3>1
    <3>3. a \in EchoArg
      BY <1>0, <2>1, <3>1, <3>2, LineFacts DEF Types, PipeTypes
    <3>4. Ago(a) + (i + 1) <= Most /\ Ago(a) \in Nat
      BY <1>0, <1>1, <1>3, <2>1, <3>1, <3>2, <3>3, LastIsNew DEF AnswerInv
    <3>5. Ago(a) + 1 < EchoMod
      BY <3>1, <3>4, Bounds
    <3>6. Ago(a)' = Ago(a) + 1
      BY <1>3, <3>3, <3>5, Older
    <3> QED  BY <3>1, <3>4, <3>6, Bounds
  <2>2. \A i \in DOMAIN toC' : toC'[i].c = "." =>
          (Ago(toC[i].a) + i <= Most /\ Ago(toC[i].a) # 0)'
    BY <2>1 DEF Ago
  <2> QED  BY <1>0, <1>1, <1>3, <2>2 DEF AnswerInv
<1>8. CASE mode = "gone"
  BY <1>1, <1>5, <1>6, <1>7, <1>8, GoneKeeps
<1>9. CASE mode # "gone"
  <2>1. CopyInv'
    BY <1>0, <1>1, CopiedRead DEF CopyInv, Types, ClientTypes, BridgeTypes
  <2>2. TimeInv'
    BY <1>0, <1>1, <1>6, OnTimeRead DEF TimeInv, Types
  <2>3. KnownInv'
    <3>1. op.k # "start" => known = Signal
      BY <1>0, <1>9 DEF KnownInv
    <3> SUFFICES ASSUME op.k = "start" PROVE KnownInv'
      BY <1>1, <3>1 DEF KnownInv
    <3>2. DOMAIN tosend = {} /\ tosend'[1].c = "."
      BY <1>1, <1>3, <1>4, NoLines
    <3>3. \A i \in 1 .. op.i :
               \/ Signals[i] \in known
               \/ \E j \in DOMAIN toSim : toSim[j] = ReadCmd(Signals[i])
      BY <1>0, <1>9, <3>2 DEF KnownInv
    <3>4. \A j \in DOMAIN toSim : toSim[j].c # "w"
      BY <1>0, <1>9 DEF KnownInv
    <3>5. \A j \in DOMAIN tosend' : tosend'[j].c # "w"
      BY <1>4, <3>2
    <3> QED  BY <1>1, <3>3, <3>4, <3>5 DEF KnownInv, ReadCmd
  <2>4. AskedInv'
    <3>1. /\ UnderWay <= Most
          /\ \A j \in DOMAIN toSim : toSim[j].c = "." =>
               /\ Ago(toSim[j].a) = Len(toSim) - j
               /\ \A k \in DOMAIN toSim : k > j => toSim[k].c = "."
          /\ Pending =>
               /\ Ago(echo_data.arg) = Len(toSim)
               /\ \A k \in DOMAIN toSim : toSim[k].c = "."
      <4>1. Len(toSim) \in Nat /\ DOMAIN toSim = 1 .. Len(toSim)
        BY <1>0, NoLines DEF Types, PipeTypes
      <4> QED  BY <1>0, <1>1, <1>4, <1>9, <4>1 DEF AskedInv
    <3>2. Len(toSim) \in Nat /\ DOMAIN toSim = 1 .. Len(toSim)
      BY <1>0, NoLines DEF Types, PipeTypes
    <3>3. UnderWay' <= Most /\ Len(toSim) + 1 <= Most
      BY <1>1, <1>2, <1>4, <3>1, <3>2, Bounds DEF UnderWay
    <3>4. ASSUME NEW j \in DOMAIN toSim, toSim[j].c = "."
          PROVE  Ago(toSim[j].a)' = Len(toSim) - j + 1
      <4>1. PICK a : a = toSim[j].a
        OBVIOUS
      <4>2. a \in EchoArg
        BY <1>0, <3>2, <3>4, <4>1, CommandFacts DEF Types, PipeTypes
      <4>3. Ago(a) = Len(toSim) - j /\ Ago(a) + 1 < EchoMod
        BY <3>1, <3>2, <3>3, <3>4, <4>1, Bounds
      <4>4. Ago(a)' = Len(toSim) - j + 1
        BY <1>3, <4>2, <4>3, Older
      <4> QED  BY <1>1, <4>1, <4>4 DEF Ago
    <3>5. Pending => Ago(echo_data.arg)' = Len(toSim) + 1
      <4> SUFFICES ASSUME Pending PROVE Ago(echo_data.arg)' = Len(toSim) + 1
        OBVIOUS
      <4>1. PICK a : a = echo_data.arg
        OBVIOUS
      <4>2. a \in EchoArg
        BY <1>0, <4>1 DEF Types, BridgeTypes
      <4>3. Ago(a) = Len(toSim) /\ Ago(a) + 1 < EchoMod
        BY <3>1, <3>2, <3>3, <4>1, Bounds
      <4>4. Ago(a)' = Len(toSim) + 1
        BY <1>3, <4>2, <4>3, Older
      <4> QED  BY <1>1, <4>1, <4>4 DEF Ago
    <3>6. \A j \in DOMAIN toSim' : toSim'[j].c = "." =>
            /\ Ago(toSim[j].a)' = Len(toSim') - j + Len(tosend')
            /\ \A k \in DOMAIN toSim' : k > j => toSim'[k].c = "."
      BY <1>1, <1>4, <3>1, <3>2, <3>4
    <3>7. Pending' =>
            /\ Ago(echo_data.arg)' = Len(toSim') + Len(tosend')
            /\ \A k \in DOMAIN toSim' : toSim'[k].c = "."
      BY <1>1, <1>4, <1>6, <3>1, <3>2, <3>5
    <3> QED  BY <1>1, <1>4, <3>3, <3>6, <3>7 DEF AskedInv, Ago
  <2> QED  BY <1>0, <1>5, <1>6, <1>7, <2>1, <2>2, <2>3, <2>4 DEF Inv
<1> QED  BY <1>8, <1>9

\* An echo is read: the last one ends sim_go_to_idle, others are passed over.
LEMMA ReadsEcho ==
  ASSUME Inv, ReadLine, Head(toC).c = "."
  PROVE  Inv'
<1>0. Types /\ ModeInv /\ RestInv /\ AskedInv /\ AnswerInv /\ CopyInv /\ TimeInv /\ KnownInv
  BY DEF Inv
<1>1. /\ cpc = "idle" /\ tosend = <<>> /\ toC # <<>> /\ toC' = Tail(toC)
      /\ cpc' = IF Head(toC) = Echo(last) THEN "round" ELSE "idle"
      /\ tosend' = tosend /\ last' = last /\ echo_arg' = echo_arg
      /\ val' = val /\ picos' = picos
      /\ op' = op /\ dirty_writes' = dirty_writes /\ io_error' = io_error
      /\ burst' = burst /\ toSim' = toSim
      /\ mode' = mode /\ reaped' = reaped /\ echo_data' = echo_data
      /\ is_waiting' = is_waiting /\ active_wait' = active_wait /\ known' = known
      /\ sv' = sv /\ deltas' = deltas /\ now' = now /\ toggle' = toggle
  BY DEF ReadLine, IsLastEcho, bridge, design
<1>2. /\ toC' \in Seq(Line) /\ Len(toC') = Len(toC) - 1
      /\ Head(toC) \in Line /\ Head(toC) = toC[1]
      /\ DOMAIN toC' = 1 .. Len(toC) - 1
      /\ \A i \in 1 .. Len(toC) - 1 : toC'[i] = toC[i + 1]
      /\ DOMAIN toC = 1 .. Len(toC) /\ Len(toC) \in Nat /\ Len(toC) > 0
  BY <1>0, <1>1, OneLess DEF Types, PipeTypes
<1>3. Types'
  BY <1>0, <1>1, <1>2 DEF Types, ClientTypes, PipeTypes, BridgeTypes
<1>4. /\ mode # "gone" => CopyInv'
      /\ TimeInv'
  <2>1. /\ val' = IF Head(toC).c \in {"v", "r"}
                    THEN [val EXCEPT ![Head(toC).s] = Head(toC).v] ELSE val
        /\ picos' = IF Head(toC).c \in {"v", "t"} THEN Head(toC).t ELSE picos
    BY <1>1
  <2>2. mode # "gone" => CopyInv'
    BY <1>0, <1>1, <2>1, CopiedRead DEF CopyInv, Types, ClientTypes, BridgeTypes
  <2>3. TimeInv'
    BY <1>0, <1>1, <2>1, OnTimeRead DEF TimeInv, Types, Pending
  <2> QED  BY <2>2, <2>3
<1>5. CASE Head(toC) = Echo(last)
  <2>1. Settled /\ Len(toC) = 1
    <3>1. toC[1].a = last /\ toC[1].c = "." /\ Ago(last) = 0 /\ 1 \in DOMAIN toC
      BY <1>0, <1>2, <1>5, LastIsNew, MakeLine DEF Types, ClientTypes
    <3> QED  BY <1>0, <1>1, <3>1 DEF AnswerInv
  <2>2. toC' = <<>>
    BY <1>2, <2>1, NoLines
  <2>3. ModeInv' /\ AnswerInv' /\ AskedInv'
    BY <1>0, <1>1, <1>5, <2>1 DEF ModeInv, AnswerInv, AskedInv, Settled, Pending
  <2>4. RestInv'
    <3>1. Len(toC') + Len(toSim') + Len(tosend') <= burst'
      BY <1>0, <1>1, <2>1, <2>2, NoLines, Bounds DEF Settled, Types, ClientTypes
    <3>2. DOMAIN toC' = {} /\ DOMAIN toSim' = {} /\ DOMAIN tosend' = {}
      BY <1>1, <2>1, <2>2, NoLines DEF Settled
    <3> QED  BY <1>1, <2>1, <2>2, <3>1, <3>2 DEF RestInv, Settled, Pending
  <2>5. KnownInv'
    BY <1>0, <1>1 DEF KnownInv, ReadCmd
  <2> QED  BY <1>3, <1>4, <2>1, <2>3, <2>4, <2>5 DEF Inv, Settled
<1>6. CASE Head(toC) # Echo(last)
  <2>1. cpc' = "idle"
    BY <1>1, <1>6
  <2>2. ModeInv' /\ RestInv'
    BY <1>0, <1>1, <2>1 DEF ModeInv, RestInv, Pending
  <2>3. AnswerInv'
    <3>1. ASSUME NEW i \in DOMAIN toC', toC'[i].c = "."
          PROVE  /\ Ago(toC'[i].a) + i <= Most
                 /\ Ago(toC'[i].a) = 0 => Settled /\ i = Len(toC')
      <4>1. i + 1 \in DOMAIN toC /\ toC'[i] = toC[i + 1] /\ i \in Nat
        BY <1>2
      <4>2. /\ Ago(toC[i + 1].a) + (i + 1) <= Most
            /\ Ago(toC[i + 1].a) = 0 => Settled /\ i + 1 = Len(toC)
        BY <1>0, <1>1, <3>1, <4>1 DEF AnswerInv
      <4>3. Ago(toC[i + 1].a) \in Nat
        BY <1>0, <3>1, <4>1, LastIsNew, LineFacts DEF Types, PipeTypes, ClientTypes
      <4> QED  BY <1>2, <4>1, <4>2, <4>3, Bounds
    <3>2. Settled' <=> Settled
      BY <1>1 DEF Settled, Pending
    <3> QED  BY <1>0, <1>1, <3>1, <3>2 DEF AnswerInv, Ago
  <2>4. CASE mode = "gone"
    BY <1>1, <1>3, <2>2, <2>3, <2>4, GoneKeeps
  <2>5. CASE mode # "gone"
    <3>1. KnownInv'
      BY <1>0, <1>1 DEF KnownInv, ReadCmd
    <3>2. UnderWay' <= Most
      <4>1. Len(toSim) \in Nat /\ Len(tosend) = 0
        BY <1>0, <1>1, NoLines DEF Types, PipeTypes
      <4>2. UnderWay <= Most
        BY <1>0, <1>1, <2>5 DEF AskedInv
      <4> QED  BY <1>1, <1>2, <4>1, <4>2, Bounds DEF UnderWay
    <3>3. AskedInv'
      BY <1>0, <1>1, <2>1, <2>5, <3>2 DEF AskedInv, Ago, Pending
    <3> QED  BY <1>3, <1>4, <2>2, <2>3, <2>5, <3>1, <3>3 DEF Inv
  <2> QED  BY <2>4, <2>5
<1> QED  BY <1>5, <1>6

\* A write of the client or of a callback.
LEMMA ClientWrites ==
  ASSUME Inv, cpc \in {"round", "client"}, tosend = <<>>, op.k # "start", NEW v \in Bit,
         tosend' = <<WriteCmd("in", v)>>, dirty_writes' = TRUE, cpc' = "client",
         op' \in Op, op'.k # "start", burst' \in 0 .. Burst,
         mode # "gone" => Len(toC) + Len(toSim) + 1 <= burst',
         UNCHANGED <<echo_arg, last, val, picos, io_error, toSim, toC, bridge, design>>
  PROVE  Inv'
<1>0. Types /\ ModeInv /\ RestInv /\ CopyInv /\ TimeInv /\ KnownInv
  BY DEF Inv
<1>1. /\ echo_arg' = echo_arg /\ last' = last /\ val' = val /\ picos' = picos
      /\ io_error' = io_error /\ toSim' = toSim /\ toC' = toC
      /\ mode' = mode /\ reaped' = reaped /\ echo_data' = echo_data
      /\ is_waiting' = is_waiting /\ active_wait' = active_wait /\ known' = known
      /\ sv' = sv /\ deltas' = deltas /\ now' = now /\ toggle' = toggle
  BY DEF bridge, design
<1>2. WriteCmd("in", v) \in Command /\ WriteCmd("in", v).c = "w"
  BY MakeCommand, SignalFacts
<1>3. /\ tosend' \in Seq(Command) /\ Len(tosend') = 1 /\ DOMAIN tosend' = {1}
      /\ tosend'[1].c = "w"
  BY <1>2
<1>4. Types'
  BY <1>0, <1>1, <1>3 DEF Types, ClientTypes, PipeTypes, BridgeTypes
<1>5. ModeInv' /\ AnswerInv' /\ AskedInv'
  BY <1>0, <1>1 DEF ModeInv, AnswerInv, AskedInv, Pending
<1>6. CopyInv'
  BY <1>0, <1>1, CopiedStays DEF CopyInv
<1>7. TimeInv'
  BY <1>0, <1>1, OnTimeStays DEF TimeInv, Pending
<1>8. KnownInv'
  BY <1>0, <1>1 DEF KnownInv
<1>9. RestInv'
  <2> SUFFICES ASSUME mode # "gone" PROVE RestInv'
    BY <1>1 DEF RestInv
  <2>1. /\ mode = "read" /\ ~Pending
        /\ \A j \in DOMAIN toSim : toSim[j].c = "w"
        /\ \A j \in DOMAIN toC : toC[j].c = "v"
    BY <1>0 DEF RestInv
  <2>2. \A j \in DOMAIN tosend' : tosend'[j].c = "w"
    BY <1>3
  <2> QED  BY <1>1, <1>3, <2>1, <2>2 DEF RestInv, Pending
<1> QED  BY <1>4, <1>5, <1>6, <1>7, <1>8, <1>9 DEF Inv

\* sim_set writes a value.
LEMMA SetKeeps ==
  ASSUME Inv, Set
  PROVE  Inv'
<1>0. Types /\ ModeInv /\ RestInv
  BY DEF Inv
<1>1. PICK v \in Bit :
        /\ Ready /\ burst < Burst
        /\ tosend' = <<WriteCmd("in", v)>>
        /\ dirty_writes' = MarkDirty(FALSE)
        /\ burst' = burst + 1
        /\ UNCHANGED <<cpc, op, echo_arg, last, val, picos, io_error, toSim, toC,
                       bridge, design>>
  BY DEF Set
<1>2. /\ cpc = "client" /\ tosend = <<>> /\ op.k # "start" /\ dirty_writes' = TRUE
      /\ cpc' = "client" /\ op' = op /\ op \in Op
  BY <1>0, <1>1 DEF Ready, MarkDirty, ModeInv, Types, ClientTypes
<1>3. burst' \in 0 .. Burst /\ burst \in Nat
  BY <1>0, <1>1, Bounds DEF Types, ClientTypes
<1>4. mode # "gone" => Len(toC) + Len(toSim) + 1 <= burst'
  <2> SUFFICES ASSUME mode # "gone" PROVE Len(toC) + Len(toSim) + 1 <= burst'
    OBVIOUS
  <2>1. Len(toC) + Len(toSim) + Len(tosend) <= burst
    BY <1>0, <1>2 DEF RestInv
  <2>2. Len(tosend) = 0 /\ Len(toC) \in Nat /\ Len(toSim) \in Nat
    BY <1>0, <1>2, NoLines DEF Types, PipeTypes
  <2> QED  BY <1>1, <1>3, <2>1, <2>2
<1> QED  BY <1>1, <1>2, <1>3, <1>4, ClientWrites

\* A round is over: startup goes on, or the callbacks run, which may write.
LEMMA RoundKeeps ==
  ASSUME Inv, Round
  PROVE  Inv'
<1>0. Types /\ ModeInv /\ RestInv /\ CopyInv /\ TimeInv /\ KnownInv
  BY DEF Inv
<1>1. /\ cpc = "round" /\ tosend = <<>>
      /\ echo_arg' = echo_arg /\ last' = last /\ val' = val /\ picos' = picos
      /\ io_error' = io_error /\ toSim' = toSim /\ toC' = toC
      /\ mode' = mode /\ reaped' = reaped /\ echo_data' = echo_data
      /\ is_waiting' = is_waiting /\ active_wait' = active_wait /\ known' = known
      /\ sv' = sv /\ deltas' = deltas /\ now' = now /\ toggle' = toggle
  BY DEF Round, bridge, design
<1>2. mode # "gone" =>
        /\ mode = "read" /\ ~Pending /\ toSim = <<>> /\ toC = <<>> /\ deltas = <<>>
  BY <1>0, <1>1 DEF RestInv
<1>3. None \in Op /\ None.k = "none" /\ op \in Op
  BY <1>0 DEF Op, None, Types, ClientTypes
<1>4. CASE \E v \in Bit :
              /\ op.k # "start" /\ cpc' = "client"
              /\ op' = IF Unfinished(op) THEN op ELSE None
              /\ Burst > 0 /\ tosend' = <<WriteCmd("in", v)>>
              /\ dirty_writes' = MarkDirty(TRUE) /\ burst' = 1
  <2>1. PICK v \in Bit :
              /\ op.k # "start" /\ cpc' = "client"
              /\ op' = IF Unfinished(op) THEN op ELSE None
              /\ Burst > 0 /\ tosend' = <<WriteCmd("in", v)>>
              /\ dirty_writes' = MarkDirty(TRUE) /\ burst' = 1
    BY <1>4
  <2>2. op' \in Op /\ op'.k # "start" /\ dirty_writes' = TRUE
    BY <1>3, <2>1 DEF MarkDirty
  <2>3. burst' \in 0 .. Burst
    BY <2>1, Bounds
  <2>4. mode # "gone" => Len(toC) + Len(toSim) + 1 <= burst'
    BY <1>2, <2>1, NoLines
  <2>5. UNCHANGED <<echo_arg, last, val, picos, io_error, toSim, toC, bridge, design>>
    BY DEF Round
  <2> QED  BY <1>1, <2>1, <2>2, <2>3, <2>4, <2>5, ClientWrites
<1>5. CASE /\ tosend' = tosend /\ dirty_writes' = dirty_writes /\ burst' = 0
           /\ \/ op.k = "start" /\ op.i < 4 /\ cpc' = "start" /\ op' = op
              \/ op.k = "start" /\ ~(op.i < 4) /\ cpc' = "client" /\ op' = None
              \/ op.k # "start" /\ cpc' = "client" /\ op' \in {op, None}
  <2>1. Types'
    BY <1>0, <1>1, <1>3, <1>5, Bounds DEF Types, ClientTypes, PipeTypes, BridgeTypes
  <2>2. ModeInv' /\ AnswerInv' /\ AskedInv'
    BY <1>0, <1>1, <1>3, <1>5 DEF ModeInv, AnswerInv, AskedInv, Pending
  <2>3. CopyInv'
    BY <1>0, <1>1, CopiedStays DEF CopyInv
  <2>4. TimeInv'
    BY <1>0, <1>1, OnTimeStays DEF TimeInv, Pending
  <2>5. RestInv'
    <3> SUFFICES ASSUME mode # "gone" PROVE RestInv'
      BY <1>1 DEF RestInv
    <3>1. /\ DOMAIN toC = {} /\ DOMAIN toSim = {} /\ DOMAIN tosend = {}
          /\ Len(toC) = 0 /\ Len(toSim) = 0 /\ Len(tosend) = 0
      BY <1>1, <1>2, NoLines
    <3> QED  BY <1>1, <1>2, <1>5, <3>1 DEF RestInv, Pending
  <2>6. KnownInv'
    <3> SUFFICES ASSUME mode # "gone" PROVE KnownInv'
      BY <1>1 DEF KnownInv
    <3>1. CASE op.k = "start" /\ op' = op
      BY <1>0, <1>1, <1>5, <3>1 DEF KnownInv, ReadCmd
    <3>2. CASE op.k = "start" /\ ~(op.i < 4) /\ op' = None
      <4>1. op.i = 4
        BY <1>3, <3>2 DEF Op, None
      <4>2. DOMAIN toSim = {} /\ DOMAIN tosend = {}
        BY <1>1, <1>2, NoLines
      <4>3. \A i \in 1 .. 4 : Signals[i] \in known
        BY <1>0, <3>2, <4>1, <4>2 DEF KnownInv
      <4>4. known = Signal
        <5>1. \A s \in Signal : s \in known
          BY <4>3, SignalFacts
        <5>2. known \subseteq Signal
          BY <1>0 DEF Types, BridgeTypes
        <5> QED  BY <5>1, <5>2
      <4> QED  BY <1>1, <1>3, <3>2, <4>4 DEF KnownInv
    <3>3. CASE op.k # "start"
      BY <1>0, <1>1, <1>3, <1>5, <3>3 DEF KnownInv
    <3> QED  BY <1>5, <3>1, <3>2, <3>3
  <2> QED  BY <2>1, <2>2, <2>3, <2>4, <2>5, <2>6 DEF Inv
<1> QED
  <2>1. CASE op.k = "start"
    <3>1. Len(Signals) = 4
      BY SignalFacts
    <3> QED  BY <1>5, <2>1, <3>1 DEF Round
  <2>2. CASE op.k # "start"
    <3>1. /\ cpc' = "client" /\ op' = IF Unfinished(op) THEN op ELSE None
          /\ \/ UNCHANGED <<tosend, dirty_writes, ops>> /\ burst' = 0
             \/ \E v \in Bit :
                  /\ ops < MaxOps /\ Burst > 0
                  /\ tosend' = <<WriteCmd("in", v)>>
                  /\ dirty_writes' = MarkDirty(TRUE) /\ burst' = 1 /\ ops' = ops + 1
      BY <2>2 DEF Round
    <3>2. CASE UNCHANGED <<tosend, dirty_writes, ops>> /\ burst' = 0
      BY <1>5, <2>2, <3>1, <3>2
    <3>3. CASE \E v \in Bit :
                  /\ ops < MaxOps /\ Burst > 0
                  /\ tosend' = <<WriteCmd("in", v)>>
                  /\ dirty_writes' = MarkDirty(TRUE) /\ burst' = 1 /\ ops' = ops + 1
      BY <1>4, <2>2, <3>1, <3>3
    <3> QED  BY <3>1, <3>2, <3>3
  <2> QED  BY <2>1, <2>2

-------------------------------------------------------------------------------
(* The bridge.                                                               *)

\* A step of the bridge leaves the test bench alone.
LEMMA ClientSame ==
  ASSUME UNCHANGED client, ClientTypes
  PROVE  /\ cpc' = cpc /\ tosend' = tosend /\ op' = op /\ echo_arg' = echo_arg
         /\ last' = last /\ val' = val /\ picos' = picos /\ dirty_writes' = dirty_writes
         /\ io_error' = io_error /\ burst' = burst /\ ClientTypes'
BY DEF client, ClientTypes

\* waitpid reports the end of the simulator.
LEMMA ReapKeeps ==
  ASSUME Inv, Reap
  PROVE  Inv'
<1>0. Types /\ ModeInv /\ AnswerInv
  BY DEF Inv
<1>1. /\ cpc' = cpc /\ tosend' = tosend /\ op' = op /\ echo_arg' = echo_arg
      /\ last' = last /\ io_error' = io_error /\ ClientTypes'
  BY <1>0, ClientSame DEF Reap, Types
<1>2. /\ mode' = "gone" /\ mode = "gone" /\ reaped' = TRUE /\ toSim' = toSim /\ toC' = toC
      /\ echo_data' = echo_data
      /\ is_waiting' = is_waiting /\ active_wait' = active_wait /\ known' = known
      /\ sv' = sv /\ deltas' = deltas /\ now' = now /\ toggle' = toggle
  BY DEF Reap, design
<1>3. Types'
  BY <1>0, <1>1, <1>2 DEF Types, PipeTypes, BridgeTypes
<1>4. ModeInv' /\ AnswerInv'
  BY <1>0, <1>1, <1>2 DEF ModeInv, AnswerInv, Settled, Ago, Pending
<1> QED  BY <1>2, <1>3, <1>4, GoneKeeps

\* The simulator moves on in time.
LEMMA TimeStepKeeps ==
  ASSUME Inv, TimeStep
  PROVE  Inv'
<1>0. Types /\ ModeInv /\ RestInv /\ AskedInv /\ AnswerInv /\ CopyInv /\ KnownInv
  BY DEF Inv
<1>1. /\ cpc' = cpc /\ tosend' = tosend /\ op' = op /\ echo_arg' = echo_arg
      /\ last' = last /\ val' = val /\ picos' = picos /\ io_error' = io_error
      /\ dirty_writes' = dirty_writes /\ burst' = burst /\ ClientTypes'
  BY <1>0, ClientSame DEF TimeStep, Types
<1>2. /\ mode = "run" /\ ~Pending /\ toSim' = toSim /\ toC' = toC
      /\ reaped' = reaped /\ echo_data' = echo_data
      /\ is_waiting' = is_waiting /\ active_wait' = active_wait /\ known' = known
      /\ sv' = sv
  BY DEF TimeStep, design, Pending
<1>3. mode' \in {"run", "gone"} /\ deltas' \in Seq(Event) /\ now' \in Int /\ toggle' \in Int
  <2>1. PICK next : next = IF active_wait # 0 /\ active_wait < toggle THEN active_wait ELSE toggle
    OBVIOUS
  <2>2. next \in Int /\ toggle \in Int /\ HalfPeriod \in Int /\ deltas \in Seq(Event)
        /\ now \in Int
    BY <1>0, <2>1, LinkAssumption DEF Types, BridgeTypes
  <2>3. [s |-> "clk", v |-> 1 - sv["clk"]] \in Event
    <3>1. "clk" \in Signal /\ sv["clk"] \in {0, 1}
      BY <1>0, SignalFacts DEF Types, BridgeTypes, Bit
    <3>2. 1 - sv["clk"] \in Bit
      BY <3>1 DEF Bit
    <3> QED  BY <3>1, <3>2 DEF Event
  <2>4. CASE next > StopTime
    BY <2>1, <2>2, <2>4 DEF TimeStep, design
  <2>5. CASE ~(next > StopTime)
    <3>1. /\ now' = next
          /\ toggle' = IF next = toggle THEN toggle + HalfPeriod ELSE toggle
          /\ deltas' = IF next = toggle THEN <<[s |-> "clk", v |-> 1 - sv["clk"]]>> ELSE <<>>
          /\ mode' = mode
      BY <2>1, <2>5 DEF TimeStep
    <3>2. deltas' \in Seq(Event)
      BY <2>3, <3>1
    <3> QED  BY <1>2, <2>2, <3>1, <3>2
  <2> QED  BY <2>4, <2>5
<1>4. Types'
  BY <1>0, <1>1, <1>2, <1>3 DEF Types, PipeTypes, BridgeTypes
<1>5. cpc = "idle"
  BY <1>0, <1>2 DEF RestInv
<1>6. ModeInv' /\ AnswerInv'
  BY <1>0, <1>1, <1>2, <1>3, <1>5 DEF ModeInv, AnswerInv, Settled, Ago, Pending
<1>7. CASE mode' = "gone"
  BY <1>4, <1>6, <1>7, GoneKeeps
<1>8. CASE mode' = "run"
  <2>1. RestInv' /\ TimeInv' /\ KnownInv'
    BY <1>0, <1>1, <1>2, <1>5, <1>8 DEF RestInv, TimeInv, KnownInv, Pending, ReadCmd
  <2>2. AskedInv'
    BY <1>0, <1>1, <1>2, <1>5, <1>8 DEF AskedInv, UnderWay, Ago, Pending
  <2>3. CopyInv'
    BY <1>0, <1>1, <1>2, <1>8, CopiedStays DEF CopyInv
  <2> QED  BY <1>4, <1>6, <2>1, <2>2, <2>3 DEF Inv
<1> QED  BY <1>3, <1>7, <1>8

\* echo_cb: a change since the echo was asked for puts it off once more, else the
\* echo is printed, and if it is the last nothing is left.
LEMMA EchoCbKeeps ==
  ASSUME Inv, EchoCb
  PROVE  Inv'
<1>0. Types /\ ModeInv /\ RestInv /\ AskedInv /\ AnswerInv /\ CopyInv /\ TimeInv /\ KnownInv
  BY DEF Inv
<1>1. /\ cpc' = cpc /\ tosend' = tosend /\ op' = op /\ echo_arg' = echo_arg
      /\ last' = last /\ val' = val /\ picos' = picos /\ io_error' = io_error
      /\ dirty_writes' = dirty_writes /\ burst' = burst /\ ClientTypes'
  BY <1>0, ClientSame DEF EchoCb, Types
<1>2. /\ mode = "run" /\ deltas = <<>> /\ Pending /\ is_waiting' = FALSE
      /\ toSim' = toSim /\ reaped' = reaped /\ known' = known
      /\ sv' = sv /\ deltas' = deltas /\ now' = now /\ toggle' = toggle
  BY DEF EchoCb, design, Pending
<1>3. cpc = "idle" /\ ~is_waiting /\ CheckWait = <<>>
  BY <1>0, <1>2 DEF RestInv, ModeInv, CheckWait
<1>4. /\ echo_data = [dirty |-> echo_data.dirty, pending |-> TRUE, arg |-> echo_data.arg]
      /\ echo_data.dirty \in BOOLEAN /\ echo_data.arg \in EchoArg
  BY <1>0, <1>2 DEF Types, BridgeTypes, Pending
<1>5. Len(toC) \in Nat /\ Len(toSim) \in Nat /\ Len(tosend) \in Nat
  BY <1>0, NoLines DEF Types, PipeTypes, ClientTypes
<1>6. CASE echo_data.dirty
  <2>1. /\ toC' = toC /\ mode' = mode /\ active_wait' = active_wait
        /\ echo_data' = [echo_data EXCEPT !.dirty = FALSE]
    <3>1. /\ toC' = toC \o CheckWait /\ mode' = mode /\ active_wait' = active_wait
          /\ echo_data' = [echo_data EXCEPT !.dirty = FALSE]
      BY <1>6 DEF EchoCb, PrintLine
    <3>2. toC \o <<>> = toC
      BY <1>0, ConcatEmptySeq DEF Types, PipeTypes
    <3> QED  BY <1>3, <3>1, <3>2
  <2>2. /\ echo_data' \in [dirty : BOOLEAN, pending : BOOLEAN, arg : EchoArg]
        /\ Pending' /\ echo_data'.arg = echo_data.arg
    BY <1>0, <1>2, <2>1 DEF Types, BridgeTypes, Pending
  <2>3. Types'
    BY <1>0, <1>1, <1>2, <2>1, <2>2 DEF Types, PipeTypes, BridgeTypes
  <2>4. ModeInv' /\ RestInv' /\ AnswerInv' /\ KnownInv'
    BY <1>0, <1>1, <1>2, <1>3, <2>1, <2>2
       DEF ModeInv, RestInv, AnswerInv, Ago, Settled, KnownInv, Pending, ReadCmd
  <2>5. AskedInv'
    BY <1>0, <1>1, <1>2, <1>3, <2>1, <2>2 DEF AskedInv, UnderWay, Ago, Pending
  <2>6. CopyInv'
    BY <1>0, <1>1, <1>2, <2>1, CopiedStays DEF CopyInv
  <2>7. TimeInv'
    BY <1>0, <1>1, <1>2, <2>1, OnTimeStays DEF TimeInv
  <2> QED  BY <2>3, <2>4, <2>5, <2>6, <2>7 DEF Inv
<1>7. CASE ~echo_data.dirty
  <2>1. PICK l : l = Echo(echo_data.arg)
    OBVIOUS
  <2>2. l \in Line /\ l.c = "." /\ l.a = echo_data.arg
    BY <1>4, <2>1, MakeLine
  <2>3. Append(<<>>, l) = <<l>>
    OBVIOUS
  <2>4. /\ toC' = Append(toC, l) /\ mode' = "read"
        /\ echo_data' = [echo_data EXCEPT !.pending = FALSE] /\ active_wait' = 0
    <3>1. /\ toC' = toC \o Append(CheckWait, l) /\ mode' = "read" /\ active_wait' = 0
          /\ echo_data' = [echo_data EXCEPT !.pending = FALSE]
      BY <1>7, <2>1 DEF EchoCb, PrintLine, EnterReadCmds
    <3>2. toC \o <<l>> = Append(toC, l)
      BY <1>0, <2>2, Printing DEF Types, PipeTypes
    <3> QED  BY <1>3, <2>3, <3>1, <3>2
  <2>5. /\ echo_data' \in [dirty : BOOLEAN, pending : BOOLEAN, arg : EchoArg]
        /\ ~Pending' /\ echo_data'.arg = echo_data.arg
    BY <1>0, <2>4 DEF Types, BridgeTypes, Pending
  <2>6. /\ toC' \in Seq(Line) /\ Len(toC') = Len(toC) + 1
        /\ DOMAIN toC' = 1 .. Len(toC) + 1 /\ DOMAIN toC = 1 .. Len(toC)
        /\ \A i \in 1 .. Len(toC) : toC'[i] = toC[i]
        /\ toC'[Len(toC) + 1] = l
    BY <1>0, <2>2, <2>4, OneMore DEF Types, PipeTypes
  <2>7. Types'
    <3>1. is_waiting' \in BOOLEAN
      BY <1>2, Zenon
    <3>2. active_wait' \in Int /\ mode' \in {"read", "run", "gone"}
      BY <2>4
    <3> QED  BY <1>0, <1>1, <1>2, <2>5, <2>6, <3>1, <3>2 DEF Types, PipeTypes, BridgeTypes
  <2>8. ModeInv' /\ RestInv' /\ KnownInv' /\ ~Pending'
    BY <1>0, <1>1, <1>2, <1>3, <2>4, <2>5 DEF ModeInv, RestInv, KnownInv, Pending, ReadCmd
  <2>9. CopyInv'
    <3>1. \A s : ~About(l, s)
      BY <2>2 DEF About
    <3> QED  BY <1>0, <1>1, <1>2, <2>2, <2>4, <3>1, CopiedPrinted DEF CopyInv, Types
  <2>10. TimeInv'
    <3>1. ~Timed(l)
      BY <2>2 DEF Timed
    <3> QED  BY <1>0, <1>1, <1>2, <2>2, <2>4, <3>1, OnTimePrinted DEF TimeInv, Types
  <2>11. /\ UnderWay <= Most /\ Ago(echo_data.arg) = Len(toSim) + Len(tosend)
    BY <1>0, <1>2, <1>3 DEF AskedInv
  <2>12. AskedInv'
    <3>1. UnderWay' <= Most
      BY <1>1, <1>2, <1>5, <2>4, <2>6, <2>11 DEF UnderWay
    <3> QED  BY <1>0, <1>1, <1>2, <1>3, <2>4, <2>8, <3>1 DEF AskedInv, Ago
  <2>13. AnswerInv'
    <3>1. \A i \in 1 .. Len(toC) : toC[i].c = "." =>
            Ago(toC[i].a) + i <= Most /\ Ago(toC[i].a) # 0
      BY <1>0, <1>2, <1>3, <2>6 DEF AnswerInv, Settled
    <3>2. Ago(l.a) + (Len(toC) + 1) <= Most
      BY <1>2, <1>5, <2>2, <2>11, Bounds DEF UnderWay
    <3>3. Ago(l.a) = 0 => Settled'
      BY <1>1, <1>2, <1>5, <2>2, <2>4, <2>8, <2>11, <1>0, NoLines
         DEF Settled, Types, PipeTypes, ClientTypes
    <3>4. ASSUME NEW i \in DOMAIN toC', toC'[i].c = "."
          PROVE  /\ Ago(toC'[i].a) + i <= Most
                 /\ Ago(toC'[i].a) = 0 => Settled' /\ i = Len(toC')
      BY <2>6, <3>1, <3>2, <3>3, <3>4
    <3> QED  BY <1>0, <1>1, <3>4 DEF AnswerInv, Ago
  <2> QED  BY <2>7, <2>8, <2>9, <2>10, <2>12, <2>13 DEF Inv
<1> QED  BY <1>6, <1>7

\* A timed wait ends with the time, and the bridge listens again.
LEMMA WaitCbKeeps ==
  ASSUME Inv, WaitCb
  PROVE  Inv'
<1>0. Types /\ ModeInv /\ RestInv /\ AskedInv /\ AnswerInv /\ CopyInv /\ TimeInv /\ KnownInv
  BY DEF Inv
<1>1. /\ cpc' = cpc /\ tosend' = tosend /\ op' = op /\ echo_arg' = echo_arg
      /\ last' = last /\ val' = val /\ picos' = picos /\ io_error' = io_error
      /\ dirty_writes' = dirty_writes /\ burst' = burst /\ ClientTypes'
  BY <1>0, ClientSame DEF WaitCb, Types
<1>2. /\ mode = "run" /\ is_waiting' = FALSE /\ mode' = "read" /\ active_wait' = 0
      /\ toSim' = toSim /\ reaped' = reaped /\ known' = known /\ echo_data' = echo_data
      /\ sv' = sv /\ deltas' = deltas /\ now' = now /\ toggle' = toggle
      /\ toC' = toC \o CheckWait
  BY DEF WaitCb, design, EnterReadCmds, PrintLine
<1>3. cpc = "idle" /\ UnderWay <= Most /\ now \in Int
  BY <1>0, <1>2 DEF RestInv, AskedInv, Types, BridgeTypes
<1>4. Time(now) \in Line /\ Time(now).c = "t" /\ Time(now).t = now
  BY <1>3, MakeLine
<1>5. /\ is_waiting => toC' = Append(toC, Time(now))
      /\ ~is_waiting => toC' = toC
  <2>1. toC \o <<>> = toC /\ toC \o <<Time(now)>> = Append(toC, Time(now))
    BY <1>0, <1>4, Printing DEF Types, PipeTypes
  <2> QED  BY <1>2, <2>1 DEF CheckWait
<1>6. /\ toC' \in Seq(Line) /\ Len(toC') <= Len(toC) + 1 /\ Len(toC') \in Nat
      /\ \A i \in DOMAIN toC' : toC'[i].c = "." => i \in DOMAIN toC /\ toC'[i] = toC[i]
  <2>1. CASE is_waiting
    BY <1>0, <1>4, <1>5, <2>1, OneMore DEF Types, PipeTypes
  <2>2. CASE ~is_waiting
    BY <1>0, <1>5, <2>2, NoLines DEF Types, PipeTypes
  <2> QED  BY <1>0, <2>1, <2>2 DEF Types, BridgeTypes
<1>7. Types'
  <2>1. is_waiting' \in BOOLEAN
    BY <1>2, Zenon
  <2>2. active_wait' \in Int /\ mode' \in {"read", "run", "gone"}
    BY <1>2
  <2> QED  BY <1>0, <1>1, <1>2, <1>6, <2>1, <2>2 DEF Types, PipeTypes, BridgeTypes
<1>8. ModeInv' /\ RestInv' /\ KnownInv'
  BY <1>0, <1>1, <1>2, <1>3 DEF ModeInv, RestInv, KnownInv, Pending, ReadCmd
<1>9. CopyInv'
  <2>1. \A s : ~About(Time(now), s)
    BY <1>4 DEF About
  <2>2. CASE is_waiting
    BY <1>0, <1>1, <1>2, <1>4, <1>5, <2>1, <2>2, CopiedPrinted DEF CopyInv, Types
  <2>3. CASE ~is_waiting
    BY <1>0, <1>1, <1>2, <1>5, <2>3, CopiedStays DEF CopyInv
  <2> QED  BY <1>0, <2>2, <2>3 DEF Types, BridgeTypes
<1>10. TimeInv'
  <2>1. CASE is_waiting
    <3>1. Timed(Time(now))
      BY <1>4 DEF Timed
    <3> QED  BY <1>0, <1>1, <1>2, <1>4, <1>5, <2>1, <3>1, OnTimePrinted DEF TimeInv, Types
  <2>2. CASE ~is_waiting
    <3>1. OnTime
      BY <1>0, <1>2, <2>2 DEF TimeInv, ModeInv
    <3> QED  BY <1>1, <1>2, <1>5, <2>2, <3>1, OnTimeStays DEF TimeInv
  <2> QED  BY <1>0, <2>1, <2>2 DEF Types, BridgeTypes
<1>11. AskedInv'
  <2>1. UnderWay' <= Most
    <3>1. Len(toC) \in Nat /\ Len(toSim) \in Nat /\ Len(tosend) \in Nat
      BY <1>0, NoLines DEF Types, PipeTypes, ClientTypes
    <3> QED  BY <1>1, <1>2, <1>3, <1>6, <3>1, Bounds DEF UnderWay
  <2> QED  BY <1>0, <1>1, <1>2, <1>3, <2>1 DEF AskedInv, Ago, Pending
<1>12. AnswerInv'
  <2>1. \A i \in DOMAIN toC' : toC'[i].c = "." =>
          Ago(toC'[i].a) + i <= Most /\ Ago(toC'[i].a) # 0
    BY <1>0, <1>2, <1>3, <1>6 DEF AnswerInv, Settled
  <2> QED  BY <1>0, <1>1, <2>1 DEF AnswerInv, Ago
<1> QED  BY <1>7, <1>8, <1>9, <1>10, <1>11, <1>12 DEF Inv

\* What a change of a signal causes in the design is a sequence of events.
LEMMA FollowsTypes ==
  ASSUME BridgeTypes, NEW s \in Signal, NEW v \in Bit, NEW q \in Seq(Event)
  PROVE  q \o Follows(s, v) \in Seq(Event)
<1>1. Follows(s, v) \in Seq(Event)
  <2>1. sv["in"] \in Bit /\ "out" \in Signal /\ "q" \in Signal
    BY SignalFacts DEF BridgeTypes
  <2>2. [s |-> "out", v |-> v] \in Event /\ [s |-> "q", v |-> sv["in"]] \in Event
    BY <2>1 DEF Event
  <2>3. \/ Follows(s, v) = <<[s |-> "out", v |-> v]>>
        \/ Follows(s, v) = <<[s |-> "q", v |-> sv["in"]]>>
        \/ Follows(s, v) = <<>>
    BY DEF Follows
  <2>4. <<[s |-> "out", v |-> v]>> \in Seq(Event)
    BY <2>2
  <2>5. <<[s |-> "q", v |-> sv["in"]]>> \in Seq(Event)
    BY <2>2
  <2> QED  BY <2>3, <2>4, <2>5, NoLines
<1> QED  BY <1>1, ConcatProperties

\* A delta that no one watches, or of no effect, is silent; another is printed and
\* the bridge listens.
LEMMA DeltaKeeps ==
  ASSUME Inv, Delta
  PROVE  Inv'
<1>0. Types /\ ModeInv /\ RestInv /\ AskedInv /\ AnswerInv /\ CopyInv /\ TimeInv /\ KnownInv
  BY DEF Inv
<1>1. /\ cpc' = cpc /\ tosend' = tosend /\ op' = op /\ echo_arg' = echo_arg
      /\ last' = last /\ val' = val /\ picos' = picos /\ io_error' = io_error
      /\ dirty_writes' = dirty_writes /\ burst' = burst /\ ClientTypes'
  BY <1>0, ClientSame DEF Delta, Types
<1>2. PICK d : d = Head(deltas)
  OBVIOUS
<1>3. /\ mode = "run" /\ deltas # <<>> /\ sv' = [sv EXCEPT ![d.s] = d.v]
      /\ deltas' = Tail(deltas) \o (IF sv[d.s] # d.v THEN Follows(d.s, d.v) ELSE <<>>)
      /\ toSim' = toSim /\ reaped' = reaped /\ known' = known
      /\ now' = now /\ toggle' = toggle
  BY <1>2 DEF Delta
<1>4. d \in Event /\ Tail(deltas) \in Seq(Event) /\ d.s \in Signal /\ d.v \in Bit
  <2>1. d \in Event /\ Tail(deltas) \in Seq(Event)
    BY <1>0, <1>2, <1>3, OneLess DEF Types, BridgeTypes
  <2> QED  BY <2>1 DEF Event
<1>5. deltas' \in Seq(Event) /\ sv' \in [Signal -> Bit]
  <2>1. Tail(deltas) \o <<>> = Tail(deltas)
    BY <1>4, ConcatEmptySeq
  <2>2. Tail(deltas) \o Follows(d.s, d.v) \in Seq(Event)
    BY <1>0, <1>4, FollowsTypes DEF Types
  <2> QED  BY <1>0, <1>3, <1>4, <2>1, <2>2 DEF Types, BridgeTypes
<1>6. /\ cpc = "idle" /\ UnderWay <= Most
      /\ \A i \in DOMAIN toC : toC[i].c = "." =>
           Ago(toC[i].a) + i <= Most /\ Ago(toC[i].a) # 0
  <2>1. cpc = "idle" /\ ~Settled
    BY <1>0, <1>3 DEF RestInv, Settled
  <2> QED  BY <1>0, <1>3, <2>1 DEF AskedInv, AnswerInv
<1>7. Len(toC) \in Nat /\ Len(toSim) \in Nat /\ Len(tosend) \in Nat
  BY <1>0, NoLines DEF Types, PipeTypes, ClientTypes
<1>8. CASE sv[d.s] # d.v /\ d.s \in known
  <2>1. PICK l : l = Value(d.s, d.v, now)
    OBVIOUS
  <2>2. l \in Line /\ l.c = "v" /\ l.s = d.s /\ l.v = d.v /\ l.t = now
    BY <1>0, <1>4, <2>1, MakeLine DEF Types, BridgeTypes
  <2>3. /\ is_waiting' = FALSE /\ toC' = toC \o <<l>> /\ mode' = "read" /\ active_wait' = 0
        /\ echo_data' = [echo_data EXCEPT !.dirty = TRUE]
    BY <1>2, <1>8, <2>1 DEF Delta, PrintLine, EnterReadCmds
  <2>4. toC' = Append(toC, l)
    BY <1>0, <2>2, <2>3, Printing DEF Types, PipeTypes
  <2>5. /\ echo_data' \in [dirty : BOOLEAN, pending : BOOLEAN, arg : EchoArg]
        /\ (Pending' <=> Pending) /\ echo_data'.arg = echo_data.arg
    BY <1>0, <2>3 DEF Types, BridgeTypes, Pending
  <2>6. /\ toC' \in Seq(Line) /\ Len(toC') = Len(toC) + 1
        /\ DOMAIN toC' = 1 .. Len(toC) + 1 /\ DOMAIN toC = 1 .. Len(toC)
        /\ \A i \in 1 .. Len(toC) : toC'[i] = toC[i]
        /\ toC'[Len(toC) + 1] = l
    BY <1>0, <2>2, <2>4, OneMore DEF Types, PipeTypes
  <2>7. Types'
    <3>1. is_waiting' \in BOOLEAN
      BY <2>3, Zenon
    <3>2. active_wait' \in Int /\ mode' \in {"read", "run", "gone"}
      BY <2>3
    <3> QED  BY <1>0, <1>1, <1>3, <1>5, <2>5, <2>6, <3>1, <3>2
             DEF Types, PipeTypes, BridgeTypes
  <2>8. ModeInv' /\ RestInv' /\ KnownInv'
    BY <1>0, <1>1, <1>3, <1>6, <2>3, <2>5 DEF ModeInv, RestInv, KnownInv, ReadCmd
  <2>9. CopyInv'
    <3>1. ASSUME NEW s \in known PROVE Copied(s)'
      <4>1. s \in Signal /\ Copied(s)
        BY <1>0, <1>3 DEF CopyInv, Types, BridgeTypes
      <4>2. CASE s = d.s
        <5>1. sv'[s] = d.v /\ About(l, s)
          BY <1>0, <1>3, <1>4, <2>2, <4>2 DEF About, Types, BridgeTypes
        <5> QED  BY <1>0, <1>1, <2>2, <2>4, <5>1, CopiedPrinted DEF Types
      <4>3. CASE s # d.s
        <5>1. sv'[s] = sv[s] /\ ~About(l, s)
          BY <1>0, <1>3, <1>4, <2>2, <4>1, <4>3 DEF About, Types, BridgeTypes
        <5> QED  BY <1>0, <1>1, <2>2, <2>4, <4>1, <5>1, CopiedPrinted DEF Types
      <4> QED  BY <4>2, <4>3
    <3> QED  BY <1>3, <3>1 DEF CopyInv
  <2>10. TimeInv'
    <3>1. Timed(l)
      BY <2>2 DEF Timed
    <3> QED  BY <1>0, <1>1, <1>3, <2>2, <2>4, <3>1, OnTimePrinted DEF TimeInv, Types
  <2>11. AskedInv'
    <3>1. UnderWay' <= Most
      BY <1>1, <1>3, <1>6, <1>7, <2>3, <2>6 DEF UnderWay
    <3> QED  BY <1>0, <1>1, <1>3, <1>6, <2>5, <3>1 DEF AskedInv, Ago
  <2>12. AnswerInv'
    <3>1. \A i \in DOMAIN toC' : toC'[i].c = "." =>
            Ago(toC'[i].a) + i <= Most /\ Ago(toC'[i].a) # 0
      BY <1>6, <2>2, <2>6
    <3> QED  BY <1>0, <1>1, <3>1 DEF AnswerInv, Ago
  <2> QED  BY <2>7, <2>8, <2>9, <2>10, <2>11, <2>12 DEF Inv
<1>9. CASE ~(sv[d.s] # d.v /\ d.s \in known)
  <2>1. /\ is_waiting' = is_waiting /\ toC' = toC /\ mode' = mode
        /\ active_wait' = active_wait /\ echo_data' = echo_data
    BY <1>2, <1>9 DEF Delta
  <2>2. Types'
    BY <1>0, <1>1, <1>3, <1>5, <2>1 DEF Types, PipeTypes, BridgeTypes
  <2>3. ModeInv' /\ RestInv' /\ KnownInv'
    BY <1>0, <1>1, <1>3, <1>6, <2>1 DEF ModeInv, RestInv, KnownInv, ReadCmd, Pending
  <2>4. CopyInv'
    <3>1. \A s \in known : sv'[s] = sv[s]
      BY <1>0, <1>3, <1>4, <1>9 DEF Types, BridgeTypes
    <3> QED  BY <1>0, <1>1, <1>3, <2>1, <3>1, CopiedStays DEF CopyInv
  <2>5. TimeInv'
    BY <1>0, <1>1, <1>3, <2>1, OnTimeStays DEF TimeInv, Pending
  <2>6. AskedInv'
    BY <1>0, <1>1, <1>3, <2>1 DEF AskedInv, Ago, Pending, UnderWay
  <2>7. AnswerInv'
    BY <1>0, <1>1, <1>6, <2>1 DEF AnswerInv, Ago
  <2> QED  BY <2>2, <2>3, <2>4, <2>5, <2>6, <2>7 DEF Inv
<1> QED  BY <1>8, <1>9

\* The bridge takes the next command.
LEMMA Takes ==
  ASSUME Inv, mode = "read", toSim # <<>>, toSim' = Tail(toSim), cpc' = cpc,
         tosend' = tosend, last' = last
  PROVE  /\ toSim' \in Seq(Command) /\ Len(toSim') = Len(toSim) - 1
         /\ Len(toSim) \in Nat /\ Len(toSim) > 0
         /\ Head(toSim) = toSim[1] /\ toSim[1] \in Command
         /\ \A j \in DOMAIN toSim' : j + 1 \in DOMAIN toSim /\ toSim'[j] = toSim[j + 1]
         /\ cpc = "idle" =>
              /\ \A j \in DOMAIN toSim' : toSim'[j].c = "." =>
                   /\ Ago(toSim[j].a)' = Len(toSim') - j + Len(tosend)
                   /\ Len(tosend) <= 1
                   /\ \A k \in DOMAIN toSim' : k > j => toSim'[k].c = "."
              /\ (tosend = <<>> /\ toSim' # <<>>) => toSim'[Len(toSim')].c = "."
              /\ toSim[1].c = "." =>
                   /\ Ago(toSim[1].a) = Len(toSim') + Len(tosend)
                   /\ Len(tosend) <= 1
                   /\ \A k \in DOMAIN toSim' : toSim'[k].c = "."
         /\ cpc # "idle" => toSim[1].c = "w" /\ cpc = "client" /\ dirty_writes
         /\ Pending => toSim[1].c = "."
         /\ toSim[1].c = "w" => known = Signal
         /\ ~Settled
         /\ \A x : (\E j \in DOMAIN toSim : toSim[j] = x) =>
                     x = toSim[1] \/ \E j \in DOMAIN toSim' : toSim'[j] = x
<1>0. Types /\ RestInv /\ AskedInv /\ KnownInv
  BY DEF Inv
<1>1. /\ toSim' \in Seq(Command) /\ Len(toSim') = Len(toSim) - 1
      /\ Head(toSim) = toSim[1] /\ toSim[1] \in Command
      /\ DOMAIN toSim' = 1 .. Len(toSim) - 1
      /\ \A i \in 1 .. Len(toSim) - 1 : toSim'[i] = toSim[i + 1]
      /\ DOMAIN toSim = 1 .. Len(toSim) /\ Len(toSim) \in Nat /\ Len(toSim) > 0
  BY <1>0, OneLess DEF Types, PipeTypes
<1>2. \A j \in DOMAIN toSim' : j + 1 \in DOMAIN toSim /\ toSim'[j] = toSim[j + 1]
  BY <1>1
<1>3. 1 \in DOMAIN toSim /\ ~Settled
  BY <1>1 DEF Settled
<1>4. cpc # "idle" => toSim[1].c = "w" /\ cpc = "client" /\ dirty_writes
  BY <1>0, <1>3 DEF RestInv
<1>5. Pending => toSim[1].c = "."
  BY <1>0, <1>3 DEF RestInv, AskedInv
<1>6. toSim[1].c = "w" => known = Signal
  BY <1>0, <1>3 DEF KnownInv
<1>7. \A x : (\E j \in DOMAIN toSim : toSim[j] = x) =>
               x = toSim[1] \/ \E j \in DOMAIN toSim' : toSim'[j] = x
  <2> SUFFICES ASSUME NEW j \in DOMAIN toSim, j # 1
               PROVE  \E k \in DOMAIN toSim' : toSim'[k] = toSim[j]
    OBVIOUS
  <2>1. j - 1 \in DOMAIN toSim' /\ toSim'[j - 1] = toSim[j]
    BY <1>1
  <2> QED  BY <2>1
<1>8. ASSUME cpc = "idle"
      PROVE  /\ \A j \in DOMAIN toSim' : toSim'[j].c = "." =>
                   /\ Ago(toSim[j].a)' = Len(toSim') - j + Len(tosend)
                   /\ Len(tosend) <= 1
                   /\ \A k \in DOMAIN toSim' : k > j => toSim'[k].c = "."
             /\ (tosend = <<>> /\ toSim' # <<>>) => toSim'[Len(toSim')].c = "."
             /\ toSim[1].c = "." =>
                   /\ Ago(toSim[1].a) = Len(toSim') + Len(tosend)
                   /\ Len(tosend) <= 1
                   /\ \A k \in DOMAIN toSim' : toSim'[k].c = "."
  <2>1. /\ \A j \in DOMAIN toSim : toSim[j].c = "." =>
             /\ Ago(toSim[j].a) = Len(toSim) - j + Len(tosend)
             /\ Len(tosend) <= 1
             /\ \A k \in DOMAIN toSim : k > j => toSim[k].c = "."
        /\ tosend = <<>> => toSim[Len(toSim)].c = "."
    BY <1>0, <1>8 DEF AskedInv
  <2>2. Len(tosend) \in Nat
    BY <1>0, NoLines DEF Types, ClientTypes
  <2>3. ASSUME NEW j \in DOMAIN toSim', toSim'[j].c = "."
        PROVE  /\ Ago(toSim[j].a)' = Len(toSim') - j + Len(tosend)
               /\ Len(tosend) <= 1
               /\ \A k \in DOMAIN toSim' : k > j => toSim'[k].c = "."
    <3>1. j + 1 \in DOMAIN toSim /\ toSim[j + 1].c = "." /\ j \in Nat
      BY <1>1, <1>2, <2>3
    <3>2. Ago(toSim[j + 1].a) = Len(toSim) - (j + 1) + Len(tosend) /\ Len(tosend) <= 1
      BY <2>1, <3>1
    <3>3. Ago(toSim[j].a)' = Ago(toSim[j + 1].a)
      BY <1>2 DEF Ago
    <3>4. ASSUME NEW k \in DOMAIN toSim', k > j PROVE toSim'[k].c = "."
      <4>1. k + 1 \in DOMAIN toSim /\ k + 1 > j + 1
        BY <1>1, <3>1, <3>4
      <4> QED  BY <1>2, <2>1, <3>1, <4>1
    <3> QED  BY <1>1, <2>2, <3>1, <3>2, <3>3, <3>4
  <2>4. (tosend = <<>> /\ toSim' # <<>>) => toSim'[Len(toSim')].c = "."
    <3>1. toSim' # <<>> => Len(toSim') \in DOMAIN toSim' /\ Len(toSim') + 1 = Len(toSim)
      BY <1>1, NoLines
    <3> QED  BY <1>2, <2>1, <3>1
  <2>5. ASSUME toSim[1].c = "."
        PROVE  /\ Ago(toSim[1].a) = Len(toSim') + Len(tosend)
               /\ Len(tosend) <= 1
               /\ \A k \in DOMAIN toSim' : toSim'[k].c = "."
    <3>1. \A k \in DOMAIN toSim' : k + 1 > 1
      BY <1>1
    <3> QED  BY <1>1, <1>2, <1>3, <2>1, <2>2, <2>5, <3>1
  <2> QED  BY <2>3, <2>4, <2>5
<1> QED  BY <1>1, <1>2, <1>3, <1>4, <1>5, <1>6, <1>7, <1>8

\* What the commands have in common: the parts of the invariant about the queue.
LEMMA TakesAnswer ==
  ASSUME Inv, mode = "read", toSim # <<>>, toSim' = Tail(toSim), cpc' = cpc,
         tosend' = tosend, last' = last, echo_arg' = echo_arg, io_error' = io_error,
         toC' = toC \/ \E l \in Line : l.c # "." /\ toC' = Append(toC, l)
  PROVE  AnswerInv' /\ toC' \in Seq(Line) /\ Len(toC') \in {Len(toC), Len(toC) + 1}
<1>0. Types /\ AnswerInv /\ ~Settled
  BY Takes DEF Inv
<1>1. \A i \in DOMAIN toC : cpc = "idle" /\ toC[i].c = "." =>
        Ago(toC[i].a) + i <= Most /\ Ago(toC[i].a) # 0
  BY <1>0 DEF AnswerInv
<1>2. CASE toC' = toC
  BY <1>0, <1>1, <1>2 DEF AnswerInv, Ago, Types, PipeTypes
<1>3. CASE \E l \in Line : l.c # "." /\ toC' = Append(toC, l)
  <2>1. PICK l \in Line : l.c # "." /\ toC' = Append(toC, l)
    BY <1>3
  <2>2. /\ toC' \in Seq(Line) /\ Len(toC') = Len(toC) + 1
        /\ DOMAIN toC' = 1 .. Len(toC) + 1 /\ DOMAIN toC = 1 .. Len(toC)
        /\ \A i \in 1 .. Len(toC) : toC'[i] = toC[i]
        /\ toC'[Len(toC) + 1] = l /\ Len(toC) \in Nat
    BY <1>0, <2>1, OneMore DEF Types, PipeTypes
  <2>3. ASSUME NEW i \in DOMAIN toC', cpc = "idle", toC'[i].c = "."
        PROVE  Ago(toC'[i].a) + i <= Most /\ Ago(toC'[i].a) # 0
    <3>1. i # Len(toC) + 1
      BY <2>1, <2>2, <2>3
    <3>2. i \in 1 .. Len(toC)
      BY <2>2, <3>1
    <3> QED  BY <1>1, <2>2, <2>3, <3>2
  <2>4. AnswerInv'
    BY <1>0, <2>3 DEF AnswerInv, Ago
  <2> QED  BY <2>2, <2>4
<1> QED  BY <1>2, <1>3

\* The signal of a read that is taken is watched from then on.
LEMMA TakesKnown ==
  ASSUME Inv, mode = "read", toSim # <<>>, toSim' = Tail(toSim), cpc' = cpc,
         tosend' = tosend, last' = last, op' = op, known \subseteq known',
         known' \subseteq Signal, toSim[1].c = "r" => toSim[1].s \in known'
  PROVE  KnownInv'
<1>0. KnownInv /\ mode # "gone"
  BY DEF Inv
<1>1. op.k # "start" => known = Signal
  BY <1>0 DEF KnownInv
<1> SUFFICES ASSUME op.k = "start" PROVE KnownInv'
  BY <1>1 DEF KnownInv
<1>2. /\ \A i \in 1 .. op.i :
           \/ Signals[i] \in known
           \/ \E j \in DOMAIN toSim : toSim[j] = ReadCmd(Signals[i])
           \/ \E j \in DOMAIN tosend : tosend[j] = ReadCmd(Signals[i])
      /\ \A j \in DOMAIN toSim : toSim[j].c # "w"
      /\ \A j \in DOMAIN tosend : tosend[j].c # "w"
  BY <1>0 DEF KnownInv
<1>3. /\ \A j \in DOMAIN toSim' : j + 1 \in DOMAIN toSim /\ toSim'[j] = toSim[j + 1]
      /\ \A x : (\E j \in DOMAIN toSim : toSim[j] = x) =>
                  x = toSim[1] \/ \E j \in DOMAIN toSim' : toSim'[j] = x
  BY Takes
<1>4. \A s : toSim[1] = ReadCmd(s) => s \in known'
  BY DEF ReadCmd
<1>5. \A i \in 1 .. op.i :
           \/ Signals[i] \in known'
           \/ \E j \in DOMAIN toSim' : toSim'[j] = ReadCmd(Signals[i])
           \/ \E j \in DOMAIN tosend : tosend[j] = ReadCmd(Signals[i])
  BY <1>2, <1>3, <1>4
<1>6. \A j \in DOMAIN toSim' : toSim'[j].c # "w"
  BY <1>2, <1>3
<1> QED  BY <1>2, <1>5, <1>6 DEF KnownInv, ReadCmd

\* The queue with one command less; the bridge may run the simulation instead, or
\* print a line.
LEMMA TakesAsked ==
  ASSUME Inv, mode = "read", toSim # <<>>, toSim' = Tail(toSim), cpc' = cpc,
         tosend' = tosend, last' = last, toC' \in Seq(Line),
         Len(toC') + (IF mode' = "run" THEN 1 ELSE 0) \in {Len(toC), Len(toC) + 1},
         Pending' => toSim[1].c = "." /\ echo_data'.arg = toSim[1].a
  PROVE  AskedInv'
<1> SUFFICES ASSUME cpc = "idle" PROVE AskedInv'
  BY DEF AskedInv
<1>0. Types /\ AskedInv /\ mode # "gone"
  BY DEF Inv
<1>1. /\ UnderWay <= Most
      /\ tosend # <<>> => tosend[Len(tosend)] = Echo(last)
      /\ \A j \in DOMAIN tosend : tosend[j].c = "." => j = Len(tosend)
  BY <1>0 DEF AskedInv
<1>2. /\ Len(toSim') = Len(toSim) - 1 /\ Len(toSim) \in Nat
      /\ \A j \in DOMAIN toSim' : toSim'[j].c = "." =>
           /\ Ago(toSim[j].a)' = Len(toSim') - j + Len(tosend)
           /\ Len(tosend) <= 1
           /\ \A k \in DOMAIN toSim' : k > j => toSim'[k].c = "."
      /\ (tosend = <<>> /\ toSim' # <<>>) => toSim'[Len(toSim')].c = "."
      /\ toSim[1].c = "." =>
           /\ Ago(toSim[1].a) = Len(toSim') + Len(tosend)
           /\ Len(tosend) <= 1
           /\ \A k \in DOMAIN toSim' : toSim'[k].c = "."
  BY Takes
<1>3. UnderWay' <= Most
  <2>1. Len(toC) \in Nat /\ Len(tosend) \in Nat
    BY <1>0, NoLines DEF Types, PipeTypes, ClientTypes
  <2>2. PICK x : x = Len(toC') + (IF mode' = "run" THEN 1 ELSE 0)
    OBVIOUS
  <2>3. x \in {Len(toC), Len(toC) + 1} /\ x \in Nat
    BY <2>1, <2>2
  <2>4. UnderWay = Len(toC) + Len(toSim) + Len(tosend)
    BY <1>2, <2>1 DEF UnderWay
  <2>5. Len(toC') \in Int
    BY NoLines
  <2>6. UnderWay' = x + Len(toSim') + Len(tosend)
    <3>1. CASE mode' = "run"
      BY <1>2, <2>1, <2>2, <2>5, <3>1 DEF UnderWay
    <3>2. CASE mode' # "run"
      BY <1>2, <2>1, <2>2, <2>5, <3>2 DEF UnderWay
    <3> QED  BY <3>1, <3>2
  <2> QED  BY <1>1, <1>2, <2>1, <2>3, <2>4, <2>6, Bounds
<1>4. Pending' =>
        /\ Ago(echo_data.arg)' = Len(toSim') + Len(tosend)
        /\ Len(tosend) <= 1
        /\ \A k \in DOMAIN toSim' : toSim'[k].c = "."
  BY <1>2 DEF Ago
<1> QED  BY <1>1, <1>2, <1>3, <1>4 DEF AskedInv

\* The bridge reads a command and carries it out.
LEMMA ReadCommandKeeps ==
  ASSUME Inv, ReadCommand
  PROVE  Inv'
<1>0. Types /\ ModeInv /\ RestInv /\ AskedInv /\ AnswerInv /\ CopyInv /\ TimeInv /\ KnownInv
  BY DEF Inv
<1>1. /\ cpc' = cpc /\ tosend' = tosend /\ op' = op /\ echo_arg' = echo_arg
      /\ last' = last /\ val' = val /\ picos' = picos /\ io_error' = io_error
      /\ dirty_writes' = dirty_writes /\ burst' = burst /\ ClientTypes'
  BY <1>0, ClientSame DEF ReadCommand, Types
<1>2. PICK l : l = Head(toSim)
  OBVIOUS
<1>3. /\ mode = "read" /\ toSim # <<>> /\ toSim' = Tail(toSim) /\ reaped' = reaped
      /\ toC' = toC \o Printed(l)
      /\ mode' = IF l.c \in {".", "wait"} THEN "run" ELSE "read"
      /\ known' = IF l.c \in {"r", "w"} THEN known \cup {l.s} ELSE known
  BY <1>2 DEF ReadCommand, PrintLine
<1>4. /\ toSim' \in Seq(Command) /\ Len(toSim') = Len(toSim) - 1 /\ Len(toSim) \in Nat
      /\ l = toSim[1] /\ l \in Command
      /\ \A j \in DOMAIN toSim' : j + 1 \in DOMAIN toSim /\ toSim'[j] = toSim[j + 1]
      /\ cpc # "idle" => l.c = "w" /\ cpc = "client" /\ dirty_writes
      /\ Pending => l.c = "."
      /\ l.c = "w" => known = Signal
  BY <1>1, <1>2, <1>3, Takes
<1>5. /\ l.c \in {".", "r", "w", "wait"}
      /\ l.c = "." => l.a \in EchoArg
      /\ l.c = "r" => l.s \in Signal
      /\ l.c = "w" => l.s \in Signal /\ l.v \in Bit
      /\ l.c = "wait" => l.d \in Int
  BY <1>4, CommandFacts
<1>6. /\ known' \subseteq Signal /\ known \subseteq known' /\ (l.c = "r" => l.s \in known')
      /\ (l.c # "r" => known' = known)
  BY <1>0, <1>3, <1>4, <1>5 DEF Types, BridgeTypes
<1>7. KnownInv'
  BY <1>1, <1>3, <1>4, <1>6, TakesKnown
<1>8. toC \in Seq(Line) /\ toC \o <<>> = toC /\ Len(toC) \in Nat
  BY <1>0, ConcatEmptySeq, NoLines DEF Types, PipeTypes
<1>9. CASE l.c = "."
  <2>1. /\ echo_data' = ScheduleEcho(l.a) /\ is_waiting' = is_waiting
        /\ active_wait' = active_wait /\ UNCHANGED design /\ Printed(l) = <<>>
    BY <1>2, <1>9 DEF ReadCommand, Printed
  <2>2. /\ toC' = toC /\ mode' = "run" /\ cpc = "idle" /\ known' = known /\ sv' = sv
        /\ deltas' = deltas /\ now' = now /\ toggle' = toggle
    BY <1>3, <1>4, <1>6, <1>8, <1>9, <2>1 DEF design
  <2>3. /\ echo_data' \in [dirty : BOOLEAN, pending : BOOLEAN, arg : EchoArg]
        /\ Pending' /\ echo_data'.arg = l.a
    <3>1. CASE Pending
      <4>1. echo_data' = [echo_data EXCEPT !.arg = l.a]
        BY <2>1, <3>1 DEF ScheduleEcho, Pending
      <4> QED  BY <1>0, <1>5, <1>9, <3>1, <4>1 DEF Types, BridgeTypes, Pending
    <3>2. CASE ~Pending
      <4>1. echo_data' = [dirty |-> FALSE, pending |-> TRUE, arg |-> l.a]
        BY <2>1, <3>2 DEF ScheduleEcho, Pending
      <4> QED  BY <1>5, <1>9, <4>1 DEF Pending
    <3> QED  BY <3>1, <3>2
  <2>4. Types'
    <3>1. mode' \in {"read", "run", "gone"}
      BY <2>2
    <3> QED  BY <1>0, <1>1, <1>3, <1>4, <1>8, <2>1, <2>2, <2>3, <3>1
             DEF Types, PipeTypes, BridgeTypes
  <2>5. ModeInv' /\ RestInv'
    BY <1>0, <1>1, <1>3, <2>1, <2>2, <2>3 DEF ModeInv, RestInv
  <2>6. AnswerInv'
    BY <1>1, <1>3, <2>2, TakesAnswer
  <2>7. AskedInv'
    <3>1. Len(toC') + (IF mode' = "run" THEN 1 ELSE 0) \in {Len(toC), Len(toC) + 1}
      BY <1>8, <2>2
    <3> QED  BY <1>1, <1>3, <1>4, <1>8, <1>9, <2>2, <2>3, <3>1, TakesAsked
  <2>8. CopyInv'
    BY <1>0, <1>1, <1>3, <2>2, CopiedStays DEF CopyInv
  <2>9. TimeInv'
    BY <1>0, <1>1, <1>3, <2>2, OnTimeStays DEF TimeInv
  <2> QED  BY <1>7, <2>4, <2>5, <2>6, <2>7, <2>8, <2>9 DEF Inv
<1>10. CASE l.c = "wait"
  <2>1. /\ echo_data' = echo_data /\ is_waiting' = TRUE
        /\ active_wait' = (IF l.d = 0 THEN 0 ELSE now + l.d)
        /\ UNCHANGED design /\ Printed(l) = <<>>
    BY <1>2, <1>10 DEF ReadCommand, Printed
  <2>2. /\ toC' = toC /\ mode' = "run" /\ cpc = "idle" /\ known' = known /\ sv' = sv
        /\ deltas' = deltas /\ now' = now /\ toggle' = toggle /\ ~Pending /\ ~Pending'
    BY <1>3, <1>4, <1>6, <1>8, <1>10, <2>1 DEF design, Pending
  <2>3. is_waiting' \in BOOLEAN
    BY <2>1, Zenon
  <2>4. Types'
    <3>1. active_wait' \in Int
      BY <1>0, <1>5, <1>10, <2>1 DEF Types, BridgeTypes
    <3>2. mode' \in {"read", "run", "gone"}
      BY <2>2
    <3> QED  BY <1>0, <1>1, <1>3, <1>4, <1>8, <2>1, <2>2, <2>3, <3>1, <3>2
             DEF Types, PipeTypes, BridgeTypes
  <2>5. ModeInv' /\ RestInv' /\ TimeInv'
    BY <1>0, <1>1, <1>3, <2>1, <2>2 DEF ModeInv, RestInv, TimeInv
  <2>6. AnswerInv'
    BY <1>1, <1>3, <2>2, TakesAnswer
  <2>7. AskedInv'
    <3>1. Len(toC') + (IF mode' = "run" THEN 1 ELSE 0) \in {Len(toC), Len(toC) + 1}
      BY <1>8, <2>2
    <3> QED  BY <1>1, <1>3, <1>8, <2>2, <3>1, TakesAsked
  <2>8. CopyInv'
    BY <1>0, <1>1, <1>3, <2>2, CopiedStays DEF CopyInv
  <2> QED  BY <1>7, <2>4, <2>5, <2>6, <2>7, <2>8 DEF Inv
<1>11. CASE l.c = "r"
  <2>1. PICK p : p = ReadVal(l.s, sv[l.s])
    OBVIOUS
  <2>2. p \in Line /\ p.c = "r" /\ p.s = l.s /\ p.v = sv[l.s]
    BY <1>0, <1>5, <1>11, <2>1, MakeLine DEF Types, BridgeTypes
  <2>3. /\ echo_data' = echo_data /\ is_waiting' = is_waiting /\ active_wait' = active_wait
        /\ UNCHANGED design /\ Printed(l) = <<p>>
    BY <1>2, <1>11, <2>1 DEF ReadCommand, Printed
  <2>4. /\ mode' = "read" /\ cpc = "idle" /\ sv' = sv /\ known' = known \cup {l.s}
        /\ deltas' = deltas /\ now' = now /\ toggle' = toggle /\ ~Pending /\ ~Pending'
    BY <1>3, <1>4, <1>11, <2>3 DEF design, Pending
  <2>5. toC' = Append(toC, p)
    BY <1>3, <1>8, <2>2, <2>3, Printing
  <2>6. AnswerInv' /\ toC' \in Seq(Line) /\ Len(toC') \in {Len(toC), Len(toC) + 1}
    BY <1>1, <1>3, <2>2, <2>5, TakesAnswer
  <2>7. Types'
    <3>1. mode' \in {"read", "run", "gone"}
      BY <2>4
    <3> QED  BY <1>0, <1>1, <1>3, <1>4, <1>6, <2>3, <2>4, <2>6, <3>1
             DEF Types, PipeTypes, BridgeTypes
  <2>8. ModeInv' /\ RestInv'
    BY <1>0, <1>1, <1>3, <2>3, <2>4 DEF ModeInv, RestInv
  <2>9. AskedInv'
    <3>1. Len(toC') + (IF mode' = "run" THEN 1 ELSE 0) \in {Len(toC), Len(toC) + 1}
      BY <1>8, <2>4, <2>6
    <3> QED  BY <1>1, <1>3, <2>4, <2>6, <3>1, TakesAsked
  <2>10. CopyInv'
    <3>1. ASSUME NEW s \in known' PROVE Copied(s)'
      <4>1. s = l.s => About(p, s)
        BY <2>2 DEF About
      <4>2. CASE About(p, s)
        <5>1. p.v = sv'[s]
          BY <2>2, <2>4, <4>2 DEF About
        <5> QED  BY <1>0, <1>1, <2>2, <2>5, <4>2, <5>1, CopiedPrinted DEF Types
      <4>3. CASE ~About(p, s)
        <5>1. Copied(s) /\ sv'[s] = sv[s]
          BY <1>0, <1>3, <2>4, <3>1, <4>1, <4>3 DEF CopyInv
        <5> QED  BY <1>0, <1>1, <2>2, <2>5, <4>3, <5>1, CopiedPrinted DEF Types
      <4> QED  BY <4>2, <4>3
    <3> QED  BY <3>1 DEF CopyInv
  <2>11. TimeInv'
    <3>1. ~Timed(p) /\ OnTime
      BY <1>0, <1>3, <2>2 DEF Timed, TimeInv
    <3> QED  BY <1>0, <1>1, <2>2, <2>4, <2>5, <3>1, OnTimePrinted DEF TimeInv, Types
  <2> QED  BY <1>7, <2>6, <2>7, <2>8, <2>9, <2>10, <2>11 DEF Inv
<1>12. CASE l.c = "w" /\ sv[l.s] # l.v
  <2>1. PICK p : p = Value(l.s, l.v, now)
    OBVIOUS
  <2>2. p \in Line /\ p.c = "v" /\ p.s = l.s /\ p.v = l.v /\ p.t = now
    BY <1>0, <1>5, <1>12, <2>1, MakeLine DEF Types, BridgeTypes
  <2>3. /\ sv' = [sv EXCEPT ![l.s] = l.v]
        /\ deltas' = deltas \o Follows(l.s, l.v)
        /\ is_waiting' = FALSE
        /\ echo_data' = [echo_data EXCEPT !.dirty = TRUE]
        /\ active_wait' = active_wait /\ now' = now /\ toggle' = toggle
        /\ Printed(l) = <<p>>
    BY <1>2, <1>12, <2>1 DEF ReadCommand, Printed
  <2>4. /\ mode' = "read" /\ known' = known
        /\ echo_data' \in [dirty : BOOLEAN, pending : BOOLEAN, arg : EchoArg]
        /\ ~Pending /\ ~Pending'
    BY <1>0, <1>3, <1>4, <1>6, <1>12, <2>3 DEF Pending, Types, BridgeTypes
  <2>5. toC' = Append(toC, p)
    BY <1>3, <1>8, <2>2, <2>3, Printing
  <2>6. AnswerInv' /\ toC' \in Seq(Line) /\ Len(toC') \in {Len(toC), Len(toC) + 1}
    BY <1>1, <1>3, <2>2, <2>5, TakesAnswer
  <2>7. Types'
    <3>1. mode' \in {"read", "run", "gone"}
      BY <2>4
    <3>2. deltas' \in Seq(Event) /\ sv' \in [Signal -> Bit]
      BY <1>0, <1>5, <1>12, <2>3, FollowsTypes DEF Types, BridgeTypes
    <3>3. is_waiting' \in BOOLEAN
      BY <2>3, Zenon
    <3> QED  BY <1>0, <1>1, <1>3, <1>4, <1>6, <2>3, <2>4, <2>6, <3>1, <3>2, <3>3
             DEF Types, PipeTypes, BridgeTypes
  <2>8. ModeInv'
    BY <1>0, <1>1, <1>3, <2>3, <2>4 DEF ModeInv
  <2>9. RestInv'
    <3> SUFFICES ASSUME cpc # "idle" PROVE RestInv'
      BY <1>1 DEF RestInv
    <3>1. /\ \A j \in DOMAIN tosend : tosend[j].c = "w"
          /\ \A j \in DOMAIN toSim : toSim[j].c = "w"
          /\ \A j \in DOMAIN toC : toC[j].c = "v"
          /\ Len(toC) + Len(toSim) + Len(tosend) <= burst
      BY <1>0, <1>3 DEF RestInv
    <3>2. \A j \in DOMAIN toSim' : toSim'[j].c = "w"
      BY <1>4, <3>1
    <3>3. \A j \in DOMAIN toC' : toC'[j].c = "v"
      BY <1>8, <2>2, <2>5, <3>1, OneMore
    <3>4. Len(toC') + Len(toSim') + Len(tosend') <= burst'
      <4>1. Len(toC') = Len(toC) + 1 /\ Len(tosend) \in Nat /\ burst \in Int
        BY <1>0, <1>8, <2>2, <2>5, OneMore, NoLines, Bounds DEF Types, ClientTypes
      <4> QED  BY <1>1, <1>4, <1>8, <3>1, <4>1
    <3> QED  BY <1>1, <1>4, <2>4, <3>1, <3>2, <3>3, <3>4 DEF RestInv
  <2>10. AskedInv'
    <3>1. Len(toC') + (IF mode' = "run" THEN 1 ELSE 0) \in {Len(toC), Len(toC) + 1}
      BY <1>8, <2>4, <2>6
    <3> QED  BY <1>1, <1>3, <2>4, <2>6, <3>1, TakesAsked
  <2>11. CopyInv'
    <3>1. ASSUME NEW s \in known' PROVE Copied(s)'
      <4>0. s \in Signal /\ Copied(s)
        BY <1>0, <1>3, <1>6, <2>4, <3>1 DEF CopyInv
      <4>1. CASE s = l.s
        <5>1. About(p, s) /\ p.v = sv'[s]
          BY <1>0, <2>2, <2>3, <4>0, <4>1 DEF About, Types, BridgeTypes
        <5> QED  BY <1>0, <1>1, <2>2, <2>5, <5>1, CopiedPrinted DEF Types
      <4>2. CASE s # l.s
        <5>1. ~About(p, s) /\ sv'[s] = sv[s]
          BY <1>0, <2>2, <2>3, <4>0, <4>2 DEF About, Types, BridgeTypes
        <5> QED  BY <1>0, <1>1, <2>2, <2>5, <4>0, <5>1, CopiedPrinted DEF Types
      <4> QED  BY <4>1, <4>2
    <3> QED  BY <3>1 DEF CopyInv
  <2>12. TimeInv'
    <3>1. Timed(p)
      BY <2>2 DEF Timed
    <3> QED  BY <1>0, <1>1, <2>2, <2>3, <2>5, <3>1, OnTimePrinted DEF TimeInv, Types
  <2> QED  BY <1>7, <2>6, <2>7, <2>8, <2>9, <2>10, <2>11, <2>12 DEF Inv
<1>13. CASE l.c = "w" /\ sv[l.s] = l.v
  <2>1. /\ echo_data' = echo_data /\ is_waiting' = is_waiting /\ active_wait' = active_wait
        /\ UNCHANGED design /\ Printed(l) = <<>>
    BY <1>2, <1>13 DEF ReadCommand, Printed
  <2>2. /\ toC' = toC /\ mode' = "read" /\ known' = known /\ sv' = sv
        /\ deltas' = deltas /\ now' = now /\ toggle' = toggle /\ ~Pending /\ ~Pending'
    BY <1>3, <1>4, <1>6, <1>8, <1>13, <2>1 DEF design, Pending
  <2>3. Types'
    <3>1. mode' \in {"read", "run", "gone"}
      BY <2>2
    <3> QED  BY <1>0, <1>1, <1>3, <1>4, <1>8, <2>1, <2>2, <3>1
             DEF Types, PipeTypes, BridgeTypes
  <2>4. ModeInv'
    BY <1>0, <1>1, <1>3, <2>1, <2>2 DEF ModeInv
  <2>5. RestInv'
    <3> SUFFICES ASSUME cpc # "idle" PROVE RestInv'
      BY <1>1 DEF RestInv
    <3>1. /\ \A j \in DOMAIN tosend : tosend[j].c = "w"
          /\ \A j \in DOMAIN toSim : toSim[j].c = "w"
          /\ \A j \in DOMAIN toC : toC[j].c = "v"
          /\ Len(toC) + Len(toSim) + Len(tosend) <= burst
      BY <1>0, <1>3 DEF RestInv
    <3>2. \A j \in DOMAIN toSim' : toSim'[j].c = "w"
      BY <1>4, <3>1
    <3>3. Len(toC') + Len(toSim') + Len(tosend') <= burst'
      <4>1. Len(tosend) \in Nat /\ burst \in Int
        BY <1>0, NoLines, Bounds DEF Types, ClientTypes
      <4> QED  BY <1>1, <1>4, <1>8, <2>2, <3>1, <4>1
    <3> QED  BY <1>1, <1>4, <2>2, <3>1, <3>2, <3>3 DEF RestInv
  <2>6. AnswerInv'
    BY <1>1, <1>3, <2>2, TakesAnswer
  <2>7. AskedInv'
    <3>1. Len(toC') + (IF mode' = "run" THEN 1 ELSE 0) \in {Len(toC), Len(toC) + 1}
      BY <1>8, <2>2
    <3> QED  BY <1>1, <1>3, <1>8, <2>2, <3>1, TakesAsked
  <2>8. CopyInv'
    BY <1>0, <1>1, <1>3, <2>2, CopiedStays DEF CopyInv
  <2>9. TimeInv'
    BY <1>0, <1>1, <1>3, <2>2, OnTimeStays DEF TimeInv
  <2> QED  BY <1>7, <2>3, <2>4, <2>5, <2>6, <2>7, <2>8, <2>9 DEF Inv
<1> QED  BY <1>5, <1>9, <1>10, <1>11, <1>12, <1>13

-------------------------------------------------------------------------------
(* The theorems.                                                             *)

\* Nothing is under way at the start.
LEMMA InvInit == Init => Inv
<1> SUFFICES ASSUME Init PROVE Inv
  OBVIOUS
<1>1. /\ DOMAIN tosend = {} /\ DOMAIN toSim = {} /\ DOMAIN toC = {}
      /\ Len(tosend) = 0 /\ Len(toSim) = 0 /\ Len(toC) = 0
      /\ tosend \in Seq(Command) /\ toSim \in Seq(Command) /\ toC \in Seq(Line)
      /\ deltas \in Seq(Event)
  BY NoLines DEF Init
<1>2. ClientTypes
  <2>1. 0 \in EchoArg /\ 0 \in 0 .. Burst
    BY Bounds DEF EchoArg
  <2>2. op \in Op
    BY DEF Init, Op
  <2>3. val \in [Signal -> 0 .. 2]
    BY DEF Init, NoValue
  <2>4. dirty_writes \in BOOLEAN /\ io_error \in BOOLEAN
    BY Zenon DEF Init
  <2> QED  BY <1>1, <2>1, <2>2, <2>3, <2>4 DEF Init, ClientTypes
<1>3. BridgeTypes
  <2>1. echo_data \in [dirty : BOOLEAN, pending : BOOLEAN, arg : EchoArg]
    BY Bounds DEF Init, EchoArg
  <2>2. sv \in [Signal -> Bit] /\ toggle \in Int
    BY LinkAssumption DEF Init, Bit
  <2>3. reaped \in BOOLEAN /\ is_waiting \in BOOLEAN
    BY Zenon DEF Init
  <2> QED  BY <1>1, <2>1, <2>2, <2>3 DEF Init, BridgeTypes
<1>4. ModeInv /\ ~Pending
  BY DEF Init, ModeInv, Pending
<1>5. RestInv
  BY <1>1, <1>4 DEF Init, RestInv
<1>6. AskedInv /\ AnswerInv /\ CopyInv
  BY DEF Init, AskedInv, AnswerInv, CopyInv
<1>7. TimeInv
  BY <1>1 DEF Init, TimeInv, OnTime
<1>8. KnownInv
  BY <1>1 DEF Init, KnownInv
<1> QED  BY <1>1, <1>2, <1>3, <1>4, <1>5, <1>6, <1>7, <1>8 DEF Inv, Types, PipeTypes

\* The invariant is one of the variables only.
LEMMA InvStutters ==
  ASSUME Inv, UNCHANGED vars
  PROVE  Inv'
<1> USE DEF vars, client, bridge, design
<1>1. Types' /\ ModeInv' /\ RestInv'
  BY DEF Inv, Types, ClientTypes, PipeTypes, BridgeTypes, ModeInv, RestInv, Pending
<1>2. AskedInv' /\ AnswerInv'
  BY DEF Inv, AskedInv, AnswerInv, UnderWay, Ago, Settled, Pending
<1>3. CopyInv'
  BY CopiedStays DEF Inv, CopyInv
<1>4. TimeInv'
  BY OnTimeStays DEF Inv, TimeInv, Pending
<1>5. KnownInv'
  BY DEF Inv, KnownInv, ReadCmd
<1> QED  BY <1>1, <1>2, <1>3, <1>4, <1>5 DEF Inv

\* Every step of either process keeps the invariant.
LEMMA InvStep == Inv /\ [Next]_vars => Inv'
<1> SUFFICES ASSUME Inv, [Next]_vars PROVE Inv'
  OBVIOUS
<1>1. CASE LibraryNext
  <2>1. CASE ReadLine
    BY <2>1, ReadsNews, ReadsEcho
  <2> QED  BY <1>1, <2>1, WriteKeeps, EndKeeps, StartupKeeps, RoundKeeps, CallKeeps
           DEF LibraryNext
<1>2. CASE Set \/ Get \/ Call \/ Loop
  BY <1>2, SetKeeps, CallKeeps
<1>3. CASE SimNext
  BY <1>3, ReadCommandKeeps, DeltaKeeps, EchoCbKeeps, WaitCbKeeps, TimeStepKeeps, ReapKeeps
     DEF SimNext
<1>4. CASE Finished \/ UNCHANGED vars
  BY <1>4, InvStutters DEF Finished
<1> QED  BY <1>1, <1>2, <1>3, <1>4 DEF Next

\* The invariant: between the calls the bridge listens; within one the echoes under
\* way are consecutive, the last at the end; and the lines on their way back bring
\* the copies and the time up to date.
THEOREM Invariance == Spec => []Inv
BY InvInit, InvStep, PTL DEF Spec

\* When sim_go_to_idle returns, nothing is under way in either direction, and the
\* test bench has the simulator's values and time, whatever crossed its echoes.
THEOREM IdleMeansQuiet == Spec => []IdleIsQuiet
<1>1. Inv => IdleIsQuiet
  <2> SUFFICES ASSUME Inv, cpc = "round", ~io_error
               PROVE  /\ toSim = <<>> /\ toC = <<>> /\ mode = "read"
                      /\ deltas = <<>> /\ ~echo_data.pending
                      /\ picos = now
                      /\ op.k # "start" => val = sv
    BY DEF IdleIsQuiet
  <2>1. mode # "gone"
    BY DEF Inv, ModeInv
  <2>2. mode = "read" /\ ~Pending /\ toSim = <<>> /\ toC = <<>> /\ deltas = <<>>
    BY <2>1 DEF Inv, RestInv
  <2>3. DOMAIN toC = {}
    BY <2>2, NoLines
  <2>4. picos = now
    BY <2>2, <2>3 DEF Inv, TimeInv, OnTime
  <2>5. ASSUME op.k # "start" PROVE val = sv
    <3>1. \A s \in Signal : val[s] = sv[s]
      BY <2>1, <2>3, <2>5 DEF Inv, KnownInv, CopyInv, Copied
    <3> QED  BY <3>1 DEF Inv, Types, ClientTypes, BridgeTypes
  <2> QED  BY <2>2, <2>4, <2>5 DEF Pending
<1> QED  BY <1>1, Invariance, PTL

\* A client that calls sim_get reads what the design holds: after a write the copy
\* is refreshed first, and without one nothing is on its way that could change it.
THEOREM CopiesAreCurrent == Spec => []CopyIsCurrent
<1>1. Inv => CopyIsCurrent
  <2> SUFFICES ASSUME Inv, cpc = "client", ~dirty_writes, ~io_error
               PROVE  val = sv /\ toC = <<>>
    BY DEF CopyIsCurrent
  <2>1. mode # "gone" /\ op.k # "start"
    BY DEF Inv, ModeInv
  <2>2. toC = <<>>
    BY <2>1 DEF Inv, RestInv
  <2>3. DOMAIN toC = {}
    BY <2>2, NoLines
  <2>4. \A s \in Signal : val[s] = sv[s]
    BY <2>1, <2>3 DEF Inv, KnownInv, CopyInv, Copied
  <2> QED  BY <2>2, <2>4 DEF Inv, Types, ClientTypes, BridgeTypes
<1> QED  BY <1>1, Invariance, PTL

\* The test bench and the bridge never wait for each other, if the two pipes together
\* hold what one exchange sends.
THEOREM NeverBothBlocked == Spec => []NoMutualBlock
<1>1. Inv => NoMutualBlock
  <2> SUFFICES ASSUME Inv, cpc # "exited", tosend # <<>>, Len(toSim) = PipeCap,
                      mode = "read", Len(toC) + Len(Printed(Head(toSim))) > PipeCap
               PROVE  FALSE
    BY DEF NoMutualBlock
  <2>1. /\ Len(tosend) \in Nat /\ Len(tosend) > 0 /\ Len(toC) \in Nat
        /\ PipeCap \in Nat /\ Most <= 2 * PipeCap
    BY NoLines, PipeAssumption, Bounds DEF Inv, Types, ClientTypes, PipeTypes, Most
  <2>2. Len(Printed(Head(toSim))) \in {0, 1}
    <3>1. \/ \E x : Printed(Head(toSim)) = <<x>>
          \/ Printed(Head(toSim)) = <<>>
      BY DEF Printed
    <3> QED  BY <3>1
  <2>3. Len(toC) >= PipeCap
    <3>1. PICK n : n = Len(Printed(Head(toSim)))
      OBVIOUS
    <3>2. n \in {0, 1} /\ Len(toC) + n > PipeCap
      BY <2>2, <3>1
    <3> QED  BY <2>1, <3>2
  <2>4. CASE cpc = "idle"
    <3>1. Len(toC) + Len(toSim) + Len(tosend) <= Most
      BY <2>1, <2>4 DEF Inv, AskedInv, UnderWay
    <3> QED  BY <2>1, <2>3, <3>1, Bounds
  <2>5. CASE cpc # "idle"
    <3>1. Len(toC) + Len(toSim) + Len(tosend) <= burst
      BY <2>5 DEF Inv, RestInv
    <3>2. burst <= Burst /\ burst \in Int
      BY Bounds DEF Inv, Types, ClientTypes
    <3> QED  BY <2>1, <2>3, <3>1, <3>2, Bounds
  <2> QED  BY <2>4, <2>5
<1> QED  BY <1>1, Invariance, PTL

===============================================================================
