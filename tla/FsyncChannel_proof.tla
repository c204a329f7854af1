-------------------------- MODULE FsyncChannel_proof --------------------------
(***************************************************************************)
(* The synchroniser channel is correct for every set of commands and for   *)
(* one or two memory-clock edges to each cpu cycle.                        *)
(*                                                                         *)
(* The inductive invariant follows one command through the channel:        *)
(*   Idle      nothing is outstanding;                                     *)
(*   Latched   sent, and clk125 has not fallen yet, so nobody sees it;     *)
(*   Shown     the memory side's flip-flops are catching it;               *)
(*   Served    taken, and not answered;                                    *)
(*   Answered  the cpu side's flip-flops are catching the answer.          *)
(***************************************************************************)
EXTENDS FsyncChannel, TLAPS

Rising(a, b, c) == (a = 1 => b = 1) /\ (b = 1 => c = 1)

Idle ==
  ~waiting =>
    /\ half = bc.v /\ bc.v = bm.v
    /\ taken /\ ~serving
    /\ bc.m = 0 /\ bc.s = 0
    /\ Rising(fillv_del1, bm.s, bm.m)
    /\ bm.m = 1 \/ mEdges = 0

Latched ==
  half # bc.v =>
    /\ waiting /\ ~taken /\ ~serving
    /\ half = bm.v
    /\ bc.m = 0 /\ bc.s = 0 /\ rfillv = 0
    /\ Rising(fillv_del1, bm.s, bm.m) /\ bm.m = 1
    /\ mEdges <= 1

Shown ==
  (waiting /\ ~taken /\ half = bc.v) =>
    /\ half # bm.v /\ ~serving
    /\ bm.m = 0 => d0b.m = sent
    /\ bm.m = 0 \/ Rising(fillv_del1, bm.s, bm.m)
    /\ (bm.m = 0 /\ bm.s = 0) => (fillv_del1 = 1 /\ d0b.s = sent)
    /\ Rising(rfillv, bc.s, bc.m)
    /\ bc.m = 0 => /\ bm.m = 0 => mEdges >= 1
                   /\ (bm.m = 0 /\ bm.s = 0) => mEdges >= 2

Served ==
  serving =>
    /\ waiting /\ taken
    /\ half = bc.v /\ half # bm.v
    /\ bm.m = 0 /\ bm.s = 0 /\ fillv_del1 = 0
    /\ bc.m = 1 /\ Rising(rfillv, bc.s, bc.m)

Answered ==
  (waiting /\ taken /\ ~serving) =>
    /\ half = bc.v /\ half = bm.v
    /\ Rising(fillv_del1, bm.s, bm.m)
    /\ bc.m = 1 => Rising(rfillv, bc.s, bc.m)
    /\ bc.m = 0 => (bm.m = 1 \/ mEdges = 0)
    /\ (bc.m = 0 /\ bc.s = 0) => (rfillv = 1 /\ (bm.m = 1 \/ mEdges = 0))

IInv ==
  /\ TypeOK
  /\ d0v = sent
  /\ CommandIntact
  /\ Idle /\ Latched /\ Shown /\ Served /\ Answered

-------------------------------------------------------------------------------

\* Every behaviour of the channel satisfies the inductive invariant.
THEOREM InductiveInvariant == Spec => []IInv
<1> USE ChannelAssumption
<1>1. Init => IInv
  <2> SUFFICES ASSUME Init PROVE IInv
    OBVIOUS
  <2> USE DEF Init, FsyncReset
  <2>1. TypeOK
    <3>1. waiting \in BOOLEAN /\ serving \in BOOLEAN /\ taken \in BOOLEAN
      BY Zenon
    <3>2. QED
      BY <3>1 DEF TypeOK, FsyncReg, Bit, AnyData
  <2>2. d0v = sent /\ CommandIntact
    BY DEF CommandIntact
  <2>3. Idle /\ Latched /\ Shown /\ Served /\ Answered
    BY DEF Idle, Latched, Shown, Served, Answered, Rising
  <2>4. QED
    BY <2>1, <2>2, <2>3 DEF IInv
<1>2. IInv /\ [Next]_vars => IInv'
  <2> SUFFICES ASSUME IInv, [Next]_vars
               PROVE  IInv'
    OBVIOUS
  <2> USE DEF IInv, TypeOK, CommandIntact, Idle, Latched, Shown, Served,
              Answered, Rising, FsyncReg, Bit, AnyData, Request, cVars, mVars
  <2>1. CASE CpuSend
    <3> USE <2>1 DEF CpuSend, CpuEdge, MaySend, MemTransAck, FsyncC, Not, Xor
    <3>0. waiting' \in BOOLEAN /\ serving' \in BOOLEAN /\ taken' \in BOOLEAN
      BY Zenon
    <3>1. TypeOK' /\ (d0v = sent)' /\ CommandIntact'
      BY <3>0
    <3>2. Idle' /\ Latched'
      OBVIOUS
    <3>3. Shown'
      OBVIOUS
    <3>4. Served' /\ Answered'
      OBVIOUS
    <3>5. QED
      BY <3>1, <3>2, <3>3, <3>4
  <2>2. CASE CpuIdle
    BY <2>2 DEF CpuIdle, CpuEdge, MaySend, MemTransAck, FsyncC, Not, Xor
  <2>3. CASE CpuLow
    BY <2>3 DEF CpuLow
  <2>4. CASE MemAnswer
    <3> USE <2>4 DEF MemAnswer, MemEdge, Sampled, SampledLatched, FsyncM, Not, Xor
    <3>1. TypeOK' /\ (d0v = sent)' /\ CommandIntact'
      OBVIOUS
    <3>2. Idle' /\ Latched'
      OBVIOUS
    <3>3. Shown' /\ Served'
      OBVIOUS
    <3>4. Answered'
      <4>1. waiting /\ half = bc.v /\ half # bm.v /\ bm.m = 0 /\ bm.s = 0
        OBVIOUS
      <4>2. bc.m = 1 /\ Rising(rfillv, bc.s, bc.m)
        OBVIOUS
      <4>3. bm' = [v |-> half, m |-> 0, s |-> 0] /\ fillv_del1' = 0
        BY <4>1
      <4>4. QED
        BY <4>1, <4>2, <4>3
    <3>5. QED
      BY <3>1, <3>2, <3>3, <3>4
  <2>5. CASE MemIdle
    BY <2>5 DEF MemIdle, MemEdge, Sampled, SampledLatched, FsyncM, Not, Xor
  <2>stutter. CASE UNCHANGED vars
    BY <2>stutter DEF vars
  <2> QED
    BY <2>stutter, <2>1, <2>2, <2>3, <2>4, <2>5 DEF Next
<1>3. QED
  BY <1>1, <1>2, PTL DEF Spec

\* The registers of dcache.vhd and of its two users keep their types.
THEOREM TypeCorrect == Spec => []TypeOK
BY InductiveInvariant, PTL DEF IInv

\* The memory side takes a command whole, whatever the commands are and the phase of
\* the two clocks.
THEOREM TakesWhole == Spec => []CommandIntact
BY InductiveInvariant, PTL DEF IInv

\* The memory side takes each command once.
THEOREM TakesOnce == Spec => []TakenOnce
<1>1. IInv => TakenOnce
  BY DEF TakenOnce, Request, IInv, TypeOK, Idle, Latched, Shown, Served, Answered, Rising,
         FsyncReg, Bit
<1>2. QED
  BY <1>1, InductiveInvariant, PTL

\* The cpu side is told only of commands that were taken and answered.
THEOREM AckIsTrue == Spec => []AckMeansDone
<1>1. IInv => AckMeansDone
  BY DEF AckMeansDone, MemTransAck, IInv, TypeOK, Idle, Latched, Shown, Served, Answered,
         Rising, FsyncReg, Bit
<1>2. QED
  BY <1>1, InductiveInvariant, PTL

\* No request and no answer is lost in the flip-flops.
THEOREM LosesNothing == Spec => []NothingLost
<1>1. IInv => NothingLost
  BY DEF NothingLost, Request, IInv, TypeOK, Idle, Latched, Shown, Served, Answered, Rising,
         FsyncReg, Bit
<1>2. QED
  BY <1>1, InductiveInvariant, PTL

\* The synchroniser channel implements the one-command slot that dcache_ccl and
\* dcache_mcl are written against: every step of either clock puts a command,
\* takes it, reports it done, or changes nothing the users can tell.
THEOREM ChannelImplementsSlot == Spec => SlotSpec
<1>1. Init => Slot!Init
  BY DEF Init, Slot!Init, phase
<1>2. IInv /\ [Next]_vars => [Slot!Next]_(Slot!svars)
  <2> SUFFICES ASSUME IInv, [Next]_vars
               PROVE  [Slot!Next]_(Slot!svars)
    OBVIOUS
  <2> USE DEF Slot!svars, phase, IInv, TypeOK, FsyncReg, Bit, cVars, mVars
  <2>1. CASE CpuSend
    <3>1. ~waiting \/ (waiting /\ taken)
      BY <2>1 DEF CpuSend, CpuEdge, MaySend, MemTransAck, Latched, Shown,
                  Rising
    <3>2. phase \in {"free", "taken"} /\ phase' = "full"
      BY <2>1, <3>1 DEF CpuSend, CpuEdge
    <3>3. QED
      BY <2>1, <3>2 DEF CpuSend, CpuEdge, Slot!Next, Slot!Put
  <2>2. CASE CpuIdle
    <3>1. CASE waiting /\ MemTransAck
      <4>1. taken
        BY <3>1 DEF MemTransAck, Latched, Shown, Rising
      <4>2. phase = "taken" /\ phase' = "free"
        BY <2>2, <3>1, <4>1 DEF CpuIdle, CpuEdge
      <4>3. QED
        BY <2>2, <4>2 DEF CpuIdle, CpuEdge, Slot!Next, Slot!Done
    <3>2. CASE ~(waiting /\ MemTransAck)
      <4>1. phase' = phase
        BY <2>2, <3>2 DEF CpuIdle, CpuEdge
      <4>2. QED
        BY <2>2, <4>1 DEF CpuIdle, CpuEdge
    <3>3. QED
      BY <3>1, <3>2
  <2>3. CASE CpuLow
    BY <2>3 DEF CpuLow
  <2>4. ASSUME NEW answer \in BOOLEAN, MemEdge(answer)
        PROVE  [Slot!Next]_(Slot!svars)
    <3>1. CASE Request
      <4>1. waiting /\ ~taken /\ d0b.s = sent
        BY <3>1 DEF Request, Idle, Latched, Shown, Served, Answered, Rising
      <4>2. phase = "full" /\ phase' = "taken"
        BY <2>4, <3>1, <4>1 DEF MemEdge
      <4>3. QED
        BY <2>4, <3>1, <4>1, <4>2 DEF MemEdge, Slot!Next, Slot!Take
    <3>2. CASE ~Request
      BY <2>4, <3>2 DEF MemEdge
    <3>3. QED
      BY <3>1, <3>2
  <2>stutter. CASE UNCHANGED vars
    BY <2>stutter DEF vars
  <2> QED
    BY <2>stutter, <2>1, <2>2, <2>3, <2>4 DEF Next, MemAnswer, MemIdle
<1>3. QED
  BY <1>1, <1>2, InductiveInvariant, PTL DEF Spec, SlotSpec, Slot!Spec

===============================================================================
