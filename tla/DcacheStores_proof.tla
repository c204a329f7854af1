-------------------------- MODULE DcacheStores_proof ---------------------------
(***************************************************************************)
(* The cpu's stores reach the bus once each, in program order and with     *)
(* their own lanes and data, for every cache size and set of accesses.     *)
(*                                                                         *)
(* The stores not yet performed are at most three: one that dcache_mcl has *)
(* answered and holds in the store buffer, the one in the command channel, *)
(* and the one the cpu is asking for.                                      *)
(*                                                                         *)
(* The stores performed and not yet announced on the snoop output are at   *)
(* most two: one that is announced in this cycle, and one whose completion *)
(* is on its way through its bank's synchroniser.                          *)
(***************************************************************************)
EXTENDS Dcache_proof, SequenceTheorems

-------------------------------------------------------------------------------
(* What the cpu asks for, in each state of dcache_ccl.                       *)

StoreStates == OffStates \cup {"WUNCA1", "WUNCA2"}

\* The lock goes with TAS, whose write starts with nothing under way; a read that
\* misses and a locked read wait for their word.
CpuInv ==
  /\ ~cpu.a.en => ~cpu.a.wr
  /\ cpu.tas = "none" => ~cpu.lock
  /\ cpu.tas = "read" => cpu.a.en /\ ~cpu.a.wr /\ cpu.lock
  /\ cpu.tas = "held" => ~cpu.a.en
  /\ cpu.tas \in {"held", "write"} =>
       cpu.lock /\ c.state \in {"IDLE"} \cup OffStates \cup LockStates
  /\ c.state \in {"RMISS1", "RMISS2"} => cpu.a.en /\ ~cpu.a.wr /\ ~cpu.lock
  /\ c.state \in {"RLOCK1", "RLOCK2"} => ~cpu.a.wr
  /\ c.state \in {"WUNCA1", "WUNCA2"} => cpu.a.wr
  /\ c.state \in OffStates => (cpu.a.wr <=> bc.d0v.cmd \in WriteCommands)
  /\ cpu.a.wr => cpu.a.we \in {Lanes, {cpu.a.a.b}}

-------------------------------------------------------------------------------
(* The stores that have not been performed.                                  *)

Buffered == [p |-> Place(m.ma0), we |-> m.sbwe, d |-> m.sbdata]
Sent     == [p |-> Place(bc.d0v.a), we |-> SizeLanes(bc.d0v.sz, bc.d0v.a), d |-> bc.d0v.d]
Asked    == [p |-> Place(cpu.a.a), we |-> cpu.a.we, d |-> cpu.a.d]

\* The cpu asks for a store that dcache_ccl has not taken.
Asking == cpu.a.en /\ cpu.a.wr /\ c.state \notin StoreStates

\* The stores of three places, oldest first.
Queue(h1, e1, h2, e2, h3, e3) ==
  IF h1 THEN IF h2 THEN IF h3 THEN <<e1, e2, e3>> ELSE <<e1, e2>>
                   ELSE IF h3 THEN <<e1, e3>> ELSE <<e1>>
        ELSE IF h2 THEN IF h3 THEN <<e2, e3>> ELSE <<e2>>
                   ELSE IF h3 THEN <<e3>> ELSE <<>>

PendInv == hist.pend = Queue(Previous, Buffered, Current, Sent, Asking, Asked)

\* The registers of a write that dcache_mcl is at work on are the command's.
RegInv ==
  (m.statemcl \in M!Writing /\ ~Waiting) =>
    /\ m.ma0 = bc.d0v.a
    /\ m.sbwe = SizeLanes(bc.d0v.sz, bc.d0v.a)
    /\ m.statemcl # "WTHA" => m.sbdata = bc.d0v.d

HistShape ==
  hist = [pend |-> hist.pend, done |-> hist.done, stale |-> hist.stale,
          syen |-> hist.syen, tasRead |-> hist.tasRead]

StoreInv == HistShape /\ CpuInv /\ RegInv /\ PendInv

-------------------------------------------------------------------------------
(* The queue: the cpu asks for one more.                                     *)

\* Append to a sequence of none, one and two.
LEMMA AppendPair ==
  ASSUME NEW e1, NEW e
  PROVE  Append(<<e1>>, e) = <<e1, e>>
<1> DEFINE S == {e1, e}
<1>1. <<e1>> \in Seq(S) /\ e \in S /\ <<e1, e>> \in Seq(S)
  OBVIOUS
<1> HIDE DEF S
<1>2. Append(<<e1>>, e) \in Seq(S) /\ Len(Append(<<e1>>, e)) = 2
  BY <1>1
<1>3. \A i \in 1 .. 2 : Append(<<e1>>, e)[i] = <<e1, e>>[i]
  BY <1>1
<1> QED  BY <1>1, <1>2, <1>3, SeqEqual

\* Append to a sequence of two, and to the empty one.
LEMMA AppendThird ==
  ASSUME NEW e1, NEW e2, NEW e
  PROVE  Append(<<e1, e2>>, e) = <<e1, e2, e>>
<1> DEFINE S == {e1, e2, e}
<1>1. <<e1, e2>> \in Seq(S) /\ e \in S /\ <<e1, e2, e>> \in Seq(S)
  OBVIOUS
<1> HIDE DEF S
<1>2. Append(<<e1, e2>>, e) \in Seq(S) /\ Len(Append(<<e1, e2>>, e)) = 3
  BY <1>1
<1>3. \A i \in 1 .. 3 : Append(<<e1, e2>>, e)[i] = <<e1, e2, e>>[i]
  BY <1>1
<1> QED  BY <1>1, <1>2, <1>3, SeqEqual

\* The first store of an empty queue.
LEMMA AppendFirst ==
  ASSUME NEW e
  PROVE  Append(<<>>, e) = <<e>>
OBVIOUS

-------------------------------------------------------------------------------
(* The cpu over a cpu clock edge.                                            *)

\* What the cpu does: it waits, asks for nothing or a read, or asks for a store.
LEMMA CpuMoves ==
  ASSUME CpuStep, CpuTypes, CpuInv
  PROVE  /\ \/ cpu' = cpu /\ ~(cpu.a.en /\ Acked)
            \/ ~(cpu.a.en /\ ~Acked) /\ ~cpu'.a.wr
            \/ ~(cpu.a.en /\ ~Acked) /\ NewWrite /\ cpu'.a.en
         /\ ~cpu'.a.en => ~cpu'.a.wr
         /\ cpu'.a.wr => cpu'.a.we \in {Lanes, {cpu'.a.a.b}}
         /\ cpu'.tas = "none" => ~cpu'.lock
         /\ cpu'.tas = "read" => cpu'.a.en /\ ~cpu'.a.wr /\ cpu'.lock
         /\ cpu'.tas = "held" => ~cpu'.a.en /\ cpu'.lock
         /\ cpu'.tas = "write" => cpu'.lock
         /\ cpu'.tas \in {"held", "write"} =>
              \/ cpu' = cpu
              \/ cpu.tas = "read" /\ Acked
              \/ cpu.tas \in {"held", "write"}
<1> USE DEF CpuInv
<1>0. /\ ~NullRequest.en /\ ~NullRequest.wr
      /\ cpu = [a |-> cpu.a, lock |-> cpu.lock, tas |-> cpu.tas, at |-> cpu.at, n |-> cpu.n]
      /\ cpu.n \in Nat
      /\ cpu.tas \in {"none", "read", "held", "write"}
  BY Sizes DEF NullRequest, CpuTypes
<1>1. CASE cpu.a.en /\ ~Acked
  BY <1>0, <1>1 DEF CpuStep
<1>2. CASE ~(cpu.a.en /\ ~Acked) /\ NoAccess
  BY <1>0, <1>2 DEF NoAccess
<1>3. CASE ~(cpu.a.en /\ ~Acked) /\ NewAccess
  <2>1. CASE \E q \in Requests(cpu.n + 1) :
               cpu' = [a |-> q, lock |-> FALSE, tas |-> "none", at |-> Address0,
                       n |-> cpu.n + 1]
    <3>1. PICK q \in Requests(cpu.n + 1) :
               cpu' = [a |-> q, lock |-> FALSE, tas |-> "none", at |-> Address0,
                       n |-> cpu.n + 1]
      BY <2>1
    <3>2. CASE \E a \in Reads : q = ReadRequest(a)
      BY <1>0, <1>3, <3>1, <3>2 DEF ReadRequest, NullRequest
    <3>3. CASE \E w \in Writes : q = WriteRequest(w.a, w.we, cpu.n + 1)
      <4>1. PICK w \in Writes : q = WriteRequest(w.a, w.we, cpu.n + 1)
        BY <3>3
      <4>2. q.en /\ q.wr /\ q.a = w.a /\ q.we = w.we
        BY <4>1 DEF WriteRequest
      <4>3. q.we \in {Lanes, {q.a.b}}
        BY <4>2, DcacheAssumption
      <4>4. cpu.n + 1 # cpu.n
        BY <1>0
      <4> QED  BY <1>3, <3>1, <4>2, <4>3, <4>4 DEF NewWrite
    <3> QED  BY <3>1, <3>2, <3>3 DEF Requests
  <2>2. CASE \E a \in TasReads :
               cpu' = [a |-> ReadRequest(a), lock |-> TRUE, tas |-> "read", at |-> a,
                       n |-> cpu.n + 1]
    <3>1. PICK a \in TasReads :
               cpu' = [a |-> ReadRequest(a), lock |-> TRUE, tas |-> "read", at |-> a,
                       n |-> cpu.n + 1]
      BY <2>2
    <3>2. ReadRequest(a).en /\ ~ReadRequest(a).wr
      BY DEF ReadRequest, NullRequest
    <3> QED  BY <1>3, <3>1, <3>2
  <2> QED  BY <1>3, <2>1, <2>2 DEF NewAccess
<1>4. CASE cpu.tas = "held" /\ TasWrite
  <2>1. /\ cpu'.a = WriteRequest(cpu.at, {cpu.at.b}, cpu.n + 1)
        /\ cpu'.tas = "write" /\ cpu'.n = cpu.n + 1 /\ cpu'.lock = cpu.lock
    BY <1>0, <1>4 DEF TasWrite
  <2>2. /\ cpu'.a.en /\ cpu'.a.wr /\ cpu'.a.we = {cpu'.a.a.b}
    BY <2>1 DEF WriteRequest
  <2>3. cpu.n + 1 # cpu.n
    BY <1>0
  <2> QED  BY <1>4, <2>1, <2>2, <2>3 DEF NewWrite
<1>5. CASE ~(cpu.a.en /\ ~Acked) /\ LockLingers /\ cpu.tas \notin {"read", "held"}
  BY <1>0, <1>5 DEF LockLingers
<1>6. CASE ~(cpu.a.en /\ ~Acked) /\ cpu.tas = "read"
  BY <1>0, <1>6 DEF CpuStep
<1>7. CASE ~(cpu.a.en /\ ~Acked) /\ cpu.tas = "held" /\ UNCHANGED cpu
  BY <1>0, <1>7
<1> QED  BY <1>0, <1>1, <1>2, <1>3, <1>4, <1>5, <1>6, <1>7 DEF CpuStep

\* A store is acknowledged in the cycle in which it is sent, or is uncached.
LEMMA StoreAcked ==
  ASSUME CclInv, CpuTypes, CpuInv, cpu.a.en, cpu.a.wr
  PROVE  /\ c.state \notin StoreStates =>
              \/ SendsWrite(c, CclIn, Goes) /\ Acked /\ Goes \notin StoreStates
              \/ SendsWrite(c, CclIn, Goes) /\ ~Acked /\ Goes \in StoreStates
              \/ ~Sends /\ ~Acked /\ Goes \notin StoreStates
         /\ c.state \in StoreStates =>
              /\ ~Sends
              /\ \/ Acked /\ Goes \notin StoreStates
                 \/ ~Acked /\ Goes \in StoreStates
<1> USE CclSignals
<1>0. c.state \notin {"RMISS1", "RMISS2", "RLOCK1", "RLOCK2"}
  BY DEF CpuInv
<1>1. CASE c.state = "IDLE" /\ c.dc_onm
  <2>1. Goes = IdleOn(c, CclIn)
    BY <1>1 DEF Goes, NextState, NextStateOn
  <2>2. Acked <=> ~cpu.lock /\ AdrsEquCacheLi(c, CclIn)
    BY <1>1 DEF Acked, YAck, YAckI1, YAckI2, YAckD
  <2>3. Goes = IF AdrsEquCacheLi(c, CclIn)
                 THEN IF cpu.lock THEN "WUNCA1" ELSE WriteState(c, CclIn)
                 ELSE "IDLE"
    BY <2>1 DEF IdleOn
  <2> QED  BY <1>1, <2>2, <2>3
           DEF SendsWrite, Sends, B0en, WriteState, StoreStates, OffStates
<1>2. CASE c.state = "IDLE" /\ ~c.dc_onm
  <2>1. Goes = "OFF1"
    BY <1>2 DEF Goes, NextState, NextStateOff, IdleOff
  <2>2. ~Acked
    BY <1>2 DEF Acked, YAck
  <2> QED  BY <1>2, <2>1, <2>2 DEF SendsWrite, Sends, B0en, StoreStates, OffStates
<1>3. CASE c.state = "SB2"
  <2>1. c.dc_onm
    BY <1>3 DEF CclInv, OnStates
  <2>2. ~cpu.lock
    BY <1>3 DEF CpuInv, CpuTypes, OffStates, LockStates
  <2>3. Goes = IF Answered THEN Sb2Acked(c, CclIn) ELSE "SB2"
    BY <1>3, <2>1 DEF Goes, NextState, NextStateOn
  <2>4. Acked <=> Answered /\ AdrsEquCacheLi(c, CclIn) /\ CclIn.ctrl.en = c.dc_onm
    BY <1>3, <2>1, <2>2 DEF Acked, YAck, YAckI1, YAckI2, YAckD
  <2>5. Sb2Acked(c, CclIn) = IF AdrsEquCacheLi(c, CclIn) /\ CclIn.ctrl.en = c.dc_onm
                               THEN WriteState(c, CclIn) ELSE "IDLE"
    BY DEF Sb2Acked
  <2> QED  BY <1>3, <2>3, <2>4, <2>5
           DEF SendsWrite, Sends, B0en, WriteState, StoreStates, OffStates
<1>4. CASE c.state \in {"SB1", "RMISS3", "WMISS1", "WMISS2", "NEGLCK"}
  <2>1. ~Acked
    BY <1>4 DEF Acked, YAck, YAckI1, YAckI2, YAckD
  <2> QED  BY <1>4, <2>1, FromBusy DEF StoreStates, OffStates
<1>5. CASE c.state \in StoreStates
  <2>1. Acked <=> c.state \in {"WUNCA2", "OFF2"} /\ Answered
    BY <1>5 DEF Acked, YAck, YAckI1, YAckI2, YAckD, CclInv, OnStates, StoreStates, OffStates
  <2>2. c.state = "WUNCA1" => Goes = "WUNCA2"
    BY DEF Goes, NextState, NextStateOn, CclInv, OnStates
  <2>3. c.state = "OFF1" => Goes = "OFF2"
    BY DEF Goes, NextState, NextStateOff, CclInv
  <2> QED  BY <1>5, <2>1, <2>2, <2>3, FromBusy DEF StoreStates, OffStates
<1> QED  BY <1>0, <1>1, <1>2, <1>3, <1>4, <1>5 DEF CclInv, CclStates, StoreStates, OffStates

\* A read that misses is not acknowledged before its word is there.
LEMMA MissWaits ==
  ASSUME CclInv, CpuInv, CpuStep, Goes \in {"RMISS1", "RMISS2"}
  PROVE  cpu' = cpu /\ cpu.a.en /\ ~cpu.a.wr /\ ~cpu.lock
<1> USE CclSignals
<1>1. CASE c.state = "IDLE"
  <2>1. cpu.a.en /\ ~cpu.a.wr /\ ~cpu.lock /\ c.dc_onm /\ Goes = "RMISS1"
    BY <1>1, FromIdle
  <2>2. ~CacheHit(c, CclIn)
    BY <1>1, <2>1 DEF Goes, NextState, NextStateOn, IdleOn, WriteState
  <2>3. ~Acked
    BY <1>1, <2>1, <2>2 DEF Acked, YAck, YAckI1, YAckI2, YAckD
  <2> QED  BY <2>1, <2>3 DEF CpuStep
<1>2. CASE c.state # "IDLE"
  <2>1. c.state \in {"RMISS1", "RMISS2", "RMISS3"} /\ Goes = "RMISS2"
    BY <1>2, FromBusy
  <2>2. c.dc_onm
    BY <2>1 DEF CclInv, OnStates
  <2>3. c.state # "RMISS3" /\ (c.state = "RMISS2" => ~CriticalWord(c, CclIn))
    BY <2>1, <2>2 DEF Goes, NextState, NextStateOn
  <2>4. cpu.a.en /\ ~cpu.a.wr /\ ~cpu.lock
    BY <2>1, <2>3 DEF CpuInv
  <2>5. ~Acked
    BY <2>1, <2>2, <2>3 DEF Acked, YAck, YAckI1, YAckI2, YAckD
  <2> QED  BY <2>4, <2>5 DEF CpuStep
<1> QED  BY <1>1, <1>2

\* A locked read is acknowledged as dcache_ccl becomes idle.
LEMMA LockedReadAcked ==
  ASSUME CclInv, CpuInv, cpu.a.en, cpu.lock, ~cpu.a.wr, Acked
  PROVE  Goes = "IDLE"
<1> USE CclSignals
<1>1. \/ c.state \in {"RLOCK2", "WUNCA2"} /\ Answered /\ c.dc_onm
      \/ c.state = "OFF2" /\ Answered /\ ~c.dc_onm
  BY DEF Acked, YAck, YAckI1, YAckI2, YAckD, CpuInv
<1> QED  BY <1>1, FromBusy

\* A cpu clock edge keeps what the request is in each state of dcache_ccl.
LEMMA CEdgeCpu ==
  ASSUME CEdge, CclInv, CpuTypes, StateInv, CpuInv
  PROVE  CpuInv'
<1>1. c'.state = Goes /\ bc'.d0v.cmd = IF Sends THEN Cmd(CclIn, Goes) ELSE bc.d0v.cmd
  BY CEdgeEffects DEF CEffects
<1>2. CpuStep
  BY DEF CEdge
<1>3. cpu'.tas \in {"held", "write"} => Goes \in {"IDLE"} \cup OffStates \cup LockStates
  <2>1. cpu.tas \in {"held", "write"} => Goes \in {"IDLE"} \cup OffStates \cup LockStates
    BY FromIdle, FromBusy DEF CpuInv, OffStates, LockStates
  <2>2. cpu.tas = "read" /\ Acked => Goes = "IDLE"
    BY LockedReadAcked DEF CpuInv
  <2> QED  BY <1>2, <2>1, <2>2, CpuMoves
<1>4. Goes \in {"RMISS1", "RMISS2"} => cpu'.a.en /\ ~cpu'.a.wr /\ ~cpu'.lock
  BY <1>2, MissWaits
<1>5. Goes \in {"RLOCK1", "RLOCK2"} => ~cpu'.a.wr
  <2>1. Goes \in {"RLOCK1", "RLOCK2"} => ~cpu.a.wr
    BY FromIdle, FromBusy DEF CpuInv
  <2> QED  BY <2>1, UncachedWaits DEF LockStates
<1>6. Goes \in {"WUNCA1", "WUNCA2"} => cpu'.a.wr
  <2>1. Goes \in {"WUNCA1", "WUNCA2"} => cpu.a.wr
    BY FromIdle, FromBusy DEF CpuInv
  <2> QED  BY <2>1, UncachedWaits DEF LockStates
<1>7. Goes \in OffStates => (cpu'.a.wr <=> bc'.d0v.cmd \in WriteCommands)
  <2> SUFFICES ASSUME Goes \in OffStates PROVE cpu'.a.wr <=> bc'.d0v.cmd \in WriteCommands
    OBVIOUS
  <2>1. cpu' = cpu
    BY UncachedWaits
  <2>2. CASE Sends
    BY <1>1, <2>1, <2>2, SentCommand, CclSignals DEF SendsWrite, Sends, OffStates
  <2>3. CASE ~Sends
    <3>1. c.state \in OffStates
      BY <2>3, FromIdle, FromBusy DEF OffStates
    <3> QED  BY <1>1, <2>1, <2>3, <3>1 DEF CpuInv
  <2> QED  BY <2>2, <2>3
<1> QED  BY <1>1, <1>2, <1>3, <1>4, <1>5, <1>6, <1>7, CpuMoves DEF CpuInv

-------------------------------------------------------------------------------
(* The stores over a cpu clock edge.                                         *)

SendsStore == SendsWrite(c, CclIn, Goes)

\* The cpu's store is taken as it is sent, and it asks for the next one then.
LEMMA AskingMoves ==
  ASSUME CEdge, CclInv, CpuTypes, StateInv, CpuInv
  PROVE  /\ Asking' <=> (NewWrite \/ (Asking /\ ~SendsStore))
         /\ NewWrite => ~Asking \/ SendsStore
         /\ (Asking /\ ~SendsStore) => cpu' = cpu
         /\ SendsStore => Asking
<1>1. CpuStep /\ c'.state = Goes
  BY CEdgeEffects DEF CEdge, CEffects
<1>2. cpu' = cpu => ~NewWrite
  BY DEF NewWrite
<1>3. CASE Asking
  <2>1. \/ SendsStore /\ Acked /\ Goes \notin StoreStates
        \/ SendsStore /\ ~Acked /\ Goes \in StoreStates
        \/ ~SendsStore /\ ~Acked /\ Goes \notin StoreStates
    BY <1>3, StoreAcked DEF Asking, SendsStore, SendsWrite, Sends
  <2>2. ~Acked => cpu' = cpu
    BY <1>1, <1>3 DEF CpuStep, Asking
  <2>3. Acked => \/ ~cpu'.a.wr
                 \/ NewWrite /\ cpu'.a.en /\ cpu'.a.wr
    BY <1>1, <1>3, CpuMoves DEF Asking, NewWrite
  <2> QED  BY <1>1, <1>2, <1>3, <2>1, <2>2, <2>3 DEF Asking, NewWrite
<1>4. CASE ~Asking
  <2>1. cpu.a.wr => cpu.a.en /\ c.state \in StoreStates
    BY <1>4 DEF Asking, CpuInv
  <2>2. ~SendsStore
    <3>1. SendsStore => Sends /\ cpu.a.wr
      BY CclSignals DEF SendsStore, SendsWrite, Sends
    <3> QED  BY <2>1, <3>1, StoreAcked
  <2>3. cpu' = cpu => ~Asking'
    <3>1. cpu.a.wr /\ ~Acked => Goes \in StoreStates
      BY <2>1, StoreAcked
    <3>2. cpu.a.wr /\ Acked => cpu' # cpu
      <4>1. cpu.a.wr /\ Acked => ~cpu'.a.wr \/ NewWrite
        BY <1>1, <2>1, CpuMoves
      <4> QED  BY <1>2, <4>1
    <3> QED  BY <1>1, <3>1, <3>2 DEF Asking
  <2>4. NewWrite => Goes \notin StoreStates
    BY <1>2, UncachedWaits DEF StoreStates, LockStates
  <2>5. \/ cpu' = cpu
        \/ ~cpu'.a.wr
        \/ NewWrite /\ cpu'.a.en /\ cpu'.a.wr
    BY <1>1, CpuMoves DEF NewWrite
  <2>6. ~cpu'.a.wr => ~NewWrite
    BY DEF NewWrite
  <2> QED  BY <1>1, <1>2, <1>4, <2>2, <2>3, <2>4, <2>5, <2>6 DEF Asking
<1> QED  BY <1>3, <1>4

\* The store in the channel is the one that was sent.
LEMMA CEdgeCurrent ==
  ASSUME CEdge, CoreInv
  PROVE  /\ Previous' <=> Previous
         /\ Waiting' <=> Waiting
         /\ m' = m
         /\ SendsStore => Sends /\ ~Current /\ Current'
         /\ ~SendsStore => (Current' <=> Current)
         /\ Current => ~Sends
         /\ Sends => Waiting
<1>1. CEffects
  BY CEdgeEffects
<1>2. /\ m' = m /\ bm' = bm /\ half' = half
      /\ bc'.d0v.cmd = IF Sends THEN Cmd(CclIn, Goes) ELSE bc.d0v.cmd
  BY <1>1 DEF CEffects
<1>3. bc'.b0.v = (IF Sends THEN 1 - bm.b0.v ELSE bc.b0.v) /\ bm.b0.v \in Bit
  <2>1. CSync(Sends) /\ bm.b0.v \in Bit
    BY CEdgeParts DEF CoreInv, Channel0Inv, ChannelTypes, FsyncReg
  <2> QED  BY <2>1 DEF CSync, FsyncC, Not
<1>4. (Waiting' <=> Waiting) /\ (Previous' <=> Previous)
  BY <1>2 DEF Waiting, Previous, Arrived
<1>5. Sends => ~Outstanding /\ Waiting /\ ~Current
  BY SendsFree DEF CoreInv, Outstanding, Waiting, Current
<1>6. Sends => Outstanding'
  BY <1>2, <1>3 DEF Outstanding, Bit
<1>7. SendsStore <=> (Sends /\ Cmd(CclIn, Goes) \in WriteCommands)
  BY SentCommand DEF CoreInv, SendsStore, SendsWrite, Sends
<1>8. SendsStore => Current'
  BY <1>2, <1>4, <1>5, <1>6, <1>7 DEF Current
<1>9. ~SendsStore => (Current' <=> Current)
  <2>1. CASE Sends
    BY <1>2, <1>5, <1>7, <2>1 DEF Current
  <2>2. CASE ~Sends
    BY <1>2, <1>3, <1>4, <2>2 DEF Current, Outstanding
  <2> QED  BY <2>1, <2>2
<1> QED  BY <1>2, <1>4, <1>5, <1>7, <1>8, <1>9

\* What is sent of a store is the store.
LEMMA SentIsAsked ==
  ASSUME CEdge, CclInv, CpuInv, SendsStore
  PROVE  Sent' = Asked
<1>1. bc'.d0v = IF B0en(c, Goes) THEN B0d(CclIn, Goes) ELSE bc.d0v
  <2>1. FsyncCcl(CclIn, Goes)
    BY DEF CEdge, Goes
  <2>2. PICK x, st : x = CclIn /\ st = Goes
    OBVIOUS
  <2> QED  BY <2>1, <2>2 DEF FsyncCcl
<1>2. Sends /\ cpu.a.wr /\ Goes \notin {"NEGLCK", "RMISS1"}
  BY FromIdle, FromBusy, CclSignals DEF SendsStore, SendsWrite, Sends
<1>3. /\ bc'.d0v.a = cpu.a.a /\ bc'.d0v.d = cpu.a.d
      /\ bc'.d0v.sz = Size(cpu.a.we)
  BY <1>1, <1>2, CclSignals DEF B0d, Sends
<1>4. SizeLanes(Size(cpu.a.we), cpu.a.a) = cpu.a.we
  BY <1>2 DEF CpuInv, Size, SizeLanes
<1> QED  BY <1>3, <1>4 DEF Sent, Asked

\* A cpu clock edge keeps the queue: a store asked for joins it at the end, and one
\* that dcache_ccl takes moves from the request to the channel in its place.
LEMMA CEdgePend ==
  ASSUME CEdge, CoreInv, CpuTypes, StateInv, CpuInv, PendInv
  PROVE  PendInv'
<1>1. hist'.pend = IF NewWrite THEN Append(hist.pend, Asked') ELSE hist.pend
  BY DEF CEdge, HistC, Asked
<1>2. CclInv
  BY DEF CoreInv
<1>3. /\ Previous' <=> Previous
      /\ SendsStore => ~Current /\ Current'
      /\ ~SendsStore => (Current' <=> Current)
      /\ Current => ~Sends
      /\ m' = m
  BY CEdgeCurrent
<1>4. Buffered' = Buffered
  BY <1>3 DEF Buffered
<1>5. SendsStore => Sent' = Asked
  BY <1>2, SentIsAsked
<1>6. ~Sends => Sent' = Sent
  <2>1. ~Sends => bc'.d0v = bc.d0v
    BY CEdgeParts DEF CSync, CoreInv, Channel0Inv, ChannelTypes
  <2> QED  BY <2>1 DEF Sent
<1>7. /\ Asking' <=> (NewWrite \/ (Asking /\ ~SendsStore))
      /\ NewWrite => ~Asking \/ SendsStore
      /\ (Asking /\ ~SendsStore) => cpu' = cpu
      /\ SendsStore => Asking
  BY <1>2, AskingMoves
<1>8. cpu' = cpu => Asked' = Asked
  BY DEF Asked
<1>9. /\ hist.pend = Queue(Previous, Buffered, Current, Sent, Asking, Asked)
      /\ Previous \in BOOLEAN /\ Current \in BOOLEAN /\ Asking \in BOOLEAN
      /\ Asking' \in BOOLEAN /\ Current' \in BOOLEAN /\ Previous' \in BOOLEAN
  BY DEF PendInv, Previous, Current, Asking
<1> SUFFICES hist'.pend = Queue(Previous', Buffered', Current', Sent', Asking', Asked')
  BY DEF PendInv
<1>10. PICK P \in BOOLEAN, C \in BOOLEAN, C1 \in BOOLEAN, W \in BOOLEAN, W1 \in BOOLEAN :
         /\ P = Previous /\ C = Current /\ C1 = Current' /\ W = Asking /\ W1 = Asking'
         /\ P = Previous'
  BY <1>3, <1>9
<1>11. PICK eB, eS, eS1, eA, eA1 : /\ eB = Buffered /\ eB = Buffered' /\ eS = Sent
                                   /\ eS1 = Sent' /\ eA = Asked /\ eA1 = Asked'
  BY <1>4
<1>12. hist.pend = Queue(P, eB, C, eS, W, eA)
  BY <1>9, <1>10, <1>11
<1> SUFFICES hist'.pend = Queue(P, eB, C1, eS1, W1, eA1)
  BY <1>10, <1>11
<1>13. /\ hist'.pend = IF NewWrite THEN Append(hist.pend, eA1) ELSE hist.pend
       /\ SendsStore => ~C /\ C1 /\ W /\ eS1 = eA
       /\ ~SendsStore => C1 = C
       /\ C => eS1 = eS
       /\ NewWrite => W1 /\ (~W \/ SendsStore)
       /\ ~NewWrite => W1 = (W /\ ~SendsStore)
       /\ (W /\ ~SendsStore) => eA1 = eA
  BY <1>1, <1>3, <1>5, <1>6, <1>7, <1>8, <1>10, <1>11
<1>14. CASE SendsStore
  <2>1. PICK N \in BOOLEAN : ~N
    OBVIOUS
  <2>2. Queue(P, eB, C1, eS1, N, eA) = Queue(P, eB, C, eS, W, eA)
    BY <1>13, <1>14, <2>1 DEF Queue
  <2>3. CASE NewWrite
    <3>1. Append(Queue(P, eB, C1, eS1, N, eA), eA1) = Queue(P, eB, C1, eS1, W1, eA1)
      <4>1. W1 = TRUE /\ N = FALSE
        BY <1>13, <2>1, <2>3
      <4> QED  BY <4>1, AppendFirst, AppendPair, AppendThird DEF Queue
    <3> QED  BY <1>12, <1>13, <2>2, <2>3, <3>1
  <2>4. CASE ~NewWrite
    <3>1. ~W1
      BY <1>13, <1>14, <2>4
    <3>2. Queue(P, eB, C1, eS1, W1, eA1) = Queue(P, eB, C, eS, W, eA)
      BY <1>13, <1>14, <3>1 DEF Queue
    <3> QED  BY <1>12, <1>13, <2>4, <3>2
  <2> QED  BY <2>3, <2>4
<1>15. CASE ~SendsStore
  <2>1. Queue(P, eB, C, eS1, W, eA) = Queue(P, eB, C, eS, W, eA)
    BY <1>13 DEF Queue
  <2>2. CASE NewWrite
    <3>1. Append(Queue(P, eB, C, eS1, W, eA), eA1) = Queue(P, eB, C, eS1, W1, eA1)
      <4>1. W1 = TRUE /\ W = FALSE
        BY <1>13, <1>15, <2>2
      <4> QED  BY <4>1, AppendFirst, AppendPair, AppendThird DEF Queue
    <3> QED  BY <1>12, <1>13, <1>15, <2>1, <2>2, <3>1
  <2>3. CASE ~NewWrite
    <3>1. W1 = W /\ (W => eA1 = eA)
      BY <1>13, <1>15, <2>3
    <3>2. Queue(P, eB, C, eS1, W, eA1) = Queue(P, eB, C, eS1, W, eA)
      BY <3>1 DEF Queue
    <3> QED  BY <1>12, <1>13, <1>15, <2>1, <2>3, <3>1, <3>2
  <2> QED  BY <2>2, <2>3
<1> QED  BY <1>14, <1>15

-------------------------------------------------------------------------------
(* The stores over a memory clock edge.                                      *)

WEffects(ack) ==
  /\ m'.ma0 = M!Ma0(m, MclIn(ack), m'.statemcl)
  /\ m'.sbwe = M!Sbwe(m, MclIn(ack), m'.statemcl)
  /\ m'.sbdata = IF M!TakesWrite(m, MclIn(ack)) THEN M!SboutD(m, MclIn(ack)) ELSE m.sbdata
  /\ hist'.pend = IF ack /\ m.mwr /\ hist.pend # <<>> THEN Tail(hist.pend) ELSE hist.pend
  /\ cpu' = cpu /\ c' = c /\ bc' = bc

\* A memory clock edge reduced to what it does to the write registers and the queue.
LEMMA MEdgeWEffects ==
  ASSUME NEW ack \in BOOLEAN, MEdge(ack), HistShape
  PROVE  WEffects(ack)
<1>1. m' = M!MclNext(m, MclIn(ack)) /\ HistM(ack) /\ cpu' = cpu /\ c' = c /\ bc' = bc
  BY DEF MEdge
<1>2. hist'.pend = IF ack /\ m.mwr /\ hist.pend # <<>> THEN Tail(hist.pend) ELSE hist.pend
  BY <1>1 DEF HistM, HistShape
<1>3. PICK x : x = MclIn(ack)
  OBVIOUS
<1>4. /\ m'.ma0 = M!Ma0(m, x, m'.statemcl)
      /\ m'.sbwe = M!Sbwe(m, x, m'.statemcl)
      /\ m'.sbdata = IF M!TakesWrite(m, x) THEN M!SboutD(m, x) ELSE m.sbdata
  BY <1>1, <1>3 DEF M!MclNext
<1> QED  BY <1>1, <1>2, <1>3, <1>4 DEF WEffects

\* A write that is under way keeps its registers.
LEMMA RegistersStay ==
  ASSUME NEW ack, NEW answer, MMoves(ack, answer), WEffects(ack), MclInv,
         m.statemcl \in M!Writing, m'.statemcl \in M!Writing
  PROVE  /\ m'.ma0 = m.ma0 /\ m'.sbwe = m.sbwe /\ m'.sbdata = m.sbdata
         /\ m'.statemcl = m.statemcl
<1>1. m.statemcl # "IDLE" /\ m.statemcl \notin M!Filling
  BY DEF M!Writing, M!Filling
<1>2. ~ack /\ m'.statemcl = m.statemcl
  BY <1>1, Busy DEF M!Writing
<1>3. ~M!MaAckG(m, MclIn(ack)) /\ ~M!TakesWrite(m, MclIn(ack))
  BY <1>1, <1>2, MclSignals DEF M!TakesWrite, Takes
<1>4. PICK x : x = MclIn(ack)
  OBVIOUS
<1>5. M!Ma0(m, x, m'.statemcl) = m.ma0
  BY <1>1 DEF M!Ma0
<1>6. M!Sbwe(m, x, m'.statemcl) = m.sbwe
  BY <1>1, <1>3, <1>4 DEF M!Sbwe, M!Writing
<1> QED  BY <1>2, <1>3, <1>4, <1>5, <1>6 DEF WEffects

\* A write that starts, or is under way, has the command's address, lanes and data.
LEMMA RegistersMatch ==
  ASSUME NEW ack, NEW answer, MMoves(ack, answer), WEffects(ack), CoreInv, RegInv,
         m'.statemcl \in M!Writing, ~Previous
  PROVE  /\ m'.ma0 = bc.d0v.a
         /\ m'.sbwe = SizeLanes(bc.d0v.sz, bc.d0v.a)
         /\ m'.statemcl # "WTHA" => m'.sbdata = bc.d0v.d
<1> USE DEF CoreInv
<1>1. PICK x : x = MclIn(ack)
  OBVIOUS
<1>2. x.ctom.b0d = bm.d0b.s /\ M!SboutCmd(m, x) = Command
  BY <1>1, MclSignals DEF MclIn
<1>3. /\ m'.ma0 = M!Ma0(m, x, m'.statemcl)
      /\ m'.sbwe = M!Sbwe(m, x, m'.statemcl)
      /\ m'.sbdata = IF M!TakesWrite(m, x) THEN M!SboutD(m, x) ELSE m.sbdata
  BY <1>1 DEF WEffects
<1>4. Command \in M!WriteSgl \cup {"WRITEMISS"} =>
        M!SboutWe(m, x) = SizeLanes(bm.d0b.s.sz, bm.d0b.s.a)
  BY <1>2, SamePack DEF M!SboutWe
<1>5. CASE m.statemcl = "IDLE"
  <2>1. Takes
    BY <1>5, IdleWaits DEF M!Writing
  <2>2. bm.d0b.s = bc.d0v /\ bc.d0v.cmd \in Commands
    BY <2>1, TakesOutstanding
  <2>3. m'.statemcl = M!TakenState(bc.d0v.cmd)
    BY <2>1, <2>2, IdleTakes
  <2>4. bc.d0v.cmd \in M!WriteSgl /\ m'.statemcl \in {"WTHI", "WSG"}
    BY <2>2, <2>3 DEF M!TakenState, M!Writing, M!WriteSgl, Commands
  <2>5. ~m.sbbufin /\ Command = bc.d0v.cmd
    BY <1>5, <2>2 DEF MclInv, Command
  <2>6. m'.ma0 = bc.d0v.a
    BY <1>2, <1>3, <1>5, <2>2, <2>4 DEF M!Ma0, M!Filling
  <2>7. m'.sbwe = SizeLanes(bc.d0v.sz, bc.d0v.a)
    BY <1>3, <1>4, <1>5, <2>2, <2>4, <2>5 DEF M!Sbwe, M!Writing
  <2>8. M!TakesWrite(m, x)
    BY <1>1, <1>2, <2>1, <2>4, <2>5, MclSignals DEF M!TakesWrite
  <2>9. m'.sbdata = bc.d0v.d
    BY <1>2, <1>3, <2>2, <2>5, <2>8 DEF M!SboutD
  <2> QED  BY <2>6, <2>7, <2>9
<1>6. CASE m.statemcl = "WFILL"
  <2>1. /\ Served(bm.d0b.s.cmd) /\ Arrived /\ half.b0 # bm.b0.v
    BY <1>6, MclPhase DEF Quiet, Blocked
  <2>2. bm.d0b.s = bc.d0v /\ bm.d0b.s.cmd = "WRITEMISS"
    BY <1>6, <2>1 DEF Channel0Inv, Serving, Served
  <2>3. m'.statemcl = "WTHA"
    BY <1>6, Busy DEF M!Writing
  <2>4. Command = "WRITEMISS"
    BY <1>6, <2>2 DEF Command, MclInv
  <2>5. m'.ma0 = bc.d0v.a
    BY <1>2, <1>3, <1>6, <2>2, <2>3 DEF M!Ma0, M!Filling
  <2>6. m'.sbwe = SizeLanes(bc.d0v.sz, bc.d0v.a)
    BY <1>3, <1>4, <1>6, <2>2, <2>3, <2>4 DEF M!Sbwe, M!Writing
  <2> QED  BY <2>3, <2>5, <2>6
<1>7. CASE m.statemcl \in M!Writing
  <2>1. ~Waiting
    <3>1. CASE m.statemcl = "WTHI"
      BY <3>1 DEF Previous
    <3>2. CASE m.statemcl # "WTHI"
      BY <1>7, <3>2, MclPhase DEF Quiet, Blocked, Served, Waiting, M!Writing
    <3> QED  BY <3>1, <3>2
  <2> QED  BY <1>7, <2>1, RegistersStay DEF RegInv
<1>8. CASE m.statemcl \in {"RFILL", "RSG"}
  BY <1>8, Busy DEF M!Writing
<1> QED  BY <1>5, <1>6, <1>7, <1>8 DEF MclInv, M!MclStates, M!Writing

\* dcache_mcl loads its write registers from the command it takes.
LEMMA MEdgeRegs ==
  ASSUME NEW ack \in BOOLEAN, MEdge(ack), CoreInv, HistShape, RegInv
  PROVE  RegInv'
<1>1. PICK answer : MSync(answer) /\ MMoves(ack, answer)
  BY MEdgeParts
<1>2. WEffects(ack) /\ bc' = bc /\ MclInv
  BY MEdgeWEffects DEF WEffects, CoreInv
<1> SUFFICES ASSUME m'.statemcl \in M!Writing, ~Waiting'
             PROVE  /\ m'.ma0 = bc.d0v.a
                    /\ m'.sbwe = SizeLanes(bc.d0v.sz, bc.d0v.a)
                    /\ m'.statemcl # "WTHA" => m'.sbdata = bc.d0v.d
  BY <1>2 DEF RegInv
<1>3. ~Previous
  <2> SUFFICES ASSUME Previous PROVE FALSE
    OBVIOUS
  <2>1. ~Previous'
    BY DEF Previous
  <2>2. m.mwr /\ ack
    BY <1>1, <2>1, MBankMoves DEF BankMoves
  <2>3. m'.statemcl = "IDLE"
    BY <1>1, <1>2, <2>2, Busy DEF Previous
  <2> QED  BY <2>3 DEF M!Writing
<1> QED  BY <1>1, <1>2, <1>3, RegistersMatch

\* A memory clock edge keeps the queue: it shortens, at its head, with the
\* acknowledge of a write.
LEMMA MEdgePend ==
  ASSUME NEW ack \in BOOLEAN, MEdge(ack), CoreInv, HistShape, RegInv, PendInv
  PROVE  PendInv'
<1>1. PICK answer : MSync(answer) /\ MMoves(ack, answer)
  BY MEdgeParts
<1>2. WEffects(ack) /\ MclInv
  BY MEdgeWEffects DEF CoreInv
<1>3. /\ hist'.pend = IF ack /\ m.mwr /\ hist.pend # <<>> THEN Tail(hist.pend) ELSE hist.pend
      /\ cpu' = cpu /\ c' = c /\ bc' = bc
  BY <1>2 DEF WEffects
<1>4. Sent' = Sent /\ Asked' = Asked /\ (Asking' <=> Asking)
  BY <1>3 DEF Sent, Asked, Asking
<1>5. BankMoves(m.mwr /\ ack)
  BY <1>1, MBankMoves
<1>6. (Previous /\ Previous') => Buffered' = Buffered
  BY <1>1, <1>2, RegistersStay DEF Previous, Buffered, M!Writing
<1>7. (~Previous /\ Previous') => Buffered' = Sent
  BY <1>1, <1>2, RegistersMatch DEF Previous, Buffered, Sent, M!Writing
<1>8. hist.pend = Queue(Previous, Buffered, Current, Sent, Asking, Asked)
  BY DEF PendInv
<1> SUFFICES hist'.pend = Queue(Previous', Buffered', Current', Sent, Asking, Asked)
  <2>1. Asking' = Asking
    BY <1>4 DEF Asking
  <2> QED  BY <1>4, <2>1 DEF PendInv
<1>9. PICK P \in BOOLEAN, P1 \in BOOLEAN, C \in BOOLEAN, C1 \in BOOLEAN, W \in BOOLEAN :
        /\ P = Previous /\ P1 = Previous' /\ C = Current /\ C1 = Current' /\ W = Asking
  BY DEF Previous, Current, Asking
<1>10. PICK eB, eB1, eS, eA : /\ eB = Buffered /\ eB1 = Buffered' /\ eS = Sent /\ eA = Asked
  OBVIOUS
<1>11. hist.pend = Queue(P, eB, C, eS, W, eA)
  BY <1>8, <1>9, <1>10
<1> SUFFICES hist'.pend = Queue(P1, eB1, C1, eS, W, eA)
  BY <1>9, <1>10
<1>12. CASE m.mwr /\ ack
  <2>1. \/ P /\ ~P1 /\ (C1 <=> C)
        \/ ~P /\ ~P1 /\ C /\ ~C1
    BY <1>5, <1>9, <1>12 DEF BankMoves
  <2>2. hist.pend # <<>> /\ Tail(hist.pend) = Queue(P1, eB1, C1, eS, W, eA)
    BY <1>11, <2>1 DEF Queue
  <2> QED  BY <1>3, <1>12, <2>2
<1>13. CASE ~(m.mwr /\ ack)
  <2>1. \/ (P1 <=> P) /\ (C1 <=> C) /\ (P => eB1 = eB)
        \/ ~P /\ P1 /\ C /\ ~C1 /\ eB1 = eS
    BY <1>5, <1>6, <1>7, <1>9, <1>10, <1>13 DEF BankMoves
  <2>2. Queue(P1, eB1, C1, eS, W, eA) = Queue(P, eB, C, eS, W, eA)
    BY <2>1 DEF Queue
  <2> QED  BY <1>3, <1>11, <1>13, <2>2
<1> QED  BY <1>12, <1>13

-------------------------------------------------------------------------------
(* The invariant.                                                            *)

\* At reset no store is under way.
LEMMA StoresInit == Init => StoreInv
<1> SUFFICES ASSUME Init PROVE StoreInv
  OBVIOUS
<1>1. c.state = "IDLE" /\ m.statemcl = "IDLE"
  BY DEF Init, CclReset, M!MclReset
<1>2. ~cpu.a.en /\ ~cpu.a.wr /\ cpu.tas = "none" /\ ~cpu.lock
  BY DEF Init, NullRequest
<1>3. HistShape /\ hist.pend = <<>>
  BY DEF Init, HistShape
<1>4. bc.b0.v = bm.b0.v
  BY DEF Init, FsyncReset
<1>5. ~Previous /\ ~Current /\ ~Asking
  BY <1>1, <1>2, <1>4 DEF Previous, Current, Asking, Outstanding
<1>6. PendInv
  BY <1>3, <1>5 DEF PendInv, Queue
<1>7. CpuInv /\ RegInv
  BY <1>1, <1>2 DEF CpuInv, RegInv, M!Writing, OffStates
<1> QED  BY <1>3, <1>6, <1>7 DEF StoreInv

\* The latches and the other master change nothing that a store depends on.
LEMMA StoresUntouched ==
  ASSUME Inv, HistShape, CLow \/ MLow \/ RemoteWrite \/ UNCHANGED vars
  PROVE  /\ c' = c /\ m' = m /\ bc' = bc /\ bm' = bm /\ cpu' = cpu /\ mEdges' = mEdges
         /\ HistShape' /\ hist'.pend = hist.pend
         /\ hist'.done = hist.done /\ hist'.syen = hist.syen
         /\ (Waiting' <=> Waiting) /\ (Previous' <=> Previous) /\ (Current' <=> Current)
<1>1. c' = c /\ m' = m /\ bc' = bc /\ bm' = bm /\ cpu' = cpu /\ mEdges' = mEdges
  BY DEF CLow, MLow, RemoteWrite, vars
<1>2. /\ HistShape' /\ hist'.pend = hist.pend
      /\ hist'.done = hist.done /\ hist'.syen = hist.syen
  <2>1. CASE CLow \/ MLow \/ UNCHANGED vars
    BY <2>1 DEF CLow, MLow, vars, HistShape
  <2>2. CASE RemoteWrite
    <3>1. PICK s : hist' = [hist EXCEPT !.stale = s]
      BY <2>2, Zenon DEF RemoteWrite
    <3> QED  BY <3>1 DEF HistShape
  <2> QED  BY <2>1, <2>2
<1>3. \/ half'.b0 = half.b0
      \/ half'.b0 = bc.b0.v /\ half.b0 = bm.b0.v /\ ~Arrived
  <2>1. half = [b0 |-> half.b0, b2 |-> half.b2]
    BY DEF Inv, CoreInv, Channel0Inv, ChannelTypes
  <2>2. CASE CLow
    <3>1. half.b0 # bc.b0.v /\ half'.b0 = bc.b0.v
      BY <2>1, <2>2 DEF CLow
    <3> QED  BY <3>1 DEF Inv, CoreInv, Channel0Inv, Latched, Arrived
  <2>3. CASE MLow
    BY <2>1, <2>3 DEF MLow
  <2>4. CASE RemoteWrite \/ UNCHANGED vars
    BY <2>4 DEF RemoteWrite, vars
  <2> QED  BY <2>2, <2>3, <2>4
<1>4. (Waiting' <=> Waiting) /\ (Outstanding' <=> Outstanding)
  BY <1>1, <1>3 DEF Waiting, Outstanding, Arrived
<1>5. (Previous' <=> Previous) /\ (Current' <=> Current)
  BY <1>1, <1>4 DEF Previous, Current
<1> QED  BY <1>1, <1>2, <1>4, <1>5

\* So they leave the account of the stores as it is.
LEMMA StoresOther ==
  ASSUME Inv, StoreInv, CLow \/ MLow \/ RemoteWrite \/ UNCHANGED vars
  PROVE  StoreInv'
<1>1. HistShape /\ CpuInv /\ RegInv /\ PendInv
  BY DEF StoreInv
<1>2. /\ c' = c /\ m' = m /\ bc' = bc /\ bm' = bm /\ cpu' = cpu
      /\ HistShape' /\ hist'.pend = hist.pend
      /\ (Waiting' <=> Waiting) /\ (Previous' <=> Previous) /\ (Current' <=> Current)
  BY <1>1, StoresUntouched
<1>3. CpuInv' /\ RegInv'
  BY <1>1, <1>2 DEF CpuInv, RegInv
<1>4. (Asking' <=> Asking) /\ Buffered' = Buffered /\ Sent' = Sent /\ Asked' = Asked
  BY <1>2 DEF Asking, Buffered, Sent, Asked
<1>5. PendInv'
  BY <1>1, <1>2, <1>4 DEF PendInv, Queue
<1> QED  BY <1>2, <1>3, <1>5 DEF StoreInv

\* Every clock edge, and the other master, keeps the account of the stores.
LEMMA StoresStep == Inv /\ StoreInv /\ [Next]_vars => StoreInv'
<1> SUFFICES ASSUME Inv, StoreInv, [Next]_vars PROVE StoreInv'
  OBVIOUS
<1>1. CoreInv /\ CclInv /\ CpuTypes /\ StateInv
  BY DEF Inv, CoreInv, TypeInv, LockInv
<1>2. HistShape /\ CpuInv /\ RegInv /\ PendInv
  BY DEF StoreInv
<1>3. CASE CEdge
  <2>1. HistShape'
    BY <1>3 DEF CEdge, HistC, HistShape
  <2>2. CpuInv' /\ PendInv'
    BY <1>1, <1>2, <1>3, CEdgeCpu, CEdgePend
  <2>3. RegInv'
    <3>1. (Waiting' <=> Waiting) /\ m' = m /\ (Sends => Waiting)
      BY <1>1, <1>3, CEdgeCurrent
    <3>2. ~Sends => bc'.d0v = bc.d0v
      BY <1>1, <1>3, CEdgeParts DEF CSync, CoreInv, Channel0Inv, ChannelTypes
    <3>3. CASE Waiting
      BY <3>1, <3>3 DEF RegInv
    <3>4. CASE ~Waiting
      BY <1>2, <3>1, <3>2, <3>4 DEF RegInv, M!Writing
    <3> QED  BY <3>3, <3>4
  <2> QED  BY <2>1, <2>2, <2>3 DEF StoreInv
<1>4. ASSUME NEW ack \in BOOLEAN, MEdge(ack) PROVE StoreInv'
  <2>1. HistShape'
    BY <1>2, <1>4 DEF MEdge, HistM, HistShape
  <2>2. CpuInv'
    BY <1>2, <1>4 DEF MEdge, CpuInv
  <2> QED  BY <1>1, <1>2, <1>4, <2>1, <2>2, MEdgeRegs, MEdgePend DEF StoreInv
<1>5. CASE CLow \/ MLow \/ RemoteWrite \/ UNCHANGED vars
  BY <1>5, StoresOther
<1> QED  BY <1>3, <1>4, <1>5 DEF Next, MemAck, MemWait

\* The stores of the program are where the invariant says.
THEOREM StoresAccounted == Spec => []StoreInv
BY Invariance, StoresInit, StoresStep, PTL DEF Spec

\* The write on the bus is the buffered store if there is one, else the last sent.
LEMMA OldestOnBus == Inv /\ StoreInv => BusWriteIsOldest
<1> SUFFICES ASSUME Inv, StoreInv, m.men, m.mwr
             PROVE  /\ hist.pend # <<>>
                    /\ Head(hist.pend).p = Place(m.ma0)
                    /\ Head(hist.pend).we = m.sbwe
                    /\ \A l \in m.sbwe :
                         Head(hist.pend).d[l] = M!SboutD(m, MclIn(FALSE))[l]
  BY DEF BusWriteIsOldest
<1>1. MclInv /\ Channel0Inv /\ RegInv /\ PendInv
  BY DEF Inv, CoreInv, StoreInv
<1>2. m.statemcl \in M!Writing /\ m.statemwi \notin GapR
  BY <1>1 DEF MclInv
<1>3. M!SboutD(m, MclIn(FALSE)) = IF m.statemcl = "WTHA" THEN bm.d0b.s.d ELSE m.sbdata
  BY <1>1, <1>2 DEF M!SboutD, MclIn, MclInv, M!Writing
<1>4. CASE Previous
  <2>1. hist.pend # <<>> /\ Head(hist.pend) = Buffered
    BY <1>1, <1>4 DEF PendInv, Queue
  <2>2. m.statemcl # "WTHA"
    BY <1>4 DEF Previous
  <2>3. M!SboutD(m, MclIn(FALSE)) = m.sbdata
    BY <1>3, <2>2
  <2>4. /\ Buffered.p = Place(m.ma0) /\ Buffered.we = m.sbwe
        /\ Buffered.d = m.sbdata
    BY DEF Buffered
  <2> QED  BY <2>1, <2>3, <2>4
<1>5. CASE ~Previous
  <2>1. Served(bm.d0b.s.cmd) /\ Arrived /\ half.b0 # bm.b0.v
    <3>1. m.statemcl \in {"WTHA", "WTHI", "WSG"}
      BY <1>2 DEF M!Writing
    <3>2. CASE m.statemcl = "WTHI"
      <4>1. ~Waiting
        BY <1>5, <3>2 DEF Previous
      <4>2. half.b0 # bm.b0.v /\ Arrived /\ ~m.sbblknxst
        BY <4>1 DEF Waiting
      <4> QED  BY <1>1, <4>2 DEF Channel0Inv, Serving, Blocked
    <3>3. CASE m.statemcl # "WTHI"
      <4>1. ~Quiet /\ ~Blocked
        BY <3>1, <3>3 DEF Quiet, Blocked
      <4> QED  BY <1>1, <4>1, MclPhase
    <3> QED  BY <3>2, <3>3
  <2>2. ~Waiting /\ bm.d0b.s = bc.d0v /\ bm.d0b.s.cmd \in WriteCommands /\ half.b0 = bc.b0.v
    BY <1>1, <1>2, <2>1
       DEF Waiting, Channel0Inv, Serving, Latched, Served, M!Writing, WriteCommands
  <2>3. Current
    BY <1>2, <2>1, <2>2 DEF Current, Outstanding, M!Writing
  <2>4. hist.pend # <<>> /\ Head(hist.pend) = Sent
    BY <1>1, <1>5, <2>3 DEF PendInv, Queue
  <2>5. /\ m.ma0 = bc.d0v.a /\ m.sbwe = SizeLanes(bc.d0v.sz, bc.d0v.a)
        /\ m.statemcl # "WTHA" => m.sbdata = bc.d0v.d
    BY <1>1, <1>2, <2>2 DEF RegInv
  <2>6. M!SboutD(m, MclIn(FALSE)) = bc.d0v.d
    BY <1>3, <2>2, <2>5
  <2>7. /\ Sent.p = Place(bc.d0v.a) /\ Sent.we = SizeLanes(bc.d0v.sz, bc.d0v.a)
        /\ Sent.d = bc.d0v.d
    BY DEF Sent
  <2> QED  BY <2>4, <2>5, <2>6, <2>7
<1> QED  BY <1>4, <1>5

\* A write on the bus is the oldest store of the program that has not been
\* performed, with its lanes and data: none is lost, repeated, overtaken or merged
\* with another, whether it is buffered, follows a fill, is locked, or the cache
\* is off or being switched.
THEOREM StoresInOrder == Spec => []BusWriteIsOldest
BY OldestOnBus, Invariance, StoresAccounted, PTL

-------------------------------------------------------------------------------
(* Announcing the stores.  A store that has been performed shows in its bank *)
(* as a falling edge that takes two cpu cycles to the snoop output.          *)

\* The bank's write has been performed, and the cpu side has not seen it; it will
\* be announced in the next cycle; it is announced in this one.
Late(k) == bc.b3[k].m = 1 /\ bm.b3[k] = bc.b3[k].v
Soon(k) == bc.b3[k].m = 0 /\ bc.b3[k].s = 1
Now(k)  == bc.b3[k].s = 0 /\ c.b3en_r[k] = 1

SomeNow  == Now(0) \/ Now(1)
SomeNext == Late(0) \/ Soon(0) \/ Late(1) \/ Soon(1)

\* saout_al2 of the bank that is, and of the one that will be announced.
NowLine  == c.saout_al2[IF Now(1) THEN 1 ELSE 0]
NextLine == c.saout_al2[IF Late(1) \/ Soon(1) THEN 1 ELSE 0]

\* The lines performed and not announced are those of the banks.
DoneInv == hist.done = Queue(SomeNow, NowLine, SomeNext, NextLine, FALSE, NowLine)

\* No two writes come close enough to be announced together or in a row.
ApartInv ==
  /\ ~(Now(0) /\ Now(1))
  /\ ~((Late(0) \/ Soon(0)) /\ (Late(1) \/ Soon(1)))
  /\ SomeNow => ~hist.syen /\ ~Soon(0) /\ ~Soon(1)

\* dcache_mcl performs no write with its next two clock edges.
FarOff ==
  \/ m.statemwi \in {"GAP1", "GAP2S", "GAP2R"}
  \/ m.statemcl \in {"RFILL", "RSG"}
  \/ m.statemcl = "WFILL" /\ m.ma0.w = m.reqw

\* What keeps them apart: the gap after a write, or the fill before the next one.
DistanceInv == \A k \in Banks :
  /\ Late(k) => /\ mEdges >= 1
                /\ mEdges = 1 => m.statemwi = "GAP1"
                /\ mEdges = 2 => FarOff
  /\ Soon(k) => /\ mEdges = 0 => FarOff
                /\ mEdges = 1 => ~m.mwr

\* The line of each store that has not been performed, and the cpu side has seen
\* its bank busy before it can be.
PlaceInv ==
  /\ Current => c.saout_al1 = Line(bc.d0v.a)
  /\ (Previous /\ ~Current) => c.saout_al1 = Line(m.ma0)
  /\ (Previous /\ Current) => c.saout_al2[1 - c.sabank_send] = Line(m.ma0)
  /\ (bc.b3[c.sabank_send].m = 1 \/ bc.b3[c.sabank_send].s = 1) =>
       c.saout_al2[c.sabank_send] = c.saout_al1
  /\ (Current /\ bc.b0.m = 1) => bc.b3[c.sabank_send].m = 1
  /\ (Previous /\ ~Current) => bc.b3[c.sabank_send].m = 1
  /\ (Previous /\ Current) => bc.b3[1 - c.sabank_send].m = 1

\* With the cache off a store is announced before its access ends, so before a
\* read can load its own line into saout_al1.
OffInv ==
  ~c.dc_onm =>
    /\ ~Previous
    /\ \A k \in Banks :
         /\ Late(k) => bc.b0.m = 1
         /\ Soon(k) => bc.b0.m = 1 \/ bc.b0.s = 1
         /\ Now(k)  => bc.b0.m = 1 \/ bc.b0.s = 1 \/ c.rfillv = 1

BankShape ==
  /\ DOMAIN c.saout_al2 = Banks
  /\ c.b3en_r \in [Banks -> Bit]

SnoopInv == BankShape /\ DoneInv /\ ApartInv /\ DistanceInv /\ PlaceInv /\ OffInv

\* The cache is switched off only when its stores have been performed and announced.
QuietSwitch == (c.dc_onm /\ ~c'.dc_onm) => (hist.pend = <<>> /\ hist.done = <<>>)

-------------------------------------------------------------------------------
(* The announcements over a cpu clock edge.                                  *)

LoadStates == {"SB1", "WMISS1", "WUNCA1", "OFF1"}

SnoopCEffects ==
  /\ \A k \in Banks :
       /\ bc'.b3[k].v = IF SendsStore /\ k = 1 - c.sabank_send THEN 1 - bm.b3[k]
                                                               ELSE bc.b3[k].v
       /\ bc'.b3[k].m = (IF bm.b3[k] = bc.b3[k].v THEN 0 ELSE 1)
       /\ bc'.b3[k].s = bc.b3[k].m
  /\ c'.b3en_r = [k \in Banks |-> bc.b3[k].s]
  /\ c'.saout_al1 = IF Goes \in LoadStates THEN Line(cpu.a.a) ELSE c.saout_al1
  /\ c'.saout_al2 = [c.saout_al2 EXCEPT ![c.sabank_send] = c.saout_al1]
  /\ c'.sabank_send = IF SendsStore THEN 1 - c.sabank_send ELSE c.sabank_send
  /\ c'.rfillv = bc.b0.s
  /\ hist'.done = IF Sy.en /\ hist.done # <<>> THEN Tail(hist.done) ELSE hist.done
  /\ hist'.syen = Sy.en
  /\ m' = m /\ bm' = bm /\ mEdges' = 0

\* A cpu clock edge reduced to what it does to the banks and the announced lines.
LEMMA CEdgeSnoopEffects ==
  ASSUME CEdge
  PROVE  SnoopCEffects
<1>1. /\ c' = CclNext(c, CclIn) /\ FsyncCcl(CclIn, Goes) /\ HistC
      /\ m' = m /\ bm' = bm /\ mEdges' = 0
  BY DEF CEdge, Goes
<1>2. PICK x : x = CclIn
  OBVIOUS
<1>3. /\ x.a = cpu.a /\ x.mtoc.b3enr = [k \in Banks |-> bc.b3[k].s]
      /\ x.mtoc.b0enr = bc.b0.s
  BY <1>2 DEF CclIn
<1>4. Goes = NextState(c, x)
  BY <1>2 DEF Goes
<1>5. /\ c'.b3en_r = x.mtoc.b3enr /\ c'.rfillv = x.mtoc.b0enr
      /\ c'.saout_al1 = IF Goes \in LoadStates THEN Line(x.a.a) ELSE c.saout_al1
      /\ c'.saout_al2 = [c.saout_al2 EXCEPT ![c.sabank_send] = c.saout_al1]
      /\ c'.sabank_send = IF SendsWrite(c, x, Goes) THEN 1 - c.sabank_send
                                                    ELSE c.sabank_send
  BY <1>1, <1>2, <1>4 DEF CclNext, LoadStates
<1>6. bc'.b3 = [k \in Banks |->
                  FsyncC(bc.b3[k], bc.b3[k].v, bm.b3[k], k \in B3en(c, x, Goes))]
  BY <1>1, <1>2 DEF FsyncCcl
<1>7. \A k \in Banks : k \in B3en(c, x, Goes) <=> SendsStore /\ k = 1 - c.sabank_send
  BY <1>2 DEF B3en, SendsStore
<1>8. \A k \in Banks :
        /\ bc'.b3[k].v = IF SendsStore /\ k = 1 - c.sabank_send THEN 1 - bm.b3[k]
                                                                ELSE bc.b3[k].v
        /\ bc'.b3[k].m = (IF bm.b3[k] = bc.b3[k].v THEN 0 ELSE 1)
        /\ bc'.b3[k].s = bc.b3[k].m
  BY <1>6, <1>7 DEF FsyncC, Not, Xor
<1>9. /\ hist'.done = IF Sy.en /\ hist.done # <<>> THEN Tail(hist.done) ELSE hist.done
      /\ hist'.syen = Sy.en
  BY <1>1 DEF HistC
<1> QED  BY <1>1, <1>2, <1>3, <1>5, <1>8, <1>9 DEF SnoopCEffects, SendsStore

\* What is announced: the snoop output of the cycle.
LEMMA Announces ==
  /\ Sy.en <=> SomeNow
  /\ Sy.al = NowLine
<1>1. CclIn.mtoc.b3enr = [k \in Banks |-> bc.b3[k].s]
  BY DEF CclIn
<1>2. PICK x : x = CclIn
  OBVIOUS
<1>3. \A k \in Banks : k \in WriteCompleted(c, x) <=> Now(k)
  BY <1>1, <1>2 DEF WriteCompleted, Now
<1>4. 0 \in Banks /\ 1 \in Banks /\ (\A k \in Banks : k = 0 \/ k = 1)
  BY DEF Banks
<1>5. WriteCompleted(c, x) # {} <=> SomeNow
  BY <1>3, <1>4 DEF SomeNow, WriteCompleted
<1>6. 1 \in WriteCompleted(c, x) <=> Now(1)
  BY <1>3, <1>4
<1> QED  BY <1>2, <1>5, <1>6 DEF Sy, SnoopOut, NowLine

\* The falling edges move on by one flip-flop.
LEMMA CEdgePhases ==
  ASSUME CEdge, CoreInv, SyncTypes, CclTypes, BankInv, BankSeen
  PROVE  \A k \in Banks : /\ Now(k)' <=> Soon(k)
                          /\ Soon(k)' <=> Late(k)
                          /\ ~Late(k)'
<1>1. SnoopCEffects
  BY CEdgeSnoopEffects
<1> SUFFICES ASSUME NEW k \in Banks
             PROVE  /\ Now(k)' <=> Soon(k)
                    /\ Soon(k)' <=> Late(k)
                    /\ ~Late(k)'
  OBVIOUS
<1>2. /\ bc'.b3[k].v = IF SendsStore /\ k = 1 - c.sabank_send THEN 1 - bm.b3[k]
                                                              ELSE bc.b3[k].v
      /\ bc'.b3[k].m = (IF bm.b3[k] = bc.b3[k].v THEN 0 ELSE 1)
      /\ bc'.b3[k].s = bc.b3[k].m
      /\ c'.b3en_r[k] = bc.b3[k].s
      /\ bm' = bm
  BY <1>1 DEF SnoopCEffects
<1>3. bm.b3[k] \in Bit /\ bc.b3[k].v \in Bit /\ bc.b3[k].m \in Bit /\ bc.b3[k].s \in Bit
  BY DEF SyncTypes, FsyncReg
<1>4. (SendsStore /\ k = 1 - c.sabank_send) => bm.b3[k] = bc.b3[k].v
  BY BankFree DEF SendsStore, SendsWrite, Sends
<1>5. Now(k)' <=> Soon(k)
  BY <1>2, <1>3 DEF Now, Soon, Bit
<1>6. Soon(k)' <=> Late(k)
  BY <1>2, <1>3 DEF Soon, Late, Bit
<1>7. ~Late(k)'
  BY <1>2, <1>3, <1>4 DEF Late, Bit
<1> QED  BY <1>5, <1>6, <1>7

\* The line of a bank that will be announced stays where it is.
LEMMA CEdgeLines ==
  ASSUME CEdge, SyncTypes, CclTypes, BankShape, PlaceInv
  PROVE  \A k \in Banks : Late(k) \/ Soon(k) => c'.saout_al2[k] = c.saout_al2[k]
<1>1. c'.saout_al2 = [c.saout_al2 EXCEPT ![c.sabank_send] = c.saout_al1]
  BY CEdgeSnoopEffects DEF SnoopCEffects
<1>2. DOMAIN c.saout_al2 = Banks
  BY DEF BankShape
<1>3. (Late(c.sabank_send) \/ Soon(c.sabank_send)) =>
        c.saout_al2[c.sabank_send] = c.saout_al1
  BY DEF PlaceInv, Late, Soon
<1> QED  BY <1>1, <1>2, <1>3

\* A cpu clock edge announces the line at the head, and no other comes close to it.
LEMMA CEdgeDone ==
  ASSUME CEdge, CoreInv, SyncTypes, CclTypes, BankInv, BankSeen, SnoopInv
  PROVE  DoneInv' /\ ApartInv' /\ DistanceInv'
<1>1. \A k \in Banks : (Now(k)' <=> Soon(k)) /\ (Soon(k)' <=> Late(k)) /\ ~Late(k)'
  BY CEdgePhases
<1>2. /\ (Now(0)' <=> Soon(0)) /\ (Now(1)' <=> Soon(1))
      /\ (Soon(0)' <=> Late(0)) /\ (Soon(1)' <=> Late(1))
      /\ ~Late(0)' /\ ~Late(1)'
  BY <1>1 DEF Banks
<1>3. ~(Late(0) /\ Soon(0)) /\ ~(Late(1) /\ Soon(1))
  BY DEF Late, Soon
<1>4. /\ ~(Now(0) /\ Now(1))
      /\ ~((Late(0) \/ Soon(0)) /\ (Late(1) \/ Soon(1)))
      /\ SomeNow => ~hist.syen /\ ~Soon(0) /\ ~Soon(1)
  BY DEF SnoopInv, ApartInv
<1>5. /\ SomeNow' <=> Soon(0) \/ Soon(1)
      /\ SomeNext' <=> Late(0) \/ Late(1)
  BY <1>2 DEF SomeNow, SomeNext
<1>6. /\ (Late(0) \/ Soon(0)) => c'.saout_al2[0] = c.saout_al2[0]
      /\ (Late(1) \/ Soon(1)) => c'.saout_al2[1] = c.saout_al2[1]
  BY CEdgeLines DEF SnoopInv, Banks
<1>7. SomeNow' => NowLine' = NextLine
  BY <1>2, <1>3, <1>4, <1>5, <1>6 DEF NowLine, NextLine
<1>8. SomeNext' => NextLine' = NextLine
  BY <1>2, <1>3, <1>4, <1>5, <1>6 DEF NextLine
<1>9. /\ hist'.done = IF SomeNow /\ hist.done # <<>> THEN Tail(hist.done) ELSE hist.done
      /\ hist'.syen = Sy.en /\ (Sy.en <=> SomeNow)
      /\ m' = m /\ mEdges' = 0
  BY CEdgeSnoopEffects, Announces DEF SnoopCEffects
<1>10. SomeNext <=> (SomeNow' \/ SomeNext')
  BY <1>5 DEF SomeNext
<1>11. ~(SomeNow' /\ SomeNext')
  BY <1>3, <1>4, <1>5
<1>12. SomeNow => ~SomeNow'
  BY <1>4, <1>5
<1>13. DoneInv'
  <2>1. PICK N \in BOOLEAN, N1 \in BOOLEAN, X \in BOOLEAN, X1 \in BOOLEAN :
          N = SomeNow /\ N1 = SomeNow' /\ X = SomeNext /\ X1 = SomeNext'
    BY DEF SomeNow, SomeNext, Now, Late, Soon
  <2>2. PICK n, n1, x, x1 : n = NowLine /\ n1 = NowLine' /\ x = NextLine /\ x1 = NextLine'
    OBVIOUS
  <2>3. hist.done = Queue(N, n, X, x, FALSE, n)
    BY <2>1, <2>2 DEF SnoopInv, DoneInv
  <2> SUFFICES hist'.done = Queue(N1, n1, X1, x1, FALSE, n1)
    BY <2>1, <2>2 DEF DoneInv
  <2>4. /\ X <=> (N1 \/ X1)
        /\ ~(N1 /\ X1)
        /\ N => ~N1
        /\ N1 => n1 = x
        /\ X1 => x1 = x
        /\ hist'.done = IF N /\ hist.done # <<>> THEN Tail(hist.done) ELSE hist.done
    BY <1>7, <1>8, <1>9, <1>10, <1>11, <1>12, <2>1, <2>2
  <2>5. CASE N
    BY <2>3, <2>4, <2>5 DEF Queue
  <2>6. CASE ~N
    BY <2>3, <2>4, <2>6 DEF Queue
  <2> QED  BY <2>5, <2>6
<1>14. ApartInv'
  <2>1. hist'.syen <=> SomeNow
    BY <1>9
  <2> QED  BY <1>2, <1>3, <1>4, <1>5, <2>1 DEF ApartInv
<1>15. DistanceInv'
  <2> SUFFICES ASSUME NEW k \in Banks, Soon(k)' PROVE FarOff'
    BY <1>1, <1>9 DEF DistanceInv
  <2>1. Late(k) /\ mEdges \in 0 .. 2
    BY <1>1 DEF CoreInv, Channel0Inv, ChannelTypes
  <2>2. FarOff
    BY <2>1 DEF SnoopInv, DistanceInv, FarOff
  <2> QED  BY <1>9, <2>2 DEF FarOff
<1> QED  BY <1>13, <1>14, <1>15

\* saout_al1 is loaded with the line of the store that is sent; only a read of a
\* cache that is off loads it as well.
LEMMA LoadsLine ==
  ASSUME CEdge, CoreInv
  PROVE  /\ SendsStore => c'.saout_al1 = Line(bc'.d0v.a)
         /\ ~SendsStore => \/ c'.saout_al1 = c.saout_al1
                           \/ Sends /\ ~c.dc_onm
         /\ ~Sends => bc'.d0v = bc.d0v
<1>1. c'.saout_al1 = IF Goes \in LoadStates THEN Line(cpu.a.a) ELSE c.saout_al1
  BY CEdgeSnoopEffects DEF SnoopCEffects
<1>2. bc'.d0v = IF Sends THEN B0d(CclIn, Goes) ELSE bc.d0v
  <2>1. FsyncCcl(CclIn, Goes)
    BY DEF CEdge, Goes
  <2>2. PICK x, st : x = CclIn /\ st = Goes
    OBVIOUS
  <2> QED  BY <2>1, <2>2 DEF FsyncCcl, Sends
<1>3. B0d(CclIn, Goes).a = cpu.a.a
  BY CclSignals DEF B0d
<1>4. SendsStore <=> (Sends /\ Goes # "NEGLCK" /\ cpu.a.wr)
  BY CclSignals DEF SendsStore, SendsWrite, Sends
<1>5. CASE c.state = "IDLE"
  BY <1>1, <1>2, <1>3, <1>4, <1>5, FromIdle DEF LoadStates
<1>6. CASE c.state # "IDLE"
  BY <1>1, <1>2, <1>3, <1>4, <1>6, FromBusy DEF LoadStates, CoreInv
<1> QED  BY <1>5, <1>6

\* A cpu clock edge keeps the place of every line.
LEMMA CEdgePlaces ==
  ASSUME CEdge, CoreInv, SyncTypes, CclTypes, BankInv, BankSeen, SnoopInv
  PROVE  PlaceInv'
<1>1. SnoopCEffects
  BY CEdgeSnoopEffects
<1>2. /\ Previous' <=> Previous
      /\ SendsStore => Sends /\ ~Current /\ Current'
      /\ ~SendsStore => (Current' <=> Current)
      /\ Current => ~Sends
      /\ m' = m
  BY CEdgeCurrent
<1>3. /\ SendsStore => c'.saout_al1 = Line(bc'.d0v.a)
      /\ ~SendsStore => \/ c'.saout_al1 = c.saout_al1
                        \/ Sends /\ ~c.dc_onm
      /\ ~Sends => bc'.d0v = bc.d0v
  BY LoadsLine
<1>4. c.sabank_send \in Banks /\ 1 - c.sabank_send \in Banks /\ 1 - c.sabank_send # c.sabank_send
  BY DEF CclTypes, Banks
<1>5. PICK s \in Banks, o \in Banks :
        s = c.sabank_send /\ o = 1 - c.sabank_send /\ s # o /\ 1 - o = s /\ s = 1 - o
  BY <1>4 DEF Banks
<1>6. /\ c'.saout_al2[s] = c.saout_al1 /\ c'.saout_al2[o] = c.saout_al2[o]
      /\ c'.sabank_send = IF SendsStore THEN o ELSE s
  BY <1>1, <1>5 DEF SnoopCEffects, SnoopInv, BankShape
<1>7. /\ bc'.b3[s].m = (IF bm.b3[s] = bc.b3[s].v THEN 0 ELSE 1)
      /\ bc'.b3[o].m = (IF bm.b3[o] = bc.b3[o].v THEN 0 ELSE 1)
      /\ bc'.b3[s].s = bc.b3[s].m /\ bc'.b3[o].s = bc.b3[o].m
  BY <1>1, <1>5 DEF SnoopCEffects
<1>8. /\ bc.b3[s].v # bm.b3[s] <=> (Current \/ Previous)
      /\ bc.b3[o].v # bm.b3[o] <=> (Current /\ Previous)
  BY <1>5 DEF BankInv
<1>9. SendsStore => bm.b3[o] = bc.b3[o].v /\ bc.b3[o].m = 0
  BY <1>2, <1>5, BankFree
<1>10. /\ Current => c.saout_al1 = Line(bc.d0v.a)
       /\ (Previous /\ ~Current) => c.saout_al1 = Line(m.ma0)
       /\ (Previous /\ Current) => c.saout_al2[o] = Line(m.ma0)
  BY <1>5 DEF SnoopInv, PlaceInv
<1>11. (Sends /\ ~c.dc_onm) => ~Previous /\ ~Late(s) /\ ~Late(o)
  <2>1. Sends => bc.b0.m = 0
    BY SendsFree DEF CoreInv
  <2> QED  BY <1>5, <2>1 DEF SnoopInv, OffInv
<1>12. Current' => c'.saout_al1 = Line(bc'.d0v.a)
  BY <1>2, <1>3, <1>10
<1>13. (Previous' /\ ~Current') => c'.saout_al1 = Line(m'.ma0)
  BY <1>2, <1>3, <1>10, <1>11
<1>14. (Previous' /\ Current') => c'.saout_al2[1 - c'.sabank_send] = Line(m'.ma0)
  <2>1. CASE SendsStore
    BY <1>2, <1>5, <1>6, <1>10, <2>1
  <2>2. CASE ~SendsStore
    BY <1>2, <1>5, <1>6, <1>10, <2>2
  <2> QED  BY <2>1, <2>2
<1>15. (bc'.b3[c'.sabank_send].m = 1 \/ bc'.b3[c'.sabank_send].s = 1) =>
         c'.saout_al2[c'.sabank_send] = c'.saout_al1
  <2>1. CASE SendsStore
    BY <1>6, <1>7, <1>9, <2>1
  <2>2. CASE ~SendsStore /\ c'.saout_al1 = c.saout_al1
    BY <1>6, <2>2
  <2>3. CASE ~SendsStore /\ Sends /\ ~c.dc_onm
    <3>1. bm.b3[s] = bc.b3[s].v /\ bc.b3[s].m # 1
      BY <1>2, <1>8, <1>11, <2>3 DEF Late
    <3> QED  BY <1>6, <1>7, <2>3, <3>1
  <2> QED  BY <1>3, <2>1, <2>2, <2>3
<1>16. (Current' /\ bc'.b0.m = 1) => bc'.b3[c'.sabank_send].m = 1
  <2>1. Sends => bc'.b0.m = 0
    <3>1. CSync(Sends)
      BY CEdgeParts DEF CoreInv, Channel0Inv, ChannelTypes
    <3>2. Sends => bc.b0.v = bm.b0.v /\ half.b0 = bc.b0.v
      BY SendsFree DEF CoreInv
    <3> QED  BY <3>1, <3>2 DEF CSync, FsyncC, Xor
  <2> QED  BY <1>2, <1>6, <1>7, <1>8, <2>1
<1>17. /\ (Previous' /\ ~Current') => bc'.b3[c'.sabank_send].m = 1
       /\ (Previous' /\ Current') => bc'.b3[1 - c'.sabank_send].m = 1
  <2>1. CASE SendsStore
    BY <1>2, <1>5, <1>6, <1>7, <1>8, <2>1
  <2>2. CASE ~SendsStore
    BY <1>2, <1>5, <1>6, <1>7, <1>8, <2>2
  <2> QED  BY <2>1, <2>2
<1> QED  BY <1>12, <1>13, <1>14, <1>15, <1>16, <1>17 DEF PlaceInv

\* With the cache off the completion keeps ahead of the answer.
LEMMA CEdgeOff ==
  ASSUME CEdge, CoreInv, SyncTypes, CclTypes, BankInv, BankSeen, SnoopInv, PendInv,
         QuietSwitch
  PROVE  OffInv'
<1> SUFFICES ASSUME ~c'.dc_onm
             PROVE  /\ ~Previous'
                    /\ \A k \in Banks :
                         /\ Late(k)' => bc'.b0.m = 1
                         /\ Soon(k)' => bc'.b0.m = 1 \/ bc'.b0.s = 1
                         /\ Now(k)'  => bc'.b0.m = 1 \/ bc'.b0.s = 1 \/ c'.rfillv = 1
  BY DEF OffInv
<1>1. \A k \in Banks : (Now(k)' <=> Soon(k)) /\ (Soon(k)' <=> Late(k)) /\ ~Late(k)'
  BY CEdgePhases
<1>2. Previous' <=> Previous
  BY CEdgeCurrent
<1>3. bc'.b0.s = bc.b0.m /\ c'.rfillv = bc.b0.s
  <2>1. CSync(Sends)
    BY CEdgeParts DEF CoreInv, Channel0Inv, ChannelTypes
  <2> QED  BY <2>1 DEF CSync, FsyncC
<1>4. CASE ~c.dc_onm
  BY <1>1, <1>2, <1>3, <1>4 DEF SnoopInv, OffInv
<1>5. CASE c.dc_onm
  <2>1. hist.pend = <<>> /\ hist.done = <<>>
    BY <1>5 DEF QuietSwitch
  <2>2. ~Previous
    <3>1. PICK e1, e2, e3 : e1 = Buffered /\ e2 = Sent /\ e3 = Asked
      OBVIOUS
    <3>2. <<>> = Queue(Previous, e1, Current, e2, Asking, e3)
      BY <2>1, <3>1 DEF PendInv
    <3> QED  BY <3>2 DEF Queue
  <2>3. ~SomeNext
    BY <2>1 DEF SnoopInv, DoneInv, Queue
  <2>4. \A k \in Banks : ~Late(k) /\ ~Soon(k)
    BY <2>3 DEF SomeNext, Banks
  <2> QED  BY <1>1, <1>2, <2>2, <2>4
<1> QED  BY <1>4, <1>5

-------------------------------------------------------------------------------
(* The announcements over a memory clock edge.                               *)

\* A write on the bus that is not an answered one is the last command's, and the
\* cpu side has seen the channel busy.
LEMMA ServedWrite ==
  ASSUME CoreInv, m.mwr, ~Previous
  PROVE  ~Waiting /\ bc.b0.m = 1
<1>1. m.statemcl \in M!Writing /\ m.statemwi \notin GapR
  BY DEF CoreInv, MclInv
<1>2. Served(bm.d0b.s.cmd) /\ Arrived /\ half.b0 # bm.b0.v
  <2>1. CASE m.statemcl = "WTHI"
    <3>1. half.b0 # bm.b0.v /\ Arrived /\ ~m.sbblknxst
      BY <2>1 DEF Previous, Waiting
    <3> QED  BY <3>1 DEF CoreInv, Channel0Inv, Serving, Blocked
  <2>2. CASE m.statemcl # "WTHI"
    BY <1>1, <2>2, MclPhase DEF CoreInv, Quiet, Blocked, M!Writing
  <2> QED  BY <2>1, <2>2
<1> QED  BY <1>2 DEF CoreInv, Channel0Inv, Serving, Served, Waiting

\* A command is not answered before the cpu side has seen the channel busy.
LEMMA AnswerSeen ==
  ASSUME NEW ack, NEW answer, MSync(answer), MMoves(ack, answer), CoreInv,
         Outstanding, ~Outstanding'
  PROVE  bc.b0.m = 1
<1> SUFFICES ASSUME bc.b0.m # 1 PROVE FALSE
  OBVIOUS
<1>1. bc.b0.m = 0 /\ ChannelTypes
  BY DEF CoreInv, Channel0Inv, ChannelTypes, FsyncReg, Bit
<1>2. ~(half.b0 # bm.b0.v /\ Arrived)
  BY <1>1 DEF CoreInv, Channel0Inv, Serving
<1>3. ~Arrives
  <2>1. CASE half.b0 = bm.b0.v
    BY <2>1 DEF CoreInv, Channel0Inv, Free, Latched, ClimbM, Rising, Arrives
  <2>2. CASE half.b0 # bm.b0.v
    <3>1. mEdges < 2 /\ mEdges \in 0 .. 2
      BY <1>1 DEF MSync, ChannelTypes
    <3>2. (bm.b0.m = 0 /\ bm.b0.s = 0) => mEdges >= 2
      BY <1>1, <1>2, <2>2 DEF CoreInv, Channel0Inv, Shown
    <3>3. ~(bm.b0.m = 0 /\ bm.b0.s = 0)
      BY <3>1, <3>2
    <3> QED  BY <1>1, <1>2, <2>2, <3>3 DEF CoreInv, Channel0Inv, Shown, ClimbM, Rising,
                                           Arrives, ChannelTypes, FsyncReg, Bit
  <2> QED  BY <2>1, <2>2
<1> QED  BY <1>2, <1>3, MWaits

\* Only a command for the store buffer is answered before it is performed.
LEMMA BufferedEarly ==
  ASSUME NEW ack, NEW answer, MSync(answer), MMoves(ack, answer), CoreInv, StateInv,
         ~Previous, Previous'
  PROVE  c.dc_onm /\ bc.b0.m = 1
<1>1. bc' = bc
  BY DEF MSync
<1>2. m'.statemcl = "WTHI" /\ Waiting'
  BY DEF Previous
<1>3. Current /\ ~Current'
  BY MBankMoves DEF BankMoves
<1>4. Outstanding /\ ~Outstanding'
  BY <1>1, <1>2, <1>3 DEF Current
<1>5. bc.b0.m = 1
  BY <1>4, AnswerSeen
<1>6. bc.d0v.cmd = "WRITESGL_FA"
  <2>1. CASE m.statemcl = "IDLE"
    <3>1. Takes
      BY <1>2, <2>1, IdleWaits DEF CoreInv
    <3>2. bm.d0b.s = bc.d0v /\ bc.d0v.cmd \in Commands
      BY <3>1, TakesOutstanding DEF CoreInv
    <3>3. m'.statemcl = M!TakenState(bc.d0v.cmd)
      BY <3>1, <3>2, IdleTakes DEF CoreInv
    <3> QED  BY <1>2, <3>2, <3>3 DEF M!TakenState, Commands
  <2>2. CASE m.statemcl = "WTHI"
    <3>1. half.b0 # bm.b0.v /\ Arrived /\ ~m.sbblknxst
      BY <2>2 DEF Previous, Waiting
    <3> QED  BY <2>2, <3>1 DEF CoreInv, Channel0Inv, Serving, Blocked, Served
  <2>3. CASE m.statemcl \notin {"IDLE", "WTHI"}
    BY <1>2, <2>3, Busy DEF CoreInv
  <2> QED  BY <2>1, <2>2, <2>3
<1>7. c.state # "IDLE"
  BY <1>4, <1>5 DEF Outstanding, CoreInv, Channel0Inv, Latched, Shown, Serving
<1>8. c.state \in {"SB1", "SB2"}
  BY <1>6, <1>7 DEF StateInv, StatesOf
<1> QED  BY <1>5, <1>8 DEF CoreInv, CclInv, OnStates

\* The gap after a write, or the fill before the next, takes its time.
LEMMA GapPasses ==
  ASSUME NEW ack, NEW answer, MSync(answer), MMoves(ack, answer), MEffects(ack), CoreInv,
         SyncTypes, MclTypes, MclInv'
  PROVE  /\ m.statemwi = "GAP1" => FarOff'
         /\ FarOff => ~m'.mwr
<1> USE DEF CoreInv
<1>1. m'.mwr <=> (m'.statemcl \in M!Writing /\ m'.men)
  BY DEF MclInv
<1>2. m'.men => m'.statemwi \notin GapR
  BY DEF MclInv
<1>3. CASE m.statemcl = "IDLE" /\ ~Takes
  BY <1>3, IdleWaits DEF FarOff, MclInv, GapR
<1>4. CASE Takes
  <2>1. /\ bm.d0b.s = bc.d0v /\ bc.d0v.cmd \in Commands /\ m.statemcl = "IDLE"
    BY <1>4, TakesOutstanding DEF Takes
  <2>2. PICK cmd \in Commands : cmd = bm.d0b.s.cmd
    BY <2>1
  <2>3. /\ m'.statemcl = M!TakenState(cmd)
        /\ m'.statemwi = CASE m.statemwi \in {"GAP1", "GAP2S"}
                                /\ cmd \notin M!WriteSgl \cup {"NEGATE_LO"} -> "IDLE"
                           [] m.statemwi = "GAP1" 
                                /\ cmd \in M!WriteSgl \cup {"NEGATE_LO"} -> "GAP2R"
                           [] m.statemwi = "GAP2S"
                                /\ cmd \in M!WriteSgl \cup {"NEGATE_LO"} -> "GAP3R"
                           [] m.statemwi = "GAP2R" -> "GAP3R"
                           [] OTHER -> "IDLE"
    BY <1>4, <2>2, IdleTakes
  <2>4. m'.statemcl = "WFILL" => m'.ma0.w = m'.reqw
    <3> SUFFICES ASSUME m'.statemcl = "WFILL" PROVE m'.ma0.w = m'.reqw
      OBVIOUS
    <3>0. MclIn(ack).ctom.b0d = bm.d0b.s
      BY DEF MclIn
    <3>1. PICK x : x = MclIn(ack) /\ x.ctom.b0d = bm.d0b.s
      BY <3>0
    <3>2. m'.reqw = bm.d0b.s.a.w /\ m'.ma0 = M!Ma0(m, x, m'.statemcl)
      BY <1>4, <3>1 DEF MEffects
    <3>3. m'.ma0 = [bm.d0b.s.a EXCEPT !.b = 0]
      BY <2>1, <3>1, <3>2 DEF M!Ma0, M!Filling
    <3>4. bm.d0b.s.a \in Addresses
      BY DEF SyncTypes, CommandWords
    <3> QED  BY <3>2, <3>3, <3>4 DEF Addresses
  <2>5. m.statemwi = "GAP1" => FarOff'
    <3>1. CASE cmd \in M!WriteSgl \cup {"NEGATE_LO"}
      BY <2>3, <3>1 DEF FarOff
    <3>2. CASE cmd \notin M!WriteSgl \cup {"NEGATE_LO"}
      <4>1. m'.statemcl \in {"RFILL", "WFILL", "RSG"}
        BY <2>3, <3>2 DEF M!TakenState, M!WriteSgl, Commands
      <4> QED  BY <2>4, <4>1 DEF FarOff
    <3> QED  BY <3>1, <3>2
  <2>6. FarOff => ~m'.mwr
    <3>1. CASE cmd \in M!WriteSgl
      <4>1. FarOff => m.statemwi \in {"GAP1", "GAP2S", "GAP2R"}
        BY <2>1 DEF FarOff
      <4>2. m.statemwi \in {"GAP1", "GAP2S", "GAP2R"} => m'.statemwi \in GapR
        BY <2>3, <3>1 DEF GapR
      <4> QED  BY <1>1, <1>2, <4>1, <4>2
    <3>2. CASE cmd \notin M!WriteSgl
      BY <1>1, <2>3, <3>2 DEF M!TakenState, M!WriteSgl, Commands, M!Writing
    <3> QED  BY <3>1, <3>2
  <2> QED  BY <2>5, <2>6
<1>5. CASE m.statemcl # "IDLE"
  <2>1. m.statemwi \in {"IDLE"} \cup GapR
    BY <1>5 DEF MclInv
  <2>2. m.statemwi = "GAP2R" => m'.statemwi = "GAP3R"
    BY <1>5, Busy
  <2>3. m.statemcl \in {"RFILL", "RSG"} => m'.statemcl \notin M!Writing
    BY <1>5, Busy DEF M!Writing
  <2>4. (m.statemcl = "WFILL" /\ m.ma0.w = m.reqw) => m'.statemcl = "WFILL"
    <3> SUFFICES ASSUME m.statemcl = "WFILL", m.ma0.w = m.reqw PROVE m'.statemcl = "WFILL"
      OBVIOUS
    <3>1. m.reqw \in Words
      BY DEF MclTypes
    <3>2. NextWord(m.reqw) # m.reqw
      BY <3>1, PackAssumption DEF NextWord, Words
    <3>3. ~M!CwLast(m)
      BY <3>2, SamePack DEF M!CwLast
    <3> QED  BY <1>5, <3>3, Busy
  <2> QED  BY <1>1, <1>2, <2>1, <2>2, <2>3, <2>4 DEF FarOff, GapR, M!Writing
<1> QED  BY <1>3, <1>4, <1>5 DEF Takes

SnoopMEffects(ends) ==
  /\ \A k \in Banks :
       bm'.b3[k] = IF ends /\ k = 1 - m.b3enr_dir THEN bc.b3[k].v ELSE bm.b3[k]
  /\ hist'.done = IF ends THEN Append(hist.done, Line(m.ma0)) ELSE hist.done
  /\ hist'.syen = hist.syen
  /\ c' = c /\ bc' = bc
  /\ mEdges < 2 /\ mEdges' = mEdges + 1

\* A memory clock edge reduced to what it does to the banks and the performed lines.
LEMMA MEdgeSnoopEffects ==
  ASSUME NEW ack \in BOOLEAN, MEdge(ack), CoreInv, HistInv, HistShape
  PROVE  \E ends \in BOOLEAN : (ends <=> m.mwr /\ ack) /\ SnoopMEffects(ends)
<1>1. PICK answer : MSync(answer) /\ MMoves(ack, answer)
  BY MEdgeParts
<1>2. MEffects(ack)
  BY <1>1, MEdgeEffects DEF CoreInv
<1>3. PICK ends \in BOOLEAN : ends <=> m.mwr /\ ack
  OBVIOUS
<1>4. /\ hist'.done = IF ack /\ m.mwr THEN Append(hist.done, Line(m.ma0)) ELSE hist.done
      /\ hist'.syen = hist.syen
  BY DEF MEdge, HistM, HistShape
<1>5. SnoopMEffects(ends)
  BY <1>1, <1>2, <1>3, <1>4 DEF SnoopMEffects, MEffects, MSync
<1> QED  BY <1>3, <1>5

\* The write that ends is in the bank whose line saout_al2 has, the cpu side has
\* seen that bank busy, and the write before it is being announced already.
LEMMA EndsInBank ==
  ASSUME CoreInv, CclTypes, BankInv, RegInv, SnoopInv, m.mwr, Previous \/ Current,
         mEdges < 2
  PROVE  /\ 1 - m.b3enr_dir \in Banks
         /\ bc.b3[1 - m.b3enr_dir].m = 1
         /\ c.saout_al2[1 - m.b3enr_dir] = Line(m.ma0)
         /\ \A k \in Banks : ~Late(k) /\ ~Soon(k)
<1>1. m.statemcl \in M!Writing /\ m.statemwi = "IDLE"
  BY DEF CoreInv, MclInv, GapR, M!Writing
<1>2. \A k \in Banks : ~Late(k) /\ ~Soon(k)
  <2> SUFFICES ASSUME NEW k \in Banks PROVE ~Late(k) /\ ~Soon(k)
    OBVIOUS
  <2>1. mEdges = 0 \/ mEdges = 1
    BY DEF CoreInv, Channel0Inv, ChannelTypes
  <2>2. ~FarOff
    BY <1>1 DEF FarOff, M!Writing
  <2> QED  BY <1>1, <2>1, <2>2 DEF SnoopInv, DistanceInv
<1>3. PICK s \in Banks, o \in Banks :
        s = c.sabank_send /\ o = 1 - c.sabank_send /\ s # o /\ s = 1 - o
  BY DEF CclTypes, Banks
<1>4. 1 - m.b3enr_dir = IF Current /\ Previous THEN o ELSE s
  BY <1>3 DEF BankInv, Banks
<1>5. PlaceInv
  BY DEF SnoopInv
<1>6. CASE Previous /\ Current
  BY <1>2, <1>3, <1>4, <1>5, <1>6 DEF PlaceInv
<1>7. CASE Previous /\ ~Current
  BY <1>2, <1>3, <1>4, <1>5, <1>7 DEF PlaceInv
<1>8. CASE ~Previous /\ Current
  <2>1. ~Waiting /\ bc.b0.m = 1
    BY <1>8, ServedWrite
  <2>2. m.ma0 = bc.d0v.a
    BY <1>1, <2>1 DEF RegInv
  <2>3. 1 - m.b3enr_dir = s
    BY <1>4, <1>8
  <2>4. bc.b3[s].m = 1
    BY <1>3, <1>5, <1>8, <2>1 DEF PlaceInv
  <2>5. c.saout_al2[s] = c.saout_al1 /\ c.saout_al1 = Line(bc.d0v.a)
    BY <1>3, <1>5, <1>8, <2>4 DEF PlaceInv
  <2> QED  BY <1>2, <2>2, <2>3, <2>4, <2>5
<1> QED  BY <1>6, <1>7, <1>8

\* A memory clock edge adds the line of the write that ends, and keeps its distance.
LEMMA MEdgeDone ==
  ASSUME NEW ack \in BOOLEAN, MEdge(ack), CoreInv, MclInv', HistInv, HistShape, SyncTypes,
         CclTypes, MclTypes, BankInv, RegInv, SnoopInv
  PROVE  DoneInv' /\ ApartInv' /\ DistanceInv'
<1>1. PICK answer : MSync(answer) /\ MMoves(ack, answer)
  BY MEdgeParts
<1>2. MEffects(ack)
  BY <1>1, MEdgeEffects DEF CoreInv
<1>3. PICK ends \in BOOLEAN : (ends <=> m.mwr /\ ack) /\ SnoopMEffects(ends)
  BY MEdgeSnoopEffects
<1>4. /\ \A k \in Banks :
           bm'.b3[k] = IF ends /\ k = 1 - m.b3enr_dir THEN bc.b3[k].v ELSE bm.b3[k]
      /\ hist'.done = IF ends THEN Append(hist.done, Line(m.ma0)) ELSE hist.done
      /\ hist'.syen = hist.syen
      /\ c' = c /\ bc' = bc
      /\ mEdges < 2 /\ mEdges' = mEdges + 1
  BY <1>3 DEF SnoopMEffects
<1>5. mEdges \in 0 .. 2
  BY DEF CoreInv, Channel0Inv, ChannelTypes
<1>6. (m.statemwi = "GAP1" => FarOff') /\ (FarOff => ~m'.mwr)
  BY <1>1, <1>2, GapPasses
<1>7. \A k \in Banks : (Now(k)' <=> Now(k)) /\ (Soon(k)' <=> Soon(k))
  BY <1>4 DEF Now, Soon
<1>8. CASE ~ends
  <2>1. \A k \in Banks : Late(k)' <=> Late(k)
    BY <1>4, <1>8 DEF Late
  <2>2. /\ (Now(0)' <=> Now(0)) /\ (Now(1)' <=> Now(1))
        /\ (Soon(0)' <=> Soon(0)) /\ (Soon(1)' <=> Soon(1))
        /\ (Late(0)' <=> Late(0)) /\ (Late(1)' <=> Late(1))
    BY <1>7, <2>1 DEF Banks
  <2>3. /\ SomeNow' = SomeNow /\ SomeNext' = SomeNext
        /\ NowLine' = NowLine /\ NextLine' = NextLine
    <3>1. (SomeNow' <=> SomeNow) /\ (SomeNext' <=> SomeNext)
      BY <2>2 DEF SomeNow, SomeNext
    <3>2. NowLine' = NowLine /\ NextLine' = NextLine
      BY <1>4, <2>2 DEF NowLine, NextLine
    <3>3. /\ SomeNow \in BOOLEAN /\ SomeNow' \in BOOLEAN
          /\ SomeNext \in BOOLEAN /\ SomeNext' \in BOOLEAN
      BY DEF SomeNow, SomeNext, Now, Soon, Late
    <3> QED  BY <3>1, <3>2, <3>3
  <2>4. DoneInv'
    <3>1. hist.done = Queue(SomeNow, NowLine, SomeNext, NextLine, FALSE, NowLine)
      BY DEF SnoopInv, DoneInv
    <3> QED  BY <1>4, <1>8, <2>3, <3>1 DEF DoneInv
  <2>5. ApartInv'
    BY <1>4, <2>2, <2>3 DEF SnoopInv, ApartInv
  <2>6. DistanceInv'
    <3> SUFFICES ASSUME NEW k \in Banks
                 PROVE  /\ Late(k)' => /\ mEdges' >= 1
                                       /\ mEdges' = 1 => m'.statemwi = "GAP1"
                                       /\ mEdges' = 2 => FarOff'
                        /\ Soon(k)' => /\ mEdges' = 0 => FarOff'
                                       /\ mEdges' = 1 => ~m'.mwr
      BY DEF DistanceInv
    <3>1. Late(k) => mEdges >= 1 /\ (mEdges = 1 => m.statemwi = "GAP1")
      BY DEF SnoopInv, DistanceInv
    <3>2. Soon(k) => (mEdges = 0 => FarOff)
      BY DEF SnoopInv, DistanceInv
    <3> QED  BY <1>4, <1>5, <1>6, <1>7, <2>1, <3>1, <3>2
  <2> QED  BY <2>4, <2>5, <2>6
<1>9. CASE ends
  <2>1. m.mwr /\ ack /\ (Previous \/ Current)
    BY <1>1, <1>3, <1>9, MBankMoves DEF BankMoves
  <2>2. PICK e \in Banks : e = 1 - m.b3enr_dir
    BY <1>4, <2>1, EndsInBank
  <2>3. /\ bc.b3[e].m = 1 /\ c.saout_al2[e] = Line(m.ma0)
        /\ \A k \in Banks : ~Late(k) /\ ~Soon(k)
    BY <1>4, <2>1, <2>2, EndsInBank
  <2>4. \A k \in Banks : Late(k)' <=> k = e
    BY <1>4, <1>9, <2>2, <2>3 DEF Late
  <2>5. /\ (Now(0)' <=> Now(0)) /\ (Now(1)' <=> Now(1))
        /\ ~Soon(0)' /\ ~Soon(1)' /\ ~Soon(0) /\ ~Soon(1) /\ ~Late(0) /\ ~Late(1)
        /\ (Late(0)' <=> e = 0) /\ (Late(1)' <=> e = 1)
        /\ e = 0 \/ e = 1
    BY <1>7, <2>3, <2>4 DEF Banks
  <2>6. (SomeNow' <=> SomeNow) /\ SomeNext' /\ ~SomeNext
    BY <2>5 DEF SomeNow, SomeNext
  <2>7. NowLine' = NowLine /\ NextLine' = Line(m.ma0)
    BY <1>4, <2>3, <2>5 DEF NowLine, NextLine
  <2>8. DoneInv'
    <3>1. PICK n, x : n = NowLine /\ x = Line(m.ma0)
      OBVIOUS
    <3>2. CASE SomeNow
      <4>1. hist.done = <<n>>
        BY <2>6, <3>1, <3>2 DEF SnoopInv, DoneInv, Queue
      <4>2. hist'.done = <<n, x>>
        BY <1>4, <1>9, <3>1, <4>1, AppendPair
      <4> QED  BY <2>6, <2>7, <3>1, <3>2, <4>2 DEF DoneInv, Queue
    <3>3. CASE ~SomeNow
      <4>1. hist.done = <<>>
        BY <2>6, <3>1, <3>3 DEF SnoopInv, DoneInv, Queue
      <4>2. hist'.done = <<x>>
        BY <1>4, <1>9, <3>1, <4>1, AppendFirst
      <4> QED  BY <2>6, <2>7, <3>1, <3>3, <4>2 DEF DoneInv, Queue
    <3> QED  BY <3>2, <3>3
  <2>9. ApartInv'
    BY <1>4, <2>5, <2>6 DEF SnoopInv, ApartInv
  <2>10. m'.statemwi = "GAP1"
    <3>1. m.statemcl \in M!Writing /\ m.statemcl # "IDLE" /\ m.statemwi = "IDLE"
      BY <2>1 DEF CoreInv, MclInv, GapR, M!Writing
    <3> QED  BY <1>1, <2>1, <3>1, Busy DEF CoreInv
  <2>11. DistanceInv'
    <3>1. \A k \in Banks : ~Soon(k)'
      BY <1>7, <2>3
    <3>2. mEdges' >= 1
      BY <1>4, <1>5
    <3>3. FarOff'
      BY <2>10 DEF FarOff
    <3> QED  BY <2>10, <3>1, <3>2, <3>3 DEF DistanceInv
  <2> QED  BY <2>8, <2>9, <2>11
<1> QED  BY <1>8, <1>9

\* A memory clock edge keeps the place of every line, and the order with the cache off.
LEMMA MEdgePlaces ==
  ASSUME NEW ack \in BOOLEAN, MEdge(ack), CoreInv, StateInv, HistInv, HistShape, CclTypes,
         BankInv, RegInv, SnoopInv
  PROVE  PlaceInv' /\ OffInv' /\ BankShape'
<1>1. PICK answer : MSync(answer) /\ MMoves(ack, answer)
  BY MEdgeParts
<1>2. WEffects(ack)
  BY MEdgeWEffects
<1>3. PICK ends \in BOOLEAN : (ends <=> m.mwr /\ ack) /\ SnoopMEffects(ends)
  BY MEdgeSnoopEffects
<1>4. c' = c /\ bc' = bc
  BY <1>3 DEF SnoopMEffects
<1>5. BankMoves(m.mwr /\ ack)
  BY <1>1, MBankMoves
<1>6. (~Previous /\ Previous') => c.dc_onm /\ bc.b0.m = 1
  BY <1>1, BufferedEarly
<1>7. (Previous /\ Previous') => m'.ma0 = m.ma0
  BY <1>1, <1>2, RegistersStay DEF Previous, M!Writing, CoreInv
<1>8. (~Previous /\ Previous') => m'.ma0 = bc.d0v.a
  BY <1>1, <1>2, RegistersMatch DEF Previous, M!Writing
<1>9. Current' => Current
  BY <1>5 DEF BankMoves
<1>10. PlaceInv'
  <2>1. PlaceInv
    BY DEF SnoopInv
  <2>2. (Previous' /\ ~Current') => \/ Previous /\ ~Current
                                    \/ ~Previous /\ Current
    BY <1>5 DEF BankMoves
  <2>3. (Previous' /\ Current') => Previous /\ Current
    BY <1>5 DEF BankMoves
  <2> QED  BY <1>4, <1>6, <1>7, <1>8, <1>9, <2>1, <2>2, <2>3 DEF PlaceInv
<1>11. OffInv'
  <2> SUFFICES ASSUME ~c.dc_onm
               PROVE  /\ ~Previous'
                      /\ \A k \in Banks :
                           /\ Late(k)' => bc.b0.m = 1
                           /\ Soon(k)' => bc.b0.m = 1 \/ bc.b0.s = 1
                           /\ Now(k)'  => bc.b0.m = 1 \/ bc.b0.s = 1 \/ c.rfillv = 1
    BY <1>4 DEF OffInv
  <2>1. ~Previous /\ ~Previous'
    BY <1>6 DEF SnoopInv, OffInv
  <2>2. ends => bc.b0.m = 1
    BY <1>3, <2>1, ServedWrite
  <2>3. ASSUME NEW k \in Banks PROVE Late(k)' => Late(k) \/ ends
    BY <1>3, <1>4 DEF SnoopMEffects, Late
  <2>4. \A k \in Banks : (Soon(k)' <=> Soon(k)) /\ (Now(k)' <=> Now(k))
    BY <1>4 DEF Soon, Now
  <2> QED  BY <2>1, <2>2, <2>3, <2>4 DEF SnoopInv, OffInv
<1>12. BankShape'
  BY <1>4 DEF SnoopInv, BankShape
<1> QED  BY <1>10, <1>11, <1>12

-------------------------------------------------------------------------------
(* The announcements.                                                        *)

\* At reset there is nothing to announce.
LEMMA SnoopInit == Init => SnoopInv
<1> SUFFICES ASSUME Init PROVE SnoopInv
  OBVIOUS
<1>1. c = CclReset /\ m = M!MclReset
  BY DEF Init
<1>2. /\ bc.b3 = [k \in Banks |-> FsyncReset] /\ bm.b3 = [k \in Banks |-> 0]
      /\ bc.b0 = FsyncReset /\ bm.b0 = FsyncReset
  BY DEF Init
<1>3. hist.done = <<>> /\ hist.syen = FALSE
  BY DEF Init
<1>4. \A k \in Banks : bc.b3[k].m = 0 /\ bc.b3[k].s = 0 /\ c.b3en_r[k] = 0
  BY <1>1, <1>2 DEF FsyncReset, CclReset
<1>5. \A k \in Banks : ~Late(k) /\ ~Soon(k) /\ ~Now(k)
  BY <1>4 DEF Late, Soon, Now
<1>6. ~SomeNow /\ ~SomeNext
  BY <1>5 DEF SomeNow, SomeNext, Banks
<1>7. ~Previous /\ ~Current
  BY <1>1, <1>2 DEF Previous, Current, Outstanding, FsyncReset, M!MclReset
<1>8. BankShape
  BY <1>1 DEF BankShape, CclReset, Bit
<1>9. DoneInv
  BY <1>3, <1>6 DEF DoneInv, Queue
<1>10. ApartInv
  BY <1>5, <1>6 DEF ApartInv, Banks
<1>11. DistanceInv /\ OffInv
  BY <1>5, <1>7 DEF DistanceInv, OffInv
<1>12. c.sabank_send \in Banks
  BY <1>1 DEF CclReset, Banks
<1>13. PlaceInv
  BY <1>4, <1>7, <1>12 DEF PlaceInv
<1> QED  BY <1>8, <1>9, <1>10, <1>11, <1>13 DEF SnoopInv

\* The latches and the other master have no part in them.
LEMMA SnoopOther ==
  ASSUME Inv, StoreInv, SnoopInv, CLow \/ MLow \/ RemoteWrite \/ UNCHANGED vars
  PROVE  SnoopInv'
<1>1. /\ c' = c /\ m' = m /\ bc' = bc /\ bm' = bm /\ mEdges' = mEdges
      /\ hist'.done = hist.done /\ hist'.syen = hist.syen
      /\ (Previous' <=> Previous) /\ (Current' <=> Current)
  BY StoresUntouched DEF StoreInv
<1>2. \A k \in Banks : (Late(k)' <=> Late(k)) /\ (Soon(k)' <=> Soon(k)) /\ (Now(k)' <=> Now(k))
  BY <1>1 DEF Late, Soon, Now
<1>3. /\ (Late(0)' <=> Late(0)) /\ (Late(1)' <=> Late(1))
      /\ (Soon(0)' <=> Soon(0)) /\ (Soon(1)' <=> Soon(1))
      /\ (Now(0)' <=> Now(0)) /\ (Now(1)' <=> Now(1))
  BY <1>2 DEF Banks
<1>4. /\ (SomeNow' <=> SomeNow) /\ (SomeNext' <=> SomeNext)
      /\ NowLine' = NowLine /\ NextLine' = NextLine
  BY <1>1, <1>3 DEF SomeNow, SomeNext, NowLine, NextLine
<1>5. BankShape' /\ DoneInv'
  BY <1>1, <1>4 DEF SnoopInv, BankShape, DoneInv, Queue
<1>6. ApartInv'
  BY <1>1, <1>3, <1>4 DEF SnoopInv, ApartInv
<1>7. DistanceInv'
  BY <1>1, <1>2 DEF SnoopInv, DistanceInv, FarOff
<1>8. PlaceInv'
  BY <1>1 DEF SnoopInv, PlaceInv
<1>9. OffInv'
  BY <1>1, <1>2 DEF SnoopInv, OffInv
<1> QED  BY <1>5, <1>6, <1>7, <1>8, <1>9 DEF SnoopInv

\* Every step keeps the account of the announcements.
LEMMA SnoopStays ==
  Inv /\ StoreInv /\ SnoopInv /\ [Next]_vars /\ [QuietSwitch]_vars => SnoopInv'
<1> SUFFICES ASSUME Inv, StoreInv, SnoopInv, [Next]_vars, [QuietSwitch]_vars
             PROVE  SnoopInv'
  OBVIOUS
<1>1. /\ CoreInv /\ SyncTypes /\ CclTypes /\ MclTypes /\ BankInv /\ BankSeen
      /\ HistInv /\ StateInv
  BY DEF Inv, TypeInv, LinkInv, LockInv
<1>2. HistShape /\ RegInv /\ PendInv
  BY DEF StoreInv
<1>3. CASE CEdge
  <2>1. QuietSwitch
    <3>1. mEdges' = 0 /\ mEdges >= 1
      BY <1>3 DEF CEdge
    <3>2. mEdges' # mEdges
      BY <3>1
    <3> QED  BY <3>2 DEF vars
  <2>2. DoneInv' /\ ApartInv' /\ DistanceInv'
    BY <1>1, <1>3, CEdgeDone
  <2>3. PlaceInv' /\ OffInv'
    BY <1>1, <1>2, <1>3, <2>1, CEdgePlaces, CEdgeOff
  <2>4. BankShape'
    <3>1. /\ c'.saout_al2 = [c.saout_al2 EXCEPT ![c.sabank_send] = c.saout_al1]
          /\ c'.b3en_r = [k \in Banks |-> bc.b3[k].s]
      BY <1>3, CEdgeSnoopEffects DEF SnoopCEffects
    <3>2. \A k \in Banks : bc.b3[k].s \in Bit
      BY <1>1 DEF SyncTypes, FsyncReg
    <3> QED  BY <3>1, <3>2 DEF SnoopInv, BankShape
  <2> QED  BY <2>2, <2>3, <2>4 DEF SnoopInv
<1>4. ASSUME NEW ack \in BOOLEAN, MEdge(ack) PROVE SnoopInv'
  <2>1. MclInv'
    BY <1>1, CoreStep DEF CoreInv
  <2>2. DoneInv' /\ ApartInv' /\ DistanceInv'
    BY <1>1, <1>2, <1>4, <2>1, MEdgeDone
  <2>3. PlaceInv' /\ OffInv' /\ BankShape'
    BY <1>1, <1>2, <1>4, MEdgePlaces
  <2> QED  BY <2>2, <2>3 DEF SnoopInv
<1>5. CASE CLow \/ MLow \/ RemoteWrite \/ UNCHANGED vars
  BY <1>5, SnoopOther
<1> QED  BY <1>3, <1>4, <1>5 DEF Next, MemAck, MemWait

\* What is announced is the line of the oldest store that has been performed and
\* not announced, and no announcement follows another at once.
LEMMA AnnouncedIsOldest == SnoopInv => SnoopOutMatches
<1> SUFFICES ASSUME SnoopInv, Sy.en
             PROVE  hist.done # <<>> /\ Head(hist.done) = Sy.al /\ ~hist.syen
  BY DEF SnoopOutMatches
<1>1. SomeNow /\ Sy.al = NowLine
  BY Announces
<1>2. PICK n, e : n = NowLine /\ e = NextLine
  OBVIOUS
<1>3. hist.done = Queue(SomeNow, n, SomeNext, e, FALSE, n)
  BY <1>2 DEF SnoopInv, DoneInv
<1>4. hist.done # <<>> /\ Head(hist.done) = n
  BY <1>1, <1>3 DEF Queue
<1>5. ~hist.syen
  BY <1>1 DEF SnoopInv, ApartInv
<1> QED  BY <1>1, <1>2, <1>4, <1>5

\* The snoop output sy announces every performed store to the other caches once,
\* in the order of the writes and with its own line, in cycles that are never
\* adjacent, provided that the software switches the cache off only when its stores
\* have been performed and announced.
THEOREM StoresAnnounced == Spec /\ [][QuietSwitch]_vars => []SnoopOutMatches
<1>1. Spec /\ [][QuietSwitch]_vars => []SnoopInv
  BY SnoopInit, SnoopStays, Invariance, StoresAccounted, PTL DEF Spec
<1> QED  BY <1>1, AnnouncedIsOldest, PTL

\* The control input as it was at reset: a cache that is on has always been meant to be.
CtrlFixed ==
  /\ ctrl = [en |-> CtrlInit, inv |-> ctrl.inv, n |-> 0]
  /\ c.dc_onm => CtrlInit

\* Without a write to its control register the cache is never switched off.
LEMMA CtrlStays ==
  ASSUME MaxCtrl = 0, CtrlFixed, [Next]_vars
  PROVE  CtrlFixed' /\ QuietSwitch
<1>1. CASE CEdge
  <2>1. ctrl' = [ctrl EXCEPT !.inv = FALSE]
    BY <1>1 DEF CEdge, CtrlStep, CtrlFixed
  <2>2. c'.dc_onm = IF Goes = "IDLE" THEN ctrl.en ELSE c.dc_onm
    <3>1. c' = CclNext(c, CclIn)
      BY <1>1 DEF CEdge
    <3>2. PICK x : x = CclIn
      OBVIOUS
    <3>3. c'.dc_onm = DcOnm(c, x, Goes)
      BY <3>1, <3>2 DEF CclNext, Goes
    <3>4. x.ctrl = ctrl
      BY <3>2 DEF CclIn
    <3> QED  BY <3>3, <3>4 DEF DcOnm
  <2>3. ctrl.en = CtrlInit /\ ctrl' = [en |-> CtrlInit, inv |-> ctrl'.inv, n |-> 0]
    <3>1. PICK i : ctrl = [en |-> CtrlInit, inv |-> i, n |-> 0]
      BY DEF CtrlFixed
    <3>2. ctrl' = [en |-> CtrlInit, inv |-> FALSE, n |-> 0]
      BY <2>1, <3>1
    <3> QED  BY <3>1, <3>2
  <2>4. c'.dc_onm = CtrlInit \/ c'.dc_onm = c.dc_onm
    BY <2>2, <2>3
  <2>5. (c'.dc_onm => CtrlInit) /\ (c.dc_onm => c'.dc_onm)
    BY <2>4, Zenon DEF CtrlFixed
  <2> QED  BY <2>3, <2>5 DEF CtrlFixed, QuietSwitch
<1>2. CASE CLow \/ MemAck \/ MemWait \/ MLow \/ RemoteWrite \/ UNCHANGED vars
  <2>1. c' = c /\ ctrl' = ctrl
    BY <1>2 DEF CLow, MemAck, MemWait, MEdge, MLow, RemoteWrite, vars
  <2> QED  BY <2>1 DEF CtrlFixed, QuietSwitch
<1> QED  BY <1>1, <1>2 DEF Next

\* So a cache that stays in the mode it was started in announces every store.
THEOREM StoresAnnouncedInOneMode ==
  ASSUME MaxCtrl = 0
  PROVE  Spec => []SnoopOutMatches
<1>1. Init => CtrlFixed
  BY DEF Init, CtrlFixed, CclReset
<1>2. CtrlFixed /\ [Next]_vars => CtrlFixed' /\ [QuietSwitch]_vars
  BY CtrlStays
<1>3. Spec => [][QuietSwitch]_vars
  BY <1>1, <1>2, PTL DEF Spec
<1> QED  BY <1>3, StoresAnnounced, PTL

===============================================================================
