-------------------------------- MODULE Dcache --------------------------------
(***************************************************************************)
(* The data cache (cache/dcache.vhd) in its surroundings: its two halves   *)
(* on their own clocks, the four synchroniser channels between them, the   *)
(* RAMs (cache/dcache_ram.vhd), the cpu's data bus on one side, and on the *)
(* other the memory, with another master that writes it and announces its  *)
(* writes on the snoop port.                                               *)
(*                                                                         *)
(* A step is one clock edge.  What a register half holds of data crossing  *)
(* a clock boundary while it changes is the subject of FsyncChannel; here  *)
(* a word is sampled whole.                                                *)
(***************************************************************************)
EXTENDS DcacheCcl, Fsync, Sequences, FiniteSets

CONSTANTS
  Reads,        \* addresses the cpu reads
  Writes,       \* [a, we]: what the cpu writes
  TasReads,     \* addresses of locked read-modify-writes
  MaxOps,       \* data accesses of the cpu, at most
  RemotePlaces, \* words the other master writes
  MaxRemote,    \* its writes, at most
  Snooping,     \* it announces its writes (another cpu) or not (a DMA engine)
  MaxCtrl,      \* writes to the cache control register, at most
  CasFail,      \* a locked read may be followed by no write (a CAS.L that fails):
                \* "never", "idle" (an idle cycle comes next) or "any"
  CtrlInit      \* the cache is on after the reset code

M == INSTANCE DcacheMcl

ASSUME DcacheAssumption ==
  /\ Reads \subseteq Addresses /\ TasReads \subseteq Addresses
  /\ \A q \in Writes : q.a \in Addresses /\ q.we \in {Lanes, {q.a.b}}
  /\ RemotePlaces \subseteq Places
  /\ {MaxOps, MaxRemote, MaxCtrl} \subseteq Nat
  /\ CasFail \in {"never", "idle", "any"}
  /\ {CtrlInit, Snooping} \subseteq BOOLEAN

VARIABLES
  c,        \* dcache_ccl's registers
  m,        \* dcache_mcl's registers
  bc,       \* thisbc_r: the cpu side of the synchroniser
  bm,       \* thisbm_r: the memory side
  half,     \* the half-cycle latches of channels 0 and 2
  ram,      \* data RAM, by index and word
  tag,      \* tag RAM, by index (both copies)
  ra,       \* the RAMs' output registers
  mem,      \* the memory
  cpu,      \* the cpu's data bus and what it is doing
  sa,       \* snoop input
  ctrl,     \* cache control input, and how often it was written
  rem,      \* the other master's writes: their progress and their lines
  own,      \* the arbiter keeps the bus for this cache (locked access)
  mEdges,   \* edges of clk200 since the last edge of clk125
  hist      \* what the properties need to know of the past

vars == <<c, m, bc, bm, half, ram, tag, ra, mem, cpu, sa, ctrl, rem, own, mEdges, hist>>

Remotes == 1 .. MaxRemote

\* Values.  The cpu's n-th access writes n, the other master's k-th write
\* MaxOps + k, and memory starts out with a different value in every lane.
RemoteValue(k) == MaxOps + k
InitialWord(p) ==
  [l \in Lanes |-> MaxOps + MaxRemote + 1
     + l + NumLanes * (p.w + LineWords * (p.i + NumIndices * p.t))]

Init ==
  /\ c = CclReset
  /\ m = M!MclReset
  /\ bc = [b0 |-> FsyncReset, b2 |-> FsyncReset,
           b3 |-> [k \in Banks |-> FsyncReset], d0v |-> NullCommand,
           d0s |-> [m |-> JunkWord, s |-> JunkWord],
           d2s |-> [m |-> JunkWord, s |-> JunkWord]]
  /\ bm = [b0 |-> FsyncReset, b2 |-> 0, b3 |-> [k \in Banks |-> 0],
           d0v |-> JunkWord, d2v |-> JunkWord,
           d0b |-> [m |-> NullCommand, s |-> NullCommand]]
  /\ half = [b0 |-> 0, b2 |-> 0]
  /\ ram = [i \in Indices |-> [w \in Words |-> JunkWord]]
  /\ tag \in [Indices -> Tags]
  /\ ra = [tag0 |-> 0, tag1 |-> 0, d0 |-> JunkWord]
  /\ mem = [p \in Places |-> InitialWord(p)]
  /\ cpu = [a |-> NullRequest, lock |-> FALSE, tas |-> "none", at |-> Address0, n |-> 0]
  /\ sa = [en |-> FALSE, al |-> Line(Address0)]
  /\ ctrl = [en |-> CtrlInit, inv |-> FALSE, n |-> 0]
  /\ rem = [age |-> [k \in Remotes |-> 0],
            line |-> [k \in Remotes |-> Line(Address0)]]
  /\ own = FALSE
  /\ mEdges = 0
  /\ hist = [pend |-> <<>>, done |-> <<>>, stale |-> {}, syen |-> FALSE,
             tasRead |-> FALSE]

-------------------------------------------------------------------------------
(* The signals between the parts.                                            *)

\* mtoc2: what the cpu half sees of the memory half.
CclIn ==
  [a |-> cpu.a, a_lock |-> cpu.lock, sa |-> sa, ctrl |-> ctrl, ra |-> ra,
   mtoc |-> [b0enr |-> bc.b0.s, b0d_unc |-> bc.d0s.s, b2enr |-> bc.b2.s,
             b2d_cfil |-> bc.d2s.s, b3enr |-> [k \in Banks |-> bc.b3[k].s]]]

\* ctom2: what the memory half sees of the cpu half; and the bus.
MclIn(ack) ==
  [ctom |-> [b0en |-> bm.b0.s, b0d |-> bm.d0b.s],
   ack |-> ack, d |-> mem[Place(m.ma0)]]

Acked == YAck(c, CclIn)
ReadData == YData(c, CclIn)
Sy == SnoopOut(c, CclIn)

-------------------------------------------------------------------------------
(* The cpu's data bus (core/datapath.vhm).  A request is held until it is    *)
(* acknowledged, and the next one may follow in the next cycle.  TAS and     *)
(* CAS.L read with the lock raised, hold it, write and drop it; the lock     *)
(* falls with the start of the next slot, which may start a request.  CAS.L  *)
(* drops the lock without a write when it fails.                             *)

ReadRequest(a) == [NullRequest EXCEPT !.en = TRUE, !.a = a]

WriteRequest(a, we, v) ==
  [en |-> TRUE, wr |-> TRUE, a |-> a, we |-> we, d |-> [l \in Lanes |-> v]]

Requests(n) ==
  {ReadRequest(a) : a \in Reads}
    \cup {WriteRequest(q.a, q.we, n) : q \in Writes}

NoAccess ==
  cpu' = [a |-> NullRequest, lock |-> FALSE, tas |-> "none", at |-> Address0,
          n |-> cpu.n]

NewAccess ==
  \/ /\ cpu.n < MaxOps
     /\ \E q \in Requests(cpu.n + 1) :
          cpu' = [a |-> q, lock |-> FALSE, tas |-> "none", at |-> Address0,
                  n |-> cpu.n + 1]
  \/ /\ cpu.n + 1 < MaxOps
     /\ \E a \in TasReads :
          cpu' = [a |-> ReadRequest(a), lock |-> TRUE, tas |-> "read", at |-> a,
                  n |-> cpu.n + 1]

TasWrite ==
  cpu' = [cpu EXCEPT !.a = WriteRequest(cpu.at, {cpu.at.b}, cpu.n + 1),
                     !.tas = "write", !.n = cpu.n + 1]

\* The lock may outlast the write's acknowledge by a cycle.
LockLingers ==
  /\ cpu.lock /\ cpu.a.en
  /\ cpu' = [cpu EXCEPT !.a = NullRequest]

CpuStep ==
  IF cpu.a.en /\ ~Acked THEN UNCHANGED cpu
  ELSE CASE cpu.tas = "read"  -> cpu' = [cpu EXCEPT !.a = NullRequest,
                                                    !.tas = "held"]
         [] cpu.tas = "held"  -> \/ UNCHANGED cpu
                                 \/ TasWrite
                                 \/ CasFail # "never" /\ NoAccess
                                 \/ CasFail = "any" /\ NewAccess
         [] OTHER             -> NoAccess \/ NewAccess \/ LockLingers

\* Software writes the control register over the same bus, so not while it
\* waits for the cache.  The invalidate bit lasts one cycle.
CtrlStep ==
  \/ ctrl' = [ctrl EXCEPT !.inv = FALSE]
  \/ /\ ~cpu.a.en /\ ~cpu.lock
     /\ ctrl.n < MaxCtrl
     /\ \E en, inv \in BOOLEAN : ctrl' = [en |-> en, inv |-> inv, n |-> ctrl.n + 1]

-------------------------------------------------------------------------------
(* The other master.  rem.age[k] is the progress of its k-th write: 0 to     *)
(* come, 1 written, 2 announced (snoop, or invalidate by software), and then *)
(* a count of cpu cycles up to 5, by when the cache no longer answers with   *)
(* the old value.  Snoops are at least two cycles apart, as this cache's own *)
(* are.                                                                      *)

MaySnoop(k) ==
  /\ Snooping
  /\ rem.age[k] = 1
  /\ \A j \in Remotes : j < k => rem.age[j] >= 3

Aged == [k \in Remotes |->
           IF rem.age[k] \in 2 .. 4 THEN rem.age[k] + 1 ELSE rem.age[k]]

Invalidated == [k \in Remotes |-> IF rem.age[k] = 1 THEN 2 ELSE Aged[k]]

SnoopStep ==
  \/ /\ sa' = [sa EXCEPT !.en = FALSE]
     /\ rem' = [rem EXCEPT !.age =
                  IF ctrl'.inv /\ ~Snooping THEN Invalidated ELSE Aged]
  \/ \E k \in Remotes :
       /\ MaySnoop(k)
       /\ sa' = [en |-> TRUE, al |-> rem.line[k]]
       /\ rem' = [rem EXCEPT !.age = [Aged EXCEPT ![k] = 2]]

-------------------------------------------------------------------------------
(* What the properties remember: the cpu's writes not yet performed, in      *)
(* program order; the lines written and not yet announced on sy; the old     *)
(* values a read may still return, each with the remote write that made it   *)
(* old; whether sy was up in the last cycle; and whether a locked read has   *)
(* been done whose write has not.                                            *)

Covers(e, p, l) == e.p = p /\ l \in e.we

\* The value a read must return: the cpu's own last write if it is still on its
\* way, else what memory holds.
Expected(p, l) ==
  LET own_ == {j \in DOMAIN hist.pend : Covers(hist.pend[j], p, l)}
  IN  IF own_ = {} THEN mem[p][l]
      ELSE hist.pend[CHOOSE j \in own_ : \A k \in own_ : k <= j].d[l]

Acceptable(p, l) ==
  {Expected(p, l)} \cup {s.v : s \in {e \in hist.stale : e.p = p /\ e.l = l}}

NewWrite == cpu'.n # cpu.n /\ cpu'.a.wr

\* An old value is out once its snoop is over (for a read under way then: once
\* that is answered), once the cpu has read the new value, and once the cpu has
\* written the lane itself.
StillOld(e) ==
  /\ \/ rem'.age[e.k] < 5
     \/ cpu.a.en /\ ~cpu.a.wr /\ ~Acked /\ Place(cpu.a.a) = e.p
  /\ ~(/\ Acked /\ ~cpu.a.wr /\ Place(cpu.a.a) = e.p
       /\ ReadData[e.l] = Expected(e.p, e.l))
  /\ ~(NewWrite /\ Place(cpu'.a.a) = e.p /\ e.l \in cpu'.a.we)

HistC ==
  hist' = [pend |-> IF NewWrite
                      THEN Append(hist.pend, [p |-> Place(cpu'.a.a),
                                              we |-> cpu'.a.we, d |-> cpu'.a.d])
                      ELSE hist.pend,
           done |-> IF Sy.en /\ hist.done # <<>> THEN Tail(hist.done)
                                                 ELSE hist.done,
           stale |-> {e \in hist.stale : StillOld(e)},
           syen |-> Sy.en,
           tasRead |-> hist.tasRead /\ cpu'.lock]

HistM(ack) ==
  LET write == ack /\ m.mwr IN
  hist' = [hist EXCEPT
             !.pend = IF write /\ @ # <<>> THEN Tail(@) ELSE @,
             !.done = IF write THEN Append(@, Line(m.ma0)) ELSE @,
             !.tasRead = IF write THEN FALSE
                         ELSE @ \/ (ack /\ m.statemcl = "RSG" /\ cpu.lock)]

-------------------------------------------------------------------------------
(* Clock edges.                                                              *)

FsyncCcl(x, st) ==
  bc' = [b0 |-> FsyncC(bc.b0, half.b0, bm.b0.v, B0en(c, st)),
         b2 |-> FsyncC(bc.b2, bc.b2.v, half.b2, B2en(st)),
         b3 |-> [k \in Banks |->
                   FsyncC(bc.b3[k], bc.b3[k].v, bm.b3[k], k \in B3en(c, x, st))],
         d0v |-> IF B0en(c, st) THEN B0d(x, st) ELSE bc.d0v,
         d0s |-> [m |-> bm.d0v, s |-> bc.d0s.m],
         d2s |-> [m |-> IF half.b2 # bc.b2.v THEN JunkWord ELSE bm.d2v,
                  s |-> bc.d2s.m]]

\* ram_1rw and ram_2rw are library cells: a synchronous read, and an output that
\* is not specified after a write.
TagOut(x) == IF TagWrite(c) THEN Tags \X Tags
             ELSE {<<tag[TagIndex(c, x)], tag[SnoopIndex(c, x)]>>}

DataOut(x) == IF ~RamEnable(c, x) THEN ra.d0
              ELSE IF RamWrite(c, x) THEN JunkWord
              ELSE ram[x.a.a.i][RamWord(c, x)]

Rams(x) ==
  /\ tag' = IF TagWrite(c) THEN [tag EXCEPT ![TagIndex(c, x)] = c.ma0.t] ELSE tag
  /\ ram' = IF RamEnable(c, x) /\ RamWrite(c, x)
              THEN [ram EXCEPT ![x.a.a.i][RamWord(c, x)] = Merge(@, x.a.d, x.a.we)]
              ELSE ram
  /\ \E t \in TagOut(x) : ra' = [tag0 |-> t[1], tag1 |-> t[2], d0 |-> DataOut(x)]

CEdge ==
  LET x  == CclIn
      st == NextState(c, x)
  IN
  /\ mEdges >= 1
  /\ half.b0 = bc.b0.v
  /\ mEdges' = 0
  /\ c' = CclNext(c, x)
  /\ FsyncCcl(x, st)
  /\ Rams(x)
  /\ CpuStep
  /\ CtrlStep
  /\ SnoopStep
  /\ HistC
  /\ UNCHANGED <<m, bm, half, mem, own>>

\* clk125 falls: the latch of channel 0 opens.
CLow ==
  /\ half.b0 # bc.b0.v
  /\ half' = [half EXCEPT !.b0 = bc.b0.v]
  /\ UNCHANGED <<c, m, bc, bm, ram, tag, ra, mem, cpu, sa, ctrl, rem, own,
                 mEdges, hist>>

FsyncMcl(x) ==
  bm' = [b0 |-> FsyncM(bm.b0, half.b0, bm.b0.v, M!B0enr(m, x)),
         b2 |-> IF m.b2en THEN bc.b2.v ELSE bm.b2,
         b3 |-> [k \in Banks |-> IF k \in M!B3enr(m, x) THEN bc.b3[k].v
                                                       ELSE bm.b3[k]],
         d0v |-> IF M!B0enrData(m, x) THEN m.b0d_unc ELSE bm.d0v,
         d2v |-> IF m.b2en THEN m.cd ELSE bm.d2v,
         d0b |-> [m |-> bc.d0v, s |-> bm.d0b.m]]

\* The memory (or the bus to it) acknowledges an access in any cycle it likes,
\* and performs it then.
MEdge(ack) ==
  LET x == MclIn(ack) IN
  /\ mEdges < 2
  /\ half.b2 = bm.b2
  /\ half.b0 # bc.b0.v => mEdges = 0
  /\ ack => m.men
  /\ mEdges' = mEdges + 1
  /\ m' = M!MclNext(m, x)
  /\ FsyncMcl(x)
  /\ ram' = IF M!FillWrite(m, x)
              THEN [ram EXCEPT ![m.ma0.i][m.ma0.w] = Merge(@, x.d, m.ry_we1)]
              ELSE ram
  /\ mem' = IF ack /\ m.mwr
              THEN [mem EXCEPT ![Place(m.ma0)] = Merge(@, M!SboutD(m, x), m.sbwe)]
              ELSE mem
  /\ own' = ((own \/ (ack /\ m.mlock)) /\ (m'.men \/ m'.mlock))
  /\ HistM(ack)
  /\ UNCHANGED <<c, bc, half, tag, ra, cpu, sa, ctrl, rem>>

\* clk200 falls: the latch of channel 2 opens.
MLow ==
  /\ half.b2 # bm.b2
  /\ half' = [half EXCEPT !.b2 = bm.b2]
  /\ UNCHANGED <<c, m, bc, bm, ram, tag, ra, mem, cpu, sa, ctrl, rem, own,
                 mEdges, hist>>

\* The other master writes a word of memory, unless the arbiter keeps the bus
\* for this cache's locked access.
RemoteWrite == \E k \in Remotes, p \in RemotePlaces :
  /\ ~own
  /\ rem.age[k] = 0 /\ \A j \in 1 .. k - 1 : rem.age[j] # 0
  /\ rem' = [age |-> [rem.age EXCEPT ![k] = 1],
             line |-> [rem.line EXCEPT ![k] = Line(p)]]
  /\ mem' = [mem EXCEPT ![p] = [l \in Lanes |-> RemoteValue(k)]]
  /\ hist' = [hist EXCEPT !.stale =
                @ \cup {[p |-> p, l |-> l, v |-> Expected(p, l), k |-> k] :
                        l \in Lanes}]
  /\ UNCHANGED <<c, m, bc, bm, half, ram, tag, ra, cpu, sa, ctrl, own, mEdges>>

MemAck  == MEdge(TRUE)
MemWait == MEdge(FALSE)

Next == CEdge \/ CLow \/ MemAck \/ MemWait \/ MLow \/ RemoteWrite

Spec == Init /\ [][Next]_vars

\* Both clocks run for ever, the memory answers an access in the end, and the
\* cpu gets on with a locked read-modify-write.
FairSpec ==
  /\ Spec
  /\ WF_vars(CEdge) /\ WF_vars(CLow) /\ WF_vars(MLow)
  /\ WF_vars(MemAck \/ MemWait) /\ SF_vars(MemAck)
  /\ SF_vars(CEdge /\ cpu.tas = "held" /\ cpu' # cpu)

-------------------------------------------------------------------------------
(* Properties.                                                               *)

WordValues == [Lanes -> Nat]

\* The registers of both controllers, the synchronisers and the RAMs keep their
\* types: enables stay within the lanes of a word, states within the code's.
TypeOK ==
  /\ c.state \in CclStates /\ c.state_del1 \in CclStates
  /\ c.ma0 \in Addresses /\ c.a_prev.a \in Addresses /\ c.sa_al \in Lines
  /\ c.ffv \subseteq Indices /\ c.dw \in WordValues /\ c.sabank_send \in Banks
  /\ m.statemcl \in M!MclStates /\ m.statemwi \in M!MwiStates
  /\ m.ma0 \in Addresses /\ m.reqw \in Words /\ m.sbwe \subseteq Lanes
  /\ m.ry_we1 \subseteq Lanes /\ m.sbdata \in WordValues /\ m.cd \in WordValues
  /\ {bc.b0, bc.b2, bc.b3[0], bc.b3[1], bm.b0} \subseteq FsyncReg
  /\ {bm.b2, bm.b3[0], bm.b3[1], half.b0, half.b2} \subseteq Bit
  /\ {bc.d0v.cmd, bm.d0b.m.cmd, bm.d0b.s.cmd} \subseteq Commands
  /\ tag \in [Indices -> Tags] /\ {ra.tag0, ra.tag1} \subseteq Tags
  /\ \A p \in Places : mem[p] \in WordValues
  /\ \A i \in Indices, w \in Words : ram[i][w] \in WordValues
  /\ cpu.tas \in {"none", "read", "held", "write"} /\ cpu.n \in 0 .. MaxOps
  /\ mEdges \in 0 .. 2

\* Every read is answered with the cpu's own last write to the lane or, failing
\* that, with what memory holds or held until a write of the other master whose
\* snoop the cache has not had three cycles to act on; and never with an older
\* value once a newer one was read.
ReadsAreFresh ==
  (cpu.a.en /\ ~cpu.a.wr /\ Acked) =>
    \A l \in Lanes : ReadData[l] \in Acceptable(Place(cpu.a.a), l)

\* A write on the bus is the oldest write of the program that has not been
\* performed, with its lanes and its data, for as long as it is on the bus.
BusWriteIsOldest ==
  (m.men /\ m.mwr) =>
    /\ hist.pend # <<>>
    /\ Head(hist.pend).p = Place(m.ma0)
    /\ Head(hist.pend).we = m.sbwe
    /\ \A l \in m.sbwe : Head(hist.pend).d[l] = M!SboutD(m, MclIn(FALSE))[l]

\* Every line announced on the snoop output is that of the oldest write that was
\* performed and not announced, and announcements are two cycles apart.
SnoopOutMatches ==
  Sy.en => /\ hist.done # <<>>
           /\ Head(hist.done) = Sy.al
           /\ ~hist.syen

\* While a locked read has been done and its write has not, the bus is kept.
TasAtomic == hist.tasRead => own

\* A channel is only used again once its last use has been answered.
ChannelsFree ==
  LET x == CclIn  st == NextState(c, x) IN
  /\ B0en(c, st) => bm.b0.v = bc.b0.v
  /\ B2en(st) => half.b2 = bc.b2.v
  /\ \A k \in B3en(c, x, st) :
       /\ bm.b3[k] = bc.b3[k].v
       /\ bc.b3[k].m = 0

\* Every access of the cpu is acknowledged in the end.
EveryAccessEnds == cpu.a.en ~> Acked

\* Every write is performed, and every write performed is announced.
WritesDrain == <>[](hist.pend = <<>> /\ hist.done = <<>>)

\* The bus lock does not outlive the cpu's.
LockReleased == (m.mlock /\ ~cpu.lock) ~> ~m.mlock

===============================================================================
