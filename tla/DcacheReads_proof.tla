--------------------------- MODULE DcacheReads_proof ---------------------------
(***************************************************************************)
(* With no other master on the bus every read of the cpu returns its own   *)
(* last store to the lane, or what memory holds, for every cache size and  *)
(* set of accesses, whether the cache is on, off or being switched, and    *)
(* for locked accesses too.                                                *)
(*                                                                         *)
(* The value a lane must have is that of the last store dcache_ccl has     *)
(* taken, else memory's.  The invariant says where that value is: in the   *)
(* data RAM for a valid line, except that the store being asked for may    *)
(* have been written there already; in the part of a line that has been    *)
(* filled; at the RAM's output for the word last looked up; and in the     *)
(* registers of channels 0 and 2 for the word that is on its way.          *)
(***************************************************************************)
EXTENDS DcacheStores_proof

MissStates == {"RMISS1", "RMISS2", "RMISS3", "WMISS1", "WMISS2"}
SingleReads == {"READSGL_NM", "READSGL_LO"}

\* What all the cpu's stores but the one it is asking for have made of a lane.
Behind(p, l) ==
  IF Current /\ Covers(Sent, p, l) THEN Sent.d[l]
  ELSE IF Previous /\ Covers(Buffered, p, l) THEN Buffered.d[l]
  ELSE mem[p][l]

PlaceOf(t, i, w) == [t |-> t, i |-> i, w |-> w]

-------------------------------------------------------------------------------
(* The data RAM.                                                             *)

\* The store the cpu is asking for has been written to the RAM, before its tag is
\* compared.
StoredHere(i, w, l) ==
  /\ cpu.a.en /\ cpu.a.wr /\ ~cpu.lock /\ c.state \notin OffStates
  /\ i = cpu.a.a.i /\ w = cpu.a.a.w /\ l \in cpu.a.we
  /\ ram[i][w][l] = cpu.a.d[l]

\* A valid line that is not being filled holds what its place should.
RamInv == \A i \in c.ffv :
  \/ c.state \in MissStates /\ i = bc.d0v.a.i
  \/ \A w \in Words, l \in Lanes :
       ram[i][w][l] = Behind(PlaceOf(tag[i], i, w), l) \/ StoredHere(i, w, l)

\* From a word of a line on, around its end, and before another.
Between(a, b, w) == IF a <= b THEN a <= w /\ w < b ELSE a <= w \/ w < b

\* The words of a line that a fill has read.
Filled(w) ==
  /\ ~Waiting
  /\ m.statemcl \in M!Filling => Between(m.reqw, m.ma0.w, w)

\* The line being filled: its tag, and the words that are there; of the word a
\* store missed, its own lanes are there from the start.
FillInv ==
  c.state \in MissStates =>
    /\ c.ma0 = bc.d0v.a
    /\ c.state \notin {"RMISS1", "WMISS1"} => tag[bc.d0v.a.i] = bc.d0v.a.t
    /\ \A w \in Words, l \in Lanes :
         (\/ ~Outstanding
          \/ Filled(w)
          \/ bc.d0v.cmd = "WRITEMISS" /\ w = bc.d0v.a.w /\ l \in Sent.we) =>
           ram[bc.d0v.a.i][w][l] = Behind(PlaceOf(bc.d0v.a.t, bc.d0v.a.i, w), l)

\* The registers of a read that dcache_mcl is at work on.
ReadRegs ==
  /\ m.statemcl \in M!Filling =>
       /\ m.ma0.t = bc.d0v.a.t /\ m.ma0.i = bc.d0v.a.i /\ m.reqw = bc.d0v.a.w
       /\ m.mav <=> m.ma0.w = m.reqw
  /\ m.statemcl = "RFILL" => m.ry_we1 = Lanes
  /\ m.statemcl = "WFILL" =>
       m.ry_we1 = IF m.ma0.w = m.reqw THEN Lanes \ Sent.we ELSE Lanes
  /\ m.statemcl = "RSG" => m.ry_we1 = {} /\ m.ma0 = bc.d0v.a

-------------------------------------------------------------------------------
(* The cpu's request and the word at the RAM's output.                       *)

\* The word looked up, and kept while the cpu asks for nothing; the next word once
\* a read has been answered.
Out     == IF RamWordValid(c) THEN ra.d0 ELSE c.dw
OutWord == IF c.pref_inc THEN NextWord(c.a_prev.a.w) ELSE c.a_prev.a.w

OutInv ==
  (c.dc_onm /\ c.a_prev_v /\ ~c.a_prev.wr /\ c.state \notin MissStates) =>
    Out = ram[c.a_prev.a.i][OutWord]

\* The tag looked up is the line's, and the hit found then still is one.
HitInv ==
  (c.dc_onm /\ c.a_prev_v /\ c.state \notin MissStates) =>
    /\ c.aen_del1 => ra.tag0 = tag[c.a_prev.a.i]
    /\ (/\ ~c.aen_del1 \/ ~cpu.a.en
        /\ ~cpu.lock /\ c.c_hitstate /\ c.a_prev.a.i \in c.ffv) =>
         tag[c.a_prev.a.i] = c.a_prev.a.t

\* What a_prev, and the command sent, are to the cpu's request.
AskInv ==
  /\ (c.state = "WMISS2" \/ (c.state = "RMISS3" /\ c.state_del1 # "RMISS2")) =>
       (c.a_prev_v => cpu.a.en)
  /\ c.state \in {"RMISS1", "RMISS2"} \cup OffStates \cup LockStates =>
       cpu.a.a = bc.d0v.a
  /\ (cpu.lock /\ ~cpu.a.en) => ~c.a_prev_v \/ ~c.dc_onm
  /\ (/\ c.dc_onm /\ c.a_prev_v /\ ~c.a_prev.wr /\ ~c.pref_inc
      /\ c.state \notin MissStates) =>
       cpu.a.en /\ ~cpu.a.wr /\ cpu.a.a = c.a_prev.a

\* A locked read drops its line from the cache, and nothing brings it back before
\* the write; switching the cache off drops all lines.
DropInv ==
  /\ (c.dc_onm /\ cpu.tas \in {"held", "write"}) => cpu.at.i \notin c.ffv
  /\ c.state = "RLOCK2" => cpu.a.a.i \notin c.ffv
  /\ c.state = "RLOCK1" => c.ma0 = cpu.a.a
  /\ (cpu.tas \in {"read", "write"} /\ cpu.a.en) => cpu.a.a = cpu.at
  /\ (~c.dc_onm /\ c.state # "IDLE") => c.ffv = {}

\* Nobody else writes.
NoSnoop == sa = [en |-> FALSE, al |-> sa.al] /\ ~c.sa_en_state

-------------------------------------------------------------------------------
(* The words on their way through the channels.                              *)

\* The value the last command's word must have.
Word == [l \in Lanes |-> Behind(Place(bc.d0v.a), l)]

\* On a miss channel 2 becomes busy in step with channel 0, and is free again no
\* later.
InStep ==
  /\ c.rfillv = 0 => c.b2en_r = 0
  /\ bc.b0.s = 0 => bc.b2.s = 0
  /\ bc.b0.m = 0 => bc.b2.m = 0
  /\ half.b2 # bm.b2 => bm.b2 = bc.b2.v
  /\ c.state = "RMISS1" =>
       /\ c.rfillv = 0 /\ bc.b0.s = 0 /\ bc.b0.m = 0
       /\ Outstanding /\ half.b2 # bc.b2.v
  /\ c.state = "RMISS2" =>
       /\ c.b2en_r = c.rfillv
       /\ c.rfillv = 0 => bc.b2.s = bc.b0.s
       /\ (c.rfillv = 0 /\ bc.b0.s = 0) => bc.b2.m = 1 /\ bc.b0.m = 1

\* The critical word of a fill.
Word2Inv ==
  c.state \in {"RMISS1", "RMISS2"} =>
    /\ m.b2en => m.cd = Word
    /\ bm.b2 = bc.b2.v => bm.d2v = Word
    /\ (bc.b2.m = 0 /\ (bc.b2.s = 1 \/ c.b2en_r = 1)) => bc.d2s.m = Word
    /\ (bc.b2.s = 0 /\ c.b2en_r = 1) => bc.d2s.s = Word

\* The word of an uncached read.
Word0Inv ==
  (c.state # "IDLE" /\ bc.d0v.cmd \in SingleReads) =>
    /\ m.rfillv_pre1 => m.b0d_unc = Word
    /\ m.rfillv => bm.d0v = Word
    /\ ~Outstanding => bm.d0v = Word
    /\ (bc.b0.m = 0 /\ (bc.b0.s = 1 \/ c.rfillv = 1)) => bc.d0s.m = Word
    /\ (bc.b0.s = 0 /\ c.rfillv = 1) => bc.d0s.s = Word

LookupInv == AskInv /\ OutInv /\ HitInv /\ DropInv /\ NoSnoop
LineInv   == RamInv /\ FillInv /\ ReadRegs
WordInv   == InStep /\ Word2Inv /\ Word0Inv

ReadInv == LookupInv /\ LineInv /\ WordInv

-------------------------------------------------------------------------------
(* The value a lane must have.                                               *)

\* The place in the queue of the last store to a lane.
LEMMA LastStore ==
  ASSUME NEW S, S \subseteq Nat, NEW j \in S, \A k \in S : k <= j
  PROVE  (CHOOSE i \in S : \A k \in S : k <= i) = j
<1>1. \E i \in S : \A k \in S : k <= i
  OBVIOUS
<1>2. PICK i : i = CHOOSE x \in S : \A k \in S : k <= x
  OBVIOUS
<1>3. i \in S /\ \A k \in S : k <= i
  BY <1>1, <1>2
<1>4. i <= j /\ j <= i /\ i \in Nat /\ j \in Nat
  BY <1>3
<1> QED  BY <1>2, <1>4

\* What a read must return is in the queue's order: the store in the channel, then
\* the buffered one, then memory.
LEMMA ExpectedBehind ==
  ASSUME PendInv, ~Asking
  PROVE  \A p, l : Expected(p, l) = Behind(p, l)
<1> SUFFICES ASSUME NEW p, NEW l PROVE Expected(p, l) = Behind(p, l)
  OBVIOUS
<1>1. PICK B, S, q : B = Buffered /\ S = Sent /\ q = hist.pend
  OBVIOUS
<1> DEFINE Own == {j \in DOMAIN q : Covers(q[j], p, l)}
<1>2. Expected(p, l) = IF Own = {} THEN mem[p][l]
                       ELSE q[CHOOSE j \in Own : \A k \in Own : k <= j].d[l]
  BY <1>1 DEF Expected
<1>3. /\ Behind(p, l) = IF Current /\ Covers(S, p, l) THEN S.d[l]
                        ELSE IF Previous /\ Covers(B, p, l) THEN B.d[l]
                        ELSE mem[p][l]
      /\ q = IF Previous THEN IF Current THEN <<B, S>> ELSE <<B>>
                         ELSE IF Current THEN <<S>> ELSE <<>>
  BY <1>1 DEF Behind, PendInv, Queue
<1>4. CASE Current /\ Covers(S, p, l)
  <2>1. CASE Previous
    <3>1. q = <<B, S>> /\ DOMAIN q = 1 .. 2 /\ q[2] = S
      BY <1>3, <1>4, <2>1
    <3>2. 2 \in Own /\ Own \subseteq Nat /\ \A k \in Own : k <= 2
      BY <1>4, <3>1
    <3> HIDE DEF Own
    <3>3. (CHOOSE j \in Own : \A k \in Own : k <= j) = 2
      BY <3>2, LastStore
    <3> QED  BY <1>2, <1>3, <1>4, <3>1, <3>2, <3>3
  <2>2. CASE ~Previous
    <3>1. q = <<S>> /\ DOMAIN q = 1 .. 1 /\ q[1] = S
      BY <1>3, <1>4, <2>2
    <3>2. 1 \in Own /\ Own \subseteq Nat /\ \A k \in Own : k <= 1
      BY <1>4, <3>1
    <3> HIDE DEF Own
    <3>3. (CHOOSE j \in Own : \A k \in Own : k <= j) = 1
      BY <3>2, LastStore
    <3> QED  BY <1>2, <1>3, <1>4, <3>1, <3>2, <3>3
  <2> QED  BY <2>1, <2>2
<1>5. CASE ~(Current /\ Covers(S, p, l)) /\ Previous /\ Covers(B, p, l)
  <2>1. DOMAIN q \in {1 .. 1, 1 .. 2} /\ q[1] = B /\ (Current => q[2] = S)
        /\ (~Current => DOMAIN q = 1 .. 1)
    BY <1>3, <1>5
  <2>2. 1 \in Own /\ Own \subseteq Nat /\ \A k \in Own : k <= 1
    BY <1>5, <2>1
  <2> HIDE DEF Own
  <2>3. (CHOOSE j \in Own : \A k \in Own : k <= j) = 1
    BY <2>2, LastStore
  <2> QED  BY <1>2, <1>3, <1>5, <2>1, <2>2, <2>3
<1>6. CASE ~(Current /\ Covers(S, p, l)) /\ ~(Previous /\ Covers(B, p, l))
  <2>1. \A j \in DOMAIN q : \/ q[j] = S /\ Current
                            \/ q[j] = B /\ Previous
    BY <1>3
  <2>2. Own = {}
    BY <1>6, <2>1
  <2> QED  BY <1>2, <1>3, <1>6, <2>2
<1> QED  BY <1>4, <1>5, <1>6

\* A cpu clock edge changes it with the store it sends.
LEMMA BehindC ==
  ASSUME CEdge, CoreInv, CpuTypes, StateInv, CpuInv
  PROVE  /\ SendsStore =>
              \A p, l : Behind(p, l)' = IF Covers(Asked, p, l) THEN Asked.d[l]
                                                               ELSE Behind(p, l)
         /\ ~SendsStore => \A p, l : Behind(p, l)' = Behind(p, l)
<1>1. /\ Previous' <=> Previous
      /\ SendsStore => ~Current /\ Current'
      /\ ~SendsStore => (Current' <=> Current)
      /\ Current => ~Sends
      /\ m' = m
  BY CEdgeCurrent
<1>2. Buffered' = Buffered /\ mem' = mem
  BY <1>1 DEF Buffered, CEdge
<1>3. SendsStore => Sent' = Asked
  BY SentIsAsked DEF CoreInv
<1>4. ~Sends => Sent' = Sent
  <2>1. ~Sends => bc'.d0v = bc.d0v
    BY CEdgeParts DEF CSync, CoreInv, Channel0Inv, ChannelTypes
  <2> QED  BY <2>1 DEF Sent
<1>5. PICK B, S, S1 : B = Buffered /\ S = Sent /\ S1 = Sent'
  OBVIOUS
<1>6. \A p, l : Behind(p, l)' = IF Current' /\ Covers(S1, p, l) THEN S1.d[l]
                                ELSE IF Previous /\ Covers(B, p, l) THEN B.d[l]
                                ELSE mem[p][l]
  BY <1>1, <1>2, <1>5 DEF Behind, Covers
<1>7. \A p, l : Behind(p, l) = IF Current /\ Covers(S, p, l) THEN S.d[l]
                               ELSE IF Previous /\ Covers(B, p, l) THEN B.d[l]
                               ELSE mem[p][l]
  BY <1>5 DEF Behind, Covers
<1>8. PICK A : A = Asked
  OBVIOUS
<1> QED  BY <1>1, <1>3, <1>4, <1>5, <1>6, <1>7, <1>8

\* A merged word, lane by lane.
LEMMA MergeLane ==
  ASSUME NEW u, NEW v, NEW we, NEW l \in Lanes
  PROVE  Merge(u, v, we)[l] = IF l \in we THEN v[l] ELSE u[l]
BY DEF Merge

\* What the write on the bus does to memory.
LEMMA BusWrite ==
  ASSUME Inv, StoreInv, MEdge(TRUE), m.mwr
  PROVE  LET e == IF Previous THEN Buffered ELSE Sent IN
         \A p \in Places, l \in Lanes :
           mem'[p][l] = IF Covers(e, p, l) THEN e.d[l] ELSE mem[p][l]
<1>1. /\ m.men
      /\ mem' = [mem EXCEPT ![Place(m.ma0)] = Merge(@, M!SboutD(m, MclIn(TRUE)), m.sbwe)]
      /\ MclInv /\ MclTypes /\ StoreTypes /\ PendInv
  BY DEF MEdge, Inv, CoreInv, TypeInv, StoreInv
<1>2. M!SboutD(m, MclIn(TRUE)) = M!SboutD(m, MclIn(FALSE))
  BY DEF M!SboutD, MclIn
<1>3. /\ hist.pend # <<>>
      /\ Head(hist.pend).p = Place(m.ma0)
      /\ Head(hist.pend).we = m.sbwe
      /\ \A l \in m.sbwe : Head(hist.pend).d[l] = M!SboutD(m, MclIn(FALSE))[l]
  BY <1>1, OldestOnBus DEF BusWriteIsOldest
<1>4. Previous \/ Current
  <2>1. PICK answer : MSync(answer) /\ MMoves(TRUE, answer)
    BY MEdgeParts
  <2>2. CoreInv
    BY DEF Inv
  <2> QED  BY <2>1, <2>2, MBankMoves DEF BankMoves
<1>5. Head(hist.pend) = IF Previous THEN Buffered ELSE Sent
  BY <1>1, <1>4 DEF PendInv, Queue
<1>6. PICK e, D : e = (IF Previous THEN Buffered ELSE Sent) /\ D = M!SboutD(m, MclIn(TRUE))
  OBVIOUS
<1>7. /\ e.p = Place(m.ma0) /\ e.we = m.sbwe
      /\ \A l \in m.sbwe : e.d[l] = D[l]
  BY <1>2, <1>3, <1>5, <1>6
<1>8. mem \in [Places -> WordValues]
  BY <1>1 DEF StoreTypes
<1>9. \A p \in Places : mem'[p] = IF p = e.p THEN Merge(mem[p], D, e.we) ELSE mem[p]
  BY <1>1, <1>6, <1>7, <1>8
<1>10. \A p \in Places, l \in Lanes :
         mem'[p][l] = IF Covers(e, p, l) THEN e.d[l] ELSE mem[p][l]
  <2> TAKE p \in Places, l \in Lanes
  <2>1. Merge(mem[p], D, e.we)[l] = IF l \in e.we THEN D[l] ELSE mem[p][l]
    BY MergeLane
  <2>2. mem'[p] = IF p = e.p THEN Merge(mem[p], D, e.we) ELSE mem[p]
    BY <1>9
  <2>3. l \in e.we => e.d[l] = D[l]
    BY <1>7
  <2> QED  BY <2>1, <2>2, <2>3 DEF Covers
<1> QED  BY <1>6, <1>10

\* A memory clock edge leaves it as it is: a store only moves on.
LEMMA BehindM ==
  ASSUME NEW ack \in BOOLEAN, MEdge(ack), Inv, StoreInv
  PROVE  \A p \in Places, l \in Lanes : Behind(p, l)' = Behind(p, l)
<1>1. PICK answer : MSync(answer) /\ MMoves(ack, answer)
  BY MEdgeParts
<1>2. CoreInv /\ HistShape /\ RegInv
  BY DEF Inv, StoreInv
<1>3. WEffects(ack) /\ MclInv
  BY <1>2, MEdgeWEffects DEF CoreInv
<1>4. Sent' = Sent
  BY <1>3 DEF Sent, WEffects
<1>5. BankMoves(m.mwr /\ ack)
  BY <1>1, <1>2, MBankMoves
<1>6. (Previous /\ Previous') => Buffered' = Buffered
  BY <1>1, <1>3, RegistersStay DEF Previous, Buffered, M!Writing
<1>7. (~Previous /\ Previous') => Buffered' = Sent
  BY <1>1, <1>2, <1>3, RegistersMatch DEF Previous, Buffered, Sent, M!Writing
<1>8. PICK B, B1, S : B = Buffered /\ B1 = Buffered' /\ S = Sent
  OBVIOUS
<1>9. \A p, l : /\ Behind(p, l)' = IF Current' /\ Covers(S, p, l) THEN S.d[l]
                                   ELSE IF Previous' /\ Covers(B1, p, l) THEN B1.d[l]
                                   ELSE mem'[p][l]
                /\ Behind(p, l) = IF Current /\ Covers(S, p, l) THEN S.d[l]
                                  ELSE IF Previous /\ Covers(B, p, l) THEN B.d[l]
                                  ELSE mem[p][l]
  BY <1>4, <1>8 DEF Behind, Covers
<1>10. CASE m.mwr /\ ack
  <2>1. ack = TRUE
    BY <1>10
  <2>2. PICK e : /\ e = IF Previous THEN B ELSE S
                 /\ \A p \in Places, l \in Lanes :
                      mem'[p][l] = IF Covers(e, p, l) THEN e.d[l] ELSE mem[p][l]
    BY <1>8, <1>10, <2>1, BusWrite
  <2>3. \/ Previous /\ ~Previous' /\ (Current' <=> Current)
        \/ ~Previous /\ ~Previous' /\ Current /\ ~Current'
    BY <1>5, <1>10 DEF BankMoves
  <2> QED  BY <1>9, <2>2, <2>3
<1>11. CASE ~(m.mwr /\ ack)
  <2>1. mem' = mem
    BY <1>11 DEF MEdge
  <2>2. \/ (Previous' <=> Previous) /\ (Current' <=> Current) /\ (Previous => B1 = B)
        \/ ~Previous /\ Previous' /\ Current /\ ~Current' /\ B1 = S
    BY <1>5, <1>6, <1>7, <1>8, <1>11 DEF BankMoves
  <2> QED  BY <1>9, <2>1, <2>2
<1> QED  BY <1>10, <1>11

\* The latches have no part in it.
LEMMA BehindOther ==
  ASSUME Inv, HistShape, CLow \/ MLow \/ UNCHANGED vars
  PROVE  \A p, l : Behind(p, l)' = Behind(p, l)
<1>1. /\ c' = c /\ m' = m /\ bc' = bc /\ mem' = mem
      /\ (Previous' <=> Previous) /\ (Current' <=> Current)
  BY StoresUntouched DEF CLow, MLow, vars
<1>2. Sent' = Sent /\ Buffered' = Buffered
  BY <1>1 DEF Sent, Buffered
<1> QED  BY <1>1, <1>2 DEF Behind, Covers

-------------------------------------------------------------------------------
(* A cpu clock edge, seen from the lookup, the RAMs and the channels' words. *)

\* The tag of the request's line has been read; it is a hit; the read is answered
\* as one, and the next word read ahead; the critical word is there.
Near     == c.a_prev_v /\ Line(c.a_prev.a) = Line(cpu.a.a)
Hit      == CacheHit(c, CclIn)
Ahead    == ReadsAhead(c, CclIn)
Critical == c.b2en_r = 1 /\ bc.b2.s = 0

\* The RAM is read or written; a store is written to it; a line's tag is.
Looks     == ~(c.state = "RMISS2" \/ (c.state \in {"RMISS3", "WMISS2"} /\ ~Answered))
Stores    == cpu.a.en /\ cpu.a.wr /\ ~cpu.lock /\ c.state \in {"IDLE", "SB1", "SB2"}
WritesTag  == c.state \in {"RMISS1", "WMISS1"}

LookupCEffects ==
  /\ c'.state = Goes /\ c'.state_del1 = c.state
  /\ c'.ma0 = IF Goes \in {"RMISS1", "WMISS1", "RLOCK1"} THEN cpu.a.a ELSE c.ma0
  /\ c'.a_prev = IF cpu.a.en THEN [wr |-> cpu.a.wr, a |-> cpu.a.a] ELSE c.a_prev
  /\ c'.a_prev_v <=> /\ c.dc_onm
                     /\ ~(c.state = "RMISS3" /\ c.state_del1 = "RMISS2")
                     /\ c.state # "WMISS1"
                     /\ ~(Answered /\ c.state \in {"RLOCK2", "WUNCA2"})
                     /\ cpu.a.en \/ c.a_prev_v
  /\ c'.c_hitstate => c.dc_onm /\ (IF cpu.a.en THEN Hit ELSE c.c_hitstate)
  /\ c'.pref_inc <=> /\ c.dc_onm
                     /\ c.state \notin {"RMISS2", "RMISS3", "WMISS2"}
                     /\ IF cpu.a.en THEN Ahead ELSE c.pref_inc
  /\ c'.aen_del1 <=> (cpu.a.en /\ ~cpu.lock)
  /\ RamWordValid(c)' <=> (cpu.a.en /\ ~cpu.a.wr /\ Looks)
  /\ c'.dw = Out
  /\ c.dc_onm => c'.ffv \subseteq (c.ffv \cup (IF WritesTag THEN {c.ma0.i} ELSE {}))
                                     \ (IF c.state = "RLOCK1" THEN {c.ma0.i} ELSE {})
  /\ ~c.dc_onm => c'.ffv = {}
  /\ c'.dc_onm = IF Goes = "IDLE" THEN ctrl.en ELSE c.dc_onm
  /\ c'.rfillv = bc.b0.s /\ c'.b2en_r = bc.b2.s
  /\ CpuStep

\* dcache_ccl's registers after the edge.
LEMMA CEdgeLookup ==
  ASSUME MaxRemote = 0, CEdge, NoSnoop
  PROVE  LookupCEffects /\ NoSnoop'
<1>1. PICK x : x = CclIn
  OBVIOUS
<1>2. /\ x.a = cpu.a /\ x.a_lock = cpu.lock /\ x.sa = sa /\ x.ctrl = ctrl /\ x.ra = ra
      /\ x.mtoc.b0enr = bc.b0.s /\ x.mtoc.b2enr = bc.b2.s
      /\ x.mtoc.b0d_unc = bc.d0s.s /\ x.mtoc.b2d_cfil = bc.d2s.s
  BY <1>1 DEF CclIn
<1>3. c' = CclNext(c, x) /\ CpuStep
  BY <1>1 DEF CEdge
<1>4. Goes = NextState(c, x)
  BY <1>1 DEF Goes
<1>5. ~sa.en /\ ~CacheHitSnoop(c, x)
  BY DEF CacheHitSnoop, NoSnoop
<1>6. MemTransAck(c, x) <=> Answered
  BY <1>1, CclSignals
<1>7. /\ c'.state = Goes /\ c'.state_del1 = c.state
      /\ c'.ma0 = IF Goes \in {"RMISS1", "WMISS1", "RLOCK1"} THEN x.a.a ELSE c.ma0
      /\ c'.a_prev = IF x.a.en THEN [wr |-> x.a.wr, a |-> x.a.a] ELSE c.a_prev
      /\ c'.a_prev_v = APrevV(c, x)
      /\ c'.c_hitstate = CHitState(c, x)
      /\ c'.pref_inc = PrefInc(c, x)
      /\ c'.aen_del1 = (x.a.en /\ ~x.a_lock)
      /\ c'.aenrd_del1 = (x.a.en /\ ~x.a.wr)
      /\ c'.dw = IF RamWordValid(c) THEN x.ra.d0 ELSE c.dw
      /\ c'.ry_en0 = RamEnable(c, x)
      /\ c'.ffv = Ffv(c, x)
      /\ c'.rfillv = x.mtoc.b0enr /\ c'.b2en_r = x.mtoc.b2enr
      /\ c'.dc_onm = DcOnm(c, x, Goes)
      /\ c'.sa_en_state = SaEnState(c, x)
  BY <1>3, <1>4 DEF CclNext
<1>8. c'.a_prev_v <=> /\ c.dc_onm
                      /\ ~(c.state = "RMISS3" /\ c.state_del1 = "RMISS2")
                      /\ c.state # "WMISS1"
                      /\ ~(Answered /\ c.state \in {"RLOCK2", "WUNCA2"})
                      /\ cpu.a.en \/ c.a_prev_v
  BY <1>2, <1>5, <1>6, <1>7 DEF APrevV
<1>9. c'.c_hitstate => c.dc_onm /\ (IF cpu.a.en THEN Hit ELSE c.c_hitstate)
  BY <1>1, <1>2, <1>7 DEF CHitState, Hit
<1>10. c'.pref_inc <=> /\ c.dc_onm
                       /\ c.state \notin {"RMISS2", "RMISS3", "WMISS2"}
                       /\ IF cpu.a.en THEN Ahead ELSE c.pref_inc
  BY <1>1, <1>2, <1>7 DEF PrefInc, Ahead
<1>11. RamWordValid(c)' <=> (cpu.a.en /\ ~cpu.a.wr /\ Looks)
  BY <1>2, <1>6, <1>7 DEF RamWordValid, RamEnable, Looks
<1>12. /\ c.dc_onm => c'.ffv \subseteq (c.ffv \cup (IF WritesTag THEN {c.ma0.i} ELSE {}))
                                          \ (IF c.state = "RLOCK1" THEN {c.ma0.i} ELSE {})
       /\ ~c.dc_onm => c'.ffv = {}
  BY <1>5, <1>7 DEF Ffv, TagWrite, WritesTag
<1>13. c'.dw = Out /\ c'.dc_onm = IF Goes = "IDLE" THEN ctrl.en ELSE c.dc_onm
  BY <1>2, <1>7 DEF Out, DcOnm
<1>14. NoSnoop'
  <2>1. Remotes = {} /\ SnoopStep
    BY DEF Remotes, CEdge
  <2>2. sa' = [sa EXCEPT !.en = FALSE]
    BY <2>1 DEF SnoopStep
  <2>3. sa' = [en |-> FALSE, al |-> sa'.al]
    BY <2>2 DEF NoSnoop
  <2>4. ~c'.sa_en_state
    BY <1>2, <1>5, <1>7 DEF SaEnState, NoSnoop
  <2> QED  BY <2>3, <2>4 DEF NoSnoop
<1>15. LookupCEffects
  BY <1>2, <1>3, <1>7, <1>8, <1>9, <1>10, <1>11, <1>12, <1>13 DEF LookupCEffects
<1> QED  BY <1>14, <1>15

RamCEffects ==
  /\ tag' = IF WritesTag
              THEN [tag EXCEPT ![IF c.state = "WMISS1" THEN c.ma0.i ELSE cpu.a.a.i] = c.ma0.t]
              ELSE tag
  /\ ram' = IF Stores
              THEN [ram EXCEPT ![cpu.a.a.i][cpu.a.a.w] = Merge(@, cpu.a.d, cpu.a.we)]
              ELSE ram
  /\ ~WritesTag => ra'.tag0 = tag[cpu.a.a.i]
  /\ (Looks /\ ~cpu.a.wr) =>
       ra'.d0 = ram[cpu.a.a.i][IF Ahead THEN NextWord(cpu.a.a.w) ELSE cpu.a.a.w]

\* The RAMs and their outputs after the edge.
LEMMA CEdgeRams ==
  ASSUME CEdge
  PROVE  RamCEffects
<1>1. PICK x : x = CclIn
  OBVIOUS
<1>2. x.a = cpu.a /\ x.a_lock = cpu.lock
  BY <1>1 DEF CclIn
<1>3. Rams(x)
  BY <1>1 DEF CEdge
<1>4. MemTransAck(c, x) <=> Answered
  BY <1>1, CclSignals
<1>5. /\ RamEnable(c, x) <=> Looks
      /\ (RamEnable(c, x) /\ RamWrite(c, x)) <=> Stores
      /\ TagWrite(c) <=> WritesTag
      /\ ReadsAhead(c, x) <=> Ahead
  BY <1>1, <1>2, <1>4 DEF RamEnable, RamWrite, Looks, Stores, TagWrite, WritesTag, Ahead
<1>6. Stores => RamWord(c, x) = cpu.a.a.w
  BY <1>2 DEF RamWord, ReadsAhead, Stores
<1>7. tag' = IF WritesTag
               THEN [tag EXCEPT ![IF c.state = "WMISS1" THEN c.ma0.i ELSE cpu.a.a.i] = c.ma0.t]
               ELSE tag
  BY <1>2, <1>3, <1>5 DEF Rams, TagIndex
<1>8. ram' = IF Stores
               THEN [ram EXCEPT ![cpu.a.a.i][cpu.a.a.w] = Merge(@, cpu.a.d, cpu.a.we)]
               ELSE ram
  BY <1>2, <1>3, <1>5, <1>6 DEF Rams
<1>9. PICK t \in TagOut(x) : ra' = [tag0 |-> t[1], tag1 |-> t[2], d0 |-> DataOut(x)]
  BY <1>3 DEF Rams
<1>10. ~WritesTag => ra'.tag0 = tag[cpu.a.a.i]
  <2> SUFFICES ASSUME ~WritesTag PROVE ra'.tag0 = tag[cpu.a.a.i]
    OBVIOUS
  <2>1. TagIndex(c, x) = cpu.a.a.i
    BY <1>2 DEF TagIndex, WritesTag
  <2>2. t = <<tag[cpu.a.a.i], tag[SnoopIndex(c, x)]>>
    BY <1>5, <2>1 DEF TagOut
  <2> QED  BY <1>9, <2>2
<1>11. (Looks /\ ~cpu.a.wr) =>
         ra'.d0 = ram[cpu.a.a.i][IF Ahead THEN NextWord(cpu.a.a.w) ELSE cpu.a.a.w]
  <2> SUFFICES ASSUME Looks, ~cpu.a.wr
               PROVE  ra'.d0 = ram[cpu.a.a.i][IF Ahead THEN NextWord(cpu.a.a.w)
                                                       ELSE cpu.a.a.w]
    OBVIOUS
  <2>1. RamEnable(c, x) /\ ~RamWrite(c, x)
    BY <1>2, <1>5 DEF RamWrite
  <2>2. RamWord(c, x) = IF Ahead THEN NextWord(cpu.a.a.w) ELSE cpu.a.a.w
    BY <1>2, <1>5 DEF RamWord
  <2>3. DataOut(x) = ram[cpu.a.a.i][RamWord(c, x)]
    BY <1>2, <2>1 DEF DataOut
  <2> QED  BY <1>9, <2>2, <2>3
<1> QED  BY <1>7, <1>8, <1>10, <1>11 DEF RamCEffects

WordCEffects ==
  /\ bc'.d0v.cmd = IF Sends THEN Cmd(CclIn, Goes) ELSE bc.d0v.cmd
  /\ Sends => bc'.d0v.a = cpu.a.a
  /\ ~Sends => bc'.d0v = bc.d0v
  /\ half.b0 = bc.b0.v
  /\ bc'.b0.v = (IF Sends THEN 1 - bm.b0.v ELSE bc.b0.v)
  /\ bc'.b0.m = (IF Outstanding THEN 1 ELSE 0) /\ bc'.b0.s = bc.b0.m
  /\ bc'.b2.v = (IF B2en(Goes) THEN 1 - half.b2 ELSE bc.b2.v)
  /\ bc'.b2.m = (IF half.b2 = bc.b2.v THEN 0 ELSE 1) /\ bc'.b2.s = bc.b2.m
  /\ bc'.d0s.m = bm.d0v /\ bc'.d0s.s = bc.d0s.m
  /\ half.b2 = bc.b2.v => bc'.d2s.m = bm.d2v
  /\ bc'.d2s.s = bc.d2s.m
  /\ m' = m /\ bm' = bm /\ half' = half

\* The cpu side of channels 0 and 2 after the edge.
LEMMA CEdgeWords ==
  ASSUME CEdge, ChannelTypes, SyncTypes
  PROVE  WordCEffects
<1>1. PICK x, st : x = CclIn /\ st = Goes
  OBVIOUS
<1>2. FsyncCcl(x, st) /\ half.b0 = bc.b0.v /\ m' = m /\ bm' = bm /\ half' = half
  BY <1>1 DEF CEdge, Goes
<1>3. /\ bc'.b0 = FsyncC(bc.b0, half.b0, bm.b0.v, B0en(c, st))
      /\ bc'.b2 = FsyncC(bc.b2, bc.b2.v, half.b2, B2en(st))
      /\ bc'.d0v = IF B0en(c, st) THEN B0d(x, st) ELSE bc.d0v
      /\ bc'.d0s = [m |-> bm.d0v, s |-> bc.d0s.m]
      /\ bc'.d2s = [m |-> IF half.b2 # bc.b2.v THEN JunkWord ELSE bm.d2v, s |-> bc.d2s.m]
  BY <1>2 DEF FsyncCcl
<1>4. B0en(c, st) <=> Sends
  BY <1>1 DEF Sends
<1>5. x.a = cpu.a
  BY <1>1 DEF CclIn
<1>6. Sends => bc'.d0v.a = cpu.a.a /\ bc'.d0v.cmd = Cmd(x, st)
  BY <1>3, <1>4, <1>5 DEF B0d
<1>7. /\ bc.b0.v \in Bit /\ bc.b2.v \in Bit /\ bm.b0.v \in Bit /\ half.b0 \in Bit
      /\ half.b2 \in Bit
  BY DEF ChannelTypes, SyncTypes, FsyncReg
<1>8. /\ bc'.b0.v = (IF Sends THEN 1 - bm.b0.v ELSE bc.b0.v)
      /\ bc'.b0.m = (IF Outstanding THEN 1 ELSE 0) /\ bc'.b0.s = bc.b0.m
  BY <1>2, <1>3, <1>4 DEF FsyncC, Not, Xor, Outstanding
<1>9. /\ bc'.b2.v = (IF B2en(st) THEN 1 - half.b2 ELSE bc.b2.v)
      /\ bc'.b2.m = (IF half.b2 = bc.b2.v THEN 0 ELSE 1) /\ bc'.b2.s = bc.b2.m
  BY <1>3 DEF FsyncC, Not, Xor
<1> QED  BY <1>1, <1>2, <1>3, <1>4, <1>6, <1>8, <1>9 DEF WordCEffects

-------------------------------------------------------------------------------
(* The lookup over a cpu clock edge.                                         *)

\* What an access that is acknowledged with the cache on has been: a miss whose
\* word is there, an access with the lock, or one whose tag has been read.
LEMMA AckedOn ==
  ASSUME CclInv, CpuInv, StateInv, c.dc_onm, cpu.a.en, Acked
  PROVE  \/ /\ c.state = "RMISS2" /\ Critical /\ ~cpu.a.wr
            /\ Goes = "RMISS3"
         \/ c.state \in {"RLOCK2", "WUNCA2"} /\ Answered
         \/ /\ c.state \in {"IDLE", "SB2"} /\ ~cpu.lock /\ Near
            /\ cpu.a.wr \/ (Ahead /\ Hit /\ AdrsRSeqEqu(c, CclIn))
<1> USE CclSignals
<1>1. CriticalWord(c, CclIn) <=> Critical
  BY DEF CriticalWord, CclIn, Critical
<1>2. AdrsEquCacheLi(c, CclIn) <=> Near
  BY DEF AdrsEquCacheLi, Near
<1>3. YAckI1(c, CclIn) \/ YAckI2(c, CclIn) \/ (YAckD(c, CclIn) /\ Hit)
  BY DEF Acked, YAck, Hit
<1>4. CASE YAckI1(c, CclIn)
  <2>1. CASE c.state = "RMISS2" /\ Critical
    <3>1. Goes = "RMISS3"
      BY <1>1, <2>1 DEF Goes, NextState, NextStateOn
    <3> QED  BY <2>1, <3>1 DEF CpuInv
  <2>2. CASE ~(c.state = "RMISS2" /\ Critical)
    BY <1>1, <1>2, <1>4, <2>2 DEF YAckI1
  <2> QED  BY <2>1, <2>2
<1>5. CASE YAckI2(c, CclIn)
  BY <1>5 DEF YAckI2
<1>6. CASE YAckD(c, CclIn) /\ Hit
  <2>1. c.state \in {"IDLE", "SB2"} /\ ~cpu.lock /\ ~cpu.a.wr /\ AdrsRSeqEqu(c, CclIn)
    BY <1>6 DEF YAckD
  <2>2. Near /\ Ahead
    BY <1>2, <1>6, <2>1 DEF AdrsRSeqEqu, Ahead, ReadsAhead
  <2> QED  BY <1>6, <2>1, <2>2
<1> QED  BY <1>3, <1>4, <1>5, <1>6

\* With the cache off it has been answered by the memory half.
LEMMA AckedOff ==
  ASSUME ~c.dc_onm, Acked
  PROVE  c.state = "OFF2" /\ Answered
BY CclSignals DEF Acked, YAck

\* How the cpu takes and drops the lock.
LEMMA CpuLocks ==
  ASSUME CpuStep, CpuTypes, CpuInv
  PROVE  /\ (cpu'.lock /\ ~cpu'.a.en) => cpu.lock
         /\ cpu'.tas \in {"held", "write"} =>
              /\ cpu'.at = cpu.at
              /\ cpu.tas \in {"held", "write"} \/ (cpu.tas = "read" /\ Acked)
         /\ (cpu'.tas \in {"read", "write"} /\ cpu'.a.en) =>
              \/ cpu'.a.a = cpu'.at
              \/ cpu' = cpu
<1> USE DEF CpuInv
<1>0. /\ ~NullRequest.en /\ ~NullRequest.wr
      /\ cpu = [a |-> cpu.a, lock |-> cpu.lock, tas |-> cpu.tas, at |-> cpu.at, n |-> cpu.n]
      /\ cpu.tas \in {"none", "read", "held", "write"}
  BY DEF NullRequest, CpuTypes
<1>1. CASE cpu.a.en /\ ~Acked
  <2>1. cpu' = cpu
    BY <1>1 DEF CpuStep
  <2>2. CASE cpu.tas # "read"
    BY <1>0, <1>1, <2>1, <2>2
  <2>3. CASE cpu.tas = "read"
    BY <1>0, <1>1, <2>1, <2>3
  <2> QED  BY <2>2, <2>3
<1>2. CASE ~(cpu.a.en /\ ~Acked) /\ NoAccess
  BY <1>0, <1>2 DEF NoAccess
<1>3. CASE ~(cpu.a.en /\ ~Acked) /\ NewAccess
  <2>1. CASE \E q \in Requests(cpu.n + 1) :
               cpu' = [a |-> q, lock |-> FALSE, tas |-> "none", at |-> Address0,
                       n |-> cpu.n + 1]
    BY <2>1
  <2>2. CASE \E a \in TasReads :
               cpu' = [a |-> ReadRequest(a), lock |-> TRUE, tas |-> "read", at |-> a,
                       n |-> cpu.n + 1]
    <3>1. PICK a \in TasReads :
               cpu' = [a |-> ReadRequest(a), lock |-> TRUE, tas |-> "read", at |-> a,
                       n |-> cpu.n + 1]
      BY <2>2
    <3>2. ReadRequest(a).en /\ ReadRequest(a).a = a
      BY DEF ReadRequest, NullRequest
    <3> QED  BY <3>1, <3>2
  <2> QED  BY <1>3, <2>1, <2>2 DEF NewAccess
<1>4. CASE cpu.tas = "held" /\ TasWrite
  <2>1. /\ cpu'.a = WriteRequest(cpu.at, {cpu.at.b}, cpu.n + 1)
        /\ cpu'.tas = "write" /\ cpu'.lock = cpu.lock /\ cpu'.at = cpu.at
    BY <1>0, <1>4 DEF TasWrite
  <2>2. cpu'.a.en /\ cpu'.a.a = cpu.at
    BY <2>1 DEF WriteRequest
  <2> QED  BY <1>4, <2>1, <2>2
<1>5. CASE ~(cpu.a.en /\ ~Acked) /\ LockLingers /\ cpu.tas \notin {"read", "held"}
  BY <1>0, <1>5 DEF LockLingers
<1>6. CASE ~(cpu.a.en /\ ~Acked) /\ cpu.tas = "read"
  BY <1>0, <1>6 DEF CpuStep
<1>7. CASE ~(cpu.a.en /\ ~Acked) /\ cpu.tas = "held" /\ UNCHANGED cpu
  BY <1>0, <1>7
<1> QED  BY <1>0, <1>1, <1>2, <1>3, <1>4, <1>5, <1>6, <1>7 DEF CpuStep

\* A fill is not answered before its critical word.
LEMMA WordFirst ==
  ASSUME InStep, c.state = "RMISS2", Answered
  PROVE  Critical
BY DEF InStep, Answered, Critical

\* Where a line being filled leads: the fill goes on, or its end has been answered.
LEMMA MissMoves ==
  ASSUME CclInv, InStep, c.state \in MissStates
  PROVE  /\ ~Sends
         /\ Goes \notin MissStates =>
              Goes = "IDLE" /\ Answered /\ c.state \in {"RMISS3", "WMISS2"}
         /\ Goes \in MissStates => Goes \in {"RMISS2", "RMISS3", "WMISS2"}
<1>1. c.state # "IDLE" /\ c.dc_onm
  BY DEF MissStates, CclInv, OnStates
<1>2. /\ c.state = "RMISS1" => Goes = "RMISS2"
      /\ c.state = "WMISS1" => Goes = "WMISS2"
      /\ c.state = "RMISS2" => (Critical => Goes = "RMISS3")
  BY <1>1 DEF Goes, NextState, NextStateOn, CriticalWord, CclIn, Critical
<1>3. c.state = "RMISS2" => (Answered => Critical)
  BY WordFirst
<1>4. ~Sends /\ (Goes = "IDLE" => Answered)
      /\ Goes \in {"IDLE", "RMISS2", "RMISS3", "WMISS2"}
  BY <1>1, FromBusy DEF MissStates
<1> QED  BY <1>2, <1>3, <1>4 DEF MissStates

\* A fill begins from IDLE or after the store buffer's answer.
LEMMA MissBegins ==
  ASSUME CclInv, c.state \notin MissStates, Goes \in MissStates
  PROVE  /\ Sends /\ c.dc_onm /\ cpu.a.en
         /\ \/ Goes = "RMISS1" /\ ~cpu.a.wr /\ c.state = "IDLE" /\ ~cpu.lock
            \/ Goes = "WMISS1" /\ cpu.a.wr /\ c.state \in {"IDLE", "SB2"}
<1>1. CASE c.state = "IDLE"
  BY <1>1, FromIdle DEF MissStates
<1>2. CASE c.state # "IDLE"
  <2>1. Goes = "WMISS1" /\ Sends /\ cpu.a.wr /\ c.state = "SB2" /\ c.dc_onm
    BY <1>2, FromBusy DEF MissStates
  <2>2. cpu.a.en
    BY <2>1, CclSignals DEF Goes, NextState, NextStateOn, Sb2Acked
  <2> QED  BY <2>1, <2>2
<1> QED  BY <1>1, <1>2

\* With nothing asked for, a fill that ends has no lookup to keep.
LEMMA LookupLost ==
  ASSUME LookupCEffects, CclInv, CpuInv, InStep, AskInv,
         c.state \in MissStates, Goes \notin MissStates, c'.a_prev_v
  PROVE  cpu.a.en /\ Goes = "IDLE" /\ Answered /\ c.state \in {"RMISS3", "WMISS2"}
<1>1. Goes = "IDLE" /\ Answered /\ c.state \in {"RMISS3", "WMISS2"}
  BY MissMoves
<1>2. ~(c.state = "RMISS3" /\ c.state_del1 = "RMISS2") /\ (cpu.a.en \/ c.a_prev_v)
  BY DEF LookupCEffects
<1>3. c.a_prev_v => cpu.a.en
  BY <1>1, <1>2 DEF AskInv
<1> QED  BY <1>1, <1>2, <1>3

\* a_prev and the command sent keep to the cpu's request.
LEMMA CEdgeAsk ==
  ASSUME CEdge, CclInv, CpuTypes, StateInv, CpuInv, InStep, AskInv, LookupCEffects,
         WordCEffects
  PROVE  AskInv'
<1>1. c'.state = Goes /\ CpuStep /\ c'.state_del1 = c.state
  BY DEF LookupCEffects
<1>2. (Goes = "WMISS2" \/ (Goes = "RMISS3" /\ c.state # "RMISS2")) =>
        (c'.a_prev_v => cpu'.a.en)
  <2> SUFFICES ASSUME Goes = "WMISS2" \/ (Goes = "RMISS3" /\ c.state # "RMISS2"), c'.a_prev_v
               PROVE  cpu'.a.en
    OBVIOUS
  <2>1. c.state \in {"WMISS1", "WMISS2", "RMISS1", "RMISS3"} /\ c.dc_onm
    BY FromIdle, FromBusy DEF CclInv, OnStates
  <2>2. c.state # "RMISS1"
    BY <2>1 DEF Goes, NextState, NextStateOn
  <2>3. /\ c.state # "WMISS1" /\ ~(c.state = "RMISS3" /\ c.state_del1 = "RMISS2")
        /\ cpu.a.en \/ c.a_prev_v
    BY DEF LookupCEffects
  <2>4. cpu.a.en
    BY <2>1, <2>2, <2>3 DEF AskInv
  <2>5. ~Acked
    BY <2>1, <2>2, <2>3, <2>4, AckedOn
  <2> QED  BY <1>1, <2>4, <2>5 DEF CpuStep
<1>3. Goes \in {"RMISS1", "RMISS2"} \cup OffStates \cup LockStates => cpu'.a.a = bc'.d0v.a
  <2> SUFFICES ASSUME Goes \in {"RMISS1", "RMISS2"} \cup OffStates \cup LockStates
               PROVE  cpu'.a.a = bc'.d0v.a
    OBVIOUS
  <2>1. cpu' = cpu
    BY <1>1, MissWaits, UncachedWaits
  <2>2. CASE Sends
    BY <2>1, <2>2 DEF WordCEffects
  <2>3. CASE ~Sends
    <3>1. c.state \in {"RMISS1", "RMISS2", "RMISS3"} \cup OffStates \cup LockStates
      BY <2>3, FromIdle, FromBusy DEF OffStates, LockStates
    <3>2. c.state # "RMISS3"
      BY <2>3 DEF Goes, NextState, NextStateOn, CclInv, OnStates, OffStates, LockStates
    <3> QED  BY <2>1, <2>3, <3>1, <3>2 DEF AskInv, WordCEffects
  <2> QED  BY <2>2, <2>3
<1>4. (cpu'.lock /\ ~cpu'.a.en) => ~c'.a_prev_v \/ ~c'.dc_onm
  <2> SUFFICES ASSUME cpu'.lock, ~cpu'.a.en, c'.a_prev_v PROVE FALSE
    OBVIOUS
  <2>1. cpu.lock
    BY <1>1, CpuLocks
  <2>2. /\ c.dc_onm /\ (cpu.a.en \/ c.a_prev_v)
        /\ ~(Answered /\ c.state \in {"RLOCK2", "WUNCA2"})
    BY DEF LookupCEffects
  <2>3. cpu.a.en
    BY <2>1, <2>2 DEF AskInv
  <2>4. Acked
    BY <1>1, <2>3 DEF CpuStep
  <2>5. c.state # "RMISS2"
    BY <2>1 DEF CpuInv
  <2> QED  BY <2>1, <2>2, <2>3, <2>4, <2>5, AckedOn
<1>5. (/\ c'.dc_onm /\ c'.a_prev_v /\ ~c'.a_prev.wr /\ ~c'.pref_inc
       /\ Goes \notin MissStates) =>
        cpu'.a.en /\ ~cpu'.a.wr /\ cpu'.a.a = c'.a_prev.a
  <2> SUFFICES ASSUME c'.a_prev_v, ~c'.a_prev.wr, ~c'.pref_inc, Goes \notin MissStates
               PROVE  cpu'.a.en /\ ~cpu'.a.wr /\ cpu'.a.a = c'.a_prev.a
    OBVIOUS
  <2>1. /\ c.dc_onm /\ (cpu.a.en \/ c.a_prev_v)
        /\ ~(Answered /\ c.state \in {"RLOCK2", "WUNCA2"})
        /\ \/ c.state \in {"RMISS2", "RMISS3", "WMISS2"}
           \/ ~(IF cpu.a.en THEN Ahead ELSE c.pref_inc)
        /\ c'.a_prev = IF cpu.a.en THEN [wr |-> cpu.a.wr, a |-> cpu.a.a] ELSE c.a_prev
    BY DEF LookupCEffects
  <2>2. CASE cpu.a.en
    <3>1. ~cpu.a.wr /\ c'.a_prev.a = cpu.a.a
      BY <2>1, <2>2
    <3>2. ~Acked
      <4> SUFFICES ASSUME Acked PROVE FALSE
        OBVIOUS
      <4>1. c.state \in {"IDLE", "SB2"} /\ Ahead
        BY <2>1, <2>2, <3>1, AckedOn DEF MissStates
      <4> QED  BY <2>1, <2>2, <4>1
    <3> QED  BY <1>1, <2>2, <3>1, <3>2 DEF CpuStep
  <2>3. CASE ~cpu.a.en
    <3>1. c.state \notin MissStates
      BY <2>3, LookupLost
    <3>2. c.a_prev_v /\ ~c.a_prev.wr /\ ~c.pref_inc
      BY <2>1, <2>3, <3>1 DEF MissStates
    <3> QED  BY <2>1, <2>3, <3>1, <3>2 DEF AskInv
  <2> QED  BY <2>2, <2>3
<1> QED  BY <1>1, <1>2, <1>3, <1>4, <1>5 DEF AskInv

\* The line of a locked access stays out of the cache.
LEMMA CEdgeDrop ==
  ASSUME CEdge, CclInv, CpuTypes, StateInv, CpuInv, DropInv, LookupCEffects
  PROVE  DropInv'
<1>1. c'.state = Goes /\ CpuStep
  BY DEF LookupCEffects
<1>2. ~WritesTag => c'.ffv \subseteq c.ffv
  BY DEF LookupCEffects
<1>3. ~c.dc_onm => c'.ffv = {}
  BY DEF LookupCEffects
<1>4. (c'.dc_onm /\ cpu'.tas \in {"held", "write"}) => cpu'.at.i \notin c'.ffv
  <2> SUFFICES ASSUME cpu'.tas \in {"held", "write"}, c.dc_onm
               PROVE  cpu'.at.i \notin c'.ffv
    BY <1>3
  <2>1. /\ cpu'.at = cpu.at
        /\ cpu.tas \in {"held", "write"} \/ (cpu.tas = "read" /\ Acked)
    BY <1>1, CpuLocks
  <2>2. CASE cpu.tas \in {"held", "write"}
    <3>1. ~WritesTag
      BY <2>2 DEF CpuInv, WritesTag, OffStates, LockStates
    <3> QED  BY <1>2, <2>1, <2>2, <3>1 DEF DropInv
  <2>3. CASE cpu.tas = "read" /\ Acked
    <3>1. cpu.a.en /\ ~cpu.a.wr /\ cpu.lock
      BY <2>3 DEF CpuInv
    <3>2. c.state = "RLOCK2"
      BY <2>3, <3>1, AckedOn DEF CpuInv
    <3>3. cpu.at.i \notin c.ffv
      BY <2>3, <3>1, <3>2 DEF DropInv
    <3> QED  BY <1>2, <2>1, <3>2, <3>3 DEF WritesTag
  <2> QED  BY <2>1, <2>2, <2>3
<1>5. Goes = "RLOCK2" => cpu'.a.a.i \notin c'.ffv
  <2> SUFFICES ASSUME Goes = "RLOCK2" PROVE cpu'.a.a.i \notin c'.ffv
    OBVIOUS
  <2>1. cpu' = cpu
    BY UncachedWaits DEF LockStates
  <2>2. c.state \in {"RLOCK1", "RLOCK2"}
    BY FromIdle, FromBusy
  <2>3. c.state = "RLOCK1" => c.ma0.i \notin c'.ffv
    BY DEF LookupCEffects
  <2> QED  BY <1>2, <2>1, <2>2, <2>3 DEF DropInv, WritesTag
<1>6. Goes = "RLOCK1" => c'.ma0 = cpu'.a.a
  BY UncachedWaits DEF LockStates, LookupCEffects
<1>7. (cpu'.tas \in {"read", "write"} /\ cpu'.a.en) => cpu'.a.a = cpu'.at
  BY <1>1, CpuLocks DEF DropInv
<1>8. (~c'.dc_onm /\ Goes # "IDLE") => c'.ffv = {}
  BY DEF LookupCEffects
<1> QED  BY <1>1, <1>4, <1>5, <1>6, <1>7, <1>8 DEF DropInv

\* The word at the RAM's output is that of the request looked up last.
LEMMA CEdgeOut ==
  ASSUME CEdge, CclInv, CpuTypes, StateInv, CpuInv, InStep, AskInv, OutInv,
         LookupCEffects, RamCEffects
  PROVE  OutInv'
<1> SUFFICES ASSUME c'.a_prev_v, ~c'.a_prev.wr, Goes \notin MissStates
             PROVE  Out' = ram'[c'.a_prev.a.i][OutWord']
  BY DEF OutInv, LookupCEffects
<1>1. /\ c.dc_onm /\ (cpu.a.en \/ c.a_prev_v)
      /\ c.state # "WMISS1"
      /\ c'.pref_inc <=> /\ c.state \notin {"RMISS2", "RMISS3", "WMISS2"}
                         /\ IF cpu.a.en THEN Ahead ELSE c.pref_inc
      /\ c'.a_prev = IF cpu.a.en THEN [wr |-> cpu.a.wr, a |-> cpu.a.a] ELSE c.a_prev
      /\ RamWordValid(c)' <=> (cpu.a.en /\ ~cpu.a.wr /\ Looks)
      /\ c'.dw = Out
  BY DEF LookupCEffects
<1>2. ~cpu.a.wr /\ ram' = ram
  <2>1. ~cpu.a.wr
    BY <1>1 DEF CpuInv
  <2> QED  BY <2>1 DEF RamCEffects, Stores
<1>3. Out' = (IF RamWordValid(c)' THEN ra'.d0 ELSE c'.dw)
  BY DEF Out
<1>4. OutWord' = IF c'.pref_inc THEN NextWord(c'.a_prev.a.w) ELSE c'.a_prev.a.w
  BY DEF OutWord
<1>5. CASE cpu.a.en
  <2>1. Looks
    BY LookupLost DEF Looks, MissStates
  <2>2. c'.a_prev.a = cpu.a.a
    BY <1>1, <1>5
  <2>3. Out' = ram[cpu.a.a.i][IF Ahead THEN NextWord(cpu.a.a.w) ELSE cpu.a.a.w]
    BY <1>1, <1>2, <1>3, <1>5, <2>1 DEF RamCEffects
  <2>4. Ahead => c.state \notin {"RMISS3", "WMISS2"}
    BY DEF Ahead, ReadsAhead, YAckI1, YAckD
  <2>5. c.state # "RMISS2"
    BY LookupLost DEF MissStates
  <2> QED  BY <1>1, <1>2, <1>4, <1>5, <2>2, <2>3, <2>4, <2>5
<1>6. CASE ~cpu.a.en
  <2>1. c.state \notin MissStates
    BY <1>6, LookupLost
  <2>2. c.a_prev_v /\ c'.a_prev = c.a_prev /\ (c'.pref_inc <=> c.pref_inc)
    BY <1>1, <1>6, <2>1 DEF MissStates
  <2>3. Out = ram[c.a_prev.a.i][OutWord]
    BY <1>1, <2>1, <2>2 DEF OutInv
  <2>4. Out' = Out /\ OutWord' = OutWord
    BY <1>1, <1>3, <1>4, <1>6, <2>2 DEF OutWord
  <2> QED  BY <1>2, <2>2, <2>3, <2>4
<1> QED  BY <1>5, <1>6

\* The hit check of a request whose tag has been read is right.
LEMMA HitIsRight ==
  ASSUME HitInv, c.dc_onm, c.state \notin MissStates, Near, Hit, ~cpu.lock
  PROVE  /\ cpu.a.a.i = c.a_prev.a.i /\ cpu.a.a.t = c.a_prev.a.t
         /\ cpu.a.a.i \in c.ffv
         /\ tag[cpu.a.a.i] = cpu.a.a.t
<1>1. c.a_prev_v /\ cpu.a.a.i = c.a_prev.a.i /\ cpu.a.a.t = c.a_prev.a.t
  BY DEF Near, Line
<1>2. /\ IF c.aen_del1 THEN ra.tag0 = c.a_prev.a.t ELSE c.c_hitstate
      /\ cpu.a.a.i \in c.ffv
  BY DEF Hit, CacheHit, CclIn
<1> QED  BY <1>1, <1>2 DEF HitInv

\* The tag at the RAM's output, or the hit found with it, stays right.
LEMMA CEdgeHit ==
  ASSUME CEdge, CclInv, CpuTypes, StateInv, CpuInv, InStep, AskInv, HitInv,
         LookupCEffects, RamCEffects
  PROVE  HitInv'
<1> SUFFICES ASSUME c'.a_prev_v, Goes \notin MissStates
             PROVE  /\ c'.aen_del1 => ra'.tag0 = tag'[c'.a_prev.a.i]
                    /\ (/\ ~c'.aen_del1 \/ ~cpu'.a.en
                        /\ ~cpu'.lock /\ c'.c_hitstate /\ c'.a_prev.a.i \in c'.ffv) =>
                         tag'[c'.a_prev.a.i] = c'.a_prev.a.t
  BY DEF HitInv, LookupCEffects
<1>1. /\ c.dc_onm /\ (cpu.a.en \/ c.a_prev_v)
      /\ ~(Answered /\ c.state \in {"RLOCK2", "WUNCA2"})
      /\ c'.a_prev = IF cpu.a.en THEN [wr |-> cpu.a.wr, a |-> cpu.a.a] ELSE c.a_prev
      /\ c'.aen_del1 <=> (cpu.a.en /\ ~cpu.lock)
      /\ c'.c_hitstate => (IF cpu.a.en THEN Hit ELSE c.c_hitstate)
      /\ CpuStep
  BY DEF LookupCEffects
<1>2. ~WritesTag
  BY LookupLost DEF WritesTag, MissStates
<1>3. tag' = tag /\ ra'.tag0 = tag[cpu.a.a.i] /\ c'.ffv \subseteq c.ffv
  BY <1>2 DEF RamCEffects, LookupCEffects
<1>4. c'.aen_del1 => ra'.tag0 = tag'[c'.a_prev.a.i]
  BY <1>1, <1>3
<1>5. ASSUME ~c'.aen_del1 \/ ~cpu'.a.en, ~cpu'.lock, c'.c_hitstate, c'.a_prev.a.i \in c'.ffv
      PROVE  tag'[c'.a_prev.a.i] = c'.a_prev.a.t
  <2>1. CASE cpu.a.en
    <3>1. Acked
      <4>1. ~Acked => cpu' = cpu
        BY <1>1, <2>1 DEF CpuStep
      <4> QED  BY <1>1, <1>5, <2>1, <4>1
    <3>2. c.state \in {"IDLE", "SB2"} /\ ~cpu.lock /\ Near
      BY <1>1, <2>1, <3>1, AckedOn DEF MissStates
    <3>3. Hit
      BY <1>1, <1>5, <2>1
    <3>4. tag[cpu.a.a.i] = cpu.a.a.t
      BY <1>1, <3>2, <3>3, HitIsRight DEF MissStates
    <3> QED  BY <1>1, <1>3, <2>1, <3>4
  <2>2. CASE ~cpu.a.en
    <3>1. c.state \notin MissStates
      BY <2>2, LookupLost
    <3>2. c.a_prev_v /\ c'.a_prev = c.a_prev /\ c.c_hitstate
      BY <1>1, <1>5, <2>2
    <3>3. ~cpu.lock
      BY <1>1, <2>2, <3>2 DEF AskInv
    <3> QED  BY <1>1, <1>3, <1>5, <2>2, <3>1, <3>2, <3>3 DEF HitInv
  <2> QED  BY <2>1, <2>2
<1> QED  BY <1>4, <1>5

-------------------------------------------------------------------------------
(* The data RAM over a cpu clock edge.                                       *)

\* Where a store that is sent with the cache on goes: to the RAM as well if its
\* line is there or will be filled, to memory alone if it has the lock.
LEMMA StoreGoes ==
  ASSUME CclInv, CpuTypes, CpuInv, StateInv, SendsStore, c.dc_onm
  PROVE  /\ cpu.a.en /\ cpu.a.wr /\ Sends
         /\ c.state \in {"IDLE", "SB2"}
         /\ \/ Goes = "SB1" /\ Stores /\ Near /\ Hit /\ ~cpu.lock
            \/ Goes = "WMISS1" /\ Stores
            \/ Goes = "WUNCA1" /\ cpu.tas = "write"
<1> USE CclSignals
<1>1. Sends /\ cpu.a.wr /\ Goes # "NEGLCK"
  BY DEF SendsStore, SendsWrite, Sends
<1>2. cpu.a.en
  BY <1>1 DEF CpuInv
<1>3. cpu.lock => cpu.tas = "write"
  BY <1>1, <1>2 DEF CpuInv, CpuTypes
<1>4. CASE c.state = "IDLE"
  <2>1. \/ Goes = "WUNCA1" /\ cpu.lock
        \/ Goes \in {"SB1", "WMISS1"} /\ ~cpu.lock
    BY <1>1, <1>4, FromIdle
  <2>2. Goes = "SB1" => AdrsEquCacheLi(c, CclIn) /\ Hit
    BY <1>1, <1>2, <1>4 DEF Goes, NextState, NextStateOn, IdleOn, WriteState, Hit
  <2> QED  BY <1>1, <1>2, <1>3, <1>4, <2>1, <2>2 DEF Stores, AdrsEquCacheLi, Near
<1>5. CASE c.state # "IDLE"
  <2>1. Goes \in {"SB1", "WMISS1"} /\ c.state = "SB2"
    BY <1>1, <1>5, FromBusy
  <2>2. ~cpu.lock
    BY <1>3, <2>1 DEF CpuInv, OffStates, LockStates
  <2>3. Goes = "SB1" => AdrsEquCacheLi(c, CclIn) /\ Hit
    BY <1>1, <1>2, <2>1 DEF Goes, NextState, NextStateOn, Sb2Acked, WriteState, Hit
  <2> QED  BY <1>1, <1>2, <1>3, <2>1, <2>2, <2>3 DEF Stores, AdrsEquCacheLi, Near
<1> QED  BY <1>4, <1>5

\* The RAM after the edge, lane by lane.
LEMMA RamAfter ==
  ASSUME RamCEffects, StoreTypes, CpuTypes
  PROVE  \A i \in Indices, w \in Words, l \in Lanes :
           ram'[i][w][l] = IF /\ Stores /\ i = cpu.a.a.i /\ w = cpu.a.a.w
                              /\ l \in cpu.a.we
                             THEN cpu.a.d[l] ELSE ram[i][w][l]
<1>1. /\ ram \in [Indices -> [Words -> WordValues]]
      /\ cpu.a.a.i \in Indices /\ cpu.a.a.w \in Words
  BY DEF StoreTypes, CpuTypes, CpuRequests, Addresses
<1>2. CASE Stores
  <2>1. ram' = [ram EXCEPT ![cpu.a.a.i][cpu.a.a.w] = Merge(@, cpu.a.d, cpu.a.we)]
    BY <1>2 DEF RamCEffects
  <2>2. \A i \in Indices, w \in Words :
          ram'[i][w] = IF i = cpu.a.a.i /\ w = cpu.a.a.w
                         THEN Merge(ram[i][w], cpu.a.d, cpu.a.we) ELSE ram[i][w]
    BY <1>1, <2>1
  <2> QED  BY <1>2, <2>2, MergeLane
<1>3. CASE ~Stores
  BY <1>3 DEF RamCEffects
<1> QED  BY <1>2, <1>3

\* The store asked for stays in the RAM until it is sent.
LEMMA StoredKept ==
  ASSUME CEdge, CclInv, CpuTypes, StoreTypes, StateInv, CpuInv, RamCEffects,
         LookupCEffects, ~SendsStore,
         NEW i \in Indices, NEW w \in Words, NEW l \in Lanes,
         StoredHere(i, w, l) \/ (Stores /\ i = cpu.a.a.i /\ w = cpu.a.a.w /\ l \in cpu.a.we)
  PROVE  StoredHere(i, w, l)'
<1>1. /\ cpu.a.en /\ cpu.a.wr /\ ~cpu.lock /\ c.state \notin OffStates
      /\ i = cpu.a.a.i /\ w = cpu.a.a.w /\ l \in cpu.a.we
      /\ Stores \/ ram[i][w][l] = cpu.a.d[l]
  BY DEF StoredHere, Stores, OffStates
<1>2. Asking
  BY <1>1 DEF Asking, StoreStates, StateInv, LockStates
<1>3. cpu' = cpu
  BY <1>2, AskingMoves
<1>4. Goes \notin OffStates
  BY <1>1, <1>2, StoreAcked DEF SendsStore, SendsWrite, Sends, Asking, StoreStates
<1>5. ram'[i][w][l] = cpu.a.d[l]
  BY <1>1, RamAfter
<1> QED  BY <1>1, <1>3, <1>4, <1>5 DEF StoredHere, LookupCEffects

\* What the lookup, and the state it is made in, have to do with the RAM.
LEMMA CEdgeRam ==
  ASSUME CEdge, Inv, CpuInv, InStep, HitInv, DropInv, AskInv, RamInv, FillInv,
         LookupCEffects, RamCEffects, WordCEffects
  PROVE  RamInv'
<1>1. CoreInv /\ CclInv /\ CpuTypes /\ CclTypes /\ StoreTypes /\ StateInv /\ SyncTypes
  BY DEF Inv, CoreInv, TypeInv, LockInv
<1>2. /\ SendsStore => \A p, l : Behind(p, l)' = IF Covers(Asked, p, l) THEN Asked.d[l]
                                                                   ELSE Behind(p, l)
      /\ ~SendsStore => \A p, l : Behind(p, l)' = Behind(p, l)
  BY <1>1, BehindC
<1>3. c'.state = Goes
  BY DEF LookupCEffects
<1> SUFFICES ASSUME NEW i \in c'.ffv, ~(Goes \in MissStates /\ i = bc'.d0v.a.i),
                    NEW w \in Words, NEW l \in Lanes, NEW p, p = PlaceOf(tag'[i], i, w)
             PROVE  ram'[i][w][l] = Behind(p, l)' \/ StoredHere(i, w, l)'
  <2>1. \A i, w, l : \A p : p = PlaceOf(tag'[i], i, w) =>
          Behind(PlaceOf(tag[i], i, w), l)' = Behind(p, l)'
    BY DEF Behind
  <2> SUFFICES ASSUME NEW i \in c'.ffv, ~(Goes \in MissStates /\ i = bc'.d0v.a.i),
                      NEW w \in Words, NEW l \in Lanes
               PROVE  \/ ram'[i][w][l] = Behind(PlaceOf(tag[i], i, w), l)'
                      \/ StoredHere(i, w, l)'
    BY <1>3 DEF RamInv
  <2> QED  BY <2>1
<1>4. /\ c.dc_onm
      /\ i \in c.ffv \/ (WritesTag /\ i = c.ma0.i)
  BY DEF LookupCEffects
<1>5. i \in Indices
  BY <1>1, <1>4 DEF CclTypes, Addresses
<1>6. ram'[i][w][l] = IF Stores /\ i = cpu.a.a.i /\ w = cpu.a.a.w /\ l \in cpu.a.we
                        THEN cpu.a.d[l] ELSE ram[i][w][l]
  BY <1>1, <1>5, RamAfter
<1>8. CASE c.state \in MissStates
  <2>1. ~Sends /\ ~SendsStore /\ ~Stores /\ bc'.d0v = bc.d0v
    BY <1>1, <1>8, MissMoves DEF SendsStore, SendsWrite, Sends, Stores, MissStates, WordCEffects
  <2>2. c.ma0 = bc.d0v.a
    BY <1>8 DEF FillInv
  <2>3. CASE i = bc.d0v.a.i
    <3>1. Goes = "IDLE" /\ Answered /\ c.state \in {"RMISS3", "WMISS2"}
      BY <1>1, <1>8, <2>1, <2>3, MissMoves
    <3>2. ~Outstanding
      BY <1>1, <3>1 DEF Answered, Outstanding, CoreInv, Channel0Inv, Latched, Shown, Serving,
                        ClimbC, Rising, Free, WordCEffects
    <3>3. tag[i] = bc.d0v.a.t /\ ram[i][w][l] = Behind(PlaceOf(bc.d0v.a.t, i, w), l)
      BY <1>8, <2>3, <3>1, <3>2 DEF FillInv
    <3>4. tag' = tag
      BY <3>1 DEF RamCEffects, WritesTag
    <3> QED  BY <1>2, <1>6, <2>1, <3>3, <3>4
  <2>4. CASE i # bc.d0v.a.i
    <3>1. i \in c.ffv
      BY <1>4, <2>2, <2>4
    <3>2. tag'[i] = tag[i]
      <4>1. c.state = "RMISS1" => cpu.a.a = bc.d0v.a
        BY DEF AskInv
      <4>2. CASE WritesTag
        <5>1. (IF c.state = "WMISS1" THEN c.ma0.i ELSE cpu.a.a.i) = bc.d0v.a.i
          BY <2>2, <4>1, <4>2 DEF WritesTag
        <5> QED  BY <1>1, <1>5, <2>4, <4>2, <5>1 DEF RamCEffects, StoreTypes
      <4>3. CASE ~WritesTag
        BY <4>3 DEF RamCEffects
      <4> QED  BY <4>2, <4>3
    <3>3. ram[i][w][l] = Behind(PlaceOf(tag[i], i, w), l) \/ StoredHere(i, w, l)
      BY <2>4, <3>1 DEF RamInv
    <3>4. StoredHere(i, w, l) => StoredHere(i, w, l)'
      BY <1>1, <1>5, <2>1, StoredKept
    <3> QED  BY <1>2, <1>6, <2>1, <3>2, <3>3, <3>4
  <2> QED  BY <2>3, <2>4
<1>9. CASE c.state \notin MissStates
  <2>1. ~WritesTag
    BY <1>9 DEF WritesTag, MissStates
  <2>2. i \in c.ffv /\ tag' = tag
    BY <1>4, <2>1 DEF RamCEffects
  <2>3. ram[i][w][l] = Behind(PlaceOf(tag[i], i, w), l) \/ StoredHere(i, w, l)
    BY <1>9, <2>2 DEF RamInv
  <2>4. CASE SendsStore
    <3>1. /\ cpu.a.en /\ cpu.a.wr /\ Sends
          /\ \/ Goes = "SB1" /\ Stores /\ Near /\ Hit /\ ~cpu.lock
             \/ Goes = "WMISS1" /\ Stores
             \/ Goes = "WUNCA1" /\ cpu.tas = "write"
      BY <1>1, <1>4, <2>4, StoreGoes
    <3>2. p = PlaceOf(tag[i], i, w)
      BY <2>2
    <3>3. PICK A : A = Asked
      OBVIOUS
    <3>4. Behind(p, l)' = IF Covers(A, p, l) THEN A.d[l] ELSE Behind(p, l)
      BY <1>2, <2>4, <3>3
    <3>5. A.d = cpu.a.d /\ A.we = cpu.a.we /\ A.p = Place(cpu.a.a)
      BY <3>3 DEF Asked
    <3>6. CASE i # cpu.a.a.i
      <4>1. ~Covers(A, p, l)
        BY <3>2, <3>5, <3>6 DEF Covers, PlaceOf, Place
      <4>2. ~StoredHere(i, w, l)
        BY <3>6 DEF StoredHere
      <4> QED  BY <1>6, <2>2, <2>3, <3>2, <3>4, <3>6, <4>1, <4>2
    <3>7. CASE i = cpu.a.a.i
      <4>1. Goes # "WUNCA1"
        BY <1>4, <2>2, <3>1, <3>7 DEF DropInv
      <4>2. Goes # "WMISS1"
        BY <3>1, <3>7 DEF WordCEffects, MissStates
      <4>3. Stores /\ Near /\ Hit /\ ~cpu.lock
        BY <3>1, <4>1, <4>2
      <4>4. tag[i] = cpu.a.a.t
        BY <1>4, <1>9, <3>7, <4>3, HitIsRight
      <4>5. A.p = p <=> w = cpu.a.a.w
        BY <3>2, <3>5, <3>7, <4>4 DEF Place, PlaceOf
      <4>6. StoredHere(i, w, l) => w = cpu.a.a.w /\ l \in cpu.a.we
        BY DEF StoredHere
      <4> QED  BY <1>6, <2>2, <2>3, <3>2, <3>4, <3>5, <3>7, <4>3, <4>5, <4>6 DEF Covers
    <3> QED  BY <3>6, <3>7
  <2>5. CASE ~SendsStore
    <3>1. CASE Stores /\ i = cpu.a.a.i /\ w = cpu.a.a.w /\ l \in cpu.a.we
      BY <1>1, <1>5, <2>5, <3>1, StoredKept
    <3>2. CASE ~(Stores /\ i = cpu.a.a.i /\ w = cpu.a.a.w /\ l \in cpu.a.we)
      <4>1. StoredHere(i, w, l) => StoredHere(i, w, l)'
        BY <1>1, <1>5, <2>5, StoredKept
      <4> QED  BY <1>2, <1>6, <2>2, <2>3, <2>5, <3>2, <4>1
    <3> QED  BY <3>1, <3>2
  <2> QED  BY <2>4, <2>5
<1> QED  BY <1>8, <1>9

\* The line being filled over the edge: a store that starts a fill has put its lanes
\* there.
LEMMA CEdgeFill ==
  ASSUME CEdge, Inv, CpuInv, InStep, AskInv, FillInv,
         LookupCEffects, RamCEffects, WordCEffects
  PROVE  FillInv'
<1>1. CoreInv /\ CclInv /\ CpuTypes /\ CclTypes /\ StoreTypes /\ StateInv /\ SyncTypes
  BY DEF Inv, CoreInv, TypeInv, LockInv
<1>2. /\ SendsStore => \A p, l : Behind(p, l)' = IF Covers(Asked, p, l) THEN Asked.d[l]
                                                                   ELSE Behind(p, l)
      /\ ~SendsStore => \A p, l : Behind(p, l)' = Behind(p, l)
  BY <1>1, BehindC
<1>3. c'.state = Goes
  BY DEF LookupCEffects
<1>4. (Waiting' <=> Waiting) /\ m' = m /\ bm' = bm /\ (Sends => Waiting)
  BY <1>1, CEdgeCurrent DEF WordCEffects
<1>5. \A w : Filled(w)' <=> Filled(w)
  BY <1>4 DEF Filled
<1> SUFFICES ASSUME Goes \in MissStates
             PROVE  /\ c'.ma0 = bc'.d0v.a
                    /\ Goes \notin {"RMISS1", "WMISS1"} => tag'[bc'.d0v.a.i] = bc'.d0v.a.t
                    /\ \A w \in Words, l \in Lanes : \A p :
                         (/\ p = PlaceOf(bc'.d0v.a.t, bc'.d0v.a.i, w)
                          /\ \/ ~Outstanding'
                             \/ Filled(w)'
                             \/ bc'.d0v.cmd = "WRITEMISS" /\ w = bc'.d0v.a.w /\ l \in Sent'.we) =>
                           ram'[bc'.d0v.a.i][w][l] = Behind(p, l)'
  <2>1. \A w, l : \A p : p = PlaceOf(bc'.d0v.a.t, bc'.d0v.a.i, w) =>
          Behind(PlaceOf(bc.d0v.a.t, bc.d0v.a.i, w), l)' = Behind(p, l)'
    BY DEF Behind
  <2> QED  BY <1>3, <2>1 DEF FillInv
<1>6. CASE c.state \in MissStates
  <2>1. ~Sends /\ ~SendsStore /\ ~Stores /\ Goes \in {"RMISS2", "RMISS3", "WMISS2"}
    BY <1>1, <1>6, MissMoves DEF SendsStore, SendsWrite, Sends, Stores, MissStates
  <2>2. bc'.d0v = bc.d0v /\ c'.ma0 = c.ma0 /\ ram' = ram /\ Sent' = Sent
        /\ (Outstanding' <=> Outstanding)
    BY <2>1 DEF WordCEffects, LookupCEffects, RamCEffects, Sent, Outstanding
  <2>3. c.ma0 = bc.d0v.a
    BY <1>6 DEF FillInv
  <2>4. tag'[bc.d0v.a.i] = bc.d0v.a.t
    <3>1. CASE WritesTag
      <4>1. c.state = "RMISS1" => cpu.a.a = bc.d0v.a
        BY DEF AskInv
      <4>2. (IF c.state = "WMISS1" THEN c.ma0.i ELSE cpu.a.a.i) = bc.d0v.a.i
        BY <2>3, <3>1, <4>1 DEF WritesTag
      <4>3. bc.d0v.a.i \in Indices
        BY <1>1 DEF SyncTypes, CommandWords, Addresses
      <4> QED  BY <1>1, <2>3, <3>1, <4>2, <4>3 DEF RamCEffects, StoreTypes
    <3>2. CASE ~WritesTag
      BY <1>6, <3>2 DEF RamCEffects, WritesTag, FillInv
    <3> QED  BY <3>1, <3>2
  <2> QED  BY <1>2, <1>5, <1>6, <2>1, <2>2, <2>3, <2>4 DEF FillInv
<1>7. CASE c.state \notin MissStates
  <2>1. /\ Sends /\ c.dc_onm /\ cpu.a.en
        /\ \/ Goes = "RMISS1" /\ ~cpu.a.wr
           \/ Goes = "WMISS1" /\ cpu.a.wr
    BY <1>1, <1>7, MissBegins
  <2>2. /\ c'.ma0 = cpu.a.a /\ bc'.d0v.a = cpu.a.a
        /\ bc'.d0v.cmd = Cmd(CclIn, Goes)
    BY <2>1 DEF WordCEffects, LookupCEffects
  <2>3. Outstanding' /\ \A w : ~Filled(w)'
    <3>1. bm.b0.v \in Bit
      BY <1>1 DEF CoreInv, Channel0Inv, ChannelTypes, FsyncReg
    <3>2. Outstanding'
      BY <1>4, <2>1, <3>1 DEF Outstanding, WordCEffects, Bit
    <3> QED  BY <1>4, <1>5, <2>1, <3>2 DEF Filled
  <2>4. CASE Goes = "RMISS1"
    <3>1. bc'.d0v.cmd # "WRITEMISS"
      BY <2>2, <2>4 DEF Cmd
    <3> QED  BY <2>2, <2>3, <2>4, <3>1
  <2>5. CASE Goes = "WMISS1"
    <3>1. SendsStore
      BY <2>1, <2>5, CclSignals DEF SendsStore, SendsWrite, Sends
    <3>2. Stores
      BY <1>1, <2>1, <2>5, <3>1, StoreGoes
    <3>3. Sent' = Asked
      BY <1>1, <3>1, SentIsAsked
    <3>4. /\ Asked.we = cpu.a.we /\ Asked.d = cpu.a.d
          /\ \A w : w = cpu.a.a.w => PlaceOf(cpu.a.a.t, cpu.a.a.i, w) = Asked.p
      BY DEF Asked, PlaceOf, Place
    <3>5. PICK A : A = Asked
      OBVIOUS
    <3>6. cpu.a.a.i \in Indices
      BY <1>1 DEF CpuTypes, CpuRequests, Addresses
    <3>7. ASSUME NEW w \in Words, NEW l \in Lanes, NEW p,
                 p = PlaceOf(cpu.a.a.t, cpu.a.a.i, w), w = cpu.a.a.w, l \in A.we
          PROVE  ram'[cpu.a.a.i][w][l] = Behind(p, l)'
      <4>1. Covers(A, p, l)
        BY <3>4, <3>5, <3>7 DEF Covers
      <4>2. Behind(p, l)' = A.d[l]
        BY <1>2, <3>1, <3>5, <4>1
      <4>3. ram'[cpu.a.a.i][w][l] = cpu.a.d[l]
        BY <1>1, <3>2, <3>4, <3>5, <3>6, <3>7, RamAfter
      <4> QED  BY <3>4, <3>5, <4>2, <4>3
    <3> QED  BY <2>2, <2>3, <2>5, <3>3, <3>5, <3>7
  <2> QED  BY <2>1, <2>4, <2>5
<1> QED  BY <1>6, <1>7

\* The registers of the read under way keep their command.
LEMMA CEdgeReadRegs ==
  ASSUME CoreInv, ReadRegs, WordCEffects
  PROVE  ReadRegs'
<1>1. m' = m /\ (~Sends => bc'.d0v = bc.d0v)
  BY DEF WordCEffects
<1>2. Sends => m.statemcl \in {"IDLE", "WTHI"}
  BY SendsFree DEF CoreInv, Quiet
<1>3. CASE Sends
  BY <1>1, <1>2, <1>3 DEF ReadRegs, M!Filling
<1>4. CASE ~Sends
  <2>1. Sent' = Sent
    BY <1>1, <1>4 DEF Sent
  <2> QED  BY <1>1, <1>4, <2>1 DEF ReadRegs
<1> QED  BY <1>3, <1>4

-------------------------------------------------------------------------------
(* The words in the channels over a cpu clock edge.                          *)

\* Nothing is under way when a read is sent.
LEMMA SendsIdle ==
  ASSUME CoreInv, Sends, c.state = "IDLE"
  PROVE  ~Outstanding /\ bc.b0.m = 0 /\ bc.b0.s = 0 /\ c.rfillv = 0
BY SendsFree DEF CoreInv, Channel0Inv, Free, Outstanding

\* Channel 2 stays in step with channel 0.
LEMMA CEdgeInStep ==
  ASSUME CoreInv, SyncTypes, Channel2Inv, CpuInv, InStep, LookupCEffects, WordCEffects
  PROVE  InStep'
<1>1. /\ bc.b2.v \in Bit /\ bc.b2.s \in Bit /\ bc.b0.s \in Bit /\ half.b2 \in Bit
      /\ bm.b0.v \in Bit /\ c.rfillv \in Bit /\ CclInv
  BY DEF CoreInv, Channel0Inv, ChannelTypes, SyncTypes, FsyncReg
<1>2. c'.state = Goes /\ c'.rfillv = bc.b0.s /\ c'.b2en_r = bc.b2.s
  BY DEF LookupCEffects
<1>3. /\ half.b0 = bc.b0.v
      /\ bc'.b0.v = (IF Sends THEN 1 - bm.b0.v ELSE bc.b0.v)
      /\ bc'.b0.m = (IF Outstanding THEN 1 ELSE 0) /\ bc'.b0.s = bc.b0.m
      /\ bc'.b2.v = (IF B2en(Goes) THEN 1 - half.b2 ELSE bc.b2.v)
      /\ bc'.b2.m = (IF half.b2 = bc.b2.v THEN 0 ELSE 1) /\ bc'.b2.s = bc.b2.m
      /\ bm' = bm /\ half' = half
  BY DEF WordCEffects
<1>4. ~Outstanding => half.b2 = bc.b2.v
  BY <1>3 DEF Channel2Inv, WordOwed, WordShown, Outstanding
<1>5. B2en(Goes) => Sends
  BY DEF B2en, Sends, B0en
<1>6. Sends => half.b2 = bm.b2
  BY WordFree
<1>7. half'.b2 # bm'.b2 => bm'.b2 = bc'.b2.v
  BY <1>3, <1>5, <1>6 DEF InStep
<1>8. ASSUME Goes = "RMISS1"
      PROVE  /\ c'.rfillv = 0 /\ bc'.b0.s = 0 /\ bc'.b0.m = 0
             /\ Outstanding' /\ half'.b2 # bc'.b2.v
  <2>1. Sends /\ c.state = "IDLE"
    BY <1>8, FromIdle, FromBusy, <1>1
  <2>2. ~Outstanding /\ bc.b0.m = 0 /\ bc.b0.s = 0
    BY <2>1, SendsIdle
  <2>3. Outstanding'
    BY <1>1, <1>3, <2>1 DEF Outstanding, Bit
  <2>4. B2en(Goes)
    BY <1>8 DEF B2en
  <2> QED  BY <1>1, <1>2, <1>3, <2>2, <2>3, <2>4 DEF Bit
<1>9. ASSUME Goes = "RMISS2"
      PROVE  /\ c'.b2en_r = c'.rfillv
             /\ c'.rfillv = 0 => bc'.b2.s = bc'.b0.s
             /\ (c'.rfillv = 0 /\ bc'.b0.s = 0) => bc'.b2.m = 1 /\ bc'.b0.m = 1
  <2>1. c.state \in {"RMISS1", "RMISS2", "RMISS3"} /\ c.dc_onm
    BY <1>1, <1>9, FromIdle, FromBusy DEF CclInv, OnStates
  <2>2. c.state # "RMISS3" /\ (c.state = "RMISS2" => ~Critical)
    BY <1>9, <2>1 DEF Goes, NextState, NextStateOn, CriticalWord, CclIn, Critical
  <2>3. CASE c.state = "RMISS1"
    BY <1>2, <1>3, <2>3 DEF InStep
  <2>4. CASE c.state = "RMISS2"
    <3>1. ~Critical /\ ~Answered
      BY <2>2, <2>4, WordFirst
    <3> QED  BY <1>1, <1>2, <1>3, <2>4, <3>1 DEF InStep, Answered, Critical, Bit
  <2> QED  BY <2>1, <2>2, <2>3, <2>4
<1>10. /\ c'.rfillv = 0 => c'.b2en_r = 0
       /\ bc'.b0.s = 0 => bc'.b2.s = 0
       /\ bc'.b0.m = 0 => bc'.b2.m = 0
  BY <1>2, <1>3, <1>4 DEF InStep
<1> QED  BY <1>2, <1>7, <1>8, <1>9, <1>10 DEF InStep

\* The value of the last command's word changes only with a command.
LEMMA WordKept ==
  ASSUME CEdge, CoreInv, CpuTypes, StateInv, CpuInv, WordCEffects, ~Sends
  PROVE  Word' = Word
<1>1. bc'.d0v = bc.d0v /\ ~SendsStore
  BY DEF WordCEffects, SendsStore, SendsWrite, Sends
<1>2. \A p, l : Behind(p, l)' = Behind(p, l)
  BY <1>1, BehindC
<1>3. PICK p : p = Place(bc.d0v.a) /\ p = Place(bc'.d0v.a)
  BY <1>1
<1>4. \A l : Behind(Place(bc.d0v.a), l)' = Behind(p, l)'
  BY <1>3 DEF Behind
<1>5. \A l : Behind(Place(bc.d0v.a), l)' = Behind(Place(bc.d0v.a), l)
  BY <1>2, <1>3, <1>4
<1> QED  BY <1>5 DEF Word

\* The critical word moves on to the cpu side.
LEMMA CEdgeWord2 ==
  ASSUME CEdge, CoreInv, SyncTypes, CpuTypes, StateInv, CpuInv, Channel2Inv, InStep,
         Word2Inv, LookupCEffects, WordCEffects
  PROVE  Word2Inv'
<1>1. /\ bc.b2 \in FsyncReg /\ half.b2 \in Bit /\ bm.b2 \in Bit /\ CclInv
  BY DEF CoreInv, SyncTypes
<1>2. c'.state = Goes /\ c'.b2en_r = bc.b2.s
  BY DEF LookupCEffects
<1>3. /\ bc'.b2.v = (IF B2en(Goes) THEN 1 - half.b2 ELSE bc.b2.v)
      /\ bc'.b2.m = (IF half.b2 = bc.b2.v THEN 0 ELSE 1) /\ bc'.b2.s = bc.b2.m
      /\ half.b2 = bc.b2.v => bc'.d2s.m = bm.d2v
      /\ bc'.d2s.s = bc.d2s.m
      /\ m' = m /\ bm' = bm
  BY DEF WordCEffects
<1> SUFFICES ASSUME Goes \in {"RMISS1", "RMISS2"}
             PROVE  /\ m.b2en => m.cd = Word'
                    /\ bm.b2 = bc'.b2.v => bm.d2v = Word'
                    /\ (bc'.b2.m = 0 /\ (bc'.b2.s = 1 \/ bc.b2.s = 1)) => bc'.d2s.m = Word'
                    /\ (bc'.b2.s = 0 /\ bc.b2.s = 1) => bc'.d2s.s = Word'
  BY <1>2, <1>3 DEF Word2Inv
<1>4. CASE Goes = "RMISS1"
  <2>1. Sends /\ c.state = "IDLE"
    BY <1>1, <1>4, FromIdle, FromBusy
  <2>2. bc.b2.m = 0 /\ bc.b2.s = 0
    BY <2>1, SendsIdle DEF InStep
  <2>3. half.b2 = bm.b2 /\ B2en(Goes)
    BY <1>4, <2>1, WordFree DEF B2en
  <2>4. ~m.b2en
    BY <2>1, SendsFree DEF CoreInv, Quiet, Channel2Inv, M!Filling
  <2> QED  BY <1>1, <1>3, <2>2, <2>3, <2>4 DEF Bit
<1>5. CASE Goes = "RMISS2"
  <2>1. c.state \in {"RMISS1", "RMISS2", "RMISS3"} /\ c.dc_onm /\ ~Sends
    BY <1>1, <1>5, FromIdle, FromBusy DEF CclInv, OnStates
  <2>2. c.state \in {"RMISS1", "RMISS2"}
    BY <1>5, <2>1 DEF Goes, NextState, NextStateOn
  <2>3. Word' = Word
    BY <2>1, WordKept
  <2>4. bc'.b2.v = bc.b2.v
    BY <1>3, <1>5 DEF B2en
  <2>5. half.b2 = bc.b2.v => bm.b2 = bc.b2.v
    BY DEF InStep
  <2> QED  BY <1>1, <1>3, <2>2, <2>3, <2>4, <2>5 DEF Word2Inv
<1> QED  BY <1>4, <1>5

\* So does the word of an uncached read.
LEMMA CEdgeWord0 ==
  ASSUME CEdge, CoreInv, SyncTypes, CpuTypes, StateInv, CpuInv, Word0Inv,
         LookupCEffects, WordCEffects
  PROVE  Word0Inv'
<1>1. bm.b0.v \in Bit /\ CclInv
  BY DEF CoreInv, Channel0Inv, ChannelTypes, FsyncReg
<1>2. c'.state = Goes /\ c'.rfillv = bc.b0.s
  BY DEF LookupCEffects
<1>3. /\ bc'.d0v.cmd = IF Sends THEN Cmd(CclIn, Goes) ELSE bc.d0v.cmd
      /\ bc'.b0.v = (IF Sends THEN 1 - bm.b0.v ELSE bc.b0.v)
      /\ bc'.b0.m = (IF Outstanding THEN 1 ELSE 0) /\ bc'.b0.s = bc.b0.m
      /\ bc'.d0s.m = bm.d0v /\ bc'.d0s.s = bc.d0s.m
      /\ m' = m /\ bm' = bm
  BY DEF WordCEffects
<1> SUFFICES ASSUME Goes # "IDLE", bc'.d0v.cmd \in SingleReads
             PROVE  /\ m.rfillv_pre1 => m.b0d_unc = Word'
                    /\ m.rfillv => bm.d0v = Word'
                    /\ ~Outstanding' => bm.d0v = Word'
                    /\ (bc'.b0.m = 0 /\ (bc'.b0.s = 1 \/ bc.b0.s = 1)) => bc'.d0s.m = Word'
                    /\ (bc'.b0.s = 0 /\ bc.b0.s = 1) => bc'.d0s.s = Word'
  BY <1>2, <1>3 DEF Word0Inv
<1>4. CASE Sends
  <2>1. c.state = "IDLE"
    <3>1. Goes \notin {"SB1", "WMISS1"}
      BY <1>3, <1>4 DEF Cmd, SingleReads
    <3> QED  BY <1>1, <1>4, <3>1, FromBusy
  <2>2. ~m.rfillv /\ ~m.rfillv_pre1
    BY <1>4, SendsFree DEF CoreInv, Quiet
  <2>3. Outstanding'
    BY <1>1, <1>3, <1>4 DEF Outstanding, Bit
  <2> QED  BY <1>3, <1>4, <2>1, <2>2, <2>3, SendsIdle
<1>5. CASE ~Sends
  <2>1. c.state # "IDLE" /\ bc.d0v.cmd \in SingleReads
    BY <1>3, <1>5, FromIdle
  <2>2. Word' = Word
    BY <1>5, WordKept
  <2>3. Outstanding' <=> Outstanding
    BY <1>3, <1>5 DEF Outstanding
  <2> QED  BY <1>3, <2>1, <2>2, <2>3 DEF Word0Inv
<1> QED  BY <1>4, <1>5

-------------------------------------------------------------------------------
(* A memory clock edge, seen from the reads.                                 *)

ReadMEffects(ack) ==
  /\ m'.mav <=> \/ m.statemcl = "IDLE" /\ m'.statemcl # "IDLE"
                \/ m.statemcl = "WFILL" /\ m'.statemcl = "WTHA"
                \/ m.mav /\ ~ack
  /\ m'.ry_we1 = IF Command \notin Miss THEN {}
                 ELSE IF Command = "WRITEMISS" /\ m'.mav
                   THEN Lanes \ SizeLanes(bm.d0b.s.sz, bm.d0b.s.a)
                 ELSE Lanes
  /\ m'.b0d_unc = IF m.men /\ ack THEN mem[Place(m.ma0)] ELSE m.b0d_unc
  /\ m'.cd = IF m'.b2en THEN mem[Place(m.ma0)] ELSE m.cd
  /\ bm'.d0v = IF (Takes /\ Command = "WRITESGL_FA") \/ m'.rfillv THEN m.b0d_unc
                                                                ELSE bm.d0v
  /\ bm'.d2v = IF m.b2en THEN m.cd ELSE bm.d2v
  /\ ram' = IF m.men /\ ~m.mwr /\ ack
              THEN [ram EXCEPT ![m.ma0.i][m.ma0.w] =
                      Merge(@, mem[Place(m.ma0)], m.ry_we1)]
              ELSE ram
  /\ tag' = tag /\ ra' = ra /\ sa' = sa

\* A memory clock edge reduced to what it does to the reads' registers and the RAM.
LEMMA MEdgeReads ==
  ASSUME NEW ack \in BOOLEAN, MEdge(ack), NEW answer, MMoves(ack, answer), MclInv
  PROVE  ReadMEffects(ack)
<1> DEFINE x == MclIn(ack)
<1>1. /\ m' = M!MclNext(m, x) /\ FsyncMcl(x)
      /\ ram' = IF M!FillWrite(m, x)
                  THEN [ram EXCEPT ![m.ma0.i][m.ma0.w] = Merge(@, x.d, m.ry_we1)]
                  ELSE ram
      /\ tag' = tag /\ ra' = ra /\ sa' = sa
  BY DEF MEdge
<1>2. /\ x.ack = ack /\ x.ctom.b0d = bm.d0b.s /\ x.d = mem[Place(m.ma0)]
      /\ M!SboutEn1(m, x) <=> Takes
      /\ M!SboutCmd(m, x) = Command
      /\ M!MaAckG(m, x) <=> ack
  BY MclSignals DEF MclIn
<1> HIDE DEF x
<1>3. /\ m'.mav = M!Mav(m, x, m'.statemcl)
      /\ m'.ry_we1 = M!RyWe1(m, x, m'.statemcl)
      /\ m'.b0d_unc = IF m.men /\ x.ack THEN x.d ELSE m.b0d_unc
      /\ m'.cd = IF M!CriticalRead(m, x) THEN x.d ELSE m.cd
      /\ m'.b2en = M!CriticalRead(m, x)
      /\ m'.rfillv = M!Rfillv(m, x)
  BY <1>1 DEF M!MclNext
<1>4. /\ bm'.d0v = IF M!B0enrData(m, x) THEN m.b0d_unc ELSE bm.d0v
      /\ bm'.d2v = IF m.b2en THEN m.cd ELSE bm.d2v
  BY <1>1 DEF FsyncMcl
<1>5. M!FillWrite(m, x) <=> (m.men /\ ~m.mwr /\ ack)
  BY <1>2 DEF M!FillWrite
<1>6. M!B0enrData(m, x) <=> ((Takes /\ Command = "WRITESGL_FA") \/ m'.rfillv)
  BY <1>2, <1>3 DEF M!B0enrData
<1>7. /\ m'.mav <=> \/ m.statemcl = "IDLE" /\ m'.statemcl # "IDLE"
                    \/ m.statemcl = "WFILL" /\ m'.statemcl = "WTHA"
                    \/ m.mav /\ ~ack
  BY <1>2, <1>3 DEF M!Mav
<1>8. Command = "WRITEMISS" =>
        M!SboutWe(m, x) = SizeLanes(bm.d0b.s.sz, bm.d0b.s.a)
  BY <1>2, SamePack DEF M!SboutWe
<1>9. m'.ry_we1 = IF Command \notin Miss THEN {}
                  ELSE IF Command = "WRITEMISS" /\ m'.mav
                    THEN Lanes \ SizeLanes(bm.d0b.s.sz, bm.d0b.s.a)
                  ELSE Lanes
  BY <1>2, <1>3, <1>8, SamePack DEF M!RyWe1, Miss
<1> QED  BY <1>1, <1>2, <1>3, <1>4, <1>5, <1>6, <1>7, <1>9 DEF ReadMEffects

\* dcache_mcl reads only for the command that is being served.
LEMMA ReadPhase ==
  ASSUME CoreInv, StateInv, m.statemcl \in {"RFILL", "WFILL", "RSG"}
  PROVE  /\ ~Waiting /\ ~Previous /\ Outstanding /\ ~Takes
         /\ half.b0 # bm.b0.v /\ Arrived /\ ~m.rfillv /\ ~m.rfillv_pre1
         /\ bm.d0b.s = bc.d0v /\ bc.b0.m = 1 /\ c.state # "IDLE"
         /\ m.men /\ ~m.mwr /\ Command = bc.d0v.cmd
         /\ m.statemcl = "RFILL" => /\ bc.d0v.cmd = "READMISS" /\ ~Current
                                    /\ c.state \in {"RMISS1", "RMISS2", "RMISS3"}
         /\ m.statemcl = "WFILL" => /\ bc.d0v.cmd = "WRITEMISS" /\ Current
                                    /\ c.state \in {"WMISS1", "WMISS2"}
         /\ m.statemcl = "RSG" => /\ bc.d0v.cmd \in SingleReads /\ ~Current
                                  /\ c.state \notin MissStates
<1>1. /\ half.b0 # bm.b0.v /\ Arrived /\ Served(bm.d0b.s.cmd)
  BY MclPhase DEF CoreInv, Quiet, Blocked
<1>2. bm.d0b.s = bc.d0v /\ bc.b0.m = 1 /\ c.state # "IDLE" /\ Outstanding
  BY <1>1 DEF CoreInv, Channel0Inv, Serving, Latched, Outstanding
<1>3. ~Waiting /\ ~Previous /\ ~Takes /\ ~m.rfillv /\ ~m.rfillv_pre1
  BY <1>1 DEF Waiting, Previous, Takes, Served
<1>4. m.men /\ ~m.mwr /\ Command = bc.d0v.cmd
  BY <1>2 DEF CoreInv, MclInv, Command, GapR, M!Writing
<1>5. /\ m.statemcl = "RFILL" => bc.d0v.cmd = "READMISS"
      /\ m.statemcl = "WFILL" => bc.d0v.cmd = "WRITEMISS"
      /\ m.statemcl = "RSG" => bc.d0v.cmd \in SingleReads
  BY <1>1, <1>2 DEF Served, SingleReads
<1>6. c.state \in StatesOf(bc.d0v.cmd)
  BY <1>2 DEF StateInv
<1>7. Current <=> m.statemcl = "WFILL"
  BY <1>2, <1>5 DEF Current, WriteCommands, SingleReads
<1> QED
  BY <1>1, <1>2, <1>3, <1>4, <1>5, <1>6, <1>7
  DEF StatesOf, SingleReads, MissStates, OffStates

\* A read starts with the command's registers, and a fill goes on word by word.
LEMMA MEdgeReadRegs ==
  ASSUME NEW ack \in BOOLEAN, MEdge(ack), NEW answer, MSync(answer), MMoves(ack, answer),
         CoreInv, StateInv, SyncTypes, MclTypes, MEffects(ack), ReadMEffects(ack), ReadRegs
  PROVE  ReadRegs'
<1> DEFINE x == MclIn(ack)
<1>1. /\ bc' = bc /\ bc.d0v.a \in Addresses /\ m.ma0 \in Addresses /\ MclInv
      /\ x.ack = ack /\ x.ctom.b0d = bm.d0b.s
      /\ m'.ma0 = M!Ma0(m, x, m'.statemcl)
  BY DEF MEffects, SyncTypes, CommandWords, MclTypes, CoreInv, MclIn
<1> HIDE DEF x
<1>2. Sent' = Sent
  BY <1>1 DEF Sent
<1>3. Sent.we = SizeLanes(bc.d0v.sz, bc.d0v.a)
  BY DEF Sent
<1> SUFFICES ASSUME m'.statemcl \in {"RFILL", "WFILL", "RSG"} PROVE ReadRegs'
  BY DEF ReadRegs, M!Filling
<1>4. CASE m.statemcl = "IDLE"
  <2>1. Takes
    BY <1>1, <1>4, IdleWaits
  <2>2. bm.d0b.s = bc.d0v /\ bc.d0v.cmd \in Commands
    BY <2>1, TakesOutstanding DEF CoreInv
  <2>3. m'.statemcl = M!TakenState(bc.d0v.cmd)
    BY <1>1, <2>1, <2>2, IdleTakes
  <2>4. Command = bc.d0v.cmd /\ m'.mav /\ m'.reqw = bc.d0v.a.w
    BY <1>1, <1>4, <2>1, <2>2 DEF Command, MclInv, ReadMEffects, MEffects
  <2>5. /\ m'.statemcl = "RFILL" => bc.d0v.cmd = "READMISS"
        /\ m'.statemcl = "WFILL" => bc.d0v.cmd = "WRITEMISS"
        /\ m'.statemcl = "RSG" => bc.d0v.cmd \in SingleReads
    BY <2>2, <2>3 DEF M!TakenState, Commands, SingleReads
  <2>6. /\ m'.statemcl \in M!Filling => m'.ma0 = [bc.d0v.a EXCEPT !.b = 0]
        /\ m'.statemcl = "RSG" => m'.ma0 = bc.d0v.a
    BY <1>1, <1>4, <2>2 DEF M!Ma0, M!Filling
  <2>7. m'.ry_we1 = IF m'.statemcl = "RFILL" THEN Lanes
                    ELSE IF m'.statemcl = "WFILL" THEN Lanes \ Sent.we ELSE {}
    BY <1>3, <2>2, <2>4, <2>5 DEF ReadMEffects, Miss, SingleReads
  <2>8. m'.statemcl \in M!Filling => /\ m'.ma0.t = bc.d0v.a.t /\ m'.ma0.i = bc.d0v.a.i
                                     /\ m'.ma0.w = bc.d0v.a.w
    BY <1>1, <2>6 DEF Addresses
  <2> QED  BY <1>1, <1>2, <2>4, <2>6, <2>7, <2>8 DEF ReadRegs, M!Filling
<1>5. CASE m.statemcl # "IDLE"
  <2>1. m'.statemcl = m.statemcl /\ ~(ack /\ (m.statemcl = "RSG" \/ M!CwLast(m)))
    BY <1>1, <1>5, Busy DEF M!MclStates, MclInv
  <2>2. /\ bm.d0b.s = bc.d0v /\ Command = bc.d0v.cmd /\ ~Takes
        /\ m.statemcl = "RFILL" => bc.d0v.cmd = "READMISS"
        /\ m.statemcl = "WFILL" => bc.d0v.cmd = "WRITEMISS"
        /\ m.statemcl = "RSG" => bc.d0v.cmd \in SingleReads
    BY <2>1, ReadPhase
  <2>3. m'.reqw = m.reqw /\ (m'.mav <=> m.mav /\ ~ack)
    BY <2>1, <2>2 DEF MEffects, ReadMEffects
  <2>4. /\ m'.statemcl = "RSG" => m'.ma0 = m.ma0
        /\ ~ack => m'.ma0 = m.ma0
        /\ (m'.statemcl \in M!Filling /\ ack) =>
             m'.ma0 = [m.ma0 EXCEPT !.w = M!NextWord(@), !.b = 0]
    BY <1>1, <2>1 DEF M!Ma0, M!Filling
  <2>5. (m'.statemcl \in M!Filling /\ ack) =>
          /\ m'.ma0.t = m.ma0.t /\ m'.ma0.i = m.ma0.i /\ m'.ma0.w # m.reqw
    BY <1>1, <2>1, <2>4 DEF Addresses, M!CwLast, M!Filling
  <2>6. m'.ry_we1 = IF m'.statemcl = "RFILL" THEN Lanes
                    ELSE IF m'.statemcl = "WFILL"
                      THEN (IF m'.mav THEN Lanes \ Sent.we ELSE Lanes) ELSE {}
    BY <1>3, <2>1, <2>2 DEF ReadMEffects, Miss, SingleReads
  <2> QED  BY <1>1, <1>2, <2>1, <2>3, <2>4, <2>5, <2>6 DEF ReadRegs, M!Filling
<1> QED  BY <1>4, <1>5

\* A fill writes the word that has been read to the RAM; a single read nothing.
LEMMA RamFilled ==
  ASSUME NEW ack \in BOOLEAN, CoreInv, StateInv, StoreTypes, MclTypes,
         ReadMEffects(ack), ReadRegs
  PROVE  /\ \A i \in Indices, w \in Words, l \in Lanes :
              ram'[i][w][l] =
                IF /\ ack /\ m.statemcl \in M!Filling
                   /\ i = m.ma0.i /\ w = m.ma0.w /\ l \in m.ry_we1
                  THEN mem[Place(m.ma0)][l] ELSE ram[i][w][l]
         /\ ~(ack /\ m.statemcl \in M!Filling) => ram' = ram
<1>1. /\ ram \in [Indices -> [Words -> WordValues]]
      /\ m.ma0.i \in Indices /\ m.ma0.w \in Words
  BY DEF StoreTypes, MclTypes, Addresses
<1>2. ram' = IF m.men /\ ~m.mwr /\ ack
               THEN [ram EXCEPT ![m.ma0.i][m.ma0.w] =
                       Merge(@, mem[Place(m.ma0)], m.ry_we1)]
               ELSE ram
  BY DEF ReadMEffects
<1>3. (m.men /\ ~m.mwr) <=> m.statemcl \in {"RFILL", "WFILL", "RSG"}
  BY DEF CoreInv, MclInv, M!MclStates, M!Writing, GapR
<1>4. CASE ack /\ m.statemcl \in M!Filling
  <2>1. PICK a, u, we : a = m.ma0 /\ u = mem[Place(m.ma0)] /\ we = m.ry_we1
    OBVIOUS
  <2>2. ram' = [ram EXCEPT ![a.i][a.w] = Merge(@, u, we)]
    BY <1>2, <1>3, <1>4, <2>1 DEF M!Filling
  <2> SUFFICES ASSUME NEW i \in Indices, NEW w \in Words, NEW l \in Lanes
               PROVE  ram'[i][w][l] = IF i = a.i /\ w = a.w /\ l \in we
                                        THEN u[l] ELSE ram[i][w][l]
    BY <1>4, <2>1
  <2>3. Merge(ram[i][w], u, we)[l] = IF l \in we THEN u[l] ELSE ram[i][w][l]
    BY MergeLane
  <2>4. ram'[i][w] = IF i = a.i /\ w = a.w THEN Merge(ram[i][w], u, we) ELSE ram[i][w]
    BY <1>1, <2>1, <2>2
  <2> QED  BY <2>3, <2>4
<1>5. CASE ~(ack /\ m.statemcl \in M!Filling)
  <2>1. CASE m.men /\ ~m.mwr /\ ack
    <3>1. m.ry_we1 = {}
      BY <1>3, <1>5, <2>1 DEF ReadRegs, M!Filling
    <3>2. ram[m.ma0.i][m.ma0.w] \in [Lanes -> Nat]
      BY <1>1 DEF WordValues
    <3>3. Merge(ram[m.ma0.i][m.ma0.w], mem[Place(m.ma0)], {}) = ram[m.ma0.i][m.ma0.w]
      BY <3>2 DEF Merge
    <3>4. PICK u : u = Merge(ram[m.ma0.i][m.ma0.w], mem[Place(m.ma0)], {})
      OBVIOUS
    <3>5. ram' = [ram EXCEPT ![m.ma0.i][m.ma0.w] = u]
      BY <1>2, <2>1, <3>1, <3>4
    <3> QED  BY <1>1, <1>5, <3>3, <3>4, <3>5
  <2>2. CASE ~(m.men /\ ~m.mwr /\ ack)
    BY <1>2, <1>5, <2>2
  <2> QED  BY <2>1, <2>2
<1> QED  BY <1>4, <1>5

\* The cpu's request and its lookup have no part in a memory clock edge.
LEMMA MEdgeLookup ==
  ASSUME NEW ack \in BOOLEAN, CoreInv, StateInv, StoreTypes, MclTypes,
         MEffects(ack), ReadMEffects(ack), ReadRegs, LookupInv
  PROVE  LookupInv'
<1>1. /\ c' = c /\ bc' = bc /\ cpu' = cpu /\ tag' = tag /\ ra' = ra /\ sa' = sa
  BY DEF MEffects, ReadMEffects
<1>2. c.state \notin MissStates => ram' = ram
  BY RamFilled, ReadPhase DEF MissStates, M!Filling
<1>3. OutInv'
  BY <1>1, <1>2 DEF LookupInv, OutInv, Out, OutWord
<1>4. AskInv' /\ HitInv' /\ DropInv' /\ NoSnoop'
  BY <1>1 DEF LookupInv, AskInv, HitInv, DropInv, NoSnoop
<1> QED  BY <1>3, <1>4 DEF LookupInv

\* A fill writes no line but its own.
LEMMA MEdgeRam ==
  ASSUME NEW ack \in BOOLEAN, MEdge(ack), Inv, StoreInv,
         MEffects(ack), ReadMEffects(ack), ReadRegs, RamInv
  PROVE  RamInv'
<1>1. /\ c' = c /\ bc' = bc /\ cpu' = cpu /\ tag' = tag
  BY DEF MEffects, ReadMEffects
<1>2. /\ CoreInv /\ StateInv /\ StoreTypes /\ MclTypes
      /\ c.ffv \subseteq Indices /\ tag \in [Indices -> Tags]
  BY DEF Inv, LockInv, TypeInv, CclTypes, StoreTypes
<1> SUFFICES ASSUME NEW i \in c.ffv, ~(c.state \in MissStates /\ i = bc.d0v.a.i),
                    NEW w \in Words, NEW l \in Lanes
             PROVE  \/ ram'[i][w][l] = Behind(PlaceOf(tag[i], i, w), l)'
                    \/ StoredHere(i, w, l)'
  BY <1>1 DEF RamInv
<1>3. i \in Indices /\ PlaceOf(tag[i], i, w) \in Places
  BY <1>2 DEF PlaceOf, Places
<1>4. ram'[i][w][l] = ram[i][w][l]
  <2>1. m.statemcl \in M!Filling => i # m.ma0.i
    BY <1>2, ReadPhase DEF ReadRegs, MissStates, M!Filling
  <2> QED  BY <1>2, <1>3, <2>1, RamFilled
<1>5. \/ ram[i][w][l] = Behind(PlaceOf(tag[i], i, w), l)
      \/ StoredHere(i, w, l)
  BY DEF RamInv
<1>6. StoredHere(i, w, l)' <=> StoredHere(i, w, l)
  BY <1>1, <1>4 DEF StoredHere
<1>7. PICK p : p = PlaceOf(tag[i], i, w) /\ p = PlaceOf(tag'[i], i, w)
  BY <1>1
<1>8. Behind(PlaceOf(tag[i], i, w), l)' = Behind(p, l)'
  BY <1>7 DEF Behind
<1>9. Behind(p, l)' = Behind(p, l)
  BY <1>3, <1>7, BehindM
<1> QED  BY <1>4, <1>5, <1>6, <1>7, <1>8, <1>9

\* The words read when a fill goes on by one, from none to all.
LEMMA BetweenNext ==
  ASSUME NEW a \in Words, NEW b \in Words, NEW w \in Words
  PROVE  /\ ~Between(a, a, w)
         /\ (NextWord(b) # a /\ Between(a, NextWord(b), w)) => Between(a, b, w) \/ w = b
         /\ NextWord(b) = a => Between(a, b, w) \/ w = b
<1>1. /\ LineWords \in Nat /\ LineWords >= 4
      /\ a \in Nat /\ b \in Nat /\ w \in Nat
      /\ a < LineWords /\ b < LineWords /\ w < LineWords
  BY Sizes DEF Words
<1>2. NextWord(b) = IF b + 1 = LineWords THEN 0 ELSE b + 1
  BY <1>1 DEF NextWord
<1> QED  BY <1>1, <1>2 DEF Between

\* A fill is over, or a word has been filled: it was filled before, or is read with
\* this edge.
LEMMA FillMoves ==
  ASSUME NEW ack \in BOOLEAN, NEW answer, MSync(answer), MMoves(ack, answer),
         CoreInv, StateInv, MclTypes, SyncTypes, MEffects(ack), ReadRegs, ReadRegs',
         c.state \in MissStates, Outstanding, NEW w \in Words,
         ~Outstanding' \/ Filled(w)'
  PROVE  Filled(w) \/ (m.statemcl \in M!Filling /\ ack /\ w = m.ma0.w)
<1>1. MclInv /\ Channel0Inv /\ bc' = bc /\ bc.d0v.cmd \in Miss
  BY DEF CoreInv, MEffects, StateInv, StatesOf, MissStates, Miss, OffStates
<1>2. m.ma0 \in Addresses /\ m.ma0.w \in Words /\ m.reqw \in Words
  BY DEF MclTypes, Addresses
<1>3. CASE m.statemcl \in M!Filling
  <2>1. /\ ~Waiting /\ half.b0 # bm.b0.v /\ Arrived /\ ~m.rfillv /\ ~Takes
        /\ Command = bc.d0v.cmd
    BY <1>3, ReadPhase DEF M!Filling
  <2>2. ~answer
    BY <1>1, <1>3, <2>1, Busy DEF M!Filling, Miss
  <2>3. Outstanding' /\ m'.reqw = m.reqw
    BY <2>1, <2>2, MArrived DEF MEffects
  <2>4. CASE ack /\ M!CwLast(m)
    <3>1. NextWord(m.ma0.w) = m.reqw
      BY <2>4, SamePack DEF M!CwLast
    <3> QED  BY <1>2, <1>3, <2>1, <2>4, <3>1, BetweenNext DEF Filled
  <2>5. CASE ~(ack /\ M!CwLast(m))
    <3>1. m'.statemcl = m.statemcl /\ m.statemcl # "IDLE"
      BY <1>1, <1>3, <2>5, Busy DEF M!Filling
    <3>2. m'.ma0 = M!Ma0(m, MclIn(ack), m'.statemcl) /\ MclIn(ack).ack = ack
      BY DEF MEffects, MclIn
    <3>3. m'.ma0.w = IF ack THEN NextWord(m.ma0.w) ELSE m.ma0.w
      BY <1>2, <1>3, <3>1, <3>2, SamePack DEF M!Ma0, M!Filling, Addresses
    <3>4. Between(m.reqw, m'.ma0.w, w)
      BY <1>3, <2>3, <3>1 DEF Filled
    <3>5. ack => NextWord(m.ma0.w) # m.reqw
      BY <2>5, SamePack DEF M!CwLast
    <3>6. Between(m.reqw, m.ma0.w, w) \/ (ack /\ w = m.ma0.w)
      BY <1>2, <3>3, <3>4, <3>5, BetweenNext
    <3> QED  BY <1>3, <2>1, <3>6 DEF Filled
  <2> QED  BY <2>4, <2>5
<1>4. CASE m.statemcl \notin M!Filling
  <2> SUFFICES ASSUME Waiting PROVE FALSE
    BY <1>4 DEF Filled
  <2>1. half.b0 # bm.b0.v /\ (Arrived \/ Arrives)
    <3>1. half.b0 = bm.b0.v => ~Arrives
      BY <1>1 DEF Channel0Inv, Free, Latched, ClimbM, Rising, Arrives, ChannelTypes, FsyncReg,
                  Bit
    <3>2. ~((half.b0 = bm.b0.v \/ ~Arrived) /\ ~Arrives)
      BY MWaits DEF Filled
    <3> QED  BY <3>1, <3>2
  <2>2. /\ Outstanding' <=> ~answer
        /\ bm.d0b.s = bc.d0v
    BY <2>1, MArrived
  <2>3. CASE m.statemcl = "IDLE"
    <3>1. Takes
      BY <2>1, <2>3 DEF Waiting, Takes
    <3>2. ~m.rfillv /\ bc.d0v.cmd \in Commands
      BY <1>1, <3>1, TakesOutstanding
    <3>3. m'.statemcl = M!TakenState(bc.d0v.cmd) /\ ~answer
      BY <1>1, <2>2, <3>1, <3>2, IdleTakes DEF Miss
    <3>4. m'.statemcl \in M!Filling
      BY <1>1, <3>3 DEF M!TakenState, M!Filling, Miss
    <3>5. Between(m'.reqw, m'.ma0.w, w)
      BY <2>2, <3>3, <3>4 DEF Filled
    <3>6. m'.reqw = bc.d0v.a.w /\ m'.ma0 = M!Ma0(m, MclIn(ack), m'.statemcl)
          /\ MclIn(ack).ctom.b0d = bc.d0v
      BY <2>2, <3>1 DEF MEffects, MclIn
    <3>7. m'.ma0 = [bc.d0v.a EXCEPT !.b = 0]
      BY <2>3, <3>4, <3>6 DEF M!Ma0, M!Filling
    <3>8. bc.d0v.a \in Addresses
      BY DEF SyncTypes, CommandWords
    <3>9. m'.ma0.w = bc.d0v.a.w /\ bc.d0v.a.w \in Words
      BY <3>7, <3>8 DEF Addresses
    <3> QED  BY <3>5, <3>6, <3>9, BetweenNext
  <2>4. CASE m.statemcl # "IDLE"
    <3>1. m.statemcl = "WTHI" /\ m.statemwi = "IDLE"
      BY <1>1, <1>4, <2>4, MclPhase DEF Quiet, Blocked, Served, Waiting, M!Filling
    <3>2. m'.sbblknxst /\ ~answer
      <4>1. Arrives \/ m.sbblknxst
        BY <2>1 DEF Waiting
      <4>2. Command = "WRITESGL_FA"
        BY <1>1, <3>1 DEF Command, MclInv
      <4> QED  BY <1>1, <2>4, <3>1, <4>1, <4>2, Busy
    <3> QED  BY <2>2, <3>2 DEF Filled, Waiting
  <2> QED  BY <2>3, <2>4
<1> QED  BY <1>3, <1>4

\* A word that a fill reads is the one memory holds, and no store to it is under
\* way but the one that missed, whose lanes the fill leaves out.
LEMMA FillIsRight ==
  ASSUME CoreInv, StateInv, MclTypes, SyncTypes, ReadRegs, m.statemcl \in M!Filling
  PROVE  /\ \A l \in Lanes \ m.ry_we1 :
              bc.d0v.cmd = "WRITEMISS" /\ m.ma0.w = bc.d0v.a.w /\ l \in Sent.we
         /\ \A l \in m.ry_we1 : Behind(Place(m.ma0), l) = mem[Place(m.ma0)][l]
         /\ Place(m.ma0) = PlaceOf(bc.d0v.a.t, bc.d0v.a.i, m.ma0.w)
         /\ m.ma0.i = bc.d0v.a.i
<1>1. /\ ~Previous
      /\ m.statemcl = "RFILL" => bc.d0v.cmd = "READMISS" /\ ~Current
      /\ m.statemcl = "WFILL" => bc.d0v.cmd = "WRITEMISS" /\ Current
  BY ReadPhase DEF M!Filling
<1>2. /\ m.ma0.t = bc.d0v.a.t /\ m.ma0.i = bc.d0v.a.i /\ m.reqw = bc.d0v.a.w
      /\ m.statemcl = "RFILL" => m.ry_we1 = Lanes
      /\ m.statemcl = "WFILL" =>
           m.ry_we1 = IF m.ma0.w = m.reqw THEN Lanes \ Sent.we ELSE Lanes
      /\ m.statemcl \in {"RFILL", "WFILL"}
  BY DEF ReadRegs, M!Filling
<1>3. PICK S, p : S = Sent /\ p = Place(m.ma0)
  OBVIOUS
<1>4. S.p = Place(bc.d0v.a) /\ (S.p = p => m.ma0.w = m.reqw)
  BY <1>2, <1>3 DEF Sent, Place
<1>5. \A l : Behind(p, l) = IF Current /\ Covers(S, p, l) THEN S.d[l] ELSE mem[p][l]
  BY <1>1, <1>3 DEF Behind
<1>6. \A l \in m.ry_we1 : Behind(p, l) = mem[p][l]
  BY <1>1, <1>2, <1>3, <1>4, <1>5 DEF Covers
<1> QED  BY <1>1, <1>2, <1>3, <1>6 DEF Place, PlaceOf

\* The line being filled has the words that have been read.
LEMMA MEdgeFill ==
  ASSUME NEW ack \in BOOLEAN, MEdge(ack), NEW answer, MSync(answer), MMoves(ack, answer),
         Inv, StoreInv, MEffects(ack), ReadMEffects(ack), ReadRegs, ReadRegs', FillInv
  PROVE  FillInv'
<1>1. c' = c /\ bc' = bc /\ tag' = tag
  BY DEF MEffects, ReadMEffects
<1>2. /\ CoreInv /\ StateInv /\ StoreTypes /\ MclTypes /\ SyncTypes
      /\ bc.d0v.a \in Addresses /\ m.reqw \in Words /\ m.ma0.w \in Words
  BY DEF Inv, LockInv, TypeInv, SyncTypes, CommandWords, MclTypes, Addresses
<1>3. PICK a : a = bc.d0v.a /\ a = bc'.d0v.a
  BY <1>1
<1>4. Sent' = Sent
  BY <1>1 DEF Sent
<1> SUFFICES ASSUME c.state \in MissStates, NEW w \in Words, NEW l \in Lanes,
                    \/ ~Outstanding'
                    \/ Filled(w)'
                    \/ bc.d0v.cmd = "WRITEMISS" /\ w = a.w /\ l \in Sent.we
             PROVE  ram'[a.i][w][l] = Behind(PlaceOf(bc.d0v.a.t, bc.d0v.a.i, w), l)'
  BY <1>1, <1>3, <1>4 DEF FillInv
<1>5. PICK p : p = PlaceOf(a.t, a.i, w)
  OBVIOUS
<1>6. Behind(PlaceOf(bc.d0v.a.t, bc.d0v.a.i, w), l)' = Behind(p, l)'
  BY <1>3, <1>5 DEF Behind
<1>7. p \in Places /\ a.i \in Indices
  BY <1>2, <1>3, <1>5 DEF PlaceOf, Places, Addresses
<1>8. Behind(p, l)' = Behind(p, l)
  BY <1>7, BehindM
<1>9. ram'[a.i][w][l] =
        IF /\ ack /\ m.statemcl \in M!Filling
           /\ a.i = m.ma0.i /\ w = m.ma0.w /\ l \in m.ry_we1
          THEN mem[Place(m.ma0)][l] ELSE ram[a.i][w][l]
  BY <1>2, <1>7, RamFilled
<1> SUFFICES ram'[a.i][w][l] = Behind(p, l)
  BY <1>6, <1>8
<1>10. (\/ ~Outstanding
        \/ Filled(w)
        \/ bc.d0v.cmd = "WRITEMISS" /\ w = a.w /\ l \in Sent.we) =>
          ram[a.i][w][l] = Behind(p, l)
  BY <1>3, <1>5 DEF FillInv
<1>11. CASE m.statemcl \in M!Filling /\ ack /\ w = m.ma0.w /\ l \in m.ry_we1
  <2>1. /\ Place(m.ma0) = p /\ m.ma0.i = a.i
        /\ Behind(Place(m.ma0), l) = mem[Place(m.ma0)][l]
    BY <1>2, <1>3, <1>5, <1>11, FillIsRight
  <2> QED  BY <1>9, <1>11, <2>1
<1>12. CASE ~(m.statemcl \in M!Filling /\ ack /\ w = m.ma0.w /\ l \in m.ry_we1)
  <2>1. ram'[a.i][w][l] = ram[a.i][w][l]
    BY <1>9, <1>12
  <2>2. CASE ~Outstanding \/ (bc.d0v.cmd = "WRITEMISS" /\ w = a.w /\ l \in Sent.we)
    BY <1>10, <2>1, <2>2
  <2>3. CASE Outstanding /\ (~Outstanding' \/ Filled(w)')
    <3>1. Filled(w) \/ (m.statemcl \in M!Filling /\ ack /\ w = m.ma0.w)
      BY <1>2, <2>3, FillMoves
    <3>2. CASE Filled(w)
      BY <1>10, <2>1, <3>2
    <3>3. CASE m.statemcl \in M!Filling /\ ack /\ w = m.ma0.w
      <4>1. bc.d0v.cmd = "WRITEMISS" /\ w = a.w /\ l \in Sent.we
        BY <1>2, <1>3, <1>12, <3>3, FillIsRight
      <4> QED  BY <1>10, <2>1, <4>1
    <3> QED  BY <3>1, <3>2, <3>3
  <2> QED  BY <2>2, <2>3
<1> QED  BY <1>11, <1>12

\* Channel 2 stays in step.
LEMMA MEdgeInStep ==
  ASSUME NEW ack, NEW answer, MSync(answer), MMoves(ack, answer), CoreInv, MEffects(ack),
         InStep
  PROVE  InStep'
<1>1. /\ c' = c /\ bc' = bc /\ half' = half /\ half.b2 = bm.b2
      /\ bm'.b2 = IF m.b2en THEN bc.b2.v ELSE bm.b2
  BY DEF MEffects
<1>2. c.state = "RMISS1" => Outstanding'
  BY AnswerSeen DEF InStep
<1> QED  BY <1>1, <1>2 DEF InStep

\* A memory clock edge leaves the value of the last command's word as it is.
LEMMA WordStays ==
  ASSUME NEW ack \in BOOLEAN, MEdge(ack), Inv, StoreInv, MEffects(ack)
  PROVE  Word' = Word
<1>1. PICK p : p = Place(bc.d0v.a) /\ p = Place(bc'.d0v.a)
  BY DEF MEffects
<1>2. p \in Places
  BY <1>1 DEF Inv, TypeInv, SyncTypes, CommandWords, Place, Places, Addresses
<1>3. \A l \in Lanes : Behind(p, l)' = Behind(p, l)
  BY <1>2, BehindM
<1>4. \A l : Behind(Place(bc.d0v.a), l)' = Behind(p, l)'
  BY <1>1 DEF Behind
<1> QED  BY <1>1, <1>3, <1>4 DEF Word

\* What memory holds is that value when the command is a read.
LEMMA WordRead ==
  ASSUME CoreInv, StateInv, SyncTypes, StoreTypes, m.statemcl \in {"RFILL", "RSG"},
         Place(m.ma0) = Place(bc.d0v.a)
  PROVE  mem[Place(m.ma0)] = Word
<1>1. ~Previous /\ ~Current
  BY ReadPhase
<1>2. PICK p : p = Place(bc.d0v.a)
  OBVIOUS
<1>3. mem[p] \in [Lanes -> Nat]
  BY <1>2 DEF SyncTypes, StoreTypes, CommandWords, Place, Places, Addresses, WordValues
<1>4. \A l : Behind(p, l) = mem[p][l]
  BY <1>1 DEF Behind
<1>5. Word = [l \in Lanes |-> Behind(p, l)]
  BY <1>2 DEF Word
<1> QED  BY <1>2, <1>3, <1>4, <1>5

\* The critical word is read, and shown with the next edge.
LEMMA MEdgeWord2 ==
  ASSUME NEW ack \in BOOLEAN, MEdge(ack), Inv, StoreInv, MEffects(ack),
         ReadMEffects(ack), ReadRegs, Word2Inv
  PROVE  Word2Inv'
<1>1. /\ c' = c /\ bc' = bc
      /\ bm'.b2 = IF m.b2en THEN bc.b2.v ELSE bm.b2
      /\ bm'.d2v = IF m.b2en THEN m.cd ELSE bm.d2v
      /\ m'.b2en => m'.cd = mem[Place(m.ma0)]
      /\ m'.b2en => m.statemcl \in M!Filling /\ m.ma0.w = m.reqw
  BY DEF MEffects, ReadMEffects
<1>2. CoreInv /\ StateInv /\ SyncTypes /\ StoreTypes
  BY DEF Inv, LockInv, TypeInv
<1>3. Word' = Word
  BY WordStays
<1>4. ASSUME c.state \in {"RMISS1", "RMISS2"}, m'.b2en PROVE m'.cd = Word
  <2>1. m.statemcl = "RFILL"
    BY <1>1, <1>2, <1>4, ReadPhase DEF M!Filling
  <2>2. Place(m.ma0) = Place(bc.d0v.a)
    BY <1>1, <1>4 DEF ReadRegs, Place
  <2> QED  BY <1>1, <1>2, <1>4, <2>1, <2>2, WordRead
<1> QED  BY <1>1, <1>3, <1>4 DEF Word2Inv

\* The answer to a single read comes after its word: the word is read, kept for a
\* cycle, and loaded.
LEMMA SingleReadMoves ==
  ASSUME NEW ack \in BOOLEAN, NEW answer, MSync(answer), MMoves(ack, answer), CoreInv,
         StateInv, c.state # "IDLE", bc.d0v.cmd \in SingleReads
  PROVE  /\ m'.rfillv => m.rfillv_pre1
         /\ m'.rfillv_pre1 => m.statemcl = "RSG" /\ m.men /\ ack
         /\ ~(Takes /\ Command = "WRITESGL_FA")
         /\ (Outstanding /\ ~Outstanding') => m.rfillv
<1>1. MclInv /\ Channel0Inv
  BY DEF CoreInv
<1>2. Takes => bm.d0b.s = bc.d0v /\ bc.d0v.cmd \in Commands
  BY <1>1, TakesOutstanding
<1>3. ~(Takes /\ Command = "WRITESGL_FA")
  BY <1>1, <1>2 DEF Command, MclInv, Takes, SingleReads
<1>4. (half.b0 # bm.b0.v /\ Arrived) => bm.d0b.s = bc.d0v
  BY <1>1 DEF Channel0Inv, Serving
<1>5. /\ m.statemcl \notin {"RFILL", "WTHA", "WSG"}
      /\ m.statemcl = "WTHI" => m.statemwi = "IDLE"
  BY <1>1, <1>4, MclPhase DEF Quiet, Blocked, Served, SingleReads
<1>6. m'.rfillv => m.rfillv_pre1
  <2>1. CASE m.statemcl = "IDLE" /\ ~Takes
    BY <1>1, <2>1, IdleWaits
  <2>2. CASE Takes
    BY <1>1, <1>2, <2>2, IdleTakes DEF SingleReads
  <2>3. CASE m.statemcl # "IDLE"
    BY <1>1, <1>5, <2>3, Busy
  <2> QED  BY <2>1, <2>2, <2>3
<1>7. m'.rfillv_pre1 => m.statemcl = "RSG" /\ m.men /\ ack
  <2>1. CASE m.statemcl = "IDLE" /\ ~Takes
    BY <1>1, <2>1, IdleWaits
  <2>2. CASE Takes
    BY <1>1, <1>2, <2>2, IdleTakes
  <2>3. CASE m.statemcl # "IDLE"
    BY <1>1, <2>3, Busy
  <2> QED  BY <2>1, <2>2, <2>3
<1>8. ASSUME Outstanding, ~Outstanding' PROVE m.rfillv
  <2>1. half.b0 # bm.b0.v /\ (Arrived \/ Arrives)
    <3>1. half.b0 = bm.b0.v => ~Arrives
      BY <1>1 DEF Channel0Inv, Free, Latched, ClimbM, Rising, Arrives, ChannelTypes, FsyncReg,
                  Bit
    <3> QED  BY <1>8, <3>1, MWaits
  <2>2. answer /\ bm.d0b.s = bc.d0v
    BY <1>8, <2>1, MArrived
  <2>3. CASE m.statemcl = "IDLE" /\ ~Takes
    BY <1>1, <2>2, <2>3, IdleWaits DEF SingleReads
  <2>4. CASE Takes
    BY <1>1, <1>2, <2>2, <2>4, IdleTakes DEF SingleReads
  <2>5. CASE m.statemcl # "IDLE"
    <3>1. Command = "WRITESGL_FA" => m.statemcl = "WTHI"
      BY <1>1, <2>2 DEF Command, SingleReads
    <3> QED  BY <1>1, <1>5, <2>2, <2>5, <3>1, Busy
  <2> QED  BY <2>3, <2>4, <2>5
<1> QED  BY <1>3, <1>6, <1>7, <1>8

\* The word of an uncached read is read, kept, and shown with the answer.
LEMMA MEdgeWord0 ==
  ASSUME NEW ack \in BOOLEAN, MEdge(ack), NEW answer, MSync(answer), MMoves(ack, answer),
         Inv, StoreInv, MEffects(ack), ReadMEffects(ack), ReadRegs, Word0Inv
  PROVE  Word0Inv'
<1>1. /\ c' = c /\ bc' = bc
      /\ bm'.d0v = IF (Takes /\ Command = "WRITESGL_FA") \/ m'.rfillv THEN m.b0d_unc
                                                                    ELSE bm.d0v
      /\ m'.b0d_unc = IF m.men /\ ack THEN mem[Place(m.ma0)] ELSE m.b0d_unc
  BY DEF MEffects, ReadMEffects
<1>2. CoreInv /\ StateInv /\ SyncTypes /\ StoreTypes
  BY DEF Inv, LockInv, TypeInv
<1>3. Word' = Word
  BY WordStays
<1> SUFFICES ASSUME c.state # "IDLE", bc.d0v.cmd \in SingleReads
             PROVE  /\ m'.rfillv_pre1 => m'.b0d_unc = Word
                    /\ m'.rfillv => bm'.d0v = Word
                    /\ ~Outstanding' => bm'.d0v = Word
  BY <1>1, <1>3 DEF Word0Inv
<1>4. /\ m'.rfillv => m.rfillv_pre1
      /\ m'.rfillv_pre1 => m.statemcl = "RSG" /\ m.men /\ ack
      /\ ~(Takes /\ Command = "WRITESGL_FA")
      /\ (Outstanding /\ ~Outstanding') => m.rfillv
  BY <1>2, SingleReadMoves
<1>5. m'.rfillv_pre1 => m'.b0d_unc = Word
  <2>1. m.statemcl = "RSG" => Place(m.ma0) = Place(bc.d0v.a)
    BY DEF ReadRegs
  <2> QED  BY <1>1, <1>2, <1>4, <2>1, WordRead
<1>6. m'.rfillv => bm'.d0v = Word
  BY <1>1, <1>4 DEF Word0Inv
<1>7. ~Outstanding' => bm'.d0v = Word
  BY <1>1, <1>4, <1>6 DEF Word0Inv
<1> QED  BY <1>5, <1>6, <1>7

-------------------------------------------------------------------------------
(* The invariant.                                                            *)

\* At reset the cache is empty and nothing is on its way.
LEMMA ReadsInit == Init => ReadInv
<1> SUFFICES ASSUME Init PROVE ReadInv
  OBVIOUS
<1>1. /\ c.state = "IDLE" /\ c.ffv = {} /\ ~c.a_prev_v /\ ~c.sa_en_state
      /\ c.rfillv = 0 /\ c.b2en_r = 0
  BY DEF Init, CclReset
<1>2. m.statemcl = "IDLE"
  BY DEF Init, M!MclReset
<1>3. ~cpu.lock /\ cpu.tas = "none" /\ sa = [en |-> FALSE, al |-> sa.al]
  BY DEF Init
<1>4. /\ bc.b0.m = 0 /\ bc.b0.s = 0 /\ bc.b2.m = 0 /\ bc.b2.s = 0
      /\ half.b2 = 0 /\ bm.b2 = 0
  BY DEF Init, FsyncReset
<1>5. LookupInv
  BY <1>1, <1>3 DEF LookupInv, AskInv, OutInv, HitInv, DropInv, NoSnoop, OffStates, LockStates
<1>6. LineInv
  BY <1>1, <1>2 DEF LineInv, RamInv, FillInv, ReadRegs, MissStates, M!Filling
<1>7. WordInv
  BY <1>1, <1>4 DEF WordInv, InStep, Word2Inv, Word0Inv
<1> QED  BY <1>5, <1>6, <1>7 DEF ReadInv

\* A cpu clock edge keeps the account of the reads,
LEMMA CEdgeRead ==
  ASSUME MaxRemote = 0, CEdge, Inv, StoreInv, ReadInv
  PROVE  ReadInv'
<1>1. /\ CoreInv /\ CclInv /\ ChannelTypes /\ CpuTypes /\ SyncTypes /\ StateInv
      /\ Channel2Inv /\ CpuInv
  BY DEF Inv, CoreInv, Channel0Inv, TypeInv, LockInv, LinkInv, StoreInv
<1>2. /\ AskInv /\ OutInv /\ HitInv /\ DropInv /\ NoSnoop /\ RamInv /\ FillInv /\ ReadRegs
      /\ InStep /\ Word2Inv /\ Word0Inv
  BY DEF ReadInv, LookupInv, LineInv, WordInv
<1>3. LookupCEffects /\ NoSnoop' /\ RamCEffects /\ WordCEffects
  BY <1>1, <1>2, CEdgeLookup, CEdgeRams, CEdgeWords
<1>4. LookupInv'
  BY <1>1, <1>2, <1>3, CEdgeAsk, CEdgeOut, CEdgeHit, CEdgeDrop DEF LookupInv
<1>5. LineInv'
  BY <1>1, <1>2, <1>3, CEdgeRam, CEdgeFill, CEdgeReadRegs DEF LineInv
<1>6. WordInv'
  BY <1>1, <1>2, <1>3, CEdgeInStep, CEdgeWord2, CEdgeWord0 DEF WordInv
<1> QED  BY <1>4, <1>5, <1>6 DEF ReadInv

\* so does a memory clock edge,
LEMMA MEdgeRead ==
  ASSUME NEW ack \in BOOLEAN, MEdge(ack), Inv, StoreInv, ReadInv
  PROVE  ReadInv'
<1>1. PICK answer : MSync(answer) /\ MMoves(ack, answer)
  BY MEdgeParts
<1>2. CoreInv /\ MclInv /\ MclTypes /\ SyncTypes /\ StoreTypes /\ StateInv /\ HistInv
  BY DEF Inv, CoreInv, TypeInv, LockInv
<1>3. /\ LookupInv /\ RamInv /\ FillInv /\ ReadRegs
      /\ InStep /\ Word2Inv /\ Word0Inv
  BY DEF ReadInv, LineInv, WordInv
<1>4. MEffects(ack) /\ ReadMEffects(ack)
  BY <1>1, <1>2, MEdgeEffects, MEdgeReads
<1>5. LookupInv'
  BY <1>2, <1>3, <1>4, MEdgeLookup
<1>6. ReadRegs'
  BY <1>1, <1>2, <1>3, <1>4, MEdgeReadRegs
<1>7. LineInv'
  BY <1>1, <1>3, <1>4, <1>6, MEdgeRam, MEdgeFill DEF LineInv
<1>8. WordInv'
  BY <1>1, <1>2, <1>3, <1>4, MEdgeInStep, MEdgeWord2, MEdgeWord0 DEF WordInv
<1> QED  BY <1>5, <1>7, <1>8 DEF ReadInv

\* and so do the half-cycle latches: that of channel 2 opens only after the cpu side
\* has seen channel 0 busy.
LEMMA LatchRead ==
  ASSUME Inv, StoreInv, ReadInv, CLow \/ MLow \/ UNCHANGED vars
  PROVE  ReadInv'
<1>1. CoreInv /\ Channel2Inv /\ HistShape /\ half = [b0 |-> half.b0, b2 |-> half.b2]
  BY DEF Inv, LinkInv, StoreInv, CoreInv, Channel0Inv, ChannelTypes
<1>2. /\ c' = c /\ m' = m /\ bc' = bc /\ bm' = bm /\ cpu' = cpu
      /\ ram' = ram /\ tag' = tag /\ ra' = ra /\ sa' = sa
      /\ Waiting' <=> Waiting
  BY <1>1, StoresUntouched DEF CLow, MLow, vars
<1>3. \A p, l : Behind(p, l)' = Behind(p, l)
  BY <1>1, BehindOther
<1>4. half'.b2 = half.b2 \/ (MLow /\ half'.b2 = bm.b2 /\ half.b2 # bm.b2)
  BY <1>1 DEF CLow, MLow, vars
<1>5. LookupInv'
  BY <1>2 DEF ReadInv, LookupInv, AskInv, OutInv, Out, OutWord, HitInv, DropInv, NoSnoop
<1>6. LineInv'
  <2>1. \A i, w, l : Behind(PlaceOf(tag[i], i, w), l)' = Behind(PlaceOf(tag[i], i, w), l)
    <3> TAKE i, w, l
    <3>1. PICK p : p = PlaceOf(tag[i], i, w) /\ p = PlaceOf(tag'[i], i, w)
      BY <1>2
    <3>2. Behind(PlaceOf(tag[i], i, w), l)' = Behind(p, l)'
      BY <3>1 DEF Behind
    <3> QED  BY <1>3, <3>1, <3>2
  <2>2. \A w, l : Behind(PlaceOf(bc.d0v.a.t, bc.d0v.a.i, w), l)'
                    = Behind(PlaceOf(bc.d0v.a.t, bc.d0v.a.i, w), l)
    <3> TAKE w, l
    <3>1. PICK p : /\ p = PlaceOf(bc.d0v.a.t, bc.d0v.a.i, w)
                   /\ p = PlaceOf(bc'.d0v.a.t, bc'.d0v.a.i, w)
      BY <1>2
    <3>2. Behind(PlaceOf(bc.d0v.a.t, bc.d0v.a.i, w), l)' = Behind(p, l)'
      BY <3>1 DEF Behind
    <3> QED  BY <1>3, <3>1, <3>2
  <2>3. \A i, w, l : StoredHere(i, w, l)' <=> StoredHere(i, w, l)
    BY <1>2 DEF StoredHere
  <2>4. RamInv'
    <3> SUFFICES ASSUME NEW i \in c.ffv, ~(c.state \in MissStates /\ i = bc.d0v.a.i),
                        NEW w \in Words, NEW l \in Lanes
                 PROVE  \/ ram[i][w][l] = Behind(PlaceOf(tag[i], i, w), l)'
                        \/ StoredHere(i, w, l)'
      BY <1>2 DEF RamInv
    <3>1. \/ ram[i][w][l] = Behind(PlaceOf(tag[i], i, w), l)
          \/ StoredHere(i, w, l)
      BY DEF ReadInv, LineInv, RamInv
    <3> QED  BY <2>1, <2>3, <3>1
  <2>5. (\A w : Filled(w)' <=> Filled(w)) /\ (Outstanding' <=> Outstanding) /\ Sent' = Sent
    BY <1>2 DEF Filled, Outstanding, Sent
  <2>6. FillInv'
    BY <1>2, <2>2, <2>5 DEF ReadInv, LineInv, FillInv
  <2>7. ReadRegs'
    BY <1>2, <2>5 DEF ReadInv, LineInv, ReadRegs
  <2> QED  BY <2>4, <2>6, <2>7 DEF LineInv
<1>7. WordInv'
  <2>1. Outstanding' <=> Outstanding
    BY <1>2 DEF Outstanding
  <2>2. c.state = "RMISS1" => half'.b2 = half.b2
    BY <1>1, <1>4 DEF Channel2Inv, WordShown, CoreInv, Channel0Inv, Serving, ReadInv, WordInv,
                      InStep
  <2>3. InStep'
    BY <1>2, <1>4, <2>1, <2>2 DEF ReadInv, WordInv, InStep
  <2>4. Word' = Word
    <3>1. PICK p : p = Place(bc.d0v.a) /\ p = Place(bc'.d0v.a)
      BY <1>2
    <3>2. \A l : Behind(Place(bc.d0v.a), l)' = Behind(p, l)'
      BY <3>1 DEF Behind
    <3> QED  BY <1>3, <3>1, <3>2 DEF Word
  <2> QED  BY <1>2, <2>1, <2>3, <2>4 DEF ReadInv, WordInv, Word2Inv, Word0Inv
<1> QED  BY <1>5, <1>6, <1>7 DEF ReadInv

\* With no other master every step does.
LEMMA ReadsStep ==
  ASSUME MaxRemote = 0
  PROVE  Inv /\ StoreInv /\ ReadInv /\ [Next]_vars => ReadInv'
<1>1. ~RemoteWrite
  BY DEF RemoteWrite, Remotes
<1> QED  BY <1>1, CEdgeRead, MEdgeRead, LatchRead DEF Next, MemAck, MemWait

\* What the cpu reads is where the invariant says.
LEMMA ReadIsRight ==
  ASSUME Inv, StoreInv, ReadInv, cpu.a.en, ~cpu.a.wr, Acked, NEW l \in Lanes
  PROVE  ReadData[l] = Behind(Place(cpu.a.a), l)
<1>1. /\ CclInv /\ StateInv /\ CpuInv /\ cpu.a.a \in Addresses
      /\ AskInv /\ OutInv /\ HitInv /\ RamInv /\ Word2Inv /\ Word0Inv
  BY DEF Inv, CoreInv, TypeInv, LockInv, StoreInv, ReadInv, LookupInv, LineInv, WordInv,
         CpuTypes, CpuRequests
<1>2. ReadData = IF ~c.dc_onm \/ cpu.lock THEN bc.d0s.s
                 ELSE IF c.state = "RMISS2" THEN bc.d2s.s ELSE Out
  BY DEF ReadData, YData, CclIn, Out
<1>3. Word[l] = Behind(Place(bc.d0v.a), l)
  BY DEF Word
<1>4. ASSUME c.state \in {"RLOCK2", "OFF2"}, Answered, ~c.dc_onm \/ cpu.lock
      PROVE  ReadData[l] = Behind(Place(cpu.a.a), l)
  <2>1. bc.d0v.cmd \in SingleReads
    BY <1>1, <1>4 DEF StateInv, StatesOf, CpuInv, OffStates, SingleReads, WriteCommands
  <2>2. bc.d0s.s = Word /\ cpu.a.a = bc.d0v.a
    BY <1>1, <1>4, <2>1 DEF Word0Inv, Answered, AskInv, OffStates, LockStates
  <2> QED  BY <1>2, <1>3, <1>4, <2>2
<1>5. CASE ~c.dc_onm
  BY <1>4, <1>5, AckedOff
<1>6. CASE c.dc_onm /\ c.state = "RMISS2" /\ Critical
  <2>1. bc.d2s.s = Word /\ cpu.a.a = bc.d0v.a /\ ~cpu.lock
    BY <1>1, <1>6 DEF Word2Inv, Critical, AskInv, CpuInv
  <2> QED  BY <1>2, <1>3, <1>6, <2>1
<1>7. CASE c.dc_onm /\ c.state \in {"RLOCK2", "WUNCA2"} /\ Answered
  BY <1>1, <1>4, <1>7 DEF StateInv, LockStates, CpuInv
<1>8. CASE c.dc_onm /\ c.state \in {"IDLE", "SB2"} /\ ~cpu.lock /\ Near /\ Hit
           /\ AdrsRSeqEqu(c, CclIn)
  <2>1. /\ cpu.a.a.i = c.a_prev.a.i /\ cpu.a.a.i \in c.ffv
        /\ tag[cpu.a.a.i] = cpu.a.a.t
    BY <1>1, <1>8, HitIsRight DEF MissStates
  <2>2. c.a_prev_v /\ ~c.a_prev.wr /\ OutWord = cpu.a.a.w
    <3>1. /\ c.a_prev_v /\ ~c.a_prev.wr
          /\ \/ c.a_prev.a.w + 1 = cpu.a.a.w
             \/ c.a_prev.a.w = cpu.a.a.w /\ ~c.pref_inc
      BY <1>8, CclSignals DEF AdrsRSeqEqu, Near
    <3>2. ~c.pref_inc => cpu.a.a = c.a_prev.a
      BY <1>1, <1>8, <3>1 DEF AskInv, MissStates
    <3>3. c.pref_inc => NextWord(c.a_prev.a.w) = cpu.a.a.w
      <4>1. c.a_prev.a.w \in Words /\ cpu.a.a.w \in Words
        BY <1>1 DEF Inv, TypeInv, CclTypes, Addresses
      <4>2. c.a_prev.a.w \in Nat /\ cpu.a.a.w < LineWords /\ LineWords \in Nat
        BY <4>1, Sizes DEF Words
      <4>3. c.pref_inc => c.a_prev.a.w + 1 = cpu.a.a.w
        BY <3>1
      <4>4. c.pref_inc => (c.a_prev.a.w + 1) % LineWords = c.a_prev.a.w + 1
        BY <4>2, <4>3
      <4> QED  BY <4>3, <4>4 DEF NextWord
    <3> QED  BY <3>1, <3>2, <3>3 DEF OutWord
  <2>3. ReadData = ram[cpu.a.a.i][cpu.a.a.w]
    BY <1>1, <1>2, <1>8, <2>1, <2>2 DEF OutInv, MissStates
  <2>4. cpu.a.a.w \in Words /\ Place(cpu.a.a) = PlaceOf(tag[cpu.a.a.i], cpu.a.a.i, cpu.a.a.w)
    BY <1>1, <2>1 DEF Addresses, Place, PlaceOf
  <2> QED  BY <1>1, <1>8, <2>1, <2>3, <2>4 DEF RamInv, StoredHere, MissStates
<1> QED  BY <1>1, <1>5, <1>6, <1>7, <1>8, AckedOn

\* So it is the cpu's own last store to the lane, or what memory holds.
LEMMA FreshRead == Inv /\ StoreInv /\ ReadInv => ReadsAreFresh
<1> SUFFICES ASSUME Inv, StoreInv, ReadInv, cpu.a.en, ~cpu.a.wr, Acked, NEW l \in Lanes
             PROVE  ReadData[l] \in Acceptable(Place(cpu.a.a), l)
  BY DEF ReadsAreFresh
<1>1. Expected(Place(cpu.a.a), l) = Behind(Place(cpu.a.a), l)
  BY ExpectedBehind DEF StoreInv, Asking
<1> QED  BY <1>1, ReadIsRight DEF Acceptable

\* Every read the cache answers, from its RAM, from a fill under way or from memory,
\* returns for every lane the cpu's own last store to it or, failing that, what
\* memory holds, as long as nobody else writes memory: whatever the two clocks'
\* phases and the memory's delay, and whether the cache is on, off or switched
\* meanwhile, and the access locked or not.
THEOREM ReadsFreshAlone ==
  ASSUME MaxRemote = 0
  PROVE  Spec => []ReadsAreFresh
<1>1. Spec => []ReadInv
  <2>1. Inv /\ StoreInv /\ ReadInv /\ [Next]_vars => ReadInv'
    BY ReadsStep
  <2> QED  BY <2>1, ReadsInit, Invariance, StoresAccounted, PTL DEF Spec
<1> QED  BY <1>1, FreshRead, Invariance, StoresAccounted, PTL

===============================================================================
