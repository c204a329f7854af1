------------------------------ MODULE DcacheCcl ------------------------------
(***************************************************************************)
(* The cpu-clock half of the data cache (cache/dcache_ccl.vhm): hit check, *)
(* acknowledge to the cpu, miss handling, store buffer, locked accesses,   *)
(* snooping.  Each operator is one signal of the process, as a function of *)
(* the registers r and the inputs x =                                      *)
(*   [a, a_lock]  the cpu's request and its lock attribute                 *)
(*   sa           the other cpu's snoop output                             *)
(*   ra           the RAMs' registered outputs (tag0, tag1, d0)            *)
(*   mtoc         the memory half's answers through the synchroniser       *)
(*   ctrl         cache on and invalidate                                  *)
(* The clock edge itself is CclNext.  Registers nothing reads (ta0, and    *)
(* sabank_rcv, which only shows in a cycle that sets it) are left out.     *)
(***************************************************************************)
EXTENDS DcachePack

CclStates == {"IDLE", "RMISS1", "RMISS2", "RMISS3", "WMISS1", "WMISS2", "SB1",
              "SB2", "OFF1", "OFF2", "RLOCK1", "RLOCK2", "NEGLCK", "WUNCA1",
              "WUNCA2"}

\* The two banks of write-completion channels.
Banks == 0 .. 1

CclReset ==
  [state |-> "IDLE", state_del1 |-> "IDLE", ma0 |-> Address0,
   a_prev |-> [wr |-> FALSE, a |-> Address0], a_prev_v |-> FALSE,
   sa_al |-> Line(Address0), sa_en_state |-> FALSE,
   saout_al1 |-> Line(Address0), saout_al2 |-> [k \in Banks |-> Line(Address0)],
   sabank_send |-> 0, c_hitstate |-> FALSE, memlock_state |-> FALSE,
   pref_inc |-> FALSE, aen_del1 |-> FALSE, aenrd_del1 |-> FALSE,
   dw |-> JunkWord, ry_twr |-> FALSE, ry_en0 |-> FALSE, ffv |-> {},
   rfillv |-> 0, dc_onm |-> FALSE, dc_inv |-> FALSE, b2en_r |-> 0,
   b3en_r |-> [k \in Banks |-> 0]]

-------------------------------------------------------------------------------
(* Answers from the memory half: falling edges of the channels' busy bits.   *)

\* A slip: the level of the busy bit is taken for its falling edge.
MemTransAckLevel(r, x) == x.mtoc.b0enr = 0

MemTransAck(r, x) == x.mtoc.b0enr = 0 /\ r.rfillv = 1

CriticalWord(r, x) == r.b2en_r = 1 /\ x.mtoc.b2enr = 0

\* obs_wrcompl_ack: the banks whose write has completed.
WriteCompleted(r, x) == {k \in Banks : r.b3en_r[k] = 1 /\ x.mtoc.b3enr[k] = 0}

\* A slip: a completion is announced with the line of the write issued last.
SnoopOutLast(r, x) ==
  [en |-> WriteCompleted(r, x) # {}, al |-> r.saout_al1]

\* sy: tell the other cpu which line was written; bank 1 goes first.
SnoopOut(r, x) ==
  [en |-> WriteCompleted(r, x) # {},
   al |-> r.saout_al2[IF 1 \in WriteCompleted(r, x) THEN 1 ELSE 0]]

-------------------------------------------------------------------------------
(* Hit check.                                                                *)

AdrsEquCacheLi(r, x) == r.a_prev_v /\ Line(r.a_prev.a) = Line(x.a.a)

\* The word asked for is the one the data RAM read ahead, or the one it read.
AdrsRSeqEqu(r, x) ==
  /\ AdrsEquCacheLi(r, x)
  /\ ~r.a_prev.wr
  /\ \/ r.a_prev.a.w + 1 = x.a.a.w
     \/ r.a_prev.a.w = x.a.a.w /\ ~r.pref_inc

CacheHit(r, x) ==
  /\ IF r.aen_del1 THEN x.ra.tag0 = r.a_prev.a.t ELSE r.c_hitstate
  /\ x.a.a.i \in r.ffv

\* The line in the snoop register is in the cache: its tag was read one cycle
\* ago, unless the tag RAM was being written.
CacheHitSnoop(r, x) == r.sa_en_state /\ ~r.ry_twr /\ r.sa_al.t = x.ra.tag1

-------------------------------------------------------------------------------
(* Acknowledge and data to the cpu.                                          *)

\* Independent of the hit check: a write the store buffer takes, and the word a
\* read missed.
YAckI1(r, x) ==
  /\ x.a.en
  /\ \/ /\ r.state = "IDLE"
        /\ ~x.a_lock /\ x.a.wr /\ AdrsEquCacheLi(r, x)
     \/ r.state = "RMISS2" /\ CriticalWord(r, x)
     \/ /\ r.state = "SB2"
        /\ ~x.a_lock /\ x.a.wr /\ AdrsEquCacheLi(r, x)
        /\ MemTransAck(r, x)
        /\ x.ctrl.en = r.dc_onm

\* An uncached access has ended.
YAckI2(r, x) ==
  x.a.en /\ r.state \in {"RLOCK2", "WUNCA2"} /\ MemTransAck(r, x)

\* A read whose word is at the RAM's output, if it is a hit.
YAckD(r, x) ==
  /\ x.a.en
  /\ r.state \in {"IDLE", "SB2"}
  /\ ~x.a_lock /\ ~x.a.wr /\ AdrsRSeqEqu(r, x)

YAck(r, x) ==
  IF r.dc_onm
    THEN YAckI1(r, x) \/ YAckI2(r, x) \/ (YAckD(r, x) /\ CacheHit(r, x))
    ELSE r.state = "OFF2" /\ MemTransAck(r, x)

RamWordValid(r) == r.aenrd_del1 /\ r.ry_en0

\* From channel 0 when uncached, from channel 2 on a miss, else from the RAM.
YData(r, x) ==
  IF ~r.dc_onm \/ x.a_lock THEN x.mtoc.b0d_unc
  ELSE IF r.state = "RMISS2" THEN x.mtoc.b2d_cfil
  ELSE IF RamWordValid(r) THEN x.ra.d0 ELSE r.dw

-------------------------------------------------------------------------------
(* The state machine.                                                        *)

\* Where a write that the store buffer takes goes.
WriteState(r, x) == IF CacheHit(r, x) THEN "SB1" ELSE "WMISS1"

IdleOn(r, x) ==
  CASE ~x.a.en ->
         IF ~x.a_lock /\ r.memlock_state THEN "NEGLCK" ELSE "IDLE"
    [] x.a.en /\ ~AdrsEquCacheLi(r, x) -> "IDLE"    \* tag not read yet
    [] OTHER ->
         IF x.a_lock THEN (IF x.a.wr THEN "WUNCA1" ELSE "RLOCK1")
         ELSE IF x.a.wr THEN WriteState(r, x)
         ELSE IF CacheHit(r, x) THEN "IDLE" ELSE "RMISS1"

IdleOff(r, x) ==
  IF x.a.en THEN "OFF1"
  ELSE IF ~x.a_lock /\ r.memlock_state THEN "NEGLCK" ELSE "IDLE"

\* SB2 on the acknowledge: the next store may follow at once.
Sb2Acked(r, x) ==
  IF /\ x.ctrl.en = r.dc_onm
     /\ x.a.en /\ x.a.wr /\ AdrsEquCacheLi(r, x)
    THEN WriteState(r, x) ELSE "IDLE"

NextStateOn(r, x) ==
  CASE r.state = "IDLE"   -> IdleOn(r, x)
    [] r.state = "SB1"    -> IF MemTransAck(r, x) THEN "IDLE" ELSE "SB2"
    [] r.state = "SB2"    -> IF MemTransAck(r, x) THEN Sb2Acked(r, x) ELSE "SB2"
    [] r.state = "RMISS1" -> "RMISS2"
    [] r.state = "RMISS2" -> IF CriticalWord(r, x) THEN "RMISS3"
                             ELSE IF MemTransAck(r, x) THEN "IDLE" ELSE "RMISS2"
    [] r.state = "WMISS1" -> "WMISS2"
    [] r.state = "RLOCK1" -> "RLOCK2"
    [] r.state = "WUNCA1" -> "WUNCA2"
    [] r.state \in {"OFF1", "OFF2"} -> "IDLE"
    [] OTHER -> IF MemTransAck(r, x) THEN "IDLE" ELSE r.state

NextStateOff(r, x) ==
  CASE r.state = "IDLE" -> IdleOff(r, x)
    [] r.state = "OFF1" -> "OFF2"
    [] r.state \in {"OFF2", "NEGLCK"} ->
         IF MemTransAck(r, x) THEN "IDLE" ELSE r.state
    [] OTHER -> "IDLE"

NextState(r, x) == IF r.dc_onm THEN NextStateOn(r, x) ELSE NextStateOff(r, x)

-------------------------------------------------------------------------------
(* Commands to the memory half (ctom), sent as a state is entered; st is     *)
(* nx.state.                                                                 *)

B0en(r, st) ==
  \/ st \in {"RMISS1", "OFF1", "WMISS1", "SB1", "RLOCK1", "WUNCA1"}
  \/ st = "NEGLCK" /\ r.state = "IDLE"

Cmd(x, st) ==
  CASE st = "WUNCA1" \/ (st = "OFF1" /\ x.a.wr) -> "WRITESGL_SL"
    [] st = "RLOCK1" \/ (st = "OFF1" /\ ~x.a.wr /\ x.a_lock) -> "READSGL_LO"
    [] st = "OFF1" /\ ~x.a.wr /\ ~x.a_lock -> "READSGL_NM"
    [] st = "WMISS1" -> "WRITEMISS"
    [] st = "SB1"    -> "WRITESGL_FA"
    [] st = "NEGLCK" -> "NEGATE_LO"
    [] OTHER         -> "READMISS"

B0d(x, st) ==
  [cmd |-> Cmd(x, st), a |-> x.a.a,
   sz  |-> IF st \in {"RMISS1", "NEGLCK"} THEN "lane" ELSE Size(x.a.we),
   d   |-> IF st \in {"RMISS1", "NEGLCK"} THEN JunkWord ELSE x.a.d]

B2en(st) == st \in {"RMISS1", "WMISS1"}

\* A write takes a completion bank; the banks take turns.
SendsWrite(r, x, st) == B0en(r, st) /\ st # "NEGLCK" /\ x.a.wr

B3en(r, x, st) == IF SendsWrite(r, x, st) THEN {1 - r.sabank_send} ELSE {}

-------------------------------------------------------------------------------
(* Data and tag RAM ports.                                                   *)

TagWrite(r) == r.state \in {"RMISS1", "WMISS1"}                      \* twr0

TagIndex(r, x) == IF r.state = "WMISS1" THEN r.ma0.i ELSE x.a.a.i     \* ta0

SnoopIndex(r, x) == IF TagWrite(r) THEN TagIndex(r, x) ELSE x.sa.al.i  \* ta1

RamEnable(r, x) ==                                                   \* en0
  ~ \/ r.state = "RMISS2"
    \/ r.state \in {"RMISS3", "WMISS2"} /\ ~MemTransAck(r, x)

RamWrite(r, x) ==                                                    \* wr0
  x.a.en /\ x.a.wr /\ ~x.a_lock /\ r.state \in {"IDLE", "SB1", "SB2"}

\* A read that is answered reads the next word ahead.
ReadsAhead(r, x) == (YAckI1(r, x) \/ YAckD(r, x)) /\ ~x.a.wr

RamWord(r, x) ==                                             \* a0(2 downto 0)
  IF ReadsAhead(r, x) THEN NextWord(x.a.a.w) ELSE x.a.a.w

-------------------------------------------------------------------------------
(* The registers after the edge.                                             *)

CHitState(r, x) ==
  IF ~r.dc_onm \/ r.dc_inv THEN FALSE
  ELSE IF x.a.en THEN CacheHit(r, x) ELSE r.c_hitstate

\* A slip: a cached locked read is not remembered.
MemLockStateOffOnly(r, x) ==
  \/ r.state = "OFF1" /\ ~x.a.wr /\ x.a_lock
  \/ r.memlock_state /\ x.a_lock /\ ~(x.a.en /\ x.a.wr)

MemLockState(r, x) ==
  \/ r.state = "RLOCK1"
  \/ r.state = "OFF1" /\ ~x.a.wr /\ x.a_lock
  \/ r.memlock_state /\ x.a_lock /\ ~(x.a.en /\ x.a.wr)

APrevV(r, x) ==
  /\ r.dc_onm
  /\ ~(r.state = "RMISS3" /\ r.state_del1 = "RMISS2")
  /\ r.state # "WMISS1"
  /\ ~CacheHitSnoop(r, x)
  /\ ~(MemTransAck(r, x) /\ r.state \in {"RLOCK2", "WUNCA2"})
  /\ x.a.en \/ r.a_prev_v

PrefInc(r, x) ==
  /\ r.dc_onm
  /\ r.state \notin {"RMISS2", "RMISS3", "WMISS2"}
  /\ IF x.a.en THEN ReadsAhead(r, x) ELSE r.pref_inc

\* A slip: the invalidate bit is forgotten.
FfvKept(r, x) ==
  ((r.ffv \cup (IF TagWrite(r) THEN {r.ma0.i} ELSE {}))
     \ (IF r.state = "RLOCK1" THEN {r.ma0.i} ELSE {}))
     \ (IF CacheHitSnoop(r, x) THEN {r.sa_al.i} ELSE {})

\* The valid bits.  A fill sets one as it starts, a locked read drops one, and
\* a snoop hit drops one whatever else happens.
Ffv(r, x) ==
  IF ~r.dc_onm \/ r.dc_inv THEN {}
  ELSE ((r.ffv \cup (IF TagWrite(r) THEN {r.ma0.i} ELSE {}))
          \ (IF r.state = "RLOCK1" THEN {r.ma0.i} ELSE {}))
          \ (IF CacheHitSnoop(r, x) THEN {r.sa_al.i} ELSE {})

\* A slip: a snoop that meets a tag write is forgotten.
SaEnStateOnce(r, x) == x.sa.en

\* A snoop waits out a cycle in which the tag RAM is written.
SaEnState(r, x) == x.sa.en \/ (r.sa_en_state /\ r.ry_twr)

\* The cache is switched on or off when nothing is under way.
DcOnm(r, x, st) == IF st = "IDLE" THEN x.ctrl.en ELSE r.dc_onm

CclNext(r, x) ==
  LET st == NextState(r, x) IN
  [state |-> st,
   state_del1 |-> r.state,
   ma0 |-> IF st \in {"RMISS1", "WMISS1", "RLOCK1"} THEN x.a.a ELSE r.ma0,
   a_prev |-> IF x.a.en THEN [wr |-> x.a.wr, a |-> x.a.a] ELSE r.a_prev,
   a_prev_v |-> APrevV(r, x),
   sa_al |-> IF x.sa.en THEN x.sa.al ELSE r.sa_al,
   sa_en_state |-> SaEnState(r, x),
   saout_al1 |-> IF st \in {"SB1", "WMISS1", "WUNCA1", "OFF1"}
                   THEN Line(x.a.a) ELSE r.saout_al1,
   saout_al2 |-> [r.saout_al2 EXCEPT ![r.sabank_send] = r.saout_al1],
   sabank_send |-> IF SendsWrite(r, x, st) THEN 1 - r.sabank_send
                                           ELSE r.sabank_send,
   c_hitstate |-> CHitState(r, x),
   memlock_state |-> MemLockState(r, x),
   pref_inc |-> PrefInc(r, x),
   aen_del1 |-> x.a.en /\ ~x.a_lock,
   aenrd_del1 |-> x.a.en /\ ~x.a.wr,
   dw |-> IF RamWordValid(r) THEN x.ra.d0 ELSE r.dw,
   ry_twr |-> TagWrite(r),
   ry_en0 |-> RamEnable(r, x),
   ffv |-> Ffv(r, x),
   rfillv |-> x.mtoc.b0enr,
   dc_onm |-> DcOnm(r, x, st),
   dc_inv |-> x.ctrl.inv,
   b2en_r |-> x.mtoc.b2enr,
   b3en_r |-> x.mtoc.b3enr]

===============================================================================
