------------------------------ MODULE DcacheMcl ------------------------------
(***************************************************************************)
(* The memory-clock half of the data cache (cache/dcache_mcl.vhm): takes   *)
(* the cpu half's commands, runs line fills and single reads and writes on *)
(* the memory bus, keeps two writes a gap apart, and answers.  Each        *)
(* operator is one signal of the process, as a function of the registers r *)
(* and the inputs x =                                                      *)
(*   ctom   the command channel (b0en, b0d) through the synchroniser       *)
(*   ack    ma.ack, and ma.ack_r, which the bus drives alike               *)
(*   d      ma.d, the word read                                            *)
(* The clock edge itself is MclNext.  Registers nothing reads              *)
(* (rfillv_del1, ry_a1fillc, ry_en1, cmd, b30en) are left out, and so is   *)
(* ddrburst, which is only a hint to the memory controller; sbbufin_2      *)
(* copies sbbufin (the write enables 0101 it guards against do not occur). *)
(***************************************************************************)
EXTENDS DcachePack

MclStates == {"IDLE", "RFILL", "WFILL", "WTHA", "WTHI", "RSG", "WSG"}
MwiStates == {"IDLE", "GAP1", "GAP2S", "GAP2R", "GAP3S", "GAP3R"}

MclReset ==
  [statemcl |-> "IDLE", statemwi |-> "IDLE", ma0 |-> Address0, reqw |-> 0,
   men |-> FALSE, mav |-> FALSE, mwr |-> FALSE, mlock |-> FALSE, sbwe |-> {},
   sbbufin |-> FALSE, sbdata |-> JunkWord, sbblknxst |-> FALSE,
   b0d_unc |-> JunkWord, fillv_del1 |-> 0, ry_we1 |-> {},
   rfillv_pre1 |-> FALSE, rfillv |-> FALSE, cd |-> JunkWord, b2en |-> FALSE,
   b3enr_dir |-> 0]

WriteSgl == {"WRITESGL_FA", "WRITESGL_SL"}
Filling  == {"RFILL", "WFILL"}
Writing  == {"WTHA", "WTHI", "WSG"}

-------------------------------------------------------------------------------
(* The command at the head, from the synchroniser or from the store buffer.  *)

CommandArrives(r, x) == x.ctom.b0en = 0 /\ r.fillv_del1 = 1

SboutEn1(r, x) ==
  r.statemcl = "IDLE" /\ (CommandArrives(r, x) \/ r.sbblknxst)

SboutCmd(r, x) ==
  IF r.sbbufin THEN IF r.statemcl = "WTHI" THEN "WRITESGL_FA" ELSE "WRITESGL_SL"
               ELSE x.ctom.b0d.cmd

\* A slip: a buffered write drives the command register's data.
SboutDUnbuffered(r, x) == x.ctom.b0d.d

SboutD(r, x) == IF r.sbbufin THEN r.sbdata ELSE x.ctom.b0d.d           \* my.d

SboutWe(r, x) ==
  IF SboutCmd(r, x) \in WriteSgl \cup {"WRITEMISS"}
    THEN SizeLanes(x.ctom.b0d.sz, x.ctom.b0d.a) ELSE {}

SboutEn1w(r, x) ==
  SboutEn1(r, x) /\ SboutCmd(r, x) \in WriteSgl \cup {"NEGATE_LO"}

TakesWrite(r, x) == SboutEn1(r, x) /\ SboutCmd(r, x) \in WriteSgl

\* A slip: a command that comes while the bus is busy is dropped.
SbblknxstNever(r, x) == FALSE

\* A command came while another was running; it is next.
Sbblknxst(r, x) ==
  IF CommandArrives(r, x) /\ r.statemcl # "IDLE" THEN TRUE
  ELSE r.statemcl # "IDLE" /\ r.sbblknxst

-------------------------------------------------------------------------------
(* The bus.                                                                  *)

\* The word on the bus is the last of the line, which starts at reqw and wraps.
CwLast(r) == NextWord(r.ma0.w) = r.reqw

\* Between two writes the bus's acknowledge is masked.
MaAckG(r, x) ==
  x.ack /\ ~(r.statemcl \in Writing
             /\ r.statemwi \in {"GAP2S", "GAP2R", "GAP3S", "GAP3R"})

FillEnds(r, x) == r.men /\ x.ack /\ CwLast(r)

TakenState(cmd) ==
  CASE cmd = "READMISS"  -> "RFILL"
    [] cmd = "WRITEMISS" -> "WFILL"
    [] cmd \in {"READSGL_NM", "READSGL_LO"} -> "RSG"
    [] cmd = "WRITESGL_SL" -> "WSG"
    [] cmd = "NEGATE_LO"   -> "IDLE"
    [] OTHER               -> "WTHI"

Statemcl(r, x) ==
  CASE r.statemcl = "IDLE" ->
         IF SboutEn1(r, x) THEN TakenState(SboutCmd(r, x)) ELSE "IDLE"
    [] r.statemcl \in Filling ->
         IF FillEnds(r, x) THEN (IF r.statemcl = "WFILL" THEN "WTHA" ELSE "IDLE")
                           ELSE r.statemcl
    [] OTHER -> IF MaAckG(r, x) THEN "IDLE" ELSE r.statemcl

\* Three cycles of gap follow a write; a command that comes in the gap starts
\* at once if it is a read (R: a request waits, S: none does).
Statemwi(r, x) ==
  CASE r.statemwi = "IDLE" ->
         IF r.statemcl \in Writing /\ MaAckG(r, x) THEN "GAP1" ELSE "IDLE"
    [] r.statemwi \in {"GAP1", "GAP2S"} ->
         IF SboutEn1(r, x) /\ ~SboutEn1w(r, x) THEN "IDLE"
         ELSE IF r.statemwi = "GAP1"
                THEN (IF SboutEn1(r, x) THEN "GAP2R" ELSE "GAP2S")
                ELSE (IF SboutEn1(r, x) THEN "GAP3R" ELSE "GAP3S")
    [] r.statemwi = "GAP2R" -> "GAP3R"
    [] OTHER -> "IDLE"

\* Below, st is nx.statemcl and en is nx.men.

Men(r, x, st) == st # "IDLE" /\ Statemwi(r, x) \notin {"GAP2R", "GAP3R"}

Mwr(r, x, st, en) == (en /\ SboutCmd(r, x) \in WriteSgl) \/ st = "WTHA"

\* A slip: the lock ends with the access that took it.
MlockDropped(r, x, en) == en /\ SboutCmd(r, x) = "READSGL_LO"

Mlock(r, x, en) ==
  IF en THEN SboutCmd(r, x) = "READSGL_LO"
  ELSE r.mlock /\ ~(SboutEn1(r, x) /\ SboutCmd(r, x) = "NEGATE_LO")

\* mav: the first access of a command, or the write after a fill, has yet to be
\* acknowledged.
Mav(r, x, st) ==
  \/ r.statemcl = "IDLE" /\ st # "IDLE"
  \/ r.statemcl = "WFILL" /\ st = "WTHA"
  \/ r.mav /\ ~MaAckG(r, x)

\* A slip: the fill overwrites the lanes the cpu has just stored.
RyWe1All(r, x, st) ==
  IF SboutCmd(r, x) \in {"READMISS", "WRITEMISS"} THEN Lanes ELSE {}

\* Lanes of the cache RAM a fill writes: on a write miss the cpu has stored its
\* own lanes of the first word already.
RyWe1(r, x, st) ==
  CASE SboutCmd(r, x) = "READMISS"  -> Lanes
    [] SboutCmd(r, x) = "WRITEMISS" ->
         IF Mav(r, x, st) THEN Lanes \ SboutWe(r, x) ELSE Lanes
    [] OTHER -> {}

Ma0(r, x, st) ==
  CASE r.statemcl = "IDLE" /\ st \in Filling -> [x.ctom.b0d.a EXCEPT !.b = 0]
    [] r.statemcl = "IDLE" /\ st \notin Filling \cup {"IDLE"} -> x.ctom.b0d.a
    [] r.statemcl \in Filling /\ st = "WTHA" -> x.ctom.b0d.a
    [] r.statemcl \in Filling /\ st # "WTHA" /\ x.ack ->
         [r.ma0 EXCEPT !.w = NextWord(@), !.b = 0]
    [] OTHER -> r.ma0

Sbwe(r, x, st) ==
  CASE r.statemcl = "IDLE"  -> IF st \in {"WTHI", "WSG"} THEN SboutWe(r, x) ELSE {}
    [] r.statemcl = "WFILL" -> IF st = "WTHA" THEN SboutWe(r, x) ELSE r.sbwe
    [] r.statemcl \in Writing -> IF MaAckG(r, x) THEN {} ELSE r.sbwe
    [] OTHER -> r.sbwe

-------------------------------------------------------------------------------
(* Answers to the cpu half.                                                  *)

\* nx.rfillv: a fill, a single read or write, or a lock release has ended.
Rfillv(r, x) ==
  IF r.statemcl \in {"RFILL", "WTHA", "WSG"}
    THEN MaAckG(r, x) /\ (r.statemcl = "RFILL" => r.men /\ CwLast(r))
    ELSE \/ SboutEn1(r, x) /\ SboutCmd(r, x) = "NEGATE_LO"
         \/ r.rfillv_pre1

\* A buffered write is answered as soon as it is taken, or at the end of the
\* gap after the write before it.
B0enr(r, x) ==
  IF SboutCmd(r, x) = "WRITESGL_FA"
    THEN IF SboutEn1(r, x) THEN r.statemwi \notin {"GAP1", "GAP2S", "GAP2R"}
                           ELSE r.statemwi = "GAP3R"
    ELSE r.rfillv

\* Channel 0's data register is loaded one cycle before the answer.
B0enrData(r, x) ==
  (SboutEn1(r, x) /\ SboutCmd(r, x) = "WRITESGL_FA") \/ Rfillv(r, x)

\* A write has been performed; it is announced on the banks in turn.
WriteEnds(r, x) == r.mwr /\ MaAckG(r, x)

\* A slip: completions are announced on one bank only.
B3enrOneBank(r, x) == IF WriteEnds(r, x) THEN {1} ELSE {}

B3enr(r, x) == IF WriteEnds(r, x) THEN {1 - r.b3enr_dir} ELSE {}

\* The word the cpu waits for has been read.
CriticalRead(r, x) ==
  r.men /\ x.ack /\ r.statemcl \in Filling /\ r.ma0.w = r.reqw

Sbbufin(r, x) ==
  IF TakesWrite(r, x) /\ ~MaAckG(r, x) THEN TRUE ELSE r.sbbufin /\ ~MaAckG(r, x)

MclNext(r, x) ==
  LET st == Statemcl(r, x)
      en == Men(r, x, st)
  IN
  [statemcl |-> st,
   statemwi |-> Statemwi(r, x),
   ma0 |-> Ma0(r, x, st),
   reqw |-> IF SboutEn1(r, x) THEN x.ctom.b0d.a.w ELSE r.reqw,
   men |-> en,
   mav |-> Mav(r, x, st),
   mwr |-> Mwr(r, x, st, en),
   mlock |-> Mlock(r, x, en),
   sbwe |-> Sbwe(r, x, st),
   sbbufin |-> Sbbufin(r, x),
   sbdata |-> IF TakesWrite(r, x) THEN SboutD(r, x) ELSE r.sbdata,
   sbblknxst |-> Sbblknxst(r, x),
   b0d_unc |-> IF r.men /\ x.ack THEN x.d ELSE r.b0d_unc,
   fillv_del1 |-> x.ctom.b0en,
   ry_we1 |-> RyWe1(r, x, st),
   rfillv_pre1 |-> r.statemcl = "RSG" /\ st = "IDLE",
   rfillv |-> Rfillv(r, x),
   cd |-> IF CriticalRead(r, x) THEN x.d ELSE r.cd,
   b2en |-> CriticalRead(r, x),
   b3enr_dir |-> IF WriteEnds(r, x) THEN 1 - r.b3enr_dir ELSE r.b3enr_dir]

-------------------------------------------------------------------------------
(* The RAM port: a fill writes a word with each acknowledge.                 *)

FillWrite(r, x) == r.men /\ ~r.mwr /\ x.ack                       \* en1, wr1

===============================================================================
