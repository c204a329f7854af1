----------------------------- MODULE Dcache_proof ------------------------------
(***************************************************************************)
(* The data cache's two halves keep to the protocol between them, for      *)
(* every cache size and set of accesses: no channel is used before its     *)
(* last use is over, and a locked read-modify-write keeps the bus.         *)
(*                                                                         *)
(* The inductive invariant follows a command through channel 0 (compare    *)
(* FsyncChannel_proof), together with what each half is doing meanwhile:   *)
(* the memory half may still be performing a buffered write that it has    *)
(* answered, and the command behind it may have to wait.                   *)
(***************************************************************************)
EXTENDS Dcache, TLAPS

-------------------------------------------------------------------------------
(* The two halves by themselves.                                             *)

OnStates == {"RMISS1", "RMISS2", "RMISS3", "WMISS1", "WMISS2", "SB1", "SB2",
             "RLOCK1", "RLOCK2", "WUNCA1", "WUNCA2"}
FirstStates == {"RMISS1", "WMISS1", "SB1", "RLOCK1", "WUNCA1", "OFF1", "NEGLCK"}

GapR == {"GAP2R", "GAP3R"}

\* dcache_ccl: the cache is switched only when nothing is under way.
CclInv ==
  /\ c.state \in CclStates
  /\ c.state \in OnStates => c.dc_onm
  /\ c.state \in {"OFF1", "OFF2"} => ~c.dc_onm

\* dcache_mcl: what is on the bus in each state.  Only a write, or a lock release,
\* waits in the gap after a write.
MclInv ==
  /\ m.statemcl \in M!MclStates /\ m.statemwi \in M!MwiStates
  /\ m.sbbufin <=> m.statemcl \in {"WTHI", "WSG"}
  /\ m.men <=> (m.statemcl # "IDLE" /\ m.statemwi \notin GapR)
  /\ m.mwr <=> (m.statemcl \in M!Writing /\ m.men)
  /\ m.statemcl # "IDLE" => m.statemwi \in {"IDLE"} \cup GapR
  /\ m.statemcl \notin {"IDLE", "WTHI", "WSG"} => m.statemwi = "IDLE"

\* A lock release that waits in the gap has been taken.
GapInv ==
  (m.statemcl = "IDLE" /\ m.statemwi \in GapR) =>
    /\ bm.b0.m = 0 /\ bm.b0.s = 0 /\ m.fillv_del1 = 0
    /\ bm.d0b.s.cmd = "NEGATE_LO"
    /\ m.statemwi = "GAP2R" =>
         half.b0 # bm.b0.v /\ bm.d0b.m.cmd = "NEGATE_LO"

-------------------------------------------------------------------------------
(* Channel 0.                                                                *)

Rising(x, y, z) == (x = 1 => y = 1) /\ (y = 1 => z = 1)

ClimbM == Rising(m.fillv_del1, bm.b0.s, bm.b0.m)
ClimbC == Rising(c.rfillv, bc.b0.s, bc.b0.m)

\* The flip-flops have passed the request on to dcache_mcl.
Arrived == bm.b0.m = 0 /\ bm.b0.s = 0 /\ m.fillv_del1 = 0

\* dcache_mcl owes no answer.  A buffered write may still be under way.
Quiet ==
  /\ ~m.rfillv /\ ~m.rfillv_pre1 /\ ~m.sbblknxst
  /\ m.statemcl = "IDLE" \/ (m.statemcl = "WTHI" /\ m.statemwi = "IDLE")

\* The command that has arrived is waiting for the write before it.
Blocked ==
  /\ m.sbblknxst /\ ~m.rfillv /\ ~m.rfillv_pre1
  /\ \/ m.statemcl = "IDLE" /\ m.statemwi = "GAP1"
     \/ m.statemcl = "WTHI" /\ m.statemwi = "IDLE"

\* It is being served, or has been and the answer is due.
Served(cmd) ==
  /\ ~m.sbblknxst
  /\ \/ /\ ~m.rfillv /\ ~m.rfillv_pre1
        /\ \/ m.statemcl = "RFILL" /\ cmd = "READMISS"
           \/ m.statemcl \in {"WFILL", "WTHA"} /\ cmd = "WRITEMISS"
           \/ m.statemcl = "RSG" /\ cmd \in {"READSGL_NM", "READSGL_LO"}
           \/ m.statemcl = "WSG" /\ cmd = "WRITESGL_SL"
           \/ m.statemcl = "WTHI" /\ cmd = "WRITESGL_FA" /\ m.statemwi \in GapR
     \/ /\ ~(m.rfillv <=> m.rfillv_pre1)
        /\ m.statemcl = "IDLE" /\ cmd # "WRITESGL_FA"

\* No command is outstanding.
Free ==
  (half.b0 = bc.b0.v /\ half.b0 = bm.b0.v) =>
    /\ Quiet /\ ClimbM
    /\ bc.b0.m = 1 => ClimbC
    /\ bc.b0.m = 0 => (bm.b0.m = 1 \/ mEdges = 0)
    /\ c.state = "IDLE" => bc.b0.m = 0 /\ bc.b0.s = 0 /\ c.rfillv = 0

\* One was sent, and clk125 has not fallen yet.
Latched ==
  half.b0 # bc.b0.v =>
    /\ half.b0 = bm.b0.v
    /\ Quiet /\ ClimbM /\ bm.b0.m = 1 /\ mEdges <= 1
    /\ c.state \in FirstStates
    /\ bc.b0.m = 0 /\ bc.b0.s = 0 /\ c.rfillv = 0

\* The memory side's flip-flops are catching it.
Shown ==
  (half.b0 # bm.b0.v /\ ~Arrived) =>
    /\ Quiet
    /\ bm.b0.m = 0 => bm.d0b.m = bc.d0v
    /\ bm.b0.m = 0 \/ ClimbM
    /\ (bm.b0.m = 0 /\ bm.b0.s = 0) => bm.d0b.s = bc.d0v
    /\ c.state # "IDLE" /\ ClimbC
    /\ bc.b0.m = 0 => /\ bm.b0.m = 0 => mEdges >= 1
                      /\ (bm.b0.m = 0 /\ bm.b0.s = 0) => mEdges >= 2

\* It has arrived, and is not answered.
Serving ==
  (half.b0 # bm.b0.v /\ Arrived) =>
    /\ Blocked \/ Served(bm.d0b.s.cmd)
    /\ bm.d0b.s = bc.d0v /\ bm.d0b.m = bc.d0v
    /\ c.state # "IDLE" /\ bc.b0.m = 1 /\ ClimbC

ChannelTypes ==
  /\ bc.b0 \in FsyncReg /\ bm.b0 \in FsyncReg /\ half.b0 \in Bit
  /\ c.rfillv \in Bit /\ m.fillv_del1 \in Bit /\ mEdges \in 0 .. 2
  /\ bc.d0v.cmd \in Commands
  /\ half = [b0 |-> half.b0, b2 |-> half.b2]

Channel0Inv == ChannelTypes /\ Free /\ Latched /\ Shown /\ Serving

-------------------------------------------------------------------------------
(* A memory clock edge.                                                      *)

\* A command reaches dcache_mcl, and dcache_mcl takes one.
Arrives == bm.b0.s = 0 /\ m.fillv_del1 = 1
Takes   == m.statemcl = "IDLE" /\ (Arrives \/ m.sbblknxst)

\* The edge seen from channel 0.
MSync(answer) ==
  /\ mEdges < 2 /\ mEdges' = mEdges + 1
  /\ half.b0 # bc.b0.v => mEdges = 0
  /\ c' = c /\ bc' = bc /\ half' = half
  /\ bm'.b0 = FsyncM(bm.b0, half.b0, bm.b0.v, answer)
  /\ bm'.d0b.m = bc.d0v /\ bm'.d0b.s = bm.d0b.m
  /\ m'.fillv_del1 = bm.b0.s

\* The edge seen from dcache_mcl's state machines.
MMoves(ack, answer) ==
  LET x == MclIn(ack) IN
  /\ ack => m.men
  /\ m'.statemcl = M!Statemcl(m, x)
  /\ m'.statemwi = M!Statemwi(m, x)
  /\ m'.men = M!Men(m, x, m'.statemcl)
  /\ m'.mwr = M!Mwr(m, x, m'.statemcl, m'.men)
  /\ m'.sbbufin = M!Sbbufin(m, x)
  /\ m'.sbblknxst = M!Sbblknxst(m, x)
  /\ m'.rfillv = M!Rfillv(m, x)
  /\ m'.rfillv_pre1 = (m.statemcl = "RSG" /\ m'.statemcl = "IDLE")
  /\ answer = M!B0enr(m, x)

\* A memory clock edge of the model is one in both views.
LEMMA MEdgeParts ==
  ASSUME NEW ack \in BOOLEAN, MEdge(ack)
  PROVE  \E answer : MSync(answer) /\ MMoves(ack, answer)
<1> DEFINE x == MclIn(ack)
<1>1. /\ m' = M!MclNext(m, x)
      /\ FsyncMcl(x)
      /\ mEdges < 2 /\ mEdges' = mEdges + 1
      /\ half.b0 # bc.b0.v => mEdges = 0
      /\ c' = c /\ bc' = bc /\ half' = half
      /\ ack => m.men
  BY DEF MEdge
<1>2. /\ bm'.b0 = FsyncM(bm.b0, half.b0, bm.b0.v, M!B0enr(m, x))
      /\ bm'.d0b.m = bc.d0v /\ bm'.d0b.s = bm.d0b.m
  <2> HIDE DEF x
  <2> QED  BY <1>1 DEF FsyncMcl
<1>3. x.ctom.b0en = bm.b0.s
  BY DEF MclIn
<1>4. /\ m'.statemcl = M!Statemcl(m, x)
      /\ m'.statemwi = M!Statemwi(m, x)
      /\ m'.men = M!Men(m, x, m'.statemcl)
      /\ m'.mwr = M!Mwr(m, x, m'.statemcl, m'.men)
      /\ m'.sbbufin = M!Sbbufin(m, x)
      /\ m'.sbblknxst = M!Sbblknxst(m, x)
      /\ m'.rfillv = M!Rfillv(m, x)
      /\ m'.rfillv_pre1 = (m.statemcl = "RSG" /\ m'.statemcl = "IDLE")
      /\ m'.fillv_del1 = x.ctom.b0en
  <2> HIDE DEF x
  <2> QED  BY <1>1 DEF M!MclNext
<1> WITNESS M!B0enr(m, x)
<1>6. MSync(M!B0enr(m, x))
  BY <1>1, <1>2, <1>3, <1>4 DEF MSync
<1> QED  BY <1>1, <1>4, <1>6 DEF MMoves

\* The command at the head: from the store buffer, or from the channel.
Command ==
  IF m.sbbufin THEN IF m.statemcl = "WTHI" THEN "WRITESGL_FA" ELSE "WRITESGL_SL"
               ELSE bm.d0b.s.cmd

\* The signals that decide where the state machines go.
LEMMA MclSignals ==
  ASSUME NEW ack, NEW answer, MMoves(ack, answer), MclInv
  PROVE  /\ MclIn(ack).ack = ack
         /\ M!SboutEn1(m, MclIn(ack)) <=> Takes
         /\ M!SboutCmd(m, MclIn(ack)) = Command
         /\ M!MaAckG(m, MclIn(ack)) <=> ack
         /\ M!CommandArrives(m, MclIn(ack)) <=> Arrives
<1> DEFINE x == MclIn(ack)
<1>1. x.ctom.b0en = bm.b0.s /\ x.ctom.b0d = bm.d0b.s /\ x.ack = ack
  BY DEF MclIn
<1>2. ack => m.men
  BY DEF MMoves
<1> HIDE DEF x
<1>3. M!SboutEn1(m, x) <=> Takes
  BY <1>1 DEF Takes, Arrives, M!SboutEn1, M!CommandArrives
<1>4. M!SboutCmd(m, x) = Command
  BY <1>1 DEF M!SboutCmd, Command
<1>5. M!MaAckG(m, x) <=> ack
  BY <1>1, <1>2 DEF M!MaAckG, MclInv, M!Writing, GapR
<1>6. M!CommandArrives(m, x) <=> Arrives
  BY <1>1 DEF Arrives, M!CommandArrives
<1> QED  BY <1>1, <1>3, <1>4, <1>5, <1>6 DEF x

\* dcache_mcl waits for a command.
LEMMA IdleWaits ==
  ASSUME NEW ack, NEW answer, MMoves(ack, answer), MclInv,
         m.statemcl = "IDLE", ~Takes
  PROVE  /\ m'.statemcl = "IDLE"
         /\ m'.statemwi = CASE m.statemwi = "GAP1"  -> "GAP2S"
                            [] m.statemwi = "GAP2S" -> "GAP3S"
                            [] m.statemwi = "GAP2R" -> "GAP3R"
                            [] OTHER -> "IDLE"
         /\ ~m'.men /\ ~m'.mwr /\ ~m'.sbbufin /\ ~m'.sbblknxst
         /\ ~m'.rfillv_pre1 /\ (m'.rfillv <=> m.rfillv_pre1)
         /\ answer <=> IF bm.d0b.s.cmd = "WRITESGL_FA" THEN m.statemwi = "GAP3R"
                                                       ELSE m.rfillv
<1> DEFINE x == MclIn(ack)
<1>1. ~M!SboutEn1(m, x)
  BY MclSignals
<1>2. M!SboutCmd(m, x) = bm.d0b.s.cmd /\ ~m.sbbufin
  BY MclSignals DEF MclInv, Command
<1>3. ~M!MaAckG(m, x)
  BY MclSignals DEF MMoves, MclInv
<1> HIDE DEF x
<1>4. m'.statemcl = "IDLE"
  BY <1>1 DEF MMoves, M!Statemcl, x
<1>5. m'.statemwi = CASE m.statemwi = "GAP1"  -> "GAP2S"
                       [] m.statemwi = "GAP2S" -> "GAP3S"
                       [] m.statemwi = "GAP2R" -> "GAP3R"
                       [] OTHER -> "IDLE"
  BY <1>1, <1>3 DEF MMoves, M!Statemwi, M!SboutEn1w, MclInv, M!MwiStates, x, M!Writing
<1>6. ~m'.men /\ ~m'.mwr
  BY <1>4 DEF MMoves, M!Men, M!Mwr, x
<1>7. ~m'.sbbufin /\ ~m'.sbblknxst
  BY <1>1, <1>2 DEF MMoves, M!Sbbufin, M!Sbblknxst, M!TakesWrite, x
<1>8. ~m'.rfillv_pre1 /\ (m'.rfillv <=> m.rfillv_pre1)
  BY <1>1 DEF MMoves, M!Rfillv, x
<1>9. answer <=> IF bm.d0b.s.cmd = "WRITESGL_FA" THEN m.statemwi = "GAP3R"
                                                 ELSE m.rfillv
  BY <1>1, <1>2 DEF MMoves, M!B0enr, x
<1> QED  BY <1>4, <1>5, <1>6, <1>7, <1>8, <1>9

\* dcache_mcl takes a command.
LEMMA IdleTakes ==
  ASSUME NEW ack, NEW answer, MMoves(ack, answer), MclInv, Takes,
         NEW cmd \in Commands, bm.d0b.s.cmd = cmd
  PROVE  /\ m'.statemcl = M!TakenState(cmd)
         /\ m'.statemwi = CASE m.statemwi \in {"GAP1", "GAP2S"}
                                 /\ cmd \notin M!WriteSgl \cup {"NEGATE_LO"} -> "IDLE"
                            [] m.statemwi = "GAP1" 
                                 /\ cmd \in M!WriteSgl \cup {"NEGATE_LO"} -> "GAP2R"
                            [] m.statemwi = "GAP2S"
                                 /\ cmd \in M!WriteSgl \cup {"NEGATE_LO"} -> "GAP3R"
                            [] m.statemwi = "GAP2R" -> "GAP3R"
                            [] OTHER -> "IDLE"
         /\ m'.men <=> (m'.statemcl # "IDLE" /\ m'.statemwi \notin GapR)
         /\ m'.mwr <=> (m'.men /\ cmd \in M!WriteSgl)
         /\ m'.sbbufin <=> cmd \in M!WriteSgl
         /\ ~m'.sbblknxst /\ ~m'.rfillv_pre1
         /\ m'.rfillv <=> (cmd = "NEGATE_LO" \/ m.rfillv_pre1)
         /\ answer <=> IF cmd = "WRITESGL_FA"
                         THEN m.statemwi \notin {"GAP1", "GAP2S", "GAP2R"}
                         ELSE m.rfillv
<1> DEFINE x == MclIn(ack)
<1>1. M!SboutEn1(m, x) /\ m.statemcl = "IDLE"
  BY MclSignals DEF Takes
<1>2. M!SboutCmd(m, x) = cmd /\ ~m.sbbufin
  BY <1>1, MclSignals DEF MclInv, Command
<1>3. ~M!MaAckG(m, x)
  BY <1>1, MclSignals DEF MMoves, MclInv
<1> HIDE DEF x
<1>4. m'.statemcl = M!TakenState(cmd)
  <2>1. M!Statemcl(m, x) = M!TakenState(M!SboutCmd(m, x))
    BY <1>1 DEF M!Statemcl, M!Filling
  <2> QED  BY <1>2, <2>1 DEF MMoves, x
<1>5. m'.statemwi = CASE m.statemwi \in {"GAP1", "GAP2S"}
                           /\ cmd \notin M!WriteSgl \cup {"NEGATE_LO"} -> "IDLE"
                      [] m.statemwi = "GAP1" 
                           /\ cmd \in M!WriteSgl \cup {"NEGATE_LO"} -> "GAP2R"
                      [] m.statemwi = "GAP2S"
                           /\ cmd \in M!WriteSgl \cup {"NEGATE_LO"} -> "GAP3R"
                      [] m.statemwi = "GAP2R" -> "GAP3R"
                      [] OTHER -> "IDLE"
  BY <1>1, <1>2, <1>3
     DEF MMoves, M!Statemwi, M!SboutEn1w, MclInv, M!MwiStates, x, M!Writing
<1>6. m'.men <=> (m'.statemcl # "IDLE" /\ m'.statemwi \notin GapR)
  BY DEF MMoves, M!Men, GapR, x
<1>7. m'.mwr <=> (m'.men /\ cmd \in M!WriteSgl)
  BY <1>2, <1>4 DEF MMoves, M!Mwr, M!TakenState, Commands, x
<1>8. (m'.sbbufin <=> cmd \in M!WriteSgl) /\ ~m'.sbblknxst
  BY <1>1, <1>2, <1>3 DEF MMoves, M!Sbbufin, M!Sbblknxst, M!TakesWrite, x
<1>9. ~m'.rfillv_pre1 /\ (m'.rfillv <=> (cmd = "NEGATE_LO" \/ m.rfillv_pre1))
  BY <1>1, <1>2 DEF MMoves, M!Rfillv, x
<1>10. answer <=> IF cmd = "WRITESGL_FA"
                    THEN m.statemwi \notin {"GAP1", "GAP2S", "GAP2R"}
                    ELSE m.rfillv
  BY <1>1, <1>2 DEF MMoves, M!B0enr, x
<1> QED  BY <1>4, <1>5, <1>6, <1>7, <1>8, <1>9, <1>10

\* dcache_mcl is on the bus, or about to be.
LEMMA Busy ==
  ASSUME NEW ack, NEW answer, MMoves(ack, answer), MclInv, m.statemcl # "IDLE"
  PROVE  /\ m'.statemcl = CASE m.statemcl = "RFILL" ->
                                 IF ack /\ M!CwLast(m) THEN "IDLE" ELSE "RFILL"
                            [] m.statemcl = "WFILL" ->
                                 IF ack /\ M!CwLast(m) THEN "WTHA" ELSE "WFILL"
                            [] OTHER -> IF ack THEN "IDLE" ELSE m.statemcl
         /\ m'.statemwi = CASE m.statemwi = "IDLE" ->
                                 IF m.statemcl \in M!Writing /\ ack THEN "GAP1"
                                                                    ELSE "IDLE"
                            [] m.statemwi = "GAP2R" -> "GAP3R"
                            [] OTHER -> "IDLE"
         /\ m'.men <=> (m'.statemcl # "IDLE" /\ m'.statemwi \notin GapR)
         /\ m'.mwr <=> ((m'.men /\ Command \in M!WriteSgl) \/ m'.statemcl = "WTHA")
         /\ m'.sbbufin <=> (m.sbbufin /\ ~ack)
         /\ m'.sbblknxst <=> (Arrives \/ m.sbblknxst)
         /\ m'.rfillv_pre1 <=> (m.statemcl = "RSG" /\ ack)
         /\ m'.rfillv <=> IF m.statemcl \in {"RFILL", "WTHA", "WSG"}
                            THEN ack /\ (m.statemcl = "RFILL" => M!CwLast(m))
                            ELSE m.rfillv_pre1
         /\ answer <=> IF Command = "WRITESGL_FA" THEN m.statemwi = "GAP3R"
                                                  ELSE m.rfillv
         /\ ack => m.men
<1> DEFINE x == MclIn(ack)
<1>1. ~M!SboutEn1(m, x) /\ x.ack = ack
  BY MclSignals DEF Takes
<1>2. M!SboutCmd(m, x) = Command
  BY MclSignals
<1>3. M!MaAckG(m, x) <=> ack
  BY MclSignals
<1>4. M!CommandArrives(m, x) <=> Arrives
  BY MclSignals
<1>5. ack => m.men
  BY DEF MMoves
<1> HIDE DEF x
<1>6. m'.statemcl = CASE m.statemcl = "RFILL" ->
                           IF ack /\ M!CwLast(m) THEN "IDLE" ELSE "RFILL"
                      [] m.statemcl = "WFILL" ->
                           IF ack /\ M!CwLast(m) THEN "WTHA" ELSE "WFILL"
                      [] OTHER -> IF ack THEN "IDLE" ELSE m.statemcl
  BY <1>1, <1>3, <1>5
     DEF MMoves, M!Statemcl, M!FillEnds, M!Filling, MclInv, M!MclStates, x
<1>7. m'.statemwi = CASE m.statemwi = "IDLE" ->
                           IF m.statemcl \in M!Writing /\ ack THEN "GAP1" ELSE "IDLE"
                      [] m.statemwi = "GAP2R" -> "GAP3R"
                      [] OTHER -> "IDLE"
  BY <1>3 DEF MMoves, M!Statemwi, MclInv, GapR, x
<1>8. m'.men <=> (m'.statemcl # "IDLE" /\ m'.statemwi \notin GapR)
  BY DEF MMoves, M!Men, GapR, x
<1>9. m'.mwr <=> ((m'.men /\ Command \in M!WriteSgl) \/ m'.statemcl = "WTHA")
  BY <1>2 DEF MMoves, M!Mwr, x
<1>10. /\ m'.sbbufin <=> (m.sbbufin /\ ~ack)
       /\ m'.sbblknxst <=> (Arrives \/ m.sbblknxst)
  BY <1>1, <1>3, <1>4 DEF MMoves, M!Sbbufin, M!Sbblknxst, M!TakesWrite, x
<1>11. m'.rfillv_pre1 <=> (m.statemcl = "RSG" /\ ack)
  BY <1>6 DEF MMoves
<1>12. m'.rfillv <=> IF m.statemcl \in {"RFILL", "WTHA", "WSG"}
                       THEN ack /\ (m.statemcl = "RFILL" => M!CwLast(m))
                       ELSE m.rfillv_pre1
  BY <1>1, <1>3, <1>5 DEF MMoves, M!Rfillv, x
<1>13. answer <=> IF Command = "WRITESGL_FA" THEN m.statemwi = "GAP3R"
                                             ELSE m.rfillv
  BY <1>1, <1>2 DEF MMoves, M!B0enr, x
<1> QED  BY <1>5, <1>6, <1>7, <1>8, <1>9, <1>10, <1>11, <1>12, <1>13

\* What becomes of a command at an edge: it waits, is served, or is answered.
Outcome(cmd, answer) ==
  \/ Blocked' /\ ~answer
  \/ Served(cmd)' /\ ~answer
  \/ Quiet' /\ answer

\* dcache_mcl stays quiet until a command arrives, and answers nothing.
LEMMA QuietStays ==
  ASSUME NEW ack, NEW answer, MMoves(ack, answer), MclInv, GapInv, Quiet, ~Arrives
  PROVE  Quiet' /\ ~answer
<1>1. CASE m.statemcl = "IDLE"
  BY <1>1, IdleWaits DEF Quiet, Takes, GapInv, GapR
<1>2. CASE m.statemcl = "WTHI" /\ m.statemwi = "IDLE"
  BY <1>2, Busy DEF Quiet, Command, MclInv
<1> QED  BY <1>1, <1>2 DEF Quiet

\* A command that dcache_mcl takes is served from the next cycle on.
LEMMA TakenIsServed ==
  ASSUME NEW ack, NEW answer, MMoves(ack, answer), MclInv, GapInv, Takes,
         NEW cmd \in Commands, bm.d0b.s.cmd = cmd,
         ~m.rfillv, ~m.rfillv_pre1, m.fillv_del1 = 1 \/ m.statemwi \notin GapR
  PROVE  Outcome(cmd, answer)
<1>1. m.statemcl = "IDLE" /\ m.statemwi \in {"IDLE", "GAP1", "GAP2S", "GAP3S"}
  BY DEF Takes, GapInv, MclInv, M!MwiStates, GapR
<1>2. CASE cmd \in {"READMISS", "WRITEMISS", "READSGL_NM", "READSGL_LO"}
  BY <1>1, <1>2, IdleTakes DEF Outcome, Served, M!TakenState, M!WriteSgl
<1>3. CASE cmd = "NEGATE_LO"
  BY <1>1, <1>3, IdleTakes DEF Outcome, Served, M!TakenState, M!WriteSgl
<1>4. CASE cmd = "WRITESGL_SL"
  BY <1>1, <1>4, IdleTakes DEF Outcome, Served, M!TakenState, M!WriteSgl
<1>5. CASE cmd = "WRITESGL_FA"
  BY <1>1, <1>5, IdleTakes DEF Outcome, Served, Quiet, M!TakenState, M!WriteSgl, GapR
<1> QED  BY <1>2, <1>3, <1>4, <1>5 DEF Commands

\* A command that arrives is taken, or blocked by the buffered write.
LEMMA ArrivalSteps ==
  ASSUME NEW ack, NEW answer, MMoves(ack, answer), MclInv, GapInv, Quiet, Arrives,
         NEW cmd \in Commands, bm.d0b.s.cmd = cmd
  PROVE  Outcome(cmd, answer)
<1>1. CASE m.statemcl = "IDLE"
  BY <1>1, TakenIsServed DEF Quiet, Takes, Arrives
<1>2. CASE m.statemcl = "WTHI" /\ m.statemwi = "IDLE"
  BY <1>2, Busy DEF Outcome, Quiet, Blocked, Command, MclInv, M!Writing
<1> QED  BY <1>1, <1>2 DEF Quiet

\* A blocked command stays blocked or is taken.
LEMMA BlockedSteps ==
  ASSUME NEW ack, NEW answer, MMoves(ack, answer), MclInv, GapInv, Blocked, 
         NEW cmd \in Commands, bm.d0b.s.cmd = cmd
  PROVE  Outcome(cmd, answer)
<1>1. CASE m.statemcl = "IDLE"
  BY <1>1, TakenIsServed DEF Blocked, Takes, GapR
<1>2. CASE m.statemcl = "WTHI" /\ m.statemwi = "IDLE"
  BY <1>2, Busy DEF Outcome, Blocked, Command, MclInv, M!Writing
<1> QED  BY <1>1, <1>2 DEF Blocked

\* A command that is served stays so until it is answered.
LEMMA ServedSteps ==
  ASSUME NEW ack, NEW answer, MMoves(ack, answer), MclInv, GapInv, ~Arrives,
         NEW cmd \in Commands, bm.d0b.s.cmd = cmd, Served(cmd)
  PROVE  Outcome(cmd, answer)
<1>1. CASE m.statemcl = "RFILL"
  BY <1>1, Busy DEF Outcome, Served, Command, MclInv
<1>2. CASE m.statemcl \in {"WFILL", "WTHA"}
  BY <1>2, Busy DEF Outcome, Served, Command, MclInv
<1>3. CASE m.statemcl = "RSG"
  BY <1>3, Busy DEF Outcome, Served, Command, MclInv
<1>4. CASE m.statemcl = "WSG"
  BY <1>4, Busy DEF Outcome, Served, Command, MclInv
<1>5. CASE m.statemcl = "WTHI"
  BY <1>5, Busy DEF Outcome, Served, Quiet, Command, MclInv, GapR
<1>6. CASE m.statemcl = "IDLE"
  BY <1>6, IdleWaits DEF Outcome, Served, Quiet, Takes
<1> QED  BY <1>1, <1>2, <1>3, <1>4, <1>5, <1>6 DEF Served

\* The state machines stay in step with the bus.
LEMMA MclMoves ==
  ASSUME NEW ack, NEW answer, MMoves(ack, answer), MclInv, GapInv,
         bm.d0b.s.cmd \in Commands,
         Quiet \/ Blocked \/ Served(bm.d0b.s.cmd)
  PROVE  MclInv'
<1>1. CASE m.statemcl = "IDLE" /\ ~Takes
  <2>1. m'.statemcl = "IDLE" /\ m'.statemwi \in M!MwiStates
    BY <1>1, IdleWaits DEF M!MwiStates, MclInv
  <2>2. ~m'.men /\ ~m'.mwr /\ ~m'.sbbufin
    BY <1>1, IdleWaits
  <2> QED  BY <2>1, <2>2 DEF MclInv, M!MclStates
<1>2. CASE Takes
  <2> DEFINE cmd == bm.d0b.s.cmd
  <2>1. /\ m'.statemcl = M!TakenState(cmd)
        /\ m'.men <=> (m'.statemcl # "IDLE" /\ m'.statemwi \notin GapR)
        /\ m'.mwr <=> (m'.men /\ cmd \in M!WriteSgl)
        /\ m'.sbbufin <=> cmd \in M!WriteSgl
    BY <1>2, IdleTakes
  <2>2. /\ m'.statemwi \in {"IDLE", "GAP2R", "GAP3R"}
        /\ m'.statemwi = "IDLE" \/ cmd \in M!WriteSgl \cup {"NEGATE_LO"}
    <3>1. m.statemwi \in {"IDLE", "GAP1", "GAP2S", "GAP3S"} \/ cmd = "NEGATE_LO"
      BY <1>2 DEF GapInv, MclInv, M!MwiStates, GapR, Takes
    <3> QED  BY <1>2, <3>1, IdleTakes DEF M!MwiStates, MclInv
  <2> HIDE DEF cmd
  <2>3. cmd \in Commands
    BY DEF cmd
  <2>4. CASE cmd \in M!WriteSgl
    BY <2>1, <2>2, <2>4 DEF MclInv, M!TakenState, M!WriteSgl, M!Writing, M!MclStates,
                            M!MwiStates, GapR
  <2>5. CASE cmd = "NEGATE_LO"
    BY <2>1, <2>2, <2>5 DEF MclInv, M!TakenState, M!WriteSgl, M!Writing, M!MclStates,
                            M!MwiStates, GapR
  <2>6. CASE cmd \in {"READMISS", "WRITEMISS", "READSGL_NM", "READSGL_LO"}
    BY <2>1, <2>2, <2>6 DEF MclInv, M!TakenState, M!WriteSgl, M!Writing, M!MclStates,
                            M!MwiStates, GapR
  <2> QED  BY <2>3, <2>4, <2>5, <2>6 DEF Commands, M!WriteSgl
<1>3. CASE m.statemcl \in {"WTHI", "WSG"}
  <2>1. Command \in M!WriteSgl
    BY <1>3 DEF MclInv, Command, M!WriteSgl
  <2>2. /\ m'.statemcl = IF ack THEN "IDLE" ELSE m.statemcl
        /\ m'.statemwi = CASE m.statemwi = "IDLE" -> IF ack THEN "GAP1" ELSE "IDLE"
                           [] m.statemwi = "GAP2R" -> "GAP3R"
                           [] OTHER -> "IDLE"
        /\ m'.men <=> (m'.statemcl # "IDLE" /\ m'.statemwi \notin GapR)
        /\ m'.mwr <=> (m'.men \/ m'.statemcl = "WTHA")
        /\ m'.sbbufin <=> ~ack
    BY <1>3, <2>1, Busy DEF M!Writing, MclInv
  <2> QED  BY <1>3, <2>2 DEF MclInv, M!Writing, M!MclStates, M!MwiStates, GapR
<1>4. CASE m.statemcl \in {"RFILL", "WFILL", "WTHA", "RSG"}
  <2>1. Command \notin M!WriteSgl /\ m.statemwi = "IDLE" /\ ~m.sbbufin
    BY <1>4 DEF MclInv, Command, M!WriteSgl, Quiet, Blocked, Served
  <2>2. /\ m'.statemcl = CASE m.statemcl = "RFILL" ->
                                IF ack /\ M!CwLast(m) THEN "IDLE" ELSE "RFILL"
                           [] m.statemcl = "WFILL" ->
                                IF ack /\ M!CwLast(m) THEN "WTHA" ELSE "WFILL"
                           [] OTHER -> IF ack THEN "IDLE" ELSE m.statemcl
        /\ m'.statemwi = IF m.statemcl = "WTHA" /\ ack THEN "GAP1" ELSE "IDLE"
        /\ m'.men <=> (m'.statemcl # "IDLE" /\ m'.statemwi \notin GapR)
        /\ m'.mwr <=> m'.statemcl = "WTHA"
        /\ ~m'.sbbufin
    BY <1>4, <2>1, Busy DEF M!Writing
  <2> QED  BY <1>4, <2>2 DEF MclInv, M!Writing, M!MclStates, M!MwiStates, GapR
<1> QED  BY <1>1, <1>2, <1>3, <1>4 DEF MclInv, M!MclStates

\* The flip-flops of channel 0 after the edge.
LEMMA MFlipFlops ==
  ASSUME NEW answer, MSync(answer), ChannelTypes
  PROVE  /\ bm'.b0.v = (IF answer THEN half.b0 ELSE bm.b0.v)
         /\ bm'.b0.m = (IF bm.b0.v = half.b0 THEN 1 ELSE 0)
         /\ bm'.b0.s = bm.b0.m
         /\ m'.fillv_del1 = bm.b0.s
         /\ half'.b0 = half.b0 /\ bc'.b0 = bc.b0 /\ c' = c
         /\ ChannelTypes'
<1>1. /\ bm'.b0.v = (IF answer THEN half.b0 ELSE bm.b0.v)
      /\ bm'.b0.m = (IF bm.b0.v = half.b0 THEN 1 ELSE 0)
      /\ bm'.b0.s = bm.b0.m
  BY DEF MSync, FsyncM, Not, Xor
<1>2. bm'.b0 \in FsyncReg
  BY DEF MSync, FsyncM, Not, Xor, ChannelTypes, FsyncReg, Bit
<1>3. mEdges' \in 0 .. 2
  BY DEF MSync, ChannelTypes
<1>4. /\ c' = c /\ bc' = bc /\ half' = half
      /\ m'.fillv_del1 = bm.b0.s
  BY DEF MSync
<1>5. ChannelTypes'
  BY <1>2, <1>3, <1>4 DEF ChannelTypes, FsyncReg
<1> QED  BY <1>1, <1>4, <1>5

\* No command is outstanding, or it is not shown yet: the memory side sees
\* nothing.
LEMMA MFree ==
  ASSUME NEW ack, NEW answer, MSync(answer), MMoves(ack, answer),
         MclInv, GapInv, Channel0Inv, half.b0 = bm.b0.v
  PROVE  Channel0Inv'
<1>1. Quiet /\ ClimbM /\ ChannelTypes
  BY DEF Channel0Inv, Free, Latched
<1>2. ~Arrives
  BY <1>1 DEF Arrives, ClimbM, Rising
<1>3. Quiet' /\ ~answer
  BY <1>1, <1>2, QuietStays
<1>4. /\ bm'.b0.v = bm.b0.v
      /\ bm'.b0.m = 1
      /\ bm'.b0.s = bm.b0.m
      /\ m'.fillv_del1 = bm.b0.s
      /\ half'.b0 = half.b0 /\ bc'.b0 = bc.b0 /\ c' = c
      /\ ChannelTypes'
  BY <1>1, <1>3, MFlipFlops
<1>5. ClimbM'
  BY <1>1, <1>4 DEF ClimbM, Rising
<1>6. ClimbC' <=> ClimbC
  BY <1>4 DEF ClimbC
<1>7. Free'
  BY <1>3, <1>4, <1>5, <1>6 DEF Channel0Inv, Free
<1>8. Latched'
  BY <1>3, <1>4, <1>5 DEF Channel0Inv, Latched, MSync
<1>9. Shown' /\ Serving'
  BY <1>4 DEF Shown, Serving
<1> QED  BY <1>4, <1>7, <1>8, <1>9 DEF Channel0Inv

\* The flip-flops of the memory side are catching the command.
LEMMA MShown ==
  ASSUME NEW ack, NEW answer, MSync(answer), MMoves(ack, answer),
         MclInv, GapInv, Channel0Inv, half.b0 # bm.b0.v, ~Arrived
  PROVE  Channel0Inv'
<1>1. /\ Quiet /\ ChannelTypes /\ half.b0 = bc.b0.v
      /\ c.state # "IDLE" /\ ClimbC
  BY DEF Channel0Inv, Shown, Latched
<1>2. /\ bm'.b0.v = (IF answer THEN half.b0 ELSE bm.b0.v)
      /\ bm'.b0.m = 0
      /\ bm'.b0.s = bm.b0.m
      /\ m'.fillv_del1 = bm.b0.s
      /\ half'.b0 = half.b0 /\ bc'.b0 = bc.b0 /\ c' = c
      /\ ChannelTypes'
  BY <1>1, MFlipFlops
<1>3. bm'.d0b.m = bc.d0v /\ bm'.d0b.s = bm.d0b.m /\ bc' = bc
  BY DEF MSync
<1>4. ClimbC'
  BY <1>1, <1>2 DEF ClimbC
<1>5. CASE ~Arrives
  <2>1. Quiet' /\ ~answer
    BY <1>1, <1>5, QuietStays
  <2>2. ~(bm.b0.m = 0 /\ bm.b0.s = 0)
    BY <1>1, <1>5 DEF Arrives, Arrived, ChannelTypes, Bit
  <2>3. ~Arrived'
    BY <1>2, <2>2 DEF Arrived
  <2>4. bc.b0.m = 0 => (bm'.b0.s = 0 => mEdges' >= 2) /\ mEdges' >= 1
    BY <1>1, <1>2 DEF Channel0Inv, Shown, MSync, ChannelTypes
  <2>5. bm'.b0.s = 0 => bm'.d0b.s = bc.d0v
    BY <1>2, <1>3 DEF Channel0Inv, Shown
  <2>6. Shown'
    BY <1>1, <1>2, <1>3, <1>4, <2>1, <2>4, <2>5 DEF Shown
  <2>7. Free' /\ Latched' /\ Serving'
    BY <1>1, <1>2, <2>1, <2>3 DEF Free, Latched, Serving
  <2> QED  BY <1>2, <2>6, <2>7 DEF Channel0Inv
<1>6. CASE Arrives
  <2>1. bm.b0.m = 0 /\ bm.b0.s = 0
    BY <1>6 DEF Channel0Inv, Shown, ClimbM, Rising, Arrives, ChannelTypes, FsyncReg, Bit
  <2>2. bm.d0b.s = bc.d0v /\ bm.d0b.m = bc.d0v
    BY <2>1 DEF Channel0Inv, Shown
  <2>3. bc.b0.m = 1
    <3>1. bc.b0.m = 0 => mEdges >= 2
      BY <2>1 DEF Channel0Inv, Shown
    <3> QED  BY <1>1, <3>1 DEF MSync, ChannelTypes, FsyncReg, Bit
  <2>4. Arrived'
    BY <1>2, <2>1 DEF Arrived
  <2>5. PICK cmd \in Commands : cmd = bc.d0v.cmd
    BY <1>1 DEF ChannelTypes
  <2>6. Outcome(cmd, answer)
    BY <1>1, <1>6, <2>2, <2>5, ArrivalSteps
  <2>7. Latched' /\ Shown'
    BY <1>1, <1>2, <2>4 DEF Latched, Shown
  <2>8. CASE answer
    <3>1. Quiet' /\ half'.b0 = bm'.b0.v
      BY <1>2, <2>6, <2>8 DEF Outcome
    <3>2. ClimbM'
      BY <1>2, <2>1 DEF ClimbM, Rising
    <3> QED  BY <1>1, <1>2, <1>4, <2>3, <2>7, <3>1, <3>2 DEF Channel0Inv, Free, Serving
  <2>9. CASE ~answer
    <3>1. Blocked' \/ Served(cmd)'
      BY <2>6, <2>9 DEF Outcome
    <3>2. bm'.d0b.s = bc'.d0v /\ bm'.d0b.m = bc'.d0v /\ bm'.d0b.s.cmd = cmd
      BY <1>3, <2>2, <2>5
    <3>3. Served(cmd)' => Served(bm.d0b.s.cmd)'
      BY <3>2 DEF Served
    <3>4. Serving'
      BY <1>1, <1>2, <1>4, <2>3, <3>1, <3>2, <3>3 DEF Serving
    <3> QED  BY <1>1, <1>2, <2>7, <2>9, <3>4 DEF Channel0Inv, Free
  <2> QED  BY <2>8, <2>9
<1> QED  BY <1>5, <1>6

\* The command has arrived.
LEMMA MServing ==
  ASSUME NEW ack, NEW answer, MSync(answer), MMoves(ack, answer),
         MclInv, GapInv, Channel0Inv, half.b0 # bm.b0.v, Arrived
  PROVE  Channel0Inv'
<1>1. /\ ChannelTypes /\ half.b0 = bc.b0.v
      /\ c.state # "IDLE" /\ ClimbC /\ bc.b0.m = 1
      /\ bm.d0b.s = bc.d0v /\ bm.d0b.m = bc.d0v
  BY DEF Channel0Inv, Serving, Latched
<1>2. /\ bm'.b0.v = (IF answer THEN half.b0 ELSE bm.b0.v)
      /\ bm'.b0.m = 0
      /\ bm'.b0.s = 0
      /\ m'.fillv_del1 = 0
      /\ half'.b0 = half.b0 /\ bc'.b0 = bc.b0 /\ c' = c
      /\ ChannelTypes'
  BY <1>1, MFlipFlops DEF Arrived
<1>3. bm'.d0b.m = bc'.d0v /\ bm'.d0b.s = bc'.d0v /\ bc' = bc
  BY <1>1 DEF MSync
<1>4. ClimbC' /\ Arrived' /\ ClimbM'
  BY <1>1, <1>2 DEF ClimbC, ClimbM, Rising, Arrived
<1>5. ~Arrives
  BY <1>2 DEF Arrived, Arrives
<1>6. PICK cmd \in Commands : cmd = bc.d0v.cmd
  BY <1>1 DEF ChannelTypes
<1>7. Outcome(cmd, answer)
  <2>1. CASE Blocked
    BY <1>1, <1>6, <2>1, BlockedSteps
  <2>2. CASE Served(bm.d0b.s.cmd)
    BY <1>1, <1>5, <1>6, <2>2, ServedSteps
  <2> QED  BY <2>1, <2>2 DEF Channel0Inv, Serving
<1>8. Latched' /\ Shown'
  BY <1>1, <1>2, <1>4 DEF Latched, Shown
<1>9. CASE answer
  <2>1. Quiet' /\ half'.b0 = bm'.b0.v
    BY <1>2, <1>7, <1>9 DEF Outcome
  <2> QED  BY <1>1, <1>2, <1>4, <1>8, <2>1 DEF Channel0Inv, Free, Serving
<1>10. CASE ~answer
  <2>1. Blocked' \/ Served(cmd)'
    BY <1>7, <1>10 DEF Outcome
  <2>2. bm'.d0b.s.cmd = cmd
    BY <1>3, <1>6
  <2>3. Served(cmd)' => Served(bm.d0b.s.cmd)'
    BY <2>2 DEF Served
  <2>4. Serving'
    BY <1>1, <1>2, <1>3, <1>4, <2>1, <2>3 DEF Serving
  <2> QED  BY <1>1, <1>2, <1>8, <1>10, <2>4 DEF Channel0Inv, Free
<1> QED  BY <1>9, <1>10

\* A command is only taken when one is outstanding and its word is stable.
LEMMA TakesOutstanding ==
  ASSUME Channel0Inv, Takes
  PROVE  /\ half.b0 # bm.b0.v /\ half.b0 = bc.b0.v
         /\ bm.b0.m = 0 /\ bm.b0.s = 0
         /\ bm.d0b.s = bc.d0v /\ bm.d0b.m = bc.d0v
         /\ ~m.rfillv /\ ~m.rfillv_pre1
         /\ m.fillv_del1 = 1 \/ m.statemwi = "GAP1"
         /\ bc.d0v.cmd \in Commands
<1>0. bm.b0 \in FsyncReg
  BY DEF Channel0Inv, ChannelTypes
<1>1. half.b0 # bm.b0.v
  BY DEF Channel0Inv, Free, Latched, Quiet, ClimbM, Rising, Takes, Arrives
<1>2. half.b0 = bc.b0.v
  BY <1>1 DEF Channel0Inv, Latched
<1>3. CASE ~Arrived
  <2>1. Arrives /\ Quiet
    BY <1>1, <1>3 DEF Channel0Inv, Shown, Quiet, Takes
  <2>2. bm.b0.m = 0 /\ bm.b0.s = 0
    BY <1>0, <1>1, <1>3, <2>1
       DEF Channel0Inv, Shown, Arrives, ClimbM, Rising, FsyncReg, Bit
  <2> QED  BY <1>1, <1>2, <1>3, <2>1, <2>2
              DEF Channel0Inv, ChannelTypes, Shown, Quiet, Arrives
<1>4. CASE Arrived
  <2>1. Blocked
    BY <1>1, <1>4 DEF Channel0Inv, Serving, Served, Takes, Arrives, Arrived
  <2> QED  BY <1>1, <1>2, <1>4, <2>1
              DEF Channel0Inv, ChannelTypes, Serving, Blocked, Arrived, Takes
<1> QED  BY <1>3, <1>4

\* Nothing but a lock release is waiting in the gap after a write.
LEMMA MGap ==
  ASSUME NEW ack, NEW answer, MSync(answer), MMoves(ack, answer),
         MclInv, GapInv, Channel0Inv
  PROVE  GapInv'
<1> SUFFICES ASSUME m'.statemcl = "IDLE", m'.statemwi \in GapR
             PROVE  /\ bm'.b0.m = 0 /\ bm'.b0.s = 0 /\ m'.fillv_del1 = 0
                    /\ bm'.d0b.s.cmd = "NEGATE_LO"
                    /\ m'.statemwi = "GAP2R" =>
                         half'.b0 # bm'.b0.v /\ bm'.d0b.m.cmd = "NEGATE_LO"
  BY DEF GapInv
<1>1. ChannelTypes
  BY DEF Channel0Inv
<1>2. /\ bm'.b0.v = (IF answer THEN half.b0 ELSE bm.b0.v)
      /\ bm'.b0.m = (IF bm.b0.v = half.b0 THEN 1 ELSE 0)
      /\ bm'.b0.s = bm.b0.m
      /\ m'.fillv_del1 = bm.b0.s
      /\ half'.b0 = half.b0
  BY <1>1, MFlipFlops
<1>3. bm'.d0b.m = bc.d0v /\ bm'.d0b.s = bm.d0b.m
  BY DEF MSync
<1>4. CASE m.statemcl # "IDLE"
  <2>1. ack /\ m.men
    BY <1>4, Busy DEF MclInv, M!MclStates, GapR
  <2>2. m'.statemwi \notin GapR
    BY <1>4, <2>1, Busy DEF MclInv, GapR
  <2> QED  BY <2>2
<1>5. CASE m.statemcl = "IDLE" /\ ~Takes
  <2>1. m.statemwi = "GAP2R" /\ m'.statemwi = "GAP3R"
    BY <1>5, IdleWaits DEF MclInv, M!MwiStates, GapR
  <2> QED  BY <1>2, <1>3, <1>5, <2>1 DEF GapInv, GapR
<1>6. CASE Takes
  <2>1. /\ half.b0 # bm.b0.v
        /\ bm.b0.m = 0 /\ bm.b0.s = 0
        /\ bm.d0b.s = bc.d0v /\ bm.d0b.m = bc.d0v
        /\ ~m.rfillv /\ bm.d0b.s.cmd \in Commands
    BY <1>6, TakesOutstanding
  <2>2. m'.statemcl = M!TakenState(bm.d0b.s.cmd)
    BY <1>6, <2>1, IdleTakes
  <2>3. bm.d0b.s.cmd = "NEGATE_LO"
    BY <2>1, <2>2 DEF M!TakenState, Commands
  <2>4. ~answer
    BY <1>6, <2>1, <2>3, IdleTakes
  <2> QED  BY <1>2, <1>3, <2>1, <2>3, <2>4
<1> QED  BY <1>4, <1>5, <1>6

\* dcache_mcl has nothing to do, or is busy with the command that has arrived.
LEMMA MclPhase ==
  ASSUME Channel0Inv
  PROVE  Quiet \/ ((Blocked \/ Served(bm.d0b.s.cmd)) /\ Arrived /\ half.b0 # bm.b0.v)
BY DEF Channel0Inv, Free, Latched, Shown, Serving

-------------------------------------------------------------------------------
(* A cpu clock edge.                                                         *)

\* The edge seen from channel 0: whether a command is sent, and where dcache_ccl
\* goes.
CSync(send) ==
  /\ mEdges >= 1 /\ mEdges' = 0
  /\ half.b0 = bc.b0.v
  /\ m' = m /\ bm' = bm /\ half' = half
  /\ bc'.b0 = FsyncC(bc.b0, half.b0, bm.b0.v, send)
  /\ ~send => bc'.d0v = bc.d0v
  /\ bc'.d0v.cmd \in Commands
  /\ c'.rfillv = bc.b0.s
  /\ send => c'.state \in FirstStates
  /\ c'.state = "IDLE" => ~send /\ (c.state = "IDLE" \/ (bc.b0.s = 0 /\ c.rfillv = 1))
  /\ c'.state # "IDLE" =>
       \/ ~send /\ c.state # "IDLE"
       \/ send /\ (c.state = "IDLE" \/ (bc.b0.s = 0 /\ c.rfillv = 1))

\* Where dcache_ccl goes, whether it sends a command, whether one was answered.
Goes     == NextState(c, CclIn)
Sends    == B0en(c, Goes)
Answered == bc.b0.s = 0 /\ c.rfillv = 1

\* The signals of dcache_ccl that its state machine reads, as state of the model.
LEMMA CclSignals ==
  /\ CclIn.a = cpu.a /\ CclIn.a_lock = cpu.lock
  /\ MemTransAck(c, CclIn) <=> Answered
BY DEF CclIn, MemTransAck, Answered

\* Where dcache_ccl goes from IDLE, and whether it sends a command.
LEMMA FromIdle ==
  ASSUME c.state = "IDLE"
  PROVE  \/ Goes = "IDLE" /\ ~Sends
         \/ Goes = "NEGLCK" /\ Sends /\ ~cpu.lock
         \/ /\ c.dc_onm /\ Sends /\ cpu.a.en
            /\ \/ Goes = "WUNCA1" /\ cpu.lock /\ cpu.a.wr
               \/ Goes = "RLOCK1" /\ cpu.lock /\ ~cpu.a.wr
               \/ Goes \in {"SB1", "WMISS1"} /\ ~cpu.lock /\ cpu.a.wr
               \/ Goes = "RMISS1" /\ ~cpu.lock /\ ~cpu.a.wr
         \/ Goes = "OFF1" /\ ~c.dc_onm /\ Sends /\ cpu.a.en
BY CclSignals DEF Goes, Sends, B0en, NextState, NextStateOn, NextStateOff, IdleOn, IdleOff,
                  WriteState

\* Where dcache_ccl goes from the other states: it sends again only when answered.
LEMMA FromBusy ==
  ASSUME CclInv, c.state # "IDLE"
  PROVE  \/ Goes = "IDLE" /\ ~Sends /\ Answered
         \/ /\ Goes \in {"SB1", "WMISS1"} /\ Sends /\ Answered
            /\ c.dc_onm /\ cpu.a.wr /\ c.state = "SB2"
         \/ /\ Goes # "IDLE" /\ ~Sends
            /\ \/ Goes \in {"RMISS2", "RMISS3"} /\ c.state \in {"RMISS1", "RMISS2", "RMISS3"}
               \/ Goes = "WMISS2" /\ c.state \in {"WMISS1", "WMISS2"}
               \/ Goes = "SB2" /\ c.state \in {"SB1", "SB2"}
               \/ Goes = "RLOCK2" /\ c.state = "RLOCK1"
               \/ Goes = "RLOCK2" /\ c.state = "RLOCK2" /\ ~Answered
               \/ Goes = "WUNCA2" /\ c.state = "WUNCA1"
               \/ Goes = "WUNCA2" /\ c.state = "WUNCA2" /\ ~Answered
               \/ Goes = "NEGLCK" /\ c.state = "NEGLCK"
               \/ Goes = "OFF2" /\ c.state = "OFF1"
               \/ Goes = "OFF2" /\ c.state = "OFF2" /\ ~Answered
<1>1. CASE c.dc_onm
  <2>1. c.state \in OnStates \cup {"NEGLCK"}
    BY <1>1 DEF CclInv, CclStates, OnStates
  <2>2. Goes = NextStateOn(c, CclIn)
    BY <1>1 DEF Goes, NextState
  <2>3. CASE c.state = "SB2"
    <3>1. Goes = IF Answered THEN Sb2Acked(c, CclIn) ELSE "SB2"
      BY <2>2, <2>3, CclSignals DEF NextStateOn
    <3>2. \/ Sb2Acked(c, CclIn) = "IDLE"
          \/ Sb2Acked(c, CclIn) \in {"SB1", "WMISS1"} /\ cpu.a.wr
      BY CclSignals DEF Sb2Acked, WriteState
    <3> QED  BY <1>1, <2>3, <3>1, <3>2 DEF Sends, B0en
  <2>4. CASE c.state # "SB2"
    BY <2>1, <2>2, <2>4, CclSignals DEF Sends, B0en, NextStateOn, OnStates
  <2> QED  BY <2>3, <2>4
<1>2. CASE ~c.dc_onm
  BY <1>2, CclSignals DEF Goes, Sends, B0en, NextState, NextStateOff, CclInv, CclStates,
                          OnStates
<1> QED  BY <1>1, <1>2

\* A cpu clock edge of the model is one of channel 0.
LEMMA CEdgeParts ==
  ASSUME CEdge, CclInv, bc.d0v.cmd \in Commands
  PROVE  CclInv' /\ c'.state = Goes /\ CSync(Sends)
<1> DEFINE x == CclIn
<1>1. /\ mEdges >= 1 /\ mEdges' = 0
      /\ half.b0 = bc.b0.v
      /\ m' = m /\ bm' = bm /\ half' = half
      /\ c' = CclNext(c, x)
      /\ FsyncCcl(x, Goes)
  BY DEF CEdge, Goes
<1>2. x.mtoc.b0enr = bc.b0.s
  BY DEF CclIn
<1> HIDE DEF x
<1>3. /\ c'.state = Goes
      /\ c'.rfillv = bc.b0.s
      /\ c'.dc_onm = DcOnm(c, x, Goes)
  BY <1>1, <1>2 DEF CclNext, Goes, x
<1>4. /\ bc'.b0 = FsyncC(bc.b0, half.b0, bm.b0.v, Sends)
      /\ bc'.d0v = IF Sends THEN B0d(x, Goes) ELSE bc.d0v
  BY <1>1 DEF FsyncCcl, Sends
<1>5. bc'.d0v.cmd \in Commands
  BY <1>4 DEF B0d, Cmd, Commands
<1>6. CASE c.state = "IDLE"
  <2>1. CclInv'
    BY <1>3, <1>6, FromIdle DEF CclInv, CclStates, OnStates, DcOnm
  <2>2. CSync(Sends)
    BY <1>1, <1>3, <1>4, <1>5, <1>6, FromIdle DEF CSync, FirstStates
  <2> QED  BY <1>3, <2>1, <2>2
<1>7. CASE c.state # "IDLE"
  <2>1. CclInv'
    BY <1>3, <1>7, FromBusy DEF CclInv, CclStates, OnStates, DcOnm
  <2>2. CSync(Sends)
    BY <1>1, <1>3, <1>4, <1>5, <1>7, FromBusy DEF CSync, FirstStates, Answered
  <2> QED  BY <1>3, <2>1, <2>2
<1> QED  BY <1>6, <1>7

\* The command channel over a cpu clock edge.
LEMMA CChannel ==
  ASSUME NEW send, CSync(send), Channel0Inv, CclInv
  PROVE  Channel0Inv'
<1>1. ChannelTypes
  BY DEF Channel0Inv
<1>2. /\ bc'.b0.v = (IF send THEN 1 - bm.b0.v ELSE bc.b0.v)
      /\ bc'.b0.m = (IF bm.b0.v = half.b0 THEN 0 ELSE 1)
      /\ bc'.b0.s = bc.b0.m
      /\ c'.rfillv = bc.b0.s
      /\ half'.b0 = half.b0 /\ bm' = bm /\ m' = m
      /\ half.b0 = bc.b0.v
      /\ mEdges' = 0 /\ mEdges >= 1
  BY DEF CSync, FsyncC, Not, Xor
<1>3. ChannelTypes'
  <2>1. bc'.b0 \in FsyncReg
    BY <1>1 DEF CSync, FsyncC, Not, Xor, ChannelTypes, FsyncReg, Bit
  <2> QED  BY <1>1, <1>2, <2>1 DEF ChannelTypes, FsyncReg, CSync
<1>4. (Quiet' <=> Quiet) /\ (ClimbM' <=> ClimbM) /\ (Arrived' <=> Arrived)
  BY <1>2 DEF Quiet, ClimbM, Arrived
<1>5. CASE half.b0 = bm.b0.v
  <2>1. Quiet /\ ClimbM
    BY <1>2, <1>5 DEF Channel0Inv, Free
  <2>2. (c.state = "IDLE" \/ (bc.b0.s = 0 /\ c.rfillv = 1)) =>
          bc.b0.m = 0 /\ bc.b0.s = 0 /\ bm.b0.m = 1
    BY <1>1, <1>2, <1>5 DEF Channel0Inv, Free, ClimbC, Rising, ChannelTypes, FsyncReg, Bit
  <2>3. CASE send
    <3>1. bc.b0.m = 0 /\ bc.b0.s = 0 /\ bm.b0.m = 1 /\ c'.state \in FirstStates
      BY <2>2, <2>3 DEF CSync
    <3>2. half'.b0 # bc'.b0.v
      BY <1>1, <1>2, <1>5, <2>3 DEF ChannelTypes, FsyncReg, Bit
    <3>3. Latched'
      BY <1>1, <1>2, <1>4, <1>5, <2>1, <3>1 DEF Latched, ChannelTypes
    <3> QED  BY <1>2, <1>3, <1>5, <2>1, <3>2, <3>3 DEF Channel0Inv, Free, Shown, Serving
  <2>4. CASE ~send
    <3>1. c'.state = "IDLE" => bc.b0.m = 0 /\ bc.b0.s = 0
      BY <2>2, <2>4 DEF CSync
    <3>2. Free'
      BY <1>2, <1>4, <1>5, <2>1, <3>1 DEF Free
    <3> QED  BY <1>2, <1>3, <1>5, <2>4, <3>2 DEF Channel0Inv, Latched, Shown, Serving
  <2> QED  BY <2>3, <2>4
<1>6. CASE half.b0 # bm.b0.v
  <2>1. c.state # "IDLE" /\ ClimbC
    BY <1>6 DEF Channel0Inv, Shown, Serving
  <2>2. ~(bc.b0.s = 0 /\ c.rfillv = 1)
    BY <2>1 DEF ClimbC, Rising
  <2>3. ~send /\ c'.state # "IDLE"
    BY <2>1, <2>2 DEF CSync
  <2>4. bc'.d0v = bc.d0v
    BY <2>3 DEF CSync
  <2>5. ClimbC' /\ bc'.b0.m = 1
    BY <1>2, <1>6, <2>1 DEF ClimbC, Rising
  <2>6. Free' /\ Latched'
    BY <1>2, <1>6, <2>3 DEF Free, Latched
  <2>7. Shown'
    BY <1>2, <1>4, <1>6, <2>3, <2>4, <2>5 DEF Channel0Inv, Shown
  <2>8. Serving'
    BY <1>2, <1>4, <1>6, <2>3, <2>4, <2>5 DEF Channel0Inv, Serving, Blocked, Served
  <2> QED  BY <1>3, <2>3, <2>6, <2>7, <2>8 DEF Channel0Inv
<1> QED  BY <1>5, <1>6

\* A command is sent only when the last one has been answered, and the answer
\* seen.
LEMMA SendsFree ==
  ASSUME CclInv, Channel0Inv, Sends
  PROVE  /\ bc.b0.v = bm.b0.v /\ half.b0 = bc.b0.v
         /\ Quiet /\ bc.b0.m = 0
<1>1. c.state = "IDLE" \/ Answered
  BY FromIdle, FromBusy
<1>2. half.b0 = bm.b0.v /\ half.b0 = bc.b0.v
  <2>1. ~(half.b0 # bm.b0.v)
    BY <1>1 DEF Channel0Inv, Shown, Serving, ClimbC, Rising, Answered
  <2>2. ~(half.b0 # bc.b0.v)
    BY <1>1 DEF Channel0Inv, Latched, FirstStates, Answered
  <2> QED  BY <2>1, <2>2
<1>3. bc.b0.m = 0
  BY <1>1, <1>2 DEF Channel0Inv, Free, ClimbC, Rising, Answered, ChannelTypes, FsyncReg, Bit
<1> QED  BY <1>2, <1>3 DEF Channel0Inv, Free

-------------------------------------------------------------------------------
(* Channel 0 over a step.                                                    *)

CoreInv == CclInv /\ MclInv /\ GapInv /\ Channel0Inv

\* At reset the channel is free.
LEMMA CoreInit == Init => CoreInv
<1> SUFFICES ASSUME Init PROVE CoreInv
  OBVIOUS
<1>1. c = CclReset /\ m = M!MclReset
  BY DEF Init
<1>2. /\ bc.b0 = FsyncReset /\ bm.b0 = FsyncReset /\ half = [b0 |-> 0, b2 |-> 0]
      /\ bc.d0v = NullCommand /\ mEdges = 0
  BY DEF Init
<1>3. /\ c.state = "IDLE" /\ ~c.dc_onm /\ c.rfillv = 0
      /\ m.statemcl = "IDLE" /\ m.statemwi = "IDLE"
      /\ ~m.men /\ ~m.mwr /\ ~m.sbbufin /\ ~m.sbblknxst /\ ~m.rfillv /\ ~m.rfillv_pre1
      /\ m.fillv_del1 = 0
  BY <1>1 DEF CclReset, M!MclReset
<1>4. CclInv /\ MclInv /\ GapInv
  BY <1>3 DEF CclInv, MclInv, GapInv, CclStates, OnStates, M!MclStates, M!MwiStates,
              M!Writing, GapR
<1>5. ChannelTypes
  BY <1>2, <1>3 DEF ChannelTypes, FsyncReg, FsyncReset, Bit, NullCommand, Commands
<1>6. Free /\ Latched /\ Shown /\ Serving
  BY <1>2, <1>3 DEF Free, Latched, Shown, Serving, Quiet, ClimbM, ClimbC, Rising,
                    FsyncReset
<1> QED  BY <1>4, <1>5, <1>6 DEF CoreInv, Channel0Inv

\* The channel and both halves over a memory clock edge,
LEMMA CoreMEdge ==
  ASSUME NEW ack \in BOOLEAN, MEdge(ack), CoreInv
  PROVE  CoreInv'
<1> USE DEF CoreInv
<1>1. PICK answer : MSync(answer) /\ MMoves(ack, answer)
  BY MEdgeParts
<1>2. Channel0Inv'
  BY <1>1, MFree, MShown, MServing
<1>3. GapInv'
  BY <1>1, MGap
<1>4. CclInv'
  BY <1>1 DEF MSync, CclInv
<1>5. MclInv'
  <2>1. CASE Takes
    <3>1. bm.d0b.s.cmd \in Commands
      BY <2>1, TakesOutstanding
    <3> QED  BY <1>1, <3>1, MclPhase, MclMoves
  <2>2. CASE ~Takes /\ Quiet
    <3>1. CASE m.statemcl = "IDLE"
      <4>1. m'.statemcl = "IDLE" /\ m'.statemwi \in M!MwiStates
        BY <1>1, <2>2, <3>1, IdleWaits DEF M!MwiStates, MclInv
      <4>2. ~m'.men /\ ~m'.mwr /\ ~m'.sbbufin
        BY <1>1, <2>2, <3>1, IdleWaits
      <4> QED  BY <4>1, <4>2 DEF MclInv, M!MclStates
    <3>2. CASE m.statemcl = "WTHI" /\ m.statemwi = "IDLE"
      <4>1. Command = "WRITESGL_FA"
        BY <3>2 DEF MclInv, Command
      <4>2. /\ m'.statemcl = IF ack THEN "IDLE" ELSE "WTHI"
            /\ m'.statemwi = IF ack THEN "GAP1" ELSE "IDLE"
            /\ m'.men <=> (m'.statemcl # "IDLE" /\ m'.statemwi \notin GapR)
            /\ m'.mwr <=> (m'.men \/ m'.statemcl = "WTHA")
            /\ m'.sbbufin <=> ~ack
        BY <1>1, <3>2, <4>1, Busy DEF M!Writing, MclInv, M!WriteSgl
      <4> QED  BY <4>2 DEF MclInv, M!Writing, M!MclStates, M!MwiStates, GapR
    <3> QED  BY <2>2, <3>1, <3>2 DEF Quiet
  <2>3. CASE ~Quiet
    <3>1. half.b0 # bm.b0.v /\ Arrived
      BY <2>3, MclPhase
    <3>2. bm.d0b.s.cmd \in Commands
      BY <3>1 DEF Channel0Inv, Serving, ChannelTypes
    <3> QED  BY <1>1, <2>3, <3>2, MclPhase, MclMoves
  <2> QED  BY <2>1, <2>2, <2>3
<1> QED  BY <1>2, <1>3, <1>4, <1>5

\* and when clk125 falls, which opens the half-cycle latch.
LEMMA CoreCLow ==
  ASSUME CLow, CoreInv
  PROVE  CoreInv'
<1> USE DEF CoreInv
<1>1. /\ half.b0 # bc.b0.v /\ half'.b0 = bc.b0.v
      /\ c' = c /\ m' = m /\ bc' = bc /\ bm' = bm /\ mEdges' = mEdges
  <2>1. half = [b0 |-> half.b0, b2 |-> half.b2]
    BY DEF Channel0Inv, ChannelTypes
  <2> QED  BY <2>1 DEF CLow
<1>2. /\ half.b0 = bm.b0.v /\ Quiet /\ ClimbM /\ bm.b0.m = 1
      /\ c.state \in FirstStates
      /\ bc.b0.m = 0 /\ bc.b0.s = 0 /\ c.rfillv = 0
  BY <1>1 DEF Channel0Inv, Latched
<1>3. ChannelTypes'
  <2>1. half = [b0 |-> half.b0, b2 |-> half.b2]
    BY DEF Channel0Inv, ChannelTypes
  <2>2. half' = [b0 |-> bc.b0.v, b2 |-> half.b2]
    BY <2>1 DEF CLow
  <2> QED  BY <1>1, <2>2 DEF Channel0Inv, ChannelTypes, FsyncReg
<1>4. Shown'
  BY <1>1, <1>2 DEF Shown, Quiet, ClimbM, ClimbC, Rising, FirstStates
<1>5. Free' /\ Latched' /\ Serving'
  BY <1>1, <1>2 DEF Free, Latched, Serving, Arrived
<1>6. CclInv' /\ MclInv'
  BY <1>1 DEF CclInv, MclInv
<1>7. GapInv'
  BY <1>1, <1>2 DEF GapInv
<1> QED  BY <1>3, <1>4, <1>5, <1>6, <1>7 DEF Channel0Inv

\* Every step keeps the invariant of channel 0.
LEMMA CoreStep == CoreInv /\ [Next]_vars => CoreInv'
<1> SUFFICES ASSUME CoreInv, [Next]_vars PROVE CoreInv'
  OBVIOUS
<1>1. CASE CEdge
  <2>1. bc.d0v.cmd \in Commands
    BY DEF CoreInv, Channel0Inv, ChannelTypes
  <2>2. CclInv' /\ CSync(Sends)
    BY <1>1, <2>1, CEdgeParts DEF CoreInv
  <2>3. Channel0Inv'
    BY <2>2, CChannel DEF CoreInv
  <2>4. m' = m /\ bm' = bm /\ half' = half
    BY <1>1 DEF CEdge
  <2>5. MclInv' /\ GapInv'
    BY <2>4 DEF CoreInv, MclInv, GapInv
  <2> QED  BY <2>2, <2>3, <2>5 DEF CoreInv
<1>2. CASE CLow
  BY <1>2, CoreCLow
<1>3. CASE MemAck \/ MemWait
  BY <1>3, CoreMEdge DEF MemAck, MemWait
<1>4. CASE MLow
  <2>1. half = [b0 |-> half.b0, b2 |-> half.b2]
    BY DEF CoreInv, Channel0Inv, ChannelTypes
  <2>2. /\ half' = [b0 |-> half.b0, b2 |-> bm.b2]
        /\ c' = c /\ m' = m /\ bc' = bc /\ bm' = bm /\ mEdges' = mEdges
    BY <1>4, <2>1 DEF MLow
  <2>3. half'.b0 = half.b0 /\ half' = [b0 |-> half'.b0, b2 |-> half'.b2]
    BY <2>2
  <2>4. CclInv' /\ MclInv' /\ GapInv'
    BY <2>2, <2>3 DEF CoreInv, CclInv, MclInv, GapInv
  <2>5. ChannelTypes'
    BY <2>2, <2>3 DEF CoreInv, Channel0Inv, ChannelTypes
  <2>6. Free' /\ Latched'
    BY <2>2, <2>3 DEF CoreInv, Channel0Inv, Free, Latched, Quiet, ClimbM, ClimbC
  <2>7. Shown' /\ Serving'
    BY <2>2, <2>3 DEF CoreInv, Channel0Inv, Shown, Serving, Quiet, ClimbM, ClimbC,
                      Arrived, Blocked, Served
  <2> QED  BY <2>4, <2>5, <2>6, <2>7 DEF CoreInv, Channel0Inv
<1>5. CASE RemoteWrite \/ UNCHANGED vars
  <2>1. c' = c /\ m' = m /\ bc' = bc /\ bm' = bm /\ half' = half /\ mEdges' = mEdges
    BY <1>5 DEF RemoteWrite, vars
  <2>2. CclInv' /\ MclInv' /\ GapInv'
    BY <2>1 DEF CoreInv, CclInv, MclInv, GapInv
  <2>3. ChannelTypes' /\ Free' /\ Latched'
    BY <2>1 DEF CoreInv, Channel0Inv, ChannelTypes, Free, Latched, Quiet, ClimbM, ClimbC
  <2>4. Shown' /\ Serving'
    BY <2>1 DEF CoreInv, Channel0Inv, Shown, Serving, Quiet, ClimbM, ClimbC,
                Arrived, Blocked, Served
  <2> QED  BY <2>2, <2>3, <2>4 DEF CoreInv, Channel0Inv
<1> QED  BY <1>1, <1>2, <1>3, <1>4, <1>5 DEF Next

\* The two halves of the cache never lose a command, take one twice or answer one
\* that was not sent, whatever the ratio and phase of their clocks allow: the
\* invariant of channel 0 holds in every reachable state.
THEOREM CommandsFollowProtocol == Spec => []CoreInv
BY CoreInit, CoreStep, PTL DEF Spec

-------------------------------------------------------------------------------
(* Types.                                                                    *)

CpuRequests  == [en : BOOLEAN, wr : BOOLEAN, a : Addresses, we : SUBSET Lanes,
                 d : WordValues]
CommandWords == [cmd : Commands, sz : {"word", "lane"}, a : Addresses, d : WordValues]

CpuTypes ==
  /\ cpu \in [a : CpuRequests, lock : BOOLEAN, tas : {"none", "read", "held", "write"},
              at : Addresses, n : 0 .. MaxOps]
  /\ cpu.tas \in {"read", "held"} => cpu.n < MaxOps

PortTypes ==
  /\ sa.al \in Lines
  /\ rem.line \in [Remotes -> Lines]

CclTypes ==
  /\ c.state_del1 \in CclStates
  /\ c.ma0 \in Addresses /\ c.a_prev.a \in Addresses /\ c.sa_al \in Lines
  /\ c.ffv \subseteq Indices /\ c.dw \in WordValues /\ c.sabank_send \in Banks

MclTypes ==
  /\ m.ma0 \in Addresses /\ m.reqw \in Words /\ m.sbwe \subseteq Lanes
  /\ m.ry_we1 \subseteq Lanes /\ m.sbdata \in WordValues /\ m.cd \in WordValues

SyncTypes ==
  /\ bc.b2 \in FsyncReg /\ bc.b3 \in [Banks -> FsyncReg]
  /\ bm.b2 \in Bit /\ bm.b3 \in [Banks -> Bit] /\ half.b2 \in Bit
  /\ bc.d0v \in CommandWords
  /\ bm.d0b.m \in CommandWords /\ bm.d0b.s \in CommandWords

StoreTypes ==
  /\ tag \in [Indices -> Tags] /\ ra.tag0 \in Tags /\ ra.tag1 \in Tags
  /\ ra.d0 \in WordValues
  /\ ram \in [Indices -> [Words -> WordValues]]
  /\ mem \in [Places -> WordValues]

TypeInv == CpuTypes /\ PortTypes /\ CclTypes /\ MclTypes /\ SyncTypes /\ StoreTypes

\* The assumptions on the constants as separate facts.
LEMMA Sizes ==
  /\ NumTags \in Nat /\ NumIndices \in Nat /\ NumLanes \in Nat /\ LineWords \in Nat
  /\ NumTags >= 1 /\ NumIndices >= 1 /\ NumLanes >= 1 /\ LineWords >= 4
  /\ MaxOps \in Nat /\ MaxRemote \in Nat
<1>1. /\ NumTags \in Nat \ {0} /\ NumIndices \in Nat \ {0} /\ NumLanes \in Nat \ {0}
      /\ LineWords \in Nat /\ LineWords >= 4
  BY PackAssumption
<1>2. MaxOps \in Nat /\ MaxRemote \in Nat
  BY DcacheAssumption
<1> QED  BY <1>1, <1>2

\* The word after a word of a line is another one of the line.
LEMMA NextWordType ==
  ASSUME NEW w \in Words
  PROVE  NextWord(w) \in Words /\ NextWord(w) # w
<1>1. LineWords \in Nat /\ LineWords >= 4 /\ w \in Nat /\ w < LineWords
  BY Sizes DEF Words
<1>2. CASE w + 1 = LineWords
  <2>1. LineWords % LineWords = 0
    BY <1>1
  <2> QED  BY <1>1, <1>2, <2>1 DEF NextWord, Words
<1>3. CASE w + 1 < LineWords
  <2>1. (w + 1) % LineWords = w + 1
    BY <1>1, <1>3
  <2> QED  BY <1>1, <1>3, <2>1 DEF NextWord, Words
<1> QED  BY <1>1, <1>2, <1>3

\* The operators of DcachePack return what they should.
LEMMA PackTypes ==
  /\ Address0 \in Addresses
  /\ JunkWord \in WordValues
  /\ NullRequest \in CpuRequests
  /\ NullCommand \in CommandWords
  /\ \A a \in Addresses : Line(a) \in Lines /\ Place(a) \in Places
  /\ \A p \in Places : Line(p) \in Lines
  /\ \A a \in Addresses : {a.b} \subseteq Lanes
  /\ \A u, v \in WordValues : \A we : Merge(u, v, we) \in WordValues
  /\ \A p \in Places : InitialWord(p) \in WordValues
<1>1. Address0 \in Addresses
  BY Sizes DEF Address0, Addresses, Tags, Indices, Words, Lanes
<1>2. JunkWord \in WordValues
  BY DEF JunkWord, WordValues, Junk
<1>3. NullRequest \in CpuRequests /\ NullCommand \in CommandWords
  BY <1>1, <1>2 DEF NullRequest, NullCommand, CpuRequests, CommandWords, Commands
<1>4. \A a \in Addresses : Line(a) \in Lines /\ Place(a) \in Places
  BY DEF Addresses, Line, Place, Lines, Places
<1>5. \A p \in Places : Line(p) \in Lines
  BY DEF Places, Line, Lines
<1>6. \A a \in Addresses : {a.b} \subseteq Lanes
  BY DEF Addresses
<1>7. \A u, v \in WordValues : \A we : Merge(u, v, we) \in WordValues
  BY DEF WordValues, Merge
<1>8. ASSUME NEW p \in Places PROVE InitialWord(p) \in WordValues
  <2>1. p.t \in Nat /\ p.i \in Nat /\ p.w \in Nat
    BY Sizes DEF Places, Tags, Indices, Words
  <2>2. NumIndices * p.t \in Nat
    BY <2>1, Sizes
  <2>3. p.i + NumIndices * p.t \in Nat
    BY <2>1, <2>2
  <2>4. LineWords * (p.i + NumIndices * p.t) \in Nat
    BY <2>3, Sizes
  <2>5. p.w + LineWords * (p.i + NumIndices * p.t) \in Nat
    BY <2>1, <2>4
  <2>6. NumLanes * (p.w + LineWords * (p.i + NumIndices * p.t)) \in Nat
    BY <2>5, Sizes
  <2>7. PICK k \in Nat : k = NumLanes * (p.w + LineWords * (p.i + NumIndices * p.t))
    BY <2>6
  <2>8. \A l \in Lanes : MaxOps + MaxRemote + 1 + l + k \in Nat
    BY Sizes DEF Lanes
  <2> QED  BY <2>7, <2>8 DEF InitialWord, WordValues
<1> QED  BY <1>1, <1>2, <1>3, <1>4, <1>5, <1>6, <1>7, <1>8

\* The initial values have their types.
LEMMA TypesInit == Init => TypeInv
<1> SUFFICES ASSUME Init PROVE TypeInv
  OBVIOUS
<1>1. CpuTypes
  BY PackTypes, Sizes DEF Init, CpuTypes
<1>2. PortTypes
  BY PackTypes DEF Init, PortTypes
<1>3. CclTypes
  <2>1. c = CclReset
    BY DEF Init
  <2> QED  BY <2>1, PackTypes DEF CclTypes, CclReset, CclStates, Banks
<1>4. MclTypes
  <2>1. m = M!MclReset
    BY DEF Init
  <2>2. M!Address0 = Address0 /\ M!JunkWord = JunkWord
    BY DEF M!Address0, Address0, M!JunkWord, JunkWord, M!Lanes, Lanes, M!Junk, Junk
  <2>3. 0 \in Words
    BY Sizes DEF Words
  <2> QED  BY <2>1, <2>2, <2>3, PackTypes DEF MclTypes, M!MclReset
<1>5. SyncTypes
  BY PackTypes DEF Init, SyncTypes, FsyncReset, FsyncReg, Bit
<1>6. StoreTypes
  <2>1. 0 \in Tags
    BY Sizes DEF Tags
  <2> QED  BY <2>1, PackTypes DEF Init, StoreTypes
<1> QED  BY <1>1, <1>2, <1>3, <1>4, <1>5, <1>6 DEF TypeInv

\* The cpu's next request is one of its program's.
LEMMA CpuStepTypes ==
  ASSUME CpuTypes, CpuStep
  PROVE  CpuTypes'
<1>1. CASE UNCHANGED cpu
  BY <1>1 DEF CpuTypes
<1>2. CASE NoAccess
  BY <1>2, PackTypes DEF NoAccess, CpuTypes
<1>3. CASE NewAccess
  <2>1. \A a \in Addresses : ReadRequest(a) \in CpuRequests
    BY PackTypes DEF ReadRequest, CpuRequests
  <2>2. cpu.n + 1 \in Nat
    BY DEF CpuTypes
  <2>3. ASSUME NEW q \in Writes PROVE WriteRequest(q.a, q.we, cpu.n + 1) \in CpuRequests
    <3>1. q.a \in Addresses /\ q.we \subseteq Lanes
      BY DcacheAssumption, PackTypes
    <3> QED  BY <2>2, <3>1 DEF WriteRequest, CpuRequests, WordValues
  <2>4. Requests(cpu.n + 1) \subseteq CpuRequests
    BY <2>1, <2>3, DcacheAssumption DEF Requests
  <2>5. \A a \in TasReads : a \in Addresses
    BY DcacheAssumption
  <2>6. CASE /\ cpu.n < MaxOps
             /\ \E q \in Requests(cpu.n + 1) :
                  cpu' = [a |-> q, lock |-> FALSE, tas |-> "none", at |-> Address0,
                          n |-> cpu.n + 1]
    BY <2>4, <2>6, PackTypes, Sizes DEF CpuTypes
  <2>7. CASE /\ cpu.n + 1 < MaxOps
             /\ \E a \in TasReads :
                  cpu' = [a |-> ReadRequest(a), lock |-> TRUE, tas |-> "read", at |-> a,
                          n |-> cpu.n + 1]
    BY <2>1, <2>5, <2>7, Sizes DEF CpuTypes
  <2> QED  BY <1>3, <2>6, <2>7 DEF NewAccess
<1>4. CASE cpu.tas = "held" /\ TasWrite
  <2>1. cpu.n + 1 \in 0 .. MaxOps /\ cpu.n + 1 \in Nat /\ cpu.at \in Addresses
    BY <1>4, Sizes DEF CpuTypes
  <2>2. WriteRequest(cpu.at, {cpu.at.b}, cpu.n + 1) \in CpuRequests
    BY <2>1, PackTypes DEF WriteRequest, CpuRequests, WordValues
  <2> QED  BY <1>4, <2>1, <2>2 DEF TasWrite, CpuTypes
<1>5. CASE LockLingers
  BY <1>5, PackTypes DEF LockLingers, CpuTypes
<1>6. CASE cpu.tas = "read" /\ cpu' = [cpu EXCEPT !.a = NullRequest, !.tas = "held"]
  BY <1>6, PackTypes DEF CpuTypes
<1> QED  BY <1>1, <1>2, <1>3, <1>4, <1>5, <1>6 DEF CpuStep

\* The snoop port keeps its type.
LEMMA PortStepTypes ==
  ASSUME PortTypes, SnoopStep
  PROVE  PortTypes'
<1>1. CASE sa' = [sa EXCEPT !.en = FALSE] /\ rem'.line = rem.line
  BY <1>1 DEF PortTypes
<1>2. CASE \E k \in Remotes : sa' = [en |-> TRUE, al |-> rem.line[k]] /\ rem'.line = rem.line
  BY <1>2 DEF PortTypes
<1>3. \A age : [rem EXCEPT !.age = age].line = rem.line
  OBVIOUS
<1> QED  BY <1>1, <1>2, <1>3 DEF SnoopStep

\* A cpu clock edge keeps all types,
LEMMA CEdgeTypes ==
  ASSUME TypeInv, CoreInv, CEdge
  PROVE  TypeInv'
<1> DEFINE x == CclIn
           st == NextState(c, x)
<1>1. /\ c' = CclNext(c, x) /\ FsyncCcl(x, st) /\ Rams(x)
      /\ CpuStep /\ SnoopStep
      /\ m' = m /\ bm' = bm /\ half' = half /\ mem' = mem
  BY DEF CEdge
<1>2. /\ x.a = cpu.a /\ x.sa = sa /\ x.ra = ra
  BY DEF CclIn
<1>3. /\ x.a.a \in Addresses /\ x.a.d \in WordValues /\ x.a.we \subseteq Lanes
      /\ x.sa.al \in Lines /\ x.ra.d0 \in WordValues
      /\ ra.d0 \in WordValues
  BY <1>2 DEF TypeInv, CpuTypes, CpuRequests, PortTypes, StoreTypes
<1> HIDE DEF x
<1>4. CpuTypes' /\ PortTypes'
  BY <1>1, CpuStepTypes, PortStepTypes DEF TypeInv
<1>5. MclTypes'
  BY <1>1 DEF TypeInv, MclTypes
<1>6. CclTypes'
  <2> HIDE DEF st
  <2>1. /\ c'.state_del1 = c.state
        /\ c'.ma0 = IF NextState(c, x) \in {"RMISS1", "WMISS1", "RLOCK1"} THEN x.a.a
                                                                        ELSE c.ma0
        /\ c'.a_prev = IF x.a.en THEN [wr |-> x.a.wr, a |-> x.a.a] ELSE c.a_prev
        /\ c'.sa_al = IF x.sa.en THEN x.sa.al ELSE c.sa_al
        /\ c'.sabank_send = IF SendsWrite(c, x, NextState(c, x)) THEN 1 - c.sabank_send
                                                               ELSE c.sabank_send
        /\ c'.dw = IF RamWordValid(c) THEN x.ra.d0 ELSE c.dw
        /\ c'.ffv = Ffv(c, x)
    BY <1>1 DEF CclNext
  <2>2. c'.ffv \subseteq Indices
    <3>1. c.ffv \subseteq Indices /\ c.ma0.i \in Indices
      BY DEF TypeInv, CclTypes, Addresses
    <3> QED  BY <2>1, <3>1 DEF Ffv
  <2>3. c.state \in CclStates
    BY DEF CoreInv, CclInv
  <2>4. c'.sabank_send \in Banks
    BY <2>1 DEF TypeInv, CclTypes, Banks
  <2>5. c'.a_prev.a \in Addresses
    BY <1>3, <2>1 DEF TypeInv, CclTypes
  <2> QED  BY <1>3, <2>1, <2>2, <2>3, <2>4, <2>5 DEF TypeInv, CclTypes
<1>7. SyncTypes'
  <2>1. /\ bc'.b2 = FsyncC(bc.b2, bc.b2.v, half.b2, B2en(st))
        /\ bc'.b3 = [k \in Banks |->
                       FsyncC(bc.b3[k], bc.b3[k].v, bm.b3[k], k \in B3en(c, x, st))]
        /\ bc'.d0v = IF B0en(c, st) THEN B0d(x, st) ELSE bc.d0v
    <3> HIDE DEF st
    <3> QED  BY <1>1 DEF FsyncCcl
  <2>2. ASSUME NEW r \in FsyncReg, NEW cs \in Bit, NEW ms \in Bit, NEW send
        PROVE  FsyncC(r, cs, ms, send) \in FsyncReg
    BY DEF FsyncC, FsyncReg, Bit, Not, Xor
  <2>3. B0d(x, st) \in CommandWords
    <3> HIDE DEF st
    <3>1. Cmd(x, st) \in Commands
      BY DEF Cmd, Commands
    <3>2. Size(x.a.we) \in {"word", "lane"}
      BY DEF Size
    <3> QED  BY <1>3, <3>1, <3>2, PackTypes DEF B0d, CommandWords
  <2> HIDE DEF st
  <2>4. bc'.b2 \in FsyncReg
    <3>1. bc.b2 \in FsyncReg /\ bc.b2.v \in Bit /\ half.b2 \in Bit
      BY DEF TypeInv, SyncTypes, FsyncReg
    <3> QED  BY <2>1, <2>2, <3>1
  <2>5. bc'.b3 \in [Banks -> FsyncReg]
    <3>1. \A k \in Banks : bc.b3[k] \in FsyncReg /\ bc.b3[k].v \in Bit /\ bm.b3[k] \in Bit
      BY DEF TypeInv, SyncTypes, FsyncReg
    <3>2. \A k \in Banks : FsyncC(bc.b3[k], bc.b3[k].v, bm.b3[k], k \in B3en(c, x, st))
                              \in FsyncReg
      BY <2>2, <3>1
    <3> QED  BY <2>1, <3>2
  <2>6. bc'.d0v \in CommandWords
    BY <2>1, <2>3 DEF TypeInv, SyncTypes
  <2> QED  BY <1>1, <2>4, <2>5, <2>6 DEF TypeInv, SyncTypes
<1>8. StoreTypes'
  <2>1. TagIndex(c, x) \in Indices /\ SnoopIndex(c, x) \in Indices /\ c.ma0.t \in Tags
    BY <1>3 DEF TypeInv, CclTypes, TagIndex, SnoopIndex, Addresses, Lines
  <2>2. RamWord(c, x) \in Words /\ x.a.a.i \in Indices
    <3>1. x.a.a.w \in Words /\ x.a.a.i \in Indices
      BY <1>3 DEF Addresses
    <3> QED  BY <3>1, NextWordType DEF RamWord
  <2>3. tag' \in [Indices -> Tags]
    BY <1>1, <2>1 DEF Rams, TypeInv, StoreTypes
  <2>4. ram' \in [Indices -> [Words -> WordValues]]
    <3>1. ram \in [Indices -> [Words -> WordValues]]
      BY DEF TypeInv, StoreTypes
    <3>2. CASE ~(RamEnable(c, x) /\ RamWrite(c, x))
      BY <1>1, <3>1, <3>2 DEF Rams
    <3>3. CASE RamEnable(c, x) /\ RamWrite(c, x)
      <4>1. PICK i \in Indices, w \in Words : i = x.a.a.i /\ w = RamWord(c, x)
        BY <2>2
      <4>2. ram[i][w] \in WordValues
        BY <3>1
      <4>3. Merge(ram[i][w], x.a.d, x.a.we) \in WordValues
        BY <1>3, <4>2, PackTypes
      <4>4. ram' = [ram EXCEPT ![i][w] = Merge(ram[i][w], x.a.d, x.a.we)]
        BY <1>1, <3>3, <4>1 DEF Rams
      <4> HIDE <4>1
      <4> QED  BY <3>1, <4>3, <4>4
    <3> QED  BY <3>2, <3>3
  <2>5. DataOut(x) \in WordValues
    <3>1. ram[x.a.a.i][RamWord(c, x)] \in WordValues
      BY <2>2 DEF TypeInv, StoreTypes
    <3> QED  BY <1>3, <3>1, PackTypes DEF DataOut
  <2>6. \A t \in TagOut(x) : t[1] \in Tags /\ t[2] \in Tags
    BY <2>1 DEF TagOut, TypeInv, StoreTypes
  <2>7. ra'.tag0 \in Tags /\ ra'.tag1 \in Tags /\ ra'.d0 \in WordValues
    BY <1>1, <2>5, <2>6 DEF Rams
  <2> QED  BY <1>1, <2>3, <2>4, <2>7 DEF TypeInv, StoreTypes
<1> QED  BY <1>4, <1>5, <1>6, <1>7, <1>8 DEF TypeInv

\* dcache_mcl has its own copy of the package's operators.
LEMMA SamePack ==
  /\ M!Lanes = Lanes
  /\ \A w : M!NextWord(w) = NextWord(w)
  /\ \A sz, a : M!SizeLanes(sz, a) = SizeLanes(sz, a)
BY DEF M!Lanes, Lanes, M!NextWord, NextWord, M!SizeLanes, SizeLanes

\* so does a memory clock edge,
LEMMA MEdgeTypes ==
  ASSUME TypeInv, CoreInv, NEW ack \in BOOLEAN, MEdge(ack)
  PROVE  TypeInv'
<1> DEFINE x == MclIn(ack)
           st == M!Statemcl(m, x)
<1>1. /\ m' = M!MclNext(m, x) /\ FsyncMcl(x)
      /\ c' = c /\ bc' = bc /\ half' = half /\ tag' = tag /\ ra' = ra
      /\ cpu' = cpu /\ sa' = sa /\ rem' = rem
  BY DEF MEdge
<1>2. /\ x.ctom.b0d = bm.d0b.s
      /\ x.d = mem[Place(m.ma0)]
      /\ x.ack = ack
  BY DEF MclIn
<1>3. /\ x.ctom.b0d \in CommandWords
      /\ x.d \in WordValues
      /\ m.ma0 \in Addresses
  BY <1>2, PackTypes DEF TypeInv, SyncTypes, MclTypes, StoreTypes
<1> HIDE DEF x
<1>4. CpuTypes' /\ PortTypes' /\ CclTypes'
  BY <1>1 DEF TypeInv, CpuTypes, PortTypes, CclTypes
<1>5. SizeLanes(x.ctom.b0d.sz, x.ctom.b0d.a) \subseteq Lanes
  BY <1>3, PackTypes DEF SizeLanes, CommandWords
<1>6. M!SboutWe(m, x) \subseteq Lanes
  BY <1>5, SamePack DEF M!SboutWe
<1>7. M!SboutD(m, x) \in WordValues
  BY <1>3 DEF M!SboutD, TypeInv, MclTypes, CommandWords
<1>8. MclTypes'
  <2>1. /\ m'.ma0 = M!Ma0(m, x, st)
        /\ m'.reqw = IF M!SboutEn1(m, x) THEN x.ctom.b0d.a.w ELSE m.reqw
        /\ m'.sbwe = M!Sbwe(m, x, st)
        /\ m'.ry_we1 = M!RyWe1(m, x, st)
        /\ m'.sbdata = IF M!TakesWrite(m, x) THEN M!SboutD(m, x) ELSE m.sbdata
        /\ m'.cd = IF M!CriticalRead(m, x) THEN x.d ELSE m.cd
    BY <1>1 DEF M!MclNext
  <2> HIDE DEF st
  <2>2. m'.ma0 \in Addresses
    <3>1. x.ctom.b0d.a \in Addresses /\ 0 \in Lanes
      BY <1>3, Sizes DEF CommandWords, Lanes
    <3>2. [x.ctom.b0d.a EXCEPT !.b = 0] \in Addresses
      BY <3>1 DEF Addresses
    <3>3. [m.ma0 EXCEPT !.w = NextWord(m.ma0.w), !.b = 0] \in Addresses
      <4>1. NextWord(m.ma0.w) \in Words
        BY <1>3, NextWordType DEF Addresses
      <4> QED  BY <1>3, <3>1, <4>1 DEF Addresses
    <3>4. \/ m'.ma0 = [x.ctom.b0d.a EXCEPT !.b = 0]
          \/ m'.ma0 = x.ctom.b0d.a
          \/ m'.ma0 = [m.ma0 EXCEPT !.w = NextWord(m.ma0.w), !.b = 0]
          \/ m'.ma0 = m.ma0
      BY <2>1, SamePack DEF M!Ma0
    <3> QED  BY <1>3, <3>1, <3>2, <3>3, <3>4
  <2>3. m'.reqw \in Words
    BY <1>3, <2>1 DEF CommandWords, Addresses, TypeInv, MclTypes
  <2>4. m'.sbwe \subseteq Lanes
    BY <1>6, <2>1 DEF M!Sbwe, TypeInv, MclTypes
  <2>5. m'.ry_we1 \subseteq Lanes
    BY <2>1, SamePack DEF M!RyWe1
  <2>6. m'.sbdata \in WordValues /\ m'.cd \in WordValues
    BY <1>3, <1>7, <2>1 DEF TypeInv, MclTypes
  <2> QED  BY <2>2, <2>3, <2>4, <2>5, <2>6 DEF MclTypes
<1>9. SyncTypes'
  <2>1. /\ bm'.b2 = IF m.b2en THEN bc.b2.v ELSE bm.b2
        /\ bm'.b3 = [k \in Banks |-> IF k \in M!B3enr(m, x) THEN bc.b3[k].v ELSE bm.b3[k]]
        /\ bm'.d0b.m = bc.d0v /\ bm'.d0b.s = bm.d0b.m
    BY <1>1 DEF FsyncMcl
  <2>2. bm'.b2 \in Bit /\ bm'.b3 \in [Banks -> Bit]
    BY <2>1 DEF TypeInv, SyncTypes, FsyncReg
  <2> QED  BY <1>1, <2>1, <2>2 DEF TypeInv, SyncTypes
<1>10. StoreTypes'
  <2>1. m.ma0.i \in Indices /\ m.ma0.w \in Words /\ Place(m.ma0) \in Places
    BY <1>3, PackTypes DEF Addresses
  <2>2. ram' = IF M!FillWrite(m, x)
                 THEN [ram EXCEPT ![m.ma0.i][m.ma0.w] = Merge(@, x.d, m.ry_we1)]
                 ELSE ram
    BY DEF MEdge, x
  <2>3. mem' = IF ack /\ m.mwr
                 THEN [mem EXCEPT ![Place(m.ma0)] = Merge(@, M!SboutD(m, x), m.sbwe)]
                 ELSE mem
    BY DEF MEdge, x
  <2>4. ram \in [Indices -> [Words -> WordValues]] /\ mem \in [Places -> WordValues]
    BY DEF TypeInv, StoreTypes
  <2>5. ram' \in [Indices -> [Words -> WordValues]]
    <3>1. PICK i \in Indices, w \in Words : i = m.ma0.i /\ w = m.ma0.w
      BY <2>1
    <3>2. ram[i][w] \in WordValues
      BY <2>4
    <3>3. Merge(ram[i][w], x.d, m.ry_we1) \in WordValues
      BY <1>3, <3>2, PackTypes
    <3>4. \/ ram' = [ram EXCEPT ![i][w] = Merge(ram[i][w], x.d, m.ry_we1)]
          \/ ram' = ram
      BY <2>2, <3>1
    <3> HIDE <3>1
    <3> QED  BY <2>4, <3>3, <3>4
  <2>6. mem' \in [Places -> WordValues]
    <3>1. PICK p \in Places : p = Place(m.ma0)
      BY <2>1
    <3>2. Merge(mem[p], M!SboutD(m, x), m.sbwe) \in WordValues
      BY <1>7, <2>4, PackTypes
    <3>3. \/ mem' = [mem EXCEPT ![p] = Merge(mem[p], M!SboutD(m, x), m.sbwe)]
          \/ mem' = mem
      BY <2>3, <3>1
    <3> HIDE <3>1
    <3> QED  BY <2>4, <3>2, <3>3
  <2> QED  BY <1>1, <2>5, <2>6 DEF TypeInv, StoreTypes
<1> QED  BY <1>4, <1>8, <1>9, <1>10 DEF TypeInv

\* and so do the remaining steps.
LEMMA OtherTypes ==
  ASSUME TypeInv, CoreInv, CLow \/ MLow \/ RemoteWrite \/ UNCHANGED vars
  PROVE  TypeInv'
<1>1. CASE CLow \/ MLow \/ UNCHANGED vars
  <2>1. /\ c' = c /\ m' = m /\ bc' = bc /\ bm' = bm /\ ram' = ram /\ tag' = tag
        /\ ra' = ra /\ mem' = mem /\ cpu' = cpu /\ sa' = sa /\ rem' = rem
    BY <1>1 DEF CLow, MLow, vars
  <2>2. half'.b2 \in {half.b2, bm.b2}
    <3>1. half = [b0 |-> half.b0, b2 |-> half.b2]
      BY DEF CoreInv, Channel0Inv, ChannelTypes
    <3>2. CASE CLow
      BY <3>1, <3>2 DEF CLow
    <3>3. CASE MLow
      BY <3>1, <3>3 DEF MLow
    <3>4. CASE UNCHANGED vars
      BY <3>4 DEF vars
    <3> QED  BY <1>1, <3>2, <3>3, <3>4
  <2>3. SyncTypes'
    BY <2>1, <2>2 DEF TypeInv, SyncTypes
  <2> QED  BY <2>1, <2>3 DEF TypeInv, CpuTypes, PortTypes, CclTypes, MclTypes, StoreTypes
<1>2. CASE RemoteWrite
  <2>1. /\ c' = c /\ m' = m /\ bc' = bc /\ bm' = bm /\ half' = half /\ ram' = ram
        /\ tag' = tag /\ ra' = ra /\ cpu' = cpu /\ sa' = sa
    BY <1>2 DEF RemoteWrite
  <2>2. PICK k \in Remotes, p \in RemotePlaces :
          /\ rem' = [age |-> [rem.age EXCEPT ![k] = 1],
                     line |-> [rem.line EXCEPT ![k] = Line(p)]]
          /\ mem' = [mem EXCEPT ![p] = [l \in Lanes |-> RemoteValue(k)]]
    BY <1>2, Zenon DEF RemoteWrite
  <2>3. p \in Places /\ Line(p) \in Lines
    BY PackTypes, DcacheAssumption
  <2>4. RemoteValue(k) \in Nat
    BY Sizes DEF RemoteValue, Remotes
  <2>5. [l \in Lanes |-> RemoteValue(k)] \in WordValues
    BY <2>4 DEF WordValues
  <2>6. PortTypes' /\ StoreTypes'
    BY <2>1, <2>2, <2>3, <2>5 DEF TypeInv, PortTypes, StoreTypes
  <2> QED  BY <2>1, <2>6 DEF TypeInv, CpuTypes, CclTypes, MclTypes, SyncTypes
<1> QED  BY <1>1, <1>2

\* Every step keeps the types.
LEMMA TypesStep == TypeInv /\ CoreInv /\ [Next]_vars => TypeInv'
BY CEdgeTypes, MEdgeTypes, OtherTypes DEF Next, MemAck, MemWait

\* Enables, addresses, values and states of both halves, the synchronisers, the
\* RAMs and the cpu's bus stay in their types, for every size of the cache.
THEOREM TypeCorrect == Spec => []TypeOK
<1>1. Init => TypeInv /\ CoreInv
  BY TypesInit, CoreInit
<1>2. TypeInv /\ CoreInv /\ [Next]_vars => (TypeInv /\ CoreInv)'
  BY TypesStep, CoreStep
<1>3. TypeInv /\ CoreInv => TypeOK
  <2> SUFFICES ASSUME TypeInv, CoreInv PROVE TypeOK
    OBVIOUS
  <2>1. /\ c.state \in CclStates
        /\ m.statemcl \in M!MclStates /\ m.statemwi \in M!MwiStates
        /\ bc.b0 \in FsyncReg /\ bm.b0 \in FsyncReg /\ half.b0 \in Bit
        /\ mEdges \in 0 .. 2
    BY DEF CoreInv, CclInv, MclInv, Channel0Inv, ChannelTypes
  <2>2. /\ {bc.b0, bc.b2, bc.b3[0], bc.b3[1], bm.b0} \subseteq FsyncReg
        /\ {bm.b2, bm.b3[0], bm.b3[1], half.b0, half.b2} \subseteq Bit
        /\ {bc.d0v.cmd, bm.d0b.m.cmd, bm.d0b.s.cmd} \subseteq Commands
    BY <2>1 DEF TypeInv, SyncTypes, Banks, CommandWords
  <2>3. /\ tag \in [Indices -> Tags] /\ {ra.tag0, ra.tag1} \subseteq Tags
        /\ \A p \in Places : mem[p] \in WordValues
        /\ \A i \in Indices, w \in Words : ram[i][w] \in WordValues
    BY DEF TypeInv, StoreTypes
  <2>4. cpu.tas \in {"none", "read", "held", "write"} /\ cpu.n \in 0 .. MaxOps
    BY DEF TypeInv, CpuTypes
  <2> QED  BY <2>1, <2>2, <2>3, <2>4 DEF TypeOK, TypeInv, CclTypes, MclTypes
<1> QED  BY <1>1, <1>2, <1>3, PTL DEF Spec

-------------------------------------------------------------------------------
(* Channel 2: the critical word of a fill.                                   *)

Outstanding == bc.b0.v # bm.b0.v
Miss == {"READMISS", "WRITEMISS"}

\* The word is owed only while a fill is, and until it has been read.
WordOwed ==
  bm.b2 # bc.b2.v =>
    /\ Outstanding /\ bc.d0v.cmd \in Miss
    /\ m.statemcl \in M!Filling => m.b2en \/ m.ma0.w = m.reqw
    /\ (half.b0 # bm.b0.v /\ Arrived) => m.sbblknxst \/ m.statemcl \in M!Filling

\* clk200 falls before the command is answered.
WordShown ==
  half.b2 # bm.b2 => half.b0 # bm.b0.v /\ Arrived

Channel2Inv ==
  /\ WordOwed /\ WordShown
  /\ m.b2en => m.statemcl \in M!Filling

-------------------------------------------------------------------------------
(* Channels 30 and 31: write completions.                                    *)

WriteCommands == {"WRITEMISS", "WRITESGL_FA", "WRITESGL_SL"}

\* dcache_mcl is not at work on the last command.
Waiting == half.b0 = bm.b0.v \/ ~Arrived \/ m.sbblknxst

\* The last command is a write that has not been performed.
Current ==
  Outstanding /\ bc.d0v.cmd \in WriteCommands /\ (Waiting \/ m.statemcl # "IDLE")

\* The write before it was answered and has not been performed.
Previous == m.statemcl = "WTHI" /\ Waiting

\* The banks alternate, and a bank is in use exactly while its write is under way.
BankInv ==
  /\ \A k \in Banks :
       bc.b3[k].v # bm.b3[k] <=>
         \/ k = c.sabank_send /\ (Current \/ Previous)
         \/ k # c.sabank_send /\ Current /\ Previous
  /\ m.b3enr_dir \in Banks
  /\ m.b3enr_dir = c.sabank_send <=> (Current <=> Previous)

\* The cpu side has seen the bank it takes next become free.
BankSeen ==
  (~Outstanding /\ bc.b0.m = 0) => bc.b3[1 - c.sabank_send].m = 0

-------------------------------------------------------------------------------
(* Locked accesses.                                                          *)

OffStates  == {"OFF1", "OFF2"}
LockStates == {"RLOCK1", "RLOCK2", "WUNCA1", "WUNCA2"}

\* The states in which dcache_ccl waits for a command's answer.
StatesOf(cmd) ==
  CASE cmd = "READMISS"    -> {"RMISS1", "RMISS2", "RMISS3"}
    [] cmd = "WRITEMISS"   -> {"WMISS1", "WMISS2"}
    [] cmd = "WRITESGL_FA" -> {"SB1", "SB2"}
    [] cmd = "READSGL_NM"  -> OffStates
    [] cmd = "READSGL_LO"  -> OffStates \cup {"RLOCK1", "RLOCK2"}
    [] cmd = "WRITESGL_SL" -> OffStates \cup {"WUNCA1", "WUNCA2"}
    [] OTHER               -> {"NEGLCK"}

\* It waits for the command it sent; an uncached access is the cpu's own, which
\* still waits.
StateInv ==
  /\ c.state # "IDLE" => c.state \in StatesOf(bc.d0v.cmd)
  /\ c.state \in OffStates =>
       /\ cpu.a.en
       /\ bc.d0v.cmd = "READSGL_NM" => ~cpu.lock
  /\ c.state \in LockStates => cpu.a.en /\ cpu.lock

\* A locked read raises the bus lock.
LockRaised == m.statemcl = "RSG" => (m.mlock <=> bm.d0b.s.cmd = "READSGL_LO")

\* From the locked read to its write the bus is requested or locked.
TasInv ==
  hist.tasRead =>
    /\ own /\ cpu.lock
    /\ c.state \in {"IDLE"} \cup OffStates \cup LockStates
    /\ m.statemcl \in {"IDLE", "RSG", "WSG"}
    /\ m.mlock \/ (m.statemcl = "WSG" /\ m.men)

-------------------------------------------------------------------------------
(* A cpu clock edge, seen from the other channels and the cpu.               *)

CEffects ==
  /\ c'.state = Goes
  /\ c'.sabank_send = IF SendsWrite(c, CclIn, Goes) THEN 1 - c.sabank_send
                                                    ELSE c.sabank_send
  /\ bc'.b2 = FsyncC(bc.b2, bc.b2.v, half.b2, B2en(Goes))
  /\ bc'.b3 = [k \in Banks |->
                 FsyncC(bc.b3[k], bc.b3[k].v, bm.b3[k], k \in B3en(c, CclIn, Goes))]
  /\ bc'.d0v.cmd = IF Sends THEN Cmd(CclIn, Goes) ELSE bc.d0v.cmd
  /\ m' = m /\ bm' = bm /\ half' = half /\ own' = own
  /\ hist'.tasRead = (hist.tasRead /\ cpu'.lock)

\* A cpu clock edge reduced to what the further invariants speak of.
LEMMA CEdgeEffects ==
  ASSUME CEdge
  PROVE  CEffects
<1>1. /\ c' = CclNext(c, CclIn) /\ FsyncCcl(CclIn, Goes) /\ HistC
      /\ m' = m /\ bm' = bm /\ half' = half /\ own' = own
  BY DEF CEdge, Goes
<1>2. PICK x : x = CclIn
  OBVIOUS
<1>3. Goes = NextState(c, x)
  BY <1>2 DEF Goes
<1>4. /\ c'.state = Goes
      /\ c'.sabank_send = IF SendsWrite(c, x, Goes) THEN 1 - c.sabank_send
                                                    ELSE c.sabank_send
  BY <1>1, <1>2, <1>3 DEF CclNext
<1>5. /\ bc'.b2 = FsyncC(bc.b2, bc.b2.v, half.b2, B2en(Goes))
      /\ bc'.b3 = [k \in Banks |->
                     FsyncC(bc.b3[k], bc.b3[k].v, bm.b3[k], k \in B3en(c, x, Goes))]
      /\ bc'.d0v = IF B0en(c, Goes) THEN B0d(x, Goes) ELSE bc.d0v
  BY <1>1, <1>2 DEF FsyncCcl
<1>6. bc'.d0v.cmd = IF Sends THEN Cmd(x, Goes) ELSE bc.d0v.cmd
  BY <1>5 DEF Sends, B0d
<1>7. hist'.tasRead = (hist.tasRead /\ cpu'.lock)
  BY <1>1 DEF HistC
<1> QED  BY <1>1, <1>2, <1>4, <1>5, <1>6, <1>7 DEF CEffects

\* The command that goes with a state.
LEMMA SentCommand ==
  ASSUME CclInv, Sends
  PROVE  /\ Goes \in StatesOf(Cmd(CclIn, Goes))
         /\ Goes = "OFF1" /\ Cmd(CclIn, Goes) = "READSGL_NM" => ~cpu.lock
         /\ B2en(Goes) <=> Cmd(CclIn, Goes) \in Miss
         /\ SendsWrite(c, CclIn, Goes) <=> Cmd(CclIn, Goes) \in WriteCommands
         /\ Cmd(CclIn, Goes) \in Commands
<1>1. \/ Goes = "NEGLCK"
      \/ Goes = "WUNCA1" /\ cpu.a.wr
      \/ Goes = "RLOCK1" /\ ~cpu.a.wr
      \/ Goes = "SB1" /\ cpu.a.wr
      \/ Goes = "WMISS1" /\ cpu.a.wr
      \/ Goes = "RMISS1" /\ ~cpu.a.wr
      \/ Goes = "OFF1"
  BY FromIdle, FromBusy
<1> USE CclSignals DEF Cmd, SendsWrite, B2en, Miss, WriteCommands, Sends
<1>2. CASE Goes = "NEGLCK"
  BY <1>2 DEF StatesOf, Commands
<1>3. CASE Goes = "WUNCA1" /\ cpu.a.wr
  BY <1>3 DEF StatesOf, OffStates, Commands
<1>4. CASE Goes = "RLOCK1" /\ ~cpu.a.wr
  BY <1>4 DEF StatesOf, OffStates, Commands
<1>5. CASE Goes = "SB1" /\ cpu.a.wr
  BY <1>5 DEF StatesOf, Commands
<1>6. CASE Goes = "WMISS1" /\ cpu.a.wr
  BY <1>6 DEF StatesOf, Commands
<1>7. CASE Goes = "RMISS1" /\ ~cpu.a.wr
  BY <1>7 DEF StatesOf, Commands
<1>8. CASE Goes = "OFF1"
  <2>1. CASE cpu.a.wr
    BY <1>8, <2>1 DEF StatesOf, OffStates, Commands
  <2>2. CASE ~cpu.a.wr /\ cpu.lock
    BY <1>8, <2>2 DEF StatesOf, OffStates, Commands
  <2>3. CASE ~cpu.a.wr /\ ~cpu.lock
    BY <1>8, <2>3 DEF StatesOf, OffStates, Commands
  <2> QED  BY <2>1, <2>2, <2>3
<1> QED  BY <1>1, <1>2, <1>3, <1>4, <1>5, <1>6, <1>7, <1>8

\* While an uncached access is under way the cpu is not acknowledged.
LEMMA UncachedWaits ==
  ASSUME CEdge, CclInv, StateInv, Goes \in OffStates \cup LockStates
  PROVE  cpu' = cpu /\ cpu.a.en /\ (Goes \in LockStates => cpu.lock)
<1>1. cpu.a.en /\ (Goes \in LockStates => cpu.lock)
  <2>1. CASE c.state = "IDLE"
    BY <2>1, FromIdle DEF OffStates, LockStates
  <2>2. CASE c.state # "IDLE"
    BY <2>2, FromBusy DEF OffStates, LockStates, StateInv
  <2> QED  BY <2>1, <2>2
<1>2. ~Acked
  <2>1. CASE c.state = "IDLE"
    BY <2>1, FromIdle, CclSignals DEF OffStates, LockStates, Acked, YAck, YAckI1, YAckI2, YAckD
  <2>2. CASE c.state # "IDLE"
    <3>1. \/ c.state \in {"RLOCK1", "WUNCA1"} /\ c.dc_onm
          \/ c.state \in {"RLOCK2", "WUNCA2"} /\ c.dc_onm /\ ~Answered
          \/ c.state = "OFF1" /\ ~c.dc_onm
          \/ c.state = "OFF2" /\ ~c.dc_onm /\ ~Answered
      BY <2>2, FromBusy DEF OffStates, LockStates, CclInv, OnStates
    <3> QED  BY <3>1, CclSignals DEF Acked, YAck, YAckI1, YAckI2, YAckD
  <2> QED  BY <2>1, <2>2
<1>3. CpuStep
  BY DEF CEdge
<1> QED  BY <1>1, <1>2, <1>3 DEF CpuStep

\* The state of dcache_ccl goes with the command it has sent.
LEMMA CEdgeState ==
  ASSUME CEdge, CclInv, StateInv, bc.d0v.cmd \in Commands
  PROVE  StateInv'
<1>1. CEffects
  BY CEdgeEffects
<1>2. CASE Sends
  <2>1. /\ c'.state = Goes /\ bc'.d0v.cmd = Cmd(CclIn, Goes)
    BY <1>1, <1>2 DEF CEffects
  <2>2. Goes \in StatesOf(Cmd(CclIn, Goes))
    BY <1>2, SentCommand
  <2>3. Goes # "OFF2"
    BY <1>2, FromIdle, FromBusy
  <2>4. Goes = "OFF1" /\ Cmd(CclIn, Goes) = "READSGL_NM" => ~cpu.lock
    BY <1>2, SentCommand
  <2> QED  BY <2>1, <2>2, <2>3, <2>4, UncachedWaits DEF StateInv, OffStates, LockStates
<1>3. CASE ~Sends
  <2>1. c'.state = Goes /\ bc'.d0v.cmd = bc.d0v.cmd
    BY <1>1, <1>3 DEF CEffects
  <2>2. Goes # "IDLE" => c.state # "IDLE"
    BY <1>3, FromIdle
  <2>3. Goes # "IDLE" => Goes \in StatesOf(bc.d0v.cmd)
    <3> SUFFICES ASSUME Goes # "IDLE" PROVE Goes \in StatesOf(bc.d0v.cmd)
      OBVIOUS
    <3>1. c.state \in StatesOf(bc.d0v.cmd) /\ c.state # "IDLE"
      BY <2>2 DEF StateInv
    <3>2. PICK cmd \in Commands : cmd = bc.d0v.cmd
      OBVIOUS
    <3> QED  BY <1>3, <3>1, <3>2, FromBusy DEF StatesOf, Commands, OffStates
  <2>4. Goes \in OffStates => c.state \in OffStates
    BY <1>3, <2>2, FromBusy DEF OffStates
  <2> QED  BY <2>1, <2>3, <2>4, UncachedWaits DEF StateInv, OffStates, LockStates
<1> QED  BY <1>2, <1>3

\* No cpu edge gives up the bus between the read and the write of TAS.B.
LEMMA CEdgeTas ==
  ASSUME CEdge, CclInv, StateInv, TasInv
  PROVE  TasInv'
<1>1. CEffects
  BY CEdgeEffects
<1> SUFFICES ASSUME hist'.tasRead
             PROVE  /\ own' /\ cpu'.lock
                    /\ c'.state \in {"IDLE"} \cup OffStates \cup LockStates
                    /\ m'.statemcl \in {"IDLE", "RSG", "WSG"}
                    /\ m'.mlock \/ (m'.statemcl = "WSG" /\ m'.men)
  BY DEF TasInv
<1>2. hist.tasRead /\ cpu'.lock
  BY <1>1 DEF CEffects
<1>3. own /\ cpu.lock /\ c.state \in {"IDLE"} \cup OffStates \cup LockStates
  BY <1>2 DEF TasInv
<1>4. Goes \in {"IDLE"} \cup OffStates \cup LockStates
  BY <1>3, FromIdle, FromBusy DEF OffStates, LockStates
<1> QED  BY <1>1, <1>2, <1>3, <1>4 DEF CEffects, TasInv

\* The critical-word channel is free whenever a command is sent.
LEMMA WordFree ==
  ASSUME CoreInv, Channel2Inv, Sends
  PROVE  half.b2 = bc.b2.v /\ bm.b2 = bc.b2.v
BY SendsFree DEF CoreInv, Channel2Inv, WordOwed, WordShown, Outstanding

\* Channel 2 over a cpu clock edge: the critical word is seen when it is there.
LEMMA CEdgeChannel2 ==
  ASSUME CEdge, CoreInv, SyncTypes, Channel2Inv
  PROVE  Channel2Inv'
<1>1. CEffects
  BY CEdgeEffects
<1>2. /\ m' = m /\ bm' = bm /\ half' = half
      /\ bc'.b2.v = IF B2en(Goes) THEN 1 - half.b2 ELSE bc.b2.v
      /\ bc'.d0v.cmd = IF Sends THEN Cmd(CclIn, Goes) ELSE bc.d0v.cmd
  BY <1>1 DEF CEffects, FsyncC, Not
<1>3. /\ bc'.b0.v = IF Sends THEN 1 - bm.b0.v ELSE bc.b0.v
      /\ CclInv /\ Channel0Inv /\ bm.b0.v \in Bit
  <2>1. CSync(Sends) /\ CclInv /\ Channel0Inv /\ bm.b0.v \in Bit
    BY CEdgeParts DEF CoreInv, Channel0Inv, ChannelTypes, FsyncReg
  <2> QED  BY <2>1 DEF CSync, FsyncC, Not
<1>4. WordShown' /\ (m'.b2en => m'.statemcl \in M!Filling)
  BY <1>2 DEF Channel2Inv, WordShown, Arrived
<1>5. WordOwed'
  <2>1. CASE Sends
    <3>1. half.b2 = bc.b2.v /\ bm.b2 = bc.b2.v /\ half.b0 = bm.b0.v /\ Quiet
      BY <1>3, <2>1, WordFree, SendsFree
    <3>2. bm'.b2 # bc'.b2.v => Cmd(CclIn, Goes) \in Miss
      BY <1>2, <1>3, <2>1, <3>1, SentCommand
    <3>3. bc'.b0.v # bm'.b0.v
      BY <1>2, <1>3, <2>1 DEF Bit
    <3>4. m'.statemcl \notin M!Filling
      BY <1>2, <3>1 DEF Quiet, M!Filling
    <3> QED  BY <1>2, <2>1, <3>1, <3>2, <3>3, <3>4 DEF WordOwed, Outstanding
  <2>2. CASE ~Sends
    <3>1. ~B2en(Goes)
      BY <2>2 DEF Sends, B0en, B2en
    <3> QED  BY <1>2, <1>3, <2>2, <3>1 DEF Channel2Inv, WordOwed, Outstanding, Arrived
  <2> QED  BY <2>1, <2>2
<1> QED  BY <1>4, <1>5 DEF Channel2Inv

\* The bank a write takes is free, and the cpu side has seen it free.
LEMMA BankFree ==
  ASSUME CoreInv, BankInv, BankSeen, CclTypes, Sends
  PROVE  /\ bc.b3[1 - c.sabank_send].v = bm.b3[1 - c.sabank_send]
         /\ bc.b3[1 - c.sabank_send].m = 0
         /\ 1 - c.sabank_send \in Banks
<1>1. ~Outstanding /\ bc.b0.m = 0
  BY SendsFree DEF CoreInv, Outstanding
<1>2. 1 - c.sabank_send \in Banks /\ 1 - c.sabank_send # c.sabank_send
  BY DEF CclTypes, Banks
<1>3. ~Current
  BY <1>1 DEF Current
<1> QED  BY <1>1, <1>2, <1>3 DEF BankInv, BankSeen

\* The store channels over a cpu clock edge: a bank is used again when it is free.
LEMMA CEdgeBanks ==
  ASSUME CEdge, CoreInv, SyncTypes, CclTypes, BankInv, BankSeen
  PROVE  BankInv' /\ BankSeen'
<1>1. CEffects
  BY CEdgeEffects
<1>2. /\ m' = m /\ bm' = bm /\ half' = half
      /\ bc'.d0v.cmd = IF Sends THEN Cmd(CclIn, Goes) ELSE bc.d0v.cmd
  BY <1>1 DEF CEffects
<1>3. /\ bc'.b0.v = (IF Sends THEN 1 - bm.b0.v ELSE bc.b0.v)
      /\ bm.b0.v \in Bit /\ half.b0 = bc.b0.v
      /\ bc'.b0.m = (IF bm.b0.v = half.b0 THEN 0 ELSE 1)
  <2>1. CSync(Sends) /\ bm.b0.v \in Bit
    BY CEdgeParts DEF CoreInv, Channel0Inv, ChannelTypes, FsyncReg
  <2> QED  BY <2>1 DEF CSync, FsyncC, Not, Xor
<1>4. \A k \in Banks :
        /\ bc'.b3[k].v = IF k \in B3en(c, CclIn, Goes) THEN 1 - bm.b3[k] ELSE bc.b3[k].v
        /\ bc'.b3[k].m = (IF bm.b3[k] = bc.b3[k].v THEN 0 ELSE 1)
        /\ bm.b3[k] \in Bit /\ bc.b3[k].v \in Bit
  BY <1>1 DEF CEffects, FsyncC, Not, Xor, SyncTypes, FsyncReg
<1>5. (Waiting' <=> Waiting) /\ (Previous' <=> Previous)
  BY <1>2 DEF Waiting, Previous, Arrived
<1>6. c.sabank_send \in Banks
  BY DEF CclTypes
<1>7. CASE Sends /\ Cmd(CclIn, Goes) \in WriteCommands
  <2>1. /\ c'.sabank_send = 1 - c.sabank_send
        /\ B3en(c, CclIn, Goes) = {1 - c.sabank_send}
    BY <1>1, <1>7, SentCommand DEF CEffects, B3en, CoreInv
  <2>2. ~Outstanding /\ ~Current /\ Waiting
    BY <1>7, SendsFree DEF CoreInv, Outstanding, Current, Waiting
  <2>3. Outstanding'
    BY <1>2, <1>3, <1>7 DEF Outstanding, Bit
  <2>4. Current'
    BY <1>2, <1>5, <1>7, <2>2, <2>3 DEF Current
  <2>5. BankSeen'
    BY <2>3 DEF BankSeen
  <2>6. \A k \in Banks :
          bc'.b3[k].v # bm'.b3[k] <=> (k = 1 - c.sabank_send \/ Previous)
    <3>1. \A k \in Banks : k = 1 - c.sabank_send \/ k = c.sabank_send
      BY <1>6 DEF Banks
    <3>2. \A k \in Banks : k # 1 - c.sabank_send =>
                             (bc.b3[k].v # bm.b3[k] <=> Previous)
      BY <2>2, <3>1 DEF BankInv
    <3> QED  BY <1>2, <1>4, <2>1, <3>2 DEF Bit
  <2>7. m'.b3enr_dir \in Banks /\ (m'.b3enr_dir = 1 - c.sabank_send <=> Previous)
    BY <1>2, <1>6, <2>2 DEF BankInv, Banks
  <2> QED  BY <1>5, <2>1, <2>4, <2>5, <2>6, <2>7 DEF BankInv
<1>8. CASE ~(Sends /\ Cmd(CclIn, Goes) \in WriteCommands)
  <2>1. ~SendsWrite(c, CclIn, Goes)
    BY <1>8, SentCommand DEF CoreInv, SendsWrite, Sends
  <2>2. c'.sabank_send = c.sabank_send /\ B3en(c, CclIn, Goes) = {}
    BY <1>1, <2>1 DEF CEffects, B3en
  <2>3. Current' <=> Current
    <3>1. CASE Sends
      BY <1>2, <1>8, <3>1, SendsFree DEF CoreInv, Current, Outstanding
    <3>2. CASE ~Sends
      BY <1>2, <1>3, <1>5, <3>2 DEF Current, Outstanding
    <3> QED  BY <3>1, <3>2
  <2>4. BankInv'
    BY <1>2, <1>4, <1>5, <2>2, <2>3 DEF BankInv
  <2>5. BankSeen'
    <3> SUFFICES ASSUME ~Outstanding', bc'.b0.m = 0
                 PROVE  bc'.b3[1 - c.sabank_send].m = 0
      BY <2>2 DEF BankSeen
    <3>1. ~Outstanding /\ ~Sends
      BY <1>2, <1>3 DEF Outstanding, Bit
    <3>2. 1 - c.sabank_send \in Banks /\ 1 - c.sabank_send # c.sabank_send
      BY <1>6 DEF Banks
    <3>3. bc.b3[1 - c.sabank_send].v = bm.b3[1 - c.sabank_send]
      BY <3>1, <3>2 DEF BankInv, Current
    <3> QED  BY <1>4, <3>2, <3>3
  <2> QED  BY <2>4, <2>5
<1> QED  BY <1>7, <1>8

-------------------------------------------------------------------------------
(* A memory clock edge, seen from the other channels and the bus.            *)

MEffects(ack) ==
  /\ half.b2 = bm.b2
  /\ bm'.b2 = IF m.b2en THEN bc.b2.v ELSE bm.b2
  /\ m'.b2en <=> (m.men /\ ack /\ m.statemcl \in M!Filling /\ m.ma0.w = m.reqw)
  /\ m'.reqw = IF Takes THEN bm.d0b.s.a.w ELSE m.reqw
  /\ m'.ma0 = M!Ma0(m, MclIn(ack), m'.statemcl)
  /\ \A k \in Banks :
       bm'.b3[k] = IF m.mwr /\ ack /\ k = 1 - m.b3enr_dir THEN bc.b3[k].v ELSE bm.b3[k]
  /\ m'.b3enr_dir = IF m.mwr /\ ack THEN 1 - m.b3enr_dir ELSE m.b3enr_dir
  /\ m'.mlock <=> IF m'.men THEN Command = "READSGL_LO"
                            ELSE m.mlock /\ ~(Takes /\ Command = "NEGATE_LO")
  /\ own' = ((own \/ (ack /\ m.mlock)) /\ (m'.men \/ m'.mlock))
  /\ hist'.tasRead => /\ hist.tasRead \/ (ack /\ m.statemcl = "RSG" /\ cpu.lock)
                      /\ ~(ack /\ m.mwr)
  /\ cpu' = cpu /\ c' = c /\ bc' = bc /\ half' = half

\* The history has the field the lock property reads.
HistInv == "tasRead" \in DOMAIN hist

\* A memory clock edge reduced likewise.
LEMMA MEdgeEffects ==
  ASSUME NEW ack \in BOOLEAN, MEdge(ack), NEW answer, MMoves(ack, answer), MclInv, HistInv
  PROVE  MEffects(ack)
<1> DEFINE x == MclIn(ack)
<1>1. /\ m' = M!MclNext(m, x) /\ FsyncMcl(x) /\ HistM(ack)
      /\ half.b2 = bm.b2
      /\ own' = ((own \/ (ack /\ m.mlock)) /\ (m'.men \/ m'.mlock))
      /\ cpu' = cpu /\ c' = c /\ bc' = bc /\ half' = half
  BY DEF MEdge
<1>2. /\ x.ack = ack /\ x.ctom.b0d = bm.d0b.s
      /\ M!SboutEn1(m, x) <=> Takes
      /\ M!SboutCmd(m, x) = Command
      /\ M!MaAckG(m, x) <=> ack
  BY MclSignals DEF MclIn
<1>3. hist'.tasRead => /\ hist.tasRead \/ (ack /\ m.statemcl = "RSG" /\ cpu.lock)
                       /\ ~(ack /\ m.mwr)
  BY <1>1 DEF HistM, HistInv
<1> HIDE DEF x
<1>4. /\ m'.b2en = M!CriticalRead(m, x)
      /\ m'.reqw = IF M!SboutEn1(m, x) THEN x.ctom.b0d.a.w ELSE m.reqw
      /\ m'.mlock = M!Mlock(m, x, m'.men)
      /\ m'.b3enr_dir = IF M!WriteEnds(m, x) THEN 1 - m.b3enr_dir ELSE m.b3enr_dir
      /\ m'.ma0 = M!Ma0(m, x, m'.statemcl)
  BY <1>1 DEF M!MclNext
<1>5. /\ bm'.b2 = IF m.b2en THEN bc.b2.v ELSE bm.b2
      /\ \A k \in Banks : bm'.b3[k] = IF k \in M!B3enr(m, x) THEN bc.b3[k].v ELSE bm.b3[k]
  BY <1>1 DEF FsyncMcl
<1>6. m'.b2en <=> (m.men /\ ack /\ m.statemcl \in M!Filling /\ m.ma0.w = m.reqw)
  BY <1>2, <1>4 DEF M!CriticalRead
<1>7. m'.mlock <=> IF m'.men THEN Command = "READSGL_LO"
                             ELSE m.mlock /\ ~(Takes /\ Command = "NEGATE_LO")
  BY <1>2, <1>4 DEF M!Mlock
<1>8. M!WriteEnds(m, x) <=> (m.mwr /\ ack)
  BY <1>2 DEF M!WriteEnds
<1>9. \A k \in Banks :
        bm'.b3[k] = IF m.mwr /\ ack /\ k = 1 - m.b3enr_dir THEN bc.b3[k].v ELSE bm.b3[k]
  BY <1>5, <1>8 DEF M!B3enr
<1>10. m'.reqw = IF Takes THEN bm.d0b.s.a.w ELSE m.reqw
  BY <1>2, <1>4
<1> QED  BY <1>1, <1>3, <1>4, <1>5, <1>6, <1>7, <1>8, <1>9, <1>10 DEF MEffects, x

\* Before the command arrives: nothing is answered and nothing taken.
LEMMA MWaits ==
  ASSUME NEW ack, NEW answer, MSync(answer), MMoves(ack, answer), CoreInv,
         half.b0 = bm.b0.v \/ ~Arrived, ~Arrives
  PROVE  /\ ~answer /\ Quiet /\ Quiet' /\ Waiting /\ Waiting'
         /\ (half'.b0 = bm'.b0.v \/ ~Arrived')
         /\ (Outstanding' <=> Outstanding)
         /\ m'.statemcl = IF m.statemcl = "WTHI" /\ ack THEN "IDLE" ELSE m.statemcl
<1> USE DEF CoreInv
<1>1. Quiet
  BY DEF Channel0Inv, Free, Latched, Shown
<1>2. Quiet' /\ ~answer
  BY <1>1, QuietStays
<1>3. /\ bm'.b0.v = bm.b0.v
      /\ bm'.b0.s = bm.b0.m
      /\ m'.fillv_del1 = bm.b0.s
      /\ half'.b0 = half.b0 /\ bc'.b0 = bc.b0
  BY <1>2, MFlipFlops DEF Channel0Inv
<1>4. half'.b0 = bm'.b0.v \/ ~Arrived'
  <2>1. half.b0 = bm.b0.v \/ ~(bm.b0.m = 0 /\ bm.b0.s = 0)
    BY DEF Arrives, Arrived, Channel0Inv, ChannelTypes, Bit
  <2> QED  BY <1>3, <2>1 DEF Arrived
<1>5. m'.statemcl = IF m.statemcl = "WTHI" /\ ack THEN "IDLE" ELSE m.statemcl
  <2>1. CASE m.statemcl = "IDLE"
    BY <1>1, <2>1, IdleWaits DEF Takes, Quiet
  <2>2. CASE m.statemcl = "WTHI"
    BY <1>1, <2>2, Busy DEF Quiet
  <2> QED  BY <1>1, <2>1, <2>2 DEF Quiet
<1> QED  BY <1>1, <1>2, <1>3, <1>4, <1>5 DEF Waiting, Outstanding

\* From its arrival to its answer the command stays at the flip-flops' output.
LEMMA MArrived ==
  ASSUME NEW ack, NEW answer, MSync(answer), MMoves(ack, answer), CoreInv,
         half.b0 # bm.b0.v, Arrived \/ Arrives
  PROVE  /\ Arrived' /\ half.b0 = bc.b0.v /\ Outstanding
         /\ bm.d0b.s = bc.d0v /\ bm.d0b.m = bc.d0v
         /\ (half'.b0 # bm'.b0.v <=> ~answer)
         /\ (Outstanding' <=> ~answer)
         /\ bc.d0v.cmd \in Commands
<1> USE DEF CoreInv
<1>1. /\ bm'.b0.v = (IF answer THEN half.b0 ELSE bm.b0.v)
      /\ bm'.b0.m = 0
      /\ bm'.b0.s = bm.b0.m
      /\ m'.fillv_del1 = bm.b0.s
      /\ half'.b0 = half.b0 /\ bc'.b0 = bc.b0
  BY MFlipFlops DEF Channel0Inv
<1>2. half.b0 = bc.b0.v /\ bc.d0v.cmd \in Commands
  BY DEF Channel0Inv, Latched, ChannelTypes
<1>3. bm.b0.m = 0 /\ bm.b0.s = 0 /\ bm.d0b.s = bc.d0v /\ bm.d0b.m = bc.d0v
  <2>1. CASE Arrived
    BY <2>1 DEF Channel0Inv, Serving, Arrived
  <2>2. CASE ~Arrived /\ Arrives
    <3>1. bm.b0.m = 0 /\ bm.b0.s = 0
      BY <2>2 DEF Channel0Inv, Shown, ClimbM, Rising, Arrives, ChannelTypes, FsyncReg, Bit
    <3> QED  BY <2>2, <3>1 DEF Channel0Inv, Shown
  <2> QED  BY <2>1, <2>2
<1> QED  BY <1>1, <1>2, <1>3 DEF Arrived, Outstanding

\* A write that ends is the older one under way; one that is answered early
\* becomes the older one.
BankMoves(ends) ==
  \/ ends /\ Previous /\ ~Previous' /\ (Current' <=> Current)
  \/ ends /\ ~Previous /\ ~Previous' /\ Current /\ ~Current'
  \/ ~ends /\ (Previous' <=> Previous) /\ (Current' <=> Current)
  \/ ~ends /\ ~Previous /\ Previous' /\ Current /\ ~Current'

\* How the write under way, and the one behind it, move with a memory clock edge.
LEMMA MBankMoves ==
  ASSUME NEW ack, NEW answer, MSync(answer), MMoves(ack, answer), CoreInv
  PROVE  BankMoves(m.mwr /\ ack)
<1> USE DEF CoreInv
<1>0. bc' = bc
  BY DEF MSync
<1>1. CASE (half.b0 = bm.b0.v \/ ~Arrived) /\ ~Arrives
  <2>1. /\ Waiting /\ Waiting' /\ (Outstanding' <=> Outstanding) /\ Quiet
        /\ m'.statemcl = IF m.statemcl = "WTHI" /\ ack THEN "IDLE" ELSE m.statemcl
    BY <1>1, MWaits
  <2>2. Current' <=> Current
    BY <1>0, <2>1 DEF Current
  <2>3. CASE m.statemcl = "IDLE"
    BY <2>1, <2>2, <2>3 DEF BankMoves, Previous, MclInv, M!Writing
  <2>4. CASE m.statemcl = "WTHI" /\ m.statemwi = "IDLE"
    <3>1. m.mwr
      BY <2>4 DEF MclInv, M!Writing, GapR
    <3> QED  BY <2>1, <2>2, <2>4, <3>1 DEF BankMoves, Previous
  <2> QED  BY <2>1, <2>3, <2>4 DEF Quiet
<1>2. CASE Takes
  <2>1. /\ half.b0 # bm.b0.v /\ ~m.rfillv /\ ~m.rfillv_pre1
        /\ bm.d0b.s = bc.d0v /\ bc.d0v.cmd \in Commands
        /\ m.statemcl = "IDLE" /\ Waiting
        /\ m.fillv_del1 = 1 \/ m.statemwi = "GAP1"
    BY <1>2, TakesOutstanding DEF Takes, Waiting, Arrives, Arrived
  <2>2. Arrives \/ Arrived
    BY <1>2, <2>1 DEF Takes, Channel0Inv, Shown, Quiet
  <2>3. /\ Arrived' /\ Outstanding /\ (Outstanding' <=> ~answer)
        /\ (half'.b0 # bm'.b0.v <=> ~answer)
    BY <2>1, <2>2, MArrived
  <2>4. PICK cmd \in Commands : cmd = bc.d0v.cmd
    BY <2>1
  <2>5. /\ m'.statemcl = M!TakenState(cmd)
        /\ ~m'.sbblknxst
        /\ answer => cmd = "WRITESGL_FA"
    BY <1>2, <2>1, <2>4, IdleTakes
  <2>6. ~m.mwr /\ ~Previous /\ (Current <=> cmd \in WriteCommands)
    BY <2>1, <2>3, <2>4 DEF MclInv, M!Writing, Previous, Current
  <2>7. Waiting' <=> answer
    BY <2>3, <2>5 DEF Waiting
  <2>8. Current' <=> (cmd \in WriteCommands /\ ~answer)
    BY <1>0, <2>3, <2>4, <2>5, <2>7 DEF Current, WriteCommands, M!TakenState
  <2>9. Previous' <=> (cmd = "WRITESGL_FA" /\ answer)
    BY <2>5, <2>7 DEF Previous, M!TakenState, Commands
  <2> QED  BY <2>5, <2>6, <2>8, <2>9 DEF BankMoves, WriteCommands
<1>3. CASE half.b0 # bm.b0.v /\ ~Arrived /\ Arrives /\ ~Takes
  <2>1. Quiet /\ m.statemcl = "WTHI" /\ m.statemwi = "IDLE" /\ m.sbbufin
    BY <1>3 DEF Channel0Inv, Shown, Takes, Quiet, MclInv
  <2>2. /\ m'.statemcl = IF ack THEN "IDLE" ELSE "WTHI"
        /\ m'.sbblknxst /\ ~answer
    BY <1>3, <2>1, Busy DEF Command
  <2>3. Outstanding /\ Outstanding' /\ Waiting /\ Waiting'
    BY <1>3, <2>2, MArrived DEF Waiting
  <2>4. m.mwr
    BY <2>1 DEF MclInv, M!Writing, GapR
  <2> QED  BY <1>0, <2>1, <2>2, <2>3, <2>4 DEF BankMoves, Previous, Current
<1>4. CASE half.b0 # bm.b0.v /\ Arrived /\ Blocked /\ ~Takes
  <2>1. m.statemcl = "WTHI" /\ m.statemwi = "IDLE" /\ m.sbbufin /\ m.sbblknxst
    BY <1>4 DEF Takes, Blocked, MclInv
  <2>2. /\ m'.statemcl = IF ack THEN "IDLE" ELSE "WTHI"
        /\ m'.sbblknxst /\ ~answer
    BY <2>1, Busy DEF Command
  <2>3. Outstanding /\ Outstanding' /\ Waiting /\ Waiting'
    BY <1>4, <2>1, <2>2, MArrived DEF Waiting
  <2>4. m.mwr
    BY <2>1 DEF MclInv, M!Writing, GapR
  <2> QED  BY <1>0, <2>1, <2>2, <2>3, <2>4 DEF BankMoves, Previous, Current
<1>5. CASE half.b0 # bm.b0.v /\ Arrived /\ Served(bm.d0b.s.cmd)
  <2>1. /\ Arrived' /\ Outstanding /\ (Outstanding' <=> ~answer)
        /\ (half'.b0 # bm'.b0.v <=> ~answer)
        /\ bm.d0b.s = bc.d0v /\ bc.d0v.cmd \in Commands
    BY <1>5, MArrived
  <2>2. PICK cmd \in Commands : cmd = bc.d0v.cmd /\ cmd = bm.d0b.s.cmd
    BY <2>1
  <2>3. ~m.sbblknxst /\ ~Waiting /\ ~Arrives /\ ~Takes
    BY <1>5 DEF Served, Waiting, Arrives, Arrived, Takes
  <2>4. ~Previous /\ (Current <=> (cmd \in WriteCommands /\ m.statemcl # "IDLE"))
    BY <2>1, <2>2, <2>3 DEF Previous, Current
  <2>5. CASE m.statemcl = "IDLE"
    <3>1. m'.statemcl = "IDLE" /\ ~m'.sbblknxst
      BY <2>3, <2>5, IdleWaits
    <3>2. ~Previous' /\ ~Current' /\ ~m.mwr
      BY <2>1, <2>5, <3>1 DEF Previous, Current, Waiting, MclInv, M!Writing
    <3> QED  BY <2>4, <2>5, <3>2 DEF BankMoves
  <2>6. CASE m.statemcl # "IDLE"
    <3>1. ~m'.sbblknxst
      BY <2>3, <2>6, Busy
    <3>2. Waiting' <=> answer
      BY <2>1, <3>1 DEF Waiting
    <3>3. CASE m.statemcl = "WTHI"
      <4>1. cmd = "WRITESGL_FA" /\ m.statemwi \in GapR
        BY <1>5, <2>2, <3>3 DEF Served
      <4>2. ~m.men /\ ~m.mwr
        BY <4>1, <3>3 DEF MclInv
      <4>3. m'.statemcl = "WTHI"
        BY <2>6, <3>3, <4>2, Busy
      <4>4. (Previous' <=> answer) /\ (Current' <=> ~answer)
        BY <1>0, <2>1, <2>2, <3>2, <4>1, <4>3 DEF Previous, Current, WriteCommands
      <4> QED  BY <2>4, <2>6, <4>1, <4>2, <4>4 DEF BankMoves, WriteCommands
    <3>4. CASE m.statemcl \in {"WFILL", "WTHA", "WSG"}
      <4>1. /\ cmd \in WriteCommands /\ Command # "WRITESGL_FA" /\ ~m.rfillv
        BY <1>5, <2>2, <3>4 DEF Served, WriteCommands, Command, MclInv
      <4>2. ~answer
        BY <2>6, <4>1, Busy
      <4>3. /\ m'.statemcl = "IDLE" => ack /\ m.statemcl \in {"WTHA", "WSG"}
            /\ m'.statemcl # "WTHI"
            /\ (ack /\ m.statemcl \in {"WTHA", "WSG"}) => m'.statemcl = "IDLE"
        BY <2>6, <3>4, Busy
      <4>4. (m.mwr /\ ack) <=> (ack /\ m.statemcl \in {"WTHA", "WSG"})
        BY <2>6, <3>4, Busy DEF MclInv, M!Writing
      <4>5. ~Previous' /\ (Current' <=> ~(m.mwr /\ ack))
        BY <1>0, <2>1, <2>2, <3>2, <4>1, <4>2, <4>3, <4>4 DEF Previous, Current
      <4> QED  BY <2>4, <2>6, <4>1, <4>5 DEF BankMoves
    <3>5. CASE m.statemcl \in {"RFILL", "RSG"}
      <4>1. cmd \notin WriteCommands
        BY <1>5, <2>2, <3>5 DEF Served, WriteCommands
      <4>2. m'.statemcl # "WTHI" /\ ~m.mwr
        BY <2>6, <3>5, Busy DEF MclInv, M!Writing
      <4>3. ~Previous' /\ ~Current'
        BY <1>0, <2>2, <4>1, <4>2 DEF Previous, Current
      <4> QED  BY <2>4, <4>1, <4>2, <4>3 DEF BankMoves
    <3> QED  BY <2>6, <3>3, <3>4, <3>5 DEF MclInv, M!MclStates
  <2> QED  BY <2>5, <2>6
<1> QED
  <2>1. half.b0 = bm.b0.v => ~Arrives
    BY DEF Channel0Inv, Free, Latched, ClimbM, Rising, Arrives
  <2>2. (half.b0 # bm.b0.v /\ Arrived) => Blocked \/ Served(bm.d0b.s.cmd)
    BY DEF Channel0Inv, Serving
  <2> QED  BY <1>1, <1>2, <1>3, <1>4, <1>5, <2>1, <2>2

\* The store channels over a memory clock edge.
LEMMA MEdgeBanks ==
  ASSUME NEW ack \in BOOLEAN, MEdge(ack), CoreInv, HistInv, SyncTypes, CclTypes,
         BankInv, BankSeen
  PROVE  BankInv' /\ BankSeen'
<1>1. PICK answer : MSync(answer) /\ MMoves(ack, answer)
  BY MEdgeParts
<1>2. MEffects(ack)
  BY <1>1, MEdgeEffects DEF CoreInv
<1>3. BankMoves(m.mwr /\ ack)
  BY <1>1, MBankMoves
<1>4. PICK ends \in BOOLEAN : ends <=> (m.mwr /\ ack)
  OBVIOUS
<1>5. /\ \A k \in Banks :
           bm'.b3[k] = IF ends /\ k = 1 - m.b3enr_dir THEN bc.b3[k].v ELSE bm.b3[k]
      /\ m'.b3enr_dir = IF ends THEN 1 - m.b3enr_dir ELSE m.b3enr_dir
      /\ bc' = bc /\ c' = c
  BY <1>2, <1>4 DEF MEffects
<1>6. BankMoves(ends)
  BY <1>3, <1>4 DEF BankMoves
<1>7. /\ c.sabank_send \in Banks /\ m.b3enr_dir \in Banks
      /\ m.b3enr_dir = c.sabank_send <=> (Current <=> Previous)
      /\ \A k \in Banks :
           bc.b3[k].v # bm.b3[k] <=>
             \/ k = c.sabank_send /\ (Current \/ Previous)
             \/ k # c.sabank_send /\ Current /\ Previous
  BY DEF BankInv, CclTypes
<1>8. BankInv'
  <2>1. m'.b3enr_dir \in Banks
    BY <1>5, <1>7 DEF Banks
  <2>2. m'.b3enr_dir = c.sabank_send <=> (Current' <=> Previous')
    BY <1>5, <1>6, <1>7 DEF BankMoves, Banks
  <2>3. ASSUME NEW k \in Banks
        PROVE  bc.b3[k].v # bm'.b3[k] <=>
                 \/ k = c.sabank_send /\ (Current' \/ Previous')
                 \/ k # c.sabank_send /\ Current' /\ Previous'
    <3>1. (k = 1 - m.b3enr_dir) <=> (k # m.b3enr_dir)
      BY <1>7 DEF Banks
    <3> QED  BY <1>5, <1>6, <1>7, <3>1 DEF BankMoves, Banks
  <2> QED  BY <1>5, <2>1, <2>2, <2>3 DEF BankInv
<1>9. BankSeen'
  <2> SUFFICES ASSUME ~Outstanding', bc.b0.m = 0 PROVE bc.b3[1 - c.sabank_send].m = 0
    BY <1>5 DEF BankSeen
  <2>1. ~Outstanding
    <3> SUFFICES ASSUME Outstanding PROVE FALSE
      OBVIOUS
    <3>1. CASE half.b0 = bm.b0.v \/ ~Arrived
      <4>1. ~Arrives
        <5>1. CASE half.b0 = bm.b0.v
          BY <5>1 DEF CoreInv, Channel0Inv, Free, Latched, ClimbM, Rising, Arrives
        <5>2. CASE half.b0 # bm.b0.v /\ ~Arrived
          <6>1. mEdges < 2
            BY <1>1 DEF MSync
          <6>2. (bm.b0.m = 0 /\ bm.b0.s = 0) => mEdges >= 2
            BY <5>2 DEF CoreInv, Channel0Inv, Shown
          <6>3. ~(bm.b0.m = 0 /\ bm.b0.s = 0)
            BY <6>1, <6>2 DEF CoreInv, Channel0Inv, ChannelTypes
          <6> QED  BY <5>2, <6>3 DEF CoreInv, Channel0Inv, Shown, ClimbM, Rising, Arrives,
                                     ChannelTypes, FsyncReg, Bit
        <5> QED  BY <3>1, <5>1, <5>2
      <4> QED  BY <1>1, <3>1, <4>1, MWaits
    <3>2. CASE half.b0 # bm.b0.v /\ Arrived
      BY <3>2 DEF CoreInv, Channel0Inv, Serving
    <3> QED  BY <3>1, <3>2
  <2> QED  BY <2>1 DEF BankSeen
<1> QED  BY <1>8, <1>9

\* Channel 2 over a memory clock edge: one word is shown for one miss.
LEMMA MEdgeChannel2 ==
  ASSUME NEW ack \in BOOLEAN, MEdge(ack), CoreInv, HistInv, SyncTypes, MclTypes,
         Channel2Inv
  PROVE  Channel2Inv'
<1> USE DEF CoreInv
<1>1. PICK answer : MSync(answer) /\ MMoves(ack, answer)
  BY MEdgeParts
<1>2. MEffects(ack)
  BY <1>1, MEdgeEffects
<1>3. /\ half.b2 = bm.b2 /\ half' = half /\ bc' = bc
      /\ bm'.b2 = IF m.b2en THEN bc.b2.v ELSE bm.b2
      /\ m'.b2en <=> (m.men /\ ack /\ m.statemcl \in M!Filling /\ m.ma0.w = m.reqw)
      /\ m'.reqw = IF Takes THEN bm.d0b.s.a.w ELSE m.reqw
      /\ m'.ma0 = M!Ma0(m, MclIn(ack), m'.statemcl)
  BY <1>2 DEF MEffects
<1>4. m.ma0.w = m.reqw => ~M!CwLast(m)
  BY NextWordType, SamePack DEF MclTypes, Addresses, M!CwLast
<1>5. m.statemcl \in M!Filling =>
        /\ half.b0 # bm.b0.v /\ Arrived /\ ~Takes
        /\ ~answer /\ Arrived' /\ half'.b0 # bm'.b0.v /\ Outstanding'
        /\ m.ma0.w = m.reqw => m'.statemcl = m.statemcl
  <2> SUFFICES ASSUME m.statemcl \in M!Filling
               PROVE  /\ half.b0 # bm.b0.v /\ Arrived /\ ~Takes
                      /\ ~answer /\ Arrived' /\ half'.b0 # bm'.b0.v /\ Outstanding'
                      /\ m.ma0.w = m.reqw => m'.statemcl = m.statemcl
    OBVIOUS
  <2>1. half.b0 # bm.b0.v /\ Arrived /\ Served(bm.d0b.s.cmd)
    BY MclPhase DEF Quiet, Blocked, M!Filling
  <2>2. ~m.rfillv /\ Command # "WRITESGL_FA" /\ m.statemcl # "IDLE"
    BY <2>1 DEF Served, Command, MclInv, M!Filling
  <2>3. ~answer
    BY <1>1, <2>2, Busy
  <2>4. Arrived' /\ half'.b0 # bm'.b0.v /\ Outstanding'
    BY <1>1, <2>1, <2>3, MArrived
  <2>5. m.ma0.w = m.reqw => m'.statemcl = m.statemcl
    BY <1>1, <1>4, <2>2, Busy DEF M!Filling
  <2> QED  BY <2>1, <2>2, <2>3, <2>4, <2>5 DEF Takes
<1>6. m'.b2en => m'.statemcl \in M!Filling
  BY <1>3, <1>5
<1>7. WordShown'
  BY <1>3, <1>5 DEF WordShown, Channel2Inv
<1>8. WordOwed'
  <2> SUFFICES ASSUME bm'.b2 # bc'.b2.v
               PROVE  /\ Outstanding' /\ bc'.d0v.cmd \in Miss
                      /\ m'.statemcl \in M!Filling => m'.b2en \/ m'.ma0.w = m'.reqw
                      /\ (half'.b0 # bm'.b0.v /\ Arrived') =>
                           m'.sbblknxst \/ m'.statemcl \in M!Filling
    BY DEF WordOwed
  <2>1. /\ ~m.b2en /\ Outstanding /\ bc.d0v.cmd \in Miss
        /\ m.statemcl \in M!Filling => m.ma0.w = m.reqw
        /\ (half.b0 # bm.b0.v /\ Arrived) => m.sbblknxst \/ m.statemcl \in M!Filling
    BY <1>3 DEF Channel2Inv, WordOwed
  <2>2. bc'.d0v.cmd \in Miss
    BY <1>3, <2>1
  <2>3. CASE (half.b0 = bm.b0.v \/ ~Arrived) /\ ~Arrives
    BY <1>1, <2>1, <2>2, <2>3, MWaits DEF Quiet, M!Filling
  <2>4. CASE Takes
    <3>1. /\ half.b0 # bm.b0.v /\ ~m.rfillv /\ m.statemcl = "IDLE"
          /\ bm.d0b.s = bc.d0v /\ bc.d0v.cmd \in Commands
      BY <2>4, TakesOutstanding DEF Takes
    <3>2. m'.statemcl \in M!Filling /\ ~answer
      BY <1>1, <2>1, <2>4, <3>1, IdleTakes DEF M!TakenState, Miss, M!Filling
    <3>3. Arrives \/ Arrived
      BY <2>4, <3>1 DEF Takes, Channel0Inv, Shown, Quiet
    <3>4. Outstanding'
      BY <1>1, <3>1, <3>2, <3>3, MArrived
    <3>5. m'.ma0 = [bm.d0b.s.a EXCEPT !.b = 0]
      <4>1. MclIn(ack).ctom.b0d = bm.d0b.s
        BY DEF MclIn
      <4> QED  BY <1>3, <3>1, <3>2, <4>1 DEF M!Ma0, M!Filling
    <3>6. m'.ma0.w = bm.d0b.s.a.w
      BY <3>5 DEF SyncTypes, CommandWords, Addresses
    <3> QED  BY <1>3, <2>2, <2>4, <3>2, <3>4, <3>6
  <2>5. CASE half.b0 # bm.b0.v /\ Arrives /\ ~Arrived /\ ~Takes
    <3>1. Quiet /\ m.statemcl = "WTHI" /\ m.statemwi = "IDLE" /\ m.sbbufin
      BY <2>5 DEF Channel0Inv, Shown, Takes, Quiet, MclInv
    <3>2. m'.statemcl \in {"IDLE", "WTHI"} /\ m'.sbblknxst /\ ~answer
      BY <1>1, <2>5, <3>1, Busy DEF Command
    <3>3. Outstanding'
      BY <1>1, <2>5, <3>2, MArrived
    <3> QED  BY <2>2, <3>2, <3>3 DEF M!Filling
  <2>6. CASE half.b0 # bm.b0.v /\ Arrived /\ ~Takes /\ m.statemcl \notin M!Filling
    <3>1. m.statemcl = "WTHI" /\ m.statemwi = "IDLE" /\ m.sbbufin /\ m.sbblknxst
      BY <2>1, <2>6 DEF Takes, Channel0Inv, Serving, Blocked, Served, MclInv
    <3>2. m'.statemcl \in {"IDLE", "WTHI"} /\ m'.sbblknxst /\ ~answer
      BY <1>1, <3>1, Busy DEF Command
    <3>3. Outstanding'
      BY <1>1, <2>6, <3>2, MArrived
    <3> QED  BY <2>2, <3>2, <3>3 DEF M!Filling
  <2>7. CASE m.statemcl \in M!Filling
    <3>1. m'.statemcl \in M!Filling /\ Outstanding' /\ m.ma0.w = m.reqw /\ ~Takes
      BY <1>5, <2>1, <2>7
    <3>2. CASE ack
      <4>1. m.men
        BY <1>1, <3>2 DEF MMoves
      <4> QED  BY <1>3, <2>2, <2>7, <3>1, <3>2, <4>1
    <3>3. CASE ~ack
      <4>1. ~MclIn(ack).ack
        BY <3>3 DEF MclIn
      <4>2. m'.ma0 = m.ma0
        BY <1>3, <2>7, <3>1, <4>1 DEF M!Ma0, M!Filling
      <4> QED  BY <1>3, <2>2, <3>1, <4>2
    <3> QED  BY <3>2, <3>3
  <2>8. half.b0 = bm.b0.v => ~Arrives
    BY DEF Channel0Inv, Free, Latched, ClimbM, Rising, Arrives
  <2> QED  BY <2>3, <2>4, <2>5, <2>6, <2>7, <2>8
<1> QED  BY <1>6, <1>7, <1>8 DEF Channel2Inv

\* A read takes the bus at once, even in the gap after a write.
LEMMA TakenRead ==
  ASSUME NEW ack, NEW answer, MMoves(ack, answer), CoreInv, Takes,
         bm.d0b.s.cmd \in {"READSGL_NM", "READSGL_LO"}
  PROVE  m'.statemcl = "RSG" /\ m'.men /\ Command = bm.d0b.s.cmd
<1>1. m.statemcl = "IDLE" /\ m.statemwi \in {"IDLE", "GAP1", "GAP2S", "GAP3S"}
  BY DEF Takes, CoreInv, GapInv, MclInv, M!MwiStates, GapR
<1>2. PICK cmd \in Commands : cmd = bm.d0b.s.cmd
  BY DEF Commands
<1>3. m'.statemcl = "RSG" /\ m'.statemwi = "IDLE"
  BY <1>1, <1>2, IdleTakes DEF CoreInv, M!TakenState, M!WriteSgl
<1>4. m'.men
  BY <1>2, <1>3, IdleTakes DEF CoreInv, GapR
<1> QED  BY <1>1, <1>3, <1>4 DEF Command, CoreInv, MclInv

\* A locked read raises the lock on the bus with its request.
LEMMA MEdgeLock ==
  ASSUME NEW ack \in BOOLEAN, MEdge(ack), CoreInv, HistInv, LockRaised
  PROVE  LockRaised'
<1> USE DEF CoreInv
<1>1. PICK answer : MSync(answer) /\ MMoves(ack, answer)
  BY MEdgeParts
<1>2. /\ m'.mlock <=> IF m'.men THEN Command = "READSGL_LO"
                                ELSE m.mlock /\ ~(Takes /\ Command = "NEGATE_LO")
      /\ bm'.d0b.s = bm.d0b.m
  BY <1>1, MEdgeEffects DEF MEffects, MSync
<1> SUFFICES ASSUME m'.statemcl = "RSG"
             PROVE  m'.mlock <=> bm'.d0b.s.cmd = "READSGL_LO"
  BY DEF LockRaised
<1>3. CASE Takes
  <2>1. bm.d0b.s = bm.d0b.m /\ bm.d0b.s.cmd \in Commands
    BY <1>3, TakesOutstanding
  <2>2. bm.d0b.s.cmd \in {"READSGL_NM", "READSGL_LO"}
    <3>1. m'.statemcl = M!TakenState(bm.d0b.s.cmd)
      BY <1>1, <1>3, <2>1, IdleTakes
    <3> QED  BY <2>1, <3>1 DEF M!TakenState, Commands
  <2> QED  BY <1>1, <1>2, <1>3, <2>1, <2>2, TakenRead
<1>4. CASE ~Takes
  <2>1. m.statemcl = "RSG"
    BY <1>1, <1>4, IdleWaits, Busy DEF MclInv, M!MclStates
  <2>2. half.b0 # bm.b0.v /\ Arrived
    BY <2>1, MclPhase DEF Quiet
  <2>3. bm.d0b.s = bm.d0b.m
    BY <2>2 DEF Channel0Inv, Serving
  <2>4. m.statemwi = "IDLE" /\ Command = bm.d0b.s.cmd
    BY <2>1 DEF MclInv, Command
  <2>5. m'.men
    BY <1>1, <2>1, <2>4, Busy DEF M!Writing, GapR
  <2> QED  BY <1>2, <2>3, <2>4, <2>5
<1> QED  BY <1>3, <1>4

\* The bus stays locked from the read of TAS.B to its write.
LEMMA MEdgeTas ==
  ASSUME NEW ack \in BOOLEAN, MEdge(ack), CoreInv, HistInv, LockRaised, StateInv, TasInv
  PROVE  TasInv'
<1> USE DEF CoreInv
<1>1. PICK answer : MSync(answer) /\ MMoves(ack, answer)
  BY MEdgeParts
<1>2. MEffects(ack)
  BY <1>1, MEdgeEffects
<1> SUFFICES ASSUME hist'.tasRead
             PROVE  /\ own' /\ cpu'.lock
                    /\ c'.state \in {"IDLE"} \cup OffStates \cup LockStates
                    /\ m'.statemcl \in {"IDLE", "RSG", "WSG"}
                    /\ m'.mlock \/ (m'.statemcl = "WSG" /\ m'.men)
  BY DEF TasInv
<1>3. /\ m'.mlock <=> IF m'.men THEN Command = "READSGL_LO"
                                ELSE m.mlock /\ ~(Takes /\ Command = "NEGATE_LO")
      /\ own' = ((own \/ (ack /\ m.mlock)) /\ (m'.men \/ m'.mlock))
      /\ hist.tasRead \/ (ack /\ m.statemcl = "RSG" /\ cpu.lock)
      /\ ~(ack /\ m.mwr)
      /\ cpu' = cpu /\ c' = c
  BY <1>2 DEF MEffects
\* With the lock held, the command under way is a locked read or its write.
<1>4. ASSUME half.b0 # bm.b0.v, Arrived \/ Arrives, cpu.lock,
             \/ c.state \in {"IDLE"} \cup OffStates \cup LockStates
             \/ m.statemcl = "RSG"
      PROVE  /\ bm.d0b.s.cmd \in {"READSGL_LO", "WRITESGL_SL"}
             /\ c.state \in OffStates \cup LockStates
  <2>1. bm.d0b.s = bc.d0v /\ bc.d0v.cmd \in Commands
    BY <1>1, <1>4, MArrived
  <2>2. c.state # "IDLE"
    BY <1>4 DEF Channel0Inv, Shown, Serving
  <2>3. c.state \in StatesOf(bc.d0v.cmd)
    BY <2>2 DEF StateInv
  <2>4. PICK cmd \in Commands : cmd = bc.d0v.cmd
    BY <2>1
  <2>5. m.statemcl = "RSG" => cmd \in {"READSGL_NM", "READSGL_LO"}
    BY <2>1, <2>4, MclPhase DEF Quiet, Blocked, Served
  <2>6. c.state \in OffStates \cup LockStates
    <3>1. m.statemcl = "RSG" => c.state \in OffStates \cup LockStates
      BY <2>3, <2>4, <2>5 DEF StatesOf, OffStates, LockStates
    <3> QED  BY <1>4, <2>2, <3>1
  <2>7. cmd # "READSGL_NM"
    BY <1>4, <2>3, <2>4 DEF StateInv, StatesOf
  <2>8. cmd \in {"READSGL_LO", "WRITESGL_SL"}
    BY <2>3, <2>4, <2>6, <2>7 DEF StatesOf, OffStates, LockStates, Commands
  <2> QED  BY <2>1, <2>4, <2>6, <2>8
<1>5. CASE m.statemcl = "RSG" /\ cpu.lock
  <2>1. half.b0 # bm.b0.v /\ Arrived
    BY <1>5, MclPhase DEF Quiet
  <2>2. bm.d0b.s.cmd \in {"READSGL_LO", "WRITESGL_SL"} /\ c.state \in OffStates \cup LockStates
    BY <1>4, <1>5, <2>1
  <2>3. bm.d0b.s.cmd = "READSGL_LO"
    BY <1>5, <2>2, MclPhase DEF Quiet, Blocked, Served
  <2>4. m.mlock /\ Command = "READSGL_LO" /\ m.statemwi = "IDLE" /\ ~Takes
    BY <1>5, <2>3 DEF LockRaised, Command, MclInv, Takes
  <2>5. own \/ (ack /\ m.mlock)
    BY <1>3, <2>4 DEF TasInv
  <2>6. m'.mlock /\ m'.statemcl \in {"IDLE", "RSG"}
    BY <1>1, <1>3, <1>5, <2>4, Busy
  <2> QED  BY <1>3, <1>5, <2>2, <2>5, <2>6
<1>6. CASE ~(m.statemcl = "RSG" /\ cpu.lock)
  <2>1. /\ own /\ cpu.lock
        /\ c.state \in {"IDLE"} \cup OffStates \cup LockStates
        /\ m.statemcl \in {"IDLE", "WSG"}
        /\ m.mlock \/ (m.statemcl = "WSG" /\ m.men)
    BY <1>3, <1>6 DEF TasInv
  <2>2. CASE Takes
    <3>1. /\ half.b0 # bm.b0.v /\ (Arrived \/ Arrives) /\ bm.d0b.s.cmd \in Commands
      BY <2>2, TakesOutstanding DEF Takes, Channel0Inv, Shown, Quiet
    <3>2. bm.d0b.s.cmd \in {"READSGL_LO", "WRITESGL_SL"}
      BY <1>4, <2>1, <3>1
    <3>3. CASE bm.d0b.s.cmd = "READSGL_LO"
      BY <1>1, <1>3, <2>1, <2>2, <3>3, TakenRead
    <3>4. CASE bm.d0b.s.cmd = "WRITESGL_SL"
      <4>1. m'.statemcl = "WSG"
        BY <1>1, <2>2, <3>1, <3>4, IdleTakes DEF M!TakenState
      <4>2. m.mlock /\ Command = "WRITESGL_SL"
        BY <2>1, <2>2, <3>4 DEF Takes, Command, MclInv
      <4> QED  BY <1>3, <2>1, <4>1, <4>2
    <3> QED  BY <3>2, <3>3, <3>4
  <2>3. CASE m.statemcl = "IDLE" /\ ~Takes
    BY <1>1, <1>3, <2>1, <2>3, IdleWaits
  <2>4. CASE m.statemcl = "WSG"
    <3>1. ~ack
      BY <1>1, <1>3, <2>4, Busy DEF MclInv, M!Writing
    <3>2. m'.statemcl = "WSG" /\ (m.men => m'.men)
      BY <1>1, <2>4, <3>1, Busy DEF MclInv, GapR
    <3> QED  BY <1>3, <2>1, <2>4, <3>2 DEF Takes
  <2> QED  BY <2>1, <2>2, <2>3, <2>4
<1> QED  BY <1>5, <1>6

-------------------------------------------------------------------------------
(* The invariant of the whole cache.                                         *)

LinkInv == Channel2Inv /\ BankInv /\ BankSeen
LockInv == HistInv /\ StateInv /\ LockRaised /\ TasInv

Inv == TypeInv /\ CoreInv /\ LinkInv /\ LockInv

\* All of the invariant holds at reset,
LEMMA InvInit == Init => Inv
<1> SUFFICES ASSUME Init PROVE Inv
  OBVIOUS
<1>1. TypeInv /\ CoreInv
  BY TypesInit, CoreInit
<1>2. c = CclReset /\ m = M!MclReset
  BY DEF Init
<1>3. /\ c.state = "IDLE" /\ c.sabank_send = 0
      /\ m.statemcl = "IDLE" /\ ~m.b2en /\ m.b3enr_dir = 0
  BY <1>2 DEF CclReset, M!MclReset
<1>4. /\ bc.b0.v = 0 /\ bm.b0.v = 0 /\ bc.b2.v = 0 /\ bm.b2 = 0 /\ half.b2 = 0
      /\ \A k \in Banks : bc.b3[k].v = 0 /\ bc.b3[k].m = 0 /\ bm.b3[k] = 0
  BY DEF Init, FsyncReset
<1>5. HistInv /\ ~hist.tasRead
  BY DEF Init, HistInv
<1>6. Channel2Inv
  BY <1>3, <1>4 DEF Channel2Inv, WordOwed, WordShown
<1>7. BankInv /\ BankSeen
  BY <1>3, <1>4 DEF BankInv, BankSeen, Current, Previous, Outstanding, Banks
<1>8. StateInv /\ LockRaised /\ TasInv
  BY <1>3, <1>5 DEF StateInv, LockRaised, TasInv, OffStates, LockStates
<1> QED  BY <1>1, <1>5, <1>6, <1>7, <1>8 DEF Inv, LinkInv, LockInv

\* Half-cycle latches and the other master leave the registers alone.
LEMMA OtherSteps ==
  ASSUME Inv, CLow \/ MLow \/ RemoteWrite \/ UNCHANGED vars
  PROVE  LinkInv' /\ LockInv'
<1>1. /\ c' = c /\ m' = m /\ bc' = bc /\ bm' = bm /\ cpu' = cpu /\ own' = own
  BY DEF CLow, MLow, RemoteWrite, vars
<1>2. HistInv' /\ hist'.tasRead = hist.tasRead
  <2>1. CASE CLow \/ MLow \/ UNCHANGED vars
    BY <2>1 DEF CLow, MLow, vars, Inv, LockInv, HistInv
  <2>2. CASE RemoteWrite
    <3>1. PICK s : hist' = [hist EXCEPT !.stale = s]
      BY <2>2, Zenon DEF RemoteWrite
    <3> QED  BY <3>1 DEF Inv, LockInv, HistInv
  <2> QED  BY <2>1, <2>2
<1>3. LockInv'
  BY <1>1, <1>2 DEF Inv, LockInv, StateInv, LockRaised, TasInv
<1>4. \/ half'.b0 = half.b0
      \/ CLow /\ half'.b0 = bc.b0.v /\ half.b0 = bm.b0.v /\ ~Arrived
  <2>1. half = [b0 |-> half.b0, b2 |-> half.b2]
    BY DEF Inv, CoreInv, Channel0Inv, ChannelTypes
  <2>2. CASE CLow
    <3>1. half.b0 # bc.b0.v /\ half'.b0 = bc.b0.v
      BY <2>1, <2>2 DEF CLow
    <3> QED  BY <2>2, <3>1 DEF Inv, CoreInv, Channel0Inv, Latched, Arrived
  <2>3. CASE MLow
    BY <2>1, <2>3 DEF MLow
  <2>4. CASE RemoteWrite \/ UNCHANGED vars
    BY <2>4 DEF RemoteWrite, vars
  <2> QED  BY <2>2, <2>3, <2>4
<1>5. half'.b2 = half.b2 \/ half'.b2 = bm.b2
  <2>1. half = [b0 |-> half.b0, b2 |-> half.b2]
    BY DEF Inv, CoreInv, Channel0Inv, ChannelTypes
  <2> QED  BY <2>1 DEF CLow, MLow, RemoteWrite, vars
<1>6. (Waiting' <=> Waiting) /\ (Outstanding' <=> Outstanding)
  BY <1>1, <1>4 DEF Waiting, Outstanding, Arrived
<1>7. BankInv' /\ BankSeen'
  BY <1>1, <1>6 DEF Inv, LinkInv, BankInv, BankSeen, Current, Previous
<1>8. Channel2Inv'
  <2>1. Channel2Inv
    BY DEF Inv, LinkInv
  <2>2. WordOwed'
    BY <1>1, <1>4, <1>6, <2>1 DEF Channel2Inv, WordOwed, Arrived
  <2>3. WordShown'
    BY <1>1, <1>4, <1>5, <2>1 DEF Channel2Inv, WordShown, Arrived
  <2> QED  BY <1>1, <2>1, <2>2, <2>3 DEF Channel2Inv
<1> QED  BY <1>3, <1>7, <1>8 DEF LinkInv

\* and every step keeps it.
LEMMA InvStep == Inv /\ [Next]_vars => Inv'
<1> SUFFICES ASSUME Inv, [Next]_vars PROVE Inv'
  OBVIOUS
<1>1. TypeInv' /\ CoreInv'
  BY TypesStep, CoreStep DEF Inv
<1>2. CASE CEdge
  <2>1. CclInv /\ bc.d0v.cmd \in Commands
    BY DEF Inv, CoreInv, Channel0Inv, ChannelTypes
  <2>2. LinkInv'
    BY <1>2, CEdgeChannel2, CEdgeBanks DEF Inv, LinkInv, TypeInv
  <2>3. HistInv'
    BY <1>2 DEF CEdge, HistC, HistInv
  <2>4. StateInv' /\ TasInv'
    BY <1>2, <2>1, CEdgeState, CEdgeTas DEF Inv, LockInv
  <2>5. LockRaised'
    BY <1>2 DEF CEdge, Inv, LockInv, LockRaised
  <2> QED  BY <1>1, <2>2, <2>3, <2>4, <2>5 DEF Inv, LockInv
<1>3. ASSUME NEW ack \in BOOLEAN, MEdge(ack) PROVE Inv'
  <2>1. LinkInv'
    BY <1>3, MEdgeChannel2, MEdgeBanks DEF Inv, LinkInv, LockInv, TypeInv
  <2>2. HistInv'
    BY <1>3 DEF MEdge, HistM, HistInv, Inv, LockInv
  <2>3. TasInv' /\ LockRaised'
    BY <1>3, MEdgeTas, MEdgeLock DEF Inv, LockInv
  <2>4. StateInv'
    BY <1>3 DEF MEdge, Inv, LockInv, StateInv
  <2> QED  BY <1>1, <2>1, <2>2, <2>3, <2>4 DEF Inv, LockInv
<1>4. CASE CLow \/ MLow \/ RemoteWrite \/ UNCHANGED vars
  BY <1>1, <1>4, OtherSteps DEF Inv
<1> QED  BY <1>2, <1>3, <1>4 DEF Next, MemAck, MemWait

\* The invariant of the two halves, their channels and the lock holds always.
THEOREM Invariance == Spec => []Inv
BY InvInit, InvStep, PTL DEF Spec

\* A command, a critical-word request or a write-completion bank is used again
\* only after its last use was answered, whatever the phase of the two clocks,
\* the length of the line and the memory's delay.
THEOREM ChannelsAreFree == Spec => []ChannelsFree
<1>1. Inv => ChannelsFree
  <2> SUFFICES ASSUME Inv PROVE ChannelsFree
    OBVIOUS
  <2>1. Sends => bm.b0.v = bc.b0.v
    BY SendsFree DEF Inv, CoreInv
  <2>2. B2en(Goes) => half.b2 = bc.b2.v
    <3>1. B2en(Goes) => Sends
      BY DEF B2en, Sends, B0en
    <3> QED  BY <3>1, WordFree DEF Inv, LinkInv
  <2>3. \A k \in B3en(c, CclIn, Goes) : bm.b3[k] = bc.b3[k].v /\ bc.b3[k].m = 0
    <3>1. \A k \in B3en(c, CclIn, Goes) : Sends /\ k = 1 - c.sabank_send
      BY DEF B3en, SendsWrite, Sends
    <3> QED  BY <3>1, BankFree DEF Inv, LinkInv, TypeInv
  <2> QED  BY <2>1, <2>2, <2>3 DEF ChannelsFree, Sends, Goes
<1> QED  BY <1>1, Invariance, PTL

\* Between the read and the write of a TAS or CAS.L the bus stays with this
\* cache, whether the cache is on or off, and whatever comes between.
THEOREM TasIsAtomic == Spec => []TasAtomic
<1>1. Inv => TasAtomic
  BY DEF Inv, LockInv, TasInv, TasAtomic
<1> QED  BY <1>1, Invariance, PTL

===============================================================================
