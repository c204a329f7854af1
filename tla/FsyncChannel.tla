----------------------------- MODULE FsyncChannel -----------------------------
(***************************************************************************)
(* Channel 0 of the synchroniser (cache/dcache.vhd) between its two users: *)
(* the cpu-clock controller (dcache_ccl), which sends a command and waits  *)
(* for the falling edge of mtoc.b0enr, and the memory-clock controller     *)
(* (dcache_mcl), which takes a command at the falling edge of ctom.b0en    *)
(* and answers it once, in that cycle or any later one.                    *)
(*                                                                         *)
(* The clocks have no common phase: their edges interleave freely within   *)
(* the ratio of their frequencies.  A data word that is sampled while it   *)
(* may still be settling, before the half-cycle latch has shown the        *)
(* command, arrives as anything, Torn included.                            *)
(***************************************************************************)
EXTENDS Fsync

CONSTANTS
  Data,       \* commands that cross from the cpu clock to the memory clock
  Torn,       \* what a bus sampled while it changes may look like
  MaxM        \* edges of clk200 between two edges of clk125, at most

\* 200 MHz against 125 MHz gives 1 or 2 memory edges to each cpu cycle.
ASSUME ChannelAssumption ==
  /\ Torn \notin Data
  /\ Data # {}
  /\ MaxM \in 1 .. 2

VARIABLES
  bc,         \* thisbc_r.en0, the cpu side's flip-flops
  bm,         \* thisbm_r.en0, the memory side's flip-flops
  half,       \* bcen_value_halfcb0, the cpu's VALUE half a cycle late
  d0v,        \* thisbc_r.d0v, the command the cpu side drives
  d0b,        \* thisbm_r.d0b, its METASTABLE and STABLE copies
  rfillv,     \* dcache_ccl: b0enr one cpu cycle ago
  fillv_del1, \* dcache_mcl: b0en one memory cycle ago
  waiting,    \* dcache_ccl is in a state that waits for mem_trans_ack
  serving,    \* dcache_mcl has taken a command and not answered it
  sent,       \* the command the cpu side sent last (history)
  got,        \* the command the memory side took last (history)
  taken,      \* the memory side has taken the command sent last (history)
  mEdges      \* edges of clk200 since the last edge of clk125

cVars == <<bc, d0v, rfillv, waiting, sent>>
mVars == <<bm, d0b, fillv_del1, serving, got>>
vars == <<bc, bm, half, d0v, d0b, rfillv, fillv_del1, waiting, serving, sent,
          got, taken, mEdges>>

AnyData == Data \cup {Torn}

Init ==
  /\ bc = FsyncReset
  /\ bm = FsyncReset
  /\ half = 0
  /\ d0v \in Data /\ sent = d0v /\ got = d0v
  /\ d0b = [m |-> d0v, s |-> d0v]
  /\ rfillv = 0
  /\ fillv_del1 = 0
  /\ waiting = FALSE
  /\ serving = FALSE
  /\ taken = TRUE
  /\ mEdges = 0

-------------------------------------------------------------------------------
(* The cpu clock.                                                            *)

MemTransAck == bc.s = 0 /\ rfillv = 1

\* A slip: SB2 issues the next command without waiting for the acknowledge.
MaySendEarly == TRUE

\* The cpu side's state machine issues a command from IDLE, where nothing is
\* outstanding, or in SB2 in the very cycle the last one is acknowledged.
MaySend == ~waiting \/ MemTransAck

CpuEdge(send) ==
  /\ half = bc.v
  /\ mEdges >= 1
  /\ send => MaySend
  /\ bc' = FsyncC(bc, half, bm.v, send)
  /\ rfillv' = bc.s
  /\ waiting' = (send \/ (waiting /\ ~MemTransAck))
  /\ mEdges' = 0
  /\ UNCHANGED <<half, mVars>>

CpuSend == \E d \in Data :
  /\ CpuEdge(TRUE)
  /\ d0v' = d /\ sent' = d
  /\ taken' = FALSE

CpuIdle ==
  /\ CpuEdge(FALSE)
  /\ UNCHANGED <<d0v, sent, taken>>

\* clk125 falls: the transparent latch shows the new VALUE.
CpuLow ==
  /\ half # bc.v
  /\ half' = bc.v
  /\ UNCHANGED <<cVars, mVars, taken, mEdges>>

-------------------------------------------------------------------------------
(* The memory clock.                                                         *)

\* sbout_en1 when dcache_mcl is idle: the falling edge of ctom.b0en.
Request == bm.s = 0 /\ fillv_del1 = 1

\* What the METASTABLE flip-flops of d0b catch.
SampledLatched == IF half = bc.v THEN {d0v} ELSE {d0v, Torn}

\* A slip: the enable is not delayed, so data is no older than its enable.
SampledUnlatched == {d0v, Torn}

Sampled == SampledLatched

MemEdge(answer) ==
  /\ mEdges < MaxM
  /\ (half # bc.v) => mEdges = 0     \* clk125 falls 4 ns after it rises
  /\ answer => (Request \/ serving)
  /\ bm' = FsyncM(bm, half, bm.v, answer)
  /\ \E d \in Sampled : d0b' = [m |-> d, s |-> d0b.m]
  /\ fillv_del1' = bm.s
  /\ serving' = ((serving \/ Request) /\ ~answer)
  /\ got' = IF Request THEN d0b.s ELSE got
  /\ taken' = (taken \/ Request)
  /\ mEdges' = mEdges + 1
  /\ UNCHANGED <<cVars, half>>

MemAnswer == MemEdge(TRUE)

MemIdle == MemEdge(FALSE)

Next == CpuSend \/ CpuIdle \/ CpuLow \/ MemAnswer \/ MemIdle

Spec == Init /\ [][Next]_vars

\* Both clocks run for ever, and dcache_mcl answers what it has taken.
FairSpec ==
  /\ Spec
  /\ WF_vars(CpuSend \/ CpuIdle) /\ WF_vars(CpuLow)
  /\ WF_vars(MemAnswer \/ MemIdle) /\ SF_vars(MemAnswer)

-------------------------------------------------------------------------------
(* Properties.                                                               *)

TypeOK ==
  /\ bc \in FsyncReg /\ bm \in FsyncReg /\ half \in Bit
  /\ d0v \in Data /\ sent \in Data
  /\ got \in AnyData /\ d0b \in [m : AnyData, s : AnyData]
  /\ rfillv \in Bit /\ fillv_del1 \in Bit
  /\ waiting \in BOOLEAN /\ serving \in BOOLEAN /\ taken \in BOOLEAN
  /\ mEdges \in 0 .. MaxM

\* A command the memory side takes is the command the cpu side sent last, whole:
\* the enable of dcache.vhd part 0 never overtakes its data.
CommandIntact == taken => got = sent

\* A command is taken once: when the memory side sees a request, the last
\* command sent has not been taken yet.
TakenOnce == Request => ~taken

\* The cpu side sees an acknowledge only for a command that was taken and
\* answered (no answer left in flight), never a stale one.
AckMeansDone == (waiting /\ MemTransAck) => (taken /\ ~serving)

\* Nothing is lost on the way.  Until it is taken, a command has yet to be shown
\* to the memory side or to make it see a falling edge of b0en; and once it is
\* answered, the falling edge of b0enr is still to come.
NothingLost ==
  /\ (waiting /\ ~taken) => (half # bc.v \/ bm.m = 1 \/ bm.s = 1 \/ Request)
  /\ (waiting /\ taken /\ ~serving) => (bc.m = 1 \/ bc.s = 1 \/ rfillv = 1)

\* Every command sent is taken, and every wait ends.
Delivered == waiting ~> (taken /\ MemTransAck)

-------------------------------------------------------------------------------
(* What the channel promises: a slot that holds one command at a time.       *)

phase == IF ~waiting THEN "free" ELSE IF taken THEN "taken" ELSE "full"

Slot == INSTANCE FsyncSlot WITH val <- sent

\* The channel implements the slot.
SlotSpec == Slot!Spec

===============================================================================
