------------------------------ MODULE FsyncSlot ------------------------------
(***************************************************************************)
(* What dcache_ccl and dcache_mcl rely on of a synchroniser channel: a     *)
(* slot for one command.  The cpu side puts a command, the memory side     *)
(* takes that very command once, the cpu side then learns that it is done, *)
(* and may put the next command in the same step.                          *)
(***************************************************************************)
CONSTANT Data   \* the commands

VARIABLES
  phase,   \* "free", "full" (put and not yet taken) or "taken"
  val,     \* the command in the slot
  got      \* the command taken last

svars == <<phase, val, got>>

Init ==
  /\ phase = "free"
  /\ val \in Data
  /\ got = val

Put ==
  /\ phase \in {"free", "taken"}
  /\ phase' = "full"
  /\ val' \in Data
  /\ UNCHANGED got

Take ==
  /\ phase = "full"
  /\ phase' = "taken"
  /\ got' = val
  /\ UNCHANGED val

Done ==
  /\ phase = "taken"
  /\ phase' = "free"
  /\ UNCHANGED <<val, got>>

Next == Put \/ Take \/ Done

Spec == Init /\ [][Next]_svars

==============================================================================
