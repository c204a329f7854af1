------------------------------- MODULE Sh2Target -------------------------------
(***************************************************************************)
(* The target side of the gdb stub (testrom/sh2.c): where the next         *)
(* instruction will take the program, the trap that a single step plants   *)
(* there, the registers saved and restored around an exception, and the    *)
(* cpu these are about.  All of it is a function of the registers and of   *)
(* the program; the module has no variables.                               *)
(*                                                                         *)
(* An instruction is [op, f], f its displacement field as it stands in the *)
(* opcode, or the number of a trap.  Addresses are in bytes.               *)
(***************************************************************************)
EXTENDS Integers, Sequences

\* The trap a step plants, TRAPA #32, and the all-zero halfword.
STEP_OPCODE == [op |-> "TRAPA", f |-> 32]
NoOpcode == [op |-> "0000", f |-> 0]

\* register_file: pc, pr, r for R0 to R14, t for SR, stk for R15 and the words it
\* points to.  gdb_peek_register_file and gdb_poke_register_file.
RegisterIds == {"pc", "pr", "r", "t", "stk"}
Peek(rf, id) == rf[id]
Poke(rf, id, val) == [rf EXCEPT ![id] = val]

\* A displacement field is as wide as the opcode has room for it.
FieldOf(i) ==
  /\ i.op \in {"BT", "BTS", "BF", "BFS"} => i.f \in Nat /\ i.f < 256
  /\ i.op \in {"BRA", "BSR"} => i.f \in Nat /\ i.f < 4096

\* A field of w bits sign-extended and doubled: OPCODE_BTF_DISP, OPCODE_BRA_DISP.
\* The sign bit is tested, the bits above it are set.
Disp(f, w) ==
  LET low == f % 2 ^ (w - 1)
  IN  2 * (IF (f \div 2 ^ (w - 1)) % 2 = 1 THEN low - 2 ^ (w - 1) ELSE low)

\* A slip: the T bit is not looked at.
TakenAlways(i, t) == i.op \in {"BT", "BTS", "BF", "BFS"}

Taken(i, t) == (i.op \in {"BT", "BTS"} /\ t) \/ (i.op \in {"BF", "BFS"} /\ ~t)

\* get_stepi_dest.
GetStepiDest(rf, code, vbr) ==
  LET i == code[rf.pc]
  IN  CASE Taken(i, rf.t)                -> rf.pc + 4 + Disp(i.f, 8)
        [] i.op \in {"BRA", "BSR"}       -> rf.pc + 4 + Disp(i.f, 12)
        [] i.op \in {"BRAF", "BSRF"}     -> rf.pc + 4 + rf.r
        [] i.op \in {"JMP", "JSR"}       -> rf.r
        [] i.op = "RTS"                  -> rf.pr
        [] i.op = "RTE"                  -> Head(rf.stk)
        [] i.op = "TRAPA"                -> vbr[i.f]
        [] OTHER                         -> rf.pc + 2

\* gdb_step: the opcode at the destination is saved and replaced.
Planted(rf, code, vbr) == [code EXCEPT ![GetStepiDest(rf, code, vbr)] = STEP_OPCODE]

\* A slip in gdb_monitor_onentry: the planted trap is left in the program.
MonitorOnEntryKeeps(rf, code, stepped) == code

\* gdb_monitor_onentry: if we're stepping, then undo the step.
MonitorOnEntry(rf, code, stepped) ==
  IF stepped # NoOpcode THEN [code EXCEPT ![rf.pc] = stepped] ELSE code

\* save_registers_handle_exception, with the registers as the exception left them.
\* The breakpoint trap also takes 2 off the pc, to run the replaced instruction.
Saved(cpu, trap) == IF trap = 32 THEN [cpu EXCEPT !.pc = @ - 2] ELSE cpu

-------------------------------------------------------------------------------
(* The cpu (external: the SH-2 instruction set, core/ and decode/).          *)

\* A field of w bits as a two's complement number of halfwords.
TwosComplement(f, w) == IF f < 2 ^ (w - 1) THEN 2 * f ELSE 2 * (f - 2 ^ w)

\* Where instruction i at pc leads; a branch has run its delay slot by then.
Target(cpu, i, vbr) ==
  CASE i.op \in {"BT", "BTS"} /\ cpu.t   -> cpu.pc + 4 + TwosComplement(i.f, 8)
    [] i.op \in {"BF", "BFS"} /\ ~cpu.t  -> cpu.pc + 4 + TwosComplement(i.f, 8)
    [] i.op \in {"BRA", "BSR"}           -> cpu.pc + 4 + TwosComplement(i.f, 12)
    [] i.op \in {"BRAF", "BSRF"}         -> cpu.pc + 4 + cpu.r
    [] i.op \in {"JMP", "JSR"}           -> cpu.r
    [] i.op = "RTS"                      -> cpu.pr
    [] i.op = "RTE"                      -> cpu.stk[1]
    [] i.op = "TRAPA"                    -> vbr[i.f]
    [] OTHER                             -> cpu.pc + 2

Ran(cpu, i, vbr) ==
  [cpu EXCEPT
     !.pc  = Target(cpu, i, vbr),
     !.pr  = IF i.op \in {"BSR", "BSRF", "JSR"} THEN cpu.pc + 4 ELSE @,
     !.stk = CASE i.op = "TRAPA" -> <<cpu.pc + 2>> \o @
               [] i.op = "RTE"   -> Tail(@)
               [] OTHER          -> @]

===============================================================================
