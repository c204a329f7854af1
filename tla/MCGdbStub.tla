------------------------------- MODULE MCGdbStub -------------------------------
(* Instances of GdbStub for TLC: programs around one instruction of each kind. *)
EXTENDS GdbStub

I(op, f) == [op |-> op, f |-> f]
Nop == I("NOP", 0)

\* The instruction under test is at 2, its delay slot at 4; the others end in a
\* compiled-in breakpoint, and the last leads back to 0.
Around(i) == [a \in {0, 2, 4, 6, 8, 10, 12, 14, RomTrap, RomTrap + 2} |->
  CASE a = 2        -> i
    [] a \in {6, 10} -> I("TRAPA", 33)
    [] a = 12       -> I("BRA", 4088)
    [] a = RomTrap  -> STEP_OPCODE
    [] OTHER        -> Nop]

Regs(r, pr, t, stk) == [pc |-> 2, pr |-> pr, r |-> r, t |-> t, stk |-> stk]

\* Forward to 8, back to 0, and to itself.
Short == {1, 253, 254}
Long == {1, 4093, 4094}

C(cmd, arg) == [cmd |-> cmd, arg |-> arg]

Write(addr) == [cmd |-> "M", arg |-> addr, len |-> 2, bytes |-> <<175, 9>>,
                d |-> <<97, 102, 48, 57>>]

WriteX(addr) == [cmd |-> "X", arg |-> addr, len |-> 3, bytes |-> <<35, 1, 125>>,
                 d |-> <<125, 3, 1, 125, 93>>]

Read(addr, len) == [cmd |-> "m", arg |-> addr, len |-> len]

Program(i, regs, reqs) == [code |-> Around(i), cpu |-> regs, requests |-> reqs]

\* Displacements in both directions, taken and not; targets in registers, on the
\* stack and in the vector table.
Branches ==
  LET B(i, regs) == Program(i, regs, {C("s", 0)})
  IN  {B(I(op, f), Regs(0, 0, t, <<>>)) :
         op \in {"BT", "BF", "BTS", "BFS"}, f \in Short, t \in BOOLEAN}
      \cup {B(I(op, f), Regs(0, 0, FALSE, <<>>)) : op \in {"BRA", "BSR"}, f \in Long}
      \cup {B(I(op, 0), Regs(r, 0, FALSE, <<>>)) : op \in {"BRAF", "BSRF"}, r \in {2, -6}}
      \cup {B(I(op, 0), Regs(r, 0, FALSE, <<>>)) : op \in {"JMP", "JSR"}, r \in {0, 8}}
      \cup {B(I("RTS", 0), Regs(0, 8, FALSE, <<>>)),
            B(I("RTE", 0), Regs(0, 0, FALSE, <<8>>)),
            B(I("TRAPA", 35), Regs(0, 0, FALSE, <<>>))}

\* Programs that ask for a file service, one with a bad number.
Services == {Program(I("TRAPA", 34), Regs(r, 0, FALSE, <<>>),
                     {C("c", 0), C("F", 2), C("F", -1), Read(0, 2)}) : r \in {0, 4}}

\* Stepping, running and killing a program whose registers gdb changes.
Control == {Program(Nop, Regs(0, 0, FALSE, <<>>),
  {C("s", 4), C("c", 8), C("?", 0), C("k", 0), C("g", 0),
   [cmd |-> "P", arg |-> "pc", d |-> 8],
   [cmd |-> "G", arg |-> 0, d |-> Regs(8, 8, TRUE, <<>>)]})}

\* Memory, written and read in pieces that are aligned and that are not.
Accessing == {Program(Nop, Regs(0, 0, FALSE, <<>>),
  {Write(1), WriteX(0), Read(0, 4), Read(1, 3), C("H", 0), C("q", 0)})}

AllPrograms == Branches \cup Services \cup Control \cup Accessing

OneReader == {Program(Nop, Regs(0, 0, FALSE, <<>>), {Read(1, 2)})}

UserVectors == [n \in {35} |-> 8]

\* Bytes are written with a hex letter, and the two that X has to escape.
Memory == [a \in 0 .. 3 |-> 0]

===============================================================================
