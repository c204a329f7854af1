------------------------------ MODULE DebugPlan --------------------------------
(***************************************************************************)
(* Debug plans (sim/debug_plan.c): sequences of instructions inserted into *)
(* a stopped cpu that read or write its registers or its memory and leave  *)
(* the rest as it was.  Each call of a plan takes the reply to its last    *)
(* request and makes the next one; replies come several requests late,     *)
(* because they show the write-back stage.                                 *)
(***************************************************************************)
EXTENDS Integers, Sequences

\* enum registers.
PC == 16
PR == 17
GBR == 18
VBR == 19
MACH == 20
MACL == 21
SR == 22
Regs == 0 .. 22

\* An instruction: op and its register.  A request adds the y-bus override.
Nop == [op |-> "NOP", r |-> 0]
In(op, r) == [op |-> op, r |-> r]
Req(i) == [instr |-> i, en |-> FALSE, d |-> 0]
ReqD(i, d) == [instr |-> i, en |-> TRUE, d |-> d]

\* What a call returns: the plan, the next request, and whether more will follow.
Went(p, req) == [plan |-> [p EXCEPT !.i = @ + 1], req |-> req, more |-> TRUE]
LastReq(p) == [plan |-> p, req |-> Req(Nop), more |-> FALSE]

\* STC and STS, in the order in which their encodings count up.
Stored == <<SR, GBR, VBR, MACH, MACL, PR>>

\* A slip: the return address is taken one reply late.
SaveRegLate(p, rep) ==
  IF p.i \in 6 .. 21 THEN [p EXCEPT !.regs[p.i - 6] = rep]
  ELSE IF p.i \in 22 .. 27 THEN [p EXCEPT !.regs[Stored[p.i - 21]] = rep]
  ELSE IF p.i = 33 THEN [p EXCEPT !.regs[PC] = rep]
  ELSE p

\* regs_read_next, first half: the reply is stored where it belongs.
SaveReg(p, rep) ==
  IF p.i \in 6 .. 21 THEN [p EXCEPT !.regs[p.i - 6] = rep]
  ELSE IF p.i \in 22 .. 27 THEN [p EXCEPT !.regs[Stored[p.i - 21]] = rep]
  ELSE IF p.i = 32 THEN [p EXCEPT !.regs[PC] = rep]
  ELSE p

\* regs_read_next.  The PC comes from a JSR, which puts it into PR; an RTS puts it
\* back, and then PR and R0 get what was read from them.
RegsReadNext(q, rep) ==
  LET p == SaveReg(q, rep) IN
  CASE p.i < 16         -> Went(p, Req(In("MOV", p.i)))
    [] p.i \in 16 .. 21 -> Went(p, Req(In("ST", Stored[p.i - 15])))
    [] p.i = 25         -> Went(p, Req(In("MOV0", 0)))
    [] p.i = 26         -> Went(p, Req(In("JSR", 0)))
    [] p.i = 27         -> Went(p, Req(In("ST", PR)))
    [] p.i = 28         -> Went(p, Req(In("RTS", 0)))
    [] p.i = 29         -> Went(p, ReqD(In("MOV", 0), p.regs[PR]))
    [] p.i = 30         -> Went(p, Req(In("LD", PR)))
    [] p.i = 31         -> Went(p, ReqD(In("MOV", 0), p.regs[0]))
    [] p.i = 36         -> LastReq(p)
    [] OTHER            -> Went(p, Req(Nop))

Loaded == <<MACH, MACL, PR, SR, GBR, VBR>>

\* regs_write_next.
RegsWriteNext(p, rep) ==
  CASE p.i = 0          -> Went(p, ReqD(In("LD", PR), p.regs[PC]))
    [] p.i = 1          -> Went(p, Req(In("RTS", 0)))
    [] p.i \in 3 .. 8   -> Went(p, ReqD(In("LD", Loaded[p.i - 2]), p.regs[Loaded[p.i - 2]]))
    [] p.i \in 9 .. 24  -> Went(p, ReqD(In("MOV", p.i - 9), p.regs[p.i - 9]))
    [] p.i = 26         -> LastReq(p)
    [] OTHER            -> Went(p, Req(Nop))

\* mem_read_next.  num_words goes on below 0 while the last values are collected, which
\* are stored if the caller has given a buffer.
MemReadNext(q, rep) ==
  LET p    == IF q.i >= 6 /\ q.given THEN [q EXCEPT !.buf = Append(@, rep)] ELSE q
      less == [p EXCEPT !.num = @ - 1]
  IN  CASE p.num > 0  -> Went([less EXCEPT !.addr = @ + 4], ReqD(In("LOAD", 0), p.addr))
        [] p.num = -2 -> Went(less, ReqD(In("MOV", 0), p.r0))
        [] p.num = -5 -> LastReq(p)
        [] OTHER      -> Went(less, Req(Nop))

\* mem_write_next: from the highest address to the lowest.
MemWriteNext(p, rep) ==
  LET less == [p EXCEPT !.num = @ - 1]
  IN  CASE p.i = 0    -> Went(less, ReqD(In("MOV", 0), p.addr))
        [] p.i > 0 /\ p.num >= 0  -> Went(less, ReqD(In("STORE", 0), p.buf[p.num + 1]))
        [] p.i > 0 /\ p.num = -1  -> Went(less, ReqD(In("MOV", 0), p.r0))
        [] p.i > 0 /\ p.num = -3  -> LastReq(p)
        [] OTHER      -> Went(less, Req(Nop))

\* debug_plan_init_regs_read, _regs_write, _mem_read and _mem_write.
RegsPlan(kind, regs) == [kind |-> kind, i |-> 0, regs |-> regs]
MemReadPlan(addr, n, given, r0) ==
  [kind |-> "read", i |-> 0, addr |-> addr, num |-> n, buf |-> <<>>, given |-> given, r0 |-> r0]
MemWritePlan(addr, vals, r0) ==
  [kind |-> "write", i |-> 0, addr |-> addr + 4 * Len(vals), num |-> Len(vals),
   buf |-> vals, given |-> TRUE, r0 |-> r0]

\* debug_plan_next.
PlanNext(p, rep) ==
  CASE p.kind = "dump"  -> RegsReadNext(p, rep)
    [] p.kind = "store" -> RegsWriteNext(p, rep)
    [] p.kind = "read"  -> MemReadNext(p, rep)
    [] p.kind = "write" -> MemWriteNext(p, rep)

-------------------------------------------------------------------------------
(* The stopped cpu (external: core/ and decode/).  An override takes the place *)
(* of the y-bus operand.                                                       *)

\* [reg, mem, wr]: the registers and memory after an instruction, the value written.
Inserted(reg, mem, q) ==
  LET op == q.instr.op
      r  == q.instr.r
      y(v) == IF q.en THEN q.d ELSE v
      W(n, v) == [reg |-> [reg EXCEPT ![n] = v], mem |-> mem, wr |-> v]
  IN  CASE op = "MOV"   -> W(r, y(reg[r]))
        [] op = "MOV0"  -> W(0, 0)
        [] op = "ST"    -> W(0, reg[r])
        [] op = "LD"    -> [W(r, y(reg[0])) EXCEPT !.wr = 0]
        [] op = "LOAD"  -> W(0, IF y(reg[1]) \in DOMAIN mem THEN mem[y(reg[1])] ELSE 0)
        [] op = "STORE" -> [reg |-> [reg EXCEPT ![0] = @ - 4], wr |-> 0,
                            mem |-> [a \in DOMAIN mem |->
                                       IF a = reg[0] - 4 THEN y(reg[1]) ELSE mem[a]]]
        [] op = "JSR"   -> [reg |-> [reg EXCEPT ![PR] = reg[PC], ![PC] = reg[0]],
                            mem |-> mem, wr |-> 0]
        [] op = "RTS"   -> [reg |-> [reg EXCEPT ![PC] = reg[PR]], mem |-> mem, wr |-> 0]
        [] OTHER        -> [reg |-> reg, mem |-> mem, wr |-> 0]

\* The values on their way to the write-back stage; the head is on the debug port when
\* the request is acknowledged.  A jump takes a second slot, with nothing to write.
Latency == 6
Piped(wb, q, wr) == Append(Tail(wb), wr)
Drained(wb, q) == IF q.instr.op \in {"JSR", "RTS"} THEN Append(Tail(wb), 0) ELSE wb

===============================================================================
