-------------------------------- MODULE GdbStub --------------------------------
(***************************************************************************)
(* The gdb stub of the boot rom (testrom/gdb.c on sh2.c and the uart of    *)
(* entry.c): packets over a serial line on which characters get damaged,   *)
(* the command processor, memory and registers, and an application that    *)
(* runs, is stepped, and asks gdb for file services.                       *)
(*                                                                         *)
(* The line to the stub carries characters, because every wait of the stub *)
(* reads one character; a payload, and a checksum, is one character here.  *)
(* On the line to gdb a packet is one item, its checksum a number.         *)
(***************************************************************************)
EXTENDS Sh2Target, FiniteSets, SequencesExt

CONSTANTS
  Programs,       \* programs, with the registers they start from and the commands
                  \* that gdb may send: [code, cpu, requests]
  Vectors,        \* the vector table of the application: [number -> address]
  DataBytes,      \* [address -> byte], memory when gdb connects
  MaxRequests,    \* commands gdb sends
  MaxNoise,       \* characters damaged
  MaxNmi,         \* interrupts and faults that enter the stub
  NmiInStep       \* whether they may come while a step is under way

\* Programs are made of instructions, and 0x0000 is none.  The registers are all
\* there, in a G command too; a command is not one of the characters around it.
ASSUME ProgramsAssumption == \A pr \in Programs :
  /\ pr.code \in [DOMAIN pr.code -> [op : STRING, f : Nat]]
  /\ \A a \in DOMAIN pr.code :
       a \in Int /\ FieldOf(pr.code[a]) /\ pr.code[a] # NoOpcode
  /\ DOMAIN pr.cpu = RegisterIds
  /\ \A p \in pr.requests :
       "c" \notin DOMAIN p /\ (p.cmd = "G" => DOMAIN p.d = RegisterIds)

VARIABLES
  rx, tx,         \* characters to the stub, items to gdb
  where,          \* what the stub is doing: hunt, data, csum (getmsg), ack (the
                  \* wait for '+'), or app: the application is running
  rxbuf,          \* the characters of the packet being read
  reply,          \* the message being sent
  sum,            \* the running checksum of that message
  after,          \* what follows its acknowledge: monitor, loop, reset or return
  sigval,         \* the signal of the last exception
  rf,             \* register_file
  stepped,        \* gdb_sh2_stepped_opcode
  cpu,            \* the registers of the application
  code,           \* its program, as it is in memory
  data,           \* its data
  host,           \* gdb: idle, ack, reply, run or sys (in a file service)
  cur,            \* gdb's last command
  sent, noise, nmis,                   \* counters
  program,        \* the program as gdb has loaded it (history)
  shadow,         \* the data as gdb has written it (history)
  known,          \* the registers as gdb knows them (history)
  expected,       \* what the reply to cur has to be (history)
  ran, plan       \* instructions run since the last s, and to be run (history)

target == <<rf, stepped, cpu, code, data>>
gdbVars == <<host, cur, sent, shadow, known, expected>>
vars == <<rx, tx, where, rxbuf, reply, sum, after, sigval, target, gdbVars, noise,
          nmis, program, ran, plan>>

Damaged == [c |-> "?", cmd |-> "unknown", arg |-> 0]
Dollar  == [c |-> "$"]
Hash    == [c |-> "#"]
Plus    == [c |-> "+"]
Minus   == [c |-> "-"]
Csum(p) == [c |-> "csum", of |-> p]

-------------------------------------------------------------------------------
(* Conversions.                                                              *)

\* lnibble_to_hex and hex_to_int, on character codes.
HexCode(n) == IF n < 10 THEN 48 + n ELSE 87 + n

HexToInt(h) ==
  CASE h >= 97 /\ h <= 102 -> h - 87
    [] h >= 48 /\ h <= 57  -> h - 48
    [] h >= 65 /\ h <= 70  -> h - 55
    [] OTHER               -> 0

\* The accesses of mem_to_hexbuf and hexbuf_to_mem: <<address, bytes>>, each as
\* wide as the address and the length allow.
Accesses(addr, len) ==
  LET acc[n \in 0 .. len] ==
        IF n = 0 THEN <<>>
        ELSE LET a == addr + len - n
                 w == IF n >= 4 /\ a % 4 = 0 THEN 4 ELSE IF n >= 2 /\ a % 2 = 0 THEN 2 ELSE 1
             IN  <<<<a, w>>>> \o acc[n - w]
  IN  acc[len]

\* mem_to_hexbuf: two characters a byte, in the order of the addresses.
MemToHex(mem, addr, len) ==
  FlattenSeq([i \in 1 .. Len(Accesses(addr, len)) |->
    LET a == Accesses(addr, len)[i]
    IN  FlattenSeq([k \in 1 .. a[2] |->
          <<HexCode(mem[a[1] + k - 1] \div 16), HexCode(mem[a[1] + k - 1] % 16)>>])])

\* The stores of hexbuf_to_mem and xmem_to_mem: byte i of the message is bytes[i].
StoreAll(mem, addr, len, bytes) ==
  FoldLeft(LAMBDA m, a : [x \in DOMAIN m |->
             IF x \in a[1] .. a[1] + a[2] - 1 THEN bytes[x - addr + 1] ELSE m[x]],
           mem, Accesses(addr, len))

\* hexbuf_to_mem.
HexToMem(mem, addr, len, hex) ==
  StoreAll(mem, addr, len,
           [i \in 1 .. len |-> 16 * HexToInt(hex[2 * i - 1]) + HexToInt(hex[2 * i])])

Xor20(b) == IF (b \div 32) % 2 = 1 THEN b - 32 ELSE b + 32

\* xbin_to_bin on the characters of an X packet: the bytes they stand for.
Unescaped(s) ==
  LET at[i \in 1 .. Len(s) + 1] ==
        IF i > Len(s) THEN <<>>
        ELSE IF s[i] = 125 THEN <<Xor20(s[i + 1])>> \o at[i + 2]
        ELSE <<s[i]>> \o at[i + 1]
  IN  at[1]

\* xmem_to_mem.
XToMem(mem, addr, len, s) == StoreAll(mem, addr, len, Unescaped(s))

\* What putbuf adds up.  A message that is not hex data has sum 1 here.
BodySum(body) ==
  IF body.kind = "hex" THEN FoldLeft(LAMBDA a, c : (a + c) % 256, 0, body.v) ELSE 1

-------------------------------------------------------------------------------
(* The stub sends.                                                           *)

OK == [kind |-> "OK"]
Empty == [kind |-> "empty"]

\* read_memory: the message goes out in pieces of a long at most.
ReadMemory(mem, addr, len) ==
  [kind |-> "hex", v |-> FlattenSeq([i \in 1 .. (len + 3) \div 4 |->
     MemToHex(mem, addr + 4 * (i - 1), IF len < 4 * i THEN len - 4 * (i - 1) ELSE 4)])]

\* read_registers, last_signal and expedited.
ReadRegisters(regs) == [kind |-> "regs", v |-> [id \in RegisterIds |-> Peek(regs, id)]]
LastSignal(sig) == [kind |-> "S", v |-> sig]
Expedited(sig, regs) ==
  [kind |-> "T", sig |-> sig, v |-> [id \in RegisterIds |-> Peek(regs, id)]]

\* write_register and write_registers; a G message may hold less than all registers.
WriteRegister(regs, id, val) == Poke(regs, id, val)
WriteRegisters(regs, vals) ==
  [id \in RegisterIds |-> IF id \in DOMAIN vals THEN vals[id] ELSE regs[id]]

\* The checksum of a transmission of message m, before being the value of sum.
\* read_memory clears its sum before the loop, the others inside it.
SumOf(m, before) ==
  IF m.kind = "hex" THEN (before + BodySum(m)) % 256 ELSE BodySum(m)

Frame(m, s) == [c |-> "frame", body |-> m, csum |-> s]

\* A message goes out for the first time, behind what is already on the line.
\* a is what the stub does once it is acknowledged.
StartMessage(line, m, a) ==
  /\ reply' = m
  /\ sum' = SumOf(m, 0)
  /\ tx' = Append(line, Frame(m, SumOf(m, 0)))
  /\ where' = "ack"
  /\ after' = a

\* A slip: any character will do.
AckedByAny(ch) == TRUE

AckedBy(ch) == ch = Plus

\* while ('+' != gdb_getc()): anything else sends the message again.
SendAgain ==
  /\ where = "ack" /\ rx # <<>> /\ ~AckedBy(Head(rx))
  /\ rx' = Tail(rx)
  /\ sum' = SumOf(reply, sum)
  /\ tx' = Append(tx, Frame(reply, SumOf(reply, sum)))
  /\ UNCHANGED <<where, rxbuf, reply, after, sigval, target, gdbVars, noise, nmis,
                 program, ran, plan>>

\* gdb_monitor_onentry.
EnterMonitor(regs) ==
  /\ rf' = regs
  /\ code' = MonitorOnEntry(regs, code, stepped)
  /\ stepped' = NoOpcode

\* kill and detach simulate a reset: the rom's startup ends in a TRAPA #32.
RomTrap == 64
RomStart == [pc |-> RomTrap, pr |-> 0, r |-> 0, t |-> FALSE, stk |-> <<>>]

\* gdb_monitor goes on with its loop.  After expedited it only begins, onentry
\* first; after D and k the reset vector starts the application anew.
Acked ==
  /\ where = "ack" /\ rx # <<>> /\ AckedBy(Head(rx))
  /\ rx' = Tail(rx)
  /\ CASE after = "monitor" -> where' = "hunt" /\ EnterMonitor(rf) /\ UNCHANGED cpu
       [] after = "loop"    -> where' = "hunt" /\ UNCHANGED <<rf, code, stepped, cpu>>
       [] after = "return"  -> where' = "app" /\ UNCHANGED <<rf, code, stepped, cpu>>
       [] after = "reset"   -> where' = "app" /\ cpu' = RomStart
                               /\ UNCHANGED <<rf, code, stepped>>
  /\ UNCHANGED <<tx, rxbuf, reply, sum, after, sigval, data, gdbVars, noise, nmis,
                 program, ran, plan>>

-------------------------------------------------------------------------------
(* The stub receives: getmsg and the commands of gdb_monitor.                *)

\* The wait for the start character, and the loop up to '#'.
GetChar ==
  /\ where \in {"hunt", "data"} /\ rx # <<>>
  /\ rx' = Tail(rx)
  /\ \/ /\ where = "hunt"
        /\ where' = IF Head(rx) = Dollar THEN "data" ELSE "hunt"
        /\ rxbuf' = <<>>
     \/ /\ where = "data"
        /\ where' = IF Head(rx) = Hash THEN "csum" ELSE "data"
        /\ rxbuf' = IF Head(rx) = Hash THEN rxbuf ELSE Append(rxbuf, Head(rx))
  /\ UNCHANGED <<tx, reply, sum, after, sigval, target, gdbVars, noise, nmis, program,
                 ran, plan>>

\* A slip: a packet is taken whatever its checksum.
CsumMatchesAny(ch) == Len(rxbuf) = 1

\* The checksum of the characters read is the one received: one damaged character
\* is always noticed.
CsumMatches(ch) == Len(rxbuf) = 1 /\ ch = Csum(rxbuf[1])

Reject ==
  /\ where = "csum" /\ rx # <<>> /\ ~CsumMatches(Head(rx))
  /\ rx' = Tail(rx)
  /\ tx' = Append(tx, Minus)
  /\ where' = "hunt"
  /\ UNCHANGED <<rxbuf, reply, sum, after, sigval, target, gdbVars, noise, nmis,
                 program, ran, plan>>

\* gdb_return_from_exception: the application goes on with the register file.
Resume(regs, mem, saved) ==
  /\ rf' = regs /\ cpu' = regs /\ code' = mem /\ stepped' = saved
  /\ where' = "app"
  /\ tx' = Append(tx, Plus)
  /\ UNCHANGED <<reply, sum, after, data>>

\* The number of instructions that a continued program runs.
AnyNumber == 9

\* An optional address; 0 stands for none.
At(addr) == IF addr = 0 THEN rf ELSE [rf EXCEPT !.pc = addr]

\* gdb_step and gdb_continue.
Step(p) ==
  LET regs == At(p.arg)
      dest == GetStepiDest(regs, code, Vectors)
  IN  Resume(regs, Planted(regs, code, Vectors), code[dest])

Continue(p) == Resume(At(p.arg), code, stepped)

\* The other commands answer with one message.
Answer(m, mem, regs, a) ==
  /\ StartMessage(Append(tx, Plus), m, a)
  /\ data' = mem /\ rf' = regs
  /\ UNCHANGED <<stepped, cpu, code>>

\* A file service is over: an error goes back without a message.
FileResult(p) ==
  \/ p.arg < 0 /\ where' = "app" /\ tx' = Append(tx, Plus)
     /\ UNCHANGED <<reply, sum, after, target>>
  \/ p.arg >= 0 /\ Answer(OK, data, rf, "return")

\* gdb_monitor's switch.  The q command compares its argument with "Offsets" and
\* finds it different always: getmsg leaves the '#' at the end of the buffer.
Command(p) ==
  CASE p.cmd = "s"          -> Step(p)
    [] p.cmd = "c"          -> Continue(p)
    [] p.cmd = "F"          -> FileResult(p)
    [] p.cmd = "m"          -> Answer(ReadMemory(data, p.arg, p.len), data, rf, "loop")
    [] p.cmd = "M"          -> Answer(OK, HexToMem(data, p.arg, p.len, p.d), rf, "loop")
    [] p.cmd = "X"          -> Answer(OK, XToMem(data, p.arg, p.len, p.d), rf, "loop")
    [] p.cmd = "g"          -> Answer(ReadRegisters(rf), data, rf, "loop")
    [] p.cmd = "P"          -> Answer(OK, data, WriteRegister(rf, p.arg, p.d), "loop")
    [] p.cmd = "G"          -> Answer(OK, data, WriteRegisters(rf, p.d), "loop")
    [] p.cmd = "?"          -> Answer(LastSignal(sigval), data, rf, "loop")
    [] p.cmd = "H"          -> Answer(OK, data, rf, "loop")
    [] p.cmd \in {"k", "D"} -> Answer(OK, data, rf, "reset")
    [] OTHER                -> Answer(Empty, data, rf, "loop")

Accept ==
  /\ where = "csum" /\ rx # <<>> /\ CsumMatches(Head(rx))
  /\ rx' = Tail(rx)
  /\ Command(rxbuf[1])
  /\ LET p    == rxbuf[1]
         regs == At(p.arg)
     IN  /\ ran' = IF p.cmd = "s" THEN 0 ELSE ran
         /\ plan' = IF p.cmd # "s" THEN IF p.cmd \in {"c", "k", "D"} THEN AnyNumber ELSE plan
                    ELSE IF Target(regs, code[regs.pc], Vectors) = regs.pc THEN 0 ELSE 1
  /\ UNCHANGED <<rxbuf, sigval, gdbVars, noise, nmis, program>>

-------------------------------------------------------------------------------
(* The application and what interrupts it.                                   *)

Trap(i) == IF i.op = "TRAPA" THEN i.f ELSE 0

\* One instruction, with its delay slot if it has one.
RunInstr ==
  /\ where = "app" /\ Trap(code[cpu.pc]) \notin 32 .. 34
  /\ cpu' = Ran(cpu, code[cpu.pc], Vectors)
  /\ ran' = IF ran < 2 THEN ran + 1 ELSE ran
  /\ UNCHANGED <<rx, tx, where, rxbuf, reply, sum, after, sigval, rf, stepped, code,
                 data, gdbVars, noise, nmis, program, plan>>

\* An isr and save_registers_handle_exception, then gdb_handle_exception, which
\* begins with the expedited message; gdb_monitor follows.
Exception(regs, sig) ==
  /\ rf' = regs
  /\ sigval' = sig
  /\ StartMessage(tx, Expedited(sig, regs), "monitor")
  /\ UNCHANGED <<rx, rxbuf, cpu, stepped, code, data, gdbVars, noise, program, ran,
                 plan>>

\* gdb_trapa32_isr and gdb_trapa33_isr.
Breakpoint == \E trap \in {32, 33} :
  /\ where = "app" /\ Trap(code[cpu.pc]) = trap
  /\ Exception(Saved([cpu EXCEPT !.pc = @ + 2], trap), 5)
  /\ UNCHANGED nmis

\* gdb_nmi_isr, gdb_unhandled_isr, gdb_illegalinst_isr, gdb_addresserr_isr, entered
\* from the application.  An NMI inside the stub, and any interrupt during a file
\* service, whose handler does not mask SR, are left out: the stub saves the registers
\* in one place and is not written to be entered twice.
Interrupt == \E sig \in {2, 30, 4, 11} :
  /\ where = "app" /\ nmis < MaxNmi
  /\ stepped = NoOpcode \/ NmiInStep
  /\ nmis' = nmis + 1
  /\ Exception(Saved(cpu, 0), sig)

\* gdb_trapa34: gdb_file_io sends its request once and serves gdb's commands until
\* the result comes; sigval is 0 meanwhile.  The registers are not saved.  r holds the number of the call.
FileService ==
  /\ where = "app" /\ Trap(code[cpu.pc]) = 34
  /\ cpu' = [cpu EXCEPT !.pc = @ + 2]
  /\ \/ cpu.r \in 1 .. 5
        /\ tx' = Append(tx, Frame([kind |-> "file"], 1))
        /\ where' = "hunt"
        /\ EnterMonitor(rf)
        /\ sigval' = 0
     \/ cpu.r \notin 1 .. 5 /\ UNCHANGED <<tx, where, rf, code, stepped, sigval>>
  /\ UNCHANGED <<rx, rxbuf, reply, sum, after, data, gdbVars, noise, nmis,
                 program, ran, plan>>

-------------------------------------------------------------------------------
(* gdb (external), by the protocol at the head of gdb.c: one command at a     *)
(* time, sent again when it is refused or nothing comes back.  A message that *)
(* comes where an acknowledge is due is an old one: it is acknowledged.       *)

Packet(p) == <<Dollar, p, Hash, Csum(p)>>

\* A request of gdb's, in the mode it is in: the target stopped, or in a call.  A
\* breakpoint is not stepped.
MaySend(p) ==
  /\ host = "sys" => p.cmd \in {"F", "m", "M"}
  /\ host = "idle" => p.cmd # "F"
  /\ p.cmd = "s" =>
       Trap(program.code[IF p.arg = 0 THEN known.pc ELSE p.arg]) \notin 32 .. 34

Expect(p, mem, regs) ==
  CASE p.cmd = "m" -> [kind |-> "hex", v |-> [i \in 1 .. 2 * p.len |->
                         LET byte == mem[p.arg + (i - 1) \div 2]
                         IN  HexCode(IF i % 2 = 1 THEN byte \div 16 ELSE byte % 16)]]
    [] p.cmd = "g" -> [kind |-> "regs", v |-> regs]
    [] p.cmd = "?" -> [kind |-> "S", v |-> sigval]
    [] p.cmd = "q" -> Empty
    [] OTHER       -> OK

HostSend == \E p \in program.requests :
  /\ host \in {"idle", "sys"} /\ sent < MaxRequests /\ MaySend(p)
  /\ sent' = sent + 1
  /\ rx' = rx \o Packet(p)
  /\ cur' = [p |-> p, back |-> host]
  /\ host' = "ack"
  /\ shadow' = [x \in DOMAIN shadow |->
       IF p.cmd \in {"M", "X"} /\ x \in p.arg .. p.arg + p.len - 1
         THEN p.bytes[x - p.arg + 1] ELSE shadow[x]]
  /\ known' = CASE p.cmd = "P" -> [known EXCEPT ![p.arg] = p.d]
                [] p.cmd = "G" -> p.d
                [] OTHER       -> known
  /\ expected' = Expect(p, shadow, known)
  /\ UNCHANGED <<tx, where, rxbuf, reply, sum, after, sigval, target, noise, nmis,
                 program, ran, plan>>

GoodFrame(f) == f.c = "frame" /\ f.csum = BodySum(f.body)

Running(p) == p.cmd \in {"s", "c"} \/ (p.cmd = "F" /\ p.arg < 0)

\* gdb reads one item.  ch is what it sends in return.
HostRecv == \E ch \in {<<>>, <<Plus>>, <<Minus>>, Packet(cur.p)} :
  /\ host # "idle" /\ host # "sys" /\ tx # <<>>
  /\ tx' = Tail(tx)
  /\ rx' = rx \o ch
  /\ LET it == Head(tx) IN
     \/ /\ host = "ack"
        /\ ch = CASE it = Minus -> Packet(cur.p) [] GoodFrame(it) -> <<Plus>> [] OTHER -> <<>>
        /\ host' = IF it # Plus THEN "ack" ELSE IF Running(cur.p) THEN "run" ELSE "reply"
        /\ UNCHANGED known
     \/ /\ host = "reply"
        /\ ch = CASE it \in {Plus, Minus} -> <<>> [] GoodFrame(it) -> <<Plus>> [] OTHER -> <<Minus>>
        /\ host' = IF ~GoodFrame(it) THEN "reply"
                   ELSE IF cur.p.cmd \in {"F", "k", "D"} THEN "run" ELSE cur.back
        /\ UNCHANGED known
     \/ /\ host = "run"
        /\ ch = CASE it \in {Plus, Minus} -> <<>> [] GoodFrame(it) -> <<Plus>> [] OTHER -> <<Minus>>
        /\ host' = CASE GoodFrame(it) /\ it.body.kind = "file" -> "sys"
                     [] GoodFrame(it) /\ it.body.kind = "T"    -> "idle"
                     [] OTHER                                  -> "run"
        /\ known' = IF GoodFrame(it) /\ it.body.kind = "T" THEN it.body.v ELSE known
  /\ UNCHANGED <<where, rxbuf, reply, sum, after, sigval, target, cur, sent, shadow,
                 expected, noise, nmis, program, ran, plan>>

\* Nothing is under way, and gdb's command has not been acknowledged.
HostTimeout ==
  /\ host = "ack" /\ rx = <<>> /\ tx = <<>> /\ where # "app"
  /\ rx' = Packet(cur.p)
  /\ UNCHANGED <<tx, where, rxbuf, reply, sum, after, sigval, target, gdbVars, noise,
                 nmis, program, ran, plan>>

\* A character is damaged.  Two things are spared, which the protocol cannot make
\* good: the stub's '+', and the request of a file service, which is sent once.
Noise ==
  /\ noise < MaxNoise
  /\ noise' = noise + 1
  /\ \/ /\ \E i \in DOMAIN rx : rx' = [rx EXCEPT ![i] = Damaged]
        /\ UNCHANGED tx
     \/ /\ \E i \in DOMAIN tx :
             /\ tx[i] # Plus /\ tx[i] # Damaged
             /\ tx[i].c = "frame" => tx[i].body.kind # "file"
             /\ tx' = [tx EXCEPT ![i] = Damaged]
        /\ UNCHANGED rx
  /\ UNCHANGED <<where, rxbuf, reply, sum, after, sigval, target, gdbVars, nmis,
                 program, ran, plan>>

-------------------------------------------------------------------------------

Init ==
  /\ rx = <<>> /\ tx = <<>>
  /\ where = "hunt" /\ rxbuf = <<>>
  /\ reply = Empty /\ sum = 0 /\ after = "loop" /\ sigval = 5
  /\ program \in Programs
  /\ rf = program.cpu /\ cpu = program.cpu /\ known = program.cpu
  /\ code = program.code
  /\ stepped = NoOpcode
  /\ data = DataBytes /\ shadow = DataBytes
  /\ host = "idle" /\ cur = [p |-> [cmd |-> "none"], back |-> "idle"]
  /\ expected = Empty
  /\ sent = 0 /\ noise = 0 /\ nmis = 0 /\ ran = 0 /\ plan = AnyNumber

StubNext == SendAgain \/ Acked \/ GetChar \/ Reject \/ Accept

AppNext == RunInstr \/ Breakpoint \/ Interrupt \/ FileService

HostNext == HostRecv \/ HostTimeout

Next == StubNext \/ AppNext \/ HostNext \/ HostSend \/ Noise

\* The stub and the application run, and gdb reads what comes and sends a command
\* again in the end; nothing makes gdb send commands, or the line fail.
Spec == Init /\ [][Next]_vars /\ WF_vars(StubNext \/ AppNext) /\ WF_vars(HostNext)

-------------------------------------------------------------------------------
(* Properties.                                                               *)

\* The reply that gdb takes is the answer to its command, and the right one: what
\* it wrote is read back, on whatever alignment and however often a message had to
\* be sent again, and no answer to an earlier command is taken for it.
ReplyMatches ==
  (host = "reply" /\ tx # <<>> /\ GoodFrame(Head(tx))) => Head(tx).body = expected

\* While gdb is being served the program is as gdb loaded it: the trap that a step
\* planted is gone, and the instruction it replaced is back in its place.
CodeIntact ==
  where \in {"hunt", "data", "csum"} => code = program.code

\* A single step runs one instruction, with its delay slot, and stops: taken and
\* untaken branches, calls, returns, traps, in both directions.  An instruction
\* that leads to itself is not run at all: the trap replaces it.
StepRunsOne ==
  (where = "ack" /\ reply.kind = "T" /\ plan # AnyNumber /\ nmis = 0) => ran = plan

\* Every command of gdb's is acknowledged and answered in the end, however the
\* line behaves before it behaves again.
Answered == (host \in {"ack", "reply"}) ~> (host \notin {"ack", "reply"})

\* The checksum of every packet is that of its data: "CSUM1 and CSUM2 are ascii hex
\* representation of an 8-bit checksum of <data>" (gdb.c).
ChecksumIsOfData ==
  \A i \in DOMAIN tx : tx[i].c = "frame" => tx[i].csum = BodySum(tx[i].body)

===============================================================================
