----------------------------- MODULE GdbStub_proof ------------------------------
(***************************************************************************)
(* Single steps over the serial line, whatever programs, commands and      *)
(* characters get damaged: the program that gdb loaded is back in place    *)
(* whenever gdb is served, and a step runs one instruction.                *)
(*                                                                         *)
(* What gdb_step relies on comes first: the trap is planted where the next *)
(* instruction leads, and the exception it causes puts back what it        *)
(* replaced.  The rest is gdb's idea of the pc, by which it chooses not to *)
(* step a breakpoint: it is the stub's whenever gdb may send; for that a   *)
(* command is carried out once, no old message is taken for a stop, and    *)
(* the line holds one unanswered packet at most.                           *)
(***************************************************************************)
EXTENDS GdbStub, TLAPS

-------------------------------------------------------------------------------
(* A step of the program: the trap, and what puts the program right, for     *)
(* every program, register contents and vector table.                        *)

Registers == [pc : Int, pr : Int, r : Int, t : BOOLEAN, stk : Seq(Int)]

\* OPCODE_BTF_DISP: testing the sign bit of eight and setting the bits above it is
\* sign extension.
LEMMA ShortDisplacement ==
  ASSUME NEW f \in Nat, f < 256
  PROVE  Disp(f, 8) = TwosComplement(f, 8)
<1>1. 2 ^ (8 - 1) = 128 /\ 2 ^ 8 = 256
  OBVIOUS
<1>2. (f \div 128) % 2 = 1 <=> f >= 128
  OBVIOUS
<1>3. f % 128 = IF f < 128 THEN f ELSE f - 128
  OBVIOUS
<1> QED  BY <1>1, <1>2, <1>3 DEF Disp, TwosComplement

\* OPCODE_BRA_DISP: the same for twelve bits.
LEMMA LongDisplacement ==
  ASSUME NEW f \in Nat, f < 4096
  PROVE  Disp(f, 12) = TwosComplement(f, 12)
<1>1. 2 ^ (12 - 1) = 2048 /\ 2 ^ 12 = 4096
  OBVIOUS
<1>2. (f \div 2048) % 2 = 1 <=> f >= 2048
  OBVIOUS
<1>3. f % 2048 = IF f < 2048 THEN f ELSE f - 2048
  OBVIOUS
<1> QED  BY <1>1, <1>2, <1>3 DEF Disp, TwosComplement

\* get_stepi_dest computes where the cpu will go, for every instruction, taken
\* or not, and every displacement.
THEOREM StepTargetIsRight ==
  ASSUME NEW regs, NEW text, NEW vbr, FieldOf(text[regs.pc])
  PROVE  GetStepiDest(regs, text, vbr) = Target(regs, text[regs.pc], vbr)
<1> DEFINE i == text[regs.pc]
<1>1. CASE Taken(i, regs.t)
  <2>1. i.op \in {"BT", "BTS", "BF", "BFS"}
    BY <1>1 DEF Taken
  <2>2. Disp(i.f, 8) = TwosComplement(i.f, 8)
    <3>1. i.f \in Nat /\ i.f < 256
      BY <2>1 DEF FieldOf
    <3> HIDE DEF i
    <3> QED  BY <3>1, ShortDisplacement
  <2> QED  BY <1>1, <2>1, <2>2 DEF Taken, GetStepiDest, Target
<1>2. CASE i.op \in {"BRA", "BSR"}
  <2>1. Disp(i.f, 12) = TwosComplement(i.f, 12)
    <3>1. i.f \in Nat /\ i.f < 4096
      BY <1>2 DEF FieldOf
    <3> HIDE DEF i
    <3> QED  BY <3>1, LongDisplacement
  <2> QED  BY <1>2, <2>1 DEF Taken, GetStepiDest, Target
<1>3. CASE ~Taken(i, regs.t) /\ i.op \notin {"BRA", "BSR"}
  <2>1. CASE i.op \in {"BT", "BTS", "BF", "BFS"}
    BY <1>3, <2>1 DEF Taken, GetStepiDest, Target
  <2>2. CASE i.op = "RTE"
    BY <2>2 DEF Taken, GetStepiDest, Target
  <2>3. CASE i.op \notin {"BT", "BTS", "BF", "BFS", "RTE"}
    BY <1>3, <2>3 DEF Taken, GetStepiDest, Target
  <2> QED  BY <2>1, <2>2, <2>3
<1> QED  BY <1>1, <1>2, <1>3

-------------------------------------------------------------------------------
(* A whole step: gdb_step plants the trap, the cpu runs into it,             *)
(* gdb_trapa32_isr saves the registers and gdb_monitor_onentry cleans up.    *)

\* The registers with which the cpu comes to a trap: at once when the instruction
\* leads to itself, since the trap has replaced it then, or after running it.
Arrives(regs, text, vbr) ==
  LET there == Planted(regs, text, vbr)
  IN  IF GetStepiDest(regs, text, vbr) = regs.pc THEN regs
      ELSE Ran(regs, there[regs.pc], vbr)

\* The step ends at the planted trap, one instruction on, with the pc that the
\* cpu would have without it; what is in memory then is the program again.
THEOREM StepIsUndone ==
  ASSUME NEW regs \in Registers, NEW text, NEW vbr, text = [a \in DOMAIN text |-> text[a]],
         regs.pc \in DOMAIN text, FieldOf(text[regs.pc]),
         GetStepiDest(regs, text, vbr) \in DOMAIN text,
         GetStepiDest(regs, text, vbr) \in Int,
         text[GetStepiDest(regs, text, vbr)] # NoOpcode
  PROVE  LET dest  == GetStepiDest(regs, text, vbr)
             at    == Arrives(regs, text, vbr)
             saved == Saved([at EXCEPT !.pc = @ + 2], 32)
         IN  /\ at.pc = Target(regs, text[regs.pc], vbr)
             /\ Planted(regs, text, vbr)[at.pc] = STEP_OPCODE
             /\ saved.pc = dest
             /\ MonitorOnEntry(saved, Planted(regs, text, vbr), text[dest]) = text
<1> DEFINE dest  == GetStepiDest(regs, text, vbr)
           i     == text[regs.pc]
           there == Planted(regs, text, vbr)
           at    == Arrives(regs, text, vbr)
           saved == Saved([at EXCEPT !.pc = @ + 2], 32)
<1>1. dest = Target(regs, i, vbr)
  BY StepTargetIsRight
<1>2. there = [text EXCEPT ![dest] = STEP_OPCODE]
  BY DEF Planted
<1>3. /\ DOMAIN there = DOMAIN text /\ there[dest] = STEP_OPCODE
      /\ \A a \in DOMAIN text : a # dest => there[a] = text[a]
      /\ there = [a \in DOMAIN text |-> there[a]]
  BY <1>2
<1>4. at.pc = dest /\ "pc" \in DOMAIN at /\ at = [x \in DOMAIN at |-> at[x]]
  <2>1. CASE dest = regs.pc
    BY <2>1 DEF Arrives, Registers
  <2>2. CASE dest # regs.pc
    <3>1. at = Ran(regs, i, vbr)
      BY <1>3, <2>2 DEF Arrives
    <3>2. Ran(regs, i, vbr).pc = Target(regs, i, vbr)
          /\ "pc" \in DOMAIN Ran(regs, i, vbr)
          /\ Ran(regs, i, vbr) = [x \in DOMAIN Ran(regs, i, vbr) |-> Ran(regs, i, vbr)[x]]
      BY DEF Ran, Registers
    <3> QED  BY <1>1, <3>1, <3>2
  <2> QED  BY <2>1, <2>2
<1> HIDE DEF at
<1>5. saved.pc = dest
  <2>1. PICK u : u = [at EXCEPT !.pc = @ + 2]
    OBVIOUS
  <2>2. u.pc = dest + 2 /\ "pc" \in DOMAIN u
    BY <1>4, <2>1
  <2>3. saved = [u EXCEPT !.pc = u.pc - 2]
    BY <2>1 DEF Saved
  <2>4. saved.pc = u.pc - 2
    BY <2>2, <2>3
  <2> QED  BY <2>2, <2>4
<1> HIDE DEF saved, there, dest
<1>6. MonitorOnEntry(saved, there, text[dest]) = [there EXCEPT ![dest] = text[dest]]
  BY <1>5 DEF MonitorOnEntry, dest
<1>7. [there EXCEPT ![dest] = text[dest]] = text
  BY <1>3
<1>8. there[at.pc] = STEP_OPCODE
  BY <1>3, <1>4
<1> QED  BY <1>1, <1>4, <1>5, <1>6, <1>7, <1>8 DEF at, saved, there, dest

-------------------------------------------------------------------------------
(* The inductive invariant.                                                  *)

Csums == {Csum(p) : p \in program.requests}
Char == {Damaged, Dollar, Hash, Plus, Minus} \cup program.requests \cup Csums

\* The end of a packet, and what the stub says of it.
Closing(ch) == ch = Hash \/ ch \in Csums
Verdict(it) == it = Plus \/ it = Minus

Accepted == \E i \in DOMAIN tx : tx[i] = Plus
Unread == where = "csum" \/ \E i \in DOMAIN rx : Closing(rx[i])

\* The packet that is read is gdb's last command; its '#' stands before its
\* checksum, and nothing else in the line closes a packet.
Packets ==
  /\ \A i \in DOMAIN rx : rx[i] \in Csums => rx[i] = Csum(cur.p)
  /\ \A i \in DOMAIN rx : rx[i] = Hash =>
       /\ i + 1 \in DOMAIN rx /\ rx[i + 1] # Hash
       /\ \A j \in DOMAIN rx : Closing(rx[j]) => j = i \/ j = i + 1
  /\ where = "csum" =>
       /\ rx # <<>> /\ rx[1] # Hash
       /\ \A j \in DOMAIN rx : Closing(rx[j]) => j = 1

\* A packet is unread, or has one verdict on its way, and gdb waits for it.
Verdicts ==
  /\ Unread => host = "ack" /\ \A i \in DOMAIN tx : ~Verdict(tx[i])
  /\ (\E i \in DOMAIN tx : Verdict(tx[i])) => host = "ack"
  /\ \A i, j \in DOMAIN tx : Verdict(tx[i]) /\ Verdict(tx[j]) => i = j

\* gdb can send: the stub is at its service.
Served == where # "app" /\ (where = "ack" => after \in {"loop", "monitor"})

\* The registers when command p has been carried out.
Effect(p, regs) == CASE p.cmd = "P" -> WriteRegister(regs, p.arg, p.d)
                     [] p.cmd = "G" -> WriteRegisters(regs, p.d)
                     [] OTHER       -> regs

\* Commands that are answered by a message and no more.
Plain(p) == p.cmd \notin {"s", "c", "k", "D", "F"}

\* A command that the stub has not taken yet.
Asked ==
  /\ Served
  /\ cur.back = "sys" => plan = AnyNumber /\ cur.p.cmd \in {"F", "m", "M"}
  /\ cur.back = "idle" =>
       /\ cur.p.cmd # "F"
       /\ known.pc = Effect(cur.p, rf).pc
       /\ cur.p.cmd = "s" =>
            Trap(program.code[IF cur.p.arg = 0 THEN known.pc ELSE cur.p.arg]) \notin 32 .. 34

Answers ==
  /\ Served
  /\ cur.back = "sys" => plan = AnyNumber
  /\ cur.back = "idle" => known.pc = rf.pc

\* Messages that gdb has yet to read when it has read that its command is taken.
Fresh(i) == /\ i \in DOMAIN tx /\ tx[i].c = "frame"
            /\ \A j \in DOMAIN tx : tx[j] = Plus => j < i

\* The application runs, is about to, or has stopped and gdb is being told.
Runs ==
  /\ where = "ack" => after \in {"monitor", "reset", "return"}
  /\ \A i \in DOMAIN tx : Fresh(i) =>
       /\ tx[i].body.kind = "T" =>
            /\ where # "app" /\ (where = "ack" => after = "monitor")
            /\ DOMAIN tx[i].body.v = RegisterIds /\ tx[i].body.v["pc"] = rf.pc
       /\ tx[i].body.kind = "file" => where \notin {"app", "ack"} /\ plan = AnyNumber

Phases ==
  /\ host \in {"idle", "sys", "ack", "reply", "run"}
  /\ host \notin {"idle", "sys"} => cur.p \in program.requests /\ cur.back \in {"idle", "sys"}
  /\ host = "idle" => Served /\ known.pc = rf.pc
  /\ host = "sys" => Served /\ plan = AnyNumber
  /\ host = "ack" /\ ~Accepted => Asked
  /\ host = "reply" \/ (host = "ack" /\ Accepted) =>
       IF Plain(cur.p) THEN Answers ELSE Runs
  /\ host = "reply" => cur.p.cmd \notin {"s", "c"}
  /\ host = "run" => Runs

\* The message being sent.
Sending == where = "ack" =>
  /\ after \in {"monitor", "loop", "reset", "return"}
  /\ after = "monitor" =>
       reply.kind = "T" /\ DOMAIN reply.v = RegisterIds /\ reply.v["pc"] = rf.pc
  /\ after # "monitor" => reply.kind \notin {"T", "file"}
  /\ after \in {"reset", "return"} => plan = AnyNumber

\* The trap is planted at d.
Planting(d) == /\ code = [program.code EXCEPT ![d] = STEP_OPCODE]
               /\ stepped = program.code[d]

\* A step has come to the trap, or comes there with one instruction.
Arrived == Planting(cpu.pc) /\ ran = plan

Underway ==
  /\ Trap(program.code[cpu.pc]) \notin 32 .. 34
  /\ Target(cpu, program.code[cpu.pc], Vectors) # cpu.pc
  /\ Planting(Target(cpu, program.code[cpu.pc], Vectors))
  /\ ran = 0 /\ plan = 1

Untouched == code = program.code /\ stepped = NoOpcode

\* The program in memory, and how far a step has come.
Memories ==
  /\ where \in {"hunt", "data", "csum"} \/ (where = "ack" /\ after # "monitor") => Untouched
  /\ where = "app" => (Untouched /\ plan = AnyNumber) \/ Arrived \/ Underway
  /\ where = "ack" /\ after = "monitor" =>
       /\ MonitorOnEntry(rf, code, stepped) = program.code
       /\ plan = AnyNumber \/ ran = plan \/ nmis # 0

IsSequence(s) == s \in Seq({s[i] : i \in 1 .. Len(s)})

Shapes ==
  /\ program \in Programs
  /\ where \in {"hunt", "data", "csum", "ack", "app"}
  /\ rx \in Seq(Char) /\ IsSequence(tx)
  /\ nmis \in Nat
  /\ DOMAIN rf = RegisterIds /\ DOMAIN cpu = RegisterIds /\ DOMAIN known = RegisterIds

IInv == Shapes /\ Packets /\ Verdicts /\ Phases /\ Sending /\ Memories

-------------------------------------------------------------------------------
(* Characters, items and sequences.                                          *)

LEMMA Letters ==
  ASSUME program \in Programs
  PROVE  /\ ~Closing(Plus) /\ ~Closing(Minus) /\ ~Closing(Damaged) /\ ~Closing(Dollar)
         /\ Closing(Hash) /\ Hash \notin Csums /\ Hash # Damaged
         /\ \A p \in program.requests :
              ~Closing(p) /\ p # Hash /\ Csum(p) \in Csums /\ Csum(p) # Hash
         /\ \A p, q : Csum(p) = Csum(q) => p = q
<1>1. \A p \in program.requests : "c" \notin DOMAIN p
  BY ProgramsAssumption
<1>2. "c" \in DOMAIN Hash /\ Hash.c = "#"
  BY DEF Hash
<1>3. \A p : "c" \in DOMAIN Csum(p) /\ Csum(p).c = "csum" /\ Csum(p).of = p
  BY DEF Csum
<1>4. Plus.c = "+" /\ Minus.c = "-" /\ Damaged.c = "?" /\ Dollar.c = "$"
  BY DEF Plus, Minus, Damaged, Dollar
<1>5. \A ch : ch \in Csums => "c" \in DOMAIN ch /\ ch.c = "csum"
  BY <1>3 DEF Csums
<1>6. \A p, q : Csum(p) = Csum(q) => p = q
  BY <1>3
<1>7. \A p \in program.requests : Csum(p) \in Csums
  BY DEF Csums
<1>8. \A p \in program.requests : p # Hash /\ p \notin Csums
  BY <1>1, <1>2, <1>5
<1> QED  BY <1>2, <1>3, <1>4, <1>5, <1>6, <1>7, <1>8 DEF Closing

LEMMA Items ==
  /\ Verdict(Plus) /\ Verdict(Minus) /\ ~Verdict(Damaged) /\ Plus # Minus
  /\ Plus.c # "frame" /\ Minus.c # "frame" /\ Damaged.c # "frame"
  /\ \A m, n : ~Verdict(Frame(m, n)) /\ Frame(m, n).c = "frame" /\ Frame(m, n).body = m
<1>1. Plus.c = "+" /\ Minus.c = "-" /\ Damaged.c = "?"
  BY DEF Plus, Minus, Damaged
<1>2. \A m, n : Frame(m, n).c = "frame" /\ Frame(m, n).body = m
  BY DEF Frame
<1> QED  BY <1>1, <1>2 DEF Verdict

LEMMA AnySequence ==
  ASSUME NEW S, NEW s \in Seq(S)
  PROVE  IsSequence(s)
<1>1. Len(s) \in Nat /\ s \in [1 .. Len(s) -> S]
  OBVIOUS
<1> DEFINE T == {s[i] : i \in 1 .. Len(s)}
<1>2. s \in [1 .. Len(s) -> T]
  BY <1>1
<1> HIDE DEF T
<1>3. s \in Seq(T)
  BY <1>1, <1>2
<1> QED  BY <1>3 DEF IsSequence, T

LEMMA Tailed ==
  ASSUME NEW s, IsSequence(s), s # <<>>
  PROVE  /\ IsSequence(Tail(s)) /\ Len(s) \in Nat /\ Len(s) >= 1 /\ DOMAIN s = 1 .. Len(s)
         /\ Head(s) = s[1] /\ DOMAIN Tail(s) = 1 .. Len(s) - 1
         /\ \A i \in DOMAIN Tail(s) : i + 1 \in DOMAIN s /\ Tail(s)[i] = s[i + 1]
<1>1. PICK S : s \in Seq(S)
  BY DEF IsSequence
<1>2. Tail(s) \in Seq(S) /\ Len(Tail(s)) = Len(s) - 1 /\ Len(s) >= 1
  BY <1>1
<1>3. IsSequence(Tail(s))
  BY <1>2, AnySequence
<1> QED  BY <1>1, <1>2, <1>3

LEMMA Longer ==
  ASSUME NEW s, IsSequence(s), NEW x
  PROVE  /\ IsSequence(Append(s, x)) /\ Len(s) \in Nat /\ DOMAIN s = 1 .. Len(s)
         /\ Len(Append(s, x)) = Len(s) + 1
         /\ DOMAIN Append(s, x) = 1 .. Len(s) + 1
         /\ Append(s, x)[Len(s) + 1] = x
         /\ \A i \in DOMAIN s : Append(s, x)[i] = s[i]
<1>1. PICK S : s \in Seq(S)
  BY DEF IsSequence
<1>2. s \in Seq(S \cup {x}) /\ Append(s, x) \in Seq(S \cup {x})
      /\ Len(Append(s, x)) = Len(s) + 1
  BY <1>1
<1>3. IsSequence(Append(s, x))
  BY <1>2, AnySequence
<1> QED  BY <1>2, <1>3

LEMMA Joined ==
  ASSUME NEW S, NEW s \in Seq(S), NEW t \in Seq(S)
  PROVE  /\ s \o t \in Seq(S) /\ Len(s) \in Nat /\ Len(t) \in Nat
         /\ DOMAIN s = 1 .. Len(s) /\ DOMAIN t = 1 .. Len(t)
         /\ DOMAIN (s \o t) = 1 .. Len(s) + Len(t)
         /\ \A i \in DOMAIN s : (s \o t)[i] = s[i]
         /\ \A i \in DOMAIN (s \o t) : i \notin DOMAIN s =>
              i - Len(s) \in DOMAIN t /\ (s \o t)[i] = t[i - Len(s)]
<1>1. s \o t \in Seq(S) /\ Len(s \o t) = Len(s) + Len(t)
  OBVIOUS
<1>2. \A i \in 1 .. Len(s) + Len(t) :
        (s \o t)[i] = IF i <= Len(s) THEN s[i] ELSE t[i - Len(s)]
  OBVIOUS
<1> QED  BY <1>1, <1>2

LEMMA Changed ==
  ASSUME NEW s, IsSequence(s), NEW k \in DOMAIN s, NEW x
  PROVE  /\ IsSequence([s EXCEPT ![k] = x]) /\ DOMAIN [s EXCEPT ![k] = x] = DOMAIN s
         /\ \A i \in DOMAIN s : [s EXCEPT ![k] = x][i] = IF i = k THEN x ELSE s[i]
<1>1. PICK S : s \in Seq(S)
  BY DEF IsSequence
<1>2. [s EXCEPT ![k] = x] \in Seq(S \cup {x})
  BY <1>1
<1>3. IsSequence([s EXCEPT ![k] = x])
  BY <1>2, AnySequence
<1> QED  BY <1>1, <1>3

-------------------------------------------------------------------------------
(* The line: one unread packet or one verdict, whatever comes and goes.      *)

Wire == Shapes /\ Packets /\ Verdicts

NoNewVerdict ==
  \A i \in DOMAIN tx' : Verdict(tx'[i]) => i \in DOMAIN tx /\ Verdict(tx[i])

\* A character leaves the line; a '#' may lead to the wait for the checksum.
LEMMA CharTaken ==
  ASSUME Wire, rx # <<>>, rx' = Tail(rx), UNCHANGED <<program, cur, host>>,
         where' = "csum" => where # "csum" /\ Head(rx) = Hash, NoNewVerdict
  PROVE  Packets' /\ Verdicts' /\ (rx \in Seq(Char))'
<1>1. Csums' = Csums /\ Char' = Char /\ \A ch : Closing(ch)' <=> Closing(ch)
  BY DEF Csums, Char, Closing
<1>2. rx \in Seq(Char)
  BY DEF Wire, Shapes
<1>3. IsSequence(rx)
  BY <1>2, AnySequence
<1>4. /\ Len(rx) \in Nat /\ Len(rx) >= 1 /\ DOMAIN rx = 1 .. Len(rx)
      /\ Head(rx) = rx[1] /\ DOMAIN rx' = 1 .. Len(rx) - 1
      /\ \A i \in DOMAIN rx' : i + 1 \in DOMAIN rx /\ rx'[i] = rx[i + 1]
  BY <1>3, Tailed
<1>5. (rx \in Seq(Char))'
  BY <1>1, <1>2
<1>6. Packets'
  <2>1. ASSUME NEW i \in DOMAIN rx', rx'[i] \in Csums
        PROVE  rx'[i] = Csum(cur.p)
    BY <1>4, <2>1 DEF Wire, Packets
  <2>2. ASSUME NEW i \in DOMAIN rx', rx'[i] = Hash
        PROVE  /\ i + 1 \in DOMAIN rx' /\ rx'[i + 1] # Hash
               /\ \A j \in DOMAIN rx' : Closing(rx'[j]) => j = i \/ j = i + 1
    <3>1. i \in Nat /\ i + 1 \in DOMAIN rx /\ rx[i + 1] = Hash
      BY <1>4, <2>2
    <3>2. /\ i + 1 + 1 \in DOMAIN rx /\ rx[i + 1 + 1] # Hash
          /\ \A j \in DOMAIN rx : Closing(rx[j]) => j = i + 1 \/ j = i + 1 + 1
      BY <3>1 DEF Wire, Packets
    <3>3. i + 1 \in DOMAIN rx'
      BY <1>4, <3>1, <3>2
    <3>4. rx'[i + 1] # Hash
      BY <1>4, <3>2, <3>3
    <3>5. ASSUME NEW j \in DOMAIN rx', Closing(rx'[j])
          PROVE  j = i \/ j = i + 1
      <4>1. j \in Nat /\ j + 1 \in DOMAIN rx /\ Closing(rx[j + 1])
        BY <1>4, <3>5
      <4>2. j + 1 = i + 1 \/ j + 1 = i + 1 + 1
        BY <3>2, <4>1
      <4> QED  BY <3>1, <4>1, <4>2
    <3> QED  BY <3>3, <3>4, <3>5
  <2>3. ASSUME where' = "csum"
        PROVE  /\ rx' # <<>> /\ rx'[1] # Hash
               /\ \A j \in DOMAIN rx' : Closing(rx'[j]) => j = 1
    <3>1. rx[1] = Hash /\ 1 \in DOMAIN rx
      BY <1>4, <2>3
    <3>2. /\ 1 + 1 \in DOMAIN rx /\ rx[1 + 1] # Hash
          /\ \A j \in DOMAIN rx : Closing(rx[j]) => j = 1 \/ j = 1 + 1
      BY <3>1 DEF Wire, Packets
    <3>3. 1 \in DOMAIN rx'
      BY <1>4, <3>2
    <3>4. rx' # <<>> /\ rx'[1] # Hash
      <4>1. rx'[1] = rx[1 + 1]
        BY <1>4, <3>3
      <4>2. rx' # <<>>
        BY <3>3
      <4> QED  BY <3>2, <4>1, <4>2
    <3>5. ASSUME NEW j \in DOMAIN rx', Closing(rx'[j])
          PROVE  j = 1
      <4>1. j \in Nat /\ j + 1 \in DOMAIN rx /\ Closing(rx[j + 1]) /\ j >= 1
        BY <1>4, <3>5
      <4>2. j + 1 = 1 \/ j + 1 = 1 + 1
        BY <3>2, <4>1
      <4> QED  BY <4>1, <4>2
    <3> QED  BY <3>4, <3>5
  <2> QED  BY <1>1, <2>1, <2>2, <2>3 DEF Packets
<1>7. Verdicts'
  <2>1. Unread' => Unread
    <3>1. ASSUME where' = "csum"
          PROVE  Closing(rx[1]) /\ 1 \in DOMAIN rx
      BY <1>4, <3>1 DEF Closing
    <3>2. ASSUME NEW i \in DOMAIN rx', Closing(rx'[i])
          PROVE  i + 1 \in DOMAIN rx /\ Closing(rx[i + 1])
      BY <1>4, <3>2
    <3> QED  BY <1>1, <3>1, <3>2 DEF Unread
  <2>2. Unread' => host' = "ack" /\ \A i \in DOMAIN tx' : ~Verdict(tx'[i])
    BY <2>1 DEF Wire, Verdicts, NoNewVerdict
  <2>3. (\E i \in DOMAIN tx' : Verdict(tx'[i])) => host' = "ack"
    BY DEF Wire, Verdicts, NoNewVerdict
  <2>4. \A i, j \in DOMAIN tx' : Verdict(tx'[i]) /\ Verdict(tx'[j]) => i = j
    BY DEF Wire, Verdicts, NoNewVerdict
  <2> QED  BY <2>2, <2>3, <2>4 DEF Verdicts
<1> QED  BY <1>5, <1>6, <1>7

\* The checksum of a packet is taken and a verdict given.
LEMMA VerdictGiven ==
  ASSUME Wire, where = "csum", rx' = Tail(rx), UNCHANGED <<program, cur, host>>,
         where' # "csum", NEW k, \A i \in DOMAIN tx' : Verdict(tx'[i]) => i = k
  PROVE  Packets' /\ Verdicts' /\ (rx \in Seq(Char))'
<1>1. Csums' = Csums /\ Char' = Char /\ \A ch : Closing(ch)' <=> Closing(ch)
  BY DEF Csums, Char, Closing
<1>2. rx \in Seq(Char) /\ rx # <<>>
  BY DEF Wire, Shapes, Packets
<1>3. IsSequence(rx)
  BY <1>2, AnySequence
<1>4. /\ Len(rx) \in Nat /\ DOMAIN rx' = 1 .. Len(rx) - 1
      /\ \A i \in DOMAIN rx' : i + 1 \in DOMAIN rx /\ rx'[i] = rx[i + 1]
  BY <1>2, <1>3, Tailed
<1>5. (rx \in Seq(Char))'
  BY <1>1, <1>2
<1>6. \A i \in DOMAIN rx' : ~Closing(rx'[i])
  <2> SUFFICES ASSUME NEW i \in DOMAIN rx', Closing(rx'[i])
               PROVE  FALSE
    OBVIOUS
  <2>1. i \in Nat /\ i >= 1 /\ i + 1 \in DOMAIN rx /\ Closing(rx[i + 1])
    BY <1>4
  <2>2. i + 1 = 1
    BY <2>1 DEF Wire, Packets
  <2> QED  BY <2>1, <2>2
<1>7. Packets'
  BY <1>1, <1>6 DEF Packets, Closing
<1>8. ~Unread' /\ host' = "ack"
  BY <1>1, <1>6 DEF Unread, Wire, Verdicts
<1> QED  BY <1>5, <1>7, <1>8 DEF Verdicts

\* No character comes or goes; one may be damaged.
LEMMA LineKept ==
  ASSUME Wire, rx' = rx \/ \E k \in DOMAIN rx : rx' = [rx EXCEPT ![k] = Damaged],
         UNCHANGED <<program, cur, host>>, where' = "csum" => where = "csum", NoNewVerdict
  PROVE  Packets' /\ Verdicts' /\ (rx \in Seq(Char))'
<1>1. Csums' = Csums /\ Char' = Char /\ \A ch : Closing(ch)' <=> Closing(ch)
  BY DEF Csums, Char, Closing
<1>2. rx \in Seq(Char) /\ program \in Programs
  BY DEF Wire, Shapes
<1>3. Hash # Damaged /\ ~Closing(Damaged) /\ Damaged \notin Csums
  BY <1>2, Letters DEF Closing
<1>4. /\ DOMAIN rx' = DOMAIN rx /\ rx' \in Seq(Char)
      /\ \A i \in DOMAIN rx : rx'[i] = rx[i] \/ rx'[i] = Damaged
      /\ DOMAIN rx = 1 .. Len(rx) /\ Len(rx) \in Nat /\ (rx # <<>> => 1 \in DOMAIN rx)
  <2>1. Damaged \in Char
    BY DEF Char
  <2>2. CASE rx' = rx
    BY <1>2, <2>2
  <2>3. CASE \E k \in DOMAIN rx : rx' = [rx EXCEPT ![k] = Damaged]
    BY <1>2, <2>1, <2>3
  <2> QED  BY <2>2, <2>3
<1>5. \A i \in DOMAIN rx' : Closing(rx'[i]) => i \in DOMAIN rx /\ rx'[i] = rx[i]
  BY <1>3, <1>4
<1>6. Packets'
  <2>1. ASSUME NEW i \in DOMAIN rx', rx'[i] \in Csums
        PROVE  rx'[i] = Csum(cur.p)
    BY <1>5, <2>1 DEF Wire, Packets, Closing
  <2>2. ASSUME NEW i \in DOMAIN rx', rx'[i] = Hash
        PROVE  /\ i + 1 \in DOMAIN rx' /\ rx'[i + 1] # Hash
               /\ \A j \in DOMAIN rx' : Closing(rx'[j]) => j = i \/ j = i + 1
    <3>1. i \in DOMAIN rx /\ rx[i] = Hash
      BY <1>5, <2>2 DEF Closing
    <3>2. /\ i + 1 \in DOMAIN rx /\ rx[i + 1] # Hash
          /\ \A j \in DOMAIN rx : Closing(rx[j]) => j = i \/ j = i + 1
      BY <3>1 DEF Wire, Packets
    <3>3. i + 1 \in DOMAIN rx' /\ rx'[i + 1] # Hash
      BY <1>3, <1>4, <3>2
    <3> QED  BY <1>5, <3>2, <3>3
  <2>3. ASSUME where' = "csum"
        PROVE  /\ rx' # <<>> /\ rx'[1] # Hash
               /\ \A j \in DOMAIN rx' : Closing(rx'[j]) => j = 1
    <3>1. /\ rx # <<>> /\ rx[1] # Hash
          /\ \A j \in DOMAIN rx : Closing(rx[j]) => j = 1
      BY <2>3 DEF Wire, Packets
    <3>2. 1 \in DOMAIN rx'
      BY <1>4, <3>1
    <3>3. rx' # <<>> /\ rx'[1] # Hash
      BY <1>3, <1>4, <3>1, <3>2
    <3> QED  BY <1>5, <3>1, <3>3
  <2> QED  BY <1>1, <2>1, <2>2, <2>3 DEF Packets
<1>7. Unread' => Unread
  BY <1>1, <1>5 DEF Unread
<1>8. Verdicts'
  <2>2. Unread' => host' = "ack" /\ \A i \in DOMAIN tx' : ~Verdict(tx'[i])
    BY <1>7 DEF Wire, Verdicts, NoNewVerdict
  <2>3. (\E i \in DOMAIN tx' : Verdict(tx'[i])) => host' = "ack"
    BY DEF Wire, Verdicts, NoNewVerdict
  <2>4. \A i, j \in DOMAIN tx' : Verdict(tx'[i]) /\ Verdict(tx'[j]) => i = j
    BY DEF Wire, Verdicts, NoNewVerdict
  <2> QED  BY <2>2, <2>3, <2>4 DEF Verdicts
<1> QED  BY <1>1, <1>4, <1>6, <1>8

\* gdb sends its command, for the first time or again.
LEMMA PacketSent ==
  ASSUME Wire, ~Unread, rx' = rx \o Packet(cur'.p), cur'.p \in program.requests,
         program' = program, where' = where, host' = "ack",
         \A i \in DOMAIN tx' : ~Verdict(tx'[i])
  PROVE  Packets' /\ Verdicts' /\ (rx \in Seq(Char))'
<1>1. Csums' = Csums /\ Char' = Char /\ \A ch : Closing(ch)' <=> Closing(ch)
  BY DEF Csums, Char, Closing
<1>2. rx \in Seq(Char) /\ program \in Programs
  BY DEF Wire, Shapes
<1>3. PICK p : p = cur'.p /\ p \in program.requests
  OBVIOUS
<1>4. /\ ~Closing(p) /\ ~Closing(Dollar) /\ Csum(p) # Hash /\ p # Hash
      /\ Hash \notin Csums /\ Csum(p) \in Csums
  BY <1>2, <1>3, Letters
<1>5. Packet(p) \in Seq(Char)
  <2>1. Dollar \in Char /\ p \in Char /\ Hash \in Char /\ Csum(p) \in Char
    BY <1>3, <1>4 DEF Char
  <2> QED  BY <2>1 DEF Packet
<1>6. /\ DOMAIN Packet(p) = 1 .. 4 /\ Packet(p)[1] = Dollar /\ Packet(p)[2] = p
      /\ Packet(p)[3] = Hash /\ Packet(p)[4] = Csum(p) /\ Len(Packet(p)) = 4
  BY DEF Packet
<1> DEFINE n == Len(rx)
<1>7. /\ rx' \in Seq(Char) /\ n \in Nat /\ DOMAIN rx = 1 .. n /\ DOMAIN rx' = 1 .. n + 4
      /\ \A i \in DOMAIN rx : rx'[i] = rx[i]
      /\ \A i \in DOMAIN rx' : i \notin DOMAIN rx =>
           i - n \in 1 .. 4 /\ rx'[i] = Packet(p)[i - n]
  <2>1. PICK q : q = Packet(p)
    OBVIOUS
  <2>2. rx' = rx \o q /\ q \in Seq(Char) /\ DOMAIN q = 1 .. 4 /\ Len(q) = 4
    BY <1>3, <1>5, <1>6, <2>1
  <2> HIDE DEF n
  <2>3. /\ rx \o q \in Seq(Char) /\ n \in Nat /\ DOMAIN rx = 1 .. n
        /\ DOMAIN (rx \o q) = 1 .. n + Len(q)
        /\ \A i \in DOMAIN rx : (rx \o q)[i] = rx[i]
        /\ \A i \in DOMAIN (rx \o q) : i \notin DOMAIN rx =>
             i - n \in DOMAIN q /\ (rx \o q)[i] = q[i - n]
    <3>1. q \in Seq(Char)
      BY <2>2
    <3> QED  BY <1>2, <3>1, Joined DEF n
  <2> QED  BY <2>1, <2>2, <2>3
<1>8. \A i \in DOMAIN rx : ~Closing(rx[i])
  BY DEF Unread
<1>9. \A i \in DOMAIN rx' : \/ i \in DOMAIN rx /\ ~Closing(rx'[i])
                            \/ i = n + 1 /\ rx'[i] = Dollar
                            \/ i = n + 2 /\ rx'[i] = p
                            \/ i = n + 3 /\ rx'[i] = Hash
                            \/ i = n + 4 /\ rx'[i] = Csum(p)
  <2> SUFFICES ASSUME NEW i \in DOMAIN rx', i \notin DOMAIN rx
               PROVE  \/ i = n + 1 /\ rx'[i] = Dollar
                      \/ i = n + 2 /\ rx'[i] = p
                      \/ i = n + 3 /\ rx'[i] = Hash
                      \/ i = n + 4 /\ rx'[i] = Csum(p)
    BY <1>7, <1>8
  <2>1. i \in Int /\ i - n \in 1 .. 4 /\ rx'[i] = Packet(p)[i - n]
    BY <1>7
  <2>2. i - n = 1 \/ i - n = 2 \/ i - n = 3 \/ i - n = 4
    BY <2>1
  <2> QED  BY <1>6, <1>7, <2>1, <2>2
<1>10. \A i \in DOMAIN rx' : Closing(rx'[i]) =>
          (i = n + 3 /\ rx'[i] = Hash) \/ (i = n + 4 /\ rx'[i] = Csum(p))
  <2> SUFFICES ASSUME NEW i \in DOMAIN rx', Closing(rx'[i])
               PROVE  (i = n + 3 /\ rx'[i] = Hash) \/ (i = n + 4 /\ rx'[i] = Csum(p))
    OBVIOUS
  <2>1. rx'[i] # Dollar /\ rx'[i] # p
    BY <1>4, Zenon
  <2> QED  BY <1>9, <2>1
<1>11. Packets'
  <2>1. ASSUME NEW i \in DOMAIN rx', rx'[i] \in Csums
        PROVE  rx'[i] = Csum(p)
    BY <1>4, <1>10, <2>1 DEF Closing
  <2>2. ASSUME NEW i \in DOMAIN rx', rx'[i] = Hash
        PROVE  /\ i + 1 \in DOMAIN rx' /\ rx'[i + 1] # Hash
               /\ \A j \in DOMAIN rx' : Closing(rx'[j]) => j = i \/ j = i + 1
    <3>1. i = n + 3
      BY <1>4, <1>10, <2>2 DEF Closing
    <3>2. i + 1 = n + 4 /\ n + 4 \in DOMAIN rx'
      BY <1>7, <3>1
    <3>3. rx'[n + 4] # Hash
      <4>1. ASSUME rx'[n + 4] = Hash
            PROVE  FALSE
        <5>1. n + 4 = n + 3 \/ rx'[n + 4] = Csum(p)
          BY <1>10, <3>2, <4>1 DEF Closing
        <5> QED  BY <1>4, <1>7, <4>1, <5>1
      <4> QED  BY <4>1
    <3> QED  BY <1>10, <3>1, <3>2, <3>3
  <2>3. where' # "csum"
    BY DEF Unread
  <2> QED  BY <1>1, <1>3, <2>1, <2>2, <2>3 DEF Packets
<1> QED  BY <1>1, <1>7, <1>11 DEF Verdicts

\* gdb reads an item and sends at most an acknowledge.
LEMMA ItemRead ==
  ASSUME Wire, tx # <<>>, tx' = Tail(tx), NEW ch \in {<<>>, <<Plus>>, <<Minus>>},
         rx' = rx \o ch, UNCHANGED <<program, cur, where>>,
         host' = host \/ Verdict(tx[1]) \/ host # "ack"
  PROVE  Packets' /\ Verdicts' /\ (rx \in Seq(Char))' /\ IsSequence(tx)'
<1>1. Csums' = Csums /\ Char' = Char /\ \A c : Closing(c)' <=> Closing(c)
  BY DEF Csums, Char, Closing
<1>2. rx \in Seq(Char) /\ program \in Programs /\ IsSequence(tx)
  BY DEF Wire, Shapes
<1>3. ~Closing(Plus) /\ ~Closing(Minus)
  BY <1>2, Letters
<1>4. ch \in Seq(Char) /\ \A i \in DOMAIN ch : ~Closing(ch[i])
  <2>1. Plus \in Char /\ Minus \in Char
    BY DEF Char
  <2>2. CASE ch = <<>>
    BY <2>2
  <2>3. CASE ch = <<Plus>>
    BY <1>3, <2>1, <2>3
  <2>4. CASE ch = <<Minus>>
    BY <1>3, <2>1, <2>4
  <2> QED  BY <2>2, <2>3, <2>4
<1>5. /\ rx' \in Seq(Char) /\ DOMAIN rx = 1 .. Len(rx) /\ Len(rx) \in Nat
      /\ DOMAIN rx' = 1 .. Len(rx) + Len(ch) /\ Len(ch) \in Nat
      /\ \A i \in DOMAIN rx : rx'[i] = rx[i]
      /\ \A i \in DOMAIN rx' : i \notin DOMAIN rx =>
           i - Len(rx) \in DOMAIN ch /\ rx'[i] = ch[i - Len(rx)]
  BY <1>2, <1>4, Joined
<1>6. \A i \in DOMAIN rx : i \in DOMAIN rx'
  BY <1>5
<1>7. \A i \in DOMAIN rx' : Closing(rx'[i]) => i \in DOMAIN rx /\ rx'[i] = rx[i]
  BY <1>4, <1>5
<1>8. Packets'
  <2>1. ASSUME NEW i \in DOMAIN rx', rx'[i] \in Csums
        PROVE  rx'[i] = Csum(cur.p)
    BY <1>7, <2>1 DEF Wire, Packets, Closing
  <2>2. ASSUME NEW i \in DOMAIN rx', rx'[i] = Hash
        PROVE  /\ i + 1 \in DOMAIN rx' /\ rx'[i + 1] # Hash
               /\ \A j \in DOMAIN rx' : Closing(rx'[j]) => j = i \/ j = i + 1
    <3>1. i \in DOMAIN rx /\ rx[i] = Hash
      BY <1>7, <2>2 DEF Closing
    <3>2. /\ i + 1 \in DOMAIN rx /\ rx[i + 1] # Hash
          /\ \A j \in DOMAIN rx : Closing(rx[j]) => j = i \/ j = i + 1
      BY <3>1 DEF Wire, Packets
    <3>3. i + 1 \in DOMAIN rx' /\ rx'[i + 1] # Hash
      BY <1>5, <1>6, <3>2
    <3> QED  BY <1>7, <3>2, <3>3
  <2>3. ASSUME where' = "csum"
        PROVE  /\ rx' # <<>> /\ rx'[1] # Hash
               /\ \A j \in DOMAIN rx' : Closing(rx'[j]) => j = 1
    <3>1. /\ rx # <<>> /\ rx[1] # Hash
          /\ \A j \in DOMAIN rx : Closing(rx[j]) => j = 1
      BY <2>3 DEF Wire, Packets
    <3>2. 1 \in DOMAIN rx
      BY <1>2, <3>1
    <3>3. 1 \in DOMAIN rx' /\ rx'[1] # Hash
      BY <1>5, <1>6, <3>1, <3>2
    <3>4. rx' # <<>>
      BY <3>3
    <3> QED  BY <1>7, <3>1, <3>3, <3>4
  <2> QED  BY <1>1, <2>1, <2>2, <2>3 DEF Packets
<1>9. /\ IsSequence(tx') /\ Len(tx) \in Nat /\ Len(tx) >= 1 /\ DOMAIN tx = 1 .. Len(tx)
      /\ DOMAIN tx' = 1 .. Len(tx) - 1
      /\ \A i \in DOMAIN tx' : i + 1 \in DOMAIN tx /\ tx'[i] = tx[i + 1]
  BY <1>2, Tailed
<1>10. Unread' => Unread
  BY <1>1, <1>7 DEF Unread
<1>11. 1 \in DOMAIN tx
  BY <1>9
<1>12. ASSUME Unread'
       PROVE  host' = "ack" /\ \A i \in DOMAIN tx' : ~Verdict(tx'[i])
  <2>1. host = "ack" /\ \A i \in DOMAIN tx : ~Verdict(tx[i])
    BY <1>10, <1>12 DEF Wire, Verdicts
  <2> QED  BY <1>9, <1>11, <2>1
<1>13. ASSUME NEW i \in DOMAIN tx', Verdict(tx'[i])
       PROVE  host' = "ack"
  <2>1. i \in Nat /\ i >= 1 /\ i + 1 \in DOMAIN tx /\ Verdict(tx[i + 1])
    BY <1>9, <1>13
  <2>2. host = "ack"
    BY <2>1 DEF Wire, Verdicts
  <2>3. ~Verdict(tx[1])
    <3>1. ASSUME Verdict(tx[1])
          PROVE  FALSE
      <4>1. i + 1 = 1
        BY <1>11, <2>1, <3>1 DEF Wire, Verdicts
      <4> QED  BY <2>1, <4>1
    <3> QED  BY <3>1
  <2> QED  BY <2>2, <2>3
<1>14. ASSUME NEW i \in DOMAIN tx', NEW j \in DOMAIN tx', Verdict(tx'[i]), Verdict(tx'[j])
       PROVE  i = j
  <2>1. /\ i \in Nat /\ i + 1 \in DOMAIN tx /\ Verdict(tx[i + 1])
        /\ j \in Nat /\ j + 1 \in DOMAIN tx /\ Verdict(tx[j + 1])
    BY <1>9, <1>14
  <2>2. i + 1 = j + 1
    BY <2>1 DEF Wire, Verdicts
  <2> QED  BY <2>1, <2>2
<1>15. Verdicts'
  BY <1>12, <1>13, <1>14 DEF Verdicts
<1> QED  BY <1>1, <1>5, <1>8, <1>9, <1>15

-------------------------------------------------------------------------------
(* The items on the way to gdb.                                              *)

LEMMA FrameAdded ==
  ASSUME IsSequence(tx), NEW m, NEW n, tx' = Append(tx, Frame(m, n))
  PROVE  /\ IsSequence(tx') /\ NoNewVerdict /\ (Accepted' <=> Accepted)
         /\ \A i : Fresh(i)' => \/ Fresh(i) /\ tx'[i] = tx[i]
                                \/ tx'[i].body = m
<1>1. /\ IsSequence(tx') /\ Len(tx) \in Nat /\ DOMAIN tx = 1 .. Len(tx)
      /\ DOMAIN tx' = 1 .. Len(tx) + 1 /\ tx'[Len(tx) + 1] = Frame(m, n)
      /\ \A i \in DOMAIN tx : tx'[i] = tx[i]
  BY Longer
<1>2. Frame(m, n) # Plus /\ ~Verdict(Frame(m, n)) /\ Frame(m, n).body = m
  BY Items DEF Verdict
<1>3. /\ \A i \in DOMAIN tx : i \in DOMAIN tx'
      /\ \A i \in DOMAIN tx' : i \in DOMAIN tx \/ tx'[i] = Frame(m, n)
  BY <1>1
<1>4. NoNewVerdict
  BY <1>1, <1>2, <1>3 DEF NoNewVerdict
<1>5. Accepted' <=> Accepted
  BY <1>1, <1>2, <1>3 DEF Accepted
<1>6. ASSUME NEW i, Fresh(i)'
      PROVE  (Fresh(i) /\ tx'[i] = tx[i]) \/ tx'[i].body = m
  <2>1. CASE i \in DOMAIN tx
    BY <1>1, <1>3, <1>6, <2>1 DEF Fresh
  <2>2. CASE i \notin DOMAIN tx
    BY <1>2, <1>3, <1>6, <2>2 DEF Fresh
  <2> QED  BY <2>1, <2>2
<1> QED  BY <1>1, <1>4, <1>5, <1>6

LEMMA MinusAdded ==
  ASSUME IsSequence(tx), \A i \in DOMAIN tx : ~Verdict(tx[i]), tx' = Append(tx, Minus)
  PROVE  /\ IsSequence(tx') /\ ~Accepted'
         /\ \A i \in DOMAIN tx' : Verdict(tx'[i]) => i = Len(tx) + 1
<1>1. /\ IsSequence(tx') /\ Len(tx) \in Nat /\ DOMAIN tx = 1 .. Len(tx)
      /\ DOMAIN tx' = 1 .. Len(tx) + 1 /\ tx'[Len(tx) + 1] = Minus
      /\ \A i \in DOMAIN tx : tx'[i] = tx[i]
  BY Longer
<1>2. \A i \in DOMAIN tx' : i \in DOMAIN tx \/ i = Len(tx) + 1
  BY <1>1
<1> QED  BY <1>1, <1>2, Items DEF Accepted, Verdict

LEMMA PlusAdded ==
  ASSUME IsSequence(tx), \A i \in DOMAIN tx : ~Verdict(tx[i]), NEW m, NEW n,
         tx' = Append(tx, Plus) \/ tx' = Append(Append(tx, Plus), Frame(m, n))
  PROVE  /\ IsSequence(tx') /\ Accepted'
         /\ \A i \in DOMAIN tx' : Verdict(tx'[i]) => i = Len(tx) + 1
         /\ \A i : Fresh(i)' => tx'[i].body = m
<1> DEFINE k == Len(tx) + 1
<1>1. PICK t : t = Append(tx, Plus)
  OBVIOUS
<1>2. /\ IsSequence(t) /\ Len(tx) \in Nat /\ DOMAIN tx = 1 .. Len(tx) /\ Len(t) = k
      /\ DOMAIN t = 1 .. k /\ t[k] = Plus /\ \A i \in DOMAIN tx : t[i] = tx[i]
  BY <1>1, Longer
<1>3. \A i \in DOMAIN t : i = k \/ (i \in DOMAIN tx /\ i < k)
  BY <1>2
<1>4. /\ Frame(m, n) # Plus /\ ~Verdict(Frame(m, n)) /\ Frame(m, n).body = m
      /\ Verdict(Plus) /\ Plus.c # "frame"
  BY Items DEF Verdict
<1>5. k \in DOMAIN t /\ k \in Nat
  BY <1>2
<1> HIDE DEF k
<1>6. \A i \in DOMAIN t : Verdict(t[i]) => i = k
  BY <1>2, <1>3
<1>7. CASE tx' = t
  <2>1. \A i : ~Fresh(i)'
    BY <1>2, <1>3, <1>4, <1>5, <1>7 DEF Fresh
  <2> QED  BY <1>2, <1>5, <1>6, <1>7, <2>1 DEF Accepted, k
<1>8. CASE tx' = Append(t, Frame(m, n))
  <2>1. /\ IsSequence(tx') /\ DOMAIN tx' = 1 .. Len(t) + 1 /\ tx'[Len(t) + 1] = Frame(m, n)
        /\ \A i \in DOMAIN t : tx'[i] = t[i]
    BY <1>2, <1>8, Longer
  <2>2. /\ \A i \in DOMAIN t : i \in DOMAIN tx'
        /\ \A i \in DOMAIN tx' : i \in DOMAIN t \/ tx'[i] = Frame(m, n)
    BY <1>2, <1>5, <2>1
  <2>3. Accepted'
    BY <1>2, <1>5, <2>1, <2>2 DEF Accepted
  <2>4. \A i \in DOMAIN tx' : Verdict(tx'[i]) => i = k
    BY <1>4, <1>6, <2>1, <2>2
  <2>5. ASSUME NEW i, Fresh(i)'
        PROVE  tx'[i].body = m
    <3>1. i \in DOMAIN tx' /\ tx'[i].c = "frame" /\ (tx'[k] = Plus => k < i)
      BY <1>5, <2>2, <2>5 DEF Fresh
    <3>2. i \notin DOMAIN t
      <4>1. tx'[k] = Plus
        BY <1>2, <1>5, <2>1
      <4>2. k < i
        BY <3>1, <4>1
      <4>3. i # k
        BY <1>4, <3>1, <4>1
      <4>4. CASE i \in DOMAIN t
        <5>1. i < k /\ i \in Nat
          BY <1>2, <1>3, <4>3, <4>4
        <5> QED  BY <1>5, <4>2, <5>1
      <4> QED  BY <4>4
    <3> QED  BY <1>4, <2>2, <3>1, <3>2
  <2> QED  BY <2>1, <2>3, <2>4, <2>5 DEF k
<1> QED  BY <1>1, <1>7, <1>8

LEMMA ItemGone ==
  ASSUME IsSequence(tx), tx # <<>>, tx' = Tail(tx)
  PROVE  /\ tx[1] # Plus => (Accepted' <=> Accepted)
         /\ \A i : Fresh(i)' => Fresh(i + 1) /\ tx'[i] = tx[i + 1]
<1>1. /\ Len(tx) \in Nat /\ Len(tx) >= 1 /\ DOMAIN tx = 1 .. Len(tx)
      /\ DOMAIN tx' = 1 .. Len(tx) - 1
      /\ \A i \in DOMAIN tx' : i + 1 \in DOMAIN tx /\ tx'[i] = tx[i + 1]
  BY Tailed
<1>2. \A i \in DOMAIN tx : i \in Nat /\ (i = 1 \/ (i - 1 \in DOMAIN tx' /\ tx'[i - 1] = tx[i]))
  <2>1. \A i \in DOMAIN tx : i = 1 \/ (i - 1 \in DOMAIN tx' /\ i - 1 + 1 = i)
    BY <1>1
  <2> QED  BY <1>1, <2>1
<1>3. \A i \in DOMAIN tx' : i \in Nat /\ i >= 1
  BY <1>1
<1>4. tx[1] # Plus => (Accepted' <=> Accepted)
  <2>1. Accepted' => Accepted
    BY <1>1 DEF Accepted
  <2>2. ASSUME tx[1] # Plus, NEW i \in DOMAIN tx, tx[i] = Plus
        PROVE  i - 1 \in DOMAIN tx' /\ tx'[i - 1] = Plus
    BY <1>2, <2>2
  <2> QED  BY <2>1, <2>2 DEF Accepted
<1>5. ASSUME NEW i, Fresh(i)'
      PROVE  Fresh(i + 1) /\ tx'[i] = tx[i + 1]
  <2>1. /\ i \in DOMAIN tx' /\ tx'[i].c = "frame" /\ \A j \in DOMAIN tx' : tx'[j] = Plus => j < i
        /\ i + 1 \in DOMAIN tx /\ tx'[i] = tx[i + 1]
    BY <1>1, <1>5 DEF Fresh
  <2>2. ASSUME NEW j \in DOMAIN tx, tx[j] = Plus
        PROVE  j < i + 1
    <3>1. CASE j = 1
      BY <1>3, <2>1, <3>1
    <3>2. CASE j # 1
      <4>1. j \in Nat /\ j - 1 \in DOMAIN tx' /\ tx'[j - 1] = Plus
        BY <1>2, <2>2, <3>2
      <4>2. j - 1 < i
        BY <2>1, <4>1
      <4> QED  BY <1>3, <2>1, <4>1, <4>2
    <3> QED  BY <3>1, <3>2
  <2> QED  BY <2>1, <2>2 DEF Fresh
<1> QED  BY <1>4, <1>5

LEMMA ItemDamaged ==
  ASSUME IsSequence(tx), NEW k \in DOMAIN tx, tx[k] # Plus, tx' = [tx EXCEPT ![k] = Damaged]
  PROVE  /\ IsSequence(tx') /\ NoNewVerdict /\ (Accepted' <=> Accepted)
         /\ \A i : Fresh(i)' => Fresh(i) /\ tx'[i] = tx[i]
<1>1. /\ IsSequence(tx') /\ DOMAIN tx' = DOMAIN tx
      /\ \A i \in DOMAIN tx : tx'[i] = IF i = k THEN Damaged ELSE tx[i]
  BY Changed
<1>2. Damaged # Plus /\ ~Verdict(Damaged) /\ Damaged.c # "frame"
  BY Items DEF Verdict
<1>3. NoNewVerdict
  BY <1>1, <1>2 DEF NoNewVerdict
<1>4. Accepted' <=> Accepted
  BY <1>1, <1>2 DEF Accepted
<1>5. \A i : Fresh(i)' => Fresh(i) /\ tx'[i] = tx[i]
  BY <1>1, <1>2 DEF Fresh
<1> QED  BY <1>1, <1>3, <1>4, <1>5

-------------------------------------------------------------------------------
(* gdb and the stub: whose turn it is.                                       *)

LEMMA RunsKept ==
  ASSUME Runs, UNCHANGED <<where, after, plan, rf>>,
         \A i : Fresh(i)' => \E k : Fresh(k) /\ tx'[i] = tx[k]
  PROVE  Runs'
<1>1. ASSUME NEW i \in DOMAIN tx', Fresh(i)'
      PROVE  /\ tx'[i].body.kind = "T" =>
                  /\ where # "app" /\ (where = "ack" => after = "monitor")
                  /\ DOMAIN tx'[i].body.v = RegisterIds /\ tx'[i].body.v["pc"] = rf.pc
             /\ tx'[i].body.kind = "file" => where \notin {"app", "ack"} /\ plan = AnyNumber
  <2>1. PICK k : Fresh(k) /\ tx'[i] = tx[k]
    BY <1>1
  <2>2. k \in DOMAIN tx
    BY <2>1 DEF Fresh
  <2> QED  BY <2>1, <2>2 DEF Runs
<1> QED  BY <1>1 DEF Runs

\* gdb does nothing, and the stub nothing that gdb could tell.
LEMMA PhasesKept ==
  ASSUME Phases, UNCHANGED <<host, cur, known, program, rf, plan>>, Accepted' <=> Accepted,
         Served => Served', Runs => Runs'
  PROVE  Phases'
<1>1. Asked => Asked'
  BY DEF Asked
<1>2. Answers => Answers'
  BY DEF Answers
<1> QED  BY <1>1, <1>2 DEF Phases

\* The application makes a step.
LEMMA PhasesOfApp ==
  ASSUME Phases, where = "app", UNCHANGED <<host, cur, program>>, Accepted' <=> Accepted,
         Runs => Runs'
  PROVE  Phases'
<1>1. ~Served /\ ~Asked /\ ~Answers
  BY DEF Served, Asked, Answers
<1> QED  BY <1>1 DEF Phases

LEMMA Commands ==
  ASSUME NEW p, Command(p)
  PROVE  \/ p.cmd = "s" /\ Step(p)
         \/ p.cmd = "c" /\ Continue(p)
         \/ p.cmd = "F" /\ FileResult(p)
         \/ p.cmd \in {"k", "D"} /\ Answer(OK, data, rf, "reset")
         \/ Plain(p) /\ \E m, mem : Answer(m, mem, Effect(p, rf), "loop") /\ m.kind \notin {"T", "file"}
<1>1. /\ OK.kind \notin {"T", "file"} /\ Empty.kind \notin {"T", "file"}
      /\ \A mem, a, n : ReadMemory(mem, a, n).kind \notin {"T", "file"}
      /\ \A regs : ReadRegisters(regs).kind \notin {"T", "file"}
      /\ \A n : LastSignal(n).kind \notin {"T", "file"}
  BY DEF OK, Empty, ReadMemory, ReadRegisters, LastSignal
<1>2. CASE p.cmd = "s"
  BY <1>2 DEF Command
<1>3. CASE p.cmd = "c"
  BY <1>3 DEF Command
<1>4. CASE p.cmd = "F"
  BY <1>4 DEF Command
<1>5. CASE p.cmd \in {"k", "D"}
  BY <1>5 DEF Command
<1>6. CASE p.cmd \notin {"s", "c", "F", "k", "D"}
  <2>1. Plain(p)
    BY <1>6 DEF Plain
  <2>2. \E m, mem : Answer(m, mem, Effect(p, rf), "loop") /\ m.kind \notin {"T", "file"}
    <3>1. CASE p.cmd = "m"
      <4>1. Answer(ReadMemory(data, p.arg, p.len), data, Effect(p, rf), "loop")
        BY <3>1 DEF Command, Effect
      <4> QED  BY <1>1, <4>1
    <3>2. CASE p.cmd = "M"
      <4>1. Answer(OK, HexToMem(data, p.arg, p.len, p.d), Effect(p, rf), "loop")
        BY <3>2 DEF Command, Effect
      <4> QED  BY <1>1, <4>1
    <3>3. CASE p.cmd = "X"
      <4>1. Answer(OK, XToMem(data, p.arg, p.len, p.d), Effect(p, rf), "loop")
        BY <3>3 DEF Command, Effect
      <4> QED  BY <1>1, <4>1
    <3>4. CASE p.cmd = "g"
      <4>1. Answer(ReadRegisters(rf), data, Effect(p, rf), "loop")
        BY <3>4 DEF Command, Effect
      <4> QED  BY <1>1, <4>1
    <3>5. CASE p.cmd \in {"P", "G", "H"}
      <4>1. Answer(OK, data, Effect(p, rf), "loop")
        BY <3>5 DEF Command, Effect
      <4> QED  BY <1>1, <4>1
    <3>6. CASE p.cmd = "?"
      <4>1. Answer(LastSignal(sigval), data, Effect(p, rf), "loop")
        BY <3>6 DEF Command, Effect
      <4> QED  BY <1>1, <4>1
    <3>7. CASE p.cmd \notin {"m", "M", "X", "g", "P", "G", "H", "?"}
      <4>1. Answer(Empty, data, Effect(p, rf), "loop")
        BY <1>6, <3>7 DEF Command, Effect
      <4> QED  BY <1>1, <4>1
    <3> QED  BY <3>1, <3>2, <3>3, <3>4, <3>5, <3>6, <3>7
  <2> QED  BY <2>1, <2>2
<1> QED  BY <1>2, <1>3, <1>4, <1>5, <1>6

\* What a command does to gdb's registers it does to the stub's.
LEMMA SameEffect ==
  ASSUME Shapes, NEW p \in program.requests, known.pc = rf.pc,
         known' = CASE p.cmd = "P" -> [known EXCEPT ![p.arg] = p.d]
                    [] p.cmd = "G" -> p.d
                    [] OTHER       -> known
  PROVE  known'.pc = Effect(p, rf).pc /\ DOMAIN known' = RegisterIds
<1>1. DOMAIN rf = RegisterIds /\ DOMAIN known = RegisterIds /\ "pc" \in RegisterIds
  BY DEF Shapes, RegisterIds
<1>2. p.cmd = "G" => DOMAIN p.d = RegisterIds
  BY ProgramsAssumption DEF Shapes
<1>3. CASE p.cmd = "P"
  <2>1. known' = [known EXCEPT ![p.arg] = p.d] /\ Effect(p, rf) = [rf EXCEPT ![p.arg] = p.d]
    BY <1>3 DEF Effect, WriteRegister, Poke
  <2> QED  BY <1>1, <2>1
<1>4. CASE p.cmd = "G"
  <2>1. known' = p.d /\ Effect(p, rf) = WriteRegisters(rf, p.d)
    BY <1>4 DEF Effect
  <2>2. WriteRegisters(rf, p.d)["pc"] = p.d["pc"]
    BY <1>1, <1>2, <1>4 DEF WriteRegisters
  <2> QED  BY <1>2, <1>4, <2>1, <2>2
<1>5. CASE p.cmd \notin {"P", "G"}
  BY <1>1, <1>5 DEF Effect
<1> QED  BY <1>3, <1>4, <1>5

LEMMA EffectShape ==
  ASSUME NEW p, NEW regs, DOMAIN regs = RegisterIds
  PROVE  DOMAIN Effect(p, regs) = RegisterIds
<1>1. CASE p.cmd = "P"
  BY <1>1 DEF Effect, WriteRegister, Poke
<1>2. CASE p.cmd = "G"
  BY <1>2 DEF Effect, WriteRegisters
<1>3. CASE p.cmd \notin {"P", "G"}
  BY <1>3 DEF Effect
<1> QED  BY <1>1, <1>2, <1>3

-------------------------------------------------------------------------------
(* The stub's steps on the line.                                             *)

LEMMA SendAgainHolds ==
  ASSUME IInv, SendAgain
  PROVE  IInv'
<1>1. /\ where = "ack" /\ rx # <<>> /\ rx' = Tail(rx)
      /\ tx' = Append(tx, Frame(reply, SumOf(reply, sum)))
      /\ UNCHANGED <<where, reply, after, rf, stepped, cpu, code, host, cur, known, nmis,
                     program, ran, plan>>
  BY DEF SendAgain, target, gdbVars
<1>2. Wire /\ IsSequence(tx)
  BY DEF IInv, Wire, Shapes
<1>3. /\ IsSequence(tx') /\ NoNewVerdict /\ (Accepted' <=> Accepted)
      /\ \A i : Fresh(i)' => (Fresh(i) /\ tx'[i] = tx[i]) \/ tx'[i].body = reply
  BY <1>1, <1>2, FrameAdded
<1>4. Packets' /\ Verdicts' /\ (rx \in Seq(Char))'
  BY <1>1, <1>2, <1>3, CharTaken
<1>5. Shapes'
  BY <1>1, <1>3, <1>4 DEF IInv, Shapes
<1>6. Phases'
  <2>1. Served => Served'
    BY <1>1 DEF Served
  <2>2. ASSUME Runs
        PROVE  Runs'
    <3>1. ASSUME NEW i \in DOMAIN tx', Fresh(i)'
          PROVE  /\ tx'[i].body.kind = "T" =>
                      /\ where # "app" /\ (where = "ack" => after = "monitor")
                      /\ DOMAIN tx'[i].body.v = RegisterIds /\ tx'[i].body.v["pc"] = rf.pc
                 /\ tx'[i].body.kind = "file" => where \notin {"app", "ack"} /\ plan = AnyNumber
      <4>1. CASE Fresh(i) /\ tx'[i] = tx[i]
        BY <2>2, <4>1 DEF Runs, Fresh
      <4>2. CASE tx'[i].body = reply
        BY <1>1, <4>2 DEF IInv, Sending
      <4> QED  BY <1>3, <3>1, <4>1, <4>2
    <3> QED  BY <1>1, <2>2, <3>1 DEF Runs
  <2> QED  BY <1>1, <1>3, <2>1, <2>2, PhasesKept DEF IInv
<1>7. Sending'
  BY <1>1 DEF IInv, Sending
<1>8. Memories'
  BY <1>1 DEF IInv, Memories, Untouched
<1> QED  BY <1>4, <1>5, <1>6, <1>7, <1>8 DEF IInv

LEMMA AckedHolds ==
  ASSUME IInv, Acked
  PROVE  IInv'
<1>1. /\ where = "ack" /\ rx # <<>> /\ rx' = Tail(rx)
      /\ UNCHANGED <<tx, reply, after, host, cur, known, nmis, program, ran, plan>>
  BY DEF Acked, gdbVars
<1>2. after \in {"monitor", "loop", "reset", "return"}
  BY <1>1 DEF IInv, Sending
<1>3. /\ where' = (IF after \in {"monitor", "loop"} THEN "hunt" ELSE "app")
      /\ rf' = rf
      /\ after = "monitor" => code' = MonitorOnEntry(rf, code, stepped) /\ stepped' = NoOpcode
      /\ after # "monitor" => code' = code /\ stepped' = stepped
      /\ cpu' = (IF after = "reset" THEN RomStart ELSE cpu)
  BY <1>2 DEF Acked, EnterMonitor
<1>4. Wire /\ NoNewVerdict /\ (Accepted' <=> Accepted)
  BY <1>1 DEF IInv, Wire, NoNewVerdict, Accepted
<1>5. Packets' /\ Verdicts' /\ (rx \in Seq(Char))'
  BY <1>1, <1>3, <1>4, CharTaken
<1>6. Shapes'
  <2>1. DOMAIN RomStart = RegisterIds
    BY DEF RomStart, RegisterIds
  <2> QED  BY <1>1, <1>3, <1>5, <2>1 DEF IInv, Shapes
<1>7. Phases'
  <2>1. Served => Served'
    BY <1>1, <1>3 DEF Served
  <2>2. ASSUME Runs
        PROVE  Runs'
    <3>1. \A i : Fresh(i)' => Fresh(i)
      BY <1>1 DEF Fresh
    <3>2. ASSUME NEW i \in DOMAIN tx, Fresh(i)
          PROVE  /\ tx[i].body.kind = "T" =>
                      /\ where' # "app" /\ where' # "ack"
                      /\ DOMAIN tx[i].body.v = RegisterIds /\ tx[i].body.v["pc"] = rf.pc
                 /\ tx[i].body.kind # "file"
      BY <1>1, <1>3, <2>2, <3>2 DEF Runs
    <3>3. where' # "ack"
      BY <1>3
    <3> QED  BY <1>1, <1>3, <3>1, <3>2, <3>3 DEF Runs
  <2> QED  BY <1>1, <1>3, <1>4, <2>1, <2>2, PhasesKept DEF IInv
<1>8. Sending'
  BY <1>3 DEF Sending
<1>9. Memories'
  <2>1. CASE after = "monitor"
    BY <1>1, <1>3, <2>1 DEF IInv, Memories, Untouched
  <2>2. CASE after # "monitor"
    <3>1. Untouched /\ Untouched' /\ (after \in {"reset", "return"} => plan = AnyNumber)
      BY <1>1, <1>3, <2>2 DEF IInv, Memories, Untouched, Sending
    <3> QED  BY <1>1, <1>2, <1>3, <2>2, <3>1 DEF Memories
  <2> QED  BY <2>1, <2>2
<1> QED  BY <1>5, <1>6, <1>7, <1>8, <1>9 DEF IInv

LEMMA GetCharHolds ==
  ASSUME IInv, GetChar
  PROVE  IInv'
<1>1. /\ where \in {"hunt", "data"} /\ rx # <<>> /\ rx' = Tail(rx)
      /\ where' \in {"hunt", "data", "csum"} /\ (where' = "csum" => Head(rx) = Hash)
      /\ UNCHANGED <<tx, reply, after, rf, stepped, cpu, code, host, cur, known, nmis,
                     program, ran, plan>>
  BY DEF GetChar, target, gdbVars
<1>2. Wire /\ NoNewVerdict /\ (Accepted' <=> Accepted)
  BY <1>1 DEF IInv, Wire, NoNewVerdict, Accepted
<1>3. Packets' /\ Verdicts' /\ (rx \in Seq(Char))'
  BY <1>1, <1>2, CharTaken
<1>4. Shapes'
  BY <1>1, <1>3 DEF IInv, Shapes
<1>5. Phases'
  <2>1. Served => Served'
    BY <1>1 DEF Served
  <2>2. Runs => Runs'
    BY <1>1 DEF Runs, Fresh
  <2> QED  BY <1>1, <1>2, <2>1, <2>2, PhasesKept DEF IInv
<1>6. Sending'
  BY <1>1 DEF Sending
<1>7. Memories'
  BY <1>1 DEF IInv, Memories, Untouched
<1> QED  BY <1>3, <1>4, <1>5, <1>6, <1>7 DEF IInv

LEMMA RejectHolds ==
  ASSUME IInv, Reject
  PROVE  IInv'
<1>1. /\ where = "csum" /\ rx' = Tail(rx) /\ tx' = Append(tx, Minus) /\ where' = "hunt"
      /\ UNCHANGED <<reply, after, rf, stepped, cpu, code, host, cur, known, nmis,
                     program, ran, plan>>
  BY DEF Reject, target, gdbVars
<1>2. Wire /\ IsSequence(tx)
  BY DEF IInv, Wire, Shapes
<1>3. host = "ack" /\ \A i \in DOMAIN tx : ~Verdict(tx[i])
  BY <1>1 DEF IInv, Verdicts, Unread
<1>4. /\ IsSequence(tx') /\ ~Accepted'
      /\ \A i \in DOMAIN tx' : Verdict(tx'[i]) => i = Len(tx) + 1
  BY <1>1, <1>2, <1>3, MinusAdded
<1>5. Packets' /\ Verdicts' /\ (rx \in Seq(Char))'
  BY <1>1, <1>2, <1>4, VerdictGiven
<1>6. Shapes'
  BY <1>1, <1>4, <1>5 DEF IInv, Shapes
<1>7. Phases'
  <2>1. ~Accepted
    BY <1>3 DEF Accepted, Verdict
  <2>2. Served'
    BY <1>1 DEF Served
  <2>3. Asked
    BY <1>3, <2>1 DEF IInv, Phases
  <2>4. Asked'
    BY <1>1, <2>2, <2>3 DEF Asked
  <2> QED  BY <1>1, <1>3, <1>4, <2>4 DEF IInv, Phases
<1>8. Sending'
  BY <1>1 DEF Sending
<1>9. Memories'
  BY <1>1 DEF IInv, Memories, Untouched
<1> QED  BY <1>5, <1>6, <1>7, <1>8, <1>9 DEF IInv

-------------------------------------------------------------------------------
(* A command is carried out.                                                 *)

\* The application does not leave its memory.  What a fetch from elsewhere gives is
\* no part of the model.
InProgram == where = "app" => cpu.pc \in DOMAIN program.code

LEMMA Opcodes ==
  ASSUME Shapes, NEW a \in DOMAIN program.code
  PROVE  a \in Int /\ FieldOf(program.code[a]) /\ program.code[a] # NoOpcode
BY ProgramsAssumption DEF Shapes

LEMMA CodeShape ==
  ASSUME Shapes
  PROVE  program.code = [a \in DOMAIN program.code |-> program.code[a]]
BY ProgramsAssumption DEF Shapes

\* gdb_step: the trap is planted where the instruction leads.
LEMMA StepPlants ==
  ASSUME Shapes, Untouched, InProgram', NEW p, Step(p), program' = program,
         Trap(program.code[IF p.arg = 0 THEN rf.pc ELSE p.arg]) \notin 32 .. 34,
         ran' = 0,
         plan' = IF Target(At(p.arg), code[At(p.arg).pc], Vectors) = At(p.arg).pc THEN 0 ELSE 1
  PROVE  Arrived' \/ Underway'
<1>1. PICK regs : regs = At(p.arg)
  OBVIOUS
<1>2. PICK d : d = GetStepiDest(regs, code, Vectors)
  OBVIOUS
<1>3. /\ cpu' = regs /\ where' = "app" /\ code = program.code
      /\ code' = [code EXCEPT ![d] = STEP_OPCODE] /\ stepped' = code[d]
  BY <1>1, <1>2 DEF Step, Resume, Planted, Untouched
<1>4. regs.pc = IF p.arg = 0 THEN rf.pc ELSE p.arg
  BY <1>1 DEF At, Shapes, RegisterIds
<1>5. regs.pc \in DOMAIN program.code
  BY <1>3 DEF InProgram
<1>6. FieldOf(code[regs.pc])
  BY <1>3, <1>5, Opcodes
<1>7. d = Target(regs, code[regs.pc], Vectors)
  BY <1>2, <1>6, StepTargetIsRight
<1>8. Trap(program.code[regs.pc]) \notin 32 .. 34
  BY <1>4
<1>9. plan' = IF d = regs.pc THEN 0 ELSE 1
  BY <1>1, <1>7
<1>10. CASE d = regs.pc
  BY <1>3, <1>9, <1>10 DEF Arrived, Planting
<1>11. CASE d # regs.pc
  BY <1>3, <1>7, <1>8, <1>9, <1>11 DEF Underway, Planting
<1> QED  BY <1>10, <1>11

LEMMA AcceptHolds ==
  ASSUME IInv, Accept, InProgram'
  PROVE  IInv'
<1>1. /\ where = "csum" /\ rx # <<>> /\ CsumMatches(Head(rx)) /\ rx' = Tail(rx)
      /\ UNCHANGED <<host, cur, known, nmis, program>>
  BY DEF Accept, gdbVars
<1>2. Wire /\ IsSequence(tx) /\ Shapes
  BY DEF IInv, Wire, Shapes
<1>3. host = "ack" /\ \A i \in DOMAIN tx : ~Verdict(tx[i])
  BY <1>1 DEF IInv, Verdicts, Unread
<1>4. ~Accepted
  BY <1>3 DEF Accepted, Verdict
<1>5. Asked /\ cur.p \in program.requests /\ cur.back \in {"idle", "sys"}
  BY <1>3, <1>4 DEF IInv, Phases
<1>6. PICK p : p = cur.p
  OBVIOUS
<1>7. rxbuf[1] = p
  <2>1. Head(rx) = Csum(rxbuf[1])
    BY <1>1 DEF CsumMatches
  <2>2. rx \in Seq(Char) /\ program \in Programs
    BY DEF IInv, Shapes
  <2>3. Head(rx) = rx[1] /\ 1 \in DOMAIN rx /\ rx[1] \in Char
    BY <1>1, <2>2
  <2>4. rx[1] \in Csums
    <3>1. rx[1].c = "csum" /\ "c" \in DOMAIN rx[1]
      BY <2>1, <2>3 DEF Csum
    <3>2. rx[1] \notin {Damaged, Dollar, Hash, Plus, Minus}
      <4>1. Plus.c = "+" /\ Minus.c = "-" /\ Damaged.c = "?" /\ Dollar.c = "$" /\ Hash.c = "#"
        BY DEF Plus, Minus, Damaged, Dollar, Hash
      <4> QED  BY <3>1, <4>1
    <3>3. rx[1] \notin program.requests
      BY <2>2, <3>1, ProgramsAssumption
    <3> QED  BY <2>3, <3>2, <3>3 DEF Char
  <2>5. rx[1] = Csum(cur.p)
    BY <2>3, <2>4 DEF IInv, Packets
  <2> QED  BY <1>6, <2>1, <2>2, <2>3, <2>5, Letters
<1>8. /\ Command(p)
      /\ ran' = IF p.cmd = "s" THEN 0 ELSE ran
      /\ p.cmd = "s" => plan' = IF Target(At(p.arg), code[At(p.arg).pc], Vectors) = At(p.arg).pc
                                THEN 0 ELSE 1
      /\ p.cmd \in {"c", "k", "D"} => plan' = AnyNumber
      /\ p.cmd \notin {"s", "c", "k", "D"} => plan' = plan
  BY <1>7 DEF Accept
<1>9. Untouched
  BY <1>1 DEF IInv, Memories
<1>10. p.cmd = "F" => cur.back = "sys" /\ plan = AnyNumber
  BY <1>5, <1>6 DEF Asked
<1>11. \/ p.cmd = "s" /\ Step(p)
       \/ p.cmd = "c" /\ Continue(p)
       \/ p.cmd = "F" /\ FileResult(p)
       \/ p.cmd \in {"k", "D"} /\ Answer(OK, data, rf, "reset")
       \/ Plain(p) /\ \E m, mem : Answer(m, mem, Effect(p, rf), "loop") /\ m.kind \notin {"T", "file"}
  BY <1>8, Commands
\* The command is an answer, or the application goes on.
<1>12. \/ \E m, n, mem, regs, a :
            /\ tx' = Append(Append(tx, Plus), Frame(m, n)) /\ m.kind \notin {"T", "file"}
            /\ where' = "ack" /\ after' = a /\ reply' = m /\ rf' = regs
            /\ UNCHANGED <<stepped, cpu, code>>
            /\ \/ a = "loop" /\ Plain(p) /\ regs = Effect(p, rf)
               \/ a \in {"reset", "return"} /\ ~Plain(p) /\ regs = rf /\ plan' = AnyNumber
       \/ /\ tx' = Append(tx, Plus) /\ where' = "app" /\ ~Plain(p)
          /\ DOMAIN rf' = RegisterIds /\ DOMAIN cpu' = RegisterIds
          /\ (Untouched' /\ plan' = AnyNumber) \/ Arrived' \/ Underway'
  <2>1. OK.kind \notin {"T", "file"}
    BY DEF OK
  <2>2. ASSUME NEW m, NEW mem, NEW regs, NEW a, Answer(m, mem, regs, a)
        PROVE  /\ tx' = Append(Append(tx, Plus), Frame(m, SumOf(m, 0)))
               /\ where' = "ack" /\ after' = a /\ reply' = m /\ rf' = regs
               /\ UNCHANGED <<stepped, cpu, code>>
    BY <2>2 DEF Answer, StartMessage
  <2>3. DOMAIN rf = RegisterIds /\ DOMAIN cpu = RegisterIds /\ DOMAIN At(p.arg) = RegisterIds
    BY <1>2 DEF Shapes, At
  <2>4. CASE p.cmd = "s" /\ Step(p)
    <3>1. tx' = Append(tx, Plus) /\ where' = "app" /\ rf' = At(p.arg) /\ cpu' = At(p.arg)
      BY <2>4 DEF Step, Resume
    <3>2. Trap(program.code[IF p.arg = 0 THEN rf.pc ELSE p.arg]) \notin 32 .. 34
      <4>1. cur.back = "idle"
        BY <1>5, <1>6, <2>4 DEF Asked
      <4>2. known.pc = rf.pc
        BY <1>5, <1>6, <2>4, <4>1 DEF Asked, Effect
      <4> QED  BY <1>5, <1>6, <2>4, <4>1, <4>2 DEF Asked
    <3>3. Arrived' \/ Underway'
      BY <1>1, <1>2, <1>8, <1>9, <2>4, <3>2, StepPlants
    <3> QED  BY <2>3, <2>4, <3>1, <3>3 DEF Plain
  <2>5. CASE p.cmd = "c" /\ Continue(p)
    <3>1. /\ tx' = Append(tx, Plus) /\ where' = "app" /\ rf' = At(p.arg) /\ cpu' = At(p.arg)
          /\ code' = code /\ stepped' = stepped
      BY <2>5 DEF Continue, Resume
    <3> QED  BY <1>1, <1>8, <1>9, <2>3, <2>5, <3>1 DEF Plain, Untouched
  <2>6. CASE p.cmd = "F" /\ FileResult(p)
    <3>1. CASE where' = "app" /\ tx' = Append(tx, Plus) /\ UNCHANGED <<reply, sum, after, target>>
      BY <1>1, <1>8, <1>9, <1>10, <2>3, <2>6, <3>1 DEF Plain, Untouched, target
    <3>2. CASE Answer(OK, data, rf, "return")
      BY <1>8, <1>10, <2>1, <2>2, <2>6, <3>2 DEF Plain
    <3> QED  BY <2>6, <3>1, <3>2 DEF FileResult
  <2>7. CASE p.cmd \in {"k", "D"} /\ Answer(OK, data, rf, "reset")
    BY <1>8, <2>1, <2>2, <2>7 DEF Plain
  <2>8. CASE Plain(p) /\ \E m, mem : Answer(m, mem, Effect(p, rf), "loop")
                                     /\ m.kind \notin {"T", "file"}
    <3>1. PICK m, mem : Answer(m, mem, Effect(p, rf), "loop") /\ m.kind \notin {"T", "file"}
      BY <2>8
    <3> QED  BY <2>2, <2>8, <3>1
  <2> QED  BY <1>11, <2>4, <2>5, <2>6, <2>7, <2>8
<1>13. CASE /\ tx' = Append(tx, Plus) /\ where' = "app" /\ ~Plain(p)
            /\ DOMAIN rf' = RegisterIds /\ DOMAIN cpu' = RegisterIds
            /\ (Untouched' /\ plan' = AnyNumber) \/ Arrived' \/ Underway'
  <2>1. /\ IsSequence(tx') /\ Accepted'
        /\ \A i \in DOMAIN tx' : Verdict(tx'[i]) => i = Len(tx) + 1
        /\ \A i : Fresh(i)' => tx'[i].body = OK
    BY <1>2, <1>3, <1>13, PlusAdded
  <2>2. Packets' /\ Verdicts' /\ (rx \in Seq(Char))'
    BY <1>1, <1>2, <1>13, <2>1, VerdictGiven
  <2>3. Shapes'
    BY <1>1, <1>13, <2>1, <2>2 DEF IInv, Shapes
  <2>4. Runs'
    <3>1. OK.kind # "T" /\ OK.kind # "file"
      BY DEF OK
    <3> QED  BY <1>13, <2>1, <3>1 DEF Runs
  <2>5. Phases'
    BY <1>1, <1>3, <1>5, <1>6, <1>13, <2>1, <2>4 DEF Phases, Plain
  <2>6. Sending'
    BY <1>13 DEF Sending
  <2>7. Memories'
    BY <1>13 DEF Memories
  <2> QED  BY <2>2, <2>3, <2>5, <2>6, <2>7 DEF IInv
<1>14. CASE \E m, n, mem, regs, a :
              /\ tx' = Append(Append(tx, Plus), Frame(m, n)) /\ m.kind \notin {"T", "file"}
              /\ where' = "ack" /\ after' = a /\ reply' = m /\ rf' = regs
              /\ UNCHANGED <<stepped, cpu, code>>
              /\ \/ a = "loop" /\ Plain(p) /\ regs = Effect(p, rf)
                 \/ a \in {"reset", "return"} /\ ~Plain(p) /\ regs = rf /\ plan' = AnyNumber
  <2>1. PICK m, n :
              /\ tx' = Append(Append(tx, Plus), Frame(m, n)) /\ m.kind \notin {"T", "file"}
              /\ where' = "ack" /\ reply' = m
              /\ UNCHANGED <<stepped, cpu, code>>
              /\ \/ after' = "loop" /\ Plain(p) /\ rf' = Effect(p, rf)
                 \/ after' \in {"reset", "return"} /\ ~Plain(p) /\ rf' = rf /\ plan' = AnyNumber
    BY <1>14
  <2>2. /\ IsSequence(tx') /\ Accepted'
        /\ \A i \in DOMAIN tx' : Verdict(tx'[i]) => i = Len(tx) + 1
        /\ \A i : Fresh(i)' => tx'[i].body = m
    BY <1>2, <1>3, <2>1, PlusAdded
  <2>3. Packets' /\ Verdicts' /\ (rx \in Seq(Char))'
    BY <1>1, <1>2, <2>1, <2>2, VerdictGiven
  <2>4. DOMAIN rf' = RegisterIds
    BY <1>2, <2>1, EffectShape DEF Shapes
  <2>5. Shapes'
    BY <1>1, <2>1, <2>2, <2>3, <2>4 DEF IInv, Shapes
  <2>6. ASSUME after' = "loop", Plain(p), rf' = Effect(p, rf)
        PROVE  Phases'
    <3>1. Answers'
      <4>1. plan' = plan
        BY <1>8, <2>6 DEF Plain
      <4> QED  BY <1>1, <1>5, <1>6, <2>1, <2>6, <4>1 DEF Answers, Asked, Served
    <3> QED  BY <1>1, <1>3, <1>5, <1>6, <2>2, <2>6, <3>1 DEF Phases
  <2>7. ASSUME after' \in {"reset", "return"}, ~Plain(p), rf' = rf, plan' = AnyNumber
        PROVE  Phases'
    <3>1. Runs'
      BY <2>1, <2>2, <2>7 DEF Runs
    <3> QED  BY <1>1, <1>3, <1>5, <1>6, <2>2, <2>7, <3>1 DEF Phases
  <2>8. Phases'
    BY <2>1, <2>6, <2>7
  <2>9. Sending'
    BY <2>1 DEF Sending
  <2>10. Memories'
    BY <1>1, <1>9, <2>1 DEF Memories, Untouched
  <2> QED  BY <2>3, <2>5, <2>8, <2>9, <2>10 DEF IInv
<1> QED  BY <1>12, <1>13, <1>14

-------------------------------------------------------------------------------
(* The application runs, stops and calls.                                    *)

\* Where a step has got to, as the opcode under the pc shows.
LEMMA StepStates ==
  ASSUME IInv, where = "app", InProgram
  PROVE  /\ Arrived => /\ code[cpu.pc] = STEP_OPCODE /\ Trap(code[cpu.pc]) = 32
                       /\ stepped # NoOpcode
         /\ Underway => /\ code[cpu.pc] = program.code[cpu.pc]
                        /\ Trap(code[cpu.pc]) \notin 32 .. 34
<1>1. Shapes /\ cpu.pc \in DOMAIN program.code
  BY DEF IInv, InProgram
<1>2. program.code[cpu.pc] # NoOpcode
  BY <1>1, Opcodes
<1>3. Trap(STEP_OPCODE) = 32
  BY DEF Trap, STEP_OPCODE
<1>4. ASSUME Arrived
      PROVE  code[cpu.pc] = STEP_OPCODE /\ Trap(code[cpu.pc]) = 32 /\ stepped # NoOpcode
  <2>1. code[cpu.pc] = STEP_OPCODE
    BY <1>1, <1>4 DEF Arrived, Planting
  <2> QED  BY <1>2, <1>3, <1>4, <2>1 DEF Arrived, Planting
<1>5. ASSUME Underway
      PROVE  /\ code[cpu.pc] = program.code[cpu.pc]
             /\ Trap(code[cpu.pc]) \notin 32 .. 34
  <2>1. PICK d : d # cpu.pc /\ code = [program.code EXCEPT ![d] = STEP_OPCODE]
    BY <1>5 DEF Underway, Planting
  <2>2. code[cpu.pc] = program.code[cpu.pc]
    BY <1>1, <2>1
  <2> QED  BY <1>5, <2>2 DEF Underway
<1> QED  BY <1>4, <1>5

LEMMA RunInstrHolds ==
  ASSUME IInv, RunInstr, InProgram
  PROVE  IInv'
<1>1. /\ where = "app" /\ Trap(code[cpu.pc]) \notin 32 .. 34
      /\ cpu' = Ran(cpu, code[cpu.pc], Vectors)
      /\ ran' = IF ran < 2 THEN ran + 1 ELSE ran
      /\ UNCHANGED <<rx, tx, where, reply, after, rf, stepped, code, host, cur, known, nmis,
                     program, plan>>
  BY DEF RunInstr, gdbVars
<1>2. Wire /\ NoNewVerdict /\ (Accepted' <=> Accepted)
  BY <1>1 DEF IInv, Wire, NoNewVerdict, Accepted
<1>3. Packets' /\ Verdicts' /\ (rx \in Seq(Char))'
  BY <1>1, <1>2, LineKept
<1>4. DOMAIN cpu' = RegisterIds /\ cpu'.pc = Target(cpu, code[cpu.pc], Vectors)
  BY <1>1 DEF IInv, Shapes, Ran, RegisterIds
<1>5. Shapes'
  BY <1>1, <1>3, <1>4 DEF IInv, Shapes
<1>6. Phases'
  <2>1. Runs => Runs'
    BY <1>1 DEF Runs, Fresh
  <2> QED  BY <1>1, <1>2, <2>1, PhasesOfApp DEF IInv
<1>7. Sending'
  BY <1>1 DEF Sending
<1>8. Memories'
  <2>1. (Untouched /\ plan = AnyNumber) \/ Arrived \/ Underway
    BY <1>1 DEF IInv, Memories
  <2>2. ~Arrived
    BY <1>1, StepStates
  <2>3. CASE Untouched /\ plan = AnyNumber
    BY <1>1, <2>3 DEF Memories, Untouched
  <2>4. CASE Underway
    <3>1. code[cpu.pc] = program.code[cpu.pc]
      BY <1>1, <2>4, StepStates
    <3>2. Planting(cpu'.pc)
      BY <1>4, <2>4, <3>1 DEF Underway
    <3>3. ran' = 1 /\ plan' = 1
      BY <1>1, <2>4 DEF Underway
    <3>4. Arrived'
      BY <1>1, <3>2, <3>3 DEF Arrived, Planting
    <3> QED  BY <1>1, <3>4 DEF Memories
  <2> QED  BY <2>1, <2>2, <2>3, <2>4
<1> QED  BY <1>3, <1>5, <1>6, <1>7, <1>8 DEF IInv

\* An exception, once it is known that the monitor will put the program right.
LEMMA ExceptionHolds ==
  ASSUME IInv, where = "app", NEW regs, NEW sig, Exception(regs, sig),
         DOMAIN regs = RegisterIds, nmis' \in Nat,
         MonitorOnEntry(regs, code, stepped) = program.code,
         plan = AnyNumber \/ ran = plan \/ nmis' # 0
  PROVE  IInv'
<1>1. PICK m : m = Expedited(sig, regs)
  OBVIOUS
<1>2. /\ rf' = regs /\ reply' = m /\ where' = "ack" /\ after' = "monitor"
      /\ tx' = Append(tx, Frame(m, SumOf(m, 0)))
      /\ UNCHANGED <<rx, cpu, stepped, code, host, cur, known, program, ran, plan>>
  BY <1>1 DEF Exception, StartMessage, gdbVars
<1>3. m.kind = "T" /\ DOMAIN m.v = RegisterIds /\ m.v["pc"] = regs.pc
  BY <1>1 DEF Expedited, Peek, RegisterIds
<1>4. Wire /\ IsSequence(tx)
  BY DEF IInv, Wire, Shapes
<1>5. /\ IsSequence(tx') /\ NoNewVerdict /\ (Accepted' <=> Accepted)
      /\ \A i : Fresh(i)' => (Fresh(i) /\ tx'[i] = tx[i]) \/ tx'[i].body = m
  BY <1>2, <1>4, FrameAdded
<1>6. Packets' /\ Verdicts' /\ (rx \in Seq(Char))'
  BY <1>2, <1>4, <1>5, LineKept
<1>7. Shapes'
  BY <1>2, <1>5, <1>6 DEF IInv, Shapes
<1>8. Phases'
  <2>1. ASSUME Runs
        PROVE  Runs'
    <3>1. ASSUME NEW i \in DOMAIN tx', Fresh(i)'
          PROVE  tx'[i].body = m \/ tx'[i].body.kind \notin {"T", "file"}
      <4>1. CASE Fresh(i) /\ tx'[i] = tx[i]
        BY <2>1, <4>1 DEF Runs, Fresh
      <4> QED  BY <1>5, <3>1, <4>1
    <3> QED  BY <1>2, <1>3, <3>1 DEF Runs
  <2> QED  BY <1>2, <1>5, <2>1, PhasesOfApp DEF IInv
<1>9. Sending'
  BY <1>2, <1>3 DEF Sending
<1>10. Memories'
  BY <1>2 DEF Memories
<1> QED  BY <1>6, <1>7, <1>8, <1>9, <1>10 DEF IInv

LEMMA BreakpointHolds ==
  ASSUME IInv, Breakpoint, InProgram
  PROVE  IInv'
<1>1. PICK trap \in {32, 33} :
        /\ where = "app" /\ Trap(code[cpu.pc]) = trap
        /\ Exception(Saved([cpu EXCEPT !.pc = @ + 2], trap), 5)
        /\ nmis' = nmis
  BY DEF Breakpoint
<1>2. PICK regs : regs = Saved([cpu EXCEPT !.pc = @ + 2], trap)
  OBVIOUS
<1>3. Shapes /\ cpu.pc \in DOMAIN program.code
  BY <1>1 DEF IInv, InProgram
<1>4. cpu.pc \in Int
  BY <1>3, Opcodes
<1>5. DOMAIN regs = RegisterIds /\ (trap = 32 => regs.pc = cpu.pc)
  <2>1. PICK up : up = [cpu EXCEPT !.pc = @ + 2]
    OBVIOUS
  <2>2. DOMAIN up = RegisterIds /\ up.pc = cpu.pc + 2 /\ "pc" \in DOMAIN up
    BY <1>3, <2>1 DEF Shapes, RegisterIds
  <2>3. regs = IF trap = 32 THEN [up EXCEPT !.pc = up.pc - 2] ELSE up
    BY <1>2, <2>1 DEF Saved
  <2>4. CASE trap = 32
    <3>1. regs.pc = up.pc - 2 /\ DOMAIN regs = RegisterIds
      BY <2>2, <2>3, <2>4
    <3> QED  BY <1>4, <2>2, <3>1
  <2>5. CASE trap # 32
    BY <2>2, <2>3, <2>5
  <2> QED  BY <2>4, <2>5
<1>6. /\ MonitorOnEntry(regs, code, stepped) = program.code
      /\ plan = AnyNumber \/ ran = plan
  <2>1. (Untouched /\ plan = AnyNumber) \/ Arrived \/ Underway
    BY <1>1 DEF IInv, Memories
  <2>2. ~Underway
    <3>1. Underway => Trap(code[cpu.pc]) \notin 32 .. 34
      BY <1>1, StepStates
    <3> QED  BY <1>1, <3>1
  <2>3. CASE Untouched /\ plan = AnyNumber
    BY <2>3 DEF Untouched, MonitorOnEntry
  <2>4. CASE Arrived
    <3>1. trap = 32 /\ stepped # NoOpcode
      BY <1>1, <2>4, StepStates
    <3>2. regs.pc = cpu.pc
      BY <1>5, <3>1
    <3>3. MonitorOnEntry(regs, code, stepped)
            = [[program.code EXCEPT ![cpu.pc] = STEP_OPCODE] EXCEPT ![cpu.pc] = program.code[cpu.pc]]
      BY <2>4, <3>1, <3>2 DEF MonitorOnEntry, Arrived, Planting
    <3>4. MonitorOnEntry(regs, code, stepped) = program.code
      BY <1>3, <3>3, CodeShape
    <3> QED  BY <2>4, <3>4 DEF Arrived
  <2> QED  BY <2>1, <2>2, <2>3, <2>4
<1>7. Exception(regs, 5) /\ nmis' \in Nat
  BY <1>1, <1>2, <1>3 DEF Shapes
<1> QED  BY <1>1, <1>5, <1>6, <1>7, ExceptionHolds

LEMMA InterruptHolds ==
  ASSUME IInv, Interrupt, InProgram, NmiInStep = FALSE
  PROVE  IInv'
<1>1. PICK sig \in {2, 30, 4, 11} :
        /\ where = "app" /\ stepped = NoOpcode
        /\ nmis' = nmis + 1
        /\ Exception(cpu, sig)
  BY DEF Interrupt, Saved
<1>2. DOMAIN cpu = RegisterIds /\ nmis \in Nat /\ Shapes
  BY DEF IInv, Shapes
<1>3. nmis' \in Nat /\ nmis' # 0
  BY <1>1, <1>2
<1>4. MonitorOnEntry(cpu, code, stepped) = program.code
  <2>1. (Untouched /\ plan = AnyNumber) \/ Arrived \/ Underway
    BY <1>1 DEF IInv, Memories
  <2>2. ~Arrived
    BY <1>1, StepStates
  <2>3. MonitorOnEntry(cpu, code, stepped) = code
    BY <1>1 DEF MonitorOnEntry
  <2>4. CASE Untouched
    BY <2>3, <2>4 DEF Untouched
  <2>5. CASE Underway
    <3>1. PICK d : code = [program.code EXCEPT ![d] = STEP_OPCODE] /\ stepped = program.code[d]
      BY <2>5 DEF Underway, Planting
    <3>2. d \notin DOMAIN program.code
      BY <1>1, <1>2, <3>1, Opcodes
    <3>3. code = program.code
      BY <1>2, <3>1, <3>2, CodeShape
    <3> QED  BY <2>3, <3>3
  <2> QED  BY <2>1, <2>2, <2>4, <2>5
<1> QED  BY <1>1, <1>2, <1>3, <1>4, ExceptionHolds

LEMMA FileServiceHolds ==
  ASSUME IInv, FileService, InProgram
  PROVE  IInv'
<1>1. /\ where = "app" /\ Trap(code[cpu.pc]) = 34 /\ cpu' = [cpu EXCEPT !.pc = @ + 2]
      /\ UNCHANGED <<rx, reply, after, host, cur, known, nmis, program, ran, plan>>
  BY DEF FileService, gdbVars
<1>2. Untouched /\ plan = AnyNumber
  <2>1. (Untouched /\ plan = AnyNumber) \/ Arrived \/ Underway
    BY <1>1 DEF IInv, Memories
  <2>2. /\ Arrived => Trap(code[cpu.pc]) = 32
        /\ Underway => Trap(code[cpu.pc]) \notin 32 .. 34
    BY <1>1, StepStates
  <2>3. 34 \in 32 .. 34 /\ 34 # 32
    OBVIOUS
  <2> QED  BY <1>1, <2>1, <2>2, <2>3
<1>3. PICK m : m = [kind |-> "file"]
  OBVIOUS
<1>4. \/ tx' = Append(tx, Frame(m, 1)) /\ where' = "hunt"
      \/ tx' = tx /\ where' = "app"
  BY <1>1, <1>3 DEF FileService
<1>5. rf' = rf /\ Untouched'
  <2>1. MonitorOnEntry(rf, code, stepped) = code
    BY <1>2 DEF MonitorOnEntry, Untouched
  <2> QED  BY <1>1, <1>2, <2>1 DEF FileService, EnterMonitor, Untouched
<1>6. Wire /\ IsSequence(tx)
  BY DEF IInv, Wire, Shapes
<1>7. /\ IsSequence(tx') /\ NoNewVerdict /\ (Accepted' <=> Accepted)
      /\ \A i : Fresh(i)' => (Fresh(i) /\ tx'[i] = tx[i])
                             \/ (where' = "hunt" /\ tx'[i].body = m)
  <2>1. CASE tx' = Append(tx, Frame(m, 1)) /\ where' = "hunt"
    BY <1>6, <2>1, FrameAdded
  <2>2. CASE tx' = tx /\ where' = "app"
    BY <1>6, <2>2 DEF NoNewVerdict, Accepted, Fresh
  <2> QED  BY <1>4, <2>1, <2>2
<1>8. Packets' /\ Verdicts' /\ (rx \in Seq(Char))'
  BY <1>1, <1>4, <1>6, <1>7, LineKept
<1>9. Shapes'
  <2>1. DOMAIN cpu' = RegisterIds
    BY <1>1 DEF IInv, Shapes
  <2> QED  BY <1>1, <1>4, <1>5, <1>7, <1>8, <2>1 DEF IInv, Shapes
<1>10. Phases'
  <2>1. ASSUME Runs
        PROVE  Runs'
    <3>1. ASSUME NEW i \in DOMAIN tx', Fresh(i)'
          PROVE  tx'[i].body.kind # "T" /\ (tx'[i].body.kind = "file" => where' = "hunt")
      <4>1. CASE Fresh(i) /\ tx'[i] = tx[i]
        BY <1>1, <2>1, <4>1 DEF Runs, Fresh
      <4>2. CASE where' = "hunt" /\ tx'[i].body = m
        BY <1>3, <4>2
      <4> QED  BY <1>7, <3>1, <4>1, <4>2
    <3> QED  BY <1>1, <1>2, <1>4, <3>1 DEF Runs
  <2> QED  BY <1>1, <1>7, <2>1, PhasesOfApp DEF IInv
<1>11. Sending'
  BY <1>4 DEF Sending
<1>12. Memories'
  BY <1>1, <1>2, <1>4, <1>5 DEF Memories
<1> QED  BY <1>8, <1>9, <1>10, <1>11, <1>12 DEF IInv

-------------------------------------------------------------------------------
(* gdb, and the line.                                                        *)

\* Neither gdb nor the line touches the stub.
StubUntouched == UNCHANGED <<where, reply, after, rf, stepped, cpu, code, nmis, program, ran, plan>>

LEMMA StubKept ==
  ASSUME IInv, StubUntouched
  PROVE  Sending' /\ Memories'
<1>1. Sending'
  BY DEF IInv, StubUntouched, Sending
<1>2. Memories'
  <2>1. /\ Untouched' <=> Untouched
        /\ Arrived' <=> Arrived
        /\ Underway' <=> Underway
    BY DEF StubUntouched, Untouched, Arrived, Underway, Planting
  <2> QED  BY <2>1 DEF IInv, StubUntouched, Memories
<1> QED  BY <1>1, <1>2

LEMMA HostSendHolds ==
  ASSUME IInv, HostSend
  PROVE  IInv'
<1>1. PICK p \in program.requests :
        /\ host \in {"idle", "sys"} /\ MaySend(p)
        /\ rx' = rx \o Packet(p)
        /\ cur' = [p |-> p, back |-> host] /\ host' = "ack"
        /\ known' = CASE p.cmd = "P" -> [known EXCEPT ![p.arg] = p.d]
                      [] p.cmd = "G" -> p.d
                      [] OTHER       -> known
        /\ StubUntouched /\ tx' = tx
  BY DEF HostSend, StubUntouched, target
<1>2. Wire /\ Shapes
  BY DEF IInv, Wire
<1>3. cur'.p = p /\ cur'.back = host
  BY <1>1
<1>4. ~Unread /\ \A i \in DOMAIN tx : ~Verdict(tx[i])
  BY <1>1 DEF IInv, Verdicts
<1>5. Packets' /\ Verdicts' /\ (rx \in Seq(Char))'
  BY <1>1, <1>2, <1>3, <1>4, PacketSent DEF StubUntouched
<1>6. DOMAIN known' = RegisterIds
  <2>1. p.cmd = "G" => DOMAIN p.d = RegisterIds
    BY <1>2, ProgramsAssumption DEF Shapes
  <2>2. DOMAIN known = RegisterIds
    BY <1>2 DEF Shapes
  <2>3. CASE p.cmd = "P"
    BY <1>1, <2>2, <2>3
  <2>4. CASE p.cmd # "P"
    BY <1>1, <2>1, <2>2, <2>4
  <2> QED  BY <2>3, <2>4
<1>7. Shapes'
  BY <1>1, <1>5, <1>6 DEF IInv, Shapes, StubUntouched
<1>8. Phases'
  <2>1. ~Accepted'
    BY <1>1, <1>4 DEF Accepted, Verdict
  <2>2. Served /\ (host = "idle" => known.pc = rf.pc) /\ (host = "sys" => plan = AnyNumber)
    BY <1>1 DEF IInv, Phases
  <2>3. Served'
    BY <1>1, <2>2 DEF Served, StubUntouched
  <2>4. host = "sys" => plan' = AnyNumber /\ p.cmd \in {"F", "m", "M"}
    BY <1>1, <2>2 DEF MaySend, StubUntouched
  <2>5. ASSUME host = "idle"
        PROVE  /\ p.cmd # "F" /\ known'.pc = Effect(p, rf).pc
               /\ p.cmd = "s" =>
                    Trap(program.code[IF p.arg = 0 THEN known'.pc ELSE p.arg]) \notin 32 .. 34
    <3>1. known'.pc = Effect(p, rf).pc
      BY <1>1, <1>2, <2>2, <2>5, SameEffect
    <3>2. p.cmd = "s" => known' = known
      BY <1>1
    <3> QED  BY <1>1, <2>5, <3>1, <3>2 DEF MaySend
  <2>6. Asked'
    BY <1>1, <1>3, <2>3, <2>4, <2>5 DEF Asked, StubUntouched
  <2> QED  BY <1>1, <1>3, <2>1, <2>6 DEF Phases, StubUntouched
<1> QED  BY <1>1, <1>5, <1>7, <1>8, StubKept DEF IInv

LEMMA HostTimeoutHolds ==
  ASSUME IInv, HostTimeout
  PROVE  IInv'
<1>1. /\ host = "ack" /\ rx = <<>> /\ tx = <<>> /\ rx' = Packet(cur.p)
      /\ StubUntouched /\ UNCHANGED <<tx, host, cur, known>>
  BY DEF HostTimeout, StubUntouched, target, gdbVars
<1>2. Wire /\ Shapes
  BY DEF IInv, Wire
<1>3. ~Unread /\ \A i \in DOMAIN tx' : ~Verdict(tx'[i])
  <2>1. where # "csum"
    BY <1>1 DEF IInv, Packets
  <2>2. DOMAIN rx = {} /\ DOMAIN tx' = {}
    BY <1>1
  <2> QED  BY <2>1, <2>2 DEF Unread
<1>4. cur'.p \in program.requests
  BY <1>1 DEF IInv, Phases
<1>5. rx' = rx \o Packet(cur'.p)
  BY <1>1 DEF Packet
<1>6. Packets' /\ Verdicts' /\ (rx \in Seq(Char))'
  BY <1>1, <1>2, <1>3, <1>4, <1>5, PacketSent DEF StubUntouched
<1>7. Shapes'
  BY <1>1, <1>6 DEF IInv, Shapes, StubUntouched
<1>8. Phases'
  <2>1. /\ Accepted' <=> Accepted
        /\ Served => Served'
        /\ Runs => Runs'
    BY <1>1 DEF Accepted, Served, Runs, Fresh, StubUntouched
  <2> QED  BY <1>1, <2>1, PhasesKept DEF IInv, StubUntouched
<1> QED  BY <1>1, <1>6, <1>7, <1>8, StubKept DEF IInv

LEMMA NoiseHolds ==
  ASSUME IInv, Noise
  PROVE  IInv'
<1>1. /\ StubUntouched /\ UNCHANGED <<host, cur, known>>
      /\ \/ (\E k \in DOMAIN rx : rx' = [rx EXCEPT ![k] = Damaged]) /\ tx' = tx
         \/ /\ \E k \in DOMAIN tx : tx[k] # Plus /\ tx' = [tx EXCEPT ![k] = Damaged]
            /\ rx' = rx
  BY DEF Noise, StubUntouched, target, gdbVars
<1>2. Wire /\ IsSequence(tx)
  BY DEF IInv, Wire, Shapes
<1>3. /\ IsSequence(tx') /\ NoNewVerdict /\ (Accepted' <=> Accepted)
      /\ \A i : Fresh(i)' => Fresh(i) /\ tx'[i] = tx[i]
  <2>1. CASE tx' = tx
    BY <1>2, <2>1 DEF NoNewVerdict, Accepted, Fresh
  <2>2. CASE \E k \in DOMAIN tx : tx[k] # Plus /\ tx' = [tx EXCEPT ![k] = Damaged]
    <3>1. PICK k \in DOMAIN tx : tx[k] # Plus /\ tx' = [tx EXCEPT ![k] = Damaged]
      BY <2>2
    <3> QED  BY <1>2, <3>1, ItemDamaged
  <2> QED  BY <1>1, <2>1, <2>2
<1>4. Packets' /\ Verdicts' /\ (rx \in Seq(Char))'
  BY <1>1, <1>2, <1>3, LineKept DEF StubUntouched
<1>5. Shapes'
  BY <1>1, <1>3, <1>4 DEF IInv, Shapes, StubUntouched
<1>6. Phases'
  <2>1. Served => Served'
    BY <1>1 DEF Served, StubUntouched
  <2>2. Runs => Runs'
    BY <1>1, <1>3, RunsKept DEF StubUntouched
  <2> QED  BY <1>1, <1>3, <2>1, <2>2, PhasesKept DEF IInv, StubUntouched
<1> QED  BY <1>1, <1>4, <1>5, <1>6, StubKept DEF IInv

LEMMA HostRecvHolds ==
  ASSUME IInv, HostRecv
  PROVE  IInv'
<1>1. PICK ch \in {<<>>, <<Plus>>, <<Minus>>, Packet(cur.p)} :
        /\ host # "idle" /\ host # "sys" /\ tx # <<>> /\ tx' = Tail(tx) /\ rx' = rx \o ch
        /\ LET it == Head(tx) IN
           \/ /\ host = "ack"
              /\ ch = CASE it = Minus -> Packet(cur.p) [] GoodFrame(it) -> <<Plus>> [] OTHER -> <<>>
              /\ host' = IF it # Plus THEN "ack" ELSE IF Running(cur.p) THEN "run" ELSE "reply"
              /\ UNCHANGED known
           \/ /\ host = "reply"
              /\ ch = CASE it \in {Plus, Minus} -> <<>> [] GoodFrame(it) -> <<Plus>> [] OTHER -> <<Minus>>
              /\ host' = IF ~GoodFrame(it) THEN "reply"
                         ELSE IF cur.p.cmd \in {"F", "k", "D"} THEN "run" ELSE cur.back
              /\ UNCHANGED known
           \/ /\ host = "run"
              /\ ch = CASE it \in {Plus, Minus} -> <<>> [] GoodFrame(it) -> <<Plus>> [] OTHER -> <<Minus>>
              /\ host' = CASE GoodFrame(it) /\ it.body.kind = "file" -> "sys"
                           [] GoodFrame(it) /\ it.body.kind = "T"    -> "idle"
                           [] OTHER                                  -> "run"
              /\ known' = IF GoodFrame(it) /\ it.body.kind = "T" THEN it.body.v ELSE known
  BY DEF HostRecv
<1>2. StubUntouched /\ cur' = cur
  BY DEF HostRecv, StubUntouched, target
<1>3. Wire /\ IsSequence(tx) /\ Shapes
  BY DEF IInv, Wire, Shapes
<1>4. PICK it : it = Head(tx) /\ it = tx[1] /\ 1 \in DOMAIN tx
  <2>1. Head(tx) = tx[1] /\ Len(tx) \in Nat /\ Len(tx) >= 1 /\ DOMAIN tx = 1 .. Len(tx)
    BY <1>1, <1>3, Tailed
  <2>2. 1 \in DOMAIN tx
    BY <2>1
  <2> QED  BY <2>1, <2>2
<1>5. /\ it # Plus => (Accepted' <=> Accepted)
      /\ \A i : Fresh(i)' => Fresh(i + 1) /\ tx'[i] = tx[i + 1]
  BY <1>1, <1>3, <1>4, ItemGone
<1>6. Served => Served'
  BY <1>2 DEF Served, StubUntouched
<1>7. Runs => Runs'
  BY <1>2, <1>5, RunsKept DEF StubUntouched
<1>8. GoodFrame(it) => it.c = "frame" /\ it # Plus /\ it # Minus
  BY Items DEF GoodFrame
<1>9. cur.p \in program.requests /\ cur.back \in {"idle", "sys"}
  BY <1>1 DEF IInv, Phases
\* A refused packet is sent again.
<1>10. CASE it = Minus
  <2>1. host = "ack" /\ Verdict(it)
    BY <1>4, <1>10, Items DEF IInv, Verdicts
  <2>2. rx' = rx \o Packet(cur'.p) /\ host' = "ack" /\ known' = known
    <3>1. it # Plus
      BY <1>10, Items
    <3>2. ch = Packet(cur.p)
      BY <1>1, <1>4, <1>8, <1>10, <2>1
    <3>3. host' = "ack" /\ known' = known
      BY <1>1, <1>4, <2>1, <3>1
    <3> QED  BY <1>1, <1>2, <3>2, <3>3
  <2>3. ~Unread
    BY <1>4, <2>1 DEF IInv, Verdicts
  <2>4. \A i \in DOMAIN tx' : ~Verdict(tx'[i])
    <3> SUFFICES ASSUME NEW i \in DOMAIN tx', Verdict(tx'[i])
                 PROVE  FALSE
      OBVIOUS
    <3>1. /\ Len(tx) \in Nat /\ DOMAIN tx' = 1 .. Len(tx) - 1
          /\ i + 1 \in DOMAIN tx /\ tx'[i] = tx[i + 1]
      BY <1>1, <1>3, Tailed
    <3>2. i \in Nat /\ i >= 1
      BY <3>1
    <3>3. i + 1 = 1
      BY <1>4, <2>1, <3>1 DEF IInv, Verdicts
    <3> QED  BY <3>2, <3>3
  <2>5. Packets' /\ Verdicts' /\ (rx \in Seq(Char))'
    BY <1>2, <1>3, <1>9, <2>2, <2>3, <2>4, PacketSent DEF StubUntouched
  <2>6. IsSequence(tx')
    BY <1>1, <1>3, Tailed
  <2>7. Shapes'
    BY <1>2, <2>2, <2>5, <2>6 DEF IInv, Shapes, StubUntouched
  <2>8. Phases'
    BY <1>2, <1>5, <1>6, <1>7, <1>10, <2>1, <2>2, Items, PhasesKept DEF IInv, StubUntouched
  <2> QED  BY <1>2, <2>5, <2>7, <2>8, StubKept DEF IInv
\* Anything else is at most acknowledged.
<1>11. CASE it # Minus
  <2>1. ch \in {<<>>, <<Plus>>, <<Minus>>}
    BY <1>1, <1>4, <1>8, <1>11
  <2>2. host' = host \/ Verdict(tx[1]) \/ host # "ack"
    BY <1>1, <1>4 DEF Verdict
  <2>3. Packets' /\ Verdicts' /\ (rx \in Seq(Char))' /\ IsSequence(tx)'
    BY <1>1, <1>2, <1>3, <2>1, <2>2, ItemRead DEF StubUntouched
  <2>4. ASSUME host # "ack", it.c = "frame"
        PROVE  Fresh(1)
    <3>1. \A j \in DOMAIN tx : tx[j] # Plus
      BY <2>4 DEF IInv, Verdicts, Verdict
    <3> QED  BY <1>4, <2>4, <3>1 DEF Fresh
  <2>5. Phases' /\ DOMAIN known' = RegisterIds
    <3>1. CASE host = "ack"
      <4>1. known' = known
        BY <1>1, <3>1
      <4>2. CASE it # Plus
        <5>1. host' = host
          BY <1>1, <1>4, <3>1, <4>2
        <5> QED  BY <1>2, <1>3, <1>5, <1>6, <1>7, <4>1, <4>2, <5>1, PhasesKept
                 DEF IInv, Shapes, StubUntouched
      <4>3. CASE it = Plus
        <5>1. host' = IF Running(cur.p) THEN "run" ELSE "reply"
          BY <1>1, <1>4, <3>1, <4>3
        <5>2. IF Plain(cur.p) THEN Answers ELSE Runs
          BY <1>4, <3>1, <4>3 DEF IInv, Phases, Accepted
        <5>3. IF Plain(cur.p) THEN Answers' ELSE Runs'
          BY <1>2, <1>6, <1>7, <4>1, <5>2 DEF Answers, StubUntouched
        <5>4. /\ Running(cur.p) => ~Plain(cur.p)
              /\ ~Running(cur.p) => cur.p.cmd \notin {"s", "c"}
          BY DEF Running, Plain
        <5>5. Phases'
          BY <1>2, <1>9, <5>1, <5>3, <5>4 DEF Phases, StubUntouched
        <5> QED  BY <1>3, <4>1, <5>5 DEF Shapes
      <4> QED  BY <4>2, <4>3
    <3>2. CASE host = "reply"
      <4>1. known' = known
        BY <1>1, <3>2
      <4>2. it # Plus /\ cur.p.cmd \notin {"s", "c"}
        BY <1>4, <3>2 DEF IInv, Verdicts, Verdict, Phases
      <4>3. CASE ~GoodFrame(it)
        <5>1. host' = host
          BY <1>1, <1>4, <3>2, <4>3
        <5> QED  BY <1>2, <1>3, <1>5, <1>6, <1>7, <4>1, <4>2, <5>1, PhasesKept
                 DEF IInv, Shapes, StubUntouched
      <4>4. CASE GoodFrame(it)
        <5>1. host' = IF cur.p.cmd \in {"F", "k", "D"} THEN "run" ELSE cur.back
          BY <1>1, <1>4, <3>2, <4>4
        <5>2. IF Plain(cur.p) THEN Answers ELSE Runs
          BY <3>2 DEF IInv, Phases
        <5>3. CASE cur.p.cmd \in {"F", "k", "D"}
          <6>1. Runs' /\ host' = "run"
            BY <1>7, <5>1, <5>2, <5>3 DEF Plain
          <6> QED  BY <1>2, <1>3, <1>9, <4>1, <6>1 DEF Phases, Shapes, StubUntouched
        <5>4. CASE cur.p.cmd \notin {"F", "k", "D"}
          <6>1. Answers /\ host' = cur.back
            BY <4>2, <5>1, <5>2, <5>4 DEF Plain
          <6>2. /\ Served' /\ (host' = "sys" => plan' = AnyNumber)
                /\ (host' = "idle" => known'.pc = rf'.pc)
            BY <1>2, <1>6, <4>1, <6>1 DEF Answers, StubUntouched
          <6> QED  BY <1>3, <1>9, <4>1, <6>1, <6>2 DEF Phases, Shapes
        <5> QED  BY <5>3, <5>4
      <4> QED  BY <4>3, <4>4
    <3>3. CASE host = "run"
      <4>1. Runs /\ it # Plus
        BY <1>4, <3>3 DEF IInv, Phases, Verdicts, Verdict
      <4>2. CASE GoodFrame(it) /\ it.body.kind = "file"
        <5>1. host' = "sys" /\ known' = known
          BY <1>1, <1>4, <3>3, <4>2
        <5>2. where \notin {"app", "ack"} /\ plan = AnyNumber
          BY <1>4, <1>8, <2>4, <3>3, <4>1, <4>2 DEF Runs
        <5>3. Served' /\ plan' = AnyNumber
          BY <1>2, <5>2 DEF Served, StubUntouched
        <5> QED  BY <1>3, <5>1, <5>3 DEF Phases, Shapes
      <4>3. CASE GoodFrame(it) /\ it.body.kind = "T"
        <5>1. host' = "idle" /\ known' = it.body.v
          BY <1>1, <1>4, <3>3, <4>3
        <5>2. /\ where # "app" /\ (where = "ack" => after = "monitor")
              /\ DOMAIN it.body.v = RegisterIds /\ it.body.v["pc"] = rf.pc
          BY <1>4, <1>8, <2>4, <3>3, <4>1, <4>3 DEF Runs
        <5>3. Served' /\ known'.pc = rf'.pc
          BY <1>2, <5>1, <5>2 DEF Served, StubUntouched
        <5> QED  BY <5>1, <5>2, <5>3 DEF Phases
      <4>4. CASE ~(GoodFrame(it) /\ it.body.kind \in {"file", "T"})
        <5>1. host' = host /\ known' = known
          BY <1>1, <1>4, <3>3, <4>4
        <5> QED  BY <1>2, <1>3, <1>5, <1>6, <1>7, <4>1, <5>1, PhasesKept
                 DEF IInv, Shapes, StubUntouched
      <4> QED  BY <4>2, <4>3, <4>4
    <3> QED  BY <1>1, <3>1, <3>2, <3>3
  <2>6. Shapes'
    BY <1>2, <2>3, <2>5 DEF IInv, Shapes, StubUntouched
  <2> QED  BY <1>2, <2>3, <2>5, <2>6, StubKept DEF IInv
<1> QED  BY <1>10, <1>11

-------------------------------------------------------------------------------
(* The theorems.                                                             *)

LEMMA InitHolds ==
  ASSUME Init
  PROVE  IInv
<1>1. /\ rx = <<>> /\ tx = <<>> /\ where = "hunt" /\ host = "idle"
      /\ DOMAIN rx = {} /\ DOMAIN tx = {} /\ rx \in Seq(Char)
  BY DEF Init
<1>2. IsSequence(tx)
  BY <1>1, AnySequence
<1>3. Shapes
  BY <1>1, <1>2, ProgramsAssumption DEF Init, Shapes
<1>4. Packets /\ Verdicts
  BY <1>1 DEF Packets, Verdicts, Unread
<1>5. Phases
  BY <1>1 DEF Init, Phases, Served
<1>6. Sending /\ Memories
  BY <1>1 DEF Init, Sending, Memories, Untouched
<1> QED  BY <1>3, <1>4, <1>5, <1>6 DEF IInv

LEMMA StepHolds ==
  ASSUME IInv, [Next]_vars, InProgram, InProgram', NmiInStep = FALSE
  PROVE  IInv'
<1>1. CASE StubNext
  BY <1>1, SendAgainHolds, AckedHolds, GetCharHolds, RejectHolds, AcceptHolds DEF StubNext
<1>2. CASE AppNext
  BY <1>2, RunInstrHolds, BreakpointHolds, InterruptHolds, FileServiceHolds DEF AppNext
<1>3. CASE HostNext
  BY <1>3, HostRecvHolds, HostTimeoutHolds DEF HostNext
<1>4. CASE HostSend
  BY <1>4, HostSendHolds
<1>5. CASE Noise
  BY <1>5, NoiseHolds
<1>6. CASE UNCHANGED vars
  <2>1. /\ StubUntouched /\ UNCHANGED <<rx, tx, host, cur, known>>
    BY <1>6 DEF vars, target, gdbVars, StubUntouched
  <2>2. Wire /\ NoNewVerdict /\ (Accepted' <=> Accepted)
    BY <2>1 DEF IInv, Wire, NoNewVerdict, Accepted
  <2>3. Packets' /\ Verdicts' /\ (rx \in Seq(Char))'
    BY <2>1, <2>2, LineKept DEF StubUntouched
  <2>4. Shapes'
    BY <2>1, <2>3 DEF IInv, Shapes, StubUntouched
  <2>5. (Served => Served') /\ (Runs => Runs')
    BY <2>1 DEF Served, Runs, Fresh, StubUntouched
  <2>6. Phases'
    BY <2>1, <2>2, <2>5, PhasesKept DEF IInv, StubUntouched
  <2> QED  BY <2>1, <2>3, <2>4, <2>6, StubKept DEF IInv
<1> QED  BY <1>1, <1>2, <1>3, <1>4, <1>5, <1>6 DEF Next

\* As long as the application stays in its program and no other exception enters the
\* stub while a step is under way: the line holds one unanswered packet, gdb knows
\* the pc when it may send, and the planted trap is where the program will come.
THEOREM Invariance ==
  ASSUME NmiInStep = FALSE
  PROVE  Spec /\ []InProgram => []IInv
<1>1. Init => IInv
  BY InitHolds
<1>2. IInv /\ [Next]_vars /\ InProgram /\ InProgram' => IInv'
  BY StepHolds
<1> QED  BY <1>1, <1>2, PTL DEF Spec

\* While gdb is being served the program is as gdb loaded it (CodeIntact):
\* gdb_monitor_onentry has put the instruction back that gdb_step replaced, however
\* often packets were damaged and sent again before, between and after.
THEOREM ProgramIsPutBack ==
  ASSUME NmiInStep = FALSE
  PROVE  Spec /\ []InProgram => []CodeIntact
<1>1. IInv => CodeIntact
  BY DEF IInv, Memories, Untouched, CodeIntact
<1> QED  BY <1>1, Invariance, PTL

\* A single step runs one instruction and stops (StepRunsOne): get_stepi_dest's
\* trap is met, and it is the first one met.
THEOREM StepIsSingle ==
  ASSUME NmiInStep = FALSE
  PROVE  Spec /\ []InProgram => []StepRunsOne
<1>1. IInv => StepRunsOne
  BY DEF IInv, Sending, Memories, StepRunsOne
<1> QED  BY <1>1, Invariance, PTL

===============================================================================
