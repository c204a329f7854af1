------------------------------ MODULE Debug_proof ------------------------------
(***************************************************************************)
(* The debug queue of debug.c is correct for every buffer length and for   *)
(* any number of messages, connections, keys and BREAK instructions.       *)
(***************************************************************************)
EXTENDS Debug, SequenceTheorems, TLAPS

FsmStates == {"RUN", "AWAIT_BREAK", "AWAIT_IF", "READY"}

\* The command on the port is the one at the head of the queue, which has no
\* other; ack_hook is scheduled while there is one, and drop_en_hook from the
\* acknowledge until the quarter of that cycle.
QueueInv ==
  /\ phase \in {"edge", "poll", "quarter"}
  /\ fsm \in FsmStates
  /\ port = [en |-> port.en, cmd |-> port.cmd, req |-> port.req, id |-> port.id]
  /\ cmds = <<>> \/ cmds = <<Cmd(port.cmd, port.req, port.id)>>
  /\ ack_on \in BOOLEAN /\ drop_on \in BOOLEAN
  /\ ack_on <=> cmds # <<>>
  /\ port.en <=> (drop_on \/ cmds # <<>>)
  /\ drop_on => (cmds = <<>> /\ phase # "edge")
  /\ corrupt = FALSE

\* The queue of one command has it at its head.
LEMMA HeadOfOne == ASSUME NEW e PROVE <<e>> # <<>> /\ Head(<<e>>) = e
OBVIOUS

\* A command has just been put into the queue.
Started(c, r, i) ==
  /\ corrupt' = FALSE /\ ack_on' = TRUE /\ drop_on' = FALSE
  /\ cmds' = <<Cmd(c, r, i)>>
  /\ port' = [en |-> TRUE, cmd |-> c, req |-> r, id |-> i]

\* What AckHook does to the queue when it acts.
LEMMA AckHookActs ==
  ASSUME QueueInv, NEW st, ack_on, Ack(st), AckHook(st)
  PROVE  \/ /\ corrupt' = FALSE /\ ack_on' = FALSE /\ drop_on' = TRUE
            /\ cmds' = <<>> /\ port' = port
            /\ is_paused' = (port.cmd # "CONTINUE") /\ UNCHANGED <<state, plan>>
         \/ /\ ui # "socket" /\ state \notin {"RUN", "STEP", "PAUSE"}
            /\ \E req : Started("INSERT", req, port.id + 1)
            /\ is_paused' = TRUE
            /\ plan' = PlanNext(plan, dout').plan
            /\ state' = IF PlanNext(plan, dout').more THEN state ELSE "PAUSE"
<1> USE DEF QueueInv
<1>0. cmds = <<Cmd(port.cmd, port.req, port.id)>> /\ ~drop_on
      /\ Head(cmds).cmd = port.cmd /\ Head(cmds).id = port.id
  BY DEF Cmd
<1>1. CASE ui = "socket"
  BY <1>0, <1>1 DEF AckHook, AckSeen, NextCmd, StartsHook
<1>2. CASE ui # "socket"
  <2>1. DebugRdy(Head(cmds), dout') /\ ack_on' = (cmds' # <<>>)
    BY <1>2 DEF AckHook, AckSeen
  <2>2. CASE state \in {"RUN", "STEP", "PAUSE"}
    BY <1>0, <2>1, <2>2 DEF DebugRdy, NextCmd, StartsHook
  <2>3. CASE state \notin {"RUN", "STEP", "PAUSE"}
    <3> DEFINE n == PlanNext(plan, dout')
               e == Cmd("INSERT", n.req, port.id + 1)
    <3>1. /\ cmds' = <<e>> /\ NextCmd(<<e>>, TRUE, TRUE)
          /\ plan' = n.plan /\ state' = IF n.more THEN state ELSE "PAUSE"
      BY <1>0, <2>1, <2>3, Zenon DEF DebugRdy
    <3>2. e.cmd = "INSERT" /\ e.req = n.req /\ e.id = port.id + 1
      BY DEF Cmd
    <3>3. <<e>> # <<>> /\ Head(<<e>>) = e
      BY HeadOfOne
    <3> HIDE DEF n, e
    <3>4. /\ drop_on' = FALSE /\ corrupt' = FALSE /\ is_paused' = TRUE
          /\ port' = [en |-> TRUE, cmd |-> "INSERT", req |-> n.req, id |-> port.id + 1]
      BY <1>0, <3>1, <3>2, <3>3 DEF NextCmd, StartsHook
    <3>5. QED
      BY <1>2, <2>1, <2>3, <3>1, <3>3, <3>4, Zenon DEF e, n, Started
  <2>4. QED
    BY <2>2, <2>3
<1>3. QED
  BY <1>1, <1>2

\* What AddCmd does to a queue that has no command.
LEMMA AddCmdActs ==
  ASSUME QueueInv, cmds = <<>>, NEW c, NEW r, NEW i, AddCmd(Cmd(c, r, i))
  PROVE  Started(c, r, i)
<1>1. ack_on = FALSE /\ corrupt = FALSE
  BY DEF QueueInv
<1>2. QED
  BY <1>1 DEF AddCmd, StartsHook, Cmd, Started

\* A queue that a command has just been put into is sound.
LEMMA QueueStarted ==
  ASSUME QueueInv, UNCHANGED phase \/ phase' = "poll", fsm' \in FsmStates,
         NEW c, NEW r, NEW i, Started(c, r, i)
  PROVE  QueueInv'
<1>1. cmds' # <<>>
  BY HeadOfOne DEF Started
<1>2. QED
  BY <1>1 DEF QueueInv, Started

\* One recv of debug_skt.c adds at most one command, and only to an empty queue.
LEMMA RecvActs ==
  ASSUME QueueInv, Recv
  PROVE  /\ UNCHANGED <<phase, fsm>> /\ cmds = <<>>
         /\ \/ UNCHANGED queue
            \/ \E c, r, i : AddCmd(Cmd(c, r, i))
BY DEF Recv, cpu

\* A key of the keyboard debugger adds one command, numbered KeyId, to an empty queue.
LEMMA KeyActs ==
  ASSUME QueueInv, Key
  PROVE  /\ UNCHANGED <<phase, fsm>> /\ cmds = <<>>
         /\ \E c, r : AddCmd(Cmd(c, r, KeyId))
BY Zenon DEF Key, cpu

\* Every step keeps the queue sound.
LEMMA QueueStep == QueueInv /\ [Next]_vars => QueueInv'
<1> SUFFICES ASSUME QueueInv, [Next]_vars PROVE QueueInv'
  OBVIOUS
<1>1. ASSUME NEW rose \in BOOLEAN, NEW issue \in BOOLEAN, Edge(rose, issue)
      PROVE  QueueInv'
  <2> DEFINE st == NextState(rose, issue)
  <2>1. phase = "edge" /\ phase' = "poll" /\ fsm' = st /\ st \in FsmStates /\ drop_on = FALSE
    BY <1>1 DEF Edge, ClockEdge, NextState, FsmStates, QueueInv
  <2>2. AckHook(st)
    BY <1>1, <2>1 DEF Edge
  <2> HIDE DEF st
  <2>3. CASE ~ack_on \/ ~Ack(st)
    BY <2>1, <2>2, <2>3 DEF AckHook, AckSeen, queue, QueueInv, Cmd
  <2>4. CASE ack_on /\ Ack(st)
    <3>1. CASE corrupt' = FALSE /\ ack_on' = FALSE /\ drop_on' = TRUE /\ cmds' = <<>> /\ port' = port
      BY <2>1, <2>4, <3>1 DEF QueueInv
    <3>2. ASSUME NEW r, Started("INSERT", r, port.id + 1) PROVE QueueInv'
      BY <2>1, <3>2, QueueStarted
    <3>3. QED
      BY <2>2, <2>4, <3>1, <3>2, AckHookActs
  <2>5. QED
    BY <2>3, <2>4
<1>2. CASE Quarter
  <2>1. /\ phase' = "edge" /\ UNCHANGED <<fsm, cmds, ack_on, corrupt>>
        /\ \/ drop_on = FALSE /\ UNCHANGED <<port, drop_on>>
           \/ /\ drop_on = TRUE /\ drop_on' = FALSE
              /\ port' = [port EXCEPT !.en = FALSE]
    BY <1>2 DEF Quarter, DropEn, DropDue, QueueInv, cpu
  <2>2. CASE drop_on = FALSE
    BY <2>1, <2>2 DEF QueueInv, Cmd
  <2>3. CASE drop_on = TRUE
    <3>1. port' = [en |-> FALSE, cmd |-> port.cmd, req |-> port.req, id |-> port.id]
      BY <2>1, <2>3, Zenon DEF QueueInv
    <3>2. QED
      BY <2>1, <2>3, <3>1 DEF QueueInv, Cmd
  <2>4. QED
    BY <2>2, <2>3 DEF QueueInv
<1>3. CASE Recv
  <2>1. CASE UNCHANGED queue
    BY <1>3, <2>1, RecvActs DEF QueueInv, queue
  <2>2. CASE ~ UNCHANGED queue
    <3>1. PICK c, r, i : AddCmd(Cmd(c, r, i))
      BY <1>3, <2>2, RecvActs
    <3>2. UNCHANGED phase /\ fsm' \in FsmStates /\ cmds = <<>>
      BY <1>3, RecvActs DEF QueueInv
    <3>3. Started(c, r, i)
      BY <3>1, <3>2, AddCmdActs
    <3>4. QED
      BY <3>2, <3>3, QueueStarted
  <2>3. QED
    BY <2>1, <2>2
<1>4. CASE Key
  <2>1. PICK c, r : AddCmd(Cmd(c, r, KeyId))
    BY <1>4, KeyActs
  <2>2. UNCHANGED phase /\ fsm' \in FsmStates /\ cmds = <<>>
    BY <1>4, KeyActs DEF QueueInv
  <2>3. Started(c, r, KeyId)
    BY <2>1, <2>2, AddCmdActs
  <2>4. QED
    BY <2>2, <2>3, QueueStarted
<1>5. CASE EndPoll
  BY <1>5 DEF EndPoll, QueueInv, queue, cpu
<1>6. CASE Idle \/ Accept \/ Closed \/ Connect \/ Ask \/ Hangup \/ UNCHANGED vars
  <2>1. UNCHANGED <<phase, queue, cpu>>
    BY <1>6 DEF Idle, Accept, Closed, Connect, Ask, Hangup, vars
  <2>2. QED
    BY <2>1 DEF QueueInv, queue, cpu
<1>7. QED
  BY <1>1, <1>2, <1>3, <1>4, <1>5, <1>6 DEF Next, MainLoop, Clock

-------------------------------------------------------------------------------
(* Plans.                                                                    *)

\* A plan on its way: how far it has come, and for those that count words, how many
\* are left.
PlanOK(p) ==
  \/ /\ p.kind = "dump" /\ p = [kind |-> "dump", i |-> p.i, regs |-> p.regs]
     /\ p.i \in 0 .. 36
  \/ /\ p.kind = "store" /\ p = [kind |-> "store", i |-> p.i, regs |-> p.regs]
     /\ p.i \in 0 .. 26
  \/ /\ p.kind \in {"read", "write"}
     /\ p = [kind |-> p.kind, i |-> p.i, addr |-> p.addr, num |-> p.num, buf |-> p.buf,
             given |-> p.given, r0 |-> p.r0]
     /\ p.i \in 0 .. (IF p.kind = "read" THEN 7 ELSE 5) /\ p.num = 2 - p.i

\* No plan has more than 37 requests.
LEMMA PlanBound == ASSUME NEW p, PlanOK(p) PROVE p.i \in 0 .. 36
<1>1. CASE p.kind = "read" \/ p.i \in 0 .. 36
  BY <1>1 DEF PlanOK
<1>2. CASE p.kind # "read"
  BY <1>2 DEF PlanOK
<1>3. QED
  BY <1>1, <1>2

\* A plan makes one step with each reply, and does not go on for ever.
LEMMA PlanStep ==
  ASSUME NEW p, NEW rep, PlanOK(p)
  PROVE  LET n == PlanNext(p, rep)
         IN  /\ n.more \in BOOLEAN
             /\ n.more => PlanOK(n.plan) /\ n.plan.i = p.i + 1
             /\ p.i = 0 => n.more
<1>1. CASE p.kind = "dump"
  <2> DEFINE q == SaveReg(p, rep)
             n == RegsReadNext(p, rep)
  <2>1. /\ p = [kind |-> "dump", i |-> p.i, regs |-> p.regs]
        /\ p.i \in 0 .. 36
    BY <1>1 DEF PlanOK
  <2>a. q = p \/ \E k : q = [p EXCEPT !.regs[k] = rep]
    BY <2>1 DEF SaveReg
  <2>b. q = [kind |-> "dump", i |-> p.i, regs |-> q.regs]
    <3> HIDE DEF q
    <3>1. ASSUME NEW k, q = [p EXCEPT !.regs[k] = rep] 
          PROVE  q = [kind |-> "dump", i |-> p.i, regs |-> q.regs]
      <4>1. q = [kind |-> "dump", i |-> p.i, regs |-> [p.regs EXCEPT ![k] = rep]]
        BY <2>1, <3>1
      <4>2. QED
        BY <4>1
    <3>2. QED
      BY <2>1, <2>a, <3>1
  <2>2. CASE p.i = 36
    <3>1. n = LastReq(q)
      BY <2>1, <2>b, <2>2 DEF RegsReadNext
    <3>2. n.more = FALSE /\ p.i # 0
      BY <2>2, <3>1 DEF LastReq
    <3>3. QED
      BY <1>1, <2>2, <3>2, Zenon DEF PlanNext
  <2>3. CASE p.i # 36
    <3>1. \E r : n = Went(q, r)
      BY <2>1, <2>b, <2>3 DEF RegsReadNext
    <3> HIDE DEF n
    <3>2. n.more = TRUE /\ n.plan = [q EXCEPT !.i = @ + 1]
      BY <3>1 DEF Went
    <3> HIDE DEF q
    <3>3. n.plan = [kind |-> "dump", i |-> p.i + 1, regs |-> q.regs]
      BY <2>b, <3>2
    <3>4. PlanOK(n.plan) /\ n.plan.i = p.i + 1
      BY <2>1, <2>3, <3>3 DEF PlanOK
    <3>5. QED
      BY <1>1, <3>2, <3>4 DEF PlanNext, n
  <2>4. QED
    BY <1>1, <2>2, <2>3 DEF PlanNext
<1>2. CASE p.kind = "store"
  <2> DEFINE n == RegsWriteNext(p, rep)
  <2>1. p = [kind |-> "store", i |-> p.i, regs |-> p.regs] /\ p.i \in 0 .. 26
    BY <1>2 DEF PlanOK
  <2>2. PlanNext(p, rep) = n
    BY <1>2 DEF PlanNext
  <2>3. CASE p.i = 26
    <3>1. n = LastReq(p)
      BY <2>3 DEF RegsWriteNext
    <3>2. n.more = FALSE /\ p.i # 0
      BY <2>3, <3>1 DEF LastReq
    <3>3. QED
      BY <2>2, <2>3, <3>2, Zenon
  <2>4. CASE p.i # 26
    <3>1. \E r : n = Went(p, r)
      BY <2>1, <2>4 DEF RegsWriteNext
    <3> HIDE DEF n
    <3>2. n.more = TRUE /\ n.plan = [kind |-> "store", i |-> p.i + 1, regs |-> p.regs]
      BY <2>1, <3>1 DEF Went
    <3>3. PlanOK(n.plan) /\ n.plan.i = p.i + 1
      BY <2>1, <2>4, <3>2 DEF PlanOK
    <3>4. QED
      BY <2>2, <3>2, <3>3
  <2>5. QED
    BY <2>3, <2>4
<1>3. CASE p.kind \in {"read", "write"}
  <2> DEFINE n == PlanNext(p, rep)
             last == IF p.kind = "read" THEN 7 ELSE 5
             Moved(x) == /\ x = [kind |-> p.kind, i |-> p.i + 1, addr |-> x.addr,
                                 num |-> p.num - 1, buf |-> x.buf, given |-> p.given, r0 |-> p.r0]
  <2>1. /\ p = [kind |-> p.kind, i |-> p.i, addr |-> p.addr, num |-> p.num, buf |-> p.buf,
                given |-> p.given, r0 |-> p.r0]
        /\ p.i \in 0 .. last /\ p.num = 2 - p.i
    BY <1>3 DEF PlanOK
  <2>2. p.i = last => n.more = FALSE
    <3>1. CASE p.kind = "read"
      BY <2>1, <3>1 DEF PlanNext, MemReadNext, LastReq
    <3>2. CASE p.kind = "write"
      BY <2>1, <3>2 DEF PlanNext, MemWriteNext, LastReq
    <3>3. QED
      BY <1>3, <3>1, <3>2
  <2>3. p.i # last => n.more = TRUE /\ Moved(n.plan)
    <3> SUFFICES ASSUME p.i # last PROVE n.more = TRUE /\ Moved(n.plan)
      OBVIOUS
    <3>1. CASE p.kind = "read"
      <4> DEFINE q == IF p.i >= 6 /\ p.given THEN [p EXCEPT !.buf = Append(@, rep)] ELSE p
                 less == [q EXCEPT !.num = @ - 1]
      <4>1. q = [kind |-> p.kind, i |-> p.i, addr |-> p.addr, num |-> p.num, buf |-> q.buf,
                 given |-> p.given, r0 |-> p.r0]
        BY <2>1
      <4>2. PICK r : n = Went(less, r) \/ n = Went([less EXCEPT !.addr = @ + 4], r)
        <5>1. n = CASE q.num > 0  -> Went([less EXCEPT !.addr = @ + 4], ReqD(In("LOAD", 0), q.addr))
                    [] q.num = -2 -> Went(less, ReqD(In("MOV", 0), q.r0))
                    [] q.num = -5 -> LastReq(q)
                    [] OTHER      -> Went(less, Req(Nop))
          BY <3>1 DEF PlanNext, MemReadNext
        <5>2. q.num \in Int /\ q.num # -5
          BY <2>1, <3>1, <4>1
        <5> HIDE DEF q, n, less
        <5>3. QED
          BY <5>1, <5>2
      <4> HIDE DEF q, n
      <4>3. less = [kind |-> p.kind, i |-> p.i, addr |-> p.addr, num |-> p.num - 1,
                    buf |-> q.buf, given |-> p.given, r0 |-> p.r0]
        BY <4>1
      <4> HIDE DEF less
      <4>4. QED
        <5>1. CASE n = Went(less, r)
          BY <4>3, <5>1 DEF Went
        <5>2. CASE n = Went([less EXCEPT !.addr = @ + 4], r)
          <6>1. [less EXCEPT !.addr = @ + 4] =
                  [kind |-> p.kind, i |-> p.i, addr |-> p.addr + 4, num |-> p.num - 1,
                   buf |-> q.buf, given |-> p.given, r0 |-> p.r0]
            BY <4>3
          <6>2. n.more = TRUE /\ n.plan = 
                  [kind |-> p.kind, i |-> p.i + 1, addr |-> p.addr + 4, num |-> p.num - 1,
                   buf |-> q.buf, given |-> p.given, r0 |-> p.r0]
            BY <5>2, <6>1 DEF Went
          <6>3. QED
            BY <6>2
        <5>3. QED
          BY <4>2, <5>1, <5>2
    <3>2. CASE p.kind = "write"
      <4> DEFINE less == [p EXCEPT !.num = @ - 1]
      <4>1. PICK r : n = Went(less, r)
        BY <2>1, <3>2 DEF PlanNext, MemWriteNext
      <4> HIDE DEF n
      <4>2. less = [kind |-> p.kind, i |-> p.i, addr |-> p.addr, num |-> p.num - 1,
                    buf |-> p.buf, given |-> p.given, r0 |-> p.r0]
        BY <2>1
      <4> HIDE DEF less
      <4>3. QED
        BY <4>1, <4>2 DEF Went
    <3>3. QED
      BY <1>3, <3>1, <3>2
  <2>4. Moved(n.plan) /\ p.i # last => PlanOK(n.plan) /\ n.plan.i = p.i + 1
    <3> HIDE DEF n
    <3>1. QED
      BY <1>3, <2>1 DEF PlanOK
  <2>5. p.i = last => p.i # 0
    OBVIOUS
  <2> HIDE DEF last, Moved
  <2>6. QED
    BY <2>2, <2>3, <2>4, <2>5, Zenon
<1>4. p.kind \in {"dump", "store", "read", "write"}
  BY Zenon DEF PlanOK
<1>5. QED
  BY <1>1, <1>2, <1>3, <1>4

-------------------------------------------------------------------------------
(* The bytes that are still to be parsed.                                    *)

Msg == [cmd : Kinds, id : Nat]

\* Chunk n of what is in the receive buffer and, behind it, on the wire.
Chunk(c, w, n) == IF n <= Len(c) THEN c[n] ELSE w[n - Len(c)]

Chunks(c, w) == 1 .. Len(c) + Len(w)

\* debug_skt_handle takes chunks from the front, whatever the pieces they come in.
LEMMA RecvMoves ==
  ASSUME NEW c \in Seq(Msg), NEW w \in Seq(Msg), NEW k \in 1 .. Len(w)
  PROVE  LET all == c \o SubSeq(w, 1, k)
             w2  == SubSeq(w, k + 1, Len(w))
             c2  == SubSeq(all, 3, Len(all))
         IN  /\ all \in Seq(Msg) /\ w2 \in Seq(Msg)
             /\ Len(all) = Len(c) + k /\ Len(w2) = Len(w) - k
             /\ \A n \in Chunks(all, w2) : Chunk(all, w2, n) = Chunk(c, w, n)
             /\ Len(all) >= 2 =>
                  /\ c2 \in Seq(Msg) /\ Len(c2) = Len(all) - 2
                  /\ all[1] = Chunk(c, w, 1) /\ all[2] = Chunk(c, w, 2)
                  /\ \A n \in Chunks(c2, w2) : Chunk(c2, w2, n) = Chunk(c, w, n + 2)
<1> DEFINE all == c \o SubSeq(w, 1, k)
           w2  == SubSeq(w, k + 1, Len(w))
           c2  == SubSeq(all, 3, Len(all))
<1>1. /\ SubSeq(w, 1, k) \in Seq(Msg) /\ Len(SubSeq(w, 1, k)) = k
      /\ \A n \in 1 .. k : SubSeq(w, 1, k)[n] = w[n]
  BY SubSeqProperties
<1>2. /\ w2 \in Seq(Msg) /\ Len(w2) = Len(w) - k
      /\ \A n \in 1 .. Len(w) - k : w2[n] = w[n + k]
  <2>1. CASE k < Len(w)
    BY <2>1
  <2>2. CASE k = Len(w)
    BY <2>2
  <2>3. QED
    BY <2>1, <2>2
<1>3. /\ all \in Seq(Msg) /\ Len(all) = Len(c) + k
      /\ \A n \in 1 .. Len(all) : all[n] = IF n <= Len(c) THEN c[n] ELSE w[n - Len(c)]
  BY <1>1
<1> HIDE DEF w2, all
<1>4. \A n \in Chunks(all, w2) : Chunk(all, w2, n) = Chunk(c, w, n)
  <2> SUFFICES ASSUME NEW n \in Chunks(all, w2) PROVE Chunk(all, w2, n) = Chunk(c, w, n)
    OBVIOUS
  <2>1. n \in 1 .. Len(c) + Len(w)
    BY <1>2, <1>3 DEF Chunks
  <2>2. CASE n <= Len(all)
    BY <1>3, <2>1, <2>2 DEF Chunk
  <2>3. CASE n > Len(all)
    <3>1. PICK j \in 1 .. Len(w) - k : j = n - Len(all)
      <4>1. n - Len(all) \in 1 .. Len(w) - k
        BY <1>3, <2>1, <2>3
      <4>2. QED
        BY <4>1, Zenon
    <3>2. w2[j] = w[n - Len(c)]
      <4>1. j + k = n - Len(c)
        BY <1>3, <2>1, <3>1
      <4>2. w2[j] = w[j + k]
        BY <1>2
      <4>3. QED
        BY <4>1, <4>2, Zenon
    <3>3. ~(n <= Len(c)) /\ ~(n <= Len(all))
      BY <1>3, <2>3, <2>1
    <3>4. QED
      BY <3>1, <3>2, <3>3, Zenon DEF Chunk
  <2>4. QED
    BY <1>3, <2>1, <2>2, <2>3
<1>5. ASSUME Len(all) >= 2
      PROVE  /\ c2 \in Seq(Msg) /\ Len(c2) = Len(all) - 2
             /\ \A n \in 1 .. Len(all) - 2 : c2[n] = all[n + 2]
  <2>1. CASE Len(all) > 2
    BY <1>3, <1>5, <2>1
  <2>2. CASE Len(all) = 2
    BY <1>3, <1>5, <2>2
  <2>3. QED
    BY <1>3, <1>5, <2>1, <2>2
<1> HIDE DEF c2
<1>6. ASSUME Len(all) >= 2
      PROVE  /\ all[1] = Chunk(c, w, 1) /\ all[2] = Chunk(c, w, 2)
             /\ \A n \in Chunks(c2, w2) : Chunk(c2, w2, n) = Chunk(c, w, n + 2)
  <2>1. all[1] = Chunk(c, w, 1) /\ all[2] = Chunk(c, w, 2)
    BY <1>3, <1>6 DEF Chunk
  <2>2. ASSUME NEW n \in Chunks(c2, w2) PROVE Chunk(c2, w2, n) = Chunk(c, w, n + 2)
    <3>1. n + 2 \in Chunks(all, w2) /\ n \in Nat /\ n >= 1
      BY <1>2, <1>3, <1>5, <1>6 DEF Chunks
    <3>2. Chunk(c2, w2, n) = Chunk(all, w2, n + 2)
      <4>1. CASE n <= Len(c2)
        BY <1>3, <1>5, <1>6, <3>1, <4>1 DEF Chunk
      <4>2. CASE ~(n <= Len(c2))
        <5>1. Len(all) \in Nat /\ Len(c2) = Len(all) - 2
          BY <1>3, <1>5, <1>6
        <5>2. n - Len(c2) = (n + 2) - Len(all) /\ ~(n + 2 <= Len(all))
          BY <3>1, <4>2, <5>1
        <5>3. QED
          BY <4>2, <5>2, Zenon DEF Chunk
      <4>3. QED
        BY <4>1, <4>2
    <3>3. QED
      BY <1>4, <3>1, <3>2
  <2>3. QED
    BY <2>1, <2>2
<1>7. QED
  BY <1>2, <1>3, <1>4, <1>5, <1>6 DEF all, w2, c2

-------------------------------------------------------------------------------
(* The numbers of the requests.                                              *)

\* The requests that have come and are still to be parsed have not been seen before.  A
\* chunk of a message that a hangup cut off may be taken for half of the next one, so
\* only every second chunk is sure to have a number of its own.
StreamInv ==
  /\ content \in Seq(Msg) /\ wire \in Seq(Msg) /\ reqs \in Nat
  /\ port.id <= reqs
  /\ \A n \in Chunks(content, wire) :
       port.id < Chunk(content, wire, n).id /\ Chunk(content, wire, n).id <= reqs
  /\ \A n1, n2 \in Chunks(content, wire) :
       n1 + 2 <= n2 => Chunk(content, wire, n1).id < Chunk(content, wire, n2).id

\* The requests of a plan have numbers below that of the next key.
KeyInv ==
  /\ keys \in Nat
  /\ IF state \in {"RUN", "STEP", "PAUSE"}
       THEN port.id <= 100 * keys + 40
       ELSE PlanOK(plan) /\ port.id < 100 * keys + plan.i

\* A request is carried out once; one that has been is waiting for its acknowledge.
IdInv ==
  /\ port.id \in Nat /\ done \subseteq 0 .. port.id /\ twice = FALSE
  /\ (cmds # <<>> /\ port.id \in done) => fsm \in {"AWAIT_IF", "AWAIT_BREAK"}
  /\ ui = "socket" => StreamInv
  /\ ui # "socket" => KeyInv

\* The test bench knows when the cpu is stopped.
PausedInv == (is_paused /\ cmds = <<>> /\ port.id \notin skipped) => fsm = "READY"

\* The clock edge: the cpu takes a request once, and ack_hook_cb replaces it only when it
\* has been acknowledged.
LEMMA EdgeStep ==
  ASSUME QueueInv, IdInv, PausedInv,
         NEW rose \in BOOLEAN, NEW issue \in BOOLEAN, Edge(rose, issue)
  PROVE  IdInv' /\ PausedInv'
<1> DEFINE st == NextState(rose, issue)
           takes == fsm = "READY" /\ port.en /\ port.cmd # "BREAK"
<1>1. /\ fsm' = st
      /\ done' = IF takes THEN done \cup {port.id} ELSE done
      /\ twice' = (twice \/ (takes /\ port.id \in done))
      /\ skipped' = IF Ack(st) /\ fsm = "RUN" THEN skipped \cup {port.id} ELSE skipped
      /\ UNCHANGED <<ui, content, wire, keys, reqs>>
      /\ phase = "edge" /\ drop_on = FALSE /\ AckHook(st)
      /\ rose => fsm \in {"AWAIT_BREAK", "RUN"}
  BY DEF Edge, ClockEdge, QueueInv
<1>2. fsm \in FsmStates /\ (port.en <=> cmds # <<>>) /\ (ack_on <=> cmds # <<>>)
  BY <1>1 DEF QueueInv
<1>3. /\ st \in FsmStates
      /\ fsm = "READY" /\ ~port.en => st = "READY"
      /\ takes => Ack(st) \/ st \in {"AWAIT_IF", "AWAIT_BREAK"}
      /\ fsm = "AWAIT_IF" => st \in {"AWAIT_IF", "READY"}
      /\ fsm = "AWAIT_BREAK" => st \in {"AWAIT_IF", "AWAIT_BREAK"}
      /\ st = "RUN" => fsm = "RUN" \/ (fsm = "READY" /\ port.cmd = "CONTINUE")
  BY <1>1, <1>2 DEF NextState, Ack, FsmStates
<1>4. Ack(st) <=> port.en /\ st \in {"RUN", "READY"}
  BY DEF Ack
<1> HIDE DEF st
<1>5. /\ twice' = FALSE /\ done' \subseteq 0 .. port.id
      /\ cmds # <<>> /\ ~Ack(st) /\ port.id \in done' => st \in {"AWAIT_IF", "AWAIT_BREAK"}
  <2>1. CASE takes
    <3>1. cmds # <<>> /\ port.id \notin done
      BY <1>2, <2>1 DEF IdInv
    <3>2. twice' = FALSE
      BY <1>1, <3>1, Zenon DEF IdInv
    <3>3. done' \subseteq 0 .. port.id
      <4>1. done' = done \cup {port.id}
        BY <1>1, <2>1, Zenon
      <4>2. port.id \in Nat /\ done \subseteq 0 .. port.id
        BY DEF IdInv
      <4>3. port.id \in 0 .. port.id
        BY <4>2
      <4>4. QED
        BY <4>1, <4>2, <4>3, Zenon
    <3>4. QED
      BY <1>3, <2>1, <3>2, <3>3
  <2>2. CASE ~takes
    <3>1. twice' = FALSE /\ done' = done
      BY <1>1, <2>2 DEF IdInv
    <3>2. ASSUME cmds # <<>>, ~Ack(st), port.id \in done'
          PROVE  st \in {"AWAIT_IF", "AWAIT_BREAK"}
      <4>1. fsm \in {"AWAIT_IF", "AWAIT_BREAK"} /\ port.en
        BY <1>2, <3>1, <3>2 DEF IdInv
      <4>2. QED
        BY <1>3, <1>4, <3>2, <4>1
    <3>3. QED
      BY <3>1, <3>2 DEF IdInv
  <2>3. QED
    BY <2>1, <2>2
<1>6. CASE ~ack_on \/ ~Ack(st)
  <2>1. UNCHANGED <<cmds, port, is_paused, state, plan>>
    BY <1>1, <1>6 DEF AckHook, AckSeen, queue
  <2>2. IdInv'
    BY <1>1, <1>2, <1>5, <1>6, <2>1 DEF IdInv, StreamInv, KeyInv
  <2>3. PausedInv'
    BY <1>1, <1>2, <1>3, <1>4, <1>6, <2>1 DEF PausedInv
  <2>4. QED
    BY <2>2, <2>3
<1>7. CASE ack_on /\ Ack(st)
  <2>1. CASE cmds' = <<>> /\ port' = port /\ is_paused' = (port.cmd # "CONTINUE")
             /\ UNCHANGED <<state, plan>>
    <3>1. IdInv'
      BY <1>1, <1>5, <2>1 DEF IdInv, StreamInv, KeyInv
    <3>2. PausedInv'
      BY <1>1, <1>2, <1>3, <1>4, <1>7, <2>1 DEF PausedInv
    <3>3. QED
      BY <3>1, <3>2
  <2>2. ASSUME NEW r, Started("INSERT", r, port.id + 1),
               ui # "socket", state \notin {"RUN", "STEP", "PAUSE"},
               plan' = PlanNext(plan, dout').plan,
               state' = IF PlanNext(plan, dout').more THEN state ELSE "PAUSE"
        PROVE  IdInv' /\ PausedInv'
    <3>1. cmds' # <<>> /\ port'.id = port.id + 1
      BY <2>2, HeadOfOne DEF Started
    <3>2. KeyInv'
      <4>1. PlanOK(plan) /\ port.id < 100 * keys + plan.i /\ keys \in Nat
        BY <2>2 DEF IdInv, KeyInv
      <4>2. CASE PlanNext(plan, dout').more
        <5>1. state' = state /\ PlanOK(plan') /\ plan'.i = plan.i + 1
          BY <2>2, <4>1, <4>2, PlanStep
        <5>a. plan.i \in 0 .. 36
          BY <4>1, PlanBound, Zenon
        <5>2. plan.i \in Nat /\ port.id \in Nat
          <6>1. port.id \in Nat
            BY DEF IdInv
          <6>2. QED
            BY <5>a, <6>1
        <5>3. QED
          BY <1>1, <2>2, <3>1, <4>1, <5>1, <5>2 DEF KeyInv
      <4>3. CASE ~PlanNext(plan, dout').more
        <5>1. state' = "PAUSE"
          BY <2>2, <4>3
        <5>2. plan.i \in 0 .. 36 /\ port.id \in Nat
          BY <4>1, PlanBound, Zenon DEF IdInv
        <5>3. port.id + 1 <= 100 * keys + 40
          BY <4>1, <5>2
        <5>4. state' \in {"RUN", "STEP", "PAUSE"} /\ keys' \in Nat
          BY <1>1, <4>1, <5>1
        <5>5. port'.id <= 100 * keys' + 40
          BY <1>1, <3>1, <5>3
        <5>6. QED
          BY <5>4, <5>5, Zenon DEF KeyInv
      <4>4. QED
        BY <4>2, <4>3
    <3>3. IdInv'
      BY <1>1, <1>5, <2>2, <3>1, <3>2 DEF IdInv
    <3>4. QED
      BY <3>1, <3>3 DEF PausedInv
  <2>3. QED
    BY <1>1, <1>7, <2>1, <2>2, AckHookActs
<1>8. QED
  BY <1>6, <1>7

\* A new request has a number above all those that were carried out.
LEMMA NewRequest ==
  ASSUME IdInv, NEW c, NEW r, NEW i \in Nat, port.id < i, Started(c, r, i),
         UNCHANGED <<done, twice, ui>>,
         ui = "socket" => StreamInv', ui # "socket" => KeyInv'
  PROVE  IdInv' /\ PausedInv'
<1>1. cmds' # <<>> /\ port'.id = i
  BY HeadOfOne DEF Started
<1>2. port.id \in Nat /\ done \subseteq 0 .. port.id
  BY DEF IdInv
<1>3. done' \subseteq 0 .. port'.id /\ port'.id \notin done'
  <2>1. ASSUME NEW d \in done PROVE d \in 0 .. i /\ d # i
    BY <1>2
  <2>2. QED
    BY <1>1, <2>1, Zenon
<1>4. QED
  BY <1>1, <1>3, Zenon DEF IdInv, PausedInv

\* A command that is parsed has not been seen before, and the chunks behind it come after it.
LEMMA RecvStep == ASSUME QueueInv, IdInv, PausedInv, Recv PROVE IdInv' /\ PausedInv'
<1>1. PICK k \in 1 .. BufLen :
        LET all == content \o SubSeq(wire, 1, k) IN
        /\ ui = "socket" /\ cmds = <<>> /\ k <= Len(wire)
        /\ wire' = SubSeq(wire, k + 1, Len(wire))
        /\ \/ /\ Len(all) >= 2 /\ content' = SubSeq(all, 3, Len(all))
              /\ \/ UNCHANGED queue
                 \/ AddCmd(Cmd(all[1].cmd, Req(Nop), all[1].id))
           \/ content' = all /\ UNCHANGED queue
        /\ UNCHANGED <<ui, reqs, fsm, done, twice, skipped>>
  BY Zenon DEF Recv, Take, cpu
<1> DEFINE all == content \o SubSeq(wire, 1, k)
           Old(n) == Chunk(content, wire, n)
           New(n) == Chunk(content', wire', n)
<1>2. StreamInv
  BY <1>1 DEF IdInv
<1>3. k \in 1 .. Len(wire) /\ content \in Seq(Msg) /\ wire \in Seq(Msg)
  BY <1>1, <1>2 DEF StreamInv
<1>4. /\ all \in Seq(Msg) /\ wire' \in Seq(Msg)
      /\ Len(all) = Len(content) + k /\ Len(wire') = Len(wire) - k
      /\ \A n \in Chunks(all, wire') : Chunk(all, wire', n) = Old(n)
      /\ Len(all) >= 2 /\ content' = SubSeq(all, 3, Len(all)) =>
           /\ content' \in Seq(Msg) /\ Len(content') = Len(all) - 2
           /\ all[1] = Old(1) /\ all[2] = Old(2)
           /\ \A n \in Chunks(content', wire') : New(n) = Old(n + 2)
  <2> DEFINE w2 == SubSeq(wire, k + 1, Len(wire))
             c2 == SubSeq(all, 3, Len(all))
  <2>1. /\ all \in Seq(Msg) /\ w2 \in Seq(Msg)
        /\ Len(all) = Len(content) + k /\ Len(w2) = Len(wire) - k
        /\ \A n \in Chunks(all, w2) : Chunk(all, w2, n) = Old(n)
        /\ Len(all) >= 2 =>
             /\ c2 \in Seq(Msg) /\ Len(c2) = Len(all) - 2
             /\ all[1] = Old(1) /\ all[2] = Old(2)
             /\ \A n \in Chunks(c2, w2) : Chunk(c2, w2, n) = Old(n + 2)
    <3> HIDE DEF Old
    <3>1. QED
      BY <1>3, RecvMoves DEF Old
  <2>2. wire' = w2
    BY <1>1
  <2> HIDE DEF w2, all, Old
  <2>3. QED
    BY <2>1, <2>2, Zenon
<1> HIDE DEF all
<1>a. Len(content) \in Nat /\ Len(wire) \in Nat /\ k \in Nat
  BY <1>3
<1>5. CASE content' = all /\ UNCHANGED queue
  <2>1. StreamInv'
    <3>1. Chunks(content', wire') = Chunks(content, wire)
      <4>1. Len(content') = Len(content) + k /\ Len(wire') = Len(wire) - k
        BY <1>4, <1>5, Zenon
      <4>2. QED
        BY <1>a, <4>1 DEF Chunks
    <3>2. \A n \in Chunks(content, wire) : New(n) = Old(n)
      BY <1>4, <1>5, <3>1
    <3>3. content' \in Seq(Msg) /\ wire' \in Seq(Msg) /\ port' = port /\ reqs' = reqs
      BY <1>1, <1>4, <1>5 DEF queue
    <3>4. QED
      <4> HIDE DEF New, Old
      <4>1. QED
        BY <1>2, <3>1, <3>2, <3>3 DEF StreamInv, New, Old
  <2>2. QED
    BY <1>1, <1>5, <2>1 DEF IdInv, PausedInv, queue
<1>6. CASE Len(all) >= 2 /\ content' = SubSeq(all, 3, Len(all))
  <2>1. /\ \A n \in Chunks(content', wire') : n + 2 \in Chunks(content, wire) /\ New(n) = Old(n + 2)
        /\ 1 \in Chunks(content, wire)
    <3>1. Len(content') + Len(wire') = Len(content) + Len(wire) - 2
      <4>1. /\ Len(content') = Len(all) - 2 /\ Len(wire') = Len(wire) - k
            /\ Len(all) = Len(content) + k
        BY <1>4, <1>6, Zenon
      <4>2. QED
        BY <1>a, <4>1
    <3>2. Len(content) \in Nat /\ Len(wire) \in Nat /\ Len(content) + k >= 2
      BY <1>3, <1>4, <1>6
    <3>3. ASSUME NEW n \in Chunks(content', wire') PROVE n + 2 \in Chunks(content, wire)
      BY <3>1, <3>2 DEF Chunks
    <3>4. 1 \in Chunks(content, wire)
      BY <1>3, <3>2 DEF Chunks
    <3>5. QED
      BY <1>4, <1>6, <3>3, <3>4, Zenon
  <2>2. \A n1, n2 \in Chunks(content', wire') :
          n1 + 2 <= n2 => New(n1).id < New(n2).id
    <3> SUFFICES ASSUME NEW n1 \in Chunks(content', wire'), NEW n2 \in Chunks(content', wire'),
                        n1 + 2 <= n2
                 PROVE  New(n1).id < New(n2).id
      OBVIOUS
    <3>1. (n1 + 2) + 2 <= n2 + 2
      BY DEF Chunks
    <3>2. QED
      BY <1>2, <2>1, <3>1 DEF StreamInv
  <2>3. \A n \in Chunks(content', wire') :
          /\ New(n).id <= reqs
          /\ port.id < New(n).id /\ Old(1).id < New(n).id
    <3> SUFFICES ASSUME NEW n \in Chunks(content', wire')
                 PROVE  New(n).id <= reqs /\ port.id < New(n).id /\ Old(1).id < New(n).id
      OBVIOUS
    <3>1. 1 + 2 <= n + 2
      BY DEF Chunks
    <3>2. QED
      BY <1>2, <2>1, <3>1 DEF StreamInv
  <2>4. Old(1).id \in Nat /\ port.id < Old(1).id /\ Old(1).id <= reqs
    <3>1. Old(1) \in Msg
      BY <1>3, <2>1 DEF Chunk, Chunks
    <3>2. QED
      BY <1>2, <2>1, <3>1 DEF StreamInv, Msg
  <2>5. CASE UNCHANGED queue
    <3>1. StreamInv'
      BY <1>1, <1>2, <1>4, <1>6, <2>2, <2>3, <2>5 DEF StreamInv, queue
    <3>2. QED
      BY <1>1, <2>5, <3>1 DEF IdInv, PausedInv, queue
  <2>6. CASE AddCmd(Cmd(all[1].cmd, Req(Nop), all[1].id))
    <3>1. Started(all[1].cmd, Req(Nop), all[1].id)
      BY <1>1, <2>6, AddCmdActs
    <3>2. port'.id = Old(1).id
      BY <1>4, <1>6, <3>1 DEF Started
    <3>3. StreamInv'
      BY <1>1, <1>2, <1>4, <1>6, <2>2, <2>3, <2>4, <3>2 DEF StreamInv
    <3>4. all[1].id = Old(1).id
      BY <1>4, <1>6
    <3>5. QED
      BY <1>1, <2>4, <3>1, <3>3, <3>4, NewRequest, Zenon
  <2>7. QED
    BY <1>1, <2>5, <2>6, <1>6 DEF all
<1>7. QED
  BY <1>1, <1>5, <1>6 DEF all

\* A key that starts a plan leaves it at its second request.
LEMMA KeyPlanStarts ==
  ASSUME NEW k \in {"d", "D", "r", "w"}, NEW given \in BOOLEAN
  PROVE  LET n == PlanNext(KeyPlan(k, given), dout) IN PlanOK(n.plan) /\ n.plan.i = 1
<1> DEFINE p == KeyPlan(k, given)
<1>1. PlanOK(p) /\ p.i = 0
  <2>1. CASE k = "d"
    BY <2>1 DEF KeyPlan, RegsPlan, PlanOK
  <2>2. CASE k = "D"
    BY <2>2 DEF KeyPlan, RegsPlan, PlanOK
  <2>3. CASE k = "r"
    BY <2>3 DEF KeyPlan, MemReadPlan, PlanOK
  <2>4. CASE k = "w"
    BY <2>4 DEF KeyPlan, MemWritePlan, PlanOK
  <2>5. QED
    BY <2>1, <2>2, <2>3, <2>4
<1> HIDE DEF p
<1>2. 0 + 1 = 1
  OBVIOUS
<1>3. QED
  BY <1>1, <1>2, PlanStep DEF p

\* A key's request has a number above those of the key before it.
LEMMA KeyStep == ASSUME QueueInv, IdInv, PausedInv, Key PROVE IdInv' /\ PausedInv'
<1>1. /\ ui # "socket" /\ state \in {"RUN", "PAUSE"} /\ keys' = keys + 1
      /\ UNCHANGED <<ui, done, twice>>
  BY DEF Key, cpu
<1>2. keys \in Nat /\ port.id \in Nat /\ port.id <= 100 * keys + 40
  BY <1>1 DEF IdInv, KeyInv
<1>3. PICK c, r : AddCmd(Cmd(c, r, KeyId))
  BY KeyActs
<1>4. Started(c, r, KeyId)
  BY <1>3, KeyActs, AddCmdActs
<1>5. KeyId \in Nat /\ port.id < KeyId /\ KeyId = 100 * keys' /\ keys' \in Nat
  BY <1>1, <1>2 DEF KeyId
<1>6. port'.id = KeyId
  BY <1>4 DEF Started
<1>7. KeyInv'
  <2>1. CASE state' \in {"RUN", "STEP", "PAUSE"}
    <3>1. port'.id <= 100 * keys' + 40
      <4>1. PICK j \in Nat : j = keys'
        BY <1>5
      <4>2. 100 * j <= 100 * j + 40
        OBVIOUS
      <4>3. QED
        BY <1>5, <1>6, <4>1, <4>2, Zenon
    <3>2. QED
      BY <1>5, <2>1, <3>1, Zenon DEF KeyInv
  <2>2. CASE state' \notin {"RUN", "STEP", "PAUSE"}
    <3>1. PICK k \in {"d", "D", "r", "w"}, given \in Givens :
               plan' = PlanNext(KeyPlan(k, given), dout).plan
      BY <1>1, <2>2 DEF Key
    <3>2. PlanOK(plan') /\ plan'.i = 1
      BY <3>1, GivensAssumption, KeyPlanStarts
    <3>3. port'.id < 100 * keys' + plan'.i
      <4>1. PICK j \in Nat : j = keys'
        BY <1>5
      <4>2. 100 * j < 100 * j + 1
        OBVIOUS
      <4>3. QED
        BY <1>5, <1>6, <3>2, <4>1, <4>2, Zenon
    <3>4. QED
      BY <1>5, <2>2, <3>2, <3>3, Zenon DEF KeyInv
  <2>3. QED
    BY <2>1, <2>2
<1>8. QED
  BY <1>1, <1>4, <1>5, <1>7, NewRequest

\* A chunk is a part of a message.
LEMMA ChunkIsMsg ==
  ASSUME NEW c \in Seq(Msg), NEW w \in Seq(Msg), NEW n \in Chunks(c, w)
  PROVE  Chunk(c, w, n) \in Msg /\ Chunk(c, w, n).id \in Nat
<1>1. n \in 1 .. Len(c) \/ n - Len(c) \in 1 .. Len(w)
  BY DEF Chunks
<1>2. Chunk(c, w, n) \in Msg
  BY <1>1 DEF Chunk, Chunks
<1>3. QED
  BY <1>2 DEF Msg

\* A new message has a number of its own.
LEMMA AskStep == ASSUME QueueInv, IdInv, PausedInv, Ask PROVE IdInv' /\ PausedInv'
<1>1. PICK c \in Kinds :
        /\ reqs' = reqs + 1
        /\ wire' = wire \o <<[cmd |-> c, id |-> reqs'], [cmd |-> c, id |-> reqs']>>
        /\ UNCHANGED <<ui, queue, cpu, socket, keyboard>>
  BY DEF Ask
<1>2. CASE ui # "socket"
  BY <1>1, <1>2 DEF IdInv, KeyInv, PausedInv, queue, cpu, keyboard
<1>3. CASE ui = "socket"
  <2> DEFINE m == [cmd |-> c, id |-> reqs']
  <2>1. StreamInv /\ port.id \in Nat
    BY <1>3 DEF IdInv
  <2>2. /\ reqs \in Nat /\ content \in Seq(Msg) /\ wire \in Seq(Msg)
        /\ Len(content) \in Nat /\ Len(wire) \in Nat
    BY <2>1 DEF StreamInv
  <2>3. m \in Msg /\ m.id = reqs + 1
    BY <1>1, <2>2 DEF Msg
  <2> HIDE DEF m
  <2>4. /\ wire' \in Seq(Msg) /\ Len(wire') = Len(wire) + 2
        /\ \A n \in 1 .. Len(wire) : wire'[n] = wire[n]
        /\ wire'[Len(wire) + 1] = m /\ wire'[Len(wire) + 2] = m
    BY <1>1, <2>2, <2>3 DEF m
  <2>5. content' = content /\ port' = port
    BY <1>1 DEF socket, queue
  <2>6. ASSUME NEW n \in Chunks(content', wire')
        PROVE  \/ n \in Chunks(content, wire)
                  /\ Chunk(content', wire', n) = Chunk(content, wire, n)
               \/ n > Len(content) + Len(wire) /\ Chunk(content', wire', n) = m
    <3>1. n \in 1 .. Len(content) + Len(wire) + 2
      BY <2>2, <2>4, <2>5 DEF Chunks
    <3>2. CASE n <= Len(content)
      BY <2>2, <2>5, <3>1, <3>2 DEF Chunk, Chunks
    <3>3. CASE n > Len(content) /\ n <= Len(content) + Len(wire)
      <4>1. n - Len(content) \in 1 .. Len(wire) /\ ~(n <= Len(content))
        BY <2>2, <3>1, <3>3
      <4>2. n \in Chunks(content, wire)
        BY <2>2, <3>1, <3>3 DEF Chunks
      <4>3. wire'[n - Len(content)] = wire[n - Len(content)]
        BY <2>4, <4>1
      <4>4. QED
        BY <2>5, <4>1, <4>2, <4>3, Zenon DEF Chunk
    <3>4. CASE n > Len(content) + Len(wire)
      <4>1. n - Len(content) = Len(wire) + 1 \/ n - Len(content) = Len(wire) + 2
        BY <2>2, <3>1, <3>4
      <4>2. ~(n <= Len(content))
        BY <2>2, <3>1, <3>4
      <4>3. QED
        BY <2>4, <2>5, <3>4, <4>1, <4>2, Zenon DEF Chunk
    <3>5. QED
      BY <2>2, <3>1, <3>2, <3>3, <3>4
  <2>7. StreamInv'
    <3>1. ASSUME NEW n \in Chunks(content', wire')
          PROVE  /\ port'.id < Chunk(content', wire', n).id
                 /\ Chunk(content', wire', n).id <= reqs'
      <4>1. CASE n \in Chunks(content, wire) /\ Chunk(content', wire', n) = Chunk(content, wire, n)
        <5>1. /\ port.id < Chunk(content, wire, n).id
              /\ Chunk(content, wire, n).id <= reqs
          BY <2>1, <4>1 DEF StreamInv
        <5>2. Chunk(content, wire, n).id \in Nat
          BY <2>2, <4>1, ChunkIsMsg
        <5>3. QED
          BY <1>1, <2>2, <2>5, <4>1, <5>1, <5>2
      <4>2. CASE Chunk(content', wire', n) = m
        <5>1. port.id <= reqs
          BY <2>1 DEF StreamInv
        <5>2. QED
          BY <1>1, <2>1, <2>2, <2>3, <2>5, <4>2, <5>1
      <4>3. QED
        BY <2>6, <4>1, <4>2
    <3>2. ASSUME NEW n1 \in Chunks(content', wire'), NEW n2 \in Chunks(content', wire'),
                 n1 + 2 <= n2
          PROVE  Chunk(content', wire', n1).id < Chunk(content', wire', n2).id
      <4>1. n1 \in Chunks(content, wire)
            /\ Chunk(content', wire', n1) = Chunk(content, wire, n1)
        <5>1. ~(n1 > Len(content) + Len(wire))
          BY <2>2, <2>4, <2>5, <3>2 DEF Chunks
        <5>2. QED
          BY <2>6, <5>1, Zenon
      <4>2. CASE n2 \in Chunks(content, wire)
                 /\ Chunk(content', wire', n2) = Chunk(content, wire, n2)
        BY <2>1, <3>2, <4>1, <4>2 DEF StreamInv
      <4>3. CASE Chunk(content', wire', n2) = m
        <5>1. Chunk(content, wire, n1).id <= reqs
          BY <2>1, <4>1 DEF StreamInv
        <5>2. Chunk(content, wire, n1).id \in Nat
          BY <2>2, <4>1, ChunkIsMsg
        <5>3. QED
          BY <2>2, <2>3, <4>1, <4>3, <5>1, <5>2
      <4>4. QED
        BY <2>6, <4>2, <4>3
    <3>3. /\ content' \in Seq(Msg) /\ wire' \in Seq(Msg) /\ reqs' \in Nat
          /\ port'.id <= reqs'
      <4>1. port.id <= reqs
        BY <2>1 DEF StreamInv
      <4>2. QED
        BY <1>1, <2>1, <2>2, <2>4, <2>5, <4>1
    <3>4. QED
      BY <3>1, <3>2, <3>3, Zenon DEF StreamInv
  <2>8. QED
    BY <1>1, <2>7, <1>3, Zenon DEF IdInv, PausedInv, queue, cpu
<1>4. QED
  BY <1>2, <1>3

\* A new connection: the bytes of the old one that nobody has read are gone.
LEMMA ConnectStep == ASSUME QueueInv, IdInv, PausedInv, Connect PROVE IdInv' /\ PausedInv'
<1>1. /\ ui = "socket" /\ wire' = <<>>
      /\ UNCHANGED <<ui, queue, cpu, content, reqs>>
  BY DEF Connect, socket
<1>2. StreamInv
  BY <1>1 DEF IdInv
<1>3. StreamInv'
  <2>1. /\ content \in Seq(Msg) /\ wire \in Seq(Msg)
        /\ Len(content) \in Nat /\ Len(wire) \in Nat
        /\ content' = content /\ wire' \in Seq(Msg) /\ Len(wire') = 0
    BY <1>1, <1>2 DEF StreamInv
  <2>2. ASSUME NEW n \in Chunks(content', wire')
        PROVE  /\ n \in Chunks(content, wire)
               /\ Chunk(content', wire', n) = Chunk(content, wire, n)
    BY <2>1 DEF Chunk, Chunks
  <2>3. port' = port /\ reqs' = reqs
    BY <1>1 DEF queue
  <2>4. QED
    BY <1>2, <2>1, <2>2, <2>3, Zenon DEF StreamInv
<1>4. QED
  BY <1>1, <1>3, Zenon DEF IdInv, PausedInv, queue, cpu

\* Every step keeps the numbers of the requests in order, and is_paused true.
LEMMA IdStep == QueueInv /\ IdInv /\ PausedInv /\ [Next]_vars => IdInv' /\ PausedInv'
<1> SUFFICES ASSUME QueueInv, IdInv, PausedInv, [Next]_vars PROVE IdInv' /\ PausedInv'
  OBVIOUS
<1>1. CASE Quarter
  <2>1. port'.id = port.id
    BY <1>1 DEF Quarter, DropEn, QueueInv
  <2>2. UNCHANGED <<ui, cmds, is_paused, fsm, done, twice, skipped, content, wire, reqs, keys,
                    state, plan>>
    BY <1>1 DEF Quarter, cpu, socket, keyboard, other
  <2>3. (StreamInv => StreamInv') /\ (KeyInv => KeyInv')
    BY <2>1, <2>2 DEF StreamInv, KeyInv
  <2>4. QED
    BY <2>1, <2>2, <2>3 DEF IdInv, PausedInv
<1>2. CASE EndPoll \/ Idle \/ Accept \/ Closed \/ Hangup \/ UNCHANGED vars
  <2>1. UNCHANGED <<ui, queue, cpu, content, wire, reqs, keyboard>>
    BY <1>2 DEF EndPoll, Idle, Accept, Closed, Hangup, vars, socket, other
  <2>2. QED
    BY <2>1 DEF IdInv, PausedInv, StreamInv, KeyInv, queue, cpu, keyboard
<1>3. QED
  BY <1>1, <1>2, EdgeStep, RecvStep, KeyStep, AskStep, ConnectStep DEF Next, MainLoop, Clock

-------------------------------------------------------------------------------
(* The connection.                                                           *)

\* The request that is queued, and what is owed for message m when it is parsed.
CmdDue == IF cmds = <<>> THEN <<>> ELSE <<port.id>>
MsgDue(m) == IF m.cmd = "notify" THEN <<>> ELSE <<m.id>>

First == Chunk(content, wire, 1)

\* Message m is on its way, in one piece or in two.
Coming(m) ==
  /\ Len(content) <= 1 /\ Len(content) + Len(wire) = 2
  /\ \A n \in Chunks(content, wire) : Chunk(content, wire, n) = m

\* The requests without a reply are s, in this order.  A connection that the peer has
\* closed is owed nothing.
Owed(s) == peer # "closed" => asked = got \o s

\* At most one message is under way behind the command that is queued; nothing is left
\* of a connection that has ended.
ConnInv ==
  /\ got \in Seq(Nat) /\ asked \in Seq(Nat) /\ IsPrefix(got, asked)
  /\ content # <<>> => conn # 0 /\ cmds = <<>>
  /\ \/ content = <<>> /\ wire = <<>> /\ Owed(CmdDue)
     \/ Coming(First) /\ Owed(CmdDue \o MsgDue(First))

SocketInv ==
  /\ ui = "socket" => /\ hasty \in BOOLEAN
                      /\ ~hasty => ConnInv
                      /\ conn = 0 => cmds = <<>>
                      /\ cmds # <<>> => port.id > 0
                      /\ conn # 0 => peer \in {"open", "closed"}
  /\ ui # "socket" => peer = "off" /\ got = <<>>

\* What a reply does to the requests that are owed one, and what a new request does.
LEMMA OwedFacts ==
  ASSUME NEW g \in Seq(Nat), NEW s \in Seq(Nat), NEW x \in Nat
  PROVE  /\ g \o (<<x>> \o s) = Append(g, x) \o s
         /\ Append(g \o s, x) = g \o (s \o <<x>>)
         /\ g \o <<>> = g /\ <<>> \o g = g
<1>1. g \o (<<x>> \o s) = Append(g, x) \o s
  OBVIOUS
<1>2. Append(g \o s, x) = g \o (s \o <<x>>)
  <2>1. g \o s \in Seq(Nat) /\ <<x>> \in Seq(Nat)
    OBVIOUS
  <2>2. Append(g \o s, x) = (g \o s) \o <<x>>
    BY <2>1, AppendIsConcat
  <2>3. QED
    BY <2>1, <2>2, ConcatAssociative
<1>3. g \o <<>> = g /\ <<>> \o g = g
  OBVIOUS
<1>4. QED
  BY <1>1, <1>2, <1>3

\* What has been answered comes before what is owed.
LEMMA PrefixOfConcat ==
  ASSUME NEW g \in Seq(Nat), NEW s \in Seq(Nat), NEW t, t = g \o s
  PROVE  IsPrefix(g, t)
BY DEF IsPrefix

\* The reply to a request goes to the peer that sent it, in its turn.
LEMMA EdgeSocket ==
  ASSUME QueueInv, IdInv, SocketInv,
         NEW rose \in BOOLEAN, NEW issue \in BOOLEAN, Edge(rose, issue)
  PROVE  SocketInv'
<1> DEFINE st == NextState(rose, issue)
<1>1. /\ UNCHANGED <<ui, content, wire, peer, asked, hasty>>
      /\ drop_on = FALSE /\ AckHook(st)
  BY DEF Edge, QueueInv
<1> HIDE DEF st
<1>2. CASE ~ack_on \/ ~Ack(st)
  <2>1. UNCHANGED <<cmds, port, conn, got>>
    BY <1>1, <1>2 DEF AckHook, AckSeen, queue
  <2>2. ConnInv => ConnInv'
    BY <1>1, <2>1 DEF ConnInv, Owed, CmdDue, MsgDue, First, Coming
  <2>3. QED
    BY <1>1, <2>1, <2>2 DEF SocketInv
<1>3. CASE ack_on /\ Ack(st) /\ ui # "socket"
  <2>1. UNCHANGED got
    BY <1>1, <1>3 DEF AckHook, AckSeen
  <2>2. QED
    BY <1>1, <1>3, <2>1 DEF SocketInv
<1>4. CASE ack_on /\ Ack(st) /\ ui = "socket"
  <2>1. Send(port.id) /\ cmds' = <<>> /\ cmds # <<>>
    BY <1>1, <1>4 DEF AckHook, AckSeen, QueueInv
  <2>2. port.id \in Nat /\ port.id # 0 /\ conn # 0 /\ peer \in {"open", "closed"}
    BY <1>4, <2>1 DEF IdInv, SocketInv
  <2>3. \/ peer = "open" /\ got' = Append(got, port.id)
        \/ peer = "closed" /\ got' = got
    BY <2>1, <2>2 DEF Send
  <2>4. ASSUME ~hasty PROVE ConnInv'
    <3>1. ConnInv
      BY <1>4, <2>4 DEF SocketInv
    <3>2. content = <<>> /\ got \in Seq(Nat) /\ asked \in Seq(Nat)
      BY <2>1, <3>1 DEF ConnInv
    <3>3. CmdDue = <<port.id>> /\ CmdDue' = <<>> /\ First' = First
      BY <1>1, <2>1 DEF CmdDue, First
    <3>4. CASE wire = <<>> /\ Owed(CmdDue)
      <4>1. Owed(<<>>)'
        <5>1. got \o <<port.id>> = Append(got, port.id) \o <<>>
          BY <2>2, <3>2
        <5>2. QED
          BY <1>1, <2>3, <3>3, <3>4, <5>1, Zenon DEF Owed
      <4>2. got' \in Seq(Nat) /\ IsPrefix(got', asked')
        <5>1. CASE peer = "closed"
          BY <1>1, <2>3, <3>1, <5>1 DEF ConnInv
        <5>2. CASE peer # "closed"
          <6>1. got' \in Seq(Nat) /\ asked' = got' \o <<>>
            BY <1>1, <2>2, <2>3, <3>2, <4>1, <5>2 DEF Owed
          <6>2. <<>> \in Seq(Nat)
            OBVIOUS
          <6>3. QED
            BY <6>1, <6>2, PrefixOfConcat
        <5>3. QED
          BY <5>1, <5>2
      <4>3. QED
        BY <1>1, <2>1, <3>2, <3>3, <3>4, <4>1, <4>2, Zenon DEF ConnInv
    <3>5. CASE Coming(First) /\ Owed(CmdDue \o MsgDue(First))
      <4> DEFINE s == MsgDue(First)
      <4>1. s \in Seq(Nat)
        <5>1. StreamInv /\ Len(wire) = 2
          BY <1>4, <3>2, <3>5 DEF IdInv, Coming
        <5>2. First \in Msg
          <6>1. content \in Seq(Msg) /\ wire \in Seq(Msg) /\ 1 \in Chunks(content, wire)
            BY <3>2, <5>1 DEF StreamInv, Chunks
          <6>2. QED
            BY <6>1, ChunkIsMsg DEF First
        <5>3. QED
          BY <5>2 DEF MsgDue, Msg
      <4> HIDE DEF s
      <4>2. <<>> \o s = s /\ MsgDue(First)' = s /\ MsgDue(First) = s
        <5>1. <<>> \o s = s
          BY <4>1
        <5>2. QED
          BY <3>3, <5>1 DEF s, MsgDue
      <4>3. peer # "closed" => asked' = got' \o s
        <5>1. got \o (<<port.id>> \o s) = Append(got, port.id) \o s
          BY <2>2, <3>2, <4>1, OwedFacts, Zenon
        <5>2. QED
          BY <1>1, <2>3, <3>3, <3>5, <4>2, <5>1, Zenon DEF Owed
      <4>4. got' \in Seq(Nat) /\ IsPrefix(got', asked')
        <5>1. CASE peer = "closed"
          BY <1>1, <2>3, <3>1, <5>1 DEF ConnInv
        <5>2. CASE peer # "closed"
          <6>a. got' = Append(got, port.id)
            BY <2>3, <5>2
          <6>1. got' \in Seq(Nat)
            BY <2>2, <3>2, <6>a
          <6>2. asked' = got' \o s
            BY <4>3, <5>2
          <6>3. QED
            BY <4>1, <6>1, <6>2, PrefixOfConcat, Zenon
        <5>3. QED
          BY <5>1, <5>2
      <4>5. Coming(First)'
        BY <1>1, <3>3, <3>5 DEF Coming
      <4>6. Owed(CmdDue \o MsgDue(First))'
        BY <1>1, <3>3, <4>2, <4>3, Zenon DEF Owed
      <4>7. QED
        BY <1>1, <2>1, <3>2, <4>4, <4>5, <4>6, Zenon DEF ConnInv
    <3>6. QED
      BY <3>1, <3>4, <3>5 DEF ConnInv
  <2>5. QED
    BY <1>1, <1>4, <2>1, <2>2, <2>4 DEF SocketInv
<1>5. QED
  BY <1>2, <1>3, <1>4

\* One recv: what it does to the connection.
LEMMA RecvConn ==
  ASSUME QueueInv, Recv
  PROVE  \E k \in 1 .. Len(wire) :
         LET all == content \o SubSeq(wire, 1, k) IN
         /\ ui = "socket" /\ cmds = <<>> /\ conn # 0
         /\ UNCHANGED <<ui, peer, asked, hasty>>
         /\ wire' = SubSeq(wire, k + 1, Len(wire))
         /\ \/ /\ Len(all) < 2 /\ content' = all
               /\ UNCHANGED <<cmds, port, got, conn>>
            \/ /\ Len(all) >= 2 /\ content' = SubSeq(all, 3, Len(all))
               /\ all[1].cmd = "notify"
               /\ UNCHANGED <<cmds, port, got>>
            \/ /\ Len(all) >= 2 /\ content' = SubSeq(all, 3, Len(all))
               /\ all[1].cmd # "notify"
               /\ Started(all[1].cmd, Req(Nop), all[1].id) /\ UNCHANGED <<got, conn>>
<1>1. PICK k \in 1 .. BufLen :
        LET all == content \o SubSeq(wire, 1, k) IN
        /\ ui = "socket" /\ cmds = <<>> /\ conn # 0 /\ k <= Len(wire)
        /\ UNCHANGED <<ui, peer, asked, hasty>>
        /\ wire' = SubSeq(wire, k + 1, Len(wire))
        /\ IF Len(all) >= 2
             THEN /\ content' = SubSeq(all, 3, Len(all))
                  /\ IF all[1].cmd = "notify"
                       THEN UNCHANGED <<queue, got>>
                       ELSE /\ AddCmd(Cmd(all[1].cmd, Req(Nop), all[1].id))
                            /\ UNCHANGED <<got, conn>>
             ELSE content' = all /\ UNCHANGED <<queue, got, conn>>
  BY DEF Recv, Take, Send
<1> DEFINE all == content \o SubSeq(wire, 1, k)
<1> HIDE DEF all
<1>2. k \in 1 .. Len(wire)
  BY <1>1
<1>3. CASE Len(all) >= 2 /\ all[1].cmd # "notify"
  <2>1. AddCmd(Cmd(all[1].cmd, Req(Nop), all[1].id))
    BY <1>1, <1>3 DEF all
  <2>2. Started(all[1].cmd, Req(Nop), all[1].id)
    BY <1>1, <2>1, AddCmdActs
  <2>3. QED
    BY <1>1, <1>2, <1>3, <2>2, Zenon DEF all
<1>4. CASE Len(all) >= 2 /\ all[1].cmd = "notify"
  BY <1>1, <1>2, <1>4, Zenon DEF all, queue
<1>5. CASE ~(Len(all) >= 2)
  <2>1. Len(all) < 2
    BY <1>5
  <2>2. QED
    BY <1>1, <1>2, <1>5, <2>1, Zenon DEF all, queue
<1>6. QED
  BY <1>3, <1>4, <1>5

\* However a message is cut, its last piece completes it and leaves nothing behind.
LEMMA RecvSocket == ASSUME QueueInv, IdInv, SocketInv, Recv PROVE SocketInv'
<1>1. PICK k \in 1 .. Len(wire) :
         LET all == content \o SubSeq(wire, 1, k) IN
         /\ ui = "socket" /\ cmds = <<>> /\ conn # 0
         /\ UNCHANGED <<ui, peer, asked, hasty>>
         /\ wire' = SubSeq(wire, k + 1, Len(wire))
         /\ \/ /\ Len(all) < 2 /\ content' = all
               /\ UNCHANGED <<cmds, port, got, conn>>
            \/ /\ Len(all) >= 2 /\ content' = SubSeq(all, 3, Len(all))
               /\ all[1].cmd = "notify"
               /\ UNCHANGED <<cmds, port, got>>
            \/ /\ Len(all) >= 2 /\ content' = SubSeq(all, 3, Len(all))
               /\ all[1].cmd # "notify"
               /\ Started(all[1].cmd, Req(Nop), all[1].id) /\ UNCHANGED <<got, conn>>
  BY RecvConn
<1> DEFINE all == content \o SubSeq(wire, 1, k)
           w2 == SubSeq(wire, k + 1, Len(wire))
           c2 == SubSeq(all, 3, Len(all))
<1>2. /\ StreamInv /\ content \in Seq(Msg) /\ wire \in Seq(Msg) /\ port.id \in Nat
      /\ Len(content) \in Nat /\ Len(wire) \in Nat /\ k \in Nat /\ k >= 1 /\ k <= Len(wire)
  BY <1>1 DEF IdInv, StreamInv
<1>3. /\ all \in Seq(Msg) /\ w2 \in Seq(Msg)
      /\ Len(all) = Len(content) + k /\ Len(w2) = Len(wire) - k
      /\ \A n \in Chunks(all, w2) : Chunk(all, w2, n) = Chunk(content, wire, n)
      /\ Len(all) >= 2 =>
           /\ c2 \in Seq(Msg) /\ Len(c2) = Len(all) - 2
           /\ all[1] = First
  BY <1>2, RecvMoves DEF First
<1>4. First \in Msg /\ First.id \in Nat /\ port.id < First.id
  <2>1. 1 \in Chunks(content, wire)
    BY <1>2 DEF Chunks
  <2>2. QED
    BY <1>2, <2>1, ChunkIsMsg DEF First, StreamInv
<1>5. wire' = w2 /\ peer \in {"open", "closed"}
  BY <1>1 DEF SocketInv
<1> HIDE DEF all, w2, c2
<1>6. ASSUME ~hasty
      PROVE  /\ ConnInv /\ Coming(First) /\ Owed(MsgDue(First))
             /\ Len(content) <= 1 /\ Len(content) + Len(wire) = 2
  <2>1. ConnInv
    BY <1>1, <1>6 DEF SocketInv
  <2>2. wire # <<>>
    BY <1>2
  <2>3. Coming(First) /\ Owed(CmdDue \o MsgDue(First))
    BY <2>1, <2>2 DEF ConnInv
  <2>4. CmdDue \o MsgDue(First) = MsgDue(First)
    <3>1. MsgDue(First) \in Seq(Nat) /\ CmdDue = <<>>
      BY <1>1, <1>4 DEF MsgDue, CmdDue
    <3>2. QED
      BY <3>1
  <2>5. QED
    BY <2>1, <2>3, <2>4, Zenon DEF Coming
<1>7. CASE Len(all) < 2 /\ content' = all /\ UNCHANGED <<cmds, port, got, conn>>
  <2>1. ASSUME ~hasty PROVE ConnInv'
    <3>1. /\ Len(content') = Len(content) + k /\ Len(wire') = Len(wire) - k
          /\ Len(content') < 2
      BY <1>3, <1>5, <1>7, Zenon
    <3>2. Len(content') <= 1 /\ Len(content') + Len(wire') = 2
      <4>1. Len(content) + Len(wire) = 2
        BY <1>6, <2>1
      <4>2. QED
        BY <1>2, <3>1, <4>1
    <3>3. \A n \in Chunks(content', wire') : Chunk(content', wire', n) = First
      <4>1. Chunks(content', wire') = Chunks(content, wire)
        <5>1. Len(content) + Len(wire) = 2
          BY <1>6, <2>1
        <5>2. QED
          BY <3>2, <5>1, Zenon DEF Chunks
      <4>2. \A n \in Chunks(content, wire) : Chunk(content, wire, n) = First
        BY <1>6, <2>1 DEF Coming
      <4>3. QED
        BY <1>3, <1>5, <1>7, <4>1, <4>2, Zenon
    <3>4. First' = First
      <4>1. 1 \in Chunks(content', wire')
        BY <3>2 DEF Chunks
      <4>2. QED
        BY <3>3, <4>1 DEF First
    <3>5. Coming(First)'
      BY <3>2, <3>3, <3>4, Zenon DEF Coming
    <3>6. Owed(CmdDue \o MsgDue(First))'
      <4>1. MsgDue(First)' = MsgDue(First) /\ CmdDue' = <<>>
        BY <1>1, <1>7, <3>4 DEF MsgDue, CmdDue
      <4>2. <<>> \o MsgDue(First) = MsgDue(First)
        <5>1. MsgDue(First) \in Seq(Nat)
          BY <1>4 DEF MsgDue
        <5>2. QED
          BY <5>1
      <4>3. peer' # "closed" => asked' = got' \o MsgDue(First)
        BY <1>1, <1>6, <1>7, <2>1 DEF Owed
      <4>4. QED
        BY <4>1, <4>2, <4>3, Zenon DEF Owed
    <3>7. ConnInv
      BY <1>6, <2>1
    <3>8. QED
      BY <1>1, <1>7, <3>5, <3>6, <3>7, Zenon DEF ConnInv
  <2>2. QED
    BY <1>1, <1>7, <2>1 DEF SocketInv
<1>8. ASSUME ~hasty, Len(all) >= 2, content' = SubSeq(all, 3, Len(all))
      PROVE  content' = <<>> /\ wire' = <<>>
  <2>1. content' = c2
    BY <1>8 DEF c2
  <2>2. /\ Len(content') = Len(all) - 2 /\ Len(wire') = Len(wire) - k
        /\ content' \in Seq(Msg) /\ wire' \in Seq(Msg) /\ Len(all) = Len(content) + k
    BY <1>3, <1>5, <1>8, <2>1, Zenon
  <2>3. Len(content) + Len(wire) = 2
    BY <1>6, <1>8
  <2>4. Len(content') = 0 /\ Len(wire') = 0
    <3>1. Len(content') \in Nat /\ Len(wire') \in Nat
      BY <2>2
    <3>2. QED
      BY <1>2, <2>2, <2>3, <3>1
  <2>5. QED
    BY <2>2, <2>4, EmptySeq
<1>9. CASE /\ Len(all) >= 2 /\ content' = SubSeq(all, 3, Len(all))
           /\ all[1].cmd = "notify"
           /\ UNCHANGED <<cmds, port, got>>
  <2>1. ASSUME ~hasty PROVE ConnInv'
    <3>1. content' = <<>> /\ wire' = <<>>
      BY <1>8, <1>9, <2>1
    <3>2. MsgDue(First) = <<>> /\ CmdDue' = <<>>
      BY <1>1, <1>3, <1>9 DEF MsgDue, CmdDue
    <3>3. Owed(CmdDue)'
      <4>1. peer' # "closed" => asked' = got' \o MsgDue(First)
        BY <1>1, <1>6, <1>9, <2>1 DEF Owed
      <4>2. QED
        BY <3>2, <4>1, Zenon DEF Owed
    <3>4. ConnInv
      BY <1>6, <2>1
    <3>5. QED
      BY <1>1, <1>9, <3>1, <3>3, <3>4, Zenon DEF ConnInv
  <2>2. QED
    BY <1>1, <1>5, <1>9, <2>1 DEF SocketInv
<1>10. CASE /\ Len(all) >= 2 /\ content' = SubSeq(all, 3, Len(all))
            /\ all[1].cmd # "notify"
            /\ Started(all[1].cmd, Req(Nop), all[1].id) /\ UNCHANGED <<got, conn>>
  <2>1. port'.id = First.id /\ cmds' # <<>>
    BY <1>3, <1>10, HeadOfOne DEF Started
  <2>2. port'.id > 0
    BY <1>2, <1>4, <2>1
  <2>3. ASSUME ~hasty PROVE ConnInv'
    <3>1. content' = <<>> /\ wire' = <<>>
      BY <1>8, <1>10, <2>3
    <3>2. MsgDue(First) = <<First.id>> /\ CmdDue' = <<First.id>>
      BY <1>3, <1>10, <2>1 DEF MsgDue, CmdDue
    <3>3. Owed(CmdDue)'
      <4>1. peer' # "closed" => asked' = got' \o MsgDue(First)
        BY <1>1, <1>6, <1>10, <2>3 DEF Owed
      <4>2. QED
        BY <3>2, <4>1, Zenon DEF Owed
    <3>4. ConnInv
      BY <1>6, <2>3
    <3>5. QED
      BY <1>1, <1>10, <3>1, <3>3, <3>4, Zenon DEF ConnInv
  <2>4. QED
    BY <1>1, <1>10, <2>1, <2>2, <2>3 DEF SocketInv
<1>11. QED
  BY <1>1, <1>7, <1>9, <1>10 DEF all

\* A peer that waits for its message to be read has only the new one under way.
LEMMA AskSocket == ASSUME QueueInv, IdInv, SocketInv, Ask PROVE SocketInv'
<1>1. PICK c \in Kinds :
        /\ peer = "open" /\ reqs' = reqs + 1
        /\ wire' = wire \o <<[cmd |-> c, id |-> reqs'], [cmd |-> c, id |-> reqs']>>
        /\ asked' = IF c = "notify" THEN asked ELSE Append(asked, reqs')
        /\ hasty' = (hasty \/ wire # <<>>)
        /\ UNCHANGED <<ui, queue, socket, peer, got>>
  BY DEF Ask
<1>2. ui = "socket"
  BY <1>1 DEF SocketInv
<1>3. /\ content' = content /\ conn' = conn /\ cmds' = cmds /\ port' = port
      /\ got' = got /\ peer' = peer /\ ui' = ui
  BY <1>1 DEF socket, queue
<1>4. ASSUME ~hasty' PROVE ConnInv'
  <2>1. wire = <<>> /\ ConnInv /\ reqs \in Nat /\ StreamInv /\ port.id \in Nat
    BY <1>1, <1>2, <1>4 DEF SocketInv, IdInv, StreamInv
  <2>2. content = <<>> /\ Owed(CmdDue) /\ got \in Seq(Nat) /\ asked \in Seq(Nat)
    <3>1. ASSUME Coming(First) PROVE FALSE
      BY <2>1, <3>1 DEF Coming, StreamInv
    <3>2. QED
      BY <2>1, <3>1 DEF ConnInv
  <2>3. PICK m \in Msg : m.cmd = c /\ m.id = reqs' /\ reqs' \in Nat /\ wire' = wire \o <<m, m>>
    <3>1. /\ [cmd |-> c, id |-> reqs'] \in Msg /\ reqs' \in Nat
          /\ [cmd |-> c, id |-> reqs'].cmd = c /\ [cmd |-> c, id |-> reqs'].id = reqs'
      BY <1>1, <2>1 DEF Msg
    <3>2. QED
      BY <1>1, <3>1, Zenon
  <2>4. wire' = <<m, m>> /\ content' = <<>>
    BY <1>3, <2>1, <2>2, <2>3
  <2>5. Coming(m)'
    <3>1. /\ Len(content') = 0 /\ Len(wire') = 2
          /\ \A n \in 1 .. 2 : wire'[n] = m
      BY <2>4
    <3>2. Len(content') <= 1 /\ Len(content') + Len(wire') = 2
      BY <3>1
    <3>3. ASSUME NEW n \in Chunks(content', wire') PROVE Chunk(content', wire', n) = m
      <4>1. n \in 1 .. 2
        BY <3>2 DEF Chunks
      <4>2. ~(n <= Len(content')) /\ n - Len(content') = n
        BY <3>1, <4>1
      <4>3. QED
        BY <3>1, <4>1, <4>2, Zenon DEF Chunk
    <3>4. QED
      BY <3>2, <3>3, Zenon DEF Coming
  <2>6. First' = m
    <3>1. 1 \in Chunks(content', wire')
      BY <2>4 DEF Chunks
    <3>2. QED
      BY <2>4 DEF First, Chunk
  <2>7. asked' = got \o (CmdDue \o MsgDue(m)) /\ MsgDue(m) \in Seq(Nat)
        /\ CmdDue \in Seq(Nat) /\ asked' \in Seq(Nat)
    <3>1. CmdDue \in Seq(Nat)
      BY <2>1 DEF CmdDue
    <3>2. asked = got \o CmdDue
      BY <1>1, <2>2 DEF Owed
    <3>3. CASE c = "notify"
      <4>1. MsgDue(m) = <<>> /\ asked' = asked
        BY <1>1, <2>3, <3>3 DEF MsgDue
      <4>2. CmdDue \o <<>> = CmdDue
        BY <3>1
      <4>3. QED
        BY <2>2, <3>1, <3>2, <4>1, <4>2
    <3>4. CASE c # "notify"
      <4>1. MsgDue(m) = <<reqs'>> /\ asked' = Append(asked, reqs')
        BY <1>1, <2>3, <3>4 DEF MsgDue
      <4>2. Append(got \o CmdDue, reqs') = got \o (CmdDue \o <<reqs'>>)
        <5>1. ASSUME NEW g \in Seq(Nat), NEW d \in Seq(Nat), NEW x \in Nat
              PROVE  Append(g \o d, x) = g \o (d \o <<x>>)
          BY OwedFacts
        <5>2. got \in Seq(Nat) /\ reqs' \in Nat
          BY <2>2, <2>3
        <5>3. QED
          BY <3>1, <5>1, <5>2, Zenon
      <4>3. <<reqs'>> \in Seq(Nat) /\ Append(asked, reqs') \in Seq(Nat)
        BY <2>2, <2>3
      <4>4. QED
        BY <3>1, <3>2, <4>1, <4>2, <4>3, Zenon
    <3>5. QED
      BY <3>3, <3>4
  <2>8. IsPrefix(got', asked')
    <3>1. CmdDue \o MsgDue(m) \in Seq(Nat)
      BY <2>7
    <3>2. QED
      BY <1>3, <2>2, <2>7, <3>1, PrefixOfConcat, Zenon
  <2>9. Coming(First)' /\ Owed(CmdDue \o MsgDue(First))'
    <3>1. Coming(First)'
      BY <2>5, <2>6, Zenon DEF Coming
    <3>2. CmdDue' = CmdDue /\ MsgDue(First)' = MsgDue(m)
      BY <1>3, <2>6 DEF CmdDue, MsgDue
    <3>3. QED
      BY <1>3, <2>7, <3>1, <3>2, Zenon DEF Owed
  <2>10. QED
    BY <1>3, <2>2, <2>4, <2>7, <2>8, <2>9, Zenon DEF ConnInv
<1>5. QED
  BY <1>1, <1>2, <1>3, <1>4 DEF SocketInv

\* Whatever happens to the other end, nothing of one connection gets into the next.
LEMMA SocketStep == QueueInv /\ IdInv /\ SocketInv /\ [Next]_vars => SocketInv'
<1> SUFFICES ASSUME QueueInv, IdInv, SocketInv, [Next]_vars PROVE SocketInv'
  OBVIOUS
<1>1. CASE Connect
  <2>1. /\ ui = "socket" /\ conn = 0 /\ cmds = <<>> /\ wire' = <<>> /\ asked' = <<>> /\ got' = <<>>
        /\ peer' = "waiting" /\ UNCHANGED <<ui, cmds, conn, content, hasty>>
    BY <1>1 DEF Connect, queue, socket, SocketInv
  <2>2. ASSUME ~hasty PROVE ConnInv'
    <3>1. content' = <<>>
      BY <2>1, <2>2 DEF SocketInv, ConnInv
    <3>2. Owed(CmdDue)'
      BY <2>1 DEF Owed, CmdDue
    <3>3. got' \in Seq(Nat) /\ asked' \in Seq(Nat) /\ IsPrefix(got', asked')
      BY <2>1 DEF IsPrefix
    <3>4. QED
      BY <2>1, <3>1, <3>2, <3>3, Zenon DEF ConnInv
  <2>3. QED
    BY <2>1, <2>2 DEF SocketInv
<1>2. CASE Closed
  <2>1. /\ ui = "socket" /\ cmds = <<>> /\ wire = <<>> /\ conn' = 0 /\ peer = "closed"
        /\ UNCHANGED <<ui, cmds, port, content, hasty, peer, wire, asked, got>>
    BY <1>2 DEF Closed, queue, other, SocketInv
  <2>2. ASSUME ~hasty PROVE ConnInv'
    <3>1. ConnInv /\ StreamInv
      BY <2>1, <2>2 DEF SocketInv, IdInv
    <3>2. content = <<>>
      <4>1. ASSUME Coming(First) PROVE FALSE
        <5>1. Len(content) <= 1 /\ Len(content) + 0 = 2 /\ Len(content) \in Nat
          BY <2>1, <3>1, <4>1 DEF Coming, StreamInv
        <5>2. QED
          BY <5>1
      <4>2. QED
        BY <3>1, <4>1 DEF ConnInv
    <3>3. QED
      BY <2>1, <3>1, <3>2 DEF ConnInv, Owed
  <2>3. QED
    BY <2>1, <2>2 DEF SocketInv
<1>3. CASE Accept
  <2>1. /\ ui = "socket" /\ cmds = <<>> /\ conn = 0 /\ peer = "waiting" /\ peer' = "open"
        /\ UNCHANGED <<ui, cmds, port, content, hasty, wire, asked, got>>
    BY <1>3 DEF Accept, queue
  <2>2. ConnInv => ConnInv'
    <3> SUFFICES ASSUME ConnInv PROVE ConnInv'
      OBVIOUS
    <3>1. CmdDue' = CmdDue /\ First' = First /\ MsgDue(First)' = MsgDue(First)
      BY <2>1 DEF CmdDue, First, MsgDue
    <3>2. content = <<>>
      BY <2>1 DEF ConnInv
    <3>3. /\ Owed(CmdDue) => Owed(CmdDue)'
          /\ Owed(CmdDue \o MsgDue(First)) => Owed(CmdDue \o MsgDue(First))'
      BY <2>1, <3>1 DEF Owed
    <3>4. Coming(First) => Coming(First)'
      BY <2>1, <3>1 DEF Coming
    <3>5. QED
      BY <2>1, <3>2, <3>3, <3>4, Zenon DEF ConnInv
  <2>3. QED
    BY <2>1, <2>2 DEF SocketInv
<1>4. CASE Hangup
  <2>1. /\ peer = "open" /\ peer' = "closed" /\ ui = "socket"
        /\ UNCHANGED <<ui, cmds, port, conn, content, hasty, wire, asked, got>>
    BY <1>4 DEF Hangup, queue, socket, SocketInv
  <2>2. ConnInv => ConnInv'
    BY <2>1 DEF ConnInv, Coming, First, Owed
  <2>3. QED
    BY <2>1, <2>2 DEF SocketInv
<1>5. CASE Key
  <2>1. ui # "socket" /\ UNCHANGED <<ui, peer, got>>
    BY <1>5 DEF Key, other
  <2>2. QED
    BY <2>1 DEF SocketInv
<1>6. CASE Quarter \/ EndPoll \/ Idle \/ UNCHANGED vars
  <2>1. UNCHANGED <<ui, cmds, socket, other>> /\ port'.id = port.id
    BY <1>6 DEF Quarter, EndPoll, Idle, vars, DropEn, queue, QueueInv
  <2>2. CmdDue' = CmdDue
    BY <2>1 DEF CmdDue
  <2>3. ConnInv => ConnInv'
    BY <2>1, <2>2 DEF ConnInv, Coming, First, Owed, MsgDue, socket, other
  <2>4. QED
    BY <2>1, <2>3 DEF SocketInv, socket, other
<1>7. QED
  BY <1>1, <1>2, <1>3, <1>4, <1>5, <1>6, EdgeSocket, RecvSocket, AskSocket
     DEF Next, MainLoop, Clock

-------------------------------------------------------------------------------
(* The theorems.                                                             *)

IInv == QueueInv /\ IdInv /\ PausedInv /\ SocketInv

\* The test bench starts with nothing queued, nothing sent and the cpu running.
LEMMA InitIInv == Init => IInv
<1> SUFFICES ASSUME Init PROVE IInv
  OBVIOUS
<1>1. port = [en |-> FALSE, cmd |-> "BREAK", req |-> Req(Nop), id |-> 0] /\ port.id = 0
      /\ port.en = FALSE
  BY DEF Init
<1>2. QueueInv
  BY <1>1 DEF Init, QueueInv, FsmStates
<1>3. IdInv
  <2>1. StreamInv
    BY <1>1 DEF Init, StreamInv, Chunks
  <2>2. KeyInv
    BY <1>1 DEF Init, KeyInv
  <2>3. QED
    BY <1>1, <2>1, <2>2 DEF Init, IdInv
<1>4. PausedInv
  BY DEF Init, PausedInv
<1>5. SocketInv
  <2>1. got \in Seq(Nat) /\ asked \in Seq(Nat) /\ IsPrefix(got, asked) /\ asked = got \o <<>>
    BY DEF Init, IsPrefix
  <2>2. ConnInv
    BY <2>1 DEF Init, ConnInv, Owed, CmdDue
  <2>3. QED
    BY <2>2 DEF Init, SocketInv
<1>6. QED
  BY <1>2, <1>3, <1>4, <1>5 DEF IInv

\* What holds between the queue, the cpu, the plans and the socket holds always.
THEOREM Invariance == Spec => []IInv
<1>1. IInv /\ [Next]_vars => IInv'
  BY QueueStep, IdStep, SocketStep DEF IInv
<1>2. QED
  BY InitIInv, <1>1, PTL DEF Spec

\* No hook of debug.c is ever put into a list twice or taken from one it is not in,
\* whatever the commands and whenever they come.
THEOREM HooksSound == Spec => []ListsSound
<1>1. IInv => ListsSound
  BY DEF IInv, QueueInv, ListsSound
<1>2. QED
  BY Invariance, <1>1, PTL

\* The cpu carries out each request of debug.c at most once.
THEOREM CarriedOutOnce == Spec => []DoneOnce
<1>1. IInv => DoneOnce
  BY DEF IInv, IdInv, DoneOnce
<1>2. QED
  BY Invariance, <1>1, PTL

\* When is_paused says so the cpu is stopped, unless a command met it running.
THEOREM PausedIsTrue == Spec => []PausedIsReal
<1>1. IInv => PausedIsReal
  BY DEF IInv, PausedInv, PausedIsReal
<1>2. QED
  BY Invariance, <1>1, PTL

\* The replies of debug_skt.c come once each, in order, and to the peer that asked:
\* for every buffer length and every way in which the bytes are cut.
THEOREM RepliesSound == Spec => []RepliesInOrder
<1>1. IInv => RepliesInOrder
  <2> SUFFICES ASSUME IInv, ~hasty PROVE IsPrefix(got, asked)
    BY DEF RepliesInOrder
  <2>1. CASE ui = "socket"
    BY <2>1 DEF IInv, SocketInv, ConnInv
  <2>2. CASE ui # "socket"
    <3>1. got = <<>>
      BY <2>2 DEF IInv, SocketInv
    <3>2. QED
      BY <3>1 DEF IsPrefix
  <2>3. QED
    BY <2>1, <2>2
<1>2. QED
  BY Invariance, <1>1, PTL

===============================================================================
