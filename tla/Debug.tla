--------------------------------- MODULE Debug ---------------------------------
(***************************************************************************)
(* The debugger of the test bench: the command queue and its hooks         *)
(* (sim/debug.c), the socket server (sim/debug_skt.c, sim/recv_buf.c), the *)
(* keyboard debugger and the main loop (sim/cpu_ctb.c), the plans of       *)
(* DebugPlan, and the debug port of the cpu (core/datapath.vhm), which is  *)
(* external.                                                               *)
(*                                                                         *)
(* A clock cycle is three phases.  edge: the clock rises and ack_hook, if  *)
(* due, samples the acknowledge of the cycle that ends; what callbacks and *)
(* the main loop write is seen by the cpu in the cycle that begins.  poll: *)
(* the main loop looks for commands.  quarter: a quarter of a period later *)
(* drop_en_hook, if due, takes the request away.                           *)
(*                                                                         *)
(* A message of the socket is two chunks, so that it can come in pieces.   *)
(***************************************************************************)
EXTENDS DebugPlan, SequencesExt, FiniteSets

CONSTANTS
  Uis,            \* how the test bench is run: "socket", "keys"
  BufLen,         \* RECV_BUF_LEN, in chunks
  Kinds,          \* commands a peer sends: BREAK, STEP, INSERT, CONTINUE, notify
  Keys,           \* keys that are pressed
  Givens,         \* whether a read of memory is given a buffer for the values: never by
                  \* cpu_ctb.c, which passes NULL
  MaxReqs, MaxConns, MaxKeys, MaxBreaks,  \* messages, connections, keys, and BREAK
                                          \* instructions in the program
  StartRegs, StartMem                     \* the cpu's registers and memory

ASSUME BufAssumption == BufLen \in Nat /\ BufLen >= 2
ASSUME GivensAssumption == Givens \subseteq BOOLEAN

VARIABLES
  ui, phase, polled,
  \* debug_hw
  cmds,           \* the queue of commands
  is_paused, ack_on, drop_on,             \* ack_hook and drop_en_hook scheduled
  port,           \* the signals to the cpu: [en, cmd, req, id]
  \* the cpu
  fsm, reg, mem, wb, dout,
  \* debug_skt
  conn,           \* the connection being served, 0 is none
  head, content,  \* recv_buf: where the occupied region begins, and what it holds
  \* the keyboard debugger
  state, plan, regs,
  \* the other end
  peer,           \* off, waiting, open or closed
  wire,           \* chunks on their way
  conns, reqs, keys, breaks,              \* counters
  \* history
  hasty,          \* a message was sent while the last one was on its way
  asked, got,     \* requests and replies of the connection
  done, skipped, twice,                   \* requests the cpu has carried out, or has
                                          \* acknowledged while it ran; one done twice
  corrupt,        \* a hook was added twice, or removed from a list it is not in
  before          \* registers and memory when the plan began

queue == <<cmds, is_paused, ack_on, drop_on, port, corrupt>>
cpu == <<fsm, reg, mem, wb, dout, done, skipped, twice, breaks>>
socket == <<conn, head, content>>
keyboard == <<state, plan, regs, keys, before>>
other == <<peer, wire, conns, reqs, hasty, asked, got>>
vars == <<ui, phase, polled, queue, cpu, socket, keyboard, other>>

Cmd(c, req, id) == [cmd |-> c, req |-> req, id |-> id]

-------------------------------------------------------------------------------
(* The debug port of the cpu.                                                *)

\* The next state of the datapath's state machine: rose when a BREAK instruction
\* has run, issue when the decoder asks for an instruction.
NextState(rose, issue) ==
  LET st == CASE rose /\ fsm \in {"RUN", "AWAIT_BREAK"}                   -> "AWAIT_IF"
              [] ~rose /\ fsm = "RUN" /\ port.en /\ port.cmd = "BREAK"     -> "AWAIT_BREAK"
              [] fsm = "READY" /\ port.en /\ port.cmd = "INSERT"          -> "AWAIT_IF"
              [] fsm = "READY" /\ port.en /\ port.cmd = "STEP"            -> "AWAIT_BREAK"
              [] fsm = "READY" /\ port.en /\ port.cmd = "CONTINUE"        -> "RUN"
              [] OTHER                                                    -> fsm
  IN  IF fsm = "AWAIT_IF" /\ issue THEN "READY" ELSE st

\* The acknowledge, in the cycle that leads to state st.
Ack(st) == port.en /\ st \in {"RUN", "READY"}

\* The rising edge.
ClockEdge(rose, issue) ==
  LET st     == NextState(rose, issue)
      takes  == fsm = "READY" /\ port.en /\ port.cmd # "BREAK"
      insert == takes /\ port.cmd = "INSERT"
      x      == Inserted(reg, mem, port.req)
  IN  /\ fsm' = st
      /\ IF insert
           THEN /\ reg' = x.reg /\ mem' = x.mem
                /\ dout' = Head(Piped(wb, port.req, x.wr))
                /\ wb' = Drained(Piped(wb, port.req, x.wr), port.req)
           ELSE UNCHANGED <<reg, mem, wb, dout>>
      /\ done' = IF takes THEN done \cup {port.id} ELSE done
      /\ twice' = (twice \/ (takes /\ port.id \in done))
      /\ skipped' = IF Ack(st) /\ fsm = "RUN" THEN skipped \cup {port.id} ELSE skipped
      /\ breaks' = IF rose /\ fsm = "RUN" THEN breaks + 1 ELSE breaks

-------------------------------------------------------------------------------
(* The queue.                                                                *)

\* A slip: calling_cmd_done is not looked at.
StartsHookAlways(calling) == TRUE

\* debug_add_cmd starts ack_hook, unless on_done called it: ack_hook_cb goes on then.
StartsHook(calling) == ~calling

\* next_cmd, with the queue q.  calling: from within a hook, where sim->hooks is not
\* the list that a hook scheduled earlier is in.
NextCmd(q, paused, calling) ==
  /\ drop_on' = (q = <<>>)
  /\ corrupt' = (corrupt \/ (calling /\ drop_on)
                         \/ (q # <<>> /\ StartsHook(calling) /\ ack_on))
  /\ IF q = <<>>
       THEN is_paused' = paused /\ UNCHANGED port
       ELSE /\ is_paused' = (paused \/ Head(q).cmd # "CONTINUE")
            /\ port' = [en |-> TRUE, cmd |-> Head(q).cmd, req |-> Head(q).req, id |-> Head(q).id]

\* debug_add_cmd outside a callback, with nothing queued.
AddCmd(c) ==
  /\ cmds' = <<c>>
  /\ is_paused' = (is_paused \/ c.cmd # "CONTINUE")
  /\ port' = [en |-> TRUE, cmd |-> c.cmd, req |-> c.req, id |-> c.id]
  /\ drop_on' = FALSE
  /\ ack_on' = (ack_on \/ StartsHook(FALSE))
  /\ corrupt' = (corrupt \/ (StartsHook(FALSE) /\ ack_on))

\* debug_skt_reply, and debug_skt_notify_paused (message 0).  Nobody reads what goes to a peer
\* that has closed; the send may fail, and closes the connection then.
Send(msg) ==
  \/ peer = "open" /\ got' = (IF msg = 0 THEN got ELSE Append(got, msg)) /\ UNCHANGED conn
  \/ peer # "open" /\ conn' \in {conn, 0} /\ UNCHANGED got

\* debug_rdy: the plan goes on with the reply, and the command is queued again.
DebugRdy(c, rep) ==
  IF state \in {"RUN", "STEP", "PAUSE"}
    THEN /\ cmds' = <<>>
         /\ NextCmd(<<>>, c.cmd # "CONTINUE", TRUE)
         /\ UNCHANGED <<state, plan, regs>>
    ELSE LET n == PlanNext(plan, rep)
             q == <<Cmd("INSERT", n.req, c.id + 1)>>
         IN  /\ plan' = n.plan
             /\ state' = IF n.more THEN state ELSE "PAUSE"
             /\ regs' = IF state = "DUMP" THEN n.plan.regs ELSE regs
             /\ cmds' = q
             /\ NextCmd(q, TRUE, TRUE)

\* A slip: the acknowledge is not looked at.
AckSeenAlways(st) == TRUE

AckSeen(st) == Ack(st)

\* ack_hook_cb at the edge, st being the state the cpu goes to.  The reply is what is
\* on the debug port with the acknowledge.
AckHook(st) ==
  IF ~ack_on \/ ~AckSeen(st)
    THEN UNCHANGED <<queue, conn, got, state, plan, regs>>
    ELSE /\ IF ui = "socket"
              THEN /\ Send(port.id)
                   /\ cmds' = <<>>
                   /\ NextCmd(<<>>, Head(cmds).cmd # "CONTINUE", TRUE)
                   /\ UNCHANGED <<state, plan, regs>>
              ELSE /\ DebugRdy(Head(cmds), dout')
                   /\ UNCHANGED <<conn, got>>
         /\ ack_on' = (cmds' # <<>>)

\* A slip: drop_en_hook waits a whole period.
DropDueLate == "edge"

\* drop_en_hook is due a quarter of a period after it is scheduled.
DropDue == "quarter"

\* drop_en_cb.
DropEn(at) ==
  IF drop_on /\ DropDue = at
    THEN port' = [port EXCEPT !.en = FALSE] /\ drop_on' = FALSE
    ELSE UNCHANGED <<port, drop_on>>

Edge(rose, issue) ==
  /\ phase = "edge"
  /\ rose => fsm = "AWAIT_BREAK" \/ (fsm = "RUN" /\ breaks < MaxBreaks)
  /\ ClockEdge(rose, issue)
  /\ IF drop_on /\ DropDue = "edge"
       THEN DropEn("edge") /\ UNCHANGED <<cmds, is_paused, ack_on, corrupt, conn, got, state,
                                           plan, regs>>
       ELSE AckHook(NextState(rose, issue))
  /\ phase' = "poll" /\ polled' = FALSE
  /\ UNCHANGED <<ui, head, content, keys, before, peer, wire, conns, reqs, hasty, asked>>

Quarter ==
  /\ phase = "quarter"
  /\ phase' = "edge"
  /\ DropEn("quarter")
  /\ UNCHANGED <<ui, polled, cmds, is_paused, ack_on, corrupt, cpu, socket, keyboard, other>>

-------------------------------------------------------------------------------
(* The main loop.                                                            *)

\* It comes by at the edge, and again for as long as the cpu runs and signals change.
EndPoll ==
  /\ phase = "poll" /\ polled
  /\ phase' = "quarter"
  /\ UNCHANGED <<ui, polled, queue, cpu, socket, keyboard, other>>

\* A command is queued: process_debug_skt does nothing.
Idle ==
  /\ phase = "poll" /\ ~polled
  /\ \/ cmds # <<>>
     \/ ui = "keys"
     \/ conn = 0 /\ peer # "waiting"
     \/ conn # 0 /\ wire = <<>> /\ peer = "open"        \* EAGAIN
  /\ polled' = TRUE
  /\ UNCHANGED <<ui, phase, queue, cpu, socket, keyboard, other>>

Accept ==
  /\ phase = "poll" /\ ui = "socket" /\ cmds = <<>>
  /\ conn = 0 /\ peer = "waiting"
  /\ conn' = conns /\ peer' = "open"
  /\ polled' = TRUE
  /\ UNCHANGED <<ui, phase, queue, cpu, head, content, keyboard, wire, conns, reqs, hasty,
                 asked, got>>

\* recv returns 0.  The receive buffer is left as it is.
Closed ==
  /\ phase = "poll" /\ ui = "socket" /\ cmds = <<>>
  /\ conn # 0 /\ wire = <<>> /\ peer # "open"
  /\ conn' = 0
  /\ polled' = TRUE
  /\ UNCHANGED <<ui, phase, queue, cpu, head, content, keyboard, other>>

\* A slip: the occupied region is never moved.
HeadForRecvFixed == head

\* recv_buf_get_empty_buf: a region that touches the right edge is moved to the left.
HeadForRecv == IF head + Len(content) = BufLen THEN 0 ELSE head

\* A slip: part of the message stays in the buffer.
TakeShort(all) == Tail(all)

\* recv_buf_take, of a whole message.
Take(all) == SubSeq(all, 3, Len(all))

\* debug_skt_handle: one recv, and one message parsed if the buffer holds one.
Recv == \E k \in 1 .. BufLen :
  /\ phase = "poll" /\ ui = "socket" /\ cmds = <<>>
  /\ conn # 0 /\ k <= Len(wire) /\ k <= BufLen - (HeadForRecv + Len(content))
  /\ polled' = TRUE
  /\ wire' = SubSeq(wire, k + 1, Len(wire))
  /\ LET all == content \o SubSeq(wire, 1, k) IN
     IF Len(all) >= 2
       THEN /\ content' = Take(all)
            /\ head' = HeadForRecv + Len(all) - Len(Take(all))
            /\ IF all[1].cmd = "notify"
                 THEN /\ IF is_paused THEN Send(0) ELSE UNCHANGED <<got, conn>>
                      /\ UNCHANGED queue
                 ELSE /\ AddCmd(Cmd(all[1].cmd, Req(Nop), all[1].id))
                      /\ UNCHANGED <<got, conn>>
       ELSE /\ content' = all /\ head' = HeadForRecv
            /\ UNCHANGED <<queue, got, conn>>
  /\ UNCHANGED <<ui, phase, cpu, keyboard, peer, conns, reqs, hasty, asked>>

\* A key, when no command is queued.  debug_dump_state and the others call debug_rdy
\* themselves, for the first request of their plan.
KeyPlan(k, given) ==
  CASE k = "d" -> RegsPlan("dump", regs)
    [] k = "D" -> RegsPlan("store", regs)
    [] k = "r" -> MemReadPlan(0, 2, given, regs[0])
    [] k = "w" -> MemWritePlan(4, <<91, 92>>, regs[0])

KeyState(k) ==
  CASE k = "d" -> "DUMP" [] k = "D" -> "STORE" [] k = "r" -> "READ_MEM" [] k = "w" -> "WRITE_MEM"

\* The requests of a plan are numbered from that of its key.
KeyId == 100 * (keys + 1)

Key == \E k \in Keys :
  /\ phase = "poll" /\ ui = "keys" /\ cmds = <<>> /\ keys < MaxKeys
  /\ keys' = keys + 1 /\ polled' = TRUE
  /\ \/ /\ k = "b" /\ state = "RUN"
        /\ AddCmd(Cmd("BREAK", Req(Nop), KeyId)) /\ state' = "PAUSE"
        /\ UNCHANGED <<plan, regs, before>>
     \/ /\ k = "c" /\ state = "PAUSE"
        /\ AddCmd(Cmd("CONTINUE", Req(Nop), KeyId)) /\ state' = "RUN"
        /\ UNCHANGED <<plan, regs, before>>
     \/ /\ k = "s" /\ state = "PAUSE"
        /\ AddCmd(Cmd("STEP", Req(Nop), KeyId)) /\ state' = "STEP"
        /\ UNCHANGED <<plan, regs, before>>
     \/ /\ k = "i" /\ state = "PAUSE"
        /\ AddCmd(Cmd("INSERT", Req(Nop), KeyId))
        /\ UNCHANGED <<state, plan, regs, before>>
     \/ /\ k \in {"d", "D", "r", "w"} /\ state = "PAUSE"
        /\ \E given \in Givens :
             LET n == PlanNext(KeyPlan(k, given), dout)
             IN  AddCmd(Cmd("INSERT", n.req, KeyId)) /\ plan' = n.plan
        /\ state' = KeyState(k)
        /\ before' = [reg |-> reg, mem |-> mem, regs |-> regs]
        /\ UNCHANGED regs
  /\ UNCHANGED <<ui, phase, cpu, socket, other>>

-------------------------------------------------------------------------------
(* The other end of the socket (external).                                   *)

Connect ==
  /\ ui = "socket" /\ peer \in {"off", "closed"} /\ conn = 0 /\ conns < MaxConns
  /\ peer' = "waiting" /\ conns' = conns + 1
  /\ wire' = <<>> /\ asked' = <<>> /\ got' = <<>>
  /\ UNCHANGED <<ui, phase, polled, queue, cpu, socket, keyboard, reqs, hasty>>

Ask == \E c \in Kinds :
  /\ peer = "open" /\ reqs < MaxReqs
  /\ reqs' = reqs + 1
  /\ wire' = wire \o <<[cmd |-> c, id |-> reqs'], [cmd |-> c, id |-> reqs']>>
  /\ asked' = IF c = "notify" THEN asked ELSE Append(asked, reqs')
  /\ hasty' = (hasty \/ wire # <<>>)
  /\ UNCHANGED <<ui, phase, polled, queue, cpu, socket, keyboard, peer, conns, got>>

Hangup ==
  /\ peer = "open"
  /\ peer' = "closed"
  /\ UNCHANGED <<ui, phase, polled, queue, cpu, socket, keyboard, wire, conns, reqs, hasty,
                 asked, got>>

-------------------------------------------------------------------------------

Init ==
  /\ ui \in Uis /\ phase = "poll" /\ polled = FALSE
  /\ cmds = <<>> /\ is_paused = FALSE /\ ack_on = FALSE /\ drop_on = FALSE
  /\ port = [en |-> FALSE, cmd |-> "BREAK", req |-> Req(Nop), id |-> 0]
  /\ fsm = "RUN" /\ reg = StartRegs /\ mem = StartMem
  /\ wb = [i \in 1 .. Latency |-> 0] /\ dout = 0
  /\ conn = 0 /\ head = 0 /\ content = <<>>
  /\ state = "RUN" /\ plan = [kind |-> "none"] /\ regs = [r \in Regs |-> r]
  /\ peer = "off" /\ wire = <<>>
  /\ conns = 0 /\ reqs = 0 /\ keys = 0 /\ breaks = 0
  /\ hasty = FALSE /\ asked = <<>> /\ got = <<>>
  /\ done = {} /\ skipped = {} /\ twice = FALSE /\ corrupt = FALSE
  /\ before = [reg |-> StartRegs, mem |-> StartMem, regs |-> regs]

MainLoop == EndPoll \/ Idle \/ Accept \/ Closed \/ Recv \/ Key

Clock == \E rose, issue \in BOOLEAN : Edge(rose, issue)

Next == MainLoop \/ Clock \/ Quarter \/ Connect \/ Ask \/ Hangup

\* The test bench and the clock go on, and the cpu gets to the end of an instruction:
\* every memory of the test bench acknowledges.
Spec ==
  /\ Init /\ [][Next]_vars
  /\ WF_vars(MainLoop) /\ WF_vars(Quarter) /\ WF_vars(Clock)
  /\ SF_vars(fsm = "AWAIT_BREAK" /\ Edge(TRUE, FALSE))
  /\ SF_vars(fsm = "AWAIT_IF" /\ Edge(FALSE, TRUE))

-------------------------------------------------------------------------------
(* Properties.                                                               *)

\* A peer that lets one message arrive before it sends the next gets the replies to
\* its requests, each once and in their order, and none of anybody else's: however the
\* bytes are cut into pieces, and whoever hung up before.
RepliesInOrder == ~hasty => IsPrefix(got, asked)

\* The cpu carries out a request once.  The request stays on the port until C has seen
\* the acknowledge, and the cpu would take an insertion that is left there again.
DoneOnce == ~twice

\* What the test bench thinks of the cpu is so: when it takes it for stopped and has no
\* command under way the cpu is in debug mode, unless the last command met it running.
PausedIsReal ==
  (is_paused /\ cmds = <<>> /\ phase # "edge" /\ port.id \notin skipped) => fsm = "READY"

\* A hook is never added to a list it is in, nor taken from a list it is not in: no
\* next_cmd from within ack_hook_cb finds drop_en_hook scheduled.
ListsSound == ~corrupt

\* A plan that has ended has done its work and left no trace: all registers read, or
\* all written, the words of memory read into the buffer, if there is one, or written, and every other register as it was; R0, which
\* the memory plans use, is given the value that the last dump has read.
PlanWorks ==
  (ui = "keys" /\ state = "PAUSE" /\ cmds = <<>>) =>
    CASE plan.kind = "dump"  -> regs = before.reg /\ reg = before.reg
      [] plan.kind = "store" -> reg = before.regs
      [] plan.kind = "read"  -> /\ reg = [before.reg EXCEPT ![0] = before.regs[0]]
                                /\ plan.given => plan.buf = <<mem[0], mem[4]>>
                                /\ mem = before.mem
      [] plan.kind = "write" -> /\ reg = [before.reg EXCEPT ![0] = before.regs[0]]
                                /\ mem = [before.mem EXCEPT ![4] = 91, ![8] = 92]
      [] OTHER               -> TRUE

\* Such a peer has all its requests answered in the end, unless it hangs up.
RequestAnswered ==
  (Len(got) < Len(asked) /\ ~hasty) ~> (Len(got) = Len(asked) \/ peer # "open" \/ hasty)

===============================================================================
