-------------------------------- MODULE MemBus ---------------------------------
(***************************************************************************)
(* The simulated memory (sim/sim/mem_bus.c with the handlers and the main  *)
(* loop of sim/cpu_ctb.c) on the hook list of simulator.c, and a cpu that  *)
(* uses it.  The cpu changes its outputs and samples ack at clock edges;   *)
(* mem_bus answers an operation some time after it sees the outputs change *)
(* and drops ack some time after it sees the operation go away.            *)
(*                                                                         *)
(* What mem_bus writes at the time of a clock edge is seen by the cpu at   *)
(* the next edge: the bridge applies a write one delta cycle after it has  *)
(* read it (sim_macros.h), and the edge came with the first delta.         *)
(*                                                                         *)
(* One bus, "uart", leads to the serial device of Uart, whose reads have   *)
(* effects; the cpu uses it as the drivers of the boot rom do.             *)
(***************************************************************************)
EXTENDS SimKernel, Delays, Uart, FiniteSets, TLC

CONSTANTS
  Buses,          \* the busses of cpu_ctb.c
  Period,         \* CLK_PERIOD
  Requests,       \* [b |-> the operations the cpu performs on bus b]
  Default,        \* [b |-> bus->delays]
  Cfgs,           \* delay configuration files, as sequences of lines
  Ranges,         \* [b |-> sequence of address ranges]
  Loads,          \* what the cpu does: [ops |-> [b |-> operations on bus b],
                  \* kind |-> the serial device, prog |-> accesses to it]
  MaxResets       \* times a cpu reset abandons an operation

\* An acknowledge is dropped before the cpu's next clock edge.  delays.cfg asks
\* for no more than 6 of 10 ns, and with more the next operation is acknowledged
\* by what is left of the last one.
ASSUME DropBeforeEdge ==
  /\ Period \in Nat \ {0, 1}
  /\ \A b \in Buses : Default[b].drop < Period
  /\ \A c \in Cfgs : CfgOK(c) =>
       \A i \in DOMAIN DelaysInitCfg(c) :
         /\ DelaysInitCfg(c)[i].rd_drop < Period
         /\ DelaysInitCfg(c)[i].wr_drop < Period

VARIABLES
  delays,         \* the delay rules in force
  req,            \* [b |-> what the cpu drives on the bus, or Idle]
  ops,            \* [b |-> operations started]
  resets,
  edge,           \* the clock edge of this time is still to come
  waited,         \* the wait is over and its round still to come
  changed,        \* busses whose inputs have an event not yet reported
  events,         \* busses whose inputs had an event in this round
  ack, dout,      \* [b |-> the bus's answer as the cpu sees it]
  seen,           \* [b |-> sim->signals[ack].value, the C side's copy]
  bus,            \* [b |-> struct mem_bus]
  load,           \* the element of Loads
  dev,            \* the serial device
  drv,            \* the accesses to it that are still to be done
  got,            \* the bytes that uart_rx returned
  typed,          \* bytes typed
  cancel,         \* the drop hooks that immediate hooks will remove
  mem,            \* the memory mapped by main
  shadow,         \* what the cpu has stored in it, in program order (history)
  since           \* [b |-> clock edges since the operation began] (history)

vars == <<kernelVars, delays, req, ops, resets, edge, waited, changed, events,
          ack, dout, seen, bus, cancel, mem, shadow, since, load, dev, drv, got,
          typed>>

uartVars == <<load, dev, drv, got, typed>>

\* The busses to memory.
Mems == Buses \ {"uart"}

Idle == [en |-> FALSE]

Z == [l \in 1 .. 4 |-> <<"Z", 0>>]        \* an undriven data bus

Zero == <<"0", 0>>

rw(b) == <<"rw", b>>
drop(b) == <<"drop", b>>

BusHooks == {rw(b) : b \in Buses} \cup {drop(b) : b \in Buses}

Addrs == 0 .. 7

Init ==
  /\ KernelInit
  /\ delays \in {DelaysInitCfg(c) : c \in {f \in Cfgs : CfgOK(f)}}
  /\ req = [b \in Buses |-> Idle]
  /\ ops = [b \in Mems |-> 0] /\ resets = 0
  /\ edge = FALSE /\ waited = FALSE
  /\ changed = {} /\ events = {}
  /\ ack = [b \in Buses |-> 0] /\ seen = [b \in Buses |-> 0]
  /\ dout = [b \in Buses |-> Z]
  /\ bus = [b \in Buses |-> [pending |-> FALSE, val |-> Z, drop |-> 0,
                             op_count |-> 0, drop_op |-> 0]]
  /\ cancel = {}
  /\ mem = [a \in Addrs |-> <<"m", a>>]
  /\ shadow = mem
  /\ since = [b \in Buses |-> 0]
  /\ load \in Loads
  /\ dev = UartInit(load.kind) /\ drv = load.prog
  /\ got = <<>> /\ typed = 0

\* mem_bus_init and instr_fetch_init add the read-write hook of each bus.
Boot ==
  /\ hooks = <<>> /\ ~calling /\ picos = 0
  /\ hooks' = SetToSeq({rw(b) : b \in Buses})
  /\ picos' = Period
  /\ edge' = TRUE
  /\ UNCHANGED <<time, old, todo, calling, delays, req, ops, resets, waited,
                 changed, events, ack, dout, seen, bus, cancel, mem, shadow,
                 since, uartVars>>

-------------------------------------------------------------------------------
(* Time.  Only differences of times and clock edges matter, so the times are  *)
(* kept within two clock periods by taking a period off all of them.          *)

\* sim_wait: up to the first hook, or to an event, and those come at clock edges.
\* The main loop of cpu_ctb.c does nothing else while nobody is debugging.
Advance ==
  /\ ~calling /\ ~edge /\ ~waited /\ changed = {} /\ hooks # <<>>
  /\ LET toEdge == Period - (picos % Period)
         d      == IF NextHookDelay = 0 \/ NextHookDelay > toEdge
                     THEN toEdge ELSE NextHookDelay
         off    == IF picos + d >= 2 * Period THEN Period ELSE 0
     IN  /\ picos' = picos + d - off
         /\ time' = [h \in BusHooks |-> IF time[h] = 0 THEN 0 ELSE time[h] - off]
         /\ edge' = (d = toEdge)
         /\ waited' = (d = NextHookDelay)
  /\ UNCHANGED <<hooks, old, todo, calling, delays, req, ops, resets, changed,
                 events, ack, dout, seen, bus, cancel, mem, shadow, since, uartVars>>

-------------------------------------------------------------------------------
(* The cpu (external: cpu_tb.vhd, datapath.vhm).                              *)

\* The byte lanes, numbered from the most significant, that an access uses.
Lanes(r) == (r.a % 4) + 1 .. (r.a % 4) + r.size

\* What the cpu puts on the data wires: narrow data is repeated on all lanes.
Din(r) == [l \in 1 .. 4 |-> <<r.d, (l - 1) % r.size>>]

\* The bytes an access finds in, or leaves in, memory m.
Bytes(m, r) == [i \in 1 .. r.size |-> m[r.a + i - 1]]

Stored(m, r) ==
  [a \in Addrs |-> IF a \in r.a .. r.a + r.size - 1 THEN <<r.d, a - r.a>> ELSE m[a]]

\* The register that an operation on the uart's bus is for.
Reg(r) == RegId(dev.kind, r.a)

\* default_find_range: the first range with the address and the handler; the
\* handlers of the serial devices refuse some of their registers.
RangeOf(b, r) ==
  IF b = "uart" THEN IF r.wr THEN Writable(dev, Reg(r)) ELSE Readable(dev, Reg(r))
  ELSE LET i == SelectInSeq(Ranges[b], LAMBDA g : g.start <= r.a /\ (g.end = 0 \/ r.a < g.end))
       IN  i # 0 /\ (IF r.wr THEN Ranges[b][i].write ELSE Ranges[b][i].read)

\* Bus b does this at the clock edge: the next value of its outputs.
CpuDrives(b, r) ==
  \/ /\ ~req[b].en \/ ack[b] = 1          \* idle, or done: nothing or the next
     /\ r = Idle \/ (r \in Requests[b] /\ ops[b] < load.ops[b])
  \/ req[b].en /\ ack[b] = 0 /\ r = req[b]      \* hold until acknowledged
  \/ /\ req[b].en /\ ack[b] = 0 /\ resets < MaxResets
     /\ r \in {Idle} \cup Requests[b]       \* a reset abandons the operation
     /\ r.en => ops[b] < load.ops[b] /\ r # req[b]

\* The driver has the answer to its access, and what it has to do then.
DriverAnswered == req["uart"].en /\ ack["uart"] = 1

DriverGot == IF dout["uart"][4][1] = "byte" THEN dout["uart"][4][2] ELSE 0

DriverRest == IF DriverAnswered /\ Over(Head(drv), DriverGot) THEN Tail(drv) ELSE drv

DriverBytes ==
  IF DriverAnswered /\ Head(drv).what = "load" THEN Append(got, DriverGot) ELSE got

\* The request for access x.  The registers are accessed as whole words.
Access(x, bytes) ==
  [en |-> TRUE, wr |-> IsStore(x), a |-> AddrOf(load.kind, x), size |-> 4,
   d |-> CASE x.what = "echo" -> Last(bytes)
           [] x.what \in {"store", "send"} -> x.v
           [] OTHER -> 0]

\* The next values of the uart bus's outputs.
DriverDrives ==
  IF req["uart"].en /\ ack["uart"] = 0 THEN {req["uart"]}
  ELSE {Idle} \cup (IF DriverRest = <<>> THEN {}
                    ELSE {Access(Head(DriverRest), DriverBytes)})

\* A store that a reset abandons counts as done: mem_bus performs it at once.
CpuEdge == \E n \in [Mems -> {Idle} \cup UNION {Requests[b] : b \in Mems}], u \in DriverDrives :
  LET nxt == n @@ ("uart" :> u) IN
  /\ edge /\ ~calling
  /\ \A b \in Mems : CpuDrives(b, nxt[b])
  /\ edge' = FALSE
  /\ req' = nxt
  /\ changed' = {b \in Buses : nxt[b] # req[b]}
  /\ ops' = [b \in Mems |->
       IF nxt[b].en /\ (nxt[b] # req[b] \/ ack[b] = 1) THEN ops[b] + 1 ELSE ops[b]]
  /\ resets' = resets + Cardinality({b \in Mems :
       req[b].en /\ ack[b] = 0 /\ nxt[b] # req[b]})
  /\ shadow' = FoldLeft(LAMBDA m, b :
       IF req[b].en /\ req[b].wr /\ RangeOf(b, req[b]) /\ (ack[b] = 1 \/ nxt[b] # req[b])
         THEN Stored(m, req[b]) ELSE m,
       shadow, SetToSeq(Mems))
  /\ since' = [b \in Buses |->
       IF req[b].en /\ nxt[b] = req[b] /\ ack[b] = 0 /\ RangeOf(b, req[b])
         THEN since[b] + 1 ELSE 0]
  /\ drv' = DriverRest /\ got' = DriverBytes
  /\ UNCHANGED <<kernelVars, delays, waited, events, ack, dout, seen, bus, cancel,
                 mem, load, dev, typed>>

\* Somebody types the next byte on the terminal, as many as the driver reads.
Loaded(prog) == Len(SelectSeq(prog, LAMBDA x : x.what = "load"))

Types ==
  /\ typed < Loaded(load.prog)
  /\ typed' = typed + 1
  /\ dev' = [dev EXCEPT !.in = Append(@, typed')]
  /\ UNCHANGED <<kernelVars, delays, req, ops, resets, edge, waited, changed, events,
                 ack, dout, seen, bus, cancel, mem, shadow, since, load, drv, got>>

-------------------------------------------------------------------------------
(* Rounds.                                                                    *)

\* sim_go_to_idle has read every change, then sim_fire_events begins.  A round
\* that a timer started may come before or after the edge is reported.
Fire == \E evs \in {{}, changed} :
  /\ ~edge
  /\ waited \/ evs # {}
  /\ StartRound
  /\ events' = evs /\ changed' = changed \ evs
  /\ waited' = FALSE
  /\ seen' = ack
  /\ UNCHANGED <<picos, time, delays, req, ops, resets, edge, ack, dout, bus,
                 cancel, mem, shadow, since, uartVars>>

\* The callbacks change nothing outside the bus they belong to.
cpuVars == <<delays, req, ops, resets, edge, waited, changed, events, seen, shadow,
             since, load, drv, got, typed>>

\* The write enables that read_write_cb accepts, each with the alignment of the
\* address it belongs to: any one lane, an even pair, all four.
Aligned(r) == r.wr => r.size \in {1, 2, 4} /\ r.a % r.size = 0

\* A slip: a byte read from an odd address is left in the low lane.
ReadValUnshifted(r) ==
  LET n == CASE r.a % 4 = 0 -> 4 [] r.a % 4 = 2 -> 2 [] OTHER -> 1
  IN  [l \in 1 .. 4 |-> IF l > 4 - n THEN mem[r.a + l - (4 - n) - 1] ELSE Zero]

\* mmap_read: num_bytes bytes, most significant first.
MmapRead(a, n) == [i \in 1 .. n |-> mem[a + i - 1]]

\* read_write_cb reads 4, 1, 2 or 1 bytes by the alignment of the address alone,
\* and moves them to the lanes on which the cpu expects them.
ReadVal(r) ==
  LET off == r.a % 4
      n   == CASE off = 0 -> 4 [] off = 2 -> 2 [] OTHER -> 1
  IN  [l \in 1 .. 4 |-> IF l \in off + 1 .. off + n THEN MmapRead(r.a, n)[l - off] ELSE Zero]

\* A slip: a whole word is stored, whatever the write enables.
WrittenWord(r) == [a \in Addrs |->
  IF a \div 4 = r.a \div 4 THEN Din(r)[(a % 4) + 1] ELSE mem[a]]

\* mmap_write stores the low num_bytes of the data wires.
Written(r) == [a \in Addrs |->
  IF a \in r.a .. r.a + r.size - 1 THEN Din(r)[4 - r.size + (a - r.a) + 1]
                                   ELSE mem[a]]

\* The value that a read starts with.
BusRead(b, r) ==
  IF b = "uart" THEN [Z EXCEPT ![4] = <<"byte", UartRead(dev, Reg(r))>>] ELSE ReadVal(r)

\* The delays: only the handlers of memory look for a rule.
DelayFor(b, r) ==
  LET own == [ack |-> IF r.wr THEN Default[b].write ELSE Default[b].read,
              drop |-> Default[b].drop]
  IN  IF b = "uart" THEN own ELSE DelaysLookup(delays, r.a, ~r.wr, own)

\* schedule_ack_drop is called, with a delay, and no drop is pending.
DropScheduled(b) ==
  seen[b] = 1 /\ ~bus[b].pending /\ bus[b].drop # 0 /\ time[drop(b)] = 0

\* read_write_cb: the cpu started an operation mem_bus can perform, to be answered
\* now or after a delay.  An acknowledge without drop delay that is still high is cut.
StartOp(b) ==
  LET r   == req[b]
      d   == DelayFor(b, r)
      tm1 == IF DropScheduled(b)
               THEN [time EXCEPT ![drop(b)] = picos + bus[b].drop] ELSE time
      now == d.ack = 0
      cut == seen[b] = 1 /\ ~bus[b].pending /\ bus[b].drop = 0
  IN  /\ r.en /\ RangeOf(b, r) /\ Aligned(r)
      /\ (b = "uart" /\ ~r.wr) => ~Blocked(dev, Reg(r))
      /\ mem' = IF r.wr /\ b # "uart" THEN Written(r) ELSE mem
      /\ dev' = CASE b # "uart" -> dev
                  [] r.wr       -> UartWrite(dev, Reg(r), r.d)
                  [] OTHER      -> AfterRead(dev, Reg(r))
      /\ bus' = [bus EXCEPT ![b] =
           [pending  |-> ~now,
            val      |-> IF r.wr THEN @.val ELSE BusRead(b, r),
            drop     |-> d.drop,
            op_count |-> @.op_count + (IF now THEN 1 ELSE 0),
            drop_op  |-> IF DropScheduled(b) THEN @.op_count ELSE @.drop_op]]
      /\ ack' = [ack EXCEPT ![b] = IF now THEN 1 ELSE IF cut THEN 0 ELSE @]
      /\ dout' = [dout EXCEPT ![b] = IF now /\ ~r.wr THEN BusRead(b, r)
                                     ELSE IF cut THEN Z ELSE @]
      /\ cancel' = IF now THEN cancel \cup {drop(b)} ELSE cancel
      /\ AfterCallback(rw(b), FALSE,
           [tm1 EXCEPT ![rw(b)] = IF now THEN 0 ELSE picos + d.ack],
           IF DropScheduled(b) THEN <<drop(b)>> ELSE <<>>)
      /\ UNCHANGED cpuVars

\* The reset label: an invalid address, or en went low during an operation.
ResetBus(b) ==
  LET sched == req[b].en /\ DropScheduled(b)
  IN  /\ \/ req[b].en /\ ~(RangeOf(b, req[b]) /\ Aligned(req[b]))
         \/ ~req[b].en /\ bus[b].pending
      /\ bus' = [bus EXCEPT ![b].pending = FALSE,
                            ![b].drop_op = IF sched THEN bus[b].op_count ELSE @]
      /\ ack' = [ack EXCEPT ![b] = IF seen[b] = 1 THEN 0 ELSE @]
      /\ dout' = [dout EXCEPT ![b] = IF seen[b] = 1 THEN Z ELSE @]
      /\ cancel' = cancel \cup {drop(b)}
      /\ AfterCallback(rw(b), FALSE,
           [time EXCEPT ![rw(b)] = 0,
                        ![drop(b)] = IF sched THEN picos + bus[b].drop ELSE @],
           IF sched THEN <<drop(b)>> ELSE <<>>)
      /\ UNCHANGED <<cpuVars, mem, dev>>

\* en went low after the operation: ack has to go.
EndOp(b) ==
  /\ ~req[b].en /\ ~bus[b].pending
  /\ bus' = [bus EXCEPT ![b].drop_op = IF DropScheduled(b) THEN bus[b].op_count ELSE @]
  /\ ack' = [ack EXCEPT ![b] = IF seen[b] = 1 /\ bus[b].drop = 0 THEN 0 ELSE @]
  /\ dout' = [dout EXCEPT ![b] = IF seen[b] = 1 /\ bus[b].drop = 0 THEN Z ELSE @]
  /\ AfterCallback(rw(b), FALSE,
       IF DropScheduled(b) THEN [time EXCEPT ![drop(b)] = picos + bus[b].drop]
                           ELSE time,
       IF DropScheduled(b) THEN <<drop(b)>> ELSE <<>>)
  /\ UNCHANGED <<cpuVars, cancel, mem, dev>>

\* The timer of the pending operation expired: the answer goes out.
AckOp(b) ==
  /\ bus[b].pending /\ time[rw(b)] = picos
  /\ bus' = [bus EXCEPT ![b].pending = FALSE, ![b].op_count = @ + 1]
  /\ ack' = [ack EXCEPT ![b] = 1]
  /\ dout' = [dout EXCEPT ![b] = IF req[b].en /\ req[b].wr THEN @ ELSE bus[b].val]
  /\ cancel' = cancel \cup {drop(b)}
  /\ AfterCallback(rw(b), FALSE, time, <<>>)
  /\ UNCHANGED <<cpuVars, mem, dev>>

\* A slip: drop_ack_cb returns zero, and its hook stays in the list.
DropAckStays(b) ==
  LET mine == bus[b].drop_op = bus[b].op_count /\ seen[b] = 1
  IN  /\ ack' = [ack EXCEPT ![b] = IF mine THEN 0 ELSE @]
      /\ dout' = [dout EXCEPT ![b] = IF mine THEN Z ELSE @]
      /\ AfterCallback(drop(b), FALSE, time, <<>>)
      /\ UNCHANGED <<cpuVars, bus, cancel, mem, dev>>

\* drop_ack_cb: ack falls, unless a newer operation has been acknowledged.
DropAck(b) ==
  LET mine == bus[b].drop_op = bus[b].op_count /\ seen[b] = 1
  IN  /\ ack' = [ack EXCEPT ![b] = IF mine THEN 0 ELSE @]
      /\ dout' = [dout EXCEPT ![b] = IF mine THEN Z ELSE @]
      /\ AfterCallback(drop(b), TRUE, time, <<>>)
      /\ UNCHANGED <<cpuVars, bus, cancel, mem, dev>>

Walking == calling /\ todo # <<>>

\* read_write_cb and drop_ack_cb as the walk over the list meets them.
CallReadWrite == \E b \in Buses :
  /\ Walking /\ Head(todo) = rw(b)
  /\ \/ b \in events /\ (StartOp(b) \/ ResetBus(b) \/ EndOp(b))
     \/ b \notin events /\ Due(rw(b)) /\ AckOp(b)

CallDropAck == \E b \in Buses :
  Walking /\ Head(todo) = drop(b) /\ Due(drop(b)) /\ DropAck(b)

Pass ==
  /\ Walking
  /\ ~Due(Head(todo))
  /\ \A b \in events : Head(todo) # rw(b)
  /\ SkipHook
  /\ UNCHANGED <<cpuVars, ack, dout, bus, cancel, mem, dev>>

Merge ==
  /\ MergeHook
  /\ UNCHANGED <<cpuVars, ack, dout, bus, cancel, mem, dev>>

\* cancel_drop_cb.
CancelDrop == \E h \in cancel :
  /\ CallImmediate(h)
  /\ cancel' = cancel \ {h}
  /\ UNCHANGED <<cpuVars, ack, dout, bus, mem, dev>>

RoundOver ==
  /\ cancel = {} /\ EndRound
  /\ events' = {}
  /\ UNCHANGED <<delays, req, ops, resets, edge, waited, changed, ack, dout, seen,
                 bus, cancel, mem, shadow, since, uartVars>>

Next ==
  \/ Boot \/ Advance \/ CpuEdge \/ Types \/ Fire
  \/ CallReadWrite \/ CallDropAck \/ Pass \/ Merge \/ CancelDrop \/ RoundOver

Spec == Init /\ [][Next]_vars

-------------------------------------------------------------------------------
(* Properties.                                                               *)

\* The cpu is about to take the answer to its operation.
Answered(b) == edge /\ req[b].en /\ ack[b] = 1

\* A load gets the bytes the cpu stored last, on the lanes it looks at, whatever
\* the delays: no acknowledge of an earlier operation answers it, and no data that
\* is late or was taken away.
ReadsSeeWrites == \A b \in Mems :
  (Answered(b) /\ ~req[b].wr) =>
     \A i \in 1 .. req[b].size :
        dout[b][(req[b].a % 4) + i] = Bytes(shadow, req[b])[i]

\* An acknowledged store is in memory, with the bytes of the store and no others
\* disturbed.
WritesAreDone == \A b \in Mems :
  (Answered(b) /\ req[b].wr) => mem = Stored(shadow, req[b])

\* The drop hook is scheduled once at most, and it is in the list exactly when
\* its time is set: schedule_ack_drop and cancel_drop_cb test only the time.
DropHookKnown == ~calling => \A b \in Buses :
  /\ (time[drop(b)] # 0) <=> drop(b) \in ToSet(hooks)
  /\ Cardinality({i \in DOMAIN hooks : hooks[i] = drop(b)}) <= 1

\* Every operation on a mapped address is answered, and without more delay than
\* its rule asks for: at the first edge after it.
AnsweredInTime == \A b \in Buses :
  (req[b].en /\ RangeOf(b, req[b])) =>
     since[b] * Period <= DelayFor(b, req[b]).ack

\* The first n accesses of the driver's program, and what they put on the line.
Begun(n) == SubSeq(load.prog, 1, n)

OnLine(n) ==
  LET sends == {i \in 1 .. n : load.prog[i].what \in {"send", "echo"}}
      Char(i) == IF load.prog[i].what = "send" THEN load.prog[i].v ELSE Loaded(Begun(i))
  IN  [k \in 1 .. Cardinality(sends) |->
         Char(CHOOSE i \in sends : Cardinality({j \in sends : j <= i}) = k)]

\* Every access to the serial device takes effect once: what the drivers send is on
\* the line in the order of their calls, each byte typed is returned by one call of
\* uart_rx, in the order of typing, whatever the delays of the bus and whoever
\* interrupted whom; and the divisor of the 16550 is set, with the line in use again.
LineInOrder ==
  LET n   == Len(load.prog) - Len(drv)
      now == IF drv = <<>> THEN n ELSE n + 1           \* one access may be under way
  IN  /\ dev.out \in {OnLine(n), OnLine(now)}
      /\ got = [i \in 1 .. Loaded(Begun(n)) |-> i]
      /\ typed - Len(dev.in) \in {Loaded(Begun(n)), Loaded(Begun(now))}
      /\ (dev.out # <<>> /\ dev.kind = "uart16550") => dev.divisor = 10 /\ ~IsDlab(dev)

===============================================================================
