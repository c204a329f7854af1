# Verification of jcore-cpu

jcore-cpu is the J2 processor: an SH-2 compatible core with instruction and data
caches in VHDL (`core/`, `decode/`, `cache/`; `.vhm` files are two-process VHDL
that a preprocessor expands), a C simulator that drives it (`sim/`), and a boot
rom with a gdb stub (`testrom/`). This directory holds TLA+ models of its parts,
the TLC runs that check them and TLAPS proofs about them. `PROJECT.json` lists
runs, mutants, theorems, hazards and, for every definition, the source lines it
models.

## Inventory

| part | state | operations | hard because |
|---|---|---|---|
| data cache, cpu half (`dcache_ccl.vhm`, clk125) | state machine IDLE, SB1/SB2, RMISS, WMISS..., valid bits, held snoop, previous request, lock state, store bank | load, store, lock, on/off/invalidate, snoop in, snoop out | answers before the memory half is done; snoops meet fills; read-ahead |
| data cache, memory half (`dcache_mcl.vhm`, clk200) | bus state, write buffer, fill counter, ack mask | take a command, burst fill, single read, write, lock | commands arrive while the bus is busy |
| synchronisers (`dcache.vhd`) | toggles, two flip-flops each way, half-cycle latches | send, acknowledge | two clocks without common phase; data may not have settled |
| RAMs, bus adapter (`dcache_ram.vhd`, `dcache_adapter.vhd`) | tags, data | | output after a write is not specified |
| mode register (`icache_modereg*.vhm`) | on/off bits, invalidate pulses, cpu interrupts | bus write | switching with work in flight |
| instruction cache (`icache*.vh*`) | as the data cache, read only | fetch, fill, invalidate | a jump during a fill |
| datapath (`core/datapath.vhm`) | pipeline registers, bus requests, debug state machine | slot, stall, debug break/step/insert/continue | two busses, multiplier and debugger stall one slot |
| register files (`core/register_file*.vhd`) | 21 or 32 registers, write pipelines | EX write, WB write, two reads | forwarding; three implementations of one file |
| multiplier (`core/mult.vhm`) | busy state, MACH/MACL | mul, mac, saturate | results read while busy |
| decoder (`decode/`) | instruction sequence, delay slot, event entry | next micro-step | tables are generated |
| simulator hooks (`sim/sim/simulator.c`) | list of timed and immediate callbacks, current time | add, remove, wait, fire a round | callbacks change the list while it is walked |
| simulator memory bus (`sim/sim/mem_bus.c`, handlers of `cpu_ctb.c`, `delays.c`) | pending operation, acknowledge and drop timers, delay rules | start, acknowledge, drop, cancel, reset | timers of one operation meet the next |
| simulator link (`sim/sim/simulator.c`, `vpibridge.c`) | two pipes, echo counter, copies of signals, pending wait | startup, set, get, wait, echo | two processes, bounded pipes, the other may die |
| serial devices and drivers (`sim/sim/uart*.c`, `testrom/uart*.c`, `main.c`) | device registers, bytes typed and shown | register access, send, receive, set baud rate | reads with effects; DLAB gives registers two meanings |
| simulator debug stack (`sim/debug*.c`, `recv_buf.c`, `cpu_ctb.c`) | command queue, two hooks, plan position, receive buffer, connection | queue, acknowledge, plan step, parse message, key | callbacks that re-queue; partial messages; replies that come instructions later |
| boot rom gdb stub (`testrom/gdb.c`, `sh2.c`, `entry.c`) | packet buffers, register file, planted trap | packet exchange, memory and registers, step, continue, file service | retransmission; every branch has its own step target |

The parts interact through signals: the cpu raises a request on its data bus and
holds it until acknowledged; the two cache halves talk only through the
synchronisers; each cache announces its stores on a snoop output that feeds the
snoop input of the other cpu's cache; the simulator drives the core through
signal hooks, over pipes to the process that simulates the VHDL; the memory bus,
the serial device and the debug queue are clients of one hook list; a debugger
reaches the core through the simulator's queue or through the boot rom, whose
stub talks through the serial drivers.

What makes them correct, in the order of importance used here:

1. a load returns the right value, whatever the caches, the other cpu and the
   clocks are doing; stores reach memory once, in order and whole;
2. locked sequences (TAS.B, CAS.L) are atomic and the lock is released;
3. every access ends;
4. a command that crosses between clocks arrives whole and once;
5. register values are those of program order; an inserted debug instruction is
   executed once; a debug command is answered once, in order;
6. the simulated memory and devices answer each operation once, in time and with
   its own data; a simulator round leaves both processes at rest and in agreement;
7. a debugger sees the program it loaded: steps run one instruction, replies are
   right, planted traps are gone.

## Modules

    Fsync            one synchroniser register pair (dcache.vhd, cache_pkg.vhd)
    FsyncChannel     a sender, a receiver and the channel between them
    FsyncSlot        abstract specification: a slot for one command
    FsyncChannel_proof  theorems about FsyncChannel
    MCFsyncChannel   TLC instance
    DcachePack       addresses, words, lanes, commands (cache_pkg.vhd)
    DcacheCcl        cpu half: one operator per signal, CclNext the next registers
    DcacheMcl        memory half: likewise, MclNext
    Dcache           both halves, synchronisers, RAMs, cpu, memory, other master
    MCDcache         sets of accesses for the TLC configurations

    SimKernel        the hook list of simulator.c: state and operators
    SimHooks         SimKernel under any client that keeps simulator.h's rules
    Delays           delay rules of the simulated memory (delays.c)
    Uart             both serial devices and both drivers
    MemBus           SimKernel, Delays and Uart under mem_bus.c, with a cpu
    SimLink          simulator.c and vpibridge.c, two processes and their pipes
    DebugPlan        the plans of debug_plan.c, and the stopped cpu that runs them
    Debug            debug.c, debug_skt.c, recv_buf.c, the keys of cpu_ctb.c, and the
                     debug port of datapath.vhm
    Sh2Target        register file, step targets, planted traps (sh2.c)
    GdbStub          gdb.c with Sh2Target, the serial line, an application and gdb
    MC<module>       the TLC instance of each
    <module>_proof   theorems about that module; DcacheStores_proof continues
                     Dcache_proof, and DcacheReads_proof both

`DcacheCcl` and `DcacheMcl` follow the VHDL style of the source: a two-process
entity computes its next registers and outputs from registers `r` and inputs `x`.
Each operator is one signal of the combinational process; `CclNext`/`MclNext`
assemble the register record. `Dcache` has one action per clock edge: `CEdge` and
`MemAck`/`MemWait` are the rising edges of clk125 and clk200 (with and without an
acknowledge from memory), `CLow` and `MLow` the falling edges on which the
half-cycle latches open, `RemoteWrite` a write of the other master. The cpu, the
control register and the other master choose what to do in `CEdge`, because they
are on the cpu's clock.

Left out of the cache: registers nothing reads (`ta0`, `sabank_rcv`,
`rfillv_del1`, `ry_a1fillc`, `ry_en1`, `cmd`, `b30en`), the `ddrburst` hint and the
bus adapter's packing. `sbbufin_2` always equals `sbbufin`.

**Hooks.** `SimKernel` has the list as it is while a round is walked: `hooks` the
list being built, `old` and `todo` the list that is left, `time` the time of each
hook. `AfterCallback` is what follows the return of a callback; behind the walk,
`MergeHook` adds what was scheduled to the old list, one hook per step, `CallImmediate`
is an immediate hook that removes one, and `EndRound` gives the list back; nothing else
can happen between these steps. `SimHooks` adds a client that does anything
`simulator.h` allows; `MemBus` adds the real one.

**Memory bus.** `CallReadWrite` is `read_write_cb`, its branches `StartOp`, `ResetBus`,
`EndOp` and `AckOp`; `CallDropAck` is `drop_ack_cb`; `CancelDrop` is the immediate
`cancel_drop_cb`. Time is kept modulo two clock periods, since only differences
count. `CpuEdge` is the cpu: it holds an operation until it is acknowledged, starts
others back to back or after idle cycles, and may be reset in between. The bus
`uart` leads to `Uart`: a read of the receive register takes a byte, and waits, with
the whole simulation, for one to be typed, as `read()` in the handler does. On that bus the
cpu runs the accesses of a driver's program; the MC module builds programs from
`main_sh` with the stub's sends and receives inserted after any access.

**Link.** The bench (`Write`, `GoToIdle`, `ReadLine`, `Round`, `Set`, `Get`, `Call`, ...)
and the bridge (`ReadCommand`, `Delta`, `EchoCb`, `WaitCb`, ...) are two processes with
two bounded pipes of lines. A line is a record. The design inside is four signals,
one of them a clock.

**Debugger.** A clock cycle is three phases, because what the bench writes in one
is seen by the cpu in another: the edge with `ack_hook`, the main loop, and the
quarter period at which `drop_en_hook` takes the request away. A message is two
chunks so that it can arrive in pieces. The pipeline of the stopped cpu is its effect
on registers and memory and a delay of `Latency` inserted instructions until a value
shows on the debug port, which is what the plans are written for.

**Stub.** To the stub the line is a sequence of characters, since each wait of the
stub consumes one; a payload or a checksum is one character. To gdb a packet is one
item. Hex and binary conversion, alignment of memory accesses, and the running sum
are computed as in the code. The application is a program of one instruction of each
kind that `get_stepi_dest` knows, taken and untaken, forwards and backwards.

### What the models assume of the surroundings

Simulator and boot rom:

- The drop delay of an acknowledge is shorter than a clock period
  (`DropBeforeEdge`; `delays.cfg` asks for 6 of 10 ns). With more, an operation can be
  answered by what is left of the one before it.
- Two identical operations back to back cause no signal event, so the second is not
  performed but answered by the first acknowledge. For memory that is harmless; the
  serial drivers never do it, since they poll in between.
- Picosecond scale 1: with a coarser one a wait may overshoot a hook's time, and
  `hook->time == sim->picos` would miss it.
- The bench waits with `sim_wait` and `sim_wait_time`, which end at the first hook's time.
  `sim_wait_clk_edge`, which no program of the repository calls, may run past it: `SimHooks`
  has it (`WaitClkEdge`), and `NeverLate` leaves out the rounds of such waits. On a bench
  that used it, `mem_bus.c` would miss the timers it passed.
- Every bus of the bench has a drop delay (`cpu_ctb.c:71-147`). Without one an acknowledge
  that is still high is cut when the next operation starts; `StartOp` says so, but no
  run reaches it.
- `cpu_ctb.c` gives `debug_plan_init_mem_read` no buffer (`cpu_ctb.c:483`), so the values are
  read and dropped (`debug_plan.c:207`). The run presses the key with and without one
  (`Givens`), as the values are what the latency of the plan is about.
- A cpu reset in the middle of a serial access is left out: the byte is lost.
- The rom is not interrupted inside `uart_set_baudrate`. On a 16550 the stub's bytes
  would go to the divisor. (The rom is built with the uartlite.)
- A client of the link writes at most `Burst` commands before it listens, and the two
  pipes together hold a burst, a wait and an echo, or a startup batch and an echo
  (`PipeAssumption`); a batch is ten lines (`simulator.c:514`), and a real pty holds some
  hundreds. Fewer echoes are outstanding than the 16 bits of `echo_arg` tell apart
  (`EchoAssumption`). After an error the bench exits, as both programs are set up to
  (`cpu_ctb.c:52`, `decodeop.c:63`); with `SIMEXIT_NONE` a forced wait would spin.
- A callback does not write for ever in zero time.
- A peer of the debug socket sends whole messages. One that sends a second message
  before the first has arrived (`hasty`) is modelled, but the properties say nothing
  of it: only one message is parsed for each receive, and the second waits until
  more bytes come. One that hangs up inside a message would shift the framing of
  the next connection, as the receive buffer is not cleared.
- The noise of gdb's line spares the stub's `+` (gdb would send the command again
  and it would be carried out twice) and the request of a file service, which is sent
  once.
- Interrupts and faults enter the stub at any instruction, but not while a step is
  under way (`NmiInStep = FALSE`): `gdb_monitor_onentry` (`sh2.c:256-260`) puts the saved
  instruction back at the pc of the exception, and with `NmiInStep = TRUE` `CodeIntact`
  fails. An instruction 0x0000 under a planted trap is taken for "not stepping"
  (`ProgramsAssumption`). gdb does not step a breakpoint.
- Interrupts are taken from the application only. An NMI inside the stub would save the
  stub's registers over the application's, as there is one `register_file`
  (`sh2.c:306-353`); and `gdb_trapa34_isr` (`sh2.c:434-442`) leaves SR as it was, so that
  any interrupt the application allows could enter the stub a second time during a
  file service. Neither is modelled.
- Commands fit the stub's 200-byte buffer. `qOffsets` is answered like any unknown
  query, because `getmsg` leaves the `#` in the buffer that it is compared with.

Data cache:

- Clocks of 125 and 200 MHz without common phase: one or two memory edges to each
  cpu edge, and clk125 falls before the second of them. With three edges
  `Delivered` fails: the toggle back is missed.
- A line has at least four words (eight in the code). With two, the critical word
  and the end of a fill are seen in one cycle and the cpu half stays in RMISS3.
- The RAM cells are not in the repository. Reads are synchronous; after a write
  the tag output may be anything and the data output is junk.
- Memory acknowledges in any cycle in which it has a request, and only then;
  `ack_r` equals `ack`, as in `dcache_tb.vhd:123`.
- The bus arbiter, not in the repository, keeps the bus from a locked acknowledge
  for as long as the request or the lock stays up.
- Snoops come at least two cpu cycles apart. The cache's own output keeps that
  distance (`SnoopOutMatches`), and the input comes from such an output.
- The cpu holds a request until it is acknowledged; the control register is
  written only when the data bus is idle, since it is reached over that bus.
- Two lanes stand for the four bytes of a word.
- Data that is sampled while it settles is modelled in `FsyncChannel` (value
  `Torn`) and not again in `Dcache`, where a word is sampled whole. For channel 2,
  where the half-cycle latch is the memory side's, `Dcache` samples junk until the
  latch has opened.

## Runs

| run | instance | shows |
|---|---|---|
| `channel` | two commands, up to two memory edges per cpu edge | commands arrive whole (`CommandIntact`), once (`TakenOnce`), none is lost (`NothingLost`), an acknowledge is never stale (`AckMeansDone`), every wait ends (`Delivered`), and the channel implements `FsyncSlot` (`SlotSpec`) |
| `dcache_stores` | four accesses, two tags for one place, two lanes | `BusWriteIsOldest`, `SnoopOutMatches`, `ChannelsFree`, and `ReadsAreFresh` for the cpu's own stores, partial ones included |
| `dcache_coherence` | three accesses with TAS.B, two tags, two indices, one snooped write of another cpu | `ReadsAreFresh` with read-ahead, fills and evictions against a snoop; `TasAtomic` |
| `dcache_ctrl` | three accesses, two writes of the control register, one DMA write | off, invalidate and on in any order: loads after an invalidate see memory and the cpu's own stores |
| `dcache_live` | four accesses with TAS.B and CAS.L that fails and then idles | `EveryAccessEnds`, `WritesDrain`, `LockReleased` |
| `dcache_cas_fail` | as above, the next load follows at once | `LockReleased` is violated: see below |
| `hooks` | three hooks, times up to 3, any callback | the list holds exactly the hooks registered (`ExactlyRegistered`), none stays overdue (`NothingOverdue`), also after waits for a clock edge that pass target times, and after `sim_wait` and `sim_wait_time` none is called late (`NeverLate`) |
| `membus` | three operations on the data bus and one fetch, four delay files, one reset; or a driver's program of up to 14 accesses on either serial device | loads see stores (`ReadsSeeWrites`), stores are whole (`WritesAreDone`), the drop hook is where its time says (`DropHookKnown`), answers come in time (`AnsweredInTime`), each access to the line takes effect once and in order (`LineInOrder`) |
| `simlink` | four signals, pipes of two lines, five calls, the simulator stops at time 8 | both ends at rest and in agreement after a round (`IdleIsQuiet`), reads are current (`CopyIsCurrent`), no mutual wait (`NoMutualBlock`), calls end (`CallEnds`) |
| `debug` | socket: three messages over two connections, a buffer of three chunks; keys: three of eight; one BREAK in the program | `RepliesInOrder`, `DoneOnce`, `PausedIsReal`, `ListsSound`, `PlanWorks`, `RequestAnswered` |
| `gdb` | three commands, one damaged character, one interrupt, about forty programs | `ReplyMatches`, `CodeIntact`, `StepRunsOne`, `Answered` |
| `gdb_checksum` | one read of memory, one damaged character | `ChecksumIsOfData` is violated: see below |

**Bounds.** Data cache: four accesses are enough for two stores in flight, a third that waits
and a load behind them: there are two store banks and one buffer entry. Two tags
for one index give every kind of miss and an eviction. Four words make a fill in
which the critical word, words before and words after it all differ. One write of
another master meets each phase of an access. Larger instances were also explored
without error: five accesses in `dcache_stores`, two writes of the other cpu on a
single index (2.0 million states), four accesses in `dcache_coherence`'s setting
(3.8 million).

Hooks: three are enough for one that is called, one that it adds or cancels, and one
that is merged past them. Memory bus: the third operation meets the drop timer that
the first scheduled; delays shorter than, equal to and longer than a period occur.
Link: a pipe of two lines is full after one value change and one echo, `EchoMod` is
more than can be outstanding. Debugger: the buffer of one and a half messages is
compacted in every way a message can lie in it; three keys are break, a plan and
what follows it. Stub: one damaged character reaches every place of every exchange,
and three commands give a write, a read and one more.

**Deadlock** is checked in every run but `gdb` and its violation, where gdb may have sent
its last command. Clocks always have a next edge, and the link's end is a step of its own
(`Finished`).

**`ReadsAreFresh`.** A load may return the cpu's own latest store to the lane or,
without one on its way, what memory holds. While another master's write is younger
than three cpu cycles after its snoop (the time `dcache_ccl` takes to look the line
up and clear its valid bit), the value before that write is still acceptable, but not
once the cpu has read the new one. A DMA engine does not snoop; its write becomes
binding when software invalidates the cache.

**Fairness.** Weak fairness of the edges of both clocks: they run for ever. Strong
fairness of a memory acknowledge: memory answers a request that is held. Strong
fairness of the cpu's next step after a locked read: TAS.B and CAS.L are
micro-programs that go on once data has come. No fairness is assumed of the other
master or of the program.

`SimLink`: weak fairness of the bench's library and of the simulator, two processes
that run; strong fairness of `CheckChild`, since a process that has ended is reported by
`waitpid` sooner or later. None of the client. `Debug`: weak fairness of the main loop,
the clock and the timer; strong fairness of the two edges at which the cpu comes to
the end of an instruction and asks for the next, because every memory of the bench
acknowledges (`AnsweredInTime`). None of the peer. `GdbStub`: weak fairness of the stub
with its application, and of gdb reading what comes and repeating an unanswered command.
None of gdb's next command, of the noise or of interrupts.

**The failing CAS.L.** `dcache_ccl.vhm:394-400` remembers that the bus is locked and
forgets it when the cpu's lock falls, with the comment "negate lock". The memory half
drops its lock only on a command sent from state NEGLCK, and IDLE goes there only when
the cpu has no request in that cycle (lines 322-326). When CAS.L fails, its lock falls
in the same slot in which the next instruction may raise a request
(`datapath.vhm:409`): the memory half is then not told and keeps `my.lock` up until some
later access misses or a store is sent. Run `dcache_cas_fail` has the behaviour; an
idle cycle between the two avoids it (`dcache_live`).

**The repeated reply to m.** `read_memory` clears its running sum where it is declared
(`gdb.c:567`), outside the loop that sends the reply again when it is not acknowledged;
`putmsg` clears it inside. The second transmission therefore carries the sum of the
data twice, which contradicts the packet format at the head of the file ("an 8-bit
checksum of <data>"). gdb refuses such packets until the sum comes round; in run `gdb`,
where that happens, the command is answered in the end.

## Proofs

Eight modules hold theorems, each for every value of the constants that the named
assumptions allow. In each, an inductive invariant is proved first and the properties
are drawn from it. TLC checked these invariants on the modules' runs, and on variations
of their bounds, before they were proved.

**`FsyncChannel_proof`**: every set of commands, one or two memory edges per cpu edge
(`ChannelAssumption`). `TypeCorrect`; `TakesWhole` (`CommandIntact`), `TakesOnce`
(`TakenOnce`), `AckIsTrue` (`AckMeansDone`), `LosesNothing` (`NothingLost`), and
`ChannelImplementsSlot`: `Spec => SlotSpec`. None of the four is inductive: they speak
of one flip-flop each, and the next value of a flip-flop depends on those before it. The
invariant `IInv` follows a command through the channel and says, for each of five phases
(`Idle`, `Latched`, `Shown`, `Served`, `Answered`), what all flip-flops on the way hold.
Its key is `Rising`: the edge that the receiver waits for is still ahead of it, in order,
in the chain of flip-flops. The bound on the clock ratio enters through `mEdges`: how far
the memory side's chain can have moved since the cpu's last edge.

**`Dcache_proof`**: the composed cache with any number of tags, indices and lanes, lines
of at least four words (`PackAssumption`), any set of accesses, any bounds, snooping or
DMA (`DcacheAssumption`).

- `CommandsFollowProtocol`: `[]CoreInv`. The channel's phases again, now between the two
  real state machines: in each phase, what `dcache_ccl` waits for and what `dcache_mcl` is
  doing. The difficulty is the buffered write: `dcache_mcl` answers it before it has
  performed it, so the next command may arrive while it is on the bus (`Blocked`), or in the
  gap cycles behind it, where only a write or a lock release waits (`GapInv`).
- `TypeCorrect` (`TypeOK`).
- `ChannelsAreFree` (`ChannelsFree`): `Channel2Inv` counts the one word owed for a miss,
  `BankInv` and `BankSeen` say which store bank belongs to the write that is under way
  and which to the one before it, and that the cpu side has seen a bank come back
  before it uses it again.
- `TasIsAtomic` (`TasAtomic`): `LockRaised`, `StateInv` (which command goes with which
  state of `dcache_ccl`) and `TasInv` keep the lock from the read to the write through
  both clocks.

**`DcacheStores_proof`**: `StoresInOrder` (`BusWriteIsOldest`), under the same
assumptions, switching the cache included. The stores not performed are exactly those in
three places (`PendInv`): the store buffer, the command channel, the cpu's request, in
this order. `CpuInv` says what the cpu can be asking for in each state of `dcache_ccl`,
`RegInv` that the memory half's registers are still the command's.

`StoresAnnounced` (`SnoopOutMatches`), provided that the cache is switched off only with
all its stores performed and announced (`[][QuietSwitch]_vars`, see below), and
`StoresAnnouncedInOneMode`, without that hypothesis for a cache whose mode is not changed
(`MaxCtrl = 0`, as in run `dcache_stores`). A performed store shows in its bank as a
falling edge that moves by one flip-flop with each cpu cycle: `Late`, `Soon`, `Now`.
`DoneInv`: the lines performed and not announced are those of the bank that is `Now` and
of the one before. That there is never a third, and never two in a row (`ApartInv`),
depends on the clocks: at most two memory edges pass in a cpu cycle, and the gap states
after a write, or the fill before the next, take more than that (`DistanceInv`, `FarOff`).
`PlaceInv` follows a store's line from `saout_al1` into the `saout_al2` of its bank, which
must hold it before the bank can come back; `OffInv` says that with the cache off a
store is announced before its access ends, so before the next access, which may be a
read, loads its own line into `saout_al1`.

**`DcacheReads_proof`**: `ReadsFreshAlone` (`ReadsAreFresh`) when no other master writes
memory (`MaxRemote = 0`, as in run `dcache_stores`); otherwise under the same assumptions,
the cache switched and invalidated at any time and the locked accesses included.
`ExpectedBehind` turns the property's queue into state: a lane must read as the store in
the channel, else the buffered one, else memory (`Behind`), and no memory clock edge
changes that (`BehindM`: a store only moves on). The invariant `ReadInv` says where that
value is.

- `RamInv`: in the data RAM, for a valid line that is not being filled; only the store the
  cpu is asking for may be there already, since `dcache_ccl` writes it before it has
  compared the tag (`StoredHere`).
- `FillInv`, `ReadRegs`: in the words of a line that its fill has read, which start at the
  critical word and go around the end; of the word a store missed, that store's lanes are
  right from the start and the fill leaves them out.
- `OutInv`, `HitInv`, `AskInv`: at the RAM's output for the word looked up or read ahead,
  which `dw` keeps over idle cycles; and the hit found with it is still one.
- `DropInv`: a locked read drops its line, and nothing brings it back before the write,
  which goes past the cache.
- `InStep`, `Word2Inv`, `Word0Inv`: in the registers of channels 2 and 0. That the critical
  word has come before the fill's end is answered needs the two channels in step.

**`SimLink_proof`**: any pipe length, batch, burst, set of waits and stopping time
(`LinkAssumption`, `EchoAssumption`). `IdleMeansQuiet` (`IdleIsQuiet`), `CopiesAreCurrent`
(`CopyIsCurrent`), and with `PipeAssumption` `NeverBothBlocked` (`NoMutualBlock`). Outside
`sim_go_to_idle` the bridge listens and owes nothing (`RestInv`). Inside, each command
makes it print one line at most and the bench asks for one echo per line it reads, so at
most `Most` lines are under way; the echoes among them are consecutive numbers (`AskedInv`)
that the counter cannot confuse, and the last is printed with nothing left behind it
(`AnswerInv`). `CopyInv` and `TimeInv` say what the bench will know when it has read what
is in the pipe. `EchoAssumption` was found by the proof: with as many lines under way as
the counter has values, an old echo is taken for the last.

**`Debug_proof`**: every buffer of at least one message (`BufAssumption`), any number of
messages, connections, keys and BREAK instructions. `HooksSound` (`ListsSound`),
`CarriedOutOnce` (`DoneOnce`), `PausedIsTrue` (`PausedIsReal`), `RepliesSound`
(`RepliesInOrder`). `QueueInv` ties queue, port and the two hooks together over the three
phases of a cycle, `IdInv` the numbers of the requests that the cpu has carried out,
`SocketInv` what has been asked to what is in the receive buffer, in the queue and
replied, for this connection and the ones before.

**`SimHooks_proof`**: any number of hooks, delays and times (`HooksAssumption`).
`ListsAreExact` (`ExactlyRegistered`), `NoHookIsLate` (`NeverLate`), `NoHookIsOverdue`
(`NothingOverdue`). None is inductive. `Lists` says that a registered hook is in one of
the two lists of a round, once, and that the walk is over hooks that are still in the old
one; `Order` that the old list stays sorted, since a hook whose time changes leaves it,
and the other sorted whenever no round runs, since the merge inserts in order; `Times`
that no time has passed, unless by a wait for a clock edge whose round still runs
(`edged`), and that those that have come or passed are about to be seen. `WaitIsShort` is
where they meet: `next_hook_delay` reads the head of the list only, and what it finds is
the least time because the list is sorted and no time in it has passed. The lemmas before
it say what `sim_hook_add` and `sim_hook_remove` do to any list (`Added`, `Removed`).

**`GdbStub_proof`**: first what a step relies on, where there is no state and so no
invariant. `StepTargetIsRight`: for every register contents, program and vector table
`get_stepi_dest` is where the instruction set goes next; the sign extension of the 8- and
12-bit fields is that of two's complement. `StepIsUndone`: running from the planted
program one comes to the planted trap, with that pc, and `gdb_monitor_onentry` leaves the
program as it was. It needs an instruction other than 0x0000 at the destination, the value
the code uses for "not stepping".

Then the stub, for any programs of well-formed instructions and any commands
(`ProgramsAssumption`), any number of requests, damaged characters and interrupts.
`ProgramIsPutBack` (`CodeIntact`) and `StepIsSingle` (`StepRunsOne`), with two hypotheses:
`NmiInStep = FALSE`, since the code does not hold otherwise, and `[]InProgram`, the
application does not leave its memory. That a step meets its trap first depends on gdb
not stepping a breakpoint, gdb decides by the pc it knows, and that this is the stub's pc
is a property of the whole exchange. `Packets` and `Verdicts`: the line holds one closing
`#`, or one `+` or `-` of the stub, and gdb waits for it; so a command is carried out once
and the checksum that closes it is its own. `Phases`: for each state of gdb, what the stub
is doing; the messages behind the `+` (`Fresh`) are of the present run, and the ones before
it, sent again by a stub that waits for an acknowledge, are of none. `Memories`: the trap
is planted at most at one place, under the pc or where its instruction leads.

Checked by TLC only:

- liveness (`Delivered`, `EveryAccessEnds`, `WritesDrain`, `LockReleased`, `CallEnds`,
  `RequestAnswered`, `Answered`), which is out of the prover's reach as everything under
  fairness is;
- what recursive functions and folds compute for every input: hex conversion and access
  splitting in `GdbStub` (`ReplyMatches`), the plans (`PlanWorks`);
- all that uses bit operations (`Delays`, and with it the properties of `MemBus`);
- `ReadsAreFresh` with another master, where an old value may be read until its snoop is
  over: see the plan.

**Scope of `SnoopOutMatches`.** The run that checks it does not switch the cache, and
the theorem asks that it be switched off with nothing under way. Without that it does
not hold: when the cache is off a read takes `OFF1` and loads its line into `saout_al1`
(`dcache_ccl.vhm:408-412`), which `saout_al2` copies in every cycle (543-545). A store
that was buffered when the cache was switched off, and is performed after that, is then
announced with the line of the read. No line of the repository says that the cache may
not be switched off with a store in its buffer, nor that it may.

## Not modelled

- Bit layout of addresses and busses, the instruction tables, formatting and
  disassembly (`decodeop.c`, `sh2instr.c`, `pinst.c`): text, no state.
- The decoder generator: a build-time program. `packet_gen.c`: writes test data.
- `uthash.h`, `utlist.h`: vendored; the models use sequences and functions.
- Of the bench: options, forking the simulator, cutting bytes into lines, bit vectors,
  test-vector events, pio and ddr handlers, the keys B, R, I and N, instruction
  statistics. In a bench without a pty the serial device's `read_fd` is -1 and a read of
  the receive register never returns. The GHDL stub of `sim_macros.h` answers an echo
  after one delta and is not modelled beyond its `clkwait`, which runs to the clock edge; the
  bridge rejects `clkwait`, so `sim_wait_clk_edge` returns at once there.
- Of the boot rom: console output, the profiling timer, `ddr_init` (constant writes),
  the cpu self tests (straight-line code), and the 16550's `uart_rx_flush`, which is
  not called and would not end on a device that always reports a byte.
- The parts of the inventory that no module models yet: see the plan.

## Plan

Modelled: synchronisers, data cache, simulator hooks, memory bus, serial line, link,
debugger, gdb stub. Left, in order of importance:

1. Proof of `ReadsAreFresh` with another master: the invariant of `DcacheReads_proof`
   with the old values that each place may still have in every phase of a snoop.
2. Register files: an abstract file with program-order writes and the three
   implementations, each a refinement of it; proved with TLAPS.
3. Datapath slots: instruction and data bus requests, multiplier and coprocessor
   stalls; no request lost or issued twice. Its debug state machine is in `Debug`.
4. Instruction cache: the same composition as `Dcache`, read only.
5. Multiplier: iterative product against a reference on small widths.
