--------------------------------- MODULE Uart ----------------------------------
(***************************************************************************)
(* The serial line of the test bench and the boot rom's use of it: the     *)
(* devices sim/uartlite.c and sim/uart.c, as the registers they present to *)
(* the bus, and the drivers testrom/uartlite.c and uart16550.c, as the     *)
(* register accesses they perform.  Which of the two is in use is decided  *)
(* when bench and rom are compiled.                                        *)
(*                                                                         *)
(* A device is [kind, in, out, lcr, divisor, ier, mcr, scr]; in holds what *)
(* was typed and not yet read, out what was written to the terminal.       *)
(***************************************************************************)
EXTENDS Naturals, Sequences, SequencesExt

RegNames(kind) ==
  IF kind = "uartlite" THEN <<"RX", "TX", "STAT", "CTRL">>
  ELSE <<"RTX", "IER", "IIR", "LCR", "MCR", "LSR", "MSR", "SCR">>

\* uartlite_init and uart_init, after the memset.
UartInit(kind) ==
  [kind |-> kind, in |-> <<>>, out |-> <<>>, lcr |-> 0, divisor |-> 0, ier |-> 0,
   mcr |-> 0, scr |-> 0]

\* get_reg_id, for an address relative to the start of the range.
RegId(kind, a) ==
  IF a % 4 # 0 \/ a >= 4 * Len(RegNames(kind)) THEN "UNKNOWN"
                                               ELSE RegNames(kind)[(a \div 4) + 1]

\* A slip: the divisor latch access bit is not looked at.
IsDlabNever(u) == FALSE

IsDlab(u) == u.lcr >= 128

-------------------------------------------------------------------------------
(* Reads: whether the register can be read, whether read() waits for a byte,  *)
(* the value, and the device afterwards.                                      *)

Readable(u, id) ==
  id \in (IF u.kind = "uartlite" THEN {"RX", "TX", "STAT", "CTRL"}
          ELSE {"RTX", "IER", "LCR", "MCR", "LSR", "MSR", "SCR"})

TakesByte(u, id) == id = "RX" \/ (id = "RTX" /\ ~IsDlab(u))

\* The loop around read() ends when a byte was typed.
Blocked(u, id) == TakesByte(u, id) /\ u.in = <<>>

\* Both devices claim that a byte has come and that one can be sent.
UartliteRead(u, id) ==
  CASE id = "RX"   -> Head(u.in)
    [] id = "STAT" -> 5
    [] OTHER       -> 0

Uart16550Read(u, id) ==
  CASE id = "RTX" -> IF IsDlab(u) THEN u.divisor % 256 ELSE Head(u.in)
    [] id = "IER" -> IF IsDlab(u) THEN u.divisor \div 256 ELSE u.ier
    [] id = "LCR" -> u.lcr
    [] id = "MCR" -> u.mcr
    [] id = "LSR" -> 33
    [] id = "SCR" -> u.scr
    [] OTHER      -> 0

UartRead(u, id) ==
  IF u.kind = "uartlite" THEN UartliteRead(u, id) ELSE Uart16550Read(u, id)

AfterRead(u, id) == IF TakesByte(u, id) THEN [u EXCEPT !.in = Tail(@)] ELSE u

-------------------------------------------------------------------------------
(* Writes, of a value without its high bits.                                 *)

Writable(u, id) ==
  id \in (IF u.kind = "uartlite" THEN {"RX", "TX", "STAT", "CTRL"}
          ELSE {"RTX", "IER", "LCR", "MCR", "SCR"})

UartliteWrite(u, id, v) ==
  IF id = "TX" THEN [u EXCEPT !.out = Append(@, v)] ELSE u

Uart16550Write(u, id, v) ==
  CASE id = "RTX" -> IF IsDlab(u) THEN [u EXCEPT !.divisor = 256 * (@ \div 256) + v]
                                  ELSE [u EXCEPT !.out = Append(@, v)]
    [] id = "IER" -> IF IsDlab(u) THEN [u EXCEPT !.divisor = 256 * v + (@ % 256)]
                                  ELSE [u EXCEPT !.ier = v % 16]
    [] id = "LCR" -> [u EXCEPT !.lcr = v]
    [] id = "MCR" -> [u EXCEPT !.mcr = v % 32]
    [] id = "SCR" -> [u EXCEPT !.scr = v]

UartWrite(u, id, value) ==
  LET v == value % 256
  IN  IF u.kind = "uartlite" THEN UartliteWrite(u, id, v) ELSE Uart16550Write(u, id, v)

-------------------------------------------------------------------------------
(* The drivers: sequences of register accesses.  A poll is repeated until the *)
(* bit is as wanted; an echo stores the byte that was loaded last.            *)

Poll(reg, bit, want) == [what |-> "poll", reg |-> reg, bit |-> bit, want |-> want]
Load(reg)            == [what |-> "load", reg |-> reg]
Store(reg, v)        == [what |-> "store", reg |-> reg, v |-> v]
Send(reg, v)         == [what |-> "send", reg |-> reg, v |-> v]
Echo(reg)            == [what |-> "echo", reg |-> reg]

TxReady(kind) == IF kind = "uartlite" THEN Poll("STAT", 8, FALSE) ELSE Poll("LSR", 32, TRUE)
RxReady(kind) == IF kind = "uartlite" THEN Poll("STAT", 1, TRUE) ELSE Poll("LSR", 1, TRUE)
TxReg(kind) == IF kind = "uartlite" THEN "TX" ELSE "RTX"
RxReg(kind) == IF kind = "uartlite" THEN "RX" ELSE "RTX"

uart_tx(kind, c) == <<TxReady(kind), Send(TxReg(kind), c)>>

uart_rx(kind) == <<RxReady(kind), Load(RxReg(kind))>>

uart_rx_echo(kind) == uart_rx(kind) \o <<TxReady(kind), Echo(TxReg(kind))>>

\* Only the uartlite's, which its device ignores: the 16550's reads until LSR says
\* that no byte is left, which this device never says.  Nobody calls them.
uart_rx_flush == <<Store("CTRL", 2)>>

uart_set_baudrate(kind) ==
  IF kind = "uartlite" THEN <<>>
  ELSE <<Store("LCR", 131), Store("RTX", 10), Store("IER", 0), Store("LCR", 3)>>

\* putstr of main.c: a carriage return goes before each line feed.
putstr(kind, s) == FlattenSeq([i \in 1 .. Len(s) |->
  IF s[i] = 10 THEN uart_tx(kind, 13) \o uart_tx(kind, 10) ELSE uart_tx(kind, s[i])])

\* main_sh as the line sees it.
main_sh(kind, msgs) == uart_set_baudrate(kind)
  \o FlattenSeq([i \in 1 .. Len(msgs) |-> putstr(kind, msgs[i])])

\* The address of an access, and whether the value that comes back ends it.
AddrOf(kind, x) == 4 * (SelectInSeq(RegNames(kind), LAMBDA n : n = x.reg) - 1)

IsStore(x) == x.what \in {"store", "send", "echo"}

Over(x, v) == x.what = "poll" => ((v \div x.bit) % 2 = 1) = x.want

===============================================================================
