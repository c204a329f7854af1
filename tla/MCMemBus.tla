------------------------------- MODULE MCMemBus --------------------------------
EXTENDS MemBus

R(a, s) == [en |-> TRUE, wr |-> FALSE, a |-> a, size |-> s, d |-> 0]
W(a, s, d) == [en |-> TRUE, wr |-> TRUE, a |-> a, size |-> s, d |-> d]

\* Instructions are fetched from word 4 .. 7, data is in word 0 .. 3.
MCBuses == {"db", "if", "uart"}
MCRequests == [b \in {"db", "if"} |->
  IF b = "db" THEN {W(0, 4, "x"), W(1, 1, "y"), W(2, 2, "x"), R(0, 2), R(1, 1), R(3, 1), R(4, 4)}
              ELSE {R(4, 2), R(6, 2)}]
MCDefault == [b \in MCBuses |->
  CASE b = "db"   -> [read |-> 5, write |-> 0, drop |-> 2]
    [] b = "if"   -> [read |-> 2, write |-> 9, drop |-> 3]
    [] b = "uart" -> [read |-> 5, write |-> 0, drop |-> 1]]
MCCfgs == {<< >>,
           << << <<0, 1>>, 3, 3 >> >>,
           << <<>>, << 1, 1, 2, 2, 9, 1 >>, << <<0, 3>>, 1, 2, 3, 1 >> >>,
           << << <<0, 3>>, 0, 1 >> >>}
MCRanges == [b \in {"db", "if"} |->
  IF b = "db" THEN << [start |-> 0, end |-> 4, read |-> TRUE, write |-> TRUE] >>
              ELSE << [start |-> 0, end |-> 8, read |-> TRUE, write |-> FALSE] >>]

\* Memory alone; the serial line, where the rom's start is followed by the stub, or
\* interrupted by it once the line is set up; and an echo beside a use of memory.
Ops(db, if) == [b \in {"db", "if"} |-> IF b = "db" THEN db ELSE if]
Stub(kind) == uart_tx(kind, 36) \o uart_rx(kind)
Interrupted(prog, i, isr) == SubSeq(prog, 1, i) \o isr \o SubSeq(prog, i + 1, Len(prog))
Main(kind) == main_sh(kind, <<<<65, 10>>>>)
Starts(kind) ==
  {Interrupted(Main(kind), i, Stub(kind)) : i \in Len(uart_set_baudrate(kind)) .. Len(Main(kind))}
EchoOf(kind) == uart_set_baudrate(kind) \o uart_rx_echo(kind)
  \o (IF kind = "uartlite" THEN uart_rx_flush ELSE <<>>)
MCLoads ==
  {[ops |-> Ops(3, 1), kind |-> "uartlite", prog |-> <<>>]}
  \cup UNION {
    {[ops |-> Ops(0, 0), kind |-> k, prog |-> p] : p \in Starts(k)}
    \cup {[ops |-> Ops(1, 0), kind |-> k, prog |-> EchoOf(k)]} : k \in {"uartlite", "uart16550"}}
===============================================================================
