-------------------------------- MODULE Delays ---------------------------------
(***************************************************************************)
(* The delay rules of the simulated memory (sim/delays.c).  A line of the  *)
(* configuration file is given as the sequence of its parts: a range of    *)
(* addresses, or a mask and a value to match, and then two or four delays. *)
(***************************************************************************)
EXTENDS Integers, Sequences, SequencesExt, Bitwise

\* parse_delay refuses zero and negative numbers.
DelayOK(d) == d > 0

\* parse_cfg_line on the parts that split_line found: an odd number of parts
\* starts with a range, an even one with mask and match.
ParseCfgLine(parts) ==
  LET n == Len(parts)
  IN  [range    |-> IF n % 2 = 1 THEN parts[1] ELSE <<>>,
       mask     |-> IF n % 2 = 1 THEN 0 ELSE parts[1],
       match    |-> IF n % 2 = 1 THEN 0 ELSE parts[1] & parts[2],
       wr       |-> parts[n - 1],
       wr_drop  |-> parts[n],
       rd       |-> IF n >= 5 THEN parts[n - 3] ELSE parts[n - 1],
       rd_drop  |-> IF n >= 5 THEN parts[n - 2] ELSE parts[n]]

\* The lines that parse_cfg_line accepts.
LineOK(parts) ==
  LET n == Len(parts)
  IN  /\ n \in 3 .. 6
      /\ DelayOK(parts[n - 1]) /\ DelayOK(parts[n])
      /\ n >= 5 => DelayOK(parts[n - 3]) /\ DelayOK(parts[n - 2])

\* delays_init_cfg gives up at the first line it cannot parse, and blank lines,
\* which have no parts, add nothing.
DelaysInitCfg(lines) ==
  LET rules == SelectSeq(lines, LAMBDA l : l # <<>>)
  IN  [i \in DOMAIN rules |-> ParseCfgLine(rules[i])]

CfgOK(lines) == \A i \in DOMAIN lines : lines[i] = <<>> \/ LineOK(lines[i])

CheckAddr(rule, addr) ==
  IF rule.range # <<>> THEN rule.range[1] <= addr /\ addr <= rule.range[2]
                       ELSE rule.mask & addr = rule.match

\* delays_lookup: the first rule that matches, or what the bus has by default.
DelaysLookup(rules, addr, is_read, default) ==
  LET i == SelectInSeq(rules, LAMBDA r : CheckAddr(r, addr))
  IN  IF i = 0 THEN default
      ELSE IF is_read THEN [ack |-> rules[i].rd, drop |-> rules[i].rd_drop]
                      ELSE [ack |-> rules[i].wr, drop |-> rules[i].wr_drop]

===============================================================================
