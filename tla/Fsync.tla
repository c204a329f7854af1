-------------------------------- MODULE Fsync --------------------------------
(***************************************************************************)
(* The bidirectional frequency synchroniser of cache/dcache.vhd.           *)
(*                                                                         *)
(* Each channel between the 125 MHz cpu clock and the 200 MHz memory clock *)
(* is a toggle handshake.  Each side owns one VALUE bit and passes what it *)
(* sees of the other through a METASTABLE and a STABLE flip-flop.  The cpu *)
(* side makes the two VALUE bits differ to send; the memory side makes     *)
(* them equal again to answer.  Channel 0 (commands) shows the cpu's VALUE *)
(* through a latch that is half a cpu cycle late, channel 2 (the critical  *)
(* word) shows the memory's VALUE half a memory cycle late, channels 30    *)
(* and 31 (write completions) use no latch.  The four pieces of VHDL       *)
(* differ only in which bit is seen late, so one definition serves: cs is  *)
(* the cpu's VALUE and ms the memory's VALUE as the channel shows them.    *)
(***************************************************************************)
EXTENDS Naturals

Bit == {0, 1}

Not(x) == 1 - x

Xor(x, y) == IF x = y THEN 0 ELSE 1

FsyncReg == [v : Bit, m : Bit, s : Bit]      \* VALUE, METASTABLE, STABLE

FsyncReset == [v |-> 0, m |-> 0, s |-> 0]

\* A slip in the cpu side: VALUE counts requests instead of inverting a bit.
FsyncCCounts(c, cs, ms, send) ==
  [v |-> IF send THEN ms + 1 ELSE c.v,
   m |-> Xor(ms, cs),
   s |-> c.m]

\* A slip in the cpu side: VALUE is driven whether a request is sent or not.
FsyncCAlways(c, cs, ms, send) ==
  [v |-> Not(ms),
   m |-> Xor(ms, cs),
   s |-> c.m]

\* The cpu side's flip-flops after a rising edge of clk125.  STABLE is 1 while
\* the channel is busy.
FsyncC(c, cs, ms, send) ==
  [v |-> IF send THEN Not(ms) ELSE c.v,
   m |-> Xor(ms, cs),
   s |-> c.m]

\* A slip in the memory side: the answer toggles the bit instead of copying it.
FsyncMToggles(m, cs, ms, answer) ==
  [v |-> IF answer THEN Not(cs) ELSE m.v,
   m |-> Not(Xor(ms, cs)),
   s |-> m.m]

\* The memory side's flip-flops after a rising edge of clk200.  STABLE is 0
\* while a request is waiting.
FsyncM(m, cs, ms, answer) ==
  [v |-> IF answer THEN cs ELSE m.v,
   m |-> Not(Xor(ms, cs)),
   s |-> m.m]

==============================================================================
