------------------------------- MODULE MCDebug ---------------------------------
(* Instances of Debug for TLC. *)
EXTENDS Debug

\* Every register has a value of its own.
UniqueRegs == [r \in Regs |-> 50 + r]

ThreeWords == [a \in {0, 4, 8} |-> 80 + a]
================================================================================
