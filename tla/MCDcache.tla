------------------------------- MODULE MCDcache -------------------------------
(* Instances of Dcache for TLC: sets of accesses the configurations choose from. *)
EXTENDS Dcache

A(t, i, w, b) == [t |-> t, i |-> i, w |-> w, b |-> b]
WholeWord(a)  == [a |-> a, we |-> Lanes]
OneLane(a)    == [a |-> a, we |-> {a.b}]

None == {}

ReadOne       == {A(0, 0, 0, 0)}
ReadOther     == {A(0, 1, 0, 0)}
WriteOne      == {OneLane(A(0, 0, 0, 0))}
RemoteOne     == {[t |-> 0, i |-> 0, w |-> 0]}

\* Two lines that compete for one place in the cache.
ReadConflict  == {A(0, 0, 0, 0), A(1, 0, 0, 0)}
WriteConflict == {WholeWord(A(0, 0, 0, 0)), OneLane(A(1, 0, 0, 1))}

\* Two words of one line, so that the second is read ahead; a line at another
\* index; a store that evicts the first line; and another master that writes
\* the second word.
ReadMixed     == {A(0, 0, 0, 0), A(0, 0, 1, 0), A(1, 1, 0, 0)}
WriteEvict    == {WholeWord(A(1, 0, 0, 0))}
RemoteNext    == {[t |-> 0, i |-> 0, w |-> 1]}

===============================================================================
