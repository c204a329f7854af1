----------------------------- MODULE DcachePack ------------------------------
(***************************************************************************)
(* The types the two halves of the data cache share (cache/cache_pkg.vhd). *)
(*                                                                         *)
(* An address is split into the fields the cache looks at: tag t, index i, *)
(* word-in-line w and lane-in-word b.  A word is a function from lanes to  *)
(* values; two lanes stand for the four bytes of a bus word, so a write    *)
(* covers all of a word or the lane its address names.  Values are numbers *)
(* that only have to be told apart.                                        *)
(***************************************************************************)
EXTENDS Naturals

CONSTANTS
  NumTags,      \* tags the model's addresses use
  NumIndices,   \* cache lines
  LineWords,    \* words in a line (8 in the code)
  NumLanes      \* lanes in a word

\* A line has at least four words: fewer and the critical word of a fill and
\* its end would come back to the cpu side in one cycle.
ASSUME PackAssumption ==
  /\ {NumTags, NumIndices, NumLanes} \subseteq Nat \ {0}
  /\ LineWords \in Nat /\ LineWords >= 4

Tags    == 0 .. NumTags - 1
Indices == 0 .. NumIndices - 1
Words   == 0 .. LineWords - 1
Lanes   == 0 .. NumLanes - 1

Addresses == [t : Tags, i : Indices, w : Words, b : Lanes]
Lines     == [t : Tags, i : Indices]
Places    == [t : Tags, i : Indices, w : Words]      \* where memory keeps a word

Line(a)  == [t |-> a.t, i |-> a.i]
Place(a) == [t |-> a.t, i |-> a.i, w |-> a.w]

\* The next word of the line, three bits wide.
NextWord(w) == (w + 1) % LineWords

\* What no location ever holds: a register after reset, a RAM's output after a
\* write.
Junk     == 0
JunkWord == [l \in Lanes |-> Junk]

Address0 == [t |-> 0, i |-> 0, w |-> 0, b |-> 0]

\* Merge the lanes we of new into old.
Merge(old, new, we) == [l \in Lanes |-> IF l \in we THEN new[l] ELSE old[l]]

\* NULL_DATA_O, the cpu's data bus when it asks for nothing.
NullRequest ==
  [en |-> FALSE, wr |-> FALSE, a |-> Address0, we |-> {}, d |-> JunkWord]

\* The size field of a command, and the lanes the memory side makes of it.
Size(we) == IF we = Lanes THEN "word" ELSE "lane"

\* A slip: the lane is off by one.
SizeLanesShifted(sz, a) == IF sz = "word" THEN Lanes ELSE {a.b + 1}

SizeLanes(sz, a) == IF sz = "word" THEN Lanes ELSE {a.b}

\* CACHE_DCMD_*: what the cpu side asks of the memory side.
Commands == {"READMISS", "NEGATE_LO", "READSGL_NM", "READSGL_LO", "WRITEMISS",
             "WRITESGL_FA", "WRITESGL_SL"}

NullCommand == [cmd |-> "READMISS", sz |-> "lane", a |-> Address0, d |-> JunkWord]

==============================================================================
