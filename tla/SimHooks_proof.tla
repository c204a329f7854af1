----------------------------- MODULE SimHooks_proof -----------------------------
(***************************************************************************)
(* The hook list of simulator.c is correct for any number of hooks and any *)
(* client that keeps the rules of simulator.h.                             *)
(*                                                                         *)
(* The argument.  A hook is in one of the two lists of a round, once, so   *)
(* that taking it out of one and putting it into the other loses nothing.  *)
(* The list that is walked stays in the order of its times, because a hook *)
(* whose time changes leaves it; and the merge inserts into that list.     *)
(***************************************************************************)
EXTENDS SimHooks, WellFoundedInduction, SequenceTheorems, FiniteSetTheorems, TLAPS

Once(s) == \A i, j \in DOMAIN s : s[i] = s[j] => i = j

\* Timed hooks first, in the order of their times.
Sorted(s, tm) ==
  \A i, j \in DOMAIN s :
    (i < j /\ tm[s[j]] # 0) => tm[s[i]] # 0 /\ tm[s[i]] <= tm[s[j]]

Types ==
  /\ picos \in Nat /\ time \in [Hooks -> Nat]
  /\ hooks \in Seq(Hooks) /\ old \in Seq(Hooks) /\ todo \in Seq(Hooks)
  /\ calling \in BOOLEAN /\ rounds \in BOOLEAN /\ edged \in BOOLEAN
  /\ evented \subseteq Hooks /\ cancelled \subseteq Hooks /\ registered \subseteq Hooks

\* Every hook that is registered is in one list, once; the walk is over hooks that
\* are still in the old one.
Lists ==
  /\ Once(hooks) /\ Once(old) /\ Once(todo)
  /\ ToSet(hooks) \cap ToSet(old) = {}
  /\ ToSet(hooks) \cup ToSet(old) = registered
  /\ ToSet(todo) \subseteq ToSet(old)
  /\ ~calling => old = <<>>
  /\ rounds => ~calling

\* While the round lasts hooks has the order in which the callbacks scheduled.
Order == Sorted(old, time) /\ (~calling => Sorted(hooks, time))

\* No time has passed, but for a wait for a clock edge; and those that have come, or
\* have passed so, are about to be seen.
Times ==
  /\ edged => rounds \/ calling
  /\ \A h \in registered : time[h] # 0 =>
       /\ edged \/ time[h] >= picos
       /\ time[h] <= picos => rounds \/ h \in ToSet(todo)

IInv == Types /\ Lists /\ Order /\ Times

-------------------------------------------------------------------------------
(* Lists.                                                                    *)

\* A set of natural numbers has a least element, which Min returns.
LEMMA Least ==
  ASSUME NEW S \in SUBSET Nat, S # {}
  PROVE  Min(S) \in S /\ \A y \in S : Min(S) <= y
<1> DEFINE R == OpToRel(<, Nat)
<1>1. IsWellFoundedOn(R, Nat)
  BY NatLessThanWellFounded
<1>2. R = {ss \in Nat \X Nat : ss[1] < ss[2]}
  BY DEF R, OpToRel
<1> HIDE DEF R
<1>3. PICK x \in S : \A y \in S : ~ (<<y, x>> \in R)
  BY <1>1, WFMin
<1>4. \A a, b \in Nat : a < b => <<a, b>> \in R
  BY <1>2
<1>5. \A y \in S : x <= y
  <2> SUFFICES ASSUME NEW y \in S PROVE x <= y
    OBVIOUS
  <2>1. ~ (<<y, x>> \in R)
    BY <1>3
  <2>2. x \in Nat /\ y \in Nat
    OBVIOUS
  <2>3. y < x => <<y, x>> \in R
    BY <1>4, <2>2
  <2> QED  BY <2>1, <2>2, <2>3
<1> QED  BY <1>5 DEF Min

\* The list r is s without its element k.
Without(r, s, k) ==
  /\ r \in Seq(Hooks) /\ k \in 1 .. Len(s) /\ Len(r) = Len(s) - 1
  /\ \A i \in 1 .. Len(r) : r[i] = IF i < k THEN s[i] ELSE s[i + 1]

\* It is s with h inserted before its element k, or at the end.
With(r, s, k, h) ==
  /\ r \in Seq(Hooks) /\ k \in 1 .. Len(s) + 1 /\ Len(r) = Len(s) + 1
  /\ \A i \in 1 .. Len(r) :
       r[i] = IF i < k THEN s[i] ELSE IF i = k THEN h ELSE s[i - 1]

\* Before its element k is where h belongs by its time.
InPlace(s, tm, k, h) ==
  /\ tm[h] = 0 => k = Len(s) + 1
  /\ tm[h] # 0 => \A i \in 1 .. k - 1 : tm[s[i]] # 0 /\ tm[s[i]] <= tm[h]
  /\ (tm[h] # 0 /\ k <= Len(s)) => (tm[s[k]] = 0 \/ tm[s[k]] > tm[h])

\* DL_DELETE takes one element out.
LEMMA RemoveIsWithout ==
  ASSUME NEW s \in Seq(Hooks), NEW h, h \in ToSet(s)
  PROVE  \E k : Without(HookRemove(s, h), s, k) /\ s[k] = h
<1> DEFINE I == {i \in 1 .. Len(s) : s[i] = h}
           k == Min(I)
<1>1. I \in SUBSET Nat /\ I # {}
  BY DEF ToSet
<1>2. k \in I
  BY <1>1, Least
<1>3. k \in 1 .. Len(s) /\ s[k] = h
  BY <1>2
<1>4. HookRemove(s, h) = SubSeq(s, 1, k - 1) \o SubSeq(s, k + 1, Len(s))
  BY <1>1 DEF HookRemove, RemoveFirst, RemoveAt, SelectInSeq
<1> HIDE DEF k
<1> DEFINE a == SubSeq(s, 1, k - 1)
           b == SubSeq(s, k + 1, Len(s))
<1>5. /\ a \in Seq(Hooks) /\ Len(a) = k - 1 /\ \A i \in 1 .. k - 1 : a[i] = s[i]
      /\ b \in Seq(Hooks) /\ Len(b) = Len(s) - k /\ \A i \in 1 .. Len(s) - k : b[i] = s[k + i]
  <2>1. Len(s) \in Nat /\ \A i \in 1 .. Len(s) : s[i] \in Hooks
    OBVIOUS
  <2> QED  BY <1>3, <2>1, SubSeqProperties
<1> HIDE DEF a, b
<1>6. /\ a \o b \in Seq(Hooks) /\ Len(a \o b) = Len(a) + Len(b)
      /\ \A i \in 1 .. Len(a) + Len(b) : (a \o b)[i] = IF i <= Len(a) THEN a[i] ELSE b[i - Len(a)]
  BY <1>5, ConcatProperties
<1>7. Without(a \o b, s, k)
  <2>1. Len(s) \in Nat
    OBVIOUS
  <2>2. Len(a \o b) = Len(s) - 1
    BY <1>3, <1>5, <1>6, <2>1
  <2>3. ASSUME NEW i \in 1 .. Len(s) - 1
        PROVE  (a \o b)[i] = IF i < k THEN s[i] ELSE s[i + 1]
    <3>1. CASE i < k
      BY <1>3, <1>5, <1>6, <2>1, <3>1
    <3>2. CASE ~ (i < k)
      <4>1. (a \o b)[i] = b[i - (k - 1)]
        BY <1>3, <1>5, <1>6, <2>1, <3>2
      <4>2. i - (k - 1) \in 1 .. Len(s) - k /\ k + (i - (k - 1)) = i + 1
        BY <1>3, <2>1, <3>2
      <4>3. b[i - (k - 1)] = s[k + (i - (k - 1))]
        BY <1>5, <4>2
      <4> QED  BY <3>2, <4>1, <4>2, <4>3
    <3> QED  BY <3>1, <3>2
  <2> QED  BY <1>3, <1>6, <2>2, <2>3 DEF Without
<1>8. HookRemove(s, h) = a \o b
  BY <1>4 DEF a, b
<1>9. Without(HookRemove(s, h), s, k) /\ s[k] = h
  BY <1>3, <1>7, <1>8
<1> QED  BY <1>9

\* sim_hook_add puts a hook behind the timed ones that come before it.
LEMMA AddIsWith ==
  ASSUME NEW s \in Seq(Hooks), NEW h \in Hooks, NEW tm \in [Hooks -> Nat]
  PROVE  \E k : With(HookAdd(s, tm, h), s, k, h) /\ InPlace(s, tm, k, h)
<1> DEFINE I == {i \in 1 .. Len(s) : tm[s[i]] = 0 \/ tm[s[i]] > tm[h]}
           later == IF I # {} THEN Min(I) ELSE 0
<1>1. later = SelectInSeq(s, LAMBDA i : tm[i] = 0 \/ tm[i] > tm[h])
  BY DEF SelectInSeq
<1>2. HookAdd(s, tm, h) = IF tm[h] # 0 /\ later # 0 THEN InsertAt(s, later, h)
                                                   ELSE Append(s, h)
  BY <1>1 DEF HookAdd
<1>3. Len(s) \in Nat /\ \A i \in 1 .. Len(s) : s[i] \in Hooks /\ tm[s[i]] \in Nat
  OBVIOUS
<1>4. I \in SUBSET Nat
  BY <1>3
<1>5. I # {} => /\ later \in 1 .. Len(s) /\ (tm[s[later]] = 0 \/ tm[s[later]] > tm[h])
                /\ \A i \in 1 .. later - 1 : tm[s[i]] # 0 /\ tm[s[i]] <= tm[h]
  <2> SUFFICES ASSUME I # {}
               PROVE  /\ later \in 1 .. Len(s) /\ (tm[s[later]] = 0 \/ tm[s[later]] > tm[h])
                      /\ \A i \in 1 .. later - 1 : tm[s[i]] # 0 /\ tm[s[i]] <= tm[h]
    OBVIOUS
  <2>1. later \in I /\ \A y \in I : later <= y
    BY <1>4, Least
  <2> HIDE DEF later
  <2>2. later \in 1 .. Len(s) /\ (tm[s[later]] = 0 \/ tm[s[later]] > tm[h])
    BY <2>1
  <2>3. ASSUME NEW i \in 1 .. later - 1 PROVE i \notin I /\ i \in 1 .. Len(s)
    BY <1>3, <2>1, <2>2
  <2>4. ASSUME NEW i \in 1 .. later - 1 PROVE tm[s[i]] # 0 /\ tm[s[i]] <= tm[h]
    BY <1>3, <2>3
  <2> QED  BY <2>2, <2>4
<1>6. I = {} => later = 0 /\ \A i \in 1 .. Len(s) : tm[s[i]] # 0 /\ tm[s[i]] <= tm[h]
  BY <1>3
<1> HIDE DEF later, I
<1>7. CASE tm[h] # 0 /\ I # {}
  <2>0. later \in 1 .. Len(s)
    BY <1>5, <1>7
  <2> DEFINE a == SubSeq(s, 1, later - 1)
             b == SubSeq(s, later, Len(s))
  <2>1. /\ a \in Seq(Hooks) /\ Len(a) = later - 1 /\ \A i \in 1 .. later - 1 : a[i] = s[i]
        /\ b \in Seq(Hooks) /\ Len(b) = Len(s) - later + 1
        /\ \A i \in 1 .. Len(s) - later + 1 : b[i] = s[later + i - 1]
    <3>1. /\ \A i \in 1 .. later - 1 : s[i] \in Hooks
          /\ \A i \in later .. Len(s) : s[i] \in Hooks
      BY <1>3, <2>0
    <3>2. a \in Seq(Hooks) /\ Len(a) = later - 1 /\ \A i \in 1 .. later - 1 : a[i] = s[i]
      BY <1>3, <2>0, <3>1, SubSeqProperties
    <3>3. /\ b \in Seq(Hooks) /\ Len(b) = Len(s) - later + 1
          /\ \A i \in 1 .. Len(s) - later + 1 : b[i] = s[later + i - 1]
      BY <1>3, <2>0, <3>1, SubSeqProperties
    <3> QED  BY <3>2, <3>3
  <2> HIDE DEF a, b
  <2>2. <<h>> \in Seq(Hooks) /\ Len(<<h>>) = 1 /\ <<h>>[1] = h
    OBVIOUS
  <2>3. /\ a \o <<h>> \in Seq(Hooks) /\ Len(a \o <<h>>) = later
        /\ \A i \in 1 .. later : (a \o <<h>>)[i] = IF i < later THEN a[i] ELSE h
    <3>1. /\ a \o <<h>> \in Seq(Hooks) /\ Len(a \o <<h>>) = Len(a) + Len(<<h>>)
          /\ \A i \in 1 .. Len(a) + Len(<<h>>) :
               (a \o <<h>>)[i] = IF i <= Len(a) THEN a[i] ELSE <<h>>[i - Len(a)]
      BY <2>1, <2>2, ConcatProperties
    <3>2. Len(a) + Len(<<h>>) = later
      BY <2>0, <2>1, <2>2
    <3>3. ASSUME NEW i \in 1 .. later
          PROVE  (a \o <<h>>)[i] = IF i < later THEN a[i] ELSE h
      <4>1. (a \o <<h>>)[i] = IF i <= later - 1 THEN a[i] ELSE <<h>>[i - (later - 1)]
        BY <2>1, <3>1, <3>2
      <4>2. (i < later <=> i <= later - 1) /\ (i < later \/ i - (later - 1) = 1)
        BY <2>0
      <4> QED  BY <2>2, <4>1, <4>2
    <3> QED  BY <3>1, <3>2, <3>3
  <2> DEFINE c == a \o <<h>>
  <2> HIDE DEF c
  <2>4. /\ c \o b \in Seq(Hooks) /\ Len(c \o b) = Len(c) + Len(b)
        /\ \A i \in 1 .. Len(c) + Len(b) : (c \o b)[i] = IF i <= Len(c) THEN c[i] ELSE b[i - Len(c)]
    BY <2>1, <2>3, ConcatProperties DEF c
  <2>5. Len(c) = later /\ \A i \in 1 .. later : c[i] = IF i < later THEN a[i] ELSE h
    BY <2>3 DEF c
  <2>6. Len(c \o b) = Len(s) + 1
    BY <1>3, <2>0, <2>1, <2>4, <2>5
  <2>7. ASSUME NEW i \in 1 .. Len(s) + 1
        PROVE  (c \o b)[i] = IF i < later THEN s[i] ELSE IF i = later THEN h ELSE s[i - 1]
    <3>0. i \in 1 .. Len(c) + Len(b)
      BY <1>3, <2>0, <2>1, <2>5
    <3>1. CASE i <= later
      <4>1. (c \o b)[i] = c[i] /\ i \in 1 .. later
        BY <2>0, <2>4, <2>5, <3>0, <3>1
      <4>2. c[i] = IF i < later THEN a[i] ELSE h
        BY <2>5, <4>1
      <4>3. i < later => a[i] = s[i]
        BY <2>0, <2>1, <4>1
      <4> QED  BY <2>0, <3>1, <4>1, <4>2, <4>3
    <3>2. CASE ~ (i <= later)
      <4>1. (c \o b)[i] = b[i - later]
        BY <2>0, <2>4, <2>5, <3>0, <3>2
      <4>2. i - later \in 1 .. Len(s) - later + 1 /\ later + (i - later) - 1 = i - 1
        BY <1>3, <2>0, <3>2
      <4>3. b[i - later] = s[later + (i - later) - 1]
        BY <2>1, <4>2
      <4> QED  BY <2>0, <3>2, <4>1, <4>2, <4>3
    <3> QED  BY <3>1, <3>2
  <2>8. HookAdd(s, tm, h) = c \o b
    BY <1>2, <1>7, <2>0 DEF InsertAt, a, b, c
  <2>9. With(HookAdd(s, tm, h), s, later, h)
    BY <1>3, <2>0, <2>4, <2>6, <2>7, <2>8 DEF With
  <2>10. InPlace(s, tm, later, h)
    BY <1>3, <1>5, <1>7, <2>0 DEF InPlace
  <2> QED  BY <2>9, <2>10
<1>8. CASE ~(tm[h] # 0 /\ I # {})
  <2>1. HookAdd(s, tm, h) = Append(s, h)
    BY <1>2, <1>6, <1>8
  <2>2. /\ Append(s, h) \in Seq(Hooks) /\ Len(Append(s, h)) = Len(s) + 1
        /\ \A i \in 1 .. Len(s) : Append(s, h)[i] = s[i]
        /\ Append(s, h)[Len(s) + 1] = h
    BY AppendProperties
  <2>3. With(Append(s, h), s, Len(s) + 1, h)
    BY <1>3, <2>2 DEF With
  <2>4. tm[h] # 0 => \A i \in 1 .. (Len(s) + 1) - 1 : tm[s[i]] # 0 /\ tm[s[i]] <= tm[h]
    BY <1>3, <1>6, <1>8
  <2>5. ~ (Len(s) + 1 <= Len(s))
    BY <1>3
  <2>6. InPlace(s, tm, Len(s) + 1, h)
    BY <2>4, <2>5 DEF InPlace
  <2> QED  BY <2>1, <2>3, <2>6
<1> QED  BY <1>7, <1>8

\* Taking an element out of a list that has it once,
LEMMA WithoutKeeps ==
  ASSUME NEW s \in Seq(Hooks), NEW r, NEW k, NEW h, Without(r, s, k), s[k] = h, Once(s)
  PROVE  /\ Once(r) /\ ToSet(r) = ToSet(s) \ {h}
         /\ \A tm : Sorted(s, tm) => Sorted(r, tm)
<1>1. /\ Len(s) \in Nat /\ Len(r) = Len(s) - 1 /\ k \in 1 .. Len(s)
      /\ DOMAIN s = 1 .. Len(s) /\ DOMAIN r = 1 .. Len(r)
      /\ \A i \in 1 .. Len(r) : r[i] = IF i < k THEN s[i] ELSE s[i + 1]
  BY DEF Without
<1> DEFINE f(i) == IF i < k THEN i ELSE i + 1
<1>2. /\ \A i \in DOMAIN r : f(i) \in DOMAIN s /\ f(i) # k /\ r[i] = s[f(i)]
      /\ \A i, j \in DOMAIN r : (i < j <=> f(i) < f(j)) /\ (f(i) = f(j) => i = j)
      /\ \A j \in DOMAIN s : j # k => \E i \in DOMAIN r : j = f(i)
  <2>1. \A j \in DOMAIN s : j # k => \E i \in DOMAIN r : j = f(i)
    <3> SUFFICES ASSUME NEW j \in DOMAIN s, j # k PROVE \E i \in DOMAIN r : j = f(i)
      OBVIOUS
    <3>1. CASE j < k
      <4>1. j \in DOMAIN r /\ f(j) = j
        BY <1>1, <3>1
      <4> QED  BY <4>1
    <3>2. CASE j > k
      <4>1. j - 1 \in DOMAIN r /\ f(j - 1) = j
        BY <1>1, <3>2
      <4> QED  BY <4>1
    <3> QED  BY <1>1, <3>1, <3>2
  <2> QED  BY <1>1, <2>1
<1> HIDE DEF f
<1>3. Once(r)
  BY <1>2 DEF Once
<1>4. ToSet(r) = ToSet(s) \ {h}
  BY <1>1, <1>2 DEF ToSet, Once
<1>5. \A tm : Sorted(s, tm) => Sorted(r, tm)
  BY <1>2 DEF Sorted
<1> QED  BY <1>3, <1>4, <1>5

\* Putting an element into a list that does not have it,
LEMMA WithKeeps ==
  ASSUME NEW s \in Seq(Hooks), NEW r, NEW k, NEW h, With(r, s, k, h), Once(s), h \notin ToSet(s)
  PROVE  Once(r) /\ ToSet(r) = ToSet(s) \cup {h}
<1>1. /\ Len(s) \in Nat /\ Len(r) = Len(s) + 1 /\ k \in 1 .. Len(s) + 1
      /\ DOMAIN s = 1 .. Len(s) /\ DOMAIN r = 1 .. Len(r)
      /\ \A i \in 1 .. Len(r) :
           r[i] = IF i < k THEN s[i] ELSE IF i = k THEN h ELSE s[i - 1]
  BY DEF With
<1> DEFINE g(i) == IF i < k THEN i ELSE i - 1
<1>2. /\ \A i \in DOMAIN r : i # k => g(i) \in DOMAIN s /\ r[i] = s[g(i)]
      /\ \A i, j \in DOMAIN r : (i # k /\ j # k /\ g(i) = g(j)) => i = j
      /\ k \in DOMAIN r /\ r[k] = h
      /\ \A j \in DOMAIN s : \E i \in DOMAIN r : i # k /\ j = g(i)
  <2>1. \A j \in DOMAIN s : \E i \in DOMAIN r : i # k /\ j = g(i)
    <3> SUFFICES ASSUME NEW j \in DOMAIN s PROVE \E i \in DOMAIN r : i # k /\ j = g(i)
      OBVIOUS
    <3>1. CASE j < k
      <4>1. j \in DOMAIN r /\ j # k /\ g(j) = j
        BY <1>1, <3>1
      <4> QED  BY <4>1
    <3>2. CASE ~ (j < k)
      <4>1. j + 1 \in DOMAIN r /\ j + 1 # k /\ g(j + 1) = j
        BY <1>1, <3>2
      <4> QED  BY <4>1
    <3> QED  BY <3>1, <3>2
  <2> QED  BY <1>1, <2>1
<1> HIDE DEF g
<1>3. \A j \in DOMAIN s : s[j] # h
  BY <1>1 DEF ToSet
<1>4. Once(r)
  <2> SUFFICES ASSUME NEW i \in DOMAIN r, NEW j \in DOMAIN r, r[i] = r[j] PROVE i = j
    BY DEF Once
  <2>1. CASE i # k /\ j # k
    BY <1>2, <2>1 DEF Once
  <2>2. CASE i = k \/ j = k
    BY <1>2, <1>3, <2>2
  <2> QED  BY <2>1, <2>2
<1>5. ToSet(r) = ToSet(s) \cup {h}
  <2>1. ASSUME NEW x \in ToSet(r) PROVE x \in ToSet(s) \cup {h}
    BY <1>2, <2>1 DEF ToSet
  <2>2. ASSUME NEW x \in ToSet(s) PROVE x \in ToSet(r)
    <3>1. PICK j \in DOMAIN s : x = s[j]
      BY <1>1 DEF ToSet
    <3>2. PICK i \in DOMAIN r : i # k /\ j = g(i)
      BY <1>2
    <3>3. r[i] = x
      BY <1>2, <3>1, <3>2
    <3> QED  BY <3>3 DEF ToSet
  <2>3. h \in ToSet(r)
    BY <1>2 DEF ToSet
  <2> QED  BY <2>1, <2>2, <2>3
<1> QED  BY <1>4, <1>5

\* and where it belongs, into a sorted one.
LEMMA WithKeepsOrder ==
  ASSUME NEW s \in Seq(Hooks), NEW r, NEW k, NEW h \in Hooks, With(r, s, k, h),
         NEW tm \in [Hooks -> Nat], InPlace(s, tm, k, h), Sorted(s, tm)
  PROVE  Sorted(r, tm)
<1>1. /\ Len(s) \in Nat /\ Len(r) = Len(s) + 1 /\ k \in 1 .. Len(s) + 1
      /\ DOMAIN s = 1 .. Len(s) /\ DOMAIN r = 1 .. Len(r)
      /\ \A i \in 1 .. Len(r) :
           r[i] = IF i < k THEN s[i] ELSE IF i = k THEN h ELSE s[i - 1]
  BY DEF With
<1>2. \A i \in DOMAIN s : tm[s[i]] \in Nat
  OBVIOUS
<1>3. tm[h] \in Nat
  OBVIOUS
<1> SUFFICES ASSUME NEW i \in DOMAIN r, NEW j \in DOMAIN r, i < j, tm[r[j]] # 0
             PROVE  tm[r[i]] # 0 /\ tm[r[i]] <= tm[r[j]]
  BY DEF Sorted
<1>4. CASE i # k /\ j # k
  <2> DEFINE g(n) == IF n < k THEN n ELSE n - 1
  <2>1. ASSUME NEW n \in DOMAIN r, n # k PROVE g(n) \in DOMAIN s /\ r[n] = s[g(n)]
    BY <1>1, <2>1
  <2>2. g(i) < g(j)
    BY <1>1, <1>4
  <2> HIDE DEF g
  <2> QED  BY <1>4, <2>1, <2>2 DEF Sorted
<1>5. CASE j = k
  <2>1. r[j] = h /\ r[i] = s[i] /\ i \in 1 .. k - 1
    BY <1>1, <1>5
  <2> QED  BY <2>1 DEF InPlace
<1>6. CASE i = k
  <2>1. r[i] = h /\ r[j] = s[j - 1] /\ j - 1 \in DOMAIN s /\ k <= j - 1 /\ k \in DOMAIN s
    BY <1>1, <1>6
  <2>2. tm[h] # 0 /\ (tm[s[k]] = 0 \/ tm[s[k]] > tm[h])
    BY <1>1, <2>1 DEF InPlace
  <2>3. CASE k = j - 1
    BY <1>2, <1>3, <2>1, <2>2, <2>3
  <2>4. CASE k < j - 1
    <3>1. tm[s[k]] # 0 /\ tm[s[k]] <= tm[s[j - 1]]
      BY <2>1, <2>4 DEF Sorted
    <3> QED  BY <1>2, <1>3, <2>1, <2>2, <3>1
  <2> QED  BY <1>1, <2>1, <2>3, <2>4
<1> QED  BY <1>4, <1>5, <1>6

-------------------------------------------------------------------------------
(* What the operations on a list do to it.                                   *)

\* sim_hook_remove.
LEMMA Removed ==
  ASSUME NEW s \in Seq(Hooks), NEW h, Once(s)
  PROVE  /\ HookRemove(s, h) \in Seq(Hooks) /\ Once(HookRemove(s, h))
         /\ ToSet(HookRemove(s, h)) = ToSet(s) \ {h}
         /\ \A tm : Sorted(s, tm) => Sorted(HookRemove(s, h), tm)
<1>1. CASE h \in ToSet(s)
  <2>1. PICK k : Without(HookRemove(s, h), s, k) /\ s[k] = h
    BY <1>1, RemoveIsWithout
  <2>2. HookRemove(s, h) \in Seq(Hooks)
    BY <2>1 DEF Without
  <2> QED  BY <2>1, <2>2, WithoutKeeps
<1>2. CASE h \notin ToSet(s)
  <2>1. ~ \E i \in 1 .. Len(s) : s[i] = h
    BY <1>2 DEF ToSet
  <2>2. HookRemove(s, h) = s
    BY <2>1 DEF HookRemove, RemoveFirst
  <2> QED  BY <1>2, <2>2
<1> QED  BY <1>1, <1>2

\* sim_hook_add.
LEMMA Added ==
  ASSUME NEW s \in Seq(Hooks), NEW h \in Hooks, NEW tm \in [Hooks -> Nat],
         Once(s), h \notin ToSet(s)
  PROVE  /\ HookAdd(s, tm, h) \in Seq(Hooks) /\ Once(HookAdd(s, tm, h))
         /\ ToSet(HookAdd(s, tm, h)) = ToSet(s) \cup {h}
         /\ Sorted(s, tm) => Sorted(HookAdd(s, tm, h), tm)
<1>1. PICK k : With(HookAdd(s, tm, h), s, k, h) /\ InPlace(s, tm, k, h)
  BY AddIsWith
<1>2. HookAdd(s, tm, h) \in Seq(Hooks)
  BY <1>1 DEF With
<1> QED  BY <1>1, <1>2, WithKeeps, WithKeepsOrder

\* A hook that a callback schedules goes to the end of the list.
LEMMA Appended ==
  ASSUME NEW s \in Seq(Hooks), NEW h \in Hooks, Once(s), h \notin ToSet(s)
  PROVE  /\ Append(s, h) \in Seq(Hooks) /\ Once(Append(s, h))
         /\ ToSet(Append(s, h)) = ToSet(s) \cup {h}
<1>1. /\ Append(s, h) \in Seq(Hooks) /\ Len(Append(s, h)) = Len(s) + 1
      /\ \A i \in 1 .. Len(s) : Append(s, h)[i] = s[i]
      /\ Append(s, h)[Len(s) + 1] = h
  BY AppendProperties
<1>2. With(Append(s, h), s, Len(s) + 1, h)
  <2>1. Len(s) \in Nat
    OBVIOUS
  <2> QED  BY <1>1, <2>1 DEF With
<1> QED  BY <1>1, <1>2, WithKeeps

\* The walk and the merge take the first hook of a list.
LEMMA Tailed ==
  ASSUME NEW s \in Seq(Hooks), s # <<>>, Once(s)
  PROVE  /\ Head(s) \in Hooks /\ Head(s) \in ToSet(s)
         /\ Tail(s) \in Seq(Hooks) /\ Once(Tail(s))
         /\ ToSet(Tail(s)) = ToSet(s) \ {Head(s)}
<1>1. /\ Tail(s) \in Seq(Hooks) /\ Len(Tail(s)) = Len(s) - 1
      /\ \A i \in 1 .. Len(Tail(s)) : Tail(s)[i] = s[i + 1]
      /\ Len(s) \in Nat /\ Len(s) >= 1 /\ Head(s) = s[1]
  BY HeadTailProperties
<1>2. Without(Tail(s), s, 1)
  BY <1>1 DEF Without
<1>3. s[1] \in Hooks /\ s[1] \in ToSet(s)
  BY <1>1 DEF ToSet
<1> QED  BY <1>1, <1>2, <1>3, WithoutKeeps

\* The order of a list depends on the times of the hooks that are in it.
LEMMA SameTimes ==
  ASSUME NEW s, NEW tm, NEW tn, Sorted(s, tm), \A h \in ToSet(s) : tn[h] = tm[h]
  PROVE  Sorted(s, tn)
<1>1. \A i \in DOMAIN s : tn[s[i]] = tm[s[i]]
  BY DEF ToSet
<1> QED  BY <1>1 DEF Sorted

\* What callbacks have scheduled, and what they add to it.
LEMMA Joined ==
  ASSUME NEW s \in Seq(Hooks), NEW r \in Seq(Hooks), Once(s), Once(r),
         ToSet(s) \cap ToSet(r) = {}
  PROVE  /\ s \o r \in Seq(Hooks) /\ Once(s \o r)
         /\ ToSet(s \o r) = ToSet(s) \cup ToSet(r)
<1> DEFINE c == s \o r
<1>1. /\ c \in Seq(Hooks) /\ Len(c) = Len(s) + Len(r)
      /\ \A i \in 1 .. Len(s) + Len(r) : c[i] = IF i <= Len(s) THEN s[i] ELSE r[i - Len(s)]
  BY ConcatProperties
<1> HIDE DEF c
<1>2. /\ Len(s) \in Nat /\ Len(r) \in Nat /\ DOMAIN c = 1 .. Len(s) + Len(r)
      /\ DOMAIN s = 1 .. Len(s) /\ DOMAIN r = 1 .. Len(r)
  BY <1>1
<1>3. \A i \in DOMAIN c : i <= Len(s) => i \in DOMAIN s /\ c[i] = s[i] /\ c[i] \in ToSet(s)
  BY <1>1, <1>2 DEF ToSet
<1>4. \A i \in DOMAIN c : ~ (i <= Len(s)) => i - Len(s) \in DOMAIN r /\ c[i] = r[i - Len(s)]
  BY <1>1, <1>2
<1>5. \A i \in DOMAIN c : ~ (i <= Len(s)) => c[i] \in ToSet(r)
  BY <1>4 DEF ToSet
<1>6. Once(c)
  <2> SUFFICES ASSUME NEW i \in DOMAIN c, NEW j \in DOMAIN c, c[i] = c[j] PROVE i = j
    BY DEF Once
  <2>1. CASE i <= Len(s) /\ j <= Len(s)
    BY <1>3, <2>1 DEF Once
  <2>2. CASE ~ (i <= Len(s)) /\ ~ (j <= Len(s))
    <3>1. i - Len(s) = j - Len(s)
      BY <1>4, <2>2 DEF Once
    <3> QED  BY <1>2, <3>1
  <2>3. CASE (i <= Len(s) /\ ~ (j <= Len(s))) \/ (~ (i <= Len(s)) /\ j <= Len(s))
    BY <1>3, <1>5, <2>3
  <2> QED  BY <2>1, <2>2, <2>3
<1>7. ToSet(c) = ToSet(s) \cup ToSet(r)
  <2>1. ToSet(c) \subseteq ToSet(s) \cup ToSet(r)
    BY <1>3, <1>5 DEF ToSet
  <2>2. ASSUME NEW x \in ToSet(s) PROVE x \in ToSet(c)
    <3>1. PICK i \in DOMAIN s : x = s[i]
      BY DEF ToSet
    <3>2. i \in DOMAIN c /\ c[i] = x
      BY <1>1, <1>2, <3>1
    <3> QED  BY <3>2 DEF ToSet
  <2>3. ASSUME NEW x \in ToSet(r) PROVE x \in ToSet(c)
    <3>1. PICK i \in DOMAIN r : x = r[i]
      BY DEF ToSet
    <3>2. Len(s) + i \in DOMAIN c /\ ~ (Len(s) + i <= Len(s)) /\ (Len(s) + i) - Len(s) = i
      BY <1>2
    <3>3. c[Len(s) + i] = x
      BY <1>4, <3>1, <3>2
    <3> QED  BY <3>2, <3>3 DEF ToSet
  <2> QED  BY <2>1, <2>2, <2>3
<1> QED  BY <1>1, <1>6, <1>7 DEF c

\* A list without repetition is as long as its set of elements is large.
LEMMA OnceLen ==
  ASSUME NEW s \in Seq(Hooks), Once(s)
  PROVE  Len(s) = Cardinality(ToSet(s))
<1>1. Len(s) \in Nat /\ s \in [1 .. Len(s) -> ToSet(s)]
  BY DEF ToSet
<1>2. s \in Bijection(1 .. Len(s), ToSet(s))
  BY <1>1 DEF Bijection, Injection, Surjection, IsInjective, Once, ToSet
<1>3. ExistsBijection(1 .. Len(s), ToSet(s))
  BY <1>2 DEF ExistsBijection
<1>4. IsFiniteSet(1 .. Len(s)) /\ Cardinality(1 .. Len(s)) = Len(s)
  BY <1>1, FS_Interval
<1> QED  BY <1>3, <1>4, FS_Bijection

\* The empty list.
LEMMA Nothing ==
  /\ <<>> \in Seq(Hooks) /\ Once(<<>>) /\ ToSet(<<>>) = {}
  /\ \A tm : Sorted(<<>>, tm)
<1>1. <<>> \in Seq(Hooks) /\ DOMAIN <<>> = {}
  OBVIOUS
<1> QED  BY <1>1 DEF Once, ToSet, Sorted

-------------------------------------------------------------------------------
(* The steps.                                                                *)

\* A callback moves its hook to the other list, takes it out or leaves it where it
\* is, and changes no time of another hook that is scheduled.
LEMMA CallbackKeeps ==
  ASSUME IInv, calling, todo # <<>>, NEW removed \in BOOLEAN, NEW tm \in [Hooks -> Nat],
         NEW adds \in Seq(Hooks), Once(adds), ToSet(adds) \cap registered = {},
         \A x \in registered \ {Head(todo)} : tm[x] = time[x],
         \A x \in ToSet(adds) : tm[x] = 0 \/ tm[x] > picos,
         AfterCallback(Head(todo), removed, tm, adds),
         registered' = (registered \cup ToSet(adds)) \ (IF removed THEN {Head(todo)} ELSE {}),
         evented' \subseteq Hooks, cancelled' \subseteq Hooks, rounds' = rounds, edged' = edged
  PROVE  IInv'
<1> DEFINE h     == Head(todo)
           t     == IF removed \/ tm[h] <= picos THEN 0 ELSE tm[h]
           moved == ~ removed /\ t # time[h]
<1>1. Types /\ Lists /\ Order /\ Times
  BY DEF IInv
<1>2. /\ h \in Hooks /\ h \in ToSet(todo) /\ h \in ToSet(old) /\ h \in registered
      /\ Tail(todo) \in Seq(Hooks) /\ Once(Tail(todo)) /\ ToSet(Tail(todo)) = ToSet(todo) \ {h}
  BY <1>1, Tailed DEF Types, Lists
<1>3. /\ time' = [tm EXCEPT ![h] = t]
      /\ old' = IF removed \/ moved THEN HookRemove(old, h) ELSE old
      /\ hooks' = IF moved THEN Append(hooks \o adds, h) ELSE hooks \o adds
      /\ todo' = Tail(todo) /\ picos' = picos /\ calling' = calling
  BY DEF AfterCallback
<1>4. /\ hooks \o adds \in Seq(Hooks) /\ Once(hooks \o adds)
      /\ ToSet(hooks \o adds) = ToSet(hooks) \cup ToSet(adds)
  <2>1. ToSet(hooks) \cap ToSet(adds) = {}
    BY <1>1 DEF Lists
  <2> QED  BY <1>1, <2>1, Joined DEF Types, Lists
<1>5. h \notin ToSet(hooks \o adds)
  BY <1>1, <1>2, <1>4 DEF Lists
<1>6. /\ Append(hooks \o adds, h) \in Seq(Hooks) /\ Once(Append(hooks \o adds, h))
      /\ ToSet(Append(hooks \o adds, h)) = ToSet(hooks) \cup ToSet(adds) \cup {h}
  BY <1>2, <1>4, <1>5, Appended
<1>7. /\ HookRemove(old, h) \in Seq(Hooks) /\ Once(HookRemove(old, h))
      /\ ToSet(HookRemove(old, h)) = ToSet(old) \ {h}
      /\ Sorted(HookRemove(old, h), time)
  BY <1>1, Removed DEF Types, Lists, Order
<1>8. t \in Nat /\ picos \in Nat /\ tm[h] \in Nat
  BY <1>1, <1>2 DEF Types
<1>9. t = 0 \/ t > picos
  BY <1>8
<1> HIDE DEF h, t, moved
<1>10. /\ time' \in [Hooks -> Nat] /\ time'[h] = t
       /\ \A x \in Hooks : x # h => time'[x] = tm[x]
  BY <1>2, <1>3, <1>8
<1>11. hooks' \in Seq(Hooks) /\ Once(hooks') /\ old' \in Seq(Hooks) /\ Once(old')
  BY <1>1, <1>3, <1>4, <1>6, <1>7 DEF Types, Lists
<1>12. ToSet(todo') = ToSet(todo) \ {h}
  BY <1>2, <1>3
<1>13. /\ registered \subseteq Hooks /\ ToSet(adds) \subseteq Hooks
       /\ ToSet(old) \subseteq registered /\ ToSet(hooks) \subseteq registered
       /\ ToSet(adds) \cap registered = {}
  BY <1>1 DEF Types, Lists, ToSet
<1>14. registered' = (registered \cup ToSet(adds)) \ (IF removed THEN {h} ELSE {})
  BY DEF h
<1>15. Types'
  <2>1. registered' \subseteq Hooks
    BY <1>13, <1>14
  <2>2. /\ todo' \in Seq(Hooks) /\ picos' \in Nat
        /\ calling' \in BOOLEAN /\ rounds' \in BOOLEAN /\ edged' \in BOOLEAN
    BY <1>1, <1>2, <1>3 DEF Types
  <2> QED  BY <1>10, <1>11, <2>1, <2>2 DEF Types
<1>16. Lists'
  <2>1. ToSet(old') = ToSet(old) \ (IF removed \/ moved THEN {h} ELSE {})
    BY <1>3, <1>7
  <2>2. ToSet(hooks') = ToSet(hooks) \cup ToSet(adds) \cup (IF moved THEN {h} ELSE {})
    BY <1>3, <1>4, <1>6
  <2>3. ~ (removed /\ moved)
    BY DEF moved
  <2>4. ToSet(hooks) \cap ToSet(old) = {} /\ ToSet(hooks) \cup ToSet(old) = registered
    BY <1>1 DEF Lists
  <2>5. ToSet(hooks') \cap ToSet(old') = {}
    BY <1>13, <2>1, <2>2, <2>4
  <2>6. ToSet(hooks') \cup ToSet(old') = registered'
    BY <1>2, <1>13, <1>14, <2>1, <2>2, <2>3, <2>4
  <2>7. ToSet(todo') \subseteq ToSet(old')
    BY <1>1, <1>12, <2>1 DEF Lists
  <2>8. Once(todo') /\ calling' /\ ~ rounds'
    BY <1>1, <1>2, <1>3 DEF Lists
  <2> QED  BY <1>11, <2>5, <2>6, <2>7, <2>8 DEF Lists
<1>17. Order'
  <2>1. Sorted(old', time)
    BY <1>1, <1>3, <1>7 DEF Order
  <2>2. ASSUME NEW x \in ToSet(old') PROVE time'[x] = time[x]
    <3>1. x \in registered /\ x \in Hooks
      BY <1>3, <1>7, <1>13
    <3>2. CASE x = h
      <4>1. ~ removed /\ ~ moved
        BY <1>3, <1>7, <3>2
      <4> QED  BY <1>10, <3>2, <4>1 DEF moved
    <3>3. CASE x # h
      BY <1>10, <3>1, <3>3 DEF h
    <3> QED  BY <3>2, <3>3
  <2>3. Sorted(old', time')
    BY <2>1, <2>2, SameTimes
  <2> QED  BY <1>3, <2>3 DEF Order
<1>18. Times'
  <2> SUFFICES ASSUME NEW x \in registered', time'[x] # 0
               PROVE  (edged \/ time'[x] >= picos) /\ (time'[x] <= picos => x \in ToSet(todo'))
    BY <1>3 DEF Times
  <2>1. x \in Hooks /\ (x \in registered \/ x \in ToSet(adds))
    BY <1>13, <1>14
  <2>2. CASE x = h
    BY <1>8, <1>9, <1>10, <2>2
  <2>3. CASE x # h /\ x \in ToSet(adds)
    <3>1. time'[x] = tm[x] /\ tm[x] \in Nat /\ (tm[x] = 0 \/ tm[x] > picos)
      BY <1>10, <2>1, <2>3
    <3> QED  BY <1>8, <3>1
  <2>4. CASE x # h /\ x \in registered
    <3>1. time'[x] = time[x]
      BY <1>10, <2>1, <2>4 DEF h
    <3>2. (edged \/ time[x] >= picos) /\ (time[x] <= picos => rounds \/ x \in ToSet(todo))
      BY <1>1, <2>4, <3>1 DEF Times
    <3>3. ~ rounds
      BY <1>1 DEF Lists
    <3> QED  BY <1>12, <2>4, <3>1, <3>2, <3>3
  <2> QED  BY <2>1, <2>2, <2>3, <2>4
<1> QED  BY <1>15, <1>16, <1>17, <1>18 DEF IInv

\* The wait ends at the time of the first timed hook at the latest: next_hook_delay
\* finds it at the head of the list, for the list is sorted and no time has passed.
LEMMA WaitIsShort ==
  ASSUME IInv, ~ calling, ~ rounds, NEW asked \in 1 .. MaxDelay, NEW d \in 0 .. MaxDelay,
         d <= WaitFor(asked), NEW h \in registered, time[h] # 0
  PROVE  time[h] >= picos + d
<1>1. Types /\ Lists /\ Order /\ Times
  BY DEF IInv
<1>2. h \in ToSet(hooks) /\ ToSet(todo) = {}
  BY <1>1, Nothing DEF Lists
<1>3. PICK j \in DOMAIN hooks : hooks[j] = h
  BY <1>2 DEF ToSet
<1>4. /\ Len(hooks) \in Nat /\ DOMAIN hooks = 1 .. Len(hooks)
      /\ hooks # <<>> /\ Head(hooks) = hooks[1] /\ 1 \in DOMAIN hooks
      /\ Head(hooks) \in Hooks /\ Head(hooks) \in ToSet(hooks)
  BY <1>1, <1>3, Tailed DEF Types, Lists
<1>5. /\ picos \in Nat /\ time[h] \in Nat /\ time[Head(hooks)] \in Nat
      /\ asked \in Nat /\ d \in Nat
  BY <1>1, <1>4, HooksAssumption DEF Types
<1>6. time[Head(hooks)] # 0 /\ time[Head(hooks)] <= time[h]
  <2>1. CASE j = 1
    BY <1>3, <1>4, <1>5, <2>1
  <2>2. CASE 1 < j
    BY <1>1, <1>3, <1>4, <2>2 DEF Order, Sorted
  <2> QED  BY <1>3, <1>4, <2>1, <2>2
<1>7. time[Head(hooks)] > picos
  <2>1. Head(hooks) \in registered
    BY <1>1, <1>4 DEF Lists
  <2>2. ~ (time[Head(hooks)] <= picos)
    BY <1>1, <1>2, <1>6, <2>1 DEF Times
  <2> QED  BY <1>5, <2>2
<1>8. NextHookDelay = time[Head(hooks)] - picos
  BY <1>4, <1>7 DEF NextHookDelay
<1>9. NextHookDelay # 0 /\ NextHookDelay \in Nat
  BY <1>5, <1>7, <1>8
<1>10. d <= NextHookDelay
  <2>1. CASE NextHookDelay > asked
    <3>1. WaitFor(asked) = asked
      BY <2>1 DEF WaitFor
    <3> QED  BY <1>5, <1>9, <2>1, <3>1
  <2>2. CASE ~ (NextHookDelay > asked)
    BY <1>9, <2>2 DEF WaitFor
  <2> QED  BY <2>1, <2>2
<1> QED  BY <1>5, <1>6, <1>8, <1>10

\* The program starts without hooks.
LEMMA InitHolds == Init => IInv
<1> SUFFICES ASSUME Init PROVE IInv
  OBVIOUS
<1>1. /\ picos = 0 /\ time = [h \in Hooks |-> 0] /\ hooks = <<>> /\ old = <<>> /\ todo = <<>>
      /\ calling = FALSE /\ evented = {} /\ cancelled = {} /\ registered = {}
      /\ rounds = FALSE /\ edged = FALSE
  BY DEF Init, KernelInit
<1> QED  BY <1>1, Nothing DEF IInv, Types, Lists, Order, Times

\* No step of the simulator or of a client breaks the invariant.
LEMMA StepHolds == IInv /\ [Next]_vars => IInv'
<1> SUFFICES ASSUME IInv, [Next]_vars PROVE IInv'
  OBVIOUS
<1>1. Types /\ Lists /\ Order /\ Times
  BY DEF IInv
<1>2. CASE Add
  <2>1. PICK h \in Hooks \ registered, t \in NewTimes :
          /\ ~ calling /\ ~ rounds
          /\ time' = [time EXCEPT ![h] = t]
          /\ hooks' = HookAdd(hooks, time', h)
          /\ registered' = registered \cup {h}
          /\ UNCHANGED <<picos, old, todo, calling, evented, cancelled, rounds, edged>>
    BY <1>2 DEF Add
  <2>2. picos \in Nat /\ t \in Nat /\ (t = 0 \/ t > picos)
    BY <1>1, HooksAssumption DEF Types, NewTimes
  <2>3. time' \in [Hooks -> Nat] /\ time'[h] = t /\ \A x \in Hooks : x # h => time'[x] = time[x]
    BY <1>1, <2>1, <2>2 DEF Types
  <2>4. h \notin ToSet(hooks) /\ ToSet(hooks) \subseteq Hooks
    BY <1>1, <2>1 DEF Lists, Types
  <2>5. Sorted(hooks, time')
    <3>1. Sorted(hooks, time) /\ \A x \in ToSet(hooks) : time'[x] = time[x]
      BY <1>1, <2>1, <2>3, <2>4 DEF Order
    <3> QED  BY <3>1, SameTimes
  <2>6. /\ hooks' \in Seq(Hooks) /\ Once(hooks') /\ ToSet(hooks') = ToSet(hooks) \cup {h}
        /\ Sorted(hooks', time')
    <3>0. PICK tm : tm = time'
      OBVIOUS
    <3>1. tm \in [Hooks -> Nat] /\ hooks' = HookAdd(hooks, tm, h) /\ Sorted(hooks, tm)
      BY <2>1, <2>3, <2>5, <3>0
    <3>2. hooks \in Seq(Hooks) /\ Once(hooks) /\ h \in Hooks
      BY <1>1 DEF Types, Lists
    <3>3. /\ HookAdd(hooks, tm, h) \in Seq(Hooks) /\ Once(HookAdd(hooks, tm, h))
          /\ ToSet(HookAdd(hooks, tm, h)) = ToSet(hooks) \cup {h}
          /\ Sorted(HookAdd(hooks, tm, h), tm)
      BY <2>4, <3>1, <3>2, Added
    <3> QED  BY <3>0, <3>1, <3>3
  <2>7. Types'
    BY <1>1, <2>1, <2>3, <2>6 DEF Types
  <2>8. Lists'
    BY <1>1, <2>1, <2>6, Nothing DEF Lists
  <2>9. Order'
    BY <2>1, <1>1, <2>6, Nothing DEF Order, Lists
  <2>10. Times'
    <3> SUFFICES ASSUME NEW x \in registered', time'[x] # 0 PROVE time'[x] >= picos /\ ~ (time'[x] <= picos)
      BY <1>1, <2>1 DEF Times
    <3>1. CASE x = h
      BY <2>2, <2>3, <3>1
    <3>2. CASE x # h
      <4>1. x \in registered /\ time'[x] = time[x] /\ time[x] \in Nat
        BY <1>1, <2>1, <2>3, <3>2 DEF Types
      <4> QED  BY <1>1, <2>1, <4>1, Nothing DEF Times, Lists
    <3> QED  BY <3>1, <3>2
  <2> QED  BY <2>7, <2>8, <2>9, <2>10 DEF IInv
<1>3. CASE DropHook
  <2>1. PICK h \in registered :
          /\ ~ calling /\ ~ rounds
          /\ hooks' = HookRemove(hooks, h)
          /\ time' = [time EXCEPT ![h] = 0]
          /\ registered' = registered \ {h}
          /\ UNCHANGED <<picos, old, todo, calling, evented, cancelled, rounds, edged>>
    BY <1>3 DEF DropHook
  <2>2. time' \in [Hooks -> Nat] /\ \A x \in Hooks : x # h => time'[x] = time[x]
    BY <1>1, <2>1 DEF Types
  <2>3. /\ hooks' \in Seq(Hooks) /\ Once(hooks') /\ ToSet(hooks') = ToSet(hooks) \ {h}
        /\ Sorted(hooks', time)
    BY <1>1, <2>1, Removed DEF Types, Lists, Order
  <2>4. registered \subseteq Hooks /\ ToSet(hooks) \subseteq registered /\ old = <<>>
    BY <1>1, <2>1 DEF Types, Lists
  <2>5. Sorted(hooks', time')
    <3>1. \A x \in ToSet(hooks') : time'[x] = time[x]
      BY <2>2, <2>3, <2>4
    <3> QED  BY <2>3, <3>1, SameTimes
  <2>6. Types'
    BY <1>1, <2>1, <2>2, <2>3 DEF Types
  <2>7. Lists'
    BY <1>1, <2>1, <2>3, Nothing DEF Lists
  <2>8. Order'
    BY <2>1, <2>4, <2>5, Nothing DEF Order
  <2>9. Times'
    BY <1>1, <2>1, <2>2, <2>4 DEF Times
  <2> QED  BY <2>6, <2>7, <2>8, <2>9 DEF IInv
<1>4. CASE Wait
  <2>1. PICK asked \in 1 .. MaxDelay, d \in 0 .. MaxDelay, evs \in SUBSET Hooks :
          /\ ~ calling /\ ~ rounds /\ d <= WaitFor(asked)
          /\ picos' = picos + d /\ evented' = evs /\ rounds' = TRUE
          /\ UNCHANGED <<time, hooks, old, todo, calling, cancelled, registered, edged>>
    BY <1>4 DEF Wait
  <2>2. picos' \in Nat
    BY <1>1, <2>1, HooksAssumption DEF Types
  <2>3. \A h \in registered : time[h] # 0 => time[h] >= picos + d
    BY <2>1, WaitIsShort
  <2>4. Types'
    BY <1>1, <2>1, <2>2 DEF Types
  <2>5. Lists' /\ Order'
    BY <1>1, <2>1 DEF Lists, Order
  <2>6. Times'
    BY <2>1, <2>3 DEF Times
  <2> QED  BY <2>4, <2>5, <2>6 DEF IInv
<1>4a. CASE WaitClkEdge
  <2>1. PICK d \in 0 .. MaxDelay, evs \in SUBSET Hooks :
          /\ ~ calling /\ ~ rounds
          /\ picos' = picos + d /\ evented' = evs /\ rounds' = TRUE /\ edged' = TRUE
          /\ UNCHANGED <<time, hooks, old, todo, calling, cancelled, registered>>
    BY <1>4a DEF WaitClkEdge
  <2>2. picos' \in Nat
    BY <1>1, <2>1, HooksAssumption DEF Types
  <2>3. Types'
    BY <1>1, <2>1, <2>2 DEF Types
  <2>4. Lists' /\ Order'
    BY <1>1, <2>1 DEF Lists, Order
  <2>5. Times'
    BY <2>1 DEF Times
  <2> QED  BY <2>3, <2>4, <2>5 DEF IInv
<1>5. CASE Fire
  <2>1. /\ rounds /\ ~ calling /\ calling' = TRUE /\ old' = hooks /\ todo' = hooks
        /\ hooks' = <<>> /\ rounds' = FALSE
        /\ UNCHANGED <<picos, time, evented, cancelled, registered, edged>>
    BY <1>5 DEF Fire, StartRound
  <2>2. old = <<>> /\ ToSet(hooks) = registered
    BY <1>1, <2>1, Nothing DEF Lists
  <2>3. Types'
    BY <1>1, <2>1, Nothing DEF Types
  <2>4. Lists'
    BY <1>1, <2>1, <2>2, Nothing DEF Lists
  <2>5. Order'
    BY <1>1, <2>1 DEF Order
  <2>6. Times'
    BY <1>1, <2>1, <2>2 DEF Times
  <2> QED  BY <2>3, <2>4, <2>5, <2>6 DEF IInv
<1> DEFINE h == Head(todo)
<1>6. todo # <<>> => /\ h \in Hooks /\ h \in ToSet(todo) /\ h \in registered
                     /\ Tail(todo) \in Seq(Hooks) /\ Once(Tail(todo))
                     /\ ToSet(Tail(todo)) = ToSet(todo) \ {h}
  BY <1>1, Tailed DEF Types, Lists
<1>7. CASE CallAndStay
  <2>1. PICK t \in {time[h]} \cup NewTimes :
          AfterCallback(h, FALSE, [time EXCEPT ![h] = t], <<>>)
    BY <1>7 DEF CallAndStay
  <2>2. calling /\ todo # <<>> /\ UNCHANGED <<evented, cancelled, registered, rounds, edged>>
    BY <1>7 DEF CallAndStay
  <2>3. t \in Nat
    BY <1>1, <1>6, <2>2, HooksAssumption DEF Types, NewTimes
  <2> DEFINE tm == [time EXCEPT ![h] = t]
  <2>4. tm \in [Hooks -> Nat] /\ \A x \in registered \ {h} : tm[x] = time[x]
    BY <1>1, <2>3 DEF Types
  <2>5. AfterCallback(h, FALSE, tm, <<>>)
    BY <2>1
  <2> HIDE DEF tm
  <2>6. registered' = (registered \cup {}) \ (IF FALSE THEN {h} ELSE {})
    BY <2>2
  <2>7. evented' \subseteq Hooks /\ cancelled' \subseteq Hooks /\ rounds' = rounds /\ edged' = edged
    BY <1>1, <2>2 DEF Types
  <2> QED  BY <2>2, <2>4, <2>5, <2>6, <2>7, Nothing, CallbackKeeps
<1>8. CASE CallAndLeave
  <2>1. /\ calling /\ todo # <<>> /\ AfterCallback(h, TRUE, time, <<>>)
        /\ registered' = registered \ {h} /\ UNCHANGED <<evented, cancelled, rounds, edged>>
    BY <1>8 DEF CallAndLeave
  <2>2. registered' = (registered \cup {}) \ (IF TRUE THEN {h} ELSE {})
    BY <2>1
  <2>3. evented' \subseteq Hooks /\ cancelled' \subseteq Hooks /\ rounds' = rounds /\ edged' = edged
    BY <1>1, <2>1 DEF Types
  <2>4. time \in [Hooks -> Nat]
    BY <1>1 DEF Types
  <2> QED  BY <2>1, <2>2, <2>3, <2>4, Nothing, CallbackKeeps
<1>9. CASE CallAndAdd
  <2>1. PICK new \in Hooks \ registered, t \in NewTimes :
          /\ calling /\ todo # <<>>
          /\ AfterCallback(h, FALSE, [time EXCEPT ![new] = t], <<new>>)
          /\ registered' = registered \cup {new}
          /\ UNCHANGED <<evented, cancelled, rounds, edged>>
    BY <1>9 DEF CallAndAdd
  <2>2. picos \in Nat /\ t \in Nat /\ (t = 0 \/ t > picos)
    BY <1>1, HooksAssumption DEF Types, NewTimes
  <2> DEFINE tm == [time EXCEPT ![new] = t]
  <2>3. /\ tm \in [Hooks -> Nat] /\ (tm[new] = 0 \/ tm[new] > picos)
        /\ \A x \in registered \ {h} : tm[x] = time[x]
    BY <1>1, <2>1, <2>2 DEF Types
  <2>4. AfterCallback(h, FALSE, tm, <<new>>)
    BY <2>1
  <2> HIDE DEF tm
  <2> DEFINE adds == <<new>>
  <2>5. adds \in Seq(Hooks) /\ Once(adds) /\ ToSet(adds) = {new}
    <3>1. adds \in Seq(Hooks) /\ DOMAIN adds = {1} /\ adds[1] = new
      OBVIOUS
    <3> HIDE DEF adds
    <3> QED  BY <3>1 DEF Once, ToSet
  <2>6. AfterCallback(h, FALSE, tm, adds)
    BY <2>4
  <2> HIDE DEF adds
  <2>7. registered' = (registered \cup ToSet(adds)) \ (IF FALSE THEN {h} ELSE {})
    BY <2>1, <2>5
  <2>8. evented' \subseteq Hooks /\ cancelled' \subseteq Hooks /\ rounds' = rounds /\ edged' = edged
    BY <1>1, <2>1 DEF Types
  <2> QED  BY <2>1, <2>3, <2>5, <2>6, <2>7, <2>8, CallbackKeeps
<1>10. CASE CallAndCancel
  <2>1. PICK other \in registered :
          /\ calling /\ todo # <<>> /\ AfterCallback(h, FALSE, time, <<>>)
          /\ cancelled' = cancelled \cup {other} /\ UNCHANGED <<evented, registered, rounds, edged>>
    BY <1>10 DEF CallAndCancel
  <2>2. registered' = (registered \cup {}) \ (IF FALSE THEN {h} ELSE {})
    BY <2>1
  <2>3. evented' \subseteq Hooks /\ cancelled' \subseteq Hooks /\ rounds' = rounds /\ edged' = edged
    BY <1>1, <2>1 DEF Types
  <2>4. time \in [Hooks -> Nat]
    BY <1>1 DEF Types
  <2> QED  BY <2>1, <2>2, <2>3, <2>4, Nothing, CallbackKeeps
<1>11. CASE NotCalled
  <2>1. /\ calling /\ todo # <<>> /\ ~ Called /\ todo' = Tail(todo)
        /\ UNCHANGED <<picos, time, hooks, old, calling, evented, cancelled, registered, rounds, edged>>
    BY <1>11 DEF NotCalled, SkipHook
  <2>2. picos \in Nat /\ time[h] \in Nat /\ (time[h] = 0 \/ time[h] > picos)
    BY <1>1, <1>6, <2>1 DEF Types, Called, Due
  <2>3. Types'
    BY <1>1, <1>6, <2>1 DEF Types
  <2>4. Lists' /\ Order'
    BY <1>1, <1>6, <2>1 DEF Lists, Order
  <2>5. Times'
    <3>1. \A x \in registered : x # h => (x \in ToSet(todo) <=> x \in ToSet(todo'))
      BY <1>6, <2>1
    <3> HIDE DEF h
    <3> QED  BY <1>1, <2>1, <2>2, <3>1 DEF Times
  <2> QED  BY <2>3, <2>4, <2>5 DEF IInv
<1>12. CASE Merge
  <2>1. /\ calling /\ todo = <<>> /\ hooks # <<>> /\ old' = HookAdd(old, time, Head(hooks))
        /\ hooks' = Tail(hooks)
        /\ UNCHANGED <<picos, time, todo, calling, evented, cancelled, registered, rounds, edged>>
    BY <1>12 DEF Merge, MergeHook
  <2> DEFINE f == Head(hooks)
  <2>2. /\ f \in Hooks /\ f \in ToSet(hooks) /\ hooks' \in Seq(Hooks) /\ Once(hooks')
        /\ ToSet(hooks') = ToSet(hooks) \ {f}
    BY <1>1, <2>1, Tailed DEF Types, Lists
  <2>3. old' = HookAdd(old, time, f)
    BY <2>1
  <2> HIDE DEF f
  <2>4. f \notin ToSet(old)
    BY <1>1, <2>2 DEF Lists
  <2>5. /\ old' \in Seq(Hooks) /\ Once(old') /\ ToSet(old') = ToSet(old) \cup {f}
        /\ Sorted(old', time)
    BY <1>1, <2>2, <2>3, <2>4, Added DEF Types, Lists, Order
  <2>6. Types'
    BY <1>1, <2>1, <2>2, <2>5 DEF Types
  <2>7. Lists'
    BY <1>1, <2>1, <2>2, <2>5 DEF Lists
  <2>8. Order' /\ Times'
    BY <1>1, <2>1, <2>5 DEF Order, Times
  <2> QED  BY <2>6, <2>7, <2>8 DEF IInv
<1>13. CASE Immediate
  <2>1. PICK c \in cancelled :
          /\ calling /\ todo = <<>> /\ hooks = <<>> /\ old' = HookRemove(old, c)
          /\ time' = [time EXCEPT ![c] = 0]
          /\ cancelled' = cancelled \ {c} /\ registered' = registered \ {c}
          /\ UNCHANGED <<picos, hooks, todo, calling, evented, rounds, edged>>
    BY <1>13 DEF Immediate, CallImmediate
  <2>2. c \in Hooks /\ time' \in [Hooks -> Nat] /\ \A x \in Hooks : x # c => time'[x] = time[x]
    BY <1>1, <2>1 DEF Types
  <2>3. /\ old' \in Seq(Hooks) /\ Once(old') /\ ToSet(old') = ToSet(old) \ {c}
        /\ Sorted(old', time)
    BY <1>1, <2>1, Removed DEF Types, Lists, Order
  <2>4. registered \subseteq Hooks /\ ToSet(old) = registered
    BY <1>1, <2>1, Nothing DEF Types, Lists
  <2>5. Sorted(old', time')
    <3>1. \A x \in ToSet(old') : time'[x] = time[x]
      BY <2>2, <2>3, <2>4
    <3> QED  BY <2>3, <3>1, SameTimes
  <2>6. Types'
    BY <1>1, <2>1, <2>2, <2>3 DEF Types
  <2>7. Lists'
    BY <1>1, <2>1, <2>3, <2>4, Nothing DEF Lists
  <2>8. Order'
    BY <2>1, <2>5 DEF Order
  <2>9. Times'
    BY <1>1, <2>1, <2>2, <2>4 DEF Times
  <2> QED  BY <2>6, <2>7, <2>8, <2>9 DEF IInv
<1>14. CASE RoundOver
  <2>1. /\ cancelled = {} /\ calling /\ todo = <<>> /\ hooks = <<>> /\ calling' = FALSE
        /\ hooks' = old /\ old' = <<>> /\ evented' = {} /\ edged' = FALSE
        /\ UNCHANGED <<picos, time, todo, cancelled, registered, rounds>>
    BY <1>14 DEF RoundOver, EndRound
  <2>2. Types'
    BY <1>1, <2>1, Nothing DEF Types
  <2>3. Lists'
    BY <1>1, <2>1, Nothing DEF Lists
  <2>4. Order'
    BY <1>1, <2>1, Nothing DEF Order
  <2>5. Times'
    <3> SUFFICES ASSUME NEW x \in registered, time[x] # 0
                 PROVE  time[x] >= picos /\ ~ (time[x] <= picos)
      BY <2>1 DEF Times
    <3>1. ~ (time[x] <= picos)
      BY <1>1, <2>1, Nothing DEF Lists, Times
    <3>2. time[x] \in Nat /\ picos \in Nat
      BY <1>1 DEF Types
    <3> QED  BY <3>1, <3>2
  <2> QED  BY <2>2, <2>3, <2>4, <2>5 DEF IInv
<1>15. CASE UNCHANGED vars
  BY <1>1, <1>15 DEF vars, kernelVars, IInv, Types, Lists, Order, Times
<1> QED
  BY <1>2, <1>3, <1>4, <1>5, <1>7, <1>8, <1>9, <1>10, <1>11, <1>12, <1>13, <1>14, <1>15, <1>4a DEF Next

-------------------------------------------------------------------------------
(* What the clients may rely on.                                             *)

\* Every step of the simulator and of its clients keeps the two lists disjoint, in
\* order and up to date with the time.
THEOREM Invariance == Spec => []IInv
<1>1. Init => IInv
  BY InitHolds
<1>2. IInv /\ [Next]_vars => IInv'
  BY StepHolds
<1> QED  BY <1>1, <1>2, PTL DEF Spec

\* No hook is lost and none is in the lists twice, whatever the callbacks of
\* sim_fire_events add, remove and reschedule while it walks.
THEOREM ListsAreExact == Spec => []ExactlyRegistered
<1>1. IInv => ExactlyRegistered
  <2> SUFFICES ASSUME IInv PROVE ExactlyRegistered
    OBVIOUS
  <2>1. /\ hooks \o old \in Seq(Hooks) /\ Once(hooks \o old)
        /\ ToSet(hooks \o old) = ToSet(hooks) \cup ToSet(old)
    BY Joined DEF IInv, Types, Lists
  <2>2. Len(hooks \o old) = Cardinality(ToSet(hooks \o old))
    BY <2>1, OnceLen
  <2>3. ToSet(hooks \o old) = registered
    BY <2>1 DEF IInv, Lists
  <2> QED  BY <2>2, <2>3 DEF ExactlyRegistered
<1> QED  BY <1>1, Invariance, PTL

\* sim_wait and sim_wait_time never run past the target time of a hook, also after
\* waits for a clock edge that do: what these pass is seen to in their own round.
THEOREM NoHookIsLate == Spec => []NeverLate
<1>1. IInv => NeverLate
  BY DEF IInv, Lists, Times, NeverLate
<1> QED  BY <1>1, Invariance, PTL

\* When a round is over no hook is left with a time that has passed, so that the head
\* of the list is what next_hook_delay takes it for.
THEOREM NoHookIsOverdue == Spec => []NothingOverdue
<1>1. IInv => NothingOverdue
  <2> SUFFICES ASSUME IInv, ~ calling, ~ rounds, NEW h \in registered, time[h] # 0
               PROVE  time[h] > picos
    BY DEF NothingOverdue
  <2>1. ~ (time[h] <= picos)
    BY Nothing DEF IInv, Lists, Times
  <2>2. time[h] \in Nat /\ picos \in Nat
    BY DEF IInv, Types
  <2> QED  BY <2>1, <2>2
<1> QED  BY <1>1, Invariance, PTL

===============================================================================
