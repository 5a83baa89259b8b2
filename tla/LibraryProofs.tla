--------------------------- MODULE LibraryProofs ---------------------------
(***************************************************************************)
(* The worker branches and their names, and the context tracker, for any   *)
(* number of names, workers and sessions.  The first section has the       *)
(* lemmas about numbers, lists and loops that the names rest on.           *)
(***************************************************************************)
EXTENDS Branch, Tracker, FiniteSetTheorems, SequenceTheorems, WellFoundedInduction, TLAPS
----------------------------------------------------------------------------
(* Numbers and lists                                                       *)

\* Every set of natural numbers that is not empty has a least member: the form
\* in which the proofs below use induction.
LEMMA LeastNumber ==
  ASSUME NEW T, T \subseteq Nat, T # {}
  PROVE  \E x \in T : \A y \in T : x <= y
<1>1. IsWellFoundedOn(OpToRel(<, Nat), Nat)
  BY NatLessThanWellFounded, Zenon
<1>2. PICK x \in T : \A y \in T : <<y, x>> \notin OpToRel(<, Nat)
  BY <1>1, WFMin, Zenon
<1>3. \A y \in T : ~(y < x)
  BY <1>2, Zenon DEF OpToRel
<1> QED
  BY <1>3

LEMMA Inductive ==
  ASSUME NEW T, T \subseteq Nat, 0 \in T, \A n \in T : n + 1 \in T
  PROVE  \A n \in Nat : n \in T
<1> SUFFICES ASSUME NEW m \in Nat, m \notin T PROVE FALSE
  BY Zenon
<1>1. PICK x \in Nat \ T : \A y \in Nat \ T : x <= y
  BY LeastNumber, Zenon
<1>2. x # 0
  BY Zenon
<1>3. x - 1 \in T
  BY <1>1, <1>2
<1> QED
  BY <1>3

\* How many members of I are below i.
Rank(I, i) == Cardinality({j \in I : j < i})

LEMMA Ranks ==
  ASSUME NEW I, I \subseteq Nat, IsFiniteSet(I)
  PROVE  /\ Cardinality(I) \in Nat
         /\ \A i \in I : Rank(I, i) \in 0 .. Cardinality(I) - 1
         /\ \A i, k \in I : i < k => Rank(I, i) < Rank(I, k)
         /\ \A m \in 0 .. Cardinality(I) - 1 : \E i \in I : Rank(I, i) = m
<1> DEFINE Below(i) == {j \in I : j < i}
<1>1. PICK n \in Nat : n = Cardinality(I)
  BY FS_CardinalityType, Zenon
<1>2. \A i \in I : IsFiniteSet(Below(i)) /\ Rank(I, i) = Cardinality(Below(i)) /\ Rank(I, i) \in Nat
  BY FS_Subset, FS_CardinalityType, Zenon DEF Rank
<1>3. ASSUME NEW i \in I PROVE Rank(I, i) \in 0 .. n - 1
  <2>1. Below(i) \in SUBSET I /\ Below(i) # I
    OBVIOUS
  <2>2. Cardinality(Below(i)) <= n /\ n # Cardinality(Below(i))
    BY <1>1, <2>1, FS_Subset, Zenon
  <2> QED
    BY <1>2, <2>2
<1>4. ASSUME NEW i \in I, NEW k \in I, i < k PROVE Rank(I, i) < Rank(I, k)
  <2>1. i \in Nat /\ k \in Nat /\ i < k /\ \A j \in I : j \in Nat
    BY <1>4, Zenon
  <2>2. i \in Below(k) /\ i \notin Below(i) /\ \A j \in Below(i) : j \in Below(k)
    BY <2>1
  <2>3. Below(i) \in SUBSET Below(k) /\ Below(i) # Below(k)
    BY <2>2, Zenon
  <2>4. Cardinality(Below(i)) <= Cardinality(Below(k)) /\ Cardinality(Below(k)) # Cardinality(Below(i))
    BY <1>2, <2>3, FS_Subset, Zenon
  <2> QED
    BY <1>2, <2>4
<1>5. ASSUME NEW m \in 0 .. n - 1 PROVE \E i \in I : Rank(I, i) = m
  <2> DEFINE r == [i \in I |-> Rank(I, i)]
  <2>1. r \in [I -> 0 .. n - 1]
    BY <1>3, Zenon
  <2>2. ASSUME NEW i \in I, NEW k \in I, i # k PROVE r[i] # r[k]
    <3>1. i \in Nat /\ k \in Nat /\ (i < k \/ k < i)
      BY <2>2
    <3>2. Rank(I, i) < Rank(I, k) \/ Rank(I, k) < Rank(I, i)
      BY <1>4, <3>1, Zenon
    <3>3. PICK u \in Nat, v \in Nat : u = Rank(I, i) /\ v = Rank(I, k)
      BY <1>2, Zenon
    <3>4. u # v
      BY <3>2, <3>3
    <3> QED
      BY <3>3, <3>4, Zenon
  <2>3. r \in Injection(I, 0 .. n - 1)
    BY <2>1, <2>2, Zenon DEF Injection, IsInjective
  <2>4. IsFiniteSet(0 .. n - 1) /\ Cardinality(0 .. n - 1) = n
    BY FS_Interval
  <2>5. r \in Surjection(I, 0 .. n - 1)
    BY <1>1, <2>3, <2>4, FS_Injection, Zenon
  <2> QED
    BY <2>5, Zenon DEF Surjection
<1> QED
  BY <1>1, <1>3, <1>4, <1>5, Zenon

\* Nth lists the members of a finite set of numbers in order.
LEMMA NthLists ==
  ASSUME NEW I, I \subseteq Nat, IsFiniteSet(I)
  PROVE  /\ Cardinality(I) \in Nat
         /\ \A k \in 1 .. Cardinality(I) : Nth(I, k) \in I /\ Rank(I, Nth(I, k)) = k - 1
         /\ \A k, l \in 1 .. Cardinality(I) : k < l => Nth(I, k) < Nth(I, l)
         /\ \A i \in I : \E k \in 1 .. Cardinality(I) : Nth(I, k) = i
<1>0. PICK n \in Nat : n = Cardinality(I)
  BY Ranks, Zenon
<1>1. /\ \A i \in I : Rank(I, i) \in 0 .. n - 1
      /\ \A i, k \in I : i < k => Rank(I, i) < Rank(I, k)
      /\ \A m \in 0 .. n - 1 : \E i \in I : Rank(I, i) = m
  BY <1>0, Ranks, Zenon
<1>2. ASSUME NEW k \in 1 .. n PROVE Nth(I, k) \in I /\ Rank(I, Nth(I, k)) = k - 1
  <2>1. PICK m \in 0 .. n - 1 : m = k - 1
    OBVIOUS
  <2>2. \E i \in I : Rank(I, i) = m
    BY <1>1, Zenon
  <2>3. \E i \in I : Cardinality({j \in I : j < i}) = k - 1
    BY <2>1, <2>2, Zenon DEF Rank
  <2>4. Nth(I, k) \in I /\ Cardinality({j \in I : j < Nth(I, k)}) = k - 1
    BY <2>3, Zenon DEF Nth
  <2> QED
    BY <2>4, Zenon DEF Rank
<1>3. ASSUME NEW k \in 1 .. n, NEW l \in 1 .. n, k < l PROVE Nth(I, k) < Nth(I, l)
  <2>1. PICK a \in I, b \in I : a = Nth(I, k) /\ b = Nth(I, l) /\ Rank(I, a) = k - 1 /\ Rank(I, b) = l - 1
    BY <1>2, Zenon
  <2>2. ~(b < a) /\ a # b
    BY <1>1, <1>3, <2>1
  <2> QED
    BY <2>1, <2>2
<1>4. ASSUME NEW i \in I PROVE \E k \in 1 .. n : Nth(I, k) = i
  <2>0. PICK x \in 0 .. n - 1 : x = Rank(I, i)
    BY <1>1, Zenon
  <2>1. PICK k \in 1 .. n : k = x + 1
    OBVIOUS
  <2>2. PICK a \in I : a = Nth(I, k) /\ Rank(I, a) = Rank(I, i)
    <3>1. k - 1 = x
      BY <2>1
    <3> QED
      BY <1>2, <2>0, <3>1, Zenon
  <2>3. Rank(I, i) \in Nat /\ ~(Rank(I, i) < Rank(I, a)) /\ ~(Rank(I, a) < Rank(I, i))
    BY <1>1, <2>2
  <2>4. ~(a < i) /\ ~(i < a)
    BY <1>1, <2>3, Zenon
  <2>5. a \in Nat /\ i \in Nat
    BY Zenon
  <2> QED
    BY <2>2, <2>4, <2>5
<1> QED
  BY <1>0, <1>2, <1>3, <1>4, Zenon

\* g lists the members of I in order.
InOrder(I, m, g) ==
  /\ g \in [1 .. m -> I]
  /\ \A k, l \in 1 .. m : k < l => g[k] < g[l]
  /\ \A i \in I : \E k \in 1 .. m : g[k] = i

\* There is one way to do so.
LEMMA NthOnly ==
  ASSUME NEW I, I \subseteq Nat, NEW m \in Nat, NEW g, InOrder(I, m, g)
  PROVE  IsFiniteSet(I) /\ Cardinality(I) = m /\ \A k \in 1 .. m : Nth(I, k) = g[k]
<1> USE DEF InOrder
<1>1. \A k, l \in 1 .. m : g[k] = g[l] => k = l
  <2> SUFFICES ASSUME NEW k \in 1 .. m, NEW l \in 1 .. m, k # l PROVE g[k] # g[l]
    BY Zenon
  <2>1. k < l \/ l < k
    OBVIOUS
  <2>2. g[k] < g[l] \/ g[l] < g[k]
    BY <2>1, Zenon
  <2>3. g[k] \in Nat /\ g[l] \in Nat
    BY Zenon
  <2> QED
    BY <2>2, <2>3
<1>2. g \in Bijection(1 .. m, I)
  BY <1>1, Zenon DEF Bijection, Injection, IsInjective, Surjection
<1>3. IsFiniteSet(I) /\ Cardinality(I) = m
  <2>1. ExistsBijection(1 .. m, I)
    BY <1>2, Zenon DEF ExistsBijection
  <2> QED
    BY <2>1, FS_CountingElements, FS_NatBijection, Zenon
<1>4. ASSUME NEW k \in 1 .. m PROVE Rank(I, g[k]) = k - 1
  <2>1. PICK T : T = {j \in I : j < g[k]}
    BY Zenon
  <2>2. \A l \in 1 .. k - 1 : g[l] \in T
    BY <2>1
  <2>3. \A j \in T : \E l \in 1 .. k - 1 : g[l] = j
    <3> SUFFICES ASSUME NEW j \in T PROVE \E l \in 1 .. k - 1 : g[l] = j
      BY Zenon
    <3>1. PICK l \in 1 .. m : g[l] = j
      BY <2>1, Zenon
    <3>2. g[l] < g[k] /\ g[l] \in Nat /\ g[k] \in Nat
      BY <2>1, <3>1, Zenon
    <3>3. ~(k < l) /\ k # l
      BY <3>2
    <3> QED
      BY <3>1, <3>3
  <2>4. PICK h : h = [l \in 1 .. k - 1 |-> g[l]]
    BY Zenon
  <2>5. h \in Bijection(1 .. k - 1, T)
    BY <1>1, <2>2, <2>3, <2>4 DEF Bijection, Injection, IsInjective, Surjection
  <2>6. PICK p \in Nat : p = k - 1
    OBVIOUS
  <2>7. ExistsBijection(1 .. p, T)
    BY <2>5, <2>6, Zenon DEF ExistsBijection
  <2>8. Cardinality(T) = p
    BY <2>7, FS_CountingElements, Zenon
  <2> QED
    BY <2>1, <2>6, <2>8, Zenon DEF Rank
<1>5. ASSUME NEW k \in 1 .. m PROVE Nth(I, k) = g[k]
  <2>1. PICK a \in I : a = Nth(I, k) /\ Rank(I, a) = k - 1
    BY <1>3, NthLists, Zenon
  <2>2. ~(a < g[k]) /\ ~(g[k] < a)
    BY <1>3, <1>4, <2>1, Ranks
  <2> QED
    BY <2>1, <2>2
<1> QED
  BY <1>3, <1>5, Zenon

\* A loop of n turns over the values S: the i-th turn makes d[i, v] of v, and
\* g[i] is what it leaves.
Loop(S, n, d) == d \in [(1 .. n) \X S -> S]
LoopRuns(S, c, n, d, g) == g \in [0 .. n -> S] /\ g[0] = c /\ \A i \in 1 .. n : g[i] = d[<<i, g[i - 1]>>]

LEMMA Iterates ==
  ASSUME NEW S, NEW c \in S, NEW n \in Nat, NEW d, Loop(S, n, d)
  PROVE  \E g : LoopRuns(S, c, n, d, g)
<1>0. d \in [(1 .. n) \X S -> S]
  BY Zenon DEF Loop
<1> DEFINE Runs(k, g) == g \in [0 .. k -> S] /\ g[0] = c /\ \A i \in 1 .. k : g[i] = d[<<i, g[i - 1]>>]
           K == {k \in Nat : k <= n => \E g : Runs(k, g)}
<1>1. 0 \in K
  <2>1. Runs(0, [i \in 0 .. 0 |-> c])
    OBVIOUS
  <2> QED
    BY <2>1, Zenon
<1>2. ASSUME NEW k \in K, k + 1 <= n PROVE \E g : Runs(k + 1, g)
  <2>1. k \in Nat /\ k <= n
    BY <1>2
  <2>2. PICK g : Runs(k, g)
    BY <2>1, Zenon
  <2>3. PICK v \in S : v = d[<<k + 1, g[k]>>]
    BY <1>0, <1>2, <2>1, <2>2
  <2>4. PICK h : h = [i \in 0 .. k + 1 |-> IF i <= k THEN g[i] ELSE v]
    BY Zenon
  <2>5. h \in [0 .. k + 1 -> S] /\ h[0] = c
    BY <2>1, <2>2, <2>4
  <2>6. ASSUME NEW i \in 1 .. k + 1 PROVE h[i] = d[<<i, h[i - 1]>>]
    <3>1. CASE i <= k
      <4>1. h[i] = g[i] /\ h[i - 1] = g[i - 1] /\ i \in 1 .. k
        BY <2>1, <2>4, <3>1
      <4> QED
        BY <2>2, <4>1, Zenon
    <3>2. CASE i = k + 1
      <4>1. h[i] = v /\ h[i - 1] = g[k]
        BY <2>1, <2>4, <3>2
      <4> QED
        BY <2>3, <3>2, <4>1, Zenon
    <3> QED
      BY <2>1, <3>1, <3>2
  <2> QED
    BY <2>5, <2>6, Zenon
<1>3. \A k \in K : k + 1 \in K
  BY <1>2
<1>4. n \in K
  <2>1. K \subseteq Nat
    BY Zenon
  <2> HIDE DEF K
  <2> QED
    BY <1>1, <1>3, <2>1, Inductive, Zenon
<1> QED
  BY <1>4 DEF LoopRuns

LEMMA LeastIndex ==
  ASSUME NEW S, S \subseteq Nat, S # {}
  PROVE  Min(S) \in S /\ \A i \in S : Min(S) <= i
<1>1. \E x \in S : \A y \in S : x =< y
  BY LeastNumber, Zenon
<1>2. PICK m : m = Min(S)
  BY Zenon
<1>3. m \in S /\ \A y \in S : m =< y
  BY <1>1, <1>2, Zenon DEF Min
<1> QED
  BY <1>2, <1>3, Zenon
----------------------------------------------------------------------------
(* The names of branches                                                   *)

LEMMA Cut ==
  ASSUME NEW C, NEW s \in Seq(C), NEW t \in Seq(C), NEW m \in Nat \ {0},
         Len(t) > 0, m + Len(t) - 1 <= Len(s), \A i \in 1 .. Len(t) : s[m + i - 1] = t[i]
  PROVE  SubSeq(s, m, m + Len(t) - 1) = t
<1>0. Len(t) \in Nat /\ Len(s) \in Nat
  BY LenProperties, Zenon
<1>1. PICK c \in Nat, d \in Nat : c = Len(t) /\ d = Len(s)
  BY <1>0, Zenon
<1>2. \A i \in m .. m + c - 1 : s[i] \in C
  BY <1>1, ElementOfSeq
<1>3. PICK u \in Seq(C) : u = SubSeq(s, m, m + c - 1) /\ Len(u) = c /\ \A i \in 1 .. c : u[i] = s[m + i - 1]
  BY <1>1, <1>2, SubSeqProperties
<1>4. \A i \in 1 .. c : u[i] = t[i]
  BY <1>1, <1>3, Zenon
<1> QED
  BY <1>1, <1>3, <1>4, SeqEqual, Zenon

LEMMA Joining ==
  ASSUME NEW C, NEW s \in Seq(C), NEW t \in Seq(C), NEW r, r = s \o t
  PROVE  /\ r \in Seq(C) /\ Len(r) = Len(s) + Len(t)
         /\ \A i \in 1 .. Len(s) : r[i] = s[i]
         /\ \A i \in 1 .. Len(t) : r[Len(s) + i] = t[i]
  BY ConcatProperties

LEMMA OneSlash ==
  ASSUME NEW C, "/" \in C
  PROVE  <<"/">> \in Seq(C) /\ Len(<<"/">>) = 1 /\ <<"/">>[1] = "/"
<1>1. <<"/">> \in Seq(C)
  OBVIOUS
<1>2. Len(<<"/">>) = 1 /\ <<"/">>[1] = "/"
  BY Zenon
<1> QED
  BY <1>1, <1>2, Zenon

\* Where the characters of a branch name r come from; b and e are its slashes.
Parted(C, r, f, a, id, b, e) ==
  /\ r \in Seq(C) /\ Len(r) = e + Len(id)
  /\ \A i \in 1 .. Len(f) : r[i] = f[i]
  /\ \A i \in 1 .. Len(a) : r[b + i] = a[i]
  /\ \A i \in 1 .. Len(id) : r[e + i] = id[i]
  /\ r[b] = "/" /\ r[e] = "/"

LEMMA Characters ==
  ASSUME NEW C, "/" \in C, NEW f \in Seq(C), NEW a \in Seq(C), NEW id \in Seq(C),
         NEW b \in Nat, b = Len(f) + 1, NEW e \in Nat, e = b + Len(a) + 1,
         NEW r, r = String(f, a, id)
  PROVE  Parted(C, r, f, a, id, b, e)
<1>0. PICK p \in Nat, q \in Nat, n \in Nat : p = Len(f) /\ q = Len(a) /\ n = Len(id)
  OBVIOUS
<1>1. PICK g \in Seq(C) : g = <<"/">>
  BY OneSlash, Zenon
<1>2. Len(g) = 1 /\ g[1] = "/"
  BY <1>1, OneSlash, Zenon
<1>3. e = b + q + 1 /\ b = p + 1
  BY <1>0, Zenon
<1>4. PICK s \in Seq(C) : s = f \o g
  BY Joining, Zenon
<1>5. Len(s) = b /\ (\A i \in 1 .. p : s[i] = f[i]) /\ s[b] = "/"
  <2>1. Len(s) = Len(f) + Len(g) /\ (\A i \in 1 .. Len(f) : s[i] = f[i]) /\ \A i \in 1 .. Len(g) : s[Len(f) + i] = g[i]
    BY <1>4, Joining
  <2> QED
    BY <1>0, <1>2, <1>3, <2>1
<1>6. PICK t \in Seq(C) : t = s \o a
  BY Joining, Zenon
<1>7. Len(t) = b + q /\ (\A i \in 1 .. b : t[i] = s[i]) /\ \A i \in 1 .. q : t[b + i] = a[i]
  <2>1. Len(t) = Len(s) + Len(a) /\ (\A i \in 1 .. Len(s) : t[i] = s[i]) /\ \A i \in 1 .. Len(a) : t[Len(s) + i] = a[i]
    BY <1>6, Joining
  <2> QED
    BY <1>0, <1>5, <2>1, Zenon
<1>8. PICK u \in Seq(C) : u = t \o g
  BY Joining, Zenon
<1>9. Len(u) = e /\ (\A i \in 1 .. b + q : u[i] = t[i]) /\ u[e] = "/"
  <2>1. Len(u) = Len(t) + Len(g) /\ (\A i \in 1 .. Len(t) : u[i] = t[i]) /\ \A i \in 1 .. Len(g) : u[Len(t) + i] = g[i]
    BY <1>8, Joining
  <2> QED
    BY <1>0, <1>2, <1>3, <1>7, <2>1
<1>10. r = u \o id
  BY <1>1, <1>4, <1>6, <1>8, Zenon DEF String
<1>11. r \in Seq(C) /\ Len(r) = e + n /\ (\A i \in 1 .. e : r[i] = u[i]) /\ \A i \in 1 .. n : r[e + i] = id[i]
  <2>1. r \in Seq(C) /\ Len(r) = Len(u) + Len(id)
        /\ (\A i \in 1 .. Len(u) : r[i] = u[i]) /\ \A i \in 1 .. Len(id) : r[Len(u) + i] = id[i]
    BY <1>10, Joining
  <2> QED
    BY <1>0, <1>9, <2>1, Zenon
<1>12. ASSUME NEW i \in 1 .. p PROVE r[i] = f[i]
  <2>1. i \in 1 .. b /\ i \in 1 .. b + q /\ i \in 1 .. e
    BY <1>3
  <2> QED
    BY <1>5, <1>7, <1>9, <1>11, <2>1, Zenon
<1>13. ASSUME NEW i \in 1 .. q PROVE r[b + i] = a[i]
  <2>1. b + i \in 1 .. b + q /\ b + i \in 1 .. e
    BY <1>3
  <2> QED
    BY <1>7, <1>9, <1>11, <2>1, Zenon
<1>14. r[b] = "/" /\ r[e] = "/"
  <2>1. b \in 1 .. b /\ b \in 1 .. b + q /\ b \in 1 .. e /\ e \in 1 .. e
    BY <1>3
  <2> QED
    BY <1>5, <1>7, <1>9, <1>11, <2>1, Zenon
<1> QED
  BY <1>0, <1>11, <1>12, <1>13, <1>14, Zenon DEF Parted

LEMMA Least ==
  ASSUME NEW S, S \subseteq Int, NEW b \in S, \A i \in S : i >= b PROVE Min(S) = b
<1>1. PICK m : m = Min(S)
  BY Zenon
<1>2. \E x \in S : \A y \in S : x =< y
  BY Zenon
<1>3. m \in S /\ \A y \in S : m =< y
  BY <1>1, <1>2, Zenon DEF Min
<1>4. m =< b /\ m >= b
  BY <1>3, Zenon
<1> QED
  BY <1>1, <1>3, <1>4

LEMMA AtLeastTwo ==
  ASSUME NEW S, IsFiniteSet(S), NEW b \in S, NEW e \in S, b # e PROVE ~(Cardinality(S) < 2)
<1>1. IsFiniteSet({b}) /\ Cardinality({b}) = 1
  BY FS_Singleton, Zenon
<1>2. PICK T : T = {b} \cup {e}
  BY Zenon
<1>3. e \notin {b}
  BY Zenon
<1>4. IsFiniteSet(T) /\ Cardinality(T) = Cardinality({b}) + 1
  BY <1>1, <1>2, <1>3, FS_AddElement, Zenon
<1>5. T \subseteq S
  BY <1>2, Zenon
<1>6. Cardinality(T) <= Cardinality(S) /\ Cardinality(S) \in Nat
  BY <1>5, FS_Subset, FS_CardinalityType, Zenon
<1> QED
  BY <1>1, <1>4, <1>6

\* Parse takes apart what String put together: for every feature and agent name
\* without a slash, which New's Sanitize guarantees of the names it accepts, and
\* every id, which may have slashes of its own (naming.go:39, :45).
THEOREM ParseInverts ==
  ASSUME NEW C, "/" \in C, NEW f \in Seq(C), NEW a \in Seq(C), NEW id \in Seq(C),
         f # <<>>, a # <<>>, id # <<>>, Slashes(f) = {}, Slashes(a) = {}
  PROVE  Parse(String(f, a, id)) = <<f, a, id>>
<1>1. PICK p \in Nat, q \in Nat, n \in Nat : p = Len(f) /\ q = Len(a) /\ n = Len(id) /\ p > 0 /\ q > 0 /\ n > 0
  BY EmptySeq
<1>2. PICK b \in Nat, e \in Nat : b = Len(f) + 1 /\ e = b + Len(a) + 1
  BY <1>1
<1>3. PICK r : r = String(f, a, id)
  BY Zenon
<1>4. /\ r \in Seq(C) /\ Len(r) = e + Len(id)
      /\ \A i \in 1 .. Len(f) : r[i] = f[i]
      /\ \A i \in 1 .. Len(a) : r[b + i] = a[i]
      /\ \A i \in 1 .. Len(id) : r[e + i] = id[i]
      /\ r[b] = "/" /\ r[e] = "/"
  <2>1. Parted(C, r, f, a, id, b, e)
    BY <1>2, <1>3, Characters, Zenon
  <2> QED
    BY <2>1, Zenon DEF Parted
<1>5. DOMAIN f = 1 .. p /\ DOMAIN a = 1 .. q /\ DOMAIN r = 1 .. e + n
  BY <1>1, <1>4, LenProperties, Zenon
<1>6. (\A i \in 1 .. p : f[i] # "/") /\ (\A i \in 1 .. q : a[i] # "/")
  BY <1>5, Zenon DEF Slashes
<1>7. b = p + 1 /\ e = b + q + 1 /\ b # e
  BY <1>1, <1>2
<1>8. PICK S : S = Slashes(r)
  BY Zenon
<1>9. S \subseteq 1 .. e + n /\ b \in S /\ e \in S
  BY <1>1, <1>4, <1>5, <1>7, <1>8 DEF Slashes
<1>10. \A i \in S : i >= b /\ (i # b => i >= e)
  <2> SUFFICES ASSUME NEW i \in S PROVE i >= b /\ (i # b => i >= e)
    BY Zenon
  <2>1. i \in 1 .. e + n /\ r[i] = "/"
    BY <1>5, <1>8, Zenon DEF Slashes
  <2>2. i \notin 1 .. p
    BY <1>1, <1>4, <1>6, <2>1, Zenon
  <2>3. ASSUME i > b, i < e PROVE FALSE
    <3>1. PICK j \in 1 .. q : i = b + j
      <4>1. i - b \in 1 .. q /\ b + (i - b) = i
        BY <1>7, <2>1, <2>3
      <4> QED
        BY <4>1, Zenon
    <3>2. r[i] = a[j]
      BY <1>1, <1>4, <3>1, Zenon
    <3> QED
      BY <1>6, <2>1, <3>2, Zenon
  <2> QED
    BY <1>7, <2>1, <2>2, <2>3
<1>11. Min(S) = b
  <2>1. S \subseteq Int
    BY <1>9
  <2> QED
    BY <1>9, <1>10, <2>1, Least, Zenon
<1>12. Min(S \ {b}) = e
  <2>1. S \ {b} \subseteq Int /\ e \in S \ {b} /\ \A i \in S \ {b} : i >= e
    <3>1. S \subseteq Int
      BY <1>9
    <3> QED
      BY <1>7, <1>9, <1>10, <3>1, Zenon
  <2> QED
    BY <2>1, Least, Zenon
<1>13. ~(Cardinality(S) < 2)
  <2>1. IsFiniteSet(1 .. e + n)
    BY FS_Interval
  <2>2. IsFiniteSet(S)
    BY <1>9, <2>1, FS_Subset, Zenon
  <2> QED
    BY <1>7, <1>9, <2>2, AtLeastTwo, Zenon
<1>14. SubSeq(r, 1, b - 1) = f
  <2>1. \A i \in 1 .. Len(f) : r[1 + i - 1] = f[i]
    BY <1>1, <1>4
  <2>2. SubSeq(r, 1, 1 + Len(f) - 1) = f
    BY <1>1, <1>4, <1>7, <2>1, Cut
  <2>3. 1 + Len(f) - 1 = b - 1
    BY <1>1, <1>7
  <2> QED
    BY <2>2, <2>3, Zenon
<1>15. SubSeq(r, b + 1, e - 1) = a
  <2>0. PICK m \in Nat \ {0} : m = b + 1
    OBVIOUS
  <2>1. \A i \in 1 .. Len(a) : r[m + i - 1] = a[i]
    <3> SUFFICES ASSUME NEW i \in 1 .. Len(a) PROVE r[m + i - 1] = a[i]
      BY Zenon
    <3>1. m + i - 1 = b + i
      BY <1>1, <2>0
    <3> QED
      BY <1>4, <3>1, Zenon
  <2>2. Len(a) > 0 /\ m + Len(a) - 1 <= Len(r)
    BY <1>1, <1>4, <1>7, <2>0
  <2>3. SubSeq(r, m, m + Len(a) - 1) = a
    BY <1>4, <2>1, <2>2, Cut, Zenon
  <2>4. m + Len(a) - 1 = e - 1
    BY <1>1, <1>7, <2>0
  <2> QED
    BY <2>0, <2>3, <2>4, Zenon
<1>16. SubSeq(r, e + 1, Len(r)) = id
  <2>0. PICK m \in Nat \ {0} : m = e + 1
    OBVIOUS
  <2>1. \A i \in 1 .. Len(id) : r[m + i - 1] = id[i]
    <3> SUFFICES ASSUME NEW i \in 1 .. Len(id) PROVE r[m + i - 1] = id[i]
      BY Zenon
    <3>1. m + i - 1 = e + i
      BY <1>1, <2>0
    <3> QED
      BY <1>4, <3>1, Zenon
  <2>2. Len(id) > 0 /\ m + Len(id) - 1 <= Len(r)
    BY <1>1, <1>4, <1>7, <2>0
  <2>3. SubSeq(r, m, m + Len(id) - 1) = id
    BY <1>4, <2>1, <2>2, Cut, Zenon
  <2>4. m + Len(id) - 1 = Len(r)
    BY <1>1, <1>4, <2>0
  <2> QED
    BY <2>0, <2>3, <2>4, Zenon
<1>17. <<>> \notin Range(<<f, a, id>>)
  BY DEF Range
<1> QED
  BY <1>3, <1>8, <1>11, <1>12, <1>13, <1>14, <1>15, <1>16, <1>17, Zenon DEF Parse
----------------------------------------------------------------------------
(* Sanitize                                                                *)

\* What Picked keeps: the members at I, in order.
LEMMA PickedKeeps ==
  ASSUME NEW C, NEW s \in Seq(C), NEW I \in SUBSET DOMAIN s
  PROVE  /\ IsFiniteSet(I) /\ I \subseteq Nat
         /\ Picked(s, I) \in Seq(C) /\ Len(Picked(s, I)) = Cardinality(I) /\ Cardinality(I) \in Nat
         /\ DOMAIN Picked(s, I) = 1 .. Cardinality(I)
         /\ \A k \in 1 .. Cardinality(I) : Nth(I, k) \in I /\ Picked(s, I)[k] = s[Nth(I, k)]
<1>1. DOMAIN s = 1 .. Len(s) /\ Len(s) \in Nat
  BY LenProperties, Zenon
<1>2. IsFiniteSet(I) /\ I \subseteq Nat
  <2>1. IsFiniteSet(1 .. Len(s)) /\ I \in SUBSET (1 .. Len(s))
    BY <1>1, FS_Interval
  <2> QED
    BY <2>1, FS_Subset
<1>3. PICK n \in Nat : n = Cardinality(I)
  BY <1>2, FS_CardinalityType, Zenon
<1>4. PICK p : p = Picked(s, I)
  BY Zenon
<1>5. p = [k \in 1 .. n |-> s[Nth(I, k)]]
  BY <1>3, <1>4, Zenon DEF Picked
<1>6. \A k \in 1 .. n : Nth(I, k) \in I
  BY <1>2, <1>3, NthLists, Zenon
<1>7. \A k \in 1 .. n : s[Nth(I, k)] \in C
  BY <1>1, <1>6, ElementOfSeq, Zenon
<1>8. p \in Seq(C) /\ Len(p) = n /\ DOMAIN p = 1 .. n /\ \A k \in 1 .. n : p[k] = s[Nth(I, k)]
  BY <1>5, <1>7
<1> QED
  BY <1>2, <1>3, <1>4, <1>6, <1>8, Zenon

\* The member at i of I is found in what is picked.
LEMMA PickedAt ==
  ASSUME NEW C, NEW s \in Seq(C), NEW I \in SUBSET DOMAIN s, NEW i \in I
  PROVE  \E k \in DOMAIN Picked(s, I) : Nth(I, k) = i /\ Picked(s, I)[k] = s[i]
<1>1. PICK k \in 1 .. Cardinality(I) : Nth(I, k) = i
  BY PickedKeeps, NthLists, Zenon
<1> QED
  BY <1>1, PickedKeeps, Zenon

\* The picked members are those of any other way to list the indices in order.
LEMMA PickedIs ==
  ASSUME NEW C, NEW s \in Seq(C), NEW I \in SUBSET DOMAIN s, NEW m \in Nat, NEW g, InOrder(I, m, g)
  PROVE  Picked(s, I) = [k \in 1 .. m |-> s[g[k]]]
<1>1. I \subseteq Nat
  BY PickedKeeps, Zenon
<1>2. Cardinality(I) = m /\ \A k \in 1 .. m : Nth(I, k) = g[k]
  BY <1>1, NthOnly, Zenon
<1> QED
  BY <1>2, Zenon DEF Picked

LEMMA PickedAll ==
  ASSUME NEW C, NEW s \in Seq(C)
  PROVE  Picked(s, DOMAIN s) = s
<1>1. PICK m \in Nat : m = Len(s) /\ DOMAIN s = 1 .. m
  BY LenProperties, Zenon
<1>2. PICK g : g = [k \in 1 .. m |-> k]
  BY Zenon
<1>3. InOrder(DOMAIN s, m, g)
  BY <1>1, <1>2, Zenon DEF InOrder
<1>4. Picked(s, DOMAIN s) = [k \in 1 .. m |-> s[g[k]]]
  BY <1>3, PickedIs
<1>5. s = [k \in 1 .. m |-> s[k]]
  BY <1>1, LenProperties, Zenon
<1> QED
  BY <1>2, <1>4, <1>5, Zenon

\* Picking twice is picking once.
LEMMA PickedTwice ==
  ASSUME NEW C, NEW s \in Seq(C), NEW I \in SUBSET DOMAIN s, NEW J \in SUBSET DOMAIN Picked(s, I),
         NEW H, H = {Nth(I, k) : k \in J}
  PROVE  H \in SUBSET I /\ Picked(Picked(s, I), J) = Picked(s, H)
<1>1. PICK t \in Seq(C) : t = Picked(s, I)
  BY PickedKeeps, Zenon
<1>2. PICK n \in Nat : n = Cardinality(I) /\ DOMAIN t = 1 .. n /\ \A k \in 1 .. n : Nth(I, k) \in I /\ t[k] = s[Nth(I, k)]
  BY <1>1, PickedKeeps
<1>3. \A k, l \in 1 .. n : k < l => Nth(I, k) < Nth(I, l)
  BY <1>2, PickedKeeps, NthLists, Zenon
<1>4. PICK m \in Nat : m = Cardinality(J) /\ \A k \in 1 .. m : Nth(J, k) \in J
  BY <1>1, PickedKeeps, Zenon
<1>5. /\ \A k, l \in 1 .. m : k < l => Nth(J, k) < Nth(J, l)
      /\ \A j \in J : \E k \in 1 .. m : Nth(J, k) = j
  BY <1>1, <1>4, PickedKeeps, NthLists, Zenon
<1>6. J \subseteq 1 .. n
  BY <1>1, <1>2, Zenon
<1>7. H \in SUBSET I
  BY <1>2, <1>6, Zenon
<1>8. PICK g : g = [k \in 1 .. m |-> Nth(I, Nth(J, k))]
  BY Zenon
<1>9. g \in [1 .. m -> H]
  BY <1>4, <1>8, Zenon
<1>10. ASSUME NEW k \in 1 .. m, NEW l \in 1 .. m, k < l PROVE g[k] < g[l]
  <2>1. PICK a \in 1 .. n, b \in 1 .. n : a = Nth(J, k) /\ b = Nth(J, l) /\ a < b
    BY <1>4, <1>5, <1>6, <1>10, Zenon
  <2> QED
    BY <1>3, <1>8, <2>1, Zenon
<1>11. ASSUME NEW i \in H PROVE \E k \in 1 .. m : g[k] = i
  <2>1. PICK j \in J : i = Nth(I, j)
    BY Zenon
  <2>2. PICK k \in 1 .. m : Nth(J, k) = j
    BY <1>5, Zenon
  <2> QED
    BY <1>8, <2>1, <2>2, Zenon
<1>12. H \in SUBSET DOMAIN s
  BY <1>7, Zenon
<1>13. Picked(s, H) = [k \in 1 .. m |-> s[g[k]]]
  <2>1. InOrder(H, m, g)
    BY <1>9, <1>10, <1>11, Zenon DEF InOrder
  <2>2. H \subseteq Nat
    BY <1>12, PickedKeeps, Zenon
  <2>3. PICK K : K = H
    BY Zenon
  <2>4. InOrder(K, m, g) /\ K \subseteq Nat
    BY <2>1, <2>2, <2>3, Zenon
  <2>5. Cardinality(K) = m /\ \A k \in 1 .. m : Nth(K, k) = g[k]
    BY <2>4, NthOnly, Zenon
  <2> QED
    BY <2>3, <2>5, Zenon DEF Picked
<1>14. Picked(t, J) = [k \in 1 .. m |-> t[Nth(J, k)]]
  BY <1>4, Zenon DEF Picked
<1>15. ASSUME NEW k \in 1 .. m PROVE t[Nth(J, k)] = s[g[k]]
  <2>1. PICK a \in 1 .. n : a = Nth(J, k)
    BY <1>4, <1>6, Zenon
  <2> QED
    BY <1>2, <1>8, <2>1, Zenon
<1> QED
  BY <1>1, <1>7, <1>13, <1>14, <1>15, Zenon

\* t is s without some of its hyphens.
Thins(s, t) == \E I \in SUBSET DOMAIN s : t = Picked(s, I) /\ \A i \in DOMAIN s : s[i] # "-" => i \in I

LEMMA ThinsSame ==
  ASSUME NEW C, NEW s \in Seq(C) PROVE Thins(s, s)
<1>1. DOMAIN s \in SUBSET DOMAIN s /\ s = Picked(s, DOMAIN s)
  BY PickedAll, Zenon
<1> QED
  BY <1>1, Zenon DEF Thins

LEMMA ThinsOn ==
  ASSUME NEW C, NEW s \in Seq(C), NEW t, NEW u, Thins(s, t), Thins(t, u)
  PROVE  Thins(s, u)
<1>1. PICK I \in SUBSET DOMAIN s : t = Picked(s, I) /\ \A i \in DOMAIN s : s[i] # "-" => i \in I
  BY Zenon DEF Thins
<1>2. PICK J \in SUBSET DOMAIN t : u = Picked(t, J) /\ \A i \in DOMAIN t : t[i] # "-" => i \in J
  BY Zenon DEF Thins
<1>3. PICK H : H = {Nth(I, k) : k \in J}
  BY Zenon
<1>4. H \in SUBSET I /\ Picked(t, J) = Picked(s, H)
  BY <1>1, <1>2, <1>3, PickedTwice
<1>5. ASSUME NEW i \in DOMAIN s, s[i] # "-" PROVE i \in H
  <2>1. i \in I
    BY <1>1, <1>5, Zenon
  <2>2. PICK k \in DOMAIN t : Nth(I, k) = i /\ t[k] = s[i]
    BY <1>1, <2>1, PickedAt, Zenon
  <2>3. k \in J
    BY <1>2, <1>5, <2>2, Zenon
  <2> QED
    BY <1>3, <2>2, <2>3, Zenon
<1>6. H \in SUBSET DOMAIN s /\ u = Picked(s, H)
  BY <1>2, <1>4, Zenon
<1> QED
  BY <1>5, <1>6, Zenon DEF Thins

\* A name that loses hyphens keeps its letters.
LEMMA ThinsLetters ==
  ASSUME NEW C, NEW s \in Seq(C), NEW t, Thins(s, t)
  PROVE  t \in Seq(C) /\ Letters(t) = Letters(s)
<1>1. PICK I \in SUBSET DOMAIN s : t = Picked(s, I) /\ \A i \in DOMAIN s : s[i] # "-" => i \in I
  BY Zenon DEF Thins
<1>2. PICK J \in SUBSET DOMAIN t : J = {k \in DOMAIN t : t[k] \notin {"-", "."}}
  BY Zenon
<1>3. PICK H : H = {Nth(I, k) : k \in J}
  BY Zenon
<1>4. H \in SUBSET I /\ Picked(t, J) = Picked(s, H)
  <2>1. J \in SUBSET DOMAIN Picked(s, I)
    BY <1>1, Zenon
  <2>2. H \in SUBSET I /\ Picked(Picked(s, I), J) = Picked(s, H)
    BY <1>3, <2>1, PickedTwice
  <2> QED
    BY <1>1, <2>2, Zenon
<1>5. PICK L : L = {i \in DOMAIN s : s[i] \notin {"-", "."}}
  BY Zenon
<1>6. ASSUME NEW i \in H PROVE i \in L
  <2>1. PICK k \in J : i = Nth(I, k)
    BY <1>3, Zenon
  <2>2. t[k] = s[i] /\ i \in DOMAIN s
    BY <1>1, <1>2, <2>1, PickedKeeps
  <2> QED
    BY <1>2, <1>5, <2>2, Zenon
<1>7. ASSUME NEW i \in L PROVE i \in H
  <2>1. i \in I
    BY <1>1, <1>5, Zenon
  <2>2. PICK k \in DOMAIN t : Nth(I, k) = i /\ t[k] = s[i]
    BY <1>1, <2>1, PickedAt, Zenon
  <2> QED
    BY <1>2, <1>3, <1>5, <2>2, Zenon
<1>8. L = H
  BY <1>6, <1>7, Zenon
<1>9. Letters(t) = Picked(t, J) /\ Letters(s) = Picked(s, L)
  BY <1>2, <1>5, Zenon DEF Letters
<1>10. t \in Seq(C)
  BY <1>1, PickedKeeps, Zenon
<1> QED
  BY <1>4, <1>8, <1>9, <1>10, Zenon
LEMMA GreatestIndex ==
  ASSUME NEW S, S \subseteq Nat, S # {}, NEW n \in Nat, \A i \in S : i <= n
  PROVE  Max(S) \in S /\ \A i \in S : i <= Max(S)
<1>1. PICK T : T = {k \in Nat : \A j \in S : j <= k}
  BY Zenon
<1>2. n \in T /\ T \subseteq Nat
  BY <1>1, Zenon
<1>3. PICK x \in T : \A y \in T : x <= y
  BY <1>2, LeastNumber, Zenon
<1>4. x \in Nat /\ \A j \in S : j <= x
  BY <1>1, Zenon
<1>5. ASSUME x \notin S PROVE FALSE
  <2>1. \A j \in S : j \in Nat /\ j < x
    BY <1>4, <1>5
  <2>2. x - 1 \in Nat /\ \A j \in S : j <= x - 1
    <3>1. PICK i \in S : i \in Nat /\ i < x
      BY <2>1, Zenon
    <3>2. x - 1 \in Nat
      BY <1>4, <3>1
    <3> QED
      BY <1>4, <2>1, <3>2
  <2>3. x - 1 \in T
    BY <1>1, <2>2, Zenon
  <2> QED
    BY <1>3, <1>4, <2>3
<1>6. \E y \in S : \A z \in S : y >= z
  BY <1>4, <1>5, Zenon
<1>7. PICK m : m = Max(S)
  BY Zenon
<1>8. m \in S /\ \A z \in S : m >= z
  BY <1>6, <1>7, Zenon DEF Max
<1> QED
  BY <1>7, <1>8, Zenon

\* The last character before i that is not a hyphen.
LastBefore(s, i) == Max({0} \cup {j \in 1 .. i - 1 : s[j] # "-"})

LEMMA LastIs ==
  ASSUME NEW s, NEW i \in Nat \ {0}
  PROVE  /\ LastBefore(s, i) \in 0 .. i - 1
         /\ i = 1 \/ s[i - 1] # "-" => LastBefore(s, i) = i - 1
         /\ s[i] = "-" => LastBefore(s, i + 1) = LastBefore(s, i)
<1>1. PICK S : S = {0} \cup {j \in 1 .. i - 1 : s[j] # "-"}
  BY Zenon
<1>2. S \subseteq Nat /\ 0 \in S /\ (\A j \in S : j <= i - 1) /\ i - 1 \in Nat
  BY <1>1
<1>3. PICK m : m = Max(S)
  BY Zenon
<1>4. m \in S /\ \A j \in S : j <= m
  BY <1>2, <1>3, GreatestIndex, Zenon
<1>5. LastBefore(s, i) = m
  BY <1>1, <1>3, Zenon DEF LastBefore
<1>6. ASSUME i = 1 \/ s[i - 1] # "-" PROVE m = i - 1
  <2>1. i - 1 \in S
    BY <1>1, <1>6
  <2> QED
    BY <1>2, <1>4, <2>1
<1>7. ASSUME s[i] = "-" PROVE LastBefore(s, i + 1) = m
  <2>1. {0} \cup {j \in 1 .. (i + 1) - 1 : s[j] # "-"} = S
    BY <1>1, <1>7
  <2> QED
    BY <1>3, <2>1, Zenon DEF LastBefore
<1> QED
  BY <1>2, <1>4, <1>5, <1>6, <1>7

HasPairs(s) == \E i \in 1 .. Len(s) - 1 : s[i] = "-" /\ s[i + 1] = "-"

\* One turn of the loop drops hyphens only, drops one while there are pairs, and
\* drops none when there are no pairs.
LEMMA PairsGo ==
  ASSUME NEW C, NEW s \in Seq(C)
  PROVE  /\ Thins(s, ReplacePairs(s))
         /\ HasPairs(s) => Len(ReplacePairs(s)) < Len(s)
         /\ ~HasPairs(s) => ReplacePairs(s) = s
<1>1. PICK I \in SUBSET DOMAIN s : I = {i \in DOMAIN s : s[i] = "-" => (i - LastBefore(s, i)) % 2 = 1}
  BY Zenon
<1>2. ReplacePairs(s) = Picked(s, I)
  BY <1>1, Zenon DEF ReplacePairs, LastBefore
<1>3. PICK n \in Nat : n = Len(s) /\ DOMAIN s = 1 .. n
  BY LenProperties, Zenon
<1>4. \A i \in DOMAIN s : s[i] # "-" => i \in I
  BY <1>1, Zenon
<1>5. Thins(s, ReplacePairs(s))
  BY <1>2, <1>4, Zenon DEF Thins
<1>6. ASSUME HasPairs(s) PROVE Len(ReplacePairs(s)) < Len(s)
  <2>1. PICK i \in 1 .. n - 1 : s[i] = "-" /\ s[i + 1] = "-"
    BY <1>3, <1>6, Zenon DEF HasPairs
  <2>2. PICK m \in 0 .. i - 1 : m = LastBefore(s, i) /\ m = LastBefore(s, i + 1)
    BY <2>1, LastIs
  <2>3. PICK x \in Nat : x = i - m /\ x + 1 = (i + 1) - m
    BY <2>2
  <2>4. ~(x % 2 = 1 /\ (x + 1) % 2 = 1)
    OBVIOUS
  <2>5. i \in DOMAIN s /\ i + 1 \in DOMAIN s
    BY <1>3
  <2>6. i \notin I \/ i + 1 \notin I
    BY <1>1, <2>1, <2>2, <2>3, <2>4, <2>5, Zenon
  <2>7. I # DOMAIN s
    BY <2>5, <2>6, Zenon
  <2>8. IsFiniteSet(1 .. n) /\ Cardinality(1 .. n) = n
    BY FS_Interval
  <2>9. Cardinality(I) <= n /\ n # Cardinality(I) /\ Cardinality(I) \in Nat
    BY <1>3, <2>7, <2>8, FS_Subset, FS_CardinalityType
  <2> QED
    BY <1>2, <1>3, <2>9, PickedKeeps
<1>7. ASSUME ~HasPairs(s) PROVE ReplacePairs(s) = s
  <2>1. ASSUME NEW i \in DOMAIN s PROVE i \in I
    <3>1. CASE s[i] # "-"
      BY <1>4, <3>1, Zenon
    <3>2. CASE s[i] = "-"
      <4>1. i = 1 \/ s[i - 1] # "-"
        <5>1. ASSUME i # 1 PROVE i - 1 \in 1 .. n - 1 /\ (i - 1) + 1 = i
          BY <1>3, <5>1
        <5> QED
          BY <1>3, <1>7, <3>2, <5>1, Zenon DEF HasPairs
      <4>2. LastBefore(s, i) = i - 1
        BY <1>3, <4>1, LastIs
      <4>3. (i - (i - 1)) % 2 = 1
        BY <1>3
      <4> QED
        BY <1>1, <4>2, <4>3, Zenon
    <3> QED
      BY <3>1, <3>2, Zenon
  <2>2. I = DOMAIN s
    BY <2>1, Zenon
  <2> QED
    BY <1>2, <2>2, PickedAll, Zenon
<1> QED
  BY <1>5, <1>6, <1>7, Zenon

\* The loop: it drops hyphens only, and leaves no pair.
LEMMA Collapses ==
  ASSUME NEW C, NEW s \in Seq(C)
  PROVE  Thins(s, Collapse(s)) /\ ~HasPairs(Collapse(s)) /\ (~HasPairs(s) => Collapse(s) = s)
<1>0. PICK S : S = Seq(C)
  BY Zenon
<1> DEFINE Turns(g) == g = [n \in 0 .. Len(s) |-> IF n = 0 THEN s ELSE ReplacePairs(g[n - 1])]
<1>1. PICK m \in Nat : m = Len(s)
  OBVIOUS
<1>2. \A v \in S : ReplacePairs(v) \in S
  BY <1>0, PairsGo, ThinsLetters, Zenon
<1>3. PICK d : d = [p \in (1 .. m) \X S |-> ReplacePairs(p[2])]
  BY Zenon
<1>4. Loop(S, m, d) /\ \A n \in 1 .. m : \A v \in S : d[<<n, v>>] = ReplacePairs(v)
  BY <1>2, <1>3, Zenon DEF Loop
<1>5. s \in S
  BY <1>0, Zenon
<1>6. PICK g : LoopRuns(S, s, m, d, g)
  BY <1>4, <1>5, Iterates, Zenon
<1>7. g = [n \in 0 .. m |-> g[n]] /\ g[0] = s
  BY <1>6, Zenon DEF LoopRuns
<1>8. ASSUME NEW n \in 1 .. m PROVE g[n] = ReplacePairs(g[n - 1])
  <2>1. g[n - 1] \in S /\ g[n] = d[<<n, g[n - 1]>>]
    BY <1>6 DEF LoopRuns
  <2> QED
    BY <1>4, <2>1, Zenon
<1>9. Turns(g)
  <2>1. ASSUME NEW n \in 0 .. m PROVE g[n] = IF n = 0 THEN s ELSE ReplacePairs(g[n - 1])
    <3>1. n = 0 \/ n \in 1 .. m
      OBVIOUS
    <3>2. g[0] = s
      BY <1>7, Zenon
    <3> QED
      BY <1>8, <3>1, <3>2, Zenon
  <2> QED
    BY <1>1, <1>7, <2>1, Zenon
<1>10. PICK f : f = CHOOSE h : Turns(h)
  BY Zenon
<1>11. Turns(f)
  <2> HIDE DEF Turns
  <2> QED
    BY <1>9, <1>10, Zenon
<1>12. Collapse(s) = f[m]
  BY <1>1, <1>10, Zenon DEF Collapse
<1>13. f[0] = s /\ \A n \in 1 .. m : f[n] = ReplacePairs(f[n - 1])
  BY <1>1, <1>11
<1> DEFINE Good(n) == /\ Thins(s, f[n]) /\ f[n] \in S
                      /\ HasPairs(f[n]) => Len(f[n]) <= m - n
                      /\ ~HasPairs(s) => f[n] = s
           K == {n \in Nat : n <= m => Good(n)}
<1>14. 0 \in K
  <2>1. Thins(s, s)
    BY ThinsSame, Zenon
  <2> QED
    BY <1>1, <1>5, <1>13, <2>1
<1>15. ASSUME NEW n \in K PROVE n + 1 \in K
  <2> SUFFICES ASSUME n + 1 <= m PROVE Good(n + 1)
    OBVIOUS
  <2>1. n \in Nat /\ Good(n)
    OBVIOUS
  <2>2. PICK v \in S : v = f[n] /\ f[n + 1] = ReplacePairs(v)
    BY <1>13, <2>1
  <2>3. PICK w : w = ReplacePairs(v) /\ w = f[n + 1]
    BY <2>2, Zenon
  <2>4. /\ Thins(v, w) /\ (HasPairs(v) => Len(w) < Len(v)) /\ (~HasPairs(v) => w = v)
    BY <1>0, <2>3, PairsGo, Zenon
  <2>5. Thins(s, w)
    BY <2>1, <2>2, <2>4, ThinsOn, Zenon
  <2>6. w \in S
    BY <1>2, <2>3, Zenon
  <2>7. HasPairs(w) => Len(w) <= m - (n + 1)
    <3>1. Len(w) \in Nat /\ Len(v) \in Nat
      BY <1>0, <2>6
    <3>2. HasPairs(v) => Len(v) <= m - n
      BY <2>1, <2>2, Zenon
    <3> QED
      BY <2>1, <2>4, <3>1, <3>2
  <2>8. ~HasPairs(s) => w = s
    BY <2>1, <2>2, <2>4, Zenon
  <2> QED
    BY <2>3, <2>5, <2>6, <2>7, <2>8, Zenon
<1>16. m \in K
  <2>1. K \subseteq Nat
    BY Zenon
  <2> HIDE DEF K
  <2> QED
    BY <1>14, <1>15, <2>1, Inductive, Zenon
<1>17. Good(m)
  BY <1>16
<1>18. ~HasPairs(f[m])
  <2>1. PICK u \in Seq(C) : u = f[m] /\ (HasPairs(u) => Len(u) <= 0)
    BY <1>0, <1>17
  <2>2. Len(u) <= 0 => ~HasPairs(u)
    BY DEF HasPairs
  <2> QED
    BY <2>1, <2>2, Zenon
<1> QED
  BY <1>12, <1>17, <1>18, Zenon

\* No hyphen at either end.
Bare(s) == s = <<>> \/ (s[1] # "-" /\ s[Len(s)] # "-")

LEMMA Trims ==
  ASSUME NEW C, NEW s \in Seq(C), NEW t, t = Trim(s)
  PROVE  Thins(s, t) /\ Bare(t) /\ (~HasPairs(s) => ~HasPairs(t)) /\ (Bare(s) => t = s)
<1>1. PICK n \in Nat : n = Len(s) /\ DOMAIN s = 1 .. n
  BY LenProperties, Zenon
<1>2. PICK kept : kept = {i \in 1 .. n : s[i] # "-"}
  BY Zenon
<1>3. t = IF kept = {} THEN <<>> ELSE SubSeq(s, Min(kept), Max(kept))
  BY <1>1, <1>2, Zenon DEF Trim
<1>4. CASE kept = {}
  <2>1. t = <<>>
    BY <1>3, <1>4, Zenon
  <2>2. Cardinality({}) = 0 /\ {} \in SUBSET DOMAIN s
    BY FS_EmptySet, Zenon
  <2>3. Picked(s, {}) = <<>>
    <3>1. Picked(s, {}) = [k \in 1 .. 0 |-> s[Nth({}, k)]]
      BY <2>2, Zenon DEF Picked
    <3> QED
      BY <3>1
  <2>4. \A i \in DOMAIN s : s[i] # "-" => i \in {}
    BY <1>1, <1>2, <1>4, Zenon
  <2>5. Thins(s, t)
    BY <2>1, <2>2, <2>3, <2>4, Zenon DEF Thins
  <2>6. Bare(t) /\ ~HasPairs(t)
    BY <2>1 DEF Bare, HasPairs
  <2>7. ASSUME Bare(s) PROVE t = s
    <3>1. s = <<>> \/ s[1] # "-"
      BY <2>7, Zenon DEF Bare
    <3>2. s # <<>> => 1 \in 1 .. n
      BY <1>1, EmptySeq
    <3> QED
      BY <1>2, <1>4, <2>1, <3>1, <3>2, Zenon
  <2> QED
    BY <2>5, <2>6, <2>7, Zenon
<1>5. CASE kept # {}
  <2>1. kept \subseteq Nat /\ \A i \in kept : i <= n
    BY <1>2
  <2>2. PICK a \in kept : a = Min(kept) /\ \A i \in kept : a <= i
    BY <1>5, <2>1, LeastIndex, Zenon
  <2>3. PICK b \in kept : b = Max(kept) /\ \A i \in kept : i <= b
    BY <1>5, <2>1, GreatestIndex, Zenon
  <2>4. a \in 1 .. n /\ b \in 1 .. n /\ a <= b /\ s[a] # "-" /\ s[b] # "-"
    BY <1>2, <2>2, Zenon
  <2>5. PICK m \in Nat : m = b - a + 1 /\ m > 0
    BY <2>4
  <2>6. t = SubSeq(s, a, b)
    BY <1>3, <1>5, <2>2, <2>3, Zenon
  <2>7. t = [k \in 1 .. m |-> s[a + k - 1]]
    <3>1. \A i \in a .. b : s[i] \in C
      BY <1>1, <2>4, ElementOfSeq
    <3>2. t \in Seq(C) /\ Len(t) = m /\ \A k \in 1 .. m : t[k] = s[a + k - 1]
      BY <1>1, <2>4, <2>5, <2>6, <3>1, SubSeqProperties
    <3>3. t = [k \in 1 .. m |-> t[k]]
      BY <3>2, LenProperties, Zenon
    <3> QED
      BY <3>2, <3>3, Zenon
  <2>8. PICK R \in SUBSET DOMAIN s : R = a .. b
    BY <1>1, <2>4
  <2>9. PICK g : g = [k \in 1 .. m |-> a + k - 1]
    BY Zenon
  <2>10. InOrder(R, m, g)
    <3>1. g \in [1 .. m -> a .. b] /\ \A k, l \in 1 .. m : k < l => g[k] < g[l]
      BY <2>4, <2>5, <2>9
    <3>2. ASSUME NEW i \in a .. b PROVE \E k \in 1 .. m : g[k] = i
      <4>1. PICK k \in 1 .. m : k = i - a + 1
        BY <2>4, <2>5
      <4>2. a + k - 1 = i
        BY <2>4, <4>1
      <4> QED
        BY <2>9, <4>2, Zenon
    <3> QED
      BY <2>8, <3>1, <3>2, Zenon DEF InOrder
  <2>11. t = Picked(s, R)
    <3>1. Picked(s, R) = [k \in 1 .. m |-> s[g[k]]]
      BY <2>10, PickedIs
    <3> QED
      BY <2>7, <2>9, <3>1, Zenon
  <2>12. \A i \in DOMAIN s : s[i] # "-" => i \in R
    BY <1>1, <1>2, <2>2, <2>3, <2>4, <2>8
  <2>13. Thins(s, t)
    BY <2>11, <2>12, Zenon DEF Thins
  <2>14. t \in Seq(C) /\ Len(t) = m
    <3>1. t \in Seq(C)
      BY <2>13, ThinsLetters, Zenon
    <3> QED
      BY <2>7, <3>1
  <2>15. Bare(t)
    <3>1. a + 1 - 1 = a /\ a + m - 1 = b /\ 1 \in 1 .. m /\ m \in 1 .. m
      BY <2>4, <2>5
    <3>2. t[1] = s[a] /\ t[m] = s[b]
      BY <2>7, <3>1, Zenon
    <3> QED
      BY <2>4, <2>14, <3>2, Zenon DEF Bare
  <2>16. ASSUME HasPairs(t) PROVE HasPairs(s)
    <3>1. PICK k \in 1 .. m - 1 : t[k] = "-" /\ t[k + 1] = "-"
      BY <2>14, <2>16, Zenon DEF HasPairs
    <3>2. PICK i \in 1 .. n - 1 : i = a + k - 1 /\ i + 1 = a + (k + 1) - 1
      BY <2>4, <2>5
    <3>3. t[k] = s[i] /\ t[k + 1] = s[i + 1]
      BY <2>5, <2>7, <3>2
    <3> QED
      BY <1>1, <3>1, <3>3, Zenon DEF HasPairs
  <2>17. ASSUME Bare(s) PROVE t = s
    <3>1. s # <<>>
      BY <1>1, <2>4
    <3>2. s[1] # "-" /\ s[n] # "-"
      BY <1>1, <2>17, <3>1, Zenon DEF Bare
    <3>3. 1 \in kept /\ n \in kept
      BY <1>2, <2>4, <3>2
    <3>4. a = 1 /\ b = n
      BY <2>2, <2>3, <2>4, <3>3
    <3>5. R = DOMAIN s
      BY <1>1, <2>8, <3>4, Zenon
    <3> QED
      BY <2>11, <3>5, PickedAll, Zenon
  <2> QED
    BY <2>13, <2>15, <2>16, <2>17, Zenon
<1> QED
  BY <1>4, <1>5, Zenon

LEMMA Hyphens ==
  ASSUME NEW C, "-" \in C, NEW s \in Seq(C), NEW h, h = Hyphened(s)
  PROVE  h \in Seq(C \ {"."}) /\ Letters(h) = Letters(s)
<1>1. PICK n \in Nat : n = Len(s) /\ DOMAIN s = 1 .. n
  BY LenProperties, Zenon
<1>2. h = [i \in 1 .. n |-> IF s[i] = "." THEN "-" ELSE s[i]]
  BY <1>1, Zenon DEF Hyphened
<1>3. \A i \in 1 .. n : s[i] \in C
  BY <1>1, ElementOfSeq, Zenon
<1>4. \A i \in 1 .. n : h[i] \in C \ {"."}
  BY <1>2, <1>3, Zenon
<1>5. h \in Seq(C \ {"."}) /\ DOMAIN h = 1 .. n
  BY <1>2, <1>4
<1>6. PICK I : I = {i \in 1 .. n : s[i] \notin {"-", "."}}
  BY Zenon
<1>7. I = {i \in 1 .. n : h[i] \notin {"-", "."}}
  BY <1>2, <1>6, Zenon
<1>8. Letters(s) = Picked(s, I) /\ Letters(h) = Picked(h, I)
  BY <1>1, <1>5, <1>6, <1>7, Zenon DEF Letters
<1>9. I \in SUBSET DOMAIN s
  BY <1>1, <1>6, Zenon
<1>10. PICK m : m = Cardinality(I) /\ \A k \in 1 .. m : Nth(I, k) \in I
  BY <1>9, PickedKeeps, Zenon
<1>11. ASSUME NEW k \in 1 .. m PROVE s[Nth(I, k)] = h[Nth(I, k)]
  <2>1. PICK i \in I : i = Nth(I, k)
    BY <1>10, Zenon
  <2>2. s[i] = h[i]
    BY <1>2, <1>6, Zenon
  <2> QED
    BY <2>1, <2>2, Zenon
<1>12. Picked(s, I) = Picked(h, I)
  BY <1>10, <1>11, Zenon DEF Picked
<1> QED
  BY <1>5, <1>8, <1>12, Zenon

\* Sanitize leaves a name it leaves alone the second time, without dots and
\* with its letters.
LEMMA Sanitizes ==
  ASSUME NEW C, "-" \in C, NEW s \in Seq(C), NEW a, a = Sanitize(s)
  PROVE  a \in Seq(C \ {"."}) /\ Letters(a) = Letters(s) /\ Sanitize(a) = a
<1>1. PICK D : D = C \ {"."}
  BY Zenon
<1>2. PICK h \in Seq(D) : h = Hyphened(s) /\ Letters(h) = Letters(s)
  BY <1>1, Hyphens, Zenon
<1>3. PICK c : c = Collapse(h)
  BY Zenon
<1>4. Thins(h, c) /\ ~HasPairs(c)
  BY <1>3, Collapses, Zenon
<1>5. c \in Seq(D) /\ Letters(c) = Letters(h)
  BY <1>4, ThinsLetters, Zenon
<1>6. a = Trim(c)
  BY <1>2, <1>3, Zenon DEF Sanitize
<1>7. Thins(c, a) /\ Bare(a) /\ ~HasPairs(a)
  BY <1>4, <1>5, <1>6, Trims, Zenon
<1>8. a \in Seq(D) /\ Letters(a) = Letters(c)
  BY <1>5, <1>7, ThinsLetters, Zenon
<1>9. Hyphened(a) = a
  <2>1. PICK n \in Nat : DOMAIN a = 1 .. n /\ a = [i \in 1 .. n |-> a[i]]
    BY <1>8, LenProperties, Zenon
  <2>2. \A i \in 1 .. n : a[i] # "."
    BY <1>1, <1>8, <2>1, ElementOfSeq
  <2>3. Hyphened(a) = [i \in 1 .. n |-> IF a[i] = "." THEN "-" ELSE a[i]]
    BY <2>1, Zenon DEF Hyphened
  <2>4. \A i \in 1 .. n : (IF a[i] = "." THEN "-" ELSE a[i]) = a[i]
    BY <2>2, Zenon
  <2> QED
    BY <2>1, <2>3, <2>4, Zenon
<1>10. Collapse(a) = a
  BY <1>7, <1>8, Collapses, Zenon
<1>11. Trim(a) = a
  BY <1>7, <1>8, Trims, Zenon
<1>12. Sanitize(a) = a
  BY <1>9, <1>10, <1>11, Zenon DEF Sanitize
<1> QED
  BY <1>1, <1>2, <1>5, <1>8, <1>12, Zenon
----------------------------------------------------------------------------
(* The prefix of a branch name                                             *)

\* A branch name begins with the feature and an agent name, each with its slash,
\* just when it is of an agent of that name.
LEMMA Prefixes ==
  ASSUME NEW C, "/" \in C, NEW f \in Seq(C), NEW a \in Seq(C), NEW c \in Seq(C), NEW id \in Seq(C),
         Slashes(a) = {}, Slashes(c) = {}
  PROVE  HasPrefix(String(f, c, id), String(f, a, <<>>)) <=> c = a
<1>1. PICK p \in Nat, q \in Nat, k \in Nat, n \in Nat : p = Len(f) /\ q = Len(a) /\ k = Len(c) /\ n = Len(id)
  BY LenProperties, Zenon
<1>2. PICK b \in Nat, d \in Nat, e \in Nat : b = p + 1 /\ d = b + q + 1 /\ e = b + k + 1
  OBVIOUS
<1>3. PICK g \in Seq(C) : g = <<>> /\ Len(g) = 0
  BY EmptySeq, Zenon
<1>4. PICK r, s : r = String(f, c, id) /\ s = String(f, a, g)
  BY Zenon
<1>5. /\ r \in Seq(C) /\ Len(r) = e + n /\ r[b] = "/" /\ r[e] = "/"
      /\ (\A i \in 1 .. p : r[i] = f[i]) /\ (\A i \in 1 .. k : r[b + i] = c[i])
  <2>1. Parted(C, r, f, c, id, b, e)
    <3>1. b = Len(f) + 1 /\ e = b + Len(c) + 1
      BY <1>1, <1>2, Zenon
    <3> QED
      BY <1>4, <3>1, Characters, Zenon
  <2> QED
    BY <1>1, <2>1, Zenon DEF Parted
<1>6. /\ s \in Seq(C) /\ Len(s) = d /\ s[b] = "/" /\ s[d] = "/"
      /\ (\A i \in 1 .. p : s[i] = f[i]) /\ (\A i \in 1 .. q : s[b + i] = a[i])
  <2>1. Parted(C, s, f, a, g, b, d)
    <3>1. b = Len(f) + 1 /\ d = b + Len(a) + 1
      BY <1>1, <1>2, Zenon
    <3> QED
      BY <1>4, <3>1, Characters, Zenon
  <2>2. d + 0 = d
    OBVIOUS
  <2> QED
    BY <1>1, <1>3, <2>1, <2>2, Zenon DEF Parted
<1>7. DOMAIN s = 1 .. d
  BY <1>6, LenProperties, Zenon
<1>8. (\A i \in 1 .. q : a[i] # "/") /\ (\A i \in 1 .. k : c[i] # "/")
  <2>1. DOMAIN a = 1 .. q /\ DOMAIN c = 1 .. k
    BY <1>1, LenProperties, Zenon
  <2> QED
    BY <2>1, Zenon DEF Slashes
<1>9. HasPrefix(r, s) <=> d <= e + n /\ \A i \in 1 .. d : r[i] = s[i]
  BY <1>5, <1>6, <1>7, Zenon DEF HasPrefix
<1>10. ASSUME c = a PROVE HasPrefix(r, s)
  <2>1. k = q /\ d = e /\ d <= e + n
    BY <1>1, <1>2, <1>10
  <2>2. ASSUME NEW i \in 1 .. d PROVE r[i] = s[i]
    <3>1. CASE i \in 1 .. p
      BY <1>5, <1>6, <3>1, Zenon
    <3>2. CASE i = b \/ i = d
      BY <1>5, <1>6, <2>1, <3>2, Zenon
    <3>3. CASE i \notin 1 .. p /\ i # b /\ i # d
      <4>1. PICK j \in 1 .. q : i = b + j
        <5>1. i - b \in 1 .. q /\ i = b + (i - b)
          BY <1>2, <3>3
        <5> QED
          BY <5>1, Zenon
      <4> QED
        BY <1>5, <1>6, <1>10, <2>1, <4>1, Zenon
    <3> QED
      BY <3>1, <3>2, <3>3, Zenon
  <2> QED
    BY <1>9, <2>1, <2>2, Zenon
<1>11. ASSUME HasPrefix(r, s) PROVE c = a
  <2>1. \A i \in 1 .. d : r[i] = s[i]
    BY <1>9, <1>11, Zenon
  <2>2. ASSUME k < q PROVE FALSE
    <3>1. k + 1 \in 1 .. q /\ e = b + (k + 1) /\ e \in 1 .. d
      BY <1>2, <2>2
    <3> QED
      BY <1>5, <1>6, <1>8, <2>1, <3>1, Zenon
  <2>3. ASSUME q < k PROVE FALSE
    <3>1. q + 1 \in 1 .. k /\ d = b + (q + 1) /\ d \in 1 .. d
      BY <1>2, <2>3
    <3>2. PICK j \in 1 .. k : j = q + 1 /\ d = b + j
      BY <3>1, Zenon
    <3>3. r[d] = c[j] /\ c[j] # "/"
      BY <1>5, <1>8, <3>2, Zenon
    <3> QED
      BY <1>6, <2>1, <3>1, <3>3, Zenon
  <2>4. k = q
    BY <2>2, <2>3
  <2>5. ASSUME NEW i \in 1 .. k PROVE c[i] = a[i]
    <3>1. b + i \in 1 .. d
      BY <1>2, <2>4
    <3> QED
      BY <1>5, <1>6, <2>1, <2>4, <3>1, Zenon
  <2> QED
    BY <1>1, <2>4, <2>5, SeqEqual, Zenon
<1> QED
  BY <1>3, <1>4, <1>10, <1>11, Zenon

Chars == STRING \cup {"-", "x", "/"}

\* The name in a branch: without a slash, and stable.
LEMMA CleanNames ==
  ASSUME NEW r \in RawNames, NEW a, a = Sanitize(r)
  PROVE  a \in Seq(Chars) /\ Slashes(a) = {} /\ Letters(a) = Letters(r) /\ Sanitize(a) = a
<1>1. PICK C, E : C = Chars \ {"/"} /\ E = STRING \ {"/"}
  BY Zenon
<1>2. "-" \in C /\ E \subseteq C
  BY <1>1, Zenon DEF Chars
<1>3. r \in Seq(E)
  BY <1>1, BranchAssumption, Zenon
<1>4. r \in Seq(C)
  BY <1>2, <1>3
<1>5. a \in Seq(C \ {"."}) /\ Letters(a) = Letters(r) /\ Sanitize(a) = a
  BY <1>2, <1>4, Sanitizes, Zenon
<1>6. a \in Seq(Chars)
  BY <1>1, <1>5
<1>7. \A i \in DOMAIN a : a[i] # "/"
  BY <1>1, <1>5, ElementOfSeq
<1> QED
  BY <1>5, <1>6, <1>7, Zenon DEF Slashes

\* The parts of a branch name besides the agent's.
LEMMA SessionIds ==
  ASSUME NEW n \in Nat \ {0}
  PROVE  feature \in Seq(Chars) /\ sessionID(n) \in Seq(Chars) /\ "/" \in Chars
         /\ feature # <<>> /\ sessionID(n) # <<>> /\ Slashes(feature) = {}
<1>1. "x" \in Chars /\ "/" \in Chars
  BY Zenon DEF Chars
<1>2. feature \in Seq(Chars) /\ feature # <<>> /\ Slashes(feature) = {}
  BY <1>1 DEF feature, Slashes
<1>3. sessionID(n) \in Seq(Chars) /\ Len(sessionID(n)) = n
  BY <1>1 DEF sessionID
<1>4. sessionID(n) # <<>>
  BY <1>3
<1> QED
  BY <1>1, <1>2, <1>3, <1>4, Zenon
----------------------------------------------------------------------------
(* The worker branches                                                     *)

\* The pushed attempts of agents of the same sanitized name as w's.
Pushed(w) == {b \in remote : b.agent = Sanitize(agentName[w])}

Known == made \cup {main}

\* A name New accepts, with a session id no attempt to come will have.
Named(b) == \E r \in RawNames, n \in 1 .. Cardinality(made) : b = Name(Sanitize(r), n) /\ Sanitize(r) # <<>>

\* HEAD and git's "-" are both on the attempt's branch, where it began or on a
\* stray one, and HEAD is on a branch that is there; what Abort has deleted stays
\* so since no later name is the same.
InPlace(w) ==
  /\ head[w] \in local[w]
  /\ {head[w], prev[w]} \subseteq {branch[w], base[w]} \cup stray[w]
  /\ w \in aborted => branch[w] \notin local[w]

\* A clone knows only of branches on the remote, so what Start counts was pushed;
\* the attempts made bound both.
BranchInv ==
  /\ agentName \in [Workers -> RawNames]
  /\ local \in [Workers -> SUBSET Known]
  /\ head \in [Workers -> Known] /\ prev \in [Workers -> Known] /\ branch \in [Workers -> Known]
  /\ remote \subseteq made /\ tracking \in [Workers -> SUBSET remote]
  /\ counted \in [Workers -> 0 .. Attempts]
  /\ base \in [Workers -> Known] /\ stray \in [Workers -> SUBSET made] /\ aborted \subseteq Workers
  /\ IsFiniteSet(made) /\ Cardinality(made) <= Attempts
  /\ \A b \in made : Named(b)
  /\ \A w \in Workers : counted[w] <= Cardinality(Pushed(w)) /\ InPlace(w)

\* What FindRetries finds by the prefix are the attempts of that sanitized name.
LEMMA RetriesFound ==
  ASSUME BranchInv, NEW w \in Workers
  PROVE  FindRetries(w) = {b \in tracking[w] : b.agent = Sanitize(agentName[w])}
<1>1. PICK a : a = Sanitize(agentName[w])
  BY Zenon
<1>2. a \in Seq(Chars) /\ Slashes(a) = {}
  BY <1>1, CleanNames, Zenon DEF BranchInv
<1>3. ASSUME NEW b \in tracking[w]
      PROVE  Parse(Ref(b)) # <<>> /\ (HasPrefix(Ref(b), String(feature, a, <<>>)) <=> b.agent = a)
  <2>1. PICK r \in RawNames, n \in 1 .. Cardinality(made) : b = Name(Sanitize(r), n) /\ Sanitize(r) # <<>>
    BY <1>3, Zenon DEF BranchInv, Named
  <2>2. PICK c : c = Sanitize(r)
    BY Zenon
  <2>3. b.agent = c /\ b.id = n
    BY <2>1, <2>2, Zenon DEF Name
  <2>4. c \in Seq(Chars) /\ Slashes(c) = {} /\ c # <<>>
    BY <2>1, <2>2, CleanNames, Zenon
  <2>5. n \in Nat \ {0}
    <3>1. Cardinality(made) \in Nat
      BY FS_CardinalityType, Zenon DEF BranchInv
    <3> QED
      BY <3>1
  <2>6. PICK id \in Seq(Chars) : id = sessionID(n) /\ id # <<>>
    BY <2>5, SessionIds, Zenon
  <2>7. feature \in Seq(Chars) /\ "/" \in Chars /\ feature # <<>> /\ Slashes(feature) = {}
    BY <2>5, SessionIds, Zenon
  <2>8. Ref(b) = String(feature, c, id)
    BY <2>3, <2>6, Zenon DEF Ref
  <2>9. Parse(Ref(b)) = <<feature, c, id>>
    BY <2>4, <2>6, <2>7, <2>8, ParseInverts, Zenon
  <2>10. <<feature, c, id>> # <<>>
    OBVIOUS
  <2>11. HasPrefix(String(feature, c, id), String(feature, a, <<>>)) <=> c = a
    BY <1>2, <2>4, <2>7, Prefixes, Zenon
  <2> QED
    BY <2>3, <2>8, <2>9, <2>10, <2>11, Zenon
<1>4. FindRetries(w) = {b \in tracking[w] : HasPrefix(Ref(b), String(feature, a, <<>>)) /\ Parse(Ref(b)) # <<>>}
  BY <1>1, Zenon DEF FindRetries
<1> QED
  BY <1>1, <1>3, <1>4, Zenon

\* What IsRetry counts are attempts that were pushed.
LEMMA Retries ==
  ASSUME BranchInv, NEW w \in Workers
  PROVE  IsRetry(w) \in 0 .. Attempts /\ IsRetry(w) <= Cardinality(Pushed(w))
<1>1. FindRetries(w) \subseteq Pushed(w) /\ Pushed(w) \subseteq made
  <2>1. tracking[w] \subseteq remote /\ remote \subseteq made
    BY Zenon DEF BranchInv
  <2> QED
    BY <2>1, RetriesFound, Zenon DEF Pushed
<1>2. IsFiniteSet(Pushed(w)) /\ Cardinality(Pushed(w)) <= Cardinality(made)
  BY <1>1, FS_Subset, Zenon DEF BranchInv
<1>3. IsFiniteSet(FindRetries(w)) /\ Cardinality(FindRetries(w)) <= Cardinality(Pushed(w))
  BY <1>1, <1>2, FS_Subset, Zenon
<1>4. Cardinality(FindRetries(w)) \in Nat /\ Cardinality(Pushed(w)) \in Nat /\ Cardinality(made) \in Nat
  BY <1>2, <1>3, FS_CardinalityType, Zenon DEF BranchInv
<1> QED
  BY <1>2, <1>3, <1>4, BranchAssumption DEF BranchInv, IsRetry

LEMMA BranchStart ==
  ASSUME BranchInv, NEW w \in Workers, Start(w) PROVE BranchInv'
<1>1. PICK b, n : n = Cardinality(made) + 1 /\ b = Name(Sanitize(agentName[w]), n)
  BY Zenon
<1>2. /\ made' = made \cup {b} /\ b.agent # <<>> /\ Cardinality(made) < Attempts
      /\ local' = [local EXCEPT ![w] = @ \cup {b}] /\ head' = [head EXCEPT ![w] = b]
      /\ prev' = [prev EXCEPT ![w] = head[w]]
      /\ counted' \in {counted, [counted EXCEPT ![w] = IsRetry(w)]}
      /\ UNCHANGED <<agentName, tracking, remote>>
  BY <1>1, Zenon DEF Start, SwitchTo
<1>3. \/ /\ branch' = [branch EXCEPT ![w] = b] /\ base' = [base EXCEPT ![w] = head[w]]
         /\ aborted' = aborted \ {w} /\ stray' = stray
      \/ /\ stray' = [stray EXCEPT ![w] = @ \cup {b}] /\ branch' = branch /\ base' = base /\ aborted' = aborted
  BY <1>1, Zenon DEF Start
<1>4. Known' = Known \cup {b}
  BY <1>2, Zenon DEF Known
<1>5. /\ local' \in [Workers -> SUBSET Known'] /\ head' \in [Workers -> Known'] /\ prev' \in [Workers -> Known']
      /\ branch' \in [Workers -> Known'] /\ base' \in [Workers -> Known']
      /\ stray' \in [Workers -> SUBSET made'] /\ aborted' \subseteq Workers
  <2>1. local' \in [Workers -> SUBSET Known'] /\ head' \in [Workers -> Known'] /\ prev' \in [Workers -> Known']
    BY <1>2, <1>4, Zenon DEF BranchInv
  <2>2. /\ branch' \in [Workers -> Known'] /\ base' \in [Workers -> Known']
        /\ stray' \in [Workers -> SUBSET made'] /\ aborted' \subseteq Workers
    <3>0. /\ branch \in [Workers -> Known] /\ base \in [Workers -> Known] /\ head[w] \in Known
          /\ stray \in [Workers -> SUBSET made] /\ aborted \subseteq Workers
      BY Zenon DEF BranchInv
    <3>1. CASE /\ branch' = [branch EXCEPT ![w] = b] /\ base' = [base EXCEPT ![w] = head[w]]
               /\ aborted' = aborted \ {w} /\ stray' = stray
      BY <1>2, <1>4, <3>0, <3>1, Zenon
    <3>2. CASE stray' = [stray EXCEPT ![w] = @ \cup {b}] /\ branch' = branch /\ base' = base /\ aborted' = aborted
      BY <1>2, <1>4, <3>0, <3>2, Zenon
    <3> QED
      BY <1>3, <3>1, <3>2, Zenon
  <2> QED
    BY <2>1, <2>2, Zenon
<1>6. IsFiniteSet(made) /\ Cardinality(made) \in Nat
  BY FS_CardinalityType, Zenon DEF BranchInv
<1>7. b \notin Known
  <2>1. b.id = n
    BY <1>1, Zenon DEF Name
  <2>2. ASSUME NEW c \in made PROVE c.id # n
    <3>1. PICK r \in RawNames, k \in 1 .. Cardinality(made) : c = Name(Sanitize(r), k)
      BY <2>2, Zenon DEF BranchInv, Named
    <3>2. c.id = k /\ k # n
      <4>1. c.id = k
        BY <3>1, Zenon DEF Name
      <4>2. k # n
        BY <1>1, <1>6
      <4> QED
        BY <4>1, <4>2, Zenon
    <3> QED
      BY <3>2, Zenon
  <2>3. main.id = 0 /\ n # 0
    <3>1. n # 0
      BY <1>1, <1>6
    <3> QED
      BY <3>1, Zenon DEF main, Name
  <2> QED
    BY <2>1, <2>2, <2>3, Zenon DEF Known
<1>8. IsFiniteSet(made') /\ Cardinality(made') = n /\ n \in Nat /\ n <= Attempts
  <2>1. IsFiniteSet(made') /\ Cardinality(made') = Cardinality(made) + 1
    BY <1>2, <1>6, <1>7, FS_AddElement, Zenon DEF Known
  <2> QED
    BY <1>1, <1>2, <1>6, <2>1, BranchAssumption
<1>9. ASSUME NEW c \in made' PROVE Named(c)'
  <2>1. PICK r \in RawNames, k \in 1 .. n : c = Name(Sanitize(r), k) /\ Sanitize(r) # <<>>
    <3>1. CASE c = b
      <4>1. agentName[w] \in RawNames /\ Sanitize(agentName[w]) # <<>>
        BY <1>1, <1>2, Zenon DEF BranchInv, Name
      <4>2. n \in 1 .. n
        BY <1>1, <1>6
      <4> QED
        BY <1>1, <3>1, <4>1, <4>2, Zenon
    <3>2. CASE c \in made
      <4>1. PICK r \in RawNames, k \in 1 .. Cardinality(made) : c = Name(Sanitize(r), k) /\ Sanitize(r) # <<>>
        BY <3>2, Zenon DEF BranchInv, Named
      <4>2. k \in 1 .. n
        BY <1>1, <1>6
      <4> QED
        BY <4>1, <4>2, Zenon
    <3> QED
      BY <1>2, <1>9, <3>1, <3>2, Zenon
  <2> QED
    BY <1>8, <2>1, Zenon DEF Named
<1>10. \A u \in Workers : Pushed(u)' = Pushed(u)
  BY <1>2, Zenon DEF Pushed
<1>11. counted' \in [Workers -> 0 .. Attempts] /\ \A u \in Workers : counted'[u] <= Cardinality(Pushed(u)')
  <2>1. PICK c \in 0 .. Attempts : c = IsRetry(w) /\ c <= Cardinality(Pushed(w))
    BY Retries, Zenon
  <2>2. /\ counted \in [Workers -> 0 .. Attempts] /\ \A u \in Workers : counted[u] <= Cardinality(Pushed(u))
        /\ counted' = counted \/ counted' = [counted EXCEPT ![w] = c]
    BY <1>2, <2>1, Zenon DEF BranchInv
  <2> QED
    BY ONLY <1>10, <2>1, <2>2, Zenon
<1>12. ASSUME NEW u \in Workers PROVE InPlace(u)'
  <2>0. /\ local \in [Workers -> SUBSET Known] /\ head \in [Workers -> Known] /\ prev \in [Workers -> Known]
        /\ branch \in [Workers -> Known] /\ base \in [Workers -> Known] /\ stray \in [Workers -> SUBSET made]
        /\ InPlace(u)
    BY Zenon DEF BranchInv
  <2>1. CASE u # w
    <3>1. /\ head'[u] = head[u] /\ prev'[u] = prev[u] /\ local'[u] = local[u]
      BY <1>2, <2>0, <2>1, Zenon
    <3>2. /\ branch'[u] = branch[u] /\ base'[u] = base[u] /\ stray'[u] = stray[u]
          /\ u \in aborted' <=> u \in aborted
      BY <1>3, <2>0, <2>1, Zenon
    <3> QED
      BY <2>0, <3>1, <3>2, Zenon DEF InPlace
  <2>2. CASE u = w
    <3>1. head'[w] = b /\ prev'[w] = head[w] /\ local'[w] = local[w] \cup {b}
      BY <1>2, <2>0, Zenon
    <3>2. CASE branch' = [branch EXCEPT ![w] = b] /\ base' = [base EXCEPT ![w] = head[w]] /\ aborted' = aborted \ {w}
      <4>1. branch'[w] = b /\ base'[w] = head[w] /\ w \notin aborted'
        BY <2>0, <3>2, Zenon
      <4> QED
        BY <2>2, <3>1, <4>1, Zenon DEF InPlace
    <3>3. CASE stray' = [stray EXCEPT ![w] = @ \cup {b}] /\ branch' = branch /\ base' = base /\ aborted' = aborted
      <4>1. stray'[w] = stray[w] \cup {b}
        BY <2>0, <3>3, Zenon
      <4>2. branch[w] # b
        BY <1>7, <2>0, Zenon
      <4> QED
        BY <2>0, <2>2, <3>1, <3>3, <4>1, <4>2, Zenon DEF InPlace
    <3> QED
      BY <1>3, <3>2, <3>3, Zenon
  <2> QED
    BY <2>1, <2>2, Zenon
<1>13. agentName' \in [Workers -> RawNames] /\ remote' \subseteq made' /\ tracking' \in [Workers -> SUBSET remote']
  BY <1>2, Zenon DEF BranchInv
<1>14. Cardinality(made') <= Attempts
  BY <1>8, Zenon
<1> QED
  BY <1>5, <1>8, <1>9, <1>11, <1>12, <1>13, <1>14, Zenon DEF BranchInv

LEMMA BranchAbort ==
  ASSUME BranchInv, NEW w \in Workers, Abort(w) PROVE BranchInv'
<1>0. /\ local \in [Workers -> SUBSET Known] /\ head \in [Workers -> Known] /\ prev \in [Workers -> Known]
      /\ aborted \subseteq Workers /\ \A u \in Workers : InPlace(u)
  BY Zenon DEF BranchInv
<1>1. /\ \A u \in Workers \ {w} : head'[u] = head[u] /\ prev'[u] = prev[u]
      /\ head' \in [Workers -> Known] /\ prev' \in [Workers -> Known] /\ head'[w] \in local[w]
      /\ {head'[w], prev'[w]} \subseteq {head[w], prev[w]}
  <2>1. CASE UNCHANGED <<head, prev>>
    BY <1>0, <2>1, Zenon DEF InPlace
  <2>2. CASE prev[w] \in local[w] /\ head' = [head EXCEPT ![w] = prev[w]] /\ prev' = [prev EXCEPT ![w] = head[w]]
    BY <1>0, <2>2, Zenon
  <2> QED
    BY <2>1, <2>2, Zenon DEF Abort, CheckoutPrev, SwitchTo
<1>2. UNCHANGED <<agentName, made, tracking, branch, remote, counted, base, stray>>
  BY Zenon DEF Abort
<1>3. /\ \A u \in Workers \ {w} : local'[u] = local[u] /\ (u \in aborted' <=> u \in aborted)
      /\ local' \in [Workers -> SUBSET Known] /\ aborted' \subseteq Workers
      /\ local'[w] \subseteq local[w] /\ head'[w] \in local'[w]
      /\ w \in aborted' => branch[w] \notin local'[w]
  <2>1. CASE UNCHANGED <<local, aborted>>
    BY <1>0, <1>1, <2>1, Zenon DEF InPlace
  <2>2. CASE /\ branch[w] \in local[w] \ {head'[w]}
             /\ local' = [local EXCEPT ![w] = @ \ {branch[w]}]
             /\ aborted' \in {aborted, aborted \cup {w}}
    <3>1. local'[w] = local[w] \ {branch[w]} /\ local' \in [Workers -> SUBSET Known]
          /\ \A u \in Workers \ {w} : local'[u] = local[u]
      BY <1>0, <2>2, Zenon
    <3> QED
      BY <1>0, <1>1, <2>2, <3>1, Zenon
  <2> QED
    BY <2>1, <2>2, Zenon DEF Abort
<1>4. ASSUME NEW u \in Workers PROVE InPlace(u)'
  <2>1. InPlace(u) /\ branch' = branch /\ base' = base /\ stray' = stray
    BY <1>0, <1>2, Zenon
  <2>2. CASE u # w
    <3>1. head'[u] = head[u] /\ prev'[u] = prev[u]
      BY <1>1, <2>2, Zenon
    <3>2. local'[u] = local[u] /\ (u \in aborted' <=> u \in aborted)
      BY <1>3, <2>2, Zenon
    <3> QED
      BY <2>1, <3>1, <3>2, Zenon DEF InPlace
  <2>3. CASE u = w
    BY <1>1, <1>3, <2>1, <2>3, Zenon DEF InPlace
  <2> QED
    BY <2>2, <2>3, Zenon
<1> QED
  BY <1>1, <1>2, <1>3, <1>4, Zenon DEF BranchInv, Known, Pushed, Named

LEMMA BranchStep == BranchInv /\ [BranchNext]_branchVars => BranchInv'
<1> SUFFICES ASSUME BranchInv, [BranchNext]_branchVars PROVE BranchInv'
  BY Zenon
<1>1. CASE UNCHANGED branchVars
  BY <1>1, Zenon DEF branchVars, gitVars, BranchInv, InPlace, Known, Pushed, Named
<1>2. ASSUME NEW w \in Workers, Complete(w) PROVE BranchInv'
  <2>1. branch[w] # main /\ remote' = remote \cup {branch[w]}
        /\ tracking' \in {tracking, [tracking EXCEPT ![w] = @ \cup {branch[w]}]}
        /\ UNCHANGED <<agentName, made, local, head, prev, branch, counted, base, stray, aborted>>
    BY <1>2, Zenon DEF Complete, nil
  <2>2. branch[w] \in made
    BY <2>1, Zenon DEF BranchInv, Known
  <2>3. remote' \subseteq made' /\ tracking' \in [Workers -> SUBSET remote']
    BY <2>1, <2>2, Zenon DEF BranchInv
  <2>4. ASSUME NEW u \in Workers PROVE counted'[u] <= Cardinality(Pushed(u)')
    <3>1. Pushed(u) \subseteq Pushed(u)' /\ Pushed(u)' \subseteq made
      BY <2>1, <2>2, Zenon DEF Pushed, BranchInv
    <3>2. IsFiniteSet(Pushed(u)')
      BY <3>1, FS_Subset, Zenon DEF BranchInv
    <3>3. /\ IsFiniteSet(Pushed(u)) /\ Cardinality(Pushed(u)) <= Cardinality(Pushed(u)')
          /\ Cardinality(Pushed(u)) \in Nat /\ Cardinality(Pushed(u)') \in Nat
      BY <3>1, <3>2, FS_Subset, FS_CardinalityType, Zenon
    <3>4. counted[u] \in Nat /\ counted[u] <= Cardinality(Pushed(u)) /\ counted' = counted
      BY <2>1, BranchAssumption DEF BranchInv
    <3> QED
      BY <3>3, <3>4
  <2>5. \A u \in Workers : InPlace(u)'
    BY <2>1, Zenon DEF BranchInv, InPlace
  <2>6. \A b \in made' : Named(b)'
    BY <2>1, Zenon DEF BranchInv, Named
  <2> QED
    BY <2>1, <2>3, <2>4, <2>5, <2>6, Zenon DEF BranchInv, Known
<1>3. ASSUME NEW w \in Workers, Fetch(w) PROVE BranchInv'
  <2>1. tracking' = [tracking EXCEPT ![w] = remote]
        /\ UNCHANGED <<agentName, made, local, head, prev, branch, remote, counted, base, stray, aborted>>
    BY <1>3, Zenon DEF Fetch
  <2> QED
    BY <2>1, Zenon DEF BranchInv, InPlace, Known, Pushed, Named
<1> QED
  BY <1>1, <1>2, <1>3, BranchStart, BranchAbort, Zenon DEF BranchNext

LEMMA BranchStarts == BranchInit => BranchInv
<1> SUFFICES ASSUME BranchInit PROVE BranchInv
  BY Zenon
<1>1. IsFiniteSet(made) /\ Cardinality(made) = 0
  BY FS_EmptySet, Zenon DEF BranchInit
<1>2. \A w \in Workers : counted[w] = 0 /\ Pushed(w) = {}
  BY Zenon DEF BranchInit, Pushed
<1>3. \A w \in Workers : counted[w] <= Cardinality(Pushed(w))
  BY <1>2, FS_EmptySet
<1>4. \A w \in Workers : InPlace(w)
  BY Zenon DEF BranchInit, InPlace
<1> QED
  BY <1>1, <1>3, <1>4, BranchAssumption DEF BranchInit, BranchInv, Known, nil

\* However often Start and Abort are called and cut short, a clone is on the
\* branch of its attempt, where that began, or on a branch of which Start returned
\* an error; and after an Abort without an error the branch is gone and the clone
\* off it, for any number of workers and attempts (worker.go:53-57, :94-102).
THEOREM CloneAlwaysComesBack == BranchSpec => []CloneComesBack
<1>1. ASSUME BranchInv PROVE CloneComesBack
  BY <1>1, Zenon DEF BranchInv, InPlace, CloneComesBack
<1> QED
  BY <1>1, BranchStarts, BranchStep, PTL DEF BranchSpec

\* The prior sessions Start logs are no more than the attempts of agents of that
\* sanitized name that were pushed, however old the clone's view of the remote is
\* (retry.go:48), and the branches stay within their types.
THEOREM CountedWerePushed ==
  BranchSpec => [](BranchTypeOK /\ \A w \in Workers : counted[w] <= Cardinality({b \in remote : b.agent = Sanitize(agentName[w])}))
<1>1. BranchInv => BranchTypeOK /\ \A w \in Workers : counted[w] <= Cardinality({b \in remote : b.agent = Sanitize(agentName[w])})
  BY Zenon DEF BranchInv, BranchTypeOK, Known, Pushed
<1> QED
  BY <1>1, BranchStarts, BranchStep, PTL DEF BranchSpec

\* Names lead back to their sessions, for agent names of every length and any
\* number of workers and attempts: sanitizing, with its loop, is idempotent and
\* keeps the letters, Parse takes the branch apart again, the prefix finds the
\* sessions of that sanitized name and no other, and what a retry counts was
\* pushed (naming.go:39-72, retry.go:48).
THEOREM NamesAlwaysLeadBack == BranchSpec => []NamesLeadBack
<1>1. ASSUME BranchInv PROVE NamesLeadBack
  <2> SUFFICES ASSUME NEW w \in Workers, NEW a, a = Sanitize(agentName[w])
               PROVE  /\ Sanitize(a) = a
                      /\ Letters(a) = Letters(agentName[w])
                      /\ a # <<>> => Parse(String(<<"x">>, a, <<"x", "/", "x">>)) = <<<<"x">>, a, <<"x", "/", "x">>>>
                      /\ FindRetries(w) = {b \in tracking[w] : b.agent = a}
                      /\ counted[w] <= Cardinality({b \in remote : b.agent = a})
    BY Zenon DEF NamesLeadBack
  <2>1. a \in Seq(Chars) /\ Slashes(a) = {} /\ Letters(a) = Letters(agentName[w]) /\ Sanitize(a) = a
    BY <1>1, CleanNames, Zenon DEF BranchInv
  <2>2. ASSUME a # <<>> PROVE Parse(String(<<"x">>, a, <<"x", "/", "x">>)) = <<<<"x">>, a, <<"x", "/", "x">>>>
    <3>1. PICK f \in Seq(Chars), id \in Seq(Chars) : f = <<"x">> /\ id = <<"x", "/", "x">>
      <4>1. "x" \in Chars /\ "/" \in Chars
        BY Zenon DEF Chars
      <4>2. <<"x">> \in Seq(Chars) /\ <<"x", "/", "x">> \in Seq(Chars)
        BY <4>1
      <4> QED
        BY <4>2, Zenon
    <3>2. f # <<>> /\ id # <<>> /\ Slashes(f) = {}
      BY <3>1 DEF Slashes
    <3>3. "/" \in Chars
      BY Zenon DEF Chars
    <3>4. Parse(String(f, a, id)) = <<f, a, id>>
      BY <2>1, <2>2, <3>2, <3>3, ParseInverts, ZenonT(40)
    <3> QED
      BY <3>1, <3>4, Zenon
  <2>3. FindRetries(w) = {b \in tracking[w] : b.agent = a}
    BY <1>1, RetriesFound, Zenon
  <2>4. counted[w] <= Cardinality({b \in remote : b.agent = a})
    BY <1>1, Zenon DEF BranchInv, Pushed
  <2> QED
    BY <2>1, <2>2, <2>3, <2>4, Zenon
<1> QED
  BY <1>1, BranchStarts, BranchStep, PTL DEF BranchSpec
----------------------------------------------------------------------------
(* The tracker                                                             *)

Tracked == {"started", "updated", "reported"}

\* The tracked sessions are the ones of the Handle calls that are past
\* StartSession, and one that has only started has no turn yet.
TrackInv ==
  /\ TrackerTypeOK
  /\ DOMAIN sessions = {s \in Sessions : handle[s] \in Tracked}
  /\ \A s \in Sessions : handle[s] = "started" => sessions[s].turns = 0

LEMMA NoMetrics == \A limit \in Limits : [noMetrics EXCEPT !.limit = limit] \in Metrics /\ noMetrics \in Metrics
  BY TrackerAssumption DEF noMetrics, Metrics

LEMMA OneTurn ==
  ASSUME NEW m \in Metrics, NEW n \in TokenCounts, m.turns = 0
  PROVE  [tokens |-> n, limit |-> m.limit, turns |-> m.turns + 1, compactions |-> m.compactions] \in Metrics
  BY DEF Metrics

LEMMA OneMore ==
  ASSUME NEW m \in Metrics, m.compactions < MaxCompactions
  PROVE  /\ [m EXCEPT !.compactions = @ + 1] \in Metrics
         /\ [m EXCEPT !.compactions = @ + 1].turns = m.turns
  BY TrackerAssumption DEF Metrics

LEMMA TrackStep == TrackInv /\ [TrackerNext]_trackerVars => TrackInv'
<1> SUFFICES ASSUME TrackInv, [TrackerNext]_trackerVars PROVE TrackInv'
  OBVIOUS
<1>0. /\ config \in Configs
      /\ handle \in [Sessions -> {"new", "open", "started", "updated", "reported", "ended"}]
      /\ report \in [Sessions -> Metrics]
      /\ DOMAIN sessions = {s \in Sessions : handle[s] \in Tracked}
      /\ \A s \in DOMAIN sessions : sessions[s] \in Metrics
      /\ \A s \in Sessions : handle[s] = "started" => sessions[s].turns = 0
  BY Zenon DEF TrackInv, TrackerTypeOK
<1>1. CASE UNCHANGED trackerVars
  BY <1>0, <1>1, Zenon DEF trackerVars, TrackInv, TrackerTypeOK
<1>2. ASSUME NEW s \in Sessions, SessionNew(s) PROVE TrackInv'
  BY <1>0, <1>2, Zenon DEF SessionNew, TrackInv, TrackerTypeOK, Tracked
<1>3. ASSUME NEW s \in Sessions, NEW limit \in Limits, StartSession(s, limit) PROVE TrackInv'
  <2>1. PICK m \in Metrics : m = [noMetrics EXCEPT !.limit = limit] /\ m.turns = 0
    BY NoMetrics, Zenon DEF noMetrics
  <2>2. /\ DOMAIN sessions' = DOMAIN sessions \cup {s}
        /\ sessions'[s] = m /\ \A u \in DOMAIN sessions \ {s} : sessions'[u] = sessions[u]
    BY <1>3, <2>1, Zenon DEF StartSession
  <2>3. handle' = [handle EXCEPT ![s] = "started"] /\ UNCHANGED <<config, report>>
    BY <1>3, Zenon DEF StartSession
  <2> QED
    BY <1>0, <2>1, <2>2, <2>3, Zenon DEF TrackInv, TrackerTypeOK, Tracked
<1>4. ASSUME NEW s \in Sessions, NEW n \in TokenCounts, UpdateTokens(s, n) PROVE TrackInv'
  <2>1. handle[s] = "started" /\ handle' = [handle EXCEPT ![s] = "updated"] /\ UNCHANGED <<config, report>>
    BY <1>4, Zenon DEF UpdateTokens
  <2>2. s \in DOMAIN sessions /\ sessions[s] \in Metrics /\ sessions[s].turns = 0
    BY <1>0, <2>1, Zenon DEF Tracked
  <2>3. PICK m \in Metrics : m = [tokens |-> n, limit |-> sessions[s].limit, turns |-> sessions[s].turns + 1,
                                  compactions |-> sessions[s].compactions]
    BY <2>2, OneTurn, Zenon
  <2>4. /\ DOMAIN sessions' = DOMAIN sessions
        /\ sessions'[s] = m /\ \A u \in DOMAIN sessions \ {s} : sessions'[u] = sessions[u]
    BY <1>4, <2>2, <2>3, Zenon DEF UpdateTokens
  <2> QED
    BY <1>0, <2>1, <2>3, <2>4, Zenon DEF TrackInv, TrackerTypeOK, Tracked
<1>5. ASSUME NEW s \in Sessions, GetMetrics(s) PROVE TrackInv'
  <2>1. PICK m \in Metrics : m = IF s \in DOMAIN sessions THEN sessions[s] ELSE noMetrics
    BY <1>0, NoMetrics, TrackerAssumption, Zenon
  <2>2. report' = [report EXCEPT ![s] = m] /\ handle[s] = "updated" /\ handle' = [handle EXCEPT ![s] = "reported"]
        /\ UNCHANGED <<config, sessions>>
    BY <1>5, <2>1, Zenon DEF GetMetrics
  <2> QED
    BY <1>0, <2>2, Zenon DEF TrackInv, TrackerTypeOK, Tracked
<1>6. ASSUME NEW s \in Sessions, EndSession(s) PROVE TrackInv'
  <2>1. /\ DOMAIN sessions' = DOMAIN sessions \ {s}
        /\ \A u \in DOMAIN sessions \ {s} : sessions'[u] = sessions[u]
    BY <1>6, Zenon DEF EndSession, Restrict
  <2>2. handle' = [handle EXCEPT ![s] = "ended"] /\ UNCHANGED <<config, report>>
    BY <1>6, Zenon DEF EndSession
  <2> QED
    BY <1>0, <2>1, <2>2, Zenon DEF TrackInv, TrackerTypeOK, Tracked
<1>7. ASSUME NEW s \in Sessions, RecordCompaction(s) PROVE TrackInv'
  <2>1. handle' = handle /\ UNCHANGED <<config, report>>
    BY <1>7, Zenon DEF RecordCompaction
  <2>2. CASE s \notin DOMAIN sessions
    BY <1>0, <1>7, <2>1, <2>2, Zenon DEF RecordCompaction, TrackInv, TrackerTypeOK
  <2>3. CASE s \in DOMAIN sessions
    <3>1. PICK m \in Metrics : m = [sessions[s] EXCEPT !.compactions = @ + 1] /\ m.turns = sessions[s].turns
      BY <1>0, <1>7, <2>3, OneMore, Zenon DEF RecordCompaction
    <3>2. /\ DOMAIN sessions' = DOMAIN sessions
          /\ sessions'[s] = m /\ \A u \in DOMAIN sessions \ {s} : sessions'[u] = sessions[u]
      BY <1>7, <2>3, <3>1, Zenon DEF RecordCompaction
    <3> QED
      BY <1>0, <2>1, <3>1, <3>2, Zenon DEF TrackInv, TrackerTypeOK, Tracked
  <2> QED
    BY <2>2, <2>3, Zenon
<1> QED
  BY <1>1, <1>2, <1>3, <1>4, <1>5, <1>6, <1>7, Zenon DEF TrackerNext

LEMMA TrackInit == TrackerInit => TrackInv
  BY NoMetrics, TrackerAssumption, Zenon DEF TrackerInit, TrackInv, TrackerTypeOK, Tracked

\* The tracked sessions are exactly those of the Handle calls past StartSession,
\* for any number of calls, limits and compactions (handler.go:159-171).
THEOREM Tracking == TrackerSpec => [](TrackerTypeOK /\ TrackedAreHandled)
<1>1. TrackInv => TrackerTypeOK /\ TrackedAreHandled
  BY Zenon DEF TrackInv, Tracked, TrackedAreHandled, ActiveSessionCount
<1> QED
  BY <1>1, TrackInit, TrackStep, PTL DEF TrackerSpec

\* A rounded quotient is below an integer just when the exact one is.
LEMMA Quotient ==
  ASSUME NEW x \in Nat, NEW l \in Nat \ {0}, NEW c \in Int
  PROVE  x \div l \in Nat /\ (x \div l < c <=> x < c * l)
<1>1. PICK p \in Nat : p = x \div l /\ p * l <= x /\ x < (p + 1) * l
  OBVIOUS
<1>2. \A a, b \in Int : a <= b => a * l <= b * l
  OBVIOUS
<1>3. ASSUME p < c PROVE x < c * l
  <2>1. (p + 1) * l <= c * l
    BY <1>2, <1>3
  <2> QED
    BY <1>1, <2>1
<1>4. ASSUME c <= p PROVE c * l <= x
  <2>1. c * l <= p * l
    BY <1>2, <1>4
  <2> QED
    BY <1>1, <2>1
<1> QED
  BY <1>1, <1>3, <1>4

\* 100 times the usage, capped at the limit.
Used(m) == 100 * (IF m.tokens > m.limit THEN m.limit ELSE m.tokens)

\* UsagePercent is below a threshold just when the usage is, or when it is right
\* at one of the thresholds that the float64 comes out below (tracker.go:66).
LEMMA Percent ==
  ASSUME NEW m \in Metrics, m.limit > 0, NEW c \in Int
  PROVE  /\ UsagePercent(m) \in Int
         /\ UsagePercent(m) < c <=> Used(m) < c * m.limit \/ (Used(m) = c * m.limit /\ c \in {29, 57, 58})
<1>1. PICK t \in Nat, l \in Nat \ {0} : t = m.tokens /\ l = m.limit
  BY TrackerAssumption DEF Metrics
<1>2. \A a, b \in Int : (a < b <=> a * l < b * l) /\ (a * l = b * l => a = b)
  OBVIOUS
<1>3. CASE t > l
  <2>1. UsagePercent(m) = 100 /\ Used(m) = 100 * l
    BY <1>1, <1>3, Zenon DEF UsagePercent, Used
  <2>2. 100 < c <=> 100 * l < c * l
    BY <1>2
  <2>3. 100 * l = c * l => c \notin {29, 57, 58}
    <3>1. 100 * l = c * l => 100 = c
      BY <1>2
    <3> QED
      BY <3>1
  <2> QED
    BY <1>1, <2>1, <2>2, <2>3
<1>4. CASE t <= l
  <2>1. PICK x \in Nat : x = 100 * t /\ x = Used(m)
    BY <1>1, <1>4 DEF Used
  <2>2. PICK p \in Nat : p = x \div l
    BY Quotient, Zenon
  <2>3. p < c <=> x < c * l
    BY <2>2, Quotient
  <2>4. UsagePercent(m) = IF x = p * l /\ p \in RoundedDown THEN p - 1 ELSE p
    BY <1>1, <1>4, <2>1, <2>2 DEF UsagePercent
  <2>5. CASE x = p * l /\ p \in {29, 57, 58}
    <3>1. UsagePercent(m) = p - 1 /\ p - 1 \in Int /\ (p - 1 < c <=> p < c \/ p = c)
      <4>1. UsagePercent(m) = p - 1
        BY <2>4, <2>5, Zenon DEF RoundedDown
      <4>2. p - 1 \in Int /\ (p - 1 < c <=> p < c \/ p = c)
        OBVIOUS
      <4> QED
        BY <4>1, <4>2, Zenon
    <3>2. x = c * l <=> p = c
      BY <1>2, <2>5
    <3> QED
      <4>1. UsagePercent(m) < c <=> p < c \/ p = c
        BY <3>1, Zenon
      <4>2. Used(m) < c * m.limit <=> p < c
        BY <1>1, <2>1, <2>3, Zenon
      <4>3. Used(m) = c * m.limit <=> p = c
        BY <1>1, <2>1, <3>2, Zenon
      <4> QED
        BY <2>5, <3>1, <4>1, <4>2, <4>3, Zenon
  <2>6. CASE ~(x = p * l /\ p \in {29, 57, 58})
    <3>1. UsagePercent(m) = p
      BY <2>4, <2>6, Zenon DEF RoundedDown
    <3>2. ASSUME x = c * l, c \in {29, 57, 58} PROVE FALSE
      <4>1. PICK q \in Nat : q = c
        BY <3>2
      <4>2. ~(p < q) /\ (p < q + 1 <=> x < (q + 1) * l) /\ x = q * l
        BY <2>2, <2>3, <3>2, <4>1, Quotient
      <4>3. p = q
        BY <4>1, <4>2
      <4> QED
        BY <2>6, <3>2, <4>1, <4>2, <4>3, Zenon
    <3> QED
      <4>1. p \in Int
        OBVIOUS
      <4> QED
        BY <1>1, <2>1, <2>3, <3>1, <3>2, <4>1, Zenon
  <2> QED
    BY <2>5, <2>6, Zenon
<1> QED
  BY <1>1, <1>3, <1>4

\* The strategy is the one exact arithmetic gives but for the three thresholds at
\* which float64 rounds down, for whatever thresholds NewTracker accepts, all
\* limits and all token counts (tracker.go:66, :95, :193).
THEOREM StrategyExact == TrackerSpec => []StrategyIsExact
<1>1. ASSUME TrackInv PROVE StrategyIsExact
  <2> DEFINE Below(p, m) == Used(m) < p * m.limit \/ (Used(m) = p * m.limit /\ p \in {29, 57, 58})
  <2>1. ASSUME NEW s \in DOMAIN sessions, sessions[s].limit > 0
        PROVE  SelectResurrectionStrategyForSession(s) =
                 IF Below(config.full, sessions[s]) THEN "full"
                 ELSE IF Below(config.checkpoint, sessions[s]) THEN "checkpoint" ELSE "fresh"
    <3>1. PICK m \in Metrics : m = sessions[s]
      BY <1>1, Zenon DEF TrackInv, TrackerTypeOK
    <3>2. config.full \in Int /\ config.checkpoint \in Int
      BY <1>1, TrackerAssumption DEF TrackInv, TrackerTypeOK
    <3>3. /\ UsagePercent(m) < config.full <=> Below(config.full, m)
          /\ UsagePercent(m) < config.checkpoint <=> Below(config.checkpoint, m)
      BY <2>1, <3>1, <3>2, Percent, Zenon
    <3> QED
      BY <3>1, <3>3, Zenon DEF SelectResurrectionStrategyForSession, SelectResurrectionStrategy
  <2> QED
    BY <2>1, Zenon DEF StrategyIsExact, Used
<1> QED
  BY <1>1, TrackInit, TrackStep, PTL DEF TrackerSpec
============================================================================
