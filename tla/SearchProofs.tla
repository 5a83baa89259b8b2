---------------------------- MODULE SearchProofs ----------------------------
(***************************************************************************)
(* The searches of dag.go, for every set of nodes: they implement DAG, and *)
(* their answers are the ones DAG defines.  The lemmas about DAG are those *)
(* of SchedulerProofs.                                                     *)
(***************************************************************************)
EXTENDS DAGSearch, SchedulerProofs
----------------------------------------------------------------------------
(* Validate's search, on any graph: G[n] are the successors of n.          *)

Colors == {"white", "gray", "black"}

\* The gray nodes are the path, a chain of the graph; a node on it has looked
\* at all but its todo, at black nodes and at the next node of the path; and
\* the black nodes are closed and have no cycle.
DfsOK(G, col, pth, td) ==
  /\ col \in [Ids -> Colors] /\ pth \in Seq(Ids) /\ td \in [Ids -> SUBSET Ids]
  /\ \A x \in Ids : col[x] = "gray" <=> \E k \in 1 .. Len(pth) : pth[k] = x
  /\ \A j, k \in 1 .. Len(pth) : pth[j] = pth[k] => j = k
  /\ \A k \in 1 .. Len(pth) - 1 : pth[k + 1] \in G[pth[k]]
  /\ \A k \in 1 .. Len(pth) : td[pth[k]] \subseteq G[pth[k]]
  /\ \A k \in 1 .. Len(pth) : \A s \in G[pth[k]] :
       s \in td[pth[k]] \/ col[s] = "black" \/ (k < Len(pth) /\ s = pth[k + 1])
  /\ \A x \in Ids : col[x] = "black" => \A s \in G[x] : col[s] = "black"
  /\ \A S \in SUBSET Ids : S # {} /\ (\A x \in S : col[x] = "black") => \E s \in S : \A p \in S : s \notin G[p]

\* Every set of nodes has a member without a predecessor in the set.
NoCycle(G) == \A S \in (SUBSET Ids) \ {{}} : \E s \in S : \A p \in S : s \notin G[p]

\* The last node of pth hands s on to a call of its own.
HandsOn(pth, td, s, r) ==
  /\ \A k \in 1 .. Len(pth) - 1 : r[pth[k]] = td[pth[k]]
  /\ Len(pth) > 0 => s \in td[pth[Len(pth)]] /\ r[pth[Len(pth)]] = td[pth[Len(pth)]] \ {s}

\* dfs begins with the white node s: a root, or a successor of the last node.
LEMMA DfsEnters ==
  ASSUME NEW G \in [Ids -> SUBSET Ids], NEW col, NEW pth, NEW td, DfsOK(G, col, pth, td),
         NEW s \in Ids, col[s] = "white",
         NEW c, c = [col EXCEPT ![s] = "gray"],
         NEW q, q = Append(pth, s),
         NEW r \in [Ids -> SUBSET Ids], r[s] = G[s], HandsOn(pth, td, s, r)
  PROVE  DfsOK(G, c, q, r)
<1>0. /\ \A k \in 1 .. Len(pth) - 1 : r[pth[k]] = td[pth[k]]
      /\ Len(pth) > 0 => s \in td[pth[Len(pth)]] /\ r[pth[Len(pth)]] = td[pth[Len(pth)]] \ {s}
  BY Zenon DEF HandsOn
<1> USE <1>0
<1>1. PICK n \in Nat : n = Len(pth) /\ pth \in Seq(Ids)
  BY DEF DfsOK
<1>2. q \in Seq(Ids) /\ Len(q) = n + 1 /\ q[n + 1] = s /\ \A k \in 1 .. n : q[k] = pth[k]
  BY <1>1, AppendProperties
<1>3. \A k \in 1 .. n : pth[k] \in Ids
  BY <1>1, ElementOfSeq, Zenon
<1>4. c \in [Ids -> Colors] /\ c[s] = "gray" /\ \A x \in Ids : x # s => c[x] = col[x]
  BY DEF DfsOK, Colors
<1>5. \A x \in Ids : c[x] = "black" <=> col[x] = "black"
  BY <1>4, Zenon
<1>6. \A k \in 1 .. n : col[pth[k]] = "gray" /\ pth[k] # s
  BY <1>1, <1>3, Zenon DEF DfsOK
<1>7. \A k \in 1 .. n + 1 : k \in 1 .. n \/ k = n + 1
  OBVIOUS
<1>8. ASSUME NEW x \in Ids PROVE c[x] = "gray" <=> \E k \in 1 .. n + 1 : q[k] = x
  <2>1. col[x] = "gray" <=> \E k \in 1 .. n : pth[k] = x
    BY <1>1, Zenon DEF DfsOK
  <2>2. n + 1 \in 1 .. n + 1 /\ \A k \in 1 .. n : k \in 1 .. n + 1
    OBVIOUS
  <2> QED
    BY <1>2, <1>4, <1>7, <2>1, <2>2
<1>9. ASSUME NEW j \in 1 .. n + 1, NEW k \in 1 .. n + 1, q[j] = q[k] PROVE j = k
  <2>1. \A i, l \in 1 .. n : pth[i] = pth[l] => i = l
    BY <1>1 DEF DfsOK
  <2> QED
    BY <1>2, <1>6, <1>7, <1>9, <2>1
<1>10. ASSUME NEW k \in 1 .. n PROVE q[k + 1] \in G[q[k]]
  <2>1. CASE k = n
    <3>1. s \in G[pth[n]]
      BY <1>1, <2>1 DEF DfsOK
    <3> QED
      BY <1>2, <2>1, <3>1, Zenon
  <2>2. CASE k # n
    <3>1. k \in 1 .. n - 1 /\ k + 1 \in 1 .. n
      BY <2>2
    <3>2. pth[k + 1] \in G[pth[k]]
      BY <1>1, <3>1, Zenon DEF DfsOK
    <3> QED
      BY <1>2, <3>1, <3>2, Zenon
  <2> QED
    BY <2>1, <2>2, Zenon
<1>11. ASSUME NEW k \in 1 .. n PROVE r[pth[k]] \subseteq td[pth[k]] /\ \A z \in td[pth[k]] : z \in r[pth[k]] \/ (k = n /\ z = s)
  <2>1. CASE k = n
    <3>1. Len(pth) > 0 /\ k = Len(pth)
      BY <1>1, <2>1
    <3>2. r[pth[k]] = td[pth[k]] \ {s}
      BY <3>1, Zenon
    <3> QED
      BY <2>1, <3>2, Zenon
  <2>2. CASE k # n
    <3>1. k \in 1 .. Len(pth) - 1
      BY <1>1, <2>2
    <3> QED
      BY <3>1, Zenon
  <2> QED
    BY <2>1, <2>2, Zenon
<1>12. ASSUME NEW k \in 1 .. n + 1 PROVE r[q[k]] \subseteq G[q[k]]
  <2>1. CASE k \in 1 .. n
    <3>1. td[pth[k]] \subseteq G[pth[k]]
      BY <1>1, <2>1, Zenon DEF DfsOK
    <3> QED
      BY <1>2, <1>11, <2>1, <3>1, Zenon
  <2>2. CASE k = n + 1
    BY <1>2, <2>2, Zenon
  <2> QED
    BY <1>7, <2>1, <2>2, Zenon
<1>13. ASSUME NEW k \in 1 .. n + 1, NEW z \in G[q[k]]
       PROVE  z \in r[q[k]] \/ c[z] = "black" \/ (k < n + 1 /\ z = q[k + 1])
  <2>1. CASE k \in 1 .. n
    <3>1. z \in G[pth[k]] /\ z \in Ids
      BY <1>2, <1>3, <2>1, Zenon
    <3>2. z \in td[pth[k]] \/ col[z] = "black" \/ (k < n /\ z = pth[k + 1])
      BY <1>1, <2>1, <3>1, Zenon DEF DfsOK
    <3>3. k < n => k + 1 \in 1 .. n
      BY <2>1
    <3>4. k < n + 1 /\ (k = n => k + 1 = n + 1)
      BY <2>1
    <3> QED
      BY <1>2, <1>5, <1>11, <2>1, <3>1, <3>2, <3>3, <3>4
  <2>2. CASE k = n + 1
    BY <1>2, <2>2, Zenon
  <2> QED
    BY <1>7, <2>1, <2>2, Zenon
<1>14. ASSUME NEW x \in Ids, c[x] = "black", NEW z \in G[x] PROVE c[z] = "black"
  BY <1>5, <1>14, Zenon DEF DfsOK
<1>15. ASSUME NEW S \in SUBSET Ids, S # {}, \A x \in S : c[x] = "black" PROVE \E z \in S : \A p \in S : z \notin G[p]
  <2>1. \A x \in S : col[x] = "black"
    BY <1>5, <1>15, Zenon
  <2> QED
    BY <1>15, <2>1, Zenon DEF DfsOK
<1>16. Len(q) - 1 = n
  BY <1>2
<1> HIDE <1>0
<1>17. \A x \in Ids : c[x] = "gray" <=> \E k \in 1 .. Len(q) : q[k] = x
  BY <1>2, <1>8
<1>18. \A j, k \in 1 .. Len(q) : q[j] = q[k] => j = k
  BY <1>2, <1>9
<1>19. \A k \in 1 .. Len(q) - 1 : q[k + 1] \in G[q[k]]
  BY <1>10, <1>16, Zenon
<1>20. \A k \in 1 .. Len(q) : r[q[k]] \subseteq G[q[k]]
  BY <1>2, <1>12, Zenon
<1>21. \A k \in 1 .. Len(q) : \A z \in G[q[k]] : z \in r[q[k]] \/ c[z] = "black" \/ (k < Len(q) /\ z = q[k + 1])
  BY <1>2, <1>13
<1>22. \A x \in Ids : c[x] = "black" => \A z \in G[x] : c[z] = "black"
  BY <1>14, Zenon
<1>23. \A S \in SUBSET Ids : S # {} /\ (\A x \in S : c[x] = "black") => \E z \in S : \A p \in S : z \notin G[p]
  BY <1>15, Zenon
<1> QED
  BY <1>2, <1>4, <1>17, <1>18, <1>19, <1>20, <1>21, <1>22, <1>23, Zenon DEF DfsOK

\* A black successor is passed.
LEMMA DfsPasses ==
  ASSUME NEW G \in [Ids -> SUBSET Ids], NEW col, NEW pth, NEW td, DfsOK(G, col, pth, td),
         NEW s \in Ids, col[s] = "black",
         NEW t \in Ids, NEW r, r = [td EXCEPT ![t] = @ \ {s}]
  PROVE  DfsOK(G, col, pth, r)
<1>1. pth \in Seq(Ids) /\ td \in [Ids -> SUBSET Ids]
  BY Zenon DEF DfsOK
<1>2. \A k \in 1 .. Len(pth) : pth[k] \in Ids
  BY <1>1, ElementOfSeq, Zenon
<1>3. r \in [Ids -> SUBSET Ids] /\ \A x \in Ids : r[x] \subseteq td[x] /\ \A z \in td[x] : z \in r[x] \/ z = s
  BY <1>1, Zenon
<1>4. \A k \in 1 .. Len(pth) : r[pth[k]] \subseteq G[pth[k]]
  BY <1>2, <1>3, Zenon DEF DfsOK
<1>5. ASSUME NEW k \in 1 .. Len(pth), NEW z \in G[pth[k]]
      PROVE  z \in r[pth[k]] \/ col[z] = "black" \/ (k < Len(pth) /\ z = pth[k + 1])
  <2>1. z \in td[pth[k]] \/ col[z] = "black" \/ (k < Len(pth) /\ z = pth[k + 1])
    BY Zenon DEF DfsOK
  <2> QED
    BY <1>2, <1>3, <2>1, Zenon
<1> QED
  BY <1>3, <1>4, <1>5, Zenon DEF DfsOK

\* The call for the last node of the path ends: it has no todo left, so all its
\* successors are black, no black node leads to it, and it joins them.
LEMMA DfsLeaves ==
  ASSUME NEW G \in [Ids -> SUBSET Ids], NEW col, NEW pth, NEW td, DfsOK(G, col, pth, td),
         NEW n \in Nat \ {0}, n = Len(pth), NEW t, t = pth[n], td[t] = {},
         NEW c, c = [col EXCEPT ![t] = "black"],
         NEW q, q = SubSeq(pth, 1, n - 1)
  PROVE  DfsOK(G, c, q, td)
<1>1. pth \in Seq(Ids) /\ n \in 1 .. n
  BY DEF DfsOK
<1>2. \A k \in 1 .. n : pth[k] \in Ids
  BY <1>1, ElementOfSeq, Zenon
<1>3. t \in Ids /\ col[t] = "gray"
  BY <1>1, <1>2, Zenon DEF DfsOK
<1>4. q \in Seq(Ids) /\ Len(q) = n - 1 /\ \A k \in 1 .. n - 1 : q[k] = pth[k]
  BY <1>1, <1>2, SubSeqProperties
<1>5. c \in [Ids -> Colors] /\ c[t] = "black" /\ \A x \in Ids : x # t => c[x] = col[x]
  BY <1>3 DEF DfsOK, Colors
<1>6. \A k \in 1 .. n - 1 : k \in 1 .. n /\ pth[k] # t /\ k + 1 \in 1 .. n
  <2>1. \A j, k \in 1 .. n : pth[j] = pth[k] => j = k
    BY Zenon DEF DfsOK
  <2> QED
    BY <1>1, <2>1
<1>7. \A x \in Ids : col[x] = "black" => c[x] = "black"
  BY <1>3, <1>5, Zenon
<1>8. ASSUME NEW x \in Ids PROVE c[x] = "gray" <=> \E k \in 1 .. n - 1 : q[k] = x
  <2>1. col[x] = "gray" <=> \E k \in 1 .. n : pth[k] = x
    BY Zenon DEF DfsOK
  <2>2. \A k \in 1 .. n : k \in 1 .. n - 1 \/ k = n
    OBVIOUS
  <2>3. CASE x = t
    BY <1>4, <1>5, <1>6, <2>3, Zenon
  <2>4. CASE x # t
    BY <1>4, <1>5, <1>6, <2>1, <2>2, <2>4
  <2> QED
    BY <2>3, <2>4, Zenon
<1>9. ASSUME NEW j \in 1 .. n - 1, NEW k \in 1 .. n - 1, q[j] = q[k] PROVE j = k
  BY <1>4, <1>6, <1>9 DEF DfsOK
<1>10. ASSUME NEW k \in 1 .. (n - 1) - 1 PROVE q[k + 1] \in G[q[k]]
  <2>1. k \in 1 .. n - 1 /\ k + 1 \in 1 .. n - 1
    OBVIOUS
  <2>2. pth[k + 1] \in G[pth[k]]
    BY <2>1, Zenon DEF DfsOK
  <2> QED
    BY <1>4, <2>1, <2>2, Zenon
<1>11. \A k \in 1 .. n - 1 : td[q[k]] \subseteq G[q[k]]
  BY <1>4, <1>6 DEF DfsOK
<1>12. ASSUME NEW k \in 1 .. n - 1, NEW z \in G[q[k]]
       PROVE  z \in td[q[k]] \/ c[z] = "black" \/ (k < n - 1 /\ z = q[k + 1])
  <2>1. z \in G[pth[k]] /\ z \in Ids /\ k \in 1 .. n
    BY <1>2, <1>4, <1>6
  <2>2. z \in td[pth[k]] \/ col[z] = "black" \/ (k < n /\ z = pth[k + 1])
    BY <2>1, Zenon DEF DfsOK
  <2>3. k = n - 1 \/ (k < n - 1 /\ k + 1 \in 1 .. n - 1)
    OBVIOUS
  <2>4. k = n - 1 => k + 1 = n
    OBVIOUS
  <2> QED
    BY <1>4, <1>5, <1>7, <2>1, <2>2, <2>3, <2>4
<1>13. \A z \in G[t] : col[z] = "black"
  <2> SUFFICES ASSUME NEW z \in G[t] PROVE col[z] = "black"
    BY Zenon
  <2>1. z \in td[pth[n]] \/ col[z] = "black" \/ (n < n /\ z = pth[n + 1])
    BY <1>1, Zenon DEF DfsOK
  <2> QED
    BY <2>1
<1>14. ASSUME NEW x \in Ids, c[x] = "black", NEW z \in G[x] PROVE c[z] = "black"
  <2>1. z \in Ids
    BY Zenon
  <2>2. CASE x = t
    BY <1>7, <1>13, <2>1, <2>2, Zenon
  <2>3. CASE x # t
    <3>1. col[x] = "black"
      BY <1>5, <1>14, <2>3, Zenon
    <3>2. col[z] = "black"
      BY <3>1, Zenon DEF DfsOK
    <3> QED
      BY <1>7, <2>1, <3>2, Zenon
  <2> QED
    BY <2>2, <2>3, Zenon
<1>15. ASSUME NEW S \in SUBSET Ids, S # {}, \A x \in S : c[x] = "black" PROVE \E z \in S : \A p \in S : z \notin G[p]
  <2>1. \A x \in S : x # t => col[x] = "black"
    BY <1>5, <1>15, Zenon
  <2>2. CASE t \in S
    <3>1. ASSUME NEW p \in S, t \in G[p] PROVE FALSE
      <4>1. col[p] = "black" \/ p = t
        BY <2>1, Zenon
      <4>2. col[t] = "black"
        BY <1>13, <3>1, <4>1 DEF DfsOK
      <4> QED
        BY <1>3, <4>2
    <3> QED
      BY <2>2, <3>1, Zenon
  <2>3. CASE t \notin S
    <3>1. \A x \in S : col[x] = "black"
      BY <2>1, <2>3, Zenon
    <3> QED
      BY <1>15, <3>1, Zenon DEF DfsOK
  <2> QED
    BY <2>2, <2>3, Zenon
<1>16. td \in [Ids -> SUBSET Ids]
  BY Zenon DEF DfsOK
<1>17. c \in [Ids -> Colors] /\ q \in Seq(Ids) /\ Len(q) = n - 1
  BY <1>4, <1>5, Zenon
<1>18. \A x \in Ids : c[x] = "gray" <=> \E k \in 1 .. Len(q) : q[k] = x
  BY <1>8, <1>17, Zenon
<1>19. \A j, k \in 1 .. Len(q) : q[j] = q[k] => j = k
  BY <1>9, <1>17
<1>20. \A k \in 1 .. Len(q) - 1 : q[k + 1] \in G[q[k]]
  BY <1>10, <1>17, Zenon
<1>21. \A k \in 1 .. Len(q) : td[q[k]] \subseteq G[q[k]]
  BY <1>11, <1>17, Zenon
<1>22. \A k \in 1 .. Len(q) : \A z \in G[q[k]] : z \in td[q[k]] \/ c[z] = "black" \/ (k < Len(q) /\ z = q[k + 1])
  BY <1>12, <1>17
<1>23. \A x \in Ids : c[x] = "black" => \A z \in G[x] : c[z] = "black"
  BY <1>14, Zenon
<1>24. \A S \in SUBSET Ids : S # {} /\ (\A x \in S : c[x] = "black") => \E z \in S : \A p \in S : z \notin G[p]
  BY <1>15, Zenon
<1> QED
  BY <1>16, <1>17, <1>18, <1>19, <1>20, <1>21, <1>22, <1>23, <1>24, Zenon DEF DfsOK

\* A gray successor of the last node closes a cycle: the path from it on.
LEMMA DfsFinds ==
  ASSUME NEW G \in [Ids -> SUBSET Ids], NEW col, NEW pth, NEW td, DfsOK(G, col, pth, td),
         NEW n \in Nat \ {0}, n = Len(pth), NEW s \in Ids, s \in td[pth[n]], col[s] = "gray"
  PROVE  ~NoCycle(G)
<1>1. pth \in Seq(Ids) /\ n \in 1 .. n
  BY DEF DfsOK
<1>2. \A k \in 1 .. n : pth[k] \in Ids
  BY <1>1, ElementOfSeq, Zenon
<1>3. PICK m \in 1 .. n : pth[m] = s
  BY Zenon DEF DfsOK
<1>4. PICK S : S = {pth[k] : k \in m .. n}
  BY Zenon
<1>5. m \in m .. n /\ n \in m .. n
  OBVIOUS
<1>6. S \in (SUBSET Ids) \ {{}}
  <2>1. \A k \in m .. n : k \in 1 .. n
    OBVIOUS
  <2>2. \A x \in S : x \in Ids
    BY <1>2, <1>4, <2>1, Zenon
  <2>3. pth[m] \in S
    BY <1>4, <1>5, Zenon
  <2> QED
    BY <2>2, <2>3, Zenon
<1>7. ASSUME NEW x \in S PROVE \E p \in S : x \in G[p]
  <2>1. PICK k \in m .. n : x = pth[k]
    BY <1>4, Zenon
  <2>2. CASE k = m
    <3>1. s \in G[pth[n]]
      BY <1>1, Zenon DEF DfsOK
    <3>2. pth[n] \in S
      BY <1>4, <1>5, Zenon
    <3> QED
      BY <1>3, <2>1, <2>2, <3>1, <3>2, Zenon
  <2>3. CASE k # m
    <3>1. k - 1 \in m .. n /\ k - 1 \in 1 .. n - 1 /\ (k - 1) + 1 = k
      BY <2>3
    <3>2. pth[k] \in G[pth[k - 1]]
      <4>1. PICK j \in 1 .. n - 1 : j = k - 1 /\ j + 1 = k
        BY <3>1, Zenon
      <4>2. pth[j + 1] \in G[pth[j]]
        BY Zenon DEF DfsOK
      <4> QED
        BY <4>1, <4>2, Zenon
    <3>3. pth[k - 1] \in S
      BY <1>4, <3>1, Zenon
    <3> QED
      BY <2>1, <3>2, <3>3, Zenon
  <2> QED
    BY <2>2, <2>3, Zenon
<1> QED
  BY <1>6, <1>7, Zenon DEF NoCycle

\* When no call runs and no node is white, there is no cycle among the nodes.
LEMMA DfsEnds ==
  ASSUME NEW G \in [Ids -> SUBSET Ids], NEW col, NEW pth, NEW td, DfsOK(G, col, pth, td),
         pth = <<>>, NEW N, \A x \in N : col[x] # "white", \A x, y \in Ids : y \in G[x] => y \in N
  PROVE  NoCycle(G)
<1>1. Len(pth) = 0
  BY Zenon
<1>2. \A x \in Ids : x \in N => col[x] = "black"
  <2>1. \A x \in Ids : col[x] # "gray"
    BY <1>1 DEF DfsOK
  <2> QED
    BY <2>1 DEF DfsOK, Colors
<1> SUFFICES ASSUME NEW S \in (SUBSET Ids) \ {{}} PROVE \E s \in S : \A p \in S : s \notin G[p]
  BY Zenon DEF NoCycle
<1>3. CASE \E s \in S : s \notin N
  BY <1>3, Zenon
<1>4. CASE \A s \in S : s \in N
  BY <1>2, <1>4 DEF DfsOK
<1> QED
  BY <1>3, <1>4, Zenon
----------------------------------------------------------------------------
(* The searches on the graph of DAG                                        *)

GraphOK == DAGTypeOK /\ EdgesWithin /\ Acyclic

LEMMA GraphStarts == NewDAG => GraphOK
  BY DEF NewDAG, GraphOK, DAGTypeOK, EdgesWithin, Acyclic

LEMMA GraphStep ==
  ASSUME GraphOK, [DAGNext]_dagVars PROVE GraphOK'
<1>1. DAGTypeOK'
  BY DAGTypeInductive, Zenon DEF GraphOK
<1>2. ASSUME NEW id \in Ids, AddNode(id) PROVE GraphOK'
  BY <1>1, <1>2, Zenon DEF AddNode, GraphOK, EdgesWithin, Acyclic
<1>3. ASSUME NEW from \in Ids, NEW to \in Ids, AddEdgeOk(from, to) PROVE GraphOK'
  <2>1. Acyclic'
    BY <1>3, AddEdgeAcyclic, Zenon DEF GraphOK
  <2>2. \A p, q \in Ids : <<p, q>> # <<from, to>> => edges'[<<p, q>>] = edges[<<p, q>>]
    BY <1>3, Zenon DEF AddEdgeOk, GraphOK, DAGTypeOK
  <2>3. from \in nodes /\ to \in nodes /\ nodes' = nodes
    BY <1>3, Zenon DEF AddEdgeOk, AddEdgeFails
  <2>4. EdgesWithin'
    BY <2>2, <2>3, Zenon DEF EdgesWithin, GraphOK
  <2> QED
    BY <1>1, <2>1, <2>4, Zenon DEF GraphOK
<1>4. ASSUME NEW id \in Ids, Complete(id) PROVE GraphOK'
  BY <1>1, <1>4, Zenon DEF Complete, GraphOK, EdgesWithin, Acyclic
<1>5. CASE UNCHANGED dagVars
  BY <1>1, <1>5, Zenon DEF dagVars, GraphOK, EdgesWithin, Acyclic
<1> QED
  BY <1>2, <1>3, <1>4, <1>5, Zenon DEF DAGNext

\* The graph that Validate searches.
Searched == [id \in Ids |-> Succs(id)]

LEMMA SearchedGraph ==
  ASSUME GraphOK
  PROVE  /\ Searched \in [Ids -> SUBSET Ids]
         /\ \A x, y \in Ids : y \in Searched[x] <=> edges[<<x, y>>] > 0 \/ edge = <<x, y>>
         /\ \A x, y \in Ids : edges[<<x, y>>] \in Nat
  BY Zenon DEF Searched, Succs, Dependents, GraphOK, DAGTypeOK

\* AddEdge refuses enough, and no more: an edge closes a cycle in a graph that
\* has none exactly when its source can be reached from its target.
LEMMA EdgeCloses ==
  ASSUME GraphOK, NEW f \in Ids, NEW t \in Ids, edge = <<f, t>>
  PROVE  NoCycle(Searched) <=> ~Reachable(t, f)
<1>1. PICK R : R = {n \in Ids : Reachable(t, n)}
  BY Zenon
<1>2. t \in R /\ SuccClosed(R)
  BY <1>1, ReachableClosed, Zenon
<1>3. \A x, y \in Ids : y \in Searched[x] <=> edges[<<x, y>>] > 0 \/ (x = f /\ y = t)
  BY SearchedGraph, Zenon
<1>4. \A x, y \in Ids : edges[<<x, y>>] \in Nat
  BY SearchedGraph, Zenon
<1>5. ASSUME f \notin R PROVE NoCycle(Searched)
  <2> SUFFICES ASSUME NEW S \in (SUBSET Ids) \ {{}}, \A s \in S : \E p \in S : s \in Searched[p]
               PROVE  FALSE
    BY Zenon DEF NoCycle
  <2>1. S \ R = {}
    <3> SUFFICES ASSUME S \ R # {} PROVE FALSE
      BY Zenon
    <3>1. PICK s \in S \ R : \A p \in S \ R : edges[<<p, s>>] = 0
      BY Zenon DEF Acyclic, GraphOK
    <3>2. PICK p \in S : s \in Searched[p]
      BY Zenon
    <3>3. edges[<<p, s>>] > 0
      BY <1>2, <1>3, <3>1, <3>2, Zenon
    <3>4. p \in R
      BY <3>1, <3>3
    <3> QED
      BY <1>2, <3>1, <3>3, <3>4, Zenon DEF SuccClosed
  <2>2. PICK s \in S : \A p \in S : edges[<<p, s>>] = 0
    BY Zenon DEF Acyclic, GraphOK
  <2>3. PICK p \in S : s \in Searched[p]
    BY Zenon
  <2>4. p # f
    BY <1>5, <2>1, Zenon
  <2>5. p \in Ids /\ s \in Ids /\ edges[<<p, s>>] = 0
    BY <2>2, Zenon
  <2>6. edges[<<p, s>>] > 0
    BY <1>3, <2>3, <2>4, <2>5, Zenon
  <2> QED
    BY <2>5, <2>6
<1>6. ASSUME f \in R PROVE ~NoCycle(Searched)
  <2>1. PICK S : S = {x \in R : Reachable(x, f)}
    BY Zenon
  <2>2. f \in S /\ t \in S
    BY <1>1, <1>2, <1>6, <2>1, Zenon DEF Reachable
  <2>3. PICK T : T = {x \in Ids : x = t \/ \E y \in R : edges[<<y, x>>] > 0}
    BY Zenon
  <2>4. R \cap T \in SUBSET Ids /\ t \in R \cap T /\ SuccClosed(R \cap T)
    BY <1>1, <1>2, <2>3, Zenon DEF SuccClosed
  <2>5. \A x \in R : x \in T
    BY <1>1, <2>4, Zenon DEF Reachable
  <2>6. ASSUME NEW x \in S PROVE \E p \in S : x \in Searched[p]
    <3>1. CASE x = t
      BY <1>3, <2>2, <3>1, Zenon
    <3>2. CASE x # t
      <4>1. PICK y \in R : edges[<<y, x>>] > 0
        BY <2>1, <2>3, <2>5, <3>2, Zenon
      <4>2. x \in Ids /\ y \in Ids /\ Reachable(x, f)
        BY <1>1, <2>1, Zenon
      <4>3. Reachable(y, f)
        BY <4>1, <4>2, Zenon DEF Reachable, SuccClosed
      <4> QED
        BY <1>3, <2>1, <4>1, <4>2, <4>3, Zenon
    <3> QED
      BY <3>1, <3>2, Zenon
  <2>7. S \in (SUBSET Ids) \ {{}}
    BY <1>1, <2>1, <2>2, Zenon
  <2> QED
    BY <2>6, <2>7, Zenon DEF NoCycle
<1> QED
  BY <1>1, <1>5, <1>6, Zenon

\* What Validate is to say: DAG's answer.
Accepts == IF edge = noEdge THEN Validate ELSE ~AddEdgeFails(edge[1], edge[2])

Asked == nodes # {} /\ (edge = noEdge \/ edge \in nodes \X nodes)

LEMMA AcceptsNoCycle ==
  ASSUME GraphOK, Asked
  PROVE  NoCycle(Searched) <=> Accepts
<1>1. CASE edge = noEdge
  <2>1. \A x, y \in Ids : edge # <<x, y>>
    BY <1>1, Zenon DEF noEdge
  <2>2. ASSUME NEW x \in Ids, NEW y \in Ids PROVE y \notin Searched[x] <=> edges[<<x, y>>] = 0
    <3>1. PICK e \in Nat : e = edges[<<x, y>>]
      BY SearchedGraph, Zenon
    <3>2. y \in Searched[x] <=> e > 0
      BY <2>1, <3>1, SearchedGraph, Zenon
    <3> QED
      BY <3>1, <3>2
  <2>3. ASSUME NEW S \in SUBSET Ids
        PROVE  (\E s \in S : \A p \in S : s \notin Searched[p]) <=> (\E s \in S : \A p \in S : edges[<<p, s>>] = 0)
    <3>1. \A p, s \in S : s \notin Searched[p] <=> edges[<<p, s>>] = 0
      BY <2>2, Zenon
    <3> QED
      BY <3>1, Zenon
  <2>4. NoCycle(Searched) <=> Acyclic
    BY <2>3, Zenon DEF NoCycle, Acyclic
  <2> QED
    BY <1>1, <2>4, Zenon DEF Accepts, Validate, Asked
<1>2. CASE edge \in nodes \X nodes
  <2>1. PICK f \in Ids, t \in Ids : edge = <<f, t>> /\ f \in nodes /\ t \in nodes
    BY <1>2 DEF GraphOK, DAGTypeOK
  <2>2. AddEdgeFails(f, t) <=> Reachable(t, f)
    BY <2>1, Zenon DEF AddEdgeFails, Reachable
  <2>3. edge # noEdge /\ edge[1] = f /\ edge[2] = t
    BY <2>1, Zenon DEF noEdge
  <2> QED
    BY <2>1, <2>2, <2>3, EdgeCloses, Zenon DEF Accepts
<1> QED
  BY <1>1, <1>2, Zenon DEF Asked

\* The worklist: all that was taken off or is on the stack can be reached from
\* the start, the target is not among it, and the visited nodes have their
\* successors in it.
Worklist ==
  /\ edge \in nodes \X nodes /\ edge[1] # edge[2] /\ edges[edge] < MaxParallel
  /\ stack \subseteq Ids /\ visited \subseteq Ids
  /\ edge[2] \in stack \cup visited /\ edge[1] \notin stack \cup visited
  /\ \A v \in visited : Dependents(v) \subseteq stack \cup visited
  /\ \A v \in stack \cup visited : Reachable(edge[2], v)

NoLocals(s, v, c, p, t) ==
  s = {} /\ v = {} /\ c = [id \in Ids |-> "white"] /\ p = <<>> /\ t = [id \in Ids |-> {}]

\* The inductive invariant of the searches.
SearchInv ==
  /\ GraphOK
  /\ at = "reachable" => Worklist /\ color = allWhite /\ path = <<>> /\ todo = [id \in Ids |-> {}]
  /\ at = "validate" => Asked /\ DfsOK(Searched, color, path, todo) /\ stack = {} /\ visited = {}
  /\ at \notin {"reachable", "validate"} => NoLocals(stack, visited, color, path, todo)
  /\ at = "refused" => AddEdgeFails(edge[1], edge[2])
  /\ at = "valid" => Accepts
  /\ at = "invalid" => ~Accepts

\* Out of nodes: the visited nodes are closed, and the target is not one.
LEMMA NotReached ==
  ASSUME GraphOK, Worklist, stack = {}
  PROVE  ~AddEdgeFails(edge[1], edge[2])
<1>1. visited \in SUBSET Ids /\ edge[2] \in visited /\ edge[1] \notin visited
  BY Zenon DEF Worklist
<1>2. SuccClosed(visited)
  BY Zenon DEF Worklist, SuccClosed, Dependents
<1>3. ~Reachable(edge[2], edge[1])
  BY <1>1, <1>2, Zenon DEF Reachable
<1>4. edge[1] \in nodes /\ edge[2] \in nodes /\ edge[1] # edge[2]
  BY Zenon DEF Worklist
<1> QED
  BY <1>3, <1>4, Zenon DEF AddEdgeFails

LEMMA AddsEdgeIsAddEdge ==
  ASSUME SearchInv, AddsEdge
  PROVE  DAGNext
<1>1. GraphOK /\ Worklist /\ stack = {}
  BY Zenon DEF SearchInv, AddsEdge
<1>2. PICK f \in Ids, t \in Ids : edge = <<f, t>> /\ edge[1] = f /\ edge[2] = t
  BY <1>1 DEF Worklist, GraphOK, DAGTypeOK
<1>3. ~AddEdgeFails(f, t)
  BY <1>1, <1>2, NotReached, Zenon
<1>4. AddEdgeOk(f, t)
  BY <1>2, <1>3, Zenon DEF AddEdgeOk, AddsEdge
<1>5. edges[<<f, t>>] < MaxParallel
  BY <1>1, <1>2, Zenon DEF Worklist
<1> QED
  BY <1>4, <1>5, Zenon DEF DAGNext

\* A step of the searches is one of DAG, or leaves its graph alone.
LEMMA SearchIsDAG ==
  ASSUME SearchInv, [SearchNext]_searchVars
  PROVE  [DAGNext]_dagVars
<1>1. CASE UNCHANGED searchVars
  BY <1>1, Zenon DEF searchVars
<1>2. ASSUME NEW id \in Ids, CallAddNode(id) PROVE DAGNext
  BY <1>2, Zenon DEF CallAddNode, DAGNext
<1>3. ASSUME NEW id \in Ids, CallComplete(id) PROVE DAGNext
  BY <1>3, Zenon DEF CallComplete, DAGNext
<1>4. ASSUME NEW id \in Ids, Expand(id) \/ MeetTarget(id) \/ SkipVisited(id) PROVE UNCHANGED dagVars
  BY <1>4, Zenon DEF Expand, MeetTarget, SkipVisited
<1>5. ASSUME NEW from \in Ids, NEW to \in Ids, CallAddEdge(from, to) PROVE UNCHANGED dagVars
  BY <1>5, Zenon DEF CallAddEdge
<1>6. ASSUME NEW e, CallValidate(e) PROVE UNCHANGED dagVars
  BY <1>6, Zenon DEF CallValidate
<1>7. ASSUME NEW id \in Ids, Root(id) \/ Descend(id) \/ MeetBlack(id) \/ MeetGray(id) PROVE UNCHANGED dagVars
  BY <1>7, Zenon DEF Root, Descend, Enter, MeetBlack, MeetGray
<1>8. CASE Leave \/ AllVisited
  BY <1>8, Zenon DEF Leave, AllVisited
<1>9. CASE AddsEdge
  BY <1>9, AddsEdgeIsAddEdge, Zenon
<1> QED
  BY <1>1, <1>2, <1>3, <1>4, <1>5, <1>6, <1>7, <1>8, <1>9, Zenon DEF SearchNext

\* What the graph determines stays while the graph and the edge do.
LEMMA SearchFrame ==
  ASSUME UNCHANGED <<dagVars, edge>>
  PROVE  /\ \A x : Dependents(x)' = Dependents(x)
         /\ \A x, y : Reachable(x, y)' <=> Reachable(x, y)
         /\ AddEdgeFails(edge[1], edge[2])' <=> AddEdgeFails(edge[1], edge[2])
         /\ Accepts' <=> Accepts
         /\ Asked' <=> Asked
         /\ Searched' = Searched
<1> USE DEF dagVars
<1>1. \A x : Dependents(x)' = Dependents(x)
  BY Zenon DEF Dependents
<1>2. \A x, y : Reachable(x, y)' <=> Reachable(x, y)
  BY Zenon DEF Reachable, SuccClosed
<1>3. AddEdgeFails(edge[1], edge[2])' <=> AddEdgeFails(edge[1], edge[2])
  BY <1>2, Zenon DEF AddEdgeFails
<1>4. Accepts' <=> Accepts
  BY <1>3, Zenon DEF Accepts, Validate, Acyclic
<1>5. Asked' <=> Asked
  BY Zenon DEF Asked
<1>6. Searched' = Searched
  BY <1>1, Zenon DEF Searched, Succs
<1> QED
  BY <1>1, <1>2, <1>3, <1>4, <1>5, <1>6

\* Steps that leave the graph and the edge, one lemma per search.
LEMMA WorklistStep ==
  ASSUME SearchInv, NEW curr \in Ids, Expand(curr) \/ SkipVisited(curr)
  PROVE  SearchInv'
<1>1. UNCHANGED <<dagVars, edge>> /\ at = "reachable" /\ at' = "reachable" /\ UNCHANGED <<color, path, todo>>
  BY Zenon DEF Expand, SkipVisited
<1>2. GraphOK /\ Worklist /\ color = allWhite /\ path = <<>> /\ todo = [id \in Ids |-> {}]
  BY <1>1, Zenon DEF SearchInv
<1>3. GraphOK'
  BY <1>1, <1>2, GraphStep, Zenon
<1>4. UNCHANGED <<nodes, edges>>
  BY <1>1, Zenon DEF dagVars
<1>5. /\ \A x : Dependents(x)' = Dependents(x)
      /\ \A x, y : Reachable(x, y)' <=> Reachable(x, y)
  BY <1>1, SearchFrame, Zenon
<1>6. Worklist'
  <2>1. CASE SkipVisited(curr)
    <3>1. stack' \cup visited' = stack \cup visited /\ visited' = visited /\ stack' \subseteq stack
      BY <2>1, Zenon DEF SkipVisited
    <3> QED
      BY <1>1, <1>2, <1>4, <1>5, <3>1 DEF Worklist
  <2>2. CASE Expand(curr)
    <3>1. visited' = visited \cup {curr} /\ stack' = (stack \ {curr}) \cup Dependents(curr) /\ curr \in stack
          /\ edge[1] \notin Dependents(curr)
      BY <2>2, Zenon DEF Expand
    <3>2. Dependents(curr) \subseteq Ids
      BY Zenon DEF Dependents
    <3>3. stack' \cup visited' = stack \cup visited \cup Dependents(curr)
      BY <3>1, Zenon
    <3>4. ASSUME NEW v \in Dependents(curr) PROVE Reachable(edge[2], v)
      <4>1. Reachable(edge[2], curr) /\ edges[<<curr, v>>] > 0 /\ v \in Ids
        BY <1>2, <3>1, Zenon DEF Worklist, Dependents
      <4> QED
        BY <4>1, Zenon DEF Reachable, SuccClosed
    <3>5. \A v \in stack' \cup visited' : Reachable(edge[2], v)
      BY <1>2, <3>3, <3>4, Zenon DEF Worklist
    <3>6. \A v \in visited' : Dependents(v) \subseteq stack' \cup visited'
      BY <1>2, <3>1, <3>3, Zenon DEF Worklist
    <3>7. edge[2] \in stack' \cup visited' /\ edge[1] \notin stack' \cup visited'
      BY <1>2, <3>1, <3>3, Zenon DEF Worklist
    <3>8. stack' \subseteq Ids /\ visited' \subseteq Ids
      BY <1>2, <3>1, <3>2, Zenon DEF Worklist
    <3> QED
      BY <1>1, <1>2, <1>4, <1>5, <3>5, <3>6, <3>7, <3>8 DEF Worklist
  <2> QED
    BY <2>1, <2>2, Zenon
<1> QED
  BY <1>1, <1>2, <1>3, <1>6 DEF SearchInv, allWhite

\* A search returns: its locals are gone and the answer is what DAG says.
LEMMA ReturnStep ==
  ASSUME SearchInv, GraphOK', UNCHANGED dagVars, NEW what \in {"refused", "valid", "invalid"}, Return(what),
         what = "refused" => AddEdgeFails(edge[1], edge[2]),
         what = "valid" => Accepts,
         what = "invalid" => ~Accepts
  PROVE  SearchInv'
<1>1. /\ AddEdgeFails(edge[1], edge[2])' <=> AddEdgeFails(edge[1], edge[2])
      /\ Accepts' <=> Accepts
  BY SearchFrame, Zenon DEF Return
<1>2. at' = what /\ NoLocals(stack, visited, color, path, todo)'
  BY Zenon DEF Return, NoLocals, allWhite
<1> QED
  BY <1>1, <1>2, Zenon DEF SearchInv

LEMMA MeetTargetStep ==
  ASSUME SearchInv, NEW curr \in Ids, MeetTarget(curr)
  PROVE  SearchInv'
<1>1. GraphOK /\ Worklist /\ curr \in stack /\ edge[1] \in Dependents(curr) /\ Return("refused") /\ UNCHANGED dagVars
  BY Zenon DEF SearchInv, MeetTarget
<1>2. Reachable(edge[2], curr) /\ edges[<<curr, edge[1]>>] > 0 /\ edge[1] \in Ids
  BY <1>1, Zenon DEF Worklist, Dependents
<1>3. Reachable(edge[2], edge[1])
  BY <1>2, Zenon DEF Reachable, SuccClosed
<1>4. AddEdgeFails(edge[1], edge[2])
  BY <1>3, Zenon DEF AddEdgeFails
<1>5. GraphOK'
  BY <1>1, GraphStep, Zenon
<1> QED
  BY <1>1, <1>4, <1>5, ReturnStep

\* A step of dfs that keeps running.
LEMMA DfsStep ==
  ASSUME SearchInv, at = "validate", UNCHANGED <<dagVars, at, edge, stack, visited>>,
         NEW G, G = Searched, DfsOK(G, color, path, todo) => DfsOK(G, color', path', todo')
  PROVE  SearchInv'
<1>1. GraphOK'
  BY GraphStep, Zenon DEF SearchInv
<1>2. Asked' /\ Searched' = G
  BY SearchFrame, Zenon DEF SearchInv
<1>3. DfsOK(G, color', path', todo')
  BY Zenon DEF SearchInv
<1>4. DfsOK(Searched, color, path, todo)'
  BY <1>2, <1>3, Zenon DEF DfsOK
<1>5. stack' = {} /\ visited' = {} /\ at' = "validate"
  BY Zenon DEF SearchInv
<1> QED
  BY <1>1, <1>2, <1>4, <1>5 DEF SearchInv

LEMMA ValidateStep ==
  ASSUME SearchInv, NEW s \in Ids,
         Root(s) \/ Descend(s) \/ MeetBlack(s) \/ MeetGray(s) \/ Leave \/ AllVisited
  PROVE  SearchInv'
<1>1. at = "validate" /\ GraphOK /\ Asked /\ DfsOK(Searched, color, path, todo)
  BY Zenon DEF SearchInv, Root, Descend, MeetBlack, MeetGray, Leave, AllVisited
<1>2. PICK G \in [Ids -> SUBSET Ids] : G = Searched /\ \A x \in Ids : G[x] = Succs(x)
  BY <1>1, SearchedGraph, Zenon DEF Searched
<1>3. DfsOK(G, color, path, todo)
  BY <1>1, <1>2, Zenon
<1>4. color \in [Ids -> Colors] /\ path \in Seq(Ids) /\ todo \in [Ids -> SUBSET Ids]
  BY <1>3, Zenon DEF DfsOK
<1>5. \A j, k \in 1 .. Len(path) : path[j] = path[k] => j = k
  BY <1>3, Zenon DEF DfsOK
<1>6. PICK n \in Nat : n = Len(path)
  BY <1>4
<1>7. (path # <<>> => n # 0 /\ top \in Ids /\ top = path[n]) /\ (path = <<>> => n = 0)
  BY <1>4, <1>6 DEF top
<1>8. CASE Root(s)
  <2>1. UNCHANGED <<dagVars, at, edge, stack, visited>> /\ color' = [color EXCEPT ![s] = "gray"]
        /\ path' = Append(path, s) /\ color[s] = "white" /\ path = <<>> /\ todo' = [todo EXCEPT ![s] = G[s]]
    BY <1>2, <1>8, Zenon DEF Root, Enter
  <2>2. todo' \in [Ids -> SUBSET Ids] /\ todo'[s] = G[s]
    BY <1>4, <2>1, Zenon
  <2>3. Len(path) = 0
    BY <2>1, Zenon
  <2>4. HandsOn(path, todo, s, todo')
    BY <2>3 DEF HandsOn
  <2>5. DfsOK(G, color', path', todo')
    BY <1>3, <2>1, <2>2, <2>4, DfsEnters, Zenon
  <2> QED
    BY <1>1, <1>2, <2>1, <2>5, DfsStep, Zenon
<1>9. CASE Descend(s)
  <2>1. UNCHANGED <<dagVars, at, edge, stack, visited>> /\ color' = [color EXCEPT ![s] = "gray"]
        /\ path' = Append(path, s) /\ color[s] = "white" /\ path # <<>> /\ s \in todo[top]
        /\ todo' = [[todo EXCEPT ![top] = @ \ {s}] EXCEPT ![s] = G[s]]
    BY <1>2, <1>9, Zenon DEF Descend, Enter, Passed
  <2>2. todo' \in [Ids -> SUBSET Ids] /\ todo'[s] = G[s]
        /\ \A x \in Ids \ {s, top} : todo'[x] = todo[x]
    BY <1>4, <1>7, <2>1, Zenon
  <2>3. \A k \in 1 .. n : path[k] # s
    <3>1. \A k \in 1 .. n : color[path[k]] = "gray"
      BY <1>3, <1>4, <1>6 DEF DfsOK
    <3> QED
      BY <2>1, <3>1, Zenon
  <2>4. \A k \in 1 .. n - 1 : path[k] \in Ids /\ path[k] # path[n]
    BY <1>4, <1>5, <1>6
  <2>5. \A k \in 1 .. Len(path) - 1 : todo'[path[k]] = todo[path[k]]
    BY <1>6, <1>7, <2>1, <2>2, <2>3, <2>4
  <2>6. top # s
    BY <1>7, <2>1, <2>3
  <2>7. todo'[top] = todo[top] \ {s}
    BY <1>4, <1>7, <2>1, <2>6, Zenon
  <2>8. Len(path) > 0 => s \in todo[path[Len(path)]] /\ todo'[path[Len(path)]] = todo[path[Len(path)]] \ {s}
    BY <2>1, <2>7, Zenon DEF top
  <2>9. HandsOn(path, todo, s, todo')
    BY <2>5, <2>8, Zenon DEF HandsOn
  <2>10. DfsOK(G, color', path', todo')
    BY <1>3, <2>1, <2>2, <2>9, DfsEnters, Zenon
  <2> QED
    BY <1>1, <1>2, <2>1, <2>10, DfsStep, Zenon
<1>10. CASE MeetBlack(s)
  <2>1. UNCHANGED <<dagVars, at, edge, stack, visited, color, path>> /\ color[s] = "black" /\ path # <<>>
        /\ todo' = [todo EXCEPT ![top] = @ \ {s}]
    BY <1>10, Zenon DEF MeetBlack, Passed
  <2>2. DfsOK(G, color, path, todo')
    BY <1>3, <1>7, <2>1, DfsPasses, Zenon
  <2> QED
    BY <1>1, <1>2, <2>1, <2>2, DfsStep, Zenon
<1>11. CASE MeetGray(s)
  <2>1. UNCHANGED dagVars /\ Return("invalid") /\ path # <<>> /\ s \in todo[path[n]] /\ color[s] = "gray"
    BY <1>7, <1>11, Zenon DEF MeetGray
  <2>2. ~NoCycle(G)
    BY <1>3, <1>6, <1>7, <2>1, DfsFinds
  <2>3. ~Accepts
    BY <1>1, <1>2, <2>2, AcceptsNoCycle
  <2>4. GraphOK'
    BY <1>1, <2>1, GraphStep
  <2> QED
    BY <2>1, <2>3, <2>4, ReturnStep
<1>12. CASE Leave
  <2>1. UNCHANGED <<dagVars, at, edge, stack, visited, todo>> /\ path # <<>> /\ todo[top] = {}
        /\ color' = [color EXCEPT ![top] = "black"] /\ path' = SubSeq(path, 1, Len(path) - 1)
    BY <1>12, Zenon DEF Leave
  <2>2. DfsOK(G, color', path', todo)
    BY <1>3, <1>6, <1>7, <2>1, DfsLeaves, Zenon
  <2> QED
    BY <1>1, <1>2, <2>1, <2>2, DfsStep, Zenon
<1>13. CASE AllVisited
  <2>1. UNCHANGED dagVars /\ Return("valid") /\ path = <<>> /\ \A x \in nodes : color[x] # "white"
    BY <1>13, Zenon DEF AllVisited
  <2>2. \A x, y \in Ids : y \in G[x] => y \in nodes
    <3> SUFFICES ASSUME NEW x \in Ids, NEW y \in Ids, y \in G[x] PROVE y \in nodes
      BY Zenon
    <3>1. edges[<<x, y>>] > 0 \/ edge = <<x, y>>
      BY <1>1, <1>2, SearchedGraph, Zenon
    <3>2. CASE edges[<<x, y>>] > 0
      BY <1>1, <3>2, Zenon DEF GraphOK, EdgesWithin
    <3>3. CASE edge = <<x, y>>
      BY <1>1, <3>3, Zenon DEF Asked, noEdge
    <3> QED
      BY <3>1, <3>2, <3>3
  <2>3. NoCycle(G)
    BY <1>3, <2>1, <2>2, DfsEnds, Zenon
  <2>4. Accepts
    BY <1>1, <1>2, <2>3, AcceptsNoCycle
  <2>5. GraphOK'
    BY <1>1, <2>1, GraphStep, Zenon
  <2> QED
    BY <2>1, <2>4, <2>5, ReturnStep
<1> QED
  BY <1>8, <1>9, <1>10, <1>11, <1>12, <1>13

\* The calls: an operation on the graph, or the start of a search.
LEMMA CallStep ==
  ASSUME SearchInv, [SearchNext]_searchVars,
         \/ \E id \in Ids : CallAddNode(id)
         \/ \E id \in Ids : CallComplete(id)
         \/ \E from, to \in Ids : CallAddEdge(from, to)
         \/ \E e \in {noEdge} \cup nodes \X nodes : CallValidate(e)
         \/ AddsEdge
  PROVE  SearchInv'
<1>1. GraphOK /\ GraphOK'
  BY SearchIsDAG, GraphStep, Zenon DEF SearchInv
<1>2. ASSUME Idle PROVE NoLocals(stack, visited, color, path, todo)
  BY <1>2, Zenon DEF SearchInv, Idle
<1>3. ASSUME NEW id, CallAddNode(id) \/ CallComplete(id) PROVE SearchInv'
  <2>1. at' = "idle" /\ Idle /\ UNCHANGED localVars
    BY <1>3, Zenon DEF CallAddNode, CallComplete
  <2>2. NoLocals(stack, visited, color, path, todo)'
    BY <1>2, <2>1, Zenon DEF NoLocals, localVars
  <2> QED
    BY <1>1, <2>1, <2>2, Zenon DEF SearchInv
<1>4. CASE AddsEdge
  <2>1. at' = "added" /\ NoLocals(stack, visited, color, path, todo)'
    BY <1>4, Zenon DEF AddsEdge, Return, NoLocals, allWhite
  <2> QED
    BY <1>1, <2>1, Zenon DEF SearchInv
<1>5. ASSUME NEW from \in Ids, NEW to \in Ids, CallAddEdge(from, to) PROVE SearchInv'
  <2>1. /\ Idle /\ edges[<<from, to>>] < MaxParallel /\ edge' = <<from, to>>
        /\ UNCHANGED <<nodes, edges>> /\ UNCHANGED <<visited, color, path, todo>>
    BY <1>5, Zenon DEF CallAddEdge, dagVars
  <2>2. NoLocals(stack, visited, color, path, todo)
    BY <1>2, <2>1, Zenon
  <2>3. CASE from = to \/ from \notin nodes \/ to \notin nodes
    <3>1. at' = "refused" /\ UNCHANGED stack
      BY <1>5, <2>3, Zenon DEF CallAddEdge
    <3>2. AddEdgeFails(edge[1], edge[2])'
      BY <2>1, <2>3, Zenon DEF AddEdgeFails
    <3>3. NoLocals(stack, visited, color, path, todo)'
      BY <2>1, <2>2, <3>1, Zenon DEF NoLocals
    <3> QED
      BY <1>1, <3>1, <3>2, <3>3 DEF SearchInv
  <2>4. CASE ~(from = to \/ from \notin nodes \/ to \notin nodes)
    <3>1. at' = "reachable" /\ stack' = {to}
      BY <1>5, <2>4, Zenon DEF CallAddEdge
    <3>2. visited' = {} /\ color' = allWhite /\ path' = <<>> /\ todo' = [id \in Ids |-> {}]
      BY <2>1, <2>2, Zenon DEF NoLocals, allWhite
    <3>3. \A v \in stack' \cup visited' : Reachable(to, v)'
      BY <3>1, <3>2, Zenon DEF Reachable
    <3>4. Worklist'
      BY <2>1, <2>4, <3>1, <3>2, <3>3 DEF Worklist
    <3> QED
      BY <1>1, <3>1, <3>2, <3>4 DEF SearchInv, allWhite
  <2> QED
    BY <2>3, <2>4, Zenon
<1>6. ASSUME NEW e \in {noEdge} \cup nodes \X nodes, CallValidate(e) PROVE SearchInv'
  <2>1. Idle /\ edge' = e /\ UNCHANGED <<nodes, edges>> /\ UNCHANGED localVars
        /\ at' = (IF nodes = {} THEN "invalid" ELSE "validate")
    BY <1>6, Zenon DEF CallValidate, dagVars
  <2>2. NoLocals(stack, visited, color, path, todo)'
    BY <1>2, <2>1, Zenon DEF NoLocals, localVars
  <2>3. CASE nodes = {}
    <3>1. at' = "invalid" /\ edge' = noEdge /\ nodes' = {}
      BY <2>1, <2>3, Zenon
    <3>2. ~Accepts'
      BY <3>1, Zenon DEF Accepts, Validate, noEdge
    <3> QED
      BY <1>1, <2>2, <3>1, <3>2 DEF SearchInv
  <2>4. CASE nodes # {}
    <3>1. at' = "validate" /\ Asked'
      BY <2>1, <2>4 DEF Asked, noEdge
    <3>2. PICK G : G = Searched'
      BY Zenon
    <3>3. DfsOK(G, color', path', todo')
      BY <2>2 DEF NoLocals, DfsOK, Colors
    <3>4. DfsOK(Searched, color, path, todo)'
      BY <3>2, <3>3, Zenon DEF DfsOK
    <3> QED
      BY <1>1, <2>2, <3>1, <3>4 DEF SearchInv, NoLocals
  <2> QED
    BY <2>3, <2>4, Zenon
<1> QED
  BY <1>3, <1>4, <1>5, <1>6

LEMMA SearchStarts == SearchInit => SearchInv
  BY GraphStarts, Zenon DEF SearchInit, SearchInv, NoLocals, allWhite

LEMMA SearchStep ==
  ASSUME SearchInv, [SearchNext]_searchVars
  PROVE  SearchInv'
<1>1. CASE UNCHANGED searchVars
  <2>1. UNCHANGED <<dagVars, edge>> /\ UNCHANGED <<at, stack, visited, color, path, todo>>
    BY <1>1, Zenon DEF searchVars, localVars
  <2>2. GraphOK'
    BY <2>1, GraphStep, Zenon DEF SearchInv
  <2>3. UNCHANGED <<nodes, edges>>
    BY <2>1, Zenon DEF dagVars
  <2>4. Worklist' <=> Worklist
    BY <2>1, <2>3, SearchFrame, Zenon DEF Worklist
  <2>5. PICK G : G = Searched /\ G = Searched'
    BY <2>1, SearchFrame, Zenon
  <2>6. DfsOK(Searched, color, path, todo)' <=> DfsOK(Searched, color, path, todo)
    BY <2>1, <2>5 DEF DfsOK
  <2>7. /\ AddEdgeFails(edge[1], edge[2])' <=> AddEdgeFails(edge[1], edge[2])
        /\ Accepts' <=> Accepts
        /\ Asked' <=> Asked
    BY <2>1, SearchFrame, Zenon
  <2> QED
    BY <2>1, <2>2, <2>4, <2>6, <2>7, Zenon DEF SearchInv, NoLocals, allWhite
<1>2. ASSUME NEW id \in Ids, Expand(id) \/ MeetTarget(id) \/ SkipVisited(id) PROVE SearchInv'
  BY <1>2, WorklistStep, MeetTargetStep, Zenon
<1>3. ASSUME NEW id \in Ids, Root(id) \/ Descend(id) \/ MeetBlack(id) \/ MeetGray(id) PROVE SearchInv'
  BY <1>3, ValidateStep, Zenon
<1>4. CASE Leave \/ AllVisited
  <2>1. PICK id : id \in Ids
    <3>1. CASE Leave
      BY <3>1 DEF Leave, SearchInv, DfsOK, top
    <3>2. CASE AllVisited
      BY <3>2, Zenon DEF AllVisited, SearchInv, Asked, GraphOK, DAGTypeOK
    <3> QED
      BY <1>4, <3>1, <3>2, Zenon
  <2> QED
    BY <1>4, <2>1, ValidateStep, Zenon
<1> QED
  BY <1>1, <1>2, <1>3, <1>4, CallStep, Zenon DEF SearchNext

\* The searches of dag.go implement the operations of DAG: AddEdge with its
\* worklist adds an edge exactly where DAG's AddEdge may, and no turn of a
\* search touches the graph.
THEOREM SearchImplementsDAG == SearchSpec => DAGSpec
<1>1. SearchInit => NewDAG
  BY Zenon DEF SearchInit
<1>2. SearchInv /\ [SearchNext]_searchVars => [DAGNext]_dagVars
  BY SearchIsDAG, Zenon
<1>3. SearchInv /\ [SearchNext]_searchVars => SearchInv'
  BY SearchStep, Zenon
<1> QED
  BY <1>1, <1>2, <1>3, SearchStarts, PTL DEF SearchSpec, DAGSpec

\* At every turn of the searches, for every set of nodes: reachable() meets its
\* target, and runs out of nodes, only where DAG's definition says so, and
\* Validate accepts exactly the graphs without a cycle, and a graph with one
\* edge more exactly when AddEdge would let that edge in.
THEOREM SearchesAlwaysAgree == SearchSpec => []SearchesAgree
<1>1. SearchInv => SearchesAgree
  BY NotReached, Zenon DEF SearchInv, SearchesAgree, Accepts
<1>2. SearchInv /\ [SearchNext]_searchVars => SearchInv'
  BY SearchStep
<1> QED
  BY <1>1, <1>2, SearchStarts, PTL DEF SearchSpec

\* So the graph that the searches guard stays acyclic, and a node is ready only
\* when all it depends on is complete: what is proved of DAG holds of its
\* implementation.
THEOREM SearchKeepsGraph == SearchSpec => [](AddEdgeKeepsAcyclic /\ ReadyWaitsForAll)
  BY SearchImplementsDAG, DAGStaysAcyclic, ReadyWaits, PTL
============================================================================
