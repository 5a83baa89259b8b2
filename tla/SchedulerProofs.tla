-------------------------- MODULE SchedulerProofs --------------------------
(***************************************************************************)
(* What AddEdge and Complete preserve, for every set of node ids; and then *)
(* proofs about Schedule for every set of task ids and result states.  The *)
(* inductive invariant relates the graph's counters, the skip marks, the   *)
(* recorded outcomes and the wave in progress.                             *)
(***************************************************************************)
EXTENDS Scheduler, FiniteSetTheorems, SequenceTheorems, TLAPS

----------------------------------------------------------------------------
(* The graph                                                               *)

\* The incomplete incoming edges of t, parallel ones told apart.
Pending(t) == UNION {{p} \X (1 .. edges[<<p, t>>]) : p \in Ids \ completed}

\* The counter of every node is the number of its incomplete incoming edges.
CountersExact ==
  \A t \in Ids : IsFiniteSet(Pending(t)) /\ inDegree[t] = Cardinality(Pending(t))

\* Edges join registered nodes.
EdgesWithin == \A p, q \in Ids : edges[<<p, q>>] > 0 => p \in nodes /\ q \in nodes

----------------------------------------------------------------------------

\* The nodes reachable from a node form a successor-closed set around it.
LEMMA ReachableClosed ==
  ASSUME NEW start \in Ids
  PROVE  LET R == {n \in Ids : Reachable(start, n)}
         IN  start \in R /\ SuccClosed(R)
BY Zenon DEF Reachable, SuccClosed

\* The check of AddEdge (dag.go:69) is sufficient: an edge whose source is not
\* reachable from its target closes no cycle.  If every node of S had a
\* predecessor in S afterwards, the part of S not reachable from the target
\* would be such a set before; so S is reachable from the target, the new
\* edge's source is outside S, and S itself was such a set before.
LEMMA AddEdgeAcyclic ==
  ASSUME DAGTypeOK, Acyclic, NEW from \in Ids, NEW to \in Ids, AddEdgeOk(from, to)
  PROVE  Acyclic'
<1> DEFINE R == {n \in Ids : Reachable(to, n)}
<1>1. to \in R /\ SuccClosed(R)
  BY ReachableClosed, Zenon
<1>2. from \notin R
  BY Zenon DEF AddEdgeOk, AddEdgeFails
<1>3. \A p, q \in Ids : edges'[<<p, q>>] = 0 => edges[<<p, q>>] = 0
  BY DEF AddEdgeOk, DAGTypeOK
<1>4. \A p, q \in Ids : <<p, q>> # <<from, to>> => edges'[<<p, q>>] = edges[<<p, q>>]
  BY Zenon DEF AddEdgeOk, DAGTypeOK
<1> SUFFICES ASSUME NEW S \in (SUBSET Ids) \ {{}},
                    \A s \in S : \E p \in S : edges'[<<p, s>>] # 0
             PROVE  FALSE
  BY Zenon DEF Acyclic
<1>5. S \ R = {}
  <2> SUFFICES ASSUME S \ R # {} PROVE FALSE
    BY Zenon
  <2>1. PICK s \in S \ R : \A p \in S \ R : edges[<<p, s>>] = 0
    BY Zenon DEF Acyclic
  <2>2. PICK p \in S : edges'[<<p, s>>] # 0
    BY Zenon
  <2>3. edges[<<p, s>>] # 0
    BY <1>1, <1>4, <2>1, <2>2, Zenon
  <2>4. p \in R
    BY <2>1, <2>3, Zenon
  <2>5. edges[<<p, s>>] > 0
    BY <2>3 DEF DAGTypeOK
  <2>. QED
    BY <1>1, <2>1, <2>4, <2>5, Zenon DEF SuccClosed
<1>6. PICK s \in S : \A p \in S : edges[<<p, s>>] = 0
  BY Zenon DEF Acyclic
<1>7. PICK p \in S : edges'[<<p, s>>] # 0
  BY Zenon
<1>8. p # from
  BY <1>2, <1>5, Zenon
<1>. QED
  BY <1>4, <1>6, <1>7, <1>8, Zenon

\* A node without open incoming edges has no incomplete predecessor.
LEMMA NothingPending ==
  ASSUME DAGTypeOK, NEW t \in Ids, Pending(t) = {}, NEW p \in Ids \ completed
  PROVE  edges[<<p, t>>] = 0
<1>1. edges[<<p, t>>] \in Nat
  BY Zenon DEF DAGTypeOK
<1>2. ASSUME 1 \in 1 .. edges[<<p, t>>] PROVE FALSE
  <2>1. <<p, 1>> \in {p} \X (1 .. edges[<<p, t>>])
    BY <1>2, Zenon
  <2>. QED
    BY <2>1, Zenon DEF Pending
<1>. QED
  BY <1>1, <1>2

\* A node that is not complete and whose counter is zero has no incomplete
\* predecessor.
LEMMA ZeroCounter ==
  ASSUME DAGTypeOK, CountersExact, NEW t \in Ids, inDegree[t] = 0,
         NEW p \in Ids \ completed
  PROVE  edges[<<p, t>>] = 0
<1>1. Pending(t) = {}
  BY FS_EmptySet, Zenon DEF CountersExact
<1>. QED
  BY <1>1, NothingPending, Zenon

\* Conversely a node without incomplete predecessors has counter zero.
LEMMA NoPredecessorZero ==
  ASSUME DAGTypeOK, CountersExact, NEW t \in Ids,
         \A p \in Ids \ completed : edges[<<p, t>>] = 0
  PROVE  inDegree[t] = 0
<1>1. ASSUME NEW p \in Ids \ completed
      PROVE  {p} \X (1 .. edges[<<p, t>>]) = {}
  <2>1. 1 .. edges[<<p, t>>] = {}
    OBVIOUS
  <2>. QED
    BY <2>1, Zenon
<1>2. Pending(t) = {}
  BY <1>1, Zenon DEF Pending
<1>. QED
  BY <1>2, FS_EmptySet, Zenon DEF CountersExact

\* k parallel edges of p are k elements of Pending.
LEMMA ParallelCount ==
  ASSUME NEW p, NEW k \in Nat
  PROVE  /\ IsFiniteSet({p} \X (1 .. k))
         /\ Cardinality({p} \X (1 .. k)) = k
<1> DEFINE f == [i \in 1 .. k |-> <<p, i>>]
<1>1. f \in Bijection(1 .. k, {p} \X (1 .. k))
  BY DEF Bijection, Injection, Surjection, IsInjective
<1>2. IsFiniteSet(1 .. k) /\ Cardinality(1 .. k) = k
  BY FS_Interval
<1>. QED
  BY <1>1, <1>2, FS_Bijection DEF ExistsBijection

\* AddEdge adds one to the counter of its target, and one element to its open
\* incoming edges unless the source is complete.
LEMMA AddEdgePending ==
  ASSUME DAGTypeOK, NEW from \in Ids, NEW to \in Ids, AddEdgeOk(from, to)
  PROVE  LET new == <<from, edges[<<from, to>>] + 1>> IN
         /\ \A t \in Ids \ {to} : Pending(t)' = Pending(t) /\ inDegree'[t] = inDegree[t]
         /\ inDegree'[to] = inDegree[to] + 1
         /\ from \in completed => Pending(to)' = Pending(to)
         /\ from \notin completed => Pending(to)' = Pending(to) \cup {new} /\ new \notin Pending(to)
<1> DEFINE k == edges[<<from, to>>]
           new == <<from, k + 1>>
<1>0. k \in Nat
  BY Zenon DEF DAGTypeOK
<1>1. edges' = [edges EXCEPT ![<<from, to>>] = k + 1] /\ completed' = completed
  BY Zenon DEF AddEdgeOk
<1>2. inDegree' = [inDegree EXCEPT ![to] = @ + 1]
  BY Zenon DEF AddEdgeOk
<1>3. ASSUME NEW t \in Ids, t # to
      PROVE  Pending(t)' = Pending(t) /\ inDegree'[t] = inDegree[t]
  <2>1. \A p \in Ids : edges'[<<p, t>>] = edges[<<p, t>>]
    BY <1>1, <1>3, Zenon DEF DAGTypeOK
  <2>. QED
    BY <1>1, <1>2, <1>3, <2>1 DEF Pending, DAGTypeOK
<1>4. \A p \in Ids : p # from => edges'[<<p, to>>] = edges[<<p, to>>]
  BY <1>1, Zenon DEF DAGTypeOK
<1>5. ASSUME from \in completed PROVE Pending(to)' = Pending(to)
  <2>1. \A p \in Ids \ completed : edges'[<<p, to>>] = edges[<<p, to>>]
    BY <1>4, <1>5, Zenon
  <2>. QED
    BY <1>1, <2>1, Zenon DEF Pending
<1>6. ASSUME from \notin completed PROVE Pending(to)' = Pending(to) \cup {new}
  <2>2. edges'[<<from, to>>] = k + 1
    BY <1>1, Zenon DEF DAGTypeOK
  <2>3. 1 .. (k + 1) = (1 .. k) \cup {k + 1}
    BY <1>0
  <2>4. {from} \X (1 .. (k + 1)) = ({from} \X (1 .. k)) \cup {new}
    BY <2>3
  <2>5. Pending(to) \subseteq Pending(to)'
    <3> SUFFICES ASSUME NEW p \in Ids \ completed, NEW e \in {p} \X (1 .. edges[<<p, to>>])
                 PROVE  e \in Pending(to)'
      BY Zenon DEF Pending
    <3>1. e \in {p} \X (1 .. edges'[<<p, to>>])
      BY <1>4, <2>2, <2>4, Zenon
    <3>. QED
      BY <1>1, <3>1, Zenon DEF Pending
  <2>6. new \in Pending(to)'
    BY <1>1, <1>6, <2>2, <2>4, Zenon DEF Pending
  <2>7. Pending(to)' \subseteq Pending(to) \cup {new}
    <3> SUFFICES ASSUME NEW p \in Ids \ completed, NEW e \in {p} \X (1 .. edges'[<<p, to>>])
                 PROVE  e \in Pending(to) \/ e = new
      BY <1>1, Zenon DEF Pending
    <3>1. e = new \/ e \in {p} \X (1 .. edges[<<p, to>>])
      BY <1>4, <2>2, <2>4
    <3>. QED
      BY <3>1, Zenon DEF Pending
  <2>. QED
    BY <2>5, <2>6, <2>7, Zenon
<1>7. new \notin Pending(to)
  <2> SUFFICES ASSUME NEW p \in Ids \ completed, new \in {p} \X (1 .. edges[<<p, to>>])
               PROVE  FALSE
    BY Zenon DEF Pending
  <2>1. p = from /\ k + 1 \in 1 .. k
    BY Zenon
  <2>. QED
    BY <1>0, <2>1
<1>8. inDegree'[to] = inDegree[to] + 1
  BY <1>2, Zenon DEF DAGTypeOK
<1>. QED
  BY <1>3, <1>5, <1>6, <1>7, <1>8, Zenon

\* AddEdge keeps the counters exact when its source is not complete, which is so
\* for a caller that adds all edges before it completes a node.
LEMMA AddEdgeCounters ==
  ASSUME DAGTypeOK, CountersExact, NEW from \in Ids, NEW to \in Ids,
         from \notin completed, AddEdgeOk(from, to)
  PROVE  CountersExact'
<1>1. PICK new : /\ \A t \in Ids \ {to} : Pending(t)' = Pending(t) /\ inDegree'[t] = inDegree[t]
                 /\ inDegree'[to] = inDegree[to] + 1
                 /\ Pending(to)' = Pending(to) \cup {new} /\ new \notin Pending(to)
  BY AddEdgePending, Zenon
<1>2. /\ IsFiniteSet(Pending(to)')
      /\ Cardinality(Pending(to)') = Cardinality(Pending(to)) + 1
  BY <1>1, FS_AddElement DEF CountersExact
<1>3. inDegree'[to] = Cardinality(Pending(to)')
  BY <1>1, <1>2, Zenon DEF CountersExact
<1>. QED
  BY <1>1, <1>2, <1>3, Zenon DEF CountersExact

\* Complete takes the edges of its node from the open ones and from the counters.
LEMMA CompletePending ==
  ASSUME DAGTypeOK, NEW id \in Ids \ completed, Complete(id),
         NEW t \in Ids, IsFiniteSet(Pending(t))
  PROVE  /\ IsFiniteSet(Pending(t)') /\ Cardinality(Pending(t)') \in Nat
         /\ Cardinality(Pending(t)) = Cardinality(Pending(t)') + edges[<<id, t>>]
         /\ inDegree'[t] = inDegree[t] - edges[<<id, t>>]
<1>1. /\ completed' = completed \cup {id}
      /\ inDegree' = [s \in Ids |-> inDegree[s] - edges[<<id, s>>]]
      /\ edges' = edges
  BY Zenon DEF Complete
<1> DEFINE k == edges[<<id, t>>]
           gone == {id} \X (1 .. k)
<1>2. k \in Nat
  BY Zenon DEF DAGTypeOK
<1>3. Pending(t) = Pending(t)' \cup gone
  <2>1. Ids \ completed = (Ids \ completed') \cup {id}
    BY <1>1, Zenon
  <2>. QED
    BY <1>1, <2>1, Zenon DEF Pending
<1>4. Pending(t)' \cap gone = {}
  <2> SUFFICES ASSUME NEW p \in Ids \ completed', NEW e \in {p} \X (1 .. edges'[<<p, t>>]),
                      e \in gone
               PROVE  FALSE
    BY Zenon DEF Pending
  <2>1. e[1] = p /\ e[1] = id
    BY Zenon
  <2>. QED
    BY <1>1, <2>1, Zenon
<1>5. IsFiniteSet(gone) /\ Cardinality(gone) = k
  BY <1>2, ParallelCount, Zenon
<1>6. Pending(t)' \in SUBSET Pending(t)
  BY <1>3, Zenon
<1>7. IsFiniteSet(Pending(t)')
  BY <1>6, FS_Subset, Zenon
<1>8. Cardinality(Pending(t)) =
        Cardinality(Pending(t)') + Cardinality(gone) - Cardinality({})
  BY <1>3, <1>4, <1>5, <1>7, FS_Union
<1>9. Cardinality(Pending(t)') \in Nat
  BY <1>7, FS_CardinalityType, Zenon
<1>. QED
  BY <1>1, <1>2, <1>5, <1>7, <1>8, <1>9, FS_EmptySet

\* Complete keeps the counters exact.
LEMMA CompleteCounters ==
  ASSUME DAGTypeOK, CountersExact, NEW id \in Ids, Complete(id)
  PROVE  CountersExact'
<1>1. CASE id \in completed
  BY <1>1, Zenon DEF Complete, CountersExact, Pending
<1>2. CASE id \notin completed
  <2> SUFFICES ASSUME NEW t \in Ids
               PROVE  /\ IsFiniteSet(Pending(t)')
                      /\ inDegree'[t] = Cardinality(Pending(t)')
    BY Zenon DEF CountersExact
  <2>1. IsFiniteSet(Pending(t)) /\ inDegree[t] = Cardinality(Pending(t)) /\ edges[<<id, t>>] \in Nat
    BY Zenon DEF CountersExact, DAGTypeOK
  <2>. QED
    BY <1>2, <2>1, CompletePending
<1>. QED
  BY <1>1, <1>2, Zenon

----------------------------------------------------------------------------

\* Complete of any id keeps the type.
LEMMA CompleteType ==
  ASSUME DAGTypeOK, NEW id \in Ids, Complete(id)
  PROVE  DAGTypeOK'
<1>1. CASE id \in completed
  BY <1>1, Zenon DEF DAGTypeOK, Complete
<1>2. CASE id \notin completed
  <2>1. \A s \in Ids : inDegree[s] - edges[<<id, s>>] \in Int
    BY DEF DAGTypeOK
  <2>2. inDegree' \in [Ids -> Int]
    BY <1>2, <2>1, Zenon DEF Complete
  <2>. QED
    BY <1>2, <2>2, Zenon DEF DAGTypeOK, Complete
<1>. QED
  BY <1>1, <1>2, Zenon

\* DAG keeps its type.
LEMMA DAGTypeInductive ==
  ASSUME DAGTypeOK, [DAGNext]_dagVars
  PROVE  DAGTypeOK'
<1>1. ASSUME NEW id \in Ids, AddNode(id) PROVE DAGTypeOK'
  BY <1>1, Zenon DEF DAGTypeOK, AddNode
<1>2. ASSUME NEW from \in Ids, NEW to \in Ids, AddEdgeOk(from, to) PROVE DAGTypeOK'
  BY <1>2 DEF DAGTypeOK, AddEdgeOk
<1>3. ASSUME NEW id \in Ids, Complete(id) PROVE DAGTypeOK'
  BY <1>3, CompleteType, Zenon
<1>4. CASE UNCHANGED dagVars
  BY <1>4, Zenon DEF DAGTypeOK, dagVars
<1>. QED
  BY <1>1, <1>2, <1>3, <1>4, Zenon DEF DAGNext

\* No sequence of AddNode, AddEdge and Complete calls, over any set of ids,
\* leaves a cycle in the graph (dag.go:56-75).
THEOREM DAGStaysAcyclic == DAGSpec => []AddEdgeKeepsAcyclic
<1>1. NewDAG => DAGTypeOK /\ Acyclic
  BY DEF NewDAG, DAGTypeOK, Acyclic
<1>2. DAGTypeOK /\ Acyclic /\ [DAGNext]_dagVars => DAGTypeOK' /\ Acyclic'
  <2> SUFFICES ASSUME DAGTypeOK, Acyclic, [DAGNext]_dagVars
               PROVE  Acyclic'
    BY DAGTypeInductive, Zenon
  <2>1. ASSUME NEW id \in Ids, AddNode(id) PROVE Acyclic'
    BY <2>1, Zenon DEF AddNode, Acyclic
  <2>2. ASSUME NEW from \in Ids, NEW to \in Ids, AddEdgeOk(from, to) PROVE Acyclic'
    BY <2>2, AddEdgeAcyclic, Zenon
  <2>3. ASSUME NEW id \in Ids, Complete(id) PROVE Acyclic'
    BY <2>3, Zenon DEF Complete, Acyclic
  <2>4. CASE UNCHANGED dagVars
    BY <2>4, Zenon DEF dagVars, Acyclic
  <2>. QED
    BY <2>1, <2>2, <2>3, <2>4, Zenon DEF DAGNext
<1>. QED
  BY <1>1, <1>2, PTL DEF DAGSpec, AddEdgeKeepsAcyclic

\* A counter may be above the number of open edges, as an edge from a node that
\* is complete already is counted too, but it is never below it.
CountersCover ==
  \A t \in Ids : IsFiniteSet(Pending(t)) /\ Cardinality(Pending(t)) <= inDegree[t]

\* Whatever the order of the calls, the counters cover the open edges.
LEMMA CoverInductive ==
  ASSUME DAGTypeOK, CountersCover, [DAGNext]_dagVars
  PROVE  CountersCover'
<1>0. \A t \in Ids : /\ IsFiniteSet(Pending(t)) /\ Cardinality(Pending(t)) \in Nat
                     /\ Cardinality(Pending(t)) <= inDegree[t] /\ inDegree[t] \in Int
  BY FS_CardinalityType, Zenon DEF CountersCover, DAGTypeOK
<1>1. ASSUME NEW id \in Ids, AddNode(id) PROVE CountersCover'
  BY <1>1, Zenon DEF AddNode, CountersCover, Pending
<1>2. ASSUME NEW from \in Ids, NEW to \in Ids, AddEdgeOk(from, to) PROVE CountersCover'
  <2>1. PICK new : /\ \A t \in Ids \ {to} : Pending(t)' = Pending(t) /\ inDegree'[t] = inDegree[t]
                   /\ inDegree'[to] = inDegree[to] + 1
                   /\ \/ Pending(to)' = Pending(to)
                      \/ Pending(to)' = Pending(to) \cup {new} /\ new \notin Pending(to)
    BY <1>2, AddEdgePending, Zenon
  <2>2. IsFiniteSet(Pending(to)') /\ Cardinality(Pending(to)') <= Cardinality(Pending(to)) + 1
    <3>1. CASE Pending(to)' = Pending(to)
      BY <1>0, <3>1
    <3>2. CASE Pending(to)' = Pending(to) \cup {new} /\ new \notin Pending(to)
      <4>1. IsFiniteSet(Pending(to)') /\ Cardinality(Pending(to)') = Cardinality(Pending(to)) + 1
        BY <1>0, <3>2, FS_AddElement
      <4>. QED
        BY <1>0, <4>1
    <3>. QED
      BY <2>1, <3>1, <3>2, Zenon
  <2>3. Cardinality(Pending(to)') \in Nat
    BY <2>2, FS_CardinalityType, Zenon
  <2>. QED
    BY <1>0, <2>1, <2>2, <2>3 DEF CountersCover
<1>3. ASSUME NEW id \in Ids, Complete(id) PROVE CountersCover'
  <2>1. CASE id \in completed
    BY <1>3, <2>1, Zenon DEF Complete, CountersCover, Pending
  <2>2. CASE id \notin completed
    <3> SUFFICES ASSUME NEW t \in Ids
                 PROVE  IsFiniteSet(Pending(t)') /\ Cardinality(Pending(t)') <= inDegree'[t]
      BY Zenon DEF CountersCover
    <3>1. id \in Ids \ completed /\ edges[<<id, t>>] \in Nat
      BY <2>2, Zenon DEF DAGTypeOK
    <3>. QED
      BY <1>0, <1>3, <3>1, CompletePending
  <2>. QED
    BY <2>1, <2>2, Zenon
<1>4. CASE UNCHANGED dagVars
  BY <1>4, Zenon DEF dagVars, CountersCover, Pending
<1>. QED
  BY <1>1, <1>2, <1>3, <1>4, Zenon DEF DAGNext

\* Ready lists no node with a predecessor to come, for any set of ids and any
\* order of AddNode, AddEdge and Complete, edges from nodes that are complete
\* already included (dag.go:56-75, :79-87, :94-108).
THEOREM ReadyWaits == DAGSpec => []ReadyWaitsForAll
<1>1. NewDAG => DAGTypeOK /\ CountersCover
  <2> SUFFICES ASSUME NewDAG PROVE DAGTypeOK /\ CountersCover
    BY Zenon
  <2>1. DAGTypeOK
    BY DEF NewDAG, DAGTypeOK
  <2>2. \A t \in Ids : Pending(t) = {}
    <3>1. \A p, t \in Ids : 1 .. edges[<<p, t>>] = {}
      BY DEF NewDAG
    <3>. QED
      BY <3>1, Zenon DEF Pending
  <2>. QED
    BY <2>1, <2>2, FS_EmptySet DEF NewDAG, CountersCover
<1>2. DAGTypeOK /\ CountersCover => ReadyWaitsForAll
  <2> SUFFICES ASSUME DAGTypeOK, CountersCover, NEW id \in Ready, NEW p \in nodes \ completed
               PROVE  edges[<<p, id>>] = 0
    BY Zenon DEF ReadyWaitsForAll
  <2>1. id \in Ids /\ p \in Ids \ completed /\ inDegree[id] = 0
    BY Zenon DEF Ready, DAGTypeOK
  <2>2. Cardinality(Pending(id)) = 0 /\ IsFiniteSet(Pending(id))
    BY <2>1, FS_CardinalityType DEF CountersCover
  <2>3. Pending(id) = {}
    BY <2>2, FS_EmptySet, Zenon
  <2>. QED
    BY <2>1, <2>3, NothingPending, Zenon
<1>3. DAGTypeOK /\ CountersCover /\ [DAGNext]_dagVars => DAGTypeOK' /\ CountersCover'
  BY DAGTypeInductive, CoverInductive, Zenon
<1>. QED
  BY <1>1, <1>2, <1>3, PTL DEF DAGSpec

----------------------------------------------------------------------------
(* Schedule                                                                *)

InLoop == phase \in {"select", "partition", "dispatch", "collect"}

\* Before the loop nothing is recorded, marked or under way.
Fresh ==
  phase \in {"index", "edges", "rejected"} =>
    /\ completed = {}
    /\ skip = {}
    /\ executionOrder = <<>>
    /\ batchNum = 0
    /\ \A t \in Ids : outcomes[t] = NoOutcome

\* In the loop the complete nodes are the ones with an outcome.
Recorded ==
  \A t \in Ids :
    /\ t \in completed => outcomes[t] # NoOutcome
    /\ phase # "done" /\ outcomes[t] # NoOutcome => t \in completed

\* A task is marked exactly when a complete dependency did not succeed.
Marked ==
  \A t \in Ids :
    t \in skip <=> \E d \in completed : edges[<<d, t>>] > 0 /\ outcomes[d].status # "completed"

\* The tasks the partition loop has still to look at are ready; none was
\* dropped from the list unless it was skipped.
ReadyList ==
  phase = "partition" =>
    /\ ready \subseteq Ready
    /\ ~skippedThisRound => ready = Ready /\ SomeRemain

\* The goroutines of a wave belong to tasks of the last batch, not complete.
Wave ==
  \A t \in Ids : call[t] # "idle" =>
    /\ phase \in {"dispatch", "collect"}
    /\ t \in nodes \ completed
    /\ t \in executionOrder[Len(executionOrder)]

\* A dispatched task is complete or has a goroutine; a task that is complete
\* was dispatched or skipped.
DispatchedOrSkipped ==
  /\ \A t \in Dispatched : t \in completed \/ call[t] # "idle"
  /\ \A t \in completed : t \in Dispatched <=> outcomes[t].status # "skipped"
  /\ \A t \in completed : outcomes[t].status = "skipped" => t \in skip
  /\ \A t \in completed : outcomes[t].batch >= 0

\* batchNum numbers the wave in progress, or the next one.
BatchCount ==
  Len(executionOrder) = IF phase \in {"dispatch", "collect"} THEN batchNum + 1 ELSE batchNum

\* A return with a nil error left no task incomplete.
NilErrorAllComplete == phase = "done" /\ ~retErr => nodes \subseteq completed

Graph == Acyclic /\ EdgesWithin /\ CountersExact

IInv ==
  /\ TypeOK
  /\ Graph
  /\ Fresh
  /\ Recorded
  /\ Marked
  /\ ReadyList
  /\ Wave
  /\ DispatchedOrSkipped
  /\ BatchCount
  /\ NilErrorAllComplete
  /\ DependenciesFirst
  /\ BatchesAgree

----------------------------------------------------------------------------
(* Steps that leave the graph and the outcomes alone                       *)

\* A step that leaves the graph alone keeps what is said of it.
LEMMA GraphFrame == Graph /\ UNCHANGED dagVars => Graph'
<1> SUFFICES ASSUME Graph, UNCHANGED dagVars PROVE Graph'
  BY Zenon
<1>1. edges' = edges /\ completed' = completed /\ nodes' = nodes /\ inDegree' = inDegree
  BY Zenon DEF dagVars
<1>2. Acyclic' /\ EdgesWithin'
  BY <1>1, Zenon DEF Graph, Acyclic, EdgesWithin
<1>3. \A t \in Ids : Pending(t)' = Pending(t)
  BY <1>1, Zenon DEF Pending
<1>4. CountersExact'
  BY <1>1, <1>3, Zenon DEF Graph, CountersExact
<1>. QED
  BY <1>2, <1>4, Zenon DEF Graph

\* A step that only moves goroutines between states other than idle, or that
\* only concerns the context or the agents, keeps the invariant.
LEMMA QuietStep ==
  ASSUME IInv, TypeOK', UNCHANGED <<dagVars, phase, loopVars, retErr>>,
         \A u \in Ids : call'[u] = "idle" <=> call[u] = "idle"
  PROVE  IInv'
<1>1. /\ nodes' = nodes /\ edges' = edges /\ inDegree' = inDegree
      /\ completed' = completed /\ phase' = phase /\ skip' = skip
      /\ outcomes' = outcomes /\ batchNum' = batchNum
      /\ executionOrder' = executionOrder /\ ready' = ready
      /\ skippedThisRound' = skippedThisRound /\ retErr' = retErr
  BY Zenon DEF dagVars, loopVars
<1>2. Graph'
  BY GraphFrame, Zenon DEF IInv
<1>3. Fresh' /\ Recorded' /\ Marked'
  BY <1>1, Zenon DEF IInv, Fresh, Recorded, Marked
<1>4. ReadyList'
  BY <1>1, Zenon DEF IInv, ReadyList, Ready, SomeRemain
<1>5. Wave'
  BY <1>1, Zenon DEF IInv, Wave
<1>6. Dispatched \subseteq Ids /\ Dispatched' = Dispatched
  BY <1>1 DEF IInv, TypeOK, Dispatched, Batches
<1>7. DispatchedOrSkipped'
  BY <1>1, <1>6, Zenon DEF IInv, DispatchedOrSkipped
<1>8. BatchCount' /\ NilErrorAllComplete'
  BY <1>1 DEF IInv, BatchCount, NilErrorAllComplete
<1>9. DependenciesFirst' /\ BatchesAgree'
  BY <1>1, <1>6, Zenon DEF IInv, DependenciesFirst, BatchesAgree, Batches
<1>. QED
  BY <1>2, <1>3, <1>4, <1>5, <1>7, <1>8, <1>9, Zenon DEF IInv

\* Cancelling the context keeps the invariant.
LEMMA CancelInv == IInv /\ Cancel => IInv'
<1> SUFFICES ASSUME IInv, Cancel PROVE IInv'
  BY Zenon
<1>1. TypeOK'
  BY Zenon DEF IInv, TypeOK, DAGTypeOK, Cancel, dagVars, loopVars
<1>. QED
  BY <1>1, QuietStep, Zenon DEF Cancel

\* An agent that ends a task keeps the invariant.
LEMMA AgentFinishesInv ==
  ASSUME IInv, NEW t \in Ids, AgentFinishes(t)
  PROVE  IInv'
<1>1. TypeOK'
  BY Zenon DEF IInv, TypeOK, DAGTypeOK, AgentFinishes, dagVars, loopVars
<1>. QED
  BY <1>1, QuietStep, Zenon DEF AgentFinishes

\* A dispatching goroutine that returns keeps the invariant.
LEMMA DispatchReturnsInv ==
  ASSUME IInv, NEW t \in Ids, DispatchReturns(t)
  PROVE  IInv'
<1>1. TypeOK'
  BY Zenon DEF IInv, TypeOK, DAGTypeOK, DispatchReturns, dagVars, loopVars, Calls
<1>2. \A u \in Ids : call'[u] = "idle" <=> call[u] = "idle"
  BY Zenon DEF IInv, TypeOK, DispatchReturns
<1>. QED
  BY <1>1, <1>2, QuietStep, Zenon DEF DispatchReturns

\* A WaitFor goroutine that returns keeps the invariant.
LEMMA WaitReturnsInv ==
  ASSUME IInv, NEW t \in Ids, WaitReturns(t)
  PROVE  IInv'
<1>1. TypeOK'
  BY Zenon DEF IInv, TypeOK, DAGTypeOK, WaitReturns, dagVars, loopVars, Calls, Replies
<1>2. \A u \in Ids : call'[u] = "idle" <=> call[u] = "idle"
  BY ResultStatesAssumption, Zenon DEF IInv, TypeOK, WaitReturns
<1>. QED
  BY <1>1, <1>2, QuietStep, Zenon DEF WaitReturns

----------------------------------------------------------------------------
(* Init                                                                    *)

\* The initial state satisfies the invariant.
LEMMA InitIInv == Init => IInv
<1> SUFFICES ASSUME Init PROVE IInv
  BY Zenon
<1>1. TypeOK
  <2>1. NoOutcome \in [status : Statuses, batch : Nat \cup {-1}]
    BY Zenon DEF NoOutcome, Statuses
  <2>2. outcomes \in [Ids -> [status : Statuses, batch : Nat \cup {-1}]]
    BY <2>1, Zenon DEF Init
  <2>3. DAGTypeOK
    BY DEF Init, NewDAG, DAGTypeOK
  <2>4. phase \in Phases /\ call \in [Ids -> Calls] /\ executionOrder \in Seq(SUBSET Ids)
    BY DEF Init, Phases, Calls
  <2>. QED
    BY <2>2, <2>3, <2>4, Zenon DEF Init, TypeOK
<1>2. Acyclic /\ EdgesWithin
  BY DEF Init, NewDAG, Acyclic, EdgesWithin
<1>3. CountersExact
  <2>1. ASSUME NEW t \in Ids, NEW p \in Ids
        PROVE  {p} \X (1 .. edges[<<p, t>>]) = {}
    <3>1. edges[<<p, t>>] = 0
      BY Zenon DEF Init, NewDAG
    <3>2. 1 .. 0 = {}
      OBVIOUS
    <3>3. {p} \X {} = {}
      BY Zenon
    <3>. QED
      BY <3>1, <3>2, <3>3, Zenon
  <2>2. ASSUME NEW t \in Ids PROVE Pending(t) = {}
    BY <2>1, Zenon DEF Pending
  <2>. QED
    BY <2>2, FS_EmptySet, Zenon DEF CountersExact, Init, NewDAG
<1>4. Dispatched = {} /\ Len(executionOrder) = 0 /\ Batches = {}
  BY DEF Dispatched, Batches, Init
<1>5. Fresh /\ Recorded /\ Marked /\ ReadyList /\ Wave /\ NilErrorAllComplete
  BY Zenon DEF Init, NewDAG, Fresh, Recorded, Marked, ReadyList, Wave, NilErrorAllComplete
<1>6. DispatchedOrSkipped /\ BatchCount /\ DependenciesFirst /\ BatchesAgree
  BY <1>4 DEF Init, NewDAG, DispatchedOrSkipped, BatchCount, DependenciesFirst, BatchesAgree
<1>. QED
  BY <1>1, <1>2, <1>3, <1>5, <1>6, Zenon DEF IInv, Graph

----------------------------------------------------------------------------
(* Building the graph                                                      *)

\* Steps before the loop: only the graph, the phase and the error change, and
\* the graph stays a graph with nothing complete.
LEMMA BuildStep ==
  ASSUME IInv, phase \in {"index", "edges"},
         phase' \in {"index", "edges", "select", "rejected"},
         UNCHANGED <<loopVars, call, ctxDone, agent>>, retErr' \in BOOLEAN,
         DAGTypeOK', Graph', completed' = completed
  PROVE  IInv'
<1>1. /\ skip' = skip /\ outcomes' = outcomes /\ batchNum' = batchNum
      /\ executionOrder' = executionOrder /\ ready' = ready
      /\ skippedThisRound' = skippedThisRound /\ call' = call
      /\ ctxDone' = ctxDone /\ agent' = agent
  BY Zenon DEF loopVars
<1>2. /\ completed = {} /\ skip = {} /\ executionOrder = <<>> /\ batchNum = 0
      /\ \A t \in Ids : outcomes[t] = NoOutcome
  BY Zenon DEF IInv, Fresh
<1>3. \A t \in Ids : call[t] = "idle"
  BY Zenon DEF IInv, Wave
<1>4. TypeOK'
  BY <1>1, Zenon DEF IInv, TypeOK, Phases
<1>5. Fresh' /\ Recorded' /\ Marked' /\ ReadyList' /\ Wave' /\ NilErrorAllComplete'
  BY <1>1, <1>2, <1>3, Zenon DEF Fresh, Recorded, Marked, ReadyList, Wave, NilErrorAllComplete
<1>6. Dispatched' = {} /\ Batches' = {} /\ Len(executionOrder') = 0
  BY <1>1, <1>2 DEF Dispatched, Batches
<1>7. DispatchedOrSkipped' /\ BatchCount' /\ DependenciesFirst' /\ BatchesAgree'
  BY <1>1, <1>2, <1>6
  DEF DispatchedOrSkipped, BatchCount, DependenciesFirst, BatchesAgree
<1>. QED
  BY <1>4, <1>5, <1>7, Zenon DEF IInv

\* Indexing a task (scheduler.go:57-77) keeps the invariant.
LEMMA IndexTaskInv ==
  ASSUME IInv, NEW t \in Ids, IndexTask(t)
  PROVE  IInv'
<1>1. CASE t \in nodes
  <2>1. UNCHANGED dagVars /\ phase' = "rejected" /\ retErr' = TRUE
    BY <1>1, Zenon DEF IndexTask, Reject
  <2>2. Graph'
    BY <2>1, GraphFrame, Zenon DEF IInv
  <2>3. DAGTypeOK' /\ completed' = completed
    BY <2>1, Zenon DEF IInv, TypeOK, DAGTypeOK, dagVars
  <2>. QED
    BY <2>1, <2>2, <2>3, BuildStep, Zenon DEF IndexTask
<1>2. CASE t \notin nodes
  <2>1. AddNode(t) /\ phase' = phase /\ retErr' = retErr
    BY <1>2, Zenon DEF IndexTask
  <2>2. DAGTypeOK' /\ completed' = completed
    BY <2>1, Zenon DEF IInv, TypeOK, DAGTypeOK, AddNode
  <2>3. Acyclic' /\ EdgesWithin'
    BY <2>1, Zenon DEF IInv, Graph, Acyclic, EdgesWithin, AddNode
  <2>4. \A u \in Ids : Pending(u)' = Pending(u)
    BY <2>1, Zenon DEF AddNode, Pending
  <2>5. CountersExact'
    BY <2>1, <2>4, Zenon DEF IInv, Graph, CountersExact, AddNode
  <2>6. retErr' \in BOOLEAN
    BY <2>1, Zenon DEF IInv, TypeOK
  <2>. QED
    BY <2>1, <2>2, <2>3, <2>5, <2>6, BuildStep, Zenon DEF IndexTask, Graph
<1>. QED
  BY <1>1, <1>2, Zenon

\* Adding a dependency (scheduler.go:78-83) keeps the invariant.
LEMMA AddDependencyInv ==
  ASSUME IInv, NEW dep \in Ids, NEW t \in Ids, AddDependency(dep, t)
  PROVE  IInv'
<1>1. CASE Reject /\ UNCHANGED dagVars
  <2>1. Graph'
    BY <1>1, GraphFrame, Zenon DEF IInv
  <2>2. DAGTypeOK' /\ completed' = completed
    BY <1>1, Zenon DEF IInv, TypeOK, DAGTypeOK, dagVars
  <2>. QED
    BY <1>1, <2>1, <2>2, BuildStep, Zenon DEF AddDependency, Reject
<1>2. CASE AddEdgeOk(dep, t) /\ UNCHANGED <<phase, retErr>>
  <2>1. DAGTypeOK /\ Acyclic /\ EdgesWithin /\ CountersExact
    BY Zenon DEF IInv, TypeOK, Graph
  <2>2. completed = {}
    BY Zenon DEF IInv, Fresh, AddDependency
  <2>3. Acyclic'
    BY <1>2, <2>1, AddEdgeAcyclic, Zenon
  <2>4. CountersExact'
    BY <1>2, <2>1, <2>2, AddEdgeCounters, Zenon
  <2>5. EdgesWithin'
    BY <1>2, <2>1, Zenon DEF EdgesWithin, AddEdgeOk, AddEdgeFails, DAGTypeOK
  <2>6. DAGTypeOK' /\ completed' = completed
    BY <1>2, <2>1 DEF DAGTypeOK, AddEdgeOk
  <2>7. retErr' \in BOOLEAN
    BY <1>2, Zenon DEF IInv, TypeOK
  <2>. QED
    BY <1>2, <2>3, <2>4, <2>5, <2>6, <2>7, BuildStep, Zenon DEF AddDependency, Graph
<1>. QED
  BY <1>1, <1>2, Zenon DEF AddDependency

\* A task without an id and the ends of the two building loops keep the invariant.
LEMMA EndBuildInv ==
  ASSUME IInv, EmptyID \/ EndIndex \/ EndEdges
  PROVE  IInv'
<1>1. UNCHANGED dagVars /\ UNCHANGED <<loopVars, call, ctxDone, agent>>
  BY Zenon DEF EmptyID, EndIndex, EndEdges
<1>2. phase \in {"index", "edges"} /\ phase' \in {"edges", "select", "rejected"}
  BY Zenon DEF EmptyID, EndIndex, EndEdges, Reject
<1>3. retErr' \in BOOLEAN
  BY Zenon DEF EmptyID, EndIndex, EndEdges, Reject, IInv, TypeOK
<1>4. Graph'
  BY <1>1, GraphFrame, Zenon DEF IInv
<1>5. DAGTypeOK' /\ completed' = completed
  BY <1>1, Zenon DEF IInv, TypeOK, DAGTypeOK, dagVars
<1>. QED
  BY <1>1, <1>2, <1>3, <1>4, <1>5, BuildStep, Zenon

----------------------------------------------------------------------------
(* The loop: steps that record nothing                                     *)

\* A step from one place of the loop to another that records no outcome and
\* starts no wave keeps the invariant if the counters of the new place agree.
LEMMA LoopStep ==
  ASSUME IInv, TypeOK', InLoop, InLoop',
         UNCHANGED <<dagVars, skip, outcomes, executionOrder, ctxDone, retErr, agent>>,
         \A u \in Ids : call'[u] = "idle" <=> call[u] = "idle",
         ReadyList', Wave', BatchCount'
  PROVE  IInv'
<1>1. /\ nodes' = nodes /\ edges' = edges /\ inDegree' = inDegree
      /\ completed' = completed /\ skip' = skip
      /\ outcomes' = outcomes
      /\ executionOrder' = executionOrder /\ retErr' = retErr
  BY Zenon DEF dagVars
<1>2. Graph'
  BY GraphFrame, Zenon DEF IInv
<1>3. Fresh' /\ Recorded' /\ Marked' /\ NilErrorAllComplete'
  BY <1>1, Zenon DEF IInv, InLoop, Fresh, Recorded, Marked, NilErrorAllComplete
<1>4. Dispatched \subseteq Ids /\ Dispatched' = Dispatched
  BY <1>1 DEF IInv, TypeOK, Dispatched, Batches
<1>5. DispatchedOrSkipped'
  BY <1>1, <1>4, Zenon DEF IInv, DispatchedOrSkipped
<1>6. DependenciesFirst' /\ BatchesAgree'
  BY <1>1, <1>4, Zenon DEF IInv, DependenciesFirst, BatchesAgree, Batches
<1>. QED
  BY <1>2, <1>3, <1>5, <1>6, Zenon DEF IInv

\* StartWaiting keeps the invariant.
LEMMA StartWaitingInv == IInv /\ StartWaiting => IInv'
<1> SUFFICES ASSUME IInv, StartWaiting PROVE IInv'
  OBVIOUS
<1>1. /\ nodes' = nodes /\ completed' = completed /\ phase = "dispatch" /\ phase' = "collect"
      /\ executionOrder' = executionOrder /\ batchNum' = batchNum
  BY Zenon DEF StartWaiting, dagVars, loopVars
<1>2. \A u \in Ids : call'[u] = "idle" <=> call[u] = "idle"
  BY Zenon DEF StartWaiting
<1>3. call' \in [Ids -> Calls]
  BY Zenon DEF IInv, TypeOK, StartWaiting, Calls
<1>4. TypeOK'
  BY <1>3, Zenon DEF IInv, TypeOK, DAGTypeOK, StartWaiting, dagVars, loopVars, Phases
<1>5. ReadyList' /\ Wave' /\ BatchCount'
  BY <1>1, <1>2, Zenon DEF IInv, ReadyList, Wave, BatchCount
<1>. QED
  BY <1>1, <1>2, <1>4, <1>5, LoopStep, Zenon DEF StartWaiting, InLoop, loopVars

\* EndBatch keeps the invariant.
LEMMA EndBatchInv == IInv /\ EndBatch => IInv'
<1> SUFFICES ASSUME IInv, EndBatch PROVE IInv'
  OBVIOUS
<1>1. /\ phase = "collect" /\ phase' = "select" /\ call' = call
      /\ executionOrder' = executionOrder /\ batchNum' = batchNum + 1
      /\ \A t \in Ids : call[t] = "idle"
  BY Zenon DEF EndBatch
<1>2. TypeOK'
  BY DEF IInv, TypeOK, DAGTypeOK, EndBatch, dagVars, Phases
<1>3. ReadyList' /\ Wave' /\ BatchCount'
  BY <1>1, Zenon DEF IInv, ReadyList, Wave, BatchCount
<1>. QED
  BY <1>1, <1>2, <1>3, LoopStep, Zenon DEF EndBatch, InLoop

\* Leaving the loop between waves keeps the invariant: the sweep gives an
\* outcome only to tasks that are not complete and were never dispatched.
LEMMA FinishInv ==
  ASSUME IInv, phase \in {"select", "partition"}, Finish,
         UNCHANGED <<dagVars, skip, batchNum, executionOrder, call, ctxDone, agent>>,
         UNCHANGED <<ready, skippedThisRound>>,
         ctxDone \/ nodes \subseteq completed
  PROVE  IInv'
<1>1. /\ nodes' = nodes /\ edges' = edges /\ inDegree' = inDegree
      /\ completed' = completed /\ skip' = skip /\ batchNum' = batchNum
      /\ executionOrder' = executionOrder /\ call' = call /\ ctxDone' = ctxDone
      /\ ready' = ready /\ skippedThisRound' = skippedThisRound
      /\ agent' = agent /\ phase' = "done" /\ retErr' = ctxDone
  BY Zenon DEF dagVars, Finish
<1>2. \A t \in Ids : call[t] = "idle"
  BY Zenon DEF IInv, Wave
<1>3. \A t \in Ids : outcomes[t] # NoOutcome => outcomes'[t] = outcomes[t]
  BY Zenon DEF Finish
<1>4. Dispatched \subseteq Ids /\ Dispatched' = Dispatched
  BY <1>1 DEF IInv, TypeOK, Dispatched, Batches
<1>5. Dispatched \subseteq completed /\ completed \subseteq Ids
  BY <1>2, <1>4, Zenon DEF IInv, DispatchedOrSkipped, TypeOK, DAGTypeOK
<1>6. \A t \in completed : outcomes[t] # NoOutcome /\ outcomes'[t] = outcomes[t]
  BY <1>3, <1>5, Zenon DEF IInv, Recorded
<1>7. outcomes' \in [Ids -> [status : Statuses, batch : Nat \cup {-1}]]
  BY Zenon DEF IInv, TypeOK, Finish, Outcome, Statuses
<1>8. TypeOK'
  BY <1>1, <1>7, Zenon DEF IInv, TypeOK, DAGTypeOK, Phases
<1>9. Graph'
  BY GraphFrame, Zenon DEF IInv
<1>10. Fresh' /\ Recorded' /\ ReadyList' /\ NilErrorAllComplete'
  BY <1>1, <1>6, Zenon DEF Fresh, Recorded, ReadyList, NilErrorAllComplete
<1>11. Marked'
  BY <1>1, <1>5, <1>6, Zenon DEF IInv, Marked
<1>12. Wave' /\ BatchCount'
  BY <1>1, <1>2, Zenon DEF IInv, Wave, BatchCount
<1>13. DispatchedOrSkipped'
  BY <1>1, <1>4, <1>5, <1>6, Zenon DEF IInv, DispatchedOrSkipped
<1>14. DependenciesFirst'
  <2> SUFFICES ASSUME NEW t \in Dispatched, NEW d \in Ids, edges[<<d, t>>] > 0
               PROVE  outcomes'[d].status = "completed"
    BY <1>1, <1>4, Zenon DEF DependenciesFirst
  <2>1. outcomes[d].status = "completed"
    BY Zenon DEF IInv, DependenciesFirst
  <2>2. outcomes[d] # NoOutcome
    BY <2>1 DEF NoOutcome
  <2>. QED
    BY <1>3, <2>1, <2>2, Zenon
<1>15. BatchesAgree'
  <2>1. \A i \in Batches : executionOrder[i] \subseteq Dispatched
    BY Zenon DEF Dispatched
  <2>. QED
    BY <1>1, <1>5, <1>6, <2>1 DEF IInv, BatchesAgree, Batches
<1>. QED
  BY <1>8, <1>9, <1>10, <1>11, <1>12, <1>13, <1>14, <1>15, Zenon DEF IInv

\* Select keeps the invariant.
LEMMA SelectInv == IInv /\ Select => IInv'
<1> SUFFICES ASSUME IInv, Select PROVE IInv'
  OBVIOUS
<1>1. CASE SomeRemain
  <2>1. /\ phase = "select" /\ phase' = "partition" /\ call' = call
        /\ executionOrder' = executionOrder /\ batchNum' = batchNum
        /\ nodes' = nodes /\ completed' = completed /\ inDegree' = inDegree
        /\ ready' = Ready /\ skippedThisRound' = FALSE
    BY <1>1, Zenon DEF Select, dagVars
  <2>2. TypeOK'
    BY <1>1, Zenon DEF IInv, TypeOK, DAGTypeOK, Select, dagVars, Phases, Ready
  <2>3. ReadyList'
    BY <1>1, <2>1, Zenon DEF ReadyList, Ready, SomeRemain
  <2>4. Wave' /\ BatchCount'
    BY <2>1, Zenon DEF IInv, Wave, BatchCount
  <2>. QED
    BY <1>1, <2>1, <2>2, <2>3, <2>4, LoopStep, Zenon DEF Select, InLoop
<1>2. CASE ~SomeRemain
  BY <1>2, FinishInv, Zenon DEF Select, SomeRemain
<1>. QED
  BY <1>1, <1>2, Zenon

----------------------------------------------------------------------------
(* The loop: steps that record an outcome                                  *)

\* Recording an outcome for a task that is not complete, completing it and
\* marking its dependents keeps the invariant; what depends on the place in
\* the loop (the batch of t, the ready list) is left to the caller.
LEMMA RecordStep ==
  ASSUME IInv, InLoop, phase' = phase,
         NEW t \in nodes \ completed, NEW s \in Statuses \ {"none"},
         outcomes' = [outcomes EXCEPT ![t] = Outcome(s, batchNum)],
         Complete(t),
         skip' = IF s = "completed" THEN skip ELSE skip \cup Dependents(t),
         UNCHANGED <<batchNum, executionOrder, ctxDone, retErr, agent>>,
         ready' \subseteq Ids, skippedThisRound' \in BOOLEAN,
         call' \in [Ids -> Calls], call'[t] = "idle",
         \A u \in Ids \ {t} : call'[u] = call[u],
         t \in Dispatched <=> s # "skipped",
         s = "skipped" => t \in skip,
         \A i \in Batches : t \in executionOrder[i] => batchNum = i - 1,
         ReadyList'
  PROVE  IInv'
<1>0. DAGTypeOK /\ t \in Ids /\ batchNum \in Nat /\ outcomes \in [Ids -> [status : Statuses, batch : Nat \cup {-1}]]
  BY Zenon DEF IInv, TypeOK, DAGTypeOK
<1>1. /\ nodes' = nodes /\ edges' = edges /\ completed' = completed \cup {t}
      /\ batchNum' = batchNum /\ executionOrder' = executionOrder /\ retErr' = retErr
  BY Zenon DEF Complete
<1>2. outcomes'[t] = Outcome(s, batchNum) /\ \A u \in Ids \ {t} : outcomes'[u] = outcomes[u]
  BY <1>0, Zenon
<1>3. outcomes'[t].status = s /\ outcomes'[t].batch = batchNum /\ outcomes'[t] # NoOutcome
  BY <1>2 DEF Outcome, NoOutcome
<1>4. outcomes[t] = NoOutcome
  BY <1>0, Zenon DEF IInv, InLoop, Recorded
<1>5. TypeOK'
  <2>1. DAGTypeOK'
    BY <1>0, CompleteType, Zenon
  <2>2. outcomes' \in [Ids -> [status : Statuses, batch : Nat \cup {-1}]]
    BY <1>0, Zenon DEF Outcome
  <2>3. skip' \subseteq Ids
    BY Zenon DEF IInv, TypeOK, Dependents
  <2>. QED
    BY <2>1, <2>2, <2>3, Zenon DEF IInv, TypeOK
<1>6. Graph'
  <2>1. CountersExact'
    BY <1>0, CompleteCounters, Zenon DEF IInv, Graph
  <2>2. Acyclic' /\ EdgesWithin'
    BY <1>1, Zenon DEF IInv, Graph, Acyclic, EdgesWithin
  <2>. QED
    BY <2>1, <2>2, Zenon DEF Graph
<1>7. Fresh' /\ NilErrorAllComplete'
  BY Zenon DEF InLoop, Fresh, NilErrorAllComplete
<1>8. Recorded'
  BY <1>1, <1>2, <1>3, Zenon DEF IInv, Recorded
<1>9. Marked'
  <2> SUFFICES ASSUME NEW u \in Ids
               PROVE  u \in skip' <=> \E d \in completed' :
                         edges[<<d, u>>] > 0 /\ outcomes'[d].status # "completed"
    BY <1>1, Zenon DEF Marked
  <2>1. u \in skip <=> \E d \in completed : edges[<<d, u>>] > 0 /\ outcomes[d].status # "completed"
    BY Zenon DEF IInv, Marked
  <2>2. \A d \in completed : d \in Ids \ {t}
    BY <1>0, Zenon DEF DAGTypeOK
  <2>3. (\E d \in completed' : edges[<<d, u>>] > 0 /\ outcomes'[d].status # "completed")
          <=> u \in skip \/ (edges[<<t, u>>] > 0 /\ s # "completed")
    BY <1>1, <1>2, <1>3, <2>1, <2>2, Zenon
  <2>4. u \in skip' <=> u \in skip \/ (edges[<<t, u>>] > 0 /\ s # "completed")
    BY Zenon DEF Dependents
  <2>. QED
    BY <2>3, <2>4, Zenon
<1>10. Wave'
  BY <1>1, Zenon DEF IInv, Wave
<1>11. Dispatched \subseteq Ids /\ Dispatched' = Dispatched
  BY <1>1 DEF IInv, TypeOK, Dispatched, Batches
<1>12. DispatchedOrSkipped'
  <2>1. \A u \in Dispatched : u \in completed' \/ call'[u] # "idle"
    BY <1>1, <1>11, Zenon DEF IInv, DispatchedOrSkipped
  <2>2. \A d \in completed : d \in Ids \ {t}
    BY <1>0, Zenon DEF DAGTypeOK
  <2>3. \A u \in completed' : u \in Dispatched <=> outcomes'[u].status # "skipped"
    BY <1>1, <1>2, <1>3, <2>2, Zenon DEF IInv, DispatchedOrSkipped
  <2>4. skip \subseteq skip'
    BY Zenon
  <2>5. \A u \in completed' : outcomes'[u].status = "skipped" => u \in skip'
    BY <1>1, <1>2, <1>3, <2>2, <2>4, Zenon DEF IInv, DispatchedOrSkipped
  <2>6. \A u \in completed' : outcomes'[u].batch >= 0
    BY <1>0, <1>1, <1>2, <1>3, <2>2 DEF IInv, DispatchedOrSkipped
  <2>. QED
    BY <1>11, <2>1, <2>3, <2>5, <2>6, Zenon DEF DispatchedOrSkipped
<1>13. BatchCount'
  BY <1>1, Zenon DEF IInv, BatchCount
<1>14. DependenciesFirst'
  <2> SUFFICES ASSUME NEW u \in Dispatched, NEW d \in Ids, edges[<<d, u>>] > 0
               PROVE  outcomes'[d].status = "completed"
    BY <1>1, <1>11, Zenon DEF DependenciesFirst
  <2>1. outcomes[d].status = "completed"
    BY Zenon DEF IInv, DependenciesFirst
  <2>2. d # t
    <3>1. outcomes[t].status = NoOutcome.status
      BY ONLY <1>4
    <3>2. NoOutcome.status = "none"
      BY ONLY DEF NoOutcome
    <3>. QED
      BY ONLY <2>1, <3>1, <3>2
  <2>. QED
    BY <1>2, <2>1, <2>2, Zenon
<1>15. BatchesAgree'
  <2> SUFFICES ASSUME NEW i \in Batches, NEW u \in executionOrder[i]
               PROVE  /\ outcomes'[u] # NoOutcome => outcomes'[u].batch = i - 1
                      /\ \A j \in Batches : u \in executionOrder[j] => j = i
                      /\ \A d \in Ids : edges[<<d, u>>] > 0 =>
                           \E j \in Batches : j < i /\ d \in executionOrder[j]
    BY <1>1, Zenon DEF BatchesAgree, Batches
  <2>1. u \in Ids
    BY <1>11, Zenon DEF Dispatched
  <2>2. outcomes'[u] # NoOutcome => outcomes'[u].batch = i - 1
    <3>1. CASE u = t
      BY <1>3, <3>1, Zenon
    <3>2. CASE u # t
      BY <1>2, <2>1, <3>2 DEF IInv, BatchesAgree
    <3>. QED
      BY <3>1, <3>2, Zenon
  <2>. QED
    BY <2>2, Zenon DEF IInv, BatchesAgree
<1>. QED
  BY <1>5, <1>6, <1>7, <1>8, <1>9, <1>10, <1>12, <1>13, <1>14, <1>15 DEF IInv

\* A task with a goroutine belongs to the wave in progress and to no other.
LEMMA WaveBatch ==
  ASSUME IInv, NEW t \in Ids, call[t] # "idle"
  PROVE  /\ t \in nodes \ completed
         /\ t \in Dispatched
         /\ \A i \in Batches : t \in executionOrder[i] => batchNum = i - 1
<1>1. /\ phase \in {"dispatch", "collect"} /\ t \in nodes \ completed
      /\ t \in executionOrder[Len(executionOrder)]
  BY Zenon DEF IInv, Wave
<1>2. Len(executionOrder) = batchNum + 1 /\ batchNum \in Nat
  BY <1>1, Zenon DEF IInv, BatchCount, TypeOK
<1>3. Len(executionOrder) \in Batches
  BY <1>2 DEF IInv, TypeOK, Batches
<1>4. t \in Dispatched
  BY <1>1, <1>3, Zenon DEF Dispatched
<1>5. \A i \in Batches : t \in executionOrder[i] => i = Len(executionOrder)
  BY <1>1, <1>3, Zenon DEF IInv, BatchesAgree
<1>. QED
  BY <1>1, <1>2, <1>4, <1>5

\* Recording the outcome of a goroutine of the wave keeps the invariant.
LEMMA RecordInv ==
  ASSUME IInv, phase = "collect", NEW t \in Ids, call[t] # "idle",
         NEW s \in Statuses \ {"none", "skipped"}, Record(t, s)
  PROVE  IInv'
<1>1. /\ t \in nodes \ completed /\ t \in Dispatched
      /\ \A i \in Batches : t \in executionOrder[i] => batchNum = i - 1
  BY WaveBatch, Zenon
<1>2. call' \in [Ids -> Calls] /\ call'[t] = "idle" /\ \A u \in Ids \ {t} : call'[u] = call[u]
  BY Zenon DEF IInv, TypeOK, Record, Calls
<1>3. ready' \subseteq Ids /\ skippedThisRound' \in BOOLEAN
  BY Zenon DEF IInv, TypeOK, Record
<1>4. ReadyList'
  BY Zenon DEF Record, ReadyList
<1>5. InLoop
  BY Zenon DEF InLoop
<1>6. s \in Statuses \ {"none"} /\ s # "skipped"
  BY Zenon
<1>. QED
  BY <1>1, <1>2, <1>3, <1>4, <1>5, <1>6, RecordStep, Zenon DEF Record

\* RecordDispatchErr keeps the invariant.
LEMMA RecordDispatchErrInv ==
  ASSUME IInv, NEW t \in Ids, RecordDispatchErr(t)
  PROVE  IInv'
<1>1. "failed" \in Statuses \ {"none", "skipped"}
  BY Zenon DEF Statuses
<1>. QED
  BY <1>1, RecordInv, Zenon DEF RecordDispatchErr

\* Collect keeps the invariant.
LEMMA CollectInv ==
  ASSUME IInv, NEW t \in Ids, Collect(t)
  PROVE  IInv'
<1> DEFINE s == CASE call[t] = "ctxErr"  -> "canceled"
                  [] call[t] = "waitErr" -> "failed"
                  [] OTHER               -> outcomeStatus(call[t])
<1>1. s \in Statuses \ {"none", "skipped"}
  <2>1. CASE call[t] \in ResultStates
    <3>1. call[t] \notin {"none", "skipped", "ctxErr", "waitErr"}
      BY <2>1, ResultStatesAssumption, Zenon
    <3>2. outcomeStatus(call[t]) = call[t]
      BY Zenon DEF outcomeStatus
    <3>. QED
      BY <2>1, <3>1, <3>2, Zenon DEF Statuses
  <2>2. CASE call[t] = "ctxErr"
    BY <2>2, Zenon DEF Statuses
  <2>3. CASE call[t] = "waitErr"
    BY <2>3, Zenon DEF Statuses
  <2>. QED
    BY <2>1, <2>2, <2>3, Zenon DEF Collect, Replies
<1>2. phase = "collect" /\ call[t] # "idle"
  BY ResultStatesAssumption, Zenon DEF Collect, Replies
<1>3. Record(t, s)
  BY Zenon DEF Collect
<1>. QED
  BY <1>1, <1>2, <1>3, RecordInv, Zenon

\* A task that is in the ready list was never dispatched, and its dependencies
\* are all complete.
LEMMA ReadyTask ==
  ASSUME IInv, phase = "partition", NEW t \in ready
  PROVE  /\ t \in Ids /\ t \in nodes \ completed
         /\ t \notin Dispatched /\ outcomes[t] = NoOutcome
         /\ \A d \in Ids : edges[<<d, t>>] > 0 => d \in completed
<1>1. t \in Ready /\ t \in Ids
  BY Zenon DEF IInv, ReadyList, TypeOK
<1>2. t \in nodes \ completed /\ inDegree[t] = 0
  BY <1>1, Zenon DEF Ready
<1>3. call[t] = "idle"
  BY <1>1, Zenon DEF IInv, Wave
<1>4. t \notin Dispatched
  BY <1>2, <1>3, Zenon DEF IInv, DispatchedOrSkipped
<1>5. outcomes[t] = NoOutcome
  BY <1>1, <1>2, Zenon DEF IInv, Recorded
<1>6. DAGTypeOK /\ CountersExact
  BY Zenon DEF IInv, TypeOK, Graph
<1>7. \A d \in Ids \ completed : edges[<<d, t>>] = 0
  BY <1>1, <1>2, <1>6, ZeroCounter, Zenon
<1>. QED
  BY <1>1, <1>2, <1>4, <1>5, <1>7

\* SkipReady keeps the invariant.
LEMMA SkipReadyInv ==
  ASSUME IInv, NEW t \in Ids, SkipReady(t)
  PROVE  IInv'
<1>1. phase = "partition" /\ t \in ready /\ t \in skip
  BY Zenon DEF SkipReady
<1>2. t \in nodes \ completed /\ t \notin Dispatched
  BY <1>1, ReadyTask, Zenon
<1>3. \A i \in Batches : t \notin executionOrder[i]
  BY <1>2, Zenon DEF Dispatched
<1>4. call' \in [Ids -> Calls] /\ call'[t] = "idle" /\ \A u \in Ids \ {t} : call'[u] = call[u]
  BY <1>1, Zenon DEF IInv, TypeOK, Wave, SkipReady
<1>5. /\ nodes' = nodes /\ completed' = completed \cup {t}
      /\ inDegree' = [u \in Ids |-> inDegree[u] - edges[<<t, u>>]]
      /\ ready' = ready \ {t} /\ skippedThisRound' = TRUE
  BY <1>2, Zenon DEF SkipReady, Complete
<1>6. \A u \in ready' : u \in Ready'
  <2> SUFFICES ASSUME NEW u \in ready, u # t
               PROVE  u \in Ready'
    BY <1>5, Zenon
  <2>1. u \in Ready /\ u \in Ids
    BY <1>1, Zenon DEF IInv, ReadyList, TypeOK
  <2>2. DAGTypeOK /\ CountersExact
    BY Zenon DEF IInv, TypeOK, Graph
  <2>3. edges[<<t, u>>] = 0
    BY <1>2, <2>1, <2>2, ZeroCounter, Zenon DEF Ready
  <2>. QED
    BY <1>5, <2>1, <2>3 DEF Ready
<1>7. ReadyList'
  BY <1>5, <1>6, Zenon DEF ReadyList
<1>8. ready' \subseteq Ids /\ skippedThisRound' \in BOOLEAN
  BY <1>5, Zenon DEF IInv, TypeOK
<1>9. "skipped" \in Statuses \ {"none"} /\ InLoop
  BY <1>1, Zenon DEF Statuses, InLoop
<1>10. skip' = skip \cup Dependents(t) /\ Complete(t) /\ phase' = phase
       /\ outcomes' = [outcomes EXCEPT ![t] = Outcome("skipped", batchNum)]
       /\ UNCHANGED <<batchNum, executionOrder, ctxDone, retErr, agent>>
  BY Zenon DEF SkipReady
<1>. QED
  BY <1>1, <1>2, <1>3, <1>4, <1>7, <1>8, <1>9, <1>10, RecordStep, Zenon

\* While a node is incomplete some incomplete node has no incomplete
\* predecessor, and its counter is zero.
LEMMA SomeReady ==
  ASSUME IInv, SomeRemain
  PROVE  Ready # {}
<1>1. DAGTypeOK /\ CountersExact /\ Acyclic /\ EdgesWithin
  BY Zenon DEF IInv, TypeOK, Graph
<1> DEFINE S == nodes \ completed
<1>2. S \in (SUBSET Ids) \ {{}}
  BY <1>1, Zenon DEF SomeRemain, DAGTypeOK
<1>3. PICK s \in S : \A p \in S : edges[<<p, s>>] = 0
  BY <1>1, <1>2, Zenon DEF Acyclic
<1>4. s \in Ids
  BY <1>1, Zenon DEF DAGTypeOK
<1>5. \A p \in Ids \ completed : edges[<<p, s>>] = 0
  BY <1>1, <1>3, <1>4 DEF EdgesWithin, DAGTypeOK
<1>6. inDegree[s] = 0
  BY <1>1, <1>4, <1>5, NoPredecessorZero, Zenon
<1>. QED
  BY <1>3, <1>6, Zenon DEF Ready

\* Starting a wave keeps the invariant.
LEMMA StartWaveInv ==
  ASSUME IInv, phase = "partition", ready \cap skip = {}, phase' = "dispatch",
         executionOrder' = Append(executionOrder, ready),
         call' = [t \in Ids |-> IF t \in ready THEN "dispatching" ELSE call[t]],
         UNCHANGED <<dagVars, skip, batchNum, ready, skippedThisRound, ctxDone, agent>>,
         UNCHANGED <<outcomes, retErr>>
  PROVE  IInv'
<1>1. /\ nodes' = nodes /\ edges' = edges /\ inDegree' = inDegree
      /\ completed' = completed /\ skip' = skip /\ batchNum' = batchNum
      /\ ready' = ready /\ skippedThisRound' = skippedThisRound
      /\ ctxDone' = ctxDone /\ agent' = agent /\ outcomes' = outcomes /\ retErr' = retErr
  BY Zenon DEF dagVars
<1> DEFINE n == Len(executionOrder)
<1>2. executionOrder \in Seq(SUBSET Ids) /\ ready \in SUBSET Ids /\ n = batchNum
  BY Zenon DEF IInv, TypeOK, BatchCount
<1>3. /\ executionOrder' \in Seq(SUBSET Ids)
      /\ Len(executionOrder') = n + 1
      /\ Batches = 1 .. n /\ Batches' = 1 .. n + 1
      /\ executionOrder'[n + 1] = ready
      /\ \A i \in 1 .. n : executionOrder'[i] = executionOrder[i]
  <2>1. /\ executionOrder' \in Seq(SUBSET Ids)
        /\ Len(executionOrder') = n + 1
        /\ executionOrder'[n + 1] = ready
        /\ \A i \in 1 .. n : executionOrder'[i] = executionOrder[i]
    BY <1>2, AppendProperties
  <2>2. Batches = 1 .. n /\ Batches' = 1 .. n + 1
    BY <1>2, <2>1 DEF Batches
  <2>. QED
    BY <2>1, <2>2, Zenon
<1>4. n \in Nat
  BY <1>2
<1>5. Dispatched' = Dispatched \cup ready
  BY <1>3, <1>4 DEF Dispatched
<1>6. \A t \in Ids : call[t] = "idle"
  BY Zenon DEF IInv, Wave
<1>7. call' \in [Ids -> Calls] /\ \A t \in Ids : call'[t] # "idle" <=> t \in ready
  BY <1>6, Zenon DEF IInv, TypeOK, Calls
<1>8. TypeOK'
  BY <1>1, <1>3, <1>7, Zenon DEF IInv, TypeOK, DAGTypeOK, Phases
<1>9. Graph'
  BY GraphFrame, Zenon DEF IInv
<1>10. Fresh' /\ Recorded' /\ Marked' /\ ReadyList' /\ NilErrorAllComplete'
  BY <1>1, Zenon DEF IInv, Fresh, Recorded, Marked, ReadyList, NilErrorAllComplete
<1>11. \A t \in ready : t \in nodes \ completed
  BY ReadyTask, Zenon
<1>12. Wave'
  BY <1>1, <1>3, <1>7, <1>11, Zenon DEF Wave
<1>13. BatchCount'
  BY <1>1, <1>2, <1>3, Zenon DEF BatchCount
<1>14. Dispatched \subseteq completed
  BY <1>6 DEF IInv, DispatchedOrSkipped, Dispatched, TypeOK, Batches
<1>15. DispatchedOrSkipped'
  <2>1. \A t \in Dispatched' : t \in completed \/ call'[t] # "idle"
    BY <1>2, <1>5, <1>7, <1>14, Zenon
  <2>2. \A t \in completed : t \in Dispatched' <=> outcomes[t].status # "skipped"
    BY <1>5, <1>11, Zenon DEF IInv, DispatchedOrSkipped
  <2>. QED
    BY <1>1, <2>1, <2>2, Zenon DEF IInv, DispatchedOrSkipped
<1>16. ASSUME NEW t \in ready, NEW d \in Ids, edges[<<d, t>>] > 0
       PROVE  outcomes[d].status = "completed" /\ d \in Dispatched
  <2>1. d \in completed /\ t \in Ids
    BY <1>16, ReadyTask, Zenon
  <2>2. t \notin skip
    BY Zenon
  <2>3. outcomes[d].status = "completed"
    BY <1>16, <2>1, <2>2, Zenon DEF IInv, Marked
  <2>. QED
    BY <2>1, <2>3, Zenon DEF IInv, DispatchedOrSkipped
<1>17. DependenciesFirst'
  BY <1>1, <1>5, <1>16, Zenon DEF IInv, DependenciesFirst
<1>18. BatchesAgree'
  <2>1. \A i \in 1 .. n : executionOrder[i] \subseteq Dispatched
    BY <1>3, Zenon DEF Dispatched
  <2>2. \A i \in 1 .. n : executionOrder[i] \cap ready = {}
    BY <1>11, <1>14, <2>1, Zenon
  <2>3. ASSUME NEW i \in 1 .. n, NEW t \in executionOrder[i]
        PROVE  /\ outcomes[t] # NoOutcome => outcomes[t].batch = i - 1
               /\ \A j \in 1 .. n + 1 : t \in executionOrder'[j] => j = i
               /\ \A d \in Ids : edges[<<d, t>>] > 0 =>
                    \E j \in 1 .. n + 1 : j < i /\ d \in executionOrder'[j]
    <3>1. /\ outcomes[t] # NoOutcome => outcomes[t].batch = i - 1
          /\ \A j \in 1 .. n : t \in executionOrder[j] => j = i
          /\ \A d \in Ids : edges[<<d, t>>] > 0 =>
               \E j \in 1 .. n : j < i /\ d \in executionOrder[j]
      BY <1>3, Zenon DEF IInv, BatchesAgree
    <3>2. t \notin executionOrder'[n + 1]
      BY <1>3, <2>2, Zenon
    <3>3. \A j \in 1 .. n + 1 : j = n + 1 \/ j \in 1 .. n
      BY <1>4
    <3>4. \A j \in 1 .. n : j \in 1 .. n + 1
      BY <1>4
    <3>. QED
      BY <1>3, <3>1, <3>2, <3>3, <3>4, Zenon
  <2>4. ASSUME NEW t \in ready
        PROVE  /\ outcomes[t] = NoOutcome
               /\ \A j \in 1 .. n + 1 : t \in executionOrder'[j] => j = n + 1
               /\ \A d \in Ids : edges[<<d, t>>] > 0 =>
                    \E j \in 1 .. n + 1 : j < n + 1 /\ d \in executionOrder'[j]
    <3>1. outcomes[t] = NoOutcome
      BY ReadyTask, Zenon
    <3>2. \A j \in 1 .. n + 1 : j = n + 1 \/ j \in 1 .. n
      BY <1>4
    <3>3. \A j \in 1 .. n + 1 : t \in executionOrder'[j] => j = n + 1
      BY <1>3, <2>2, <3>2, Zenon
    <3>4. ASSUME NEW d \in Ids, edges[<<d, t>>] > 0
          PROVE  \E j \in 1 .. n + 1 : j < n + 1 /\ d \in executionOrder'[j]
      <4>1. PICK j \in 1 .. n : d \in executionOrder[j]
        BY <1>3, <1>16, <3>4 DEF Dispatched
      <4>2. j \in 1 .. n + 1 /\ j < n + 1
        BY <1>4
      <4>. QED
        BY <1>3, <4>1, <4>2, Zenon
    <3>. QED
      BY <3>1, <3>3, <3>4, Zenon
  <2>5. \A i \in 1 .. n + 1 : i \in 1 .. n \/ i = n + 1
    BY <1>4
  <2>. QED
    BY <1>1, <1>3, <2>3, <2>4, <2>5 DEF BatchesAgree
<1>. QED
  BY <1>8, <1>9, <1>10, <1>12, <1>13, <1>15, <1>17, <1>18, Zenon DEF IInv

\* EndPartition keeps the invariant; its break on an empty ready list, with
\* nothing skipped in the round, is not reachable.
LEMMA EndPartitionInv == IInv /\ EndPartition => IInv'
<1> SUFFICES ASSUME IInv, EndPartition PROVE IInv'
  OBVIOUS
<1>0. phase = "partition"
  BY Zenon DEF EndPartition
<1>1. CASE ready = {} /\ skippedThisRound
  <2>1. /\ phase' = "select" /\ call' = call /\ executionOrder' = executionOrder
        /\ batchNum' = batchNum
    BY <1>1, Zenon DEF EndPartition
  <2>2. TypeOK'
    BY <1>1, Zenon DEF IInv, TypeOK, DAGTypeOK, EndPartition, dagVars, Phases
  <2>3. ReadyList' /\ Wave' /\ BatchCount'
    BY <1>0, <2>1, Zenon DEF IInv, ReadyList, Wave, BatchCount
  <2>. QED
    BY <1>0, <1>1, <2>1, <2>2, <2>3, LoopStep, Zenon DEF EndPartition, InLoop
<1>2. CASE ready = {} /\ ~skippedThisRound
  BY <1>0, <1>2, SomeReady, Zenon DEF IInv, ReadyList
<1>3. CASE ready # {} /\ ctxDone
  <2>1. Finish /\ UNCHANGED <<executionOrder, call>>
    BY <1>3, Zenon DEF EndPartition
  <2>. QED
    BY <1>0, <1>3, <2>1, FinishInv, Zenon DEF EndPartition
<1>4. CASE ready # {} /\ ~ctxDone
  BY <1>0, <1>4, StartWaveInv, Zenon DEF EndPartition
<1>. QED
  BY <1>1, <1>2, <1>3, <1>4, Zenon DEF IInv, TypeOK

----------------------------------------------------------------------------
(* The theorems                                                            *)

\* Every step of Schedule, of its goroutines and of their environment keeps
\* the invariant.
LEMMA NextInv == IInv /\ [Next]_vars => IInv'
<1> SUFFICES ASSUME IInv, [Next]_vars PROVE IInv'
  BY Zenon
<1>1. ASSUME NEW t \in Ids, IndexTask(t) PROVE IInv'
  BY <1>1, IndexTaskInv, Zenon
<1>2. ASSUME NEW dep \in Ids, NEW t \in Ids, AddDependency(dep, t) PROVE IInv'
  BY <1>2, AddDependencyInv, Zenon
<1>3. CASE Schedule
  <2>1. CASE EndIndex \/ EndEdges
    BY <2>1, EndBuildInv, Zenon
  <2>2. CASE Select \/ EndPartition \/ StartWaiting \/ EndBatch
    BY <2>2, SelectInv, EndPartitionInv, StartWaitingInv, EndBatchInv, Zenon
  <2>3. ASSUME NEW t \in Ids, SkipReady(t) \/ RecordDispatchErr(t) \/ Collect(t)
        PROVE  IInv'
    BY <2>3, SkipReadyInv, RecordDispatchErrInv, CollectInv, Zenon
  <2>. QED
    BY <1>3, <2>1, <2>2, <2>3, Zenon DEF Schedule
<1>4. ASSUME NEW t \in Ids, DispatchReturns(t) \/ WaitReturns(t) \/ AgentFinishes(t)
      PROVE  IInv'
  BY <1>4, DispatchReturnsInv, WaitReturnsInv, AgentFinishesInv, Zenon
<1>5. CASE Cancel
  BY <1>5, CancelInv, Zenon
<1>6. CASE EmptyID
  BY <1>6, EndBuildInv, Zenon
<1>7. CASE UNCHANGED vars
  <2>1. UNCHANGED <<dagVars, phase, loopVars, retErr>> /\ call' = call
    BY <1>7, Zenon DEF vars
  <2>2. TypeOK'
    BY <1>7, Zenon DEF IInv, TypeOK, DAGTypeOK, vars, dagVars, loopVars
  <2>. QED
    BY <2>1, <2>2, QuietStep, Zenon
<1>. QED
  BY <1>1, <1>2, <1>3, <1>4, <1>5, <1>6, <1>7, Zenon DEF Next, Returned

\* The invariant holds in every reachable state.
LEMMA InductiveInvariant == Spec => []IInv
BY InitIInv, NextInv, PTL DEF Spec

\* For every request, every set of result states and every interleaving: no
\* variable of Schedule leaves its type.
THEOREM SchedulerTypes == Spec => []TypeOK
<1>1. IInv => TypeOK
  BY Zenon DEF IInv
<1>. QED
  BY <1>1, InductiveInvariant, PTL

\* Schedule dispatches a task only after each of its dependencies has been
\* recorded "completed" (the counters, the skip marks and the barriers of
\* scheduler.go:95-231 together).
THEOREM DispatchOrder == Spec => []DependenciesFirst
<1>1. IInv => DependenciesFirst
  BY Zenon DEF IInv
<1>. QED
  BY <1>1, InductiveInvariant, PTL

\* Schedule dispatches a task once, in the batch it reports, after the batches
\* of all its dependencies.
THEOREM BatchOrder == Spec => []BatchesAgree
<1>1. IInv => BatchesAgree
  BY Zenon DEF IInv
<1>. QED
  BY <1>1, InductiveInvariant, PTL

\* The loop always finds a ready task while one remains, so the break of
\* scheduler.go:120 is dead code.
THEOREM LoopNeverStalls == Spec => []NeverStalls
<1>1. IInv => NeverStalls
  BY SomeReady, Zenon DEF NeverStalls
<1>. QED
  BY <1>1, InductiveInvariant, PTL

\* With a nil error, what Schedule returns accounts for every task: run, or
\* skipped exactly when a dependency did not complete.
THEOREM NilErrorExact == Spec => []NilErrorIsExact
<1>1. ASSUME IInv, phase = "done", ~retErr, NEW t \in nodes
      PROVE  /\ outcomes[t].batch >= 0
             /\ outcomes[t].status = "skipped" <=>
                  \E d \in nodes : edges[<<d, t>>] > 0 /\ outcomes[d].status # "completed"
             /\ t \in Dispatched <=> outcomes[t].status # "skipped"
  <2>1. /\ t \in completed /\ t \in Ids /\ nodes \subseteq Ids
        /\ \A d \in completed : edges[<<d, t>>] > 0 => d \in nodes
    BY <1>1, Zenon DEF IInv, NilErrorAllComplete, TypeOK, DAGTypeOK, Graph, EdgesWithin
  <2>2. /\ outcomes[t].batch >= 0
        /\ t \in Dispatched <=> outcomes[t].status # "skipped"
        /\ outcomes[t].status = "skipped" => t \in skip
    BY <1>1, <2>1, Zenon DEF IInv, DispatchedOrSkipped
  <2>3. t \in skip => \E d \in nodes : edges[<<d, t>>] > 0 /\ outcomes[d].status # "completed"
    BY <1>1, <2>1, Zenon DEF IInv, Marked
  <2>4. t \in Dispatched => ~ \E d \in nodes : edges[<<d, t>>] > 0 /\ outcomes[d].status # "completed"
    BY <1>1, <2>1, Zenon DEF IInv, DependenciesFirst
  <2>. QED
    BY <2>2, <2>3, <2>4, Zenon
<1>2. IInv => NilErrorIsExact
  BY <1>1, Zenon DEF NilErrorIsExact
<1>. QED
  BY <1>2, InductiveInvariant, PTL

\* No step overwrites an outcome: Schedule writes one only for a task that is
\* ready or that has a goroutine, and neither has one.
THEOREM NoOverwrite == Spec => OutcomesAreFinal
<1> DEFINE Kept == \A t \in Ids : outcomes[t] # NoOutcome => outcomes'[t] = outcomes[t]
<1>1. ASSUME IInv, [Next]_vars PROVE Kept
  <2>1. CASE outcomes' = outcomes
    BY <2>1, Zenon
  <2>2. CASE Finish
    BY <2>2, Zenon DEF Finish
  <2>3. ASSUME NEW t \in Ids, NEW s, outcomes[t] = NoOutcome,
               outcomes' = [outcomes EXCEPT ![t] = s]
        PROVE  Kept
    BY <1>1, <2>3, Zenon DEF IInv, TypeOK
  <2>4. ASSUME NEW t \in Ids, SkipReady(t) PROVE Kept
    <3>1. outcomes[t] = NoOutcome
      BY <1>1, <2>4, ReadyTask, Zenon DEF SkipReady
    <3>. QED
      BY <2>3, <2>4, <3>1, Zenon DEF SkipReady
  <2>5. ASSUME NEW t \in Ids, RecordDispatchErr(t) \/ Collect(t) PROVE Kept
    <3>1. call[t] # "idle" /\ phase = "collect"
      BY <2>5, ResultStatesAssumption, Zenon DEF RecordDispatchErr, Collect, Replies
    <3>2. t \notin completed
      BY <1>1, <3>1, WaveBatch, Zenon
    <3>3. outcomes[t] = NoOutcome
      BY <1>1, <3>1, <3>2, Zenon DEF IInv, Recorded
    <3>. QED
      BY <2>3, <2>5, <3>3, Zenon DEF RecordDispatchErr, Collect, Record
  <2>6. CASE Select \/ EndPartition
    BY <2>1, <2>2, <2>6, Zenon DEF Select, EndPartition
  <2>7. CASE EmptyID \/ EndIndex \/ EndEdges \/ StartWaiting \/ EndBatch \/ Cancel \/ Returned
             \/ UNCHANGED vars
    BY <2>1, <2>7, Zenon DEF EmptyID, EndIndex, EndEdges, StartWaiting, EndBatch, Cancel, Returned, vars, loopVars
  <2>8. ASSUME NEW t \in Ids,
               IndexTask(t) \/ DispatchReturns(t) \/ WaitReturns(t) \/ AgentFinishes(t)
        PROVE  Kept
    BY <2>1, <2>8, Zenon DEF IndexTask, DispatchReturns, WaitReturns, AgentFinishes, loopVars
  <2>9. ASSUME NEW dep \in Ids, NEW t \in Ids, AddDependency(dep, t) PROVE Kept
    BY <2>1, <2>9, Zenon DEF AddDependency, loopVars
  <2>. QED
    BY <1>1, <2>4, <2>5, <2>6, <2>7, <2>8, <2>9 DEF Next, Schedule
<1>2. IInv /\ [Next]_vars => [Kept]_vars
  BY <1>1, Zenon
<1>. QED
  BY <1>2, InductiveInvariant, PTL DEF Spec, OutcomesAreFinal
=============================================================================
