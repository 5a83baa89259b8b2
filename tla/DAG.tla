-------------------------------- MODULE DAG --------------------------------
(***************************************************************************)
(* The task dependency graph of internal/scheduler/dag.go: a graph that is *)
(* kept acyclic edge by edge, with one counter per node of the             *)
(* predecessors still to complete.                                         *)
(*                                                                         *)
(* edges[<<from, to>>] is the number of times "to" occurs in the Go slice  *)
(* edges[from]: AddEdge never removes duplicates, so a task that names the *)
(* same dependency twice has two parallel edges.  The order of the slice   *)
(* is abstracted.                                                          *)
(***************************************************************************)
EXTENDS Integers, FiniteSets

CONSTANTS Ids,          \* every node id a caller may name
          MaxParallel   \* bound of the model: parallel edges between two nodes

VARIABLES nodes,      \* d.nodes
          edges,      \* d.edges, as multiplicities
          inDegree,   \* d.inDegree; a node that is not registered reads as 0
          completed   \* d.completed

dagVars == <<nodes, edges, inDegree, completed>>

----------------------------------------------------------------------------

\* NewDAG
NewDAG ==
  /\ nodes = {}
  /\ edges = [e \in Ids \X Ids |-> 0]
  /\ inDegree = [id \in Ids |-> 0]
  /\ completed = {}

\* Is S closed under following edges?
SuccClosed(S) == \A a \in S, b \in Ids : edges[<<a, b>>] > 0 => b \in S

\* reachable(start, target): target lies in every set that holds start and is
\* closed under edges.  DAGSearch has the worklist loop the code runs.
Reachable(start, target) ==
  \A S \in SUBSET Ids : start \in S /\ SuccClosed(S) => target \in S

\* Dependents(id), as a set
Dependents(id) == {s \in Ids : edges[<<id, s>>] > 0}

\* Ready(), as a set
Ready == {id \in nodes : id \notin completed /\ inDegree[id] = 0}

\* Remaining() > 0
SomeRemain == nodes \ completed # {}

\* Validate() succeeds: the graph is not empty and has no cycle, i.e. every
\* non-empty set of nodes has a member with no predecessor inside the set.
Acyclic ==
  \A S \in (SUBSET Ids) \ {{}} :
    \E s \in S : \A p \in S : edges[<<p, s>>] = 0

Validate == nodes # {} /\ Acyclic

----------------------------------------------------------------------------

AddNode(id) ==
  /\ nodes' = nodes \cup {id}
  /\ UNCHANGED <<edges, inDegree, completed>>

\* AddEdge(from, to) returns an error and leaves the graph as it was.
AddEdgeFails(from, to) ==
  \/ from = to
  \/ from \notin nodes
  \/ to \notin nodes
  \/ Reachable(to, from)

\* AddEdge(from, to) returns nil.
AddEdgeOk(from, to) ==
  /\ ~AddEdgeFails(from, to)
  /\ edges' = [edges EXCEPT ![<<from, to>>] = @ + 1]
  /\ inDegree' = [inDegree EXCEPT ![to] = @ + 1]
  /\ UNCHANGED <<nodes, completed>>

\* Slip: a second completion counts again.
CompleteTwice(id) ==
  /\ completed' = completed \cup {id}
  /\ inDegree' = [s \in Ids |-> inDegree[s] - edges[<<id, s>>]]
  /\ UNCHANGED <<nodes, edges>>

\* Slip: one decrement per dependent instead of one per edge.
CompleteOncePerDependent(id) ==
  /\ IF id \in completed
     THEN UNCHANGED <<inDegree, completed>>
     ELSE /\ completed' = completed \cup {id}
          /\ inDegree' = [s \in Ids |-> IF s \in Dependents(id)
                                        THEN inDegree[s] - 1 ELSE inDegree[s]]
  /\ UNCHANGED <<nodes, edges>>

\* Complete(id) of a node that is already complete is a no-op.  An id that is not
\* registered is accepted like any other.
Complete(id) ==
  /\ IF id \in completed
     THEN UNCHANGED <<inDegree, completed>>
     ELSE /\ completed' = completed \cup {id}
          /\ inDegree' = [s \in Ids |-> inDegree[s] - edges[<<id, s>>]]
  /\ UNCHANGED <<nodes, edges>>

----------------------------------------------------------------------------
(* The graph as a component of its own: any caller, any order of calls.    *)

DAGNext ==
  \/ \E id \in Ids : AddNode(id)
  \/ \E from, to \in Ids :
       edges[<<from, to>>] < MaxParallel /\ AddEdgeOk(from, to)
  \/ \E id \in Ids : Complete(id)

DAGSpec == NewDAG /\ [][DAGNext]_dagVars

\* Type invariant.
DAGTypeOK ==
  /\ nodes \subseteq Ids
  /\ edges \in [Ids \X Ids -> Nat]
  /\ inDegree \in [Ids -> Int]
  /\ completed \subseteq Ids

\* AddEdge refuses exactly enough: no sequence of AddNode, AddEdge and
\* Complete calls leaves a cycle in the graph, so the Validate call that
\* Schedule makes afterwards (scheduler.go:85) cannot fail on a cycle.
AddEdgeKeepsAcyclic == Acyclic

\* Ready never lists a node that has a predecessor to come, in whatever order
\* and however often nodes are completed and edges added: the counters never
\* fall below the edges that are still open.
ReadyWaitsForAll ==
  \A id \in Ready, p \in nodes \ completed : edges[<<p, id>>] = 0
=============================================================================
