----------------------------- MODULE DAGSearch -----------------------------
(***************************************************************************)
(* The two graph searches of internal/scheduler/dag.go, turn by turn: the  *)
(* worklist of reachable(), which AddEdge asks, and the three-colour       *)
(* depth-first search of Validate().  The graph is that of DAG, where the  *)
(* two searches are definitions.                                           *)
(*                                                                         *)
(* Validate is also asked about the graph with one more edge: what it      *)
(* would say if AddEdge let the edge in.                                   *)
(***************************************************************************)
EXTENDS DAG, Sequences

VARIABLES
  at,        \* the search that runs, or what the last call returned
  edge,      \* AddEdge: the new edge; Validate: the edge added to the graph
  stack,     \* stack, as a set: the answer does not depend on its order
  visited,   \* visited
  color,     \* color
  path,      \* the nodes whose calls of dfs are running, the outermost first
  todo       \* per node: the successors its call has still to look at

localVars == <<stack, visited, color, path, todo>>
searchVars == <<dagVars, at, edge, localVars>>

noEdge == <<>>

allWhite == [id \in Ids |-> "white"]

SearchInit ==
  /\ NewDAG
  /\ at = "idle" /\ edge = noEdge
  /\ stack = {} /\ visited = {}
  /\ color = allWhite /\ path = <<>> /\ todo = [id \in Ids |-> {}]

Idle == at \notin {"reachable", "validate"}

\* The search returns what, and its locals are gone.
Return(what) ==
  /\ at' = what
  /\ stack' = {} /\ visited' = {}
  /\ color' = allWhite /\ path' = <<>> /\ todo' = [id \in Ids |-> {}]
  /\ UNCHANGED edge

CallAddNode(id) == Idle /\ AddNode(id) /\ at' = "idle" /\ edge' = noEdge /\ UNCHANGED localVars
CallComplete(id) == Idle /\ Complete(id) /\ at' = "idle" /\ edge' = noEdge /\ UNCHANGED localVars

----------------------------------------------------------------------------
(* AddEdge(from, to): reachable(to, from)                                  *)

\* Slip: the search starts at the wrong end.
CallAddEdgeForward(from, to) ==
  /\ Idle /\ edges[<<from, to>>] < MaxParallel
  /\ edge' = <<from, to>>
  /\ IF from = to \/ from \notin nodes \/ to \notin nodes
     THEN at' = "refused" /\ UNCHANGED stack
     ELSE at' = "reachable" /\ stack' = {from}
  /\ UNCHANGED <<dagVars, visited, color, path, todo>>

CallAddEdge(from, to) ==
  /\ Idle /\ edges[<<from, to>>] < MaxParallel
  /\ edge' = <<from, to>>
  /\ IF from = to \/ from \notin nodes \/ to \notin nodes
     THEN at' = "refused" /\ UNCHANGED stack
     ELSE at' = "reachable" /\ stack' = {to}
  /\ UNCHANGED <<dagVars, visited, color, path, todo>>

\* Slip: the successors are not pushed.
ExpandOneLevel(curr) ==
  /\ at = "reachable" /\ curr \in stack \ visited /\ edge[1] \notin Dependents(curr)
  /\ visited' = visited \cup {curr}
  /\ stack' = stack \ {curr}
  /\ UNCHANGED <<dagVars, at, edge, color, path, todo>>

\* A turn of the loop: the successors of a node that was not visited are
\* pushed, unless from is one of them.
Expand(curr) ==
  /\ at = "reachable" /\ curr \in stack \ visited /\ edge[1] \notin Dependents(curr)
  /\ visited' = visited \cup {curr}
  /\ stack' = (stack \ {curr}) \cup Dependents(curr)
  /\ UNCHANGED <<dagVars, at, edge, color, path, todo>>

\* It is: AddEdge returns the error.
MeetTarget(curr) ==
  /\ at = "reachable" /\ curr \in stack \ visited /\ edge[1] \in Dependents(curr)
  /\ Return("refused")
  /\ UNCHANGED dagVars

\* A node that was visited is skipped.
SkipVisited(curr) ==
  /\ at = "reachable" /\ curr \in stack \cap visited
  /\ stack' = stack \ {curr}
  /\ UNCHANGED <<dagVars, at, edge, visited, color, path, todo>>

\* The stack is empty: reachable returns false and AddEdge adds the edge.
AddsEdge ==
  /\ at = "reachable" /\ stack = {}
  /\ edges' = [edges EXCEPT ![edge] = @ + 1]
  /\ inDegree' = [inDegree EXCEPT ![edge[2]] = @ + 1]
  /\ Return("added")
  /\ UNCHANGED <<nodes, completed>>

----------------------------------------------------------------------------
(* Validate                                                                *)

\* The successors of id in the graph that is searched.
Succs(id) == Dependents(id) \cup {s \in Ids : edge = <<id, s>>}

CallValidate(e) ==
  /\ Idle
  /\ edge' = e
  /\ at' = IF nodes = {} THEN "invalid" ELSE "validate"
  /\ UNCHANGED <<dagVars, localVars>>

\* dfs(id) begins.
Enter(id, rest) ==
  /\ color' = [color EXCEPT ![id] = "gray"]
  /\ path' = Append(path, id)
  /\ todo' = [rest EXCEPT ![id] = Succs(id)]
  /\ UNCHANGED <<dagVars, at, edge, stack, visited>>

Root(id) ==
  /\ at = "validate" /\ path = <<>>
  /\ id \in nodes /\ color[id] = "white"
  /\ Enter(id, todo)

top == path[Len(path)]
Passed(s) == [todo EXCEPT ![top] = @ \ {s}]

\* The loop of dfs(top) looks at s.
Descend(s) ==
  /\ at = "validate" /\ path # <<>>
  /\ s \in todo[top] /\ color[s] = "white"
  /\ Enter(s, Passed(s))

MeetBlack(s) ==
  /\ at = "validate" /\ path # <<>>
  /\ s \in todo[top] /\ color[s] = "black"
  /\ todo' = Passed(s)
  /\ UNCHANGED <<dagVars, at, edge, stack, visited, color, path>>

MeetGray(s) ==
  /\ at = "validate" /\ path # <<>>
  /\ s \in todo[top] /\ color[s] = "gray"
  /\ Return("invalid")
  /\ UNCHANGED dagVars

\* dfs(top) returns nil.
Leave ==
  /\ at = "validate" /\ path # <<>> /\ todo[top] = {}
  /\ color' = [color EXCEPT ![top] = "black"]
  /\ path' = SubSeq(path, 1, Len(path) - 1)
  /\ UNCHANGED <<dagVars, at, edge, stack, visited, todo>>

AllVisited ==
  /\ at = "validate" /\ path = <<>>
  /\ \A id \in nodes : color[id] # "white"
  /\ Return("valid")
  /\ UNCHANGED dagVars

----------------------------------------------------------------------------

SearchNext ==
  \/ \E id \in Ids : CallAddNode(id) \/ CallComplete(id) \/ Expand(id) \/ MeetTarget(id) \/ SkipVisited(id)
  \/ \E from, to \in Ids : CallAddEdge(from, to)
  \/ AddsEdge
  \/ \E e \in {noEdge} \cup nodes \X nodes : CallValidate(e)
  \/ \E id \in Ids : Root(id) \/ Descend(id) \/ MeetBlack(id) \/ MeetGray(id)
  \/ Leave \/ AllVisited

SearchSpec == SearchInit /\ [][SearchNext]_searchVars

\* The two searches say what DAG says, and agree, in whatever order nodes are
\* taken.  reachable() (dag.go:172) reports that it met its target only where
\* every successor-closed set around its start holds the target, and runs out
\* of nodes only where one does not.  Validate (dag.go:113) accepts the graph
\* exactly when it has no cycle, and would accept the graph with an edge more
\* exactly when AddEdge lets that edge in.
SearchesAgree ==
  LET accepts == IF edge = noEdge THEN Validate ELSE ~AddEdgeFails(edge[1], edge[2]) IN
  /\ at = "refused" => AddEdgeFails(edge[1], edge[2])
  /\ at = "reachable" /\ stack = {} => ~AddEdgeFails(edge[1], edge[2])
  /\ at = "valid" => accepts
  /\ at = "invalid" => ~accepts
============================================================================
