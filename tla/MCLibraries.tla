---------------------------- MODULE MCLibraries ----------------------------
(***************************************************************************)
(* The packages that no program of the repository puts to use yet: the     *)
(* dynamic registry, the context tracker, the worker branches, and the     *)
(* orchestrator's fan-out with what becomes of its tasks.  They share      *)
(* nothing, so a behaviour is of one of them, with the others at rest.     *)
(***************************************************************************)
EXTENDS Registry, Tracker, Branch, Lifecycle

VARIABLE active

CardFn ==
  "a" :> [skills |-> {[id |-> "s", tags |-> {"t", "u"}]}, runtime |-> "r"]
  @@ "b" :> [skills |-> {[id |-> "x", tags |-> {"t"}], [id |-> "s", tags |-> {}]}, runtime |-> "q"]

FileEntry(n, c, q) == [name |-> n, card |-> c, subject |-> q, complete |-> TRUE]

GoodFile == <<FileEntry(2, "b", "q2"), FileEntry(1, "a", "q1")>>

\* The second file is refused: its agents share a queue.
FileSet == { GoodFile, <<FileEntry(2, "b", "q2"), FileEntry(3, "a", "q2")>> }

RequestSet ==
  { [skill |-> "s", tags |-> <<>>, runtime |-> ""],
    [skill |-> "x", tags |-> <<"u", "u">>, runtime |-> ""],
    [skill |-> "", tags |-> <<"t">>, runtime |-> ""],
    [skill |-> "", tags |-> <<"t">>, runtime |-> "q"] }

\* A fan-out of two tasks; no agent of the file can do the second.
TwoTasks ==
  << [skill |-> "s", tags |-> <<>>, runtime |-> ""], [skill |-> "z", tags |-> <<>>, runtime |-> ""] >>

OneAgent == <<FileEntry(1, "a", "q1")>>

\* Of two workers: one name begins with the other, or both become the same.
NamePairs ==
  { << <<"x", "x">>, <<"-", "x", ".">> >>, << <<"x", "-", "y">>, <<"x", ".", "-", ".", "y">> >> }

\* The last is refused.
AgentNames == UNION {{p[1], p[2]} : p \in NamePairs} \cup {<<".">>}

\* The defaults, thresholds at which the quotient is rounded down, thresholds out of
\* the range of a percentage, and two that are refused.
Thresholds ==
  { [full |-> f[1], checkpoint |-> f[2]] : f \in {<<60, 90>>, <<29, 58>>, <<0, 120>>, <<60, 60>>, <<90, 60>>} }

vars == <<active, registryVars, trackerVars, branchVars, lifeVars>>

\* The components that are not active start from a state of their own and stay
\* there.
AtRest ==
  /\ active # "registry" => kv = [n \in Names |-> "absent"] /\ file = GoodFile
  /\ active # "tracker" => config = [full |-> 60, checkpoint |-> 90]
  /\ IF active = "branch" THEN agentName \in NamePairs ELSE agentName = [w \in Workers |-> <<".">>]

Init ==
  /\ active \in {"registry", "tracker", "branch", "lifecycle"}
  /\ RegistryInit /\ TrackerInit /\ BranchInit /\ LifeInit /\ AtRest

Next ==
  /\ UNCHANGED active
  /\ \/ active = "registry" /\ RegistryNext /\ UNCHANGED <<trackerVars, branchVars, lifeVars>>
     \/ active = "tracker" /\ TrackerNext /\ UNCHANGED <<registryVars, branchVars, lifeVars>>
     \/ active = "branch" /\ BranchNext /\ UNCHANGED <<registryVars, trackerVars, lifeVars>>
     \/ active = "lifecycle" /\ LifeNext /\ UNCHANGED <<registryVars, trackerVars, branchVars>>

\* The goroutines run, and NATS is there often enough for WatchAll to succeed.
RegistryFair ==
  /\ WF_registryVars(active = "registry" /\ ListKeys) /\ WF_registryVars(active = "registry" /\ StartWatch)
  /\ WF_registryVars(active = "registry" /\ Apply) /\ WF_registryVars(active = "registry" /\ PauseEnds)
  /\ SF_registryVars(active = "registry" /\ WatchAll)
  /\ \A n \in Names : WF_registryVars(active = "registry" /\ GetKey(n))

Spec == Init /\ [][Next]_vars /\ RegistryFair
============================================================================
