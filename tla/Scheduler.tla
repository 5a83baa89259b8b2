----------------------------- MODULE Scheduler -----------------------------
(***************************************************************************)
(* Scheduler.Schedule (internal/scheduler/scheduler.go): run a request of  *)
(* tasks in dependency order, wave by wave.  One goroutine owns the graph, *)
(* the skip set and the outcomes; per wave it starts one dispatching       *)
(* goroutine and then one WaitFor goroutine per task, and meets them again *)
(* at two barriers.  The caller may cancel the context at any step.        *)
(*                                                                         *)
(* The request is not a constant: its tasks and dependencies arrive one at *)
(* a time while the graph is built, so a behaviour exists for every        *)
(* request over Ids, the rejected ones included.                           *)
(*                                                                         *)
(* The agents and the ResultWaiter are the environment.  agent[t] is what  *)
(* happens to t once its message is on the queue, whether or not Dispatch  *)
(* reported success.                                                       *)
(***************************************************************************)
EXTENDS DAG, Sequences

CONSTANT ResultStates   \* the a2a.TaskState values a TaskResult can carry

ASSUME ResultStatesAssumption ==
  ResultStates \cap {"none", "running", "skipped", "idle", "dispatching",
                     "dispatched", "dispatchErr", "waiting", "ctxErr", "waitErr"} = {}

VARIABLES
  phase,              \* where the Schedule goroutine is
  skip,               \* skip
  outcomes,           \* outcomes; NoOutcome for an absent key
  batchNum,           \* batchNum
  executionOrder,     \* executionOrder, each batch as a set
  ready,              \* the ready tasks the loop body has not looked at
  skippedThisRound,   \* skippedThisRound
  call,               \* per task of the wave: its dispatch or wait goroutine
  ctxDone,            \* ctx.Err() != nil
  retErr,             \* Schedule returned a non-nil error
  agent               \* environment: the task as the agents see it

loopVars == <<skip, outcomes, batchNum, executionOrder, ready, skippedThisRound>>
vars == <<dagVars, phase, loopVars, call, ctxDone, retErr, agent>>

Replies == ResultStates \cup {"ctxErr", "waitErr"}
Calls == {"idle", "dispatching", "dispatched", "dispatchErr", "waiting"} \cup Replies
Phases == {"index", "edges", "select", "partition", "dispatch", "collect",
           "done", "rejected"}

\* outcomeStatus(state): a state the switch does not name keeps its own name.
outcomeStatus(state) ==
  CASE state = "completed" -> "completed"
    [] state = "failed"    -> "failed"
    [] state = "canceled"  -> "canceled"
    [] OTHER               -> state

NoOutcome == [status |-> "none", batch |-> -1]
Outcome(status, batch) == [status |-> status, batch |-> batch]
Statuses == ResultStates \cup {"none", "completed", "failed", "canceled", "skipped"}

Init ==
  /\ NewDAG
  /\ phase = "index"
  /\ skip = {}
  /\ outcomes = [t \in Ids |-> NoOutcome]
  /\ batchNum = 0
  /\ executionOrder = <<>>
  /\ ready = {}
  /\ skippedThisRound = FALSE
  /\ call = [t \in Ids |-> "idle"]
  /\ ctxDone = FALSE
  /\ retErr = FALSE
  /\ agent = [t \in Ids |-> "none"]

----------------------------------------------------------------------------
(* Building the graph (scheduler.go:52-87)                                 *)

Reject ==
  /\ phase' = "rejected"
  /\ retErr' = TRUE

\* The next task of req.Tasks is indexed; a second task of that id is an error.
IndexTask(t) ==
  /\ phase = "index"
  /\ IF t \in nodes
     THEN Reject /\ UNCHANGED dagVars
     ELSE AddNode(t) /\ UNCHANGED <<phase, retErr>>
  /\ UNCHANGED <<loopVars, call, ctxDone, agent>>

\* The next task of req.Tasks has no id.
EmptyID ==
  /\ phase = "index"
  /\ Reject
  /\ UNCHANGED <<dagVars, loopVars, call, ctxDone, agent>>

\* req.Tasks is exhausted; an empty request is an error.
EndIndex ==
  /\ phase = "index"
  /\ IF nodes = {} THEN Reject ELSE phase' = "edges" /\ UNCHANGED retErr
  /\ UNCHANGED <<dagVars, loopVars, call, ctxDone, agent>>

\* The next dependency: t.DependsOn names dep.
AddDependency(dep, t) ==
  /\ phase = "edges"
  /\ t \in nodes
  /\ \/ /\ AddEdgeFails(dep, t)      \* unknown task, self-loop or cycle
        /\ Reject
        /\ UNCHANGED dagVars
     \/ /\ edges[<<dep, t>>] < MaxParallel
        /\ AddEdgeOk(dep, t)
        /\ UNCHANGED <<phase, retErr>>
  /\ UNCHANGED <<loopVars, call, ctxDone, agent>>

\* All dependencies are in: d.Validate()
EndEdges ==
  /\ phase = "edges"
  /\ IF Validate THEN phase' = "select" /\ UNCHANGED retErr ELSE Reject
  /\ UNCHANGED <<dagVars, loopVars, call, ctxDone, agent>>

----------------------------------------------------------------------------
(* The loop (scheduler.go:95-231)                                          *)

\* Slip: the context's error is not returned.
FinishNil ==
  /\ phase' = "done"
  /\ outcomes' = [t \in Ids |->
       IF t \in nodes /\ outcomes[t] = NoOutcome
       THEN Outcome("canceled", -1) ELSE outcomes[t]]
  /\ retErr' = FALSE

\* Slip: the final sweep relabels failed tasks too.
FinishRelabels ==
  /\ phase' = "done"
  /\ outcomes' = [t \in Ids |->
       IF t \in nodes /\ outcomes[t].status \in {"none", "failed"}
       THEN Outcome("canceled", outcomes[t].batch) ELSE outcomes[t]]
  /\ retErr' = ctxDone

\* Leaving the loop: tasks without an outcome are "canceled", batch -1.
Finish ==
  /\ phase' = "done"
  /\ outcomes' = [t \in Ids |->
       IF t \in nodes /\ outcomes[t] = NoOutcome
       THEN Outcome("canceled", -1) ELSE outcomes[t]]
  /\ retErr' = ctxDone

\* for d.Remaining() > 0 { ready := d.Ready() ...
Select ==
  /\ phase = "select"
  /\ IF SomeRemain
     THEN /\ phase' = "partition"
          /\ ready' = Ready
          /\ skippedThisRound' = FALSE
          /\ UNCHANGED <<outcomes, retErr>>
     ELSE Finish /\ UNCHANGED <<ready, skippedThisRound>>
  /\ UNCHANGED <<dagVars, skip, batchNum, executionOrder, call, ctxDone, agent>>

\* A ready task that is marked: record it, complete it, mark its dependents.
SkipReady(t) ==
  /\ phase = "partition"
  /\ t \in ready \cap skip
  /\ outcomes' = [outcomes EXCEPT ![t] = Outcome("skipped", batchNum)]
  /\ Complete(t)
  /\ skip' = skip \cup Dependents(t)
  /\ ready' = ready \ {t}
  /\ skippedThisRound' = TRUE
  /\ UNCHANGED <<phase, batchNum, executionOrder, call, ctxDone, retErr, agent>>

\* No marked task is left, the rest is toDispatch.  Go round again if it is
\* empty, give up if the context is done, otherwise start the wave.
EndPartition ==
  /\ phase = "partition"
  /\ ready \cap skip = {}
  /\ \/ /\ ready = {}
        /\ IF skippedThisRound THEN phase' = "select" /\ UNCHANGED <<outcomes, retErr>>
                               ELSE Finish
        /\ UNCHANGED <<executionOrder, call>>
     \/ /\ ready # {} /\ ctxDone
        /\ Finish
        /\ UNCHANGED <<executionOrder, call>>
     \/ /\ ready # {} /\ ~ctxDone
        /\ phase' = "dispatch"
        /\ executionOrder' = Append(executionOrder, ready)
        /\ call' = [t \in Ids |-> IF t \in ready THEN "dispatching" ELSE call[t]]
        /\ UNCHANGED <<outcomes, retErr>>
  /\ UNCHANGED <<dagVars, skip, batchNum, ready, skippedThisRound, ctxDone, agent>>

\* The dispatching goroutine of t returns.  An error may come from routing,
\* from a publish the server never saw, or from a publish that went through
\* and whose acknowledgement was lost or overtaken by the cancellation.
DispatchReturns(t) ==
  /\ call[t] = "dispatching"
  /\ \/ /\ call' = [call EXCEPT ![t] = "dispatched"]
        /\ agent' = [agent EXCEPT ![t] = "running"]
     \/ /\ call' = [call EXCEPT ![t] = "dispatchErr"]
        /\ agent' \in {agent, [agent EXCEPT ![t] = "running"]}
  /\ UNCHANGED <<dagVars, phase, loopVars, ctxDone, retErr>>

\* dispWg.Wait() returns; one WaitFor goroutine per dispatched task starts.
StartWaiting ==
  /\ phase = "dispatch"
  /\ \A t \in Ids : call[t] # "dispatching"
  /\ phase' = "collect"
  /\ call' = [t \in Ids |-> IF call[t] = "dispatched" THEN "waiting" ELSE call[t]]
  /\ UNCHANGED <<dagVars, loopVars, ctxDone, retErr, agent>>

\* Slip: the dependents of a failed task are not marked.
RecordUnmarked(t, status) ==
  /\ outcomes' = [outcomes EXCEPT ![t] = Outcome(status, batchNum)]
  /\ Complete(t)
  /\ call' = [call EXCEPT ![t] = "idle"]
  /\ UNCHANGED <<skip, phase, batchNum, executionOrder, ready, skippedThisRound,
                 ctxDone, retErr, agent>>

\* Record an outcome for t and complete it; mark its dependents unless the
\* outcome is "completed".
Record(t, status) ==
  /\ outcomes' = [outcomes EXCEPT ![t] = Outcome(status, batchNum)]
  /\ skip' = IF status = "completed" THEN skip ELSE skip \cup Dependents(t)
  /\ Complete(t)
  /\ call' = [call EXCEPT ![t] = "idle"]
  /\ UNCHANGED <<phase, batchNum, executionOrder, ready, skippedThisRound,
                 ctxDone, retErr, agent>>

\* A failed dispatch is recorded without waiting.
RecordDispatchErr(t) ==
  /\ phase = "collect"
  /\ call[t] = "dispatchErr"
  /\ Record(t, "failed")

\* Slip: WaitFor does not look at its context.
WaitReturnsResultOnly(t) ==
  /\ call[t] = "waiting"
  /\ agent[t] \in ResultStates
  /\ call' = [call EXCEPT ![t] = agent[t]]
  /\ UNCHANGED <<dagVars, phase, loopVars, ctxDone, retErr, agent>>

\* WaitFor returns: with the agent's result, with the context's error, or with
\* another error of the ResultWaiter (the interface allows one).
WaitReturns(t) ==
  /\ call[t] = "waiting"
  /\ \/ agent[t] \in ResultStates /\ call' = [call EXCEPT ![t] = agent[t]]
     \/ ctxDone /\ call' = [call EXCEPT ![t] = "ctxErr"]
     \/ call' = [call EXCEPT ![t] = "waitErr"]
  /\ UNCHANGED <<dagVars, phase, loopVars, ctxDone, retErr, agent>>

\* The main goroutine takes a reply from waitCh.
Collect(t) ==
  /\ phase = "collect"
  /\ \A u \in Ids : call[u] # "dispatchErr"
  /\ call[t] \in Replies
  /\ Record(t, CASE call[t] = "ctxErr"  -> "canceled"
                 [] call[t] = "waitErr" -> "failed"
                 [] OTHER               -> outcomeStatus(call[t]))

\* waitCh is closed and drained: batchNum++
EndBatch ==
  /\ phase = "collect"
  /\ \A t \in Ids : call[t] = "idle"
  /\ phase' = "select"
  /\ batchNum' = batchNum + 1
  /\ UNCHANGED <<dagVars, skip, outcomes, executionOrder, ready, skippedThisRound,
                 call, ctxDone, retErr, agent>>

----------------------------------------------------------------------------
(* The environment                                                         *)

Cancel ==
  /\ phase \notin {"done", "rejected"}
  /\ ~ctxDone
  /\ ctxDone' = TRUE
  /\ UNCHANGED <<dagVars, phase, loopVars, call, retErr, agent>>

AgentFinishes(t) ==
  /\ agent[t] = "running"
  /\ \E s \in ResultStates : agent' = [agent EXCEPT ![t] = s]
  /\ UNCHANGED <<dagVars, phase, loopVars, call, ctxDone, retErr>>

Returned == phase \in {"done", "rejected"} /\ UNCHANGED vars

Schedule ==
  \/ EndIndex \/ EndEdges \/ Select \/ EndPartition \/ StartWaiting \/ EndBatch
  \/ \E t \in Ids : SkipReady(t) \/ RecordDispatchErr(t) \/ Collect(t)

Next ==
  \/ EmptyID
  \/ \E t \in Ids : IndexTask(t)
  \/ \E dep, t \in Ids : AddDependency(dep, t)
  \/ Schedule
  \/ \E t \in Ids : DispatchReturns(t) \/ WaitReturns(t) \/ AgentFinishes(t)
  \/ Cancel
  \/ Returned

Spec == Init /\ [][Next]_vars

\* Go runs every goroutine that is not blocked, and WaitFor returns once there
\* is a result or its context is done; nothing obliges an agent to answer.
UnblockedWait(t) ==
  (ctxDone \/ agent[t] \in ResultStates) /\ WaitReturns(t)

FairSpec ==
  /\ Spec
  /\ WF_vars(Schedule)
  /\ \A t \in Ids : WF_vars(DispatchReturns(t)) /\ WF_vars(UnblockedWait(t))

----------------------------------------------------------------------------
(* Properties                                                              *)

Batches == DOMAIN executionOrder
Dispatched == UNION {executionOrder[i] : i \in Batches}

\* Type invariant.
TypeOK ==
  /\ DAGTypeOK
  /\ phase \in Phases
  /\ skip \subseteq Ids
  /\ outcomes \in [Ids -> [status : Statuses, batch : Nat \cup {-1}]]
  /\ batchNum \in Nat
  /\ executionOrder \in Seq(SUBSET Ids)
  /\ ready \subseteq Ids
  /\ skippedThisRound \in BOOLEAN
  /\ call \in [Ids -> Calls]
  /\ ctxDone \in BOOLEAN
  /\ retErr \in BOOLEAN
  /\ agent \in [Ids -> ResultStates \cup {"none", "running"}]

\* A task is dispatched only when each of its dependencies has the outcome
\* "completed": the counters, the skip marks and the two barriers together
\* order the waves, whatever fails and whenever the context is cancelled.
DependenciesFirst ==
  \A t \in Dispatched, d \in Ids :
    edges[<<d, t>>] > 0 => outcomes[d].status = "completed"

\* A task is dispatched at most once, in the batch its outcome names, and in a
\* later batch than every dependency (executionOrder and TaskOutcome.Batch).
BatchesAgree ==
  \A i \in Batches : \A t \in executionOrder[i] :
    /\ outcomes[t] # NoOutcome => outcomes[t].batch = i - 1
    /\ \A j \in Batches : t \in executionOrder[j] => j = i
    /\ \A d \in Ids : edges[<<d, t>>] > 0 =>
         \E j \in Batches : j < i /\ d \in executionOrder[j]

\* While tasks remain one of them is ready: the break of scheduler.go:121
\* ("validation should have caught this") is never taken, even with a
\* dependency listed twice.
NeverStalls == phase = "select" /\ SomeRemain => Ready # {}

\* When Schedule returns a nil error every task was run or skipped, and a task
\* was skipped exactly when one of its dependencies did not complete.
NilErrorIsExact ==
  phase = "done" /\ ~retErr =>
    \A t \in nodes :
      /\ outcomes[t].batch >= 0
      /\ outcomes[t].status = "skipped" <=>
           \E d \in nodes : edges[<<d, t>>] > 0 /\ outcomes[d].status # "completed"
      /\ t \in Dispatched <=> outcomes[t].status # "skipped"

\* An outcome, once recorded, is never overwritten: not by a late reply, not
\* by the final sweep that marks tasks "canceled".
OutcomesAreFinal ==
  [][\A t \in Ids : outcomes[t] # NoOutcome => outcomes'[t] = outcomes[t]]_vars

\* Schedule returns: after a cancellation though agents never answer, and
\* without one if no agent keeps a task for ever (scheduler.go:121-215).
ScheduleReturns ==
  /\ ctxDone ~> phase \in {"done", "rejected"}
  /\ (\A t \in Ids : []<>(agent[t] # "running")) => <>(phase \in {"done", "rejected"})

\* scheduler.go:49: "already-in-flight tasks are awaited and their outcomes
\* recorded".  A task that Schedule reports as canceled after dispatching it
\* is no longer running when Schedule returns.
InFlightTasksAreAwaited ==
  phase = "done" =>
    \A t \in Dispatched : outcomes[t].status = "canceled" => agent[t] # "running"
=============================================================================
