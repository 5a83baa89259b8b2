----------------------------- MODULE Collector -----------------------------
(***************************************************************************)
(* ResultCollector (internal/orchestrator/collector.go): turns the         *)
(* messages of two NATS subscriptions into return values of WaitFor.       *)
(*                                                                         *)
(* Each subscription has one callback goroutine and a queue of its own, so *)
(* messages of one subject arrive in order and a status may overtake the   *)
(* result published before it.  Every section under rc.mu is one action;   *)
(* handleStatus takes the mutex twice and is two.  A call <<c, t>> is the  *)
(* WaitFor goroutine that the WaitForAll of caller c runs for task t.      *)
(*                                                                         *)
(* The publishers are the proxies, reduced to the order in which Handle    *)
(* publishes; an attempt may stop anywhere, and attempts at one task run   *)
(* side by side when the queue delivers its message again.                 *)
(***************************************************************************)
EXTENDS Integers, Sequences, FiniteSets

CONSTANTS Tasks, Callers,
          Attempts   \* bound of the model: the deliveries of one task

States == {"completed", "failed", "canceled", "rejected", "working"}

\* TaskResult: its Status, and whether Task is non-nil.
Result == [state : States, full : BOOLEAN]
NoResult == [state |-> "none", full |-> FALSE]
ErrorResult == [state |-> "error", full |-> FALSE]
Calls == Callers \X Tasks

VARIABLES
  results,     \* rc.results; NoResult for an absent key
  waiters,     \* rc.waiters: per task, the callers whose channel is listed
  call,        \* per call: where its WaitFor is
  ch,          \* per call: what was sent to its channel or read at once
  answer,      \* per call: what WaitFor returned, NoResult before that
  ctxDone,     \* the callers whose context is done
  start,       \* where Start is
  resultSub,   \* the pending messages of the results subscription
  statusSub,   \* the pending messages of the status subscription
  held,        \* the status handleStatus is about to store, or NoStatus
  published    \* per task and attempt: the last message of Handle

collectorVars == <<results, waiters, held>>
callVars == <<call, ch, answer, ctxDone>>
subVars == <<start, resultSub, statusSub>>
vars == <<collectorVars, callVars, subVars, published>>

Msg == [task : Tasks, state : States]
NoStatus == [task |-> "none", state |-> "none"]

Init ==
  /\ results = [t \in Tasks |-> NoResult]
  /\ waiters = [t \in Tasks |-> {}]
  /\ call = [w \in Calls |-> "idle"]
  /\ ch = [w \in Calls |-> NoResult]
  /\ answer = [w \in Calls |-> NoResult]
  /\ ctxDone = {}
  /\ start = "new"
  /\ resultSub = <<>>
  /\ statusSub = <<>>
  /\ held = NoStatus
  /\ published = [a \in Tasks \X Attempts |-> "none"]

----------------------------------------------------------------------------
(* WaitFor and WaitForAll                                                  *)

\* Slip: register without looking for a stored result.
WaitForRegisters(c, t) ==
  /\ call[<<c, t>>] = "idle"
  /\ call' = [call EXCEPT ![<<c, t>>] = "select"]
  /\ waiters' = [waiters EXCEPT ![t] = @ \cup {c}]
  /\ UNCHANGED <<results, held, ch, answer, ctxDone, subVars, published>>

\* The first section of WaitFor: take a stored result or register a channel.
WaitFor(c, t) ==
  /\ call[<<c, t>>] = "idle"
  /\ IF results[t] # NoResult
     THEN /\ call' = [call EXCEPT ![<<c, t>>] = "found"]
          /\ ch' = [ch EXCEPT ![<<c, t>>] = results[t]]
          /\ UNCHANGED waiters
     ELSE /\ call' = [call EXCEPT ![<<c, t>>] = "select"]
          /\ waiters' = [waiters EXCEPT ![t] = @ \cup {c}]
          /\ UNCHANGED ch
  /\ UNCHANGED <<results, held, answer, ctxDone, subVars, published>>

\* WaitFor returns a result: the one it found, or the one in its channel.
WaitForReturns(c, t) ==
  /\ call[<<c, t>>] \in {"found", "select"}
  /\ ch[<<c, t>>] # NoResult
  /\ call' = [call EXCEPT ![<<c, t>>] = "returned"]
  /\ answer' = [answer EXCEPT ![<<c, t>>] = ch[<<c, t>>]]
  /\ UNCHANGED <<collectorVars, ch, ctxDone, subVars, published>>

\* The select takes ctx.Done(), even when the channel holds a result too.
SelectDone(c, t) ==
  /\ call[<<c, t>>] = "select"
  /\ c \in ctxDone
  /\ call' = [call EXCEPT ![<<c, t>>] = "cleanup"]
  /\ UNCHANGED <<collectorVars, ch, answer, ctxDone, subVars, published>>

\* Slip: the channel stays on the list.
CleanupLeaks(c, t) ==
  /\ call[<<c, t>>] = "cleanup"
  /\ call' = [call EXCEPT ![<<c, t>>] = "returned"]
  /\ answer' = [answer EXCEPT ![<<c, t>>] = ErrorResult]
  /\ UNCHANGED <<collectorVars, ch, ctxDone, subVars, published>>

\* The second section of WaitFor: take the channel off the list.
Cleanup(c, t) ==
  /\ call[<<c, t>>] = "cleanup"
  /\ call' = [call EXCEPT ![<<c, t>>] = "returned"]
  /\ answer' = [answer EXCEPT ![<<c, t>>] = ErrorResult]
  /\ waiters' = [waiters EXCEPT ![t] = @ \ {c}]
  /\ UNCHANGED <<results, held, ch, ctxDone, subVars, published>>

CancelCaller(c) ==
  /\ c \notin ctxDone
  /\ ctxDone' = ctxDone \cup {c}
  /\ UNCHANGED <<collectorVars, call, ch, answer, subVars, published>>

----------------------------------------------------------------------------
(* The callbacks                                                           *)

\* Slip: a failure is not taken for the end.
isTerminalNoFailed(state) == state \in {"completed", "canceled", "rejected"}

isTerminal(state) == state \in {"completed", "failed", "canceled", "rejected"}

\* Slip: the last message wins.
storeAndNotifyLast(t, tr) ==
  /\ results' = [results EXCEPT ![t] = tr]
  /\ ch' = [w \in Calls |->
       IF w[2] = t /\ w[1] \in waiters[t] /\ ch[w] = NoResult THEN tr ELSE ch[w]]
  /\ waiters' = [waiters EXCEPT ![t] = {}]

storeAndNotify(t, tr) ==
  /\ results' = IF ~results[t].full THEN [results EXCEPT ![t] = tr] ELSE results
  /\ ch' = [w \in Calls |->
       IF w[2] = t /\ w[1] \in waiters[t] /\ ch[w] = NoResult THEN tr ELSE ch[w]]
  /\ waiters' = [waiters EXCEPT ![t] = {}]

\* handleResult runs for the next message of agent.results.>
handleResult ==
  /\ resultSub # <<>>
  /\ LET m == Head(resultSub)
     IN  storeAndNotify(m.task, [state |-> m.state, full |-> TRUE])
  /\ resultSub' = Tail(resultSub)
  /\ UNCHANGED <<held, call, answer, ctxDone, start, statusSub, published>>

\* handleStatus, up to the test of alreadyDone.
handleStatusCheck ==
  /\ held = NoStatus
  /\ statusSub # <<>>
  /\ LET m == Head(statusSub)
     IN  held' = IF isTerminal(m.state) /\ results[m.task] = NoResult THEN m ELSE NoStatus
  /\ statusSub' = Tail(statusSub)
  /\ UNCHANGED <<results, waiters, callVars, start, resultSub, published>>

\* handleStatus, the partial TaskResult.
handleStatusStore ==
  /\ held # NoStatus
  /\ storeAndNotify(held.task, [state |-> held.state, full |-> FALSE])
  /\ held' = NoStatus
  /\ UNCHANGED <<call, answer, ctxDone, subVars, published>>

----------------------------------------------------------------------------
(* Start                                                                   *)

SubscribeResults ==
  /\ start = "new"
  /\ start' \in {"subscribing", "stopped"}   \* "stopped": Subscribe failed
  /\ UNCHANGED <<collectorVars, callVars, resultSub, statusSub, published>>

\* When the second Subscribe fails the first subscription is dropped.
SubscribeStatus ==
  /\ start = "subscribing"
  /\ \/ start' = "listening" /\ UNCHANGED resultSub
     \/ start' = "stopped" /\ resultSub' = <<>>
  /\ UNCHANGED <<collectorVars, callVars, statusSub, published>>

\* <-ctx.Done(), then one Unsubscribe after the other; each drops what its
\* subscription has pending, and neither waits for a running callback.
UnsubscribeResults ==
  /\ start = "listening"
  /\ start' = "stopping"
  /\ resultSub' = <<>>
  /\ UNCHANGED <<collectorVars, callVars, statusSub, published>>

UnsubscribeStatus ==
  /\ start = "stopping"
  /\ start' = "stopped"
  /\ statusSub' = <<>>
  /\ UNCHANGED <<collectorVars, callVars, resultSub, published>>

----------------------------------------------------------------------------
(* The publishers: Handler.Handle in internal/proxy/handler.go.  A message *)
(* published while nobody subscribes is lost, and so may be any other.     *)

ToResults(m) ==
  /\ \/ start \in {"subscribing", "listening"} /\ resultSub' = Append(resultSub, m)
     \/ UNCHANGED resultSub
  /\ UNCHANGED statusSub

ToStatus(m) ==
  /\ \/ start \in {"listening", "stopping"} /\ statusSub' = Append(statusSub, m)
     \/ UNCHANGED statusSub
  /\ UNCHANGED resultSub

Publish(a) ==
  /\ LET m(state) == [task |-> a[1], state |-> state]
     IN  \/ /\ published[a] = "none"
            /\ published' = [published EXCEPT ![a] = "working"]
            /\ ToStatus(m("working"))
         \/ /\ published[a] = "working"
            /\ published' = [published EXCEPT ![a] = "failed"]
            /\ ToStatus(m("failed"))
         \/ /\ published[a] = "working"
            /\ published' = [published EXCEPT ![a] = "result"]
            /\ ToResults(m("completed"))
         \/ /\ published[a] = "result"
            /\ published' = [published EXCEPT ![a] = "completed"]
            /\ ToStatus(m("completed"))
  /\ UNCHANGED <<collectorVars, callVars, start>>

----------------------------------------------------------------------------

handleMessage == handleResult \/ handleStatusCheck \/ handleStatusStore

CallStep(w) ==
  WaitForReturns(w[1], w[2]) \/ SelectDone(w[1], w[2]) \/ Cleanup(w[1], w[2])

Next ==
  \/ \E w \in Calls : WaitFor(w[1], w[2]) \/ CallStep(w)
  \/ \E c \in Callers : CancelCaller(c)
  \/ handleMessage
  \/ SubscribeResults \/ SubscribeStatus \/ UnsubscribeResults \/ UnsubscribeStatus
  \/ \E a \in Tasks \X Attempts : Publish(a)

Spec == Init /\ [][Next]_vars

\* The callback goroutines and the calls that are not blocked make progress.
\* Nothing obliges a worker to publish, a caller to cancel or Start to end.
FairSpec ==
  /\ Spec
  /\ WF_vars(handleResult)
  /\ WF_vars(handleStatusCheck \/ handleStatusStore)
  /\ \A w \in Calls : WF_vars(CallStep(w))

----------------------------------------------------------------------------
(* Properties                                                              *)

\* Type invariant.
TypeOK ==
  /\ results \in [Tasks -> Result \cup {NoResult}]
  /\ waiters \in [Tasks -> SUBSET Callers]
  /\ call \in [Calls -> {"idle", "found", "select", "cleanup", "returned"}]
  /\ ch \in [Calls -> Result \cup {NoResult}]
  /\ answer \in [Calls -> Result \cup {NoResult, ErrorResult}]
  /\ ctxDone \subseteq Callers
  /\ start \in {"new", "subscribing", "listening", "stopping", "stopped"}
  /\ resultSub \in Seq(Msg)
  /\ statusSub \in Seq(Msg)
  /\ held \in Msg \cup {NoStatus}
  /\ published \in [Tasks \X Attempts -> {"none", "working", "failed", "result", "completed"}]

\* No lost wake-up: a call whose channel is listed waits for a task with no
\* stored result, whatever arrives between the two sections of handleStatus
\* or between a call's select and its clean-up.
NoLostWakeup == \A t \in Tasks : waiters[t] # {} => results[t] = NoResult

\* No leak: the list names exactly the calls that are still inside WaitFor and
\* have been sent nothing.
WaitersAreOpenCalls ==
  \A t \in Tasks :
    waiters[t] = {c \in Callers : /\ call[<<c, t>>] \in {"select", "cleanup"}
                                  /\ ch[<<c, t>>] = NoResult}

\* storeAndNotify: "a result message always supersedes a status", and nothing
\* supersedes a result.  A value changes only from partial to full, although
\* handleStatus acts on a check it made before it took the mutex again.
StoredResultsOnlyImprove ==
  [][\A t \in Tasks : results'[t] # results[t] =>
       results[t] = NoResult \/ (~results[t].full /\ results'[t].full)]_vars

\* Two callers that both got the full result of a task got the same one, the
\* one still stored.
FullAnswersAgree ==
  \A c \in Callers, t \in Tasks :
    answer[<<c, t>>].full => answer[<<c, t>>] = results[t]

\* A call returns an error only when its own context is done.
ErrorsAreCancellations ==
  \A c \in Callers, t \in Tasks :
    answer[<<c, t>>] = ErrorResult => c \in ctxDone

\* The calls inside WaitFor.
OpenCalls == {w \in Calls : call[w] \in {"found", "select", "cleanup"}}

Board == INSTANCE ResultBoard WITH
  cell <- results,
  pending <- OpenCalls,
  hand <- ch,
  cancelled <- ctxDone

\* The mutex, the waiter lists, the fast path and the two subscriptions
\* implement the board: every locked section is one step of it or none.
ImplementsBoard == Board!BoardSpec

\* A call ends once a value for its task is stored or its context is done.
\* handleStatus: "so WaitFor callers are not blocked indefinitely": a terminal
\* status that reaches the collector ends every call for its task, though the
\* result itself was lost.
CallsReturn ==
  \A c \in Callers, t \in Tasks :
    /\ call[<<c, t>>] = "select" /\ (results[t] # NoResult \/ c \in ctxDone)
         ~> call[<<c, t>>] = "returned"
    /\ call[<<c, t>>] = "select" /\ (\E i \in DOMAIN statusSub :
                                       statusSub[i].task = t /\ statusSub[i].state # "working")
         ~> call[<<c, t>>] = "returned" \/ start = "stopped"

\* types.go:34: Task is the "Full A2A Task response (nil if failed before
\* dispatch)".  A completed task is returned with its Task.
CompletedCarriesTask ==
  \A w \in Calls : answer[w].state = "completed" => answer[w].full
=============================================================================
