----------------------------- MODULE Lifecycle -----------------------------
(***************************************************************************)
(* The way of the tasks of one Orchestrator.FanOut: the goroutines that    *)
(* dispatch them (internal/orchestrator, internal/dispatch), the queue,    *)
(* the attempts of proxies to handle them (Attempts, which Proxy           *)
(* implements in detail), the messages back, and the cell the collector    *)
(* keeps for each (in detail in Collector).                                *)
(*                                                                         *)
(* A task is its index in the request and is also its message; attempt n   *)
(* of a task is the work on the nth delivery of its message.               *)
(***************************************************************************)
EXTENDS Attempts, Routing

CONSTANTS Roster,  \* the entries of the static registry
          Wants    \* the routing request of each task

ASSUME LifecycleAssumption == Len(Wants) \in Nat /\ DOMAIN Wants = 1 .. Len(Wants) /\ Msgs = DOMAIN Wants

VARIABLES
  disp,      \* per task: its goroutine is "running", or what it found
  arrived,   \* resultsCh: the tasks whose goroutine has sent its result, in order
  fan,       \* FanOut has "returned" or is "running"
  fanCtx,    \* its context is done
  slot,      \* result.Tasks: per index the status reported, "none" before
  wire,      \* <<task, kind>>: messages on their way to the collector
  cell,      \* the collector: "none", "failed", "completed" or "full" (a Task)
  cut,       \* history: attempts that ended without a word, by task
  lost       \* history: what of each task was lost on its way to the collector

fanVars == <<disp, arrived, fan, fanCtx, slot>>
backVars == <<wire, cell>>
histVars == <<cut, lost>>
lifeVars == <<fanVars, attemptVars, backVars, histVars>>

LifeInit ==
  /\ disp = [t \in Msgs |-> "running"] /\ arrived = <<>>
  /\ fan = "running" /\ fanCtx = FALSE
  /\ slot = [t \in Msgs |-> "none"]
  /\ qstate = [t \in Msgs |-> "unsent"] /\ AttemptsInit
  /\ wire = {}
  /\ cell = [t \in Msgs |-> "none"]
  /\ cut = [t \in Msgs |-> 0]
  /\ lost = [t \in Msgs |-> "none"]

----------------------------------------------------------------------------
(* FanOut and Dispatch                                                     *)

\* The goroutine of a task: Dispatch routes it, without an agent there is an
\* error; PublishJSON stores the message, stores it and returns an error all the
\* same, or does not store it; the result goes into a channel with room for all.
DispatchTask(t) ==
  /\ disp[t] = "running"
  /\ \/ /\ RouteByScore(Roster, Wants[t]) # noAgent
        /\ disp' = [disp EXCEPT ![t] = "submitted"] \/ disp' = [disp EXCEPT ![t] = "failed"]
        /\ Store(t)
     \/ /\ disp' = [disp EXCEPT ![t] = "failed"]
        /\ UNCHANGED attemptVars
  /\ arrived' = IF fan = "running" THEN Append(arrived, t) ELSE arrived
  /\ UNCHANGED <<fan, fanCtx, slot, backVars, histVars>>

CancelFanOut ==
  /\ ~fanCtx /\ fan = "running"
  /\ fanCtx' = TRUE
  /\ UNCHANGED <<disp, arrived, fan, slot, attemptVars, backVars, histVars>>

AllSent == Len(arrived) = Len(Wants)

\* Slip: a cancelled FanOut does not wait, and reports the rest as failed.
FanOutReturnsEarly ==
  /\ fan = "running" /\ (AllSent \/ fanCtx)
  /\ slot' = [t \in Msgs |-> IF t \in Range(arrived) THEN disp[t] ELSE "failed"]
  /\ fan' = "returned" /\ arrived' = <<>> /\ fanCtx' = FALSE
  /\ UNCHANGED <<disp, attemptVars, backVars, histVars>>

\* Slip: results are placed in the order in which they arrive.
FanOutInOrder ==
  /\ fan = "running" /\ AllSent
  /\ slot' = [t \in Msgs |-> disp[arrived[t]]]
  /\ fan' = "returned" /\ arrived' = <<>> /\ fanCtx' = FALSE
  /\ UNCHANGED <<disp, attemptVars, backVars, histVars>>

\* Slip: the goroutine that closes done is not waited for after a cancellation.
FanOutReturnsUncancelled ==
  /\ fan = "running" /\ AllSent /\ ~fanCtx
  /\ slot' = [t \in Msgs |-> disp[t]]
  /\ fan' = "returned" /\ arrived' = <<>> /\ fanCtx' = FALSE
  /\ UNCHANGED <<disp, attemptVars, backVars, histVars>>

\* FanOut waits for every goroutine, also when its context is done, and places
\* each result by its index.  (The error it returns says if ctx is done.)
FanOutReturns ==
  /\ fan = "running" /\ AllSent
  /\ slot' = [t \in Msgs |-> disp[t]]
  /\ fan' = "returned" /\ arrived' = <<>> /\ fanCtx' = FALSE
  /\ UNCHANGED <<disp, attemptVars, backVars, histVars>>

----------------------------------------------------------------------------
(* The attempts: processMessage and Handle                                 *)

DeliverTask(t) == Begin(t) /\ UNCHANGED <<fanVars, backVars, histVars>>

Redeliver(t) == AckWait(t) /\ UNCHANGED <<fanVars, backVars, histVars>>

Silent(t) == cut' = [cut EXCEPT ![t] = @ + 1]
Send(t, kind) == wire' = wire \cup {<<t, kind>>}

\* No status is published.
Rejects(t, n) == Reject(t, n) /\ Silent(t) /\ UNCHANGED <<fanVars, backVars, lost>>

AgentReturns(t, n) == AgentEnds(t, n) /\ UNCHANGED <<fanVars, backVars, histVars>>

\* fail: the context of the status may be done, then nothing is published.
PublishFailed(t, n) ==
  /\ FailAttempt(t, n)
  /\ (Send(t, "failed") /\ UNCHANGED cut) \/ (Silent(t) /\ UNCHANGED wire)
  /\ UNCHANGED <<fanVars, cell, lost>>

\* The result: stored, stored with an error all the same, or not stored.
PublishResult(t, n) ==
  /\ \/ StoreResult(t, n) /\ Send(t, "full") /\ UNCHANGED cut
     \/ LoseResult(t, n) /\ Silent(t) /\ UNCHANGED wire
  /\ UNCHANGED <<fanVars, cell, lost>>

PublishCompleted(t, n) ==
  /\ LogCompleted(t, n)
  /\ Send(t, "completed") \/ UNCHANGED wire
  /\ UNCHANGED <<fanVars, cell, histVars>>

Settles(t, n) == SettleTask(t, n) /\ UNCHANGED <<fanVars, backVars, histVars>>

\* The process is killed.
Dies(t, n) ==
  /\ Die(t, n)
  /\ IF attempt[t][n] \in {"working", "fail", "result"} THEN Silent(t) ELSE UNCHANGED cut
  /\ UNCHANGED <<fanVars, backVars, lost>>

----------------------------------------------------------------------------
(* The collector                                                           *)

\* Slip: the first to come stays, be it only a status.
StoredFirst(c, kind) == IF c = "none" THEN kind ELSE c

\* handleResult, handleStatus and storeAndNotify: a result supersedes a status.
Stored(c, kind) == IF c = "none" \/ (c # "full" /\ kind = "full") THEN kind ELSE c

Receive(t, kind) ==
  /\ <<t, kind>> \in wire
  /\ wire' = wire \ {<<t, kind>>}
  /\ cell' = [cell EXCEPT ![t] = Stored(@, kind)]
  /\ UNCHANGED <<fanVars, attemptVars, histVars>>

\* The subscriptions are of core NATS: what comes while the connection is down or
\* the client is slow is dropped and not sent again.
Lose(t, kind) ==
  /\ <<t, kind>> \in wire
  /\ wire' = wire \ {<<t, kind>>}
  /\ lost' = [lost EXCEPT ![t] = Stored(@, kind)]
  /\ UNCHANGED <<fanVars, attemptVars, cell, cut>>

----------------------------------------------------------------------------

AttemptStep(t, n) ==
  \/ Rejects(t, n) \/ AgentReturns(t, n) \/ PublishFailed(t, n) \/ PublishResult(t, n)
  \/ PublishCompleted(t, n) \/ Settles(t, n)

MessageKinds == {"failed", "completed", "full"}

\* What goes on by itself: goroutines run, the agent answers, AckWait ends, some
\* proxy fetches, messages arrive.
Progress ==
  \/ FanOutReturns
  \/ \E t \in Msgs :
       \/ DispatchTask(t) \/ DeliverTask(t) \/ Redeliver(t)
       \/ \E n \in Deliveries : AttemptStep(t, n)
       \/ \E kind \in MessageKinds : Receive(t, kind)

LifeNext ==
  \/ Progress \/ CancelFanOut
  \/ \E t \in Msgs, n \in Deliveries : Dies(t, n)
  \/ \E t \in Msgs, kind \in MessageKinds : Lose(t, kind)

LifeSpec == LifeInit /\ [][LifeNext]_lifeVars

----------------------------------------------------------------------------
(* Properties                                                              *)

LifecycleTypeOK ==
  /\ disp \in [Msgs -> {"running", "submitted", "failed"}]
  /\ Range(arrived) \subseteq Msgs /\ Len(arrived) <= Len(Wants)
  /\ fan \in {"running", "returned"} /\ fanCtx \in BOOLEAN
  /\ slot \in [Msgs -> {"none", "submitted", "failed"}]
  /\ qstate \in [Msgs -> {"unsent", "ready", "out", "acked", "termed"}]
  /\ deliveries \in [Msgs -> 0 .. defaultMaxDeliver]
  /\ attempt \in [Msgs -> [Deliveries -> AttemptStates]]
  /\ wire \subseteq Msgs \X MessageKinds
  /\ cell \in [Msgs -> {"none"} \cup MessageKinds]
  /\ cut \in [Msgs -> 0 .. defaultMaxDeliver]
  /\ lost \in [Msgs -> {"none"} \cup MessageKinds]
  /\ resulted \subseteq Msgs

\* What FanOut reports for an index is the fate of that task, whichever order
\* the goroutines end in: a submitted one is on the queue of an agent, one that
\* no agent can do has failed and was not sent (orchestrator.go:42-141).
SlotsAreTrue ==
  fan = "returned" =>
    \A t \in Msgs :
      /\ slot[t] # "none"
      /\ slot[t] = "submitted" => qstate[t] # "unsent"
      /\ RouteByScore(Roster, Wants[t]) = noAgent => slot[t] = "failed" /\ qstate[t] = "unsent"

\* Once FanOut has returned, cancelled or not, it sends nothing more
\* (orchestrator.go:107-118).
NothingSentLater == [][fan = "returned" => \A t \in Msgs : qstate'[t] # qstate[t] => qstate[t] # "unsent"]_lifeVars

\* No attempt at the task runs and none will, and nothing is on its way back.
Settled(t) ==
  /\ qstate[t] \in {"acked", "termed"} \/ GivenUp(t)
  /\ \A n \in Deliveries : attempt[t][n] \in {"none", "over"}
  /\ \A kind \in MessageKinds : <<t, kind>> \notin wire

\* What the collector has of a settled task is true, and complete but for the
\* messages that were lost on the way to it: it has the Task if any of the
\* attempts, overlapping or one after the other, came to publish it, though an
\* earlier one had failed, and it has nothing only if every attempt was cut short;
\* a task that has left the queue with an ack was published, whatever became of the
\* message (handler.go:249-263, :371, collector.go:48-55, :297).
SettledIsKnown ==
  \A t \in Msgs : Settled(t) =>
    /\ cell[t] = "full" => t \in resulted
    /\ t \in resulted => cell[t] = "full" \/ lost[t] = "full"
    /\ cell[t] = "none" => cut[t] = deliveries[t] \/ lost[t] # "none"
    /\ qstate[t] = "acked" => t \in resulted

\* Something can still go on by itself.
CanProgress ==
  \/ fan = "running" /\ AllSent
  \/ \E t \in Msgs :
       \/ disp[t] = "running"
       \/ qstate[t] = "out" \/ (qstate[t] = "ready" /\ deliveries[t] < defaultMaxDeliver)
       \/ \E n \in Deliveries : attempt[t][n] \notin {"none", "over"}
       \/ \E kind \in MessageKinds : <<t, kind>> \in wire

\* At rest FanOut has returned and every message that was stored is settled.
RestSettles ==
  ~CanProgress => fan = "returned" /\ \A t \in Msgs : qstate[t] # "unsent" => Settled(t)

\* Nothing hangs: FanOut returns, cancelled or not, and every message that was
\* stored is settled before the system comes to rest, as it must since no step
\* can be repeated for ever (orchestrator.go:107-118, nats.go:207-223).
RestIsSettled == (CanProgress <=> ENABLED Progress) /\ RestSettles
============================================================================
