------------------------------ MODULE Attempts ------------------------------
(***************************************************************************)
(* What proxies promise about the messages of the queue, whoever runs them *)
(* and whenever they die: attempt n of a message is the work on its nth    *)
(* delivery, and goes from "working" over the calls of Handle that matter  *)
(* to a return, by which the message is settled.  Proxy implements this,   *)
(* and Lifecycle builds on it.                                             *)
(***************************************************************************)
EXTENDS TaskQueue

VARIABLES
  attempt,   \* per message and delivery: where the attempt is
  resulted   \* history: messages the result of which reached NATS

attemptVars == <<queueVars, attempt, resulted>>

Deliveries == 1 .. defaultMaxDeliver
AttemptStates == {"none", "working", "fail", "result", "completed", "nil", "err", "over"}

AttemptsInit ==
  /\ qstate \in [Msgs -> {"unsent", "ready"}]
  /\ deliveries = [t \in Msgs |-> 0]
  /\ attempt = [t \in Msgs |-> [n \in Deliveries |-> "none"]]
  /\ resulted = {}

\* PublishJSON of a caller stores the message.
Store(t) ==
  /\ qstate[t] = "unsent"
  /\ qstate' = [qstate EXCEPT ![t] = "ready"]
  /\ UNCHANGED <<deliveries, attempt, resulted>>

\* A fetch returns the message.
Begin(t) ==
  /\ Deliver(t)
  /\ attempt' = [attempt EXCEPT ![t][deliveries'[t]] = "working"]
  /\ UNCHANGED resulted

AckWait(t) == AckWaitExpires(t) /\ UNCHANGED <<attempt, resulted>>

\* An attempt goes on.
Go(t, n, from, to) ==
  /\ attempt[t][n] = from
  /\ attempt' = [attempt EXCEPT ![t][n] = to]

\* A proxy that shuts down rejects the message, and Handle one that does not
\* parse: no status is published.
Reject(t, n) == Go(t, n, "working", "err") /\ UNCHANGED <<queueVars, resulted>>

\* The agent answers, or a call to it fails.
AgentEnds(t, n) ==
  /\ Go(t, n, "working", "result") \/ Go(t, n, "working", "fail")
  /\ UNCHANGED <<queueVars, resulted>>

\* fail, with or without a status.
FailAttempt(t, n) == Go(t, n, "fail", "err") /\ UNCHANGED <<queueVars, resulted>>

\* The result is stored, and the call may return an error all the same.
StoreResult(t, n) ==
  /\ Go(t, n, "result", "completed") \/ Go(t, n, "result", "err")
  /\ resulted' = resulted \cup {t}
  /\ UNCHANGED queueVars

\* The result is not stored.
LoseResult(t, n) == Go(t, n, "result", "err") /\ UNCHANGED <<queueVars, resulted>>

\* An error of the completed status is only logged.
LogCompleted(t, n) == Go(t, n, "completed", "nil") /\ UNCHANGED <<queueVars, resulted>>

\* Ack; or Term after the last delivery; or Nak.
SettleTask(t, n) ==
  /\ \/ Go(t, n, "nil", "over") /\ Ack(t)
     \/ Go(t, n, "err", "over") /\ IF n >= defaultMaxDeliver THEN Term(t) ELSE Nak(t)
  /\ UNCHANGED resulted

\* The process is killed.
Die(t, n) ==
  /\ attempt[t][n] \notin {"none", "over"}
  /\ Go(t, n, attempt[t][n], "over")
  /\ UNCHANGED <<queueVars, resulted>>

AttemptMoves(t, n) ==
  \/ Reject(t, n) \/ AgentEnds(t, n) \/ FailAttempt(t, n) \/ StoreResult(t, n) \/ LoseResult(t, n)
  \/ LogCompleted(t, n) \/ SettleTask(t, n) \/ Die(t, n)

AttemptsNext ==
  \E t \in Msgs : \/ Store(t) \/ Begin(t) \/ AckWait(t)
                  \/ \E n \in Deliveries : AttemptMoves(t, n)

AttemptsSpec == AttemptsInit /\ [][AttemptsNext]_attemptVars
=============================================================================
