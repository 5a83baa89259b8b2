----------------------------- MODULE TaskQueue -----------------------------
(***************************************************************************)
(* The durable JetStream consumer that all proxies of an agent share, as   *)
(* internal/queue/nats.go configures it: explicit acknowledgement, AckWait *)
(* and MaxDeliver.  JetStream itself is not part of the repository; these  *)
(* are the guarantees the consumer relies on.                              *)
(***************************************************************************)
EXTENDS Integers

CONSTANT Msgs   \* the messages of the stream, one per task

VARIABLES qstate,       \* per message: "ready", "out", "acked" or "termed"
          deliveries    \* per message: how often it was handed out

queueVars == <<qstate, deliveries>>

defaultMaxDeliver == 3

QueueInit ==
  /\ qstate = [m \in Msgs |-> "ready"]
  /\ deliveries = [m \in Msgs |-> 0]

\* A message is handed out; its NumDelivered is deliveries'[m].
Deliver(m) ==
  /\ qstate[m] = "ready"
  /\ deliveries[m] < defaultMaxDeliver
  /\ qstate' = [qstate EXCEPT ![m] = "out"]
  /\ deliveries' = [deliveries EXCEPT ![m] = @ + 1]

\* AckWait runs out: the consumer sends no progress, so this may happen while
\* the message is still being worked on.
AckWaitExpires(m) ==
  /\ qstate[m] = "out"
  /\ qstate' = [qstate EXCEPT ![m] = "ready"]
  /\ UNCHANGED deliveries

\* Ack, Nak and Term are sent without waiting for an answer and may be lost.
\* One that belongs to an earlier delivery still reaches the message.
Settle(m, to) ==
  /\ \/ /\ qstate[m] \in {"ready", "out"}
        /\ qstate' = [qstate EXCEPT ![m] = to]
     \/ UNCHANGED qstate
  /\ UNCHANGED deliveries

Ack(m) == Settle(m, "acked")
Term(m) == Settle(m, "termed")
Nak(m) == Settle(m, "ready")

\* JetStream hands the message out no more.
GivenUp(m) == qstate[m] = "ready" /\ deliveries[m] = defaultMaxDeliver

\* The types of the queue, for the modules that use it.
QueueTypeOK ==
  /\ qstate \in [Msgs -> {"ready", "out", "acked", "termed"}]
  /\ deliveries \in [Msgs -> 0 .. defaultMaxDeliver]
=============================================================================
