---------------------------- MODULE ResultBoard ----------------------------
(***************************************************************************)
(* What ResultCollector promises its callers, without the mutex, the lists *)
(* of waiters or the two subscriptions: one cell per task that is written  *)
(* once, or twice when a status was seen before the result, and calls that *)
(* return the value the cell had when they first could, or an error once   *)
(* their context is done.                                                  *)
(***************************************************************************)
CONSTANTS Tasks, Callers, States

\* TaskResult: its Status, and whether Task is non-nil.
Result == [state : States, full : BOOLEAN]
NoResult == [state |-> "none", full |-> FALSE]
ErrorResult == [state |-> "error", full |-> FALSE]
Calls == Callers \X Tasks

VARIABLES cell,       \* per task: the value stored, or NoResult
          pending,    \* the calls that have started and not returned
          hand,       \* per call: the value it will return, or NoResult
          cancelled,  \* the callers whose context is done
          answer      \* per call: NoResult, ErrorResult, or the value returned

boardVars == <<cell, pending, hand, cancelled, answer>>

BoardInit ==
  /\ cell = [t \in Tasks |-> NoResult]
  /\ pending = {}
  /\ hand = [w \in Calls |-> NoResult]
  /\ cancelled = {}
  /\ answer = [w \in Calls |-> NoResult]

\* A value is written and handed to every call that waits for the task.
Write(t, v) ==
  /\ cell[t] = NoResult \/ (~cell[t].full /\ v.full)
  /\ cell' = [cell EXCEPT ![t] = v]
  /\ hand' = [w \in Calls |->
       IF w \in pending /\ w[2] = t /\ hand[w] = NoResult THEN v ELSE hand[w]]
  /\ UNCHANGED <<pending, cancelled, answer>>

Begin(w) ==
  /\ w \notin pending
  /\ answer[w] = NoResult
  /\ pending' = pending \cup {w}
  /\ hand' = [hand EXCEPT ![w] = cell[w[2]]]
  /\ UNCHANGED <<cell, cancelled, answer>>

Return(w) ==
  /\ w \in pending
  /\ hand[w] # NoResult
  /\ answer' = [answer EXCEPT ![w] = hand[w]]
  /\ pending' = pending \ {w}
  /\ UNCHANGED <<cell, hand, cancelled>>

Fail(w) ==
  /\ w \in pending
  /\ w[1] \in cancelled
  /\ answer' = [answer EXCEPT ![w] = ErrorResult]
  /\ pending' = pending \ {w}
  /\ UNCHANGED <<cell, hand, cancelled>>

CancelCaller(c) ==
  /\ cancelled' = cancelled \cup {c}
  /\ UNCHANGED <<cell, pending, hand, answer>>

BoardNext ==
  \/ \E t \in Tasks, v \in Result : Write(t, v)
  \/ \E w \in Calls : Begin(w) \/ Return(w) \/ Fail(w)
  \/ \E c \in Callers : CancelCaller(c)

BoardSpec == BoardInit /\ [][BoardNext]_boardVars
=============================================================================
