-------------------------- MODULE LifecycleProofs --------------------------
(***************************************************************************)
(* The way of a task through FanOut, queue and proxy, and the collector of *)
(* the results at its end, for every value of the constants.               *)
(***************************************************************************)
EXTENDS Collector, Lifecycle, FiniteSetTheorems, TLAPS

----------------------------------------------------------------------------
(* ResultCollector: no wake-up is lost, results only improve, and the      *)
(* collector implements ResultBoard.                                       *)

\* What the local state of a call says about its channel and its answer.
CallShape ==
  \A w \in Calls :
    /\ call[w] = "idle" => ch[w] = NoResult
    /\ call[w] = "found" => ch[w] # NoResult
    /\ call[w] # "returned" => answer[w] = NoResult
    /\ call[w] = "cleanup" => w[1] \in ctxDone
    /\ answer[w] \in {NoResult, ErrorResult, ch[w]}

\* A full result that was handed to a call is the one stored.
HandedIsStored == \A w \in Calls : ch[w].full => ch[w] = results[w[2]]

\* handleStatus acts on a stale check, but what may have been stored meanwhile
\* is a full result: no other goroutine stores a partial one.
HeldIsFirst ==
  held # NoStatus => \/ results[held.task] = NoResult
                     \/ results[held.task].full

IInv ==
  /\ TypeOK
  /\ CallShape
  /\ NoLostWakeup
  /\ WaitersAreOpenCalls
  /\ HandedIsStored
  /\ HeldIsFirst
  /\ ErrorsAreCancellations

\* The initial state satisfies the invariant.
LEMMA InitIInv == Init => IInv
<1> SUFFICES ASSUME Init PROVE IInv
  BY Zenon
<1> USE DEF Init, NoResult, NoStatus, ErrorResult
<1>1. TypeOK
  BY DEF TypeOK
<1>2. CallShape
  BY Zenon DEF CallShape
<1>3. NoLostWakeup /\ HandedIsStored /\ HeldIsFirst
  BY Zenon DEF NoLostWakeup, HandedIsStored, HeldIsFirst
<1>4. WaitersAreOpenCalls
  BY Zenon DEF WaitersAreOpenCalls, Calls
<1>5. ErrorsAreCancellations
  BY Zenon DEF ErrorsAreCancellations, Calls
<1>. QED
  BY <1>1, <1>2, <1>3, <1>4, <1>5, Zenon DEF IInv

\* Steps that touch neither the stored results, the waiters nor the calls.
LEMMA FrameInv ==
  ASSUME IInv, TypeOK', UNCHANGED <<results, waiters, call, ch, answer>>,
         ctxDone \subseteq ctxDone', HeldIsFirst'
  PROVE  IInv'
<1>1. CallShape'
  BY Zenon DEF IInv, CallShape
<1>2. NoLostWakeup' /\ HandedIsStored'
  BY Zenon DEF IInv, NoLostWakeup, HandedIsStored
<1>3. WaitersAreOpenCalls' /\ ErrorsAreCancellations'
  BY Zenon DEF IInv, WaitersAreOpenCalls, ErrorsAreCancellations
<1>. QED
  BY <1>1, <1>2, <1>3, Zenon DEF IInv

\* storeAndNotify keeps the invariant when the value is full, or is partial
\* and no partial value is stored.
LEMMA StoreInv ==
  ASSUME IInv, NEW t \in Tasks, NEW tr \in Result, storeAndNotify(t, tr),
         TypeOK', UNCHANGED <<call, answer, ctxDone>>,
         tr.full \/ results[t] = NoResult \/ results[t].full,
         held' = NoStatus \/ (held' = held /\ tr.full)
  PROVE  IInv'
<1>1. tr # NoResult
  BY DEF Result, NoResult, States
<1>2. \A w \in Calls : ch'[w] = IF w[2] = t /\ w[1] \in waiters[t] /\ ch[w] = NoResult
                                THEN tr ELSE ch[w]
  BY Zenon DEF storeAndNotify
<1>3. results'[t] = IF results[t].full THEN results[t] ELSE tr
  BY Zenon DEF storeAndNotify, IInv, TypeOK
<1>4. \A u \in Tasks \ {t} : results'[u] = results[u] /\ waiters'[u] = waiters[u]
  BY Zenon DEF storeAndNotify, IInv, TypeOK
<1>5. waiters'[t] = {}
  BY Zenon DEF storeAndNotify, IInv, TypeOK
<1>6. waiters[t] # {} => results[t] = NoResult
  BY Zenon DEF IInv, NoLostWakeup
<1>7. ~NoResult.full
  BY Zenon DEF NoResult
<1>8. \A w \in Calls : w[1] \in Callers /\ w[2] \in Tasks /\ w = <<w[1], w[2]>>
  BY DEF Calls
<1>9. \A c \in Callers, u \in Tasks : <<c, u>> \in Calls
  BY Zenon DEF Calls
<1>10. \A c \in waiters[t] : /\ c \in Callers
                             /\ call[<<c, t>>] \in {"select", "cleanup"}
  BY Zenon DEF IInv, WaitersAreOpenCalls
<1>11. CallShape'
  <2> SUFFICES ASSUME NEW w \in Calls
               PROVE  /\ call[w] = "idle" => ch'[w] = NoResult
                      /\ call[w] = "found" => ch'[w] # NoResult
                      /\ call[w] # "returned" => answer[w] = NoResult
                      /\ call[w] = "cleanup" => w[1] \in ctxDone
                      /\ answer[w] \in {NoResult, ErrorResult, ch'[w]}
    BY Zenon DEF CallShape
  <2>1. /\ call[w] = "idle" => ch[w] = NoResult
        /\ call[w] = "found" => ch[w] # NoResult
        /\ call[w] # "returned" => answer[w] = NoResult
        /\ call[w] = "cleanup" => w[1] \in ctxDone
        /\ answer[w] \in {NoResult, ErrorResult, ch[w]}
    BY Zenon DEF IInv, CallShape
  <2>2. CASE w[2] = t /\ w[1] \in waiters[t] /\ ch[w] = NoResult
    <3>1. call[w] \in {"select", "cleanup"}
      BY <1>8, <1>10, <2>2, Zenon
    <3>. QED
      BY <1>1, <1>2, <2>1, <2>2, <3>1, Zenon
  <2>3. CASE ~(w[2] = t /\ w[1] \in waiters[t] /\ ch[w] = NoResult)
    BY <1>2, <2>1, <2>3, Zenon
  <2>. QED
    BY <2>2, <2>3, Zenon
<1>12. NoLostWakeup'
  BY <1>4, <1>5, Zenon DEF IInv, NoLostWakeup
<1>13. WaitersAreOpenCalls'
  <2> SUFFICES ASSUME NEW u \in Tasks
               PROVE  waiters'[u] = {c \in Callers : /\ call[<<c, u>>] \in {"select", "cleanup"}
                                                     /\ ch'[<<c, u>>] = NoResult}
    BY Zenon DEF WaitersAreOpenCalls
  <2>1. waiters[u] = {c \in Callers : /\ call[<<c, u>>] \in {"select", "cleanup"}
                                      /\ ch[<<c, u>>] = NoResult}
    BY Zenon DEF IInv, WaitersAreOpenCalls
  <2>2. CASE u = t
    <3>1. \A c \in Callers : call[<<c, u>>] \in {"select", "cleanup"} => ch'[<<c, u>>] # NoResult
      BY <1>1, <1>2, <1>9, <2>1, <2>2, Zenon
    <3>. QED
      BY <1>5, <2>2, <3>1, Zenon
  <2>3. CASE u # t
    <3>1. \A c \in Callers : ch'[<<c, u>>] = ch[<<c, u>>]
      BY <1>2, <1>9, <2>3, Zenon
    <3>. QED
      BY <1>4, <2>1, <2>3, <3>1, Zenon
  <2>. QED
    BY <2>2, <2>3, Zenon
<1>14. HandedIsStored'
  <2> SUFFICES ASSUME NEW w \in Calls, ch'[w].full
               PROVE  ch'[w] = results'[w[2]]
    BY Zenon DEF HandedIsStored
  <2>1. ch[w].full => ch[w] = results[w[2]]
    BY Zenon DEF IInv, HandedIsStored
  <2>2. CASE w[2] = t /\ w[1] \in waiters[t] /\ ch[w] = NoResult
    BY <1>2, <1>3, <1>6, <1>7, <2>2, Zenon
  <2>3. CASE ~(w[2] = t /\ w[1] \in waiters[t] /\ ch[w] = NoResult)
    BY <1>2, <1>3, <1>4, <1>8, <2>1, <2>3, Zenon
  <2>. QED
    BY <2>2, <2>3, Zenon
<1>15. HeldIsFirst'
  <2>1. CASE held' = NoStatus
    BY <2>1, Zenon DEF HeldIsFirst
  <2>2. CASE held' = held /\ tr.full /\ held # NoStatus
    <3>1. held.task \in Tasks
      BY <2>2, Zenon DEF IInv, TypeOK, Msg
    <3>. QED
      BY <1>3, <1>4, <2>2, <3>1, Zenon DEF IInv, HeldIsFirst
  <2>. QED
    BY <2>1, <2>2, Zenon
<1>16. ErrorsAreCancellations'
  BY Zenon DEF IInv, ErrorsAreCancellations
<1>. QED
  BY <1>11, <1>12, <1>13, <1>14, <1>15, <1>16, Zenon DEF IInv

----------------------------------------------------------------------------
(* The callbacks                                                           *)

\* storeAndNotify keeps the types of what it writes.
LEMMA StoreType ==
  ASSUME TypeOK, NEW t \in Tasks, NEW tr \in Result, storeAndNotify(t, tr)
  PROVE  /\ results' \in [Tasks -> Result \cup {NoResult}]
         /\ ch' \in [Calls -> Result \cup {NoResult}]
         /\ waiters' \in [Tasks -> SUBSET Callers]
BY Zenon DEF TypeOK, storeAndNotify

\* handleResult keeps the invariant.
LEMMA handleResultInv == IInv /\ handleResult => IInv'
<1> SUFFICES ASSUME IInv, handleResult PROVE IInv'
  BY Zenon
<1> DEFINE m == Head(resultSub)
           tr == [state |-> m.state, full |-> TRUE]
<1>1. TypeOK
  BY Zenon DEF IInv
<1>2. m \in Msg /\ resultSub' \in Seq(Msg)
  BY <1>1 DEF TypeOK, handleResult
<1>3. m.task \in Tasks /\ tr \in Result /\ tr.full
  BY <1>2, Zenon DEF Msg, Result
<1>4. storeAndNotify(m.task, tr)
  BY Zenon DEF handleResult
<1>5. TypeOK'
  <2>1. /\ results' \in [Tasks -> Result \cup {NoResult}]
        /\ ch' \in [Calls -> Result \cup {NoResult}]
        /\ waiters' \in [Tasks -> SUBSET Callers]
    BY <1>1, <1>3, <1>4, StoreType, Zenon
  <2>. QED
    BY <1>1, <1>2, <2>1, Zenon DEF TypeOK, handleResult
<1>. QED
  BY <1>3, <1>4, <1>5, StoreInv, Zenon DEF handleResult

\* The first section of handleStatus keeps the invariant.
LEMMA handleStatusCheckInv == IInv /\ handleStatusCheck => IInv'
<1> SUFFICES ASSUME IInv, handleStatusCheck PROVE IInv'
  OBVIOUS
<1>1. Head(statusSub) \in Msg /\ statusSub' \in Seq(Msg)
  BY DEF IInv, TypeOK, handleStatusCheck
<1>2. TypeOK'
  BY <1>1, Zenon DEF IInv, TypeOK, handleStatusCheck, callVars
<1>3. HeldIsFirst'
  BY <1>1, Zenon DEF handleStatusCheck, HeldIsFirst, Msg
<1>. QED
  BY <1>2, <1>3, FrameInv, Zenon DEF handleStatusCheck, callVars

\* The second section of handleStatus keeps the invariant.
LEMMA handleStatusStoreInv == IInv /\ handleStatusStore => IInv'
<1> SUFFICES ASSUME IInv, handleStatusStore PROVE IInv'
  OBVIOUS
<1> DEFINE tr == [state |-> held.state, full |-> FALSE]
<1>1. TypeOK
  BY DEF IInv
<1>2. held \in Msg /\ held # NoStatus
  BY <1>1, Zenon DEF TypeOK, handleStatusStore
<1>3. held.task \in Tasks /\ tr \in Result
  BY <1>2, Zenon DEF Msg, Result
<1>4. storeAndNotify(held.task, tr) /\ held' = NoStatus
  BY Zenon DEF handleStatusStore
<1>5. TypeOK'
  <2>1. /\ results' \in [Tasks -> Result \cup {NoResult}]
        /\ ch' \in [Calls -> Result \cup {NoResult}]
        /\ waiters' \in [Tasks -> SUBSET Callers]
    BY <1>1, <1>3, <1>4, StoreType, Zenon
  <2>. QED
    BY <1>1, <1>4, <2>1, Zenon DEF TypeOK, handleStatusStore, subVars
<1>6. results[held.task] = NoResult \/ results[held.task].full
  BY <1>2, Zenon DEF IInv, HeldIsFirst
<1>. QED
  BY <1>3, <1>4, <1>5, <1>6, StoreInv, Zenon DEF handleStatusStore

----------------------------------------------------------------------------
(* The calls                                                               *)

\* WaitFor's first section keeps the invariant: the test and the registration
\* are under one lock.
LEMMA WaitForInv ==
  ASSUME IInv, NEW c \in Callers, NEW t \in Tasks, WaitFor(c, t)
  PROVE  IInv'
<1> DEFINE w == <<c, t>>
<1>0. w \in Calls /\ w[1] = c /\ w[2] = t
  BY Zenon DEF Calls
<1>1. call[w] = "idle" /\ ch[w] = NoResult /\ answer[w] = NoResult
  BY <1>0, Zenon DEF IInv, CallShape, WaitFor
<1>2. /\ results' = results /\ held' = held /\ answer' = answer /\ ctxDone' = ctxDone
      /\ \A v \in Calls \ {w} : call'[v] = call[v] /\ ch'[v] = ch[v]
  BY Zenon DEF IInv, TypeOK, WaitFor
<1>3. \A v \in Calls : v = <<v[1], v[2]>> /\ v[1] \in Callers /\ v[2] \in Tasks
  BY DEF Calls
<1>4. \A d \in Callers, u \in Tasks : <<d, u>> \in Calls /\ (<<d, u>> = w <=> d = c /\ u = t)
  BY Zenon DEF Calls
<1>5. CASE results[t] # NoResult
  <2>1. call'[w] = "found" /\ ch'[w] = results[t] /\ waiters' = waiters
    BY <1>0, <1>5, Zenon DEF IInv, TypeOK, WaitFor
  <2>2. TypeOK'
    BY <1>0, <1>5, Zenon DEF IInv, TypeOK, WaitFor, subVars
  <2>3. CallShape'
    BY <1>1, <1>2, <1>5, <2>1, Zenon DEF IInv, CallShape
  <2>4. NoLostWakeup' /\ HeldIsFirst' /\ ErrorsAreCancellations'
    BY <1>2, <2>1, Zenon DEF IInv, NoLostWakeup, HeldIsFirst, ErrorsAreCancellations
  <2>5. HandedIsStored'
    BY <1>0, <1>2, <2>1, Zenon DEF IInv, HandedIsStored
  <2>6. c \notin waiters[t]
    BY <1>1, Zenon DEF IInv, WaitersAreOpenCalls
  <2>7. WaitersAreOpenCalls'
    BY <1>2, <1>4, <2>1, <2>6 DEF IInv, WaitersAreOpenCalls
  <2>. QED
    BY <2>2, <2>3, <2>4, <2>5, <2>7, Zenon DEF IInv
<1>6. CASE results[t] = NoResult
  <2>1. /\ call'[w] = "select" /\ ch' = ch
        /\ waiters'[t] = waiters[t] \cup {c}
        /\ \A u \in Tasks \ {t} : waiters'[u] = waiters[u]
    BY <1>0, <1>6, Zenon DEF IInv, TypeOK, WaitFor
  <2>2. TypeOK'
    <3>1. waiters' \in [Tasks -> SUBSET Callers]
      BY <1>6 DEF IInv, TypeOK, WaitFor
    <3>2. call' \in [Calls -> {"idle", "found", "select", "cleanup", "returned"}]
      BY <1>6, Zenon DEF IInv, TypeOK, WaitFor
    <3>. QED
      BY <1>2, <2>1, <3>1, <3>2, Zenon DEF IInv, TypeOK, WaitFor, subVars
  <2>3. CallShape'
    BY <1>1, <1>2, <2>1, Zenon DEF IInv, CallShape
  <2>4. NoLostWakeup'
    BY <1>2, <1>6, <2>1, Zenon DEF IInv, NoLostWakeup
  <2>5. HeldIsFirst' /\ ErrorsAreCancellations' /\ HandedIsStored'
    BY <1>2, <2>1, Zenon DEF IInv, HandedIsStored, HeldIsFirst, ErrorsAreCancellations
  <2>6. WaitersAreOpenCalls'
    <3> SUFFICES ASSUME NEW u \in Tasks
                 PROVE  waiters'[u] = {d \in Callers : /\ call'[<<d, u>>] \in {"select", "cleanup"}
                                                       /\ ch[<<d, u>>] = NoResult}
      BY <2>1, Zenon DEF WaitersAreOpenCalls
    <3>1. waiters[u] = {d \in Callers : /\ call[<<d, u>>] \in {"select", "cleanup"}
                                        /\ ch[<<d, u>>] = NoResult}
      BY Zenon DEF IInv, WaitersAreOpenCalls
    <3>2. CASE u = t
      BY <1>1, <1>2, <1>4, <2>1, <3>1, <3>2, Zenon
    <3>3. CASE u # t
      BY <1>2, <1>4, <2>1, <3>1, <3>3
    <3>. QED
      BY <3>2, <3>3, Zenon
  <2>. QED
    BY <2>2, <2>3, <2>4, <2>5, <2>6, Zenon DEF IInv
<1>. QED
  BY <1>5, <1>6, Zenon

\* A call that returns a result keeps the invariant.
LEMMA WaitForReturnsInv ==
  ASSUME IInv, NEW c \in Callers, NEW t \in Tasks, WaitForReturns(c, t)
  PROVE  IInv'
<1> DEFINE w == <<c, t>>
<1>0. w \in Calls
  BY Zenon DEF Calls
<1>1. /\ results' = results /\ held' = held /\ waiters' = waiters
      /\ ch' = ch /\ ctxDone' = ctxDone
      /\ call'[w] = "returned" /\ answer'[w] = ch[w] /\ ch[w] # NoResult
      /\ \A v \in Calls \ {w} : call'[v] = call[v] /\ answer'[v] = answer[v]
  BY <1>0, Zenon DEF IInv, TypeOK, WaitForReturns, collectorVars
<1>2. ch[w] # ErrorResult
  BY <1>0, <1>1 DEF IInv, TypeOK, Result, States, NoResult, ErrorResult
<1>3. \A d \in Callers, u \in Tasks : <<d, u>> \in Calls /\ (<<d, u>> = w <=> d = c /\ u = t)
  BY DEF Calls
<1>4. TypeOK'
  BY <1>0, Zenon DEF IInv, TypeOK, WaitForReturns, collectorVars, subVars
<1>5. CallShape'
  BY <1>1, Zenon DEF IInv, CallShape
<1>6. NoLostWakeup' /\ HandedIsStored' /\ HeldIsFirst'
  BY <1>1, Zenon DEF IInv, NoLostWakeup, HandedIsStored, HeldIsFirst
<1>7. ErrorsAreCancellations'
  BY <1>1, <1>2, <1>3, Zenon DEF IInv, ErrorsAreCancellations
<1>8. WaitersAreOpenCalls'
  BY <1>1, <1>3, Zenon DEF IInv, WaitersAreOpenCalls
<1>. QED
  BY <1>4, <1>5, <1>6, <1>7, <1>8, Zenon DEF IInv

\* A call that sees its context done keeps the invariant.
LEMMA SelectDoneInv ==
  ASSUME IInv, NEW c \in Callers, NEW t \in Tasks, SelectDone(c, t)
  PROVE  IInv'
<1> DEFINE w == <<c, t>>
<1>0. w \in Calls /\ w[1] = c
  BY Zenon DEF Calls
<1>1. /\ results' = results /\ held' = held /\ waiters' = waiters
      /\ ch' = ch /\ ctxDone' = ctxDone /\ answer' = answer /\ c \in ctxDone
      /\ call[w] = "select" /\ call'[w] = "cleanup"
      /\ \A v \in Calls \ {w} : call'[v] = call[v]
  BY <1>0, Zenon DEF IInv, TypeOK, SelectDone, collectorVars
<1>2. \A d \in Callers, u \in Tasks : <<d, u>> \in Calls
  BY Zenon DEF Calls
<1>3. TypeOK'
  BY <1>0, Zenon DEF IInv, TypeOK, SelectDone, collectorVars, subVars
<1>4. CallShape'
  BY <1>0, <1>1, Zenon DEF IInv, CallShape
<1>5. NoLostWakeup' /\ HandedIsStored' /\ HeldIsFirst' /\ ErrorsAreCancellations'
  BY <1>1, Zenon DEF IInv, NoLostWakeup, HandedIsStored, HeldIsFirst, ErrorsAreCancellations
<1>6. \A v \in Calls : call'[v] \in {"select", "cleanup"} <=> call[v] \in {"select", "cleanup"}
  BY <1>1, Zenon
<1>7. WaitersAreOpenCalls'
  BY <1>1, <1>2, <1>6, Zenon DEF IInv, WaitersAreOpenCalls
<1>. QED
  BY <1>3, <1>4, <1>5, <1>7, Zenon DEF IInv

\* A call that takes its channel off the list keeps the invariant.
LEMMA CleanupInv ==
  ASSUME IInv, NEW c \in Callers, NEW t \in Tasks, Cleanup(c, t)
  PROVE  IInv'
<1> DEFINE w == <<c, t>>
<1>0. w \in Calls /\ w[1] = c
  BY DEF Calls
<1>1. /\ results' = results /\ held' = held /\ ch' = ch /\ ctxDone' = ctxDone
      /\ call[w] = "cleanup" /\ call'[w] = "returned" /\ answer'[w] = ErrorResult
      /\ waiters'[t] = waiters[t] \ {c}
      /\ \A u \in Tasks \ {t} : waiters'[u] = waiters[u]
      /\ \A v \in Calls \ {w} : call'[v] = call[v] /\ answer'[v] = answer[v]
  BY <1>0, Zenon DEF IInv, TypeOK, Cleanup
<1>2. \A d \in Callers, u \in Tasks : <<d, u>> \in Calls /\ (<<d, u>> = w <=> d = c /\ u = t)
  BY DEF Calls
<1>3. TypeOK'
  BY <1>0, Zenon DEF IInv, TypeOK, Cleanup, subVars
<1>4. CallShape'
  BY <1>1, Zenon DEF IInv, CallShape
<1>5. NoLostWakeup'
  BY <1>1, Zenon DEF IInv, NoLostWakeup
<1>6. HandedIsStored' /\ HeldIsFirst'
  BY <1>1, Zenon DEF IInv, HandedIsStored, HeldIsFirst
<1>7. c \in ctxDone
  BY <1>0, <1>1, Zenon DEF IInv, CallShape
<1>8. ErrorsAreCancellations'
  BY <1>1, <1>2, <1>7, Zenon DEF IInv, ErrorsAreCancellations
<1>9. WaitersAreOpenCalls'
  <2> SUFFICES ASSUME NEW u \in Tasks
               PROVE  waiters'[u] = {d \in Callers : /\ call'[<<d, u>>] \in {"select", "cleanup"}
                                                     /\ ch[<<d, u>>] = NoResult}
    BY <1>1 DEF WaitersAreOpenCalls
  <2>1. waiters[u] = {d \in Callers : /\ call[<<d, u>>] \in {"select", "cleanup"}
                                      /\ ch[<<d, u>>] = NoResult}
    BY DEF IInv, WaitersAreOpenCalls
  <2>2. CASE u = t
    BY <1>1, <1>2, <2>1, <2>2, Zenon
  <2>3. CASE u # t
    BY <1>1, <1>2, <2>1, <2>3, Zenon
  <2>. QED
    BY <2>2, <2>3
<1>. QED
  BY <1>3, <1>4, <1>5, <1>6, <1>8, <1>9, Zenon DEF IInv

----------------------------------------------------------------------------
(* The other steps                                                         *)

\* Publishing keeps the types of the queues.
LEMMA PublishType ==
  ASSUME TypeOK, NEW a \in Tasks \X Attempts, Publish(a)
  PROVE  TypeOK'
<1>1. \A state \in States : [task |-> a[1], state |-> state] \in Msg
  BY Zenon DEF Msg
<1>2. PICK m \in Msg : ToResults(m) \/ ToStatus(m)
  BY <1>1, Zenon DEF Publish, States
<1>3. resultSub' \in Seq(Msg) /\ statusSub' \in Seq(Msg)
  <2>1. resultSub \in Seq(Msg) /\ statusSub \in Seq(Msg)
    BY Zenon DEF TypeOK
  <2>2. Append(resultSub, m) \in Seq(Msg) /\ Append(statusSub, m) \in Seq(Msg)
    BY <2>1
  <2>. QED
    BY <1>2, <2>1, <2>2, Zenon DEF ToResults, ToStatus
<1>4. published' \in [Tasks \X Attempts -> {"none", "working", "failed", "result", "completed"}]
  BY Zenon DEF TypeOK, Publish
<1>. QED
  BY <1>3, <1>4, Zenon DEF TypeOK, Publish, collectorVars, callVars

\* Every step keeps the invariant.
LEMMA NextInv == IInv /\ [Next]_vars => IInv'
<1> SUFFICES ASSUME IInv, [Next]_vars PROVE IInv'
  BY Zenon
<1>0. TypeOK
  BY Zenon DEF IInv
<1>1. ASSUME NEW w \in Calls, WaitFor(w[1], w[2]) \/ CallStep(w)
      PROVE  IInv'
  <2>1. w[1] \in Callers /\ w[2] \in Tasks
    BY Zenon DEF Calls
  <2>. QED
    BY <1>1, <2>1, WaitForInv, WaitForReturnsInv, SelectDoneInv, CleanupInv, Zenon DEF CallStep
<1>2. ASSUME NEW c \in Callers, CancelCaller(c) PROVE IInv'
  <2>1. TypeOK'
    BY <1>0, <1>2, Zenon DEF TypeOK, CancelCaller, collectorVars, subVars
  <2>2. HeldIsFirst'
    BY <1>2, Zenon DEF IInv, HeldIsFirst, CancelCaller, collectorVars
  <2>. QED
    BY <1>2, <2>1, <2>2, FrameInv, Zenon DEF CancelCaller, collectorVars
<1>3. CASE handleMessage
  BY <1>3, handleResultInv, handleStatusCheckInv, handleStatusStoreInv, Zenon DEF handleMessage
<1>4. CASE SubscribeResults \/ SubscribeStatus \/ UnsubscribeResults \/ UnsubscribeStatus
  <2> USE DEF SubscribeResults, SubscribeStatus, UnsubscribeResults, UnsubscribeStatus,
              collectorVars, callVars
  <2>1. TypeOK'
    <3>1. <<>> \in Seq(Msg)
      OBVIOUS
    <3>2. resultSub' \in Seq(Msg) /\ statusSub' \in Seq(Msg)
      BY <1>0, <1>4, <3>1, Zenon DEF TypeOK
    <3>3. start' \in {"new", "subscribing", "listening", "stopping", "stopped"}
      BY <1>4, Zenon
    <3>4. UNCHANGED <<collectorVars, callVars, published>>
      BY <1>4, Zenon
    <3>. QED
      BY <1>0, <3>2, <3>3, <3>4, Zenon DEF TypeOK
  <2>2. HeldIsFirst'
    BY <1>4, Zenon DEF IInv, HeldIsFirst
  <2>. QED
    BY <1>4, <2>1, <2>2, FrameInv, Zenon
<1>5. ASSUME NEW a \in Tasks \X Attempts, Publish(a) PROVE IInv'
  <2>1. HeldIsFirst'
    BY <1>5, Zenon DEF IInv, HeldIsFirst, Publish, collectorVars
  <2>. QED
    BY <1>0, <1>5, <2>1, PublishType, FrameInv, Zenon DEF Publish, collectorVars, callVars
<1>6. CASE UNCHANGED vars
  <2> USE DEF vars, collectorVars, callVars, subVars
  <2>1. TypeOK' /\ HeldIsFirst'
    BY <1>6, Zenon DEF IInv, TypeOK, HeldIsFirst
  <2>. QED
    BY <1>6, <2>1, FrameInv, Zenon
<1>. QED
  BY <1>1, <1>2, <1>3, <1>4, <1>5, <1>6, Zenon DEF Next

\* The invariant holds in every reachable state.
LEMMA InductiveInvariant == Spec => []IInv
BY InitIInv, NextInv, PTL DEF Spec

----------------------------------------------------------------------------
(* The theorems                                                            *)

\* For any number of tasks, callers and deliveries, no call waits on a listed
\* channel while a result for its task is stored (WaitFor, storeAndNotify).
THEOREM NoWakeupIsLost == Spec => []NoLostWakeup
<1>1. IInv => NoLostWakeup
  BY Zenon DEF IInv
<1>. QED
  BY <1>1, InductiveInvariant, PTL

\* The lists hold exactly the channels of calls still inside WaitFor: none is
\* forgotten by the clean-up after a cancellation or by storeAndNotify.
THEOREM NoWaiterLeaks == Spec => []WaitersAreOpenCalls
<1>1. IInv => WaitersAreOpenCalls
  BY Zenon DEF IInv
<1>. QED
  BY <1>1, InductiveInvariant, PTL

\* Every full result WaitFor ever returned is the one stored.
THEOREM FullAnswers == Spec => []FullAnswersAgree
<1>1. ASSUME IInv, NEW c \in Callers, NEW t \in Tasks, answer[<<c, t>>].full
      PROVE  answer[<<c, t>>] = results[t]
  <2>1. <<c, t>> \in Calls
    BY Zenon DEF Calls
  <2>2. answer[<<c, t>>] = ch[<<c, t>>]
    BY <1>1, <2>1 DEF IInv, CallShape, NoResult, ErrorResult
  <2>. QED
    BY <1>1, <2>1, <2>2, Zenon DEF IInv, HandedIsStored
<1>2. IInv => FullAnswersAgree
  BY <1>1, Zenon DEF FullAnswersAgree
<1>. QED
  BY <1>2, InductiveInvariant, PTL

\* WaitFor returns an error only to a caller whose context is done.
THEOREM OnlyCancellationFails == Spec => []ErrorsAreCancellations
<1>1. IInv => ErrorsAreCancellations
  BY Zenon DEF IInv
<1>. QED
  BY <1>1, InductiveInvariant, PTL

\* What is stored for a task only goes from nothing to something or from a
\* partial result to a full one, despite the stale check of handleStatus.
THEOREM ResultsOnlyImprove == Spec => StoredResultsOnlyImprove
<1> DEFINE Improves == \A t \in Tasks : results'[t] # results[t] =>
             results[t] = NoResult \/ (~results[t].full /\ results'[t].full)
<1>1. ASSUME IInv, [Next]_vars PROVE Improves
  <2>1. CASE results' = results
    BY <2>1, Zenon
  <2>2. ASSUME NEW t \in Tasks, NEW tr \in Result, storeAndNotify(t, tr),
               tr.full \/ results[t] = NoResult \/ results[t].full
        PROVE  Improves
    BY <1>1, <2>2, Zenon DEF IInv, TypeOK, storeAndNotify
  <2>3. CASE handleResult
    <3> DEFINE m == Head(resultSub)
               tr == [state |-> m.state, full |-> TRUE]
    <3>1. m \in Msg
      BY <1>1, <2>3 DEF IInv, TypeOK, handleResult
    <3>2. m.task \in Tasks /\ tr \in Result /\ tr.full
      BY <3>1, Zenon DEF Msg, Result
    <3>3. storeAndNotify(m.task, tr)
      BY <2>3, Zenon DEF handleResult
    <3>. QED
      BY <2>2, <3>2, <3>3, Zenon
  <2>4. CASE handleStatusStore
    <3> DEFINE tr == [state |-> held.state, full |-> FALSE]
    <3>1. held \in Msg /\ held # NoStatus
      BY <1>1, <2>4, Zenon DEF IInv, TypeOK, handleStatusStore
    <3>2. held.task \in Tasks /\ tr \in Result
      BY <3>1, Zenon DEF Msg, Result
    <3>3. storeAndNotify(held.task, tr)
      BY <2>4, Zenon DEF handleStatusStore
    <3>4. results[held.task] = NoResult \/ results[held.task].full
      BY <1>1, <3>1, Zenon DEF IInv, HeldIsFirst
    <3>. QED
      BY <2>2, <3>2, <3>3, <3>4, Zenon
  <2>5. CASE handleStatusCheck \/ SubscribeResults \/ SubscribeStatus
             \/ UnsubscribeResults \/ UnsubscribeStatus \/ UNCHANGED vars
    BY <2>1, <2>5, Zenon DEF handleStatusCheck, SubscribeResults, SubscribeStatus,
      UnsubscribeResults, UnsubscribeStatus, vars, collectorVars
  <2>6. ASSUME NEW c, NEW t, WaitFor(c, t) \/ WaitForReturns(c, t) \/ SelectDone(c, t)
                             \/ Cleanup(c, t) \/ CancelCaller(c)
        PROVE  Improves
    BY <2>1, <2>6, Zenon DEF WaitFor, WaitForReturns, SelectDone, Cleanup, CancelCaller, collectorVars
  <2>7. ASSUME NEW a \in Tasks \X Attempts, Publish(a) PROVE Improves
    BY <2>1, <2>7, Zenon DEF Publish, collectorVars
  <2>. QED
    BY <1>1, <2>3, <2>4, <2>5, <2>6, <2>7, Zenon DEF Next, handleMessage, CallStep
<1>2. IInv /\ [Next]_vars => [Improves]_vars
  BY <1>1, Zenon
<1>. QED
  BY <1>2, InductiveInvariant, PTL DEF Spec, StoredResultsOnlyImprove

----------------------------------------------------------------------------
(* Refinement                                                              *)

\* storeAndNotify writes the cell of the board, or does nothing at all when a
\* full result is there: then no call waits for it.
LEMMA StoreIsWrite ==
  ASSUME IInv, NEW t \in Tasks, NEW tr \in Result, storeAndNotify(t, tr),
         tr.full \/ results[t] = NoResult \/ results[t].full,
         UNCHANGED <<call, answer, ctxDone>>
  PROVE  Board!Write(t, tr) \/ UNCHANGED Board!boardVars
<1>0. OpenCalls' = OpenCalls
  BY Zenon DEF OpenCalls
<1>1. ~NoResult.full /\ Board!NoResult = NoResult /\ Board!Calls = Calls
  BY Zenon DEF NoResult, Board!NoResult, Calls, Board!Calls
<1>2. CASE results[t].full
  <2>1. waiters[t] = {}
    BY <1>1, <1>2, Zenon DEF IInv, NoLostWakeup
  <2>2. results' = results
    BY <1>2, Zenon DEF storeAndNotify
  <2>3. \A w \in Calls : ch'[w] = ch[w]
    BY <2>1, Zenon DEF storeAndNotify
  <2>4. ch' = ch
    BY <2>3, Zenon DEF storeAndNotify, IInv, TypeOK
  <2>. QED
    BY <1>0, <2>2, <2>4, Zenon DEF Board!boardVars
<1>3. CASE ~results[t].full
  <2>1. results' = [results EXCEPT ![t] = tr]
    BY <1>3, Zenon DEF storeAndNotify
  <2>2. ASSUME NEW w \in Calls, ch[w] = NoResult, w[2] = t
        PROVE  w[1] \in waiters[t] <=> w \in OpenCalls
    <3>1. w = <<w[1], t>> /\ w[1] \in Callers
      BY <2>2 DEF Calls
    <3>2. w[1] \in waiters[t] <=> call[w] \in {"select", "cleanup"}
      BY <2>2, <3>1, Zenon DEF IInv, WaitersAreOpenCalls
    <3>3. call[w] # "found"
      BY <2>2, Zenon DEF IInv, CallShape
    <3>. QED
      BY <3>2, <3>3, Zenon DEF OpenCalls
  <2>3. ch' = [w \in Calls |->
          IF w \in OpenCalls /\ w[2] = t /\ ch[w] = NoResult THEN tr ELSE ch[w]]
    BY <2>2, Zenon DEF storeAndNotify
  <2>4. results[t] = NoResult \/ (~results[t].full /\ tr.full)
    BY <1>3, Zenon
  <2>. QED
    BY <1>0, <1>1, <2>1, <2>3, <2>4, Zenon DEF Board!Write
<1>. QED
  BY <1>2, <1>3, Zenon

\* Every step of the collector is a step of the board or leaves it unchanged.
LEMMA StepRefines == IInv /\ [Next]_vars => [Board!BoardNext]_(Board!boardVars)
<1> SUFFICES ASSUME IInv, [Next]_vars
             PROVE  Board!BoardNext \/ UNCHANGED Board!boardVars
  BY Zenon
<1>0. /\ Board!NoResult = NoResult /\ Board!ErrorResult = ErrorResult
      /\ Board!Calls = Calls /\ Board!Result = Result
  BY Zenon DEF NoResult, ErrorResult, Calls, Result, Board!NoResult, Board!ErrorResult,
         Board!Calls, Board!Result
<1>1. ASSUME UNCHANGED <<results, call, ch, answer, ctxDone>>
      PROVE  UNCHANGED Board!boardVars
  BY <1>1, Zenon DEF Board!boardVars, OpenCalls
<1>2. CASE handleResult
  <2> DEFINE m == Head(resultSub)
             tr == [state |-> m.state, full |-> TRUE]
  <2>1. m \in Msg
    BY <1>2 DEF IInv, TypeOK, handleResult
  <2>2. m.task \in Tasks /\ tr \in Result /\ tr.full
    BY <2>1, Zenon DEF Msg, Result
  <2>3. storeAndNotify(m.task, tr) /\ UNCHANGED <<call, answer, ctxDone>>
    BY <1>2, Zenon DEF handleResult
  <2>. QED
    BY <1>0, <2>2, <2>3, StoreIsWrite, Zenon DEF Board!BoardNext
<1>3. CASE handleStatusStore
  <2> DEFINE tr == [state |-> held.state, full |-> FALSE]
  <2>1. held \in Msg /\ held # NoStatus
    BY <1>3, Zenon DEF IInv, TypeOK, handleStatusStore
  <2>2. held.task \in Tasks /\ tr \in Result
    BY <2>1, Zenon DEF Msg, Result
  <2>3. storeAndNotify(held.task, tr) /\ UNCHANGED <<call, answer, ctxDone>>
    BY <1>3, Zenon DEF handleStatusStore
  <2>4. results[held.task] = NoResult \/ results[held.task].full
    BY <2>1, Zenon DEF IInv, HeldIsFirst
  <2>. QED
    BY <1>0, <2>2, <2>3, <2>4, StoreIsWrite, Zenon DEF Board!BoardNext
<1>4. CASE handleStatusCheck \/ SubscribeResults \/ SubscribeStatus
           \/ UnsubscribeResults \/ UnsubscribeStatus \/ UNCHANGED vars
  BY <1>1, <1>4, Zenon DEF handleStatusCheck, SubscribeResults, SubscribeStatus,
    UnsubscribeResults, UnsubscribeStatus, vars, collectorVars, callVars
<1>5. ASSUME NEW a \in Tasks \X Attempts, Publish(a)
      PROVE  UNCHANGED Board!boardVars
  BY <1>1, <1>5, Zenon DEF Publish, collectorVars, callVars
<1>6. ASSUME NEW c \in Callers, CancelCaller(c)
      PROVE  Board!CancelCaller(c)
  BY <1>6, Zenon DEF CancelCaller, Board!CancelCaller, collectorVars, OpenCalls
<1>7. ASSUME NEW w \in Calls, WaitFor(w[1], w[2])
      PROVE  Board!Begin(w)
  <2>1. w = <<w[1], w[2]>> /\ w[1] \in Callers /\ w[2] \in Tasks
    BY DEF Calls
  <2>2. call[w] = "idle" /\ answer[w] = NoResult /\ ch[w] = NoResult
    BY <1>7, <2>1, Zenon DEF WaitFor, IInv, CallShape
  <2>3. call' = [call EXCEPT ![w] = "found"] \/ call' = [call EXCEPT ![w] = "select"]
    BY <1>7, <2>1, Zenon DEF WaitFor
  <2>4. w \notin OpenCalls /\ OpenCalls' = OpenCalls \cup {w}
    BY <2>2, <2>3, Zenon DEF OpenCalls, IInv, TypeOK
  <2>5. ch' = [ch EXCEPT ![w] = results[w[2]]]
    <3>1. CASE results[w[2]] # NoResult
      BY <1>7, <2>1, <3>1, Zenon DEF WaitFor
    <3>2. CASE results[w[2]] = NoResult
      BY <1>7, <2>1, <2>2, <3>2, Zenon DEF WaitFor, IInv, TypeOK
    <3>. QED
      BY <3>1, <3>2, Zenon
  <2>. QED
    BY <1>0, <1>7, <2>2, <2>4, <2>5, Zenon DEF WaitFor, Board!Begin
<1>8. ASSUME NEW w \in Calls, WaitForReturns(w[1], w[2])
      PROVE  Board!Return(w)
  <2>1. w = <<w[1], w[2]>>
    BY DEF Calls
  <2>2. call[w] \in {"found", "select"} /\ call' = [call EXCEPT ![w] = "returned"]
    BY <1>8, <2>1, Zenon DEF WaitForReturns
  <2>3. w \in OpenCalls /\ OpenCalls' = OpenCalls \ {w}
    BY <2>2, Zenon DEF OpenCalls, IInv, TypeOK
  <2>4. ch[w] # NoResult /\ answer' = [answer EXCEPT ![w] = ch[w]]
    BY <1>8, <2>1, Zenon DEF WaitForReturns
  <2>. QED
    BY <1>0, <1>8, <2>3, <2>4, Zenon DEF WaitForReturns, collectorVars, Board!Return
<1>9. ASSUME NEW w \in Calls, SelectDone(w[1], w[2])
      PROVE  UNCHANGED Board!boardVars
  <2>1. w = <<w[1], w[2]>>
    BY DEF Calls
  <2>2. call[w] = "select" /\ call' = [call EXCEPT ![w] = "cleanup"]
    BY <1>9, <2>1, Zenon DEF SelectDone
  <2>3. OpenCalls' = OpenCalls
    BY <2>2, Zenon DEF OpenCalls, IInv, TypeOK
  <2>. QED
    BY <1>9, <2>3, Zenon DEF SelectDone, collectorVars, Board!boardVars
<1>10. ASSUME NEW w \in Calls, Cleanup(w[1], w[2])
       PROVE  Board!Fail(w)
  <2>1. w = <<w[1], w[2]>>
    BY DEF Calls
  <2>2. call[w] = "cleanup" /\ call' = [call EXCEPT ![w] = "returned"]
    BY <1>10, <2>1, Zenon DEF Cleanup
  <2>3. w \in OpenCalls /\ OpenCalls' = OpenCalls \ {w}
    BY <2>2, Zenon DEF OpenCalls, IInv, TypeOK
  <2>4. w[1] \in ctxDone
    BY <2>2, Zenon DEF IInv, CallShape
  <2>5. answer' = [answer EXCEPT ![w] = ErrorResult]
    BY <1>10, <2>1, Zenon DEF Cleanup
  <2>. QED
    BY <1>0, <1>10, <2>3, <2>4, <2>5, Zenon DEF Cleanup, Board!Fail
<1>11. CASE handleMessage
  BY <1>2, <1>3, <1>4, <1>11, Zenon DEF handleMessage
<1>12. ASSUME NEW w \in Calls, WaitFor(w[1], w[2]) \/ CallStep(w)
       PROVE  Board!BoardNext \/ UNCHANGED Board!boardVars
  BY <1>0, <1>7, <1>8, <1>9, <1>10, <1>12, Zenon DEF CallStep, Board!BoardNext
<1>. QED
  BY <1>4, <1>5, <1>6, <1>11, <1>12, Zenon DEF Next, Board!BoardNext

\* The collector implements the board: for any number of tasks, callers and
\* deliveries its locked sections are the board's atomic steps.
THEOREM CollectorRefinesBoard == Spec => ImplementsBoard
<1>1. Init => Board!BoardInit
  BY Zenon DEF Init, Board!BoardInit, OpenCalls, NoResult, Board!NoResult, Calls, Board!Calls
<1>. QED
  BY <1>1, StepRefines, InductiveInvariant, PTL
  DEF Spec, ImplementsBoard, Board!BoardSpec
----------------------------------------------------------------------------
(* What FanOut reports, and what its callers can know of a settled task.   *)
(* For the first, the results that arrived are counted against the         *)
(* goroutines that have ended; for the second, the attempts that ended     *)
(* without a word against deliveries.                                      *)

\* The tasks whose goroutine has ended.
Ended == {t \in Msgs : disp[t] # "running"}

FanInv ==
  /\ disp \in [Msgs -> {"running", "submitted", "failed"}]
  /\ qstate \in [Msgs -> {"unsent", "ready", "out", "acked", "termed"}]
  /\ arrived \in Seq(Msgs) /\ fan \in {"running", "returned"}
  /\ fan = "running" => Len(arrived) = Cardinality(Ended)
  /\ fan = "returned" => Ended = Msgs /\ slot = disp /\ arrived = <<>>
  /\ \A t \in Msgs :
       /\ disp[t] = "running" => qstate[t] = "unsent"
       /\ disp[t] = "submitted" => qstate[t] # "unsent"
       /\ RouteByScore(Roster, Wants[t]) = noAgent => disp[t] # "submitted" /\ qstate[t] = "unsent"

\* What a step of an attempt, or its end, may change.
LEMMA AttemptShape ==
  ASSUME NEW t, NEW n, AttemptStep(t, n) \/ Dies(t, n)
  PROVE  /\ UNCHANGED fanVars /\ cell' = cell /\ lost' = lost /\ deliveries' = deliveries
         /\ wire' = wire \/ \E kind \in MessageKinds : Send(t, kind)
         /\ resulted' \in {resulted, resulted \cup {t}}
         /\ cut' = cut \/ Silent(t)
         /\ \/ qstate' = qstate
            \/ \E q \in {"ready", "acked", "termed"} : qstate[t] \in {"ready", "out"} /\ qstate' = [qstate EXCEPT ![t] = q]
<1>1. CASE Rejects(t, n) \/ AgentReturns(t, n) \/ Dies(t, n)
  BY <1>1, Zenon DEF Rejects, Reject, AgentReturns, AgentEnds, Dies, Die, backVars, histVars, queueVars
<1>2. CASE PublishFailed(t, n) \/ PublishResult(t, n) \/ PublishCompleted(t, n)
  BY <1>2, Zenon DEF PublishFailed, FailAttempt, PublishResult, StoreResult, LoseResult, PublishCompleted, LogCompleted,
     MessageKinds, histVars, queueVars
<1>3. CASE Settles(t, n)
  BY <1>3, Zenon DEF Settles, SettleTask, Ack, Term, Nak, Settle, backVars, histVars
<1> QED
  BY <1>1, <1>2, <1>3, Zenon DEF AttemptStep

\* The ways an attempt goes.
LEMMA AttemptWays ==
  ASSUME NEW t, NEW n, AttemptStep(t, n)
  PROVE  \/ Go(t, n, "working", "err") \/ Go(t, n, "working", "result") \/ Go(t, n, "working", "fail")
         \/ Go(t, n, "fail", "err") \/ Go(t, n, "result", "completed") \/ Go(t, n, "result", "err")
         \/ Go(t, n, "completed", "nil") \/ Go(t, n, "nil", "over") \/ Go(t, n, "err", "over")
BY Zenon DEF AttemptStep, Rejects, Reject, AgentReturns, AgentEnds, PublishFailed, FailAttempt, PublishResult,
   StoreResult, LoseResult, PublishCompleted, LogCompleted, Settles, SettleTask

\* A message that was not sent is not touched.
LEMMA UnsentStays ==
  ASSUME NEW t \in Msgs, FanInv,
         DeliverTask(t) \/ Redeliver(t) \/ \E n \in Deliveries : AttemptStep(t, n) \/ Dies(t, n)
  PROVE  /\ UNCHANGED fanVars
         /\ qstate' \in [Msgs -> {"unsent", "ready", "out", "acked", "termed"}]
         /\ \A b \in Msgs : qstate'[b] = "unsent" <=> qstate[b] = "unsent"
<1>1. UNCHANGED qstate \/ \E to \in {"ready", "out", "acked", "termed"} :
                             qstate[t] \in {"ready", "out"} /\ qstate' = [qstate EXCEPT ![t] = to]
  BY AttemptShape, Zenon DEF DeliverTask, Begin, Deliver, Redeliver, AckWait, AckWaitExpires
<1>2. UNCHANGED fanVars
  BY AttemptShape, Zenon DEF DeliverTask, Redeliver
<1>3. qstate \in [Msgs -> {"unsent", "ready", "out", "acked", "termed"}]
  BY Zenon DEF FanInv
<1> QED
  BY <1>1, <1>2, <1>3, Zenon

\* The steps, one by one.
LEMMA LifeSteps ==
  ASSUME [LifeNext]_lifeVars
  PROVE  \/ FanOutReturns \/ CancelFanOut \/ UNCHANGED lifeVars
         \/ \E t \in Msgs : \/ DispatchTask(t) \/ DeliverTask(t) \/ Redeliver(t)
                            \/ \E n \in Deliveries : AttemptStep(t, n) \/ Dies(t, n)
                            \/ \E kind \in MessageKinds : Receive(t, kind) \/ Lose(t, kind)
BY Zenon DEF LifeNext, Progress

\* As many results have arrived as goroutines have ended.
LEMMA FanInit == LifeInit => FanInv
<1> SUFFICES ASSUME LifeInit PROVE FanInv
  OBVIOUS
<1>1. Ended = {}
  BY Zenon DEF LifeInit, Ended
<1>2. Len(arrived) = Cardinality(Ended) /\ arrived \in Seq(Msgs)
  BY <1>1, FS_EmptySet DEF LifeInit
<1> QED
  BY <1>2, Zenon DEF LifeInit, FanInv

\* The tasks are as many as the requests.
LEMMA TaskCount == IsFiniteSet(Msgs) /\ Cardinality(Msgs) = Len(Wants) /\ Len(Wants) \in Nat
<1>1. Msgs = 1 .. Len(Wants) /\ Len(Wants) \in Nat
  BY LifecycleAssumption, Zenon
<1>2. IsFiniteSet(1 .. Len(Wants)) /\ Cardinality(1 .. Len(Wants)) = IF 1 > Len(Wants) THEN 0 ELSE Len(Wants) - 1 + 1
  BY <1>1, FS_Interval
<1> QED
  BY <1>1, <1>2

\* Every step keeps the count.
LEMMA FanStep == FanInv /\ [LifeNext]_lifeVars => FanInv'
<1> SUFFICES ASSUME FanInv, [LifeNext]_lifeVars PROVE FanInv'
  OBVIOUS
<1>0. IsFiniteSet(Msgs) /\ Cardinality(Msgs) = Len(Wants) /\ Len(Wants) \in Nat
  BY TaskCount, Zenon
<1>1. CASE FanOutReturns
  <2>1. Cardinality(Ended) = Cardinality(Msgs)
    BY <1>0, <1>1, Zenon DEF FanOutReturns, AllSent, FanInv
  <2>2. Ended = Msgs
    BY <1>0, <2>1, FS_Subset, Zenon DEF Ended
  <2>3. fan' = "returned" /\ slot' = disp /\ arrived' = <<>> /\ UNCHANGED <<disp, qstate>>
    BY <1>1, Zenon DEF FanOutReturns, attemptVars, queueVars, FanInv
  <2>4. Ended' = Ended /\ arrived' \in Seq(Msgs)
    BY <2>3 DEF Ended
  <2> QED
    BY <2>2, <2>3, <2>4, Zenon DEF FanInv
<1>2. ASSUME NEW t \in Msgs, DispatchTask(t) PROVE FanInv'
  <2>1. disp[t] = "running" /\ Ended # Msgs /\ fan = "running"
    BY <1>2, Zenon DEF DispatchTask, Ended, FanInv
  <2>2. PICK to \in {"submitted", "failed"} : disp' = [disp EXCEPT ![t] = to]
    BY <1>2, Zenon DEF DispatchTask
  <2>3. Ended' = Ended \cup {t} /\ t \notin Ended
    BY <2>1, <2>2, Zenon DEF Ended, FanInv
  <2>4. IsFiniteSet(Ended)
    BY <1>0, FS_Subset, Zenon DEF Ended
  <2>5. Cardinality(Ended') = Cardinality(Ended) + 1
    BY <2>3, <2>4, FS_AddElement, Zenon
  <2>6. arrived' \in Seq(Msgs) /\ Len(arrived') = Len(arrived) + 1 /\ fan' = "running"
    BY <1>2, <2>1 DEF DispatchTask, FanInv
  <2>7. /\ disp' \in [Msgs -> {"running", "submitted", "failed"}]
        /\ qstate' \in [Msgs -> {"unsent", "ready", "out", "acked", "termed"}]
        /\ \A b \in Msgs :
             /\ disp'[b] = "running" => qstate'[b] = "unsent"
             /\ disp'[b] = "submitted" => qstate'[b] # "unsent"
             /\ RouteByScore(Roster, Wants[b]) = noAgent => disp'[b] # "submitted" /\ qstate'[b] = "unsent"
    <3>0. disp'[t] = to /\ \A b \in Msgs \ {t} : disp'[b] = disp[b]
      BY <2>2, Zenon DEF FanInv
    <3>1. \/ qstate' = [qstate EXCEPT ![t] = "ready"] /\ RouteByScore(Roster, Wants[t]) # noAgent
          \/ qstate' = qstate /\ disp' = [disp EXCEPT ![t] = "failed"]
      BY <1>2, Zenon DEF DispatchTask, Store, attemptVars, queueVars
    <3>2. disp' \in [Msgs -> {"running", "submitted", "failed"}]
      BY <2>2, Zenon DEF FanInv
    <3>3. CASE qstate' = [qstate EXCEPT ![t] = "ready"] /\ RouteByScore(Roster, Wants[t]) # noAgent
      BY <2>1, <3>0, <3>2, <3>3, Zenon DEF FanInv
    <3>4. CASE qstate' = qstate /\ disp' = [disp EXCEPT ![t] = "failed"]
      BY <2>1, <3>2, <3>4, Zenon DEF FanInv
    <3> QED
      BY <3>1, <3>3, <3>4, Zenon
  <2>8. Len(arrived') = Cardinality(Ended')
    BY <2>1, <2>5, <2>6, Zenon DEF FanInv
  <2> QED
    BY <2>6, <2>7, <2>8, Zenon DEF FanInv
<1>3. ASSUME NEW t \in Msgs, DeliverTask(t) \/ Redeliver(t) \/ \E n \in Deliveries : AttemptStep(t, n) \/ Dies(t, n)
      PROVE  FanInv'
  <2>1. /\ UNCHANGED <<disp, arrived, fan, slot>>
        /\ qstate' \in [Msgs -> {"unsent", "ready", "out", "acked", "termed"}]
        /\ \A b \in Msgs : qstate'[b] = "unsent" <=> qstate[b] = "unsent"
    BY <1>3, UnsentStays, Zenon DEF fanVars
  <2>2. Ended' = Ended
    BY <2>1, Zenon DEF Ended
  <2> QED
    BY <2>1, <2>2, Zenon DEF FanInv
<1>4. CASE UNCHANGED <<disp, arrived, fan, slot, qstate>>
  <2>1. Ended' = Ended
    BY <1>4, Zenon DEF Ended
  <2> QED
    BY <1>4, <2>1, Zenon DEF FanInv
<1>5. CancelFanOut \/ UNCHANGED lifeVars \/ (\E t \in Msgs, kind \in MessageKinds : Receive(t, kind) \/ Lose(t, kind))
      => UNCHANGED <<disp, arrived, fan, slot, qstate>>
  BY Zenon DEF CancelFanOut, Receive, Lose, lifeVars, fanVars, attemptVars, queueVars
<1> QED
  BY <1>1, <1>2, <1>3, <1>4, <1>5, LifeSteps, Zenon

\* FanOut reports the fate of each task at its index, for any number of tasks
\* and any registry (orchestrator.go:42-141).
THEOREM SlotsHold == LifeSpec => []SlotsAreTrue
<1>1. FanInv => SlotsAreTrue
  BY Zenon DEF FanInv, SlotsAreTrue, Ended
<1> QED
  BY <1>1, FanInit, FanStep, PTL DEF LifeSpec

\* A FanOut that has returned, cancelled or not, sends nothing more, for any
\* number of tasks (orchestrator.go:107-118).
THEOREM NothingLater == LifeSpec => NothingSentLater
<1> DEFINE Later == fan = "returned" => \A t \in Msgs : qstate'[t] # qstate[t] => qstate[t] # "unsent"
<1>1. FanInv /\ [LifeNext]_lifeVars => [Later]_lifeVars
  <2> SUFFICES ASSUME FanInv, [LifeNext]_lifeVars, fan = "returned", NEW b \in Msgs, qstate'[b] # qstate[b]
               PROVE  qstate[b] # "unsent"
    BY Zenon
  <2>1. ASSUME NEW t \in Msgs PROVE ~DispatchTask(t)
    BY <2>1, Zenon DEF DispatchTask, FanInv, Ended
  <2>2. PICK t \in Msgs : DeliverTask(t) \/ Redeliver(t) \/ \E n \in Deliveries : AttemptStep(t, n) \/ Dies(t, n)
    BY <2>1, LifeSteps, Zenon DEF FanOutReturns, CancelFanOut, Receive, Lose, lifeVars, attemptVars, queueVars
  <2> QED
    BY <2>2, UnsentStays, Zenon
<1>2. LifeSpec => [][Later]_lifeVars
  BY <1>1, FanInit, FanStep, PTL DEF LifeSpec
<1> QED
  BY <1>2, Zenon DEF NothingSentLater

----------------------------------------------------------------------------
(* What becomes of a task                                                  *)

\* The attempt has neither said a word nor been cut short.
Open(s) == IF s \in {"working", "fail", "result"} THEN 1 ELSE 0
Pending(t) == Open(attempt[t][1]) + Open(attempt[t][2]) + Open(attempt[t][3])

\* Something was sent of the task: the collector has heard of it, or will, or the
\* message was lost.
Word(t) == cell[t] # "none" \/ lost[t] # "none" \/ \E kind \in MessageKinds : <<t, kind>> \in wire

TaskInv(t) ==
  /\ attempt[t] \in [Deliveries -> AttemptStates]
  /\ deliveries[t] \in 0 .. defaultMaxDeliver /\ cut[t] \in Nat
  /\ \A n \in Deliveries : n > deliveries[t] => attempt[t][n] = "none"
  /\ cut[t] + Pending(t) <= deliveries[t]
  /\ ~Word(t) => cut[t] + Pending(t) = deliveries[t]
  /\ t \in resulted <=> cell[t] = "full" \/ lost[t] = "full" \/ <<t, "full">> \in wire
  /\ \A n \in Deliveries : attempt[t][n] \in {"completed", "nil"} => t \in resulted
  /\ qstate[t] = "acked" => t \in resulted

BackInv ==
  /\ qstate \in [Msgs -> {"unsent", "ready", "out", "acked", "termed"}]
  /\ DOMAIN attempt = Msgs /\ DOMAIN deliveries = Msgs /\ DOMAIN cut = Msgs
  /\ DOMAIN cell = Msgs /\ DOMAIN lost = Msgs
  /\ attempt = [t \in Msgs |-> attempt[t]] /\ deliveries = [t \in Msgs |-> deliveries[t]]
  /\ cut = [t \in Msgs |-> cut[t]] /\ cell = [t \in Msgs |-> cell[t]] /\ lost = [t \in Msgs |-> lost[t]]
  /\ \A t \in Msgs : TaskInv(t)

\* The deliveries are three.
LEMMA Three == Deliveries = {1, 2, 3} /\ defaultMaxDeliver = 3
BY DEF Deliveries, defaultMaxDeliver

\* A step of other tasks.
LEMMA TaskFrame ==
  ASSUME NEW t, TaskInv(t),
         attempt'[t] = attempt[t], deliveries'[t] = deliveries[t], cut'[t] = cut[t], cell'[t] = cell[t],
         lost'[t] = lost[t], qstate'[t] = qstate[t], t \in resulted' <=> t \in resulted,
         \A kind \in MessageKinds : <<t, kind>> \in wire' <=> <<t, kind>> \in wire
  PROVE  TaskInv(t)'
BY Zenon DEF TaskInv, Pending, Word, MessageKinds

\* What a step of an attempt does to the attempts.
LEMMA GoEffect ==
  ASSUME NEW t \in Msgs, NEW n \in Deliveries, NEW from, NEW to \in AttemptStates, BackInv, Go(t, n, from, to)
  PROVE  /\ DOMAIN attempt' = Msgs /\ attempt' = [b \in Msgs |-> attempt'[b]]
         /\ attempt'[t] \in [Deliveries -> AttemptStates] /\ attempt'[t][n] = to
         /\ \A m \in Deliveries \ {n} : attempt'[t][m] = attempt[t][m]
         /\ \A b \in Msgs \ {t} : attempt'[b] = attempt[b]
         /\ Pending(t)' = Pending(t) - Open(from) + Open(to)
         /\ Open(from) \in 0 .. 1 /\ Open(to) \in 0 .. 1 /\ Pending(t) \in 0 .. 3
         /\ Open(from) <= Pending(t)
         /\ attempt[t][n] = from
<1>1. attempt' = [attempt EXCEPT ![t][n] = to] /\ attempt[t][n] = from
  BY Zenon DEF Go
<1>2. attempt[t] \in [Deliveries -> AttemptStates]
  BY Zenon DEF BackInv, TaskInv
<1>3. attempt'[t] = [attempt[t] EXCEPT ![n] = to] /\ \A b \in Msgs \ {t} : attempt'[b] = attempt[b]
  BY <1>1, Zenon DEF BackInv
<1>4. DOMAIN attempt' = Msgs /\ attempt' = [b \in Msgs |-> attempt'[b]]
  BY <1>1, Zenon DEF BackInv
<1>5. attempt'[t] \in [Deliveries -> AttemptStates] /\ attempt'[t][n] = to
      /\ \A m \in Deliveries \ {n} : attempt'[t][m] = attempt[t][m]
  BY <1>2, <1>3, Zenon
<1>6. \A s : Open(s) \in 0 .. 1
  BY DEF Open
<1>7. /\ Pending(t)' = Pending(t) - Open(from) + Open(to)
      /\ Pending(t) \in 0 .. 3 /\ Open(from) <= Pending(t)
  BY <1>1, <1>5, <1>6, Three DEF Pending
<1> QED
  BY <1>1, <1>3, <1>4, <1>5, <1>6, <1>7, Zenon

\* A step of an attempt keeps the count if it is silent, if it says a word, or
\* if it is open before and after or neither.
LEMMA AttemptKeeps ==
  ASSUME NEW t \in Msgs, NEW n \in Deliveries, NEW from, NEW to \in AttemptStates, BackInv, Go(t, n, from, to),
         from # "none", deliveries'[t] = deliveries[t],
         \/ cut'[t] = cut[t] + 1 /\ Open(from) = 1 /\ Open(to) = 0
         \/ cut'[t] = cut[t] /\ Open(from) = Open(to)
         \/ cut'[t] = cut[t] /\ Open(to) = 0 /\ Word(t)',
         Word(t) => Word(t)',
         t \in resulted => t \in resulted',
         t \in resulted' <=> cell'[t] = "full" \/ lost'[t] = "full" \/ <<t, "full">> \in wire',
         to \in {"completed", "nil"} => t \in resulted',
         qstate'[t] = "acked" => t \in resulted'
  PROVE  TaskInv(t)'
<1>0. TaskInv(t)
  BY Zenon DEF BackInv
<1>1. /\ attempt'[t] \in [Deliveries -> AttemptStates] /\ attempt'[t][n] = to
      /\ \A m \in Deliveries \ {n} : attempt'[t][m] = attempt[t][m]
      /\ attempt[t][n] = from
  BY GoEffect
<1>2. /\ Pending(t)' = Pending(t) - Open(from) + Open(to) /\ Open(from) <= Pending(t)
      /\ Open(from) \in 0 .. 1 /\ Open(to) \in 0 .. 1 /\ Pending(t) \in 0 .. 3
  BY GoEffect
<1>3. /\ deliveries[t] \in 0 .. defaultMaxDeliver /\ cut[t] \in Nat /\ n \in Nat /\ deliveries[t] \in Nat
      /\ cut[t] + Pending(t) <= deliveries[t]
      /\ ~Word(t) => cut[t] + Pending(t) = deliveries[t]
  BY <1>0, Three DEF TaskInv
<1>4. /\ cut'[t] \in Nat /\ cut'[t] + Pending(t)' <= deliveries'[t]
      /\ ~Word(t)' => cut'[t] + Pending(t)' = deliveries'[t]
  BY <1>2, <1>3
<1>5. \A m \in Deliveries : m > deliveries'[t] => attempt'[t][m] = "none"
  BY <1>0, <1>1, Zenon DEF TaskInv
<1>6. \A m \in Deliveries : attempt'[t][m] \in {"completed", "nil"} => t \in resulted'
  BY <1>0, <1>1, Zenon DEF TaskInv
<1> QED
  BY <1>1, <1>3, <1>4, <1>5, <1>6, Zenon DEF TaskInv

\* Each step of an attempt, or its end, keeps what is known of its task.
LEMMA AttemptTask ==
  ASSUME NEW t \in Msgs, NEW n \in Deliveries, BackInv, AttemptStep(t, n) \/ Dies(t, n)
  PROVE  TaskInv(t)'
<1>0. TaskInv(t)
  BY Zenon DEF BackInv
<1>1. /\ t \in resulted <=> cell[t] = "full" \/ lost[t] = "full" \/ <<t, "full">> \in wire
      /\ qstate[t] = "acked" => t \in resulted
      /\ \A m \in Deliveries : attempt[t][m] \in {"completed", "nil"} => t \in resulted
      /\ attempt[t][n] \in AttemptStates
  BY <1>0, Zenon DEF TaskInv
<1>2. "full" \in MessageKinds /\ "failed" \in MessageKinds /\ "completed" \in MessageKinds
  BY Zenon DEF MessageKinds
<1>3. {"err", "result", "fail", "completed", "nil", "over"} \subseteq AttemptStates
  BY Zenon DEF AttemptStates
<1>4. Silent(t) => cut'[t] = cut[t] + 1
  BY Zenon DEF Silent, BackInv
<1>c. cell' = cell /\ lost' = lost /\ deliveries' = deliveries
  BY AttemptShape, Zenon
<1>5. UNCHANGED wire => (Word(t) <=> Word(t)')
  BY <1>c, Zenon DEF Word
<1>6. ASSUME NEW kind \in MessageKinds, Send(t, kind)
      PROVE  Word(t)' /\ (<<t, "full">> \in wire' <=> <<t, "full">> \in wire \/ kind = "full")
  BY <1>6, Zenon DEF Word, Send
<1>7. CASE Rejects(t, n)
  <2>1. Go(t, n, "working", "err") /\ Silent(t) /\ UNCHANGED <<qstate, resulted, wire>>
    BY <1>7, Zenon DEF Rejects, Reject, backVars, queueVars
  <2> QED
    BY <1>1, <1>3, <1>4, <1>c, <1>5, <2>1, AttemptKeeps, Zenon DEF Open
<1>8. CASE AgentReturns(t, n)
  <2>1. UNCHANGED <<qstate, resulted, wire, cut>>
    BY <1>8, Zenon DEF AgentReturns, AgentEnds, backVars, histVars, queueVars
  <2>2. PICK to \in {"result", "fail"} : Go(t, n, "working", to)
    BY <1>8, Zenon DEF AgentReturns, AgentEnds
  <2> QED
    BY <1>1, <1>3, <1>c, <1>5, <2>1, <2>2, AttemptKeeps DEF Open
<1>9. CASE PublishFailed(t, n)
  <2>1. Go(t, n, "fail", "err") /\ UNCHANGED <<qstate, resulted>>
    BY <1>9, Zenon DEF PublishFailed, FailAttempt, queueVars
  <2>2. CASE Send(t, "failed") /\ UNCHANGED cut
    BY <1>1, <1>2, <1>3, <1>c, <1>6, <2>1, <2>2, AttemptKeeps DEF Open
  <2>3. CASE Silent(t) /\ UNCHANGED wire
    BY <1>1, <1>3, <1>4, <1>c, <1>5, <2>1, <2>3, AttemptKeeps DEF Open
  <2> QED
    BY <1>9, <2>2, <2>3, Zenon DEF PublishFailed
<1>10. CASE PublishResult(t, n)
  <2>1. UNCHANGED qstate
    BY <1>10, Zenon DEF PublishResult, StoreResult, LoseResult, queueVars
  <2>2. ASSUME NEW to \in {"completed", "err"}, Go(t, n, "result", to), Send(t, "full"),
               resulted' = resulted \cup {t}, UNCHANGED cut
        PROVE  TaskInv(t)'
    <3>1. Word(t)' /\ <<t, "full">> \in wire' /\ t \in resulted'
      BY <1>2, <1>6, <2>2, Zenon
    <3> QED
      BY <1>1, <1>3, <1>c, <2>1, <2>2, <3>1, AttemptKeeps DEF Open
  <2>3. CASE Go(t, n, "result", "err") /\ Silent(t) /\ UNCHANGED <<wire, resulted>>
    BY <1>1, <1>3, <1>4, <1>c, <1>5, <2>1, <2>3, AttemptKeeps DEF Open
  <2> QED
    BY <1>10, <2>2, <2>3, Zenon DEF PublishResult, StoreResult, LoseResult
<1>11. CASE PublishCompleted(t, n)
  <2>1. Go(t, n, "completed", "nil") /\ UNCHANGED <<qstate, resulted, cut>>
    BY <1>11, Zenon DEF PublishCompleted, LogCompleted, histVars, queueVars
  <2>2. t \in resulted
    BY <1>1, <2>1, Zenon DEF Go
  <2>3. CASE Send(t, "completed")
    BY <1>1, <1>2, <1>3, <1>c, <1>6, <2>1, <2>2, <2>3, AttemptKeeps DEF Open
  <2>4. CASE UNCHANGED wire
    BY <1>1, <1>3, <1>c, <1>5, <2>1, <2>2, <2>4, AttemptKeeps DEF Open
  <2> QED
    BY <1>11, <2>3, <2>4, Zenon DEF PublishCompleted
<1>12. CASE Settles(t, n)
  <2>1. UNCHANGED <<wire, cut, resulted>>
    BY <1>12, Zenon DEF Settles, SettleTask, backVars, histVars
  <2>2. CASE Go(t, n, "nil", "over")
    <3>1. t \in resulted
      BY <1>1, <2>2, Zenon DEF Go
    <3> QED
      BY <1>1, <1>3, <1>c, <1>5, <2>1, <2>2, <3>1, AttemptKeeps DEF Open
  <2>3. CASE Go(t, n, "err", "over") /\ (Term(t) \/ Nak(t))
    <3>1. qstate'[t] = "acked" => qstate[t] = "acked"
      BY <2>3, Zenon DEF Term, Nak, Settle, BackInv
    <3> QED
      BY <1>1, <1>3, <1>c, <1>5, <2>1, <2>3, <3>1, AttemptKeeps DEF Open
  <2> QED
    BY <1>12, <2>2, <2>3, Zenon DEF Settles, SettleTask
<1>13. CASE Dies(t, n)
  <2>1. /\ Go(t, n, attempt[t][n], "over") /\ attempt[t][n] # "none"
        /\ UNCHANGED <<qstate, wire, resulted>>
    BY <1>13, Zenon DEF Dies, Die, backVars, queueVars
  <2>2. CASE attempt[t][n] \in {"working", "fail", "result"}
    <3>1. cut'[t] = cut[t] + 1
      BY <1>4, <1>13, <2>2, Zenon DEF Dies
    <3> QED
      BY <1>1, <1>3, <1>c, <1>5, <2>1, <2>2, <3>1, AttemptKeeps DEF Open
  <2>3. CASE attempt[t][n] \notin {"working", "fail", "result"}
    <3>1. cut' = cut
      BY <1>13, <2>3, Zenon DEF Dies
    <3> QED
      BY <1>1, <1>3, <1>c, <1>5, <2>1, <2>3, <3>1, AttemptKeeps DEF Open
  <2> QED
    BY <2>2, <2>3, Zenon
<1> QED
  BY <1>7, <1>8, <1>9, <1>10, <1>11, <1>12, <1>13, Zenon DEF AttemptStep

\* At first no task has been delivered.
LEMMA BackInit == LifeInit => BackInv
<1> SUFFICES ASSUME LifeInit PROVE BackInv
  OBVIOUS
<1>1. \A t \in Msgs : attempt[t] = [n \in Deliveries |-> "none"] /\ deliveries[t] = 0 /\ cut[t] = 0 /\ cell[t] = "none"
                      /\ lost[t] = "none" /\ qstate[t] = "unsent" /\ t \notin resulted /\ wire = {}
  BY Zenon DEF LifeInit, AttemptsInit
<1>2. ASSUME NEW t \in Msgs PROVE TaskInv(t)
  <2>1. \A n \in Deliveries : attempt[t][n] = "none"
    BY <1>1, Zenon
  <2>2. attempt[t][1] = "none" /\ attempt[t][2] = "none" /\ attempt[t][3] = "none" /\ Open("none") = 0
    BY <2>1, Three, Zenon DEF Open
  <2>3. Pending(t) = 0
    BY <2>2 DEF Pending
  <2>4. attempt[t] \in [Deliveries -> AttemptStates]
    BY <1>1, Zenon DEF AttemptStates
  <2> QED
    BY <1>1, <2>1, <2>3, <2>4, Three DEF TaskInv
<1> QED
  BY <1>2, Zenon DEF LifeInit, AttemptsInit, BackInv

\* A step of an attempt leaves the other tasks alone.
LEMMA AttemptOthers ==
  ASSUME NEW t \in Msgs, NEW n \in Deliveries, BackInv, AttemptStep(t, n) \/ Dies(t, n)
  PROVE  BackInv'
<1>1. PICK from, to : Go(t, n, from, to) /\ to \in AttemptStates
  BY AttemptWays, Zenon DEF Dies, Die, AttemptStates
<1>2. /\ DOMAIN attempt' = Msgs /\ attempt' = [b \in Msgs |-> attempt'[b]]
      /\ \A b \in Msgs \ {t} : attempt'[b] = attempt[b]
  BY <1>1, GoEffect, Zenon
<1>3. /\ deliveries' = deliveries /\ cell' = cell /\ lost' = lost /\ (wire' = wire \/ \E kind \in MessageKinds : Send(t, kind))
      /\ resulted' \in {resulted, resulted \cup {t}} /\ (cut' = cut \/ Silent(t))
  BY AttemptShape, Zenon
<1>4. qstate' = qstate \/ \E q \in {"ready", "acked", "termed"} : qstate' = [qstate EXCEPT ![t] = q]
  BY AttemptShape, Zenon
<1>5. /\ qstate' \in [Msgs -> {"unsent", "ready", "out", "acked", "termed"}]
      /\ \A b \in Msgs \ {t} : qstate'[b] = qstate[b]
  BY <1>4, Zenon DEF BackInv
<1>6. DOMAIN cut' = Msgs /\ cut' = [b \in Msgs |-> cut'[b]] /\ \A b \in Msgs \ {t} : cut'[b] = cut[b]
  BY <1>3, Zenon DEF BackInv, Silent
<1>7. ASSUME NEW b \in Msgs, b # t PROVE TaskInv(b)'
  <2>1. TaskInv(b) /\ (b \in resulted' <=> b \in resulted)
    BY <1>3, <1>7, Zenon DEF BackInv
  <2>2. \A kind \in MessageKinds : <<b, kind>> \in wire' <=> <<b, kind>> \in wire
    BY <1>3, <1>7 DEF Send
  <2> QED
    BY <1>2, <1>3, <1>5, <1>6, <1>7, <2>1, <2>2, TaskFrame, Zenon
<1>8. TaskInv(t)'
  BY AttemptTask, Zenon
<1> QED
  BY <1>2, <1>3, <1>5, <1>6, <1>7, <1>8, Zenon DEF BackInv

\* Every step keeps what is known of every task.
LEMMA BackStep == BackInv /\ [LifeNext]_lifeVars => BackInv'
<1> SUFFICES ASSUME BackInv, [LifeNext]_lifeVars PROVE BackInv'
  OBVIOUS
<1>1. CASE UNCHANGED <<qstate, deliveries, attempt, wire, cell, cut, lost, resulted>>
  BY <1>1, Zenon DEF BackInv, TaskInv, Pending, Word
<1>2. FanOutReturns \/ CancelFanOut \/ UNCHANGED lifeVars
      => UNCHANGED <<qstate, deliveries, attempt, wire, cell, cut, lost, resulted>>
  BY Zenon DEF FanOutReturns, CancelFanOut, lifeVars, fanVars, attemptVars, queueVars, backVars, histVars
<1>3. ASSUME NEW t \in Msgs, DispatchTask(t) \/ Redeliver(t) PROVE BackInv'
  <2>1. UNCHANGED <<deliveries, attempt, wire, cell, cut, lost, resulted>>
    BY <1>3, Zenon DEF DispatchTask, Store, attemptVars, queueVars, Redeliver, AckWait, AckWaitExpires, backVars, histVars
  <2>2. qstate' \in {qstate, [qstate EXCEPT ![t] = "ready"]}
    BY <1>3, Zenon DEF DispatchTask, Store, attemptVars, queueVars, Redeliver, AckWait, AckWaitExpires
  <2>3. \A b \in Msgs : qstate'[b] = "acked" => qstate[b] = "acked"
    BY <2>2, Zenon DEF BackInv
  <2>4. qstate' \in [Msgs -> {"unsent", "ready", "out", "acked", "termed"}]
    BY <2>2, Zenon DEF BackInv
  <2>5. \A b \in Msgs : TaskInv(b)'
    BY <2>1, <2>3, Zenon DEF BackInv, TaskInv, Pending, Word
  <2> QED
    BY <2>1, <2>4, <2>5, Zenon DEF BackInv
<1>4. ASSUME NEW t \in Msgs, DeliverTask(t) PROVE BackInv'
  <2> DEFINE k == deliveries[t] + 1
  <2>0. TaskInv(t) /\ deliveries[t] \in 0 .. 2
    BY <1>4, Three DEF DeliverTask, Begin, Deliver, BackInv, TaskInv
  <2>1. /\ deliveries' = [deliveries EXCEPT ![t] = @ + 1] /\ qstate' = [qstate EXCEPT ![t] = "out"]
        /\ attempt' = [attempt EXCEPT ![t][deliveries'[t]] = "working"]
        /\ UNCHANGED <<wire, cell, cut, lost, resulted>>
    BY <1>4, Zenon DEF DeliverTask, Begin, Deliver, backVars, histVars
  <2>2. /\ deliveries'[t] = k /\ qstate'[t] = "out" /\ k \in Deliveries
        /\ attempt'[t] = [attempt[t] EXCEPT ![k] = "working"]
        /\ \A b \in Msgs \ {t} : deliveries'[b] = deliveries[b] /\ qstate'[b] = qstate[b] /\ attempt'[b] = attempt[b]
    BY <2>0, <2>1, Three DEF BackInv
  <2>3. /\ DOMAIN attempt' = Msgs /\ DOMAIN deliveries' = Msgs
        /\ attempt' = [b \in Msgs |-> attempt'[b]] /\ deliveries' = [b \in Msgs |-> deliveries'[b]]
        /\ qstate' \in [Msgs -> {"unsent", "ready", "out", "acked", "termed"}]
    BY <2>1, Zenon DEF BackInv
  <2>4. ASSUME NEW b \in Msgs, b # t PROVE TaskInv(b)'
    BY <2>1, <2>2, <2>4, TaskFrame, Zenon DEF BackInv
  <2>5. TaskInv(t)'
    <3>1. /\ attempt[t] \in [Deliveries -> AttemptStates] /\ attempt[t][k] = "none" /\ cut[t] \in Nat
          /\ \A n \in Deliveries : n > deliveries[t] => attempt[t][n] = "none"
      BY <2>0, <2>2 DEF TaskInv
    <3>2. /\ attempt'[t] \in [Deliveries -> AttemptStates] /\ attempt'[t][k] = "working"
          /\ \A n \in Deliveries \ {k} : attempt'[t][n] = attempt[t][n]
      BY <2>2, <3>1, Zenon DEF AttemptStates
    <3>3. Open("working") = 1 /\ Open("none") = 0 /\ \A s : Open(s) \in 0 .. 1
      BY DEF Open
    <3>4. Pending(t)' = Pending(t) + 1 /\ Pending(t) \in 0 .. 3
      BY <2>2, <3>1, <3>2, <3>3, Three DEF Pending
    <3>5. Word(t)' <=> Word(t)
      BY <2>1, Zenon DEF Word
    <3>6. /\ cut'[t] + Pending(t)' <= deliveries'[t] /\ deliveries'[t] \in 0 .. defaultMaxDeliver
          /\ ~Word(t)' => cut'[t] + Pending(t)' = deliveries'[t]
      BY <2>0, <2>1, <2>2, <3>1, <3>4, <3>5, Three DEF TaskInv
    <3>7. \A n \in Deliveries : n > deliveries'[t] => attempt'[t][n] = "none"
      BY <2>0, <2>2, <3>1, <3>2, Three
    <3>8. \A n \in Deliveries : attempt'[t][n] \in {"completed", "nil"} => t \in resulted'
      BY <2>0, <2>1, <3>2, Zenon DEF TaskInv
    <3> QED
      BY <2>0, <2>1, <2>2, <3>1, <3>2, <3>6, <3>7, <3>8 DEF TaskInv
  <2> QED
    BY <2>1, <2>3, <2>4, <2>5, Zenon DEF BackInv
<1>5. ASSUME NEW t \in Msgs, NEW kind \in MessageKinds, Receive(t, kind) PROVE BackInv'
  <2>1. /\ <<t, kind>> \in wire /\ wire' = wire \ {<<t, kind>>} /\ cell' = [cell EXCEPT ![t] = Stored(@, kind)]
        /\ UNCHANGED <<qstate, deliveries, attempt, cut, lost, resulted>>
    BY <1>5, Zenon DEF Receive, attemptVars, queueVars, histVars
  <2>2. /\ cell'[t] = Stored(cell[t], kind) /\ \A b \in Msgs \ {t} : cell'[b] = cell[b]
        /\ DOMAIN cell' = Msgs /\ cell' = [b \in Msgs |-> cell'[b]]
    BY <2>1, Zenon DEF BackInv
  <2>3. ASSUME NEW b \in Msgs, b # t PROVE TaskInv(b)'
    <3>1. \A l \in MessageKinds : <<b, l>> \in wire' <=> <<b, l>> \in wire
      BY <2>1, <2>3, Zenon
    <3> QED
      BY <2>1, <2>2, <2>3, <3>1, TaskFrame, Zenon DEF BackInv
  <2>4. TaskInv(t)'
    <3>0. TaskInv(t)
      BY Zenon DEF BackInv
    <3>1. cell'[t] # "none" /\ (cell'[t] = "full" <=> cell[t] = "full" \/ kind = "full")
      BY <2>2, Zenon DEF Stored, MessageKinds
    <3>2. Word(t)' /\ Word(t) /\ Pending(t)' = Pending(t)
      BY <2>1, <3>1, Zenon DEF Word, Pending
    <3>3. t \in resulted' <=> cell'[t] = "full" \/ lost'[t] = "full" \/ <<t, "full">> \in wire'
      BY <2>1, <3>0, <3>1 DEF TaskInv
    <3> QED
      BY <2>1, <3>0, <3>2, <3>3, Zenon DEF TaskInv
  <2> QED
    BY <2>1, <2>2, <2>3, <2>4, Zenon DEF BackInv
<1>6. ASSUME NEW t \in Msgs, NEW kind \in MessageKinds, Lose(t, kind) PROVE BackInv'
  <2>1. /\ <<t, kind>> \in wire /\ wire' = wire \ {<<t, kind>>} /\ lost' = [lost EXCEPT ![t] = Stored(@, kind)]
        /\ UNCHANGED <<qstate, deliveries, attempt, cell, cut, resulted>>
    BY <1>6, Zenon DEF Lose, attemptVars, queueVars
  <2>2. /\ lost'[t] = Stored(lost[t], kind) /\ \A b \in Msgs \ {t} : lost'[b] = lost[b]
        /\ DOMAIN lost' = Msgs /\ lost' = [b \in Msgs |-> lost'[b]]
    BY <2>1, Zenon DEF BackInv
  <2>3. ASSUME NEW b \in Msgs, b # t PROVE TaskInv(b)'
    <3>1. \A l \in MessageKinds : <<b, l>> \in wire' <=> <<b, l>> \in wire
      BY <2>1, <2>3, Zenon
    <3> QED
      BY <2>1, <2>2, <2>3, <3>1, TaskFrame, Zenon DEF BackInv
  <2>4. TaskInv(t)'
    <3>0. TaskInv(t)
      BY Zenon DEF BackInv
    <3>1. lost'[t] # "none" /\ (lost'[t] = "full" <=> lost[t] = "full" \/ kind = "full")
      BY <2>2, Zenon DEF Stored, MessageKinds
    <3>2. Word(t)' /\ Word(t) /\ Pending(t)' = Pending(t)
      BY <2>1, <3>1, Zenon DEF Word, Pending
    <3>3. t \in resulted' <=> cell'[t] = "full" \/ lost'[t] = "full" \/ <<t, "full">> \in wire'
      BY <2>1, <3>0, <3>1 DEF TaskInv
    <3> QED
      BY <2>1, <3>0, <3>2, <3>3, Zenon DEF TaskInv
  <2> QED
    BY <2>1, <2>2, <2>3, <2>4, Zenon DEF BackInv
<1> QED
  BY <1>1, <1>2, <1>3, <1>4, <1>5, <1>6, AttemptOthers, LifeSteps, Zenon

\* When a task is settled the collector's cell is true, and complete but for the
\* messages lost on the way: the Task if any attempt came to publish it, and
\* nothing only if every attempt was cut short; a task that was acknowledged was
\* published.  For any number of tasks (handler.go:249-263, collector.go:288-306).
THEOREM SettledTasksKnown == LifeSpec => []SettledIsKnown
<1>1. BackInv => SettledIsKnown
  <2> SUFFICES ASSUME BackInv, NEW t \in Msgs, Settled(t)
               PROVE  /\ cell[t] = "full" => t \in resulted
                      /\ t \in resulted => cell[t] = "full" \/ lost[t] = "full"
                      /\ cell[t] = "none" => cut[t] = deliveries[t] \/ lost[t] # "none"
                      /\ qstate[t] = "acked" => t \in resulted
    BY Zenon DEF SettledIsKnown
  <2>1. TaskInv(t) /\ \A kind \in MessageKinds : <<t, kind>> \notin wire
    BY Zenon DEF BackInv, Settled
  <2>2. t \in resulted <=> cell[t] = "full" \/ lost[t] = "full"
    BY <2>1, Zenon DEF TaskInv, MessageKinds
  <2>3. Pending(t) = 0
    BY Three DEF Settled, Pending, Open
  <2>4. cell[t] = "none" /\ lost[t] = "none" => ~Word(t)
    BY <2>1, Zenon DEF Word
  <2>5. cell[t] = "none" /\ lost[t] = "none" => cut[t] = deliveries[t]
    BY <2>1, <2>3, <2>4 DEF TaskInv
  <2> QED
    BY <2>1, <2>2, <2>5, Zenon DEF TaskInv
<1> QED
  BY <1>1, BackInit, BackStep, PTL DEF LifeSpec
----------------------------------------------------------------------------
(* Types and bounds                                                        *)

RestTypes ==
  /\ fanCtx \in BOOLEAN /\ slot \in [Msgs -> {"none", "submitted", "failed"}]
  /\ wire \subseteq Msgs \X MessageKinds /\ cell \in [Msgs -> {"none"} \cup MessageKinds]
  /\ lost \in [Msgs -> {"none"} \cup MessageKinds] /\ resulted \subseteq Msgs

LEMMA RestStep == FanInv /\ RestTypes /\ [LifeNext]_lifeVars => RestTypes'
<1> SUFFICES ASSUME FanInv, RestTypes, [LifeNext]_lifeVars PROVE RestTypes'
  BY Zenon
<1>1. CASE FanOutReturns
  <2>1. Ended = Msgs
    <3>1. Cardinality(Ended) = Cardinality(Msgs)
      BY <1>1, TaskCount, Zenon DEF FanOutReturns, AllSent, FanInv
    <3> QED
      BY <3>1, TaskCount, FS_Subset, Zenon DEF Ended
  <2>2. slot' \in [Msgs -> {"none", "submitted", "failed"}]
    BY <1>1, <2>1, Zenon DEF FanOutReturns, FanInv, Ended
  <2>3. fanCtx' = FALSE /\ UNCHANGED <<wire, cell, lost, resulted>>
    BY <1>1, Zenon DEF FanOutReturns, attemptVars, backVars, histVars
  <2> QED
    BY <2>2, <2>3, Zenon DEF RestTypes
<1>2. ASSUME NEW t \in Msgs, DispatchTask(t) PROVE RestTypes'
  BY <1>2, Zenon DEF DispatchTask, Store, RestTypes, attemptVars, backVars, histVars
<1>3. CASE CancelFanOut \/ UNCHANGED lifeVars
  BY <1>3, Zenon DEF CancelFanOut, RestTypes, lifeVars, fanVars, attemptVars, backVars, histVars
<1>4. ASSUME NEW t \in Msgs, DeliverTask(t) \/ Redeliver(t) PROVE RestTypes'
  BY <1>4, Zenon DEF DeliverTask, Begin, Redeliver, AckWait, RestTypes, fanVars, backVars, histVars
<1>5. ASSUME NEW t \in Msgs, NEW n \in Deliveries, AttemptStep(t, n) \/ Dies(t, n) PROVE RestTypes'
  <2>1. UNCHANGED <<fanCtx, slot, cell, lost>>
    BY <1>5, AttemptShape, Zenon DEF fanVars
  <2>2. wire' = wire \/ \E kind \in MessageKinds : Send(t, kind)
    BY <1>5, AttemptShape, Zenon
  <2>3. resulted' \in {resulted, resulted \cup {t}}
    BY <1>5, AttemptShape, Zenon
  <2>4. wire' \subseteq Msgs \X MessageKinds
    BY <2>2 DEF Send, RestTypes
  <2> QED
    BY <2>1, <2>3, <2>4, Zenon DEF RestTypes
<1>6. ASSUME NEW t \in Msgs, NEW kind \in MessageKinds, Receive(t, kind) PROVE RestTypes'
  <2>1. /\ wire' = wire \ {<<t, kind>>} /\ cell' = [cell EXCEPT ![t] = Stored(@, kind)]
        /\ UNCHANGED <<fanCtx, slot, lost, resulted>>
    BY <1>6, Zenon DEF Receive, fanVars, attemptVars, histVars
  <2>2. Stored(cell[t], kind) \in {"none"} \cup MessageKinds
    BY Zenon DEF Stored, RestTypes
  <2> QED
    BY <2>1, <2>2, Zenon DEF RestTypes
<1>7. ASSUME NEW t \in Msgs, NEW kind \in MessageKinds, Lose(t, kind) PROVE RestTypes'
  <2>1. /\ wire' = wire \ {<<t, kind>>} /\ lost' = [lost EXCEPT ![t] = Stored(@, kind)]
        /\ UNCHANGED <<fanCtx, slot, cell, resulted>>
    BY <1>7, Zenon DEF Lose, fanVars, attemptVars
  <2>2. Stored(lost[t], kind) \in {"none"} \cup MessageKinds
    BY Zenon DEF Stored, RestTypes
  <2> QED
    BY <2>1, <2>2, Zenon DEF RestTypes
<1> QED
  BY <1>1, <1>2, <1>3, <1>4, <1>5, <1>6, <1>7, LifeSteps, Zenon

\* No result is counted twice and no message is delivered more than MaxDeliver
\* times, for any number of tasks: a task's attempts cut short are no more than
\* its deliveries, the results in the channel no more than its room
\* (orchestrator.go:68-70, nats.go:208).
THEOREM LifecycleTypes == LifeSpec => []LifecycleTypeOK
<1>1. LifeInit => RestTypes
  BY Zenon DEF LifeInit, AttemptsInit, RestTypes
<1>2. FanInv /\ BackInv /\ RestTypes => LifecycleTypeOK
  <2> SUFFICES ASSUME FanInv, BackInv, RestTypes PROVE LifecycleTypeOK
    BY Zenon
  <2>1. Range(arrived) \subseteq Msgs
    BY DEF FanInv, Range
  <2>2. Len(arrived) <= Len(Wants)
    <3>1. CASE fan = "running"
      <4>1. Ended \subseteq Msgs
        BY Zenon DEF Ended
      <4>2. Cardinality(Ended) <= Cardinality(Msgs)
        BY <4>1, TaskCount, FS_Subset, Zenon
      <4> QED
        BY <3>1, <4>2, TaskCount, Zenon DEF FanInv
    <3>2. CASE fan = "returned"
      BY <3>2, TaskCount DEF FanInv
    <3> QED
      BY <3>1, <3>2, Zenon DEF FanInv
  <2>3. \A t \in Msgs : cut[t] \in 0 .. defaultMaxDeliver /\ deliveries[t] \in 0 .. defaultMaxDeliver
                        /\ attempt[t] \in [Deliveries -> AttemptStates]
    <3> SUFFICES ASSUME NEW t \in Msgs PROVE cut[t] \in 0 .. defaultMaxDeliver /\ deliveries[t] \in 0 .. defaultMaxDeliver
                                             /\ attempt[t] \in [Deliveries -> AttemptStates]
      BY Zenon
    <3>1. TaskInv(t)
      BY Zenon DEF BackInv
    <3>2. Pending(t) \in Nat
      BY DEF Pending, Open
    <3> QED
      BY <3>1, <3>2, Three DEF TaskInv
  <2>4. /\ deliveries \in [Msgs -> 0 .. defaultMaxDeliver] /\ cut \in [Msgs -> 0 .. defaultMaxDeliver]
        /\ attempt \in [Msgs -> [Deliveries -> AttemptStates]]
    BY <2>3, Zenon DEF BackInv
  <2> QED
    BY <2>1, <2>2, <2>4, Zenon DEF FanInv, RestTypes, LifecycleTypeOK
<1> QED
  BY <1>1, <1>2, FanInit, FanStep, BackInit, BackStep, RestStep, PTL DEF LifeSpec
----------------------------------------------------------------------------
(* How it ends                                                             *)

\* What is left to do for a task: its goroutine, its deliveries, the end of AckWait,
\* the rest of its attempts and the messages under way.
Remaining(state) ==
  IF state = "working" THEN 8 ELSE IF state \in {"fail", "result"} THEN 6
  ELSE IF state = "completed" THEN 4 ELSE IF state \in {"nil", "err"} THEN 2 ELSE 0
OneIf(holds) == IF holds THEN 1 ELSE 0
Attempted(t) == Remaining(attempt[t][1]) + Remaining(attempt[t][2]) + Remaining(attempt[t][3])
Underway(t) == OneIf(<<t, "failed">> \in wire) + OneIf(<<t, "completed">> \in wire) + OneIf(<<t, "full">> \in wire)
Offered(t) == OneIf(disp[t] = "running") + 10 * (defaultMaxDeliver - deliveries[t]) + OneIf(qstate[t] = "out")
Work(t) == Offered(t) + Attempted(t) + Underway(t)
FanWork == IF fan = "returned" THEN 0 ELSE IF fanCtx THEN 1 ELSE 2

\* A step takes from one of them and adds to no other.
Spends ==
  \/ FanWork' < FanWork /\ \A t \in Msgs : Work(t)' = Work(t)
  \/ /\ FanWork' = FanWork
     /\ \E t \in Msgs : Work(t)' < Work(t) /\ \A b \in Msgs \ {t} : Work(b)' = Work(b)

\* Every step, a process that is killed included, takes from what is left to do
\* for one task or for FanOut and adds to no other: nothing goes round for ever,
\* however AckWait, redelivery and late answers interleave (nats.go:207-223).
WorkIsSpent == [][Spends]_lifeVars

\* Where nothing can go on by itself FanOut has returned and every stored message
\* is settled, for any number of tasks (orchestrator.go:107-118, nats.go:207-223).
THEOREM RestSettled == LifeSpec => []RestSettles
<1>1. FanInv /\ BackInv => RestSettles
  <2> SUFFICES ASSUME FanInv, BackInv, ~CanProgress
               PROVE  fan = "returned" /\ \A t \in Msgs : qstate[t] # "unsent" => Settled(t)
    BY Zenon DEF RestSettles
  <2>1. Ended = Msgs
    BY Zenon DEF CanProgress, Ended
  <2>2. fan = "returned"
    BY <2>1, TaskCount, Zenon DEF FanInv, CanProgress, AllSent
  <2>3. ASSUME NEW t \in Msgs, qstate[t] # "unsent" PROVE Settled(t)
    <3>1. /\ qstate[t] # "out" /\ ~(qstate[t] = "ready" /\ deliveries[t] < defaultMaxDeliver)
          /\ \A n \in Deliveries : attempt[t][n] \in {"none", "over"}
          /\ \A kind \in MessageKinds : <<t, kind>> \notin wire
      BY Zenon DEF CanProgress
    <3>2. qstate[t] \in {"ready", "out", "acked", "termed"} /\ deliveries[t] \in 0 .. defaultMaxDeliver
      BY <2>3, Zenon DEF BackInv, TaskInv
    <3>3. qstate[t] \in {"acked", "termed"} \/ GivenUp(t)
      BY <3>1, <3>2, Three DEF GivenUp
    <3> QED
      BY <3>1, <3>3, Zenon DEF Settled
  <2> QED
    BY <2>2, <2>3, Zenon
<1> QED
  BY <1>1, FanInit, FanStep, BackInit, BackStep, PTL DEF LifeSpec

\* What is left are numbers.
LEMMA WorkTypes ==
  ASSUME NEW t \in Msgs, BackInv
  PROVE  Offered(t) \in Nat /\ Attempted(t) \in Nat /\ Underway(t) \in Nat
<1>1. deliveries[t] \in 0 .. 3
  BY Three, Zenon DEF BackInv, TaskInv
<1>2. \A s : Remaining(s) \in 0 .. 8
  BY DEF Remaining
<1>3. Attempted(t) \in Nat
  BY <1>2 DEF Attempted
<1>4. Underway(t) \in Nat
  BY DEF Underway, OneIf
<1> QED
  BY <1>1, <1>3, <1>4, Three DEF Offered, OneIf

\* What is left to do for a task stays the same where nothing of it changes.
LEMMA WorkFrame ==
  ASSUME NEW t, disp'[t] = disp[t], deliveries'[t] = deliveries[t], qstate'[t] = qstate[t], attempt'[t] = attempt[t],
         \A kind \in MessageKinds : <<t, kind>> \in wire' <=> <<t, kind>> \in wire
  PROVE  Work(t)' = Work(t)
<1>1. Offered(t)' = Offered(t)
  BY Zenon DEF Offered, OneIf
<1>2. Attempted(t)' = Attempted(t)
  BY Zenon DEF Attempted
<1>3. Underway(t)' = Underway(t)
  BY Zenon DEF Underway, OneIf, MessageKinds
<1> QED
  BY <1>1, <1>2, <1>3, Zenon DEF Work

\* A step of an attempt that lets the rest of it shrink by two may send a message
\* and give the delivery back.
LEMMA AttemptSpends ==
  ASSUME NEW t \in Msgs, NEW n \in Deliveries, NEW from, NEW to \in AttemptStates, BackInv, Go(t, n, from, to),
         Remaining(to) + 2 <= Remaining(from), deliveries' = deliveries,
         qstate'[t] = qstate[t] \/ qstate'[t] # "out",
         UNCHANGED disp, UNCHANGED wire \/ \E kind \in MessageKinds : Send(t, kind)
  PROVE  Work(t)' < Work(t)
<1>1. /\ attempt'[t][n] = to /\ attempt[t][n] = from
      /\ \A m \in Deliveries \ {n} : attempt'[t][m] = attempt[t][m]
  BY GoEffect
<1>3. Offered(t) \in Nat /\ Attempted(t) \in Nat /\ Underway(t) \in Nat
  BY WorkTypes, Zenon
<1>4. \A s : Remaining(s) \in 0 .. 8
  BY DEF Remaining
<1>5. Attempted(t)' \in Nat /\ Attempted(t)' + 2 <= Attempted(t)
  BY <1>1, <1>4, Three DEF Attempted
<1>6. Underway(t)' \in Nat /\ Underway(t)' <= Underway(t) + 1
  <2>1. PICK kind \in MessageKinds : wire' \subseteq wire \cup {<<t, kind>>} /\ wire \subseteq wire'
    BY Zenon DEF Send, MessageKinds
  <2> QED
    BY <2>1 DEF Underway, OneIf, MessageKinds
<1>7. Offered(t)' \in Nat /\ Offered(t)' <= Offered(t)
  <2>1. deliveries[t] \in 0 .. 3
    BY Three, Zenon DEF BackInv, TaskInv
  <2> QED
    BY <2>1, Three DEF Offered, OneIf
<1> QED
  BY <1>3, <1>5, <1>6, <1>7 DEF Work

\* Every step of an attempt, and its end, brings the task nearer to its end.
LEMMA AttemptStepSpends ==
  ASSUME NEW t \in Msgs, NEW n \in Deliveries, BackInv, AttemptStep(t, n) \/ Dies(t, n)
  PROVE  Work(t)' < Work(t)
<1>1. deliveries' = deliveries /\ disp' = disp /\ (wire' = wire \/ \E kind \in MessageKinds : Send(t, kind))
  BY AttemptShape, Zenon DEF fanVars
<1>2. qstate'[t] = qstate[t] \/ qstate'[t] # "out"
  <2>1. qstate' = qstate \/ \E q \in {"ready", "acked", "termed"} : qstate' = [qstate EXCEPT ![t] = q]
    BY AttemptShape, Zenon
  <2> QED
    BY <2>1, Zenon DEF BackInv
<1>3. \E from \in AttemptStates, to \in AttemptStates : Go(t, n, from, to) /\ Remaining(to) + 2 <= Remaining(from)
  <2>1. /\ Remaining("working") = 8 /\ Remaining("fail") = 6 /\ Remaining("result") = 6 /\ Remaining("completed") = 4
        /\ Remaining("nil") = 2 /\ Remaining("err") = 2 /\ Remaining("over") = 0
    BY ZenonT(40) DEF Remaining
  <2>2. ASSUME Dies(t, n) PROVE \E from \in AttemptStates : Go(t, n, from, "over") /\ Remaining("over") + 2 <= Remaining(from)
    <3>1. attempt[t][n] \in AttemptStates \ {"none", "over"}
      <4>1. attempt[t] \in [Deliveries -> AttemptStates]
        BY Zenon DEF BackInv, TaskInv
      <4>2. attempt[t][n] \notin {"none", "over"}
        BY <2>2, Zenon DEF Dies, Die
      <4> QED
        BY <4>1, <4>2, Zenon
    <3>2. Go(t, n, attempt[t][n], "over")
      BY <2>2, Zenon DEF Dies, Die
    <3> QED
      BY <2>1, <3>1, <3>2 DEF AttemptStates
  <2>4. "over" \in AttemptStates
    BY Zenon DEF AttemptStates
  <2> QED
    BY <2>1, <2>2, <2>4, AttemptWays DEF AttemptStates
<1> QED
  BY <1>1, <1>2, <1>3, AttemptSpends, Zenon

\* The other tasks are left alone.
LEMMA OthersKeepWork ==
  ASSUME NEW t \in Msgs, NEW b \in Msgs \ {t}, FanInv, BackInv,
         \/ DispatchTask(t) \/ DeliverTask(t) \/ Redeliver(t)
         \/ \E n \in Deliveries : AttemptStep(t, n) \/ Dies(t, n)
         \/ \E kind \in MessageKinds : Receive(t, kind) \/ Lose(t, kind)
  PROVE  Work(b)' = Work(b)
<1>1. disp'[b] = disp[b]
  <2>1. disp' = disp \/ \E r \in {"submitted", "failed"} : disp' = [disp EXCEPT ![t] = r]
    BY AttemptShape, Zenon DEF DispatchTask, DeliverTask, Redeliver, Receive, Lose, fanVars
  <2> QED
    BY <2>1, Zenon DEF FanInv
<1>2. deliveries'[b] = deliveries[b]
  <2>1. deliveries' = deliveries \/ deliveries' = [deliveries EXCEPT ![t] = @ + 1]
    BY AttemptShape, Zenon DEF DispatchTask, Store, DeliverTask, Begin, Deliver, Redeliver, AckWait, AckWaitExpires, Receive, Lose,
       attemptVars, queueVars
  <2> QED
    BY <2>1, Zenon DEF BackInv
<1>3. qstate'[b] = qstate[b]
  <2>1. qstate' = qstate \/ \E q \in {"ready", "out", "acked", "termed"} : qstate' = [qstate EXCEPT ![t] = q]
    BY AttemptShape, Zenon DEF DispatchTask, Store, DeliverTask, Begin, Deliver, Redeliver, AckWait, AckWaitExpires, Receive, Lose,
       attemptVars, queueVars
  <2> QED
    BY <2>1, Zenon DEF BackInv
<1>4. attempt'[b] = attempt[b]
  <2>1. attempt' = attempt \/ \E n, to : attempt' = [attempt EXCEPT ![t][n] = to]
    <3>1. ASSUME NEW n \in Deliveries, AttemptStep(t, n) PROVE \E to : attempt' = [attempt EXCEPT ![t][n] = to]
      BY <3>1, AttemptWays, Zenon DEF Go
    <3>2. ASSUME NEW n \in Deliveries, Dies(t, n) PROVE \E to : attempt' = [attempt EXCEPT ![t][n] = to]
      BY <3>2, Zenon DEF Dies, Die, Go
    <3> QED
      BY <3>1, <3>2, Zenon DEF DispatchTask, Store, DeliverTask, Begin, Redeliver, AckWait, Receive, Lose, attemptVars
  <2> QED
    BY <2>1, Zenon DEF BackInv
<1>5. \A kind \in MessageKinds : <<b, kind>> \in wire' <=> <<b, kind>> \in wire
  <2>1. \/ wire' = wire
        \/ \E kind \in MessageKinds : wire' = wire \cup {<<t, kind>>} \/ wire' = wire \ {<<t, kind>>}
    BY AttemptShape, Zenon DEF DispatchTask, DeliverTask, Redeliver, Send, Receive, Lose, backVars
  <2> QED
    BY <2>1
<1> QED
  BY <1>1, <1>2, <1>3, <1>4, <1>5, WorkFrame, Zenon

\* A fan-out and its redeliveries come to an end: every step of any behaviour takes
\* from a natural number, one for FanOut and one per task, and adds to none of
\* the others (orchestrator.go:42-141, nats.go:207-223).
THEOREM WorkSpent == LifeSpec => [](\A t \in Msgs : Work(t) \in Nat) /\ WorkIsSpent
<1>1. FanInv /\ BackInv /\ fanCtx \in BOOLEAN /\ [LifeNext]_lifeVars => [Spends]_lifeVars
  <2> SUFFICES ASSUME FanInv, BackInv, fanCtx \in BOOLEAN, LifeNext, lifeVars' # lifeVars PROVE Spends
    BY Zenon
  <2>1. CASE FanOutReturns \/ CancelFanOut
    <3>1. FanWork' < FanWork
      BY <2>1 DEF FanOutReturns, CancelFanOut, FanWork, FanInv
    <3>2. UNCHANGED <<disp, deliveries, qstate, attempt, wire>>
      BY <2>1, Zenon DEF FanOutReturns, CancelFanOut, attemptVars, queueVars, backVars
    <3>3. \A t \in Msgs : Work(t)' = Work(t)
      BY <3>2, WorkFrame, Zenon
    <3> QED
      BY <3>1, <3>3, Zenon DEF Spends
  <2>2. ASSUME NEW t \in Msgs,
               \/ DispatchTask(t) \/ DeliverTask(t) \/ Redeliver(t)
               \/ \E n \in Deliveries : AttemptStep(t, n) \/ Dies(t, n)
               \/ \E kind \in MessageKinds : Receive(t, kind) \/ Lose(t, kind)
        PROVE  Spends
    <3>0. TaskInv(t) /\ Offered(t) \in Nat /\ Attempted(t) \in Nat /\ Underway(t) \in Nat /\ deliveries[t] \in 0 .. 3
      BY WorkTypes, Three, Zenon DEF BackInv, TaskInv
    <3>1. \A b \in Msgs \ {t} : Work(b)' = Work(b)
      BY <2>2, OthersKeepWork, Zenon
    <3>2. UNCHANGED <<fan, fanCtx>>
      BY <2>2, AttemptShape, Zenon DEF DispatchTask, DeliverTask, Redeliver, Receive, Lose, fanVars
    <3>3. FanWork' = FanWork
      BY <3>2, Zenon DEF FanWork
    <3>4. ASSUME DispatchTask(t) PROVE Work(t)' < Work(t)
      <4>1. UNCHANGED <<deliveries, attempt, wire>> /\ qstate'[t] # "out" /\ disp[t] = "running" /\ disp'[t] # "running"
        BY <3>4, Zenon DEF DispatchTask, Store, FanInv, attemptVars, queueVars, backVars
      <4>2. Attempted(t)' = Attempted(t) /\ Underway(t)' = Underway(t)
        BY <4>1, Zenon DEF Attempted, Underway
      <4>3. Offered(t)' < Offered(t)
        BY <3>0, <4>1, Three DEF Offered, OneIf
      <4>4. Offered(t)' \in Int
        BY <3>0, <4>1, Three DEF Offered, OneIf
      <4> QED
        BY <3>0, <4>2, <4>3, <4>4 DEF Work
    <3>5. ASSUME Redeliver(t) PROVE Work(t)' < Work(t)
      <4>1. UNCHANGED <<deliveries, attempt, wire, disp>> /\ qstate'[t] = "ready" /\ qstate[t] = "out"
        BY <3>5, Zenon DEF Redeliver, AckWait, AckWaitExpires, FanInv, fanVars, backVars
      <4>2. Attempted(t)' = Attempted(t) /\ Underway(t)' = Underway(t)
        BY <4>1, Zenon DEF Attempted, Underway
      <4>3. Offered(t)' < Offered(t) /\ Offered(t)' \in Int
        BY <3>0, <4>1, Three DEF Offered, OneIf
      <4> QED
        BY <3>0, <4>2, <4>3 DEF Work
    <3>6. ASSUME DeliverTask(t) PROVE Work(t)' < Work(t)
      <4>1. /\ UNCHANGED <<wire, disp>> /\ qstate'[t] = "out" /\ qstate[t] = "ready" /\ deliveries[t] < 3
            /\ deliveries'[t] = deliveries[t] + 1 /\ deliveries[t] + 1 \in Deliveries
            /\ attempt'[t] = [attempt[t] EXCEPT ![deliveries[t] + 1] = "working"]
        BY <3>0, <3>6, Three DEF DeliverTask, Begin, Deliver, BackInv, fanVars, backVars
      <4>2. Underway(t)' = Underway(t)
        BY <4>1, Zenon DEF Underway
      <4>3. attempt[t] \in [Deliveries -> AttemptStates] /\ attempt[t][deliveries[t] + 1] = "none"
        BY <3>0, <4>1 DEF TaskInv, Deliveries
      <4>4. Remaining("none") = 0 /\ Remaining("working") = 8 /\ \A s : Remaining(s) \in 0 .. 8
        BY DEF Remaining
      <4>5. Attempted(t)' = Attempted(t) + 8
        BY <3>0, <4>1, <4>3, <4>4, Three, SMTT(30) DEF Attempted
      <4>6. Offered(t)' = Offered(t) - 9
        BY <3>0, <4>1, Three DEF Offered, OneIf
      <4> QED
        BY <3>0, <4>2, <4>5, <4>6 DEF Work
    <3>7. ASSUME NEW n \in Deliveries, AttemptStep(t, n) \/ Dies(t, n) PROVE Work(t)' < Work(t)
      BY <3>7, AttemptStepSpends, Zenon
    <3>8. ASSUME NEW kind \in MessageKinds, Receive(t, kind) \/ Lose(t, kind) PROVE Work(t)' < Work(t)
      <4>1. UNCHANGED <<deliveries, attempt, qstate, disp>> /\ <<t, kind>> \in wire /\ wire' = wire \ {<<t, kind>>}
        BY <3>8, Zenon DEF Receive, Lose, fanVars, attemptVars, queueVars
      <4>2. Attempted(t)' = Attempted(t) /\ Offered(t)' = Offered(t)
        BY <4>1, Zenon DEF Attempted, Offered
      <4>3. Underway(t)' < Underway(t) /\ Underway(t)' \in Int
        BY <4>1 DEF Underway, OneIf, MessageKinds
      <4> QED
        BY <3>0, <4>2, <4>3 DEF Work
    <3>9. Work(t)' < Work(t)
      BY <2>2, <3>4, <3>5, <3>6, <3>7, <3>8, Zenon
    <3> QED
      BY <3>1, <3>3, <3>9, Zenon DEF Spends
  <2> QED
    BY <2>1, <2>2, LifeSteps, Zenon
<1>2. LifeSpec => []LifecycleTypeOK
  BY LifecycleTypes, Zenon
<1>3. LifecycleTypeOK => fanCtx \in BOOLEAN
  BY Zenon DEF LifecycleTypeOK
<1>4. BackInv => \A t \in Msgs : Work(t) \in Nat
  <2> SUFFICES ASSUME BackInv, NEW t \in Msgs PROVE Work(t) \in Nat
    BY Zenon
  <2>1. Offered(t) \in Nat /\ Attempted(t) \in Nat /\ Underway(t) \in Nat
    BY WorkTypes, Zenon
  <2> QED
    BY <2>1 DEF Work
<1> QED
  BY <1>1, <1>2, <1>3, <1>4, FanInit, FanStep, BackInit, BackStep, PTL DEF LifeSpec, WorkIsSpent
============================================================================
