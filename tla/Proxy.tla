------------------------------- MODULE Proxy -------------------------------
(***************************************************************************)
(* The proxy sidecar: queue.Consumer.Run and processMessage, the proxy's   *)
(* Handler.Handle, ShutdownManager.Shutdown and the main function that     *)
(* joins them.  A proxy has two goroutines that matter: the consumer,      *)
(* which fetches one message at a time and runs Handle for it, and main,   *)
(* which waits for SIGTERM and then shuts down.  They meet at the mutex of *)
(* the Handler, at its WaitGroup and at the work context.                  *)
(*                                                                         *)
(* Several proxies share the queue.  A proxy may be killed at any step and *)
(* is started again, at most MaxRestarts times in all.                     *)
(***************************************************************************)
EXTENDS TaskQueue

CONSTANTS Proxies,
          Malformed,    \* the messages that do not unmarshal
          NoMsg,        \* no message held
          MaxRestarts   \* bound of the model

ASSUME ProxyAssumption ==
  /\ NoMsg \notin Msgs
  /\ MaxRestarts \in Nat

VARIABLES
  main,          \* where main is, and with it Shutdown
  sigterm,       \* ctx of main is done
  run,           \* where Consumer.Run is
  hold,          \* the message processMessage has, or NoMsg
  num,           \* its meta.NumDelivered
  pc,            \* where Handle is
  ret,           \* what Handle returns
  session,       \* h.sessions holds the session of the call
  shuttingDown,  \* h.shuttingDown
  workDone,      \* the work context is cancelled
  expired,       \* the grace period ran out before the in-flight call ended
  agentBusy,     \* the agent has the prompt of the current call, unanswered
  cancelSent,    \* CancelActiveSessions sent session/cancel
  published,     \* <<kind, message>> for what reached NATS
  restarts       \* starts used up

consumerVars == <<run, hold, num>>
handleVars == <<pc, ret, session, agentBusy>>
shutdownVars == <<main, shuttingDown, workDone, expired, cancelSent>>
vars == <<queueVars, consumerVars, handleVars, shutdownVars, sigterm, published, restarts>>

Kinds == {"working", "failed", "result", "completed"}

Init ==
  /\ QueueInit
  /\ main = [p \in Proxies |-> "serving"]
  /\ sigterm = [p \in Proxies |-> FALSE]
  /\ run = [p \in Proxies |-> "poll"]
  /\ hold = [p \in Proxies |-> NoMsg]
  /\ num = [p \in Proxies |-> 0]
  /\ pc = [p \in Proxies |-> "none"]
  /\ ret = [p \in Proxies |-> "none"]
  /\ session = [p \in Proxies |-> FALSE]
  /\ shuttingDown = [p \in Proxies |-> FALSE]
  /\ workDone = [p \in Proxies |-> FALSE]
  /\ expired = [p \in Proxies |-> FALSE]
  /\ agentBusy = [p \in Proxies |-> FALSE]
  /\ cancelSent = [p \in Proxies |-> FALSE]
  /\ published = {}
  /\ restarts = 0

Alive(p) == main[p] \notin {"exited", "killed"}

----------------------------------------------------------------------------
(* Consumer.Run and processMessage (nats.go:142-226)                       *)

\* The loop's select: stop when ctx is done, otherwise call Fetch.
Poll(p) ==
  /\ Alive(p)
  /\ run[p] = "poll"
  /\ run' = [run EXCEPT ![p] = IF sigterm[p] THEN "stopped" ELSE "fetch"]
  /\ UNCHANGED <<queueVars, hold, num, handleVars, shutdownVars, sigterm, published, restarts>>

\* Slip: an empty fetch ends the loop.
FetchTimeoutStops(p) ==
  /\ Alive(p)
  /\ run[p] = "fetch"
  /\ run' = [run EXCEPT ![p] = "stopped"]
  /\ UNCHANGED <<queueVars, hold, num, handleVars, shutdownVars, sigterm, published, restarts>>

\* Fetch returns without a message: its five seconds are over, or an error.
FetchTimeout(p) ==
  /\ Alive(p)
  /\ run[p] = "fetch"
  /\ run' = [run EXCEPT ![p] = IF sigterm[p] THEN "stopped" ELSE "poll"]
  /\ UNCHANGED <<queueVars, hold, num, handleVars, shutdownVars, sigterm, published, restarts>>

\* Fetch returns m.  It has no context: a SIGTERM does not interrupt it.
Fetch(p, m) ==
  /\ Alive(p)
  /\ run[p] = "fetch"
  /\ Deliver(m)
  /\ run' = [run EXCEPT ![p] = "handle"]
  /\ hold' = [hold EXCEPT ![p] = m]
  /\ num' = [num EXCEPT ![p] = deliveries'[m]]
  /\ pc' = [pc EXCEPT ![p] = "enter"]
  /\ UNCHANGED <<ret, session, agentBusy, shutdownVars, sigterm, published, restarts>>

\* Slip: every message is acknowledged.
AcknowledgeAlways(p) ==
  /\ Alive(p)
  /\ pc[p] = "settle"
  /\ Ack(hold[p])
  /\ run' = [run EXCEPT ![p] = "poll"]
  /\ hold' = [hold EXCEPT ![p] = NoMsg]
  /\ num' = [num EXCEPT ![p] = 0]
  /\ pc' = [pc EXCEPT ![p] = "none"]
  /\ ret' = [ret EXCEPT ![p] = "none"]
  /\ UNCHANGED <<session, agentBusy, shutdownVars, sigterm, published, restarts>>

\* Slip: the delivery before the last is terminated.
AcknowledgeEarly(p) ==
  /\ Alive(p)
  /\ pc[p] = "settle"
  /\ \/ ret[p] = "nil" /\ Ack(hold[p])
     \/ ret[p] = "err" /\ num[p] >= defaultMaxDeliver - 1 /\ Term(hold[p])
     \/ ret[p] = "err" /\ num[p] < defaultMaxDeliver - 1 /\ Nak(hold[p])
  /\ run' = [run EXCEPT ![p] = "poll"]
  /\ hold' = [hold EXCEPT ![p] = NoMsg]
  /\ num' = [num EXCEPT ![p] = 0]
  /\ pc' = [pc EXCEPT ![p] = "none"]
  /\ ret' = [ret EXCEPT ![p] = "none"]
  /\ UNCHANGED <<session, agentBusy, shutdownVars, sigterm, published, restarts>>

\* The handler has returned: settle the message and go round the loop.
Acknowledge(p) ==
  /\ Alive(p)
  /\ pc[p] = "settle"
  /\ \/ ret[p] = "nil" /\ Ack(hold[p])
     \/ ret[p] = "err" /\ num[p] >= defaultMaxDeliver /\ Term(hold[p])
     \/ ret[p] = "err" /\ num[p] < defaultMaxDeliver /\ Nak(hold[p])
  /\ run' = [run EXCEPT ![p] = "poll"]
  /\ hold' = [hold EXCEPT ![p] = NoMsg]
  /\ num' = [num EXCEPT ![p] = 0]
  /\ pc' = [pc EXCEPT ![p] = "none"]
  /\ ret' = [ret EXCEPT ![p] = "none"]
  /\ UNCHANGED <<session, agentBusy, shutdownVars, sigterm, published, restarts>>

----------------------------------------------------------------------------
(* Handler.Handle (handler.go:79-270)                                      *)

\* Move Handle of p from one place to the next.
Step(p, from, to) ==
  /\ Alive(p)
  /\ pc[p] = from
  /\ pc' = [pc EXCEPT ![p] = to]
  /\ UNCHANGED <<queueVars, consumerVars, shutdownVars, sigterm, restarts>>

Returns(p, r) == ret' = [ret EXCEPT ![p] = r]

\* PublishJSON with the work context.  "nil": it reached NATS.  "err": it did
\* not, or its acknowledgement was lost; a context that is done already makes
\* the call fail before anything is sent.
PublishJSON(p, kind, r) ==
  \/ /\ ~workDone[p]
     /\ published' = published \cup {<<kind, hold[p]>>}
     /\ r \in {"nil", "err"}
  \/ UNCHANGED published /\ r = "err"

\* Slip: shuttingDown is not tested.
EnterUnchecked(p) ==
  /\ IF hold[p] \in Malformed THEN Step(p, "enter", "done") /\ Returns(p, "err")
                              ELSE Step(p, "enter", "working") /\ UNCHANGED ret
  /\ UNCHANGED <<session, agentBusy, published>>

\* The mutex section that tests shuttingDown and adds to the WaitGroup, and
\* the unmarshalling.
Enter(p) ==
  /\ \/ /\ shuttingDown[p]
        /\ Step(p, "enter", "settle")
        /\ Returns(p, "err")
     \/ /\ ~shuttingDown[p] /\ hold[p] \in Malformed
        /\ Step(p, "enter", "done")
        /\ Returns(p, "err")
     \/ /\ ~shuttingDown[p] /\ hold[p] \notin Malformed
        /\ Step(p, "enter", "working")
        /\ UNCHANGED ret
  /\ UNCHANGED <<session, agentBusy, published>>

\* An error of the working status is only logged.
PublishWorking(p) ==
  /\ Step(p, "working", "newSession")
  /\ \E r \in {"nil", "err"} : PublishJSON(p, "working", r)
  /\ UNCHANGED <<ret, session, agentBusy>>

\* session/new returns.  main has initialised the client, so initErr is nil.
NewSession(p) ==
  /\ Step(p, "newSession", "register") \/ Step(p, "newSession", "fail")
  /\ UNCHANGED <<ret, session, agentBusy, published>>

\* registerSession; then the prompt is sent, unless the parts of the message
\* hold no text.
RegisterSession(p) ==
  /\ \/ /\ Step(p, "register", "fail")
        /\ UNCHANGED agentBusy
     \/ /\ Step(p, "register", "prompt")
        /\ agentBusy' = [agentBusy EXCEPT ![p] = TRUE]
  /\ session' = [session EXCEPT ![p] = TRUE]
  /\ UNCHANGED <<ret, published>>

\* session/prompt returns: the agent answers with content or an error, or the
\* work context is done and the agent is left with the prompt.
Prompt(p) ==
  /\ \/ /\ Step(p, "prompt", "result") \/ Step(p, "prompt", "fail")
        /\ agentBusy' = [agentBusy EXCEPT ![p] = FALSE]
     \/ /\ workDone[p]
        /\ Step(p, "prompt", "fail")
        /\ UNCHANGED agentBusy
  /\ UNCHANGED <<ret, session, published>>

\* Handle returns the error of this one without any status.
PublishResult(p) ==
  /\ \/ /\ PublishJSON(p, "result", "nil")
        /\ Step(p, "result", "completed")
        /\ UNCHANGED ret
     \/ /\ PublishJSON(p, "result", "err")
        /\ Step(p, "result", "leave")
        /\ Returns(p, "err")
  /\ UNCHANGED <<session, agentBusy>>

PublishCompleted(p) ==
  /\ Step(p, "completed", "leave")
  /\ \E r \in {"nil", "err"} : PublishJSON(p, "completed", r)
  /\ Returns(p, "nil")
  /\ UNCHANGED <<session, agentBusy>>

\* fail: the status is published with the context that may be the reason.
Fail(p) ==
  /\ Step(p, "fail", "leave")
  /\ \E r \in {"nil", "err"} : PublishJSON(p, "failed", r)
  /\ Returns(p, "err")
  /\ UNCHANGED <<session, agentBusy>>

\* The deferred calls: deregisterSession, then wg.Done.
DeregisterSession(p) ==
  /\ Step(p, "leave", "done")
  /\ session' = [session EXCEPT ![p] = FALSE]
  /\ UNCHANGED <<ret, agentBusy, published>>

WgDone(p) ==
  /\ Step(p, "done", "settle")
  /\ UNCHANGED <<ret, session, agentBusy, published>>

\* The WaitGroup of p is not zero.
InFlight(p) == pc[p] \notin {"none", "enter", "settle"}

----------------------------------------------------------------------------
(* main and ShutdownManager.Shutdown (main.go:132-147, shutdown.go:78-146) *)

Signal(p) ==
  /\ Alive(p)
  /\ ~sigterm[p]
  /\ sigterm' = [sigterm EXCEPT ![p] = TRUE]
  /\ UNCHANGED <<queueVars, consumerVars, handleVars, shutdownVars, published, restarts>>

\* Move main of p from one place to the next.
Main(p, from, to) ==
  /\ main[p] = from
  /\ main' = [main EXCEPT ![p] = to]
  /\ UNCHANGED <<queueVars, consumerVars, handleVars, sigterm, published, restarts>>

\* Slip: the work context follows the signal.
RejectNewAndCancel(p) ==
  /\ sigterm[p]
  /\ Main(p, "serving", "waiting")
  /\ shuttingDown' = [shuttingDown EXCEPT ![p] = TRUE]
  /\ workDone' = [workDone EXCEPT ![p] = TRUE]
  /\ UNCHANGED <<expired, cancelSent>>

\* Phase 1, under the Handler's mutex.
RejectNew(p) ==
  /\ sigterm[p]
  /\ Main(p, "serving", "waiting")
  /\ shuttingDown' = [shuttingDown EXCEPT ![p] = TRUE]
  /\ UNCHANGED <<workDone, expired, cancelSent>>

\* Phase 2: the WaitGroup is zero.
AllFinished(p) ==
  /\ ~InFlight(p)
  /\ Main(p, "waiting", "joining")
  /\ workDone' = [workDone EXCEPT ![p] = TRUE]
  /\ UNCHANGED <<shuttingDown, expired, cancelSent>>

\* Phase 2: the grace period is over.
GraceExpires(p) ==
  /\ Main(p, "waiting", "expired")
  /\ expired' = [expired EXCEPT ![p] = TRUE]
  /\ UNCHANGED <<shuttingDown, workDone, cancelSent>>

\* Slip: the work context is not cancelled.
WorkCancelForgotten(p) ==
  /\ Main(p, "expired", "cancelling")
  /\ UNCHANGED <<shuttingDown, workDone, expired, cancelSent>>

\* Phase 3: workCancel, then CancelActiveSessions with a snapshot of its own.
WorkCancel(p) ==
  /\ Main(p, "expired", "cancelling")
  /\ workDone' = [workDone EXCEPT ![p] = TRUE]
  /\ UNCHANGED <<shuttingDown, expired, cancelSent>>

CancelActiveSessions(p) ==
  /\ Main(p, "cancelling", "draining")
  /\ cancelSent' = [cancelSent EXCEPT ![p] = session[p]]
  /\ UNCHANGED <<shuttingDown, workDone, expired>>

\* Phase 4: the WaitGroup is zero, or the exit timer fires.
Drained(p) ==
  /\ ~InFlight(p)
  /\ Main(p, "draining", "joining")
  /\ UNCHANGED <<shuttingDown, workDone, expired, cancelSent>>

ForceExit(p) ==
  /\ Main(p, "draining", "forced")
  /\ UNCHANGED <<shuttingDown, workDone, expired, cancelSent>>

\* Slip: main does not wait for the consumer.
ExitAtOnce(p) ==
  /\ Main(p, "joining", "exited") \/ Main(p, "forced", "exited")
  /\ UNCHANGED <<shuttingDown, workDone, expired, cancelSent>>

\* <-consumerErr, and the process ends.
Exit(p) ==
  /\ run[p] = "stopped"
  /\ Main(p, "joining", "exited") \/ Main(p, "forced", "exited")
  /\ UNCHANGED <<shuttingDown, workDone, expired, cancelSent>>

----------------------------------------------------------------------------
(* The environment                                                         *)

\* The process dies; what it held stays out until AckWait is over.
Kill(p) ==
  /\ Alive(p)
  /\ main' = [main EXCEPT ![p] = "killed"]
  /\ run' = [run EXCEPT ![p] = "stopped"]
  /\ hold' = [hold EXCEPT ![p] = NoMsg]
  /\ num' = [num EXCEPT ![p] = 0]
  /\ pc' = [pc EXCEPT ![p] = "none"]
  /\ ret' = [ret EXCEPT ![p] = "none"]
  /\ session' = [session EXCEPT ![p] = FALSE]
  /\ agentBusy' = [agentBusy EXCEPT ![p] = FALSE]
  /\ UNCHANGED <<queueVars, shuttingDown, workDone, expired, cancelSent,
                 sigterm, published, restarts>>

\* A new process in the place of one that ended.
Restart(p) ==
  /\ ~Alive(p)
  /\ restarts < MaxRestarts
  /\ restarts' = restarts + 1
  /\ main' = [main EXCEPT ![p] = "serving"]
  /\ run' = [run EXCEPT ![p] = "poll"]
  /\ sigterm' = [sigterm EXCEPT ![p] = FALSE]
  /\ shuttingDown' = [shuttingDown EXCEPT ![p] = FALSE]
  /\ workDone' = [workDone EXCEPT ![p] = FALSE]
  /\ expired' = [expired EXCEPT ![p] = FALSE]
  /\ cancelSent' = [cancelSent EXCEPT ![p] = FALSE]
  /\ UNCHANGED <<queueVars, hold, num, handleVars, published>>

Expire(m) ==
  /\ AckWaitExpires(m)
  /\ UNCHANGED <<consumerVars, handleVars, shutdownVars, sigterm, published, restarts>>

----------------------------------------------------------------------------

\* Steps of the consumer goroutine that wait for nobody, and the two calls
\* that wait for the agent.
Local(p) ==
  \/ Poll(p) \/ FetchTimeout(p) \/ Acknowledge(p)
  \/ Enter(p) \/ PublishWorking(p) \/ RegisterSession(p) \/ PublishResult(p)
  \/ PublishCompleted(p) \/ Fail(p) \/ DeregisterSession(p) \/ WgDone(p)

Agent(p) == NewSession(p) \/ Prompt(p)

Shutdown(p) ==
  \/ RejectNew(p) \/ AllFinished(p) \/ GraceExpires(p) \/ WorkCancel(p)
  \/ CancelActiveSessions(p) \/ Drained(p) \/ ForceExit(p) \/ Exit(p)

Next ==
  \/ \E p \in Proxies : \/ Local(p) \/ Agent(p) \/ Shutdown(p)
                        \/ Signal(p) \/ Kill(p) \/ Restart(p)
                        \/ \E m \in Msgs : Fetch(p, m)
  \/ \E m \in Msgs : Expire(m)

Spec == Init /\ [][Next]_vars

\* Goroutines that are not blocked run, timers fire, and the calls to the
\* agent return once the work context is done.  The agent need not answer.
ShutdownFair ==
  \A p \in Proxies : /\ WF_vars(Local(p))
                     /\ WF_vars(Shutdown(p))
                     /\ WF_vars(workDone[p] /\ Agent(p))

\* The agent answers, AckWait runs out, and a proxy that keeps fetching is not
\* passed over for ever.
ServiceFair ==
  /\ \A p \in Proxies : WF_vars(Agent(p)) /\ SF_vars(\E m \in Msgs : Fetch(p, m))
  /\ \A m \in Msgs : WF_vars(Expire(m))

FairSpec == Spec /\ ShutdownFair

----------------------------------------------------------------------------
(* Properties                                                              *)

\* Type invariant.
TypeOK ==
  /\ QueueTypeOK
  /\ main \in [Proxies -> {"serving", "waiting", "expired", "cancelling", "draining",
                           "joining", "forced", "exited", "killed"}]
  /\ sigterm \in [Proxies -> BOOLEAN]
  /\ run \in [Proxies -> {"poll", "fetch", "handle", "stopped"}]
  /\ hold \in [Proxies -> Msgs \cup {NoMsg}]
  /\ num \in [Proxies -> 0 .. defaultMaxDeliver]
  /\ pc \in [Proxies -> {"none", "enter", "working", "newSession", "register", "prompt",
                         "result", "completed", "fail", "leave", "done", "settle"}]
  /\ ret \in [Proxies -> {"none", "nil", "err"}]
  /\ session \in [Proxies -> BOOLEAN]
  /\ shuttingDown \in [Proxies -> BOOLEAN]
  /\ workDone \in [Proxies -> BOOLEAN]
  /\ expired \in [Proxies -> BOOLEAN]
  /\ agentBusy \in [Proxies -> BOOLEAN]
  /\ cancelSent \in [Proxies -> BOOLEAN]
  /\ published \subseteq Kinds \X Msgs
  /\ restarts \in 0 .. MaxRestarts

\* A message leaves the queue for good only with its result on NATS, or after
\* its last delivery: no crash, lost acknowledgement, second delivery beside
\* the first or shutdown makes processMessage acknowledge undone work.
SettledWork ==
  \A m \in Msgs :
    /\ qstate[m] = "acked" => <<"result", m>> \in published
    /\ qstate[m] = "termed" => deliveries[m] = defaultMaxDeliver

\* Whoever sees the status "completed" can count on the result having been
\* published, whichever delivery each of them came from.
CompletedHasResult ==
  \A m \in Msgs : <<"completed", m>> \in published => <<"result", m>> \in published

\* handler.go:36: Handle adds to the WaitGroup never after Wait has returned.
\* When Shutdown has returned nil no call is in flight and none starts.
CleanShutdownDrained ==
  \A p \in Proxies : main[p] = "joining" => ~InFlight(p)

\* A call in flight keeps its context until the grace period is over: SIGTERM
\* alone aborts nothing (shutdown.go:28-30).
WorkSurvivesSigterm ==
  \A p \in Proxies : workDone[p] /\ InFlight(p) => expired[p]

\* A proxy that ends by itself has settled what it fetched and left no session
\* in its table; only a killed one leaves a message to AckWait.
GracefulExitSettles ==
  \A p \in Proxies : main[p] = "exited" => hold[p] = NoMsg /\ ~session[p]

\* Where the attempt is that a proxy makes at the message it holds.
Stage(p) ==
  IF pc[p] \in {"fail", "result", "completed"} THEN pc[p]
  ELSE IF pc[p] \in {"leave", "done", "settle"} THEN ret[p] ELSE "working"

Holds(p, m, n) == hold[p] = m /\ num[p] = n

\* The attempts at the deliveries so far: one goes on where a proxy has the
\* message, and is over where none has it any more.
AttemptOf(m, n) ==
  IF n > deliveries[m] THEN "none"
  ELSE IF \E p \in Proxies : Holds(p, m, n) THEN Stage(CHOOSE p \in Proxies : Holds(p, m, n)) ELSE "over"

attemptsNow == [m \in Msgs |-> [n \in 1 .. defaultMaxDeliver |-> AttemptOf(m, n)]]
resultsStored == {m \in Msgs : <<"result", m>> \in published}

Work == INSTANCE Attempts WITH attempt <- attemptsNow, resulted <- resultsStored

\* Whatever becomes of the processes, each delivery is worked on once and by one
\* proxy, by the steps of Attempts in their order, and what settles a message is
\* the return of that attempt (nats.go:142-226, handler.go:79-270).
ImplementsAttempts == Work!AttemptsSpec

\* SIGTERM ends the process although the agent never answers: main waits for
\* the consumer, the consumer for Handle, Handle for the agent, and the grace
\* period breaks the chain.
SigtermExits == \A p \in Proxies : sigterm[p] ~> ~Alive(p)

\* If agents answer and one proxy stays up, every message is acknowledged,
\* terminated or delivered as often as it may be.
EveryMessageSettles ==
  ServiceFair /\ (\E p \in Proxies : <>[](main[p] = "serving" /\ ~sigterm[p])) =>
    \A m \in Msgs : <>[](qstate[m] \in {"acked", "termed"} \/ GivenUp(m))

\* shutdown.go:74: when the grace period expires Shutdown "sends ACP
\* session/cancel for every active session".  No agent that still works on a
\* prompt when the cancels are sent is left out.
ActiveSessionsCancelled ==
  [][\A p \in Proxies : main[p] = "cancelling" /\ main'[p] = "draining" =>
       (agentBusy[p] => cancelSent'[p])]_vars
=============================================================================
