---------------------------- MODULE ProxyProofs ----------------------------
(***************************************************************************)
(* Proofs about the proxy for any number of proxies, messages and starts:  *)
(* what leaves the queue was done or given up, a clean shutdown has        *)
(* drained, SIGTERM alone aborts no work, and the proxies implement        *)
(* Attempts.                                                               *)
(***************************************************************************)
EXTENDS Proxy, TLAPS

Places == {"none", "enter", "working", "newSession", "register", "prompt",
           "result", "completed", "fail", "leave", "done", "settle"}

\* The consumer goroutine: what it holds, and what its place in Handle says
\* about the session table, the result and the delivery count.
ConsumerInv(p) ==
  /\ pc[p] = "none" <=> hold[p] = NoMsg
  /\ pc[p] = "none" <=> run[p] # "handle"
  /\ session[p] => pc[p] \in {"prompt", "fail", "result", "completed", "leave"}
  /\ pc[p] = "completed" \/ ret[p] = "nil" => <<"result", hold[p]>> \in published
  /\ ret[p] = "nil" => pc[p] \in {"leave", "done", "settle"}
  /\ hold[p] # NoMsg => num[p] <= deliveries[hold[p]]

\* The main goroutine: what each phase of the shutdown has established.
MainInv(p) ==
  /\ main[p] = "serving" => ~workDone[p] /\ ~shuttingDown[p]
  /\ Alive(p) /\ main[p] # "serving" => shuttingDown[p]
  /\ main[p] \in {"expired", "cancelling", "draining", "forced"} => expired[p]
  /\ main[p] = "joining" => ~InFlight(p)
  /\ workDone[p] /\ InFlight(p) => expired[p]
  /\ ~Alive(p) => pc[p] = "none"

IInv ==
  /\ TypeOK
  /\ \A p \in Proxies : ConsumerInv(p) /\ MainInv(p)
  /\ SettledWork
  /\ CompletedHasResult

\* The initial state satisfies the invariant.
LEMMA InitIInv == Init => IInv
<1> SUFFICES ASSUME Init PROVE IInv
  BY Zenon
<1> USE DEF Init, QueueInit
<1>1. TypeOK
  BY ProxyAssumption DEF TypeOK, QueueTypeOK, defaultMaxDeliver
<1>2. \A p \in Proxies : ConsumerInv(p) /\ MainInv(p)
  BY Zenon DEF ConsumerInv, MainInv, Alive, InFlight
<1>3. SettledWork /\ CompletedHasResult
  BY Zenon DEF SettledWork, CompletedHasResult
<1>. QED
  BY <1>1, <1>2, <1>3, Zenon DEF IInv

\* A step of one proxy that leaves the queue and the other proxies alone and
\* only adds to what is published keeps what is said of the other proxies.
LEMMA OtherProxies ==
  ASSUME IInv, NEW p \in Proxies,
         UNCHANGED queueVars, published \subseteq published',
         \A q \in Proxies \ {p} :
           /\ main'[q] = main[q] /\ run'[q] = run[q] /\ hold'[q] = hold[q]
           /\ num'[q] = num[q] /\ pc'[q] = pc[q] /\ ret'[q] = ret[q]
           /\ session'[q] = session[q] /\ shuttingDown'[q] = shuttingDown[q]
           /\ workDone'[q] = workDone[q] /\ expired'[q] = expired[q]
  PROVE  /\ \A q \in Proxies \ {p} : ConsumerInv(q)' /\ MainInv(q)'
         /\ SettledWork'
<1>1. qstate' = qstate /\ deliveries' = deliveries
  BY Zenon DEF queueVars
<1>2. SettledWork'
  BY <1>1, Zenon DEF IInv, SettledWork
<1>3. ASSUME NEW q \in Proxies \ {p} PROVE ConsumerInv(q)'
  BY <1>1 DEF IInv, ConsumerInv
<1>4. ASSUME NEW q \in Proxies \ {p} PROVE MainInv(q)'
  BY DEF IInv, MainInv, Alive, InFlight
<1>. QED
  BY <1>2, <1>3, <1>4, Zenon

\* A proxy inside Handle holds a message, and one it was handed.
LEMMA HeldMessage ==
  ASSUME IInv, NEW p \in Proxies, pc[p] # "none"
  PROVE  hold[p] \in Msgs /\ num[p] \in Int /\ num[p] <= deliveries[hold[p]]
<1>1. ConsumerInv(p)
  BY Zenon DEF IInv
<1>2. hold[p] # NoMsg /\ num[p] <= deliveries[hold[p]]
  BY <1>1, Zenon DEF ConsumerInv
<1>3. hold[p] \in Msgs \cup {NoMsg} /\ num[p] \in 0 .. defaultMaxDeliver
  BY Zenon DEF IInv, TypeOK
<1>. QED
  BY <1>2, <1>3 DEF defaultMaxDeliver

----------------------------------------------------------------------------
(* Handle                                                                  *)

\* A step of Handle keeps the invariant if it respects the order of its parts:
\* the result before "completed", nothing added to the WaitGroup once
\* shuttingDown is set, the session registered only while it is in use.
LEMMA HandleStep ==
  ASSUME IInv, NEW p \in Proxies,
         NEW from \in Places \ {"none", "settle"}, NEW to \in Places \ {"none", "enter"},
         Step(p, from, to),
         ret' \in [Proxies -> {"none", "nil", "err"}],
         session' \in [Proxies -> BOOLEAN], agentBusy' \in [Proxies -> BOOLEAN],
         \A q \in Proxies \ {p} : ret'[q] = ret[q] /\ session'[q] = session[q],
         published \subseteq published', published' \subseteq Kinds \X Msgs,
         from = "enter" => to = "settle" \/ ~shuttingDown[p],
         session'[p] => to \in {"prompt", "fail", "result", "completed", "leave"},
         to = "completed" \/ ret'[p] = "nil" => <<"result", hold[p]>> \in published',
         ret'[p] = "nil" => to \in {"leave", "done", "settle"},
         CompletedHasResult'
  PROVE  IInv'
<1>1. /\ qstate' = qstate /\ deliveries' = deliveries
      /\ run' = run /\ hold' = hold /\ num' = num /\ main' = main
      /\ shuttingDown' = shuttingDown /\ workDone' = workDone /\ expired' = expired
      /\ cancelSent' = cancelSent /\ sigterm' = sigterm /\ restarts' = restarts
  BY Zenon DEF Step, queueVars, consumerVars, shutdownVars
<1>2. pc[p] = from /\ pc'[p] = to /\ pc' \in [Proxies -> Places] /\ Alive(p)
      /\ \A q \in Proxies \ {p} : pc'[q] = pc[q]
  BY Zenon DEF Step, IInv, TypeOK, Places
<1>3. TypeOK'
  BY <1>1, <1>2, Zenon DEF IInv, TypeOK, QueueTypeOK, Places
<1>4. /\ \A q \in Proxies \ {p} : ConsumerInv(q)' /\ MainInv(q)'
      /\ SettledWork'
  BY <1>1, <1>2, OtherProxies, Zenon DEF queueVars
<1>5. ConsumerInv(p)'
  BY <1>1, <1>2, Zenon DEF IInv, ConsumerInv
<1>6. MainInv(p)'
  <2>1. main[p] = "joining" => ~InFlight(p)'
    BY <1>2, Zenon DEF IInv, MainInv, InFlight, Alive, Places
  <2>2. workDone[p] /\ InFlight(p)' => expired[p]
    <3>1. CASE from = "enter"
      BY <1>2, <3>1, Zenon DEF IInv, MainInv, InFlight, Alive, Places
    <3>2. CASE from # "enter"
      BY <1>2, <3>2, Zenon DEF IInv, MainInv, InFlight, Places
    <3>. QED
      BY <3>1, <3>2, Zenon
  <2>. QED
    BY <1>1, <1>2, <2>1, <2>2, Zenon DEF IInv, MainInv, Alive
<1>. QED
  BY <1>3, <1>4, <1>5, <1>6, Zenon DEF IInv

\* What PublishJSON adds to what is published.
LEMMA PublishAdds ==
  ASSUME IInv, NEW p \in Proxies, NEW kind \in Kinds, NEW r, pc[p] # "none",
         PublishJSON(p, kind, r)
  PROVE  /\ published \subseteq published' /\ published' \subseteq Kinds \X Msgs
         /\ published' \subseteq published \cup {<<kind, hold[p]>>}
         /\ r = "nil" => <<kind, hold[p]>> \in published'
         /\ hold[p] \in Msgs
<1>1. hold[p] \in Msgs
  BY HeldMessage, Zenon
<1>2. published \subseteq Kinds \X Msgs
  BY Zenon DEF IInv, TypeOK
<1>3. <<kind, hold[p]>> \in Kinds \X Msgs
  BY <1>1, Zenon
<1>4. CASE published' = published \cup {<<kind, hold[p]>>}
  BY <1>1, <1>2, <1>3, <1>4, Zenon
<1>5. CASE published' = published /\ r = "err"
  BY <1>1, <1>2, <1>5, Zenon
<1>. QED
  BY <1>4, <1>5, Zenon DEF PublishJSON

\* Every step of Handle keeps the invariant.
LEMMA HandleInv ==
  ASSUME IInv, NEW p \in Proxies,
         \/ Enter(p) \/ PublishWorking(p) \/ NewSession(p) \/ RegisterSession(p)
         \/ Prompt(p) \/ PublishResult(p) \/ PublishCompleted(p) \/ Fail(p)
         \/ DeregisterSession(p) \/ WgDone(p)
  PROVE  IInv'
<1>0. /\ ret \in [Proxies -> {"none", "nil", "err"}] /\ session \in [Proxies -> BOOLEAN]
      /\ agentBusy \in [Proxies -> BOOLEAN] /\ published \subseteq Kinds \X Msgs
      /\ ConsumerInv(p) /\ CompletedHasResult
  BY Zenon DEF IInv, TypeOK
<1>1. CASE Enter(p)
  <2>1. CompletedHasResult'
    BY <1>0, <1>1, Zenon DEF Enter, CompletedHasResult
  <2>. QED
    BY <1>0, <1>1, <2>1, HandleStep, Zenon DEF Enter, Returns, Places, Step, ConsumerInv
<1>2. CASE PublishWorking(p)
  <2>1. PICK r \in {"nil", "err"} : PublishJSON(p, "working", r)
    BY <1>2, Zenon DEF PublishWorking
  <2>2. pc[p] = "working"
    BY <1>2, Zenon DEF PublishWorking, Step
  <2>3. /\ published \subseteq published' /\ published' \subseteq Kinds \X Msgs
        /\ published' \subseteq published \cup {<<"working", hold[p]>>}
    BY <2>1, <2>2, PublishAdds, Zenon DEF Kinds
  <2>4. CompletedHasResult'
    BY <1>0, <2>3, Zenon DEF CompletedHasResult
  <2>. QED
    BY <1>0, <1>2, <2>2, <2>3, <2>4, HandleStep, Zenon DEF PublishWorking, Places, ConsumerInv
<1>3. CASE NewSession(p)
  <2>1. CompletedHasResult'
    BY <1>0, <1>3, Zenon DEF NewSession, CompletedHasResult
  <2>2. pc[p] = "newSession"
    BY <1>3, Zenon DEF NewSession, Step
  <2>. QED
    BY <1>0, <1>3, <2>1, <2>2, HandleStep, Zenon DEF NewSession, Places, ConsumerInv
<1>4. CASE RegisterSession(p)
  <2>1. CompletedHasResult'
    BY <1>0, <1>4, Zenon DEF RegisterSession, CompletedHasResult
  <2>2. pc[p] = "register"
    BY <1>4, Zenon DEF RegisterSession, Step
  <2>. QED
    BY <1>0, <1>4, <2>1, <2>2, HandleStep, Zenon DEF RegisterSession, Places, ConsumerInv
<1>5. CASE Prompt(p)
  <2>1. CompletedHasResult'
    BY <1>0, <1>5, Zenon DEF Prompt, CompletedHasResult
  <2>2. pc[p] = "prompt"
    BY <1>5, Zenon DEF Prompt, Step
  <2>. QED
    BY <1>0, <1>5, <2>1, <2>2, HandleStep, Zenon DEF Prompt, Places, ConsumerInv
<1>6. CASE PublishResult(p)
  <2>1. pc[p] = "result"
    BY <1>6, Zenon DEF PublishResult, Step
  <2>2. PICK r \in {"nil", "err"} : /\ PublishJSON(p, "result", r)
                                    /\ r = "nil" => Step(p, "result", "completed") /\ ret' = ret
                                    /\ r = "err" => Step(p, "result", "leave") /\ Returns(p, "err")
    BY <1>6, Zenon DEF PublishResult
  <2>3. /\ published \subseteq published' /\ published' \subseteq Kinds \X Msgs
        /\ published' \subseteq published \cup {<<"result", hold[p]>>}
        /\ r = "nil" => <<"result", hold[p]>> \in published'
    BY <2>1, <2>2, PublishAdds, Zenon DEF Kinds
  <2>4. CompletedHasResult'
    BY <1>0, <2>3, Zenon DEF CompletedHasResult
  <2>5. session' = session /\ agentBusy' = agentBusy
    BY <1>6, Zenon DEF PublishResult
  <2>6. CASE r = "nil"
    BY <1>0, <2>1, <2>2, <2>3, <2>4, <2>5, <2>6, HandleStep, Zenon DEF Places, ConsumerInv
  <2>7. CASE r = "err"
    BY <1>0, <2>1, <2>2, <2>3, <2>4, <2>5, <2>7, HandleStep, Zenon DEF Returns, Places, ConsumerInv
  <2>. QED
    BY <2>6, <2>7, Zenon
<1>7. CASE PublishCompleted(p)
  <2>1. PICK r \in {"nil", "err"} : PublishJSON(p, "completed", r)
    BY <1>7, Zenon DEF PublishCompleted
  <2>2. pc[p] = "completed" /\ <<"result", hold[p]>> \in published
    BY <1>0, <1>7, Zenon DEF PublishCompleted, Step, ConsumerInv
  <2>3. /\ published \subseteq published' /\ published' \subseteq Kinds \X Msgs
        /\ published' \subseteq published \cup {<<"completed", hold[p]>>}
    BY <2>1, <2>2, PublishAdds, Zenon DEF Kinds
  <2>4. CompletedHasResult'
    BY <1>0, <2>2, <2>3, Zenon DEF CompletedHasResult
  <2>. QED
    BY <1>0, <1>7, <2>2, <2>3, <2>4, HandleStep, Zenon DEF PublishCompleted, Returns, Places, ConsumerInv
<1>8. CASE Fail(p)
  <2>1. PICK r \in {"nil", "err"} : PublishJSON(p, "failed", r)
    BY <1>8, Zenon DEF Fail
  <2>2. pc[p] = "fail"
    BY <1>8, Zenon DEF Fail, Step
  <2>3. /\ published \subseteq published' /\ published' \subseteq Kinds \X Msgs
        /\ published' \subseteq published \cup {<<"failed", hold[p]>>}
    BY <2>1, <2>2, PublishAdds, Zenon DEF Kinds
  <2>4. CompletedHasResult'
    BY <1>0, <2>3, Zenon DEF CompletedHasResult
  <2>. QED
    BY <1>0, <1>8, <2>2, <2>3, <2>4, HandleStep, Zenon DEF Fail, Returns, Places, ConsumerInv
<1>9. CASE DeregisterSession(p)
  <2>1. CompletedHasResult'
    BY <1>0, <1>9, Zenon DEF DeregisterSession, CompletedHasResult
  <2>. QED
    BY <1>0, <1>9, <2>1, HandleStep, Zenon DEF DeregisterSession, Places, ConsumerInv
<1>10. CASE WgDone(p)
  <2>1. CompletedHasResult'
    BY <1>0, <1>10, Zenon DEF WgDone, CompletedHasResult
  <2>2. pc[p] = "done"
    BY <1>10, Zenon DEF WgDone, Step
  <2>. QED
    BY <1>0, <1>10, <2>1, <2>2, HandleStep, Zenon DEF WgDone, Places, ConsumerInv
<1>. QED
  BY <1>1, <1>2, <1>3, <1>4, <1>5, <1>6, <1>7, <1>8, <1>9, <1>10, Zenon

----------------------------------------------------------------------------
(* The consumer loop                                                       *)

\* Poll and FetchTimeout keep the invariant.
LEMMA PollInv ==
  ASSUME IInv, NEW p \in Proxies, Poll(p) \/ FetchTimeout(p)
  PROVE  IInv'
<1>1. /\ qstate' = qstate /\ deliveries' = deliveries /\ published' = published
      /\ hold' = hold /\ num' = num /\ pc' = pc /\ ret' = ret /\ session' = session
      /\ main' = main /\ agentBusy' = agentBusy
      /\ shuttingDown' = shuttingDown /\ workDone' = workDone /\ expired' = expired
      /\ cancelSent' = cancelSent /\ sigterm' = sigterm /\ restarts' = restarts
  BY Zenon DEF Poll, FetchTimeout, queueVars, handleVars, shutdownVars
<1>2. /\ run[p] # "handle" /\ run'[p] # "handle"
      /\ run' \in [Proxies -> {"poll", "fetch", "handle", "stopped"}]
      /\ \A q \in Proxies \ {p} : run'[q] = run[q]
  BY DEF Poll, FetchTimeout, IInv, TypeOK
<1>3. TypeOK'
  BY <1>1, <1>2, Zenon DEF IInv, TypeOK, QueueTypeOK
<1>4. /\ \A q \in Proxies \ {p} : ConsumerInv(q)' /\ MainInv(q)'
      /\ SettledWork'
  BY <1>1, <1>2, OtherProxies, Zenon DEF queueVars
<1>5. ConsumerInv(p)' /\ MainInv(p)'
  BY <1>1, <1>2, Zenon DEF IInv, ConsumerInv, MainInv, Alive, InFlight
<1>6. CompletedHasResult'
  BY <1>1, Zenon DEF IInv, CompletedHasResult
<1>. QED
  BY <1>3, <1>4, <1>5, <1>6, Zenon DEF IInv

\* Fetch keeps the invariant; its delivery count is the newest one.
LEMMA FetchInv ==
  ASSUME IInv, NEW p \in Proxies, NEW m \in Msgs, Fetch(p, m)
  PROVE  IInv'
<1>0. m # NoMsg
  BY ProxyAssumption, Zenon
<1>1. /\ published' = published /\ ret' = ret /\ session' = session
      /\ main' = main /\ agentBusy' = agentBusy
      /\ shuttingDown' = shuttingDown /\ workDone' = workDone /\ expired' = expired
      /\ cancelSent' = cancelSent /\ sigterm' = sigterm /\ restarts' = restarts
  BY Zenon DEF Fetch, shutdownVars
<1>2. /\ run[p] = "fetch" /\ run'[p] = "handle" /\ hold'[p] = m /\ pc'[p] = "enter"
      /\ num'[p] = deliveries'[m] /\ Alive(p)
      /\ \A q \in Proxies \ {p} : /\ run'[q] = run[q] /\ hold'[q] = hold[q]
                                  /\ num'[q] = num[q] /\ pc'[q] = pc[q]
  BY Zenon DEF Fetch, IInv, TypeOK
<1>3. /\ qstate[m] = "ready" /\ deliveries[m] < defaultMaxDeliver
      /\ qstate' = [qstate EXCEPT ![m] = "out"]
      /\ deliveries' = [deliveries EXCEPT ![m] = @ + 1]
  BY Zenon DEF Fetch, Deliver
<1>4. QueueTypeOK' /\ deliveries'[m] \in 0 .. defaultMaxDeliver
  BY <1>3 DEF IInv, TypeOK, QueueTypeOK, defaultMaxDeliver
<1>5. TypeOK'
  <2>1. /\ run' \in [Proxies -> {"poll", "fetch", "handle", "stopped"}]
        /\ hold' \in [Proxies -> Msgs \cup {NoMsg}]
        /\ pc' \in [Proxies -> Places]
    BY Zenon DEF Fetch, IInv, TypeOK, Places
  <2>2. num' \in [Proxies -> 0 .. defaultMaxDeliver]
    BY <1>4, Zenon DEF Fetch, IInv, TypeOK
  <2>. QED
    BY <1>1, <1>4, <2>1, <2>2, Zenon DEF IInv, TypeOK, Places
<1>6. \A n \in Msgs : deliveries[n] \in Nat /\ deliveries'[n] \in Nat /\ deliveries[n] <= deliveries'[n]
  BY <1>3 DEF IInv, TypeOK, QueueTypeOK
<1>7. ASSUME NEW q \in Proxies \ {p} PROVE ConsumerInv(q)' /\ MainInv(q)'
  <2>1. hold[q] # NoMsg => num[q] <= deliveries'[hold[q]]
    <3>1. ASSUME hold[q] # NoMsg PROVE num[q] <= deliveries'[hold[q]]
      <4>1. pc[q] # "none"
        BY <3>1, Zenon DEF IInv, ConsumerInv
      <4>2. hold[q] \in Msgs /\ num[q] \in Int /\ num[q] <= deliveries[hold[q]]
        BY <4>1, HeldMessage, Zenon
      <4>. QED
        BY <1>6, <4>2
    <3>. QED
      BY <3>1, Zenon
  <2>2. ConsumerInv(q)'
    BY <1>1, <1>2, <2>1 DEF IInv, ConsumerInv
  <2>3. MainInv(q)'
    BY <1>1, <1>2, Zenon DEF IInv, MainInv, Alive, InFlight
  <2>. QED
    BY <2>2, <2>3, Zenon
<1>8. pc[p] = "none" /\ ret[p] # "nil" /\ ~session[p]
  BY <1>2, Zenon DEF IInv, ConsumerInv
<1>9. ConsumerInv(p)'
  BY <1>0, <1>1, <1>2, <1>6, <1>8 DEF ConsumerInv
<1>10. MainInv(p)'
  BY <1>1, <1>2, Zenon DEF IInv, MainInv, Alive, InFlight
<1>11. SettledWork' /\ CompletedHasResult'
  BY <1>1, <1>3, Zenon DEF IInv, TypeOK, QueueTypeOK, SettledWork, CompletedHasResult
<1>. QED
  BY <1>5, <1>7, <1>9, <1>10, <1>11, Zenon DEF IInv

\* Acknowledge keeps the invariant: it acks a result that is published and
\* terminates only a delivery that was the last.
LEMMA AcknowledgeInv ==
  ASSUME IInv, NEW p \in Proxies, Acknowledge(p)
  PROVE  IInv'
<1> DEFINE m == hold[p]
<1>1. /\ published' = published /\ session' = session
      /\ main' = main /\ agentBusy' = agentBusy /\ deliveries' = deliveries
      /\ shuttingDown' = shuttingDown /\ workDone' = workDone /\ expired' = expired
      /\ cancelSent' = cancelSent /\ sigterm' = sigterm /\ restarts' = restarts
  BY Zenon DEF Acknowledge, shutdownVars, Ack, Nak, Term, Settle
<1>2. /\ pc[p] = "settle" /\ Alive(p) /\ run'[p] = "poll" /\ hold'[p] = NoMsg
      /\ num'[p] = 0 /\ pc'[p] = "none" /\ ret'[p] = "none"
      /\ \A q \in Proxies \ {p} : /\ run'[q] = run[q] /\ hold'[q] = hold[q] /\ ret'[q] = ret[q]
                                  /\ num'[q] = num[q] /\ pc'[q] = pc[q]
  BY DEF Acknowledge, IInv, TypeOK
<1>3. m \in Msgs /\ num[p] <= deliveries[m] /\ num[p] \in Int /\ ~session[p]
  BY <1>2, HeldMessage, Zenon DEF IInv, ConsumerInv
<1>4. \/ ret[p] = "nil" /\ qstate' = [qstate EXCEPT ![m] = "acked"]
      \/ num[p] >= defaultMaxDeliver /\ qstate' = [qstate EXCEPT ![m] = "termed"]
      \/ qstate[m] \in {"ready", "out"} /\ qstate' = [qstate EXCEPT ![m] = "ready"]
      \/ qstate' = qstate
  BY Zenon DEF Acknowledge, Ack, Nak, Term, Settle
<1>5. SettledWork'
  <2>1. ret[p] = "nil" => <<"result", m>> \in published
    BY Zenon DEF IInv, ConsumerInv
  <2>2. num[p] >= defaultMaxDeliver => deliveries[m] = defaultMaxDeliver
    BY <1>3 DEF IInv, TypeOK, QueueTypeOK, defaultMaxDeliver
  <2>3. qstate \in [Msgs -> {"ready", "out", "acked", "termed"}] /\ SettledWork
    BY Zenon DEF IInv, TypeOK, QueueTypeOK
  <2>4. \A n \in Msgs \ {m} : qstate'[n] = qstate[n]
    BY <1>4, <2>3, Zenon
  <2>5. \/ qstate'[m] = "acked" /\ ret[p] = "nil"
        \/ qstate'[m] = "termed" /\ num[p] >= defaultMaxDeliver
        \/ qstate'[m] = "ready"
        \/ qstate'[m] = qstate[m]
    BY <1>3, <1>4, <2>3, Zenon
  <2>. QED
    BY <1>1, <2>1, <2>2, <2>3, <2>4, <2>5, Zenon DEF SettledWork
<1>6. TypeOK'
  <2>1. qstate' \in [Msgs -> {"ready", "out", "acked", "termed"}]
    BY <1>4 DEF IInv, TypeOK, QueueTypeOK
  <2>2. /\ run' \in [Proxies -> {"poll", "fetch", "handle", "stopped"}]
        /\ hold' \in [Proxies -> Msgs \cup {NoMsg}]
        /\ ret' \in [Proxies -> {"none", "nil", "err"}]
        /\ pc' \in [Proxies -> Places]
    BY Zenon DEF Acknowledge, IInv, TypeOK, Places
  <2>3. num' \in [Proxies -> 0 .. defaultMaxDeliver]
    BY DEF Acknowledge, IInv, TypeOK, defaultMaxDeliver
  <2>. QED
    BY <1>1, <2>1, <2>2, <2>3, Zenon DEF IInv, TypeOK, QueueTypeOK, Places
<1>7. ASSUME NEW q \in Proxies \ {p} PROVE ConsumerInv(q)' /\ MainInv(q)'
  BY <1>1, <1>2 DEF IInv, ConsumerInv, MainInv, Alive, InFlight
<1>8. ConsumerInv(p)' /\ MainInv(p)'
  BY <1>1, <1>2, <1>3, Zenon DEF IInv, ConsumerInv, MainInv, Alive, InFlight
<1>9. CompletedHasResult'
  BY <1>1, Zenon DEF IInv, CompletedHasResult
<1>. QED
  BY <1>5, <1>6, <1>7, <1>8, <1>9, Zenon DEF IInv

----------------------------------------------------------------------------
(* main, the signals and the queue                                         *)

\* A step of main, or of the environment on one process, keeps the invariant
\* if the goroutines of that process keep theirs.
LEMMA MainStep ==
  ASSUME IInv, NEW p \in Proxies,
         UNCHANGED <<queueVars, published>>, TypeOK',
         \A q \in Proxies \ {p} :
           /\ main'[q] = main[q] /\ run'[q] = run[q] /\ hold'[q] = hold[q]
           /\ num'[q] = num[q] /\ pc'[q] = pc[q] /\ ret'[q] = ret[q]
           /\ session'[q] = session[q] /\ shuttingDown'[q] = shuttingDown[q]
           /\ workDone'[q] = workDone[q] /\ expired'[q] = expired[q],
         ConsumerInv(p)', MainInv(p)'
  PROVE  IInv'
<1>1. /\ \A q \in Proxies \ {p} : ConsumerInv(q)' /\ MainInv(q)'
      /\ SettledWork'
  BY OtherProxies, Zenon
<1>2. CompletedHasResult'
  BY Zenon DEF IInv, CompletedHasResult
<1>. QED
  BY <1>1, <1>2, Zenon DEF IInv

\* What a step of main leaves alone, and what it does to the place of main.
LEMMA MainFrame ==
  ASSUME IInv, NEW p \in Proxies, NEW from, NEW to, Main(p, from, to)
  PROVE  /\ qstate' = qstate /\ deliveries' = deliveries /\ published' = published
         /\ run' = run /\ hold' = hold /\ num' = num /\ pc' = pc /\ ret' = ret
         /\ session' = session /\ agentBusy' = agentBusy
         /\ sigterm' = sigterm /\ restarts' = restarts
         /\ main[p] = from /\ main'[p] = to
         /\ \A q \in Proxies \ {p} : main'[q] = main[q]
         /\ ConsumerInv(p)' /\ MainInv(p)
         /\ InFlight(p)' <=> InFlight(p)
<1>1. /\ qstate' = qstate /\ deliveries' = deliveries /\ published' = published
      /\ run' = run /\ hold' = hold /\ num' = num /\ pc' = pc /\ ret' = ret
      /\ session' = session /\ agentBusy' = agentBusy
      /\ sigterm' = sigterm /\ restarts' = restarts
  BY Zenon DEF Main, queueVars, consumerVars, handleVars
<1>2. /\ main[p] = from /\ main'[p] = to
      /\ \A q \in Proxies \ {p} : main'[q] = main[q]
  BY Zenon DEF Main, IInv, TypeOK
<1>3. ConsumerInv(p)' /\ MainInv(p)
  BY <1>1, Zenon DEF IInv, ConsumerInv
<1>. QED
  BY <1>1, <1>2, <1>3, Zenon DEF InFlight

\* Every phase of the shutdown keeps the invariant.
LEMMA ShutdownInv ==
  ASSUME IInv, NEW p \in Proxies, Shutdown(p)
  PROVE  IInv'
<1> DEFINE Mains == {"serving", "waiting", "expired", "cancelling", "draining",
                     "joining", "forced", "exited", "killed"}
<1>1. PICK from \in Mains \ {"exited", "killed"}, to \in Mains \ {"serving", "killed"} :
        Main(p, from, to)
  BY Zenon DEF Shutdown, RejectNew, AllFinished, GraceExpires, WorkCancel,
         CancelActiveSessions, Drained, ForceExit, Exit
<1>2. /\ qstate' = qstate /\ deliveries' = deliveries /\ published' = published
      /\ run' = run /\ hold' = hold /\ num' = num /\ pc' = pc /\ ret' = ret
      /\ session' = session /\ agentBusy' = agentBusy
      /\ sigterm' = sigterm /\ restarts' = restarts
      /\ main[p] = from /\ main'[p] = to
      /\ \A q \in Proxies \ {p} : main'[q] = main[q]
      /\ ConsumerInv(p)' /\ MainInv(p)
      /\ InFlight(p)' <=> InFlight(p)
  BY <1>1, MainFrame, Zenon
<1>3. /\ shuttingDown' \in [Proxies -> BOOLEAN] /\ workDone' \in [Proxies -> BOOLEAN]
      /\ expired' \in [Proxies -> BOOLEAN] /\ cancelSent' \in [Proxies -> BOOLEAN]
      /\ \A q \in Proxies \ {p} : /\ shuttingDown'[q] = shuttingDown[q]
                                  /\ workDone'[q] = workDone[q] /\ expired'[q] = expired[q]
  <2>1. /\ shuttingDown \in [Proxies -> BOOLEAN] /\ workDone \in [Proxies -> BOOLEAN]
        /\ expired \in [Proxies -> BOOLEAN] /\ cancelSent \in [Proxies -> BOOLEAN]
        /\ session[p] \in BOOLEAN
    BY Zenon DEF IInv, TypeOK
  <2>2. /\ shuttingDown' = shuttingDown \/ shuttingDown' = [shuttingDown EXCEPT ![p] = TRUE]
        /\ workDone' = workDone \/ workDone' = [workDone EXCEPT ![p] = TRUE]
        /\ expired' = expired \/ expired' = [expired EXCEPT ![p] = TRUE]
        /\ cancelSent' = cancelSent \/ cancelSent' = [cancelSent EXCEPT ![p] = session[p]]
    BY Zenon DEF Shutdown, RejectNew, AllFinished, GraceExpires, WorkCancel,
           CancelActiveSessions, Drained, ForceExit, Exit
  <2>. QED
    BY <2>1, <2>2, Zenon
<1>4. TypeOK'
  <2>1. main' \in [Proxies -> Mains]
    BY <1>1, Zenon DEF Main, IInv, TypeOK
  <2>. QED
    BY <1>2, <1>3, <2>1, Zenon DEF IInv, TypeOK, QueueTypeOK
<1>5. MainInv(p)'
  <2>0. /\ shuttingDown \in [Proxies -> BOOLEAN] /\ workDone \in [Proxies -> BOOLEAN]
        /\ expired \in [Proxies -> BOOLEAN] /\ main \in [Proxies -> Mains] /\ ConsumerInv(p)
    BY Zenon DEF IInv, TypeOK
  <2> USE <1>2, <2>0 DEF MainInv, Alive
  <2>1. CASE RejectNew(p)
    <3>1. main[p] = "serving" /\ main'[p] = "waiting"
      BY ONLY <2>1, <2>0, p \in Proxies, Zenon DEF RejectNew, Main
    <3>2. shuttingDown'[p] /\ workDone'[p] = workDone[p] /\ expired'[p] = expired[p]
      BY ONLY <2>1, <2>0, p \in Proxies, Zenon DEF RejectNew
    <3>. QED
      BY <3>1, <3>2, Zenon
  <2>2. CASE AllFinished(p)
    <3>1. main[p] = "waiting" /\ main'[p] = "joining"
      BY ONLY <2>2, <2>0, p \in Proxies, Zenon DEF AllFinished, Main
    <3>2. /\ workDone'[p] /\ ~InFlight(p)
          /\ shuttingDown'[p] = shuttingDown[p] /\ expired'[p] = expired[p]
      BY ONLY <2>2, <2>0, p \in Proxies, Zenon DEF AllFinished
    <3>. QED
      BY <3>1, <3>2, Zenon
  <2>3. CASE GraceExpires(p)
    <3>1. main[p] = "waiting" /\ main'[p] = "expired"
      BY ONLY <2>3, <2>0, p \in Proxies, Zenon DEF GraceExpires, Main
    <3>2. expired'[p] /\ shuttingDown'[p] = shuttingDown[p] /\ workDone'[p] = workDone[p]
      BY ONLY <2>3, <2>0, p \in Proxies, Zenon DEF GraceExpires
    <3>. QED
      BY <3>1, <3>2, Zenon
  <2>4. CASE WorkCancel(p)
    <3>1. main[p] = "expired" /\ main'[p] = "cancelling"
      BY ONLY <2>4, <2>0, p \in Proxies, Zenon DEF WorkCancel, Main
    <3>2. workDone'[p] /\ shuttingDown'[p] = shuttingDown[p] /\ expired'[p] = expired[p]
      BY ONLY <2>4, <2>0, p \in Proxies, Zenon DEF WorkCancel
    <3>. QED
      BY <3>1, <3>2, Zenon
  <2>5. CASE CancelActiveSessions(p)
    <3>1. main[p] = "cancelling" /\ main'[p] = "draining"
      BY ONLY <2>5, <2>0, p \in Proxies, Zenon DEF CancelActiveSessions, Main
    <3>2. /\ shuttingDown'[p] = shuttingDown[p]
          /\ workDone'[p] = workDone[p] /\ expired'[p] = expired[p]
      BY ONLY <2>5, <2>0, p \in Proxies, Zenon DEF CancelActiveSessions
    <3>. QED
      BY <3>1, <3>2, Zenon
  <2>6. CASE Drained(p)
    <3>1. main[p] = "draining" /\ main'[p] = "joining"
      BY ONLY <2>6, <2>0, p \in Proxies, Zenon DEF Drained, Main
    <3>2. /\ ~InFlight(p) /\ shuttingDown'[p] = shuttingDown[p]
          /\ workDone'[p] = workDone[p] /\ expired'[p] = expired[p]
      BY ONLY <2>6, <2>0, p \in Proxies, Zenon DEF Drained
    <3>. QED
      BY <3>1, <3>2, Zenon
  <2>7. CASE ForceExit(p)
    <3>1. main[p] = "draining" /\ main'[p] = "forced"
      BY ONLY <2>7, <2>0, p \in Proxies, Zenon DEF ForceExit, Main
    <3>2. /\ shuttingDown'[p] = shuttingDown[p]
          /\ workDone'[p] = workDone[p] /\ expired'[p] = expired[p]
      BY ONLY <2>7, <2>0, p \in Proxies, Zenon DEF ForceExit
    <3>. QED
      BY <3>1, <3>2, Zenon
  <2>8. CASE Exit(p)
    <3>0. run[p] = "stopped" /\ main' = [main EXCEPT ![p] = "exited"]
      BY <2>8, Zenon DEF Exit, Main
    <3>1. pc[p] = "none" /\ main'[p] = "exited"
      <4>1. main \in [Proxies -> Mains]
        BY Zenon DEF IInv, TypeOK
      <4>2. pc[p] = "none"
        BY <3>0, Zenon DEF ConsumerInv
      <4>. QED
        BY <3>0, <4>1, <4>2, Zenon
    <3>2. shuttingDown' = shuttingDown /\ workDone' = workDone /\ expired' = expired
      BY <2>8, Zenon DEF Exit
    <3>. QED
      BY <3>1, <3>2, Zenon DEF InFlight
  <2>. QED
    BY <2>1, <2>2, <2>3, <2>4, <2>5, <2>6, <2>7, <2>8, Zenon DEF Shutdown
<1>. QED
  BY <1>2, <1>3, <1>4, <1>5, MainStep, Zenon DEF queueVars

\* A signal, a crash and a new start keep the invariant.
LEMMA ProcessInv ==
  ASSUME IInv, NEW p \in Proxies, Signal(p) \/ Kill(p) \/ Restart(p)
  PROVE  IInv'
<1>0. ConsumerInv(p) /\ MainInv(p)
  BY Zenon DEF IInv
<1>1. CASE Signal(p)
  <2>1. TypeOK'
    BY <1>1, Zenon DEF Signal, IInv, TypeOK, QueueTypeOK, queueVars, consumerVars, handleVars, shutdownVars
  <2>2. ConsumerInv(p)' /\ MainInv(p)'
    BY <1>0, <1>1, Zenon DEF Signal, ConsumerInv, MainInv, Alive, InFlight,
                      queueVars, consumerVars, handleVars, shutdownVars
  <2>. QED
    BY <1>1, <2>1, <2>2, MainStep, Zenon DEF Signal, consumerVars, handleVars, shutdownVars
<1>2. CASE Kill(p)
  <2>1. /\ main'[p] = "killed" /\ run'[p] = "stopped" /\ hold'[p] = NoMsg /\ num'[p] = 0
        /\ pc'[p] = "none" /\ ret'[p] = "none" /\ ~session'[p]
    BY <1>2 DEF Kill, IInv, TypeOK
  <2>2. TypeOK'
    <3>1. QueueTypeOK'
      BY <1>2, Zenon DEF Kill, IInv, TypeOK, QueueTypeOK, queueVars
    <3>2. num' \in [Proxies -> 0 .. defaultMaxDeliver]
      BY <1>2 DEF Kill, IInv, TypeOK, defaultMaxDeliver
    <3>. QED
      BY <1>2, <3>1, <3>2, Zenon DEF Kill, IInv, TypeOK
  <2>3. ConsumerInv(p)' /\ MainInv(p)'
    BY <2>1, Zenon DEF ConsumerInv, MainInv, Alive, InFlight
  <2>4. \A q \in Proxies \ {p} :
           /\ main'[q] = main[q] /\ run'[q] = run[q] /\ hold'[q] = hold[q]
           /\ num'[q] = num[q] /\ pc'[q] = pc[q] /\ ret'[q] = ret[q]
           /\ session'[q] = session[q] /\ shuttingDown'[q] = shuttingDown[q]
           /\ workDone'[q] = workDone[q] /\ expired'[q] = expired[q]
    BY <1>2, Zenon DEF Kill, IInv, TypeOK
  <2>5. UNCHANGED <<queueVars, published>>
    BY <1>2, Zenon DEF Kill
  <2>. QED
    BY <2>2, <2>3, <2>4, <2>5, MainStep, Zenon
<1>3. CASE Restart(p)
  <2>1. /\ main'[p] = "serving" /\ run'[p] = "poll" /\ ~shuttingDown'[p] /\ ~workDone'[p]
        /\ hold' = hold /\ num' = num /\ pc' = pc /\ ret' = ret /\ session' = session
        /\ agentBusy' = agentBusy /\ deliveries' = deliveries /\ published' = published
    BY <1>3 DEF Restart, IInv, TypeOK, handleVars, queueVars
  <2>2. TypeOK'
    <3>1. QueueTypeOK'
      BY <1>3, Zenon DEF Restart, IInv, TypeOK, QueueTypeOK, queueVars
    <3>2. restarts' \in 0 .. MaxRestarts
      BY <1>3, ProxyAssumption DEF Restart, IInv, TypeOK
    <3>. QED
      BY <1>3, <2>1, <3>1, <3>2, Zenon DEF Restart, IInv, TypeOK
  <2>3. pc[p] = "none"
    BY <1>0, <1>3, Zenon DEF Restart, MainInv
  <2>4. ConsumerInv(p)' /\ MainInv(p)'
    BY <1>0, <2>1, <2>3, Zenon DEF ConsumerInv, MainInv, Alive, InFlight
  <2>5. \A q \in Proxies \ {p} :
           /\ main'[q] = main[q] /\ run'[q] = run[q] /\ hold'[q] = hold[q]
           /\ num'[q] = num[q] /\ pc'[q] = pc[q] /\ ret'[q] = ret[q]
           /\ session'[q] = session[q] /\ shuttingDown'[q] = shuttingDown[q]
           /\ workDone'[q] = workDone[q] /\ expired'[q] = expired[q]
    BY <1>3, <2>1 DEF Restart, IInv, TypeOK
  <2>6. UNCHANGED <<queueVars, published>>
    BY <1>3, Zenon DEF Restart
  <2>. QED
    BY <2>2, <2>4, <2>5, <2>6, MainStep
<1>. QED
  BY <1>1, <1>2, <1>3, Zenon

\* The end of AckWait, and a step that changes nothing, keep the invariant.
LEMMA ExpireInv ==
  ASSUME IInv, NEW m \in Msgs, Expire(m)
  PROVE  IInv'
<1>1. /\ deliveries' = deliveries /\ published' = published
      /\ run' = run /\ hold' = hold /\ num' = num /\ pc' = pc /\ ret' = ret
      /\ session' = session /\ agentBusy' = agentBusy
      /\ main' = main /\ shuttingDown' = shuttingDown /\ workDone' = workDone
      /\ expired' = expired /\ cancelSent' = cancelSent
      /\ sigterm' = sigterm /\ restarts' = restarts
  BY Zenon DEF Expire, AckWaitExpires, consumerVars, handleVars, shutdownVars
<1>2. qstate' = [qstate EXCEPT ![m] = "ready"]
  BY Zenon DEF Expire, AckWaitExpires
<1>3. QueueTypeOK' /\ SettledWork'
  BY <1>1, <1>2, Zenon DEF IInv, TypeOK, QueueTypeOK, SettledWork
<1>4. TypeOK' /\ CompletedHasResult'
  BY <1>1, <1>3, Zenon DEF IInv, TypeOK, CompletedHasResult
<1>5. \A p \in Proxies : ConsumerInv(p)' /\ MainInv(p)'
  BY <1>1 DEF IInv, ConsumerInv, MainInv, Alive, InFlight
<1>. QED
  BY <1>3, <1>4, <1>5, Zenon DEF IInv

\* A stuttering step keeps the invariant.
LEMMA StutterInv ==
  ASSUME IInv, UNCHANGED vars
  PROVE  IInv'
<1>1. /\ qstate' = qstate /\ deliveries' = deliveries /\ published' = published
      /\ run' = run /\ hold' = hold /\ num' = num /\ pc' = pc /\ ret' = ret
      /\ session' = session /\ agentBusy' = agentBusy
      /\ main' = main /\ shuttingDown' = shuttingDown /\ workDone' = workDone
      /\ expired' = expired /\ cancelSent' = cancelSent
      /\ sigterm' = sigterm /\ restarts' = restarts
  BY Zenon DEF vars, queueVars, consumerVars, handleVars, shutdownVars
<1>2. TypeOK' /\ SettledWork' /\ CompletedHasResult'
  BY <1>1, Zenon DEF IInv, TypeOK, QueueTypeOK, SettledWork, CompletedHasResult
<1>3. \A p \in Proxies : ConsumerInv(p)' /\ MainInv(p)'
  BY <1>1 DEF IInv, ConsumerInv, MainInv, Alive, InFlight
<1>. QED
  BY <1>2, <1>3, Zenon DEF IInv

\* IInv is inductive.
LEMMA NextIInv == IInv /\ [Next]_vars => IInv'
<1> SUFFICES ASSUME IInv, [Next]_vars PROVE IInv'
  BY Zenon
<1>1. ASSUME NEW p \in Proxies, Local(p) \/ Agent(p) PROVE IInv'
  BY <1>1, PollInv, AcknowledgeInv, HandleInv, Zenon DEF Local, Agent
<1>2. ASSUME NEW p \in Proxies, Shutdown(p) PROVE IInv'
  BY <1>2, ShutdownInv, Zenon
<1>3. ASSUME NEW p \in Proxies, Signal(p) \/ Kill(p) \/ Restart(p) PROVE IInv'
  BY <1>3, ProcessInv, Zenon
<1>4. ASSUME NEW p \in Proxies, NEW m \in Msgs, Fetch(p, m) PROVE IInv'
  BY <1>4, FetchInv, Zenon
<1>5. ASSUME NEW m \in Msgs, Expire(m) PROVE IInv'
  BY <1>5, ExpireInv
<1>6. ASSUME UNCHANGED vars PROVE IInv'
  BY <1>6, StutterInv, Zenon
<1>. QED
  BY <1>1, <1>2, <1>3, <1>4, <1>5, <1>6, Zenon DEF Next

\* IInv holds in every reachable state of the proxy.
LEMMA AlwaysIInv == Spec => []IInv
  BY InitIInv, NextIInv, PTL DEF Spec

----------------------------------------------------------------------------
(* The theorems                                                            *)

\* The variables of the proxies and the queue keep their types.
THEOREM ProxyTypes == Spec => []TypeOK
<1>1. IInv => TypeOK
  BY Zenon DEF IInv
<1>. QED
  BY <1>1, AlwaysIInv, PTL

\* processMessage acknowledges a message only when its result is on NATS, and
\* terminates it only after its last delivery.
THEOREM QueueSettlesWork == Spec => []SettledWork
<1>1. IInv => SettledWork
  BY Zenon DEF IInv
<1>. QED
  BY <1>1, AlwaysIInv, PTL

\* Handle publishes "completed" only for a message whose result is on NATS.
THEOREM CompletedFollowsResult == Spec => []CompletedHasResult
<1>1. IInv => CompletedHasResult
  BY Zenon DEF IInv
<1>. QED
  BY <1>1, AlwaysIInv, PTL

\* When Shutdown has returned nil, Handle is not and will not be in flight.
THEOREM ShutdownDrains == Spec => []CleanShutdownDrained
<1>1. IInv => CleanShutdownDrained
  BY Zenon DEF IInv, MainInv, CleanShutdownDrained
<1>. QED
  BY <1>1, AlwaysIInv, PTL

\* A call in flight loses its context only when the grace period is over.
THEOREM SigtermKeepsWork == Spec => []WorkSurvivesSigterm
<1>1. IInv => WorkSurvivesSigterm
  BY Zenon DEF IInv, MainInv, WorkSurvivesSigterm
<1>. QED
  BY <1>1, AlwaysIInv, PTL

\* A proxy that ended by itself holds no message and no session.
THEOREM ExitSettles == Spec => []GracefulExitSettles
<1>1. IInv => GracefulExitSettles
  <2> SUFFICES ASSUME IInv, NEW p \in Proxies, main[p] = "exited"
               PROVE  hold[p] = NoMsg /\ ~session[p]
    BY Zenon DEF GracefulExitSettles
  <2>1. ConsumerInv(p) /\ MainInv(p)
    BY Zenon DEF IInv
  <2>2. pc[p] = "none"
    BY <2>1, Zenon DEF MainInv, Alive
  <2>. QED
    BY <2>1, <2>2, Zenon DEF ConsumerInv
<1>. QED
  BY <1>1, AlwaysIInv, PTL
----------------------------------------------------------------------------
(* The proxies implement Attempts                                          *)

\* A delivery is held by one proxy at most, and a call of Handle that is over has
\* returned something.
WorkInv ==
  /\ \A p, q \in Proxies : hold[p] # NoMsg /\ hold[q] = hold[p] /\ num[q] = num[p] => p = q
  /\ \A p \in Proxies : hold[p] # NoMsg => num[p] \in 1 .. defaultMaxDeliver
  /\ \A p \in Proxies : pc[p] \in {"leave", "done", "settle"} => ret[p] \in {"nil", "err"}

\* What the steps of Handle do to what a proxy holds, and to what it returns.
LEMMA HandleShape ==
  ASSUME NEW p \in Proxies, IInv,
         \/ Enter(p) \/ PublishWorking(p) \/ NewSession(p) \/ RegisterSession(p) \/ Prompt(p)
         \/ PublishResult(p) \/ PublishCompleted(p) \/ Fail(p) \/ DeregisterSession(p) \/ WgDone(p)
  PROVE  /\ UNCHANGED <<hold, num, qstate, deliveries>> /\ pc[p] # "none"
         /\ \A q \in Proxies \ {p} : pc'[q] = pc[q] /\ ret'[q] = ret[q]
         /\ pc'[p] \in {"leave", "done", "settle"} => ret'[p] \in {"nil", "err"} \/ (ret'[p] = ret[p] /\ pc[p] \in {"leave", "done"})
<1> USE DEF IInv, TypeOK
<1>1. \E from, to \in Places \ {"none"} : Step(p, from, to)
  BY Zenon DEF Places, Enter, PublishWorking, NewSession, RegisterSession, Prompt, PublishResult, PublishCompleted, Fail,
     DeregisterSession, WgDone
<1>2. /\ UNCHANGED <<hold, num, qstate, deliveries>> /\ pc[p] # "none"
      /\ \A q \in Proxies \ {p} : pc'[q] = pc[q]
  BY <1>1, Zenon DEF Step, consumerVars, queueVars
<1>3. ret' = ret \/ \E r \in {"nil", "err"} : ret' = [ret EXCEPT ![p] = r]
  BY Zenon DEF Enter, PublishWorking, NewSession, RegisterSession, Prompt, PublishResult, PublishCompleted, Fail,
     DeregisterSession, WgDone, Returns
<1>4. pc'[p] \in {"leave", "done", "settle"} => ret'[p] \in {"nil", "err"} \/ (ret'[p] = ret[p] /\ pc[p] \in {"leave", "done"})
  <2>1. CASE Enter(p)
    BY <2>1 DEF Enter, Step, Returns
  <2>2. CASE PublishWorking(p) \/ NewSession(p) \/ RegisterSession(p) \/ Prompt(p)
    <3>1. pc'[p] \in {"newSession", "register", "prompt", "fail", "result"}
      BY <2>2 DEF PublishWorking, NewSession, RegisterSession, Prompt, Step
    <3> QED
      BY <3>1, Zenon
  <2>3. CASE PublishResult(p)
    BY <2>3 DEF PublishResult, Step, Returns
  <2>4. CASE PublishCompleted(p) \/ Fail(p)
    BY <2>4 DEF PublishCompleted, Fail, Returns
  <2>5. CASE DeregisterSession(p) \/ WgDone(p)
    BY <2>5, Zenon DEF DeregisterSession, WgDone, Step
  <2> QED
    BY <2>1, <2>2, <2>3, <2>4, <2>5, Zenon
<1> QED
  BY <1>2, <1>3, <1>4, Zenon

\* Steps that neither fetch, settle, run Handle nor kill.
LEMMA IdleShape ==
  ASSUME NEW p \in Proxies, IInv, Poll(p) \/ FetchTimeout(p) \/ Shutdown(p) \/ Signal(p) \/ Restart(p)
  PROVE  UNCHANGED <<hold, num, pc, ret, qstate, deliveries, published>>
<1>1. CASE Poll(p) \/ FetchTimeout(p) \/ Signal(p) \/ Restart(p)
  BY <1>1, Zenon DEF Poll, FetchTimeout, Signal, Restart, queueVars, consumerVars, handleVars
<1>2. CASE Shutdown(p)
  <2>1. \E from, to : Main(p, from, to)
    BY <1>2, Zenon DEF Shutdown, RejectNew, AllFinished, GraceExpires, WorkCancel, CancelActiveSessions, Drained, ForceExit, Exit
  <2> QED
    BY <2>1, Zenon DEF Main, queueVars, consumerVars, handleVars
<1> QED
  BY <1>1, <1>2, Zenon

\* The steps, one by one.
LEMMA ProxySteps ==
  ASSUME [Next]_vars
  PROVE  \/ UNCHANGED vars \/ \E m \in Msgs : Expire(m)
         \/ \E p \in Proxies :
              \/ Poll(p) \/ FetchTimeout(p) \/ Shutdown(p) \/ Signal(p) \/ Restart(p)
              \/ Enter(p) \/ PublishWorking(p) \/ NewSession(p) \/ RegisterSession(p) \/ Prompt(p)
              \/ PublishResult(p) \/ PublishCompleted(p) \/ Fail(p) \/ DeregisterSession(p) \/ WgDone(p)
              \/ Acknowledge(p) \/ Kill(p) \/ \E m \in Msgs : Fetch(p, m)
BY Zenon DEF Next, Local, Agent

\* What becomes of a message that is fetched: its delivery is a new one.
LEMMA FetchShape ==
  ASSUME NEW p \in Proxies, NEW m \in Msgs, IInv, Fetch(p, m)
  PROVE  /\ hold[p] = NoMsg /\ hold'[p] = m /\ num'[p] = deliveries[m] + 1 /\ pc'[p] = "enter" /\ ret' = ret
         /\ \A q \in Proxies \ {p} : hold'[q] = hold[q] /\ num'[q] = num[q] /\ pc'[q] = pc[q]
         /\ deliveries[m] \in 0 .. 2 /\ deliveries' = [deliveries EXCEPT ![m] = @ + 1] /\ published' = published
<1>1. pc[p] = "none" /\ hold[p] = NoMsg
  BY Zenon DEF Fetch, IInv, ConsumerInv
<1>2. deliveries[m] \in 0 .. 2 /\ deliveries' = [deliveries EXCEPT ![m] = @ + 1]
  BY DEF Fetch, Deliver, IInv, TypeOK, QueueTypeOK, defaultMaxDeliver
<1>3. deliveries'[m] = deliveries[m] + 1
  BY <1>2, Zenon DEF IInv, TypeOK, QueueTypeOK
<1> QED
  BY <1>1, <1>2, <1>3, Zenon DEF Fetch, IInv, TypeOK

\* A message that is settled, and one whose proxy is killed, is held no more.
LEMMA ReleaseShape ==
  ASSUME NEW p \in Proxies, IInv, Acknowledge(p) \/ Kill(p)
  PROVE  /\ hold'[p] = NoMsg /\ pc'[p] = "none" /\ deliveries' = deliveries /\ published' = published
         /\ \A q \in Proxies \ {p} : hold'[q] = hold[q] /\ num'[q] = num[q] /\ pc'[q] = pc[q] /\ ret'[q] = ret[q]
BY DEF Acknowledge, Kill, Ack, Nak, Term, Settle, queueVars, IInv, TypeOK

LEMMA WorkStep == IInv /\ WorkInv /\ [Next]_vars => WorkInv'
<1> SUFFICES ASSUME IInv, WorkInv, [Next]_vars PROVE WorkInv'
  BY Zenon
<1>1. CASE UNCHANGED <<hold, num, pc, ret>>
  BY <1>1, Zenon DEF WorkInv
<1>2. ASSUME NEW m \in Msgs, Expire(m) PROVE UNCHANGED <<hold, num, pc, ret>>
  BY <1>2, Zenon DEF Expire, consumerVars, handleVars
<1>3. UNCHANGED vars => UNCHANGED <<hold, num, pc, ret>>
  BY Zenon DEF vars, consumerVars, handleVars
<1>4. ASSUME NEW p \in Proxies,
             \/ Enter(p) \/ PublishWorking(p) \/ NewSession(p) \/ RegisterSession(p) \/ Prompt(p)
             \/ PublishResult(p) \/ PublishCompleted(p) \/ Fail(p) \/ DeregisterSession(p) \/ WgDone(p)
      PROVE  WorkInv'
  <2>1. /\ UNCHANGED <<hold, num>>
        /\ \A q \in Proxies \ {p} : pc'[q] = pc[q] /\ ret'[q] = ret[q]
        /\ pc'[p] \in {"leave", "done", "settle"} => ret'[p] \in {"nil", "err"} \/ (ret'[p] = ret[p] /\ pc[p] \in {"leave", "done"})
    BY <1>4, HandleShape, Zenon
  <2> QED
    BY <2>1, Zenon DEF WorkInv
<1>5. ASSUME NEW p \in Proxies, NEW m \in Msgs, Fetch(p, m) PROVE WorkInv'
  <2>1. /\ hold[p] = NoMsg /\ hold'[p] = m /\ num'[p] = deliveries[m] + 1 /\ pc'[p] = "enter" /\ ret' = ret
        /\ \A q \in Proxies \ {p} : hold'[q] = hold[q] /\ num'[q] = num[q] /\ pc'[q] = pc[q]
        /\ deliveries[m] \in 0 .. 2
    BY <1>5, FetchShape, Zenon
  <2>2. \A q \in Proxies : hold[q] = m => num[q] <= deliveries[m] /\ num[q] \in Int
    <3> SUFFICES ASSUME NEW q \in Proxies, hold[q] = m PROVE num[q] <= deliveries[m] /\ num[q] \in Int
      BY Zenon
    <3>1. ConsumerInv(q) /\ num[q] \in 0 .. defaultMaxDeliver
      BY Zenon DEF IInv, TypeOK
    <3> QED
      BY <3>1, ProxyAssumption DEF ConsumerInv, defaultMaxDeliver
  <2>3. ASSUME NEW q \in Proxies, NEW r \in Proxies, hold'[q] # NoMsg, hold'[r] = hold'[q], num'[r] = num'[q] PROVE q = r
    BY <2>1, <2>2, <2>3 DEF WorkInv
  <2>4. \A q \in Proxies : hold'[q] # NoMsg => num'[q] \in 1 .. defaultMaxDeliver
    BY <2>1 DEF WorkInv, defaultMaxDeliver
  <2>5. \A q \in Proxies : pc'[q] \in {"leave", "done", "settle"} => ret'[q] \in {"nil", "err"}
    BY <2>1, Zenon DEF WorkInv
  <2> QED
    BY <2>3, <2>4, <2>5, Zenon DEF WorkInv
<1>6. ASSUME NEW p \in Proxies, Acknowledge(p) \/ Kill(p) PROVE WorkInv'
  <2>1. /\ hold'[p] = NoMsg /\ pc'[p] = "none"
        /\ \A q \in Proxies \ {p} : hold'[q] = hold[q] /\ num'[q] = num[q] /\ pc'[q] = pc[q] /\ ret'[q] = ret[q]
    BY <1>6, ReleaseShape, Zenon
  <2> QED
    BY <2>1 DEF WorkInv
<1>7. ASSUME NEW p \in Proxies, Poll(p) \/ FetchTimeout(p) \/ Shutdown(p) \/ Signal(p) \/ Restart(p)
      PROVE  UNCHANGED <<hold, num, pc, ret>>
  BY <1>7, IdleShape, Zenon
<1> QED
  BY <1>1, <1>2, <1>3, <1>4, <1>5, <1>6, <1>7, ProxySteps, Zenon

\* Where one proxy only can be meant, it is.
LEMMA TheHolder ==
  ASSUME NEW P, NEW h, NEW k, NEW m, NEW n, NEW p \in P, h[p] = m, k[p] = n,
         \A q \in P : h[q] = m /\ k[q] = n => q = p
  PROVE  (CHOOSE q \in P : h[q] = m /\ k[q] = n) = p
<1>1. \E q \in P : h[q] = m /\ k[q] = n
  BY Zenon
<1> QED
  BY <1>1, Zenon

\* The attempt of a proxy is where the proxy is.
LEMMA HeldAttempt ==
  ASSUME NEW p \in Proxies, NEW m \in Msgs, NEW n \in 1 .. defaultMaxDeliver, IInv, WorkInv, Holds(p, m, n)
  PROVE  AttemptOf(m, n) = Stage(p) /\ n <= deliveries[m] /\ \A q \in Proxies : Holds(q, m, n) => q = p
<1>1. \A q \in Proxies : Holds(q, m, n) => q = p
  BY ProxyAssumption, Zenon DEF WorkInv, Holds
<1>2. n <= deliveries[m] /\ deliveries[m] \in Int
  <2>1. ConsumerInv(p) /\ deliveries[m] \in 0 .. defaultMaxDeliver
    BY Zenon DEF IInv, TypeOK, QueueTypeOK
  <2> QED
    BY <2>1, ProxyAssumption DEF ConsumerInv, Holds, defaultMaxDeliver
<1>3. (CHOOSE q \in Proxies : Holds(q, m, n)) = p
  BY <1>1, TheHolder, Zenon DEF Holds
<1>4. ~(n > deliveries[m])
  BY <1>2 DEF defaultMaxDeliver
<1> QED
  BY <1>1, <1>2, <1>3, <1>4, Zenon DEF AttemptOf

\* An attempt is where the proxy is that makes it; one that no proxy makes has not
\* begun or is over.
Located ==
  \A m \in Msgs, n \in 1 .. defaultMaxDeliver :
    /\ \A p \in Proxies : Holds(p, m, n) => AttemptOf(m, n) = Stage(p)
    /\ (\A p \in Proxies : ~Holds(p, m, n)) => AttemptOf(m, n) = IF n > deliveries[m] THEN "none" ELSE "over"

LEMMA AllLocated == IInv /\ WorkInv => Located
<1>1. ASSUME NEW m \in Msgs, NEW n \in 1 .. defaultMaxDeliver, \A p \in Proxies : ~Holds(p, m, n)
      PROVE  AttemptOf(m, n) = IF n > deliveries[m] THEN "none" ELSE "over"
  BY <1>1, Zenon DEF AttemptOf
<1> QED
  BY <1>1, HeldAttempt, Zenon DEF Located

\* An attempt at which nothing changes.
LEMMA AttemptFrame ==
  ASSUME Located, Located', NEW m \in Msgs, NEW n \in 1 .. defaultMaxDeliver,
         \A q \in Proxies : Holds(q, m, n)' <=> Holds(q, m, n),
         \A q \in Proxies : Holds(q, m, n) => Stage(q)' = Stage(q),
         n > deliveries'[m] <=> n > deliveries[m]
  PROVE  AttemptOf(m, n)' = AttemptOf(m, n)
<1>1. CASE \E p \in Proxies : Holds(p, m, n)
  <2>1. PICK p \in Proxies : Holds(p, m, n) /\ Holds(p, m, n)' /\ Stage(p)' = Stage(p)
    BY <1>1, Zenon
  <2>2. AttemptOf(m, n) = Stage(p) /\ AttemptOf(m, n)' = Stage(p)'
    BY <2>1, Zenon DEF Located
  <2> QED
    BY <2>1, <2>2, Zenon
<1>2. CASE \A p \in Proxies : ~Holds(p, m, n)
  <2>1. AttemptOf(m, n) = IF n > deliveries[m] THEN "none" ELSE "over"
    BY <1>2, Zenon DEF Located
  <2>2. AttemptOf(m, n)' = IF n > deliveries'[m] THEN "none" ELSE "over"
    BY <1>2, Zenon DEF Located
  <2> QED
    BY <2>1, <2>2, Zenon
<1> QED
  BY <1>1, <1>2, Zenon

\* The two modules count the same deliveries.
LEMMA SameDeliveries == Work!Deliveries = 1 .. defaultMaxDeliver /\ Work!defaultMaxDeliver = defaultMaxDeliver
BY Zenon DEF Work!Deliveries, Work!defaultMaxDeliver, defaultMaxDeliver

\* One attempt goes on and the others stay.
LEMMA OneMoves ==
  ASSUME NEW m \in Msgs, NEW n \in 1 .. defaultMaxDeliver, NEW from, NEW to,
         AttemptOf(m, n) = from, AttemptOf(m, n)' = to,
         \A b \in Msgs, k \in 1 .. defaultMaxDeliver : <<b, k>> # <<m, n>> => AttemptOf(b, k)' = AttemptOf(b, k)
  PROVE  Work!Go(m, n, from, to)
<1>1. attemptsNow[m][n] = from
  BY Zenon DEF attemptsNow
<1>2. attemptsNow' = [attemptsNow EXCEPT ![m][n] = to]
  BY Zenon DEF attemptsNow
<1> QED
  BY <1>1, <1>2, Zenon DEF Work!Go

\* A step of Handle: the attempt of the proxy goes on.
LEMMA HandleMoves ==
  ASSUME NEW p \in Proxies, IInv, WorkInv, Located, Located', pc[p] # "none",
         UNCHANGED <<hold, num, deliveries>>,
         \A q \in Proxies \ {p} : pc'[q] = pc[q] /\ ret'[q] = ret[q]
  PROVE  /\ hold[p] \in Msgs /\ num[p] \in Work!Deliveries
         /\ Work!Go(hold[p], num[p], Stage(p), Stage(p)')
         /\ Stage(p)' = Stage(p) => attemptsNow' = attemptsNow
<1>1. hold[p] \in Msgs
  BY HeldMessage, Zenon
<1>2. num[p] \in 1 .. defaultMaxDeliver
  BY <1>1, ProxyAssumption, Zenon DEF WorkInv
<1>3. PICK m \in Msgs, n \in 1 .. defaultMaxDeliver : m = hold[p] /\ n = num[p]
  BY <1>1, <1>2, Zenon
<1>4. AttemptOf(m, n) = Stage(p) /\ AttemptOf(m, n)' = Stage(p)'
  <2>1. Holds(p, m, n) /\ Holds(p, m, n)'
    BY <1>3, Zenon DEF Holds
  <2> QED
    BY <2>1, Zenon DEF Located
<1>5. ASSUME NEW b \in Msgs, NEW k \in 1 .. defaultMaxDeliver, <<b, k>> # <<m, n>> \/ Stage(p)' = Stage(p)
      PROVE  AttemptOf(b, k)' = AttemptOf(b, k)
  <2>1. \A q \in Proxies : Holds(q, b, k)' <=> Holds(q, b, k)
    BY Zenon DEF Holds
  <2>2. \A q \in Proxies \ {p} : Stage(q)' = Stage(q)
    BY Zenon DEF Stage
  <2>3. \A q \in Proxies : Holds(q, b, k) => Stage(q)' = Stage(q)
    BY <1>3, <1>5, <2>2, Zenon DEF Holds
  <2> QED
    BY <2>1, <2>3, AttemptFrame, Zenon
<1>6. Work!Go(m, n, Stage(p), Stage(p)')
  BY <1>4, <1>5, OneMoves, Zenon
<1>7. Stage(p)' = Stage(p) => attemptsNow' = attemptsNow
  BY <1>5, Zenon DEF attemptsNow
<1> QED
  BY <1>1, <1>2, <1>3, <1>6, <1>7, SameDeliveries, Zenon

\* What PublishJSON does to the results on NATS.
LEMMA PublishStores ==
  ASSUME NEW p \in Proxies, NEW kind \in Kinds, NEW r, IInv, pc[p] # "none", PublishJSON(p, kind, r)
  PROVE  /\ kind # "result" => resultsStored' = resultsStored
         /\ resultsStored' = resultsStored \/ resultsStored' = resultsStored \cup {hold[p]}
         /\ r = "nil" /\ kind = "result" => resultsStored' = resultsStored \cup {hold[p]}
<1>1. hold[p] \in Msgs
  BY HeldMessage, Zenon
<1>2. \/ published' = published \cup {<<kind, hold[p]>>}
      \/ published' = published /\ r = "err"
  BY Zenon DEF PublishJSON
<1>3. CASE published' = published /\ r = "err"
  BY <1>3, Zenon DEF resultsStored
<1>4. CASE published' = published \cup {<<kind, hold[p]>>}
  <2>1. \A m \in Msgs : <<"result", m>> \in published' <=> <<"result", m>> \in published \/ (kind = "result" /\ m = hold[p])
    BY <1>4, Zenon
  <2>2. kind # "result" => resultsStored' = resultsStored
    BY <2>1, Zenon DEF resultsStored
  <2>3. kind = "result" => resultsStored' = resultsStored \cup {hold[p]}
    BY <1>1, <2>1, Zenon DEF resultsStored
  <2> QED
    BY <2>2, <2>3, Zenon
<1> QED
  BY <1>2, <1>3, <1>4, Zenon

\* Each step of Handle is a step of the attempt or none.
LEMMA HandleRefines ==
  ASSUME NEW p \in Proxies, IInv, WorkInv, Located, Located',
         \/ Enter(p) \/ PublishWorking(p) \/ NewSession(p) \/ RegisterSession(p) \/ Prompt(p)
         \/ PublishResult(p) \/ PublishCompleted(p) \/ Fail(p) \/ DeregisterSession(p) \/ WgDone(p)
  PROVE  Work!AttemptMoves(hold[p], num[p]) \/ UNCHANGED <<qstate, deliveries, attemptsNow, resultsStored>>
<1>1. /\ UNCHANGED <<hold, num, qstate, deliveries>> /\ pc[p] # "none"
      /\ \A q \in Proxies \ {p} : pc'[q] = pc[q] /\ ret'[q] = ret[q]
  BY HandleShape, Zenon
<1>2. /\ Work!Go(hold[p], num[p], Stage(p), Stage(p)')
      /\ Stage(p)' = Stage(p) => attemptsNow' = attemptsNow
  BY <1>1, HandleMoves, Zenon
<1>3. UNCHANGED Work!queueVars
  BY <1>1, Zenon DEF Work!queueVars
<1>4. published' = published => resultsStored' = resultsStored
  BY Zenon DEF resultsStored
<1>5. pc \in [Proxies -> Places] /\ ret \in [Proxies -> {"none", "nil", "err"}]
  BY Zenon DEF IInv, TypeOK, Places
<1>6. {"working", "result", "completed", "failed"} \subseteq Kinds
  BY Zenon DEF Kinds
<1>7. CASE Enter(p)
  <2>1. resultsStored' = resultsStored /\ Stage(p) = "working"
    BY <1>4, <1>7, Zenon DEF Enter, Step, Stage
  <2>2. Stage(p)' \in {"working", "err"}
    BY <1>5, <1>7, Zenon DEF Enter, Step, Returns, Stage
  <2>3. Stage(p)' = "err" => Work!Reject(hold[p], num[p])
    BY <1>2, <1>3, <2>1, Zenon DEF Work!Reject
  <2> QED
    BY <1>1, <1>2, <2>1, <2>2, <2>3, Zenon DEF Work!AttemptMoves
<1>8. CASE PublishWorking(p)
  <2>1. Stage(p) = "working" /\ Stage(p)' = "working"
    BY <1>5, <1>8, Zenon DEF PublishWorking, Step, Stage
  <2>2. resultsStored' = resultsStored
    BY <1>1, <1>6, <1>8, PublishStores, Zenon DEF PublishWorking
  <2> QED
    BY <1>1, <1>2, <2>1, <2>2, Zenon
<1>9. CASE NewSession(p) \/ RegisterSession(p) \/ Prompt(p)
  <2>1. Stage(p) = "working" /\ Stage(p)' \in {"working", "fail", "result"}
    BY <1>5, <1>9, Zenon DEF NewSession, RegisterSession, Prompt, Step, Stage
  <2>2. resultsStored' = resultsStored
    BY <1>4, <1>9, Zenon DEF NewSession, RegisterSession, Prompt
  <2>3. Stage(p)' # "working" => Work!AgentEnds(hold[p], num[p])
    BY <1>2, <1>3, <2>1, <2>2, Zenon DEF Work!AgentEnds
  <2> QED
    BY <1>1, <1>2, <2>1, <2>2, <2>3, Zenon DEF Work!AttemptMoves
<1>10. CASE PublishResult(p)
  <2>1. Stage(p) = "result"
    BY <1>10, Zenon DEF PublishResult, Step, Stage
  <2>2. CASE PublishJSON(p, "result", "nil") /\ Step(p, "result", "completed")
    <3>1. Stage(p)' = "completed"
      BY <1>5, <2>2, Zenon DEF Step, Stage
    <3>2. resultsStored' = resultsStored \cup {hold[p]}
      BY <1>1, <1>6, <2>2, PublishStores, Zenon
    <3> QED
      BY <1>2, <1>3, <2>1, <3>1, <3>2, Zenon DEF Work!AttemptMoves, Work!StoreResult
  <2>3. CASE PublishJSON(p, "result", "err") /\ Step(p, "result", "leave") /\ Returns(p, "err")
    <3>1. Stage(p)' = "err"
      BY <1>5, <2>3, Zenon DEF Step, Stage, Returns
    <3>2. resultsStored' = resultsStored \/ resultsStored' = resultsStored \cup {hold[p]}
      BY <1>1, <1>6, <2>3, PublishStores, Zenon
    <3> QED
      BY <1>2, <1>3, <2>1, <3>1, <3>2, Zenon DEF Work!AttemptMoves, Work!StoreResult, Work!LoseResult
  <2> QED
    BY <1>10, <2>2, <2>3, Zenon DEF PublishResult
<1>11. CASE PublishCompleted(p)
  <2>1. Stage(p) = "completed" /\ Stage(p)' = "nil"
    BY <1>5, <1>11, Zenon DEF PublishCompleted, Step, Stage, Returns
  <2>2. resultsStored' = resultsStored
    BY <1>1, <1>6, <1>11, PublishStores, Zenon DEF PublishCompleted
  <2> QED
    BY <1>2, <1>3, <2>1, <2>2, Zenon DEF Work!AttemptMoves, Work!LogCompleted
<1>12. CASE Fail(p)
  <2>1. Stage(p) = "fail" /\ Stage(p)' = "err"
    BY <1>5, <1>12, Zenon DEF Fail, Step, Stage, Returns
  <2>2. resultsStored' = resultsStored
    BY <1>1, <1>6, <1>12, PublishStores, Zenon DEF Fail
  <2> QED
    BY <1>2, <1>3, <2>1, <2>2, Zenon DEF Work!AttemptMoves, Work!FailAttempt
<1>13. CASE DeregisterSession(p) \/ WgDone(p)
  <2>1. Stage(p)' = Stage(p)
    BY <1>5, <1>13, Zenon DEF DeregisterSession, WgDone, Step, Stage
  <2>2. resultsStored' = resultsStored
    BY <1>4, <1>13, Zenon DEF DeregisterSession, WgDone
  <2> QED
    BY <1>1, <1>2, <2>1, <2>2, Zenon
<1> QED
  BY <1>7, <1>8, <1>9, <1>10, <1>11, <1>12, <1>13, Zenon

\* A fetch begins an attempt.
LEMMA FetchRefines ==
  ASSUME NEW p \in Proxies, NEW m \in Msgs, IInv, WorkInv, Located, Located', Fetch(p, m)
  PROVE  Work!Begin(m)
<1>0. deliveries[m] \in 0 .. 2
  BY FetchShape, Zenon
<1>n. PICK n \in 1 .. defaultMaxDeliver : n = deliveries[m] + 1
  BY <1>0 DEF defaultMaxDeliver
<1>1. /\ hold[p] = NoMsg /\ hold'[p] = m /\ num'[p] = n /\ pc'[p] = "enter" /\ ret' = ret
      /\ \A q \in Proxies \ {p} : hold'[q] = hold[q] /\ num'[q] = num[q] /\ pc'[q] = pc[q]
      /\ deliveries[m] \in 0 .. 2 /\ deliveries' = [deliveries EXCEPT ![m] = @ + 1] /\ published' = published
  BY <1>n, FetchShape, Zenon
<1>2. deliveries \in [Msgs -> 0 .. defaultMaxDeliver]
  BY Zenon DEF IInv, TypeOK, QueueTypeOK
<1>3. deliveries'[m] = n
  BY <1>n, <1>1, <1>2, Zenon
<1>4. AttemptOf(m, n)' = "working"
  <2>1. Holds(p, m, n)' /\ Stage(p)' = "working"
    BY <1>1, <1>3, Zenon DEF Holds, Stage
  <2> QED
    BY <1>2, <2>1, <1>3, Zenon DEF Located
<1>5. ASSUME NEW b \in Msgs, NEW k \in 1 .. defaultMaxDeliver, <<b, k>> # <<m, n>>
      PROVE  AttemptOf(b, k)' = AttemptOf(b, k)
  <2>1. \A q \in Proxies : Holds(q, b, k)' <=> Holds(q, b, k)
    BY <1>1, <1>5, ProxyAssumption, Zenon DEF Holds
  <2>2. \A q \in Proxies : Holds(q, b, k) => Stage(q)' = Stage(q)
    <3>1. ~Holds(p, b, k)
      BY <1>1, ProxyAssumption, Zenon DEF Holds
    <3> QED
      BY <1>1, <3>1, Zenon DEF Stage
  <2>3. k > deliveries'[b] <=> k > deliveries[b]
    BY <1>n, <1>1, <1>2, <1>5 DEF defaultMaxDeliver
  <2> QED
    BY <2>1, <2>2, <2>3, AttemptFrame, Zenon
<1>6. attemptsNow' = [attemptsNow EXCEPT ![m][n] = "working"]
  BY <1>2, <1>4, <1>5, OneMoves DEF Work!Go
<1>7. Work!Deliver(m)
  BY SameDeliveries, Zenon DEF Fetch, Deliver, Work!Deliver
<1>8. resultsStored' = resultsStored
  BY <1>1, Zenon DEF resultsStored
<1> QED
  BY <1>3, <1>6, <1>7, <1>8, Zenon DEF Work!Begin

\* A proxy that lets go of its message ends the attempt.
LEMMA ReleaseMoves ==
  ASSUME NEW p \in Proxies, IInv, WorkInv, Located, Located', Acknowledge(p) \/ Kill(p)
  PROVE  /\ resultsStored' = resultsStored /\ deliveries' = deliveries
         /\ pc[p] # "none" => /\ hold[p] \in Msgs /\ num[p] \in Work!Deliveries
                              /\ Work!Go(hold[p], num[p], Stage(p), "over")
         /\ pc[p] = "none" => attemptsNow' = attemptsNow
<1>1. /\ hold'[p] = NoMsg /\ pc'[p] = "none" /\ deliveries' = deliveries /\ published' = published
      /\ \A q \in Proxies \ {p} : hold'[q] = hold[q] /\ num'[q] = num[q] /\ pc'[q] = pc[q] /\ ret'[q] = ret[q]
  BY ReleaseShape, Zenon
<1>2. resultsStored' = resultsStored
  BY <1>1, Zenon DEF resultsStored
<1>3. ASSUME NEW b \in Msgs, NEW k \in 1 .. defaultMaxDeliver, ~Holds(p, b, k)
      PROVE  AttemptOf(b, k)' = AttemptOf(b, k)
  <2>1. \A q \in Proxies : Holds(q, b, k)' <=> Holds(q, b, k)
    BY <1>1, <1>3, ProxyAssumption, Zenon DEF Holds
  <2>2. \A q \in Proxies : Holds(q, b, k) => Stage(q)' = Stage(q)
    BY <1>1, <1>3, Zenon DEF Stage
  <2> QED
    BY <1>1, <2>1, <2>2, AttemptFrame, Zenon
<1>4. CASE pc[p] = "none"
  <2>1. hold[p] = NoMsg
    BY <1>4, Zenon DEF IInv, ConsumerInv
  <2>2. \A b \in Msgs, k \in 1 .. defaultMaxDeliver : AttemptOf(b, k)' = AttemptOf(b, k)
    BY <1>3, <2>1, ProxyAssumption, Zenon DEF Holds
  <2>3. attemptsNow' = attemptsNow
    BY <2>2, Zenon DEF attemptsNow
  <2> QED
    BY <1>1, <1>2, <1>4, <2>3, Zenon
<1>5. CASE pc[p] # "none"
  <2>1. hold[p] \in Msgs
    BY <1>5, HeldMessage, Zenon
  <2>2. num[p] \in 1 .. defaultMaxDeliver
    BY <2>1, ProxyAssumption, Zenon DEF WorkInv
  <2>3. PICK m \in Msgs, n \in 1 .. defaultMaxDeliver : m = hold[p] /\ n = num[p]
    BY <2>1, <2>2, Zenon
  <2>4. Holds(p, m, n)
    BY <2>3, Zenon DEF Holds
  <2>5. AttemptOf(m, n) = Stage(p) /\ n <= deliveries[m] /\ \A q \in Proxies : Holds(q, m, n) => q = p
    BY <2>4, HeldAttempt, Zenon
  <2>6. AttemptOf(m, n)' = "over"
    <3>1. \A q \in Proxies : ~Holds(q, m, n)'
      BY <1>1, <2>5, ProxyAssumption, Zenon DEF Holds
    <3>2. AttemptOf(m, n)' = IF n > deliveries'[m] THEN "none" ELSE "over"
      BY <3>1, Zenon DEF Located
    <3>3. deliveries[m] \in 0 .. defaultMaxDeliver
      BY Zenon DEF IInv, TypeOK, QueueTypeOK
    <3> QED
      BY <1>1, <2>5, <3>2, <3>3 DEF defaultMaxDeliver
  <2>7. \A b \in Msgs, k \in 1 .. defaultMaxDeliver : <<b, k>> # <<m, n>> => AttemptOf(b, k)' = AttemptOf(b, k)
    BY <1>3, <2>3, Zenon DEF Holds
  <2>8. Work!Go(m, n, Stage(p), "over")
    BY <2>5, <2>6, <2>7, OneMoves, Zenon
  <2> QED
    BY <1>1, <1>2, <1>5, <2>3, <2>8, SameDeliveries, Zenon
<1> QED
  BY <1>4, <1>5, Zenon

\* processMessage settles a message by what the attempt returned; a process that is
\* killed ends the attempt where it was.
LEMMA ReleaseRefines ==
  ASSUME NEW p \in Proxies, IInv, WorkInv, Located, Located', Acknowledge(p) \/ Kill(p)
  PROVE  \/ \E m \in Msgs, n \in Work!Deliveries : Work!AttemptMoves(m, n)
         \/ UNCHANGED <<qstate, deliveries, attemptsNow, resultsStored>>
<1>1. /\ resultsStored' = resultsStored /\ deliveries' = deliveries
      /\ pc[p] # "none" => /\ hold[p] \in Msgs /\ num[p] \in Work!Deliveries
                           /\ Work!Go(hold[p], num[p], Stage(p), "over")
      /\ pc[p] = "none" => attemptsNow' = attemptsNow
  BY ReleaseMoves, Zenon
<1>2. CASE Acknowledge(p)
  <2>1. pc[p] = "settle" /\ Stage(p) = ret[p]
    BY <1>2, Zenon DEF Acknowledge, Stage
  <2>2. \A m : (Ack(m) => Work!Ack(m)) /\ (Nak(m) => Work!Nak(m)) /\ (Term(m) => Work!Term(m))
    BY Zenon DEF Ack, Nak, Term, Settle, Work!Ack, Work!Nak, Work!Term, Work!Settle
  <2>3. num[p] \in Int
    BY <1>1, <2>1, SameDeliveries DEF defaultMaxDeliver
  <2>4. \/ ret[p] = "nil" /\ Work!Ack(hold[p])
        \/ ret[p] = "err" /\ IF num[p] >= Work!defaultMaxDeliver THEN Work!Term(hold[p]) ELSE Work!Nak(hold[p])
    BY <1>2, <2>2, <2>3, SameDeliveries DEF Acknowledge, defaultMaxDeliver
  <2>5. Work!SettleTask(hold[p], num[p])
    BY <1>1, <2>1, <2>4, Zenon DEF Work!SettleTask
  <2> QED
    BY <1>1, <2>1, <2>5, Zenon DEF Work!AttemptMoves
<1>3. CASE Kill(p)
  <2>1. qstate' = qstate
    BY <1>3, Zenon DEF Kill, queueVars
  <2>2. CASE pc[p] = "none"
    BY <1>1, <2>1, <2>2, Zenon
  <2>3. CASE pc[p] # "none"
    <3>1. Stage(p) \notin {"none", "over"}
      BY Zenon DEF Stage, WorkInv
    <3>2. attemptsNow[hold[p]][num[p]] = Stage(p)
      BY <1>1, <2>3, Zenon DEF Work!Go
    <3>3. Work!Die(hold[p], num[p])
      BY <1>1, <2>1, <2>3, <3>1, <3>2, Zenon DEF Work!Die, Work!queueVars
    <3> QED
      BY <1>1, <2>3, <3>3, Zenon DEF Work!AttemptMoves
  <2> QED
    BY <2>2, <2>3, Zenon
<1> QED
  BY <1>2, <1>3, Zenon

\* Every step of a proxy or of the queue is a step of Attempts or none.
LEMMA ProxyStepRefines ==
  IInv /\ WorkInv /\ Located /\ Located' /\ [Next]_vars => [Work!AttemptsNext]_(Work!attemptVars)
<1> SUFFICES ASSUME IInv, WorkInv, Located, Located', [Next]_vars
             PROVE  Work!AttemptsNext \/ UNCHANGED Work!attemptVars
  BY Zenon
<1>0. UNCHANGED <<qstate, deliveries, attemptsNow, resultsStored>> => UNCHANGED Work!attemptVars
  BY Zenon DEF Work!attemptVars, Work!queueVars
<1>1. ASSUME UNCHANGED <<hold, num, pc, ret, deliveries, published>>
      PROVE  attemptsNow' = attemptsNow /\ resultsStored' = resultsStored
  <2>1. \A b \in Msgs, k \in 1 .. defaultMaxDeliver : AttemptOf(b, k)' = AttemptOf(b, k)
    BY <1>1 DEF AttemptOf, Holds, Stage
  <2> QED
    BY <1>1, <2>1, Zenon DEF attemptsNow, resultsStored
<1>2. ASSUME NEW p \in Proxies, Poll(p) \/ FetchTimeout(p) \/ Shutdown(p) \/ Signal(p) \/ Restart(p)
      PROVE  UNCHANGED Work!attemptVars
  BY <1>0, <1>1, <1>2, IdleShape, Zenon
<1>3. ASSUME UNCHANGED vars PROVE UNCHANGED Work!attemptVars
  BY <1>0, <1>1, <1>3, Zenon DEF vars, queueVars, consumerVars, handleVars
<1>4. ASSUME NEW m \in Msgs, Expire(m) PROVE Work!AttemptsNext
  <2>1. UNCHANGED <<hold, num, pc, ret, deliveries, published>>
    BY <1>4, Zenon DEF Expire, AckWaitExpires, consumerVars, handleVars
  <2>2. Work!AckWait(m)
    BY <1>1, <1>4, <2>1, Zenon DEF Expire, AckWaitExpires, Work!AckWait, Work!AckWaitExpires
  <2> QED
    BY <2>2, Zenon DEF Work!AttemptsNext
<1>5. ASSUME NEW p \in Proxies, NEW m \in Msgs, Fetch(p, m) PROVE Work!AttemptsNext
  <2>1. Work!Begin(m)
    BY <1>5, FetchRefines, Zenon
  <2> QED
    BY <2>1, Zenon DEF Work!AttemptsNext
<1>6. ASSUME NEW p \in Proxies, Acknowledge(p) \/ Kill(p) PROVE Work!AttemptsNext \/ UNCHANGED Work!attemptVars
  BY <1>0, <1>6, ReleaseRefines, Zenon DEF Work!AttemptsNext
<1>7. ASSUME NEW p \in Proxies,
             \/ Enter(p) \/ PublishWorking(p) \/ NewSession(p) \/ RegisterSession(p) \/ Prompt(p)
             \/ PublishResult(p) \/ PublishCompleted(p) \/ Fail(p) \/ DeregisterSession(p) \/ WgDone(p)
      PROVE  Work!AttemptsNext \/ UNCHANGED Work!attemptVars
  <2>1. /\ UNCHANGED <<hold, num, deliveries>> /\ pc[p] # "none"
        /\ \A q \in Proxies \ {p} : pc'[q] = pc[q] /\ ret'[q] = ret[q]
    BY <1>7, HandleShape, Zenon
  <2>2. hold[p] \in Msgs /\ num[p] \in Work!Deliveries
    BY <2>1, HandleMoves, Zenon
  <2>3. Work!AttemptMoves(hold[p], num[p]) \/ UNCHANGED <<qstate, deliveries, attemptsNow, resultsStored>>
    BY <1>7, HandleRefines, Zenon
  <2> QED
    BY <1>0, <2>2, <2>3, Zenon DEF Work!AttemptsNext
<1> QED
  BY <1>2, <1>3, <1>4, <1>5, <1>6, <1>7, ProxySteps, Zenon

\* Any number of proxies, fetching, handling, shutting down and dying at any step,
\* implement Attempts: each delivery is one attempt of one proxy, which takes
\* the steps of Handle in their order and settles the message by what Handle
\* returned (nats.go:142-226, handler.go:79-270).
THEOREM ProxiesImplementAttempts == Spec => ImplementsAttempts
<1>1. Init => WorkInv
  BY DEF Init, WorkInv
<1>2. Init => Work!AttemptsInit
  <2> SUFFICES ASSUME Init PROVE Work!AttemptsInit
    OBVIOUS
  <2>1. qstate \in [Msgs -> {"unsent", "ready"}] /\ deliveries = [m \in Msgs |-> 0]
    BY Zenon DEF Init, QueueInit
  <2>2. \A m \in Msgs, n \in 1 .. defaultMaxDeliver : AttemptOf(m, n) = "none"
    BY <2>1 DEF AttemptOf, defaultMaxDeliver
  <2>3. attemptsNow = [m \in Msgs |-> [n \in Work!Deliveries |-> "none"]]
    BY <2>2, SameDeliveries, Zenon DEF attemptsNow
  <2>4. resultsStored = {}
    BY Zenon DEF Init, resultsStored
  <2> QED
    BY <2>1, <2>3, <2>4, Zenon DEF Work!AttemptsInit
<1> QED
  BY <1>1, <1>2, WorkStep, AllLocated, ProxyStepRefines, AlwaysIInv, PTL DEF Spec, ImplementsAttempts, Work!AttemptsSpec
=============================================================================
