----------------------------- MODULE MCOperator -----------------------------
(***************************************************************************)
(* The two controllers of the operator that do something, each with the    *)
(* writes of the other one among its environment's: for the AgentRuntime   *)
(* controller Annotate, for the ModelConfig controller Touch.  A behaviour *)
(* is of one of them; the other stays as it began.                         *)
(***************************************************************************)
EXTENDS AgentRuntime, ModelConfig

VARIABLE active   \* the controller the behaviour is of

\* The ConfigMap stands for the Service too, which is made in the same way.
OneChild == <<"cm">>

vars == <<runtimeVars, configVars, active>>

Init ==
  /\ RuntimeInit /\ ConfigInit
  /\ \/ active = "runtime" /\ secret = 0 /\ mc.spec = "none"
     \/ active = "config" /\ rt.mode = "job"

Next ==
  \/ active = "runtime" /\ RuntimeNext /\ UNCHANGED <<configVars, active>>
  \/ active = "config" /\ ConfigNext /\ UNCHANGED <<runtimeVars, active>>

\* The worker, the informers, the garbage collector and the timer run.
RuntimeFair ==
  /\ WF_runtimeVars(active = "runtime" /\ Reconcile) /\ WF_runtimeVars(active = "runtime" /\ Collect)
  /\ WF_runtimeVars(active = "runtime" /\ SeeRuntime) /\ WF_runtimeVars(active = "runtime" /\ SeeJob)
  /\ \A k \in Kinds : WF_runtimeVars(active = "runtime" /\ SeeChild(k))

ConfigFair ==
  /\ WF_configVars(active = "config" /\ ConfigReconcile) /\ WF_configVars(active = "config" /\ TimerEnds)
  /\ WF_configVars(active = "config" /\ SeeConfig) /\ WF_configVars(active = "config" /\ SeeSecret)
  /\ \A a \in Agents : WF_configVars(active = "config" /\ SeeAgent(a))

Spec == Init /\ [][Next]_vars /\ RuntimeFair /\ ConfigFair

Disturbed ==
  IF active = "runtime" THEN Users \/ Crash \/ ServerFails
  ELSE ConfigUsers \/ CrashConfig \/ ConfigServerFails

\* When users rest and the server works, a runtime comes to match its spec and a
\* rotation to reach the status and the runtimes, for good, however often stale
\* copies and conflicts with the other controller have cut a Reconcile short
\* (agentruntime_controller.go:102-326, modelconfig_controller.go:72-256).
OperatorConverges ==
  <>[][~Disturbed]_vars => <>[](IF active = "runtime" THEN RuntimeSettled ELSE ConfigSettled)
=============================================================================
