-------------------------- MODULE OperatorProofs --------------------------
(***************************************************************************)
(* The two controllers, each for any size of its part of the cluster.      *)
(*                                                                         *)
(* QuietIsRight for any number of children and generations.  It is not     *)
(* inductive: what a Reconcile has put so far is right only while nothing  *)
(* is pending, so the invariant says for each place in Reconcile what is   *)
(* already right there if no event, stale copy or queue entry is left.     *)
(*                                                                         *)
(* StatusComesLast and RotationIsWhole for any runtimes and contents, when *)
(* the Secret gets no content it had before (~Reverts).  The argument is   *)
(* an order: contents only grow, so an annotation is never ahead of the    *)
(* cached Secret nor, for a runtime that was listed, behind the status;    *)
(* a hash that is the same as the one in the status then leaves no runtime *)
(* with another one.                                                       *)
(***************************************************************************)
EXTENDS AgentRuntime, ModelConfig, TLAPS

----------------------------------------------------------------------------
(* The AgentRuntime controller                                             *)

\* Nothing is left that would start another Reconcile.
Clean == ~queued /\ rtCur /\ ~sjEvent /\ \A k \in Kinds : cache[k] = "current"

RuntimeBusy == pc \in Range(Children) \cup {"delete", "workload", "status"}

AllPut == \A i \in DOMAIN Children : obj[Children[i]] = rt.gen

OtherGone == (rt.mode = "job" => obj["dep"] = absent) /\ (rt.mode # "job" => sj = absent)

Done == Matches /\ rt.observed = rt.gen /\ rt.cond = "ok" /\ rt.sjName = (rt.mode = "job")

\* What is right already at the place where Reconcile is.
Reached ==
  /\ \A i \in DOMAIN Children : pc = Children[i] => \A j \in 1 .. i - 1 : obj[Children[j]] = rt.gen
  /\ pc \in {"delete", "workload"} => AllPut
  /\ pc = "workload" => OtherGone
  /\ pc = "status" /\ ~failed => Matches /\ work.sjName = (rt.mode = "job")
  /\ pc = "idle" => Done

RuntimeCopy ==
  /\ rtCur => rtSeen = rt
  /\ RuntimeBusy /\ work.cur => work.gen = rt.gen /\ work.mode = rt.mode
  /\ RuntimeBusy /\ ~work.cur => ~rtCur \/ queued

RuntimeInv == RuntimeTypeOK /\ RuntimeCopy /\ (Clean /\ rt.gen # 0 => Reached)

\* The places of Reconcile are different from each other.
LEMMA Places ==
  /\ Len(Children) \in Nat /\ Len(Children) >= 1
  /\ DOMAIN Children = 1 .. Len(Children)
  /\ \A i \in DOMAIN Children :
       /\ Children[i] \in Range(Children) /\ Children[i] \in Kinds
       /\ Children[i] \notin {"dep", "down", "idle", "delete", "workload", "status"}
  /\ \A i, j \in DOMAIN Children : Children[i] = Children[j] => i = j
  /\ "dep" \in Kinds
  /\ \A k \in Range(Children) : \E i \in DOMAIN Children : k = Children[i]
  /\ Range(Children) \cap {"dep", "down", "idle", "delete", "workload", "status"} = {}
<1>1. /\ Len(Children) \in Nat /\ Len(Children) >= 1
      /\ DOMAIN Children = 1 .. Len(Children)
  BY RuntimeAssumption, SMT
<1>2. \A i \in DOMAIN Children : Children[i] \in Range(Children)
  BY Zenon DEF Range
<1>3. Range(Children) \cap {"dep", "down", "idle", "delete", "workload", "status"} = {}
  BY RuntimeAssumption, Zenon
<1>4. \A i, j \in DOMAIN Children : Children[i] = Children[j] => i = j
  BY <1>1, RuntimeAssumption, Zenon
<1>5. \A k \in Range(Children) : \E i \in DOMAIN Children : k = Children[i]
  BY Zenon DEF Range
<1> QED
  BY <1>1, <1>2, <1>3, <1>4, <1>5, SMT DEF Kinds

\* The contents of a child that the actions write.
LEMMA ChildContents ==
  /\ MaxGen \in Nat /\ 1 \in 0 .. MaxGen /\ 0 \in 0 .. MaxGen
  /\ absent \in 0 .. foreign /\ foreign \in 0 .. foreign
  /\ 0 .. MaxGen \subseteq 0 .. foreign
BY RuntimeAssumption DEF absent, foreign

\* Reconcile goes from one child to the next and then to the workload.
LEMMA NextPlace ==
  /\ Children[1] \in Range(Children)
  /\ \A i \in DOMAIN Children : After(i) \in Range(Children) \cup {"delete"}
BY Places DEF After

\* A write leaves a cache that is well formed.
LEMMA BehindType ==
  ASSUME RuntimeTypeOK, NEW k \in Kinds
  PROVE  Behind(k) \in [Kinds -> {"current", "absent", "present"}]
BY Zenon DEF RuntimeTypeOK, Behind

\* RuntimeInit establishes the invariant: the runtime is queued.
LEMMA RuntimeInitInv == RuntimeInit => RuntimeInv
<1> SUFFICES ASSUME RuntimeInit PROVE RuntimeInv
  BY Zenon
<1>1. RuntimeTypeOK
  <2>1. rt \in Runtimes
    BY ChildContents, Zenon DEF RuntimeInit, Runtimes
  <2>2. work \in [gen : 0 .. MaxGen, mode : Modes, sjName : BOOLEAN, cur : BOOLEAN]
    BY ChildContents, Zenon DEF RuntimeInit, noWork, Modes
  <2> QED
    BY <2>1, <2>2, ChildContents, Zenon DEF RuntimeInit, RuntimeTypeOK
<1>2. RuntimeCopy
  BY Places, Zenon DEF RuntimeInit, RuntimeCopy, RuntimeBusy
<1>3. ~Clean
  BY Zenon DEF RuntimeInit, Clean
<1> QED
  BY <1>1, <1>2, <1>3, Zenon DEF RuntimeInv

\* Every step keeps the types.
LEMMA RuntimeTypeStep == RuntimeTypeOK /\ [RuntimeNext]_runtimeVars => RuntimeTypeOK'
<1> SUFFICES ASSUME RuntimeTypeOK, [RuntimeNext]_runtimeVars PROVE RuntimeTypeOK'
  BY Zenon
<1> DEFINE Works == [gen : 0 .. MaxGen, mode : Modes, sjName : BOOLEAN, cur : BOOLEAN]
<1>0. noWork \in Works
  BY ChildContents, Zenon DEF noWork, Modes
<1>1. CASE Fetch
  <2>1. rtSeen \in Runtimes /\ rtCur \in BOOLEAN
    BY Zenon DEF RuntimeTypeOK
  <2>2. work' \in Works
    BY <1>1, <2>1 DEF Fetch, Runtimes, RuntimeTypeOK, runVars
  <2> QED
    BY <1>1, <2>2, NextPlace, Zenon DEF Fetch, Goto, runVars, seenVars, childVars, RuntimeTypeOK
<1>2. ASSUME NEW i \in DOMAIN Children, PutChild(i) PROVE RuntimeTypeOK'
  <2>1. cache' \in [Kinds -> {"current", "absent", "present"}]
    BY <1>2, BehindType, Places, Zenon DEF PutChild, Put, RuntimeTypeOK
  <2>2. obj' \in [Kinds -> 0 .. foreign]
    BY <1>2, ChildContents, Zenon DEF PutChild, Put, RuntimeTypeOK
  <2> QED
    BY <1>2, <2>1, <2>2, NextPlace, Zenon DEF PutChild, Put, Goto, RuntimeTypeOK
<1>3. CASE DeleteOther
  <2>1. cache' \in [Kinds -> {"current", "absent", "present"}]
    BY <1>3, BehindType, Places DEF DeleteOther, RuntimeTypeOK
  <2>2. obj' \in [Kinds -> 0 .. foreign] /\ sj' \in 0 .. foreign
    BY <1>3, ChildContents DEF DeleteOther, RuntimeTypeOK
  <2>3. sjEvent' \in BOOLEAN
    BY <1>3, Zenon DEF DeleteOther, RuntimeTypeOK
  <2> QED
    BY <1>3, <2>1, <2>2, <2>3, Zenon DEF DeleteOther, Goto, RuntimeTypeOK
<1>4. CASE PutScaledJob
  <2>1. sj' \in 0 .. foreign /\ sjEvent' \in BOOLEAN /\ work' \in Works
    BY <1>4, ChildContents, Zenon DEF PutScaledJob, RuntimeTypeOK
  <2> QED
    BY <1>4, <2>1, Zenon DEF PutScaledJob, Goto, RuntimeTypeOK
<1>5. CASE PutDeployment
  <2>1. cache' \in [Kinds -> {"current", "absent", "present"}]
    BY <1>5, BehindType, Places, Zenon DEF PutDeployment, Put, RuntimeTypeOK
  <2>2. obj' \in [Kinds -> 0 .. foreign] /\ work' \in Works
    BY <1>5, ChildContents, Zenon DEF PutDeployment, Put, RuntimeTypeOK
  <2> QED
    BY <1>5, <2>1, <2>2, Zenon DEF PutDeployment, Put, Goto, RuntimeTypeOK
<1>6. CASE WriteStatus
  <2>1. rt' \in Runtimes
    BY <1>6, Zenon DEF WriteStatus, NewStatus, Runtimes, RuntimeTypeOK
  <2>2. rtCur' \in BOOLEAN /\ queued' \in BOOLEAN
    BY <1>6, Zenon DEF WriteStatus, Return, RuntimeTypeOK
  <2> QED
    BY <1>0, <1>6, <2>1, <2>2, Zenon DEF WriteStatus, Return, Goto, childVars, RuntimeTypeOK
<1>7. CASE StatusFails
  BY <1>0, <1>7, Zenon DEF StatusFails, Return, Goto, seenVars, childVars, RuntimeTypeOK
<1>8. CASE Fail
  BY <1>8, Zenon DEF Fail, Goto, seenVars, childVars, RuntimeTypeOK
<1>9. CASE Informers
  BY <1>9, Zenon DEF Informers, SeeRuntime, SeeJob, SeeChild, childVars, runVars, RuntimeTypeOK
<1>10. ASSUME NEW new \in Runtimes, RuntimeWritten(new) PROVE RuntimeTypeOK'
  BY <1>10, Zenon DEF RuntimeWritten, childVars, RuntimeTypeOK
<1>11. ASSUME NEW k \in Kinds, NEW v \in {absent, foreign}, Meddle(k, v) PROVE RuntimeTypeOK'
  BY <1>11, BehindType, ChildContents DEF Meddle, runVars, RuntimeTypeOK
<1>12. ASSUME NEW v \in {absent, foreign}, MeddleJob(v) PROVE RuntimeTypeOK'
  BY <1>12, ChildContents, Zenon DEF MeddleJob, runVars, RuntimeTypeOK
<1>13. CASE Users \/ Collect
  <2>1. rt \in Runtimes /\ [rt EXCEPT !.gen = 0] \in Runtimes
    BY ChildContents, Zenon DEF RuntimeTypeOK, Runtimes
  <2>2. ASSUME NEW m \in Modes, rt.gen < MaxGen
        PROVE  [rt EXCEPT !.gen = @ + 1, !.mode = m] \in Runtimes
    <3>1. rt.gen \in 0 .. MaxGen /\ rt \in Runtimes
      BY Zenon DEF RuntimeTypeOK, Runtimes
    <3>2. rt.gen + 1 \in 0 .. MaxGen
      BY <2>2, <3>1, ChildContents
    <3> QED
      BY <3>1, <3>2, Zenon DEF Runtimes
  <2>3. ASSUME NEW m \in Modes, EditSpec(m) PROVE RuntimeTypeOK'
    BY <1>10, <2>2, <2>3, Zenon DEF EditSpec
  <2>4. CASE Annotate \/ DeleteRuntime
    BY <1>10, <2>1, <2>4, Zenon DEF Annotate, DeleteRuntime
  <2> QED
    BY <1>11, <1>12, <1>13, <2>3, <2>4, Zenon DEF Users, Collect
<1>14. CASE Crash
  BY <1>0, <1>14, Zenon DEF Crash, seenVars, childVars, RuntimeTypeOK
<1>15. CASE StartUp
  BY <1>15, Zenon DEF StartUp, childVars, RuntimeTypeOK
<1>16. CASE UNCHANGED runtimeVars
  BY <1>16, Zenon DEF runtimeVars, seenVars, childVars, runVars, RuntimeTypeOK
<1> QED
  BY <1>1, <1>2, <1>3, <1>4, <1>5, <1>6, <1>7, <1>8, <1>9, <1>13, <1>14, <1>15, <1>16, Zenon
     DEF RuntimeNext, Reconcile, StepOk

\* Every step keeps the copies right: an outdated one leaves an event or a
\* queue entry behind.
LEMMA RuntimeCopyStep == RuntimeTypeOK /\ RuntimeCopy /\ [RuntimeNext]_runtimeVars => RuntimeCopy'
<1> SUFFICES ASSUME RuntimeTypeOK, RuntimeCopy, [RuntimeNext]_runtimeVars PROVE RuntimeCopy'
  BY Zenon
<1>0. ~("idle" \in Range(Children)) /\ ~("down" \in Range(Children))
  BY Places, Zenon
<1>1. CASE Fetch
  BY <1>0, <1>1 DEF Fetch, Goto, runVars, seenVars, RuntimeCopy, RuntimeBusy
<1>2. ASSUME NEW i \in DOMAIN Children, PutChild(i) PROVE RuntimeCopy'
  BY <1>2, Places, Zenon DEF PutChild, Put, RuntimeCopy, RuntimeBusy
<1>3. CASE DeleteOther
  BY <1>3, Zenon DEF DeleteOther, RuntimeCopy, RuntimeBusy
<1>4. CASE PutScaledJob \/ PutDeployment
  BY <1>4 DEF PutScaledJob, PutDeployment, Put, RuntimeCopy, RuntimeBusy, RuntimeTypeOK
<1>5. CASE WriteStatus
  <2>1. pc' = "idle" /\ rtSeen' = rtSeen /\ (rtCur' => rtCur /\ rt' = rt)
    BY <1>5, Zenon DEF WriteStatus, Return, Goto, RuntimeTypeOK
  <2> QED
    BY <1>0, <2>1, Zenon DEF RuntimeCopy, RuntimeBusy
<1>6. CASE StatusFails
  BY <1>0, <1>6, Zenon DEF StatusFails, Return, Goto, seenVars, RuntimeCopy, RuntimeBusy
<1>7. CASE Fail
  BY <1>7, Zenon DEF Fail, seenVars, RuntimeCopy, RuntimeBusy
<1>8. CASE Informers
  BY <1>8 DEF Informers, SeeRuntime, SeeJob, SeeChild, runVars, RuntimeCopy, RuntimeBusy
<1>9. ASSUME NEW new, RuntimeWritten(new) PROVE RuntimeCopy'
  BY <1>9, Zenon DEF RuntimeWritten, RuntimeCopy, RuntimeTypeOK
<1>10. ASSUME NEW k, NEW v, Meddle(k, v) PROVE RuntimeCopy'
  BY <1>10, Zenon DEF Meddle, runVars, RuntimeCopy, RuntimeBusy
<1>11. ASSUME NEW v, MeddleJob(v) PROVE RuntimeCopy'
  BY <1>11, Zenon DEF MeddleJob, runVars, RuntimeCopy, RuntimeBusy
<1>12. CASE Users \/ Collect
  BY <1>9, <1>10, <1>11, <1>12, Zenon DEF Users, Collect, EditSpec, Annotate, DeleteRuntime
<1>13. CASE Crash \/ StartUp
  BY <1>0, <1>13 DEF Crash, StartUp, seenVars, RuntimeCopy, RuntimeBusy
<1>14. CASE UNCHANGED runtimeVars
  BY <1>14, Zenon DEF runtimeVars, seenVars, childVars, runVars, RuntimeCopy, RuntimeBusy
<1> QED
  BY <1>1, <1>2, <1>3, <1>4, <1>5, <1>6, <1>7, <1>8, <1>12, <1>13, <1>14, Zenon
     DEF RuntimeNext, Reconcile, StepOk

\* A write that leaves every cached copy current changed nothing.
LEMMA PutIsIdle ==
  ASSUME RuntimeTypeOK, NEW k \in Kinds, Put(k), Clean'
  PROVE  Clean /\ obj[k] = work.gen /\ obj' = obj
<1>1. ~queued /\ rtCur /\ ~sjEvent /\ \A l \in Kinds : cache'[l] = "current"
  BY Zenon DEF Clean, Put
<1>2. obj[k] = work.gen
  <2> SUFFICES ASSUME obj[k] # work.gen PROVE FALSE
    BY Zenon
  <2>1. cache' = Behind(k)
    BY Zenon DEF Put
  <2> QED
    BY <1>1, <2>1, Zenon DEF Behind, RuntimeTypeOK
<1>3. cache' = cache /\ obj' = obj
  BY <1>2, Zenon DEF Put, RuntimeTypeOK
<1> QED
  BY <1>1, <1>2, <1>3, Zenon DEF Clean

\* While nothing is left to be done, Reconcile works on the current runtime.
LEMMA CleanWork ==
  ASSUME RuntimeTypeOK, RuntimeCopy, Clean, RuntimeBusy
  PROVE  work.gen = rt.gen /\ work.mode = rt.mode
BY Zenon DEF RuntimeCopy, Clean, RuntimeTypeOK

\* At each place of Reconcile, what it passed on its way is right.
LEMMA ReachedStep ==
  RuntimeInv /\ [RuntimeNext]_runtimeVars => (Clean /\ rt.gen # 0 => Reached)'
<1> SUFFICES ASSUME RuntimeInv, [RuntimeNext]_runtimeVars, Clean', rt'.gen # 0 PROVE Reached'
  BY Zenon
<1> USE DEF RuntimeInv
<1>1. CASE Fetch
  <2>1. rtCur /\ rtSeen = rt /\ rt' = rt
    BY <1>1, Zenon DEF Fetch, seenVars, Clean, RuntimeCopy
  <2>2. pc' = Children[1]
    BY <1>1, <2>1, Zenon DEF Fetch, Goto
  <2> QED
    BY <2>2, Places DEF Reached
<1>2. ASSUME NEW i \in DOMAIN Children, PutChild(i) PROVE Reached'
  <2>1. Clean /\ obj[Children[i]] = work.gen /\ obj' = obj /\ rt' = rt
    BY <1>2, PutIsIdle, Places, Zenon DEF PutChild, Put
  <2>2. pc = Children[i] /\ pc' = After(i)
    BY <1>2, Zenon DEF PutChild, Goto
  <2>3. work.gen = rt.gen
    BY <2>1, <2>2, CleanWork, Places, Zenon DEF RuntimeBusy
  <2>4. \A j \in 1 .. i : obj'[Children[j]] = rt'.gen
    BY <2>1, <2>2, <2>3, Places DEF Reached
  <2>5. CASE i < Len(Children)
    <3>1. pc' = Children[i + 1] /\ i + 1 \in DOMAIN Children
      BY <2>2, <2>5, Places DEF After
    <3> QED
      BY <2>4, <3>1, Places DEF Reached
  <2>6. CASE ~(i < Len(Children))
    <3>1. pc' = "delete" /\ i = Len(Children)
      BY <2>2, <2>6, Places DEF After
    <3>2. AllPut'
      BY <2>4, <3>1, Places, Zenon DEF AllPut
    <3> QED
      BY <3>1, <3>2, Places, Zenon DEF Reached
  <2> QED
    BY <2>5, <2>6, Zenon
<1>3. CASE DeleteOther
  <2>1. rt' = rt /\ pc = "delete" /\ pc' = "workload" /\ RuntimeBusy
    BY <1>3, Zenon DEF DeleteOther, Goto, RuntimeBusy
  <2>2. Clean /\ obj' = obj /\ (work.mode = "job" => obj["dep"] = absent) /\ (work.mode # "job" => sj' = absent)
    <3>1. CASE work.mode = "job"
      <4>1. ~SeesDeployment
        <5> SUFFICES ASSUME SeesDeployment PROVE FALSE
          BY Zenon
        <5>1. cache' = Behind("dep") /\ cache'["dep"] = "current"
          BY <1>3, <3>1, Places, Zenon DEF DeleteOther, Clean
        <5> QED
          BY <5>1, Places, Zenon DEF Behind, RuntimeTypeOK
      <4>2. Clean /\ obj' = obj
        BY <1>3, <3>1, <4>1, Zenon DEF DeleteOther, Clean
      <4>3. obj["dep"] = absent
        BY <4>1, <4>2, Places, Zenon DEF SeesDeployment, Clean
      <4> QED
        BY <3>1, <4>2, <4>3, Zenon
    <3>2. CASE work.mode # "job"
      <4>1. ~sjEvent /\ sj' = absent /\ UNCHANGED <<obj, cache, rtCur, queued>>
        BY <1>3, <3>2, Zenon DEF DeleteOther, Clean, RuntimeTypeOK
      <4> QED
        BY <3>2, <4>1, Zenon DEF Clean
    <3> QED
      BY <3>1, <3>2, Zenon
  <2>3. work.gen = rt.gen /\ work.mode = rt.mode
    BY <2>1, <2>2, CleanWork, Zenon
  <2>4. AllPut'
    BY <2>1, <2>2, Zenon DEF Reached, AllPut
  <2>5. OtherGone'
    BY <2>1, <2>2, <2>3, Zenon DEF OtherGone
  <2> QED
    BY <2>1, <2>4, <2>5, Places, Zenon DEF Reached
<1>4. CASE PutScaledJob
  <2>1. /\ ~sjEvent /\ sj' = work.gen /\ sj = work.gen /\ work'.sjName = TRUE /\ work.mode = "job"
        /\ UNCHANGED <<obj, cache, rtCur, queued, rt>> /\ pc = "workload" /\ pc' = "status"
    BY <1>4, Zenon DEF PutScaledJob, Goto, Clean, RuntimeTypeOK
  <2>2. Clean /\ RuntimeBusy
    BY <2>1, Zenon DEF Clean, RuntimeBusy
  <2>3. work.gen = rt.gen /\ work.mode = rt.mode /\ AllPut /\ OtherGone
    BY <2>1, <2>2, CleanWork, Zenon DEF Reached
  <2>4. Matches' /\ work'.sjName = (rt'.mode = "job")
    BY <2>1, <2>3, Zenon DEF Matches, AllPut, OtherGone
  <2> QED
    BY <2>1, <2>4, Places, Zenon DEF Reached
<1>5. CASE PutDeployment
  <2>1. Clean /\ obj["dep"] = work.gen /\ obj' = obj
    BY <1>5, PutIsIdle, Places, Zenon DEF PutDeployment
  <2>2. /\ work'.sjName = FALSE /\ work.mode = "static" /\ UNCHANGED <<rt, sj>>
        /\ pc = "workload" /\ pc' = "status" /\ RuntimeBusy
    BY <1>5, Zenon DEF PutDeployment, Put, Goto, RuntimeBusy, RuntimeTypeOK
  <2>3. work.gen = rt.gen /\ work.mode = rt.mode /\ AllPut /\ OtherGone
    BY <2>1, <2>2, CleanWork, Zenon DEF Reached
  <2>4. Matches' /\ work'.sjName = (rt'.mode = "job")
    BY <2>1, <2>2, <2>3, Zenon DEF Matches, AllPut, OtherGone
  <2> QED
    BY <2>2, <2>4, Places, Zenon DEF Reached
<1>6. CASE WriteStatus
  <2>1. ~queued /\ ~failed /\ rtCur /\ rt = NewStatus /\ rt' = rt
    BY <1>6, Zenon DEF WriteStatus, Return, Clean, RuntimeTypeOK
  <2>2. UNCHANGED <<cache, sjEvent, obj, sj>> /\ pc = "status" /\ pc' = "idle"
    BY <1>6, Zenon DEF WriteStatus, Return, Goto, childVars
  <2>3. Clean /\ RuntimeBusy
    BY <2>1, <2>2, Zenon DEF Clean, RuntimeBusy
  <2>4. work.gen = rt.gen /\ Matches /\ work.sjName = (rt.mode = "job")
    BY <2>1, <2>2, <2>3, CleanWork, Zenon DEF Reached
  <2>5. rt.observed = work.gen /\ rt.cond = "ok" /\ rt.sjName = work.sjName
    BY <2>1, Zenon DEF NewStatus, RuntimeTypeOK, Runtimes
  <2>6. Done'
    BY <2>1, <2>2, <2>4, <2>5, Zenon DEF Done, Matches
  <2> QED
    BY <2>2, <2>6, Places, Zenon DEF Reached
<1>7. CASE StatusFails \/ Informers \/ StartUp
  BY <1>7, Zenon DEF StatusFails, Return, Informers, SeeRuntime, SeeJob, SeeChild, StartUp, Clean
<1>8. CASE Fail
  BY <1>8, Places, Zenon DEF Fail, Goto, Reached
<1>9. ASSUME NEW new, RuntimeWritten(new) PROVE FALSE
  BY <1>9, Zenon DEF RuntimeWritten, Clean
<1>10. ASSUME NEW k \in Kinds, NEW v, Meddle(k, v) PROVE FALSE
  <2>1. cache' = Behind(k) /\ cache'[k] = "current"
    BY <1>10, Zenon DEF Meddle, Clean
  <2> QED
    BY <2>1, Zenon DEF Behind, RuntimeTypeOK
<1>11. ASSUME NEW v, MeddleJob(v) PROVE FALSE
  BY <1>11, Zenon DEF MeddleJob, Clean
<1>12. CASE Users \/ Collect
  BY <1>9, <1>10, <1>11, <1>12, Zenon DEF Users, Collect, EditSpec, Annotate, DeleteRuntime
<1>13. CASE Crash
  BY <1>13, Places, Zenon DEF Crash, Reached
<1>14. CASE UNCHANGED runtimeVars
  BY <1>14, Zenon DEF runtimeVars, seenVars, childVars, runVars, Clean, Reached, AllPut, OtherGone, Matches, Done
<1> QED
  BY <1>1, <1>2, <1>3, <1>4, <1>5, <1>6, <1>7, <1>8, <1>12, <1>13, <1>14, Zenon
     DEF RuntimeNext, Reconcile, StepOk

\* A Reconcile that has nothing left to do leaves children that match the spec
\* and a status that says so, for any number of children and generations and
\* with any calls of the server refused (agentruntime_controller.go:102-199).
THEOREM QuietRuntime == RuntimeSpec => []QuietIsRight
<1>1. RuntimeInv /\ [RuntimeNext]_runtimeVars => RuntimeInv'
  BY RuntimeTypeStep, RuntimeCopyStep, ReachedStep, Zenon DEF RuntimeInv
<1>2. RuntimeInv => QuietIsRight
  BY Zenon DEF RuntimeInv, QuietIsRight, Quiet, Clean, Reached, Done
<1> QED
  BY <1>1, <1>2, RuntimeInitInv, PTL DEF RuntimeSpec

----------------------------------------------------------------------------
(* The ModelConfig controller                                              *)

ConfigBusy == mcPc \in {"degrade", "persist"}

\* No hash is ahead of the Secret, nor of its cached copy.
Below(h) == h <= latest /\ (secretSeen # missing => h <= secretSeen)

SecretGrows ==
  /\ secret # missing => secret = latest
  /\ secretSeen # missing => secretSeen <= latest
  /\ mc.hash <= latest /\ mcSeen.hash <= latest /\ Below(mcWork.new)
  /\ \A a \in Agents : Below(agents[a].ann)

\* Annotations only grow, also with a Reconcile at work.
HashesGrow ==
  \A a \in Agents :
    /\ agentsSeen[a].ann <= agents[a].ann
    /\ mcPc = "persist" => agents[a].ann <= mcWork.new
    /\ agents[a].refers /\ a \notin missed => mc.hash <= agents[a].ann

\* Before the config refers to a Secret there is no hash.
NoneIsZero ==
  /\ mc.spec = "none" => mcSeen.spec = "none"
  /\ mcSeen.spec = "none" => mcWork.new = 0 /\ \A a \in Agents : agents[a].ann = 0

ConfigCopy ==
  /\ mcCur => mcSeen = Copy
  /\ ConfigBusy /\ ~mcWork.cur => ~mcCur \/ mcQueued

\* What was listed had a reference; what was not is missed.
ListIsRight ==
  /\ \A a \in Agents : agentsSeen[a].refers => agents[a].refers
  /\ \A a \in Agents : agents[a].refers /\ ~agentsSeen[a].refers => a \in missed
  /\ \A a \in mcWork.listed : agentsSeen[a].refers
  /\ items # {} => mcPc = "persist"
  /\ mcPc # "persist" => mcWork.listed = {}
  /\ mcPc = "degrade" /\ mcWork.cur => mcWork.new = mc.hash
  /\ mcPc = "persist" /\ mcWork.cur /\ mcWork.new = mc.hash => mcWork.listed = {}

\* A listed runtime is still to be annotated, or has the new hash.
ListIsDone ==
  mcPc = "persist" /\ mcWork.cur /\ mcWork.new # mc.hash =>
    \A a \in Agents :
      agents[a].refers => a \in items \/ agents[a].ann = mcWork.new \/ a \in missed \ mcWork.listed

\* Unless the config is queued again, Reconcile works for the cached Secret.
CacheIsUsed ==
  ~mcQueued /\ mcCur /\ mcSeen.spec # "deleted" =>
    /\ mcPc = "persist" => mcWork.new = resolveSecretHash /\ resolveSecretHash # missing
    /\ mcPc = "degrade" => resolveSecretHash = missing
    /\ mcPc = "idle" =>
         \/ resolveSecretHash # missing /\ mc.cond = "ok" /\ mc.hash = resolveSecretHash
         \/ resolveSecretHash = missing /\ mc.cond = "degraded" /\ timer

ConfigInv ==
  /\ ~Reverts /\ ConfigTypeOK
  /\ SecretGrows /\ HashesGrow /\ NoneIsZero /\ ConfigCopy /\ ListIsRight /\ ListIsDone /\ CacheIsUsed

\* The contents are numbers; zero is one of them and the least.
LEMMA Numbers ==
  /\ Contents \subseteq Nat /\ 0 \in Contents /\ missing \notin Contents
  /\ idleWork \in [cur : BOOLEAN, new : Contents, listed : SUBSET Agents]
  /\ idleWork.new = 0 /\ idleWork.listed = {} /\ idleWork.cur = FALSE
BY ConfigAssumption DEF missing, idleWork

\* ConfigInit establishes the invariant.
LEMMA ConfigInitInv == ~Reverts /\ ConfigInit => ConfigInv
<1> SUFFICES ASSUME ~Reverts, ConfigInit PROVE ConfigInv
  BY Zenon
<1>1. ConfigTypeOK
  <2>1. mc \in [spec : {"secret", "none", "deleted"}, hash : Contents, cond : {"none", "ok", "degraded"}]
    BY Numbers, Zenon DEF ConfigInit
  <2>2. mcSeen \in [spec : {"secret", "none", "deleted"}, hash : Contents]
    BY <2>1, Zenon DEF ConfigInit, Copy
  <2>3. agents \in [Agents -> [refers : BOOLEAN, ann : Contents]]
    BY Numbers DEF ConfigInit
  <2> QED
    BY <2>1, <2>2, <2>3, Numbers, Zenon DEF ConfigInit, ConfigTypeOK
<1>2. latest \in Nat /\ (secretSeen # missing => secretSeen \in Nat /\ secretSeen = latest)
  BY Numbers, Zenon DEF ConfigInit
<1>3. mcWork.new = 0 /\ mc.hash = 0 /\ mcSeen = Copy /\ mcSeen.hash = 0 /\ mcSeen.spec = mc.spec
  BY Numbers, Zenon DEF ConfigInit, Copy
<1>4. \A a \in Agents : agents[a].ann = 0 /\ agentsSeen[a] = agents[a]
  BY Zenon DEF ConfigInit
<1>5. SecretGrows
  BY <1>2, <1>3, <1>4 DEF SecretGrows, Below, ConfigInit
<1>6. HashesGrow
  BY <1>3, <1>4 DEF HashesGrow, ConfigInit
<1>7. NoneIsZero
  BY <1>3, <1>4, Zenon DEF NoneIsZero
<1>8. ConfigCopy /\ ListIsDone /\ CacheIsUsed
  BY <1>3, Zenon DEF ConfigCopy, ConfigBusy, ListIsDone, CacheIsUsed, ConfigInit
<1>9. ListIsRight
  BY <1>4, Numbers, Zenon DEF ListIsRight, ConfigInit
<1> QED
  BY <1>1, <1>5, <1>6, <1>7, <1>8, <1>9, Zenon DEF ConfigInv

\* The actions of the controller and what is around it, one by one.
LEMMA ConfigSteps ==
  ASSUME [ConfigNext]_configVars
  PROVE  \/ \E v \in {missing} \cup Contents : EditSecret(v)
         \/ \E s \in {"secret", "none", "deleted"} : EditConfig(s)
         \/ \E a \in Agents : Touch(a) \/ Join(a) \/ SeeAgent(a) \/ Propagate(a)
         \/ SeeConfig \/ SeeSecret \/ TimerEnds \/ CrashConfig \/ StartUpConfig
         \/ FetchConfig \/ Degrade \/ Persist \/ ConfigFails \/ UNCHANGED configVars
BY Zenon DEF ConfigNext, ConfigReconcile, ConfigUsers, ConfigInformers

\* What the three actions that write a runtime do to it.
LEMMA AgentStep ==
  ASSUME ConfigTypeOK, NEW a \in Agents, Touch(a) \/ Join(a) \/ Propagate(a)
  PROVE  /\ agents' \in [Agents -> [refers : BOOLEAN, ann : Contents]]
         /\ \A b \in Agents \ {a} : agents'[b] = agents[b]
         /\ agents'[a].ann = IF Propagate(a) THEN mcWork.new ELSE agents[a].ann
         /\ agents[a].refers => agents'[a].refers
         /\ Join(a) \/ agents'[a].refers = agents[a].refers
<1>0. agents[a] \in [refers : BOOLEAN, ann : Contents] /\ mcWork.new \in Contents
  BY Zenon DEF ConfigTypeOK
<1> DEFINE Effect(new) == agents' = [agents EXCEPT ![a] = new]
<1>1. CASE Propagate(a)
  <2>1. Effect([agents[a] EXCEPT !.ann = mcWork.new])
    BY <1>1, Zenon DEF Propagate, AgentWritten
  <2> QED
    BY <1>0, <1>1, <2>1, Zenon DEF ConfigTypeOK
<1>2. CASE Touch(a) /\ ~Propagate(a)
  <2>1. Effect(agents[a])
    BY <1>2, Zenon DEF Touch, AgentWritten
  <2> QED
    BY <1>0, <1>2, <2>1, Zenon DEF ConfigTypeOK
<1>3. CASE Join(a) /\ ~Propagate(a)
  <2>1. Effect([agents[a] EXCEPT !.refers = TRUE])
    BY <1>3, Zenon DEF Join, AgentWritten
  <2> QED
    BY <1>0, <1>3, <2>1, Zenon DEF ConfigTypeOK
<1> QED
  BY <1>1, <1>2, <1>3, Zenon

\* Every step keeps the types.
LEMMA ConfigTypeStep == ConfigTypeOK /\ [ConfigNext]_configVars => ConfigTypeOK'
<1> SUFFICES ASSUME ConfigTypeOK, [ConfigNext]_configVars PROVE ConfigTypeOK'
  OBVIOUS
<1>0. Copy \in [spec : {"secret", "none", "deleted"}, hash : Contents]
  BY Zenon DEF Copy, ConfigTypeOK
<1>1. ASSUME NEW v \in {missing} \cup Contents, EditSecret(v) PROVE ConfigTypeOK'
  <2>1. latest' \in Contents
    <3>1. latest \in Contents /\ latest \in Nat
      BY Numbers, Zenon DEF ConfigTypeOK
    <3>2. v = missing => ~(v > latest)
      BY <3>1 DEF missing
    <3> QED
      BY <1>1, <3>1, <3>2, Zenon DEF EditSecret
  <2>2. secret' \in {missing} \cup Contents
    BY <1>1, Zenon DEF EditSecret
  <2> QED
    BY <1>1, <2>1, <2>2 DEF EditSecret, mcSeenVars, mcRunVars, ConfigTypeOK
<1>2. ASSUME NEW s \in {"secret", "none", "deleted"}, EditConfig(s) PROVE ConfigTypeOK'
  BY <1>2, Zenon DEF EditConfig, historyVars, ConfigTypeOK
<1>3. ASSUME NEW a \in Agents, Touch(a) \/ Join(a) \/ Propagate(a) PROVE ConfigTypeOK'
  <2>2. agents' \in [Agents -> [refers : BOOLEAN, ann : Contents]]
    BY <1>3, AgentStep, Zenon
  <2>3. /\ itemsCur' = itemsCur \ {a} /\ items' \in {items, items \ {a}}
        /\ agentsCur' = agentsCur \ {a} /\ missed' \in {missed, missed \cup {a}}
    BY <1>3, Zenon DEF Touch, Join, Propagate, AgentWritten, historyVars
  <2>4. itemsCur' \subseteq items' /\ items' \cup agentsCur' \cup missed' \subseteq Agents
    BY <1>3, <2>3, Zenon DEF Touch, Join, Propagate, ConfigTypeOK
  <2> QED
    BY <1>3, <2>2, <2>4 DEF Touch, Join, Propagate, AgentWritten, historyVars, ConfigTypeOK
<1>4. ASSUME NEW a \in Agents, SeeAgent(a) PROVE ConfigTypeOK'
  <2>1. agentsSeen' \in [Agents -> [refers : BOOLEAN, ann : Contents]]
    BY <1>4, Zenon DEF SeeAgent, ConfigTypeOK
  <2> QED
    BY <1>4, <2>1 DEF SeeAgent, serverVars, mcRunVars, historyVars, ConfigTypeOK
<1>5. CASE SeeConfig \/ TimerEnds
  BY <1>0, <1>5, Zenon DEF SeeConfig, TimerEnds, serverVars, mcSeenVars, mcRunVars, historyVars, ConfigTypeOK
<1>6. CASE SeeSecret
  <2>1. mcQueued' \in BOOLEAN
    BY <1>6, Zenon DEF SeeSecret, mapSecretToModelConfigs, ConfigTypeOK
  <2> QED
    BY <1>6, <2>1 DEF SeeSecret, serverVars, mcRunVars, historyVars, ConfigTypeOK
<1>7. CASE CrashConfig \/ StartUpConfig
  BY <1>0, <1>7, Numbers, Zenon DEF CrashConfig, StartUpConfig, serverVars, mcSeenVars, historyVars, ConfigTypeOK
<1>8. CASE FetchConfig
  <2>1. mcSeen.hash \in Contents /\ mcCur \in BOOLEAN /\ mcQueued' \in BOOLEAN
    BY <1>8, Zenon DEF FetchConfig, ConfigTypeOK
  <2>2. resolveSecretHash \in {missing} \cup Contents
    BY Numbers, Zenon DEF resolveSecretHash, ConfigTypeOK
  <2>3. mcWork' \in [cur : BOOLEAN, new : Contents, listed : SUBSET Agents]
    BY <1>8, <2>1, <2>2 DEF FetchConfig, mcRunVars, ConfigTypeOK
  <2>4. itemsCur' \subseteq items' /\ items' \subseteq Agents
    BY <1>8, Zenon DEF FetchConfig, mcRunVars, Outdated, ConfigTypeOK
  <2>5. mcPc' \in {"down", "idle", "degrade", "persist"}
    BY <1>8, Zenon DEF FetchConfig, mcRunVars, ConfigTypeOK
  <2> QED
    BY <1>8, <2>1, <2>3, <2>4, <2>5 DEF FetchConfig, serverVars, mcSeenVars, historyVars, ConfigTypeOK
<1>9. CASE Degrade \/ Persist
  <2>1. mc' \in [spec : {"secret", "none", "deleted"}, hash : Contents, cond : {"none", "ok", "degraded"}]
    BY <1>9, Zenon DEF Degrade, Persist, WriteConfig, ConfigTypeOK
  <2>2. mcCur' \in BOOLEAN /\ mcQueued' \in BOOLEAN /\ timer' \in BOOLEAN
    BY <1>9, Zenon DEF Degrade, Persist, WriteConfig, ConfigReturns, ConfigTypeOK
  <2> QED
    BY <1>9, <2>1, <2>2, Numbers DEF Degrade, Persist, WriteConfig, ConfigReturns, ConfigTypeOK
<1>10. CASE ConfigFails
  BY <1>10, Numbers DEF ConfigFails, ConfigReturns, serverVars, mcSeenVars, historyVars, ConfigTypeOK
<1>11. CASE UNCHANGED configVars
  BY <1>11 DEF configVars, serverVars, mcSeenVars, mcRunVars, historyVars, ConfigTypeOK
<1> QED
  BY <1>1, <1>2, <1>3, <1>4, <1>5, <1>6, <1>7, <1>8, <1>9, <1>10, <1>11, ConfigSteps, Zenon

\* Types of the numbers that are compared.
LEMMA Hashes ==
  ASSUME ConfigTypeOK
  PROVE  /\ latest \in Nat /\ mc.hash \in Nat /\ mcSeen.hash \in Nat /\ mcWork.new \in Nat
         /\ secret # missing => secret \in Nat
         /\ secretSeen # missing => secretSeen \in Nat
         /\ \A a \in Agents : agents[a].ann \in Nat /\ agentsSeen[a].ann \in Nat
BY Numbers, Zenon DEF ConfigTypeOK

\* Steps that write neither the Secret nor a hash.
LEMMA SecretFrame ==
  ASSUME SecretGrows, UNCHANGED <<secret, secretSeen, latest, mc, mcSeen, mcWork, agents>>
  PROVE  SecretGrows'
BY Zenon DEF SecretGrows, Below

\* What Reconcile's copy of the config becomes when it begins.
LEMMA NewHash ==
  ASSUME ConfigTypeOK, SecretGrows, NoneIsZero, FetchConfig
  PROVE  /\ mcWork'.new <= latest /\ (secretSeen # missing => mcWork'.new <= secretSeen)
         /\ mcSeen.spec = "none" => mcWork'.new = 0
         /\ mcPc' = "persist" => \A a \in Agents : agents[a].ann <= mcWork'.new
<1>0. mcSeen.spec \in {"secret", "none", "deleted"}
  BY Zenon DEF ConfigTypeOK
<1>1. CASE mcSeen.spec = "deleted"
  BY <1>1, Hashes, Zenon DEF FetchConfig, mcRunVars, SecretGrows, Below
<1>2. CASE mcSeen.spec = "none"
  <2>1. mcWork'.new = 0
    BY <1>2, Numbers DEF FetchConfig, resolveSecretHash
  <2> QED
    BY <1>2, <2>1, Hashes DEF NoneIsZero
<1>3. CASE mcSeen.spec = "secret" /\ secretSeen = missing
  <2>1. mcWork'.new = mcSeen.hash /\ mcPc' = "degrade"
    BY <1>3 DEF FetchConfig, resolveSecretHash
  <2> QED
    BY <1>3, <2>1, Zenon DEF SecretGrows
<1>4. CASE mcSeen.spec = "secret" /\ secretSeen # missing
  <2>1. mcWork'.new = secretSeen
    BY <1>4 DEF FetchConfig, resolveSecretHash
  <2> QED
    BY <1>4, <2>1, Hashes DEF SecretGrows, Below
<1> QED
  BY <1>0, <1>1, <1>2, <1>3, <1>4, Zenon

\* No step lets a hash get ahead of the Secret.
LEMMA SecretStep ==
  ~Reverts /\ ConfigTypeOK /\ SecretGrows /\ NoneIsZero /\ [ConfigNext]_configVars => SecretGrows'
<1> SUFFICES ASSUME ~Reverts, ConfigTypeOK, SecretGrows, NoneIsZero, [ConfigNext]_configVars
             PROVE  SecretGrows'
  BY Zenon
<1>1. ASSUME NEW v \in {missing} \cup Contents, EditSecret(v) PROVE SecretGrows'
  <2>1. /\ secret' = v /\ latest <= latest' /\ latest' \in Nat /\ (v # missing => v = latest')
        /\ UNCHANGED <<secretSeen, mc, mcSeen, mcWork, agents>>
    <3>1. v = missing => ~(v > latest)
      BY Hashes DEF missing
    <3>2. v # missing => v \in Nat
      BY Numbers, Zenon
    <3> QED
      BY <1>1, <3>1, <3>2, Hashes DEF EditSecret, mcSeenVars, mcRunVars
  <2> QED
    BY <2>1, Hashes DEF SecretGrows, Below
<1>2. ASSUME NEW s \in {"secret", "none", "deleted"}, EditConfig(s) PROVE SecretGrows'
  <2>1. mc'.hash = mc.hash /\ mcWork'.new = mcWork.new /\ UNCHANGED <<secret, secretSeen, latest, mcSeen, agents>>
    BY <1>2, Zenon DEF EditConfig, historyVars, ConfigTypeOK
  <2> QED
    BY <2>1, Zenon DEF SecretGrows, Below
<1>3. ASSUME NEW a \in Agents, Touch(a) \/ Join(a) \/ Propagate(a) PROVE SecretGrows'
  <2>1. \A b \in Agents : agents'[b].ann \in {agents[b].ann, mcWork.new}
    BY <1>3, AgentStep, Zenon
  <2>2. UNCHANGED <<secret, secretSeen, latest, mc, mcSeen, mcWork>>
    BY <1>3, Zenon DEF Touch, Join, Propagate, historyVars
  <2> QED
    BY <2>1, <2>2, Zenon DEF SecretGrows, Below
<1>4. ASSUME NEW a \in Agents, SeeAgent(a) PROVE SecretGrows'
  BY <1>4, SecretFrame, Zenon DEF SeeAgent, serverVars, mcRunVars, historyVars
<1>5. CASE SeeConfig \/ StartUpConfig \/ TimerEnds
  <2>1. mcSeen'.hash \in {mcSeen.hash, mc.hash} /\ secretSeen' \in {secretSeen, secret}
    BY <1>5 DEF SeeConfig, StartUpConfig, TimerEnds, Copy, mcSeenVars
  <2>2. UNCHANGED <<secret, latest, mc, mcWork, agents>>
    BY <1>5, Zenon DEF SeeConfig, StartUpConfig, TimerEnds, serverVars, mcRunVars, historyVars
  <2> QED
    BY <2>1, <2>2, Hashes DEF SecretGrows, Below
<1>6. CASE SeeSecret
  <2>1. secretSeen' = secret /\ UNCHANGED <<secret, latest, mc, mcSeen, mcWork, agents>>
    BY <1>6, Zenon DEF SeeSecret, serverVars, mcRunVars, historyVars
  <2> QED
    BY <2>1, Hashes DEF SecretGrows, Below
<1>7. CASE CrashConfig \/ ConfigFails
  <2>1. mcWork'.new = 0 /\ UNCHANGED <<secret, secretSeen, latest, mc, mcSeen, agents>>
    BY <1>7, Numbers, Zenon DEF CrashConfig, ConfigFails, ConfigReturns, serverVars, mcSeenVars, historyVars
  <2> QED
    BY <2>1, Hashes DEF SecretGrows, Below
<1>8. CASE FetchConfig
  <2>1. UNCHANGED <<secret, secretSeen, latest, mc, mcSeen, agents>>
    BY <1>8, Zenon DEF FetchConfig, serverVars, mcSeenVars, historyVars
  <2> QED
    BY <1>8, <2>1, NewHash, Zenon DEF SecretGrows, Below
<1>9. CASE Degrade \/ Persist
  <2>1. mcWork'.new = 0 /\ mc'.hash \in {mc.hash, mcWork.new} /\ UNCHANGED <<secret, secretSeen, latest, mcSeen, agents>>
    BY <1>9, Numbers, Zenon DEF Degrade, Persist, WriteConfig, ConfigReturns, ConfigTypeOK
  <2> QED
    BY <2>1, Hashes DEF SecretGrows, Below
<1>10. CASE UNCHANGED configVars
  BY <1>10, SecretFrame, Zenon DEF configVars, serverVars, mcSeenVars, mcRunVars, historyVars
<1> QED
  BY <1>1, <1>2, <1>3, <1>4, <1>5, <1>6, <1>7, <1>8, <1>9, <1>10, ConfigSteps, Zenon

\* While no Secret is referred to, no step writes a hash.
LEMMA NoneStep ==
  ~Reverts /\ ConfigTypeOK /\ SecretGrows /\ NoneIsZero /\ [ConfigNext]_configVars => NoneIsZero'
<1> SUFFICES ASSUME ~Reverts, ConfigTypeOK, SecretGrows, NoneIsZero, [ConfigNext]_configVars
             PROVE  NoneIsZero'
  BY Zenon
<1>1. mc'.spec = "none" => mc.spec = "none"
  BY ConfigSteps, Zenon DEF EditSecret, EditConfig, Touch, Join, SeeAgent, Propagate, SeeConfig, SeeSecret, TimerEnds,
     CrashConfig, StartUpConfig, FetchConfig, Degrade, Persist, WriteConfig, ConfigFails, configVars, serverVars, ConfigTypeOK
<1>2. mcSeen' = mcSeen \/ mcSeen' = Copy
  BY ConfigSteps, Zenon DEF EditSecret, EditConfig, Touch, Join, SeeAgent, Propagate, SeeConfig, SeeSecret, TimerEnds,
     CrashConfig, StartUpConfig, FetchConfig, Degrade, Persist, WriteConfig, ConfigFails, configVars, mcSeenVars
<1>3. mcSeen'.spec = "none" => mcSeen.spec = "none"
  BY <1>2 DEF NoneIsZero, Copy
<1>4. mc'.spec = "none" => mcSeen'.spec = "none"
  BY <1>1, <1>2 DEF NoneIsZero, Copy
<1>5. mcWork'.new \in {mcWork.new, 0} \/ FetchConfig
  BY ConfigSteps, Numbers, Zenon DEF EditSecret, EditConfig, Touch, Join, SeeAgent, Propagate, SeeConfig, SeeSecret, TimerEnds,
     CrashConfig, StartUpConfig, Degrade, Persist, WriteConfig, ConfigReturns, ConfigFails, configVars, mcRunVars, ConfigTypeOK
<1>6. mcSeen.spec = "none" => mcWork'.new = 0
  BY <1>5, NewHash, Zenon DEF NoneIsZero
<1>7. agents' = agents \/ \E a \in Agents : Touch(a) \/ Join(a) \/ Propagate(a)
  BY ConfigSteps, Zenon DEF EditSecret, EditConfig, SeeAgent, SeeConfig, SeeSecret, TimerEnds,
     CrashConfig, StartUpConfig, FetchConfig, Degrade, Persist, WriteConfig, ConfigFails, configVars, serverVars
<1>8. \A a \in Agents : agents'[a].ann \in {agents[a].ann, mcWork.new}
  BY <1>7, AgentStep, Zenon
<1> QED
  BY <1>3, <1>4, <1>6, <1>8, Zenon DEF NoneIsZero

\* A new hash is persisted when every runtime listed for it has it.
LEMMA PersistDone ==
  ASSUME ListIsDone, Persist, mcWork.new # mc.hash
  PROVE  \A a \in Agents \ missed' : agents[a].refers => agents[a].ann = mcWork.new
BY Zenon DEF ListIsDone, Persist, WriteConfig

\* No step takes an annotation back, or puts the status ahead of one.
LEMMA HashesStep == ConfigInv /\ [ConfigNext]_configVars => HashesGrow'
<1> SUFFICES ASSUME ConfigInv, [ConfigNext]_configVars PROVE HashesGrow'
  BY Zenon
<1>0. ConfigTypeOK /\ SecretGrows /\ NoneIsZero /\ HashesGrow /\ ListIsRight /\ ListIsDone
  BY Zenon DEF ConfigInv
<1>1. ASSUME NEW v \in {missing} \cup Contents, EditSecret(v) PROVE HashesGrow'
  BY <1>0, <1>1, Zenon DEF EditSecret, mcSeenVars, mcRunVars, HashesGrow
<1>2. ASSUME NEW s \in {"secret", "none", "deleted"}, EditConfig(s) PROVE HashesGrow'
  <2>1. mc'.hash = mc.hash /\ mcWork'.new = mcWork.new /\ UNCHANGED <<mcPc, agents, agentsSeen, missed>>
    BY <1>0, <1>2, Zenon DEF EditConfig, historyVars, ConfigTypeOK
  <2> QED
    BY <1>0, <2>1, Zenon DEF HashesGrow
<1>3. ASSUME NEW a \in Agents, Touch(a) \/ Join(a) \/ Propagate(a) PROVE HashesGrow'
  <2>1. UNCHANGED <<mc, mcPc, mcWork, agentsSeen>> /\ missed \subseteq missed' /\ (Join(a) => a \in missed')
    BY <1>3, Zenon DEF Touch, Join, Propagate, historyVars
  <2>2. \A b \in Agents \ {a} : agents'[b] = agents[b]
    BY <1>0, <1>3, AgentStep, Zenon
  <2>3. agents[a].ann <= agents'[a].ann /\ agents'[a].ann \in Nat /\ agents[a].ann \in Nat
        /\ (mcPc = "persist" => agents'[a].ann <= mcWork.new)
    <3>1. CASE Propagate(a)
      <4>1. agents'[a].ann = mcWork.new /\ mcPc = "persist"
        BY <1>0, <1>3, <3>1, AgentStep, Zenon DEF Propagate, ListIsRight
      <4> QED
        BY <1>0, <4>1, Hashes DEF HashesGrow
    <3>2. CASE ~Propagate(a)
      <4>1. agents'[a].ann = agents[a].ann
        BY <1>0, <1>3, <3>2, AgentStep, Zenon
      <4> QED
        BY <1>0, <4>1, Hashes DEF HashesGrow
    <3> QED
      BY <3>1, <3>2, Zenon
  <2>4. a \notin missed' => (agents'[a].refers => agents[a].refers)
    BY <1>0, <1>3, <2>1, AgentStep, Zenon
  <2>5. ASSUME NEW b \in Agents, b # a
        PROVE  /\ agentsSeen'[b].ann <= agents'[b].ann
               /\ mcPc' = "persist" => agents'[b].ann <= mcWork'.new
               /\ agents'[b].refers /\ b \notin missed' => mc'.hash <= agents'[b].ann
    BY <1>0, <2>1, <2>2, <2>5, Zenon DEF HashesGrow
  <2>6. /\ agentsSeen'[a].ann <= agents'[a].ann
        /\ mcPc' = "persist" => agents'[a].ann <= mcWork'.new
        /\ agents'[a].refers /\ a \notin missed' => mc'.hash <= agents'[a].ann
    BY <1>0, <2>1, <2>3, <2>4, Hashes DEF HashesGrow
  <2> QED
    BY <2>5, <2>6, Zenon DEF HashesGrow
<1>4. ASSUME NEW a \in Agents, SeeAgent(a) PROVE HashesGrow'
  <2>1. \A b \in Agents : agentsSeen'[b].ann \in {agentsSeen[b].ann, agents[b].ann}
    BY <1>0, <1>4, Zenon DEF SeeAgent, ConfigTypeOK
  <2>2. UNCHANGED <<mc, mcPc, mcWork, agents, missed>>
    BY <1>4, Zenon DEF SeeAgent, serverVars, mcRunVars, historyVars
  <2> QED
    BY <1>0, <2>1, <2>2, Hashes DEF HashesGrow
<1>5. CASE SeeConfig \/ SeeSecret \/ TimerEnds \/ UNCHANGED configVars
  BY <1>0, <1>5, Zenon DEF SeeConfig, SeeSecret, TimerEnds, configVars, serverVars, mcSeenVars, mcRunVars, historyVars, HashesGrow
<1>6. CASE CrashConfig \/ ConfigFails
  BY <1>0, <1>6, Zenon DEF CrashConfig, ConfigFails, ConfigReturns, serverVars, mcSeenVars, historyVars, HashesGrow
<1>7. CASE StartUpConfig
  <2>1. mcPc' = "idle" /\ agentsSeen' = agents /\ UNCHANGED <<mc, agents, missed>>
    BY <1>7, Zenon DEF StartUpConfig, serverVars, historyVars
  <2> QED
    BY <1>0, <2>1, Hashes DEF HashesGrow
<1>8. CASE FetchConfig
  <2>1. UNCHANGED <<mc, agents, agentsSeen, missed>>
    BY <1>8, Zenon DEF FetchConfig, serverVars, mcSeenVars, historyVars
  <2> QED
    BY <1>0, <1>8, <2>1, NewHash, Zenon DEF HashesGrow
<1>9. CASE Degrade
  <2>1. mcPc' = "idle" /\ mc'.hash = mc.hash /\ missed' = missed /\ UNCHANGED <<agents, agentsSeen>>
    BY <1>0, <1>9, Zenon DEF Degrade, WriteConfig, ConfigReturns, ListIsRight, ConfigTypeOK
  <2> QED
    BY <1>0, <2>1, Zenon DEF HashesGrow
<1>10. CASE Persist
  <2>1. mcPc' = "idle" /\ mc'.hash = mcWork.new /\ mcWork.cur /\ mcPc = "persist" /\ UNCHANGED <<agents, agentsSeen>>
    BY <1>0, <1>10, Zenon DEF Persist, WriteConfig, ConfigReturns, ConfigTypeOK
  <2>2. \A a \in Agents \ missed' : agents[a].refers => mcWork.new <= agents[a].ann
    <3>1. CASE mcWork.new # mc.hash
      BY <1>0, <1>10, <3>1, PersistDone, Hashes
    <3>2. CASE mcWork.new = mc.hash
      <4>1. missed' = missed
        BY <1>0, <1>10, <2>1, <3>2, Zenon DEF ListIsRight, Persist, WriteConfig
      <4> QED
        BY <1>0, <3>2, <4>1, Zenon DEF HashesGrow
    <3> QED
      BY <3>1, <3>2, Zenon
  <2> QED
    BY <1>0, <2>1, <2>2, Zenon DEF HashesGrow
<1> QED
  BY <1>1, <1>2, <1>3, <1>4, <1>5, <1>6, <1>7, <1>8, <1>9, <1>10, ConfigSteps, Zenon

\* A copy that is out of date leaves an event or a queue entry behind.
LEMMA ConfigCopyStep == ConfigTypeOK /\ ConfigCopy /\ [ConfigNext]_configVars => ConfigCopy'
<1> SUFFICES ASSUME ConfigTypeOK, ConfigCopy, [ConfigNext]_configVars PROVE ConfigCopy'
  OBVIOUS
<1>1. ASSUME NEW v, EditSecret(v) PROVE ConfigCopy'
  BY <1>1, Zenon DEF EditSecret, mcSeenVars, mcRunVars, ConfigCopy, Copy, ConfigBusy
<1>2. ASSUME NEW s, EditConfig(s) PROVE ConfigCopy'
  BY <1>2, Zenon DEF EditConfig, ConfigCopy
<1>3. ASSUME NEW a \in Agents, Touch(a) \/ Join(a) \/ Propagate(a) \/ SeeAgent(a) PROVE ConfigCopy'
  BY <1>3 DEF Touch, Join, Propagate, SeeAgent, serverVars, mcRunVars, ConfigCopy, Copy, ConfigBusy
<1>4. CASE SeeConfig \/ SeeSecret \/ TimerEnds
  <2>1. UNCHANGED <<mc, mcPc, mcWork>> /\ (mcQueued => mcQueued')
    BY <1>4, Zenon DEF SeeConfig, SeeSecret, TimerEnds, serverVars, mcRunVars
  <2>2. (mcSeen' = Copy /\ mcQueued') \/ UNCHANGED <<mcSeen, mcCur>>
    BY <1>4, Zenon DEF SeeConfig, SeeSecret, TimerEnds, mcSeenVars
  <2> QED
    BY <2>1, <2>2 DEF ConfigCopy, Copy, ConfigBusy
<1>5. CASE CrashConfig \/ StartUpConfig \/ ConfigFails
  <2>1. mc' = mc /\ mcPc' \in {"idle", "down"}
    BY <1>5, Zenon DEF CrashConfig, StartUpConfig, ConfigFails, ConfigReturns, serverVars
  <2>2. mcSeen' = Copy \/ UNCHANGED <<mcSeen, mcCur>>
    BY <1>5, Zenon DEF CrashConfig, StartUpConfig, ConfigFails, mcSeenVars
  <2> QED
    BY <2>1, <2>2 DEF ConfigCopy, Copy, ConfigBusy
<1>6. CASE FetchConfig
  <2>1. UNCHANGED <<mc, mcSeen, mcCur>>
    BY <1>6, Zenon DEF FetchConfig, serverVars, mcSeenVars
  <2>2. (mcPc' = "idle") \/ (mcWork'.cur = mcCur)
    BY <1>6 DEF FetchConfig, mcRunVars
  <2> QED
    BY <2>1, <2>2, Zenon DEF ConfigCopy, Copy, ConfigBusy
<1>7. CASE Degrade \/ Persist
  <2>1. mcPc' = "idle" /\ mcSeen' = mcSeen /\ (mcCur' => mcCur /\ mc' = mc)
    BY <1>7, Zenon DEF Degrade, Persist, WriteConfig, ConfigReturns, ConfigTypeOK
  <2> QED
    BY <2>1, Zenon DEF ConfigCopy, Copy, ConfigBusy
<1>8. CASE UNCHANGED configVars
  BY <1>8, Zenon DEF configVars, serverVars, mcSeenVars, mcRunVars, ConfigCopy, Copy, ConfigBusy
<1> QED
  BY <1>1, <1>2, <1>3, <1>4, <1>5, <1>6, <1>7, <1>8, ConfigSteps, Zenon

\* What a Reconcile lists is kept in step with what it has still to annotate.
LEMMA ListStep == ConfigInv /\ [ConfigNext]_configVars => ListIsRight' /\ ListIsDone'
<1> SUFFICES ASSUME ConfigInv, [ConfigNext]_configVars PROVE ListIsRight' /\ ListIsDone'
  BY Zenon
<1>0. ConfigTypeOK /\ SecretGrows /\ NoneIsZero /\ HashesGrow /\ ConfigCopy /\ ListIsRight /\ ListIsDone
  BY Zenon DEF ConfigInv
<1>1. ASSUME NEW v \in {missing} \cup Contents, EditSecret(v) PROVE ListIsRight' /\ ListIsDone'
  BY <1>0, <1>1, Zenon DEF EditSecret, mcSeenVars, mcRunVars, ListIsRight, ListIsDone
<1>2. ASSUME NEW s \in {"secret", "none", "deleted"}, EditConfig(s) PROVE ListIsRight' /\ ListIsDone'
  <2>1. /\ mcWork'.listed = mcWork.listed /\ ~mcWork'.cur
        /\ UNCHANGED <<mcPc, items, agents, agentsSeen, missed>>
    BY <1>0, <1>2, Zenon DEF EditConfig, historyVars, ConfigTypeOK
  <2> QED
    BY <1>0, <2>1, Zenon DEF ListIsRight, ListIsDone
<1>3. ASSUME NEW a \in Agents, Touch(a) \/ Join(a) \/ Propagate(a) PROVE ListIsRight' /\ ListIsDone'
  <2>1. UNCHANGED <<mc, mcPc, mcWork, agentsSeen>> /\ items' \subseteq items /\ items \ {a} \subseteq items'
        /\ missed \subseteq missed' /\ (items' = items \/ Propagate(a))
    BY <1>3, Zenon DEF Touch, Join, Propagate, historyVars
  <2>2. \A b \in Agents \ {a} : agents'[b] = agents[b]
    BY <1>0, <1>3, AgentStep, Zenon
  <2>3. /\ agents[a].refers => agents'[a].refers
        /\ agents'[a].refers /\ ~agents[a].refers => a \in missed'
        /\ agents'[a].ann = IF Propagate(a) THEN mcWork.new ELSE agents[a].ann
    <3>1. Join(a) => a \in missed'
      BY Zenon DEF Join
    <3> QED
      BY <1>0, <1>3, <3>1, AgentStep, Zenon
  <2>4. ListIsRight'
    <3>1. \A b \in Agents : agentsSeen'[b].refers => agents'[b].refers
      BY <1>0, <2>1, <2>2, <2>3, Zenon DEF ListIsRight
    <3>2. \A b \in Agents : agents'[b].refers /\ ~agentsSeen'[b].refers => b \in missed'
      BY <1>0, <2>1, <2>2, <2>3, Zenon DEF ListIsRight
    <3> QED
      BY <1>0, <2>1, <3>1, <3>2, Zenon DEF ListIsRight
  <2>5. ListIsDone'
    <3> SUFFICES ASSUME mcPc = "persist", mcWork.cur, mcWork.new # mc.hash, NEW b \in Agents, agents'[b].refers
                 PROVE  b \in items' \/ agents'[b].ann = mcWork.new \/ b \in missed' \ mcWork.listed
      BY <2>1, Zenon DEF ListIsDone
    <3>1. CASE b # a
      BY <1>0, <2>1, <2>2, <3>1, Zenon DEF ListIsDone
    <3>2. CASE b = a /\ agents[a].refers
      BY <1>0, <2>1, <2>3, <3>2, Zenon DEF ListIsDone
    <3>3. CASE b = a /\ ~agents[a].refers
      BY <1>0, <2>3, <3>3, Zenon DEF ListIsRight
    <3> QED
      BY <3>1, <3>2, <3>3, Zenon
  <2> QED
    BY <2>4, <2>5, Zenon
<1>4. ASSUME NEW a \in Agents, SeeAgent(a) PROVE ListIsRight' /\ ListIsDone'
  <2>1. agentsSeen'[a] = agents[a] /\ \A b \in Agents \ {a} : agentsSeen'[b] = agentsSeen[b]
    BY <1>0, <1>4, Zenon DEF SeeAgent, ConfigTypeOK
  <2>2. UNCHANGED <<mc, mcPc, mcWork, items, agents, missed>> /\ mcWork.listed \subseteq Agents
    BY <1>0, <1>4, Zenon DEF SeeAgent, serverVars, mcRunVars, historyVars, ConfigTypeOK
  <2>3. \A b \in mcWork.listed : agentsSeen'[b].refers
    BY <1>0, <2>1, <2>2, Zenon DEF ListIsRight
  <2>4. \A b \in Agents : /\ agentsSeen'[b].refers => agents[b].refers
                          /\ agents[b].refers /\ ~agentsSeen'[b].refers => b \in missed
    BY <1>0, <2>1, Zenon DEF ListIsRight
  <2> QED
    BY <1>0, <2>2, <2>3, <2>4, Zenon DEF ListIsRight, ListIsDone
<1>5. CASE SeeConfig \/ SeeSecret \/ TimerEnds \/ UNCHANGED configVars
  BY <1>0, <1>5, Zenon DEF SeeConfig, SeeSecret, TimerEnds, configVars, serverVars, mcSeenVars, mcRunVars, historyVars,
     ListIsRight, ListIsDone
<1>6. CASE CrashConfig \/ StartUpConfig \/ ConfigFails
  <2>1. mcPc' \in {"down", "idle"} /\ items' = {} /\ mcWork'.listed = {} /\ UNCHANGED <<agents, missed>>
        /\ agentsSeen' \in {agents, agentsSeen}
    <3>1. CASE StartUpConfig
      <4>1. mcPc = "down" /\ mcPc' = "idle" /\ UNCHANGED <<agents, missed, items, mcWork>> /\ agentsSeen' = agents
        BY <3>1, Zenon DEF StartUpConfig, serverVars, historyVars
      <4> QED
        BY <1>0, <4>1, Hashes, Zenon DEF ListIsRight
    <3>2. CASE CrashConfig \/ ConfigFails
      BY <3>2, Numbers, Zenon DEF CrashConfig, ConfigFails, ConfigReturns, serverVars, mcSeenVars, historyVars
    <3> QED
      BY <1>6, <3>1, <3>2, Zenon
  <2> QED
    BY <1>0, <2>1, Zenon DEF ListIsRight, ListIsDone
<1>7. CASE FetchConfig
  <2>1. UNCHANGED <<mc, agents, agentsSeen, missed, mcSeen>> /\ mcPc = "idle"
    BY <1>7, Zenon DEF FetchConfig, serverVars, mcSeenVars, historyVars
  <2>2. CASE mcSeen.spec = "deleted"
    BY <1>0, <1>7, <2>1, <2>2, Zenon DEF FetchConfig, mcRunVars, ListIsRight, ListIsDone
  <2>3. CASE mcSeen.spec # "deleted" /\ resolveSecretHash = missing
    <3>1. /\ mcPc' = "degrade" /\ items' = items /\ mcWork'.listed = {}
          /\ mcWork'.new = mcSeen.hash /\ mcWork'.cur = mcCur
      <4>1. mcPc' = "degrade" /\ items' = items /\ mcWork' = [cur |-> mcCur, new |-> mcSeen.hash, listed |-> {}]
        BY <1>7, <2>3, Zenon DEF FetchConfig
      <4> QED
        BY <4>1, Zenon
    <3>2. mcCur => mcSeen.hash = mc.hash
      BY <1>0 DEF ConfigCopy, Copy
    <3> QED
      BY <1>0, <2>1, <3>1, <3>2, Zenon DEF ListIsRight, ListIsDone
  <2>4. CASE mcSeen.spec # "deleted" /\ resolveSecretHash # missing
    <3>1. /\ mcPc' = "persist" /\ mcWork'.new = resolveSecretHash /\ mcWork'.cur = mcCur
          /\ mcWork'.listed = {a \in Agents : resolveSecretHash # mcSeen.hash /\ agentsSeen[a].refers}
          /\ items' = IF resolveSecretHash # mcSeen.hash THEN Outdated(resolveSecretHash) ELSE {}
      BY <1>7, <2>4 DEF FetchConfig
    <3>2. mcCur => mcSeen.hash = mc.hash
      BY <1>0 DEF ConfigCopy, Copy
    <3>3. ListIsRight'
      BY <1>0, <2>1, <3>1, <3>2, Zenon DEF ListIsRight
    <3>4. ASSUME mcCur, resolveSecretHash # mc.hash, NEW a \in Agents, agents[a].refers
          PROVE  a \in items' \/ agents[a].ann = mcWork'.new \/ a \in missed \ mcWork'.listed
      <4>1. agents[a].ann <= mcWork'.new /\ agentsSeen[a].ann <= agents[a].ann
        BY <1>0, <1>7, <3>1, NewHash, Zenon DEF HashesGrow
      <4>2. CASE agentsSeen[a].refers /\ agentsSeen[a].ann = mcWork'.new
        BY <1>0, <4>1, <4>2, Hashes
      <4>3. CASE agentsSeen[a].refers /\ agentsSeen[a].ann # mcWork'.new
        BY <3>1, <3>2, <3>4, <4>3, Zenon DEF Outdated
      <4>4. CASE ~agentsSeen[a].refers
        BY <1>0, <3>1, <3>4, <4>4, Zenon DEF ListIsRight
      <4> QED
        BY <4>2, <4>3, <4>4, Zenon
    <3>5. ListIsDone'
      BY <2>1, <3>1, <3>4, Zenon DEF ListIsDone
    <3> QED
      BY <3>3, <3>5, Zenon
  <2> QED
    BY <2>2, <2>3, <2>4, Zenon
<1>8. CASE Degrade \/ Persist
  <2>1. mcPc' = "idle" /\ items' = {} /\ mcWork'.listed = {} /\ UNCHANGED <<agents, agentsSeen>>
        /\ missed' = missed \ mcWork.listed
    BY <1>8, Numbers, Zenon DEF Degrade, Persist, WriteConfig, ConfigReturns
  <2> QED
    BY <1>0, <2>1, Zenon DEF ListIsRight, ListIsDone
<1> QED
  BY <1>1, <1>2, <1>3, <1>4, <1>5, <1>6, <1>7, <1>8, ConfigSteps, Zenon

\* A change of the cached Secret or config queues the config.
LEMMA CacheStep == ConfigInv /\ [ConfigNext]_configVars => CacheIsUsed'
<1> SUFFICES ASSUME ConfigInv, [ConfigNext]_configVars, ~mcQueued', mcCur', mcSeen'.spec # "deleted"
             PROVE  CacheIsUsed'
  BY Zenon DEF CacheIsUsed
<1>0. ConfigTypeOK /\ CacheIsUsed
  BY Zenon DEF ConfigInv
<1>1. ASSUME NEW v, EditSecret(v) PROVE CacheIsUsed'
  BY <1>0, <1>1, Zenon DEF EditSecret, mcSeenVars, mcRunVars, CacheIsUsed, resolveSecretHash
<1>2. ASSUME NEW s, EditConfig(s) PROVE CacheIsUsed'
  BY <1>2, Zenon DEF EditConfig, CacheIsUsed
<1>3. ASSUME NEW a \in Agents, Touch(a) \/ Join(a) \/ Propagate(a) \/ SeeAgent(a) PROVE CacheIsUsed'
  BY <1>0, <1>3, Zenon DEF Touch, Join, Propagate, SeeAgent, serverVars, mcRunVars, CacheIsUsed, resolveSecretHash
<1>4. CASE SeeConfig \/ TimerEnds \/ StartUpConfig
  BY <1>4, Zenon DEF SeeConfig, TimerEnds, StartUpConfig, CacheIsUsed
<1>5. CASE SeeSecret
  <2>1. UNCHANGED <<mc, mcSeen, mcCur, timer, mcPc, mcWork>> /\ ~mcQueued /\ mcSeen.spec # "secret"
    BY <1>0, <1>5, Zenon DEF SeeSecret, mapSecretToModelConfigs, serverVars, mcRunVars, ConfigTypeOK
  <2>2. mcSeen.spec = "none"
    BY <1>0, <2>1, Zenon DEF ConfigTypeOK
  <2> QED
    BY <1>0, <2>1, <2>2, Zenon DEF CacheIsUsed, resolveSecretHash
<1>6. CASE CrashConfig
  BY <1>6, Zenon DEF CrashConfig, CacheIsUsed
<1>7. CASE ConfigFails
  BY <1>7, Zenon DEF ConfigFails, ConfigReturns, CacheIsUsed
<1>8. CASE FetchConfig
  <2>1. UNCHANGED <<mcSeen, secretSeen>>
    BY <1>8, Zenon DEF FetchConfig, mcSeenVars
  <2> QED
    BY <1>8, <2>1 DEF FetchConfig, CacheIsUsed, resolveSecretHash
<1>9. CASE Degrade \/ Persist
  <2>1. /\ mcCur /\ ~mcQueued /\ mcPc' = "idle" /\ UNCHANGED <<mcSeen, secretSeen>>
    BY <1>0, <1>9, Zenon DEF Degrade, Persist, WriteConfig, ConfigReturns, ConfigTypeOK
  <2>2. CASE Degrade
    <3>1. mcPc = "degrade" /\ mc'.cond = "degraded" /\ timer'
      BY <1>0, <2>2, Zenon DEF Degrade, WriteConfig, ConfigTypeOK
    <3> QED
      BY <1>0, <2>1, <3>1, Zenon DEF CacheIsUsed, resolveSecretHash
  <2>3. CASE Persist
    <3>1. mcPc = "persist" /\ mc'.cond = "ok" /\ mc'.hash = mcWork.new
      BY <1>0, <2>3, Zenon DEF Persist, WriteConfig, ConfigTypeOK
    <3> QED
      BY <1>0, <2>1, <3>1, Zenon DEF CacheIsUsed, resolveSecretHash
  <2> QED
    BY <1>9, <2>2, <2>3, Zenon
<1>10. CASE UNCHANGED configVars
  BY <1>0, <1>10, Zenon DEF configVars, serverVars, mcSeenVars, mcRunVars, CacheIsUsed, resolveSecretHash
<1> QED
  BY <1>1, <1>2, <1>3, <1>4, <1>5, <1>6, <1>7, <1>8, <1>9, <1>10, ConfigSteps, Zenon

\* All of it together.
LEMMA ConfigStep == ConfigInv /\ [ConfigNext]_configVars => ConfigInv'
<1> SUFFICES ASSUME ConfigInv, [ConfigNext]_configVars PROVE ConfigInv'
  OBVIOUS
<1>1. ~Reverts /\ ConfigTypeOK /\ SecretGrows /\ NoneIsZero /\ ConfigCopy
  BY Zenon DEF ConfigInv
<1> QED
  BY <1>1, ConfigTypeStep, SecretStep, HashesStep, NoneStep, ConfigCopyStep, ListStep, CacheStep, Zenon DEF ConfigInv

\* With nothing left to do the status has the hash of the Secret, and so has
\* every runtime that refers to the config and was not too late for the list,
\* for any runtimes and contents that do not come back: a propagation that was
\* cut is made good (modelconfig_controller.go:72-153).
THEOREM RotationCompletes == ~Reverts /\ ConfigSpec => []RotationIsWhole
<1>1. ConfigInv => RotationIsWhole
  <2> SUFFICES ASSUME ConfigInv, ConfigQuiet, mc.spec # "deleted"
               PROVE  \/ Wanted # missing /\ mc.cond = "ok" /\ mc.hash = Wanted
                         /\ \A a \in Agents \ missed : agents[a].refers => agents[a].ann = Wanted
                      \/ Wanted = missing /\ mc.cond = "degraded" /\ timer
    BY Zenon DEF RotationIsWhole
  <2>0. ConfigTypeOK /\ SecretGrows /\ HashesGrow /\ NoneIsZero /\ ConfigCopy /\ CacheIsUsed
    BY Zenon DEF ConfigInv
  <2>1. mcSeen.spec = mc.spec /\ secretSeen = secret /\ resolveSecretHash = Wanted
    BY <2>0 DEF ConfigCopy, Copy, ConfigQuiet, resolveSecretHash, Wanted
  <2>2. \/ Wanted # missing /\ mc.cond = "ok" /\ mc.hash = Wanted
        \/ Wanted = missing /\ mc.cond = "degraded" /\ timer
    BY <2>0, <2>1, Zenon DEF CacheIsUsed, ConfigQuiet
  <2>3. ASSUME Wanted # missing, mc.hash = Wanted, NEW a \in Agents \ missed, agents[a].refers
        PROVE  agents[a].ann = Wanted
    <3>1. mc.hash <= agents[a].ann
      BY <2>0, <2>3, Zenon DEF HashesGrow
    <3>2. CASE mc.spec = "none"
      BY <2>0, <2>1, <3>2, Zenon DEF NoneIsZero, Wanted
    <3>3. CASE mc.spec # "none"
      BY <2>0, <2>1, <2>3, <3>1, <3>3, Hashes DEF SecretGrows, Below, Wanted
    <3> QED
      BY <3>2, <3>3, Zenon
  <2> QED
    BY <2>2, <2>3, Zenon
<1> QED
  BY <1>1, ConfigInitInv, ConfigStep, PTL DEF ConfigSpec

\* A hash is in the status only after every runtime that was listed for it has
\* it, for any runtimes and contents that do not come back, whatever fails on
\* the way (modelconfig_controller.go:139-149).
THEOREM StatusIsLast == ~Reverts /\ ConfigSpec => StatusComesLast
<1> DEFINE AllHave == mc'.hash # mc.hash =>
                        \A a \in Agents \ missed' : agents[a].refers => agents[a].ann = mc'.hash
<1>1. ConfigInv /\ [ConfigNext]_configVars => [AllHave]_configVars
  <2> SUFFICES ASSUME ConfigInv, [ConfigNext]_configVars, mc'.hash # mc.hash
               PROVE  \A a \in Agents \ missed' : agents[a].refers => agents[a].ann = mc'.hash
    BY Zenon
  <2>0. ConfigTypeOK /\ ListIsDone
    BY Zenon DEF ConfigInv
  <2>1. Persist
    BY <2>0, ConfigSteps, Zenon DEF EditSecret, EditConfig, Touch, Join, SeeAgent, Propagate, SeeConfig, SeeSecret, TimerEnds,
       CrashConfig, StartUpConfig, FetchConfig, Degrade, WriteConfig, ConfigFails, configVars, serverVars, ConfigTypeOK
  <2>2. mc'.hash = mcWork.new
    BY <2>0, <2>1, Zenon DEF Persist, WriteConfig, ConfigTypeOK
  <2> QED
    BY <2>0, <2>1, <2>2, PersistDone, Zenon
<1>2. ~Reverts /\ ConfigSpec => [][AllHave]_configVars
  BY <1>1, ConfigInitInv, ConfigStep, PTL DEF ConfigSpec
<1> QED
  BY <1>2, Zenon DEF StatusComesLast
=============================================================================
