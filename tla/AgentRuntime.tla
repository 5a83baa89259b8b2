---------------------------- MODULE AgentRuntime ----------------------------
(***************************************************************************)
(* operator/internal/controller/agentruntime_controller.go: the reconciler *)
(* of one AgentRuntime.  It reads the runtime, the ConfigMap, the Service  *)
(* and the Deployment from informer caches, which lag behind the API       *)
(* server, and the ScaledJob from the server itself.  Writes carry the     *)
(* resource version that was read, and any of them may fail.               *)
(*                                                                         *)
(* A child is known by the generation of the spec it was built from, 0 if  *)
(* it is absent.  A cache holds the server's object ("current") or an      *)
(* older one, of which only its being there or not matters.                *)
(***************************************************************************)
EXTENDS Integers, Sequences, Functions

CONSTANTS Children,  \* the children made alike, in order: ConfigMap and Service
          MaxGen     \* bound: generations of the spec

ASSUME RuntimeAssumption ==
  /\ MaxGen \in Nat \ {0}
  /\ Children \in Seq(STRING) /\ Children # <<>>
  /\ \A i, j \in 1 .. Len(Children) : Children[i] = Children[j] => i = j
  /\ Range(Children) \cap {"dep", "down", "idle", "delete", "workload", "status"} = {}

\* spec.scaling: ScaledJob, Static, or Static with a quantity that does not parse.
Modes == {"job", "static", "bad"}

Kinds == Range(Children) \cup {"dep"}

absent == 0
foreign == MaxGen + 1   \* content that no spec asks for

VARIABLES
  rt,       \* the runtime on the server: gen (0 if deleted), mode, and status
  rtSeen,   \* the cached copy
  rtCur,    \* the cached copy has the server's resource version
  obj,      \* the ConfigMap, the Service and the Deployment
  cache,    \* their cached copies: "current", "absent" or "present"
  sj,       \* the ScaledJob
  sjEvent,  \* a change of the ScaledJob is not yet reported
  queued,   \* the runtime is in the work queue
  pc,       \* where Reconcile is
  work,     \* Reconcile's copy of the runtime
  failed    \* reconcileErr # nil

seenVars == <<rtSeen, rtCur, cache, sjEvent>>
childVars == <<obj, sj>>
runVars == <<pc, work, failed>>
runtimeVars == <<rt, seenVars, childVars, queued, runVars>>

noWork == [gen |-> 0, mode |-> "job", sjName |-> FALSE, cur |-> FALSE]

RuntimeInit ==
  /\ rt \in [gen : {1}, mode : Modes, observed : {0}, cond : {"none"}, sjName : {FALSE}]
  /\ rtSeen = rt /\ rtCur = TRUE
  /\ obj = [k \in Kinds |-> absent]
  /\ cache = [k \in Kinds |-> "current"]
  /\ sj = absent /\ sjEvent = FALSE
  /\ queued = TRUE
  /\ pc = "idle" /\ work = noWork /\ failed = FALSE

----------------------------------------------------------------------------
(* The API server and the informers                                        *)

\* A write leaves the cached copy of the child behind.
Behind(k) ==
  IF cache[k] # "current" THEN cache
  ELSE [cache EXCEPT ![k] = IF obj[k] = absent THEN "absent" ELSE "present"]

\* Somebody else writes the runtime: all copies of it are out of date.
RuntimeWritten(new) ==
  /\ rt.gen # 0
  /\ rt' = new
  /\ rtCur' = FALSE
  /\ work' = [work EXCEPT !.cur = FALSE]
  /\ UNCHANGED <<rtSeen, cache, sjEvent, childVars, queued, pc, failed>>

EditSpec(m) == rt.gen < MaxGen /\ RuntimeWritten([rt EXCEPT !.gen = @ + 1, !.mode = m])
Annotate == RuntimeWritten(rt)   \* the ModelConfig controller
DeleteRuntime == RuntimeWritten([rt EXCEPT !.gen = 0])

\* Somebody deletes or changes a child; the garbage collector deletes the
\* children of a deleted runtime.
Meddle(k, v) ==
  /\ obj[k] # absent
  /\ obj' = [obj EXCEPT ![k] = v]
  /\ cache' = Behind(k)
  /\ UNCHANGED <<rt, rtSeen, rtCur, sj, sjEvent, queued, runVars>>

MeddleJob(v) ==
  /\ sj # absent
  /\ sj' = v
  /\ sjEvent' = TRUE
  /\ UNCHANGED <<rt, rtSeen, rtCur, cache, obj, queued, runVars>>

Collect ==
  /\ rt.gen = 0
  /\ MeddleJob(absent) \/ \E k \in Kinds : Meddle(k, absent)

\* The watches of SetupWithManager: For the runtime, Owns the children.
SeeRuntime ==
  /\ ~rtCur /\ pc # "down"
  /\ rtSeen' = rt /\ rtCur' = TRUE
  /\ queued' = TRUE
  /\ UNCHANGED <<rt, cache, sjEvent, childVars, runVars>>

\* Slip: Owns is missing for the Deployment, so its events queue nothing.
SeeChildUnowned(k) ==
  /\ cache[k] # "current" /\ pc # "down"
  /\ cache' = [cache EXCEPT ![k] = "current"]
  /\ queued' = (queued \/ k # "dep")
  /\ UNCHANGED <<rt, rtSeen, rtCur, sjEvent, childVars, runVars>>

SeeChild(k) ==
  /\ cache[k] # "current" /\ pc # "down"
  /\ cache' = [cache EXCEPT ![k] = "current"]
  /\ queued' = TRUE
  /\ UNCHANGED <<rt, rtSeen, rtCur, sjEvent, childVars, runVars>>

SeeJob ==
  /\ sjEvent /\ pc # "down"
  /\ sjEvent' = FALSE
  /\ queued' = TRUE
  /\ UNCHANGED <<rt, rtSeen, rtCur, cache, childVars, runVars>>

\* The operator dies, and starts again: it lists everything and queues every
\* runtime.
Crash ==
  /\ pc # "down"
  /\ pc' = "down" /\ work' = noWork /\ failed' = FALSE
  /\ queued' = FALSE
  /\ UNCHANGED <<rt, seenVars, childVars>>

StartUp ==
  /\ pc = "down"
  /\ pc' = "idle"
  /\ rtSeen' = rt /\ rtCur' = TRUE
  /\ cache' = [k \in Kinds |-> "current"] /\ sjEvent' = FALSE
  /\ queued' = TRUE
  /\ UNCHANGED <<rt, childVars, work, failed>>

----------------------------------------------------------------------------
(* Reconcile, one step for each call to the server                         *)

Goto(to) == pc' = to

\* The step after the ith of Children.
After(i) == IF i < Len(Children) THEN Children[i + 1] ELSE "delete"

\* Slip: an error is returned at once, before the status is written.
FailAtOnce ==
  /\ pc \in Range(Children) \cup {"delete", "workload"}
  /\ Goto("idle") /\ work' = noWork /\ queued' = TRUE
  /\ UNCHANGED <<rt, seenVars, childVars, failed>>

\* An error ends the work on the children; the status tells of it.
Fail ==
  /\ pc \in Range(Children) \cup {"delete", "workload"}
  /\ Goto("status")
  /\ failed' = TRUE
  /\ UNCHANGED <<rt, seenVars, childVars, queued, work>>

\* The runtime is fetched, from the cache; a deleted one is let go.
Fetch ==
  /\ pc = "idle" /\ queued
  /\ queued' = FALSE
  /\ IF rtSeen.gen = 0 THEN UNCHANGED runVars
     ELSE /\ Goto(Children[1])
          /\ work' = [gen |-> rtSeen.gen, mode |-> rtSeen.mode, sjName |-> rtSeen.sjName, cur |-> rtCur]
          /\ UNCHANGED failed
  /\ UNCHANGED <<rt, seenVars, childVars>>

\* What the cache says decides between Create and Update.  Create needs the
\* object to be absent, Update the cached copy to be current.
CanPut(k) == cache[k] = "current" \/ (cache[k] = "absent" /\ obj[k] = absent)

\* An update that changes nothing makes no new resource version.
Put(k) ==
  /\ CanPut(k)
  /\ obj' = [obj EXCEPT ![k] = work.gen]
  /\ cache' = IF obj[k] = work.gen THEN cache ELSE Behind(k)
  /\ UNCHANGED <<rt, rtSeen, rtCur, sj, sjEvent, queued, failed>>

\* reconcileConfigMap, reconcileService
PutChild(i) ==
  /\ pc = Children[i]
  /\ Put(Children[i])
  /\ Goto(After(i))
  /\ UNCHANGED work

SeesDeployment == cache["dep"] = "present" \/ (cache["dep"] = "current" /\ obj["dep"] # absent)

\* Deleting a Deployment that is gone is an error.
CanDelete == work.mode = "job" /\ SeesDeployment => obj["dep"] # absent

\* deleteDeploymentIfExists or deleteScaledJobIfExists.  The Deployment is
\* looked for in the cache.
DeleteOther ==
  /\ pc = "delete" /\ CanDelete
  /\ Goto("workload")
  /\ IF work.mode = "job"
     THEN /\ obj' = IF SeesDeployment THEN [obj EXCEPT !["dep"] = absent] ELSE obj
          /\ cache' = IF SeesDeployment THEN Behind("dep") ELSE cache
          /\ UNCHANGED <<sj, sjEvent>>
     ELSE /\ sj' = absent
          /\ sjEvent' = (sjEvent \/ sj # absent)
          /\ UNCHANGED <<obj, cache>>
  /\ UNCHANGED <<rt, rtSeen, rtCur, queued, work, failed>>

\* reconcileScaledJob: what to do is decided by the server's own object.
PutScaledJob ==
  /\ pc = "workload" /\ work.mode = "job"
  /\ sj' = work.gen
  /\ sjEvent' = (sjEvent \/ sj # work.gen)
  /\ work' = [work EXCEPT !.sjName = TRUE]
  /\ Goto("status")
  /\ UNCHANGED <<rt, rtSeen, rtCur, cache, obj, queued, failed>>

\* reconcileDeployment; buildContainers fails for a quantity that does not parse.
PutDeployment ==
  /\ pc = "workload" /\ work.mode = "static"
  /\ Put("dep")
  /\ work' = [work EXCEPT !.sjName = FALSE]
  /\ Goto("status")

\* Reconcile returns: an error puts the runtime back into the queue.
Return(err) ==
  /\ Goto("idle") /\ work' = noWork /\ failed' = FALSE
  /\ queued' = (queued \/ err)

NewStatus ==
  [rt EXCEPT !.observed = work.gen, !.cond = IF failed THEN "err" ELSE "ok", !.sjName = work.sjName]

\* Status().Update.  Progressing goes to True and back in every Reconcile, so
\* its transition time moves and a status that is otherwise the same may still
\* be written anew.
WriteStatus ==
  /\ pc = "status" /\ rt.gen # 0 /\ work.cur
  /\ rt' = NewStatus
  /\ rtCur' \in {FALSE, rtCur /\ rt = NewStatus}
  /\ Return(failed)
  /\ UNCHANGED <<rtSeen, cache, sjEvent, childVars>>

\* The update of the status fails, with a conflict or otherwise.
StatusFails ==
  /\ pc = "status"
  /\ Return(TRUE)
  /\ UNCHANGED <<rt, seenVars, childVars>>

StepOk ==
  \/ \E i \in DOMAIN Children : PutChild(i)
  \/ DeleteOther \/ PutScaledJob \/ PutDeployment \/ WriteStatus

Reconcile == StartUp \/ Fetch \/ StepOk \/ Fail \/ StatusFails

Users ==
  \/ \E m \in Modes : EditSpec(m)
  \/ Annotate \/ DeleteRuntime
  \/ \E v \in {absent, foreign} : MeddleJob(v) \/ \E k \in Kinds : Meddle(k, v)

Informers == SeeRuntime \/ SeeJob \/ \E k \in Kinds : SeeChild(k)

RuntimeNext == Reconcile \/ Informers \/ Users \/ Collect \/ Crash

RuntimeSpec == RuntimeInit /\ [][RuntimeNext]_runtimeVars

----------------------------------------------------------------------------
(* Properties                                                              *)

Runtimes ==
  [gen : 0 .. MaxGen, mode : Modes, observed : 0 .. MaxGen, cond : {"none", "ok", "err"}, sjName : BOOLEAN]

RuntimeTypeOK ==
  /\ rt \in Runtimes /\ rtSeen \in Runtimes
  /\ rtCur \in BOOLEAN /\ sjEvent \in BOOLEAN /\ queued \in BOOLEAN /\ failed \in BOOLEAN
  /\ obj \in [Kinds -> 0 .. foreign]
  /\ cache \in [Kinds -> {"current", "absent", "present"}]
  /\ sj \in 0 .. foreign
  /\ pc \in {"down", "idle", "delete", "workload", "status"} \cup Range(Children)
  /\ work \in [gen : 0 .. MaxGen, mode : Modes, sjName : BOOLEAN, cur : BOOLEAN]

\* The children are what the spec asks for: one workload, of its mode.
Matches ==
  /\ \A i \in DOMAIN Children : obj[Children[i]] = rt.gen
  /\ rt.mode = "job" => sj = rt.gen /\ obj["dep"] = absent
  /\ rt.mode = "static" => obj["dep"] = rt.gen /\ sj = absent
  /\ rt.mode # "bad"

Quiet == pc = "idle" /\ ~queued /\ rtCur /\ ~sjEvent /\ \A k \in Kinds : cache[k] = "current"

\* When nothing is left to do, the children match the spec and the status says
\* so, whatever was changed behind the operator's back, cached wrongly or
\* refused on the way (agentruntime_controller.go:102-199, :989).
QuietIsRight ==
  Quiet /\ rt.gen # 0 => Matches /\ rt.observed = rt.gen /\ rt.cond = "ok" /\ rt.sjName = (rt.mode = "job")

\* The server fails a call that neither a stale copy nor the spec makes fail.
ServerFails ==
  \/ Fail /\ \/ pc \in Range(Children) /\ CanPut(pc)
             \/ pc = "delete" /\ CanDelete
             \/ pc = "workload" /\ (work.mode = "job" \/ (work.mode = "static" /\ CanPut("dep")))
  \/ StatusFails /\ rt.gen # 0 /\ work.cur

\* What a runtime comes to: children that match its spec, the status of one with
\* a quantity that does not parse, or nothing once it is deleted.
RuntimeSettled ==
  \/ rt.gen # 0 /\ Matches /\ rt.cond = "ok" /\ rt.observed = rt.gen
  \/ rt.gen # 0 /\ rt.mode = "bad" /\ rt.cond = "err" /\ rt.observed = rt.gen
  \/ rt.gen = 0 /\ sj = absent /\ \A k \in Kinds : obj[k] = absent
============================================================================
