---------------------------- MODULE ModelConfig ----------------------------
(***************************************************************************)
(* operator/internal/controller/modelconfig_controller.go: the reconciler  *)
(* of one ModelConfig.  It hashes the Secret the config refers to, writes  *)
(* a new hash into an annotation of every AgentRuntime that refers to the  *)
(* config, and only then into its own status.  All reads are from informer *)
(* caches; writes carry the resource version that was read and may fail.   *)
(*                                                                         *)
(* A hash is the content it is made from, 0 (the empty string) for a       *)
(* Secret without data and for a config without a Secret.                  *)
(***************************************************************************)
EXTENDS Integers, FiniteSets

CONSTANTS Agents,    \* the AgentRuntimes
          Early,     \* those that refer to the config from the start
          Contents,  \* contents of the Secret, in the order users give them to it
          Reverts    \* a user may give the Secret a content it had before, or
                     \* take the reference to it away

ASSUME ConfigAssumption == Contents \subseteq Nat /\ 0 \in Contents /\ Reverts \in BOOLEAN /\ Early \subseteq Agents

missing == -1   \* the Secret does not exist

VARIABLES
  mc,           \* the config on the server: spec, hash and condition
  mcSeen,       \* the cached copy
  mcCur,        \* the cached copy has the server's resource version
  secret,       \* the Secret on the server
  secretSeen,   \* the cached copy
  agents,       \* the runtimes: does it refer to the config, and its annotation
  agentsSeen,   \* the cached copies
  agentsCur,    \* the runtimes whose cached copy is current
  mcQueued,     \* the config is in the work queue
  timer,        \* it is to be put there by RequeueAfter
  mcPc,         \* where Reconcile is
  mcWork,       \* Reconcile's copy of the config: is it current, the new hash, and
                \* the runtimes listed for it
  items,        \* the runtimes still to annotate
  itemsCur,     \* those of them whose copy is current
  missed,       \* history: runtimes that came to refer to the config after the
                \* list for the hash in its status was made
  latest        \* history: the newest content the Secret has had

serverVars == <<mc, secret, agents>>
mcSeenVars == <<mcSeen, mcCur, secretSeen, agentsSeen, agentsCur>>
mcRunVars == <<mcPc, mcWork, items, itemsCur>>
historyVars == <<missed, latest>>
configVars == <<serverVars, mcSeenVars, mcQueued, timer, mcRunVars, historyVars>>

idleWork == [cur |-> FALSE, new |-> 0, listed |-> {}]

\* What Reconcile reads of the config.
Copy == [spec |-> mc.spec, hash |-> mc.hash]

ConfigInit ==
  /\ mc \in [spec : {"secret", "none"}, hash : {0}, cond : {"none"}]
  /\ mcSeen = Copy /\ mcCur = TRUE
  /\ secret \in {missing} \cup Contents /\ secretSeen = secret
  /\ agents = [a \in Agents |-> [refers |-> a \in Early, ann |-> 0]]
  /\ agentsSeen = agents /\ agentsCur = Agents
  /\ mcQueued = TRUE /\ timer = FALSE
  /\ mcPc = "idle" /\ mcWork = idleWork /\ items = {} /\ itemsCur = {}
  /\ missed = {} /\ latest = IF secret = missing THEN 0 ELSE secret

----------------------------------------------------------------------------
(* The API server and the informers                                        *)

\* A user sets the Secret, refers to it or not, or deletes the config.
EditSecret(v) ==
  /\ secret # v
  /\ Reverts \/ v = missing \/ v >= latest
  /\ secret' = v
  /\ latest' = IF v > latest THEN v ELSE latest
  /\ UNCHANGED <<mc, agents, mcSeenVars, mcQueued, timer, mcRunVars, missed>>

EditConfig(s) ==
  /\ mc.spec # s
  /\ Reverts \/ s # "none"
  /\ mc' = [mc EXCEPT !.spec = s]
  /\ mcCur' = FALSE
  /\ mcWork' = [mcWork EXCEPT !.cur = FALSE]
  /\ UNCHANGED <<secret, agents, mcSeen, secretSeen, agentsSeen, agentsCur, mcQueued, timer,
                 mcPc, items, itemsCur, historyVars>>

\* A runtime is written; its other copies are out of date.
AgentWritten(a, new) ==
  /\ agents' = [agents EXCEPT ![a] = new]
  /\ agentsCur' = agentsCur \ {a}
  /\ itemsCur' = itemsCur \ {a}

\* The AgentRuntime controller, or a user, writes a runtime.
Touch(a) ==
  /\ a \in agentsCur \cup itemsCur
  /\ AgentWritten(a, agents[a])
  /\ UNCHANGED <<mc, secret, mcSeen, mcCur, secretSeen, agentsSeen, mcQueued, timer, mcPc,
                 mcWork, items, historyVars>>

\* A runtime is created with a reference to the config, or comes to have one.
Join(a) ==
  /\ ~agents[a].refers
  /\ AgentWritten(a, [agents[a] EXCEPT !.refers = TRUE])
  /\ missed' = missed \cup {a}
  /\ UNCHANGED <<mc, secret, mcSeen, mcCur, secretSeen, agentsSeen, mcQueued, timer, mcPc,
                 mcWork, items, latest>>

SeeConfig ==
  /\ ~mcCur /\ mcPc # "down"
  /\ mcSeen' = Copy /\ mcCur' = TRUE
  /\ mcQueued' = TRUE
  /\ UNCHANGED <<serverVars, secretSeen, agentsSeen, agentsCur, timer, mcRunVars, historyVars>>

\* Slip: the deletion of a Secret is not mapped.
mapSecretUnlessGone == mcSeen.spec = "secret" /\ secret # missing

\* mapSecretToModelConfigs: a cached config that refers to the Secret is queued.
mapSecretToModelConfigs == mcSeen.spec = "secret"

SeeSecret ==
  /\ secretSeen # secret /\ mcPc # "down"
  /\ secretSeen' = secret
  /\ mcQueued' = (mcQueued \/ mapSecretToModelConfigs)
  /\ UNCHANGED <<serverVars, mcSeen, mcCur, agentsSeen, agentsCur, timer, mcRunVars, historyVars>>

\* The controller has no watch on runtimes: the cache moves, nothing is queued.
SeeAgent(a) ==
  /\ a \notin agentsCur /\ mcPc # "down"
  /\ agentsSeen' = [agentsSeen EXCEPT ![a] = agents[a]]
  /\ agentsCur' = agentsCur \cup {a}
  /\ UNCHANGED <<serverVars, mcSeen, mcCur, secretSeen, mcQueued, timer, mcRunVars, historyVars>>

\* RequeueAfter, thirty seconds after a Secret was not found.
TimerEnds ==
  /\ timer
  /\ timer' = FALSE /\ mcQueued' = TRUE
  /\ UNCHANGED <<serverVars, mcSeenVars, mcRunVars, historyVars>>

\* The operator dies, and starts again.
CrashConfig ==
  /\ mcPc # "down"
  /\ mcPc' = "down" /\ mcWork' = idleWork /\ items' = {} /\ itemsCur' = {}
  /\ mcQueued' = FALSE /\ timer' = FALSE
  /\ UNCHANGED <<serverVars, mcSeenVars, historyVars>>

StartUpConfig ==
  /\ mcPc = "down"
  /\ mcPc' = "idle"
  /\ mcSeen' = Copy /\ mcCur' = TRUE /\ secretSeen' = secret
  /\ agentsSeen' = agents /\ agentsCur' = Agents
  /\ mcQueued' = TRUE
  /\ UNCHANGED <<serverVars, timer, mcWork, items, itemsCur, historyVars>>

----------------------------------------------------------------------------
(* Reconcile, one step for each call to the server                         *)

\* resolveSecretHash: the hash is of the cached Secret; there may be none.
resolveSecretHash == IF mcSeen.spec = "none" THEN 0 ELSE secretSeen

\* The listed runtimes that refer to the config and have another hash.
Outdated(hash) == {a \in Agents : agentsSeen[a].refers /\ agentsSeen[a].ann # hash}

\* Everything up to the first write.  The list is made only for a new hash.
FetchConfig ==
  /\ mcPc = "idle" /\ mcQueued
  /\ mcQueued' = FALSE
  /\ IF mcSeen.spec = "deleted" THEN UNCHANGED mcRunVars
     ELSE IF resolveSecretHash = missing
     THEN /\ mcPc' = "degrade"
          /\ mcWork' = [cur |-> mcCur, new |-> mcSeen.hash, listed |-> {}]
          /\ UNCHANGED <<items, itemsCur>>
     ELSE LET changed == resolveSecretHash # mcSeen.hash IN
          /\ mcPc' = "persist"
          /\ mcWork' = [cur |-> mcCur, new |-> resolveSecretHash,
                        listed |-> {a \in Agents : changed /\ agentsSeen[a].refers}]
          /\ items' = IF changed THEN Outdated(resolveSecretHash) ELSE {}
          /\ itemsCur' = IF changed THEN Outdated(resolveSecretHash) \cap agentsCur ELSE {}
  /\ UNCHANGED <<serverVars, mcSeenVars, timer, historyVars>>

\* propagateHashToAgentRuntimes: the next of the listed runtimes is updated.
Propagate(a) ==
  /\ a \in items /\ a \in itemsCur
  /\ AgentWritten(a, [agents[a] EXCEPT !.ann = mcWork.new])
  /\ items' = items \ {a}
  /\ UNCHANGED <<mc, secret, mcSeen, mcCur, secretSeen, agentsSeen, mcQueued, timer, mcPc, mcWork, historyVars>>

ConfigReturns(err) ==
  /\ mcPc' = "idle" /\ mcWork' = idleWork /\ items' = {} /\ itemsCur' = {}
  /\ mcQueued' = (mcQueued \/ err)

\* Status().Update: a status that is the same makes no new resource version.
WriteConfig(new) ==
  /\ mcWork.cur /\ mc.spec # "deleted"
  /\ mc' = new
  /\ mcCur' = (mcCur /\ mc = new)
  /\ ConfigReturns(FALSE)
  /\ missed' = missed \ mcWork.listed
  /\ UNCHANGED <<secret, agents, mcSeen, secretSeen, agentsSeen, agentsCur, latest>>

Degrade ==
  /\ mcPc = "degrade"
  /\ WriteConfig([mc EXCEPT !.cond = "degraded"])
  /\ timer' = TRUE

\* Slip: the status is persisted while runtimes are left to annotate.
PersistFirst ==
  /\ mcPc = "persist"
  /\ WriteConfig([mc EXCEPT !.cond = "ok", !.hash = mcWork.new])
  /\ UNCHANGED timer

\* The status is persisted only after the propagation.
Persist ==
  /\ mcPc = "persist" /\ items = {}
  /\ WriteConfig([mc EXCEPT !.cond = "ok", !.hash = mcWork.new])
  /\ UNCHANGED timer

\* A write fails, with a conflict or otherwise: Reconcile returns the error.
ConfigFails ==
  /\ mcPc \in {"degrade", "persist"}
  /\ ConfigReturns(TRUE)
  /\ UNCHANGED <<serverVars, mcSeenVars, timer, historyVars>>

ConfigReconcile == StartUpConfig \/ FetchConfig \/ (\E a \in Agents : Propagate(a)) \/ Degrade \/ Persist \/ ConfigFails

\* What happens to a deleted config does not matter.
ConfigUsers ==
  /\ mc.spec # "deleted"
  /\ \/ \E v \in {missing} \cup Contents : EditSecret(v)
     \/ \E s \in {"secret", "none", "deleted"} : EditConfig(s)
     \/ \E a \in Agents : Touch(a) \/ Join(a)

ConfigInformers == SeeConfig \/ SeeSecret \/ TimerEnds \/ \E a \in Agents : SeeAgent(a)

ConfigNext == ConfigReconcile \/ ConfigInformers \/ ConfigUsers \/ CrashConfig

ConfigSpec == ConfigInit /\ [][ConfigNext]_configVars

----------------------------------------------------------------------------
(* Properties                                                              *)

ConfigTypeOK ==
  /\ mc \in [spec : {"secret", "none", "deleted"}, hash : Contents, cond : {"none", "ok", "degraded"}]
  /\ mcSeen \in [spec : {"secret", "none", "deleted"}, hash : Contents]
  /\ secret \in {missing} \cup Contents /\ secretSeen \in {missing} \cup Contents
  /\ agents \in [Agents -> [refers : BOOLEAN, ann : Contents]]
  /\ agentsSeen \in [Agents -> [refers : BOOLEAN, ann : Contents]]
  /\ mcCur \in BOOLEAN /\ mcQueued \in BOOLEAN /\ timer \in BOOLEAN
  /\ mcPc \in {"down", "idle", "degrade", "persist"}
  /\ mcWork \in [cur : BOOLEAN, new : Contents, listed : SUBSET Agents]
  /\ itemsCur \subseteq items /\ items \cup agentsCur \cup missed \subseteq Agents
  /\ latest \in Contents

\* The hash the spec and the Secret ask for.
Wanted == IF mc.spec = "none" THEN 0 ELSE secret

ConfigQuiet == mcPc = "idle" /\ ~mcQueued /\ mcCur /\ secretSeen = secret /\ agentsCur = Agents

\* When nothing is left to do, the status has the hash of the Secret as it is,
\* and so has every runtime that refers to the config, but for those that came
\* to refer to it too late for the last list; a missing Secret is reported, and
\* waited for.  Retries still see a changed hash if a propagation fails partway
\* (modelconfig_controller.go:139-152).
RotationIsWhole ==
  ConfigQuiet /\ mc.spec # "deleted" =>
    \/ Wanted # missing /\ mc.cond = "ok" /\ mc.hash = Wanted
       /\ \A a \in Agents \ missed : agents[a].refers => agents[a].ann = Wanted
    \/ Wanted = missing /\ mc.cond = "degraded" /\ timer

\* The status never runs ahead of the runtimes: a hash is in it only after
\* every runtime that was listed has it, though the propagation may have
\* failed partway before (modelconfig_controller.go:139).
StatusComesLast ==
  [][mc'.hash # mc.hash =>
       \A a \in Agents \ missed' : agents[a].refers => agents[a].ann = mc'.hash]_configVars

\* The server fails a write that no stale copy makes fail.
ConfigServerFails ==
  ConfigFails /\ IF items # {} THEN items \cap itemsCur # {} ELSE mcWork.cur /\ mc.spec # "deleted"

\* What a config comes to: its hash in status and runtimes, or the status of one
\* whose Secret is missing.
ConfigSettled ==
  \/ mc.spec = "deleted"
  \/ Wanted = missing /\ mc.cond = "degraded"
  \/ Wanted # missing /\ mc.cond = "ok" /\ mc.hash = Wanted
     /\ \A a \in Agents \ missed : agents[a].refers => agents[a].ann = Wanted
============================================================================
