# A TLA+ model of Daedalus

Daedalus runs coding agents on Kubernetes. An orchestrator splits a request
into dependent tasks and puts them on NATS JetStream. A proxy sidecar next to
each agent takes the tasks, talks ACP (JSON-RPC over TCP) to the agent, and
publishes statuses and results, which the orchestrator collects.

A Kubernetes operator makes the pods of the agents.

This directory holds TLA+ modules that model that path, the libraries beside it and
the operator, TLC configurations that check them on small instances, and TLAPS
proofs of the main safety properties for every value of the constants.
`PROJECT.json` records the components, the runs, which definition stands for which
lines of code, the hazards, the findings and the theorems. Paths below are relative
to `src/`.

## 1. Inventory of the system

| Part | Code | State | Operations | Hard behaviour |
|---|---|---|---|---|
| Dependency graph | `internal/scheduler/dag.go` | nodes, edge lists, in-degree counters, completed set | AddNode, AddEdge, Ready, Complete, Remaining, Validate, Dependents | cycle check per edge; a dependency listed twice counts twice |
| Scheduler | `internal/scheduler/scheduler.go` | skip set, outcomes, batch number, execution order | Schedule | two barriers per wave, cancellation at any step, transitive skipping |
| Dispatcher | `internal/dispatch` | none | Dispatch: route, then publish | an error after the server took the message |
| Result collector | `internal/orchestrator/collector.go` | results, waiter channels, two subscriptions | Start, WaitFor, WaitForAll, the two callbacks | check-then-act in handleStatus, wake-up against cancellation, status overtakes result |
| FanOut | `internal/orchestrator/orchestrator.go` | slots, a channel of results | FanOut | partial failure of dispatches, cancellation with dispatches under way |
| Queue | `internal/queue/nats.go` and JetStream | delivery count and state per message | Run, processMessage, PublishJSON | AckWait shorter than a task, lost acknowledgements, MaxDeliver |
| Proxy handler | `internal/proxy/handler.go` | session table, WaitGroup, shuttingDown | Handle, CancelActiveSessions | failure at each of its calls, rejected calls, redelivery |
| Shutdown | `internal/proxy/shutdown.go`, `cmd/proxy/main.go` | four phases, the work context | Shutdown, main | SIGTERM against work in flight |
| ACP client | `internal/acp` | pending calls, delta channels, reader | Connect, Initialize, NewSession, Prompt, CancelSession, Close, readLoop | call registered after the reader ended, duplicate and late replies, delta overflow |
| Registry | `internal/registry` | file entries, KV bucket, cache, watcher | Register, Deregister, NewDynamicRegistry, watch, Close, lookups, Score | watcher restart, TTL expiry, a Put that arrives late |
| Context tracker | `internal/contextmgmt` | metrics per session | StartSession, UpdateTokens, RecordCompaction, EndSession, the choice of a strategy | thresholds, early returns of Handle between start and end |
| Branch session | `internal/branch` | branches of the clone and the remote | Start, Complete, Abort, names, retries | partial failure between git calls, `git checkout -` after such a failure, names that begin alike or become the same |
| AgentRuntime controller | `operator/internal/controller` | the runtime, its children, informer caches | Reconcile | stale caches, conflicts, failures between two writes, change of mode |
| ModelConfig controller | `operator/internal/controller` | the config, its Secret, annotations of runtimes | Reconcile, watch on Secrets | a propagation cut short, a Secret that changes meanwhile |
| Telemetry, CRD types, test servers | `internal/telemetry`, `operator/api`, `test` | none that matters | - | not modelled |

## 2. Modules and how they correspond to the code

`DAG` is the graph. `edges[<<u, v>>]` is how often `v` is listed under `u`, so
parallel edges keep their effect on the counters. Every method that changes the
graph is an action, and `Complete` takes ids that were never added too. Reachability and acyclicity are defined by closed sets of nodes,
which suits proofs. `DAGSearch` has the two searches the code really runs, turn by
turn: the worklist of `reachable` (`Expand`, `SkipVisited`, `MeetTarget`, `AddsEdge`)
and the three-colour search of `Validate`, whose nested calls of `dfs` are `path`
(`Enter`, `Descend`, `MeetGray`, `MeetBlack`, `Leave`). The roots come in the order of a
Go map, which is any; the stack and the edge lists are sets, so the actions allow every
order, the code's among them. `Validate` is also asked about the graph with one
more edge, which may close a cycle. `DAGSearch` implements `DAG`, so the other modules
may use the definitions instead of the searches.

`Scheduler` is `Schedule`. The main goroutine's position is `phase`; each task of
the current wave has a goroutine, `call[t]`. The two barriers
(`dispWg.Wait`, the drained `waitCh`) are the guards of `StartWaiting` and
`EndBatch`. The request is not fixed: tasks and dependencies are read one by one,
and duplicates, unknown ids, empty ids, self-loops and cycles are rejected where the
code rejects them. Agents and dispatch outcomes are the environment.

`Collector` is `ResultCollector`. Each section under `rc.mu` is one action;
`handleStatus` locks twice and is two actions. The subscriptions are two
sequences, since NATS keeps the order of one subscription and none between two.
`Publish` is the order in which `Handle` publishes, with any number of side-by-side
attempts, any of which may stop or have its messages lost.
`ResultBoard` is what the collector promises: a cell per task that is written
once partially and once fully, and calls that are handed the cell or cancelled.
`Collector` implements it with `cell <- results`, `pending <- OpenCalls`,
`hand <- ch`, `cancelled <- ctxDone`.

`TaskQueue` is JetStream as `nats.go` configures it (explicit acknowledgement,
AckWait, MaxDeliver 3). JetStream is not in the repository, so this
module is external: its guarantees are those the consumer code relies on. Ack,
Nak and Term can be lost, and one from an earlier delivery still takes effect.

`Proxy` composes `TaskQueue` with `Consumer.Run`, `processMessage`, `Handle`,
`Shutdown` and `main`, for several proxies. `pc[p]` is the place in `Handle`,
`main[p]` the phase of the shutdown. A process can be killed at any step and
restarted. Every call to the agent or to NATS can fail, and a publish can reach NATS
and still return an error.

`Attempts` is what proxies promise together about the messages of a queue, whoever runs
them and whenever they die: attempt n of a message is the work on its nth delivery; it goes
from "working" to a failure or to a result, then to a return, and the message is settled
by that return. There are no processes in it. `Proxy` implements it: `attempt` is read off
the places of the proxies that hold a delivery (`AttemptOf`), and is "over" for a
delivery that nobody holds any more; `resulted` is what was published.

`AcpClient` is one connection to an agent. `pc[c]` is the place in `call` or
`Prompt`; `pending` and `deltaKey` are the keys of the map the calls share with
`readLoop`; `replyCh` and `delta` are the channels, with their capacities;
`inbox` is what the agent has sent and the reader has not yet read. `call` stands
for `Initialize`, `NewSession` and `CancelSession`. Storing the channel, sending, and
each branch of the selects are actions of their own. The reader is one more
goroutine: the test of its context, the scan, the dispatch of a line by type, and,
when the connection ends, the `Range` over the map, which visits the keys one by
one while calls come and go. The agent may answer twice, badly, late or never.

`Lists` has what the libraries need of lists: the members at given indices, and the
order of numbers. `Routing` has the pure functions of the registry: `validate`, `Score`, and the
lookups; the loop of `RouteByScore` is a recursive function with the step `Better`, as the
loop of `Sanitize` over doubled hyphens is one.
`Registry` is `DynamicRegistry` over a KV bucket (external: revisions,
expiry, a watcher that replays the bucket, in any order, and ends when its connection does). A `Register`
whose context ended may still take effect. `Tracker` has each operation of the
context tracker as an action, driven by `Handle`'s calls in their order, and the
integer percentage as the code's float64 arithmetic gives it, and starts with any
thresholds that `NewTracker` accepts: it asks only that the first be below the second.
`Branch` has `WorkerSession` against a clone and a remote in which any git call may fail, or
be cut short by its context with its work done, and git's "-" (`prev`), on which `Abort`
depends. Names are short sequences of characters, so that `Sanitize`, `Parse` and the prefix
that `FindRetries` looks for are modelled by what they do. `base`, `stray` and `aborted` are
history.

`Lifecycle` composes `FanOut`, `Dispatch`, `Attempts` and the collector's cell: the way of a
task from the request to what its caller is told. The messages to the collector may be
lost (`Lose`), since its subscriptions are of core NATS. Its actions on the queue are those of
`Attempts`, each with what the step publishes, so what `Proxy` models in detail is here
in coarser steps that it is shown to implement. What it adds, that a failed status goes
out or not, is related to `Proxy` and `Collector` by reading.

`AgentRuntime` is the reconciler of one runtime. Each call to the API server is one
action with three outcomes: done, refused because the copy was stale, or failed. `obj[k]`
is the generation a child was built from; `cache[k]` says whether the informer has the
server's object. The ScaledJob is read from the server, as in the code. Users edit,
delete and change the mode; the process crashes and starts again.
`ModelConfig` is the reconciler of one config with its Secret and the runtimes that
refer to it. The hash of a Secret is its content; `mcWork` is what a `Reconcile` has read.
Each is in the environment of the other: `Annotate` in the first is the second's
write, `Touch` in the second is the first's.

`MCDAG`, `MCScheduler`, `MCProxy`, `MCLibraries` and `MCOperator` hold the values of constants,
and the last two put modules side by side: `active` names the one that
moves in a behaviour, as the others share nothing with it. A definition
whose comment starts with "Slip" is a deliberate fault of the one after it;
no specification uses it.

## 3. Runs

| Run | Instance | Question | Answer |
|---|---|---|---|
| `dag` | 4 nodes, searches turn by turn | Do all call sequences keep the graph acyclic, is a ready node never ahead of a predecessor, and do the worklist and the three-colour search agree with reachability and with each other? | yes |
| `scheduler` | 3 tasks, each dependency listed up to twice, all terminal states | order of dispatch, no stall, exact meaning of a nil error, no outcome overwritten; does Schedule return? | yes |
| `scheduler_inflight` | 2 tasks | Are in-flight tasks awaited on cancellation (`scheduler.go:49`)? | no |
| `collector` | 1 task, 2 callers, 2 attempts | no lost wake-up, no leaked waiter, refinement of `ResultBoard` (results only improve, and what a call is handed is what is stored); does every call that can end do so? | yes |
| `collector_nil_task` | 1 task, 1 caller | Does a completed result always carry its Task (`types.go:34`)? | no: the status overtakes the result |
| `proxy` | 2 proxies, 1 message, kills | no message settled without its work, order of shutdown | yes |
| `proxy_live` | 1 proxy, 2 messages (one malformed), 1 restart | Does SIGTERM end the process though the agent is silent? Is every message settled or delivered three times? Does the proxy implement `Attempts`? | yes |
| `proxy_cancel` | 1 proxy, 1 message | Is session/cancel sent for every active session (`shutdown.go:74`)? | no: `workCancel` comes first |
| `acp` | 1 call, 1 prompt with 2 chunks, delta channel of 1 | Does the reader never block, does the delta channel keep its bound, is a text all of its chunks unless the channel was full, does a loss reach each call it finds; do calls end? | yes |
| `libraries` | 1 key and 2 updates; 2 sessions; 2 workers, 3 attempts; 2 tasks, 1 agent | Registry: does the cache follow the bucket and come to show it, do its lookups agree? Tracker: are the sessions tracked the ones handled, is the strategy the one the thresholds ask for? Branches: does a name lead back to the sessions of that sanitized name, does the clone come back from attempts given up? Lifecycle: are slots true, is what the collector has of a settled task true and, but for lost messages, complete, is nothing sent after FanOut returned, and is all settled when nothing can go on? | yes |
| `operator` | 1 child and 2 generations; 2 runtimes, 3 contents | When nothing is pending, do the children match the spec, and do all listed runtimes have the hash? Is the status written last? Do both controllers converge when disturbances end? | yes |
| `rotation_reverts` | 2 runtimes, 2 contents that may come back | Does a retry still see the changed hash (`modelconfig_controller.go:139-140`)? | no, if the Secret went back |

Each property of a passing run comes with one slip in the modelled code that makes
TLC report it: see `mutants` in `PROJECT.json`.

### Bounds

- `Ids`: four nodes in `dag` contain chains, diamonds, forks and joins; the ids are
  interchangeable, so TLC takes them as symmetric. An edge is listed once there, as the
  searches do not count. Three tasks
  in `scheduler` contain a chain with a failure at its head, a fork, a join and
  two batches with an independent task; `MaxParallel = 2` lists a dependency
  twice. The theorems cover every number of tasks.
- `Tasks = {t1}` in `Collector`: the maps are per task and no operation touches
  two tasks, apart from the queues between them. The proofs cover any number.
- `Attempts = {1, 2}`: two attempts contradict or repeat each other in every
  order; a third adds no new pair.
- `Proxies`: two, so a message can be worked on twice at once and settled by
  either. With one message the counter reaches MaxDeliver.
- `ImplementsAttempts` is checked with one proxy that is killed, restarted and overtaken by
  AckWait. With two proxies that work on the same message at once it was checked once (2.5
  million states, 18 minutes), and the proof covers any number.
- `MaxRestarts` limits restarts. Zero restarts with two proxies still has a killed
  proxy whose message the other takes over.
- `defaultMaxDeliver` is 3, as in the code. No integer in the modelled code comes near its
  width.
- `AcpClient`: `DeltaCap = 1` with two chunks fills the delta channel (256 in the
  code); one call and one prompt are the two kinds of key in the map. `MaxReplies =
  1` and `MaxInbox = 1` bound the agent; with both at 2, so that a request is
  answered twice, the invariants were checked once without the liveness properties
  (2.8 million states), and the proofs cover any number of replies.
- `Registry`: keys are independent, so one is enough for the cache; two updates make
  a late Put meet a newer one. The file has
  two agents, or is refused because its agents share a subject.
- `Tracker`: limits 0 and 100 and token counts 0, 29, 58, 60, 90 and 120 lie on, below and
  above the thresholds, and above the limit. The thresholds are the defaults of 60 and 90; 29
  and 58, at which float64 comes out below the exact percentage; 0 and 120, as `NewTracker` does
  not keep them within 0 .. 100 (the CRD does); and two pairs that it refuses. The model's
  percentage is the code's for limits below 2^45 tokens, where the distance of a quotient from
  the next integer is above the rounding of the two float64 operations.
- `Branch`: three attempts make a retry of a retry; the two workers have names of which
  one begins with the other after `Sanitize`, or which it makes the same.
- `Lifecycle`: two tasks, one of which no agent can take; three deliveries each.
- `AgentRuntime`: one child before the workload and two generations, so that each write
  can be stale, and every change of mode. The ConfigMap and the Service are handled alike;
  an instance with both was checked once (5.5 million states).
- `ModelConfig`: one runtime that was listed from the start and one that joins later;
  three contents, so that a rotation can overtake another one.

`CHECK_DEADLOCK FALSE` is used for all but `dag` and `scheduler`: their systems
end in states where every caller has returned, every process has ended, or users
have used up their edits. `Schedule` has an explicit `Returned` step instead, so
TLC's deadlock check is a property of the scheduler.

### Fairness

- `Scheduler!FairSpec`: weak fairness of the main goroutine and of each dispatch,
  since Go runs goroutines that are not blocked and `PublishJSON` has a context;
  `WaitFor` returns when there is a result or the context is done. Nothing
  obliges an agent to answer, nor the `ResultWaiter` to fail.
- `Collector!FairSpec`: the callback goroutines and unblocked calls proceed.
  No fairness of publishers, cancellation or `Start`.
- `Proxy!FairSpec`: local steps of the consumer, the phases of `Shutdown` (their
  timers fire), and calls to the agent once the work context is done. The
  agent may stay silent.
- `Proxy!ServiceFair`, the hypothesis of `EveryMessageSettles`, is what service
  needs and SIGTERM does not: the agent answers, AckWait runs out, and a proxy that
  fetches again and again is served (strong fairness, as one fetch can always time
  out first).
- `AcpClient!FairSpec`: the reader and the calls that are not blocked proceed.
  The first part of `CallsEnd`, for calls whose context is done, needs no more. The second
  has the hypothesis that the agent answers that very call, and excepts a call whose
  reader has ended and an agent that waits for an answer of the client that will not come.
- `MCLibraries!RegistryFair`: the goroutines of the registry proceed and pauses end; `WatchAll`
  succeeds if it is tried again and again (strong fairness, since NATS may be away
  at each try).
- `RuntimeFair`, `ConfigFair`: the worker, the informers, the garbage collector and
  the timer run, as controller-runtime and Kubernetes promise. That users rest, that
  the process stays up and that the server stops refusing calls is the hypothesis of
  `OperatorConverges`; stale copies and conflicts are not excluded.
- `Lifecycle` has none. `WorkSpent` shows that its behaviours are finite: every step takes
  from a natural number, one per task and one for `FanOut`, and adds to no other. So
  `RestIsSettled` says what holds where they end: `FanOut` has returned, and nobody waits for a
  task that is neither settled nor refused. Its first conjunct, that `CanProgress` is the
  enabledness of `Progress`, is left to TLC; its second, `RestSettles`, is proved.

## 4. Theorems

Each theorem has the form `Spec => []Inv` or an action or refinement property, and
holds for all sets of tasks, callers, messages, proxies, runtimes and children and
any number of attempts, restarts, replies, generations and parallel edges.

- `SchedulerProofs`, the graph. Acyclicity: an edge `from -> to` is added only if `to` does
  not reach `from`. If every node of a set had a predecessor in the set afterwards, so
  had the part of it that `to` does not reach before; hence `to` reaches the
  whole set, `from` is not in it, and it was such a set before the step.
  `ReadyWaitsForAll` rests on `CountersCover`: a counter is never below the number of
  open incoming edges, parallel ones told apart. It can be above it, since
  `AddEdge` also counts an edge from a node that is complete, so equality is an invariant
  of `Schedule` only, which adds all its edges first.
- `SearchProofs`. `SearchInv` has a part for each search. `Worklist`: all that is on the stack
  or was taken off it can be reached from the start, the target is not among it, and the
  successors of visited nodes are; so an empty stack leaves a closed set without the
  target. `DfsOK`, for any graph: the gray nodes are the path, a chain without repetition; a
  node on it has looked at all but its `todo`, at black nodes and at the next of the path;
  the black nodes are closed, and each set of them has a member without a predecessor in
  the set. A gray successor closes a cycle along the path (`DfsFinds`), and when every node is
  black there is none (`DfsEnds`). `EdgeCloses` connects the two searches: in an acyclic graph
  an edge closes a cycle exactly when its target reaches its source. From these follow
  `SearchesAlwaysAgree` and, action by action, the refinement `SearchImplementsDAG`.
- `SchedulerProofs`, `Schedule`. Type correctness and five properties. Only the types are
  inductive. The invariant `IInv` adds: the graph is acyclic and its counters are
  exact (`Graph`); before the loop nothing is recorded (`Fresh`); the complete
  nodes are the ones with an outcome (`Recorded`); the skip set is exactly the
  dependents of tasks that ended other than completed (`Marked`); the tasks still
  to be partitioned are ready, and none was dropped unless one was skipped
  (`ReadyList`); goroutines belong to incomplete tasks of the last batch
  (`Wave`); a complete task was dispatched or skipped (`DispatchedOrSkipped`);
  `batchNum` numbers the wave in progress or the next (`BatchCount`); a nil error
  leaves nothing incomplete (`NilErrorAllComplete`). `NeverStalls` follows from
  acyclicity and exact counters: the incomplete nodes have a source, and its
  counter is zero.
- `LifecycleProofs`, the collector. `IInv` adds to the properties: the shape of a call in each
  place (`CallShape`); a full result that was handed over is the one stored
  (`HandedIsStored`); while `handleStatus` is between its two sections, what was
  stored meanwhile can only be a full result (`HeldIsFirst`), which is why its stale
  check does no harm. The refinement theorem shows that each action is one step
  of `ResultBoard` or a stutter.
- `ProxyProofs`. `ConsumerInv` ties the consumer's place to the message held and to
  `Handle`'s place (a nil return means the result is published; the delivery
  number held never exceeds the queue's); `MainInv` ties the phases of shutdown to
  `shuttingDown`, the work context and the WaitGroup. For the refinement of `Attempts`,
  `WorkInv` adds that a delivery is held by one proxy at most: JetStream counts a delivery
  before it hands it out, so the number a fetch gets is above every number held. `Located`
  then says of each delivery which attempt it is, and there is one lemma per kind of step:
  `FetchRefines` (a step `Begin`), `HandleRefines` (a step of the attempt, or none),
  `ReleaseRefines` (a settlement or a death); AckWait is itself, and the phases of the
  shutdown leave the attempts alone.
- `AcpProofs`, the calls. `AcpInv` says for each call what the map and its reply channel have
  to do with its place: an entry that no failure has touched has an empty channel; a
  value in a channel that is not a loss, and a success, come after an answer; while
  the reader walks the map a call found at the loss is still in it, and when the
  walk is over it has been told, unless the client was closed. `ReaderNeverBlocks`,
  `SuccessIsAnswered`, `MapIsClean` and `LossReachesAll` follow.
- `AcpProofs`, the texts. Types, and `TextIsWhole`: unless a chunk was dropped, the chunks of a prompt
  that were joined, those in its channel and those on the wire are, one after the other, all
  the agent has streamed; on the wire they are in their order and before the reply. So
  when the reply is taken off its channel, the rest is in the delta channel, which `Prompt`
  then drains.
- `LibraryProofs`, lists and loops. A non-empty set of numbers has a least one, by the
  well-foundedness of `<` in the library; that is induction on sets of numbers. From it come
  the ranks of a finite set (`Ranks`: `Nth` lists it once and in order) and `Iterates`: a
  recursive function over `0 .. n` exists and satisfies its equations, so a loop written as one
  can be followed turn by turn.
- `RegistryProofs`, the cache. `CacheInv` follows a name from the bucket through the
  watcher's updates to the cache: the last update of it under way is what the bucket says, and
  without one the cache says it. A watcher that starts again replays the entries in any order,
  which the lemma `Replay` reduces to one update per live name. `AskInv`: unless a call has
  gone astray (its context ended), nothing of an agent is under way but its running call.
- `RegistryProofs`, the lookups. `LookupsAlwaysAgree`: the list of `All` has each agent once and in
  the order of the names; for the loop of `RouteByScore`, the best after i entries is the first
  of the highest score among them.
- `LibraryProofs`, the tracker. `TrackInv` says that the tracked sessions are those of calls
  between `StartSession` and `EndSession`. `StrategyIsExact` is arithmetic: the
  float64 percentage is the exact one or one below, the latter only where that is exactly 29,
  57 or 58, and an integer quotient is below a threshold, which may be any integer, exactly when
  the cross product is. So the strategy differs from the exact one only at those three
  thresholds, and there the property says how.
- `LibraryProofs`, the branches. `BranchInv` bounds what a clone knows by what is on the
  remote, and that by the attempts. `InPlace` is what `CloneComesBack` needs: not only HEAD but
  also git's "-" is the branch of the attempt, its start or a stray one, and HEAD is a branch that
  exists, so after a delete the clone is off it. `Prefixes`: a branch begins with a feature and an
  agent name, each with its slash, just when it is of that name, as no sanitized name has a
  slash; `RetriesFound` follows. `ParseInverts` is about the names: neither the
  feature nor the agent has a slash, so the first two slashes of the joined name, at which
  `Parse` cuts, are the ones `String` put there; those of the id come later.
  `NamesAlwaysLeadBack` is about `Sanitize`: a turn of its loop over doubled hyphens shortens
  the name and drops only hyphens, so the loop ends, and trimming its result makes no new
  pair; a name without dots, pairs and outer hyphens is left alone.
- `LifecycleProofs`, the way of a task. `FanInv` counts: as many results are in the channel as
  goroutines have ended, so a full channel means that all have, and the slots are
  what they found. `BackInv` counts attempts: each delivery is still being worked
  on, has said a word (a status or a result, which is under way, stored or lost), or was cut
  short. A settled task of which nobody heard has therefore only attempts that were cut short,
  or its words were lost.
  `RestSettled` follows from the two, `LifecycleTypes` with the rest of the types. For `WorkSpent` a delivery still to come weighs ten, an
  attempt up to eight, a message under way, an open AckWait and a running goroutine one:
  a delivery turns ten into eight and an open AckWait, a step of an attempt
  gives up two and may send one message.
- `OperatorProofs`, the runtime. `QuietIsRight` speaks of states with nothing pending. `RuntimeInv`
  strengthens it to every place in `Reconcile`: if no queue entry, event or stale copy is
  left (`Clean`), then what comes before that place is right already (`Reached`). Each write
  either makes the next part right or leaves something pending.
- `OperatorProofs`, the config. If contents do not come back they are numbered in their
  order, and `ConfigInv` is about that order: no hash is ahead of the Secret
  (`SecretGrows`), annotations only grow and for a listed runtime are not behind the
  status (`HashesGrow`), a listed runtime has the new hash or is still to be
  annotated (`ListIsDone`). Without that hypothesis the statement is false: see
  `rotation_reverts`.

Assumptions: `ResultStatesAssumption` (task states are not named like the model's
own markers), `ProxyAssumption` (`NoMsg` is not a message, `MaxRestarts` is a
natural number), `AcpAssumption` (a call is not also a prompt; capacities and bounds
are positive), `LifecycleAssumption` (a task is an index of the request),
`RuntimeAssumption` (there are children, with different names that are not places of
`Reconcile`), `ConfigAssumption` (contents are numbers, zero among them),
`RegistryAssumption` (the names are finitely many, and a card is not named like a marker),
`TrackerAssumption` (counts and limits are natural numbers, the thresholds are integers) and
`BranchAssumption` (the number of attempts is a natural number, and no name has a slash, which
stands with the other characters that `Sanitize` replaces). TLC evaluates each in the runs.

Some theorems have no counterpart in a run: the types of `Scheduler`, `Proxy`, `Registry`,
`Tracker` and `Lifecycle`, with the bounds in them (the pause of the watcher, the number of
deliveries); `BatchesAgree`, `FullAnswersAgree`, `ErrorsAreCancellations`,
`StoredResultsOnlyImprove`, `CompletedHasResult`, `SuccessIsAnswered`, `MapIsClean`,
`CountedWerePushed`, `ParseInverts` and `WorkSpent`. The runs keep to the properties that say
more. The types of `DAG`, `Collector`, `Branch`, `AgentRuntime` and `ModelConfig` are proved as
parts of the inductive invariants.

Only model-checked:

- all liveness: `ScheduleReturns`, `CallsReturn`, `SigtermExits`, `EveryMessageSettles`,
  `CallsEnd`, `CacheConverges` and `OperatorConverges` depend on fairness, which is outside the
  prover;
- that `CanProgress` is the enabledness of `Progress` (in `RestIsSettled`): ENABLED.

The induction theorems of the library take an operator as a parameter, which the provers
cannot instantiate; the proofs use the least number of a set instead.

## 5. Findings

Four runs end in a violation, each a disagreement between the code and a comment:

- in-flight tasks are not awaited after a cancellation, as their `WaitFor` has the
  cancelled context (`scheduler.go:49`);
- a completed result can come without its Task, when the status overtakes the result
  (`types.go:34`);
- a session that is active when the grace period ends may get no session/cancel
  (`shutdown.go:74`);
- a propagation that was cut short is not made good if the Secret then gets the content
  whose hash is in the status: the retry sees no change, and a runtime keeps the hash of a
  content that is gone (`modelconfig_controller.go:139`). A stale copy of a runtime can
  then have the same effect, through the test "already up to date" (`:242`).

More were met and have no run:

- `dag.go:21` calls the in-degree the number of incomplete predecessors, but a
  dependency that is listed twice counts twice.
- `types.go:28` of the scheduler names four statuses, but "rejected" passes through
  `outcomeStatus`.
- `docs/sigterm-behavior.md:24` says that ingestion stops immediately, but a fetch that is
  under way still returns a message.
- `acp/client.go:253` says that all pending calls fail when the connection is lost.
  A call that is stored after the walk over the map began may be missed; it ends
  with its context. A prompt that the loss ended leaves its id in the map.
- A permission request whose parameters do not parse gets no answer, so the agent waits.
- The expiry of a registration gives the watcher no event, so the cache keeps an
  agent that is gone (`CacheFollows` and `CacheConverges` except it); the restart of
  the watcher does not clear it either. The pause between two tries reaches 32
  seconds, above `maxBackoff`.
- `scorer.go:16` says a tag is counted once; a tag that the request has twice is
  counted twice.
- `tracker.go:204` offers a strategy for a previous session, but `EndSession` removes its
  metrics, so the answer for it is always "fresh" with an error.
- `tracker.go:24` gives "fresh" for usage "> checkpointThreshold", and
  `research/hybrid-comms-architecture.md:2080-2090` has 60-90% for a checkpoint and "> 90%" for
  "fresh". The code gives "fresh" at exactly the threshold too (`tracker.go:197`), and so does its test
  (`tracker_test.go:122`); `StrategyIsExact` states what code and test agree on.
- At a threshold of exactly 29, 57 or 58 percent `UsagePercent` comes out one below, and the
  lower strategy is chosen (`tracker.go:66`).
- Agents whose names `Sanitize` makes the same, such as `x.y` and `x-y`, count each other's
  sessions as their retries (`retry.go:48`).
- When the delete of `Abort` fails, a second `Abort` calls `git checkout -` again, which returns
  to the branch to be deleted, so its delete fails as well (`worker.go:94-102`).
- A result or status that is lost on the collector's core subscription is not sent again
  (`collector.go:48`, `:55`): without its result and its status a caller waits until its context is
  done, though the task was acknowledged.
- `FanOut` does not refuse two tasks with the same id. A "failed" slot may belong to
  a task that was stored, and `WaitFor` may answer "failed" though a later attempt
  succeeds.
- `status.modelConfigHash` of a runtime is never written; a runtime that joins after
  the list was made is not annotated, as nothing watches for it.

## 6. Plan

All items are done:

1. `DAG`, `DAGSearch`, `SearchProofs`, and the graph's part of `SchedulerProofs`.
2. `Scheduler`, `SchedulerProofs`.
3. `Collector`, `ResultBoard`, the collector's part of `LifecycleProofs`.
4. `TaskQueue`, `Attempts`, `Proxy`, `ProxyProofs`.
5. Runs for documented behaviour that the code does not have.
6. `AcpClient`, `AcpProofs`.
7. `Lifecycle`, `LifecycleProofs`: `FanOut`, `Dispatch` and what becomes of a task.
8. `Lists`, `Routing`, `Registry`, `Tracker`, `Branch`, `LibraryProofs`, `RegistryProofs`.
9. `AgentRuntime`, `ModelConfig`, `OperatorProofs`.

Not yet related by a refinement: the collector's cell in `Lifecycle` and `Collector`, and the
messages of `Lifecycle` and those `Proxy` publishes.

## 7. Not modelled

- Texts, prompts, telemetry, logging: no control depends on them.
- CRD types, generated deep copies, start-up of the operator: declarations. The
  controllers of AgentCard, MCPServer and TaskPipeline return at once.
- What the build functions put into a Deployment or a ScaledJob: data, one value per
  generation here. What KEDA writes into a ScaledJob, and a cluster without KEDA.
- An AgentRuntime with a mode that the CRD's enum excludes.
- Servers and harnesses under `test/`: they are test code.
- NATS reconnection and stream creation: handled by the client library.
- What JetStream does when two proxies configure the shared durable consumer with
  different subjects (`nats.go:99`). This is the one hazard without a property: the
  runs have one subject.
- How a registry file is decoded, and values in the bucket under a name that is not theirs.
- `LatestSession`, a read of the branch list.
- The two halves of `Client.Close`, which is one step here.
