----------------------------- MODULE AcpClient -----------------------------
(***************************************************************************)
(* internal/acp/client.go: one TCP connection to the agent, any number of  *)
(* calls that share it, and readLoop, which hands every incoming line to   *)
(* the call it belongs to.  The calls and the reader meet in the map       *)
(* pending, which holds a reply channel per request id and a delta channel *)
(* per session.                                                            *)
(*                                                                         *)
(* Ids are taken from a counter, so a call stands for its id.  The proxy   *)
(* opens a session for each prompt, so a prompt stands for its session.    *)
(* The agent at the other end is the environment.                          *)
(***************************************************************************)
EXTENDS Integers, Sequences

CONSTANTS Plain,       \* Initialize, NewSession and CancelSession: made by call
          Prompts,     \* made by Prompt
          DeltaCap,    \* capacity of a delta channel: 256 in the code
          MaxChunks,   \* bound: chunks the agent streams for one prompt
          MaxReplies,  \* bound: replies the agent sends to one request
          MaxInbox     \* bound: lines under way to the reader

ASSUME AcpAssumption ==
  /\ Plain \cap Prompts = {}
  /\ {DeltaCap, MaxChunks, MaxReplies, MaxInbox} \subseteq Nat \ {0}

Calls == Plain \cup Prompts

VARIABLES
  conn,      \* "none", "open", "lost" (the agent's end is gone) or "closed"
  broken,    \* the buffered writer has seen an error, which it keeps
  reader,    \* where readLoop is
  pending,   \* the ids in the map
  deltaKey,  \* the sessions whose delta channel is in the map
  replyCh,   \* the reply channel of a call, "none" or what it holds
  deltaCh,   \* the delta channel of a prompt
  deltas,    \* the chunks Prompt has collected
  pc,        \* where a call is
  ret,       \* how it ended
  ctxDone,   \* its context ended while it ran
  atLoss,    \* the ids in the map when Range began
  hit,       \* the ids Range has sent its error to
  inbox,     \* lines under way from the agent
  got,       \* requests that reached the agent
  replies,   \* replies sent to a request
  chunks,    \* chunks sent for a prompt
  ask,       \* a request of the agent to the client, and its state
  dropped    \* prompts that lost a chunk to a full channel

connVars == <<conn, broken>>
readVars == <<reader, atLoss, hit>>
mapVars == <<pending, deltaKey>>
chanVars == <<replyCh, deltaCh>>
callVars == <<pc, ret, ctxDone, deltas>>
agentVars == <<got, replies, chunks, ask>>
vars == <<connVars, readVars, mapVars, chanVars, callVars, agentVars, inbox, dropped>>

Bodies == {"content", "empty", "garbled", "error"}   \* what a reply holds

Line(type, call, body, n) == [type |-> type, call |-> call, body |-> body, n |-> n]
Reply(c, b) == Line("reply", c, b, 0)
Chunk(p, n) == Line("chunk", p, "text", n)
Ask(p, b) == Line("ask", p, b, 0)

\* What a request of the agent is: a permission request, one whose parameters
\* do not parse, or a method the client does not know.
Asks == {"permission", "malformed", "unknown"}

Lines ==
  {Reply(c, b) : c \in Calls, b \in Bodies} \cup {Chunk(p, n) : p \in Prompts, n \in 1 .. MaxChunks}
  \cup {Ask(p, b) : p \in Prompts, b \in Asks}

Init ==
  /\ conn = "none" /\ broken = FALSE
  /\ reader = "none" /\ atLoss = {} /\ hit = {}
  /\ pending = {} /\ deltaKey = {}
  /\ replyCh = [c \in Calls |-> "none"]
  /\ deltaCh = [p \in Prompts |-> <<>>]
  /\ deltas = [p \in Prompts |-> <<>>]
  /\ pc = [c \in Calls |-> "idle"]
  /\ ret = [c \in Calls |-> "none"]
  /\ ctxDone = [c \in Calls |-> FALSE]
  /\ inbox = <<>>
  /\ got = {}
  /\ replies = [c \in Calls |-> 0]
  /\ chunks = [p \in Prompts |-> 0]
  /\ ask = [p \in Prompts |-> "none"]
  /\ dropped = {}

----------------------------------------------------------------------------
(* Connect and Close                                                       *)

\* The dial succeeds.  If it fails, the process ends.
Connect ==
  /\ conn = "none"
  /\ conn' = "open"
  /\ reader' = "top"
  /\ UNCHANGED <<broken, atLoss, hit, mapVars, chanVars, callVars, agentVars, inbox, dropped>>

\* Close cancels the reader's context and closes the connection.
Close ==
  /\ conn \in {"open", "lost"}
  /\ conn' = "closed"
  /\ UNCHANGED <<broken, readVars, mapVars, chanVars, callVars, agentVars, inbox, dropped>>

----------------------------------------------------------------------------
(* call and Prompt                                                         *)

Move(c, from, to) ==
  /\ pc[c] = from
  /\ pc' = [pc EXCEPT ![c] = to]

Return(c, r) ==
  /\ pc' = [pc EXCEPT ![c] = "done"]
  /\ ret' = [ret EXCEPT ![c] = r]
  /\ ctxDone' = [ctxDone EXCEPT ![c] = FALSE]

\* A call that returns lets go of its channels; of the chunks it keeps d.
Forget(c, d) ==
  /\ replyCh' = [replyCh EXCEPT ![c] = "none"]
  /\ deltaCh' = [p \in Prompts |-> IF p = c THEN <<>> ELSE deltaCh[p]]
  /\ deltas' = [p \in Prompts |-> IF p = c THEN d ELSE deltas[p]]

\* A new id, and its reply channel in the map.
StoreReply(c) ==
  /\ conn # "none"
  /\ Move(c, "idle", IF c \in Prompts THEN "stored" ELSE "ready")
  /\ pending' = pending \cup {c}
  /\ UNCHANGED <<connVars, readVars, deltaKey, chanVars, ret, ctxDone, deltas, agentVars, inbox, dropped>>

StoreDelta(p) ==
  /\ Move(p, "stored", "ready")
  /\ deltaKey' = deltaKey \cup {p}
  /\ UNCHANGED <<connVars, readVars, pending, chanVars, ret, ctxDone, deltas, agentVars, inbox, dropped>>

\* The write under c.mu.  It succeeds as long as the kernel takes the bytes,
\* whether or not the agent is still there; after its deadline it fails, and
\* bufio.Writer then fails for ever.
WriteOk == conn \in {"open", "lost"} /\ ~broken /\ UNCHANGED broken
WriteErr == broken' = (broken \/ conn # "closed")

SendOk(c) ==
  /\ Move(c, "ready", "waiting")
  /\ WriteOk
  /\ got' = IF conn = "open" THEN got \cup {c} ELSE got
  /\ UNCHANGED <<conn, readVars, mapVars, chanVars, ret, ctxDone, deltas, replies, chunks, ask, inbox, dropped>>

\* The error path deletes the id and, in Prompt, the delta channel.
SendErr(c) ==
  /\ pc[c] = "ready"
  /\ WriteErr
  /\ Return(c, "err") /\ Forget(c, <<>>)
  /\ pending' = pending \ {c}
  /\ deltaKey' = deltaKey \ {c}
  /\ UNCHANGED <<conn, readVars, agentVars, inbox, dropped>>

CtxReturns(c) ==
  /\ pc[c] = "waiting" /\ ctxDone[c]
  /\ Return(c, "err") /\ Forget(c, <<>>)
  /\ pending' = pending \ {c}
  /\ deltaKey' = deltaKey \ {c}
  /\ UNCHANGED <<connVars, readVars, agentVars, inbox, dropped>>

TakeDelta(p) ==
  /\ pc[p] = "waiting" /\ deltaCh[p] # <<>>
  /\ deltas' = [deltas EXCEPT ![p] = Append(@, Head(deltaCh[p]))]
  /\ deltaCh' = [deltaCh EXCEPT ![p] = Tail(@)]
  /\ UNCHANGED <<connVars, readVars, mapVars, replyCh, pc, ret, ctxDone, agentVars, inbox, dropped>>

\* call has a response: an RPC error and, in two of its callers, a result that
\* does not unmarshal are errors.  The deferred Delete runs.
CallReply(c) ==
  /\ pc[c] = "waiting" /\ replyCh[c] # "none"
  /\ \/ replyCh[c] \in {"content", "garbled"} /\ Return(c, "ok")
     \/ replyCh[c] \in {"error", "loss", "garbled"} /\ Return(c, "err")
  /\ Forget(c, <<>>)
  /\ pending' = pending \ {c}
  /\ UNCHANGED <<connVars, readVars, deltaKey, agentVars, inbox, dropped>>

\* How Prompt ends with a response and the chunks d: the content of the result
\* goes first, then the joined chunks, which may be none.
PromptResult(body, d) ==
  CASE body \in {"error", "loss"} -> "err"
    [] body = "garbled" -> IF d = <<>> THEN "err" ELSE "text"
    [] body = "content" -> "content"
    [] OTHER -> "text"

\* Prompt ends with a response and the chunks d.  Its deferred Delete removes
\* the delta channel; the id is not deleted: dispatch has done so, Range has not.
PromptEnds(p, d) ==
  LET r == PromptResult(replyCh[p], d) IN
  /\ pc[p] = "waiting" /\ replyCh[p] # "none"
  /\ Return(p, r) /\ Forget(p, IF r = "text" THEN d ELSE <<>>)
  /\ deltaKey' = deltaKey \ {p}
  /\ UNCHANGED <<connVars, readVars, pending, agentVars, inbox, dropped>>

\* Slip: the delta channel is not drained.
PromptReplyUndrained(p) == PromptEnds(p, deltas[p])

\* Prompt has a response: what is left in the delta channel is collected first.
PromptReply(p) == PromptEnds(p, deltas[p] \o deltaCh[p])

----------------------------------------------------------------------------
(* readLoop                                                                *)

\* The check of the context at the top of the loop.
ReaderTop ==
  /\ reader = "top"
  /\ reader' = IF conn = "closed" THEN "ended" ELSE "scan"
  /\ UNCHANGED <<connVars, atLoss, hit, mapVars, chanVars, callVars, agentVars, inbox, dropped>>

\* Scan has a line: it is dispatched before the loop goes on.
ReadLine(type) ==
  /\ reader = "scan" /\ inbox # <<>> /\ Head(inbox).type = type
  /\ reader' = "top"
  /\ inbox' = Tail(inbox)
  /\ UNCHANGED <<conn, atLoss, hit, callVars, got, replies, chunks>>

\* Slip: the id is looked up and not deleted.
DispatchReplyLoad ==
  LET c == Head(inbox).call IN
  /\ ReadLine("reply")
  /\ c \in pending => replyCh[c] = "none"
  /\ replyCh' = IF c \in pending THEN [replyCh EXCEPT ![c] = Head(inbox).body] ELSE replyCh
  /\ UNCHANGED <<broken, mapVars, deltaCh, ask, dropped>>

\* A response: LoadAndDelete, then a send on a channel of capacity one.  A
\* response to an id that is not in the map is dropped.
DispatchReply ==
  LET c == Head(inbox).call IN
  /\ ReadLine("reply")
  /\ c \in pending => replyCh[c] = "none"
  /\ replyCh' = IF c \in pending THEN [replyCh EXCEPT ![c] = Head(inbox).body] ELSE replyCh
  /\ pending' = pending \ {c}
  /\ UNCHANGED <<broken, deltaKey, deltaCh, ask, dropped>>

\* Slip: the send to the delta channel is not limited by its capacity.
HandleNotificationUnbounded ==
  LET p == Head(inbox).call IN
  /\ ReadLine("chunk")
  /\ IF p \in deltaKey
     THEN deltaCh' = [deltaCh EXCEPT ![p] = Append(@, Head(inbox).n)] /\ UNCHANGED dropped
     ELSE dropped' = dropped \cup {p} /\ UNCHANGED deltaCh
  /\ UNCHANGED <<broken, mapVars, replyCh, ask>>

\* handleNotification with an agent_message_chunk: a send that never waits.
HandleNotification ==
  LET p == Head(inbox).call IN
  /\ ReadLine("chunk")
  /\ IF p \in deltaKey /\ Len(deltaCh[p]) < DeltaCap
     THEN deltaCh' = [deltaCh EXCEPT ![p] = Append(@, Head(inbox).n)] /\ UNCHANGED dropped
     ELSE dropped' = dropped \cup {p} /\ UNCHANGED deltaCh
  /\ UNCHANGED <<broken, mapVars, replyCh, ask>>

\* Slip: a method that is not known is only logged.
HandleServerRequestSilent ==
  LET p == Head(inbox).call IN
  /\ ReadLine("ask")
  /\ \/ Head(inbox).body \in {"malformed", "unknown"} /\ UNCHANGED <<ask, broken>>
     \/ Head(inbox).body = "permission" /\ WriteOk /\ ask' = [ask EXCEPT ![p] = "answered"]
     \/ Head(inbox).body = "permission" /\ WriteErr /\ UNCHANGED ask
  /\ UNCHANGED <<mapVars, chanVars, dropped>>

\* handleServerRequest: permission is granted, an unknown method is answered
\* with an error; parameters that do not parse are not answered, and neither is
\* anything once the writer fails.
HandleServerRequest ==
  LET p == Head(inbox).call IN
  /\ ReadLine("ask")
  /\ \/ Head(inbox).body = "malformed" /\ UNCHANGED <<ask, broken>>
     \/ Head(inbox).body # "malformed" /\ WriteOk /\ ask' = [ask EXCEPT ![p] = "answered"]
     \/ Head(inbox).body # "malformed" /\ WriteErr /\ UNCHANGED ask
  /\ UNCHANGED <<mapVars, chanVars, dropped>>

\* An empty line, one that does not parse, one without id and method, another
\* notification: the agent's noise is read as it comes.
SkipLine ==
  /\ reader = "scan" /\ conn = "open" /\ inbox = <<>>
  /\ reader' = "top"
  /\ UNCHANGED <<connVars, atLoss, hit, mapVars, chanVars, callVars, agentVars, inbox, dropped>>

ScanFalse ==
  /\ reader = "scan"
  /\ reader' = "failing"
  /\ atLoss' = pending
  /\ UNCHANGED <<connVars, hit, mapVars, chanVars, callVars, agentVars, inbox, dropped>>

\* Scan returns false: the end of the stream or an error, which may discard
\* lines under way, or a line longer than its buffer.
ScanFails == conn # "open" /\ ScanFalse
LineTooLong == conn = "open" /\ inbox = <<>> /\ ScanFalse

\* Range calls its function for a key: the error goes to the reply channel,
\* the key stays.  Range takes no snapshot, so it may or may not meet a key
\* stored after it began.
FailPending(c) ==
  /\ reader = "failing"
  /\ c \in pending \ hit
  /\ replyCh[c] = "none"
  /\ replyCh' = [replyCh EXCEPT ![c] = "loss"]
  /\ hit' = hit \cup {c}
  /\ UNCHANGED <<connVars, reader, atLoss, mapVars, deltaCh, callVars, agentVars, inbox, dropped>>

\* Slip: the function given to Range returns false, so it stops at the first.
RangeEndsEarly ==
  /\ reader = "failing"
  /\ atLoss \cap pending = {} \/ hit # {}
  /\ reader' = "ended"
  /\ UNCHANGED <<connVars, atLoss, hit, mapVars, chanVars, callVars, agentVars, inbox, dropped>>

RangeEnds ==
  /\ reader = "failing"
  /\ atLoss \cap pending \subseteq hit
  /\ reader' = "ended"
  /\ UNCHANGED <<connVars, atLoss, hit, mapVars, chanVars, callVars, agentVars, inbox, dropped>>

----------------------------------------------------------------------------
(* The callers' contexts and the agent                                     *)

CtxEnds(c) ==
  /\ pc[c] \notin {"idle", "done"} /\ ~ctxDone[c]
  /\ ctxDone' = [ctxDone EXCEPT ![c] = TRUE]
  /\ UNCHANGED <<connVars, readVars, mapVars, chanVars, pc, ret, deltas, agentVars, inbox, dropped>>

Emit(line) ==
  /\ conn = "open" /\ Len(inbox) < MaxInbox
  /\ inbox' = Append(inbox, line)
  /\ UNCHANGED <<connVars, readVars, mapVars, chanVars, callVars, got, dropped>>

\* The agent does not answer a prompt while it waits for an answer itself.
Free(c) == c \in Prompts => ask[c] \in {"none", "answered"}

\* The agent may answer a request more than once.  That a result has no content
\* matters to a prompt only.
AgentReplies(c, b) ==
  /\ c \in got /\ Free(c) /\ replies[c] < MaxReplies
  /\ b = "empty" => c \in Prompts
  /\ Emit(Reply(c, b))
  /\ replies' = [replies EXCEPT ![c] = @ + 1]
  /\ UNCHANGED <<chunks, ask>>

\* Chunks come before the reply.
AgentStreams(p) ==
  /\ p \in got /\ Free(p) /\ replies[p] = 0 /\ chunks[p] < MaxChunks
  /\ Emit(Chunk(p, chunks[p] + 1))
  /\ chunks' = [chunks EXCEPT ![p] = @ + 1]
  /\ UNCHANGED <<replies, ask>>

AgentAsks(p, b) ==
  /\ p \in got /\ replies[p] = 0 /\ ask[p] = "none"
  /\ Emit(Ask(p, b))
  /\ ask' = [ask EXCEPT ![p] = IF b = "malformed" THEN b ELSE "asked"]
  /\ UNCHANGED <<replies, chunks>>

AgentLeaves ==
  /\ conn = "open"
  /\ conn' = "lost"
  /\ UNCHANGED <<broken, readVars, mapVars, chanVars, callVars, agentVars, inbox, dropped>>

Send(c) == SendOk(c) \/ SendErr(c)
Reader ==
  \/ ReaderTop \/ DispatchReply \/ HandleNotification \/ HandleServerRequest
  \/ ScanFails \/ RangeEnds
  \/ \E c \in Calls : FailPending(c)
PromptStep(p) == StoreDelta(p) \/ TakeDelta(p) \/ PromptReply(p)
Agent ==
  \/ AgentLeaves
  \/ \E c \in Calls, b \in Bodies : AgentReplies(c, b)
  \/ \E p \in Prompts : AgentStreams(p) \/ \E b \in Asks : AgentAsks(p, b)

Next ==
  \/ Connect \/ Close \/ Reader \/ SkipLine \/ LineTooLong \/ Agent
  \/ \E c \in Calls : StoreReply(c) \/ Send(c) \/ CtxReturns(c) \/ CtxEnds(c)
  \/ \E c \in Plain : CallReply(c)
  \/ \E p \in Prompts : PromptStep(p)

Spec == Init /\ [][Next]_vars

\* Running goroutines are scheduled.
Fair ==
  /\ WF_vars(Reader)
  /\ \A c \in Calls : WF_vars(Send(c)) /\ WF_vars(CtxReturns(c))
  /\ \A c \in Plain : WF_vars(CallReply(c))
  /\ \A p \in Prompts : WF_vars(PromptStep(p))

FairSpec == Spec /\ Fair

----------------------------------------------------------------------------
(* Properties                                                              *)

TypeOK ==
  /\ conn \in {"none", "open", "lost", "closed"}
  /\ {broken} \subseteq BOOLEAN
  /\ reader \in {"none", "top", "scan", "failing", "ended"}
  /\ atLoss \subseteq Calls /\ hit \subseteq Calls
  /\ pending \subseteq Calls /\ deltaKey \subseteq Prompts /\ dropped \subseteq Prompts
  /\ replyCh \in [Calls -> Bodies \cup {"none", "loss"}]
  /\ deltaCh \in [Prompts -> Seq(1 .. MaxChunks)]
  /\ \A p \in Prompts : Len(deltaCh[p]) <= DeltaCap
  /\ deltas \in [Prompts -> Seq(1 .. MaxChunks)]
  /\ pc \in [Calls -> {"idle", "stored", "ready", "waiting", "done"}]
  /\ ret \in [Calls -> {"none", "ok", "content", "text", "err"}]
  /\ ctxDone \in [Calls -> BOOLEAN]
  /\ inbox \in Seq(Lines)
  /\ got \subseteq Calls
  /\ replies \in [Calls -> 0 .. MaxReplies]
  /\ chunks \in [Prompts -> 0 .. MaxChunks]
  /\ ask \in [Prompts -> {"none", "asked", "malformed", "answered"}]

\* The one goroutine that reads the connection never waits for a caller: a
\* reply channel it may send to has room, even when the agent answers a request
\* twice (client.go:298) or the connection is lost after the answer (:256).
ReaderNeverBlocks == \A c \in pending \ hit : replyCh[c] = "none"

\* A call succeeds only after the agent has answered that very request: neither
\* the loss of the connection nor another call's answer ends it with success.
SuccessIsAnswered ==
  \A c \in Calls : ret[c] \in {"ok", "content", "text"} => replies[c] > 0

\* The text Prompt joins from chunks is all of what the agent streamed before
\* its reply, in order, unless a chunk met a full channel (client.go:141-150).
TextIsWhole ==
  \A p \in Prompts : ret[p] = "text" /\ p \notin dropped => deltas[p] = [i \in 1 .. chunks[p] |-> i]

\* A call that has returned leaves nothing in the map, but for the id of a
\* prompt that the loss of the connection ended (client.go:151, :256).
MapIsClean ==
  \A c \in Calls : pc[c] = "done" => c \notin deltaKey /\ (c \in pending => c \in Prompts \cap hit)

\* When the connection is lost, every call that was in the map gets its error:
\* one that waits on with no reader was stored after Range had begun, or Close
\* was called (client.go:242, :254).
LossReachesAll ==
  \A c \in Calls :
    reader = "ended" /\ pc[c] = "waiting" /\ replyCh[c] = "none" => conn = "closed" \/ c \notin atLoss

\* An agent that is there and free answers each request once.
AgentFair(c) == WF_vars(replies[c] = 0 /\ \E b \in Bodies : AgentReplies(c, b))

\* The agent waits for an answer that will not come: it asked with parameters
\* that do not parse, or the client's writer failed (client.go:311, :318, :323).
Stuck(c) == c \in Prompts /\ (ask[c] = "malformed" \/ (ask[c] = "asked" /\ broken))

\* A call whose context is done returns, whatever the agent and the reader do.
\* With an agent that answers, every call ends, unless there is no reader left
\* for it or its agent is stuck in a request of its own (client.go:143, :191).
CallsEnd ==
  /\ \A c \in Calls : pc[c] = "waiting" /\ ctxDone[c] ~> pc[c] = "done"
  /\ \A c \in Calls : AgentFair(c) =>
       pc[c] = "waiting" ~> pc[c] = "done" \/ reader = "ended" \/ Stuck(c)
============================================================================
