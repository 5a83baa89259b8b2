----------------------------- MODULE AcpProofs -----------------------------
(***************************************************************************)
(* The map that the calls share with readLoop, and the text of a prompt,   *)
(* for any number of calls and any capacities and bounds.  The first       *)
(* invariant says what the map and the reply channel of each call have to  *)
(* do with where the call is.                                              *)
(***************************************************************************)
EXTENDS AcpClient, TLAPS
----------------------------------------------------------------------------
(* Sequences                                                               *)

LEMMA NoElements ==
  ASSUME NEW S
  PROVE  <<>> \in Seq(S) /\ Len(<<>>) = 0 /\ \A s \in Seq(S) : s # <<>> => Len(s) \in Nat \ {0}
OBVIOUS

LEMMA Lengths ==
  ASSUME NEW S, NEW s \in Seq(S)
  PROVE  Len(s) \in Nat /\ DOMAIN s = 1 .. Len(s) /\ s \in [1 .. Len(s) -> S]
OBVIOUS

LEMMA Appending ==
  ASSUME NEW S, NEW s \in Seq(S), NEW e \in S
  PROVE  /\ Append(s, e) \in Seq(S) /\ Append(s, e) # <<>> /\ Len(Append(s, e)) = Len(s) + 1
         /\ \A i \in 1 .. Len(s) : Append(s, e)[i] = s[i]
         /\ Append(s, e)[Len(s) + 1] = e
OBVIOUS

LEMMA HeadAndTail ==
  ASSUME NEW S, NEW s \in Seq(S), s # <<>>
  PROVE  /\ Head(s) \in S /\ Tail(s) \in Seq(S) /\ Len(Tail(s)) = Len(s) - 1
         /\ \A i \in 1 .. Len(Tail(s)) : Tail(s)[i] = s[i + 1]
OBVIOUS

LEMMA Concatenating ==
  ASSUME NEW S, NEW s \in Seq(S), NEW t \in Seq(S)
  PROVE  /\ s \o t \in Seq(S) /\ Len(s \o t) = Len(s) + Len(t)
         /\ \A i \in 1 .. Len(s) + Len(t) : (s \o t)[i] = IF i <= Len(s) THEN s[i] ELSE t[i - Len(s)]
OBVIOUS

Success == {"ok", "content", "text"}

Shapes ==
  /\ conn \in {"none", "open", "lost", "closed"}
  /\ reader \in {"none", "top", "scan", "failing", "ended"} /\ (conn = "none" => reader = "none")
  /\ pending \subseteq Calls /\ deltaKey \subseteq Prompts /\ hit \subseteq Calls
  /\ replyCh \in [Calls -> Bodies \cup {"none", "loss"}]
  /\ pc \in [Calls -> {"idle", "stored", "ready", "waiting", "done"}]
  /\ ret \in [Calls -> {"none", "err"} \cup Success]
  /\ replies \in [Calls -> Nat] /\ chunks \in [Prompts -> Nat]
  /\ inbox \in Seq(Lines)

\* A reply is under way only if it was sent.
InboxInv == \A i \in 1 .. Len(inbox) : inbox[i].type = "reply" => replies[inbox[i].call] > 0

CallInv(c) ==
  /\ c \in pending \/ c \in hit \/ c \in atLoss \/ c \in deltaKey \/ replyCh[c] # "none" => pc[c] # "idle"
  /\ c \in pending \ hit => replyCh[c] = "none"
  /\ replyCh[c] \in Bodies => replies[c] > 0
  /\ ret[c] \in Success => replies[c] > 0
  /\ pc[c] = "done" => c \notin deltaKey /\ (c \in pending => c \in Prompts \cap hit)
  /\ c \in hit /\ pc[c] # "done" => replyCh[c] # "none"
  /\ reader = "failing" /\ c \in atLoss /\ pc[c] # "done" => c \in pending
  /\ reader = "ended" /\ c \in atLoss /\ pc[c] # "done" => c \in hit \/ conn = "closed"
  /\ c \in hit \cup atLoss => reader \in {"failing", "ended"}

AcpInv == Shapes /\ InboxInv /\ \A c \in Calls : CallInv(c)

\* The channels and the map are empty at first.
LEMMA AcpInit == Init => AcpInv
<1> SUFFICES ASSUME Init PROVE AcpInv
  BY Zenon
<1>1. Shapes
  BY DEF Init, Shapes
<1>2. InboxInv
  BY DEF Init, InboxInv
<1>3. ASSUME NEW c \in Calls PROVE CallInv(c)
  BY Zenon DEF Init, CallInv, Bodies, Success
<1> QED
  BY <1>1, <1>2, <1>3, Zenon DEF AcpInv

\* What a line is.
LEMMA LineFacts ==
  ASSUME NEW l \in Lines
  PROVE  /\ l.type \in {"reply", "chunk", "ask"} /\ l.call \in Calls
         /\ l.type = "reply" => l.body \in Bodies
         /\ l.type # "reply" => l.call \in Prompts
         /\ l.type = "chunk" => l.n \in 1 .. MaxChunks
BY DEF Lines, Reply, Chunk, Ask, Line, Calls

\* The lines the agent may send.
LEMMA LinesMade ==
  /\ \A c \in Calls, b \in Bodies : Reply(c, b) \in Lines
  /\ \A p \in Prompts, n \in 1 .. MaxChunks : Chunk(p, n) \in Lines
  /\ \A p \in Prompts, b \in Asks : Ask(p, b) \in Lines
  /\ \A c, b : Reply(c, b).call = c /\ Reply(c, b).type = "reply"
  /\ \A p, n : Chunk(p, n).call = p /\ Chunk(p, n).type = "chunk"
  /\ \A p, b : Ask(p, b).call = p /\ Ask(p, b).type = "ask"
<1>1. \A c \in Calls, b \in Bodies : Reply(c, b) \in Lines
  BY DEF Lines
<1>2. \A p \in Prompts, n \in 1 .. MaxChunks : Chunk(p, n) \in Lines
  BY DEF Lines
<1>3. \A p \in Prompts, b \in Asks : Ask(p, b) \in Lines
  BY DEF Lines
<1>4. /\ \A c, b : Reply(c, b).call = c /\ Reply(c, b).type = "reply"
      /\ \A p, n : Chunk(p, n).call = p /\ Chunk(p, n).type = "chunk"
      /\ \A p, b : Ask(p, b).call = p /\ Ask(p, b).type = "ask"
  BY SMT DEF Reply, Chunk, Ask, Line
<1> QED
  BY <1>1, <1>2, <1>3, <1>4

\* A call that a step does not touch.
LEMMA CallFrame ==
  ASSUME NEW c \in Calls, Shapes, CallInv(c),
         reader' = reader \/ reader \notin {"failing", "ended"}, conn = "closed" => conn' = "closed",
         pc'[c] = pc[c], replyCh'[c] = replyCh[c], ret'[c] = ret[c],
         replies'[c] \in Nat, replies'[c] >= replies[c],
         c \in pending' <=> c \in pending, c \in deltaKey' <=> c \in deltaKey,
         c \in hit' <=> c \in hit, c \in atLoss' <=> c \in atLoss
  PROVE  CallInv(c)'
<1>1. replies[c] \in Nat
  BY Zenon DEF Shapes
<1> QED
  BY <1>1 DEF CallInv

\* Steps that leave the inbox alone.
LEMMA InboxFrame == ASSUME InboxInv, inbox' = inbox, replies' = replies PROVE InboxInv'
BY Zenon DEF InboxInv

\* Steps that touch neither a call nor the map.
LEMMA OutsideStep ==
  ASSUME AcpInv, Connect \/ Close \/ AgentLeaves \/ ReaderTop \/ SkipLine PROVE AcpInv'
<1>0. Shapes /\ InboxInv /\ \A c \in Calls : CallInv(c)
  BY Zenon DEF AcpInv
<1>1. UNCHANGED <<pc, replyCh, ret, replies, chunks, pending, deltaKey, hit, atLoss, inbox>>
  BY Zenon DEF Connect, Close, AgentLeaves, ReaderTop, SkipLine, readVars, mapVars, chanVars, callVars, agentVars
<1>2. /\ conn' \in {"none", "open", "lost", "closed"} /\ (conn = "closed" => conn' = "closed")
      /\ conn' = "none" => conn = "none"
  BY <1>0, Zenon DEF Connect, Close, AgentLeaves, ReaderTop, SkipLine, connVars, Shapes
<1>3. \/ reader' = reader
      \/ reader \notin {"failing", "ended"} /\ reader' \in {"top", "scan", "ended"} /\ conn' # "none"
  BY <1>0, Zenon DEF Connect, Close, AgentLeaves, ReaderTop, SkipLine, readVars, connVars, Shapes
<1>4. Shapes'
  BY <1>0, <1>1, <1>2, <1>3, Zenon DEF Shapes
<1>5. ASSUME NEW c \in Calls PROVE CallInv(c)'
  <2>1. replies'[c] \in Nat /\ replies'[c] >= replies[c]
    BY <1>0, <1>1 DEF Shapes
  <2> QED
    BY <1>0, <1>1, <1>2, <1>3, <2>1, CallFrame, Zenon
<1> QED
  BY <1>0, <1>1, <1>4, <1>5, InboxFrame, Zenon DEF AcpInv

\* Steps of a call that do not end it.
LEMMA CallStep ==
  ASSUME AcpInv, NEW c \in Calls,
         StoreReply(c) \/ (c \in Prompts /\ (StoreDelta(c) \/ TakeDelta(c))) \/ SendOk(c) \/ CtxEnds(c)
  PROVE  AcpInv'
<1>0. Shapes /\ InboxInv /\ \A b \in Calls : CallInv(b)
  BY Zenon DEF AcpInv
<1>1. UNCHANGED <<conn, reader, replyCh, ret, replies, chunks, hit, atLoss, inbox>>
  BY Zenon DEF StoreReply, StoreDelta, TakeDelta, SendOk, CtxEnds, connVars, readVars, chanVars, agentVars
<1>2. pc' = pc \/ \E to \in {"stored", "ready", "waiting"} : pc[c] # "done" /\ pc' = [pc EXCEPT ![c] = to]
  BY Zenon DEF StoreReply, StoreDelta, TakeDelta, SendOk, CtxEnds, Move
<1>3. /\ pending' = pending \/ (pc[c] = "idle" /\ pending' = pending \cup {c})
      /\ deltaKey' = deltaKey \/ (c \in Prompts /\ deltaKey' = deltaKey \cup {c})
      /\ pending' # pending \/ deltaKey' # deltaKey => pc' # pc
  BY <1>0, Zenon DEF StoreReply, StoreDelta, TakeDelta, SendOk, CtxEnds, Move, mapVars, Shapes
<1>4. /\ pc' \in [Calls -> {"idle", "stored", "ready", "waiting", "done"}]
      /\ \A b \in Calls \ {c} : pc'[b] = pc[b]
      /\ pc'[c] = pc[c] \/ (pc[c] # "done" /\ pc'[c] \notin {"idle", "done"})
  BY <1>0, <1>2, Zenon DEF Shapes
<1>5. Shapes'
  BY <1>0, <1>1, <1>3, <1>4, Zenon DEF Shapes
<1>6. \A b \in Calls : replies'[b] \in Nat /\ replies'[b] >= replies[b]
  BY <1>0, <1>1 DEF Shapes
<1>7. ASSUME NEW b \in Calls, b # c PROVE CallInv(b)'
  BY <1>0, <1>1, <1>3, <1>4, <1>6, <1>7, CallFrame, Zenon
<1>8. CallInv(c)'
  <2>1. CASE pc' = pc
    <3>1. pending' = pending /\ deltaKey' = deltaKey
      BY <1>3, <2>1, Zenon
    <3> QED
      BY <1>0, <1>1, <1>6, <2>1, <3>1, CallFrame, Zenon
  <2>2. CASE pc' # pc
    <3>1. pc[c] # "done" /\ pc'[c] \notin {"idle", "done"}
      BY <1>0, <1>2, <2>2, Zenon DEF Shapes
    <3> QED
      BY <1>0, <1>1, <1>3, <3>1, Zenon DEF CallInv
  <2> QED
    BY <2>1, <2>2, Zenon
<1> QED
  BY <1>0, <1>1, <1>5, <1>7, <1>8, InboxFrame, Zenon DEF AcpInv

\* How a call ends.
Ends(c) ==
  SendErr(c) \/ CtxReturns(c) \/ (c \in Plain /\ CallReply(c)) \/ (c \in Prompts /\ PromptReply(c))

\* A step that ends a call.
LEMMA EndStep ==
  ASSUME AcpInv, NEW c \in Calls, Ends(c) PROVE AcpInv'
<1>0. Shapes /\ InboxInv /\ \A b \in Calls : CallInv(b)
  BY Zenon DEF AcpInv
<1>1. UNCHANGED <<conn, reader, replies, chunks, hit, atLoss, inbox>>
  BY Zenon DEF Ends, SendErr, CtxReturns, CallReply, PromptReply, PromptEnds, connVars, readVars, agentVars
<1>2. PICK r \in {"err"} \cup Success :
        /\ pc' = [pc EXCEPT ![c] = "done"] /\ ret' = [ret EXCEPT ![c] = r]
        /\ replyCh' = [replyCh EXCEPT ![c] = "none"]
        /\ r \in Success => replyCh[c] \in Bodies
  <2>1. CASE SendErr(c) \/ CtxReturns(c)
    BY <2>1 DEF SendErr, CtxReturns, Return, Forget, Success
  <2>2. CASE CallReply(c)
    BY <2>2, Zenon DEF CallReply, Return, Forget, Success, Bodies
  <2>3. CASE PromptReply(c)
    <3>1. PICK d : PromptEnds(c, d)
      BY <2>3, Zenon DEF PromptReply
    <3>2. replyCh[c] \in Bodies \cup {"loss"}
      BY <1>0, <3>1, Zenon DEF PromptEnds, Shapes
    <3>3. PromptResult(replyCh[c], d) \in {"err", "content", "text"}
          /\ (PromptResult(replyCh[c], d) # "err" => replyCh[c] \in Bodies)
      BY <3>2, Zenon DEF PromptResult, Bodies
    <3> QED
      BY <3>1, <3>3, Zenon DEF PromptEnds, Return, Forget, Success
  <2> QED
    BY <2>1, <2>2, <2>3, Zenon DEF Ends
<1>3. deltaKey' \subseteq deltaKey /\ deltaKey \ {c} \subseteq deltaKey' /\ c \notin deltaKey'
  BY <1>0, AcpAssumption, Zenon DEF Ends, SendErr, CtxReturns, CallReply, PromptReply, PromptEnds, Shapes
<1>4. \/ pending' = pending \ {c}
      \/ pending' = pending /\ c \in Prompts /\ replyCh[c] # "none"
  BY Zenon DEF Ends, SendErr, CtxReturns, CallReply, PromptReply, PromptEnds
<1>5. /\ pc' \in [Calls -> {"idle", "stored", "ready", "waiting", "done"}] /\ pc'[c] = "done"
      /\ ret' \in [Calls -> {"none", "err"} \cup Success] /\ ret'[c] = r
      /\ replyCh' \in [Calls -> Bodies \cup {"none", "loss"}] /\ replyCh'[c] = "none"
      /\ \A b \in Calls \ {c} : pc'[b] = pc[b] /\ ret'[b] = ret[b] /\ replyCh'[b] = replyCh[b]
  BY <1>0, <1>2, Zenon DEF Shapes
<1>6. Shapes'
  BY <1>0, <1>1, <1>3, <1>4, <1>5, Zenon DEF Shapes
<1>7. \A b \in Calls : replies'[b] \in Nat /\ replies'[b] >= replies[b]
  BY <1>0, <1>1 DEF Shapes
<1>8. ASSUME NEW b \in Calls, b # c PROVE CallInv(b)'
  BY <1>0, <1>1, <1>3, <1>4, <1>5, <1>7, <1>8, CallFrame, Zenon
<1>9. CallInv(c)'
  <2>1. c \in pending' => c \in Prompts \cap hit
    BY <1>0, <1>4, Zenon DEF CallInv
  <2>2. ret'[c] \in Success => replies'[c] > 0
    BY <1>0, <1>1, <1>2, <1>5, Zenon DEF CallInv
  <2>3. "none" \notin Bodies
    BY Zenon DEF Bodies
  <2>4. c \in hit \cup atLoss => reader \in {"failing", "ended"}
    BY <1>0, Zenon DEF CallInv
  <2> QED
    BY <1>1, <1>3, <1>5, <2>1, <2>2, <2>3, <2>4, Zenon DEF CallInv
<1> QED
  BY <1>0, <1>1, <1>6, <1>8, <1>9, InboxFrame, Zenon DEF AcpInv

\* The first line and what is left of the inbox.
LEMMA ReadFacts ==
  ASSUME AcpInv, NEW type, ReadLine(type)
  PROVE  /\ Head(inbox) \in Lines /\ inbox' = Tail(inbox) /\ inbox' \in Seq(Lines)
         /\ type = "reply" => replies[Head(inbox).call] > 0
         /\ replies' = replies => InboxInv'
<1>1. inbox \in Seq(Lines) /\ inbox # <<>> /\ inbox' = Tail(inbox) /\ Head(inbox).type = type
  BY Zenon DEF AcpInv, Shapes, ReadLine
<1>2. Head(inbox) \in Lines /\ Tail(inbox) \in Seq(Lines) /\ Head(inbox) = inbox[1] /\ Len(inbox) >= 1
      /\ Len(inbox) \in Nat /\ Len(Tail(inbox)) = Len(inbox) - 1
      /\ \A i \in 1 .. Len(inbox) - 1 : Tail(inbox)[i] = inbox[i + 1]
  BY <1>1, HeadAndTail
<1>3. type = "reply" => replies[Head(inbox).call] > 0
  BY <1>1, <1>2 DEF AcpInv, InboxInv
<1>4. ASSUME replies' = replies PROVE InboxInv'
  BY <1>1, <1>2, <1>4 DEF AcpInv, InboxInv
<1> QED
  BY <1>1, <1>2, <1>3, <1>4, Zenon

\* readLoop hands out a line.
LEMMA LineStep ==
  ASSUME AcpInv, DispatchReply \/ HandleNotification \/ HandleServerRequest PROVE AcpInv'
<1>0. Shapes /\ InboxInv /\ \A b \in Calls : CallInv(b)
  BY Zenon DEF AcpInv
<1>a. PICK c : c = Head(inbox).call
  BY Zenon
<1>1. PICK type : ReadLine(type) /\ (DispatchReply => type = "reply") /\ (DispatchReply \/ type # "reply")
  BY DEF DispatchReply, HandleNotification, HandleServerRequest
<1>2. /\ reader = "scan" /\ reader' = "top" /\ UNCHANGED <<conn, atLoss, hit, pc, ret, replies, chunks>>
      /\ Head(inbox).type = type
  BY <1>1, Zenon DEF ReadLine, callVars
<1>3. Head(inbox) \in Lines /\ inbox' \in Seq(Lines) /\ InboxInv' /\ (type = "reply" => replies[c] > 0)
  BY <1>a, <1>1, <1>2, ReadFacts, Zenon
<1>4. c \in Calls /\ (type = "reply" => Head(inbox).body \in Bodies)
  BY <1>a, <1>2, <1>3, LineFacts, Zenon
<1>5. deltaKey' = deltaKey
  BY Zenon DEF DispatchReply, HandleNotification, HandleServerRequest, mapVars
<1>6. \/ UNCHANGED <<pending, replyCh>>
      \/ /\ type = "reply" /\ c \in pending /\ pending' = pending \ {c}
         /\ replyCh' = [replyCh EXCEPT ![c] = Head(inbox).body]
  <2>1. CASE DispatchReply
    BY <1>a, <1>1, <2>1, Zenon DEF DispatchReply
  <2>2. CASE HandleNotification \/ HandleServerRequest
    BY <2>2, Zenon DEF HandleNotification, HandleServerRequest, mapVars, chanVars
  <2> QED
    BY <2>1, <2>2, Zenon
<1>7. conn # "none"
  BY <1>0, <1>2, Zenon DEF Shapes
<1>8. /\ replyCh' \in [Calls -> Bodies \cup {"none", "loss"}] /\ pending' \subseteq pending
      /\ \A b \in Calls \ {c} : replyCh'[b] = replyCh[b] /\ (b \in pending' <=> b \in pending)
  BY <1>0, <1>4, <1>6, Zenon DEF Shapes
<1>9. Shapes'
  BY <1>0, <1>2, <1>3, <1>5, <1>7, <1>8, Zenon DEF Shapes
<1>10. \A b \in Calls : replies'[b] \in Nat /\ replies'[b] >= replies[b]
  BY <1>0, <1>2 DEF Shapes
<1>11. ASSUME NEW b \in Calls, b # c PROVE CallInv(b)'
  BY <1>0, <1>2, <1>5, <1>8, <1>10, <1>11, CallFrame, Zenon
<1>12. CallInv(c)'
  <2>1. CASE UNCHANGED <<pending, replyCh>>
    BY <1>0, <1>2, <1>4, <1>5, <1>10, <2>1, CallFrame, Zenon
  <2>2. CASE type = "reply" /\ c \in pending /\ pending' = pending \ {c} /\ replyCh' = [replyCh EXCEPT ![c] = Head(inbox).body]
    <3>1. replyCh'[c] \in Bodies /\ replies[c] > 0 /\ c \notin pending'
      BY <1>0, <1>3, <1>4, <2>2, Zenon DEF Shapes
    <3>2. CallInv(c) /\ c \notin hit /\ c \notin atLoss /\ pc[c] \notin {"idle", "done"}
      BY <1>0, <1>2, <1>4, <2>2, Zenon DEF CallInv
    <3> QED
      BY <1>2, <1>5, <3>1, <3>2, Zenon DEF CallInv
  <2> QED
    BY <1>6, <2>1, <2>2, Zenon
<1> QED
  BY <1>3, <1>9, <1>11, <1>12, Zenon DEF AcpInv

\* Scan fails, and Range tells the calls.
LEMMA RangeStep ==
  ASSUME AcpInv, ScanFalse \/ RangeEnds \/ \E c \in Calls : FailPending(c) PROVE AcpInv'
<1>0. Shapes /\ InboxInv /\ \A b \in Calls : CallInv(b)
  BY Zenon DEF AcpInv
<1>1. UNCHANGED <<conn, pc, ret, replies, chunks, pending, deltaKey, inbox>>
  BY Zenon DEF ScanFalse, RangeEnds, FailPending, connVars, mapVars, callVars, agentVars
<1>2. CASE ScanFalse
  <2>1. reader = "scan" /\ reader' = "failing" /\ atLoss' = pending /\ UNCHANGED <<hit, replyCh>>
    BY <1>2, Zenon DEF ScanFalse, chanVars
  <2>2. Shapes'
    BY <1>0, <1>1, <2>1, Zenon DEF Shapes
  <2>3. ASSUME NEW c \in Calls PROVE CallInv(c)'
    BY <1>0, <1>1, <2>1, Zenon DEF CallInv
  <2> QED
    BY <1>0, <1>1, <2>2, <2>3, InboxFrame, Zenon DEF AcpInv
<1>3. CASE RangeEnds
  <2>1. reader = "failing" /\ reader' = "ended" /\ atLoss \cap pending \subseteq hit /\ UNCHANGED <<hit, atLoss, replyCh>>
    BY <1>3, Zenon DEF RangeEnds, chanVars
  <2>2. Shapes'
    BY <1>0, <1>1, <2>1, Zenon DEF Shapes
  <2>3. ASSUME NEW c \in Calls PROVE CallInv(c)'
    BY <1>0, <1>1, <2>1, Zenon DEF CallInv
  <2> QED
    BY <1>0, <1>1, <2>2, <2>3, InboxFrame DEF AcpInv
<1>4. ASSUME NEW c \in Calls, FailPending(c) PROVE AcpInv'
  <2>1. /\ reader = "failing" /\ reader' = reader /\ c \in pending \ hit /\ hit' = hit \cup {c} /\ atLoss' = atLoss
        /\ replyCh' = [replyCh EXCEPT ![c] = "loss"]
    BY <1>4, Zenon DEF FailPending
  <2>2. /\ replyCh' \in [Calls -> Bodies \cup {"none", "loss"}] /\ replyCh'[c] = "loss"
        /\ \A b \in Calls \ {c} : replyCh'[b] = replyCh[b]
    BY <1>0, <2>1, Zenon DEF Shapes
  <2>3. Shapes'
    BY <1>0, <1>1, <2>1, <2>2, Zenon DEF Shapes
  <2>4. \A b \in Calls : replies'[b] \in Nat /\ replies'[b] >= replies[b]
    BY <1>0, <1>1 DEF Shapes
  <2>5. ASSUME NEW b \in Calls, b # c PROVE CallInv(b)'
    BY <1>0, <1>1, <2>1, <2>2, <2>4, <2>5, CallFrame, Zenon
  <2>6. CallInv(c)'
    <3>1. "loss" \notin Bodies /\ pc[c] \notin {"idle", "done"} /\ CallInv(c)
      BY <1>0, <2>1, Zenon DEF CallInv, Bodies
    <3> QED
      BY <1>1, <2>1, <2>2, <3>1, Zenon DEF CallInv
  <2> QED
    BY <1>0, <1>1, <2>3, <2>5, <2>6, InboxFrame, Zenon DEF AcpInv
<1> QED
  BY <1>2, <1>3, <1>4, Zenon

\* The agent sends a line.
LEMMA EmitStep ==
  ASSUME AcpInv, NEW c \in Calls,
         \/ \E b \in Bodies : AgentReplies(c, b)
         \/ c \in Prompts /\ (AgentStreams(c) \/ \E b \in Asks : AgentAsks(c, b))
  PROVE  AcpInv'
<1>0. Shapes /\ InboxInv /\ \A b \in Calls : CallInv(b)
  BY Zenon DEF AcpInv
<1>1. PICK l \in Lines : Emit(l) /\ l.call = c /\ (l.type = "reply" => replies' = [replies EXCEPT ![c] = @ + 1])
                         /\ (l.type # "reply" => replies' = replies)
  <2>1. ASSUME NEW b \in Bodies, AgentReplies(c, b)
        PROVE  Reply(c, b) \in Lines /\ Emit(Reply(c, b)) /\ Reply(c, b).call = c /\ Reply(c, b).type = "reply"
               /\ replies' = [replies EXCEPT ![c] = @ + 1]
    BY <2>1, LinesMade, Zenon DEF AgentReplies
  <2>2. ASSUME c \in Prompts, AgentStreams(c)
        PROVE  \E l \in Lines : Emit(l) /\ l.call = c /\ l.type = "chunk" /\ replies' = replies
    <3>1. chunks[c] + 1 \in 1 .. MaxChunks
      BY <2>2, AcpAssumption DEF AgentStreams, AcpInv, Shapes
    <3>2. Chunk(c, chunks[c] + 1) \in Lines /\ Chunk(c, chunks[c] + 1).call = c /\ Chunk(c, chunks[c] + 1).type = "chunk"
      BY <2>2, <3>1, LinesMade, Zenon
    <3> QED
      BY <2>2, <3>2, Zenon DEF AgentStreams
  <2>3. ASSUME c \in Prompts, NEW b \in Asks, AgentAsks(c, b)
        PROVE  Ask(c, b) \in Lines /\ Emit(Ask(c, b)) /\ Ask(c, b).call = c /\ Ask(c, b).type = "ask" /\ replies' = replies
    BY <2>3, LinesMade DEF AgentAsks
  <2> QED
    BY <2>1, <2>2, <2>3, Zenon
<1>2. /\ UNCHANGED <<conn, reader, pc, ret, replyCh, pending, deltaKey, hit, atLoss>>
      /\ inbox' = Append(inbox, l)
  BY <1>1, Zenon DEF Emit, connVars, readVars, mapVars, chanVars, callVars
<1>3. /\ inbox' \in Seq(Lines) /\ Len(inbox') = Len(inbox) + 1 /\ inbox'[Len(inbox) + 1] = l
      /\ \A i \in 1 .. Len(inbox) : inbox'[i] = inbox[i]
  BY <1>0, <1>2, Appending DEF Shapes
<1>4. /\ replies' \in [Calls -> Nat] /\ (l.type = "reply" => replies'[c] > 0)
      /\ \A b \in Calls : replies'[b] >= replies[b]
  <2>1. replies \in [Calls -> Nat]
    BY <1>0, Zenon DEF Shapes
  <2>2. CASE l.type = "reply"
    BY <1>1, <2>1, <2>2
  <2>3. CASE l.type # "reply"
    BY <1>1, <2>1, <2>3
  <2> QED
    BY <2>2, <2>3, Zenon
<1>5. Shapes'
  <2>1. chunks' = chunks \/ chunks' = [chunks EXCEPT ![c] = @ + 1]
    BY Zenon DEF AgentReplies, AgentStreams, AgentAsks
  <2>2. chunks' \in [Prompts -> Nat]
    <3>1. chunks \in [Prompts -> Nat]
      BY <1>0, Zenon DEF Shapes
    <3> QED
      BY <2>1, <3>1
  <2> QED
    BY <1>0, <1>2, <1>3, <1>4, <2>2, Zenon DEF Shapes
<1>6. InboxInv'
  <2> SUFFICES ASSUME NEW i \in 1 .. Len(inbox'), inbox'[i].type = "reply" PROVE replies'[inbox'[i].call] > 0
    BY Zenon DEF InboxInv
  <2>1. CASE i \in 1 .. Len(inbox)
    <3>1. inbox[i] \in Lines /\ replies[inbox[i].call] > 0
      BY <1>0, <1>3, <2>1 DEF InboxInv, Shapes
    <3>2. inbox[i].call \in Calls
      BY <3>1, LineFacts, Zenon
    <3>3. replies'[inbox[i].call] >= replies[inbox[i].call] /\ replies'[inbox[i].call] \in Nat /\ replies[inbox[i].call] \in Nat
      BY <1>0, <1>4, <3>2, Zenon DEF Shapes
    <3> QED
      BY <1>3, <2>1, <3>1, <3>3
  <2>2. CASE i = Len(inbox) + 1
    BY <1>1, <1>3, <1>4, <2>2, Zenon
  <2>3. Len(inbox) \in Nat
    BY <1>0 DEF Shapes
  <2>4. i \in 1 .. Len(inbox) \/ i = Len(inbox) + 1
    BY <1>3, <2>3
  <2> QED
    BY <2>1, <2>2, <2>4, Zenon
<1>7. ASSUME NEW b \in Calls PROVE CallInv(b)'
  BY <1>0, <1>2, <1>4, CallFrame, Zenon
<1> QED
  BY <1>5, <1>6, <1>7, Zenon DEF AcpInv

\* Every step keeps the invariant.
LEMMA AcpStep == AcpInv /\ [Next]_vars => AcpInv'
<1> SUFFICES ASSUME AcpInv, [Next]_vars PROVE AcpInv'
  BY Zenon
<1>0. Prompts \subseteq Calls /\ Plain \subseteq Calls
  BY Zenon DEF Calls
<1>1. CASE UNCHANGED vars
  BY <1>1, Zenon DEF vars, connVars, readVars, mapVars, chanVars, callVars, agentVars, AcpInv, Shapes, InboxInv, CallInv
<1>2. CASE Reader \/ SkipLine \/ LineTooLong
  BY <1>2, OutsideStep, LineStep, RangeStep, Zenon DEF Reader, ScanFails, LineTooLong
<1>3. CASE Agent
  BY <1>0, <1>3, OutsideStep, EmitStep, Zenon DEF Agent
<1>4. CASE Connect \/ Close
  BY <1>4, OutsideStep, Zenon
<1>5. ASSUME NEW c \in Calls, StoreReply(c) \/ Send(c) \/ CtxReturns(c) \/ CtxEnds(c) PROVE AcpInv'
  BY <1>5, CallStep, EndStep, Zenon DEF Send, Ends
<1>6. ASSUME NEW c \in Plain, CallReply(c) PROVE AcpInv'
  BY <1>0, <1>6, EndStep, Zenon DEF Ends
<1>7. ASSUME NEW p \in Prompts, PromptStep(p) PROVE AcpInv'
  BY <1>0, <1>7, CallStep, EndStep, Zenon DEF PromptStep, Ends
<1> QED
  BY <1>1, <1>2, <1>3, <1>4, <1>5, <1>6, <1>7, Zenon DEF Next

\* readLoop never waits for a caller: a reply channel it may send to has room,
\* for any number of calls and replies (client.go:256, :298).
THEOREM ReaderRuns == Spec => []ReaderNeverBlocks
<1>1. AcpInv => ReaderNeverBlocks
  BY Zenon DEF AcpInv, Shapes, CallInv, ReaderNeverBlocks
<1> QED
  BY <1>1, AcpInit, AcpStep, PTL DEF Spec

\* A call succeeds only after the agent has answered that very request, for any
\* number of calls that share the connection (client.go:143-169, :182-201).
THEOREM SuccessHasAnswer == Spec => []SuccessIsAnswered
<1>1. AcpInv => SuccessIsAnswered
  BY Zenon DEF AcpInv, CallInv, Success, SuccessIsAnswered
<1> QED
  BY <1>1, AcpInit, AcpStep, PTL DEF Spec

\* A call that has returned leaves nothing in the map, but for the id of a
\* prompt that the loss of the connection ended (client.go:130-151, :182-201).
THEOREM MapStaysClean == Spec => []MapIsClean
<1>1. AcpInv => MapIsClean
  BY Zenon DEF AcpInv, CallInv, MapIsClean
<1> QED
  BY <1>1, AcpInit, AcpStep, PTL DEF Spec

\* Every call that was in the map when the connection was lost gets its error,
\* for any number of calls, unless Close was called (client.go:249-260).
THEOREM LossIsTold == Spec => []LossReachesAll
<1>1. AcpInv => LossReachesAll
  BY Zenon DEF AcpInv, CallInv, LossReachesAll
<1> QED
  BY <1>1, AcpInit, AcpStep, PTL DEF Spec
----------------------------------------------------------------------------
(* TypeOK and TextIsWhole.  The invariant follows the chunks of a prompt   *)
(* from the agent to the text: the ones joined, the ones in the channel    *)
(* and the ones under way are, one after the other, all that the agent has *)
(* streamed, and they are under way in their order and before the reply.   *)

\* What Head and Tail do to a channel that is not empty.
LEMMA Taking ==
  ASSUME NEW S, NEW s \in Seq(S), s # <<>>
  PROVE  /\ Head(s) \in S /\ Head(s) = s[1]
         /\ Tail(s) \in Seq(S) /\ Len(s) \in Nat \ {0} /\ Len(Tail(s)) = Len(s) - 1
         /\ \A i \in 1 .. Len(s) - 1 : Tail(s)[i] = s[i + 1]
<1>1. Len(s) \in Nat \ {0}
  BY NoElements, Zenon
<1> QED
  BY <1>1, HeadAndTail

\* The variables keep their types at every step.
LEMMA AcpTypeStep == TypeOK /\ [Next]_vars => TypeOK'
<1> SUFFICES ASSUME TypeOK, [Next]_vars PROVE TypeOK'
  OBVIOUS
<1> USE DEF TypeOK, connVars, readVars, mapVars, chanVars, callVars, agentVars
<1>0. Prompts \subseteq Calls /\ Plain \subseteq Calls
  BY Zenon DEF Calls
<1>1. CASE UNCHANGED vars
  BY <1>1, Zenon DEF vars
<1>2. CASE Connect \/ Close \/ AgentLeaves \/ ReaderTop \/ SkipLine
  BY <1>2, Zenon DEF Connect, Close, AgentLeaves, ReaderTop, SkipLine
<1>3. CASE ScanFails \/ LineTooLong \/ RangeEnds
  BY <1>3, Zenon DEF ScanFails, LineTooLong, ScanFalse, RangeEnds
<1>4. ASSUME NEW c \in Calls, FailPending(c) PROVE TypeOK'
  BY <1>4, Zenon DEF FailPending
<1>5. CASE DispatchReply \/ HandleNotification \/ HandleServerRequest
  <2>1. ASSUME NEW type, ReadLine(type)
        PROVE  /\ reader' = "top" /\ UNCHANGED <<conn, atLoss, hit, pc, ret, ctxDone, deltas, got, replies, chunks>>
               /\ Head(inbox) \in Lines /\ inbox' \in Seq(Lines) /\ Head(inbox).type = type
    BY <2>1, HeadAndTail, Zenon DEF ReadLine
  <2>2. /\ reader' = "top" /\ UNCHANGED <<conn, atLoss, hit, pc, ret, ctxDone, deltas, got, replies, chunks>>
        /\ Head(inbox) \in Lines /\ inbox' \in Seq(Lines)
    BY <1>5, <2>1, Zenon DEF DispatchReply, HandleNotification, HandleServerRequest
  <2>3. CASE DispatchReply
    <3>1. Head(inbox).body \in Bodies /\ Head(inbox).call \in Calls
      BY <2>1, <2>3, LineFacts, Zenon DEF DispatchReply
    <3>2. replyCh' \in [Calls -> Bodies \cup {"none", "loss"}] /\ pending' \subseteq Calls
      BY <2>3, <3>1, Zenon DEF DispatchReply
    <3> QED
      BY <2>2, <2>3, <3>2, Zenon DEF DispatchReply
  <2>4. CASE HandleNotification
    <3>1. Head(inbox).call \in Prompts /\ Head(inbox).n \in 1 .. MaxChunks
      <4>1. Head(inbox) \in Lines /\ Head(inbox).type = "chunk"
        BY <2>1, <2>4, Zenon DEF HandleNotification
      <4> QED
        BY <4>1, LineFacts, Zenon
    <3>2. PICK p \in Prompts : p = Head(inbox).call
      BY <3>1, Zenon
    <3>3. CASE p \in deltaKey /\ Len(deltaCh[p]) < DeltaCap
      <4>1. deltaCh' = [deltaCh EXCEPT ![p] = Append(@, Head(inbox).n)] /\ dropped' = dropped
        BY <2>4, <3>2, <3>3, Zenon DEF HandleNotification
      <4>2. Append(deltaCh[p], Head(inbox).n) \in Seq(1 .. MaxChunks)
            /\ Len(Append(deltaCh[p], Head(inbox).n)) = Len(deltaCh[p]) + 1 /\ Len(deltaCh[p]) \in Nat
        BY <3>1, Appending
      <4>3. deltaCh' \in [Prompts -> Seq(1 .. MaxChunks)] /\ \A q \in Prompts : Len(deltaCh'[q]) <= DeltaCap
        BY <3>3, <4>1, <4>2, AcpAssumption
      <4> QED
        BY <2>2, <2>4, <4>1, <4>3, Zenon DEF HandleNotification
    <3>4. CASE ~(p \in deltaKey /\ Len(deltaCh[p]) < DeltaCap)
      BY <2>2, <2>4, <3>2, <3>4, Zenon DEF HandleNotification
    <3> QED
      BY <3>3, <3>4, Zenon
  <2>5. CASE HandleServerRequest
    <3>1. broken' \in BOOLEAN
      BY <2>5, Zenon DEF HandleServerRequest, WriteOk, WriteErr
    <3>2. ask' \in [Prompts -> {"none", "asked", "malformed", "answered"}]
      BY <2>5, Zenon DEF HandleServerRequest
    <3> QED
      BY <2>2, <2>5, <3>1, <3>2, Zenon DEF HandleServerRequest
  <2> QED
    BY <1>5, <2>3, <2>4, <2>5, Zenon
<1>6. ASSUME NEW c \in Calls, StoreReply(c) \/ SendOk(c) \/ CtxEnds(c) PROVE TypeOK'
  <2>1. CASE StoreReply(c)
    BY <2>1, Zenon DEF StoreReply, Move
  <2>2. CASE SendOk(c)
    BY <2>2, Zenon DEF SendOk, Move, WriteOk
  <2>3. CASE CtxEnds(c)
    BY <2>3, Zenon DEF CtxEnds
  <2> QED
    BY <1>6, <2>1, <2>2, <2>3, Zenon
<1>7. ASSUME NEW p \in Prompts, StoreDelta(p) PROVE TypeOK'
  BY <1>0, <1>7, Zenon DEF StoreDelta, Move
<1>8. ASSUME NEW p \in Prompts, TakeDelta(p) PROVE TypeOK'
  <2>1. deltaCh[p] \in Seq(1 .. MaxChunks) /\ deltaCh[p] # <<>> /\ deltas[p] \in Seq(1 .. MaxChunks)
    BY <1>8, Zenon DEF TakeDelta
  <2>2. /\ Head(deltaCh[p]) \in 1 .. MaxChunks /\ Tail(deltaCh[p]) \in Seq(1 .. MaxChunks)
        /\ Len(Tail(deltaCh[p])) = Len(deltaCh[p]) - 1 /\ Len(deltaCh[p]) \in Nat
    BY <2>1, Taking, Zenon
  <2>3. Append(deltas[p], Head(deltaCh[p])) \in Seq(1 .. MaxChunks)
    BY <2>1, <2>2, Appending, Zenon
  <2>4. /\ deltas' \in [Prompts -> Seq(1 .. MaxChunks)] /\ deltaCh' \in [Prompts -> Seq(1 .. MaxChunks)]
        /\ \A q \in Prompts : Len(deltaCh'[q]) <= DeltaCap
    BY <1>8, <2>2, <2>3, AcpAssumption DEF TakeDelta
  <2> QED
    BY <1>8, <2>4, Zenon DEF TakeDelta
<1>9. ASSUME NEW c \in Calls, Ends(c) PROVE TypeOK'
  <2>1. PICK d \in Seq(1 .. MaxChunks), r \in {"ok", "content", "text", "err"} : Return(c, r) /\ Forget(c, d)
    <3>1. <<>> \in Seq(1 .. MaxChunks)
      BY NoElements, Zenon
    <3>2. CASE SendErr(c) \/ CtxReturns(c) \/ CallReply(c)
      BY <3>1, <3>2, Zenon DEF SendErr, CtxReturns, CallReply
    <3>3. CASE c \in Prompts /\ PromptReply(c)
      <4>1. deltas[c] \o deltaCh[c] \in Seq(1 .. MaxChunks)
        BY <3>3, Concatenating, Zenon
      <4>2. PromptResult(replyCh[c], deltas[c] \o deltaCh[c]) \in {"content", "text", "err"}
        BY Zenon DEF PromptResult
      <4> QED
        BY <3>1, <3>3, <4>1, <4>2, Zenon DEF PromptReply, PromptEnds
    <3> QED
      BY <1>9, <3>2, <3>3, Zenon DEF Ends
  <2>2. /\ UNCHANGED <<conn, reader, atLoss, hit, got, replies, chunks, ask, inbox, dropped>>
        /\ pending' \subseteq Calls /\ deltaKey' \subseteq Prompts /\ broken' \in BOOLEAN
    BY <1>9, Zenon DEF Ends, SendErr, CtxReturns, CallReply, PromptReply, PromptEnds, WriteErr
  <2>3. /\ pc' \in [Calls -> {"idle", "stored", "ready", "waiting", "done"}]
        /\ ret' \in [Calls -> {"none", "ok", "content", "text", "err"}] /\ ctxDone' \in [Calls -> BOOLEAN]
    BY <2>1, Zenon DEF Return
  <2>4. /\ replyCh' \in [Calls -> Bodies \cup {"none", "loss"}]
        /\ deltaCh' \in [Prompts -> Seq(1 .. MaxChunks)] /\ deltas' \in [Prompts -> Seq(1 .. MaxChunks)]
    BY <2>1, NoElements, Zenon DEF Forget
  <2>5. \A q \in Prompts : Len(deltaCh'[q]) <= DeltaCap
    BY <2>1, NoElements, AcpAssumption DEF Forget
  <2> QED
    BY <2>2, <2>3, <2>4, <2>5, Zenon
<1>10. ASSUME NEW c \in Calls, NEW b \in Bodies, AgentReplies(c, b) PROVE TypeOK'
  <2>1. inbox' \in Seq(Lines)
    BY <1>10, LinesMade, Appending, Zenon DEF AgentReplies, Emit
  <2>2. replies' \in [Calls -> 0 .. MaxReplies]
    BY <1>10, AcpAssumption DEF AgentReplies
  <2> QED
    BY <1>10, <2>1, <2>2, Zenon DEF AgentReplies, Emit
<1>11. ASSUME NEW p \in Prompts, AgentStreams(p) PROVE TypeOK'
  <2>1. chunks[p] + 1 \in 1 .. MaxChunks
    BY <1>11, AcpAssumption DEF AgentStreams
  <2>2. inbox' \in Seq(Lines)
    BY <1>11, <2>1, LinesMade, Appending, Zenon DEF AgentStreams, Emit
  <2>3. chunks' \in [Prompts -> 0 .. MaxChunks]
    BY <1>11, <2>1, AcpAssumption DEF AgentStreams
  <2> QED
    BY <1>11, <2>2, <2>3, Zenon DEF AgentStreams, Emit
<1>12. ASSUME NEW p \in Prompts, NEW b \in Asks, AgentAsks(p, b) PROVE TypeOK'
  <2>1. inbox' \in Seq(Lines)
    BY <1>12, LinesMade, Appending, Zenon DEF AgentAsks, Emit
  <2>2. ask' \in [Prompts -> {"none", "asked", "malformed", "answered"}]
    BY <1>12, Zenon DEF AgentAsks
  <2> QED
    BY <1>12, <2>1, <2>2, Zenon DEF AgentAsks, Emit
<1>13. CASE Reader \/ SkipLine \/ LineTooLong \/ Connect \/ Close
  BY <1>2, <1>3, <1>4, <1>5, <1>13, Zenon DEF Reader
<1>14. CASE Agent
  BY <1>2, <1>10, <1>11, <1>12, <1>14, Zenon DEF Agent
<1>15. ASSUME NEW c \in Calls, StoreReply(c) \/ Send(c) \/ CtxReturns(c) \/ CtxEnds(c) PROVE TypeOK'
  BY <1>6, <1>9, <1>15, Zenon DEF Send, Ends
<1>16. ASSUME NEW c \in Plain, CallReply(c) PROVE TypeOK'
  BY <1>0, <1>9, <1>16, Zenon DEF Ends
<1>17. ASSUME NEW p \in Prompts, PromptStep(p) PROVE TypeOK'
  BY <1>0, <1>7, <1>8, <1>9, <1>17, Zenon DEF PromptStep, Ends
<1> QED
  BY <1>1, <1>13, <1>14, <1>15, <1>16, <1>17, Zenon DEF Next

\* The variables of the client keep their types; a delta channel never holds more
\* than its capacity, for any capacity (client.go:125, :345-349).
THEOREM AcpTypes == Spec => []TypeOK
<1>1. Init => TypeOK
  <2> SUFFICES ASSUME Init PROVE TypeOK
    OBVIOUS
  <2>1. {DeltaCap, MaxChunks, MaxReplies} \subseteq Nat
    BY AcpAssumption, Zenon
  <2>2. /\ deltaCh \in [Prompts -> Seq(1 .. MaxChunks)] /\ deltas \in [Prompts -> Seq(1 .. MaxChunks)]
        /\ inbox \in Seq(Lines) /\ \A p \in Prompts : Len(deltaCh[p]) = 0
    BY NoElements, Zenon DEF Init
  <2>3. replies \in [Calls -> 0 .. MaxReplies] /\ chunks \in [Prompts -> 0 .. MaxChunks]
    BY <2>1 DEF Init
  <2>4. \A p \in Prompts : Len(deltaCh[p]) <= DeltaCap
    BY <2>1, <2>2
  <2>5. /\ replyCh \in [Calls -> Bodies \cup {"none", "loss"}]
        /\ pc \in [Calls -> {"idle", "stored", "ready", "waiting", "done"}]
        /\ ret \in [Calls -> {"none", "ok", "content", "text", "err"}]
        /\ ctxDone \in [Calls -> BOOLEAN]
        /\ ask \in [Prompts -> {"none", "asked", "malformed", "answered"}]
    BY Zenon DEF Init
  <2>6. /\ conn = "none" /\ broken \in BOOLEAN /\ reader = "none"
        /\ UNION {atLoss, hit, pending, deltaKey, dropped, got} = {}
    BY Zenon DEF Init
  <2> QED
    BY <2>2, <2>3, <2>4, <2>5, <2>6, Zenon DEF TypeOK
<1> QED
  BY <1>1, AcpTypeStep, PTL DEF Spec

\* How many chunks have come to a prompt, joined already or in its channel.
Taken(p) == Len(deltas[p]) + Len(deltaCh[p])

ChunkAt(p, i) == inbox[i].type = "chunk" /\ inbox[i].call = p
ReplyAt(p, i) == inbox[i].type = "reply" /\ inbox[i].call = p

\* The chunks of a prompt are under way in their order and before its reply.
OrderInv(p) ==
  /\ \A i \in 1 .. Len(inbox) : ChunkAt(p, i) => inbox[i].n <= chunks[p]
  /\ \A i, j \in 1 .. Len(inbox) :
       i < j /\ ChunkAt(p, j) => ~ReplyAt(p, i) /\ (ChunkAt(p, i) => inbox[i].n < inbox[j].n)

\* The chunks that have come are the first ones, in order; the others are under
\* way, unless the reply has come.
Streams(p) ==
  /\ \A i \in 1 .. Len(deltas[p]) : deltas[p][i] = i
  /\ \A i \in 1 .. Len(deltaCh[p]) : deltaCh[p][i] = Len(deltas[p]) + i
  /\ Taken(p) <= chunks[p]
  /\ \A i \in 1 .. Len(inbox) : ChunkAt(p, i) => inbox[i].n > Taken(p)
  /\ \A m \in Taken(p) + 1 .. chunks[p] : \E i \in 1 .. Len(inbox) : inbox[i] = Chunk(p, m)
  /\ replyCh[p] \in Bodies => \A i \in 1 .. Len(inbox) : ~ChunkAt(p, i)

TextInv(p) ==
  /\ p \notin dropped /\ pc[p] # "done" => Streams(p)
  /\ ret[p] = "text" => replies[p] > 0 /\ pc[p] = "done"
  /\ ret[p] = "text" /\ p \notin dropped => deltas[p] = [i \in 1 .. chunks[p] |-> i]

\* A prompt that a step does not touch.
LEMMA TextFrame ==
  ASSUME NEW p \in Prompts, TextInv(p),
         deltas'[p] = deltas[p], deltaCh'[p] = deltaCh[p], chunks'[p] = chunks[p], inbox' = inbox,
         p \in dropped => p \in dropped', pc[p] = "done" <=> pc'[p] = "done",
         ret'[p] = ret[p], replies'[p] = replies[p], replyCh'[p] \in Bodies => replyCh[p] \in Bodies
  PROVE  TextInv(p)'
<1>1. Taken(p)' = Taken(p) /\ \A i : (ChunkAt(p, i)' <=> ChunkAt(p, i))
  BY Zenon DEF Taken, ChunkAt
<1>2. Streams(p) => Streams(p)'
  BY <1>1, Zenon DEF Streams
<1> QED
  BY <1>2, Zenon DEF TextInv

\* The order of the lines under way when the inbox is not written.
LEMMA OrderFrame ==
  ASSUME NEW p \in Prompts, OrderInv(p), inbox' = inbox, chunks'[p] = chunks[p] PROVE OrderInv(p)'
BY Zenon DEF OrderInv, ChunkAt, ReplyAt

\* Steps that have nothing to do with chunks.
LEMMA TextOthers ==
  ASSUME TypeOK, NEW p \in Prompts, OrderInv(p), TextInv(p),
         \/ Connect \/ Close \/ AgentLeaves \/ ReaderTop \/ SkipLine \/ ScanFalse \/ RangeEnds
         \/ \E c \in Calls : FailPending(c) \/ StoreReply(c) \/ SendOk(c) \/ CtxEnds(c)
         \/ \E q \in Prompts : StoreDelta(q)
  PROVE  OrderInv(p)' /\ TextInv(p)'
<1> USE DEF connVars, readVars, mapVars, chanVars, callVars, agentVars
<1>0. p \in Calls /\ Prompts \subseteq Calls
  BY Zenon DEF Calls
<1>1. UNCHANGED <<deltas, deltaCh, chunks, inbox, dropped, ret, replies>>
  BY Zenon DEF Connect, Close, AgentLeaves, ReaderTop, SkipLine, ScanFalse, RangeEnds, FailPending, StoreReply, SendOk,
     CtxEnds, StoreDelta
<1>2. pc' = pc \/ \E c \in Calls, to \in {"stored", "ready", "waiting"} : pc[c] # "done" /\ pc' = [pc EXCEPT ![c] = to]
  BY <1>0, Zenon DEF Connect, Close, AgentLeaves, ReaderTop, SkipLine, ScanFalse, RangeEnds, FailPending, StoreReply, SendOk,
     CtxEnds, StoreDelta, Move
<1>3. replyCh' = replyCh \/ \E c \in Calls : replyCh' = [replyCh EXCEPT ![c] = "loss"]
  BY Zenon DEF Connect, Close, AgentLeaves, ReaderTop, SkipLine, ScanFalse, RangeEnds, FailPending, StoreReply, SendOk,
     CtxEnds, StoreDelta
<1>4. pc[p] = "done" <=> pc'[p] = "done"
  BY <1>0, <1>2, Zenon DEF TypeOK
<1>5. replyCh'[p] \in Bodies => replyCh[p] \in Bodies
  BY <1>0, <1>3, Zenon DEF TypeOK, Bodies
<1> QED
  BY <1>1, <1>4, <1>5, TextFrame, OrderFrame, Zenon

\* Two sequences that count on from each other, joined.
LEMMA Joined ==
  ASSUME NEW S, NEW d \in Seq(S), NEW e \in Seq(S), NEW k \in Nat, Len(d) + Len(e) = k,
         \A i \in 1 .. Len(d) : d[i] = i, \A i \in 1 .. Len(e) : e[i] = Len(d) + i
  PROVE  d \o e = [i \in 1 .. k |-> i]
<1>1. Len(d) \in Nat /\ Len(e) \in Nat
  BY Lengths, Zenon
<1>2. /\ d \o e \in Seq(S) /\ Len(d \o e) = k
      /\ \A i \in 1 .. k : (d \o e)[i] = IF i <= Len(d) THEN d[i] ELSE e[i - Len(d)]
  BY Concatenating, Zenon
<1>3. ASSUME NEW i \in 1 .. k PROVE (d \o e)[i] = i
  <2>1. CASE i <= Len(d)
    BY <1>1, <1>2, <2>1
  <2>2. CASE ~(i <= Len(d))
    <3>1. i - Len(d) \in 1 .. Len(e)
      BY <1>1, <2>2
    <3>2. e[i - Len(d)] = Len(d) + (i - Len(d))
      BY <3>1, Zenon
    <3> QED
      BY <1>1, <1>2, <2>2, <3>2
  <2> QED
    BY <2>1, <2>2, Zenon
<1>4. PICK f : f = d \o e
  BY Zenon
<1>5. f \in [1 .. k -> S] /\ \A i \in 1 .. k : f[i] = i
  BY <1>2, <1>3, <1>4, Lengths, Zenon
<1>6. f = [i \in 1 .. k |-> i]
  BY <1>5, Zenon
<1> QED
  BY <1>4, <1>6, Zenon

\* Once the reply has come, what has come is all.
LEMMA AllHaveCome ==
  ASSUME TypeOK, NEW p \in Prompts, Streams(p), replyCh[p] \in Bodies
  PROVE  deltas[p] \o deltaCh[p] = [i \in 1 .. chunks[p] |-> i]
<1>1. PICK S : deltas \in [Prompts -> Seq(S)] /\ deltaCh \in [Prompts -> Seq(S)]
  BY Zenon DEF TypeOK
<1>2. chunks \in [Prompts -> Nat] /\ Len(deltas[p]) \in Nat /\ Len(deltaCh[p]) \in Nat
  <2>1. chunks \in [Prompts -> Nat]
    BY AcpAssumption DEF TypeOK
  <2> QED
    BY <1>1, <2>1, Lengths, Zenon
<1>3. ASSUME Taken(p) < chunks[p] PROVE FALSE
  <2>1. Taken(p) + 1 \in Taken(p) + 1 .. chunks[p]
    BY <1>1, <1>2, <1>3 DEF Taken
  <2>2. PICK i \in 1 .. Len(inbox) : inbox[i] = Chunk(p, Taken(p) + 1)
    BY <2>1, Zenon DEF Streams
  <2>3. ChunkAt(p, i)
    BY <2>2, LinesMade DEF ChunkAt
  <2> QED
    BY <2>3, Zenon DEF Streams
<1>4. Len(deltas[p]) + Len(deltaCh[p]) = chunks[p]
  <2>1. Taken(p) <= chunks[p]
    BY Zenon DEF Streams
  <2> QED
    BY <1>1, <1>2, <1>3, <2>1 DEF Taken
<1>5. /\ \A i \in 1 .. Len(deltas[p]) : deltas[p][i] = i
      /\ \A i \in 1 .. Len(deltaCh[p]) : deltaCh[p][i] = Len(deltas[p]) + i
  BY Zenon DEF Streams
<1>6. deltas[p] \in Seq(S) /\ deltaCh[p] \in Seq(S) /\ chunks[p] \in Nat
  BY <1>1, <1>2, Zenon
<1>7. PICK d, e, k : d = deltas[p] /\ e = deltaCh[p] /\ k = chunks[p]
  BY Zenon
<1>8. /\ d \in Seq(S) /\ e \in Seq(S) /\ k \in Nat /\ Len(d) + Len(e) = k
      /\ \A i \in 1 .. Len(d) : d[i] = i
      /\ \A i \in 1 .. Len(e) : e[i] = Len(d) + i
  BY <1>4, <1>5, <1>6, <1>7, Zenon
<1>9. d \o e = [i \in 1 .. k |-> i]
  BY <1>8, Joined
<1> QED
  BY <1>7, <1>9, Zenon

\* A step that ends a call: Prompt collects what is left in its channel.
LEMMA TextEnd ==
  ASSUME TypeOK, AcpInv, NEW c \in Calls, Ends(c), NEW p \in Prompts, OrderInv(p), TextInv(p)
  PROVE  OrderInv(p)' /\ TextInv(p)'
<1>0. p \in Calls
  BY Zenon DEF Calls
<1>1. UNCHANGED <<chunks, inbox, dropped, replies>>
  BY Zenon DEF Ends, SendErr, CtxReturns, CallReply, PromptReply, PromptEnds, agentVars
<1>2. PICK r, d : Return(c, r) /\ Forget(c, d)
  BY Zenon DEF Ends, SendErr, CtxReturns, CallReply, PromptReply, PromptEnds
<1>3. OrderInv(p)'
  BY <1>1, OrderFrame, Zenon
<1>4. CASE p # c
  BY <1>0, <1>1, <1>2, <1>3, <1>4, TextFrame, Zenon DEF Return, Forget, TypeOK
<1>5. CASE p = c
  <2>1. pc'[p] = "done" /\ ret'[p] = r /\ deltas'[p] = d
    BY <1>0, <1>2, <1>5, Zenon DEF Return, Forget, TypeOK
  <2>2. pc[p] # "done"
    BY <1>5, Zenon DEF Ends, SendErr, CtxReturns, CallReply, PromptReply, PromptEnds
  <2>3. ASSUME r = "text"
        PROVE  replyCh[p] \in Bodies /\ d = deltas[p] \o deltaCh[p]
    <3>1. PromptReply(p)
      BY <1>0, <1>2, <1>5, <2>1, <2>3, AcpAssumption, Zenon DEF Ends, SendErr, CtxReturns, CallReply, Return, TypeOK
    <3>2. /\ replyCh[p] \in Bodies \cup {"loss"} /\ ret'[p] = PromptResult(replyCh[p], deltas[p] \o deltaCh[p])
          /\ deltas'[p] = IF ret'[p] = "text" THEN deltas[p] \o deltaCh[p] ELSE <<>>
      BY <1>0, <3>1, Zenon DEF PromptReply, PromptEnds, Return, Forget, TypeOK
    <3> QED
      BY <2>1, <2>3, <3>2, Zenon DEF PromptResult, Bodies
  <2>4. ASSUME r = "text" PROVE replies[p] > 0
    BY <1>0, <2>3, <2>4, Zenon DEF AcpInv, CallInv
  <2>5. ASSUME r = "text", p \notin dropped PROVE d = [i \in 1 .. chunks[p] |-> i]
    BY <2>2, <2>3, <2>5, AllHaveCome, Zenon DEF TextInv
  <2> QED
    BY <1>1, <1>3, <2>1, <2>4, <2>5, Zenon DEF TextInv
<1> QED
  BY <1>4, <1>5, Zenon

\* A prompt joins the next chunk of its channel.
LEMMA TextTake ==
  ASSUME TypeOK, NEW q \in Prompts, TakeDelta(q), NEW p \in Prompts, OrderInv(p), TextInv(p)
  PROVE  OrderInv(p)' /\ TextInv(p)'
<1>1. UNCHANGED <<replyCh, pc, ret, chunks, replies, inbox, dropped>>
  BY Zenon DEF TakeDelta, agentVars
<1>2. OrderInv(p)'
  BY <1>1, OrderFrame, Zenon
<1>3. CASE p # q
  BY <1>1, <1>2, <1>3, TextFrame, Zenon DEF TakeDelta, TypeOK
<1>4. CASE p = q
  <2>1. PICK S : deltas \in [Prompts -> Seq(S)] /\ deltaCh \in [Prompts -> Seq(S)]
    BY Zenon DEF TypeOK
  <2>2. PICK d \in Seq(S), e \in Seq(S) : d = deltas[p] /\ e = deltaCh[p]
    BY <2>1, Zenon
  <2>3. e # <<>> /\ deltas'[p] = Append(d, Head(e)) /\ deltaCh'[p] = Tail(e) /\ pc[p] # "done"
    BY <1>4, <2>1, <2>2, Zenon DEF TakeDelta
  <2>4. /\ Head(e) \in S /\ Head(e) = e[1] /\ Len(e) \in Nat \ {0} /\ Len(Tail(e)) = Len(e) - 1
        /\ \A i \in 1 .. Len(e) - 1 : Tail(e)[i] = e[i + 1]
    BY <2>3, Taking, Zenon
  <2>5. /\ Len(d) \in Nat /\ Len(Append(d, Head(e))) = Len(d) + 1 /\ Append(d, Head(e))[Len(d) + 1] = Head(e)
        /\ \A i \in 1 .. Len(d) : Append(d, Head(e))[i] = d[i]
    BY <2>4, Appending, Lengths
  <2>6. Taken(p)' = Taken(p)
    <3>1. Taken(p) = Len(d) + Len(e) /\ Taken(p)' = Len(Append(d, Head(e))) + Len(Tail(e))
      BY <2>2, <2>3, Zenon DEF Taken
    <3>2. Len(Append(d, Head(e))) + Len(Tail(e)) = (Len(d) + 1) + (Len(e) - 1)
      BY <2>4, <2>5, Zenon
    <3> QED
      BY <2>4, <2>5, <3>1, <3>2
  <2>7. ASSUME Streams(p) PROVE Streams(p)'
    <3>1. (\A i \in 1 .. Len(d) : d[i] = i) /\ \A i \in 1 .. Len(e) : e[i] = Len(d) + i
      BY <2>2, <2>7, Zenon DEF Streams
    <3>2. \A i \in 1 .. Len(d) + 1 : Append(d, Head(e))[i] = i
      BY <2>4, <2>5, <3>1
    <3>3. \A i \in 1 .. Len(e) - 1 : Tail(e)[i] = Len(d) + 1 + i
      BY <2>4, <2>5, <3>1
    <3>4. /\ \A i \in 1 .. Len(deltas'[p]) : deltas'[p][i] = i
          /\ \A i \in 1 .. Len(deltaCh'[p]) : deltaCh'[p][i] = Len(deltas'[p]) + i
      BY <2>3, <2>4, <2>5, <3>2, <3>3, Zenon
    <3>5. \A i : ChunkAt(p, i)' <=> ChunkAt(p, i)
      BY <1>1, Zenon DEF ChunkAt
    <3> QED
      BY <1>1, <2>6, <2>7, <3>4, <3>5, Zenon DEF Streams
  <2>8. ret[p] # "text"
    BY <2>3, Zenon DEF TextInv
  <2> QED
    BY <1>1, <1>2, <2>3, <2>7, <2>8, Zenon DEF TextInv
<1> QED
  BY <1>3, <1>4, Zenon

\* The lines that are left when the first one is taken.
LEMMA TailLines ==
  ASSUME TypeOK, inbox # <<>>, inbox' = Tail(inbox), NEW p \in Prompts
  PROVE  /\ Len(inbox) \in Nat \ {0} /\ Len(inbox') = Len(inbox) - 1 /\ Head(inbox) = inbox[1]
         /\ \A i \in 1 .. Len(inbox) - 1 :
              /\ inbox'[i] = inbox[i + 1]
              /\ ChunkAt(p, i)' <=> ChunkAt(p, i + 1)
              /\ ReplyAt(p, i)' <=> ReplyAt(p, i + 1)
<1>1. inbox \in Seq(Lines)
  BY Zenon DEF TypeOK
<1>2. /\ Len(inbox) \in Nat \ {0} /\ Len(inbox') = Len(inbox) - 1 /\ Head(inbox) = inbox[1]
      /\ \A i \in 1 .. Len(inbox) - 1 : inbox'[i] = inbox[i + 1]
  BY <1>1, Taking, Zenon
<1> QED
  BY <1>2, Zenon DEF ChunkAt, ReplyAt

\* They are still in order.
LEMMA OrderTail ==
  ASSUME TypeOK, inbox # <<>>, inbox' = Tail(inbox), NEW p \in Prompts, OrderInv(p), chunks' = chunks
  PROVE  OrderInv(p)'
<1>1. PICK n \in Nat \ {0} :
        /\ n = Len(inbox) /\ Len(inbox') = n - 1
        /\ \A i \in 1 .. n - 1 : /\ inbox'[i] = inbox[i + 1]
                                 /\ ChunkAt(p, i)' <=> ChunkAt(p, i + 1)
                                 /\ ReplyAt(p, i)' <=> ReplyAt(p, i + 1)
  BY TailLines, Zenon
<1>2. ASSUME NEW i \in 1 .. n - 1, ChunkAt(p, i)' PROVE inbox'[i].n <= chunks'[p]
  <2>1. i + 1 \in 1 .. n /\ inbox'[i] = inbox[i + 1] /\ ChunkAt(p, i + 1)
    BY <1>1, <1>2
  <2> QED
    BY <1>1, <2>1, Zenon DEF OrderInv
<1>3. ASSUME NEW i \in 1 .. n - 1, NEW j \in 1 .. n - 1, i < j, ChunkAt(p, j)'
      PROVE  ~ReplyAt(p, i)' /\ (ChunkAt(p, i)' => inbox'[i].n < inbox'[j].n)
  <2>1. i + 1 \in 1 .. n /\ j + 1 \in 1 .. n /\ i + 1 < j + 1
    BY <1>1, <1>3
  <2>2. /\ inbox'[i] = inbox[i + 1] /\ inbox'[j] = inbox[j + 1] /\ ChunkAt(p, j + 1)
        /\ ReplyAt(p, i)' <=> ReplyAt(p, i + 1)
        /\ ChunkAt(p, i)' <=> ChunkAt(p, i + 1)
    BY <1>1, <1>3, Zenon
  <2> QED
    BY <1>1, <2>1, <2>2, Zenon DEF OrderInv
<1> QED
  BY <1>1, <1>2, <1>3, Zenon DEF OrderInv

\* readLoop takes a line that is no chunk of the prompt.
LEMMA StreamsTail ==
  ASSUME TypeOK, inbox # <<>>, inbox' = Tail(inbox), NEW p \in Prompts, OrderInv(p), Streams(p), ~ChunkAt(p, 1),
         UNCHANGED <<deltas, chunks>>, deltaCh'[p] = deltaCh[p],
         replyCh'[p] \in Bodies => replyCh[p] \in Bodies \/ ReplyAt(p, 1)
  PROVE  Streams(p)'
<1>1. PICK n \in Nat \ {0} :
        /\ n = Len(inbox) /\ Len(inbox') = n - 1
        /\ \A i \in 1 .. n - 1 : inbox'[i] = inbox[i + 1] /\ (ChunkAt(p, i)' <=> ChunkAt(p, i + 1))
  BY TailLines, Zenon
<1>2. Taken(p)' = Taken(p)
  BY Zenon DEF Taken
<1>3. ASSUME NEW i \in 1 .. n - 1, ChunkAt(p, i)' PROVE inbox'[i].n > Taken(p) /\ replyCh'[p] \notin Bodies
  <2>1. i + 1 \in 1 .. n /\ 1 \in 1 .. n /\ 1 < i + 1 /\ inbox'[i] = inbox[i + 1] /\ ChunkAt(p, i + 1)
    BY <1>1, <1>3
  <2> QED
    BY <1>1, <2>1, Zenon DEF Streams, OrderInv
<1>4. ASSUME NEW m \in Taken(p) + 1 .. chunks[p] PROVE \E i \in 1 .. n - 1 : inbox'[i] = Chunk(p, m)
  <2>1. PICK i \in 1 .. n : inbox[i] = Chunk(p, m)
    BY <1>1, Zenon DEF Streams
  <2>2. i # 1
    BY <2>1, LinesMade DEF ChunkAt
  <2>3. i - 1 \in 1 .. n - 1 /\ inbox'[i - 1] = inbox[(i - 1) + 1] /\ (i - 1) + 1 = i
    BY <1>1, <2>2
  <2> QED
    BY <2>1, <2>3, Zenon
<1> QED
  BY <1>1, <1>2, <1>3, <1>4, Zenon DEF Streams

\* readLoop hands a chunk of the prompt to its channel: it is the next one.
LEMMA StreamsPut ==
  ASSUME TypeOK, inbox # <<>>, inbox' = Tail(inbox), NEW p \in Prompts, OrderInv(p), Streams(p), ChunkAt(p, 1),
         UNCHANGED <<deltas, chunks, replyCh>>, deltaCh' = [deltaCh EXCEPT ![p] = Append(@, Head(inbox).n)]
  PROVE  Streams(p)'
<1>1. PICK n \in Nat \ {0} :
        /\ n = Len(inbox) /\ Len(inbox') = n - 1 /\ Head(inbox) = inbox[1]
        /\ \A i \in 1 .. n - 1 : inbox'[i] = inbox[i + 1] /\ (ChunkAt(p, i)' <=> ChunkAt(p, i + 1))
  BY TailLines, Zenon
<1>2. PICK S : /\ deltas \in [Prompts -> Seq(S)] /\ deltaCh \in [Prompts -> Seq(S)]
               /\ \A x \in S : x \in Nat
               /\ \A l \in Lines : l.type = "chunk" => l.n \in S
  <2>1. deltas \in [Prompts -> Seq(1 .. MaxChunks)] /\ deltaCh \in [Prompts -> Seq(1 .. MaxChunks)]
    BY Zenon DEF TypeOK
  <2>2. \A x \in 1 .. MaxChunks : x \in Nat
    BY AcpAssumption
  <2> QED
    BY <2>1, <2>2, LineFacts, Zenon
<1>3. PICK d \in Seq(S), e \in Seq(S), h \in S, k \in Nat :
        d = deltas[p] /\ e = deltaCh[p] /\ h = inbox[1].n /\ k = chunks[p]
  BY <1>1, <1>2 DEF TypeOK, ChunkAt
<1>4. deltas'[p] = d /\ deltaCh'[p] = Append(e, h)
  BY <1>1, <1>2, <1>3, Zenon
<1>5. /\ Len(d) \in Nat /\ Len(e) \in Nat /\ Len(Append(e, h)) = Len(e) + 1 /\ Append(e, h)[Len(e) + 1] = h
      /\ \A i \in 1 .. Len(e) : Append(e, h)[i] = e[i]
  BY <1>3, Appending, Lengths
<1>6. PICK t \in Nat : t = Len(d) + Len(e) /\ t = Taken(p) /\ t + 1 = Taken(p)'
  <2>1. Taken(p) = Len(d) + Len(e) /\ Taken(p)' = Len(d) + Len(Append(e, h))
    BY <1>3, <1>4, Zenon DEF Taken
  <2>2. Len(d) + Len(Append(e, h)) = (Len(d) + Len(e)) + 1 /\ Len(d) + Len(e) \in Nat
    BY <1>5
  <2> QED
    BY <2>1, <2>2, Zenon
<1>7. 1 \in 1 .. n /\ h \in Nat /\ h > t /\ h <= k
  <2>1. 1 \in 1 .. n /\ h \in Nat
    BY <1>1, <1>2
  <2>2. h > t /\ h <= k
    BY <1>1, <1>3, <1>6, <2>1, Zenon DEF Streams, OrderInv
  <2> QED
    BY <2>1, <2>2, Zenon
\* Chunks that are taken later have greater numbers, so number t + 1 is the head.
<1>8. h = t + 1
  <2>1. t + 1 \in t + 1 .. k
    BY <1>7
  <2>2. PICK i \in 1 .. n : inbox[i] = Chunk(p, t + 1)
    BY <1>1, <1>3, <1>6, <2>1, Zenon DEF Streams
  <2>3. ChunkAt(p, i) /\ inbox[i].n = t + 1
    BY <2>2 DEF ChunkAt, Chunk, Line
  <2>4. i # 1 => h < t + 1
    BY <1>1, <1>3, <1>7, <2>3 DEF OrderInv
  <2> QED
    BY <1>3, <1>7, <2>3, <2>4
<1>9. /\ \A i \in 1 .. Len(d) : d[i] = i
      /\ \A i \in 1 .. Len(e) + 1 : Append(e, h)[i] = Len(d) + i
  <2>1. (\A i \in 1 .. Len(d) : d[i] = i) /\ \A i \in 1 .. Len(e) : e[i] = Len(d) + i
    BY <1>3, Zenon DEF Streams
  <2>2. ASSUME NEW i \in 1 .. Len(e) + 1 PROVE Append(e, h)[i] = Len(d) + i
    <3>1. CASE i \in 1 .. Len(e)
      BY <1>5, <2>1, <3>1, Zenon
    <3>2. CASE i = Len(e) + 1
      <4>1. Append(e, h)[i] = (Len(d) + Len(e)) + 1
        BY <1>5, <1>6, <1>8, <3>2, Zenon
      <4> QED
        BY <1>5, <3>2, <4>1
    <3> QED
      BY <1>5, <3>1, <3>2
  <2> QED
    BY <2>1, <2>2, Zenon
<1>10. /\ \A i \in 1 .. Len(deltas'[p]) : deltas'[p][i] = i
       /\ \A i \in 1 .. Len(deltaCh'[p]) : deltaCh'[p][i] = Len(deltas'[p]) + i
  BY <1>4, <1>5, <1>9, Zenon
<1>11. ASSUME NEW i \in 1 .. n - 1, ChunkAt(p, i)' PROVE inbox'[i].n > t + 1 /\ replyCh'[p] \notin Bodies
  <2>1. i + 1 \in 1 .. n /\ 1 < i + 1 /\ inbox'[i] = inbox[i + 1] /\ ChunkAt(p, i + 1)
    BY <1>1, <1>11
  <2>2. h < inbox[i + 1].n
    BY <1>1, <1>3, <1>7, <2>1, Zenon DEF OrderInv
  <2> QED
    BY <1>1, <1>8, <2>1, <2>2, Zenon DEF Streams
<1>12. ASSUME NEW m \in t + 1 + 1 .. k PROVE \E i \in 1 .. n - 1 : inbox'[i] = Chunk(p, m)
  <2>1. PICK i \in 1 .. n : inbox[i] = Chunk(p, m)
    <3>1. m \in t + 1 .. k
      OBVIOUS
    <3> QED
      BY <1>1, <1>3, <1>6, <3>1, Zenon DEF Streams
  <2>2. inbox[i].n = m
    BY <2>1 DEF Chunk, Line
  <2>3. i # 1
    <3>1. i = 1 => m = t + 1
      BY <1>3, <1>8, <2>2, Zenon
    <3> QED
      BY <3>1
  <2>4. i - 1 \in 1 .. n - 1 /\ inbox'[i - 1] = inbox[(i - 1) + 1] /\ (i - 1) + 1 = i
    BY <1>1, <2>3
  <2> QED
    BY <2>1, <2>4, Zenon
<1> QED
  BY <1>1, <1>3, <1>6, <1>7, <1>8, <1>10, <1>11, <1>12, Zenon DEF Streams

\* readLoop takes a line of the agent.
LEMMA TextLine ==
  ASSUME TypeOK, DispatchReply \/ HandleNotification \/ HandleServerRequest,
         NEW p \in Prompts, OrderInv(p), TextInv(p)
  PROVE  OrderInv(p)' /\ TextInv(p)'
<1>1. /\ inbox # <<>> /\ inbox' = Tail(inbox) /\ UNCHANGED <<pc, ret, deltas, chunks, replies>>
  BY Zenon DEF DispatchReply, HandleNotification, HandleServerRequest, ReadLine, callVars
<1>2. OrderInv(p)' /\ Head(inbox) = inbox[1] /\ dropped \subseteq dropped'
  BY <1>1, OrderTail, TailLines, Zenon DEF DispatchReply, HandleNotification, HandleServerRequest
<1>3. ASSUME p \notin dropped', pc[p] # "done" PROVE Streams(p)'
  <2>1. Streams(p) /\ p \notin dropped
    BY <1>2, <1>3, Zenon DEF TextInv
  <2>2. CASE DispatchReply
    <3>1. ~ChunkAt(p, 1) /\ deltaCh' = deltaCh
      BY <1>2, <2>2, Zenon DEF DispatchReply, ReadLine, ChunkAt
    <3>2. replyCh'[p] = replyCh[p] \/ ReplyAt(p, 1)
      <4>1. p \in Calls /\ replyCh \in [Calls -> Bodies \cup {"none", "loss"}]
        BY Zenon DEF TypeOK, Calls
      <4>2. Head(inbox).type = "reply" /\ (replyCh' = replyCh \/ replyCh' = [replyCh EXCEPT ![Head(inbox).call] = Head(inbox).body])
        BY <2>2, Zenon DEF DispatchReply, ReadLine
      <4>3. Head(inbox).call # p => replyCh'[p] = replyCh[p]
        BY <4>1, <4>2, Zenon
      <4> QED
        BY <1>2, <4>2, <4>3, Zenon DEF ReplyAt
    <3> QED
      BY <1>1, <2>1, <3>1, <3>2, StreamsTail, Zenon
  <2>3. CASE HandleServerRequest
    <3>1. ~ChunkAt(p, 1) /\ UNCHANGED <<deltaCh, replyCh>>
      BY <1>2, <2>3, Zenon DEF HandleServerRequest, ReadLine, ChunkAt, chanVars
    <3> QED
      BY <1>1, <2>1, <3>1, StreamsTail, Zenon
  <2>4. CASE HandleNotification /\ Head(inbox).call = p
    <3>1. ChunkAt(p, 1) /\ replyCh' = replyCh /\ deltaCh' = [deltaCh EXCEPT ![p] = Append(@, Head(inbox).n)]
      BY <1>2, <1>3, <2>4, Zenon DEF HandleNotification, ReadLine, ChunkAt
    <3> QED
      BY <1>1, <2>1, <3>1, StreamsPut, Zenon
  <2>5. CASE HandleNotification /\ Head(inbox).call # p
    <3>1. ~ChunkAt(p, 1) /\ UNCHANGED replyCh /\ deltaCh'[p] = deltaCh[p]
      BY <1>2, <2>5, Zenon DEF HandleNotification, ChunkAt, TypeOK
    <3> QED
      BY <1>1, <2>1, <3>1, StreamsTail, Zenon
  <2> QED
    BY <2>2, <2>3, <2>4, <2>5, Zenon
<1> QED
  BY <1>1, <1>2, <1>3, Zenon DEF TextInv

\* What Append does to the lines under way.
LEMMA Adding ==
  ASSUME NEW S, NEW s \in Seq(S), NEW e \in S
  PROVE  \E n \in Nat : /\ n = Len(s) /\ Len(Append(s, e)) = n + 1 /\ Append(s, e)[n + 1] = e
                        /\ \A i \in 1 .. n : Append(s, e)[i] = s[i]
BY Appending, Lengths

\* The agent sends a line that is no chunk of the prompt.
LEMMA LineAdded ==
  ASSUME TypeOK, NEW l \in Lines, inbox' = Append(inbox, l), NEW p \in Prompts, OrderInv(p),
         ~(l.type = "chunk" /\ l.call = p), chunks'[p] = chunks[p]
  PROVE  /\ OrderInv(p)'
         /\ Streams(p) /\ UNCHANGED <<deltas, deltaCh, replyCh>> => Streams(p)'
<1>1. PICK n \in Nat : /\ n = Len(inbox) /\ Len(inbox') = n + 1 /\ inbox'[n + 1] = l
                       /\ \A i \in 1 .. n : inbox'[i] = inbox[i]
  <2>1. inbox \in Seq(Lines)
    BY Zenon DEF TypeOK
  <2> QED
    BY <2>1, Adding
<1>2. /\ \A i \in 1 .. n : (ChunkAt(p, i)' <=> ChunkAt(p, i)) /\ (ReplyAt(p, i)' <=> ReplyAt(p, i))
      /\ ~ChunkAt(p, n + 1)'
  BY <1>1, Zenon DEF ChunkAt, ReplyAt
<1>3. \A i \in 1 .. n + 1 : ChunkAt(p, i)' => i \in 1 .. n
  BY <1>1, <1>2
<1>4. OrderInv(p)'
  <2>1. ASSUME NEW i \in 1 .. n + 1, ChunkAt(p, i)' PROVE inbox'[i].n <= chunks'[p]
    BY <1>1, <1>2, <1>3, <2>1, Zenon DEF OrderInv
  <2>2. ASSUME NEW i \in 1 .. n + 1, NEW j \in 1 .. n + 1, i < j, ChunkAt(p, j)'
        PROVE  ~ReplyAt(p, i)' /\ (ChunkAt(p, i)' => inbox'[i].n < inbox'[j].n)
    <3>1. i \in 1 .. n /\ j \in 1 .. n
      BY <1>1, <1>3, <2>2
    <3> QED
      BY <1>1, <1>2, <2>2, <3>1, Zenon DEF OrderInv
  <2> QED
    BY <1>1, <2>1, <2>2, Zenon DEF OrderInv
<1>5. ASSUME Streams(p), UNCHANGED <<deltas, deltaCh, replyCh>> PROVE Streams(p)'
  <2>1. Taken(p)' = Taken(p)
    BY <1>5, Zenon DEF Taken
  <2>2. ASSUME NEW i \in 1 .. n + 1, ChunkAt(p, i)' PROVE inbox'[i].n > Taken(p) /\ replyCh'[p] \notin Bodies
    BY <1>1, <1>2, <1>3, <1>5, <2>2, Zenon DEF Streams
  <2>3. ASSUME NEW m \in Taken(p) + 1 .. chunks[p] PROVE \E i \in 1 .. n + 1 : inbox'[i] = Chunk(p, m)
    <3>1. PICK i \in 1 .. n : inbox[i] = Chunk(p, m)
      BY <1>1, <1>5, Zenon DEF Streams
    <3>2. i \in 1 .. n + 1 /\ inbox'[i] = Chunk(p, m)
      BY <1>1, <3>1
    <3> QED
      BY <3>2, Zenon
  <2> QED
    BY <1>1, <1>5, <2>1, <2>2, <2>3, Zenon DEF Streams
<1> QED
  BY <1>4, <1>5, Zenon

\* The agent streams the next chunk of the prompt: it has not replied to it yet.
LEMMA ChunkAdded ==
  ASSUME TypeOK, AcpInv, NEW p \in Prompts, AgentStreams(p), OrderInv(p), TextInv(p)
  PROVE  OrderInv(p)' /\ TextInv(p)'
<1>0. p \in Calls /\ inbox \in Seq(Lines) /\ InboxInv /\ CallInv(p)
  BY Zenon DEF Calls, TypeOK, AcpInv
<1>1. /\ replies[p] = 0 /\ inbox' = Append(inbox, Chunk(p, chunks[p] + 1))
      /\ chunks' = [chunks EXCEPT ![p] = @ + 1] /\ UNCHANGED <<deltas, deltaCh, replyCh, dropped, pc, ret, replies>>
  BY Zenon DEF AgentStreams, Emit, connVars, readVars, mapVars, chanVars, callVars
<1>2. PICK k \in Nat : k = chunks[p] /\ chunks'[p] = k + 1 /\ Chunk(p, k + 1) \in Lines
  <2>1. chunks[p] \in Nat /\ chunks[p] + 1 \in 1 .. MaxChunks /\ chunks'[p] = chunks[p] + 1
    BY <1>1, AcpAssumption DEF TypeOK, AgentStreams
  <2> QED
    BY <2>1, LinesMade, Zenon
<1>3. PICK n \in Nat : /\ n = Len(inbox) /\ Len(inbox') = n + 1 /\ inbox'[n + 1] = Chunk(p, k + 1)
                       /\ \A i \in 1 .. n : inbox'[i] = inbox[i]
  <2>1. inbox' = Append(inbox, Chunk(p, k + 1))
    BY <1>1, <1>2, Zenon
  <2> QED
    BY <1>0, <1>2, <2>1, Adding
<1>4. /\ \A i \in 1 .. n : (ChunkAt(p, i)' <=> ChunkAt(p, i)) /\ (ReplyAt(p, i)' <=> ReplyAt(p, i))
      /\ inbox'[n + 1].n = k + 1
  <2>1. \A i \in 1 .. n : (ChunkAt(p, i)' <=> ChunkAt(p, i)) /\ (ReplyAt(p, i)' <=> ReplyAt(p, i))
    BY <1>3, Zenon DEF ChunkAt, ReplyAt
  <2>2. inbox'[n + 1].n = k + 1
    BY <1>3 DEF Chunk, Line
  <2> QED
    BY <2>1, <2>2, Zenon
<1>5. \A i \in 1 .. n : ~ReplyAt(p, i)
  <2>1. \A i \in 1 .. n : ReplyAt(p, i) => replies[p] > 0
    BY <1>0, <1>3, Zenon DEF InboxInv, ReplyAt
  <2> QED
    BY <1>1, <2>1
<1>6. replyCh[p] \notin Bodies /\ ret[p] # "text"
  BY <1>0, <1>1 DEF CallInv, TextInv
<1>7. \A i \in 1 .. n + 1 : i \in 1 .. n \/ i = n + 1
  OBVIOUS
<1>8. \A i \in 1 .. n : ChunkAt(p, i) => inbox[i].n \in Nat /\ inbox[i].n <= k
  <2>1. \A i \in 1 .. n : ChunkAt(p, i) => inbox[i].n \in 1 .. MaxChunks
    BY <1>0, <1>3, LineFacts DEF ChunkAt
  <2>2. \A i \in 1 .. n : ChunkAt(p, i) => inbox[i].n <= k
    BY <1>2, <1>3, Zenon DEF OrderInv
  <2>3. \A x \in 1 .. MaxChunks : x \in Nat
    BY AcpAssumption
  <2> QED
    BY <2>1, <2>2, <2>3, Zenon
<1>9. OrderInv(p)'
  <2>1. ASSUME NEW i \in 1 .. n + 1, ChunkAt(p, i)' PROVE inbox'[i].n <= k + 1
    <3>1. CASE i \in 1 .. n
      <4>1. inbox'[i].n \in Nat /\ inbox'[i].n <= k
        BY <1>3, <1>4, <1>8, <2>1, <3>1, Zenon
      <4> QED
        BY <4>1
    <3>2. CASE i = n + 1
      BY <1>4, <3>2
    <3> QED
      BY <1>7, <3>1, <3>2, Zenon
  <2>2. ASSUME NEW i \in 1 .. n + 1, NEW j \in 1 .. n + 1, i < j, ChunkAt(p, j)'
        PROVE  ~ReplyAt(p, i)' /\ (ChunkAt(p, i)' => inbox'[i].n < inbox'[j].n)
    <3>1. i \in 1 .. n /\ inbox'[i] = inbox[i]
      BY <1>3, <2>2
    <3>2. CASE j \in 1 .. n
      BY <1>3, <1>4, <2>2, <3>1, <3>2, Zenon DEF OrderInv
    <3>3. CASE j = n + 1
      <4>1. ~ReplyAt(p, i)'
        BY <1>4, <1>5, <3>1, Zenon
      <4>2. ChunkAt(p, i)' => inbox'[i].n \in Nat /\ inbox'[i].n <= k
        BY <1>4, <1>8, <3>1, Zenon
      <4> QED
        BY <1>4, <3>3, <4>1, <4>2
    <3> QED
      BY <1>7, <3>2, <3>3, Zenon
  <2> QED
    BY <1>2, <1>3, <2>1, <2>2, Zenon DEF OrderInv
<1>10. ASSUME Streams(p) PROVE Streams(p)'
  <2>1. PICK t : t = Taken(p) /\ t = Taken(p)'
    BY <1>1, Zenon DEF Taken
  <2>2. t \in Nat /\ t <= k
    <3>1. Taken(p) <= k
      BY <1>2, <1>10, Zenon DEF Streams
    <3>2. PICK S : deltas \in [Prompts -> Seq(S)] /\ deltaCh \in [Prompts -> Seq(S)]
      BY Zenon DEF TypeOK
    <3>3. PICK x \in Nat, y \in Nat : x = Len(deltas[p]) /\ y = Len(deltaCh[p])
      BY <3>2, Lengths, Zenon
    <3>4. Taken(p) \in Nat
      <4>1. Taken(p) = x + y
        BY <3>3, Zenon DEF Taken
      <4> QED
        BY <4>1
    <3> QED
      BY <2>1, <3>1, <3>4, Zenon
  <2>3. ASSUME NEW i \in 1 .. n + 1, ChunkAt(p, i)' PROVE inbox'[i].n > t
    <3>1. CASE i \in 1 .. n
      BY <1>3, <1>4, <1>10, <2>1, <2>3, <3>1, Zenon DEF Streams
    <3>2. CASE i = n + 1
      BY <1>4, <2>2, <3>2
    <3> QED
      BY <1>7, <3>1, <3>2, Zenon
  <2>4. ASSUME NEW m \in t + 1 .. k + 1 PROVE \E i \in 1 .. n + 1 : inbox'[i] = Chunk(p, m)
    <3>1. CASE m = k + 1
      <4>1. n + 1 \in 1 .. n + 1
        OBVIOUS
      <4> QED
        BY <1>3, <3>1, <4>1, Zenon
    <3>2. CASE m # k + 1
      <4>1. m \in t + 1 .. k
        BY <2>2, <3>2
      <4>2. PICK i \in 1 .. n : inbox[i] = Chunk(p, m)
        BY <1>2, <1>3, <1>10, <2>1, <4>1, Zenon DEF Streams
      <4>3. i \in 1 .. n + 1 /\ inbox'[i] = Chunk(p, m)
        BY <1>3, <4>2
      <4> QED
        BY <4>3, Zenon
    <3> QED
      BY <3>1, <3>2, Zenon
  <2>5. t <= k + 1
    BY <2>2
  <2>6. /\ \A i \in 1 .. Len(deltas'[p]) : deltas'[p][i] = i
        /\ \A i \in 1 .. Len(deltaCh'[p]) : deltaCh'[p][i] = Len(deltas'[p]) + i
    BY <1>1, <1>10, Zenon DEF Streams
  <2> QED
    BY <1>1, <1>2, <1>3, <1>6, <2>1, <2>3, <2>4, <2>5, <2>6, Zenon DEF Streams
<1> QED
  BY <1>1, <1>6, <1>9, <1>10, Zenon DEF TextInv

\* The agent sends a line.
LEMMA TextEmit ==
  ASSUME TypeOK, AcpInv, NEW c \in Calls,
         \/ \E b \in Bodies : AgentReplies(c, b)
         \/ c \in Prompts /\ (AgentStreams(c) \/ \E b \in Asks : AgentAsks(c, b)),
         NEW p \in Prompts, OrderInv(p), TextInv(p)
  PROVE  OrderInv(p)' /\ TextInv(p)'
<1>1. CASE AgentStreams(c) /\ c = p
  BY <1>1, ChunkAdded, Zenon
<1>2. CASE ~(AgentStreams(c) /\ c = p)
  <2>1. PICK l \in Lines : Emit(l) /\ ~(l.type = "chunk" /\ l.call = p)
    <3>1. ASSUME NEW b \in Bodies, AgentReplies(c, b)
          PROVE  Reply(c, b) \in Lines /\ Emit(Reply(c, b)) /\ Reply(c, b).type # "chunk"
      BY <3>1, LinesMade, Zenon DEF AgentReplies
    <3>2. ASSUME c \in Prompts, NEW b \in Asks, AgentAsks(c, b)
          PROVE  Ask(c, b) \in Lines /\ Emit(Ask(c, b)) /\ Ask(c, b).type # "chunk"
      BY <3>2, LinesMade, Zenon DEF AgentAsks
    <3>3. ASSUME c \in Prompts, AgentStreams(c)
          PROVE  \E m : Chunk(c, m) \in Lines /\ Emit(Chunk(c, m)) /\ Chunk(c, m).call # p
      <4>1. c # p /\ Emit(Chunk(c, chunks[c] + 1)) /\ chunks[c] + 1 \in 1 .. MaxChunks
        BY <1>2, <3>3, AcpAssumption DEF AgentStreams, TypeOK
      <4>2. Chunk(c, chunks[c] + 1) \in Lines /\ Chunk(c, chunks[c] + 1).call = c
        BY <3>3, <4>1, LinesMade, Zenon
      <4> QED
        BY <4>1, <4>2, Zenon
    <3> QED
      BY <3>1, <3>2, <3>3, Zenon
  <2>2. inbox' = Append(inbox, l) /\ UNCHANGED <<deltas, deltaCh, replyCh, dropped, pc, ret>>
    BY <2>1, Zenon DEF Emit, connVars, readVars, mapVars, chanVars, callVars
  <2>3. chunks'[p] = chunks[p]
    BY <1>2, Zenon DEF AgentReplies, AgentStreams, AgentAsks, TypeOK
  <2>4. p \in Calls /\ replies' \in [Calls -> Nat] /\ replies'[p] >= replies[p] /\ replies[p] \in Nat
    <3>1. p \in Calls /\ replies \in [Calls -> Nat]
      BY Zenon DEF Calls, AcpInv, Shapes
    <3>2. replies' = replies \/ replies' = [replies EXCEPT ![c] = @ + 1]
      BY Zenon DEF AgentReplies, AgentStreams, AgentAsks
    <3> QED
      BY <3>1, <3>2
  <2>5. OrderInv(p)' /\ (Streams(p) => Streams(p)')
    BY <2>1, <2>2, <2>3, LineAdded, Zenon
  <2>6. replies[p] > 0 => replies'[p] > 0
    BY <2>4
  <2> QED
    BY <2>2, <2>3, <2>5, <2>6, Zenon DEF TextInv
<1> QED
  BY <1>1, <1>2, Zenon

\* What the chunks of every prompt obey.
TextsInv == \A p \in Prompts : OrderInv(p) /\ TextInv(p)

LEMMA TextStep == TypeOK /\ AcpInv /\ TextsInv /\ [Next]_vars => TextsInv'
<1> SUFFICES ASSUME TypeOK, AcpInv, TextsInv, [Next]_vars, NEW p \in Prompts PROVE OrderInv(p)' /\ TextInv(p)'
  BY Zenon DEF TextsInv
<1>0. Prompts \subseteq Calls /\ Plain \subseteq Calls /\ OrderInv(p) /\ TextInv(p)
  BY Zenon DEF Calls, TextsInv
<1>1. CASE UNCHANGED vars
  <2>1. UNCHANGED <<deltas, deltaCh, replyCh, chunks, inbox, dropped, pc, ret, replies>>
    BY <1>1, Zenon DEF vars, connVars, readVars, mapVars, chanVars, callVars, agentVars
  <2> QED
    BY <1>0, <2>1, TextFrame, OrderFrame, Zenon
<1>2. CASE Reader \/ SkipLine \/ LineTooLong
  BY <1>0, <1>2, TextOthers, TextLine, Zenon DEF Reader, ScanFails, LineTooLong
<1>3. CASE Agent
  BY <1>0, <1>3, TextOthers, TextEmit, Zenon DEF Agent
<1>4. CASE Connect \/ Close
  BY <1>0, <1>4, TextOthers, Zenon
<1>5. ASSUME NEW c \in Calls, StoreReply(c) \/ Send(c) \/ CtxReturns(c) \/ CtxEnds(c) PROVE OrderInv(p)' /\ TextInv(p)'
  BY <1>0, <1>5, TextOthers, TextEnd, Zenon DEF Send, Ends
<1>6. ASSUME NEW c \in Plain, CallReply(c) PROVE OrderInv(p)' /\ TextInv(p)'
  BY <1>0, <1>6, TextEnd, Zenon DEF Ends
<1>7. ASSUME NEW q \in Prompts, PromptStep(q) PROVE OrderInv(p)' /\ TextInv(p)'
  BY <1>0, <1>7, TextOthers, TextTake, TextEnd, Zenon DEF PromptStep, Ends
<1> QED
  BY <1>1, <1>2, <1>3, <1>4, <1>5, <1>6, <1>7, Zenon DEF Next

\* The text that Prompt returns is every chunk the agent streamed before its
\* reply, in their order, for any number of prompts that share the connection,
\* unless a chunk met a full channel and was dropped (client.go:141-153, :345-349).
THEOREM TextWhole == Spec => []TextIsWhole
<1>1. Init => TextsInv
  <2> SUFFICES ASSUME Init, NEW p \in Prompts PROVE OrderInv(p) /\ TextInv(p)
    BY Zenon DEF TextsInv
  <2>1. p \in Calls /\ inbox = <<>> /\ Len(<<>>) = 0 /\ 1 .. 0 = {}
    BY NoElements DEF Init, Calls
  <2>2. deltas[p] = <<>> /\ deltaCh[p] = <<>> /\ chunks[p] = 0 /\ replyCh[p] = "none" /\ ret[p] = "none" /\ pc[p] = "idle"
    BY <2>1, Zenon DEF Init
  <2>3. OrderInv(p)
    BY <2>1, Zenon DEF OrderInv
  <2>4. Taken(p) = 0
    BY <2>1, <2>2 DEF Taken
  <2>5. Streams(p)
    <3>1. replyCh[p] \notin Bodies
      BY <2>2, Zenon DEF Bodies
    <3>2. \A m \in Taken(p) + 1 .. chunks[p] : FALSE
      BY <2>2, <2>4
    <3>3. Taken(p) <= chunks[p]
      BY <2>2, <2>4
    <3> QED
      BY <2>1, <2>2, <3>1, <3>2, <3>3, Zenon DEF Streams
  <2> QED
    BY <2>2, <2>3, <2>5, Zenon DEF TextInv
<1>2. TextsInv => TextIsWhole
  BY Zenon DEF TextsInv, TextInv, TextIsWhole
<1> QED
  BY <1>1, <1>2, AcpInit, AcpStep, AcpTypes, TextStep, PTL DEF Spec
============================================================================
