------------------------------ MODULE Registry ------------------------------
(***************************************************************************)
(* internal/registry/dynamic.go: agents put their card into a JetStream KV *)
(* bucket whose entries expire, and a DynamicRegistry keeps a cache of the *)
(* bucket: one pass over the keys when it is made, then a watcher that is  *)
(* restarted with a growing pause.  Lookups read the cache and a registry  *)
(* file.  The KV bucket itself (Put, Delete, expiry, WatchAll) is external *)
(* and has the guarantees the code relies on.                              *)
(***************************************************************************)
EXTENDS Routing, FiniteSets, FiniteSetsExt, TLC

CONSTANTS Names,      \* agents: positive numbers, in alphabetical order
          Files,      \* the registry files to load, <<>> for no path
          Requests,   \* routing requests
          MaxUpdates  \* bound: updates under way to the watcher

ASSUME RegistryAssumption ==
  /\ IsFiniteSet(Names) /\ Names \subseteq Nat \ {noAgent}
  /\ Cards \cap {"bad", "deleted", "absent", "none"} = {}
  /\ Files \subseteq Seq([name : Nat \ {noAgent}, card : Cards, subject : STRING, complete : BOOLEAN])
  /\ Requests \subseteq [skill : STRING, tags : Seq(STRING), runtime : STRING]

VARIABLES
  kv,        \* per name: a card, "bad" (does not parse), "deleted" or "absent"
  expired,   \* the names whose last entry or marker has expired
  call,      \* per agent: its running Register or Deregister, "none" if none
  orphans,   \* puts and deletes whose caller has returned on its context
  asked,     \* per agent: what the last call put, "absent" at first
  astray,    \* agents that had a call end by its context or with an error
  file,      \* the registry file
  watcher,   \* where NewDynamicRegistry, and then watch, is
  keys,      \* keys the first pass has still to get
  updates,   \* the watcher's channel
  backoff,   \* the next pause, in seconds
  stopped,   \* Close was called
  agents     \* the cache: per name a card or "none"

kvVars == <<kv, expired>>
callVars == <<call, orphans, asked, astray>>
registryVars == <<kvVars, callVars, file, watcher, keys, updates, backoff, stopped, agents>>

initialBackoff == 1
maxBackoff == 30

RegistryInit ==
  /\ kv \in [Names -> Cards \cup {"absent"}]
  /\ expired = {}
  /\ call = [n \in Names |-> "none"]
  /\ orphans = {}
  /\ asked = kv
  /\ astray = {}
  /\ file \in Files
  /\ watcher = "new"
  /\ keys = {}
  /\ updates = <<>>
  /\ backoff = initialBackoff
  /\ stopped = FALSE
  /\ agents = [n \in Names |-> "none"]

----------------------------------------------------------------------------
(* Register and Deregister, called by the agents                           *)

\* A put or delete reaches the bucket; a running watcher is told.
Write(n, v) ==
  /\ Len(updates) < MaxUpdates
  /\ kv' = [kv EXCEPT ![n] = v]
  /\ expired' = expired \ {n}
  /\ updates' = IF watcher = "up" THEN Append(updates, [key |-> n, val |-> v]) ELSE updates

\* Register(n, c) or Deregister(n): a goroutine starts the put or the delete.
StartCall(n, v) ==
  /\ call[n] = "none"
  /\ call' = [call EXCEPT ![n] = v]
  /\ asked' = [asked EXCEPT ![n] = v]
  /\ UNCHANGED <<kvVars, orphans, astray, file, watcher, keys, updates, backoff, stopped, agents>>

Register(n, c) == StartCall(n, c)
Deregister(n) == StartCall(n, "deleted")

\* Slip: the call returns nil while its put is still under way.
CallLandsLater(n) ==
  /\ call[n] # "none"
  /\ orphans' = orphans \cup {[key |-> n, val |-> call[n]]}
  /\ call' = [call EXCEPT ![n] = "none"]
  /\ UNCHANGED <<kvVars, asked, astray, file, watcher, keys, updates, backoff, stopped, agents>>

\* The result comes back: the call returns nil.
CallLands(n) ==
  /\ call[n] # "none"
  /\ Write(n, call[n])
  /\ call' = [call EXCEPT ![n] = "none"]
  /\ UNCHANGED <<orphans, asked, astray, file, watcher, keys, backoff, stopped, agents>>

\* An error comes back, and the put is lost; or the context is done first, and
\* the put goes on without its caller.
CallFails(n) ==
  /\ call[n] # "none"
  /\ orphans' \in {orphans, orphans \cup {[key |-> n, val |-> call[n]]}}
  /\ astray' = astray \cup {n}
  /\ call' = [call EXCEPT ![n] = "none"]
  /\ UNCHANGED <<kvVars, asked, file, watcher, keys, updates, backoff, stopped, agents>>

\* A put without a caller lands, or is lost.
OrphanEnds(o) ==
  /\ o \in orphans
  /\ orphans' = orphans \ {o}
  /\ Write(o.key, o.val) \/ UNCHANGED <<kvVars, updates>>
  /\ UNCHANGED <<call, asked, astray, file, watcher, keys, backoff, stopped, agents>>

\* Another client of the bucket writes a value that is not a card.
ForeignPut(n) ==
  /\ Write(n, "bad")
  /\ astray' = astray \cup {n}
  /\ UNCHANGED <<call, orphans, asked, file, watcher, keys, backoff, stopped, agents>>

\* The bucket drops an entry, or the marker of a delete, that was not renewed
\* within its TTL.  The watcher is not told.
Expire(n) ==
  /\ kv[n] # "absent"
  /\ kv' = [kv EXCEPT ![n] = "absent"]
  /\ expired' = expired \cup {n}
  /\ UNCHANGED <<callVars, file, watcher, keys, updates, backoff, stopped, agents>>

----------------------------------------------------------------------------
(* NewDynamicRegistry                                                      *)

Live == {n \in Names : kv[n] \notin {"absent", "deleted"}}

\* The file is loaded and the keys are listed; an error in one of them is
\* returned.
ListKeys ==
  /\ watcher = "new"
  /\ \/ ~validate(file) /\ watcher' = "failed" /\ UNCHANGED keys
     \/ validate(file) /\ watcher' = "sync" /\ keys' = Live
     \/ validate(file) /\ watcher' = "failed" /\ UNCHANGED keys
  /\ UNCHANGED <<kvVars, callVars, file, updates, backoff, stopped, agents>>

\* One key is got; a key that is gone, does not parse or cannot be got is
\* passed over.
GetKey(n) ==
  /\ watcher = "sync" /\ n \in keys
  /\ keys' = keys \ {n}
  /\ agents' \in {agents} \cup {[agents EXCEPT ![n] = c] : c \in Cards \cap {kv[n]}}
  /\ UNCHANGED <<kvVars, callVars, file, watcher, updates, backoff, stopped>>

StartWatch ==
  /\ watcher = "sync" /\ keys = {}
  /\ watcher' = "top"
  /\ UNCHANGED <<kvVars, callVars, file, keys, updates, backoff, stopped, agents>>

----------------------------------------------------------------------------
(* watch and runWatcher                                                    *)

\* The elements of a set, one after the other.
Orders(S) == Bijection(1 .. Cardinality(S), S)

\* WatchAll: the watcher first gets the last entry, or marker, of every key.
WatchAll ==
  /\ watcher = "top" /\ ~stopped
  /\ watcher' = "up"
  /\ updates' \in Orders({[key |-> n, val |-> kv[n]] : n \in {m \in Names : kv[m] # "absent"}})
  /\ UNCHANGED <<kvVars, callVars, file, keys, backoff, stopped, agents>>

\* runWatcher returns an error.  The backoff starts again when the watcher had
\* run for a minute.
RunWatcherFails(reset) ==
  /\ watcher' = "wait"
  /\ updates' = <<>>
  /\ backoff' = IF reset THEN initialBackoff ELSE backoff
  /\ UNCHANGED <<kvVars, callVars, file, keys, stopped, agents>>

WatchAllFails == watcher = "top" /\ ~stopped /\ RunWatcherFails(FALSE)
WatcherLost == watcher = "up" /\ \E reset \in BOOLEAN : RunWatcherFails(reset)

\* Slip: a delete marker is passed over.
ApplyPuts ==
  /\ watcher = "up" /\ updates # <<>>
  /\ LET u == Head(updates) IN
     agents' = IF u.val \in Cards THEN [agents EXCEPT ![u.key] = u.val] ELSE agents
  /\ updates' = Tail(updates)
  /\ UNCHANGED <<kvVars, callVars, file, watcher, keys, backoff, stopped>>

\* One update: a put that parses is cached, a delete removes the entry, and a
\* put that does not parse leaves what was there.
Apply ==
  /\ watcher = "up" /\ updates # <<>>
  /\ LET u == Head(updates) IN
     agents' = CASE u.val \in Cards -> [agents EXCEPT ![u.key] = u.val]
                 [] u.val = "deleted" -> [agents EXCEPT ![u.key] = "none"]
                 [] OTHER -> agents
  /\ updates' = Tail(updates)
  /\ UNCHANGED <<kvVars, callVars, file, watcher, keys, backoff, stopped>>

\* Slip: after a failure watch returns.
PauseEndsForGood ==
  /\ watcher = "wait" /\ ~stopped
  /\ watcher' = "ended"
  /\ UNCHANGED <<kvVars, callVars, file, keys, updates, backoff, stopped, agents>>

\* The pause is over.  The comparison comes before the doubling, so the last
\* value is above maxBackoff.
PauseEnds ==
  /\ watcher = "wait" /\ ~stopped
  /\ watcher' = "top"
  /\ backoff' = IF backoff < maxBackoff THEN backoff * 2 ELSE backoff
  /\ UNCHANGED <<kvVars, callVars, file, keys, updates, stopped, agents>>

\* The context of the watcher is looked at in all three places.
WatchEnds ==
  /\ stopped /\ watcher \in {"top", "up", "wait"}
  /\ watcher' = "ended"
  /\ updates' = <<>>
  /\ UNCHANGED <<kvVars, callVars, file, keys, backoff, stopped, agents>>

Close ==
  /\ ~stopped /\ watcher \in {"top", "up", "wait"}
  /\ stopped' = TRUE
  /\ UNCHANGED <<kvVars, callVars, file, watcher, keys, updates, backoff, agents>>

RegistryNext ==
  \/ ListKeys \/ StartWatch \/ WatchAll \/ WatchAllFails \/ WatcherLost \/ Apply
  \/ PauseEnds \/ WatchEnds \/ Close
  \/ \E n \in Names :
       \/ \E c \in Cards : Register(n, c)
       \/ Deregister(n) \/ CallLands(n) \/ CallFails(n) \/ ForeignPut(n) \/ Expire(n) \/ GetKey(n)
  \/ \E o \in orphans : OrphanEnds(o)

RegistrySpec == RegistryInit /\ [][RegistryNext]_registryVars

----------------------------------------------------------------------------
(* The lookups: over the cache, then the file                              *)

fallback == IF watcher \in {"new", "failed"} THEN <<>> ELSE file

Entry(n, c) == [name |-> n, card |-> c]

\* All: the cache, and the entries of the file whose names are not in it,
\* sorted by name.
All ==
  LET shown == {Entry(n, agents[n]) : n \in {m \in Names : agents[m] # "none"}}
               \cup {Entry(e.name, e.card) :
                       e \in {f \in Range(fallback) : f.name \notin Names \/ agents[f.name] = "none"}}
      names == {e.name : e \in shown}
  IN [k \in 1 .. Cardinality(shown) |-> CHOOSE e \in shown : e.name = Nth(names, k)]

\* FindByName: the card, or "none".
FindByName(n) ==
  IF n \in Names /\ agents[n] # "none" THEN agents[n]
  ELSE LET hits == {i \in DOMAIN fallback : fallback[i].name = n} IN
       IF hits = {} THEN "none" ELSE fallback[Min(hits)].card

----------------------------------------------------------------------------
(* Properties                                                              *)

RegistryTypeOK ==
  /\ kv \in [Names -> Cards \cup {"bad", "deleted", "absent"}]
  /\ expired \subseteq Names
  /\ call \in [Names -> Cards \cup {"deleted", "none"}]
  /\ orphans \subseteq [key : Names, val : Cards \cup {"deleted"}]
  /\ asked \in [Names -> Cards \cup {"deleted", "absent"}]
  /\ astray \subseteq Names
  /\ watcher \in {"new", "failed", "sync", "top", "up", "wait", "ended"}
  /\ keys \subseteq Names
  /\ updates \in Seq([key : Names, val : Cards \cup {"bad", "deleted"}])
  /\ backoff \in {1, 2, 4, 8, 16, 32}
  /\ stopped \in BOOLEAN
  /\ agents \in [Names -> Cards \cup {"none"}]

\* A running watcher that has no update of a name left shows what the bucket
\* says of it, although the first pass, the replays and the puts run at the
\* same time (dynamic.go:88-112, :154-195).  What has expired, and what does
\* not parse, is excepted: no update tells of it.
CacheFollows ==
  watcher = "up" =>
    \A n \in Names :
      (\A i \in DOMAIN updates : updates[i].key # n) =>
        /\ kv[n] \in Cards => agents[n] = kv[n]
        /\ kv[n] = "deleted" => agents[n] = "none"
        /\ kv[n] = "absent" /\ n \notin expired => agents[n] = "none"

\* An agent whose calls all returned nil finds in the bucket what it asked for
\* last: a call that returns nil leaves no put behind to overtake the next one
\* (dynamic.go:212-224).
LastCallWins ==
  \A n \in Names : n \notin astray /\ call[n] = "none" /\ n \notin expired => kv[n] = asked[n]

\* The lookups agree.  Every known name is listed once, in order, with the card
\* FindByName has for it (dynamic.go:293, :338).  RouteByScore sends a request
\* to an agent of the highest score, to the first by name among equals, and to
\* none when no agent scores (dynamic.go:317); so a request for one skill goes
\* where Route sends it, and one for one tag to the first agent of FindByTag.
LookupsAgree ==
  /\ \A i, j \in DOMAIN All : i < j => All[i].name < All[j].name
  /\ \A n \in Names \cup {e.name : e \in Range(file)} : FindByName(n) # "none" <=> \E i \in DOMAIN All : All[i].name = n
  /\ \A i \in DOMAIN All : All[i].card = FindByName(All[i].name)
  /\ \A req \in Requests :
       LET to == RouteByScore(All, req)
           best == {e \in Range(All) : /\ Score(e.card, req) > 0
                                       /\ \A f \in Range(All) : Score(f.card, req) <= Score(e.card, req)}
       IN /\ to = IF best = {} THEN noAgent ELSE Min({e.name : e \in best})
          /\ req.skill # "" /\ req.tags = <<>> /\ req.runtime = "" => to = Route(All, req.skill)
          /\ req.skill = "" /\ req.runtime = "" /\ Len(req.tags) = 1 => to = First(FindByTag(All, req.tags[1]))

\* The cache comes to show a card that stays in the bucket, and loses an agent
\* whose delete marker stays, provided the watcher is in the end not lost any
\* more and Close is not called (dynamic.go:118-150).
CacheConverges ==
  (<>[](watcher # "failed" /\ ~stopped) /\ <>[][~WatcherLost]_registryVars) =>
    \A n \in Names :
      /\ \A c \in Cards : <>[](kv[n] = c) => <>[](agents[n] = c)
      /\ <>[](kv[n] = "deleted") => <>[](agents[n] = "none")
============================================================================
