--------------------------- MODULE RegistryProofs ---------------------------
(***************************************************************************)
(* The dynamic registry's cache and its lookups, for any number of agents, *)
(* files and requests.  The lookups rest on the lemmas of LibraryProofs    *)
(* about lists and loops.                                                  *)
(***************************************************************************)
EXTENDS Registry, LibraryProofs

----------------------------------------------------------------------------
(* The registry                                                            *)

Update == [key : Names, val : Cards \cup {"bad", "deleted"}]

\* What Head and Tail do to a channel that is not empty.
LEMMA Taking ==
  ASSUME NEW S, NEW s \in Seq(S), s # <<>>
  PROVE  /\ Head(s) \in S /\ Head(s) = s[1]
         /\ Tail(s) \in Seq(S) /\ Len(s) \in Nat \ {0} /\ Len(Tail(s)) = Len(s) - 1
         /\ \A i \in 1 .. Len(s) - 1 : Tail(s)[i] = s[i + 1]
BY HeadTailProperties, ElementOfSeq, EmptySeq, LenProperties

\* The replay of WatchAll has one update for every key with an entry or marker.
LEMMA Replay ==
  ASSUME RegistryTypeOK, WatchAll
  PROVE  /\ updates' \in Seq(Update)
         /\ \A i \in DOMAIN updates' : updates'[i].val = kv[updates'[i].key] /\ kv[updates'[i].key] # "absent"
         /\ \A n \in Names : kv[n] # "absent" => \E i \in DOMAIN updates' : updates'[i].key = n
<1> DEFINE M == {m \in Names : kv[m] # "absent"}
           S == {[key |-> n, val |-> kv[n]] : n \in M}
<1>1. S \subseteq Update
  BY DEF RegistryTypeOK, Update
<1>2. IsFiniteSet(S)
  <2>1. IsFiniteSet(M)
    BY RegistryAssumption, FS_Subset, Zenon
  <2>2. [n \in M |-> [key |-> n, val |-> kv[n]]] \in Surjection(M, S)
    BY Zenon DEF Surjection
  <2> QED
    BY <2>1, <2>2, FS_Surjection, Zenon
<1>3. PICK c \in Nat : c = Cardinality(S)
  BY <1>2, FS_CardinalityType, Zenon
<1>4. updates' \in [1 .. c -> S] /\ \A u \in S : \E i \in 1 .. c : updates'[i] = u
  <2>1. PICK T : T = S
    BY Zenon
  <2>2. updates' \in Bijection(1 .. c, T)
    BY <1>3, <2>1, Zenon DEF WatchAll, Orders
  <2>3. updates' \in [1 .. c -> T] /\ \A u \in T : \E i \in 1 .. c : updates'[i] = u
    BY <2>2, Zenon DEF Bijection, Injection, Surjection
  <2> QED
    BY <2>1, <2>3, Zenon
<1>5. DOMAIN updates' = 1 .. c /\ updates' \in Seq(Update)
  <2>1. updates' \in [1 .. c -> Update]
    BY <1>1, <1>4, Zenon
  <2> QED
    BY <2>1, SeqDef, Zenon
<1>6. ASSUME NEW i \in DOMAIN updates'
      PROVE  updates'[i].val = kv[updates'[i].key] /\ kv[updates'[i].key] # "absent"
  BY <1>4, <1>5
<1>7. ASSUME NEW n \in Names, kv[n] # "absent" PROVE \E i \in DOMAIN updates' : updates'[i].key = n
  <2>1. [key |-> n, val |-> kv[n]] \in S
    BY <1>7, Zenon
  <2>2. PICK i \in 1 .. c : updates'[i] = [key |-> n, val |-> kv[n]]
    BY <1>4, <2>1, Zenon
  <2>3. updates'[i].key = n
    BY <2>2
  <2> QED
    BY <1>5, <2>3, Zenon
<1> QED
  BY <1>5, <1>6, <1>7, Zenon

\* Every step of the registry keeps the types.
LEMMA RegistryTypeStep == RegistryTypeOK /\ [RegistryNext]_registryVars => RegistryTypeOK'
<1> SUFFICES ASSUME RegistryTypeOK, [RegistryNext]_registryVars PROVE RegistryTypeOK'
  BY Zenon
<1> USE DEF kvVars, callVars
<1>0. updates \in Seq(Update)
  BY Zenon DEF RegistryTypeOK, Update
<1>1. CASE UNCHANGED registryVars
  BY <1>1, Zenon DEF registryVars, RegistryTypeOK
<1>2. ASSUME NEW n \in Names, NEW v \in Cards \cup {"bad", "deleted"}, Write(n, v)
      PROVE  /\ kv' \in [Names -> Cards \cup {"bad", "deleted", "absent"}]
             /\ expired' \subseteq Names /\ updates' \in Seq(Update)
  <2>1. [key |-> n, val |-> v] \in Update
    BY Zenon DEF Update
  <2>2. updates' \in Seq(Update)
    BY <1>0, <1>2, <2>1, AppendProperties, Zenon DEF Write
  <2> QED
    BY <1>2, <2>2, Zenon DEF Write, RegistryTypeOK
<1>3. ASSUME NEW n \in Names, NEW v \in Cards \cup {"deleted"}, StartCall(n, v) PROVE RegistryTypeOK'
  BY <1>3, Zenon DEF StartCall, RegistryTypeOK
<1>4. ASSUME NEW n \in Names, CallLands(n) PROVE RegistryTypeOK'
  <2>1. call[n] \in Cards \cup {"deleted"} /\ Write(n, call[n])
    BY <1>4 DEF CallLands, RegistryTypeOK
  <2>2. call' \in [Names -> Cards \cup {"deleted", "none"}]
    BY <1>4, Zenon DEF CallLands, RegistryTypeOK
  <2> QED
    BY <1>2, <1>4, <2>1, <2>2, Zenon DEF CallLands, RegistryTypeOK, Update
<1>5. ASSUME NEW n \in Names, CallFails(n) PROVE RegistryTypeOK'
  BY <1>5 DEF CallFails, RegistryTypeOK
<1>6. ASSUME NEW n \in Names, ForeignPut(n) PROVE RegistryTypeOK'
  BY <1>2, <1>6, Zenon DEF ForeignPut, RegistryTypeOK, Update
<1>7. ASSUME NEW n \in Names, Expire(n) PROVE RegistryTypeOK'
  BY <1>7, Zenon DEF Expire, RegistryTypeOK
<1>8. ASSUME NEW n \in Names, GetKey(n) PROVE RegistryTypeOK'
  BY <1>8 DEF GetKey, RegistryTypeOK
<1>9. ASSUME NEW o \in orphans, OrphanEnds(o) PROVE RegistryTypeOK'
  <2>1. o.key \in Names /\ o.val \in Cards \cup {"deleted"}
    BY Zenon DEF RegistryTypeOK
  <2>2. CASE Write(o.key, o.val)
    BY <1>2, <1>9, <2>1, <2>2, Zenon DEF OrphanEnds, RegistryTypeOK, Update
  <2>3. CASE UNCHANGED <<kvVars, updates>>
    BY <1>9, <2>3 DEF OrphanEnds, RegistryTypeOK
  <2> QED
    BY <1>9, <2>2, <2>3 DEF OrphanEnds
<1>10. CASE ListKeys \/ StartWatch \/ Close
  BY <1>10, Zenon DEF ListKeys, StartWatch, Close, Live, RegistryTypeOK
<1>11. CASE WatchAll
  BY <1>11, Replay, Zenon DEF WatchAll, RegistryTypeOK, Update
<1>12. CASE WatchAllFails \/ WatcherLost \/ WatchEnds
  BY <1>12, EmptySeq, Zenon DEF WatchAllFails, WatcherLost, WatchEnds, RunWatcherFails, initialBackoff, RegistryTypeOK
<1>13. CASE Apply
  <2>1. Head(updates) \in Update /\ updates' \in Seq(Update)
    BY <1>0, <1>13, Taking, Zenon DEF Apply
  <2>2. agents' \in [Names -> Cards \cup {"none"}]
    BY <1>13, <2>1 DEF Apply, Update, RegistryTypeOK
  <2> QED
    BY <1>13, <2>1, <2>2, Zenon DEF Apply, RegistryTypeOK, Update
<1>14. CASE PauseEnds
  <2>1. backoff' \in {1, 2, 4, 8, 16, 32}
    BY <1>14 DEF PauseEnds, maxBackoff, RegistryTypeOK
  <2> QED
    BY <1>14, <2>1 DEF PauseEnds, RegistryTypeOK
<1> QED
  BY <1>1, <1>3, <1>4, <1>5, <1>6, <1>7, <1>8, <1>9, <1>10, <1>11, <1>12, <1>13, <1>14, Zenon
  DEF RegistryNext, Register, Deregister

\* The registry's variables keep their types, for any agents; the pause of the
\* watcher is a power of two up to 32 seconds (dynamic.go:118-150).
THEOREM RegistryTypes == RegistrySpec => []RegistryTypeOK
<1>1. RegistryInit => RegistryTypeOK
  BY EmptySeq, Zenon DEF RegistryInit, RegistryTypeOK, initialBackoff
<1> QED
  BY <1>1, RegistryTypeStep, PTL DEF RegistrySpec

\* No update of n is under way; i is the last one of n.
Untold(n) == \A i \in DOMAIN updates : updates[i].key # n
LastOf(n, i) == updates[i].key = n /\ \A j \in DOMAIN updates : j > i => updates[j].key # n

\* What the bucket, the channel and the cache say of n.  An entry that is absent
\* and has not expired was never written.
CacheInv(n) ==
  /\ n \in expired => kv[n] = "absent"
  /\ kv[n] = "absent" /\ n \notin expired => agents[n] = "none" /\ Untold(n)
  /\ watcher = "up" /\ n \notin expired => \A i \in DOMAIN updates : LastOf(n, i) => updates[i].val = kv[n]
  /\ watcher = "up" /\ Untold(n) =>
       (kv[n] \in Cards => agents[n] = kv[n]) /\ (kv[n] = "deleted" => agents[n] = "none")

\* A step that leaves alone what CacheInv is about.
LEMMA CacheFrame ==
  ASSUME NEW n \in Names, CacheInv(n), kv'[n] = kv[n], n \in expired' <=> n \in expired,
         agents'[n] = agents[n], updates' = updates \/ updates' = <<>>, watcher' = "up" => watcher = "up" /\ updates' = updates
  PROVE  CacheInv(n)'
<1>1. DOMAIN <<>> = {}
  BY EmptySeq
<1>2. CASE updates' = updates
  BY <1>2, Zenon DEF CacheInv, Untold, LastOf
<1>3. CASE updates' = <<>>
  BY <1>1, <1>3, Zenon DEF CacheInv, Untold, LastOf
<1> QED
  BY <1>2, <1>3, Zenon

\* A put or a delete reaches the bucket.
LEMMA CacheWrite ==
  ASSUME RegistryTypeOK, NEW k \in Names, NEW v \in Cards \cup {"bad", "deleted"}, Write(k, v),
         UNCHANGED <<watcher, agents>>, NEW n \in Names, CacheInv(n)
  PROVE  CacheInv(n)'
<1>0. v # "absent" /\ k \notin expired' /\ kv'[k] = v
  BY RegistryAssumption, Zenon DEF Write, RegistryTypeOK
<1>1. CASE watcher # "up" /\ n # k
  BY <1>1, CacheFrame DEF Write, RegistryTypeOK
<1>2. CASE watcher # "up" /\ n = k
  BY <1>0, <1>2, Zenon DEF CacheInv
<1>3. CASE watcher = "up"
  <2>1. PICK c \in Nat :
          /\ DOMAIN updates = 1 .. c /\ DOMAIN updates' = 1 .. c + 1
          /\ updates'[c + 1] = [key |-> k, val |-> v] /\ \A i \in 1 .. c : updates'[i] = updates[i]
    <3>1. updates \in Seq(Update) /\ [key |-> k, val |-> v] \in Update
      BY Zenon DEF RegistryTypeOK, Update
    <3>2. updates' = Append(updates, [key |-> k, val |-> v])
      BY <1>3, Zenon DEF Write
    <3> QED
      BY <3>1, <3>2, AppendProperties, LenProperties
  <2>2. updates'[c + 1].key = k /\ updates'[c + 1].val = v /\ c + 1 \in DOMAIN updates'
    BY <2>1
  <2>3. CASE n = k
    <3>1. ~Untold(n)'
      BY <2>2, <2>3, Zenon DEF Untold
    <3>2. ASSUME NEW i \in DOMAIN updates', LastOf(n, i)' PROVE updates'[i].val = kv'[n]
      <4>1. i = c + 1
        BY <2>1, <2>2, <2>3, <3>2 DEF LastOf
      <4> QED
        BY <1>0, <2>2, <2>3, <4>1, Zenon
    <3> QED
      BY <1>0, <2>3, <3>1, <3>2, Zenon DEF CacheInv
  <2>4. CASE n # k
    <3>1. kv'[n] = kv[n] /\ (n \in expired' <=> n \in expired)
      BY <2>4, Zenon DEF Write, RegistryTypeOK
    <3>2. Untold(n)' <=> Untold(n)
      BY <2>1, <2>2, <2>4 DEF Untold
    <3>3. ASSUME NEW i \in DOMAIN updates', LastOf(n, i)'
          PROVE  i \in DOMAIN updates /\ LastOf(n, i) /\ updates'[i] = updates[i]
      <4>1. i \in 1 .. c
        BY <2>1, <2>2, <2>4, <3>3 DEF LastOf
      <4> QED
        BY <2>1, <3>3, <4>1 DEF LastOf
    <3> QED
      BY <3>1, <3>2, <3>3 DEF CacheInv
  <2> QED
    BY <2>3, <2>4, Zenon
<1> QED
  BY <1>1, <1>2, <1>3, Zenon

\* runWatcher applies the first update under way.
LEMMA CacheApply ==
  ASSUME RegistryTypeOK, Apply, NEW n \in Names, CacheInv(n) PROVE CacheInv(n)'
<1>1. updates \in Seq(Update) /\ updates # <<>> /\ updates' = Tail(updates) /\ watcher = "up"
      /\ kv' = kv /\ expired' = expired /\ watcher' = "up"
  BY Zenon DEF Apply, RegistryTypeOK, Update, kvVars
<1>2. PICK c \in Nat \ {0} :
        /\ DOMAIN updates = 1 .. c /\ DOMAIN updates' = 1 .. c - 1 /\ \A i \in 1 .. c - 1 : updates'[i] = updates[i + 1]
        /\ Head(updates) = updates[1] /\ updates[1] \in Update
  BY <1>1, Taking, LenProperties
<1>3. PICK k \in Names, v \in Cards \cup {"bad", "deleted"} : k = updates[1].key /\ v = updates[1].val
  BY <1>2, Zenon DEF Update
<1>4. /\ agents' = CASE v \in Cards -> [agents EXCEPT ![k] = v] [] v = "deleted" -> [agents EXCEPT ![k] = "none"] [] OTHER -> agents
      /\ agents \in [Names -> Cards \cup {"none"}]
  BY <1>2, <1>3, Zenon DEF Apply, RegistryTypeOK
<1>5. Untold(n) => Untold(n)'
  BY <1>2 DEF Untold
<1>6. ASSUME NEW i \in DOMAIN updates', LastOf(n, i)'
      PROVE  i + 1 \in DOMAIN updates /\ LastOf(n, i + 1) /\ updates'[i] = updates[i + 1]
  <2>1. i \in 1 .. c - 1 /\ i + 1 \in 1 .. c /\ updates'[i] = updates[i + 1]
    BY <1>2
  <2>2. ASSUME NEW j \in 1 .. c, j > i + 1 PROVE updates[j].key # n
    <3>1. j - 1 \in 1 .. c - 1 /\ j - 1 > i /\ updates'[j - 1] = updates[(j - 1) + 1] /\ (j - 1) + 1 = j
      BY <1>2, <2>1, <2>2
    <3> QED
      BY <1>2, <1>6, <3>1, Zenon DEF LastOf
  <2> QED
    BY <1>2, <1>6, <2>1, <2>2, Zenon DEF LastOf
<1>7. CASE n # k
  <2>1. agents'[n] = agents[n]
    BY <1>4, <1>7, Zenon
  <2>2. Untold(n)' => Untold(n)
    <3> SUFFICES ASSUME Untold(n)', NEW i \in 1 .. c PROVE updates[i].key # n
      BY <1>2, Zenon DEF Untold
    <3>1. CASE i = 1
      BY <1>3, <1>7, <3>1, Zenon
    <3>2. CASE i # 1
      <4>1. i - 1 \in 1 .. c - 1 /\ updates'[i - 1] = updates[(i - 1) + 1] /\ (i - 1) + 1 = i
        BY <1>2, <3>2
      <4> QED
        BY <1>2, <4>1 DEF Untold
    <3> QED
      BY <3>1, <3>2, Zenon
  <2> QED
    BY <1>1, <1>5, <1>6, <2>1, <2>2, Zenon DEF CacheInv
<1>8. CASE n = k
  <2>1. ~Untold(n) /\ 1 \in DOMAIN updates
    BY <1>2, <1>3, <1>8 DEF Untold
  <2>2. Untold(n)' => LastOf(n, 1)
    <3> SUFFICES ASSUME Untold(n)', NEW j \in 1 .. c, j > 1 PROVE updates[j].key # n
      BY <1>2, <1>3, <1>8, Zenon DEF LastOf
    <3>1. j - 1 \in 1 .. c - 1 /\ updates'[j - 1] = updates[(j - 1) + 1] /\ (j - 1) + 1 = j
      BY <1>2
    <3> QED
      BY <1>2, <3>1, Zenon DEF Untold
  <2>3. Untold(n)' /\ n \notin expired => v = kv[n]
    BY <1>1, <1>3, <2>1, <2>2, Zenon DEF CacheInv
  <2>4. kv[n] = "absent" <=> n \in expired
    BY <2>1, Zenon DEF CacheInv
  <2>5. Untold(n)' => (kv[n] \in Cards => agents'[n] = kv[n]) /\ (kv[n] = "deleted" => agents'[n] = "none")
    BY <1>4, <1>8, <2>3, <2>4, RegistryAssumption, Zenon
  <2> QED
    BY <1>1, <1>6, <2>4, <2>5, Zenon DEF CacheInv
<1> QED
  BY <1>7, <1>8, Zenon

\* The registry's invariant holds for every agent.
RegistryInv == RegistryTypeOK /\ \A n \in Names : CacheInv(n)

LEMMA RegistryStep == RegistryInv /\ [RegistryNext]_registryVars => RegistryInv'
<1> SUFFICES ASSUME RegistryInv, [RegistryNext]_registryVars, NEW n \in Names PROVE CacheInv(n)'
  BY RegistryTypeStep, Zenon DEF RegistryInv
<1> USE DEF kvVars, callVars
<1>0. RegistryTypeOK /\ CacheInv(n)
  BY Zenon DEF RegistryInv
<1>1. CASE UNCHANGED registryVars
  BY <1>0, <1>1, CacheFrame DEF registryVars
<1>2. ASSUME NEW k \in Names, NEW v, StartCall(k, v) PROVE CacheInv(n)'
  BY <1>0, <1>2, CacheFrame, Zenon DEF StartCall
<1>3. ASSUME NEW k \in Names, CallLands(k) PROVE CacheInv(n)'
  <2>1. call[k] \in Cards \cup {"bad", "deleted"} /\ Write(k, call[k]) /\ UNCHANGED <<watcher, agents>>
    BY <1>0, <1>3, Zenon DEF CallLands, RegistryTypeOK
  <2> QED
    BY <1>0, <2>1, CacheWrite
<1>4. ASSUME NEW k \in Names, CallFails(k) PROVE CacheInv(n)'
  BY <1>0, <1>4, CacheFrame DEF CallFails
<1>5. ASSUME NEW k \in Names, ForeignPut(k) PROVE CacheInv(n)'
  BY <1>0, <1>5, CacheWrite DEF ForeignPut
<1>6. ASSUME NEW k \in Names, Expire(k) PROVE CacheInv(n)'
  <2>1. CASE k # n
    BY <1>0, <1>6, <2>1, CacheFrame DEF Expire, RegistryTypeOK
  <2>2. CASE k = n
    <3>1. kv'[n] = "absent" /\ n \in expired'
      BY <1>0, <1>6, <2>2 DEF Expire, RegistryTypeOK
    <3> QED
      BY <3>1, RegistryAssumption, Zenon DEF CacheInv
  <2> QED
    BY <2>1, <2>2
<1>7. ASSUME NEW k \in Names, GetKey(k) PROVE CacheInv(n)'
  <2>1. watcher' = "sync" /\ UNCHANGED <<kv, expired, updates>>
    BY <1>7, Zenon DEF GetKey
  <2>2. kv[n] = "absent" => agents'[n] = agents[n]
    BY <1>0, <1>7, RegistryAssumption DEF GetKey, RegistryTypeOK
  <2> QED
    BY <1>0, <2>1, <2>2 DEF CacheInv, Untold
<1>8. ASSUME NEW o \in orphans, OrphanEnds(o) PROVE CacheInv(n)'
  <2>1. o.key \in Names /\ o.val \in Cards \cup {"bad", "deleted"}
    BY <1>0, Zenon DEF RegistryTypeOK
  <2>2. CASE Write(o.key, o.val)
    BY <1>0, <1>8, <2>1, <2>2, CacheWrite, Zenon DEF OrphanEnds
  <2>3. CASE UNCHANGED <<kvVars, updates>>
    BY <1>0, <1>8, <2>3, CacheFrame, Zenon DEF OrphanEnds
  <2> QED
    BY <1>8, <2>2, <2>3, Zenon DEF OrphanEnds
<1>9. CASE ListKeys \/ StartWatch \/ Close \/ PauseEnds
  BY <1>0, <1>9, CacheFrame, Zenon DEF ListKeys, StartWatch, Close, PauseEnds
<1>10. CASE WatchAll
  <2>1. UNCHANGED <<kv, expired, agents>>
    BY <1>10, Zenon DEF WatchAll
  <2>2. /\ \A i \in DOMAIN updates' : updates'[i].val = kv[updates'[i].key] /\ kv[updates'[i].key] # "absent"
        /\ kv[n] # "absent" => \E i \in DOMAIN updates' : updates'[i].key = n
    BY <1>0, <1>10, Replay
  <2> QED
    BY <1>0, <2>1, <2>2, RegistryAssumption DEF CacheInv, Untold, LastOf
<1>11. CASE WatchAllFails \/ WatcherLost \/ WatchEnds
  BY <1>0, <1>11, CacheFrame DEF WatchAllFails, WatcherLost, WatchEnds, RunWatcherFails
<1>12. CASE Apply
  BY <1>0, <1>12, CacheApply, Zenon
<1> QED
  BY <1>1, <1>2, <1>3, <1>4, <1>5, <1>6, <1>7, <1>8, <1>9, <1>10, <1>11, <1>12, Zenon DEF RegistryNext, Register, Deregister

\* The cache follows the bucket, for any number of agents and updates under way,
\* whichever order a replay comes in (dynamic.go:88-112, :154-195).
THEOREM CacheIsRight == RegistrySpec => []CacheFollows
<1>1. RegistryInit => RegistryInv
  <2> SUFFICES ASSUME RegistryInit, NEW n \in Names PROVE RegistryTypeOK /\ CacheInv(n)
    BY EmptySeq, Zenon DEF RegistryInv, RegistryInit, RegistryTypeOK, initialBackoff
  <2>1. RegistryTypeOK
    BY EmptySeq, Zenon DEF RegistryInit, RegistryTypeOK, initialBackoff
  <2>2. agents[n] = "none" /\ expired = {} /\ watcher = "new" /\ Untold(n)
    BY EmptySeq DEF RegistryInit, Untold
  <2> QED
    BY <2>1, <2>2, Zenon DEF CacheInv
<1>2. RegistryInv => CacheFollows
  BY Zenon DEF RegistryInv, CacheInv, Untold, CacheFollows
<1> QED
  BY <1>1, <1>2, RegistryStep, PTL DEF RegistrySpec
----------------------------------------------------------------------------
(* Register and Deregister                                                 *)

\* What is known of an agent no call of which has gone astray: nothing of it is
\* under way but its running call.
AskInv(n) ==
  n \notin astray =>
    /\ \A o \in orphans : o.key # n
    /\ call[n] # "none" => asked[n] = call[n]
    /\ call[n] = "none" /\ n \notin expired => kv[n] = asked[n]

AskedInv == RegistryTypeOK /\ \A n \in Names : AskInv(n)

LEMMA AskedStep == AskedInv /\ [RegistryNext]_registryVars => AskedInv'
<1> SUFFICES ASSUME AskedInv, [RegistryNext]_registryVars, NEW n \in Names PROVE AskInv(n)'
  BY RegistryTypeStep DEF AskedInv
<1> USE DEF kvVars, callVars
<1>0. RegistryTypeOK /\ AskInv(n)
  BY DEF AskedInv
<1>1. CASE UNCHANGED <<kvVars, callVars>>
  BY <1>0, <1>1, Zenon DEF AskInv
<1>2. ASSUME NEW k \in Names, NEW v \in Cards \cup {"deleted"}, StartCall(k, v) PROVE AskInv(n)'
  <2>1. CASE k = n
    <3>1. call'[n] = v /\ asked'[n] = v /\ orphans' = orphans /\ astray' = astray /\ v # "none"
      BY <1>0, <1>2, <2>1, RegistryAssumption DEF StartCall, RegistryTypeOK
    <3> QED
      BY <1>0, <3>1, Zenon DEF AskInv
  <2>2. CASE k # n
    BY <1>0, <1>2, <2>2 DEF StartCall, RegistryTypeOK, AskInv
  <2> QED
    BY <2>1, <2>2, Zenon
<1>3. ASSUME NEW k \in Names, CallLands(k) PROVE AskInv(n)'
  <2>1. CASE k = n
    <3>1. call[n] # "none" /\ kv'[n] = call[n] /\ asked' = asked /\ orphans' = orphans /\ astray' = astray
      BY <1>0, <1>3, <2>1 DEF CallLands, Write, RegistryTypeOK
    <3>2. call'[n] = "none"
      BY <1>0, <1>3, <2>1 DEF CallLands, RegistryTypeOK
    <3> QED
      BY <1>0, <3>1, <3>2 DEF AskInv
  <2>2. CASE k # n
    <3>1. call'[n] = call[n] /\ kv'[n] = kv[n] /\ (n \in expired' <=> n \in expired)
          /\ asked' = asked /\ orphans' = orphans /\ astray' = astray
      BY <1>0, <1>3, <2>2 DEF CallLands, Write, RegistryTypeOK
    <3> QED
      BY <1>0, <3>1, Zenon DEF AskInv
  <2> QED
    BY <2>1, <2>2
<1>4. ASSUME NEW k \in Names, CallFails(k) PROVE AskInv(n)'
  <2>1. CASE k = n
    BY <1>4, <2>1, Zenon DEF CallFails, AskInv
  <2>2. CASE k # n
    <3>1. call'[n] = call[n] /\ UNCHANGED <<kv, expired, asked>> /\ (n \in astray' <=> n \in astray)
      BY <1>0, <1>4, <2>2 DEF CallFails, RegistryTypeOK
    <3>2. \A o \in orphans' : o \in orphans \/ o.key = k
      BY <1>4 DEF CallFails
    <3> QED
      BY <1>0, <2>2, <3>1, <3>2 DEF AskInv
  <2> QED
    BY <2>1, <2>2
<1>5. ASSUME NEW k \in Names, ForeignPut(k) PROVE AskInv(n)'
  <2>1. CASE k = n
    BY <1>5, <2>1, Zenon DEF ForeignPut, AskInv
  <2>2. CASE k # n
    <3>1. kv'[n] = kv[n] /\ (n \in expired' <=> n \in expired) /\ (n \in astray' <=> n \in astray)
          /\ UNCHANGED <<call, asked, orphans>>
      BY <1>0, <1>5, <2>2 DEF ForeignPut, Write, RegistryTypeOK
    <3> QED
      BY <1>0, <3>1, Zenon DEF AskInv
  <2> QED
    BY <2>1, <2>2
<1>6. ASSUME NEW k \in Names, Expire(k) PROVE AskInv(n)'
  <2>1. UNCHANGED <<call, asked, orphans, astray>> /\ (n \in expired => n \in expired')
        /\ (n \notin expired' => kv'[n] = kv[n])
    BY <1>0, <1>6 DEF Expire, RegistryTypeOK
  <2> QED
    BY <1>0, <2>1 DEF AskInv
<1>7. ASSUME NEW o \in orphans, OrphanEnds(o) PROVE AskInv(n)'
  <2>1. orphans' \subseteq orphans /\ UNCHANGED <<call, asked, astray>>
    BY <1>7, Zenon DEF OrphanEnds
  <2>2. CASE o.key = n
    BY <1>0, <2>1, <2>2 DEF AskInv
  <2>3. CASE o.key # n
    <3>1. kv'[n] = kv[n] /\ (n \in expired' <=> n \in expired)
      BY <1>0, <1>7, <2>3 DEF OrphanEnds, Write, RegistryTypeOK
    <3> QED
      BY <1>0, <2>1, <3>1 DEF AskInv
  <2> QED
    BY <2>2, <2>3
<1>8. ASSUME NEW k \in Names, GetKey(k) PROVE AskInv(n)'
  BY <1>1, <1>8, Zenon DEF GetKey
<1>9. CASE ListKeys \/ StartWatch \/ Close \/ PauseEnds \/ WatchAll
  BY <1>1, <1>9 DEF ListKeys, StartWatch, Close, PauseEnds, WatchAll
<1>10. CASE WatchAllFails \/ WatcherLost \/ WatchEnds \/ Apply
  BY <1>1, <1>10 DEF WatchAllFails, WatcherLost, WatchEnds, RunWatcherFails, Apply
<1>11. CASE UNCHANGED registryVars
  BY <1>1, <1>11 DEF registryVars
<1> QED
  BY <1>2, <1>3, <1>4, <1>5, <1>6, <1>7, <1>8, <1>9, <1>10, <1>11 DEF RegistryNext, Register, Deregister

\* The last call of an agent wins in the bucket, for any number of agents and
\* of calls that end early: a put overtakes a later one only after its own
\* call did not return nil (dynamic.go:212-224, :231-244).
THEOREM LastCall == RegistrySpec => []LastCallWins
<1>1. RegistryInit => AskedInv
  <2> SUFFICES ASSUME RegistryInit PROVE AskedInv
    BY Zenon
  <2>1. RegistryTypeOK
    BY EmptySeq, Zenon DEF RegistryInit, RegistryTypeOK, initialBackoff
  <2> QED
    BY <2>1, Zenon DEF RegistryInit, AskedInv, AskInv
<1>2. AskedInv => LastCallWins
  BY Zenon DEF AskedInv, AskInv, LastCallWins
<1> QED
  BY <1>1, <1>2, AskedStep, PTL DEF RegistrySpec
----------------------------------------------------------------------------
(* The lookups of the registry                                             *)

Agent == [name : Nat \ {noAgent}, card : Cards]

\* The cache holds cards, and a file that is in use was found valid.
LookInv ==
  /\ agents \in [Names -> Cards \cup {"none"}]
  /\ file \in Files
  /\ watcher \notin {"new", "failed"} => validate(file)

LEMMA LookStep == LookInv /\ [RegistryNext]_registryVars => LookInv'
<1> SUFFICES ASSUME LookInv, [RegistryNext]_registryVars PROVE LookInv'
  OBVIOUS
<1>0. ASSUME UNCHANGED <<file, watcher, agents>> PROVE LookInv'
  BY <1>0, Zenon DEF LookInv
<1>1. CASE UNCHANGED registryVars
  BY <1>0, <1>1 DEF registryVars
<1>2. CASE ListKeys
  BY <1>2, Zenon DEF ListKeys, LookInv
<1>3. CASE StartWatch
  BY <1>3, Zenon DEF StartWatch, LookInv
<1>4. CASE WatchAll
  BY <1>4, Zenon DEF WatchAll, LookInv
<1>5. CASE WatchAllFails \/ WatcherLost
  BY <1>5, Zenon DEF WatchAllFails, WatcherLost, RunWatcherFails, LookInv
<1>6. CASE Apply
  <2>1. /\ UNCHANGED <<file, watcher>>
        /\ \/ \E c \in Cards : agents' = [agents EXCEPT ![Head(updates).key] = c]
           \/ agents' = [agents EXCEPT ![Head(updates).key] = "none"]
           \/ agents' = agents
    BY <1>6 DEF Apply
  <2> QED
    BY <2>1, Zenon DEF LookInv
<1>7. CASE PauseEnds \/ WatchEnds
  BY <1>7, Zenon DEF PauseEnds, WatchEnds, LookInv
<1>8. CASE Close
  BY <1>0, <1>8, Zenon DEF Close
<1>9. ASSUME NEW n \in Names, GetKey(n) PROVE LookInv'
  BY <1>9, Zenon DEF GetKey, LookInv
<1>10. ASSUME NEW n \in Names, Deregister(n) \/ CallLands(n) \/ CallFails(n) \/ ForeignPut(n) \/ Expire(n) PROVE LookInv'
  BY <1>0, <1>10, Zenon DEF Deregister, StartCall, CallLands, CallFails, ForeignPut, Expire
<1>11. ASSUME NEW n \in Names, NEW c \in Cards, Register(n, c) PROVE LookInv'
  BY <1>0, <1>11, Zenon DEF Register, StartCall
<1>12. ASSUME NEW o \in orphans, OrphanEnds(o) PROVE LookInv'
  BY <1>0, <1>12, Zenon DEF OrphanEnds
<1> QED
  BY <1>1, <1>2, <1>3, <1>4, <1>5, <1>6, <1>7, <1>8, <1>9, <1>10, <1>11, <1>12 DEF RegistryNext

\* The file in use, if there is one, names every agent once.
LEMMA Fallback ==
  ASSUME LookInv
  PROVE  /\ fallback \in Seq([name : Nat \ {noAgent}, card : Cards, subject : STRING, complete : BOOLEAN])
         /\ DOMAIN fallback = 1 .. Len(fallback) /\ Len(fallback) \in Nat
         /\ Range(fallback) = {fallback[i] : i \in DOMAIN fallback}
         /\ \A i, j \in DOMAIN fallback : fallback[i].name = fallback[j].name => i = j
<1>1. fallback \in Seq([name : Nat \ {noAgent}, card : Cards, subject : STRING, complete : BOOLEAN])
  <2>1. PICK S : S = [name : Nat \ {noAgent}, card : Cards, subject : STRING, complete : BOOLEAN]
    BY Zenon
  <2>2. file \in Seq(S)
    BY <2>1, RegistryAssumption, Zenon DEF LookInv
  <2>3. fallback \in Seq(S)
    BY <2>2, EmptySeq, Zenon DEF fallback
  <2> QED
    BY <2>1, <2>3, Zenon
<1>2. DOMAIN fallback = 1 .. Len(fallback) /\ Len(fallback) \in Nat
  BY <1>1, LenProperties, Zenon
<1>3. ASSUME NEW i \in DOMAIN fallback, NEW j \in DOMAIN fallback, fallback[i].name = fallback[j].name PROVE i = j
  <2>1. \A a \in DOMAIN fallback : \A b \in 1 .. a - 1 : fallback[b].name # fallback[a].name
    BY DEF LookInv, fallback, validate
  <2>2. i \in Nat /\ j \in Nat /\ i >= 1 /\ j >= 1
    BY <1>2
  <2>3. ~(i \in 1 .. j - 1) /\ ~(j \in 1 .. i - 1)
    BY <1>3, <2>1, Zenon
  <2> QED
    BY <2>2, <2>3
<1>4. Range(fallback) = {fallback[i] : i \in DOMAIN fallback}
  BY Zenon DEF Range
<1> QED
  BY <1>1, <1>2, <1>3, <1>4, Zenon

\* The agents that are known: one entry per name.
Shown ==
  {Entry(n, agents[n]) : n \in {m \in Names : agents[m] # "none"}}
  \cup {Entry(e.name, e.card) :
          e \in {f \in Range(fallback) : f.name \notin Names \/ agents[f.name] = "none"}}

ShownNames == {e.name : e \in Shown}

\* Who is shown: a cached agent, or one of the file that is not cached.
LEMMA WhoIsShown ==
  ASSUME LookInv, NEW e
  PROVE  e \in Shown <=>
           \/ e.name \in Names /\ agents[e.name] # "none" /\ e = Entry(e.name, agents[e.name])
           \/ \E i \in DOMAIN fallback : /\ e = Entry(fallback[i].name, fallback[i].card)
                                         /\ fallback[i].name \notin Names \/ agents[fallback[i].name] = "none"
<1>1. ASSUME e \in Shown
      PROVE  \/ e.name \in Names /\ agents[e.name] # "none" /\ e = Entry(e.name, agents[e.name])
             \/ \E i \in DOMAIN fallback : /\ e = Entry(fallback[i].name, fallback[i].card)
                                           /\ fallback[i].name \notin Names \/ agents[fallback[i].name] = "none"
  BY <1>1, Fallback DEF Shown, Entry
<1>2. ASSUME e.name \in Names, agents[e.name] # "none", e = Entry(e.name, agents[e.name]) PROVE e \in Shown
  BY <1>2, Zenon DEF Shown
<1>3. ASSUME NEW i \in DOMAIN fallback, e = Entry(fallback[i].name, fallback[i].card),
             fallback[i].name \notin Names \/ agents[fallback[i].name] = "none"
      PROVE  e \in Shown
  BY <1>3, Fallback, Zenon DEF Shown
<1> QED
  BY <1>1, <1>2, <1>3, Zenon

LEMMA ShownAgents ==
  ASSUME LookInv
  PROVE  Shown \subseteq Agent /\ \A e, f \in Shown : e.name = f.name => e = f
<1>1. ASSUME NEW e \in Shown PROVE e \in Agent
  <2>1. CASE e.name \in Names /\ agents[e.name] # "none" /\ e = Entry(e.name, agents[e.name])
    BY <2>1, RegistryAssumption DEF Entry, Agent, LookInv
  <2>2. CASE \E i \in DOMAIN fallback : e = Entry(fallback[i].name, fallback[i].card)
    <3>1. PICK i \in DOMAIN fallback : e = Entry(fallback[i].name, fallback[i].card)
      BY <2>2, Zenon
    <3>2. fallback[i] \in [name : Nat \ {noAgent}, card : Cards, subject : STRING, complete : BOOLEAN]
      BY Fallback, ElementOfSeq, Zenon
    <3> QED
      BY <3>1, <3>2, Zenon DEF Entry, Agent
  <2> QED
    BY <2>1, <2>2, WhoIsShown
<1>2. ASSUME NEW e \in Shown, NEW f \in Shown, e.name = f.name PROVE e = f
  <2>1. CASE e.name \in Names /\ agents[e.name] # "none"
    BY <1>2, <2>1, WhoIsShown DEF Entry
  <2>2. CASE ~(e.name \in Names /\ agents[e.name] # "none")
    <3>1. PICK i \in DOMAIN fallback : e = Entry(fallback[i].name, fallback[i].card)
      BY <2>2, WhoIsShown, Zenon
    <3>2. PICK j \in DOMAIN fallback : f = Entry(fallback[j].name, fallback[j].card)
      BY <1>2, <2>2, WhoIsShown, Zenon
    <3>3. fallback[i].name = fallback[j].name
      BY <1>2, <3>1, <3>2, Zenon DEF Entry
    <3> QED
      BY <3>1, <3>2, <3>3, Fallback, Zenon
  <2> QED
    BY <2>1, <2>2, Zenon
<1> QED
  BY <1>1, <1>2, Zenon

\* There are finitely many, as many as names.
LEMMA ShownFinite ==
  ASSUME LookInv
  PROVE  /\ IsFiniteSet(Shown) /\ IsFiniteSet(ShownNames) /\ ShownNames \subseteq Nat
         /\ Cardinality(Shown) = Cardinality(ShownNames) /\ Cardinality(Shown) \in Nat
<1> DEFINE P == {fallback[i].name : i \in DOMAIN fallback}
<1>1. IsFiniteSet(P)
  <2>1. IsFiniteSet(DOMAIN fallback)
    BY Fallback, FS_Interval
  <2>2. [i \in DOMAIN fallback |-> fallback[i].name] \in Surjection(DOMAIN fallback, P)
    BY Zenon DEF Surjection
  <2> QED
    BY <2>1, <2>2, FS_Surjection, Zenon
<1>2. IsFiniteSet(Names \cup P)
  BY <1>1, FS_Union, RegistryAssumption, Zenon
<1>3. \A e \in Shown : e.name \in Names \cup P
  <2> SUFFICES ASSUME NEW e \in Shown PROVE e.name \in Names \cup P
    BY Zenon
  <2>1. CASE e.name \in Names
    BY <2>1, Zenon
  <2>2. CASE \E i \in DOMAIN fallback : e = Entry(fallback[i].name, fallback[i].card)
    BY <2>2 DEF Entry
  <2> QED
    BY <2>1, <2>2, WhoIsShown, Zenon
<1> DEFINE h == [e \in Shown |-> e.name]
<1>4. h \in Injection(Shown, Names \cup P)
  BY <1>3, ShownAgents, Zenon DEF Injection, IsInjective
<1>5. IsFiniteSet(Shown)
  BY <1>2, <1>4, FS_Injection, Zenon
<1>6. h \in Surjection(Shown, ShownNames) /\ h \in Injection(Shown, ShownNames)
  BY ShownAgents, Zenon DEF Surjection, Injection, IsInjective, ShownNames
<1>7. IsFiniteSet(ShownNames) /\ Cardinality(Shown) = Cardinality(ShownNames)
  BY <1>5, <1>6, FS_Surjection, Zenon
<1>8. ShownNames \subseteq Nat
  BY ShownAgents, Zenon DEF ShownNames, Agent
<1> QED
  BY <1>5, <1>7, <1>8, FS_CardinalityType

\* All lists those that are shown, by name.
LEMMA AllLists ==
  ASSUME LookInv
  PROVE  /\ All \in Seq(Agent) /\ DOMAIN All = 1 .. Len(All) /\ Len(All) \in Nat
         /\ \A i \in DOMAIN All : All[i] \in Shown
         /\ \A i, j \in DOMAIN All : i < j => All[i].name < All[j].name
         /\ \A e \in Shown : \E i \in DOMAIN All : All[i] = e
<1>1. PICK n \in Nat : n = Cardinality(Shown) /\ n = Cardinality(ShownNames)
  BY ShownFinite, Zenon
<1>2. All = [k \in 1 .. n |-> CHOOSE e \in Shown : e.name = Nth(ShownNames, k)]
  BY <1>1, Zenon DEF All, Shown, ShownNames
<1>3. /\ \A k \in 1 .. n : Nth(ShownNames, k) \in ShownNames
      /\ \A k, l \in 1 .. n : k < l => Nth(ShownNames, k) < Nth(ShownNames, l)
      /\ \A i \in ShownNames : \E k \in 1 .. n : Nth(ShownNames, k) = i
  BY <1>1, ShownFinite, NthLists
<1>4. ASSUME NEW k \in 1 .. n PROVE All[k] \in Shown /\ All[k].name = Nth(ShownNames, k)
  <2>1. \E e \in Shown : e.name = Nth(ShownNames, k)
    BY <1>3, Zenon DEF ShownNames
  <2>2. PICK v : v = CHOOSE e \in Shown : e.name = Nth(ShownNames, k)
    BY Zenon
  <2>3. v \in Shown /\ v.name = Nth(ShownNames, k)
    BY <2>1, <2>2, Zenon
  <2> QED
    BY <1>2, <2>2, <2>3
<1>5. All \in [1 .. n -> Agent]
  <2>1. \A k \in 1 .. n : All[k] \in Agent
    BY <1>4, ShownAgents, Zenon
  <2>2. DOMAIN All = 1 .. n /\ All = [k \in 1 .. n |-> All[k]]
    BY <1>2
  <2> QED
    BY <2>1, <2>2, Zenon
<1>6. All \in Seq(Agent) /\ DOMAIN All = 1 .. n /\ Len(All) = n
  BY <1>5
<1>7. ASSUME NEW e \in Shown PROVE \E i \in 1 .. n : All[i] = e
  <2>1. PICK k \in 1 .. n : Nth(ShownNames, k) = e.name
    BY <1>3, Zenon DEF ShownNames
  <2> QED
    BY <1>4, <2>1, ShownAgents
<1>8. ASSUME NEW i \in 1 .. n, NEW j \in 1 .. n, i < j PROVE All[i].name < All[j].name
  BY <1>3, <1>4, <1>8, Zenon
<1> QED
  BY <1>4, <1>6, <1>7, <1>8, Zenon

\* FindByName and All know the same agents with the same cards.
LEMMA FindsShown ==
  ASSUME LookInv
  PROVE  /\ \A e \in Shown : FindByName(e.name) = e.card
         /\ \A n : FindByName(n) # "none" => Entry(n, FindByName(n)) \in Shown
<1> DEFINE Hits(n) == {i \in DOMAIN fallback : fallback[i].name = n}
<1>1. \A n : Hits(n) # {} => Min(Hits(n)) \in Hits(n)
  <2> SUFFICES ASSUME NEW n, Hits(n) # {} PROVE Min(Hits(n)) \in Hits(n)
    BY Zenon
  <2>1. Hits(n) \subseteq Nat
    BY Fallback
  <2> QED
    BY <2>1, LeastIndex, Zenon
<1>2. ASSUME NEW n
      PROVE  FindByName(n) = IF n \in Names /\ agents[n] # "none" THEN agents[n]
                             ELSE IF Hits(n) = {} THEN "none" ELSE fallback[Min(Hits(n))].card
  BY Zenon DEF FindByName
<1>3. ASSUME NEW e \in Shown PROVE FindByName(e.name) = e.card
  <2>1. CASE e.name \in Names /\ agents[e.name] # "none"
    <3>1. e = Entry(e.name, agents[e.name])
      BY <2>1, WhoIsShown DEF Entry
    <3>2. e.card = agents[e.name]
      BY <3>1 DEF Entry
    <3>3. FindByName(e.name) = agents[e.name]
      BY <1>2, <2>1, Zenon
    <3> QED
      BY <3>2, <3>3, Zenon
  <2>2. CASE ~(e.name \in Names /\ agents[e.name] # "none")
    <3>1. PICK i \in DOMAIN fallback : e = Entry(fallback[i].name, fallback[i].card)
      BY <2>2, WhoIsShown, Zenon
    <3>2. PICK m : m = Min(Hits(e.name))
      BY Zenon
    <3>3. e.name = fallback[i].name /\ e.card = fallback[i].card /\ Hits(e.name) # {}
      BY <3>1, Zenon DEF Entry
    <3>4. m \in DOMAIN fallback /\ fallback[m].name = e.name
      BY <1>1, <3>2, <3>3, Zenon
    <3>5. m = i
      BY <3>3, <3>4, Fallback, Zenon
    <3> QED
      BY <1>2, <2>2, <3>2, <3>3, <3>5, Zenon
  <2> QED
    BY <2>1, <2>2, Zenon
<1>4. ASSUME NEW n, FindByName(n) # "none" PROVE Entry(n, FindByName(n)) \in Shown
  <2>0. PICK e : e = Entry(n, FindByName(n))
    BY Zenon
  <2>1. e.name = n /\ e.card = FindByName(n)
    BY <2>0, Zenon DEF Entry
  <2>2. CASE n \in Names /\ agents[n] # "none"
    <3>1. FindByName(n) = agents[n]
      BY <1>2, <2>2, Zenon
    <3> QED
      BY <2>0, <2>1, <2>2, <3>1, WhoIsShown
  <2>3. CASE ~(n \in Names /\ agents[n] # "none")
    <3>1. PICK m : m = Min(Hits(n))
      BY Zenon
    <3>2. Hits(n) # {} /\ FindByName(n) = fallback[m].card
      BY <1>2, <1>4, <2>3, <3>1
    <3>3. m \in DOMAIN fallback /\ fallback[m].name = n
      BY <1>1, <3>1, <3>2
    <3> QED
      BY <2>0, <2>3, <3>2, <3>3, WhoIsShown
  <2> QED
    BY <2>2, <2>3, Zenon
<1> QED
  BY <1>3, <1>4, Zenon

LEMMA Scores ==
  ASSUME NEW c, NEW req \in Requests
  PROVE  /\ Score(c, req) \in Nat
         /\ req.skill # "" /\ req.tags = <<>> /\ req.runtime = "" => (Score(c, req) = IF HasSkill(c, req.skill) THEN 10 ELSE 0)
         /\ req.skill = "" /\ req.runtime = "" /\ Len(req.tags) = 1 => (Score(c, req) = IF HasTag(c, req.tags[1]) THEN 5 ELSE 0)
<1> DEFINE T == {i \in DOMAIN req.tags : HasTag(c, req.tags[i])}
<1>1. req.tags \in Seq(STRING)
  BY RegistryAssumption, Zenon
<1>2. DOMAIN req.tags = 1 .. Len(req.tags) /\ Len(req.tags) \in Nat
  BY <1>1, LenProperties, Zenon
<1>3. IsFiniteSet(T)
  <2>1. IsFiniteSet(1 .. Len(req.tags)) /\ T \in SUBSET (1 .. Len(req.tags))
    BY <1>2, FS_Interval
  <2> QED
    BY <2>1, FS_Subset, Zenon
<1>4. PICK t \in Nat : t = Cardinality(T)
  BY <1>3, FS_CardinalityType, Zenon
<1>5. PICK a, b :
        /\ a = IF req.skill # "" /\ HasSkill(c, req.skill) THEN 10 ELSE 0
        /\ b = IF req.runtime # "" /\ Card[c].runtime = req.runtime THEN 1 ELSE 0
  BY Zenon
<1>6. PICK r : r = 5 * t
  BY Zenon
<1>7. Score(c, req) = a + r + b
  BY <1>4, <1>5, <1>6 DEF Score
<1>8. a \in Nat /\ b \in Nat /\ r \in Nat
  <2>1. (a = 10 \/ a = 0) /\ (b = 1 \/ b = 0)
    BY <1>5, Zenon
  <2> QED
    BY <1>6, <2>1
<1>9. Score(c, req) \in Nat
  BY <1>7, <1>8
<1>10. req.skill = "" => a = 0
  BY <1>5, Zenon
<1>11. req.runtime = "" => b = 0
  BY <1>5, Zenon
<1>12. ASSUME req.skill # "", req.tags = <<>>, req.runtime = ""
       PROVE  Score(c, req) = IF HasSkill(c, req.skill) THEN 10 ELSE 0
  <2>0. req.tags = <<>> /\ b = 0
    BY <1>11, <1>12, Zenon
  <2>1. T = {}
    BY <2>0
  <2>2. t = 0
    BY <1>4, <2>1, FS_EmptySet
  <2>3. Score(c, req) = a
    BY <1>6, <1>7, <1>8, <2>0, <2>2
  <2> QED
    BY <1>5, <1>12, <2>3, Zenon
<1>13. ASSUME req.skill = "", Len(req.tags) = 1, req.runtime = ""
       PROVE  Score(c, req) = IF HasTag(c, req.tags[1]) THEN 5 ELSE 0
  <2>0. a = 0 /\ b = 0 /\ Len(req.tags) = 1
    BY <1>10, <1>11, <1>13, Zenon
  <2>1. Score(c, req) = r
    BY <1>7, <1>8, <2>0
  <2>2. CASE HasTag(c, req.tags[1])
    <3>1. T = {1}
      BY <1>2, <2>0, <2>2
    <3>2. t = 1
      BY <1>4, <3>1, FS_Singleton, Zenon
    <3>3. r = 5
      BY <1>6, <3>2
    <3> QED
      BY <2>1, <2>2, <3>3, Zenon
  <2>3. CASE ~HasTag(c, req.tags[1])
    <3>1. T = {}
      BY <1>2, <2>0, <2>3
    <3>2. t = 0
      BY <1>4, <3>1, FS_EmptySet
    <3>3. r = 0
      BY <1>6, <3>2
    <3> QED
      BY <2>1, <2>3, <3>3, Zenon
  <2> QED
    BY <2>2, <2>3, Zenon
<1> QED
  BY <1>9, <1>12, <1>13

\* What the loop of RouteByScore holds after n turns: nothing while no agent
\* scores, and else the first agent of the highest score.
BestOf(es, req, n, b) ==
  \/ b = Candidate(noAgent, 0) /\ \A j \in 1 .. n : Score(es[j].card, req) = 0
  \/ \E i \in 1 .. n :
       /\ b = Candidate(es[i].name, Score(es[i].card, req)) /\ Score(es[i].card, req) > 0
       /\ \A j \in 1 .. n : Score(es[j].card, req) <= Score(es[i].card, req)
       /\ \A j \in 1 .. i - 1 : Score(es[j].card, req) < Score(es[i].card, req)

LEMMA BestTurn ==
  ASSUME NEW es, NEW req \in Requests, NEW n \in Nat, NEW b, BestOf(es, req, n, b)
  PROVE  BestOf(es, req, n + 1, Better(es[n + 1], b, req))
<1>1. \A j \in 1 .. n + 1 : Score(es[j].card, req) \in Nat
  BY Scores, Zenon
<1>2. PICK s \in Nat : s = Score(es[n + 1].card, req)
  BY Scores, Zenon
<1>3. PICK c : c = Better(es[n + 1], b, req)
  BY Zenon
<1>4. c = IF s > b.score THEN Candidate(es[n + 1].name, s) ELSE b
  BY <1>2, <1>3, Zenon DEF Better
<1>5. \A j \in 1 .. n + 1 : j \in 1 .. n \/ j = n + 1
  OBVIOUS
<1>6. CASE b = Candidate(noAgent, 0) /\ \A j \in 1 .. n : Score(es[j].card, req) = 0
  <2>1. b.score = 0
    BY <1>6, Zenon DEF Candidate
  <2>2. CASE s = 0
    <3>1. c = b
      BY <1>4, <2>1, <2>2
    <3>2. \A j \in 1 .. n + 1 : Score(es[j].card, req) = 0
      BY <1>2, <1>5, <1>6, <2>2, Zenon
    <3> QED
      BY <1>3, <1>6, <3>1, <3>2 DEF BestOf
  <2>3. CASE s # 0
    <3>1. /\ c = Candidate(es[n + 1].name, s) /\ s > 0
          /\ \A j \in 1 .. n + 1 : Score(es[j].card, req) <= s
          /\ \A j \in 1 .. (n + 1) - 1 : Score(es[j].card, req) < s
      BY <1>2, <1>4, <1>5, <1>6, <2>1, <2>3
    <3>2. n + 1 \in 1 .. n + 1
      OBVIOUS
    <3> QED
      BY <1>2, <1>3, <3>1, <3>2 DEF BestOf
  <2> QED
    BY <2>2, <2>3, Zenon
<1>7. ASSUME NEW i \in 1 .. n, b = Candidate(es[i].name, Score(es[i].card, req)), Score(es[i].card, req) > 0,
             \A j \in 1 .. n : Score(es[j].card, req) <= Score(es[i].card, req),
             \A j \in 1 .. i - 1 : Score(es[j].card, req) < Score(es[i].card, req)
      PROVE  BestOf(es, req, n + 1, c)
  <2>1. PICK u \in Nat : u = Score(es[i].card, req) /\ u = b.score /\ u > 0
    BY <1>1, <1>7 DEF Candidate
  <2>2. CASE s > u
    <3>1. /\ c = Candidate(es[n + 1].name, s) /\ s > 0
          /\ \A j \in 1 .. n : Score(es[j].card, req) < s
      BY <1>1, <1>4, <1>7, <2>1, <2>2
    <3>2. \A j \in 1 .. n + 1 : Score(es[j].card, req) <= s
      BY <1>1, <1>2, <1>5, <3>1
    <3>3. n + 1 \in 1 .. n + 1 /\ (n + 1) - 1 = n
      OBVIOUS
    <3> QED
      BY <1>2, <3>1, <3>2, <3>3 DEF BestOf
  <2>3. CASE ~(s > u)
    <3>1. c = b /\ s <= u
      BY <1>4, <2>1, <2>3
    <3>2. \A j \in 1 .. n + 1 : Score(es[j].card, req) <= u
      BY <1>2, <1>5, <1>7, <2>1, <3>1
    <3>3. i \in 1 .. n + 1
      OBVIOUS
    <3> QED
      BY <1>7, <2>1, <3>1, <3>2, <3>3, Zenon DEF BestOf
  <2> QED
    BY <2>2, <2>3, Zenon
<1> QED
  BY <1>3, <1>6, <1>7, Zenon DEF BestOf

LEMMA RouteLoop ==
  ASSUME NEW es \in Seq(Agent), NEW req \in Requests
  PROVE  \E b : RouteByScore(es, req) = b.name /\ BestOf(es, req, Len(es), b)
<1>0. PICK S : S = [name : Nat, score : Nat]
  BY Zenon
<1> DEFINE Turns(g) == g = [n \in 0 .. Len(es) |-> IF n = 0 THEN Candidate(noAgent, 0) ELSE Better(es[n], g[n - 1], req)]
<1>1. PICK m \in Nat : m = Len(es)
  OBVIOUS
<1>2. \A n \in 1 .. m : es[n] \in Agent
  BY <1>1, ElementOfSeq, Zenon
<1>3. \A n \in 1 .. m : \A v \in S : Better(es[n], v, req) \in S
  BY <1>0, <1>2, Scores DEF Better, Candidate, Agent
<1>4. Candidate(noAgent, 0) \in S
  BY <1>0, Zenon DEF Candidate, noAgent
<1>5. PICK d : d = [p \in (1 .. m) \X S |-> Better(es[p[1]], p[2], req)]
  BY Zenon
<1>6. d \in [(1 .. m) \X S -> S] /\ \A n \in 1 .. m : \A v \in S : d[<<n, v>>] = Better(es[n], v, req)
  BY <1>3, <1>5, Zenon
<1>7. PICK g : LoopRuns(S, Candidate(noAgent, 0), m, d, g)
  BY <1>4, <1>6, Iterates, Zenon DEF Loop
<1>8. \A n \in 1 .. m : g[n] = Better(es[n], g[n - 1], req)
  <2> SUFFICES ASSUME NEW n \in 1 .. m PROVE g[n] = Better(es[n], g[n - 1], req)
    BY Zenon
  <2>1. g[n - 1] \in S
    BY <1>7 DEF LoopRuns
  <2> QED
    BY <1>6, <1>7, <2>1, Zenon DEF LoopRuns
<1>9. Turns(g)
  <2>1. \A n \in 0 .. m : g[n] = IF n = 0 THEN Candidate(noAgent, 0) ELSE Better(es[n], g[n - 1], req)
    BY <1>7, <1>8 DEF LoopRuns
  <2>2. g = [n \in 0 .. m |-> g[n]]
    BY <1>7, Zenon DEF LoopRuns
  <2> QED
    BY <1>1, <2>1, <2>2, Zenon
<1>10. PICK f : f = CHOOSE h : Turns(h)
  BY Zenon
<1>11. Turns(f)
  <2> HIDE DEF Turns
  <2> QED
    BY <1>9, <1>10, Zenon
<1>12. RouteByScore(es, req) = f[m].name
  BY <1>1, <1>10, Zenon DEF RouteByScore
<1>13. f[0] = Candidate(noAgent, 0) /\ \A n \in 1 .. m : f[n] = Better(es[n], f[n - 1], req)
  BY <1>1, <1>11
<1> DEFINE K == {n \in Nat : n <= m => BestOf(es, req, n, f[n])}
<1>14. 0 \in K
  BY <1>13 DEF BestOf
<1>15. ASSUME NEW n \in K PROVE n + 1 \in K
  <2> SUFFICES ASSUME n + 1 <= m PROVE BestOf(es, req, n + 1, f[n + 1])
    OBVIOUS
  <2>1. n \in Nat /\ BestOf(es, req, n, f[n])
    OBVIOUS
  <2>2. f[n + 1] = Better(es[n + 1], f[n], req)
    BY <1>13, <2>1
  <2> QED
    BY <2>1, <2>2, BestTurn, Zenon
<1>16. m \in K
  <2>1. K \subseteq Nat
    BY Zenon
  <2> HIDE DEF K
  <2> QED
    BY <1>14, <1>15, <2>1, Inductive, Zenon
<1>17. BestOf(es, req, m, f[m])
  BY <1>16
<1> QED
  BY <1>1, <1>12, <1>17, Zenon
LEMMA FirstPicked ==
  ASSUME NEW es \in Seq(Agent), NEW I \in SUBSET DOMAIN es
  PROVE  /\ I = {} => First(Picked(es, I)) = noAgent
         /\ I # {} => \E i \in I : First(Picked(es, I)) = es[i].name /\ \A j \in I : i <= j
<1>1. DOMAIN es = 1 .. Len(es) /\ Len(es) \in Nat
  BY LenProperties, Zenon
<1>2. IsFiniteSet(I) /\ I \subseteq Nat
  <2>1. IsFiniteSet(1 .. Len(es)) /\ I \in SUBSET (1 .. Len(es))
    BY <1>1, FS_Interval
  <2> QED
    BY <2>1, FS_Subset
<1>3. PICK n \in Nat : n = Cardinality(I)
  BY <1>2, FS_CardinalityType, Zenon
<1>4. PICK p : p = Picked(es, I)
  BY Zenon
<1>5. p = [k \in 1 .. n |-> es[Nth(I, k)]]
  BY <1>3, <1>4, Zenon DEF Picked
<1>6. ASSUME I = {} PROVE First(p) = noAgent
  <2>1. n = 0
    BY <1>3, <1>6, FS_EmptySet, Zenon
  <2>2. p = <<>>
    BY <1>5, <2>1
  <2> QED
    BY <2>2, Zenon DEF First
<1>7. ASSUME I # {} PROVE \E i \in I : First(p) = es[i].name /\ \A j \in I : i <= j
  <2>1. n # 0
    BY <1>2, <1>3, <1>7, FS_EmptySet
  <2>2. \A k \in 1 .. n : Nth(I, k) \in I
    BY <1>2, <1>3, NthLists, Zenon
  <2>3. PICK i \in I : i = Nth(I, 1)
    BY <2>1, <2>2
  <2>4. p \in Seq(Agent) /\ Len(p) = n
    <3>1. \A k \in 1 .. n : p[k] \in Agent
      BY <1>1, <1>5, <2>2, ElementOfSeq
    <3> QED
      BY <1>5, <3>1
  <2>5. p # <<>> /\ Head(p) = p[1]
    BY <2>1, <2>4
  <2>6. First(p) = es[i].name
    BY <1>5, <2>1, <2>3, <2>5 DEF First
  <2>7. ASSUME NEW j \in I PROVE i <= j
    <3>1. PICK k \in 1 .. n : Nth(I, k) = j
      BY <1>2, <1>3, NthLists, Zenon
    <3>2. 1 < k => Nth(I, 1) < Nth(I, k)
      BY <1>2, <1>3, NthLists
    <3>3. k = 1 \/ 1 < k
      OBVIOUS
    <3> QED
      BY <1>2, <2>3, <3>1, <3>2, <3>3
  <2> QED
    BY <2>6, <2>7, Zenon
<1> QED
  BY <1>4, <1>6, <1>7, Zenon

\* When the agents at I score k and the others nothing, the first at I gets
\* the request.
LEMMA RouteFirst ==
  ASSUME NEW es \in Seq(Agent), NEW req \in Requests, NEW I \in SUBSET DOMAIN es, NEW k \in Nat \ {0},
         \A i \in DOMAIN es : Score(es[i].card, req) = IF i \in I THEN k ELSE 0
  PROVE  RouteByScore(es, req) = First(Picked(es, I))
<1>1. PICK b : RouteByScore(es, req) = b.name /\ BestOf(es, req, Len(es), b)
  BY RouteLoop, Zenon
<1>2. DOMAIN es = 1 .. Len(es) /\ Len(es) \in Nat
  BY LenProperties, Zenon
<1>3. CASE b = Candidate(noAgent, 0) /\ \A j \in 1 .. Len(es) : Score(es[j].card, req) = 0
  <2>1. I = {}
    BY <1>2, <1>3, Zenon
  <2>2. b.name = noAgent
    BY <1>3, Zenon DEF Candidate
  <2> QED
    BY <1>1, <2>1, <2>2, FirstPicked, Zenon
<1>4. ASSUME NEW i \in 1 .. Len(es), b = Candidate(es[i].name, Score(es[i].card, req)), Score(es[i].card, req) > 0,
             \A j \in 1 .. i - 1 : Score(es[j].card, req) < Score(es[i].card, req)
      PROVE  RouteByScore(es, req) = First(Picked(es, I))
  <2>1. i \in I /\ Score(es[i].card, req) = k
    BY <1>2, <1>4
  <2>2. \A j \in I : ~(j < i)
    BY <1>2, <1>4, <2>1
  <2>3. PICK f \in I : First(Picked(es, I)) = es[f].name /\ \A j \in I : f <= j
    BY <2>1, FirstPicked, Zenon
  <2>4. f = i
    <3>1. f <= i /\ ~(f < i)
      BY <2>1, <2>2, <2>3, Zenon
    <3>2. f \in Nat
      BY <1>2
    <3> QED
      BY <3>1, <3>2
  <2>5. b.name = es[i].name
    BY <1>4, Zenon DEF Candidate
  <2> QED
    BY <1>1, <2>3, <2>4, <2>5, Zenon
<1> QED
  BY <1>1, <1>3, <1>4, Zenon DEF BestOf

\* The winners of a request: those of the highest score above zero.
Winners(es, req) ==
  {e \in Range(es) : Score(e.card, req) > 0 /\ \A f \in Range(es) : Score(f.card, req) <= Score(e.card, req)}

\* In a list that is sorted by name, the first winner is the least by name.
LEMMA RouteBest ==
  ASSUME NEW es \in Seq(Agent), NEW req \in Requests,
         \A i, j \in DOMAIN es : i < j => es[i].name < es[j].name
  PROVE  RouteByScore(es, req) = IF Winners(es, req) = {} THEN noAgent ELSE Min({e.name : e \in Winners(es, req)})
<1>1. PICK b : RouteByScore(es, req) = b.name /\ BestOf(es, req, Len(es), b)
  BY RouteLoop, Zenon
<1>2. PICK n \in Nat : DOMAIN es = 1 .. n /\ Len(es) = n
  BY LenProperties, Zenon
<1>3. PICK R : R = Range(es)
  BY Zenon
<1>4. R = {es[i] : i \in 1 .. n}
  BY <1>2, <1>3, Zenon DEF Range
<1>5. PICK W : W = Winners(es, req)
  BY Zenon
<1>6. W = {e \in R : Score(e.card, req) > 0 /\ \A f \in R : Score(f.card, req) <= Score(e.card, req)}
  BY <1>3, <1>5, Zenon DEF Winners
<1>7. \A i \in 1 .. n : Score(es[i].card, req) \in Nat
  BY Scores, Zenon
<1>8. CASE b = Candidate(noAgent, 0) /\ \A j \in 1 .. n : Score(es[j].card, req) = 0
  <2>1. W = {}
    BY <1>4, <1>6, <1>8
  <2>2. b.name = noAgent
    BY <1>8, Zenon DEF Candidate
  <2> QED
    BY <1>1, <1>5, <2>1, <2>2, Zenon
<1>9. ASSUME NEW i \in 1 .. n, b = Candidate(es[i].name, Score(es[i].card, req)), Score(es[i].card, req) > 0,
             \A j \in 1 .. n : Score(es[j].card, req) <= Score(es[i].card, req),
             \A j \in 1 .. i - 1 : Score(es[j].card, req) < Score(es[i].card, req)
      PROVE  W # {} /\ b.name = Min({e.name : e \in W})
  <2>1. es[i] \in W
    BY <1>4, <1>6, <1>9
  <2>2. ASSUME NEW e \in W PROVE \E j \in 1 .. n : e = es[j] /\ ~(j < i)
    <3>1. PICK j \in 1 .. n : e = es[j]
      BY <1>4, <1>6, Zenon
    <3>2. Score(es[i].card, req) <= Score(es[j].card, req)
      BY <1>4, <1>6, <3>1
    <3>3. j < i => Score(es[j].card, req) < Score(es[i].card, req)
      BY <1>9
    <3> QED
      BY <1>7, <3>1, <3>2, <3>3
  <2>3. \A j \in 1 .. n : es[j].name \in Nat
    <3>1. \A j \in 1 .. n : es[j] \in Agent
      BY <1>2, ElementOfSeq
    <3> QED
      BY <3>1, Zenon DEF Agent
  <2>4. PICK N : N = {e.name : e \in W}
    BY Zenon
  <2>5. N \subseteq Nat /\ es[i].name \in N
    BY <2>1, <2>2, <2>3, <2>4
  <2>6. PICK m : m = Min(N) /\ m \in N /\ \A v \in N : m <= v
    BY <2>5, LeastIndex, Zenon
  <2>7. PICK j \in 1 .. n : m = es[j].name /\ ~(j < i)
    BY <2>2, <2>4, <2>6, Zenon
  <2>8. j = i \/ es[i].name < es[j].name
    BY <1>2, <2>7
  <2>9. m <= es[i].name /\ m \in Nat /\ es[i].name \in Nat
    BY <2>3, <2>5, <2>6, Zenon
  <2>10. m = es[i].name
    BY <2>7, <2>8, <2>9
  <2>11. b.name = es[i].name
    BY <1>9, Zenon DEF Candidate
  <2> QED
    BY <2>1, <2>4, <2>6, <2>10, <2>11
<1> QED
  BY <1>1, <1>2, <1>5, <1>8, <1>9, Zenon DEF BestOf

LEMMA LookupsFollow == LookInv => LookupsAgree
<1> SUFFICES ASSUME LookInv PROVE LookupsAgree
  BY Zenon
<1>1. /\ All \in Seq(Agent)
      /\ \A i \in DOMAIN All : All[i] \in Shown
      /\ \A i, j \in DOMAIN All : i < j => All[i].name < All[j].name
      /\ \A e \in Shown : \E i \in DOMAIN All : All[i] = e
  BY AllLists, Zenon
<1>2. ASSUME NEW n PROVE FindByName(n) # "none" <=> \E i \in DOMAIN All : All[i].name = n
  <2>1. ASSUME FindByName(n) # "none" PROVE \E i \in DOMAIN All : All[i].name = n
    <3>1. Entry(n, FindByName(n)) \in Shown
      BY <2>1, FindsShown
    <3>2. Entry(n, FindByName(n)).name = n
      BY Zenon DEF Entry
    <3> QED
      BY <1>1, <3>1, <3>2
  <2>2. ASSUME NEW i \in DOMAIN All, All[i].name = n PROVE FindByName(n) # "none"
    <3>1. PICK e \in Shown : e = All[i] /\ e \in Agent
      BY <1>1, ShownAgents, Zenon
    <3>2. FindByName(n) = e.card
      BY <2>2, <3>1, FindsShown, Zenon
    <3>3. e.card \in Cards
      BY <3>1, Zenon DEF Agent
    <3> QED
      BY <3>2, <3>3, RegistryAssumption, Zenon
  <2> QED
    BY <2>1, <2>2
<1>3. \A i \in DOMAIN All : All[i].card = FindByName(All[i].name)
  BY <1>1, FindsShown, Zenon
<1>4. PICK es \in Seq(Agent) : es = All
  BY <1>1, Zenon
<1>5. ASSUME NEW req \in Requests
      PROVE  /\ RouteByScore(es, req) = IF Winners(es, req) = {} THEN noAgent ELSE Min({e.name : e \in Winners(es, req)})
             /\ req.skill # "" /\ req.tags = <<>> /\ req.runtime = "" => RouteByScore(es, req) = Route(es, req.skill)
             /\ req.skill = "" /\ req.runtime = "" /\ Len(req.tags) = 1 => RouteByScore(es, req) = First(FindByTag(es, req.tags[1]))
  <2>1. RouteByScore(es, req) = IF Winners(es, req) = {} THEN noAgent ELSE Min({e.name : e \in Winners(es, req)})
    BY <1>1, <1>4, RouteBest
  <2>2. ASSUME req.skill # "" /\ req.tags = <<>> /\ req.runtime = "" PROVE RouteByScore(es, req) = Route(es, req.skill)
    <3>1. PICK I \in SUBSET DOMAIN es : I = {i \in DOMAIN es : HasSkill(es[i].card, req.skill)}
      BY Zenon
    <3>2. ASSUME NEW c PROVE Score(c, req) = IF HasSkill(c, req.skill) THEN 10 ELSE 0
      BY <2>2, Scores, Zenon
    <3>3. \A i \in DOMAIN es : Score(es[i].card, req) = IF i \in I THEN 10 ELSE 0
      BY <3>1, <3>2, Zenon
    <3>4. RouteByScore(es, req) = First(Picked(es, I))
      BY <3>3, RouteFirst
    <3> QED
      BY <3>1, <3>4, Zenon DEF Route, FindBySkill
  <2>3. ASSUME req.skill = "" /\ req.runtime = "" /\ Len(req.tags) = 1
        PROVE  RouteByScore(es, req) = First(FindByTag(es, req.tags[1]))
    <3>1. PICK I \in SUBSET DOMAIN es : I = {i \in DOMAIN es : HasTag(es[i].card, req.tags[1])}
      BY Zenon
    <3>2. ASSUME NEW c PROVE Score(c, req) = IF HasTag(c, req.tags[1]) THEN 5 ELSE 0
      BY <2>3, Scores, Zenon
    <3>3. \A i \in DOMAIN es : Score(es[i].card, req) = IF i \in I THEN 5 ELSE 0
      BY <3>1, <3>2, Zenon
    <3>4. RouteByScore(es, req) = First(Picked(es, I))
      BY <3>3, RouteFirst
    <3> QED
      BY <3>1, <3>4, Zenon DEF FindByTag
  <2> QED
    BY <2>1, <2>2, <2>3, Zenon
<1>6. ASSUME NEW req \in Requests
      PROVE  LET to == RouteByScore(All, req)
                 best == {e \in Range(All) : /\ Score(e.card, req) > 0
                                             /\ \A f \in Range(All) : Score(f.card, req) <= Score(e.card, req)}
             IN /\ to = IF best = {} THEN noAgent ELSE Min({e.name : e \in best})
                /\ req.skill # "" /\ req.tags = <<>> /\ req.runtime = "" => to = Route(All, req.skill)
                /\ req.skill = "" /\ req.runtime = "" /\ Len(req.tags) = 1 => to = First(FindByTag(All, req.tags[1]))
  BY <1>4, <1>5, Zenon DEF Winners
<1> QED
  BY <1>1, <1>2, <1>3, <1>6, Zenon DEF LookupsAgree

\* The lookups agree in every state of the registry: All lists every known
\* agent once, by name, with the card FindByName has for it, and RouteByScore,
\* the loop included, picks the first by name of the highest score, whatever
\* the cards, the file and the requests are (dynamic.go:293-360).
THEOREM LookupsAlwaysAgree == RegistrySpec => []LookupsAgree
<1>1. RegistryInit => LookInv
  BY Zenon DEF RegistryInit, LookInv
<1> QED
  BY <1>1, LookStep, LookupsFollow, PTL DEF RegistrySpec
============================================================================
