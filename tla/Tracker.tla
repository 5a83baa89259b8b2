------------------------------ MODULE Tracker ------------------------------
(***************************************************************************)
(* internal/contextmgmt/tracker.go: the context usage of the sessions that *)
(* are being worked on, and the choice of how a session is resurrected.    *)
(* The tracker is called by the Handle calls of the proxy, one session     *)
(* each (internal/proxy/handler.go), and by whatever compacts sessions.    *)
(***************************************************************************)
EXTENDS Integers, FiniteSets, Functions

CONSTANTS Sessions,       \* session ids
          Limits,         \* token limits; Handle passes 0
          TokenCounts,    \* token counts a prompt and its answer may come to
          Configs,        \* thresholds a caller may give, in percent
          TokenThreshold,
          MaxCompactions  \* bound: compactions of a session

\* The CRD keeps its thresholds within 0 .. 100, NewTracker takes any integers.
ASSUME TrackerAssumption ==
  /\ Sessions # {} /\ 0 \in Limits /\ Limits \cup TokenCounts \subseteq Nat
  /\ Configs \subseteq [full : Int, checkpoint : Int]
  /\ TokenThreshold \in Nat /\ MaxCompactions \in Nat

VARIABLES
  config,     \* the thresholds of the tracker
  sessions,   \* the tracked sessions and their metrics
  handle,     \* per session: where its Handle call is
  report      \* per session: the metrics in the published task

trackerVars == <<config, sessions, handle, report>>

noMetrics == [tokens |-> 0, limit |-> 0, turns |-> 0, compactions |-> 0]

\* NewTracker returns an error for thresholds in the wrong order.
NewTracker(c) == c.full < c.checkpoint

TrackerInit ==
  /\ config \in {c \in Configs : NewTracker(c)}
  /\ sessions = [s \in {} |-> noMetrics]
  /\ handle = [s \in Sessions |-> "new"]
  /\ report = [s \in Sessions |-> noMetrics]

\* Percentages p for which p / 100 * 100 comes out below p in a float64.
RoundedDown == {29, 57, 58}

\* UsagePercent: the quotient times 100, cut to an integer.
UsagePercent(m) ==
  IF m.limit = 0 THEN 0
  ELSE IF m.tokens > m.limit THEN 100
  ELSE LET p == (100 * m.tokens) \div m.limit IN
       IF 100 * m.tokens = p * m.limit /\ p \in RoundedDown THEN p - 1 ELSE p

\* Slip: the comparisons include the thresholds.
SelectUpToThreshold(p) ==
  IF p <= config.full THEN "full" ELSE IF p <= config.checkpoint THEN "checkpoint" ELSE "fresh"

SelectResurrectionStrategy(p) ==
  IF p < config.full THEN "full" ELSE IF p < config.checkpoint THEN "checkpoint" ELSE "fresh"

\* A session that is not tracked, an ended one included, gives "fresh" and an error.
SelectResurrectionStrategyForSession(s) ==
  IF s \in DOMAIN sessions THEN SelectResurrectionStrategy(UsagePercent(sessions[s])) ELSE "fresh"

CheckCompaction == {s \in DOMAIN sessions : sessions[s].tokens >= TokenThreshold}

ActiveSessionCount == Cardinality(DOMAIN sessions)

----------------------------------------------------------------------------
\* The steps of Handle that concern the tracker.

\* session/new succeeds: the deferred EndSession is in place.
SessionNew(s) ==
  /\ handle[s] = "new"
  /\ handle' = [handle EXCEPT ![s] = "open"]
  /\ UNCHANGED <<config, sessions, report>>

StartSession(s, limit) ==
  /\ handle[s] = "open"
  /\ handle' = [handle EXCEPT ![s] = "started"]
  /\ sessions' = [u \in DOMAIN sessions \cup {s} |-> IF u = s THEN [noMetrics EXCEPT !.limit = limit] ELSE sessions[u]]
  /\ UNCHANGED <<config, report>>

\* The prompt has been answered.
UpdateTokens(s, n) ==
  /\ handle[s] = "started"
  /\ handle' = [handle EXCEPT ![s] = "updated"]
  /\ sessions' = IF s \in DOMAIN sessions
                 THEN [sessions EXCEPT ![s] = [tokens |-> n, limit |-> @.limit,
                                               turns |-> @.turns + 1, compactions |-> @.compactions]]
                 ELSE sessions
  /\ UNCHANGED <<config, report>>

\* GetMetrics, for the metadata of the task.
GetMetrics(s) ==
  /\ handle[s] = "updated"
  /\ handle' = [handle EXCEPT ![s] = "reported"]
  /\ report' = [report EXCEPT ![s] = IF s \in DOMAIN sessions THEN sessions[s] ELSE noMetrics]
  /\ UNCHANGED <<config, sessions>>

\* Slip: EndSession is called at the end of Handle and not deferred.
EndSessionAtTheEnd(s) ==
  /\ handle[s] \in {"open", "started", "updated", "reported"}
  /\ handle' = [handle EXCEPT ![s] = "ended"]
  /\ sessions' = IF handle[s] = "reported" THEN Restrict(sessions, DOMAIN sessions \ {s}) ELSE sessions
  /\ UNCHANGED <<config, report>>

\* Handle returns, from wherever it is: the deferred EndSession runs.
EndSession(s) ==
  /\ handle[s] \in {"open", "started", "updated", "reported"}
  /\ handle' = [handle EXCEPT ![s] = "ended"]
  /\ sessions' = Restrict(sessions, DOMAIN sessions \ {s})
  /\ UNCHANGED <<config, report>>

\* A compaction that CheckCompaction called for; it may come when the session
\* has ended.
RecordCompaction(s) ==
  /\ s \in DOMAIN sessions => sessions[s].compactions < MaxCompactions
  /\ sessions' = IF s \in DOMAIN sessions THEN [sessions EXCEPT ![s].compactions = @ + 1] ELSE sessions
  /\ UNCHANGED <<config, handle, report>>

TrackerNext ==
  \E s \in Sessions :
    \/ SessionNew(s) \/ GetMetrics(s) \/ EndSession(s) \/ RecordCompaction(s)
    \/ \E limit \in Limits : StartSession(s, limit)
    \/ \E n \in TokenCounts : UpdateTokens(s, n)

TrackerSpec == TrackerInit /\ [][TrackerNext]_trackerVars

----------------------------------------------------------------------------
(* Properties                                                              *)

Metrics == [tokens : TokenCounts \cup {0}, limit : Limits, turns : 0 .. 1, compactions : 0 .. MaxCompactions]

TrackerTypeOK ==
  /\ config \in Configs
  /\ DOMAIN sessions \subseteq Sessions
  /\ \A s \in DOMAIN sessions : sessions[s] \in Metrics
  /\ handle \in [Sessions -> {"new", "open", "started", "updated", "reported", "ended"}]
  /\ report \in [Sessions -> Metrics]

\* Exactly the sessions of Handle calls that are past StartSession are tracked,
\* whichever way the other calls ended (handler.go:159-171).
TrackedAreHandled ==
  /\ DOMAIN sessions = {s \in Sessions : handle[s] \in {"started", "updated", "reported"}}
  /\ ActiveSessionCount = Cardinality({s \in Sessions : handle[s] \in {"started", "updated", "reported"}})

\* The strategy is the one the thresholds ask for by exact arithmetic, for usage
\* capped at the limit, although UsagePercent divides in a float64 and cuts the
\* result (tracker.go:66, :193): full below the first threshold, fresh from the
\* second one on, checkpoint from the first one up to the second.  The rounding
\* shows in one place only: right at a threshold of 29, 57 or 58 percent a
\* session counts as below it.
StrategyIsExact ==
  \A s \in DOMAIN sessions :
    LET m == sessions[s]
        used == 100 * (IF m.tokens > m.limit THEN m.limit ELSE m.tokens)
        Below(p) == used < p * m.limit \/ (used = p * m.limit /\ p \in {29, 57, 58})
    IN m.limit > 0 =>
         SelectResurrectionStrategyForSession(s) =
           IF Below(config.full) THEN "full" ELSE IF Below(config.checkpoint) THEN "checkpoint" ELSE "fresh"
============================================================================
