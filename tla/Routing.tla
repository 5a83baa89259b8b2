------------------------------ MODULE Routing ------------------------------
(***************************************************************************)
(* The lookups of internal/registry: how a registry file is validated, how *)
(* an agent is scored against a request, and which agent a request is      *)
(* routed to.  Scores are tenths, so 1.0, 0.5 and 0.1 are 10, 5 and 1: the *)
(* sums the code makes of them are exact in a float64 up to one last 0.1.  *)
(***************************************************************************)
EXTENDS Integers, Sequences, FiniteSetsExt, Lists

CONSTANT Card   \* what a card says: [skills: sets of [id, tags], runtime]

Cards == DOMAIN Card

\* validate: the loop returns at the first entry that lacks a field, or whose
\* name or queue subject an earlier entry has.
validate(entries) ==
  \A i \in DOMAIN entries :
    /\ entries[i].complete
    /\ \A j \in 1 .. i - 1 : entries[j].name # entries[i].name /\ entries[j].subject # entries[i].subject

HasSkill(c, id) == \E s \in Card[c].skills : s.id = id
HasTag(c, tag) == \E s \in Card[c].skills : tag \in s.tags

FindBySkill(entries, id) == Picked(entries, {i \in DOMAIN entries : HasSkill(entries[i].card, id)})
FindByTag(entries, tag) == Picked(entries, {i \in DOMAIN entries : HasTag(entries[i].card, tag)})

noAgent == 0   \* no agent: names are positive numbers, in alphabetical order

First(entries) == IF entries = <<>> THEN noAgent ELSE Head(entries).name

Route(entries, id) == First(FindBySkill(entries, id))

\* A tag that the request names twice counts twice.
Score(c, req) ==
  (IF req.skill # "" /\ HasSkill(c, req.skill) THEN 10 ELSE 0)
  + 5 * Cardinality({i \in DOMAIN req.tags : HasTag(c, req.tags[i])})
  + (IF req.runtime # "" /\ Card[c].runtime = req.runtime THEN 1 ELSE 0)

Candidate(name, score) == [name |-> name, score |-> score]

\* Slip: an equal score replaces the best so far.
BetterLast(e, best, req) ==
  IF Score(e.card, req) > 0 /\ Score(e.card, req) >= best.score THEN Candidate(e.name, Score(e.card, req)) ELSE best

\* One turn of the loop: the first of the highest score above zero is kept.
Better(e, best, req) ==
  IF Score(e.card, req) > best.score THEN Candidate(e.name, Score(e.card, req)) ELSE best

\* The loop over the entries: best[n] is the best of the first n.
RouteByScore(entries, req) ==
  LET best[n \in 0 .. Len(entries)] ==
        IF n = 0 THEN Candidate(noAgent, 0) ELSE Better(entries[n], best[n - 1], req)
  IN best[Len(entries)].name
============================================================================
