------------------------------- MODULE Branch -------------------------------
(***************************************************************************)
(* internal/branch: the names of worker branches, and WorkerSession, which *)
(* makes a branch for an attempt at a task, pushes it when the attempt is  *)
(* done and deletes it when the attempt is given up.  A name is a sequence *)
(* of characters; "." stands for all that are not allowed in a branch name *)
(* and "x" or "y" for the ones that are.  Git itself is external.          *)
(***************************************************************************)
EXTENDS Integers, Sequences, FiniteSetsExt, Lists

CONSTANTS RawNames,   \* names of agents, as given
          Workers,    \* WorkerSessions for one feature, each with a clone
          Attempts    \* bound: attempts made by all of them

\* "/" is one of the characters that "." stands for.
ASSUME BranchAssumption == Attempts \in Nat /\ RawNames \subseteq Seq(STRING \ {"/"})

VARIABLES
  agentName,  \* per worker: its AgentName
  made,       \* the branches made so far
  local,      \* per worker: the branches of its clone
  head,       \* per worker: the branch checked out
  prev,       \* per worker: the branch checked out before, git's "-"
  tracking,   \* per worker: the remote branches its clone knows of
  branch,     \* per worker: w.branch
  remote,     \* the worker branches on the remote
  counted,    \* per worker: the prior sessions its last Start logged
  base,       \* history, per worker: where the Start that set w.branch found HEAD
  stray,      \* history, per worker: branches left by a Start that returned an error
  aborted     \* history: workers with an Abort since then that returned nil

gitVars == <<local, head, prev, tracking, remote>>
branchVars == <<agentName, made, gitVars, branch, counted, base, stray, aborted>>

----------------------------------------------------------------------------
(* naming.go                                                               *)

\* strings.ReplaceAll(s, "--", "-"): pairs from left to right, so of a run of
\* hyphens every second one goes.
ReplacePairs(s) ==
  Picked(s, {i \in DOMAIN s : s[i] = "-" => (i - Max({0} \cup {j \in 1 .. i - 1 : s[j] # "-"})) % 2 = 1})

\* The loop goes on while there are pairs.  Each turn makes the name shorter
\* then, and leaves it alone otherwise, so as many turns as characters do.
Collapse(s) ==
  LET turn[n \in 0 .. Len(s)] == IF n = 0 THEN s ELSE ReplacePairs(turn[n - 1]) IN turn[Len(s)]

\* strings.Trim(s, "-")
Trim(s) ==
  LET kept == {i \in DOMAIN s : s[i] # "-"}
  IN IF kept = {} THEN <<>> ELSE SubSeq(s, Min(kept), Max(kept))

Hyphened(s) == [i \in DOMAIN s |-> IF s[i] = "." THEN "-" ELSE s[i]]

Sanitize(s) == Trim(Collapse(Hyphened(s)))

\* String and Parse, after the prefix: three parts divided by slashes.
String(f, a, id) == f \o <<"/">> \o a \o <<"/">> \o id

Slashes(ref) == {i \in DOMAIN ref : ref[i] = "/"}

\* SplitN(rest, "/", 3); <<>> where Parse returns an error.
Parse(ref) ==
  IF Cardinality(Slashes(ref)) < 2 THEN <<>>
  ELSE LET i == Min(Slashes(ref))
           j == Min(Slashes(ref) \ {i})
           parts == <<SubSeq(ref, 1, i - 1), SubSeq(ref, i + 1, j - 1), SubSeq(ref, j + 1, Len(ref))>>
       IN IF <<>> \in Range(parts) THEN <<>> ELSE parts

\* A branch: the feature is the same for all workers here, and session ids are
\* random in the code, so they only need to differ.
Name(a, n) == [agent |-> a, id |-> n]
feature == <<"x">>
sessionID(n) == [i \in 1 .. n |-> "x"]
Ref(b) == String(feature, b.agent, sessionID(b.id))
main == Name(<<>>, 0)    \* the branch a clone starts with
nil == main              \* no branch in w.branch

----------------------------------------------------------------------------
(* retry.go: over the remote branches the clone knows of                   *)

HasPrefix(s, prefix) == Len(prefix) <= Len(s) /\ \A i \in DOMAIN prefix : s[i] = prefix[i]

\* Slip: the prefix does not end with a slash.
FindRetriesOpenEnded(w) ==
  LET prefix == feature \o <<"/">> \o Sanitize(agentName[w]) IN
  {b \in tracking[w] : HasPrefix(Ref(b), prefix) /\ Parse(Ref(b)) # <<>>}

\* The refs that begin with the feature and the agent name, each with its slash,
\* and that parse.
FindRetries(w) ==
  LET prefix == String(feature, Sanitize(agentName[w]), <<>>) IN
  {b \in tracking[w] : HasPrefix(Ref(b), prefix) /\ Parse(Ref(b)) # <<>>}

IsRetry(w) == Cardinality(FindRetries(w))

----------------------------------------------------------------------------
(* worker.go                                                               *)

BranchInit ==
  /\ agentName \in [Workers -> RawNames]
  /\ made = {}
  /\ local = [w \in Workers |-> {main}]
  /\ head = [w \in Workers |-> main]
  /\ prev = [w \in Workers |-> main]
  /\ tracking = [w \in Workers |-> {}]
  /\ branch = [w \in Workers |-> nil]
  /\ remote = {}
  /\ counted = [w \in Workers |-> 0]
  /\ base = [w \in Workers |-> main]
  /\ stray = [w \in Workers |-> {}]
  /\ aborted = {}

\* git moves HEAD of w's clone to b and remembers where it was.
SwitchTo(w, b) ==
  /\ head' = [head EXCEPT ![w] = b]
  /\ prev' = [prev EXCEPT ![w] = head[w]]

\* Start: a name that New refuses, and a checkout that does nothing, change
\* nothing.  The retry detection may be missing or fail, which logs no count.  A
\* checkout that is cut short by ctx with its work done leaves the branch, though
\* Start returns an error and w.branch stays as it was.
Start(w) ==
  LET b == Name(Sanitize(agentName[w]), Cardinality(made) + 1) IN
  /\ b.agent # <<>> /\ Cardinality(made) < Attempts
  /\ made' = made \cup {b}
  /\ counted' \in {counted, [counted EXCEPT ![w] = IsRetry(w)]}
  /\ local' = [local EXCEPT ![w] = @ \cup {b}]
  /\ SwitchTo(w, b)
  /\ \/ /\ branch' = [branch EXCEPT ![w] = b]
        /\ base' = [base EXCEPT ![w] = head[w]]
        /\ aborted' = aborted \ {w}
        /\ UNCHANGED stray
     \/ /\ stray' = [stray EXCEPT ![w] = @ \cup {b}]
        /\ UNCHANGED <<branch, base, aborted>>
  /\ UNCHANGED <<agentName, tracking, remote>>

\* Complete: the push is accepted, and its answer comes back or is lost.  There
\* is nothing to push before Start and after the branch was deleted.
Complete(w) ==
  /\ branch[w] # nil /\ branch[w] \in local[w]
  /\ remote' = remote \cup {branch[w]}
  /\ tracking' \in {tracking, [tracking EXCEPT ![w] = @ \cup {branch[w]}]}
  /\ UNCHANGED <<agentName, made, local, head, prev, branch, counted, base, stray, aborted>>

\* git checkout -, whose failure is ignored.
CheckoutPrev(w) == (prev[w] \in local[w] /\ SwitchTo(w, prev[w])) \/ UNCHANGED <<head, prev>>

\* Slip: the failure of the delete is ignored too.
AbortIgnoresDelete(w) ==
  /\ branch[w] # nil
  /\ CheckoutPrev(w)
  /\ local' = [local EXCEPT ![w] = @ \ ({branch[w]} \ {head'[w]})]
  /\ aborted' = aborted \cup {w}
  /\ UNCHANGED <<agentName, made, tracking, branch, remote, counted, base, stray>>

\* Abort: git deletes a branch that is there and not checked out.  It fails
\* otherwise, and when ctx is done by then; it may also be cut short with its work
\* done.  Without an error Abort returns nil; w.branch keeps its value.
Abort(w) ==
  /\ branch[w] # nil
  /\ CheckoutPrev(w)
  /\ \/ /\ branch[w] \in local[w] \ {head'[w]}
        /\ local' = [local EXCEPT ![w] = @ \ {branch[w]}]
        /\ aborted' \in {aborted, aborted \cup {w}}
     \/ UNCHANGED <<local, aborted>>
  /\ UNCHANGED <<agentName, made, tracking, branch, remote, counted, base, stray>>

\* Somebody fetches into the clone.
Fetch(w) ==
  /\ tracking' = [tracking EXCEPT ![w] = remote]
  /\ UNCHANGED <<agentName, made, local, head, prev, branch, remote, counted, base, stray, aborted>>

BranchNext == \E w \in Workers : Start(w) \/ Complete(w) \/ Abort(w) \/ Fetch(w)

BranchSpec == BranchInit /\ [][BranchNext]_branchVars

----------------------------------------------------------------------------
(* Properties                                                              *)

BranchTypeOK ==
  /\ agentName \in [Workers -> RawNames]
  /\ \A w \in Workers : /\ local[w] \subseteq made \cup {main}
                        /\ {head[w], prev[w], branch[w]} \subseteq made \cup {main}
                        /\ tracking[w] \subseteq made
  /\ remote \subseteq made
  /\ counted \in [Workers -> 0 .. Attempts]
  /\ \A w \in Workers : base[w] \in made \cup {main} /\ stray[w] \subseteq made
  /\ aborted \subseteq Workers

\* The characters of a name that are neither hyphens nor to become one.
Letters(s) == Picked(s, {i \in DOMAIN s : s[i] \notin {"-", "."}})

\* A name leads back to its sessions.  Sanitize leaves a name that it leaves alone
\* the second time and that has lost no letter, and the branch made of it parses
\* back into its parts (naming.go:39, :45, :72).  So the prefix FindRetries looks
\* for finds the sessions of agents of the same sanitized name, all that the clone
\* knows of and no other (an agent whose name begins alike is not counted), and
\* what Start logged were sessions that had been pushed (retry.go:48).
NamesLeadBack ==
  \A w \in Workers :
    LET a == Sanitize(agentName[w]) IN
    /\ Sanitize(a) = a
    /\ Letters(a) = Letters(agentName[w])
    /\ a # <<>> => Parse(String(<<"x">>, a, <<"x", "/", "x">>)) = <<<<"x">>, a, <<"x", "/", "x">>>>
    /\ FindRetries(w) = {b \in tracking[w] : b.agent = a}
    /\ counted[w] <= Cardinality({b \in remote : b.agent = a})

\* However often Start and Abort are called and fail, a clone is on the branch of
\* its attempt or where that attempt began; the one other place is a branch of
\* which Start could not say that it had made it.  And when Abort has said that
\* it is done, the branch is gone and the clone off it, so that the next attempt
\* does not build on the one given up (worker.go:53-57, :94-102).
CloneComesBack ==
  \A w \in Workers :
    /\ head[w] \in {branch[w], base[w]} \cup stray[w]
    /\ w \in aborted => branch[w] \notin local[w] /\ head[w] # branch[w]
============================================================================
