------------------------------- MODULE GitHub -------------------------------
(***************************************************************************)
(* How the collector reads one GitHub repository: every request tries the  *)
(* token, then no credentials, then (for some endpoints) the gh command;   *)
(* listings are read page by page while maintainers add and remove items,  *)
(* the token dies and the anonymous quota runs out.  The pull requests of  *)
(* a repository are not listed: they are what the repository counts beyond *)
(* the issues that were.                                                   *)
(*                                                                         *)
(* `items` is whatever the endpoint lists, newest first: the tags, or the  *)
(* open issues mixed with the pull requests.                               *)
(***************************************************************************)
EXTENDS Integers, FiniteSets, SequencesExt

CONSTANTS
  PageSize,      \* per_page, 100 in the code
  MaxItems,      \* bound: items ever created
  Quota,         \* bound: anonymous requests the hour allows
  PullRequests   \* the items of the issue list that are pull requests

ASSUME GitHubAssumption ==
  /\ PageSize \in Nat \ {0} /\ MaxItems \in Nat /\ Quota \in Nat
  /\ PullRequests \subseteq 1 .. MaxItems

VARIABLES
  token,   \* what GITHUB_TOKEN holds
  quota,   \* anonymous requests left
  gh,      \* the gh command is there and logged in
  items,   \* the repository's items, newest first
  made,    \* items created so far
  probe    \* the collector's call

vars == <<token, quota, gh, items, made, probe>>

-----------------------------------------------------------------------------
Item   == 1 .. MaxItems
Tokens == {"none", "valid", "stale"}
Calls  == {"tags", "open_issues", "latest_release_fact", "repo_stats"}
Listings == {"tags", "open_issues"}

\* Statuses as the code tells them apart; "down" is a timeout or exhausted
\* retries, "denied" a 401 or 403 (a rejected token, a spent quota).
Statuses == {"200", "denied", "down"}

NoCount == -1

Phases == {"idle", "asking", "anonymous", "gh", "done"}

\* `_open_issues_count` is GitHub's count of issues and pull requests together.
\* whole, at_start, removed and added are observers: whether the listing met no
\* failure, what was there when it began and how the repository changed since.
Probe == [call : Calls, phase : Phases, page : 1 .. MaxItems + 1,
          names : Seq(Item), status : Statuses,
          _open_issues_count : 0 .. MaxItems \cup {NoCount}, whole : BOOLEAN,
          at_start : SUBSET Item, removed : SUBSET Item, added : SUBSET Item]

Idle == [call |-> "tags", phase |-> "idle", page |-> 1, names |-> <<>>, status |-> "200",
         _open_issues_count |-> NoCount, whole |-> FALSE,
         at_start |-> {}, removed |-> {}, added |-> {}]

Init ==
  /\ token \in Tokens /\ gh \in BOOLEAN
  /\ quota \in 0 .. Quota
  /\ made \in 0 .. MaxItems
  /\ items = [i \in 1 .. made |-> made + 1 - i]
  /\ probe = Idle

-----------------------------------------------------------------------------
\* The repository and the credentials, which change on their own.
Running == probe.phase \in {"asking", "anonymous", "gh"}

Create ==
  /\ Running /\ made < MaxItems
  /\ made' = made + 1
  /\ items' = <<made + 1>> \o items
  /\ probe' = [probe EXCEPT !.added = @ \cup {made + 1}]
  /\ UNCHANGED <<token, quota, gh>>

Delete ==
  /\ Running
  /\ \E i \in DOMAIN items :
       /\ items' = RemoveAt(items, i)
       /\ probe' = [probe EXCEPT !.removed = @ \cup {items[i]}]
  /\ UNCHANGED <<token, quota, gh, made>>

Revoke ==
  /\ Running /\ token = "valid"
  /\ token' = "stale"
  /\ UNCHANGED <<quota, gh, items, made, probe>>

-----------------------------------------------------------------------------
Call(c) ==
  /\ probe.phase = "idle" /\ c # "repo_stats"
  /\ probe' = [Idle EXCEPT !.call = c, !.phase = "asking", !.at_start = Range(items)]
  /\ UNCHANGED <<token, quota, gh, items, made>>

\* Once the issues are listed, whatever came of it, the repository is asked.
CallStats ==
  /\ probe.phase = "done" /\ probe.call = "open_issues"
  /\ probe' = [probe EXCEPT !.call = "repo_stats", !.phase = "asking", !.whole = (probe.status = "200")]
  /\ UNCHANGED <<token, quota, gh, items, made>>

Page(p) == SubSeq(items, (p - 1) * PageSize + 1,
                  IF p * PageSize < Len(items) THEN p * PageSize ELSE Len(items))

\* A document is one answer.
ReadDocument(p) ==
  [p EXCEPT !.phase = "done", !.status = "200",
            !._open_issues_count = IF p.call = "repo_stats" THEN Len(items) ELSE @]

\* Slip: the next page is asked for by the number of names read so far, plus one.
ReadPageSkipping(p) ==
  LET body == Page(p.page)
      read == [p EXCEPT !.names = @ \o body]
  IN  IF Len(body) < PageSize THEN [read EXCEPT !.phase = "done", !.status = "200"]
      ELSE [read EXCEPT !.phase = "asking", !.page = @ + 2]

\* Slip: the same page is asked for again.
ReadPageAgain(p) ==
  LET body == Page(p.page)
  IN  IF Len(body) < PageSize
        THEN [p EXCEPT !.phase = "done", !.status = "200", !.names = @ \o body]
        ELSE [p EXCEPT !.phase = "asking", !.names = body]

\* A page arrived: a short one ends the listing, a full one asks for the next.
ReadPage(p) ==
  LET body == Page(p.page)
      read == [p EXCEPT !.names = @ \o body]
  IN  IF Len(body) < PageSize THEN [read EXCEPT !.phase = "done", !.status = "200"]
      ELSE [read EXCEPT !.phase = "asking", !.page = @ + 1]

Read(p) == IF p.call \in Listings THEN ReadPage(p) ELSE ReadDocument(p)

\* Some calls fall back on the gh command; the others end with what they have.
HasFallback(c) == c \in {"tags", "latest_release_fact", "repo_stats"}

Refused(p, status) ==
  [p EXCEPT !.phase = IF HasFallback(p.call) THEN "gh" ELSE "done", !.status = status]

\* The request with the headers of _headers: authenticated when there is a
\* token, which GitHub may reject even when it is valid (secondary limits).
Ask ==
  /\ probe.phase = "asking"
  /\ \/ token = "valid" /\ probe' = Read(probe) /\ UNCHANGED quota
     \/ token # "none" /\ probe' = [probe EXCEPT !.phase = "anonymous"] /\ UNCHANGED quota
     \/ token = "none" /\ quota > 0 /\ quota' = quota - 1 /\ probe' = Read(probe)
     \/ token = "none" /\ quota = 0 /\ probe' = Refused(probe, "denied") /\ UNCHANGED quota
     \/ probe' = Refused(probe, "down") /\ UNCHANGED quota
  /\ UNCHANGED <<token, gh, items, made>>

\* A 401 or 403 to the token is retried without it; if that is denied too, the
\* first answer stands.
AskAnonymously ==
  /\ probe.phase = "anonymous"
  /\ \/ quota > 0 /\ quota' = quota - 1 /\ probe' = Read(probe)
     \/ quota = 0 /\ probe' = Refused(probe, "denied") /\ UNCHANGED quota
     \/ probe' = Refused(probe, "down") /\ UNCHANGED quota
  /\ UNCHANGED <<token, gh, items, made>>

\* gh api, with credentials of its own, killed after GH_TIMEOUT_S.
AskGh ==
  /\ probe.phase = "gh"
  /\ \/ gh /\ probe' = Read(probe)
     \/ probe' = [probe EXCEPT !.phase = "done"]
  /\ UNCHANGED <<token, quota, gh, items, made>>

Work == Ask \/ AskAnonymously \/ AskGh

Next == Create \/ Delete \/ Revoke \/ (\E c \in Calls : Call(c)) \/ CallStats \/ Work

Spec == Init /\ [][Next]_vars

\* Every request ends (TIMEOUT_S, GH_TIMEOUT_S), so a started call goes on.
FairSpec == Spec /\ WF_vars(Work)

-----------------------------------------------------------------------------
Listed == Range(probe.names)
Failed == probe.status # "200"
Done   == probe.phase = "done"

\* open_issues counts every item it met that is not a pull request.
Counted(names) == Cardinality({n \in DOMAIN names : names[n] \notin PullRequests})

\* Slip: the pull requests met are subtracted too.
open_prs_of_items(p) == p._open_issues_count - Len(p.names)

\* open_prs, from two answers of two moments.
open_prs(p) ==
  IF p._open_issues_count >= Counted(p.names) THEN p._open_issues_count - Counted(p.names) ELSE 0

-----------------------------------------------------------------------------
\* Types of every variable of the collector.
TypeOK ==
  /\ token \in Tokens /\ gh \in BOOLEAN
  /\ quota \in 0 .. Quota /\ made \in 0 .. MaxItems
  /\ items \in Seq(Item)
  /\ probe \in Probe

\* Of the items that were there all along, a listing loses at most one per item
\* removed while it was paging: additions shift the pages towards repetition, never
\* towards omission.  A listing ended by a failing page, which the callers cannot
\* tell from a whole one, keeps that promise down to the oldest item it read:
\* what it lacks is the end, never the newest tags or issues.
LossIsBoundedByRemovals ==
  (Done /\ probe.call \in Listings) =>
    LET reached == {i \in probe.at_start : ~Failed \/ \E j \in Listed : j <= i}
    IN  Cardinality(reached \ (probe.removed \cup Listed)) <= Cardinality(probe.removed)

\* The published number of pull requests is the difference of a listing and a
\* count taken later: it is off by no more than what was opened and closed in
\* between, exact when nothing was, and a listing cut short only makes it larger.
PullRequestsAreOffByChanges ==
  (Done /\ ~Failed /\ probe.call = "repo_stats") =>
    LET before == Cardinality(probe.at_start \cap PullRequests)
    IN  /\ open_prs(probe) >= before - Cardinality(probe.removed)
        /\ probe.whole =>
             open_prs(probe) <= before + Cardinality(probe.added) + Cardinality(probe.removed)

\* The paging of a listing ends.
CallEnds == Running ~> Done

=============================================================================
