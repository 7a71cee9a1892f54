------------------------------- MODULE Sentry -------------------------------
(***************************************************************************)
(* How the collector counts Sentry issues: two listings, unresolved then   *)
(* resolved, each followed from cursor to cursor, then one question about  *)
(* the users of the unresolved ones.  Meanwhile events arrive, which move  *)
(* an issue to the head of the stream and reopen a resolved one, and       *)
(* people resolve issues.  The service may fail, or answer without the     *)
(* Link header, with one that carries no cursor, or with an old cursor.    *)
(***************************************************************************)
EXTENDS Integers, FiniteSets, Sequences, Functions

CONSTANTS
  Issue,      \* issues the project ever had
  PageSize,   \* issues of one page, 25 or 100 in the code
  MaxPages,   \* pages a listing may take, 100 in the code
  MaxClock    \* bound: time stamps of activity

ASSUME SentryAssumption ==
  /\ PageSize \in Nat \ {0} /\ MaxPages \in Nat \ {0}
  /\ IsFiniteSet(Issue) /\ MaxClock \in Nat /\ Cardinality(Issue) <= MaxClock

VARIABLES
  seen,    \* when each issue last had an event; no two at once
  state,   \* what each issue is
  clock,   \* the newest event
  fetch,   \* the listing in progress
  out      \* what collect returns

sentryVars == <<seen, state, clock, fetch, out>>

-----------------------------------------------------------------------------
Queries == {"unresolved", "resolved"}
Phases  == {"idle", "listing", "users", "done"}
Unknown == -1
Times   == 1 .. MaxClock
Ahead   == MaxClock + 1   \* no cursor yet: the listing starts at the head

\* steady is an observer: the issues the query matched when the listing began
\* and that nothing has touched since.
Fetch == [query : Queries, cursor : Times \cup {Ahead}, cursors : SUBSET Times,
          pages : 0 .. MaxPages, collected : Seq(Issue), steady : SUBSET Issue]

\* Lists and not only counts, to be able to say what was counted; missed and
\* changed are observers.
Out == [phase : Phases, available : BOOLEAN, error : BOOLEAN, users : {"unknown", "known"},
        unresolved : Int, resolved : Int,
        counted : [Queries -> Seq(Issue)], missed : SUBSET Issue, changed : SUBSET Issue]

Nothing == [phase |-> "idle", available |-> FALSE, error |-> FALSE, users |-> "unknown",
            unresolved |-> Unknown, resolved |-> Unknown,
            counted |-> [q \in Queries |-> <<>>], missed |-> {}, changed |-> {}]

Matching(q) == {i \in Issue : state[i] = q}

\* Slip: the two listings share the list they collect into.
BeginSharing(q) == [query |-> q, cursor |-> Ahead, cursors |-> {}, pages |-> 0,
                    collected |-> IF q = "resolved" THEN fetch.collected ELSE <<>>,
                    steady |-> Matching(q)]

\* A listing before its first page.
Begin(q) == [query |-> q, cursor |-> Ahead, cursors |-> {}, pages |-> 0,
             collected |-> <<>>, steady |-> Matching(q)]

\* Nothing but its activity tells an issue from another: one order stands for all.
InitSentry ==
  /\ seen = CHOOSE s \in [Issue -> 1 .. Cardinality(Issue)] : IsInjective(s)
  /\ state \in [Issue -> Queries]
  /\ clock = Cardinality(Issue)
  /\ fetch = Begin("unresolved")
  /\ out = Nothing

-----------------------------------------------------------------------------
\* The project's users and maintainers.
Disturb(i) ==
  /\ out.phase = "listing"
  /\ fetch' = [fetch EXCEPT !.steady = @ \ {i}]
  /\ out' = [out EXCEPT !.changed = @ \cup {i}]

Event(i) ==
  /\ clock < MaxClock
  /\ clock' = clock + 1
  /\ seen' = [seen EXCEPT ![i] = clock + 1]
  /\ state' = [state EXCEPT ![i] = "unresolved"]
  /\ Disturb(i)

Resolve(i) ==
  /\ state[i] = "unresolved"
  /\ state' = [state EXCEPT ![i] = "resolved"]
  /\ Disturb(i)
  /\ UNCHANGED <<seen, clock>>

-----------------------------------------------------------------------------
\* What the service answers: the issues of the query older than the cursor, latest
\* activity first, and of them one page.
Older(f) == {i \in Matching(f.query) : seen[i] < f.cursor}

More(f) == Cardinality(Older(f)) > PageSize

\* There is one such page.
Bodies(f) ==
  {body \in [1 .. (IF More(f) THEN PageSize ELSE Cardinality(Older(f))) -> Older(f)] :
     /\ \A m, n \in DOMAIN body : m < n => seen[body[m]] > seen[body[n]]
     /\ \A i \in Older(f) \ Range(body), n \in DOMAIN body : seen[i] < seen[body[n]]}

NextCursor(body) == seen[body[Len(body)]]

\* The entry of the Link header that says rel="next": results="false",
\* results="true" with the cursor that follows, with none, or with one that was
\* given before; or no header at all.
Links(f, body) ==
  {[next |-> "absent"], [next |-> "garbled"]}
    \cup (IF More(f) THEN {[next |-> "true", cursor |-> NextCursor(body)]} ELSE {[next |-> "false"]})
    \cup {[next |-> "true", cursor |-> c] : c \in f.cursors}

-----------------------------------------------------------------------------
Collect(token) ==
  /\ out.phase = "idle"
  /\ IF token THEN out' = [out EXCEPT !.phase = "listing"] /\ fetch' = Begin("unresolved")
              ELSE out' = [out EXCEPT !.phase = "done", !.error = TRUE] /\ UNCHANGED fetch
  /\ UNCHANGED <<seen, state, clock>>

\* A listing ended, in full (known) or given up: without the unresolved issues
\* there is no signal, without the resolved ones there is one.
Ended(o, known) ==
  IF fetch.query = "resolved" THEN [o EXCEPT !.phase = "users"]
  ELSE IF known THEN o
  ELSE [o EXCEPT !.phase = "done", !.error = TRUE]

\* The count of a listing is the number of issues it collected.
Complete(body) ==
  LET got == fetch.collected \o body
      counts == [out EXCEPT !.counted[fetch.query] = got, !.missed = @ \cup (fetch.steady \ Range(got))]
  IN  /\ out' = Ended(IF fetch.query = "unresolved" THEN [counts EXCEPT !.unresolved = Len(got)]
                                                     ELSE [counts EXCEPT !.resolved = Len(got)], TRUE)
      /\ fetch' = IF fetch.query = "unresolved" THEN Begin("resolved") ELSE fetch

GiveUp ==
  /\ out' = Ended(out, FALSE)
  /\ UNCHANGED fetch

\* Follow the cursor, unless the listing has had its MaxPages.
Follow(body, cursor) ==
  IF fetch.pages + 1 = MaxPages THEN GiveUp
  ELSE /\ fetch' = [fetch EXCEPT !.collected = @ \o body, !.pages = @ + 1,
                                 !.cursor = cursor, !.cursors = @ \cup {cursor}]
       /\ UNCHANGED out

\* Slip: a full page without metadata is taken for the last.
PageTrusting(body, link) ==
  CASE link.next \in {"absent", "false"} -> Complete(body)
    [] link.next = "garbled" -> GiveUp
    [] link.next = "true" -> IF link.cursor \in fetch.cursors THEN GiveUp ELSE Follow(body, link.cursor)

\* Slip: a repeated cursor is asked for again, as if it were an outage.
PageRetrying(body, link) ==
  CASE link.next = "false" -> Complete(body)
    [] link.next = "absent" -> IF Len(body) >= PageSize THEN GiveUp ELSE Complete(body)
    [] link.next = "garbled" -> GiveUp
    [] link.next = "true" -> IF link.cursor \in fetch.cursors
                               THEN fetch' = [fetch EXCEPT !.cursor = link.cursor] /\ UNCHANGED out
                               ELSE Follow(body, link.cursor)

\* What one page leads to.
Page(body, link) ==
  CASE link.next = "false" -> Complete(body)
    [] link.next = "absent" -> IF Len(body) >= PageSize THEN GiveUp ELSE Complete(body)
    [] link.next = "garbled" -> GiveUp
    [] link.next = "true" -> IF link.cursor \in fetch.cursors THEN GiveUp ELSE Follow(body, link.cursor)

\* One request of a listing: a page, or an error of any kind.
Get ==
  /\ out.phase = "listing"
  /\ \/ \E body \in Bodies(fetch) : \E link \in Links(fetch, body) : Page(body, link)
     \/ GiveUp
  /\ UNCHANGED <<seen, state, clock>>

\* The users of the unresolved issues, deduplicated by the service: none to ask
\* about when there is no issue; the request may be too long, or fail.
AskUsers ==
  /\ out.phase = "users"
  /\ \E known \in BOOLEAN :
       /\ out.unresolved = 0 => known
       /\ out' = [out EXCEPT !.phase = "done", !.available = TRUE,
                             !.users = IF known THEN "known" ELSE "unknown"]
  /\ UNCHANGED <<seen, state, clock, fetch>>

SentryWork == Get \/ AskUsers

NextSentry ==
  \/ \E token \in BOOLEAN : Collect(token)
  \/ \E i \in Issue : Event(i) \/ Resolve(i)
  \/ SentryWork

SpecSentry == InitSentry /\ [][NextSentry]_sentryVars

\* get_json returns (TIMEOUT_S and a bounded number of attempts), so a collect
\* that started goes on.
FairSentry == SpecSentry /\ WF_sentryVars(SentryWork)

-----------------------------------------------------------------------------
Counted(q) == Range(out.counted[q])

\* Types of every variable of the collector.
SentryTypeOK ==
  /\ seen \in [Issue -> Times] /\ IsInjective(seen)
  /\ state \in [Issue -> Queries] /\ clock \in 0 .. MaxClock
  /\ fetch \in Fetch /\ out \in Out

\* "never publish a truncated issue count": a published tally has, exactly once,
\* every issue that matched its query from the first page to the last and had
\* no event in between; whatever metadata the service dropped or repeated.
\* (An issue that has an event moves to the head, behind the cursor.)
CountIsWhole ==
  /\ out.missed = {}
  /\ \A q \in Queries : IsInjective(out.counted[q])

\* An issue is in both tallies only if it had an event or was resolved while the
\* two listings were read.
TalliesOverlapByChanges == Counted("unresolved") \cap Counted("resolved") \subseteq out.changed

\* A collect ends, whatever cursors the service gives.
CollectEnds == (out.phase = "listing") ~> (out.phase = "done")

=============================================================================
