----------------------------- MODULE HttpClient -----------------------------
(***************************************************************************)
(* The one HTTP client of every collector: get_json (with or without the   *)
(* response headers a paginated reader asks for), post_json and get_text,  *)
(* their retry loop, and the cache on disk that get_json shares with the   *)
(* other commands run in the same directory.                               *)
(*                                                                         *)
(* One URL is modelled; each collector process in Clients asks for it any  *)
(* number of times.  Of a document it is given, what matters is whether it *)
(* is a value or the literal null, which Python reads as None, and when    *)
(* the service answered it (`answered`, an observer), which is what a      *)
(* reader of a cache has to worry about.                                   *)
(***************************************************************************)
EXTENDS Integers

CONSTANTS
  Clients,     \* cockpit processes (collect, admin-collect, ...)
  Uses,        \* the kinds of call each of them makes
  MaxRetries,  \* MAX_RETRIES, COCKPIT_HTTP_MAX_RETRIES
  TTL,         \* _CACHE_TTL_S in ticks, 0 disables the cache
  MaxTime      \* bound: ticks in a behaviour

ASSUME HttpAssumption ==
  /\ MaxRetries \in Nat /\ TTL \in Nat /\ MaxTime \in Nat
  /\ Uses \in [Clients -> SUBSET {"get", "paged", "post", "text"}]

VARIABLES
  now,     \* the wall clock
  file,    \* the cache entry of the URL: entry, torn or absent
  call     \* the call each client is making, or has made last

vars == <<now, file, call>>

-----------------------------------------------------------------------------
Time   == 0 .. MaxTime
None   == -1                                    \* no document, no headers
Kinds  == {"get", "paged", "post", "text"}      \* paged: response_headers is given
Codes  == {"success", "refused", "retry"}       \* retry: RETRY_STATUSES
BodyKinds == {"None", "value"}
Errors == {"none", "transport", "http", "invalid json"}

\* What a service may answer.
Response == [code : Codes, json : {"no", "null", "value"}, retry_after : {"none", "seconds", "negative"}]

NoFile == [kind |-> "absent", code |-> "refused", body |-> "None", answered |-> None, mtime |-> None]
TornFile == [NoFile EXCEPT !.kind = "torn"]
File == [kind : {"absent", "torn", "entry"}, code : Codes, body : BodyKinds,
         answered : Time \cup {None}, mtime : Time \cup {None}]

Result == [status : Codes \cup {"0"}, body : BodyKinds, error : Errors, answered : Time \cup {None}]
NoResult == [status |-> "0", body |-> "None", error |-> "transport", answered |-> None]

Call == [phase : {"idle", "asking", "sleeping", "opening", "writing", "returned", "raised"},
         kind : Kinds, attempt : 0 .. MaxRetries,
         since : Time, headers : Time \cup {None}, result : Result]

NoCall == [phase |-> "idle", kind |-> "get", attempt |-> 0, since |-> 0,
           headers |-> None, result |-> NoResult]

Init ==
  /\ now = 0
  /\ file \in {NoFile, TornFile}
  /\ call = [c \in Clients |-> NoCall]

-----------------------------------------------------------------------------
\* Pagination needs live headers; a POST and a text are never cached.
Cached(kind) == TTL > 0 /\ kind = "get"

\* Slip: an entry never expires.
HitForever == file.kind = "entry"

\* _cache_read: a whole entry no older than the time to live.
Hit == file.kind = "entry" /\ now - file.mtime <= TTL

Return(c, cl, result) == call' = [call EXCEPT ![c] = [cl EXCEPT !.phase = "returned", !.result = result]]

\* A collector calls; a fresh cache entry answers without any request.
Ask(c, kind) ==
  LET start == [NoCall EXCEPT !.phase = "asking", !.kind = kind, !.since = now]
  IN  /\ call[c].phase \in {"idle", "returned"}
      /\ IF Cached(kind) /\ Hit
           THEN Return(c, start, [status |-> file.code, body |-> file.body, error |-> "none",
                                  answered |-> file.answered])
           ELSE call' = [call EXCEPT ![c] = start]
      /\ UNCHANGED <<now, file>>

\* The response holds a document: any text, for a JSON call one that parses.
Document(kind, resp) == IF kind = "text" THEN resp.code = "success" ELSE resp.json # "no"

\* Slip: a body that is not JSON is no error on a successful status.
ParsedLeniently(kind, resp) ==
  [status   |-> resp.code,
   body     |-> IF Document(kind, resp) /\ (kind = "text" \/ resp.json = "value") THEN "value" ELSE "None",
   error    |-> IF Document(kind, resp) \/ resp.code = "success" THEN "none" ELSE "http",
   answered |-> IF Document(kind, resp) THEN now ELSE None]

\* What the caller is told of the response the loop ends with; a null is no body.
Parsed(kind, resp) ==
  [status   |-> resp.code,
   body     |-> IF Document(kind, resp) /\ (kind = "text" \/ resp.json = "value") THEN "value" ELSE "None",
   error    |-> IF Document(kind, resp) THEN "none"
                ELSE IF resp.code = "success" THEN "invalid json" ELSE "http",
   answered |-> IF Document(kind, resp) THEN now ELSE None]

\* Slip: the headers of the first response are kept.
HeadersKept(cl) == IF cl.kind = "paged" /\ cl.headers = None THEN now ELSE cl.headers

\* response_headers.clear(); response_headers.update(resp.headers)
Headers(cl) == IF cl.kind = "paged" THEN now ELSE cl.headers

\* Another attempt is owed after a retryable status.
Retries(cl, resp) == resp.code = "retry" /\ cl.attempt < MaxRetries

\* The response is the last: its result is returned, after the cache was
\* written when it may be.
Answer(c, resp) ==
  LET cl == [call[c] EXCEPT !.headers = Headers(call[c])]
  IN  /\ call[c].phase = "asking"
      /\ ~Retries(cl, resp)
      /\ IF Cached(cl.kind) /\ Document(cl.kind, resp)
           THEN call' = [call EXCEPT ![c] = [cl EXCEPT !.phase = "opening", !.result = Parsed(cl.kind, resp)]]
           ELSE Return(c, cl, Parsed(cl.kind, resp))
      /\ UNCHANGED <<now, file>>

\* The response asks for patience.  _retry_delay hands a negative Retry-After
\* to time.sleep, which raises.
AnswerRetry(c, resp) ==
  LET cl == [call[c] EXCEPT !.headers = Headers(call[c])]
  IN  /\ call[c].phase = "asking"
      /\ Retries(cl, resp)
      /\ call' = [call EXCEPT ![c] =
           [cl EXCEPT !.phase = IF resp.retry_after = "negative" THEN "raised" ELSE "sleeping"]]
      /\ UNCHANGED <<now, file>>

\* Slip: the last transport failure is retried too.
LoseForever(c) ==
  LET cl == call[c]
  IN  /\ cl.phase = "asking"
      /\ call' = [call EXCEPT ![c] = [cl EXCEPT !.phase = "sleeping",
                    !.attempt = IF cl.attempt = MaxRetries THEN @ - 1 ELSE @]]
      /\ UNCHANGED <<now, file>>

\* httpx.HTTPError: a timeout, a refused or a dropped connection.
Lose(c) ==
  LET cl == call[c]
  IN  /\ cl.phase = "asking"
      /\ IF cl.attempt < MaxRetries
           THEN call' = [call EXCEPT ![c] = [cl EXCEPT !.phase = "sleeping"]]
           ELSE Return(c, cl, NoResult)
      /\ UNCHANGED <<now, file>>

Wake(c) ==
  /\ call[c].phase = "sleeping"
  /\ call' = [call EXCEPT ![c].phase = "asking", ![c].attempt = @ + 1]
  /\ UNCHANGED <<now, file>>

\* _cache_write is a plain write_text: opening truncates the entry.
OpenCache(c) ==
  /\ call[c].phase = "opening"
  /\ file' = [TornFile EXCEPT !.mtime = now]
  /\ call' = [call EXCEPT ![c].phase = "writing"]
  /\ UNCHANGED now

\* The document is there when the write ends.  Two processes that wrote at
\* once may leave a mixture of their texts, which does not parse; a disk error
\* leaves a prefix and is swallowed.
WriteCache(c) ==
  LET mine == [kind |-> "entry", code |-> call[c].result.status, body |-> call[c].result.body,
               answered |-> call[c].result.answered, mtime |-> now]
  IN  /\ call[c].phase = "writing"
      /\ file' \in {mine, [TornFile EXCEPT !.mtime = now]}
      /\ Return(c, call[c], call[c].result)
      /\ UNCHANGED now

\* The process is killed (the job's timeout, an interrupt): what it was
\* writing stays as it is.
Kill(c) ==
  /\ call[c].phase \notin {"idle", "returned"}
  /\ call' = [call EXCEPT ![c] = NoCall]
  /\ UNCHANGED <<now, file>>

\* Time passes; a write to the disk takes less than a tick.
Tick ==
  /\ now < MaxTime
  /\ \A c \in Clients : call[c].phase \notin {"opening", "writing"}
  /\ now' = now + 1
  /\ UNCHANGED <<file, call>>

Work(c) ==
  \/ \E resp \in Response : Answer(c, resp) \/ AnswerRetry(c, resp)
  \/ Lose(c) \/ Wake(c) \/ OpenCache(c) \/ WriteCache(c)

Next ==
  \/ \E c \in Clients : (\E kind \in Uses[c] : Ask(c, kind)) \/ Work(c) \/ Kill(c)
  \/ Tick

Spec == Init /\ [][Next]_vars

\* httpx gives up after TIMEOUT_S and sleeps end: a call goes on by itself.
FairSpec == Spec /\ \A c \in Clients : WF_vars(Work(c))

-----------------------------------------------------------------------------
\* Types of every variable of the client.
TypeOK ==
  /\ now \in Time
  /\ file \in File
  /\ call \in [Clients -> Call]

\* The step that hands client c its result.
Returns(c) == call'[c].phase = "returned" /\ call'[c] # call[c]

\* A document is never older than the time to live of the cache, whatever torn,
\* rewritten or leftover file the call met; one that bypasses the cache is
\* read during the call.
ResultIsRecent ==
  [][\A c \in Clients : (Returns(c) /\ call'[c].result.answered # None) =>
       call'[c].result.answered >= IF call'[c].kind = "get" THEN call'[c].since - TTL
                                                            ELSE call'[c].since]_vars

\* A collector may trust `error`, though not the absence of a body: there is no error
\* exactly when a service gave a document, now or to the cache, be it null; a body
\* never comes with an error; and a call no service answered always says so.
ErrorTellsTheTruth ==
  \A c \in Clients : call[c].phase = "returned" =>
    /\ call[c].result.error = "none" <=> call[c].result.answered # None
    /\ call[c].result.body = "value" => call[c].result.error = "none"
    /\ call[c].result.status = "0" => call[c].result.error = "transport"

\* The Link header a paginated reader follows is the one of the page it was
\* given, not of an earlier attempt or of the page a cache kept.
HeadersMatchBody ==
  \A c \in Clients : (call[c].phase = "returned" /\ call[c].kind = "paged") =>
    (call[c].result.answered # None => call[c].headers = call[c].result.answered)

\* Every call ends: returned, raised, or killed with its process.
CallsReturn ==
  \A c \in Clients : call[c].phase = "asking" ~> call[c].phase \in {"returned", "raised", "idle"}

=============================================================================
