-------------------------- MODULE HttpClientProofs --------------------------
(***************************************************************************)
(* Proofs about the client of the services and its paginated reader.  For  *)
(* any number of processes, retries and any time to live, what a call      *)
(* returns is true of the response it ends with, and no older than the     *)
(* cache allows (HttpClient).  For any number of issues and pages, what    *)
(* the Sentry listings count is whole (Sentry).                            *)
(***************************************************************************)
EXTENDS HttpClient, Sentry, SequenceTheorems, FunctionTheorems, FiniteSetTheorems, TLAPS

-----------------------------------------------------------------------------
(* The client. *)

\* A document is no error, whether or not it is a body, and silence is one.
Truthful(result) ==
  /\ result.error = "none" <=> result.answered # None
  /\ result.body = "value" => result.error = "none"
  /\ result.status = "0" => result.error = "transport"

\* A document returned is as recent as the way it was asked for allows.
Recent(cl) ==
  cl.result.answered # None => cl.result.answered >= IF cl.kind = "get" THEN cl.since - TTL ELSE cl.since

\* What a call has promised at time t, when it sleeps, writes or has returned.
SoundCall(cl, t) ==
  /\ cl.since <= t
  /\ cl.phase = "sleeping" => cl.attempt < MaxRetries
  /\ cl.phase \in {"opening", "writing"} =>
       /\ cl.kind = "get" /\ cl.result.answered = t
       /\ cl.result.status # "0" /\ Truthful(cl.result)
  /\ cl.phase = "returned" =>
       /\ Truthful(cl.result) /\ Recent(cl)
       /\ (cl.kind = "paged" /\ cl.result.answered # None) => cl.headers = cl.result.answered

\* A whole entry was read at the moment it is dated.
SoundFile(f, t) == f.kind = "entry" => f.answered = f.mtime /\ f.mtime \in Time /\ f.mtime <= t

\* The inductive invariant.
Sound == SoundFile(file, now) /\ \A c \in Clients : SoundCall(call[c], now)

-----------------------------------------------------------------------------
(* Values. *)

LEMMA TimeIsInteger ==
  /\ 0 \in Time /\ None \notin Time /\ TTL \in Nat
  /\ \A t \in Time : t \in Int /\ t >= 0 /\ t <= MaxTime
BY HttpAssumption DEF Time, None

LEMMA NoValues ==
  /\ NoResult \in Result /\ NoFile \in File /\ TornFile \in File
  /\ Truthful(NoResult) /\ NoResult.answered = None
  /\ NoFile.kind = "absent" /\ TornFile.kind = "torn"
  /\ NoCall \in Call /\ NoCall.phase = "idle" /\ NoCall.since = 0
<1>1. NoResult \in Result /\ Truthful(NoResult) /\ NoResult.answered = None
  BY DEF NoResult, Result, Truthful, Errors, BodyKinds
<1>2. NoFile \in File /\ TornFile \in File /\ NoFile.kind = "absent" /\ TornFile.kind = "torn"
  BY DEF NoFile, TornFile, File, Codes, BodyKinds
<1>3. 0 \in 0 .. MaxRetries /\ 0 \in Time
  BY HttpAssumption, TimeIsInteger
<1>4. NoCall \in Call /\ NoCall.phase = "idle" /\ NoCall.since = 0
  BY <1>1, <1>3 DEF NoCall, Call, Kinds
<1> QED BY <1>1, <1>2, <1>4

\* Reading a response: a document is of this moment, and the error says whether
\* there is one.
LEMMA ParsedIsTruthful ==
  ASSUME now \in Time, NEW kind \in Kinds, NEW resp \in Response
  PROVE  /\ Parsed(kind, resp) \in Result /\ Truthful(Parsed(kind, resp))
         /\ Parsed(kind, resp).answered \in {now, None} /\ Parsed(kind, resp).status # "0"
         /\ Document(kind, resp) => Parsed(kind, resp).answered = now
<1> DEFINE result == Parsed(kind, resp)
<1>1. resp.code \in Codes /\ resp.code # "0" /\ now # None
  BY TimeIsInteger DEF Response, Codes
<1>2. /\ result.status = resp.code /\ result.body \in BodyKinds /\ result.error \in Errors
      /\ result.answered = (IF Document(kind, resp) THEN now ELSE None)
      /\ result.body = "value" => Document(kind, resp)
      /\ result.error = "none" <=> Document(kind, resp)
  BY DEF Parsed, BodyKinds, Errors
<1>3. result \in Result
  BY <1>1, <1>2 DEF Parsed, Result
<1> HIDE DEF result
<1>4. Truthful(result) /\ result.answered \in {now, None} /\ result.status # "0"
      /\ (Document(kind, resp) => result.answered = now)
  BY <1>1, <1>2 DEF Truthful
<1> QED BY <1>3, <1>4 DEF result

-----------------------------------------------------------------------------
(* One step. *)

\* A step of one client, whose call keeps its promises.
LEMMA ClientStep ==
  ASSUME TypeOK, Sound, NEW c \in Clients, NEW cl \in Call, NEW f \in File,
         SoundCall(cl, now), SoundFile(f, now),
         call' = [call EXCEPT ![c] = cl], file' = f, now' = now
  PROVE  TypeOK' /\ Sound'
<1>1. call' \in [Clients -> Call] /\ \A d \in Clients : call'[d] = IF d = c THEN cl ELSE call[d]
  BY DEF TypeOK
<1>2. ASSUME NEW d \in Clients PROVE SoundCall(call'[d], now')
  <2>1. call'[d] \in {cl, call[d]}
    BY <1>1
  <2>2. SoundCall(call[d], now)
    BY DEF Sound
  <2> QED BY <2>1, <2>2
<1> QED BY <1>1, <1>2 DEF TypeOK, Sound

\* A call being made, field by field.
LEMMA CallFields ==
  ASSUME TypeOK, NEW c \in Clients
  PROVE  /\ call[c] \in Call /\ call[c].attempt \in 0 .. MaxRetries /\ call[c].since \in Time
         /\ call[c].kind \in Kinds /\ call[c].headers \in Time \cup {None} /\ call[c].result \in Result
BY DEF TypeOK, Call

\* A call that starts, from the cache or not.
LEMMA AskStep ==
  ASSUME TypeOK, Sound, NEW c \in Clients, NEW kind \in Kinds, Ask(c, kind)
  PROVE  TypeOK' /\ Sound'
<1> DEFINE start == [NoCall EXCEPT !.phase = "asking", !.kind = kind, !.since = now]
           hit == [status |-> file.code, body |-> file.body, error |-> "none",
                   answered |-> file.answered]
           back == [start EXCEPT !.phase = "returned", !.result = hit]
<1>1. now \in Time /\ file \in File /\ file.code \in Codes /\ file.body \in BodyKinds
      /\ SoundFile(file, now)
  BY DEF TypeOK, Sound, File
<1>2. start \in Call /\ start.phase = "asking" /\ start.kind = kind /\ start.since = now
  BY <1>1, NoValues DEF Call
<1>3. now' = now /\ file' = file
  BY DEF Ask
<1>4. CASE Cached(kind) /\ Hit
  <2>1. call' = [call EXCEPT ![c] = back]
    BY <1>4 DEF Ask, Return
  <2>2. kind = "get" /\ file.answered = file.mtime /\ file.answered \in Time
        /\ now - file.answered <= TTL
    BY <1>1, <1>4 DEF Cached, Hit, SoundFile
  <2>3. hit \in Result /\ Truthful(hit) /\ hit.answered = file.answered
    BY <1>1, <2>2, TimeIsInteger DEF Result, Truthful, Codes, Errors
  <2>4. back \in Call /\ back.phase = "returned" /\ back.kind = kind /\ back.since = now
        /\ back.result = hit
    <3> HIDE DEF start, hit
    <3> QED BY <1>2, <2>3 DEF Call
  <2> HIDE DEF back, hit, start
  <2>5. hit.answered >= now - TTL
    BY <1>1, <2>2, <2>3, TimeIsInteger
  <2>6. SoundCall(back, now)
    BY <1>1, <2>2, <2>3, <2>4, <2>5, TimeIsInteger DEF SoundCall, Recent
  <2> QED BY <1>1, <1>3, <2>1, <2>4, <2>6, ClientStep
<1>5. CASE ~(Cached(kind) /\ Hit)
  <2>1. call' = [call EXCEPT ![c] = start]
    BY <1>5 DEF Ask
  <2> HIDE DEF start
  <2>2. SoundCall(start, now)
    BY <1>1, <1>2, TimeIsInteger DEF SoundCall
  <2> QED BY <1>1, <1>2, <1>3, <2>1, <2>2, ClientStep
<1> QED BY <1>4, <1>5

\* The last response.
LEMMA AnswerStep ==
  ASSUME TypeOK, Sound, NEW c \in Clients, NEW resp \in Response, Answer(c, resp)
  PROVE  TypeOK' /\ Sound'
<1> DEFINE cl == [call[c] EXCEPT !.headers = Headers(call[c])]
           result == Parsed(cl.kind, resp)
           stored == [cl EXCEPT !.phase = "opening", !.result = result]
           back == [cl EXCEPT !.phase = "returned", !.result = result]
<1>1. now \in Time /\ file \in File /\ SoundFile(file, now) /\ SoundCall(call[c], now)
  BY DEF TypeOK, Sound
<1>2. cl \in Call /\ cl.kind \in Kinds /\ cl.since \in Time /\ cl.since <= now
      /\ (cl.kind = "paged" => cl.headers = now)
  <2>1. Headers(call[c]) \in Time \cup {None}
    BY <1>1, CallFields DEF Headers
  <2>2. call[c].kind = "paged" => Headers(call[c]) = now
    BY DEF Headers
  <2> QED BY <1>1, <2>1, <2>2, CallFields DEF Call, SoundCall
<1>3. result \in Result /\ Truthful(result) /\ result.answered \in {now, None} /\ result.status # "0"
      /\ (Document(cl.kind, resp) => result.answered = now)
  <2> HIDE DEF cl
  <2> QED BY <1>1, <1>2, ParsedIsTruthful
<1>4. now' = now /\ file' = file
  BY DEF Answer
<1>5. CASE Cached(cl.kind) /\ Document(cl.kind, resp)
  <2>1. call' = [call EXCEPT ![c] = stored]
    BY <1>5 DEF Answer
  <2> HIDE DEF result, cl
  <2>2. stored \in Call /\ stored.phase = "opening" /\ stored.kind = cl.kind
        /\ stored.since = cl.since /\ stored.result = result
    BY <1>2, <1>3 DEF Call
  <2>3. cl.kind = "get"
    BY <1>5 DEF Cached
  <2> HIDE DEF stored
  <2>4. SoundCall(stored, now)
    BY <1>2, <1>3, <1>5, <2>2, <2>3 DEF SoundCall
  <2> QED BY <1>1, <1>4, <2>1, <2>2, <2>4, ClientStep
<1>6. CASE ~(Cached(cl.kind) /\ Document(cl.kind, resp))
  <2>1. call' = [call EXCEPT ![c] = back]
    BY <1>6 DEF Answer, Return
  <2> HIDE DEF result, cl
  <2>2. back \in Call /\ back.phase = "returned" /\ back.kind = cl.kind
        /\ back.since = cl.since /\ back.headers = cl.headers /\ back.result = result
    BY <1>2, <1>3 DEF Call
  <2> HIDE DEF back
  <2>3. Recent(back)
    BY <1>1, <1>2, <1>3, <2>2, TimeIsInteger DEF Recent
  <2>4. SoundCall(back, now)
    BY <1>2, <1>3, <2>2, <2>3 DEF SoundCall
  <2> QED BY <1>1, <1>4, <2>1, <2>2, <2>4, ClientStep
<1> QED BY <1>5, <1>6

\* A response that asks for patience, or raises.
LEMMA AnswerRetryStep ==
  ASSUME TypeOK, Sound, NEW c \in Clients, NEW resp \in Response, AnswerRetry(c, resp)
  PROVE  TypeOK' /\ Sound'
<1> DEFINE phase == IF resp.retry_after = "negative" THEN "raised" ELSE "sleeping"
           next == [[call[c] EXCEPT !.headers = Headers(call[c])] EXCEPT !.phase = phase]
<1>1. now \in Time /\ file \in File /\ SoundFile(file, now) /\ SoundCall(call[c], now)
  BY DEF TypeOK, Sound
<1>2. Headers(call[c]) \in Time \cup {None}
  BY <1>1, CallFields DEF Headers
<1>3. now' = now /\ file' = file /\ call[c].attempt < MaxRetries
  BY DEF AnswerRetry, Retries
<1>4. call' = [call EXCEPT ![c] = next]
  BY DEF AnswerRetry
<1>5. phase \in {"raised", "sleeping"}
  OBVIOUS
<1> HIDE DEF phase
<1>6. next \in Call /\ next.phase = phase /\ next.since = call[c].since /\ next.attempt = call[c].attempt
  BY <1>2, <1>5, CallFields DEF Call
<1> HIDE DEF next
<1>7. SoundCall(next, now)
  BY <1>1, <1>3, <1>5, <1>6 DEF SoundCall
<1> QED BY <1>1, <1>3, <1>4, <1>6, <1>7, ClientStep

\* A request without an answer.
LEMMA LoseStep ==
  ASSUME TypeOK, Sound, NEW c \in Clients, Lose(c)
  PROVE  TypeOK' /\ Sound'
<1> DEFINE asleep == [call[c] EXCEPT !.phase = "sleeping"]
           back == [call[c] EXCEPT !.phase = "returned", !.result = NoResult]
<1>1. now \in Time /\ file \in File /\ SoundFile(file, now) /\ SoundCall(call[c], now)
  BY DEF TypeOK, Sound
<1>2. now' = now /\ file' = file
  BY DEF Lose
<1>3. CASE call[c].attempt < MaxRetries
  <2>1. call' = [call EXCEPT ![c] = asleep]
    BY <1>3 DEF Lose
  <2>2. asleep \in Call /\ asleep.phase = "sleeping" /\ asleep.since = call[c].since
        /\ asleep.attempt = call[c].attempt
    BY CallFields DEF Call
  <2> HIDE DEF asleep
  <2>3. SoundCall(asleep, now)
    BY <1>1, <1>3, <2>2 DEF SoundCall
  <2> QED BY <1>1, <1>2, <2>1, <2>2, <2>3, ClientStep
<1>4. CASE ~(call[c].attempt < MaxRetries)
  <2>1. call' = [call EXCEPT ![c] = back]
    BY <1>4 DEF Lose, Return
  <2>2. back \in Call /\ back.phase = "returned" /\ back.since = call[c].since /\ back.result = NoResult
    BY CallFields, NoValues DEF Call
  <2> HIDE DEF back
  <2>3. SoundCall(back, now)
    BY <1>1, <2>2, NoValues DEF SoundCall, Recent
  <2> QED BY <1>1, <1>2, <2>1, <2>2, <2>3, ClientStep
<1> QED BY <1>3, <1>4

\* Sleeping ends, and another attempt begins.
LEMMA WakeStep ==
  ASSUME TypeOK, Sound, NEW c \in Clients, Wake(c)
  PROVE  TypeOK' /\ Sound'
<1> DEFINE next == [call[c] EXCEPT !.phase = "asking", !.attempt = call[c].attempt + 1]
<1>1. now \in Time /\ file \in File /\ SoundFile(file, now) /\ SoundCall(call[c], now)
  BY DEF TypeOK, Sound
<1>2. now' = now /\ file' = file /\ call' = [call EXCEPT ![c] = next]
  <2>1. call' = [call EXCEPT ![c].phase = "asking", ![c].attempt = @ + 1]
    BY DEF Wake
  <2>2. call \in [Clients -> Call] /\ call[c] \in Call
    BY DEF TypeOK
  <2> QED BY <2>1, <2>2 DEF Wake, Call
<1>3. call[c].attempt + 1 \in 0 .. MaxRetries
  BY <1>1, CallFields, HttpAssumption DEF Wake, SoundCall
<1>4. next \in Call /\ next.phase = "asking" /\ next.since = call[c].since
  BY <1>3, CallFields DEF Call
<1> HIDE DEF next
<1>5. SoundCall(next, now)
  BY <1>1, <1>4 DEF SoundCall
<1> QED BY <1>1, <1>2, <1>4, <1>5, ClientStep

\* The entry is truncated, then written.
LEMMA CacheStep ==
  ASSUME TypeOK, Sound, NEW c \in Clients, OpenCache(c) \/ WriteCache(c)
  PROVE  TypeOK' /\ Sound'
<1> DEFINE torn == [TornFile EXCEPT !.mtime = now]
<1>1. now \in Time /\ SoundCall(call[c], now) /\ now' = now
  BY DEF TypeOK, Sound, OpenCache, WriteCache
<1>2. torn \in File /\ SoundFile(torn, now)
  BY <1>1, NoValues DEF File, SoundFile
<1> HIDE DEF torn
<1>3. CASE OpenCache(c)
  <2> DEFINE next == [call[c] EXCEPT !.phase = "writing"]
  <2>1. call' = [call EXCEPT ![c] = next] /\ file' = torn /\ call[c].phase = "opening"
    BY <1>3 DEF OpenCache, torn
  <2>2. next \in Call /\ next.phase = "writing" /\ next.since = call[c].since
        /\ next.kind = call[c].kind /\ next.result = call[c].result
    BY CallFields DEF Call
  <2> HIDE DEF next
  <2>3. SoundCall(next, now)
    BY <1>1, <2>1, <2>2 DEF SoundCall
  <2> QED BY <1>1, <1>2, <2>1, <2>2, <2>3, ClientStep
<1>4. CASE WriteCache(c)
  <2> DEFINE mine == [kind |-> "entry", code |-> call[c].result.status,
                      body |-> call[c].result.body,
                      answered |-> call[c].result.answered, mtime |-> now]
             back == [call[c] EXCEPT !.phase = "returned", !.result = call[c].result]
  <2>1. call' = [call EXCEPT ![c] = back] /\ file' \in {mine, torn} /\ call[c].phase = "writing"
    BY <1>4 DEF WriteCache, Return, torn
  <2>2. call[c].kind = "get" /\ call[c].result.answered = now /\ call[c].result.status # "0"
        /\ Truthful(call[c].result) /\ call[c].since <= now
    BY <1>1, <2>1 DEF SoundCall
  <2>3. back \in Call /\ back.phase = "returned" /\ back.since = call[c].since
        /\ back.kind = call[c].kind /\ back.result = call[c].result
    BY CallFields DEF Call
  <2>4. call[c].result.status \in Codes /\ call[c].result.body \in BodyKinds
    BY <2>2, CallFields DEF Result
  <2>5. mine \in File /\ SoundFile(mine, now)
    BY <1>1, <2>2, <2>4, TimeIsInteger DEF File, SoundFile
  <2> HIDE DEF back, mine
  <2>6. Recent(back)
    BY <1>1, <2>2, <2>3, CallFields, TimeIsInteger DEF Recent
  <2>7. SoundCall(back, now)
    BY <2>2, <2>3, <2>6 DEF SoundCall
  <2> QED BY <1>1, <1>2, <2>1, <2>3, <2>5, <2>7, ClientStep
<1> QED BY <1>3, <1>4

\* A killed process forgets its call.
LEMMA KillStep ==
  ASSUME TypeOK, Sound, NEW c \in Clients, Kill(c)
  PROVE  TypeOK' /\ Sound'
<1>1. now \in Time /\ file \in File /\ SoundFile(file, now)
  BY DEF TypeOK, Sound
<1>2. now' = now /\ file' = file /\ call' = [call EXCEPT ![c] = NoCall]
  BY DEF Kill
<1>3. SoundCall(NoCall, now)
  BY <1>1, NoValues, TimeIsInteger DEF SoundCall
<1> QED BY <1>1, <1>2, <1>3, NoValues, ClientStep

\* Time passes only between the steps of a write.
LEMMA TickStep ==
  ASSUME TypeOK, Sound, Tick
  PROVE  TypeOK' /\ Sound'
<1>1. now \in Time /\ now' = now + 1 /\ now' \in Time /\ now <= now' /\ file' = file /\ call' = call
  BY HttpAssumption, TimeIsInteger DEF TypeOK, Tick, Time
<1>2. \A t \in Time : t <= now => t <= now'
  BY <1>1, TimeIsInteger
<1>3. SoundFile(file, now')
  <2>1. SoundFile(file, now)
    BY DEF Sound
  <2> QED BY <1>2, <2>1 DEF SoundFile
<1>4. ASSUME NEW c \in Clients PROVE SoundCall(call[c], now')
  <2>1. SoundCall(call[c], now) /\ call[c].phase \notin {"opening", "writing"}
    BY DEF Sound, Tick
  <2>2. call[c].since \in Time
    BY CallFields
  <2> QED BY <1>2, <2>1, <2>2 DEF SoundCall
<1> QED BY <1>1, <1>3, <1>4 DEF TypeOK, Sound

-----------------------------------------------------------------------------
(* Every behaviour. *)

\* The invariant holds of every client's behaviour.
THEOREM SoundInvariant == Spec => [](TypeOK /\ Sound)
<1>1. Init => TypeOK /\ Sound
  <2> SUFFICES ASSUME Init PROVE TypeOK /\ Sound
    OBVIOUS
  <2>1. now = 0 /\ now \in Time /\ file \in File /\ SoundFile(file, now)
    BY NoValues, TimeIsInteger DEF Init, SoundFile
  <2>2. call \in [Clients -> Call] /\ \A c \in Clients : call[c] = NoCall
    BY NoValues DEF Init
  <2>3. SoundCall(NoCall, now)
    BY <2>1, NoValues DEF SoundCall
  <2> QED BY <2>1, <2>2, <2>3 DEF TypeOK, Sound
<1>2. TypeOK /\ Sound /\ [Next]_vars => TypeOK' /\ Sound'
  <2> SUFFICES ASSUME TypeOK, Sound, [Next]_vars PROVE TypeOK' /\ Sound'
    OBVIOUS
  <2>1. CASE \E c \in Clients : \E kind \in Uses[c] : Ask(c, kind)
    <3>1. PICK c \in Clients : \E kind \in Uses[c] : Ask(c, kind)
      BY <2>1
    <3>2. Uses[c] \subseteq Kinds
      BY HttpAssumption DEF Kinds
    <3> QED BY <3>1, <3>2, AskStep
  <2>2. CASE \E c \in Clients : Work(c)
    BY <2>2, AnswerStep, AnswerRetryStep, LoseStep, WakeStep, CacheStep DEF Work
  <2>3. CASE \E c \in Clients : Kill(c)
    BY <2>3, KillStep
  <2>4. CASE Tick
    BY <2>4, TickStep
  <2>5. CASE UNCHANGED vars
    BY <2>5 DEF vars, TypeOK, Sound
  <2> QED BY <2>1, <2>2, <2>3, <2>4, <2>5 DEF Next
<1> QED BY <1>1, <1>2, PTL DEF Spec

\* Every variable keeps its type.
THEOREM TypeCorrect == Spec => []TypeOK
BY SoundInvariant, PTL

\* A collector may trust `error`: it is absent exactly when a service gave a
\* document, a body never comes with one, and a service that never answered is
\* always an error.
THEOREM ErrorIsTruthful == Spec => []ErrorTellsTheTruth
<1>1. TypeOK /\ Sound => ErrorTellsTheTruth
  BY DEF Sound, SoundCall, ErrorTellsTheTruth, Truthful
<1> QED BY <1>1, SoundInvariant, PTL

\* The headers handed to a paginated reader are those of the page it got.
THEOREM HeadersBelong == Spec => []HeadersMatchBody
<1>1. TypeOK /\ Sound => HeadersMatchBody
  BY DEF Sound, SoundCall, HeadersMatchBody
<1> QED BY <1>1, SoundInvariant, PTL

\* No result is older than the cache's time to live, and none that bypasses
\* the cache is older than the call, whoever else writes the entry.
THEOREM ResultsAreRecent == Spec => ResultIsRecent
<1>1. (TypeOK /\ Sound)' =>
        \A c \in Clients : (Returns(c) /\ call'[c].result.answered # None) =>
          call'[c].result.answered >= IF call'[c].kind = "get" THEN call'[c].since - TTL
                                                               ELSE call'[c].since
  BY DEF Sound, SoundCall, Recent, Returns
<1> QED BY <1>1, SoundInvariant, PTL DEF ResultIsRecent

-----------------------------------------------------------------------------
(* How long a call may take. *)

\* The steps a call has left: two an attempt, two for the cache.
Steps(c) ==
  CASE call[c].phase = "asking" -> 2 * (MaxRetries - call[c].attempt) + 3
    [] call[c].phase = "sleeping" -> 2 * (MaxRetries - call[c].attempt) + 2
    [] call[c].phase = "opening" -> 2
    [] call[c].phase = "writing" -> 1
    [] OTHER -> 0

\* A step of one client leaves the calls of the others alone.
LEMMA OtherCalls ==
  ASSUME call \in [Clients -> Call], NEW c \in Clients, NEW d \in Clients, d # c,
         (\E kind \in Uses[d] : Ask(d, kind)) \/ Work(d) \/ Kill(d)
  PROVE  call'[c] = call[c]
<1>1. ASSUME NEW cl, call' = [call EXCEPT ![d] = cl] PROVE call'[c] = call[c]
  BY <1>1
<1>2. ASSUME NEW kind \in Uses[d], Ask(d, kind) PROVE call'[c] = call[c]
  BY <1>1, <1>2 DEF Ask, Return
<1>3. ASSUME NEW resp \in Response, Answer(d, resp) PROVE call'[c] = call[c]
  BY <1>1, <1>3 DEF Answer, Return
<1>4. ASSUME NEW resp \in Response, AnswerRetry(d, resp) PROVE call'[c] = call[c]
  BY <1>1, <1>4 DEF AnswerRetry
<1>5. CASE Lose(d)
  BY <1>1, <1>5 DEF Lose, Return
<1>6. CASE Wake(d)
  BY <1>6 DEF Wake
<1>7. CASE OpenCache(d)
  BY <1>7 DEF OpenCache
<1>8. CASE WriteCache(d)
  BY <1>1, <1>8 DEF WriteCache, Return
<1>9. CASE Kill(d)
  BY <1>1, <1>9 DEF Kill
<1> QED BY <1>2, <1>3, <1>4, <1>5, <1>6, <1>7, <1>8, <1>9 DEF Work

LEMMA WorkingStep ==
  ASSUME TypeOK, Sound, NEW c \in Clients, Work(c)
  PROVE  Steps(c)' < Steps(c)
<1>1. /\ call \in [Clients -> Call] /\ call[c] \in Call /\ MaxRetries \in Nat
      /\ call[c].attempt \in 0 .. MaxRetries /\ call[c].attempt \in Int
      /\ call[c].phase = "sleeping" => call[c].attempt < MaxRetries
  BY HttpAssumption DEF TypeOK, Sound, SoundCall, Call
<1>2. \/ call[c].phase = "asking" /\ call'[c].phase \in {"opening", "returned", "raised"}
      \/ /\ call[c].phase = "asking" /\ call'[c].phase = "sleeping"
         /\ call'[c].attempt = call[c].attempt
      \/ /\ call[c].phase = "sleeping" /\ call'[c].phase = "asking"
         /\ call'[c].attempt = call[c].attempt + 1
      \/ call[c].phase = "opening" /\ call'[c].phase = "writing"
      \/ call[c].phase = "writing" /\ call'[c].phase = "returned"
  <2>1. ASSUME NEW resp \in Response, Answer(c, resp)
        PROVE  call[c].phase = "asking" /\ call'[c].phase \in {"opening", "returned"}
    <3> DEFINE cl == [call[c] EXCEPT !.headers = Headers(call[c])]
    <3>1. PICK r : \/ call' = [call EXCEPT ![c] = [cl EXCEPT !.phase = "opening", !.result = r]]
                   \/ call' = [call EXCEPT ![c] = [cl EXCEPT !.phase = "returned", !.result = r]]
      BY <2>1 DEF Answer, Return
    <3>2. cl = [call[c] EXCEPT !.headers = cl.headers]
      BY <1>1 DEF Call
    <3>3. call[c].phase = "asking"
      BY <2>1 DEF Answer
    <3> HIDE DEF cl
    <3>4. call'[c] = [cl EXCEPT !.phase = "opening", !.result = r]
          \/ call'[c] = [cl EXCEPT !.phase = "returned", !.result = r]
      BY <1>1, <3>1
    <3>5. call'[c].phase \in {"opening", "returned"}
      BY <1>1, <3>2, <3>4 DEF Call
    <3> QED BY <3>3, <3>5
  <2>2. ASSUME NEW resp \in Response, AnswerRetry(c, resp)
        PROVE  /\ call[c].phase = "asking" /\ call'[c].phase \in {"sleeping", "raised"}
               /\ call'[c].attempt = call[c].attempt
    BY <1>1, <2>2 DEF AnswerRetry, Call
  <2>3. CASE Lose(c)
    BY <1>1, <2>3 DEF Lose, Return, Call
  <2>4. CASE Wake(c)
    BY <1>1, <2>4 DEF Wake, Call
  <2>5. CASE OpenCache(c)
    BY <1>1, <2>5 DEF OpenCache, Call
  <2>6. CASE WriteCache(c)
    BY <1>1, <2>6 DEF WriteCache, Return, Call
  <2> QED BY <2>1, <2>2, <2>3, <2>4, <2>5, <2>6 DEF Work
<1> QED BY <1>1, <1>2 DEF Steps

\* A call takes at most MaxRetries + 1 attempts and a write, whatever the services
\* answer and the other processes do: each of its steps leaves fewer to take, and
\* no other step makes more.
THEOREM CallsAreBounded ==
  Spec => [][\A c \in Clients : call[c].phase \notin {"idle", "returned"} =>
               /\ Steps(c)' \in Nat /\ Steps(c)' <= Steps(c)
               /\ Work(c) => Steps(c)' < Steps(c)]_vars
<1>1. ASSUME TypeOK /\ Sound, (TypeOK /\ Sound)', [Next]_vars
      PROVE  \A c \in Clients : call[c].phase \notin {"idle", "returned"} =>
               /\ Steps(c)' \in Nat /\ Steps(c)' <= Steps(c)
               /\ Work(c) => Steps(c)' < Steps(c)
  <2> SUFFICES ASSUME NEW c \in Clients, call[c].phase \notin {"idle", "returned"}
               PROVE  /\ Steps(c)' \in Nat /\ Steps(c)' <= Steps(c)
                      /\ Work(c) => Steps(c)' < Steps(c)
    OBVIOUS
  <2>1. /\ call \in [Clients -> Call] /\ call[c].attempt \in 0 .. MaxRetries
        /\ call'[c].attempt \in 0 .. MaxRetries /\ MaxRetries \in Nat
    BY <1>1, HttpAssumption DEF TypeOK, Call
  <2>2. Steps(c) \in Nat /\ Steps(c)' \in Nat
    BY <2>1 DEF Steps
  <2>3. CASE Work(c)
    BY <1>1, <2>2, <2>3, WorkingStep
  <2>4. CASE Kill(c)
    <3>1. call'[c].phase = "idle"
      BY <2>1, <2>4 DEF Kill, NoCall
    <3>2. Steps(c)' = 0
      BY <3>1 DEF Steps
    <3>3. CASE Work(c)
      BY <2>3, <3>3
    <3>4. CASE ~Work(c)
      <4>1. Steps(c)' <= Steps(c)
        BY <2>2, <3>2
      <4> QED BY <2>2, <3>4, <4>1
    <3> QED BY <3>3, <3>4
  <2>5. CASE ~Work(c) /\ ~Kill(c)
    <3>1. ASSUME NEW d \in Clients, d # c, (\E kind \in Uses[d] : Ask(d, kind)) \/ Work(d) \/ Kill(d)
          PROVE  call'[c] = call[c]
      BY <2>1, <3>1, OtherCalls
    <3>2. ASSUME Tick \/ UNCHANGED vars PROVE call'[c] = call[c]
      BY <3>2 DEF Tick, vars
    <3>3. \A kind \in Uses[c] : ~Ask(c, kind)
      BY DEF Ask
    <3>4. call'[c] = call[c]
      <4>1. CASE Tick \/ UNCHANGED vars
        BY <3>2, <4>1
      <4>2. ASSUME NEW d \in Clients, (\E kind \in Uses[d] : Ask(d, kind)) \/ Work(d) \/ Kill(d)
            PROVE  call'[c] = call[c]
        <5>1. CASE d = c
          BY <2>5, <3>3, <4>2, <5>1
        <5> QED BY <3>1, <4>2, <5>1
      <4> QED BY <1>1, <4>1, <4>2 DEF Next
    <3>5. Steps(c)' = Steps(c)
      BY <3>4 DEF Steps
    <3> QED BY <2>2, <2>5, <3>5
  <2> QED BY <2>3, <2>4, <2>5
<1> QED BY <1>1, SoundInvariant, PTL DEF Spec

-----------------------------------------------------------------------------
(* The Sentry listings. *)

\* Where the listing in progress is: its cursor is behind everything collected, in
\* front of every steady issue that is not.
Listing ==
  /\ fetch.pages < MaxPages
  /\ fetch.collected = <<>> \/ fetch.cursor <= clock
  /\ IsInjective(fetch.collected)
  /\ \A i \in Range(fetch.collected) : seen[i] >= fetch.cursor
  /\ \A i \in fetch.steady : /\ state[i] = fetch.query
                             /\ i \in Range(fetch.collected) \/ seen[i] < fetch.cursor

\* What was collected or counted for a query is of that query, or was changed since.
Tallied ==
  /\ \A i \in Range(fetch.collected) : i \in out.changed \/ state[i] = fetch.query
  /\ \A q \in Queries : \A i \in Counted(q) : i \in out.changed \/ state[i] = q

SentryInv ==
  /\ SentryTypeOK
  /\ \A i \in Issue : seen[i] <= clock
  /\ out.phase = "idle" => out = Nothing
  /\ Listing /\ Tallied /\ CountIsWhole

\* The shape of the state.
LEMMA SentryShape ==
  ASSUME SentryTypeOK
  PROVE  /\ fetch \in Fetch /\ out \in Out /\ seen \in [Issue -> Times] /\ state \in [Issue -> Queries]
         /\ fetch.query \in Queries /\ fetch.steady \subseteq Issue /\ fetch.cursors \subseteq Times
         /\ fetch.collected \in Seq(Issue) /\ fetch.cursor \in Times \cup {Ahead}
         /\ fetch.pages \in 0 .. MaxPages
         /\ out.counted \in [Queries -> Seq(Issue)] /\ out.changed \subseteq Issue
         /\ clock \in 0 .. MaxClock /\ MaxClock \in Nat /\ PageSize \in Nat \ {0} /\ MaxPages \in Nat \ {0}
         /\ \A i \in Issue : seen[i] \in Nat /\ state[i] \in Queries
  BY SentryAssumption DEF SentryTypeOK, Fetch, Out, Times

\* The members of a sequence.
LEMMA Members ==
  ASSUME NEW S, NEW s \in Seq(S)
  PROVE  /\ Range(s) \subseteq S /\ DOMAIN s = 1 .. Len(s) /\ Len(s) \in Nat
         /\ \A i \in Range(s) : \E n \in DOMAIN s : s[n] = i
         /\ \A n \in DOMAIN s : s[n] \in Range(s)
  BY LenProperties, ElementOfSeq DEF Range

\* Two sequences without repetition and without a common member, one after the other.
LEMMA Appended ==
  ASSUME NEW S, NEW s \in Seq(S), NEW t \in Seq(S), IsInjective(s), IsInjective(t),
         Range(s) \cap Range(t) = {}
  PROVE  s \o t \in Seq(S) /\ IsInjective(s \o t) /\ Range(s \o t) = Range(s) \cup Range(t)
<1> DEFINE r == s \o t
           m == Len(s)
           n == Len(t)
<1>1. m \in Nat /\ n \in Nat /\ DOMAIN s = 1 .. m /\ DOMAIN t = 1 .. n
  BY Members
<1>2. /\ r \in Seq(S) /\ Len(r) = m + n
      /\ \A k \in 1 .. m + n : r[k] = IF k <= m THEN s[k] ELSE t[k - m]
  BY ConcatProperties
<1>3. DOMAIN r = 1 .. m + n
  <2> HIDE DEF r, m, n
  <2> QED BY <1>2, LenProperties
<1> HIDE DEF r, m, n
<1>4. ASSUME NEW k \in 1 .. m + n
      PROVE  \/ k \in DOMAIN s /\ k <= m /\ r[k] = s[k] /\ r[k] \in Range(s)
             \/ k - m \in DOMAIN t /\ ~(k <= m) /\ r[k] = t[k - m] /\ r[k] \in Range(t)
  <2>1. CASE k <= m
    <3>1. k \in DOMAIN s /\ r[k] = s[k]
      BY <1>1, <1>2, <2>1
    <3> QED BY <2>1, <3>1, Members
  <2>2. CASE ~(k <= m)
    <3>1. k - m \in DOMAIN t /\ r[k] = t[k - m]
      BY <1>1, <1>2, <2>2
    <3> QED BY <2>2, <3>1, Members
  <2> QED BY <2>1, <2>2
<1>5. IsInjective(r)
  <2> SUFFICES ASSUME NEW a \in 1 .. m + n, NEW b \in 1 .. m + n, r[a] = r[b] PROVE a = b
    BY <1>3 DEF IsInjective
  <2>1. CASE a <= m /\ b <= m
    BY <1>4, <2>1 DEF IsInjective
  <2>2. CASE ~(a <= m) /\ ~(b <= m)
    <3>1. a - m \in DOMAIN t /\ b - m \in DOMAIN t /\ t[a - m] = t[b - m]
      BY <1>4, <2>2
    <3>2. a - m = b - m
      BY <3>1 DEF IsInjective
    <3> QED BY <1>1, <3>2
  <2>3. CASE (a <= m /\ ~(b <= m)) \/ (~(a <= m) /\ b <= m)
    <3>1. r[a] \in Range(s) /\ r[a] \in Range(t)
      BY <1>4, <2>3
    <3> QED BY <3>1
  <2> QED BY <2>1, <2>2, <2>3
<1>6. Range(r) = Range(s) \cup Range(t)
  <2>1. ASSUME NEW i \in Range(r) PROVE i \in Range(s) \cup Range(t)
    <3>1. PICK k \in 1 .. m + n : r[k] = i
      BY <1>3 DEF Range
    <3> QED BY <1>4, <3>1
  <2>2. ASSUME NEW i \in Range(s) PROVE i \in Range(r)
    <3>1. PICK k \in 1 .. m : s[k] = i
      BY <1>1 DEF Range
    <3>2. k \in DOMAIN r /\ r[k] = i
      BY <1>1, <1>2, <1>3, <3>1
    <3> QED BY <3>2 DEF Range
  <2>3. ASSUME NEW i \in Range(t) PROVE i \in Range(r)
    <3>1. PICK k \in 1 .. n : t[k] = i
      BY <1>1 DEF Range
    <3>2. m + k \in 1 .. m + n /\ ~(m + k <= m) /\ (m + k) - m = k
      BY <1>1
    <3>3. m + k \in DOMAIN r /\ r[m + k] = i
      BY <1>2, <1>3, <3>1, <3>2
    <3> QED BY <3>3 DEF Range
  <2> QED BY <2>1, <2>2, <2>3
<1> QED BY <1>2, <1>5, <1>6 DEF r

\* A page has the latest of the issues to come, all of them unless it is full and
\* there are more; the next cursor is that of its last.
LEMMA BodyIs ==
  ASSUME SentryTypeOK, NEW body \in Bodies(fetch)
  PROVE  /\ body \in Seq(Issue) /\ IsInjective(body) /\ Range(body) \subseteq Older(fetch)
         /\ ~More(fetch) => Range(body) = Older(fetch)
         /\ Len(body) < PageSize => ~More(fetch)
         /\ More(fetch) => /\ NextCursor(body) \in Times /\ NextCursor(body) < fetch.cursor
                           /\ \A i \in Range(body) : seen[i] >= NextCursor(body)
                           /\ \A i \in Older(fetch) \ Range(body) : seen[i] < NextCursor(body)
<1> DEFINE older == Older(fetch)
           size == IF More(fetch) THEN PageSize ELSE Cardinality(older)
<1>1. older \subseteq Issue /\ IsFiniteSet(older) /\ Cardinality(older) \in Nat
  <2>1. older \subseteq Issue
    BY DEF Older, Matching
  <2> HIDE DEF older
  <2> QED BY <2>1, SentryAssumption, FS_Subset, FS_CardinalityType
<1>2. size \in Nat /\ (More(fetch) <=> Cardinality(older) > PageSize)
  BY <1>1, SentryAssumption DEF More
<1>3. /\ body \in [1 .. size -> older]
      /\ \A m, n \in 1 .. size : m < n => seen[body[m]] > seen[body[n]]
      /\ \A i \in older \ Range(body), n \in 1 .. size : seen[i] < seen[body[n]]
  BY DEF Bodies
<1> HIDE DEF older, size
<1>4. body \in Seq(Issue) /\ Len(body) = size /\ DOMAIN body = 1 .. size
  BY <1>1, <1>2, <1>3
<1>5. ASSUME NEW n \in 1 .. size
      PROVE  body[n] \in older /\ seen[body[n]] \in Times /\ seen[body[n]] < fetch.cursor
             /\ seen[body[n]] \in Nat
  <2>1. body[n] \in older
    BY <1>3
  <2> QED BY <2>1, <1>1, SentryShape DEF Older, older, Times
<1>6. \A i \in Range(body) : \E n \in 1 .. size : body[n] = i
  BY <1>4 DEF Range
<1>7. Range(body) \subseteq older
  BY <1>5, <1>6
<1>8. IsInjective(body)
  <2> SUFFICES ASSUME NEW m \in 1 .. size, NEW n \in 1 .. size, body[m] = body[n] PROVE m = n
    BY <1>4 DEF IsInjective
  <2>1. ~(m < n) /\ ~(n < m)
    BY <1>3, <1>5
  <2> QED BY <1>2, <2>1
<1>9. ASSUME ~More(fetch) PROVE Range(body) = older
  <2>1. size = Cardinality(older)
    BY <1>9 DEF size
  <2>2. body \in Injection(1 .. size, older)
    BY <1>3, <1>8 DEF Injection
  <2>3. Cardinality(1 .. size) = size
    <3>1. 1 \in Int /\ size \in Int
      BY <1>2
    <3> QED BY <1>2, <3>1, FS_Interval
  <2>4. body \in Surjection(1 .. size, older)
    BY <1>1, <2>1, <2>2, <2>3, FS_Injection
  <2>5. \A i \in older : i \in Range(body)
    BY <1>4, <2>4 DEF Surjection, Range
  <2> QED BY <1>7, <2>5
<1>10. Len(body) < PageSize => ~More(fetch)
  BY <1>2, <1>4, SentryAssumption DEF size
<1>11. ASSUME More(fetch)
       PROVE  /\ NextCursor(body) \in Times /\ NextCursor(body) < fetch.cursor
              /\ \A i \in Range(body) : seen[i] >= NextCursor(body)
              /\ \A i \in older \ Range(body) : seen[i] < NextCursor(body)
  <2>1. size \in 1 .. size /\ NextCursor(body) = seen[body[size]]
    BY <1>4, <1>11, SentryAssumption DEF size, NextCursor
  <2>2. ASSUME NEW i \in Range(body) PROVE seen[i] >= NextCursor(body)
    <3>1. PICK n \in 1 .. size : body[n] = i
      BY <1>6
    <3>2. CASE n = size
      BY <1>5, <2>1, <3>1, <3>2
    <3>3. CASE n < size
      <4>1. seen[body[n]] > seen[body[size]]
        BY <1>3, <2>1, <3>3
      <4> QED BY <1>5, <2>1, <3>1, <4>1
    <3> QED BY <1>2, <3>2, <3>3
  <2> QED BY <1>3, <1>5, <2>1, <2>2
<1> QED BY <1>4, <1>7, <1>8, <1>9, <1>10, <1>11 DEF older

\* A listing that has not begun keeps every promise.
LEMMA BeginIs ==
  ASSUME SentryTypeOK, NEW q \in Queries
  PROVE  /\ Begin(q) \in Fetch /\ Begin(q).query = q /\ Begin(q).cursor = Ahead /\ Begin(q).pages = 0
         /\ Begin(q).collected = <<>> /\ Begin(q).steady = Matching(q) /\ Begin(q).cursors = {}
         /\ IsInjective(<<>>) /\ Range(<<>>) = {}
         /\ \A i \in Matching(q) : i \in Issue /\ state[i] = q /\ seen[i] < Ahead
<1>1. <<>> \in Seq(Issue) /\ IsInjective(<<>>) /\ Range(<<>>) = {}
  BY EmptySeq DEF IsInjective, Range
<1>2. 0 \in 0 .. MaxPages /\ Matching(q) \subseteq Issue
  BY SentryShape DEF Matching
<1>3. \A i \in Matching(q) : i \in Issue /\ state[i] = q /\ seen[i] < Ahead
  BY SentryShape DEF Matching, Ahead, Times
<1> QED BY <1>1, <1>2, <1>3 DEF Begin, Fetch

\* A page that ends a listing: what was collected and the page are all there was.
LEMMA CompleteIsWhole ==
  ASSUME SentryInv, NEW body \in Bodies(fetch), ~More(fetch)
  PROVE  LET got == fetch.collected \o body
         IN  /\ got \in Seq(Issue) /\ Len(got) \in Nat /\ IsInjective(got)
             /\ fetch.steady \subseteq Range(got)
             /\ \A i \in Range(got) : i \in out.changed \/ state[i] = fetch.query
<1> DEFINE got == fetch.collected \o body
<1>1. SentryTypeOK /\ Listing /\ Tallied
  BY DEF SentryInv
<1>2. body \in Seq(Issue) /\ IsInjective(body) /\ Range(body) = Older(fetch)
  BY <1>1, BodyIs
<1>3. fetch.collected \in Seq(Issue) /\ IsInjective(fetch.collected)
      /\ Range(fetch.collected) \subseteq Issue
  BY <1>1, SentryShape, Members DEF Listing
<1>4. Range(fetch.collected) \cap Range(body) = {}
  <2> SUFFICES ASSUME NEW i \in Range(fetch.collected), i \in Older(fetch) PROVE FALSE
    BY <1>2
  <2>1. seen[i] >= fetch.cursor /\ seen[i] < fetch.cursor /\ seen[i] \in Nat
    BY <1>1, <1>3, SentryShape DEF Listing, Older
  <2>2. fetch.cursor \in Nat
    BY <1>1, SentryShape DEF Times, Ahead
  <2> QED BY <2>1, <2>2
<1>5. got \in Seq(Issue) /\ IsInjective(got) /\ Range(got) = Range(fetch.collected) \cup Range(body)
  BY <1>2, <1>3, <1>4, Appended
<1>6. \A i \in fetch.steady : i \in Range(got)
  BY <1>1, <1>2, <1>5, SentryShape DEF Listing, Older, Matching
<1>7. \A i \in Range(got) : i \in out.changed \/ state[i] = fetch.query
  BY <1>1, <1>2, <1>5 DEF Tallied, Older, Matching
<1>8. Len(got) \in Nat
  <2> HIDE DEF got
  <2> QED BY <1>5, LenProperties
<1> QED BY <1>5, <1>6, <1>7, <1>8

LEMMA CompleteStep ==
  ASSUME SentryInv, out.phase = "listing", NEW body \in Bodies(fetch), ~More(fetch),
         Complete(body), UNCHANGED <<seen, state, clock>>
  PROVE  SentryInv'
<1> DEFINE got == fetch.collected \o body
           q == fetch.query
           counts == [out EXCEPT !.counted[q] = got, !.missed = @ \cup (fetch.steady \ Range(got))]
           o == IF q = "unresolved" THEN [counts EXCEPT !.unresolved = Len(got)]
                                    ELSE [counts EXCEPT !.resolved = Len(got)]
<1>1. SentryTypeOK /\ Listing /\ Tallied /\ CountIsWhole
  BY DEF SentryInv
<1>2. /\ got \in Seq(Issue) /\ Len(got) \in Nat /\ IsInjective(got)
      /\ fetch.steady \subseteq Range(got)
      /\ \A i \in Range(got) : i \in out.changed \/ state[i] = q
  BY CompleteIsWhole
<1> HIDE DEF got
<1>3. q \in Queries /\ out \in Out /\ out.missed = {}
  BY <1>1, SentryShape DEF CountIsWhole
<1>4. /\ counts \in Out /\ counts.phase = "listing" /\ counts.missed = {}
      /\ counts.changed = out.changed
      /\ counts.counted[q] = got
      /\ \A r \in Queries : r # q => counts.counted[r] = out.counted[r]
  <2>1. out.missed \cup (fetch.steady \ Range(got)) = {}
    BY <1>2, <1>3
  <2>2. counts = [out EXCEPT !.counted = [out.counted EXCEPT ![q] = got], !.missed = {}]
    BY <1>3, <2>1 DEF Out
  <2>3. [out.counted EXCEPT ![q] = got] \in [Queries -> Seq(Issue)]
    BY <1>2, <1>3 DEF Out
  <2> HIDE DEF q, counts
  <2> QED BY <1>3, <2>2, <2>3 DEF Out
<1> HIDE DEF counts
<1>5. /\ o \in Out /\ o.phase = "listing" /\ o.missed = {} /\ o.changed = out.changed
      /\ o.counted = counts.counted
  <2>1. Len(got) \in Int
    BY <1>2
  <2> HIDE DEF q
  <2>2. CASE q = "unresolved"
    <3>1. o = [counts EXCEPT !.unresolved = Len(got)]
      BY <2>2
    <3> QED BY <1>4, <2>1, <3>1 DEF Out
  <2>3. CASE q # "unresolved"
    <3>1. o = [counts EXCEPT !.resolved = Len(got)]
      BY <2>3
    <3> QED BY <1>4, <2>1, <3>1 DEF Out
  <2> QED BY <2>2, <2>3
<1>6. out' = Ended(o, TRUE) /\ fetch' = IF q = "unresolved" THEN Begin("resolved") ELSE fetch
  BY DEF Complete, counts, got
<1> HIDE DEF o
<1>7. /\ out' \in Out /\ out'.phase \in {"listing", "users"} /\ out'.missed = {}
      /\ out'.changed = out.changed /\ out'.counted = counts.counted
  BY <1>5, <1>6 DEF Ended, Out, Phases
<1>8. SentryTypeOK'
  BY <1>1, <1>6, <1>7, BeginIs, SentryShape DEF SentryTypeOK, Queries
<1>9. CountIsWhole'
  BY <1>1, <1>2, <1>4, <1>7 DEF CountIsWhole
<1>10. \A r \in Queries : \A i \in Range(out'.counted[r]) : i \in out'.changed \/ state'[i] = r
  <2> SUFFICES ASSUME NEW r \in Queries, NEW i \in Range(out'.counted[r])
               PROVE  i \in out'.changed \/ state'[i] = r
    OBVIOUS
  <2>1. CASE r = q
    BY <1>2, <1>4, <1>7, <2>1
  <2>2. CASE r # q
    BY <1>1, <1>4, <1>7, <2>2 DEF Tallied, Counted
  <2> QED BY <2>1, <2>2
<1>11. Listing' /\ \A i \in Range(fetch'.collected) : i \in out'.changed \/ state'[i] = fetch'.query
  <2>1. CASE q = "unresolved"
    <3>1. fetch' = Begin("resolved") /\ "resolved" \in Queries
      BY <1>6, <2>1 DEF Queries
    <3> QED BY <1>1, <3>1, BeginIs, SentryShape DEF Listing
  <2>2. CASE q # "unresolved"
    <3>1. UNCHANGED <<fetch, seen, state, clock>>
      BY <1>6, <2>2
    <3> QED BY <1>1, <1>7, <3>1 DEF Listing, Tallied
  <2> QED BY <2>1, <2>2
<1>12. Tallied'
  BY <1>10, <1>11 DEF Tallied, Counted
<1> QED BY <1>7, <1>8, <1>9, <1>11, <1>12 DEF SentryInv

\* A step of the collector that counts nothing.
LEMMA QuietStep ==
  ASSUME SentryInv, UNCHANGED <<seen, state, clock, fetch>>, out' \in Out,
         out'.phase = "idle" => out' = Nothing,
         out'.counted = out.counted, out'.missed = out.missed, out'.changed = out.changed
  PROVE  SentryInv'
<1>1. SentryTypeOK'
  BY DEF SentryInv, SentryTypeOK
<1>2. Listing'
  BY DEF SentryInv, Listing
<1>3. Tallied'
  BY DEF SentryInv, Tallied, Counted
<1>4. CountIsWhole'
  BY DEF SentryInv, CountIsWhole
<1> QED BY <1>1, <1>2, <1>3, <1>4 DEF SentryInv

LEMMA GiveUpStep ==
  ASSUME SentryInv, out.phase = "listing", GiveUp, UNCHANGED <<seen, state, clock>>
  PROVE  SentryInv'
<1>1. out \in Out /\ out' = Ended(out, FALSE) /\ UNCHANGED fetch
  BY SentryShape DEF SentryInv, GiveUp
<1>2. /\ out' \in Out /\ out'.phase \in {"users", "done"}
      /\ out'.counted = out.counted /\ out'.missed = out.missed /\ out'.changed = out.changed
  BY <1>1 DEF Ended, Out, Phases
<1> QED BY <1>1, <1>2, QuietStep

LEMMA FollowStep ==
  ASSUME SentryInv, out.phase = "listing", NEW body \in Bodies(fetch), More(fetch),
         Follow(body, NextCursor(body)), UNCHANGED <<seen, state, clock>>
  PROVE  SentryInv'
<1> DEFINE got == fetch.collected \o body
           c == NextCursor(body)
<1>1. CASE fetch.pages + 1 = MaxPages
  BY <1>1, GiveUpStep DEF Follow
<1>2. CASE fetch.pages + 1 # MaxPages
  <2>1. SentryTypeOK /\ Listing /\ Tallied
    BY DEF SentryInv
  <2>2. /\ body \in Seq(Issue) /\ IsInjective(body) /\ Range(body) \subseteq Older(fetch)
        /\ c \in Times /\ c < fetch.cursor
        /\ \A i \in Range(body) : seen[i] >= c
        /\ \A i \in Older(fetch) \ Range(body) : seen[i] < c
    BY <2>1, BodyIs
  <2>3. fetch.collected \in Seq(Issue) /\ IsInjective(fetch.collected)
        /\ Range(fetch.collected) \subseteq Issue
    BY <2>1, SentryShape, Members DEF Listing
  <2>4. fetch.cursor \in Nat /\ c \in Nat
    BY <2>1, <2>2, SentryShape DEF Times, Ahead
  <2> HIDE DEF c
  <2>5. Range(fetch.collected) \cap Range(body) = {}
    <3> SUFFICES ASSUME NEW i \in Range(fetch.collected), i \in Older(fetch) PROVE FALSE
      BY <2>2
    <3>1. seen[i] >= fetch.cursor /\ seen[i] < fetch.cursor /\ seen[i] \in Nat
      BY <2>1, <2>3, SentryShape DEF Listing, Older
    <3> QED BY <2>4, <3>1
  <2>6. got \in Seq(Issue) /\ IsInjective(got) /\ Range(got) = Range(fetch.collected) \cup Range(body)
    BY <2>2, <2>3, <2>5, Appended
  <2>7. /\ fetch' = [fetch EXCEPT !.collected = got, !.pages = @ + 1, !.cursor = c, !.cursors = @ \cup {c}]
        /\ UNCHANGED out
    BY <1>2 DEF Follow, c
  <2> HIDE DEF got
  <2>8. fetch.pages + 1 \in 0 .. MaxPages /\ fetch.pages + 1 < MaxPages
    BY <1>2, <2>1, SentryShape DEF Listing
  <2>9. /\ fetch' \in Fetch /\ fetch'.query = fetch.query /\ fetch'.steady = fetch.steady
        /\ fetch'.collected = got /\ fetch'.pages = fetch.pages + 1 /\ fetch'.cursor = c
    <3>1. fetch \in Fetch /\ fetch.cursors \cup {c} \subseteq Times
      BY <2>1, <2>2, SentryShape
    <3> QED BY <2>2, <2>6, <2>7, <2>8, <3>1 DEF Fetch
  <2>10. \A i \in Range(got) : seen[i] >= c
    <3>1. \A i \in Range(fetch.collected) : seen[i] >= fetch.cursor /\ seen[i] \in Nat
      BY <2>1, <2>3, SentryShape DEF Listing
    <3>2. \A i \in Range(fetch.collected) : seen[i] >= c
      BY <2>2, <2>4, <3>1
    <3> QED BY <2>2, <2>6, <3>2
  <2>11. c <= clock
    <3>1. \E i \in Range(body) : seen[i] = c
      <4>1. DOMAIN body = 1 .. Len(body) /\ Len(body) \in Nat /\ ~(Len(body) < PageSize) /\ PageSize \in Nat \ {0}
        BY <2>1, BodyIs, LenProperties, SentryAssumption
      <4>2. Len(body) \in DOMAIN body
        BY <4>1
      <4> QED BY <4>2 DEF c, NextCursor, Range
    <3>2. Range(body) \subseteq Issue
      BY <2>2, Members
    <3> QED BY <3>1, <3>2 DEF SentryInv
  <2>12. \A i \in fetch.steady : state[i] = fetch.query /\ (i \in Range(got) \/ seen[i] < c)
    BY <2>1, <2>2, <2>6, SentryShape DEF Listing, Older, Matching
  <2>13. Listing'
    BY <2>6, <2>8, <2>9, <2>10, <2>11, <2>12 DEF Listing
  <2>14. Tallied'
    <3>1. \A i \in Range(got) : i \in out.changed \/ state[i] = fetch.query
      BY <2>1, <2>2, <2>6 DEF Tallied, Older, Matching
    <3> QED BY <2>1, <2>7, <2>9, <3>1 DEF Tallied, Counted
  <2> QED BY <2>7, <2>9, <2>13, <2>14 DEF SentryInv, SentryTypeOK, CountIsWhole
<1> QED BY <1>1, <1>2

LEMMA PageStep ==
  ASSUME SentryInv, out.phase = "listing", NEW body \in Bodies(fetch), NEW link \in Links(fetch, body),
         Page(body, link), UNCHANGED <<seen, state, clock>>
  PROVE  SentryInv'
<1>1. CASE link.next = "false"
  <2>1. ~More(fetch)
    BY <1>1 DEF Links
  <2>2. Complete(body)
    BY <1>1 DEF Page
  <2> QED BY <2>1, <2>2, CompleteStep
<1>2. CASE link.next = "absent"
  <2>1. CASE Len(body) >= PageSize
    <3>1. GiveUp
      BY <1>2, <2>1 DEF Page
    <3> QED BY <3>1, GiveUpStep
  <2>2. CASE ~(Len(body) >= PageSize)
    <3>1. Complete(body)
      BY <1>2, <2>2 DEF Page
    <3>2. body \in Seq(Issue) /\ (Len(body) < PageSize => ~More(fetch)) /\ PageSize \in Nat
      BY BodyIs, SentryShape DEF SentryInv
    <3>3. ~More(fetch)
      BY <2>2, <3>2, LenProperties
    <3> QED BY <3>1, <3>3, CompleteStep
  <2> QED BY <2>1, <2>2
<1>3. CASE link.next = "garbled"
  <2>1. GiveUp
    BY <1>3 DEF Page
  <2> QED BY <2>1, GiveUpStep
<1>4. CASE link.next = "true"
  <2>1. CASE link.cursor \in fetch.cursors
    <3>1. GiveUp
      BY <1>4, <2>1 DEF Page
    <3> QED BY <3>1, GiveUpStep
  <2>2. CASE link.cursor \notin fetch.cursors
    <3>1. More(fetch) /\ link.cursor = NextCursor(body)
      BY <1>4, <2>2 DEF Links
    <3>2. Follow(body, NextCursor(body))
      BY <1>4, <2>2, <3>1 DEF Page
    <3> QED BY <3>1, <3>2, FollowStep
  <2> QED BY <2>1, <2>2
<1> QED BY <1>1, <1>2, <1>3, <1>4 DEF Links

\* What a user does to an issue: it is no longer steady, and counts as changed.
LEMMA Disturbed ==
  ASSUME SentryTypeOK, NEW i \in Issue, Disturb(i)
  PROVE  /\ fetch' \in Fetch /\ fetch'.query = fetch.query /\ fetch'.steady = fetch.steady \ {i}
         /\ fetch'.collected = fetch.collected /\ fetch'.pages = fetch.pages
         /\ fetch'.cursor = fetch.cursor
         /\ out' \in Out /\ out'.phase = "listing" /\ out'.counted = out.counted
         /\ out'.missed = out.missed /\ out'.changed = out.changed \cup {i}
  BY DEF Disturb, SentryTypeOK, Fetch, Out

\* Whatever happens to one issue, the others keep their state; the issue is not older.
LEMMA DisturbStep ==
  ASSUME SentryInv, NEW i \in Issue, Disturb(i),
         seen' \in [Issue -> Times], IsInjective(seen'), state' \in [Issue -> Queries],
         clock' \in 0 .. MaxClock, clock' >= clock, seen'[i] >= seen[i],
         fetch.collected # <<>> => seen'[i] >= fetch.cursor \/ seen'[i] = seen[i],
         \A j \in Issue : seen'[j] <= clock',
         \A j \in Issue \ {i} : seen'[j] = seen[j] /\ state'[j] = state[j]
  PROVE  SentryInv'
<1>1. SentryTypeOK /\ Listing /\ Tallied /\ CountIsWhole
  BY DEF SentryInv
<1>2. /\ fetch' \in Fetch /\ fetch'.query = fetch.query /\ fetch'.steady = fetch.steady \ {i}
      /\ fetch'.collected = fetch.collected /\ fetch'.pages = fetch.pages
      /\ fetch'.cursor = fetch.cursor
      /\ out' \in Out /\ out'.phase = "listing" /\ out'.counted = out.counted
      /\ out'.missed = out.missed /\ out'.changed = out.changed \cup {i}
  BY <1>1, Disturbed
<1>3. SentryTypeOK'
  BY <1>2 DEF SentryTypeOK
<1>4. CountIsWhole'
  BY <1>1, <1>2 DEF CountIsWhole
<1>5. fetch.collected \in Seq(Issue) /\ Range(fetch.collected) \subseteq Issue /\ fetch.steady \subseteq Issue
  BY <1>1, SentryShape, Members
<1>6. fetch.cursor \in Nat /\ clock \in Nat /\ clock' \in Nat
  BY <1>1, SentryShape DEF Times, Ahead
<1>7. Listing'
  <2>1. fetch'.collected = <<>> \/ fetch'.cursor <= clock'
    BY <1>1, <1>2, <1>6 DEF Listing
  <2>2. \A j \in Range(fetch.collected) : seen'[j] >= fetch.cursor
    <3> SUFFICES ASSUME NEW j \in Range(fetch.collected) PROVE seen'[j] >= fetch.cursor
      OBVIOUS
    <3>1. fetch.collected # <<>> /\ seen[j] >= fetch.cursor
      BY <1>1, BeginIs DEF Listing, Queries
    <3> QED BY <1>5, <3>1
  <2>3. \A j \in fetch.steady \ {i} : state'[j] = fetch.query /\ (j \in Range(fetch.collected) \/ seen'[j] < fetch.cursor)
    BY <1>1, <1>5 DEF Listing
  <2> QED BY <1>1, <1>2, <2>1, <2>2, <2>3 DEF Listing
<1>8. Tallied'
  <2>1. \A j \in Range(fetch.collected) : j \in out'.changed \/ state'[j] = fetch.query
    BY <1>1, <1>2, <1>5 DEF Tallied
  <2>2. ASSUME NEW q \in Queries, NEW j \in Range(out.counted[q]) PROVE j \in out'.changed \/ state'[j] = q
    <3>1. j \in Issue
      BY <1>1, <2>2, SentryShape, Members
    <3> QED BY <1>1, <1>2, <2>2, <3>1 DEF Tallied, Counted
  <2> QED BY <1>2, <2>1, <2>2 DEF Tallied, Counted
<1> QED BY <1>2, <1>3, <1>4, <1>7, <1>8 DEF SentryInv

LEMMA EventStep ==
  ASSUME SentryInv, NEW i \in Issue, Event(i)
  PROVE  SentryInv'
<1>1. SentryTypeOK /\ Listing /\ Disturb(i) /\ clock < MaxClock /\ clock' = clock + 1
      /\ seen' = [seen EXCEPT ![i] = clock + 1] /\ state' = [state EXCEPT ![i] = "unresolved"]
  BY DEF SentryInv, Event
<1>2. /\ clock \in Nat /\ MaxClock \in Nat /\ seen \in [Issue -> Times]
      /\ state \in [Issue -> Queries]
      /\ fetch.cursor \in Nat /\ clock + 1 \in Times
  BY <1>1, SentryShape DEF Times, Ahead
<1>3. \A j \in Issue : seen[j] \in Nat /\ seen[j] < clock + 1
  BY <1>1, <1>2, SentryShape DEF SentryInv
<1>4. seen' \in [Issue -> Times] /\ state' \in [Issue -> Queries] /\ clock' \in 0 .. MaxClock
  BY <1>1, <1>2 DEF Queries
<1>5. IsInjective(seen')
  <2> SUFFICES ASSUME NEW a \in Issue, NEW b \in Issue, seen'[a] = seen'[b] PROVE a = b
    BY <1>4 DEF IsInjective
  <2>1. IsInjective(seen) /\ DOMAIN seen = Issue
    BY <1>1, <1>2 DEF SentryTypeOK
  <2>2. CASE a = i /\ b # i
    BY <1>1, <1>2, <1>3, <2>2
  <2>3. CASE a # i /\ b = i
    BY <1>1, <1>2, <1>3, <2>3
  <2>4. CASE a # i /\ b # i
    BY <1>1, <1>2, <2>1, <2>4 DEF IsInjective
  <2> QED BY <2>2, <2>3, <2>4
<1>6. seen'[i] = clock + 1 /\ \A j \in Issue \ {i} : seen'[j] = seen[j] /\ state'[j] = state[j]
  BY <1>1, <1>2
<1>7. \A j \in Issue : seen'[j] <= clock'
  BY <1>1, <1>2, <1>3, <1>6
<1>8. clock' >= clock /\ seen'[i] >= seen[i] /\ (fetch.collected # <<>> => seen'[i] >= fetch.cursor)
  BY <1>1, <1>2, <1>3, <1>6 DEF Listing
<1> QED BY <1>1, <1>4, <1>5, <1>6, <1>7, <1>8, DisturbStep

LEMMA ResolveStep ==
  ASSUME SentryInv, NEW i \in Issue, Resolve(i)
  PROVE  SentryInv'
<1>1. SentryTypeOK /\ Disturb(i) /\ state' = [state EXCEPT ![i] = "resolved"]
      /\ seen' = seen /\ clock' = clock
  BY DEF SentryInv, Resolve
<1>2. /\ clock \in 0 .. MaxClock /\ clock \in Nat /\ seen \in [Issue -> Times] /\ seen[i] \in Nat
      /\ state \in [Issue -> Queries]
  BY <1>1, SentryShape
<1>3. state' \in [Issue -> Queries] /\ \A j \in Issue \ {i} : state'[j] = state[j]
  BY <1>1, <1>2 DEF Queries
<1>4. IsInjective(seen) /\ \A j \in Issue : seen[j] <= clock
  BY DEF SentryInv, SentryTypeOK
<1>5. clock' >= clock /\ seen'[i] >= seen[i]
  BY <1>1, <1>2
<1> QED BY <1>1, <1>2, <1>3, <1>4, <1>5, DisturbStep

LEMMA CollectStep ==
  ASSUME SentryInv, NEW token \in BOOLEAN, Collect(token)
  PROVE  SentryInv'
<1>1. SentryTypeOK /\ out = Nothing /\ out \in Out /\ UNCHANGED <<seen, state, clock>>
      /\ \A i \in Issue : seen[i] <= clock
  BY DEF SentryInv, SentryTypeOK, Collect
<1>2. /\ out' \in Out /\ out'.phase \in {"listing", "done"}
      /\ out'.counted = out.counted /\ out'.missed = out.missed /\ out'.changed = out.changed
  BY <1>1 DEF Collect, Out, Phases
<1>3. CASE fetch' = fetch
  BY <1>1, <1>2, <1>3, QuietStep
<1>4. CASE fetch' = Begin("unresolved")
  <2>1. "unresolved" \in Queries
    BY DEF Queries
  <2>2. SentryTypeOK'
    BY <1>1, <1>2, <1>4, <2>1, BeginIs DEF SentryTypeOK
  <2>3. Listing'
    BY <1>1, <1>4, <2>1, BeginIs, SentryShape DEF Listing
  <2>4. Tallied'
    BY <1>1, <1>2, <1>4, <2>1, BeginIs DEF Tallied, Counted, SentryInv
  <2>5. CountIsWhole'
    BY <1>2 DEF CountIsWhole, SentryInv
  <2> QED BY <1>1, <1>2, <2>2, <2>3, <2>4, <2>5 DEF SentryInv
<1> QED BY <1>3, <1>4 DEF Collect

LEMMA AskUsersStep ==
  ASSUME SentryInv, AskUsers
  PROVE  SentryInv'
<1>1. out \in Out /\ UNCHANGED <<seen, state, clock, fetch>>
  BY SentryShape DEF SentryInv, AskUsers
<1>2. /\ out' \in Out /\ out'.phase = "done"
      /\ out'.counted = out.counted /\ out'.missed = out.missed /\ out'.changed = out.changed
  BY <1>1 DEF AskUsers, Out, Phases
<1> QED BY <1>1, <1>2, QuietStep

\* There is an order of activity to begin with.
LEMMA SomeOrder ==
  \E s \in [Issue -> 1 .. Cardinality(Issue)] : IsInjective(s)
<1> DEFINE n == Cardinality(Issue)
<1>1. n \in Nat /\ ExistsBijection(1 .. n, Issue)
  BY SentryAssumption, FS_CardinalityType
<1>2. ExistsBijection(Issue, 1 .. n)
  BY <1>1, Fun_ExistsBijSymmetric
<1>3. PICK s \in Bijection(Issue, 1 .. n) : TRUE
  BY <1>2 DEF ExistsBijection
<1>4. s \in [Issue -> 1 .. n] /\ IsInjective(s)
  BY <1>3 DEF Bijection, Injection, IsInjective
<1> QED BY <1>4

LEMMA SentryInit ==
  ASSUME InitSentry
  PROVE  SentryInv
<1>1. Cardinality(Issue) \in Nat /\ MaxClock \in Nat /\ Cardinality(Issue) <= MaxClock
  BY SentryAssumption, FS_CardinalityType
<1>2. seen \in [Issue -> 1 .. Cardinality(Issue)] /\ IsInjective(seen)
  BY SomeOrder DEF InitSentry
<1>3. seen \in [Issue -> Times] /\ \A i \in Issue : seen[i] <= clock
  BY <1>1, <1>2 DEF InitSentry, Times
<1>4. clock \in 0 .. MaxClock /\ state \in [Issue -> Queries]
  BY <1>1 DEF InitSentry
<1>5. <<>> \in Seq(Issue) /\ IsInjective(<<>>) /\ Range(<<>>) = {}
  BY EmptySeq DEF IsInjective, Range
<1>6. /\ fetch.query = "unresolved" /\ fetch.cursor = Ahead /\ fetch.cursors = {} /\ fetch.pages = 0
      /\ fetch.collected = <<>> /\ fetch.steady = Matching("unresolved")
      /\ Matching("unresolved") \subseteq Issue /\ fetch \in Fetch
  <2>1. 0 \in 0 .. MaxPages /\ Matching("unresolved") \subseteq Issue
    BY SentryAssumption DEF Matching
  <2> QED BY <1>5, <2>1 DEF InitSentry, Begin, Fetch, Queries
<1>7. out = Nothing /\ out \in Out
  <2>1. [q \in Queries |-> <<>>] \in [Queries -> Seq(Issue)]
    BY <1>5
  <2> QED BY <2>1 DEF InitSentry, Nothing, Out, Phases, Unknown
<1>8. SentryTypeOK
  BY <1>2, <1>3, <1>4, <1>6, <1>7 DEF SentryTypeOK
<1>9. Listing
  <2>1. \A i \in Matching("unresolved") : state[i] = "unresolved" /\ seen[i] < Ahead
    BY <1>1, <1>3 DEF Matching, Ahead, Times
  <2> QED BY <1>5, <1>6, <2>1, SentryAssumption DEF Listing
<1>10. Tallied /\ CountIsWhole
  <2>1. out.missed = {} /\ \A q \in Queries : out.counted[q] = <<>>
    BY <1>7 DEF Nothing
  <2> QED BY <1>5, <1>6, <2>1 DEF Tallied, Counted, CountIsWhole
<1> QED BY <1>3, <1>7, <1>8, <1>9, <1>10 DEF SentryInv

\* The counts of the listings of Sentry are whole because of where the cursor is.
THEOREM SentryInvariant == SpecSentry => []SentryInv
<1>1. InitSentry => SentryInv
  BY SentryInit
<1>2. SentryInv /\ [NextSentry]_sentryVars => SentryInv'
  <2> SUFFICES ASSUME SentryInv, [NextSentry]_sentryVars PROVE SentryInv'
    OBVIOUS
  <2>1. ASSUME NEW token \in BOOLEAN, Collect(token) PROVE SentryInv'
    BY <2>1, CollectStep
  <2>2. ASSUME NEW i \in Issue, Event(i) PROVE SentryInv'
    BY <2>2, EventStep
  <2>3. ASSUME NEW i \in Issue, Resolve(i) PROVE SentryInv'
    BY <2>3, ResolveStep
  <2>4. CASE Get
    <3>1. out.phase = "listing" /\ UNCHANGED <<seen, state, clock>>
      BY <2>4 DEF Get
    <3>2. ASSUME NEW body \in Bodies(fetch), NEW link \in Links(fetch, body), Page(body, link)
          PROVE SentryInv'
      BY <3>1, <3>2, PageStep
    <3>3. CASE GiveUp
      BY <3>1, <3>3, GiveUpStep
    <3> QED BY <2>4, <3>2, <3>3 DEF Get
  <2>5. CASE AskUsers
    BY <2>5, AskUsersStep
  <2>6. CASE UNCHANGED sentryVars
    BY <2>6 DEF sentryVars, SentryInv, SentryTypeOK, Listing, Tallied, CountIsWhole, Counted
  <2> QED BY <2>1, <2>2, <2>3, <2>4, <2>5, <2>6 DEF NextSentry, SentryWork
<1> QED BY <1>1, <1>2, PTL DEF SpecSentry

\* Every variable of the Sentry collector keeps its type, and no two issues their
\* last event at once.
THEOREM SentryTypeCorrect == SpecSentry => []SentryTypeOK
<1>1. SentryInv => SentryTypeOK
  BY DEF SentryInv
<1> QED BY <1>1, SentryInvariant, PTL

\* No published count is truncated or counts an issue twice, for any number of
\* issues, any page size and whatever metadata the service drops or repeats.
THEOREM CountsAreWhole == SpecSentry => []CountIsWhole
<1>1. SentryInv => CountIsWhole
  BY DEF SentryInv
<1> QED BY <1>1, SentryInvariant, PTL

\* The two tallies, read one after the other, share only issues that changed
\* in between.
THEOREM TalliesOverlap == SpecSentry => []TalliesOverlapByChanges
<1>1. SentryInv => TalliesOverlapByChanges
  <2> SUFFICES ASSUME SentryInv, NEW i \in Counted("unresolved"), i \in Counted("resolved")
               PROVE  i \in out.changed
    BY DEF TalliesOverlapByChanges
  <2>1. i \in out.changed \/ (state[i] = "unresolved" /\ state[i] = "resolved")
    BY DEF SentryInv, Tallied, Queries
  <2> QED BY <2>1
<1> QED BY <1>1, SentryInvariant, PTL

-----------------------------------------------------------------------------
(* How long a collect may take. *)

\* The requests a collect may still make: the pages left of the listing, those of
\* the next one, and the users.
Requests ==
  CASE out.phase = "listing" ->
         (MaxPages - fetch.pages) + 1 + (IF fetch.query = "unresolved" THEN MaxPages ELSE 0)
    [] out.phase = "users" -> 1
    [] OTHER -> 0

LEMMA RequestsAreCounted ==
  ASSUME SentryInv
  PROVE  /\ Requests \in Nat /\ MaxPages \in Nat \ {0} /\ fetch.pages \in Nat
         /\ fetch.pages < MaxPages
<1>1. MaxPages \in Nat \ {0} /\ fetch.pages \in 0 .. MaxPages /\ fetch.pages < MaxPages
  BY SentryShape DEF SentryInv, Listing
<1> QED BY <1>1 DEF Requests

LEMMA SentryRequestStep ==
  ASSUME SentryInv, SentryWork
  PROVE  Requests' < Requests
<1>1. fetch \in Fetch /\ out \in Out /\ fetch.query \in Queries /\ SentryTypeOK
  BY SentryShape DEF SentryInv
<1>2. MaxPages \in Nat \ {0} /\ fetch.pages \in Nat /\ fetch.pages < MaxPages
  BY RequestsAreCounted
<1>3. CASE Get
  <2>1. out.phase = "listing"
    BY <1>3 DEF Get
  <2>2. CASE GiveUp
    <3>1. out'.phase = IF fetch.query = "resolved" THEN "users" ELSE "done"
      BY <1>1, <2>2 DEF GiveUp, Ended, Out
    <3> QED BY <1>2, <2>1, <3>1 DEF Requests
  <2>3. ASSUME NEW body, Complete(body) PROVE Requests' < Requests
    <3>1. CASE fetch.query = "unresolved"
      <4>1. fetch' = Begin("resolved") /\ fetch'.query = "resolved" /\ fetch'.pages = 0
        BY <2>3, <3>1 DEF Complete, Begin
      <4>2. out'.phase = "listing"
        BY <1>1, <2>1, <2>3, <3>1 DEF Complete, Ended, Out
      <4> QED BY <1>2, <2>1, <3>1, <4>1, <4>2 DEF Requests
    <3>2. CASE fetch.query = "resolved"
      <4>1. out'.phase = "users"
        BY <1>1, <2>3, <3>2 DEF Complete, Ended, Out
      <4> QED BY <1>2, <2>1, <4>1 DEF Requests
    <3> QED BY <1>1, <3>1, <3>2 DEF Queries
  <2>4. ASSUME NEW body, NEW cursor, Follow(body, cursor), ~GiveUp PROVE Requests' < Requests
    <3>1. out' = out /\ fetch'.pages = fetch.pages + 1 /\ fetch'.query = fetch.query
      BY <1>1, <2>4 DEF Follow, Fetch
    <3> QED BY <1>2, <2>1, <3>1 DEF Requests
  <2>5. ASSUME NEW body \in Bodies(fetch), NEW link \in Links(fetch, body), Page(body, link)
        PROVE  GiveUp \/ Complete(body) \/ Follow(body, link.cursor)
    <3>1. CASE link.next = "false"
      BY <2>5, <3>1 DEF Page
    <3>2. CASE link.next = "absent"
      BY <2>5, <3>2 DEF Page
    <3>3. CASE link.next = "garbled"
      BY <2>5, <3>3 DEF Page
    <3>4. CASE link.next = "true"
      BY <2>5, <3>4 DEF Page
    <3> QED BY <3>1, <3>2, <3>3, <3>4 DEF Links
  <2> QED BY <1>3, <2>2, <2>3, <2>4, <2>5 DEF Get
<1>4. CASE AskUsers
  <2>1. out.phase = "users" /\ out'.phase = "done"
    BY <1>1, <1>4 DEF AskUsers, Out
  <2> QED BY <2>1 DEF Requests
<1> QED BY <1>3, <1>4 DEF SentryWork

\* A collect makes at most MaxPages requests a listing and one about the users,
\* whatever cursors the service gives and however the stream moves: each request
\* leaves fewer to make, and nothing else makes more.
THEOREM RequestsAreBounded ==
  SpecSentry => [][out.phase # "idle" => /\ Requests' \in Nat /\ Requests' <= Requests
                                         /\ SentryWork => Requests' < Requests]_sentryVars
<1>1. ASSUME SentryInv, SentryInv', [NextSentry]_sentryVars, out.phase # "idle"
      PROVE  /\ Requests' \in Nat /\ Requests' <= Requests
             /\ SentryWork => Requests' < Requests
  <2>1. Requests \in Nat
    BY <1>1, RequestsAreCounted
  <2>2. Requests' \in Nat
    <3>1. /\ MaxPages \in Nat /\ fetch'.pages \in 0 .. MaxPages /\ fetch'.pages < MaxPages
      BY <1>1, SentryAssumption DEF SentryInv, SentryTypeOK, Fetch, Listing
    <3> QED BY <3>1 DEF Requests
  <2>3. CASE SentryWork
    BY <1>1, <2>1, <2>2, <2>3, SentryRequestStep
  <2>4. CASE ~SentryWork
    <3>1. fetch'.pages = fetch.pages /\ fetch'.query = fetch.query /\ out'.phase = out.phase
      <4>1. ASSUME NEW i \in Issue, Event(i) \/ Resolve(i)
            PROVE  fetch'.pages = fetch.pages /\ fetch'.query = fetch.query /\ out'.phase = out.phase
        BY <1>1, <4>1, Disturbed DEF Event, Resolve, Disturb, SentryInv
      <4>2. CASE UNCHANGED sentryVars
        BY <4>2 DEF sentryVars
      <4> QED BY <1>1, <2>4, <4>1, <4>2 DEF NextSentry, Collect
    <3>2. Requests' = Requests
      BY <3>1 DEF Requests
    <3> QED BY <2>1, <2>4, <3>2
  <2> QED BY <2>3, <2>4
<1> QED BY <1>1, SentryInvariant, PTL DEF SpecSentry

=============================================================================
