------------------------------- MODULE ApiRuntime -------------------------------
(***************************************************************************)
(* The read API: a rate limit per client and path, tokens with scopes for  *)
(* the agent and operator routes, and an in-process cache of the public    *)
(* answers.  Handlers run in a thread pool, so two of them interleave      *)
(* between the cache's look-up, its read, its removal of an expired entry, *)
(* the query and the store; the daily batch commits new data meanwhile.    *)
(*                                                                         *)
(* The cache key of a ranking leaves out the filters exclude_etf, sector   *)
(* and search; they are abstracted to one value, `filter`.                 *)
(***************************************************************************)
EXTENDS Integers, FiniteSets, Sequences

CONSTANTS
  Threads,         \* worker threads of one API process
  ApiRequests,     \* what clients send: [client, path, filter, token]
  ServiceTokens,   \* AGENT_SERVICE_TOKENS: a sequence of <<token, scopes>>
  OperatorTokens,  \* OPERATOR_SERVICE_TOKENS
  Limit,           \* requests of a client on a path ...
  Window,          \* ... in this many seconds
  Ttl,             \* seconds an answer stays in the cache
  MaxTime,         \* bound on the clock
  MaxData          \* bound on the versions of the data

ReadOnlyScopes == {"status:read", "rs:read", "stock:read", "backtest:read", "analysis:read"}
RequiredScope == [agent |-> "rs:read", operator |-> "repair:claim"]
Paths == {"rankings", "stats"} \cup DOMAIN RequiredScope

ASSUME ApiAssumption ==
  /\ Limit \in Nat /\ Window \in Nat /\ Ttl \in Nat /\ MaxTime \in Nat /\ MaxData \in Nat \ {0}
  /\ \A r \in ApiRequests : r.path \in Paths

VARIABLES
  now,       \* seconds
  hits,      \* of each client and path: the times the limiter remembers
  cache,     \* key -> [value, expires]
  data,      \* version of what the queries see
  thread,    \* the handlers
  answer,    \* history: the last answer of a cached route
  admitted   \* history: of each client and path, the last Limit + 1 admissions

apiVars == <<now, hits, cache, data, thread, answer, admitted>>

IdleThread == [pc |-> "idle"]
NoAnswer == [at |-> 0]
Senders == {<<r.client, r.path>> : r \in ApiRequests}

ApiInit ==
  /\ now = 0
  /\ hits = [s \in Senders |-> <<>>]
  /\ cache = <<>>
  /\ data = 1
  /\ thread = [t \in Threads |-> IdleThread]
  /\ answer = NoAnswer
  /\ admitted = [s \in Senders |-> <<>>]

ApiTypeOK ==
  /\ now \in 0..MaxTime /\ data \in 1..MaxData
  /\ \A s \in Senders : Len(hits[s]) <= Limit /\ Len(admitted[s]) <= Limit + 1
  /\ \A t \in Threads :
       thread[t].pc \in {"idle", "authorise", "contains", "read", "delete", "compute", "store"}
  /\ \A k \in DOMAIN cache : cache[k].expires <= MaxTime + Ttl

-----------------------------------------------------------------------------
(* Admission.                                                              *)

\* The hits of the last `seconds`.  They are in the order of time, so those that
\* are dropped come first.
HitsWithin(sender, seconds) ==
  LET times == hits[sender]
      kept == {i \in DOMAIN times : times[i] > now - seconds} \cup {Len(times) + 1}
      first == CHOOSE i \in kept : \A j \in kept : i <= j
  IN SubSeq(times, first, Len(times))

MutRemembered(sender) == HitsWithin(sender, 1)   \* those of the last second only

Remembered(sender) == HitsWithin(sender, Window)

Latest(times) == SubSeq(times, IF Len(times) > Limit + 1 THEN 2 ELSE 1, Len(times))

\* The middleware runs on the event loop: one request at a time.  Beyond the
\* limit the answer is 429.
Receive(t, r) ==
  LET sender == <<r.client, r.path>> seen == Remembered(sender) IN
  /\ thread[t] = IdleThread
  /\ IF Len(seen) >= Limit
     THEN /\ hits' = [hits EXCEPT ![sender] = seen]
          /\ UNCHANGED <<thread, admitted>>
     ELSE /\ hits' = [hits EXCEPT ![sender] = Append(seen, now)]
          /\ admitted' = [admitted EXCEPT ![sender] = Latest(Append(@, now))]
          /\ thread' = [thread EXCEPT ![t] = [pc |-> "authorise", request |-> r]]
  /\ UNCHANGED <<now, cache, data, answer>>

\* parse_service_tokens keeps read scopes only and drops entries left empty.
ReadTokens ==
  SelectSeq([i \in DOMAIN ServiceTokens |->
               <<ServiceTokens[i][1], ServiceTokens[i][2] \cap ReadOnlyScopes>>],
            LAMBDA entry : entry[2] # {})

\* The first entry of the token decides: 401 without one, 403 without the scope.
Authorised(r) ==
  LET tokens == IF r.path = "agent" THEN ReadTokens ELSE OperatorTokens
      own == {i \in DOMAIN tokens : tokens[i][1] = r.token}
  IN own # {} /\ RequiredScope[r.path] \in tokens[CHOOSE i \in own : \A j \in own : i <= j][2]

\* The agent and operator routes are not cached; a refusal ends the request.
\* The API is taken to be enabled and the client's address to be allowed: what
\* the switch and the allowlist refuse, before the token is read, ends here too.
Authorise(t) ==
  /\ thread[t].pc = "authorise"
  /\ LET r == thread[t].request cached == r.path \notin DOMAIN RequiredScope IN
     /\ thread' = [thread EXCEPT ![t] =
          IF cached THEN [pc |-> "contains", request |-> r] ELSE IdleThread]
     /\ answer' = IF ~cached /\ Authorised(r)
                  THEN [at |-> now, request |-> r, value |-> [filter |-> r.filter, data |-> data],
                        stored |-> now]
                  ELSE answer
  /\ UNCHANGED <<now, hits, cache, data, admitted>>

-----------------------------------------------------------------------------
(* The cache.                                                              *)

Doing(t, pc) == thread[t].pc = pc
CacheKey(r) == r.path

LookUp(t) ==
  /\ Doing(t, "contains")
  /\ thread' = [thread EXCEPT ![t].pc =
       IF CacheKey(thread[t].request) \in DOMAIN cache THEN "read" ELSE "compute"]
  /\ UNCHANGED <<now, hits, cache, data, answer, admitted>>

Expired(entry) == now > entry.expires

\* KeyError, a 500, when another thread has removed the entry meanwhile.
Read(t) ==
  LET r == thread[t].request k == CacheKey(r) IN
  /\ Doing(t, "read")
  /\ IF k \in DOMAIN cache /\ ~Expired(cache[k])
     THEN answer' = [at |-> now, request |-> r, value |-> cache[k].value, stored |-> cache[k].stored]
     ELSE answer' = answer
  /\ thread' = [thread EXCEPT ![t] =
       IF k \in DOMAIN cache /\ Expired(cache[k]) THEN [pc |-> "delete", request |-> r]
       ELSE IdleThread]
  /\ UNCHANGED <<now, hits, cache, data, admitted>>

\* Removes what is there now, which may be a newer entry; KeyError as above.
Delete(t) ==
  LET r == thread[t].request k == CacheKey(r) IN
  /\ Doing(t, "delete")
  /\ cache' = [j \in DOMAIN cache \ {k} |-> cache[j]]
  /\ thread' = [thread EXCEPT ![t] =
       IF k \in DOMAIN cache THEN [pc |-> "compute", request |-> r] ELSE IdleThread]
  /\ UNCHANGED <<now, hits, data, answer, admitted>>

Compute(t) ==
  LET r == thread[t].request IN
  /\ Doing(t, "compute")
  /\ thread' = [thread EXCEPT ![t] =
       [pc |-> "store", request |-> r, value |-> [filter |-> r.filter, data |-> data]]]
  /\ UNCHANGED <<now, hits, cache, data, answer, admitted>>

Store(t) ==
  LET r == thread[t].request value == thread[t].value k == CacheKey(r) IN
  /\ Doing(t, "store")
  /\ cache' = [j \in DOMAIN cache \cup {k} |->
       IF j = k THEN [value |-> value, stored |-> now, expires |-> now + Ttl] ELSE cache[j]]
  /\ answer' = [at |-> now, request |-> r, value |-> value, stored |-> now]
  /\ thread' = [thread EXCEPT ![t] = IdleThread]
  /\ UNCHANGED <<now, hits, data, admitted>>

-----------------------------------------------------------------------------
Second == now < MaxTime /\ now' = now + 1 /\ UNCHANGED <<hits, cache, data, thread, answer, admitted>>

BatchCommits ==
  /\ data < MaxData /\ data' = data + 1
  /\ UNCHANGED <<now, hits, cache, thread, answer, admitted>>

ApiNext ==
  \/ \E t \in Threads :
       \/ \E r \in ApiRequests : Receive(t, r)
       \/ Authorise(t) \/ LookUp(t) \/ Read(t) \/ Delete(t) \/ Compute(t) \/ Store(t)
  \/ Second \/ BatchCommits

ApiSpec == ApiInit /\ [][ApiNext]_apiVars

-----------------------------------------------------------------------------
WindowsAreLimited ==
  \A s \in Senders : Len(admitted[s]) > Limit =>
    admitted[s][Limit + 1] - admitted[s][1] >= Window

ServedInTime ==
  answer # NoAnswer =>
    /\ answer.at <= answer.stored + Ttl
    /\ answer.request.path \in DOMAIN RequiredScope => answer.stored = answer.at /\ Authorised(answer.request)

\* core/rate_limit.py:50, core/cache.py:62: whatever the threads interleave, of
\* any Window seconds a client gets at most Limit requests on a path admitted,
\* an answer is served no longer than Ttl after it was stored, and an agent or
\* operator route is answered afresh and only to a token with its scope.
AnswersAreBounded == WindowsAreLimited /\ ServedInTime

\* api/v1/endpoints/rankings.py:27-29, 59-61: a ranking is answered for the
\* filters of its own request, among them exclude_etf ("ETF 제외 여부"), sector
\* and search, which the handler applies and the cache key leaves out.
AnswerMatchesFilter == answer # NoAnswer => answer.value.filter = answer.request.filter

=============================================================================
