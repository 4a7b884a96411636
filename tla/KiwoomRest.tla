------------------------------- MODULE KiwoomRest -------------------------------
(***************************************************************************)
(* The Kiwoom REST client: worker threads share one token, one lock around *)
(* its renewal and one call-rate limiter.  A page is retried after a       *)
(* transient error and, once, after a 401, which throws the shared token   *)
(* away, whichever token was refused.  A chart is a bounded sequence of    *)
(* pages.  The server may refuse a token at any time.                      *)
(*                                                                         *)
(* Time is counted in limiter intervals.                                   *)
(***************************************************************************)
EXTENDS Integers, FiniteSets

CONSTANTS
  Workers,      \* threads sharing the client
  MaxRetries,   \* kiwoom_max_retries
  MaxPages,     \* kiwoom_max_continuations
  MaxClock      \* bound on time

ASSUME KiwoomAssumption ==
  /\ MaxRetries \in Nat /\ MaxPages \in Nat \ {0} /\ MaxClock \in Nat
  /\ "none" \notin Workers

VARIABLES
  token,        \* _token: number of the one held, 0 for None
  issuedTokens,       \* tokens the server has issuedTokens
  refused,      \* tokens the server accepts no longer
  tokenLock,    \* the worker that holds _token_lock across a renewal, or "none"
  nextAllowed,  \* CallsPerSecondLimiter._next_allowed_at
  clock,
  worker,       \* the chart each worker fetches
  sent          \* history: calls made, refusals seen, tokens expired

kiwoomVars == <<token, issuedTokens, refused, tokenLock, nextAllowed, clock, worker, sent>>

NoChart == [phase |-> "idle", page |-> 0, retries |-> 0, refreshed |-> FALSE,
            token |-> 0, slot |-> 0, tries |-> 0]

KiwoomTypeOK ==
  /\ token \in 0..issuedTokens /\ refused \subseteq 1..issuedTokens
  /\ tokenLock \in Workers \cup {"none"}
  /\ \A w \in Workers :
       /\ worker[w].phase \in {"idle", "token", "renew", "page", "sent"}
       /\ worker[w].page \in 0..MaxPages /\ worker[w].retries \in 0..MaxRetries

KiwoomInit ==
  /\ token = 0 /\ issuedTokens = 0 /\ refused = {}
  /\ tokenLock = "none"
  /\ nextAllowed = 0 /\ clock = 0
  /\ worker = [w \in Workers |-> NoChart]
  /\ sent = [calls |-> 0, refusals |-> 0, expiries |-> 0]

LargerOf(a, b) == IF a > b THEN a ELSE b

NextPage(w) ==
  [worker[w] EXCEPT !.phase = "token", !.page = @ + 1, !.retries = 0, !.refreshed = FALSE,
                    !.tries = 0]

BeginChart(w) ==
  /\ worker[w].phase = "idle"
  /\ worker' = [worker EXCEPT ![w] = NextPage(w)]
  /\ UNCHANGED <<token, issuedTokens, refused, tokenLock, nextAllowed, clock, sent>>

MutReserve(w, phase, held) ==   \* the slot is not moved past an unused one
  /\ nextAllowed' = LargerOf(clock, nextAllowed)
  /\ worker' = [worker EXCEPT
       ![w] = [worker[w] EXCEPT !.phase = phase, !.token = held,
                                !.slot = LargerOf(clock, nextAllowed)]]

\* CallsPerSecondLimiter.wait: take the next free slot and sleep until it.
Reserve(w, phase, held) ==
  /\ nextAllowed' = LargerOf(clock, nextAllowed) + 1
  /\ worker' = [worker EXCEPT
       ![w] = [worker[w] EXCEPT !.phase = phase, !.token = held,
                                !.slot = LargerOf(clock, nextAllowed)]]

\* _get_token finds a token, and fetch_daily_chart_page takes a slot.
UseToken(w) ==
  /\ worker[w].phase = "token" /\ tokenLock = "none" /\ token # 0
  /\ Reserve(w, "page", token)
  /\ UNCHANGED <<token, issuedTokens, refused, tokenLock, clock, sent>>

\* _get_token finds none, and keeps the lock until the answer.
RequestToken(w) ==
  /\ worker[w].phase = "token" /\ tokenLock = "none" /\ token = 0
  /\ tokenLock' = w
  /\ Reserve(w, "renew", 0)
  /\ UNCHANGED <<token, issuedTokens, refused, clock, sent>>

Counted == [sent EXCEPT !.calls = @ + 1]

\* The error is retried, unless it is permanent or the retries are used up.
RetryOrRaise(w, retryable) ==
  worker' = [worker EXCEPT
    ![w] = IF retryable /\ worker[w].retries < MaxRetries
           THEN [worker[w] EXCEPT !.phase = "token", !.retries = @ + 1] ELSE NoChart]

ReceiveToken(w) ==
  /\ worker[w].phase = "renew" /\ clock >= worker[w].slot
  /\ tokenLock' = "none"
  /\ sent' = Counted
  /\ \/ /\ issuedTokens' = issuedTokens + 1
        /\ token' = issuedTokens + 1
        /\ \E stale \in {{}, 1..issuedTokens} : refused' = refused \cup stale
        /\ worker' = [worker EXCEPT ![w].phase = "token"]
     \/ /\ \E retryable \in BOOLEAN : RetryOrRaise(w, retryable)
        /\ UNCHANGED <<token, issuedTokens, refused>>
  /\ UNCHANGED <<nextAllowed, clock>>

SendPage(w) ==
  /\ worker[w].phase = "page" /\ clock >= worker[w].slot
  /\ worker' = [worker EXCEPT ![w] = [worker[w] EXCEPT !.phase = "sent", !.tries = @ + 1]]
  /\ sent' = Counted
  /\ UNCHANGED <<token, issuedTokens, refused, tokenLock, nextAllowed, clock>>

\* 401, once per page: the shared token is dropped.
DropToken(w) ==
  /\ worker[w].phase = "sent" /\ worker[w].token \in refused
  /\ ~worker[w].refreshed /\ tokenLock = "none"
  /\ token' = 0
  /\ worker' = [worker EXCEPT ![w] = [worker[w] EXCEPT !.phase = "token", !.refreshed = TRUE]]
  /\ sent' = [sent EXCEPT !.refusals = @ + 1]
  /\ UNCHANGED <<issuedTokens, refused, tokenLock, nextAllowed, clock>>

\* A second 401 is raised; any other error may be retried.
PageFails(w) ==
  /\ worker[w].phase = "sent"
  /\ \/ worker[w].token \in refused /\ worker[w].refreshed /\ RetryOrRaise(w, FALSE)
     \/ \E retryable \in BOOLEAN : RetryOrRaise(w, retryable)
  /\ UNCHANGED <<token, issuedTokens, refused, tokenLock, nextAllowed, clock, sent>>

\* The last page ends the chart; too many pages are an error.
PageArrives(w) ==
  /\ worker[w].phase = "sent" /\ worker[w].token \notin refused
  /\ \/ worker' = [worker EXCEPT ![w] = NoChart]
     \/ worker[w].page < MaxPages /\ worker' = [worker EXCEPT ![w] = NextPage(w)]
  /\ UNCHANGED <<token, issuedTokens, refused, tokenLock, nextAllowed, clock, sent>>

\* _token_expires_at has passed.
TokenExpires ==
  /\ token # 0 /\ tokenLock = "none"
  /\ token' = 0
  /\ sent' = [sent EXCEPT !.expiries = @ + 1]
  /\ UNCHANGED <<issuedTokens, refused, tokenLock, nextAllowed, clock, worker>>

ServerRefuses ==
  /\ refused' = 1..issuedTokens
  /\ UNCHANGED <<token, issuedTokens, tokenLock, nextAllowed, clock, worker, sent>>

TimePasses ==
  /\ clock < MaxClock
  /\ clock' = clock + 1
  /\ UNCHANGED <<token, issuedTokens, refused, tokenLock, nextAllowed, worker, sent>>

KiwoomNext ==
  \/ \E w \in Workers :
       \/ BeginChart(w) \/ UseToken(w) \/ RequestToken(w) \/ ReceiveToken(w) \/ SendPage(w)
       \/ DropToken(w) \/ PageFails(w) \/ PageArrives(w)
  \/ TokenExpires \/ ServerRefuses \/ TimePasses

KiwoomSpec == KiwoomInit /\ [][KiwoomNext]_kiwoomVars

-----------------------------------------------------------------------------
\* The quota is kept however threads are scheduled: by any time no more calls,
\* token requests included, were made than slots have come.  Nor do refusals
\* multiply: a page is sent at most once per retry and once more after a 401,
\* and a new token is asked for only after an expiry or a refusal.
KiwoomCallsAreBounded ==
  /\ sent.calls <= clock + 1
  /\ \A w \in Workers : worker[w].tries <= MaxRetries + 2
  /\ issuedTokens <= 1 + sent.expiries + sent.refusals

=============================================================================
