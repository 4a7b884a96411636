----------------------------- MODULE RepairQueue -----------------------------
(***************************************************************************)
(* The PostgreSQL-backed repair queue: claim / complete / fail, as the     *)
(* database sees them.  A handler of app/api/v1/endpoints/repair.py runs   *)
(* in one SQLAlchemy session (autoflush off) over a READ COMMITTED         *)
(* transaction, so a handler is several steps here:                        *)
(*                                                                         *)
(*   - a SELECT returns committed rows; a row the session has already      *)
(*     loaded keeps the attribute values of its first load, also when a    *)
(*     later SELECT ... FOR UPDATE returns it again;                       *)
(*   - nothing is written before the flush, which updates by primary key   *)
(*     exactly the columns whose in-memory value differs from the loaded   *)
(*     one, whatever the row has become in the meantime (Flush);           *)
(*   - a row lock is held from SELECT ... FOR UPDATE to the commit.        *)
(*                                                                         *)
(* A request row, its attempts and its result rows are the committed       *)
(* tables.  A claim token is named by the attempt it was issued for.       *)
(*                                                                         *)
(* Definitions named Mut... are plausible bugs, used by no specification:  *)
(* each stands before the definition it would replace.                     *)
(***************************************************************************)
EXTENDS Integers, FiniteSets

CONSTANTS
  Requests,      \* primary keys of crawl_repair_requests, in order of request
  Sessions,      \* concurrent API sessions
  MaxAttempts,   \* crawl_repair_requests.max_attempts
  LeaseSeconds,  \* settings.repair_claim_lease_seconds
  RetryDelays,   \* the retry_after_seconds a client may send
  MaxClock,      \* bound on the modelled clock
  Unread         \* a row this session has not loaded

ASSUME RequestsAssumption == Requests \subseteq Nat \ {0}
ASSUME MaxAttemptsAssumption == MaxAttempts \in Nat \ {0}
ASSUME LeaseAssumption == LeaseSeconds \in Nat \ {0}
ASSUME RetryAssumption == RetryDelays \subseteq Nat
ASSUME ClockAssumption == MaxClock \in Nat

VARIABLES
  clock,     \* datetime.utcnow()
  request,   \* crawl_repair_requests
  attempt,   \* crawl_repair_attempts: [request -> [attempt_no -> status]]
  result,    \* crawl_repair_results: the attempts that have result rows
  claims,    \* <<request, attempt_no>> of the claim tokens handed to clients
  pc,        \* where the handler of a session is
  now,       \* the time that handler captured
  loaded,    \* its identity map: request rows as it first read them
  todo,      \* expired requests _requeue_expired has still to visit
  doomed,    \* attempts it has marked failed, not flushed yet
  target,    \* the request it claims, completes or fails
  token      \* the claim token the client sent

tables == <<request, attempt, result, claims>>
memory == <<pc, now, loaded, todo, doomed, target, token>>
vars == <<clock, tables, memory>>

AttemptNo == 1..MaxAttempts
Counts == 0..MaxAttempts
RequestStatus == {"absent", "pending", "processing", "completed", "failed"}
AttemptStatus == {"absent", "processing", "completed", "failed"}

\* token = 0 and lease_expires_at = 0 stand for NULL.
Row == [status : RequestStatus, attempt_count : Counts, claim_version : Counts,
        token : Counts, lease_expires_at : Nat, next_attempt_at : Nat]

NoRow == [status |-> "absent", attempt_count |-> 0, claim_version |-> 0,
          token |-> 0, lease_expires_at |-> 0, next_attempt_at |-> 0]

ASSUME UnreadAssumption == Unread \notin Row

NothingLoaded == [r \in Requests |-> Unread]

TypeOK ==
  /\ clock \in Nat
  /\ request \in [Requests -> Row]
  /\ attempt \in [Requests -> [AttemptNo -> AttemptStatus]]
  /\ result \in [Requests -> SUBSET AttemptNo]
  /\ claims \subseteq Requests \X AttemptNo
  /\ pc \in [Sessions -> {"idle", "requeue", "claim", "complete", "fail"}]
  /\ now \in [Sessions -> Nat]
  /\ loaded \in [Sessions -> [Requests -> Row \cup {Unread}]]
  /\ todo \in [Sessions -> SUBSET Requests]
  /\ doomed \in [Sessions -> SUBSET (Requests \X AttemptNo)]
  /\ target \in [Sessions -> Requests \cup {0}]
  /\ token \in [Sessions -> Counts]

Init ==
  /\ clock = 0
  /\ request = [r \in Requests |-> NoRow]
  /\ attempt = [r \in Requests |-> [n \in AttemptNo |-> "absent"]]
  /\ result = [r \in Requests |-> {}]
  /\ claims = {}
  /\ pc = [s \in Sessions |-> "idle"]
  /\ now = [s \in Sessions |-> 0]
  /\ loaded = [s \in Sessions |-> NothingLoaded]
  /\ todo = [s \in Sessions |-> {}]
  /\ doomed = [s \in Sessions |-> {}]
  /\ target = [s \in Sessions |-> 0]
  /\ token = [s \in Sessions |-> 0]

-----------------------------------------------------------------------------
(* The unit of work.                                                       *)

MutFlush(row, was, is) == is   \* writes every column

Net(column, was, is) == IF is # was THEN is ELSE column

\* UPDATE ... SET <columns with a net change> WHERE id = :id
Flush(row, was, is) ==
  [status           |-> Net(row.status, was.status, is.status),
   attempt_count    |-> Net(row.attempt_count, was.attempt_count, is.attempt_count),
   claim_version    |-> Net(row.claim_version, was.claim_version, is.claim_version),
   token            |-> Net(row.token, was.token, is.token),
   lease_expires_at |-> Net(row.lease_expires_at, was.lease_expires_at, is.lease_expires_at),
   next_attempt_at  |-> Net(row.next_attempt_at, was.next_attempt_at, is.next_attempt_at)]

\* A row another session holds with SELECT ... FOR UPDATE.
LockedByOther(s, r) ==
  \E t \in Sessions \ {s} : pc[t] = "claim" /\ target[t] = r

\* session.close(): the identity map and every unflushed change are gone.
EndSession(s) ==
  /\ pc' = [pc EXCEPT ![s] = "idle"]
  /\ now' = [now EXCEPT ![s] = 0]
  /\ loaded' = [loaded EXCEPT ![s] = NothingLoaded]
  /\ todo' = [todo EXCEPT ![s] = {}]
  /\ doomed' = [doomed EXCEPT ![s] = {}]
  /\ target' = [target EXCEPT ![s] = 0]
  /\ token' = [token EXCEPT ![s] = 0]

\* The handler dies, the client disconnects, PostgreSQL kills a deadlock
\* victim, or a check raises: the transaction rolls back.
Abort(s) ==
  /\ pc[s] # "idle"
  /\ EndSession(s)
  /\ UNCHANGED <<clock, tables>>

-----------------------------------------------------------------------------
(* enqueue                                                                 *)

\* A failed crawl target becomes a pending request; the unique dedupe_key
\* makes a second enqueue of the same key return the existing row.
Enqueue(r) ==
  /\ request[r].status = "absent"
  /\ \A q \in Requests : q < r => request[q].status # "absent"
  /\ request' = [request EXCEPT ![r].status = "pending",
                                ![r].next_attempt_at = clock]
  /\ UNCHANGED <<clock, attempt, result, claims, memory>>

-----------------------------------------------------------------------------
(* POST /requests/claim                                                    *)

MutLeaseExpired(row, t) == row.status = "processing"   \* no lease comparison

LeaseExpired(row, t) ==
  /\ row.status = "processing"
  /\ row.lease_expires_at # 0
  /\ row.lease_expires_at <= t

MutRequeued(row, t) ==   \* forgets the status
  [row EXCEPT !.token = 0, !.lease_expires_at = 0, !.next_attempt_at = t]

\* What _requeue_expired and the claim leave in memory for a loaded row.
Requeued(row, t) ==
  [row EXCEPT !.status = "pending", !.token = 0, !.lease_expires_at = 0,
              !.next_attempt_at = t]

MutClaimed(row, t) ==   \* subtracts the lease
  [row EXCEPT !.status = "processing", !.attempt_count = @ + 1,
              !.claim_version = @ + 1, !.token = row.attempt_count + 1,
              !.lease_expires_at = t - LeaseSeconds]

Claimed(row, t) ==
  [row EXCEPT !.status = "processing",
              !.attempt_count = @ + 1,
              !.claim_version = @ + 1,
              !.token = row.attempt_count + 1,
              !.lease_expires_at = t + LeaseSeconds]

Ready(row, t) ==
  /\ row.status = "pending"
  /\ row.next_attempt_at <= t
  /\ row.attempt_count < MaxAttempts

\* order_by(attempt_no.desc()).limit(1)
IsLatestAttempt(r, n) ==
  /\ attempt[r][n] # "absent"
  /\ \A m \in AttemptNo : attempt[r][m] # "absent" => m <= n

\* claim_one captures now; the first query of _requeue_expired loads every
\* expired request, without a lock.
ClaimBegin(s) ==
  /\ pc[s] = "idle"
  /\ pc' = [pc EXCEPT ![s] = "requeue"]
  /\ now' = [now EXCEPT ![s] = clock]
  /\ todo' = [todo EXCEPT ![s] = {r \in Requests : LeaseExpired(request[r], clock)}]
  /\ loaded' = [loaded EXCEPT ![s] =
                  [r \in Requests |-> IF LeaseExpired(request[r], clock)
                                        THEN request[r] ELSE Unread]]
  /\ UNCHANGED <<clock, tables, doomed, target, token>>

\* One turn of the loop: read the latest attempt, fail it in memory if it is
\* still processing.  The request is put back to pending in memory only.
RequeueOne(s, r) ==
  /\ pc[s] = "requeue"
  /\ r \in todo[s]
  /\ todo' = [todo EXCEPT ![s] = @ \ {r}]
  /\ doomed' = [doomed EXCEPT ![s] =
       @ \cup {<<r, n>> : n \in {m \in AttemptNo :
                 IsLatestAttempt(r, m) /\ attempt[r][m] = "processing"}}]
  /\ UNCHANGED <<clock, tables, pc, now, loaded, target, token>>

MutUnlockedCandidates(s) == {r \in Requests : Ready(request[r], now[s])}

MutLastAttemptCandidates(s) ==   \* off by one: the last attempt is never used
  {r \in Requests : /\ Ready(request[r], now[s]) /\ ~LockedByOther(s, r)
                    /\ request[r].attempt_count + 1 < MaxAttempts}

\* The rows SELECT ... FOR UPDATE SKIP LOCKED LIMIT 1 may return: committed,
\* so what this session has requeued in memory is not among them.
Candidates(s) ==
  {r \in Requests : Ready(request[r], now[s]) /\ ~LockedByOther(s, r)}

ClaimPick(s, r) ==
  /\ pc[s] = "requeue"
  /\ todo[s] = {}
  /\ r \in Candidates(s)
  /\ \A q \in Candidates(s) : r <= q
  /\ pc' = [pc EXCEPT ![s] = "claim"]
  /\ target' = [target EXCEPT ![s] = r]
  /\ loaded' = [loaded EXCEPT ![s][r] = IF @ = Unread THEN request[r] ELSE @]
  /\ UNCHANGED <<clock, tables, now, todo, doomed, token>>

\* 204 No Content: the endpoint returns before _commit, so the session closes
\* with a rollback and the requeues above are lost.
ClaimNone(s) ==
  /\ pc[s] = "requeue"
  /\ todo[s] = {}
  /\ Candidates(s) = {}
  /\ EndSession(s)
  /\ UNCHANGED <<clock, tables>>

\* The in-memory value of a loaded row when the claim flushes.
InMemory(s, r) ==
  IF r = target[s] THEN Claimed(loaded[s][r], now[s])
                   ELSE Requeued(loaded[s][r], now[s])

\* The flush writes the claimed row, its new attempt, and every requeued row;
\* an attempt number already taken violates uq_crawl_repair_attempt_request_no
\* and the transaction aborts.
ClaimCommit(s) ==
  LET r == target[s]
      n == loaded[s][r].attempt_count + 1
  IN
  /\ pc[s] = "claim"
  /\ \A q \in Requests : loaded[s][q] # Unread => ~LockedByOther(s, q)
  /\ attempt[r][n] = "absent"
  /\ request' = [q \in Requests |->
                   IF loaded[s][q] = Unread THEN request[q]
                   ELSE Flush(request[q], loaded[s][q], InMemory(s, q))]
  /\ attempt' = [q \in Requests |-> [m \in AttemptNo |->
                   IF q = r /\ m = n THEN "processing"
                   ELSE IF <<q, m>> \in doomed[s] THEN "failed"
                   ELSE attempt[q][m]]]
  /\ claims' = claims \cup {<<r, n>>}
  /\ EndSession(s)
  /\ UNCHANGED <<clock, result>>

-----------------------------------------------------------------------------
(* POST /requests/{id}/complete                                            *)

\* The service reads the request without a lock and validates the payload;
\* the repository then captures now.  A token may be sent late or twice.
CompleteBegin(s, r, n) ==
  /\ pc[s] = "idle"
  /\ <<r, n>> \in claims
  /\ request[r].status = "processing"
  /\ pc' = [pc EXCEPT ![s] = "complete"]
  /\ now' = [now EXCEPT ![s] = clock]
  /\ loaded' = [loaded EXCEPT ![s][r] = request[r]]
  /\ target' = [target EXCEPT ![s] = r]
  /\ token' = [token EXCEPT ![s] = n]
  /\ UNCHANGED <<clock, tables, todo, doomed>>

MutHoldsClaim(row, r, n, t) ==   \* finds the attempt whatever its status
  /\ row.status = "processing"
  /\ row.lease_expires_at = 0 \/ row.lease_expires_at > t
  /\ row.token = n
  /\ row.claim_version = n

\* _locked_claim's checks, over the attributes the session has in memory; the
\* attempt filter is evaluated by the database, over the committed attempt.
HoldsClaim(row, r, n, t) ==
  /\ row.status = "processing"
  /\ row.lease_expires_at = 0 \/ row.lease_expires_at > t
  /\ row.token = n
  /\ row.claim_version = n
  /\ row.attempt_count \in AttemptNo
  /\ attempt[r][row.attempt_count] = "processing"

MutAttemptEnds(r, n, outcome) ==   \* leaves a delivered attempt open
  attempt' = [attempt EXCEPT ![r][n] = IF outcome = "failed" THEN outcome ELSE @]

AttemptEnds(r, n, outcome) == attempt' = [attempt EXCEPT ![r][n] = outcome]

\* Lock, check, insert the result rows, finish attempt and request, commit.
CompleteCommit(s) ==
  LET r == target[s]
      row == loaded[s][r]
      n == row.attempt_count
  IN
  /\ pc[s] = "complete"
  /\ ~LockedByOther(s, r)
  /\ HoldsClaim(row, r, token[s], now[s])
  /\ request' = [request EXCEPT ![r] =
       Flush(@, row, [row EXCEPT !.status = "completed", !.token = 0,
                                 !.lease_expires_at = 0])]
  /\ AttemptEnds(r, n, "completed")
  /\ result' = [result EXCEPT ![r] = @ \cup {n}]
  /\ EndSession(s)
  /\ UNCHANGED <<clock, claims>>

-----------------------------------------------------------------------------
(* POST /requests/{id}/fail                                                *)

FailBegin(s, r, n) ==
  /\ pc[s] = "idle"
  /\ <<r, n>> \in claims
  /\ pc' = [pc EXCEPT ![s] = "fail"]
  /\ now' = [now EXCEPT ![s] = clock]
  /\ target' = [target EXCEPT ![s] = r]
  /\ token' = [token EXCEPT ![s] = n]
  /\ UNCHANGED <<clock, tables, loaded, todo, doomed>>

MutCanRetry(row, retryable) == retryable   \* no attempt limit

CanRetry(row, retryable) == retryable /\ row.attempt_count < MaxAttempts

\* This session loads the row with the lock, so it sees the committed one.
FailCommit(s, retryable, delay) ==
  LET r == target[s]
      row == request[r]
  IN
  /\ pc[s] = "fail"
  /\ ~LockedByOther(s, r)
  /\ HoldsClaim(row, r, token[s], now[s])
  /\ request' = [request EXCEPT ![r] =
       [row EXCEPT !.status = IF CanRetry(row, retryable) THEN "pending" ELSE "failed",
                   !.token = 0, !.lease_expires_at = 0,
                   !.next_attempt_at = now[s] + delay]]
  /\ AttemptEnds(r, row.attempt_count, "failed")
  /\ EndSession(s)
  /\ UNCHANGED <<clock, result, claims>>

-----------------------------------------------------------------------------

Tick ==
  /\ clock < MaxClock
  /\ clock' = clock + 1
  /\ UNCHANGED <<tables, memory>>

Claim(s) ==
  \/ ClaimBegin(s)
  \/ \E r \in Requests : RequeueOne(s, r)
  \/ \E r \in Requests : ClaimPick(s, r)
  \/ ClaimNone(s)
  \/ ClaimCommit(s)

Complete(s) ==
  \/ \E r \in Requests, n \in AttemptNo : CompleteBegin(s, r, n)
  \/ CompleteCommit(s)

Fail(s) ==
  \/ \E r \in Requests, n \in AttemptNo : FailBegin(s, r, n)
  \/ \E retryable \in BOOLEAN, delay \in RetryDelays : FailCommit(s, retryable, delay)

Next ==
  \/ Tick
  \/ \E r \in Requests : Enqueue(r)
  \/ \E s \in Sessions : Claim(s) \/ Complete(s) \/ Fail(s) \/ Abort(s)

Spec == Init /\ [][Next]_vars

\* Claims are polled, and not every poll dies: each step of a claim that is
\* possible again and again is taken.  No handler hangs for ever: a session
\* that does not commit is closed.  What clients send is unconstrained.
Fairness ==
  \A s \in Sessions :
    /\ SF_vars(ClaimBegin(s)) /\ WF_vars(ClaimNone(s)) /\ WF_vars(Abort(s))
    /\ \A r \in Requests : SF_vars(RequeueOne(s, r)) /\ SF_vars(ClaimPick(s, r))
    /\ SF_vars(ClaimCommit(s))

FairSpec == Spec /\ WF_vars(Tick) /\ Fairness

-----------------------------------------------------------------------------
(* Properties that hold however many sessions race.                        *)

\* A request's attempts are exactly 1..attempt_count, and claim_version counts
\* them too: two claims that both start from a stale attempt_count never
\* share an attempt number, and none is skipped (crawl_repair_repository.py
\* lines 217-237 with the unique constraint on attempts).
AttemptLedger ==
  \A r \in Requests :
    /\ request[r].claim_version = request[r].attempt_count
    /\ \A n \in AttemptNo : attempt[r][n] # "absent" <=> n <= request[r].attempt_count

\* A request in processing always carries a lease and a token.  Without a
\* lease the requeue query (lease_expires_at IS NOT NULL) would never see it
\* again, and no client could finish it.
ProcessingHasLease ==
  \A r \in Requests :
    request[r].status = "processing" =>
      request[r].lease_expires_at # 0 /\ request[r].token # 0

\* FOR UPDATE SKIP LOCKED: two sessions never claim the same request at once.
ClaimIsExclusive ==
  \A s, t \in Sessions :
    pc[s] = "claim" /\ pc[t] = "claim" /\ target[s] = target[t] => s = t

\* Result rows and settled attempts agree: a completed attempt has its rows,
\* and rows exist only for an attempt that is over.
ResultsMatchAttempts ==
  \A r \in Requests, n \in AttemptNo :
    /\ attempt[r][n] = "completed" => n \in result[r]
    /\ n \in result[r] => attempt[r][n] \in {"completed", "failed"}

\* An attempt that is over stays over: a late or repeated submission of its
\* token never adds rows to it, and a failed attempt never completes.
SettledAttemptsStay ==
  [][\A r \in Requests, n \in AttemptNo :
       attempt[r][n] \in {"completed", "failed"} =>
         /\ attempt'[r][n] \in {attempt[r][n], "failed"}
         /\ n \in result'[r] <=> n \in result[r]]_vars

-----------------------------------------------------------------------------
(* The inductive invariant behind AttemptLedger and ProcessingHasLease.    *)

WasHeld(row) ==
  row.status = "processing" /\ row.token # 0 /\ row.lease_expires_at # 0

\* attempt_count never decreases, so what a session has loaded is not ahead.
SnapshotsArePast ==
  \A s \in Sessions, r \in Requests :
    loaded[s][r] # Unread =>
      /\ loaded[s][r].attempt_count <= request[r].attempt_count
      /\ loaded[s][r].claim_version = loaded[s][r].attempt_count

\* Apart from the row it is about to claim, a claim has loaded rows that were
\* in processing, whatever they have become.
RequeueLoadsHeld ==
  \A s \in Sessions, r \in Requests :
    /\ pc[s] \in {"requeue", "claim"} /\ loaded[s][r] # Unread
    /\ ~(pc[s] = "claim" /\ r = target[s])
    => WasHeld(loaded[s][r])

\* From its FOR UPDATE to its commit a claim keeps its row pending.
ClaimKeepsRow ==
  \A s \in Sessions :
    pc[s] = "claim" =>
      /\ target[s] \in Requests
      /\ loaded[s][target[s]] # Unread
      /\ request[target[s]].status = "pending"
      /\ request[target[s]].attempt_count < MaxAttempts
      /\ \/ loaded[s][target[s]] = request[target[s]]
         \/ WasHeld(loaded[s][target[s]])

\* A submission names a request; a completion has seen it in processing.
SubmissionsLoadHeld ==
  \A s \in Sessions :
    /\ pc[s] \in {"complete", "fail"} => target[s] \in Requests
    /\ pc[s] = "complete" => /\ loaded[s][target[s]] # Unread
                             /\ WasHeld(loaded[s][target[s]])

DoomedExist ==
  \A s \in Sessions : \A r \in Requests, n \in AttemptNo :
    <<r, n>> \in doomed[s] => attempt[r][n] # "absent"

QueueInv ==
  /\ TypeOK
  /\ AttemptLedger
  /\ ProcessingHasLease
  /\ ClaimIsExclusive
  /\ SnapshotsArePast
  /\ RequeueLoadsHeld
  /\ ClaimKeepsRow
  /\ SubmissionsLoadHeld
  /\ DoomedExist

-----------------------------------------------------------------------------
(* Properties the queue has when its handlers do not overlap.              *)

\* Every status, attempt count and accepted result of the queue, read off the
\* committed tables.
Queue == INSTANCE LeaseQueue WITH
  status <- [r \in Requests |-> request[r].status],
  tries <- [r \in Requests |-> request[r].attempt_count],
  accepted <- result

\* With one session at a time, the tables implement the abstract queue
\* (the claim, complete and fail handlers of the repair API, end to end).
ImplementsLeaseQueue == Queue!QueueSpec

\* A lease that has not run out is ended by its holder only: by a session
\* that was sent the token of that claim.
LiveLeaseIsHonoured ==
  [][\A r \in Requests :
       request[r].status = "processing" /\ request[r].lease_expires_at > clock
         /\ request'[r].token # request[r].token
       => \E s \in Sessions : target[s] = r /\ token[s] = request[r].token]_vars

\* Every request that is ready while attempts remain is claimed, or claimed
\* and settled, however many older requests are retried before it.
ReadyIsClaimed ==
  \A r \in Requests :
    Ready(request[r], clock) ~> ~Ready(request[r], clock)

-----------------------------------------------------------------------------
(* What the documentation says and the code does not do.                   *)

\* docs/sam-repair-api.md: a submission for work that is already completed is
\* rejected, so at most one attempt of a request delivers result rows.
OneAttemptDelivers ==
  \A r \in Requests : Cardinality(result[r]) <= 1

\* docs/sam-repair-api.md: work whose lease has run out waits for a new claim;
\* since claims keep coming, it does not stay with the expired holder.
ExpiredLeaseIsReclaimed ==
  \A r \in Requests :
    LeaseExpired(request[r], clock) ~> ~LeaseExpired(request[r], clock)
=============================================================================
