--------------------------- MODULE RepairQueueProofs ---------------------------
(***************************************************************************)
(* What RepairQueue guarantees for every set of requests and sessions and  *)
(* for every lease, delay and attempt limit, proved from the inductive     *)
(* invariant QueueInv.  One lemma per action.                              *)
(***************************************************************************)
EXTENDS RepairQueue, TLAPS

USE RequestsAssumption, MaxAttemptsAssumption, LeaseAssumption, RetryAssumption,
    ClockAssumption, UnreadAssumption

\* A flush of well-typed rows writes a well-typed row.
LEMMA FlushType ==
  ASSUME NEW row \in Row, NEW was \in Row, NEW is \in Row
  PROVE  Flush(row, was, is) \in Row
BY DEF Flush, Net, Row

\* What _requeue_expired leaves in memory is a row.
LEMMA RequeuedType ==
  ASSUME NEW row \in Row, NEW t \in Nat
  PROVE  Requeued(row, t) \in Row
<1>1. "pending" \in RequestStatus /\ 0 \in Counts
  BY DEF RequestStatus, Counts
<1>2. QED
  BY <1>1 DEF Requeued, Row

\* What a claim leaves in memory is a row, while an attempt number is left.
LEMMA ClaimedType ==
  ASSUME NEW row \in Row, NEW t \in Nat,
         row.attempt_count + 1 \in AttemptNo,
         row.claim_version = row.attempt_count
  PROVE  Claimed(row, t) \in Row
<1>1. "processing" \in RequestStatus
  BY DEF RequestStatus
<1>2. row.attempt_count + 1 \in Counts /\ row.claim_version + 1 \in Counts
  BY DEF Counts, AttemptNo
<1>3. t + LeaseSeconds \in Nat
  OBVIOUS
<1>4. QED
  BY <1>1, <1>2, <1>3 DEF Claimed, Row

\* The columns of a requeued row and of a claimed row.
LEMMA RequeuedFields ==
  ASSUME NEW row \in Row, NEW t
  PROVE  /\ Requeued(row, t).status = "pending"
         /\ Requeued(row, t).attempt_count = row.attempt_count
         /\ Requeued(row, t).claim_version = row.claim_version
BY DEF Requeued, Row

LEMMA ClaimedFields ==
  ASSUME NEW row \in Row, NEW t
  PROVE  /\ Claimed(row, t).status = "processing"
         /\ Claimed(row, t).attempt_count = row.attempt_count + 1
         /\ Claimed(row, t).claim_version = row.claim_version + 1
         /\ Claimed(row, t).token = row.attempt_count + 1
         /\ Claimed(row, t).lease_expires_at = t + LeaseSeconds
BY DEF Claimed, Row

\* Closing a session empties its memory and touches no other session.
LEMMA EndSessionEffect ==
  ASSUME NEW s \in Sessions, TypeOK, EndSession(s)
  PROVE  /\ pc' = [pc EXCEPT ![s] = "idle"]
         /\ loaded' = [loaded EXCEPT ![s] = NothingLoaded]
         /\ pc' \in [Sessions -> {"idle", "requeue", "claim", "complete", "fail"}]
         /\ now' \in [Sessions -> Nat]
         /\ loaded' \in [Sessions -> [Requests -> Row \cup {Unread}]]
         /\ todo' \in [Sessions -> SUBSET Requests]
         /\ doomed' \in [Sessions -> SUBSET (Requests \X AttemptNo)]
         /\ target' \in [Sessions -> Requests \cup {0}]
         /\ token' \in [Sessions -> Counts]
         /\ \A r \in Requests : loaded'[s][r] = Unread
         /\ \A t \in Sessions \ {s} : /\ pc'[t] = pc[t] /\ loaded'[t] = loaded[t]
                                      /\ doomed'[t] = doomed[t]
                                      /\ target'[t] = target[t]
         /\ pc'[s] = "idle" /\ doomed'[s] = {}
BY DEF EndSession, TypeOK, NothingLoaded, Counts

\* Init establishes the inductive invariant.
LEMMA InitInv == Init => QueueInv
BY DEF Init, QueueInv, TypeOK, AttemptLedger, ProcessingHasLease, ClaimIsExclusive,
       SnapshotsArePast, RequeueLoadsHeld, ClaimKeepsRow, SubmissionsLoadHeld,
       DoomedExist, NoRow, Row, NothingLoaded, Counts, AttemptNo, RequestStatus,
       AttemptStatus

\* A session that ends and leaves the tables alone keeps the invariant.
LEMMA AbortInv ==
  ASSUME QueueInv, NEW s \in Sessions, EndSession(s), UNCHANGED <<clock, tables>>
  PROVE  QueueInv'
<1>1. TypeOK'
  BY EndSessionEffect DEF QueueInv, TypeOK, tables
<1>2. AttemptLedger' /\ ProcessingHasLease'
  BY DEF QueueInv, tables, AttemptLedger, ProcessingHasLease
<1>3. ClaimIsExclusive'
  BY EndSessionEffect DEF QueueInv, ClaimIsExclusive
<1>4. SnapshotsArePast'
  BY EndSessionEffect DEF QueueInv, tables, SnapshotsArePast
<1>5. RequeueLoadsHeld'
  BY EndSessionEffect DEF QueueInv, RequeueLoadsHeld
<1>6. ClaimKeepsRow'
  BY EndSessionEffect DEF QueueInv, tables, ClaimKeepsRow
<1>7. SubmissionsLoadHeld'
  BY EndSessionEffect DEF QueueInv, SubmissionsLoadHeld
<1>8. DoomedExist'
  BY EndSessionEffect DEF QueueInv, tables, DoomedExist
<1>9. QED
  BY <1>1, <1>2, <1>3, <1>4, <1>5, <1>6, <1>7, <1>8 DEF QueueInv

\* Time alone disturbs nothing.
LEMMA TickInv ==
  ASSUME QueueInv, Tick
  PROVE  QueueInv'
<1>1. TypeOK'
  BY DEF QueueInv, TypeOK, Tick, tables, memory
<1>2. AttemptLedger'
  BY DEF QueueInv, TypeOK, AttemptLedger, Tick, tables, memory
<1>3. ProcessingHasLease'
  BY DEF QueueInv, TypeOK, ProcessingHasLease, Tick, tables, memory
<1>4. ClaimIsExclusive'
  BY DEF QueueInv, TypeOK, ClaimIsExclusive, Tick, tables, memory
<1>5. SnapshotsArePast'
  BY DEF QueueInv, TypeOK, SnapshotsArePast, Tick, tables, memory
<1>6. RequeueLoadsHeld'
  BY DEF QueueInv, TypeOK, RequeueLoadsHeld, Tick, tables, memory
<1>7. ClaimKeepsRow'
  BY DEF QueueInv, TypeOK, ClaimKeepsRow, Tick, tables, memory
<1>8. SubmissionsLoadHeld'
  BY DEF QueueInv, TypeOK, SubmissionsLoadHeld, Tick, tables, memory
<1>9. DoomedExist'
  BY DEF QueueInv, TypeOK, DoomedExist, Tick, tables, memory
<1>10. QED
  BY <1>1, <1>2, <1>3, <1>4, <1>5, <1>6, <1>7, <1>8, <1>9 DEF QueueInv

\* A new request starts without attempts, lease or token.
LEMMA EnqueueInv ==
  ASSUME QueueInv, NEW r \in Requests, Enqueue(r)
  PROVE  QueueInv'
<1>1. TypeOK'
  <2>1. "pending" \in RequestStatus /\ clock \in Nat /\ request[r] \in Row
    BY DEF RequestStatus, QueueInv, TypeOK
  <2>2. [request[r] EXCEPT !.status = "pending", !.next_attempt_at = clock] \in Row
    BY <2>1 DEF Row
  <2>3. request' = [request EXCEPT ![r] =
          [request[r] EXCEPT !.status = "pending", !.next_attempt_at = clock]]
    BY DEF Enqueue, QueueInv, TypeOK
  <2>4. request' \in [Requests -> Row]
    BY <2>2, <2>3 DEF QueueInv, TypeOK
  <2>5. QED
    BY <2>4 DEF QueueInv, TypeOK, Enqueue, tables, memory
<1>2. AttemptLedger'
  BY DEF QueueInv, TypeOK, AttemptLedger, Enqueue, tables, memory, Row, RequestStatus
<1>3. ProcessingHasLease'
  BY DEF QueueInv, TypeOK, ProcessingHasLease, Enqueue, tables, memory, Row, RequestStatus
<1>4. ClaimIsExclusive'
  BY DEF QueueInv, TypeOK, ClaimIsExclusive, Enqueue, tables, memory, Row, RequestStatus
<1>5. SnapshotsArePast'
  BY DEF QueueInv, TypeOK, SnapshotsArePast, Enqueue, tables, memory, Row, RequestStatus
<1>6. RequeueLoadsHeld'
  BY DEF QueueInv, TypeOK, RequeueLoadsHeld, Enqueue, tables, memory, Row, RequestStatus
<1>7. ClaimKeepsRow'
  BY DEF QueueInv, TypeOK, ClaimKeepsRow, Enqueue, tables, memory, Row, RequestStatus
<1>8. SubmissionsLoadHeld'
  BY DEF QueueInv, TypeOK, SubmissionsLoadHeld, Enqueue, tables, memory, Row, RequestStatus
<1>9. DoomedExist'
  BY DEF QueueInv, TypeOK, DoomedExist, Enqueue, tables, memory, Row, RequestStatus
<1>10. QED
  BY <1>1, <1>2, <1>3, <1>4, <1>5, <1>6, <1>7, <1>8, <1>9 DEF QueueInv

\* The rows a claim loads are in processing, hence held.
LEMMA ClaimBeginInv ==
  ASSUME QueueInv, NEW s \in Sessions, ClaimBegin(s)
  PROVE  QueueInv'
<1>0. /\ \A t \in Sessions \ {s} : pc'[t] = pc[t] /\ loaded'[t] = loaded[t] /\ target'[t] = target[t]
      /\ pc'[s] = "requeue"
      /\ \A r \in Requests : loaded'[s][r] # Unread =>
            loaded'[s][r] = request[r] /\ LeaseExpired(request[r], clock)
  BY DEF QueueInv, TypeOK, ClaimBegin
<1>1. TypeOK'
  BY DEF QueueInv, TypeOK, ClaimBegin, tables, memory, LeaseExpired
<1>2. AttemptLedger'
  BY DEF QueueInv, TypeOK, AttemptLedger, ClaimBegin, tables, memory, LeaseExpired
<1>3. ProcessingHasLease'
  BY DEF QueueInv, TypeOK, ProcessingHasLease, ClaimBegin, tables, memory, LeaseExpired
<1>4. ClaimIsExclusive'
  BY DEF QueueInv, TypeOK, ClaimIsExclusive, ClaimBegin, tables, memory, LeaseExpired
<1>5. SnapshotsArePast'
  <2>1. \A r \in Requests : request'[r] = request[r] /\ request[r].attempt_count \in Int
                           /\ request[r].claim_version = request[r].attempt_count
    BY DEF QueueInv, TypeOK, AttemptLedger, ClaimBegin, tables, Row, Counts
  <2>2. SUFFICES ASSUME NEW t \in Sessions, NEW q \in Requests, loaded'[t][q] # Unread
                 PROVE  /\ loaded'[t][q].attempt_count <= request'[q].attempt_count
                        /\ loaded'[t][q].claim_version = loaded'[t][q].attempt_count
    BY DEF SnapshotsArePast
  <2>3. CASE t = s
    BY <1>0, <2>1, <2>2, <2>3 DEF QueueInv, SnapshotsArePast
  <2>4. CASE t # s
    BY <1>0, <2>1, <2>2, <2>4 DEF QueueInv, SnapshotsArePast
  <2>5. QED
    BY <2>3, <2>4
<1>6. RequeueLoadsHeld'
  <2>1. \A r \in Requests : LeaseExpired(request[r], clock) => WasHeld(request[r])
    BY DEF QueueInv, ProcessingHasLease, LeaseExpired, WasHeld
  <2>2. SUFFICES ASSUME NEW t \in Sessions, NEW q \in Requests,
                        pc'[t] \in {"requeue", "claim"}, loaded'[t][q] # Unread,
                        ~(pc'[t] = "claim" /\ q = target'[t])
                 PROVE  WasHeld(loaded'[t][q])
    BY DEF RequeueLoadsHeld, WasHeld
  <2>3. CASE t = s
    BY <1>0, <2>1, <2>2, <2>3
  <2>4. CASE t # s
    BY <1>0, <2>2, <2>4 DEF QueueInv, RequeueLoadsHeld
  <2>5. QED
    BY <2>3, <2>4
<1>7. ClaimKeepsRow'
  BY DEF QueueInv, TypeOK, ClaimKeepsRow, ClaimBegin, tables, memory, LeaseExpired
<1>8. SubmissionsLoadHeld'
  BY DEF QueueInv, TypeOK, SubmissionsLoadHeld, ClaimBegin, tables, memory, LeaseExpired
<1>9. DoomedExist'
  BY DEF QueueInv, TypeOK, DoomedExist, ClaimBegin, tables, memory, LeaseExpired
<1>10. QED
  BY <1>1, <1>2, <1>3, <1>4, <1>5, <1>6, <1>7, <1>8, <1>9 DEF QueueInv

\* Only existing attempts are marked.
LEMMA RequeueOneInv ==
  ASSUME QueueInv, NEW s \in Sessions, NEW r \in Requests, RequeueOne(s, r)
  PROVE  QueueInv'
<1>1. TypeOK'
  BY DEF QueueInv, TypeOK, RequeueOne, tables, memory, IsLatestAttempt
<1>2. AttemptLedger'
  BY DEF QueueInv, TypeOK, AttemptLedger, RequeueOne, tables, memory, IsLatestAttempt
<1>3. ProcessingHasLease'
  BY DEF QueueInv, TypeOK, ProcessingHasLease, RequeueOne, tables, memory, IsLatestAttempt
<1>4. ClaimIsExclusive'
  BY DEF QueueInv, TypeOK, ClaimIsExclusive, RequeueOne, tables, memory, IsLatestAttempt
<1>5. SnapshotsArePast'
  BY DEF QueueInv, TypeOK, SnapshotsArePast, RequeueOne, tables, memory, IsLatestAttempt
<1>6. RequeueLoadsHeld'
  BY DEF QueueInv, TypeOK, RequeueLoadsHeld, RequeueOne, tables, memory, IsLatestAttempt
<1>7. ClaimKeepsRow'
  BY DEF QueueInv, TypeOK, ClaimKeepsRow, RequeueOne, tables, memory, IsLatestAttempt
<1>8. SubmissionsLoadHeld'
  BY DEF QueueInv, TypeOK, SubmissionsLoadHeld, RequeueOne, tables, memory, IsLatestAttempt
<1>9. DoomedExist'
  BY DEF QueueInv, TypeOK, DoomedExist, RequeueOne, tables, memory, IsLatestAttempt
<1>10. QED
  BY <1>1, <1>2, <1>3, <1>4, <1>5, <1>6, <1>7, <1>8, <1>9 DEF QueueInv

\* The row lock: nobody else is claiming the row picked.
LEMMA ClaimPickInv ==
  ASSUME QueueInv, NEW s \in Sessions, NEW r \in Requests, ClaimPick(s, r)
  PROVE  QueueInv'
<1>0. /\ \A t \in Sessions \ {s} : pc'[t] = pc[t] /\ loaded'[t] = loaded[t] /\ target'[t] = target[t]
      /\ pc'[s] = "claim" /\ target'[s] = r /\ pc[s] = "requeue"
      /\ \A q \in Requests \ {r} : loaded'[s][q] = loaded[s][q]
      /\ loaded'[s][r] = IF loaded[s][r] = Unread THEN request[r] ELSE loaded[s][r]
      /\ loaded'[s][r] # Unread
      /\ request' = request /\ request[r].status = "pending"
  BY DEF QueueInv, TypeOK, ClaimPick, tables, Candidates, Ready
<1>a. request[r].attempt_count < MaxAttempts
  BY DEF ClaimPick, Candidates, Ready
<1>1. TypeOK'
  BY DEF QueueInv, TypeOK, ClaimPick, tables, memory, Candidates, Ready, LockedByOther
<1>2. AttemptLedger'
  BY DEF QueueInv, TypeOK, AttemptLedger, ClaimPick, tables, memory, Candidates, Ready, LockedByOther
<1>3. ProcessingHasLease'
  BY DEF QueueInv, TypeOK, ProcessingHasLease, ClaimPick, tables, memory, Candidates, Ready, LockedByOther
<1>4. ClaimIsExclusive'
  BY DEF QueueInv, TypeOK, ClaimIsExclusive, ClaimPick, tables, memory, Candidates, Ready, LockedByOther
<1>5. SnapshotsArePast'
  <2>1. request[r].attempt_count \in Int /\ request[r].claim_version = request[r].attempt_count
    BY DEF QueueInv, TypeOK, AttemptLedger, Row, Counts
  <2>2. SUFFICES ASSUME NEW t \in Sessions, NEW q \in Requests, loaded'[t][q] # Unread
                 PROVE  /\ loaded'[t][q].attempt_count <= request'[q].attempt_count
                        /\ loaded'[t][q].claim_version = loaded'[t][q].attempt_count
    BY DEF SnapshotsArePast
  <2>3. loaded[t][q] # Unread =>
          /\ loaded[t][q].attempt_count <= request[q].attempt_count
          /\ loaded[t][q].claim_version = loaded[t][q].attempt_count
    BY DEF QueueInv, SnapshotsArePast
  <2>4. CASE loaded'[t][q] = loaded[t][q]
    BY <1>0, <2>2, <2>3, <2>4
  <2>5. CASE t = s /\ q = r /\ loaded'[t][q] = request[r]
    BY <1>0, <2>1, <2>5
  <2>6. loaded'[t][q] = loaded[t][q] \/ (t = s /\ q = r /\ loaded'[t][q] = request[r])
    BY <1>0
  <2>7. QED
    BY <2>4, <2>5, <2>6
<1>6. RequeueLoadsHeld'
  BY DEF QueueInv, TypeOK, RequeueLoadsHeld, ClaimPick, tables, memory, Candidates, Ready, LockedByOther
<1>7. ClaimKeepsRow'
  BY <1>0, <1>a DEF QueueInv, ClaimKeepsRow, RequeueLoadsHeld
<1>8. SubmissionsLoadHeld'
  BY DEF QueueInv, TypeOK, SubmissionsLoadHeld, ClaimPick, tables, memory, Candidates, Ready, LockedByOther
<1>9. DoomedExist'
  BY DEF QueueInv, TypeOK, DoomedExist, ClaimPick, tables, memory, Candidates, Ready, LockedByOther
<1>10. QED
  BY <1>1, <1>2, <1>3, <1>4, <1>5, <1>6, <1>7, <1>8, <1>9 DEF QueueInv

\* A completion loads a request in processing.
LEMMA CompleteBeginInv ==
  ASSUME QueueInv, NEW s \in Sessions, NEW r \in Requests, NEW n \in AttemptNo,
         CompleteBegin(s, r, n)
  PROVE  QueueInv'
<1>0. /\ \A t \in Sessions \ {s} : pc'[t] = pc[t] /\ loaded'[t] = loaded[t] /\ target'[t] = target[t]
      /\ pc'[s] = "complete" /\ target'[s] = r
      /\ \A q \in Requests \ {r} : loaded'[s][q] = loaded[s][q]
      /\ loaded'[s][r] = request[r] /\ request[r] # Unread
      /\ request' = request /\ request[r].status = "processing"
  BY DEF QueueInv, TypeOK, CompleteBegin, tables
<1>1. TypeOK'
  <2>1. n \in Counts
    BY DEF AttemptNo, Counts
  <2>2. QED
    BY <2>1 DEF QueueInv, TypeOK, CompleteBegin, tables, memory
<1>2. AttemptLedger'
  BY DEF QueueInv, TypeOK, AttemptLedger, CompleteBegin, tables, memory
<1>3. ProcessingHasLease'
  BY DEF QueueInv, TypeOK, ProcessingHasLease, CompleteBegin, tables, memory
<1>4. ClaimIsExclusive'
  BY DEF QueueInv, TypeOK, ClaimIsExclusive, CompleteBegin, tables, memory
<1>5. SnapshotsArePast'
  <2>1. request[r].attempt_count \in Int /\ request[r].claim_version = request[r].attempt_count
    BY DEF QueueInv, TypeOK, AttemptLedger, Row, Counts
  <2>2. SUFFICES ASSUME NEW t \in Sessions, NEW q \in Requests, loaded'[t][q] # Unread
                 PROVE  /\ loaded'[t][q].attempt_count <= request'[q].attempt_count
                        /\ loaded'[t][q].claim_version = loaded'[t][q].attempt_count
    BY DEF SnapshotsArePast
  <2>3. loaded[t][q] # Unread =>
          /\ loaded[t][q].attempt_count <= request[q].attempt_count
          /\ loaded[t][q].claim_version = loaded[t][q].attempt_count
    BY DEF QueueInv, SnapshotsArePast
  <2>4. CASE loaded'[t][q] = loaded[t][q]
    BY <1>0, <2>2, <2>3, <2>4
  <2>5. CASE t = s /\ q = r
    BY <1>0, <2>1, <2>5
  <2>6. loaded'[t][q] = loaded[t][q] \/ (t = s /\ q = r)
    BY <1>0
  <2>7. QED
    BY <2>4, <2>5, <2>6
<1>6. RequeueLoadsHeld'
  BY DEF QueueInv, TypeOK, RequeueLoadsHeld, CompleteBegin, tables, memory
<1>7. ClaimKeepsRow'
  BY DEF QueueInv, TypeOK, ClaimKeepsRow, CompleteBegin, tables, memory
<1>8. SubmissionsLoadHeld'
  <2>1. WasHeld(request[r])
    BY <1>0 DEF QueueInv, ProcessingHasLease, WasHeld
  <2>2. SUFFICES ASSUME NEW t \in Sessions
                 PROVE  /\ pc'[t] \in {"complete", "fail"} => target'[t] \in Requests
                        /\ pc'[t] = "complete" => /\ loaded'[t][target'[t]] # Unread
                                                  /\ WasHeld(loaded'[t][target'[t]])
    BY DEF SubmissionsLoadHeld, WasHeld
  <2>3. CASE t = s
    BY <1>0, <2>1, <2>3
  <2>4. CASE t # s
    <3>1. pc'[t] = pc[t] /\ loaded'[t] = loaded[t] /\ target'[t] = target[t]
      BY <1>0, <2>4
    <3>2. QED
      BY <3>1 DEF QueueInv, SubmissionsLoadHeld
  <2>5. QED
    BY <2>3, <2>4
<1>9. DoomedExist'
  BY DEF QueueInv, TypeOK, DoomedExist, CompleteBegin, tables, memory
<1>10. QED
  BY <1>1, <1>2, <1>3, <1>4, <1>5, <1>6, <1>7, <1>8, <1>9 DEF QueueInv

\* A failure report loads nothing.
LEMMA FailBeginInv ==
  ASSUME QueueInv, NEW s \in Sessions, NEW r \in Requests, NEW n \in AttemptNo,
         FailBegin(s, r, n)
  PROVE  QueueInv'
<1>1. TypeOK'
  <2>1. n \in Counts
    BY DEF AttemptNo, Counts
  <2>2. QED
    BY <2>1 DEF QueueInv, TypeOK, FailBegin, tables, memory
<1>2. AttemptLedger'
  BY DEF QueueInv, TypeOK, AttemptLedger, FailBegin, tables, memory
<1>3. ProcessingHasLease'
  BY DEF QueueInv, TypeOK, ProcessingHasLease, FailBegin, tables, memory
<1>4. ClaimIsExclusive'
  BY DEF QueueInv, TypeOK, ClaimIsExclusive, FailBegin, tables, memory
<1>5. SnapshotsArePast'
  BY DEF QueueInv, TypeOK, SnapshotsArePast, FailBegin, tables, memory
<1>6. RequeueLoadsHeld'
  BY DEF QueueInv, TypeOK, RequeueLoadsHeld, FailBegin, tables, memory
<1>7. ClaimKeepsRow'
  BY DEF QueueInv, TypeOK, ClaimKeepsRow, FailBegin, tables, memory
<1>8. SubmissionsLoadHeld'
  BY DEF QueueInv, TypeOK, SubmissionsLoadHeld, FailBegin, tables, memory
<1>9. DoomedExist'
  BY DEF QueueInv, TypeOK, DoomedExist, FailBegin, tables, memory
<1>10. QED
  BY <1>1, <1>2, <1>3, <1>4, <1>5, <1>6, <1>7, <1>8, <1>9 DEF QueueInv

\* The claim's flush: a stale snapshot cannot lower attempt_count, reuse an
\* attempt number, or leave a request in processing without lease and token.
LEMMA ClaimCommitInv ==
  ASSUME QueueInv, NEW s \in Sessions, ClaimCommit(s)
  PROVE  QueueInv'
<1> DEFINE r == target[s]
           n == loaded[s][r].attempt_count + 1
<1>0. pc[s] = "claim" /\ r \in Requests
  BY DEF QueueInv, ClaimKeepsRow, ClaimCommit
<1>1. /\ r \in Requests /\ request[r] \in Row /\ loaded[s][r] \in Row /\ loaded[s][r] # Unread
      /\ request[r].status = "pending"
      /\ loaded[s][r] = request[r] \/ WasHeld(loaded[s][r])
      /\ pc[s] = "claim" /\ n \in AttemptNo /\ attempt[r][n] = "absent"
      /\ EndSession(s) /\ UNCHANGED <<clock, result>>
      /\ claims' = claims \cup {<<r, n>>}
  <2>1. request[r] \in Row /\ (loaded[s][r] # Unread => loaded[s][r] \in Row)
    <3>1. request \in [Requests -> Row] /\ loaded \in [Sessions -> [Requests -> Row \cup {Unread}]]
      BY DEF QueueInv, TypeOK
    <3>2. request[r] \in Row
      BY <1>0, <3>1
    <3>3. loaded[s] \in [Requests -> Row \cup {Unread}]
      BY <3>1
    <3>4. loaded[s][r] \in Row \cup {Unread}
      BY <1>0, <3>3
    <3>5. QED
      BY <3>2, <3>4
  <2>2. /\ loaded[s][r] # Unread
        /\ request[r].status = "pending"
        /\ loaded[s][r] = request[r] \/ WasHeld(loaded[s][r])
    BY <1>0 DEF QueueInv, ClaimKeepsRow
  <2>3. attempt[r][n] = "absent" /\ EndSession(s)
        /\ UNCHANGED <<clock, result>> /\ claims' = claims \cup {<<r, n>>}
    BY DEF ClaimCommit
  <2>4. n \in AttemptNo
    <3>1. loaded[s][r].attempt_count <= request[r].attempt_count
      BY <1>0, <2>2 DEF QueueInv, SnapshotsArePast
    <3>2. request[r].attempt_count < MaxAttempts
      BY <1>0 DEF QueueInv, ClaimKeepsRow
    <3>3. request[r].attempt_count \in Nat /\ loaded[s][r].attempt_count \in Nat
      BY <2>1, <2>2 DEF Row, Counts
    <3>4. QED
      BY <3>1, <3>2, <3>3 DEF AttemptNo
  <2>5. QED
    BY <1>0, <2>1, <2>2, <2>3, <2>4
<1>2. loaded[s][r].attempt_count = request[r].attempt_count
  <2>1. n > request[r].attempt_count
    <3>1. request[r].attempt_count \in Nat
      BY <1>1 DEF Row, Counts
    <3>2. ~(n <= request[r].attempt_count)
      BY <1>1 DEF QueueInv, AttemptLedger
    <3>3. n \in Nat
      BY <1>1 DEF AttemptNo
    <3>4. QED
      BY <3>1, <3>2, <3>3
  <2>2. loaded[s][r].attempt_count <= request[r].attempt_count
    BY <1>1 DEF QueueInv, SnapshotsArePast
  <2>3. QED
    <3>1. request[r].attempt_count \in Nat /\ loaded[s][r].attempt_count \in Nat
      BY <1>1 DEF Row, Counts
    <3>2. QED
      BY <2>1, <2>2, <3>1
<1>3. loaded[s][r].claim_version = loaded[s][r].attempt_count
  BY <1>1 DEF QueueInv, SnapshotsArePast
<1>4. \A q \in Requests : loaded[s][q] # Unread =>
         /\ loaded[s][q] \in Row /\ InMemory(s, q) \in Row
  <2>1. TAKE q \in Requests
  <2>2. HAVE loaded[s][q] # Unread
  <2>3. loaded[s][q] \in Row /\ now[s] \in Nat
    BY <2>2 DEF QueueInv, TypeOK
  <2>4. QED
    BY <1>1, <1>3, <2>3, RequeuedType, ClaimedType DEF InMemory
<1>5. \A q \in Requests : request'[q] =
         IF loaded[s][q] = Unread THEN request[q]
         ELSE Flush(request[q], loaded[s][q], InMemory(s, q))
  BY DEF ClaimCommit
<1>5a. \A q \in Requests : loaded[s][q] # Unread =>
         /\ request'[q].status =
              Net(request[q].status, loaded[s][q].status, InMemory(s, q).status)
         /\ request'[q].attempt_count =
              Net(request[q].attempt_count, loaded[s][q].attempt_count, InMemory(s, q).attempt_count)
         /\ request'[q].claim_version =
              Net(request[q].claim_version, loaded[s][q].claim_version, InMemory(s, q).claim_version)
         /\ request'[q].token =
              Net(request[q].token, loaded[s][q].token, InMemory(s, q).token)
         /\ request'[q].lease_expires_at =
              Net(request[q].lease_expires_at, loaded[s][q].lease_expires_at, InMemory(s, q).lease_expires_at)
  <2>1. TAKE q \in Requests
  <2>2. HAVE loaded[s][q] # Unread
  <2>3. request'[q] = Flush(request[q], loaded[s][q], InMemory(s, q))
    BY <1>5, <2>2
  <2>4. QED
    BY <2>3 DEF Flush
<1>6. request' \in [Requests -> Row]
  <2>1. \A q \in Requests : request'[q] \in Row
    BY <1>4, <1>5, FlushType DEF QueueInv, TypeOK
  <2>2. QED
    BY <2>1 DEF ClaimCommit
<1>7. \A q \in Requests : q # r => /\ request'[q].attempt_count = request[q].attempt_count
                                   /\ request'[q].claim_version = request[q].claim_version
  BY <1>4, <1>5, <1>5a, RequeuedFields DEF InMemory, Net
<1>8. /\ request'[r].attempt_count = n
      /\ request'[r].claim_version = n
  <2>1. InMemory(s, r) = Claimed(loaded[s][r], now[s])
    BY DEF InMemory
  <2>2. InMemory(s, r).attempt_count = n /\ InMemory(s, r).claim_version = n
    BY <1>1, <1>3, <2>1, ClaimedFields
  <2>3. loaded[s][r].attempt_count # n /\ loaded[s][r].claim_version # n
    BY <1>1, <1>3 DEF Row, Counts
  <2>4. QED
    BY <1>1, <1>5a, <2>2, <2>3 DEF Net
<1>9. \A q \in Requests, m \in AttemptNo : attempt'[q][m] =
         IF q = r /\ m = n THEN "processing"
         ELSE IF <<q, m>> \in doomed[s] THEN "failed" ELSE attempt[q][m]
  BY DEF ClaimCommit
<1>10. attempt' \in [Requests -> [AttemptNo -> AttemptStatus]]
  BY DEF ClaimCommit, QueueInv, TypeOK, AttemptStatus
<1>11. \A q \in Requests, m \in AttemptNo :
          attempt'[q][m] # "absent" <=> (attempt[q][m] # "absent" \/ (q = r /\ m = n))
  <2>1. SUFFICES ASSUME NEW q \in Requests, NEW m \in AttemptNo
                 PROVE  attempt'[q][m] # "absent" <=>
                          (attempt[q][m] # "absent" \/ (q = r /\ m = n))
    OBVIOUS
  <2>2. <<q, m>> \in doomed[s] => attempt[q][m] # "absent"
    BY DEF QueueInv, DoomedExist
  <2>3. QED
    BY <1>9, <2>2
<1>12. TypeOK'
  <2>1. claims' \subseteq Requests \X AttemptNo
    BY <1>1 DEF QueueInv, TypeOK
  <2>2. QED
    BY <1>1, <1>6, <1>10, <2>1, EndSessionEffect DEF QueueInv, TypeOK
<1>13. AttemptLedger'
  <2>1. SUFFICES ASSUME NEW q \in Requests
                 PROVE  /\ request'[q].claim_version = request'[q].attempt_count
                        /\ \A m \in AttemptNo :
                             attempt'[q][m] # "absent" <=> m <= request'[q].attempt_count
    BY DEF AttemptLedger
  <2>2. CASE q = r
    <3>1. \A m \in AttemptNo : attempt[r][m] # "absent" <=> m <= request[r].attempt_count
      BY <1>1 DEF QueueInv, AttemptLedger
    <3>2. request[r].attempt_count \in Int /\ AttemptNo \subseteq Int
      BY <1>1 DEF AttemptNo, Row, Counts
    <3>3. QED
      BY <1>1, <1>2, <1>8, <1>11, <2>2, <3>1, <3>2
  <2>3. CASE q # r
    BY <1>7, <1>11, <2>3 DEF QueueInv, AttemptLedger
  <2>4. QED
    BY <2>2, <2>3
<1>14. \A q \in Requests : q # r /\ loaded[s][q] # Unread => request'[q].status = "pending"
  <2>1. SUFFICES ASSUME NEW q \in Requests, q # r, loaded[s][q] # Unread
                 PROVE  request'[q].status = "pending"
    OBVIOUS
  <2>2. loaded[s][q].status = "processing"
    BY <1>1, <2>1 DEF QueueInv, RequeueLoadsHeld, WasHeld
  <2>3. InMemory(s, q).status = "pending"
    BY <1>4, <2>1, RequeuedFields DEF InMemory
  <2>4. QED
    BY <1>5a, <2>1, <2>2, <2>3 DEF Net
<1>15. request'[r].status = "processing" =>
          request'[r].lease_expires_at # 0 /\ request'[r].token # 0
  <2>1. CASE loaded[s][r] = request[r]
    <3>1. /\ InMemory(s, r).token # 0
          /\ InMemory(s, r).lease_expires_at # 0
      <4>1. now[s] + LeaseSeconds # 0
        BY DEF QueueInv, TypeOK
      <4>2. n # 0
        BY <1>1 DEF AttemptNo
      <4>3. QED
        BY <1>1, <4>1, <4>2, ClaimedFields DEF InMemory
    <3>2. /\ request'[r].token = InMemory(s, r).token
          /\ request'[r].lease_expires_at = InMemory(s, r).lease_expires_at
      <4>1. /\ request'[r].token = Net(request[r].token, loaded[s][r].token, InMemory(s, r).token)
            /\ request'[r].lease_expires_at =
                 Net(request[r].lease_expires_at, loaded[s][r].lease_expires_at,
                     InMemory(s, r).lease_expires_at)
        BY <1>1, <1>5a
      <4>2. QED
        BY <2>1, <4>1 DEF Net
    <3>3. QED
      BY <3>1, <3>2
  <2>2. CASE WasHeld(loaded[s][r])
    <3>1. InMemory(s, r).status = "processing"
      BY <1>1, ClaimedFields DEF InMemory
    <3>2. request'[r].status = "pending"
      BY <1>1, <1>5a, <2>2, <3>1 DEF Net, WasHeld
    <3>3. QED
      BY <3>2
  <2>3. QED
    BY <1>1, <2>1, <2>2
<1>16. ProcessingHasLease'
  BY <1>5, <1>14, <1>15 DEF QueueInv, ProcessingHasLease
<1>17. ClaimIsExclusive'
  BY <1>1, EndSessionEffect DEF QueueInv, ClaimIsExclusive
<1>18. SnapshotsArePast'
  <2>1. \A q \in Requests : /\ request'[q].attempt_count >= request[q].attempt_count
                            /\ request[q].attempt_count \in Int
                            /\ request'[q].attempt_count \in Int
    <3>1. SUFFICES ASSUME NEW q \in Requests
                   PROVE  /\ request'[q].attempt_count >= request[q].attempt_count
                          /\ request[q].attempt_count \in Int
                          /\ request'[q].attempt_count \in Int
      OBVIOUS
    <3>2. request[q] \in Row
      BY DEF QueueInv, TypeOK
    <3>3. request[q].attempt_count \in Int
      BY <3>2 DEF Row, Counts
    <3>4. CASE q = r
      BY <1>2, <1>8, <3>3, <3>4
    <3>5. CASE q # r
      BY <1>7, <3>3, <3>5
    <3>6. QED
      BY <3>4, <3>5
  <2>2. SUFFICES ASSUME NEW t \in Sessions, NEW q \in Requests, loaded'[t][q] # Unread
                 PROVE  /\ loaded'[t][q].attempt_count <= request'[q].attempt_count
                        /\ loaded'[t][q].claim_version = loaded'[t][q].attempt_count
    BY DEF SnapshotsArePast
  <2>3. t # s /\ loaded'[t] = loaded[t] /\ loaded[t][q] \in Row
    <3>1. /\ loaded'[s] = NothingLoaded
          /\ t # s => loaded'[t] = loaded[t]
      BY <1>1, EndSessionEffect DEF QueueInv
    <3>2. t # s
      BY <2>2, <3>1 DEF NothingLoaded
    <3>3. loaded[t][q] \in Row \cup {Unread}
      BY DEF QueueInv, TypeOK
    <3>4. QED
      BY <2>2, <3>1, <3>2, <3>3
  <2>4. /\ loaded[t][q].attempt_count <= request[q].attempt_count
        /\ loaded[t][q].claim_version = loaded[t][q].attempt_count
        /\ loaded[t][q].attempt_count \in Int
    <3>1. loaded[t][q] # Unread
      BY <2>2, <2>3
    <3>2. loaded[t][q].attempt_count \in Int
      BY <2>3 DEF Row, Counts
    <3>3. QED
      BY <3>1, <3>2 DEF QueueInv, SnapshotsArePast
  <2>5. loaded[t][q].attempt_count <= request'[q].attempt_count
    BY <2>1, <2>4
  <2>6. QED
    BY <2>3, <2>4, <2>5
<1>19. RequeueLoadsHeld'
  BY <1>1, EndSessionEffect DEF QueueInv, RequeueLoadsHeld
<1>20. ClaimKeepsRow'
  <2>1. SUFFICES ASSUME NEW t \in Sessions, pc'[t] = "claim"
                 PROVE  /\ target'[t] \in Requests
                        /\ loaded'[t][target'[t]] # Unread
                        /\ request'[target'[t]].status = "pending"
                        /\ request'[target'[t]].attempt_count < MaxAttempts
                        /\ \/ loaded'[t][target'[t]] = request'[target'[t]]
                           \/ WasHeld(loaded'[t][target'[t]])
    BY DEF ClaimKeepsRow, WasHeld
  <2>2. t # s /\ pc[t] = "claim" /\ loaded'[t] = loaded[t] /\ target'[t] = target[t]
    BY <1>1, <2>1, EndSessionEffect DEF QueueInv
  <2>3. target[t] \in Requests /\ loaded[s][target[t]] = Unread
    BY <2>2 DEF QueueInv, ClaimKeepsRow, ClaimCommit, LockedByOther
  <2>4. request'[target[t]] = request[target[t]]
    BY <1>5, <2>3
  <2>5. QED
    BY <2>2, <2>4 DEF QueueInv, ClaimKeepsRow
<1>21. SubmissionsLoadHeld'
  BY <1>1, EndSessionEffect DEF QueueInv, SubmissionsLoadHeld
<1>22. DoomedExist'
  BY <1>1, <1>11, EndSessionEffect DEF QueueInv, DoomedExist
<1>23. QED
  BY <1>12, <1>13, <1>16, <1>17, <1>18, <1>19, <1>20, <1>21, <1>22 DEF QueueInv

\* A delivery may start from a stale row, but ends an attempt in processing.
LEMMA CompleteCommitInv ==
  ASSUME QueueInv, NEW s \in Sessions, CompleteCommit(s)
  PROVE  QueueInv'
<1> DEFINE r == target[s]
           row == loaded[s][r]
           n == row.attempt_count
<1>1. pc[s] = "complete" /\ r \in Requests /\ row \in Row /\ request[r] \in Row
  <2>1. pc[s] = "complete"
    BY DEF CompleteCommit
  <2>2. /\ request \in [Requests -> Row]
        /\ loaded \in [Sessions -> [Requests -> Row \cup {Unread}]]
    BY DEF QueueInv, TypeOK
  <2>3. r \in Requests /\ (pc[s] = "complete" => loaded[s][r] # Unread)
    BY <2>1 DEF QueueInv, SubmissionsLoadHeld
  <2>4. request[r] \in Row
    BY <2>1, <2>2, <2>3
  <2>5. row \in Row
    <3>1. loaded[s] \in [Requests -> Row \cup {Unread}]
      BY <2>2
    <3>2. loaded[s][r] \in Row \cup {Unread} /\ loaded[s][r] # Unread
      BY <2>1, <2>3, <3>1
    <3>3. QED
      BY <3>2
  <2>6. QED
    BY <2>1, <2>3, <2>4, <2>5
<1>2. /\ n \in AttemptNo /\ attempt[r][n] = "processing"
      /\ row.status = "processing"
      /\ EndSession(s) /\ UNCHANGED <<clock, claims>>
      /\ attempt' = [attempt EXCEPT ![r][n] = "completed"]
      /\ ~LockedByOther(s, r)
  BY DEF CompleteCommit, HoldsClaim, AttemptEnds
<1> DEFINE done == [row EXCEPT !.status = "completed", !.token = 0, !.lease_expires_at = 0]
<1>2a. /\ done \in Row /\ done.status = "completed" /\ done.attempt_count = row.attempt_count
       /\ done.claim_version = row.claim_version
  <2>1. "completed" \in RequestStatus /\ 0 \in Counts
    BY DEF RequestStatus, Counts
  <2>2. QED
    BY <1>1, <2>1 DEF Row
<1>2b. request' = [request EXCEPT ![r] = Flush(request[r], row, done)]
  BY DEF CompleteCommit
<1>3. request' \in [Requests -> Row]
  BY <1>1, <1>2a, <1>2b, FlushType DEF QueueInv, TypeOK
<1>5. /\ \A q \in Requests : q # r => request'[q] = request[q]
      /\ request'[r].status # "processing"
  <2>1. request'[r] = Flush(request[r], row, done)
    BY <1>1, <1>2b DEF QueueInv, TypeOK
  <2>2. request'[r].status = Net(request[r].status, row.status, done.status)
    BY <2>1 DEF Flush
  <2>3. QED
    BY <1>2, <1>2a, <1>2b, <2>2 DEF Net
<1>4. \A q \in Requests : /\ request'[q].attempt_count = request[q].attempt_count
                          /\ request'[q].claim_version = request[q].claim_version
  <2>1. request'[r] = Flush(request[r], row, done)
    BY <1>1, <1>2b DEF QueueInv, TypeOK
  <2>2. /\ request'[r].attempt_count =
             Net(request[r].attempt_count, row.attempt_count, done.attempt_count)
        /\ request'[r].claim_version =
             Net(request[r].claim_version, row.claim_version, done.claim_version)
    BY <2>1 DEF Flush
  <2>3. QED
    BY <1>2a, <1>5, <2>2 DEF Net
<1>9. result' \in [Requests -> SUBSET AttemptNo]
  BY <1>1, <1>2 DEF CompleteCommit, QueueInv, TypeOK
<1>6. attempt' \in [Requests -> [AttemptNo -> AttemptStatus]]
  BY <1>1, <1>2 DEF QueueInv, TypeOK, AttemptStatus
<1>7. \A q \in Requests, m \in AttemptNo : attempt'[q][m] # "absent" <=> attempt[q][m] # "absent"
  BY <1>1, <1>2 DEF QueueInv, TypeOK
<1>8. TypeOK'
  BY <1>1, <1>2, <1>3, <1>6, <1>9, EndSessionEffect DEF QueueInv, TypeOK
<1>10. AttemptLedger'
  BY <1>4, <1>7 DEF QueueInv, AttemptLedger
<1>11. ProcessingHasLease'
  BY <1>5 DEF QueueInv, ProcessingHasLease
<1>12. ClaimIsExclusive'
  BY <1>2, EndSessionEffect DEF QueueInv, ClaimIsExclusive
<1>13. SnapshotsArePast'
  <2>1. SUFFICES ASSUME NEW t \in Sessions, NEW q \in Requests, loaded'[t][q] # Unread
                 PROVE  /\ loaded'[t][q].attempt_count <= request'[q].attempt_count
                        /\ loaded'[t][q].claim_version = loaded'[t][q].attempt_count
    BY DEF SnapshotsArePast
  <2>2. t # s /\ loaded'[t] = loaded[t]
    BY <1>2, <2>1, EndSessionEffect DEF QueueInv
  <2>3. /\ loaded[t][q].attempt_count <= request[q].attempt_count
        /\ loaded[t][q].claim_version = loaded[t][q].attempt_count
    BY <2>1, <2>2 DEF QueueInv, SnapshotsArePast
  <2>4. request'[q].attempt_count = request[q].attempt_count
    BY <1>4
  <2>5. QED
    BY <2>2, <2>3, <2>4
<1>14. RequeueLoadsHeld'
  BY <1>2, EndSessionEffect DEF QueueInv, RequeueLoadsHeld
<1>15. ClaimKeepsRow'
  <2>1. SUFFICES ASSUME NEW t \in Sessions, pc'[t] = "claim"
                 PROVE  /\ target'[t] \in Requests
                        /\ loaded'[t][target'[t]] # Unread
                        /\ request'[target'[t]].status = "pending"
                        /\ request'[target'[t]].attempt_count < MaxAttempts
                        /\ \/ loaded'[t][target'[t]] = request'[target'[t]]
                           \/ WasHeld(loaded'[t][target'[t]])
    BY DEF ClaimKeepsRow, WasHeld
  <2>2. t # s /\ pc[t] = "claim" /\ loaded'[t] = loaded[t] /\ target'[t] = target[t]
    BY <1>2, <2>1, EndSessionEffect DEF QueueInv
  <2>3. target[t] \in Requests /\ target[t] # r
    BY <1>2, <2>2 DEF QueueInv, ClaimKeepsRow, LockedByOther
  <2>4. request'[target[t]] = request[target[t]]
    BY <1>5, <2>3
  <2>5. QED
    BY <2>2, <2>4 DEF QueueInv, ClaimKeepsRow
<1>16. SubmissionsLoadHeld'
  <2>1. TypeOK /\ SubmissionsLoadHeld
    BY DEF QueueInv
  <2>2. /\ pc'[s] = "idle"
        /\ \A t \in Sessions \ {s} :
             pc'[t] = pc[t] /\ loaded'[t] = loaded[t] /\ target'[t] = target[t]
    BY <1>2, <2>1, EndSessionEffect
  <2>3. QED
    BY <2>1, <2>2 DEF SubmissionsLoadHeld
<1>17. DoomedExist'
  <2>1. SUFFICES ASSUME NEW t \in Sessions, NEW q \in Requests, NEW m \in AttemptNo,
                        <<q, m>> \in doomed'[t]
                 PROVE  attempt'[q][m] # "absent"
    BY DEF DoomedExist
  <2>2. t # s /\ doomed'[t] = doomed[t]
    BY <1>2, <2>1, EndSessionEffect DEF QueueInv
  <2>3. attempt[q][m] # "absent"
    BY <2>1, <2>2 DEF QueueInv, DoomedExist
  <2>4. QED
    BY <1>7, <2>3
<1>18. QED
  BY <1>8, <1>10, <1>11, <1>12, <1>13, <1>14, <1>15, <1>16, <1>17 DEF QueueInv

\* A failure report ends the current attempt.
LEMMA FailCommitInv ==
  ASSUME QueueInv, NEW s \in Sessions, NEW retryable \in BOOLEAN, NEW delay \in RetryDelays,
         FailCommit(s, retryable, delay)
  PROVE  QueueInv'
<1> DEFINE r == target[s]
           row == request[r]
           n == row.attempt_count
<1>1. pc[s] = "fail" /\ r \in Requests /\ row \in Row /\ request[r] \in Row
  <2>1. pc[s] = "fail"
    BY DEF FailCommit
  <2>2. /\ request \in [Requests -> Row]
        /\ loaded \in [Sessions -> [Requests -> Row \cup {Unread}]]
    BY DEF QueueInv, TypeOK
  <2>3. r \in Requests /\ (pc[s] = "complete" => loaded[s][r] # Unread)
    BY <2>1 DEF QueueInv, SubmissionsLoadHeld
  <2>4. QED
    BY <2>1, <2>2, <2>3
<1>2. /\ n \in AttemptNo /\ attempt[r][n] = "processing"
      /\ row.status = "processing"
      /\ EndSession(s) /\ UNCHANGED <<clock, claims>>
      /\ attempt' = [attempt EXCEPT ![r][n] = "failed"]
      /\ ~LockedByOther(s, r)
  BY DEF FailCommit, HoldsClaim, AttemptEnds
<1> DEFINE out == IF CanRetry(row, retryable) THEN "pending" ELSE "failed"
           done == [row EXCEPT !.status = out, !.token = 0, !.lease_expires_at = 0,
                               !.next_attempt_at = now[s] + delay]
<1>2a. /\ done \in Row /\ done.status # "processing"
       /\ done.attempt_count = row.attempt_count
       /\ done.claim_version = row.claim_version
  <2>1. out \in RequestStatus /\ out # "processing" /\ 0 \in Counts
    BY DEF RequestStatus, Counts
  <2>2. now[s] + delay \in Nat
    BY DEF QueueInv, TypeOK
  <2>3. HIDE DEF out
  <2>4. QED
    BY <1>1, <2>1, <2>2 DEF Row
<1>2b. request' = [request EXCEPT ![r] = done]
  BY DEF FailCommit
<1>3. request' \in [Requests -> Row]
  BY <1>1, <1>2a, <1>2b DEF QueueInv, TypeOK
<1>5. /\ \A q \in Requests : q # r => request'[q] = request[q]
      /\ request'[r].status # "processing" /\ request'[r] = done
  BY <1>1, <1>2a, <1>2b DEF QueueInv, TypeOK
<1>4. \A q \in Requests : /\ request'[q].attempt_count = request[q].attempt_count
                          /\ request'[q].claim_version = request[q].claim_version
  BY <1>2a, <1>5
<1>9. result' \in [Requests -> SUBSET AttemptNo]
  BY DEF FailCommit, QueueInv, TypeOK
<1>6. attempt' \in [Requests -> [AttemptNo -> AttemptStatus]]
  BY <1>1, <1>2 DEF QueueInv, TypeOK, AttemptStatus
<1>7. \A q \in Requests, m \in AttemptNo : attempt'[q][m] # "absent" <=> attempt[q][m] # "absent"
  BY <1>1, <1>2 DEF QueueInv, TypeOK
<1>8. TypeOK'
  BY <1>1, <1>2, <1>3, <1>6, <1>9, EndSessionEffect DEF QueueInv, TypeOK
<1>10. AttemptLedger'
  BY <1>4, <1>7 DEF QueueInv, AttemptLedger
<1>11. ProcessingHasLease'
  BY <1>5 DEF QueueInv, ProcessingHasLease
<1>12. ClaimIsExclusive'
  BY <1>2, EndSessionEffect DEF QueueInv, ClaimIsExclusive
<1>13. SnapshotsArePast'
  <2>1. SUFFICES ASSUME NEW t \in Sessions, NEW q \in Requests, loaded'[t][q] # Unread
                 PROVE  /\ loaded'[t][q].attempt_count <= request'[q].attempt_count
                        /\ loaded'[t][q].claim_version = loaded'[t][q].attempt_count
    BY DEF SnapshotsArePast
  <2>2. t # s /\ loaded'[t] = loaded[t]
    BY <1>2, <2>1, EndSessionEffect DEF QueueInv
  <2>3. /\ loaded[t][q].attempt_count <= request[q].attempt_count
        /\ loaded[t][q].claim_version = loaded[t][q].attempt_count
    BY <2>1, <2>2 DEF QueueInv, SnapshotsArePast
  <2>4. request'[q].attempt_count = request[q].attempt_count
    BY <1>4
  <2>5. QED
    BY <2>2, <2>3, <2>4
<1>14. RequeueLoadsHeld'
  BY <1>2, EndSessionEffect DEF QueueInv, RequeueLoadsHeld
<1>15. ClaimKeepsRow'
  <2>1. SUFFICES ASSUME NEW t \in Sessions, pc'[t] = "claim"
                 PROVE  /\ target'[t] \in Requests
                        /\ loaded'[t][target'[t]] # Unread
                        /\ request'[target'[t]].status = "pending"
                        /\ request'[target'[t]].attempt_count < MaxAttempts
                        /\ \/ loaded'[t][target'[t]] = request'[target'[t]]
                           \/ WasHeld(loaded'[t][target'[t]])
    BY DEF ClaimKeepsRow, WasHeld
  <2>2. t # s /\ pc[t] = "claim" /\ loaded'[t] = loaded[t] /\ target'[t] = target[t]
    BY <1>2, <2>1, EndSessionEffect DEF QueueInv
  <2>3. target[t] \in Requests /\ target[t] # r
    BY <1>2, <2>2 DEF QueueInv, ClaimKeepsRow, LockedByOther
  <2>4. request'[target[t]] = request[target[t]]
    BY <1>5, <2>3
  <2>5. QED
    BY <2>2, <2>4 DEF QueueInv, ClaimKeepsRow
<1>16. SubmissionsLoadHeld'
  <2>1. TypeOK /\ SubmissionsLoadHeld
    BY DEF QueueInv
  <2>2. /\ pc'[s] = "idle"
        /\ \A t \in Sessions \ {s} :
             pc'[t] = pc[t] /\ loaded'[t] = loaded[t] /\ target'[t] = target[t]
    BY <1>2, <2>1, EndSessionEffect
  <2>3. QED
    BY <2>1, <2>2 DEF SubmissionsLoadHeld
<1>17. DoomedExist'
  <2>1. SUFFICES ASSUME NEW t \in Sessions, NEW q \in Requests, NEW m \in AttemptNo,
                        <<q, m>> \in doomed'[t]
                 PROVE  attempt'[q][m] # "absent"
    BY DEF DoomedExist
  <2>2. t # s /\ doomed'[t] = doomed[t]
    BY <1>2, <2>1, EndSessionEffect DEF QueueInv
  <2>3. attempt[q][m] # "absent"
    BY <2>1, <2>2 DEF QueueInv, DoomedExist
  <2>4. QED
    BY <1>7, <2>3
<1>18. QED
  BY <1>8, <1>10, <1>11, <1>12, <1>13, <1>14, <1>15, <1>16, <1>17 DEF QueueInv

\* Every step of the queue preserves the invariant.
LEMMA NextInv == QueueInv /\ [Next]_vars => QueueInv'
<1> SUFFICES ASSUME QueueInv, [Next]_vars
             PROVE  QueueInv'
  OBVIOUS
<1>1. CASE Tick
  BY <1>1, TickInv
<1>2. ASSUME NEW r \in Requests, Enqueue(r)
      PROVE  QueueInv'
  BY <1>2, EnqueueInv
<1>3. ASSUME NEW s \in Sessions, Claim(s)
      PROVE  QueueInv'
  <2>1. CASE ClaimBegin(s)
    BY <2>1, ClaimBeginInv
  <2>2. ASSUME NEW r \in Requests, RequeueOne(s, r)
        PROVE  QueueInv'
    BY <2>2, RequeueOneInv
  <2>3. ASSUME NEW r \in Requests, ClaimPick(s, r)
        PROVE  QueueInv'
    BY <2>3, ClaimPickInv
  <2>4. CASE ClaimNone(s)
    BY <2>4, AbortInv DEF ClaimNone
  <2>5. CASE ClaimCommit(s)
    BY <2>5, ClaimCommitInv
  <2>6. QED
    BY <1>3, <2>1, <2>2, <2>3, <2>4, <2>5 DEF Claim
<1>4. ASSUME NEW s \in Sessions, Complete(s)
      PROVE  QueueInv'
  <2>1. ASSUME NEW r \in Requests, NEW n \in AttemptNo, CompleteBegin(s, r, n)
        PROVE  QueueInv'
    BY <2>1, CompleteBeginInv
  <2>2. CASE CompleteCommit(s)
    BY <2>2, CompleteCommitInv
  <2>3. QED
    BY <1>4, <2>1, <2>2 DEF Complete
<1>5. ASSUME NEW s \in Sessions, Fail(s)
      PROVE  QueueInv'
  <2>1. ASSUME NEW r \in Requests, NEW n \in AttemptNo, FailBegin(s, r, n)
        PROVE  QueueInv'
    BY <2>1, FailBeginInv
  <2>2. ASSUME NEW retryable \in BOOLEAN, NEW delay \in RetryDelays,
               FailCommit(s, retryable, delay)
        PROVE  QueueInv'
    BY <2>2, FailCommitInv
  <2>3. QED
    BY <1>5, <2>1, <2>2 DEF Fail
<1>6. ASSUME NEW s \in Sessions, Abort(s)
      PROVE  QueueInv'
  BY <1>6, AbortInv DEF Abort
<1>7. CASE UNCHANGED vars
  BY <1>7 DEF vars, tables, memory, QueueInv, TypeOK, AttemptLedger, ProcessingHasLease,
    ClaimIsExclusive, SnapshotsArePast, RequeueLoadsHeld, ClaimKeepsRow,
    SubmissionsLoadHeld, DoomedExist, WasHeld
<1>8. QED
  BY <1>1, <1>2, <1>3, <1>4, <1>5, <1>6, <1>7 DEF Next

\* The inductive invariant holds in every reachable state: the whole of what
\* lines 160-373 of crawl_repair_repository.py keep true between two steps.
THEOREM QueueInvariant == Spec => []QueueInv
<1>1. Init => QueueInv
  BY InitInv
<1>2. QueueInv /\ [Next]_vars => QueueInv'
  BY NextInv
<1>3. QED
  BY <1>1, <1>2, PTL DEF Spec

\* Every variable keeps its type: in particular attempt_count never exceeds
\* max_attempts, although two sessions may both count up from a stale row.
THEOREM TypeCorrect == Spec => []TypeOK
<1>1. QueueInv => TypeOK
  BY DEF QueueInv
<1>2. QED
  BY <1>1, QueueInvariant, PTL

\* Attempts are numbered 1..attempt_count without gap or repetition, whatever
\* claims, requeues and submissions overlap.
THEOREM LedgerCorrect == Spec => []AttemptLedger
<1>1. QueueInv => AttemptLedger
  BY DEF QueueInv
<1>2. QED
  BY <1>1, QueueInvariant, PTL

\* A request in processing always has the lease that lets the requeue find it
\* and the token that lets a client finish it.
THEOREM LeaseCorrect == Spec => []ProcessingHasLease
<1>1. QueueInv => ProcessingHasLease
  BY DEF QueueInv
<1>2. QED
  BY <1>1, QueueInvariant, PTL

\* FOR UPDATE SKIP LOCKED gives every request to one claiming session only.
THEOREM ExclusiveCorrect == Spec => []ClaimIsExclusive
<1>1. QueueInv => ClaimIsExclusive
  BY DEF QueueInv
<1>2. QED
  BY <1>1, QueueInvariant, PTL

\* What one step does to one attempt and its result rows.
AttemptEvolves(r, n) ==
  \/ attempt'[r][n] = attempt[r][n] /\ (n \in result'[r] <=> n \in result[r])
  \/ /\ attempt[r][n] = "absent" /\ attempt'[r][n] = "processing"
     /\ n \in result'[r] <=> n \in result[r]
  \/ attempt'[r][n] = "failed" /\ (n \in result'[r] <=> n \in result[r])
  \/ /\ attempt[r][n] = "processing" /\ attempt'[r][n] = "completed"
     /\ n \in result'[r]

\* Only the flush of a claim and the commit of a submission touch attempts; a
\* delivery finds its attempt in processing, a new claim finds no row.
LEMMA AttemptStep ==
  ASSUME QueueInv, [Next]_vars, NEW r \in Requests, NEW n \in AttemptNo
  PROVE  AttemptEvolves(r, n)
<1> USE DEF AttemptEvolves
<1>0. /\ attempt \in [Requests -> [AttemptNo -> AttemptStatus]]
      /\ result \in [Requests -> SUBSET AttemptNo]
  BY DEF QueueInv, TypeOK
<1>1. ASSUME UNCHANGED <<attempt, result>>
      PROVE  AttemptEvolves(r, n)
  BY <1>1
<1>2. ASSUME NEW s \in Sessions, ClaimCommit(s)
      PROVE  AttemptEvolves(r, n)
  <2>1. /\ attempt[target[s]][loaded[s][target[s]].attempt_count + 1] = "absent"
        /\ attempt'[r][n] =
             IF r = target[s] /\ n = loaded[s][target[s]].attempt_count + 1 THEN "processing"
             ELSE IF <<r, n>> \in doomed[s] THEN "failed" ELSE attempt[r][n]
        /\ result' = result
    BY <1>2 DEF ClaimCommit
  <2>2. QED
    BY <2>1
<1>3. ASSUME NEW s \in Sessions, CompleteCommit(s)
      PROVE  AttemptEvolves(r, n)
  <2> DEFINE q == target[s]
             m == loaded[s][q].attempt_count
  <2>1. /\ m \in AttemptNo /\ attempt[q][m] = "processing"
        /\ attempt' = [attempt EXCEPT ![q][m] = "completed"]
        /\ result' = [result EXCEPT ![q] = @ \cup {m}]
    BY <1>3 DEF CompleteCommit, HoldsClaim, AttemptEnds
  <2>2. CASE r = q /\ n = m
    BY <1>0, <2>1, <2>2
  <2>3. CASE ~(r = q /\ n = m)
    BY <1>0, <2>1, <2>3
  <2>4. QED
    BY <2>2, <2>3
<1>4. ASSUME NEW s \in Sessions, NEW retryable \in BOOLEAN, NEW delay \in RetryDelays,
             FailCommit(s, retryable, delay)
      PROVE  AttemptEvolves(r, n)
  <2>1. /\ attempt' = [attempt EXCEPT ![target[s]][request[target[s]].attempt_count] = "failed"]
        /\ result' = result
    BY <1>4 DEF FailCommit, AttemptEnds
  <2>2. QED
    BY <1>0, <2>1
<1>5. ASSUME NEW s \in Sessions, Claim(s) \/ Complete(s) \/ Fail(s)
      PROVE  AttemptEvolves(r, n)
  BY <1>1, <1>2, <1>3, <1>4, <1>5
    DEF Claim, Complete, Fail, ClaimBegin, RequeueOne, ClaimPick, ClaimNone,
        CompleteBegin, FailBegin, tables
<1>6. QED
  BY <1>1, <1>5 DEF Next, Tick, Enqueue, Abort, tables, vars

\* Result rows are inserted in the transaction that completes their attempt,
\* and no later requeue or claim takes that attempt back into processing.
THEOREM ResultsCorrect == Spec => []ResultsMatchAttempts
<1>1. Init => ResultsMatchAttempts
  BY DEF Init, ResultsMatchAttempts
<1>2. ResultsMatchAttempts /\ QueueInv /\ [Next]_vars => ResultsMatchAttempts'
  <2>1. SUFFICES ASSUME ResultsMatchAttempts, QueueInv, [Next]_vars,
                        NEW r \in Requests, NEW n \in AttemptNo
                 PROVE  /\ attempt'[r][n] = "completed" => n \in result'[r]
                        /\ n \in result'[r] => attempt'[r][n] \in {"completed", "failed"}
    BY DEF ResultsMatchAttempts
  <2>2. /\ attempt[r][n] = "completed" => n \in result[r]
        /\ n \in result[r] => attempt[r][n] \in {"completed", "failed"}
    BY <2>1 DEF ResultsMatchAttempts
  <2>3. AttemptEvolves(r, n)
    BY <2>1, AttemptStep
  <2>4. QED
    BY <2>2, <2>3 DEF AttemptEvolves
<1>3. QED
  BY <1>1, <1>2, QueueInvariant, PTL DEF Spec

\* A settled attempt is never delivered again: a late or repeated token is
\* refused by the attempt filter of _locked_claim (lines 263-272).
THEOREM SettledCorrect == Spec => SettledAttemptsStay
<1>1. QueueInv /\ [Next]_vars =>
        [\A r \in Requests, n \in AttemptNo :
           attempt[r][n] \in {"completed", "failed"} =>
             /\ attempt'[r][n] \in {attempt[r][n], "failed"}
             /\ n \in result'[r] <=> n \in result[r]]_vars
  <2>1. SUFFICES ASSUME QueueInv, [Next]_vars, NEW r \in Requests, NEW n \in AttemptNo,
                        attempt[r][n] \in {"completed", "failed"}
                 PROVE  /\ attempt'[r][n] \in {attempt[r][n], "failed"}
                        /\ n \in result'[r] <=> n \in result[r]
    OBVIOUS
  <2>2. QED
    BY <2>1, AttemptStep DEF AttemptEvolves
<1>2. QED
  BY <1>1, QueueInvariant, PTL DEF Spec, SettledAttemptsStay

-----------------------------------------------------------------------------
(***************************************************************************)
(* Handlers that do not overlap: one session.  What it has loaded is still *)
(* what the tables hold, so a flush writes exactly what it computed.       *)
(***************************************************************************)
OneSession == \A s, t \in Sessions : s = t

SnapshotsAreCurrent ==
  \A s \in Sessions, r \in Requests :
    loaded[s][r] # Unread => loaded[s][r] = request[r] /\ request[r].status # "absent"

\* Only a completed request has result rows.
DeliveredIsCompleted == \A r \in Requests : result[r] # {} => request[r].status = "completed"

\* What a claim requeues had run out when the claim looked at the clock.
RequeuedRanOut ==
  \A s \in Sessions :
    /\ now[s] <= clock
    /\ \A r \in Requests :
         /\ pc[s] \in {"requeue", "claim"} /\ loaded[s][r] # Unread
         /\ ~(pc[s] = "claim" /\ r = target[s])
         => loaded[s][r].lease_expires_at <= now[s]

SerialInv == QueueInv /\ SnapshotsAreCurrent /\ DeliveredIsCompleted /\ RequeuedRanOut

\* With one session, nothing runs between the load of a row and its flush.
LEMMA FlushCurrent ==
  ASSUME NEW row \in Row, NEW is \in Row
  PROVE  Flush(row, row, is) = is
BY DEF Flush, Net, Row

\* The session that ends was the only one: nobody has anything loaded.
LEMMA SessionIsOver ==
  ASSUME SerialInv, OneSession, NEW s \in Sessions, EndSession(s), clock' = clock
  PROVE  SnapshotsAreCurrent' /\ RequeuedRanOut'
<1>1. TypeOK /\ \A t \in Sessions : t = s
  BY DEF SerialInv, QueueInv, OneSession
<1>2. /\ \A q \in Requests : loaded'[s][q] = Unread
      /\ now' = [now EXCEPT ![s] = 0]
      /\ now'[s] = 0 /\ clock \in Nat
  BY <1>1, EndSessionEffect DEF EndSession, TypeOK
<1>3. \A t \in Sessions, q \in Requests : loaded'[t][q] = Unread
  BY <1>1, <1>2
<1>4. \A t \in Sessions : now'[t] <= clock'
  BY <1>1, <1>2
<1>5. QED
  BY <1>3, <1>4 DEF SnapshotsAreCurrent, RequeuedRanOut

\* What a serial claim commits: its own row claimed, the rows whose lease had
\* run out back to pending, every other row as it was.
ClaimWrites(s) ==
  /\ target[s] \in Requests
  /\ request[target[s]].status = "pending"
  /\ request[target[s]].attempt_count < MaxAttempts
  /\ \A q \in Requests :
       \/ q = target[s] /\ request'[q] = Claimed(request[q], now[s])
       \/ /\ q # target[s] /\ loaded[s][q] = Unread
          /\ request'[q] = request[q]
       \/ /\ q # target[s] /\ loaded[s][q] # Unread
          /\ request[q].status = "processing" /\ request[q].lease_expires_at <= clock
          /\ request'[q] = Requeued(request[q], now[s])

LEMMA ClaimCommitWrites ==
  ASSUME SerialInv, NEW s \in Sessions, ClaimCommit(s)
  PROVE  ClaimWrites(s)
<1> DEFINE r == target[s]
           n == loaded[s][r].attempt_count + 1
<1>1. /\ pc[s] = "claim" /\ r \in Requests /\ loaded[s][r] # Unread
      /\ request[r].status = "pending" /\ request[r].attempt_count < MaxAttempts
  BY DEF ClaimCommit, SerialInv, QueueInv, ClaimKeepsRow
<1>2. /\ request \in [Requests -> Row] /\ now[s] \in Nat /\ clock \in Nat
      /\ now[s] <= clock
  BY DEF SerialInv, QueueInv, TypeOK, RequeuedRanOut
<1>3. \A q \in Requests : loaded[s][q] # Unread => loaded[s][q] = request[q]
  BY DEF SerialInv, SnapshotsAreCurrent
<1>4. \A q \in Requests : request'[q] =
         IF loaded[s][q] = Unread THEN request[q]
         ELSE Flush(request[q], loaded[s][q], InMemory(s, q))
  BY DEF ClaimCommit
<1>5. request'[r] = Claimed(request[r], now[s])
  <2>1. /\ request[r] \in Row /\ request[r].claim_version = request[r].attempt_count
        /\ request[r].attempt_count \in Counts
    BY <1>1, <1>2 DEF SerialInv, QueueInv, AttemptLedger, Row
  <2>2. request[r].attempt_count + 1 \in AttemptNo
    <3>1. PICK k \in Counts : k = request[r].attempt_count
      BY <2>1
    <3>2. k < MaxAttempts
      BY <1>1, <3>1
    <3>3. k + 1 \in AttemptNo
      BY <3>2 DEF Counts, AttemptNo
    <3>4. QED
      BY <3>1, <3>3
  <2>3. Claimed(request[r], now[s]) \in Row
    BY <1>2, <2>1, <2>2, ClaimedType
  <2>4. InMemory(s, r) = Claimed(request[r], now[s])
    BY <1>1, <1>3 DEF InMemory
  <2>5. request'[r] = Flush(request[r], request[r], Claimed(request[r], now[s]))
    BY <1>1, <1>3, <1>4, <2>4
  <2>6. QED
    BY <2>1, <2>3, <2>5, FlushCurrent
<1>6. ASSUME NEW q \in Requests, q # r, loaded[s][q] # Unread
      PROVE  /\ request[q].status = "processing" /\ request[q].lease_expires_at <= clock
             /\ request'[q] = Requeued(request[q], now[s])
  <2>1. request[q] \in Row /\ loaded[s][q] = request[q]
    BY <1>2, <1>3, <1>6
  <2>2. request[q].status = "processing"
    BY <1>1, <1>6, <2>1 DEF SerialInv, QueueInv, RequeueLoadsHeld, WasHeld
  <2>3. request[q].lease_expires_at <= now[s]
    BY <1>1, <1>6, <2>1 DEF SerialInv, RequeuedRanOut
  <2>4. Requeued(request[q], now[s]) \in Row
    BY <1>2, <2>1, RequeuedType
  <2>5. InMemory(s, q) = Requeued(request[q], now[s])
    BY <1>6, <2>1 DEF InMemory
  <2>6. request'[q] = Requeued(request[q], now[s])
    BY <1>4, <1>6, <2>1, <2>4, <2>5, FlushCurrent
  <2>7. request[q].lease_expires_at \in Nat
    BY <2>1 DEF Row
  <2>8. QED
    BY <1>2, <2>2, <2>3, <2>6, <2>7
<1>7. QED
  BY <1>1, <1>4, <1>5, <1>6 DEF ClaimWrites

\* What a serial completion commits: the request its token holds is over, with
\* the rows of the current attempt and of no other.
CompletionWrites(s) ==
  /\ target[s] \in Requests
  /\ request[target[s]].status = "processing"
  /\ request[target[s]].token = token[s]
  /\ \E done : /\ request' = [request EXCEPT ![target[s]] = done]
               /\ done.status = "completed"
               /\ done.attempt_count = request[target[s]].attempt_count
  /\ result' = [result EXCEPT ![target[s]] = {request[target[s]].attempt_count}]

LEMMA CompleteCommitWrites ==
  ASSUME SerialInv, NEW s \in Sessions, CompleteCommit(s)
  PROVE  CompletionWrites(s)
<1> DEFINE r == target[s]
<1>1. /\ pc[s] = "complete" /\ r \in Requests /\ loaded[s][r] # Unread
  BY DEF CompleteCommit, SerialInv, QueueInv, SubmissionsLoadHeld
<1>2. /\ request \in [Requests -> Row] /\ loaded[s][r] = request[r]
      /\ result \in [Requests -> SUBSET AttemptNo]
      /\ request[r] \in Row
  BY <1>1 DEF SerialInv, QueueInv, TypeOK, SnapshotsAreCurrent
<1>3. request[r].status = "processing" /\ request[r].token = token[s]
  BY <1>2 DEF CompleteCommit, HoldsClaim
<1> DEFINE done == [request[r] EXCEPT !.status = "completed", !.token = 0,
                                      !.lease_expires_at = 0]
<1>4. /\ done \in Row /\ done.status = "completed"
      /\ done.attempt_count = request[r].attempt_count
  <2>1. "completed" \in RequestStatus /\ 0 \in Counts /\ 0 \in Nat
    BY DEF RequestStatus, Counts
  <2>2. QED
    BY <1>2, <2>1 DEF Row
<1>5. request' = [request EXCEPT ![r] = done]
  <2>1. request' = [request EXCEPT ![r] = Flush(request[r], request[r], done)]
    BY <1>2 DEF CompleteCommit
  <2>2. Flush(request[r], request[r], done) = done
    BY <1>2, <1>4, FlushCurrent
  <2>3. QED
    BY <2>1, <2>2
<1>6. result' = [result EXCEPT ![r] = {request[r].attempt_count}]
  <2>1. result[r] = {}
    BY <1>1, <1>3 DEF SerialInv, DeliveredIsCompleted
  <2>2. result' = [result EXCEPT ![r] = result[r] \cup {request[r].attempt_count}]
    BY <1>2 DEF CompleteCommit
  <2>3. QED
    BY <2>1, <2>2
<1>7. QED
  BY <1>1, <1>3, <1>4, <1>5, <1>6 DEF CompletionWrites

\* What a failure report commits, serial or not: the request its token holds
\* waits for a retry, if attempts remain, or has failed for good.
FailureWrites(s) ==
  /\ target[s] \in Requests
  /\ request[target[s]].status = "processing"
  /\ request[target[s]].token = token[s]
  /\ \E done : /\ request' = [request EXCEPT ![target[s]] = done]
               /\ \/ done.status = "failed"
                  \/ /\ done.status = "pending"
                     /\ request[target[s]].attempt_count < MaxAttempts
               /\ done.attempt_count = request[target[s]].attempt_count
  /\ result' = result

LEMMA FailCommitWrites ==
  ASSUME SerialInv, NEW s \in Sessions, NEW retryable \in BOOLEAN, NEW delay \in RetryDelays,
         FailCommit(s, retryable, delay)
  PROVE  FailureWrites(s)
<1> DEFINE r == target[s]
<1>1. pc[s] = "fail" /\ r \in Requests /\ result' = result
  BY DEF FailCommit, SerialInv, QueueInv, SubmissionsLoadHeld
<1>2. request[r] \in Row
  BY <1>1 DEF SerialInv, QueueInv, TypeOK
<1>3. request[r].status = "processing" /\ request[r].token = token[s]
  BY DEF FailCommit, HoldsClaim
<1> DEFINE out == IF CanRetry(request[r], retryable) THEN "pending" ELSE "failed"
           done == [request[r] EXCEPT !.status = out, !.token = 0, !.lease_expires_at = 0,
                                      !.next_attempt_at = now[s] + delay]
<1>4. request' = [request EXCEPT ![r] = done]
  BY DEF FailCommit
<1>5. done.status = out /\ done.attempt_count = request[r].attempt_count
  BY <1>2 DEF Row
<1>6. out = "failed" \/ (out = "pending" /\ request[r].attempt_count < MaxAttempts)
  BY DEF CanRetry
<1>7. QED
  BY <1>1, <1>3, <1>4, <1>5, <1>6 DEF FailureWrites

\* What the steps of an only session keep: the rows it has loaded are the
\* committed ones, and result rows belong to completed requests.
LEMMA SerialStep ==
  ASSUME OneSession, SerialInv, [Next]_vars
  PROVE  SerialInv'
<1>0. /\ QueueInv /\ TypeOK /\ SnapshotsAreCurrent /\ DeliveredIsCompleted /\ RequeuedRanOut
      /\ \A s, t \in Sessions : s = t
      /\ request \in [Requests -> Row] /\ clock \in Nat
      /\ result \in [Requests -> SUBSET AttemptNo]
      /\ now \in [Sessions -> Nat]
      /\ loaded \in [Sessions -> [Requests -> Row \cup {Unread}]]
      /\ pc \in [Sessions -> {"idle", "requeue", "claim", "complete", "fail"}]
  BY DEF SerialInv, QueueInv, TypeOK, OneSession
<1>1. QueueInv'
  BY <1>0, NextInv
<1> SUFFICES SnapshotsAreCurrent' /\ DeliveredIsCompleted' /\ RequeuedRanOut'
  BY <1>1 DEF SerialInv
<1>2. CASE Tick
  BY <1>0, <1>2 DEF Tick, tables, memory, SnapshotsAreCurrent, DeliveredIsCompleted,
    RequeuedRanOut
<1>3. ASSUME NEW r \in Requests, Enqueue(r)
      PROVE  SnapshotsAreCurrent' /\ DeliveredIsCompleted' /\ RequeuedRanOut'
  <2>1. /\ request[r].status = "absent"
        /\ \A q \in Requests : q # r => request'[q] = request[q]
        /\ loaded' = loaded /\ result' = result /\ clock' = clock
        /\ now' = now /\ pc' = pc /\ target' = target
    BY <1>0, <1>3 DEF Enqueue, memory
  <2>2. SnapshotsAreCurrent'
    BY <1>0, <2>1 DEF SnapshotsAreCurrent
  <2>3. result[r] = {}
    BY <1>0, <2>1 DEF DeliveredIsCompleted
  <2>4. DeliveredIsCompleted'
    BY <1>0, <2>1, <2>3 DEF DeliveredIsCompleted
  <2>5. RequeuedRanOut'
    BY <1>0, <2>1 DEF RequeuedRanOut
  <2>6. QED
    BY <2>2, <2>4, <2>5
<1>4. ASSUME NEW s \in Sessions, EndSession(s), UNCHANGED <<clock, tables>>
      PROVE  SnapshotsAreCurrent' /\ DeliveredIsCompleted' /\ RequeuedRanOut'
  BY <1>0, <1>4, SessionIsOver DEF tables, DeliveredIsCompleted
<1>5. ASSUME NEW s \in Sessions, ClaimBegin(s)
      PROVE  SnapshotsAreCurrent' /\ DeliveredIsCompleted' /\ RequeuedRanOut'
  <2>1. /\ now'[s] = clock /\ clock' = clock /\ request' = request /\ result' = result
        /\ \A q \in Requests : loaded'[s][q] =
             IF LeaseExpired(request[q], clock) THEN request[q] ELSE Unread
    BY <1>0, <1>5 DEF ClaimBegin, tables
  <2>2. SnapshotsAreCurrent'
    BY <1>0, <2>1 DEF SnapshotsAreCurrent, LeaseExpired
  <2>3. DeliveredIsCompleted'
    BY <1>0, <2>1 DEF DeliveredIsCompleted
  <2>4. RequeuedRanOut'
    BY <1>0, <2>1 DEF RequeuedRanOut, LeaseExpired
  <2>5. QED
    BY <2>2, <2>3, <2>4
<1>6. ASSUME NEW s \in Sessions, NEW r \in Requests, RequeueOne(s, r)
      PROVE  SnapshotsAreCurrent' /\ DeliveredIsCompleted' /\ RequeuedRanOut'
  BY <1>0, <1>6 DEF RequeueOne, tables, SnapshotsAreCurrent, DeliveredIsCompleted,
    RequeuedRanOut
<1>7. ASSUME NEW s \in Sessions, NEW r \in Requests, ClaimPick(s, r)
      PROVE  SnapshotsAreCurrent' /\ DeliveredIsCompleted' /\ RequeuedRanOut'
  <2>1. /\ now' = now /\ clock' = clock /\ request' = request /\ result' = result
        /\ pc[s] = "requeue" /\ target'[s] = r /\ request[r].status = "pending"
        /\ \A q \in Requests \ {r} : loaded'[s][q] = loaded[s][q]
        /\ loaded'[s][r] \in {request[r], loaded[s][r]}
    BY <1>0, <1>7 DEF ClaimPick, tables, TypeOK, Candidates, Ready
  <2>2. SnapshotsAreCurrent'
    <3>1. ASSUME NEW t \in Sessions, NEW q \in Requests, loaded'[t][q] # Unread
          PROVE  loaded'[t][q] = request'[q] /\ request'[q].status # "absent"
      <4>1. loaded'[s][q] = loaded[s][q] \/ (q = r /\ loaded'[s][q] = request[r])
        BY <2>1
      <4>2. t = s
        BY <1>0
      <4>3. CASE q = r /\ loaded'[s][q] = request[r]
        BY <2>1, <4>2, <4>3
      <4>4. CASE loaded'[s][q] = loaded[s][q]
        <5>1. loaded[s][q] # Unread
          BY <3>1, <4>2, <4>4
        <5>2. loaded[s][q] = request[q] /\ request[q].status # "absent"
          BY <1>0, <5>1 DEF SnapshotsAreCurrent
        <5>3. QED
          BY <2>1, <4>2, <4>4, <5>2
      <4>5. QED
        BY <4>1, <4>3, <4>4
    <3>2. QED
      BY <3>1 DEF SnapshotsAreCurrent
  <2>3. DeliveredIsCompleted'
    BY <1>0, <2>1 DEF DeliveredIsCompleted
  <2>4. RequeuedRanOut'
    <3>1. ASSUME NEW t \in Sessions, NEW q \in Requests,
                 pc'[t] \in {"requeue", "claim"}, loaded'[t][q] # Unread,
                 ~(pc'[t] = "claim" /\ q = target'[t])
          PROVE  loaded'[t][q].lease_expires_at <= now'[t]
      <4>1. t = s /\ pc'[s] = "claim"
        BY <1>0, <1>7 DEF ClaimPick
      <4>2. q # r
        BY <2>1, <3>1, <4>1
      <4>3. loaded[s][q] # Unread /\ loaded'[s][q] = loaded[s][q]
        BY <2>1, <3>1, <4>1, <4>2
      <4>4. QED
        BY <1>0, <2>1, <4>1, <4>3 DEF RequeuedRanOut
    <3>2. \A t \in Sessions : now'[t] <= clock'
      BY <1>0, <2>1 DEF RequeuedRanOut
    <3>3. QED
      BY <3>1, <3>2 DEF RequeuedRanOut
  <2>5. QED
    BY <2>2, <2>3, <2>4
<1>8. ASSUME NEW s \in Sessions, ClaimCommit(s)
      PROVE  SnapshotsAreCurrent' /\ DeliveredIsCompleted' /\ RequeuedRanOut'
  <2>1. EndSession(s) /\ clock' = clock /\ result' = result
    BY <1>8 DEF ClaimCommit
  <2>2. ClaimWrites(s)
    BY <1>8, ClaimCommitWrites
  <2>3. \A q \in Requests : request[q].status = "completed" => request'[q] = request[q]
    BY <2>2 DEF ClaimWrites
  <2>4. DeliveredIsCompleted'
    BY <1>0, <2>1, <2>3 DEF DeliveredIsCompleted
  <2>5. QED
    BY <2>1, <2>4, SessionIsOver
<1>9. ASSUME NEW s \in Sessions, CompleteCommit(s)
      PROVE  SnapshotsAreCurrent' /\ DeliveredIsCompleted' /\ RequeuedRanOut'
  <2>1. EndSession(s) /\ clock' = clock
    BY <1>9 DEF CompleteCommit
  <2>2. CompletionWrites(s)
    BY <1>9, CompleteCommitWrites
  <2>3. DeliveredIsCompleted'
    BY <1>0, <2>2 DEF DeliveredIsCompleted, CompletionWrites
  <2>4. QED
    BY <2>1, <2>3, SessionIsOver
<1>10. ASSUME NEW s \in Sessions, NEW retryable \in BOOLEAN, NEW delay \in RetryDelays,
              FailCommit(s, retryable, delay)
       PROVE  SnapshotsAreCurrent' /\ DeliveredIsCompleted' /\ RequeuedRanOut'
  <2>1. EndSession(s) /\ clock' = clock
    BY <1>10 DEF FailCommit
  <2>2. FailureWrites(s)
    BY <1>10, FailCommitWrites
  <2>3. DeliveredIsCompleted'
    BY <1>0, <2>2 DEF DeliveredIsCompleted, FailureWrites
  <2>4. QED
    BY <2>1, <2>3, SessionIsOver
<1>11. ASSUME NEW s \in Sessions, NEW r \in Requests, NEW n \in AttemptNo,
              CompleteBegin(s, r, n)
       PROVE  SnapshotsAreCurrent' /\ DeliveredIsCompleted' /\ RequeuedRanOut'
  <2>1. /\ now'[s] = clock /\ clock' = clock /\ request' = request /\ result' = result
        /\ pc'[s] = "complete" /\ request[r].status = "processing"
        /\ \A q \in Requests \ {r} : loaded'[s][q] = loaded[s][q]
        /\ loaded'[s][r] = request[r]
    BY <1>0, <1>11 DEF CompleteBegin, tables
  <2>2. SnapshotsAreCurrent' /\ DeliveredIsCompleted'
    BY <1>0, <2>1 DEF SnapshotsAreCurrent, DeliveredIsCompleted
  <2>3. RequeuedRanOut'
    BY <1>0, <2>1 DEF RequeuedRanOut
  <2>4. QED
    BY <2>2, <2>3
<1>12. ASSUME NEW s \in Sessions, NEW r \in Requests, NEW n \in AttemptNo,
              FailBegin(s, r, n)
       PROVE  SnapshotsAreCurrent' /\ DeliveredIsCompleted' /\ RequeuedRanOut'
  <2>1. /\ now'[s] = clock /\ clock' = clock /\ request' = request /\ result' = result
        /\ pc'[s] = "fail" /\ loaded' = loaded
    BY <1>0, <1>12 DEF FailBegin, tables
  <2>2. SnapshotsAreCurrent' /\ DeliveredIsCompleted'
    BY <1>0, <2>1 DEF SnapshotsAreCurrent, DeliveredIsCompleted
  <2>3. RequeuedRanOut'
    BY <1>0, <2>1 DEF RequeuedRanOut
  <2>4. QED
    BY <2>2, <2>3
<1>13. CASE UNCHANGED vars
  BY <1>0, <1>13 DEF vars, tables, memory, SnapshotsAreCurrent, DeliveredIsCompleted,
    RequeuedRanOut
<1>14. ASSUME NEW s \in Sessions, Claim(s) \/ Complete(s) \/ Fail(s) \/ Abort(s)
       PROVE  SnapshotsAreCurrent' /\ DeliveredIsCompleted' /\ RequeuedRanOut'
  BY <1>4, <1>5, <1>6, <1>7, <1>8, <1>9, <1>10, <1>11, <1>12, <1>14
    DEF Claim, Complete, Fail, Abort, ClaimNone
<1>15. QED
  BY <1>2, <1>3, <1>13, <1>14 DEF Next

\* The invariant of handlers that do not overlap.
LEMMA SerialInvariant ==
  ASSUME OneSession
  PROVE  Spec => []SerialInv
<1>1. Init => SerialInv
  <2>1. SUFFICES ASSUME Init PROVE SerialInv
    OBVIOUS
  <2>2. QueueInv
    BY <2>1, InitInv
  <2>3. SnapshotsAreCurrent /\ DeliveredIsCompleted /\ RequeuedRanOut
    BY <2>1 DEF Init, SnapshotsAreCurrent, DeliveredIsCompleted, RequeuedRanOut, NothingLoaded
  <2>4. QED
    BY <2>2, <2>3 DEF SerialInv
<1>2. SerialInv /\ [Next]_vars => SerialInv'
  BY SerialStep
<1>3. QED
  BY <1>1, <1>2, PTL DEF Spec

\* The only session committing a claim, a completion or a failure report is a
\* grant, an acceptance or a surrender of the abstract queue.
LEMMA ClaimGrants ==
  ASSUME SerialInv, NEW s \in Sessions, ClaimCommit(s)
  PROVE  Queue!QueueNext
<1>1. ClaimWrites(s) /\ result' = result /\ request \in [Requests -> Row]
  BY ClaimCommitWrites DEF ClaimCommit, SerialInv, QueueInv, TypeOK
<1>2. PICK r \in Requests : r = target[s]
  BY <1>1 DEF ClaimWrites
<1>2a. PICK revoked \in SUBSET Requests :
         revoked = {q \in Requests : q # r /\ loaded[s][q] # Unread}
  OBVIOUS
<1>3. \A q \in revoked : request[q].status = "processing"
  BY <1>1, <1>2, <1>2a DEF ClaimWrites
<1>4. \A q \in Requests : request'[q].status =
         IF q = r THEN "processing" ELSE IF q \in revoked THEN "pending" ELSE request[q].status
  BY <1>1, <1>2, <1>2a, RequeuedFields, ClaimedFields DEF ClaimWrites
<1>5. \A q \in Requests : request'[q].attempt_count =
         IF q = r THEN request[q].attempt_count + 1 ELSE request[q].attempt_count
  <2>1. TAKE q \in Requests
  <2>2. request[q] \in Row
    BY <1>1
  <2>3. /\ Claimed(request[q], now[s]).attempt_count = request[q].attempt_count + 1
        /\ Requeued(request[q], now[s]).attempt_count = request[q].attempt_count
    BY <2>2, RequeuedFields, ClaimedFields
  <2>4. QED
    BY <1>1, <1>2, <2>3 DEF ClaimWrites
<1>6. [q \in Requests |-> request'[q].attempt_count] =
        [[q \in Requests |-> request[q].attempt_count] EXCEPT ![r] = @ + 1]
  BY <1>2, <1>5
<1>7. request[r].status = "pending" /\ request[r].attempt_count < MaxAttempts
  BY <1>1, <1>2 DEF ClaimWrites
<1>8. Queue!Grant(r, revoked)
  BY <1>1, <1>2, <1>3, <1>4, <1>6, <1>7 DEF Queue!Grant
<1>9. QED
  BY <1>8 DEF Queue!QueueNext

LEMMA CompletionAccepts ==
  ASSUME SerialInv, NEW s \in Sessions, CompleteCommit(s)
  PROVE  Queue!QueueNext
<1>0. CompletionWrites(s) /\ request \in [Requests -> Row]
  BY CompleteCommitWrites DEF SerialInv, QueueInv, TypeOK
<1>1. PICK r \in Requests : r = target[s] /\ request[r].status = "processing"
  BY <1>0 DEF CompletionWrites
<1>2. PICK done : /\ request' = [request EXCEPT ![r] = done]
                  /\ done.status = "completed"
                  /\ done.attempt_count = request[r].attempt_count
  BY <1>0, <1>1 DEF CompletionWrites
<1>3. [q \in Requests |-> request'[q].status] =
        [[q \in Requests |-> request[q].status] EXCEPT ![r] = "completed"]
  BY <1>0, <1>1, <1>2
<1>4. [q \in Requests |-> request'[q].attempt_count] =
        [q \in Requests |-> request[q].attempt_count]
  BY <1>0, <1>1, <1>2
<1>5. result' = [result EXCEPT ![r] = {request[r].attempt_count}]
  BY <1>0, <1>1 DEF CompletionWrites
<1>6. Queue!Accept(r)
  BY <1>1, <1>3, <1>4, <1>5 DEF Queue!Accept
<1>7. QED
  BY <1>6 DEF Queue!QueueNext

LEMMA FailureGivesUp ==
  ASSUME SerialInv, NEW s \in Sessions, NEW retryable \in BOOLEAN, NEW delay \in RetryDelays,
         FailCommit(s, retryable, delay)
  PROVE  Queue!QueueNext
<1>0. FailureWrites(s) /\ request \in [Requests -> Row]
  BY FailCommitWrites DEF SerialInv, QueueInv, TypeOK
<1>1. PICK r \in Requests : r = target[s] /\ request[r].status = "processing"
  BY <1>0 DEF FailureWrites
<1>2. PICK done : /\ request' = [request EXCEPT ![r] = done]
                  /\ \/ done.status = "failed"
                     \/ done.status = "pending" /\ request[r].attempt_count < MaxAttempts
                  /\ done.attempt_count = request[r].attempt_count
  BY <1>0, <1>1 DEF FailureWrites
<1>3. [q \in Requests |-> request'[q].status] =
        [[q \in Requests |-> request[q].status] EXCEPT ![r] = done.status]
  BY <1>0, <1>1, <1>2
<1>4. [q \in Requests |-> request'[q].attempt_count] =
        [q \in Requests |-> request[q].attempt_count]
  BY <1>0, <1>1, <1>2
<1>5. done.status \in {"pending", "failed"}
      /\ (done.status = "pending" => request[r].attempt_count < MaxAttempts)
  BY <1>2
<1>6. result' = result
  BY <1>0 DEF FailureWrites
<1>7. Queue!GiveUp(r)
  BY <1>1, <1>3, <1>4, <1>5, <1>6 DEF Queue!GiveUp
<1>8. QED
  BY <1>7 DEF Queue!QueueNext

LEMMA EnqueueSubmits ==
  ASSUME SerialInv, NEW r \in Requests, Enqueue(r)
  PROVE  Queue!QueueNext
<1>1. request \in [Requests -> Row] /\ request[r] \in Row /\ result' = result
  BY DEF Enqueue, SerialInv, QueueInv, TypeOK
<1> DEFINE new == [request[r] EXCEPT !.status = "pending", !.next_attempt_at = clock]
<1>2. request' = [request EXCEPT ![r] = new]
  BY <1>1 DEF Enqueue
<1>3. new.status = "pending" /\ new.attempt_count = request[r].attempt_count
  BY <1>1 DEF Row
<1> HIDE DEF new
<1>4. [q \in Requests |-> request'[q].status] =
        [[q \in Requests |-> request[q].status] EXCEPT ![r] = "pending"]
  BY <1>1, <1>2, <1>3
<1>5. [q \in Requests |-> request'[q].attempt_count] =
        [q \in Requests |-> request[q].attempt_count]
  BY <1>1, <1>2, <1>3
<1>6. request[r].status = "absent"
  BY DEF Enqueue
<1>7. Queue!Submit(r)
  BY <1>1, <1>4, <1>5, <1>6 DEF Queue!Submit
<1>8. QED
  BY <1>7 DEF Queue!QueueNext

\* While its handlers do not overlap, the repair queue is the abstract lease
\* queue: a claim is granted only on a pending request with attempts left and
\* revokes only expired claims, and only the current claim's results are taken
\* (crawl_repair_repository.py lines 160-373, end to end).
THEOREM QueueRefinement ==
  ASSUME OneSession
  PROVE  Spec => ImplementsLeaseQueue
<1>1. Init => Queue!QueueInit
  BY DEF Init, NoRow, Queue!QueueInit
<1>2. SerialInv /\ [Next]_vars => [Queue!QueueNext]_(Queue!qvars)
  <2>1. SUFFICES ASSUME SerialInv, [Next]_vars
                 PROVE  Queue!QueueNext \/ UNCHANGED <<request, result>>
    BY DEF Queue!qvars
  <2>2. ASSUME NEW s \in Sessions, Claim(s)
        PROVE  Queue!QueueNext \/ UNCHANGED <<request, result>>
    BY <2>1, <2>2, ClaimGrants
      DEF Claim, ClaimBegin, RequeueOne, ClaimPick, ClaimNone, tables
  <2>3. ASSUME NEW s \in Sessions, Complete(s)
        PROVE  Queue!QueueNext \/ UNCHANGED <<request, result>>
    BY <2>1, <2>3, CompletionAccepts DEF Complete, CompleteBegin, tables
  <2>4. ASSUME NEW s \in Sessions, Fail(s)
        PROVE  Queue!QueueNext \/ UNCHANGED <<request, result>>
    BY <2>1, <2>4, FailureGivesUp DEF Fail, FailBegin, tables
  <2>5. ASSUME NEW s \in Sessions, Abort(s)
        PROVE  UNCHANGED <<request, result>>
    BY <2>5 DEF Abort, tables
  <2>6. ASSUME NEW r \in Requests, Enqueue(r)
        PROVE  Queue!QueueNext
    BY <2>1, <2>6, EnqueueSubmits
  <2>7. QED
    BY <2>1, <2>2, <2>3, <2>4, <2>5, <2>6 DEF Next, Tick, vars, tables
<1>3. QED
  BY <1>1, <1>2, SerialInvariant, PTL DEF Spec, ImplementsLeaseQueue, Queue!QueueSpec

\* While handlers do not overlap, a lease that has not run out is ended only by
\* a session that presents the token of that very claim: the requeue's lease
\* comparison and _locked_claim's token comparison leave no other way.
THEOREM LeaseHonoured ==
  ASSUME OneSession
  PROVE  Spec => LiveLeaseIsHonoured
<1>1. SerialInv /\ [Next]_vars =>
        [\A r \in Requests :
           request[r].status = "processing" /\ request[r].lease_expires_at > clock
             /\ request'[r].token # request[r].token
           => \E s \in Sessions : target[s] = r /\ token[s] = request[r].token]_vars
  <2>1. SUFFICES ASSUME SerialInv, [Next]_vars, NEW r \in Requests,
                        request[r].status = "processing",
                        request[r].lease_expires_at > clock,
                        request'[r].token # request[r].token
                 PROVE  \E s \in Sessions : target[s] = r /\ token[s] = request[r].token
    OBVIOUS
  <2>0. request \in [Requests -> Row] /\ request[r].lease_expires_at \in Nat /\ clock \in Nat
    <3>1. request \in [Requests -> Row] /\ request[r] \in Row /\ clock \in Nat
      BY <2>1 DEF SerialInv, QueueInv, TypeOK
    <3>2. QED
      BY <3>1 DEF Row
  <2>2. request'[r] # request[r]
    BY <2>1
  <2>3. ASSUME NEW s \in Sessions, ClaimCommit(s)
        PROVE  FALSE
    <3>1. ClaimWrites(s)
      BY <2>1, <2>3, ClaimCommitWrites
    <3>2. QED
      BY <2>0, <2>1, <2>2, <3>1 DEF ClaimWrites
  <2>4. ASSUME NEW s \in Sessions, CompleteCommit(s)
        PROVE  target[s] = r /\ token[s] = request[r].token
    <3>1. CompletionWrites(s)
      BY <2>1, <2>4, CompleteCommitWrites
    <3>2. QED
      BY <2>0, <2>2, <3>1 DEF CompletionWrites
  <2>5. ASSUME NEW s \in Sessions, NEW retryable \in BOOLEAN, NEW delay \in RetryDelays,
               FailCommit(s, retryable, delay)
        PROVE  target[s] = r /\ token[s] = request[r].token
    <3>1. FailureWrites(s)
      BY <2>1, <2>5, FailCommitWrites
    <3>2. QED
      BY <2>0, <2>2, <3>1 DEF FailureWrites
  <2>6. ASSUME NEW q \in Requests, Enqueue(q)
        PROVE  FALSE
    <3>1. request[q].status = "absent" /\ (q # r => request'[r] = request[r])
      BY <2>0, <2>6 DEF Enqueue
    <3>2. QED
      BY <2>1, <2>2, <3>1
  <2>7. ASSUME NEW s \in Sessions, Claim(s) \/ Complete(s) \/ Fail(s) \/ Abort(s)
        PROVE  \E t \in Sessions : target[t] = r /\ token[t] = request[r].token
    BY <2>2, <2>3, <2>4, <2>5, <2>7
      DEF Claim, ClaimBegin, RequeueOne, ClaimPick, ClaimNone, Complete, CompleteBegin,
          Fail, FailBegin, Abort, tables
  <2>8. QED
    BY <2>1, <2>2, <2>6, <2>7 DEF Next, Tick, vars, tables
<1>2. QED
  BY <1>1, SerialInvariant, PTL DEF Spec, LiveLeaseIsHonoured
=============================================================================
