------------------------------ MODULE LeaseQueue ------------------------------
(***************************************************************************)
(* What a repair queue promises, without sessions, clocks, tokens or rows: *)
(* a request is held by at most one claim, only the current claim can      *)
(* settle it, a settled request stays settled, and the results accepted    *)
(* for it come from exactly the claim that settled it.                     *)
(***************************************************************************)
EXTENDS Naturals

CONSTANTS Requests, MaxAttempts

VARIABLES
  status,    \* of each request
  tries,     \* claims granted so far; the last one is the current one
  accepted   \* the claims whose results were taken

qvars == <<status, tries, accepted>>

QueueInit ==
  /\ status = [r \in Requests |-> "absent"]
  /\ tries = [r \in Requests |-> 0]
  /\ accepted = [r \in Requests |-> {}]

Submit(r) ==
  /\ status[r] = "absent"
  /\ status' = [status EXCEPT ![r] = "pending"]
  /\ UNCHANGED <<tries, accepted>>

\* A claim is granted; the claims on the requests of revoked have run out.
Grant(r, revoked) ==
  /\ status[r] = "pending"
  /\ tries[r] < MaxAttempts
  /\ \A q \in revoked : status[q] = "processing"
  /\ status' = [q \in Requests |-> IF q = r THEN "processing"
                                   ELSE IF q \in revoked THEN "pending"
                                   ELSE status[q]]
  /\ tries' = [tries EXCEPT ![r] = @ + 1]
  /\ UNCHANGED accepted

\* The current claim delivers.
Accept(r) ==
  /\ status[r] = "processing"
  /\ status' = [status EXCEPT ![r] = "completed"]
  /\ accepted' = [accepted EXCEPT ![r] = {tries[r]}]
  /\ UNCHANGED tries

\* The current claim gives up, for a retry or for good.
GiveUp(r) ==
  /\ status[r] = "processing"
  /\ \E outcome \in {"pending", "failed"} :
       /\ outcome = "pending" => tries[r] < MaxAttempts
       /\ status' = [status EXCEPT ![r] = outcome]
  /\ UNCHANGED <<tries, accepted>>

QueueNext ==
  \E r \in Requests :
    \/ Submit(r)
    \/ \E revoked \in SUBSET Requests : Grant(r, revoked)
    \/ Accept(r)
    \/ GiveUp(r)

QueueSpec == QueueInit /\ [][QueueNext]_qvars
=============================================================================
