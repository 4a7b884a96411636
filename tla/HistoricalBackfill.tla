-------------------------- MODULE HistoricalBackfill --------------------------
(***************************************************************************)
(* A historical price backfill: one run with a frozen list of targets, a   *)
(* budget of source requests, and a page of prices committed at a time     *)
(* with the checkpoint of its target.  An operator starts the run and      *)
(* resumes it, with more budget or for pending targets only; the process   *)
(* may be killed anywhere, a transaction may fail, the daily batch writes  *)
(* the same price table, and no lock keeps two processes off one run.      *)
(*                                                                         *)
(* A process keeps the rows it has loaded (expire_on_commit=False): `mine` *)
(* is its copy of the run, `base` that copy as loaded or last committed,   *)
(* `targets` its copies of the targets (Nil: expired by a rollback).  A    *)
(* commit writes the columns in which they differ.                         *)
(*                                                                         *)
(* Data are abstracted to whether a stored price is what the source says.  *)
(* Definitions named Mut... are plausible bugs, used by no specification.  *)
(***************************************************************************)
EXTENDS Integers, FiniteSets

CONSTANTS
  Procs,          \* processes of scripts/backfill_historical_prices.py
  TargetCount,    \* targets of the run, in order of their ids
  Expected,       \* Expected[t]: the trading days a target should have
  Unresolved,     \* targets without provider code or symbol
  RequestBudget,  \* the plan's request_budget
  Rewritten,      \* bound: the prices <<target, day>> the daily batch writes
  MaxBudget,      \* bound on the budget approved in total
  MaxMade         \* bound on the requests sent to the source

Targets == 1..TargetCount

ASSUME CountAssumption == TargetCount \in Nat \ {0}
ASSUME ExpectedAssumption ==
  \A t \in Targets : Expected[t] \subseteq Nat /\ Expected[t] # {} /\ IsFiniteSet(Expected[t])
ASSUME UnresolvedAssumption == Unresolved \subseteq Targets
ASSUME BudgetAssumption ==
  RequestBudget \in Nat /\ MaxBudget \in Nat /\ MaxMade \in Nat /\ RequestBudget <= MaxBudget

VARIABLES
  run,        \* the row of historical_backfill_runs ("none": not there)
  target,     \* historical_backfill_target_states: status, confirmed_dates
  price,      \* daily_prices of a target: the source's value, another, none
  conflicts,  \* days observed with disposition conflict_candidate
  held,       \* the days the source has prices for
  proc,       \* the processes
  made,       \* requests the source has answered
  approved,   \* budget the operators have approved
  overlap     \* two commands have worked on the run at the same time

vars == <<run, target, price, conflicts, held, proc, made, approved, overlap>>

Nil == [none |-> TRUE]
Days == UNION {Expected[t] : t \in Targets}

RunStatus == {"none", "running", "budget_exhausted", "completed", "completed_partial"}
TargetStatus == {"pending", "running", "completed", "failed"}
Run == [status : RunStatus, budget : 0..MaxBudget, used : 0..MaxMade]
Target == [status : TargetStatus, confirmed : SUBSET Days]

Complete == {"collection_start_reached", "provider_exhausted"}
Failure == {"fetch_failed", "provider_unsupported"}
Reasons == Complete \cup Failure \cup {"more", "pagination_anomaly", "request_budget_exhausted"}

Process ==
  [pc : {"next", "fetch", "store", "ended", "finalize"}, at : 1..(TargetCount + 1),
   only : BOOLEAN, remaining : 0..MaxBudget, limit : 0..MaxBudget, asked : 0..MaxBudget,
   left : SUBSET Days, page : SUBSET Days, reason : Reasons,
   base : Run, mine : Run, targets : [Targets -> Target \cup {Nil}]]

TypeOK ==
  /\ run \in Run
  /\ target \in [Targets -> Target]
  /\ \A t \in Targets : target[t].confirmed \subseteq Expected[t]
  /\ price \in [Targets -> [Days -> {"none", "same", "differs"}]]
  /\ conflicts \in [Targets -> SUBSET Days] /\ held \in [Targets -> SUBSET Days]
  /\ proc \in [Procs -> Process \cup {Nil}]
  /\ made \in 0..MaxMade /\ approved \in 0..MaxBudget /\ overlap \in BOOLEAN

Init ==
  /\ run = [status |-> "none", budget |-> 0, used |-> 0]
  /\ target = [t \in Targets |-> [status |-> "pending", confirmed |-> {}]]
  /\ price = [t \in Targets |-> [d \in Days |-> "none"]]
  /\ conflicts = [t \in Targets |-> {}]
  /\ held \in {h \in [Targets -> SUBSET Days] :
                 \A t \in Targets : h[t] \subseteq (IF t \in Unresolved THEN {} ELSE Expected[t])}
  /\ proc = [p \in Procs |-> Nil]
  /\ made = 0 /\ approved = RequestBudget /\ overlap = FALSE

-----------------------------------------------------------------------------
(* Sessions.                                                               *)

Active(p) == proc[p] # Nil
Others(p) == {q \in Procs \ {p} : Active(q)}

\* What an UPDATE leaves of a row: the columns that changed in memory.
Written(row, loaded, new) ==
  [f \in DOMAIN row |-> IF new[f] # loaded[f] THEN new[f] ELSE row[f]]

\* The process has inserted the run, or extended its budget, and flushed but
\* not committed: it holds the lock of the row.  (Charges wait in memory for a
\* commit: autoflush=False.)
Holds(p) ==
  Active(p) /\ (proc[p].base.status = "none" \/ proc[p].base.budget # proc[p].mine.budget)

\* No other process is in the way of an UPDATE of the run.
MayUpdate(p) == \A q \in Others(p) : ~Holds(q)

\* The process's copy of a target, loaded again if it has expired.
Seen(p, t) == IF proc[p].targets[t] = Nil THEN target[t] ELSE proc[p].targets[t]

Current(p) == proc[p].at

\* Commit the run as the process has it, and go on as `next` says.
CommitRun(p, mine, next) ==
  /\ mine # proc[p].base => MayUpdate(p)
  /\ run' = Written(run, proc[p].base, mine)
  /\ proc' = [proc EXCEPT ![p] = [next EXCEPT !.base = mine, !.mine = mine]]

\* Write a target and commit.
CommitTarget(p, t, row, next) ==
  /\ target' = [target EXCEPT ![t] = Written(@, Seen(p, t), row)]
  /\ CommitRun(p, proc[p].mine, [next EXCEPT !.targets[t] = row])

NewRun == [status |-> "running", budget |-> RequestBudget, used |-> 0]

MutSession(base, mine, only) ==   \* every session spends the whole budget
  [pc |-> "next", at |-> 1, only |-> only, remaining |-> mine.budget,
   limit |-> 0, asked |-> 0, left |-> {}, page |-> {}, reason |-> "more",
   base |-> base, mine |-> mine, targets |-> target]

\* A session that has the run and its targets loaded, before the first target.
Session(base, mine, only) ==
  [pc |-> "next", at |-> 1, only |-> only,
   remaining |-> IF mine.used < mine.budget THEN mine.budget - mine.used ELSE 0,
   limit |-> 0, asked |-> 0, left |-> {}, page |-> {}, reason |-> "more",
   base |-> base, mine |-> mine, targets |-> target]

\* The run is inserted; the first commit makes it visible.  A second process
\* that inserts the same run_id waits for the first and fails.
StartRun(p) ==
  /\ ~Active(p) /\ Others(p) = {}
  /\ run.status = "none"
  /\ proc' = [proc EXCEPT ![p] = Session(run, NewRun, FALSE)]
  /\ UNCHANGED <<run, target, price, conflicts, held, made, approved, overlap>>

\* --resume, with --additional-request-budget and --only-pending.
ResumeRun(p, add, only) ==
  /\ ~Active(p) /\ run.status # "none"
  /\ approved + add <= MaxBudget
  /\ add > 0 => MayUpdate(p)
  /\ proc' = [proc EXCEPT ![p] = Session(run, [run EXCEPT !.budget = @ + add], only)]
  /\ approved' = approved + add
  /\ overlap' = (overlap \/ Others(p) # {})
  /\ UNCHANGED <<run, target, price, conflicts, held, made>>
-----------------------------------------------------------------------------
(* The loop over the targets.                                              *)

At(p, place) == Active(p) /\ proc[p].pc = place

\* The process stands before a target it is to process.
Facing(p, t) ==
  /\ At(p, "next") /\ Current(p) = t
  /\ Seen(p, t).status \in IF proc[p].only THEN {"pending"} ELSE {"pending", "running"}

\* Completed and failed targets, and running ones under --only-pending.
SkipTarget(p) ==
  /\ At(p, "next") /\ Current(p) \in Targets /\ ~Facing(p, Current(p))
  /\ proc' = [proc EXCEPT ![p].at = @ + 1,
                          ![p].targets[Current(p)] = Seen(p, Current(p))]
  /\ UNCHANGED <<run, target, price, conflicts, held, made, approved, overlap>>

\* The loop is left; the report has looked at the targets not reached.
Stopped(p) ==
  [proc[p] EXCEPT !.pc = "finalize",
     !.targets = [t \in Targets |-> IF t >= Current(p) THEN Seen(p, t) ELSE @[t]]]

MutExhaustBudget(p) ==   \* looks at the budget before the target's status
  /\ At(p, "next") /\ Current(p) \in Targets
  /\ proc[p].remaining < 1
  /\ CommitRun(p, [proc[p].mine EXCEPT !.status = "budget_exhausted"], Stopped(p))
  /\ UNCHANGED <<target, price, conflicts, held, made, approved, overlap>>

ExhaustBudget(p) ==
  /\ \E t \in Targets : Facing(p, t)
  /\ proc[p].remaining < 1
  /\ CommitRun(p, [proc[p].mine EXCEPT !.status = "budget_exhausted"], Stopped(p))
  /\ UNCHANGED <<target, price, conflicts, held, made, approved, overlap>>

\* mark_target_failure, then the next target.
MarkFailure(p, t) ==
  CommitTarget(p, t, [Seen(p, t) EXCEPT !.status = "failed"],
               [proc[p] EXCEPT !.pc = "next", !.at = @ + 1])

FailUnresolved(p) ==
  /\ \E t \in Unresolved : Facing(p, t) /\ MarkFailure(p, t)
  /\ proc[p].remaining >= 1
  /\ UNCHANGED <<price, conflicts, held, made, approved, overlap>>

\* The page iterator, with what remains of the budget as its own.
OpenPages(p) ==
  /\ \E t \in Targets \ Unresolved :
       /\ Facing(p, t)
       /\ proc' = [proc EXCEPT ![p] =
            [@ EXCEPT !.pc = "fetch", !.limit = proc[p].remaining, !.asked = 0,
                      !.left = held[t], !.targets[t] = Seen(p, t)]]
  /\ proc[p].remaining >= 1
  /\ UNCHANGED <<run, target, price, conflicts, held, made, approved, overlap>>

-----------------------------------------------------------------------------
(* Requests to the source.                                                 *)

\* _record_request_usage: what the iterator has asked since the last time.
Charge(measured, accounted, remaining) ==
  IF measured - accounted < remaining THEN measured - accounted ELSE remaining

\* The process after the source has answered a request.
Answered(p) ==
  LET asked == proc[p].asked + 1
      delta == Charge(asked, proc[p].asked, proc[p].remaining)
  IN  [proc[p] EXCEPT !.asked = asked, !.remaining = @ - delta, !.mine.used = @ + delta]

MayAsk(p) == At(p, "fetch") /\ proc[p].asked < proc[p].limit

\* The source does not answer; the failed request is not counted.
FetchFails(p) ==
  /\ MayAsk(p)
  /\ proc' = [proc EXCEPT ![p].pc = "ended", ![p].reason = "fetch_failed"]
  /\ UNCHANGED <<run, target, price, conflicts, held, made, approved, overlap>>

\* An answer without a valid row, or with nothing new.
AnswerUnusable(p) ==
  /\ MayAsk(p) /\ made < MaxMade
  /\ \E reason \in {"provider_unsupported", "pagination_anomaly"} :
       proc' = [proc EXCEPT ![p] = [Answered(p) EXCEPT !.pc = "ended", !.reason = reason]]
  /\ made' = made + 1
  /\ UNCHANGED <<run, target, price, conflicts, held, approved, overlap>>

\* Pages come newest day first.  A page may hold no expected day, and the
\* iteration ends when the page reaches the start of the range or the source
\* has no more; it may also end on a continuation key seen before.
AnswerPage(p) ==
  /\ MayAsk(p) /\ made < MaxMade
  /\ \E rest \in SUBSET proc[p].left :
       LET page == proc[p].left \ rest IN
       /\ \A d \in page, e \in rest : e < d
       /\ \E reason \in {"more", "pagination_anomaly"} \cup (IF rest = {} THEN Complete ELSE {}) :
            proc' = [proc EXCEPT ![p] =
              [Answered(p) EXCEPT !.pc = "store", !.page = page, !.left = rest, !.reason = reason]]
  /\ made' = made + 1
  /\ UNCHANGED <<run, target, price, conflicts, held, approved, overlap>>

BudgetEnds(p) ==
  /\ At(p, "fetch") /\ proc[p].asked >= proc[p].limit
  /\ proc' = [proc EXCEPT ![p].pc = "ended", ![p].reason = "request_budget_exhausted"]
  /\ UNCHANGED <<run, target, price, conflicts, held, made, approved, overlap>>

-----------------------------------------------------------------------------
(* Storing a page and ending a target.                                     *)

AfterPage(p) == [proc[p] EXCEPT !.pc = IF proc[p].reason = "more" THEN "fetch" ELSE "ended",
                                !.page = {}]

\* A page without an expected day is passed over without a commit.
PassPage(p) ==
  /\ At(p, "store") /\ proc[p].page = {}
  /\ proc' = [proc EXCEPT ![p] = AfterPage(p)]
  /\ UNCHANGED <<run, target, price, conflicts, held, made, approved, overlap>>

MutProgress(t, row, days) ==   \* a page that stored nothing new completes the target
  [status |-> IF days \subseteq row.confirmed THEN "completed" ELSE "running",
   confirmed |-> row.confirmed \cup days]

MutRangeProgress(t, row, days) ==   \* the checkpoint is a range, not its days
  LET confirmed == row.confirmed \cup {d \in Days : \E e, f \in days : e <= d /\ d <= f}
  IN  [status |-> IF Expected[t] \subseteq confirmed THEN "completed" ELSE "running",
       confirmed |-> confirmed]

\* mark_target_progress
Progress(t, row, days) ==
  LET confirmed == row.confirmed \cup days
  IN  [status |-> IF confirmed = Expected[t] THEN "completed" ELSE "running",
       confirmed |-> confirmed]

\* The days of a page that are inserted or found unchanged.
Confirmed(t, page) == {d \in page : price[t][d] # "differs"}

MutStorePage(p) ==   \* the checkpoint is committed, the prices are lost
  LET t == Current(p) IN
  /\ At(p, "store") /\ proc[p].page # {}
  /\ CommitTarget(p, t, Progress(t, Seen(p, t), Confirmed(t, proc[p].page)), AfterPage(p))
  /\ UNCHANGED <<price, conflicts, held, made, approved, overlap>>

\* save_historical_prices and mark_target_progress in one commit: days without
\* a price are inserted, a price that differs stays and is a conflict.
StorePage(p) ==
  LET t == Current(p) IN
  /\ At(p, "store") /\ proc[p].page # {}
  /\ price' = [price EXCEPT ![t] =
       [d \in Days |-> IF d \in proc[p].page /\ @[d] = "none" THEN "same" ELSE @[d]]]
  /\ conflicts' = [conflicts EXCEPT ![t] = @ \cup {d \in proc[p].page : price[t][d] = "differs"}]
  /\ CommitTarget(p, t, Progress(t, Seen(p, t), Confirmed(t, proc[p].page)), AfterPage(p))
  /\ UNCHANGED <<held, made, approved, overlap>>

Completes(reason) == reason \in Complete

\* Missing days stay remaining: the source has been read to its end.
CompleteCollection(p) ==
  /\ At(p, "ended") /\ Completes(proc[p].reason)
  /\ CommitTarget(p, Current(p), [Seen(p, Current(p)) EXCEPT !.status = "completed"],
                  [proc[p] EXCEPT !.pc = "next", !.at = @ + 1])
  /\ UNCHANGED <<price, conflicts, held, made, approved, overlap>>

MutFailTarget(p) ==   \* tries the same target again
  /\ At(p, "ended") /\ proc[p].reason \in Failure
  /\ proc' = [proc EXCEPT ![p].pc = "next"]
  /\ UNCHANGED <<run, target, price, conflicts, held, made, approved, overlap>>

FailTarget(p) ==
  /\ At(p, "ended") /\ proc[p].reason \in Failure
  /\ MarkFailure(p, Current(p))
  /\ UNCHANGED <<price, conflicts, held, made, approved, overlap>>

\* An anomaly or the end of the budget leaves the target as it is.
LeaveTarget(p) ==
  /\ At(p, "ended") /\ ~Completes(proc[p].reason) /\ proc[p].reason \notin Failure
  /\ proc' = [proc EXCEPT ![p].pc = "next", ![p].at = @ + 1]
  /\ UNCHANGED <<run, target, price, conflicts, held, made, approved, overlap>>

\* Anything else that is raised for a target, by the source's client or by a
\* write (a day the daily batch has just inserted): the session rolls back,
\* all its rows expire, and the target fails in a transaction of its own.
WriteFails(p) ==
  LET t == Current(p) IN
  /\ Active(p) /\ t \in Targets
  /\ proc[p].pc \in {"fetch", "store", "ended"} \/ (Facing(p, t) /\ proc[p].remaining >= 1)
  /\ run.status # "none"
  /\ made' \in IF MayAsk(p) /\ made < MaxMade THEN {made, made + 1} ELSE {made}
  /\ target' = [target EXCEPT ![t].status = "failed"]
  /\ proc' = [proc EXCEPT ![p] =
       [proc[p] EXCEPT !.pc = "next", !.at = @ + 1, !.page = {}, !.base = run, !.mine = run,
                       !.targets = [u \in Targets |-> IF u = t THEN target'[t] ELSE Nil]]]
  /\ UNCHANGED <<run, price, conflicts, held, approved, overlap>>

MutOutcome(statuses) == IF statuses = {"failed"} THEN "completed_partial" ELSE "completed"

Outcome(statuses) == IF statuses = {"completed"} THEN "completed" ELSE "completed_partial"

\* _finalize_run_status; the targets are the rows the session has.
FinalizeRun(p) ==
  LET statuses == {Seen(p, t).status : t \in Targets}
      mine == IF statuses \subseteq {"completed", "failed"}
                THEN [proc[p].mine EXCEPT !.status = Outcome(statuses)] ELSE proc[p].mine
  IN
  /\ At(p, "finalize") \/ (At(p, "next") /\ Current(p) \notin Targets)
  /\ mine # proc[p].base => MayUpdate(p)
  /\ run' = Written(run, proc[p].base, mine)
  /\ proc' = [proc EXCEPT ![p] = Nil]
  /\ UNCHANGED <<target, price, conflicts, held, made, approved, overlap>>

-----------------------------------------------------------------------------
(* Around the process.                                                     *)

\* The process is killed, or its exception handler raises.
Crash(p) ==
  /\ Active(p)
  /\ proc' = [proc EXCEPT ![p] = Nil]
  /\ UNCHANGED <<run, target, price, conflicts, held, made, approved, overlap>>

First(t) == CHOOSE d \in Expected[t] : \A e \in Expected[t] : d <= e

\* --finalize-confirmed-start: running targets whose first expected day is
\* confirmed have been read to their start.
Reconcile ==
  LET row(t) == IF target[t].status = "running" /\ First(t) \in target[t].confirmed
                  THEN [target[t] EXCEPT !.status = "completed"] ELSE target[t]
      statuses == {row(t).status : t \in Targets}
  IN
  /\ run.status # "none"
  /\ \A q \in Procs : ~Holds(q)
  /\ target' = [t \in Targets |-> row(t)]
  /\ run' = IF statuses \subseteq {"completed", "failed"}
              THEN [run EXCEPT !.status = Outcome(statuses)] ELSE run
  /\ overlap' = (overlap \/ \E p \in Procs : Active(p))
  /\ UNCHANGED <<price, conflicts, held, proc, made, approved>>

\* The daily batch or a recrawl stores a price of another source.
BatchWrites(t, d, value) ==
  /\ <<t, d>> \in Rewritten /\ price[t][d] # value
  /\ price' = [price EXCEPT ![t][d] = value]
  /\ UNCHANGED <<run, target, conflicts, held, proc, made, approved, overlap>>

Step(p) ==
  \/ SkipTarget(p) \/ ExhaustBudget(p) \/ FailUnresolved(p) \/ OpenPages(p)
  \/ FetchFails(p) \/ AnswerUnusable(p) \/ AnswerPage(p) \/ BudgetEnds(p)
  \/ PassPage(p) \/ StorePage(p)
  \/ CompleteCollection(p) \/ FailTarget(p) \/ LeaveTarget(p) \/ WriteFails(p)
  \/ FinalizeRun(p)

Next ==
  \/ \E p \in Procs :
       \/ StartRun(p)
       \/ \E add \in 0..MaxBudget, only \in BOOLEAN : ResumeRun(p, add, only)
       \/ Step(p) \/ Crash(p)
  \/ Reconcile
  \/ \E t \in Targets, d \in Days, value \in {"same", "differs"} : BatchWrites(t, d, value)

Spec == Init /\ [][Next]_vars

\* A process runs until its end; operators, crashes and the batch owe nothing.
FairSpec == Spec /\ \A p \in Procs : WF_vars(Step(p))

-----------------------------------------------------------------------------
(* Properties.                                                             *)

\* A confirmed day has a price: page and checkpoint share their commit, so a
\* crash or rollback never leaves a checkpoint ahead of the prices; a day the
\* source and the stored price disagree on is a conflict, not confirmed, at
\* the time it is observed.
ConfirmedIsStored ==
  \A t \in Targets : \A d \in target[t].confirmed \cup conflicts[t] : price[t][d] # "none"

\* tasks/todo.md:566: after a forced stop or an expired cursor and a resume no
\* completed range has a hole.  A completed target has every day the source
\* holds stored; while commands do not overlap the checkpoint accounts for it.
CompletedTargetIsCollected ==
  \A t \in Targets :
    target[t].status = "completed" =>
      /\ \A d \in held[t] : price[t][d] # "none"
      /\ ~overlap => held[t] \subseteq target[t].confirmed \cup conflicts[t]

\* Requests are never charged twice, whatever pages, rollbacks, resumes and
\* overlapping processes come in between; and while commands do not overlap,
\* never more than approved.  (With overlapping commands a rollback gives a
\* process the other's charges beside the budget it still believes unspent.)
RequestsAreCounted == run.used <= made /\ (~overlap => run.used <= approved)

\* A run with an outcome has no open target, and neither it nor its targets
\* change any more while commands do not overlap.
Over == {"completed", "completed_partial"}
RunOutcomeIsFinal ==
  [][~overlap' /\ run.status \in Over => run'.status = run.status /\ target' = target]_vars

\* While commands do not overlap, a run with an outcome has no open target, and
\* it is "completed" exactly if every target is (_finalize_run_status), whatever
\* failed after a target's last page.
RunOutcomeIsEarned ==
  ~overlap /\ run.status \in Over =>
    /\ \A t \in Targets : target[t].status \in {"completed", "failed"}
    /\ run.status = "completed" <=> \A t \in Targets : target[t].status = "completed"

\* The tables are those of an abstract backfill, whose processes have nothing
\* in hand: pages and checkpoints share their commits, statuses and outcomes
\* are earned, charges are never taken back, a run with an outcome is over;
\* and two commands at once can spoil all that but not what is stored.
Promise == INSTANCE BackfillLedger WITH row <- target, disturbed <- overlap

ImplementsBackfillLedger == Promise!LedgerSpec

\* Every process ends: each target costs a request or is passed, and a source
\* that pages forever is stopped by the budget.
ProcessEnds == \A p \in Procs : Active(p) ~> ~Active(p)

-----------------------------------------------------------------------------
(* What the documentation says and the code does not do.                   *)

\* docs/backtest_backfill_runbook.md:129: the budget is the limit of the run.
BudgetIsKept == run.used <= run.budget

=============================================================================
