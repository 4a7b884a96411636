# RS_scanner: a TLA+ verification development

RS_scanner collects daily prices of the Korean stock markets, validates them,
computes relative-strength (RS) ranks and serves them.  The specifications in
this directory are translated from its Python source under `src/`; TLC checks
them on small instances and TLAPS proves the theorems for all of them.

Files: one module per component, `MC*.tla` instantiating it for TLC (`MCServices.tla`
the fourteen services around the batch together), `*Ledger.tla` and `LeaseQueue.tla` the abstract specifications,
one `.cfg` per run, `*Proofs.tla` with the theorems; `PROJECT.json` maps every definition to
the lines it models, lists hazards, findings and, for every checked property, a
plausible bug of the code that the property catches (the `Mut...` definitions,
used by no specification).

## 1. The system

| component (source under `src/app`) | state it keeps | operations | interacts with |
|---|---|---|---|
| daily batch (`services/batch/orchestrator.py`, checkpoint and job repositories) | a job row, six step checkpoints, in-process results | create job, run step, gate, finish or fail | every step below, each in a transaction of its own |
| symbol universe (`sync_symbols.py`, `sync_krx_universe.py`, `universe_*`, `canonical_universe.py`) | symbols, snapshots, KRX members, canary decisions | snapshot, upsert, reconcile, choose price targets | batch steps 1, 2, 4 |
| price synchronisation (`sync_prices.py`, `sync_eod.py`) | prices, target results, failures | fetch in threads, store in one transaction, retry failed targets | crawler, validation |
| validation (`services/validation/`) | validation runs, cases, corrections | validate a job, decide whether RS may be published | orchestrator's gate, RS lineage |
| RS (`calculate_rs.py`, `services/rs/`, `rs_repository.py`) | RS runs, input snapshots, scores | exclude corporate actions, refetch, rank, upsert | validation run it cites, read API |
| repair queue (`crawl_repair_repository.py`, `repair_queue.py`, `endpoints/repair.py`) | requests, attempts, result rows, leases | enqueue, claim, complete, fail | a worker on another host, over HTTP |
| repair reconciler (`repair_reconciler.py`) | application status of a repair | apply completed repairs to the prices | repair queue, prices, target results |
| historical backfill (`historical_backfill.py`) | runs, targets, cursors, request counts | fetch a page, store, commit, resume | Kiwoom client, prices |
| analysis and Codex workflow (`services/analysis/`) | requests, reports, evaluations, change requests | state machines driven by API calls | agents over HTTP |
| file bridge (`kiwoom_file_bridge.py`) | request and answer files | write, poll, time out | a worker on another host |
| backtest datasets (`backtest_snapshot.py`) | published datasets and their hashes | snapshot, replay | prices, validation |
| identity and listing history (`instrument_repository.py`, `listing_history_repository.py`) | aliases, listing events | import, query as of a date | universe, backtests |
| cache and rate limit (`core/cache.py`, `core/rate_limit.py`) | entries, request times | get, set, allow | API threads |
| parsers, RS calculator, read API, notification, metrics, frontend | none, or output only | pure functions, reads | |

All durable state is in one PostgreSQL database.  Sessions are created with
`autoflush=False, expire_on_commit=False` at the default READ COMMITTED level
(`core/database.py:14`): a SELECT sees committed rows, a row the session has
already loaded keeps its old attribute values, and the flush updates only the
columns that changed in memory.  `session_scope()` is one transaction; the
request sessions of the API are closed without commit unless the handler commits.
Hard behaviours: transactions that fail or are killed between each other;
sessions that overlap on stale rows; leases that run out while work is under way;
retries and late answers; budgets that run out; data of one day replaced by a rerun.

What makes each component correct: the batch never reports or publishes more than
it committed; a universe snapshot that is partial never deactivates symbols; a
target's recorded day is stored; a blocked validation publishes nothing; RS ranks
of a day come from one run; one attempt of a repair delivers, and every repair
ends; a completed repair is applied once; a backfill resumes without a gap within
its budget; a request of a workflow is decided once; an answer is given to the
request it answers; a dataset's hash is the hash of its rows.

## 2. Plan

| order | module | models | status |
|---|---|---|---|
| 1 | `RepairQueue`, abstract `LeaseQueue` | claims, leases and attempts of the repair queue, session by session | checked; invariants and the refinement proved |
| 2 | `DailyBatch` | orchestrator, checkpoints, price step, validation gate, RS step, operator retries | checked; invariants and the refinement proved |
| 3 | `HistoricalBackfill` | page commits, resume, budget, conflict policy of `price_repository.py`, overlapping processes | checked; invariants and the refinement proved |
| 4 | `RepairReconciler` | completed repairs applied to prices by overlapping runs | checked, proved |
| 5 | `UniverseCanary`, `UniverseAudit`, `NaverUniverse`, `InstrumentIdentity` | the universe: crawled, observed at KRX, mapped, decided on, audited, identified | checked, proved |
| 6 | `EodSync`, `FileBridge`, `KiwoomRest` | the other price sources | checked, proved |
| 7 | `AnalysisWorkflow`, `ApiRuntime`, `BacktestPages` | the API: workflow, limits, cache, dataset pages | checked, proved |
| 8 | `RsInput`, `CleanDataset` | what RS ranks, what a clean dataset publishes | checked, proved |
| 9 | abstract `JobLedger`, `BackfillLedger` | what the batch and the backfill promise about their tables | refinements checked and proved |

Every safety invariant, action property and refinement that a passing run checks is a theorem
(section 7); liveness is left to TLC.  No module that is proved about uses RECURSIVE.

## 3. RepairQueue

A handler of `endpoints/repair.py` is a sequence of actions of one session `s`:

| actions | code |
|---|---|
| `Enqueue` | `CrawlRepairRepository.enqueue` |
| `ClaimBegin`, `RequeueOne`, `ClaimPick`, `ClaimCommit`, `ClaimNone` | `claim_one`: read the expired rows, requeue each in memory, SELECT ... FOR UPDATE SKIP LOCKED, flush and commit; 204 without commit |
| `CompleteBegin`, `CompleteCommit` | the service's check, then `_locked_claim`, result rows, commit |
| `FailBegin`, `FailCommit` | the same for a failure, with retry or final failure |
| `Abort` | the handler dies, a check raises, the client leaves: rollback |
| `Tick` | the clock |

`loaded[s]` is the session's identity map, `Flush` the UPDATE of changed columns,
`doomed` attempts marked failed in memory.  `LeaseQueue` is what the queue promises:
a submitted request is granted to one holder at a time, a grant ends by its holder
or after its lease, and never more than `max_attempts` times.  The refinement mapping (`Queue`)
reads status, tries and accepted results off the committed tables.

Runs:

| run | instance | question |
|---|---|---|
| `RepairQueueSerial` | one session, two requests, two attempts, clock 0..3, lease 1, delays 0 and 1 | does the queue implement `LeaseQueue` when handlers do not overlap; is a live lease honoured; is every ready request claimed |
| `RepairQueueRaces` | two sessions, two requests, clock 0..2; beside it two runs of the reconciler | which invariants survive any interleaving; what the reconciler keeps (section 6) |
| `RepairQueueLostUpdate` (violation) | as Races | can a completed request be delivered again |
| `RepairQueueLeaseStuck` (violation) | one request, one session, with fairness | is an expired lease always reclaimed |

Two requests are needed for a claim that requeues one and takes the other, two
attempts for a late token, clock 2 for a lease to start, run out and be granted
again.  Sessions are symmetric, and so are runs of the reconciler; liveness runs use no symmetry.
`MCRepairs` runs either the queue or the reconciler, which takes completed requests in every form the
queue can leave them and gives nothing back: the states of the run are those of the two, 570,000 in all.

Fairness (`FairSpec`): the clock advances (WF); workers keep polling, and not every
poll dies at the same point (SF on the claim's steps: an aborted claim is retried by the
next poll); a handler that has nothing to claim ends, and one that hangs is ended (WF of
`ClaimNone` and `Abort`).  Completions and
failures are never fair: a worker may vanish.  `ReadyIsClaimed` holds under it,
`ExpiredLeaseIsReclaimed` does not, which is the finding below.

## 4. DailyBatch

Every transaction of the batch is one action; the variables that are tables
survive `Crash`, those of the process do not.  For each step: `StartStep` (checkpoint
running), the step's own action, `CompleteStep` (checkpoint done), or `Raises` at any of
them followed by `FailStep` and `FailJob`, the two handlers, whose own transactions may
fail too (`Raises` to the outer handler, `Crash` when the outermost one fails).  The step
actions are `SyncKrxUniverse`, `SyncSymbols`, `SyncBenchmarks`, `SyncPrices`,
`ValidateCrawlJob`, and for RS `ReadLatestValidation` and `CalculateRs`, two
SELECT-separated parts of one transaction between which an operator's
`RetryFailedTargets` may commit.  `CompleteStep` of the validation takes the gate's
decision; `BlockRs` and `FinishJob` end the job.  `NextDay` may come at any time.

Abstractions: a symbol's price rows are its latest stored day; findings are severities;
scores are ranks with the job that wrote them; symbols form one market.  A step's inputs
(what a source answers) are chosen freely: any target may be fetched, stale, partial or
failed.  Rules on single rows are a free choice of a warning or an error.
`flock` in `run_daily_batch.sh` is why there is one process.  Not modelled: the EOD source as
price step, the older runner `run_daily_job.py`, checkpoint resume of chunks and the
fallback source (unreachable from the daily batch), reports and notifications.

`JobLedger` is what the batch promises about its jobs, without the process, its steps, checkpoints,
prices or the passing of days:

| `JobLedger` | transaction of the batch |
|---|---|
| `Open` | `CreateJob` |
| `Judge` | `ValidateCrawlJob`, and the validation of an operator's `RetryFailedTargets`, at any time |
| `Publish` | `CalculateRs`: the run and all its scores, once per job, while it runs; under enforce only after a verdict that passed, for the day of the verdict it cites |
| `Conclude` | `FinishJob` or `FailJob`, once: completed with a publication, completed with errors without one only when blocked |

All other transactions, crashes and `NextDay` leave the ledger as it is.  The mapping (`Ledger`) renames the
tables `jobStatus`, `validation` and `rsRun`; `score` is the same.  That a failure handler of an earlier job, a
rerun or a late retry never touches what a job has published or how it ended is now one statement,
`ImplementsJobLedger`; `OutcomeIsFinal` is a consequence kept as a theorem.

| run | instance | question |
|---|---|---|
| `DailyBatchGate` | one job, two symbols, two days, all six steps, both modes, one retry, budget 1 | do checkpoints, outcome and published RS agree with what was committed, whatever fails between; are the tables those of `JobLedger` |
| `DailyBatchRerun` | two jobs, one symbol, two days, optional steps off, no retries | order of steps and lineage of scores over reruns on the same and the next day |
| `DailyBatchCoverage` (violation) | one job, two symbols, budget 1 | is a completed job covered |
| `DailyBatchRanks` (violation) | two jobs, one day, two symbols, budget 1 | are the ranks of a day distinct |

Bounds: two symbols are the least for one fetched and one failed, skipped or unscored;
two days for a verdict about another day than today; two jobs for a rerun over a job
that crashed, failed or completed.  One job takes the retry bound, `MaxRuns = 1`: a retry
may come before the batch's own validation, so the batch's is then the second run.  The batch
has no liveness property: nothing restarts a killed batch but the next day's cron job.
Deadlock is not checked where the bounds (jobs, days, clock) end the behaviour.

`EnforcedRsWasValidated` is what remains of the gate under concurrency: the stronger
statement, that the cited run itself passed, is not promised by the code, since the RS step
reads the latest run again and an operator's retry may have replaced it.

## 5. HistoricalBackfill

A run of `scripts/backfill_historical_prices.py` is the steps of one process `p` between its
commits and its requests to the source.  `mine` is the row of the run as the process has it in
memory, `base` the same row as loaded or last committed, `targets` its copies of the targets;
a commit writes the columns in which they differ (`Written`), a rollback expires them (`Nil`).

| actions | code |
|---|---|
| `StartRun`, `ResumeRun` | `create_or_resume`, `extend_request_budget` (flushed, committed later) |
| `SkipTarget`, `ExhaustBudget`, `FailUnresolved`, `OpenPages` | the head of the loop of `execute` |
| `FetchFails`, `AnswerUnusable`, `AnswerPage`, `BudgetEnds` | the page iterator of `kiwoom_history.py`, and `_record_request_usage` |
| `PassPage`, `StorePage` | a page without a wanted day; prices, observations and checkpoint in one commit |
| `CompleteCollection`, `FailTarget`, `LeaveTarget`, `WriteFails` | the ends of a target; `WriteFails` is the handler that rolls back and marks the failure |
| `FinalizeRun` | `_finalize_run_status` and the last commit |
| `Reconcile` | `--finalize-confirmed-start` |
| `Crash`, `BatchWrites` | a kill; the daily batch writes a price of its own |

A price is what the source says ("same"), something else ("differs") or absent.  `held`, chosen at
the start, is what the source has valid prices for; a page is any newest part of what it has not yet
delivered.  Requests the source has answered (`made`), budget the operators have approved
(`approved`) and whether two commands have worked at the same time (`overlap`) are history.

`BackfillLedger` is what the backfill promises about the tables, without processes, what they have loaded,
pages in hand and remaining budgets:

| `BackfillLedger` | steps of the backfill |
|---|---|
| `Collect` | `StorePage`: prices, conflicts and the target's checkpoint in one step, of days the source has |
| `Settle` | `CompleteCollection`, `FailTarget`, `FailUnresolved`, `WriteFails`; completed only if all the source has is accounted for |
| `Exhaust`, `Conclude` | `ExhaustBudget`; `FinalizeRun` and `Reconcile`, the outcome once every target is settled |
| `Ask`, `Approve`, `Rewrite` | an answer of the source, a resume with more budget, `BatchWrites` |
| `Disturb` | whatever a command does once two have overlapped |

Everything else is a stutter.  A target that its pages have completed is still `Pursued`: a failure after its
last page turns it into a failed one, as the code does, and the outcome then follows.  `Booked` says that
charges are never taken back and stay within what was made and approved.  No abstract step but `Disturb` changes a run
that has an outcome or one of its targets, so outcomes are final; `RunOutcomeIsFinal` says it of the concrete steps and is a
theorem.  `Disturb` is what is left of it under overlap: prices are only added where there was none and the
source has one, no row confirms a day or completes a target ahead of the prices, and nothing is charged that was not asked.

| run | instance | question |
|---|---|---|
| `HistoricalBackfillResume` | one process, three targets (days 1 and 3; 2; unresolved), budget 1 and one extension, two answers | are outcomes earned, are the tables those of `BackfillLedger`, and does every process end |
| `Services` (section 6) | two processes, one target of two days, budget as above, two answers, no batch | what survives processes with stale copies |
| `HistoricalBackfillBudget` (violation) | as Resume | do the requests of a run stay within its budget |

Two days are needed for a page that is not the last one and for a hole, two resolvable targets for a
budget that passes from one to the next, a third for identities that cannot be resolved; an extension
of 1 gives a resumed run something to spend and to lose.  The daily batch writes one day only
(`Rewritten`).  Fairness (`FairSpec`): a process
that is not killed goes on (WF of `Step(p)`: it is sequential code whose requests time out); operators,
kills, the batch and the source's kindness are not fair.  Deadlock is not checked: when
the bounds are spent nobody need start anything.

Overlap is why three properties have a condition: with stale copies a later commit takes back
confirmed days, a target's failure or the run's status, and the checkpoint no longer accounts for
what is stored; and a process that rolls back reloads the charge of the other's requests while its own
`remaining` counts on, so the run may be charged more than was approved (section 9).  That stored
prices back every confirmed day and every completed target, and that no run is charged more requests than
were made, hold for any overlap.

## 6. The services around the batch

Fourteen services share the database with the batch and no step with each other, so `MCServices`
checks them side by side: a behaviour picks one (`service`), runs it, and leaves the others as they
began (`OthersKeep`).  What a service reads of another's tables is an input it is given in every
form that other can leave it in: `ListReady` takes completed requests as the queue ends them,
`SyncUniverse` any list `NaverUniverse` may call complete or not.  One run, `Services`, therefore
has one state space that is the sum of fourteen, about 1.3 million states, and one type invariant,
`ServicesTypeOK`, which asks each service for its own.  The reconciler takes part with one request; its
properties are checked with two in `RepairQueueRaces` (`MCRepairs`, section 3).

| module | an action is | the code | shows |
|---|---|---|---|
| `RepairReconciler` | one statement of a run `u`: `ListReady`, `LockRequest`, `RejectRequest`, `MarkConflict`, `ApplyRequest`, `CommitApplier`, `AbortRun`; `CompleteRepair` and `BatchUpserts` come from outside | `repair_reconciler.py`, `apply_repair_results.py` | `AppliedIsStored`, `EarlierPricesStay` |
| `UniverseCanary` | one transaction of a job (`KrxShadow`, `SyncSymbols`, `SelectTargets`, `SelectionFails`) or of an operator (`ApproveRun`, `RecordDecision`) | `sync_krx_universe.py`, `universe_*.py`, `canonical_universe.py` | `KrxTargetsAreEvidenced`, `ExpandIsEarned` |
| `UniverseAudit` | one command: sync, report, audit run, approval, application | `sync_symbols.py`, `universe_audit*.py` | `RemovalsAreApproved` |
| `NaverUniverse` | one request of the crawl, or a change of the list | `crawler/sources/naver.py` | `CompleteUniverseWasListed` |
| `InstrumentIdentity` | the read or the commit of an operator's command, the daily `ObserveKrx` and `MaterializeIdentity` | `canonical_universe.py`, `krx_listing_csv.py`, `kiwoom_mapping_materialization.py` | `IdentitiesStaySeparate` |
| `EodSync` | what happens to one market's batch (`ExcludeMarket`, `RejectBatch`, `UnstoredBatch`, `StoreBatch`), `FinishEod`, `AbortEod` | `sync_eod.py`, `crawler/sources/eod.py` | `EodOutcomeIsBacked` |
| `FileBridge` | a file renamed into place, a poll, a deadline | `kiwoom_file_bridge.py` | `BridgeRowsAreOwn` |
| `KiwoomRest` | a worker's step between two locks, sleeps or calls | `kiwoom_client.py`, `rate_limiter.py` | `KiwoomCallsAreBounded` |
| `AnalysisWorkflow` | a read, a lock or a commit of a request session | `services/analysis/`, `endpoints/analysis.py`, `codex.py` | `ClosedIsDone` |
| `BacktestPages` | a statement of a page request; an insert, commit or replacement below it | `endpoints/backtest.py`, `backtest_snapshot.py` | `JoinedPagesMissNothing` |
| `CleanDataset` | an audit, the judgement of one day, a publication; a committed observation, approval or import | `ohlcv_audit.py`, `historical_clean_reader.py`, `clean_backtest_snapshot.py` | `DatasetIsOneSnapshot` |
| `ApiRuntime` | a thread's step between two operations on shared dictionaries | `rate_limit.py`, `agent_auth.py`, `cache.py` | `AnswersAreBounded` |
| `RsInput` | one stock loaded, refetched or checked again; an approval between | `calculate_rs.py`, `clean_layer.py`, `corporate_action_filter.py`, `calculator.py` | `RanksAreEarned` |
| `HistoricalBackfill` | section 5, with two processes | `historical_backfill.py` | `ConfirmedIsStored`, `CompletedTargetIsCollected`, `RequestsAreCounted` |

What the models keep and leave out:

- `RepairReconciler`.  A run lists all requests first, and the lock returns the listed copy, so the
  second of two runs works on a stale status.  The prices are read twice: `LockRequest` is the first read
  (`_existing_prices`), which finds conflicts and missing days; `ApplyRequest` includes the second, inside
  `save_symbol_prices`, which updates the missing days that have been committed since (`NaverDataStays`, section 9).  A row committed
  after that one makes the insert raise (`AbortRun`).  Values are two numbers, as many as a conflict needs;
  two requests of one symbol, of two days and of the second one (in `MCRepairs`).  `BatchUpserts` writes any cell between two
  statements.  `before` remembers the days that had a price when a run began.
- `UniverseCanary`.  One market; KRX has one stock, Naver that one, another and an ETF.  Three jobs, two
  of them at a time, since an expansion needs two earlier decisions on KRX, and KRX an earlier approval.
  Each feed may fail, be partial or not yet be published, and `LatestFetched` goes back a day as the code
  does.  A KRX member is matched if it still carries the job's Naver snapshot; the threshold is 99.5 %, and
  a mapping falls below it when a later job has synchronised first.
- `UniverseAudit` judges completeness by the ratio to the symbols that are active (`MinRatio`, 50 % here: a list of
  one of two is complete).  A report is based on any complete snapshot (`--snapshot-id`) or, if there is none, on none; it
  proposes the active symbols whose row carries another snapshot, and those with a code no source lists
  (`LegacyCodes`, rows of earlier imports).  Two symbols and one legacy row, three syncs and two audit runs: enough for a
  symbol to be removed, listed again and removed again, and for a partial sync between a snapshot and its report.
- `NaverUniverse`.  Pages of two rows, at most three, four stocks and two more listings; the server
  may drop or repeat rows of an answer, but answers with the page size it is asked for, which the parser does not check.
  The fund lists overlap with the stocks in one case.
- `InstrumentIdentity`.  One code, used twice, dates 1 to 3.  `crossed` remembers that two
  transactions that check and then write were open together: the property is conditional on its absence.
- `EodSync`.  Three symbols in two markets, two in the canary; a context with a database session fails at
  its first stored batch (section 9), one without (as the unit tests have it) goes on.
- `FileBridge`.  The agent may answer any request at any time and any number of times, with any status
  and data file; ids are fresh numbers.
- `KiwoomRest`.  Two workers, two pages, one retry, time in call intervals up to 3.
- `AnalysisWorkflow`.  One request, two proposals, two sessions, the transition table of
  `record_result` in full.  `overlapped` remembers two sessions at work at once.
- `BacktestPages`.  Three keys, two of one instrument; prices and scores with ids taken at the insert and seen at the
  commit, one replaced row, two RS runs of a dataset.  A dataset has memberships (`Memberships`) and copies of
  every price of their instruments; its pages are the memberships joined to the copies, so with members 1 and 2
  and prices of 1 and 3 there is a membership without a price and a copy without a membership.  Left out: the KRX
  snapshot's id in the watermark (one more reason for a 409), `strict`, and filters, which stay those of the first page.
- `CleanDataset`.  One instrument, which carries no delisting status of its own, two days, at most two pieces of evidence added.  `whole` collects the
  datasets that each state of the evidence would give as a whole; the one published must be among them.
  The session is REPEATABLE READ (`View`); under READ COMMITTED the property fails, which is its mutant.
- `ApiRuntime`.  Two threads, one request per window, entries of one second.  All filters are one value; the API is
  enabled and the clients' addresses are allowed.
- `RsInput`.  Three stocks with four shapes of history, integer prices, a window of two returns: scores,
  ratings and ranks are computed as `calculator.py` does up to rounding.

| run | question |
|---|---|
| `Services` | do the properties above, but those of `RepairReconciler`, hold in every state of every service, with these bounds |
| `ApiRuntimeFilters` (violation) | is a ranking answered for the filters of its request |

The bounds are the smallest with which each interesting case occurs (two actors that overlap, a second
page or day or market, an event before and after the one that matters); every action fires and, for each
property, the bug in its mutant is found within them.  No liveness is stated for the services: each is
a command or a request that a person or a client starts, and nothing in the code restarts it.
Deadlock is not checked because all of them end.

## 7. What is proved

`RepairQueueProofs` proves, for any requests, sessions, attempt limit, lease and delays,
`Spec => []QueueInv` and from it the invariants of `RepairQueueRaces` and the action property
`SettledAttemptsStay`; and, for one session, the refinement of `LeaseQueue` and `LiveLeaseIsHonoured`.  Assumed: only the named ASSUMEs of `RepairQueue` (numbers are
naturals, `Unread` is no row).

`AttemptLedger` and `ProcessingHasLease` are not inductive: a commit writes what a
session loaded steps ago.  `QueueInv` adds what a snapshot may still hold:
- `SnapshotsArePast`: attempt counts only grow, so no snapshot is ahead of its row, and the
  claim that flushes `attempt_count + 1` on a locked row writes the next number;
- `RequeueLoadsHeld`: what a requeue loaded was in processing, so its net change can clear
  a lease only together with the status;
- `ClaimKeepsRow`: between FOR UPDATE and commit the row stays pending, and the session's
  copy is the row or a held row, which decides what the claim's flush writes;
- `SubmissionsLoadHeld`, `DoomedExist`: a completion has seen its row in processing, doomed
  attempts exist.

One lemma per action shows `QueueInv` preserved; the flush cases split on the columns whose
net change is empty.  `SettledCorrect` proves the step property from the same invariant.

`QueueRefinement` and `LeaseHonoured` assume `OneSession` (handlers that do not overlap; two
sessions refute both, see finding 2).  `SerialInv` adds to `QueueInv` that every loaded row is the
committed one, so a flush writes exactly what was computed (`FlushCurrent`); that only completed
requests have result rows, so a completion accepts the current claim's rows and no others; and that what a claim
requeues had run out when it read the clock.  `ClaimWrites`, `CompletionWrites` and `FailureWrites` state
what each commit does to the tables; from them each commit is a `Grant`, an `Accept` or a `GiveUp`, and every
other step but `Enqueue` (a `Submit`) leaves the abstract queue alone.

`DailyBatchProofs` proves, for any finite set of symbols, any number of jobs and days, any
enabled optional steps and all settings, `Spec => []BatchInv` and from it every invariant of the
passing `DailyBatch` runs, `Spec => OutcomeIsFinal`, and the refinement of `JobLedger`.  Assumed: the named ASSUMEs of
`DailyBatch` (bounds and settings are naturals in their ranges, the four mandatory steps are enabled,
`Symbols` is finite).  The invariants are not inductive by themselves: that a checkpoint may be
written, RS calculated or a job completed depends on what the process remembers of earlier
transactions.  `BatchInv` adds that this memory agrees with the tables:
- `AbsentJobsAreEmpty`, `ProcessHasJob`: a created job starts from nothing, and the process runs
  a job whose status is still "running", so nobody else can have given it an outcome;
- `StepsSoFar`: checkpoints before the current step are done, those after it pending; RS at
  "finish" is done, or blocked with the gate's two conditions still in memory (hence a blocked
  job is not "completed");
- `RunsSoFar`: a step at its checkpoint has committed its run, an RS step that has not has none,
  so a score of another job cannot lose its run when this one is written;
- `TargetsSoFar`: after the price step the process knows of failed targets if there are any; a
  retry, which fetches failed targets only, finds none in a completed job;
- `GateSoFar`: the RS step under enforce has been let through by a validation that passed, and
  runs are only appended.

There is one lemma per action; `StoreResultsEffect`, `AppendRun`, `SaveScoresEffect` and
`CheckpointWritten` state what the shared writes preserve and are used by the steps that make
them (the price step and the retry, the validation and the retry, and so on).

`LedgerRefinement` needs two more facts about the process, `LedgerInv`: behind a gate that blocked there is a
verdict that did (`BlockedSoFar`), which justifies completing with errors, and the verdict the RS step has
read is still the one under its number, with its day (`CitedSoFar`), although a retry may append others before
the run is written.  `CreateOpens` to `EndConcludes` turn each transaction into its abstract step.

`HistoricalBackfillProofs` proves, for any number of processes, targets, days and requests and any
budget, `Spec => []BackfillInv`, from it every invariant of `HistoricalBackfill`, `Spec => RunOutcomeIsFinal`,
and the refinement of `BackfillLedger`.  Assumed: every target expects a finite, nonempty set of days, and budgets are
naturals.  None of the invariants is inductive, since a process commits what it loaded before a crash, a rollback or
another command changed the row.  `BackfillInv` says it of three places:
- `RowsAreBacked`: a row's confirmed days are stored, and once the row says that its source has been read,
  all the source holds is stored; without overlap, also accounted for;
- of a process, `CopiesAreBacked`: the same of every row it has loaded, however stale, so that writing
  it back cannot lie; `PagesAreBacked`: what the source holds is yet to come, on the page in hand, or stored, which
  makes the end of the pages the end of the target; `ChargesAreBacked`, `CopiesAreCurrent`: charges are
  within what was made and approved, and a process alone has what is there;
- `RunIsBacked`: the run's counters, budget and outcome.

`BackfillRefinement` adds `WorkIsPursued`: a process alone reads pages only for a target that is open or that its
own pages completed, which is what a page, an end or an error may settle.  Alone, copies are current, so a
commit writes the process's own rows (`CommitBooks`, `CommitWrites`); each commit is then a `Collect`, a `Settle`, an
`Exhaust` or a `Conclude`.  As soon as commands have overlapped, `BackfillInv` in the next state is all that
`Disturb` asks for (`OverlapDisturbs`).

`SourceProofs`, for any callers, threads, pages and retries, and any markets and symbols:
- `FileBridge`: ids are handed out in order, so a fresh id is no earlier request's, and a waiting call's id is
  of a request for its own symbol (`WaitsForItsOwn`): no answer, however late or repeated, is returned to another.
- `KiwoomRest`: the slots of the calls made and those still waited for are distinct numbers below
  `nextAllowed` (`SlotsAreUsed`), hence no more calls than intervals; a token is asked for only under the lock and while
  none is held (`TokensAreCounted`); a page's tries follow its retries and its one 401 (`TriesAreCounted`).
  Assumed: no worker is called "none".
- `EodSync`: what each market's batch has left of each of its symbols (`MarketIsReported`).
- `RepairReconciler`, any finite set of repairs and any number of runs: a run decides on what it has read while others
  and the daily batch go on.  A completed request never changes but in its verdict (`WorkIsCompleted`), and prices
  are never deleted, so a day with a price when the run began is among those it has read whenever it takes a request
  (`BeforeIsRead`); what it writes is therefore none of these (`WritesAreLater`), and no other run's
  (`WritesAreApart`).  Days that got a price later are not protected (`NaverDataStays`, section 9).

`UniverseProofs`:
- `UniverseAudit`, any symbols and legacy codes, any ratio: a symbol's removals are counted by the decisions applied
  about it (`RemovalsAreTraced`); a symbol in a snapshot carries that one or a later one (`ListedIsRecorded`), so what a
  report holds to be stale was missing from its complete snapshot or has been listed since (`EvidenceIsComplete`).
- `UniverseCanary`, any finite stocks and ETFs, any jobs: every symbol carries a job that saw it, every mapped one was
  seen by both providers in complete snapshots (`SymbolsAreEvidenced`); what a job that follows KRX rests on
  survives later jobs and decisions (`FollowedIsEvidenced`, `DecisionIsBacked`, `ExpansionIsEarned`).
- `NaverUniverse`, any page size and list: while no page has repeated a row, the stocks read are full pages, and every
  stock that stayed on the list and was not read is beyond the pages read (`PagesAreWhole`).  Counting
  then shows that a count that comes out right has left none.
- `InstrumentIdentity`, any finite listing files: what an operator's session has read stays true until it commits,
  because identities never lose their dates or reopen (`TaskFits`, `EventIn`); `OneWriter` is what holds
  while checking transactions have not overlapped.

`ApiProofs`:
- `AnalysisWorkflow`, any proposals and sessions: a change's history leads up to its status (`ChangesHavePassed`),
  a session that holds a change's row is alone with it (`LocksAreExclusive`), and while sessions do not overlap the
  request's status is the roll-up of its changes (`AloneInOrder`).
- `ApiRuntime`, any threads, clients and limits: the hits remembered are the last admissions, and those forgotten are a
  window old (`AdmissionsFit`); with that, the admission after `Limit` others comes a window after the first of them.  A cache
  entry expires a `Ttl` after it was stored (`CacheIsTimed`), and `Handlers` says which requests may reach the cache at all.

`DatasetProofs`:
- `CleanDataset`, any days, finite instruments: the publication's decisions so far are those of judging its own snapshot
  up to its day (`ReadingOK`), and that snapshot was a committed state (`NowIsWhole`).  Judging day after day is a
  recursive function; that it exists up to the last day is shown by well-founded induction (`UpToExists`).
- `BacktestPages`, any finite keys and bounds on ids: committed rows stay under their ids with no older version (`Follows`), so each price
  there was at first has been read or lies beyond the cursor (`LiveHolds`); the materialised read holds the memberships up to its cursor, with the copies there are (`FrozenHolds`).
- `RsInput`, any list of stocks without repetition, finite histories with positive prices, an even window:
  whatever was loaded, refetched or checked again, a stock ranked has a window without a break in the rows its
  lineage hashes (`RunOK`), and places in the sorted list are ranks (`PlacesAreRanks`, `RatingsFall`).

`ServicesProofs`: a behaviour of `MCServices` is, for every service, a behaviour of that service's own
specification (`ServicesComposition`), because a step of one is no step of another.  So the run of all
fourteen checks each as its module says, the theorems above hold of the composition, and `ServicesTypeOK` is one.

Assumed in all of these: only the named ASSUMEs of the modules, which TLC evaluates in every run.  They say that
bounds are naturals, that sets the program holds in memory are finite, and what a source's answer looks like; none
restricts what happens.

Model-checked only:
- liveness, `ReadyIsClaimed` of the queue and `ProcessEnds` of the backfill: the prover has neither fairness nor ENABLED;
- the properties of the violation runs, which are refuted, not proved.

## 8. Findings

1. **An expired lease may never be reclaimed** (`RepairQueueLeaseStuck`).  The requeue lives in the
   claim's transaction, and a claim that finds no other request answers 204 without commit
   (`endpoints/repair.py:65`).  A single expired request stays in processing.
2. **A completed repair may be delivered again** (`RepairQueueLostUpdate`).  The requeue flushes
   rows it read without a lock over a completion that committed meanwhile
   (`crawl_repair_repository.py:178`).
3. **Skipped targets count as succeeded** (`DailyBatchCoverage`).  A job whose request budget ran
   out is reported completed (`sync_prices.py:101`), against the coverage rule of
   `docs/prd-crawling-reliability-hermes.md:304`.
4. **Ranks of two runs are mixed** (`DailyBatchRanks`).  A rerun for a day upserts only its own
   symbols (`rs_repository.py:49`), so two symbols of a market may hold one rank.
5. **A lost budget extension is spent** (`HistoricalBackfillBudget`).  The extension of a resume is
   flushed, not committed; a failure of the first target rolls it back, and the process goes on spending
   it (`historical_backfill.py:272`), beyond what `docs/backtest_backfill_runbook.md:129` calls the limit
   of the run.
6. **A ranking is answered with another filter's rows** (`ApiRuntimeFilters`).  The cache key leaves out
   `exclude_etf`, `sector` and `search` (`core/cache.py:117`), which the handler applies
   (`endpoints/rankings.py:59`).

## 9. Disagreements without a run

Met while modelling; none has a violation run.  Five are stated as definitions that no run checks; adding
the name to `Services.cfg`, the first three as PROPERTY, the others as INVARIANT, shows the counterexample.

- `NaverDataStays` (`RepairReconciler`), a repair overwrites a Naver price.  The days without a price are found by one
  read (`repair_reconciler.py:97`) and written by an upsert that reads again (`price_repository.py:48-53`) and updates
  what it finds (`:70-77`).  Trace: `ListReady`, `LockRequest` (day missing), `BatchUpserts` of the day, `ApplyRequest`,
  `CommitApplier`: the price of the batch has become Kiwoom's, with its source, whatever its value, without a
  conflict.  `repair_reconciler.py:37-38`: "a conflict or a malformed completed result cannot overwrite Naver
  data".  `EarlierPricesStay` is what remains.
- `RemovedIsMissing` (`UniverseAudit`), a listed symbol is removed.  The report takes a symbol whose row carries another
  snapshot than its own for missing (`universe_audit.py:108-114`), and a partial sync writes the rows it fetched;
  and the application looks only at the approval and `is_active` (`universe_audit_repository.py:127-131`), so a
  complete sync that lists the symbol again, between report and application, changes nothing.  Either way a symbol
  in the latest complete snapshot is deactivated, against `docs/prd-crawling-reliability-hermes.md:371` and
  `:118` (only symbols missing from a complete snapshot are).  `RemovalsAreApproved` is what remains.
- `ChangedPagesAreRefused` (`BacktestPages`), live pages join two states of the tables.  The watermark is the largest id
  (`endpoints/backtest.py:62-67`), which an update keeps and a row that commits late need not exceed.  Trace:
  `FirstRequest`, `ReadPage`, `ReplaceRow` of the row just read, `NextRequest`, which is accepted.  The docstring
  (`:187-189`), "If source rows change between pages, the client receives 409 and must restart", and
  `docs/agent_api.md:70-71` promise otherwise.  `JoinedPagesMissNothing` is what remains.
- `OnlyMissingAreRefetched` (`EodSync`): `sync_eod.py:279` and `:290` use `job_id`, which is not defined;
  with a database session every batch fails with NameError and is fetched again symbol by symbol, against
  the docstring at `:156`.  `EodSessions = {TRUE}` shows nothing else.
- `UnchangedAuditIsPublished` (`CleanDataset`): `clean_backtest_snapshot.py:46` and `:64-65` count
  published rows twice, so `create_clean_backtest_dataset.py:49-52` stops with "audit changed before
  dataset creation" over data nobody changed, once any segment is complete
  (`docs/ohlcv_cleansing_runbook.md:20`).
- The last page of a materialised dataset may carry a newer RS run than the pages before it
  (`endpoints/backtest.py:401`): the run is read after the cursor is checked.
- Code reuse: `canonical_universe.py:93-117` gives a reused code to the identity that is open; nothing in
  the daily path ends one (`docs/prd-krx-universe-authority.md:79`).  Overlapping jobs may open two, after
  which every later run raises "ambiguous active historical identity".
  Two overlapping `reconcile_krx_listing_identities.py --apply` create an identity twice (`:71-81`).
- `universe_audit_repository.py:127-129`: a decision approved for a symbol that is inactive stays approved
  and removes it when it is listed again.
- The reconciler's stale copy may turn `applied` into `conflict`; the prices it wrote stay.
- `sync_eod.py:412-413`: without a price the fallback's answer "skipped" replaces "failed".
- The bridge's checksum is optional, while its document calls it mandatory; a 401 of one worker drops a
  token another has just renewed.
- `codex_workflow.py:127-144`: two sessions that finish the last two changes may both miss the other's, and
  the request stays `codex_reviewed`.  `workflow.py:49`: two requests with one key end in an
  IntegrityError for the second.
- `core/cache.py:57-70`: two threads may delete one entry (KeyError), and a slow one stores an older answer.
  Keys of the rate limiter are never removed.
- `historical_backfill.py:203,271-279,323-337`: two overlapping commands on one run may spend and be charged
  more than its approved budget, since a rollback reloads the row and not `remaining`
  (`docs/backtest_backfill_runbook.md:129`); `RequestsAreCounted` states the bound for commands that do not overlap.
- `listing_history_repository.py:64-72`: an event that goes back to an earlier version is taken for a replay.
  `historical_rs.py:115` raises KeyError on a clean dataset, and its SQL ranks differ from `calculator.py`.

## 10. Not modelled

The components with status `not_modelled` in `PROJECT.json`, each with its reason: pure checks, parsing,
output, developer tools, test doubles and schema history have no state a step could get wrong.  Of the
partly modelled ones their note says what is left out.  Code without a caller is not modelled
(`EodCanaryController`, `calculate_market_rs`, `compute_adjustment_factors`), nor the fallback source of `sync_prices.py`, which the daily batch does not pass on.
Price values, percentiles and other floating-point arithmetic, wording and logging are abstracted
everywhere.
