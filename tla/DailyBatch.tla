------------------------------ MODULE DailyBatch ------------------------------
(***************************************************************************)
(* The daily batch: one job of six steps, each step its own transaction,   *)
(* with a checkpoint row per step written in transactions of its own       *)
(* before and after it.  Between any two transactions the process may die, *)
(* and an operator may retry failed targets of any job, which re-validates *)
(* that job.  flock lets one batch process run at a time.                  *)
(*                                                                         *)
(* A transaction is one step here.  One that fails leaves the tables as    *)
(* they were and moves the process to its exception handler (Raises).      *)
(*                                                                         *)
(* Data are abstracted to what the gate and the outcome of a job tell      *)
(* apart: a symbol's price rows to the latest stored trading day (0 for    *)
(* none; the days before it are stored too), findings to their severities, *)
(* a score to the job that wrote it and its rank.  Symbols form one market.*)
(*                                                                         *)
(* Definitions named Mut... are plausible bugs, used by no specification.  *)
(***************************************************************************)
EXTENDS Integers, FiniteSets, Sequences

CONSTANTS
  Symbols,         \* symbols either universe may list
  MaxJobs,         \* bound on the rows of crawl_jobs
  MaxDay,          \* bound on the modelled calendar (trading days)
  MaxRuns,         \* bound on a job's validation runs before a retry adds one
  EnabledSteps,    \* the settings may switch off krx_shadow and validation
  EnforceModes,    \* the values of validation_mode = "enforce" to model
  RequestBudget,   \* settings.naver_max_requests_per_batch
  MaxAttempts,     \* settings.crawl_retry_max_attempts
  CoverageBlock,   \* settings.validation_coverage_block, in percent
  StaleBlockDays   \* settings.validation_stale_block_lag_days

StepName == <<"krx_shadow", "symbols", "benchmarks", "prices", "validation", "rs">>
StepNames == {StepName[n] : n \in 1..6}

ASSUME BoundsAssumption == MaxJobs \in Nat /\ MaxDay \in Nat \ {0} /\ MaxRuns \in Nat
ASSUME StepsAssumption ==
  {"symbols", "benchmarks", "prices", "rs"} \subseteq EnabledSteps /\ EnabledSteps \subseteq StepNames
ASSUME ModesAssumption == EnforceModes \subseteq BOOLEAN
ASSUME SettingsAssumption ==
  /\ RequestBudget \in Nat /\ MaxAttempts \in Nat \ {0}
  /\ CoverageBlock \in 0..100 /\ StaleBlockDays \in Nat \ {0}
ASSUME SymbolsAssumption == IsFiniteSet(Symbols)

VARIABLES
  day,         \* today, in the batch's time zone
  active,      \* symbols with is_active
  stored,      \* latest trade_date in daily_prices
  jobStatus,   \* crawl_jobs.status
  checkpoint,  \* batch_checkpoints.status of a job's steps
  record,      \* crawl_target_results of a job's price step
  failures,    \* severities the job's crawl_failures will be given
  validation,  \* validation_runs of a job, oldest first
  rsRun,       \* the rs_run of a job
  score,       \* rs_scores: the rank of a symbol on a day, and who wrote it
  pc,          \* where the batch process is
  job,         \* its job_id
  step,        \* the step it is in
  today,       \* its target_date
  enforce,     \* its validation_mode = "enforce"
  unsuccessful,\* its price result has partial or failed targets
  degraded,    \* one of its universe snapshots is partial or failed
  wouldBlock,  \* its validation result would block
  withErrors,  \* the step just executed completes with errors
  cited        \* the validation run its RS run cites, and the RS day

tables == <<active, stored, jobStatus, checkpoint, record, failures, validation, rsRun, score>>
data == <<active, stored, record, failures, validation, rsRun, score>>
facts == <<unsuccessful, degraded, wouldBlock, withErrors, cited>>
process == <<pc, job, step, today, enforce, facts>>
vars == <<day, tables, process>>

Jobs == 1..MaxJobs
Days == 1..MaxDay
Nil == [none |-> TRUE]

JobStatus == {"absent", "running", "completed", "completed_with_errors", "failed"}
CheckpointStatus == {"absent", "pending", "running", "completed",
                     "completed_with_errors", "blocked", "failed"}
Done == {"completed", "completed_with_errors"}
TargetStatus == {"fetched", "no_new_data", "partial", "failed", "skipped"}
Verdicts == {"passed", "passed_with_warnings", "blocked"}

TargetRecord == [status : TargetStatus, day : 0..MaxDay, attempts : 1..MaxAttempts]
ValidationRun == [status : Verdicts, day : 0..MaxDay]
RsRun == [cites : Nat, day : Days, enforced : BOOLEAN]
Score == [job : Jobs, rank : 1..Cardinality(Symbols)]

TypeOK ==
  /\ day \in Days /\ active \subseteq Symbols
  /\ stored \in [Symbols -> 0..MaxDay]
  /\ jobStatus \in [Jobs -> JobStatus]
  /\ checkpoint \in [Jobs -> [StepNames -> CheckpointStatus]]
  /\ record \in [Jobs -> [Symbols -> TargetRecord \cup {Nil}]]
  /\ failures \in [Jobs -> SUBSET {"WARNING", "ERROR"}]
  /\ validation \in [Jobs -> Seq(ValidationRun)]
  /\ rsRun \in [Jobs -> RsRun \cup {Nil}]
  /\ score \in [Symbols -> [Days -> Score \cup {Nil}]]
  /\ pc \in {"idle", "start", "execute", "rs", "complete", "block", "finish", "fail", "abandon"}
  /\ job \in 0..MaxJobs /\ step \in 1..6 /\ today \in 0..MaxDay
  /\ enforce \in BOOLEAN /\ unsuccessful \in BOOLEAN /\ degraded \in BOOLEAN
  /\ wouldBlock \in BOOLEAN /\ withErrors \in BOOLEAN
  /\ cited \in [run : Nat, day : 0..MaxDay]

NoCitation == [run |-> 0, day |-> 0]

Init ==
  /\ day = 1 /\ active = {}
  /\ stored = [s \in Symbols |-> 0]
  /\ jobStatus = [j \in Jobs |-> "absent"]
  /\ checkpoint = [j \in Jobs |-> [n \in StepNames |-> "absent"]]
  /\ record = [j \in Jobs |-> [s \in Symbols |-> Nil]]
  /\ failures = [j \in Jobs |-> {}]
  /\ validation = [j \in Jobs |-> <<>>]
  /\ rsRun = [j \in Jobs |-> Nil]
  /\ score = [s \in Symbols |-> [d \in Days |-> Nil]]
  /\ pc = "idle" /\ job = 0 /\ step = 1 /\ today = 0 /\ enforce = FALSE
  /\ unsuccessful = FALSE /\ degraded = FALSE /\ wouldBlock = FALSE
  /\ withErrors = FALSE /\ cited = NoCitation

-----------------------------------------------------------------------------
(* Process control.                                                        *)

\* The process ends, and with it its memory and the file lock.
Exit ==
  /\ pc' = "idle" /\ job' = 0 /\ step' = 1 /\ today' = 0 /\ enforce' = FALSE
  /\ unsuccessful' = FALSE /\ degraded' = FALSE /\ wouldBlock' = FALSE
  /\ withErrors' = FALSE /\ cited' = NoCitation

Goto(p) == pc' = p /\ UNCHANGED <<job, step, today, enforce>>

Executing(name) == pc = "execute" /\ StepName[step] = name

MutAfterError(p) ==   \* the step's exception is logged and swallowed
  CASE p \in {"execute", "rs"} -> "complete"
    [] p = "complete" -> "fail"
    [] OTHER -> "abandon"

\* The handler that catches what the transaction at p raises: _run_step's for
\* what follows start_step, run_daily_job's for the rest.
AfterError(p) ==
  CASE p \in {"execute", "rs", "complete"} -> "fail"
    [] OTHER -> "abandon"

\* The transaction at pc raises and rolls back; a step that has read and
\* decided may still fail at its commit.
Raises ==
  /\ pc \notin {"idle", "abandon"}
  /\ pc = "start" => StepName[step] \in EnabledSteps
  /\ Goto(AfterError(pc))
  /\ UNCHANGED <<day, tables, facts>>

\* The process is killed, or the handler's own transaction raises.
Crash ==
  /\ pc # "idle"
  /\ Exit
  /\ UNCHANGED <<day, tables>>

MutNewJob(j) == jobStatus[j] # "running"   \* a rerun takes the old job over

\* The next value of the sequence of crawl_jobs.
NewJob(j) ==
  /\ jobStatus[j] = "absent"
  /\ \A i \in Jobs : i < j => jobStatus[i] # "absent"

CreateJob(j) ==
  /\ pc = "idle"
  /\ NewJob(j)
  /\ jobStatus' = [jobStatus EXCEPT ![j] = "running"]
  /\ checkpoint' = [checkpoint EXCEPT ![j] = [n \in StepNames |-> "pending"]]
  /\ pc' = "start" /\ job' = j /\ step' = 1 /\ today' = day
  /\ enforce' \in EnforceModes
  /\ UNCHANGED <<day, data, facts>>

\* The settings switch the step off.
SkipStep ==
  /\ pc = "start"
  /\ StepName[step] \notin EnabledSteps
  /\ step' = step + 1
  /\ UNCHANGED <<day, tables, pc, job, today, enforce, facts>>

\* A new job's checkpoints are pending, so is_step_completed is never true
\* for the process that asks.
StartStep ==
  /\ pc = "start"
  /\ StepName[step] \in EnabledSteps
  /\ checkpoint' = [checkpoint EXCEPT ![job][StepName[step]] = "running"]
  /\ withErrors' = FALSE
  /\ Goto("execute")
  /\ UNCHANGED <<day, jobStatus, data, unsuccessful, degraded, wouldBlock, cited>>

-----------------------------------------------------------------------------
(* Steps 1-4: universe, benchmarks, prices.                                *)

\* A partial or failed KRX snapshot is recorded, never raised.
SyncKrxUniverse ==
  /\ Executing("krx_shadow")
  /\ \E complete \in BOOLEAN :
       /\ degraded' = (degraded \/ ~complete)
       /\ withErrors' = ~complete
  /\ Goto("complete")
  /\ UNCHANGED <<day, tables, unsuccessful, wouldBlock, cited>>

\* Listed symbols are upserted as active whatever the snapshot's status; a
\* symbol that is not listed stays active (it becomes a candidate only).
SyncSymbols ==
  /\ Executing("symbols")
  /\ \E listed \in SUBSET Symbols, complete \in BOOLEAN :
       /\ complete => listed # {}
       /\ active' = active \cup listed
       /\ degraded' = (degraded \/ ~complete)
       /\ withErrors' = ~complete
  /\ Goto("complete")
  /\ UNCHANGED <<day, stored, jobStatus, checkpoint, record, failures, validation,
                 rsRun, score, unsuccessful, wouldBlock, cited>>

SyncBenchmarks ==
  /\ Executing("benchmarks")
  /\ Goto("complete")
  /\ UNCHANGED <<day, tables, facts>>

Results == [status : TargetStatus, latest : 0..MaxDay]

\* What a symbol's turn in a chunk may come to: rows are stored up to limit,
\* or nothing new is, and the result carries the latest stored day.
TargetResults(s, limit) ==
  {r \in Results :
     IF r.status \in {"fetched", "partial"}
       THEN r.latest >= 1 /\ r.latest >= stored[s] /\ (r.latest <= limit \/ r.latest = stored[s])
       ELSE r.latest = stored[s]}

MutTargetRecord(old, r) ==   \* fresh targets are booked on the target date
  [status |-> r.status, day |-> IF r.status = "no_new_data" THEN today ELSE r.latest,
   attempts |-> IF old = Nil THEN 1 ELSE old.attempts + 1]

\* record_result: one row per target, its attempts counted up.
TargetRecordOf(old, r) ==
  [status |-> r.status, day |-> r.latest,
   attempts |-> IF old = Nil THEN 1 ELSE old.attempts + 1]

\* Store the rows of a chunk's targets.  A result row or failure row that
\* cannot be written is logged and dropped (its savepoint rolls back).
StoreResults(j, targets, results) ==
  /\ stored' = [s \in Symbols |-> IF s \in targets THEN results[s].latest ELSE stored[s]]
  /\ \E recorded \in SUBSET targets :
       record' = [record EXCEPT ![j] = [s \in Symbols |->
                    IF s \in recorded THEN TargetRecordOf(@[s], results[s]) ELSE @[s]]]
  /\ \E severities \in SUBSET {"WARNING", "ERROR"} :
       /\ severities # {} => \E s \in targets : results[s].status = "failed"
       /\ failures' = [failures EXCEPT ![j] = @ \cup severities]

MutUnsuccessful(targets, results) ==   \* partial counts as success
  {s \in targets : results[s].status = "failed"}

\* PriceSyncResult.unsuccessful_count
Unsuccessful(targets, results) ==
  {s \in targets : results[s].status \in {"partial", "failed"}}

Skipped(targets, results) == {s \in targets : results[s].status = "skipped"}

\* Every chunk of the price step runs in the step's own transaction.  Targets
\* beyond the request budget are skipped.
SyncPrices ==
  /\ Executing("prices")
  /\ \E results \in [active -> Results] :
       /\ \A s \in active : results[s] \in TargetResults(s, today)
       /\ Cardinality(Skipped(active, results)) =
            IF Cardinality(active) > RequestBudget THEN Cardinality(active) - RequestBudget ELSE 0
       /\ StoreResults(job, active, results)
       /\ unsuccessful' = (Unsuccessful(active, results) # {})
       /\ withErrors' = unsuccessful'
  /\ Goto("complete")
  /\ UNCHANGED <<day, active, jobStatus, checkpoint, validation, rsRun, score,
                 degraded, wouldBlock, cited>>

-----------------------------------------------------------------------------
(* Step 5: data-quality validation (validate_crawl_job).                   *)

\* The targets of the job, or the active symbols while it has none.
TargetCodes(rec) ==
  LET recorded == {s \in Symbols : rec[s] # Nil}
  IN  IF recorded = {} THEN active ELSE recorded

\* A most common trade_date of the job's targets; without any, the benchmarks
\* decide, or nothing can (0).
TradeDays(rec) ==
  LET dated == {s \in Symbols : rec[s] # Nil /\ rec[s].day # 0}
      Count(d) == Cardinality({s \in dated : rec[s].day = d})
  IN  IF dated = {} THEN 0..day
      ELSE {d \in Days : Count(d) > 0 /\ \A e \in Days : Count(e) <= Count(d)}

\* The latest row of a symbol on or before d.
LatestRow(rows, s, d) == IF rows[s] <= d THEN rows[s] ELSE d

Findings(codes, rows, d) ==
  LET missing == {s \in codes : rows[s] = 0}
      fresh == {s \in codes : rows[s] # 0 /\ LatestRow(rows, s, d) = d}
      stale == codes \ (missing \cup fresh)
  IN  {"ERROR" : s \in missing}
      \cup {IF d - LatestRow(rows, s, d) >= StaleBlockDays THEN "CRITICAL" ELSE "WARNING" : s \in stale}
      \cup (IF codes = {} \/ 100 * Cardinality(fresh) < CoverageBlock * Cardinality(codes)
              THEN {"CRITICAL"} ELSE {})

\* _status_from_counts
StatusOf(found) ==
  IF found \cap {"CRITICAL", "ERROR"} # {} THEN "blocked"
  ELSE IF "WARNING" \in found THEN "passed_with_warnings"
  ELSE "passed"

\* The run a validation of the job may add.  Rules on single rows (OHLC,
\* extreme returns, benchmarks) may find a warning or an error besides.
ValidationRuns(rec, rows, failed) ==
  {run \in ValidationRun :
     /\ run.day \in TradeDays(rec)
     /\ IF run.day = 0 THEN run.status = "blocked"
        ELSE \E rules \in {{}, {"WARNING"}, {"ERROR"}} :
               run.status = StatusOf(Findings(TargetCodes(rec), rows, run.day)
                                     \cup failed \cup rules)}

MutWouldBlock(status) == status = "failed"   \* forgets "blocked"

WouldBlock(status) == status \in {"blocked", "failed"}

ValidateCrawlJob ==
  /\ Executing("validation")
  /\ \E run \in ValidationRuns(record[job], stored, failures[job]) :
       /\ validation' = [validation EXCEPT ![job] = Append(@, run)]
       /\ wouldBlock' = WouldBlock(run.status)
       /\ withErrors' = (run.status # "passed")
  /\ Goto("complete")
  /\ UNCHANGED <<day, active, stored, jobStatus, checkpoint, record, failures, rsRun,
                 score, unsuccessful, degraded, cited>>

-----------------------------------------------------------------------------
(* Step 6: the RS calculation.                                             *)

MutReadLatestValidation ==   \* no fallback for a run without a day
  LET runs == validation[job] IN
  /\ Executing("rs")
  /\ cited' = [run |-> Len(runs), day |-> IF runs = <<>> THEN day ELSE runs[Len(runs)].day]
  /\ Goto("rs")
  /\ UNCHANGED <<day, tables, unsuccessful, degraded, wouldBlock, withErrors>>

\* _execute_step reads the job's latest validation run again: it, not the
\* result the gate saw, is cited and fixes the RS day.
ReadLatestValidation ==
  LET runs == validation[job] IN
  /\ Executing("rs")
  /\ cited' = [run |-> Len(runs),
               day |-> IF runs = <<>> \/ runs[Len(runs)].day = 0 THEN day
                       ELSE runs[Len(runs)].day]
  /\ Goto("rs")
  /\ UNCHANGED <<day, tables, unsuccessful, degraded, wouldBlock, withErrors>>

\* Ranks 1..n in some order.
Rankings(scored) ==
  {r \in [scored -> 1..Cardinality(scored)] : \A s, t \in scored : r[s] = r[t] => s = t}

MutSaveScores(scored, rank, d) ==   \* files the scores under the batch's day
  [s \in Symbols |->
     IF s \in scored THEN [score[s] EXCEPT ![today] = [job |-> job, rank |-> rank[s]]]
     ELSE score[s]]

\* save_many: an upsert of the rows given, which leaves the day's other rows.
SaveScores(scored, rank, d) ==
  [s \in Symbols |->
     IF s \in scored THEN [score[s] EXCEPT ![d] = [job |-> job, rank |-> rank[s]]]
     ELSE score[s]]

\* Symbols with too little history or an unresolved corporate action are left
\* out; symbols with a corporate action are fetched again and stored first.
CalculateRs ==
  LET priced == {s \in active : stored[s] # 0} IN
  /\ pc = "rs"
  /\ \E latest \in [priced -> Days] :
       /\ \A s \in priced : latest[s] \in stored[s]..day
       /\ stored' = [s \in Symbols |-> IF s \in priced THEN latest[s] ELSE stored[s]]
  /\ \E severities \in SUBSET {"WARNING"} :
       failures' = [failures EXCEPT ![job] = @ \cup severities]
  /\ \E scored \in SUBSET priced : \E rank \in Rankings(scored) :
       score' = SaveScores(scored, rank, cited.day)
  /\ rsRun' = [rsRun EXCEPT ![job] =
                 [cites |-> cited.run, day |-> cited.day, enforced |-> enforce]]
  /\ withErrors' = FALSE
  /\ Goto("complete")
  /\ UNCHANGED <<day, active, jobStatus, checkpoint, record, validation, unsuccessful,
                 degraded, wouldBlock, cited>>

-----------------------------------------------------------------------------
(* Checkpoints and the outcome of the job.                                 *)

\* The step is over; after the validation the gate decides whether RS runs.
CompleteStep ==
  /\ pc = "complete"
  /\ checkpoint' = [checkpoint EXCEPT ![job][StepName[step]] =
                      IF withErrors THEN "completed_with_errors" ELSE "completed"]
  /\ IF step = 6 THEN pc' = "finish" /\ step' = step
     ELSE /\ pc' = IF StepName[step] = "validation" /\ enforce /\ wouldBlock
                     THEN "block" ELSE "start"
          /\ step' = step + 1
  /\ UNCHANGED <<day, jobStatus, data, job, today, enforce, facts>>

\* RS is not calculated: its checkpoint says so, the job goes on to its end.
BlockRs ==
  /\ pc = "block"
  /\ checkpoint' = [checkpoint EXCEPT ![job]["rs"] = "blocked"]
  /\ Goto("finish")
  /\ UNCHANGED <<day, jobStatus, data, facts>>

FinishJob ==
  /\ pc = "finish"
  /\ jobStatus' = [jobStatus EXCEPT ![job] =
       IF unsuccessful \/ degraded \/ (enforce /\ wouldBlock)
         THEN "completed_with_errors" ELSE "completed"]
  /\ Exit
  /\ UNCHANGED <<day, checkpoint, data>>

MutFailStep ==   \* records the failure and carries on with the next step
  /\ pc = "fail"
  /\ checkpoint' = [checkpoint EXCEPT ![job][StepName[step]] = "failed"]
  /\ pc' = IF step = 6 THEN "finish" ELSE "start"
  /\ step' = IF step = 6 THEN step ELSE step + 1
  /\ UNCHANGED <<day, jobStatus, data, job, today, enforce, facts>>

\* _run_step's handler: record the failure, raise it again.
FailStep ==
  /\ pc = "fail"
  /\ checkpoint' = [checkpoint EXCEPT ![job][StepName[step]] = "failed"]
  /\ Goto("abandon")
  /\ UNCHANGED <<day, jobStatus, data, facts>>

\* run_daily_job's handler.
FailJob ==
  /\ pc = "abandon"
  /\ jobStatus' = [jobStatus EXCEPT ![job] = "failed"]
  /\ Exit
  /\ UNCHANGED <<day, checkpoint, data>>

-----------------------------------------------------------------------------
(* The world around the batch.                                             *)

Retryable(j) ==
  {s \in Symbols : /\ record[j][s] # Nil
                   /\ record[j][s].status \in {"failed", "partial"}
                   /\ record[j][s].attempts < MaxAttempts}

\* scripts/retry_failed_targets.py, run by an operator at any time: some of
\* the failed targets are fetched again, without a target date and within a
\* budget of the operator's, and the job is validated again.
RetryFailedTargets(j) ==
  /\ jobStatus[j] # "absent"
  /\ Len(validation[j]) < MaxRuns
  /\ \E targets \in SUBSET Retryable(j) : \E results \in [targets -> Results] :
       /\ \A s \in targets : results[s] \in TargetResults(s, day)
       /\ StoreResults(j, targets, results)
  /\ \E run \in ValidationRuns(record'[j], stored', failures'[j]) :
       validation' = [validation EXCEPT ![j] = Append(@, run)]
  /\ UNCHANGED <<day, active, jobStatus, checkpoint, rsRun, score, process>>

NextDay ==
  /\ day < MaxDay
  /\ day' = day + 1
  /\ UNCHANGED <<tables, process>>

Step ==
  \/ SkipStep \/ StartStep
  \/ SyncKrxUniverse \/ SyncSymbols \/ SyncBenchmarks \/ SyncPrices
  \/ ValidateCrawlJob
  \/ ReadLatestValidation \/ CalculateRs
  \/ CompleteStep \/ BlockRs \/ FailStep

Next ==
  \/ \E j \in Jobs : CreateJob(j) \/ RetryFailedTargets(j)
  \/ Step \/ FinishJob \/ FailJob
  \/ Raises \/ Crash
  \/ NextDay

Spec == Init /\ [][Next]_vars

-----------------------------------------------------------------------------
(* Properties.                                                             *)

Enabled == {n \in 1..6 : StepName[n] \in EnabledSteps}
Over == Done \cup {"blocked"}

\* Steps run in order on committed results: a step is begun only when every
\* enabled step before it is done, whichever transactions failed on the way.
CheckpointsInOrder ==
  \A j \in Jobs, n \in Enabled :
    checkpoint[j][StepName[n]] \notin {"absent", "pending"} =>
      \A m \in Enabled : m < n => checkpoint[j][StepName[m]] \in Done

\* A checkpoint that says done is backed by what the step committed, and RS
\* that was blocked left no run: the checkpoint's transaction follows the
\* step's, so a crash may lose the checkpoint but never the data.
CheckpointIsBacked ==
  \A j \in Jobs :
    /\ checkpoint[j]["validation"] \in Done => validation[j] # <<>>
    /\ checkpoint[j]["rs"] \in Done => rsRun[j] # Nil
    /\ checkpoint[j]["rs"] = "blocked" => rsRun[j] = Nil

\* A job reported completed ran every enabled step, and none of its targets
\* is on record as failed or partial, then or after any later retry.
CompletedJobIsWhole ==
  \A j \in Jobs :
    jobStatus[j] = "completed" =>
      /\ \A n \in Enabled : checkpoint[j][StepName[n]] \in Done
      /\ \A s \in Symbols :
           record[j][s] # Nil => record[j][s].status \notin {"failed", "partial"}

Passed(j) ==
  \E k \in 1..Len(validation[j]) :
    validation[j][k].status \in {"passed", "passed_with_warnings"}

\* In enforce mode an RS run exists only if some validation of its job passed,
\* unless the settings switch the validation off
\* (docs/operations_rollout.md:102: blocked under enforce creates no new RS).
EnforcedRsWasValidated ==
  "validation" \in EnabledSteps =>
    \A j \in Jobs : rsRun[j] # Nil /\ rsRun[j].enforced => Passed(j)

\* A score belongs to the RS run of its job, filed under that run's day: the
\* lineage of a published rank never points to a run that rolled back.
ScoresHaveLineage ==
  \A s \in Symbols, d \in Days :
    score[s][d] # Nil =>
      /\ rsRun[score[s][d].job] # Nil
      /\ rsRun[score[s][d].job].day = d

\* A target's recorded trading day is stored, whatever rolled back between.
RecordedDayIsStored ==
  \A j \in Jobs, s \in Symbols :
    record[j][s] # Nil => record[j][s].day <= stored[s]

\* The outcome of a job is never rewritten, by reruns, retries or reports.
OutcomeIsFinal ==
  [][\A j \in Jobs :
       jobStatus[j] \in {"completed", "completed_with_errors", "failed"} =>
         jobStatus'[j] = jobStatus[j]]_vars

\* The tables of jobs, verdicts, RS runs and scores are those of an abstract
\* ledger: a job publishes its ranks at once and at most once, while it runs,
\* for the day of the validation it cites and in enforce mode after one that
\* passed; it is concluded once, as completed only with ranks published.
Ledger == INSTANCE JobLedger WITH
  outcome <- jobStatus, verdicts <- validation, run <- rsRun,
  Gated <- "validation" \in EnabledSteps

ImplementsJobLedger == Ledger!LedgerSpec

-----------------------------------------------------------------------------
(* The inductive invariant behind them: what the process remembers agrees  *)
(* with the tables of its job.                                             *)

\* A job that was not created has no rows.
AbsentJobsAreEmpty ==
  \A j \in Jobs :
    jobStatus[j] = "absent" =>
      /\ \A n \in 1..6 : checkpoint[j][StepName[n]] = "absent"
      /\ \A s \in Symbols : record[j][s] = Nil
      /\ validation[j] = <<>> /\ rsRun[j] = Nil

ProcessHasJob ==
  pc # "idle" => job \in Jobs /\ today \in Days /\ jobStatus[job] = "running"

\* The checkpoints of the job say how far the process has come.
StepsSoFar ==
  pc # "idle" =>
    /\ \A n \in Enabled : n < step => checkpoint[job][StepName[n]] \in Done
    /\ \A n \in 1..6 : n > step => checkpoint[job][StepName[n]] = "pending"
    /\ pc = "start" => checkpoint[job][StepName[step]] = "pending"
    /\ pc \in {"execute", "rs", "complete", "fail"} =>
         step \in Enabled /\ checkpoint[job][StepName[step]] = "running"
    /\ pc \in {"rs", "block", "finish"} => step = 6
    /\ pc = "block" => checkpoint[job]["rs"] = "pending" /\ enforce /\ wouldBlock
    /\ pc = "finish" =>
         \/ checkpoint[job]["rs"] \in Done
         \/ (checkpoint[job]["rs"] = "blocked" /\ enforce /\ wouldBlock)

\* Validation and RS runs are there when their steps are over, no earlier.
RunsSoFar ==
  /\ \A j \in Jobs : checkpoint[j]["rs"] \in {"absent", "pending"} => rsRun[j] = Nil
  /\ pc \in {"execute", "rs"} => rsRun[job] = Nil
  /\ pc = "rs" => cited.day \in Days
  /\ pc = "complete" /\ step = 5 => validation[job] # <<>>
  /\ pc = "complete" /\ step = 6 => rsRun[job] # Nil

\* The job has no target before its price step, and afterwards none that
\* failed unless the process remembers it.
TargetsSoFar ==
  pc # "idle" =>
    /\ step < 4 \/ (step = 4 /\ pc \in {"start", "execute"}) =>
         \A s \in Symbols : record[job][s] = Nil
    /\ (step > 4 \/ (step = 4 /\ pc = "complete")) /\ ~unsuccessful =>
         \A s \in Symbols :
           record[job][s] # Nil => record[job][s].status \notin {"failed", "partial"}

\* What the gate has let through had a validation that passed.
GateSoFar ==
  "validation" \in EnabledSteps =>
    /\ pc = "complete" /\ step = 5 /\ ~wouldBlock => Passed(job)
    /\ pc \in {"start", "execute", "rs"} /\ step = 6 /\ enforce => Passed(job)

BatchInv ==
  /\ TypeOK /\ AbsentJobsAreEmpty /\ ProcessHasJob
  /\ StepsSoFar /\ RunsSoFar /\ TargetsSoFar /\ GateSoFar
  /\ CheckpointsInOrder /\ CheckpointIsBacked /\ CompletedJobIsWhole
  /\ EnforcedRsWasValidated /\ ScoresHaveLineage /\ RecordedDayIsStored

\* A result that would block is that of a validation of the job.
BlockedSoFar ==
  wouldBlock =>
    /\ pc # "idle"
    /\ \E k \in 1..Len(validation[job]) : validation[job][k].status = "blocked"

\* What RS has read of the latest validation is still so when it commits.
CitedSoFar ==
  pc = "rs" =>
    LET n == cited.run IN
    /\ n \in 0..Len(validation[job])
    /\ n > 0 /\ validation[job][n].day # 0 => cited.day = validation[job][n].day

\* What the steps need to be those of the ledger.
LedgerInv == BatchInv /\ BlockedSoFar /\ CitedSoFar

-----------------------------------------------------------------------------
(* What the documentation says and the code does not do.                   *)

\* docs/prd-crawling-reliability-hermes.md: below 99.5 % coverage a batch is
\* shown as completed_with_errors or failed.
CompletedJobIsCovered ==
  \A j \in Jobs :
    LET targets == {s \in Symbols : record[j][s] # Nil}
        covered == {s \in targets : record[j][s].status \in {"fetched", "no_new_data"}}
    IN  jobStatus[j] = "completed" =>
          1000 * Cardinality(covered) >= 995 * Cardinality(targets)

\* calculate_rs.py: the persisted field is a market-local rank, so on one day
\* two symbols of a market do not share it.
RanksAreDistinct ==
  \A d \in Days, s, t \in Symbols :
    /\ s # t /\ score[s][d] # Nil /\ score[t][d] # Nil
    => score[s][d].rank # score[t][d].rank
=============================================================================
