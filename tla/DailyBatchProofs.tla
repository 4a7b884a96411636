--------------------------- MODULE DailyBatchProofs ---------------------------
(***************************************************************************)
(* What DailyBatch guarantees for every set of symbols, every number of    *)
(* jobs and days and all settings, proved from the inductive invariant     *)
(* BatchInv.  One lemma per action.                                        *)
(***************************************************************************)
EXTENDS DailyBatch, FiniteSetTheorems, TLAPS

USE BoundsAssumption, ModesAssumption, SettingsAssumption, SymbolsAssumption

\* The steps have distinct names; the mandatory ones are enabled.
LEMMA StepFacts ==
  /\ \A n \in 1..6 : StepName[n] \in StepNames
  /\ \A m, n \in 1..6 : StepName[m] = StepName[n] => m = n
  /\ StepName[1] = "krx_shadow" /\ StepName[2] = "symbols" /\ StepName[3] = "benchmarks"
  /\ StepName[4] = "prices" /\ StepName[5] = "validation" /\ StepName[6] = "rs"
  /\ Enabled \subseteq 1..6 /\ {2, 3, 4, 6} \subseteq Enabled
  /\ 5 \in Enabled <=> "validation" \in EnabledSteps
<1>1. /\ StepName[1] = "krx_shadow" /\ StepName[2] = "symbols"
      /\ StepName[3] = "benchmarks" /\ StepName[4] = "prices"
      /\ StepName[5] = "validation" /\ StepName[6] = "rs"
  BY DEF StepName
<1>2. \A n \in 1..6 : n = 1 \/ n = 2 \/ n = 3 \/ n = 4 \/ n = 5 \/ n = 6
  OBVIOUS
<1>3. \A m, n \in 1..6 : StepName[m] = StepName[n] => m = n
  BY <1>1, <1>2
<1>4. /\ Enabled \subseteq 1..6 /\ {2, 3, 4, 6} \subseteq Enabled
      /\ 5 \in Enabled <=> "validation" \in EnabledSteps
  BY <1>1, StepsAssumption DEF Enabled
<1>5. \A n \in 1..6 : StepName[n] \in StepNames
  BY DEF StepNames
<1>6. QED
  BY <1>1, <1>3, <1>4, <1>5

\* A row is not the missing row.
LEMMA NilIsNoRow ==
  /\ Nil \notin TargetRecord /\ Nil \notin RsRun /\ Nil \notin Score
  /\ \A c, d, e : [cites |-> c, day |-> d, enforced |-> e] # Nil
<1>1. "none" \in DOMAIN Nil
  BY DEF Nil
<1>2. /\ \A r \in TargetRecord : "none" \notin DOMAIN r
      /\ \A r \in RsRun : "none" \notin DOMAIN r
      /\ \A r \in Score : "none" \notin DOMAIN r
  BY DEF TargetRecord, RsRun, Score
<1>3. \A c, d, e : "none" \notin DOMAIN [cites |-> c, day |-> d, enforced |-> e]
  OBVIOUS
<1>4. QED
  BY <1>1, <1>2, <1>3

\* Writing one checkpoint of the job changes no other.
LEMMA SetCheckpoint ==
  ASSUME TypeOK, job \in Jobs, NEW n \in 1..6, NEW v \in CheckpointStatus,
         checkpoint' = [checkpoint EXCEPT ![job][StepName[n]] = v]
  PROVE  /\ checkpoint' \in [Jobs -> [StepNames -> CheckpointStatus]]
         /\ checkpoint'[job][StepName[n]] = v
         /\ \A m \in 1..6 : m # n => checkpoint'[job][StepName[m]] = checkpoint[job][StepName[m]]
         /\ \A j \in Jobs : j # job => checkpoint'[j] = checkpoint[j]
<1>1. checkpoint \in [Jobs -> [StepNames -> CheckpointStatus]]
  BY DEF TypeOK
<1>2. checkpoint[job] \in [StepNames -> CheckpointStatus]
  BY <1>1
<1>3. checkpoint' = [checkpoint EXCEPT ![job] = [checkpoint[job] EXCEPT ![StepName[n]] = v]]
  OBVIOUS
<1>4. [checkpoint[job] EXCEPT ![StepName[n]] = v] \in [StepNames -> CheckpointStatus]
  BY <1>2
<1>5. checkpoint'[job] = [checkpoint[job] EXCEPT ![StepName[n]] = v]
  BY <1>1, <1>3
<1>6. \A m \in 1..6 : m # n => StepName[m] # StepName[n]
  BY StepFacts
<1>7. QED
  BY <1>1, <1>2, <1>3, <1>4, <1>5, <1>6, StepFacts

\* Steps keep their order when the process writes the checkpoint of its step.
LEMMA OrderKept ==
  ASSUME BatchInv, pc # "idle", NEW v \in CheckpointStatus,
         checkpoint' = [checkpoint EXCEPT ![job][StepName[step]] = v]
  PROVE  CheckpointsInOrder'
<1> DEFINE At(j, n) == checkpoint[j][StepName[n]]
<1>1. /\ TypeOK /\ job \in Jobs /\ step \in 1..6
      /\ \A n \in Enabled : n < step => At(job, n) \in Done
      /\ \A n \in 1..6 : n > step => At(job, n) = "pending"
      /\ CheckpointsInOrder
  BY DEF BatchInv, ProcessHasJob, StepsSoFar, TypeOK
<1>2. /\ \A m \in 1..6 : m # step => checkpoint'[job][StepName[m]] = At(job, m)
      /\ \A j \in Jobs : j # job => checkpoint'[j] = checkpoint[j]
  BY <1>1, SetCheckpoint
<1>3. SUFFICES ASSUME NEW j \in Jobs, NEW n \in Enabled, NEW m \in Enabled, m < n,
                      checkpoint'[j][StepName[n]] \notin {"absent", "pending"}
               PROVE  checkpoint'[j][StepName[m]] \in Done
  BY DEF CheckpointsInOrder, Enabled
<1>4. n \in 1..6 /\ m \in 1..6
  BY StepFacts
<1>5. CASE j # job
  BY <1>1, <1>2, <1>3, <1>5 DEF CheckpointsInOrder
<1>6. CASE j = job
  <2>1. n <= step
    BY <1>1, <1>2, <1>3, <1>4, <1>6
  <2>2. m < step /\ m # step
    BY <1>1, <1>3, <1>4, <2>1
  <2>3. QED
    BY <1>1, <1>2, <1>4, <1>6, <2>2
<1>7. QED
  BY <1>5, <1>6

-----------------------------------------------------------------------------
(* BatchInv in two parts: what the tables say, what the process remembers. *)

TablesInv ==
  /\ AbsentJobsAreEmpty /\ CheckpointsInOrder /\ CheckpointIsBacked /\ CompletedJobIsWhole
  /\ EnforcedRsWasValidated /\ ScoresHaveLineage /\ RecordedDayIsStored

ProcessInv ==
  /\ ProcessHasJob /\ StepsSoFar /\ RunsSoFar /\ TargetsSoFar /\ GateSoFar

LEMMA InvParts == BatchInv <=> TypeOK /\ TablesInv /\ ProcessInv
BY DEF BatchInv, TablesInv, ProcessInv

rows == <<stored, jobStatus, checkpoint, record, validation, rsRun, score>>

\* A step that writes none of these tables keeps what they say.
LEMMA TablesKept ==
  ASSUME TablesInv, UNCHANGED rows
  PROVE  TablesInv'
<1>1. AbsentJobsAreEmpty' /\ CheckpointsInOrder'
  BY DEF TablesInv, rows, AbsentJobsAreEmpty, CheckpointsInOrder
<1>2. CheckpointIsBacked' /\ CompletedJobIsWhole'
  BY DEF TablesInv, rows, CheckpointIsBacked, CompletedJobIsWhole
<1>3. EnforcedRsWasValidated'
  BY DEF TablesInv, rows, EnforcedRsWasValidated, Passed
<1>4. ScoresHaveLineage' /\ RecordedDayIsStored'
  BY DEF TablesInv, rows, ScoresHaveLineage, RecordedDayIsStored
<1>5. QED
  BY <1>1, <1>2, <1>3, <1>4 DEF TablesInv

\* An idle process remembers nothing that could be wrong.
LEMMA IdleRemembersNothing ==
  ASSUME RunsSoFar, pc' = "idle", UNCHANGED <<checkpoint, rsRun>>
  PROVE  ProcessInv'
BY DEF ProcessInv, ProcessHasJob, StepsSoFar, RunsSoFar, TargetsSoFar, GateSoFar

\* Exit keeps the types of the process.
LEMMA ExitType ==
  ASSUME TypeOK, Exit, UNCHANGED <<day, active, stored, checkpoint, record, failures,
                                   validation, rsRun, score>>,
         jobStatus' \in [Jobs -> JobStatus]
  PROVE  TypeOK'
<1>1. cited' \in [run : Nat, day : 0..MaxDay]
  BY DEF Exit, NoCitation
<1>2. /\ pc' \in {"idle", "start", "execute", "rs", "complete", "block", "finish", "fail", "abandon"}
      /\ job' \in 0..MaxJobs /\ step' \in 1..6 /\ today' \in 0..MaxDay
  BY DEF Exit
<1>3. /\ enforce' \in BOOLEAN /\ unsuccessful' \in BOOLEAN /\ degraded' \in BOOLEAN
      /\ wouldBlock' \in BOOLEAN /\ withErrors' \in BOOLEAN
  BY Zenon DEF Exit
<1>4. QED
  BY <1>1, <1>2, <1>3 DEF TypeOK

LEMMA InitInv == Init => BatchInv
<1> SUFFICES ASSUME Init PROVE BatchInv
  OBVIOUS
<1>1. TypeOK
  <2>1. /\ "absent" \in JobStatus /\ "absent" \in CheckpointStatus
    BY DEF JobStatus, CheckpointStatus
  <2>2. /\ jobStatus \in [Jobs -> JobStatus]
        /\ checkpoint \in [Jobs -> [StepNames -> CheckpointStatus]]
        /\ stored \in [Symbols -> 0..MaxDay]
    BY <2>1 DEF Init
  <2>3. /\ record \in [Jobs -> [Symbols -> TargetRecord \cup {Nil}]]
        /\ rsRun \in [Jobs -> RsRun \cup {Nil}]
        /\ score \in [Symbols -> [Days -> Score \cup {Nil}]]
        /\ failures \in [Jobs -> SUBSET {"WARNING", "ERROR"}]
        /\ validation \in [Jobs -> Seq(ValidationRun)]
    BY DEF Init
  <2>4. cited \in [run : Nat, day : 0..MaxDay]
    BY DEF Init, NoCitation
  <2>5. /\ day \in Days /\ active \subseteq Symbols
        /\ job \in 0..MaxJobs /\ step \in 1..6 /\ today \in 0..MaxDay
        /\ pc = "idle"
    BY DEF Init, Days
  <2>6. /\ enforce \in BOOLEAN /\ unsuccessful \in BOOLEAN /\ degraded \in BOOLEAN
        /\ wouldBlock \in BOOLEAN /\ withErrors \in BOOLEAN
    BY Zenon DEF Init
  <2>7. QED
    BY <2>2, <2>3, <2>4, <2>5, <2>6 DEF TypeOK
<1>2. TablesInv
  BY StepFacts DEF Init, TablesInv, AbsentJobsAreEmpty, CheckpointsInOrder, CheckpointIsBacked,
         CompletedJobIsWhole, EnforcedRsWasValidated, ScoresHaveLineage, RecordedDayIsStored, Done
<1>3. ProcessInv
  BY StepFacts DEF Init, ProcessInv, ProcessHasJob, StepsSoFar, RunsSoFar, TargetsSoFar, GateSoFar
<1>4. QED
  BY <1>1, <1>2, <1>3 DEF BatchInv, TablesInv, ProcessInv

-----------------------------------------------------------------------------
(* Actions that write no table.                                            *)

LEMMA CrashInv == BatchInv /\ Crash => BatchInv'
<1> SUFFICES ASSUME BatchInv, Crash PROVE BatchInv'
  OBVIOUS
<1>1. UNCHANGED rows /\ TypeOK /\ RunsSoFar /\ TablesInv
  BY InvParts DEF Crash, tables, rows, ProcessInv
<1>2. TypeOK'
  BY <1>1, ExitType DEF Crash, tables, TypeOK
<1>3. ProcessInv'
  BY <1>1, IdleRemembersNothing DEF Crash, Exit, rows
<1>4. QED
  BY <1>1, <1>2, <1>3, TablesKept DEF BatchInv, TablesInv, ProcessInv

LEMMA NextDayInv == BatchInv /\ NextDay => BatchInv'
<1> SUFFICES ASSUME BatchInv, NextDay PROVE BatchInv'
  OBVIOUS
<1>1. TypeOK'
  BY DEF BatchInv, NextDay, TypeOK, tables, process, facts, Days
<1>2. TablesInv'
  BY InvParts, TablesKept DEF NextDay, tables, rows
<1>3. ProcessInv'
  BY DEF BatchInv, NextDay, tables, process, facts, ProcessInv, ProcessHasJob, StepsSoFar,
         RunsSoFar, TargetsSoFar, GateSoFar, Passed
<1>4. QED
  BY <1>1, <1>2, <1>3 DEF BatchInv, TablesInv, ProcessInv

LEMMA SkipStepInv == BatchInv /\ SkipStep => BatchInv'
<1> SUFFICES ASSUME BatchInv, SkipStep PROVE BatchInv'
  OBVIOUS
<1>1. /\ UNCHANGED rows /\ UNCHANGED <<pc, job, today, enforce, wouldBlock, unsuccessful, cited>>
      /\ pc = "start" /\ step' = step + 1 /\ step \in 1..6
  BY DEF BatchInv, SkipStep, tables, facts, rows, TypeOK
<1>2. step \notin Enabled /\ step # 6 /\ step # 4
  BY <1>1, StepFacts DEF SkipStep, Enabled
<1>3. step' \in 1..6
  BY <1>1, <1>2
<1>4. TypeOK'
  BY <1>3 DEF BatchInv, SkipStep, TypeOK, tables, facts
<1>5. TablesInv'
  BY <1>1, InvParts, TablesKept
<1>6. ProcessHasJob' /\ RunsSoFar' /\ TargetsSoFar'
  BY <1>1, <1>2 DEF BatchInv, rows, ProcessHasJob, RunsSoFar, TargetsSoFar
<1>7. StepsSoFar'
  <2>1. \A n \in Enabled : n < step' => n < step
    BY <1>1, <1>2, StepFacts
  <2>2. QED
    BY <1>1, <1>3, <2>1 DEF BatchInv, rows, StepsSoFar
<1>8. GateSoFar'
  <2>1. step = 5 => "validation" \notin EnabledSteps
    BY <1>2, StepFacts
  <2>2. QED
    BY <1>1, <2>1 DEF GateSoFar
<1>9. QED
  BY <1>4, <1>5, <1>6, <1>7, <1>8 DEF BatchInv, TablesInv, ProcessInv

LEMMA RaisesInv == BatchInv /\ Raises => BatchInv'
<1> SUFFICES ASSUME BatchInv, Raises PROVE BatchInv'
  OBVIOUS
<1>1. /\ UNCHANGED rows /\ UNCHANGED <<job, step, today, enforce, wouldBlock, unsuccessful, cited>>
      /\ pc # "idle" /\ pc' \in {"fail", "abandon"}
      /\ pc' = "fail" => pc \in {"execute", "rs", "complete"}
  BY DEF Raises, Goto, AfterError, tables, facts, rows
<1>2. TypeOK'
  BY <1>1 DEF BatchInv, Raises, Goto, TypeOK, tables, facts
<1>3. TablesInv'
  BY <1>1, InvParts, TablesKept
<1>4. ProcessInv'
  BY <1>1 DEF BatchInv, rows, ProcessInv, ProcessHasJob, StepsSoFar, RunsSoFar, TargetsSoFar, GateSoFar
<1>5. QED
  BY <1>2, <1>3, <1>4 DEF BatchInv, TablesInv, ProcessInv

-----------------------------------------------------------------------------
(* Steps 1 to 4.                                                           *)

\* A step before the prices only moves the process to its checkpoint.
LEMMA EarlyStep ==
  ASSUME BatchInv, TypeOK', pc = "execute", pc' = "complete", step \in 1..3,
         UNCHANGED rows, UNCHANGED <<job, step, today, enforce, wouldBlock, cited>>
  PROVE  BatchInv'
<1>1. TablesInv'
  BY InvParts, TablesKept
<1>2. ProcessHasJob' /\ StepsSoFar'
  BY DEF BatchInv, rows, ProcessHasJob, StepsSoFar
<1>3. RunsSoFar' /\ TargetsSoFar' /\ GateSoFar'
  BY DEF BatchInv, rows, RunsSoFar, TargetsSoFar, GateSoFar
<1>4. QED
  BY <1>1, <1>2, <1>3 DEF BatchInv, TablesInv, ProcessInv

\* The step a process executes is the one of that name.
LEMMA ExecutingStep ==
  ASSUME TypeOK, NEW n \in 1..6, Executing(StepName[n])
  PROVE  pc = "execute" /\ step = n
BY StepFacts DEF Executing, TypeOK

LEMMA SyncKrxUniverseInv == BatchInv /\ SyncKrxUniverse => BatchInv'
<1> SUFFICES ASSUME BatchInv, SyncKrxUniverse PROVE BatchInv'
  OBVIOUS
<1>1. pc = "execute" /\ step = 1
  BY ExecutingStep, StepFacts DEF BatchInv, SyncKrxUniverse
<1>2. UNCHANGED rows /\ UNCHANGED <<job, step, today, enforce, unsuccessful, wouldBlock, cited>>
      /\ UNCHANGED <<day, active, failures>> /\ pc' = "complete"
  BY DEF SyncKrxUniverse, Goto, tables, rows
<1>3. degraded' \in BOOLEAN /\ withErrors' \in BOOLEAN
  BY Zenon DEF BatchInv, TypeOK, SyncKrxUniverse
<1>4. TypeOK'
  BY <1>2, <1>3 DEF BatchInv, TypeOK, rows
<1>5. QED
  BY <1>1, <1>2, <1>4, EarlyStep

LEMMA SyncSymbolsInv == BatchInv /\ SyncSymbols => BatchInv'
<1> SUFFICES ASSUME BatchInv, SyncSymbols PROVE BatchInv'
  OBVIOUS
<1>1. pc = "execute" /\ step = 2
  BY ExecutingStep, StepFacts DEF BatchInv, SyncSymbols
<1>2. UNCHANGED rows /\ UNCHANGED <<job, step, today, enforce, unsuccessful, wouldBlock, cited>>
      /\ UNCHANGED <<day, failures>> /\ pc' = "complete"
  BY DEF SyncSymbols, Goto, rows
<1>3. degraded' \in BOOLEAN /\ withErrors' \in BOOLEAN
  BY Zenon DEF BatchInv, TypeOK, SyncSymbols
<1>4. active' \subseteq Symbols
  BY DEF BatchInv, TypeOK, SyncSymbols
<1>5. TypeOK'
  BY <1>2, <1>3, <1>4 DEF BatchInv, TypeOK, rows
<1>6. QED
  BY <1>1, <1>2, <1>5, EarlyStep

LEMMA SyncBenchmarksInv == BatchInv /\ SyncBenchmarks => BatchInv'
<1> SUFFICES ASSUME BatchInv, SyncBenchmarks PROVE BatchInv'
  OBVIOUS
<1>1. pc = "execute" /\ step = 3
  BY ExecutingStep, StepFacts DEF BatchInv, SyncBenchmarks
<1>2. UNCHANGED rows /\ UNCHANGED facts /\ UNCHANGED <<job, step, today, enforce>>
      /\ UNCHANGED <<day, active, failures>> /\ pc' = "complete"
  BY DEF SyncBenchmarks, Goto, tables, rows
<1>3. TypeOK'
  BY <1>2 DEF BatchInv, TypeOK, rows, facts
<1>4. QED
  BY <1>1, <1>2, <1>3, EarlyStep DEF facts

\* What storing the results of some targets of a job does.
LEMMA StoreResultsEffect ==
  ASSUME TypeOK, RecordedDayIsStored, NEW j \in Jobs, NEW targets \in SUBSET Symbols,
         NEW limit, NEW results \in [targets -> Results],
         \A s \in targets : results[s] \in TargetResults(s, limit),
         \A s \in targets : record[j][s] # Nil => record[j][s].attempts < MaxAttempts,
         StoreResults(j, targets, results)
  PROVE  /\ stored' \in [Symbols -> 0..MaxDay]
         /\ record' \in [Jobs -> [Symbols -> TargetRecord \cup {Nil}]]
         /\ failures' \in [Jobs -> SUBSET {"WARNING", "ERROR"}]
         /\ \A i \in Jobs : i # j => record'[i] = record[i]
         /\ \A s \in Symbols \ targets : record'[j][s] = record[j][s]
         /\ \A s \in targets : \/ record'[j][s] = record[j][s]
                               \/ record'[j][s].status = results[s].status
         /\ RecordedDayIsStored'
<1>1. PICK recorded \in SUBSET targets :
        record' = [record EXCEPT ![j] = [s \in Symbols |->
                     IF s \in recorded THEN TargetRecordOf(@[s], results[s]) ELSE @[s]]]
  BY DEF StoreResults
<1>2. record \in [Jobs -> [Symbols -> TargetRecord \cup {Nil}]] /\ stored \in [Symbols -> 0..MaxDay]
  BY DEF TypeOK
<1>3. /\ \A i \in Jobs : i # j => record'[i] = record[i]
      /\ record'[j] = [s \in Symbols |-> IF s \in recorded
                          THEN TargetRecordOf(record[j][s], results[s]) ELSE record[j][s]]
  BY <1>1, <1>2
<1>4. \A s \in targets : results[s] \in Results
  OBVIOUS
<1>5. \A s \in targets : results[s].status \in TargetStatus /\ results[s].latest \in 0..MaxDay
  BY <1>4 DEF Results
<1>6. stored' = [s \in Symbols |-> IF s \in targets THEN results[s].latest ELSE stored[s]]
  BY DEF StoreResults
<1>7. stored' \in [Symbols -> 0..MaxDay]
  BY <1>2, <1>5, <1>6
<1>8. \A s \in Symbols : stored[s] <= stored'[s]
  <2>1. TAKE s \in Symbols
  <2>2. CASE s \notin targets
    BY <1>2, <1>6, <2>2
  <2>3. CASE s \in targets
    <3>1. results[s].latest = stored[s] \/ results[s].latest >= stored[s]
      BY <2>3 DEF TargetResults
    <3>2. QED
      BY <1>2, <1>5, <1>6, <2>3, <3>1
  <2>4. QED
    BY <2>2, <2>3
<1>9. ASSUME NEW s \in targets
      PROVE  /\ TargetRecordOf(record[j][s], results[s]) \in TargetRecord
             /\ TargetRecordOf(record[j][s], results[s]).status = results[s].status
             /\ TargetRecordOf(record[j][s], results[s]).day = results[s].latest
  <2>1. record[j][s] = Nil \/ record[j][s] \in TargetRecord
    BY <1>2
  <2>2. (IF record[j][s] = Nil THEN 1 ELSE record[j][s].attempts + 1) \in 1..MaxAttempts
    <3>1. CASE record[j][s] = Nil
      BY <3>1
    <3>2. CASE record[j][s] # Nil
      <4>1. record[j][s].attempts \in 1..MaxAttempts /\ record[j][s].attempts < MaxAttempts
        BY <2>1, <3>2 DEF TargetRecord
      <4>2. QED
        BY <3>2, <4>1
    <3>3. QED
      BY <3>1, <3>2
  <2>3. QED
    BY <1>5, <2>2 DEF TargetRecordOf, TargetRecord
<1>10. record'[j] \in [Symbols -> TargetRecord \cup {Nil}]
  BY <1>2, <1>3, <1>9
<1>11. record' \in [Jobs -> [Symbols -> TargetRecord \cup {Nil}]]
  BY <1>1, <1>2, <1>3, <1>10
<1>12. \A s \in Symbols \ recorded : record'[j][s] = record[j][s]
  BY <1>3
<1>13. \A s \in recorded : /\ record'[j][s].status = results[s].status
                           /\ record'[j][s].day = stored'[s]
  BY <1>3, <1>6, <1>9
<1>14. RecordedDayIsStored'
  <2>1. SUFFICES ASSUME NEW i \in Jobs, NEW s \in Symbols, record'[i][s] # Nil
                 PROVE  record'[i][s].day <= stored'[s]
    BY DEF RecordedDayIsStored
  <2>2. CASE i = j /\ s \in recorded
    BY <1>7, <1>13, <2>2
  <2>3. CASE ~(i = j /\ s \in recorded)
    <3>1. record'[i][s] = record[i][s]
      BY <1>3, <1>12, <2>3
    <3>2. record[i][s].day <= stored[s] /\ record[i][s].day \in 0..MaxDay
      BY <1>2, <2>1, <3>1 DEF RecordedDayIsStored, TargetRecord
    <3>3. QED
      BY <1>2, <1>7, <1>8, <3>1, <3>2
  <2>4. QED
    BY <2>2, <2>3
<1>15. failures' \in [Jobs -> SUBSET {"WARNING", "ERROR"}]
  <2>1. PICK severities \in SUBSET {"WARNING", "ERROR"} :
          failures' = [failures EXCEPT ![j] = @ \cup severities]
    BY DEF StoreResults
  <2>2. failures \in [Jobs -> SUBSET {"WARNING", "ERROR"}]
    BY DEF TypeOK
  <2>3. QED
    BY <2>1, <2>2
<1>16. QED
  BY <1>3, <1>7, <1>11, <1>12, <1>13, <1>14, <1>15

LEMMA SyncPricesInv == BatchInv /\ SyncPrices => BatchInv'
<1> SUFFICES ASSUME BatchInv, SyncPrices PROVE BatchInv'
  OBVIOUS
<1>1. pc = "execute" /\ step = 4 /\ pc' = "complete"
  BY ExecutingStep, StepFacts DEF BatchInv, SyncPrices, Goto
<1>2. job \in Jobs /\ jobStatus[job] = "running" /\ active \in SUBSET Symbols
  BY <1>1 DEF BatchInv, ProcessHasJob, TypeOK
<1>3. \A s \in Symbols : record[job][s] = Nil
  BY <1>1 DEF BatchInv, TargetsSoFar
<1>4. PICK results \in [active -> Results] :
        /\ \A s \in active : results[s] \in TargetResults(s, today)
        /\ StoreResults(job, active, results)
        /\ unsuccessful' = (Unsuccessful(active, results) # {})
        /\ withErrors' = unsuccessful'
  BY DEF SyncPrices
<1>5. UNCHANGED <<day, active, jobStatus, checkpoint, validation, rsRun, score, job, step,
                  today, enforce, degraded, wouldBlock, cited>>
  BY DEF SyncPrices, Goto
<1>6. /\ stored' \in [Symbols -> 0..MaxDay]
      /\ record' \in [Jobs -> [Symbols -> TargetRecord \cup {Nil}]]
      /\ failures' \in [Jobs -> SUBSET {"WARNING", "ERROR"}]
      /\ \A i \in Jobs : i # job => record'[i] = record[i]
      /\ \A s \in Symbols \ active : record'[job][s] = record[job][s]
      /\ \A s \in active : \/ record'[job][s] = record[job][s]
                           \/ record'[job][s].status = results[s].status
      /\ RecordedDayIsStored'
  BY <1>2, <1>3, <1>4, StoreResultsEffect DEF BatchInv
<1>7. TypeOK'
  <2>1. unsuccessful' \in BOOLEAN /\ withErrors' \in BOOLEAN
    BY <1>4, Zenon
  <2>2. QED
    BY <1>1, <1>5, <1>6, <2>1 DEF BatchInv, TypeOK
<1>8. AbsentJobsAreEmpty' /\ CompletedJobIsWhole'
  <2>1. \A i \in Jobs : jobStatus[i] # "running" => record'[i] = record[i]
    BY <1>2, <1>6
  <2>2. AbsentJobsAreEmpty'
    BY <1>5, <2>1 DEF BatchInv, AbsentJobsAreEmpty
  <2>3. CompletedJobIsWhole'
    BY <1>5, <2>1 DEF BatchInv, CompletedJobIsWhole
  <2>4. QED
    BY <2>2, <2>3
<1>9. /\ CheckpointsInOrder' /\ CheckpointIsBacked' /\ ScoresHaveLineage'
      /\ EnforcedRsWasValidated'
  BY <1>5 DEF BatchInv, CheckpointsInOrder, CheckpointIsBacked, ScoresHaveLineage,
              EnforcedRsWasValidated, Passed
<1>10. ProcessHasJob' /\ StepsSoFar' /\ RunsSoFar' /\ GateSoFar'
  BY <1>1, <1>5 DEF BatchInv, ProcessHasJob, StepsSoFar, RunsSoFar, GateSoFar
<1>11. TargetsSoFar'
  <2>1. ASSUME ~unsuccessful', NEW s \in Symbols, record'[job][s] # Nil
        PROVE  record'[job][s].status \notin {"failed", "partial"}
    <3>1. s \in active /\ record'[job][s].status = results[s].status
      BY <1>3, <1>6, <2>1
    <3>2. s \notin Unsuccessful(active, results)
      BY <1>4, <2>1
    <3>3. QED
      BY <3>1, <3>2 DEF Unsuccessful
  <2>2. QED
    BY <1>1, <1>5, <2>1 DEF TargetsSoFar
<1>12. QED
  BY <1>6, <1>7, <1>8, <1>9, <1>10, <1>11 DEF BatchInv

-----------------------------------------------------------------------------
(* Step 5 and step 6.                                                      *)

\* A run appended to a job's validations keeps the earlier ones.
LEMMA AppendRun ==
  ASSUME validation \in [Jobs -> Seq(ValidationRun)], NEW j \in Jobs, NEW run \in ValidationRun,
         validation' = [validation EXCEPT ![j] = Append(@, run)]
  PROVE  /\ validation' \in [Jobs -> Seq(ValidationRun)]
         /\ validation'[j] # <<>>
         /\ \A i \in Jobs : i # j => validation'[i] = validation[i]
         /\ \A i \in Jobs : Passed(i) => Passed(i)'
         /\ run.status \in {"passed", "passed_with_warnings"} => Passed(j)'
<1>1. validation[j] \in Seq(ValidationRun)
  OBVIOUS
<1>2. validation'[j] = Append(validation[j], run)
  OBVIOUS
<1>3. /\ Append(validation[j], run) \in Seq(ValidationRun)
      /\ Len(Append(validation[j], run)) = Len(validation[j]) + 1
      /\ \A k \in 1..Len(validation[j]) : Append(validation[j], run)[k] = validation[j][k]
      /\ Append(validation[j], run)[Len(validation[j]) + 1] = run
      /\ Len(validation[j]) \in Nat
  BY <1>1
<1>4. \A i \in Jobs : i # j => validation'[i] = validation[i]
  OBVIOUS
<1>5. validation' \in [Jobs -> Seq(ValidationRun)]
  BY <1>3
<1>6. validation'[j] # <<>>
  BY <1>2, <1>3
<1>7. ASSUME NEW i \in Jobs, Passed(i)
      PROVE  Passed(i)'
  <2>1. CASE i # j
    BY <1>4, <1>7, <2>1 DEF Passed
  <2>2. CASE i = j
    BY <1>2, <1>3, <1>7, <2>2 DEF Passed
  <2>3. QED
    BY <2>1, <2>2
<1>8. ASSUME run.status \in {"passed", "passed_with_warnings"}
      PROVE  Passed(j)'
  BY <1>2, <1>3, <1>8 DEF Passed
<1>9. QED
  BY <1>4, <1>5, <1>6, <1>7, <1>8

\* What a validation may write is a run, and it passed unless it would block.
LEMMA ValidationRunType ==
  ASSUME NEW rec, NEW prices, NEW failed, NEW run \in ValidationRuns(rec, prices, failed)
  PROVE  /\ run \in ValidationRun
         /\ ~WouldBlock(run.status) => run.status \in {"passed", "passed_with_warnings"}
BY DEF ValidationRuns, ValidationRun, WouldBlock, Verdicts

LEMMA ValidateCrawlJobInv == BatchInv /\ ValidateCrawlJob => BatchInv'
<1> SUFFICES ASSUME BatchInv, ValidateCrawlJob PROVE BatchInv'
  OBVIOUS
<1>1. pc = "execute" /\ step = 5 /\ pc' = "complete"
  BY ExecutingStep, StepFacts DEF BatchInv, ValidateCrawlJob, Goto
<1>2. job \in Jobs /\ jobStatus[job] = "running" /\ validation \in [Jobs -> Seq(ValidationRun)]
  BY <1>1 DEF BatchInv, ProcessHasJob, TypeOK
<1>3. PICK run \in ValidationRuns(record[job], stored, failures[job]) :
        /\ validation' = [validation EXCEPT ![job] = Append(@, run)]
        /\ wouldBlock' = WouldBlock(run.status)
        /\ withErrors' = (run.status # "passed")
  BY DEF ValidateCrawlJob
<1>4. UNCHANGED <<day, active, stored, jobStatus, checkpoint, record, failures, rsRun, score,
                  job, step, today, enforce, unsuccessful, degraded, cited>>
  BY DEF ValidateCrawlJob, Goto
<1>5. /\ run \in ValidationRun
      /\ ~WouldBlock(run.status) => run.status \in {"passed", "passed_with_warnings"}
  BY ValidationRunType
<1>6. /\ validation' \in [Jobs -> Seq(ValidationRun)]
      /\ validation'[job] # <<>>
      /\ \A i \in Jobs : i # job => validation'[i] = validation[i]
      /\ \A i \in Jobs : Passed(i) => Passed(i)'
      /\ run.status \in {"passed", "passed_with_warnings"} => Passed(job)'
  BY <1>2, <1>3, <1>4, <1>5, AppendRun DEF Passed
<1>7. TypeOK'
  <2>1. wouldBlock' \in BOOLEAN /\ withErrors' \in BOOLEAN
    <3>1. WouldBlock(run.status) \in BOOLEAN /\ (run.status # "passed") \in BOOLEAN
      BY DEF WouldBlock
    <3>2. QED
      BY <1>3, <3>1, Zenon
  <2>2. QED
    BY <1>1, <1>4, <1>6, <2>1 DEF BatchInv, TypeOK
<1>8. AbsentJobsAreEmpty' /\ CheckpointIsBacked' /\ EnforcedRsWasValidated'
  <2>1. \A i \in Jobs : validation[i] # <<>> => validation'[i] # <<>>
    BY <1>6
  <2>2. AbsentJobsAreEmpty'
    BY <1>2, <1>4, <1>6 DEF BatchInv, AbsentJobsAreEmpty
  <2>3. CheckpointIsBacked'
    BY <1>4, <2>1 DEF BatchInv, CheckpointIsBacked
  <2>4. EnforcedRsWasValidated'
    BY <1>4, <1>6 DEF BatchInv, EnforcedRsWasValidated
  <2>5. QED
    BY <2>2, <2>3, <2>4
<1>9. CheckpointsInOrder' /\ CompletedJobIsWhole' /\ ScoresHaveLineage' /\ RecordedDayIsStored'
  BY <1>4 DEF BatchInv, CheckpointsInOrder, CompletedJobIsWhole, ScoresHaveLineage,
              RecordedDayIsStored
<1>10. ProcessHasJob' /\ StepsSoFar' /\ RunsSoFar' /\ TargetsSoFar'
  BY <1>1, <1>4, <1>6 DEF BatchInv, ProcessHasJob, StepsSoFar, RunsSoFar, TargetsSoFar
<1>11. GateSoFar'
  <2>1. ~wouldBlock' => Passed(job)'
    BY <1>3, <1>5, <1>6
  <2>2. QED
    BY <1>1, <1>4, <2>1 DEF GateSoFar, Passed
<1>12. QED
  BY <1>7, <1>8, <1>9, <1>10, <1>11 DEF BatchInv

LEMMA ReadLatestValidationInv == BatchInv /\ ReadLatestValidation => BatchInv'
<1> SUFFICES ASSUME BatchInv, ReadLatestValidation PROVE BatchInv'
  OBVIOUS
<1>1. pc = "execute" /\ step = 6 /\ pc' = "rs"
  BY ExecutingStep, StepFacts DEF BatchInv, ReadLatestValidation, Goto
<1>2. job \in Jobs /\ day \in Days
  BY <1>1 DEF BatchInv, ProcessHasJob, TypeOK
<1>3. UNCHANGED rows /\ UNCHANGED <<day, active, failures, job, step, today, enforce,
                                   unsuccessful, degraded, wouldBlock, withErrors>>
  BY DEF ReadLatestValidation, Goto, tables, rows
<1>4. cited' \in [run : Nat, day : 0..MaxDay] /\ cited'.day \in Days
  <2>1. validation[job] \in Seq(ValidationRun)
    BY <1>2 DEF BatchInv, TypeOK
  <2>2. Len(validation[job]) \in Nat
    BY <2>1
  <2>3. validation[job] # <<>> => validation[job][Len(validation[job])] \in ValidationRun
    BY <2>1
  <2>4. cited' = [run |-> Len(validation[job]),
                  day |-> IF validation[job] = <<>> \/ validation[job][Len(validation[job])].day = 0
                          THEN day ELSE validation[job][Len(validation[job])].day]
    BY DEF ReadLatestValidation
  <2>5. cited'.day \in Days
    BY <1>2, <2>3, <2>4 DEF ValidationRun, Days
  <2>6. QED
    BY <2>2, <2>4, <2>5 DEF Days
<1>5. TypeOK'
  BY <1>1, <1>3, <1>4 DEF BatchInv, TypeOK, rows
<1>6. TablesInv'
  BY <1>3, InvParts, TablesKept
<1>7. ProcessHasJob' /\ StepsSoFar' /\ RunsSoFar'
  BY <1>1, <1>3, <1>4 DEF BatchInv, rows, ProcessHasJob, StepsSoFar, RunsSoFar
<1>8. TargetsSoFar' /\ GateSoFar'
  BY <1>1, <1>3 DEF BatchInv, rows, TargetsSoFar, GateSoFar, Passed
<1>9. QED
  BY <1>5, <1>6, <1>7, <1>8 DEF BatchInv, TablesInv

\* Saving scores writes well-typed rows of this job under the day d only.
LEMMA SaveScoresEffect ==
  ASSUME TypeOK, job \in Jobs, NEW d \in Days, NEW scored \in SUBSET Symbols,
         NEW rank \in Rankings(scored), score' = SaveScores(scored, rank, d)
  PROVE  /\ score' \in [Symbols -> [Days -> Score \cup {Nil}]]
         /\ \A s \in Symbols, e \in Days :
              \/ score'[s][e] = score[s][e]
              \/ e = d /\ score'[s][e].job = job
<1>1. score \in [Symbols -> [Days -> Score \cup {Nil}]]
  BY DEF TypeOK
<1>2. Cardinality(scored) \in Nat /\ Cardinality(Symbols) \in Nat
      /\ Cardinality(scored) <= Cardinality(Symbols)
  BY FS_Subset, FS_CardinalityType
<1>3. rank \in [scored -> 1..Cardinality(scored)]
  BY DEF Rankings
<1>4. \A s \in scored : [job |-> job, rank |-> rank[s]] \in Score
  <2>1. \A s \in scored : rank[s] \in 1..Cardinality(Symbols)
    BY <1>2, <1>3
  <2>2. QED
    BY <2>1 DEF Score
<1>5. ASSUME NEW s \in Symbols
      PROVE  /\ score'[s] \in [Days -> Score \cup {Nil}]
             /\ \A e \in Days :
                  \/ score'[s][e] = score[s][e]
                  \/ e = d /\ score'[s][e].job = job
  <2>1. score[s] \in [Days -> Score \cup {Nil}]
    BY <1>1
  <2>2. CASE s \in scored
    <3>1. score'[s] = [score[s] EXCEPT ![d] = [job |-> job, rank |-> rank[s]]]
      BY <2>2 DEF SaveScores
    <3>2. QED
      BY <1>4, <2>1, <2>2, <3>1
  <2>3. CASE s \notin scored
    BY <2>1, <2>3 DEF SaveScores
  <2>4. QED
    BY <2>2, <2>3
<1>6. DOMAIN score' = Symbols /\ score' = [s \in Symbols |-> score'[s]]
  BY DEF SaveScores
<1>7. QED
  BY <1>5, <1>6

LEMMA CalculateRsInv == BatchInv /\ CalculateRs => BatchInv'
<1> SUFFICES ASSUME BatchInv, CalculateRs PROVE BatchInv'
  OBVIOUS
<1> DEFINE priced == {s \in active : stored[s] # 0}
<1>1. pc = "rs" /\ step = 6 /\ pc' = "complete" /\ cited.day \in Days
  BY DEF BatchInv, CalculateRs, Goto, StepsSoFar, RunsSoFar
<1>2. /\ job \in Jobs /\ jobStatus[job] = "running" /\ rsRun[job] = Nil /\ day \in Days
      /\ checkpoint[job]["rs"] = "running" /\ TypeOK
  BY <1>1, StepFacts DEF BatchInv, ProcessHasJob, TypeOK, StepsSoFar, RunsSoFar
<1>3. priced \in SUBSET Symbols
  BY <1>2 DEF TypeOK
<1>4. UNCHANGED <<day, active, jobStatus, checkpoint, record, validation, job, step, today,
                  enforce, unsuccessful, degraded, wouldBlock, cited>>
  BY DEF CalculateRs, Goto
<1>5. stored' \in [Symbols -> 0..MaxDay] /\ \A s \in Symbols : stored[s] <= stored'[s]
  <2>1. PICK latest \in [priced -> Days] :
          /\ \A s \in priced : latest[s] \in stored[s]..day
          /\ stored' = [s \in Symbols |-> IF s \in priced THEN latest[s] ELSE stored[s]]
    BY DEF CalculateRs
  <2>2. stored \in [Symbols -> 0..MaxDay] /\ Days \subseteq 0..MaxDay
    BY <1>2 DEF TypeOK, Days
  <2>3. stored' \in [Symbols -> 0..MaxDay]
    BY <2>1, <2>2
  <2>4. \A s \in priced : stored[s] <= latest[s]
    BY <1>3, <2>1, <2>2
  <2>5. QED
    BY <2>1, <2>2, <2>3, <2>4
<1>6. failures' \in [Jobs -> SUBSET {"WARNING", "ERROR"}]
  <2>1. PICK severities \in SUBSET {"WARNING"} :
          failures' = [failures EXCEPT ![job] = @ \cup severities]
    BY DEF CalculateRs
  <2>2. failures \in [Jobs -> SUBSET {"WARNING", "ERROR"}]
    BY <1>2 DEF TypeOK
  <2>3. QED
    BY <1>2, <2>1, <2>2
<1>7. rsRun' = [rsRun EXCEPT ![job] = [cites |-> cited.run, day |-> cited.day, enforced |-> enforce]]
  BY DEF CalculateRs
<1>8. /\ rsRun' \in [Jobs -> RsRun \cup {Nil}]
      /\ rsRun'[job] # Nil /\ rsRun'[job].day = cited.day /\ rsRun'[job].enforced = enforce
      /\ \A j \in Jobs : j # job => rsRun'[j] = rsRun[j]
  <2>1. rsRun \in [Jobs -> RsRun \cup {Nil}] /\ cited.run \in Nat /\ enforce \in BOOLEAN
    BY <1>2 DEF TypeOK
  <2>2. [cites |-> cited.run, day |-> cited.day, enforced |-> enforce] \in RsRun
    BY <1>1, <2>1 DEF RsRun
  <2>3. QED
    BY <1>2, <1>7, <2>1, <2>2, NilIsNoRow
<1>9. /\ score' \in [Symbols -> [Days -> Score \cup {Nil}]]
      /\ \A s \in Symbols, e \in Days :
           \/ score'[s][e] = score[s][e]
           \/ e = cited.day /\ score'[s][e].job = job
  <2>1. PICK scored \in SUBSET priced : \E rank \in Rankings(scored) :
          score' = SaveScores(scored, rank, cited.day)
    BY DEF CalculateRs
  <2>2. scored \in SUBSET Symbols
    BY <1>3, <2>1
  <2>3. QED
    BY <1>1, <1>2, <2>1, <2>2, SaveScoresEffect
<1>10. TypeOK'
  <2>1. withErrors' \in BOOLEAN
    BY Zenon DEF CalculateRs
  <2>2. QED
    BY <1>1, <1>2, <1>4, <1>5, <1>6, <1>8, <1>9, <2>1 DEF TypeOK
<1>11. AbsentJobsAreEmpty' /\ CheckpointsInOrder' /\ CompletedJobIsWhole'
  BY <1>2, <1>4, <1>8 DEF BatchInv, AbsentJobsAreEmpty, CheckpointsInOrder, CompletedJobIsWhole
<1>12. CheckpointIsBacked'
  BY <1>2, <1>4, <1>8 DEF BatchInv, CheckpointIsBacked
<1>13. EnforcedRsWasValidated'
  <2>1. "validation" \in EnabledSteps /\ enforce => Passed(job)
    BY <1>1 DEF BatchInv, GateSoFar
  <2>2. \A j \in Jobs : Passed(j) => Passed(j)'
    BY <1>4 DEF Passed
  <2>3. QED
    BY <1>2, <1>8, <2>1, <2>2 DEF BatchInv, EnforcedRsWasValidated
<1>14. ScoresHaveLineage'
  <2>1. SUFFICES ASSUME NEW s \in Symbols, NEW e \in Days, score'[s][e] # Nil
                 PROVE  rsRun'[score'[s][e].job] # Nil /\ rsRun'[score'[s][e].job].day = e
    BY DEF ScoresHaveLineage
  <2>2. CASE e = cited.day /\ score'[s][e].job = job
    BY <1>8, <2>2
  <2>3. CASE score'[s][e] = score[s][e]
    <3>1. rsRun[score[s][e].job] # Nil /\ rsRun[score[s][e].job].day = e
      BY <2>1, <2>3 DEF BatchInv, ScoresHaveLineage
    <3>2. score[s][e] \in Score
      BY <1>2, <2>1, <2>3 DEF TypeOK
    <3>3. score[s][e].job \in Jobs /\ score[s][e].job # job
      BY <1>2, <3>1, <3>2 DEF Score
    <3>4. QED
      BY <1>8, <2>3, <3>1, <3>3
  <2>4. QED
    BY <1>9, <2>2, <2>3
<1>15. RecordedDayIsStored'
  <2>1. SUFFICES ASSUME NEW j \in Jobs, NEW s \in Symbols, record[j][s] # Nil
                 PROVE  record[j][s].day <= stored'[s]
    BY <1>4 DEF RecordedDayIsStored
  <2>2. record[j][s].day <= stored[s] /\ record[j][s].day \in 0..MaxDay /\ stored[s] \in 0..MaxDay
    BY <1>2, <2>1 DEF BatchInv, RecordedDayIsStored, TypeOK, TargetRecord
  <2>3. QED
    BY <1>5, <2>2
<1>16. ProcessHasJob' /\ StepsSoFar' /\ TargetsSoFar' /\ GateSoFar'
  BY <1>1, <1>4 DEF BatchInv, ProcessHasJob, StepsSoFar, TargetsSoFar, GateSoFar
<1>17. RunsSoFar'
  BY <1>1, <1>2, <1>4, <1>8 DEF BatchInv, RunsSoFar
<1>18. QED
  BY <1>10, <1>11, <1>12, <1>13, <1>14, <1>15, <1>16, <1>17 DEF BatchInv

-----------------------------------------------------------------------------
(* Checkpoints.                                                            *)

\* What the tables say survives a checkpoint that is backed by its step.
LEMMA CheckpointWritten ==
  ASSUME BatchInv, pc # "idle", NEW v \in CheckpointStatus \ {"absent", "pending"},
         checkpoint' = [checkpoint EXCEPT ![job][StepName[step]] = v],
         UNCHANGED <<stored, jobStatus, record, validation, rsRun, score>>,
         step = 5 /\ v \in Done => validation[job] # <<>>,
         step = 6 /\ v \in Done => rsRun[job] # Nil,
         step = 6 /\ v = "blocked" => rsRun[job] = Nil
  PROVE  /\ TablesInv'
         /\ checkpoint' \in [Jobs -> [StepNames -> CheckpointStatus]]
         /\ checkpoint'[job][StepName[step]] = v
         /\ \A m \in 1..6 : m # step => checkpoint'[job][StepName[m]] = checkpoint[job][StepName[m]]
         /\ \A j \in Jobs : checkpoint'[j]["rs"] \in {"absent", "pending"} => rsRun[j] = Nil
<1>1. job \in Jobs /\ jobStatus[job] = "running" /\ step \in 1..6 /\ TypeOK
  BY DEF BatchInv, ProcessHasJob, TypeOK
<1>2. /\ checkpoint' \in [Jobs -> [StepNames -> CheckpointStatus]]
      /\ checkpoint'[job][StepName[step]] = v
      /\ \A m \in 1..6 : m # step => checkpoint'[job][StepName[m]] = checkpoint[job][StepName[m]]
      /\ \A j \in Jobs : j # job => checkpoint'[j] = checkpoint[j]
  BY <1>1, SetCheckpoint
<1>3. CheckpointsInOrder'
  BY OrderKept
<1>4. AbsentJobsAreEmpty' /\ CompletedJobIsWhole'
  <2>1. \A j \in Jobs : jobStatus[j] # "running" => checkpoint'[j] = checkpoint[j]
    BY <1>1, <1>2
  <2>2. AbsentJobsAreEmpty'
    BY <2>1 DEF BatchInv, AbsentJobsAreEmpty
  <2>3. CompletedJobIsWhole'
    BY <2>1 DEF BatchInv, CompletedJobIsWhole
  <2>4. QED
    BY <2>2, <2>3
<1>5. /\ checkpoint'[job]["validation"] = IF step = 5 THEN v ELSE checkpoint[job]["validation"]
      /\ checkpoint'[job]["rs"] = IF step = 6 THEN v ELSE checkpoint[job]["rs"]
  BY <1>2, StepFacts
<1>6. CheckpointIsBacked'
  BY <1>1, <1>2, <1>5 DEF BatchInv, CheckpointIsBacked
<1>7. EnforcedRsWasValidated' /\ ScoresHaveLineage' /\ RecordedDayIsStored'
  BY DEF BatchInv, EnforcedRsWasValidated, Passed, ScoresHaveLineage, RecordedDayIsStored
<1>8. \A j \in Jobs : checkpoint'[j]["rs"] \in {"absent", "pending"} => rsRun[j] = Nil
  BY <1>1, <1>2, <1>5 DEF BatchInv, RunsSoFar
<1>9. QED
  BY <1>2, <1>3, <1>4, <1>6, <1>7, <1>8 DEF TablesInv

LEMMA StatusFacts ==
  /\ {"running", "failed", "blocked", "completed", "completed_with_errors"}
       \subseteq CheckpointStatus \ {"absent", "pending"}
  /\ Done = {"completed", "completed_with_errors"}
BY DEF CheckpointStatus, Done

LEMMA StartStepInv == BatchInv /\ StartStep => BatchInv'
<1> SUFFICES ASSUME BatchInv, StartStep PROVE BatchInv'
  OBVIOUS
<1>1. /\ pc = "start" /\ pc' = "execute" /\ step \in 1..6 /\ step \in Enabled
      /\ checkpoint' = [checkpoint EXCEPT ![job][StepName[step]] = "running"]
      /\ UNCHANGED <<day, active, stored, jobStatus, record, failures, validation, rsRun, score>>
      /\ UNCHANGED <<job, step, today, enforce, unsuccessful, degraded, wouldBlock, cited>>
  BY DEF BatchInv, TypeOK, StartStep, Goto, data, Enabled
<1>2. /\ TablesInv'
      /\ checkpoint' \in [Jobs -> [StepNames -> CheckpointStatus]]
      /\ checkpoint'[job][StepName[step]] = "running"
      /\ \A m \in 1..6 : m # step => checkpoint'[job][StepName[m]] = checkpoint[job][StepName[m]]
      /\ \A j \in Jobs : checkpoint'[j]["rs"] \in {"absent", "pending"} => rsRun[j] = Nil
  BY <1>1, StatusFacts, CheckpointWritten
<1>3. TypeOK'
  <2>1. withErrors' \in BOOLEAN
    BY Zenon DEF StartStep
  <2>2. QED
    BY <1>1, <1>2, <2>1 DEF BatchInv, TypeOK
<1>4. ProcessHasJob' /\ TargetsSoFar' /\ GateSoFar'
  BY <1>1 DEF BatchInv, ProcessHasJob, TargetsSoFar, GateSoFar, Passed
<1>5. StepsSoFar'
  BY <1>1, <1>2, StepFacts DEF BatchInv, StepsSoFar
<1>6. RunsSoFar'
  <2>1. checkpoint[job]["rs"] = "pending" /\ job \in Jobs
    BY <1>1, StepFacts DEF BatchInv, StepsSoFar, ProcessHasJob
  <2>2. rsRun[job] = Nil
    BY <2>1 DEF BatchInv, RunsSoFar
  <2>3. QED
    BY <1>1, <1>2, <2>2 DEF RunsSoFar
<1>7. QED
  BY <1>2, <1>3, <1>4, <1>5, <1>6 DEF BatchInv, TablesInv

LEMMA CompleteStepInv == BatchInv /\ CompleteStep => BatchInv'
<1> SUFFICES ASSUME BatchInv, CompleteStep PROVE BatchInv'
  OBVIOUS
<1> DEFINE v == IF withErrors THEN "completed_with_errors" ELSE "completed"
<1>1. /\ pc = "complete" /\ step \in Enabled /\ step \in 1..6
      /\ checkpoint' = [checkpoint EXCEPT ![job][StepName[step]] = v]
      /\ UNCHANGED <<day, active, stored, jobStatus, record, failures, validation, rsRun, score>>
      /\ UNCHANGED <<job, today, enforce, unsuccessful, degraded, wouldBlock, withErrors, cited>>
  BY DEF BatchInv, TypeOK, StepsSoFar, CompleteStep, data, facts
<1>2. v \in Done /\ v \in CheckpointStatus \ {"absent", "pending"} /\ v # "blocked"
  BY DEF CheckpointStatus, Done
<1>3. /\ TablesInv'
      /\ checkpoint' \in [Jobs -> [StepNames -> CheckpointStatus]]
      /\ checkpoint'[job][StepName[step]] \in Done
      /\ \A m \in 1..6 : m # step => checkpoint'[job][StepName[m]] = checkpoint[job][StepName[m]]
      /\ \A j \in Jobs : checkpoint'[j]["rs"] \in {"absent", "pending"} => rsRun[j] = Nil
  <2>1. /\ step = 5 => validation[job] # <<>>
        /\ step = 6 => rsRun[job] # Nil
    BY <1>1 DEF BatchInv, RunsSoFar
  <2>2. QED
    BY <1>1, <1>2, <2>1, CheckpointWritten
<1>4. /\ step = 6 => pc' = "finish" /\ step' = 6
      /\ step # 6 => step' = step + 1 /\ pc' \in {"start", "block"}
      /\ pc' = "block" <=> step = 5 /\ enforce /\ wouldBlock
      /\ step' \in 1..6
  <2>1. step # 6 => pc' = IF StepName[step] = "validation" /\ enforce /\ wouldBlock
                            THEN "block" ELSE "start"
    BY DEF CompleteStep
  <2>2. StepName[step] = "validation" <=> step = 5
    BY <1>1, StepFacts
  <2>3. step = 6 => pc' = "finish" /\ step' = 6
    BY DEF CompleteStep
  <2>4. step # 6 => step' = step + 1
    BY DEF CompleteStep
  <2>5. QED
    BY <1>1, <2>1, <2>2, <2>3, <2>4
<1>5. TypeOK'
  BY <1>1, <1>3, <1>4 DEF BatchInv, TypeOK
<1>6. ProcessHasJob'
  BY <1>1 DEF BatchInv, ProcessHasJob
<1>7. StepsSoFar'
  <2>1. \A n \in Enabled : n <= step => checkpoint'[job][StepName[n]] \in Done
    BY <1>1, <1>3, StepFacts DEF BatchInv, StepsSoFar
  <2>2. \A n \in 1..6 : n > step => checkpoint'[job][StepName[n]] = "pending"
    BY <1>1, <1>3 DEF BatchInv, StepsSoFar
  <2>3. \A n \in Enabled : n < step' => n <= step
    BY <1>1, <1>4, StepFacts
  <2>4. step # 6 => checkpoint'[job][StepName[step']] = "pending"
    BY <1>1, <1>4, <2>2
  <2>5. step = 6 => checkpoint'[job]["rs"] \in Done
    BY <1>3, StepFacts
  <2>6. pc' = "block" => step' = 6 /\ checkpoint'[job]["rs"] = "pending" /\ enforce /\ wouldBlock
    BY <1>4, <2>4, StepFacts
  <2>7. \A n \in 1..6 : n > step' => checkpoint'[job][StepName[n]] = "pending"
    BY <1>1, <1>4, <2>2
  <2>8. pc' \in {"start", "block", "finish"} /\ (pc' = "finish" => step' = 6 /\ step = 6)
        /\ (pc' = "start" => step # 6)
    BY <1>1, <1>4
  <2>9. QED
    BY <1>1, <2>1, <2>3, <2>4, <2>5, <2>6, <2>7, <2>8 DEF StepsSoFar
<1>8. RunsSoFar' /\ TargetsSoFar'
  <2>1. RunsSoFar'
    BY <1>1, <1>3, <1>4 DEF RunsSoFar
  <2>2. TargetsSoFar'
    BY <1>1, <1>4 DEF BatchInv, TargetsSoFar
  <2>3. QED
    BY <2>1, <2>2
<1>9. GateSoFar'
  <2>1. ASSUME "validation" \in EnabledSteps, pc' = "start", step' = 6, enforce
        PROVE  Passed(job)
    <3>1. step = 5 /\ ~wouldBlock
      BY <1>1, <1>4, <2>1
    <3>2. QED
      BY <1>1, <2>1, <3>1 DEF BatchInv, GateSoFar
  <2>2. QED
    BY <1>1, <1>4, <2>1 DEF GateSoFar, Passed
<1>10. QED
  BY <1>3, <1>5, <1>6, <1>7, <1>8, <1>9 DEF BatchInv, TablesInv

LEMMA BlockRsInv == BatchInv /\ BlockRs => BatchInv'
<1> SUFFICES ASSUME BatchInv, BlockRs PROVE BatchInv'
  OBVIOUS
<1>1. /\ pc = "block" /\ pc' = "finish" /\ step = 6 /\ enforce /\ wouldBlock
      /\ checkpoint[job]["rs"] = "pending" /\ job \in Jobs
      /\ checkpoint' = [checkpoint EXCEPT ![job][StepName[step]] = "blocked"]
      /\ UNCHANGED <<day, active, stored, jobStatus, record, failures, validation, rsRun, score>>
      /\ UNCHANGED <<job, step, today, enforce, unsuccessful, degraded, wouldBlock, withErrors, cited>>
  BY StepFacts DEF BatchInv, ProcessHasJob, StepsSoFar, BlockRs, Goto, data, facts
<1>2. rsRun[job] = Nil
  BY <1>1 DEF BatchInv, RunsSoFar
<1>3. /\ TablesInv'
      /\ checkpoint' \in [Jobs -> [StepNames -> CheckpointStatus]]
      /\ checkpoint'[job][StepName[step]] = "blocked"
      /\ \A m \in 1..6 : m # step => checkpoint'[job][StepName[m]] = checkpoint[job][StepName[m]]
      /\ \A j \in Jobs : checkpoint'[j]["rs"] \in {"absent", "pending"} => rsRun[j] = Nil
  BY <1>1, <1>2, StatusFacts, CheckpointWritten
<1>4. TypeOK'
  BY <1>1, <1>3 DEF BatchInv, TypeOK
<1>5. ProcessHasJob' /\ TargetsSoFar' /\ GateSoFar'
  BY <1>1 DEF BatchInv, ProcessHasJob, TargetsSoFar, GateSoFar
<1>6. StepsSoFar'
  BY <1>1, <1>3, StepFacts DEF BatchInv, StepsSoFar
<1>7. RunsSoFar'
  BY <1>1, <1>3 DEF RunsSoFar
<1>8. QED
  BY <1>3, <1>4, <1>5, <1>6, <1>7 DEF BatchInv, TablesInv

LEMMA FailStepInv == BatchInv /\ FailStep => BatchInv'
<1> SUFFICES ASSUME BatchInv, FailStep PROVE BatchInv'
  OBVIOUS
<1>1. /\ pc = "fail" /\ pc' = "abandon" /\ step \in 1..6
      /\ checkpoint' = [checkpoint EXCEPT ![job][StepName[step]] = "failed"]
      /\ UNCHANGED <<day, active, stored, jobStatus, record, failures, validation, rsRun, score>>
      /\ UNCHANGED <<job, step, today, enforce, unsuccessful, degraded, wouldBlock, withErrors, cited>>
  BY DEF BatchInv, TypeOK, FailStep, Goto, data, facts
<1>2. /\ TablesInv'
      /\ checkpoint' \in [Jobs -> [StepNames -> CheckpointStatus]]
      /\ \A m \in 1..6 : m # step => checkpoint'[job][StepName[m]] = checkpoint[job][StepName[m]]
      /\ \A j \in Jobs : checkpoint'[j]["rs"] \in {"absent", "pending"} => rsRun[j] = Nil
  BY <1>1, StatusFacts, CheckpointWritten
<1>3. TypeOK'
  BY <1>1, <1>2 DEF BatchInv, TypeOK
<1>4. ProcessHasJob' /\ TargetsSoFar' /\ GateSoFar'
  BY <1>1 DEF BatchInv, ProcessHasJob, TargetsSoFar, GateSoFar
<1>5. StepsSoFar'
  <2>1. \A n \in Enabled : n < step => n \in 1..6 /\ n # step
    BY <1>1, StepFacts
  <2>2. \A n \in 1..6 : n > step => n # step
    BY <1>1
  <2>3. QED
    BY <1>1, <1>2, <2>1, <2>2 DEF BatchInv, StepsSoFar
<1>6. RunsSoFar'
  BY <1>1, <1>2 DEF RunsSoFar
<1>7. QED
  BY <1>2, <1>3, <1>4, <1>5, <1>6 DEF BatchInv, TablesInv

-----------------------------------------------------------------------------
(* The job's end and beginning.                                            *)

\* An outcome is written over "running" only, and "completed" with reason.
LEMMA OutcomeWritten ==
  ASSUME BatchInv, pc # "idle", Exit, NEW outcome \in {"completed", "completed_with_errors", "failed"},
         jobStatus' = [jobStatus EXCEPT ![job] = outcome],
         UNCHANGED <<day, active, stored, checkpoint, record, failures, validation, rsRun, score>>,
         outcome = "completed" =>
           /\ \A n \in Enabled : checkpoint[job][StepName[n]] \in Done
           /\ \A s \in Symbols :
                record[job][s] # Nil => record[job][s].status \notin {"failed", "partial"}
  PROVE  BatchInv'
<1>1. job \in Jobs /\ jobStatus[job] = "running" /\ jobStatus \in [Jobs -> JobStatus] /\ TypeOK
  BY DEF BatchInv, ProcessHasJob, TypeOK
<1>2. /\ jobStatus' \in [Jobs -> JobStatus]
      /\ jobStatus'[job] = outcome
      /\ \A j \in Jobs : j # job => jobStatus'[j] = jobStatus[j]
  BY <1>1 DEF JobStatus
<1>3. TypeOK'
  BY <1>1, <1>2, ExitType
<1>4. AbsentJobsAreEmpty'
  BY <1>1, <1>2 DEF BatchInv, AbsentJobsAreEmpty
<1>5. CompletedJobIsWhole'
  BY <1>2 DEF BatchInv, CompletedJobIsWhole
<1>6. /\ CheckpointsInOrder' /\ CheckpointIsBacked' /\ ScoresHaveLineage'
      /\ EnforcedRsWasValidated' /\ RecordedDayIsStored'
  BY DEF BatchInv, CheckpointsInOrder, CheckpointIsBacked, ScoresHaveLineage,
         EnforcedRsWasValidated, Passed, RecordedDayIsStored
<1>7. ProcessInv'
  BY IdleRemembersNothing DEF BatchInv, Exit
<1>8. QED
  BY <1>3, <1>4, <1>5, <1>6, <1>7 DEF BatchInv, ProcessInv

LEMMA FinishJobInv == BatchInv /\ FinishJob => BatchInv'
<1> SUFFICES ASSUME BatchInv, FinishJob PROVE BatchInv'
  OBVIOUS
<1> DEFINE outcome == IF unsuccessful \/ degraded \/ (enforce /\ wouldBlock)
                        THEN "completed_with_errors" ELSE "completed"
<1>1. /\ pc = "finish" /\ Exit /\ jobStatus' = [jobStatus EXCEPT ![job] = outcome]
      /\ UNCHANGED <<day, active, stored, checkpoint, record, failures, validation, rsRun, score>>
  BY DEF FinishJob, data
<1>2. ASSUME outcome = "completed"
      PROVE  /\ \A n \in Enabled : checkpoint[job][StepName[n]] \in Done
             /\ \A s \in Symbols :
                  record[job][s] # Nil => record[job][s].status \notin {"failed", "partial"}
  <2>1. ~unsuccessful /\ ~(enforce /\ wouldBlock)
    BY <1>2
  <2>2. step = 6 /\ checkpoint[job]["rs"] \in Done
    BY <1>1, <2>1 DEF BatchInv, StepsSoFar
  <2>3. \A n \in Enabled : n < 6 \/ n = 6
    BY StepFacts
  <2>4. \A n \in Enabled : checkpoint[job][StepName[n]] \in Done
    BY <1>1, <2>2, <2>3, StepFacts DEF BatchInv, StepsSoFar
  <2>5. QED
    BY <1>1, <2>1, <2>2, <2>4 DEF BatchInv, TargetsSoFar
<1>3. outcome \in {"completed", "completed_with_errors", "failed"}
  OBVIOUS
<1> HIDE DEF outcome
<1>4. QED
  BY <1>1, <1>2, <1>3, OutcomeWritten

LEMMA FailJobInv == BatchInv /\ FailJob => BatchInv'
<1> SUFFICES ASSUME BatchInv, FailJob PROVE BatchInv'
  OBVIOUS
<1>1. /\ pc = "abandon" /\ Exit /\ jobStatus' = [jobStatus EXCEPT ![job] = "failed"]
      /\ UNCHANGED <<day, active, stored, checkpoint, record, failures, validation, rsRun, score>>
  BY DEF FailJob, data
<1>2. QED
  BY <1>1, OutcomeWritten

LEMMA CreateJobInv == ASSUME NEW j \in Jobs, BatchInv, CreateJob(j) PROVE BatchInv'
<1>1. /\ pc = "idle" /\ jobStatus[j] = "absent" /\ pc' = "start" /\ job' = j /\ step' = 1 /\ today' = day
      /\ jobStatus' = [jobStatus EXCEPT ![j] = "running"]
      /\ checkpoint' = [checkpoint EXCEPT ![j] = [n \in StepNames |-> "pending"]]
      /\ UNCHANGED <<day, active, stored, record, failures, validation, rsRun, score>>
      /\ UNCHANGED <<unsuccessful, degraded, wouldBlock, withErrors, cited>>
  BY DEF CreateJob, NewJob, data, facts
<1>2. TypeOK
  BY DEF BatchInv
<1>3. /\ jobStatus' \in [Jobs -> JobStatus] /\ jobStatus'[j] = "running"
      /\ \A i \in Jobs : i # j => jobStatus'[i] = jobStatus[i]
  BY <1>1, <1>2 DEF TypeOK, JobStatus
<1>4. /\ checkpoint' \in [Jobs -> [StepNames -> CheckpointStatus]]
      /\ \A n \in 1..6 : checkpoint'[j][StepName[n]] = "pending"
      /\ \A i \in Jobs : i # j => checkpoint'[i] = checkpoint[i]
  <2> DEFINE fresh == [n \in StepNames |-> "pending"]
  <2>1. fresh \in [StepNames -> CheckpointStatus]
    BY DEF CheckpointStatus
  <2>2. \A n \in 1..6 : fresh[StepName[n]] = "pending"
    BY StepFacts
  <2>3. checkpoint \in [Jobs -> [StepNames -> CheckpointStatus]]
    BY <1>2 DEF TypeOK
  <2>4. checkpoint' = [checkpoint EXCEPT ![j] = fresh]
    BY <1>1
  <2> HIDE DEF fresh
  <2>5. checkpoint'[j] = fresh /\ \A i \in Jobs : i # j => checkpoint'[i] = checkpoint[i]
    BY <2>3, <2>4
  <2>6. checkpoint' \in [Jobs -> [StepNames -> CheckpointStatus]]
    BY <2>1, <2>3, <2>4
  <2>7. QED
    BY <2>2, <2>5, <2>6
<1>5. checkpoint'[j]["rs"] = "pending" /\ checkpoint'[j]["validation"] = "pending"
  BY <1>4, StepFacts
<1>6. /\ \A s \in Symbols : record[j][s] = Nil
      /\ rsRun[j] = Nil
  BY <1>1 DEF BatchInv, AbsentJobsAreEmpty
<1>7. TypeOK'
  <2>1. enforce' \in BOOLEAN
    BY Zenon, ModesAssumption DEF CreateJob
  <2>2. pc' = "start" /\ job' \in 0..MaxJobs /\ step' \in 1..6 /\ today' \in 0..MaxDay
    BY <1>1, <1>2 DEF TypeOK, Jobs, Days
  <2>3. /\ UNCHANGED <<day, active, stored, record, failures, validation, rsRun, score>>
        /\ UNCHANGED <<unsuccessful, degraded, wouldBlock, withErrors, cited>>
    BY <1>1
  <2>4. jobStatus' \in [Jobs -> JobStatus] /\ checkpoint' \in [Jobs -> [StepNames -> CheckpointStatus]]
    BY <1>3, <1>4
  <2>5. QED
    BY <1>2, <2>1, <2>2, <2>3, <2>4 DEF TypeOK
<1>8. AbsentJobsAreEmpty' /\ CompletedJobIsWhole'
  <2>1. \A i \in Jobs : jobStatus'[i] # "running" =>
          jobStatus'[i] = jobStatus[i] /\ checkpoint'[i] = checkpoint[i]
    BY <1>3, <1>4
  <2>2. AbsentJobsAreEmpty'
    BY <1>1, <2>1 DEF BatchInv, AbsentJobsAreEmpty
  <2>3. CompletedJobIsWhole'
    BY <1>1, <2>1 DEF BatchInv, CompletedJobIsWhole
  <2>4. QED
    BY <2>2, <2>3
<1>9. CheckpointsInOrder'
  BY <1>4, StepFacts DEF BatchInv, CheckpointsInOrder, Enabled
<1>10. CheckpointIsBacked'
  BY <1>1, <1>4, <1>5 DEF BatchInv, CheckpointIsBacked, Done
<1>11. EnforcedRsWasValidated' /\ ScoresHaveLineage' /\ RecordedDayIsStored'
  BY <1>1 DEF BatchInv, EnforcedRsWasValidated, Passed, ScoresHaveLineage, RecordedDayIsStored
<1>12. ProcessHasJob' /\ TargetsSoFar' /\ GateSoFar'
  BY <1>1, <1>2, <1>3, <1>6 DEF TypeOK, ProcessHasJob, TargetsSoFar, GateSoFar
<1>13. StepsSoFar'
  BY <1>1, <1>4, StepFacts DEF StepsSoFar
<1>14. RunsSoFar'
  BY <1>1, <1>4, <1>6 DEF BatchInv, RunsSoFar
<1>15. QED
  BY <1>7, <1>8, <1>9, <1>10, <1>11, <1>12, <1>13, <1>14 DEF BatchInv

\* A retry finds nothing to fetch in a job without failed targets, and adds a
\* run to the others.
LEMMA RetryFailedTargetsInv ==
  ASSUME NEW j \in Jobs, BatchInv, RetryFailedTargets(j) PROVE BatchInv'
<1>1. /\ jobStatus[j] # "absent"
      /\ UNCHANGED <<day, active, jobStatus, checkpoint, rsRun, score, process>>
  BY DEF RetryFailedTargets
<1>2. PICK targets \in SUBSET Retryable(j) : \E results \in [targets -> Results] :
        /\ \A s \in targets : results[s] \in TargetResults(s, day)
        /\ StoreResults(j, targets, results)
  BY DEF RetryFailedTargets
<1>3. PICK results \in [targets -> Results] :
        /\ \A s \in targets : results[s] \in TargetResults(s, day)
        /\ StoreResults(j, targets, results)
  BY <1>2
<1>4. /\ targets \in SUBSET Symbols
      /\ \A s \in targets : /\ record[j][s].status \in {"failed", "partial"}
                            /\ record[j][s] # Nil /\ record[j][s].attempts < MaxAttempts
  BY <1>2 DEF Retryable
<1>5. TypeOK /\ RecordedDayIsStored
  BY DEF BatchInv
<1>6. /\ stored' \in [Symbols -> 0..MaxDay]
      /\ record' \in [Jobs -> [Symbols -> TargetRecord \cup {Nil}]]
      /\ failures' \in [Jobs -> SUBSET {"WARNING", "ERROR"}]
      /\ \A i \in Jobs : i # j => record'[i] = record[i]
      /\ \A s \in Symbols \ targets : record'[j][s] = record[j][s]
      /\ RecordedDayIsStored'
  BY <1>3, <1>4, <1>5, StoreResultsEffect
<1>7. \A i \in Jobs :
        (\A s \in Symbols : record[i][s] # Nil => record[i][s].status \notin {"failed", "partial"})
        => \A s \in Symbols : record'[i][s] = record[i][s]
  BY <1>4, <1>6
<1>8. PICK run \in ValidationRuns(record'[j], stored', failures'[j]) :
        validation' = [validation EXCEPT ![j] = Append(@, run)]
  BY DEF RetryFailedTargets
<1>9. run \in ValidationRun /\ validation \in [Jobs -> Seq(ValidationRun)]
  BY <1>5, <1>8, ValidationRunType DEF TypeOK
<1>10. /\ validation' \in [Jobs -> Seq(ValidationRun)]
       /\ \A i \in Jobs : i # j => validation'[i] = validation[i]
       /\ validation'[j] # <<>>
       /\ \A i \in Jobs : Passed(i) => Passed(i)'
  BY <1>8, <1>9, AppendRun
<1>11. TypeOK'
  BY <1>1, <1>5, <1>6, <1>10 DEF TypeOK, process, facts
<1>12. AbsentJobsAreEmpty'
  <2>1. \A i \in Jobs : jobStatus[i] = "absent" =>
          record'[i] = record[i] /\ validation'[i] = validation[i]
    BY <1>1, <1>6, <1>10
  <2>2. QED
    BY <1>1, <2>1 DEF BatchInv, AbsentJobsAreEmpty
<1>13. CompletedJobIsWhole'
  BY <1>1, <1>7 DEF BatchInv, CompletedJobIsWhole
<1>14. CheckpointsInOrder' /\ CheckpointIsBacked' /\ ScoresHaveLineage'
  <2>1. \A i \in Jobs : validation[i] # <<>> => validation'[i] # <<>>
    BY <1>10
  <2>2. QED
    BY <1>1, <2>1 DEF BatchInv, CheckpointsInOrder, CheckpointIsBacked, ScoresHaveLineage
<1>15. EnforcedRsWasValidated'
  BY <1>1, <1>10 DEF BatchInv, EnforcedRsWasValidated
<1>16. UNCHANGED <<pc, job, step, today, enforce, unsuccessful, wouldBlock, cited>>
  BY <1>1 DEF process, facts
<1>17. ProcessHasJob' /\ StepsSoFar' /\ RunsSoFar'
  <2>1. pc # "idle" /\ validation[job] # <<>> => validation'[job] # <<>>
    BY <1>10 DEF BatchInv, ProcessHasJob
  <2>2. QED
    BY <1>1, <1>16, <2>1 DEF BatchInv, ProcessHasJob, StepsSoFar, RunsSoFar
<1>18. TargetsSoFar'
  BY <1>7, <1>16 DEF BatchInv, ProcessHasJob, TargetsSoFar
<1>19. GateSoFar'
  <2>1. pc # "idle" /\ Passed(job) => Passed(job)'
    BY <1>10, <1>16 DEF BatchInv, ProcessHasJob, Passed
  <2>2. QED
    BY <1>16, <2>1 DEF BatchInv, GateSoFar
<1>20. QED
  BY <1>6, <1>11, <1>12, <1>13, <1>14, <1>15, <1>17, <1>18, <1>19 DEF BatchInv

-----------------------------------------------------------------------------
(* The theorems.                                                           *)

LEMMA StutterInv == BatchInv /\ UNCHANGED vars => BatchInv'
<1> SUFFICES ASSUME BatchInv, UNCHANGED vars PROVE BatchInv'
  OBVIOUS
<1>1. UNCHANGED rows /\ UNCHANGED <<day, active, failures>> /\ UNCHANGED process
  BY DEF vars, tables, rows
<1>2. TypeOK'
  BY <1>1 DEF BatchInv, TypeOK, rows, process, facts
<1>3. TablesInv'
  BY <1>1, InvParts, TablesKept
<1>4. ProcessInv'
  BY <1>1 DEF BatchInv, rows, process, facts, ProcessInv, ProcessHasJob, StepsSoFar,
              RunsSoFar, TargetsSoFar, GateSoFar, Passed
<1>5. QED
  BY <1>2, <1>3, <1>4 DEF BatchInv, TablesInv, ProcessInv

LEMMA NextInv == BatchInv /\ [Next]_vars => BatchInv'
<1> SUFFICES ASSUME BatchInv, [Next]_vars PROVE BatchInv'
  OBVIOUS
<1>1. CASE \E j \in Jobs : CreateJob(j) \/ RetryFailedTargets(j)
  BY <1>1, CreateJobInv, RetryFailedTargetsInv
<1>2. CASE Step
  <2>1. CASE SkipStep
    BY <2>1, SkipStepInv
  <2>2. CASE StartStep
    BY <2>2, StartStepInv
  <2>3. CASE SyncKrxUniverse
    BY <2>3, SyncKrxUniverseInv
  <2>4. CASE SyncSymbols
    BY <2>4, SyncSymbolsInv
  <2>5. CASE SyncBenchmarks
    BY <2>5, SyncBenchmarksInv
  <2>6. CASE SyncPrices
    BY <2>6, SyncPricesInv
  <2>7. CASE ValidateCrawlJob
    BY <2>7, ValidateCrawlJobInv
  <2>8. CASE ReadLatestValidation
    BY <2>8, ReadLatestValidationInv
  <2>9. CASE CalculateRs
    BY <2>9, CalculateRsInv
  <2>10. CASE CompleteStep
    BY <2>10, CompleteStepInv
  <2>11. CASE BlockRs
    BY <2>11, BlockRsInv
  <2>12. CASE FailStep
    BY <2>12, FailStepInv
  <2>13. QED
    BY <1>2, <2>1, <2>2, <2>3, <2>4, <2>5, <2>6, <2>7, <2>8, <2>9, <2>10, <2>11, <2>12 DEF Step
<1>3. CASE FinishJob
  BY <1>3, FinishJobInv
<1>4. CASE FailJob
  BY <1>4, FailJobInv
<1>5. CASE Raises
  BY <1>5, RaisesInv
<1>6. CASE Crash
  BY <1>6, CrashInv
<1>7. CASE NextDay
  BY <1>7, NextDayInv
<1>8. CASE UNCHANGED vars
  BY <1>8, StutterInv
<1>9. QED
  BY <1>1, <1>2, <1>3, <1>4, <1>5, <1>6, <1>7, <1>8 DEF Next

\* What the process remembers agrees with the tables of its job, in every
\* reachable state, whichever transactions raise and wherever it is killed.
THEOREM BatchInvariant == Spec => []BatchInv
BY InitInv, NextInv, PTL DEF Spec

\* Every table and every variable of the batch process keeps its type.
THEOREM TypeCorrect == Spec => []TypeOK
<1>1. BatchInv => TypeOK
  BY DEF BatchInv
<1>2. QED
  BY BatchInvariant, <1>1, PTL

\* No step's checkpoint leaves "pending" before every enabled earlier step is
\* done: run_daily_job never executes a step on missing results.
THEOREM OrderCorrect == Spec => []CheckpointsInOrder
<1>1. BatchInv => CheckpointsInOrder
  BY DEF BatchInv
<1>2. QED
  BY BatchInvariant, <1>1, PTL

\* A done validation or RS checkpoint has its run, and a blocked RS has none,
\* although step and checkpoint commit in separate transactions.
THEOREM BackedCorrect == Spec => []CheckpointIsBacked
<1>1. BatchInv => CheckpointIsBacked
  BY DEF BatchInv
<1>2. QED
  BY BatchInvariant, <1>1, PTL

\* A job that _resolve_job_status reports as completed has run every enabled
\* step and has no failed or partial target on record, even after retries.
THEOREM WholeCorrect == Spec => []CompletedJobIsWhole
<1>1. BatchInv => CompletedJobIsWhole
  BY DEF BatchInv
<1>2. QED
  BY BatchInvariant, <1>1, PTL

\* The enforce gate holds: RS under enforce has a passing validation of its
\* job, whatever retries add between the gate and the RS calculation.
THEOREM EnforcedCorrect == Spec => []EnforcedRsWasValidated
<1>1. BatchInv => EnforcedRsWasValidated
  BY DEF BatchInv
<1>2. QED
  BY BatchInvariant, <1>1, PTL

\* Every published score belongs to a committed RS run of the same day.
THEOREM LineageCorrect == Spec => []ScoresHaveLineage
<1>1. BatchInv => ScoresHaveLineage
  BY DEF BatchInv
<1>2. QED
  BY BatchInvariant, <1>1, PTL

\* The trading day on a target's record is a day whose price is stored.
THEOREM StoredCorrect == Spec => []RecordedDayIsStored
<1>1. BatchInv => RecordedDayIsStored
  BY DEF BatchInv
<1>2. QED
  BY BatchInvariant, <1>1, PTL

\* No rerun, retry or crash rewrites the outcome of a job: only the process
\* that runs a job writes its status, and only while it is "running".
THEOREM OutcomeCorrect == Spec => OutcomeIsFinal
<1> DEFINE Final(j) == jobStatus[j] \in {"completed", "completed_with_errors", "failed"}
           Kept == \A j \in Jobs : Final(j) => jobStatus'[j] = jobStatus[j]
<1>1. BatchInv /\ [Next]_vars => [Kept]_vars
  <2> SUFFICES ASSUME BatchInv, [Next]_vars PROVE Kept
    OBVIOUS
  <2>1. TypeOK /\ (pc # "idle" => jobStatus[job] = "running")
    BY DEF BatchInv, ProcessHasJob
  <2>2. CASE UNCHANGED jobStatus
    BY <2>2
  <2>3. ASSUME NEW j \in Jobs, CreateJob(j)
        PROVE  Kept
    BY <2>1, <2>3 DEF CreateJob, NewJob, TypeOK
  <2>4. CASE FinishJob \/ FailJob
    BY <2>1, <2>4 DEF FinishJob, FailJob, TypeOK
  <2>5. ASSUME NEW j \in Jobs, RetryFailedTargets(j)
        PROVE  Kept
    BY <2>5 DEF RetryFailedTargets
  <2>6. CASE Step
    BY <2>6 DEF Step, SkipStep, StartStep, SyncKrxUniverse, SyncSymbols, SyncBenchmarks,
                SyncPrices, ValidateCrawlJob, ReadLatestValidation, CalculateRs, CompleteStep,
                BlockRs, FailStep, tables
  <2>7. CASE Raises \/ Crash \/ NextDay
    BY <2>7 DEF Raises, Crash, NextDay, tables
  <2>8. QED
    BY <2>2, <2>3, <2>4, <2>5, <2>6, <2>7 DEF Next, vars, tables
<1>2. QED
  BY BatchInvariant, <1>1, PTL DEF Spec, OutcomeIsFinal

-----------------------------------------------------------------------------
(* The ledger of jobs: DailyBatch implements JobLedger.                    *)

\* Every verdict of the job was there already, in its place.
Extended(i) ==
  /\ Len(validation[i]) \in Nat /\ Len(validation'[i]) \in Nat
  /\ Len(validation[i]) <= Len(validation'[i])
  /\ \A k \in 1..Len(validation[i]) : validation'[i][k] = validation[i][k]

LEMMA AppendExtends ==
  ASSUME validation \in [Jobs -> Seq(ValidationRun)], NEW j \in Jobs, NEW run \in ValidationRun,
         validation' = [validation EXCEPT ![j] = Append(@, run)]
  PROVE  /\ \A i \in Jobs : Extended(i)
         /\ validation'[j][Len(validation[j]) + 1] = run
         /\ Len(validation'[j]) = Len(validation[j]) + 1
<1>1. \A i \in Jobs : validation[i] \in Seq(ValidationRun) /\ Len(validation[i]) \in Nat
  OBVIOUS
<1>2. validation'[j] = Append(validation[j], run)
  OBVIOUS
<1>3. /\ Len(validation'[j]) = Len(validation[j]) + 1
      /\ \A k \in 1..Len(validation[j]) : validation'[j][k] = validation[j][k]
      /\ validation'[j][Len(validation[j]) + 1] = run
  BY <1>1, <1>2
<1>4. \A i \in Jobs : i # j => validation'[i] = validation[i]
  OBVIOUS
<1>5. Extended(j)
  BY <1>1, <1>3 DEF Extended
<1>6. \A i \in Jobs : i # j => Extended(i)
  BY <1>1, <1>4 DEF Extended
<1>7. QED
  BY <1>3, <1>5, <1>6

\* Validations are only ever appended, by the batch's own and by retries'.
LEMMA VerdictsGrow ==
  ASSUME BatchInv, [Next]_vars, NEW i \in Jobs
  PROVE  Extended(i)
<1>1. TypeOK /\ validation \in [Jobs -> Seq(ValidationRun)]
  BY DEF BatchInv, TypeOK
<1>2. ASSUME UNCHANGED validation
      PROVE  Extended(i)
  <2>1. validation[i] \in Seq(ValidationRun) /\ Len(validation[i]) \in Nat
    BY <1>1
  <2>2. QED
    BY <1>2, <2>1 DEF Extended
<1>3. CASE ValidateCrawlJob
  <2>1. job \in Jobs
    BY <1>3 DEF BatchInv, ProcessHasJob, ValidateCrawlJob, Executing
  <2>2. PICK run \in ValidationRuns(record[job], stored, failures[job]) :
          validation' = [validation EXCEPT ![job] = Append(@, run)]
    BY <1>3 DEF ValidateCrawlJob
  <2>3. run \in ValidationRun
    BY ValidationRunType
  <2>4. QED
    BY <1>1, <2>1, <2>2, <2>3, AppendExtends
<1>4. ASSUME NEW j \in Jobs, RetryFailedTargets(j)
      PROVE  Extended(i)
  <2>1. PICK run \in ValidationRuns(record'[j], stored', failures'[j]) :
          validation' = [validation EXCEPT ![j] = Append(@, run)]
    BY <1>4 DEF RetryFailedTargets
  <2>2. run \in ValidationRun
    BY <2>1, ValidationRunType
  <2>3. QED
    BY <1>1, <2>1, <2>2, AppendExtends
<1>5. CASE Step /\ ~ValidateCrawlJob
  BY <1>2, <1>5 DEF Step, SkipStep, StartStep, SyncKrxUniverse, SyncSymbols, SyncBenchmarks,
                    SyncPrices, ReadLatestValidation, CalculateRs, CompleteStep,
                    BlockRs, FailStep, tables, data
<1>6. ASSUME NEW j \in Jobs, CreateJob(j)
      PROVE  Extended(i)
  BY <1>2, <1>6 DEF CreateJob, data
<1>7. CASE FinishJob \/ FailJob \/ Raises \/ Crash \/ NextDay \/ UNCHANGED vars
  BY <1>2, <1>7 DEF FinishJob, FailJob, Raises, Crash, NextDay, vars, tables, data
<1>8. QED
  BY <1>3, <1>4, <1>5, <1>6, <1>7 DEF Next

\* The process keeps its job until it ends.
LEMMA SameJob ==
  ASSUME BatchInv, [Next]_vars, pc # "idle", pc' # "idle"
  PROVE  job' = job /\ job \in Jobs
<1>1. job \in Jobs
  BY DEF BatchInv, ProcessHasJob
<1>2. CASE Step
  BY <1>1, <1>2 DEF Step, SkipStep, StartStep, SyncKrxUniverse, SyncSymbols, SyncBenchmarks,
                    SyncPrices, ValidateCrawlJob, ReadLatestValidation, CalculateRs,
                    CompleteStep, BlockRs, FailStep, Goto
<1>3. CASE FinishJob \/ FailJob \/ Crash
  BY <1>3 DEF FinishJob, FailJob, Crash, Exit
<1>4. CASE Raises \/ NextDay \/ UNCHANGED vars
  BY <1>1, <1>4 DEF Raises, NextDay, vars, Goto, process
<1>5. CASE \E j \in Jobs : CreateJob(j) \/ RetryFailedTargets(j)
  BY <1>1, <1>5 DEF CreateJob, RetryFailedTargets, process
<1>6. QED
  BY <1>1, <1>2, <1>3, <1>4, <1>5 DEF Next

\* A refusal is remembered from the validation until the process ends.
LEMMA BlockedKept ==
  ASSUME BatchInv, BlockedSoFar, [Next]_vars
  PROVE  BlockedSoFar'
<1> SUFFICES ASSUME wouldBlock'
             PROVE  /\ pc' # "idle"
                    /\ \E k \in 1..Len(validation'[job']) : validation'[job'][k].status = "blocked"
  BY DEF BlockedSoFar
<1>1. CASE ValidateCrawlJob
  <2>1. job \in Jobs /\ validation \in [Jobs -> Seq(ValidationRun)] /\ job' = job /\ pc' # "idle"
    BY <1>1 DEF BatchInv, TypeOK, ProcessHasJob, ValidateCrawlJob, Executing, Goto
  <2>2. PICK run \in ValidationRuns(record[job], stored, failures[job]) :
          /\ validation' = [validation EXCEPT ![job] = Append(@, run)]
          /\ wouldBlock' = WouldBlock(run.status)
    BY <1>1 DEF ValidateCrawlJob
  <2>3. run \in ValidationRun /\ run.status = "blocked"
    <3>1. WouldBlock(run.status)
      BY <2>2, Zenon
    <3>2. run \in ValidationRun
      BY <2>2, ValidationRunType
    <3>3. QED
      BY <3>1, <3>2 DEF ValidationRun, Verdicts, WouldBlock
  <2>4. /\ validation'[job][Len(validation[job]) + 1] = run
        /\ Len(validation'[job]) = Len(validation[job]) + 1
        /\ Len(validation[job]) \in Nat
    BY <2>1, <2>2, <2>3, AppendExtends
  <2>5. QED
    BY <2>1, <2>3, <2>4
<1>2. ASSUME wouldBlock, pc # "idle", pc' # "idle"
      PROVE  /\ pc' # "idle"
             /\ \E k \in 1..Len(validation'[job']) : validation'[job'][k].status = "blocked"
  <2>1. job' = job /\ job \in Jobs
    BY <1>2, SameJob
  <2>2. Extended(job)
    BY <2>1, VerdictsGrow
  <2>3. QED
    BY <1>2, <2>1, <2>2 DEF BlockedSoFar, Extended
<1>3. CASE Step /\ ~ValidateCrawlJob
  <2>1. wouldBlock /\ pc # "idle"
    BY <1>3 DEF Step, SkipStep, StartStep, SyncKrxUniverse, SyncSymbols, SyncBenchmarks,
                SyncPrices, ReadLatestValidation, CalculateRs, CompleteStep, BlockRs, FailStep,
                Executing, facts
  <2>2. pc' # "idle"
    BY <1>3, <2>1 DEF Step, SkipStep, StartStep, SyncKrxUniverse, SyncSymbols, SyncBenchmarks,
                SyncPrices, ReadLatestValidation, CalculateRs, CompleteStep, BlockRs, FailStep,
                Goto
  <2>3. QED
    BY <1>2, <2>1, <2>2
<1>4. ASSUME NEW j \in Jobs, CreateJob(j)
      PROVE  FALSE
  BY <1>4 DEF BlockedSoFar, CreateJob, facts
<1>5. CASE FinishJob \/ FailJob \/ Crash
  BY <1>5 DEF FinishJob, FailJob, Crash, Exit
<1>6. ASSUME \/ \E j \in Jobs : RetryFailedTargets(j)
             \/ NextDay \/ UNCHANGED vars
      PROVE  wouldBlock /\ pc # "idle" /\ pc' # "idle"
  BY <1>6 DEF BlockedSoFar, RetryFailedTargets, NextDay, vars, process, facts
<1>7. CASE Raises
  BY <1>2, <1>7 DEF BlockedSoFar, Raises, Goto, AfterError, facts
<1>8. QED
  BY <1>1, <1>2, <1>3, <1>4, <1>5, <1>6, <1>7 DEF Next

\* Verdicts a retry adds between RS's read and its commit come after the one
\* it has read.
LEMMA CitedKept ==
  ASSUME BatchInv, CitedSoFar, [Next]_vars
  PROVE  CitedSoFar'
<1> SUFFICES ASSUME pc' = "rs"
             PROVE  LET n == cited'.run IN
                    /\ n \in 0..Len(validation'[job'])
                    /\ n > 0 /\ validation'[job'][n].day # 0 => cited'.day = validation'[job'][n].day
  BY DEF CitedSoFar
<1>1. CASE ReadLatestValidation
  <2>1. /\ job' = job /\ job \in Jobs /\ validation' = validation
        /\ validation[job] \in Seq(ValidationRun)
    BY <1>1 DEF BatchInv, TypeOK, ProcessHasJob, ReadLatestValidation, Executing, Goto, tables
  <2>2. cited' = [run |-> Len(validation[job]),
                  day |-> IF validation[job] = <<>> \/ validation[job][Len(validation[job])].day = 0
                            THEN day ELSE validation[job][Len(validation[job])].day]
    BY <1>1 DEF ReadLatestValidation
  <2>3. Len(validation[job]) \in Nat /\ (validation[job] = <<>> => Len(validation[job]) = 0)
    BY <2>1
  <2>4. QED
    BY <2>1, <2>2, <2>3
<1>2. CASE pc = "rs" /\ cited' = cited
  <2>1. job' = job /\ job \in Jobs
    BY <1>2, SameJob
  <2>2. Extended(job)
    BY <2>1, VerdictsGrow
  <2>3. QED
    BY <1>2, <2>1, <2>2 DEF CitedSoFar, Extended
<1>3. CASE Step /\ ~ReadLatestValidation
  BY <1>2, <1>3 DEF Step, SkipStep, StartStep, SyncKrxUniverse, SyncSymbols, SyncBenchmarks,
                    SyncPrices, ValidateCrawlJob, CalculateRs, CompleteStep, BlockRs, FailStep,
                    Goto, facts
<1>4. CASE FinishJob \/ FailJob \/ Crash \/ Raises
  BY <1>4 DEF FinishJob, FailJob, Crash, Exit, Raises, Goto, AfterError
<1>5. CASE NextDay \/ UNCHANGED vars \/ \E j \in Jobs : RetryFailedTargets(j)
  BY <1>2, <1>5 DEF NextDay, RetryFailedTargets, vars, process, facts
<1>6. CASE \E j \in Jobs : CreateJob(j)
  BY <1>6 DEF CreateJob
<1>7. QED
  BY <1>1, <1>3, <1>4, <1>5, <1>6 DEF Next

\* The refusal and the citation a process remembers are those of its job.
THEOREM LedgerInvariant == Spec => []LedgerInv
<1>1. Init => BlockedSoFar /\ CitedSoFar
  BY DEF Init, BlockedSoFar, CitedSoFar
<1>2. LedgerInv /\ [Next]_vars => LedgerInv'
  BY NextInv, BlockedKept, CitedKept DEF LedgerInv
<1>3. QED
  BY InitInv, <1>1, <1>2, PTL DEF Spec, LedgerInv

\* The tables the ledger is about.
ledger == <<jobStatus, validation, rsRun, score>>

LEMMA CreateOpens ==
  ASSUME LedgerInv, NEW j \in Jobs, CreateJob(j)
  PROVE  Ledger!LedgerNext
<1>1. Ledger!Open(j)
  BY DEF CreateJob, NewJob, data, Ledger!Open
<1>2. QED
  BY <1>1 DEF Ledger!LedgerNext

\* What a validation writes is a verdict of the ledger.
LEMMA RunIsVerdict ==
  ASSUME NEW r \in ValidationRun
  PROVE  r \in Ledger!Verdict
<1>1. 0..MaxDay = Days \cup {0}
  BY DEF Days
<1>2. Verdicts = Ledger!Passing \cup {"blocked"}
  BY DEF Verdicts, Ledger!Passing
<1>3. QED
  BY <1>1, <1>2 DEF ValidationRun, Ledger!Verdict

\* Both the batch and an operator's retry add one verdict to a job.
LEMMA ValidationJudges ==
  ASSUME NEW j \in Jobs, jobStatus[j] # "absent", NEW r \in ValidationRun,
         validation' = [validation EXCEPT ![j] = Append(@, r)],
         UNCHANGED <<jobStatus, rsRun, score>>
  PROVE  Ledger!LedgerNext
<1>1. r \in Ledger!Verdict
  BY RunIsVerdict
<1>2. Ledger!Judge(j)
  BY <1>1 DEF Ledger!Judge
<1>3. QED
  BY <1>2 DEF Ledger!LedgerNext

LEMMA BatchJudges ==
  ASSUME LedgerInv, ValidateCrawlJob
  PROVE  Ledger!LedgerNext
<1>1. job \in Jobs /\ jobStatus[job] # "absent"
  BY DEF LedgerInv, BatchInv, ProcessHasJob, ValidateCrawlJob, Executing
<1>2. PICK r \in ValidationRuns(record[job], stored, failures[job]) :
        validation' = [validation EXCEPT ![job] = Append(@, r)]
  BY DEF ValidateCrawlJob
<1>3. r \in ValidationRun
  BY ValidationRunType
<1>4. PICK j \in Jobs : j = job
  BY <1>1
<1>5. jobStatus[j] # "absent" /\ validation' = [validation EXCEPT ![j] = Append(@, r)]
  BY <1>1, <1>2, <1>4
<1>6. UNCHANGED <<jobStatus, rsRun, score>>
  BY DEF ValidateCrawlJob
<1>7. QED
  BY <1>3, <1>5, <1>6, ValidationJudges

LEMMA RetryJudges ==
  ASSUME LedgerInv, NEW j \in Jobs, RetryFailedTargets(j)
  PROVE  Ledger!LedgerNext
<1>1. jobStatus[j] # "absent" /\ UNCHANGED <<jobStatus, rsRun, score>>
  BY DEF RetryFailedTargets
<1>2. PICK r \in ValidationRuns(record'[j], stored', failures'[j]) :
        validation' = [validation EXCEPT ![j] = Append(@, r)]
  BY DEF RetryFailedTargets
<1>3. r \in ValidationRun
  BY <1>2, ValidationRunType
<1>4. QED
  BY <1>1, <1>2, <1>3, ValidationJudges

\* The RS calculation is the one publication of its job.
LEMMA CalculationPublishes ==
  ASSUME LedgerInv, CalculateRs
  PROVE  Ledger!LedgerNext
<1>1. /\ pc = "rs" /\ step = 6 /\ job \in Jobs /\ jobStatus[job] = "running"
      /\ rsRun[job] = Nil /\ cited.day \in Days
  BY DEF LedgerInv, BatchInv, CalculateRs, StepsSoFar, RunsSoFar, ProcessHasJob
<1>2. PICK j \in Jobs : j = job
  BY <1>1
<1>3. PICK n \in 0..Len(validation[j]) : n = cited.run
  BY <1>1, <1>2 DEF LedgerInv, CitedSoFar
<1>4. PICK d \in Days : d = cited.day
  BY <1>1
<1>5. PICK e \in BOOLEAN : e = enforce
  <2>1. enforce \in BOOLEAN
    BY DEF LedgerInv, BatchInv, TypeOK
  <2>2. QED
    BY <2>1, Zenon
<1>6. Ledger!MayPublish(j, n, d, e)
  <2>1. n > 0 /\ validation[j][n].day # 0 => d = validation[j][n].day
    BY <1>1, <1>2, <1>3, <1>4 DEF LedgerInv, CitedSoFar
  <2>2. "validation" \in EnabledSteps /\ enforce => Passed(job)
    BY <1>1 DEF LedgerInv, BatchInv, GateSoFar
  <2>3. "validation" \in EnabledSteps /\ e => Passed(j)
    BY <1>2, <1>5, <2>2
  <2>4. Passed(j) => Ledger!Judged(j, Ledger!Passing)
    BY DEF Passed, Ledger!Judged, Ledger!Passing
  <2>5. QED
    BY <2>1, <2>3, <2>4 DEF Ledger!MayPublish
<1>7. rsRun' = [rsRun EXCEPT ![j] = [cites |-> n, day |-> d, enforced |-> e]]
  BY <1>2, <1>3, <1>4, <1>5 DEF CalculateRs
<1>8. PICK scored \in SUBSET {s \in active : stored[s] # 0} : \E rank \in Rankings(scored) :
        score' = SaveScores(scored, rank, cited.day)
  BY DEF CalculateRs
<1>9. PICK rank \in Rankings(scored) : score' = SaveScores(scored, rank, cited.day)
  BY <1>8
<1>10. scored \in SUBSET Symbols /\ rank \in Ledger!Rankings(scored)
  <2>1. active \subseteq Symbols
    BY DEF LedgerInv, BatchInv, TypeOK
  <2>2. Ledger!Rankings(scored) = Rankings(scored)
    <3>1. Ledger!Cardinality(scored) = Cardinality(scored)
      BY DEF Cardinality, Ledger!Cardinality
    <3>2. QED
      BY <3>1 DEF Rankings, Ledger!Rankings
  <2>3. QED
    BY <1>8, <1>9, <2>1, <2>2
<1>11. score' = Ledger!Published(j, d, scored, rank)
  BY <1>2, <1>4, <1>9 DEF SaveScores, Ledger!Published
<1>12. UNCHANGED <<jobStatus, validation>>
  BY DEF CalculateRs
<1>13. Ledger!Publish(j)
  BY <1>1, <1>2, <1>6, <1>7, <1>10, <1>11, <1>12 DEF Ledger!Publish
<1>14. QED
  BY <1>13 DEF Ledger!LedgerNext

\* A job that ends with its checkpoint of RS done has published; one whose RS
\* was blocked remembers the verdict.
LEMMA EndConcludes ==
  ASSUME LedgerInv, FinishJob \/ FailJob
  PROVE  Ledger!LedgerNext
<1>1. /\ job \in Jobs /\ jobStatus[job] = "running"
      /\ UNCHANGED <<validation, rsRun, score>>
  BY DEF LedgerInv, BatchInv, ProcessHasJob, FinishJob, FailJob, data
<1>2. PICK j \in Jobs : j = job
  BY <1>1
<1>3. CASE FailJob
  <2>1. jobStatus' = [jobStatus EXCEPT ![j] = "failed"]
    BY <1>2, <1>3 DEF FailJob
  <2>2. Ledger!Conclude(j)
    BY <1>1, <1>2, <2>1 DEF Ledger!Conclude
  <2>3. QED
    BY <2>2 DEF Ledger!LedgerNext
<1>4. CASE FinishJob
  <2>1. PICK end \in {"completed", "completed_with_errors"} :
          /\ end = IF unsuccessful \/ degraded \/ (enforce /\ wouldBlock)
                     THEN "completed_with_errors" ELSE "completed"
          /\ jobStatus' = [jobStatus EXCEPT ![job] = end]
    BY <1>4 DEF FinishJob
  <2>2. checkpoint[job]["rs"] \in Done => rsRun[job] # Nil
    BY <1>1 DEF LedgerInv, BatchInv, CheckpointIsBacked
  <2>3. rsRun[job] = Nil => enforce /\ wouldBlock
    BY <1>4, <2>2 DEF LedgerInv, BatchInv, StepsSoFar, FinishJob
  <2>4. end = "completed" => rsRun[j] # Nil
    BY <1>2, <2>1, <2>3
  <2>5. rsRun[j] = Nil => Ledger!Judged(j, {"blocked"})
    BY <1>2, <2>3 DEF LedgerInv, BlockedSoFar, Ledger!Judged
  <2>6. jobStatus' = [jobStatus EXCEPT ![j] = end]
    BY <1>2, <2>1
  <2>7. Ledger!Conclude(j)
    BY <1>1, <1>2, <2>4, <2>5, <2>6 DEF Ledger!Conclude
  <2>8. QED
    BY <2>7 DEF Ledger!LedgerNext
<1>5. QED
  BY <1>3, <1>4

\* The batch implements the ledger: for every number of jobs, days and symbols
\* and whatever raises, dies or is retried, each step is one of the ledger's
\* or leaves its tables alone.
THEOREM LedgerRefinement == Spec => ImplementsJobLedger
<1>1. Init => Ledger!LedgerInit
  BY DEF Init, Ledger!LedgerInit
<1>2. LedgerInv /\ [Next]_vars => [Ledger!LedgerNext]_(Ledger!lvars)
  <2>1. SUFFICES ASSUME LedgerInv, [Next]_vars
                 PROVE  Ledger!LedgerNext \/ UNCHANGED ledger
    BY DEF Ledger!lvars, ledger
  <2>2. CASE \E j \in Jobs : CreateJob(j) \/ RetryFailedTargets(j)
    BY <2>1, <2>2, CreateOpens, RetryJudges
  <2>3. CASE ValidateCrawlJob \/ CalculateRs
    BY <2>1, <2>3, BatchJudges, CalculationPublishes
  <2>4. CASE Step /\ ~ValidateCrawlJob /\ ~CalculateRs
    BY <2>4 DEF Step, SkipStep, StartStep, SyncKrxUniverse, SyncSymbols, SyncBenchmarks,
                SyncPrices, ReadLatestValidation, CompleteStep, BlockRs, FailStep,
                tables, data, ledger
  <2>5. CASE FinishJob \/ FailJob
    BY <2>1, <2>5, EndConcludes
  <2>6. CASE Raises \/ Crash \/ NextDay \/ UNCHANGED vars
    BY <2>6 DEF Raises, Crash, NextDay, vars, tables, ledger
  <2>7. QED
    BY <2>1, <2>2, <2>3, <2>4, <2>5, <2>6 DEF Next
<1>3. QED
  BY <1>1, <1>2, LedgerInvariant, PTL DEF Spec, ImplementsJobLedger, Ledger!LedgerSpec

=============================================================================
