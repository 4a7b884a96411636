------------------------------- MODULE JobLedger -------------------------------
(***************************************************************************)
(* What the daily batch promises about its jobs, without processes, steps, *)
(* checkpoints, prices or days passing.  A job is opened once, publishes   *)
(* at most one set of ranks, all of them together and only while it is     *)
(* running, and is concluded once.  Verdicts are added to it at any time,  *)
(* and change neither what it has published nor how it was concluded.      *)
(***************************************************************************)
EXTENDS Integers, FiniteSets, Sequences

CONSTANTS
  Symbols, Jobs, Days,
  Gated,   \* are jobs validated before they publish?
  Nil      \* no publication, no score

VARIABLES
  outcome,    \* of each job
  verdicts,   \* of each job, oldest first
  run,        \* what a job has published: the verdict it cites and its day
  score       \* the published ranks, and who published them

lvars == <<outcome, verdicts, run, score>>

Passing == {"passed", "passed_with_warnings"}

Verdict == [status : Passing \cup {"blocked"}, day : Days \cup {0}]

\* Some verdict on the job was one of these.
Judged(j, statuses) == \E k \in 1..Len(verdicts[j]) : verdicts[j][k].status \in statuses

LedgerInit ==
  /\ outcome = [j \in Jobs |-> "absent"]
  /\ verdicts = [j \in Jobs |-> <<>>]
  /\ run = [j \in Jobs |-> Nil]
  /\ score = [s \in Symbols |-> [d \in Days |-> Nil]]

Open(j) ==
  /\ outcome[j] = "absent"
  /\ outcome' = [outcome EXCEPT ![j] = "running"]
  /\ UNCHANGED <<verdicts, run, score>>

Judge(j) ==
  /\ outcome[j] # "absent"
  /\ \E verdict \in Verdict : verdicts' = [verdicts EXCEPT ![j] = Append(@, verdict)]
  /\ UNCHANGED <<outcome, run, score>>

\* The ranks of one publication: 1..n in some order.
Rankings(scored) ==
  {rank \in [scored -> 1..Cardinality(scored)] :
     \A s, t \in scored : rank[s] = rank[t] => s = t}

\* What a job may publish, citing its n-th verdict (none: 0): under the gate
\* only after a verdict that passed, and for the day of the verdict it cites.
MayPublish(j, n, d, enforced) ==
  /\ n > 0 /\ verdicts[j][n].day # 0 => d = verdicts[j][n].day
  /\ Gated /\ enforced => Judged(j, Passing)

\* A score of another day or another symbol stays.
Published(j, d, scored, rank) ==
  [s \in Symbols |->
     IF s \in scored THEN [score[s] EXCEPT ![d] = [job |-> j, rank |-> rank[s]]] ELSE score[s]]

Publish(j) ==
  /\ outcome[j] = "running" /\ run[j] = Nil
  /\ \E n \in 0..Len(verdicts[j]), d \in Days, enforced \in BOOLEAN :
       /\ MayPublish(j, n, d, enforced)
       /\ run' = [run EXCEPT ![j] = [cites |-> n, day |-> d, enforced |-> enforced]]
       /\ \E scored \in SUBSET Symbols : \E rank \in Rankings(scored) :
            score' = Published(j, d, scored, rank)
  /\ UNCHANGED <<outcome, verdicts>>

\* A job that has published nothing failed, or was blocked by a verdict.
Conclude(j) ==
  /\ outcome[j] = "running"
  /\ \E end \in {"completed", "completed_with_errors", "failed"} :
       /\ end = "completed" => run[j] # Nil
       /\ end = "completed_with_errors" /\ run[j] = Nil => Judged(j, {"blocked"})
       /\ outcome' = [outcome EXCEPT ![j] = end]
  /\ UNCHANGED <<verdicts, run, score>>

LedgerNext == \E j \in Jobs : Open(j) \/ Judge(j) \/ Publish(j) \/ Conclude(j)

LedgerSpec == LedgerInit /\ [][LedgerNext]_lvars
=============================================================================
