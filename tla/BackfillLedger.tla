---------------------------- MODULE BackfillLedger ----------------------------
(***************************************************************************)
(* What a historical backfill promises about the tables it shares, without *)
(* processes, sessions, pages in hand or budgets left: a page's prices and *)
(* the checkpoint that confirms them are one step, an open target is given *)
(* a status it has earned, and a run with an outcome is over.  When two    *)
(* commands work on the run at the same time (disturbed) what is left of   *)
(* it is that prices are not overwritten and confirmed days have one.      *)
(***************************************************************************)
EXTENDS Naturals

CONSTANTS
  Targets, Days,
  Expected,    \* the trading days a target should have
  Rewritten    \* the prices that others write too

VARIABLES
  run,         \* its status, its budget and the requests charged to it
  row,         \* of each target: its status, and the days confirmed
  price,       \* none, as the source says, or another
  conflicts,   \* days on which source and price differed
  held,        \* the days the source has
  made,        \* requests the source has answered
  approved,    \* the budget approved
  disturbed

bvars == <<run, row, price, conflicts, held, made, approved, disturbed>>

Outcomes == {"completed", "completed_partial"}

LedgerInit ==
  /\ run = [status |-> "none", budget |-> 0, used |-> 0]
  /\ row = [t \in Targets |-> [status |-> "pending", confirmed |-> {}]]
  /\ price = [t \in Targets |-> [d \in Days |-> "none"]]
  /\ conflicts = [t \in Targets |-> {}]
  /\ \A t \in Targets : held[t] \subseteq Expected[t]
  /\ made = 0 /\ disturbed = FALSE

Open(t) == row[t].status \in {"pending", "running"}

\* A failure after its last page can still take back a target all of whose
\* days are confirmed.
Pursued(t) == Open(t) \/ (row[t].status = "completed" /\ row[t].confirmed = Expected[t])

\* All that the source has of the target is accounted for.
Collected(t) == held[t] \subseteq row[t].confirmed \cup conflicts[t]

\* What a step books on the run: charges, never taken back, within what was
\* made and approved.
Booked ==
  /\ run.status # "none" => run.used <= run'.used
  /\ run'.used <= made' /\ run'.used <= approved /\ run'.budget <= approved

\* The run begins, or goes on with the status it has.
Continued == run'.status = run.status \/ (run.status = "none" /\ run'.status = "running")

Undisturbed == ~disturbed /\ ~disturbed'

\* A page of days the source has: stored where there was no price, confirmed
\* where the price is the source's.
Collect(t) ==
  /\ Undisturbed /\ Pursued(t) /\ run.status \notin Outcomes
  /\ \E page \in SUBSET held[t] :
       LET differing == {d \in page : price[t][d] = "differs"}
           confirmed == row[t].confirmed \cup (page \ differing)
       IN  /\ price' = [price EXCEPT ![t] =
                [d \in Days |-> IF d \in page /\ price[t][d] = "none" THEN "same" ELSE price[t][d]]]
           /\ conflicts' = [conflicts EXCEPT ![t] = conflicts[t] \cup differing]
           /\ row' = [row EXCEPT ![t] =
                [status |-> IF confirmed = Expected[t] THEN "completed" ELSE "running",
                 confirmed |-> confirmed]]
  /\ Booked /\ Continued
  /\ UNCHANGED <<held, made, approved>>

Settle(t) ==
  /\ Undisturbed /\ Pursued(t) /\ run.status \notin Outcomes
  /\ \E status \in {"completed", "failed"} :
       /\ status = "completed" => Collected(t)
       /\ row' = [row EXCEPT ![t] = [status |-> status, confirmed |-> row[t].confirmed]]
  /\ made' \in {made, made + 1}
  /\ Booked /\ Continued
  /\ UNCHANGED <<price, conflicts, held, approved>>

\* The budget is spent while a target is open.
Exhaust ==
  /\ Undisturbed /\ run.status \notin Outcomes
  /\ \E t \in Targets : Open(t)
  /\ run'.status = "budget_exhausted" /\ Booked
  /\ UNCHANGED <<row, price, conflicts, held, made, approved>>

\* The targets are looked over: some turn out to be collected, and the run has
\* an outcome once all are settled.
Conclude ==
  /\ Undisturbed
  /\ \E collected \in SUBSET {t \in Targets : row[t].status = "running" /\ Collected(t)} :
       row' = [t \in Targets |-> [status |-> IF t \in collected THEN "completed" ELSE row[t].status,
                                  confirmed |-> row[t].confirmed]]
  /\ \/ Continued
     \/ /\ \A t \in Targets : row'[t].status \in {"completed", "failed"}
        /\ run'.status = IF \A t \in Targets : row'[t].status = "completed"
                           THEN "completed" ELSE "completed_partial"
  /\ Booked
  /\ UNCHANGED <<price, conflicts, held, made, approved>>

\* The source answers a request.
Ask ==
  /\ made' = made + 1
  /\ UNCHANGED <<run, row, price, conflicts, held, approved, disturbed>>

Approve ==
  /\ approved' > approved
  /\ UNCHANGED <<run, row, price, conflicts, held, made, disturbed>>

\* Another program stores a price.
Rewrite(t, d) ==
  /\ <<t, d>> \in Rewritten
  /\ \E value \in {"same", "differs"} : price' = [price EXCEPT ![t] = [price[t] EXCEPT ![d] = value]]
  /\ UNCHANGED <<run, row, conflicts, held, made, approved, disturbed>>

\* Two commands at the same time overwrite each other's rows; yet they store
\* only what the source has and is missing, confirm and settle only what is
\* stored, and charge nothing that was not asked.
Disturb ==
  /\ disturbed'
  /\ \A t \in Targets, d \in Days :
       price'[t][d] = price[t][d] \/ (price[t][d] = "none" /\ d \in held[t] /\ price'[t][d] = "same")
  /\ \A t \in Targets :
       /\ \A d \in row'[t].confirmed : d \in Expected[t] /\ price'[t][d] # "none"
       /\ row'[t].status = "completed" => \A d \in held[t] : price'[t][d] # "none"
       /\ conflicts[t] \subseteq conflicts'[t]
  /\ made <= made' /\ approved <= approved' /\ run'.used <= made'
  /\ UNCHANGED held

LedgerNext ==
  \/ \E t \in Targets : Collect(t) \/ Settle(t)
  \/ Exhaust \/ Conclude \/ Ask \/ Approve
  \/ \E t \in Targets, d \in Days : Rewrite(t, d)
  \/ Disturb

LedgerSpec == LedgerInit /\ [][LedgerNext]_bvars
=============================================================================
