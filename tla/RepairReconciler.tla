--------------------------- MODULE RepairReconciler ---------------------------
(***************************************************************************)
(* Completed repairs are applied to the canonical prices by                *)
(* scripts/apply_repair_results.py.  One run is one transaction: it lists  *)
(* the completed requests that are not applied, takes each in a savepoint, *)
(* and commits all of them or none.  Runs may overlap, and the daily batch *)
(* upserts the same prices meanwhile.                                      *)
(*                                                                         *)
(* A run has loaded the requests when it lists them; the SELECT ... FOR    *)
(* UPDATE that locks one returns that object, not the locked row.  Rows it *)
(* has written are its own until it commits; a write of a row another run  *)
(* has written waits for that run.  The prices are read twice: once to     *)
(* find conflicts and missing days, once more by the upsert of the missing *)
(* days, which updates the rows that have been committed in between.       *)
(***************************************************************************)
EXTENDS Integers, Sequences, FiniteSets

CONSTANTS
  Runs,        \* concurrent runs of the script
  Repairs,     \* ids of repair requests, in order of completion
  RepairCode,  \* RepairCode[r]: the symbol of a request
  RepairDays   \* RepairDays[r]: the trading days of its result rows

ASSUME RepairsAssumption == Repairs \subseteq Nat \ {0} /\ IsFiniteSet(Repairs)

Codes == {RepairCode[r] : r \in Repairs}
PriceDays == UNION {RepairDays[r] : r \in Repairs}
Cells == {<<RepairCode[r], d>> : r \in Repairs, d \in PriceDays}
CellsOf(r) == {<<RepairCode[r], d>> : d \in RepairDays[r]}

VARIABLES
  repair,     \* crawl_repair_requests with the rows of the attempt that completed
  daily,      \* daily_prices
  targeted,   \* requests whose crawl_target_results row says "fetched"
  applier     \* the runs of the script

reconcilerVars == <<repair, daily, targeted, applier>>

Verdict == {"not_applied", "applied", "conflict", "rejected"}
Values == {"x", "y"}
NoPrice == [value |-> "none", source |-> "none"]
Price == [value : Values, source : {"naver", "kiwoom"}] \cup {NoPrice}

\* todo: the requests listed and not taken yet; at: the one taken; seen: the
\* prices read for it; wrote: prices, verdict: markers of this transaction.
\* before: history, the days that had a price when the run began.
Idle == [todo |-> <<>>, at |-> 0, seen |-> <<>>, wrote |-> <<>>, verdict |-> <<>>, before |-> {}]

ReconcilerTypeOK ==
  /\ repair \in [Repairs -> [done : BOOLEAN, sound : BOOLEAN, value : Values, verdict : Verdict]]
  /\ daily \in [Cells -> Price]
  /\ targeted \subseteq Repairs
  /\ \A u \in Runs :
       /\ applier[u].at \in Repairs \cup {0}
       /\ DOMAIN applier[u].wrote \subseteq Cells /\ applier[u].before \subseteq Cells
       /\ \A r \in DOMAIN applier[u].verdict : applier[u].verdict[r] \in Verdict \ {"not_applied"}

ReconcilerInit ==
  /\ repair = [r \in Repairs |-> [done |-> FALSE, sound |-> FALSE, value |-> "x",
                                  verdict |-> "not_applied"]]
  /\ daily = [c \in Cells |-> NoPrice]
  /\ targeted = {}
  /\ applier = [u \in Runs |-> Idle]

\* The queue completes a request: `sound` if its rows and its attempt pass
\* _validate_completed_results; the prices of one that does not are never used.
CompleteRepair(r) ==
  /\ ~repair[r].done
  /\ \E sound \in BOOLEAN, value \in Values :
       /\ ~sound => value = "x"
       /\ repair' = [repair EXCEPT ![r] = [@ EXCEPT !.done = TRUE, !.sound = sound, !.value = value]]
  /\ UNCHANGED <<daily, targeted, applier>>

\* The daily batch upserts a price.
BatchUpserts(c, value) ==
  /\ \A u \in Runs : c \notin DOMAIN applier[u].wrote
  /\ daily' = [daily EXCEPT ![c] = [value |-> value, source |-> "naver"]]
  /\ UNCHANGED <<repair, targeted, applier>>

Listed == {r \in Repairs : repair[r].done /\ repair[r].verdict = "not_applied"}

InOrder(rs) ==
  [i \in 1..Cardinality(rs) |-> CHOOSE r \in rs : Cardinality({q \in rs : q < r}) = i - 1]

ListReady(u) ==
  /\ applier[u] = Idle /\ Listed # {}
  /\ applier' = [applier EXCEPT ![u] =
       [Idle EXCEPT !.todo = InOrder(Listed), !.before = {c \in Cells : daily[c] # NoPrice}]]
  /\ UNCHANGED <<repair, daily, targeted>>

\* The prices of a request as the run sees them: committed ones and its own.
Visible(u, c) == IF c \in DOMAIN applier[u].wrote THEN applier[u].wrote[c] ELSE daily[c]

\* get_for_application: waits for a run that holds the row, then works on the
\* object loaded by ListReady, whatever that run has made of the row.
LockRequest(u) ==
  LET r == Head(applier[u].todo) IN
  /\ applier[u].at = 0 /\ applier[u].todo # <<>>
  /\ \A v \in Runs \ {u} : r \notin DOMAIN applier[v].verdict /\ applier[v].at # r
  /\ applier' = [applier EXCEPT ![u] =
       [applier[u] EXCEPT !.todo = Tail(@), !.at = r,
                          !.seen = [c \in {c \in CellsOf(r) : Visible(u, c) # NoPrice} |-> Visible(u, c)]]]
  /\ UNCHANGED <<repair, daily, targeted>>

Decided(u, verdict, wrote) ==
  LET a == applier[u] IN
  applier' = [applier EXCEPT ![u] =
    [a EXCEPT !.at = 0, !.seen = <<>>,
              !.wrote = [c \in DOMAIN a.wrote \cup DOMAIN wrote |->
                           IF c \in DOMAIN wrote THEN wrote[c] ELSE a.wrote[c]],
              !.verdict = [r \in DOMAIN a.verdict \cup {a.at} |->
                             IF r = a.at THEN verdict ELSE a.verdict[r]]]]

RejectRequest(u) ==
  /\ applier[u].at # 0 /\ ~repair[applier[u].at].sound
  /\ Decided(u, "rejected", <<>>)
  /\ UNCHANGED <<repair, daily, targeted>>

\* Days on which the canonical price differs.
Conflicts(u) ==
  {c \in DOMAIN applier[u].seen : applier[u].seen[c].value # repair[applier[u].at].value}

MarkConflict(u) ==
  /\ applier[u].at # 0 /\ repair[applier[u].at].sound /\ Conflicts(u) # {}
  /\ Decided(u, "conflict", <<>>)
  /\ UNCHANGED <<repair, daily, targeted>>

\* A run that has written the same price, uncommitted.
Blocked(u, cells) == \E v \in Runs \ {u} : DOMAIN applier[v].wrote \cap cells # {}

\* The days without a canonical price when they were read.
Missing(u) == CellsOf(applier[u].at) \ DOMAIN applier[u].seen

MutApplyRequest(u) ==   \* all days are upserted, not only the missing ones
  /\ applier[u].at # 0 /\ repair[applier[u].at].sound /\ Conflicts(u) = {}
  /\ ~Blocked(u, CellsOf(applier[u].at))
  /\ Decided(u, "applied",
       [c \in CellsOf(applier[u].at) |->
          [value |-> repair[applier[u].at].value, source |-> "kiwoom"]])
  /\ UNCHANGED <<repair, daily, targeted>>

\* save_symbol_prices for the missing days: what it finds when it reads them
\* again, committed since the first read, is updated like any other row.  (A row
\* committed after that second read makes the INSERT raise: AbortRun.)
ApplyRequest(u) ==
  /\ applier[u].at # 0 /\ repair[applier[u].at].sound /\ Conflicts(u) = {}
  /\ ~Blocked(u, Missing(u))
  /\ Decided(u, "applied",
       [c \in Missing(u) |-> [value |-> repair[applier[u].at].value, source |-> "kiwoom"]])
  /\ UNCHANGED <<repair, daily, targeted>>

\* The end of session_scope: prices, target results and markers together.
CommitApplier(u) ==
  /\ applier[u].at = 0 /\ applier[u].todo = <<>> /\ applier[u].verdict # <<>>
  /\ daily' = [c \in Cells |-> Visible(u, c)]
  /\ repair' = [r \in Repairs |->
       IF r \in DOMAIN applier[u].verdict
       THEN [repair[r] EXCEPT !.verdict = applier[u].verdict[r]] ELSE repair[r]]
  /\ targeted' = targeted \cup
       {r \in DOMAIN applier[u].verdict : applier[u].verdict[r] = "applied"}
  /\ applier' = [applier EXCEPT ![u] = Idle]

MutAbortRun(u) ==   \* markers are committed request by request
  /\ applier[u] # Idle
  /\ repair' = [r \in Repairs |->
       IF r \in DOMAIN applier[u].verdict
       THEN [repair[r] EXCEPT !.verdict = applier[u].verdict[r]] ELSE repair[r]]
  /\ applier' = [applier EXCEPT ![u] = Idle]
  /\ UNCHANGED <<daily, targeted>>

\* An exception for one request, or a kill: the whole run is rolled back.
AbortRun(u) ==
  /\ applier[u] # Idle
  /\ applier' = [applier EXCEPT ![u] = Idle]
  /\ UNCHANGED <<repair, daily, targeted>>

ApplierStep(u) ==
  \/ ListReady(u) \/ LockRequest(u) \/ RejectRequest(u) \/ MarkConflict(u)
  \/ ApplyRequest(u) \/ CommitApplier(u) \/ AbortRun(u)

ReconcilerNext ==
  \/ \E r \in Repairs : CompleteRepair(r)
  \/ \E c \in Cells, value \in Values : BatchUpserts(c, value)
  \/ \E u \in Runs : ApplierStep(u)

ReconcilerSpec == ReconcilerInit /\ [][ReconcilerNext]_reconcilerVars

-----------------------------------------------------------------------------
\* A Kiwoom price in the canonical table comes from a sound request that was
\* found free of conflicts, and a request that was applied, or whose target is
\* called fetched, has all its days stored: savepoint, marker and prices stay
\* together through overlapping runs, rollbacks and upserts of the batch.
\* (An overlapping run may replace the marker "applied" by "conflict".)
AppliedIsStored ==
  /\ \A c \in Cells : daily[c].source = "kiwoom" =>
       \E r \in Repairs :
         /\ c \in CellsOf(r) /\ repair[r].sound /\ repair[r].value = daily[c].value
         /\ repair[r].verdict \in {"applied", "conflict"}
  /\ \A r \in Repairs : repair[r].verdict = "applied" \/ r \in targeted =>
       \A c \in CellsOf(r) : daily[c] # NoPrice

\* A price that was there when a run began is the same after its commit, with
\* its source, although the run decides on what it has read, is overtaken by
\* the batch and by other runs, and writes days those have filled meanwhile.
EarlierPricesStay ==
  [][\A u \in Runs : \A c \in applier[u].before :
       applier'[u] = Idle => daily'[c] = daily[c]]_reconcilerVars

\* services/repair_reconciler.py:37-38, "a conflict or a malformed completed
\* result cannot overwrite Naver data": a commit leaves every Naver price as it
\* is.  It does not: a price the batch commits after a run has read its days as
\* missing is replaced, whatever its value.
NaverDataStays ==
  [][\A u \in Runs, c \in Cells :
       applier[u] # Idle /\ applier'[u] = Idle /\ daily[c].source = "naver"
         => daily'[c] = daily[c]]_reconcilerVars

=============================================================================
