---------------------------- MODULE UniverseCanary ----------------------------
(***************************************************************************)
(* Which list of securities the price step follows.  A daily job observes  *)
(* the KRX membership and the Naver symbols; when both snapshots of the    *)
(* job are complete it maps one onto the other and stores the mapping for  *)
(* review.  Operators approve mappings and record one decision per trade   *)
(* date; a market follows KRX only on approved, healthy evidence and falls *)
(* back to Naver otherwise.  Jobs may overlap step by step.                *)
(*                                                                         *)
(* One market, in the canary.  Job 0 is the first observation, from before *)
(* anything was approved.                                                  *)
(***************************************************************************)
EXTENDS Integers, FiniteSets

CONSTANTS
  MaxJobs,      \* daily jobs after the first observation
  Stocks,       \* codes KRX membership covers
  Etfs,         \* codes only Naver lists
  KrxLists,     \* membership lists KRX may publish
  NaverLists,   \* symbol lists Naver may publish
  OperatorDecisions  \* the decisions operators take

ASSUME CanaryAssumption ==
  /\ MaxJobs \in Nat
  /\ IsFiniteSet(Stocks) /\ IsFiniteSet(Etfs) /\ Stocks \cap Etfs = {}
  /\ KrxLists # {} /\ KrxLists \subseteq (SUBSET Stocks) \ {{}}
  /\ NaverLists # {} /\ NaverLists \subseteq (SUBSET (Stocks \cup Etfs)) \ {{}}
  /\ OperatorDecisions \subseteq {"continue", "expand", "rollback"}

CanaryJobs == 0..MaxJobs

VARIABLES
  krxSnap,     \* krx_universe_snapshots of each job with its memberships
  naverSnap,   \* symbol_universe_snapshots of each job
  lastSeen,    \* symbols: last_snapshot_id per code, -1 before the first
  mapped,      \* instruments with a matched provider symbol
  mapping,     \* universe_reconciliation_runs of each job's pair of snapshots
  approvedRun, \* job of the mapping approved last (decided_at), -1 if none
  selection,   \* the universe_selection metadata of each job's price step
  decisions    \* universe_canary_decisions

canaryVars ==
  <<krxSnap, naverSnap, lastSeen, mapped, mapping, approvedRun, selection, decisions>>

NoKrx == [status |-> "none", asOf |-> 0, members |-> {}]
NoNaver == [status |-> "none", seen |-> {}]
NoMapping == [status |-> "none", matched |-> {}]
NoSelection == [authority |-> "none", run |-> -1, offered |-> {}, targets |-> {}]

CanaryTypeOK ==
  /\ approvedRun \in CanaryJobs \cup {-1}
  /\ \A j \in CanaryJobs :
       /\ krxSnap[j].status \in {"none", "incomplete", "completed"}
       /\ naverSnap[j].status \in {"none", "incomplete", "completed"}
       /\ mapping[j].status \in {"none", "pending_review", "approved"}
       /\ selection[j].authority \in {"none", "unresolved", "krx", "naver_last_completed"}
       /\ selection[j].targets \subseteq selection[j].offered
  /\ mapped \subseteq Stocks
  /\ \A d \in decisions : d.decision \in OperatorDecisions

ShortestList(lists) == CHOOSE l \in lists : \A k \in lists : Cardinality(l) <= Cardinality(k)

CanaryInit ==
  LET first == ShortestList(KrxLists) seen == ShortestList(NaverLists) IN
  /\ krxSnap = [j \in CanaryJobs |->
       IF j = 0 THEN [status |-> "completed", asOf |-> 0, members |-> first] ELSE NoKrx]
  /\ naverSnap = [j \in CanaryJobs |->
       IF j = 0 THEN [status |-> "completed", seen |-> seen] ELSE NoNaver]
  /\ lastSeen = [c \in Stocks \cup Etfs |-> IF c \in seen THEN 0 ELSE -1]
  /\ mapped = first \cap seen
  /\ mapping = [j \in CanaryJobs |->
       IF j = 0 THEN [status |-> "pending_review", matched |-> first \cap seen] ELSE NoMapping]
  /\ approvedRun = -1
  /\ selection = [j \in CanaryJobs |->
       IF j = 0 THEN [authority |-> "naver_last_completed", run |-> -1, offered |-> seen,
                      targets |-> seen]
       ELSE NoSelection]
  /\ decisions = {}

\* A job starts when the one before has synchronised its symbols, and the one
\* before that has chosen its targets: at most two are at work (a bound).
Started(j) ==
  /\ j > 0 /\ naverSnap[j - 1] # NoNaver
  /\ j > 1 => selection[j - 2] # NoSelection

KrxFeeds == {"stk_bydd_trd", "ksq_bydd_trd"}

\* parse_krx_membership: a list without rows was not published; a row of
\* another day or market, a bad or repeated code refuses the whole list, as a
\* failed request does.
FeedAnswers == {"members", "no data", "error"}

\* _fetch_membership: complete when no feed failed.  Nothing reads the members
\* or the day of a list that is not.
Fetched(answers, day, members) ==
  IF \A feed \in KrxFeeds : answers[feed] = "members"
  THEN [status |-> "completed", asOf |-> day, members |-> members]
  ELSE [status |-> "incomplete", asOf |-> 0, members |-> {}]

NotPublished(answers) == \A feed \in KrxFeeds : answers[feed] = "no data"

\* fetch_latest_stock_membership: only when neither feed has the day yet, the
\* open day before is asked for, once.
LatestFetched(j, answers, members) ==
  IF NotPublished(answers)
  THEN {Fetched(again, j - 1, members) : again \in [KrxFeeds -> FeedAnswers]}
  ELSE {Fetched(answers, j, members)}

\* The shadow snapshot of a job.  A partial or refused answer is kept as what
\* it is (its members are stored and never read).  The step may also be off or
\* fail altogether.
KrxShadow(j) ==
  /\ Started(j) /\ krxSnap[j] = NoKrx /\ naverSnap[j] = NoNaver
  /\ \E answers \in [KrxFeeds -> FeedAnswers], members \in KrxLists :
     \E snapshot \in LatestFetched(j, answers, members) :
       krxSnap' = [krxSnap EXCEPT ![j] = snapshot]
  /\ UNCHANGED <<naverSnap, lastSeen, mapped, mapping, approvedRun, selection, decisions>>

\* Whatever was fetched is upserted, a partial list too; only a complete list
\* makes a completed snapshot.
SyncSymbols(j) ==
  /\ Started(j) /\ naverSnap[j] = NoNaver
  /\ \E seen \in NaverLists, status \in {"incomplete", "completed"} :
       /\ naverSnap' = [naverSnap EXCEPT ![j] = [status |-> status, seen |-> seen]]
       /\ lastSeen' = [c \in DOMAIN lastSeen |-> IF c \in seen THEN j ELSE lastSeen[c]]
  /\ UNCHANGED <<krxSnap, mapped, mapping, approvedRun, selection, decisions>>

KnownSymbols == {c \in DOMAIN lastSeen : lastSeen[c] >= 0}

BothCompleted(j) == krxSnap[j].status = "completed" /\ naverSnap[j].status = "completed"

\* Exact matches against the symbols that still carry this job's snapshot.
Matches(j) == {c \in krxSnap[j].members : lastSeen[c] = j}

\* universe_mapping_rate_threshold = 0.995
Healthy(j) ==
  Cardinality(mapping[j].matched) * 1000 >= 995 * Cardinality(krxSnap[j].members)

MutKrxStatus(j) == "completed"   \* an earlier complete snapshot masks today's

\* A job without a KRX snapshot is judged by the approved one.
KrxStatus(j) == IF krxSnap[j] = NoKrx THEN "completed" ELSE krxSnap[j].status

\* build_price_targets: members of the approved snapshot with a mapped symbol.
Eligible(run) == IF run = -1 THEN {} ELSE krxSnap[run].members \cap mapped'

\* choose_universe_authority, and the market's fallbacks.
FollowsKrx(j, run) ==
  run # -1 /\ KrxStatus(j) = "completed" /\ Healthy(run) /\ Eligible(run) # {}

\* run_universe_reconciliation: stored for review, whatever it matched.
Reconciled(j) == [status |-> "pending_review", matched |-> Matches(j)]

\* materialize_completed_universe ...
Materialize(j) ==
  IF BothCompleted(j)
  THEN /\ mapped' = mapped \cup Matches(j)
       /\ mapping' = [mapping EXCEPT ![j] = Reconciled(j)]
  ELSE UNCHANGED <<mapped, mapping>>

\* ... then select_price_targets.
SelectTargets(j) ==
  /\ naverSnap[j] # NoNaver /\ selection[j] = NoSelection
  /\ Materialize(j)
  /\ LET krx == FollowsKrx(j, approvedRun) IN
     selection' = [selection EXCEPT ![j] =
       [authority |-> IF krx THEN "krx" ELSE "naver_last_completed",
        run |-> approvedRun, offered |-> KnownSymbols,
        targets |-> IF krx THEN KnownSymbols \cap (Eligible(approvedRun) \cup Etfs) ELSE KnownSymbols]]
  /\ UNCHANGED <<krxSnap, naverSnap, lastSeen, approvedRun, decisions>>

\* The resolver raised: the price step follows Naver and keeps no metadata.
SelectionFails(j) ==
  /\ naverSnap[j] # NoNaver /\ selection[j] = NoSelection
  /\ selection' = [selection EXCEPT ![j] =
       [authority |-> "unresolved", run |-> -1, offered |-> KnownSymbols, targets |-> KnownSymbols]]
  /\ UNCHANGED <<krxSnap, naverSnap, lastSeen, mapped, mapping, approvedRun, decisions>>

ApproveRun(j) ==
  /\ mapping[j].status = "pending_review"
  /\ mapping' = [mapping EXCEPT ![j].status = "approved"]
  /\ approvedRun' = j
  /\ UNCHANGED <<krxSnap, naverSnap, lastSeen, mapped, selection, decisions>>

MutPriorContinues(day) ==   \* whatever their trade date
  {d \in decisions : d.authority = "krx" /\ d.decision = "continue"}

PriorContinues(day) ==
  {d \in decisions : d.authority = "krx" /\ d.decision = "continue" /\ d.day < day}

RecordDecision(j, decision) ==
  /\ selection[j].authority \in {"krx", "naver_last_completed"}
  /\ BothCompleted(j)
  /\ selection[j].authority = "krx" =>
       /\ mapping[j].status = "approved" /\ mapping[selection[j].run].status = "approved"
       /\ Healthy(j)
  /\ decision = "expand" => Cardinality(PriorContinues(krxSnap[j].asOf)) >= 2
  /\ \A d \in decisions : d.day # krxSnap[j].asOf
  /\ decisions' = decisions \cup
       {[day |-> krxSnap[j].asOf, job |-> j, authority |-> selection[j].authority,
         decision |-> decision]}
  /\ UNCHANGED <<krxSnap, naverSnap, lastSeen, mapped, mapping, approvedRun, selection>>

CanaryNext ==
  \E j \in CanaryJobs :
    \/ KrxShadow(j) \/ SyncSymbols(j) \/ SelectTargets(j) \/ SelectionFails(j)
    \/ ApproveRun(j)
    \/ \E decision \in OperatorDecisions : RecordDecision(j, decision)

CanarySpec == CanaryInit /\ [][CanaryNext]_canaryVars

-----------------------------------------------------------------------------
\* sync_prices.py:346 "A previous completed KRX snapshot must not mask a
\* current partial/failed observation": a job follows KRX only if its own
\* observation did not fail, on an approved mapping.  Each stock it then
\* follows was seen by KRX and by Naver in complete snapshots of one job, and
\* no security outside the KRX scope is dropped.
KrxTargetsAreEvidenced ==
  \A j \in CanaryJobs : selection[j].authority = "krx" =>
    /\ krxSnap[j].status # "incomplete"
    /\ mapping[selection[j].run].status = "approved"
    /\ \A c \in selection[j].targets \cap Stocks :
         /\ c \in krxSnap[selection[j].run].members
         /\ \E i \in CanaryJobs :
              BothCompleted(i) /\ c \in krxSnap[i].members \cap naverSnap[i].seen
    /\ selection[j].offered \cap Etfs \subseteq selection[j].targets

\* A decision to expand stands on two continue decisions of different earlier
\* trade dates, and every one of the three on a job that followed KRX or on
\* complete snapshots whose approved mapping is healthy - whatever order jobs,
\* approvals and decisions came in, and however often a date was observed.
ExpandIsEarned ==
  \A d \in decisions :
    /\ d.decision = "expand" =>
         \E a, b \in decisions :
           /\ a.day < b.day /\ b.day < d.day
           /\ \A x \in {a, b} : x.decision = "continue" /\ x.authority = "krx"
    /\ BothCompleted(d.job)
    /\ d.authority = "krx" => mapping[d.job].status = "approved" /\ Healthy(d.job)

=============================================================================
