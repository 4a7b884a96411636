---------------------------- MODULE UniverseAudit ----------------------------
(***************************************************************************)
(* The Naver symbol universe and the audited removal of symbols from it.   *)
(* Each sync fetches the list, judges whether it is complete, upserts what *)
(* it fetched (which activates it) and closes its snapshot.  Nothing is    *)
(* removed by a sync: an operator has a report built, stores it as an      *)
(* audit run, approves its decisions one by one and applies the run.  Each *)
(* of these is a command of its own, and syncs happen between any two of   *)
(* them.  A report proposes the active symbols whose code no source can    *)
(* list any more and, if there is a complete snapshot, those it holds to   *)
(* be missing from it.                                                     *)
(***************************************************************************)
EXTENDS Integers, Sequences, FiniteSets

CONSTANTS
  Symbols,      \* codes of securities
  LegacyCodes,  \* of them, rows of earlier imports whose code is not six letters or digits
  MinRatio,     \* universe_min_symbol_ratio, in percent
  MaxSyncs,     \* bound on syncs
  MaxAudits     \* bound on audit runs

ASSUME AuditAssumption ==
  /\ LegacyCodes \subseteq Symbols
  /\ MinRatio \in 0..100 /\ MaxSyncs \in Nat /\ MaxAudits \in Nat

VARIABLES
  symbol,      \* symbols rows: known, active, snap (last_snapshot_id), legacy
  snapshots,   \* symbol_universe_snapshots: status and the codes fetched
  report,      \* the report an operator has built and not stored
  audits,      \* universe_audit_runs: status and decisions per code
  removals     \* history: how often each symbol was deactivated

auditVars == <<symbol, snapshots, report, audits, removals>>

\* snap: the snapshot it is based on, 0: none.
NoReport == [built |-> FALSE, snap |-> 0, codes |-> {}]
NoSymbol == [known |-> FALSE, active |-> FALSE, snap |-> 0, legacy |-> 0]

AuditTypeOK ==
  /\ \A c \in Symbols :
       /\ symbol[c].snap \in 0..Len(snapshots) /\ symbol[c].legacy \in 0..Len(audits)
       /\ symbol[c].active => symbol[c].known
  /\ \A i \in 1..Len(snapshots) : snapshots[i].status \in {"completed", "partial", "failed"}
  /\ report.snap \in 0..Len(snapshots)
  /\ \A r \in 1..Len(audits) :
       /\ audits[r].snap \in 0..Len(snapshots)
       /\ audits[r].status \in {"pending", "approved", "applied"}
       /\ \A c \in DOMAIN audits[r].decision :
            audits[r].decision[c] \in {"pending", "approved", "applied"}

AuditInit ==
  /\ symbol = [c \in Symbols |->
       IF c \in LegacyCodes THEN [NoSymbol EXCEPT !.known = TRUE, !.active = TRUE] ELSE NoSymbol]
  /\ snapshots = <<>>
  /\ report = NoReport
  /\ audits = <<>>
  /\ removals = [c \in Symbols |-> 0]

ActiveSymbols == {c \in Symbols : symbol[c].active}

\* _validate_universe_completeness with one market: enough of the symbols that
\* are active, or one symbol when none is.
BelowMinimum(codes) ==
  IF ActiveSymbols = {} THEN codes = {}
  ELSE \/ Cardinality(codes) * 100 < MinRatio * Cardinality(ActiveSymbols)
       \/ codes = {}

\* `codes`: the valid distinct rows; `clean`: every page was read to its end
\* and no row was invalid.
SnapshotStatus(codes, clean) ==
  IF codes # {} /\ clean /\ ~BelowMinimum(codes) THEN "completed"
  ELSE IF codes # {} THEN "partial" ELSE "failed"

SyncUniverse(codes, clean) ==
  /\ Len(snapshots) < MaxSyncs
  /\ snapshots' = Append(snapshots, [status |-> SnapshotStatus(codes, clean), codes |-> codes])
  /\ symbol' = [c \in Symbols |->
       IF c \in codes
       THEN [symbol[c] EXCEPT !.known = TRUE, !.active = TRUE, !.snap = Len(snapshots) + 1]
       ELSE symbol[c]]
  /\ UNCHANGED <<report, audits, removals>>

\* The fetch or the upsert raised: the savepoint is undone.
SyncUniverseFails ==
  /\ Len(snapshots) < MaxSyncs
  /\ snapshots' = Append(snapshots, [status |-> "failed", codes |-> {}])
  /\ UNCHANGED <<symbol, report, audits, removals>>

CompletedSnapshots == {i \in 1..Len(snapshots) : snapshots[i].status = "completed"}

LatestCompleted == CHOOSE i \in CompletedSnapshots : \A k \in CompletedSnapshots : k <= i

\* _latest_completed_snapshot: --snapshot-id names any complete snapshot,
\* without it the latest one is taken; there may be none.
Basis == IF CompletedSnapshots = {} THEN {0} ELSE CompletedSnapshots

\* The active symbols whose code is invalid, or whose row carries another
\* snapshot than the one the report is based on.
BuildAuditReport(s) ==
  /\ Len(audits) < MaxAudits
  /\ report = NoReport
  /\ report' = [built |-> TRUE, snap |-> s,
                codes |-> {c \in ActiveSymbols : c \in LegacyCodes \/ (s # 0 /\ symbol[c].snap # s)}]
  /\ UNCHANGED <<symbol, snapshots, audits, removals>>

\* --create-run, in a session of its own.
CreateAuditRun ==
  /\ report.built
  /\ audits' = Append(audits,
       [status |-> "pending", snap |-> report.snap,
        decision |-> [c \in report.codes |-> "pending"]])
  /\ report' = NoReport
  /\ UNCHANGED <<symbol, snapshots, removals>>

ApproveDeactivation(r, c) ==
  /\ audits[r].decision[c] = "pending"
  /\ audits' = [audits EXCEPT
       ![r].decision[c] = "approved",
       ![r].status = IF @ = "pending" THEN "approved" ELSE @]
  /\ UNCHANGED <<symbol, snapshots, report, removals>>

MutApplicable(r) ==   \* applied decisions are taken again
  {c \in DOMAIN audits[r].decision :
     audits[r].decision[c] \in {"approved", "applied"} /\ symbol[c].active}

\* Approved decisions whose symbol is active; the others stay approved.
Applicable(r) ==
  {c \in DOMAIN audits[r].decision :
     audits[r].decision[c] = "approved" /\ symbol[c].active}

ApplyAuditRun(r) ==
  /\ Applicable(r) # {}
  /\ symbol' = [c \in Symbols |->
       IF c \in Applicable(r) THEN [symbol[c] EXCEPT !.active = FALSE, !.legacy = r]
       ELSE symbol[c]]
  /\ audits' = [audits EXCEPT
       ![r].status = "applied",
       ![r].decision = [c \in DOMAIN @ |-> IF c \in Applicable(r) THEN "applied" ELSE @[c]]]
  /\ removals' = [c \in Symbols |-> removals[c] + IF c \in Applicable(r) THEN 1 ELSE 0]
  /\ UNCHANGED <<snapshots, report>>

AuditNext ==
  \/ \E codes \in SUBSET (Symbols \ LegacyCodes), clean \in BOOLEAN : SyncUniverse(codes, clean)
  \/ SyncUniverseFails
  \/ \E s \in Basis : BuildAuditReport(s)
  \/ CreateAuditRun
  \/ \E r \in 1..Len(audits) :
       \/ \E c \in DOMAIN audits[r].decision : ApproveDeactivation(r, c)
       \/ ApplyAuditRun(r)

AuditSpec == AuditInit /\ [][AuditNext]_auditVars

-----------------------------------------------------------------------------
\* One approval removes a symbol at most once: a symbol was deactivated exactly
\* as often as decisions about it were applied, though a sync lists it again
\* and the run is applied again, and each removal is traced to its latest audit
\* run.  A decision about a code a source could list rests on a snapshot that
\* was complete, from which the symbol was missing or after which another sync
\* has listed it.
RemovalsAreApproved ==
  /\ \A c \in Symbols :
       /\ removals[c] = Cardinality({r \in 1..Len(audits) :
            c \in DOMAIN audits[r].decision /\ audits[r].decision[c] = "applied"})
       /\ symbol[c].known /\ ~symbol[c].active =>
            /\ symbol[c].legacy # 0
            /\ audits[symbol[c].legacy].decision[c] = "applied"
            /\ audits[symbol[c].legacy].status = "applied"
  /\ \A r \in 1..Len(audits) : \A c \in DOMAIN audits[r].decision \ LegacyCodes :
       LET s == audits[r].snap IN
       /\ s \in CompletedSnapshots
       /\ c \in snapshots[s].codes => symbol[c].snap > s

\* docs/prd-crawling-reliability-hermes.md:371 and :118, only symbols missing
\* from a complete snapshot are deactivated: a symbol that is removed, with a
\* code a source could list, is missing from the latest complete snapshot.  It
\* need not be: the report takes a symbol whose row carries another snapshot
\* for missing, though a later partial sync has written it, and the decision
\* is applied although a complete sync has listed the symbol again since.
RemovedIsMissing ==
  [][\A c \in Symbols \ LegacyCodes :
       symbol[c].active /\ ~symbol'[c].active =>
         CompletedSnapshots # {} /\ c \notin snapshots[LatestCompleted].codes]_auditVars

=============================================================================
