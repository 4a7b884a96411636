---------------------------- MODULE UniverseProofs ----------------------------
(***************************************************************************)
(* What the symbol universe's components guarantee for every set of        *)
(* symbols and any number of syncs, audits and runs, each from an          *)
(* inductive invariant of its own.                                         *)
(***************************************************************************)
EXTENDS UniverseAudit, UniverseCanary, NaverUniverse, InstrumentIdentity,
        FiniteSetTheorems, SequenceTheorems, WellFoundedInduction, TLAPS

\* A bounded nonempty set of numbers has a largest one.
LEMMA LargestNumber ==
  ASSUME NEW n \in Nat, NEW T \in SUBSET (0..n), T # {}
  PROVE  \E m \in T : \A t \in T : t <= m
<1> DEFINE U == {k \in Nat : k <= n /\ n - k \in T}
<1>0. \A t \in T : t \in Nat /\ t <= n
  OBVIOUS
<1>1. U \subseteq Nat /\ U # {}
  <2>1. PICK t \in T : t \in 0..n
    OBVIOUS
  <2>2. n - t \in U
    BY <2>1
  <2>3. QED
    BY <2>2
<1>2. IsWellFoundedOn(OpToRel(<, Nat), Nat)
  BY NatLessThanWellFounded
<1>3. PICK k \in U : \A j \in U : ~ (<<j, k>> \in OpToRel(<, Nat))
  BY <1>1, <1>2, WFMin
<1>4. \A j \in U : ~ (j < k)
  BY <1>1, <1>3 DEF OpToRel
<1>5. n - k \in T /\ \A t \in T : t <= n - k
  <2>1. ASSUME NEW t \in T, t > n - k PROVE FALSE
    <3>1. t \in 0..n /\ k \in 0..n
      BY <1>0, <2>1
    <3>2. n - (n - t) = t /\ n - t \in Nat /\ n - t <= n /\ n - t < k
      BY <2>1, <3>1
    <3>3. n - t \in U
      BY <3>2
    <3>4. QED
      BY <1>4, <3>2, <3>3
  <2>2. k \in Nat /\ n - k \in T
    OBVIOUS
  <2>3. \A t \in T : ~ (t > n - k)
    BY <2>1
  <2>4. QED
    BY <1>0, <2>2, <2>3
<1>6. QED
  BY <1>5

-----------------------------------------------------------------------------
(***************************************************************************)
(* The audit of the universe.  A symbol's removals are the applied         *)
(* decisions about it, over every run.  The row of a symbol carries the    *)
(* latest snapshot that lists it or a later one, so a row with another     *)
(* snapshot than a report's is of a symbol which that snapshot misses or a *)
(* later sync has listed, and stays so.                                    *)
(***************************************************************************)
AuditDecisions == {"pending", "approved", "applied"}

SymbolRow == [known : BOOLEAN, active : BOOLEAN, snap : Nat, legacy : Nat]
SnapshotRow == [status : {"completed", "partial", "failed"}, codes : SUBSET Symbols]
AuditRow == [status : AuditDecisions, snap : Nat,
             decision : UNION {[E -> AuditDecisions] : E \in SUBSET Symbols}]

AuditShapes ==
  /\ symbol \in [Symbols -> SymbolRow]
  /\ removals \in [Symbols -> Nat]
  /\ snapshots \in Seq(SnapshotRow)
  /\ audits \in Seq(AuditRow)

ListedIsRecorded ==
  \A i \in 1..Len(snapshots) : \A c \in snapshots[i].codes : symbol[c].snap >= i

\* What a decision about c rests on, s being the snapshot of its run.
EvidenceFor(c, s) ==
  /\ s \in CompletedSnapshots
  /\ c \in snapshots[s].codes => symbol[c].snap > s

EvidenceIsComplete ==
  /\ report.codes \subseteq Symbols
  /\ \A c \in report.codes \ LegacyCodes : EvidenceFor(c, report.snap)
  /\ \A r \in 1..Len(audits) : \A c \in DOMAIN audits[r].decision \ LegacyCodes :
       EvidenceFor(c, audits[r].snap)

\* The runs in which a decision about a symbol was applied.
AppliedRuns(c) ==
  {r \in 1..Len(audits) : c \in DOMAIN audits[r].decision /\ audits[r].decision[c] = "applied"}

RemovalsAreTraced ==
  \A c \in Symbols :
    /\ removals[c] = Cardinality(AppliedRuns(c))
    /\ symbol[c].known /\ ~symbol[c].active =>
         symbol[c].legacy \in AppliedRuns(c) /\ audits[symbol[c].legacy].status = "applied"

AuditInv ==
  AuditTypeOK /\ AuditShapes /\ ListedIsRecorded /\ EvidenceIsComplete /\ RemovalsAreTraced

\* The invariant says what the run checks.
LEMMA AuditInvIsEnough == AuditInv => AuditTypeOK /\ RemovalsAreApproved
<1> SUFFICES ASSUME AuditInv PROVE RemovalsAreApproved
  BY DEF AuditInv
<1>1. Len(audits) \in Nat
  BY DEF AuditInv, AuditShapes
<1>2. QED
  BY <1>1 DEF AuditInv, EvidenceIsComplete, EvidenceFor, RemovalsAreTraced, RemovalsAreApproved,
       AppliedRuns

\* Nothing is listed and nothing removed at the start.
LEMMA AuditInitInv == AuditInit => AuditInv
<1> SUFFICES ASSUME AuditInit PROVE AuditInv
  OBVIOUS
<1>1. /\ Len(snapshots) = 0 /\ Len(audits) = 0 /\ 1..0 = {}
      /\ snapshots \in Seq(SnapshotRow) /\ audits \in Seq(AuditRow)
      /\ report.snap = 0 /\ report.codes = {} /\ removals = [c \in Symbols |-> 0]
  <2>1. /\ snapshots = <<>> /\ audits = <<>> /\ report = NoReport
        /\ removals = [c \in Symbols |-> 0]
    BY Zenon DEF AuditInit
  <2>2. QED
    BY <2>1, EmptySeq DEF NoReport
<1>2. \A c \in Symbols :
        /\ symbol[c] \in SymbolRow /\ symbol[c].snap = 0 /\ symbol[c].legacy = 0
        /\ symbol[c].active <=> symbol[c].known
  BY DEF AuditInit, NoSymbol, SymbolRow
<1>3. symbol \in [Symbols -> SymbolRow]
  <2>1. symbol = [c \in Symbols |-> symbol[c]]
    BY DEF AuditInit
  <2>2. QED
    BY <1>2, <2>1
<1>4. AuditTypeOK
  BY <1>1, <1>2 DEF AuditTypeOK
<1>5. AuditShapes /\ ListedIsRecorded /\ EvidenceIsComplete
  BY <1>1, <1>3 DEF AuditShapes, ListedIsRecorded, EvidenceIsComplete
<1>6. RemovalsAreTraced
  <2>1. \A c : AppliedRuns(c) = {}
    BY <1>1 DEF AppliedRuns
  <2>2. QED
    BY <1>1, <1>2, <2>1, FS_EmptySet DEF RemovalsAreTraced
<1>7. QED
  BY <1>4, <1>5, <1>6 DEF AuditInv

\* A snapshot more leaves every earlier one as it was.
LEMMA SnapshotAppended ==
  ASSUME AuditInv, NEW s \in SnapshotRow,
         snapshots' = Append(snapshots, s)
  PROVE  /\ Len(snapshots') = Len(snapshots) + 1 /\ Len(snapshots) \in Nat
         /\ snapshots' \in Seq(SnapshotRow)
         /\ \A i \in 1..Len(snapshots') : snapshots'[i].status \in {"completed", "partial", "failed"}
         /\ CompletedSnapshots \subseteq CompletedSnapshots'
         /\ snapshots'[Len(snapshots) + 1] = s
         /\ \A i \in 1..Len(snapshots) : snapshots'[i] = snapshots[i]
<1>1. snapshots \in Seq(SnapshotRow)
  BY DEF AuditInv, AuditShapes
<1>2. /\ Len(snapshots') = Len(snapshots) + 1 /\ Len(snapshots) \in Nat
      /\ snapshots' \in Seq(SnapshotRow)
      /\ snapshots'[Len(snapshots) + 1] = s
      /\ \A i \in 1..Len(snapshots) : snapshots'[i] = snapshots[i]
  BY <1>1, AppendProperties
<1>3. \A i \in 1..Len(snapshots') : snapshots'[i].status \in {"completed", "partial", "failed"}
  BY <1>2 DEF AuditInv, AuditTypeOK, SnapshotRow
<1>4. CompletedSnapshots \subseteq CompletedSnapshots'
  BY <1>2 DEF CompletedSnapshots
<1>5. QED
  BY <1>2, <1>3, <1>4

\* What decisions rest on stays while snapshots stay and rows move to later
\* snapshots only.
LEMMA EvidenceStays ==
  ASSUME AuditInv, \A c \in Symbols : symbol'[c].snap >= symbol[c].snap,
         symbol' \in [Symbols -> SymbolRow],
         CompletedSnapshots \subseteq CompletedSnapshots',
         \A i \in 1..Len(snapshots) : snapshots'[i] = snapshots[i]
  PROVE  \A c \in Symbols, s \in Nat : EvidenceFor(c, s) => EvidenceFor(c, s)'
<1> SUFFICES ASSUME NEW c \in Symbols, NEW s \in Nat, EvidenceFor(c, s)
             PROVE  EvidenceFor(c, s)'
  OBVIOUS
<1>1. symbol[c].snap \in Nat /\ symbol'[c].snap \in Nat /\ symbol'[c].snap >= symbol[c].snap
  BY DEF AuditInv, AuditShapes, SymbolRow
<1>2. s \in CompletedSnapshots' /\ snapshots'[s] = snapshots[s]
  BY DEF EvidenceFor, CompletedSnapshots
<1>3. QED
  BY <1>1, <1>2 DEF EvidenceFor

\* The same of all that reports and runs rest on, while they stay.
LEMMA EvidenceKept ==
  ASSUME AuditInv, \A c \in Symbols : symbol'[c].snap >= symbol[c].snap,
         symbol' \in [Symbols -> SymbolRow],
         CompletedSnapshots \subseteq CompletedSnapshots',
         \A i \in 1..Len(snapshots) : snapshots'[i] = snapshots[i],
         report' = report, Len(audits') = Len(audits),
         \A r \in 1..Len(audits) :
           audits'[r].snap = audits[r].snap /\ DOMAIN audits'[r].decision = DOMAIN audits[r].decision
  PROVE  EvidenceIsComplete'
<1>1. \A c \in Symbols, s \in Nat : EvidenceFor(c, s) => EvidenceFor(c, s)'
  BY EvidenceStays
<1>2. ASSUME NEW c \in report.codes \ LegacyCodes, NEW s \in Nat, report.snap = s
      PROVE  EvidenceFor(c, s)'
  BY <1>1, <1>2 DEF AuditInv, EvidenceIsComplete
<1>3. ASSUME NEW r \in 1..Len(audits), NEW c \in DOMAIN audits[r].decision \ LegacyCodes,
             NEW s \in Nat, audits[r].snap = s
      PROVE  EvidenceFor(c, s)'
  <2>1. audits[r] \in AuditRow
    BY ElementOfSeq DEF AuditInv, AuditShapes
  <2>2. c \in Symbols
    BY <2>1 DEF AuditRow
  <2>3. QED
    BY <1>1, <1>3, <2>2 DEF AuditInv, EvidenceIsComplete
<1>4. report.snap \in Nat /\ \A r \in 1..Len(audits) : audits[r].snap \in Nat
  BY DEF AuditInv, AuditTypeOK
<1>5. QED
  BY <1>2, <1>3, <1>4 DEF AuditInv, EvidenceIsComplete, EvidenceFor, CompletedSnapshots

\* A sync adds a snapshot and activates what it fetched; it removes nothing.
LEMMA SyncKeepsAudit ==
  ASSUME AuditInv,
         \/ \E codes \in SUBSET Symbols, clean \in BOOLEAN : SyncUniverse(codes, clean)
         \/ SyncUniverseFails
  PROVE  AuditInv'
<1>1. PICK s \in SnapshotRow :
        /\ UNCHANGED <<report, audits, removals>>
        /\ snapshots' = Append(snapshots, s)
        /\ \A c \in s.codes : symbol'[c].snap = Len(snapshots) + 1
  <2>1. CASE \E codes \in SUBSET Symbols, clean \in BOOLEAN : SyncUniverse(codes, clean)
    <3>1. PICK codes \in SUBSET Symbols, clean \in BOOLEAN : SyncUniverse(codes, clean)
      BY <2>1
    <3>2. [status |-> SnapshotStatus(codes, clean), codes |-> codes] \in SnapshotRow
      BY DEF SnapshotRow, SnapshotStatus
    <3>3. \A c \in codes : symbol'[c].snap = Len(snapshots) + 1
      <4>1. \A c \in codes : symbol[c] \in SymbolRow
        BY DEF AuditInv, AuditShapes
      <4>2. \A c \in codes : symbol'[c] =
              [symbol[c] EXCEPT !.known = TRUE, !.active = TRUE, !.snap = Len(snapshots) + 1]
        BY <3>1 DEF SyncUniverse
      <4>3. QED
        BY <4>1, <4>2 DEF SymbolRow
    <3>4. QED
      BY <3>1, <3>2, <3>3 DEF SyncUniverse
  <2>2. CASE SyncUniverseFails
    <3>1. [status |-> "failed", codes |-> {}] \in SnapshotRow
      BY DEF SnapshotRow
    <3>2. QED
      BY <2>2, <3>1 DEF SyncUniverseFails
  <2>3. QED
    BY <2>1, <2>2
<1>2. /\ Len(snapshots') = Len(snapshots) + 1 /\ Len(snapshots) \in Nat
      /\ snapshots' \in Seq(SnapshotRow)
      /\ \A i \in 1..Len(snapshots') : snapshots'[i].status \in {"completed", "partial", "failed"}
      /\ CompletedSnapshots \subseteq CompletedSnapshots'
      /\ snapshots'[Len(snapshots) + 1] = s
      /\ \A i \in 1..Len(snapshots) : snapshots'[i] = snapshots[i]
  BY <1>1, SnapshotAppended
<1>3. /\ symbol' \in [Symbols -> SymbolRow]
      /\ \A c \in Symbols :
           \/ symbol'[c] = symbol[c]
           \/ /\ symbol'[c].known /\ symbol'[c].active
              /\ symbol'[c].snap = Len(snapshots) + 1 /\ symbol'[c].legacy = symbol[c].legacy
  <2>1. symbol \in [Symbols -> SymbolRow]
    BY DEF AuditInv, AuditShapes
  <2>2. CASE \E codes \in SUBSET Symbols, clean \in BOOLEAN : SyncUniverse(codes, clean)
    <3>1. PICK codes \in SUBSET Symbols :
            symbol' = [c \in Symbols |->
              IF c \in codes
              THEN [symbol[c] EXCEPT !.known = TRUE, !.active = TRUE, !.snap = Len(snapshots) + 1]
              ELSE symbol[c]]
      BY <2>2 DEF SyncUniverse
    <3>2. ASSUME NEW c \in Symbols, c \in codes
          PROVE  /\ symbol'[c] \in SymbolRow
                 /\ symbol'[c].known /\ symbol'[c].active
                 /\ symbol'[c].snap = Len(snapshots) + 1 /\ symbol'[c].legacy = symbol[c].legacy
      <4>1. symbol[c] \in SymbolRow
        BY <2>1
      <4>2. symbol'[c] = [symbol[c] EXCEPT !.known = TRUE, !.active = TRUE, !.snap = Len(snapshots) + 1]
        BY <3>1, <3>2
      <4>3. Len(snapshots) + 1 \in Nat
        BY <1>2
      <4>4. QED
        BY <4>1, <4>2, <4>3 DEF SymbolRow
    <3>3. \A c \in Symbols : c \notin codes => symbol'[c] = symbol[c]
      BY <3>1
    <3>4. DOMAIN symbol' = Symbols /\ symbol' = [c \in Symbols |-> symbol'[c]]
      BY <3>1
    <3>5. QED
      BY <2>1, <3>2, <3>3, <3>4
  <2>3. CASE SyncUniverseFails
    BY <2>1, <2>3 DEF SyncUniverseFails
  <2>4. QED
    BY <2>2, <2>3
<1>4. AuditTypeOK'
  <2>1. \A c \in Symbols :
          /\ symbol'[c].snap \in 0..Len(snapshots') /\ symbol'[c].legacy \in 0..Len(audits)
          /\ symbol'[c].active => symbol'[c].known
    BY <1>2, <1>3 DEF AuditInv, AuditTypeOK
  <2>2. QED
    BY <1>1, <1>2, <2>1 DEF AuditInv, AuditTypeOK
<1>5. AuditShapes'
  BY <1>1, <1>2, <1>3 DEF AuditInv, AuditShapes
<1>6. RemovalsAreTraced'
  BY <1>1, <1>3 DEF AuditInv, RemovalsAreTraced, AppliedRuns
<1>7. \A c \in Symbols :
        symbol[c].snap \in Nat /\ symbol'[c].snap \in Nat /\ symbol'[c].snap >= symbol[c].snap
  BY <1>2, <1>3 DEF AuditInv, AuditTypeOK
<1>8. ListedIsRecorded'
  <2>1. ASSUME NEW i \in 1..Len(snapshots'), NEW c \in snapshots'[i].codes
        PROVE  symbol'[c].snap >= i
    <3>1. CASE i = Len(snapshots) + 1
      BY <1>1, <1>2, <2>1, <3>1
    <3>2. CASE i \in 1..Len(snapshots)
      <4>1. snapshots[i] \in SnapshotRow /\ c \in snapshots[i].codes
        BY <1>2, <2>1, <3>2, ElementOfSeq DEF AuditInv, AuditShapes
      <4>2. c \in Symbols /\ symbol[c].snap >= i
        BY <3>2, <4>1 DEF AuditInv, ListedIsRecorded, SnapshotRow
      <4>3. QED
        BY <1>7, <3>2, <4>2
    <3>3. QED
      BY <1>2, <3>1, <3>2
  <2>2. QED
    BY <2>1 DEF ListedIsRecorded
<1>9. EvidenceIsComplete'
  BY <1>1, <1>2, <1>3, <1>7, EvidenceKept
<1>10. QED
  BY <1>4, <1>5, <1>6, <1>8, <1>9 DEF AuditInv

\* A report rests on a complete snapshot, if it is about more than codes no
\* source can list.
LEMMA ReportKeepsAudit ==
  ASSUME AuditInv, NEW s \in Basis, BuildAuditReport(s)
  PROVE  AuditInv'
<1>1. /\ UNCHANGED <<symbol, snapshots, audits, removals>>
      /\ report'.snap = s
      /\ report'.codes = {c \in ActiveSymbols : c \in LegacyCodes \/ (s # 0 /\ symbol[c].snap # s)}
  BY DEF BuildAuditReport
<1>2. s \in 0..Len(snapshots) /\ (s # 0 => s \in CompletedSnapshots)
  BY DEF Basis, CompletedSnapshots, AuditInv, AuditShapes
<1>3. ASSUME NEW c \in report'.codes \ LegacyCodes
      PROVE  EvidenceFor(c, s)
  <2>1. c \in Symbols /\ s # 0 /\ symbol[c].snap # s
    BY <1>1, <1>3 DEF ActiveSymbols
  <2>2. s \in CompletedSnapshots /\ symbol[c].snap \in Nat /\ s \in 1..Len(snapshots)
    BY <1>2, <2>1 DEF AuditInv, AuditShapes, SymbolRow, CompletedSnapshots
  <2>3. c \in snapshots[s].codes => symbol[c].snap >= s
    BY <2>2 DEF AuditInv, ListedIsRecorded
  <2>4. QED
    BY <1>2, <2>1, <2>2, <2>3 DEF EvidenceFor
<1>4. EvidenceIsComplete'
  BY <1>1, <1>3 DEF AuditInv, EvidenceIsComplete, EvidenceFor, CompletedSnapshots, ActiveSymbols
<1>5. AuditTypeOK'
  BY <1>1, <1>2 DEF AuditInv, AuditTypeOK
<1>6. AuditShapes' /\ ListedIsRecorded' /\ RemovalsAreTraced'
  BY <1>1 DEF AuditInv, AuditShapes, ListedIsRecorded, RemovalsAreTraced, AppliedRuns
<1>7. QED
  BY <1>4, <1>5, <1>6 DEF AuditInv

\* A new run has applied nothing.
LEMMA CreateKeepsAudit ==
  ASSUME AuditInv, CreateAuditRun
  PROVE  AuditInv'
<1> DEFINE run == [status |-> "pending", snap |-> report.snap,
                   decision |-> [c \in report.codes |-> "pending"]]
<1>1. /\ UNCHANGED <<symbol, snapshots, removals>>
      /\ audits' = Append(audits, run) /\ report' = NoReport
      /\ report.snap \in 0..Len(snapshots) /\ report.codes \subseteq Symbols
  BY DEF CreateAuditRun, AuditInv, AuditTypeOK, EvidenceIsComplete
<1>2. run \in AuditRow
  <2>1. run.decision \in [report.codes -> AuditDecisions]
    BY DEF AuditDecisions
  <2>2. run.decision \in UNION {[E -> AuditDecisions] : E \in SUBSET Symbols}
    BY <1>1, <2>1
  <2>3. report.snap \in Nat
    BY <1>1
  <2>4. QED
    BY <2>2, <2>3 DEF AuditDecisions, AuditRow
<1>3. audits \in Seq(AuditRow)
  BY DEF AuditInv, AuditShapes
<1>4. /\ audits' \in Seq(AuditRow)
      /\ Len(audits') = Len(audits) + 1 /\ Len(audits) \in Nat
      /\ audits'[Len(audits) + 1] = run
      /\ \A r \in 1..Len(audits) : audits'[r] = audits[r]
  BY <1>1, <1>2, <1>3, AppendProperties
<1>5. /\ run.status = "pending" /\ run.snap = report.snap /\ DOMAIN run.decision = report.codes
      /\ \A c \in DOMAIN run.decision : run.decision[c] = "pending"
  BY <1>1
<1> HIDE DEF run
<1>6. AuditTypeOK'
  <2>1. \A r \in 1..Len(audits') : r = Len(audits) + 1 \/ r \in 1..Len(audits)
    BY <1>4
  <2>2. \A c \in Symbols : symbol[c].legacy \in 0..Len(audits')
    BY <1>4 DEF AuditInv, AuditTypeOK
  <2>3. report'.snap \in 0..Len(snapshots)
    BY <1>1 DEF NoReport, AuditInv, AuditShapes
  <2>4. QED
    BY <1>1, <1>4, <1>5, <2>1, <2>2, <2>3 DEF AuditInv, AuditTypeOK
<1>7. AuditShapes' /\ ListedIsRecorded'
  BY <1>1, <1>4 DEF AuditInv, AuditShapes, ListedIsRecorded
<1>8. EvidenceIsComplete'
  <2>1. ASSUME NEW r \in 1..Len(audits'), NEW c \in DOMAIN audits'[r].decision \ LegacyCodes
        PROVE  EvidenceFor(c, audits'[r].snap)
    BY <1>4, <1>5, <2>1 DEF AuditInv, EvidenceIsComplete
  <2>2. report'.codes = {}
    BY <1>1 DEF NoReport
  <2>3. QED
    BY <1>1, <2>1, <2>2 DEF EvidenceIsComplete, EvidenceFor, CompletedSnapshots
<1>9. RemovalsAreTraced'
  <2>1. \A c : AppliedRuns(c)' = AppliedRuns(c)
    BY <1>4, <1>5 DEF AppliedRuns
  <2>2. \A c : \A r \in AppliedRuns(c) : audits'[r] = audits[r]
    BY <1>4 DEF AppliedRuns
  <2>3. QED
    BY <1>1, <2>1, <2>2 DEF AuditInv, RemovalsAreTraced
<1>10. QED
  BY <1>6, <1>7, <1>8, <1>9 DEF AuditInv

\* An approval is no removal.
LEMMA ApproveKeepsAudit ==
  ASSUME AuditInv, NEW r \in 1..Len(audits), NEW c \in DOMAIN audits[r].decision,
         ApproveDeactivation(r, c)
  PROVE  AuditInv'
<1> DEFINE run == [audits[r] EXCEPT !.decision[c] = "approved",
                               !.status = IF @ = "pending" THEN "approved" ELSE @]
<1>1. /\ UNCHANGED <<symbol, snapshots, report, removals>>
      /\ audits' = [audits EXCEPT ![r] = run]
      /\ audits[r].decision[c] = "pending"
  BY DEF ApproveDeactivation
<1>2. audits \in Seq(AuditRow) /\ audits[r] \in AuditRow
  BY ElementOfSeq DEF AuditInv, AuditShapes
<1>3. /\ DOMAIN run.decision = DOMAIN audits[r].decision
      /\ run.decision[c] = "approved"
      /\ \A d \in DOMAIN run.decision : d # c => run.decision[d] = audits[r].decision[d]
      /\ run.snap = audits[r].snap
      /\ run.status \in AuditDecisions
      /\ audits[r].status = "applied" => run.status = "applied"
  BY <1>2 DEF AuditDecisions, AuditRow
<1>4. run \in AuditRow
  <2>1. PICK D \in SUBSET Symbols : audits[r].decision \in [D -> AuditDecisions]
    BY <1>2 DEF AuditRow
  <2>2. run.decision \in [D -> AuditDecisions]
    BY <1>2, <2>1 DEF AuditDecisions, AuditRow
  <2>3. run.decision \in UNION {[E -> AuditDecisions] : E \in SUBSET Symbols}
    BY <2>2
  <2>4. QED
    BY <1>2, <1>3, <2>3 DEF AuditRow
<1> HIDE DEF run
<1>5. /\ audits' \in Seq(AuditRow) /\ Len(audits') = Len(audits) /\ audits'[r] = run
      /\ \A q \in 1..Len(audits) : q # r => audits'[q] = audits[q]
  BY <1>1, <1>2, <1>4, ExceptSeq
<1>6. AuditTypeOK'
  BY <1>1, <1>3, <1>4, <1>5 DEF AuditInv, AuditTypeOK, AuditDecisions, AuditRow
<1>7. AuditShapes' /\ ListedIsRecorded' /\ EvidenceIsComplete'
  <2>1. /\ symbol' \in [Symbols -> SymbolRow] /\ CompletedSnapshots' = CompletedSnapshots
        /\ \A d \in Symbols : symbol'[d].snap >= symbol[d].snap
    BY <1>1 DEF AuditInv, AuditShapes, SymbolRow, CompletedSnapshots
  <2>2. EvidenceIsComplete'
    BY <1>1, <1>3, <1>5, <2>1, EvidenceKept
  <2>3. QED
    BY <1>1, <1>5, <2>2 DEF AuditInv, AuditShapes, ListedIsRecorded
<1>8. RemovalsAreTraced'
  <2>1. \A d : AppliedRuns(d)' = AppliedRuns(d)
    BY <1>1, <1>3, <1>5 DEF AppliedRuns
  <2>2. \A q \in 1..Len(audits) : audits[q].status = "applied" => audits'[q].status = "applied"
    BY <1>3, <1>5
  <2>3. QED
    BY <1>1, <2>1, <2>2 DEF AuditInv, RemovalsAreTraced, AppliedRuns
<1>9. QED
  BY <1>6, <1>7, <1>8 DEF AuditInv

\* Applying a run deactivates each symbol whose approved decision it takes,
\* counts it once and leaves no decision to take again.
LEMMA ApplyKeepsAudit ==
  ASSUME AuditInv, NEW r \in 1..Len(audits), ApplyAuditRun(r)
  PROVE  AuditInv'
<1> DEFINE taken == Applicable(r)
           run == [audits[r] EXCEPT !.status = "applied",
                     !.decision = [c \in DOMAIN @ |-> IF c \in taken THEN "applied" ELSE @[c]]]
<1>1. /\ UNCHANGED <<snapshots, report>>
      /\ audits' = [audits EXCEPT ![r] = run]
  BY DEF ApplyAuditRun
<1>0. /\ DOMAIN removals' = Symbols
      /\ removals' = [c \in Symbols |-> removals'[c]]
      /\ \A c \in Symbols : removals'[c] = IF c \in taken THEN removals[c] + 1 ELSE removals[c] + 0
  <2>1. removals' = [c \in Symbols |-> removals[c] + IF c \in taken THEN 1 ELSE 0]
    BY Zenon DEF ApplyAuditRun
  <2>2. QED
    BY <2>1, Zenon
<1>2. audits \in Seq(AuditRow) /\ audits[r] \in AuditRow /\ Len(audits) \in Nat /\ r \in Nat
  BY ElementOfSeq DEF AuditInv, AuditShapes
<1>3. \A c \in taken :
        c \in DOMAIN audits[r].decision /\ audits[r].decision[c] = "approved" /\ symbol[c].active
  BY DEF Applicable
<1>4. /\ DOMAIN run.decision = DOMAIN audits[r].decision
      /\ \A c \in DOMAIN run.decision :
           run.decision[c] = IF c \in taken THEN "applied" ELSE audits[r].decision[c]
      /\ run.snap = audits[r].snap /\ run.status = "applied"
  BY <1>2 DEF AuditRow
<1>5. run \in AuditRow
  <2>1. PICK D \in SUBSET Symbols : audits[r].decision \in [D -> AuditDecisions]
    BY <1>2 DEF AuditRow
  <2>2. run.decision \in [D -> AuditDecisions]
    BY <1>2, <2>1 DEF AuditDecisions, AuditRow
  <2>3. run.decision \in UNION {[E -> AuditDecisions] : E \in SUBSET Symbols}
    BY <2>2
  <2>4. QED
    BY <1>2, <1>4, <2>3 DEF AuditDecisions, AuditRow
<1> HIDE DEF run, taken
<1>6. /\ audits' \in Seq(AuditRow) /\ Len(audits') = Len(audits) /\ audits'[r] = run
      /\ \A q \in 1..Len(audits) : q # r => audits'[q] = audits[q]
  BY <1>1, <1>2, <1>5, ExceptSeq
<1>7. /\ symbol' \in [Symbols -> SymbolRow]
      /\ \A c \in Symbols :
           IF c \in taken
           THEN /\ symbol'[c].known = symbol[c].known /\ ~symbol'[c].active
                /\ symbol'[c].snap = symbol[c].snap /\ symbol'[c].legacy = r
           ELSE symbol'[c] = symbol[c]
  <2>0. symbol' = [c \in Symbols |->
          IF c \in taken THEN [symbol[c] EXCEPT !.active = FALSE, !.legacy = r] ELSE symbol[c]]
    BY DEF ApplyAuditRun, taken
  <2>1. symbol \in [Symbols -> SymbolRow]
    BY DEF AuditInv, AuditShapes
  <2>2. ASSUME NEW c \in Symbols
        PROVE  /\ symbol'[c] \in SymbolRow
               /\ IF c \in taken
                  THEN /\ symbol'[c].known = symbol[c].known /\ ~symbol'[c].active
                       /\ symbol'[c].snap = symbol[c].snap /\ symbol'[c].legacy = r
                  ELSE symbol'[c] = symbol[c]
    <3>1. symbol[c] \in SymbolRow /\ r \in Nat
      BY <1>2, <2>1
    <3>2. CASE c \in taken
      <4>1. symbol'[c] = [symbol[c] EXCEPT !.active = FALSE, !.legacy = r]
        BY <2>0, <3>2
      <4>2. QED
        BY <3>1, <3>2, <4>1 DEF SymbolRow
    <3>3. CASE c \notin taken
      BY <2>0, <3>1, <3>3
    <3>4. QED
      BY <3>2, <3>3
  <2>3. DOMAIN symbol' = Symbols /\ symbol' = [c \in Symbols |-> symbol'[c]]
    BY <2>0
  <2>4. QED
    BY <2>2, <2>3
<1>8. AuditTypeOK'
  <2>1. \A c \in Symbols :
          /\ symbol'[c].snap \in 0..Len(snapshots) /\ symbol'[c].legacy \in 0..Len(audits)
          /\ symbol'[c].active => symbol'[c].known
    BY <1>2, <1>7 DEF AuditInv, AuditTypeOK
  <2>2. QED
    <3>1. run.snap \in 0..Len(snapshots) /\ run.status \in AuditDecisions
      BY <1>4 DEF AuditInv, AuditTypeOK, AuditDecisions
    <3>2. \A c \in DOMAIN run.decision : run.decision[c] \in AuditDecisions
      BY <1>5 DEF AuditRow
    <3>3. \A q \in 1..Len(audits) : q = r \/ audits'[q] = audits[q]
      BY <1>6
    <3>4. QED
      BY <1>1, <1>6, <2>1, <3>1, <3>2, <3>3 DEF AuditInv, AuditTypeOK, AuditDecisions
<1>9. removals' \in [Symbols -> Nat]
  BY <1>0 DEF AuditInv, AuditShapes
<1>10. AuditShapes' /\ ListedIsRecorded' /\ EvidenceIsComplete'
  <2>1. \A c \in Symbols : symbol'[c].snap = symbol[c].snap /\ symbol[c].snap \in Nat
    BY <1>7 DEF AuditInv, AuditShapes, SymbolRow
  <2>2. EvidenceIsComplete'
    <3>1. CompletedSnapshots' = CompletedSnapshots /\ \A c \in Symbols : symbol'[c].snap >= symbol[c].snap
      BY <1>1, <2>1 DEF CompletedSnapshots
    <3>2. QED
      BY <1>1, <1>4, <1>6, <1>7, <3>1, EvidenceKept
  <2>3. ListedIsRecorded'
    <3>1. \A i \in 1..Len(snapshots) : snapshots[i].codes \subseteq Symbols
      <4>1. ASSUME NEW i \in 1..Len(snapshots) PROVE snapshots[i] \in SnapshotRow
        BY ElementOfSeq DEF AuditInv, AuditShapes
      <4>2. QED
        BY <4>1 DEF SnapshotRow
    <3>2. ASSUME NEW i \in 1..Len(snapshots), NEW c \in snapshots[i].codes
          PROVE  symbol'[c].snap >= i
      <4>1. c \in Symbols /\ symbol[c].snap >= i
        BY <3>1 DEF AuditInv, ListedIsRecorded
      <4>2. QED
        BY <2>1, <4>1
    <3>3. QED
      BY <1>1, <3>2 DEF ListedIsRecorded
  <2>4. QED
    BY <1>1, <1>6, <1>7, <1>9, <2>2, <2>3 DEF AuditInv, AuditShapes
<1>11. RemovalsAreTraced'
  <2> SUFFICES ASSUME NEW c \in Symbols
               PROVE  /\ removals'[c] = Cardinality(AppliedRuns(c)')
                      /\ symbol'[c].known /\ ~symbol'[c].active =>
                           /\ symbol'[c].legacy \in AppliedRuns(c)'
                           /\ audits'[symbol'[c].legacy].status = "applied"
    BY DEF RemovalsAreTraced
  <2>1. /\ removals[c] = Cardinality(AppliedRuns(c)) /\ removals[c] \in Nat
        /\ symbol[c].known /\ ~symbol[c].active =>
             symbol[c].legacy \in AppliedRuns(c) /\ audits[symbol[c].legacy].status = "applied"
    BY DEF AuditInv, RemovalsAreTraced, AuditShapes
  <2>2. CASE c \in taken
    <3>1. AppliedRuns(c)' = AppliedRuns(c) \cup {r} /\ r \notin AppliedRuns(c)
      BY <1>3, <1>4, <1>6, <2>2 DEF AppliedRuns
    <3>2. IsFiniteSet(AppliedRuns(c))
      <4>1. IsFiniteSet(1..Len(audits))
        BY <1>2, FS_Interval
      <4>2. AppliedRuns(c) \in SUBSET (1..Len(audits))
        BY DEF AppliedRuns
      <4>3. QED
        BY <4>1, <4>2, FS_Subset
    <3>3. Cardinality(AppliedRuns(c) \cup {r}) = Cardinality(AppliedRuns(c)) + 1
      BY <3>1, <3>2, FS_AddElement
    <3>4. removals'[c] = removals[c] + 1
      BY <1>0, <2>2
    <3>5. symbol'[c].legacy = r /\ audits'[r].status = "applied"
      BY <1>4, <1>6, <1>7, <2>2
    <3>6. QED
      BY <2>1, <3>1, <3>3, <3>4, <3>5
  <2>3. CASE c \notin taken
    <3>1. AppliedRuns(c)' = AppliedRuns(c)
      BY <1>4, <1>6, <2>3 DEF AppliedRuns
    <3>2. removals'[c] = removals[c] /\ symbol'[c] = symbol[c]
      BY <1>0, <1>7, <2>1, <2>3
    <3>3. \A q \in AppliedRuns(c) : audits[q].status = "applied" => audits'[q].status = "applied"
      BY <1>4, <1>6 DEF AppliedRuns
    <3>4. QED
      BY <2>1, <3>1, <3>2, <3>3
  <2>4. QED
    BY <2>2, <2>3
<1>12. QED
  BY <1>8, <1>10, <1>11 DEF AuditInv

\* The invariant is inductive.
LEMMA AuditStep == AuditInv /\ [AuditNext]_auditVars => AuditInv'
<1> SUFFICES ASSUME AuditInv, [AuditNext]_auditVars PROVE AuditInv'
  OBVIOUS
<1>1. CASE \/ \E codes \in SUBSET Symbols, clean \in BOOLEAN : SyncUniverse(codes, clean)
           \/ SyncUniverseFails
  BY <1>1, SyncKeepsAudit
<1>2. CASE \E s \in Basis : BuildAuditReport(s)
  BY <1>2, ReportKeepsAudit
<1>3. CASE CreateAuditRun
  BY <1>3, CreateKeepsAudit
<1>4. CASE \E r \in 1..Len(audits) : \E c \in DOMAIN audits[r].decision : ApproveDeactivation(r, c)
  BY <1>4, ApproveKeepsAudit
<1>5. CASE \E r \in 1..Len(audits) : ApplyAuditRun(r)
  BY <1>5, ApplyKeepsAudit
<1>6. CASE UNCHANGED auditVars
  <2>1. UNCHANGED <<symbol, snapshots, report, audits, removals>>
    BY <1>6 DEF auditVars
  <2>2. EvidenceIsComplete'
    BY <2>1 DEF AuditInv, EvidenceIsComplete, EvidenceFor, CompletedSnapshots
  <2>3. AuditTypeOK' /\ AuditShapes' /\ ListedIsRecorded'
    BY <2>1 DEF AuditInv, AuditTypeOK, AuditShapes, ListedIsRecorded
  <2>4. RemovalsAreTraced'
    BY <2>1 DEF AuditInv, RemovalsAreTraced, AppliedRuns
  <2>5. QED
    BY <2>2, <2>3, <2>4 DEF AuditInv
<1>7. QED
  BY <1>1, <1>2, <1>3, <1>4, <1>5, <1>6 DEF AuditNext

\* audit_universe.py: however syncs, reports, approvals and applications
\* interleave, a symbol was deactivated exactly as often as an approved
\* decision about it was applied, and a decision about a code a source could
\* list rests on a complete snapshot that misses the symbol, or after which
\* another sync has listed it.
THEOREM RemovalsTheorem == AuditSpec => [](AuditTypeOK /\ RemovalsAreApproved)
BY AuditInitInv, AuditStep, AuditInvIsEnough, PTL DEF AuditSpec

-----------------------------------------------------------------------------
(***************************************************************************)
(* The KRX canary.  A job's snapshots are fixed before it chooses its      *)
(* targets, its mapping is made while it does, and only then can the       *)
(* mapping be approved: so nothing a selection or a decision rests on      *)
(* changes under it.                                                       *)
(***************************************************************************)
SnapStatus == {"none", "incomplete", "completed"}
AllCodes == Stocks \cup Etfs
KrxSnap == [status : SnapStatus, asOf : Int, members : SUBSET Stocks]
NaverSnap == [status : SnapStatus, seen : SUBSET AllCodes]
Mapping == [status : {"none", "pending_review", "approved"}, matched : SUBSET Stocks]
Selection == [authority : {"none", "unresolved", "krx", "naver_last_completed"},
              run : CanaryJobs \cup {-1}, offered : SUBSET AllCodes, targets : SUBSET AllCodes]
Decision == [day : Int, job : CanaryJobs, authority : {"krx", "naver_last_completed"},
             decision : OperatorDecisions]

CanaryShapes ==
  /\ krxSnap \in [CanaryJobs -> KrxSnap] /\ naverSnap \in [CanaryJobs -> NaverSnap]
  /\ lastSeen \in [AllCodes -> CanaryJobs \cup {-1}] /\ mapped \in SUBSET Stocks
  /\ mapping \in [CanaryJobs -> Mapping] /\ approvedRun \in CanaryJobs \cup {-1}
  /\ selection \in [CanaryJobs -> Selection]
  /\ \A j \in CanaryJobs : selection[j].targets \subseteq selection[j].offered
  /\ decisions \in SUBSET Decision /\ IsFiniteSet(decisions)

\* A job synchronises, selects its targets, and may then have a mapping.
JobsAreInOrder ==
  /\ \A j \in CanaryJobs :
       /\ naverSnap[j].status = "none" <=> naverSnap[j] = NoNaver
       /\ selection[j].authority = "none" <=> selection[j] = NoSelection
       /\ selection[j] # NoSelection => naverSnap[j] # NoNaver
       /\ mapping[j].status # "none" => selection[j] # NoSelection
  /\ approvedRun # -1 => mapping[approvedRun].status = "approved"

\* Both providers saw the code in complete snapshots of one job.
Evidence(c) ==
  \E i \in CanaryJobs : BothCompleted(i) /\ c \in krxSnap[i].members \cap naverSnap[i].seen

\* A symbol carries a job that saw it, and is mapped on evidence.
SymbolsAreEvidenced ==
  /\ \A c \in AllCodes : lastSeen[c] # -1 =>
       naverSnap[lastSeen[c]] # NoNaver /\ c \in naverSnap[lastSeen[c]].seen
  /\ \A c \in mapped : Evidence(c)

\* What a job that follows KRX rests on.
FollowedIsEvidenced(j) ==
  selection[j].authority = "krx" =>
    /\ selection[j].run \in CanaryJobs /\ krxSnap[j].status # "incomplete"
    /\ mapping[selection[j].run].status = "approved"
    /\ \A c \in selection[j].targets \cap Stocks :
         c \in krxSnap[selection[j].run].members /\ Evidence(c)
    /\ selection[j].offered \cap Etfs \subseteq selection[j].targets

\* What a decision rests on; one decision a day.
DecisionIsBacked(d) ==
  /\ BothCompleted(d.job)
  /\ d.authority = "krx" => mapping[d.job].status = "approved" /\ Healthy(d.job)

ExpansionIsEarned(d) ==
  d.decision = "expand" =>
    \E a, b \in decisions :
      /\ a.day < b.day /\ b.day < d.day
      /\ \A x \in {a, b} : x.decision = "continue" /\ x.authority = "krx"

CanaryInv ==
  /\ CanaryShapes /\ JobsAreInOrder /\ SymbolsAreEvidenced
  /\ \A j \in CanaryJobs : FollowedIsEvidenced(j)
  /\ \A d \in decisions : DecisionIsBacked(d) /\ ExpansionIsEarned(d)
  /\ \A d, e \in decisions : d.day = e.day => d = e

\* The invariant is what the canary promises.
LEMMA CanaryInvIsEnough == CanaryInv => CanaryTypeOK /\ KrxTargetsAreEvidenced /\ ExpandIsEarned
<1> SUFFICES ASSUME CanaryInv PROVE CanaryTypeOK /\ KrxTargetsAreEvidenced /\ ExpandIsEarned
    OBVIOUS
<1>1. CanaryShapes /\ (\A j \in CanaryJobs : FollowedIsEvidenced(j))
      /\ \A d \in decisions : DecisionIsBacked(d) /\ ExpansionIsEarned(d)
  BY DEF CanaryInv
<1>2. CanaryTypeOK
  <2>1. ASSUME NEW j \in CanaryJobs
        PROVE  /\ krxSnap[j].status \in SnapStatus /\ naverSnap[j].status \in SnapStatus
               /\ mapping[j].status \in {"none", "pending_review", "approved"}
               /\ selection[j].authority \in {"none", "unresolved", "krx", "naver_last_completed"}
    <3>1. krxSnap[j] \in KrxSnap /\ naverSnap[j] \in NaverSnap /\ mapping[j] \in Mapping /\ selection[j] \in Selection
      BY <1>1 DEF CanaryShapes
    <3> QED BY <3>1 DEF KrxSnap, NaverSnap, Mapping, Selection
  <2>2. \A d \in decisions : d.decision \in OperatorDecisions
    BY <1>1 DEF CanaryShapes, Decision
  <2> QED BY <1>1, <2>1, <2>2 DEF CanaryShapes, CanaryTypeOK, SnapStatus
<1>3. KrxTargetsAreEvidenced
  BY <1>1 DEF KrxTargetsAreEvidenced, FollowedIsEvidenced, Evidence
<1>4. ExpandIsEarned
  BY <1>1 DEF ExpandIsEarned, DecisionIsBacked, ExpansionIsEarned
<1> QED BY <1>2, <1>3, <1>4

\* A nonempty set of finite lists has a shortest one.
LEMMA ShortestIsOne ==
  ASSUME NEW S, IsFiniteSet(S), NEW lists \in SUBSET (SUBSET S), lists # {}
  PROVE  ShortestList(lists) \in lists
<1>1. \A l \in lists : Cardinality(l) \in Nat
  BY FS_Subset, FS_CardinalityType
<1> DEFINE U == {Cardinality(l) : l \in lists}
<1>2. U \subseteq Nat /\ U # {}
  BY <1>1
<1> HIDE DEF U
<1>7. IsWellFoundedOn(OpToRel(<, Nat), Nat)
  BY NatLessThanWellFounded
<1>3. PICK k \in U : \A j \in U : ~ (<<j, k>> \in OpToRel(<, Nat))
  BY <1>2, <1>7, WFMin
<1>4. \A j \in U : ~ (j < k)
  BY <1>2, <1>3 DEF OpToRel
<1>5. PICK l \in lists : Cardinality(l) = k
  BY DEF U
<1>6. \A m \in lists : Cardinality(l) <= Cardinality(m)
  BY <1>1, <1>4, <1>5 DEF U
<1> QED BY <1>6 DEF ShortestList

\* The first observation, from before anything was approved.
LEMMA CanaryStarts == CanaryInit => CanaryInv
<1> SUFFICES ASSUME CanaryInit PROVE CanaryInv
    OBVIOUS
<1>1. PICK first \in SUBSET Stocks : first = ShortestList(KrxLists)
  <2>1. KrxLists \in SUBSET (SUBSET Stocks)
    BY CanaryAssumption
  <2> QED BY <2>1, CanaryAssumption, ShortestIsOne
<1>2. PICK seen \in SUBSET AllCodes : seen = ShortestList(NaverLists)
  <2>1. NaverLists \in SUBSET (SUBSET AllCodes) /\ IsFiniteSet(AllCodes)
    BY CanaryAssumption, FS_Union DEF AllCodes
  <2> QED BY <2>1, CanaryAssumption, ShortestIsOne
<1>3. /\ krxSnap = [j \in CanaryJobs |->
           IF j = 0 THEN [status |-> "completed", asOf |-> 0, members |-> first] ELSE NoKrx]
      /\ naverSnap = [j \in CanaryJobs |-> IF j = 0 THEN [status |-> "completed", seen |-> seen] ELSE NoNaver]
      /\ lastSeen = [c \in AllCodes |-> IF c \in seen THEN 0 ELSE -1]
      /\ mapped = first \cap seen
      /\ mapping = [j \in CanaryJobs |->
           IF j = 0 THEN [status |-> "pending_review", matched |-> first \cap seen] ELSE NoMapping]
      /\ approvedRun = -1
      /\ selection = [j \in CanaryJobs |->
           IF j = 0 THEN [authority |-> "naver_last_completed", run |-> -1, offered |-> seen, targets |-> seen]
           ELSE NoSelection]
      /\ decisions = {}
  BY <1>1, <1>2 DEF CanaryInit, AllCodes
<1>4. 0 \in CanaryJobs
  BY CanaryAssumption DEF CanaryJobs
<1>5. /\ krxSnap[0] = [status |-> "completed", asOf |-> 0, members |-> first]
      /\ naverSnap[0] = [status |-> "completed", seen |-> seen]
      /\ \A j \in CanaryJobs \ {0} :
           /\ krxSnap[j] = NoKrx /\ naverSnap[j] = NoNaver
           /\ mapping[j] = NoMapping /\ selection[j] = NoSelection
      /\ mapping[0] = [status |-> "pending_review", matched |-> first \cap seen]
      /\ selection[0] = [authority |-> "naver_last_completed", run |-> -1, offered |-> seen, targets |-> seen]
  BY <1>3, <1>4
<1>6. ASSUME NEW j \in CanaryJobs
      PROVE  /\ krxSnap[j] \in KrxSnap /\ naverSnap[j] \in NaverSnap
             /\ mapping[j] \in Mapping /\ selection[j] \in Selection
             /\ selection[j].targets \subseteq selection[j].offered
             /\ naverSnap[j].status = "none" <=> naverSnap[j] = NoNaver
             /\ selection[j].authority = "none" <=> selection[j] = NoSelection
             /\ selection[j] # NoSelection => naverSnap[j] # NoNaver
             /\ mapping[j].status # "none" => selection[j] # NoSelection
             /\ selection[j].authority # "krx"
  <2>1. CASE j = 0
    <3>1. /\ krxSnap[j] \in KrxSnap /\ naverSnap[j] \in NaverSnap
          /\ mapping[j] \in Mapping /\ selection[j] \in Selection
      BY <1>5, <2>1 DEF KrxSnap, NaverSnap, Mapping, Selection, SnapStatus
    <3>2. /\ selection[j].targets = selection[j].offered /\ naverSnap[j].status = "completed"
          /\ selection[j].authority = "naver_last_completed"
      BY <1>5, <2>1
    <3>3. naverSnap[j] # NoNaver /\ selection[j] # NoSelection
      BY <3>2 DEF NoNaver, NoSelection
    <3> QED BY <3>1, <3>2, <3>3
  <2>2. CASE j # 0
    <3>1. /\ krxSnap[j] = NoKrx /\ naverSnap[j] = NoNaver /\ mapping[j] = NoMapping /\ selection[j] = NoSelection
      BY <1>5, <2>2
    <3>2. NoKrx \in KrxSnap /\ NoNaver \in NaverSnap /\ NoMapping \in Mapping /\ NoSelection \in Selection
      BY DEF NoKrx, NoNaver, NoMapping, NoSelection, KrxSnap, NaverSnap, Mapping, Selection, SnapStatus
    <3>3. /\ NoNaver.status = "none" /\ NoSelection.authority = "none" /\ NoMapping.status = "none"
          /\ NoSelection.targets = NoSelection.offered
      BY DEF NoNaver, NoSelection, NoMapping
    <3> QED BY <3>1, <3>2, <3>3
  <2> QED BY <2>1, <2>2
<1>7. CanaryShapes
  <2>1. krxSnap \in [CanaryJobs -> KrxSnap] /\ naverSnap \in [CanaryJobs -> NaverSnap]
        /\ mapping \in [CanaryJobs -> Mapping] /\ selection \in [CanaryJobs -> Selection]
    <3>1. /\ krxSnap = [j \in CanaryJobs |-> krxSnap[j]] /\ naverSnap = [j \in CanaryJobs |-> naverSnap[j]]
          /\ mapping = [j \in CanaryJobs |-> mapping[j]] /\ selection = [j \in CanaryJobs |-> selection[j]]
      BY <1>3
    <3> QED BY <1>6, <3>1
  <2>2. lastSeen \in [AllCodes -> CanaryJobs \cup {-1}] /\ mapped \in SUBSET Stocks
    BY <1>3, <1>4
  <2>3. decisions \in SUBSET Decision /\ IsFiniteSet(decisions) /\ approvedRun \in CanaryJobs \cup {-1}
    BY <1>3, FS_EmptySet
  <2> QED BY <1>6, <2>1, <2>2, <2>3 DEF CanaryShapes
<1>8. JobsAreInOrder
  BY <1>3, <1>6 DEF JobsAreInOrder
<1>9. SymbolsAreEvidenced
  <2>1. naverSnap[0] # NoNaver /\ naverSnap[0].seen = seen /\ BothCompleted(0)
        /\ krxSnap[0].members = first
    BY <1>5 DEF NoNaver, BothCompleted
  <2>2. \A c \in AllCodes : lastSeen[c] # -1 => lastSeen[c] = 0 /\ c \in seen
    BY <1>3
  <2> QED BY <1>3, <1>4, <2>1, <2>2 DEF SymbolsAreEvidenced, Evidence
<1>10. \A j \in CanaryJobs : FollowedIsEvidenced(j)
  BY <1>6 DEF FollowedIsEvidenced
<1> QED BY <1>3, <1>7, <1>8, <1>9, <1>10 DEF CanaryInv

\* A step that leaves what is complete, approved and selected as it is keeps
\* everything that rests on it.
LEMMA CanaryRests ==
  ASSUME CanaryInv,
         \A i \in CanaryJobs : naverSnap[i] # NoNaver =>
           krxSnap'[i] = krxSnap[i] /\ naverSnap'[i] = naverSnap[i],
         \A i \in CanaryJobs : mapping[i].status = "approved" => mapping'[i] = mapping[i]
  PROVE  /\ \A i \in CanaryJobs : BothCompleted(i) => BothCompleted(i)'
         /\ \A c : Evidence(c) => Evidence(c)'
         /\ \A j \in CanaryJobs : selection'[j] = selection[j] => FollowedIsEvidenced(j)'
         /\ \A d \in decisions : DecisionIsBacked(d)'
<1>0. CanaryShapes /\ JobsAreInOrder /\ (\A j \in CanaryJobs : FollowedIsEvidenced(j))
      /\ \A d \in decisions : DecisionIsBacked(d)
  BY DEF CanaryInv
<1>1. ASSUME NEW i \in CanaryJobs, BothCompleted(i)
      PROVE  BothCompleted(i)' /\ krxSnap'[i] = krxSnap[i] /\ naverSnap'[i] = naverSnap[i]
  <2>1. naverSnap[i] # NoNaver
    BY <1>1 DEF BothCompleted, NoNaver
  <2>2. krxSnap'[i] = krxSnap[i] /\ naverSnap'[i] = naverSnap[i]
    BY <2>1
  <2> QED BY <1>1, <2>2 DEF BothCompleted
<1>2. ASSUME NEW c, Evidence(c) PROVE Evidence(c)'
  BY <1>1, <1>2 DEF Evidence
<1>3. ASSUME NEW j \in CanaryJobs, mapping[j].status = "approved"
      PROVE  krxSnap'[j] = krxSnap[j] /\ mapping'[j] = mapping[j]
  <2>1. naverSnap[j] # NoNaver
    BY <1>0, <1>3 DEF JobsAreInOrder
  <2> QED BY <1>3, <2>1
<1>4. ASSUME NEW j \in CanaryJobs, selection'[j] = selection[j] PROVE FollowedIsEvidenced(j)'
  <2> SUFFICES ASSUME selection[j].authority = "krx" PROVE FollowedIsEvidenced(j)'
      BY <1>4 DEF FollowedIsEvidenced
  <2>1. /\ selection[j].run \in CanaryJobs /\ krxSnap[j].status # "incomplete"
        /\ mapping[selection[j].run].status = "approved"
        /\ \A c \in selection[j].targets \cap Stocks :
             c \in krxSnap[selection[j].run].members /\ Evidence(c)
        /\ selection[j].offered \cap Etfs \subseteq selection[j].targets
    BY <1>0 DEF FollowedIsEvidenced
  <2>2. selection[j] # NoSelection
    BY DEF NoSelection
  <2>3. krxSnap'[j] = krxSnap[j]
    BY <1>0, <2>2 DEF JobsAreInOrder
  <2>4. /\ krxSnap'[selection[j].run] = krxSnap[selection[j].run]
        /\ mapping'[selection[j].run] = mapping[selection[j].run]
    BY <1>3, <2>1
  <2> QED BY <1>2, <1>4, <2>1, <2>3, <2>4 DEF FollowedIsEvidenced
<1>5. ASSUME NEW d \in decisions PROVE DecisionIsBacked(d)'
  <2>1. d.job \in CanaryJobs
    BY <1>0 DEF CanaryShapes, Decision
  <2>2. BothCompleted(d.job) /\ (d.authority = "krx" => mapping[d.job].status = "approved" /\ Healthy(d.job))
    BY <1>0 DEF DecisionIsBacked
  <2>3. d.authority = "krx" => krxSnap'[d.job] = krxSnap[d.job] /\ mapping'[d.job] = mapping[d.job]
    BY <1>3, <2>1, <2>2
  <2>4. d.authority = "krx" => mapping'[d.job].status = "approved" /\ Healthy(d.job)'
    BY <2>2, <2>3 DEF Healthy
  <2> QED BY <1>1, <2>1, <2>2, <2>4 DEF DecisionIsBacked
<1> QED BY <1>1, <1>2, <1>4, <1>5

\* What KRX publishes of a day, or of the day before, is a snapshot.
LEMMA KrxSnapIsOne ==
  ASSUME NEW j \in CanaryJobs,
         NEW answers \in [KrxFeeds -> FeedAnswers], NEW members \in KrxLists,
         NEW snapshot \in LatestFetched(j, answers, members)
  PROVE  snapshot \in KrxSnap
<1>1. j \in Int /\ j - 1 \in Int
  BY CanaryAssumption DEF CanaryJobs
<1>2. ASSUME NEW said, NEW day \in Int
      PROVE  Fetched(said, day, members) \in KrxSnap
  <2>1. members \in SUBSET Stocks
    BY CanaryAssumption
  <2> QED BY <2>1 DEF Fetched, KrxSnap, SnapStatus
<1>4. CASE NotPublished(answers)
  <2>1. PICK again \in [KrxFeeds -> FeedAnswers] : snapshot = Fetched(again, j - 1, members)
    BY <1>4 DEF LatestFetched
  <2> QED BY <1>1, <1>2, <2>1
<1>5. CASE ~ NotPublished(answers)
  <2>1. snapshot = Fetched(answers, j, members)
    BY <1>5 DEF LatestFetched
  <2> QED BY <1>1, <1>2, <2>1
<1> QED BY <1>4, <1>5

\* Observing KRX, before the job has its symbols.
LEMMA KrxShadowKeepsCanary ==
  ASSUME CanaryInv, NEW j \in CanaryJobs, KrxShadow(j)
  PROVE  CanaryInv'
<1>0. /\ CanaryShapes /\ JobsAreInOrder /\ SymbolsAreEvidenced
      /\ \A d \in decisions : ExpansionIsEarned(d)
      /\ \A d, e \in decisions : d.day = e.day => d = e
  BY DEF CanaryInv
<1>1. PICK answers \in [KrxFeeds -> FeedAnswers], members \in KrxLists :
        \E snapshot \in LatestFetched(j, answers, members) : krxSnap' = [krxSnap EXCEPT ![j] = snapshot]
  BY DEF KrxShadow
<1>9. PICK snapshot \in LatestFetched(j, answers, members) : krxSnap' = [krxSnap EXCEPT ![j] = snapshot]
  BY <1>1
<1>2. naverSnap[j] = NoNaver
      /\ UNCHANGED <<naverSnap, lastSeen, mapped, mapping, approvedRun, selection, decisions>>
  BY DEF KrxShadow
<1>3. /\ krxSnap' \in [CanaryJobs -> KrxSnap]
      /\ \A i \in CanaryJobs : naverSnap[i] # NoNaver => krxSnap'[i] = krxSnap[i]
  BY <1>0, <1>9, <1>2, KrxSnapIsOne DEF CanaryShapes
<1>4. /\ \A c : Evidence(c) => Evidence(c)'
      /\ \A i \in CanaryJobs : FollowedIsEvidenced(i)'
      /\ \A d \in decisions : DecisionIsBacked(d)'
  BY <1>2, <1>3, CanaryRests
<1>5. CanaryShapes'
  BY <1>0, <1>2, <1>3 DEF CanaryShapes
<1>6. JobsAreInOrder'
  BY <1>0, <1>2 DEF JobsAreInOrder
<1>7. SymbolsAreEvidenced'
  BY <1>0, <1>2, <1>4 DEF SymbolsAreEvidenced
<1>8. \A d \in decisions' : ExpansionIsEarned(d)'
  BY <1>0, <1>2 DEF ExpansionIsEarned
<1> QED BY <1>0, <1>2, <1>4, <1>5, <1>6, <1>7, <1>8 DEF CanaryInv

\* Synchronising the symbols of a job.
LEMMA SyncSymbolsKeepsCanary ==
  ASSUME CanaryInv, NEW j \in CanaryJobs, SyncSymbols(j)
  PROVE  CanaryInv'
<1>0. /\ CanaryShapes /\ JobsAreInOrder /\ SymbolsAreEvidenced
      /\ \A d \in decisions : ExpansionIsEarned(d)
      /\ \A d, e \in decisions : d.day = e.day => d = e
  BY DEF CanaryInv
<1>1. PICK seen \in NaverLists, status \in {"incomplete", "completed"} :
        /\ naverSnap' = [naverSnap EXCEPT ![j] = [status |-> status, seen |-> seen]]
        /\ lastSeen' = [c \in DOMAIN lastSeen |-> IF c \in seen THEN j ELSE lastSeen[c]]
  BY DEF SyncSymbols
<1>2. naverSnap[j] = NoNaver
      /\ UNCHANGED <<krxSnap, mapped, mapping, approvedRun, selection, decisions>>
  BY DEF SyncSymbols
<1>3. PICK snapshot : snapshot = [status |-> status, seen |-> seen]
  OBVIOUS
<1>4. snapshot \in NaverSnap /\ snapshot.seen = seen /\ snapshot.status # "none" /\ snapshot # NoNaver
  <2>1. seen \in SUBSET AllCodes
    BY CanaryAssumption DEF AllCodes
  <2> QED BY <1>3, <2>1 DEF NaverSnap, SnapStatus, NoNaver
<1>5. /\ naverSnap' \in [CanaryJobs -> NaverSnap] /\ naverSnap'[j] = snapshot
      /\ \A i \in CanaryJobs \ {j} : naverSnap'[i] = naverSnap[i]
  BY <1>0, <1>1, <1>3, <1>4 DEF CanaryShapes
<1>6. lastSeen' \in [AllCodes -> CanaryJobs \cup {-1}]
      /\ \A c \in AllCodes : lastSeen'[c] = IF c \in seen THEN j ELSE lastSeen[c]
  BY <1>0, <1>1 DEF CanaryShapes
<1>7. \A i \in CanaryJobs : naverSnap[i] # NoNaver => krxSnap'[i] = krxSnap[i] /\ naverSnap'[i] = naverSnap[i]
  BY <1>2, <1>5
<1>8. /\ \A c : Evidence(c) => Evidence(c)'
      /\ \A i \in CanaryJobs : FollowedIsEvidenced(i)'
      /\ \A d \in decisions : DecisionIsBacked(d)'
  BY <1>2, <1>7, CanaryRests
<1>9. CanaryShapes'
  BY <1>0, <1>2, <1>5, <1>6 DEF CanaryShapes
<1>10. JobsAreInOrder'
  BY <1>0, <1>2, <1>4, <1>5 DEF JobsAreInOrder
<1>11. SymbolsAreEvidenced'
  <2>1. ASSUME NEW c \in AllCodes, lastSeen'[c] # -1
        PROVE  naverSnap'[lastSeen'[c]] # NoNaver /\ c \in naverSnap'[lastSeen'[c]].seen
    <3>1. CASE c \in seen
      BY <3>1, <1>4, <1>5, <1>6
    <3>2. CASE c \notin seen
      <4>1. lastSeen'[c] = lastSeen[c]
        BY <3>2, <1>6
      <4>2. naverSnap[lastSeen[c]] # NoNaver /\ c \in naverSnap[lastSeen[c]].seen
        BY <1>0, <2>1, <4>1 DEF SymbolsAreEvidenced
      <4>3. lastSeen[c] \in CanaryJobs \ {j}
        BY <1>0, <1>2, <2>1, <4>1, <4>2 DEF CanaryShapes
      <4> QED BY <4>1, <4>2, <4>3, <1>5
    <3> QED BY <3>1, <3>2
  <2> QED BY <2>1, <1>0, <1>2, <1>8 DEF SymbolsAreEvidenced
<1>12. \A d \in decisions' : ExpansionIsEarned(d)'
  BY <1>0, <1>2 DEF ExpansionIsEarned
<1> QED BY <1>0, <1>2, <1>8, <1>9, <1>10, <1>11, <1>12 DEF CanaryInv

\* What a job matches was seen by both providers in its complete snapshots.
LEMMA MatchesAreEvidenced ==
  ASSUME CanaryInv, NEW j \in CanaryJobs, BothCompleted(j), NEW c \in Matches(j)
  PROVE  c \in Stocks /\ Evidence(c)
<1>0. CanaryShapes /\ SymbolsAreEvidenced
  BY DEF CanaryInv
<1>1. c \in krxSnap[j].members /\ lastSeen[c] = j
  BY DEF Matches
<1>2. krxSnap[j].members \subseteq Stocks
  BY <1>0 DEF CanaryShapes, KrxSnap
<1>3. c \in AllCodes /\ j # -1
  BY <1>1, <1>2, CanaryAssumption DEF AllCodes, CanaryJobs
<1>4. c \in naverSnap[j].seen
  BY <1>0, <1>1, <1>3 DEF SymbolsAreEvidenced
<1> QED BY <1>1, <1>2, <1>4 DEF Evidence

\* Choosing the targets of a job, on the mapping approved last or not.
LEMMA SelectingKeepsCanary ==
  ASSUME CanaryInv, NEW j \in CanaryJobs, NEW chosen \in Selection, chosen # NoSelection,
         chosen.authority # "none", chosen.targets \subseteq chosen.offered,
         naverSnap[j] # NoNaver, selection[j] = NoSelection,
         selection' = [selection EXCEPT ![j] = chosen],
         Materialize(j) \/ UNCHANGED <<mapped, mapping>>,
         UNCHANGED <<krxSnap, naverSnap, lastSeen, approvedRun, decisions>>,
         chosen.authority = "krx" =>
           /\ chosen.run = approvedRun /\ FollowsKrx(j, approvedRun)
           /\ chosen.targets \cap Stocks \subseteq Eligible(approvedRun)
           /\ chosen.offered \cap Etfs \subseteq chosen.targets
  PROVE  CanaryInv'
<1>0. /\ CanaryShapes /\ JobsAreInOrder /\ SymbolsAreEvidenced
      /\ \A d \in decisions : ExpansionIsEarned(d)
      /\ \A d, e \in decisions : d.day = e.day => d = e
  BY DEF CanaryInv
<1>1. mapping[j].status = "none"
  BY <1>0 DEF JobsAreInOrder
<1>2. /\ mapped' \in SUBSET Stocks /\ \A c \in mapped' : c \in mapped \/ Evidence(c)
      /\ mapping' \in [CanaryJobs -> Mapping]
      /\ \A i \in CanaryJobs \ {j} : mapping'[i] = mapping[i]
  <2>1. CASE BothCompleted(j) /\ Materialize(j)
    <3>1. mapped' = mapped \cup Matches(j) /\ mapping' = [mapping EXCEPT ![j] = Reconciled(j)]
      BY <2>1 DEF Materialize
    <3>2. \A c \in Matches(j) : c \in Stocks /\ Evidence(c)
      BY <2>1, MatchesAreEvidenced
    <3>3. Reconciled(j) \in Mapping
      BY <3>2 DEF Reconciled, Mapping
    <3>4. mapped' \in SUBSET Stocks /\ \A c \in mapped' : c \in mapped \/ Evidence(c)
      BY <3>1, <3>2, <1>0 DEF CanaryShapes
    <3> HIDE DEF Reconciled
    <3>5. mapping' \in [CanaryJobs -> Mapping] /\ \A i \in CanaryJobs \ {j} : mapping'[i] = mapping[i]
      BY <3>1, <3>3, <1>0 DEF CanaryShapes
    <3> QED BY <3>4, <3>5
  <2>2. CASE UNCHANGED <<mapped, mapping>>
    BY <2>2, <1>0 DEF CanaryShapes
  <2> QED BY <2>1, <2>2 DEF Materialize
<1>3. \A i \in CanaryJobs : mapping[i].status = "approved" => i # j /\ mapping'[i] = mapping[i]
  BY <1>1, <1>2
<1>4. /\ \A i \in CanaryJobs : BothCompleted(i) => BothCompleted(i)'
      /\ \A c : Evidence(c) => Evidence(c)'
      /\ \A i \in CanaryJobs : selection'[i] = selection[i] => FollowedIsEvidenced(i)'
      /\ \A d \in decisions : DecisionIsBacked(d)'
  BY <1>3, CanaryRests
<1>5. /\ selection' \in [CanaryJobs -> Selection] /\ selection'[j] = chosen
      /\ \A i \in CanaryJobs \ {j} : selection'[i] = selection[i]
  BY <1>0 DEF CanaryShapes
<1>6. CanaryShapes'
  BY <1>0, <1>2, <1>5 DEF CanaryShapes
<1>7. approvedRun # -1 => approvedRun \in CanaryJobs /\ mapping[approvedRun].status = "approved"
                          /\ mapping'[approvedRun].status = "approved"
  BY <1>0, <1>3 DEF CanaryShapes, JobsAreInOrder
<1>8. JobsAreInOrder'
  <2>1. ASSUME NEW i \in CanaryJobs
        PROVE  /\ naverSnap'[i].status = "none" <=> naverSnap'[i] = NoNaver
               /\ selection'[i].authority = "none" <=> selection'[i] = NoSelection
               /\ selection'[i] # NoSelection => naverSnap'[i] # NoNaver
               /\ mapping'[i].status # "none" => selection'[i] # NoSelection
    <3>1. CASE i = j
      BY <3>1, <1>0, <1>5 DEF JobsAreInOrder
    <3>2. CASE i # j
      BY <3>2, <1>0, <1>2, <1>5 DEF JobsAreInOrder
    <3> QED BY <3>1, <3>2
  <2> QED BY <2>1, <1>7 DEF JobsAreInOrder
<1>9. SymbolsAreEvidenced'
  <2>1. \A c \in mapped' : Evidence(c)'
    BY <1>0, <1>2, <1>4 DEF SymbolsAreEvidenced
  <2> QED BY <1>0, <2>1 DEF SymbolsAreEvidenced
<1>10. FollowedIsEvidenced(j)'
  <2> SUFFICES ASSUME chosen.authority = "krx" PROVE FollowedIsEvidenced(j)'
      BY <1>5 DEF FollowedIsEvidenced
  <2>1. /\ chosen.run = approvedRun /\ approvedRun # -1 /\ KrxStatus(j) = "completed"
        /\ chosen.targets \cap Stocks \subseteq Eligible(approvedRun)
        /\ chosen.offered \cap Etfs \subseteq chosen.targets
    BY DEF FollowsKrx
  <2>2. krxSnap'[j].status # "incomplete"
    BY <2>1 DEF KrxStatus, NoKrx
  <2>3. \A c \in chosen.targets \cap Stocks : c \in krxSnap'[approvedRun].members /\ Evidence(c)'
    <3>1. \A c \in mapped' : Evidence(c)'
      BY <1>9 DEF SymbolsAreEvidenced
    <3> QED BY <2>1, <3>1 DEF Eligible
  <2> QED BY <1>5, <1>7, <2>1, <2>2, <2>3 DEF FollowedIsEvidenced
<1>11. \A i \in CanaryJobs : FollowedIsEvidenced(i)'
  BY <1>4, <1>5, <1>10
<1>12. \A d \in decisions' : ExpansionIsEarned(d)'
  BY <1>0 DEF ExpansionIsEarned
<1> QED BY <1>0, <1>4, <1>6, <1>8, <1>9, <1>11, <1>12 DEF CanaryInv

\* Selecting, or falling back to Naver.
LEMMA SelectKeepsCanary ==
  ASSUME CanaryInv, NEW j \in CanaryJobs, SelectTargets(j) \/ SelectionFails(j)
  PROVE  CanaryInv'
<1>0. CanaryShapes
  BY DEF CanaryInv
<1>1. KnownSymbols \in SUBSET AllCodes
  BY <1>0 DEF KnownSymbols, CanaryShapes
<1>2. naverSnap[j] # NoNaver /\ selection[j] = NoSelection
      /\ UNCHANGED <<krxSnap, naverSnap, lastSeen, approvedRun, decisions>>
  BY DEF SelectTargets, SelectionFails
<1>3. CASE SelectTargets(j)
  <2> DEFINE krx == FollowsKrx(j, approvedRun)
             targets == IF krx THEN KnownSymbols \cap (Eligible(approvedRun) \cup Etfs) ELSE KnownSymbols
             authority == IF krx THEN "krx" ELSE "naver_last_completed"
  <2>1. Materialize(j)
        /\ selection' = [selection EXCEPT ![j] =
             [authority |-> authority, run |-> approvedRun, offered |-> KnownSymbols, targets |-> targets]]
    BY <1>3 DEF SelectTargets
  <2>2. /\ targets \subseteq KnownSymbols
        /\ krx => targets \cap Stocks \subseteq Eligible(approvedRun) /\ KnownSymbols \cap Etfs \subseteq targets
        /\ authority \in {"krx", "naver_last_completed"} /\ (authority = "krx" <=> krx)
    BY CanaryAssumption
  <2> HIDE DEF krx, targets, authority
  <2>3. PICK chosen : chosen = [authority |-> authority, run |-> approvedRun, offered |-> KnownSymbols,
                                targets |-> targets]
    OBVIOUS
  <2>4. /\ chosen \in Selection /\ chosen.authority = authority /\ chosen.run = approvedRun
        /\ chosen.offered = KnownSymbols /\ chosen.targets = targets
    <3>1. approvedRun \in CanaryJobs \cup {-1} /\ targets \in SUBSET AllCodes
      BY <1>0, <1>1, <2>2 DEF CanaryShapes
    <3> QED BY <1>1, <2>2, <2>3, <3>1 DEF Selection
  <2>5. chosen # NoSelection /\ chosen.authority # "none"
    BY <2>2, <2>4 DEF NoSelection
  <2>6. selection' = [selection EXCEPT ![j] = chosen]
    BY <2>1, <2>3
  <2>7. chosen.authority = "krx" =>
          /\ chosen.run = approvedRun /\ FollowsKrx(j, approvedRun)
          /\ chosen.targets \cap Stocks \subseteq Eligible(approvedRun)
          /\ chosen.offered \cap Etfs \subseteq chosen.targets
    BY <2>2, <2>4 DEF krx
  <2>8. chosen.targets \subseteq chosen.offered
    BY <2>2, <2>4
  <2> QED BY <1>2, <2>1, <2>4, <2>5, <2>6, <2>7, <2>8, SelectingKeepsCanary
<1>4. CASE SelectionFails(j)
  <2>1. PICK chosen : chosen = [authority |-> "unresolved", run |-> -1, offered |-> KnownSymbols,
                                targets |-> KnownSymbols]
    OBVIOUS
  <2>2. chosen \in Selection /\ chosen.authority = "unresolved" /\ chosen.targets \subseteq chosen.offered
    BY <1>1, <2>1 DEF Selection
  <2>3. chosen # NoSelection
    BY <2>2 DEF NoSelection
  <2>4. selection' = [selection EXCEPT ![j] = chosen] /\ UNCHANGED <<mapped, mapping>>
    BY <1>4, <2>1 DEF SelectionFails
  <2> QED BY <1>2, <2>2, <2>3, <2>4, SelectingKeepsCanary
<1> QED BY <1>3, <1>4

\* Approving a mapping.
LEMMA ApproveKeepsCanary ==
  ASSUME CanaryInv, NEW j \in CanaryJobs, ApproveRun(j)
  PROVE  CanaryInv'
<1>0. /\ CanaryShapes /\ JobsAreInOrder /\ SymbolsAreEvidenced
      /\ \A d \in decisions : ExpansionIsEarned(d)
      /\ \A d, e \in decisions : d.day = e.day => d = e
  BY DEF CanaryInv
<1>1. /\ mapping[j].status = "pending_review" /\ mapping' = [mapping EXCEPT ![j].status = "approved"]
      /\ approvedRun' = j
      /\ UNCHANGED <<krxSnap, naverSnap, lastSeen, mapped, selection, decisions>>
  BY DEF ApproveRun
<1>2. /\ mapping' \in [CanaryJobs -> Mapping] /\ mapping'[j].status = "approved"
      /\ \A i \in CanaryJobs \ {j} : mapping'[i] = mapping[i]
  <2>1. PICK m : m = [mapping[j] EXCEPT !.status = "approved"]
    OBVIOUS
  <2>2. mapping[j] \in Mapping /\ mapping \in [CanaryJobs -> Mapping]
    BY <1>0 DEF CanaryShapes
  <2>3. m \in Mapping /\ m.status = "approved"
    BY <2>1, <2>2 DEF Mapping
  <2>4. mapping' = [mapping EXCEPT ![j] = m]
    BY <1>1, <2>1
  <2> QED BY <2>2, <2>3, <2>4
<1>3. \A i \in CanaryJobs : mapping[i].status = "approved" => mapping'[i] = mapping[i]
  BY <1>1, <1>2
<1>4. /\ \A c : Evidence(c) => Evidence(c)'
      /\ \A i \in CanaryJobs : FollowedIsEvidenced(i)'
      /\ \A d \in decisions : DecisionIsBacked(d)'
  BY <1>1, <1>3, CanaryRests
<1>5. CanaryShapes'
  BY <1>0, <1>1, <1>2 DEF CanaryShapes
<1>6. JobsAreInOrder'
  <2>1. selection[j] # NoSelection
    BY <1>0, <1>1 DEF JobsAreInOrder
  <2> QED BY <1>0, <1>1, <1>2, <2>1 DEF JobsAreInOrder
<1>7. SymbolsAreEvidenced'
  BY <1>0, <1>1, <1>4 DEF SymbolsAreEvidenced
<1>8. \A d \in decisions' : ExpansionIsEarned(d)'
  BY <1>0, <1>1 DEF ExpansionIsEarned
<1> QED BY <1>0, <1>1, <1>4, <1>5, <1>6, <1>7, <1>8 DEF CanaryInv

\* Two decisions to continue are of two days.
LEMMA TwoContinues ==
  ASSUME CanaryShapes, \A d, e \in decisions : d.day = e.day => d = e,
         NEW day \in Int, Cardinality(PriorContinues(day)) >= 2
  PROVE  \E a, b \in decisions :
           /\ a.day < b.day /\ b.day < day
           /\ \A x \in {a, b} : x.decision = "continue" /\ x.authority = "krx"
<1> DEFINE S == PriorContinues(day)
<1>1. S \subseteq decisions /\ \A d \in S : d.authority = "krx" /\ d.decision = "continue" /\ d.day < day
  BY DEF PriorContinues
<1>2. IsFiniteSet(S)
  BY <1>1, FS_Subset DEF CanaryShapes
<1> HIDE DEF S
<1>3. PICK a \in S : TRUE
  <2>1. S # {}
    BY FS_EmptySet DEF S
  <2> QED BY <2>1
<1>4. PICK b \in S : b # a
  <2> SUFFICES ASSUME S \subseteq {a} PROVE FALSE
      OBVIOUS
  <2>1. S = {a}
    BY <1>3
  <2>2. Cardinality(S) = 1
    BY <2>1, FS_Singleton
  <2> QED BY <2>2 DEF S
<1>5. a.day \in Int /\ b.day \in Int /\ a.day # b.day
  BY <1>1, <1>3, <1>4 DEF CanaryShapes, Decision
<1>6. CASE a.day < b.day
  BY <1>1, <1>3, <1>4, <1>6
<1>7. CASE b.day < a.day
  BY <1>1, <1>3, <1>4, <1>7
<1> QED BY <1>5, <1>6, <1>7

\* Recording a decision.
LEMMA RecordKeepsCanary ==
  ASSUME CanaryInv, NEW j \in CanaryJobs, NEW decision \in OperatorDecisions, RecordDecision(j, decision)
  PROVE  CanaryInv'
<1>0. /\ CanaryShapes /\ JobsAreInOrder /\ SymbolsAreEvidenced
      /\ \A d \in decisions : ExpansionIsEarned(d)
      /\ \A d, e \in decisions : d.day = e.day => d = e
  BY DEF CanaryInv
<1>1. PICK new : new = [day |-> krxSnap[j].asOf, job |-> j, authority |-> selection[j].authority,
                        decision |-> decision]
  OBVIOUS
<1>2. /\ selection[j].authority \in {"krx", "naver_last_completed"} /\ BothCompleted(j)
      /\ selection[j].authority = "krx" => mapping[j].status = "approved" /\ Healthy(j)
      /\ decision = "expand" => Cardinality(PriorContinues(krxSnap[j].asOf)) >= 2
      /\ \A d \in decisions : d.day # krxSnap[j].asOf
      /\ decisions' = decisions \cup {new}
      /\ UNCHANGED <<krxSnap, naverSnap, lastSeen, mapped, mapping, approvedRun, selection>>
  BY <1>1 DEF RecordDecision
<1>3. krxSnap[j].asOf \in Int
  BY <1>0 DEF CanaryShapes, KrxSnap
<1>4. /\ new \in Decision /\ new.day = krxSnap[j].asOf /\ new.job = j
      /\ new.authority = selection[j].authority /\ new.decision = decision
  BY <1>1, <1>2, <1>3 DEF Decision
<1>5. /\ \A c : Evidence(c) => Evidence(c)'
      /\ \A i \in CanaryJobs : FollowedIsEvidenced(i)'
      /\ \A d \in decisions : DecisionIsBacked(d)'
  BY <1>2, CanaryRests
<1>6. CanaryShapes'
  <2>1. decisions' \in SUBSET Decision
    BY <1>0, <1>2, <1>4 DEF CanaryShapes
  <2>2. IsFiniteSet(decisions')
    BY <1>0, <1>2, FS_AddElement DEF CanaryShapes
  <2> QED BY <1>0, <1>2, <2>1, <2>2 DEF CanaryShapes
<1>7. JobsAreInOrder'
  BY <1>0, <1>2 DEF JobsAreInOrder
<1>8. SymbolsAreEvidenced'
  BY <1>0, <1>2, <1>5 DEF SymbolsAreEvidenced
<1>9. DecisionIsBacked(new)'
  BY <1>2, <1>4 DEF DecisionIsBacked, BothCompleted, Healthy
<1>10. ExpansionIsEarned(new)'
  <2> SUFFICES ASSUME new.decision = "expand" PROVE ExpansionIsEarned(new)'
      BY DEF ExpansionIsEarned
  <2>1. Cardinality(PriorContinues(krxSnap[j].asOf)) >= 2
    BY <1>2, <1>4
  <2>2. PICK day \in Int : day = krxSnap[j].asOf
    BY <1>3
  <2>3. PICK a \in decisions, b \in decisions :
           /\ a.day < b.day /\ b.day < day
           /\ \A x \in {a, b} : x.decision = "continue" /\ x.authority = "krx"
    BY <1>0, <2>1, <2>2, TwoContinues
  <2>4. a \in decisions' /\ b \in decisions'
    BY <1>2, <2>3
  <2> QED BY <1>4, <2>2, <2>3, <2>4 DEF ExpansionIsEarned
<1>11. \A d \in decisions : ExpansionIsEarned(d)'
  BY <1>0, <1>2 DEF ExpansionIsEarned
<1>12. \A d, e \in decisions' : d.day = e.day => d = e
  BY <1>0, <1>2, <1>4
<1> QED BY <1>2, <1>5, <1>6, <1>7, <1>8, <1>9, <1>10, <1>11, <1>12 DEF CanaryInv

LEMMA CanarySteps == CanaryInv /\ [CanaryNext]_canaryVars => CanaryInv'
<1> SUFFICES ASSUME CanaryInv, [CanaryNext]_canaryVars PROVE CanaryInv'
    OBVIOUS
<1>1. CASE UNCHANGED canaryVars
  <2>1. UNCHANGED <<krxSnap, naverSnap, lastSeen, mapped, mapping, approvedRun, selection, decisions>>
    BY <1>1 DEF canaryVars
  <2>2. /\ \A c : Evidence(c) => Evidence(c)'
        /\ \A i \in CanaryJobs : FollowedIsEvidenced(i)'
        /\ \A d \in decisions : DecisionIsBacked(d)'
    BY <2>1, CanaryRests
  <2> QED BY <2>1, <2>2 DEF CanaryInv, CanaryShapes, JobsAreInOrder, SymbolsAreEvidenced, ExpansionIsEarned
<1> QED BY <1>1, KrxShadowKeepsCanary, SyncSymbolsKeepsCanary, SelectKeepsCanary, ApproveKeepsCanary,
           RecordKeepsCanary
        DEF CanaryNext

\* sync_prices.py:346: in whatever order jobs, approvals and decisions come, a
\* job follows KRX only on an approved mapping and its own observation, and only
\* to stocks both providers have seen.
THEOREM CanaryTheorem == CanarySpec => [](CanaryTypeOK /\ KrxTargetsAreEvidenced)
BY CanaryStarts, CanarySteps, CanaryInvIsEnough, PTL DEF CanarySpec

\* universe_canary_decision.py:87: a decision to expand stands on two earlier
\* days on which following KRX went well.
THEOREM ExpandTheorem == CanarySpec => []ExpandIsEarned
BY CanaryStarts, CanarySteps, CanaryInvIsEnough, PTL DEF CanarySpec

-----------------------------------------------------------------------------
(***************************************************************************)
(* Naver's list.  The number of stocks listed no later than a stock never  *)
(* grows, so while the list keeps its size a stock that stays listed only  *)
(* moves back, and cannot slip past the page that is read next.  And the   *)
(* rows read so far are as many as the pages hold only if no page left one *)
(* out.                                                                    *)
(***************************************************************************)
Fetch ==
  [at : {"stocks", "etf", "etn", "done"}, page : 0..MaxSymbolPages,
   expected : {Unread} \cup (0..LastListing), stocks : SUBSET (1..latest),
   funds : SUBSET UNION FundLists, reachedEnd : BOOLEAN, failed : BOOLEAN, overlap : BOOLEAN]

\* Stocks listed no later than s.
NoNewer(s) == Cardinality({t \in listing : t <= s})

PagesAreWhole ==
  fetch.at = "stocks" =>
    /\ ~fetch.failed
    /\ fetch.page = 0 => fetch.stocks = {}
    /\ fetch.page # 0 => fetch.expected # Unread
    /\ ~fetch.overlap =>
         /\ Cardinality(fetch.stocks) <= fetch.page * SymbolPageSize
         /\ fetch.page # 0 /\ Cardinality(fetch.stocks) = fetch.page * SymbolPageSize =>
              \A s \in throughout \ fetch.stocks :
                fetch.expected - NoNewer(s) >= fetch.page * SymbolPageSize

NaverInv ==
  /\ latest \in 0..LastListing /\ listing \in SUBSET (1..latest)
  /\ throughout \in SUBSET listing /\ fetch \in Fetch
  /\ PagesAreWhole /\ CompleteUniverseWasListed

USE NaverAssumption

\* How many of L come before s, newest first.
Newer(L, s) == Cardinality({t \in L : t > s})

\* Among some of the numbers 1..n, those above s and those up to s.
LEMMA NewerAndNoNewer ==
  ASSUME NEW n \in Nat, NEW L \in SUBSET (1..n), NEW s \in L
  PROVE  /\ IsFiniteSet(L) /\ Cardinality(L) \in Nat
         /\ Newer(L, s) \in Nat
         /\ Cardinality({t \in L : t <= s}) \in Nat
         /\ Newer(L, s) = Cardinality(L) - Cardinality({t \in L : t <= s})
         /\ Newer(L, s) < Cardinality(L)
<1>0. \A t \in L : t \in Nat
  OBVIOUS
<1>1. IsFiniteSet(1..n)
  BY FS_Interval
<1>2. IsFiniteSet(L) /\ Cardinality(L) \in Nat
  BY <1>1, FS_Subset, FS_CardinalityType
<1>3. PICK A, B : A = {t \in L : t > s} /\ B = {t \in L : t <= s}
  OBVIOUS
<1>4. A \in SUBSET L /\ B \in SUBSET L /\ A \cup B = L /\ A \cap B = {} /\ s \in B
  <2>1. \A t : (t \in A <=> t \in L /\ t > s) /\ (t \in B <=> t \in L /\ t <= s)
    BY <1>3
  <2>2. \A t \in L : (t > s <=> ~(t <= s)) /\ s <= s
    BY <1>0
  <2>3. QED
    BY <2>1, <2>2
<1>5. /\ IsFiniteSet(A) /\ Cardinality(A) \in Nat
      /\ IsFiniteSet(B) /\ Cardinality(B) \in Nat
  BY <1>2, <1>4, FS_Subset, FS_CardinalityType
<1>6. Cardinality(L) = Cardinality(A) + Cardinality(B)
  <2>1. Cardinality(A \cup B) = Cardinality(A) + Cardinality(B) - Cardinality(A \cap B)
    BY <1>5, FS_Union
  <2>2. Cardinality(A \cap B) = 0
    BY <1>4, FS_EmptySet
  <2>3. Cardinality(L) = Cardinality(A) + Cardinality(B) - 0
    BY <1>4, <2>1, <2>2
  <2>4. QED
    BY <1>5, <2>3
<1>7. Cardinality(B) # 0
  BY <1>4, <1>5, FS_EmptySet
<1>8. QED
  BY <1>2, <1>3, <1>5, <1>6, <1>7 DEF Newer

\* Members of a list have different numbers of newer ones, so no more of them
\* have a number from low to high - 1 than there are such numbers.
LEMMA PlacesAreDistinct ==
  ASSUME NEW n \in Nat, NEW L \in SUBSET (1..n), NEW low \in Nat, NEW high \in Nat, low <= high,
         NEW P \in SUBSET L,
         \A s \in P : /\ Newer(L, s) >= low
                      /\ Newer(L, s) < high
  PROVE  IsFiniteSet(P) /\ Cardinality(P) \in Nat /\ Cardinality(P) <= high - low
<1> DEFINE place == [s \in P |-> Newer(L, s)]
<1>0. \A t \in L : t \in Nat
  OBVIOUS
<1>1. \A s \in P : place[s] \in low..(high - 1)
  <2> TAKE s \in P
  <2>1. Newer(L, s) \in Nat
    BY NewerAndNoNewer
  <2>2. QED
    BY <2>1
<1>2. ASSUME NEW s \in P, NEW r \in P, s < r
      PROVE  place[r] < place[s]
  <2>1. PICK A, B : A = {t \in L : t > r} /\ B = {t \in L : t > s}
    OBVIOUS
  <2>2. B \in SUBSET L /\ A \in SUBSET B /\ r \in B /\ r \notin A
    <3>1. \A t : (t \in A <=> t \in L /\ t > r) /\ (t \in B <=> t \in L /\ t > s)
      BY <2>1
    <3>2. \A t \in L : (t > r => t > s) /\ ~(r > r) /\ r > s
      BY <1>0, <1>2
    <3>3. QED
      BY <3>1, <3>2
  <2>3. IsFiniteSet(L)
    BY NewerAndNoNewer
  <2>4. IsFiniteSet(B) /\ IsFiniteSet(A)
    BY <2>2, <2>3, FS_Subset
  <2>5. Cardinality(A) \in Nat /\ Cardinality(B) \in Nat
    BY <2>4, FS_CardinalityType
  <2>6. Cardinality(A) <= Cardinality(B) /\ Cardinality(A) # Cardinality(B)
    BY <2>2, <2>4, FS_Subset
  <2>7. QED
    BY <2>1, <2>5, <2>6 DEF Newer
<1>3. place \in Injection(P, low..(high - 1))
  <2>1. place \in [P -> low..(high - 1)]
    BY <1>1
  <2>2. ASSUME NEW s \in P, NEW r \in P, place[s] = place[r]
        PROVE  s = r
    <3>1. s \in Nat /\ r \in Nat /\ place[s] \in Int
      BY <1>1
    <3>2. QED
      BY <1>2, <2>2, <3>1
  <2> HIDE DEF place
  <2>3. QED
    BY <2>1, <2>2 DEF Injection, IsInjective
<1>4. IsFiniteSet(low..(high - 1)) /\ Cardinality(low..(high - 1)) = high - low
  <2>1. high - 1 \in Int /\ low \in Int
    OBVIOUS
  <2>2. /\ IsFiniteSet(low..(high - 1))
        /\ Cardinality(low..(high - 1)) = IF low > high - 1 THEN 0 ELSE (high - 1) - low + 1
    BY <2>1, FS_Interval
  <2>3. QED
    BY <2>2
<1>5. IsFiniteSet(P) /\ Cardinality(P) <= Cardinality(low..(high - 1))
  BY <1>3, <1>4, FS_Injection
<1>6. QED
  BY <1>4, <1>5, FS_CardinalityType

\* New rows of a page P of the list L, which has places from base to base + size.
AnswerOfPage(n, L, base, size, P, rows, read) ==
  /\ n \in Nat /\ L \in SUBSET (1..n) /\ base \in Nat /\ size \in Nat /\ P \in SUBSET L
  /\ \A s \in P : Newer(L, s) >= base /\ Newer(L, s) < base + size
  /\ rows \in SUBSET P /\ rows # {} /\ IsFiniteSet(read) /\ rows \cap read = {}
  /\ Cardinality(read) <= base

\* If the rows of disjoint pages are as many as the pages up to base + size hold,
\* or all on the list and the list ends there, the last page left none out.
LEMMA PageIsWhole ==
  ASSUME NEW n, NEW L, NEW base, NEW size, NEW P, NEW rows, NEW read,
         AnswerOfPage(n, L, base, size, P, rows, read)
  PROVE  /\ Cardinality(read \cup rows) <= base + size
         /\ Cardinality(read \cup rows) = base + size => Cardinality(read) = base /\ rows = P
         /\ Cardinality(L) <= base + size /\ Cardinality(read \cup rows) = Cardinality(L) =>
              Cardinality(read) = base /\ rows = P
<1>0. /\ n \in Nat /\ L \in SUBSET (1..n) /\ base \in Nat /\ size \in Nat /\ P \in SUBSET L
      /\ \A s \in P : Newer(L, s) >= base /\ Newer(L, s) < base + size
      /\ rows \in SUBSET P /\ rows # {} /\ IsFiniteSet(read) /\ rows \cap read = {}
      /\ Cardinality(read) <= base
  BY DEF AnswerOfPage
<1>1. PICK m : m = Cardinality(L)
  OBVIOUS
<1>2. PICK r \in rows : r \in L /\ Newer(L, r) >= base
  BY <1>0
<1>3. m \in Nat /\ base < m
  <2>1. PICK newer : newer = Newer(L, r)
    OBVIOUS
  <2>2. newer \in Nat /\ newer < m /\ m \in Nat
    BY <1>0, <1>1, <1>2, <2>1, NewerAndNoNewer
  <2>3. newer >= base
    BY <1>0, <1>2, <2>1
  <2>4. QED
    BY <1>0, <2>2, <2>3
<1>4. P \in SUBSET L
  BY <1>0
<1>5. \A s \in P : /\ Newer(L, s) >= base
                   /\ Newer(L, s) < base + size
                   /\ Newer(L, s) < m
  BY <1>0, <1>1, <1>4, NewerAndNoNewer
<1>6. IsFiniteSet(P) /\ Cardinality(P) \in Nat /\ Cardinality(P) <= size /\ Cardinality(P) <= m - base
  <2>1. IsFiniteSet(P) /\ Cardinality(P) \in Nat /\ Cardinality(P) <= (base + size) - base
    <3>1. base + size \in Nat /\ base <= base + size
      BY <1>0
    <3>2. \A s \in P : /\ Newer(L, s) >= base
                       /\ Newer(L, s) < base + size
      BY <1>0, <1>5
    <3>3. QED
      BY <1>0, <1>4, <3>1, <3>2, PlacesAreDistinct
  <2>2. Cardinality(P) <= m - base
    <3>1. base <= m
      BY <1>0, <1>3
    <3>2. \A s \in P : /\ Newer(L, s) >= base
                       /\ Newer(L, s) < m
      BY <1>0, <1>5
    <3>3. QED
      BY <1>0, <1>3, <1>4, <3>1, <3>2, PlacesAreDistinct
  <2>3. QED
    BY <1>0, <2>1, <2>2
<1>7. IsFiniteSet(rows) /\ Cardinality(rows) \in Nat /\ Cardinality(rows) <= Cardinality(P)
  BY <1>0, <1>6, FS_Subset, FS_CardinalityType
<1>8. Cardinality(read) \in Nat /\ Cardinality(read \cup rows) = Cardinality(read) + Cardinality(rows)
  <2>1. Cardinality(read \cup rows) = Cardinality(read) + Cardinality(rows) - Cardinality(read \cap rows)
    BY <1>0, <1>7, FS_Union
  <2>2. Cardinality(read \cap rows) = 0
    <3>1. read \cap rows = {}
      BY <1>0
    <3>2. QED
      BY <1>0, <3>1, FS_EmptySet
  <2>3. Cardinality(read) \in Nat
    BY <1>0, FS_CardinalityType
  <2>4. QED
    BY <1>0, <1>7, <2>1, <2>2, <2>3
<1>9. Cardinality(rows) = Cardinality(P) => rows = P
  BY <1>0, <1>6, FS_Subset
<1>10. PICK x, y, z : x = Cardinality(read) /\ y = Cardinality(rows) /\ z = Cardinality(P)
  OBVIOUS
<1>11. /\ x \in Nat /\ y \in Nat /\ z \in Nat /\ x <= base /\ y <= z /\ z <= size /\ z <= m - base
       /\ Cardinality(read \cup rows) = x + y
  BY <1>0, <1>6, <1>7, <1>8, <1>10
<1>12. /\ x + y <= base + size
       /\ x + y = base + size => x = base /\ y = z
       /\ m <= base + size /\ x + y = m => x = base /\ y = z
  BY <1>0, <1>3, <1>11
<1>13. QED
  BY <1>0, <1>1, <1>9, <1>10, <1>11, <1>12

\* One answer: a page without a row, with another total, with a successor, or the last one.
LEMMA PageKeepsNaver ==
  ASSUME NaverInv, ReadListingPage
  PROVE  NaverInv'
<1>1. /\ fetch.at = "stocks" /\ fetch.page < MaxSymbolPages
      /\ UNCHANGED <<listing, latest, throughout>>
  BY DEF ReadListingPage
<1> DEFINE Begun == [fetch EXCEPT !.expected = IF @ = Unread THEN Cardinality(listing) ELSE @]
<1>11. PICK rows \in SUBSET PageOf(fetch.page), repeats \in BOOLEAN :
         fetch' = IF Cardinality(listing) # Begun.expected \/ rows = {} THEN FailStocks(Begun)
                  ELSE IF HasNext(fetch.page, Cardinality(listing))
                    THEN [[Begun EXCEPT !.stocks = @ \cup rows,
                                        !.overlap = @ \/ repeats \/ rows \cap fetch.stocks # {}]
                            EXCEPT !.page = @ + 1]
                  ELSE EndStocks([[Begun EXCEPT !.stocks = @ \cup rows,
                                        !.overlap = @ \/ repeats \/ rows \cap fetch.stocks # {}]
                                    EXCEPT !.reachedEnd = TRUE])
  BY DEF ReadListingPage
<1> HIDE DEF Begun
<1>2. PICK total, begun, read :
        /\ total = Cardinality(listing) /\ begun = Begun
        /\ read = [begun EXCEPT !.stocks = begun.stocks \cup rows,
                                !.overlap = begun.overlap \/ repeats \/ rows \cap fetch.stocks # {}]
  OBVIOUS
<1>12. fetch' = IF total # begun.expected \/ rows = {} THEN FailStocks(begun)
                ELSE IF HasNext(fetch.page, total) THEN [read EXCEPT !.page = @ + 1]
                ELSE EndStocks([read EXCEPT !.reachedEnd = TRUE])
  BY <1>2, <1>11
<1>3. /\ latest \in Nat /\ listing \in SUBSET (1..latest) /\ throughout \in SUBSET listing
      /\ fetch \in Fetch /\ PagesAreWhole
  BY DEF NaverInv
<1>4. total \in 0..LastListing
  <2>1. /\ IsFiniteSet(1..latest) /\ Cardinality(1..latest) <= LastListing
    <3>1. latest \in Nat /\ latest <= LastListing
      BY DEF NaverInv
    <3>2. IsFiniteSet(1..latest) /\ Cardinality(1..latest) = IF 1 > latest THEN 0 ELSE latest - 1 + 1
      BY <3>1, FS_Interval
    <3>3. QED
      BY <3>1, <3>2
  <2>2. /\ IsFiniteSet(listing) /\ Cardinality(listing) <= Cardinality(1..latest)
    BY <1>3, <2>1, FS_Subset
  <2>3. Cardinality(listing) \in Nat /\ Cardinality(1..latest) \in Nat
    BY <2>1, <2>2, FS_CardinalityType
  <2>4. QED
    BY <1>2, <2>1, <2>2, <2>3
<1>5. /\ PageOf(fetch.page) \in SUBSET listing
      /\ rows \in SUBSET (1..latest)
  BY <1>3 DEF PageOf
<1>6. /\ begun \in Fetch /\ begun.at = "stocks" /\ begun.page = fetch.page
      /\ begun.stocks = fetch.stocks /\ begun.overlap = fetch.overlap /\ begun.failed = fetch.failed
      /\ begun.expected \in 0..LastListing
      /\ fetch.page # 0 => begun.expected = fetch.expected
  BY <1>1, <1>2, <1>3, <1>4 DEF Fetch, PagesAreWhole, Unread, Begun
<1>7. /\ read \in Fetch /\ read.at = "stocks" /\ read.page = fetch.page
      /\ read.stocks = fetch.stocks \cup rows /\ read.failed = fetch.failed
      /\ (~read.overlap => ~fetch.overlap /\ rows \cap fetch.stocks = {})
      /\ read.expected = begun.expected
  <2>1. PICK v \in BOOLEAN : v = (begun.overlap \/ repeats \/ rows \cap fetch.stocks # {})
    BY Zenon
  <2>2. ~v => ~fetch.overlap /\ rows \cap fetch.stocks = {}
    BY <1>6, <2>1, Zenon
  <2>3. PICK u : u = begun.stocks \cup rows
    OBVIOUS
  <2>4. u \in SUBSET (1..latest) /\ u = fetch.stocks \cup rows
    <3>1. fetch.stocks \in SUBSET (1..latest)
      BY <1>3, Zenon DEF Fetch
    <3>2. QED
      BY <1>5, <1>6, <2>3, <3>1
  <2>5. read = [begun EXCEPT !.stocks = u, !.overlap = v]
    BY <1>2, <2>1, <2>3, Zenon
  <2>6. read \in Fetch
    BY <1>6, <2>4, <2>5 DEF Fetch
  <2>7. DOMAIN begun = {"at", "page", "expected", "stocks", "funds", "reachedEnd", "failed", "overlap"}
    BY <1>6 DEF Fetch
  <2>8. QED
    BY <1>6, <2>2, <2>4, <2>5, <2>6, <2>7
<1>8. CASE total # begun.expected \/ rows = {}
  <2>1. fetch' \in Fetch /\ fetch'.at = "etf" /\ fetch'.failed
    <3>1. fetch' = FailStocks(begun)
      BY <1>8, <1>12
    <3>2. fetch' = [[begun EXCEPT !.at = "etf"] EXCEPT !.failed = TRUE]
      BY <3>1, Zenon DEF FailStocks, EndStocks
    <3>3. QED
      BY <1>6, <3>2 DEF Fetch
  <2>2. Fetch' = Fetch
    BY <1>1 DEF Fetch
  <2>3. QED
    BY <1>1, <1>3, <2>1, <2>2
    DEF NaverInv, PagesAreWhole, CompleteUniverseWasListed, FetchComplete
<1>9. CASE ~(total # begun.expected \/ rows = {})
  <2>0. total = begun.expected /\ rows # {} /\ ~fetch.failed
    BY <1>1, <1>3, <1>9 DEF PagesAreWhole
  <2>1. PICK base : base = fetch.page * SymbolPageSize
    OBVIOUS
  <2>2. base \in Nat /\ base + SymbolPageSize = (fetch.page + 1) * SymbolPageSize
        /\ fetch.page \in Nat /\ (fetch.page = 0 => base = 0)
    BY <1>3, <2>1 DEF Fetch
  <2>3. PICK P : P = PageOf(fetch.page)
    OBVIOUS
  <2>4. P = {s \in listing : /\ Newer(listing, s) >= base
                             /\ Newer(listing, s) < base + SymbolPageSize}
    BY <2>1, <2>2, <2>3 DEF PageOf, Place, Newer
  <2>5. IsFiniteSet(fetch.stocks) /\ Cardinality(fetch.stocks) \in Nat
    <3>1. IsFiniteSet(1..latest)
      BY <1>3, FS_Interval
    <3>2. fetch.stocks \in SUBSET (1..latest)
      BY <1>3 DEF Fetch
    <3>3. QED
      BY <3>1, <3>2, FS_Subset, FS_CardinalityType
  <2>6. ASSUME ~read.overlap
        PROVE  /\ Cardinality(read.stocks) <= base + SymbolPageSize
               /\ Cardinality(read.stocks) = base + SymbolPageSize =>
                    Cardinality(fetch.stocks) = base /\ rows = P
               /\ total <= base + SymbolPageSize /\ Cardinality(read.stocks) = total =>
                    Cardinality(fetch.stocks) = base /\ rows = P
    <3>1. rows \cap fetch.stocks = {} /\ Cardinality(fetch.stocks) <= base
      BY <1>1, <1>3, <1>7, <2>1, <2>6 DEF PagesAreWhole
    <3>2. rows \in SUBSET P
      BY <2>3
    <3>3. read.stocks = fetch.stocks \cup rows /\ total = Cardinality(listing)
      BY <1>2, <1>7
    <3>4. PICK L, stocks, n : L = listing /\ stocks = fetch.stocks /\ n = latest
      OBVIOUS
    <3>5. AnswerOfPage(n, L, base, SymbolPageSize, P, rows, stocks)
      BY <1>3, <2>0, <2>2, <2>4, <2>5, <3>1, <3>2, <3>4 DEF AnswerOfPage
    <3>6. /\ Cardinality(stocks \cup rows) <= base + SymbolPageSize
          /\ Cardinality(stocks \cup rows) = base + SymbolPageSize => Cardinality(stocks) = base /\ rows = P
          /\ Cardinality(L) <= base + SymbolPageSize /\ Cardinality(stocks \cup rows) = Cardinality(L) =>
               Cardinality(stocks) = base /\ rows = P
      BY ONLY <3>5, PageIsWhole
    <3>7. QED
      BY <3>3, <3>4, <3>6
  <2>7. ASSUME ~read.overlap, Cardinality(fetch.stocks) = base, rows = P,
               NEW s \in throughout \ read.stocks
        PROVE  /\ total - NoNewer(s) >= base + SymbolPageSize
               /\ total - NoNewer(s) < total
    <3>1. s \in listing /\ s \notin fetch.stocks /\ s \notin P
      BY <1>3, <1>7, <2>7
    <3>2. PICK newer : newer = Newer(listing, s)
      OBVIOUS
    <3>3. newer \in Nat /\ newer = total - NoNewer(s) /\ newer < total
      <4>1. PICK L, n : L = listing /\ n = latest
        OBVIOUS
      <4>2. n \in Nat /\ L \in SUBSET (1..n) /\ s \in L
        BY <1>3, <3>1, <4>1
      <4>3. /\ Newer(L, s) \in Nat
            /\ Newer(L, s) = Cardinality(L) - Cardinality({t \in L : t <= s})
            /\ Newer(L, s) < Cardinality(L)
        BY ONLY <4>2, NewerAndNoNewer
      <4>4. QED
        BY <1>2, <3>2, <4>1, <4>3 DEF NoNewer
    <3>4. newer >= base
      <4>1. CASE fetch.page = 0
        BY <2>2, <3>3, <4>1
      <4>2. CASE fetch.page # 0
        <5>1. ~fetch.overlap /\ s \in throughout \ fetch.stocks /\ total = fetch.expected
          BY <1>6, <1>7, <2>0, <2>7, <3>1, <4>2
        <5>2. fetch.expected - NoNewer(s) >= base
          BY <1>1, <1>3, <2>1, <2>7, <4>2, <5>1 DEF PagesAreWhole
        <5>3. QED
          BY <3>3, <5>1, <5>2
      <4>3. QED
        BY <4>1, <4>2
    <3>5. ~(newer < base + SymbolPageSize)
      BY <2>4, <3>1, <3>2, <3>4
    <3>6. QED
      BY <2>2, <3>3, <3>5
  <2>8. Fetch' = Fetch /\ \A s : NoNewer(s)' = NoNewer(s)
    BY <1>1 DEF Fetch, NoNewer
  <2>9. CASE HasNext(fetch.page, total)
    <3>1. fetch' = [read EXCEPT !.page = @ + 1]
      BY <1>9, <1>12, <2>9
    <3>2. /\ fetch' \in Fetch /\ fetch'.at = "stocks" /\ fetch'.page = fetch.page + 1
          /\ fetch'.stocks = read.stocks /\ fetch'.overlap = read.overlap
          /\ fetch'.failed = fetch.failed /\ fetch'.expected = total
      BY <1>1, <1>3, <1>7, <2>0, <3>1 DEF Fetch
    <3>3. ~fetch'.overlap =>
            /\ Cardinality(fetch'.stocks) <= base + SymbolPageSize
            /\ Cardinality(fetch'.stocks) = base + SymbolPageSize =>
                 \A s \in throughout \ fetch'.stocks : total - NoNewer(s) >= base + SymbolPageSize
      BY <2>6, <2>7, <3>2
    <3>4. total # Unread /\ fetch'.page # 0
      BY <1>4, <2>2, <3>2 DEF Unread
    <3>5. PagesAreWhole'
      BY <1>1, <2>0, <2>2, <2>8, <3>2, <3>3, <3>4 DEF PagesAreWhole
    <3>6. QED
      BY <1>1, <1>3, <2>8, <3>2, <3>5 DEF NaverInv, CompleteUniverseWasListed
  <2>10. CASE ~HasNext(fetch.page, total)
    <3>1. fetch' = EndStocks([read EXCEPT !.reachedEnd = TRUE])
      BY <1>9, <1>12, <2>10
    <3>2. /\ fetch' \in Fetch /\ fetch'.at = "etf"
          /\ fetch'.stocks = read.stocks /\ fetch'.overlap = read.overlap /\ fetch'.expected = total
      BY <1>7, <2>0, <3>1 DEF Fetch, EndStocks
    <3>3. total <= base + SymbolPageSize
      BY <1>4, <2>2, <2>10 DEF HasNext
    <3>4. ASSUME ~fetch'.overlap, fetch'.expected = Cardinality(fetch'.stocks)
          PROVE  throughout \subseteq fetch'.stocks
      <4>1. ~read.overlap /\ Cardinality(fetch.stocks) = base /\ rows = P
        BY <2>6, <3>2, <3>3, <3>4
      <4>2. \A s \in throughout \ read.stocks :
              total - NoNewer(s) >= base + SymbolPageSize /\ total - NoNewer(s) < total
        BY <2>7, <4>1
      <4>3. \A s \in throughout : NoNewer(s) \in Nat
        BY <1>3, NewerAndNoNewer DEF NoNewer
      <4>4. QED
        BY <1>4, <2>2, <3>2, <3>3, <4>2, <4>3
    <3>5. CompleteUniverseWasListed'
      BY <1>1, <3>4 DEF CompleteUniverseWasListed, FetchComplete
    <3>6. QED
      BY <1>1, <1>3, <2>8, <3>2, <3>5 DEF NaverInv, PagesAreWhole
  <2>11. QED
    BY <2>9, <2>10
<1>10. QED
  BY <1>8, <1>9

\* A listing puts a newer stock before every other, a delisting only takes one away.
LEMMA ListKeepsNaver ==
  ASSUME NaverInv, ListStock \/ \E s \in listing : DelistStock(s)
  PROVE  NaverInv'
<1>1. /\ latest \in Nat /\ latest <= LastListing /\ listing \in SUBSET (1..latest)
      /\ throughout \in SUBSET listing /\ fetch \in Fetch /\ PagesAreWhole
  BY DEF NaverInv
<1>2. /\ fetch.at = "stocks" /\ fetch' = fetch /\ latest' \in 0..LastListing /\ latest <= latest'
      /\ listing' \in SUBSET (1..latest') /\ throughout' \in SUBSET throughout
      /\ throughout' \in SUBSET listing'
      /\ \A t \in listing' : t \in listing \/ t > latest
  <2>1. CASE ListStock
    <3>1. /\ fetch.at = "stocks" /\ fetch' = fetch /\ latest < LastListing /\ latest' = latest + 1
          /\ listing' = listing \cup {latest + 1} /\ throughout' = throughout
      BY <2>1 DEF ListStock
    <3>2. \A t \in listing : t \in 1..(latest + 1)
      BY <1>1
    <3>3. QED
      BY <1>1, <3>1, <3>2
  <2>2. CASE \E s \in listing : DelistStock(s)
    BY <1>1, <2>2 DEF DelistStock
  <2>3. QED
    BY <2>1, <2>2
<1>3. ASSUME NEW s \in throughout'
      PROVE  NoNewer(s) \in Nat /\ NoNewer(s)' \in Nat /\ NoNewer(s)' <= NoNewer(s)
  <2>1. PICK A, B : A = {t \in listing : t <= s} /\ B = {t \in listing' : t <= s}
    OBVIOUS
  <2>2. A \in SUBSET (1..latest) /\ B \in SUBSET A
    <3>1. \A t : (t \in A <=> t \in listing /\ t <= s) /\ (t \in B <=> t \in listing' /\ t <= s)
      BY <2>1
    <3>2. s \in Nat /\ s <= latest /\ \A t \in listing' : t \in Nat
      BY <1>1, <1>2
    <3>3. ASSUME NEW t \in B PROVE t \in A
      <4>1. t \in listing' /\ t <= s /\ t \in Nat /\ ~(t > latest)
        BY <1>1, <3>1, <3>2, <3>3
      <4>2. QED
        BY <1>2, <3>1, <4>1
    <3>4. \A t \in A : t \in 1..latest
      BY <1>1, <3>1
    <3>5. QED
      BY <3>3, <3>4
  <2>3. IsFiniteSet(1..latest)
    BY <1>1, FS_Interval
  <2>4. IsFiniteSet(A) /\ IsFiniteSet(B) /\ Cardinality(B) <= Cardinality(A)
    BY <2>2, <2>3, FS_Subset
  <2>5. Cardinality(A) \in Nat /\ Cardinality(B) \in Nat
    BY <2>4, FS_CardinalityType
  <2>6. QED
    BY <2>1, <2>4, <2>5 DEF NoNewer
<1>4. fetch' \in Fetch'
  BY <1>1, <1>2 DEF Fetch
<1>5. PagesAreWhole'
  <2>1. PICK base : base = fetch.page * SymbolPageSize
    OBVIOUS
  <2>2. base \in Int
    BY <1>1, <2>1 DEF Fetch
  <2>3. ASSUME fetch.page # 0, NEW s \in throughout' \ fetch.stocks,
               fetch.expected - NoNewer(s) >= base
        PROVE  fetch.expected - NoNewer(s)' >= base
    <3>1. fetch.expected \in Int
      BY <1>1 DEF Fetch, Unread
    <3>2. QED
      BY <1>3, <2>2, <2>3, <3>1
  <2>4. QED
    BY <1>1, <1>2, <2>1, <2>3 DEF PagesAreWhole
<1>6. QED
  BY <1>2, <1>4, <1>5 DEF NaverInv, CompleteUniverseWasListed

\* A page without an answer, or a page too many.
LEMMA FailureKeepsNaver ==
  ASSUME NaverInv, PageRequestFails \/ PagesRunOut
  PROVE  NaverInv'
<1>1. UNCHANGED <<listing, latest, throughout>> /\ fetch' = FailStocks(fetch)
  BY DEF PageRequestFails, PagesRunOut
<1>2. fetch' = [[fetch EXCEPT !.at = "etf"] EXCEPT !.failed = TRUE]
  BY <1>1, Zenon DEF FailStocks, EndStocks
<1>3. fetch \in Fetch
  BY DEF NaverInv
<1>4. fetch' \in Fetch' /\ fetch'.at = "etf" /\ fetch'.failed
  BY <1>1, <1>2, <1>3 DEF Fetch
<1>5. QED
  BY <1>1, <1>4 DEF NaverInv, PagesAreWhole, CompleteUniverseWasListed, FetchComplete

\* The lists of funds leave the stocks as they are.
LEMMA FundsKeepNaver ==
  ASSUME NaverInv, ReadFunds \/ FundsFail
  PROVE  NaverInv'
<1>1. /\ fetch.at \in {"etf", "etn"} /\ UNCHANGED <<listing, latest, throughout>>
      /\ fetch \in Fetch
  BY DEF NaverInv, ReadFunds, FundsFail
<1>2. AfterFund \in {"etn", "done"}
  BY DEF AfterFund
<1>3. /\ fetch' \in Fetch /\ fetch'.at \in {"etn", "done"}
      /\ fetch'.stocks = fetch.stocks /\ fetch'.expected = fetch.expected
      /\ fetch'.reachedEnd = fetch.reachedEnd
      /\ fetch.failed => fetch'.failed
      /\ fetch.overlap => fetch'.overlap
  <2>1. CASE ReadFunds
    <3>1. PICK funds \in FundLists \ {{}} :
            fetch' = [fetch EXCEPT !.at = AfterFund, !.funds = fetch.funds \cup (funds \ fetch.stocks),
                        !.overlap = fetch.overlap \/ funds \cap (fetch.stocks \cup fetch.funds) # {}]
      BY <2>1 DEF ReadFunds
    <3>2. PICK v \in BOOLEAN : v = (fetch.overlap \/ funds \cap (fetch.stocks \cup fetch.funds) # {})
      BY Zenon
    <3>3. fetch.overlap => v
      BY <3>2, Zenon
    <3>4. PICK u : u = fetch.funds \cup (funds \ fetch.stocks)
      OBVIOUS
    <3>5. u \in SUBSET UNION FundLists
      <4>1. fetch.funds \in SUBSET UNION FundLists
        BY <1>1 DEF Fetch
      <4>2. funds \in SUBSET UNION FundLists
        OBVIOUS
      <4>3. QED
        BY <3>4, <4>1, <4>2
    <3>6. fetch' = [fetch EXCEPT !.at = AfterFund, !.funds = u, !.overlap = v]
      BY <3>1, <3>2, <3>4, Zenon
    <3>7. QED
      BY <1>1, <1>2, <3>3, <3>5, <3>6 DEF Fetch
  <2>2. CASE FundsFail
    BY <1>1, <1>2, <2>2 DEF FundsFail, Fetch
  <2>3. QED
    BY <2>1, <2>2
<1>4. Fetch' = Fetch
  BY <1>1 DEF Fetch
<1>5. CompleteUniverseWasListed'
  BY <1>1, <1>3 DEF NaverInv, CompleteUniverseWasListed, FetchComplete
<1>6. QED
  BY <1>1, <1>3, <1>4, <1>5 DEF NaverInv, PagesAreWhole

LEMMA NaverStarts == NaverInit => NaverInv
<1> SUFFICES ASSUME NaverInit PROVE NaverInv
  OBVIOUS
<1>1. /\ latest = FirstListed /\ listing = 1..latest /\ throughout = listing
      /\ fetch = [at |-> "stocks", page |-> 0, expected |-> Unread, stocks |-> {}, funds |-> {},
                  reachedEnd |-> FALSE, failed |-> FALSE, overlap |-> FALSE]
  BY DEF NaverInit
<1>2. fetch \in Fetch
  BY <1>1 DEF Fetch
<1>3. PagesAreWhole
  <2>1. Cardinality({}) = 0
    BY FS_EmptySet
  <2>2. QED
    BY <1>1, <2>1 DEF PagesAreWhole
<1>4. QED
  BY <1>1, <1>2, <1>3 DEF NaverInv, CompleteUniverseWasListed

LEMMA NaverSteps == NaverInv /\ [NaverNext]_naverVars => NaverInv'
<1>1. ASSUME NaverInv, UNCHANGED naverVars PROVE NaverInv'
  BY <1>1 DEF naverVars, NaverInv, Fetch, PagesAreWhole, NoNewer, CompleteUniverseWasListed, FetchComplete
<1>2. QED
  BY <1>1, ListKeepsNaver, PageKeepsNaver, FailureKeepsNaver, FundsKeepNaver DEF NaverNext

\* crawler/sources/naver.py:56: for every page size and every number of pages,
\* stocks and listings, a fetch of Naver's list that calls itself complete has
\* read every stock that was listed from its first page to its last, however
\* the list moved under it and whatever rows answers left out or repeated.
THEOREM UniverseTheorem == NaverSpec => [](NaverTypeOK /\ CompleteUniverseWasListed)
<1>1. NaverInv => NaverTypeOK /\ CompleteUniverseWasListed
  BY DEF NaverInv, NaverTypeOK, Fetch
<1>2. QED
  BY NaverStarts, NaverSteps, <1>1, PTL DEF NaverSpec

-----------------------------------------------------------------------------
(***************************************************************************)
(* The identities of a code.  Once open, an identity is neither closed nor *)
(* forgotten, so what a session read of it long ago still holds; a date is *)
(* given once, because the session that gives it is the only one writing.  *)
(***************************************************************************)
Life == [from : Nat, to : Nat, status : {"listed", "delisted"}]

OpenIn(ids, i) == i \in DOMAIN ids /\ ids[i].to = NoDay /\ ids[i].status # "delisted"

\* What a session has read and not yet written.
TaskFits(t, ids) ==
  \/ t = FreeTask
  \/ t.kind = "observe" /\ \A i \in t.found : OpenIn(ids, i)
  \/ /\ t.kind \in {"planned", "apply"} /\ DOMAIN t = {"kind", "creates", "updates"}
     /\ IsFiniteSet(t.creates) /\ t.creates \subseteq Life
     /\ \A u \in t.updates : u[1] \in DOMAIN ids /\ u[2] \in Nat
  \/ /\ t.kind \in {"mapping", "map"} /\ DOMAIN t = {"kind", "ids"}
     /\ \A i \in t.ids : OpenIn(ids, i)
     /\ \A i, j \in t.ids : i = j

Writes(t) == t.kind \in {"apply", "map"}
Undated(t, ids) == \A u \in t.updates : ids[u[1]].from = NoDay

EventIn(e, ids) ==
  e \in [id : DOMAIN ids, type : {"listed", "delisted"}, day : Nat \ {NoDay}]
DatedBy(e, ids) == e.day = IF e.type = "delisted" THEN ids[e.id].to ELSE ids[e.id].from

\* What holds while writing transactions do not overlap.
OneWriter(ids, km, ts, fl, ev) ==
  /\ \A o, p \in Operators : Writes(ts[o]) /\ Writes(ts[p]) => o = p
  /\ \A o \in Operators : ts[o].kind = "apply" => Undated(ts[o], ids)
  /\ \A o \in Operators : ts[o].kind = "map" => km = {}
  /\ \A e \in fl \cup ev : DatedBy(e, ids)
  /\ \A i, j \in km : i = j

IdentityOK(ids, link, nm, km, ts, fl, ev, cr) ==
  /\ ids \in Seq(Life) /\ Len(ids) <= MaxIdentities
  /\ link # 0 => OpenIn(ids, link)
  /\ \A i \in nm \cup km : OpenIn(ids, i)
  /\ DOMAIN ts = Operators /\ \A o \in Operators : TaskFits(ts[o], ids)
  /\ \A e \in fl \cup ev : EventIn(e, ids)
  /\ cr \in BOOLEAN /\ (~cr => OneWriter(ids, km, ts, fl, ev))

IdentityInv ==
  \E ids, link, nm, km, ts, fl, ev, cr :
    /\ identity = ids /\ linked = link /\ naverMapped = nm /\ kiwoomMapped = km
    /\ task = ts /\ file = fl /\ events = ev /\ crossed = cr
    /\ IdentityOK(ids, link, nm, km, ts, fl, ev, cr)

LEMMA IdentityInvNext ==
  ASSUME NEW ids, NEW link, NEW nm, NEW km, NEW ts, NEW fl, NEW ev, NEW cr,
         identity' = ids, linked' = link, naverMapped' = nm, kiwoomMapped' = km,
         task' = ts, file' = fl, events' = ev, crossed' = cr,
         IdentityOK(ids, link, nm, km, ts, fl, ev, cr)
  PROVE  IdentityInv'
BY DEF IdentityInv

\* A list that has grown: no identity was closed or lost.
Grown(ids, more) ==
  /\ DOMAIN ids \subseteq DOMAIN more
  /\ \A i \in DOMAIN ids : /\ more[i].to = ids[i].to
                           /\ ids[i].status # "delisted" => more[i].status # "delisted"

LEMMA OpenStays ==
  ASSUME NEW ids, NEW more, Grown(ids, more), NEW i, OpenIn(ids, i)
  PROVE  OpenIn(more, i)
BY DEF Grown, OpenIn

LEMMA TaskStays ==
  ASSUME NEW ids, NEW more, Grown(ids, more), NEW t, TaskFits(t, ids)
  PROVE  TaskFits(t, more)
<1>1. DOMAIN ids \subseteq DOMAIN more
  BY DEF Grown
<1>2. QED
  BY <1>1, OpenStays DEF TaskFits

\* What a session may hold next, and `now` for whether writes have crossed.
MayHold(o, t, now, ids, km, ts, cr) ==
  /\ o \in Operators /\ now \in BOOLEAN /\ TaskFits(t, ids) /\ (~now => ~cr)
  /\ ~now /\ Writes(t) => \A p \in Operators \ {o} : ~Writes(ts[p])
  /\ ~now /\ t.kind = "apply" => Undated(t, ids)
  /\ ~now /\ t.kind = "map" => km = {}

\* A session reads, begins to write, or is free again.
LEMMA TaskChanges ==
  ASSUME NEW ids, NEW link, NEW nm, NEW km, NEW ts, NEW fl, NEW ev, NEW cr,
         IdentityOK(ids, link, nm, km, ts, fl, ev, cr),
         NEW o, NEW t, NEW now, MayHold(o, t, now, ids, km, ts, cr),
         NEW next, next = [ts EXCEPT ![o] = t]
  PROVE  IdentityOK(ids, link, nm, km, next, fl, ev, now)
<1>1. DOMAIN next = Operators /\ next[o] = t /\ \A p \in Operators \ {o} : next[p] = ts[p]
  BY DEF IdentityOK, MayHold
<1>2. \A p \in Operators : TaskFits(next[p], ids)
  BY <1>1 DEF IdentityOK, MayHold
<1>3. ASSUME ~now PROVE OneWriter(ids, km, next, fl, ev)
  <2>1. OneWriter(ids, km, ts, fl, ev)
    BY <1>3 DEF IdentityOK, MayHold
  <2>2. \A p, q \in Operators : Writes(next[p]) /\ Writes(next[q]) => p = q
    BY <1>1, <1>3, <2>1 DEF OneWriter, MayHold
  <2>3. \A p \in Operators : next[p].kind = "apply" => Undated(next[p], ids)
    BY <1>1, <1>3, <2>1 DEF OneWriter, MayHold
  <2>4. \A p \in Operators : next[p].kind = "map" => km = {}
    BY <1>1, <1>3, <2>1 DEF OneWriter, MayHold
  <2>5. QED
    BY <2>1, <2>2, <2>3, <2>4 DEF OneWriter
<1>4. QED
  BY <1>1, <1>2, <1>3 DEF IdentityOK, MayHold

\* The list a session may write.
MayGrow(more, o, ids, ts, cr) ==
  /\ o \in Operators /\ more \in Seq(Life) /\ Len(more) <= MaxIdentities /\ Grown(ids, more)
  /\ ~cr => /\ \A i \in DOMAIN ids : ids[i].from # NoDay => more[i].from = ids[i].from
            /\ \A p \in Operators \ {o} : ts[p].kind = "apply" => Undated(ts[p], more)

\* A session that has written identities is free.
LEMMA ListGrows ==
  ASSUME NEW ids, NEW link, NEW nm, NEW km, NEW ts, NEW fl, NEW ev, NEW cr,
         IdentityOK(ids, link, nm, km, ts, fl, ev, cr),
         NEW more, NEW o, MayGrow(more, o, ids, ts, cr),
         NEW next, next = [ts EXCEPT ![o] = FreeTask]
  PROVE  IdentityOK(more, link, nm, km, next, fl, ev, cr)
<1>1. DOMAIN next = Operators /\ next[o] = FreeTask /\ \A p \in Operators \ {o} : next[p] = ts[p]
  BY DEF IdentityOK, MayGrow
<1>2. \A p \in Operators : TaskFits(next[p], more)
  <2>1. \A p \in Operators : TaskFits(ts[p], more)
    BY TaskStays DEF IdentityOK, MayGrow
  <2>2. TaskFits(FreeTask, more)
    BY DEF TaskFits
  <2>3. QED
    BY <1>1, <2>1, <2>2
<1>3. (link # 0 => OpenIn(more, link)) /\ \A i \in nm \cup km : OpenIn(more, i)
  BY OpenStays DEF IdentityOK, MayGrow
<1>4. \A e \in fl \cup ev : EventIn(e, more)
  BY DEF IdentityOK, EventIn, Grown, MayGrow
<1>5. ASSUME ~cr PROVE OneWriter(more, km, next, fl, ev)
  <2>1. OneWriter(ids, km, ts, fl, ev)
    BY <1>5 DEF IdentityOK
  <2>2. FreeTask.kind # "apply" /\ FreeTask.kind # "map" /\ ~Writes(FreeTask)
    BY DEF FreeTask, Writes
  <2>3. \A p, q \in Operators : Writes(next[p]) /\ Writes(next[q]) => p = q
    BY <1>1, <2>1, <2>2 DEF OneWriter, MayGrow
  <2>4. \A p \in Operators : next[p].kind = "apply" => Undated(next[p], more)
    BY <1>1, <1>5, <2>2 DEF MayGrow
  <2>5. \A p \in Operators : next[p].kind = "map" => km = {}
    BY <1>1, <2>1, <2>2 DEF OneWriter, MayGrow
  <2>6. \A e \in fl \cup ev : DatedBy(e, more)
    <3> TAKE e \in fl \cup ev
    <3>1. EventIn(e, ids) /\ DatedBy(e, ids)
      BY <2>1 DEF IdentityOK, OneWriter
    <3>2. e.id \in DOMAIN ids /\ e.day # NoDay
      BY <3>1 DEF EventIn
    <3>3. QED
      BY <1>5, <3>1, <3>2 DEF DatedBy, Grown, MayGrow
  <2>7. QED
    BY <2>1, <2>3, <2>4, <2>5, <2>6 DEF OneWriter
<1>6. QED
  BY <1>1, <1>2, <1>3, <1>4, <1>5 DEF IdentityOK, MayGrow


HoldsFor(ids, link, nm, km, ts, fl, ev, cr) ==
  /\ identity = ids /\ linked = link /\ naverMapped = nm /\ kiwoomMapped = km
  /\ task = ts /\ file = fl /\ events = ev /\ crossed = cr
  /\ IdentityOK(ids, link, nm, km, ts, fl, ev, cr)

LEMMA TaskStep ==
  ASSUME NEW ids, NEW link, NEW nm, NEW km, NEW ts, NEW fl, NEW ev, NEW cr,
         HoldsFor(ids, link, nm, km, ts, fl, ev, cr),
         NEW o, NEW t, NEW now, MayHold(o, t, now, ids, km, ts, cr),
         task' = [task EXCEPT ![o] = t], crossed' = now,
         UNCHANGED <<identity, linked, naverMapped, kiwoomMapped, file, events>>
  PROVE  IdentityInv'
<1>1. PICK next : next = [ts EXCEPT ![o] = t]
  OBVIOUS
<1>2. IdentityOK(ids, link, nm, km, ts, fl, ev, cr)
  BY DEF HoldsFor
<1>3. IdentityOK(ids, link, nm, km, next, fl, ev, now)
  BY ONLY <1>1, <1>2, TaskChanges, MayHold(o, t, now, ids, km, ts, cr)
<1>4. /\ identity' = ids /\ linked' = link /\ naverMapped' = nm /\ kiwoomMapped' = km
      /\ task' = next /\ file' = fl /\ events' = ev
  BY <1>1 DEF HoldsFor
<1>5. QED
  BY <1>3, <1>4, IdentityInvNext

\* A session that starts over.
LEMMA TaskEnds ==
  ASSUME IdentityInv, NEW o \in Operators, task' = [task EXCEPT ![o] = FreeTask],
         UNCHANGED <<identity, linked, naverMapped, kiwoomMapped, file, events, crossed>>
  PROVE  IdentityInv'
<1>1. PICK ids, link, nm, km, ts, fl, ev, cr : HoldsFor(ids, link, nm, km, ts, fl, ev, cr)
  BY DEF IdentityInv, HoldsFor
<1>2. /\ TaskFits(FreeTask, ids) /\ ~Writes(FreeTask)
      /\ FreeTask.kind # "apply" /\ FreeTask.kind # "map"
  BY DEF TaskFits, FreeTask, Writes
<1>3. cr \in BOOLEAN /\ crossed' = cr
  BY <1>1 DEF HoldsFor, IdentityOK
<1>4. MayHold(o, FreeTask, cr, ids, km, ts, cr)
  BY <1>2, <1>3 DEF MayHold
<1>5. QED
  BY <1>1, <1>3, <1>4, TaskStep

LEMMA ObserveStep ==
  ASSUME IdentityInv, NEW o \in Operators, ObserveKrx(o)
  PROVE  IdentityInv'
<1>1. PICK ids, link, nm, km, ts, fl, ev, cr : HoldsFor(ids, link, nm, km, ts, fl, ev, cr)
  BY DEF IdentityInv, HoldsFor
<1>2. PICK open : open = OpenIdentities
  OBVIOUS
<1>3. \A i \in open : OpenIn(ids, i)
  BY <1>1, <1>2 DEF HoldsFor, IdentityOK, OpenIdentities, StillOpen, Identities, OpenIn
<1>4. PICK t : t = [kind |-> "observe", found |-> open]
  OBVIOUS
<1>5. TaskFits(t, ids) /\ ~Writes(t) /\ t.kind # "apply" /\ t.kind # "map"
  BY <1>3, <1>4 DEF TaskFits, Writes
<1>6. cr \in BOOLEAN /\ crossed' = cr
  BY <1>1 DEF HoldsFor, IdentityOK, ObserveKrx
<1>7. task' = [task EXCEPT ![o] = t]
  BY <1>2, <1>4 DEF ObserveKrx
<1>8. UNCHANGED <<identity, linked, naverMapped, kiwoomMapped, file, events>>
  BY DEF ObserveKrx
<1>9. MayHold(o, t, cr, ids, km, ts, cr)
  BY <1>5, <1>6 DEF MayHold
<1>10. QED
  BY <1>1, <1>6, <1>7, <1>8, <1>9, TaskStep

-----------------------------------------------------------------------------
\* What a plan creates is finitely many closed lifespans.
LEMMA EndIsDay ==
  ASSUME NEW lifecycles \in KrxFiles, NEW l \in lifecycles
  PROVE  End(l) \in Nat
<1>1. l.ends \subseteq Nat \ {NoDay}
  BY IdentityAssumption
<1>2. CASE Cardinality(l.ends) = 1
  <2>1. l.ends # {}
    BY <1>2, FS_EmptySet
  <2>2. QED
    BY <1>1, <1>2, <2>1 DEF End
<1>3. CASE Cardinality(l.ends) # 1
  BY <1>3 DEF End, NoDay
<1>4. QED
  BY <1>2, <1>3

LEMMA CreatesAreFinite ==
  ASSUME NEW lifecycles \in KrxFiles
  PROVE  IsFiniteSet(Creates(lifecycles)) /\ Creates(lifecycles) \subseteq Life
<1>1. PICK S : S = {k \in Unknown(lifecycles) : End(k) # NoDay /\ Dated = {}}
  OBVIOUS
<1>2. S \subseteq lifecycles
  BY <1>1 DEF Unknown
<1>3. IsFiniteSet(lifecycles)
  BY IdentityAssumption
<1>4. IsFiniteSet(S)
  BY <1>2, <1>3, FS_Subset
<1>5. PICK f : f = [l \in S |-> Lifespan(l.from, End(l), "delisted")]
  OBVIOUS
<1>6. Creates(lifecycles) = {Lifespan(l.from, End(l), "delisted") : l \in S}
  BY <1>1 DEF Creates
<1>7. f \in Surjection(S, Creates(lifecycles))
  BY <1>5, <1>6 DEF Surjection
<1>8. IsFiniteSet(Creates(lifecycles))
  BY <1>4, <1>7, FS_Surjection
<1>9. \A l \in S : Lifespan(l.from, End(l), "delisted") \in Life
  BY <1>2, EndIsDay, IdentityAssumption DEF Lifespan, Life
<1>10. QED
  BY <1>6, <1>8, <1>9

LEMMA PlanReconciliationStep ==
  ASSUME IdentityInv, NEW o \in Operators, NEW lifecycles \in KrxFiles,
         PlanReconciliation(o, lifecycles)
  PROVE  IdentityInv'
<1>1. PICK ids, link, nm, km, ts, fl, ev, cr : HoldsFor(ids, link, nm, km, ts, fl, ev, cr)
  BY DEF IdentityInv, HoldsFor
<1>2. PICK creates, updates : creates = Creates(lifecycles) /\ updates = Updates(lifecycles)
  OBVIOUS
<1>3. \A u \in updates : u[1] \in DOMAIN ids /\ u[2] \in Nat
  <2>1. ids \in Seq(Life) /\ identity = ids
    BY <1>1 DEF HoldsFor, IdentityOK
  <2>2. \A l \in Unknown(lifecycles) : l.from \in Nat
    BY IdentityAssumption DEF Unknown
  <2>3. QED
    BY <1>2, <2>1, <2>2 DEF Updates, Identities
<1>4. PICK t : t = [kind |-> "planned", creates |-> creates, updates |-> updates]
  OBVIOUS
<1>5. TaskFits(t, ids)
  BY <1>2, <1>3, <1>4, CreatesAreFinite DEF TaskFits
<1>6. ~Writes(t) /\ t.kind # "apply" /\ t.kind # "map"
  BY <1>4 DEF Writes
<1>7. cr \in BOOLEAN /\ crossed' = cr
  BY <1>1 DEF HoldsFor, IdentityOK, PlanReconciliation
<1>8. /\ task' = [task EXCEPT ![o] = t]
      /\ UNCHANGED <<identity, linked, naverMapped, kiwoomMapped, file, events>>
  BY <1>2, <1>4 DEF PlanReconciliation
<1>9. MayHold(o, t, cr, ids, km, ts, cr)
  BY <1>5, <1>6, <1>7 DEF MayHold
<1>10. QED
  BY <1>1, <1>7, <1>8, <1>9, TaskStep

\* Nobody writes beside the session that begins to, unless that is recorded.
LEMMA Alone ==
  ASSUME NEW ids, NEW link, NEW nm, NEW km, NEW ts, NEW fl, NEW ev, NEW cr,
         HoldsFor(ids, link, nm, km, ts, fl, ev, cr), Writing = {}
  PROVE  \A p \in Operators : ~Writes(ts[p])
BY DEF HoldsFor, Writing, Writes

LEMMA BeginReconciliationStep ==
  ASSUME IdentityInv, NEW o \in Operators, BeginReconciliation(o)
  PROVE  IdentityInv'
<1>1. CASE DatesUnchanged(task[o].updates)
  <2>1. PICK ids, link, nm, km, ts, fl, ev, cr : HoldsFor(ids, link, nm, km, ts, fl, ev, cr)
    BY DEF IdentityInv, HoldsFor
  <2>2. PICK old : old = ts[o]
    OBVIOUS
  <2>3. /\ old.kind = "planned" /\ TaskFits(old, ids) /\ task[o] = old
        /\ DOMAIN ts = Operators /\ task = ts /\ identity = ids
        /\ cr \in BOOLEAN /\ crossed = cr
    BY <2>1, <2>2 DEF HoldsFor, IdentityOK, BeginReconciliation
  <2>4. PICK t : t = [old EXCEPT !.kind = "apply"]
    OBVIOUS
  <2>5. /\ DOMAIN old = {"kind", "creates", "updates"} /\ IsFiniteSet(old.creates)
        /\ old.creates \subseteq Life
        /\ \A u \in old.updates : u[1] \in DOMAIN ids /\ u[2] \in Nat
    BY <2>3 DEF TaskFits, FreeTask
  <2>6. /\ DOMAIN t = {"kind", "creates", "updates"} /\ t.kind = "apply"
        /\ t.creates = old.creates /\ t.updates = old.updates
    BY <2>4, <2>5
  <2>7. TaskFits(t, ids)
    BY <2>5, <2>6 DEF TaskFits
  <2>8. Undated(t, ids)
    BY <1>1, <2>3, <2>6 DEF DatesUnchanged, Undated
  <2>9. PICK now \in BOOLEAN : now = (cr \/ Writing # {})
    OBVIOUS
  <2>10. ~now => ~cr /\ \A p \in Operators : ~Writes(ts[p])
    BY <2>1, <2>9, Alone
  <2>11. task' = [task EXCEPT ![o] = t]
    BY <1>1, <2>3, <2>4 DEF BeginReconciliation
  <2>12. crossed' = now
    BY <1>1, <2>3, <2>9, Zenon DEF BeginReconciliation
  <2>13. UNCHANGED <<identity, linked, naverMapped, kiwoomMapped, file, events>>
    BY DEF BeginReconciliation
  <2>14. MayHold(o, t, now, ids, km, ts, cr)
    BY <2>6, <2>7, <2>8, <2>9, <2>10 DEF MayHold
  <2>15. QED
    BY ONLY <2>1, <2>11, <2>12, <2>13, <2>14, TaskStep
<1>2. CASE ~DatesUnchanged(task[o].updates)
  BY <1>2, TaskEnds DEF BeginReconciliation
<1>3. QED
  BY <1>1, <1>2

-----------------------------------------------------------------------------
LEMMA MaterializeStep ==
  ASSUME IdentityInv, NEW o \in Operators, MaterializeIdentity(o)
  PROVE  IdentityInv'
<1>1. PICK ids, link, nm, km, ts, fl, ev, cr : HoldsFor(ids, link, nm, km, ts, fl, ev, cr)
  BY DEF IdentityInv, HoldsFor
<1>2. PICK t : t = ts[o]
  OBVIOUS
<1>3. /\ IdentityOK(ids, link, nm, km, ts, fl, ev, cr) /\ task = ts /\ identity = ids
      /\ ids \in Seq(Life) /\ Len(ids) <= MaxIdentities /\ TaskFits(t, ids) /\ task[o] = t
  BY <1>1, <1>2 DEF HoldsFor, IdentityOK
<1>4. t.kind = "observe" /\ \A i \in t.found : OpenIn(ids, i)
  BY <1>3 DEF MaterializeIdentity, TaskFits, FreeTask
<1>5. PICK id : id = IF t.found = {} THEN Len(ids) + 1 ELSE CHOOSE i \in t.found : TRUE
  OBVIOUS
<1>6. PICK more : more = IF id > Len(ids) THEN Append(ids, Lifespan(NoDay, NoDay, "listed"))
                         ELSE [ids EXCEPT ![id].status = "listed"]
  OBVIOUS
<1>7. PICK next : next = [ts EXCEPT ![o] = FreeTask]
  OBVIOUS
<1>8. /\ identity' = more /\ task' = next
      /\ kiwoomMapped' = km /\ file' = fl /\ events' = ev /\ crossed' = cr
      /\ \/ linked' = id /\ naverMapped' = nm \cup {id}
         \/ linked' = link /\ naverMapped' = nm
  BY <1>1, <1>3, <1>5, <1>6, <1>7 DEF HoldsFor, MaterializeIdentity
<1>9. /\ more \in Seq(Life) /\ Len(more) <= MaxIdentities /\ Grown(ids, more) /\ OpenIn(more, id)
      /\ \A i \in DOMAIN ids : more[i].from = ids[i].from
  <2>1. CASE t.found = {}
    <3>1. id = Len(ids) + 1 /\ Len(ids) < MaxIdentities /\ Len(ids) \in Nat /\ MaxIdentities \in Nat
      BY <1>3, <1>5, <2>1, IdentityAssumption DEF MaterializeIdentity
    <3>2. PICK born : born = Lifespan(NoDay, NoDay, "listed")
      OBVIOUS
    <3>3. born \in Life /\ born.to = NoDay /\ born.status = "listed"
      BY <3>2 DEF Lifespan, Life, NoDay
    <3>4. more = Append(ids, born)
      BY <1>6, <3>1, <3>2
    <3>5. /\ more \in Seq(Life) /\ Len(more) = Len(ids) + 1 /\ more[id] = born
          /\ \A i \in 1..Len(ids) : more[i] = ids[i]
      BY <1>3, <3>1, <3>3, <3>4, AppendProperties
    <3>6. DOMAIN ids = 1..Len(ids) /\ DOMAIN more = 1..Len(more)
      BY <1>3, <3>5
    <3>7. QED
      BY <3>1, <3>3, <3>5, <3>6 DEF Grown, OpenIn
  <2>2. CASE t.found # {}
    <3>1. id \in t.found
      BY <1>5, <2>2
    <3>2. OpenIn(ids, id)
      BY <1>4, <3>1
    <3>3. DOMAIN ids = 1..Len(ids) /\ Len(ids) \in Nat /\ id \in 1..Len(ids)
      BY <1>3, <3>2 DEF OpenIn
    <3>4. PICK old : old = ids[id]
      OBVIOUS
    <3>5. old \in Life
      BY <1>3, <3>3, <3>4
    <3>6. PICK new : new = [old EXCEPT !.status = "listed"]
      OBVIOUS
    <3>7. /\ new \in Life /\ new.to = old.to /\ new.from = old.from /\ new.status = "listed"
      BY <3>5, <3>6 DEF Life
    <3>8. more = [ids EXCEPT ![id] = new]
      <4>1. ~(id > Len(ids))
        BY <3>3
      <4>2. more = [ids EXCEPT ![id].status = "listed"]
        BY <1>6, <4>1
      <4>3. QED
        BY <4>2, <3>4, <3>6
    <3>9. /\ more \in Seq(Life) /\ Len(more) = Len(ids) /\ DOMAIN more = DOMAIN ids
          /\ more[id] = new /\ \A i \in DOMAIN ids : i # id => more[i] = ids[i]
      BY <1>3, <3>3, <3>7, <3>8, ExceptSeq
    <3>10. QED
      BY <1>3, <3>2, <3>3, <3>4, <3>7, <3>9 DEF Grown, OpenIn
  <2>3. QED
    BY <2>1, <2>2
<1>10. MayGrow(more, o, ids, ts, cr)
  <2>1. ASSUME ~cr, NEW p \in Operators \ {o}, ts[p].kind = "apply" PROVE Undated(ts[p], more)
    <3>1. Undated(ts[p], ids) /\ TaskFits(ts[p], ids)
      BY <1>3, <2>1 DEF IdentityOK, OneWriter
    <3>2. \A u \in ts[p].updates : u[1] \in DOMAIN ids
      BY <2>1, <3>1 DEF TaskFits, FreeTask
    <3>3. QED
      BY <1>9, <3>1, <3>2 DEF Undated
  <2>2. QED
    BY <1>9, <2>1 DEF MayGrow
<1>11. IdentityOK(more, link, nm, km, next, fl, ev, cr)
  BY ONLY <1>3, <1>7, <1>10, ListGrows
<1>12. IdentityOK(more, id, nm \cup {id}, km, next, fl, ev, cr)
  BY <1>9, <1>11 DEF IdentityOK
<1>13. CASE linked' = id /\ naverMapped' = nm \cup {id}
  BY <1>8, <1>12, <1>13, IdentityInvNext
<1>14. CASE linked' = link /\ naverMapped' = nm
  BY <1>8, <1>11, <1>14, IdentityInvNext
<1>15. QED
  BY <1>8, <1>13, <1>14

LEMMA CommitReconciliationStep ==
  ASSUME IdentityInv, NEW o \in Operators, CommitReconciliation(o)
  PROVE  IdentityInv'
<1>1. PICK ids, link, nm, km, ts, fl, ev, cr : HoldsFor(ids, link, nm, km, ts, fl, ev, cr)
  BY DEF IdentityInv, HoldsFor
<1>2. PICK t : t = ts[o]
  OBVIOUS
<1>3. /\ IdentityOK(ids, link, nm, km, ts, fl, ev, cr) /\ task = ts /\ identity = ids
      /\ ids \in Seq(Life) /\ TaskFits(t, ids) /\ task[o] = t
  BY <1>1, <1>2 DEF HoldsFor, IdentityOK
<1>4. PICK creates, updates : creates = t.creates /\ updates = t.updates
  OBVIOUS
<1>5. /\ t.kind = "apply" /\ IsFiniteSet(creates) /\ creates \subseteq Life
      /\ \A u \in updates : u[1] \in DOMAIN ids /\ u[2] \in Nat
  BY <1>3, <1>4 DEF CommitReconciliation, TaskFits, FreeTask
<1>6. PICK n \in Nat : n = Cardinality(creates)
  BY <1>5, FS_CardinalityType
<1>7. PICK upd : upd = [i \in 1..Len(ids) |->
               LET dates == {u[2] : u \in {v \in updates : v[1] = i}}
               IN IF dates = {} THEN ids[i]
                  ELSE [ids[i] EXCEPT !.from = CHOOSE day \in dates : TRUE]]
  OBVIOUS
<1>8. PICK new \in [1..n -> creates] : identity' = upd \o new /\ Len(ids) + n <= MaxIdentities
  <2>1. /\ task[o].creates = creates /\ task[o].updates = updates
        /\ Cardinality(task[o].creates) = n /\ 1..Len(identity) = 1..Len(ids)
    BY <1>3, <1>4, <1>6
  <2>2. Len(ids) + n <= MaxIdentities
    BY <1>3, <2>1 DEF CommitReconciliation
  <2>3. \E new \in [1..Cardinality(task[o].creates) -> task[o].creates] : identity' =
          [i \in 1..Len(identity) |->
             LET dates == {u[2] : u \in {v \in task[o].updates : v[1] = i}}
             IN IF dates = {} THEN identity[i]
                ELSE [identity[i] EXCEPT !.from = CHOOSE day \in dates : TRUE]] \o new
    BY DEF CommitReconciliation, Identities
  <2>4. upd = [i \in 1..Len(identity) |->
             LET dates == {u[2] : u \in {v \in task[o].updates : v[1] = i}}
             IN IF dates = {} THEN identity[i]
                ELSE [identity[i] EXCEPT !.from = CHOOSE day \in dates : TRUE]]
    BY <1>3, <1>7, <2>1
  <2>5. QED
    BY <2>1, <2>2, <2>3, <2>4
<1>9. Len(ids) \in Nat /\ DOMAIN ids = 1..Len(ids)
  BY <1>3
<1>10. \A i \in 1..Len(ids) : /\ upd[i] \in Life
                              /\ upd[i].to = ids[i].to /\ upd[i].status = ids[i].status
                              /\ (\A u \in updates : u[1] # i) => upd[i] = ids[i]
  <2> TAKE i \in 1..Len(ids)
  <2>1. PICK dates : dates = {u[2] : u \in {v \in updates : v[1] = i}}
    OBVIOUS
  <2>2. dates \subseteq Nat /\ ((\A u \in updates : u[1] # i) => dates = {})
    BY <1>5, <2>1
  <2>3. PICK old : old = ids[i]
    OBVIOUS
  <2>4. old \in Life
    BY <1>3, <1>9, <2>3
  <2>5. upd[i] = IF dates = {} THEN old ELSE [old EXCEPT !.from = CHOOSE day \in dates : TRUE]
    BY <1>7, <2>1, <2>3
  <2>6. dates # {} => (CHOOSE day \in dates : TRUE) \in Nat
    BY <2>2
  <2>7. QED
    BY <2>2, <2>3, <2>4, <2>5, <2>6 DEF Life
<1>11. upd \in Seq(Life) /\ Len(upd) = Len(ids)
  <2>1. upd \in [1..Len(ids) -> Life]
    BY <1>7, <1>10
  <2>2. QED
    BY <1>9, <2>1
<1>12. new \in Seq(Life) /\ Len(new) = n
  BY <1>5, <1>8
<1>13. PICK more : more = upd \o new
  OBVIOUS
<1>14. /\ more \in Seq(Life) /\ Len(more) = Len(ids) + n
       /\ \A i \in 1..Len(ids) : more[i] = upd[i]
  <2>1. /\ upd \o new \in Seq(Life) /\ Len(upd \o new) = Len(upd) + Len(new)
        /\ \A i \in 1..Len(upd) + Len(new) :
             (upd \o new)[i] = IF i <= Len(upd) THEN upd[i] ELSE new[i - Len(upd)]
    BY <1>11, <1>12, ConcatProperties
  <2>2. QED
    BY <1>9, <1>11, <1>12, <1>13, <2>1
<1>15. Grown(ids, more) /\ Len(more) <= MaxIdentities
  <2>1. DOMAIN more = 1..Len(more) /\ DOMAIN ids \subseteq DOMAIN more
    BY <1>9, <1>14
  <2>2. QED
    BY <1>8, <1>9, <1>10, <1>14, <2>1 DEF Grown
<1>16. MayGrow(more, o, ids, ts, cr)
  <2>1. ASSUME ~cr
        PROVE  /\ \A i \in DOMAIN ids : ids[i].from # NoDay => more[i].from = ids[i].from
               /\ \A p \in Operators \ {o} : ts[p].kind = "apply" => Undated(ts[p], more)
    <3>1. OneWriter(ids, km, ts, fl, ev)
      BY <1>3, <2>1 DEF IdentityOK
    <3>2. \A u \in updates : ids[u[1]].from = NoDay
      BY <1>2, <1>4, <1>5, <3>1 DEF OneWriter, Undated
    <3>3. \A i \in DOMAIN ids : ids[i].from # NoDay => more[i].from = ids[i].from
      <4> TAKE i \in DOMAIN ids
      <4> HAVE ids[i].from # NoDay
      <4>1. \A u \in updates : u[1] # i
        BY <3>2
      <4>2. upd[i] = ids[i]
        BY <1>9, <1>10, <4>1
      <4>3. QED
        BY <1>9, <1>14, <4>2
    <3>4. \A p \in Operators \ {o} : ts[p].kind # "apply"
      BY <1>2, <1>5, <3>1 DEF OneWriter, Writes
    <3>5. QED
      BY <3>3, <3>4
  <2>2. QED
    BY <1>14, <1>15, <2>1 DEF MayGrow
<1>17. PICK next : next = [ts EXCEPT ![o] = FreeTask]
  OBVIOUS
<1>18. IdentityOK(more, link, nm, km, next, fl, ev, cr)
  BY ONLY <1>3, <1>16, <1>17, ListGrows
<1>19. /\ identity' = more /\ task' = next /\ linked' = link /\ naverMapped' = nm
       /\ kiwoomMapped' = km /\ file' = fl /\ events' = ev /\ crossed' = cr
  BY <1>1, <1>8, <1>13, <1>17 DEF HoldsFor, CommitReconciliation
<1>20. QED
  BY <1>18, <1>19, IdentityInvNext

-----------------------------------------------------------------------------
LEMMA PlanMappingStep ==
  ASSUME IdentityInv, NEW o \in Operators, PlanMapping(o)
  PROVE  IdentityInv'
<1>1. PICK ids, link, nm, km, ts, fl, ev, cr : HoldsFor(ids, link, nm, km, ts, fl, ev, cr)
  BY DEF IdentityInv, HoldsFor
<1>2. PICK found : found = Mappable
  OBVIOUS
<1>3. \A i \in found : i \in nm /\ i = link
  BY <1>1, <1>2 DEF HoldsFor, Mappable
<1>4. (\A i \in found : OpenIn(ids, i)) /\ \A i, j \in found : i = j
  BY <1>1, <1>3 DEF HoldsFor, IdentityOK
<1>5. PICK t : t = [kind |-> "mapping", ids |-> found]
  OBVIOUS
<1>6. /\ t.kind = "mapping" /\ DOMAIN t = {"kind", "ids"} /\ t.ids = found
      /\ task' = [task EXCEPT ![o] = t]
  BY <1>2, <1>5 DEF PlanMapping
<1>7. TaskFits(t, ids) /\ ~Writes(t)
  BY <1>4, <1>6 DEF TaskFits, Writes
<1>8. cr \in BOOLEAN /\ crossed' = cr
  BY <1>1 DEF HoldsFor, IdentityOK, PlanMapping
<1>9. UNCHANGED <<identity, linked, naverMapped, kiwoomMapped, file, events>>
  BY DEF PlanMapping
<1>10. MayHold(o, t, cr, ids, km, ts, cr)
  BY <1>6, <1>7, <1>8 DEF MayHold
<1>11. QED
  BY ONLY <1>1, <1>6, <1>8, <1>9, <1>10, TaskStep

LEMMA BeginMappingStep ==
  ASSUME IdentityInv, NEW o \in Operators, BeginMapping(o)
  PROVE  IdentityInv'
<1>1. CASE kiwoomMapped = {}
  <2>1. PICK ids, link, nm, km, ts, fl, ev, cr : HoldsFor(ids, link, nm, km, ts, fl, ev, cr)
    BY DEF IdentityInv, HoldsFor
  <2>2. PICK old : old = ts[o]
    OBVIOUS
  <2>3. /\ old.kind = "mapping" /\ TaskFits(old, ids) /\ task[o] = old
        /\ DOMAIN ts = Operators /\ task = ts /\ km = {}
        /\ cr \in BOOLEAN /\ crossed = cr
    BY <1>1, <2>1, <2>2 DEF HoldsFor, IdentityOK, BeginMapping
  <2>4. PICK t : t = [old EXCEPT !.kind = "map"]
    OBVIOUS
  <2>5. /\ DOMAIN old = {"kind", "ids"}
        /\ \A i \in old.ids : OpenIn(ids, i)
        /\ \A i, j \in old.ids : i = j
    BY <2>3 DEF TaskFits, FreeTask
  <2>6. DOMAIN t = {"kind", "ids"} /\ t.kind = "map" /\ t.ids = old.ids
    BY <2>4, <2>5
  <2>7. TaskFits(t, ids)
    BY <2>5, <2>6 DEF TaskFits
  <2>8. PICK now \in BOOLEAN : now = (cr \/ Writing # {})
    OBVIOUS
  <2>9. ~now => ~cr /\ \A p \in Operators : ~Writes(ts[p])
    BY <2>1, <2>8, Alone
  <2>10. task' = [task EXCEPT ![o] = t]
    BY <1>1, <2>3, <2>4 DEF BeginMapping
  <2>11. crossed' = now
    BY <1>1, <2>3, <2>8, Zenon DEF BeginMapping
  <2>12. UNCHANGED <<identity, linked, naverMapped, kiwoomMapped, file, events>>
    BY DEF BeginMapping
  <2>13. MayHold(o, t, now, ids, km, ts, cr)
    BY <2>3, <2>6, <2>7, <2>8, <2>9 DEF MayHold
  <2>14. QED
    BY ONLY <2>1, <2>10, <2>11, <2>12, <2>13, TaskStep
<1>2. CASE kiwoomMapped # {}
  BY <1>2, TaskEnds DEF BeginMapping
<1>3. QED
  BY <1>1, <1>2

LEMMA CommitMappingStep ==
  ASSUME IdentityInv, NEW o \in Operators, CommitMapping(o)
  PROVE  IdentityInv'
<1>1. PICK ids, link, nm, km, ts, fl, ev, cr : HoldsFor(ids, link, nm, km, ts, fl, ev, cr)
  BY DEF IdentityInv, HoldsFor
<1>2. PICK t : t = ts[o]
  OBVIOUS
<1>3. /\ IdentityOK(ids, link, nm, km, ts, fl, ev, cr) /\ task = ts
      /\ TaskFits(t, ids) /\ task[o] = t /\ t.kind = "map" /\ cr \in BOOLEAN
  BY <1>1, <1>2 DEF HoldsFor, IdentityOK, CommitMapping
<1>4. (\A i \in t.ids : OpenIn(ids, i)) /\ \A i, j \in t.ids : i = j
  BY <1>3 DEF TaskFits, FreeTask
<1>5. PICK next : next = [ts EXCEPT ![o] = FreeTask]
  OBVIOUS
<1>6. /\ TaskFits(FreeTask, ids) /\ ~Writes(FreeTask)
      /\ FreeTask.kind # "apply" /\ FreeTask.kind # "map"
  BY DEF TaskFits, FreeTask, Writes
<1>7. MayHold(o, FreeTask, cr, ids, km, ts, cr)
  BY <1>3, <1>6 DEF MayHold
<1>8. IdentityOK(ids, link, nm, km, next, fl, ev, cr)
  BY ONLY <1>3, <1>5, <1>7, TaskChanges
<1>9. PICK more : more = km \cup t.ids
  OBVIOUS
<1>10. ASSUME ~cr PROVE OneWriter(ids, more, next, fl, ev)
  <2>1. OneWriter(ids, km, ts, fl, ev) /\ OneWriter(ids, km, next, fl, ev)
    BY <1>3, <1>8, <1>10 DEF IdentityOK
  <2>2. km = {}
    BY <1>2, <1>3, <2>1 DEF OneWriter
  <2>3. \A p \in Operators : next[p].kind # "map"
    <3>1. \A p \in Operators \ {o} : ts[p].kind # "map"
      BY <1>2, <1>3, <2>1 DEF OneWriter, Writes
    <3>2. DOMAIN ts = Operators
      BY <1>3 DEF IdentityOK
    <3>3. QED
      BY <1>5, <1>6, <3>1, <3>2
  <2>4. QED
    BY <1>4, <1>9, <2>1, <2>2, <2>3 DEF OneWriter
<1>11. IdentityOK(ids, link, nm, more, next, fl, ev, cr)
  BY <1>4, <1>8, <1>9, <1>10 DEF IdentityOK
<1>12. /\ identity' = ids /\ task' = next /\ linked' = link /\ naverMapped' = nm
       /\ kiwoomMapped' = more /\ file' = fl /\ events' = ev /\ crossed' = cr
  BY <1>1, <1>3, <1>5, <1>9 DEF HoldsFor, CommitMapping
<1>13. QED
  BY <1>11, <1>12, IdentityInvNext

-----------------------------------------------------------------------------
LEMMA PrepareEventsStep ==
  ASSUME IdentityInv, NEW lifecycles \in KrxFiles, PrepareEvents(lifecycles)
  PROVE  IdentityInv'
<1>1. PICK ids, link, nm, km, ts, fl, ev, cr : HoldsFor(ids, link, nm, km, ts, fl, ev, cr)
  BY DEF IdentityInv, HoldsFor
<1>2. PICK prepared : prepared = Prepared(lifecycles)
  OBVIOUS
<1>3. IdentityOK(ids, link, nm, km, ts, fl, ev, cr) /\ identity = ids /\ DOMAIN ids = 1..Len(ids)
  BY <1>1 DEF HoldsFor, IdentityOK
<1>4. \A c \in Claims(lifecycles) :
        /\ c.type \in {"listed", "delisted"} /\ c.day \in Nat \ {NoDay}
        /\ \A i \in Resolve(c) :
             /\ i \in DOMAIN ids
             /\ c.day = IF c.type = "delisted" THEN ids[i].to ELSE ids[i].from
  BY <1>3, IdentityAssumption DEF Claims, Resolve, Identities
<1>5. \A e \in prepared : EventIn(e, ids) /\ DatedBy(e, ids)
  <2> TAKE e \in prepared
  <2>1. PICK c \in Claims(lifecycles) :
          \E i \in Resolve(c) : e = [id |-> i, type |-> c.type, day |-> c.day]
    BY <1>2 DEF Prepared
  <2>2. PICK i \in Resolve(c) : e = [id |-> i, type |-> c.type, day |-> c.day]
    BY <2>1
  <2>3. QED
    BY <1>4, <2>1, <2>2 DEF EventIn, DatedBy
<1>6. IdentityOK(ids, link, nm, km, ts, prepared, ev, cr)
  BY <1>3, <1>5 DEF IdentityOK, OneWriter
<1>7. /\ identity' = ids /\ task' = ts /\ linked' = link /\ naverMapped' = nm
      /\ kiwoomMapped' = km /\ file' = prepared /\ events' = ev /\ crossed' = cr
  BY <1>1, <1>2 DEF HoldsFor, PrepareEvents
<1>8. QED
  BY <1>6, <1>7, IdentityInvNext

LEMMA ImportEventsStep ==
  ASSUME IdentityInv, ImportEvents
  PROVE  IdentityInv'
<1>1. PICK ids, link, nm, km, ts, fl, ev, cr : HoldsFor(ids, link, nm, km, ts, fl, ev, cr)
  BY DEF IdentityInv, HoldsFor
<1>2. PICK all : all = ev \cup fl
  OBVIOUS
<1>3. IdentityOK(ids, link, nm, km, ts, fl, all, cr)
  <2>1. IdentityOK(ids, link, nm, km, ts, fl, ev, cr) /\ fl \cup all = fl \cup ev
    BY <1>1, <1>2 DEF HoldsFor
  <2>2. QED
    BY <2>1 DEF IdentityOK, OneWriter
<1>4. /\ identity' = ids /\ task' = ts /\ linked' = link /\ naverMapped' = nm
      /\ kiwoomMapped' = km /\ file' = fl /\ events' = all /\ crossed' = cr
  BY <1>1, <1>2 DEF HoldsFor, ImportEvents
<1>5. QED
  BY <1>3, <1>4, IdentityInvNext

-----------------------------------------------------------------------------
LEMMA IdentityInitHolds ==
  ASSUME IdentityInit
  PROVE  IdentityInv
<1>1. PICK ts : ts = [o \in Operators |-> FreeTask]
  OBVIOUS
<1>2. /\ TaskFits(FreeTask, <<>>) /\ ~Writes(FreeTask)
      /\ FreeTask.kind # "apply" /\ FreeTask.kind # "map"
  BY DEF TaskFits, FreeTask, Writes
<1>3. <<>> \in Seq(Life) /\ Len(<<>>) <= MaxIdentities
  BY IdentityAssumption
<1>4. OneWriter(<<>>, {}, ts, {}, {})
  BY <1>1, <1>2 DEF OneWriter
<1>5. IdentityOK(<<>>, 0, {}, {}, ts, {}, {}, FALSE)
  BY <1>1, <1>2, <1>3, <1>4 DEF IdentityOK
<1>6. QED
  BY <1>1, <1>5 DEF IdentityInit, IdentityInv

LEMMA IdentityStepHolds ==
  ASSUME IdentityInv, [IdentityNext]_identityVars
  PROVE  IdentityInv'
<1>1. ASSUME NEW o \in Operators, ObserveKrx(o) PROVE IdentityInv'
  BY <1>1, ObserveStep
<1>2. ASSUME NEW o \in Operators, MaterializeIdentity(o) PROVE IdentityInv'
  BY <1>2, MaterializeStep
<1>3. ASSUME NEW o \in Operators, NEW lifecycles \in KrxFiles, PlanReconciliation(o, lifecycles)
      PROVE  IdentityInv'
  BY <1>3, PlanReconciliationStep
<1>4. ASSUME NEW o \in Operators, BeginReconciliation(o) PROVE IdentityInv'
  BY <1>4, BeginReconciliationStep
<1>5. ASSUME NEW o \in Operators, CommitReconciliation(o) PROVE IdentityInv'
  BY <1>5, CommitReconciliationStep
<1>6. ASSUME NEW o \in Operators, PlanMapping(o) PROVE IdentityInv'
  BY <1>6, PlanMappingStep
<1>7. ASSUME NEW o \in Operators, BeginMapping(o) PROVE IdentityInv'
  BY <1>7, BeginMappingStep
<1>8. ASSUME NEW o \in Operators, CommitMapping(o) PROVE IdentityInv'
  BY <1>8, CommitMappingStep
<1>9. ASSUME NEW o \in Operators, AbandonTask(o) PROVE IdentityInv'
  BY <1>9, TaskEnds DEF AbandonTask
<1>10. ASSUME NEW lifecycles \in KrxFiles, PrepareEvents(lifecycles) PROVE IdentityInv'
  BY <1>10, PrepareEventsStep
<1>11. CASE ImportEvents
  BY <1>11, ImportEventsStep
<1>12. CASE UNCHANGED identityVars
  BY <1>12 DEF identityVars, IdentityInv
<1>13. QED
  BY <1>1, <1>2, <1>3, <1>4, <1>5, <1>6, <1>7, <1>8, <1>9, <1>10, <1>11, <1>12 DEF IdentityNext

LEMMA IdentityInvImplies ==
  ASSUME IdentityInv
  PROVE  IdentityTypeOK /\ IdentitiesStaySeparate
<1>1. PICK ids, link, nm, km, ts, fl, ev, cr : HoldsFor(ids, link, nm, km, ts, fl, ev, cr)
  BY DEF IdentityInv, HoldsFor
<1>2. /\ identity = ids /\ linked = link /\ naverMapped = nm /\ kiwoomMapped = km
      /\ task = ts /\ file = fl /\ events = ev /\ crossed = cr
      /\ IdentityOK(ids, link, nm, km, ts, fl, ev, cr)
      /\ ids \in Seq(Life) /\ DOMAIN ids = 1..Len(ids)
  BY <1>1 DEF HoldsFor, IdentityOK
<1>3. IdentityTypeOK
  <2>1. \A i \in DOMAIN ids : ids[i].status \in {"listed", "delisted"}
    <3>1. \A i \in DOMAIN ids : ids[i] \in Life
      BY <1>2
    <3>2. \A l \in Life : l.status \in {"listed", "delisted"}
      BY DEF Life
    <3>3. QED
      BY <3>1, <3>2
  <2>2. \A o \in Operators :
          ts[o].kind \in {"free", "observe", "planned", "apply", "mapping", "map"}
    BY <1>2 DEF IdentityOK, TaskFits, FreeTask
  <2>3. link \in DOMAIN ids \cup {0} /\ nm \cup km \subseteq DOMAIN ids
    BY <1>2 DEF IdentityOK, OpenIn
  <2>4. fl \cup ev \subseteq [id : DOMAIN ids, type : {"listed", "delisted"}, day : Nat]
    BY <1>2 DEF IdentityOK, EventIn
  <2>5. Len(ids) <= MaxIdentities /\ cr \in BOOLEAN
    BY <1>2 DEF IdentityOK
  <2>6. QED
    BY <1>2, <2>1, <2>2, <2>3, <2>4, <2>5 DEF IdentityTypeOK, Identities
<1>4. ASSUME ~crossed
      PROVE  /\ \A e \in events :
                  e.day = IF e.type = "delisted" THEN identity[e.id].to ELSE identity[e.id].from
             /\ \A i \in naverMapped \cup kiwoomMapped \cup ({linked} \ {0}) : StillOpen(i)
             /\ Cardinality(kiwoomMapped) <= 1
  <2>1. OneWriter(ids, km, ts, fl, ev)
    BY <1>2, <1>4 DEF IdentityOK
  <2>2. \A e \in events :
          e.day = IF e.type = "delisted" THEN identity[e.id].to ELSE identity[e.id].from
    BY <1>2, <2>1 DEF OneWriter, DatedBy
  <2>3. \A i \in naverMapped \cup kiwoomMapped \cup ({linked} \ {0}) : StillOpen(i)
    BY <1>2 DEF IdentityOK, OpenIn, StillOpen
  <2>4. Cardinality(km) <= 1
    <3>1. CASE km = {}
      BY <3>1, FS_EmptySet
    <3>2. CASE km # {}
      <4>1. PICK i : i \in km
        BY <3>2
      <4>2. km = {i}
        BY <2>1, <4>1 DEF OneWriter
      <4>3. QED
        BY <4>2, FS_Singleton
    <3>3. QED
      BY <3>1, <3>2
  <2>5. QED
    BY <1>2, <2>2, <2>3, <2>4
<1>5. QED
  BY <1>3, <1>4 DEF IdentitiesStaySeparate

\* krx_listing_csv.py:81 "safe for code reuse": of any number of identities and
\* sessions, and however old their plans and files are, an event stays with an
\* identity that has its date, and providers are asked only for open ones,
\* Kiwoom for one at most, while no two checking transactions were open together.
THEOREM IdentitiesTheorem == IdentitySpec => [](IdentityTypeOK /\ IdentitiesStaySeparate)
<1>1. IdentityInit => IdentityInv
  BY IdentityInitHolds
<1>2. IdentityInv /\ [IdentityNext]_identityVars => IdentityInv'
  BY IdentityStepHolds
<1>3. IdentityInv => IdentityTypeOK /\ IdentitiesStaySeparate
  BY IdentityInvImplies
<1>4. QED
  BY <1>1, <1>2, <1>3, PTL DEF IdentitySpec

=============================================================================
