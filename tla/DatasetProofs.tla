----------------------------- MODULE DatasetProofs -----------------------------
(***************************************************************************)
(* What a backtest can rely on, for every number of instruments, days and  *)
(* rows: a published clean dataset is what judging one state of the        *)
(* evidence gives (CleanDataset, from CleanInv), the pages a client joins  *)
(* are complete (BacktestPages, from PagesInv), and the ranks the RS step  *)
(* stores are earned by the prices it read (RsInput, from RsInv).          *)
(***************************************************************************)
EXTENDS CleanDataset, BacktestPages, RsInput, FiniteSetTheorems,
        SequenceTheorems, WellFoundedInduction, TLAPS

-----------------------------------------------------------------------------
(* Judging the days one after the other.                                   *)

\* f has the decisions up to each of the days 0..n.
IsUpTo(f, n, state, judge) ==
  f = [d \in 0..n |->
         IF d = 0 THEN <<>>
         ELSE JudgeDay(state.evidence, Universe(state.ledger), f[d - 1], d, judge)]

UpTo(state, judge) == CHOOSE f : IsUpTo(f, LastDay, state, judge)

\* All days are judged when the last one is.
LEMMA JudgedIsUpTo ==
  ASSUME NEW state, NEW judge
  PROVE  Judged(state, judge) = UpTo(state, judge)[LastDay]
BY DEF Judged, UpTo, IsUpTo

\* A set of numbers that is not empty has a least one.
LEMMA LeastNumber ==
  ASSUME NEW S \in SUBSET Nat, S # {}
  PROVE  \E m \in S : \A n \in S : m <= n
<1>1. IsWellFoundedOn(OpToRel(<, Nat), Nat)
  BY NatLessThanWellFounded
<1>2. PICK m \in S : \A n \in S : ~ (<<n, m>> \in OpToRel(<, Nat))
  BY <1>1, WFMin
<1>3. \A n \in S : ~ (n < m)
  BY <1>2 DEF OpToRel
<1>4. QED
  BY <1>3

\* The decisions of n days extend to the next.
LEMMA NextDayIsUpTo ==
  ASSUME NEW state, NEW judge, NEW n \in Nat, NEW f, IsUpTo(f, n, state, judge)
  PROVE  \E g : IsUpTo(g, n + 1, state, judge)
<1> DEFINE Next(before, d) == JudgeDay(state.evidence, Universe(state.ledger), before, d, judge)
<1>1. PICK g : g = [d \in 0..(n + 1) |-> IF d = n + 1 THEN Next(f[n], n + 1) ELSE f[d]]
  OBVIOUS
<1>2. f = [d \in 0..n |-> IF d = 0 THEN <<>> ELSE Next(f[d - 1], d)]
  BY DEF IsUpTo
<1> HIDE DEF Next
<1>3. ASSUME NEW d \in 0..(n + 1)
      PROVE  g[d] = IF d = 0 THEN <<>> ELSE Next(g[d - 1], d)
  <2>1. CASE d = n + 1
    <3>1. d - 1 = n /\ d # 0 /\ n \in 0..(n + 1) /\ n # n + 1
      BY <2>1
    <3>2. g[n] = f[n] /\ g[d] = Next(f[n], d)
      BY <1>1, <2>1, <3>1
    <3> QED
      BY <3>1, <3>2
  <2>2. CASE d # n + 1 /\ d # 0
    <3>1. d \in 0..n /\ d - 1 \in 0..(n + 1) /\ d - 1 # n + 1
      BY <2>2
    <3>2. g[d] = f[d] /\ g[d - 1] = f[d - 1]
      BY <1>1, <2>2, <3>1
    <3>3. f[d] = Next(f[d - 1], d)
      BY <1>2, <2>2, <3>1
    <3> QED
      BY <2>2, <3>2, <3>3
  <2>3. CASE d = 0
    <3>1. d \in 0..n /\ d # n + 1
      BY <2>3
    <3>2. g[d] = f[d]
      BY <1>1, <3>1
    <3>3. f[d] = <<>>
      BY <1>2, <2>3, <3>1
    <3> QED
      BY <2>3, <3>2, <3>3
  <2> QED
    BY <2>1, <2>2, <2>3
<1>4. g = [d \in 0..(n + 1) |-> g[d]]
  BY <1>1
<1>5. g = [d \in 0..(n + 1) |-> IF d = 0 THEN <<>> ELSE Next(g[d - 1], d)]
  BY <1>3, <1>4
<1>6. IsUpTo(g, n + 1, state, judge)
  BY <1>5 DEF IsUpTo, Next
<1> QED
  BY <1>6

\* The recursion has a solution, for any number of days.
LEMMA UpToExists ==
  ASSUME NEW state, NEW judge, NEW n \in Nat
  PROVE  \E f : IsUpTo(f, n, state, judge)
<1> DEFINE Bad == {d \in Nat : ~ \E f : IsUpTo(f, d, state, judge)}
<1>1. SUFFICES ASSUME Bad # {} PROVE FALSE
  OBVIOUS
<1>2. PICK m \in Bad : \A d \in Bad : m <= d
  <2>1. Bad \in SUBSET Nat
    OBVIOUS
  <2> HIDE DEF Bad
  <2> QED
    BY <1>1, <2>1, LeastNumber
<1>3. CASE m = 0
  <2>1. PICK f : f = [d \in 0..0 |-> <<>>]
    OBVIOUS
  <2>2. f = [d \in 0..0 |-> IF d = 0 THEN <<>>
               ELSE JudgeDay(state.evidence, Universe(state.ledger), f[d - 1], d, judge)]
    BY <2>1
  <2>3. IsUpTo(f, 0, state, judge)
    BY <2>2 DEF IsUpTo
  <2> QED
    BY <1>3, <2>3
<1>4. CASE m # 0
  <2>1. PICK p \in Nat : m = p + 1
    <3>1. m - 1 \in Nat /\ m = (m - 1) + 1
      BY <1>4
    <3> QED
      BY <3>1
  <2>2. p \notin Bad
    <3> HIDE DEF Bad
    <3> QED
      BY <1>2, <2>1
  <2>3. PICK f : IsUpTo(f, p, state, judge)
    BY <2>2
  <2>4. \E g : IsUpTo(g, m, state, judge)
    BY <2>1, <2>3, NextDayIsUpTo
  <2> QED
    BY <2>4
<1> QED
  BY <1>3, <1>4

\* What the recursion says of the decisions it chooses.
LEMMA UpToDays ==
  ASSUME NEW state, NEW judge
  PROVE  /\ UpTo(state, judge)[0] = <<>>
         /\ \A d \in 1..LastDay : UpTo(state, judge)[d] =
              JudgeDay(state.evidence, Universe(state.ledger), UpTo(state, judge)[d - 1], d, judge)
<1>1. LastDay \in Nat
  BY CleanAssumption
<1>2. \E f : IsUpTo(f, LastDay, state, judge)
  BY <1>1, UpToExists
<1>3. IsUpTo(UpTo(state, judge), LastDay, state, judge)
  BY <1>2 DEF UpTo
<1>4. PICK f : f = UpTo(state, judge)
  OBVIOUS
<1>5. f = [d \in 0..LastDay |->
             IF d = 0 THEN <<>>
             ELSE JudgeDay(state.evidence, Universe(state.ledger), f[d - 1], d, judge)]
  BY <1>3, <1>4 DEF IsUpTo
<1>6. f[0] = <<>>
  BY <1>1, <1>5
<1>7. ASSUME NEW d \in 1..LastDay
      PROVE  f[d] = JudgeDay(state.evidence, Universe(state.ledger), f[d - 1], d, judge)
  <2>1. d \in 0..LastDay /\ d # 0
    BY <1>1
  <2> QED
    BY <1>5, <2>1
<1> QED
  BY <1>4, <1>6, <1>7

-----------------------------------------------------------------------------
(* Publishing.                                                             *)

\* What is stored of each expected price.
EvidenceOK(held) ==
  /\ DOMAIN held = PriceKeys
  /\ \A k \in PriceKeys :
       /\ DOMAIN held[k] = EvidenceFields
       /\ held[k].stored \in {"none", "sound", "broken"}

\* A publication that reads has a snapshot that was committed, the universe of
\* that snapshot, and the decisions of its days so far.
ReadingOK(b, states) ==
  /\ DOMAIN b = {"pc", "via", "day", "judged", "snap", "universe", "datasets"}
  /\ b.day \in 0..LastDay
  /\ Whole(b.snap) \in states
  /\ b.universe = Universe(b.snap.ledger)
  /\ b.judged = UpTo(b.snap, "publication")[b.day]

EndedOK(b) == b.day = LastDay

BuilderOK(b, states) ==
  \/ b = NotBuilding
  \/ b.pc = "reading" /\ ReadingOK(b, states)
  \/ b.pc = "ended" /\ EndedOK(b)

\* What judging the state of these two tables gives is on record.
NowIsWhole(held, listing, states) ==
  Whole([evidence |-> held, ledger |-> listing]) \in states

CleanInv ==
  /\ \E held : held = evidence /\ EvidenceOK(held)
  /\ \E held, listing, states :
       /\ held = evidence /\ listing = ledger /\ states = whole
       /\ NowIsWhole(held, listing, states)
  /\ \E b, states : b = builder /\ states = whole /\ BuilderOK(b, states)
  /\ changes \in 0..MaxEvidence
  /\ published \subseteq whole

\* CleanInv has the types and the snapshot in it.
LEMMA CleanInvHolds == CleanInv => CleanTypeOK /\ DatasetIsOneSnapshot
<1> SUFFICES ASSUME CleanInv PROVE CleanTypeOK /\ DatasetIsOneSnapshot
  OBVIOUS
<1>1. \A k \in PriceKeys : evidence[k].stored \in {"none", "sound", "broken"}
  BY DEF CleanInv, EvidenceOK
<1>2. BuilderOK(builder, whole)
  BY DEF CleanInv
<1>3. /\ builder.pc \in {"none", "reading", "ended"}
      /\ builder.pc # "none" => builder.day \in 0..LastDay
  BY <1>2, CleanAssumption DEF BuilderOK, ReadingOK, EndedOK, NotBuilding
<1> QED
  BY <1>1, <1>3 DEF CleanInv, CleanTypeOK, DatasetIsOneSnapshot

\* CleanInv of the next state, from its parts.
LEMMA CleanInvNext ==
  ASSUME NEW held, NEW listing, NEW b, NEW states,
         held = evidence', listing = ledger', b = builder', states = whole',
         EvidenceOK(held), NowIsWhole(held, listing, states), BuilderOK(b, states),
         changes' \in 0..MaxEvidence, published' \subseteq whole'
  PROVE  CleanInv'
BY DEF CleanInv

\* What a builder has read stays on record as more states are committed.
LEMMA BuilderStays ==
  ASSUME NEW b, NEW states, NEW more, BuilderOK(b, states), states \subseteq more
  PROVE  BuilderOK(b, more)
BY DEF BuilderOK, ReadingOK

\* The first state is on record.
LEMMA CleanInvInit == CleanInit => CleanInv
<1> SUFFICES ASSUME CleanInit PROVE CleanInv
  OBVIOUS
<1> USE CleanAssumption
<1>1. EvidenceOK(evidence)
  <2>1. evidence = FirstEvidence
    BY DEF CleanInit
  <2> QED
    BY <2>1 DEF EvidenceOK
<1>2. NowIsWhole(evidence, ledger, whole)
  BY DEF NowIsWhole, CleanInit
<1>3. BuilderOK(builder, whole)
  BY DEF BuilderOK, CleanInit
<1>4. changes \in 0..MaxEvidence /\ published \subseteq whole
  BY DEF CleanInit
<1> QED
  BY <1>1, <1>2, <1>3, <1>4 DEF CleanInv

\* A commit puts what judging the new state gives on record.
LEMMA CommitKeeps ==
  ASSUME CleanInv, NEW held, NEW listing, EvidenceOK(held), Committed(held, listing)
  PROVE  CleanInv'
<1> USE CleanAssumption
<1>1. /\ changes < MaxEvidence /\ changes' = changes + 1
      /\ evidence' = held /\ ledger' = listing
      /\ whole' = whole \cup {Whole([evidence |-> held, ledger |-> listing])}
      /\ builder' = builder /\ published' = published
  BY DEF Committed
<1>2. PICK b, states : b = builder /\ states = whole'
  OBVIOUS
<1>3. NowIsWhole(held, listing, states)
  BY <1>1, <1>2 DEF NowIsWhole
<1>4. BuilderOK(b, states)
  <2>1. BuilderOK(builder, whole)
    BY DEF CleanInv
  <2>2. PICK was : was = whole
    OBVIOUS
  <2>3. was \subseteq states
    BY <1>1, <1>2, <2>2
  <2> QED
    BY <1>2, <2>1, <2>2, <2>3, BuilderStays
<1>5. changes' \in 0..MaxEvidence /\ published' \subseteq whole'
  BY <1>1 DEF CleanInv
<1> QED
  BY <1>1, <1>2, <1>3, <1>4, <1>5, CleanInvNext

\* A new value of one field of the evidence leaves it evidence.
LEMMA FieldIsEvidence ==
  ASSUME NEW old, EvidenceOK(old), NEW k, NEW f \in EvidenceFields, NEW v, NEW held,
         f = "stored" => v \in {"none", "sound", "broken"},
         held = [old EXCEPT ![k] = [old[k] EXCEPT ![f] = v]]
  PROVE  EvidenceOK(held)
<1>1. DOMAIN held = PriceKeys
  BY DEF EvidenceOK
<1>2. ASSUME NEW j \in PriceKeys
      PROVE  DOMAIN held[j] = EvidenceFields /\ held[j].stored \in {"none", "sound", "broken"}
  <2>1. PICK row : row = old[j]
    OBVIOUS
  <2>2. DOMAIN row = EvidenceFields /\ row.stored \in {"none", "sound", "broken"}
    BY <2>1 DEF EvidenceOK
  <2>3. CASE j # k
    <3>1. held[j] = row
      BY <2>1, <2>3 DEF EvidenceOK
    <3> QED
      BY <2>2, <3>1
  <2>4. CASE j = k
    <3>1. PICK new : new = [row EXCEPT ![f] = v]
      OBVIOUS
    <3>2. held[j] = new
      BY <2>1, <2>4, <3>1 DEF EvidenceOK
    <3>3. DOMAIN new = EvidenceFields
      BY <2>2, <3>1
    <3>4. "stored" \in EvidenceFields
      BY DEF EvidenceFields
    <3>5. new.stored \in {"none", "sound", "broken"}
      BY <2>2, <3>1, <3>4
    <3> QED
      BY <3>2, <3>3, <3>5
  <2> QED
    BY <2>3, <2>4
<1> QED
  BY <1>1, <1>2 DEF EvidenceOK

\* Observations, operators' decisions, corporate actions and listing events.
LEMMA EvidenceStepKeeps ==
  ASSUME CleanInv,
         \/ \E k \in PriceKeys :
              \/ \E how \in {"sound", "broken"} : StoreCanonical(k, how)
              \/ ApproveExclusion(k) \/ RecordCorporateAction(k)
         \/ \E o \in Observations : CommitObservation(o[1], o[2], o[3])
         \/ \E c \in Corrections : ApproveCorrection(c[1], c[2])
         \/ \E import \in ListingImports : ImportListing(import[1], import[2])
  PROVE  CleanInv'
<1>1. PICK old, listing : old = evidence /\ listing = ledger
  OBVIOUS
<1>2. EvidenceOK(old)
  BY <1>1 DEF CleanInv
<1>3. ASSUME NEW k, NEW f \in EvidenceFields, NEW v,
             f = "stored" => v \in {"none", "sound", "broken"},
             Committed([old EXCEPT ![k] = [old[k] EXCEPT ![f] = v]], listing)
      PROVE  CleanInv'
  <2>1. PICK held : held = [old EXCEPT ![k] = [old[k] EXCEPT ![f] = v]]
    OBVIOUS
  <2>2. EvidenceOK(held)
    BY <1>2, <1>3, <2>1, FieldIsEvidence
  <2>3. Committed(held, listing)
    BY <1>3, <2>1
  <2> QED
    BY <2>2, <2>3, CommitKeeps
<1>4. /\ "stored" \in EvidenceFields /\ "excluded" \in EvidenceFields /\ "action" \in EvidenceFields
      /\ "observed" \in EvidenceFields /\ "fixed" \in EvidenceFields
  BY DEF EvidenceFields
<1>5. ASSUME NEW k, NEW how \in {"sound", "broken"}, StoreCanonical(k, how) PROVE CleanInv'
  <2>1. Committed([old EXCEPT ![k] = [old[k] EXCEPT !["stored"] = how]], listing)
    BY <1>1, <1>5 DEF StoreCanonical
  <2> QED
    BY <1>3, <1>4, <2>1
<1>6. ASSUME NEW k, ApproveExclusion(k) PROVE CleanInv'
  <2>1. Committed([old EXCEPT ![k] = [old[k] EXCEPT !["excluded"] = TRUE]], listing)
    BY <1>1, <1>6 DEF ApproveExclusion
  <2> QED
    BY <1>3, <1>4, <2>1
<1>7. ASSUME NEW k, RecordCorporateAction(k) PROVE CleanInv'
  <2>1. Committed([old EXCEPT ![k] = [old[k] EXCEPT !["action"] = TRUE]], listing)
    BY <1>1, <1>7 DEF RecordCorporateAction
  <2> QED
    BY <1>3, <1>4, <2>1
<1>8. ASSUME NEW k, NEW owner, NEW v, CommitObservation(k, owner, v) PROVE CleanInv'
  <2>1. PICK values : values = old[k].observed \cup {<<owner, v>>}
    OBVIOUS
  <2>2. Committed([old EXCEPT ![k] = [old[k] EXCEPT !["observed"] = values]], listing)
    BY <1>1, <1>8, <2>1 DEF CommitObservation
  <2> QED
    BY <1>3, <1>4, <2>2
<1>9. ASSUME NEW k, NEW v, ApproveCorrection(k, v) PROVE CleanInv'
  <2>1. PICK fixed : fixed = Append(<<>>, v)
    OBVIOUS
  <2>2. Committed([old EXCEPT ![k] = [old[k] EXCEPT !["fixed"] = fixed]], listing)
    BY <1>1, <1>9, <2>1 DEF ApproveCorrection
  <2> QED
    BY <1>3, <1>4, <2>2
<1>10. ASSUME NEW i, NEW e, ImportListing(i, e) PROVE CleanInv'
  <2>1. PICK new : new = [listing EXCEPT ![i] = Ingested(listing[i], e)]
    OBVIOUS
  <2>2. Committed(old, new)
    BY <1>1, <1>10, <2>1 DEF ImportListing
  <2> QED
    BY <1>2, <2>2, CommitKeeps
<1> QED
  BY <1>5, <1>6, <1>7, <1>8, <1>9, <1>10

\* The audit writes its counts only.
LEMMA AuditRunKeeps ==
  ASSUME CleanInv, RunAudit
  PROVE  CleanInv'
<1>1. /\ evidence' = evidence /\ ledger' = ledger /\ builder' = builder
      /\ published' = published /\ changes' = changes /\ whole' = whole
  BY DEF RunAudit
<1> QED
  BY <1>1 DEF CleanInv

\* Where a step changes the builder and what is published.
LEMMA BuilderStepKeeps ==
  ASSUME CleanInv, NEW b, b = builder',
         evidence' = evidence, ledger' = ledger, changes' = changes, whole' = whole,
         BuilderOK(b, whole), published' \subseteq whole
  PROVE  CleanInv'
<1>1. PICK held, listing, states : held = evidence /\ listing = ledger /\ states = whole
  OBVIOUS
<1>2. EvidenceOK(held) /\ NowIsWhole(held, listing, states) /\ BuilderOK(b, states)
  BY <1>1 DEF CleanInv
<1>3. held = evidence' /\ listing = ledger' /\ states = whole'
  BY <1>1
<1>4. changes' \in 0..MaxEvidence /\ published' \subseteq whole'
  BY DEF CleanInv
<1> QED
  BY <1>2, <1>3, <1>4, CleanInvNext

\* The transaction opens: its snapshot is the state that is committed.
LEMMA BeginBuildKeeps ==
  ASSUME CleanInv, NEW via \in Via, BeginBuild(via)
  PROVE  CleanInv'
<1> USE CleanAssumption
<1>1. PICK snap : snap = StateNow
  OBVIOUS
<1>2. PICK universe : universe = Universe(ledger)
  OBVIOUS
<1>3. PICK b : b = [pc |-> "reading", via |-> via, day |-> 0, judged |-> <<>>,
                    snap |-> snap, universe |-> universe, datasets |-> published]
  OBVIOUS
<1>4. b = builder' /\ evidence' = evidence /\ ledger' = ledger /\ changes' = changes
      /\ whole' = whole /\ published' = published
  BY <1>1, <1>2, <1>3 DEF BeginBuild
<1>5. Whole(snap) \in whole
  BY <1>1 DEF CleanInv, NowIsWhole, StateNow
<1>6. universe = Universe(snap.ledger)
  BY <1>1, <1>2 DEF StateNow
<1>7. UpTo(snap, "publication")[0] = <<>>
  BY UpToDays
<1>8. ReadingOK(b, whole)
  BY <1>3, <1>5, <1>6, <1>7 DEF ReadingOK
<1>9. BuilderOK(b, whole)
  BY <1>3, <1>8 DEF BuilderOK
<1>10. published' \subseteq whole
  BY <1>4 DEF CleanInv
<1> QED
  BY <1>4, <1>9, <1>10, BuilderStepKeeps

\* A builder that reads has what ReadingOK says.
LEMMA ReadingBuilder ==
  ASSUME CleanInv, builder.pc = "reading"
  PROVE  ReadingOK(builder, whole)
<1>1. BuilderOK(builder, whole)
  BY DEF CleanInv
<1> QED
  BY <1>1 DEF BuilderOK, NotBuilding

\* One day more, judged from the snapshot.
LEMMA ReadDayKeeps ==
  ASSUME CleanInv, ReadDay
  PROVE  CleanInv'
<1> USE CleanAssumption
<1>1. PICK old : old = builder
  OBVIOUS
<1>2. /\ old.pc = "reading" /\ old.day < LastDay
      /\ evidence' = evidence /\ ledger' = ledger /\ changes' = changes /\ whole' = whole
      /\ published' = published
  BY <1>1 DEF ReadDay
<1>3. ReadingOK(old, whole)
  BY <1>1, <1>2, ReadingBuilder
<1>4. PICK judged : judged = JudgeDay(old.snap.evidence, old.universe, old.judged, old.day + 1, "publication")
  OBVIOUS
<1>5. PICK b : b = [old EXCEPT !.day = old.day + 1, !.judged = judged]
  OBVIOUS
<1>6. b = builder'
  BY <1>1, <1>4, <1>5 DEF ReadDay, View
<1>7. /\ DOMAIN b = {"pc", "via", "day", "judged", "snap", "universe", "datasets"}
      /\ b.pc = old.pc /\ b.snap = old.snap /\ b.universe = old.universe
      /\ b.day = old.day + 1 /\ b.judged = judged
  BY <1>3, <1>5 DEF ReadingOK
<1>8. old.day + 1 \in 1..LastDay /\ (old.day + 1) - 1 = old.day /\ b.day \in 0..LastDay
  BY <1>2, <1>3, <1>7 DEF ReadingOK
<1>9. PICK d \in 1..LastDay : d = old.day + 1 /\ d - 1 = old.day
  BY <1>8
<1>10. UpTo(old.snap, "publication")[d] =
         JudgeDay(old.snap.evidence, Universe(old.snap.ledger),
                  UpTo(old.snap, "publication")[d - 1], d, "publication")
  BY UpToDays
<1>11. judged = UpTo(old.snap, "publication")[d]
  BY <1>3, <1>4, <1>9, <1>10 DEF ReadingOK
<1>12. ReadingOK(b, whole)
  BY <1>3, <1>7, <1>8, <1>9, <1>11 DEF ReadingOK
<1>13. BuilderOK(b, whole) /\ published' \subseteq whole
  BY <1>2, <1>7, <1>12 DEF BuilderOK, CleanInv
<1> QED
  BY <1>2, <1>6, <1>13, BuilderStepKeeps

\* What is published is what judging the snapshot gives.
LEMMA PublishKeeps ==
  ASSUME CleanInv, Publish
  PROVE  CleanInv'
<1> USE CleanAssumption
<1>1. PICK old : old = builder
  OBVIOUS
<1>2. /\ old.pc = "reading" /\ old.day = LastDay
      /\ evidence' = evidence /\ ledger' = ledger /\ changes' = changes /\ whole' = whole
  BY <1>1 DEF Publish
<1>3. ReadingOK(old, whole)
  BY <1>1, <1>2, ReadingBuilder
<1>4. PICK new : new = DatasetOf(old.judged, old.universe, old.snap.ledger)
  OBVIOUS
<1>5. new = Whole(old.snap)
  <2>1. old.judged = Judged(old.snap, "publication")
    BY <1>2, <1>3, JudgedIsUpTo DEF ReadingOK
  <2> QED
    BY <1>3, <1>4, <2>1 DEF Whole, ReadingOK
<1>6. new \in whole
  BY <1>3, <1>5 DEF ReadingOK
<1>7. published' \subseteq published \cup {new}
  BY <1>1, <1>4 DEF Publish
<1>8. PICK b : b = builder'
  OBVIOUS
<1>9. b.pc = "ended" /\ b.day = LastDay
  BY <1>8 DEF Publish
<1>10. BuilderOK(b, whole) /\ published' \subseteq whole
  BY <1>6, <1>7, <1>9 DEF BuilderOK, EndedOK, CleanInv
<1> QED
  BY <1>2, <1>8, <1>10, BuilderStepKeeps

\* The session ends.
LEMMA EndBuildKeeps ==
  ASSUME CleanInv, EndBuild
  PROVE  CleanInv'
<1>1. PICK b : b = builder'
  OBVIOUS
<1>2. /\ b = NotBuilding
      /\ evidence' = evidence /\ ledger' = ledger /\ changes' = changes /\ whole' = whole
      /\ published' = published
  BY <1>1 DEF EndBuild
<1>3. BuilderOK(b, whole) /\ published' \subseteq whole
  BY <1>2 DEF BuilderOK, CleanInv
<1> QED
  BY <1>1, <1>2, <1>3, BuilderStepKeeps

\* Although days are judged one by one while evidence is committed, a dataset
\* that is published is what judging one state of the evidence as a whole
\* gives, for every number of instruments, days and commits
\* (clean_backtest_snapshot.py:32, 44).
THEOREM SnapshotTheorem == CleanSpec => [](CleanTypeOK /\ DatasetIsOneSnapshot)
<1>1. CleanInit => CleanInv
  BY CleanInvInit
<1>2. CleanInv /\ [CleanNext]_cleanVars => CleanInv'
  <2> SUFFICES ASSUME CleanInv, [CleanNext]_cleanVars PROVE CleanInv'
    OBVIOUS
  <2>1. CASE UNCHANGED cleanVars
    <3>1. /\ evidence' = evidence /\ ledger' = ledger /\ builder' = builder
          /\ published' = published /\ changes' = changes /\ whole' = whole
      BY <2>1 DEF cleanVars
    <3> QED
      BY <3>1 DEF CleanInv
  <2>2. ASSUME NEW k \in PriceKeys,
               \/ \E how \in {"sound", "broken"} : StoreCanonical(k, how)
               \/ ApproveExclusion(k) \/ RecordCorporateAction(k)
        PROVE  CleanInv'
    BY <2>2, EvidenceStepKeeps
  <2>3. ASSUME \E o \in Observations : CommitObservation(o[1], o[2], o[3]) PROVE CleanInv'
    BY <2>3, EvidenceStepKeeps
  <2>4. ASSUME \E c \in Corrections : ApproveCorrection(c[1], c[2]) PROVE CleanInv'
    BY <2>4, EvidenceStepKeeps
  <2>5. ASSUME \E import \in ListingImports : ImportListing(import[1], import[2]) PROVE CleanInv'
    BY <2>5, EvidenceStepKeeps
  <2>6. CASE RunAudit
    BY <2>6, AuditRunKeeps
  <2>7. ASSUME NEW via \in Via, BeginBuild(via) PROVE CleanInv'
    BY <2>7, BeginBuildKeeps
  <2>8. CASE ReadDay
    BY <2>8, ReadDayKeeps
  <2>9. CASE Publish
    BY <2>9, PublishKeeps
  <2>10. CASE EndBuild
    BY <2>10, EndBuildKeeps
  <2> QED
    BY <2>1, <2>2, <2>3, <2>4, <2>5, <2>6, <2>7, <2>8, <2>9, <2>10 DEF CleanNext
<1>3. CleanInv => CleanTypeOK /\ DatasetIsOneSnapshot
  BY CleanInvHolds
<1> QED
  BY <1>1, <1>2, <1>3, PTL DEF CleanSpec

-----------------------------------------------------------------------------
(* The pages of a dataset.                                                 *)

RowSet == [id : Nat, version : Nat]
ItemSet == [key : PageKeys, price : RowSet, rs : RowSet]

\* The rows of the tables and of the open transactions have ids their table's
\* sequence has issued, and no key is inserted twice.
RowsOK(t, open, top) ==
  /\ DOMAIN t = Tables
  /\ \A of \in Tables : \A k \in DOMAIN t[of] :
       k \in PageKeys /\ t[of][k] \in RowSet /\ t[of][k].id \in 1..top[of] /\ t[of][k].version \in 1..2
  /\ \A w \in open :
       /\ w.of \in Tables /\ w.key \in PageKeys /\ w.id \in 1..top[w.of]
       /\ w.key \notin DOMAIN t[w.of]
  /\ \A v, w \in open : v.of = w.of /\ v.key = w.key => v = w
  /\ top \in [Tables -> Nat] /\ \A of \in Tables : top[of] <= MaxRowId[of]

\* Rows that are there stay, under their ids and with no older version.
Follows(u, t) ==
  \A of \in Tables : \A k \in DOMAIN t[of] :
    /\ k \in DOMAIN u[of]
    /\ u[of][k].id = t[of][k].id /\ t[of][k].version <= u[of][k].version

\* The materialised dataset: nothing, the memberships, or these with the copies
\* of the prices and a run.
FrozenOK(f) ==
  \/ f = NotFrozen
  \/ /\ f.pc = "summed" /\ DOMAIN f = {"pc", "members", "hashed"}
     /\ f.members \subseteq PageKeys
  \/ /\ f.pc = "stored"
     /\ DOMAIN f = {"pc", "members", "hashed", "copies", "rsRun", "expired"}
     /\ f.members \subseteq PageKeys /\ f.rsRun \in Nat
     /\ \A k \in DOMAIN f.copies : f.copies[k] \in RowSet

\* The price a page has for a membership.
CopyIn(k, f) == IF k \in DOMAIN f.copies THEN f.copies[k] ELSE NoRow

KeysOf(joined) == {joined[i].key : i \in DOMAIN joined}

\* What the client holds is in order, and goes up to the cursor.
HeldInOrder(r) ==
  /\ DOMAIN r = {"kind", "pc", "bound", "last", "joined", "begun"}
  /\ r.pc \in {"check", "page", "done"} /\ r.last \in Nat /\ r.joined \in Seq(ItemSet)
  /\ \A i, j \in DOMAIN r.joined : i < j => r.joined[i].key < r.joined[j].key
  /\ \A i \in DOMAIN r.joined : r.joined[i].key <= r.last

\* What a page item of a live read says, under the watermark and of the rows
\* there were at first.
ItemHolds(item, bound, begun) ==
  /\ item.price.id <= bound["price"] /\ item.rs.id <= bound["score"]
  /\ item.key \in DOMAIN begun["price"] => begun["price"][item.key].version \in 1..item.price.version
  /\ item.key \in DOMAIN begun["score"] => item.rs # NoRow

\* A live read has each price there was at first, or has it still to come.
LiveHolds(r, t) ==
  /\ r.bound \in [Tables -> Nat] /\ DOMAIN r.begun = Tables
  /\ \A of \in Tables : \A k \in DOMAIN r.begun[of] :
       /\ k \in PageKeys /\ r.begun[of][k] \in RowSet
       /\ r.begun[of][k].id \in 1..r.bound[of] /\ r.begun[of][k].version \in 1..2
  /\ Follows(t, r.begun)
  /\ \A k \in DOMAIN r.begun["price"] :
       k \in KeysOf(r.joined) \/ (r.pc # "done" /\ k > r.last)
  /\ \A i \in DOMAIN r.joined : ItemHolds(r.joined[i], r.bound, r.begun)

\* A read of the materialised dataset has the memberships up to its cursor, each
\* with the copy of its price, and with the run the read is bound to but for the
\* last page, read after the check.
FrozenHolds(r, f) ==
  /\ f.pc = "stored" /\ r.bound \in Nat /\ r.bound <= f.rsRun
  /\ KeysOf(r.joined) = {k \in f.members : r.pc = "done" \/ k <= r.last}
  /\ \A i \in DOMAIN r.joined :
       /\ r.joined[i].price = CopyIn(r.joined[i].key, f)
       /\ r.joined[i].rs.id \in r.bound..f.rsRun
       /\ r.pc = "page" \/ i < Len(r.joined) => r.joined[i].rs.id = r.bound

ReaderOK(r, t, f) ==
  \/ r = NotRead
  \/ /\ HeldInOrder(r)
     /\ \/ r.kind = "live" /\ LiveHolds(r, t)
        \/ r.kind = "frozen" /\ FrozenHolds(r, f)

PagesOK(t, open, top, f, r) == RowsOK(t, open, top) /\ FrozenOK(f) /\ ReaderOK(r, t, f)

PagesInv ==
  \E t, open, top, f, r :
    /\ t = rows /\ open = inserting /\ top = issued /\ f = frozen /\ r = reader
    /\ PagesOK(t, open, top, f, r)

\* PagesInv of the next state, from its parts.
LEMMA PagesInvNext ==
  ASSUME NEW t, NEW open, NEW top, NEW f, NEW r,
         t = rows', open = inserting', top = issued', f = frozen', r = reader',
         RowsOK(t, open, top), FrozenOK(f), ReaderOK(r, t, f)
  PROVE  PagesInv'
BY DEF PagesInv, PagesOK

\* PagesInv of this state has these parts.
LEMMA PagesInvNow ==
  ASSUME PagesInv
  PROVE  RowsOK(rows, inserting, issued) /\ FrozenOK(frozen) /\ ReaderOK(reader, rows, frozen)
BY DEF PagesInv, PagesOK

\* PagesInv has the types and the joined pages in it.
LEMMA PagesInvHolds == PagesInv => PagesTypeOK /\ JoinedPagesMissNothing
<1> SUFFICES ASSUME PagesInv PROVE PagesTypeOK /\ JoinedPagesMissNothing
  OBVIOUS
<1>1. RowsOK(rows, inserting, issued) /\ FrozenOK(frozen) /\ ReaderOK(reader, rows, frozen)
  BY PagesInvNow
<1>2. PagesTypeOK
  <2>1. \A of \in Tables :
          /\ DOMAIN rows[of] \subseteq PageKeys
          /\ \A k \in DOMAIN rows[of] :
               rows[of][k].id \in 1..issued[of] /\ rows[of][k].version \in 1..2
    BY <1>1 DEF RowsOK
  <2>2. \A w \in inserting : w.id \in 1..issued[w.of] /\ w.key \notin DOMAIN rows[w.of]
    BY <1>1 DEF RowsOK
  <2>3. \A of \in Tables : issued[of] \in 0..MaxRowId[of]
    BY <1>1, PagesAssumption DEF RowsOK, MaxRowId
  <2>4. frozen.pc \in {"none", "summed", "stored"}
    BY <1>1 DEF FrozenOK, NotFrozen
  <2>5. reader.pc \in {"idle", "check", "page", "done"}
    BY <1>1 DEF ReaderOK, HeldInOrder, NotRead
  <2> QED
    BY <2>1, <2>2, <2>3, <2>4, <2>5 DEF PagesTypeOK
<1>3. ASSUME reader.pc = "done"
      PROVE  InKeyOrder /\ LivePagesMissNothing /\ FrozenPagesAreTheMembers
  <2>1. HeldInOrder(reader)
    BY <1>1, <1>3 DEF ReaderOK, NotRead
  <2>2. JoinedKeys = KeysOf(reader.joined)
    BY DEF JoinedKeys, KeysOf
  <2>3. InKeyOrder
    BY <2>1 DEF HeldInOrder, InKeyOrder
  <2>4. CASE reader.kind = "live"
    <3>1. LiveHolds(reader, rows)
      BY <1>1, <1>3, <2>4 DEF ReaderOK, NotRead
    <3>2. DOMAIN reader.begun["price"] \subseteq JoinedKeys
      BY <1>3, <2>2, <3>1 DEF LiveHolds
    <3>3. \A i \in DOMAIN reader.joined : ItemHolds(reader.joined[i], reader.bound, reader.begun)
      BY <3>1 DEF LiveHolds
    <3>4. LivePagesMissNothing
      BY <3>2, <3>3 DEF LivePagesMissNothing, ItemHolds
    <3> QED
      BY <2>3, <2>4, <3>4 DEF FrozenPagesAreTheMembers
  <2>5. CASE reader.kind = "frozen"
    <3>1. FrozenHolds(reader, frozen)
      BY <1>1, <1>3, <2>5 DEF ReaderOK, NotRead
    <3>2. JoinedKeys = frozen.members
      BY <1>3, <2>2, <3>1 DEF FrozenHolds
    <3>3. FrozenPagesAreTheMembers
      BY <1>3, <3>1, <3>2 DEF FrozenHolds, FrozenPagesAreTheMembers, CopyOf, CopyIn
    <3> QED
      BY <2>3, <2>5, <3>3 DEF LivePagesMissNothing
  <2> QED
    BY <1>1, <1>3, <2>4, <2>5 DEF ReaderOK, NotRead
<1> QED
  BY <1>2, <1>3 DEF JoinedPagesMissNothing

\* Keys are numbers above 0.
LEMMA KeysAreNumbers == \A k \in PageKeys : k \in Nat /\ k > 0 /\ ~ (k <= 0)
<1> TAKE k \in PageKeys
<1>1. k \in Nat \ {0}
  BY PagesAssumption
<1> QED
  BY <1>1

\* The lowest of some numbers.
LEMMA LowestIsFirst ==
  ASSUME NEW s \in SUBSET Nat, s # {}
  PROVE  Lowest(s) \in s /\ \A i \in s : Lowest(s) <= i
BY LeastNumber DEF Lowest

\* The highest of some numbers up to a bound is not below any of them.
LEMMA HighestIsLast ==
  ASSUME NEW n \in Nat, NEW s \in SUBSET (1..n)
  PROVE  Highest(s) \in Nat /\ \A i \in s : i <= Highest(s)
<1>1. CASE s = {}
  BY <1>1 DEF Highest
<1>2. CASE s # {}
  <2> DEFINE above == {b \in Nat : \A i \in s : i <= b}
  <2>1. n \in above /\ above \in SUBSET Nat
    OBVIOUS
  <2>2. PICK b \in above : \A c \in above : b <= c
    <3> HIDE DEF above
    <3> QED
      BY <2>1, LeastNumber
  <2>3. b \in Nat /\ \A i \in s : i <= b
    BY <2>2
  <2>4. b \in s
    <3>1. SUFFICES ASSUME b \notin s PROVE FALSE
      OBVIOUS
    <3>2. \A i \in s : i <= b - 1 /\ i >= 1
      BY <2>3, <3>1
    <3>0. PICK i \in s : TRUE
      BY <1>2
    <3>3. b - 1 \in Nat
      BY <2>3, <3>0, <3>2
    <3>4. b - 1 \in above
      BY <3>2, <3>3
    <3> QED
      BY <2>2, <2>3, <3>4
  <2>5. \E m \in s : \A i \in s : i <= m
    BY <2>3, <2>4
  <2>6. PICK h : h = CHOOSE m \in s : \A i \in s : i <= m
    OBVIOUS
  <2>7. h \in s /\ \A i \in s : i <= h
    BY <2>5, <2>6
  <2>8. Highest(s) = h
    BY <1>2, <2>6 DEF Highest
  <2>9. h \in Nat
    BY <2>7
  <2> QED
    BY <2>7, <2>8, <2>9
<1> QED
  BY <1>1, <1>2

\* The ids of the first rows.
LEMMA FirstIdsAreIssued ==
  ASSUME NEW k \in FirstRows
  PROVE  FirstId(k) \in 1..Cardinality(FirstRows)
<1> DEFINE upTo == {j \in FirstRows : j <= k}
<1> USE PagesAssumption
<1>1. IsFiniteSet(FirstRows)
  BY FS_Subset
<1>2. upTo \subseteq FirstRows /\ k \in upTo
  OBVIOUS
<1>3. IsFiniteSet(upTo) /\ Cardinality(upTo) <= Cardinality(FirstRows)
  BY <1>1, <1>2, FS_Subset
<1>4. Cardinality(upTo) \in Nat /\ Cardinality(FirstRows) \in Nat
  BY <1>1, <1>3, FS_CardinalityType
<1>5. Cardinality(upTo) # 0
  BY <1>2, <1>3, FS_EmptySet
<1> QED
  BY <1>3, <1>4, <1>5 DEF FirstId

\* The prices of the first rows, nothing under way.
LEMMA PagesInvInit == PagesInit => PagesInv
<1> SUFFICES ASSUME PagesInit PROVE PagesInv
  OBVIOUS
<1> USE PagesAssumption
<1>1. PICK t, open, top : t = rows /\ open = inserting /\ top = issued
  OBVIOUS
<1>2. Cardinality(FirstRows) \in Nat
  BY FS_Subset, FS_CardinalityType
<1>3. /\ DOMAIN t = Tables /\ open = {}
      /\ t["price"] = [k \in FirstRows |-> [id |-> FirstId(k), version |-> 1]]
      /\ t["score"] = <<>>
      /\ top = [of \in Tables |-> IF of = "price" THEN Cardinality(FirstRows) ELSE 0]
  BY <1>1 DEF PagesInit, Tables
<1>4. top \in [Tables -> Nat] /\ top["price"] = Cardinality(FirstRows) /\ top["score"] = 0
  BY <1>2, <1>3 DEF Tables
<1>5. \A of \in Tables : top[of] <= MaxRowId[of]
  BY <1>4 DEF Tables, MaxRowId
<1>6. ASSUME NEW of \in Tables, NEW k \in DOMAIN t[of]
      PROVE  /\ k \in PageKeys /\ t[of][k] \in RowSet
             /\ t[of][k].id \in 1..top[of] /\ t[of][k].version \in 1..2
  <2>1. CASE of = "price"
    <3>1. k \in FirstRows /\ t[of][k] = [id |-> FirstId(k), version |-> 1]
      BY <1>3, <2>1
    <3>2. PICK n : n = FirstId(k)
      OBVIOUS
    <3>3. n \in 1..Cardinality(FirstRows)
      BY <3>1, <3>2, FirstIdsAreIssued
    <3> QED
      BY <1>2, <1>4, <2>1, <3>1, <3>2, <3>3 DEF RowSet
  <2>2. CASE of = "score"
    BY <1>3, <2>2
  <2> QED
    BY <2>1, <2>2 DEF Tables
<1>7. RowsOK(t, open, top)
  BY <1>3, <1>4, <1>5, <1>6 DEF RowsOK
<1>8. FrozenOK(frozen) /\ ReaderOK(reader, rows, frozen)
  BY DEF PagesInit, FrozenOK, ReaderOK
<1> QED
  BY <1>1, <1>7, <1>8 DEF PagesInv, PagesOK

-----------------------------------------------------------------------------
(* What happens to the tables while a client reads.                        *)

\* A live read holds of tables that follow those it held of.
LEMMA ReaderFollowsRows ==
  ASSUME NEW r, NEW t, NEW u, NEW f, ReaderOK(r, t, f), Follows(u, t),
         \A of \in Tables : \A k \in DOMAIN t[of] : t[of][k].version \in Nat,
         \A of \in Tables : \A k \in DOMAIN u[of] : u[of][k].version \in Nat
  PROVE  ReaderOK(r, u, f)
<1>1. ASSUME LiveHolds(r, t) PROVE LiveHolds(r, u)
  <2>1. Follows(t, r.begun)
    BY <1>1 DEF LiveHolds
  <2>2. ASSUME NEW of \in Tables, NEW k \in DOMAIN r.begun[of]
        PROVE  /\ k \in DOMAIN u[of]
               /\ u[of][k].id = r.begun[of][k].id /\ r.begun[of][k].version <= u[of][k].version
    <3>1. k \in DOMAIN t[of] /\ k \in DOMAIN u[of]
      BY <2>1 DEF Follows
    <3>2. u[of][k].id = r.begun[of][k].id
      BY <2>1, <3>1 DEF Follows
    <3>3. r.begun[of][k].version <= t[of][k].version /\ t[of][k].version <= u[of][k].version
      BY <2>1, <3>1 DEF Follows
    <3>4. r.begun[of][k].version \in Nat
      BY <1>1 DEF LiveHolds
    <3> QED
      BY <3>1, <3>2, <3>3, <3>4
  <2> QED
    BY <1>1, <2>2 DEF LiveHolds, Follows
<1> QED
  BY <1>1 DEF ReaderOK

\* The versions of rows are numbers.
LEMMA VersionsAreNumbers ==
  ASSUME NEW t, NEW open, NEW top, RowsOK(t, open, top)
  PROVE  \A of \in Tables : \A k \in DOMAIN t[of] : t[of][k].version \in Nat
BY DEF RowsOK

\* Where a step writes the tables only.
LEMMA TableStepKeeps ==
  ASSUME PagesInv, NEW t, NEW u, NEW open, NEW top,
         t = rows, u = rows', open = inserting', top = issued',
         frozen' = frozen, reader' = reader, RowsOK(u, open, top), Follows(u, t)
  PROVE  PagesInv'
<1>1. PICK f, r : f = frozen /\ r = reader
  OBVIOUS
<1>2. RowsOK(t, inserting, issued) /\ FrozenOK(f) /\ ReaderOK(r, t, f)
  BY <1>1, PagesInvNow
<1>3. ReaderOK(r, u, f)
  <2>1. \A of \in Tables : \A k \in DOMAIN t[of] : t[of][k].version \in Nat
    BY <1>2, VersionsAreNumbers
  <2>2. \A of \in Tables : \A k \in DOMAIN u[of] : u[of][k].version \in Nat
    BY VersionsAreNumbers
  <2> QED
    BY <1>2, <2>1, <2>2, ReaderFollowsRows
<1>4. f = frozen' /\ r = reader'
  BY <1>1
<1> QED
  BY <1>2, <1>3, <1>4, PagesInvNext

\* A new row, not yet committed.
LEMMA InsertKeeps ==
  ASSUME PagesInv, NEW of \in Tables, NEW k \in PageKeys, InsertRow(of, k)
  PROVE  PagesInv'
<1>1. PICK t, open, top : t = rows /\ open = inserting /\ top = issued
  OBVIOUS
<1>2. RowsOK(t, open, top)
  BY <1>1, PagesInvNow
<1>3. /\ k \notin DOMAIN t[of] /\ \A w \in open : w.of = of => w.key # k
      /\ top[of] < MaxRowId[of]
      /\ rows' = t /\ frozen' = frozen /\ reader' = reader
  BY <1>1 DEF InsertRow
<1>4. PICK w : w = [of |-> of, key |-> k, id |-> top[of] + 1]
  OBVIOUS
<1>5. PICK more : more = [top EXCEPT ![of] = top[of] + 1]
  OBVIOUS
<1>6. inserting' = open \cup {w} /\ issued' = more
  BY <1>1, <1>4, <1>5 DEF InsertRow
<1>7. w.of = of /\ w.key = k /\ w.id = top[of] + 1
  BY <1>4
<1>8. top \in [Tables -> Nat]
  BY <1>2 DEF RowsOK
<1>9. more \in [Tables -> Nat] /\ \A p \in Tables : top[p] <= more[p] /\ more[p] <= MaxRowId[p]
  <2>1. MaxRowId[of] \in Nat
    BY PagesAssumption DEF MaxRowId, Tables
  <2> QED
    BY <1>2, <1>3, <1>5, <1>8, <2>1 DEF RowsOK
<1>10. w.id \in 1..more[of]
  BY <1>5, <1>7, <1>8
<1>11. \A p \in Tables : \A j \in 1..top[p] : j \in 1..more[p]
  BY <1>8, <1>9
<1>12. RowsOK(t, open \cup {w}, more)
  <2>1. \A p \in Tables : \A j \in DOMAIN t[p] :
          j \in PageKeys /\ t[p][j] \in RowSet /\ t[p][j].id \in 1..more[p] /\ t[p][j].version \in 1..2
    BY <1>2, <1>11 DEF RowsOK
  <2>2. \A v \in open \cup {w} :
          v.of \in Tables /\ v.key \in PageKeys /\ v.id \in 1..more[v.of] /\ v.key \notin DOMAIN t[v.of]
    BY <1>2, <1>3, <1>7, <1>10, <1>11 DEF RowsOK
  <2>3. \A v, x \in open \cup {w} : v.of = x.of /\ v.key = x.key => v = x
    BY <1>2, <1>3, <1>7 DEF RowsOK
  <2> QED
    BY <1>2, <1>9, <2>1, <2>2, <2>3 DEF RowsOK
<1>13. Follows(t, t)
  BY <1>2 DEF Follows, RowsOK
<1>14. PICK after : after = open \cup {w}
  OBVIOUS
<1> QED
  BY <1>1, <1>3, <1>6, <1>12, <1>13, <1>14, TableStepKeeps

\* A transaction commits its row.
LEMMA CommitInsertKeeps ==
  ASSUME PagesInv, NEW w \in inserting, CommitInsert(w)
  PROVE  PagesInv'
<1>1. PICK t, open, top : t = rows /\ open = inserting /\ top = issued
  OBVIOUS
<1>2. RowsOK(t, open, top)
  BY <1>1, PagesInvNow
<1>3. w \in open /\ inserting' = open \ {w} /\ issued' = top /\ frozen' = frozen /\ reader' = reader
  BY <1>1 DEF CommitInsert
<1>4. w.of \in Tables /\ w.key \in PageKeys /\ w.id \in 1..top[w.of] /\ w.key \notin DOMAIN t[w.of]
  BY <1>2, <1>3 DEF RowsOK
<1>5. top[w.of] \in Nat
  BY <1>2, <1>4 DEF RowsOK
<1>6. PICK row : row = [id |-> w.id, version |-> 1]
  OBVIOUS
<1>7. row \in RowSet /\ row.id = w.id /\ row.version = 1
  BY <1>4, <1>5, <1>6 DEF RowSet
<1>8. PICK table : table = [k \in DOMAIN t[w.of] \cup {w.key} |-> IF k = w.key THEN row ELSE t[w.of][k]]
  OBVIOUS
<1>9. PICK u : u = [t EXCEPT ![w.of] = table]
  OBVIOUS
<1>10. rows' = u
  BY <1>1, <1>6, <1>8, <1>9 DEF CommitInsert
<1>11. DOMAIN t = Tables
  BY <1>2 DEF RowsOK
<1>12. DOMAIN u = Tables /\ u[w.of] = table /\ \A of \in Tables : of # w.of => u[of] = t[of]
  BY <1>4, <1>9, <1>11
<1>13. DOMAIN table = DOMAIN t[w.of] \cup {w.key} /\ table[w.key] = row
       /\ \A k \in DOMAIN t[w.of] : table[k] = t[w.of][k]
  BY <1>4, <1>8
<1>14. RowsOK(u, open \ {w}, top)
  <2>1. ASSUME NEW of \in Tables, NEW k \in DOMAIN u[of]
        PROVE  /\ k \in PageKeys /\ u[of][k] \in RowSet
               /\ u[of][k].id \in 1..top[of] /\ u[of][k].version \in 1..2
    <3>1. CASE of # w.of
      BY <1>2, <1>12, <3>1 DEF RowsOK
    <3>2. CASE of = w.of /\ k = w.key
      BY <1>4, <1>7, <1>12, <1>13, <3>2
    <3>3. CASE of = w.of /\ k # w.key
      <4>1. k \in DOMAIN t[of] /\ u[of][k] = t[of][k]
        BY <1>12, <1>13, <3>3
      <4> QED
        BY <1>2, <4>1 DEF RowsOK
    <3> QED
      BY <3>1, <3>2, <3>3
  <2>2. ASSUME NEW v \in open \ {w}
        PROVE  /\ v.of \in Tables /\ v.key \in PageKeys /\ v.id \in 1..top[v.of]
               /\ v.key \notin DOMAIN u[v.of]
    <3>1. /\ v.of \in Tables /\ v.key \in PageKeys /\ v.id \in 1..top[v.of]
          /\ v.key \notin DOMAIN t[v.of]
      BY <1>2, <2>2 DEF RowsOK
    <3>2. ~ (v.of = w.of /\ v.key = w.key)
      BY <1>2, <1>3, <2>2 DEF RowsOK
    <3> QED
      BY <1>12, <1>13, <3>1, <3>2
  <2> QED
    BY <1>2, <1>12, <2>1, <2>2 DEF RowsOK
<1>15. Follows(u, t)
  <2>1. ASSUME NEW of \in Tables, NEW k \in DOMAIN t[of]
        PROVE  k \in DOMAIN u[of] /\ u[of][k] = t[of][k] /\ t[of][k].version <= t[of][k].version
    <3>1. t[of][k].version \in 1..2
      BY <1>2 DEF RowsOK
    <3> QED
      BY <1>4, <1>12, <1>13, <3>1
  <2> QED
    BY <2>1 DEF Follows
<1>16. PICK after : after = open \ {w}
  OBVIOUS
<1> QED
  BY <1>1, <1>3, <1>10, <1>14, <1>15, <1>16, TableStepKeeps

\* A row takes another value.
LEMMA ReplaceKeeps ==
  ASSUME PagesInv, NEW of \in Tables, NEW k \in PageKeys, ReplaceRow(of, k)
  PROVE  PagesInv'
<1>1. PICK t, open, top : t = rows /\ open = inserting /\ top = issued
  OBVIOUS
<1>2. RowsOK(t, open, top)
  BY <1>1, PagesInvNow
<1>3. /\ k \in DOMAIN t[of] /\ t[of][k].version = 1
      /\ inserting' = open /\ issued' = top /\ frozen' = frozen /\ reader' = reader
  BY <1>1 DEF ReplaceRow
<1>4. PICK old : old = t[of][k]
  OBVIOUS
<1>5. PICK row : row = [old EXCEPT !.version = 2]
  OBVIOUS
<1>6. old \in RowSet /\ old.id \in 1..top[of] /\ old.version = 1
  BY <1>2, <1>3, <1>4 DEF RowsOK
<1>7. row \in RowSet /\ row.id = old.id /\ row.version = 2
  BY <1>5, <1>6 DEF RowSet
<1>8. PICK u : u = rows'
  OBVIOUS
<1>9. DOMAIN t = Tables
  BY <1>2 DEF RowsOK
<1>10. /\ DOMAIN u = Tables
       /\ \A p \in Tables : DOMAIN u[p] = DOMAIN t[p]
       /\ u[of][k] = row
       /\ \A p \in Tables : \A j \in DOMAIN t[p] : ~ (p = of /\ j = k) => u[p][j] = t[p][j]
  <2>1. u = [t EXCEPT ![of] = [t[of] EXCEPT ![k] = row]]
    BY <1>1, <1>4, <1>5, <1>8 DEF ReplaceRow
  <2> QED
    BY <1>3, <1>9, <2>1
<1>11. RowsOK(u, open, top)
  <2>1. ASSUME NEW p \in Tables, NEW j \in DOMAIN u[p]
        PROVE  /\ j \in PageKeys /\ u[p][j] \in RowSet
               /\ u[p][j].id \in 1..top[p] /\ u[p][j].version \in 1..2
    <3>1. CASE p = of /\ j = k
      BY <1>6, <1>7, <1>10, <3>1
    <3>2. CASE ~ (p = of /\ j = k)
      BY <1>2, <1>10, <3>2 DEF RowsOK
    <3> QED
      BY <3>1, <3>2
  <2> QED
    BY <1>2, <1>10, <2>1 DEF RowsOK
<1>12. Follows(u, t)
  <2>1. ASSUME NEW p \in Tables, NEW j \in DOMAIN t[p]
        PROVE  j \in DOMAIN u[p] /\ u[p][j].id = t[p][j].id /\ t[p][j].version <= u[p][j].version
    <3>1. CASE p = of /\ j = k
      BY <1>4, <1>6, <1>7, <1>10, <3>1
    <3>2. CASE ~ (p = of /\ j = k)
      <4>1. t[p][j].version \in 1..2
        BY <1>2 DEF RowsOK
      <4> QED
        BY <1>10, <3>2, <4>1
    <3> QED
      BY <3>1, <3>2
  <2> QED
    BY <2>1 DEF Follows
<1> QED
  BY <1>1, <1>3, <1>8, <1>11, <1>12, TableStepKeeps

\* A read of the copies holds while these stay and RS runs are added.
LEMMA ReaderFollowsRuns ==
  ASSUME NEW r, NEW t, NEW f, NEW g, ReaderOK(r, t, f), FrozenOK(f),
         f.pc = "stored" =>
           /\ g.pc = "stored" /\ g.members = f.members /\ g.copies = f.copies
           /\ g.rsRun \in Nat /\ f.rsRun <= g.rsRun
  PROVE  ReaderOK(r, t, g)
<1>1. ASSUME FrozenHolds(r, f) PROVE FrozenHolds(r, g)
  <2>1. f.pc = "stored"
    BY <1>1 DEF FrozenHolds
  <2>2. /\ g.pc = "stored" /\ g.members = f.members /\ g.copies = f.copies
        /\ g.rsRun \in Nat /\ f.rsRun <= g.rsRun
    BY <2>1
  <2>3. f.rsRun \in Nat /\ r.bound \in Nat /\ r.bound <= f.rsRun
    BY <1>1, <2>1 DEF FrozenHolds, FrozenOK, NotFrozen
  <2>4. r.bound <= g.rsRun /\ \A n \in r.bound..f.rsRun : n \in r.bound..g.rsRun
    BY <2>2, <2>3
  <2> QED
    BY <1>1, <2>2, <2>3, <2>4 DEF FrozenHolds, CopyIn
<1> QED
  BY <1>1 DEF ReaderOK

\* Where a step writes the materialised dataset only.
LEMMA FrozenStepKeeps ==
  ASSUME PagesInv, NEW f, NEW g, f = frozen, g = frozen', FrozenOK(g),
         rows' = rows, inserting' = inserting, issued' = issued, reader' = reader,
         f.pc = "stored" =>
           /\ g.pc = "stored" /\ g.members = f.members /\ g.copies = f.copies
           /\ g.rsRun \in Nat /\ f.rsRun <= g.rsRun
  PROVE  PagesInv'
<1>1. PICK t, open, top, r : t = rows /\ open = inserting /\ top = issued /\ r = reader
  OBVIOUS
<1>2. RowsOK(t, open, top) /\ FrozenOK(f) /\ ReaderOK(r, t, f)
  BY <1>1, PagesInvNow
<1>3. ReaderOK(r, t, g)
  BY <1>2, ReaderFollowsRuns
<1>4. t = rows' /\ open = inserting' /\ top = issued' /\ r = reader'
  BY <1>1
<1> QED
  BY <1>2, <1>3, <1>4, PagesInvNext

\* The dataset is summed, stored, given an RS run, and expires.
LEMMA DatasetStepKeeps ==
  ASSUME PagesInv,
         \/ \E members \in Memberships : SummarisePrices(members)
         \/ CopyPrices \/ PublishRsRun \/ RetentionEnds
  PROVE  PagesInv'
<1>1. PICK t, f, g : t = rows /\ f = frozen /\ g = frozen'
  OBVIOUS
<1>2. RowsOK(t, inserting, issued) /\ FrozenOK(f)
  BY <1>1, PagesInvNow
<1>3. rows' = rows /\ inserting' = inserting /\ issued' = issued /\ reader' = reader
  BY DEF SummarisePrices, CopyPrices, PublishRsRun, RetentionEnds
<1>4. ASSUME NEW members \in Memberships, SummarisePrices(members) PROVE PagesInv'
  <2>1. PICK hashed : hashed = PricesOf(members)
    OBVIOUS
  <2>2. f = NotFrozen /\ g = [pc |-> "summed", members |-> members, hashed |-> hashed]
    BY <1>1, <1>4, <2>1 DEF SummarisePrices
  <2>3. members \subseteq PageKeys
    BY PagesAssumption
  <2>4. f.pc = "none" /\ FrozenOK(g)
    BY <2>2, <2>3 DEF NotFrozen, FrozenOK
  <2> QED
    BY <1>1, <1>3, <2>4, FrozenStepKeeps
<1>5. CASE CopyPrices
  <2>1. PICK members, hashed, copies :
          members = f.members /\ hashed = f.hashed /\ copies = PricesOf(members)
    OBVIOUS
  <2>2. f.pc = "summed" /\ g = [pc |-> "stored", members |-> members, hashed |-> hashed,
                                copies |-> copies, rsRun |-> 0, expired |-> FALSE]
    BY <1>1, <1>5, <2>1 DEF CopyPrices
  <2>3. members \subseteq PageKeys
    BY <1>2, <2>1, <2>2 DEF FrozenOK, NotFrozen
  <2>4. \A k \in DOMAIN copies : k \in DOMAIN t["price"] /\ copies[k] = t["price"][k]
    BY <1>1, <2>1 DEF PricesOf
  <2>5. \A k \in DOMAIN copies : copies[k] \in RowSet
    BY <1>2, <2>4 DEF RowsOK, Tables
  <2>6. /\ g.pc = "stored" /\ g.rsRun \in Nat
        /\ DOMAIN g = {"pc", "members", "hashed", "copies", "rsRun", "expired"}
        /\ g.members = members /\ g.copies = copies
    BY <2>2
  <2>7. FrozenOK(g)
    BY <2>3, <2>5, <2>6 DEF FrozenOK
  <2> QED
    BY <1>1, <1>3, <2>2, <2>7, FrozenStepKeeps
<1>6. CASE PublishRsRun
  <2>1. f.pc = "stored" /\ g = [f EXCEPT !.rsRun = f.rsRun + 1]
    BY <1>1, <1>6 DEF PublishRsRun
  <2>2. /\ DOMAIN f = {"pc", "members", "hashed", "copies", "rsRun", "expired"}
        /\ f.members \subseteq PageKeys /\ f.rsRun \in Nat
        /\ \A k \in DOMAIN f.copies : f.copies[k] \in RowSet
    BY <1>2, <2>1 DEF FrozenOK, NotFrozen
  <2>3. /\ g.pc = "stored" /\ DOMAIN g = DOMAIN f
        /\ g.members = f.members /\ g.copies = f.copies /\ g.rsRun = f.rsRun + 1
    BY <2>1, <2>2
  <2>4. FrozenOK(g)
    BY <2>2, <2>3 DEF FrozenOK
  <2>5. g.rsRun \in Nat /\ f.rsRun <= g.rsRun
    BY <2>2, <2>3
  <2> QED
    BY <1>1, <1>3, <2>3, <2>4, <2>5, FrozenStepKeeps
<1>7. CASE RetentionEnds
  <2>1. f.pc = "stored" /\ g = [f EXCEPT !.expired = TRUE]
    BY <1>1, <1>7 DEF RetentionEnds
  <2>2. /\ DOMAIN f = {"pc", "members", "hashed", "copies", "rsRun", "expired"}
        /\ f.members \subseteq PageKeys /\ f.rsRun \in Nat
        /\ \A k \in DOMAIN f.copies : f.copies[k] \in RowSet
    BY <1>2, <2>1 DEF FrozenOK, NotFrozen
  <2>3. /\ g.pc = "stored" /\ DOMAIN g = DOMAIN f
        /\ g.members = f.members /\ g.copies = f.copies /\ g.rsRun = f.rsRun
    BY <2>1, <2>2
  <2>4. FrozenOK(g) /\ g.rsRun \in Nat /\ f.rsRun <= g.rsRun
    BY <2>2, <2>3 DEF FrozenOK
  <2> QED
    BY <1>1, <1>3, <2>3, <2>4, FrozenStepKeeps
<1> QED
  BY <1>4, <1>5, <1>6, <1>7

-----------------------------------------------------------------------------
(* The requests of the client.                                             *)

\* Where a step changes the reader only.
LEMMA ReaderStepKeeps ==
  ASSUME PagesInv, NEW t, NEW f, NEW r, t = rows, f = frozen, r = reader',
         rows' = rows, inserting' = inserting, issued' = issued, frozen' = frozen,
         ReaderOK(r, t, f)
  PROVE  PagesInv'
<1>1. PICK open, top : open = inserting /\ top = issued
  OBVIOUS
<1>2. RowsOK(t, open, top) /\ FrozenOK(f)
  BY <1>1, PagesInvNow
<1>3. t = rows' /\ open = inserting' /\ top = issued' /\ f = frozen'
  BY <1>1
<1> QED
  BY <1>2, <1>3, PagesInvNext

\* The watermark is above every id there is.
LEMMA WatermarkBoundsIds ==
  ASSUME PagesInv
  PROVE  \E bound \in [Tables -> Nat] :
           /\ bound = Watermark
           /\ \A of \in Tables : \A k \in DOMAIN rows[of] : rows[of][k].id <= bound[of]
<1>1. PICK t, top : t = rows /\ top = issued
  OBVIOUS
<1>2. RowsOK(t, inserting, top)
  BY <1>1, PagesInvNow
<1> DEFINE ids(of) == {t[of][k].id : k \in DOMAIN t[of]}
<1>3. ASSUME NEW of \in Tables
      PROVE  Highest(ids(of)) \in Nat /\ \A i \in ids(of) : i <= Highest(ids(of))
  <2>1. top[of] \in Nat
    BY <1>2 DEF RowsOK
  <2>2. PICK s : s = ids(of)
    OBVIOUS
  <2>3. s \in SUBSET (1..top[of])
    BY <1>2, <2>2 DEF RowsOK
  <2> HIDE DEF ids
  <2>4. Highest(s) \in Nat /\ \A i \in s : i <= Highest(s)
    BY <2>1, <2>3, HighestIsLast
  <2> QED
    BY <2>2, <2>4
<1>4. PICK bound : bound = [of \in Tables |-> Highest(ids(of))]
  OBVIOUS
<1>5. bound = Watermark
  BY <1>1, <1>4 DEF Watermark
<1>6. bound \in [Tables -> Nat]
  <2> HIDE DEF ids
  <2> QED
    BY <1>3, <1>4
<1>7. ASSUME NEW of \in Tables, NEW k \in DOMAIN t[of] PROVE t[of][k].id <= bound[of]
  <2>1. t[of][k].id \in ids(of)
    OBVIOUS
  <2> HIDE DEF ids
  <2> QED
    BY <1>3, <1>4, <2>1
<1> QED
  BY <1>1, <1>5, <1>6, <1>7

\* The first page is asked for.
LEMMA FirstRequestKeeps ==
  ASSUME PagesInv, NEW kind \in {"live", "frozen"}, FirstRequest(kind)
  PROVE  PagesInv'
<1>1. PICK t, f, r : t = rows /\ f = frozen /\ r = reader'
  OBVIOUS
<1>2. RowsOK(t, inserting, issued) /\ FrozenOK(f)
  BY <1>1, PagesInvNow
<1>3. PICK bound : bound = Bound(kind)
  OBVIOUS
<1>4. /\ kind = "frozen" => f.pc = "stored"
      /\ r = [kind |-> kind, pc |-> "page", bound |-> bound, last |-> 0,
              joined |-> <<>>, begun |-> t]
      /\ rows' = rows /\ inserting' = inserting /\ issued' = issued /\ frozen' = frozen
  BY <1>1, <1>3 DEF FirstRequest
<1>5. r.kind = kind /\ r.pc = "page" /\ r.bound = bound /\ r.last = 0 /\ r.joined = <<>>
      /\ r.begun = t /\ DOMAIN r = {"kind", "pc", "bound", "last", "joined", "begun"}
  BY <1>4
<1>6. r.joined \in Seq(ItemSet) /\ DOMAIN r.joined = {}
  BY <1>5
<1>7. HeldInOrder(r)
  BY <1>5, <1>6 DEF HeldInOrder
<1>8. KeysOf(r.joined) = {}
  BY <1>6 DEF KeysOf
<1>9. CASE kind = "live"
  <2>1. bound = Watermark
    BY <1>3, <1>9 DEF Bound
  <2>2. bound \in [Tables -> Nat] /\ \A of \in Tables : \A k \in DOMAIN t[of] : t[of][k].id <= bound[of]
    BY <1>1, <2>1, WatermarkBoundsIds
  <2>3. DOMAIN t = Tables /\ Follows(t, t)
    BY <1>2 DEF RowsOK, Follows
  <2>4. ASSUME NEW of \in Tables, NEW k \in DOMAIN t[of]
        PROVE  /\ k \in PageKeys /\ t[of][k] \in RowSet
               /\ t[of][k].id \in 1..bound[of] /\ t[of][k].version \in 1..2
    <3>1. /\ k \in PageKeys /\ t[of][k] \in RowSet
          /\ t[of][k].id \in 1..issued[of] /\ t[of][k].version \in 1..2 /\ issued[of] \in Nat
      BY <1>2 DEF RowsOK
    <3>2. t[of][k].id <= bound[of] /\ bound[of] \in Nat
      BY <2>2
    <3> QED
      BY <3>1, <3>2
  <2>5. \A k \in DOMAIN t["price"] : k > 0
    <3>1. "price" \in Tables
      BY DEF Tables
    <3> QED
      BY <2>4, <3>1, KeysAreNumbers
  <2>6. LiveHolds(r, t)
    BY <1>5, <1>6, <2>2, <2>3, <2>4, <2>5 DEF LiveHolds
  <2>7. ReaderOK(r, t, f)
    BY <1>5, <1>7, <1>9, <2>6 DEF ReaderOK
  <2> QED
    BY <1>1, <1>4, <2>7, ReaderStepKeeps
<1>10. CASE kind = "frozen"
  <2>1. f.pc = "stored" /\ bound = f.rsRun
    BY <1>1, <1>3, <1>4, <1>10 DEF Bound
  <2>2. f.rsRun \in Nat /\ f.members \subseteq PageKeys
    BY <1>2, <2>1 DEF FrozenOK, NotFrozen
  <2>3. \A k \in f.members : ~ (k <= 0)
    BY <2>2, KeysAreNumbers
  <2>4. {k \in f.members : r.pc = "done" \/ k <= r.last} = {}
    BY <1>5, <2>3
  <2>5. FrozenHolds(r, f)
    BY <1>5, <1>6, <1>8, <2>1, <2>2, <2>4 DEF FrozenHolds
  <2>6. ReaderOK(r, t, f)
    BY <1>5, <1>7, <1>10, <2>5 DEF ReaderOK
  <2> QED
    BY <1>1, <1>4, <2>6, ReaderStepKeeps
<1> QED
  BY <1>9, <1>10

\* The next page is granted while the bound is the cursor's.
LEMMA NextRequestKeeps ==
  ASSUME PagesInv, NextRequest
  PROVE  PagesInv'
<1>1. PICK t, f, old, r : t = rows /\ f = frozen /\ old = reader /\ r = reader'
  OBVIOUS
<1>2. RowsOK(t, inserting, issued) /\ FrozenOK(f) /\ ReaderOK(old, t, f)
  BY <1>1, PagesInvNow
<1>3. old.pc = "check" /\ rows' = rows /\ inserting' = inserting /\ issued' = issued
      /\ frozen' = frozen
  BY <1>1 DEF NextRequest
<1>4. \/ r = NotRead
      \/ /\ old.bound = Bound(old.kind)
         /\ r = [old EXCEPT !.pc = "page"]
  BY <1>1 DEF NextRequest
<1>5. CASE r = NotRead
  <2>1. ReaderOK(r, t, f)
    BY <1>5 DEF ReaderOK
  <2> QED
    BY <1>1, <1>3, <2>1, ReaderStepKeeps
<1>6. CASE /\ old.bound = Bound(old.kind)
           /\ r = [old EXCEPT !.pc = "page"]
  <2>1. HeldInOrder(old) /\ old # NotRead
    BY <1>2, <1>3 DEF ReaderOK, NotRead
  <2>2. /\ DOMAIN r = {"kind", "pc", "bound", "last", "joined", "begun"}
        /\ r.pc = "page" /\ r.kind = old.kind /\ r.bound = old.bound /\ r.last = old.last
        /\ r.joined = old.joined /\ r.begun = old.begun
    BY <1>6, <2>1 DEF HeldInOrder
  <2>3. HeldInOrder(r)
    BY <2>1, <2>2 DEF HeldInOrder
  <2>4. CASE old.kind = "live" /\ LiveHolds(old, t)
    <3>1. LiveHolds(r, t)
      BY <2>2, <2>4 DEF LiveHolds
    <3>2. ReaderOK(r, t, f)
      BY <2>2, <2>3, <2>4, <3>1 DEF ReaderOK
    <3> QED
      BY <1>1, <1>3, <3>2, ReaderStepKeeps
  <2>5. CASE old.kind = "frozen" /\ FrozenHolds(old, f)
    <3>1. old.bound = f.rsRun
      BY <1>1, <1>6, <2>5 DEF Bound
    <3>2. \A n \in old.bound..f.rsRun : n = old.bound
      BY <2>5, <3>1 DEF FrozenHolds
    <3>3. FrozenHolds(r, f)
      BY <1>3, <2>2, <2>5, <3>2 DEF FrozenHolds
    <3>4. ReaderOK(r, t, f)
      BY <2>2, <2>3, <2>5, <3>3 DEF ReaderOK
    <3> QED
      BY <1>1, <1>3, <3>4, ReaderStepKeeps
  <2> QED
    BY <1>2, <2>1, <2>4, <2>5 DEF ReaderOK
<1> QED
  BY <1>4, <1>5, <1>6

\* The client is done, and another begins.
LEMMA NewClientKeeps ==
  ASSUME PagesInv, NewClient
  PROVE  PagesInv'
<1>1. PICK t, f, r : t = rows /\ f = frozen /\ r = reader'
  OBVIOUS
<1>2. r = NotRead /\ rows' = rows /\ inserting' = inserting /\ issued' = issued /\ frozen' = frozen
  BY <1>1 DEF NewClient
<1>3. ReaderOK(r, t, f)
  BY <1>2 DEF ReaderOK
<1> QED
  BY <1>1, <1>2, <1>3, ReaderStepKeeps

\* One item more: the others stay where they are.
LEMMA AppendItem ==
  ASSUME NEW joined \in Seq(ItemSet), NEW item \in ItemSet
  PROVE  /\ Append(joined, item) \in Seq(ItemSet)
         /\ Len(joined) \in Nat /\ Len(Append(joined, item)) = Len(joined) + 1
         /\ DOMAIN joined = 1..Len(joined)
         /\ DOMAIN Append(joined, item) = 1..(Len(joined) + 1)
         /\ \A i \in 1..Len(joined) : Append(joined, item)[i] = joined[i]
         /\ Append(joined, item)[Len(joined) + 1] = item
<1>1. /\ Append(joined, item) \in Seq(ItemSet)
      /\ Len(Append(joined, item)) = Len(joined) + 1
      /\ \A i \in 1..Len(joined) : Append(joined, item)[i] = joined[i]
      /\ Append(joined, item)[Len(joined) + 1] = item
  BY AppendProperties
<1>2. Len(joined) \in Nat /\ DOMAIN joined = 1..Len(joined)
  OBVIOUS
<1>3. DOMAIN Append(joined, item) = 1..Len(Append(joined, item))
  BY <1>1
<1> QED
  BY <1>1, <1>2, <1>3

\* The reader once it has read an item, and what a page may still bring.
PageRead(old, item, pc) ==
  [old EXCEPT !.pc = pc, !.last = item.key, !.joined = Append(old.joined, item)]

LiveLeft(old, t) ==
  {k \in DOMAIN t["price"] : k > old.last /\ t["price"][k].id <= old.bound["price"]}
LiveItem(k, old, t) ==
  [key |-> k, price |-> t["price"][k],
   rs |-> IF k \in DOMAIN t["score"] /\ t["score"][k].id <= old.bound["score"]
          THEN t["score"][k] ELSE NoRow]

FrozenLeft(old, f) == {k \in f.members : k > old.last}
FrozenItem(k, f) ==
  [key |-> k, price |-> CopyIn(k, f), rs |-> [id |-> f.rsRun, version |-> 1]]

\* What the client holds once it has read an item.
HoldsMore(old, item, pc, r) ==
  /\ HeldInOrder(r)
  /\ r.kind = old.kind /\ r.pc = pc /\ r.bound = old.bound /\ r.last = item.key
  /\ r.begun = old.begun /\ r.joined = Append(old.joined, item)
  /\ KeysOf(r.joined) = KeysOf(old.joined) \cup {item.key}

\* A page whose row lies beyond the cursor keeps what the client holds in order.
LEMMA PageInOrder ==
  ASSUME NEW old, HeldInOrder(old), NEW item \in ItemSet, item.key \in Nat, item.key > old.last,
         NEW pc \in {"check", "done"}, NEW r, r = PageRead(old, item, pc)
  PROVE  HoldsMore(old, item, pc, r)
<1>1. PICK joined, more : joined = old.joined /\ more = Append(joined, item)
  OBVIOUS
<1>2. /\ DOMAIN old = {"kind", "pc", "bound", "last", "joined", "begun"}
      /\ old.last \in Nat /\ joined \in Seq(ItemSet)
  BY <1>1 DEF HeldInOrder
<1>3. /\ DOMAIN r = {"kind", "pc", "bound", "last", "joined", "begun"}
      /\ r.kind = old.kind /\ r.pc = pc /\ r.bound = old.bound /\ r.last = item.key
      /\ r.begun = old.begun /\ r.joined = more
  BY <1>1, <1>2 DEF PageRead
<1>4. PICK n \in Nat :
      /\ n = Len(joined) /\ DOMAIN joined = 1..n /\ DOMAIN more = 1..(n + 1)
      /\ more \in Seq(ItemSet)
      /\ \A i \in 1..n : more[i] = joined[i]
      /\ more[n + 1] = item
  BY <1>1, <1>2, AppendItem
<1>5. \A i \in 1..n : joined[i] \in ItemSet
  BY <1>2, <1>4
<1>6. \A i \in 1..n : joined[i].key \in Nat /\ joined[i].key <= old.last
  <2> TAKE i \in 1..n
  <2>1. joined[i].key \in PageKeys
    BY <1>5 DEF ItemSet
  <2> QED
    BY <1>1, <1>4, <2>1, KeysAreNumbers DEF HeldInOrder
<1>7. \A i \in 1..n : more[i].key < item.key
  BY <1>2, <1>4, <1>6
<1>8. ASSUME NEW i \in 1..(n + 1), NEW j \in 1..(n + 1), i < j PROVE more[i].key < more[j].key
  <2>1. i \in 1..n
    BY <1>8
  <2>2. CASE j = n + 1
    BY <1>4, <1>7, <2>1, <2>2
  <2>3. CASE j # n + 1
    <3>1. j \in 1..n
      BY <2>3
    <3> QED
      BY <1>1, <1>4, <1>8, <2>1, <3>1 DEF HeldInOrder
  <2> QED
    BY <2>2, <2>3
<1>9. \A i \in 1..(n + 1) : more[i].key <= item.key
  <2> TAKE i \in 1..(n + 1)
  <2>1. CASE i = n + 1
    BY <1>4, <2>1
  <2>2. CASE i # n + 1
    <3>1. i \in 1..n
      BY <2>2
    <3> QED
      BY <1>4, <1>6, <1>7, <3>1
  <2> QED
    BY <2>1, <2>2
<1>10. HeldInOrder(r)
  BY <1>3, <1>4, <1>8, <1>9 DEF HeldInOrder
<1>11. KeysOf(more) = KeysOf(joined) \cup {item.key}
  <2>1. \A i \in 1..(n + 1) : i \in 1..n \/ i = n + 1
    OBVIOUS
  <2>2. n + 1 \in 1..(n + 1) /\ \A i \in 1..n : i \in 1..(n + 1)
    OBVIOUS
  <2> QED
    BY <1>4, <2>1, <2>2 DEF KeysOf
<1> QED
  BY <1>1, <1>3, <1>10, <1>11 DEF HoldsMore

\* A page of a live read.
LEMMA LivePageHolds ==
  ASSUME NEW old, NEW t, NEW open, NEW top, RowsOK(t, open, top),
         HeldInOrder(old), LiveHolds(old, t), old.pc = "page",
         NEW left, left = LiveLeft(old, t), NEW k \in left, \A j \in left : k <= j,
         NEW item, item = LiveItem(k, old, t),
         NEW pc \in {"check", "done"}, pc = "done" => left = {k},
         NEW r, r = PageRead(old, item, pc)
  PROVE  HeldInOrder(r) /\ r.kind = old.kind /\ LiveHolds(r, t)
<1>1. "price" \in Tables /\ "score" \in Tables
  BY DEF Tables
<1>2. k \in DOMAIN t["price"] /\ k > old.last /\ t["price"][k].id <= old.bound["price"]
  BY DEF LiveLeft
<1>3. k \in PageKeys /\ t["price"][k] \in RowSet /\ k \in Nat
  BY <1>1, <1>2, KeysAreNumbers DEF RowsOK
<1>4. NoRow \in RowSet /\ NoRow.id = 0
  BY DEF NoRow, RowSet
<1>5. item.key = k /\ item.price = t["price"][k]
  BY DEF LiveItem
<1>6. \/ /\ item.rs = t["score"][k] /\ k \in DOMAIN t["score"]
         /\ t["score"][k].id <= old.bound["score"]
      \/ /\ item.rs = NoRow
         /\ ~ (k \in DOMAIN t["score"] /\ t["score"][k].id <= old.bound["score"])
  BY DEF LiveItem
<1>7. item.rs \in RowSet
  BY <1>1, <1>4, <1>6 DEF RowsOK
<1>8. item \in ItemSet
  <2>1. PICK rs : rs = item.rs
    OBVIOUS
  <2>2. item = [key |-> k, price |-> t["price"][k], rs |-> rs]
    BY <2>1 DEF LiveItem
  <2>3. rs \in RowSet
    BY <1>7, <2>1
  <2> QED
    BY <1>3, <2>2, <2>3 DEF ItemSet
<1>9. /\ HeldInOrder(r)
      /\ r.kind = old.kind /\ r.pc = pc /\ r.bound = old.bound /\ r.last = k
      /\ r.begun = old.begun /\ r.joined = Append(old.joined, item)
      /\ KeysOf(r.joined) = KeysOf(old.joined) \cup {k}
  <2>2. item.key \in Nat /\ item.key > old.last
    BY <1>2, <1>3, <1>5
  <2>3. HoldsMore(old, item, pc, r)
    BY <1>8, <2>2, PageInOrder
  <2> QED
    BY <1>5, <2>3 DEF HoldsMore
<1>10. /\ old.bound \in [Tables -> Nat] /\ DOMAIN old.begun = Tables
       /\ \A of \in Tables : \A j \in DOMAIN old.begun[of] :
            /\ j \in PageKeys /\ old.begun[of][j] \in RowSet
            /\ old.begun[of][j].id \in 1..old.bound[of] /\ old.begun[of][j].version \in 1..2
       /\ Follows(t, old.begun)
  BY DEF LiveHolds
<1>11. ASSUME NEW j \in DOMAIN old.begun["price"]
       PROVE  j \in KeysOf(r.joined) \/ (r.pc # "done" /\ j > r.last)
  <2>1. CASE j \in KeysOf(old.joined)
    BY <1>9, <2>1
  <2>2. CASE j \notin KeysOf(old.joined)
    <3>1. j > old.last
      BY <1>11, <2>2 DEF LiveHolds
    <3>2. j \in DOMAIN t["price"] /\ t["price"][j].id = old.begun["price"][j].id
      BY <1>1, <1>10, <1>11 DEF Follows
    <3>3. old.begun["price"][j].id <= old.bound["price"]
      BY <1>1, <1>10, <1>11
    <3>4. j \in left
      BY <3>1, <3>2, <3>3 DEF LiveLeft
    <3>5. j \in Nat /\ k <= j
      BY <1>1, <1>10, <1>11, <3>4, KeysAreNumbers
    <3>6. CASE j = k
      BY <1>9, <3>6
    <3>7. CASE j # k
      <4>1. pc # "done" /\ j > k
        BY <1>3, <3>4, <3>5, <3>7
      <4> QED
        BY <1>9, <4>1
    <3> QED
      BY <3>6, <3>7
  <2> QED
    BY <2>1, <2>2
<1>12. ItemHolds(item, old.bound, old.begun)
  <2>1. item.rs.id <= old.bound["score"]
    <3>1. old.bound["score"] \in Nat
      BY <1>1, <1>10
    <3> QED
      BY <1>4, <1>6, <3>1
  <2>2. ASSUME k \in DOMAIN old.begun["price"]
        PROVE  old.begun["price"][k].version \in 1..item.price.version
    <3>1. old.begun["price"][k].version \in 1..2
      BY <1>1, <1>10, <2>2
    <3>2. old.begun["price"][k].version <= t["price"][k].version
      BY <1>1, <1>10, <2>2 DEF Follows
    <3>3. t["price"][k].version \in 1..2
      BY <1>1, <1>2 DEF RowsOK
    <3> QED
      BY <1>5, <3>1, <3>2, <3>3
  <2>3. ASSUME k \in DOMAIN old.begun["score"] PROVE item.rs # NoRow
    <3>1. old.begun["score"][k].id \in 1..old.bound["score"] /\ old.bound["score"] \in Nat
      BY <1>1, <1>10, <2>3
    <3>2. k \in DOMAIN t["score"] /\ t["score"][k].id = old.begun["score"][k].id
      BY <1>1, <1>10, <2>3 DEF Follows
    <3>3. item.rs = t["score"][k]
      BY <1>6, <3>1, <3>2
    <3>4. item.rs.id # 0
      BY <3>1, <3>2, <3>3
    <3> QED
      BY <1>4, <3>4
  <2> QED
    BY <1>2, <1>5, <2>1, <2>2, <2>3 DEF ItemHolds
<1>13. \A i \in DOMAIN r.joined : ItemHolds(r.joined[i], r.bound, r.begun)
  <2>1. old.joined \in Seq(ItemSet)
    BY DEF HeldInOrder
  <2>2. PICK n \in Nat :
          /\ DOMAIN old.joined = 1..n /\ DOMAIN r.joined = 1..(n + 1)
          /\ \A i \in 1..n : r.joined[i] = old.joined[i]
          /\ r.joined[n + 1] = item
    <3>1. PICK joined, more : joined = old.joined /\ more = Append(joined, item)
      OBVIOUS
    <3>2. /\ Len(joined) \in Nat /\ DOMAIN joined = 1..Len(joined)
          /\ DOMAIN more = 1..(Len(joined) + 1)
          /\ \A i \in 1..Len(joined) : more[i] = joined[i]
          /\ more[Len(joined) + 1] = item
      BY <1>8, <2>1, <3>1, AppendItem
    <3> QED
      BY <1>9, <3>1, <3>2
  <2>3. \A i \in 1..(n + 1) : i \in 1..n \/ i = n + 1
    OBVIOUS
  <2>4. \A i \in 1..n : ItemHolds(old.joined[i], old.bound, old.begun)
    BY <2>2 DEF LiveHolds
  <2>5. \A i \in 1..(n + 1) : ItemHolds(r.joined[i], old.bound, old.begun)
    BY <1>12, <2>2, <2>3, <2>4
  <2> QED
    BY <1>9, <2>2, <2>5
<1>14. LiveHolds(r, t)
  BY <1>9, <1>10, <1>11, <1>13 DEF LiveHolds
<1> QED
  BY <1>9, <1>14

\* A page of the memberships.
LEMMA FrozenPageHolds ==
  ASSUME NEW old, NEW f, FrozenOK(f),
         HeldInOrder(old), FrozenHolds(old, f), old.pc = "page",
         NEW left, left = FrozenLeft(old, f), NEW k \in left, \A j \in left : k <= j,
         NEW item, item = FrozenItem(k, f),
         NEW pc \in {"check", "done"}, pc = "done" => left = {k},
         NEW r, r = PageRead(old, item, pc)
  PROVE  HeldInOrder(r) /\ r.kind = old.kind /\ FrozenHolds(r, f)
<1>1. f.pc = "stored" /\ old.bound \in Nat /\ old.bound <= f.rsRun
  BY DEF FrozenHolds
<1>2. /\ f.rsRun \in Nat /\ f.members \subseteq PageKeys
      /\ \A j \in DOMAIN f.copies : f.copies[j] \in RowSet
  BY <1>1 DEF FrozenOK, NotFrozen
<1>3. k \in f.members /\ k > old.last /\ k \in PageKeys /\ k \in Nat
  BY <1>2, KeysAreNumbers DEF FrozenLeft
<1>13. PICK price : price = CopyIn(k, f)
  OBVIOUS
<1>14. price \in RowSet
  <2>1. NoRow \in RowSet
    BY DEF NoRow, RowSet
  <2> QED
    BY <1>2, <1>13, <2>1 DEF CopyIn
<1>4. PICK rs : rs = [id |-> f.rsRun, version |-> 1]
  OBVIOUS
<1>5. rs \in RowSet /\ rs.id = f.rsRun
  BY <1>2, <1>4 DEF RowSet
<1>6. item = [key |-> k, price |-> price, rs |-> rs]
  BY <1>4, <1>13 DEF FrozenItem
<1>7. item \in ItemSet /\ item.key = k /\ item.price = price /\ item.rs = rs
  BY <1>3, <1>5, <1>6, <1>14 DEF ItemSet
<1>8. /\ HeldInOrder(r)
      /\ r.kind = old.kind /\ r.pc = pc /\ r.bound = old.bound /\ r.last = k
      /\ r.begun = old.begun /\ r.joined = Append(old.joined, item)
      /\ KeysOf(r.joined) = KeysOf(old.joined) \cup {k}
  <2>2. item.key \in Nat /\ item.key > old.last
    BY <1>3, <1>7
  <2>3. HoldsMore(old, item, pc, r)
    BY <1>7, <2>2, PageInOrder
  <2> QED
    BY <1>7, <2>3 DEF HoldsMore
<1>9. KeysOf(r.joined) = {j \in f.members : r.pc = "done" \/ j <= r.last}
  <2>1. KeysOf(old.joined) = {j \in f.members : j <= old.last}
    BY DEF FrozenHolds
  <2>2. old.last \in Nat
    BY DEF HeldInOrder
  <2>3. ASSUME NEW j \in f.members
        PROVE  (j <= old.last \/ j = k) <=> (pc = "done" \/ j <= k)
    <3>1. j \in Nat
      BY <1>2, KeysAreNumbers
    <3>2. CASE j <= old.last
      BY <1>3, <2>2, <3>1, <3>2
    <3>3. CASE ~ (j <= old.last)
      <4>1. j \in left
        BY <2>2, <3>1, <3>3 DEF FrozenLeft
      <4>2. k <= j /\ (pc = "done" => j = k)
        BY <4>1
      <4> QED
        BY <1>3, <3>1, <3>3, <4>2
    <3> QED
      BY <3>2, <3>3
  <2>4. \A j : j \in KeysOf(r.joined) <=> (j \in f.members /\ (j <= old.last \/ j = k))
    BY <1>3, <1>8, <2>1
  <2>5. \A j : j \in KeysOf(r.joined) <=> (j \in f.members /\ (pc = "done" \/ j <= k))
    BY <2>3, <2>4
  <2> QED
    BY <1>8, <2>5
<1>10. PICK n \in Nat :
         /\ n = Len(old.joined) /\ DOMAIN old.joined = 1..n
         /\ Len(r.joined) = n + 1 /\ DOMAIN r.joined = 1..(n + 1)
         /\ \A i \in 1..n : r.joined[i] = old.joined[i]
         /\ r.joined[n + 1] = item
  <2>1. old.joined \in Seq(ItemSet)
    BY DEF HeldInOrder
  <2> QED
    <3>1. PICK joined, more : joined = old.joined /\ more = Append(joined, item)
      OBVIOUS
    <3>2. /\ Len(joined) \in Nat /\ DOMAIN joined = 1..Len(joined)
          /\ Len(more) = Len(joined) + 1 /\ DOMAIN more = 1..(Len(joined) + 1)
          /\ \A i \in 1..Len(joined) : more[i] = joined[i]
          /\ more[Len(joined) + 1] = item
      BY <1>7, <2>1, <3>1, AppendItem
    <3> QED
      BY <1>8, <3>1, <3>2
<1>11. ASSUME NEW i \in 1..(n + 1)
       PROVE  /\ r.joined[i].price = CopyIn(r.joined[i].key, f)
              /\ r.joined[i].rs.id \in old.bound..f.rsRun
              /\ i < n + 1 => r.joined[i].rs.id = old.bound
  <2>1. CASE i = n + 1
    BY <1>1, <1>2, <1>5, <1>7, <1>10, <1>13, <2>1, SMTT(30)
  <2>2. CASE i # n + 1
    <3>1. i \in 1..n
      BY <2>2
    <3> QED
      BY <1>10, <3>1 DEF FrozenHolds
  <2> QED
    BY <2>1, <2>2
<1>12. FrozenHolds(r, f)
  BY <1>1, <1>8, <1>9, <1>10, <1>11 DEF FrozenHolds
<1> QED
  BY <1>8, <1>12

\* The next page is read, or there is none.
LEMMA ReadPageKeeps ==
  ASSUME PagesInv, ReadPage
  PROVE  PagesInv'
<1>1. PICK t, f, old, r : t = rows /\ f = frozen /\ old = reader /\ r = reader'
  OBVIOUS
<1>2. RowsOK(t, inserting, issued) /\ FrozenOK(f) /\ ReaderOK(old, t, f)
  BY <1>1, PagesInvNow
<1>3. old.pc = "page" /\ rows' = rows /\ inserting' = inserting /\ issued' = issued
      /\ frozen' = frozen
  BY <1>1 DEF ReadPage
<1>4. HeldInOrder(old) /\ old # NotRead
  BY <1>2, <1>3 DEF ReaderOK, NotRead
<1>5. \/ old.kind = "live" /\ LiveHolds(old, t)
      \/ old.kind = "frozen" /\ FrozenHolds(old, f)
  BY <1>2, <1>4 DEF ReaderOK
<1>6. PICK left : left = Wanted(old.last)
  OBVIOUS
<1>7. /\ old.kind = "live" =>
           left = {k \in DOMAIN t["price"] :
                     k > old.last /\ t["price"][k].id <= old.bound["price"]}
      /\ old.kind = "frozen" => left = {k \in f.members : k > old.last}
  BY <1>1, <1>6 DEF Wanted, MembersAfter
<1>8. left \in SUBSET Nat
  <2>1. CASE old.kind = "live"
    <3>1. \A k \in DOMAIN t["price"] : k \in PageKeys
      BY <1>2 DEF RowsOK, Tables
    <3> QED
      BY <1>7, <2>1, <3>1, KeysAreNumbers
  <2>2. CASE old.kind = "frozen"
    <3>1. f.pc = "stored"
      BY <1>5, <2>2 DEF FrozenHolds
    <3>2. \A k \in f.members : k \in PageKeys
      BY <1>2, <3>1 DEF FrozenOK, NotFrozen
    <3> QED
      BY <1>7, <2>2, <3>2, KeysAreNumbers
  <2> QED
    BY <1>5, <2>1, <2>2
<1>9. CASE left = {}
  <2>1. r = [old EXCEPT !.pc = "done"]
    BY <1>1, <1>6, <1>9 DEF ReadPage
  <2>2. /\ DOMAIN r = {"kind", "pc", "bound", "last", "joined", "begun"}
        /\ r.pc = "done" /\ r.kind = old.kind /\ r.bound = old.bound /\ r.last = old.last
        /\ r.joined = old.joined /\ r.begun = old.begun
    BY <1>4, <2>1 DEF HeldInOrder
  <2>3. HeldInOrder(r)
    BY <1>4, <2>2 DEF HeldInOrder
  <2>4. ASSUME old.kind = "live" /\ LiveHolds(old, t) PROVE ReaderOK(r, t, f)
    <3>1. ASSUME NEW j \in DOMAIN old.begun["price"] PROVE j \in KeysOf(old.joined)
      <4>1. "price" \in Tables
        BY DEF Tables
      <4>2. j \in DOMAIN t["price"] /\ t["price"][j].id = old.begun["price"][j].id
        BY <2>4, <3>1, <4>1 DEF LiveHolds, Follows
      <4>3. old.begun["price"][j].id <= old.bound["price"]
        BY <2>4, <3>1, <4>1 DEF LiveHolds
      <4>4. ~ (j > old.last)
        BY <1>7, <1>9, <2>4, <4>2, <4>3
      <4> QED
        BY <2>4, <3>1, <4>4 DEF LiveHolds
    <3>2. LiveHolds(r, t)
      BY <2>2, <2>4, <3>1 DEF LiveHolds
    <3> QED
      BY <2>2, <2>3, <2>4, <3>2 DEF ReaderOK
  <2>5. ASSUME old.kind = "frozen" /\ FrozenHolds(old, f) PROVE ReaderOK(r, t, f)
    <3>1. f.pc = "stored" /\ old.last \in Nat
      BY <1>4, <2>5 DEF FrozenHolds, HeldInOrder
    <3>2. \A k \in f.members : k \in Nat
      BY <1>2, <3>1, KeysAreNumbers DEF FrozenOK, NotFrozen
    <3>3. \A k \in f.members : k <= old.last
      BY <1>7, <1>9, <2>5, <3>1, <3>2
    <3>4. KeysOf(r.joined) = {k \in f.members : r.pc = "done" \/ k <= r.last}
      BY <1>3, <2>2, <2>5, <3>3 DEF FrozenHolds
    <3>5. \A i \in DOMAIN r.joined :
            /\ r.joined[i].price = CopyIn(r.joined[i].key, f)
            /\ r.joined[i].rs.id \in r.bound..f.rsRun
            /\ r.joined[i].rs.id = r.bound
      BY <1>3, <2>2, <2>5 DEF FrozenHolds
    <3>6. FrozenHolds(r, f)
      BY <2>2, <2>5, <3>4, <3>5 DEF FrozenHolds
    <3> QED
      BY <2>2, <2>3, <2>5, <3>6 DEF ReaderOK
  <2>6. ReaderOK(r, t, f)
    BY <1>5, <2>4, <2>5
  <2> QED
    BY <1>1, <1>3, <2>6, ReaderStepKeeps
<1>10. CASE left # {}
  <2>1. PICK k \in left : k = Lowest(left) /\ \A j \in left : k <= j
    BY <1>8, <1>10, LowestIsFirst
  <2>2. PICK pc \in {"check", "done"} : pc = IF left = {k} THEN "done" ELSE "check"
    OBVIOUS
  <2>3. pc = "done" => left = {k}
    BY <2>2
  <2>4. PICK item : item = Item(k)
    OBVIOUS
  <2>5. r = [old EXCEPT !.pc = pc, !.last = k, !.joined = Append(old.joined, item)]
    BY <1>1, <1>6, <1>10, <2>1, <2>2, <2>4 DEF ReadPage, CursorAfter
  <2>9. item.key = k
    BY <2>4 DEF Item
  <2>10. r = PageRead(old, item, pc)
    BY <2>5, <2>9 DEF PageRead
  <2>6. ASSUME old.kind = "live" /\ LiveHolds(old, t) PROVE ReaderOK(r, t, f)
    <3>1. item = LiveItem(k, old, t)
      BY <1>1, <2>4, <2>6 DEF Item, LiveItem
    <3>2. left = LiveLeft(old, t)
      BY <1>7, <2>6 DEF LiveLeft
    <3>3. HeldInOrder(r) /\ r.kind = old.kind /\ LiveHolds(r, t)
      BY <1>2, <1>3, <1>4, <2>1, <2>3, <2>10, <2>6, <3>1, <3>2, LivePageHolds
    <3> QED
      BY <2>6, <3>3 DEF ReaderOK
  <2>7. ASSUME old.kind = "frozen" /\ FrozenHolds(old, f) PROVE ReaderOK(r, t, f)
    <3>1. item = FrozenItem(k, f)
      BY <1>1, <2>4, <2>7 DEF Item, FrozenItem, CopyOf, CopyIn
    <3>2. left = FrozenLeft(old, f)
      BY <1>7, <2>7 DEF FrozenLeft
    <3>3. HeldInOrder(r) /\ r.kind = old.kind /\ FrozenHolds(r, f)
      BY <1>2, <1>3, <1>4, <2>1, <2>3, <2>10, <2>7, <3>1, <3>2, FrozenPageHolds
    <3> QED
      BY <2>7, <3>3 DEF ReaderOK
  <2>8. ReaderOK(r, t, f)
    BY <1>5, <2>6, <2>7
  <2> QED
    BY <1>1, <1>3, <2>8, ReaderStepKeeps
<1> QED
  BY <1>9, <1>10

\* A client that has followed the cursors to the end has, once and in order,
\* every price there was when it began, none from beyond its watermark and none
\* older than it began with; of a materialised dataset its memberships, each with
\* the copy of its price, if one was made, and with the RS of the run its cursor
\* is bound to but for the last page: for every number of rows, ids and RS runs,
\* whatever is inserted, committed, replaced and published between the pages
\* (api/v1/endpoints/backtest.py:217, 393).
THEOREM PagesTheorem == PagesSpec => [](PagesTypeOK /\ JoinedPagesMissNothing)
<1>1. PagesInit => PagesInv
  BY PagesInvInit
<1>2. PagesInv /\ [PagesNext]_pagesVars => PagesInv'
  <2> SUFFICES ASSUME PagesInv, [PagesNext]_pagesVars PROVE PagesInv'
    OBVIOUS
  <2>1. CASE UNCHANGED pagesVars
    <3>1. /\ rows' = rows /\ inserting' = inserting /\ issued' = issued
          /\ frozen' = frozen /\ reader' = reader
      BY <2>1 DEF pagesVars
    <3> QED
      BY <3>1 DEF PagesInv
  <2>2. ASSUME NEW of \in Tables, NEW k \in PageKeys, InsertRow(of, k) PROVE PagesInv'
    BY <2>2, InsertKeeps
  <2>3. ASSUME NEW of \in Tables, NEW k \in PageKeys, ReplaceRow(of, k) PROVE PagesInv'
    BY <2>3, ReplaceKeeps
  <2>4. ASSUME NEW w \in inserting, CommitInsert(w) PROVE PagesInv'
    BY <2>4, CommitInsertKeeps
  <2>5. CASE \/ \E members \in Memberships : SummarisePrices(members)
             \/ CopyPrices \/ PublishRsRun \/ RetentionEnds
    BY <2>5, DatasetStepKeeps
  <2>6. ASSUME NEW kind \in {"live", "frozen"}, FirstRequest(kind) PROVE PagesInv'
    BY <2>6, FirstRequestKeeps
  <2>7. CASE NextRequest
    BY <2>7, NextRequestKeeps
  <2>8. CASE ReadPage
    BY <2>8, ReadPageKeeps
  <2>9. CASE NewClient
    BY <2>9, NewClientKeeps
  <2> QED
    BY <2>1, <2>2, <2>3, <2>4, <2>5, <2>6, <2>7, <2>8, <2>9 DEF PagesNext
<1>3. PagesInv => PagesTypeOK /\ JoinedPagesMissNothing
  BY PagesInvHolds
<1> QED
  BY <1>1, <1>2, <1>3, PTL DEF PagesSpec

-----------------------------------------------------------------------------
(***************************************************************************)
(* The RS step.  Ranks are counted: one is added to the number of stocks   *)
(* that come before; so is the order of a history's days.                  *)
(***************************************************************************)

\* Counting what comes before numbers a finite set from 1 on, without gaps.
Orders(R, S) ==
  /\ \A s \in S : <<s, s>> \notin R
  /\ \A s, t, u \in S : <<s, t>> \in R /\ <<t, u>> \in R => <<s, u>> \in R
  /\ \A s, t \in S : s # t => <<s, t>> \in R \/ <<t, s>> \in R

Before(R, S, s) == {t \in S : <<t, s>> \in R}

LEMMA PlacesGrow ==
  ASSUME NEW S, IsFiniteSet(S), NEW R, Orders(R, S),
         NEW s \in S, NEW t \in S, <<s, t>> \in R
  PROVE  Cardinality(Before(R, S, s)) < Cardinality(Before(R, S, t))
<1>1. PICK A, B : A = Before(R, S, s) /\ B = Before(R, S, t)
  OBVIOUS
<1>2. A \subseteq B /\ s \in B /\ s \notin A /\ B \subseteq S
  BY <1>1 DEF Before, Orders
<1>3. IsFiniteSet(B)
  BY <1>2, FS_Subset
<1>4. IsFiniteSet(A) /\ Cardinality(A) <= Cardinality(B) /\ Cardinality(A) # Cardinality(B)
  BY <1>2, <1>3, FS_Subset
<1>5. Cardinality(A) \in Nat /\ Cardinality(B) \in Nat
  BY <1>3, <1>4, FS_CardinalityType
<1>6. QED
  BY <1>1, <1>4, <1>5

IsPlacing(place, R, S) ==
  place = [s \in S |-> Cardinality(Before(R, S, s)) + 1]

IsRanking(place, R, S) ==
  /\ DOMAIN place = S /\ \A s \in S : place[s] \in 1..Cardinality(S)
  /\ \A s, t \in S : <<s, t>> \in R => place[s] < place[t]
  /\ \A s, t \in S : place[s] < place[t] => <<s, t>> \in R
  /\ \A i \in 1..Cardinality(S) : \E s \in S : place[s] = i

LEMMA PlacesAreRanks ==
  ASSUME NEW S, IsFiniteSet(S), NEW R, Orders(R, S), NEW place, IsPlacing(place, R, S)
  PROVE  IsRanking(place, R, S)
<1>1. PICK n \in Nat : n = Cardinality(S)
  BY FS_CardinalityType
<1>2. \A s \in S : place[s] \in 1..n
  <2> TAKE s \in S
  <2>1. Before(R, S, s) \subseteq S /\ s \notin Before(R, S, s)
    BY DEF Before, Orders
  <2>2. /\ IsFiniteSet(Before(R, S, s)) /\ Cardinality(Before(R, S, s)) <= n
        /\ Cardinality(Before(R, S, s)) # n
    BY <1>1, <2>1, FS_Subset
  <2>3. Cardinality(Before(R, S, s)) \in Nat
    BY <2>2, FS_CardinalityType
  <2>4. place[s] = Cardinality(Before(R, S, s)) + 1
    BY DEF IsPlacing
  <2>5. QED
    BY <2>2, <2>3, <2>4
<1>3. \A s, t \in S : <<s, t>> \in R => place[s] < place[t]
  <2> TAKE s, t \in S
  <2> HAVE <<s, t>> \in R
  <2>1. Cardinality(Before(R, S, s)) < Cardinality(Before(R, S, t))
    BY PlacesGrow
  <2>2. IsFiniteSet(Before(R, S, s)) /\ IsFiniteSet(Before(R, S, t))
    BY FS_Subset DEF Before
  <2>3. Cardinality(Before(R, S, s)) \in Nat /\ Cardinality(Before(R, S, t)) \in Nat
    BY <2>2, FS_CardinalityType
  <2>4. /\ place[s] = Cardinality(Before(R, S, s)) + 1
        /\ place[t] = Cardinality(Before(R, S, t)) + 1
    BY DEF IsPlacing
  <2>5. QED
    BY <2>1, <2>3, <2>4
<1>4. ASSUME NEW s \in S, NEW t \in S
      PROVE  /\ place[s] < place[t] => <<s, t>> \in R
             /\ place[s] = place[t] => s = t
  <2>1. place[s] \in Int /\ place[t] \in Int
    BY <1>2
  <2>2. s = t \/ <<s, t>> \in R \/ <<t, s>> \in R
    BY DEF Orders
  <2>3. (<<s, t>> \in R => place[s] < place[t]) /\ (<<t, s>> \in R => place[t] < place[s])
    BY <1>3
  <2>4. QED
    BY <2>1, <2>2, <2>3
<1>5. DOMAIN place = S /\ place \in [S -> 1..n]
  BY <1>2 DEF IsPlacing
<1>7. place \in Injection(S, 1..n)
  BY <1>4, <1>5 DEF Injection, IsInjective
<1>8. IsFiniteSet(1..n) /\ Cardinality(1..n) = n
  BY FS_Interval
<1>9. place \in Surjection(S, 1..n)
  BY <1>1, <1>7, <1>8, FS_Injection
<1>10. \A i \in 1..n : \E s \in S : place[s] = i
  BY <1>9 DEF Surjection
<1>11. QED
  BY <1>1, <1>2, <1>3, <1>4, <1>5, <1>10 DEF IsRanking

\* So a finite set of days has its i-th day, and a last one.
LEMMA DaysAreNumbered ==
  ASSUME NEW D \in SUBSET Nat, IsFiniteSet(D)
  PROVE  \A i \in 1..Cardinality(D) : \E d \in D : Cardinality({e \in D : e <= d}) = i
<1>1. PICK R : R = {p \in D \X D : p[1] < p[2]}
  OBVIOUS
<1>2. \A d, e \in D : <<d, e>> \in R <=> d < e
  BY <1>1
<1>3. Orders(R, D)
  BY <1>2 DEF Orders
<1>4. PICK place : IsPlacing(place, R, D)
  BY DEF IsPlacing
<1>5. TAKE i \in 1..Cardinality(D)
<1>6. PICK d \in D : place[d] = i
  <2>1. IsRanking(place, R, D)
    BY <1>3, <1>4, PlacesAreRanks
  <2>2. QED
    BY <1>5, <2>1 DEF IsRanking
<1>7. {e \in D : e <= d} = Before(R, D, d) \cup {d} /\ d \notin Before(R, D, d)
  <2>1. \A e \in D : e <= d <=> e < d \/ e = d
    OBVIOUS
  <2>2. \A e \in D : e \in Before(R, D, d) <=> e < d
    BY <1>2 DEF Before
  <2>3. Before(R, D, d) \subseteq D
    BY DEF Before
  <2>4. PICK B : B = Before(R, D, d)
    OBVIOUS
  <2>5. B \subseteq D /\ \A e \in D : e \in B <=> e < d
    BY <2>2, <2>3, <2>4
  <2>6. d \notin B /\ {e \in D : e <= d} = B \cup {d}
    <3>1. ~(d < d) /\ d <= d
      OBVIOUS
    <3>2. \A e : e \in {e1 \in D : e1 <= d} <=> e \in B \cup {d}
      BY <2>1, <2>5, <3>1
    <3>3. QED
      BY <2>5, <3>1, <3>2
  <2>7. QED
    BY <2>4, <2>6
<1>8. IsFiniteSet(Before(R, D, d))
  BY FS_Subset DEF Before
<1>9. Cardinality({e \in D : e <= d}) = Cardinality(Before(R, D, d)) + 1
  BY <1>7, <1>8, FS_AddElement
<1>10. place[d] = Cardinality(Before(R, D, d)) + 1
  BY <1>4 DEF IsPlacing
<1>11. QED
  BY <1>6, <1>9, <1>10

LEMMA LatestDay ==
  ASSUME NEW D \in SUBSET Nat, IsFiniteSet(D), D # {}
  PROVE  \E d \in D : \A e \in D : e <= d
<1>1. PICK n \in Nat : n = Cardinality(D)
  BY FS_CardinalityType
<1>2. n # 0
  BY <1>1, FS_EmptySet
<1>3. PICK d \in D : Cardinality({e \in D : e <= d}) = n
  BY <1>1, <1>2, DaysAreNumbered
<1>4. {e \in D : e <= d} = D
  BY <1>1, <1>3, FS_Subset
<1>5. QED
  BY <1>4

-----------------------------------------------------------------------------
\* Rows as the RS step reads them.
RsRow == [close : Nat \ {0}, volume : Nat]

IsHistory(h) ==
  IsFiniteSet(DOMAIN h) /\ DOMAIN h \subseteq Nat /\ \A d \in DOMAIN h : h[d] \in RsRow

LEMMA CleanRowsAreRows ==
  ASSUME NEW s, IsHistory(rsPrices[s]), rsFixed \subseteq RsFixes
  PROVE  CleanRows(s) \in Seq(RsRow)
<1>1. PICK h : h = rsPrices[s]
  OBVIOUS
<1>2. PICK days : days = {d \in DOMAIN rsPrices[s] :
                            ~\E f \in rsFixed : f.stock = s /\ f.day = d /\ f.close = 0}
  OBVIOUS
<1>3. days \subseteq DOMAIN h /\ days \subseteq Nat /\ IsFiniteSet(days)
  BY <1>1, <1>2, FS_Subset DEF IsHistory
<1>4. \A d \in days : CleanRow(s, d) \in RsRow
  <2> TAKE d \in days
  <2>1. PICK fixes : fixes = {f \in rsFixed : f.stock = s /\ f.day = d /\ f.close # 0}
    OBVIOUS
  <2>2. PICK close : close = (CHOOSE f \in fixes : TRUE).close
    OBVIOUS
  <2>3. fixes # {} => close \in Nat \ {0}
    BY <2>1, <2>2, RsAssumption
  <2>4. PICK row \in RsRow : row = h[d]
    BY <1>1, <1>3 DEF IsHistory
  <2>5. CleanRow(s, d) = IF fixes = {} THEN row ELSE [row EXCEPT !.close = close]
    BY <1>1, <2>1, <2>2, <2>4 DEF CleanRow
  <2>6. QED
    BY <2>3, <2>4, <2>5 DEF RsRow
<1>5. PICK n \in Nat : n = Cardinality(days)
  BY <1>3, FS_CardinalityType
<1>6. PICK nth : nth = [i \in 1..n |-> CHOOSE d \in days : Cardinality({e \in days : e <= d}) = i]
  OBVIOUS
<1>7. \A i \in 1..n : nth[i] \in days
  BY <1>3, <1>5, <1>6, DaysAreNumbered
<1>8. CleanRows(s) = [i \in 1..n |-> CleanRow(s, nth[i])]
  BY <1>2, <1>5, <1>6 DEF CleanRows
<1>9. CleanRows(s) \in [1..n -> RsRow]
  BY <1>4, <1>7, <1>8
<1>10. QED
  BY <1>9

\* No two days in a row differ by more than the price limit.
Quiet(read) == \A i \in 2..Len(read) : ~BreaksLimit(read[i - 1], read[i])

LEMMA WindowIsQuiet ==
  ASSUME NEW read \in Seq(RsRow)
  PROVE  /\ InputWindow(read) \in Seq(RsRow)
         /\ ~DetectAction(read) => Quiet(InputWindow(read))
<1>1. PICK n \in Nat : n = Len(read)
  OBVIOUS
<1>2. RsWindow \in Nat
  BY RsAssumption
<1>3. ASSUME ~DetectAction(read), NEW i \in 2..n, i > n - (RsWindow + 1)
      PROVE  ~BreaksLimit(read[i - 1], read[i])
  BY <1>1, <1>3 DEF DetectAction, PriceLimitBreach
<1>4. CASE n <= RsWindow + 2
  <2>1. InputWindow(read) = read
    BY <1>1, <1>4 DEF InputWindow
  <2>2. \A i \in 2..n : i > n - (RsWindow + 1)
    BY <1>2, <1>4
  <2>3. QED
    BY <1>1, <1>3, <2>1, <2>2 DEF Quiet
<1>5. CASE n > RsWindow + 2
  <2>1. PICK w : w = SubSeq(read, n - (RsWindow + 1), n)
    OBVIOUS
  <2>2. InputWindow(read) = w
    BY <1>1, <1>2, <1>5, <2>1 DEF InputWindow
  <2>3. n - (RsWindow + 1) \in 1..n
    BY <1>2, <1>5
  <2>4. /\ w \in Seq(RsRow) /\ Len(w) = RsWindow + 2
        /\ \A i \in 1..(RsWindow + 2) : w[i] = read[n - (RsWindow + 1) + i - 1]
    BY <1>1, <1>2, <2>1, <2>3, SubSeqProperties
  <2>5. ASSUME ~DetectAction(read), NEW i \in 2..Len(w) PROVE ~BreaksLimit(w[i - 1], w[i])
    <3>1. PICK k : k = n - (RsWindow + 1) + i - 1
      OBVIOUS
    <3>2. Len(w) = RsWindow + 2 /\ i \in 2..(RsWindow + 2)
      BY <2>4
    <3>3. k \in 2..n /\ k > n - (RsWindow + 1) /\ k - 1 = n - (RsWindow + 1) + (i - 1) - 1
      BY <1>2, <1>5, <3>1, <3>2
    <3>4. w[i] = read[k] /\ w[i - 1] = read[k - 1]
      <4>1. i \in 1..(RsWindow + 2) /\ i - 1 \in 1..(RsWindow + 2)
        BY <1>2, <3>2
      <4>2. QED
        BY <2>4, <3>1, <3>3, <4>1
    <3>5. QED
      BY <1>3, <2>5, <3>3, <3>4
  <2>6. QED
    BY <2>2, <2>4, <2>5 DEF Quiet
<1>6. QED
  BY <1>1, <1>2, <1>4, <1>5

-----------------------------------------------------------------------------
\* Ratings: rounding keeps the order, and stays within 1..99.
LEMMA DivisionOrder ==
  ASSUME NEW d \in Nat \ {0}, NEW q1 \in Int, NEW r1 \in 0..(d - 1),
         NEW q2 \in Int, NEW r2 \in 0..(d - 1), q1 * d + r1 <= q2 * d + r2
  PROVE  q1 <= q2 /\ (q1 = q2 => r1 <= r2)
<1>1. ASSUME q1 > q2 PROVE FALSE
  <2>1. PICK k \in Nat : q1 = q2 + 1 + k
    BY <1>1
  <2>2. k * d >= 0
    OBVIOUS
  <2>3. q1 * d = q2 * d + d + k * d
    BY <2>1
  <2>4. QED
    BY <2>2, <2>3
<1>2. QED
  BY <1>1

LEMMA DivisionIs ==
  ASSUME NEW x \in Nat, NEW d \in Nat \ {0}
  PROVE  \E q \in Nat, r \in 0..(d - 1) : q = x \div d /\ r = x % d /\ x = q * d + r
OBVIOUS

Rounded(q, r, d) == IF 2 * r > d \/ (2 * r = d /\ q % 2 = 1) THEN q + 1 ELSE q

LEMMA RatingIsRounded ==
  ASSUME NEW total \in Nat, NEW d \in Nat \ {0}, d = total - 1, NEW rank \in 1..total
  PROVE  \E q \in Nat, r \in 0..(d - 1) :
           98 * (total - rank) = q * d + r /\ RatingForRank(rank, total) = 1 + Rounded(q, r, d)
<1>1. total > 1 /\ total - 1 = d
  OBVIOUS
<1>2. PICK x \in Nat : x = 98 * (total - rank)
  OBVIOUS
<1>3. PICK q \in Nat, r \in 0..(d - 1) : q = x \div d /\ r = x % d /\ x = q * d + r
  BY DivisionIs, Zenon
<1>4. RatingForRank(rank, total) = 1 + Rounded(q, r, d)
  BY <1>1, <1>2, <1>3 DEF RatingForRank, Rounded
<1>5. QED
  BY <1>2, <1>3, <1>4

LEMMA RatingsFall ==
  ASSUME NEW total \in Nat, NEW i \in 1..total, NEW j \in 1..total, i <= j
  PROVE  /\ RatingForRank(i, total) \in 1..99
         /\ RatingForRank(i, total) >= RatingForRank(j, total)
<1>1. CASE total <= 1
  BY <1>1 DEF RatingForRank
<1>2. CASE total > 1
  <2>1. PICK d \in Nat \ {0} : d = total - 1
    BY <1>2
  <2>2. \A k \in 1..total : \E q \in Nat, r \in 0..(d - 1) :
          98 * (total - k) = q * d + r /\ RatingForRank(k, total) = 1 + Rounded(q, r, d)
    BY <2>1, RatingIsRounded, Zenon
  <2>3. PICK q1 \in Nat, r1 \in 0..(d - 1) :
          98 * (total - i) = q1 * d + r1 /\ RatingForRank(i, total) = 1 + Rounded(q1, r1, d)
    BY ONLY <2>2, i \in 1..total, Zenon
  <2>4. PICK q2 \in Nat, r2 \in 0..(d - 1) :
          98 * (total - j) = q2 * d + r2 /\ RatingForRank(j, total) = 1 + Rounded(q2, r2, d)
    BY ONLY <2>2, j \in 1..total, Zenon
  <2>5. q2 * d + r2 <= q1 * d + r1 /\ q1 * d + r1 <= 98 * d + 0
    BY <2>1, <2>3, <2>4
  <2>6. q2 <= q1 /\ (q2 = q1 => r2 <= r1)
    BY <2>5, DivisionOrder
  <2>7. q1 <= 98 /\ (q1 = 98 => r1 <= 0)
    BY <2>5, DivisionOrder
  <2>8. Rounded(q1, r1, d) \in 0..98
    BY <2>7 DEF Rounded
  <2>9. Rounded(q2, r2, d) <= Rounded(q1, r1, d)
    BY <2>6 DEF Rounded
  <2>10. Rounded(q2, r2, d) \in Nat
    BY DEF Rounded
  <2>11. QED
    BY <2>3, <2>4, <2>8, <2>9, <2>10
<1>3. QED
  BY <1>1, <1>2

-----------------------------------------------------------------------------
\* What is read of a window is what is read of the series it ends.
WindowOf(read) == SubSeq(read, Len(read) - RsWindow, Len(read))

LEMMA WindowReturns ==
  ASSUME NEW read \in Seq(RsRow), Len(read) > RsWindow
  PROVE  /\ ReturnOver(WindowOf(read), RsWindow) = ReturnOver(read, RsWindow)
         /\ RsScore(WindowOf(read)) = RsScore(read) /\ RsScore(read) \in Int
         /\ ReturnOver(read, RsWindow) \in Int /\ ReturnOver(read, RsWindow \div 2) \in Int
         /\ Quiet(read) => \A i \in 2..(RsWindow + 1) :
                             ~BreaksLimit(WindowOf(read)[i - 1], WindowOf(read)[i])
<1>1. PICK n \in Nat : n = Len(read)
  OBVIOUS
<1>2. PICK half \in Nat : half = RsWindow \div 2 /\ half <= RsWindow /\ RsWindow \in Nat
  BY RsAssumption
<1>3. \A i \in 1..n : read[i] \in RsRow /\ read[i].close \in Nat \ {0}
  <2>1. \A i \in 1..n : read[i] \in RsRow
    BY <1>1
  <2>2. \A row \in RsRow : row.close \in Nat \ {0}
    BY DEF RsRow
  <2>3. QED
    BY <2>1, <2>2
<1>4. PICK w : w = WindowOf(read)
  OBVIOUS
<1>5. n - RsWindow \in 1..n
  BY <1>1, <1>2
<1>6. /\ w \in Seq(RsRow) /\ Len(w) = RsWindow + 1
      /\ \A i \in 1..(RsWindow + 1) : w[i] = read[n - RsWindow + i - 1]
  <2>1. PICK m \in Int : m = n - RsWindow
    BY <1>2
  <2>2. w = SubSeq(read, m, n)
    BY <1>1, <1>4, <2>1 DEF WindowOf
  <2>3. (\A i \in m..n : read[i] \in RsRow) /\ m <= n /\ n - m + 1 = RsWindow + 1
    BY <1>2, <1>3, <1>5, <2>1
  <2>4. /\ SubSeq(read, m, n) \in Seq(RsRow)
        /\ Len(SubSeq(read, m, n)) = IF m <= n THEN n - m + 1 ELSE 0
        /\ \A i \in 1..(n - m + 1) : SubSeq(read, m, n)[i] = read[m + i - 1]
    BY <2>3, SubSeqProperties
  <2>5. QED
    BY <2>1, <2>2, <2>3, <2>4
<1>7. w[RsWindow + 1] = read[n] /\ w[1] = read[n - RsWindow]
  BY <1>2, <1>6
<1>8. w[RsWindow + 1 - half] = read[n - half]
  <2>1. /\ RsWindow + 1 - half \in 1..(RsWindow + 1)
        /\ n - RsWindow + (RsWindow + 1 - half) - 1 = n - half
    BY <1>2
  <2>2. QED
    BY <1>6, <2>1
<1>9. ReturnOver(w, RsWindow) = ReturnOver(read, RsWindow)
  BY <1>1, <1>2, <1>6, <1>7 DEF ReturnOver
<1>10. RsScore(w) = RsScore(read)
  <2>1. RsWindow + 1 - RsWindow = 1
    BY <1>2
  <2>2. QED
    BY <1>1, <1>2, <1>6, <1>7, <1>8, <2>1 DEF RsScore, ReturnOver
<1>11. \A a, b \in Nat \ {0} : (10000 * a) \div b \in Int
  OBVIOUS
<1>12. /\ read[n].close \in Nat \ {0} /\ read[n - half].close \in Nat \ {0}
       /\ read[n - RsWindow].close \in Nat \ {0}
  BY <1>1, <1>2, <1>3, <1>5
<1>13. ReturnOver(read, RsWindow) \in Int /\ ReturnOver(read, half) \in Int
  <2>1. PICK a, b, c \in Nat \ {0} :
          a = read[n].close /\ b = read[n - half].close /\ c = read[n - RsWindow].close
    BY <1>12
  <2>2. ReturnOver(read, RsWindow) = (10000 * a) \div c /\ ReturnOver(read, half) = (10000 * a) \div b
    BY <1>1, <2>1 DEF ReturnOver
  <2>3. QED
    BY <1>11, <2>2
<1>14. RsScore(read) \in Int
  <2>1. (10000 * read[n - half].close) \div read[n - RsWindow].close \in Int
    <3>1. PICK a, b \in Nat \ {0} : a = read[n - half].close /\ b = read[n - RsWindow].close
      BY <1>12
    <3>2. (10000 * a) \div b \in Int
      BY <1>11
    <3>3. QED
      BY <3>1, <3>2
  <2>2. RsScore(read) = ReturnOver(read, half)
          + (10000 * read[n - half].close) \div read[n - RsWindow].close
    BY <1>1, <1>2 DEF RsScore
  <2>3. QED
    BY <1>13, <2>1, <2>2
<1>15. ASSUME Quiet(read), NEW i \in 2..(RsWindow + 1) PROVE ~BreaksLimit(w[i - 1], w[i])
  <2>1. PICK k : k = n - RsWindow + i - 1
    OBVIOUS
  <2>2. k \in 2..n /\ k - 1 = n - RsWindow + (i - 1) - 1
    BY <1>2, <1>5, <2>1
  <2>3. w[i] = read[k] /\ w[i - 1] = read[k - 1]
    <3>1. i \in 1..(RsWindow + 1) /\ i - 1 \in 1..(RsWindow + 1)
      BY <1>2
    <3>2. QED
      BY <1>6, <2>1, <2>2, <3>1
  <2>4. QED
    BY <1>1, <1>15, <2>2, <2>3 DEF Quiet
<1>16. QED
  BY <1>2, <1>4, <1>9, <1>10, <1>13, <1>14, <1>15

-----------------------------------------------------------------------------
Distinct(q) == \A i, j \in DOMAIN q : q[i] = q[j] => i = j

RunOK(r) ==
  /\ DOMAIN r = {"step", "todo", "series", "input", "actions", "refetched"}
  /\ r.step \in {"load", "refetch", "recheck", "rank", "done"}
  /\ r.todo \in Seq(StockSet) /\ r.actions \in Seq(StockSet) /\ Distinct(r.actions)
  /\ DOMAIN r.input \subseteq StockSet
  /\ \A s \in DOMAIN r.input : r.input[s] \in Seq(RsRow)
  /\ \A s \in DOMAIN r.series :
       s \in DOMAIN r.input /\ r.series[s] = r.input[s] /\ Quiet(r.input[s])
  /\ r.step \in {"load", "refetch"} =>
       \A i \in DOMAIN r.actions : r.actions[i] \in DOMAIN r.input \ DOMAIN r.series
  /\ r.step \in {"load", "recheck"} => Distinct(r.todo)
  /\ r.step = "load" => \A i \in DOMAIN r.todo : r.todo[i] \notin DOMAIN r.input
  /\ r.step = "recheck" => \A i \in DOMAIN r.todo : r.todo[i] \in DOMAIN r.input \ DOMAIN r.series

LEMMA StocksAreFinite == IsFiniteSet(StockSet) /\ \A s, t \in StockSet :
                           CodeOrder(s) \in Int /\ (CodeOrder(s) = CodeOrder(t) => s = t)
<1>1. PICK f : f = [i \in DOMAIN RsStocks |-> RsStocks[i]]
  OBVIOUS
<1>2. f \in Surjection(DOMAIN RsStocks, StockSet)
  BY <1>1 DEF Surjection, StockSet
<1>3. PICK n \in Nat : DOMAIN RsStocks = 1..n
  BY RsAssumption
<1>4. IsFiniteSet(1..n)
  BY FS_Interval
<1>5. IsFiniteSet(StockSet)
  BY <1>2, <1>3, <1>4, FS_Surjection
<1>6. \A s \in StockSet : CodeOrder(s) \in 1..n /\ RsStocks[CodeOrder(s)] = s
  BY <1>3 DEF StockSet, CodeOrder
<1>7. QED
  BY <1>5, <1>6

LEMMA RankableSeries ==
  ASSUME NEW r, RunOK(r), rsRun = r
  PROVE  /\ IsFiniteSet(Rankable) /\ Rankable \subseteq StockSet
         /\ \A s \in Rankable : /\ r.input[s] \in Seq(RsRow) /\ r.series[s] = r.input[s]
                                /\ Len(r.input[s]) > RsWindow /\ Quiet(r.input[s])
<1>1. Rankable \subseteq StockSet
  BY DEF RunOK, Rankable
<1>2. IsFiniteSet(Rankable)
  BY <1>1, StocksAreFinite, FS_Subset
<1>3. ASSUME NEW s \in Rankable
      PROVE  /\ r.input[s] \in Seq(RsRow) /\ r.series[s] = r.input[s]
             /\ Len(r.input[s]) > RsWindow /\ Quiet(r.input[s])
  <2>1. s \in DOMAIN r.series /\ Len(r.series[s]) >= RsWindow + 1
    BY <1>3 DEF Rankable
  <2>2. r.input[s] \in Seq(RsRow) /\ r.series[s] = r.input[s] /\ Quiet(r.input[s])
    BY <2>1 DEF RunOK
  <2>3. QED
    BY <2>1, <2>2, RsAssumption
<1>4. QED
  BY <1>1, <1>2, <1>3

LEMMA PeriodRatingIsNumber ==
  ASSUME NEW r, RunOK(r), rsRun = r, NEW s \in Rankable, NEW k \in {RsWindow, RsWindow \div 2}
  PROVE  PeriodRating(s, k) \in 1..99
<1>1. PICK Q : Q = Rankable
  OBVIOUS
<1>2. IsFiniteSet(Q) /\ s \in Q
  BY <1>1, RankableSeries
<1>3. PICK A : A = {t \in Q : ReturnOver(r.series[t], k) > ReturnOver(r.series[s], k)}
  OBVIOUS
<1>4. ReturnOver(r.series[s], k) \in Int
  BY RankableSeries, WindowReturns
<1>5. A \subseteq Q /\ s \notin A
  BY <1>3, <1>4
<1>6. PICK n \in Nat : n = Cardinality(Q)
  BY <1>2, FS_CardinalityType
<1>7. IsFiniteSet(A) /\ Cardinality(A) <= n /\ Cardinality(A) # n
  BY <1>2, <1>5, <1>6, FS_Subset
<1>8. PICK i \in 1..n : i = 1 + Cardinality(A)
  BY <1>7, FS_CardinalityType
<1>9. PeriodRating(s, k) = RatingForRank(i, n)
  BY <1>1, <1>3, <1>6, <1>8 DEF PeriodRating
<1>10. i <= i
  OBVIOUS
<1>11. RatingForRank(i, n) \in 1..99
  BY ONLY <1>10, RatingsFall, n \in Nat, i \in 1..n
<1>12. QED
  BY <1>9, <1>11

-----------------------------------------------------------------------------
\* The sort key puts the stocks in one order.
Lexical(a, b) ==
  \/ a[1] < b[1]
  \/ a[1] = b[1] /\ a[2] < b[2]
  \/ a[1] = b[1] /\ a[2] = b[2] /\ a[3] < b[3]
  \/ a[1] = b[1] /\ a[2] = b[2] /\ a[3] = b[3] /\ a[4] < b[4]

LEMMA LexicalIs ==
  ASSUME NEW a, NEW b
  PROVE  (\E i \in 1..4 : a[i] < b[i] /\ \A j \in 1..(i - 1) : a[j] = b[j]) <=> Lexical(a, b)
<1>1. ASSUME NEW i \in 1..4, a[i] < b[i], \A j \in 1..(i - 1) : a[j] = b[j]
      PROVE  Lexical(a, b)
  BY <1>1 DEF Lexical
<1>2. ASSUME a[1] < b[1]
      PROVE  \E i \in 1..4 : a[i] < b[i] /\ \A j \in 1..(i - 1) : a[j] = b[j]
  <2>1. 1 \in 1..4 /\ \A j \in 1..(1 - 1) : a[j] = b[j]
    OBVIOUS
  <2>2. QED
    BY <1>2, <2>1
<1>3. ASSUME a[1] = b[1], a[2] < b[2]
      PROVE  \E i \in 1..4 : a[i] < b[i] /\ \A j \in 1..(i - 1) : a[j] = b[j]
  <2>1. 2 \in 1..4 /\ \A j \in 1..(2 - 1) : a[j] = b[j]
    BY <1>3
  <2>2. QED
    BY <1>3, <2>1
<1>4. ASSUME a[1] = b[1], a[2] = b[2], a[3] < b[3]
      PROVE  \E i \in 1..4 : a[i] < b[i] /\ \A j \in 1..(i - 1) : a[j] = b[j]
  <2>1. 3 \in 1..4 /\ \A j \in 1..(3 - 1) : a[j] = b[j]
    BY <1>4
  <2>2. QED
    BY <1>4, <2>1
<1>5. ASSUME a[1] = b[1], a[2] = b[2], a[3] = b[3], a[4] < b[4]
      PROVE  \E i \in 1..4 : a[i] < b[i] /\ \A j \in 1..(i - 1) : a[j] = b[j]
  <2>1. 4 \in 1..4 /\ \A j \in 1..(4 - 1) : a[j] = b[j]
    BY <1>5
  <2>2. QED
    BY <1>5, <2>1
<1>6. QED
  BY <1>1, <1>2, <1>3, <1>4, <1>5 DEF Lexical

KeyOf(s) == <<-RsScore(rsRun.series[s]), -PeriodRating(s, RsWindow),
              -PeriodRating(s, RsWindow \div 2), CodeOrder(s)>>

LEMMA PrecedesIs ==
  ASSUME NEW s, NEW t
  PROVE  Precedes(s, t) <=> Lexical(KeyOf(s), KeyOf(t))
<1>1. Precedes(s, t) <=>
        \E i \in 1..4 : KeyOf(s)[i] < KeyOf(t)[i] /\ \A j \in 1..(i - 1) : KeyOf(s)[j] = KeyOf(t)[j]
  BY DEF Precedes, KeyOf
<1>2. QED
  BY <1>1, LexicalIs

LEMMA StocksAreOrdered ==
  ASSUME NEW r, RunOK(r), rsRun = r,
         NEW R, R = {p \in Rankable \X Rankable : Precedes(p[1], p[2])}
  PROVE  /\ Orders(R, Rankable)
         /\ \A s, t \in Rankable :
              RsScore(r.series[s]) > RsScore(r.series[t]) => <<s, t>> \in R
<1>1. PICK Q : Q = Rankable
  OBVIOUS
<1>2. PICK key : key = [s \in Q |-> KeyOf(s)]
  OBVIOUS
<1>3. \A s, t \in Q : <<s, t>> \in R <=> Lexical(key[s], key[t])
  BY <1>1, <1>2, PrecedesIs
<1>4. ASSUME NEW s \in Q
      PROVE  /\ \A i \in 1..4 : key[s][i] \in Int
             /\ key[s][1] = -RsScore(r.series[s]) /\ RsScore(r.series[s]) \in Int
             /\ key[s][4] = CodeOrder(s)
  <2>1. RsScore(r.series[s]) \in Int
    BY <1>1, RankableSeries, WindowReturns
  <2>2. PeriodRating(s, RsWindow) \in 1..99 /\ PeriodRating(s, RsWindow \div 2) \in 1..99
    BY <1>1, PeriodRatingIsNumber
  <2>3. CodeOrder(s) \in Int
    BY <1>1, RankableSeries, StocksAreFinite
  <2>4. PICK a, b, c, d : /\ a = RsScore(r.series[s]) /\ b = PeriodRating(s, RsWindow)
                          /\ c = PeriodRating(s, RsWindow \div 2) /\ d = CodeOrder(s)
    OBVIOUS
  <2>5. a \in Int /\ b \in Int /\ c \in Int /\ d \in Int
    BY <2>1, <2>2, <2>3, <2>4
  <2>6. key[s] = <<-a, -b, -c, d>>
    BY <1>2, <2>4 DEF KeyOf
  <2>7. QED
    BY <2>4, <2>5, <2>6
<1>5. \A s, t \in Q : key[s][4] = key[t][4] => s = t
  BY <1>1, <1>4, RankableSeries, StocksAreFinite
<1>6. \A s \in Q : ~Lexical(key[s], key[s])
  BY <1>4 DEF Lexical
<1>7. ASSUME NEW s \in Q, NEW t \in Q, NEW u \in Q, Lexical(key[s], key[t]), Lexical(key[t], key[u])
      PROVE  Lexical(key[s], key[u])
  <2>1. \A i \in {1, 2, 3, 4} : key[s][i] \in Int /\ key[t][i] \in Int /\ key[u][i] \in Int
    BY <1>4
  <2>2. QED
    BY <1>7, <2>1 DEF Lexical
<1>8. ASSUME NEW s \in Q, NEW t \in Q, s # t
      PROVE  Lexical(key[s], key[t]) \/ Lexical(key[t], key[s])
  <2>1. \A i \in {1, 2, 3, 4} : key[s][i] \in Int /\ key[t][i] \in Int
    BY <1>4
  <2>2. key[s][4] # key[t][4]
    BY <1>5, <1>8
  <2>3. QED
    BY <2>1, <2>2 DEF Lexical
<1>9. Orders(R, Q)
  BY <1>3, <1>6, <1>7, <1>8 DEF Orders
<1>10. ASSUME NEW s \in Q, NEW t \in Q, RsScore(r.series[s]) > RsScore(r.series[t])
       PROVE  Lexical(key[s], key[t])
  BY <1>4, <1>10 DEF Lexical
<1>11. QED
  BY <1>1, <1>3, <1>9, <1>10

-----------------------------------------------------------------------------
Earned(scores, input) ==
  /\ \A s \in DOMAIN scores :
       /\ Len(input[s]) > RsWindow
       /\ \A i \in 2..(RsWindow + 1) :
            ~BreaksLimit(WindowOf(input[s])[i - 1], WindowOf(input[s])[i])
  /\ {scores[s].universe : s \in DOMAIN scores} = 1..Cardinality(DOMAIN scores)
  /\ \A s, t \in DOMAIN scores :
       /\ RsScore(WindowOf(input[s])) > RsScore(WindowOf(input[t])) =>
            scores[s].universe < scores[t].universe /\ scores[s].rating >= scores[t].rating
       /\ RsMarketOf[s] = RsMarketOf[t] /\ scores[s].universe < scores[t].universe =>
            scores[s].market < scores[t].market
       /\ ReturnOver(WindowOf(input[s]), RsWindow) = ReturnOver(WindowOf(input[t]), RsWindow) =>
            scores[s].long = scores[t].long

RanksOK(scores, r) ==
  /\ DOMAIN scores \subseteq StockSet /\ \A s \in DOMAIN scores : scores[s].rating \in 1..99
  /\ r.step # "done" => scores = <<>>
  /\ Earned(scores, r.input)

PricesOK(p) == DOMAIN p = StockSet /\ \A s \in StockSet : IsHistory(p[s])

RsInv ==
  \E r, scores, p : /\ rsRun = r /\ rsRows = scores /\ rsPrices = p /\ rsFixed \subseteq RsFixes
                  /\ RunOK(r) /\ RanksOK(scores, r) /\ PricesOK(p)

LEMMA RsInvNext ==
  ASSUME NEW r, NEW scores, NEW p, rsRun' = r, rsRows' = scores, rsPrices' = p,
         rsFixed' \subseteq RsFixes, RunOK(r), RanksOK(scores, r), PricesOK(p)
  PROVE  RsInv'
BY DEF RsInv

LEMMA NoRows ==
  ASSUME NEW r
  PROVE  RanksOK(<<>>, r)
<1>1. DOMAIN <<>> = {}
  OBVIOUS
<1>2. Cardinality(DOMAIN <<>>) = 0
  BY <1>1, FS_EmptySet
<1>3. 1..0 = {}
  OBVIOUS
<1>4. QED
  BY <1>1, <1>2, <1>3 DEF RanksOK, Earned

\* A step before the ranking: nothing is stored yet, and the run goes on.
LEMMA RunGoesOn ==
  ASSUME RsInv, rsRun.step # "done", NEW r, RunOK(r), rsRun' = r,
         UNCHANGED <<rsPrices, rsFixed, rsRows>>
  PROVE  RsInv'
<1>1. PICK old, scores, p : /\ rsRun = old /\ rsRows = scores /\ rsPrices = p
                          /\ rsFixed \subseteq RsFixes
                          /\ RunOK(old) /\ RanksOK(scores, old) /\ PricesOK(p)
  BY DEF RsInv
<1>2. scores = <<>>
  BY <1>1 DEF RanksOK
<1>3. RanksOK(scores, r)
  BY <1>2, NoRows
<1>4. QED
  BY <1>1, <1>3, RsInvNext

LEMMA ReadRows ==
  ASSUME RsInv, NEW s \in StockSet
  PROVE  /\ InputWindow(CleanRows(s)) \in Seq(RsRow)
         /\ ~DetectAction(CleanRows(s)) => Quiet(InputWindow(CleanRows(s)))
<1>1. IsHistory(rsPrices[s]) /\ rsFixed \subseteq RsFixes
  BY DEF RsInv, PricesOK
<1>2. QED
  BY <1>1, CleanRowsAreRows, WindowIsQuiet

LEMMA TailIs ==
  ASSUME NEW S, NEW q \in Seq(S), q # <<>>
  PROVE  /\ Head(q) \in S /\ 1 \in DOMAIN q /\ Head(q) = q[1] /\ Tail(q) \in Seq(S)
         /\ \A i \in DOMAIN Tail(q) : i + 1 \in DOMAIN q /\ Tail(q)[i] = q[i + 1]
         /\ Distinct(q) => Distinct(Tail(q)) /\ \A i \in DOMAIN Tail(q) : Tail(q)[i] # Head(q)
<1>1. PICK n \in Nat \ {0} : Len(q) = n
  BY EmptySeq
<1>2. PICK u \in Seq(S) : u = Tail(q)
  BY HeadTailProperties
<1>3. Len(u) = n - 1 /\ \A i \in 1..(n - 1) : u[i] = q[i + 1]
  BY <1>1, <1>2, HeadTailProperties
<1>4. DOMAIN q = 1..n /\ DOMAIN u = 1..(n - 1)
  BY <1>1, <1>3
<1>5. Head(q) = q[1] /\ Head(q) \in S /\ 1 \in DOMAIN q
  BY <1>1, <1>4
<1>6. \A i \in DOMAIN u : i \in Int /\ i + 1 \in DOMAIN q /\ i + 1 # 1 /\ u[i] = q[i + 1]
  BY <1>1, <1>3, <1>4
<1>7. ASSUME Distinct(q) PROVE Distinct(u) /\ \A i \in DOMAIN u : u[i] # Head(q)
  BY <1>5, <1>6, <1>7 DEF Distinct
<1>8. QED
  BY <1>2, <1>5, <1>6, <1>7

LEMMA LoadStep ==
  ASSUME RsInv, LoadStock
  PROVE  RsInv'
<1>1. PICK r : rsRun = r /\ RunOK(r)
  BY DEF RsInv
<1>2. /\ r.step = "load" /\ r.todo # <<>> /\ r.todo \in Seq(StockSet) /\ Distinct(r.todo)
      /\ DOMAIN r = {"step", "todo", "series", "input", "actions", "refetched"}
  BY <1>1 DEF LoadStock, RunOK
<1>3. PICK s, rest : s = Head(r.todo) /\ rest = Tail(r.todo)
  OBVIOUS
<1>4. /\ s \in StockSet /\ 1 \in DOMAIN r.todo /\ s = r.todo[1] /\ rest \in Seq(StockSet)
      /\ \A i \in DOMAIN rest : i + 1 \in DOMAIN r.todo /\ rest[i] = r.todo[i + 1]
      /\ Distinct(rest) /\ \A i \in DOMAIN rest : rest[i] # s
  BY <1>2, <1>3, TailIs
<1>5. PICK w \in Seq(RsRow) : /\ w = InputWindow(CleanRows(s))
                              /\ ~DetectAction(CleanRows(s)) => Quiet(w)
  BY <1>4, ReadRows
<1>6. PICK input : input = Extended(r.input, s, w)
  OBVIOUS
<1>7. PICK series : series = IF DetectAction(CleanRows(s)) THEN r.series ELSE Extended(r.series, s, w)
  OBVIOUS
<1>8. PICK actions : actions = IF DetectAction(CleanRows(s)) THEN Append(r.actions, s) ELSE r.actions
  OBVIOUS
<1>9. PICK next : next = [r EXCEPT !.todo = rest, !.input = input, !.series = series,
                                   !.actions = actions]
  OBVIOUS
<1>10. rsRun' = next /\ UNCHANGED <<rsPrices, rsFixed, rsRows>>
  BY <1>1, <1>3, <1>5, <1>6, <1>7, <1>8, <1>9 DEF LoadStock
<1>11. /\ DOMAIN next = {"step", "todo", "series", "input", "actions", "refetched"}
       /\ next.step = "load" /\ next.todo = rest /\ next.input = input
       /\ next.series = series /\ next.actions = actions
  BY <1>2, <1>9
<1>12. s \notin DOMAIN r.input
  BY <1>1, <1>2, <1>4 DEF RunOK
<1>13. /\ DOMAIN input = DOMAIN r.input \cup {s} /\ input[s] = w
       /\ \A t \in DOMAIN r.input : input[t] = r.input[t]
  BY <1>6, <1>12 DEF Extended
<1>14. \A t \in DOMAIN series : t \in DOMAIN input /\ series[t] = input[t] /\ Quiet(input[t])
  <2>1. \A t \in DOMAIN r.series :
          t \in DOMAIN r.input /\ r.series[t] = r.input[t] /\ Quiet(r.input[t])
    BY <1>1 DEF RunOK
  <2>2. CASE DetectAction(CleanRows(s))
    BY <1>7, <1>13, <2>1, <2>2
  <2>3. CASE ~DetectAction(CleanRows(s))
    <3>1. /\ DOMAIN series = DOMAIN r.series \cup {s} /\ series[s] = w
          /\ \A t \in DOMAIN r.series : t # s => series[t] = r.series[t]
      BY <1>7, <2>3 DEF Extended
    <3>2. QED
      BY <1>5, <1>12, <1>13, <2>1, <2>3, <3>1
  <2>4. QED
    BY <2>2, <2>3
<1>15. /\ actions \in Seq(StockSet) /\ Distinct(actions)
       /\ \A i \in DOMAIN actions : actions[i] \in DOMAIN input \ DOMAIN series
  <2>1. /\ r.actions \in Seq(StockSet) /\ Distinct(r.actions)
        /\ \A i \in DOMAIN r.actions : r.actions[i] \in DOMAIN r.input \ DOMAIN r.series
    BY <1>1, <1>2 DEF RunOK
  <2>2. CASE DetectAction(CleanRows(s))
    <3>1. PICK n \in Nat : n = Len(r.actions) /\ DOMAIN r.actions = 1..n
      BY <2>1
    <3>2. actions = Append(r.actions, s) /\ series = r.series
      BY <1>7, <1>8, <2>2
    <3>3. /\ actions \in Seq(StockSet) /\ DOMAIN actions = 1..(n + 1) /\ actions[n + 1] = s
          /\ \A i \in 1..n : actions[i] = r.actions[i]
      BY <1>4, <2>1, <3>1, <3>2, AppendProperties
    <3>4. s \notin DOMAIN series
      BY <1>1, <1>12, <3>2 DEF RunOK
    <3>5. \A i \in 1..n : actions[i] \in DOMAIN r.input \ DOMAIN series
      BY <2>1, <3>1, <3>2, <3>3
    <3>6. \A i \in 1..(n + 1) : i \in 1..n \/ i = n + 1
      OBVIOUS
    <3>7. Distinct(actions)
      BY <1>12, <2>1, <3>1, <3>3, <3>5, <3>6 DEF Distinct
    <3>8. QED
      BY <1>13, <3>3, <3>4, <3>5, <3>6, <3>7
  <2>3. CASE ~DetectAction(CleanRows(s))
    <3>1. actions = r.actions /\ DOMAIN series = DOMAIN r.series \cup {s}
      BY <1>7, <1>8, <2>3 DEF Extended
    <3>2. QED
      BY <1>12, <1>13, <2>1, <3>1
  <2>4. QED
    BY <2>2, <2>3
<1>16. \A i \in DOMAIN rest : rest[i] \notin DOMAIN input
  BY <1>1, <1>2, <1>4, <1>13 DEF RunOK
<1>17. DOMAIN input \subseteq StockSet /\ \A t \in DOMAIN input : input[t] \in Seq(RsRow)
  BY <1>1, <1>4, <1>13 DEF RunOK
<1>18. RunOK(next)
  BY <1>4, <1>11, <1>14, <1>15, <1>16, <1>17 DEF RunOK
<1>19. QED
  BY <1>1, <1>2, <1>10, <1>18, RunGoesOn

LEMMA AllLoadedStep ==
  ASSUME RsInv, AllLoaded
  PROVE  RsInv'
<1>1. PICK r : rsRun = r /\ RunOK(r)
  BY DEF RsInv
<1>2. PICK next : next = [r EXCEPT !.step = "refetch", !.todo = r.actions]
  OBVIOUS
<1>3. /\ rsRun' = next /\ UNCHANGED <<rsPrices, rsFixed, rsRows>>
      /\ rsRun.step # "done" /\ r.step = "load"
  BY <1>1, <1>2 DEF AllLoaded
<1>4. RunOK(next)
  BY <1>1, <1>2, <1>3 DEF RunOK
<1>5. QED
  BY <1>3, <1>4, RunGoesOn

LEMMA RefetchFailsStep ==
  ASSUME RsInv, RefetchFails
  PROVE  RsInv'
<1>1. PICK r : rsRun = r /\ RunOK(r)
  BY DEF RsInv
<1>2. PICK rest : rest = Tail(r.todo)
  OBVIOUS
<1>3. PICK next : next = [r EXCEPT !.todo = rest]
  OBVIOUS
<1>4. /\ rsRun' = next /\ UNCHANGED <<rsPrices, rsFixed, rsRows>>
      /\ rsRun.step # "done" /\ r.step = "refetch" /\ r.todo # <<>>
  BY <1>1, <1>2, <1>3 DEF RefetchFails
<1>5. rest \in Seq(StockSet)
  BY <1>1, <1>2, <1>4, TailIs DEF RunOK
<1>6. RunOK(next)
  BY <1>1, <1>3, <1>4, <1>5 DEF RunOK
<1>7. QED
  BY <1>4, <1>6, RunGoesOn

LEMMA AllRefetchedStep ==
  ASSUME RsInv, AllRefetched
  PROVE  RsInv'
<1>1. PICK r : rsRun = r /\ RunOK(r)
  BY DEF RsInv
<1>2. PICK next, step, todo :
        /\ step = IF rsRun.refetched THEN "recheck" ELSE "rank"
        /\ todo = IF rsRun.refetched THEN r.actions ELSE <<>>
        /\ next = [r EXCEPT !.step = step, !.todo = todo]
  OBVIOUS
<1>3. /\ rsRun' = next /\ UNCHANGED <<rsPrices, rsFixed, rsRows>>
      /\ rsRun.step # "done" /\ r.step = "refetch"
  BY <1>1, <1>2 DEF AllRefetched
<1>4. (step = "rank" /\ todo = <<>>) \/ (step = "recheck" /\ todo = r.actions)
  BY <1>2
<1>5. DOMAIN r = {"step", "todo", "series", "input", "actions", "refetched"}
  BY <1>1 DEF RunOK
<1>6. /\ DOMAIN next = {"step", "todo", "series", "input", "actions", "refetched"}
      /\ next.step = step /\ next.todo = todo /\ next.input = r.input
      /\ next.series = r.series /\ next.actions = r.actions
  BY <1>2, <1>5
<1>7. <<>> \in Seq(StockSet)
  OBVIOUS
<1>8. RunOK(next)
  BY <1>1, <1>3, <1>4, <1>6, <1>7 DEF RunOK
<1>9. QED
  BY <1>3, <1>8, RunGoesOn

LEMMA RefetchStep ==
  ASSUME RsInv, RefetchStock
  PROVE  RsInv'
<1>1. PICK r, scores, p : /\ rsRun = r /\ rsRows = scores /\ rsPrices = p
                        /\ rsFixed \subseteq RsFixes
                        /\ RunOK(r) /\ RanksOK(scores, r) /\ PricesOK(p)
  BY DEF RsInv
<1>2. PICK s, rest : s = Head(r.todo) /\ rest = Tail(r.todo)
  OBVIOUS
<1>3. r.step = "refetch" /\ r.todo # <<>> /\ r.todo \in Seq(StockSet)
  BY <1>1 DEF RefetchStock, RunOK
<1>4. s \in StockSet /\ rest \in Seq(StockSet)
  BY <1>2, <1>3, TailIs
<1>5. PICK h : h = p[s]
  OBVIOUS
<1>6. IsHistory(h) /\ DOMAIN p = StockSet
  BY <1>1, <1>4, <1>5 DEF PricesOK
<1>7. PICK from \in DOMAIN h :
        rsPrices' = [p EXCEPT ![s] =
          [d \in DOMAIN h |-> IF d >= from THEN Adjusted(s, from)[d] ELSE h[d]]]
  <2>1. \E from \in DOMAIN rsPrices[Head(rsRun.todo)] : rsPrices' =
          [rsPrices EXCEPT ![Head(rsRun.todo)] =
            [d \in DOMAIN rsPrices[Head(rsRun.todo)] |->
              IF d >= from THEN Adjusted(Head(rsRun.todo), from)[d]
              ELSE rsPrices[Head(rsRun.todo)][d]]]
    BY DEF RefetchStock
  <2>2. Head(rsRun.todo) = s /\ rsPrices = p /\ rsPrices[s] = h
    BY <1>1, <1>2, <1>5
  <2>3. PICK from \in DOMAIN h : rsPrices' =
          [rsPrices EXCEPT ![Head(rsRun.todo)] =
            [d \in DOMAIN rsPrices[Head(rsRun.todo)] |->
              IF d >= from THEN Adjusted(Head(rsRun.todo), from)[d]
              ELSE rsPrices[Head(rsRun.todo)][d]]]
    BY <2>1, <2>2
  <2>4. [d \in DOMAIN rsPrices[Head(rsRun.todo)] |->
          IF d >= from THEN Adjusted(Head(rsRun.todo), from)[d] ELSE rsPrices[Head(rsRun.todo)][d]]
        = [d \in DOMAIN h |-> IF d >= from THEN Adjusted(s, from)[d] ELSE h[d]]
    BY <2>2
  <2>5. QED
    BY <2>2, <2>3, <2>4
<1>8. PICK new : new = [d \in DOMAIN h |-> IF d >= from THEN Adjusted(s, from)[d] ELSE h[d]]
  OBVIOUS
<1>9. IsHistory(new)
  <2>1. PICK last : last = CHOOSE d \in DOMAIN h : \A e \in DOMAIN h : e <= d
    OBVIOUS
  <2>2. last \in DOMAIN h
    BY <1>6, <2>1, LatestDay DEF IsHistory
  <2>3. PICK close \in Nat \ {0} : close = h[last].close
    <3>1. h[last] \in RsRow
      BY <1>6, <2>2 DEF IsHistory
    <3>2. QED
      BY <3>1 DEF RsRow
  <2>4. ASSUME NEW d \in DOMAIN h PROVE new[d] \in RsRow
    <3>1. PICK row \in RsRow : row = h[d]
      BY <1>6 DEF IsHistory
    <3>2. d >= from => Adjusted(s, from)[d] = [row EXCEPT !.close = close]
      BY <1>1, <1>5, <2>1, <2>3, <3>1 DEF Adjusted
    <3>3. [row EXCEPT !.close = close] \in RsRow
      BY <3>1, <2>3 DEF RsRow
    <3>4. QED
      BY <1>8, <3>1, <3>2, <3>3
  <2>5. QED
    BY <1>6, <1>8, <2>4 DEF IsHistory
<1>10. PICK prices : prices = [p EXCEPT ![s] = new]
  OBVIOUS
<1>11. PricesOK(prices)
  BY <1>1, <1>4, <1>6, <1>9, <1>10 DEF PricesOK
<1>12. PICK next : next = [r EXCEPT !.todo = rest, !.refetched = TRUE]
  OBVIOUS
<1>13. rsRun' = next /\ rsRows' = scores /\ rsPrices' = prices /\ rsFixed' = rsFixed
  BY <1>1, <1>2, <1>7, <1>8, <1>10, <1>12 DEF RefetchStock
<1>14. RunOK(next)
  BY <1>1, <1>3, <1>4, <1>12 DEF RunOK
<1>15. RanksOK(scores, next)
  BY <1>1, <1>3, NoRows DEF RanksOK
<1>16. QED
  BY <1>1, <1>11, <1>13, <1>14, <1>15, RsInvNext

LEMMA RecheckStep ==
  ASSUME RsInv, RecheckStock
  PROVE  RsInv'
<1>1. PICK r : rsRun = r /\ RunOK(r)
  BY DEF RsInv
<1>2. /\ r.step = "recheck" /\ r.todo # <<>> /\ r.todo \in Seq(StockSet) /\ Distinct(r.todo)
      /\ DOMAIN r = {"step", "todo", "series", "input", "actions", "refetched"}
      /\ \A i \in DOMAIN r.todo : r.todo[i] \in DOMAIN r.input \ DOMAIN r.series
  BY <1>1 DEF RecheckStock, RunOK
<1>3. PICK s, rest : s = Head(r.todo) /\ rest = Tail(r.todo)
  OBVIOUS
<1>4. /\ s \in StockSet /\ 1 \in DOMAIN r.todo /\ s = r.todo[1] /\ rest \in Seq(StockSet)
      /\ \A i \in DOMAIN rest : i + 1 \in DOMAIN r.todo /\ rest[i] = r.todo[i + 1]
      /\ Distinct(rest) /\ \A i \in DOMAIN rest : rest[i] # s
  BY <1>2, <1>3, TailIs
<1>5. PICK w \in Seq(RsRow) : /\ w = InputWindow(CleanRows(s))
                              /\ ~DetectAction(CleanRows(s)) => Quiet(w)
  BY <1>4, ReadRows
<1>6. PICK input : input = Extended(r.input, s, w)
  OBVIOUS
<1>7. PICK series : series = IF DetectAction(CleanRows(s)) THEN r.series ELSE Extended(r.series, s, w)
  OBVIOUS
<1>8. PICK next : next = [r EXCEPT !.todo = rest, !.input = input, !.series = series]
  OBVIOUS
<1>9. rsRun' = next /\ UNCHANGED <<rsPrices, rsFixed, rsRows>>
  BY <1>1, <1>3, <1>5, <1>6, <1>7, <1>8 DEF RecheckStock
<1>10. /\ DOMAIN next = {"step", "todo", "series", "input", "actions", "refetched"}
       /\ next.step = "recheck" /\ next.todo = rest /\ next.input = input
       /\ next.series = series /\ next.actions = r.actions
  BY <1>2, <1>8
<1>11. s \in DOMAIN r.input /\ s \notin DOMAIN r.series
  BY <1>2, <1>4
<1>12. /\ DOMAIN input = DOMAIN r.input /\ input[s] = w
       /\ \A t \in DOMAIN r.input : t # s => input[t] = r.input[t]
  BY <1>6, <1>11 DEF Extended
<1>13. /\ \A t \in DOMAIN series : t \in DOMAIN input /\ series[t] = input[t] /\ Quiet(input[t])
       /\ DOMAIN series \subseteq DOMAIN r.series \cup {s}
  <2>1. \A t \in DOMAIN r.series :
          t \in DOMAIN r.input /\ r.series[t] = r.input[t] /\ Quiet(r.input[t])
    BY <1>1 DEF RunOK
  <2>2. CASE DetectAction(CleanRows(s))
    BY <1>7, <1>11, <1>12, <2>1, <2>2
  <2>3. CASE ~DetectAction(CleanRows(s))
    <3>1. /\ DOMAIN series = DOMAIN r.series \cup {s} /\ series[s] = w
          /\ \A t \in DOMAIN r.series : t # s => series[t] = r.series[t]
      BY <1>7, <2>3 DEF Extended
    <3>2. QED
      BY <1>5, <1>11, <1>12, <2>1, <2>3, <3>1
  <2>4. QED
    BY <2>2, <2>3
<1>14. \A i \in DOMAIN rest : rest[i] \in DOMAIN input \ DOMAIN series
  BY <1>2, <1>4, <1>12, <1>13
<1>15. DOMAIN input \subseteq StockSet /\ \A t \in DOMAIN input : input[t] \in Seq(RsRow)
  BY <1>1, <1>5, <1>12 DEF RunOK
<1>16. RunOK(next)
  BY <1>1, <1>4, <1>10, <1>13, <1>14, <1>15 DEF RunOK
<1>17. QED
  BY <1>1, <1>2, <1>9, <1>16, RunGoesOn

LEMMA ApproveStep ==
  ASSUME RsInv, NEW f \in RsFixes, ApproveFix(f)
  PROVE  RsInv'
<1>1. PICK r, scores, p : /\ rsRun = r /\ rsRows = scores /\ rsPrices = p
                        /\ rsFixed \subseteq RsFixes
                        /\ RunOK(r) /\ RanksOK(scores, r) /\ PricesOK(p)
  BY DEF RsInv
<1>2. /\ rsRun' = r /\ rsRows' = scores /\ rsPrices' = p
      /\ rsFixed' \subseteq RsFixes
  BY <1>1 DEF ApproveFix
<1>3. QED
  BY <1>1, <1>2, RsInvNext

-----------------------------------------------------------------------------
\* The ranking of a checked input.
UpToPlace(place, Q, s) == {t \in Q : RsMarketOf[t] = RsMarketOf[s] /\ place[t] <= place[s]}

LEMMA MarketRanksGrow ==
  ASSUME NEW Q, IsFiniteSet(Q), NEW place, \A s \in Q : place[s] \in Int,
         NEW s \in Q, NEW t \in Q, RsMarketOf[s] = RsMarketOf[t], place[s] < place[t]
  PROVE  Cardinality(UpToPlace(place, Q, s)) < Cardinality(UpToPlace(place, Q, t))
<1>1. PICK A, B : A = UpToPlace(place, Q, s) /\ B = UpToPlace(place, Q, t)
  OBVIOUS
<1>2. A \subseteq B /\ t \in B /\ t \notin A /\ B \subseteq Q
  BY <1>1 DEF UpToPlace
<1>3. IsFiniteSet(B)
  BY <1>2, FS_Subset
<1>4. IsFiniteSet(A) /\ Cardinality(A) <= Cardinality(B) /\ Cardinality(A) # Cardinality(B)
  BY <1>2, <1>3, FS_Subset
<1>5. Cardinality(A) \in Nat /\ Cardinality(B) \in Nat
  BY <1>3, <1>4, FS_CardinalityType
<1>6. Cardinality(A) < Cardinality(B)
  BY <1>4, <1>5
<1>7. QED
  BY <1>1, <1>6

LEMMA RankStep ==
  ASSUME RsInv, RankStocks
  PROVE  RsInv'
<1>1. PICK r, old, p : /\ rsRun = r /\ rsRows = old /\ rsPrices = p
                       /\ rsFixed \subseteq RsFixes
                       /\ RunOK(r) /\ RanksOK(old, r) /\ PricesOK(p)
  BY DEF RsInv
<1>2. PICK Q : Q = Rankable
  OBVIOUS
<1>3. /\ IsFiniteSet(Q) /\ Q \subseteq StockSet
      /\ \A s \in Q : /\ r.input[s] \in Seq(RsRow) /\ r.series[s] = r.input[s]
                      /\ Len(r.input[s]) > RsWindow /\ Quiet(r.input[s])
  BY <1>1, <1>2, RankableSeries
<1>4. PICK R : R = {q \in Q \X Q : Precedes(q[1], q[2])}
  OBVIOUS
<1>5. Orders(R, Q) /\ \A s, t \in Q : RsScore(r.series[s]) > RsScore(r.series[t]) => <<s, t>> \in R
  BY <1>1, <1>2, <1>4, StocksAreOrdered
<1>6. PICK place : place = [s \in Q |-> Cardinality({t \in Q : Precedes(t, s)}) + 1]
  OBVIOUS
<1>7. IsRanking(place, R, Q)
  <2>1. \A s \in Q : {t \in Q : Precedes(t, s)} = Before(R, Q, s)
    BY <1>4 DEF Before
  <2>2. IsPlacing(place, R, Q)
    BY <1>6, <2>1 DEF IsPlacing
  <2>3. QED
    BY <1>3, <1>5, <2>2, PlacesAreRanks
<1>8. PICK n \in Nat : n = Cardinality(Q)
  BY <1>3, FS_CardinalityType
<1>9. PICK scores : scores = [s \in Q |->
       [universe |-> place[s],
        market |-> Cardinality({t \in Q : RsMarketOf[t] = RsMarketOf[s] /\ place[t] <= place[s]}),
        rating |-> RatingForRank(place[s], n),
        long |-> PeriodRating(s, RsWindow)]]
  OBVIOUS
<1>10. PICK next : next = [r EXCEPT !.step = "done"]
  OBVIOUS
<1>11. rsRows' = scores
  BY <1>2, <1>6, <1>8, <1>9 DEF RankStocks
<1>12. rsRun' = next /\ rsPrices' = p /\ rsFixed' \subseteq RsFixes
  BY <1>1, <1>10 DEF RankStocks
<1>13. /\ DOMAIN scores = Q
       /\ \A s \in Q : /\ scores[s].universe = place[s] /\ scores[s].rating = RatingForRank(place[s], n)
                       /\ scores[s].long = PeriodRating(s, RsWindow)
                       /\ scores[s].market = Cardinality(UpToPlace(place, Q, s))
  BY <1>9 DEF UpToPlace
<1>14. /\ \A s \in Q : place[s] \in 1..n
       /\ \A s, t \in Q : <<s, t>> \in R => place[s] < place[t]
       /\ \A i \in 1..n : \E s \in Q : place[s] = i
  BY <1>7, <1>8 DEF IsRanking
<1>15. RunOK(next) /\ next.input = r.input /\ next.step = "done"
  BY <1>1, <1>10 DEF RunOK
<1>16. \A s \in Q : scores[s].rating \in 1..99
  <2> TAKE s \in Q
  <2>1. PICK i \in 1..n : i = place[s]
    BY <1>14
  <2>2. i <= i
    OBVIOUS
  <2>3. RatingForRank(i, n) \in 1..99
    BY ONLY <2>2, RatingsFall, n \in Nat, i \in 1..n
  <2>4. QED
    BY <1>13, <2>1, <2>3
<1>17. ASSUME NEW s \in Q
       PROVE  /\ Len(r.input[s]) > RsWindow
              /\ \A i \in 2..(RsWindow + 1) :
                   ~BreaksLimit(WindowOf(r.input[s])[i - 1], WindowOf(r.input[s])[i])
  BY <1>3, WindowReturns
<1>18. {scores[s].universe : s \in Q} = 1..Cardinality(Q)
  <2>1. \A s \in Q : scores[s].universe \in 1..n
    BY <1>13, <1>14
  <2>2. \A i \in 1..n : \E s \in Q : scores[s].universe = i
    BY <1>13, <1>14
  <2>3. {scores[s].universe : s \in Q} = 1..n
    BY <2>1, <2>2
  <2>4. QED
    BY <1>8, <2>3
<1>19. ASSUME NEW s \in Q, NEW t \in Q,
              RsScore(WindowOf(r.input[s])) > RsScore(WindowOf(r.input[t]))
       PROVE  scores[s].universe < scores[t].universe /\ scores[s].rating >= scores[t].rating
  <2>1. RsScore(r.series[s]) > RsScore(r.series[t])
    BY <1>3, <1>19, WindowReturns
  <2>2. place[s] < place[t]
    BY <1>5, <1>14, <2>1
  <2>3. PICK i \in 1..n, j \in 1..n : i = place[s] /\ j = place[t]
    BY <1>14
  <2>4. i <= j
    BY <2>2, <2>3
  <2>5. RatingForRank(i, n) >= RatingForRank(j, n)
    BY ONLY <2>4, RatingsFall, n \in Nat, i \in 1..n, j \in 1..n
  <2>6. QED
    BY <1>13, <2>2, <2>3, <2>5
<1>20. ASSUME NEW s \in Q, NEW t \in Q, RsMarketOf[s] = RsMarketOf[t],
              scores[s].universe < scores[t].universe
       PROVE  scores[s].market < scores[t].market
  <2>1. scores[s].universe = place[s] /\ scores[t].universe = place[t]
    BY <1>13
  <2>2. place[s] < place[t]
    BY <1>20, <2>1
  <2>3. \A u \in Q : place[u] \in Int
    BY <1>14
  <2>4. Cardinality(UpToPlace(place, Q, s)) < Cardinality(UpToPlace(place, Q, t))
    BY <1>3, <1>20, <2>2, <2>3, MarketRanksGrow
  <2>5. QED
    BY <1>13, <2>4
<1>21. ASSUME NEW s \in Q, NEW t \in Q,
              ReturnOver(WindowOf(r.input[s]), RsWindow) = ReturnOver(WindowOf(r.input[t]), RsWindow)
       PROVE  scores[s].long = scores[t].long
  <2>1. ReturnOver(r.series[s], RsWindow) = ReturnOver(r.series[t], RsWindow)
    BY <1>3, <1>21, WindowReturns
  <2>2. PeriodRating(s, RsWindow) = PeriodRating(t, RsWindow)
    BY <1>1, <2>1 DEF PeriodRating
  <2>3. QED
    BY <1>13, <2>2
<1>22. Earned(scores, r.input)
  BY <1>13, <1>17, <1>18, <1>19, <1>20, <1>21 DEF Earned
<1>23. RanksOK(scores, next)
  BY <1>3, <1>13, <1>15, <1>16, <1>22 DEF RanksOK
<1>24. QED
  BY <1>1, <1>11, <1>12, <1>15, <1>23, RsInvNext

-----------------------------------------------------------------------------
LEMMA RsStarts == RsInit => RsInv
<1> SUFFICES ASSUME RsInit PROVE RsInv
  OBVIOUS
<1>1. PICK p : p = rsPrices
  OBVIOUS
<1>2. PricesOK(p)
  BY <1>1, RsAssumption DEF RsInit, PricesOK, IsHistory, RsRow
<1>3. PICK r : r = rsRun
  OBVIOUS
<1>4. /\ r = [step |-> "load", todo |-> RsStocks, series |-> <<>>, input |-> <<>>,
              actions |-> <<>>, refetched |-> FALSE]
      /\ rsRows = <<>> /\ rsFixed = {}
  BY <1>3 DEF RsInit
<1>5. RunOK(r)
  <2>1. RsStocks \in Seq(StockSet) /\ Distinct(RsStocks)
    BY RsAssumption DEF StockSet, Distinct
  <2>2. DOMAIN <<>> = {} /\ <<>> \in Seq(StockSet)
    OBVIOUS
  <2>3. QED
    BY <1>4, <2>1, <2>2 DEF RunOK, Distinct
<1>6. QED
  BY <1>1, <1>2, <1>3, <1>4, <1>5, NoRows DEF RsInv

LEMMA RsSteps == RsInv /\ [RsNext]_rsVars => RsInv'
<1>1. ASSUME RsInv, UNCHANGED rsVars PROVE RsInv'
  BY <1>1 DEF rsVars, RsInv
<1>2. QED
  BY <1>1, ApproveStep, LoadStep, AllLoadedStep, RefetchStep, RefetchFailsStep, AllRefetchedStep,
     RecheckStep, RankStep DEF RsNext

\* corporate_action_filter.py:79: for every number of stocks, histories and
\* windows, a ranked stock has a full window without a move beyond the price
\* limit in the rows its lineage hashes, the ranks are a total order that follows
\* the score, market ranks and ratings follow it, and equal 12-month returns are
\* rated equal - whatever is approved or fetched again between the reads.
THEOREM RanksTheorem == RsSpec => [](RsTypeOK /\ RanksAreEarned)
<1>1. RsInv => RsTypeOK
  BY DEF RsInv, RsTypeOK, RunOK, RanksOK
<1>2. ASSUME RsInv PROVE RanksAreEarned
  <2>1. PICK r, scores : rsRun = r /\ rsRows = scores /\ Earned(scores, r.input)
    BY <1>2 DEF RsInv, RanksOK
  <2>2. RanksAreEarned <=> Earned(rsRows, rsRun.input)
    BY DEF RanksAreEarned, Earned, WindowOf
  <2>3. QED
    BY <2>1, <2>2
<1>3. QED
  BY RsStarts, RsSteps, <1>1, <1>2, PTL DEF RsSpec

=============================================================================
