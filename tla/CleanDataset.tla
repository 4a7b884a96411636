------------------------------ MODULE CleanDataset ------------------------------
(***************************************************************************)
(* Publishing cleansed prices.  An audit judges every expected trading day *)
(* of the listed instruments from the evidence stored for it and leaves    *)
(* its counts; a script (or a session that calls the service directly)     *)
(* judges the days again, one after the other, publishes the segments all  *)
(* of whose days are valid, and gives up when its counts are not those of  *)
(* the audit.  Meanwhile observations, approvals, corporate actions and    *)
(* listing events are committed.                                           *)
(*                                                                         *)
(* A price is abstracted to a number: 0 breaks the OHLCV rules, two others *)
(* that differ are more than 30% apart.  All days are of one year, so a    *)
(* segment is an instrument.                                               *)
(***************************************************************************)
EXTENDS Integers, FiniteSets, SequencesExt

CONSTANTS
  Instruments,
  LastDay,          \* the range is 1..LastDay, all of them trading days
  FirstEvidence,    \* evidence of each <<instrument, day>> at first
  FirstListing,     \* listing events of each instrument at first
  ListingImports,   \* events an import may bring: <<instrument, event>>
  Observations,     \* that may be committed late: <<key, owner, price>>
  Corrections,      \* that may be approved: <<key, price>>
  MaxEvidence       \* bound on the changes of evidence and listing

TradingDays == 1..LastDay
PriceKeys == Instruments \X TradingDays
Via == {"script", "direct"}

EvidenceFields == {"observed", "stored", "fixed", "excluded", "action"}

ASSUME CleanAssumption ==
  /\ LastDay \in Nat \ {0} /\ IsFiniteSet(Instruments) /\ MaxEvidence \in Nat
  /\ DOMAIN FirstEvidence = PriceKeys
  /\ \A k \in PriceKeys :
       /\ DOMAIN FirstEvidence[k] = EvidenceFields
       /\ FirstEvidence[k].stored \in {"none", "sound", "broken"}

VARIABLES
  evidence,   \* of each expected price: what the tables hold
  ledger,     \* listing_events of each instrument, in order of their ids
  audit,      \* summary.json and manifest.json of the last audit
  builder,    \* create_clean_backtest_dataset, in its transaction
  published,  \* backtest_datasets with their rows
  changes,    \* commits so far, of which there are at most MaxEvidence
  whole       \* history: what judging each committed state at once gives

cleanVars == <<evidence, ledger, audit, builder, published, changes, whole>>

NotBuilding == [pc |-> "none"]
NotAudited == [pc |-> "none"]

-----------------------------------------------------------------------------
(* The listing ledger and the universe it gives.  An event belongs to a    *)
(* record of its source; a later revision of the record replaces it, and   *)
(* one that says what any earlier revision said is suppressed.             *)

Ingested(events, e) == IF e \in ToSet(events) THEN events ELSE Append(events, e)

CurrentRevisions(events) ==
  SelectSeq(events, LAMBDA e :
    e = events[CHOOSE i \in DOMAIN events :
                 /\ events[i].record = e.record
                 /\ \A j \in i+1..Len(events) : events[j].record # e.record])

Expire(state, e) ==
  [listed |-> state.listed /\ e.type # "listed",
   trading |-> state.trading \/ e.type = "trading_halted"]

Apply(state, e) ==
  [listed |-> IF e.type \in {"listed", "delisted"} THEN e.type = "listed" ELSE state.listed,
   trading |-> IF e.type \in {"trading_halted", "trading_resumed"}
               THEN e.type = "trading_resumed" ELSE state.trading]

\* The state on each day: first what ends on it, then what begins, in order;
\* day 0 stands for all days before the range.
ListingState(events) ==
  LET current == CurrentRevisions(events)
      at[d \in 0..LastDay] ==
        LET before == IF d = 0 THEN [listed |-> FALSE, trading |-> TRUE] ELSE at[d - 1]
            kept == FoldLeft(Expire, before, SelectSeq(current, LAMBDA e : e.to = d))
        IN FoldLeft(Apply, kept, SelectSeq(current, LAMBDA e : e.from = d))
  IN at

Of(events, types) == SelectSeq(CurrentRevisions(events), LAMBDA e : e.type \in types)

\* In order of day, then of id: the transition that holds at the end.  (No
\* instrument is taken to carry a delisting of its own, listing_status, which
\* leaves one out as well.)
Delisted(events) ==
  LET moves == Of(events, {"listed", "delisted"})
      latest == {i \in DOMAIN moves : \A j \in DOMAIN moves : moves[j].from <= moves[i].from}
  IN latest # {} /\ moves[CHOOSE i \in latest : \A j \in latest : j <= i].type = "delisted"

\* The members by day, with those that trade; delisted instruments and those
\* without a listing event are left out.
Universe(listing) ==
  LET members == {i \in Instruments :
                    ~Delisted(listing[i]) /\ Of(listing[i], {"listed"}) # <<>>}
      states == [i \in members |-> ListingState(listing[i])]
      entries == {k \in members \X TradingDays : states[k[1]][k[2]].listed}
  IN [entries |-> entries, expected |-> {k \in entries : states[k[1]][k[2]].trading}]

-----------------------------------------------------------------------------
(* Judging a day.                                                          *)

Statuses == {"valid", "missing", "invalid", "review_required", "non_tradable"}

\* An approved correction takes the place of what was observed.
PriceOf(e) == IF e.fixed = <<>> THEN (CHOOSE o \in e.observed : TRUE)[2] ELSE Last(e.fixed)

\* assess_observation, for a day with observations of the provider.
Assessed(e) ==
  IF Cardinality(e.observed) > 1 THEN "review_required"   \* two owners, or two values
  ELSE IF e.excluded \/ PriceOf(e) = 0 THEN "invalid"
  ELSE "valid"

\* What the publication says of a day without observations, and the audit.
CleanStatus(e) ==
  IF e.observed # {} THEN Assessed(e)
  ELSE IF e.stored = "none" THEN "missing" ELSE "review_required"

AuditStatus(e) ==
  IF e.observed # {} THEN Assessed(e)
  ELSE CASE e.stored = "none" -> "missing"
         [] e.stored = "sound" -> "review_required"
         [] e.stored = "broken" -> "invalid"

\* What either judge, the audit or the publication, says of a trading day.
StatusBy(judge, e) == IF judge = "audit" THEN AuditStatus(e) ELSE CleanStatus(e)

\* The instrument's close of the trading day before, if that was valid: days
\* are counted on which any instrument is a member.
CloseBefore(k, universe, judged) ==
  LET days == {d \in 1..k[2]-1 : \E i \in Instruments : <<i, d>> \in universe.entries}
      before == {d \in days : \A e \in days : e <= d}
  IN {judged[<<k[1], d>>].price : d \in
        {d \in before : <<k[1], d>> \in DOMAIN judged /\ judged[<<k[1], d>>].status = "valid"}}

\* The decisions of day `d` added to those of the days before.
JudgeDay(held, universe, judged, d, judge) ==
  LET Decision(k) ==
        LET e == held[k]
            status == IF k \notin universe.expected THEN "non_tradable" ELSE StatusBy(judge, e)
            close == CloseBefore(k, universe, judged)
            jumps == status = "valid" /\ close \notin {{}, {PriceOf(e)}} /\ ~e.action
        IN [status |-> IF jumps THEN "review_required" ELSE status,
            price |-> IF status = "valid" /\ ~jumps THEN PriceOf(e) ELSE 0]
  IN judged @@ [k \in {k \in universe.entries : k[2] = d} |-> Decision(k)]

Judged(state, judge) ==
  LET universe == Universe(state.ledger)
      upTo[d \in 0..LastDay] ==
        IF d = 0 THEN <<>> ELSE JudgeDay(state.evidence, universe, upTo[d - 1], d, judge)
  IN upTo[LastDay]

CountOf(judged, keys) == [s \in Statuses |-> Cardinality({k \in keys : judged[k].status = s})]

\* The segments all of whose expected days are valid; a segment has one.
PublishedKeys(judged, universe) ==
  {k \in universe.expected : \A j \in universe.expected : j[1] = k[1] => judged[j].status = "valid"}

\* The counts of the manifest take the published rows a second time.
CoverageOf(judged, universe) ==
  LET once == CountOf(judged, DOMAIN judged)
      again == CountOf(judged, PublishedKeys(judged, universe))
  IN [s \in Statuses |-> once[s] + again[s]]

\* The manifest of a dataset, whose hash is its name, and its rows.
DatasetOf(judged, universe, listing) ==
  [rows |-> [k \in PublishedKeys(judged, universe) |-> judged[k].price],
   coverage |-> CoverageOf(judged, universe),
   revisions |-> [i \in Instruments |-> CurrentRevisions(listing[i])]]

Whole(state) ==
  DatasetOf(Judged(state, "publication"), Universe(state.ledger), state.ledger)

-----------------------------------------------------------------------------
(* What is stored meanwhile.                                               *)

CleanInit ==
  /\ evidence = FirstEvidence
  /\ ledger = FirstListing
  /\ audit = NotAudited
  /\ builder = NotBuilding
  /\ published = {} /\ changes = 0
  /\ whole = {Whole([evidence |-> FirstEvidence, ledger |-> FirstListing])}

StateNow == [evidence |-> evidence, ledger |-> ledger]

CleanTypeOK ==
  /\ \A k \in PriceKeys : evidence[k].stored \in {"none", "sound", "broken"}
  /\ builder.pc \in {"none", "reading", "ended"}
  /\ builder.pc # "none" => builder.day \in 0..LastDay
  /\ changes \in 0..MaxEvidence

Committed(newEvidence, newLedger) ==
  /\ changes < MaxEvidence /\ changes' = changes + 1
  /\ evidence' = newEvidence /\ ledger' = newLedger
  /\ whole' = whole \cup {Whole([evidence |-> newEvidence, ledger |-> newLedger])}
  /\ UNCHANGED <<audit, builder, published>>

\* Observed before the cutoff, committed now; under one of two symbols of the
\* instrument.
CommitObservation(k, owner, v) ==
  Committed([evidence EXCEPT ![k].observed = @ \cup {<<owner, v>>}], ledger)

StoreCanonical(k, how) == Committed([evidence EXCEPT ![k].stored = how], ledger)
ApproveExclusion(k) == Committed([evidence EXCEPT ![k].excluded = TRUE], ledger)
ApproveCorrection(k, v) == Committed([evidence EXCEPT ![k].fixed = Append(<<>>, v)], ledger)
RecordCorporateAction(k) == Committed([evidence EXCEPT ![k].action = TRUE], ledger)
ImportListing(i, e) == Committed(evidence, [ledger EXCEPT ![i] = Ingested(@, e)])

-----------------------------------------------------------------------------
(* The audit (one snapshot, read only) and the publication.                *)

RunAudit ==
  /\ builder = NotBuilding
  /\ LET judged == Judged(StateNow, "audit") IN
     audit' = [pc |-> "done", counts |-> CountOf(judged, DOMAIN judged), of |-> StateNow]
  /\ UNCHANGED <<evidence, ledger, builder, published, changes, whole>>

\* The script refuses an audit without expected days.
BeginBuild(via) ==
  /\ builder = NotBuilding
  /\ via = "script" => audit # NotAudited /\ Universe(audit.of.ledger).expected # {}
  /\ builder' = [pc |-> "reading", via |-> via, day |-> 0, judged |-> <<>>,
                 snap |-> StateNow, universe |-> Universe(ledger), datasets |-> published]
  /\ UNCHANGED <<evidence, ledger, audit, published, changes, whole>>

MutView == StateNow   \* READ COMMITTED: every query sees what is committed

\* REPEATABLE READ is required: every query sees the snapshot.
View == builder.snap

ReadDay ==
  /\ builder.pc = "reading" /\ builder.day < LastDay
  /\ builder' = [builder EXCEPT
       !.day = @ + 1,
       !.judged = JudgeDay(View.evidence, builder.universe, @, builder.day + 1, "publication")]
  /\ UNCHANGED <<evidence, ledger, audit, published, changes, whole>>

\* A dataset of the same manifest in the snapshot is returned; one committed
\* since stops the insert.  The script rolls back when its counts are not the
\* audit's.
Publish ==
  /\ builder.pc = "reading" /\ builder.day = LastDay
  /\ LET new == DatasetOf(builder.judged, builder.universe, builder.snap.ledger)
         differs == builder.via = "script" /\ new.coverage # audit.counts
         result == IF new \notin builder.datasets /\ new \in published THEN "collision"
                   ELSE IF differs THEN "audit changed"
                   ELSE "dataset"
     IN /\ published' = published \cup IF result = "dataset" THEN {new} ELSE {}
        /\ builder' = [pc |-> "ended", day |-> LastDay, result |-> result, snap |-> builder.snap]
  /\ UNCHANGED <<evidence, ledger, audit, changes, whole>>

\* The process ends, or is killed with its transaction open.
EndBuild ==
  /\ builder # NotBuilding
  /\ builder' = NotBuilding
  /\ UNCHANGED <<evidence, ledger, audit, published, changes, whole>>

CleanNext ==
  \/ \E k \in PriceKeys :
       \/ \E how \in {"sound", "broken"} : StoreCanonical(k, how)
       \/ ApproveExclusion(k) \/ RecordCorporateAction(k)
  \/ \E o \in Observations : CommitObservation(o[1], o[2], o[3])
  \/ \E c \in Corrections : ApproveCorrection(c[1], c[2])
  \/ \E import \in ListingImports : ImportListing(import[1], import[2])
  \/ RunAudit \/ (\E via \in Via : BeginBuild(via)) \/ ReadDay \/ Publish \/ EndBuild

CleanSpec == CleanInit /\ [][CleanNext]_cleanVars

-----------------------------------------------------------------------------
\* clean_backtest_snapshot.py:32, 44: although days are judged one by one while
\* evidence is committed, a dataset that is published is what judging one state
\* of the evidence as a whole gives: its rows are the complete segments of that
\* state, and its revisions and counts describe the same state.
DatasetIsOneSnapshot ==
  published \subseteq whole

\* scripts/create_clean_backtest_dataset.py:49-51 stops with "audit changed
\* before dataset creation", and docs/ohlcv_cleansing_runbook.md:20 says that
\* it stops when the rule version or the counts by status do not agree: a
\* publication that reads exactly what the audit read is not stopped.
UnchangedAuditIsPublished ==
  builder.pc = "ended" /\ builder.result = "audit changed" => builder.snap # audit.of

=============================================================================
