---------------------------- MODULE AnalysisWorkflow ----------------------------
(***************************************************************************)
(* One analysis request and the code changes proposed by its report.       *)
(* Users request an analysis, the agent Sam accepts it and submits the     *)
(* report, users turn proposals into changes and review them, Codex        *)
(* records how they went, and the request's status is rolled up from its   *)
(* changes.  A closed request may be pruned after a year.                  *)
(*                                                                         *)
(* A session reads what is committed, locks at most the row of the change  *)
(* it works on, and writes a column only if its value differs from what    *)
(* the session has read.  Steps that lock the request row are atomic.      *)
(***************************************************************************)
EXTENDS Integers, FiniteSets

CONSTANTS
  Proposals,    \* proposal ids a report may contain
  Findings,     \* finding ids
  Sessions,     \* concurrent API sessions, and the pruning script
  SampleLimit   \* sample_limit of the request

ASSUME AnalysisAssumption == SampleLimit \in 1..10

VARIABLES
  analysis,    \* crawl_analysis_requests.status, "none" before, "pruned" after
  offered,     \* the report: finding ids each proposal refers to
  change,      \* codex_change_requests.status per proposal
  session,     \* what each open session has read and is about to write
  overlapped,  \* history: two sessions worked on the request at once
  passed       \* history: statuses each change went through

analysisVars == <<analysis, offered, change, session, overlapped, passed>>

ChangeStatus == {"proposed", "approved", "running", "verified", "implemented", "deferred", "failed"}
TerminalStatus == {"implemented", "partially_implemented", "deferred"}
Closed == {"implemented", "deferred", "failed"}
NoSession == [op |-> "none", on |-> "none", to |-> "none", was |-> "none", roll |-> "none"]

AnalysisTypeOK ==
  /\ analysis \in {"none", "requested", "accepted", "report_ready", "codex_reviewed", "pruned"}
       \cup TerminalStatus
  /\ \A q \in DOMAIN offered : offered[q] \subseteq Findings
  /\ change \in [Proposals -> ChangeStatus \cup {"none"}]
  /\ \A s \in Sessions : session[s].op \in {"none", "create", "propose", "change", "prune"}

AnalysisInit ==
  /\ analysis = "none"
  /\ offered = <<>>
  /\ change = [q \in Proposals |-> "none"]
  /\ session = [s \in Sessions |-> NoSession]
  /\ overlapped = FALSE
  /\ passed = [q \in Proposals |-> {}]

Open(s, entry) ==
  /\ session[s] = NoSession
  /\ session' = [session EXCEPT ![s] = entry]
  /\ overlapped' = (overlapped \/ \E t \in Sessions : session[t] # NoSession)

Close(s) == session' = [session EXCEPT ![s] = NoSession]

\* create_request finds neither its idempotency key nor its request id.
LookUpKey(s) ==
  /\ analysis = "none"
  /\ Open(s, [NoSession EXCEPT !.op = "create"])
  /\ UNCHANGED <<analysis, offered, change, passed>>

\* The insert; the unique key fails the second one, whose caller gets an error
\* instead of the request.
CreateRequest(s) ==
  /\ session[s].op = "create"
  /\ analysis' = IF analysis = "none" THEN "requested" ELSE analysis
  /\ Close(s)
  /\ UNCHANGED <<offered, change, overlapped, passed>>

AcceptRequest ==
  /\ analysis = "requested"
  /\ analysis' = "accepted"
  /\ UNCHANGED <<offered, change, session, overlapped, passed>>

\* validate_analysis_report: `evidence` counts items per error type.
ReportAccepted(findings, limited, refs, evidence) ==
  /\ findings # {} \/ limited
  /\ evidence <= SampleLimit /\ evidence <= 3
  /\ \A q \in DOMAIN refs : refs[q] \subseteq findings

SubmitReport(findings, limited, refs, evidence) ==
  /\ analysis = "accepted"
  /\ ReportAccepted(findings, limited, refs, evidence)
  /\ analysis' = "report_ready"
  /\ offered' = refs
  /\ UNCHANGED <<change, session, overlapped, passed>>

\* create_from_proposal, without a lock.
ReadProposal(s, q) ==
  /\ analysis \in {"report_ready", "codex_reviewed"}
  /\ q \in DOMAIN offered /\ change[q] = "none"
  /\ Open(s, [NoSession EXCEPT !.op = "propose", !.on = q, !.was = analysis])
  /\ UNCHANGED <<analysis, offered, change, passed>>

\* The request's status as the session writes it, if it writes it at all.
WrittenStatus(s, status) == IF status = session[s].was THEN analysis ELSE status

\* The insert fails if the proposal has a change or the report is gone by now.
CreateChange(s) ==
  LET q == session[s].on IN
  /\ session[s].op = "propose"
  /\ IF change[q] = "none" /\ analysis # "pruned"
     THEN /\ change' = [change EXCEPT ![q] = "proposed"]
          /\ passed' = [passed EXCEPT ![q] = {"proposed"}]
          /\ analysis' = WrittenStatus(s, "codex_reviewed")
     ELSE UNCHANGED <<change, passed, analysis>>
  /\ Close(s)
  /\ UNCHANGED <<offered, overlapped>>

\* What review and record_result let a change become.
AllowedFrom(to) ==
  CASE to = "approved" -> {"proposed"}
    [] to = "running" -> {"approved"}
    [] to \in {"verified", "failed"} -> {"approved", "running"}
    [] to = "implemented" -> {"verified"}
    [] to = "deferred" -> {"proposed", "approved", "verified", "failed"}

\* _roll_up_analysis_request over the statuses of a request's changes.
RollUp(statuses) ==
  IF statuses \ Closed # {} THEN "codex_reviewed"
  ELSE IF statuses = {"implemented"} THEN "implemented"
  ELSE IF "implemented" \in statuses THEN "partially_implemented" ELSE "deferred"

MutLockChange(s, q, to) ==   \* the roll-up reads the change's old status
  /\ change[q] \in AllowedFrom(to)
  /\ \A t \in Sessions : ~(session[t].op = "change" /\ session[t].on = q)
  /\ Open(s, [op |-> "change", on |-> q, to |-> to, was |-> analysis,
              roll |-> RollUp({change[p] : p \in Proposals} \ {"none"})])
  /\ UNCHANGED <<analysis, offered, change, passed>>

\* Lock the change, check and set its status, and roll up with the committed
\* statuses of the others.
LockChange(s, q, to) ==
  /\ change[q] \in AllowedFrom(to)
  /\ \A t \in Sessions : ~(session[t].op = "change" /\ session[t].on = q)
  /\ Open(s, [op |-> "change", on |-> q, to |-> to, was |-> analysis,
              roll |-> RollUp(({change[p] : p \in Proposals \ {q}} \ {"none"}) \cup {to})])
  /\ UNCHANGED <<analysis, offered, change, passed>>

CommitChange(s) ==
  /\ session[s].op = "change"
  /\ change' = [change EXCEPT ![session[s].on] = session[s].to]
  /\ passed' = [passed EXCEPT ![session[s].on] = @ \cup {session[s].to}]
  /\ analysis' = WrittenStatus(s, session[s].roll)
  /\ Close(s)
  /\ UNCHANGED <<offered, overlapped>>

\* The commit fails, or the client is gone: rollback.
RollBack(s) ==
  /\ session[s] # NoSession
  /\ Close(s)
  /\ UNCHANGED <<analysis, offered, change, overlapped, passed>>

\* The script lists terminal requests that are old enough ...
SelectExpired(s) ==
  /\ analysis \in TerminalStatus
  /\ Open(s, [NoSession EXCEPT !.op = "prune"])
  /\ UNCHANGED <<analysis, offered, change, passed>>

\* ... and deletes them with everything below, once no change is locked.
Prune(s) ==
  /\ session[s].op = "prune"
  /\ \A t \in Sessions : session[t].op # "change"
  /\ analysis' = "pruned"
  /\ offered' = <<>>
  /\ change' = [q \in Proposals |-> "none"]
  /\ Close(s)
  /\ UNCHANGED <<overlapped, passed>>

AnalysisNext ==
  \/ AcceptRequest
  \/ \E findings \in SUBSET Findings, limited \in BOOLEAN, evidence \in 0..4 :
     \E offers \in SUBSET Proposals : \E refs \in [offers -> SUBSET Findings] :
       SubmitReport(findings, limited, refs, evidence)
  \/ \E s \in Sessions :
       \/ LookUpKey(s) \/ CreateRequest(s) \/ CreateChange(s) \/ CommitChange(s)
       \/ RollBack(s) \/ SelectExpired(s) \/ Prune(s)
       \/ \E q \in Proposals :
            \/ ReadProposal(s, q)
            \/ \E to \in ChangeStatus \ {"proposed"} : LockChange(s, q, to)

AnalysisSpec == AnalysisInit /\ [][AnalysisNext]_analysisVars

-----------------------------------------------------------------------------
\* Every implemented change was approved by a user and verified by Codex first,
\* whichever sessions raced; a closed or pruned request had no open change as
\* long as no two sessions worked on it at once (with an overlap the roll-up of
\* one may miss the other's change).
ClosedIsDone ==
  /\ \A q \in Proposals : "implemented" \in passed[q] => {"proposed", "approved", "verified"} \subseteq passed[q]
  /\ ~overlapped =>
       LET made == {q \in Proposals : change[q] # "none"}
           open == {q \in made : change[q] \notin Closed} IN
       /\ analysis \in TerminalStatus <=> made # {} /\ open = {}
       /\ analysis = "implemented" <=>
            made # {} /\ \A q \in made : change[q] = "implemented"
       /\ analysis = "partially_implemented" => Cardinality({change[q] : q \in made}) > 1
       /\ analysis = "pruned" => \A q \in Proposals : passed[q] # {} => passed[q] \cap Closed # {}

=============================================================================
