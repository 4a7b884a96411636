------------------------------- MODULE ApiProofs -------------------------------
(***************************************************************************)
(* What the API promises for every number of sessions, threads, proposals  *)
(* and tokens: the workflow of an analysis request and its code changes    *)
(* (AnalysisWorkflow, from the inductive invariant AnalysisInv), and the   *)
(* bounds of the read API (ApiRuntime, from ApiInv).                       *)
(***************************************************************************)
EXTENDS AnalysisWorkflow, ApiRuntime, FiniteSetTheorems, SequenceTheorems,
        WellFoundedInduction, TLAPS

-----------------------------------------------------------------------------
(* Analysis requests.                                                      *)

AnalysisStatus ==
  {"none", "requested", "accepted", "report_ready", "codex_reviewed", "pruned"} \cup TerminalStatus

Entry == [op : {"none", "create", "propose", "change", "prune"},
          on : Proposals \cup {"none"}, to : ChangeStatus \cup {"none"},
          was : AnalysisStatus, roll : {"none", "codex_reviewed"} \cup TerminalStatus]

\* The statuses of those proposals of Q that have a change, as `statuses` has them.
StatusesOf(statuses, Q) == {statuses[p] : p \in Q} \ {"none"}

AnalysisShapes ==
  /\ analysis \in AnalysisStatus
  /\ \A q \in DOMAIN offered : offered[q] \subseteq Findings
  /\ DOMAIN offered \subseteq Proposals
  /\ change \in [Proposals -> ChangeStatus \cup {"none"}]
  /\ passed \in [Proposals -> SUBSET ChangeStatus]
  /\ session \in [Sessions -> Entry]
  /\ \A s \in Sessions :
       /\ session[s].op = "none" <=> session[s] = NoSession
       /\ session[s].op \in {"propose", "change"} => session[s].on \in Proposals
       /\ session[s].op = "change" => session[s].to \in ChangeStatus \ {"proposed"}
  /\ overlapped \in BOOLEAN

\* What a change has passed through leads up to where it is.
PassedInOrder(statuses) ==
  /\ statuses # {} => "proposed" \in statuses
  /\ statuses \cap {"running", "verified", "failed"} # {} => "approved" \in statuses
  /\ "implemented" \in statuses => "verified" \in statuses

\* A change is where its history ends, and a history without a change is one
\* of a pruned request.
ChangesHavePassed ==
  \A q \in Proposals :
    /\ PassedInOrder(passed[q])
    /\ change[q] # "none" => change[q] \in passed[q] /\ analysis # "pruned"
    /\ passed[q] # {} /\ change[q] = "none" => analysis = "pruned"

\* A session that holds a change's row finds it as it was checked, and is
\* alone with it.
LocksAreExclusive ==
  \A s \in Sessions : session[s].op = "change" =>
    /\ change[session[s].on] \in AllowedFrom(session[s].to)
    /\ \A t \in Sessions : session[t].op = "change" /\ session[t].on = session[s].on => t = s

\* While sessions do not overlap, the request's status is the roll-up of its
\* changes, and a session writes what is still true.
AloneInOrder ==
  ~overlapped =>
    /\ \A s, t \in Sessions : session[s] # NoSession /\ session[t] # NoSession => s = t
    /\ IF StatusesOf(change, Proposals) = {}
       THEN analysis \notin TerminalStatus
       ELSE analysis = RollUp(StatusesOf(change, Proposals))
    /\ \A s \in Sessions :
         /\ session[s].op \in {"propose", "change"} => session[s].was = analysis
         /\ session[s].op = "propose" => analysis \in {"report_ready", "codex_reviewed"}
         /\ session[s].op = "change" =>
              session[s].roll
                = RollUp(StatusesOf(change, Proposals \ {session[s].on}) \cup {session[s].to})
         /\ session[s].op = "prune" => analysis \in TerminalStatus
    /\ analysis = "pruned" => \A q \in Proposals : passed[q] # {} => passed[q] \cap Closed # {}

AnalysisInv == AnalysisShapes /\ ChangesHavePassed /\ LocksAreExclusive /\ AloneInOrder

\* The statuses a change may be set to, from where.
LEMMA AllowedSteps ==
  /\ AllowedFrom("approved") = {"proposed"}
  /\ AllowedFrom("running") = {"approved"}
  /\ AllowedFrom("verified") = {"approved", "running"}
  /\ AllowedFrom("failed") = {"approved", "running"}
  /\ AllowedFrom("implemented") = {"verified"}
  /\ AllowedFrom("deferred") = {"proposed", "approved", "verified", "failed"}
BY DEF AllowedFrom

\* A change is set only from a status it has.
LEMMA AllowedIsStatus ==
  ASSUME NEW to \in ChangeStatus \ {"proposed"}
  PROVE  AllowedFrom(to) \subseteq ChangeStatus /\ "none" \notin AllowedFrom(to)
BY AllowedSteps DEF ChangeStatus

\* Setting a change to a status it may be set to keeps its history in order.
LEMMA PassingOn ==
  ASSUME NEW S \in SUBSET ChangeStatus, PassedInOrder(S), NEW to \in ChangeStatus \ {"proposed"},
         NEW from \in S, from \in AllowedFrom(to)
  PROVE  PassedInOrder(S \cup {to})
BY AllowedSteps DEF ChangeStatus, PassedInOrder

\* What a roll-up says of the statuses.
LEMMA RollsUp ==
  ASSUME NEW S, S # {}
  PROVE  /\ RollUp(S) \in {"codex_reviewed"} \cup TerminalStatus
         /\ RollUp(S) \in TerminalStatus <=> S \subseteq Closed
         /\ RollUp(S) = "implemented" <=> S = {"implemented"}
         /\ RollUp(S) = "partially_implemented" => "implemented" \in S /\ S # {"implemented"}
BY DEF RollUp, TerminalStatus, Closed

\* Nothing has happened before the first request.
LEMMA AnalysisStarts == AnalysisInit => AnalysisInv
<1> SUFFICES ASSUME AnalysisInit PROVE AnalysisInv
    OBVIOUS
<1> USE DEF AnalysisInit
<1>1. NoSession \in Entry
  BY DEF NoSession, Entry, AnalysisStatus
<1>2. AnalysisShapes
  <2>1. session \in [Sessions -> Entry]
    BY <1>1
  <2>2. \A s \in Sessions : session[s] = NoSession /\ session[s].op = "none"
    BY DEF NoSession
  <2>3. change \in [Proposals -> ChangeStatus \cup {"none"}] /\ passed \in [Proposals -> SUBSET ChangeStatus]
    OBVIOUS
  <2>4. DOMAIN offered = {} /\ analysis \in AnalysisStatus
    BY DEF AnalysisStatus
  <2> QED BY <2>1, <2>2, <2>3, <2>4 DEF AnalysisShapes
<1>3. ChangesHavePassed
  BY DEF ChangesHavePassed, PassedInOrder
<1>4. LocksAreExclusive
  BY DEF LocksAreExclusive, NoSession
<1>5. AloneInOrder
  <2>1. StatusesOf(change, Proposals) = {}
    BY DEF StatusesOf
  <2>2. analysis \notin TerminalStatus /\ analysis # "pruned"
    BY DEF TerminalStatus
  <2>3. \A s \in Sessions : session[s] = NoSession /\ session[s].op = "none"
    BY DEF NoSession
  <2> QED BY <2>1, <2>2, <2>3 DEF AloneInOrder
<1> QED BY <1>2, <1>3, <1>4, <1>5 DEF AnalysisInv

\* Opening a session keeps the others as they are; if there are any, the two
\* overlap from now on.
LEMMA Opens ==
  ASSUME AnalysisShapes, NEW s \in Sessions, NEW entry \in Entry, entry.op # "none", Open(s, entry)
  PROVE  /\ session[s] = NoSession /\ session'[s] = entry
         /\ \A t \in Sessions \ {s} : session'[t] = session[t]
         /\ session' \in [Sessions -> Entry]
         /\ overlapped' \in BOOLEAN
         /\ ~overlapped' => ~overlapped /\ \A t \in Sessions : session[t] = NoSession
         /\ \A t, u \in Sessions : ~overlapped' /\ session'[t] # NoSession /\ session'[u] # NoSession => t = u
<1>1. session \in [Sessions -> Entry] /\ overlapped \in BOOLEAN
  BY DEF AnalysisShapes
<1>2. session[s] = NoSession /\ session' = [session EXCEPT ![s] = entry]
      /\ overlapped' = (overlapped \/ \E t \in Sessions : session[t] # NoSession)
  BY DEF Open
<1>3. session'[s] = entry /\ \A t \in Sessions \ {s} : session'[t] = session[t]
  BY <1>1, <1>2
<1>4. session' \in [Sessions -> Entry]
  BY <1>1, <1>2
<1>5. overlapped' \in BOOLEAN
      /\ (~overlapped' => ~overlapped /\ \A t \in Sessions : session[t] = NoSession)
  BY <1>1, <1>2, Zenon
<1> QED BY <1>2, <1>3, <1>4, <1>5

\* Closing a session keeps the others as they are.
LEMMA ClosesAlone ==
  ASSUME AnalysisShapes, NEW s \in Sessions, Close(s)
  PROVE  /\ session'[s] = NoSession
         /\ \A t \in Sessions \ {s} : session'[t] = session[t]
         /\ session' \in [Sessions -> Entry]
         /\ \A t \in Sessions : session'[t] # NoSession => t # s /\ session'[t] = session[t]
<1>1. NoSession \in Entry
  BY DEF NoSession, Entry, AnalysisStatus
<1> QED BY <1>1 DEF AnalysisShapes, Close

\* A session that is opened with what is committed keeps the invariant.
LEMMA OpeningKeeps ==
  ASSUME AnalysisInv, NEW s \in Sessions, NEW entry \in Entry, entry.op # "none", Open(s, entry),
         UNCHANGED <<analysis, offered, change, passed>>,
         entry.op \in {"propose", "change"} => entry.on \in Proposals /\ entry.was = analysis,
         entry.op = "propose" => analysis \in {"report_ready", "codex_reviewed"},
         entry.op = "change" =>
           /\ entry.to \in ChangeStatus \ {"proposed"}
           /\ change[entry.on] \in AllowedFrom(entry.to)
           /\ \A t \in Sessions : ~(session[t].op = "change" /\ session[t].on = entry.on)
           /\ entry.roll = RollUp(StatusesOf(change, Proposals \ {entry.on}) \cup {entry.to}),
         entry.op = "prune" => analysis \in TerminalStatus
  PROVE  AnalysisInv'
<1>0. AnalysisShapes /\ ChangesHavePassed /\ LocksAreExclusive /\ AloneInOrder
  BY DEF AnalysisInv
<1>1. /\ session[s] = NoSession /\ session'[s] = entry
      /\ \A t \in Sessions \ {s} : session'[t] = session[t]
      /\ session' \in [Sessions -> Entry]
      /\ overlapped' \in BOOLEAN
      /\ ~overlapped' => ~overlapped /\ \A t \in Sessions : session[t] = NoSession
      /\ \A t, u \in Sessions : ~overlapped' /\ session'[t] # NoSession /\ session'[u] # NoSession => t = u
  BY <1>0, Opens
<1>2. entry # NoSession
  BY DEF NoSession
<1>3. AnalysisShapes'
  <2>1. \A t \in Sessions :
          /\ session'[t].op = "none" <=> session'[t] = NoSession
          /\ session'[t].op \in {"propose", "change"} => session'[t].on \in Proposals
          /\ session'[t].op = "change" => session'[t].to \in ChangeStatus \ {"proposed"}
    <3> SUFFICES ASSUME NEW t \in Sessions
                 PROVE  /\ session'[t].op = "none" <=> session'[t] = NoSession
                        /\ session'[t].op \in {"propose", "change"} => session'[t].on \in Proposals
                        /\ session'[t].op = "change" => session'[t].to \in ChangeStatus \ {"proposed"}
        OBVIOUS
    <3>1. CASE t = s
      BY <3>1, <1>1, <1>2
    <3>2. CASE t # s
      BY <3>2, <1>1, <1>0 DEF AnalysisShapes
    <3> QED BY <3>1, <3>2
  <2> QED BY <2>1, <1>0, <1>1 DEF AnalysisShapes
<1>4. ChangesHavePassed'
  BY <1>0 DEF ChangesHavePassed, PassedInOrder
<1>5. LocksAreExclusive'
  <2> SUFFICES ASSUME NEW t \in Sessions, session'[t].op = "change"
               PROVE  /\ change'[session'[t].on] \in AllowedFrom(session'[t].to)
                      /\ \A u \in Sessions : session'[u].op = "change" /\ session'[u].on = session'[t].on => u = t
      BY DEF LocksAreExclusive
  <2>1. CASE t = s
    BY <2>1, <1>1
  <2>2. CASE t # s
    <3>1. session'[t] = session[t]
      BY <2>2, <1>1
    <3>2. change[session[t].on] \in AllowedFrom(session[t].to)
          /\ \A u \in Sessions : session[u].op = "change" /\ session[u].on = session[t].on => u = t
      BY <3>1, <1>0 DEF LocksAreExclusive
    <3> QED BY <3>1, <3>2, <1>1
  <2> QED BY <2>1, <2>2
<1>6. AloneInOrder'
  <2> SUFFICES ASSUME ~overlapped' PROVE AloneInOrder'
      BY DEF AloneInOrder
  <2>1. ~overlapped /\ (\A t \in Sessions : session[t] = NoSession)
    BY <1>1
  <2>2. \A t \in Sessions \ {s} : session'[t] = NoSession /\ session'[t].op = "none"
    BY <2>1, <1>1 DEF NoSession
  <2>3. change' = change /\ analysis' = analysis /\ passed' = passed
    OBVIOUS
  <2>4. /\ IF StatusesOf(change', Proposals) = {}
           THEN analysis' \notin TerminalStatus
           ELSE analysis' = RollUp(StatusesOf(change', Proposals))
        /\ analysis' = "pruned" => \A q \in Proposals : passed'[q] # {} => passed'[q] \cap Closed # {}
    BY <2>1, <2>3, <1>0 DEF AloneInOrder
  <2>5. \A t, u \in Sessions : session'[t] # NoSession /\ session'[u] # NoSession => t = u
    BY <1>1
  <2>6. ASSUME NEW t \in Sessions
        PROVE  /\ session'[t].op \in {"propose", "change"} => session'[t].was = analysis'
               /\ session'[t].op = "propose" => analysis' \in {"report_ready", "codex_reviewed"}
               /\ session'[t].op = "change" =>
                    session'[t].roll = RollUp(StatusesOf(change', Proposals \ {session'[t].on}) \cup {session'[t].to})
               /\ session'[t].op = "prune" => analysis' \in TerminalStatus
    <3>1. CASE t = s
      BY <3>1, <1>1, <2>3
    <3>2. CASE t # s
      BY <3>2, <2>2
    <3> QED BY <3>1, <3>2
  <2> QED BY <2>4, <2>5, <2>6 DEF AloneInOrder
<1> QED BY <1>3, <1>4, <1>5, <1>6 DEF AnalysisInv

\* The statuses there are before a request's report is ready.
EarlyStatus == {"none", "requested", "accepted"}

\* While the sessions do not overlap, nobody works on the changes of a request
\* whose report is not ready: it has none.
LEMMA EarlyIsQuiet ==
  ASSUME AnalysisInv, ~overlapped, analysis \in EarlyStatus, NEW s \in Sessions
  PROVE  session[s].op \notin {"propose", "change", "prune"} /\ StatusesOf(change, Proposals) = {}
<1>0. AnalysisShapes /\ LocksAreExclusive /\ AloneInOrder
  BY DEF AnalysisInv
<1>1. StatusesOf(change, Proposals) = {}
  <2> SUFFICES ASSUME StatusesOf(change, Proposals) # {} PROVE FALSE
      OBVIOUS
  <2>1. analysis = RollUp(StatusesOf(change, Proposals))
    BY <1>0 DEF AloneInOrder
  <2>2. analysis \in {"codex_reviewed"} \cup TerminalStatus
    <3> HIDE DEF EarlyStatus
    <3>1. RollUp(StatusesOf(change, Proposals)) \in {"codex_reviewed"} \cup TerminalStatus
      BY RollsUp
    <3> QED BY <3>1, <2>1
  <2> QED BY <2>2 DEF EarlyStatus, TerminalStatus
<1>2. session[s].op # "change"
  <2> SUFFICES ASSUME session[s].op = "change" PROVE FALSE
      OBVIOUS
  <2>1. session[s].on \in Proposals /\ session[s].to \in ChangeStatus \ {"proposed"}
    BY <1>0 DEF AnalysisShapes
  <2>2. change[session[s].on] \in AllowedFrom(session[s].to)
    BY <1>0 DEF LocksAreExclusive
  <2>3. change[session[s].on] # "none"
    BY <2>1, <2>2, AllowedIsStatus
  <2> QED BY <1>1, <2>1, <2>3 DEF StatusesOf
<1>3. /\ session[s].op = "propose" => analysis \in {"report_ready", "codex_reviewed"}
      /\ session[s].op = "prune" => analysis \in TerminalStatus
  BY <1>0 DEF AloneInOrder
<1> QED BY <1>1, <1>2, <1>3 DEF EarlyStatus, TerminalStatus

\* Sessions that end without a write, and the request on its way to its
\* report, keep the invariant.
LEMMA EndingKeeps ==
  ASSUME AnalysisInv, session' \in [Sessions -> Entry],
         \A t \in Sessions : session'[t] = session[t] \/ session'[t] = NoSession,
         analysis' = analysis
           \/ (analysis \in EarlyStatus /\ analysis' \in {"requested", "accepted", "report_ready"}),
         DOMAIN offered' \subseteq Proposals, \A q \in DOMAIN offered' : offered'[q] \subseteq Findings,
         UNCHANGED <<change, overlapped, passed>>
  PROVE  AnalysisInv'
<1>0. AnalysisShapes /\ ChangesHavePassed /\ LocksAreExclusive /\ AloneInOrder
  BY DEF AnalysisInv
<1>1. AnalysisShapes'
  <2>1. analysis' \in AnalysisStatus
    BY <1>0 DEF AnalysisShapes, AnalysisStatus
  <2>2. \A t \in Sessions :
          /\ session'[t].op = "none" <=> session'[t] = NoSession
          /\ session'[t].op \in {"propose", "change"} => session'[t].on \in Proposals
          /\ session'[t].op = "change" => session'[t].to \in ChangeStatus \ {"proposed"}
    <3> SUFFICES ASSUME NEW t \in Sessions
                 PROVE  /\ session'[t].op = "none" <=> session'[t] = NoSession
                        /\ session'[t].op \in {"propose", "change"} => session'[t].on \in Proposals
                        /\ session'[t].op = "change" => session'[t].to \in ChangeStatus \ {"proposed"}
        OBVIOUS
    <3>1. CASE session'[t] = NoSession
      BY <3>1 DEF NoSession
    <3>2. CASE session'[t] = session[t]
      BY <3>2, <1>0 DEF AnalysisShapes
    <3> QED BY <3>1, <3>2
  <2> QED BY <2>1, <2>2, <1>0 DEF AnalysisShapes
<1>2. ChangesHavePassed'
  <2> SUFFICES ASSUME NEW q \in Proposals
               PROVE  /\ PassedInOrder(passed[q])
                      /\ change[q] # "none" => change[q] \in passed[q] /\ analysis' # "pruned"
                      /\ passed[q] # {} /\ change[q] = "none" => analysis' = "pruned"
      BY DEF ChangesHavePassed, PassedInOrder
  <2>1. /\ PassedInOrder(passed[q])
        /\ change[q] # "none" => change[q] \in passed[q] /\ analysis # "pruned"
        /\ passed[q] # {} /\ change[q] = "none" => analysis = "pruned"
    BY <1>0 DEF ChangesHavePassed
  <2>2. CASE analysis' = analysis
    BY <2>1, <2>2
  <2>3. CASE analysis \in EarlyStatus /\ analysis' \in {"requested", "accepted", "report_ready"}
    BY <2>1, <2>3 DEF EarlyStatus
  <2> QED BY <2>2, <2>3
<1>3. \A t \in Sessions : session'[t].op # "none" => session'[t] = session[t] /\ session[t].op # "none"
  BY DEF NoSession
<1>4. LocksAreExclusive'
  BY <1>3, <1>0 DEF LocksAreExclusive
<1>5. AloneInOrder'
  <2> SUFFICES ASSUME ~overlapped PROVE AloneInOrder'
      BY DEF AloneInOrder
  <2>1. \A t, u \in Sessions : session'[t] # NoSession /\ session'[u] # NoSession => t = u
    BY <1>0 DEF AloneInOrder
  <2>2. /\ IF StatusesOf(change, Proposals) = {}
           THEN analysis \notin TerminalStatus
           ELSE analysis = RollUp(StatusesOf(change, Proposals))
        /\ analysis = "pruned" => \A q \in Proposals : passed[q] # {} => passed[q] \cap Closed # {}
    BY <1>0 DEF AloneInOrder
  <2>3. /\ IF StatusesOf(change, Proposals) = {}
           THEN analysis' \notin TerminalStatus
           ELSE analysis' = RollUp(StatusesOf(change, Proposals))
        /\ analysis' = "pruned" => \A q \in Proposals : passed[q] # {} => passed[q] \cap Closed # {}
    <3>1. CASE analysis' = analysis
      BY <3>1, <2>2
    <3>2. CASE analysis \in EarlyStatus /\ analysis' \in {"requested", "accepted", "report_ready"}
      <4>1. StatusesOf(change, Proposals) = {}
        <5> SUFFICES ASSUME StatusesOf(change, Proposals) # {} PROVE FALSE
            OBVIOUS
        <5>1. RollUp(StatusesOf(change, Proposals)) \in {"codex_reviewed"} \cup TerminalStatus
          BY RollsUp
        <5>2. analysis \in {"codex_reviewed"} \cup TerminalStatus
          BY <5>1, <2>2
        <5> QED BY <5>2, <3>2 DEF EarlyStatus, TerminalStatus
      <4> QED BY <4>1, <3>2 DEF TerminalStatus
    <3> QED BY <3>1, <3>2
  <2>4. ASSUME NEW t \in Sessions
        PROVE  /\ session'[t].op \in {"propose", "change"} => session'[t].was = analysis'
               /\ session'[t].op = "propose" => analysis' \in {"report_ready", "codex_reviewed"}
               /\ session'[t].op = "change" =>
                    session'[t].roll = RollUp(StatusesOf(change, Proposals \ {session'[t].on}) \cup {session'[t].to})
               /\ session'[t].op = "prune" => analysis' \in TerminalStatus
    <3>1. CASE session'[t] = NoSession
      BY <3>1 DEF NoSession
    <3>2. CASE session'[t] = session[t] /\ analysis' = analysis
      BY <3>2, <1>0 DEF AloneInOrder
    <3>3. CASE session'[t] = session[t] /\ analysis \in EarlyStatus
      <4>1. session[t].op \notin {"propose", "change", "prune"}
        BY <3>3, EarlyIsQuiet
      <4> QED BY <4>1, <3>3
    <3> QED BY <3>1, <3>2, <3>3
  <2> QED BY <2>1, <2>3, <2>4 DEF AloneInOrder
<1> QED BY <1>1, <1>2, <1>4, <1>5 DEF AnalysisInv

\* A session that sets a change nobody else holds, on a request that is there,
\* keeps the invariant.
LEMMA SettingKeeps ==
  ASSUME AnalysisInv, NEW s \in Sessions, Close(s), session[s] # NoSession,
         NEW q \in Proposals, NEW to \in ChangeStatus, NEW P \in SUBSET ChangeStatus,
         to \in P, PassedInOrder(P),
         \A t \in Sessions \ {s} : ~(session[t].op = "change" /\ session[t].on = q),
         analysis # "pruned", analysis' \in AnalysisStatus \ {"pruned"},
         ~overlapped => analysis' = RollUp(StatusesOf(change, Proposals \ {q}) \cup {to}),
         change' = [change EXCEPT ![q] = to],
         passed' = [passed EXCEPT ![q] = P],
         UNCHANGED <<offered, overlapped>>
  PROVE  AnalysisInv'
<1>0. AnalysisShapes /\ ChangesHavePassed /\ LocksAreExclusive /\ AloneInOrder
  BY DEF AnalysisInv
<1>1. /\ session'[s] = NoSession
      /\ \A t \in Sessions \ {s} : session'[t] = session[t]
      /\ session' \in [Sessions -> Entry]
      /\ \A t \in Sessions : session'[t] # NoSession => t # s /\ session'[t] = session[t]
  BY <1>0, ClosesAlone
<1>2. change \in [Proposals -> ChangeStatus \cup {"none"}] /\ passed \in [Proposals -> SUBSET ChangeStatus]
  BY <1>0 DEF AnalysisShapes
<1>3. /\ change'[q] = to /\ \A p \in Proposals \ {q} : change'[p] = change[p]
      /\ passed'[q] = P /\ \A p \in Proposals \ {q} : passed'[p] = passed[p]
      /\ change' \in [Proposals -> ChangeStatus \cup {"none"}] /\ passed' \in [Proposals -> SUBSET ChangeStatus]
  BY <1>2
<1>4. AnalysisShapes'
  <2>1. \A t \in Sessions :
          /\ session'[t].op = "none" <=> session'[t] = NoSession
          /\ session'[t].op \in {"propose", "change"} => session'[t].on \in Proposals
          /\ session'[t].op = "change" => session'[t].to \in ChangeStatus \ {"proposed"}
    <3> SUFFICES ASSUME NEW t \in Sessions
                 PROVE  /\ session'[t].op = "none" <=> session'[t] = NoSession
                        /\ session'[t].op \in {"propose", "change"} => session'[t].on \in Proposals
                        /\ session'[t].op = "change" => session'[t].to \in ChangeStatus \ {"proposed"}
        OBVIOUS
    <3>1. CASE session'[t] = NoSession
      BY <3>1 DEF NoSession
    <3>2. CASE session'[t] = session[t]
      BY <3>2, <1>0 DEF AnalysisShapes
    <3> QED BY <3>1, <3>2, <1>1
  <2> QED BY <2>1, <1>0, <1>1, <1>3 DEF AnalysisShapes
<1>5. ChangesHavePassed'
  <2> SUFFICES ASSUME NEW p \in Proposals
               PROVE  /\ PassedInOrder(passed'[p])
                      /\ change'[p] # "none" => change'[p] \in passed'[p] /\ analysis' # "pruned"
                      /\ passed'[p] # {} /\ change'[p] = "none" => analysis' = "pruned"
      BY DEF ChangesHavePassed, PassedInOrder
  <2>1. CASE p = q
    BY <2>1, <1>3 DEF ChangeStatus
  <2>2. CASE p # q
    BY <2>2, <1>3, <1>0 DEF ChangesHavePassed
  <2> QED BY <2>1, <2>2
<1>6. LocksAreExclusive'
  <2> SUFFICES ASSUME NEW t \in Sessions, session'[t].op = "change"
               PROVE  /\ change'[session'[t].on] \in AllowedFrom(session'[t].to)
                      /\ \A u \in Sessions : session'[u].op = "change" /\ session'[u].on = session'[t].on => u = t
      BY DEF LocksAreExclusive
  <2>1. \A u \in Sessions : session'[u].op = "change" => u # s /\ session'[u] = session[u]
    BY <1>1 DEF NoSession
  <2>2. /\ change[session[t].on] \in AllowedFrom(session[t].to)
        /\ \A u \in Sessions : session[u].op = "change" /\ session[u].on = session[t].on => u = t
    BY <2>1, <1>0 DEF LocksAreExclusive
  <2>3. session[t].on \in Proposals /\ session[t].on # q
    BY <2>1, <1>0 DEF AnalysisShapes
  <2> QED BY <2>1, <2>2, <2>3, <1>3
<1>7. AloneInOrder'
  <2> SUFFICES ASSUME ~overlapped PROVE AloneInOrder'
      BY DEF AloneInOrder
  <2>1. \A t \in Sessions : session'[t] = NoSession /\ session'[t].op = "none"
    BY <1>1, <1>0 DEF AloneInOrder, NoSession
  <2>2. StatusesOf(change', Proposals) = StatusesOf(change, Proposals \ {q}) \cup {to}
    BY <1>3 DEF StatusesOf, ChangeStatus
  <2>3. StatusesOf(change', Proposals) # {} /\ analysis' = RollUp(StatusesOf(change', Proposals))
    BY <2>2
  <2> QED BY <2>1, <2>3 DEF AloneInOrder
<1> QED BY <1>4, <1>5, <1>6, <1>7 DEF AnalysisInv

\* Inserting a change of the proposal.
LEMMA CreateChangeKeeps ==
  ASSUME AnalysisInv, NEW s \in Sessions, CreateChange(s)
  PROVE  AnalysisInv'
<1> DEFINE q == session[s].on
<1>0. AnalysisShapes /\ ChangesHavePassed /\ LocksAreExclusive /\ AloneInOrder
  BY DEF AnalysisInv
<1>1. session[s].op = "propose" /\ Close(s) /\ UNCHANGED <<offered, overlapped>>
  BY DEF CreateChange
<1>2. q \in Proposals /\ session[s] # NoSession /\ DOMAIN offered \subseteq Proposals
      /\ \A p \in DOMAIN offered : offered[p] \subseteq Findings
  BY <1>0, <1>1 DEF AnalysisShapes, NoSession
<1>3. CASE ~(change[q] = "none" /\ analysis # "pruned")
  <2>1. UNCHANGED <<change, passed, analysis>>
    BY <1>3 DEF CreateChange
  <2>2. /\ session' \in [Sessions -> Entry]
        /\ \A t \in Sessions : session'[t] = session[t] \/ session'[t] = NoSession
    BY <1>0, <1>1, ClosesAlone
  <2>3. DOMAIN offered' \subseteq Proposals /\ \A p \in DOMAIN offered' : offered'[p] \subseteq Findings
    BY <1>1, <1>2
  <2>4. analysis' = analysis /\ UNCHANGED <<change, overlapped, passed>>
    BY <1>1, <2>1
  <2> HIDE DEF q
  <2> QED BY <2>2, <2>3, <2>4, EndingKeeps
<1>4. CASE change[q] = "none" /\ analysis # "pruned"
  <2>1. /\ change' = [change EXCEPT ![q] = "proposed"]
        /\ passed' = [passed EXCEPT ![q] = {"proposed"}]
        /\ analysis' = IF "codex_reviewed" = session[s].was THEN analysis ELSE "codex_reviewed"
    BY <1>4 DEF CreateChange, WrittenStatus
  <2>2. "proposed" \in ChangeStatus /\ {"proposed"} \in SUBSET ChangeStatus
        /\ PassedInOrder({"proposed"}) /\ "proposed" \in {"proposed"}
    BY DEF ChangeStatus, PassedInOrder
  <2>3. \A t \in Sessions \ {s} : ~(session[t].op = "change" /\ session[t].on = q)
    <3> SUFFICES ASSUME NEW t \in Sessions, session[t].op = "change", session[t].on = q PROVE FALSE
        OBVIOUS
    <3>1. change[q] \in AllowedFrom(session[t].to) /\ session[t].to \in ChangeStatus \ {"proposed"}
      BY <1>0 DEF LocksAreExclusive, AnalysisShapes
    <3> QED BY <3>1, <1>4, AllowedIsStatus
  <2>4. analysis' \in AnalysisStatus \ {"pruned"}
    BY <2>1, <1>0, <1>4 DEF AnalysisShapes, AnalysisStatus
  <2>5. ASSUME ~overlapped
        PROVE  analysis' = RollUp(StatusesOf(change, Proposals \ {q}) \cup {"proposed"})
    <3>1. analysis' = "codex_reviewed"
      BY <2>1, <2>5, <1>0, <1>1 DEF AloneInOrder
    <3>2. RollUp(StatusesOf(change, Proposals \ {q}) \cup {"proposed"}) = "codex_reviewed"
      BY DEF RollUp, Closed
    <3> QED BY <3>1, <3>2
  <2> HIDE DEF q
  <2> QED BY <1>1, <1>2, <1>4, <2>1, <2>2, <2>3, <2>4, <2>5, SettingKeeps
<1> QED BY <1>3, <1>4

\* Committing the status a change was checked for.
LEMMA CommitChangeKeeps ==
  ASSUME AnalysisInv, NEW s \in Sessions, CommitChange(s)
  PROVE  AnalysisInv'
<1> DEFINE q == session[s].on
           to == session[s].to
           P == passed[q] \cup {to}
<1>0. AnalysisShapes /\ ChangesHavePassed /\ LocksAreExclusive /\ AloneInOrder
  BY DEF AnalysisInv
<1>1. session[s].op = "change" /\ Close(s) /\ UNCHANGED <<offered, overlapped>>
      /\ analysis' = IF session[s].roll = session[s].was THEN analysis ELSE session[s].roll
  BY DEF CommitChange, WrittenStatus
<1>2. q \in Proposals /\ to \in ChangeStatus \ {"proposed"} /\ session[s] # NoSession /\ session[s] \in Entry
  BY <1>0, <1>1 DEF AnalysisShapes, NoSession
<1>3. passed \in [Proposals -> SUBSET ChangeStatus]
  BY <1>0 DEF AnalysisShapes
<1>4. change' = [change EXCEPT ![q] = to] /\ passed' = [passed EXCEPT ![q] = P]
  BY <1>2, <1>3 DEF CommitChange
<1>5. change[q] \in AllowedFrom(to)
      /\ \A t \in Sessions \ {s} : ~(session[t].op = "change" /\ session[t].on = q)
  BY <1>0, <1>1 DEF LocksAreExclusive
<1>6. change[q] # "none"
  BY <1>2, <1>5, AllowedIsStatus
<1>7. change[q] \in passed[q] /\ analysis # "pruned" /\ PassedInOrder(passed[q])
  BY <1>0, <1>2, <1>6 DEF ChangesHavePassed
<1>8. P \in SUBSET ChangeStatus /\ to \in P /\ PassedInOrder(P)
  BY <1>2, <1>3, <1>5, <1>7, PassingOn
<1>9. analysis' \in AnalysisStatus \ {"pruned"}
  BY <1>0, <1>1, <1>2, <1>7 DEF AnalysisShapes, Entry, AnalysisStatus, TerminalStatus
<1>10. ASSUME ~overlapped
       PROVE  analysis' = RollUp(StatusesOf(change, Proposals \ {q}) \cup {to})
  BY <1>0, <1>1, <1>10 DEF AloneInOrder
<1> HIDE DEF q, to, P
<1> QED BY <1>1, <1>2, <1>4, <1>5, <1>7, <1>8, <1>9, <1>10, SettingKeeps

\* Pruning a request whose changes nobody holds.
LEMMA PruneKeeps ==
  ASSUME AnalysisInv, NEW s \in Sessions, Prune(s)
  PROVE  AnalysisInv'
<1>0. AnalysisShapes /\ ChangesHavePassed /\ LocksAreExclusive /\ AloneInOrder
  BY DEF AnalysisInv
<1>1. /\ session[s].op = "prune" /\ Close(s) /\ UNCHANGED <<overlapped, passed>>
      /\ \A t \in Sessions : session[t].op # "change"
      /\ analysis' = "pruned" /\ offered' = <<>> /\ change' = [q \in Proposals |-> "none"]
  BY DEF Prune
<1>2. /\ session'[s] = NoSession
      /\ session' \in [Sessions -> Entry]
      /\ \A t \in Sessions : session'[t] # NoSession => t # s /\ session'[t] = session[t]
  BY <1>0, <1>1, ClosesAlone
<1>3. change' \in [Proposals -> ChangeStatus \cup {"none"}]
      /\ \A q \in Proposals : change'[q] = "none"
  BY <1>1
<1>4. AnalysisShapes'
  <2>1. \A t \in Sessions :
          /\ session'[t].op = "none" <=> session'[t] = NoSession
          /\ session'[t].op \in {"propose", "change"} => session'[t].on \in Proposals
          /\ session'[t].op = "change" => session'[t].to \in ChangeStatus \ {"proposed"}
    <3> SUFFICES ASSUME NEW t \in Sessions
                 PROVE  /\ session'[t].op = "none" <=> session'[t] = NoSession
                        /\ session'[t].op \in {"propose", "change"} => session'[t].on \in Proposals
                        /\ session'[t].op = "change" => session'[t].to \in ChangeStatus \ {"proposed"}
        OBVIOUS
    <3>1. CASE session'[t] = NoSession
      BY <3>1 DEF NoSession
    <3>2. CASE session'[t] = session[t]
      BY <3>2, <1>0 DEF AnalysisShapes
    <3> QED BY <3>1, <3>2, <1>2
  <2>2. analysis' \in AnalysisStatus /\ DOMAIN offered' = {}
    BY <1>1 DEF AnalysisStatus
  <2> QED BY <2>1, <2>2, <1>0, <1>1, <1>2, <1>3 DEF AnalysisShapes
<1>5. ChangesHavePassed'
  BY <1>0, <1>1, <1>3 DEF ChangesHavePassed, PassedInOrder
<1>6. \A t \in Sessions : session'[t].op # "change"
  BY <1>1, <1>2 DEF NoSession
<1>7. LocksAreExclusive'
  BY <1>6 DEF LocksAreExclusive
<1>8. AloneInOrder'
  <2> SUFFICES ASSUME ~overlapped PROVE AloneInOrder'
      BY <1>1 DEF AloneInOrder
  <2>1. \A t \in Sessions : session'[t] = NoSession /\ session'[t].op = "none"
    BY <1>0, <1>1, <1>2 DEF AloneInOrder, NoSession
  <2>2. StatusesOf(change', Proposals) = {} /\ analysis' \notin TerminalStatus
    BY <1>1, <1>3 DEF StatusesOf, TerminalStatus
  <2>3. ASSUME NEW q \in Proposals, passed[q] # {} PROVE passed[q] \cap Closed # {}
    <3>1. analysis \in TerminalStatus
      BY <1>0, <1>1 DEF AloneInOrder
    <3>2. change[q] # "none" /\ change[q] \in passed[q]
      BY <2>3, <3>1, <1>0 DEF ChangesHavePassed, TerminalStatus
    <3>3. StatusesOf(change, Proposals) # {} /\ change[q] \in StatusesOf(change, Proposals)
      BY <3>2 DEF StatusesOf
    <3>4. RollUp(StatusesOf(change, Proposals)) \in TerminalStatus
      BY <3>1, <3>3, <1>0 DEF AloneInOrder
    <3>5. StatusesOf(change, Proposals) \subseteq Closed
      BY <3>3, <3>4, RollsUp
    <3> QED BY <3>2, <3>3, <3>5
  <2> QED BY <2>1, <2>2, <2>3, <1>1 DEF AloneInOrder
<1> QED BY <1>4, <1>5, <1>7, <1>8 DEF AnalysisInv

\* Opening a session for a change, with the roll-up of its new status.
LEMMA LockChangeKeeps ==
  ASSUME AnalysisInv, NEW s \in Sessions, NEW q \in Proposals, NEW to \in ChangeStatus \ {"proposed"},
         LockChange(s, q, to)
  PROVE  AnalysisInv'
<1>1. analysis \in AnalysisStatus
  BY DEF AnalysisInv, AnalysisShapes
<1>2. {change[p] : p \in Proposals \ {q}} \ {"none"} = StatusesOf(change, Proposals \ {q})
  BY DEF StatusesOf
<1> DEFINE roll == RollUp(StatusesOf(change, Proposals \ {q}) \cup {to})
           entry == [op |-> "change", on |-> q, to |-> to, was |-> analysis, roll |-> roll]
<1>3. /\ change[q] \in AllowedFrom(to)
      /\ \A t \in Sessions : ~(session[t].op = "change" /\ session[t].on = q)
      /\ Open(s, entry) /\ UNCHANGED <<analysis, offered, change, passed>>
  BY <1>2 DEF LockChange
<1>4. roll \in {"codex_reviewed"} \cup TerminalStatus
  BY RollsUp
<1>5. entry \in Entry
  <2> HIDE DEF roll
  <2> QED BY <1>1, <1>4 DEF Entry
<1>6. /\ entry.op = "change" /\ entry.on = q /\ entry.to = to /\ entry.was = analysis
      /\ entry.roll = RollUp(StatusesOf(change, Proposals \ {q}) \cup {to})
  OBVIOUS
<1> HIDE DEF entry, roll
<1> QED BY <1>3, <1>5, <1>6, OpeningKeeps

\* Opening a session for a proposal of the report.
LEMMA ReadProposalKeeps ==
  ASSUME AnalysisInv, NEW s \in Sessions, NEW q \in Proposals, ReadProposal(s, q)
  PROVE  AnalysisInv'
<1> DEFINE entry == [NoSession EXCEPT !.op = "propose", !.on = q, !.was = analysis]
<1>1. analysis \in AnalysisStatus
  BY DEF AnalysisInv, AnalysisShapes
<1>2. /\ analysis \in {"report_ready", "codex_reviewed"}
      /\ Open(s, entry) /\ UNCHANGED <<analysis, offered, change, passed>>
  BY DEF ReadProposal
<1>3. entry \in Entry
  BY <1>1 DEF Entry, NoSession
<1>4. entry.op = "propose" /\ entry.on = q /\ entry.was = analysis
  BY DEF NoSession
<1> HIDE DEF entry
<1> QED BY <1>2, <1>3, <1>4, OpeningKeeps

\* Every step of a session or of the agent keeps the invariant.
LEMMA AnalysisSteps == AnalysisInv /\ [AnalysisNext]_analysisVars => AnalysisInv'
<1> SUFFICES ASSUME AnalysisInv, [AnalysisNext]_analysisVars PROVE AnalysisInv'
    OBVIOUS
<1>0. /\ AnalysisShapes
      /\ DOMAIN offered \subseteq Proposals /\ \A q \in DOMAIN offered : offered[q] \subseteq Findings
      /\ session \in [Sessions -> Entry]
  BY DEF AnalysisInv, AnalysisShapes
<1>1. CASE AcceptRequest
  <2>1. analysis \in EarlyStatus /\ analysis' \in {"requested", "accepted", "report_ready"}
    BY <1>1 DEF AcceptRequest, EarlyStatus
  <2>2. UNCHANGED <<offered, change, session, overlapped, passed>>
    BY <1>1 DEF AcceptRequest
  <2>3. /\ session' \in [Sessions -> Entry] /\ \A t \in Sessions : session'[t] = session[t] \/ session'[t] = NoSession
        /\ DOMAIN offered' \subseteq Proposals /\ \A q \in DOMAIN offered' : offered'[q] \subseteq Findings
    BY <2>2, <1>0
  <2> QED BY <2>1, <2>2, <2>3, EndingKeeps
<1>2. ASSUME NEW findings \in SUBSET Findings, NEW limited \in BOOLEAN, NEW evidence \in 0..4,
             NEW offers \in SUBSET Proposals, NEW refs \in [offers -> SUBSET Findings],
             SubmitReport(findings, limited, refs, evidence)
      PROVE  AnalysisInv'
  <2>1. analysis \in EarlyStatus /\ analysis' \in {"requested", "accepted", "report_ready"}
    BY <1>2 DEF SubmitReport, EarlyStatus
  <2>2. UNCHANGED <<change, session, overlapped, passed>> /\ offered' = refs
    BY <1>2 DEF SubmitReport
  <2>3. /\ session' \in [Sessions -> Entry] /\ \A t \in Sessions : session'[t] = session[t] \/ session'[t] = NoSession
        /\ DOMAIN offered' \subseteq Proposals /\ \A q \in DOMAIN offered' : offered'[q] \subseteq Findings
    BY <2>2, <1>0
  <2> QED BY <2>1, <2>2, <2>3, EndingKeeps
<1>3. ASSUME NEW s \in Sessions, LookUpKey(s) PROVE AnalysisInv'
  <2> DEFINE entry == [NoSession EXCEPT !.op = "create"]
  <2>1. Open(s, entry) /\ UNCHANGED <<analysis, offered, change, passed>>
    BY <1>3 DEF LookUpKey
  <2>2. entry \in Entry /\ entry.op = "create"
    BY DEF Entry, NoSession, AnalysisStatus
  <2> HIDE DEF entry
  <2> QED BY <2>1, <2>2, OpeningKeeps
<1>4. ASSUME NEW s \in Sessions, CreateRequest(s) PROVE AnalysisInv'
  <2>1. Close(s) /\ UNCHANGED <<offered, change, overlapped, passed>>
    BY <1>4 DEF CreateRequest
  <2>2. analysis' = analysis
           \/ (analysis \in EarlyStatus /\ analysis' \in {"requested", "accepted", "report_ready"})
    <3>1. analysis' = analysis \/ (analysis = "none" /\ analysis' = "requested")
      BY <1>4 DEF CreateRequest
    <3> QED BY <3>1 DEF EarlyStatus
  <2>3. /\ session' \in [Sessions -> Entry] /\ \A t \in Sessions : session'[t] = session[t] \/ session'[t] = NoSession
        /\ DOMAIN offered' \subseteq Proposals /\ \A q \in DOMAIN offered' : offered'[q] \subseteq Findings
    BY <2>1, <1>0, ClosesAlone
  <2> QED BY <2>1, <2>2, <2>3, EndingKeeps
<1>5. ASSUME NEW s \in Sessions, RollBack(s) PROVE AnalysisInv'
  <2>1. Close(s) /\ UNCHANGED <<analysis, offered, change, overlapped, passed>>
    BY <1>5 DEF RollBack
  <2>3. /\ session' \in [Sessions -> Entry] /\ \A t \in Sessions : session'[t] = session[t] \/ session'[t] = NoSession
        /\ DOMAIN offered' \subseteq Proposals /\ \A q \in DOMAIN offered' : offered'[q] \subseteq Findings
    BY <2>1, <1>0, ClosesAlone
  <2>4. analysis' = analysis /\ UNCHANGED <<change, overlapped, passed>>
    BY <2>1
  <2> QED BY <2>3, <2>4, EndingKeeps
<1>6. ASSUME NEW s \in Sessions, SelectExpired(s) PROVE AnalysisInv'
  <2> DEFINE entry == [NoSession EXCEPT !.op = "prune"]
  <2>1. Open(s, entry) /\ UNCHANGED <<analysis, offered, change, passed>> /\ analysis \in TerminalStatus
    BY <1>6 DEF SelectExpired
  <2>2. entry \in Entry /\ entry.op = "prune"
    BY DEF Entry, NoSession, AnalysisStatus
  <2> HIDE DEF entry
  <2> QED BY <2>1, <2>2, OpeningKeeps
<1>7. CASE UNCHANGED analysisVars
  <2>1. UNCHANGED <<analysis, offered, change, session, overlapped, passed>>
    BY <1>7 DEF analysisVars
  <2>2. /\ session' \in [Sessions -> Entry] /\ \A t \in Sessions : session'[t] = session[t] \/ session'[t] = NoSession
        /\ DOMAIN offered' \subseteq Proposals /\ \A q \in DOMAIN offered' : offered'[q] \subseteq Findings
    BY <2>1, <1>0
  <2>3. analysis' = analysis /\ UNCHANGED <<change, overlapped, passed>>
    BY <2>1
  <2> QED BY <2>2, <2>3, EndingKeeps
<1> QED BY <1>1, <1>2, <1>3, <1>4, <1>5, <1>6, <1>7,
           CreateChangeKeeps, CommitChangeKeeps, PruneKeeps, ReadProposalKeeps, LockChangeKeeps
        DEF AnalysisNext

\* The invariant gives what a closed request promises.
LEMMA InOrderIsDone == AnalysisInv => ClosedIsDone
<1> SUFFICES ASSUME AnalysisInv PROVE ClosedIsDone
    OBVIOUS
<1> DEFINE made == {q \in Proposals : change[q] # "none"}
           open == {q \in made : change[q] \notin Closed}
           S == StatusesOf(change, Proposals)
<1>0. AnalysisShapes /\ ChangesHavePassed /\ AloneInOrder
  BY DEF AnalysisInv
<1>1. \A q \in Proposals : "implemented" \in passed[q] => {"proposed", "approved", "verified"} \subseteq passed[q]
  BY <1>0 DEF ChangesHavePassed, PassedInOrder
<1>2. {change[q] : q \in made} = S /\ (made = {} <=> S = {})
  BY DEF StatusesOf
<1>3. open = {} <=> S \subseteq Closed
  BY DEF StatusesOf
<1>4. (\A q \in made : change[q] = "implemented") <=> S \subseteq {"implemented"}
  BY <1>2
<1>5. S \subseteq ChangeStatus
  BY <1>0 DEF AnalysisShapes, StatusesOf
<1>6. ASSUME ~overlapped
      PROVE  /\ analysis \in TerminalStatus <=> made # {} /\ open = {}
             /\ analysis = "implemented" <=> made # {} /\ \A q \in made : change[q] = "implemented"
             /\ analysis = "partially_implemented" => Cardinality({change[q] : q \in made}) > 1
             /\ analysis = "pruned" => \A q \in Proposals : passed[q] # {} => passed[q] \cap Closed # {}
  <2>1. /\ IF S = {} THEN analysis \notin TerminalStatus ELSE analysis = RollUp(S)
        /\ analysis = "pruned" => \A q \in Proposals : passed[q] # {} => passed[q] \cap Closed # {}
    BY <1>0, <1>6 DEF AloneInOrder
  <2> HIDE DEF S, made, open
  <2>2. CASE S = {}
    BY <2>1, <2>2, <1>2 DEF TerminalStatus
  <2>3. CASE S # {}
    <3>1. /\ RollUp(S) \in TerminalStatus <=> S \subseteq Closed
          /\ RollUp(S) = "implemented" <=> S = {"implemented"}
          /\ RollUp(S) = "partially_implemented" => "implemented" \in S /\ S # {"implemented"}
      BY <2>3, RollsUp
    <3>2. /\ analysis \in TerminalStatus <=> made # {} /\ open = {}
          /\ analysis = "implemented" <=> made # {} /\ \A q \in made : change[q] = "implemented"
      BY <2>1, <2>3, <3>1, <1>2, <1>3, <1>4
    <3>3. ASSUME analysis = "partially_implemented" PROVE Cardinality(S) > 1
      <4>1. PICK other \in S : other # "implemented"
        BY <3>1, <3>3, <2>1, <2>3
      <4>2. {"implemented", other} \subseteq S
        BY <4>1, <3>1, <3>3, <2>1, <2>3
      <4>3. IsFiniteSet(S)
        <5>1. IsFiniteSet({"proposed", "approved", "running", "verified", "implemented", "deferred", "failed"})
          <6>2. \A T, U : IsFiniteSet(T) /\ IsFiniteSet(U) => IsFiniteSet(T \cup U)
            BY FS_Union
          <6>3. \A e : IsFiniteSet({e})
            BY FS_Singleton
          <6>4. IsFiniteSet({"proposed"} \cup {"approved"} \cup {"running"} \cup {"verified"}
                             \cup {"implemented"} \cup {"deferred"} \cup {"failed"})
            BY <6>2, <6>3, ZenonT(30)
          <6>5. {"proposed"} \cup {"approved"} \cup {"running"} \cup {"verified"}
                  \cup {"implemented"} \cup {"deferred"} \cup {"failed"}
                = {"proposed", "approved", "running", "verified", "implemented", "deferred", "failed"}
            OBVIOUS
          <6> QED BY <6>4, <6>5
        <5> QED BY <5>1, <1>5, FS_Subset DEF ChangeStatus
      <4>4. Cardinality({"implemented", other}) = 2
        <5>1. IsFiniteSet({other}) /\ Cardinality({other}) = 1
          BY FS_Singleton
        <5>2. {"implemented", other} = {other} \cup {"implemented"} /\ "implemented" \notin {other}
          BY <4>1
        <5>3. Cardinality({other} \cup {"implemented"}) = Cardinality({other}) + 1
          BY <5>1, <5>2, FS_AddElement
        <5> QED BY <5>1, <5>2, <5>3
      <4>5. Cardinality({"implemented", other}) <= Cardinality(S) /\ Cardinality(S) \in Nat
        BY <4>2, <4>3, FS_Subset, FS_CardinalityType
      <4> QED BY <4>4, <4>5
    <3> QED BY <3>2, <3>3, <2>1, <1>2
  <2> QED BY <2>2, <2>3
<1> QED BY <1>1, <1>6 DEF ClosedIsDone

\* However sessions race, every implemented change was approved and verified
\* first; and a request is closed, in what way, as its changes say, while no
\* two sessions work on it at once (codex_workflow.py, workflow.py).
THEOREM ClosedTheorem == AnalysisSpec => [](AnalysisTypeOK /\ ClosedIsDone)
<1>1. AnalysisInv => AnalysisTypeOK
  BY DEF AnalysisInv, AnalysisShapes, AnalysisTypeOK, AnalysisStatus, Entry
<1> QED BY <1>1, AnalysisStarts, AnalysisSteps, InOrderIsDone, PTL DEF AnalysisSpec

-----------------------------------------------------------------------------
(* The read API.                                                           *)

CachedRequests == {r \in ApiRequests : r.path \notin DOMAIN RequiredScope}

Handlers ==
  {IdleThread}
    \cup [pc : {"authorise"}, request : ApiRequests]
    \cup [pc : {"contains", "read", "delete", "compute"}, request : CachedRequests]
    \cup {[pc |-> "store", request |-> r, value |-> [filter |-> r.filter, data |-> d]] :
            r \in CachedRequests, d \in Nat}

\* Of one client and path: the hits that are remembered are its last admissions,
\* and what was forgotten of these is at least a window old.
AdmissionsFit(times, all, at) ==
  /\ times \in Seq(Nat) /\ all \in Seq(Nat)
  /\ Len(times) <= Limit /\ Len(all) <= Limit + 1 /\ Len(times) <= Len(all)
  /\ \A i \in 1..Len(times) : times[i] = all[(Len(all) - Len(times)) + i]
  /\ \A i \in 1..(Len(all) - Len(times)) : all[i] <= at - Window
  /\ Len(all) > Limit => all[Limit + 1] - all[1] >= Window

ApiShapes ==
  /\ now \in 0..MaxTime /\ data \in 1..MaxData
  /\ hits = [s \in Senders |-> hits[s]] /\ admitted = [s \in Senders |-> admitted[s]]
  /\ thread \in [Threads -> Handlers]

\* What is cached was stored in the past, and expires a Ttl later.
CacheIsTimed ==
  \A k \in DOMAIN cache :
    /\ cache[k].stored \in 0..now
    /\ cache[k].expires = cache[k].stored + Ttl

ApiInv ==
  /\ ApiShapes
  /\ \A s \in Senders : AdmissionsFit(hits[s], admitted[s], now)
  /\ CacheIsTimed
  /\ ServedInTime

\* ApiInv has the types and the bounds in it.
LEMMA ApiInvHolds == ApiInv => ApiTypeOK /\ AnswersAreBounded
<1> SUFFICES ASSUME ApiInv PROVE ApiTypeOK /\ AnswersAreBounded
  OBVIOUS
<1> USE ApiAssumption
<1>1. \A t \in Threads :
        thread[t].pc \in {"idle", "authorise", "contains", "read", "delete", "compute", "store"}
  BY DEF ApiInv, ApiShapes, Handlers, IdleThread
<1>2. \A s \in Senders : Len(hits[s]) <= Limit /\ Len(admitted[s]) <= Limit + 1
  BY DEF ApiInv, AdmissionsFit
<1>3. \A k \in DOMAIN cache : cache[k].expires <= MaxTime + Ttl
  BY DEF ApiInv, ApiShapes, CacheIsTimed
<1>4. WindowsAreLimited
  BY DEF ApiInv, AdmissionsFit, WindowsAreLimited
<1> QED
  BY <1>1, <1>2, <1>3, <1>4 DEF ApiInv, ApiShapes, ApiTypeOK, AnswersAreBounded

\* The limiter starts with nothing and the cache empty.
LEMMA ApiInvInit == ApiInit => ApiInv
<1> SUFFICES ASSUME ApiInit PROVE ApiInv
  OBVIOUS
<1> USE ApiAssumption DEF ApiInit
<1>1. thread \in [Threads -> Handlers]
  BY DEF Handlers
<1>2. ApiShapes
  BY <1>1 DEF ApiShapes
<1>3. ASSUME NEW s \in Senders PROVE AdmissionsFit(hits[s], admitted[s], now)
  <2>1. hits[s] = <<>> /\ admitted[s] = <<>>
    OBVIOUS
  <2> QED
    BY <2>1 DEF AdmissionsFit
<1>4. CacheIsTimed
  BY DEF CacheIsTimed
<1>5. ServedInTime
  BY DEF ServedInTime
<1> QED
  BY <1>2, <1>3, <1>4, <1>5 DEF ApiInv


\* A set of numbers that is not empty has a least one.
LEMMA LeastOne ==
  ASSUME NEW S \in SUBSET Nat, S # {}
  PROVE  \E m \in S : \A n \in S : m <= n
<1>1. IsWellFoundedOn(OpToRel(<, Nat), Nat)
  BY NatLessThanWellFounded
<1>2. PICK m \in S : \A n \in S : ~ (<<n, m>> \in OpToRel(<, Nat))
  BY <1>1, WFMin
<1>3. \A n \in S : ~ (n < m)
  BY <1>2 DEF OpToRel
<1>4. QED
  BY <1>3

\* What the limiter remembers is what it had without some of the first hits,
\* each at least `seconds` old.
LEMMA OldHitsGo ==
  ASSUME NEW s \in Senders, NEW seconds \in Nat, hits[s] \in Seq(Nat), now \in Nat
  PROVE  \E first \in 1..(Len(hits[s]) + 1) :
           /\ HitsWithin(s, seconds) = SubSeq(hits[s], first, Len(hits[s]))
           /\ \A i \in 1..(first - 1) : hits[s][i] <= now - seconds
<1> DEFINE n == Len(hits[s])
           kept == {i \in DOMAIN hits[s] : hits[s][i] > now - seconds} \cup {n + 1}
<1>1. n \in Nat /\ DOMAIN hits[s] = 1..n /\ \A i \in 1..n : hits[s][i] \in Nat
  <2>1. PICK times : times = hits[s]
    OBVIOUS
  <2>2. times \in Seq(Nat)
    BY <2>1
  <2>3. Len(times) \in Nat /\ DOMAIN times = 1..Len(times) /\ \A i \in 1..Len(times) : times[i] \in Nat
    BY <2>2
  <2> QED
    BY <2>1, <2>3
<1>2. kept \in SUBSET Nat /\ kept \subseteq 1..(n + 1) /\ kept # {}
  BY <1>1
<1>4. \E i \in kept : \A j \in kept : i <= j
  <2> HIDE DEF kept
  <2> QED
    BY <1>2, LeastOne
<1> DEFINE least == CHOOSE i \in kept : \A j \in kept : i <= j
<1>5. least \in kept /\ \A j \in kept : least <= j
  <2> HIDE DEF kept
  <2> QED
    BY <1>4
<1>6. HitsWithin(s, seconds) = SubSeq(hits[s], least, n)
  BY DEF HitsWithin
<1>7. PICK first : first = least
  OBVIOUS
<1> HIDE DEF least
<1>8. first \in 1..(n + 1)
  BY <1>2, <1>5, <1>7
<1>9. ASSUME NEW i \in 1..(first - 1) PROVE hits[s][i] <= now - seconds
  <2>1. i \in 1..n /\ i < first
    BY <1>1, <1>8
  <2>2. i \notin kept
    <3> HIDE DEF kept, n
    <3>1. i \in kept => first <= i
      BY <1>5, <1>7
    <3> QED
      BY <1>8, <2>1, <3>1
  <2>3. ~ (hits[s][i] > now - seconds)
    BY <1>1, <2>1, <2>2
  <2> QED
    BY <1>1, <2>1, <2>3
<1> QED
  BY <1>6, <1>7, <1>8, <1>9

\* To forget hits that are a window old keeps the admissions in order.
LEMMA ForgettingFits ==
  ASSUME NEW times, NEW all, NEW at \in Nat, AdmissionsFit(times, all, at),
         NEW first \in 1..(Len(times) + 1), \A i \in 1..(first - 1) : times[i] <= at - Window
  PROVE  AdmissionsFit(SubSeq(times, first, Len(times)), all, at)
<1> DEFINE n == Len(times)
           m == Len(all)
<1> USE ApiAssumption
<1>1. n \in Nat /\ m \in Nat /\ n <= Limit /\ n <= m /\ m <= Limit + 1
  BY DEF AdmissionsFit
<1>2. \A i \in 1..n : times[i] \in Nat /\ times[i] = all[(m - n) + i]
  <2>1. times \in Seq(Nat) /\ \A i \in 1..n : times[i] = all[(m - n) + i]
    BY Zenon DEF AdmissionsFit
  <2> TAKE i \in 1..n
  <2>2. times[i] \in Nat
    BY <2>1, ElementOfSeq
  <2> QED
    BY <2>1, <2>2
<1>3. \A i \in 1..(m - n) : all[i] <= at - Window
  BY Zenon DEF AdmissionsFit
<1>4. PICK rest : rest = SubSeq(times, first, n)
  OBVIOUS
<1>0. first \in 1..(n + 1) /\ \A i \in 1..(first - 1) : times[i] <= at - Window
  OBVIOUS
<1>9. all \in Seq(Nat) /\ (m > Limit => all[Limit + 1] - all[1] >= Window)
  BY DEF AdmissionsFit
<1> HIDE DEF n, m
<1>5. /\ rest \in Seq(Nat)
      /\ Len(rest) = IF first <= n THEN n - first + 1 ELSE 0
      /\ \A i \in 1..(n - first + 1) : rest[i] = times[first + i - 1]
  <2>1. first \in Int /\ n \in Int /\ \A i \in first..n : times[i] \in Nat
    BY <1>0, <1>1, <1>2
  <2> QED
    BY <1>4, <2>1, SubSeqProperties
<1>6. Len(rest) = n - first + 1
  BY <1>0, <1>1, <1>5
<1>7. ASSUME NEW i \in 1..Len(rest) PROVE rest[i] = all[(m - Len(rest)) + i]
  <2>1. i \in 1..(n - first + 1) /\ first + i - 1 \in 1..n
    BY <1>0, <1>1, <1>6
  <2>2. rest[i] = times[first + i - 1]
    BY <1>5, <2>1
  <2>3. times[first + i - 1] = all[(m - n) + (first + i - 1)]
    BY <1>2, <2>1
  <2>4. (m - n) + (first + i - 1) = (m - Len(rest)) + i
    BY <1>0, <1>1, <1>6, <2>1
  <2> QED
    BY <2>2, <2>3, <2>4
<1>8. ASSUME NEW i \in 1..(m - Len(rest)) PROVE all[i] <= at - Window
  <2>1. CASE i \in 1..(m - n)
    BY <1>3, <2>1
  <2>2. CASE i \notin 1..(m - n)
    <3>1. i \in Nat /\ i > m - n /\ i <= m - (n - first + 1)
      BY <1>0, <1>1, <1>6, <2>2
    <3>2. i - (m - n) \in 1..(first - 1) /\ i - (m - n) \in 1..n /\ (m - n) + (i - (m - n)) = i
      BY <1>0, <1>1, <3>1
    <3>3. times[i - (m - n)] <= at - Window /\ times[i - (m - n)] = all[i]
      BY <1>2, <3>2
    <3> QED
      BY <3>3
  <2> QED
    BY <2>1, <2>2
<1>10. Len(rest) <= Limit /\ Len(rest) <= m
  BY <1>0, <1>1, <1>6
<1>11. AdmissionsFit(rest, all, at)
  BY <1>1, <1>5, <1>7, <1>8, <1>9, <1>10 DEF AdmissionsFit, m
<1> QED
  BY <1>4, <1>11 DEF n

\* A client that has fewer than Limit hits is admitted: if it now has Limit + 1
\* admissions on record, the first of them is one that was forgotten.
LEMMA AdmittingFits ==
  ASSUME NEW times, NEW all, NEW at \in Nat, AdmissionsFit(times, all, at), Len(times) < Limit
  PROVE  AdmissionsFit(Append(times, at), Latest(Append(all, at)), at)
<1> DEFINE n == Len(times)
           m == Len(all)
<1> USE ApiAssumption
<1>1. /\ n \in Nat /\ m \in Nat /\ n < Limit /\ n <= m /\ m <= Limit + 1
      /\ times \in Seq(Nat) /\ all \in Seq(Nat)
  BY DEF AdmissionsFit
<1>2. \A i \in 1..n : times[i] = all[(m - n) + i]
  BY DEF AdmissionsFit
<1>3. \A i \in 1..(m - n) : all[i] <= at - Window
  BY DEF AdmissionsFit
<1>4. m > Limit => all[Limit + 1] - all[1] >= Window
  BY DEF AdmissionsFit
<1>0. Len(all) = m /\ Len(times) = n
  OBVIOUS
<1> HIDE DEF n, m
<1>5. PICK hit : hit = Append(times, at)
  OBVIOUS
<1>6. PICK more : more = Append(all, at)
  OBVIOUS
<1>7. /\ hit \in Seq(Nat) /\ Len(hit) = n + 1
      /\ \A i \in 1..n : hit[i] = times[i]
      /\ hit[n + 1] = at
  BY <1>0, <1>1, <1>5, AppendProperties
<1>8. /\ more \in Seq(Nat) /\ Len(more) = m + 1
      /\ \A i \in 1..m : more[i] = all[i]
      /\ more[m + 1] = at
  BY <1>0, <1>1, <1>6, AppendProperties
<1>9. \E d \in {0, 1} : \E last :
        /\ last = Latest(more) /\ last \in Seq(Nat) /\ Len(last) = m + 1 - d
        /\ \A i \in 1..(m + 1 - d) : last[i] = more[d + i]
        /\ d = 1 <=> m = Limit + 1
  <2>1. CASE m = Limit + 1
    <3>1. Latest(more) = SubSeq(more, 2, m + 1)
      BY <1>1, <1>8, <2>1 DEF Latest
    <3> DEFINE top == m + 1
    <3>2. top \in Int /\ top >= 2 /\ \A i \in 2..top : more[i] \in Nat
      <4>1. top = m + 1 /\ m = Limit + 1 /\ Limit \in Nat
        BY <2>1
      <4>2. \A i \in 1..(m + 1) : more[i] \in Nat
        BY <1>8
      <4> HIDE DEF top
      <4> QED
        BY <1>1, <4>1, <4>2
    <3>3. top = m + 1
      OBVIOUS
    <3> HIDE DEF top
    <3>4. /\ SubSeq(more, 2, top) \in Seq(Nat)
          /\ Len(SubSeq(more, 2, top)) = (IF 2 <= top THEN top - 2 + 1 ELSE 0)
          /\ \A i \in 1..(top - 2 + 1) : SubSeq(more, 2, top)[i] = more[2 + i - 1]
      BY <3>2, SubSeqProperties
    <3>5. PICK last : last = SubSeq(more, 2, top)
      OBVIOUS
    <3>6. Len(last) = m /\ last \in Seq(Nat) /\ last = Latest(more)
      BY <1>1, <3>1, <3>2, <3>3, <3>4, <3>5
    <3>7. \A i \in 1..m : last[i] = more[1 + i]
      <4> TAKE i \in 1..m
      <4>1. i \in 1..(top - 2 + 1) /\ 2 + i - 1 = 1 + i
        BY <1>1, <3>3
      <4> QED
        BY <3>4, <3>5, <4>1
    <3>8. m + 1 - 1 = m /\ 1 \in {0, 1}
      BY <1>1
    <3> QED
      BY <2>1, <3>6, <3>7, <3>8
  <2>2. CASE m # Limit + 1
    <3>1. m + 1 <= Limit + 1
      BY <1>1, <2>2
    <3>2. Latest(more) = SubSeq(more, 1, Len(more))
      BY <1>1, <1>8, <3>1 DEF Latest
    <3>3. SubSeq(more, 1, Len(more)) = more
      BY <1>8, SubSeqFull
    <3>4. m + 1 - 0 = m + 1 /\ 0 \in {0, 1} /\ \A i \in 1..(m + 1) : 0 + i = i
      BY <1>1
    <3>5. more = Latest(more) /\ more \in Seq(Nat) /\ Len(more) = m + 1
      BY <1>8, <3>2, <3>3
    <3>6. \A i \in 1..(m + 1) : more[i] = more[0 + i]
      BY <3>4
    <3> QED
      BY <2>2, <3>4, <3>5, <3>6
  <2> QED
    BY <2>1, <2>2
<1>17. PICK d \in {0, 1} : \E last :
        /\ last = Latest(more) /\ last \in Seq(Nat) /\ Len(last) = m + 1 - d
        /\ \A i \in 1..(m + 1 - d) : last[i] = more[d + i]
        /\ d = 1 <=> m = Limit + 1
  BY <1>9
<1>10. PICK last :
        /\ last = Latest(more) /\ last \in Seq(Nat) /\ Len(last) = m + 1 - d
        /\ \A i \in 1..(m + 1 - d) : last[i] = more[d + i]
        /\ d = 1 <=> m = Limit + 1
  BY <1>17
<1> DEFINE k == m + 1 - d
<1>11. k \in Nat /\ k <= Limit + 1 /\ n + 1 <= k /\ k - (n + 1) = m - n - d
  BY <1>1, <1>17, <1>10
<1>16. k = m + 1 - d /\ k = Len(last)
  BY <1>10
<1> HIDE DEF k
<1>12. ASSUME NEW i \in 1..(n + 1) PROVE hit[i] = last[(k - (n + 1)) + i]
  <2>1. /\ (k - (n + 1)) + i \in 1..k
        /\ d + ((k - (n + 1)) + i) = (m - n) + i
    BY <1>1, <1>17, <1>10, <1>11, <1>16
  <2>2. last[(k - (n + 1)) + i] = more[(m - n) + i]
    BY <1>10, <1>16, <2>1
  <2>3. CASE i = n + 1
    <3>1. (m - n) + i = m + 1
      BY <1>1, <2>3
    <3> QED
      BY <1>7, <1>8, <2>2, <2>3, <3>1
  <2>4. CASE i # n + 1
    <3>1. i \in 1..n /\ (m - n) + i \in 1..m
      BY <1>1, <2>4
    <3> QED
      BY <1>2, <1>7, <1>8, <2>2, <3>1
  <2> QED
    BY <2>3, <2>4
<1>13. ASSUME NEW i \in 1..(k - (n + 1)) PROVE last[i] <= at - Window
  <2>1. i \in 1..k /\ d + i \in 1..(m - n) /\ d + i \in 1..m
    BY <1>1, <1>17, <1>10, <1>11, <1>16
  <2>2. last[i] = more[d + i] /\ more[d + i] = all[d + i]
    BY <1>8, <1>10, <1>16, <2>1
  <2> QED
    BY <1>3, <2>1, <2>2
<1>14. ASSUME k > Limit PROVE last[Limit + 1] - last[1] >= Window
  <2>1. k = Limit + 1 /\ 1 \in 1..(k - (n + 1)) /\ (k - (n + 1)) + (n + 1) = Limit + 1
    BY <1>1, <1>11, <1>14
  <2>2. last[1] <= at - Window
    BY <1>13, <2>1
  <2>3. last[Limit + 1] = at
    BY <1>1, <1>7, <1>12, <2>1
  <2>4. last[1] \in Nat
    BY <1>10, <1>11, <1>16, <2>1
  <2> QED
    BY <2>2, <2>3, <2>4
<1>15. AdmissionsFit(hit, last, at)
  BY <1>1, <1>7, <1>10, <1>11, <1>12, <1>13, <1>14, <1>16 DEF AdmissionsFit
<1> QED
  BY <1>5, <1>6, <1>10, <1>15

\* Nothing but time has passed.
LEMMA WaitingFits ==
  ASSUME NEW times, NEW all, NEW at \in Nat, NEW later \in Nat, at <= later,
         AdmissionsFit(times, all, at)
  PROVE  AdmissionsFit(times, all, later)
<1>1. \A i \in 1..(Len(all) - Len(times)) : all[i] <= later - Window
  <2> TAKE i \in 1..(Len(all) - Len(times))
  <2>1. all[i] <= at - Window /\ all \in Seq(Nat) /\ i \in 1..Len(all)
    BY DEF AdmissionsFit
  <2>2. all[i] \in Nat
    BY <2>1
  <2> QED
    BY <2>1, <2>2, ApiAssumption
<1> QED
  BY <1>1 DEF AdmissionsFit

-----------------------------------------------------------------------------
(* The steps of the read API.                                              *)

\* What a request may send is one of its senders.
LEMMA RequestHasSender ==
  ASSUME NEW r \in ApiRequests
  PROVE  <<r.client, r.path>> \in Senders
BY DEF Senders

\* While the clock, the hits and the admissions stay, so does what was said of them.
LEMMA FitsStay ==
  ASSUME ApiInv, UNCHANGED <<now, hits, admitted>>
  PROVE  \A s \in Senders : AdmissionsFit(hits'[s], admitted'[s], now')
<1>1. now' = now /\ hits' = hits /\ admitted' = admitted
  OBVIOUS
<1> QED
  BY <1>1 DEF ApiInv

\* ApiInv of the next state, from its parts.
LEMMA ApiInvNext ==
  ASSUME ApiShapes',
         \A s \in Senders : AdmissionsFit(hits'[s], admitted'[s], now'),
         CacheIsTimed', ServedInTime'
  PROVE  ApiInv'
BY DEF ApiInv

\* Admission or refusal of a request.
LEMMA ReceiveKeeps ==
  ASSUME ApiInv, NEW t \in Threads, NEW r \in ApiRequests, Receive(t, r)
  PROVE  ApiInv'
<1> USE ApiAssumption
<1> DEFINE sender == <<r.client, r.path>>
<1>1. sender \in Senders
  BY RequestHasSender
<1>2. now \in Nat /\ AdmissionsFit(hits[sender], admitted[sender], now)
  BY <1>1 DEF ApiInv, ApiShapes
<1>3. PICK first \in 1..(Len(hits[sender]) + 1) :
        /\ Remembered(sender) = SubSeq(hits[sender], first, Len(hits[sender]))
        /\ \A i \in 1..(first - 1) : hits[sender][i] <= now - Window
  <2>1. hits[sender] \in Seq(Nat)
    BY <1>2 DEF AdmissionsFit
  <2> HIDE DEF sender
  <2> QED
    BY <1>1, <1>2, <2>1, OldHitsGo DEF Remembered
<1>4. PICK seen : seen = Remembered(sender)
  OBVIOUS
<1>5. AdmissionsFit(seen, admitted[sender], now)
  <2> HIDE DEF sender
  <2>1. AdmissionsFit(SubSeq(hits[sender], first, Len(hits[sender])), admitted[sender], now)
    BY <1>2, <1>3, ForgettingFits
  <2> QED
    BY <1>3, <1>4, <2>1
<1>6. now' = now /\ cache' = cache /\ data' = data /\ answer' = answer
  BY DEF Receive
<1>7. \/ /\ Len(seen) >= Limit
         /\ hits' = [hits EXCEPT ![sender] = seen]
         /\ thread' = thread /\ admitted' = admitted
      \/ /\ ~ (Len(seen) >= Limit)
         /\ hits' = [hits EXCEPT ![sender] = Append(seen, now)]
         /\ admitted' = [admitted EXCEPT ![sender] = Latest(Append(admitted[sender], now))]
         /\ thread' = [thread EXCEPT ![t] = [pc |-> "authorise", request |-> r]]
  BY <1>4 DEF Receive
<1>8. ApiShapes'
  <2>1. thread \in [Threads -> Handlers] /\ [pc |-> "authorise", request |-> r] \in Handlers
    BY DEF ApiInv, ApiShapes, Handlers
  <2>2. thread' \in [Threads -> Handlers]
    BY <1>7, <2>1
  <2>3. hits = [s \in Senders |-> hits[s]] /\ admitted = [s \in Senders |-> admitted[s]]
    BY DEF ApiInv, ApiShapes
  <2>4. hits' = [s \in Senders |-> hits'[s]] /\ admitted' = [s \in Senders |-> admitted'[s]]
    <3> HIDE DEF sender
    <3> QED
      BY <1>7, <2>3
  <2> QED
    BY <1>6, <2>2, <2>4 DEF ApiInv, ApiShapes
<1>9. ASSUME NEW s \in Senders PROVE AdmissionsFit(hits'[s], admitted'[s], now')
  <2>1. hits = [q \in Senders |-> hits[q]] /\ admitted = [q \in Senders |-> admitted[q]]
    BY DEF ApiInv, ApiShapes
  <2> HIDE DEF sender
  <2>2. CASE s # sender
    <3>1. hits'[s] = hits[s] /\ admitted'[s] = admitted[s]
      BY <1>1, <1>7, <2>1, <2>2
    <3>2. AdmissionsFit(hits[s], admitted[s], now)
      BY DEF ApiInv
    <3> QED
      BY <1>6, <3>1, <3>2
  <2>3. CASE s = sender /\ Len(seen) >= Limit
    <3>1. hits'[s] = seen /\ admitted'[s] = admitted[sender]
      BY <1>1, <1>7, <2>1, <2>3
    <3> QED
      BY <1>5, <1>6, <3>1
  <2>4. CASE s = sender /\ ~ (Len(seen) >= Limit)
    <3>1. hits'[s] = Append(seen, now) /\ admitted'[s] = Latest(Append(admitted[sender], now))
      BY <1>1, <1>7, <2>1, <2>4
    <3>2. Len(seen) < Limit
      BY <1>5, <2>4 DEF AdmissionsFit
    <3>3. AdmissionsFit(Append(seen, now), Latest(Append(admitted[sender], now)), now)
      BY <1>2, <1>5, <3>2, AdmittingFits
    <3> QED
      BY <1>6, <3>1, <3>3
  <2> QED
    BY <2>2, <2>3, <2>4
<1>10. CacheIsTimed'
  BY <1>6 DEF ApiInv, CacheIsTimed
<1>11. ServedInTime'
  BY <1>6 DEF ApiInv, ServedInTime
<1> QED
  BY <1>8, <1>9, <1>10, <1>11, ApiInvNext

\* The shapes of the next state, where a handler moves on.
LEMMA HandlerShapes ==
  ASSUME ApiInv, NEW t \in Threads, NEW h \in Handlers, thread' = [thread EXCEPT ![t] = h],
         now' = now, data' = data, hits' = hits, admitted' = admitted
  PROVE  ApiShapes'
BY DEF ApiInv, ApiShapes

\* A handler is one of the kinds that Handlers has.
LEMMA HandlerKinds ==
  ASSUME ApiInv, NEW t \in Threads
  PROVE  /\ thread[t].pc = "authorise" => thread[t].request \in ApiRequests
         /\ thread[t].pc \in {"contains", "read", "delete", "compute", "store"} =>
              thread[t].request \in CachedRequests
         /\ thread[t].pc = "contains" =>
              \A pc \in {"read", "compute"} : [thread[t] EXCEPT !.pc = pc] \in Handlers
<1> PICK h : h = thread[t]
  OBVIOUS
<1> DEFINE Kinds ==
             /\ h.pc = "authorise" => h.request \in ApiRequests
             /\ h.pc \in {"contains", "read", "delete", "compute", "store"} =>
                  h.request \in CachedRequests
             /\ h.pc = "contains" => \A pc \in {"read", "compute"} : [h EXCEPT !.pc = pc] \in Handlers
<1>1. h \in Handlers
  BY DEF ApiInv, ApiShapes
<1>2. ASSUME h = IdleThread PROVE Kinds
  BY <1>2 DEF IdleThread
<1>3. ASSUME h \in [pc : {"authorise"}, request : ApiRequests]
      PROVE  Kinds
  BY <1>3
<1>4. ASSUME h \in [pc : {"contains", "read", "delete", "compute"}, request : CachedRequests]
      PROVE  Kinds
  <2>1. ASSUME NEW pc \in {"read", "compute"} PROVE [h EXCEPT !.pc = pc] \in Handlers
    <3>1. [h EXCEPT !.pc = pc] \in
            [pc : {"contains", "read", "delete", "compute"}, request : CachedRequests]
      BY <1>4
    <3> QED
      BY <3>1 DEF Handlers
  <2> QED
    BY <1>4, <2>1
<1>5. ASSUME NEW r \in CachedRequests, NEW d \in Nat,
             h = [pc |-> "store", request |-> r, value |-> [filter |-> r.filter, data |-> d]]
      PROVE  Kinds
  BY <1>5
<1>6. Kinds
  <2> HIDE DEF Kinds
  <2> QED
    BY <1>1, <1>2, <1>3, <1>4, <1>5 DEF Handlers
<1> QED
  BY <1>6

\* The check of the token; a route that is not cached is answered here.
LEMMA AuthoriseKeeps ==
  ASSUME ApiInv, NEW t \in Threads, Authorise(t)
  PROVE  ApiInv'
<1> USE ApiAssumption
<1>1. PICK r : r = thread[t].request
  OBVIOUS
<1>2. r \in ApiRequests /\ now \in Nat
  <2>1. thread[t].pc = "authorise"
    BY DEF Authorise
  <2>2. now \in Nat
    BY DEF ApiInv, ApiShapes
  <2> QED
    BY <1>1, <2>1, <2>2, HandlerKinds
<1>3. now' = now /\ hits' = hits /\ cache' = cache /\ data' = data /\ admitted' = admitted
  BY DEF Authorise
<1>4. \E h \in Handlers : thread' = [thread EXCEPT ![t] = h]
  <2>1. CASE r.path \notin DOMAIN RequiredScope
    <3>1. thread' = [thread EXCEPT ![t] = [pc |-> "contains", request |-> r]]
      BY <1>1, <2>1 DEF Authorise
    <3>2. [pc |-> "contains", request |-> r] \in Handlers
      BY <1>2, <2>1 DEF Handlers, CachedRequests
    <3> QED
      BY <3>1, <3>2
  <2>2. CASE r.path \in DOMAIN RequiredScope
    <3>1. thread' = [thread EXCEPT ![t] = IdleThread]
      BY <1>1, <2>2 DEF Authorise
    <3>2. IdleThread \in Handlers
      BY DEF Handlers
    <3> QED
      BY <3>1, <3>2
  <2> QED
    BY <2>1, <2>2
<1>5. ApiShapes'
  BY <1>3, <1>4, HandlerShapes
<1>6. ServedInTime'
  <2>1. \/ answer' = answer
        \/ /\ r.path \in DOMAIN RequiredScope /\ Authorised(r)
           /\ answer' = [at |-> now, request |-> r,
                         value |-> [filter |-> r.filter, data |-> data], stored |-> now]
    BY <1>1 DEF Authorise
  <2>2. CASE answer' = answer
    BY <1>3, <2>2 DEF ApiInv, ServedInTime
  <2>3. CASE /\ r.path \in DOMAIN RequiredScope /\ Authorised(r)
             /\ answer' = [at |-> now, request |-> r,
                           value |-> [filter |-> r.filter, data |-> data], stored |-> now]
    <3>1. answer'.at = now /\ answer'.stored = now /\ answer'.request = r /\ now <= now + Ttl
      BY <1>2, <2>3
    <3> QED
      BY <2>3, <3>1 DEF ServedInTime
  <2> QED
    BY <2>1, <2>2, <2>3
<1>7. CacheIsTimed'
  BY <1>3 DEF ApiInv, CacheIsTimed
<1> QED
  BY <1>3, <1>5, <1>6, <1>7, FitsStay, ApiInvNext

\* Whether the key is there.
LEMMA LookUpKeeps ==
  ASSUME ApiInv, NEW t \in Threads, LookUp(t)
  PROVE  ApiInv'
<1>1. now' = now /\ hits' = hits /\ cache' = cache /\ data' = data /\ admitted' = admitted
      /\ answer' = answer
  BY DEF LookUp
<1>2. \E pc \in {"read", "compute"} :
        thread' = [thread EXCEPT ![t] = [thread[t] EXCEPT !.pc = pc]]
  <2>1. thread \in [Threads -> Handlers]
    BY DEF ApiInv, ApiShapes
  <2>2. CASE CacheKey(thread[t].request) \in DOMAIN cache
    BY <2>1, <2>2 DEF LookUp
  <2>3. CASE CacheKey(thread[t].request) \notin DOMAIN cache
    BY <2>1, <2>3 DEF LookUp
  <2> QED
    BY <2>2, <2>3
<1>3. thread[t].pc = "contains"
  BY DEF LookUp, Doing
<1>4. ApiShapes'
  BY <1>1, <1>2, <1>3, HandlerKinds, HandlerShapes
<1>5. CacheIsTimed' /\ ServedInTime'
  BY <1>1 DEF ApiInv, CacheIsTimed, ServedInTime
<1> QED
  BY <1>1, <1>4, <1>5, FitsStay, ApiInvNext

\* An entry that has not expired is the answer.
LEMMA ReadKeeps ==
  ASSUME ApiInv, NEW t \in Threads, Read(t)
  PROVE  ApiInv'
<1> USE ApiAssumption
<1> DEFINE k == CacheKey(thread[t].request)
<1>1. PICK r : r = thread[t].request
  OBVIOUS
<1>2. r \in CachedRequests /\ now \in Nat
  <2>1. thread[t].pc = "read"
    BY DEF Read, Doing
  <2>2. now \in Nat
    BY DEF ApiInv, ApiShapes
  <2> QED
    BY <1>1, <2>1, <2>2, HandlerKinds
<1>3. now' = now /\ hits' = hits /\ cache' = cache /\ data' = data /\ admitted' = admitted
  BY DEF Read
<1>4. \E h \in Handlers : thread' = [thread EXCEPT ![t] = h]
  <2>1. [pc |-> "delete", request |-> r] \in Handlers /\ IdleThread \in Handlers
    BY <1>2 DEF Handlers
  <2>2. CASE k \in DOMAIN cache /\ Expired(cache[k])
    BY <1>1, <2>1, <2>2 DEF Read
  <2>3. CASE ~ (k \in DOMAIN cache /\ Expired(cache[k]))
    BY <1>1, <2>1, <2>3 DEF Read
  <2> QED
    BY <2>2, <2>3
<1>5. ApiShapes'
  BY <1>3, <1>4, HandlerShapes
<1>6. ServedInTime'
  <2>1. CASE k \in DOMAIN cache /\ ~ Expired(cache[k])
    <3>1. answer' = [at |-> now, request |-> r, value |-> cache[k].value, stored |-> cache[k].stored]
      BY <1>1, <2>1 DEF Read
    <3>2. answer'.at = now /\ answer'.request = r /\ answer'.stored = cache[k].stored
      BY <3>1
    <3>3. now <= cache[k].stored + Ttl
      BY <1>2, <2>1 DEF ApiInv, CacheIsTimed, Expired
    <3>4. r.path \notin DOMAIN RequiredScope
      BY <1>2 DEF CachedRequests
    <3> HIDE DEF k
    <3> QED
      BY <3>2, <3>3, <3>4 DEF ServedInTime
  <2>2. CASE ~ (k \in DOMAIN cache /\ ~ Expired(cache[k]))
    <3>1. answer' = answer
      BY <2>2 DEF Read
    <3> QED
      BY <3>1 DEF ApiInv, ServedInTime
  <2> QED
    BY <2>1, <2>2
<1>7. CacheIsTimed'
  BY <1>3 DEF ApiInv, CacheIsTimed
<1> QED
  BY <1>3, <1>5, <1>6, <1>7, FitsStay, ApiInvNext

\* What is removed leaves the other entries as they were.
LEMMA DeleteKeeps ==
  ASSUME ApiInv, NEW t \in Threads, Delete(t)
  PROVE  ApiInv'
<1> DEFINE k == CacheKey(thread[t].request)
<1>1. PICK r : r = thread[t].request
  OBVIOUS
<1>2. r \in CachedRequests
  BY <1>1, HandlerKinds DEF Delete, Doing
<1>3. now' = now /\ hits' = hits /\ data' = data /\ admitted' = admitted /\ answer' = answer
  BY DEF Delete
<1>4. \E h \in Handlers : thread' = [thread EXCEPT ![t] = h]
  <2>1. [pc |-> "compute", request |-> r] \in Handlers /\ IdleThread \in Handlers
    BY <1>2 DEF Handlers
  <2>2. CASE k \in DOMAIN cache
    BY <1>1, <2>1, <2>2 DEF Delete
  <2>3. CASE k \notin DOMAIN cache
    BY <1>1, <2>1, <2>3 DEF Delete
  <2> QED
    BY <2>2, <2>3
<1>5. ApiShapes'
  BY <1>3, <1>4, HandlerShapes
<1>6. CacheIsTimed'
  <2>1. cache' = [j \in DOMAIN cache \ {k} |-> cache[j]]
    BY DEF Delete
  <2> HIDE DEF k
  <2>2. \A j \in DOMAIN cache' : j \in DOMAIN cache /\ cache'[j] = cache[j]
    BY <2>1
  <2> QED
    BY <1>3, <2>2 DEF ApiInv, CacheIsTimed
<1>7. ServedInTime'
  BY <1>3 DEF ApiInv, ServedInTime
<1> QED
  BY <1>3, <1>5, <1>6, <1>7, FitsStay, ApiInvNext

\* The query sees the data of its moment.
LEMMA ComputeKeeps ==
  ASSUME ApiInv, NEW t \in Threads, Compute(t)
  PROVE  ApiInv'
<1>1. PICK r : r = thread[t].request
  OBVIOUS
<1>2. r \in CachedRequests /\ data \in Nat
  <2>1. thread[t].pc = "compute"
    BY DEF Compute, Doing
  <2>2. data \in Nat
    BY ApiAssumption DEF ApiInv, ApiShapes
  <2> QED
    BY <1>1, <2>1, <2>2, HandlerKinds
<1>3. now' = now /\ hits' = hits /\ cache' = cache /\ data' = data /\ admitted' = admitted
      /\ answer' = answer
  BY DEF Compute
<1>4. PICK h : h = [pc |-> "store", request |-> r, value |-> [filter |-> r.filter, data |-> data]]
  OBVIOUS
<1>5. h \in Handlers
  BY <1>2, <1>4 DEF Handlers
<1>6. thread' = [thread EXCEPT ![t] = h]
  BY <1>1, <1>4 DEF Compute
<1>7. ApiShapes'
  BY <1>3, <1>5, <1>6, HandlerShapes
<1>8. CacheIsTimed' /\ ServedInTime'
  BY <1>3 DEF ApiInv, CacheIsTimed, ServedInTime
<1> QED
  BY <1>3, <1>7, <1>8, FitsStay, ApiInvNext

\* The answer is stored as it is given.
LEMMA StoreKeeps ==
  ASSUME ApiInv, NEW t \in Threads, Store(t)
  PROVE  ApiInv'
<1> USE ApiAssumption
<1> DEFINE k == CacheKey(thread[t].request)
           entry == [value |-> thread[t].value, stored |-> now, expires |-> now + Ttl]
<1>1. PICK r : r = thread[t].request
  OBVIOUS
<1>2. r \in CachedRequests /\ now \in Nat
  <2>1. thread[t].pc = "store"
    BY DEF Store, Doing
  <2>2. now \in Nat
    BY DEF ApiInv, ApiShapes
  <2> QED
    BY <1>1, <2>1, <2>2, HandlerKinds
<1>3. now' = now /\ hits' = hits /\ data' = data /\ admitted' = admitted
  BY DEF Store
<1>4. thread' = [thread EXCEPT ![t] = IdleThread] /\ IdleThread \in Handlers
  BY DEF Store, Handlers
<1>5. ApiShapes'
  BY <1>3, <1>4, HandlerShapes
<1>6. CacheIsTimed'
  <2>1. cache' = [j \in DOMAIN cache \cup {k} |-> IF j = k THEN entry ELSE cache[j]]
    BY DEF Store
  <2>2. entry.stored = now /\ entry.expires = now + Ttl
    OBVIOUS
  <2> HIDE DEF k, entry
  <2>3. ASSUME NEW j \in DOMAIN cache'
        PROVE  cache'[j].stored \in 0..now /\ cache'[j].expires = cache'[j].stored + Ttl
    <3>1. CASE j = k
      <4>1. cache'[j] = entry
        BY <2>1, <3>1
      <4> QED
        BY <1>2, <2>2, <4>1
    <3>2. CASE j # k
      <4>1. j \in DOMAIN cache /\ cache'[j] = cache[j]
        BY <2>1, <3>2
      <4> QED
        BY <4>1 DEF ApiInv, CacheIsTimed
    <3> QED
      BY <3>1, <3>2
  <2> QED
    BY <1>3, <2>3 DEF CacheIsTimed
<1>7. ServedInTime'
  <2>1. answer' = [at |-> now, request |-> r, value |-> thread[t].value, stored |-> now]
    BY <1>1 DEF Store
  <2>2. answer'.at = now /\ answer'.request = r /\ answer'.stored = now /\ now <= now + Ttl
    BY <1>2, <2>1
  <2>3. r.path \notin DOMAIN RequiredScope
    BY <1>2 DEF CachedRequests
  <2> QED
    BY <2>2, <2>3 DEF ServedInTime
<1> QED
  BY <1>3, <1>5, <1>6, <1>7, FitsStay, ApiInvNext

\* A second passes.
LEMMA SecondKeeps ==
  ASSUME ApiInv, Second
  PROVE  ApiInv'
<1> USE ApiAssumption
<1>1. /\ now' = now + 1 /\ now < MaxTime /\ hits' = hits /\ cache' = cache /\ data' = data
      /\ thread' = thread /\ answer' = answer /\ admitted' = admitted
  BY DEF Second
<1>2. now \in Nat /\ now' \in 0..MaxTime /\ now <= now'
  BY <1>1 DEF ApiInv, ApiShapes
<1>3. ApiShapes'
  BY <1>1, <1>2 DEF ApiInv, ApiShapes
<1>4. ASSUME NEW s \in Senders PROVE AdmissionsFit(hits'[s], admitted'[s], now')
  <2>1. AdmissionsFit(hits[s], admitted[s], now)
    BY DEF ApiInv
  <2>2. PICK later \in Nat : later = now' /\ now <= later
    BY <1>2
  <2>3. AdmissionsFit(hits[s], admitted[s], later)
    BY <1>2, <2>1, <2>2, WaitingFits
  <2> QED
    BY <1>1, <2>2, <2>3
<1>5. CacheIsTimed'
  BY <1>1, <1>2 DEF ApiInv, CacheIsTimed
<1>6. ServedInTime'
  BY <1>1 DEF ApiInv, ServedInTime
<1> QED
  BY <1>3, <1>4, <1>5, <1>6, ApiInvNext

\* The daily batch commits.
LEMMA BatchKeeps ==
  ASSUME ApiInv, BatchCommits
  PROVE  ApiInv'
<1>1. /\ data' = data + 1 /\ data < MaxData /\ now' = now /\ hits' = hits /\ cache' = cache
      /\ thread' = thread /\ answer' = answer /\ admitted' = admitted
  BY DEF BatchCommits
<1>2. ApiShapes'
  BY <1>1, ApiAssumption DEF ApiInv, ApiShapes
<1>3. CacheIsTimed' /\ ServedInTime'
  BY <1>1 DEF ApiInv, CacheIsTimed, ServedInTime
<1> QED
  BY <1>1, <1>2, <1>3, FitsStay, ApiInvNext

\* Of any Window seconds a client gets at most Limit requests on a path
\* admitted, a cached answer is served no longer than Ttl after it was stored,
\* and an agent or operator route is answered afresh and only to a token with
\* its scope: for every number of threads and clients, however their steps
\* interleave (core/rate_limit.py:42-63, core/cache.py:62-83).
THEOREM BoundedTheorem == ApiSpec => [](ApiTypeOK /\ AnswersAreBounded)
<1>1. ApiInit => ApiInv
  BY ApiInvInit
<1>2. ApiInv /\ [ApiNext]_apiVars => ApiInv'
  <2> SUFFICES ASSUME ApiInv, [ApiNext]_apiVars PROVE ApiInv'
    OBVIOUS
  <2>1. CASE UNCHANGED apiVars
    <3>1. /\ data' = data /\ now' = now /\ hits' = hits /\ cache' = cache
          /\ thread' = thread /\ answer' = answer /\ admitted' = admitted
      BY <2>1 DEF apiVars
    <3>2. ApiShapes' /\ CacheIsTimed' /\ ServedInTime'
      BY <3>1 DEF ApiInv, ApiShapes, CacheIsTimed, ServedInTime
    <3> QED
      BY <3>1, <3>2, FitsStay, ApiInvNext
  <2>2. ASSUME NEW t \in Threads, NEW r \in ApiRequests, Receive(t, r) PROVE ApiInv'
    BY <2>2, ReceiveKeeps
  <2>3. ASSUME NEW t \in Threads, Authorise(t) PROVE ApiInv'
    BY <2>3, AuthoriseKeeps
  <2>4. ASSUME NEW t \in Threads, LookUp(t) PROVE ApiInv'
    BY <2>4, LookUpKeeps
  <2>5. ASSUME NEW t \in Threads, Read(t) PROVE ApiInv'
    BY <2>5, ReadKeeps
  <2>6. ASSUME NEW t \in Threads, Delete(t) PROVE ApiInv'
    BY <2>6, DeleteKeeps
  <2>7. ASSUME NEW t \in Threads, Compute(t) PROVE ApiInv'
    BY <2>7, ComputeKeeps
  <2>8. ASSUME NEW t \in Threads, Store(t) PROVE ApiInv'
    BY <2>8, StoreKeeps
  <2>9. CASE Second
    BY <2>9, SecondKeeps
  <2>10. CASE BatchCommits
    BY <2>10, BatchKeeps
  <2> QED
    BY <2>1, <2>2, <2>3, <2>4, <2>5, <2>6, <2>7, <2>8, <2>9, <2>10 DEF ApiNext
<1>3. ApiInv => ApiTypeOK /\ AnswersAreBounded
  BY ApiInvHolds
<1> QED
  BY <1>1, <1>2, <1>3, PTL DEF ApiSpec

=============================================================================
