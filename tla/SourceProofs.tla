----------------------------- MODULE SourceProofs -----------------------------
(***************************************************************************)
(* What the price sources guarantee for every number of processes, symbols *)
(* and requests: the Kiwoom file bridge, the Kiwoom REST client, the       *)
(* end-of-day run, and the reconciler that adds repaired prices.  Each     *)
(* part has its inductive invariant, one lemma per action or group of      *)
(* actions, and its theorems.                                              *)
(***************************************************************************)
EXTENDS FileBridge, KiwoomRest, EodSync, RepairReconciler, FiniteSetTheorems, SequenceTheorems,
        WellFoundedInduction, TLAPS

-----------------------------------------------------------------------------
(***************************************************************************)
(* The file bridge.  A waiting call's request is its own: ids are handed   *)
(* out in order, so a fresh one is no request's, and the file of a request *)
(* whose rows were returned is nobody's any more.                          *)
(***************************************************************************)
BridgeShapes ==
  /\ \E n \in 0..MaxRequests : DOMAIN asked = 1..n
  /\ DOMAIN payload = DOMAIN results
  /\ \A i \in DOMAIN payload : payload[i] \in DOMAIN results
  /\ DOMAIN delivered \subseteq DOMAIN asked
  /\ caller \in [BridgeCallers ->
       [id : Nat, code : BridgeCodes \cup {"none"}, left : 0..BridgeTimeout]]

WaitsForItsOwn ==
  \A p \in BridgeCallers :
    IF caller[p].id = 0 THEN caller[p] = NotWaiting
    ELSE caller[p].code = asked[caller[p].id]

BridgeInv == BridgeTypeOK /\ BridgeShapes /\ WaitsForItsOwn /\ BridgeRowsAreOwn

\* A fresh id is the number after the last request's.
LEMMA FreshIdIsNext ==
  ASSUME NEW n \in Nat, DOMAIN asked = 1..n, NEW code
  PROVE  FreshId(code) = n + 1 /\ FreshId(code) \notin DOMAIN asked
<1>1. Cardinality(1..n) = n
  BY FS_Interval
<1>2. QED
  BY <1>1 DEF FreshId

\* No call waits in an empty directory.
LEMMA BridgeInitInv == BridgeInit => BridgeInv
<1> SUFFICES ASSUME BridgeInit PROVE BridgeInv
  OBVIOUS
<1> USE BridgeAssumption DEF BridgeInit, NotWaiting
<1>1. DOMAIN asked = {} /\ DOMAIN results = {} /\ DOMAIN payload = {} /\ DOMAIN delivered = {}
  OBVIOUS
<1>2. DOMAIN asked = 1..0 /\ 0 \in 0..MaxRequests
  BY <1>1
<1>3. BridgeShapes
  BY <1>1, <1>2 DEF BridgeShapes
<1>4. QED
  BY <1>1, <1>3 DEF BridgeInv, BridgeTypeOK, WaitsForItsOwn, BridgeRowsAreOwn

\* A new request is nobody's and has neither an answer nor a delivery.
LEMMA SubmitKeepsBridge ==
  ASSUME BridgeInv, NEW p \in BridgeCallers, NEW code \in BridgeCodes, SubmitRequest(p, code)
  PROVE  BridgeInv'
<1> DEFINE id == FreshId(code)
<1> USE BridgeAssumption
<1>1. PICK n \in 0..MaxRequests : DOMAIN asked = 1..n
  BY DEF BridgeInv, BridgeShapes
<1>2. id = n + 1 /\ id \notin DOMAIN asked /\ id \in 1..MaxRequests /\ id # 0
  BY <1>1, FreshIdIsNext DEF SubmitRequest, RequestIds
<1>3. /\ DOMAIN asked' = DOMAIN asked \cup {id}
      /\ asked'[id] = code
      /\ \A i \in DOMAIN asked : asked'[i] = asked[i]
  BY <1>2 DEF SubmitRequest, With
<1>4. DOMAIN asked' = 1..(n + 1) /\ n + 1 \in 0..MaxRequests
  BY <1>1, <1>2, <1>3
<1>5. /\ caller'[p] = [id |-> id, code |-> code, left |-> BridgeTimeout]
      /\ \A q \in BridgeCallers : q # p => caller'[q] = caller[q]
      /\ caller' \in [BridgeCallers ->
           [id : Nat, code : BridgeCodes \cup {"none"}, left : 0..BridgeTimeout]]
  BY <1>2 DEF BridgeInv, BridgeShapes, SubmitRequest
<1>6. UNCHANGED <<results, payload, delivered>>
  BY DEF SubmitRequest
<1> HIDE DEF id
<1>7. BridgeTypeOK'
  BY <1>2, <1>3, <1>5, <1>6 DEF BridgeInv, BridgeTypeOK, RequestIds
<1>8. BridgeShapes'
  BY <1>3, <1>4, <1>5, <1>6 DEF BridgeInv, BridgeShapes
<1>9. WaitsForItsOwn'
  BY <1>2, <1>3, <1>5 DEF BridgeInv, BridgeTypeOK, WaitsForItsOwn
<1>10. BridgeRowsAreOwn'
  <2>1. \A q \in BridgeCallers : caller[q].id # id
    BY <1>2 DEF BridgeInv, BridgeTypeOK
  <2>2. id \notin DOMAIN delivered
    BY <1>2 DEF BridgeInv, BridgeShapes
  <2>3. \A q, r \in BridgeCallers : caller'[q].id = caller'[r].id /\ caller'[q].id # 0 => q = r
    BY <1>5, <2>1 DEF BridgeInv, BridgeRowsAreOwn
  <2>4. \A q \in BridgeCallers : caller'[q].id # 0 => caller'[q].id \notin DOMAIN delivered'
    BY <1>5, <1>6, <2>2 DEF BridgeInv, BridgeRowsAreOwn
  <2>5. \A i \in DOMAIN delivered' : asked'[i] = asked[i]
    BY <1>3, <1>6 DEF BridgeInv, BridgeShapes
  <2>6. QED
    BY <1>6, <2>3, <2>4, <2>5 DEF BridgeInv, BridgeRowsAreOwn
<1>11. QED
  BY <1>7, <1>8, <1>9, <1>10 DEF BridgeInv

\* What the agent writes changes nothing that was returned.
LEMMA AgentKeepsBridge ==
  ASSUME BridgeInv,
         \/ \E id \in DOMAIN asked, said \in BridgeAnswers : AgentAnswers(id, said)
         \/ \E id, other \in DOMAIN results : AgentRewritesPayload(id, other)
  PROVE  BridgeInv'
<1>1. /\ UNCHANGED <<asked, caller, delivered>>
      /\ DOMAIN results \subseteq DOMAIN results'
      /\ DOMAIN results' \subseteq DOMAIN asked
      /\ DOMAIN payload' = DOMAIN results'
      /\ \A i \in DOMAIN payload' : payload'[i] \in DOMAIN results'
  <2>1. CASE \E id \in DOMAIN asked, said \in BridgeAnswers : AgentAnswers(id, said)
    BY <2>1 DEF BridgeInv, BridgeTypeOK, BridgeShapes, AgentAnswers, With
  <2>2. CASE \E id, other \in DOMAIN results : AgentRewritesPayload(id, other)
    BY <2>2 DEF BridgeInv, BridgeTypeOK, BridgeShapes, AgentRewritesPayload, With
  <2>3. QED
    BY <2>1, <2>2
<1>2. BridgeTypeOK' /\ BridgeShapes'
  BY <1>1 DEF BridgeInv, BridgeTypeOK, BridgeShapes
<1>3. WaitsForItsOwn' /\ BridgeRowsAreOwn'
  BY <1>1 DEF BridgeInv, WaitsForItsOwn, BridgeRowsAreOwn
<1>4. QED
  BY <1>2, <1>3 DEF BridgeInv

\* The call that finds its file is the only one that waits for it, and no
\* call before it had that file.
LEMMA CollectKeepsBridge ==
  ASSUME BridgeInv, NEW p \in BridgeCallers, CollectResult(p)
  PROVE  BridgeInv'
<1> DEFINE id == caller[p].id
<1>1. /\ id # 0 /\ id \in DOMAIN results /\ id \in DOMAIN asked /\ id \notin DOMAIN delivered
      /\ caller[p].code = asked[id] /\ payload[id] \in DOMAIN results
  BY DEF CollectResult, BridgeInv, BridgeTypeOK, BridgeShapes, WaitsForItsOwn, BridgeRowsAreOwn
<1>2. UNCHANGED <<asked, results, payload>>
  BY DEF CollectResult
<1>3. /\ caller'[p] = NotWaiting
      /\ \A q \in BridgeCallers : q # p => caller'[q] = caller[q]
      /\ caller' \in [BridgeCallers ->
           [id : Nat, code : BridgeCodes \cup {"none"}, left : 0..BridgeTimeout]]
  BY BridgeAssumption DEF BridgeInv, BridgeShapes, CollectResult, NotWaiting
<1>4. /\ DOMAIN delivered' \subseteq DOMAIN delivered \cup {id}
      /\ \A i \in DOMAIN delivered' :
           IF i = id
           THEN /\ delivered'[i].times = 1
                /\ delivered'[i].code = asked[id]
                /\ delivered'[i].from = payload[id]
                /\ delivered'[i].summed => payload[id] = id
           ELSE delivered'[i] = delivered[i]
  <2>1. CASE Answers(results[id], id, caller[p].code)
    <3>1. delivered' = With(delivered, id,
            [times |-> 1, code |-> results[id].code, from |-> payload[id],
             summed |-> results[id].sum])
      BY <1>1, <2>1 DEF CollectResult
    <3>2. results[id].code = asked[id] /\ (results[id].sum => payload[id] = id)
      BY <1>1, <2>1 DEF Answers
    <3>3. QED
      BY <3>1, <3>2 DEF With
  <2>2. CASE ~ Answers(results[id], id, caller[p].code)
    BY <1>1, <2>2 DEF CollectResult
  <2>3. QED
    BY <2>1, <2>2
<1>5. \A q \in BridgeCallers : q # p => caller[q].id # id
  BY <1>1 DEF BridgeInv, BridgeRowsAreOwn
<1> HIDE DEF id
<1>6. BridgeTypeOK'
  <2>1. \A q \in BridgeCallers :
          caller'[q].id \in DOMAIN asked \cup {0} /\ caller'[q].left \in 0..BridgeTimeout
    BY <1>3, BridgeAssumption DEF BridgeInv, BridgeTypeOK, NotWaiting
  <2>2. \A i \in DOMAIN delivered' : delivered'[i].from \in DOMAIN results
    BY <1>1, <1>4 DEF BridgeInv, BridgeTypeOK
  <2>3. QED
    BY <1>2, <2>1, <2>2 DEF BridgeInv, BridgeTypeOK
<1>7. BridgeShapes'
  BY <1>1, <1>2, <1>3, <1>4 DEF BridgeInv, BridgeShapes
<1>8. WaitsForItsOwn'
  BY <1>2, <1>3 DEF BridgeInv, WaitsForItsOwn, NotWaiting
<1>9. BridgeRowsAreOwn'
  <2>1. \A q, r \in BridgeCallers : caller'[q].id = caller'[r].id /\ caller'[q].id # 0 => q = r
    BY <1>3 DEF BridgeInv, BridgeRowsAreOwn, NotWaiting
  <2>2. \A q \in BridgeCallers : caller'[q].id # 0 => caller'[q].id \notin DOMAIN delivered'
    BY <1>3, <1>4, <1>5 DEF BridgeInv, BridgeRowsAreOwn, NotWaiting
  <2>3. \A i \in DOMAIN delivered' :
          /\ delivered'[i].times = 1
          /\ delivered'[i].code = asked'[i]
          /\ delivered'[i].summed => delivered'[i].from = i
    BY <1>2, <1>4 DEF BridgeInv, BridgeRowsAreOwn
  <2>4. QED
    BY <2>1, <2>2, <2>3 DEF BridgeRowsAreOwn
<1>10. QED
  BY <1>6, <1>7, <1>8, <1>9 DEF BridgeInv

\* Time passes and calls give up without a trace in the directory.
LEMMA WaitingKeepsBridge ==
  ASSUME BridgeInv, PollInterval \/ \E p \in BridgeCallers : GiveUp(p)
  PROVE  BridgeInv'
<1>1. UNCHANGED <<asked, results, payload, delivered>>
  BY DEF PollInterval, GiveUp
<1>2. /\ caller' \in [BridgeCallers ->
           [id : Nat, code : BridgeCodes \cup {"none"}, left : 0..BridgeTimeout]]
      /\ \A p \in BridgeCallers :
           \/ caller'[p] = NotWaiting
           \/ caller[p].id # 0 /\ caller'[p].id = caller[p].id /\ caller'[p].code = caller[p].code
  <2>1. CASE PollInterval
    <3>1. /\ \A p \in BridgeCallers : caller[p] \in
               [id : Nat, code : BridgeCodes \cup {"none"}, left : 0..BridgeTimeout]
          /\ caller' = [p \in BridgeCallers |-> [caller[p] EXCEPT !.left = IF @ > 0 THEN @ - 1 ELSE 0]]
          /\ \A p \in BridgeCallers : caller[p].id = 0 => caller[p] = NotWaiting
      BY <2>1 DEF PollInterval, BridgeInv, BridgeShapes, WaitsForItsOwn
    <3>2. \A p \in BridgeCallers :
            /\ caller'[p].id = caller[p].id /\ caller'[p].code = caller[p].code
            /\ caller'[p].left = IF caller[p].left > 0 THEN caller[p].left - 1 ELSE 0
            /\ caller'[p] \in
                 [id : Nat, code : BridgeCodes \cup {"none"}, left : 0..BridgeTimeout]
      BY <3>1, BridgeAssumption
    <3>3. \A p \in BridgeCallers : caller[p].id = 0 => caller'[p] = NotWaiting
      BY <3>1 DEF NotWaiting
    <3>4. QED
      BY <3>1, <3>2, <3>3
  <2>2. CASE \E p \in BridgeCallers : GiveUp(p)
    <3>1. PICK p \in BridgeCallers : GiveUp(p)
      BY <2>2
    <3>2. \A q \in BridgeCallers : caller[q].id = 0 => caller[q] = NotWaiting
      BY DEF BridgeInv, WaitsForItsOwn
    <3>3. QED
      BY <3>1, <3>2, BridgeAssumption DEF GiveUp, BridgeInv, BridgeShapes, NotWaiting
  <2>3. QED
    BY <2>1, <2>2
<1>3. BridgeTypeOK'
  BY <1>1, <1>2, BridgeAssumption DEF BridgeInv, BridgeTypeOK, NotWaiting
<1>4. BridgeShapes'
  BY <1>1, <1>2 DEF BridgeInv, BridgeShapes
<1>5. WaitsForItsOwn' /\ BridgeRowsAreOwn'
  BY <1>1, <1>2 DEF BridgeInv, WaitsForItsOwn, BridgeRowsAreOwn, NotWaiting
<1>6. QED
  BY <1>3, <1>4, <1>5 DEF BridgeInv

\* The invariant is inductive.
LEMMA BridgeStep == BridgeInv /\ [BridgeNext]_bridgeVars => BridgeInv'
<1> SUFFICES ASSUME BridgeInv, [BridgeNext]_bridgeVars PROVE BridgeInv'
  OBVIOUS
<1>1. CASE \E p \in BridgeCallers : \E code \in BridgeCodes : SubmitRequest(p, code)
  BY <1>1, SubmitKeepsBridge
<1>2. CASE \E p \in BridgeCallers : CollectResult(p)
  BY <1>2, CollectKeepsBridge
<1>3. CASE PollInterval \/ \E p \in BridgeCallers : GiveUp(p)
  BY <1>3, WaitingKeepsBridge
<1>4. CASE \/ \E id \in DOMAIN asked, said \in BridgeAnswers : AgentAnswers(id, said)
           \/ \E id, other \in DOMAIN results : AgentRewritesPayload(id, other)
  BY <1>4, AgentKeepsBridge
<1>5. CASE UNCHANGED bridgeVars
  BY <1>5 DEF bridgeVars, BridgeInv, BridgeTypeOK, BridgeShapes, WaitsForItsOwn, BridgeRowsAreOwn
<1>6. QED
  BY <1>1, <1>2, <1>3, <1>4, <1>5 DEF BridgeNext

\* kiwoom_file_bridge.py:239: whatever the agent writes and whenever, the rows
\* a call returns are of the symbol it asked for, once, and where the result
\* gives a checksum, from the data file it was given for.
THEOREM BridgeRowsTheorem == BridgeSpec => [](BridgeTypeOK /\ BridgeRowsAreOwn)
<1>1. BridgeInv => BridgeTypeOK /\ BridgeRowsAreOwn
  BY DEF BridgeInv
<1>2. QED
  BY BridgeInitInv, BridgeStep, <1>1, PTL DEF BridgeSpec

-----------------------------------------------------------------------------
(***************************************************************************)
(* The Kiwoom REST client.  The calls made and the slots still waited for  *)
(* are of different slots, so no more calls were made than slots have      *)
(* come; and a token is asked for only while none is held.                 *)
(***************************************************************************)
Chart ==
  [phase : {"idle", "token", "renew", "page", "sent"}, page : 0..MaxPages,
   retries : 0..MaxRetries, refreshed : BOOLEAN, token : Nat, slot : Nat, tries : Nat]

KiwoomShapes ==
  /\ issuedTokens \in Nat /\ token \in 0..issuedTokens /\ refused \subseteq 1..issuedTokens
  /\ tokenLock \in Workers \cup {"none"}
  /\ nextAllowed \in Nat /\ clock \in Nat
  /\ worker \in [Workers -> Chart]
  /\ sent \in [calls : Nat, refusals : Nat, expiries : Nat]

\* A page is sent once for each retry, once for the 401, and once more.
TriesAreCounted(c) ==
  /\ c.tries <= c.retries + 2
  /\ ~c.refreshed \/ c.phase # "sent" => c.tries <= c.retries + 1
  /\ ~c.refreshed /\ c.phase # "sent" => c.tries <= c.retries
  /\ c.phase = "idle" => c.page = 0

\* Who renews the token holds the lock, and there is none meanwhile.
TokensAreCounted ==
  /\ \A w \in Workers : worker[w].phase = "renew" => tokenLock = w
  /\ tokenLock # "none" => token = 0
  /\ issuedTokens <= 1 + sent.expiries + sent.refusals
  /\ token = 0 => issuedTokens <= sent.expiries + sent.refusals

\* The slots of the calls made so far.
SlotsAreUsed(used) ==
  /\ used \subseteq 0..clock /\ Cardinality(used) = sent.calls
  /\ \A n \in used : n < nextAllowed
  /\ \A w \in Workers : worker[w].phase \in {"renew", "page"} =>
       /\ worker[w].slot < nextAllowed /\ worker[w].slot \notin used
       /\ \A v \in Workers : worker[v].phase \in {"renew", "page"} /\ v # w =>
            worker[v].slot # worker[w].slot

KiwoomInv ==
  /\ KiwoomShapes
  /\ \A w \in Workers : TriesAreCounted(worker[w])
  /\ TokensAreCounted
  /\ \E used \in SUBSET Nat : SlotsAreUsed(used)

\* No chart is a chart.
LEMMA NoChartIsOne == NoChart \in Chart /\ TriesAreCounted(NoChart) /\ NoChart.phase = "idle"
BY KiwoomAssumption DEF NoChart, Chart, TriesAreCounted

LEMMA KiwoomStarts == KiwoomInit => KiwoomInv
<1> SUFFICES ASSUME KiwoomInit PROVE KiwoomInv
    OBVIOUS
<1> USE DEF KiwoomInit
<1>1. \A w \in Workers : worker[w] = NoChart
  OBVIOUS
<1>2. KiwoomShapes
  BY NoChartIsOne DEF KiwoomShapes
<1>3. TokensAreCounted
  BY <1>1, NoChartIsOne DEF TokensAreCounted
<1>4. SlotsAreUsed({})
  BY <1>1, NoChartIsOne, FS_EmptySet DEF SlotsAreUsed
<1> QED BY <1>1, <1>2, <1>3, <1>4, NoChartIsOne DEF KiwoomInv

\* The charts after a step of one worker.
LEMMA OneChart ==
  ASSUME KiwoomShapes, \A v \in Workers : TriesAreCounted(worker[v]),
         NEW w \in Workers, NEW c \in Chart, TriesAreCounted(c), worker' = [worker EXCEPT ![w] = c]
  PROVE  /\ worker' \in [Workers -> Chart] /\ worker'[w] = c
         /\ \A v \in Workers \ {w} : worker'[v] = worker[v]
         /\ \A v \in Workers : TriesAreCounted(worker'[v])
<1>1. worker \in [Workers -> Chart]
  BY DEF KiwoomShapes
<1>2. worker' \in [Workers -> Chart] /\ worker'[w] = c /\ \A v \in Workers \ {w} : worker'[v] = worker[v]
  BY <1>1
<1> QED BY <1>2

\* A chart that has failed or is tried again.
LEMMA Retried ==
  ASSUME KiwoomShapes, NEW w \in Workers, TriesAreCounted(worker[w]),
         worker[w].phase \in {"renew", "sent"}, NEW retryable, RetryOrRaise(w, retryable)
  PROVE  \E c \in Chart : TriesAreCounted(c) /\ c.phase \in {"idle", "token"}
                          /\ worker' = [worker EXCEPT ![w] = c]
<1>1. worker[w] \in Chart
  BY DEF KiwoomShapes
<1>2. CASE retryable /\ worker[w].retries < MaxRetries
  <2> DEFINE c == [worker[w] EXCEPT !.phase = "token", !.retries = worker[w].retries + 1]
  <2>1. worker' = [worker EXCEPT ![w] = c]
    BY <1>1, <1>2 DEF RetryOrRaise, Chart
  <2>2. c \in Chart /\ c.phase = "token" /\ c.retries = worker[w].retries + 1
        /\ c.tries = worker[w].tries /\ c.refreshed = worker[w].refreshed
    <3>1. worker[w].retries \in Nat /\ worker[w].retries + 1 \in 0..MaxRetries
      BY <1>1, <1>2, KiwoomAssumption DEF Chart
    <3>2. PICK n \in 0..MaxRetries : n = worker[w].retries + 1
      BY <3>1
    <3>3. c = [worker[w] EXCEPT !.phase = "token", !.retries = n]
      BY <3>2
    <3> HIDE DEF c
    <3> QED BY <1>1, <3>2, <3>3 DEF Chart
  <2>3. TriesAreCounted(c)
    <3> HIDE DEF c
    <3> QED BY <1>1, <2>2 DEF Chart, TriesAreCounted
  <2> HIDE DEF c
  <2> QED BY <2>1, <2>2, <2>3
<1>3. CASE ~(retryable /\ worker[w].retries < MaxRetries)
  <2>1. worker' = [worker EXCEPT ![w] = NoChart]
    BY <1>3 DEF RetryOrRaise
  <2> QED BY <2>1, NoChartIsOne
<1> QED BY <1>2, <1>3

\* A step that reserves no slot and makes no call leaves the slots as they are.
LEMMA SlotsStay ==
  ASSUME NEW used \in SUBSET Nat, SlotsAreUsed(used), clock \in Nat, clock' \in Nat, clock <= clock',
         nextAllowed' = nextAllowed, sent'.calls = sent.calls,
         \A v \in Workers : worker'[v].phase \in {"renew", "page"} =>
           worker[v].phase \in {"renew", "page"} /\ worker'[v].slot = worker[v].slot
  PROVE  SlotsAreUsed(used)'
<1>1. used \subseteq 0..clock'
  BY DEF SlotsAreUsed
<1> QED BY <1>1 DEF SlotsAreUsed

\* A call uses the slot its worker waited for.
LEMMA SlotIsUsed ==
  ASSUME NEW used \in SUBSET Nat, SlotsAreUsed(used), KiwoomShapes,
         NEW w \in Workers, worker[w].phase \in {"renew", "page"}, clock >= worker[w].slot,
         nextAllowed' = nextAllowed, clock' = clock, sent'.calls = sent.calls + 1,
         worker'[w].phase \notin {"renew", "page"},
         \A v \in Workers \ {w} : worker'[v] = worker[v]
  PROVE  \E more \in SUBSET Nat : SlotsAreUsed(more)'
<1> DEFINE slot == worker[w].slot
<1>1. slot \in Nat /\ clock \in Nat /\ nextAllowed \in Nat /\ sent.calls \in Nat
  BY DEF KiwoomShapes, Chart
<1>2. used \subseteq 0..clock /\ Cardinality(used) = sent.calls /\ slot \notin used
      /\ slot < nextAllowed /\ clock >= slot /\ \A n \in used : n < nextAllowed
  BY DEF SlotsAreUsed
<1>3. PICK s \in Nat : s = slot
  BY <1>1
<1>4. \A v \in Workers : worker'[v].phase \in {"renew", "page"} =>
        /\ v # w /\ worker'[v] = worker[v]
        /\ worker[v].slot < nextAllowed /\ worker[v].slot \notin used /\ worker[v].slot # s
        /\ \A u \in Workers : worker[u].phase \in {"renew", "page"} /\ u # v => worker[u].slot # worker[v].slot
  BY <1>3 DEF SlotsAreUsed
<1> HIDE DEF slot
<1>5. used \cup {s} \subseteq 0..clock' /\ \A n \in used \cup {s} : n < nextAllowed'
  <2>1. s \in 0..clock /\ s < nextAllowed
    BY <1>1, <1>2, <1>3
  <2>2. clock' = clock /\ nextAllowed' = nextAllowed
    OBVIOUS
  <2>3. used \cup {s} \subseteq 0..clock'
    BY <1>2, <2>1, <2>2
  <2>4. \A n \in used \cup {s} : n < nextAllowed'
    BY <1>2, <2>1, <2>2
  <2>5. QED
    BY <2>3, <2>4
<1>6. Cardinality(used \cup {s}) = sent'.calls
  <2>1. IsFiniteSet(used)
    <3>1. IsFiniteSet(0..clock)
      BY <1>1, FS_Interval
    <3> QED BY <3>1, <1>2, FS_Subset
  <2>2. Cardinality(used \cup {s}) = Cardinality(used) + 1
    BY <2>1, <1>2, <1>3, FS_AddElement
  <2> QED BY <2>2, <1>2
<1>7. SlotsAreUsed(used \cup {s})'
  BY <1>4, <1>5, <1>6 DEF SlotsAreUsed
<1> QED BY <1>7

\* Reserving a slot after every slot there is.
LEMMA SlotIsReserved ==
  ASSUME NEW used \in SUBSET Nat, SlotsAreUsed(used), KiwoomShapes, \A v \in Workers : TriesAreCounted(worker[v]),
         NEW w \in Workers, worker[w].phase = "token", NEW phase \in {"renew", "page"}, NEW held \in Nat,
         Reserve(w, phase, held), clock' = clock, sent' = sent
  PROVE  /\ SlotsAreUsed(used)' /\ nextAllowed' \in Nat
         /\ worker' \in [Workers -> Chart] /\ worker'[w].phase = phase
         /\ \A v \in Workers \ {w} : worker'[v] = worker[v]
         /\ \A v \in Workers : TriesAreCounted(worker'[v])
<1>1. worker[w] \in Chart /\ nextAllowed \in Nat /\ clock \in Nat
  BY DEF KiwoomShapes
<1>2. PICK slot \in Nat : slot = LargerOf(clock, nextAllowed) /\ slot >= nextAllowed
  BY <1>1 DEF LargerOf
<1> DEFINE c == [worker[w] EXCEPT !.phase = phase, !.token = held, !.slot = slot]
<1>3. nextAllowed' = slot + 1 /\ worker' = [worker EXCEPT ![w] = c]
  BY <1>2 DEF Reserve
<1>4. c \in Chart /\ c.phase = phase /\ c.slot = slot
      /\ c.tries = worker[w].tries /\ c.retries = worker[w].retries /\ c.refreshed = worker[w].refreshed
  BY <1>1 DEF Chart
<1> HIDE DEF c
<1>5. TriesAreCounted(c)
  <2>1. TriesAreCounted(worker[w])
    OBVIOUS
  <2> QED BY <1>4, <2>1 DEF TriesAreCounted
<1>6. /\ worker' \in [Workers -> Chart] /\ worker'[w] = c
      /\ \A v \in Workers \ {w} : worker'[v] = worker[v]
      /\ \A v \in Workers : TriesAreCounted(worker'[v])
  BY <1>3, <1>4, <1>5, OneChart
<1>7. SlotsAreUsed(used)'
  <2>1. \A v \in Workers : worker[v] \in Chart
    BY DEF KiwoomShapes
  <2>2. \A n \in used : n < slot + 1 /\ n # slot
    BY <1>1, <1>2 DEF SlotsAreUsed
  <2>3. ASSUME NEW v \in Workers, worker'[v].phase \in {"renew", "page"}
        PROVE  /\ worker'[v].slot < slot + 1 /\ worker'[v].slot \notin used
               /\ \A u \in Workers : worker'[u].phase \in {"renew", "page"} /\ u # v =>
                    worker'[u].slot # worker'[v].slot
    <3>1. \A u \in Workers \ {w} : worker'[u].phase \in {"renew", "page"} =>
            /\ worker'[u].slot = worker[u].slot /\ worker[u].slot \in Nat /\ worker[u].slot < nextAllowed
            /\ worker[u].phase \in {"renew", "page"}
      BY <1>6, <2>1 DEF SlotsAreUsed, Chart
    <3>2. worker'[w].slot = slot
      BY <1>4, <1>6
    <3>3. CASE v = w
      BY <3>1, <3>2, <3>3, <2>2, <1>1, <1>2
    <3>4. CASE v # w
      <4>1. /\ worker'[v].slot = worker[v].slot /\ worker[v].slot \in Nat /\ worker[v].slot < nextAllowed
            /\ worker[v].phase \in {"renew", "page"}
        <5>1. v \in Workers \ {w}
          BY <3>4
        <5> QED BY <5>1, <2>3, <3>1
      <4>2. /\ worker[v].slot \notin used
            /\ \A u \in Workers : worker[u].phase \in {"renew", "page"} /\ u # v =>
                 worker[u].slot # worker[v].slot
        BY <4>1 DEF SlotsAreUsed
      <4>3. worker'[v].slot < slot + 1 /\ worker'[v].slot # slot
        BY <4>1, <1>1, <1>2
      <4> QED BY <4>1, <4>2, <4>3, <3>1, <3>2
    <3> QED BY <3>3, <3>4
  <2>4. used \subseteq 0..clock' /\ Cardinality(used) = sent'.calls
    BY DEF SlotsAreUsed
  <2> QED BY <1>3, <2>2, <2>3, <2>4 DEF SlotsAreUsed
<1> QED BY <1>2, <1>3, <1>4, <1>6, <1>7

\* A worker begins a chart, finds a token, or asks for one.
LEMMA WaitingKeepsKiwoom ==
  ASSUME KiwoomInv, NEW w \in Workers, BeginChart(w) \/ UseToken(w) \/ RequestToken(w)
  PROVE  KiwoomInv'
<1>0. KiwoomShapes /\ (\A v \in Workers : TriesAreCounted(worker[v])) /\ TokensAreCounted
  BY DEF KiwoomInv
<1>1. PICK used \in SUBSET Nat : SlotsAreUsed(used)
  BY DEF KiwoomInv
<1>2. worker[w] \in Chart /\ token \in Nat
  BY <1>0 DEF KiwoomShapes
<1>3. CASE BeginChart(w)
  <2> DEFINE c == NextPage(w)
  <2>1. /\ worker[w].phase = "idle" /\ worker' = [worker EXCEPT ![w] = c]
        /\ UNCHANGED <<token, issuedTokens, refused, tokenLock, nextAllowed, clock, sent>>
    BY <1>3 DEF BeginChart
  <2>2. worker[w].page = 0
    BY <1>0, <2>1 DEF TriesAreCounted
  <2>3. c \in Chart /\ c.phase = "token" /\ c.tries = 0 /\ c.retries = 0
    <3>1. worker[w].page + 1 \in 0..MaxPages /\ 0 \in 0..MaxRetries
      BY <2>2, KiwoomAssumption
    <3>2. PICK n \in 0..MaxPages : n = worker[w].page + 1
      BY <3>1
    <3>3. c = [worker[w] EXCEPT !.phase = "token", !.page = n, !.retries = 0, !.refreshed = FALSE, !.tries = 0]
      BY <3>2 DEF NextPage
    <3> HIDE DEF c
    <3> QED BY <1>2, <3>1, <3>3 DEF Chart
  <2> HIDE DEF c
  <2>4. TriesAreCounted(c)
    BY <2>3 DEF TriesAreCounted
  <2>5. /\ worker' \in [Workers -> Chart] /\ worker'[w] = c
        /\ \A v \in Workers \ {w} : worker'[v] = worker[v]
        /\ \A v \in Workers : TriesAreCounted(worker'[v])
    BY <1>0, <2>1, <2>3, <2>4, OneChart
  <2>6. \A v \in Workers : worker'[v].phase \in {"renew", "page"} =>
          worker[v].phase \in {"renew", "page"} /\ worker'[v].slot = worker[v].slot
    BY <2>3, <2>5
  <2>7. SlotsAreUsed(used)'
    <3>1. clock \in Nat /\ clock' \in Nat /\ clock <= clock' /\ nextAllowed' = nextAllowed /\ sent'.calls = sent.calls
      BY <1>0, <2>1 DEF KiwoomShapes
    <3> QED BY <1>1, <2>6, <3>1, SlotsStay
  <2>8. KiwoomShapes'
    BY <1>0, <2>1, <2>5 DEF KiwoomShapes
  <2>9. TokensAreCounted'
    BY <1>0, <2>1, <2>3, <2>5 DEF TokensAreCounted
  <2> QED BY <2>5, <2>7, <2>8, <2>9 DEF KiwoomInv
<1>4. CASE UseToken(w)
  <2>1. /\ worker[w].phase = "token" /\ Reserve(w, "page", token) /\ clock' = clock /\ sent' = sent
        /\ UNCHANGED <<token, issuedTokens, refused, tokenLock>>
    BY <1>4 DEF UseToken
  <2>2. /\ SlotsAreUsed(used)' /\ nextAllowed' \in Nat
        /\ worker' \in [Workers -> Chart] /\ worker'[w].phase = "page"
        /\ \A v \in Workers \ {w} : worker'[v] = worker[v]
        /\ \A v \in Workers : TriesAreCounted(worker'[v])
    BY <1>0, <1>1, <1>2, <2>1, SlotIsReserved
  <2>3. KiwoomShapes'
    BY <1>0, <2>1, <2>2 DEF KiwoomShapes
  <2>4. TokensAreCounted'
    BY <1>0, <2>1, <2>2 DEF TokensAreCounted
  <2> QED BY <2>2, <2>3, <2>4 DEF KiwoomInv
<1>5. CASE RequestToken(w)
  <2>1. /\ worker[w].phase = "token" /\ Reserve(w, "renew", 0) /\ clock' = clock /\ sent' = sent
        /\ tokenLock = "none" /\ tokenLock' = w /\ token = 0
        /\ UNCHANGED <<token, issuedTokens, refused>>
    BY <1>5 DEF RequestToken
  <2>2. /\ SlotsAreUsed(used)' /\ nextAllowed' \in Nat
        /\ worker' \in [Workers -> Chart] /\ worker'[w].phase = "renew"
        /\ \A v \in Workers \ {w} : worker'[v] = worker[v]
        /\ \A v \in Workers : TriesAreCounted(worker'[v])
    BY <1>0, <1>1, <2>1, SlotIsReserved
  <2>3. KiwoomShapes'
    BY <1>0, <2>1, <2>2 DEF KiwoomShapes
  <2>4. \A v \in Workers : worker[v].phase # "renew"
    BY <1>0, <2>1, KiwoomAssumption DEF TokensAreCounted
  <2>5. TokensAreCounted'
    BY <1>0, <2>1, <2>2, <2>4 DEF TokensAreCounted
  <2> QED BY <2>2, <2>3, <2>5 DEF KiwoomInv
<1> QED BY <1>3, <1>4, <1>5

\* The server answers a call: for a token, or a page is sent.
LEMMA CallKeepsKiwoom ==
  ASSUME KiwoomInv, NEW w \in Workers, ReceiveToken(w) \/ SendPage(w)
  PROVE  KiwoomInv'
<1>0. KiwoomShapes /\ (\A v \in Workers : TriesAreCounted(worker[v])) /\ TokensAreCounted
  BY DEF KiwoomInv
<1>1. PICK used \in SUBSET Nat : SlotsAreUsed(used)
  BY DEF KiwoomInv
<1>2. /\ worker[w] \in Chart /\ issuedTokens \in Nat /\ refused \subseteq 1..issuedTokens
      /\ sent \in [calls : Nat, refusals : Nat, expiries : Nat]
  BY <1>0 DEF KiwoomShapes
<1>3. /\ worker[w].phase \in {"renew", "page"} /\ clock >= worker[w].slot
      /\ nextAllowed' = nextAllowed /\ clock' = clock /\ sent' = Counted
  BY DEF ReceiveToken, SendPage
<1>4. /\ sent' \in [calls : Nat, refusals : Nat, expiries : Nat] /\ sent'.calls = sent.calls + 1
      /\ sent'.refusals = sent.refusals /\ sent'.expiries = sent.expiries
  BY <1>2, <1>3 DEF Counted
<1>5. ASSUME NEW c \in Chart, TriesAreCounted(c), c.phase \notin {"renew", "page"},
             worker' = [worker EXCEPT ![w] = c]
      PROVE  /\ worker' \in [Workers -> Chart] /\ worker'[w] = c
             /\ \A v \in Workers \ {w} : worker'[v] = worker[v]
             /\ \A v \in Workers : TriesAreCounted(worker'[v])
             /\ \E more \in SUBSET Nat : SlotsAreUsed(more)'
  <2>1. /\ worker' \in [Workers -> Chart] /\ worker'[w] = c
        /\ \A v \in Workers \ {w} : worker'[v] = worker[v]
        /\ \A v \in Workers : TriesAreCounted(worker'[v])
    BY <1>0, <1>5, OneChart
  <2>2. worker'[w].phase \notin {"renew", "page"}
    BY <1>5, <2>1
  <2>3. sent'.calls = sent.calls + 1
    BY <1>4
  <2> QED BY <1>0, <1>1, <1>3, <2>1, <2>2, <2>3, SlotIsUsed
<1>6. CASE ReceiveToken(w)
  <2>1. worker[w].phase = "renew" /\ tokenLock' = "none"
    BY <1>6 DEF ReceiveToken
  <2>2. token = 0 /\ issuedTokens <= sent.expiries + sent.refusals
        /\ \A v \in Workers \ {w} : worker[v].phase # "renew"
    BY <1>0, <2>1, KiwoomAssumption DEF TokensAreCounted
  <2>3. ASSUME NEW c \in Chart, TriesAreCounted(c), c.phase \in {"idle", "token"},
               worker' = [worker EXCEPT ![w] = c],
               \/ token' = issuedTokens' /\ issuedTokens' = issuedTokens + 1
               \/ token' = token /\ issuedTokens' = issuedTokens,
               refused' \subseteq 1..issuedTokens
        PROVE  KiwoomInv'
    <3>1. /\ worker' \in [Workers -> Chart] /\ worker'[w] = c
          /\ \A v \in Workers \ {w} : worker'[v] = worker[v]
          /\ \A v \in Workers : TriesAreCounted(worker'[v])
          /\ \E more \in SUBSET Nat : SlotsAreUsed(more)'
      BY <2>3, <1>5
    <3>2. issuedTokens' \in Nat /\ token' \in 0..issuedTokens' /\ refused' \subseteq 1..issuedTokens'
      BY <1>0, <1>2, <2>3 DEF KiwoomShapes
    <3>3. KiwoomShapes'
      BY <1>0, <1>3, <1>4, <2>1, <3>1, <3>2 DEF KiwoomShapes
    <3>4. issuedTokens' <= 1 + sent'.expiries + sent'.refusals
          /\ (token' = 0 => issuedTokens' <= sent'.expiries + sent'.refusals)
      BY <1>2, <1>4, <2>2, <2>3
    <3>5. \A v \in Workers : worker'[v].phase # "renew"
      BY <2>2, <2>3, <3>1
    <3>6. TokensAreCounted'
      BY <2>1, <3>4, <3>5 DEF TokensAreCounted
    <3> QED BY <3>1, <3>3, <3>6 DEF KiwoomInv
  <2>4. CASE /\ issuedTokens' = issuedTokens + 1
             /\ token' = issuedTokens + 1
             /\ \E stale \in {{}, 1..issuedTokens} : refused' = refused \cup stale
             /\ worker' = [worker EXCEPT ![w].phase = "token"]
    <3> DEFINE c == [worker[w] EXCEPT !.phase = "token"]
    <3>1. worker' = [worker EXCEPT ![w] = c]
      BY <2>4
    <3>2. c \in Chart /\ c.phase = "token" /\ c.tries = worker[w].tries /\ c.retries = worker[w].retries
          /\ c.refreshed = worker[w].refreshed
      BY <1>2 DEF Chart
    <3> HIDE DEF c
    <3>3. TriesAreCounted(c)
      BY <1>0, <2>1, <3>2 DEF TriesAreCounted
    <3>4. refused' \subseteq 1..issuedTokens
      BY <1>2, <2>4
    <3> QED BY <2>3, <2>4, <3>1, <3>2, <3>3, <3>4
  <2>5. CASE /\ \E retryable \in BOOLEAN : RetryOrRaise(w, retryable)
             /\ UNCHANGED <<token, issuedTokens, refused>>
    <3>1. PICK retryable \in BOOLEAN : RetryOrRaise(w, retryable)
      BY <2>5
    <3>2. PICK c \in Chart : TriesAreCounted(c) /\ c.phase \in {"idle", "token"}
                             /\ worker' = [worker EXCEPT ![w] = c]
      BY <1>0, <2>1, <3>1, Retried
    <3> QED BY <1>2, <2>3, <2>5, <3>2
  <2> QED BY <1>6, <2>4, <2>5 DEF ReceiveToken
<1>7. CASE SendPage(w)
  <2> DEFINE c == [worker[w] EXCEPT !.phase = "sent", !.tries = worker[w].tries + 1]
  <2>1. worker[w].phase = "page" /\ worker' = [worker EXCEPT ![w] = c]
        /\ UNCHANGED <<token, issuedTokens, refused, tokenLock>>
    BY <1>7, <1>2 DEF SendPage, Chart
  <2>2. c \in Chart /\ c.phase = "sent" /\ c.tries = worker[w].tries + 1 /\ c.retries = worker[w].retries
        /\ c.refreshed = worker[w].refreshed
    <3>1. PICK n \in Nat : n = worker[w].tries + 1
      BY <1>2 DEF Chart
    <3>2. c = [worker[w] EXCEPT !.phase = "sent", !.tries = n]
      BY <3>1
    <3> HIDE DEF c
    <3> QED BY <1>2, <3>1, <3>2 DEF Chart
  <2> HIDE DEF c
  <2>3. TriesAreCounted(c)
    <3>1. /\ worker[w].tries \in Nat /\ worker[w].retries \in Nat /\ worker[w].refreshed \in BOOLEAN
          /\ worker[w].tries <= worker[w].retries + 1
          /\ ~worker[w].refreshed => worker[w].tries <= worker[w].retries
      BY <1>0, <1>2, <2>1 DEF Chart, TriesAreCounted
    <3> QED BY <2>2, <3>1 DEF TriesAreCounted
  <2>4. /\ worker' \in [Workers -> Chart] /\ worker'[w] = c
        /\ \A v \in Workers \ {w} : worker'[v] = worker[v]
        /\ \A v \in Workers : TriesAreCounted(worker'[v])
        /\ \E more \in SUBSET Nat : SlotsAreUsed(more)'
    BY <1>5, <2>1, <2>2, <2>3
  <2>5. KiwoomShapes'
    BY <1>0, <1>3, <1>4, <2>1, <2>4 DEF KiwoomShapes
  <2>6. TokensAreCounted'
    BY <1>0, <1>4, <2>1, <2>2, <2>4 DEF TokensAreCounted
  <2> QED BY <2>4, <2>5, <2>6 DEF KiwoomInv
<1> QED BY <1>6, <1>7

\* What an answered page leads to.
LEMMA AnswerKeepsKiwoom ==
  ASSUME KiwoomInv, NEW w \in Workers, DropToken(w) \/ PageFails(w) \/ PageArrives(w)
  PROVE  KiwoomInv'
<1>0. KiwoomShapes /\ (\A v \in Workers : TriesAreCounted(worker[v])) /\ TokensAreCounted
  BY DEF KiwoomInv
<1>1. PICK used \in SUBSET Nat : SlotsAreUsed(used)
  BY DEF KiwoomInv
<1>2. /\ worker[w] \in Chart /\ issuedTokens \in Nat /\ clock \in Nat /\ token \in Nat
      /\ sent \in [calls : Nat, refusals : Nat, expiries : Nat]
  BY <1>0 DEF KiwoomShapes
<1>3. /\ worker[w].phase = "sent"
      /\ UNCHANGED <<issuedTokens, refused, tokenLock, nextAllowed, clock>>
  BY DEF DropToken, PageFails, PageArrives
<1>4. ASSUME NEW c \in Chart, TriesAreCounted(c), c.phase \in {"idle", "token"},
             worker' = [worker EXCEPT ![w] = c],
             \/ token' = token /\ sent' = sent
             \/ token' = 0 /\ sent' = [sent EXCEPT !.refusals = @ + 1]
      PROVE  KiwoomInv'
  <2>1. /\ worker' \in [Workers -> Chart] /\ worker'[w] = c
        /\ \A v \in Workers \ {w} : worker'[v] = worker[v]
        /\ \A v \in Workers : TriesAreCounted(worker'[v])
    BY <1>0, <1>4, OneChart
  <2>2. /\ sent' \in [calls : Nat, refusals : Nat, expiries : Nat] /\ sent'.calls = sent.calls
        /\ sent'.expiries = sent.expiries
        /\ sent'.refusals = sent.refusals \/ (sent'.refusals = sent.refusals + 1 /\ token' = 0)
    BY <1>2, <1>4
  <2>3. \A v \in Workers : worker'[v].phase \in {"renew", "page"} =>
          worker[v].phase \in {"renew", "page"} /\ worker'[v].slot = worker[v].slot
    BY <1>4, <2>1
  <2>4. SlotsAreUsed(used)'
    <3>1. clock' \in Nat /\ clock <= clock' /\ nextAllowed' = nextAllowed
      BY <1>2, <1>3
    <3> QED BY <1>1, <1>2, <2>2, <2>3, <3>1, SlotsStay
  <2>5. KiwoomShapes'
    <3>1. token' \in 0..issuedTokens'
      BY <1>0, <1>2, <1>3, <1>4 DEF KiwoomShapes
    <3> QED BY <1>0, <1>3, <2>1, <2>2, <3>1 DEF KiwoomShapes
  <2>6. TokensAreCounted'
    <3>1. issuedTokens' <= 1 + sent'.expiries + sent'.refusals
          /\ (token' = 0 => issuedTokens' <= sent'.expiries + sent'.refusals)
      <4>1. issuedTokens <= 1 + sent.expiries + sent.refusals
            /\ (token = 0 => issuedTokens <= sent.expiries + sent.refusals)
        BY <1>0 DEF TokensAreCounted
      <4>2. CASE sent'.refusals = sent.refusals + 1
        BY <4>1, <4>2, <1>2, <1>3, <2>2
      <4>3. CASE sent'.refusals = sent.refusals /\ sent'.refusals # sent.refusals + 1
        <5>1. token' = token
          BY <1>4, <1>2, <4>3
        <5> QED BY <4>1, <4>3, <5>1, <1>2, <1>3, <2>2
      <4> QED BY <4>2, <4>3, <2>2
    <3>2. \A v \in Workers : worker'[v].phase = "renew" => tokenLock' = v
      BY <1>0, <1>3, <1>4, <2>1 DEF TokensAreCounted
    <3>3. tokenLock' # "none" => token' = 0
      BY <1>0, <1>3, <1>4 DEF TokensAreCounted
    <3> QED BY <3>1, <3>2, <3>3 DEF TokensAreCounted
  <2> QED BY <2>1, <2>4, <2>5, <2>6 DEF KiwoomInv
<1>5. CASE DropToken(w)
  <2> DEFINE c == [worker[w] EXCEPT !.phase = "token", !.refreshed = TRUE]
  <2>1. /\ ~worker[w].refreshed /\ worker' = [worker EXCEPT ![w] = c]
        /\ token' = 0 /\ sent' = [sent EXCEPT !.refusals = @ + 1]
    BY <1>5 DEF DropToken
  <2>2. c \in Chart /\ c.phase = "token" /\ c.refreshed = TRUE /\ c.tries = worker[w].tries
        /\ c.retries = worker[w].retries
    BY <1>2 DEF Chart
  <2> HIDE DEF c
  <2>3. TriesAreCounted(c)
    BY <1>0, <1>2, <2>1, <2>2 DEF Chart, TriesAreCounted
  <2> QED BY <1>4, <2>1, <2>2, <2>3
<1>6. CASE PageFails(w)
  <2>1. token' = token /\ sent' = sent /\ \E retryable \in BOOLEAN : RetryOrRaise(w, retryable)
    BY <1>6 DEF PageFails
  <2>2. PICK c \in Chart : TriesAreCounted(c) /\ c.phase \in {"idle", "token"}
                           /\ worker' = [worker EXCEPT ![w] = c]
    BY <1>0, <1>3, <2>1, Retried
  <2> QED BY <1>4, <2>1, <2>2
<1>7. CASE PageArrives(w)
  <2>1. /\ token' = token /\ sent' = sent
        /\ \/ worker' = [worker EXCEPT ![w] = NoChart]
           \/ worker[w].page < MaxPages /\ worker' = [worker EXCEPT ![w] = NextPage(w)]
    BY <1>7 DEF PageArrives
  <2>2. CASE worker' = [worker EXCEPT ![w] = NoChart]
    BY <1>4, <2>1, <2>2, NoChartIsOne
  <2>3. CASE worker[w].page < MaxPages /\ worker' = [worker EXCEPT ![w] = NextPage(w)]
    <3>1. worker[w].page + 1 \in 0..MaxPages /\ 0 \in 0..MaxRetries
      BY <1>2, <2>3, KiwoomAssumption DEF Chart
    <3>2. PICK n \in 0..MaxPages : n = worker[w].page + 1
      BY <3>1
    <3> DEFINE c == NextPage(w)
    <3>3. c = [worker[w] EXCEPT !.phase = "token", !.page = n, !.retries = 0, !.refreshed = FALSE, !.tries = 0]
      BY <3>2 DEF NextPage
    <3>6. worker' = [worker EXCEPT ![w] = c]
      BY <2>3
    <3> HIDE DEF c
    <3>4. c \in Chart /\ c.phase = "token" /\ c.tries = 0 /\ c.retries = 0
      BY <1>2, <3>1, <3>3 DEF Chart
    <3>5. TriesAreCounted(c)
      BY <3>4 DEF TriesAreCounted
    <3> QED BY <1>4, <2>1, <3>4, <3>5, <3>6
  <2> QED BY <2>1, <2>2, <2>3
<1> QED BY <1>5, <1>6, <1>7

\* The token expires or is refused, and time passes.
LEMMA TimeKeepsKiwoom ==
  ASSUME KiwoomInv, TokenExpires \/ ServerRefuses \/ TimePasses \/ UNCHANGED kiwoomVars
  PROVE  KiwoomInv'
<1>0. KiwoomShapes /\ (\A v \in Workers : TriesAreCounted(worker[v])) /\ TokensAreCounted
  BY DEF KiwoomInv
<1>1. PICK used \in SUBSET Nat : SlotsAreUsed(used)
  BY DEF KiwoomInv
<1>2. /\ worker' = worker /\ nextAllowed' = nextAllowed /\ issuedTokens' = issuedTokens /\ tokenLock' = tokenLock
      /\ clock' = clock \/ clock' = clock + 1
      /\ refused' = refused \/ refused' = 1..issuedTokens
      /\ \/ token' = token /\ sent' = sent
         \/ token' = 0 /\ sent' = [sent EXCEPT !.expiries = @ + 1]
  BY DEF TokenExpires, ServerRefuses, TimePasses, kiwoomVars
<1>3. /\ clock \in Nat /\ issuedTokens \in Nat /\ token \in 0..issuedTokens
      /\ sent \in [calls : Nat, refusals : Nat, expiries : Nat]
  BY <1>0 DEF KiwoomShapes
<1>4. clock' \in Nat /\ clock <= clock'
  BY <1>2, <1>3
<1>5. /\ sent' \in [calls : Nat, refusals : Nat, expiries : Nat] /\ sent'.calls = sent.calls
      /\ sent'.refusals = sent.refusals
      /\ (sent'.expiries = sent.expiries /\ token' = token) \/ (sent'.expiries = sent.expiries + 1 /\ token' = 0)
  BY <1>2, <1>3
<1>6. SlotsAreUsed(used)'
  BY <1>1, <1>2, <1>3, <1>4, <1>5, SlotsStay
<1>7. KiwoomShapes'
  <2>1. token' \in 0..issuedTokens' /\ refused' \subseteq 1..issuedTokens'
    BY <1>0, <1>2, <1>3 DEF KiwoomShapes
  <2> QED BY <1>0, <1>2, <1>4, <1>5, <2>1 DEF KiwoomShapes
<1>8. TokensAreCounted'
  <2>1. issuedTokens <= 1 + sent.expiries + sent.refusals
        /\ (token = 0 => issuedTokens <= sent.expiries + sent.refusals)
        /\ (\A w \in Workers : worker[w].phase = "renew" => tokenLock = w)
        /\ (tokenLock # "none" => token = 0)
    BY <1>0 DEF TokensAreCounted
  <2>2. issuedTokens' <= 1 + sent'.expiries + sent'.refusals
        /\ (token' = 0 => issuedTokens' <= sent'.expiries + sent'.refusals)
    BY <2>1, <1>2, <1>3, <1>5
  <2> QED BY <1>2, <1>5, <2>1, <2>2 DEF TokensAreCounted
<1> QED BY <1>0, <1>2, <1>6, <1>7, <1>8 DEF KiwoomInv

LEMMA KiwoomSteps == KiwoomInv /\ [KiwoomNext]_kiwoomVars => KiwoomInv'
BY WaitingKeepsKiwoom, CallKeepsKiwoom, AnswerKeepsKiwoom, TimeKeepsKiwoom DEF KiwoomNext

\* kiwoom_client.py:168: however the threads are scheduled, no more calls were made
\* than slots of the limiter have come, no page is sent more often than its
\* retries and one refused token account for, and no token is asked for without
\* an expiry or a refusal before it.
THEOREM KiwoomCallsTheorem == KiwoomSpec => [](KiwoomTypeOK /\ KiwoomCallsAreBounded)
<1>1. ASSUME KiwoomInv PROVE KiwoomTypeOK
  <2>1. KiwoomShapes
    BY <1>1 DEF KiwoomInv
  <2>2. \A w \in Workers : worker[w] \in Chart
    BY <2>1 DEF KiwoomShapes
  <2> QED BY <2>1, <2>2 DEF KiwoomShapes, KiwoomTypeOK, Chart
<1>2. ASSUME KiwoomInv PROVE KiwoomCallsAreBounded
  <2>0. KiwoomShapes /\ (\A v \in Workers : TriesAreCounted(worker[v])) /\ TokensAreCounted
    BY <1>2 DEF KiwoomInv
  <2>1. PICK used \in SUBSET Nat : SlotsAreUsed(used)
    BY <1>2 DEF KiwoomInv
  <2>2. sent.calls <= clock + 1
    <3>1. clock \in Nat
      BY <2>0 DEF KiwoomShapes
    <3>2. IsFiniteSet(0..clock) /\ Cardinality(0..clock) = clock + 1
      BY <3>1, FS_Interval
    <3>3. Cardinality(used) <= Cardinality(0..clock)
      BY <2>1, <3>2, FS_Subset DEF SlotsAreUsed
    <3> QED BY <2>1, <3>2, <3>3 DEF SlotsAreUsed
  <2>3. \A w \in Workers : worker[w].tries <= MaxRetries + 2
    <3> SUFFICES ASSUME NEW w \in Workers PROVE worker[w].tries <= MaxRetries + 2
        OBVIOUS
    <3>1. worker[w].tries \in Nat /\ worker[w].retries \in 0..MaxRetries
      BY <2>0 DEF KiwoomShapes, Chart
    <3>2. worker[w].tries <= worker[w].retries + 2
      BY <2>0 DEF TriesAreCounted
    <3> QED BY <3>1, <3>2, KiwoomAssumption
  <2>4. issuedTokens <= 1 + sent.expiries + sent.refusals
    BY <2>0 DEF TokensAreCounted
  <2> QED BY <2>2, <2>3, <2>4 DEF KiwoomCallsAreBounded
<1> QED BY <1>1, <1>2, KiwoomStarts, KiwoomSteps, PTL DEF KiwoomSpec

-----------------------------------------------------------------------------
(***************************************************************************)
(* The end-of-day step.  Each market that has been reported leaves its     *)
(* symbols either with a row of a stored batch, or queued for the fallback *)
(* source if there is one, or failed or skipped.                           *)
(***************************************************************************)
BatchStatus == {"none", "excluded", "invalid", "unstored", "stored"}
Batch == [status : BatchStatus, rows : SUBSET EodCodes]
TargetRow == [status : PriceStatus \cup {"none"}, by : {"none", "canary", "eod", "fallback"}]
Writers == {"none", "eod", "fallback"}

EodShapes ==
  /\ eodStep \in [phase : {"idle", "markets", "done"}, session : BOOLEAN, fallback : BOOLEAN]
  /\ eodBatch \in [EodMarkets -> Batch]
  /\ \A m \in EodMarkets : eodBatch[m].rows \subseteq Allowed(m)
  /\ eodTarget \in [EodCodes -> TargetRow]
  /\ eodFallback \subseteq EodCodes
  /\ eodPrice \in [EodCodes -> Writers] /\ eodSaved \in [EodCodes -> Writers]

Backed(c) == eodBatch[EodMarketOf[c]].status = "stored" /\ c \in eodBatch[EodMarketOf[c]].rows

\* What the batch of a market has left of a symbol.
MarketIsReported(c) ==
  IF eodBatch[EodMarketOf[c]] = NoBatch THEN c \notin eodFallback
  ELSE /\ eodTarget[c].status # "none" /\ eodTarget[c].by # "fallback"
       /\ Backed(c) => /\ eodTarget[c].status \in {"fetched", "no_new_data"}
                       /\ eodPrice[c] = "eod" /\ c \notin eodFallback
       /\ ~Backed(c) /\ eodStep.fallback => c \in eodFallback
       /\ ~Backed(c) /\ ~eodStep.fallback =>
            eodTarget[c].status = IF c \in CanaryCodes THEN "failed" ELSE "skipped"

EodInv ==
  /\ EodShapes
  /\ eodStep.phase = "markets" => \A c \in EodCodes : MarketIsReported(c)
  /\ EodOutcomeIsBacked

LEMMA EodStarts == EodInit => EodInv
<1> SUFFICES ASSUME EodInit PROVE EodInv
    OBVIOUS
<1> USE DEF EodInit
<1>1. NoBatch \in Batch /\ NoTarget \in TargetRow
  BY DEF NoBatch, NoTarget, Batch, BatchStatus, TargetRow
<1>2. \A m \in EodMarkets : eodBatch[m].rows \subseteq Allowed(m)
  BY DEF NoBatch
<1>3. EodShapes
  BY <1>1, <1>2 DEF EodShapes, Writers
<1>4. EodOutcomeIsBacked
  BY DEF EodOutcomeIsBacked
<1> QED BY <1>3, <1>4 DEF EodInv

\* Reporting a market's batch.
LEMMA ReportKeepsEod ==
  ASSUME EodInv, NEW m \in EodMarkets, Pending(m),
         NEW batch \in Batch, batch # NoBatch, batch.rows \subseteq Allowed(m),
         NEW said, \A c \in Allowed(m) : said[c] \in PriceStatus,
         NEW queued \in SUBSET Allowed(m),
         Report(m, batch, said, queued),
         eodPrice' \in [EodCodes -> Writers],
         \A c \in EodCodes \ Allowed(m) : eodPrice'[c] = eodPrice[c],
         \A c \in Allowed(m) :
           IF batch.status = "stored" /\ c \in batch.rows
           THEN said[c] \in {"fetched", "no_new_data"} /\ eodPrice'[c] = "eod" /\ c \notin queued
           ELSE /\ eodStep.fallback => c \in queued
                /\ ~eodStep.fallback => said[c] = "failed"
  PROVE  EodInv'
<1>0. EodShapes /\ eodStep.phase = "markets" /\ eodBatch[m] = NoBatch
      /\ \A c \in EodCodes : MarketIsReported(c)
  BY DEF EodInv, Pending
<1>1. /\ eodBatch' = [eodBatch EXCEPT ![m] = batch]
      /\ eodFallback' = eodFallback \cup Excluded(m) \cup queued
      /\ eodStep' = eodStep /\ eodSaved' = eodSaved
  BY DEF Report
<1>2. eodBatch \in [EodMarkets -> Batch] /\ eodTarget \in [EodCodes -> TargetRow]
  BY <1>0 DEF EodShapes
<1>3. /\ eodBatch' \in [EodMarkets -> Batch] /\ eodBatch'[m] = batch
      /\ \A k \in EodMarkets \ {m} : eodBatch'[k] = eodBatch[k]
  BY <1>1, <1>2
<1>4. /\ Allowed(m) = {c \in EodCodes : EodMarketOf[c] = m /\ c \in CanaryCodes}
      /\ Excluded(m) = {c \in EodCodes : EodMarketOf[c] = m /\ c \notin CanaryCodes}
  BY DEF Allowed, Excluded, CodesOf
<1>5. eodTarget' = [c \in EodCodes |->
        IF c \in Excluded(m) THEN [status |-> "skipped", by |-> "canary"]
        ELSE IF c \in Allowed(m) THEN [status |-> said[c], by |-> "eod"] ELSE eodTarget[c]]
  BY DEF Report
<1>6. \A c \in EodCodes :
        /\ EodMarketOf[c] # m => eodTarget'[c] = eodTarget[c]
        /\ c \in Excluded(m) => eodTarget'[c] = [status |-> "skipped", by |-> "canary"]
        /\ c \in Allowed(m) => eodTarget'[c] = [status |-> said[c], by |-> "eod"]
  BY <1>4, <1>5
<1>11. ASSUME NEW c \in Excluded(m)
       PROVE  eodTarget'[c] \in TargetRow /\ eodTarget'[c].status = "skipped" /\ eodTarget'[c].by = "canary"
  <2>1. PICK t : t = eodTarget'[c] /\ t = [status |-> "skipped", by |-> "canary"]
    BY <1>4, <1>6
  <2>2. t \in TargetRow /\ t.status = "skipped" /\ t.by = "canary"
    BY <2>1 DEF TargetRow, PriceStatus
  <2> QED BY <2>1, <2>2
<1>12. ASSUME NEW c \in Allowed(m)
       PROVE  eodTarget'[c] \in TargetRow /\ eodTarget'[c].status = said[c] /\ eodTarget'[c].by = "eod"
  <2>1. PICK t : t = eodTarget'[c] /\ t = [status |-> said[c], by |-> "eod"]
    BY <1>4, <1>6
  <2>2. t \in TargetRow /\ t.status = said[c] /\ t.by = "eod"
    BY <2>1 DEF TargetRow
  <2> QED BY <2>1, <2>2
<1>7. eodTarget' \in [EodCodes -> TargetRow]
  <2>1. ASSUME NEW c \in EodCodes PROVE eodTarget'[c] \in TargetRow
    <3>1. CASE EodMarketOf[c] # m
      BY <3>1, <1>2, <1>6
    <3>2. CASE c \in Excluded(m)
      BY <3>2, <1>11
    <3>3. CASE c \in Allowed(m)
      BY <3>3, <1>12
    <3> QED BY <3>1, <3>2, <3>3, <1>4
  <2> QED BY <2>1, <1>5
<1>8. EodShapes'
  <2>1. \A k \in EodMarkets : eodBatch'[k].rows \subseteq Allowed(k)
    BY <1>0, <1>3 DEF EodShapes
  <2>2. eodFallback' \subseteq EodCodes
    BY <1>0, <1>1, <1>4 DEF EodShapes
  <2> QED BY <1>0, <1>1, <1>3, <1>7, <2>1, <2>2 DEF EodShapes
<1>9. ASSUME NEW c \in EodCodes PROVE MarketIsReported(c)'
  <2>0. EodMarketOf[c] \in EodMarkets
    BY DEF EodMarkets
  <2>1. CASE EodMarketOf[c] # m
    <3>1. /\ eodBatch'[EodMarketOf[c]] = eodBatch[EodMarketOf[c]] /\ eodTarget'[c] = eodTarget[c]
          /\ eodPrice'[c] = eodPrice[c] /\ eodStep' = eodStep /\ (c \in eodFallback' <=> c \in eodFallback)
      BY <2>0, <2>1, <1>1, <1>3, <1>4, <1>6
    <3>2. MarketIsReported(c)
      BY <1>0
    <3> QED BY <3>1, <3>2 DEF MarketIsReported, Backed
  <2>2. CASE EodMarketOf[c] = m
    <3>1. eodBatch'[EodMarketOf[c]] = batch /\ c \notin eodFallback
      BY <2>2, <1>0, <1>3 DEF MarketIsReported
    <3>2. CASE c \notin CanaryCodes
      <4>1. /\ c \in Excluded(m) /\ c \in eodFallback' /\ c \notin batch.rows
            /\ eodTarget'[c].status = "skipped" /\ eodTarget'[c].by = "canary"
        <5>1. c \in Excluded(m) /\ c \notin Allowed(m)
          BY <2>2, <3>2, <1>4
        <5> QED BY <5>1, <1>1, <1>11
      <4> QED BY <3>1, <3>2, <4>1 DEF MarketIsReported, Backed
    <3>3. CASE c \in CanaryCodes
      <4>1. /\ c \in Allowed(m) /\ (c \in eodFallback' <=> c \in queued)
            /\ eodTarget'[c].status = said[c] /\ eodTarget'[c].by = "eod" /\ said[c] \in PriceStatus
        <5>1. c \in Allowed(m) /\ c \notin Excluded(m)
          BY <2>2, <3>3, <1>4
        <5> QED BY <5>1, <3>1, <1>1, <1>12
      <4>2. said[c] # "none"
        BY <4>1 DEF PriceStatus
      <4>3. CASE batch.status = "stored" /\ c \in batch.rows
        BY <4>1, <4>2, <4>3, <3>1, <3>3, <1>1 DEF MarketIsReported, Backed
      <4>4. CASE ~(batch.status = "stored" /\ c \in batch.rows)
        BY <4>1, <4>2, <4>4, <3>1, <3>3, <1>1 DEF MarketIsReported, Backed
      <4> QED BY <4>3, <4>4
    <3> QED BY <3>2, <3>3
  <2> QED BY <2>1, <2>2
<1>10. EodOutcomeIsBacked'
  BY <1>0, <1>1 DEF EodOutcomeIsBacked
<1> QED BY <1>8, <1>9, <1>10 DEF EodInv

\* A market that is excluded, rejected, not stored or stored.
LEMMA MarketKeepsEod ==
  ASSUME EodInv, NEW m \in EodMarkets,
         ExcludeMarket(m) \/ RejectBatch(m) \/ UnstoredBatch(m) \/ StoreBatch(m)
  PROVE  EodInv'
<1>0. EodShapes
  BY DEF EodInv
<1>1. eodPrice \in [EodCodes -> Writers] /\ Allowed(m) \subseteq EodCodes
      /\ eodStep.fallback \in BOOLEAN
  BY <1>0 DEF EodShapes, Allowed, CodesOf
<1>2. /\ \A c \in Allowed(m) : AllFailed(m)[c] = "failed"
      /\ \A codes : QueuedIfFallback(codes) = IF eodStep.fallback THEN codes ELSE {}
      /\ "failed" \in PriceStatus
  BY DEF AllFailed, QueuedIfFallback, PriceStatus
<1>3. ASSUME NEW batch \in Batch, batch # NoBatch, batch.rows \subseteq Allowed(m), batch.status # "stored",
             NEW queued \in SUBSET Allowed(m), eodStep.fallback => queued = Allowed(m),
             Pending(m), Report(m, batch, AllFailed(m), queued), eodPrice' = eodPrice
      PROVE  EodInv'
  <2>1. \A c \in Allowed(m) : AllFailed(m)[c] \in PriceStatus
    BY <1>2
  <2>2. \A c \in Allowed(m) :
          IF batch.status = "stored" /\ c \in batch.rows
          THEN AllFailed(m)[c] \in {"fetched", "no_new_data"} /\ eodPrice'[c] = "eod" /\ c \notin queued
          ELSE /\ eodStep.fallback => c \in queued
               /\ ~eodStep.fallback => AllFailed(m)[c] = "failed"
    BY <1>2, <1>3
  <2>3. eodPrice' \in [EodCodes -> Writers] /\ \A c \in EodCodes \ Allowed(m) : eodPrice'[c] = eodPrice[c]
    BY <1>1, <1>3
  <2>4. PICK said : said = AllFailed(m)
    OBVIOUS
  <2> QED BY <1>3, <2>1, <2>2, <2>3, <2>4, ReportKeepsEod
<1>4. ASSUME NEW name \in {"excluded", "invalid"}
      PROVE  [NoBatch EXCEPT !.status = name] \in Batch /\ [NoBatch EXCEPT !.status = name] # NoBatch
             /\ [NoBatch EXCEPT !.status = name].rows = {} /\ [NoBatch EXCEPT !.status = name].status # "stored"
  BY DEF NoBatch, Batch, BatchStatus
<1>5. CASE ExcludeMarket(m)
  <2>1. /\ Pending(m) /\ Allowed(m) = {} /\ eodPrice' = eodPrice
        /\ Report(m, [NoBatch EXCEPT !.status = "excluded"], AllFailed(m), {})
    BY <1>5 DEF ExcludeMarket
  <2> QED BY <2>1, <1>3, <1>4
<1>6. CASE RejectBatch(m)
  <2>1. /\ Pending(m) /\ eodPrice' = eodPrice
        /\ Report(m, [NoBatch EXCEPT !.status = "invalid"], AllFailed(m), QueuedIfFallback(Allowed(m)))
    BY <1>6 DEF RejectBatch, MayFetch
  <2>2. QueuedIfFallback(Allowed(m)) \in SUBSET Allowed(m)
        /\ (eodStep.fallback => QueuedIfFallback(Allowed(m)) = Allowed(m))
    BY <1>2
  <2> QED BY <2>1, <2>2, <1>3, <1>4
<1>7. CASE UnstoredBatch(m)
  <2>1. PICK b \in EodAnswers :
          /\ ValidBatch(m, b)
          /\ Report(m, [status |-> "unstored", rows |-> b.rows], AllFailed(m),
                    (Allowed(m) \ b.rows) \cup QueuedIfFallback(Allowed(m)))
    BY <1>7 DEF UnstoredBatch
  <2>2. Pending(m) /\ eodPrice' = eodPrice
    BY <1>7 DEF UnstoredBatch, MayFetch
  <2>3. b.rows \subseteq Allowed(m)
    BY <2>1 DEF ValidBatch
  <2>4. PICK batch : batch = [status |-> "unstored", rows |-> b.rows]
    OBVIOUS
  <2>5. PICK queued : queued = (Allowed(m) \ b.rows) \cup QueuedIfFallback(Allowed(m))
    OBVIOUS
  <2>6. batch \in Batch /\ batch # NoBatch /\ batch.rows \subseteq Allowed(m) /\ batch.status # "stored"
    BY <2>3, <2>4, <1>1 DEF Batch, BatchStatus, NoBatch
  <2>7. queued \in SUBSET Allowed(m) /\ (eodStep.fallback => queued = Allowed(m))
    BY <2>5, <1>2
  <2>8. Report(m, batch, AllFailed(m), queued)
    BY <2>1, <2>4, <2>5
  <2> QED BY <2>2, <2>6, <2>7, <2>8, <1>3
<1>8. CASE StoreBatch(m)
  <2>1. PICK b \in EodAnswers :
          /\ ValidBatch(m, b)
          /\ Report(m, [status |-> "stored", rows |-> b.rows],
                 [c \in Allowed(m) |->
                    IF c \in b.rows THEN (IF eodPrice[c] = "none" THEN "fetched" ELSE "no_new_data")
                    ELSE IF eodStep.fallback THEN "skipped" ELSE "failed"],
                 Allowed(m) \ b.rows)
          /\ eodPrice' = [c \in EodCodes |-> IF c \in b.rows THEN "eod" ELSE eodPrice[c]]
    BY <1>8 DEF StoreBatch
  <2>2. Pending(m)
    BY <1>8 DEF StoreBatch, MayFetch
  <2>3. b.rows \subseteq Allowed(m)
    BY <2>1 DEF ValidBatch
  <2>4. PICK batch : batch = [status |-> "stored", rows |-> b.rows]
    OBVIOUS
  <2>5. PICK queued : queued = Allowed(m) \ b.rows
    OBVIOUS
  <2>6. PICK said : said = [c \in Allowed(m) |->
                    IF c \in b.rows THEN (IF eodPrice[c] = "none" THEN "fetched" ELSE "no_new_data")
                    ELSE IF eodStep.fallback THEN "skipped" ELSE "failed"]
    OBVIOUS
  <2>7. batch \in Batch /\ batch # NoBatch /\ batch.rows = b.rows /\ batch.status = "stored"
    BY <2>3, <2>4, <1>1 DEF Batch, BatchStatus, NoBatch
  <2>8. /\ eodPrice' \in [EodCodes -> Writers]
        /\ \A c \in EodCodes \ Allowed(m) : eodPrice'[c] = eodPrice[c]
        /\ \A c \in Allowed(m) : c \in b.rows => eodPrice'[c] = "eod"
    BY <2>1, <2>3, <1>1 DEF Writers
  <2>9. \A c \in Allowed(m) :
          /\ said[c] \in PriceStatus
          /\ c \in b.rows => said[c] \in {"fetched", "no_new_data"}
          /\ c \notin b.rows /\ ~eodStep.fallback => said[c] = "failed"
    BY <2>6 DEF PriceStatus
  <2>10. Report(m, batch, said, queued)
    BY <2>1, <2>4, <2>5, <2>6
  <2>11. \A c \in Allowed(m) :
           IF batch.status = "stored" /\ c \in batch.rows
           THEN said[c] \in {"fetched", "no_new_data"} /\ eodPrice'[c] = "eod" /\ c \notin queued
           ELSE /\ eodStep.fallback => c \in queued
                /\ ~eodStep.fallback => said[c] = "failed"
    BY <2>5, <2>7, <2>8, <2>9
  <2>12. queued \in SUBSET Allowed(m) /\ batch.rows \subseteq Allowed(m)
    BY <2>3, <2>5, <2>7
  <2> QED BY <2>2, <2>7, <2>8, <2>9, <2>10, <2>11, <2>12, ReportKeepsEod
<1> QED BY <1>5, <1>6, <1>7, <1>8

\* The fallback source answers what the batches left open, and the step is
\* committed.
LEMMA FinishKeepsEod == EodInv /\ FinishEod => EodInv'
<1> SUFFICES ASSUME EodInv, FinishEod PROVE EodInv'
    OBVIOUS
<1>0. /\ EodShapes /\ \A c \in EodCodes : MarketIsReported(c)
      /\ \A m \in EodMarkets : eodBatch[m] # NoBatch
  BY DEF EodInv, FinishEod
<1>1. PICK said \in [QueuedIfFallback(eodFallback) -> PriceStatus] :
        \E stored \in SUBSET {c \in DOMAIN said : said[c] \notin {"failed", "skipped"}} :
          /\ eodTarget' = [c \in EodCodes |->
               IF c \in DOMAIN said THEN [status |-> said[c], by |-> "fallback"] ELSE eodTarget[c]]
          /\ eodPrice' = [c \in EodCodes |-> IF c \in stored THEN "fallback" ELSE eodPrice[c]]
  BY DEF FinishEod
<1>2. PICK stored \in SUBSET DOMAIN said :
        /\ eodTarget' = [c \in EodCodes |->
             IF c \in DOMAIN said THEN [status |-> said[c], by |-> "fallback"] ELSE eodTarget[c]]
        /\ eodPrice' = [c \in EodCodes |-> IF c \in stored THEN "fallback" ELSE eodPrice[c]]
  BY <1>1
<1>3. /\ eodSaved' = eodPrice' /\ eodStep' = [eodStep EXCEPT !.phase = "done"]
      /\ eodBatch' = eodBatch /\ eodFallback' = eodFallback
  BY DEF FinishEod
<1>4. /\ eodStep \in [phase : {"idle", "markets", "done"}, session : BOOLEAN, fallback : BOOLEAN]
      /\ eodTarget \in [EodCodes -> TargetRow] /\ eodPrice \in [EodCodes -> Writers]
  BY <1>0 DEF EodShapes
<1>5. /\ eodStep' \in [phase : {"idle", "markets", "done"}, session : BOOLEAN, fallback : BOOLEAN]
      /\ eodStep'.phase = "done" /\ eodStep'.fallback = eodStep.fallback
  BY <1>3, <1>4
<1>6. DOMAIN said = IF eodStep.fallback THEN eodFallback ELSE {}
  BY <1>1 DEF QueuedIfFallback
<1>7. ASSUME NEW c \in EodCodes
      PROVE  /\ c \in DOMAIN said => eodTarget'[c] = [status |-> said[c], by |-> "fallback"]
                                       /\ said[c] \in PriceStatus
             /\ c \notin DOMAIN said => eodTarget'[c] = eodTarget[c] /\ eodPrice'[c] = eodPrice[c]
             /\ eodTarget'[c] \in TargetRow /\ eodPrice'[c] \in Writers
  <2>1. c \in DOMAIN said => eodTarget'[c] = [status |-> said[c], by |-> "fallback"]
                               /\ said[c] \in PriceStatus
    BY <1>1, <1>2
  <2>2. c \notin DOMAIN said => eodTarget'[c] = eodTarget[c] /\ eodPrice'[c] = eodPrice[c]
    BY <1>2
  <2>3. eodTarget'[c] \in TargetRow
    BY <2>1, <2>2, <1>4 DEF TargetRow
  <2>4. eodPrice'[c] \in Writers
    BY <1>2, <1>4 DEF Writers
  <2> QED BY <2>1, <2>2, <2>3, <2>4
<1>8. EodShapes'
  <2>1. eodTarget' \in [EodCodes -> TargetRow] /\ eodPrice' \in [EodCodes -> Writers]
    BY <1>2, <1>7
  <2> QED BY <1>0, <1>3, <1>5, <2>1 DEF EodShapes
<1>9. EodOutcomeIsBacked'
  <2>1. ASSUME NEW c \in EodCodes
        PROVE  /\ eodTarget'[c].status # "none"
               /\ eodTarget'[c].by = "fallback" <=> eodStep.fallback /\ ~Backed(c)
               /\ Backed(c) => eodTarget'[c].status \in {"fetched", "no_new_data"} /\ eodSaved'[c] = "eod"
               /\ ~Backed(c) /\ ~eodStep.fallback =>
                    eodTarget'[c].status = IF c \in CanaryCodes THEN "failed" ELSE "skipped"
    <3>0. EodMarketOf[c] \in EodMarkets
      BY DEF EodMarkets
    <3>1. /\ eodTarget[c].status # "none" /\ eodTarget[c].by # "fallback"
          /\ Backed(c) => /\ eodTarget[c].status \in {"fetched", "no_new_data"}
                          /\ eodPrice[c] = "eod" /\ c \notin eodFallback
          /\ ~Backed(c) /\ eodStep.fallback => c \in eodFallback
          /\ ~Backed(c) /\ ~eodStep.fallback =>
               eodTarget[c].status = IF c \in CanaryCodes THEN "failed" ELSE "skipped"
      BY <1>0, <3>0 DEF MarketIsReported
    <3>2. c \in DOMAIN said <=> eodStep.fallback /\ ~Backed(c)
      BY <3>1, <1>6
    <3>3. CASE c \in DOMAIN said
      <4>1. eodTarget'[c].status = said[c] /\ eodTarget'[c].by = "fallback" /\ said[c] # "none"
        <5>1. PICK t : t = eodTarget'[c] /\ t = [status |-> said[c], by |-> "fallback"]
          BY <3>3, <1>7
        <5>2. said[c] \in PriceStatus
          BY <3>3, <1>7
        <5>3. t.status = said[c] /\ t.by = "fallback" /\ said[c] # "none"
          BY <5>1, <5>2 DEF PriceStatus
        <5> QED BY <5>1, <5>3
      <4> QED BY <4>1, <3>2, <3>3
    <3>4. CASE c \notin DOMAIN said
      <4>1. eodTarget'[c] = eodTarget[c] /\ eodSaved'[c] = eodPrice[c]
        BY <3>4, <1>3, <1>7
      <4> QED BY <4>1, <3>1, <3>2, <3>4
    <3> QED BY <3>3, <3>4
  <2>2. \A c : Backed(c)' <=> Backed(c)
    BY <1>3 DEF Backed
  <2> QED BY <2>1, <2>2, <1>3, <1>5 DEF EodOutcomeIsBacked, Backed
<1> QED BY <1>5, <1>8, <1>9 DEF EodInv

\* A step starts afresh, or is rolled back.
LEMMA StartKeepsEod ==
  ASSUME EodInv, NEW session \in BOOLEAN, NEW fallback \in BOOLEAN, StartEod(session, fallback)
  PROVE  EodInv'
<1>0. EodShapes
  BY DEF EodInv
<1>1. NoBatch \in Batch /\ NoTarget \in TargetRow
  BY DEF NoBatch, NoTarget, Batch, BatchStatus, TargetRow
<1>2. /\ eodStep' = [phase |-> "markets", session |-> session, fallback |-> fallback]
      /\ eodBatch' = [m \in EodMarkets |-> NoBatch]
      /\ eodTarget' = [c \in EodCodes |-> NoTarget]
      /\ eodFallback' = {} /\ eodPrice' = eodSaved /\ eodSaved' = eodSaved
  BY DEF StartEod
<1>3. EodShapes'
  <2>1. \A m \in EodMarkets : eodBatch'[m].rows \subseteq Allowed(m)
    BY <1>2 DEF NoBatch
  <2> QED BY <1>0, <1>1, <1>2, <2>1 DEF EodShapes
<1>4. \A c \in EodCodes : MarketIsReported(c)'
  BY <1>2 DEF MarketIsReported, EodMarkets
<1>5. EodOutcomeIsBacked'
  BY <1>2 DEF EodOutcomeIsBacked
<1> QED BY <1>3, <1>4, <1>5 DEF EodInv

LEMMA AbortKeepsEod == EodInv /\ AbortEod => EodInv'
<1> SUFFICES ASSUME EodInv, AbortEod PROVE EodInv'
    OBVIOUS
<1>0. EodShapes
  BY DEF EodInv
<1>1. /\ eodStep' = [eodStep EXCEPT !.phase = "idle"] /\ eodPrice' = eodSaved
      /\ UNCHANGED <<eodBatch, eodTarget, eodFallback, eodSaved>>
  BY DEF AbortEod
<1>2. eodStep' \in [phase : {"idle", "markets", "done"}, session : BOOLEAN, fallback : BOOLEAN]
      /\ eodStep'.phase = "idle"
  BY <1>0, <1>1 DEF EodShapes
<1>3. EodShapes'
  BY <1>0, <1>1, <1>2 DEF EodShapes
<1>4. EodOutcomeIsBacked'
  BY <1>2 DEF EodOutcomeIsBacked
<1> QED BY <1>2, <1>3, <1>4 DEF EodInv

LEMMA EodSteps == EodInv /\ [EodNext]_eodVars => EodInv'
<1> SUFFICES ASSUME EodInv, [EodNext]_eodVars PROVE EodInv'
    OBVIOUS
<1>1. CASE \E session \in EodSessions, fallback \in BOOLEAN : StartEod(session, fallback)
  BY <1>1, StartKeepsEod, EodAssumption
<1>2. CASE UNCHANGED eodVars
  BY <1>2 DEF eodVars, EodInv, EodShapes, MarketIsReported, Backed, EodOutcomeIsBacked
<1> QED BY <1>1, <1>2, MarketKeepsEod, FinishKeepsEod, AbortKeepsEod DEF EodNext

\* sync_eod.py:156: whatever the provider answers for each market and however
\* often the step runs, at its end only the rows of a stored batch stand for
\* themselves, and every other symbol is answered by the fallback source or
\* has failed or was never asked for.
THEOREM EodOutcomeTheorem == EodSpec => [](EodTypeOK /\ EodOutcomeIsBacked)
<1>1. ASSUME EodInv PROVE EodTypeOK
  <2>1. EodShapes
    BY <1>1 DEF EodInv
  <2>2. \A m \in EodMarkets : eodBatch[m].status \in BatchStatus
    BY <2>1 DEF EodShapes, Batch
  <2>3. \A c \in EodCodes : eodTarget[c].status \in PriceStatus \cup {"none"}
    BY <2>1 DEF EodShapes, TargetRow
  <2> QED BY <2>1, <2>2, <2>3 DEF EodShapes, EodTypeOK, BatchStatus, Allowed, Writers
<1>2. EodInv => EodOutcomeIsBacked
  BY DEF EodInv
<1> QED BY <1>1, <1>2, EodStarts, EodSteps, PTL DEF EodSpec

-----------------------------------------------------------------------------
(***************************************************************************)
(* The repair reconciler, from the inductive invariant ReconcilerInv.  A   *)
(* run decides on what it loaded, while the daily batch and other runs go  *)
(* on; the invariant says why that is enough: rows and attempts of a       *)
(* completed request stay as they are, prices are never deleted, the days  *)
(* a run has not read as missing include those that had a price when it    *)
(* began, and what it has written is its own.                              *)
(***************************************************************************)
USE RepairsAssumption

\* The functions from some members of S to T: the dictionaries of a run.
Partial(S, T) == UNION {[D -> T] : D \in SUBSET S}

Applier == [todo : Seq(Repairs), at : Repairs \cup {0}, seen : Partial(Cells, Price),
        wrote : Partial(Cells, Price), verdict : Partial(Repairs, Verdict \ {"not_applied"}),
        before : SUBSET Cells]

Request == [done : BOOLEAN, sound : BOOLEAN, value : Values, verdict : Verdict]

\* The price of a cell as the run a sees it.
SeenBy(a, c) == IF c \in DOMAIN a.wrote THEN a.wrote[c] ELSE daily[c]

\* A run takes each request it has listed once.
WorkIsOnce(a) ==
  /\ \A i, j \in 1..Len(a.todo) : i # j => a.todo[i] # a.todo[j]
  /\ \A i \in 1..Len(a.todo) : a.todo[i] # a.at /\ a.todo[i] \notin DOMAIN a.verdict
  /\ a.at \notin DOMAIN a.verdict

\* A run works on completed requests, whose rows no longer change.
WorkIsCompleted(a) ==
  /\ \A i \in 1..Len(a.todo) : repair[a.todo[i]].done
  /\ a.at # 0 => repair[a.at].done
  /\ \A r \in DOMAIN a.verdict : repair[r].done

\* Prices a run has read or decided on are there, its own or committed.
ReadIsThere(a) ==
  /\ \A c \in DOMAIN a.seen : SeenBy(a, c) # NoPrice
  /\ \A r \in DOMAIN a.verdict :
       /\ a.verdict[r] = "rejected" => ~repair[r].sound
       /\ a.verdict[r] = "applied" => \A c \in CellsOf(r) : SeenBy(a, c) # NoPrice

\* The days that had a price when a run began have one still, and the run sees
\* it whenever it takes a request.
BeforeIsRead(a) ==
  /\ \A c \in a.before : daily[c] # NoPrice
  /\ a.at # 0 => CellsOf(a.at) \cap a.before \subseteq DOMAIN a.seen

\* A run has written only days without a price when it began, each for a sound
\* request which it is going to mark applied.
WritesAreLater(a) ==
  \A c \in DOMAIN a.wrote :
    /\ c \notin a.before /\ a.wrote[c] # NoPrice
    /\ \E r \in DOMAIN a.verdict :
         /\ a.verdict[r] = "applied" /\ c \in CellsOf(r)
         /\ repair[r].sound /\ repair[r].value = a.wrote[c].value

ApplierIsBacked(a) ==
  /\ WorkIsOnce(a) /\ WorkIsCompleted(a) /\ ReadIsThere(a)
  /\ BeforeIsRead(a) /\ WritesAreLater(a)

\* No two runs have written the same price.
WritesAreApart ==
  \A u, v \in Runs : u # v => DOMAIN applier[u].wrote \cap DOMAIN applier[v].wrote = {}

ReconcilerShapes ==
  /\ repair \in [Repairs -> Request] /\ daily \in [Cells -> Price]
  /\ targeted \subseteq Repairs /\ applier \in [Runs -> Applier]
  /\ \A r \in Repairs : repair[r].verdict # "not_applied" => repair[r].done

ReconcilerInv ==
  /\ ReconcilerShapes /\ AppliedIsStored /\ WritesAreApart
  /\ \A u \in Runs : ApplierIsBacked(applier[u])

-----------------------------------------------------------------------------
(* Dictionaries and lists.                                                 *)

\* The empty dictionary and the empty list are the same function.
LEMMA NoEntries ==
  ASSUME NEW S, NEW T
  PROVE  <<>> \in Partial(S, T) /\ DOMAIN <<>> = {} /\ <<>> \in Seq(S)
<1>1. DOMAIN <<>> = {}
  OBVIOUS
<1>2. <<>> = [x \in {} |-> x]
  BY <1>1
<1>3. <<>> \in [{} -> T]
  BY <1>2
<1>4. QED
  BY <1>1, <1>3 DEF Partial

\* A dictionary's entries.
LEMMA Entries ==
  ASSUME NEW S, NEW T
  PROVE  /\ \A f \in Partial(S, T) : DOMAIN f \subseteq S /\ \A x \in DOMAIN f : f[x] \in T
         /\ \A D \in SUBSET S : \A f \in [D -> T] : f \in Partial(S, T)
BY DEF Partial

\* A set of numbers that is not empty has a least one.
LEMMA Smallest ==
  ASSUME NEW S \in SUBSET Nat, S # {}
  PROVE  \E m \in S : \A n \in S : m <= n
<1>1. IsWellFoundedOn(OpToRel(<, Nat), Nat)
  BY NatLessThanWellFounded
<1>2. PICK m \in S : \A n \in S : ~ (<<n, m>> \in OpToRel(<, Nat))
  BY <1>1, WFMin
<1>3. \A n \in S : ~ (n < m)
  BY <1>2 DEF OpToRel
<1>4. QED
  BY <1>3

\* Every place in the order of a finite set is taken by one of its members.
LEMMA PlacesAreTaken ==
  ASSUME NEW S \in SUBSET Nat, IsFiniteSet(S)
  PROVE  \A k \in 0..(Cardinality(S) - 1) :
           \E r \in S : Cardinality({q \in S : q < r}) = k
<1> DEFINE Place(r) == Cardinality({q \in S : q < r})
           Free == {k \in 0..(Cardinality(S) - 1) : ~ \E r \in S : Place(r) = k}
<1>1. Cardinality(S) \in Nat
  BY FS_CardinalityType
<1>2. SUFFICES ASSUME Free # {} PROVE FALSE
  OBVIOUS
<1>3. PICK k \in Free : \A j \in Free : k <= j
  <2>1. Free \in SUBSET Nat
    BY <1>1
  <2> HIDE DEF Free
  <2>2. QED
    BY <1>2, <2>1, Smallest
<1>4. k \in Nat /\ k < Cardinality(S)
  BY <1>1, <1>3
<1>5. \A r \in S : Place(r) # k
  BY <1>3
<1>6. \A r \in S : IsFiniteSet({q \in S : q < r})
  BY FS_Subset
<1>7. CASE k = 0
  <2>1. S # {}
    BY <1>4, FS_EmptySet
  <2>2. PICK m \in S : \A n \in S : m <= n
    BY <2>1, Smallest
  <2>3. {q \in S : q < m} = {}
    <3>1. ASSUME NEW q \in S PROVE ~ (q < m)
      <4>1. m \in Nat /\ q \in Nat /\ m <= q
        BY <2>2
      <4>2. QED
        BY <4>1
    <3>2. QED
      BY <3>1, Zenon
  <2>4. Place(m) = 0
    BY <2>3, FS_EmptySet
  <2>5. QED
    BY <1>5, <1>7, <2>4
<1>8. CASE k # 0
  <2>1. k - 1 \in 0..(Cardinality(S) - 1) /\ k - 1 \notin Free
    BY <1>1, <1>3, <1>4, <1>8
  <2>2. PICK r \in S : Place(r) = k - 1
    BY <2>1
  <2> DEFINE upto == {q \in S : q < r} \cup {r}
             above == S \ upto
  <2>3. IsFiniteSet(upto) /\ Cardinality(upto) = k
    <3>1. r \in Nat /\ r \notin {q \in S : q < r} /\ IsFiniteSet({q \in S : q < r})
      BY <1>6
    <3>2. IsFiniteSet(upto) /\ Cardinality(upto) = Place(r) + 1
      BY <3>1, FS_AddElement
    <3>3. QED
      BY <1>4, <2>2, <3>2
  <2>4. above # {}
    BY <1>4, <2>3
  <2>5. PICK m \in above : \A n \in above : m <= n
    BY <2>4, Smallest
  <2>6. {q \in S : q < m} = upto
    <3>1. m \in Nat /\ r \in Nat /\ m \notin upto /\ m \in S /\ r < m
      BY <2>5
    <3>2. ASSUME NEW q \in S
          PROVE  q < m <=> q \in upto
      <4>1. q \in Nat /\ (q \in above => m <= q)
        BY <2>5
      <4>2. QED
        BY <3>1, <4>1
    <3>3. QED
      BY <3>2
  <2>7. Place(m) = k
    BY <2>3, <2>6
  <2>8. QED
    BY <1>5, <2>7
<1>9. QED
  BY <1>7, <1>8

\* A run lists requests: each member of the list is one of them, and none is
\* listed twice.
LEMMA ListIsOfRequests ==
  ASSUME NEW S \in SUBSET Repairs
  PROVE  /\ InOrder(S) \in Seq(S) /\ InOrder(S) \in Seq(Repairs)
         /\ \A i \in 1..Len(InOrder(S)) : InOrder(S)[i] \in S
         /\ \A i, j \in 1..Len(InOrder(S)) : i # j => InOrder(S)[i] # InOrder(S)[j]
<1>1. S \in SUBSET Nat /\ IsFiniteSet(S) /\ Cardinality(S) \in Nat
  BY FS_Subset, FS_CardinalityType
<1>2. \A i \in 1..Cardinality(S) : \E r \in S : Cardinality({q \in S : q < r}) = i - 1
  <2>1. TAKE i \in 1..Cardinality(S)
  <2>2. i - 1 \in 0..(Cardinality(S) - 1)
    BY <1>1
  <2>3. QED
    BY <1>1, <2>2, PlacesAreTaken
<1>3. PICK s : s = InOrder(S)
  OBVIOUS
<1>4. /\ s \in [1..Cardinality(S) -> S]
      /\ \A i \in 1..Cardinality(S) : Cardinality({q \in S : q < s[i]}) = i - 1
  <2>1. InOrder(S) \in [1..Cardinality(S) -> S]
    BY <1>2 DEF InOrder
  <2>2. \A i \in 1..Cardinality(S) : Cardinality({q \in S : q < InOrder(S)[i]}) = i - 1
    BY <1>2 DEF InOrder
  <2>3. QED
    BY <1>3, <2>1, <2>2
<1>5. s \in Seq(S) /\ s \in Seq(Repairs) /\ Len(s) = Cardinality(S)
  <2>1. s \in [1..Cardinality(S) -> Repairs]
    BY <1>4
  <2>2. QED
    BY <1>1, <1>4, <2>1
<1>6. \A i, j \in 1..Cardinality(S) : i # j => s[i] # s[j]
  <2>1. ASSUME NEW i \in 1..Cardinality(S), NEW j \in 1..Cardinality(S), s[i] = s[j]
        PROVE  i = j
    <3>1. i - 1 = j - 1
      BY <1>4, <2>1
    <3>2. QED
      BY <1>1, <3>1
  <2>2. QED
    BY <2>1
<1>7. QED
  BY <1>3, <1>4, <1>5, <1>6

-----------------------------------------------------------------------------
(* What the steps keep.                                                    *)

\* The prices of a request are cells of the canonical table.
LEMMA CellsOfRequest ==
  ASSUME NEW r \in Repairs
  PROVE  CellsOf(r) \subseteq Cells
<1>1. RepairDays[r] \subseteq PriceDays
  BY DEF PriceDays
<1>2. ASSUME NEW c \in CellsOf(r) PROVE c \in Cells
  <2>1. PICK d \in RepairDays[r] : c = <<RepairCode[r], d>>
    BY DEF CellsOf
  <2>2. d \in PriceDays
    BY <1>1, <2>1
  <2>3. \E q \in Repairs, e \in PriceDays : c = <<RepairCode[q], e>>
    BY <2>1, <2>2, Zenon
  <2>4. QED
    BY ONLY <2>3 DEF Cells
<1>3. QED
  BY <1>2

\* What is backed stays backed while completed requests keep their rows and
\* prices that are there stay there.
LEMMA RunsStayBacked ==
  ASSUME ReconcilerShapes, NEW a \in Applier, ApplierIsBacked(a),
         \A r \in Repairs : repair[r].done =>
           repair'[r].done /\ repair'[r].sound = repair[r].sound /\ repair'[r].value = repair[r].value,
         \A c \in Cells : daily[c] # NoPrice => daily'[c] # NoPrice
  PROVE  ApplierIsBacked(a)'
<1>1. /\ a.todo \in Seq(Repairs) /\ a.at \in Repairs \cup {0}
      /\ DOMAIN a.seen \subseteq Cells /\ DOMAIN a.wrote \subseteq Cells
      /\ DOMAIN a.verdict \subseteq Repairs /\ a.before \subseteq Cells
  BY Entries DEF Applier
<1>2. \A i \in 1..Len(a.todo) : a.todo[i] \in Repairs
  BY <1>1
<1>3. WorkIsOnce(a)' /\ WorkIsCompleted(a)'
  BY <1>1, <1>2 DEF ApplierIsBacked, WorkIsOnce, WorkIsCompleted
<1>4. \A r \in DOMAIN a.verdict : CellsOf(r) \subseteq Cells
  BY <1>1, CellsOfRequest
<1>5. \A c \in Cells : SeenBy(a, c) # NoPrice => SeenBy(a, c)' # NoPrice
  BY DEF SeenBy
<1>6. \A r \in DOMAIN a.verdict : repair[r].done /\ repair'[r].sound = repair[r].sound
                                   /\ repair'[r].value = repair[r].value
  BY <1>1 DEF ApplierIsBacked, WorkIsCompleted
<1>7. ReadIsThere(a)'
  BY <1>1, <1>4, <1>5, <1>6 DEF ApplierIsBacked, ReadIsThere, CellsOf
<1>8. WritesAreLater(a)'
  BY <1>1, <1>6 DEF ApplierIsBacked, WritesAreLater, CellsOf
<1>9. BeforeIsRead(a)'
  BY <1>1 DEF ApplierIsBacked, BeforeIsRead, CellsOf
<1>10. QED
  BY <1>3, <1>7, <1>8, <1>9 DEF ApplierIsBacked

\* A step of a run, which ends with the record x, keeps the invariant if the
\* tables stay and x is backed and keeps off what other runs have written.
LEMMA RunSteps ==
  ASSUME ReconcilerInv, NEW u \in Runs, NEW x \in Applier, ApplierIsBacked(x),
         applier' = [applier EXCEPT ![u] = x], UNCHANGED <<repair, daily, targeted>>,
         \A v \in Runs \ {u} : DOMAIN applier[v].wrote \cap DOMAIN x.wrote = {}
  PROVE  ReconcilerInv'
<1>1. applier \in [Runs -> Applier]
  BY DEF ReconcilerInv, ReconcilerShapes
<1>2. applier'[u] = x /\ \A v \in Runs : v # u => applier'[v] = applier[v]
  BY <1>1
<1>3. applier' \in [Runs -> Applier]
  BY <1>1
<1>4. ReconcilerShapes'
  BY <1>3 DEF ReconcilerInv, ReconcilerShapes
<1>5. AppliedIsStored'
  BY DEF ReconcilerInv, AppliedIsStored, CellsOf
<1>6. WritesAreApart'
  BY <1>2 DEF ReconcilerInv, WritesAreApart
<1>7. ASSUME NEW v \in Runs, NEW a \in Applier, applier'[v] = a
      PROVE  ApplierIsBacked(a)'
  <2>1. ApplierIsBacked(a)
    BY <1>2, <1>7 DEF ReconcilerInv
  <2>2. QED
    BY <2>1 DEF ApplierIsBacked, WorkIsOnce, WorkIsCompleted, ReadIsThere, BeforeIsRead, WritesAreLater,
       SeenBy, CellsOf
<1>8. \A v \in Runs : ApplierIsBacked(applier[v])'
  BY <1>3, <1>7
<1>9. QED
  BY <1>4, <1>5, <1>6, <1>8 DEF ReconcilerInv

\* A run that has done nothing is backed.
LEMMA IdleRun == Idle \in Applier /\ ApplierIsBacked(Idle) /\ DOMAIN Idle.wrote = {}
<1>1. /\ <<>> \in Seq(Repairs) /\ <<>> \in Partial(Cells, Price)
      /\ <<>> \in Partial(Repairs, Verdict \ {"not_applied"}) /\ DOMAIN <<>> = {}
  BY NoEntries
<1>2. Idle \in Applier
  BY <1>1 DEF Idle, Applier
<1>3. /\ Idle.todo = <<>> /\ Idle.at = 0 /\ DOMAIN Idle.seen = {} /\ DOMAIN Idle.wrote = {}
      /\ DOMAIN Idle.verdict = {} /\ Len(Idle.todo) = 0 /\ Idle.before = {}
  BY <1>1 DEF Idle
<1>4. ApplierIsBacked(Idle)
  BY <1>3 DEF ApplierIsBacked, WorkIsOnce, WorkIsCompleted, ReadIsThere, BeforeIsRead, WritesAreLater
<1>5. QED
  BY <1>2, <1>3, <1>4

\* Nothing is completed or stored at the start.
LEMMA ReconcilerStarts == ReconcilerInit => ReconcilerInv
<1> SUFFICES ASSUME ReconcilerInit PROVE ReconcilerInv
  OBVIOUS
<1>1. \A u \in Runs : applier[u] = Idle
  BY DEF ReconcilerInit
<1>2. ReconcilerShapes
  BY IdleRun DEF ReconcilerInit, ReconcilerShapes, Request, Verdict, Values, Price
<1>3. AppliedIsStored
  BY CellsOfRequest DEF ReconcilerInit, AppliedIsStored, NoPrice
<1>4. WritesAreApart
  BY <1>1, IdleRun DEF WritesAreApart
<1>5. QED
  BY <1>1, <1>2, <1>3, <1>4, IdleRun DEF ReconcilerInv

\* The queue completes a request that no run has listed.
LEMMA CompleteKeepsInv ==
  ASSUME ReconcilerInv, NEW r \in Repairs, CompleteRepair(r)
  PROVE  ReconcilerInv'
<1>1. /\ ReconcilerShapes /\ AppliedIsStored /\ ~repair[r].done
      /\ UNCHANGED <<daily, targeted, applier>>
  BY DEF ReconcilerInv, CompleteRepair
<1>2. PICK sound \in BOOLEAN, value \in Values :
        repair' = [repair EXCEPT ![r] = [@ EXCEPT !.done = TRUE, !.sound = sound, !.value = value]]
  BY DEF CompleteRepair
<1>3. repair \in [Repairs -> Request] /\ repair[r] \in Request
  BY <1>1 DEF ReconcilerShapes
<1>4. /\ repair'[r].done /\ repair'[r].verdict = repair[r].verdict /\ repair'[r] \in Request
      /\ \A q \in Repairs : q # r => repair'[q] = repair[q]
  BY <1>2, <1>3 DEF Request
<1>5. repair' \in [Repairs -> Request]
  BY <1>2, <1>3, <1>4
<1>6. ReconcilerShapes'
  BY <1>1, <1>4, <1>5 DEF ReconcilerShapes
<1>7. \A q \in Repairs : repair[q].done => q # r
  BY <1>1
<1>8. AppliedIsStored'
  <2>1. \A q \in Repairs : repair[q].verdict \in {"applied", "conflict"} => q # r
    BY <1>1 DEF ReconcilerShapes
  <2>2. ASSUME NEW c \in Cells, daily'[c].source = "kiwoom"
        PROVE  \E q \in Repairs :
                 /\ c \in CellsOf(q) /\ repair'[q].sound /\ repair'[q].value = daily'[c].value
                 /\ repair'[q].verdict \in {"applied", "conflict"}
    <3>1. PICK q \in Repairs :
            /\ c \in CellsOf(q) /\ repair[q].sound /\ repair[q].value = daily[c].value
            /\ repair[q].verdict \in {"applied", "conflict"}
      BY <1>1, <2>2 DEF AppliedIsStored
    <3>2. repair'[q] = repair[q]
      BY <1>4, <2>1, <3>1
    <3>3. QED
      BY <1>1, <3>1, <3>2
  <2>3. \A q \in Repairs : repair'[q].verdict = repair[q].verdict
    BY <1>4
  <2>4. \A q \in Repairs : repair'[q].verdict = "applied" \/ q \in targeted' =>
          \A c \in CellsOf(q) : daily'[c] # NoPrice
    BY <1>1, <2>3 DEF AppliedIsStored
  <2>5. QED
    BY <2>2, <2>4 DEF AppliedIsStored, CellsOf
<1>9. ASSUME NEW u \in Runs, NEW a \in Applier, applier[u] = a
      PROVE  ApplierIsBacked(a)'
  <2>1. ApplierIsBacked(a)
    BY <1>9 DEF ReconcilerInv
  <2>2. QED
    BY <1>1, <1>4, <1>7, <2>1, RunsStayBacked
<1>10. \A u \in Runs : ApplierIsBacked(applier[u])'
  BY <1>1, <1>9 DEF ReconcilerShapes
<1>11. WritesAreApart'
  BY <1>1 DEF ReconcilerInv, WritesAreApart
<1>12. QED
  BY <1>6, <1>8, <1>10, <1>11 DEF ReconcilerInv

\* The daily batch stores a price that no run has written.
LEMMA UpsertKeepsInv ==
  ASSUME ReconcilerInv, NEW c \in Cells, NEW value \in Values, BatchUpserts(c, value)
  PROVE  ReconcilerInv'
<1>1. /\ ReconcilerShapes /\ AppliedIsStored /\ UNCHANGED <<repair, targeted, applier>>
      /\ \A u \in Runs : c \notin DOMAIN applier[u].wrote
      /\ daily' = [daily EXCEPT ![c] = [value |-> value, source |-> "naver"]]
  BY DEF ReconcilerInv, BatchUpserts
<1>2. [value |-> value, source |-> "naver"] \in Price \ {NoPrice}
  BY DEF Price, NoPrice, Values
<1>3. /\ daily \in [Cells -> Price] /\ daily' \in [Cells -> Price]
      /\ daily'[c] # NoPrice /\ daily'[c].source = "naver"
      /\ \A d \in Cells : d # c => daily'[d] = daily[d]
  BY <1>1, <1>2 DEF ReconcilerShapes
<1>4. ReconcilerShapes'
  BY <1>1, <1>3 DEF ReconcilerShapes
<1>5. AppliedIsStored'
  <2>1. \A d \in Cells : daily'[d].source = "kiwoom" => daily'[d] = daily[d]
    BY <1>3
  <2>2. \A r \in Repairs : CellsOf(r) \subseteq Cells
    BY CellsOfRequest
  <2>3. \A r \in Repairs : repair[r].verdict = "applied" \/ r \in targeted =>
          \A d \in CellsOf(r) : daily'[d] # NoPrice
    BY <1>1, <1>3, <2>2 DEF AppliedIsStored
  <2>4. \A d \in Cells : daily'[d].source = "kiwoom" =>
          \E r \in Repairs :
            /\ d \in CellsOf(r) /\ repair[r].sound /\ repair[r].value = daily'[d].value
            /\ repair[r].verdict \in {"applied", "conflict"}
    BY <1>1, <2>1 DEF AppliedIsStored
  <2>5. QED
    BY <1>1, <2>3, <2>4 DEF AppliedIsStored, CellsOf
<1>6. ASSUME NEW u \in Runs, NEW a \in Applier, applier[u] = a
      PROVE  ApplierIsBacked(a)'
  <2>1. ApplierIsBacked(a)
    BY <1>6 DEF ReconcilerInv
  <2>2. QED
    BY <1>1, <1>3, <2>1, RunsStayBacked
<1>7. \A u \in Runs : ApplierIsBacked(applier[u])'
  BY <1>1, <1>6 DEF ReconcilerShapes
<1>8. WritesAreApart'
  BY <1>1 DEF ReconcilerInv, WritesAreApart
<1>9. QED
  BY <1>4, <1>5, <1>7, <1>8 DEF ReconcilerInv

\* A run lists the completed requests.
LEMMA ListKeepsInv ==
  ASSUME ReconcilerInv, NEW u \in Runs, ListReady(u)
  PROVE  ReconcilerInv'
<1> DEFINE there == {c \in Cells : daily[c] # NoPrice}
           X == [Idle EXCEPT !.todo = InOrder(Listed), !.before = there]
<1>1. /\ applier' = [applier EXCEPT ![u] = X] /\ applier[u] = Idle
      /\ UNCHANGED <<repair, daily, targeted>> /\ applier \in [Runs -> Applier]
  BY DEF ListReady, ReconcilerInv, ReconcilerShapes
<1>2. Listed \in SUBSET Repairs
  BY DEF Listed
<1>3. PICK todo : todo = InOrder(Listed)
  OBVIOUS
<1>4. /\ todo \in Seq(Repairs) /\ \A i \in 1..Len(todo) : todo[i] \in Listed
      /\ \A i, j \in 1..Len(todo) : i # j => todo[i] # todo[j]
  BY <1>2, <1>3, ListIsOfRequests
<1>5. /\ X \in Applier /\ X.todo = todo /\ X.at = Idle.at /\ X.seen = Idle.seen
      /\ X.wrote = Idle.wrote /\ X.verdict = Idle.verdict /\ X.before = there
  BY <1>3, <1>4, IdleRun DEF Applier
<1>6. PICK x \in Applier : x = X
  BY <1>5
<1>7. applier' = [applier EXCEPT ![u] = x]
  BY <1>1, <1>6
<1> HIDE DEF X
<1>8. ApplierIsBacked(x)
  <2>1. ApplierIsBacked(Idle)
    BY IdleRun
  <2>2. WorkIsCompleted(x)
    BY <1>4, <1>5, <1>6, <2>1 DEF ApplierIsBacked, WorkIsCompleted, Listed
  <2>3. WorkIsOnce(x)
    <3>1. x.at = 0 /\ DOMAIN x.verdict = {} /\ 0 \notin Listed
      BY <1>2, <1>5, <1>6, NoEntries DEF Idle
    <3>2. QED
      BY <1>4, <1>5, <1>6, <3>1 DEF WorkIsOnce
  <2>4. ReadIsThere(x)
    BY <1>5, <1>6, <2>1 DEF ApplierIsBacked, ReadIsThere, SeenBy
  <2>5. BeforeIsRead(x) /\ WritesAreLater(x)
    <3>1. x.at = 0 /\ DOMAIN x.wrote = {} /\ x.before = there
      BY <1>5, <1>6, IdleRun DEF Idle
    <3>2. QED
      BY <3>1 DEF BeforeIsRead, WritesAreLater
  <2>6. QED
    BY <2>2, <2>3, <2>4, <2>5 DEF ApplierIsBacked
<1>9. DOMAIN x.wrote = {}
  BY <1>5, <1>6, IdleRun
<1>10. QED
  BY <1>1, <1>7, <1>8, <1>9, RunSteps

\* A run takes the next request and reads the prices of its days.
LEMMA LockKeepsInv ==
  ASSUME ReconcilerInv, NEW u \in Runs, LockRequest(u)
  PROVE  ReconcilerInv'
<1>1. /\ applier \in [Runs -> Applier] /\ applier[u] \in Applier /\ daily \in [Cells -> Price]
      /\ ApplierIsBacked(applier[u]) /\ applier[u].todo # <<>> /\ applier[u].at = 0
      /\ UNCHANGED <<repair, daily, targeted>>
  BY DEF LockRequest, ReconcilerInv, ReconcilerShapes
<1>2. PICK a \in Applier : a = applier[u]
  BY <1>1
<1>3. PICK r \in Repairs : r = Head(a.todo) /\ repair[r].done
  <2>1. a.todo \in Seq(Repairs) /\ a.todo # <<>>
    BY <1>1, <1>2 DEF Applier
  <2>2. Head(a.todo) = a.todo[1] /\ 1 \in 1..Len(a.todo) /\ a.todo[1] \in Repairs
    BY <2>1
  <2>3. repair[a.todo[1]].done
    BY <1>1, <1>2, <2>2 DEF ApplierIsBacked, WorkIsCompleted
  <2>4. QED
    BY <2>2, <2>3
<1> DEFINE there == {c \in CellsOf(r) : SeenBy(a, c) # NoPrice}
           prices == [c \in there |-> SeenBy(a, c)]
           X == [a EXCEPT !.todo = Tail(a.todo), !.at = r, !.seen = prices]
<1>4. DOMAIN a.wrote \subseteq Cells /\ \A c \in DOMAIN a.wrote : a.wrote[c] \in Price
  BY <1>2, Entries DEF Applier
<1>5. prices \in Partial(Cells, Price) /\ DOMAIN prices = there
  <2>1. there \in SUBSET Cells
    BY CellsOfRequest
  <2>2. \A c \in there : SeenBy(a, c) \in Price
    BY <1>1, <1>4, <2>1 DEF SeenBy
  <2>3. prices \in [there -> Price]
    BY <2>2
  <2>4. QED
    BY <2>1, <2>3, Entries
<1>6. PICK todo \in Seq(Repairs) :
        /\ todo = Tail(a.todo)
        /\ \A i \in 1..Len(todo) : i + 1 \in 1..Len(a.todo) /\ todo[i] = a.todo[i + 1]
        /\ 1 \in 1..Len(a.todo) /\ a.todo[1] = r
  <2>1. a.todo \in Seq(Repairs) /\ a.todo # <<>>
    BY <1>1, <1>2 DEF Applier
  <2>2. /\ Tail(a.todo) \in Seq(Repairs) /\ Len(Tail(a.todo)) = Len(a.todo) - 1
        /\ Len(a.todo) \in Nat /\ Len(a.todo) # 0 /\ Head(a.todo) = a.todo[1]
        /\ \A i \in 1..Len(Tail(a.todo)) : Tail(a.todo)[i] = a.todo[i + 1]
    BY <2>1
  <2>3. PICK todo \in Seq(Repairs) : todo = Tail(a.todo)
    BY <2>2
  <2>4. \A i \in 1..Len(todo) : i + 1 \in 1..Len(a.todo) /\ todo[i] = a.todo[i + 1]
    BY <2>2, <2>3
  <2>5. 1 \in 1..Len(a.todo) /\ a.todo[1] = r
    BY <1>3, <2>2
  <2>6. QED
    BY <2>3, <2>4, <2>5, Zenon
<1>7. applier' = [applier EXCEPT ![u] = X]
  <2>1. \A c : Visible(u, c) = SeenBy(a, c)
    BY <1>2 DEF Visible, SeenBy
  <2>2. [c \in {c \in CellsOf(r) : Visible(u, c) # NoPrice} |-> Visible(u, c)] = prices
    BY <2>1
  <2>3. applier' = [applier EXCEPT
          ![u] = [applier[u] EXCEPT !.todo = Tail(@), !.at = r,
                     !.seen = [c \in {c \in CellsOf(r) : Visible(u, c) # NoPrice} |-> Visible(u, c)]]]
    BY <1>2, <1>3 DEF LockRequest
  <2> HIDE DEF prices
  <2>4. QED
    BY <1>1, <1>2, <2>2, <2>3
<1> HIDE DEF prices
<1>8. X \in Applier /\ X.todo = todo /\ X.at = r /\ X.seen = prices /\ X.wrote = a.wrote
      /\ X.verdict = a.verdict /\ X.before = a.before
  BY <1>5, <1>6 DEF Applier
<1>9. PICK x \in Applier : x = X
  BY <1>8
<1>10. applier' = [applier EXCEPT ![u] = x]
  BY <1>7, <1>9
<1> HIDE DEF X
<1>11. ApplierIsBacked(x)
  <2>1. ApplierIsBacked(a)
    BY <1>1, <1>2
  <2>2. /\ x.todo = todo /\ x.at = r /\ x.verdict = a.verdict /\ x.wrote = a.wrote /\ x.seen = prices
        /\ x.before = a.before
    BY <1>8, <1>9
  <2>3. WorkIsCompleted(x)
    <3>1. /\ \A i \in 1..Len(a.todo) : repair[a.todo[i]].done
          /\ \A q \in DOMAIN a.verdict : repair[q].done
      BY <2>1 DEF ApplierIsBacked, WorkIsCompleted
    <3>2. \A i \in 1..Len(todo) : repair[todo[i]].done
      BY <1>6, <3>1
    <3>3. QED
      BY <1>3, <2>2, <3>1, <3>2, Zenon DEF WorkIsCompleted
  <2>4. WorkIsOnce(x)
    <3>1. /\ \A i, j \in 1..Len(todo) : i # j => todo[i] # todo[j]
          /\ \A i \in 1..Len(todo) : todo[i] # r /\ todo[i] \notin DOMAIN a.verdict
          /\ r \notin DOMAIN a.verdict
      <4>1. /\ \A i, j \in 1..Len(a.todo) : i # j => a.todo[i] # a.todo[j]
            /\ \A i \in 1..Len(a.todo) : a.todo[i] \notin DOMAIN a.verdict
        BY <2>1 DEF ApplierIsBacked, WorkIsOnce
      <4>2. \A i \in 1..Len(todo) : i \in Nat /\ i + 1 # 1
        BY <1>6
      <4>3. \A i, j \in 1..Len(todo) : i # j => i + 1 # j + 1
        BY <1>6
      <4>4. QED
        BY <1>6, <4>1, <4>2, <4>3
    <3>2. QED
      BY <2>2, <3>1, Zenon DEF WorkIsOnce
  <2>5. \A c : SeenBy(x, c) = SeenBy(a, c)
    BY <2>2 DEF SeenBy
  <2>6. \A c \in DOMAIN x.seen : SeenBy(x, c) # NoPrice
    BY <1>5, <2>2, <2>5
  <2>7. ReadIsThere(x)
    BY <2>1, <2>2, <2>5, <2>6 DEF ApplierIsBacked, ReadIsThere
  <2>8. WritesAreLater(x)
    BY <2>1, <2>2 DEF ApplierIsBacked, WritesAreLater
  <2>9. BeforeIsRead(x)
    <3>1. \A c \in a.before : daily[c] # NoPrice /\ c \notin DOMAIN a.wrote
      BY <2>1 DEF ApplierIsBacked, BeforeIsRead, WritesAreLater
    <3>2. CellsOf(r) \cap a.before \subseteq there
      BY <3>1 DEF SeenBy
    <3>3. QED
      BY <1>5, <2>2, <3>1, <3>2 DEF BeforeIsRead
  <2>10. QED
    BY <2>3, <2>4, <2>7, <2>8, <2>9 DEF ApplierIsBacked
<1>12. \A v \in Runs \ {u} : DOMAIN applier[v].wrote \cap DOMAIN x.wrote = {}
  BY <1>2, <1>8, <1>9 DEF ReconcilerInv, WritesAreApart
<1>13. QED
  BY <1>1, <1>10, <1>11, <1>12, RunSteps

\* A verdict, with the prices written for it, keeps the invariant if each of
\* them is of a day without a price when the run began, belongs to a sound
\* request to be marked applied, and is written by no other run, and if the
\* verdict is true.
LEMMA DecisionKeepsInv ==
  ASSUME ReconcilerInv, NEW u \in Runs, applier[u].at # 0,
         NEW verdict \in Verdict \ {"not_applied"}, NEW wrote \in Partial(Cells, Price),
         Decided(u, verdict, wrote), UNCHANGED <<repair, daily, targeted>>,
         verdict = "rejected" => ~repair[applier[u].at].sound,
         verdict = "applied" =>
           \A c \in CellsOf(applier[u].at) : c \in DOMAIN wrote \/ Visible(u, c) # NoPrice,
         \A c \in DOMAIN wrote :
           /\ c \notin applier[u].before /\ wrote[c] # NoPrice
           /\ verdict = "applied" /\ c \in CellsOf(applier[u].at)
           /\ repair[applier[u].at].sound /\ repair[applier[u].at].value = wrote[c].value
           /\ \A v \in Runs \ {u} : c \notin DOMAIN applier[v].wrote
  PROVE  ReconcilerInv'
<1>1. /\ applier \in [Runs -> Applier] /\ applier[u] \in Applier
      /\ ApplierIsBacked(applier[u]) /\ daily \in [Cells -> Price]
  BY DEF ReconcilerInv, ReconcilerShapes
<1>2. PICK a \in Applier : a = applier[u]
  BY <1>1
<1>3. PICK r \in Repairs : r = a.at
  BY <1>1, <1>2 DEF Applier
<1> DEFINE writes == [c \in DOMAIN a.wrote \cup DOMAIN wrote |->
                        IF c \in DOMAIN wrote THEN wrote[c] ELSE a.wrote[c]]
           verdicts == [q \in DOMAIN a.verdict \cup {r} |-> IF q = r THEN verdict ELSE a.verdict[q]]
           X == [a EXCEPT !.at = 0, !.seen = <<>>, !.wrote = writes, !.verdict = verdicts]
<1>4. /\ DOMAIN a.wrote \subseteq Cells /\ \A c \in DOMAIN a.wrote : a.wrote[c] \in Price
      /\ DOMAIN wrote \subseteq Cells /\ \A c \in DOMAIN wrote : wrote[c] \in Price
      /\ DOMAIN a.verdict \subseteq Repairs
      /\ \A q \in DOMAIN a.verdict : a.verdict[q] \in Verdict \ {"not_applied"}
  BY <1>2, Entries DEF Applier
<1>5. /\ writes \in Partial(Cells, Price) /\ DOMAIN writes = DOMAIN a.wrote \cup DOMAIN wrote
      /\ \A c \in DOMAIN writes :
           writes[c] = IF c \in DOMAIN wrote THEN wrote[c] ELSE a.wrote[c]
  <2>1. PICK D \in SUBSET Cells : D = DOMAIN a.wrote \cup DOMAIN wrote
    BY <1>4
  <2>2. writes \in [D -> Price]
    BY <1>4, <2>1
  <2>3. writes \in Partial(Cells, Price)
    BY <2>2, Entries
  <2>4. QED
    BY <2>1, <2>3
<1>6. /\ verdicts \in Partial(Repairs, Verdict \ {"not_applied"})
      /\ DOMAIN verdicts = DOMAIN a.verdict \cup {r}
      /\ \A q \in DOMAIN verdicts : verdicts[q] = IF q = r THEN verdict ELSE a.verdict[q]
  <2>1. PICK D \in SUBSET Repairs : D = DOMAIN a.verdict \cup {r}
    BY <1>4
  <2>2. verdicts \in [D -> Verdict \ {"not_applied"}]
    BY <1>4, <2>1
  <2>3. verdicts \in Partial(Repairs, Verdict \ {"not_applied"})
    BY <2>2, Entries
  <2>4. QED
    BY <2>1, <2>3
<1>7. applier' = [applier EXCEPT ![u] = X]
  BY <1>1, <1>2, <1>3 DEF Decided
<1> HIDE DEF writes, verdicts
<1>8. <<>> \in Partial(Cells, Price) /\ DOMAIN <<>> = {}
  BY NoEntries
<1>9. X \in Applier /\ X.at = 0 /\ X.todo = a.todo /\ DOMAIN X.seen = {} /\ X.wrote = writes
      /\ X.verdict = verdicts /\ X.before = a.before
  BY <1>5, <1>6, <1>8 DEF Applier
<1>10. PICK x \in Applier : x = X
  BY <1>9
<1>11. applier' = [applier EXCEPT ![u] = x]
  BY <1>7, <1>10
<1> HIDE DEF X
<1>12. ApplierIsBacked(a) /\ \A c : Visible(u, c) = SeenBy(a, c)
  BY <1>1, <1>2 DEF Visible, SeenBy
<1>13. \A c : SeenBy(x, c) = IF c \in DOMAIN wrote THEN wrote[c] ELSE SeenBy(a, c)
  BY <1>5, <1>9, <1>10 DEF SeenBy
<1>14. \A c : SeenBy(a, c) # NoPrice => SeenBy(x, c) # NoPrice
  BY <1>12, <1>13
<1>15. WorkIsCompleted(x)
  BY <1>3, <1>6, <1>9, <1>10, <1>2, <1>12 DEF ApplierIsBacked, WorkIsCompleted
<1>16. ReadIsThere(x)
  <2>1. ASSUME NEW q \in DOMAIN x.verdict
        PROVE  /\ x.verdict[q] = "rejected" => ~repair[q].sound
               /\ x.verdict[q] = "applied" => \A c \in CellsOf(q) : SeenBy(x, c) # NoPrice
    <3>1. CASE q = r
      BY <1>2, <1>3, <1>6, <1>9, <1>10, <1>12, <1>13, <2>1, <3>1
    <3>2. CASE q # r
      BY <1>6, <1>9, <1>10, <1>12, <1>14, <2>1, <3>2 DEF ApplierIsBacked, ReadIsThere
    <3>3. QED
      BY <3>1, <3>2
  <2>2. QED
    BY <1>9, <1>10, <2>1 DEF ReadIsThere
<1>17. WritesAreLater(x)
  <2>1. ASSUME NEW c \in DOMAIN x.wrote
        PROVE  /\ c \notin x.before /\ x.wrote[c] # NoPrice
               /\ \E q \in DOMAIN x.verdict :
                    /\ x.verdict[q] = "applied" /\ c \in CellsOf(q)
                    /\ repair[q].sound /\ repair[q].value = x.wrote[c].value
    <3>1. CASE c \in DOMAIN wrote
      <4>1. x.wrote[c] = wrote[c] /\ r \in DOMAIN x.verdict /\ x.verdict[r] = verdict
        BY <1>5, <1>6, <1>9, <1>10, <3>1
      <4>2. c \notin x.before
        BY <1>2, <1>9, <1>10, <3>1
      <4>3. QED
        BY <1>2, <1>3, <3>1, <4>1, <4>2
    <3>2. CASE c \notin DOMAIN wrote
      <4>1. c \in DOMAIN a.wrote /\ x.wrote[c] = a.wrote[c]
        BY <1>5, <1>9, <1>10, <2>1, <3>2
      <4>2. PICK q \in DOMAIN a.verdict :
              /\ a.verdict[q] = "applied" /\ c \in CellsOf(q)
              /\ repair[q].sound /\ repair[q].value = a.wrote[c].value
        BY <1>12, <4>1 DEF ApplierIsBacked, WritesAreLater
      <4>3. q # r
        BY <1>3, <1>12, <4>2 DEF ApplierIsBacked, WorkIsOnce
      <4>4. q \in DOMAIN x.verdict /\ x.verdict[q] = "applied"
        BY <1>6, <1>9, <1>10, <4>2, <4>3
      <4>5. x.before = a.before
        BY <1>9, <1>10
      <4>6. QED
        BY <1>12, <4>1, <4>2, <4>4, <4>5 DEF ApplierIsBacked, WritesAreLater
    <3>3. QED
      BY <3>1, <3>2
  <2>2. QED
    BY <2>1 DEF WritesAreLater
<1>18. \A v \in Runs \ {u} : DOMAIN applier[v].wrote \cap DOMAIN x.wrote = {}
  <2>1. \A v \in Runs \ {u} : DOMAIN applier[v].wrote \cap DOMAIN a.wrote = {}
    BY <1>2 DEF ReconcilerInv, WritesAreApart
  <2>2. QED
    BY <1>5, <1>9, <1>10, <2>1
<1>19. WorkIsOnce(x)
  <2>1. a.todo \in Seq(Repairs) /\ \A i \in 1..Len(a.todo) : a.todo[i] \in Repairs /\ a.todo[i] # 0
    BY DEF Applier
  <2>2. /\ x.todo = a.todo /\ x.at = 0 /\ DOMAIN x.verdict = DOMAIN a.verdict \cup {r}
        /\ 0 \notin DOMAIN x.verdict
    BY <1>4, <1>6, <1>9, <1>10
  <2>3. WorkIsOnce(a) /\ r = a.at
    BY <1>3, <1>12 DEF ApplierIsBacked
  <2>4. \A i \in 1..Len(a.todo) : a.todo[i] # 0 /\ a.todo[i] \notin DOMAIN x.verdict
    BY <2>1, <2>2, <2>3 DEF WorkIsOnce
  <2>5. QED
    BY <2>2, <2>3, <2>4, Zenon DEF WorkIsOnce
<1>20. BeforeIsRead(x)
  BY <1>9, <1>10, <1>12 DEF ApplierIsBacked, BeforeIsRead
<1>21. ApplierIsBacked(x)
  BY <1>15, <1>16, <1>17, <1>19, <1>20 DEF ApplierIsBacked
<1>22. QED
  BY <1>11, <1>18, <1>21, RunSteps

\* A run decides on the request it has taken.
LEMMA VerdictsKeepInv ==
  ASSUME ReconcilerInv, NEW u \in Runs,
         RejectRequest(u) \/ MarkConflict(u) \/ ApplyRequest(u)
  PROVE  ReconcilerInv'
<1>1. applier[u] \in Applier /\ ApplierIsBacked(applier[u]) /\ applier[u].at # 0
      /\ UNCHANGED <<repair, daily, targeted>>
  BY DEF ReconcilerInv, ReconcilerShapes, RejectRequest, MarkConflict, ApplyRequest
<1>2. PICK r \in Repairs : r = applier[u].at
  BY <1>1 DEF Applier
<1>3. repair[r] \in Request
  BY <1>2 DEF ReconcilerInv, ReconcilerShapes
<1>4. CASE RejectRequest(u) \/ MarkConflict(u)
  <2>1. <<>> \in Partial(Cells, Price) /\ DOMAIN <<>> = {}
    BY NoEntries
  <2>2. PICK none \in Partial(Cells, Price) : none = <<>> /\ DOMAIN none = {}
    BY <2>1
  <2>3. CASE RejectRequest(u)
    <3>1. Decided(u, "rejected", none) /\ ~repair[applier[u].at].sound
      BY <2>2, <2>3 DEF RejectRequest
    <3>2. "rejected" \in Verdict \ {"not_applied"}
      BY DEF Verdict
    <3>3. QED
      BY <1>1, <2>2, <3>1, <3>2, DecisionKeepsInv
  <2>4. CASE MarkConflict(u)
    <3>1. Decided(u, "conflict", none)
      BY <2>2, <2>4 DEF MarkConflict
    <3>2. "conflict" \in Verdict \ {"not_applied"}
      BY DEF Verdict
    <3>3. QED
      BY <1>1, <2>2, <3>1, <3>2, DecisionKeepsInv
  <2>5. QED
    BY <1>4, <2>3, <2>4
<1>5. CASE ApplyRequest(u)
  <2> DEFINE price == [value |-> repair[r].value, source |-> "kiwoom"]
             Wrote == [c \in Missing(u) |-> price]
  <2>1. /\ repair[r].sound /\ Decided(u, "applied", Wrote)
        /\ \A v \in Runs \ {u} : DOMAIN applier[v].wrote \cap Missing(u) = {}
    BY <1>2, <1>5 DEF ApplyRequest, Blocked
  <2>2. price \in Price /\ price # NoPrice /\ price.value = repair[r].value
    BY <1>3 DEF Price, NoPrice, Request, Values
  <2>3. Missing(u) \in SUBSET Cells /\ Missing(u) = CellsOf(r) \ DOMAIN applier[u].seen
    BY <1>2, CellsOfRequest DEF Missing
  <2>4. Wrote \in [Missing(u) -> Price]
    BY <2>2
  <2>5. Wrote \in Partial(Cells, Price) /\ DOMAIN Wrote = Missing(u)
        /\ \A c \in Missing(u) : Wrote[c] = price
    BY <2>3, <2>4, Entries
  <2> HIDE DEF price, Wrote
  <2>6. \A c \in CellsOf(r) : c \in DOMAIN Wrote \/ Visible(u, c) # NoPrice
    <3>1. \A c \in DOMAIN applier[u].seen : Visible(u, c) # NoPrice
      BY <1>1 DEF ApplierIsBacked, ReadIsThere, SeenBy, Visible
    <3>2. QED
      BY <2>3, <2>5, <3>1
  <2>7. \A c \in DOMAIN Wrote :
          /\ c \notin applier[u].before /\ Wrote[c] # NoPrice
          /\ c \in CellsOf(r) /\ repair[r].value = Wrote[c].value
          /\ \A v \in Runs \ {u} : c \notin DOMAIN applier[v].wrote
    <3>1. CellsOf(r) \cap applier[u].before \subseteq DOMAIN applier[u].seen
      BY <1>1, <1>2 DEF ApplierIsBacked, BeforeIsRead
    <3>2. QED
      BY <2>1, <2>2, <2>3, <2>5, <3>1
  <2>8. PICK wrote \in Partial(Cells, Price) : wrote = Wrote
    BY <2>5
  <2>9. "applied" \in Verdict \ {"not_applied"}
    BY DEF Verdict
  <2>10. QED
    BY <1>1, <1>2, <2>1, <2>6, <2>7, <2>8, <2>9, DecisionKeepsInv
<1>6. QED
  BY <1>4, <1>5

\* A run that rolls back has changed nothing.
LEMMA AbortKeepsInv ==
  ASSUME ReconcilerInv, NEW u \in Runs, AbortRun(u)
  PROVE  ReconcilerInv'
BY IdleRun, RunSteps DEF AbortRun

\* A run commits its prices, the targets' results and the markers.
LEMMA CommitKeepsInv ==
  ASSUME ReconcilerInv, NEW u \in Runs, CommitApplier(u)
  PROVE  ReconcilerInv'
<1>1. /\ ReconcilerShapes /\ AppliedIsStored
      /\ applier \in [Runs -> Applier] /\ applier[u] \in Applier /\ ApplierIsBacked(applier[u])
      /\ repair \in [Repairs -> Request] /\ daily \in [Cells -> Price]
      /\ applier' = [applier EXCEPT ![u] = Idle]
  BY DEF ReconcilerInv, ReconcilerShapes, CommitApplier
<1>2. PICK a \in Applier : a = applier[u]
  BY <1>1
<1>3. /\ ApplierIsBacked(a)
      /\ daily' = [c \in Cells |-> SeenBy(a, c)]
      /\ repair' = [r \in Repairs |->
           IF r \in DOMAIN a.verdict THEN [repair[r] EXCEPT !.verdict = a.verdict[r]] ELSE repair[r]]
      /\ targeted' = targeted \cup {r \in DOMAIN a.verdict : a.verdict[r] = "applied"}
  BY <1>1, <1>2 DEF CommitApplier, Visible, SeenBy
<1>4. /\ DOMAIN a.wrote \subseteq Cells /\ \A c \in DOMAIN a.wrote : a.wrote[c] \in Price
      /\ DOMAIN a.verdict \subseteq Repairs
      /\ \A r \in DOMAIN a.verdict : a.verdict[r] \in Verdict \ {"not_applied"}
  BY <1>2, Entries DEF Applier
<1>5. /\ daily' \in [Cells -> Price]
      /\ \A c \in Cells : daily'[c] = SeenBy(a, c)
      /\ \A c \in Cells : c \notin DOMAIN a.wrote => daily'[c] = daily[c]
      /\ \A c \in DOMAIN a.wrote : daily'[c] = a.wrote[c] /\ daily'[c] # NoPrice
      /\ \A c \in Cells : daily[c] # NoPrice => daily'[c] # NoPrice
  <2>1. \A c \in Cells : SeenBy(a, c) \in Price
    BY <1>1, <1>4 DEF SeenBy
  <2>2. daily' \in [Cells -> Price] /\ \A c \in Cells : daily'[c] = SeenBy(a, c)
    BY <1>3, <2>1
  <2>3. QED
    BY <1>3, <1>4, <2>2 DEF SeenBy, ApplierIsBacked, WritesAreLater
<1>6. /\ repair' \in [Repairs -> Request]
      /\ \A r \in Repairs : /\ repair'[r].done = repair[r].done /\ repair'[r].sound = repair[r].sound
                            /\ repair'[r].value = repair[r].value
                            /\ repair'[r].verdict = IF r \in DOMAIN a.verdict THEN a.verdict[r]
                                                    ELSE repair[r].verdict
  <2>1. ASSUME NEW r \in Repairs
        PROVE  /\ repair'[r] \in Request
               /\ repair'[r].done = repair[r].done /\ repair'[r].sound = repair[r].sound
               /\ repair'[r].value = repair[r].value
               /\ repair'[r].verdict = IF r \in DOMAIN a.verdict THEN a.verdict[r]
                                       ELSE repair[r].verdict
    <3>1. repair[r] \in Request
      BY <1>1
    <3>2. CASE r \in DOMAIN a.verdict
      <4>1. repair'[r] = [repair[r] EXCEPT !.verdict = a.verdict[r]] /\ a.verdict[r] \in Verdict
        BY <1>3, <1>4, <3>2
      <4>2. QED
        BY <3>1, <3>2, <4>1 DEF Request
    <3>3. CASE r \notin DOMAIN a.verdict
      BY <1>3, <3>1, <3>3
    <3>4. QED
      BY <3>2, <3>3
  <2>2. repair' = [r \in Repairs |-> repair'[r]]
    BY <1>3
  <2>3. QED
    BY <2>1, <2>2
<1>7. /\ applier' \in [Runs -> Applier] /\ applier'[u] = Idle
      /\ \A v \in Runs : v # u => applier'[v] = applier[v]
  BY <1>1, IdleRun
<1>8. \A r \in DOMAIN a.verdict :
        /\ repair[r].done /\ (a.verdict[r] = "rejected" => ~repair[r].sound)
        /\ a.verdict[r] = "applied" => \A c \in CellsOf(r) : SeenBy(a, c) # NoPrice
  BY <1>3 DEF ApplierIsBacked, WorkIsCompleted, ReadIsThere
<1>9. ReconcilerShapes'
  <2>1. \A r \in Repairs : repair'[r].verdict # "not_applied" => repair'[r].done
    BY <1>1, <1>6, <1>8 DEF ReconcilerShapes
  <2>2. targeted' \subseteq Repairs
    BY <1>1, <1>3, <1>4 DEF ReconcilerShapes
  <2>3. QED
    BY <1>5, <1>6, <1>7, <2>1, <2>2 DEF ReconcilerShapes
<1>10. AppliedIsStored'
  <2>1. ASSUME NEW c \in Cells, daily'[c].source = "kiwoom"
        PROVE  \E r \in Repairs :
                 /\ c \in CellsOf(r) /\ repair'[r].sound /\ repair'[r].value = daily'[c].value
                 /\ repair'[r].verdict \in {"applied", "conflict"}
    <3>1. CASE c \in DOMAIN a.wrote
      <4>1. PICK r \in DOMAIN a.verdict :
              /\ a.verdict[r] = "applied" /\ c \in CellsOf(r)
              /\ repair[r].sound /\ repair[r].value = a.wrote[c].value
        BY <1>3, <3>1 DEF ApplierIsBacked, WritesAreLater
      <4>2. r \in Repairs /\ daily'[c].value = a.wrote[c].value
        BY <1>4, <1>5, <3>1
      <4>3. repair'[r].sound /\ repair'[r].value = daily'[c].value /\ repair'[r].verdict = "applied"
        BY <1>6, <4>1, <4>2
      <4>4. QED
        BY <4>1, <4>2, <4>3
    <3>2. CASE c \notin DOMAIN a.wrote
      <4>1. PICK r \in Repairs :
              /\ c \in CellsOf(r) /\ repair[r].sound /\ repair[r].value = daily[c].value
              /\ repair[r].verdict \in {"applied", "conflict"}
        BY <1>1, <1>5, <2>1, <3>2 DEF AppliedIsStored
      <4>2. repair'[r].verdict \in {"applied", "conflict"}
        <5>1. CASE r \in DOMAIN a.verdict
          <6>1. a.verdict[r] \in {"applied", "conflict"}
            BY <1>4, <1>8, <4>1, <5>1 DEF Verdict
          <6>2. QED
            BY <1>6, <5>1, <6>1
        <5>2. CASE r \notin DOMAIN a.verdict
          BY <1>6, <4>1, <5>2
        <5>3. QED
          BY <5>1, <5>2
      <4>3. QED
        BY <1>5, <1>6, <3>2, <4>1, <4>2
    <3>3. QED
      BY <3>1, <3>2
  <2>2. ASSUME NEW r \in Repairs, repair'[r].verdict = "applied" \/ r \in targeted', NEW c \in CellsOf(r)
        PROVE  daily'[c] # NoPrice
    <3>1. c \in Cells
      BY CellsOfRequest
    <3>2. CASE r \in DOMAIN a.verdict /\ a.verdict[r] = "applied"
      BY <1>5, <1>8, <3>1, <3>2
    <3>3. CASE repair[r].verdict = "applied" \/ r \in targeted
      BY <1>1, <1>5, <3>1, <3>3 DEF AppliedIsStored
    <3>4. QED
      BY <1>3, <1>6, <2>2, <3>2, <3>3
  <2>3. QED
    BY <2>1, <2>2 DEF AppliedIsStored, CellsOf
<1>11. ASSUME NEW v \in Runs, NEW b \in Applier, applier'[v] = b
       PROVE  ApplierIsBacked(b)'
  <2>1. ApplierIsBacked(b)
    <3>1. CASE v = u
      BY <1>7, <1>11, <3>1, IdleRun
    <3>2. CASE v # u
      BY <1>7, <1>11, <3>2 DEF ReconcilerInv
    <3>3. QED
      BY <3>1, <3>2
  <2>2. QED
    BY <1>1, <1>5, <1>6, <2>1, RunsStayBacked
<1>12. \A v \in Runs : ApplierIsBacked(applier[v])'
  BY <1>7, <1>11
<1>13. WritesAreApart'
  BY <1>7, IdleRun DEF ReconcilerInv, WritesAreApart
<1>14. QED
  BY <1>9, <1>10, <1>12, <1>13 DEF ReconcilerInv

-----------------------------------------------------------------------------
(* What every run of the script keeps.                                     *)

\* The inductive invariant holds of every behaviour.
LEMMA ReconcilerInvariant == ReconcilerSpec => []ReconcilerInv
<1>1. ASSUME ReconcilerInv, [ReconcilerNext]_reconcilerVars
      PROVE  ReconcilerInv'
  <2>1. CASE UNCHANGED reconcilerVars
    <3>1. UNCHANGED <<repair, daily, targeted, applier>>
      BY <2>1 DEF reconcilerVars
    <3>2. \A u \in Runs : ApplierIsBacked(applier[u])'
      BY <1>1, <3>1 DEF ReconcilerInv, ApplierIsBacked, WorkIsOnce, WorkIsCompleted, ReadIsThere,
         BeforeIsRead, WritesAreLater, SeenBy, CellsOf
    <3>3. QED
      BY <1>1, <3>1, <3>2
         DEF ReconcilerInv, ReconcilerShapes, AppliedIsStored, WritesAreApart, CellsOf
  <2>2. ASSUME NEW u \in Runs, ApplierStep(u)
        PROVE  ReconcilerInv'
    BY <1>1, <2>2, ListKeepsInv, LockKeepsInv, VerdictsKeepInv, CommitKeepsInv, AbortKeepsInv
       DEF ApplierStep
  <2>3. QED
    BY <1>1, <2>1, <2>2, CompleteKeepsInv, UpsertKeepsInv DEF ReconcilerNext
<1>2. QED
  BY <1>1, ReconcilerStarts, PTL DEF ReconcilerSpec

\* A Kiwoom price in the canonical table comes from a sound request found free
\* of conflicts, and an applied request has all its days stored.
THEOREM AppliedTheorem == ReconcilerSpec => [](ReconcilerTypeOK /\ AppliedIsStored)
<1>1. ReconcilerInv => ReconcilerTypeOK /\ AppliedIsStored
  <2> SUFFICES ASSUME ReconcilerInv PROVE ReconcilerTypeOK
    BY DEF ReconcilerInv
  <2>1. ASSUME NEW u \in Runs, NEW a \in Applier, applier[u] = a
        PROVE  /\ a.at \in Repairs \cup {0} /\ DOMAIN a.wrote \subseteq Cells
               /\ a.before \subseteq Cells
               /\ \A r \in DOMAIN a.verdict : a.verdict[r] \in Verdict \ {"not_applied"}
    BY Entries DEF Applier
  <2>2. QED
    BY <2>1 DEF ReconcilerInv, ReconcilerShapes, ReconcilerTypeOK, Request
<1>2. QED
  BY <1>1, ReconcilerInvariant, PTL

\* A run that ends has left every price that was there when it began.
THEOREM PricesStayTheorem == ReconcilerSpec => EarlierPricesStay
<1>1. ASSUME ReconcilerInv, ReconcilerNext, NEW u \in Runs, NEW c \in applier[u].before,
             applier'[u] = Idle
      PROVE  daily'[c] = daily[c]
  <2>1. /\ applier \in [Runs -> Applier] /\ daily \in [Cells -> Price] /\ applier[u] # Idle
        /\ c \in Cells /\ c \notin DOMAIN applier[u].wrote
    <3>1. applier \in [Runs -> Applier] /\ daily \in [Cells -> Price] /\ ApplierIsBacked(applier[u])
      BY <1>1 DEF ReconcilerInv, ReconcilerShapes
    <3>2. applier[u].before \subseteq Cells
      BY <3>1 DEF Applier
    <3>3. applier[u] # Idle
      BY <1>1 DEF Idle
    <3>4. c \notin DOMAIN applier[u].wrote
      BY <1>1, <3>1 DEF ApplierIsBacked, WritesAreLater
    <3>5. QED
      BY <1>1, <3>1, <3>2, <3>3, <3>4
  <2>2. CASE \E v \in Runs : CommitApplier(v)
    <3>1. PICK v \in Runs : CommitApplier(v)
      BY <2>2
    <3>2. v = u
      BY <1>1, <2>1, <3>1 DEF CommitApplier
    <3>3. QED
      BY <2>1, <3>1, <3>2 DEF CommitApplier, Visible
  <2>3. CASE \E d \in Cells, value \in Values : BatchUpserts(d, value)
    BY <1>1, <2>1, <2>3 DEF BatchUpserts
  <2>4. QED
    BY <1>1, <2>2, <2>3 DEF ReconcilerNext, CompleteRepair, ApplierStep, ListReady, LockRequest,
       RejectRequest, MarkConflict, ApplyRequest, AbortRun
<1>2. ReconcilerInv /\ [ReconcilerNext]_reconcilerVars =>
        [\A u \in Runs : \A c \in applier[u].before :
           applier'[u] = Idle => daily'[c] = daily[c]]_reconcilerVars
  BY <1>1
<1>3. QED
  BY <1>2, ReconcilerInvariant, PTL DEF ReconcilerSpec, EarlierPricesStay
=============================================================================
