------------------------------- MODULE FileBridge -------------------------------
(***************************************************************************)
(* The Kiwoom file bridge.  A process that needs a symbol's chart writes a *)
(* request file and polls for the result file of the same id until its     *)
(* deadline; an agent on another host takes requests in any order and      *)
(* writes results, at any time, also after the caller has given up, after  *)
(* a restart twice, and with content that does not answer the request.     *)
(* Nothing deletes a result.                                               *)
(***************************************************************************)
EXTENDS Integers, FiniteSets

CONSTANTS
  BridgeCallers,   \* processes that share the directory
  BridgeCodes,     \* symbols asked for
  MaxRequests,     \* bound on requests written
  BridgeTimeout    \* kiwoom_bridge_timeout in poll intervals

ASSUME BridgeAssumption == MaxRequests \in Nat /\ BridgeTimeout \in Nat

RequestIds == 1..MaxRequests

VARIABLES
  asked,      \* requests/<id>.request.json: code, since_date; processing/ too
  results,    \* results/<id>.result.json
  payload,    \* payload/: whose rows the data file of an id holds
  caller,     \* fetch_daily_chart of each process
  delivered   \* history: per request, how often and whose rows were returned

bridgeVars == <<asked, results, payload, caller, delivered>>

\* "succeeded" stands for any status that is not one of the four errors.
ErrorStatus == {"failed", "rejected", "expired", "skipped"}
NotWaiting == [id |-> 0, code |-> "none", left |-> 0]

BridgeTypeOK ==
  /\ DOMAIN asked \subseteq RequestIds
  /\ DOMAIN results \subseteq DOMAIN asked
  /\ \A p \in BridgeCallers :
       /\ caller[p].id \in DOMAIN asked \cup {0}
       /\ caller[p].left \in 0..BridgeTimeout
  /\ \A i \in DOMAIN delivered : delivered[i].from \in DOMAIN results

BridgeInit ==
  /\ asked = <<>>
  /\ results = <<>>
  /\ payload = <<>>
  /\ caller = [p \in BridgeCallers |-> NotWaiting]
  /\ delivered = <<>>

\* A function of requests with one more value, or one replaced.
With(f, id, value) == [i \in DOMAIN f \cup {id} |-> IF i = id THEN value ELSE f[i]]

MutFreshId(code) ==   \* a request for a symbol asked before takes its old id
  LET same == {i \in DOMAIN asked : asked[i] = code} IN
  IF same = {} THEN Cardinality(DOMAIN asked) + 1 ELSE CHOOSE i \in same : TRUE

\* Time and uuid4: never used before.
FreshId(code) == Cardinality(DOMAIN asked) + 1

\* mkstemp, fsync, replace: the agent sees the whole request or none.
SubmitRequest(p, code) ==
  /\ caller[p] = NotWaiting
  /\ FreshId(code) \in RequestIds
  /\ asked' = With(asked, FreshId(code), code)
  /\ caller' = [caller EXCEPT ![p] = [id |-> FreshId(code), code |-> code, left |-> BridgeTimeout]]
  /\ UNCHANGED <<results, payload, delivered>>

\* What a result file may say: its own symbol's item, with or without the
\* checksum of the data file, one of another symbol, one of another
\* adjusted-price policy than asked for, or an error.
BridgeAnswers ==
  {[own |-> TRUE, status |-> "succeeded", adjusted |-> TRUE, sum |-> TRUE],
   [own |-> TRUE, status |-> "succeeded", adjusted |-> TRUE, sum |-> FALSE],
   [own |-> FALSE, status |-> "succeeded", adjusted |-> TRUE, sum |-> TRUE],
   [own |-> TRUE, status |-> "succeeded", adjusted |-> FALSE, sum |-> FALSE],
   [own |-> TRUE, status |-> "failed", adjusted |-> TRUE, sum |-> FALSE]}

\* The agent, which the code sees only through its files: it answers request
\* `id`, perhaps again, with an item and a data file.
AgentAnswers(id, said) ==
  /\ id \in DOMAIN asked
  /\ \E code \in BridgeCodes :
       /\ said.own <=> code = asked[id]
       /\ results' = With(results, id,
            [id |-> id, code |-> code, status |-> said.status, adjusted |-> said.adjusted,
             sum |-> said.sum])
  /\ payload' = With(payload, id, id)
  /\ UNCHANGED <<asked, caller, delivered>>

\* A data file is replaced by another request's while its result stays.
AgentRewritesPayload(id, other) ==
  /\ {id, other} \subseteq DOMAIN results
  /\ payload' = With(payload, id, other)
  /\ UNCHANGED <<asked, results, caller, delivered>>

\* _parse_result raises, or returns the rows of the data file.
Answers(result, id, code) ==
  /\ result.id = id /\ result.code = code
  /\ result.status \notin ErrorStatus
  /\ result.adjusted
  /\ result.sum => payload[id] = id

CollectResult(p) ==
  LET id == caller[p].id code == caller[p].code IN
  /\ id # 0 /\ id \in DOMAIN results
  /\ delivered' = IF Answers(results[id], id, code)
       THEN With(delivered, id,
              [times |-> 1 + IF id \in DOMAIN delivered THEN delivered[id].times ELSE 0,
               code |-> results[id].code, from |-> payload[id], summed |-> results[id].sum])
       ELSE delivered
  /\ caller' = [caller EXCEPT ![p] = NotWaiting]
  /\ UNCHANGED <<asked, results, payload>>

\* PriceFetchError: polled once more at the deadline, and there is no result.
GiveUp(p) ==
  /\ caller[p].id # 0 /\ caller[p].id \notin DOMAIN results /\ caller[p].left = 0
  /\ caller' = [caller EXCEPT ![p] = NotWaiting]
  /\ UNCHANGED <<asked, results, payload, delivered>>

PollInterval ==
  /\ \E p \in BridgeCallers : caller[p].left > 0
  /\ caller' = [p \in BridgeCallers |->
       [caller[p] EXCEPT !.left = IF @ > 0 THEN @ - 1 ELSE 0]]
  /\ UNCHANGED <<asked, results, payload, delivered>>

BridgeNext ==
  \/ \E p \in BridgeCallers :
       \/ \E code \in BridgeCodes : SubmitRequest(p, code)
       \/ CollectResult(p) \/ GiveUp(p)
  \/ \E id \in DOMAIN asked, said \in BridgeAnswers : AgentAnswers(id, said)
  \/ \E id, other \in DOMAIN results : AgentRewritesPayload(id, other)
  \/ PollInterval

BridgeSpec == BridgeInit /\ [][BridgeNext]_bridgeVars

-----------------------------------------------------------------------------
\* kiwoom_file_bridge.py:239: an answer that comes after its call gave up, or
\* comes twice, reaches no other call: no two calls wait for one file, a
\* request's rows are returned once, they are of the symbol it was written for,
\* and where the result gives a checksum, from the file it was given for.
BridgeRowsAreOwn ==
  /\ \A p, q \in BridgeCallers : caller[p].id = caller[q].id /\ caller[p].id # 0 => p = q
  /\ \A p \in BridgeCallers : caller[p].id # 0 => caller[p].id \notin DOMAIN delivered
  /\ \A i \in DOMAIN delivered :
       /\ delivered[i].times = 1
       /\ delivered[i].code = asked[i]
       /\ delivered[i].summed => delivered[i].from = i

=============================================================================
