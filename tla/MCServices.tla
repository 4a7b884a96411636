----------------------------- MODULE MCServices ------------------------------
(***************************************************************************)
(* The services around the daily batch, for TLC.  They share the tables of *)
(* the database and no step of their own: what one reads of another is the *)
(* nondeterminism of its module.  So one instance checks them side by      *)
(* side: a behaviour picks a service, runs it and leaves the others as     *)
(* they began, and every invariant is checked in every state.              *)
(***************************************************************************)
EXTENDS RepairReconciler, UniverseCanary, UniverseAudit, EodSync, FileBridge,
        KiwoomRest, AnalysisWorkflow, BacktestPages, CleanDataset, MCApiRuntime,
        RsInput, NaverUniverse, InstrumentIdentity, HistoricalBackfill

VARIABLE service   \* the service this behaviour runs

Services ==
  {"reconciler", "canary", "audit", "eod", "bridge", "kiwoom", "analysis", "pages",
   "dataset", "api", "rs", "naver", "identity", "backfill"}

-----------------------------------------------------------------------------
(* The instances.                                                          *)

\* A request for two days of a symbol (two requests: MCRepairs).
RequestedCodes == <<"A">>
TwoDays == <<{1, 2}>>

MarketOf == [c \in {"a", "b", "c"} |-> IF c = "c" THEN "KOSDAQ" ELSE "KOSPI"]

KrxSingle == {{"s"}}
NaverSingle == {{"s", "t", "e"}}

\* One instrument, two days: the first observed, the second missing.
OneObserved ==
  [k \in {"i"} \X (1..2) |->
     [observed |-> IF k[2] = 1 THEN {<<"symbol", 1>>} ELSE {}, stored |-> "none",
      fixed |-> <<>>, excluded |-> FALSE, action |-> FALSE]]
ListedEarly == [i \in {"i"} |-> <<[record |-> "listed", type |-> "listed", from |-> 0, to |-> 3]>>]
Imports ==
  {<<"i", [record |-> "listed", type |-> "listed", from |-> 2, to |-> 3]>>,
   <<"i", [record |-> "halt", type |-> "trading_halted", from |-> 2, to |-> 3]>>,
   <<"i", [record |-> "end", type |-> "delisted", from |-> 2, to |-> 3]>>}
LateObservations ==
  {<<<<"i", 2>>, "symbol", 1>>, <<<<"i", 2>>, "symbol", 2>>, <<<<"i", 1>>, "other", 1>>}
LateCorrections == {<<<<"i", 2>>, 1>>, <<<<"i", 1>>, 0>>}

\* A growing history, a split, a halt with a jump, a short history.
ThreeStocks == <<"a", "b", "c">>
Closes(closes) == [d \in DOMAIN closes |-> [close |-> closes[d], volume |-> 1]]
Histories ==
  {Closes(<<100, 100, 100, 100, 110>>), Closes(<<100, 100, 100, 50, 50>>), Closes(<<100, 100>>),
   [d \in 1..5 |-> [close |-> IF d = 1 THEN 100 ELSE 20, volume |-> IF d \in {2, 3} THEN 0 ELSE 1]]}
Fixes == {[stock |-> "a", day |-> 4, close |-> 0], [stock |-> "b", day |-> 3, close |-> 50]}

\* Two days of one instrument, one of another; the last day is not yet, or no
\* longer, one on which the first was listed.
StockOfKey == <<"a", "b", "a">>
ListedKeys == {{1, 2}}

FundAnswers == {{}, {100}, {2}}

Lifecycle(first, ends) == [from |-> first, ends |-> ends]
Files ==
  {{Lifecycle(1, {2}), Lifecycle(3, {})}, {Lifecycle(1, {})},
   {Lifecycle(1, {2, 3}), Lifecycle(3, {})}}

\* Two commands on a run of one target, both of whose days the source holds.
OneTarget == <<{1, 2}>>

-----------------------------------------------------------------------------
ServicesInit ==
  /\ service \in Services
  /\ ReconcilerInit /\ CanaryInit /\ AuditInit /\ EodInit /\ BridgeInit /\ KiwoomInit
  /\ AnalysisInit /\ PagesInit /\ CleanInit /\ ApiInit /\ RsInit /\ NaverInit
  /\ IdentityInit /\ Init
  /\ service # "rs" => rsPrices = [s \in StockSet |-> Closes(<<100, 100, 100, 100, 110>>)]
  /\ held = [t \in Targets |-> Expected[t]]

\* What a service that does not run keeps.
OthersKeep(running) ==
  /\ UNCHANGED service
  /\ running # "reconciler" => UNCHANGED reconcilerVars
  /\ running # "canary" => UNCHANGED canaryVars
  /\ running # "audit" => UNCHANGED auditVars
  /\ running # "eod" => UNCHANGED eodVars
  /\ running # "bridge" => UNCHANGED bridgeVars
  /\ running # "kiwoom" => UNCHANGED kiwoomVars
  /\ running # "analysis" => UNCHANGED analysisVars
  /\ running # "pages" => UNCHANGED pagesVars
  /\ running # "dataset" => UNCHANGED cleanVars
  /\ running # "api" => UNCHANGED apiVars
  /\ running # "rs" => UNCHANGED rsVars
  /\ running # "naver" => UNCHANGED naverVars
  /\ running # "identity" => UNCHANGED identityVars
  /\ running # "backfill" => UNCHANGED vars

ServicesNext ==
  \/ service = "reconciler" /\ ReconcilerNext /\ OthersKeep("reconciler")
  \/ service = "canary" /\ CanaryNext /\ OthersKeep("canary")
  \/ service = "audit" /\ AuditNext /\ OthersKeep("audit")
  \/ service = "eod" /\ EodNext /\ OthersKeep("eod")
  \/ service = "bridge" /\ BridgeNext /\ OthersKeep("bridge")
  \/ service = "kiwoom" /\ KiwoomNext /\ OthersKeep("kiwoom")
  \/ service = "analysis" /\ AnalysisNext /\ OthersKeep("analysis")
  \/ service = "pages" /\ PagesNext /\ OthersKeep("pages")
  \/ service = "dataset" /\ CleanNext /\ OthersKeep("dataset")
  \/ service = "api" /\ ApiNext /\ OthersKeep("api")
  \/ service = "rs" /\ RsNext /\ OthersKeep("rs")
  \/ service = "naver" /\ NaverNext /\ OthersKeep("naver")
  \/ service = "identity" /\ IdentityNext /\ OthersKeep("identity")
  \/ service = "backfill" /\ Next /\ OthersKeep("backfill")

servicesVars ==
  <<service, reconcilerVars, canaryVars, auditVars, eodVars, bridgeVars, kiwoomVars, analysisVars,
    pagesVars, cleanVars, apiVars, rsVars, naverVars, identityVars, vars>>

ServicesSpec == ServicesInit /\ [][ServicesNext]_servicesVars

-----------------------------------------------------------------------------
\* Every service keeps its types: each variable stays within the states the
\* tables, the enumerations and the locals of the code can hold.
ServicesTypeOK ==
  /\ service = "reconciler" => ReconcilerTypeOK
  /\ service = "canary" => CanaryTypeOK
  /\ service = "audit" => AuditTypeOK
  /\ service = "eod" => EodTypeOK
  /\ service = "bridge" => BridgeTypeOK
  /\ service = "kiwoom" => KiwoomTypeOK
  /\ service = "analysis" => AnalysisTypeOK
  /\ service = "pages" => PagesTypeOK
  /\ service = "dataset" => CleanTypeOK
  /\ service = "api" => ApiTypeOK
  /\ service = "rs" => RsTypeOK
  /\ service = "naver" => NaverTypeOK
  /\ service = "identity" => IdentityTypeOK
  /\ service = "backfill" => TypeOK

=============================================================================
