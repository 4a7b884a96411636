----------------------------- MODULE ServicesProofs -----------------------------
(***************************************************************************)
(* The services around the batch side by side, for every value of the      *)
(* constants of each: a behaviour of the composition is, for every service,*)
(* a behaviour of that service's own specification, the service that runs  *)
(* taking its own steps and the others none.  So nothing that is proved of *)
(* a service is lost, or gained, by checking them together.                *)
(***************************************************************************)
EXTENDS MCServices, SourceProofs, UniverseProofs, ApiProofs, DatasetProofs,
        HistoricalBackfillProofs

\* Every service begins as it would alone.
LEMMA ServicesBegin ==
  ServicesInit =>
    /\ ReconcilerInit /\ CanaryInit /\ AuditInit /\ EodInit /\ BridgeInit /\ KiwoomInit
    /\ AnalysisInit /\ PagesInit /\ CleanInit /\ ApiInit /\ RsInit /\ NaverInit
    /\ IdentityInit /\ Init
BY DEF ServicesInit

\* A step is one of the service that runs, and none of every other.
LEMMA ServicesStep ==
  [ServicesNext]_servicesVars =>
    /\ [ReconcilerNext]_reconcilerVars /\ [CanaryNext]_canaryVars /\ [AuditNext]_auditVars
    /\ [EodNext]_eodVars /\ [BridgeNext]_bridgeVars /\ [KiwoomNext]_kiwoomVars
    /\ [AnalysisNext]_analysisVars /\ [PagesNext]_pagesVars /\ [CleanNext]_cleanVars
    /\ [ApiNext]_apiVars /\ [RsNext]_rsVars /\ [NaverNext]_naverVars
    /\ [IdentityNext]_identityVars /\ [Next]_vars
BY DEF ServicesNext, OthersKeep, servicesVars

\* The composition implements the specification of every service.
THEOREM ServicesComposition ==
  ServicesSpec =>
    /\ ReconcilerSpec /\ CanarySpec /\ AuditSpec /\ EodSpec /\ BridgeSpec /\ KiwoomSpec
    /\ AnalysisSpec /\ PagesSpec /\ CleanSpec /\ ApiSpec /\ RsSpec /\ NaverSpec
    /\ IdentitySpec /\ Spec
BY ServicesBegin, ServicesStep, PTL
   DEF ServicesSpec, ReconcilerSpec, CanarySpec, AuditSpec, EodSpec, BridgeSpec, KiwoomSpec,
       AnalysisSpec, PagesSpec, CleanSpec, ApiSpec, RsSpec, NaverSpec, IdentitySpec, Spec

\* Every service keeps its types in the composition.
THEOREM ServicesTypeTheorem == ServicesSpec => []ServicesTypeOK
<1>1. /\ ReconcilerTypeOK /\ CanaryTypeOK /\ AuditTypeOK /\ EodTypeOK /\ BridgeTypeOK /\ KiwoomTypeOK
      /\ AnalysisTypeOK /\ PagesTypeOK /\ CleanTypeOK /\ ApiTypeOK /\ RsTypeOK /\ NaverTypeOK
      /\ IdentityTypeOK /\ TypeOK
      => ServicesTypeOK
  BY DEF ServicesTypeOK
<1>2. QED
  BY <1>1, ServicesComposition, AppliedTheorem, CanaryTheorem, RemovalsTheorem, EodOutcomeTheorem,
     BridgeRowsTheorem, KiwoomCallsTheorem, ClosedTheorem, PagesTheorem, SnapshotTheorem,
     BoundedTheorem, RanksTheorem, UniverseTheorem, IdentitiesTheorem, BackfillTypeTheorem, PTL
=============================================================================
