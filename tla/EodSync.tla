-------------------------------- MODULE EodSync --------------------------------
(***************************************************************************)
(* The price step with a bulk end-of-day source.  Each market's batch is   *)
(* fetched and validated as a whole and stored or dropped as a whole; a    *)
(* canary policy may keep symbols out of it; what the batch leaves open is *)
(* fetched symbol by symbol from the fallback source, if there is one.     *)
(* The step is one transaction, and a day's step may run again.            *)
(*                                                                         *)
(* `session` says whether the context has a database session; the unit     *)
(* tests' in-memory context has none.                                      *)
(***************************************************************************)
EXTENDS Integers, FiniteSets

CONSTANTS
  EodCodes,      \* price targets
  EodMarketOf,   \* EodMarketOf[c]: the market of a symbol
  CanaryCodes,   \* codes EodCanaryPolicy.allows
  EodSessions    \* values of "context.session is not None"

ASSUME EodAssumption == CanaryCodes \subseteq EodCodes /\ EodSessions \subseteq BOOLEAN

EodMarkets == {EodMarketOf[c] : c \in EodCodes}
CodesOf(m) == {c \in EodCodes : EodMarketOf[c] = m}

VARIABLES
  eodStep,      \* the step: phase, session, whether a fallback source is given
  eodBatch,     \* what became of each market's batch, and the codes in it
  eodTarget,    \* PriceSyncResult.target_results: status and who reported it
  eodFallback,  \* fallback_codes
  eodPrice,     \* who wrote the day's price of a symbol last
  eodSaved      \* eodPrice as it was committed

eodVars == <<eodStep, eodBatch, eodTarget, eodFallback, eodPrice, eodSaved>>

NoBatch == [status |-> "none", rows |-> {}]
NoTarget == [status |-> "none", by |-> "none"]
PriceStatus == {"fetched", "no_new_data", "partial", "failed", "skipped"}

EodTypeOK ==
  /\ eodStep.phase \in {"idle", "markets", "done"}
  /\ \A m \in EodMarkets :
       /\ eodBatch[m].status \in {"none", "excluded", "invalid", "unstored", "stored"}
       /\ eodBatch[m].rows \subseteq CodesOf(m) \cap CanaryCodes
  /\ \A c \in EodCodes : eodTarget[c].status \in PriceStatus \cup {"none"}
  /\ eodFallback \subseteq EodCodes
  /\ {eodPrice, eodSaved} \subseteq [EodCodes -> {"none", "eod", "fallback"}]

EodInit ==
  /\ eodStep = [phase |-> "idle", session |-> FALSE, fallback |-> FALSE]
  /\ eodBatch = [m \in EodMarkets |-> NoBatch]
  /\ eodTarget = [c \in EodCodes |-> NoTarget]
  /\ eodFallback = {}
  /\ eodPrice = [c \in EodCodes |-> "none"]
  /\ eodSaved = eodPrice

StartEod(session, fallback) ==
  /\ eodStep.phase # "markets"
  /\ eodStep' = [phase |-> "markets", session |-> session, fallback |-> fallback]
  /\ eodBatch' = [m \in EodMarkets |-> NoBatch]
  /\ eodTarget' = [c \in EodCodes |-> NoTarget]
  /\ eodFallback' = {}
  /\ eodPrice' = eodSaved
  /\ UNCHANGED eodSaved

Pending(m) == eodStep.phase = "markets" /\ eodBatch[m] = NoBatch
Allowed(m) == CodesOf(m) \cap CanaryCodes
Excluded(m) == CodesOf(m) \ CanaryCodes

\* The market's results; every excluded symbol is skipped and queued.
Report(m, batch, status, queued) ==
  /\ eodBatch' = [eodBatch EXCEPT ![m] = batch]
  /\ eodTarget' = [c \in EodCodes |->
       IF c \in Excluded(m) THEN [status |-> "skipped", by |-> "canary"]
       ELSE IF c \in Allowed(m) THEN [status |-> status[c], by |-> "eod"] ELSE eodTarget[c]]
  /\ eodFallback' = eodFallback \cup Excluded(m) \cup queued
  /\ UNCHANGED <<eodStep, eodSaved>>

AllFailed(m) == [c \in Allowed(m) |-> "failed"]
QueuedIfFallback(codes) == IF eodStep.fallback THEN codes ELSE {}

ExcludeMarket(m) ==
  /\ Pending(m) /\ Allowed(m) = {}
  /\ Report(m, [NoBatch EXCEPT !.status = "excluded"], AllFailed(m), {})
  /\ UNCHANGED eodPrice

\* What a provider may answer for a market: for which market, for the day asked
\* or another, marked complete or not, and sound (checksum, row count, rows) or not.
EodAnswers ==
  [market : EodMarkets \cup {"ALL"}, today : BOOLEAN, complete : BOOLEAN, sound : BOOLEAN,
   rows : SUBSET EodCodes]

\* validate_eod_batch
ValidBatch(m, b) ==
  /\ b.market \in {m, "ALL"} /\ b.today /\ b.complete /\ b.sound
  /\ b.rows # {} /\ b.rows \subseteq Allowed(m)

MayFetch(m) == Pending(m) /\ Allowed(m) # {}

MutRejectBatch(m) ==   \* the failed symbols of the market are not queued
  /\ MayFetch(m)
  /\ \E b \in EodAnswers : ~ValidBatch(m, b)
  /\ Report(m, [NoBatch EXCEPT !.status = "invalid"], AllFailed(m), {})
  /\ UNCHANGED eodPrice

\* The fetch raised, or validating what it answered did.
RejectBatch(m) ==
  /\ MayFetch(m)
  /\ \E b \in EodAnswers : ~ValidBatch(m, b)
  /\ Report(m, [NoBatch EXCEPT !.status = "invalid"], AllFailed(m), QueuedIfFallback(Allowed(m)))
  /\ UNCHANGED eodPrice

\* Storing the validated rows raises: always when there is a session, for the
\* call names a variable the function does not have.
UnstoredBatch(m) ==
  /\ MayFetch(m)
  /\ \E b \in EodAnswers :
       /\ ValidBatch(m, b)
       /\ Report(m, [status |-> "unstored", rows |-> b.rows], AllFailed(m),
                 (Allowed(m) \ b.rows) \cup QueuedIfFallback(Allowed(m)))
  /\ UNCHANGED eodPrice

StoreBatch(m) ==
  /\ MayFetch(m) /\ ~eodStep.session
  /\ \E b \in EodAnswers :
       /\ ValidBatch(m, b)
       /\ Report(m, [status |-> "stored", rows |-> b.rows],
                 [c \in Allowed(m) |->
                    IF c \in b.rows THEN (IF eodPrice[c] = "none" THEN "fetched" ELSE "no_new_data")
                    ELSE IF eodStep.fallback THEN "skipped" ELSE "failed"],
                 Allowed(m) \ b.rows)
       /\ eodPrice' = [c \in EodCodes |-> IF c \in b.rows THEN "eod" ELSE eodPrice[c]]

\* sync_prices over the queued symbols, whose results replace the batch's.  The
\* rows it stores need not reach the day.
FinishEod ==
  /\ eodStep.phase = "markets" /\ \A m \in EodMarkets : eodBatch[m] # NoBatch
  /\ \E status \in [QueuedIfFallback(eodFallback) -> PriceStatus] :
     \E stored \in SUBSET {c \in DOMAIN status : status[c] \notin {"failed", "skipped"}} :
       /\ eodTarget' = [c \in EodCodes |->
            IF c \in DOMAIN status THEN [status |-> status[c], by |-> "fallback"]
            ELSE eodTarget[c]]
       /\ eodPrice' = [c \in EodCodes |-> IF c \in stored THEN "fallback" ELSE eodPrice[c]]
  /\ eodSaved' = eodPrice'
  /\ eodStep' = [eodStep EXCEPT !.phase = "done"]
  /\ UNCHANGED <<eodBatch, eodFallback>>

\* A read of the prices raised, or the process died: the step is rolled back.
AbortEod ==
  /\ eodStep.phase = "markets"
  /\ eodStep' = [eodStep EXCEPT !.phase = "idle"]
  /\ eodPrice' = eodSaved
  /\ UNCHANGED <<eodBatch, eodTarget, eodFallback, eodSaved>>

EodNext ==
  \/ \E session \in EodSessions, fallback \in BOOLEAN : StartEod(session, fallback)
  \/ \E m \in EodMarkets :
       ExcludeMarket(m) \/ RejectBatch(m) \/ UnstoredBatch(m) \/ StoreBatch(m)
  \/ FinishEod \/ AbortEod

EodSpec == EodInit /\ [][EodNext]_eodVars

-----------------------------------------------------------------------------
\* sync_eod.py:156: no row of a rejected batch is stored, and what the batch
\* left open is answered by the fallback source.  At the end of a step with a
\* fallback only rows of a stored batch stand for themselves; without one a
\* symbol without a stored row has failed or was never asked for.
EodOutcomeIsBacked ==
  eodStep.phase = "done" =>
    \A c \in EodCodes :
      LET batch == eodBatch[EodMarketOf[c]]
          backed == batch.status = "stored" /\ c \in batch.rows IN
      /\ eodTarget[c].status # "none"
      /\ eodTarget[c].by = "fallback" <=> eodStep.fallback /\ ~backed
      /\ backed => eodTarget[c].status \in {"fetched", "no_new_data"} /\ eodSaved[c] = "eod"
      /\ ~backed /\ ~eodStep.fallback =>
           eodTarget[c].status = IF c \in CanaryCodes THEN "failed" ELSE "skipped"

\* sync_eod.py:156 "bulk EOD is stored per market and only missing symbols are
\* fetched again from the fallback source": no row of a validated batch is
\* fetched again.
OnlyMissingAreRefetched ==
  eodStep.phase = "done" =>
    \A c \in eodFallback : c \notin eodBatch[EodMarketOf[c]].rows

=============================================================================
