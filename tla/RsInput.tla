------------------------------- MODULE RsInput --------------------------------
(***************************************************************************)
(* What the RS step ranks.  It reads every stock through the clean layer,  *)
(* sets aside the ones whose history shows a corporate action, fetches     *)
(* those again from a source that adjusts its prices, reads and judges     *)
(* them once more, and ranks what is left.  Operators approve exclusions   *)
(* and corrections meanwhile; each read sees what is committed by then.    *)
(*                                                                         *)
(* The 252-day window is RsWindow days here, its quarters are two halves,  *)
(* and a return is an integer in units of 1/10000.                         *)
(***************************************************************************)
EXTENDS Integers, Sequences, FiniteSets

CONSTANTS
  RsStocks,     \* the active stocks, ordered by market and code
  RsMarketOf,   \* RsMarketOf[s]
  RsHistories,  \* histories a stock may have: functions from days to rows
  RsFixes,      \* exclusions and corrections operators may approve
  RsWindow,     \* trading days of the 12-month return
  MinHaltDays   \* volume-less days that make a halt

\* A close of 0 would divide by zero and fail the step.
ASSUME RsAssumption ==
  /\ RsWindow \in Nat /\ RsWindow % 2 = 0 /\ MinHaltDays \in Nat \ {0}
  /\ RsStocks \in Seq({RsStocks[i] : i \in DOMAIN RsStocks})
  /\ \A i, j \in DOMAIN RsStocks : RsStocks[i] = RsStocks[j] => i = j
  /\ \A h \in RsHistories : /\ IsFiniteSet(DOMAIN h) /\ DOMAIN h \subseteq Nat
                            /\ h \in [DOMAIN h -> [close : Nat \ {0}, volume : Nat]]
  /\ \A f \in RsFixes : f.close \in Nat

VARIABLES
  rsPrices,   \* daily_prices of each stock
  rsFixed,    \* approved ohlc_exclusions (close 0) and ohlc_corrections
  rsRun,      \* the RS step
  rsRows      \* rs_scores it stored

rsVars == <<rsPrices, rsFixed, rsRun, rsRows>>

StockSet == {RsStocks[i] : i \in DOMAIN RsStocks}
CodeOrder(s) == CHOOSE i \in DOMAIN RsStocks : RsStocks[i] = s

RsTypeOK ==
  /\ rsFixed \subseteq RsFixes
  /\ rsRun.step \in {"load", "refetch", "recheck", "rank", "done"}
  /\ DOMAIN rsRun.series \subseteq DOMAIN rsRun.input
  /\ DOMAIN rsRun.input \subseteq StockSet
  /\ DOMAIN rsRows \subseteq StockSet
  /\ \A s \in DOMAIN rsRows : rsRows[s].rating \in 1..99

RsInit ==
  /\ rsPrices \in [StockSet -> RsHistories]
  /\ rsFixed = {}
  /\ rsRun = [step |-> "load", todo |-> RsStocks, series |-> <<>>, input |-> <<>>,
              actions |-> <<>>, refetched |-> FALSE]
  /\ rsRows = <<>>

-----------------------------------------------------------------------------
\* The clean layer: excluded days are absent, corrected closes replace stored ones.
CleanRow(s, d) ==
  LET fixes == {f \in rsFixed : f.stock = s /\ f.day = d /\ f.close # 0}
  IN IF fixes = {} THEN rsPrices[s][d]
     ELSE [rsPrices[s][d] EXCEPT !.close = (CHOOSE f \in fixes : TRUE).close]

CleanRows(s) ==
  LET days == {d \in DOMAIN rsPrices[s] :
                 ~\E f \in rsFixed : f.stock = s /\ f.day = d /\ f.close = 0}
  IN [i \in 1..Cardinality(days) |->
        CleanRow(s, CHOOSE d \in days : Cardinality({e \in days : e <= d}) = i)]

\* DAILY_PRICE_LIMIT = 0.305
BreaksLimit(before, after) ==
  before.close > 0 /\ 1000 * (IF after.close > before.close THEN after.close - before.close
                              ELSE before.close - after.close) > 305 * before.close

\* RS_LOOKBACK_DAYS pairs of days, one more than the window has.
PriceLimitBreach(rows) ==
  \E i \in 2..Len(rows) :
    i > Len(rows) - (RsWindow + 1) /\ BreaksLimit(rows[i - 1], rows[i])

\* A halt between two closes whose ratio exceeds the threshold of 3, at any age.
HaltDiscontinuity(rows) ==
  /\ Len(rows) >= MinHaltDays + 2
  /\ \E a, b \in 2..(Len(rows) - 1) :
       /\ b - a + 1 >= MinHaltDays
       /\ \A i \in a..b : rows[i].volume = 0
       /\ rows[a - 1].volume # 0 /\ rows[b + 1].volume # 0
       /\ LET before == rows[a - 1].close after == rows[b + 1].close
          IN before > 0 /\ (after > 3 * before \/ before > 3 * after)

DetectAction(rows) ==
  Len(rows) >= 2 /\ (HaltDiscontinuity(rows) \/ PriceLimitBreach(rows))

\* RS_INPUT_WINDOW
InputWindow(rows) ==
  IF Len(rows) <= RsWindow + 2 THEN rows
  ELSE SubSeq(rows, Len(rows) - (RsWindow + 1), Len(rows))

Extended(f, s, value) == [t \in DOMAIN f \cup {s} |-> IF t = s THEN value ELSE f[t]]

-----------------------------------------------------------------------------
ApproveFix(f) ==
  /\ rsRun.step # "done" /\ f \notin rsFixed
  /\ rsFixed' = rsFixed \cup {f}
  /\ UNCHANGED <<rsPrices, rsRun, rsRows>>

LoadStock ==
  /\ rsRun.step = "load" /\ rsRun.todo # <<>>
  /\ LET s == Head(rsRun.todo) rows == CleanRows(s) IN
     rsRun' = [rsRun EXCEPT
       !.todo = Tail(@),
       !.input = Extended(@, s, InputWindow(rows)),
       !.series = IF DetectAction(rows) THEN @ ELSE Extended(@, s, InputWindow(rows)),
       !.actions = IF DetectAction(rows) THEN Append(@, s) ELSE @]
  /\ UNCHANGED <<rsPrices, rsFixed, rsRows>>

AllLoaded ==
  /\ rsRun.step = "load" /\ rsRun.todo = <<>>
  /\ rsRun' = [rsRun EXCEPT !.step = "refetch", !.todo = rsRun.actions]
  /\ UNCHANGED <<rsPrices, rsFixed, rsRows>>

\* External: the rows of the source from a day on, on the scale of the latest.
Adjusted(s, from) ==
  LET days == DOMAIN rsPrices[s]
      last == CHOOSE d \in days : \A e \in days : e <= d
  IN [d \in {d \in days : d >= from} |-> [rsPrices[s][d] EXCEPT !.close = rsPrices[s][last].close]]

\* What the source returns is upserted; rows it does not return stay.
RefetchStock ==
  /\ rsRun.step = "refetch" /\ rsRun.todo # <<>>
  /\ LET s == Head(rsRun.todo) IN
     \E from \in DOMAIN rsPrices[s] :
       rsPrices' = [rsPrices EXCEPT ![s] =
         [d \in DOMAIN rsPrices[s] |->
            IF d >= from THEN Adjusted(s, from)[d] ELSE rsPrices[s][d]]]
  /\ rsRun' = [rsRun EXCEPT !.todo = Tail(@), !.refetched = TRUE]
  /\ UNCHANGED <<rsFixed, rsRows>>

\* No rows, an exception, no source, or a provider whose rows conflict.
RefetchFails ==
  /\ rsRun.step = "refetch" /\ rsRun.todo # <<>>
  /\ rsRun' = [rsRun EXCEPT !.todo = Tail(@)]
  /\ UNCHANGED <<rsPrices, rsFixed, rsRows>>

AllRefetched ==
  /\ rsRun.step = "refetch" /\ rsRun.todo = <<>>
  /\ rsRun' = [rsRun EXCEPT !.step = IF rsRun.refetched THEN "recheck" ELSE "rank",
                            !.todo = IF rsRun.refetched THEN rsRun.actions ELSE <<>>]
  /\ UNCHANGED <<rsPrices, rsFixed, rsRows>>

MutRecheckStock ==   \* what was fetched again counts as adjusted
  /\ rsRun.step = "recheck" /\ rsRun.todo # <<>>
  /\ LET s == Head(rsRun.todo) rows == CleanRows(s) IN
     rsRun' = [rsRun EXCEPT
       !.todo = Tail(@),
       !.input = Extended(@, s, InputWindow(rows)),
       !.series = Extended(@, s, InputWindow(rows))]
  /\ UNCHANGED <<rsPrices, rsFixed, rsRows>>

RecheckStock ==
  /\ rsRun.step = "recheck" /\ rsRun.todo # <<>>
  /\ LET s == Head(rsRun.todo) rows == CleanRows(s) IN
     rsRun' = [rsRun EXCEPT
       !.todo = Tail(@),
       !.input = Extended(@, s, InputWindow(rows)),
       !.series = IF DetectAction(rows) THEN @ ELSE Extended(@, s, InputWindow(rows))]
  /\ UNCHANGED <<rsPrices, rsFixed, rsRows>>

-----------------------------------------------------------------------------
\* MIN_REQUIRED_PRICES
Rankable == {s \in DOMAIN rsRun.series : Len(rsRun.series[s]) >= RsWindow + 1}

ReturnOver(rows, window) == (10000 * rows[Len(rows)].close) \div rows[Len(rows) - window].close

\* The sum of the returns of the two halves; _quarterly_returns divides the
\* cumulative ones.
RsScore(rows) ==
  LET half == RsWindow \div 2 n == Len(rows) IN
  ReturnOver(rows, half) + (10000 * rows[n - half].close) \div rows[n - RsWindow].close

MutRatingForRank(rank, total) ==   \* the scale starts at 0
  IF total <= 1 THEN 99 ELSE (99 * (total - rank)) \div (total - 1)

\* 1..99, halves rounded to the even neighbour.
RatingForRank(rank, total) ==
  IF total <= 1 THEN 99 ELSE
  LET whole == (98 * (total - rank)) \div (total - 1)
      rest == (98 * (total - rank)) % (total - 1)
  IN 1 + (IF 2 * rest > total - 1 \/ (2 * rest = total - 1 /\ whole % 2 = 1) THEN whole + 1 ELSE whole)

\* Stocks with the same return share a rank.
PeriodRating(s, window) ==
  RatingForRank(1 + Cardinality({t \in Rankable :
                     ReturnOver(rsRun.series[t], window) > ReturnOver(rsRun.series[s], window)}),
                Cardinality(Rankable))

\* _overall_sort_key
Precedes(s, t) ==
  LET key(x) == <<-RsScore(rsRun.series[x]), -PeriodRating(x, RsWindow),
                  -PeriodRating(x, RsWindow \div 2), CodeOrder(x)>>
      a == key(s) b == key(t)
  IN \E i \in 1..4 : a[i] < b[i] /\ \A j \in 1..(i - 1) : a[j] = b[j]

RankStocks ==
  /\ \/ rsRun.step = "recheck" /\ rsRun.todo = <<>>
     \/ rsRun.step = "rank"
  /\ LET place == [s \in Rankable |-> Cardinality({t \in Rankable : Precedes(t, s)}) + 1] IN
     rsRows' = [s \in Rankable |->
       [universe |-> place[s],
        market |-> Cardinality({t \in Rankable : RsMarketOf[t] = RsMarketOf[s] /\ place[t] <= place[s]}),
        rating |-> RatingForRank(place[s], Cardinality(Rankable)),
        long |-> PeriodRating(s, RsWindow)]]
  /\ rsRun' = [rsRun EXCEPT !.step = "done"]
  /\ UNCHANGED <<rsPrices, rsFixed>>

RsNext ==
  \/ \E f \in RsFixes : ApproveFix(f)
  \/ LoadStock \/ AllLoaded \/ RefetchStock \/ RefetchFails \/ AllRefetched
  \/ RecheckStock \/ RankStocks

RsSpec == RsInit /\ [][RsNext]_rsVars

-----------------------------------------------------------------------------
\* corporate_action_filter.py:79: no rating compares prices of two scales.  A
\* ranked stock has a full window without a move beyond the price limit, in the
\* very rows its lineage snapshot hashes, however exclusions, corrections and
\* partial refetches changed the history between the reads.  The ranking is a
\* total order that follows the score, market ranks follow universe ranks, and
\* equal 12-month returns are rated equal.
RanksAreEarned ==
  LET ranked == DOMAIN rsRows
      window(s) == SubSeq(rsRun.input[s], Len(rsRun.input[s]) - RsWindow, Len(rsRun.input[s]))
  IN /\ \A s \in ranked :
          /\ Len(rsRun.input[s]) > RsWindow
          /\ \A i \in 2..(RsWindow + 1) : ~BreaksLimit(window(s)[i - 1], window(s)[i])
     /\ {rsRows[s].universe : s \in ranked} = 1..Cardinality(ranked)
     /\ \A s, t \in ranked :
          /\ RsScore(window(s)) > RsScore(window(t)) =>
               rsRows[s].universe < rsRows[t].universe /\ rsRows[s].rating >= rsRows[t].rating
          /\ RsMarketOf[s] = RsMarketOf[t] /\ rsRows[s].universe < rsRows[t].universe =>
               rsRows[s].market < rsRows[t].market
          /\ ReturnOver(window(s), RsWindow) = ReturnOver(window(t), RsWindow) =>
               rsRows[s].long = rsRows[t].long

=============================================================================
