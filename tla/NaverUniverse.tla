---------------------------- MODULE NaverUniverse ----------------------------
(***************************************************************************)
(* Reading Naver's list of securities: pages of stocks, newest listing     *)
(* first, then one list of ETFs and one of ETNs.  Every answer is a        *)
(* request of its own, and the list changes between them: a listing pushes *)
(* the rows behind it one place back, a delisting pulls them one forward.  *)
(* The caller takes symbols out of the universe only after a fetch that    *)
(* calls itself complete.                                                  *)
(*                                                                         *)
(* Naver is taken to answer with the page size it is asked for: the parser *)
(* checks the rest of an answer against the size the answer gives, and not *)
(* that size against the request.                                          *)
(*                                                                         *)
(* A stock is the number of its listing, so newest first is descending.    *)
(***************************************************************************)
EXTENDS Integers, FiniteSets

CONSTANTS
  SymbolPageSize,   \* _SYMBOL_PAGE_SIZE
  MaxSymbolPages,   \* settings.naver_max_symbol_pages
  FirstListed,      \* number of stocks listed when the fetch begins
  LastListing,      \* bound: the last number a new listing gets
  FundLists         \* lists of funds Naver may answer

ASSUME NaverAssumption ==
  /\ SymbolPageSize \in Nat \ {0} /\ MaxSymbolPages \in Nat
  /\ FirstListed \in Nat /\ LastListing \in Nat /\ FirstListed <= LastListing

VARIABLES
  listing,     \* the stocks Naver lists now
  latest,      \* number of the latest listing
  throughout,  \* history: the stocks listed ever since the fetch began
  fetch        \* locals of fetch_symbol_universe

naverVars == <<listing, latest, throughout, fetch>>

Unread == -1    \* expected_total = None

NaverTypeOK ==
  /\ listing \subseteq 1..latest /\ latest \in 0..LastListing /\ throughout \subseteq listing
  /\ fetch.at \in {"stocks", "etf", "etn", "done"} /\ fetch.page \in 0..MaxSymbolPages
  /\ fetch.expected \in {Unread} \cup 0..LastListing
  /\ fetch.stocks \subseteq 1..latest /\ fetch.funds \subseteq UNION FundLists
  /\ {fetch.reachedEnd, fetch.failed, fetch.overlap} \subseteq BOOLEAN

NaverInit ==
  /\ listing = 1..FirstListed /\ throughout = 1..FirstListed /\ latest = FirstListed
  /\ fetch = [at |-> "stocks", page |-> 0, expected |-> Unread, stocks |-> {}, funds |-> {},
              reachedEnd |-> FALSE, failed |-> FALSE, overlap |-> FALSE]

\* What the list does once the stocks are read is of no account.
ListStock ==
  /\ fetch.at = "stocks" /\ latest < LastListing
  /\ latest' = latest + 1
  /\ listing' = listing \cup {latest + 1}
  /\ UNCHANGED <<throughout, fetch>>

DelistStock(s) ==
  /\ fetch.at = "stocks"
  /\ listing' = listing \ {s} /\ throughout' = throughout \ {s}
  /\ UNCHANGED <<latest, fetch>>

\* Rows before a stock on the list.
Place(s) == Cardinality({t \in listing : t > s})

PageOf(index) ==
  {s \in listing : Place(s) >= index * SymbolPageSize /\ Place(s) < (index + 1) * SymbolPageSize}

\* The end-of-list contract of parse_naver_individual_stock_page.
HasNext(index, total) == (index + 1) * SymbolPageSize < total

EndStocks(f) == [f EXCEPT !.at = "etf"]
FailStocks(f) == [EndStocks(f) EXCEPT !.failed = TRUE]

\* An answer may leave rows of its page out, or repeat some instead.
ReadListingPage ==
  /\ fetch.at = "stocks" /\ fetch.page < MaxSymbolPages
  /\ \E rows \in SUBSET PageOf(fetch.page), repeats \in BOOLEAN :
       LET total == Cardinality(listing)
           begun == [fetch EXCEPT !.expected = IF @ = Unread THEN total ELSE @]
           read == [begun EXCEPT !.stocks = @ \cup rows,
                                 !.overlap = @ \/ repeats \/ rows \cap fetch.stocks # {}]
       IN /\ repeats => rows # {} /\ rows # PageOf(fetch.page)
          /\ fetch' = IF total # begun.expected \/ rows = {} THEN FailStocks(begun)
                      ELSE IF HasNext(fetch.page, total) THEN [read EXCEPT !.page = @ + 1]
                      ELSE EndStocks([read EXCEPT !.reachedEnd = TRUE])
  /\ UNCHANGED <<listing, latest, throughout>>

\* No answer, or one that does not parse: another index, rows without a valid
\* code, hasNext against the total.
PageRequestFails ==
  /\ fetch.at = "stocks" /\ fetch.page < MaxSymbolPages
  /\ fetch' = FailStocks(fetch)
  /\ UNCHANGED <<listing, latest, throughout>>

PagesRunOut ==
  /\ fetch.at = "stocks" /\ fetch.page = MaxSymbolPages
  /\ fetch' = FailStocks(fetch)
  /\ UNCHANGED <<listing, latest, throughout>>

AfterFund == IF fetch.at = "etf" THEN "etn" ELSE "done"

\* A fund whose code was seen before is a duplicate.
ReadFunds ==
  /\ fetch.at \in {"etf", "etn"}
  /\ \E funds \in FundLists \ {{}} :
       fetch' = [fetch EXCEPT !.at = AfterFund, !.funds = @ \cup (funds \ fetch.stocks),
                              !.overlap = @ \/ funds \cap (fetch.stocks \cup fetch.funds) # {}]
  /\ UNCHANGED <<listing, latest, throughout>>

\* An empty list does not parse.
FundsFail ==
  /\ fetch.at \in {"etf", "etn"}
  /\ fetch' = [fetch EXCEPT !.at = AfterFund, !.failed = TRUE]
  /\ UNCHANGED <<listing, latest, throughout>>

MutFetchComplete ==   \* trusts hasNext alone
  fetch.reachedEnd /\ ~fetch.failed /\ ~fetch.overlap

\* `complete`; any duplicate is an error.
FetchComplete ==
  /\ fetch.reachedEnd /\ ~fetch.failed /\ ~fetch.overlap
  /\ fetch.expected = Cardinality(fetch.stocks)

NaverNext ==
  \/ ListStock \/ \E s \in listing : DelistStock(s)
  \/ ReadListingPage \/ PageRequestFails \/ PagesRunOut \/ ReadFunds \/ FundsFail

NaverSpec == NaverInit /\ [][NaverNext]_naverVars

-----------------------------------------------------------------------------
\* A fetch that calls itself complete has read every stock that was listed from
\* its first page to its last, however the list moved under it and whatever
\* rows answers left out or repeated: no missing row makes a listed stock look
\* delisted.
CompleteUniverseWasListed ==
  (fetch.at # "stocks" /\ FetchComplete) => throughout \subseteq fetch.stocks

=============================================================================
