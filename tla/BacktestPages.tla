----------------------------- MODULE BacktestPages -----------------------------
(***************************************************************************)
(* Reading a backtest dataset page by page while the tables behind it      *)
(* change.  A live read joins pages of daily_prices and rs_scores; its     *)
(* cursor carries the watermark (the largest id of each table) and a page  *)
(* is refused when the watermark has moved.  A materialised dataset holds  *)
(* memberships, the days its instruments were listed, and copies of their  *)
(* prices; its pages are of memberships, each with the copy of its price   *)
(* if there is one.  Its RS runs come later, and its cursor carries the    *)
(* hash of its final manifest, which each RS run changes.                  *)
(*                                                                         *)
(* Every statement of a request sees the table as last committed: the      *)
(* check and the page of one request are two steps.  A row takes its id    *)
(* when it is inserted and is seen when its transaction commits.  Left out *)
(* are the third id of the watermark, of the KRX snapshots, `strict` and   *)
(* the filters, which a cursor must repeat.                                *)
(***************************************************************************)
EXTENDS Integers, FiniteSets, Sequences

CONSTANTS
  PageKeys,     \* <<trade_date, code>> of the rows, numbered in their order
  KeyStock,     \* KeyStock[k]: the instrument of a key
  Memberships,  \* the keys the listing history may give a dataset, as sets
  FirstRows,    \* the keys that have a price at first
  MaxPriceId,   \* bound on the ids of daily_prices
  MaxScoreId,   \* bound on the ids of rs_scores
  MaxReplaced,  \* bound on the rows that take a second value
  MaxRsRuns     \* bound on the RS runs of the dataset

Tables == {"price", "score"}
MaxRowId == [of \in Tables |-> IF of = "price" THEN MaxPriceId ELSE MaxScoreId]

ASSUME PagesAssumption ==
  /\ PageKeys \subseteq Nat \ {0} /\ IsFiniteSet(PageKeys) /\ FirstRows \subseteq PageKeys
  /\ Memberships \subseteq SUBSET PageKeys
  /\ MaxPriceId \in Nat /\ MaxScoreId \in Nat /\ Cardinality(FirstRows) <= MaxPriceId

VARIABLES
  rows,       \* committed rows of each table: key -> [id, version]
  inserting,  \* rows inserted by transactions that are still open
  issued,     \* the last id of each table's sequence
  frozen,     \* the materialised dataset, from its creation on
  reader      \* the client and the request it has under way

pagesVars == <<rows, inserting, issued, frozen, reader>>

NotRead == [kind |-> "none", pc |-> "idle"]
NotFrozen == [pc |-> "none"]
NoRow == [id |-> 0, version |-> 0]

Highest(s) == IF s = {} THEN 0 ELSE CHOOSE n \in s : \A i \in s : i <= n
Lowest(s) == CHOOSE n \in s : \A i \in s : n <= i

FirstId(k) == Cardinality({j \in FirstRows : j <= k})

PagesInit ==
  /\ rows = [of \in Tables |->
       IF of = "price" THEN [k \in FirstRows |-> [id |-> FirstId(k), version |-> 1]] ELSE <<>>]
  /\ inserting = {}
  /\ issued = [of \in Tables |-> IF of = "price" THEN Cardinality(FirstRows) ELSE 0]
  /\ frozen = NotFrozen
  /\ reader = NotRead

PagesTypeOK ==
  /\ \A of \in Tables :
       /\ DOMAIN rows[of] \subseteq PageKeys
       /\ \A k \in DOMAIN rows[of] :
            rows[of][k].id \in 1..issued[of] /\ rows[of][k].version \in 1..2
  /\ \A w \in inserting : w.id \in 1..issued[w.of] /\ w.key \notin DOMAIN rows[w.of]
  /\ \A of \in Tables : issued[of] \in 0..MaxRowId[of]
  /\ frozen.pc \in {"none", "summed", "stored"}
  /\ reader.pc \in {"idle", "check", "page", "done"}

-----------------------------------------------------------------------------
(* The tables.                                                             *)

\* A price, or the RS of a stored price, that has no row yet; a second insert
\* of the same key waits for the first.
InsertRow(of, k) ==
  /\ k \notin DOMAIN rows[of] /\ \A w \in inserting : w.of = of => w.key # k
  /\ of = "score" => k \in DOMAIN rows["price"]
  /\ issued[of] < MaxRowId[of]
  /\ issued' = [issued EXCEPT ![of] = @ + 1]
  /\ inserting' = inserting \cup {[of |-> of, key |-> k, id |-> issued[of] + 1]}
  /\ UNCHANGED <<rows, frozen, reader>>

CommitInsert(w) ==
  /\ inserting' = inserting \ {w}
  /\ rows' = [rows EXCEPT ![w.of] =
       [k \in DOMAIN @ \cup {w.key} |->
          IF k = w.key THEN [id |-> w.id, version |-> 1] ELSE @[k]]]
  /\ UNCHANGED <<issued, frozen, reader>>

Replaced ==
  {ok \in Tables \X PageKeys : ok[2] \in DOMAIN rows[ok[1]] /\ rows[ok[1]][ok[2]].version = 2}

\* ON CONFLICT DO UPDATE: a new value under the id the row has.
ReplaceRow(of, k) ==
  /\ k \in DOMAIN rows[of] /\ rows[of][k].version = 1
  /\ Cardinality(Replaced) < MaxReplaced
  /\ rows' = [rows EXCEPT ![of][k].version = 2]
  /\ UNCHANGED <<inserting, issued, frozen, reader>>

-----------------------------------------------------------------------------
(* The materialised dataset: its price hash comes from one read of the     *)
(* prices, its copies from another.                                        *)

\* _iter_price_rows: every price in the range of an instrument that has a
\* membership, on days of membership and others.
PricesOf(members) ==
  [k \in {k \in DOMAIN rows["price"] : \E m \in members : KeyStock[m] = KeyStock[k]} |->
     rows["price"][k]]

SummarisePrices(members) ==
  /\ frozen = NotFrozen
  /\ frozen' = [pc |-> "summed", members |-> members, hashed |-> PricesOf(members)]
  /\ UNCHANGED <<rows, inserting, issued, reader>>

CopyPrices ==
  /\ frozen.pc = "summed"
  /\ frozen' = [pc |-> "stored", members |-> frozen.members, hashed |-> frozen.hashed,
                copies |-> PricesOf(frozen.members), rsRun |-> 0, expired |-> FALSE]
  /\ UNCHANGED <<rows, inserting, issued, reader>>

\* One per formula version; the run is part of the final manifest.
PublishRsRun ==
  /\ frozen.pc = "stored" /\ frozen.rsRun < MaxRsRuns
  /\ frozen' = [frozen EXCEPT !.rsRun = @ + 1]
  /\ UNCHANGED <<rows, inserting, issued, reader>>

RetentionEnds ==
  /\ frozen.pc = "stored" /\ ~frozen.expired
  /\ frozen' = [frozen EXCEPT !.expired = TRUE]
  /\ UNCHANGED <<rows, inserting, issued, reader>>

-----------------------------------------------------------------------------
(* Reading.                                                                *)

Watermark == [of \in Tables |-> Highest({rows[of][k].id : k \in DOMAIN rows[of]})]

\* What a cursor must still agree with.
Bound(kind) == IF kind = "live" THEN Watermark ELSE frozen.rsRun

\* The first request of a client, without a cursor: 404 before the dataset is
\* there, 410 after its retention.
FirstRequest(kind) ==
  /\ reader = NotRead
  /\ kind = "frozen" => frozen.pc = "stored" /\ ~frozen.expired
  /\ reader' = [kind |-> kind, pc |-> "page", bound |-> Bound(kind), last |-> 0,
                joined |-> <<>>, begun |-> rows]
  /\ UNCHANGED <<rows, inserting, issued, frozen>>

\* A request with the cursor: 409 when the bound has moved, 410 when expired;
\* the client restarts from the first page.
NextRequest ==
  /\ reader.pc = "check"
  /\ reader' =
       IF /\ reader.bound = Bound(reader.kind)
          /\ reader.kind = "frozen" => ~frozen.expired
       THEN [reader EXCEPT !.pc = "page"] ELSE NotRead
  /\ UNCHANGED <<rows, inserting, issued, frozen>>

\* The memberships beyond the cursor, whether or not there is a price.
MembersAfter(after) == {k \in frozen.members : k > after}

Wanted(after) ==
  IF reader.kind = "live"
  THEN {k \in DOMAIN rows["price"] : k > after /\ rows["price"][k].id <= reader.bound["price"]}
  ELSE MembersAfter(after)

\* The outer join of a membership with the copied prices.
CopyOf(k) == IF k \in DOMAIN frozen.copies THEN frozen.copies[k] ELSE NoRow

\* The outer join with rs_scores up to the watermark, or with the last RS run.
Item(k) ==
  IF reader.kind = "live"
  THEN [key |-> k, price |-> rows["price"][k],
        rs |-> IF /\ k \in DOMAIN rows["score"]
                  /\ rows["score"][k].id <= reader.bound["score"]
               THEN rows["score"][k] ELSE NoRow]
  ELSE [key |-> k, price |-> CopyOf(k), rs |-> [id |-> frozen.rsRun, version |-> 1]]

MutCursorAfter(page, rest) ==   \* the cursor names the row read beyond the page
  IF rest = {} THEN page ELSE Lowest(rest)

\* The cursor names the last row of the page.
CursorAfter(page, rest) == page

\* page_size + 1 rows are read (here the page is one row) to know if it is the
\* last; a live read with no row left ends with an empty page.
ReadPage ==
  /\ reader.pc = "page"
  /\ LET left == Wanted(reader.last) IN
     reader' =
       IF left = {} THEN [reader EXCEPT !.pc = "done"]
       ELSE LET k == Lowest(left) IN
            [reader EXCEPT !.pc = IF left = {k} THEN "done" ELSE "check",
                           !.last = CursorAfter(k, left \ {k}),
                           !.joined = Append(@, Item(k))]
  /\ UNCHANGED <<rows, inserting, issued, frozen>>

NewClient ==
  /\ reader.pc = "done"
  /\ reader' = NotRead
  /\ UNCHANGED <<rows, inserting, issued, frozen>>

PagesNext ==
  \/ \E of \in Tables, k \in PageKeys : InsertRow(of, k) \/ ReplaceRow(of, k)
  \/ \E w \in inserting : CommitInsert(w)
  \/ \E members \in Memberships : SummarisePrices(members)
  \/ CopyPrices \/ PublishRsRun \/ RetentionEnds
  \/ \E kind \in {"live", "frozen"} : FirstRequest(kind)
  \/ NextRequest \/ ReadPage \/ NewClient

PagesSpec == PagesInit /\ [][PagesNext]_pagesVars

-----------------------------------------------------------------------------
JoinedKeys == {reader.joined[i].key : i \in DOMAIN reader.joined}

InKeyOrder ==
  \A i, j \in DOMAIN reader.joined : i < j => reader.joined[i].key < reader.joined[j].key

LivePagesMissNothing ==
  reader.kind = "live" =>
    /\ DOMAIN reader.begun["price"] \subseteq JoinedKeys
    /\ \A i \in DOMAIN reader.joined :
         LET item == reader.joined[i] k == item.key IN
         /\ item.price.id <= reader.bound["price"] /\ item.rs.id <= reader.bound["score"]
         /\ k \in DOMAIN reader.begun["price"] =>
              reader.begun["price"][k].version \in 1..item.price.version
         /\ k \in DOMAIN reader.begun["score"] => item.rs # NoRow

FrozenPagesAreTheMembers ==
  reader.kind = "frozen" =>
    /\ JoinedKeys = frozen.members
    /\ \A i \in DOMAIN reader.joined :
         /\ reader.joined[i].price = CopyOf(reader.joined[i].key)
         /\ i < Len(reader.joined) => reader.joined[i].rs.id = reader.bound

\* What following the cursors is worth, whatever is committed between the
\* requests: a client that has come to the end has, once and in order, every
\* price there was when it began, none from beyond its watermark, none older
\* than it began with, and no RS lost; of a materialised dataset its
\* memberships, each with the copy of its price, if one was made, and with the
\* RS of the run its cursor is bound to on every page but the last (whose run
\* is read after the cursor is checked).  It is not one state of the tables.
JoinedPagesMissNothing ==
  reader.pc = "done" => InKeyOrder /\ LivePagesMissNothing /\ FrozenPagesAreTheMembers

\* endpoints/backtest.py:187-189, "If source rows change between pages, the
\* client receives 409 and must restart", docs/agent_api.md:70-71: a request
\* with the cursor of a live read is accepted only if the prices up to the
\* cursor are those the client has.  They need not be: the watermark is the
\* largest id, which a replaced row keeps and a row that commits late need not
\* exceed.
ChangedPagesAreRefused ==
  [][reader.kind = "live" /\ reader.pc = "check" /\ reader'.pc = "page" =>
       \A k \in DOMAIN rows["price"] : k <= reader.last =>
         \E i \in DOMAIN reader.joined :
           reader.joined[i].key = k /\ reader.joined[i].price = rows["price"][k]]_pagesVars

=============================================================================
