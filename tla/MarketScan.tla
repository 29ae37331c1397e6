------------------------------ MODULE MarketScan ------------------------------
(***************************************************************************)
(* MarketScanner.run_scan (kalshi_trader/scanner.py): markets of a         *)
(* snapshot are priced live, scored, enriched with the books and trades of *)
(* the best, and the shortlist is priced once more before it is ranked for *)
(* good.  Each of these is a round of requests; what matters is which      *)
(* round a price of the result is from.                                    *)
(*                                                                         *)
(* A price is the round it was read in: 0 the snapshot file, 1 the live    *)
(* quotes, 2 the order books, 3 the quotes of the shortlist.  Scores are   *)
(* any: every sort may give any order.                                     *)
(***************************************************************************)
EXTENDS Naturals, Sequences, FiniteSets

CONSTANTS
  SMarkets,       \* markets that pass filter_markets
  TradeTop, BookTop,   \* trade_top_n, orderbook_top_n
  NoAnswer        \* the ticker is not in the answer

ASSUME ScanAssumption == IsFiniteSet(SMarkets) /\ {TradeTop, BookTop} \subseteq Nat

Sides == {"bid", "ask"}
Round == 0 .. 3

\* What an answer may say of a market: the sides it has a price for.
Answers == (SUBSET Sides) \cup {NoAnswer}

VARIABLES
  scanAt,       \* "idle", "priced", "scored", "read", "enriched", "done"
  priceOf,      \* [SMarkets -> [Sides -> Round]]
  live,         \* SUBSET SMarkets: _apply_live_prices keeps them
  ranked,       \* the result, best first
  orderbookOf,  \* [SMarkets -> Answers]: orderbook_data
  shortlist,    \* SUBSET SMarkets
  degraded,     \* metadata.degraded
  sideless      \* history: [SMarkets -> SUBSET Sides]: an answer about the
                \* market came without the side, in the last round

scanVars == <<scanAt, priceOf, live, ranked, orderbookOf, shortlist, degraded, sideless>>

Larger(a, b) == IF a > b THEN a ELSE b
FromSnapshot == [m \in SMarkets |-> [s \in Sides |-> 0]]
Rankings(S) == {q \in [1 .. Cardinality(S) -> S] : \A i, j \in DOMAIN q : q[i] = q[j] => i = j}
TopOf(q, n) == {q[i] : i \in {j \in DOMAIN q : j <= n}}

ScanTypeOK ==
  /\ scanAt \in {"idle", "priced", "scored", "read", "enriched", "done"}
  /\ priceOf \in [SMarkets -> [Sides -> Round]]
  /\ live \subseteq SMarkets
  /\ ranked \in Rankings(live) \cup {<<>>}
  /\ orderbookOf \in [SMarkets -> Answers]
  /\ shortlist \subseteq SMarkets
  /\ degraded \in BOOLEAN
  /\ sideless \in [SMarkets -> SUBSET Sides]

ScanInit ==
  /\ scanAt = "idle"
  /\ priceOf = FromSnapshot
  /\ live = {} /\ ranked = <<>>
  /\ orderbookOf = [m \in SMarkets |-> NoAnswer]
  /\ shortlist = {}
  /\ degraded = FALSE
  /\ sideless = [m \in SMarkets |-> {}]

---------------------------------------------------------------------------

(* _fetch_live_prices and _apply_live_prices.  A market whose batch failed *)
(* or whose quote is not whole is dropped, and that degrades the scan; so  *)
(* does having nothing left, which ends it.                                *)
ScanPrices(filtered, whole) ==
  /\ scanAt = "idle"
  /\ filtered # {} /\ whole \subseteq filtered
  /\ live' = whole
  /\ priceOf' = [m \in SMarkets |-> [s \in Sides |-> IF m \in whole THEN 1 ELSE 0]]
  /\ degraded' = (whole # filtered)
  /\ scanAt' = IF whole = {} THEN "done" ELSE "priced"
  /\ UNCHANGED <<ranked, orderbookOf, shortlist, sideless>>

(* score_all, from the candle cache.                                       *)
ScanScores(order) ==
  /\ scanAt = "priced"
  /\ ranked' = order
  /\ scanAt' = "scored"
  /\ UNCHANGED <<priceOf, live, orderbookOf, shortlist, degraded, sideless>>

(* The books of the best.  A request that raises ends the scan (ScanDies). *)
ScanReads(books) ==
  /\ scanAt = "scored"
  /\ orderbookOf' = [m \in SMarkets |-> IF m \in TopOf(ranked, BookTop) THEN books[m] ELSE NoAnswer]
  /\ scanAt' = "read"
  /\ UNCHANGED <<priceOf, live, ranked, shortlist, degraded, sideless>>

HasSide(a, s) == a # NoAnswer /\ s \in a

(* enrich_with_live: the sides a book has replace the quotes.              *)
ScanEnriches(order) ==
  /\ scanAt = "read"
  /\ priceOf' = [m \in SMarkets |-> [s \in Sides |->
                   IF HasSide(orderbookOf[m], s) THEN 2 ELSE priceOf[m][s]]]
  /\ ranked' = order
  /\ shortlist' = TopOf(order, Larger(TradeTop, BookTop))
  /\ scanAt' = "enriched"
  /\ UNCHANGED <<live, orderbookOf, degraded, sideless>>

\* Mutant: only a shortlist none of which is quoted counts as missing.
BugMissingQuotes(quotes) ==
  IF \A m \in shortlist : quotes[m] = NoAnswer /\ orderbookOf[m] = NoAnswer
    THEN shortlist ELSE {}

\* missing_shortlist_quotes: neither a quote nor a book.
MissingQuotes(quotes) ==
  {m \in shortlist : quotes[m] = NoAnswer /\ orderbookOf[m] = NoAnswer}

(* _refresh_shortlist_prices: the quotes, and then the books over them,    *)
(* although the books are older; rescore; and the freshness budget, which  *)
(* may be over.                                                            *)
ScanRefreshes(quotes, late, order) ==
  /\ scanAt = "enriched"
  /\ priceOf' = [m \in SMarkets |-> [s \in Sides |->
       IF m \notin shortlist THEN priceOf[m][s]
       ELSE IF HasSide(orderbookOf[m], s) THEN 2
       ELSE IF HasSide(quotes[m], s) THEN 3 ELSE priceOf[m][s]]]
  /\ ranked' = order
  /\ degraded' = (degraded \/ late \/ MissingQuotes(quotes) # {})
  /\ sideless' = [m \in SMarkets |-> {s \in Sides :
       \E a \in {quotes[m], orderbookOf[m]} : a # NoAnswer /\ s \notin a}]
  /\ scanAt' = "done"
  /\ UNCHANGED <<live, orderbookOf, shortlist>>

(* A batch of the shortlist's quotes fails: its markets are left as they   *)
(* were and the scan is degraded.                                          *)
ScanRefreshFails(order) ==
  /\ scanAt = "enriched"
  /\ ranked' = order
  /\ degraded' = TRUE
  /\ scanAt' = "done"
  /\ UNCHANGED <<priceOf, live, orderbookOf, shortlist, sideless>>

(* The scan raises; the next one starts from the snapshot.                 *)
ScanDies ==
  /\ scanAt # "idle"
  /\ scanAt' = "idle"
  /\ priceOf' = FromSnapshot
  /\ live' = {} /\ ranked' = <<>> /\ shortlist' = {} /\ degraded' = FALSE
  /\ orderbookOf' = [m \in SMarkets |-> NoAnswer]
  /\ sideless' = [m \in SMarkets |-> {}]

---------------------------------------------------------------------------

ScanNext ==
  \/ \E filtered, whole \in SUBSET SMarkets : ScanPrices(filtered, whole)
  \/ \E order \in Rankings(live) : ScanScores(order)
  \/ \E books \in [SMarkets -> Answers] : ScanReads(books)
  \/ \E order \in Rankings(live) : ScanEnriches(order)
  \/ \E quotes \in [SMarkets -> Answers], late \in BOOLEAN, order \in Rankings(live) :
       ScanRefreshes(quotes, late, order)
  \/ \E order \in Rankings(live) : ScanRefreshFails(order)
  \/ ScanDies

ScanSpec == ScanInit /\ [][ScanNext]_scanVars

---------------------------------------------------------------------------

(* A scan that does not say it is degraded ranks no market at a price of   *)
(* the snapshot file, and has for every market of the shortlist prices of  *)
(* the books or of the shortlist's own quotes, never the first quotes that *)
(* the enrichment may have outlived; except a side which an answer of the  *)
(* last rounds had no price for, which counts as quoted all the same.      *)
UndegradedScanIsLive ==
  scanAt = "done" /\ ~degraded =>
    /\ \A i \in DOMAIN ranked, s \in Sides : priceOf[ranked[i]][s] >= 1
    /\ \A m \in shortlist : \A s \in Sides \ sideless[m] : priceOf[m][s] >= 2
=============================================================================
