---------------------------- MODULE OrderPricing ----------------------------
(***************************************************************************)
(* The arithmetic of scripts/place_order.py: the limit price of an order   *)
(* and the number of contracts an amount of money buys.  Prices and money  *)
(* are in whole cents; a book is its best YES bid and its best YES ask     *)
(* (100 minus the best NO bid), bid < ask.  A price is always a yes_price: *)
(* a NO contract costs 100 minus it.                                       *)
(***************************************************************************)
EXTENDS Integers

Pricings == {"midmarket_maker", "join_bid", "join_ask", "cross_spread"}

MakerPricings == Pricings \ {"cross_spread"}

\* The default pricing: the midpoint, rounded away from the other side.
MidmarketMaker(bid, ask, action) ==
  IF ask - bid <= 1
    THEN IF action = "sell" THEN ask ELSE bid
    ELSE IF action = "sell" THEN (bid + ask + 1) \div 2 ELSE (bid + ask) \div 2

LimitPrice(bid, ask, action, pricing) ==
  CASE pricing = "join_bid" -> bid
    [] pricing = "join_ask" -> ask
    [] pricing = "cross_spread" -> IF action = "sell" THEN bid ELSE ask
    [] pricing = "midmarket_maker" -> MidmarketMaker(bid, ask, action)

\* Mutant: the number of contracts is rounded up.
BugContractsUp(amount, yesPrice) == (amount + yesPrice - 1) \div yesPrice

\* Contracts for an amount of money: the YES price, whatever side is bought.
Contracts(amount, yesPrice) == amount \div yesPrice

Cost(side, yesPrice, count) ==
  count * (IF side = "yes" THEN yesPrice ELSE 100 - yesPrice)

\* The order trades at once and pays the taker fee.
Crosses(action, side, yesPrice, bid, ask) ==
  IF (action = "buy") = (side = "yes") THEN yesPrice >= ask ELSE yesPrice <= bid

---------------------------------------------------------------------------
(* "Maker strategies (midmarket_maker, join_bid, join_ask) never cross the *)
(* spread" (compute_limit_price): true of the default strategy on the YES  *)
(* side, for every book.                                                   *)
MidmarketNeverCrosses(bid, ask, action) ==
  ~Crosses(action, "yes", LimitPrice(bid, ask, action, "midmarket_maker"), bid, ask)

(* A YES order bought for an amount costs at most the amount.              *)
YesCostsAtMost(amount, yesPrice) ==
  Cost("yes", yesPrice, Contracts(amount, yesPrice)) <= amount
=============================================================================
