------------------------- MODULE WeatherSessionProofs -------------------------
(***************************************************************************)
(* What place_order.py's arithmetic guarantees for every book and amount,  *)
(* and what a weather session built on it guarantees for any markets,      *)
(* suggestions, books and caps.                                            *)
(***************************************************************************)
EXTENDS WeatherSession, TLAPS

(* The default strategy on the YES side joins the book and never crosses.  *)
THEOREM MidmarketIsMaker ==
  ASSUME NEW bid \in Int, NEW ask \in Int, bid < ask, NEW action \in {"buy", "sell"}
  PROVE  MidmarketNeverCrosses(bid, ask, action)
  <1>1. LimitPrice(bid, ask, action, "midmarket_maker") = MidmarketMaker(bid, ask, action)
    BY DEF LimitPrice
  <1>2. CASE action = "buy"
    <2>1. MidmarketMaker(bid, ask, action) < ask
      BY <1>2 DEF MidmarketMaker
    <2> QED
      BY <1>1, <1>2, <2>1 DEF MidmarketNeverCrosses, Crosses, MidmarketMaker
  <1>3. CASE action = "sell"
    <2>1. MidmarketMaker(bid, ask, action) > bid
      BY <1>3 DEF MidmarketMaker
    <2> QED
      BY <1>1, <1>3, <2>1 DEF MidmarketNeverCrosses, Crosses, MidmarketMaker
  <1> QED
    BY <1>2, <1>3

(* The contracts an amount buys on the YES side cost at most the amount.   *)
THEOREM YesAmountSuffices ==
  ASSUME NEW amount \in Nat, NEW yesPrice \in Nat \ {0}
  PROVE  YesCostsAtMost(amount, yesPrice)
  <1>1. /\ amount \div yesPrice \in Int /\ amount % yesPrice \in 0 .. (yesPrice - 1)
        /\ amount = yesPrice * (amount \div yesPrice) + (amount % yesPrice)
    OBVIOUS
  <1> QED
    BY <1>1 DEF YesCostsAtMost, Cost, Contracts

---------------------------------------------------------------------------
(* The session.                                                            *)

\* Rounding to the dollar moves an amount by half a dollar at most.
LEMMA RoundDollarsFacts ==
  ASSUME NEW c \in Nat
  PROVE  /\ RoundDollars(c) \in Nat
         /\ RoundDollars(c) <= c + 50
         /\ RoundDollars(c) % 100 = 0
  <1> DEFINE q == c \div 100
             r == c % 100
  <1>1. q \in Nat /\ r \in 0 .. 99 /\ c = 100 * q + r
    OBVIOUS
  <1>2. CASE r > 50 \/ (r = 50 /\ q % 2 = 1)
    <2>1. RoundDollars(c) = 100 * (q + 1)
      BY <1>2 DEF RoundDollars
    <2> HIDE DEF q, r
    <2> QED
      BY <1>1, <1>2, <2>1
  <1>3. CASE ~(r > 50 \/ (r = 50 /\ q % 2 = 1))
    <2>1. RoundDollars(c) = 100 * q
      BY <1>3 DEF RoundDollars
    <2> HIDE DEF q, r
    <2> QED
      BY <1>1, <1>3, <2>1
  <1> QED
    BY <1>2, <1>3

\* The amount of a command: whole dollars, and within what remains but for
\* the rounding; in a session of whole dollars, within what remains.
LEMMA AmountFacts ==
  ASSUME NEW suggested \in Nat, NEW remaining \in Nat, remaining >= 100
  PROVE  LET a == Amount(suggested, remaining) IN
         /\ a \in Nat /\ a >= 100 /\ a % 100 = 0
         /\ a <= remaining + 50
         /\ remaining % 100 = 0 => a <= remaining
  <1> DEFINE least == Least(MaxPerTrade, Least(suggested, remaining))
             d == RoundDollars(least)
             a == Amount(suggested, remaining)
  <1>1. least \in Nat /\ least <= remaining
    BY MoneyAssumption DEF Least
  <1>2. a = IF d < 100 THEN 100 ELSE d
    BY DEF Amount
  <1> HIDE DEF least
  <1>3. d \in Nat /\ d <= least + 50 /\ d % 100 = 0
    BY <1>1, RoundDollarsFacts
  <1> HIDE DEF d, a
  <1>4. a \in Nat /\ a >= 100 /\ a % 100 = 0 /\ a <= remaining + 50
    BY <1>1, <1>2, <1>3
  <1>5. ASSUME remaining % 100 = 0 PROVE a <= remaining
    BY <1>1, <1>4, <1>5
  <1> QED
    BY <1>4, <1>5 DEF a

\* What the file has, and what it will have once the order under way is saved.
SessionInv ==
  /\ pc # "command" => request = "none"
  /\ pc \in {"slate", "command"} => spent = file.spent /\ executed = file.executed
  /\ pc = "save" => /\ spent = file.spent + order.amount
                    /\ executed = file.executed \cup {order.ticker}

\* The cap leaves room for the order under way.
CapInv ==
  /\ file.spent % 100 = 0 /\ file.spent <= SessionCap + 50
  /\ SessionCap % 100 = 0 => file.spent <= SessionCap
  /\ pc \in {"command", "save"} =>
       /\ order.amount % 100 = 0
       /\ file.spent + order.amount <= SessionCap + 50
       /\ SessionCap % 100 = 0 => file.spent + order.amount <= SessionCap

\* A YES order costs at most its amount, and what is paid is accounted for.
PaidInv ==
  /\ pc \in {"command", "save"} /\ order.side = "yes" => OrderCost(order) <= order.amount
  /\ YesIsCounted

\* A ticker that was bought is in the file, under way or lost.
BoughtInv ==
  /\ pc = "command" => order.ticker \notin file.executed
  /\ \A t \in Tickers : bought[t] > 0 =>
       t \in file.executed \cup lost.tickers \/ (InFlight /\ t = order.ticker)
  /\ BoughtOnce

WeatherIInv == TypeOK /\ SessionInv /\ CapInv /\ PaidInv /\ BoughtInv

\* The order of no command has the type of an order.
LEMMA NoOrderType ==
  NoOrder \in [ticker : Tickers \cup {NoTicker}, side : {"yes", "no"}, amount : Nat,
               price : 1 .. 99, count : Nat, bid : 1 .. 98, ask : 2 .. 99]
  BY DEF NoOrder

\* The initial state satisfies the inductive invariant.
LEMMA WeatherInitInv == Init => WeatherIInv
  <1> SUFFICES ASSUME Init PROVE WeatherIInv
    OBVIOUS
  <1> USE MoneyAssumption DEF Init, NoOrder
  <1>1. TypeOK
    <2>1. file \in [spent : Nat, executed : SUBSET Tickers]
      OBVIOUS
    <2>2. lost \in [amount : Nat, tickers : SUBSET Tickers]
      OBVIOUS
    <2>3. order \in [ticker : Tickers \cup {NoTicker}, side : {"yes", "no"}, amount : Nat,
                    price : 1 .. 99, count : Nat, bid : 1 .. 98, ask : 2 .. 99]
      BY NoOrderType
    <2>4. pc = "idle" /\ request = "none" /\ spent \in Nat /\ executed \subseteq Tickers
      OBVIOUS
    <2>5. bought \in [Tickers -> Nat] /\ paid \in [{"yes", "no"} -> Nat] /\ torn \in BOOLEAN
      OBVIOUS
    <2> QED
      BY <2>1, <2>2, <2>3, <2>4, <2>5 DEF TypeOK
  <1>2. SessionInv /\ CapInv
    BY DEF SessionInv, CapInv
  <1>3. PaidInv /\ BoughtInv
    BY DEF PaidInv, YesIsCounted, InFlight, BoughtInv, BoughtOnce
  <1> QED
    BY <1>1, <1>2, <1>3 DEF WeatherIInv

\* The order a command sends: its types, and what it can cost.
LEMMA CommandFacts ==
  ASSUME TypeOK, NEW t \in Tickers, NEW side \in {"yes", "no"}, NEW s \in Suggested,
         NEW b \in Books, RunCommand(t, side, s, b)
  PROVE  /\ order' \in [ticker : Tickers \cup {NoTicker}, side : {"yes", "no"}, amount : Nat,
                        price : 1 .. 99, count : Nat, bid : 1 .. 98, ask : 2 .. 99]
         /\ order'.ticker = t
         /\ order'.amount % 100 = 0
         /\ order'.amount <= SessionCap - spent + 50
         /\ (SessionCap - spent) % 100 = 0 => order'.amount <= SessionCap - spent
         /\ order'.side = "yes" => OrderCost(order)' <= order'.amount
  <1> DEFINE amount == Amount(s, SessionCap - spent)
             price  == LimitPrice(b[1], b[2], "buy", "midmarket_maker")
             count  == Contracts(amount, price)
  <1>1. b[1] \in 1 .. 98 /\ b[2] \in 2 .. 99 /\ b[1] < b[2]
    BY BooksAssumption
  <1>2. price \in 1 .. 99
    BY <1>1 DEF LimitPrice, MidmarketMaker
  <1>3. SessionCap - spent \in Nat /\ SessionCap - spent >= 100
    BY MoneyAssumption DEF RunCommand, TypeOK
  <1>4. /\ amount \in Nat /\ amount % 100 = 0
        /\ amount <= SessionCap - spent + 50
        /\ (SessionCap - spent) % 100 = 0 => amount <= SessionCap - spent
    BY <1>3, MoneyAssumption, AmountFacts
  <1>5. order' = [ticker |-> t, side |-> side, amount |-> amount, price |-> price,
                  count |-> count, bid |-> b[1], ask |-> b[2]]
    BY DEF RunCommand
  <1>6. Cost("yes", price, count) <= amount
    BY <1>2, <1>4, YesAmountSuffices DEF YesCostsAtMost
  <1> HIDE DEF amount, price
  <1>7. count \in Nat
    BY <1>2, <1>4 DEF Contracts
  <1> HIDE DEF count
  <1>8. order'.side = "yes" => OrderCost(order)' <= order'.amount
    BY <1>5, <1>6 DEF OrderCost
  <1> QED
    BY <1>1, <1>2, <1>4, <1>5, <1>7, <1>8

\* What an order costs is a number of cents.
LEMMA CostType == TypeOK => OrderCost(order) \in Nat /\ order.amount \in Nat
  <1> SUFFICES ASSUME TypeOK PROVE OrderCost(order) \in Nat /\ order.amount \in Nat
    OBVIOUS
  <1>1. order.count \in Nat /\ order.price \in 1 .. 99 /\ order.amount \in Nat
    BY DEF TypeOK
  <1>2. CASE order.side = "yes"
    BY <1>1, <1>2 DEF OrderCost, Cost
  <1>3. CASE order.side # "yes"
    BY <1>1, <1>3 DEF OrderCost, Cost
  <1> QED
    BY <1>1, <1>2, <1>3

\* What a lost order adds to the lost ones.
LEMMA LoseFacts ==
  ASSUME TypeOK, LoseOrder, order.ticker \in Tickers
  PROVE  /\ lost' \in [amount : Nat, tickers : SUBSET Tickers]
         /\ lost'.amount = lost.amount + order.amount
         /\ lost'.tickers = lost.tickers \cup {order.ticker}
  BY DEF TypeOK, LoseOrder

\* An order under way is of a market.
LEMMA UnderWay ==
  TypeOK /\ (pc \in {"command", "save"} \/ request # "none") => order.ticker \in Tickers
  BY DEF TypeOK

\* Every step preserves the types.
LEMMA WeatherTypeStep == TypeOK /\ SessionInv /\ [Next]_vars => TypeOK'
  <1> SUFFICES ASSUME TypeOK, SessionInv, [Next]_vars PROVE TypeOK'
    OBVIOUS
  <1> USE DEF accountVars
  <1>1. CASE Begin
    BY <1>1 DEF Begin, TypeOK
  <1>2. CASE End
    BY <1>2, NoOrderType DEF End, TypeOK, SessionInv
  <1>3. ASSUME NEW t \in Tickers, NEW side \in {"yes", "no"}, NEW s \in Suggested,
               NEW b \in Books, RunCommand(t, side, s, b)
        PROVE TypeOK'
    BY <1>3, CommandFacts DEF RunCommand, TypeOK
  <1>4. CASE Accept
    <2>1. order.ticker \in Tickers /\ OrderCost(order) \in Nat /\ order.side \in {"yes", "no"}
      BY <1>4, UnderWay, CostType DEF Accept, TypeOK
    <2>2. bought' \in [Tickers -> Nat]
      BY <1>4, <2>1 DEF Accept, TypeOK
    <2>3. paid' \in [{"yes", "no"} -> Nat]
      BY <1>4, <2>1 DEF Accept, TypeOK
    <2> QED
      BY <1>4, <2>1, <2>2, <2>3 DEF Accept, TypeOK
  <1>5. CASE Refuse
    BY <1>5 DEF Refuse, TypeOK
  <1>6. CASE CommandSucceeds
    <2>1. order.ticker \in Tickers /\ order.amount \in Nat
      BY <1>6, UnderWay, CostType DEF CommandSucceeds
    <2> QED
      BY <1>6, <2>1 DEF CommandSucceeds, TypeOK
  <1>7. CASE CommandFails
    <2>1. lost' \in [amount : Nat, tickers : SUBSET Tickers]
      BY <1>7, LoseFacts, UnderWay DEF CommandFails, TypeOK
    <2> QED
      BY <1>7, <2>1, NoOrderType DEF CommandFails, TypeOK
  <1>8. CASE Save
    BY <1>8, NoOrderType DEF Save, TypeOK, SessionInv
  <1>9. CASE Crash
    <2>1. lost' \in [amount : Nat, tickers : SUBSET Tickers]
      BY <1>9, LoseFacts, UnderWay DEF Crash, TypeOK, InFlight
    <2> QED
      BY <1>9, <2>1, NoOrderType DEF Crash, TypeOK
  <1>10. CASE UNCHANGED vars
    BY <1>10 DEF vars, TypeOK
  <1> QED
    BY <1>1, <1>2, <1>3, <1>4, <1>5, <1>6, <1>7, <1>8, <1>9, <1>10 DEF Next

\* Every step keeps the file, the memory and the cap together.
LEMMA WeatherCapStep ==
  TypeOK /\ TypeOK' /\ SessionInv /\ CapInv /\ [Next]_vars => SessionInv' /\ CapInv'
  <1> SUFFICES ASSUME TypeOK, TypeOK', SessionInv, CapInv, [Next]_vars
               PROVE SessionInv' /\ CapInv'
    OBVIOUS
  <1> USE DEF SessionInv, CapInv, accountVars
  <1>1. CASE Begin
    BY <1>1 DEF Begin
  <1>2. CASE End
    BY <1>2 DEF End
  <1>3. ASSUME NEW t \in Tickers, NEW side \in {"yes", "no"}, NEW s \in Suggested,
               NEW b \in Books, RunCommand(t, side, s, b)
        PROVE SessionInv' /\ CapInv'
    <2>1. /\ pc = "slate" /\ pc' = "command" /\ spent = file.spent
          /\ UNCHANGED <<file, spent, executed>>
      BY <1>3 DEF RunCommand
    <2>2. /\ order'.amount \in Nat /\ file.spent \in Nat /\ SessionCap \in Nat
          /\ file'.spent \in Nat
      BY MoneyAssumption DEF TypeOK
    <2>3. /\ order'.amount % 100 = 0
          /\ order'.amount <= SessionCap - file.spent + 50
          /\ (SessionCap - file.spent) % 100 = 0 => order'.amount <= SessionCap - file.spent
      BY <1>3, <2>1, CommandFacts
    <2>4. SessionCap % 100 = 0 => (SessionCap - file.spent) % 100 = 0
      BY <2>2
    <2>5. CapInv'
      BY <2>1, <2>2, <2>3, <2>4
    <2> QED
      BY <2>1, <2>5
  <1>4. CASE Accept
    BY <1>4 DEF Accept
  <1>5. CASE Refuse
    BY <1>5 DEF Refuse
  <1>6. CASE CommandSucceeds
    BY <1>6 DEF CommandSucceeds
  <1>7. CASE CommandFails
    BY <1>7 DEF CommandFails
  <1>8. CASE Save
    <2>1. /\ file'.spent = file.spent + order.amount
          /\ file.spent \in Nat /\ order.amount \in Nat
          /\ pc' = "slate" /\ request' = "none"
          /\ spent' = file'.spent /\ executed' = file'.executed
      BY <1>8 DEF Save, TypeOK
    <2>2. file'.spent % 100 = 0
      BY <1>8, <2>1 DEF Save
    <2>3. CapInv'
      BY <1>8, <2>1, <2>2 DEF Save
    <2> QED
      BY <2>1, <2>3
  <1>9. CASE Crash
    BY <1>9 DEF Crash
  <1>10. CASE UNCHANGED vars
    BY <1>10 DEF vars
  <1> QED
    BY <1>1, <1>2, <1>3, <1>4, <1>5, <1>6, <1>7, <1>8, <1>9, <1>10 DEF Next

\* Every step keeps the account of what the YES orders cost.
LEMMA WeatherPaidStep ==
  TypeOK /\ TypeOK' /\ SessionInv /\ PaidInv /\ [Next]_vars => PaidInv'
  <1> SUFFICES ASSUME TypeOK, TypeOK', SessionInv, PaidInv, [Next]_vars PROVE PaidInv'
    OBVIOUS
  <1> USE DEF PaidInv, YesIsCounted, InFlight, accountVars
  <1>0. /\ paid["yes"] \in Nat /\ file.spent \in Nat /\ lost.amount \in Nat
        /\ order.amount \in Nat /\ OrderCost(order) \in Nat
    BY CostType DEF TypeOK
  <1>1. CASE Begin
    BY <1>1 DEF Begin
  <1>2. CASE End
    BY <1>2 DEF End, SessionInv
  <1>3. ASSUME NEW t \in Tickers, NEW side \in {"yes", "no"}, NEW s \in Suggested,
               NEW b \in Books, RunCommand(t, side, s, b)
        PROVE PaidInv'
    <2>1. pc = "slate" /\ request = "none" /\ pc' = "command" /\ request' = "sent"
      BY <1>3 DEF RunCommand, SessionInv
    <2>2. order'.side = "yes" => OrderCost(order)' <= order'.amount
      BY <1>3, CommandFacts
    <2>3. UNCHANGED <<paid, file, lost>>
      BY <1>3 DEF RunCommand
    <2> QED
      BY <2>1, <2>2, <2>3
  <1>4. CASE Accept
    <2>1. /\ pc = "command" /\ request = "sent" /\ request' = "accepted"
          /\ UNCHANGED <<pc, order, file, lost>>
      BY <1>4 DEF Accept, SessionInv
    <2>2. paid["yes"] <= file.spent + lost.amount
      BY <1>0, <2>1
    <2>3. CASE order.side = "yes"
      <3>1. paid'["yes"] = paid["yes"] + OrderCost(order)
        BY <1>4, <2>3 DEF Accept, TypeOK
      <3> QED
        BY <1>0, <2>1, <2>2, <2>3, <3>1
    <2>4. CASE order.side # "yes"
      <3>1. paid'["yes"] = paid["yes"]
        BY <1>4, <2>4 DEF Accept, TypeOK
      <3> QED
        BY <1>0, <2>1, <2>2, <2>4, <3>1
    <2> QED
      BY <2>3, <2>4
  <1>5. CASE Refuse
    BY <1>5 DEF Refuse, SessionInv
  <1>6. CASE CommandSucceeds
    BY <1>6 DEF CommandSucceeds
  <1>7. CASE CommandFails
    <2>1. pc' = "slate" /\ request' = "none" /\ pc = "command" /\ UNCHANGED <<paid, file>>
      BY <1>7 DEF CommandFails
    <2>2. CASE request = "accepted"
      <3>1. lost'.amount = lost.amount + order.amount
        BY <1>7, <2>1, <2>2, LoseFacts, UnderWay DEF CommandFails
      <3> QED
        BY <1>0, <2>1, <2>2, <3>1
    <2>3. CASE request # "accepted"
      <3>1. lost' = lost
        BY <1>7, <2>3 DEF CommandFails
      <3> QED
        BY <1>0, <2>1, <2>3, <3>1
    <2> QED
      BY <2>2, <2>3
  <1>8. CASE Save
    <2>1. /\ file'.spent = file.spent + order.amount /\ request = "none"
          /\ pc = "save" /\ pc' = "slate" /\ UNCHANGED <<paid, lost, request>>
      BY <1>8 DEF Save, SessionInv
    <2> QED
      BY <1>0, <2>1
  <1>9. CASE Crash
    <2>1. pc' = "idle" /\ request' = "none" /\ UNCHANGED <<paid, file>>
      BY <1>9 DEF Crash
    <2>2. CASE request = "accepted" \/ pc = "save"
      <3>1. lost'.amount = lost.amount + order.amount
        BY <1>9, <2>2, LoseFacts, UnderWay DEF Crash
      <3> QED
        BY <1>0, <2>1, <2>2, <3>1
    <2>3. CASE ~(request = "accepted" \/ pc = "save")
      <3>1. lost' = lost
        BY <1>9, <2>3 DEF Crash
      <3> QED
        BY <1>0, <2>1, <2>3, <3>1
    <2> QED
      BY <2>2, <2>3
  <1>10. CASE UNCHANGED vars
    <2>1. UNCHANGED <<pc, order, request, file, paid, lost>>
      BY <1>10 DEF vars
    <2> QED
      BY <2>1
  <1> QED
    BY <1>1, <1>2, <1>3, <1>4, <1>5, <1>6, <1>7, <1>8, <1>9, <1>10 DEF Next

\* Every step keeps track of where a bought ticker is remembered.
LEMMA WeatherBoughtStep ==
  TypeOK /\ TypeOK' /\ SessionInv /\ BoughtInv /\ [Next]_vars => BoughtInv'
  <1> SUFFICES ASSUME TypeOK, TypeOK', SessionInv, BoughtInv, [Next]_vars PROVE BoughtInv'
    OBVIOUS
  <1> USE DEF BoughtInv, BoughtOnce, InFlight, accountVars
  <1>1. CASE Begin
    BY <1>1 DEF Begin
  <1>2. CASE End
    BY <1>2 DEF End, SessionInv
  <1>3. ASSUME NEW t \in Tickers, NEW side \in {"yes", "no"}, NEW s \in Suggested,
               NEW b \in Books, RunCommand(t, side, s, b)
        PROVE BoughtInv'
    <2>1. /\ pc = "slate" /\ request = "none" /\ pc' = "command" /\ request' = "sent"
          /\ t \notin file.executed /\ UNCHANGED <<bought, file, lost>>
      BY <1>3 DEF RunCommand, SessionInv
    <2>2. order'.ticker = t
      BY <1>3, CommandFacts
    <2> QED
      BY <2>1, <2>2
  <1>4. CASE Accept
    <2>1. /\ pc = "command" /\ request = "sent" /\ request' = "accepted"
          /\ UNCHANGED <<pc, order, file, lost>>
      BY <1>4 DEF Accept, SessionInv
    <2>2. order.ticker \in Tickers /\ order.ticker \notin file.executed
      BY <2>1, UnderWay
    <2>3. /\ bought'[order.ticker] = bought[order.ticker] + 1
          /\ \A t \in Tickers : t # order.ticker => bought'[t] = bought[t]
          /\ bought[order.ticker] \in Nat
      BY <1>4, <2>2 DEF Accept, TypeOK
    <2>4. bought'[order.ticker] > 1 => order.ticker \in lost.tickers
      BY <2>1, <2>2, <2>3
    <2>5. BoughtOnce'
      BY <2>1, <2>3, <2>4
    <2> QED
      BY <2>1, <2>2, <2>3, <2>5
  <1>5. CASE Refuse
    BY <1>5 DEF Refuse, SessionInv
  <1>6. CASE CommandSucceeds
    BY <1>6 DEF CommandSucceeds
  <1>7. CASE CommandFails
    <2>1. pc' = "slate" /\ request' = "none" /\ pc = "command" /\ UNCHANGED <<bought, file>>
      BY <1>7 DEF CommandFails
    <2>2. CASE request = "accepted"
      <3>1. lost'.tickers = lost.tickers \cup {order.ticker}
        BY <1>7, <2>1, <2>2, LoseFacts, UnderWay DEF CommandFails
      <3> QED
        BY <2>1, <2>2, <3>1
    <2>3. CASE request # "accepted"
      <3>1. lost' = lost
        BY <1>7, <2>3 DEF CommandFails
      <3> QED
        BY <2>1, <2>3, <3>1
    <2> QED
      BY <2>2, <2>3
  <1>8. CASE Save
    <2>1. /\ file'.executed = file.executed \cup {order.ticker} /\ request = "none"
          /\ pc = "save" /\ pc' = "slate" /\ UNCHANGED <<bought, lost, request>>
      BY <1>8 DEF Save, SessionInv
    <2> QED
      BY <2>1
  <1>9. CASE Crash
    <2>1. pc' = "idle" /\ request' = "none" /\ UNCHANGED <<bought, file>>
      BY <1>9 DEF Crash
    <2>2. CASE request = "accepted" \/ pc = "save"
      <3>1. lost'.tickers = lost.tickers \cup {order.ticker}
        BY <1>9, <2>2, LoseFacts, UnderWay DEF Crash
      <3> QED
        BY <2>1, <2>2, <3>1
    <2>3. CASE ~(request = "accepted" \/ pc = "save")
      <3>1. lost' = lost
        BY <1>9, <2>3 DEF Crash
      <3> QED
        BY <2>1, <2>3, <3>1
    <2> QED
      BY <2>2, <2>3
  <1>10. CASE UNCHANGED vars
    BY <1>10 DEF vars
  <1> QED
    BY <1>1, <1>2, <1>3, <1>4, <1>5, <1>6, <1>7, <1>8, <1>9, <1>10 DEF Next

(* The whole inductive invariant is kept: a ticker once in the file is not *)
(* ordered again, and an amount is never above what the cap leaves.        *)
LEMMA WeatherStep == WeatherIInv /\ [Next]_vars => WeatherIInv'
  BY WeatherTypeStep, WeatherCapStep, WeatherPaidStep, WeatherBoughtStep DEF WeatherIInv

(* The variables keep their types: above all, the contracts and the cost   *)
(* of an order are natural numbers for every book and amount.              *)
THEOREM SessionTypes == Spec => []TypeOK
  <1>1. WeatherIInv => TypeOK
    BY DEF WeatherIInv
  <1> QED
    BY <1>1, WeatherInitInv, WeatherStep, PTL DEF Spec

(* The session file never counts more than the cap of the session, by more *)
(* than the half dollar of rounding, whatever commands fail or are killed: *)
(* an amount is bounded by what the cap leaves over the file's count.      *)
THEOREM SessionsStayWithinCap == Spec => []SpentWithinCap
  <1>1. WeatherIInv => SpentWithinCap
    BY DEF WeatherIInv, CapInv, SpentWithinCap
  <1> QED
    BY <1>1, WeatherInitInv, WeatherStep, PTL DEF Spec

(* What the YES orders of all runs cost is counted by the session file,    *)
(* but for the order under way and the orders whose command was lost.      *)
THEOREM YesOrdersAreCounted == Spec => []YesIsCounted
  <1>1. WeatherIInv => YesIsCounted
    BY DEF WeatherIInv, PaidInv
  <1> QED
    BY <1>1, WeatherInitInv, WeatherStep, PTL DEF Spec

(* A session buys a ticker once over all its runs, unless an accepted      *)
(* order of it was lost with its command or its save.                      *)
THEOREM TickersAreBoughtOnce == Spec => []BoughtOnce
  <1>1. WeatherIInv => BoughtOnce
    BY DEF WeatherIInv, BoughtInv
  <1> QED
    BY <1>1, WeatherInitInv, WeatherStep, PTL DEF Spec

---------------------------------------------------------------------------
(* The session file and the budget.                                        *)

\* Rounding keeps the order of amounts.
LEMMA RoundDollarsRises ==
  ASSUME NEW c \in Nat, NEW d \in Nat, c <= d
  PROVE  RoundDollars(c) <= RoundDollars(d)
  <1> DEFINE q == c \div 100
             r == c % 100
             p == d \div 100
             s == d % 100
  <1>1. q \in Nat /\ r \in 0 .. 99 /\ c = 100 * q + r
    OBVIOUS
  <1>2. p \in Nat /\ s \in 0 .. 99 /\ d = 100 * p + s
    OBVIOUS
  <1>3. RoundDollars(c) = 100 * (IF r > 50 \/ (r = 50 /\ q % 2 = 1) THEN q + 1 ELSE q)
    BY DEF RoundDollars
  <1>4. RoundDollars(d) = 100 * (IF s > 50 \/ (s = 50 /\ p % 2 = 1) THEN p + 1 ELSE p)
    BY DEF RoundDollars
  <1> HIDE DEF q, r, p, s
  <1>5. q < p \/ (q = p /\ r <= s)
    BY <1>1, <1>2
  <1>6. CASE q < p
    BY <1>1, <1>2, <1>3, <1>4, <1>6
  <1>7. CASE q = p /\ r <= s
    BY <1>1, <1>2, <1>3, <1>4, <1>7
  <1> QED
    BY <1>5, <1>6, <1>7

\* No command spends more than the largest amount.
LEMMA AmountIsBounded ==
  ASSUME NEW suggested \in Nat, NEW remaining \in Nat
  PROVE  /\ LargestAmount \in Nat
         /\ Amount(suggested, remaining) <= LargestAmount
  <1> DEFINE least == Least(MaxPerTrade, Least(suggested, remaining))
             most  == Least(MaxPerTrade, Least(MaxPerTrade, MaxPerTrade))
  <1>1. least \in Nat /\ most \in Nat /\ least <= most
    BY MoneyAssumption DEF Least
  <1>2. /\ Amount(suggested, remaining)
             = IF RoundDollars(least) < 100 THEN 100 ELSE RoundDollars(least)
        /\ LargestAmount = IF RoundDollars(most) < 100 THEN 100 ELSE RoundDollars(most)
    BY DEF Amount, LargestAmount
  <1> HIDE DEF least, most
  <1>3. /\ RoundDollars(least) \in Nat /\ RoundDollars(most) \in Nat
        /\ RoundDollars(least) <= RoundDollars(most)
    BY <1>1, RoundDollarsFacts, RoundDollarsRises
  <1> QED
    BY <1>2, <1>3

\* What is about to be counted is new to the file, no larger than allowed,
\* and was decided with a dollar left.
CountableInv ==
  pc \in {"command", "save"} =>
    /\ order.ticker \in Tickers \ file.executed
    /\ order.amount <= LargestAmount
    /\ file.spent + 100 <= SessionCap

LEMMA CountableStep == WeatherIInv /\ CountableInv /\ [Next]_vars => CountableInv'
  <1> SUFFICES ASSUME WeatherIInv, CountableInv, [Next]_vars PROVE CountableInv'
    OBVIOUS
  <1> USE DEF CountableInv
  <1>1. ASSUME NEW t \in Tickers, NEW side \in {"yes", "no"}, NEW s \in Suggested,
               NEW b \in Books, RunCommand(t, side, s, b)
        PROVE CountableInv'
    <2>1. /\ order'.ticker = t /\ order'.amount = Amount(s, SessionCap - spent)
          /\ t \notin executed /\ SessionCap - spent >= 100 /\ pc = "slate"
          /\ UNCHANGED file
      BY <1>1 DEF RunCommand
    <2>2. spent = file.spent /\ executed = file.executed /\ file.spent \in Nat
      BY <2>1 DEF WeatherIInv, SessionInv, TypeOK
    <2>3. s \in Nat /\ SessionCap - spent \in Nat
      BY <2>1, <2>2, MoneyAssumption
    <2>4. Amount(s, SessionCap - spent) <= LargestAmount
      BY <2>3, AmountIsBounded
    <2>5. file.spent + 100 <= SessionCap
      BY <2>1, <2>2, MoneyAssumption
    <2> QED
      BY <2>1, <2>2, <2>4, <2>5
  <1>2. CASE CommandSucceeds \/ Accept \/ Refuse
    BY <1>2 DEF CommandSucceeds, Accept, Refuse
  <1>3. CASE Begin \/ End \/ CommandFails \/ Save \/ Crash
    BY <1>3 DEF Begin, End, CommandFails, Save, Crash
  <1>4. CASE UNCHANGED vars
    BY <1>4 DEF vars
  <1> QED
    BY <1>1, <1>2, <1>3, <1>4 DEF Next

(* The session file implements the budget: only a save changes it, and a   *)
(* save counts one order that was decided on what the file still says.     *)
THEOREM SessionFileImplementsBudget == Spec => SessionFileSpec
  <1>1. Init => SessionFile!Init
    BY DEF Init, SessionFile!Init
  <1>2. WeatherIInv /\ CountableInv /\ [Next]_vars
          => [SessionFile!Next]_<<file.spent, file.executed>>
    <2> SUFFICES ASSUME WeatherIInv, CountableInv, [Next]_vars
                 PROVE  [SessionFile!Next]_<<file.spent, file.executed>>
      OBVIOUS
    <2>1. CASE Save
      <3>1. /\ file'.spent = file.spent + order.amount
            /\ file'.executed = file.executed \cup {order.ticker}
        BY <2>1 DEF Save, WeatherIInv, SessionInv
      <3>2. /\ order.ticker \in Tickers /\ order.ticker \notin file.executed
            /\ order.amount <= LargestAmount /\ file.spent + 100 <= SessionCap
        BY <2>1 DEF Save, CountableInv
      <3>3. order.amount \in Nat /\ file.spent \in Nat /\ SessionCap \in Nat
        BY MoneyAssumption DEF WeatherIInv, TypeOK
      <3>4. LargestAmount \in Nat
        BY <3>3, AmountIsBounded
      <3>5. order.amount \in 0 .. LargestAmount /\ file.spent < SessionCap - 99
        BY <3>2, <3>3, <3>4
      <3>6. SessionFile!Count(order.ticker, order.amount)
        BY <3>1, <3>2, <3>5 DEF SessionFile!Count
      <3> QED
        BY <3>2, <3>5, <3>6 DEF SessionFile!Next
    <2>2. CASE UNCHANGED file
      BY <2>2
    <2>3. Save \/ UNCHANGED file
      BY DEF Next, Begin, End, RunCommand, Accept, Refuse, CommandSucceeds, CommandFails, Crash,
             vars
    <2> QED
      BY <2>1, <2>2, <2>3
  <1>3. Init => CountableInv
    BY DEF Init, CountableInv
  <1> QED
    BY <1>1, <1>2, <1>3, WeatherInitInv, WeatherStep, CountableStep, PTL
       DEF Spec, SessionFileSpec, SessionFile!Spec
===============================================================================
