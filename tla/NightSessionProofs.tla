------------------------ MODULE NightSessionProofs ------------------------
(***************************************************************************)
(* For any tickers, sizes and caps: the night's account stays within its   *)
(* cap, no ticker is bought twice, and the session file implements its     *)
(* budget, up to the orders whose answer or save was lost.                 *)
(***************************************************************************)
EXTENDS NightSession, TLAPS

\* The initial state satisfies the inductive invariant.
LEMMA NightInit == Init => IInv
  <1> USE SizesAssumption, CapsAssumption, NoTickerAssumption
  <1> SUFFICES ASSUME Init PROVE IInv
    OBVIOUS
  <1>1. TypeOK
    <2>1. file \in Session
      BY DEF Init, Session, EmptySession
    <2>2. lost \in Lost
      BY DEF Init, Lost
    <2>3. torn \in BOOLEAN
      BY DEF Init
    <2>4. bought \in [Tickers -> Nat]
      BY DEF Init
    <2>5. size \in 0 .. MaxTrade
      BY DEF Init
    <2> QED
      BY <2>1, <2>2, <2>3, <2>4, <2>5 DEF Init, TypeOK, Pc, Request
  <1>2. FileInv
    BY DEF Init, FileInv, EmptySession
  <1>3. MoneyInv
    BY DEF Init, MoneyInv, InFlight, EmptySession
  <1>4. BoughtInv
    BY DEF Init, BoughtInv, InFlight, EmptySession
  <1>5. RecordedAreCounted
    BY DEF Init, RecordedAreCounted
  <1> QED
    BY <1>1, <1>2, <1>3, <1>4, <1>5 DEF IInv

\* Every step preserves the types.
LEMMA NightTypeStep == TypeOK /\ [Next]_vars => TypeOK'
  <1> USE SizesAssumption, CapsAssumption, NoTickerAssumption
  <1> USE DEF Pc, Request, Session, Lost, LoseOrder
  <1> SUFFICES ASSUME TypeOK, [Next]_vars PROVE TypeOK'
    OBVIOUS
  <1>1. CASE StartCycle
    BY <1>1 DEF TypeOK, StartCycle, accountVars
  <1>2. CASE EndCycle
    BY <1>2 DEF TypeOK, EndCycle, ProcessEnds, accountVars
  <1>3. CASE \E t \in Tickers, d \in Sizes : Attempt(t, d)
    BY <1>3 DEF TypeOK, Attempt, accountVars
  <1>4. CASE Accept
    <2>1. request = "sent" /\ ticker \in Tickers \cup {NoTicker} /\ bought' \in [Tickers -> Nat]
      BY <1>4 DEF TypeOK, Accept
    <2> QED
      BY <1>4, <2>1 DEF TypeOK, Accept
  <1>5. CASE Refuse
    BY <1>5 DEF TypeOK, Refuse, accountVars
  <1>6. CASE OrderPlaced
    BY <1>6 DEF TypeOK, OrderPlaced, accountVars
  <1>7. CASE OrderFails
    BY <1>7 DEF TypeOK, OrderFails
  <1>8. CASE Save
    BY <1>8 DEF TypeOK, Save, accountVars
  <1>9. CASE Record
    BY <1>9 DEF TypeOK, Record, accountVars
  <1>10. CASE Crash
    <2>1. lost' \in Lost
      <3>1. CASE request = "accepted" \/ pc = "save"
        BY <1>10, <3>1 DEF TypeOK, Crash
      <3>2. CASE ~(request = "accepted" \/ pc = "save")
        BY <1>10, <3>2 DEF TypeOK, Crash
      <3> QED
        BY <3>1, <3>2
    <2>2. torn' \in BOOLEAN
      BY <1>10 DEF Crash
    <2>3. size' \in 0 .. MaxTrade /\ ticker' = NoTicker /\ request' = "none" /\ pc' = "idle"
      BY <1>10 DEF Crash, ProcessEnds
    <2> QED
      BY <1>10, <2>1, <2>2, <2>3 DEF TypeOK, Crash, ProcessEnds
  <1>11. CASE UNCHANGED vars
    BY <1>11 DEF TypeOK, vars, processVars, accountVars
  <1> QED
    BY <1>1, <1>2, <1>3, <1>4, <1>5, <1>6, <1>7, <1>8, <1>9, <1>10, <1>11 DEF Next

\* Every step preserves the agreement of memory and file.
LEMMA NightFileStep == TypeOK /\ FileInv /\ [Next]_vars => FileInv'
  <1> USE SizesAssumption, CapsAssumption, NoTickerAssumption
  <1> SUFFICES ASSUME TypeOK, FileInv, [Next]_vars PROVE FileInv'
    OBVIOUS
  <1>1. CASE StartCycle
    BY <1>1 DEF TypeOK, FileInv, StartCycle
  <1>2. CASE EndCycle
    BY <1>2 DEF TypeOK, FileInv, EndCycle, ProcessEnds
  <1>3. CASE \E t \in Tickers, d \in Sizes : Attempt(t, d)
    BY <1>3 DEF TypeOK, FileInv, Attempt, Capped
  <1>4. CASE Accept
    BY <1>4 DEF TypeOK, FileInv, Accept
  <1>5. CASE Refuse
    BY <1>5 DEF TypeOK, FileInv, Refuse
  <1>6. CASE OrderPlaced
    BY <1>6 DEF TypeOK, FileInv, OrderPlaced
  <1>7. CASE OrderFails
    BY <1>7 DEF TypeOK, FileInv, OrderFails
  <1>8. CASE Save
    <2>1. /\ file'.spent = spent /\ file'.trades = trades /\ file'.traded = traded
      BY <1>8 DEF Save
    <2>2. spent < DollarCap + MaxTrade /\ ticker \in traded
      BY <1>8 DEF Save, FileInv, TypeOK, Session
    <2> QED
      BY <1>8, <2>1, <2>2 DEF Save, FileInv
  <1>9. CASE Record
    BY <1>9 DEF TypeOK, FileInv, Record
  <1>10. CASE Crash
    BY <1>10 DEF TypeOK, FileInv, Crash, ProcessEnds
  <1>11. CASE UNCHANGED vars
    BY <1>11 DEF FileInv, vars, processVars
  <1> QED
    BY <1>1, <1>2, <1>3, <1>4, <1>5, <1>6, <1>7, <1>8, <1>9, <1>10, <1>11 DEF Next

\* What LoseOrder does to the two fields of lost.
LEMMA LoseOrderFacts ==
  ASSUME LoseOrder
  PROVE  lost'.dollars = lost.dollars + size /\ lost'.tickers = lost.tickers \cup {ticker}
  BY DEF LoseOrder

\* Every step keeps account of the dollars.
LEMMA NightMoneyStep == TypeOK /\ FileInv /\ MoneyInv /\ [Next]_vars => MoneyInv'
  <1> USE SizesAssumption, CapsAssumption, NoTickerAssumption DEF InFlight
  <1> SUFFICES ASSUME TypeOK, FileInv, MoneyInv, [Next]_vars PROVE MoneyInv'
    OBVIOUS
  <1>0. /\ file.spent \in Int /\ lost.dollars \in Int /\ size \in Int /\ committed \in Int
    BY DEF TypeOK, Session, Lost
  <1>1. CASE StartCycle
    BY <1>0, <1>1 DEF FileInv, MoneyInv, StartCycle, accountVars
  <1>2. CASE EndCycle
    BY <1>0, <1>2 DEF FileInv, MoneyInv, EndCycle, ProcessEnds, accountVars
  <1>3. CASE \E t \in Tickers, d \in Sizes : Attempt(t, d)
    BY <1>0, <1>3 DEF FileInv, MoneyInv, Attempt, accountVars
  <1>4. CASE Accept
    BY <1>0, <1>4 DEF FileInv, MoneyInv, Accept
  <1>5. CASE Refuse
    BY <1>0, <1>5 DEF FileInv, MoneyInv, Refuse, accountVars
  <1>6. CASE OrderPlaced
    BY <1>0, <1>6 DEF FileInv, MoneyInv, OrderPlaced, accountVars
  <1>7. CASE OrderFails
    BY <1>0, <1>7, LoseOrderFacts DEF FileInv, MoneyInv, OrderFails
  <1>8. CASE Save
    <2>1. file'.spent = spent /\ spent = file.spent + size /\ request = "none"
      BY <1>8 DEF FileInv, Save
    <2> QED
      BY <1>0, <1>8, <2>1 DEF MoneyInv, Save, accountVars
  <1>9. CASE Record
    BY <1>0, <1>9 DEF FileInv, MoneyInv, Record, accountVars
  <1>10. CASE Crash
    <2>1. CASE InFlight
      BY <1>0, <1>10, <2>1, LoseOrderFacts DEF MoneyInv, Crash, ProcessEnds
    <2>2. CASE ~InFlight
      BY <1>0, <1>10, <2>2 DEF MoneyInv, Crash, ProcessEnds
    <2> QED
      BY <2>1, <2>2
  <1>11. CASE UNCHANGED vars
    BY <1>11 DEF MoneyInv, vars, processVars, accountVars
  <1> QED
    BY <1>1, <1>2, <1>3, <1>4, <1>5, <1>6, <1>7, <1>8, <1>9, <1>10, <1>11 DEF Next

\* Every step keeps account of the tickers.
LEMMA NightBoughtStep == TypeOK /\ FileInv /\ BoughtInv /\ [Next]_vars => BoughtInv'
  <1> USE NoTickerAssumption DEF InFlight
  <1> SUFFICES ASSUME TypeOK, FileInv, BoughtInv, [Next]_vars PROVE BoughtInv'
    OBVIOUS
  <1>0. bought \in [Tickers -> Nat]
    BY DEF TypeOK
  <1>1. CASE StartCycle
    BY <1>1 DEF FileInv, BoughtInv, StartCycle, accountVars
  <1>2. CASE EndCycle
    BY <1>2 DEF FileInv, BoughtInv, EndCycle, ProcessEnds, accountVars
  <1>3. CASE \E t \in Tickers, d \in Sizes : Attempt(t, d)
    BY <1>3 DEF FileInv, BoughtInv, Attempt, accountVars
  <1>4. CASE Accept
    <2>1. ticker \in Tickers /\ ticker \notin file.traded
      BY <1>4 DEF Accept, TypeOK, FileInv
    <2>2. \A t \in Tickers : bought'[t] = IF t = ticker THEN bought[t] + 1 ELSE bought[t]
      BY <1>0, <1>4, <2>1 DEF Accept
    <2> QED
      BY <1>4, <2>1, <2>2 DEF Accept, BoughtInv, FileInv
  <1>5. CASE Refuse
    BY <1>5 DEF FileInv, BoughtInv, Refuse, accountVars
  <1>6. CASE OrderPlaced
    BY <1>6 DEF FileInv, BoughtInv, OrderPlaced, accountVars
  <1>7. CASE OrderFails
    <2>1. CASE InFlight
      BY <1>7, <2>1, LoseOrderFacts DEF FileInv, BoughtInv, OrderFails
    <2>2. CASE ~InFlight
      BY <1>7, <2>2 DEF FileInv, BoughtInv, OrderFails
    <2> QED
      BY <2>1, <2>2
  <1>8. CASE Save
    <2>1. file'.traded = file.traded \cup {ticker} /\ request = "none"
      BY <1>8 DEF FileInv, Save
    <2> QED
      BY <1>8, <2>1 DEF BoughtInv, Save, accountVars
  <1>9. CASE Record
    BY <1>9 DEF FileInv, BoughtInv, Record, accountVars
  <1>10. CASE Crash
    <2>1. CASE InFlight
      BY <1>10, <2>1, LoseOrderFacts DEF BoughtInv, Crash, ProcessEnds
    <2>2. CASE ~InFlight
      BY <1>10, <2>2 DEF BoughtInv, Crash, ProcessEnds
    <2> QED
      BY <2>1, <2>2
  <1>11. CASE UNCHANGED vars
    BY <1>11 DEF BoughtInv, vars, processVars, accountVars
  <1> QED
    BY <1>1, <1>2, <1>3, <1>4, <1>5, <1>6, <1>7, <1>8, <1>9, <1>10, <1>11 DEF Next

\* Every step keeps the recorded tickers among the counted ones.
LEMMA NightRecordedStep ==
  FileInv /\ RecordedAreCounted /\ [Next]_vars => RecordedAreCounted'
  <1> SUFFICES ASSUME FileInv, RecordedAreCounted, [Next]_vars PROVE RecordedAreCounted'
    OBVIOUS
  <1> USE DEF RecordedAreCounted
  <1>1. CASE Save
    <2>1. file'.traded = file.traded \cup {ticker}
      BY <1>1 DEF FileInv, Save
    <2> QED
      BY <1>1, <2>1 DEF Save
  <1>2. CASE Record
    BY <1>2 DEF FileInv, Record
  <1>3. CASE ~Save /\ ~Record
    <2>1. UNCHANGED <<file, recorded>>
      BY <1>3 DEF Next, StartCycle, EndCycle, Attempt, Accept, Refuse, OrderPlaced,
                  OrderFails, Crash, vars
    <2> QED
      BY <2>1
  <1> QED
    BY <1>1, <1>2, <1>3

(* The inductive invariant holds in every reachable state.                 *)
THEOREM NightInvariant == Spec => []IInv
  <1>1. IInv /\ [Next]_vars => IInv'
    BY NightTypeStep, NightFileStep, NightMoneyStep, NightBoughtStep, NightRecordedStep
       DEF IInv
  <1> QED
    BY <1>1, NightInit, PTL DEF Spec

(* The account stays below the dollar cap plus one trade: spending was     *)
(* below the cap when the last counted trade was decided.                  *)
THEOREM AccountStaysWithinCap == Spec => []AccountWithinCap
  <1>1. IInv => AccountWithinCap
    <2> SUFFICES ASSUME IInv PROVE AccountWithinCap
      OBVIOUS
    <2> USE SizesAssumption, CapsAssumption DEF IInv
    <2>1. /\ file.spent \in Int /\ lost.dollars \in Int /\ committed \in Int
          /\ size \in Int /\ size <= MaxTrade /\ 0 <= MaxTrade
      BY DEF TypeOK, Session, Lost
    <2>2. CASE InFlight
      <3>1. file.spent < DollarCap
        BY <2>2 DEF InFlight, FileInv
      <3> QED
        BY <2>1, <2>2, <3>1 DEF MoneyInv, AccountWithinCap
    <2>3. CASE ~InFlight
      BY <2>1, <2>3 DEF MoneyInv, FileInv, AccountWithinCap
    <2> QED
      BY <2>2, <2>3
  <1> QED
    BY <1>1, NightInvariant, PTL

(* No ticker is bought twice in a night, unless an accepted order of it    *)
(* was lost to the session.                                                *)
THEOREM TickersAreBoughtOnce == Spec => []BoughtOnce
  <1>1. IInv => BoughtOnce
    BY DEF IInv, BoughtInv, BoughtOnce
  <1> QED
    BY <1>1, NightInvariant, PTL

(* Recommendations recorded as executed are counted by the session file.   *)
THEOREM RecordedTickersAreCounted == Spec => []RecordedAreCounted
  <1>1. IInv => RecordedAreCounted
    BY DEF IInv
  <1> QED
    BY <1>1, NightInvariant, PTL

(* The session file implements SessionBudget.                              *)
THEOREM FileImplementsBudget == Spec => BudgetSpec
  <1>1. Init => Budget!Init
    BY DEF Init, EmptySession, Budget!Init
  <1>2. IInv /\ [Next]_vars => [Budget!Next]_<<file.spent, file.traded>>
    <2> SUFFICES ASSUME IInv, [Next]_vars PROVE [Budget!Next]_<<file.spent, file.traded>>
      OBVIOUS
    <2>1. CASE Save
      <3>1. Budget!Count(ticker, size)
        BY <2>1 DEF Save, IInv, FileInv, Budget!Count
      <3>2. ticker \in Tickers /\ size \in 0 .. MaxTrade
        BY <2>1 DEF Save, IInv, TypeOK
      <3> QED
        BY <3>1, <3>2 DEF Budget!Next
    <2>2. CASE ~Save
      BY <2>2 DEF Next, StartCycle, EndCycle, Attempt, Accept, Refuse, OrderPlaced,
                  OrderFails, Record, Crash, vars
    <2> QED
      BY <2>1, <2>2
  <1> QED
    BY <1>1, <1>2, NightInvariant, PTL DEF Spec, BudgetSpec, Budget!Spec
=============================================================================
