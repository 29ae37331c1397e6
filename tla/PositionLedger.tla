--------------------------- MODULE PositionLedger ---------------------------
(***************************************************************************)
(* The signals, trades and positions tables of Supabase, as the functions  *)
(* of kalshi_trader/db.py write them.  A request is one atomic statement;  *)
(* a function of several requests can be interleaved with any other and    *)
(* can die between two of them.                                            *)
(*                                                                         *)
(* Calls of close_position are the members of Closers, calls of the mark   *)
(* command's resolution (scripts/paper_track.py) the members of Resolvers. *)
(* Prices, sizes and timestamps are left out; of a row's payload remains   *)
(* which call wrote it.                                                    *)
(***************************************************************************)
EXTENDS Naturals, FiniteSets

CONSTANTS
  LTrades,      \* bound: rows of trades
  LTickers,
  LSignals,     \* bound: rows of signals
  LSources,
  Closers,      \* bound: calls of close_position
  Resolvers,    \* bound: resolutions by the mark command
  LNone

ASSUME LedgerNoneAssumption ==
  LNone \notin LTrades \cup LTickers \cup LSources \cup Closers

VARIABLES
  tradeTicker,  \* [LTrades -> LTickers]; LNone while the row does not exist
  exitOf,       \* [LTrades -> Closers]: the call whose exit the trade records
  position,     \* [LTrades -> Position]: the position a trade opened
  closedWith,   \* [LTrades -> Closers]: the call whose data closed the position
  closerAt,     \* [Closers -> CloserStep]
  closerRow,    \* [Closers -> LTrades]: the row close_position selected
  byOrder,      \* [Closers -> BOOLEAN]: closing_trade_id is an exchange order id
  signal,       \* [LSignals -> LTickers \X LSources]; LNone before the insert
  linked,       \* [LSignals -> LTrades]: trade_id
  scoredSig,    \* signals with market_resolved_yes and brier_score
  resolverAt,   \* [Resolvers -> ResolverStep]
  resolving,    \* [Resolvers -> LTickers]
  unscored,     \* [Resolvers -> SUBSET LSignals]: rows selected and not updated
  late          \* history: signals inserted after a resolution of their ticker
                \* had begun, and those a resolution gave up

tradeVars  == <<tradeTicker, exitOf, position, closedWith, closerAt, closerRow, byOrder>>
signalVars == <<signal, linked, scoredSig, resolverAt, resolving, unscored, late>>
ledgerVars == <<tradeVars, signalVars>>

LPosition    == {"none", "open", "closed"}
CloserStep   == {"idle", "found", "won", "died", "over"}
ResolverStep == {"idle", "select", "update", "over"}

LedgerTypeOK ==
  /\ tradeTicker \in [LTrades -> LTickers \cup {LNone}]
  /\ exitOf \in [LTrades -> Closers \cup {LNone}]
  /\ position \in [LTrades -> LPosition]
  /\ closedWith \in [LTrades -> Closers \cup {LNone}]
  /\ closerAt \in [Closers -> CloserStep]
  /\ closerRow \in [Closers -> LTrades \cup {LNone}]
  /\ byOrder \in [Closers -> BOOLEAN]
  /\ signal \in [LSignals -> (LTickers \X LSources) \cup {LNone}]
  /\ linked \in [LSignals -> LTrades \cup {LNone}]
  /\ scoredSig \subseteq LSignals
  /\ resolverAt \in [Resolvers -> ResolverStep]
  /\ resolving \in [Resolvers -> LTickers \cup {LNone}]
  /\ unscored \in [Resolvers -> SUBSET LSignals]
  /\ late \subseteq LSignals

LedgerInit ==
  /\ tradeTicker = [k \in LTrades |-> LNone]
  /\ exitOf = [k \in LTrades |-> LNone]
  /\ position = [k \in LTrades |-> "none"]
  /\ closedWith = [k \in LTrades |-> LNone]
  /\ closerAt = [c \in Closers |-> "idle"]
  /\ closerRow = [c \in Closers |-> LNone]
  /\ byOrder = [c \in Closers |-> FALSE]
  /\ signal = [s \in LSignals |-> LNone]
  /\ linked = [s \in LSignals |-> LNone]
  /\ scoredSig = {}
  /\ resolverAt = [p \in Resolvers |-> "idle"]
  /\ resolving = [p \in Resolvers |-> LNone]
  /\ unscored = [p \in Resolvers |-> {}]
  /\ late = {}

---------------------------------------------------------------------------
(* Trades and positions.                                                   *)

Exists(k) == tradeTicker[k] # LNone
OpenOf(t) == {k \in LTrades : tradeTicker[k] = t /\ position[k] = "open"}

InsertTrade(k, t) ==
  /\ ~Exists(k)
  /\ tradeTicker' = [tradeTicker EXCEPT ![k] = t]
  /\ UNCHANGED <<exitOf, position, closedWith, closerAt, closerRow, byOrder, signalVars>>

(* The unique index on the open positions of a ticker refuses a second.    *)
OpenPosition(k) ==
  /\ Exists(k)
  /\ position[k] = "none"
  /\ OpenOf(tradeTicker[k]) = {}
  /\ position' = [position EXCEPT ![k] = "open"]
  /\ UNCHANGED <<tradeTicker, exitOf, closedWith, closerAt, closerRow, byOrder, signalVars>>

(* close_position selects the open row of its ticker.  The exit monitor    *)
(* passes the id of its exchange order as closing_trade_id.                *)
CloseSelect(c, t, order) ==
  /\ closerAt[c] = "idle"
  /\ byOrder' = [byOrder EXCEPT ![c] = order]
  /\ \/ /\ OpenOf(t) = {}
        /\ closerAt' = [closerAt EXCEPT ![c] = "over"]
        /\ UNCHANGED closerRow
     \/ \E k \in OpenOf(t) :
          /\ closerAt' = [closerAt EXCEPT ![c] = "found"]
          /\ closerRow' = [closerRow EXCEPT ![c] = k]
  /\ UNCHANGED <<tradeTicker, exitOf, position, closedWith, signalVars>>

\* Mutant: the update has lost its filter on closed_at.
BugCloseUpdate(c) ==
  LET k == closerRow[c] IN
  /\ closerAt[c] = "found"
  /\ position' = [position EXCEPT ![k] = "closed"]
  /\ closedWith' = [closedWith EXCEPT ![k] = c]
  /\ closerAt' = [closerAt EXCEPT ![c] = "won"]
  /\ UNCHANGED <<tradeTicker, exitOf, closerRow, byOrder, signalVars>>

(* The update is filtered on closed_at: of two calls that selected the row *)
(* the second gets no data back and returns.  An order id is no row of     *)
(* trades: the foreign key makes the update raise.                         *)
CloseUpdate(c) ==
  LET k == closerRow[c] IN
  /\ closerAt[c] = "found"
  /\ \/ /\ position[k] = "open" /\ ~byOrder[c]
        /\ position' = [position EXCEPT ![k] = "closed"]
        /\ closedWith' = [closedWith EXCEPT ![k] = c]
        /\ closerAt' = [closerAt EXCEPT ![c] = "won"]
     \/ /\ position[k] # "open" \/ byOrder[c]
        /\ closerAt' = [closerAt EXCEPT ![c] = "over"]
        /\ UNCHANGED <<position, closedWith>>
  /\ UNCHANGED <<tradeTicker, exitOf, closerRow, byOrder, signalVars>>

(* close_trade, a second request, on the opening trade.                    *)
CloseTrade(c) ==
  /\ closerAt[c] = "won"
  /\ exitOf' = [exitOf EXCEPT ![closerRow[c]] = c]
  /\ closerAt' = [closerAt EXCEPT ![c] = "over"]
  /\ UNCHANGED <<tradeTicker, position, closedWith, closerRow, byOrder, signalVars>>

(* A request raises, or the process ends, before the trade is updated.     *)
CloseDies(c) ==
  /\ closerAt[c] \in {"found", "won"}
  /\ closerAt' = [closerAt EXCEPT ![c] = IF @ = "won" THEN "died" ELSE "over"]
  /\ UNCHANGED <<tradeTicker, exitOf, position, closedWith, closerRow, byOrder, signalVars>>

---------------------------------------------------------------------------
(* Signals.                                                                *)

SignalsOf(t) == {s \in LSignals : signal[s] # LNone /\ signal[s][1] = t}

\* A resolution of the ticker has read its signals, or failed before it did.
ResolutionBegun(t) ==
  \E p \in Resolvers : resolving[p] = t /\ resolverAt[p] \in {"update", "over"}

InsertSignal(s, t, source) ==
  /\ signal[s] = LNone
  /\ signal' = [signal EXCEPT ![s] = <<t, source>>]
  /\ late' = IF ResolutionBegun(t) THEN late \cup {s} ELSE late
  /\ UNCHANGED <<tradeVars, linked, scoredSig, resolverAt, resolving, unscored>>

\* No two of the trade's signals have one source.
OneSource(sigs) == \A s, u \in sigs : signal[s][2] = signal[u][2] => s = u

(* One statement: the unique index on (trade_id, source) refuses the whole *)
(* batch or none of it.                                                    *)
LinkSignals(batch, k) ==
  /\ Exists(k)
  /\ batch # {}
  /\ batch \subseteq SignalsOf(tradeTicker[k])
  /\ OneSource(batch \cup {s \in LSignals : linked[s] = k})
  /\ linked' = [s \in LSignals |-> IF s \in batch THEN k ELSE linked[s]]
  /\ UNCHANGED <<tradeVars, signal, scoredSig, resolverAt, resolving, unscored, late>>

(* The mark command finds a market settled: resolve_recommendation first,  *)
(* then resolve_market, in one try.                                        *)
ResolveBegin(p, t) ==
  /\ resolverAt[p] = "idle"
  /\ resolverAt' = [resolverAt EXCEPT ![p] = "select"]
  /\ resolving' = [resolving EXCEPT ![p] = t]
  /\ UNCHANGED <<tradeVars, signal, linked, scoredSig, unscored, late>>

\* Mutant: only the signals that led to a trade are selected.
BugResolveSelect(p) ==
  /\ resolverAt[p] = "select"
  /\ unscored' = [unscored EXCEPT ![p] =
       {s \in SignalsOf(resolving[p]) \ scoredSig : linked[s] # LNone}]
  /\ resolverAt' = [resolverAt EXCEPT ![p] = "update"]
  /\ UNCHANGED <<tradeVars, signal, linked, scoredSig, resolving, late>>

(* resolve_market selects the ticker's signals with no outcome ...         *)
ResolveSelect(p) ==
  /\ resolverAt[p] = "select"
  /\ unscored' = [unscored EXCEPT ![p] = SignalsOf(resolving[p]) \ scoredSig]
  /\ resolverAt' = [resolverAt EXCEPT ![p] = "update"]
  /\ UNCHANGED <<tradeVars, signal, linked, scoredSig, resolving, late>>

(* ... and updates them one request at a time.                             *)
ResolveUpdate(p) ==
  /\ resolverAt[p] = "update"
  /\ \E s \in unscored[p] :
       /\ scoredSig' = scoredSig \cup {s}
       /\ unscored' = [unscored EXCEPT ![p] = @ \ {s}]
  /\ UNCHANGED <<tradeVars, signal, linked, resolverAt, resolving, late>>

ResolveEnd(p) ==
  /\ resolverAt[p] = "update"
  /\ unscored[p] = {}
  /\ resolverAt' = [resolverAt EXCEPT ![p] = "over"]
  /\ UNCHANGED <<tradeVars, signal, linked, scoredSig, resolving, unscored, late>>

(* A request raises: the rest is skipped, and as the recommendation is     *)
(* closed by then no later pass comes back to it.                          *)
ResolveFails(p) ==
  /\ resolverAt[p] \in {"select", "update"}
  /\ late' = late \cup (SignalsOf(resolving[p]) \ scoredSig)
  /\ resolverAt' = [resolverAt EXCEPT ![p] = "over"]
  /\ unscored' = [unscored EXCEPT ![p] = {}]
  /\ UNCHANGED <<tradeVars, signal, linked, scoredSig, resolving>>

---------------------------------------------------------------------------

LedgerNext ==
  \/ \E k \in LTrades, t \in LTickers : InsertTrade(k, t)
  \/ \E k \in LTrades : OpenPosition(k)
  \/ \E c \in Closers, t \in LTickers, order \in BOOLEAN : CloseSelect(c, t, order)
  \/ \E c \in Closers : CloseUpdate(c)
  \/ \E c \in Closers : CloseTrade(c)
  \/ \E c \in Closers : CloseDies(c)
  \/ \E s \in LSignals, t \in LTickers, source \in LSources : InsertSignal(s, t, source)
  \/ \E batch \in SUBSET LSignals, k \in LTrades : LinkSignals(batch, k)
  \/ \E p \in Resolvers, t \in LTickers : ResolveBegin(p, t)
  \/ \E p \in Resolvers : ResolveSelect(p)
  \/ \E p \in Resolvers : ResolveUpdate(p)
  \/ \E p \in Resolvers : ResolveEnd(p)
  \/ \E p \in Resolvers : ResolveFails(p)

LedgerSpec == LedgerInit /\ [][LedgerNext]_ledgerVars

---------------------------------------------------------------------------

(* However many calls close one position, the exit a trade records is the  *)
(* exit of the call that closed its position (close_position's filter on   *)
(* closed_at); and a closed position whose trade shows no exit is in the   *)
(* hands of a call between its two updates, or of one that died there:     *)
(* nothing else loses the exit of a trade, and nothing repairs it.         *)
ExitMatchesPosition ==
  \A k \in LTrades :
    \/ exitOf[k] = closedWith[k]
    \/ /\ exitOf[k] = LNone
       /\ \E c \in Closers : /\ closedWith[k] = c
                            /\ closerRow[c] = k
                            /\ closerAt[c] \in {"won", "died"}

(* When the resolutions of a market have run, the signals without outcome  *)
(* are those that came after a resolution had read the table, and those of *)
(* a resolution that failed.                                               *)
ResolvedMarketsAreScored ==
  \A p \in Resolvers : resolverAt[p] = "over" =>
    SignalsOf(resolving[p]) \subseteq scoredSig \cup late
=============================================================================
