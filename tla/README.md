# A verification project for the Kalshi trading programs

The repository holds a family of Python programs that trade event contracts on
the Kalshi exchange: scanners and agents that find ideas, programs that buy
them within a budget, programs that sell positions again, stores that record
what happened, and a dashboard.  None of them shares memory with another; they
meet at the exchange, in Supabase, and in JSON and JSONL files.  The hard part
of the system is therefore the same everywhere: a program reads some state,
awaits, and acts on what it read, while another program, the exchange, or its
own restarted self has moved on.

This directory models that part in TLA+, checks it with TLC on small
instances, and proves the main safety properties with TLAPS for every value of
the constants.

## 1. Inventory

| Part | State it keeps | Operations | Meets others at |
|---|---|---|---|
| Exit monitor `scripts/exit_monitor.py` | in memory: `position_metadata`, `pending_exits`, `new_this_cycle`, books, `ws_task` | refresh (30 s), pass over positions, sell, restart feed | exchange (REST, WebSocket), position ledger |
| Portfolio evaluator `scripts/evaluate_portfolio.py`, `portfolio_loop.sh` | nothing between passes | read positions, prices and resting orders, sell | exchange |
| Stale sweep `scripts/cancel_stale_orders.py` | nothing | cancel resting orders older than a threshold | exchange |
| Kalshi client `kalshi_trader/client.py`, `_retry.py` | none but the HTTP session | create, cancel, list orders; positions; six attempts on 429 | exchange |
| Feed `external/kalshi_ws.py`, `orderbook.py` | one order book per ticker | snapshot, delta, reconnect | exchange |
| Night execution `scripts/night_execute.py` | session file: dollars, trades, tickers | cycle: load, filter, buy, save, record | exchange, session file, paper store, ledger |
| Weather execution `scripts/auto_execute_weather.py` | session file: dollars, executed tickers | slate: load, filter, run the order command, save | session file, order command |
| Order command `scripts/place_order.py`, `exit_position.py` | none | price, size, place; cancel and replace; close one position | exchange |
| Slate `run_risk.py`, `execute_slate.py`, `executor.py`, limits `risk.py`, `config.py` | the approved slate, in a file | check a batch of ideas, buy a slate | exchange |
| Position ledger `db.py` | Supabase tables trades, positions, signals | open, close, link, resolve | Supabase |
| Paper store `paper.py`, `paper_track.py` | two JSONL files | record, mark, close, settle | files |
| Dashboard `ui/server.py`, `ui/state.py`, `ui/pnl_analytics.py` | ideas, positions, fills in memory | poll the account and the fills, approve or reject an idea, P&L tab | exchange, agents, Supabase |
| Runtime configuration `ui/config_manager.py`, `update_config.py` | `runtime_config.json` | load, validate and update | file |
| Board `fetch_markets.py`, `load_markets_to_supabase.py`, scanner `scanner.py` | checkpoint and market files, table `markets` | sweep, resume, load; price, score, shortlist | exchange, files, Supabase |
| Actionability `actionability/` | SQLite candle cache | refresh what is stale, score, enrich | exchange, SQLite |
| Mentions `mentions/`, `refresh_mentions_archive.py` | SQLite archive of transcripts | refresh, upsert, prune, count | feeds, SQLite |
| Signals `signals/`, agents, `score_signals.py` | none | estimates of a market; combination into a verdict | outside services |
| Studies `mentions_backtest.py`, `premise_backtest.py`, `weather_scan.py` | none | replay what settled, scan today | archives, outside services |
| Consensus, external clients, reports | none | stateless scoring, I/O, reporting | outside services |

What makes each part correct, and what is hard about it:

* **Exit programs.** A position must be sold when its check fires, once, and
  never for more than is held: an exchange that nets positions turns an
  oversold YES position into a NO position.  Hard: the positions and the
  resting orders are two requests at different times; an order fills in parts;
  the answer of `create_order` can be lost; the monitor's memory of what it
  sold is lost on a restart; two exit programs and the stale sweep work on one
  account; the feed can die under the checks.
* **Buying programs.** Caps per cycle and per night, and one buy per ticker,
  are kept by a file across processes.  Hard: an order and the file are two
  steps with a crash in between; the file is truncated before it is written;
  an order that raises may have been accepted; an amount of money is turned
  into contracts by somebody else's arithmetic.
* **Ledger and stores.** A position is open once per ticker; what is closed
  has a closing trade; what was appended is not lost.  Hard: two requests per
  logical update, no transaction, a rewrite of a file others append to.
* **Dashboard and configuration.** An idea is executed at most once and not
  lost; an update keeps every valid value.  Hard: state is read before an
  await and used after it; read, modify and write of one file by two programs.
* **Feed.** The book equals the exchange's after a snapshot and every delta.
  Hard: reconnects, a snapshot by REST racing the stream.
* **Slates and order commands.** The limits hold of the account, and an order
  that replaces others does not oversell.  Hard: the review, the slate and the
  execution are separate runs of separate programs; several requests with the
  exchange between them.
* **Board, cache and archive.** What is marked as fetched is there, and is what
  the exchange or the feed had.  Hard: resumes from checkpoints that are old, two
  refreshers of one file, answers that are empty because a request failed, a
  mark and the rows behind it in two commits.
* **Estimates and studies.** Two modules that compute one quantity agree; an
  observation decides what it decides; a replay sees nothing of what it
  predicts.  Hard: units, bounds and one-sided data; clocks of three time zones.

`PROJECT.json` lists every hazard with its line and the property that covers
it, or why none does yet.

## 2. Modules

```
Exchange ---- ExitMonitor ------ MCExitMonitor
   |                \
   |                 ExitSystem - MCExitSystem      (ExitProofs: of both programs)
   |                /
   +----- PortfolioEvaluator --- MCPortfolioEvaluator

SessionBudget <= NightSession -- MCNightSession, NightSessionProofs
SessionBudget <= WeatherSession - MCWeatherSession, WeatherSessionProofs
OrderPricing ------+
PaperStore ------ MCPaperStore, PaperStoreProofs

SignalScoring, RuntimeConfig, IdeaReview,         DecisionProofs   -.
RiskLimits, OrderCommand, PositionLedger,                           |
AccountView, PnlAnalytics, PriceStudy, TeaserStudy                  |
CandleCache, OrderBookFeed, MarketScan,           MarketDataProofs -+
MarketCatalog, MentionsArchive, WeatherSignals,                     |
MentionsStudies, MarketSignals                                      |
      all of these ----> Desk --- MCDesk,         DeskProofs <------'
Reductions (sums, selections, joins)              ReductionFacts
```

(`<=` is "is implemented by".)

### Exchange
The account as the exit programs see it through `client.py`.  `held` is
`position_fp`, signed; `orders` is a table of sell-order slots, each with the
state of the order at the exchange and whether the HTTP request that made it is
still open at the client; `market` is what the exit checks say of the
exchange's book.  `SendSell`, `CloseRequest` are the two halves of
`create_order`; `Land`, `Refuse`, `Fill` are the exchange's own steps (external
code: modelled from how the scripts use the answers); `CancelStale` is the
stale sweep; `Enter` is any buyer; `MarketMoves` is the market.  An order has
its own life after its request: it may land, fill in parts or be refused while
the client waits, after it has given up, or after it has died.

### ExitMonitor
The coroutine `run()` of the daemon is one process whose `pc` names the await
it is at.  `_refresh()` is `ReadPositions`, `ReadOrders`, `RefreshFails`,
`SyncBook(t)` and `Resubscribe`; the loop body is `DetectDeadFeed`,
`SkipTicker(t)`, `TriggerExit(t)`, `OrderPlaced`, `OrderRaises` and
`NextIteration`.  `position_metadata`, `pending_exits`, `new_this_cycle`,
`subscribed_tickers` and `ws_task` are `meta`, `pending`, `fresh`,
`subscribed` and `ws`.  The WebSocket task is `FeedDelivers(t)` and
`FeedDies`.  `Crash` loses every local and leaves the orders at the exchange,
among them one that was sent and has not landed.  The first refresh is outside
the `try` of the loop, so its failure ends the process; a later one is logged.

The verdict of `EXIT_CHECKS` on a book is one of "hold" and "exit", "unpriced"
for an empty book: which check fired decides the limit price only.

`ambiguous` is a history variable: the tickers for which a request was given up
(the client raised or died) when the exchange had, or might still have, the
order.

### PortfolioEvaluator
One pass of `evaluate_portfolio.py` and the loop that runs it for ever.
Positions are read first, then prices and resting orders concurrently
(`asyncio.gather`), so `EvReadPrices` and `EvReadOrders` come in either order.
A pass may die anywhere (`EvDies`) and the next starts from nothing.  `givenUp`
is the counterpart of `ambiguous`; `raced` records the tickers of which an
order filled between a pass's two reads.

### ExitSystem
Both exit programs on one account.  It extends the monitor and instantiates
the evaluator over the same `held`, `orders` and `market`.

### SessionBudget, NightSession
`SessionBudget` is what a session file promises: it counts trades, each of a new
ticker and of at most `MaxTrade`, and only while less than `DollarCap` is spent.  `NightSession` is `run()` of `night_execute.py`, one
process per cycle: `StartCycle` (`_load_session`, which raises on a torn file),
`EndCycle`, `Attempt` (caps, duplicate guard, create_order sent), `OrderPlaced`,
`OrderFails`, `Save`, `Record`, and `Crash` at any point, with a torn file when
it falls into `write_text`.  `Budget == INSTANCE SessionBudget WITH spent <-
file.spent, traded <- file.traded` is the refinement.  `lost` is a history
variable: the accepted orders no session will count.

### OrderPricing, WeatherSession
`OrderPricing` is the arithmetic of `place_order.py`: `compute_limit_price`
(`LimitPrice`) and the contracts an amount buys (`Contracts`), in cents.  It has
no state and no recursion.  `WeatherSession` is `auto_execute_weather.py` over
it: `Begin`, `End`, `RunCommand` (duplicate guard, remaining cap, `Amount`,
then the command prices, sizes and sends the order), `CommandSucceeds`,
`CommandFails`, `Save`, `Crash`.

### PaperStore
`recommendations.jsonl`, `marks.jsonl` and the recommendations table that
mirrors the first, between the processes that share them.  The scorer
(`record-scored`) is `ScoreStart` (it reads what is open), `Score`,
`ScoreSkip`, `ScoreEnd`, `ScoreDies`; other programs append with `Record`; each
marking pass is a process: `PassStart`, `Fetch` or `FetchFails`, `AppendMark`,
then `close_recommendation` in its three steps `ReadRows`, `Truncate`,
`WriteBack`, and `ResolveRemote`.  A pass that dies between `Truncate` and
`WriteBack` leaves a part of the rows.  `Mirror` and `SharedResolve` are the upsert and the pass
over Supabase.  `exposed` is a history variable: the recommendations that fell
into somebody else's rewrite, or that two passes had before them at once.

### PositionLedger
`db.py` request by request: `InsertTrade` and `OpenPosition`, `close_position`
as `CloseSelect`, `CloseUpdate` (its filter on `closed_at`), `CloseTrade` and
`CloseDies` between the two, the signals with their links, and the resolution
of a market by `paper_track.py mark`, which selects the unscored signals and
then updates them one by one.  `late` is a history variable: the signals
inserted after a resolution of their market began, and those it gave up.

### AccountView, IdeaReview, PnlAnalytics, RuntimeConfig
The dashboard.  `AccountView` has the two background tasks that rebuild the
open and the closed positions, each with its awaits, beside an exchange that
goes on trading and `POST /api/state`.  `IdeaReview` has the lists of ideas,
the handlers of approve and reject cut at their awaits, `POST /api/state`,
which may replace both lists, and a restart.  `PnlAnalytics` is the arithmetic
of the P&L tab, on histories that grow by a fill or a trade row.
`RuntimeConfig` is `runtime_config.json` between the server's `ConfigManager`,
`update_config.py` and the pipeline's own manager, with a crash inside each
`write_text`.

### RiskLimits, OrderCommand
`RiskLimits` follows a batch of ideas through `run_risk.py` (the Kelly stake
clamped to the four limits, against the positions read at its start), the slate
it leaves, and `execute_slate.py`, which looks at no limit again; `overtaken`
is a history variable: the slates that another one was executed before.
`OrderCommand` is `place_order.py` selling a position: price, quantity, the
cancels one at a time, the new order, with fills and other programs between.

### OrderBookFeed
One ticker's book: the exchange's, the messages under way, the client's, and
the REST answer that `_refresh()` awaits while the stream goes on.
`overwritten` is a history variable: the levels such an answer set back.

### MarketCatalog, MarketScan
`MarketCatalog` is the sweep of the board with its checkpoints, `--resume`,
`--limit` and `--enrich-only`, and the load of its file in batches.
`MarketScan` is `run_scan`: which of the four rounds of requests a price of the
result was read in, and what `degraded` says of it.

### CandleCache, MentionsArchive
Two SQLite files shared by programs.  `CandleCache` has the stale tickers asked
for at once, answers that fail or are empty, and the transaction that stores
candles and marks.  `MentionsArchive` has the upsert that keeps the longer text,
the mark that is committed after the rows, pruning, and two refreshers.  In
both, a history variable (`behind`, `logged`) says which request or answer a
mark stands for.

### MarketSignals, SignalScoring, WeatherSignals, MentionsStudies
Pure functions on data that arrive bit by bit.  `MarketSignals` has both
readings of a market's own data: the nine scores and their composite, and the
signed components of the estimates, with the live enrichment between.
`SignalScoring` combines estimates into a side, an edge and a verdict.  It, `PnlAnalytics` and
the studies below add up and select with `Reductions`: sums over the subsets of
a finite set, selections and joins along a sequence, as recursive functions, and
so does `MarketSignals`, whose mean, volumes and weighted scores are such sums.
`WeatherSignals` is a weather event during its day: ensemble, observation, the
lock of the observation, the normal estimate and the scan.  `MentionsStudies`
is the replay of settled markets and the walk over a corpus.

### PriceStudy, TeaserStudy
Two more replays that must not see what they predict.  `PriceStudy` is
`mentions_price_study.py` with `mentions/price_study.py`: each sample of the
backtest is given the price of its market some time before the close
(`SelectAsofPrice`: the last trade, else the middle of the last book), or is
skipped for one of three reasons, and the prices are scored against the
outcomes, as a whole and by bins.  `TeaserStudy` is `love_island_backtest.py`
on `signals/love_island.py`: the settled markets listed page by page and series
by series up to the maximum, the teasers YouTube finds of the day of the
episode, of which any may be missing, and the prediction made of them.

### Desk, MCDesk
These eighteen share no variable with one another.  `Desk` is their
interleaving: a step is a step of one part (`PartMoves`), and the others rest
(`IdleBut`); between two steps of one, the others take any of theirs.
Exploring that product would add no behaviour to any part and multiply their
states, so in `MCDesk` a single part moves, the variable `subject`, and each is
checked over its own full state space.  That this is enough is proved: every
behaviour of `Desk` is one of each part (`DeskRunsEveryPart`).  `DeskTypeOK` and
`NoStudyLooksAhead` speak of all the parts at once.

## 3. What is checked

| Run | Instance | Shows |
|---|---|---|
| `exit_monitor` | 2 tickers (one YES up to 2 contracts, one NO of 1), 2 order slots, buyers and sweep on | `OneExitAtATime`, `ExitsCovered`, the inductive invariant `IInv` (which has the types) |
| `exit_monitor_live` | 1 ticker, 2 slots, no buyers, no sweep | `DistressIsActedOn`, `PendingIsReleased` under `Fairness` |
| `exit_monitor_lost_answer` | 1 ticker | finding: `NoDoubleExit` is violated |
| `exit_monitor_feed_restart` | 1 ticker | finding: `RefreshRestartsFeed` is violated |
| `evaluator` | 2 tickers, 2 slots, sweep and buyers on | `EvTypeOK`, `OneExitAcrossPasses`, `OversellsOnlyInTheWindow` |
| `exit_system` | 1 ticker, both programs | finding: `SellsOnlyWithoutRestingExit` is violated |
| `night_session` | 3 tickers, sizes 1 and 2, dollar cap 4, cycle cap 2 | `AccountWithinCap`, `BoughtOnce`, `RecordedAreCounted`, refinement of `SessionBudget` (`BudgetSpec`) |
| `night_session_double` | 1 ticker | finding: `NoDoubleDown` is violated |
| `weather_session` | 3 tickers, a cheap book (20, 23) and a dear one (60, 61), cap $3.50 | `TypeOK`, `SpentWithinCap`, `YesIsCounted`, `BoughtOnce` |
| `paper_store` | 2 recommendations of 1 ticker, 2 passes, 1 scorer | `TypeOK`, `RecordedSurvive`, `OneOpenPerTicker`, `SettlementIsLatest`, `SharedResolvedIsFinal` |
| `weather_no_side` | the default caps, 1 ticker | finding: `NoTradeOverMax` is violated |
| `desk` | the eighteen modules of `Desk`, each alone | `DeskTypeOK` and the properties of the next table |

What `desk` shows, by module:

| Module | Instance | Property |
|---|---|---|
| `PositionLedger` | 2 trades and 2 signals of one market, 2 calls of `close_position`, 1 resolution | `ExitMatchesPosition`: the exit a trade records is the one that closed its position, or a call died between its two updates. `ResolvedMarketsAreScored`: a resolution leaves no signal out but late ones |
| `AccountView` | 1 ticker, 2 contracts ever bought | `DashboardIsRight`: of a ticker that has stood still since the reads, open and closed are shown as at the exchange, with its fair value |
| `IdeaReview` | 2 ideas, 2 requests, list of 1 | `ReviewedOnce`, `NoIdeaVanishes` |
| `PnlAnalytics` | 4 fills at 2 prices; 3 of 13 kinds of rows | `AnalyticsAreRight`: realized P&L is the cash the fills moved, the drawdown is the worst decline, the breakdowns add up |
| `RuntimeConfig` | 2 keys, 3 values, 1 run of the command | `SettingsAreSound`: a value out of range was put there by hand; the server and the file differ only after another writer |
| `RiskLimits` | 2 reviews of 2 ideas of one category | `ExposureWithinTotal`: the account stays within the total if slates are executed in the order they are made |
| `OrderCommand` | 2 resting orders, 2 contracts | `ReplaceNeverOversells`: the new order rests alone and is covered, unless something filled or was placed meanwhile |
| `OrderBookFeed` | 2 levels of size 1, 3 messages under way | `BookFollowsExchange`, but for levels a REST answer set back |
| `MarketCatalog` | 3 pages, checkpoint every 2, batches of 3 | `WholeBoardIsLoaded` |
| `MarketScan` | 2 markets, shortlist of 2, 1 book | `UndegradedScanIsLive`: no price of the snapshot file in a scan that is not degraded |
| `CandleCache` | 1 market, 2 programs, 3 periods, lookback 1, volume 2 | `MarkedHistoryIsFinished`: a mark has the finished candles behind it |
| `MentionsArchive` | 1 document of day 1, 2 refreshers, 3 days | `RefreshedIsArchived` |
| `MarketSignals` | 3 quotes, 4 candles of 3 kinds, 2 trades, 4 books | `MarketIsReadRight` |
| `SignalScoring` | 3 sources of 2 families, up to 3 estimates, 5 quotes | `ScoringIsSound` |
| `WeatherSignals` | 4 events, 5 readings, 4 hours, 6 thresholds | `WeatherIsReadRight`: a decided strike is priced at its outcome; the strikes are one distribution |
| `MentionsStudies`, `PriceStudy`, `TeaserStudy` | 5 markets, 4 documents, 5 timelines, corpora of 3; 4 samples and 7 answers of candles; 2 series of 3 pages in all, 5 teasers, 2 results per search | `NoStudyLooksAhead`: `NoLookAhead` of the backtests, prices that could be had at the as-of time, teasers of the day up to the close; and the scores of both add up |

**Bounds, and why they are enough.**  Two tickers let a pass be half way
through one when the other moves; a bad interaction of two tickers goes through
`pending`, `fresh`, `todo` and the one awaited request, all of which two tickers
exercise.  Two order slots are enough for a second exit of a ticker beside the
first, which is what the properties exclude; a third order of one ticker would
have to follow a second.  Quantity 2 allows a partial fill.  `OneOfEachSide`
keeps one ticker YES and one NO, so both signs and both roundings of coverage
appear; it also stops at the first ambiguous ticker, of which the safety
properties say nothing, so nothing they speak of is cut off (the proofs have no
such constraint).  `WithinBounds` does the same for the evaluator and does not
follow an oversold position past two contracts.  Order slots are
interchangeable, hence the symmetry (so are the recommendations and the passes of
`paper_store`); it is used in runs without liveness properties only.  There two
recommendations of one ticker are a duplicate, or a row rewritten beside one
resolved, and two passes are a rewrite within a rewrite.  In the night run, cap 4 with sizes 1 and 2 lets a night reach
the cap exactly, overshoot it by one trade and stop at it, and a cycle cap of 2
needs two cycles for three tickers; `LostAtMost3` stops after three lost
dollars.  In the weather run the suggestions are one below a dollar (raised to
the minimum), one that is rounded up to even, and one over the maximum; the cap
$3.50 is not whole so that the rounding of the remainder matters.

In `desk`, two callers (closers, requests, reviews, refreshers, scanners) are a
race and one of them may die in it; one ticker suffices where tickers do not
meet (`CandleCache` and `AccountView` treat each by itself).  Lookback 1 with 3
periods lets a period be asked for while it runs, finish, fall out of the
lookback, and be passed over; volume 2 lets a running candle be stored too
small.  Two reviews of a total of 2 are enough for the second to be made before
the first slate is bought.  A list of one reviewed idea is cut by the second.
Three pages with a checkpoint every two put the end of the board at a
checkpoint, in front of one and behind one.  Three days let a document of day 1
expire.  The quotes, books, candles, readings and thresholds are chosen at the
boundaries of the functions: one-sided and empty books, several levels per
side, volumes below and above the saturation of a score, members on both
sides of a threshold and on it, hours before and after the lock and the turn of
the UTC day.  `NoBook`, `Unset`, `Absent` and their like are model values for
Python's `None`.

`CHECK_DEADLOCK FALSE` is set for `desk` because the callers are bounded and
their programs end, and for the session runs because a session file cut
short by a crash stops every later cycle: the system really stops there until
somebody repairs the file.

**Fairness.**  `FairSpec` assumes that the event loop runs the coroutine (weak
fairness of `Start`, `Loop` and `Refresh`: the process is restarted by its
owner, and no await waits for ever because the HTTP client has a timeout), that
the 30 s timer expires again and again (`NextIteration` into a refresh), and
that a request repeated for ever is answered some time (strong fairness of
`ReadPositions`, `ReadOrders` and a successful `SyncBook`).  Nothing is assumed
of the feed, the exchange or crashes: the monitor may crash for ever, and then
`Distressed`, which requires it to be up, is not stable.

**Findings.**  Five statements of the repository about itself are false of the
code; each has a run with a counterexample and an entry in `PROJECT.json`.

1. The monitor's double-exit prevention lets go of a ticker on any exception of
   `create_order`, a read timeout after the order has landed included.
2. A dead feed is "cleared so `_refresh()` will restart it"; `_refresh()` does
   so only if the set of tickers changed.
3. The resting orders are read up to 30 s before an exit order is placed, not
   before placing any exit order.
4. "No double-down" fails when the answer of an accepted order, or the save
   after it, is lost.
5. A NO order is sized by the YES price, so "max $25 per trade" does not bound
   what it costs ($9 buys $33.18 of contracts at a YES price of 21 cents).

More was seen while modelling that has no run of its own.

*Exits and buys.*  With the sweep or re-entries enabled, `DistressIsActedOn`
fails: `pending_exits` is cleared only when the position is seen to be gone, so
an exit cancelled by the sweep, or a re-entry between two refreshes, is never
acted on again; the live run is therefore stated without them.  The ten-trade
cap of the header of `night_execute.py` is 9999 in the code, so the dollar cap
is the cap.  `run_risk.py` fills neither `exposure_by_category` nor the daily
P&L, `MAX_OPEN_POSITIONS` is used nowhere, a slate can be executed twice, and
`record_loss`, `record_win` and `cancel_all` have no caller.

*Stores and dashboard.*  A pass that resolves a recommendation in the file
before its row has been mirrored updates nothing in Supabase: the mirror then
leaves the row open there until a pass over Supabase settles it.  The
dashboard's handler imports `_db` only where there are resting orders
(`server.py:266`), so without any the fair values of the positions fail; this is
`beforeOrders` of `AccountView`.  No program calls `ConfigManager.reload()`.
The transcript clients answer an empty list when a page cannot be fetched
(`fed.py:221`, `whitehouse.py:174`), and the feed is marked refreshed all the
same.

*Prices and scores.*  `_parse_orderbook` of the market maker takes the YES ask
from the lowest NO bid and the live top of book from the highest: the market
maker overstates its spread when there are several NO levels, and its bounds of
10 and 90 percent can turn its edge against its own pressure.  A live book with
one side keeps the stale price of the other; a crossed quote has spread 0 and
the best multiplier.  In a scan an order book read earlier overrides the
shortlist's later quotes, and a quote without a side is not counted as missing.
Without a bid in the input, `score_signals.py` prices NO at 100 minus the ask.
The candle cache is never pruned, and "over 24h" is over its oldest candle; its
mark has the time of storing and not of asking; an older answer stored later
replaces a newer one; a gap longer than the lookback leaves the last candle
before it partial for ever.  `hl_position_score` promises 0.5 for a flat market
and returns `None`.

*Weather and mentions.*  A NOAA forecast without a daytime period becomes
85 and 65 degrees and a confident estimate.  The precipitation estimate does
not look at the operator; titles with "at least" and with "above" are read as
one operator.  After the local evening the UTC date is tomorrow's, and the scan
skips the event that is settling.  In the backtest a document without a date
counts as earlier than anything, a monthly point of the month of the close
counts whole, and one failed GDELT request skips all later markets of its phrase.

## 4. What is proved

All proofs are for any set of tickers, order slots, sizes and caps, under the
named assumptions of the modules (`MaxQuantity` positive, `NoSlot` not a slot,
sizes within `MaxTrade`, and so on).

`ExitProofs` proves of the monitor `TypeCorrect`, `InductiveInvariant`, `NoSecondExit`
(`OneExitAtATime`) and `NeverOversells` (`ExitsCovered`).  Neither safety
property is inductive: that a second exit is impossible rests on the monitor
knowing the first (`ExitsKnown`), which a restart breaks until the orders have
been read (`StartingUp`); in that window what saves it is that every ticker of
the first refresh is in `new_this_cycle` and is not checked (`StartupInv`).
That no exit oversells rests on `SafeToSell`: what the pass would sell now is
still held, since a position shrinks only by a fill of an exit the monitor
knows; and on `SafeToRetry`: an order that may yet be refused, after which its
ticker is free again, leaves the quantity in `position_metadata` good.
`RequestsInv` ties the awaited slot to the open request and sends every
abandoned request to `ambiguous`.  The invariant is also an invariant of the
run `exit_monitor`.  The step lemma has one step per action of `Next`; lemmas
`ClosedFacts`, `RefusedFacts` and `FilledFacts` say what happens to one order.

`NightSessionProofs` proves `NightInvariant`, `AccountStaysWithinCap`,
`TickersAreBoughtOnce`, `RecordedTickersAreCounted` and the refinement
`FileImplementsBudget`.  The invariant says that memory and file agree except
between an answer and its save (`FileInv`), that every dollar the exchange
accepted is in the file, in flight or lost (`MoneyInv`), and the same of every
ticker (`BoughtInv`).

Of the evaluator it proves `EvaluatorTypes` (`EvTypeOK`), `PassesExitOnce`
(`OneExitAcrossPasses`) and `OversellNeedsTheWindow`
(`OversellsOnlyInTheWindow`).  The evaluator remembers nothing between passes,
so its invariant speaks of the pass under way: once it has the resting orders, a
position it may still sell has no exit under way (`NoExitUnseen`), and can be sold
as it was read unless an order filled since (`StillHeld`), which `raced` records;
`EvRequests` ties the one open request to the pass, and `EvGatheredFirst` has no
sale before both requests have answered.  What one request, refusal or fill does
to one order and to what is held comes first, and both proofs share it.

`PaperStoreProofs` proves `PaperTypes` (`TypeOK`), `NothingRecordedIsLost`
(`RecordedSurvive`), `ScorerRecordsOnce` (`OneOpenPerTicker`),
`SettlementsStayLatest` (`SettlementIsLatest`) and the action property
`SharedResolutionsStay` (`SharedResolvedIsFinal`).  The invariant is built in
four layers, each kept with the help of the ones before: Supabase has a row only
after the file (`MirrorInv`); of two rewrites at once everything recorded is
`exposed`, and a lone one holds what the file held (`RewriteInv`); a pass claims
a recommendation alone and marks it before it closes it (`MarkInv`); and what is
open is known to the scorer, or exposed (`ScoreInv`).

`WeatherSessionProofs` proves of the pricing that the default strategy never
crosses a book on the YES side (`MidmarketIsMaker`) and that a YES order sized
by an amount costs at most the amount (`YesAmountSuffices`), for any book and
any amount, and builds on the second `SessionsStayWithinCap`
(`SpentWithinCap`), `YesOrdersAreCounted` (`YesIsCounted`) and
`TickersAreBoughtOnce` (`BoughtOnce`).  `WeatherIInv` says how memory and file
differ between an answer and its save (`SessionInv`), that the order under way
is within what the cap leaves (`CapInv`: amounts are whole dollars, so the half
dollar of rounding is added once and not per order; `RoundDollarsFacts` and
`AmountFacts` are the arithmetic; `SessionTypes` is its `TypeOK`), that its cost is within its amount
(`PaidInv`), and where a bought ticker is remembered (`BoughtInv`).
`SessionFileImplementsBudget` (`SessionFileSpec`) shows that the weather
session's file keeps the promise of the night's, in cents: it needs that the
order about to be counted is still new to the file and that a dollar was left
when it was decided (`CountableInv`), and that no amount exceeds
`LargestAmount`, which is `--max-per-trade` in whole dollars.  TLC agrees on the
instance of `weather_session`; the run itself does not list it.

`DecisionProofs` and `MarketDataProofs` hold the proofs of the modules of `desk`,
one part per module; what they need of sums, selections and quotients is in
`ReductionFacts`.  `DeskProofs` puts them together.

*Verdicts.*  `VerdictsAreSound` (`ScoringIsSound`) is induction over data done by
hand: `SumOver` exists on every finite set, because there is no least size at
which it does not (`LeastOfNaturals`), and so a sum is that of a member and the
rest (`SumFacts`).  By the same argument comparisons carry over to sums
(`SumCompares`): a source lies among its slices (`SourceFacts`), the combination
among what came in (`CombinedFacts`).  The side that the look at the ask leaves
out never clears, since a price with an edge after the fee is below the
probability (`EdgeNeedsProb`).

*Analytics.*  `AnalyticsStayRight` (`AnalyticsAreRight`).  A sum does not depend
on which member is taken first (`SumWithout`), so it splits (`SumOfUnion`) and
adds up over any grouping (`SumByKey`); that gives the cash flow and both
breakdowns.  The places in the order of closing are one to one with the numbers
up to the count (`PlaceFacts`), so each level is the one before it and the next
trade (`LevelFacts`).  The loop's curve is the levels and their running peak
(`CurveFacts`), and its least drawdown the worst decline (`DrawdownFacts`).

*Ledger.*  `ExitsMatchPositions` (`ExitMatchesPosition`) and
`ResolutionsScoreTheirMarket` (`ResolvedMarketsAreScored`).  A call that has won
a position keeps its row until its second update (`CallsKeepTheirRow`), and
nobody else can win it because an open position has no closing call
(`ClosedByCall`); a resolution at work still holds every signal it has not
scored (`ResolutionHoldsTheRest`).  No action writes both trades and signals,
so the invariant is kept half by half.

*Ideas.*  `IdeasAreReviewedOnce` (`ReviewedOnce`) and `IdeasDoNotVanish`
(`NoIdeaVanishes`).  The second is proved from the stronger `Accounted`, which
does without the reviewed list: the list is cut, so it is not what remembers an
idea, the table is.

*Settings.*  `SettingsStaySound` (`SettingsAreSound`): what a command has read
and is about to write is as sound as the file was (`PendingIsByHand`).

*Slates.*  `SlatesStayWithinTotal` (`ExposureWithinTotal`).  What a review that
nothing has overtaken leaves to buy fits in what it counted beside the exposure
(`SlatesFit`).  A sum over a set is recursive; the invariant says instead that
there is a function that adds up the sizes (`IsTotal`), and each step of a review
makes the next one from it (`TotalGrows`).  Together with `CountedWithinTotal`,
the limit on what a review counts, this is inductive.

*Order command.*  `ReplacementsStayCovered` (`ReplaceNeverOversells`).  Until
something moves the quantity is what is held (`QuantityIsRight`) and what rests
is what is still to be cancelled (`RestIsListed`).

*Account.*  `DashboardStaysRight` (`DashboardIsRight`): what a poller has read
is so, of every ticker that has not moved since (`AccountReadIsRight`,
`FillsReadIsRight`), and hence what it shows.

*Candles.*  `FreshMarksAreFinished` (`MarkedHistoryIsFinished`).  The candles
behind a mark are finished because the answer they came from had them
(`AnswersAreFinished`), a finished period trades no more (`NothingAhead`), and an
older answer stored later cannot hold more than was traded (`NoInventedCandle`),
so where both have a finished candle they agree.

*Feed.*  `BookKeepsFollowing` (`BookFollowsExchange`).  The last message under
way about a level says what it is at the exchange (`LastWordIsRight`), and of a
level nothing under way tells of, the book has it already (`SettledLevels`).

*Scan.*  `UndegradedScansStayLive` (`UndegradedScanIsLive`): of the markets in
the scan every price is live (`LiveIsPriced`), only these are ranked
(`OnlyLiveIsRanked`), and a shortlist without a failure was read again
(`ShortlistIsFresh`).

*Board.*  `WholeBoardsAreLoaded` (`WholeBoardIsLoaded`).  A fetch that is not
marred has the first pages in order up to its cursor, and so have a checkpoint
and a file (`FetchedInOrder`, `CheckpointInOrder`, `OutputIsWhole`); a load has
written the first pages and has the others in hand (`LoadedInOrder`), so no
batch holds a page twice and none is refused.

*Archive.*  `RefreshesAreArchived` (`RefreshedIsArchived`): between its two
commits a refresher's answer is in the archive or expired (`StoredIsArchived`),
since an upsert never shortens a text and pruning takes only what is expired.

*Weather.*  `WeatherReadRight` (`WeatherIsReadRight`).  Since a scan the day only
went on in the direction of its metric (`DayWentOn`), and a scan that was
answered has the latest reading (`AnsweredIsLatest`).  So the observed extreme
bounds the settlement, and what has been decided stays decided
(`DecidedForGood`); a member of the ensemble drawn to the observation is on its
side of every decided strike, so all members agree and the price is the bound
(`PricedAtTheBound`).  That the strikes are one distribution is counting
(`MembersAreSplit`: a member satisfies one of two complementary strikes) and the
monotonicity of the tabulated normal distribution (`CdfRises`).

*Markets.*  `MarketsAreReadRight` (`MarketIsReadRight`).  The one fact about the
steps is that the quote of a side that the live book has is the best level of that
side (`QuoteFromBook`, on which `QuoteIsLive` rests); the rest is arithmetic on
whatever data there is, and has to hold of every quotient as it is rounded.  A
magnitude and a direction that the two modules compute apart agree because both come
from one sum or difference (`RatioMagnitude`, `ShareFacts`, `DepthType`).  The
ranking is fair because a weighted mean lies among its scores (`CompositeFacts`, by
`SumCompares`), and a spike rises with the last hour through its three pieces
(`SpikeRises`).  An estimate follows its pressure by at most eight cents
(`NudgeFacts`); the reversion alone leans away from the extreme (`AloneFacts`,
`LowPosition`).  `MarketAssumption` says what of the inputs is needed: prices of 1
to 99 in a book, counts that are not negative, and that the exchange keeps no two
orders that could trade with one another, without which a quote is crossed and the
promise false.

*Studies.*  `StudiesLookBack` (`NoLookAhead`, the largest part of
`NoStudyLooksAhead`).  A sample is what the replay makes of its market in the
world as it is (`SamplesWereReplayed`), and of two worlds that were the same
before the close the replay makes the same (`ReplayIsAsOf`).  The counts of the
walk are those of the events it has passed (`CountsAreOfTheDone`), and just
before a date is folded in these are the earlier events of each of its own
(`GroupFacts`).  That a speaker's rate lies to the right side of everybody's
compares two quotients (`SmallerFraction`, `ShrinkFacts`).

*Prices.*  `PricesAreOfTheirTime` (`PriceStudyIsSound`, of `NoStudyLooksAhead`).
Every row carries what the selection made of its candles (`RowsWereSelected`),
and the selection sees the candles only through those that had ended
(`SelectionIsAsOf`); every sample gone through is counted (`SamplesAreCounted`).
That no constant beats the base rate is the least-squares identity of the mean,
summed over the rows.

*Teasers.*  `TeasersAreOfTheirDay` (`TeaserStudyIsSound`, of
`NoStudyLooksAhead`).  What is collected is what the pages so far list of the
markets that can be scored, cut at the maximum (`CollectedIsListed`): a page
further the listing goes on by that page (`ListingGoesOn`), also from one series
to the next, and selecting commutes with joining.  A sample says of its market
what the search and the outcome said (`SamplesSaySo`), of teasers of its day
(`TeasersWereOfTheDay`).

*The desk.*  A step of `Desk` leaves every part a step of its own or at rest
(`DeskStepParts`), so a behaviour of the desk is one of each of the eighteen
(`DeskRunsEveryPart`).  With that and the parts' inductive invariants,
`DeskStaysTyped` (`DeskTypeOK`) and `NoDeskStudyLooksAhead` (`NoStudyLooksAhead`)
hold of every interleaving, and `DeskIsRight` says the same of all the invariants
that the run of `MCDesk` checks.  Two types are not in the invariants of their parts
and have one of their own: the corpus of the walk (`CorpusIsASequence`) and the
transcripts of the teasers (`TeasersHeardWereFound`).

Every inductive invariant was checked by TLC on the module's instance before it
was proved; `IInv` of the monitor is an invariant of a run for good.

**Only model-checked**: the liveness properties of the monitor (TLAPS has no
fairness reasoning), and the composition `ExitSystem` (its run is a finding). Every
invariant and every action property of a passing run is proved.  What a fold over a
sequence computes is induction over data, which the library's theorems cannot give
here; written with `Reductions` it can be had by hand, from a least counterexample
(`LeastOfNaturals`), as for the verdicts, the analytics, the market signals and the
studies.

## 5. Not modelled, and why

* Consensus: prices of other exchanges are averaged, nothing is kept, and no
  module depends on it.
* Agents that ask a language model, and the live, profile and hearing signals:
  their estimates are the inputs of `SignalScoring`.  The order-flow and
  Polymarket agents, the legacy `score_*` functions and the external clients:
  stateless, or I/O and parsing.
* Reports and the other studies: they read and print.
* `persist_cycle`, `upsert_scored_markets`, `upsert_cycle`, the targets and the
  schedule of mentions, the GDELT cache on disk: rows that are appended or
  replaced whole and that no modelled program reads back.
* `reprice_recommendations.py`, `backfill_ideas_to_supabase.py`: one-off
  corrections of the paper store, in the plan below.
* A transcript without a date: `MentionsArchive` has it (`Expired`), its instance
  in `desk` only a dated one.
* The instruction parser of `place_order.py`: a language model.  The weather
  session takes it to give "buy", the side asked for and the default pricing.
* Fractional contracts: `parse_fixed_point` admits them; `Exchange` has whole
  ones.  The monitor rounds and the evaluator truncates, see the hazards.
* `--dry-run` paths, logging and result files.
* Stateless filters of candidates: a candidate they reject changes nothing.

## 6. Plan

The order was by what a wrong step would cost: the exit programs; the night and
weather sessions; the paper store; the ledger, the dashboard and the
configuration; the risk limits, the order command and the feed; the archives
and the scan; the estimates and the studies.  What is left, in the same order:

1. `reprice_recommendations.py` and `backfill_ideas_to_supabase.py` in
   `PaperStore`: the upsert with status "open" may reopen a shared row.
2. Contracts in hundredths in `Exchange`, to cover the roundings of the monitor.
3. Two night processes on one session file.
