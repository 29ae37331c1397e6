-------------------------------- MODULE Desk --------------------------------
(***************************************************************************)
(* The components of the desk that share no state, side by side: between   *)
(* two steps of one, the others take any of theirs.  The dashboard, the    *)
(* scans, the studies and the commands are processes and tasks of their    *)
(* own; what one leaves for another (a file, a row, a message) is part of  *)
(* the component that keeps it.                                            *)
(***************************************************************************)
EXTENDS PositionLedger, AccountView, IdeaReview, PnlAnalytics, RuntimeConfig,
        RiskLimits, OrderCommand, OrderBookFeed, MarketCatalog,
        MentionsArchive, MarketScan, SignalScoring, CandleCache, MarketSignals,
        WeatherSignals, MentionsStudies, PriceStudy, TeaserStudy

deskVars == <<ledgerVars, accountVars, ideaVars, pnlVars, configVars, riskVars, orderVars,
              feedVars, catalogVars, archiveVars, scanVars, scoringVars, cacheVars, marketVars,
              weatherVars, studiesVars, priceVars, teaserVars>>

Parts == {"ledger", "account", "ideas", "pnl", "config", "risk", "order", "feed", "catalog",
          "archive", "scan", "scoring", "candles", "market", "weather", "studies", "prices",
          "teasers"}

DeskInit ==
  /\ LedgerInit
  /\ AccountInit
  /\ IdeasInit
  /\ PnlInit
  /\ ConfigInit
  /\ RiskInit
  /\ OrderInit
  /\ FeedInit
  /\ CatalogInit
  /\ ArchiveInit
  /\ ScanInit
  /\ ScoringInit
  /\ CacheInit
  /\ MarketInit
  /\ WeatherInit
  /\ StudiesInit
  /\ PriceInit
  /\ TeaserInit

\* Every part but one rests.
IdleBut(part) ==
  /\ part # "ledger" => UNCHANGED ledgerVars
  /\ part # "account" => UNCHANGED accountVars
  /\ part # "ideas" => UNCHANGED ideaVars
  /\ part # "pnl" => UNCHANGED pnlVars
  /\ part # "config" => UNCHANGED configVars
  /\ part # "risk" => UNCHANGED riskVars
  /\ part # "order" => UNCHANGED orderVars
  /\ part # "feed" => UNCHANGED feedVars
  /\ part # "catalog" => UNCHANGED catalogVars
  /\ part # "archive" => UNCHANGED archiveVars
  /\ part # "scan" => UNCHANGED scanVars
  /\ part # "scoring" => UNCHANGED scoringVars
  /\ part # "candles" => UNCHANGED cacheVars
  /\ part # "market" => UNCHANGED marketVars
  /\ part # "weather" => UNCHANGED weatherVars
  /\ part # "studies" => UNCHANGED studiesVars
  /\ part # "prices" => UNCHANGED priceVars
  /\ part # "teasers" => UNCHANGED teaserVars

\* One part takes a step of its own.
PartMoves(part) ==
  \/ part = "ledger" /\ LedgerNext
  \/ part = "account" /\ AccountNext
  \/ part = "ideas" /\ IdeasNext
  \/ part = "pnl" /\ PnlNext
  \/ part = "config" /\ ConfigNext
  \/ part = "risk" /\ RiskNext
  \/ part = "order" /\ OrderNext
  \/ part = "feed" /\ FeedNext
  \/ part = "catalog" /\ CatalogNext
  \/ part = "archive" /\ ArchiveNext
  \/ part = "scan" /\ ScanNext
  \/ part = "scoring" /\ ScoringNext
  \/ part = "candles" /\ CacheNext
  \/ part = "market" /\ MarketNext
  \/ part = "weather" /\ WeatherNext
  \/ part = "studies" /\ StudiesNext
  \/ part = "prices" /\ PriceNext
  \/ part = "teasers" /\ TeaserNext

DeskNext == \E part \in Parts : IdleBut(part) /\ PartMoves(part)

DeskSpec == DeskInit /\ [][DeskNext]_deskVars

---------------------------------------------------------------------------
(* The variables of every part have the values its module says, whatever   *)
(* the other parts do.                                                     *)
DeskTypeOK ==
  /\ LedgerTypeOK
  /\ AccountTypeOK
  /\ IdeasTypeOK
  /\ PnlTypeOK
  /\ ConfigTypeOK
  /\ RiskTypeOK
  /\ OrderTypeOK
  /\ FeedTypeOK
  /\ CatalogTypeOK
  /\ ArchiveTypeOK
  /\ ScanTypeOK
  /\ ScoringTypeOK
  /\ CacheTypeOK
  /\ MarketTypeOK
  /\ WeatherTypeOK
  /\ StudiesTypeOK
  /\ PriceTypeOK
  /\ TeaserTypeOK

(* None of the four studies that decide what a signal is worth lets a      *)
(* prediction see what it predicts: mentions_backtest and the walk over    *)
(* the premise corpus, mentions_price_study, and love_island_backtest.     *)
NoStudyLooksAhead == NoLookAhead /\ PriceStudyIsSound /\ TeaserStudyIsSound
=============================================================================
