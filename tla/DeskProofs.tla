------------------------------ MODULE DeskProofs ------------------------------
(***************************************************************************)
(* What is proved of each part of the desk holds of the desk: every part   *)
(* follows its own specification whatever the others do, so its types and  *)
(* its invariant hold of every behaviour in which all of them move.        *)
(***************************************************************************)
EXTENDS Desk, DecisionProofs, MarketDataProofs, TLAPS

---------------------------------------------------------------------------
(* A step of the desk is a step of one part, and the others rest.          *)

\* Every part takes a step of its own, or rests.
EveryPartSteps ==
  /\ [LedgerNext]_ledgerVars
  /\ [AccountNext]_accountVars
  /\ [IdeasNext]_ideaVars
  /\ [PnlNext]_pnlVars
  /\ [ConfigNext]_configVars
  /\ [RiskNext]_riskVars
  /\ [OrderNext]_orderVars
  /\ [FeedNext]_feedVars
  /\ [CatalogNext]_catalogVars
  /\ [ArchiveNext]_archiveVars
  /\ [ScanNext]_scanVars
  /\ [ScoringNext]_scoringVars
  /\ [CacheNext]_cacheVars
  /\ [MarketNext]_marketVars
  /\ [WeatherNext]_weatherVars
  /\ [StudiesNext]_studiesVars
  /\ [PriceNext]_priceVars
  /\ [TeaserNext]_teaserVars

LEMMA DeskStepParts == [DeskNext]_deskVars => EveryPartSteps
  <1> SUFFICES ASSUME [DeskNext]_deskVars PROVE EveryPartSteps
    OBVIOUS
  <1>1. CASE UNCHANGED deskVars
    BY <1>1 DEF deskVars, EveryPartSteps
  <1>2. ASSUME NEW part \in Parts, IdleBut(part), PartMoves(part) PROVE EveryPartSteps
    <2>1. [LedgerNext]_ledgerVars
      BY <1>2, SMT DEF IdleBut, PartMoves
    <2>2. [AccountNext]_accountVars
      BY <1>2, SMT DEF IdleBut, PartMoves
    <2>3. [IdeasNext]_ideaVars
      BY <1>2, SMT DEF IdleBut, PartMoves
    <2>4. [PnlNext]_pnlVars
      BY <1>2, SMT DEF IdleBut, PartMoves
    <2>5. [ConfigNext]_configVars
      BY <1>2, SMT DEF IdleBut, PartMoves
    <2>6. [RiskNext]_riskVars
      BY <1>2, SMT DEF IdleBut, PartMoves
    <2>7. [OrderNext]_orderVars
      BY <1>2, SMT DEF IdleBut, PartMoves
    <2>8. [FeedNext]_feedVars
      BY <1>2, SMT DEF IdleBut, PartMoves
    <2>9. [CatalogNext]_catalogVars
      BY <1>2, SMT DEF IdleBut, PartMoves
    <2>10. [ArchiveNext]_archiveVars
      BY <1>2, SMT DEF IdleBut, PartMoves
    <2>11. [ScanNext]_scanVars
      BY <1>2, SMT DEF IdleBut, PartMoves
    <2>12. [ScoringNext]_scoringVars
      BY <1>2, SMT DEF IdleBut, PartMoves
    <2>13. [CacheNext]_cacheVars
      BY <1>2, SMT DEF IdleBut, PartMoves
    <2>14. [MarketNext]_marketVars
      BY <1>2, SMT DEF IdleBut, PartMoves
    <2>15. [WeatherNext]_weatherVars
      BY <1>2, SMT DEF IdleBut, PartMoves
    <2>16. [StudiesNext]_studiesVars
      BY <1>2, SMT DEF IdleBut, PartMoves
    <2>17. [PriceNext]_priceVars
      BY <1>2, SMT DEF IdleBut, PartMoves
    <2>18. [TeaserNext]_teaserVars
      BY <1>2, SMT DEF IdleBut, PartMoves
    <2> QED
      BY <2>1, <2>2, <2>3, <2>4, <2>5, <2>6, <2>7, <2>8, <2>9, <2>10, <2>11, <2>12, <2>13,
         <2>14, <2>15, <2>16, <2>17, <2>18 DEF EveryPartSteps
  <1> QED
    BY <1>1, <1>2 DEF DeskNext

(* A behaviour of the desk is one of every part, so what is proved of a    *)
(* part alone holds beside the others.                                     *)
THEOREM DeskRunsEveryPart ==
  DeskSpec =>
    /\ LedgerSpec
    /\ AccountSpec
    /\ IdeasSpec
    /\ PnlSpec
    /\ ConfigSpec
    /\ RiskSpec
    /\ OrderSpec
    /\ FeedSpec
    /\ CatalogSpec
    /\ ArchiveSpec
    /\ ScanSpec
    /\ ScoringSpec
    /\ CacheSpec
    /\ MarketSpec
    /\ WeatherSpec
    /\ StudiesSpec
    /\ PriceSpec
    /\ TeaserSpec
  <1>1. DeskSpec => LedgerSpec
    <2>1. DeskInit => LedgerInit
      BY DEF DeskInit
    <2>2. [DeskNext]_deskVars => [LedgerNext]_ledgerVars
      BY DeskStepParts DEF EveryPartSteps
    <2> QED
      BY <2>1, <2>2, PTL DEF DeskSpec, LedgerSpec
  <1>2. DeskSpec => AccountSpec
    <2>1. DeskInit => AccountInit
      BY DEF DeskInit
    <2>2. [DeskNext]_deskVars => [AccountNext]_accountVars
      BY DeskStepParts DEF EveryPartSteps
    <2> QED
      BY <2>1, <2>2, PTL DEF DeskSpec, AccountSpec
  <1>3. DeskSpec => IdeasSpec
    <2>1. DeskInit => IdeasInit
      BY DEF DeskInit
    <2>2. [DeskNext]_deskVars => [IdeasNext]_ideaVars
      BY DeskStepParts DEF EveryPartSteps
    <2> QED
      BY <2>1, <2>2, PTL DEF DeskSpec, IdeasSpec
  <1>4. DeskSpec => PnlSpec
    <2>1. DeskInit => PnlInit
      BY DEF DeskInit
    <2>2. [DeskNext]_deskVars => [PnlNext]_pnlVars
      BY DeskStepParts DEF EveryPartSteps
    <2> QED
      BY <2>1, <2>2, PTL DEF DeskSpec, PnlSpec
  <1>5. DeskSpec => ConfigSpec
    <2>1. DeskInit => ConfigInit
      BY DEF DeskInit
    <2>2. [DeskNext]_deskVars => [ConfigNext]_configVars
      BY DeskStepParts DEF EveryPartSteps
    <2> QED
      BY <2>1, <2>2, PTL DEF DeskSpec, ConfigSpec
  <1>6. DeskSpec => RiskSpec
    <2>1. DeskInit => RiskInit
      BY DEF DeskInit
    <2>2. [DeskNext]_deskVars => [RiskNext]_riskVars
      BY DeskStepParts DEF EveryPartSteps
    <2> QED
      BY <2>1, <2>2, PTL DEF DeskSpec, RiskSpec
  <1>7. DeskSpec => OrderSpec
    <2>1. DeskInit => OrderInit
      BY DEF DeskInit
    <2>2. [DeskNext]_deskVars => [OrderNext]_orderVars
      BY DeskStepParts DEF EveryPartSteps
    <2> QED
      BY <2>1, <2>2, PTL DEF DeskSpec, OrderSpec
  <1>8. DeskSpec => FeedSpec
    <2>1. DeskInit => FeedInit
      BY DEF DeskInit
    <2>2. [DeskNext]_deskVars => [FeedNext]_feedVars
      BY DeskStepParts DEF EveryPartSteps
    <2> QED
      BY <2>1, <2>2, PTL DEF DeskSpec, FeedSpec
  <1>9. DeskSpec => CatalogSpec
    <2>1. DeskInit => CatalogInit
      BY DEF DeskInit
    <2>2. [DeskNext]_deskVars => [CatalogNext]_catalogVars
      BY DeskStepParts DEF EveryPartSteps
    <2> QED
      BY <2>1, <2>2, PTL DEF DeskSpec, CatalogSpec
  <1>10. DeskSpec => ArchiveSpec
    <2>1. DeskInit => ArchiveInit
      BY DEF DeskInit
    <2>2. [DeskNext]_deskVars => [ArchiveNext]_archiveVars
      BY DeskStepParts DEF EveryPartSteps
    <2> QED
      BY <2>1, <2>2, PTL DEF DeskSpec, ArchiveSpec
  <1>11. DeskSpec => ScanSpec
    <2>1. DeskInit => ScanInit
      BY DEF DeskInit
    <2>2. [DeskNext]_deskVars => [ScanNext]_scanVars
      BY DeskStepParts DEF EveryPartSteps
    <2> QED
      BY <2>1, <2>2, PTL DEF DeskSpec, ScanSpec
  <1>12. DeskSpec => ScoringSpec
    <2>1. DeskInit => ScoringInit
      BY DEF DeskInit
    <2>2. [DeskNext]_deskVars => [ScoringNext]_scoringVars
      BY DeskStepParts DEF EveryPartSteps
    <2> QED
      BY <2>1, <2>2, PTL DEF DeskSpec, ScoringSpec
  <1>13. DeskSpec => CacheSpec
    <2>1. DeskInit => CacheInit
      BY DEF DeskInit
    <2>2. [DeskNext]_deskVars => [CacheNext]_cacheVars
      BY DeskStepParts DEF EveryPartSteps
    <2> QED
      BY <2>1, <2>2, PTL DEF DeskSpec, CacheSpec
  <1>14. DeskSpec => MarketSpec
    <2>1. DeskInit => MarketInit
      BY DEF DeskInit
    <2>2. [DeskNext]_deskVars => [MarketNext]_marketVars
      BY DeskStepParts DEF EveryPartSteps
    <2> QED
      BY <2>1, <2>2, PTL DEF DeskSpec, MarketSpec
  <1>15. DeskSpec => WeatherSpec
    <2>1. DeskInit => WeatherInit
      BY DEF DeskInit
    <2>2. [DeskNext]_deskVars => [WeatherNext]_weatherVars
      BY DeskStepParts DEF EveryPartSteps
    <2> QED
      BY <2>1, <2>2, PTL DEF DeskSpec, WeatherSpec
  <1>16. DeskSpec => StudiesSpec
    <2>1. DeskInit => StudiesInit
      BY DEF DeskInit
    <2>2. [DeskNext]_deskVars => [StudiesNext]_studiesVars
      BY DeskStepParts DEF EveryPartSteps
    <2> QED
      BY <2>1, <2>2, PTL DEF DeskSpec, StudiesSpec
  <1>17. DeskSpec => PriceSpec
    <2>1. DeskInit => PriceInit
      BY DEF DeskInit
    <2>2. [DeskNext]_deskVars => [PriceNext]_priceVars
      BY DeskStepParts DEF EveryPartSteps
    <2> QED
      BY <2>1, <2>2, PTL DEF DeskSpec, PriceSpec
  <1>18. DeskSpec => TeaserSpec
    <2>1. DeskInit => TeaserInit
      BY DEF DeskInit
    <2>2. [DeskNext]_deskVars => [TeaserNext]_teaserVars
      BY DeskStepParts DEF EveryPartSteps
    <2> QED
      BY <2>1, <2>2, PTL DEF DeskSpec, TeaserSpec
  <1> QED
    BY <1>1, <1>2, <1>3, <1>4, <1>5, <1>6, <1>7, <1>8, <1>9, <1>10, <1>11, <1>12, <1>13,
       <1>14, <1>15, <1>16, <1>17, <1>18, PTL

---------------------------------------------------------------------------
(* The types of every part, from its inductive invariant.                  *)

\* The corpus does not change, and the archive of the replay neither.
LEMMA CorpusIsASequence == StudiesSpec => [](corpusEvents \in Seq(Transcripts))
  <1>1. StudiesInit => corpusEvents \in Seq(Transcripts)
    <2>1. \A corpus \in Corpora : corpus \in Seq(Transcripts)
      <3> SUFFICES ASSUME NEW corpus \in Corpora PROVE corpus \in Seq(Transcripts)
        OBVIOUS
      <3>1. PICK n \in 1 .. MaxTranscripts : corpus \in [1 .. n -> Transcripts]
        BY DEF Corpora
      <3>2. n \in Nat
        BY <3>1, StudiesAssumption
      <3> QED
        BY <3>1, <3>2, SeqDef
    <2>2. <<>> \in Seq(Transcripts)
      OBVIOUS
    <2> QED
      BY <2>1, <2>2 DEF StudiesInit
  <1>2. corpusEvents \in Seq(Transcripts) /\ [StudiesNext]_studiesVars
          => (corpusEvents \in Seq(Transcripts))'
    BY DEF StudiesNext, WalkDate, studiesVars, walkVars
  <1> QED
    BY <1>1, <1>2, PTL DEF StudiesSpec

\* The counts of the walk are counts, and a prediction is of an event.
LEMMA StudiesAreTyped ==
  ReplayIInv /\ WalkIInv /\ corpusEvents \in Seq(Transcripts) => StudiesTypeOK
  <1> SUFFICES ASSUME ReplayIInv, WalkIInv, corpusEvents \in Seq(Transcripts)
               PROVE  StudiesTypeOK
    OBVIOUS
  <1>1. /\ published \subseteq Documents /\ aired \in [Phrases -> Timelines]
        /\ replayed \in 0 .. Len(SettledMarkets)
        /\ gdeltCache \in [Phrases -> {"unasked", "points", "error"}]
        /\ skippedAs \in [Skips -> Nat] /\ sampled \in Seq(Samples)
    BY DEF ReplayIInv, ReplayShape
  <1>2. \A i \in DOMAIN sampled : sampled[i].prob \in 10 .. 990
    <2> SUFFICES ASSUME NEW i \in DOMAIN sampled PROVE sampled[i].prob \in 10 .. 990
      OBVIOUS
    <2>1. sampled[i] \in Samples
      BY <1>1
    <2> QED
      BY <2>1 DEF Samples
  <1>3. /\ IsFiniteSet(DOMAIN corpusEvents) /\ walkedTo \in Nat
        /\ CountsAreOfTheDone /\ PredictedFromEarlier
    BY DEF WalkIInv, CorpusIsFinite
  <1>4. \A part \in SUBSET DOMAIN corpusEvents : Cardinality(part) \in Nat
    BY <1>3, FS_Subset, FS_CardinalityType
  <1>5. Done \in SUBSET DOMAIN corpusEvents /\ SaidOf(Done) \in SUBSET DOMAIN corpusEvents
    BY DEF Done, Placed, SaidOf
  <1>6. \A s \in Speakers : /\ OwnOf(Done, s) \in SUBSET DOMAIN corpusEvents
                            /\ SaidOf(OwnOf(Done, s)) \in SUBSET DOMAIN corpusEvents
    BY DEF Done, Placed, SaidOf, OwnOf
  <1>7. globalDocs \in Nat /\ globalMatches \in Nat
    BY <1>3, <1>4, <1>5 DEF CountsAreOfTheDone
  <1>8. speakerDocs \in [Speakers -> Nat] /\ speakerMatches \in [Speakers -> Nat]
    BY <1>3, <1>4, <1>6 DEF CountsAreOfTheDone
  <1>9. \A p \in predicted : p.event \in DOMAIN corpusEvents
    <2> SUFFICES ASSUME NEW p \in predicted PROVE p.event \in DOMAIN corpusEvents
      OBVIOUS
    <2>1. PICK i \in Done : p = PredictionFrom(i, Earlier(i))
      BY <1>3 DEF PredictedFromEarlier
    <2>2. p.event = i
      BY <2>1 DEF PredictionFrom, Prediction
    <2> QED
      BY <2>2, <1>5
  <1> QED
    BY <1>1, <1>2, <1>3, <1>7, <1>8, <1>9 DEF StudiesTypeOK

\* A row is a row of the study.
LEMMA PricesAreTyped == PriceIInv => PriceTypeOK
  <1> SUFFICES ASSUME PriceIInv PROVE PriceTypeOK
    OBVIOUS
  <1>1. /\ studied \in 0 .. Len(StudySamples) /\ pricedRows \in Seq(PriceRow)
        /\ studySkips \in [StudySkips -> Nat]
    BY DEF PriceIInv, PriceTypes
  <1>2. \A i \in DOMAIN pricedRows : pricedRows[i] \in PriceRow
    BY <1>1
  <1> QED
    <2>1. \A i \in DOMAIN pricedRows :
            /\ pricedRows[i].sample \in DOMAIN StudySamples
            /\ pricedRows[i].price \in 0 .. 1000
            /\ pricedRows[i].source \in {"traded", "mid_no_trade"}
            /\ pricedRows[i].candles \in CandleAnswers
      <3>1. \A row \in PriceRow : /\ row.sample \in DOMAIN StudySamples
                                  /\ row.price \in 0 .. 1000
                                  /\ row.source \in {"traded", "mid_no_trade"}
                                  /\ row.candles \in CandleAnswers
        BY DEF PriceRow, PriceSources
      <3> QED
        BY <3>1, <1>2, Zenon
    <2> QED
      BY <1>1, <2>1, Zenon DEF PriceTypeOK

\* A transcript is of a teaser that was found.
HeardWasFound ==
  \A i \in DOMAIN teaserSamples : teaserSamples[i].heard \subseteq teaserSamples[i].found

LEMMA TeasersHeardWereFound == TeaserSpec => []HeardWasFound
  <1>1. TeaserInit => HeardWasFound
    BY DEF TeaserInit, HeardWasFound
  <1>2. TeaserIInv /\ HeardWasFound /\ [TeaserNext]_teaserVars => HeardWasFound'
    <2> SUFFICES ASSUME TeaserIInv, HeardWasFound, [TeaserNext]_teaserVars PROVE HeardWasFound'
      OBVIOUS
    <2>1. teaserSamples \in Seq(TeaserSample)
      BY DEF TeaserIInv, TeaserTypes
    <2>2. CASE ListSettledPage \/ UNCHANGED teaserVars
      BY <2>2 DEF ListSettledPage, teaserVars, HeardWasFound
    <2>3. ASSUME NEW found \in SUBSET Teasers, NEW heard \in SUBSET found,
                 PredictMarket(found, heard)
          PROVE  HeardWasFound'
      <3>1. PICK row : /\ teaserSamples' = Append(teaserSamples, row)
                       /\ row.found = found /\ row.heard = heard
        BY <2>3 DEF PredictMarket
      <3>2. ASSUME NEW i \in DOMAIN teaserSamples'
            PROVE  teaserSamples'[i].heard \subseteq teaserSamples'[i].found
        <4>1. CASE i \in DOMAIN teaserSamples
          BY <4>1, <3>1, <2>1 DEF HeardWasFound
        <4>2. CASE i = Len(teaserSamples) + 1
          <5>1. teaserSamples'[i] = row
            BY <4>2, <3>1, <2>1
          <5> QED
            BY <5>1, <3>1
        <4> QED
          BY <4>1, <4>2, <3>1, <3>2, <2>1
      <3> QED
        BY <3>2 DEF HeardWasFound
    <2> QED
      BY <2>2, <2>3 DEF TeaserNext
  <1> QED
    BY <1>1, <1>2, TeaserStarts, TeaserStep, PTL DEF TeaserSpec

LEMMA TeasersAreTyped == TeaserIInv /\ HeardWasFound => TeaserTypeOK
  <1> SUFFICES ASSUME TeaserIInv, HeardWasFound PROVE TeaserTypeOK
    OBVIOUS
  <1>1. /\ uploaded \subseteq Teasers /\ IsPlace(seriesAt, pageAt)
        /\ collected \in Seq(TeaserMarkets) /\ teaserSamples \in Seq(TeaserSample)
        /\ Len(teaserSamples) <= Len(collected)
    BY DEF TeaserIInv, TeaserTypes
  <1>2. seriesAt \in 1 .. Len(SettledPages) + 1 /\ pageAt \in Nat
    BY <1>1 DEF IsPlace
  <1>3. Len(collected) <= MaxMarkets
    BY DEF TeaserIInv, CollectedIsListed
  <1>4. \A i \in DOMAIN teaserSamples :
          /\ teaserSamples[i].heard \subseteq teaserSamples[i].found
          /\ teaserSamples[i].probability \in 10 .. 990
          /\ teaserSamples[i].matched \in BOOLEAN /\ teaserSamples[i].realized \in {0, 1}
    <2>1. \A i \in DOMAIN teaserSamples : teaserSamples[i] \in TeaserSample
      BY <1>1
    <2> QED
      BY <2>1 DEF HeardWasFound, TeaserSample
  <1> QED
    BY <1>1, <1>2, <1>3, <1>4 DEF TeaserTypeOK

(* The variables of every part have the values its module says, whatever   *)
(* steps the others take between its own.                                  *)
THEOREM DeskStaysTyped == DeskSpec => []DeskTypeOK
  <1>1. LedgerSpec => []LedgerTypeOK
    <2>1. LedgerIInv => LedgerTypeOK
      BY DEF LedgerIInv
    <2> QED
      BY <2>1, LedgerInitInv, LedgerStep, PTL DEF LedgerSpec
  <1>2. AccountSpec => []AccountTypeOK
    <2>1. AccountIInv => AccountTypeOK
      BY DEF AccountIInv
    <2> QED
      BY <2>1, AccountInitInv, AccountStep, PTL DEF AccountSpec
  <1>3. IdeasSpec => []IdeasTypeOK
    <2>1. IdeasIInv => IdeasTypeOK
      BY DEF IdeasIInv
    <2> QED
      BY <2>1, IdeasInitInv, IdeasStep, PTL DEF IdeasSpec
  <1>4. PnlSpec => []PnlTypeOK
    <2>1. PnlInit => PnlTypeOK
      BY EmptySeq DEF PnlInit, PnlTypeOK
    <2>2. PnlTypeOK /\ [PnlNext]_pnlVars => PnlTypeOK'
      BY PnlStep
    <2> QED
      BY <2>1, <2>2, PTL DEF PnlSpec
  <1>5. ConfigSpec => []ConfigTypeOK
    <2>1. ConfigIInv => ConfigTypeOK
      BY DEF ConfigIInv
    <2> QED
      BY <2>1, ConfigInitInv, ConfigStep, PTL DEF ConfigSpec
  <1>6. RiskSpec => []RiskTypeOK
    <2>1. RiskIInv => RiskTypeOK
      BY DEF RiskIInv
    <2> QED
      BY <2>1, RiskInitInv, RiskKeeps, PTL DEF RiskSpec
  <1>7. OrderSpec => []OrderTypeOK
    <2>1. OrderIInv => OrderTypeOK
      BY DEF OrderIInv
    <2> QED
      BY <2>1, OrderInitInv, OrderKeeps, PTL DEF OrderSpec
  <1>8. FeedSpec => []FeedTypeOK
    <2>1. FeedIInv => FeedTypeOK
      BY DEF FeedIInv
    <2> QED
      BY <2>1, FeedInitInv, FeedStep, PTL DEF FeedSpec
  <1>9. CatalogSpec => []CatalogTypeOK
    <2>1. CatalogIInv => CatalogTypeOK
      BY DEF CatalogIInv
    <2> QED
      BY <2>1, CatalogInitInv, CatalogStep, PTL DEF CatalogSpec
  <1>10. ArchiveSpec => []ArchiveTypeOK
    <2>1. ArchiveIInv => ArchiveTypeOK
      BY DEF ArchiveIInv
    <2> QED
      BY <2>1, ArchiveInitInv, ArchiveStep, PTL DEF ArchiveSpec
  <1>11. ScanSpec => []ScanTypeOK
    <2>1. ScanIInv => ScanTypeOK
      BY DEF ScanIInv
    <2> QED
      BY <2>1, ScanInitInv, ScanStep, PTL DEF ScanSpec
  <1>12. ScoringSpec => []ScoringTypeOK
    <2>1. ScoringInit => ScoringIInv
      BY EmptySeq, ScoringAssumption DEF ScoringInit, ScoringIInv, ScoringTypeOK
    <2>2. ScoringIInv => ScoringTypeOK
      BY DEF ScoringIInv
    <2> QED
      BY <2>1, <2>2, ScoringStepInv, PTL DEF ScoringSpec
  <1>13. CacheSpec => []CacheTypeOK
    <2>1. CacheIInv => CacheTypeOK
      BY DEF CacheIInv
    <2> QED
      BY <2>1, CacheInitInv, CacheStep, PTL DEF CacheSpec
  <1>14. MarketSpec => []MarketTypeOK
    <2>1. MarketIInv => MarketTypeOK
      BY DEF MarketIInv
    <2> QED
      BY <2>1, MarketInitInv, MarketStep, PTL DEF MarketSpec
  <1>15. WeatherSpec => []WeatherTypeOK
    BY WeatherTypes
  <1>16. StudiesSpec => []StudiesTypeOK
    <2>1. StudiesInit => StudiesIInv
      BY ReplayInitInv, WalkInitInv DEF StudiesIInv
    <2>2. StudiesIInv /\ corpusEvents \in Seq(Transcripts) => StudiesTypeOK
      BY StudiesAreTyped DEF StudiesIInv
    <2> QED
      BY <2>1, <2>2, StudiesStepInv, CorpusIsASequence, PTL DEF StudiesSpec
  <1>17. PriceSpec => []PriceTypeOK
    BY PriceStarts, PriceStep, PricesAreTyped, PTL DEF PriceSpec
  <1>18. TeaserSpec => []TeaserTypeOK
    <2>1. TeaserSpec => []TeaserIInv
      BY TeaserStarts, TeaserStep, PTL DEF TeaserSpec
    <2> QED
      BY <2>1, TeasersHeardWereFound, TeasersAreTyped, PTL
  <1>19. /\ LedgerTypeOK
         /\ AccountTypeOK
         /\ IdeasTypeOK
         /\ PnlTypeOK
         /\ ConfigTypeOK
         /\ RiskTypeOK
         /\ OrderTypeOK
         /\ FeedTypeOK
         /\ CatalogTypeOK
         /\ ArchiveTypeOK
         /\ ScanTypeOK
         /\ ScoringTypeOK
         /\ CacheTypeOK
         /\ MarketTypeOK
         /\ WeatherTypeOK
         /\ StudiesTypeOK
         /\ PriceTypeOK
         /\ TeaserTypeOK
         => DeskTypeOK
    BY DEF DeskTypeOK
  <1> QED
    BY DeskRunsEveryPart, <1>1, <1>2, <1>3, <1>4, <1>5, <1>6, <1>7, <1>8, <1>9, <1>10, <1>11,
       <1>12, <1>13, <1>14, <1>15, <1>16, <1>17, <1>18, <1>19, PTL

---------------------------------------------------------------------------
(* The invariants of the parts, of the whole.                              *)

(* None of the four studies lets a prediction see what it predicts, while  *)
(* the board, the archive and the dashboard go on beside them.             *)
THEOREM NoDeskStudyLooksAhead == DeskSpec => []NoStudyLooksAhead
  <1>1. NoLookAhead /\ PriceStudyIsSound /\ TeaserStudyIsSound => NoStudyLooksAhead
    BY DEF NoStudyLooksAhead
  <1> QED
    BY <1>1, DeskRunsEveryPart, StudiesLookBack, PricesAreOfTheirTime, TeasersAreOfTheirDay, PTL

(* What is proved of each part holds of the desk: one statement of all the *)
(* run of MCDesk checks, for every interleaving of the parts.              *)
THEOREM DeskIsRight ==
  DeskSpec =>
    /\ []ExitMatchesPosition
    /\ []ResolvedMarketsAreScored
    /\ []DashboardIsRight
    /\ []ReviewedOnce
    /\ []NoIdeaVanishes
    /\ []AnalyticsAreRight
    /\ []SettingsAreSound
    /\ []ExposureWithinTotal
    /\ []ReplaceNeverOversells
    /\ []BookFollowsExchange
    /\ []WholeBoardIsLoaded
    /\ []RefreshedIsArchived
    /\ []UndegradedScanIsLive
    /\ []ScoringIsSound
    /\ []MarkedHistoryIsFinished
    /\ []MarketIsReadRight
    /\ []WeatherIsReadRight
  BY DeskRunsEveryPart, ExitsMatchPositions, ResolutionsScoreTheirMarket,
     DashboardStaysRight, IdeasAreReviewedOnce, IdeasDoNotVanish, AnalyticsStayRight,
     SettingsStaySound, SlatesStayWithinTotal, ReplacementsStayCovered, BookKeepsFollowing,
     WholeBoardsAreLoaded, RefreshesAreArchived, UndegradedScansStayLive, VerdictsAreSound,
     FreshMarksAreFinished, MarketsAreReadRight, WeatherReadRight, PTL
=============================================================================
