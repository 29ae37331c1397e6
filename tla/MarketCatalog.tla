----------------------------- MODULE MarketCatalog -----------------------------
(***************************************************************************)
(* How the board reaches the shared tables: scripts/fetch_markets.py pages *)
(* through the exchange's open markets with checkpoints and a resume, and  *)
(* writes live_markets.json; scripts/load_markets_to_supabase.py upserts   *)
(* that file in batches.                                                   *)
(*                                                                         *)
(* A page holds one market, named by the page's number; the board does not *)
(* change meanwhile.  A cursor is the number of the next page, and 0 is    *)
(* the empty cursor: what the exchange sends with the last page, and what  *)
(* asks for the first.  load_markets_to_supabase reads the file as it was  *)
(* when it opened it.                                                      *)
(***************************************************************************)
EXTENDS Naturals, Sequences, FiniteSets

CONSTANTS
  NPages,           \* pages of the board
  CheckpointPages,  \* --checkpoint-pages
  BatchRows,        \* rows of one upsert
  MaxFetched,       \* bound on the markets a file lists
  NoFile, Torn      \* no such file; one write_text has emptied

ASSUME CatalogAssumption ==
  {NPages, CheckpointPages, BatchRows, MaxFetched} \subseteq Nat \ {0}

Pages == 1 .. NPages

VARIABLES
  fetchAt,      \* "idle", "paging", "paged"
  fetched,      \* the markets so far, in order
  cursor, pageNo,
  marred,       \* history: the fetch was cut by --limit, or resumed from a
                \* checkpoint written after the last page
  checkpoint,   \* NoFile, Torn or [markets, cursor, page, marred]
  output,       \* NoFile, Torn or [markets, marred]
  loading,      \* rows the loader has still to send
  loaderAt,     \* "idle", "loading", "done"
  loaderMarred, \* history: a request of the loader failed, or its file is marred
  loadWritten   \* the tickers this load has put into public.markets

fetchVars   == <<fetchAt, fetched, cursor, pageNo, marred>>
loadVars    == <<loading, loaderAt, loaderMarred, loadWritten>>
catalogVars == <<fetchVars, checkpoint, output, loadVars>>

MarketLists == Seq(Pages)

CatalogTypeOK ==
  /\ fetchAt \in {"idle", "paging", "paged"}
  /\ fetched \in MarketLists /\ loading \in MarketLists
  /\ cursor \in 0 .. NPages /\ pageNo \in Nat
  /\ marred \in BOOLEAN /\ loaderMarred \in BOOLEAN
  /\ checkpoint \in {NoFile, Torn}
       \cup [markets : MarketLists, cursor : 0 .. NPages, page : Nat, marred : BOOLEAN]
  /\ output \in {NoFile, Torn} \cup [markets : MarketLists, marred : BOOLEAN]
  /\ loaderAt \in {"idle", "loading", "done"}
  /\ loadWritten \subseteq Pages

CatalogInit ==
  /\ fetchAt = "idle" /\ fetched = <<>> /\ cursor = 0 /\ pageNo = 0 /\ marred = FALSE
  /\ checkpoint = NoFile /\ output = NoFile
  /\ loading = <<>> /\ loaderAt = "idle" /\ loaderMarred = FALSE
  /\ loadWritten = {}

Readable(f) == f \notin {NoFile, Torn}

---------------------------------------------------------------------------
(* fetch_markets.py                                                        *)

(* A run without --resume leaves an older checkpoint where it is.          *)
FetchFresh ==
  /\ fetchAt = "idle"
  /\ fetchAt' = "paging"
  /\ fetched' = <<>> /\ cursor' = 0 /\ pageNo' = 0 /\ marred' = FALSE
  /\ UNCHANGED <<checkpoint, output, loadVars>>

(* --resume: the checkpoint's cursor, and the empty one is the first page. *)
FetchResume ==
  /\ fetchAt = "idle"
  /\ Readable(checkpoint)
  /\ fetchAt' = "paging"
  /\ fetched' = checkpoint.markets /\ cursor' = checkpoint.cursor /\ pageNo' = checkpoint.page
  /\ marred' = (checkpoint.marred \/ checkpoint.cursor = 0)
  /\ UNCHANGED <<checkpoint, output, loadVars>>

PageAt == IF cursor = 0 THEN 1 ELSE cursor
CursorAfter == IF PageAt = NPages THEN 0 ELSE PageAt + 1

\* Mutant: the checkpoint has the cursor that led to its last page.
BugSaveCheckpoint(markets, cur, page) ==
  [markets |-> markets, cursor |-> cursor, page |-> page, marred |-> marred]

\* save_checkpoint
SaveCheckpoint(markets, cur, page) ==
  [markets |-> markets, cursor |-> cur, page |-> page, marred |-> marred]

(* One page.  --limit is looked at only when there is another page.        *)
FetchPage(limitReached) ==
  /\ fetchAt = "paging"
  /\ Len(fetched) < MaxFetched
  /\ fetched' = Append(fetched, PageAt)
  /\ cursor' = CursorAfter
  /\ pageNo' = pageNo + 1
  /\ checkpoint' = IF (pageNo + 1) % CheckpointPages = 0
                   THEN SaveCheckpoint(fetched', cursor', pageNo') ELSE checkpoint
  /\ fetchAt' = IF CursorAfter = 0 \/ limitReached THEN "paged" ELSE "paging"
  /\ marred' = (marred \/ (limitReached /\ CursorAfter # 0))
  /\ UNCHANGED <<output, loadVars>>

(* enrich_categories (a failure is swallowed), save_snapshot, unlink.      *)
FetchSaves ==
  /\ fetchAt = "paged"
  /\ output' = [markets |-> fetched, marred |-> marred]
  /\ checkpoint' = NoFile
  /\ fetchAt' = "idle"
  /\ UNCHANGED <<fetched, cursor, pageNo, marred, loadVars>>

(* A request raises, or the process dies, perhaps in the middle of a file. *)
FetchDies ==
  /\ fetchAt \in {"paging", "paged"}
  /\ fetchAt' = "idle"
  /\ \/ UNCHANGED <<checkpoint, output>>
     \/ fetchAt = "paging" /\ checkpoint' = Torn /\ UNCHANGED output
     \/ fetchAt = "paged" /\ output' = Torn /\ UNCHANGED checkpoint
  /\ UNCHANGED <<fetched, cursor, pageNo, marred, loadVars>>

(* --enrich-only: a checkpoint that was left over becomes the board.       *)
EnrichOnly ==
  LET source == IF checkpoint # NoFile THEN checkpoint ELSE output IN
  /\ fetchAt = "idle"
  /\ Readable(source)
  /\ output' = [markets |-> source.markets, marred |-> checkpoint # NoFile \/ source.marred]
  /\ checkpoint' = NoFile
  /\ UNCHANGED <<fetchVars, loadVars>>

---------------------------------------------------------------------------
(* load_markets_to_supabase.py                                             *)

LoadBegin ==
  /\ loaderAt # "loading"
  /\ Readable(output)
  /\ loaderAt' = "loading"
  /\ loading' = output.markets
  /\ loaderMarred' = output.marred
  /\ loadWritten' = {}
  /\ UNCHANGED <<fetchVars, checkpoint, output>>

Batch == SubSeq(loading, 1, IF Len(loading) < BatchRows THEN Len(loading) ELSE BatchRows)
Rows(s) == {s[i] : i \in DOMAIN s}

(* upsert_markets, one batch.  Postgres refuses one that holds a key       *)
(* twice; a batch that fails is logged and passed over.                    *)
LoadBatch(answered) ==
  LET distinct == Cardinality(Rows(Batch)) = Len(Batch) IN
  /\ loaderAt = "loading" /\ loading # <<>>
  /\ loading' = SubSeq(loading, Len(Batch) + 1, Len(loading))
  /\ loadWritten' = IF answered /\ distinct THEN loadWritten \cup Rows(Batch) ELSE loadWritten
  /\ loaderMarred' = (loaderMarred \/ ~answered)
  /\ UNCHANGED <<loaderAt, fetchVars, checkpoint, output>>

LoadEnd ==
  /\ loaderAt = "loading" /\ loading = <<>>
  /\ loaderAt' = "done"
  /\ UNCHANGED <<loading, loaderMarred, loadWritten, fetchVars, checkpoint, output>>

---------------------------------------------------------------------------

CatalogNext ==
  \/ FetchFresh
  \/ FetchResume
  \/ \E limitReached \in BOOLEAN : FetchPage(limitReached)
  \/ FetchSaves
  \/ FetchDies
  \/ EnrichOnly
  \/ LoadBegin
  \/ \E answered \in BOOLEAN : LoadBatch(answered)
  \/ LoadEnd

CatalogSpec == CatalogInit /\ [][CatalogNext]_catalogVars

---------------------------------------------------------------------------

(* A load whose requests were all answered has put the whole board into   *)
(* the markets table, however often the fetch behind it died and was resumed:  *)
(* no page is skipped, and none is listed twice, which would lose the      *)
(* batch that holds both.  The exceptions are in the code: --limit,        *)
(* --enrich-only over a checkpoint, and a resume from a checkpoint that    *)
(* was written after the last page, which starts over at the first.        *)
WholeBoardIsLoaded == loaderAt = "done" /\ ~loaderMarred => loadWritten = Pages
=============================================================================
