# presyo-watch, modelled and proved

PresyoWatch collects the price-monitoring sheets that regional agriculture
offices publish as PDFs, stores every price as an observation, and serves the
series. This directory holds TLA+ models of the parts that must not lose or
corrupt a price: from the index page of an office to the two tables of prices,
and of what the API says about those tables. TLC checks the models on small
instances; TLAPS proves the theorems for every value of the constants.

All paths below are under `src/presyowatch/` unless they say otherwise.

## 1. The system

| Component | Code | State it keeps | Operations | Modules |
|---|---|---|---|---|
| Observation store | `db/upsert.py`, `db/models.py`, `db/engine.py` | `price_observations`, `observation_revisions`, row locks, open transactions | `upsert_observations`, `collapse_duplicates`, `session_scope` | `Batches`, `Sheets`, `Collapse`, `ObservationStore`, `PriceHistory` |
| Raw cache | `cache.py` | blobs by hash, one metadata record per URL | `lookup`, `store`, `fetch_once`, `verify` | `RawCache` |
| HTTP client and robots gate | `net/client.py`, `net/robots.py` | policies and their age, the time of the last request per host | `get`, `robots_decision`, `policy_for`, throttle, retry, back-off | `HttpClient` |
| Backfill runner | `ingest.py`, `__main__.py` | `ingestion_runs`, `quarantine`, an in-memory tally | `run_backfill` and all it calls | `Backfill` |
| Sheet parser | `sources/bantay_presyo.py` | none | group, amounts and checks of each row | `SheetGroups`, `SheetRows` (partly) |
| Dates, index links | `sources/dates.py`, `sources/index.py` | none | `scrape_index`, `read_date` | `IndexPage`, `DateReading` |
| Reference data, markets | `db/seed.py` | four seeded tables, `markets` | `seed_reference_data`, `resolve_market` | `ReferenceData` |
| Resolvers | `commodities.py`, `places.py` | none after start-up | look-ups | constants of `SheetRows` and `ReferenceData` |
| Anomaly detection | `analytics/anomalies.py` | none | `flag_series`, `is_impossible` | `Anomalies`, `SheetRows` |
| HTTP API | `api/` | none | read-only queries | `ApiReads`, `Anomalies`, `SheetRows` (partly) |
| Settings, logging, migrations, dashboard, CSVs | | none after start-up | | not modelled |

**How they interact.** A scheduled job (`.github/workflows/ingest.yml`) restores
a copy of the raw cache, seeds the reference data from its own checkout of the
CSVs and calls `run_backfill`. The runner reads the index page through the HTTP
client, orders the links that carry a readable date inside the lookback window,
and takes them one at a time: `CachingFetcher.fetch_once` gives the bytes (from
the cache, or through the client and then into the cache), the parser turns them
into rows, the resolvers find the place and the commodities, `resolve_market`
finds or creates the market, and the rows are upserted in one database
transaction per file. Whatever cannot be fetched, dated, parsed, placed or
resolved becomes a `quarantine` row, filed by the transaction of some later file
or by the one that closes the run. The API reads the tables and writes nothing.

**What is hard about it.** Two jobs may overlap: the workflow keeps its own runs
apart, but the command can be run from anywhere. So the store runs under
concurrent transactions with row locks and insert waits, and the reference tables
may be loaded from two versions of the CSVs at once. A job may be killed by its timeout, or end with an exception, between any
two steps of the process. The office corrects a sheet by publishing another one,
or by replacing the bytes behind a URL. Policies expire between requests and
retries. Sheets break their tables over pages in every possible place. An API
request is several statements, and files are published between any two of them
and between one page of a listing and the next. `PROJECT.json` lists these
hazards at the line where each bites, with the properties that guard against it.

## 2. The modules

Each module says in its heading what it models. State variables and actions
keep the names the code uses where TLA+ allows it; `PROJECT.json` maps every
definition to its lines.

* **Batches, Sheets.** What a batch of observations settles (every mention of a
  key agrees) and disputes. The five figures of a row are one value of `Figs`,
  since the code only compares the five together. A natural key is a number.
* **Collapse.** The loop of `collapse_duplicates`, one observation a step, with
  its two dicts. It is proved to compute `Settled` and `Disputed`, which is what
  lets the other modules use those operators instead of the loop.
* **SheetRows.** A row of the table on its way to that loop: `_build_row` with
  its checks, the alias and the unit, and the rounding of `PendingObservation`.
  A row is one step: `Reject` (the parser quarantines it), `HoldUnresolved` (no
  alias, or another unit), or `Take`, an iteration of `Collapse`. It also holds
  the two definitions of an impossible row, the SQL of the quality page and the
  Python of `/anomalies`.
* **PriceHistory.** The abstract store: per key, the list of figures published
  for it with the file each came from. `Publish(f)` is one indivisible step.
* **ObservationStore.** The two tables under PostgreSQL's READ COMMITTED.
  `Begin` is the SELECT's snapshot, `LockRow` one row of `FOR UPDATE` (waits,
  then reads the latest version), `InsertRow` one flushed row, in sheet order,
  which waits for an uncommitted insert of its key; `UniqueViolation`, `Fail`
  and `DeadlockVictim` roll back; `Commit` writes the revisions and the rows
  that replace them. `ImplementsHistory` states that the tables, read as
  `Published`, refine `PriceHistory`.
* **RawCache.** Processes that share the cache directory. An atomic file write
  is one step, but a store is two (blob, then record), with a look-up before
  them, and `Fail` may come between any two. `Rot` is a disk that damages a blob.
* **HttpClient.** One thread: `get` looks at the policy of the URL's origin,
  reads robots.txt when it holds no fresh one, throttles, sends, retries and
  backs off; httpx follows redirects by itself (`FollowRedirect`).
  `DecisionReadsRobots` is `robots_decision`, which reads the gate without a
  request after it. Time passes in `Tick`; each clock stops at a limit beyond
  which the code cannot tell values apart, so behaviours are infinite and the
  state space is not. `age` is the code's `_last_request_at`; `quiet` is the same
  quantity kept by the model, so that a property can compare the two; `late`
  counts, for a property, the content requests issued under an expired policy.
* **Backfill.** The runner from `Start` to `_close_run`, started again and again.
  Its store is `PriceHistory` (what `ObservationStore` implements), its cache a
  set of files, its network `Fetch`, `FetchFails` and `FetchDisallowed`. The job
  can be `Killed` anywhere, and a transaction can fail (`DatabaseRaises`), which
  the code does not catch; reading an index without strays says nothing to the
  database and so cannot fail in it.
* **SheetGroups.** Half of the module is the parser (`_group_per_row` and its
  helpers); the other half is the office, which prints every sheet the parser's
  own comments describe: headings beside the first row, below a page break, or
  two pages on, with the column header or the whole metadata block repeated.
* **DateReading.** `read_date` as operators on a text; a token of the text is a
  month, a day, a year or none.
* **IndexPage.** The page as the parser's events, in any order markup can bring
  them (`handle_starttag`, `handle_data`, `handle_endtag`, `close`), and then the
  loop over the anchors: `SkipForeign`, `SkipDuplicate` and `Resolve`, which
  dates a file from its link text or its name or rejects it.
* **ReferenceData.** Jobs of several versions of the CSVs. A load is one
  transaction: per table a `Select` and then an `Insert` or `Update` a row,
  `NextTable`, `CommitLoad`. Then `OpenRun` reads the commodity ids once, and for
  each sheet `FindMarket`, `CreateMarket` and `FileSheet` are the statements of
  `resolve_market` and its transaction. What a job has written and not committed
  is in `own`, and `End` undoes it. Three variables only serve the properties:
  `disturbed` (another load changed a row meanwhile), `looked` and `saw` (the
  markets a job, or the creator of a market, was shown).
* **ApiReads.** A reader of `PriceHistory` while its writers `Publish`. A request
  is a statement a step: the count and the page of `/observations`, and the
  anchor, the count and the ranking of `/movers`. `arrived`, `left` and `torn`
  record what was published in between, for the properties.
* **Anomalies.** `flag_series` over a series that grows and is revised: `Insert`
  and `Revise` put a price on any day, and what the API would answer is
  recomputed. Medians are kept doubled and comparisons cross-multiplied, so that
  the arithmetic is exact.
* **MC\*** modules give constants to TLC; **\*_proofs** hold the proofs:
  `Sources_proofs` those about the index page, its dates and the sheets' groups,
  `Api_proofs` those about what readers are shown, by `Anomalies` and `ApiReads`.

Composition: `SheetRows` drives `Collapse` and is proved to implement it;
`ObservationStore` and `PriceHistory` use the operators `Collapse` computes;
`ObservationStore` refines `PriceHistory`, which is the store `Backfill` writes
and `ApiReads` reads; that these two implement it as well, one by publishing
whole files through every failure, the other by writing nothing, is proved.

### Abstractions to know about

* robots.txt rules are a set of URLs per policy; Protego's matching is external.
  Redirects of robots.txt itself are not modelled. `quiet` counts the requests
  the client issues, not the hops httpx follows by itself (see section 4).
* In `Backfill`, a link is posted only between runs or before the run has read
  its index, because a link posted later cannot be told from one posted after
  the run. The restored cache is any subset of the files cached before.
* A sheet's printed date determines its keys (`KeysCarryTheSheetDate`), as
  `observed_on` is part of the natural key.
* In `SheetGroups`, a block that opens a page other than the first carries its
  heading on that page, or has it behind; half of a split heading is one blank
  cell.
* `SheetRows` starts from cells that are already an amount, blank or unreadable;
  amounts are naturals in tenths of a centavo, without a largest one.
* In `IndexPage`, fuzzy matching of month names is left out (a token is a month
  or is not), and the markup parser and the resolution of URLs are external: an
  `href` is a canonical URL of the source or `Foreign`. The date bounds that
  `scrape_index` accepts (`_outside_bounds`) are left out too: `run_backfill`
  passes none and applies its lookback window afterwards (`InWindow`).
* In `ReferenceData`, a place is a normalised spelling with its region, and the
  `sources` table, loaded the way `regions` is, is left out.
* In `ApiReads`, `ColumnsAreNumbers`: days, ids and averages are integers (dates,
  serial keys, and a `Numeric(12, 2)` column counted in centavos), and a series,
  a commodity at a market, is the number its two ids give it in the order
  `list_movers` ends with. A series has one row a day, as it has with the one
  source there is, and the reader asks for page after page until it has as many rows as the
  last total.
* In `Anomalies`, the threshold and the floor are the defaults, and 3.5 times
  the mean-deviation scale is written in millionths.

## 3. The runs

| Run | Instance and bounds | What it shows |
|---|---|---|
| `rows` | 2 commodities, sheets of 3 rows; 132,810 states | the batch is exactly the commodities described one way and the others are reported; a row the parser passes never raises in the writer; a rerun stores what is stored; the quality page and `/anomalies` agree |
| `store` | 2 writers, 2 keys, 3 sheets, 5 transactions; 5,528 states | no overwritten figure is lost, rows credit the right file, the tables refine `PriceHistory` (a file lands whole or not at all), every transaction ends |
| `cache` | 2 processes, 3 spellings of 2 URLs, 2 bodies, 3 downloads a URL; 68,844 states | a record leads to its blob, an undisturbed record is permanent, a URL once handed out is never downloaded again |
| `http_client` | 2 origins on one host, a redirect between them, floor 2, Crawl-delay 3, expiry after 5 ticks, 2 attempts; 90,992 states | every attempt is permitted, intervals are kept, an expired policy serves out one `get` and no other, every `get` ends |
| `backfill` | 5 links, 2 days, 2 runs; 555,750 states | counters add up, nothing is dropped, nothing is dated in the future, success means complete, corrections win, every run ends |
| `backfill_rerun` | same | violated: reruns over a sheet and its correction add revisions for ever |
| `backfill_escape` | same, no kill from outside | violated: a failed transaction leaves the run row "running" |
| `sheet_groups` | 4 commodities, 3 groups, 3 pages; 289,735 states | no commodity is filed under another group; a row is refused only where no heading was drawn yet |
| `index` | pages of 3 anchors and 3 tokens, 2 files, 2 months, 2 days; 891,183 states | a written date is read whatever surrounds it, none is put together from two places, the first link of a file decides, every candidate is counted once |
| `reference` | 3 jobs, two at a time, 3 versions, 3 sheets; 810,579 states | a load nobody disturbs leaves its CSVs in the tables, what a job resolves is there, a place gets two markets only from two transactions that looked at once |
| `api` | 5 keys in 2 series, 4 files, 5 publications, 2 rows a page; 57,063 states | what a reader of pages misses, reads twice or sees miscounted is exactly what a publication in between explains; movers compare the ends of their window |
| `anomalies` | 4 prices and blanks, 6 days, windows 4 and 5; 39,062 states | the ends of a series are judged like the rest, a lone spike is caught and nothing else, news far away changes no verdict |

**Why these bounds.** Three rows make a first mention, a repeat and a dispute,
and a batch with one of each; the prices 52.0, 52.4, 52.5 and 52.6 centavos lie
on both sides of the rounding. The store's sheets are a sheet, a correction that
lists the keys in the other order (so that inserts and locks can meet in a cycle)
and a sheet that disputes a key with itself; five transactions allow a
correction, a correction back and a conflict of the two writers on the way. The
cache needs two processes for a race, two URLs with one body for a shared blob
and two bodies of one URL for a file replaced in place; three downloads allow
each process one and one after a crash. Two attempts make a first one, a retry
and an exhausted budget. An expiry of five ticks is longer than any interval and
shorter than a `get` with retries, so a policy can expire during one: before its
first request, between two attempts, or once it is over. The
runner's five links are a sheet and its correction, a sheet that may only be
stored on the second day, one that cannot be parsed and one nobody can date; two
runs are a run and a rerun. In that instance links claim the date the sheet
prints; the proofs cover links that do not.

Three anchors are two links to one file and one between them, or a link nested in
another; three tokens make a date, in one text or spread over texts, and the file
names carry more. February and July, the 5th and the 30th contain a date that is
none. The versions of the CSVs differ in a name, in a unit, and in a commodity
with an alias re-pointed to it, so that two loads can leave a row half one and
half the other; two of the three sheets spell one market differently, and three
jobs let one start after two have met. The four files are the first days of two
series, a later day, a correction with an earlier day, and a row that loses its
figures: between them a publication puts a row before the reader, behind it, and
takes one away. Six days with windows of four and five put a point at both ends
and in the middle, in an even and an odd window.

Deadlock checking is off only where a bound ends a behaviour; `HttpClient` can
always tick, and a series can always be revised.

Every property of these runs has a mutant in `PROJECT.json`: a plausible bug in
one mapped definition that the run finds. Type invariants are proved instead of
run where there is a proof.

**Fairness.** Store: weak fairness of each writer's next statement and of the
deadlock detector, since a connected writer keeps executing and PostgreSQL runs
the detector after `deadlock_timeout`. Nothing obliges a writer to begin or to
fail. Client: weak fairness of the thread's own steps, of the end of a sleep and
of an answer, because httpx is given timeouts and every request is answered or
raises. Runner: weak fairness of its next step, which `EveryGetEnds` and
`EveryTransactionEnds` justify. The other modules state safety only: a row, a
page, a load and a request of the API are loops over finite lists.

## 4. What the code does that its documents deny

1. `backfill_rerun`: a window with a sheet and its correction does not converge:
   each run revises the key twice. `EveryRevisionChanges` still holds, as each
   revision really changes the figures back.
2. `backfill_escape`: only `RobotsDisallowedError` and `HttpRequestError` are
   caught, so any database error leaves the run row open.

Other places where code and text part, met while modelling, which no run claims:

* `cache.py:50-56` promises a `CacheConflictError` for a URL stored again with
  other bytes. `store()` looks up and writes in separate steps, so the second of
  two racing processes replaces a record without one. `EntriesArePermanent` is
  therefore about a record no store is racing with, and `OneProcessKeepsRecords`
  proves the promise for a single process.
* `net/client.py:8-11` says that every request passes the gate;
  `follow_redirects=True` sends one that no gate saw.
* `_looks_like_a_range` looks after the month only: "19-24 July 2026" is read as
  24 July. `TheWrittenDateIsRead` is about a date that stands alone in its text.
* `.github/workflows/ingest.yml:23-25` says overlapping runs would be correct;
  two that meet a new market in two spellings make two of it. `TwinsLookedAtOnce`
  states that nothing else does.
* `tests/api/test_api.py:223` finds no row on two pages; that holds while nothing
  is published in between, which `RepeatsWerePushedBack` makes precise.
* `sources/bantay_presyo.py:177-180` says that what the database would refuse is
  caught in the parser; an amount too large for `Numeric(12, 2)` is not.
* `UpsertOutcome.rejected` (`db/upsert.py:165`) leaves out the repeats that agreed
  before the dispute; nothing reads it.

## 5. What is proved

The assumptions are the named ASSUMEs of the modules: constants have their
types, the sentinels are no values, the sets of writers and files are finite,
`Longest` is as large as every interval, no alias dangles
(`CommodityResolver` refuses to start on one that does). TLC evaluates them in every run. No theorem bounds
the number of processes, files, keys, runs, jobs or requests, nor the length of a
sheet or a page.

* **Rows and batches** (`Collapse_proofs`). `LoopInv`: `settled` maps a key
  exactly when the batch so far describes it one way, and a disputed key is
  described in two ways at least. The second half is needed because a disputed
  key has left `settled` and must never come back. It gives `LoopSettles` and
  `LoopReports`; `RowsImplementTheLoop` shows that reading a sheet row by row is
  that loop (a `Take` is an iteration, the rest stutters), and `RowsAreCollapsed`
  carries the result over. `RowsAreValid` rests on `Rounding`: rounding keeps the
  order of two prices, so it cannot turn a range the parser has checked upside
  down. `RowInv`, that a batch holds rounded rows the parser let through, gives
  `RerunsAreQuiet` and `QualityAgrees`; `RowsAreTyped` adds the counts.
* **Store** (`ObservationStore_proofs`). `IInv` adds to the types
  `TransactionInv` (a row that was read stays locked and current; an insert is
  exclusive) and the shape of the history. Without the first, `Commit` could
  revise a row another commit had changed. From it follow `StoreHistoryComplete`,
  `StoreRevisionsChange`, `StoreProvenance`, and the refinement
  `StoreImplementsHistory`: `Commit` maps to `Publish(f)`, every other step to a
  stutter.
* **Cache** (`RawCache_proofs`). `CacheInv`: a process about to write a record
  has its blob on disk, which carries `RecordsHaveBlobs` over any crash. Gives
  `CacheReadsBack` and `CacheResultsOnDisk`; `CacheKeepsRecords` needs the types
  only, and `CacheNeverRefetches` that what was handed out is on record.
* **Client** (`HttpClient_proofs`). `GateInv`: while a content request is on its
  way the current policy of its origin permits it, because only the reading of a
  robots.txt replaces a policy and the thread does one thing at a time.
  `ThrottleInv`: both records of a host's last request agree, a request waits
  for at least the floor and its policy's delay, and a sleep lasts for what is
  missing. They give `ClientAsksPermission`, `ClientLeavesHostsAlone` and
  `ClientHonoursCrawlDelay`. `LateInv`, for `ExpiryEndsWithTheGet`: a fresh policy
  has served no late request, and the `get` under way has issued every late
  request there is under its policy, each with an attempt of its own. The first
  half is what lets the next `get` start from zero, although retries may have
  gone on long after the expiry.
* **Runner** (`Backfill_proofs`). `Ledger`: what a run has counted as quarantined
  is filed or held, and its row is the last one. `LoopInv`: what the loop has
  processed precedes what it has not and, while no file has failed, every key has
  the figures of the last processed file about it. `AccountInv`: a processed
  entry is filed, held or published. They give `BackfillAddsUp`,
  `BackfillConserves`, `BackfillSucceedsWhole`, `BackfillAppliesCorrections`,
  `BackfillDropsNothing` and, with `Dated`, `BackfillNeverAheadOfTime`, for any
  index, any dates the links claim, and any crash.
* **Index, dates, groups** (`Sources_proofs`). Texts hold what tokens can be read
  as, and an entry is credited to the text it came from: `DatesAreReal` and
  `DatesAreNotInvented`. `WhatIsSaidIsRead` follows `read_date` through its cases
  for a text with one month, one day beside it and one year: with the invariant
  `Kept`, that an outcome is what `_resolve_entry` makes of its link, it gives
  `WrittenDatesAreRead`. `CandidatesAreAccounted` counts: each anchor taken adds
  one to one of the lists. `Decided`, that the loop remembers
  exactly the files it has seen linked and has decided each by its first link, in
  page order, gives `FirstLinksDecide`.
  `SheetInv` has the office's half of the sheets: a heading is its own block's
  (`RowsArePrinted`), a cell that reaches forward has its heading next or is owed
  it (`HeadingsAreAhead`), and any other row without one continues the block of
  the row before (`HeadingsAreBehind`). The parser's forward pass is a recursive
  function of the row (`ForwardPass`), and `CarriedIsTheBlock`, by induction over
  the rows of a finished sheet, says what it carries: nothing, or the block of the
  last commodity. Hence `CommoditiesAreFiledRight` and `HeadedRowsAreKept`.
* **Reference data** (`ReferenceData_proofs`). `LoadInv`: a job has written only
  in tables it has reached, and what it found there stays, since nobody deletes a
  row. `Converges` adds what an undisturbed load has done in the tables behind it,
  for `ReferenceConverges`; `Resolves` that those tables hold its CSVs' keys,
  whoever wrote them, for `ReferenceResolves`. `MarketInv`: a job that means to
  create a market was shown none of its place, and a market's creator likewise.
  So of two markets of a place neither was shown to the other's creator
  (`ReferenceTwins`), and a sheet's prices lie under its own place
  (`ReferencePrices`).
* **Verdicts** (`Api_proofs`, about `Anomalies`). The invariant is `Answered`: the
  flags are those of the series as it is. What remains is about `flag_series`:
  `RankedIsOne` (there is an r-th smallest value, by counting), `RankedIsBounded`
  (enough values on one side of a bound put the r-th there) and `MedianMoves` (a
  median does not depend on where its values stand) carry the rest. A series read
  backwards has mirrored windows, hence bijections between neighbours, hence the
  same medians and sums (`EndsAreLikeTheRest`); a window away, the window and all
  in it are unchanged or shifted as one (`DistantNewsIsNoNews`); both tests of a
  verdict only grow with the distance from the median (`FlagsAreMonotone`). For
  `LoneSpikesAreCaught`, a spike stands out of prices within a tenth of each other
  on either scale (`SpikeStandsOut`); the others stay in because one value among
  three does not take the median out of the range of the rest
  (`MedianWithstandsOne`), and with a single other price nobody is far from the
  two (`NobodyIsFarFromTwo`).
* **Pages** (`Api_proofs`, about `ApiReads`). `EveryoneHasAPlace`: a strict total
  order of a finite set gives each element as many predecessors as its place
  says, and each place an element; `PagesAreInOrder` is what LIMIT and OFFSET make
  of it. `ReceivedAreBehind`: while a reader pages, a row it has received is
  before its offset or was pushed back by one that arrived, which gives
  `RepeatsHaveACause`. `NothingIsSkipped`: a row that was there all along has been
  received or is at the offset or after it, as long as nothing left; with
  `Counted`, that an untorn total is the count of the listing, it gives
  `PagingMissesNothing`. `Counted` and `MoversCounted`, the same of `/movers`,
  give `TotalsMatch`.
* **Movers** (the same module). That `Larger` orders the moves needs that the
  shares, fractions compared by their products, are ordered
  (`FractionsAreOrdered`), and that a series has one move (`SeriesMoveOnce`, from
  `OneRowADay`). `MoversAreRanked` then follows from `ShownInOrder` and from what
  the row numbers of both ends say of a series with two days.
* **Composition.** `BackfillImplementsHistory` and `ReadersWriteNothing`: the
  runner and the readers share `PriceHistory` as their store, as
  `StoreImplementsHistory` allows.

Induction over data (the forward pass of the parser, sums over a window, the
places of an order) is by least counterexample: the naturals are well-founded,
so a set of failures has a least one (`LeastOfNaturals`, `UpTo`, `BySize`).

Two definitions were changed because of the proofs. Two guards of the `CASE` in
`WindowAt` held at once where a whole window begins at the first row, so that
TLA+ left open which was meant; they are disjoint now, as the nested `if` of
`_neighbours` is. `InOrder` replaces the sorting operator of the community
modules, of which the provers see only the name.

**Only model-checked.** Liveness (`EveryTransactionEnds`, `EveryGetEnds`,
`EveryRunEnds`), which needs fairness and ENABLED. Every invariant and every
action property of the passing runs is proved. The two violations are
counterexamples and need no proof.

## 6. Not modelled, and what is left

* **Sheet header**: market, date and source fields of the header block, each a
  conversion of one cell with unit tests.
* **API**: the lists of reference data and of runs, the filters that only narrow
  a listing, the response schemas, and of the quality page all but the count of
  impossible rows. No endpoint lists `quarantine` rows or revisions: the first
  are only counted by stage on the quality page, the second not read at all.
* **Settings and logging** keep no state after start-up; **migrations** are
  generated and run before any job; the **dashboard** only reads the API; the
  **CSVs** are data.
* pdfplumber, httpx, Protego, html.parser and PostgreSQL are external and appear
  by what the code relies on.

Three hazards have no property on purpose: nothing in the code checks where a
redirect leads (`net/client.py:131`); by design the floor alone separates a
robots.txt request from the one before it (`net/client.py:207`); and the
overflow of an amount (`sources/bantay_presyo.py:285`) lies outside the naturals
of `SheetRows`, although what it leads to, a raising transaction, is
`DatabaseRaises` of `Backfill`.

Left to do: the header block as operators beside `SheetRows`; the other filters
of the API, and with them a reader that mixes filters between two pages.

## 7. Running it

    tlc -config store.cfg MCObservationStore.tla
    tlc -config backfill.cfg MCBackfill.tla
    tlc -config reference.cfg MCReferenceData.tla
    tlapm ObservationStore_proofs.tla

Each `.cfg` belongs to the module `PROJECT.json` names for its run; the longest
run takes about a minute and a half.
