------------------------------ MODULE Backfill ------------------------------
(***************************************************************************)
(* run_backfill (ingest.py): one runner, started again and again by an     *)
(* unreliable schedule, that reads a source's index, and for every file of *)
(* the lookback window fetches, parses and stores it or quarantines the    *)
(* reason, each file in a transaction of its own.                          *)
(*                                                                         *)
(* The observation store is the abstract one of PriceHistory, which        *)
(* ObservationStore is shown to implement; the raw cache is the set of     *)
(* files it can serve, which is what RawCache promises.                    *)
(***************************************************************************)
EXTENDS Sheets, Integers, FiniteSets, Functions

CONSTANTS
    Index,        \* every file the office will link, in the index's order
    Undated,      \* files whose link carries no readable date
    IndexDate,    \* the day the link of a file claims
    SheetDate,    \* the day printed on the sheet, which its keys carry
    Unparseable,  \* files parse_sheet raises SheetParseError for
    Unmapped,     \* files whose province nobody has seeded
    Rejected,     \* Rejected[f]: rows of f that parse_sheet rejects
    Unresolved,   \* Unresolved[f]: rows of f that no alias resolves
    Lookback,     \* days of the lookback window
    Killable,     \* whether the job may be killed from outside
    IndexPage,    \* the quarantine rows of links, which name no file
    FirstDay, LastDay,  \* bound: the days a behaviour spans
    MaxRuns       \* bound: runs over a behaviour

ASSUME IndexListsTheFiles ==
    /\ Index \in Seq(Files)
    /\ Files = Range(Index)
    /\ \A i, j \in DOMAIN Index : Index[i] = Index[j] => i = j
ASSUME FilesAreDescribed ==
    /\ IsFiniteSet(Files)
    /\ Undated \subseteq Files /\ Unparseable \subseteq Files /\ Unmapped \subseteq Files
    /\ IndexDate \in [Files -> Nat] /\ SheetDate \in [Files -> Nat]
    /\ Rejected \in [Files -> Nat] /\ Unresolved \in [Files -> Nat]
ASSUME KeysCarryTheSheetDate ==
    \A f, g \in Files : SheetDate[f] # SheetDate[g] =>
        {Sheet[f][i].key : i \in DOMAIN Sheet[f]} \cap {Sheet[g][i].key : i \in DOMAIN Sheet[g]} = {}
ASSUME BoundsAreNatural ==
    /\ Lookback \in Nat /\ MaxRuns \in Nat
    /\ FirstDay \in Nat /\ LastDay \in Nat /\ FirstDay <= LastDay
ASSUME KilledOrNot == Killable \in BOOLEAN
ASSUME IndexPageIsNoFile == IndexPage \notin Files

VARIABLES
    \* the world
    listed,      \* files the index links today
    today,
    \* the database and the disk
    history,     \* the observation store
    runs,        \* ingestion_runs, oldest first
    quarantine,  \* quarantine[r]: what each row filed under run r is about
    cached,      \* files the raw cache can serve
    \* the process
    pc,
    asOf,        \* the run's own today
    entries,     \* the index entries of the window
    todo,        \* those not processed yet
    status,
    tally,       \* the counters of _Tally
    held         \* _Tally.quarantine: rows no transaction has taken yet

world == <<listed, today>>
tables == <<history, runs, quarantine>>
vars == <<world, tables, cached, pc, asOf, entries, todo, status, tally, held>>

Store == INSTANCE PriceHistory

Fresh == [seen |-> 0, fetched |-> 0, failed |-> 0, upserted |-> 0, quarantined |-> 0]

Init ==
    /\ listed = {}
    /\ today = FirstDay
    /\ Store!Init
    /\ runs = <<>>
    /\ quarantine = <<>>
    /\ cached = {}
    /\ pc = "off"
    /\ asOf = FirstDay
    /\ entries = {}
    /\ todo = {}
    /\ status = "running"
    /\ tally = Fresh
    /\ held = <<>>

-----------------------------------------------------------------------------
\* n rows about x.
Rows(x, n) == [i \in 1..n |-> x]

\* flush_into, in the transaction that is about to commit with rows.
Flush(rows) ==
    /\ quarantine' = [quarantine EXCEPT ![Len(runs)] = @ \o rows]
    /\ held' = <<>>

\* Where the index links f.
Position(f) == CHOOSE i \in DOMAIN Index : Index[i] = f

\* Mutant of Precedes: newest first, and within a day the index reversed.
NewestFirst(f, g) ==
    \/ IndexDate[f] > IndexDate[g]
    \/ IndexDate[f] = IndexDate[g] /\ Position(f) > Position(g)

\* sorted() by index date is stable: the index's own order decides ties.
Precedes(f, g) ==
    \/ IndexDate[f] < IndexDate[g]
    \/ IndexDate[f] = IndexDate[g] /\ Position(f) < Position(g)

\* What scrape_index makes of the page: entries, and links without a date.
Listing == listed \ Undated
Strays == listed \cap Undated

InWindow(f) == f \in Listing /\ asOf <= IndexDate[f] + Lookback

\* f is the entry the loop has reached.
Current(f) == f \in todo /\ \A g \in todo \ {f} : Precedes(f, g)

-----------------------------------------------------------------------------
\* The office links another file; the day ends.  A link posted while a run is past
\* its only read of the index might as well be posted after the run.
Post ==
    /\ pc \in {"off", "discover"}
    /\ \E f \in Files \ listed : listed' = listed \cup {f}
    /\ UNCHANGED <<today, tables, cached, pc, asOf, entries, todo, status, tally, held>>

NextDay ==
    /\ today < LastDay
    /\ today' = today + 1
    /\ UNCHANGED <<listed, tables, cached, pc, asOf, entries, todo, status, tally, held>>

\* The schedule fires: main and _open_run.  The workflow restores a copy of the
\* cache that may miss files.
Start ==
    /\ pc = "off"
    /\ Len(runs) < MaxRuns
    /\ asOf' = today
    /\ runs' = Append(runs, [status |-> "running", seen |-> 0, fetched |-> 0,
                             upserted |-> 0, quarantined |-> 0])
    /\ quarantine' = Append(quarantine, <<>>)
    /\ cached' \in SUBSET cached
    /\ pc' = "discover"
    /\ UNCHANGED <<world, history, entries, todo, status, tally, held>>

\* _discover reads the index: undatable links are quarantined in a transaction
\* of their own, the rest is put in order.
Discover ==
    /\ pc = "discover"
    /\ LET strays == Rows(IndexPage, Cardinality(Strays)) IN
        /\ tally' = [tally EXCEPT !.quarantined = @ + Len(strays)]
        /\ Flush(held \o strays)
    /\ entries' = {f \in listed : InWindow(f)}
    /\ todo' = entries'
    /\ pc' = "files"
    /\ UNCHANGED <<world, history, runs, cached, asOf, status>>

\* The index is unavailable, or robots.txt forbids it.
DiscoverFails ==
    /\ pc = "discover"
    /\ status' = "failed"
    /\ pc' = "close"
    /\ UNCHANGED <<world, tables, cached, asOf, entries, todo, tally, held>>

\* _fetch of the next entry: the cache has it, or the network gives it ...
Fetch ==
    /\ pc = "files"
    /\ \E f \in todo :
        /\ Current(f)
        /\ tally' = [tally EXCEPT !.seen = @ + 1,
                                  !.fetched = IF f \in cached THEN @ ELSE @ + 1]
        /\ cached' = cached \cup {f}
    /\ pc' = "store"
    /\ UNCHANGED <<world, tables, asOf, entries, todo, status, held>>

\* Mutant of FetchFails: a dead link is counted and skipped, with no reason kept.
SkipsSilently ==
    /\ pc = "files"
    /\ \E f \in todo \ cached :
        /\ Current(f)
        /\ todo' = todo \ {f}
    /\ tally' = [tally EXCEPT !.seen = @ + 1, !.failed = @ + 1]
    /\ UNCHANGED <<world, tables, cached, pc, asOf, entries, status, held>>

\* ... or the link is dead, or its bytes conflict with what the cache holds:
\* the reason is held for the next transaction, whichever file that is for.
FetchFails ==
    /\ pc = "files"
    /\ \E f \in todo \ cached :
        /\ Current(f)
        /\ held' = Append(held, f)
        /\ todo' = todo \ {f}
    /\ tally' = [tally EXCEPT !.seen = @ + 1, !.failed = @ + 1, !.quarantined = @ + 1]
    /\ UNCHANGED <<world, tables, cached, pc, asOf, entries, status>>

\* ... or robots.txt forbids it, which ends the run.
FetchDisallowed ==
    /\ pc = "files"
    /\ \E f \in todo \ cached : Current(f)
    /\ tally' = [tally EXCEPT !.seen = @ + 1]
    /\ status' = "failed"
    /\ pc' = "close"
    /\ UNCHANGED <<world, tables, cached, asOf, entries, todo, held>>

\* The transaction of file f commits with these rows and the loop moves on.
Settle(f, rows, failed, upserted) ==
    /\ tally' = [tally EXCEPT !.quarantined = @ + Len(rows), !.failed = @ + failed,
                              !.upserted = @ + upserted]
    /\ Flush(held \o rows)
    /\ todo' = todo \ {f}
    /\ pc' = "files"
    /\ UNCHANGED <<world, runs, cached, asOf, entries, status>>

QuarantineUnparseable ==
    /\ pc = "store"
    /\ \E f \in Unparseable : Current(f) /\ Settle(f, <<f>>, 1, 0)
    /\ UNCHANGED history

\* Mutant of _place: the date on the sheet is not compared with the run's.
PlacesAnyDate(f) == f \notin Unmapped

\* _place: a sheet of an unknown province, or dated after the run, is unusable.
_place(f) == f \notin Unmapped /\ SheetDate[f] <= asOf

QuarantineMisplaced ==
    /\ pc = "store"
    /\ \E f \in todo \ Unparseable :
        /\ Current(f)
        /\ ~_place(f)
        /\ Settle(f, Rows(f, Rejected[f] + 1), 1, 0)
    /\ UNCHANGED history

\* _store: the file's settled rows are published, every row nobody could read
\* or resolve and every key the sheet disputes is quarantined.
_store ==
    /\ pc = "store"
    /\ \E f \in todo \ Unparseable :
        /\ Current(f)
        /\ _place(f)
        /\ Store!Publish(f)
        /\ Settle(f, Rows(f, Rejected[f] + Unresolved[f] + Cardinality(Disputed(Sheet[f]))), 0,
                  Cardinality({k \in Keys : Store!Changes(history[k], f, k)}))

\* Mutant of AllProcessed: failed files do not make a run partial.
SucceedsAnyway ==
    /\ pc = "files"
    /\ todo = {}
    /\ status' = "succeeded"
    /\ pc' = "close"
    /\ UNCHANGED <<world, tables, cached, asOf, entries, todo, tally, held>>

\* Mutant of AllProcessed: an empty window is never over.
NeedsAFile ==
    /\ pc = "files"
    /\ todo = {} /\ tally.seen > 0
    /\ status' = IF tally.failed > 0 THEN "partial" ELSE "succeeded"
    /\ pc' = "close"
    /\ UNCHANGED <<world, tables, cached, asOf, entries, todo, tally, held>>

\* The loop is over.
AllProcessed ==
    /\ pc = "files"
    /\ todo = {}
    /\ status' = IF tally.failed > 0 THEN "partial" ELSE "succeeded"
    /\ pc' = "close"
    /\ UNCHANGED <<world, tables, cached, asOf, entries, todo, tally, held>>

\* The process is gone, with everything it only held in memory.
Forget ==
    /\ pc' = "off"
    /\ entries' = {}
    /\ todo' = {}
    /\ status' = "running"
    /\ tally' = Fresh

\* Mutant of _close_run: what is still held is dropped.
ClosesWithoutFlush ==
    /\ pc = "close"
    /\ runs' = [runs EXCEPT ![Len(runs)] =
                [status |-> status, seen |-> tally.seen, fetched |-> tally.fetched,
                 upserted |-> tally.upserted, quarantined |-> tally.quarantined]]
    /\ held' = <<>>
    /\ Forget
    /\ UNCHANGED <<world, history, quarantine, cached, asOf>>

_close_run ==
    /\ pc = "close"
    /\ Flush(held)
    /\ runs' = [runs EXCEPT ![Len(runs)] =
                [status |-> status, seen |-> tally.seen, fetched |-> tally.fetched,
                 upserted |-> tally.upserted, quarantined |-> tally.quarantined]]
    /\ Forget
    /\ UNCHANGED <<world, history, cached, asOf>>

\* The run ends without _close_run, and an open transaction rolls back.
Escape ==
    /\ held' = <<>>
    /\ Forget
    /\ UNCHANGED <<world, tables, cached, asOf>>

\* The job is killed: timeout-minutes, or the runner goes away.
Killed ==
    /\ Killable
    /\ pc # "off"
    /\ Escape

\* A transaction fails, as ObservationStore's UniqueViolation, DeadlockVictim and
\* Fail do: run_backfill catches RobotsDisallowedError and HttpRequestError only.
\* The transaction of _discover says something to the database only about strays.
DatabaseRaises ==
    /\ \/ pc \in {"store", "close"}
       \/ pc = "discover" /\ Strays # {}
    /\ Escape

RunStep ==
    \/ Discover \/ DiscoverFails
    \/ Fetch \/ FetchFails \/ FetchDisallowed
    \/ QuarantineUnparseable \/ QuarantineMisplaced \/ _store
    \/ AllProcessed \/ _close_run

Next == Post \/ NextDay \/ Start \/ RunStep \/ Killed \/ DatabaseRaises

Spec == Init /\ [][Next]_vars

\* A running process takes its next step: every fetch ends (HttpClient).
FairSpec == Spec /\ WF_vars(RunStep)
-----------------------------------------------------------------------------
Counters == [seen : Nat, fetched : Nat, failed : Nat, upserted : Nat, quarantined : Nat]

RunRow == [status : {"running", "succeeded", "partial", "failed"},
           seen : Nat, fetched : Nat, upserted : Nat, quarantined : Nat]

Subjects == Files \cup {IndexPage}

TypeOK ==
    /\ listed \subseteq Files
    /\ today \in FirstDay..LastDay /\ asOf \in FirstDay..LastDay
    /\ history \in [Keys -> Seq(Store!Publication)]
    /\ runs \in Seq(RunRow)
    /\ quarantine \in Seq(Seq(Subjects)) /\ Len(quarantine) = Len(runs)
    /\ cached \subseteq Files
    /\ pc \in {"off", "discover", "files", "store", "close"}
    /\ entries \subseteq Files /\ todo \subseteq entries
    /\ status \in {"running", "succeeded", "partial", "failed"}
    /\ tally \in Counters
    /\ held \in Seq(Subjects)

\* The figure a finished run publishes is the number of quarantine rows that
\* exist under it, although they were filed by many transactions and some were
\* carried from one file's into the next (ingest.py:136-144).
FinishedRunsAddUp ==
    \A r \in DOMAIN runs :
        runs[r].status # "running" => runs[r].quarantined = Len(quarantine[r])

\* Whatever the process has counted is filed or still held: nothing is counted
\* twice, nothing is lost between two transactions.
QuarantineIsConserved ==
    pc # "off" => tally.quarantined = Len(quarantine[Len(runs)]) + Len(held)

\* Entries that settle k, and the last of them the loop reaches.
About(k) == {f \in entries : k \in Settled(Sheet[f])}
IsLast(f, k) == f \in About(k) /\ \A g \in About(k) \ {f} : Precedes(g, f)

\* "a rerun picks up exactly where the last one stopped" (ingest.py:32-33): a
\* run that calls itself succeeded leaves every key of its window with the
\* figures of the last file processed that settles it, whatever crashed, was
\* skipped or was stored before.
SuccessIsComplete ==
    [][(_close_run /\ status = "succeeded") =>
        \A k \in Keys : \A f \in entries : IsLast(f, k) =>
            /\ history[k] # <<>>
            /\ Store!Latest(history[k]).fig = FigOf(Sheet[f], k)]_vars

\* "Dropping a row silently is the one failure this project treats as
\* unacceptable" (ingest.py:21-23): when a run that read its index to the end
\* closes, every entry is in quarantine or in the history of its keys.
NothingIsDropped ==
    [][(_close_run /\ status # "failed") =>
        \A f \in entries :
            \/ f \in Range(quarantine'[Len(runs)])
            \/ \A k \in Settled(Sheet[f]) :
                \E p \in Range(history[k]) : p.fig = FigOf(Sheet[f], k)]_vars

\* No observation is dated in the future, whatever the link claimed: the header
\* decides, after parsing (ingest.py:560-576).
NoFutureObservations ==
    \A f \in Files : SheetDate[f] > today => \A k \in Settled(Sheet[f]) : history[k] = <<>>

\* "a republished correction is applied after the sheet it corrects"
\* (ingest.py:35-39): where all the files about a key claim one date, a succeeded
\* run leaves it with the figures of the last one the index lists.
LastListedWins ==
    [][(_close_run /\ status = "succeeded") =>
        \A k \in Keys : \A f \in About(k) :
            (\A g \in About(k) \ {f} :
                IndexDate[g] = IndexDate[f] /\ Position(g) < Position(f)) =>
                    Store!Latest(history[k]).fig = FigOf(Sheet[f], k)]_vars

\* Every run ends: it is closed, or its process is gone.
EveryRunEnds == pc # "off" ~> pc = "off"

\* "Rerunning the ingester over a date range must converge, not accumulate"
\* (upsert.py:5-7): a key has at most one publication per file about it.
RerunsConverge ==
    \A k \in Keys : Len(history[k]) <= Cardinality({f \in Files : k \in Settled(Sheet[f])})

\* "The same figures are written to ingestion_runs, including on failure"
\* (ingest.py:175-177): a run that is over has a final status.
EveryRunIsClosed ==
    \A r \in DOMAIN runs : runs[r].status = "running" => r = Len(runs) /\ pc # "off"
=============================================================================
