--------------------------- MODULE ReferenceData ----------------------------
(***************************************************************************)
(* The reference tables (db/seed.py) and the jobs that fill and use them.  *)
(* A job loads the CSVs of the version it was checked out at in one        *)
(* transaction, reads the commodity ids in another, and then stores sheets,*)
(* each in a transaction that finds or creates the sheet's market          *)
(* (.github/workflows/ingest.yml, __main__.py, ingest.py).                 *)
(*                                                                         *)
(* The database is PostgreSQL at read committed: a statement sees what was *)
(* committed when it started, a write waits for another transaction's      *)
(* uncommitted write of the same row, an insert of a key that has been     *)
(* committed meanwhile fails, and an update changes only the columns in    *)
(* which the CSV differs from the row as the session read it.  A           *)
(* transaction may be rolled back at any point: the job was killed, the    *)
(* key was taken, or it was chosen to break a deadlock.                    *)
(***************************************************************************)
EXTENDS Naturals, Sequences, FiniteSets

CONSTANTS
    Jobs,
    Versions,       \* checkouts of the committed CSVs
    Tables,         \* keys of regions, commodities, aliases, in loading order
    Columns,        \* what a row of regions or of commodities holds
    Values,
    Csv,            \* Csv[v][key]: the row version v has for the key
    Spellings,      \* (municipality, market) as the sheets write them
    Sheets,
    Sheet,          \* Sheet[s]: its region, its market's spelling, its aliases
    Place,          \* Place[spelling]: the same, normalised, with the region
    None,           \* no row, no market, no sheet
    MaxJobs         \* bound: jobs started

RegionKeys == Tables[1]
Slugs == Tables[2]
RawNames == Tables[3]
Keys == RegionKeys \cup Slugs \cup RawNames
Rows(k) == IF k \in RawNames THEN [{"commodity"} -> Slugs] ELSE [Columns -> Values]

ASSUME TablesAreThree == DOMAIN Tables = 1..3 /\ Len(Tables) = 3
ASSUME TablesAreApart == \A i, n \in 1..3 : i # n => Tables[i] \cap Tables[n] = {}
ASSUME CsvsHaveRows == \A v \in Versions, k \in Keys : Csv[v][k] \in Rows(k) \cup {None}
\* CommodityResolver refuses a dangling alias before a job stores anything.
ASSUME AliasesPointSomewhere ==
    \A v \in Versions, raw \in RawNames :
        Csv[v][raw] # None => Csv[v][Csv[v][raw]["commodity"]] # None
ASSUME NoneIsNoRow == \A k \in Keys : None \notin Rows(k)
ASSUME NoneIsNothing == None \notin Spellings \cup Sheets \cup Versions
ASSUME MaxJobsIsNatural == MaxJobs \in Nat
ASSUME SheetsNameThings ==
    \A s \in Sheets : /\ Sheet[s].region \in RegionKeys
                      /\ Sheet[s].spelling \in Spellings
                      /\ Sheet[s].raw_names \subseteq RawNames

VARIABLES
    rows,           \* what is committed of the three tables
    markets,        \* the markets committed, by spelling
    filed,          \* <<sheet, market>>: prices of the sheet are stored there
    jobs,           \* jobs started
    pc, version,
    table,          \* the table being loaded
    existing,       \* what the last select of the load found
    own,            \* rows the load has written and not committed
    commodity_ids,  \* the slugs the job has ids of
    sheet,          \* the sheet being stored
    market,         \* the market resolve_market picked or inserted
    own_market,     \* the market inserted and not committed
    stored,         \* sheets the job has stored
    disturbed,      \* ghost: another load changed a row since this one began
    looked,         \* ghost: the markets the job's last select could see
    saw             \* ghost: the markets a market's creator could see

database == <<rows, markets, filed>>
loading == <<table, existing, own, disturbed>>
storing == <<sheet, market, own_market, stored, looked, saw>>
vars == <<database, jobs, pc, version, loading, commodity_ids, storing>>

NoRows == [k \in Keys |-> None]

Init ==
    /\ rows = NoRows /\ markets = {} /\ filed = {}
    /\ jobs = 0
    /\ pc = [j \in Jobs |-> "idle"]
    /\ version = [j \in Jobs |-> None]
    /\ table = [j \in Jobs |-> 1]
    /\ existing = [j \in Jobs |-> NoRows]
    /\ own = [j \in Jobs |-> NoRows]
    /\ commodity_ids = [j \in Jobs |-> {}]
    /\ sheet = [j \in Jobs |-> None]
    /\ market = [j \in Jobs |-> None]
    /\ own_market = [j \in Jobs |-> None]
    /\ stored = [j \in Jobs |-> {}]
    /\ disturbed = [j \in Jobs |-> FALSE]
    /\ looked = [j \in Jobs |-> {}]
    /\ saw = [m \in Spellings |-> {}]

\* What a statement of the job sees: what is committed, and its own writes.
Seen(j) == [k \in Keys |-> IF own[j][k] # None THEN own[j][k] ELSE rows[k]]

At(j, from, to) == pc[j] = from /\ pc' = [pc EXCEPT ![j] = to]

Start(j, v) ==
    /\ At(j, "idle", "select")
    /\ jobs < MaxJobs
    /\ jobs' = jobs + 1
    /\ version' = [version EXCEPT ![j] = v]
    /\ UNCHANGED <<database, loading, commodity_ids, storing>>

\* The job is killed or a statement of it raises: its transaction is undone.
\* Or it is done, and nothing is open.
End(j) ==
    /\ pc[j] # "idle"
    /\ pc' = [pc EXCEPT ![j] = "idle"]
    /\ version' = [version EXCEPT ![j] = None]
    /\ table' = [table EXCEPT ![j] = 1]
    /\ disturbed' = [disturbed EXCEPT ![j] = FALSE]
    /\ commodity_ids' = [commodity_ids EXCEPT ![j] = {}]
    /\ stored' = [stored EXCEPT ![j] = {}]
    /\ existing' = [existing EXCEPT ![j] = NoRows]
    /\ own' = [own EXCEPT ![j] = NoRows]
    /\ sheet' = [sheet EXCEPT ![j] = None]
    /\ market' = [market EXCEPT ![j] = None]
    /\ own_market' = [own_market EXCEPT ![j] = None]
    /\ looked' = [looked EXCEPT ![j] = {}]
    /\ UNCHANGED <<database, jobs, saw>>
-----------------------------------------------------------------------------
\* A table's rows are selected, and then every row of the CSV that is missing
\* or differs is written.  _seed_aliases reads the commodities' ids as well.
Select(j) ==
    /\ At(j, "select", "write")
    /\ existing' = [existing EXCEPT ![j] = [k \in Keys |->
                      IF k \in Tables[table[j]] THEN Seen(j)[k] ELSE None]]
    /\ commodity_ids' = [commodity_ids EXCEPT ![j] = {k \in Slugs : Seen(j)[k] # None}]
    /\ UNCHANGED <<database, jobs, version, table, own, disturbed, storing>>

\* Mutant of ToWrite: a row that exists is left as it is.
OnlyTheMissing(j) ==
    {k \in Tables[table[j]] :
        Csv[version[j]][k] # None /\ own[j][k] = None /\ existing[j][k] = None}

\* Mutant of ToWrite: a table that has rows is taken for seeded.
UnlessSeeded(j) ==
    {k \in Tables[table[j]] :
        /\ Csv[version[j]][k] # None /\ own[j][k] = None
        /\ \A i \in Tables[table[j]] : existing[j][i] = None}

\* Mutant of ToWrite: a row is written whether it differs or not.
EveryRow(j) == {k \in Tables[table[j]] : Csv[version[j]][k] # None /\ own[j][k] = None}

ToWrite(j) ==
    {k \in Tables[table[j]] :
        /\ Csv[version[j]][k] # None /\ own[j][k] = None
        /\ existing[j][k] # Csv[version[j]][k]}

Unlocked(j, k) == \A i \in Jobs \ {j} : own[i][k] = None

\* Where the key has been committed since the select, End is all that is left.
Insert(j, k) ==
    /\ pc[j] = "write"
    /\ k \in ToWrite(j) /\ existing[j][k] = None
    /\ Unlocked(j, k) /\ rows[k] = None
    /\ own' = [own EXCEPT ![j][k] = Csv[version[j]][k]]
    /\ UNCHANGED <<database, jobs, pc, version, table, existing, disturbed,
                   commodity_ids, storing>>

Update(j, k) ==
    /\ pc[j] = "write"
    /\ k \in ToWrite(j) /\ existing[j][k] # None
    /\ Unlocked(j, k)
    /\ own' = [own EXCEPT ![j][k] = [c \in DOMAIN rows[k] |->
                 IF existing[j][k][c] # Csv[version[j]][k][c]
                 THEN Csv[version[j]][k][c] ELSE rows[k][c]]]
    /\ UNCHANGED <<database, jobs, pc, version, table, existing, disturbed,
                   commodity_ids, storing>>

NextTable(j) ==
    /\ At(j, "write", "select")
    /\ ToWrite(j) = {}
    /\ table[j] < Len(Tables)
    /\ table' = [table EXCEPT ![j] = @ + 1]
    /\ UNCHANGED <<database, jobs, version, existing, own, disturbed, commodity_ids, storing>>

CommitLoad(j) ==
    /\ At(j, "write", "run")
    /\ ToWrite(j) = {}
    /\ table[j] = Len(Tables)
    /\ rows' = Seen(j)
    /\ existing' = [existing EXCEPT ![j] = NoRows]
    /\ own' = [own EXCEPT ![j] = NoRows]
    /\ disturbed' = [i \in Jobs |-> /\ i # j /\ pc[i] \in {"select", "write"}
                                   /\ (disturbed[i] \/ rows' # rows)]
    /\ UNCHANGED <<markets, filed, jobs, version, table, commodity_ids, storing>>
-----------------------------------------------------------------------------
\* The first transaction of run_backfill: _commodity_ids, once per run.
OpenRun(j) ==
    /\ At(j, "run", "store")
    /\ commodity_ids' = [commodity_ids EXCEPT ![j] = {k \in Slugs : rows[k] # None}]
    /\ UNCHANGED <<database, jobs, version, loading, storing>>

\* Mutant of Matching: names are compared as they are spelt.
SameSpelling(j) == {m \in markets : m = Sheet[sheet'[j]].spelling}

Matching(j) == {m \in markets : Place[m] = Place[Sheet[sheet'[j]].spelling]}

\* resolve_market: the first match of an unordered select, if there is one.
FindMarket(j, s) ==
    /\ pc[j] = "store"
    /\ s \in Sheets \ stored[j]
    /\ Csv[version[j]][Sheet[s].region] # None
    /\ sheet' = [sheet EXCEPT ![j] = s]
    /\ looked' = [looked EXCEPT ![j] = markets]
    /\ \/ /\ pc' = [pc EXCEPT ![j] = "file"]
          /\ \E m \in Matching(j) : market' = [market EXCEPT ![j] = m]
       \/ /\ Matching(j) = {}
          /\ pc' = [pc EXCEPT ![j] = "create"]
          /\ UNCHANGED market
    /\ UNCHANGED <<database, jobs, version, loading, commodity_ids, own_market, stored, saw>>

\* The unique constraint is on the names as spelt.
CreateMarket(j) ==
    LET m == Sheet[sheet[j]].spelling
    IN  /\ At(j, "create", "file")
        /\ m \notin markets /\ \A i \in Jobs \ {j} : own_market[i] # m
        /\ market' = [market EXCEPT ![j] = m]
        /\ own_market' = [own_market EXCEPT ![j] = m]
        /\ UNCHANGED <<database, jobs, version, loading, commodity_ids,
                       sheet, stored, looked, saw>>

\* The rest of _store, and the commit.
FileSheet(j) ==
    /\ At(j, "file", "store")
    /\ filed' = filed \cup {<<sheet[j], market[j]>>}
    /\ markets' = markets \cup {market[j]}
    /\ saw' = IF own_market[j] = None THEN saw
              ELSE [saw EXCEPT ![own_market[j]] = looked[j]]
    /\ stored' = [stored EXCEPT ![j] = @ \cup {sheet[j]}]
    /\ sheet' = [sheet EXCEPT ![j] = None]
    /\ market' = [market EXCEPT ![j] = None]
    /\ own_market' = [own_market EXCEPT ![j] = None]
    /\ looked' = [looked EXCEPT ![j] = {}]
    /\ UNCHANGED <<rows, jobs, version, loading, commodity_ids>>

Next ==
    \E j \in Jobs :
        \/ \E v \in Versions : Start(j, v)
        \/ End(j)
        \/ Select(j) \/ NextTable(j) \/ CommitLoad(j)
        \/ \E k \in Keys : Insert(j, k) \/ Update(j, k)
        \/ OpenRun(j)
        \/ \E s \in Sheets : FindMarket(j, s)
        \/ CreateMarket(j) \/ FileSheet(j)

Spec == Init /\ [][Next]_vars
-----------------------------------------------------------------------------
HoldsRows(t) ==
    /\ t = [k \in Keys |-> t[k]]
    /\ \A k \in Keys : t[k] \in Rows(k) \cup {None}

RowsOK ==
    /\ HoldsRows(rows)
    /\ DOMAIN existing = Jobs /\ \A j \in Jobs : HoldsRows(existing[j])
    /\ DOMAIN own = Jobs /\ \A j \in Jobs : HoldsRows(own[j])
    /\ commodity_ids \in [Jobs -> SUBSET Slugs]

JobsOK ==
    /\ jobs \in 0..MaxJobs
    /\ pc \in [Jobs -> {"idle", "select", "write", "run", "store", "create", "file"}]
    /\ version \in [Jobs -> Versions \cup {None}]
    /\ table \in [Jobs -> 1..3]
    /\ disturbed \in [Jobs -> BOOLEAN]

MarketsOK ==
    /\ markets \subseteq Spellings
    /\ filed \subseteq Sheets \X markets
    /\ sheet \in [Jobs -> Sheets \cup {None}]
    /\ market \in [Jobs -> Spellings \cup {None}]
    /\ own_market \in [Jobs -> Spellings \cup {None}]
    /\ stored \in [Jobs -> SUBSET Sheets]
    /\ looked \in [Jobs -> SUBSET Spellings]
    /\ saw \in [Spellings -> SUBSET Spellings]
    /\ \A j \in Jobs :
          /\ pc[j] \in {"create", "file"} => sheet[j] \in Sheets
          /\ pc[j] = "file" => market[j] \in Spellings

TypeOK == RowsOK /\ JobsOK /\ MarketsOK

\* A load that commits with no other load's changes in between has written the
\* rows that differed, each once and no other, and leaves the tables agreeing
\* with its CSVs: a second load writes nothing, and what overlapping loads of
\* two versions left half one and half the other is put right (seed.py:8-11).
LoadsConverge ==
    [][\A j \in Jobs : CommitLoad(j) /\ ~disturbed[j] =>
          \A k \in Keys :
             /\ Csv[version[j]][k] # None => rows'[k] = Csv[version[j]][k]
             /\ own[j][k] # None <=> Csv[version[j]][k] \notin {None, rows[k]}]_vars

\* Whatever a job resolves with its own CSVs is in the tables when it uses it,
\* other versions' loads, rolled back or not, notwithstanding: an alias finds
\* its commodity (seed.py:183-187), a row its commodity's id (ingest.py:531)
\* and a new market its region.
WhatIsResolvedIsThere ==
    \A j \in Jobs :
        /\ pc[j] = "write" /\ table[j] = 3 =>
              \A raw \in RawNames : Csv[version[j]][raw] # None =>
                  Csv[version[j]][raw]["commodity"] \in commodity_ids[j]
        /\ pc[j] = "file" =>
              \A raw \in Sheet[sheet[j]].raw_names : Csv[version[j]][raw] # None =>
                  Csv[version[j]][raw]["commodity"] \in commodity_ids[j]
        /\ pc[j] = "create" => rows[Sheet[sheet[j]].region] # None

\* The one way two markets stand for one place: their creators looked before
\* either had committed, and spelt it differently (seed.py:209-219).
TwinsLookedAtOnce ==
    \A m, n \in markets :
        m # n /\ Place[m] = Place[n] => m \notin saw[n] /\ n \notin saw[m]

\* The prices of a sheet are stored at its own market, under whichever spelling
\* came first (seed.py:197-207).
PricesFollowTheSheet ==
    \A f \in filed : Place[f[2]] = Place[Sheet[f[1]].spelling]
=============================================================================
