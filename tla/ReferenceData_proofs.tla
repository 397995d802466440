----------------------- MODULE ReferenceData_proofs ------------------------
(***************************************************************************)
(* What overlapping jobs make of the reference tables, for any number of   *)
(* jobs, versions of the CSVs, tables' rows and sheets.                    *)
(***************************************************************************)
EXTENDS ReferenceData, TLAPS

\* A job has written only into tables it has reached, and what it found there
\* was committed: nobody deletes a row.
Loads(j) ==
    /\ pc[j] = "idle" => table[j] = 1 /\ ~disturbed[j]
    /\ pc[j] # "idle" => version[j] \in Versions
    /\ pc[j] \notin {"select", "write"} => own[j] = NoRows
    /\ \A n \in 1..3 : \A k \in Tables[n] : own[j][k] # None =>
          n < table[j] \/ (n = table[j] /\ pc[j] = "write")
    /\ pc[j] = "write" => \A k \in Keys : existing[j][k] # None => rows[k] # None

LoadInv == \A j \in Jobs : Loads(j)

LEMMA KeysAreOfTables == Keys = Tables[1] \cup Tables[2] \cup Tables[3]
  BY DEF Keys, RegionKeys, Slugs, RawNames

LEMMA NoRowsHoldsRows == HoldsRows(NoRows)
  BY DEF HoldsRows, NoRows

LEMMA SeenHoldsRows ==
    ASSUME TypeOK, NEW j \in Jobs
    PROVE  /\ HoldsRows(Seen(j))
           /\ \A k \in Keys : Seen(j)[k] = IF own[j][k] # None THEN own[j][k] ELSE rows[k]
  BY DEF TypeOK, RowsOK, HoldsRows, Seen

LEMMA InitInv == Init => TypeOK /\ LoadInv
<1> SUFFICES ASSUME Init PROVE TypeOK /\ LoadInv
  OBVIOUS
<1>1. TypeOK
  BY NoRowsHoldsRows, MaxJobsIsNatural DEF Init, TypeOK, RowsOK, JobsOK, MarketsOK
<1>2. \A j \in Jobs : \A k \in Keys : own[j][k] = None
  BY DEF Init, NoRows
<1>3. \A i \in 1..3 : Tables[i] \subseteq Keys
  BY KeysAreOfTables
<1>4. LoadInv
  BY <1>2, <1>3 DEF Init, LoadInv, Loads
<1> QED
  BY <1>1, <1>4

\* Nothing that is committed of the reference tables ever goes away.
LEMMA RowsStay ==
    ASSUME TypeOK, [Next]_vars, NEW k \in Keys, rows[k] # None
    PROVE  rows'[k] # None
<1>1. CASE UNCHANGED rows
  BY <1>1
<1>2. CASE \E j \in Jobs : CommitLoad(j)
  BY <1>2, SeenHoldsRows DEF CommitLoad
<1> QED
  BY <1>1, <1>2, SMTT(30) DEF Next, vars, database, Start, End, Select, Insert, Update, NextTable,
    OpenRun, FindMarket, CreateMarket, FileSheet

LEMMA OneRowMore ==
    ASSUME NEW t, HoldsRows(t), NEW k \in Keys, NEW r \in Rows(k) \cup {None}
    PROVE  HoldsRows([t EXCEPT ![k] = r])
  BY DEF HoldsRows

LEMMA FoundHoldsRows ==
    ASSUME TypeOK, NEW j \in Jobs
    PROVE  HoldsRows([k \in Keys |-> IF k \in Tables[table[j]] THEN Seen(j)[k] ELSE None])
  BY SeenHoldsRows DEF HoldsRows

\* An update keeps the shape of the row it finds.
LEMMA UpdatedRow ==
    ASSUME TypeOK, LoadInv, NEW j \in Jobs, NEW k \in Keys, Update(j, k)
    PROVE  [c \in DOMAIN rows[k] |->
               IF existing[j][k][c] # Csv[version[j]][k][c]
               THEN Csv[version[j]][k][c] ELSE rows[k][c]] \in Rows(k)
<1>1. rows[k] \in Rows(k) /\ Csv[version[j]][k] \in Rows(k)
  BY CsvsHaveRows DEF TypeOK, RowsOK, LoadInv, Loads, HoldsRows, Update, ToWrite
<1> QED
  BY <1>1 DEF Rows

\* Every kind of step keeps the types.
LEMMA JobsNext ==
    ASSUME TypeOK, LoadInv, [Next]_vars
    PROVE  JobsOK'
<1> USE DEF TypeOK, JobsOK
<1>1. CASE UNCHANGED vars
  BY <1>1 DEF vars, database, loading, storing
<1>2. ASSUME NEW j \in Jobs, NEW v \in Versions, Start(j, v) PROVE JobsOK'
  BY <1>2, MaxJobsIsNatural DEF Start, At, database, loading, storing
<1>3. ASSUME NEW j \in Jobs, End(j) PROVE JobsOK'
  BY <1>3 DEF End, At, database, loading, storing
<1>4. ASSUME NEW j \in Jobs, Select(j) PROVE JobsOK'
  BY <1>4 DEF Select, At, database, loading, storing
<1>5. ASSUME NEW j \in Jobs, NextTable(j) PROVE JobsOK'
  BY <1>5, TablesAreThree DEF NextTable, At, database, loading, storing
<1>6. ASSUME NEW j \in Jobs, CommitLoad(j) PROVE JobsOK'
  BY <1>6 DEF CommitLoad, At, database, loading, storing
<1>7. ASSUME NEW j \in Jobs, NEW k \in Keys, Insert(j, k) PROVE JobsOK'
  BY <1>7 DEF Insert, At, database, loading, storing
<1>8. ASSUME NEW j \in Jobs, NEW k \in Keys, Update(j, k) PROVE JobsOK'
  BY <1>8 DEF Update, At, database, loading, storing
<1>9. ASSUME NEW j \in Jobs, OpenRun(j) PROVE JobsOK'
  BY <1>9 DEF OpenRun, At, database, loading, storing
<1>10. ASSUME NEW j \in Jobs, NEW s \in Sheets, FindMarket(j, s) PROVE JobsOK'
  BY <1>10 DEF FindMarket, At, database, loading, storing
<1>11. ASSUME NEW j \in Jobs, CreateMarket(j) PROVE JobsOK'
  BY <1>11 DEF CreateMarket, At, database, loading, storing
<1>12. ASSUME NEW j \in Jobs, FileSheet(j) PROVE JobsOK'
  BY <1>12 DEF FileSheet, At, database, loading, storing
<1> QED
  BY <1>1, <1>2, <1>3, <1>4, <1>5, <1>6, <1>7, <1>8, <1>9, <1>10, <1>11, <1>12 DEF Next

LEMMA MarketsNext ==
    ASSUME TypeOK, LoadInv, [Next]_vars
    PROVE  MarketsOK'
<1> USE DEF TypeOK, JobsOK, MarketsOK
<1> USE NoneIsNothing
<1>1. CASE UNCHANGED vars
  BY <1>1 DEF vars, database, loading, storing
<1>2. ASSUME NEW j \in Jobs, NEW v \in Versions, Start(j, v) PROVE MarketsOK'
  BY <1>2 DEF Start, At, database, loading, storing
<1>3. ASSUME NEW j \in Jobs, End(j) PROVE MarketsOK'
  BY <1>3 DEF End, At, database, loading, storing
<1>4. ASSUME NEW j \in Jobs, Select(j) PROVE MarketsOK'
  BY <1>4 DEF Select, At, database, loading, storing
<1>5. ASSUME NEW j \in Jobs, NextTable(j) PROVE MarketsOK'
  BY <1>5 DEF NextTable, At, database, loading, storing
<1>6. ASSUME NEW j \in Jobs, CommitLoad(j) PROVE MarketsOK'
  BY <1>6 DEF CommitLoad, At, database, loading, storing
<1>7. ASSUME NEW j \in Jobs, NEW k \in Keys, Insert(j, k) PROVE MarketsOK'
  BY <1>7 DEF Insert, At, database, loading, storing
<1>8. ASSUME NEW j \in Jobs, NEW k \in Keys, Update(j, k) PROVE MarketsOK'
  BY <1>8 DEF Update, At, database, loading, storing
<1>9. ASSUME NEW j \in Jobs, OpenRun(j) PROVE MarketsOK'
  BY <1>9 DEF OpenRun, At, database, loading, storing
<1>10. ASSUME NEW j \in Jobs, NEW s \in Sheets, FindMarket(j, s) PROVE MarketsOK'
  BY <1>10, SheetsNameThings DEF FindMarket, At, database, loading, storing, Matching
<1>11. ASSUME NEW j \in Jobs, CreateMarket(j) PROVE MarketsOK'
  BY <1>11, SheetsNameThings DEF CreateMarket, At, database, loading, storing
<1>12. ASSUME NEW j \in Jobs, FileSheet(j) PROVE MarketsOK'
  BY <1>12 DEF FileSheet, At, database, loading, storing
<1> QED
  BY <1>1, <1>2, <1>3, <1>4, <1>5, <1>6, <1>7, <1>8, <1>9, <1>10, <1>11, <1>12 DEF Next

LEMMA RowsNext ==
    ASSUME TypeOK, LoadInv, [Next]_vars
    PROVE  RowsOK'
<1> USE DEF TypeOK, JobsOK, RowsOK
<1>1. CASE UNCHANGED vars
  BY <1>1 DEF vars, database, loading, storing
<1>2. ASSUME NEW j \in Jobs, NEW v \in Versions, Start(j, v) PROVE RowsOK'
  BY <1>2 DEF Start, At, database, loading, storing
<1>3. ASSUME NEW j \in Jobs, End(j) PROVE RowsOK'
  BY <1>3, NoRowsHoldsRows DEF End, At, database, loading, storing
<1>4. ASSUME NEW j \in Jobs, Select(j) PROVE RowsOK'
  BY <1>4, FoundHoldsRows DEF Select, At, database, loading, storing
<1>5. ASSUME NEW j \in Jobs, NextTable(j) PROVE RowsOK'
  BY <1>5 DEF NextTable, At, database, loading, storing
<1>6. ASSUME NEW j \in Jobs, CommitLoad(j) PROVE RowsOK'
  BY <1>6, SeenHoldsRows, NoRowsHoldsRows DEF CommitLoad, At, database, loading, storing
<1>7. ASSUME NEW j \in Jobs, NEW k \in Keys, Insert(j, k) PROVE RowsOK'
  <2>1. Csv[version[j]][k] \in Rows(k) \cup {None}
    BY <1>7, CsvsHaveRows DEF Insert, LoadInv, Loads
  <2>2. HoldsRows([own[j] EXCEPT ![k] = Csv[version[j]][k]])
    BY <2>1, OneRowMore
  <2> QED
    BY <1>7, <2>2 DEF Insert, At, database, loading, storing
<1>8. ASSUME NEW j \in Jobs, NEW k \in Keys, Update(j, k) PROVE RowsOK'
  <2> DEFINE row == [c \in DOMAIN rows[k] |-> IF existing[j][k][c] # Csv[version[j]][k][c]
                                             THEN Csv[version[j]][k][c] ELSE rows[k][c]]
  <2>1. HoldsRows([own[j] EXCEPT ![k] = row])
    BY <1>8, UpdatedRow, OneRowMore
  <2> QED
    BY <1>8, <2>1 DEF Update, At, database, loading, storing
<1>9. ASSUME NEW j \in Jobs, OpenRun(j) PROVE RowsOK'
  BY <1>9 DEF OpenRun, At, database, loading, storing
<1>10. ASSUME NEW j \in Jobs, NEW s \in Sheets, FindMarket(j, s) PROVE RowsOK'
  BY <1>10 DEF FindMarket, At, database, loading, storing
<1>11. ASSUME NEW j \in Jobs, CreateMarket(j) PROVE RowsOK'
  BY <1>11 DEF CreateMarket, At, database, loading, storing
<1>12. ASSUME NEW j \in Jobs, FileSheet(j) PROVE RowsOK'
  BY <1>12 DEF FileSheet, At, database, loading, storing
<1> QED
  BY <1>1, <1>2, <1>3, <1>4, <1>5, <1>6, <1>7, <1>8, <1>9, <1>10, <1>11, <1>12 DEF Next

\* A job that another job's step leaves alone, but for the rows that commits.
SameLoad(i) ==
    /\ pc'[i] = pc[i] /\ version'[i] = version[i] /\ table'[i] = table[i]
    /\ existing'[i] = existing[i] /\ own'[i] = own[i]

LEMMA OthersGoOn ==
    ASSUME TypeOK, [Next]_vars, NEW i \in Jobs, Loads(i), SameLoad(i),
           pc[i] = "idle" => ~disturbed'[i]
    PROVE  Loads(i)'
  BY RowsStay DEF Loads, SameLoad, NoRows

LEMMA LoadNext ==
    ASSUME TypeOK, LoadInv, [Next]_vars
    PROVE  LoadInv'
<1> SUFFICES ASSUME NEW i \in Jobs PROVE Loads(i)'
  BY DEF LoadInv
<1>0. Loads(i)
  BY DEF LoadInv
<1> USE <1>0 DEF TypeOK, JobsOK
<1>1. CASE UNCHANGED vars
  BY <1>1, OthersGoOn DEF Loads, SameLoad, vars, database, loading, storing
<1>2. ASSUME NEW j \in Jobs, NEW v \in Versions, Start(j, v) PROVE Loads(i)'
  <2>1. CASE i # j
    BY <1>2, <2>1, OthersGoOn DEF RowsOK, Loads, SameLoad, Start, At, database,
      loading, storing
  <2>2. CASE i = j
    BY <1>2, <2>2, KeysAreOfTables DEF RowsOK, Loads, Start, At, database,
      loading, storing, NoRows
  <2> QED
    BY <2>1, <2>2
<1>3. ASSUME NEW j \in Jobs, End(j) PROVE Loads(i)'
  <2>1. CASE i # j
    BY <1>3, <2>1, OthersGoOn DEF RowsOK, Loads, SameLoad, End, At, database,
      loading, storing
  <2>2. CASE i = j
    BY <1>3, <2>2, KeysAreOfTables DEF RowsOK, Loads, End, At, database,
      loading, storing, NoRows
  <2> QED
    BY <2>1, <2>2
<1>4. ASSUME NEW j \in Jobs, Select(j) PROVE Loads(i)'
  <2>1. CASE i # j
    BY <1>4, <2>1, OthersGoOn DEF RowsOK, Loads, SameLoad, Select, At, database,
      loading, storing
  <2>2. CASE i = j
    BY <1>4, <2>2, KeysAreOfTables, SeenHoldsRows DEF RowsOK, Loads, Select, At,
      database, loading, storing, NoRows
  <2> QED
    BY <2>1, <2>2
<1>5. ASSUME NEW j \in Jobs, NextTable(j) PROVE Loads(i)'
  <2>1. CASE i # j
    BY <1>5, <2>1, OthersGoOn DEF RowsOK, Loads, SameLoad, NextTable, At,
      database, loading, storing
  <2>2. CASE i = j
    BY <1>5, <2>2, KeysAreOfTables, TablesAreThree DEF RowsOK, Loads, NextTable,
      At, database, loading, storing, NoRows
  <2> QED
    BY <2>1, <2>2
<1>6. ASSUME NEW j \in Jobs, CommitLoad(j) PROVE Loads(i)'
  <2>1. CASE i # j
    BY <1>6, <2>1, OthersGoOn DEF RowsOK, Loads, SameLoad, CommitLoad, At,
      database, loading, storing
  <2>2. CASE i = j
    BY <1>6, <2>2, KeysAreOfTables, TablesAreThree DEF RowsOK, Loads,
      CommitLoad, At, database, loading, storing, NoRows
  <2> QED
    BY <2>1, <2>2
<1>7. ASSUME NEW j \in Jobs, NEW k \in Keys, Insert(j, k) PROVE Loads(i)'
  <2>1. CASE i # j
    BY <1>7, <2>1, OthersGoOn DEF RowsOK, Loads, SameLoad, Insert, At, database,
      loading, storing
  <2>2. CASE i = j
    <3>1. k \in Tables[table[j]] /\ \A q \in Keys : own'[j][q] # None => q = k \/ own[j][q] # None
      BY <1>7 DEF RowsOK, HoldsRows, Insert, ToWrite
    <3>2. \A m \in 1..3 : k \in Tables[m] => m = table[j]
      BY <3>1, TablesAreApart
    <3> QED
      BY <1>7, <2>2, <3>1, <3>2, KeysAreOfTables DEF Loads, Insert, At,
        database, loading, storing
  <2> QED
    BY <2>1, <2>2
<1>8. ASSUME NEW j \in Jobs, NEW k \in Keys, Update(j, k) PROVE Loads(i)'
  <2>1. CASE i # j
    BY <1>8, <2>1, OthersGoOn DEF RowsOK, Loads, SameLoad, Update, At, database,
      loading, storing
  <2>2. CASE i = j
    <3>1. k \in Tables[table[j]] /\ \A q \in Keys : own'[j][q] # None => q = k \/ own[j][q] # None
      BY <1>8 DEF RowsOK, HoldsRows, Update, ToWrite
    <3>2. \A m \in 1..3 : k \in Tables[m] => m = table[j]
      BY <3>1, TablesAreApart
    <3> QED
      BY <1>8, <2>2, <3>1, <3>2, KeysAreOfTables DEF Loads, Update, At,
        database, loading, storing
  <2> QED
    BY <2>1, <2>2
<1>9. ASSUME NEW j \in Jobs, OpenRun(j) PROVE Loads(i)'
  BY <1>9 DEF Loads, OpenRun, At, database, loading, storing, NoRows
<1>10. ASSUME NEW j \in Jobs, NEW s \in Sheets, FindMarket(j, s) PROVE Loads(i)'
  BY <1>10 DEF Loads, FindMarket, At, database, loading, storing, NoRows
<1>11. ASSUME NEW j \in Jobs, CreateMarket(j) PROVE Loads(i)'
  BY <1>11 DEF Loads, CreateMarket, At, database, loading, storing, NoRows
<1>12. ASSUME NEW j \in Jobs, FileSheet(j) PROVE Loads(i)'
  BY <1>12 DEF Loads, FileSheet, At, database, loading, storing, NoRows
<1> QED
  BY <1>1, <1>2, <1>3, <1>4, <1>5, <1>6, <1>7, <1>8, <1>9, <1>10, <1>11, <1>12 DEF Next
-----------------------------------------------------------------------------
LEMMA TypeNext == TypeOK /\ LoadInv /\ [Next]_vars => (TypeOK /\ LoadInv)'
  BY JobsNext, MarketsNext, RowsNext, LoadNext DEF TypeOK

LEMMA TypesHold == Spec => [](TypeOK /\ LoadInv)
  BY InitInv, TypeNext, PTL DEF Spec

\* The reference data keep their types: a row is never half of one table's kind
\* and half of another's, and nothing is filed under a market that is not there.
THEOREM ReferenceTypeOK == Spec => []TypeOK
  BY TypesHold, PTL
-----------------------------------------------------------------------------
(***************************************************************************)
(* Markets.                                                                *)
(***************************************************************************)
\* A job that means to create a market, or has, saw none of its place.
Alone(j) ==
    /\ pc[j] = "create" => \A x \in looked[j] : Place[x] # Place[Sheet[sheet[j]].spelling]
    /\ own_market[j] # None => pc[j] = "file"
    /\ own_market[j] # None => \A x \in looked[j] : Place[x] # Place[own_market[j]]
    /\ pc[j] = "file" => Place[market[j]] = Place[Sheet[sheet[j]].spelling]

MarketInv ==
    /\ \A m \in Spellings : \A x \in saw[m] : Place[x] # Place[m]
    /\ PricesFollowTheSheet
    /\ \A j \in Jobs : Alone(j)

LEMMA MarketInit == Init => MarketInv
  BY DEF Init, MarketInv, Alone, PricesFollowTheSheet

LEMMA MarketNext == TypeOK /\ MarketInv /\ [Next]_vars => MarketInv'
<1> SUFFICES ASSUME TypeOK, MarketInv, [Next]_vars PROVE MarketInv'
  OBVIOUS
<1> USE NoneIsNothing DEF TypeOK, JobsOK, MarketsOK, MarketInv, Alone, PricesFollowTheSheet
<1>1. CASE UNCHANGED vars
  BY <1>1 DEF vars, database, loading, storing
<1>2. ASSUME NEW j \in Jobs, NEW v \in Versions, Start(j, v) PROVE MarketInv'
  BY <1>2 DEF Start, At, database, loading, storing
<1>3. ASSUME NEW j \in Jobs, End(j) PROVE MarketInv'
  BY <1>3 DEF End, At, database, loading, storing
<1>4. ASSUME NEW j \in Jobs, Select(j) PROVE MarketInv'
  BY <1>4 DEF Select, At, database, loading, storing
<1>5. ASSUME NEW j \in Jobs, NextTable(j) PROVE MarketInv'
  BY <1>5 DEF NextTable, At, database, loading, storing
<1>6. ASSUME NEW j \in Jobs, CommitLoad(j) PROVE MarketInv'
  BY <1>6 DEF CommitLoad, At, database, loading, storing
<1>7. ASSUME NEW j \in Jobs, NEW k \in Keys, Insert(j, k) PROVE MarketInv'
  BY <1>7 DEF Insert, At, database, loading, storing
<1>8. ASSUME NEW j \in Jobs, NEW k \in Keys, Update(j, k) PROVE MarketInv'
  BY <1>8 DEF Update, At, database, loading, storing
<1>9. ASSUME NEW j \in Jobs, OpenRun(j) PROVE MarketInv'
  BY <1>9 DEF OpenRun, At, database, loading, storing
<1>10. ASSUME NEW j \in Jobs, NEW s \in Sheets, FindMarket(j, s) PROVE MarketInv'
  <2>1. \A i \in Jobs \ {j} : Alone(i)'
    BY <1>10 DEF FindMarket
  <2>2. Alone(j)'
    BY <1>10 DEF FindMarket, Matching
  <2> QED
    BY <1>10, <2>1, <2>2 DEF FindMarket, database
<1>11. ASSUME NEW j \in Jobs, CreateMarket(j) PROVE MarketInv'
  BY <1>11, SheetsNameThings DEF CreateMarket, At, database, loading, storing
<1>12. ASSUME NEW j \in Jobs, FileSheet(j) PROVE MarketInv'
  <2>1. \A m \in Spellings : \A x \in saw'[m] : Place[x] # Place[m]
    BY <1>12 DEF FileSheet
  <2>2. PricesFollowTheSheet'
    BY <1>12 DEF FileSheet, At
  <2>3. \A i \in Jobs : Alone(i)'
    BY <1>12 DEF FileSheet, At
  <2> QED
    BY <2>1, <2>2, <2>3
<1> QED
  BY <1>1, <1>2, <1>3, <1>4, <1>5, <1>6, <1>7, <1>8, <1>9, <1>10, <1>11, <1>12 DEF Next

LEMMA MarketsHold == Spec => []MarketInv
<1>1. Init => TypeOK /\ LoadInv /\ MarketInv
  BY InitInv, MarketInit
<1>2. TypeOK /\ LoadInv /\ MarketInv /\ [Next]_vars => (TypeOK /\ LoadInv /\ MarketInv)'
  BY TypeNext, MarketNext
<1> QED
  BY <1>1, <1>2, PTL DEF Spec

\* Of two markets of one place neither creator had seen the other's when it
\* looked (seed.py:209-219).
THEOREM ReferenceTwins == Spec => []TwinsLookedAtOnce
<1>1. TypeOK /\ MarketInv => TwinsLookedAtOnce
  BY DEF TypeOK, MarketsOK, MarketInv, TwinsLookedAtOnce
<1> QED
  BY <1>1, TypesHold, MarketsHold, PTL

\* No sheet's prices are filed under another place's market (seed.py:197-207).
THEOREM ReferencePrices == Spec => []PricesFollowTheSheet
<1>1. MarketInv => PricesFollowTheSheet
  BY DEF MarketInv
<1> QED
  BY <1>1, MarketsHold, PTL
-----------------------------------------------------------------------------
(***************************************************************************)
(* What a job resolves.                                                    *)
(***************************************************************************)
Wanted(j, k) == Csv[version[j]][k] # None

\* The tables a load has done hold what its CSVs have, whoever wrote it, and so
\* do they all once it is committed.
Resolves(j) ==
    /\ pc[j] \in {"select", "write"} => \A n \in 1..3 : n < table[j] =>
          \A k \in Tables[n] : Wanted(j, k) => own[j][k] # None \/ rows[k] # None
    /\ pc[j] \in {"run", "store", "create", "file"} =>
          \A k \in Keys : Wanted(j, k) => rows[k] # None
    /\ pc[j] \in {"store", "create", "file"} \/ (pc[j] = "write" /\ table[j] = 3) =>
          \A k \in Slugs : Wanted(j, k) => k \in commodity_ids[j]
    /\ pc[j] = "create" => Wanted(j, Sheet[sheet[j]].region)

SameClaims(i) ==
    /\ pc'[i] = pc[i] /\ version'[i] = version[i] /\ table'[i] = table[i]
    /\ own'[i] = own[i] /\ commodity_ids'[i] = commodity_ids[i] /\ sheet'[i] = sheet[i]

LEMMA OthersResolve ==
    ASSUME TypeOK, [Next]_vars, NEW i \in Jobs, Resolves(i), SameClaims(i)
    PROVE  Resolves(i)'
  BY RowsStay, KeysAreOfTables DEF Resolves, Wanted, SameClaims

LEMMA ResolvesInit == Init => \A j \in Jobs : Resolves(j)
  BY DEF Init, Resolves

LEMMA ResolvesNext ==
    ASSUME TypeOK, LoadInv, [Next]_vars, NEW i \in Jobs, Resolves(i)
    PROVE  Resolves(i)'
<1> USE KeysAreOfTables DEF TypeOK, JobsOK
<1>0. \A k \in Keys : rows[k] # None => rows'[k] # None
  BY RowsStay
<1>1. CASE UNCHANGED vars
  BY <1>1, OthersResolve DEF SameClaims, vars, database, loading, storing
<1>2. ASSUME NEW j \in Jobs, NEW v \in Versions, Start(j, v) PROVE Resolves(i)'
  <2>1. CASE i # j
    BY <1>2, <2>1, OthersResolve DEF RowsOK, MarketsOK, SameClaims, Start, At,
      database, loading, storing
  <2>2. CASE i = j
    BY <1>2, <2>2 DEF Resolves, Start, At, loading, LoadInv, Loads
  <2> QED
    BY <2>1, <2>2
<1>3. ASSUME NEW j \in Jobs, End(j) PROVE Resolves(i)'
  <2>1. CASE i # j
    BY <1>3, <2>1, OthersResolve DEF RowsOK, MarketsOK, SameClaims, End, At,
      database, loading, storing
  <2>2. CASE i = j
    BY <1>3, <2>2 DEF Resolves, End
  <2> QED
    BY <2>1, <2>2
<1>4. ASSUME NEW j \in Jobs, Select(j) PROVE Resolves(i)'
  <2>1. CASE i # j
    BY <1>4, <2>1, OthersResolve DEF RowsOK, MarketsOK, SameClaims, Select, At,
      database, loading, storing
  <2>2. CASE i = j
    <3>1. table[j] = 3 => \A k \in Slugs : Wanted(j, k) => Seen(j)[k] # None
      BY <1>4, <2>2, SeenHoldsRows DEF Resolves, Select, At, Slugs
    <3> QED
      BY <1>4, <2>2, <3>1 DEF RowsOK, Resolves, Wanted, Select, At, loading,
        database, storing
  <2> QED
    BY <2>1, <2>2
<1>5. ASSUME NEW j \in Jobs, NextTable(j) PROVE Resolves(i)'
  <2>1. CASE i # j
    BY <1>5, <2>1, OthersResolve DEF RowsOK, MarketsOK, SameClaims, NextTable,
      At, database, loading, storing
  <2>2. CASE i = j
    <3>1. \A k \in Tables[table[j]] : Wanted(j, k) => own[j][k] # None \/ rows[k] # None
      BY <1>5 DEF NextTable, At, ToWrite, Wanted, LoadInv, Loads
    <3> QED
      BY <1>5, <2>2, <3>1, TablesAreThree DEF Resolves, Wanted, NextTable, At,
        database, storing
  <2> QED
    BY <2>1, <2>2
<1>6. ASSUME NEW j \in Jobs, CommitLoad(j) PROVE Resolves(i)'
  <2>1. CASE i # j
    BY <1>6, <2>1, OthersResolve DEF RowsOK, MarketsOK, SameClaims, CommitLoad,
      At, database, loading, storing
  <2>2. CASE i = j
    <3>1. table[j] = 3 /\ pc[j] = "write"
      BY <1>6, TablesAreThree DEF CommitLoad, At
    <3>2. \A k \in Tables[3] : Wanted(j, k) => own[j][k] # None \/ rows[k] # None
      BY <1>6, <3>1 DEF CommitLoad, ToWrite, Wanted, LoadInv, Loads
    <3>3. \A k \in Keys : Wanted(j, k) => rows'[k] # None
      BY <1>6, <2>2, <3>1, <3>2, SeenHoldsRows DEF CommitLoad, Resolves
    <3> QED
      BY <1>6, <2>2, <3>1, <3>3 DEF Resolves, Wanted, CommitLoad, At
  <2> QED
    BY <2>1, <2>2
<1>7. ASSUME NEW j \in Jobs, NEW k \in Keys, Insert(j, k) PROVE Resolves(i)'
  <2>1. CASE i # j
    BY <1>7, <2>1, OthersResolve DEF RowsOK, MarketsOK, SameClaims, Insert, At,
      database, loading, storing
  <2>2. CASE i = j
    <3>1. \A q \in Keys : own[j][q] # None => own'[j][q] # None
      BY <1>7 DEF RowsOK, HoldsRows, Insert, ToWrite
    <3> QED
      BY <1>7, <2>2, <3>1 DEF Resolves, Wanted, Insert, database, storing
  <2> QED
    BY <2>1, <2>2
<1>8. ASSUME NEW j \in Jobs, NEW k \in Keys, Update(j, k) PROVE Resolves(i)'
  <2>1. CASE i # j
    BY <1>8, <2>1, OthersResolve DEF RowsOK, MarketsOK, SameClaims, Update, At,
      database, loading, storing
  <2>2. CASE i = j
    <3>1. \A q \in Keys : own[j][q] # None => own'[j][q] # None
      BY <1>8 DEF RowsOK, HoldsRows, Update, ToWrite
    <3> QED
      BY <1>8, <2>2, <3>1 DEF Resolves, Wanted, Update, database, storing
  <2> QED
    BY <2>1, <2>2
<1>9. ASSUME NEW j \in Jobs, OpenRun(j) PROVE Resolves(i)'
  <2>1. CASE i # j
    BY <1>9, <2>1, OthersResolve DEF RowsOK, MarketsOK, SameClaims, OpenRun, At,
      database, loading, storing
  <2>2. CASE i = j
    BY <1>9, <2>2 DEF RowsOK, Resolves, Wanted, OpenRun, At, Slugs, database,
      loading, storing
  <2> QED
    BY <2>1, <2>2
<1>10. ASSUME NEW j \in Jobs, NEW s \in Sheets, FindMarket(j, s) PROVE Resolves(i)'
  <2>1. CASE i # j
    BY <1>10, <2>1, OthersResolve DEF RowsOK, MarketsOK, SameClaims, FindMarket,
      At, database, loading, storing
  <2>2. CASE i = j
    BY <1>10, <2>2 DEF MarketsOK, Resolves, Wanted, FindMarket, At, database, loading
  <2> QED
    BY <2>1, <2>2
<1>11. ASSUME NEW j \in Jobs, CreateMarket(j) PROVE Resolves(i)'
  <2>1. CASE i # j
    BY <1>11, <2>1, OthersResolve DEF RowsOK, MarketsOK, SameClaims,
      CreateMarket, At, database, loading, storing
  <2>2. CASE i = j
    BY <1>11, <2>2 DEF Resolves, Wanted, CreateMarket, At, database, loading
  <2> QED
    BY <2>1, <2>2
<1>12. ASSUME NEW j \in Jobs, FileSheet(j) PROVE Resolves(i)'
  <2>1. CASE i # j
    BY <1>12, <2>1, OthersResolve DEF RowsOK, MarketsOK, SameClaims, FileSheet,
      At, database, loading, storing
  <2>2. CASE i = j
    BY <1>12, <2>2 DEF Resolves, Wanted, FileSheet, At, database, loading
  <2> QED
    BY <2>1, <2>2
<1> QED
  BY <1>1, <1>2, <1>3, <1>4, <1>5, <1>6, <1>7, <1>8, <1>9, <1>10, <1>11, <1>12 DEF Next

LEMMA EverythingResolves == Spec => [](\A j \in Jobs : Resolves(j))
<1>1. Init => TypeOK /\ LoadInv /\ \A j \in Jobs : Resolves(j)
  BY InitInv, ResolvesInit
<1>2. /\ TypeOK /\ LoadInv /\ \A j \in Jobs : Resolves(j)
      /\ [Next]_vars
      => (TypeOK /\ LoadInv /\ \A j \in Jobs : Resolves(j))'
  BY TypeNext, ResolvesNext
<1> QED
  BY <1>1, <1>2, PTL DEF Spec

\* Whatever other jobs load meanwhile, an alias finds its commodity, a row its
\* commodity's id and a new market its region.
THEOREM ReferenceResolves == Spec => []WhatIsResolvedIsThere
<1>1. TypeOK /\ LoadInv /\ (\A j \in Jobs : Resolves(j)) => WhatIsResolvedIsThere
  <2> SUFFICES ASSUME TypeOK, LoadInv, NEW j \in Jobs, Resolves(j)
               PROVE  /\ pc[j] = "write" /\ table[j] = 3 =>
                            \A raw \in RawNames : Csv[version[j]][raw] # None =>
                                Csv[version[j]][raw]["commodity"] \in commodity_ids[j]
                      /\ pc[j] = "file" =>
                            \A raw \in Sheet[sheet[j]].raw_names : Csv[version[j]][raw] # None =>
                                Csv[version[j]][raw]["commodity"] \in commodity_ids[j]
                      /\ pc[j] = "create" => rows[Sheet[sheet[j]].region] # None
    BY DEF WhatIsResolvedIsThere
  <2>1. pc[j] # "idle" => version[j] \in Versions
    BY DEF LoadInv, Loads
  <2>2. ASSUME pc[j] # "idle", NEW raw \in RawNames, Csv[version[j]][raw] # None
        PROVE  /\ Csv[version[j]][raw]["commodity"] \in Slugs
               /\ Wanted(j, Csv[version[j]][raw]["commodity"])
    BY <2>1, <2>2, CsvsHaveRows, AliasesPointSomewhere DEF Rows, Keys, Wanted
  <2>3. pc[j] = "file" => Sheet[sheet[j]].raw_names \subseteq RawNames
    BY SheetsNameThings DEF TypeOK, MarketsOK
  <2>4. pc[j] = "create" => Sheet[sheet[j]].region \in Keys
    BY SheetsNameThings DEF TypeOK, MarketsOK, Keys
  <2> QED
    BY <2>2, <2>3, <2>4 DEF Resolves
<1> QED
  BY <1>1, TypesHold, EverythingResolves, PTL
-----------------------------------------------------------------------------
(***************************************************************************)
(* What a load leaves behind.                                              *)
(***************************************************************************)
\* The job has written k where the CSV has a row and the table another or none.
Done(j, k) == own[j][k] = IF Csv[version[j]][k] = rows[k] THEN None ELSE Csv[version[j]][k]

\* Until another load changes a row, a load finds what is there and has done
\* what it has to in the tables behind it.
Converges(j) ==
    pc[j] \in {"select", "write"} /\ ~disturbed[j] =>
        /\ \A n \in 1..3 : n < table[j] => \A k \in Tables[n] :
              IF Wanted(j, k) THEN Done(j, k) ELSE own[j][k] = None
        /\ pc[j] = "write" => \A k \in Tables[table[j]] :
              /\ existing[j][k] = rows[k]
              /\ own[j][k] # None => Wanted(j, k) /\ Done(j, k)

LEMMA ConvergesInit == Init => \A j \in Jobs : Converges(j)
  BY DEF Init, Converges

LEMMA ConvergesNext ==
    ASSUME TypeOK, LoadInv, [Next]_vars, NEW i \in Jobs, Converges(i)
    PROVE  Converges(i)'
<1> USE DEF TypeOK, JobsOK, RowsOK
<1> USE KeysAreOfTables
<1>1. CASE UNCHANGED vars
  BY <1>1 DEF Converges, Wanted, Done, vars, database, loading, storing
<1>2. ASSUME NEW j \in Jobs, NEW v \in Versions, Start(j, v) PROVE Converges(i)'
  <2>1. CASE i # j
    BY <1>2, <2>1, RowsStay DEF Converges, Wanted, Done, Start, At, database,
      loading, storing
  <2>2. CASE i = j
    BY <1>2, <2>2 DEF Converges, Wanted, Done, Start, At, database, loading,
      storing, LoadInv, Loads
  <2> QED
    BY <2>1, <2>2
<1>3. ASSUME NEW j \in Jobs, End(j) PROVE Converges(i)'
  <2>1. CASE i # j
    BY <1>3, <2>1, RowsStay DEF Converges, Wanted, Done, End, At, database,
      loading, storing
  <2>2. CASE i = j
    BY <1>3, <2>2 DEF Converges, Wanted, Done, End, At, database, loading, storing
  <2> QED
    BY <2>1, <2>2
<1>4. ASSUME NEW j \in Jobs, Select(j) PROVE Converges(i)'
  <2>1. CASE i # j
    BY <1>4, <2>1 DEF Converges, Wanted, Done, Select, At, database, loading, storing
  <2>2. CASE i = j
    <3>1. \A k \in Tables[table[j]] : own[j][k] = None
      BY <1>4 DEF LoadInv, Loads, Select, At
    <3>2. \A k \in Tables[table[j]] : k \in Keys /\ existing'[j][k] = rows[k]
      BY <1>4, <3>1, SeenHoldsRows DEF Select
    <3> QED
      BY <1>4, <2>2, <3>1, <3>2, ZenonT(30) DEF Converges, Wanted, Done, Select, At,
        database, storing
  <2> QED
    BY <2>1, <2>2
<1>5. ASSUME NEW j \in Jobs, NextTable(j) PROVE Converges(i)'
  <2>1. CASE i # j
    BY <1>5, <2>1, RowsStay DEF Converges, Wanted, Done, NextTable, At,
      database, loading, storing
  <2>2. CASE i = j
    BY <1>5, <2>2, TablesAreThree DEF Converges, Wanted, Done, NextTable, At,
      database, loading, storing, ToWrite, LoadInv, Loads
  <2> QED
    BY <2>1, <2>2
<1>6. ASSUME NEW j \in Jobs, CommitLoad(j) PROVE Converges(i)'
  <2>1. CASE i # j
    BY <1>6, <2>1, RowsStay, ZenonT(30) DEF Converges, Wanted, Done, CommitLoad, At,
      database, loading, storing
  <2>2. CASE i = j
    BY <1>6, <2>2 DEF Converges, Wanted, Done, CommitLoad, At, database,
      loading, storing
  <2> QED
    BY <2>1, <2>2
<1>7. ASSUME NEW j \in Jobs, NEW k \in Keys, Insert(j, k) PROVE Converges(i)'
  <2>1. CASE i # j
    BY <1>7, <2>1 DEF Converges, Wanted, Done, Insert, At, database, loading, storing
  <2>2. CASE i = j /\ ~disturbed[j]
    <3>1. /\ k \in Tables[table[j]] /\ Wanted(j, k) /\ existing[j][k] = rows[k]
          /\ Csv[version[j]][k] # rows[k]
      BY <1>7, <2>2 DEF Converges, Wanted, Insert, ToWrite
    <3>2. own' = [own EXCEPT ![j] = [own[j] EXCEPT ![k] = Csv[version[j]][k]]]
      BY <1>7, <3>1 DEF Insert
    <3>3. \A n \in 1..3 : n < table[j] => k \notin Tables[n]
      BY <3>1, TablesAreApart
    <3>4. \A q \in Keys : own'[j][q] = IF q = k THEN Csv[version[j]][k] ELSE own[j][q]
      BY <3>2 DEF HoldsRows
    <3>5. rows' = rows /\ existing' = existing /\ table' = table /\ pc' = pc
          /\ version' = version /\ disturbed' = disturbed
      BY <1>7 DEF Insert, database, loading
    <3> QED
      BY <1>7, <2>2, <3>1, <3>3, <3>4, <3>5 DEF Converges, Wanted, Done, Insert
  <2>3. CASE i = j /\ disturbed[j]
    BY <1>7, <2>3 DEF Converges, Insert, At, database, loading, storing
  <2> QED
    BY <2>1, <2>2, <2>3
<1>8. ASSUME NEW j \in Jobs, NEW k \in Keys, Update(j, k) PROVE Converges(i)'
  <2>1. CASE i # j
    BY <1>8, <2>1 DEF Converges, Wanted, Done, Update, At, database, loading, storing
  <2>2. CASE i = j /\ ~disturbed[j]
    <3>1. /\ k \in Tables[table[j]] /\ Wanted(j, k) /\ existing[j][k] = rows[k]
          /\ Csv[version[j]][k] # rows[k]
      BY <1>8, <2>2 DEF Converges, Wanted, Update, ToWrite
    <3>2. own' = [own EXCEPT ![j] = [own[j] EXCEPT ![k] = Csv[version[j]][k]]]
      <4>1. rows[k] \in Rows(k) /\ Csv[version[j]][k] \in Rows(k)
        BY <1>8, <3>1, CsvsHaveRows DEF RowsOK, HoldsRows, LoadInv, Loads,
          Update, Wanted
      <4>2. DOMAIN rows[k] = DOMAIN Csv[version[j]][k]
        BY <4>1 DEF Rows
      <4>3. Csv[version[j]][k] = [c \in DOMAIN rows[k] |-> Csv[version[j]][k][c]]
        BY <4>1, <4>2 DEF Rows
      <4>4. Csv[version[j]][k] = [c \in DOMAIN rows[k] |->
               IF existing[j][k][c] # Csv[version[j]][k][c]
               THEN Csv[version[j]][k][c] ELSE rows[k][c]]
        BY <3>1, <4>3
      <4> QED
        BY <1>8, <4>4 DEF Update
    <3>3. \A n \in 1..3 : n < table[j] => k \notin Tables[n]
      BY <3>1, TablesAreApart
    <3>4. \A q \in Keys : own'[j][q] = IF q = k THEN Csv[version[j]][k] ELSE own[j][q]
      BY <3>2 DEF HoldsRows
    <3>5. rows' = rows /\ existing' = existing /\ table' = table /\ pc' = pc
          /\ version' = version /\ disturbed' = disturbed
      BY <1>8 DEF Update, database, loading
    <3> QED
      BY <1>8, <2>2, <3>1, <3>3, <3>4, <3>5 DEF Converges, Wanted, Done, Update
  <2>3. CASE i = j /\ disturbed[j]
    BY <1>8, <2>3 DEF Converges, Update, At, database, loading, storing
  <2> QED
    BY <2>1, <2>2, <2>3
<1>9. ASSUME NEW j \in Jobs, OpenRun(j) PROVE Converges(i)'
  BY <1>9 DEF Converges, Wanted, Done, OpenRun, At, database, loading, storing
<1>10. ASSUME NEW j \in Jobs, NEW s \in Sheets, FindMarket(j, s) PROVE Converges(i)'
  BY <1>10 DEF Converges, Wanted, Done, FindMarket, At, database, loading, storing
<1>11. ASSUME NEW j \in Jobs, CreateMarket(j) PROVE Converges(i)'
  BY <1>11 DEF Converges, Wanted, Done, CreateMarket, At, database, loading, storing
<1>12. ASSUME NEW j \in Jobs, FileSheet(j) PROVE Converges(i)'
  BY <1>12 DEF Converges, Wanted, Done, FileSheet, At, database, loading, storing
<1> QED
  BY <1>1, <1>2, <1>3, <1>4, <1>5, <1>6, <1>7, <1>8, <1>9, <1>10, <1>11, <1>12 DEF Next

LEMMA EveryLoadConverges == Spec => [](\A j \in Jobs : Converges(j))
<1>1. Init => TypeOK /\ LoadInv /\ \A j \in Jobs : Converges(j)
  BY InitInv, ConvergesInit
<1>2. /\ TypeOK /\ LoadInv /\ \A j \in Jobs : Converges(j)
      /\ [Next]_vars
      => (TypeOK /\ LoadInv /\ \A j \in Jobs : Converges(j))'
  BY TypeNext, ConvergesNext
<1> QED
  BY <1>1, <1>2, PTL DEF Spec

\* An undisturbed load leaves the tables agreeing with its CSVs and has written
\* nothing that agreed before (seed.py:8-11).
THEOREM ReferenceConverges == Spec => LoadsConverge
<1>1. TypeOK /\ LoadInv /\ (\A j \in Jobs : Converges(j)) =>
        \A j \in Jobs : CommitLoad(j) /\ ~disturbed[j] =>
            \A k \in Keys :
               /\ Csv[version[j]][k] # None => rows'[k] = Csv[version[j]][k]
               /\ own[j][k] # None <=> Csv[version[j]][k] \notin {None, rows[k]}
  <2> SUFFICES ASSUME TypeOK, LoadInv, NEW j \in Jobs, Converges(j), CommitLoad(j),
                      ~disturbed[j], NEW k \in Keys
               PROVE  /\ Csv[version[j]][k] # None => rows'[k] = Csv[version[j]][k]
                      /\ own[j][k] # None <=> Csv[version[j]][k] \notin {None, rows[k]}
    OBVIOUS
  <2>1. table[j] = 3 /\ pc[j] = "write" /\ ToWrite(j) = {}
    BY TablesAreThree DEF CommitLoad, At
  <2>2. IF Wanted(j, k) THEN Done(j, k) ELSE own[j][k] = None
    <3>1. CASE k \in Tables[3]
      BY <2>1, <3>1 DEF Converges, Wanted, Done, ToWrite
    <3>2. CASE k \in Tables[1] \cup Tables[2]
      BY <2>1, <3>2 DEF Converges
    <3> QED
      BY <3>1, <3>2, KeysAreOfTables
  <2>3. rows'[k] = IF own[j][k] # None THEN own[j][k] ELSE rows[k]
    BY SeenHoldsRows DEF CommitLoad
  <2> QED
    BY <2>2, <2>3 DEF Wanted, Done
<1> QED
  BY <1>1, TypesHold, EveryLoadConverges, PTL DEF LoadsConverge
=============================================================================
