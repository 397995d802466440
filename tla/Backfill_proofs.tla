--------------------------- MODULE Backfill_proofs ---------------------------
(***************************************************************************)
(* Proofs about Backfill, for any files, index, window and number of runs. *)
(* Ledger is inductive: while a process runs, its row is the last one and  *)
(* still says "running", and what it has counted is filed or held; that is *)
(* why the figure _close_run writes is right after any number of crashes.  *)
(***************************************************************************)
EXTENDS Backfill, FiniteSetTheorems, TLAPS

\* A process that is off holds nothing, one that is not has an open row.
OpenRow ==
    /\ pc = "off" => tally = Fresh /\ held = <<>>
    /\ pc # "off" => Len(runs) > 0 /\ runs[Len(runs)].status = "running"

Ledger == OpenRow /\ QuarantineIsConserved /\ FinishedRunsAddUp

\* The store reads a sheet as this module does.
LEMMA StoreReadsSheets ==
    \A b : Store!Settled(b) = Settled(b) /\ \A k : Store!FigOf(b, k) = FigOf(b, k)
BY DEF Store!Settled, Store!FigOf, Store!Described, Store!Mentions,
       Settled, FigOf, Described, Mentions

\* A sheet disputes and settles finitely many keys.
LEMMA SheetsAreFinite ==
    ASSUME NEW f \in Files
    PROVE  /\ Cardinality(Disputed(Sheet[f])) \in Nat
           /\ \A h : Cardinality({k \in Keys : Store!Changes(h[k], f, k)}) \in Nat
<1> DEFINE B == Sheet[f]
           M == {B[i].key : i \in 1..Len(B)}
<1>1. B \in Seq(Observation)
  BY SheetsAreBatches
<1>2. IsFiniteSet(1..Len(B))
  BY <1>1, FS_Interval
<1>3. IsFiniteSet(M)
  <2> DEFINE keyAt == [i \in 1..Len(B) |-> B[i].key]
  <2>1. keyAt \in Surjection(1..Len(B), M)
    BY DEF Surjection
  <2> QED
    BY <1>2, <2>1, FS_Surjection
<1>4. \A S \in SUBSET M : Cardinality(S) \in Nat
  BY <1>3, FS_Subset, FS_CardinalityType
<1>5. \A k \in Keys : Described(B, k) # {} => k \in M
  BY <1>1 DEF Described, Mentions
<1>6. Disputed(B) \subseteq M
  BY <1>5 DEF Disputed
<1>7. ASSUME NEW h
      PROVE  {k \in Keys : Store!Changes(h[k], f, k)} \subseteq M
  <2>1. \A k \in Settled(B) : k \in Keys /\ Described(B, k) # {}
    BY DEF Settled
  <2> QED
    BY <1>5, <2>1, StoreReadsSheets DEF Store!Changes
<1> QED
  BY <1>4, <1>6, <1>7

\* Rows really are a sequence of what they are about.
LEMMA RowsAreASequence ==
    ASSUME NEW x \in Subjects, NEW n \in Nat
    PROVE  Rows(x, n) \in Seq(Subjects) /\ Len(Rows(x, n)) = n
BY DEF Rows

LEMMA Joined ==
    ASSUME NEW S, NEW a \in Seq(S), NEW b \in Seq(S)
    PROVE  /\ a \o b \in Seq(S)
           /\ Len(a \o b) = Len(a) + Len(b) /\ Len(a) \in Nat /\ Len(b) \in Nat
OBVIOUS

LEMMA JoinedThrice ==
    ASSUME NEW S, NEW a \in Seq(S), NEW b \in Seq(S), NEW c \in Seq(S)
    PROVE  /\ a \o (b \o c) \in Seq(S)
           /\ Len(a \o (b \o c)) = Len(a) + Len(b) + Len(c)
<1> DEFINE d == b \o c
<1>1. d \in Seq(S) /\ Len(d) = Len(b) + Len(c)
  BY Joined
<1> HIDE DEF d
<1>2. Len(a) \in Nat /\ Len(b) \in Nat /\ Len(c) \in Nat
  BY Joined
<1>3. a \o d \in Seq(S) /\ Len(a \o d) = Len(a) + Len(d)
  BY <1>1, Joined
<1>4. Len(a \o d) = Len(a) + Len(b) + Len(c)
  BY <1>1, <1>2, <1>3
<1> QED
  BY <1>3, <1>4 DEF d

\* Counting rows, and failures and writes with them.
LEMMA Counting ==
    ASSUME NEW t \in Counters, NEW q \in Nat, NEW g \in Nat, NEW u \in Nat
    PROVE  LET t3 == [t EXCEPT !.quarantined = @ + q, !.failed = @ + g, !.upserted = @ + u]
           IN  t3 \in Counters /\ t3.quarantined = t.quarantined + q
<1> DEFINE t1 == [t EXCEPT !.quarantined = @ + q]
           t2 == [t1 EXCEPT !.failed = @ + g]
           t3 == [t2 EXCEPT !.upserted = @ + u]
<1>1. t1 \in Counters /\ t1.quarantined = t.quarantined + q
            /\ t1.failed = t.failed /\ t1.upserted = t.upserted
  BY DEF Counters
<1> HIDE DEF t1
<1>2. t2 \in Counters /\ t2.quarantined = t.quarantined + q /\ t2.upserted = t.upserted
  BY <1>1 DEF Counters
<1> HIDE DEF t2
<1>3. t3 \in Counters /\ t3.quarantined = t.quarantined + q
  BY <1>2 DEF Counters
<1> HIDE DEF t3
<1>4. t3 = [t EXCEPT !.quarantined = @ + q, !.failed = @ + g, !.upserted = @ + u]
  BY <1>1, <1>2, Zenon DEF t3, t2, t1
<1> QED
  BY <1>3, <1>4, Zenon

LEMMA CountingAFailure ==
    ASSUME NEW t \in Counters
    PROVE  LET t3 == [t EXCEPT !.seen = @ + 1, !.failed = @ + 1, !.quarantined = @ + 1]
           IN  t3 \in Counters /\ t3.quarantined = t.quarantined + 1
<1> DEFINE t1 == [t EXCEPT !.seen = @ + 1]
           t2 == [t1 EXCEPT !.failed = @ + 1]
           t3 == [t2 EXCEPT !.quarantined = @ + 1]
<1>1. t1 \in Counters /\ t1.quarantined = t.quarantined /\ t1.failed = t.failed
  BY DEF Counters
<1> HIDE DEF t1
<1>2. t2 \in Counters /\ t2.quarantined = t.quarantined
  BY <1>1 DEF Counters
<1> HIDE DEF t2
<1>3. t3 \in Counters /\ t3.quarantined = t.quarantined + 1
  BY <1>2 DEF Counters
<1> HIDE DEF t3
<1>4. t3 = [t EXCEPT !.seen = @ + 1, !.failed = @ + 1, !.quarantined = @ + 1]
  BY <1>1, <1>2, Zenon DEF t3, t2, t1
<1> QED
  BY <1>3, <1>4, Zenon

LEMMA CountingAFetch ==
    ASSUME NEW t \in Counters, NEW n \in Nat
    PROVE  LET t2 == [t EXCEPT !.seen = @ + 1, !.fetched = n]
           IN  t2 \in Counters /\ t2.quarantined = t.quarantined
<1> DEFINE t1 == [t EXCEPT !.seen = @ + 1]
           t2 == [t1 EXCEPT !.fetched = n]
<1>1. t1 \in Counters /\ t1.quarantined = t.quarantined
  BY DEF Counters
<1> HIDE DEF t1
<1>2. t2 \in Counters /\ t2.quarantined = t.quarantined
  BY <1>1 DEF Counters
<1> HIDE DEF t2
<1>3. t2 = [t EXCEPT !.seen = @ + 1, !.fetched = n]
  BY Zenon DEF t2, t1
<1> QED
  BY <1>2, <1>3, Zenon

LEMMA CountingRows ==
    ASSUME NEW t \in Counters, NEW q \in Nat
    PROVE  /\ [t EXCEPT !.quarantined = @ + q] \in Counters
           /\ [t EXCEPT !.quarantined = @ + q].quarantined = t.quarantined + q
BY DEF Counters

\* Publishing a file keeps histories well-formed.
LEMMA PublishType ==
    ASSUME history \in [Keys -> Seq(Store!Publication)], NEW f \in Files, Store!Publish(f)
    PROVE  history' \in [Keys -> Seq(Store!Publication)]
<1>1. ASSUME NEW k \in Keys, Store!Changes(history[k], f, k)
      PROVE  [fig |-> FigOf(Sheet[f], k), file |-> f] \in Store!Publication
  BY <1>1, StoreReadsSheets DEF Store!Changes, Store!Publication, Settled, FigOf
<1> QED
  BY <1>1, StoreReadsSheets DEF Store!Publish

-----------------------------------------------------------------------------
\* A transaction that appends rows to its run's quarantine and counts them
\* keeps the ledger.
LEMMA FlushKeepsTheLedger ==
    ASSUME TypeOK, Ledger, pc # "off", NEW rows \in Seq(Subjects), NEW n \in Nat,
           Flush(held \o rows), runs' = runs, pc' # "off",
           n = Len(rows), tally'.quarantined = tally.quarantined + n
    PROVE  /\ quarantine' \in Seq(Seq(Subjects)) /\ Len(quarantine') = Len(runs')
           /\ held' \in Seq(Subjects)
           /\ Ledger'
<1> DEFINE r == Len(runs)
<1>1. r \in DOMAIN runs /\ r \in DOMAIN quarantine /\ r = Len(quarantine)
  BY DEF TypeOK, Ledger, OpenRow
<1>2. quarantine[r] \in Seq(Subjects) /\ held \in Seq(Subjects)
  BY <1>1 DEF TypeOK
<1>3. quarantine' = [quarantine EXCEPT ![r] = @ \o (held \o rows)] /\ held' = <<>>
  BY DEF Flush
<1>4. held \o rows \in Seq(Subjects) /\ Len(held \o rows) = Len(held) + n
  BY <1>2, Joined
<1>5. /\ quarantine[r] \o (held \o rows) \in Seq(Subjects)
      /\ Len(quarantine[r] \o (held \o rows)) = Len(quarantine[r]) + Len(held) + n
  <2>1. \A a, b, c \in Seq(Subjects) :
            /\ a \o (b \o c) \in Seq(Subjects)
            /\ Len(a \o (b \o c)) = Len(a) + Len(b) + Len(c)
    BY JoinedThrice
  <2> HIDE DEF r
  <2> QED
    BY <1>2, <2>1, Zenon
<1> HIDE DEF r
<1>6. /\ quarantine' \in Seq(Seq(Subjects)) /\ Len(quarantine') = Len(quarantine)
      /\ quarantine'[r] = quarantine[r] \o (held \o rows)
      /\ \A i \in DOMAIN quarantine : i # r => quarantine'[i] = quarantine[i]
  BY <1>1, <1>3, <1>5 DEF TypeOK
<1>7. tally.quarantined = Len(quarantine[r]) + Len(held) /\ tally.quarantined \in Nat
  BY DEF Ledger, QuarantineIsConserved, TypeOK, Counters, r
<1>8. QuarantineIsConserved'
  <2>1. Len(held') = 0
    BY <1>3
  <2>2. Len(quarantine'[r]) = Len(quarantine[r]) + Len(held) + n
    BY <1>5, <1>6
  <2>3. Len(quarantine[r]) \in Nat /\ Len(held) \in Nat
    BY <1>2
  <2> QED
    BY <1>7, <2>1, <2>2, <2>3 DEF QuarantineIsConserved, r
<1>9. FinishedRunsAddUp'
  <2>1. runs[r].status = "running"
    BY DEF Ledger, OpenRow, r
  <2>2. DOMAIN runs = DOMAIN quarantine
    BY DEF TypeOK
  <2> QED
    BY <1>6, <2>1, <2>2 DEF Ledger, FinishedRunsAddUp
<1>10. OpenRow'
  BY DEF Ledger, OpenRow
<1> QED
  BY <1>3, <1>6, <1>8, <1>9, <1>10 DEF Ledger, TypeOK

\* Settling a file: the common part of the three ways a fetched file ends.
LEMMA SettleStep ==
    ASSUME TypeOK, Ledger, pc = "store", NEW f \in Files, NEW rows \in Seq(Subjects),
           NEW failed \in Nat, NEW upserted \in Nat, Settle(f, rows, failed, upserted),
           history' \in [Keys -> Seq(Store!Publication)]
    PROVE  TypeOK' /\ Ledger'
<1>1. /\ tally' \in Counters
      /\ tally'.quarantined = tally.quarantined + Len(rows)
  <2>1. Len(rows) \in Nat
    BY Joined
  <2>2. tally \in Counters
    BY DEF TypeOK
  <2>3. tally' = [tally EXCEPT !.quarantined = @ + Len(rows), !.failed = @ + failed,
                               !.upserted = @ + upserted]
    BY Zenon DEF Settle
  <2> QED
    BY <2>1, <2>2, <2>3, Counting, Zenon
<1>2. /\ quarantine' \in Seq(Seq(Subjects)) /\ Len(quarantine') = Len(runs')
      /\ held' \in Seq(Subjects)
      /\ Ledger'
  <2>1. Flush(held \o rows) /\ runs' = runs /\ pc' # "off" /\ Len(rows) \in Nat
    BY DEF Settle
  <2> QED
    BY <1>1, <2>1, FlushKeepsTheLedger
<1> QED
  BY <1>1, <1>2 DEF Settle, world, TypeOK

-----------------------------------------------------------------------------
\* The steps that write no quarantine row keep the ledger too.
LEMMA UncountedStep ==
    ASSUME TypeOK, Ledger, pc # "off", pc' # "off", UNCHANGED <<runs, quarantine, held>>,
           tally'.quarantined = tally.quarantined
    PROVE  Ledger'
BY DEF Ledger, OpenRow, QuarantineIsConserved, FinishedRunsAddUp

LEMMA EscapeStep ==
    ASSUME TypeOK, Ledger, Escape
    PROVE  TypeOK' /\ Ledger'
<1>1. TypeOK'
  BY DEF TypeOK, Escape, Forget, world, tables, Fresh, Counters
<1>2. Ledger'
  BY DEF Escape, Forget, world, tables, Ledger, OpenRow, QuarantineIsConserved,
         FinishedRunsAddUp
<1> QED
  BY <1>1, <1>2

LEMMA StartStep ==
    ASSUME TypeOK, Ledger, Start
    PROVE  TypeOK' /\ Ledger'
<1> DEFINE row == [status |-> "running", seen |-> 0, fetched |-> 0,
                   upserted |-> 0, quarantined |-> 0]
<1>1. /\ pc = "off" /\ pc' = "discover"
      /\ runs' = Append(runs, row) /\ quarantine' = Append(quarantine, <<>>)
      /\ tally' = tally /\ held' = held /\ tally = Fresh /\ held = <<>>
  BY DEF Start, Ledger, OpenRow
<1>2. row \in RunRow
  BY DEF RunRow
<1>3. runs \in Seq(RunRow) /\ quarantine \in Seq(Seq(Subjects)) /\ Len(quarantine) = Len(runs)
  BY DEF TypeOK
<1>4. /\ runs' \in Seq(RunRow) /\ Len(runs') = Len(runs) + 1
      /\ quarantine' \in Seq(Seq(Subjects)) /\ Len(quarantine') = Len(runs) + 1
      /\ runs'[Len(runs) + 1] = row /\ quarantine'[Len(runs) + 1] = <<>>
      /\ \A r \in 1..Len(runs) : runs'[r] = runs[r] /\ quarantine'[r] = quarantine[r]
  BY <1>1, <1>2, <1>3
<1>5. TypeOK'
  <2>1. today \in FirstDay..LastDay
    BY DEF TypeOK
  <2> QED
    BY <1>1, <1>4, <2>1 DEF TypeOK, Start, world
<1>6. OpenRow'
  BY <1>1, <1>3, <1>4 DEF OpenRow
<1>7. QuarantineIsConserved'
  BY <1>1, <1>4 DEF QuarantineIsConserved, Fresh
<1>8. FinishedRunsAddUp'
  <2>1. DOMAIN runs' = 1..(Len(runs) + 1) /\ DOMAIN runs = 1..Len(runs) /\ Len(runs) \in Nat
    BY <1>3, <1>4
  <2> SUFFICES ASSUME NEW r \in DOMAIN runs', runs'[r].status # "running"
               PROVE  runs'[r].quarantined = Len(quarantine'[r])
    BY DEF FinishedRunsAddUp
  <2>2. r # Len(runs) + 1
    BY <1>4
  <2>3. r \in DOMAIN runs /\ runs'[r] = runs[r] /\ quarantine'[r] = quarantine[r]
    BY <1>4, <2>1, <2>2, SMTT(30)
  <2> QED
    BY <2>3 DEF FinishedRunsAddUp, Ledger
<1> QED
  BY <1>5, <1>6, <1>7, <1>8 DEF Ledger

LEMMA DiscoverStep ==
    ASSUME TypeOK, Ledger, Discover
    PROVE  TypeOK' /\ Ledger'
<1> DEFINE n == Cardinality(Strays)
           strays == Rows(IndexPage, n)
<1>1. n \in Nat
  BY FilesAreDescribed, FS_Subset, FS_CardinalityType DEF Strays, TypeOK
<1>2. strays \in Seq(Subjects) /\ Len(strays) = n
  BY <1>1, RowsAreASequence DEF Subjects
<1>3. /\ tally' = [tally EXCEPT !.quarantined = @ + Len(strays)]
      /\ Flush(held \o strays) /\ runs' = runs /\ pc = "discover" /\ pc' = "files"
  BY DEF Discover
<1> HIDE DEF strays, n
<1>4. tally' \in Counters /\ tally'.quarantined = tally.quarantined + n
  <2>1. tally' = [tally EXCEPT !.quarantined = @ + n]
    BY <1>2, <1>3, Zenon
  <2>2. tally \in Counters
    BY DEF TypeOK
  <2> QED
    BY <1>1, <2>1, <2>2, CountingRows, Zenon
<1>5. /\ quarantine' \in Seq(Seq(Subjects)) /\ Len(quarantine') = Len(runs')
      /\ held' \in Seq(Subjects)
      /\ Ledger'
  BY <1>1, <1>2, <1>3, <1>4, FlushKeepsTheLedger
<1> QED
  BY <1>4, <1>5 DEF Discover, TypeOK, world

LEMMA CloseStep ==
    ASSUME TypeOK, Ledger, _close_run
    PROVE  TypeOK' /\ Ledger'
<1> DEFINE r == Len(runs)
           row == [status |-> status, seen |-> tally.seen, fetched |-> tally.fetched,
                   upserted |-> tally.upserted, quarantined |-> tally.quarantined]
<1>1. /\ runs' = [runs EXCEPT ![r] = row] /\ pc = "close" /\ pc' = "off"
      /\ quarantine' = [quarantine EXCEPT ![r] = @ \o held] /\ held' = <<>> /\ tally' = Fresh
  BY DEF _close_run, Flush, Forget
<1>2. row \in RunRow /\ row.quarantined = tally.quarantined
  BY DEF TypeOK, RunRow, Counters
<1>3. /\ runs \in Seq(RunRow) /\ quarantine \in Seq(Seq(Subjects)) /\ Len(quarantine) = r
      /\ r \in DOMAIN runs /\ r \in DOMAIN quarantine /\ held \in Seq(Subjects)
  BY <1>1 DEF TypeOK, Ledger, OpenRow
<1>4. quarantine[r] \in Seq(Subjects)
  BY <1>3
<1>5. /\ quarantine[r] \o held \in Seq(Subjects)
      /\ Len(quarantine[r] \o held) = Len(quarantine[r]) + Len(held)
  BY <1>3, <1>4, Joined
<1>6. tally.quarantined = Len(quarantine[r]) + Len(held)
  BY <1>1 DEF Ledger, QuarantineIsConserved
<1> HIDE DEF row, r
<1>7. /\ runs' \in Seq(RunRow) /\ runs'[r] = row
      /\ quarantine' \in Seq(Seq(Subjects)) /\ quarantine'[r] = quarantine[r] \o held
      /\ Len(quarantine') = Len(runs') /\ DOMAIN runs' = DOMAIN runs
      /\ \A i \in DOMAIN runs : i # r => runs'[i] = runs[i] /\ quarantine'[i] = quarantine[i]
  BY <1>1, <1>2, <1>3, <1>5 DEF r
<1>8. FinishedRunsAddUp'
  BY <1>2, <1>5, <1>6, <1>7 DEF Ledger, FinishedRunsAddUp
<1>9. TypeOK'
  BY <1>1, <1>7, SMTT(30) DEF TypeOK, _close_run, Forget, Fresh, Counters, world
<1> QED
  BY <1>1, <1>8, <1>9 DEF Ledger, OpenRow, QuarantineIsConserved

LEMMA StepInv == TypeOK /\ Ledger /\ [Next]_vars => TypeOK' /\ Ledger'
<1> SUFFICES ASSUME TypeOK, Ledger, [Next]_vars PROVE TypeOK' /\ Ledger'
  OBVIOUS
<1>1. CASE UNCHANGED vars
  BY <1>1 DEF vars, world, tables, TypeOK, Ledger, OpenRow, QuarantineIsConserved,
              FinishedRunsAddUp
<1>2. CASE Post
  <2>1. listed' \subseteq Files
    BY <1>2 DEF Post, TypeOK
  <2> QED
    BY <1>2, <2>1 DEF Post, tables, TypeOK, Ledger, OpenRow, QuarantineIsConserved,
                      FinishedRunsAddUp
<1>3. CASE NextDay
  <2>1. today' \in FirstDay..LastDay
    BY <1>3, BoundsAreNatural DEF NextDay, TypeOK
  <2> QED
    BY <1>3, <2>1 DEF NextDay, tables, TypeOK, Ledger, OpenRow, QuarantineIsConserved,
                      FinishedRunsAddUp
<1>4. CASE Start
  BY <1>4, StartStep
<1>5. CASE Discover
  BY <1>5, DiscoverStep
<1>6. CASE DiscoverFails
  <2>1. TypeOK'
    BY <1>6 DEF DiscoverFails, TypeOK, world, tables
  <2> QED
    BY <1>6, <2>1, UncountedStep DEF DiscoverFails, tables
<1>7. CASE Fetch
  <2> PICK f \in todo : /\ tally' = [tally EXCEPT !.seen = @ + 1,
                                        !.fetched = IF f \in cached THEN @ ELSE @ + 1]
                        /\ cached' = cached \cup {f}
    BY <1>7 DEF Fetch
  <2>1. tally' \in Counters /\ tally'.quarantined = tally.quarantined
    <3> DEFINE n == IF f \in cached THEN tally.fetched ELSE tally.fetched + 1
    <3>1. n \in Nat
      BY DEF TypeOK, Counters
    <3>2. tally' = [tally EXCEPT !.seen = @ + 1, !.fetched = n]
      BY Zenon
    <3>3. tally \in Counters
      BY DEF TypeOK
    <3> HIDE DEF n
    <3> QED
      BY <3>1, <3>2, <3>3, CountingAFetch, Zenon
  <2>2. cached' \subseteq Files
    BY DEF TypeOK
  <2>3. TypeOK'
    BY <1>7, <2>1, <2>2 DEF Fetch, TypeOK, world, tables
  <2> QED
    BY <1>7, <2>1, <2>3, UncountedStep DEF Fetch, tables
<1>8. CASE FetchFails
  <2> PICK f \in todo \ cached : held' = Append(held, f) /\ todo' = todo \ {f}
    BY <1>8 DEF FetchFails
  <2>1. tally' \in Counters /\ tally'.quarantined = tally.quarantined + 1
    <3>1. tally' = [tally EXCEPT !.seen = @ + 1, !.failed = @ + 1, !.quarantined = @ + 1]
      BY <1>8, Zenon DEF FetchFails
    <3>2. tally \in Counters
      BY DEF TypeOK
    <3> QED
      BY <3>1, <3>2, CountingAFailure, Zenon
  <2>2. held' \in Seq(Subjects) /\ Len(held') = Len(held) + 1 /\ Len(held) \in Nat
    BY DEF TypeOK, Subjects
  <2>3. TypeOK'
    BY <1>8, <2>1, <2>2 DEF FetchFails, TypeOK, world, tables
  <2>4. quarantine' = quarantine /\ runs' = runs /\ pc' = pc /\ pc = "files"
    BY <1>8 DEF FetchFails, tables
  <2>5. QuarantineIsConserved'
    <3>1. Len(quarantine[Len(runs)]) \in Nat
      <4>1. Len(runs) \in DOMAIN quarantine
        BY <2>4 DEF TypeOK, Ledger, OpenRow
      <4>2. quarantine[Len(runs)] \in Seq(Subjects)
        BY <4>1 DEF TypeOK
      <4> QED
        BY <4>2
    <3>2. tally.quarantined = Len(quarantine[Len(runs)]) + Len(held)
      BY <2>4 DEF Ledger, QuarantineIsConserved
    <3> QED
      <4> DEFINE q == Len(quarantine[Len(runs)])
                 h == Len(held)
      <4>1. Len(quarantine'[Len(runs')]) = q
        BY <2>4
      <4>2. tally'.quarantined = q + h + 1 /\ Len(held') = h + 1
        BY <2>1, <2>2, <3>2
      <4>3. q \in Nat /\ h \in Nat
        BY <2>2, <3>1
      <4> HIDE DEF q, h
      <4>4. tally'.quarantined = q + Len(held')
        BY <4>2, <4>3
      <4> QED
        BY <4>1, <4>4 DEF QuarantineIsConserved
  <2> QED
    BY <2>3, <2>4, <2>5 DEF Ledger, OpenRow, FinishedRunsAddUp
<1>9. CASE FetchDisallowed
  <2>1. tally' \in Counters /\ tally'.quarantined = tally.quarantined
    <3>1. tally' = [tally EXCEPT !.seen = @ + 1]
      BY <1>9 DEF FetchDisallowed
    <3>2. tally \in Counters
      BY DEF TypeOK
    <3> QED
      BY <3>1, <3>2 DEF Counters
  <2>2. TypeOK'
    BY <1>9, <2>1 DEF FetchDisallowed, TypeOK, world, tables
  <2> QED
    BY <1>9, <2>1, <2>2, UncountedStep DEF FetchDisallowed, tables
<1>10. CASE QuarantineUnparseable
  <2> PICK f \in Unparseable : Settle(f, <<f>>, 1, 0)
    BY <1>10 DEF QuarantineUnparseable
  <2>1. f \in Files /\ <<f>> \in Seq(Subjects)
    BY FilesAreDescribed DEF Subjects
  <2>2. history' \in [Keys -> Seq(Store!Publication)] /\ pc = "store"
    BY <1>10 DEF QuarantineUnparseable, TypeOK
  <2> QED
    BY <2>1, <2>2, SettleStep
<1>11. CASE QuarantineMisplaced
  <2> PICK f \in todo : Settle(f, Rows(f, Rejected[f] + 1), 1, 0)
    BY <1>11 DEF QuarantineMisplaced
  <2>1. f \in Files /\ Rejected[f] + 1 \in Nat
    BY FilesAreDescribed DEF TypeOK
  <2>2. Rows(f, Rejected[f] + 1) \in Seq(Subjects)
    BY <2>1, RowsAreASequence DEF Subjects
  <2>3. history' \in [Keys -> Seq(Store!Publication)] /\ pc = "store"
    BY <1>11 DEF QuarantineMisplaced, TypeOK
  <2> QED
    BY <2>1, <2>2, <2>3, SettleStep
<1>12. CASE _store
  <2> DEFINE rows(f) == Rows(f, Rejected[f] + Unresolved[f] + Cardinality(Disputed(Sheet[f])))
             written(f) == Cardinality({k \in Keys : Store!Changes(history[k], f, k)})
  <2> PICK f \in todo : Store!Publish(f) /\ Settle(f, rows(f), 0, written(f))
    BY <1>12 DEF _store
  <2>1. f \in Files /\ Rejected[f] \in Nat /\ Unresolved[f] \in Nat
    BY FilesAreDescribed DEF TypeOK
  <2>2. written(f) \in Nat /\ Cardinality(Disputed(Sheet[f])) \in Nat
    BY <2>1, SheetsAreFinite
  <2>3. rows(f) \in Seq(Subjects)
    <3> DEFINE n == Rejected[f] + Unresolved[f] + Cardinality(Disputed(Sheet[f]))
    <3>1. n \in Nat
      BY <2>1, <2>2
    <3> HIDE DEF n
    <3>2. Rows(f, n) \in Seq(Subjects)
      BY <2>1, <3>1, RowsAreASequence DEF Subjects
    <3> QED
      BY <3>2 DEF n
  <2>4. history' \in [Keys -> Seq(Store!Publication)] /\ pc = "store"
    BY <1>12, <2>1, PublishType DEF _store, TypeOK
  <2> HIDE DEF rows, written
  <2> QED
    BY <2>1, <2>2, <2>3, <2>4, SettleStep
<1>13. CASE AllProcessed
  <2>1. TypeOK'
    BY <1>13 DEF AllProcessed, TypeOK, world, tables
  <2> QED
    BY <1>13, <2>1, UncountedStep DEF AllProcessed, tables
<1>14. CASE _close_run
  BY <1>14, CloseStep
<1>15. CASE Killed \/ DatabaseRaises
  BY <1>15, EscapeStep DEF Killed, DatabaseRaises
<1> QED
  BY <1>1, <1>2, <1>3, <1>4, <1>5, <1>6, <1>7, <1>8, <1>9, <1>10, <1>11, <1>12, <1>13,
     <1>14, <1>15 DEF Next, RunStep

LEMMA InitInv == Init => TypeOK /\ Ledger
<1> SUFFICES ASSUME Init PROVE TypeOK /\ Ledger
  OBVIOUS
<1>1. TypeOK
  BY BoundsAreNatural DEF Init, Store!Init, TypeOK, Fresh, Counters
<1> QED
  BY <1>1 DEF Init, Ledger, OpenRow, QuarantineIsConserved, FinishedRunsAddUp

\* Every variable of Backfill keeps its type, for any files and sheets.
THEOREM BackfillTypeOK == Spec => []TypeOK
<1>1. Spec => [](TypeOK /\ Ledger)
  BY InitInv, StepInv, PTL DEF Spec
<1> QED
  BY <1>1, PTL

\* Whatever crashed and whichever fetches failed, what a run has counted as
\* quarantined is filed under it or still held for its next transaction.
THEOREM BackfillConserves == Spec => []QuarantineIsConserved
<1>1. Spec => [](TypeOK /\ Ledger)
  BY InitInv, StepInv, PTL DEF Spec
<1>2. Ledger => QuarantineIsConserved
  BY DEF Ledger
<1> QED
  BY <1>1, <1>2, PTL

\* The quarantine figure of every finished run is the number of its quarantine
\* rows (ingest.py:136-144, 230-232).
THEOREM BackfillAddsUp == Spec => []FinishedRunsAddUp
<1>1. Spec => [](TypeOK /\ Ledger)
  BY InitInv, StepInv, PTL DEF Spec
<1>2. Ledger => FinishedRunsAddUp
  BY DEF Ledger
<1> QED
  BY <1>1, <1>2, PTL

-----------------------------------------------------------------------------
\* What is published was dated by a sheet whose day has come.
Dated ==
    /\ asOf <= today
    /\ \A k \in Keys : history[k] # <<>> =>
        \E f \in Files : k \in Settled(Sheet[f]) /\ SheetDate[f] <= today

LEMMA DatedInit == Init => Dated
BY BoundsAreNatural DEF Init, Store!Init, Dated

LEMMA DatedStep == TypeOK /\ Dated /\ [Next]_vars => Dated'
<1> SUFFICES ASSUME TypeOK, Dated, [Next]_vars PROVE Dated'
  OBVIOUS
<1>1. today \in Nat /\ asOf \in Nat /\ \A f \in Files : SheetDate[f] \in Nat
  BY BoundsAreNatural, FilesAreDescribed DEF TypeOK
<1>2. CASE NextDay
  BY <1>1, <1>2 DEF NextDay, tables, Dated
<1>3. CASE Start
  BY <1>1, <1>3 DEF Start, world, Dated
<1>4. CASE _store
  <2>1. PICK f \in todo : _place(f) /\ Store!Publish(f) /\ world' = world /\ asOf' = asOf
    BY <1>4 DEF _store, Settle
  <2>2. f \in Files /\ SheetDate[f] <= asOf /\ asOf <= today /\ today' = today
    BY <2>1 DEF TypeOK, _place, Dated, world
  <2>3. SheetDate[f] <= today
    BY <1>1, <2>2
  <2> SUFFICES ASSUME NEW k \in Keys, history'[k] # <<>>
               PROVE  \E g \in Files : k \in Settled(Sheet[g]) /\ SheetDate[g] <= today
    BY <2>1, <2>2 DEF Dated
  <2>4. CASE Store!Changes(history[k], f, k)
    <3>1. k \in Settled(Sheet[f])
      BY <2>4, StoreReadsSheets DEF Store!Changes
    <3> QED
      BY <2>2, <2>3, <3>1
  <2>5. CASE ~Store!Changes(history[k], f, k)
    BY <2>1, <2>5 DEF Store!Publish, Dated
  <2> QED
    BY <2>4, <2>5
<1>5. CASE UNCHANGED <<today, asOf, history>>
  BY <1>5 DEF Dated
<1>6. [Next]_vars => \/ NextDay \/ Start \/ _store
                     \/ UNCHANGED <<today, asOf, history>>
  BY DEF Next, RunStep, vars, world, tables, Post, Discover, DiscoverFails, Fetch,
         FetchFails, FetchDisallowed, QuarantineUnparseable, QuarantineMisplaced, Settle,
         AllProcessed, _close_run, Killed, DatabaseRaises, Escape
<1> QED
  BY <1>2, <1>3, <1>4, <1>5, <1>6

\* No observation is ever dated after today, whatever the links claim.
THEOREM BackfillNeverAheadOfTime == Spec => []NoFutureObservations
<1>1. Spec => [](TypeOK /\ Ledger /\ Dated)
  BY InitInv, StepInv, DatedInit, DatedStep, PTL DEF Spec
<1>2. TypeOK /\ Dated => NoFutureObservations
  <2> SUFFICES ASSUME TypeOK, Dated, NEW f \in Files, SheetDate[f] > today,
                      NEW k \in Settled(Sheet[f]), history[k] # <<>>
               PROVE  FALSE
    BY DEF NoFutureObservations
  <2>1. PICK g \in Files : k \in Settled(Sheet[g]) /\ SheetDate[g] <= today
    BY DEF Dated, Settled
  <2>2. SheetDate[f] # SheetDate[g]
    BY <2>1, FilesAreDescribed, BoundsAreNatural DEF TypeOK
  <2>3. \A h \in Files : k \in Settled(Sheet[h]) =>
            k \in {Sheet[h][i].key : i \in DOMAIN Sheet[h]}
    BY DEF Settled, Described, Mentions
  <2> QED
    BY <2>1, <2>2, <2>3, KeysCarryTheSheetDate
<1> QED
  BY <1>1, <1>2, PTL

-----------------------------------------------------------------------------
\* The loop over the window.

Carries(f, k) ==
    history[k] # <<>> /\ Store!Latest(history[k]).fig = FigOf(Sheet[f], k)

\* What the loop has processed precedes what it has not; while no file has failed,
\* every key has the figures of the last processed file about it.
NothingBegun == pc \in {"off", "discover"} => entries = {}

InOrder == \A f \in entries \ todo, g \in todo : Precedes(f, g)

UpToDate ==
    tally.failed = 0 =>
        \A k \in Keys : \A f \in About(k) \ todo :
            (\A g \in (About(k) \ todo) \ {f} : Precedes(g, f)) => Carries(f, k)

SuccessMeansAll ==
    pc = "close" /\ status = "succeeded" => todo = {} /\ tally.failed = 0

LoopInv == NothingBegun /\ InOrder /\ UpToDate /\ SuccessMeansAll

LEMMA PositionIsANumber == ASSUME NEW f \in Files PROVE Position(f) \in Nat
<1>1. \E i \in DOMAIN Index : Index[i] = f
  BY IndexListsTheFiles DEF Range
<1>2. DOMAIN Index \subseteq Nat
  BY IndexListsTheFiles
<1> QED
  BY <1>1, <1>2 DEF Position

LEMMA PrecedesIsOneWay ==
    ASSUME NEW f \in Files, NEW g \in Files, Precedes(f, g)
    PROVE  ~Precedes(g, f)
<1>1. /\ Position(f) \in Nat /\ Position(g) \in Nat
      /\ IndexDate[f] \in Nat /\ IndexDate[g] \in Nat
  BY PositionIsANumber, FilesAreDescribed
<1> QED
  BY <1>1 DEF Precedes

\* Taking the current entry off the list keeps the order.
LEMMA TakingKeepsOrder ==
    ASSUME InOrder, NEW f \in todo, Current(f), todo' = todo \ {f}, entries' = entries,
           todo \subseteq entries
    PROVE  InOrder'
BY SMTT(30) DEF InOrder, Current, Precedes, Position

LEMMA KeepingKeepsTheLoop ==
    ASSUME LoopInv, UNCHANGED <<history, entries, todo>>, tally'.failed = tally.failed,
           NothingBegun', SuccessMeansAll'
    PROVE  LoopInv'
BY DEF LoopInv, InOrder, UpToDate, About, Carries, Precedes, Position, Store!Latest

LEMMA FailingKeepsTheLoop ==
    ASSUME TypeOK, LoopInv, NEW f \in todo, Current(f), todo' = todo \ {f},
           entries' = entries, tally'.failed # 0, pc' = "files"
    PROVE  LoopInv'
<1>1. InOrder'
  BY TakingKeepsOrder DEF LoopInv, TypeOK
<1> QED
  BY <1>1 DEF LoopInv, NothingBegun, UpToDate, SuccessMeansAll

LEMMA NoEntriesNoLoop ==
    ASSUME entries' = {}, todo' = {}, pc' # "close"
    PROVE  LoopInv'
BY DEF LoopInv, NothingBegun, InOrder, UpToDate, About, SuccessMeansAll

\* Publishing gives every settled key of the file the file's figures.
LEMMA PublishCarries ==
    ASSUME TypeOK, NEW f \in Files, Store!Publish(f)
    PROVE  /\ \A k \in Settled(Sheet[f]) : Carries(f, k)'
           /\ \A k \in Keys \ Settled(Sheet[f]) : history'[k] = history[k]
<1>1. ASSUME NEW k \in Settled(Sheet[f]) PROVE Carries(f, k)'
  <2> DEFINE p == [fig |-> FigOf(Sheet[f], k), file |-> f]
  <2>1. k \in Keys /\ history[k] \in Seq(Store!Publication)
    BY DEF TypeOK, Settled
  <2>2. CASE Store!Changes(history[k], f, k)
    <3>1. history'[k] = Append(history[k], p)
      BY <2>1, <2>2, StoreReadsSheets DEF Store!Publish
    <3> QED
      BY <2>1, <3>1 DEF Carries, Store!Latest
  <2>3. CASE ~Store!Changes(history[k], f, k)
    BY <2>1, <2>3, StoreReadsSheets DEF Store!Publish, Store!Changes, Carries, Store!Latest
  <2> QED
    BY <2>2, <2>3
<1>2. ASSUME NEW k \in Keys \ Settled(Sheet[f]) PROVE history'[k] = history[k]
  BY <1>2, StoreReadsSheets DEF Store!Publish, Store!Changes
<1> QED
  BY <1>1, <1>2

LEMMA StoringKeepsTheLoop ==
    ASSUME TypeOK, LoopInv, NEW f \in todo, Current(f), todo' = todo \ {f},
           entries' = entries, Store!Publish(f), tally'.failed = tally.failed, pc' = "files"
    PROVE  LoopInv'
<1>1. InOrder'
  BY TakingKeepsOrder DEF LoopInv, TypeOK
<1>2. f \in entries /\ entries \subseteq Files /\ todo \subseteq entries
  BY DEF TypeOK
<1>3. UpToDate'
  <2> SUFFICES ASSUME tally.failed = 0, NEW k \in Keys, NEW g \in entries \ todo',
                      k \in Settled(Sheet[g]),
                      \A h \in ((About(k) \ todo) \cup {f}) \ {g} :
                          (h \in About(k) /\ h \notin todo') => Precedes(h, g)
               PROVE  Carries(g, k)'
    BY DEF UpToDate, About, Precedes, Position
  <2>1. CASE g = f
    BY <1>2, <2>1, PublishCarries
  <2>2. CASE g # f
    <3>1. Precedes(g, f) /\ g \notin todo
      BY <1>2, <2>2 DEF LoopInv, InOrder
    <3>2. k \notin Settled(Sheet[f])
      BY <1>2, <2>2, <3>1, PrecedesIsOneWay DEF About
    <3>3. history'[k] = history[k]
      BY <1>2, <3>2, PublishCarries
    <3>4. Carries(g, k)
      BY <1>2, <3>1 DEF LoopInv, UpToDate, About
    <3> QED
      BY <3>3, <3>4 DEF Carries, Store!Latest
  <2> QED
    BY <2>1, <2>2
<1> QED
  BY <1>1, <1>3 DEF LoopInv, NothingBegun, SuccessMeansAll

\* Failures of a tally, whatever else is counted.
LEMMA FailuresCounted ==
    ASSUME NEW t \in Counters, NEW q \in Nat, NEW g \in Nat, NEW u
    PROVE  [t EXCEPT !.quarantined = @ + q, !.failed = @ + g, !.upserted = @ + u].failed
              = t.failed + g
BY DEF Counters

LEMMA LoopStep == TypeOK /\ LoopInv /\ [Next]_vars => LoopInv'
<1> SUFFICES ASSUME TypeOK, LoopInv, [Next]_vars PROVE LoopInv'
  OBVIOUS
<1>0. tally \in Counters /\ tally.failed \in Nat /\ todo \subseteq entries
  BY DEF TypeOK, Counters
<1>1. CASE UNCHANGED vars \/ Post \/ NextDay
  <2>1. UNCHANGED <<history, pc, entries, todo, tally, status>>
    BY <1>1 DEF vars, tables, Post, NextDay
  <2> QED
    BY <2>1, KeepingKeepsTheLoop DEF LoopInv, NothingBegun, SuccessMeansAll
<1>2. CASE Start
  <2>1. UNCHANGED <<history, entries, todo, tally>> /\ pc = "off" /\ pc' = "discover"
    BY <1>2 DEF Start
  <2> QED
    BY <2>1, KeepingKeepsTheLoop DEF LoopInv, NothingBegun, SuccessMeansAll
<1>3. CASE Discover
  <2>1. entries' = todo' /\ pc' = "files"
    BY <1>3 DEF Discover
  <2> QED
    BY <2>1 DEF LoopInv, NothingBegun, InOrder, UpToDate, About, SuccessMeansAll
<1>4. CASE DiscoverFails
  <2>1. UNCHANGED <<history, entries, todo, tally>> /\ pc' = "close" /\ status' = "failed"
    BY <1>4 DEF DiscoverFails, tables
  <2> QED
    BY <2>1, KeepingKeepsTheLoop DEF LoopInv, NothingBegun, SuccessMeansAll
<1>5. CASE Fetch
  <2>1. UNCHANGED <<history, entries, todo>> /\ pc' = "store" /\ tally'.failed = tally.failed
    BY <1>0, <1>5 DEF Fetch, tables, Counters
  <2> QED
    BY <2>1, KeepingKeepsTheLoop DEF LoopInv, NothingBegun, SuccessMeansAll
<1>6. CASE FetchFails
  <2>1. PICK f \in todo : Current(f) /\ todo' = todo \ {f}
    BY <1>6 DEF FetchFails
  <2>2. entries' = entries /\ pc' = "files" /\ tally'.failed = tally.failed + 1
    BY <1>0, <1>6 DEF FetchFails, Counters
  <2> QED
    BY <1>0, <2>1, <2>2, FailingKeepsTheLoop
<1>7. CASE FetchDisallowed
  <2>1. /\ UNCHANGED <<history, entries, todo>> /\ pc' = "close" /\ status' = "failed"
        /\ tally'.failed = tally.failed
    BY <1>0, <1>7 DEF FetchDisallowed, tables, Counters
  <2> QED
    BY <2>1, KeepingKeepsTheLoop DEF LoopInv, NothingBegun, SuccessMeansAll
<1>8. ASSUME NEW f \in todo, NEW rows, Len(rows) \in Nat, Settle(f, rows, 1, 0), Current(f)
      PROVE  LoopInv'
  <2>1. /\ todo' = todo \ {f} /\ entries' = entries /\ pc' = "files"
        /\ tally'.failed = tally.failed + 1
    BY <1>0, <1>8, FailuresCounted DEF Settle
  <2> QED
    BY <1>0, <1>8, <2>1, FailingKeepsTheLoop
<1>9. CASE QuarantineUnparseable
  <2>1. PICK f \in Unparseable : Current(f) /\ Settle(f, <<f>>, 1, 0)
    BY <1>9 DEF QuarantineUnparseable
  <2> QED
    BY <1>8, <2>1 DEF Current
<1>10. CASE QuarantineMisplaced
  <2>1. PICK f \in todo : Current(f) /\ Settle(f, Rows(f, Rejected[f] + 1), 1, 0)
    BY <1>10 DEF QuarantineMisplaced
  <2>2. Rejected[f] + 1 \in Nat /\ f \in Subjects
    BY FilesAreDescribed DEF TypeOK, Subjects
  <2>3. Len(Rows(f, Rejected[f] + 1)) \in Nat
    BY <2>2, RowsAreASequence
  <2> QED
    BY <1>8, <2>1, <2>3
<1>11. CASE _store
  <2> DEFINE n(f) == Rejected[f] + Unresolved[f] + Cardinality(Disputed(Sheet[f]))
             written(f) == Cardinality({k \in Keys : Store!Changes(history[k], f, k)})
  <2>1. PICK f \in todo : Current(f) /\ Store!Publish(f)
                          /\ Settle(f, Rows(f, n(f)), 0, written(f))
    BY <1>11 DEF _store
  <2>2. f \in Files /\ n(f) \in Nat /\ f \in Subjects
    BY FilesAreDescribed, SheetsAreFinite DEF TypeOK, Subjects
  <2> HIDE DEF n, written
  <2>3. Len(Rows(f, n(f))) \in Nat
    BY <2>2, RowsAreASequence
  <2>4. /\ todo' = todo \ {f} /\ entries' = entries /\ pc' = "files"
        /\ tally'.failed = tally.failed + 0
    BY <1>0, <2>1, <2>3, FailuresCounted DEF Settle
  <2> QED
    BY <1>0, <2>1, <2>4, StoringKeepsTheLoop
<1>12. CASE AllProcessed
  <2>1. UNCHANGED <<history, entries, todo, tally>> /\ pc' = "close" /\ todo = {}
    BY <1>12 DEF AllProcessed, tables
  <2>2. status' = "succeeded" => tally.failed = 0
    BY <1>0, <1>12 DEF AllProcessed
  <2> QED
    BY <2>1, <2>2, KeepingKeepsTheLoop DEF NothingBegun, SuccessMeansAll
<1>13. CASE _close_run \/ Killed \/ DatabaseRaises
  <2>1. entries' = {} /\ todo' = {} /\ pc' = "off"
    BY <1>13 DEF _close_run, Killed, DatabaseRaises, Escape, Forget
  <2> QED
    BY <2>1, NoEntriesNoLoop
<1> QED
  BY <1>1, <1>2, <1>3, <1>4, <1>5, <1>6, <1>7, <1>9, <1>10, <1>11, <1>12, <1>13
     DEF Next, RunStep

LEMMA LoopInit == Init => LoopInv
BY DEF Init, LoopInv, NothingBegun, InOrder, UpToDate, About, SuccessMeansAll

LEMMA SuccessCarries ==
    ASSUME TypeOK, LoopInv, _close_run, status = "succeeded"
    PROVE  \A k \in Keys : \A f \in entries : IsLast(f, k) => Carries(f, k)
<1>1. todo = {} /\ tally.failed = 0
  BY DEF LoopInv, SuccessMeansAll, _close_run
<1> QED
  BY <1>1 DEF LoopInv, UpToDate, IsLast

\* A run that calls itself succeeded leaves every key of its window with the
\* figures of the last file that settles it, after any crashes (ingest.py:32-33).
THEOREM BackfillSucceedsWhole == Spec => SuccessIsComplete
<1>1. TypeOK /\ LoopInv /\ [Next]_vars =>
        [(_close_run /\ status = "succeeded") =>
            \A k \in Keys : \A f \in entries : IsLast(f, k) =>
                /\ history[k] # <<>>
                /\ Store!Latest(history[k]).fig = FigOf(Sheet[f], k)]_vars
  BY SuccessCarries DEF Carries
<1>2. Spec => [](TypeOK /\ LoopInv)
  BY InitInv, LoopInit, StepInv, LoopStep, BackfillTypeOK, PTL DEF Spec
<1> QED
  BY <1>1, <1>2, PTL DEF Spec, SuccessIsComplete

\* A correction listed after the sheet it corrects wins (ingest.py:35-39).
THEOREM BackfillAppliesCorrections == Spec => LastListedWins
<1>1. TypeOK /\ LoopInv /\ [Next]_vars =>
        [(_close_run /\ status = "succeeded") =>
            \A k \in Keys : \A f \in About(k) :
                (\A g \in About(k) \ {f} :
                    IndexDate[g] = IndexDate[f] /\ Position(g) < Position(f)) =>
                        Store!Latest(history[k]).fig = FigOf(Sheet[f], k)]_vars
  BY SuccessCarries DEF Carries, IsLast, About, Precedes
<1>2. Spec => [](TypeOK /\ LoopInv)
  BY InitInv, LoopInit, StepInv, LoopStep, BackfillTypeOK, PTL DEF Spec
<1> QED
  BY <1>1, <1>2, PTL DEF Spec, LastListedWins

-----------------------------------------------------------------------------
\* Nothing is dropped.

InHistory(f) ==
    \A k \in Settled(Sheet[f]) : \E p \in Range(history[k]) : p.fig = FigOf(Sheet[f], k)

\* A processed entry is filed, held for the next transaction, or published.
Accounted ==
    \A f \in entries \ todo :
        \/ f \in Range(quarantine[Len(runs)])
        \/ f \in Range(held)
        \/ InHistory(f)

OnlyFailureStopsShort == pc = "close" /\ status # "failed" => todo = {}

AccountInv == NothingBegun /\ Accounted /\ OnlyFailureStopsShort

LEMMA JoinedRange ==
    ASSUME NEW S, NEW a \in Seq(S), NEW b \in Seq(S)
    PROVE  Range(a) \subseteq Range(a \o b) /\ Range(b) \subseteq Range(a \o b)
<1>1. \A i \in DOMAIN a : i \in DOMAIN (a \o b) /\ (a \o b)[i] = a[i]
  OBVIOUS
<1>2. \A i \in DOMAIN b : Len(a) + i \in DOMAIN (a \o b) /\ (a \o b)[Len(a) + i] = b[i]
  OBVIOUS
<1> QED
  BY <1>1, <1>2 DEF Range

LEMMA RowsAreAbout ==
    ASSUME NEW x, NEW n \in Nat, n > 0
    PROVE  x \in Range(Rows(x, n))
BY DEF Rows, Range

\* A transaction that flushes files all that was filed or held, and its own rows.
LEMMA FlushFiles ==
    ASSUME TypeOK, Ledger, pc # "off", NEW rows \in Seq(Subjects), Flush(held \o rows),
           runs' = runs
    PROVE  /\ Range(quarantine[Len(runs)]) \subseteq Range(quarantine'[Len(runs')])
           /\ Range(held) \subseteq Range(quarantine'[Len(runs')])
           /\ Range(rows) \subseteq Range(quarantine'[Len(runs')])
<1> DEFINE r == Len(runs)
           filed == quarantine[r]
<1>1. r \in DOMAIN quarantine
  BY DEF TypeOK, Ledger, OpenRow
<1>2. filed \in Seq(Subjects) /\ held \in Seq(Subjects) /\ held \o rows \in Seq(Subjects)
  BY <1>1 DEF TypeOK
<1>3. quarantine'[r] = filed \o (held \o rows)
  BY <1>1 DEF Flush, TypeOK
<1> HIDE DEF filed
<1>4. /\ Range(filed) \subseteq Range(quarantine'[r])
      /\ Range(held \o rows) \subseteq Range(quarantine'[r])
  BY <1>2, <1>3, JoinedRange
<1>5. Range(held) \subseteq Range(held \o rows) /\ Range(rows) \subseteq Range(held \o rows)
  BY <1>2, JoinedRange
<1> QED
  BY <1>4, <1>5 DEF filed

LEMMA HistoryIsKept ==
    ASSUME TypeOK, NEW f \in Files, Store!Publish(f) \/ UNCHANGED history,
           NEW g \in Files, InHistory(g)
    PROVE  InHistory(g)'
<1>1. ASSUME NEW k \in Keys PROVE Range(history[k]) \subseteq Range(history'[k])
  <2>1. history[k] \in Seq(Store!Publication)
    BY DEF TypeOK
  <2>2. \/ history'[k] = history[k]
        \/ \E p : history'[k] = Append(history[k], p)
    BY DEF Store!Publish
  <2>3. ASSUME NEW p, history'[k] = Append(history[k], p)
        PROVE  Range(history[k]) \subseteq Range(history'[k])
    <3>1. \A i \in DOMAIN history[k] :
              i \in DOMAIN history'[k] /\ history'[k][i] = history[k][i]
      BY <2>1, <2>3
    <3> QED
      BY <3>1 DEF Range
  <2> QED
    BY <2>2, <2>3
<1> QED
  BY <1>1 DEF InHistory, Settled

LEMMA PublishedIsInHistory ==
    ASSUME TypeOK, NEW f \in Files, Store!Publish(f)
    PROVE  InHistory(f)'
<1> SUFFICES ASSUME NEW k \in Settled(Sheet[f])
             PROVE  \E p \in Range(history'[k]) : p.fig = FigOf(Sheet[f], k)
  BY DEF InHistory
<1>1. k \in Keys /\ Carries(f, k)'
  BY PublishCarries DEF Settled
<1>2. history'[k] \in Seq(Store!Publication)
  BY <1>1, PublishType DEF TypeOK
<1>3. Len(history'[k]) \in DOMAIN history'[k]
  BY <1>1, <1>2 DEF Carries
<1> QED
  BY <1>1, <1>3 DEF Carries, Store!Latest, Range

\* The transaction of a file accounts for it, by its rows or by what it publishes.
LEMMA SettlingAccounts ==
    ASSUME TypeOK, Ledger, AccountInv, pc = "store",
           NEW f \in todo, NEW rows \in Seq(Subjects), NEW failed, NEW upserted,
           Settle(f, rows, failed, upserted),
           \/ UNCHANGED history /\ f \in Range(rows)
           \/ Store!Publish(f)
    PROVE  AccountInv'
<1>1. /\ todo' = todo \ {f} /\ entries' = entries /\ pc' = "files" /\ runs' = runs
      /\ Flush(held \o rows)
  BY DEF Settle
<1>2. f \in Files /\ entries \subseteq Files
  BY DEF TypeOK
<1>3. ASSUME NEW g \in entries' \ todo'
      PROVE  g \in Range(quarantine'[Len(runs')]) \/ InHistory(g)'
  <2>1. CASE g = f
    BY <1>1, <1>2, <2>1, FlushFiles, PublishedIsInHistory
  <2>2. CASE g # f
    <3>1. g \in entries \ todo
      BY <1>1, <2>2
    <3> QED
      BY <1>1, <1>2, <3>1, FlushFiles, HistoryIsKept DEF AccountInv, Accounted
  <2> QED
    BY <2>1, <2>2
<1> QED
  BY <1>1, <1>3 DEF AccountInv, NothingBegun, Accounted, OnlyFailureStopsShort

LEMMA KeepingAccounts ==
    ASSUME AccountInv, UNCHANGED <<history, quarantine, held, entries, todo>>,
           Len(runs') = Len(runs), NothingBegun', OnlyFailureStopsShort'
    PROVE  AccountInv'
BY DEF AccountInv, Accounted, InHistory

LEMMA NoEntriesAccounted ==
    ASSUME entries' = todo', pc' \in {"off", "files"}, pc' = "off" => entries' = {}
    PROVE  AccountInv'
BY DEF AccountInv, NothingBegun, Accounted, OnlyFailureStopsShort

LEMMA AccountStep == TypeOK /\ Ledger /\ AccountInv /\ [Next]_vars => AccountInv'
<1> SUFFICES ASSUME TypeOK, Ledger, AccountInv, [Next]_vars PROVE AccountInv'
  OBVIOUS
<1>1. CASE UNCHANGED vars \/ Post \/ NextDay
  <2>1. UNCHANGED <<history, quarantine, held, entries, todo, runs, pc, status>>
    BY <1>1 DEF vars, tables, Post, NextDay
  <2> QED
    BY <2>1, KeepingAccounts DEF AccountInv, NothingBegun, OnlyFailureStopsShort
<1>2. CASE Start
  <2>1. entries' = {} /\ pc' = "discover"
    BY <1>2 DEF Start, AccountInv, NothingBegun
  <2> QED
    BY <2>1 DEF AccountInv, NothingBegun, Accounted, OnlyFailureStopsShort
<1>3. CASE Discover
  BY <1>3, NoEntriesAccounted DEF Discover
<1>4. CASE DiscoverFails \/ Fetch \/ FetchDisallowed
  <2>1. /\ UNCHANGED <<history, quarantine, held, entries, todo, runs>>
        /\ pc' = "store" \/ (pc' = "close" /\ status' = "failed")
    BY <1>4 DEF DiscoverFails, Fetch, FetchDisallowed, tables
  <2> QED
    BY <2>1, KeepingAccounts DEF NothingBegun, OnlyFailureStopsShort
<1>5. CASE FetchFails
  <2>1. PICK f \in todo : held' = Append(held, f) /\ todo' = todo \ {f}
    BY <1>5 DEF FetchFails
  <2>2. UNCHANGED <<history, quarantine, entries, runs>> /\ pc' = "files"
    BY <1>5 DEF FetchFails, tables
  <2>3. f \in Range(held') /\ Range(held) \subseteq Range(held')
    <3>1. held \in Seq(Subjects) /\ f \in Subjects
      BY DEF TypeOK, Subjects
    <3>2. /\ Len(held') \in DOMAIN held' /\ held'[Len(held')] = f
          /\ \A i \in DOMAIN held : i \in DOMAIN held' /\ held'[i] = held[i]
      BY <2>1, <3>1
    <3> QED
      BY <3>2 DEF Range
  <2> QED
    BY <2>1, <2>2, <2>3
       DEF AccountInv, NothingBegun, Accounted, InHistory, OnlyFailureStopsShort
<1>6. CASE QuarantineUnparseable
  <2>1. PICK f \in Unparseable : Current(f) /\ Settle(f, <<f>>, 1, 0)
    BY <1>6 DEF QuarantineUnparseable
  <2>2. f \in todo /\ f \in Files /\ <<f>> \in Seq(Subjects) /\ f \in Range(<<f>>)
    BY <2>1, FilesAreDescribed DEF Current, Subjects, Range
  <2> QED
    BY <1>6, <2>1, <2>2, SettlingAccounts DEF QuarantineUnparseable
<1>7. CASE QuarantineMisplaced
  <2>1. PICK f \in todo : Settle(f, Rows(f, Rejected[f] + 1), 1, 0)
    BY <1>7 DEF QuarantineMisplaced
  <2>2. f \in Files /\ Rejected[f] + 1 \in Nat /\ Rejected[f] + 1 > 0
    BY FilesAreDescribed DEF TypeOK
  <2>3. /\ Rows(f, Rejected[f] + 1) \in Seq(Subjects)
        /\ f \in Range(Rows(f, Rejected[f] + 1))
    BY <2>2, RowsAreASequence, RowsAreAbout DEF Subjects
  <2> QED
    BY <1>7, <2>1, <2>3, SettlingAccounts DEF QuarantineMisplaced
<1>8. CASE _store
  <2> DEFINE n(f) == Rejected[f] + Unresolved[f] + Cardinality(Disputed(Sheet[f]))
             written(f) == Cardinality({k \in Keys : Store!Changes(history[k], f, k)})
  <2>1. PICK f \in todo : Store!Publish(f) /\ Settle(f, Rows(f, n(f)), 0, written(f))
    BY <1>8 DEF _store
  <2>2. f \in Files /\ n(f) \in Nat
    BY FilesAreDescribed, SheetsAreFinite DEF TypeOK
  <2> HIDE DEF n, written
  <2>3. Rows(f, n(f)) \in Seq(Subjects) /\ pc = "store"
    BY <1>8, <2>2, RowsAreASequence DEF Subjects, _store
  <2> QED
    BY <2>1, <2>3, SettlingAccounts
<1>9. CASE AllProcessed
  <2>1. /\ UNCHANGED <<history, quarantine, held, entries, todo, runs>>
        /\ pc' = "close" /\ todo = {}
    BY <1>9 DEF AllProcessed, tables
  <2> QED
    BY <2>1, KeepingAccounts DEF NothingBegun, OnlyFailureStopsShort
<1>10. CASE _close_run \/ Killed \/ DatabaseRaises
  <2>1. entries' = {} /\ todo' = {} /\ pc' = "off"
    BY <1>10 DEF _close_run, Killed, DatabaseRaises, Escape, Forget
  <2> QED
    BY <2>1, NoEntriesAccounted
<1> QED
  BY <1>1, <1>2, <1>3, <1>4, <1>5, <1>6, <1>7, <1>8, <1>9, <1>10 DEF Next, RunStep

LEMMA AccountInit == Init => AccountInv
BY DEF Init, AccountInv, NothingBegun, Accounted, OnlyFailureStopsShort

LEMMA ClosingFilesTheHeld ==
    ASSUME TypeOK, Ledger, _close_run
    PROVE  /\ Range(quarantine[Len(runs)]) \subseteq Range(quarantine'[Len(runs)])
           /\ Range(held) \subseteq Range(quarantine'[Len(runs)])
<1> DEFINE filed == quarantine[Len(runs)]
<1>1. Len(runs) \in DOMAIN quarantine
  BY DEF TypeOK, Ledger, OpenRow, _close_run
<1>2. filed \in Seq(Subjects) /\ held \in Seq(Subjects)
  BY <1>1 DEF TypeOK
<1>3. quarantine'[Len(runs)] = filed \o held
  BY <1>1 DEF _close_run, Flush, TypeOK
<1> HIDE DEF filed
<1>4. Range(filed) \subseteq Range(filed \o held) /\ Range(held) \subseteq Range(filed \o held)
  BY <1>2, JoinedRange
<1> QED
  BY <1>3, <1>4 DEF filed

\* When a run that read its index to the end closes, every entry of its window is
\* quarantined under it or in the history of its keys (ingest.py:21-23).
THEOREM BackfillDropsNothing == Spec => NothingIsDropped
<1>1. TypeOK /\ Ledger /\ AccountInv /\ [Next]_vars =>
        [(_close_run /\ status # "failed") =>
            \A f \in entries :
                \/ f \in Range(quarantine'[Len(runs)])
                \/ \A k \in Settled(Sheet[f]) :
                    \E p \in Range(history[k]) : p.fig = FigOf(Sheet[f], k)]_vars
  <2> SUFFICES ASSUME TypeOK, Ledger, AccountInv, _close_run, status # "failed",
                      NEW f \in entries
               PROVE  f \in Range(quarantine'[Len(runs)]) \/ InHistory(f)
    BY DEF InHistory
  <2>1. todo = {}
    BY DEF AccountInv, OnlyFailureStopsShort, _close_run
  <2> QED
    BY <2>1, ClosingFilesTheHeld DEF AccountInv, Accounted
<1>2. Spec => [](TypeOK /\ Ledger /\ AccountInv)
  BY InitInv, AccountInit, StepInv, AccountStep, PTL DEF Spec
<1> QED
  BY <1>1, <1>2, PTL DEF Spec, NothingIsDropped
-----------------------------------------------------------------------------
\* Whatever is killed, fails or is run again, the runner changes the prices by
\* publishing whole files and in no other way: it implements PriceHistory, which
\* is what its readers are modelled over (ingest.py _store).
THEOREM BackfillImplementsHistory == Spec => Store!Spec
<1>1. Init => Store!Init
  BY DEF Init
<1>2. TypeOK /\ [Next]_vars => [Store!Next]_history
  <2> SUFFICES ASSUME TypeOK, [Next]_vars PROVE Store!Next \/ UNCHANGED history
    OBVIOUS
  <2>1. CASE _store
    <3>1. PICK f \in todo : Store!Publish(f)
      BY <2>1 DEF _store
    <3> QED
      BY <3>1 DEF TypeOK, Store!Next
  <2>2. CASE Post \/ NextDay \/ Start
    BY <2>2 DEF Post, NextDay, Start, tables
  <2>3. CASE Discover \/ DiscoverFails \/ Fetch \/ FetchFails \/ FetchDisallowed
    BY <2>3 DEF Discover, DiscoverFails, Fetch, FetchFails, FetchDisallowed, tables
  <2>4. CASE QuarantineUnparseable \/ QuarantineMisplaced
    BY <2>4 DEF QuarantineUnparseable, QuarantineMisplaced
  <2>5. CASE AllProcessed \/ _close_run \/ Killed \/ DatabaseRaises
    BY <2>5 DEF AllProcessed, _close_run, Killed, DatabaseRaises, Escape, tables
  <2>6. CASE UNCHANGED vars
    BY <2>6 DEF vars, tables
  <2> QED
    BY <2>1, <2>2, <2>3, <2>4, <2>5, <2>6 DEF Next, RunStep
<1> QED
  BY <1>1, <1>2, BackfillTypeOK, PTL DEF Spec, Store!Spec
=============================================================================
