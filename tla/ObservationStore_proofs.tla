----------------------- MODULE ObservationStore_proofs -----------------------
(***************************************************************************)
(* Proofs about ObservationStore, for any writers, keys, figures, files    *)
(* and sheets.  The inductive invariant joins TypeOK, TransactionInv (what *)
(* the locks give an open transaction) and the history's own invariants:   *)
(* a revision is archived from what the transaction READ, so the history   *)
(* is complete only because what it read is still what is stored.          *)
(***************************************************************************)
EXTENDS ObservationStore, WellFoundedInduction, TLAPS

\* Every non-empty set of natural numbers has a least element.
LEMMA LeastNatural ==
    ASSUME NEW S \in SUBSET Nat, S # {}
    PROVE  \E n \in S : \A m \in S : n <= m
<1>1. IsWellFoundedOn(OpToRel(<, Nat), Nat)
  BY NatLessThanWellFounded
<1>2. PICK n \in S : \A m \in S : ~(<<m, n>> \in OpToRel(<, Nat))
  BY <1>1, WFMin
<1>3. \A m \in S : ~(m < n)
  BY <1>2 DEF OpToRel
<1> QED
  BY <1>3

\* The figures of a settled key are figures, and the only ones described.
LEMMA FigOfSettled ==
    ASSUME NEW b, NEW k \in Settled(b)
    PROVE  FigOf(b, k) \in Figs /\ Described(b, k) = {FigOf(b, k)}
BY DEF Settled, FigOf

\* A settled key is mentioned, so it has a first mention.
LEMMA FirstAtMentions ==
    ASSUME NEW b \in Seq(Observation), NEW k \in Settled(b)
    PROVE  FirstAt(b, k) \in Mentions(b, k) /\ FirstAt(b, k) \in Nat
<1>1. Mentions(b, k) \in SUBSET Nat
  BY DEF Mentions
<1>2. Mentions(b, k) # {}
  BY FigOfSettled DEF Described
<1>3. \E i \in Mentions(b, k) : \A j \in Mentions(b, k) : i <= j
  BY <1>1, <1>2, LeastNatural
<1> QED
  BY <1>1, <1>3 DEF FirstAt

LEMMA NextLockIsWanted ==
    ASSUME TypeOK, NEW w \in Writers, want[w] # {}
    PROVE  NextLock(w) \in want[w] /\ NextLock(w) \in Keys
<1>1. want[w] \in SUBSET Nat /\ want[w] \subseteq Keys
  BY KeysAreOrdered DEF TypeOK
<1>2. \E k \in want[w] : \A j \in want[w] : k <= j
  BY <1>1, LeastNatural
<1> QED
  BY <1>1, <1>2 DEF NextLock

LEMMA NextInsertIsMissing ==
    ASSUME TypeOK, NEW w \in Writers, Open(w), Missing(w) # {}
    PROVE  NextInsert(w) \in Missing(w) /\ NextInsert(w) \in Keys
<1> DEFINE B == Sheet[file[w]]
           At(k) == FirstAt(B, k)
<1>1. B \in Seq(Observation)
  BY SheetsAreBatches DEF TypeOK, Open
<1>2. Missing(w) \subseteq Settled(B) /\ Missing(w) \subseteq Keys
  BY DEF Missing, Settled
<1>3. \A k \in Missing(w) : At(k) \in Nat
  BY <1>1, <1>2, FirstAtMentions
<1> HIDE DEF At
<1>4. PICK n \in {At(k) : k \in Missing(w)} : \A m \in {At(k) : k \in Missing(w)} : n <= m
  <2>1. {At(k) : k \in Missing(w)} \in SUBSET Nat /\ {At(k) : k \in Missing(w)} # {}
    BY <1>3
  <2> QED
    BY <2>1, LeastNatural
<1>5. \E k \in Missing(w) : \A j \in Missing(w) : At(k) <= At(j)
  BY <1>4
<1> QED
  BY <1>2, <1>5 DEF NextInsert, At

\* What a step must do to be a step of one writer.
LEMMA NextIsAStep ==
    ASSUME Next
    PROVE  \E w \in Writers :
               \/ Begin(w) \/ LockRow(w) \/ InsertRow(w) \/ Commit(w)
               \/ Rollback(w)
BY DEF Next, Step, UniqueViolation, Fail, DeadlockVictim

-----------------------------------------------------------------------------
\* The committed rows are rows, whoever commits.
LEMMA CommittedType ==
    ASSUME TypeOK, NEW w \in Writers, Open(w), WorksOnItsFile, NEW k \in Keys
    PROVE  Committed(w, k) \in Row \cup {NoRow}
<1>1. file[w] \in Files
  BY DEF TypeOK, Open
<1>2. obs[k] \in Row \cup {NoRow} /\ read[w][k] \in Row \cup {NoRow}
  BY DEF TypeOK
<1>3. CASE k \in put[w]
  <2>1. k \in Settled(Sheet[file[w]])
    BY <1>3 DEF WorksOnItsFile
  <2>2. Committed(w, k) = _as_observation(file[w], k)
    BY <1>3 DEF Committed
  <2> QED
    BY <1>1, <2>1, <2>2, FigOfSettled DEF _as_observation, Row
<1>4. CASE k \notin put[w] /\ k \in Revised(w)
  <2>1. k \in Settled(Sheet[file[w]]) /\ read[w][k] \in Row
    BY <1>2, <1>4 DEF Revised
  <2> QED
    BY <1>1, <1>4, <2>1, FigOfSettled DEF Committed, _apply, Row
<1>5. CASE k \notin put[w] /\ k \notin Revised(w)
  BY <1>2, <1>5 DEF Committed
<1> QED
  BY <1>3, <1>4, <1>5

LEMMA TypeStep == TypeOK /\ WorksOnItsFile /\ [Next]_vars => TypeOK'
<1> SUFFICES ASSUME TypeOK, WorksOnItsFile, [Next]_vars PROVE TypeOK'
  OBVIOUS
<1>1. CASE UNCHANGED vars
  BY <1>1 DEF vars, TypeOK
<1>2. ASSUME NEW w \in Writers, Begin(w) PROVE TypeOK'
  <2>1. PICK f \in Files :
          /\ file' = [file EXCEPT ![w] = f]
          /\ want' = [want EXCEPT ![w] = {k \in Settled(Sheet[f]) : obs[k] # NoRow}]
    BY <1>2 DEF Begin
  <2>2. {k \in Settled(Sheet[f]) : obs[k] # NoRow} \in SUBSET Keys
    BY DEF Settled
  <2>3. left' \in Nat /\ UNCHANGED <<obs, archive, lock, read, put>>
    BY <1>2 DEF Begin, TypeOK
  <2> QED
    BY <2>1, <2>2, <2>3 DEF TypeOK
<1>3. ASSUME NEW w \in Writers, LockRow(w) PROVE TypeOK'
  <2>1. NextLock(w) \in Keys
    BY <1>3, NextLockIsWanted DEF LockRow
  <2> HIDE DEF Row, Superseded
  <2> QED
    BY <1>3, <2>1 DEF LockRow, TypeOK
<1>4. ASSUME NEW w \in Writers, InsertRow(w) PROVE TypeOK'
  <2>1. NextInsert(w) \in Keys
    BY <1>4, NextInsertIsMissing DEF InsertRow, Flushing
  <2> QED
    BY <1>4, <2>1 DEF InsertRow, TypeOK
<1>5. ASSUME NEW w \in Writers, Release(w)
      PROVE  /\ lock' \in [Keys -> Writers \cup {NoWriter}]
             /\ file' \in [Writers -> Files \cup {NoFile}]
             /\ want' \in [Writers -> SUBSET Keys]
             /\ read' \in [Writers -> [Keys -> Row \cup {NoRow}]]
             /\ put' \in [Writers -> SUBSET Keys]
             /\ left' \in Nat
  BY <1>5 DEF Release, TypeOK
<1>6. ASSUME NEW w \in Writers, Commit(w) PROVE TypeOK'
  <2>1. obs' \in [Keys -> Row \cup {NoRow}]
    BY <1>6, CommittedType DEF Commit
  <2>2. ASSUME NEW k \in Revised(w) PROVE _superseded(k, read[w][k]) \in Superseded
    <3>1. k \in Keys /\ read[w][k] \in Row
      BY DEF Revised, Settled, TypeOK
    <3> QED
      BY <3>1 DEF _superseded, Superseded, Row
  <2>3. archive' \subseteq Superseded
    BY <1>6, <2>2 DEF Commit, TypeOK
  <2> QED
    BY <1>5, <1>6, <2>1, <2>3 DEF Commit, TypeOK
<1>7. ASSUME NEW w \in Writers, Rollback(w) PROVE TypeOK'
  BY <1>5, <1>7 DEF Rollback, TypeOK
<1> QED
  BY <1>1, <1>2, <1>3, <1>4, <1>6, <1>7, NextIsAStep

-----------------------------------------------------------------------------
\* The transaction invariant.

LEMMA TransactionStep == TypeOK /\ TransactionInv /\ [Next]_vars => TransactionInv'
<1> SUFFICES ASSUME TypeOK, TransactionInv, [Next]_vars PROVE TransactionInv'
  OBVIOUS
<1> USE DEF TransactionInv
<1>0. NoWriter \notin Writers /\ NoFile \notin Files
  BY WritersAreFinite, NoFileIsNotAFile
<1>1. CASE UNCHANGED vars
  BY <1>1 DEF vars, ReadsAreLocked, InsertsAreExclusive, WorksOnItsFile, Open
<1>2. ASSUME NEW w \in Writers, Begin(w) PROVE TransactionInv'
  <2>1. PICK f \in Files :
          /\ file' = [file EXCEPT ![w] = f]
          /\ want' = [want EXCEPT ![w] = {k \in Settled(Sheet[f]) : obs[k] # NoRow}]
    BY <1>2 DEF Begin
  <2>2. ~Open(w) /\ UNCHANGED <<obs, archive, lock, read, put>>
    BY <1>2 DEF Begin
  <2>3. want[w] = {} /\ put[w] = {} /\ \A k \in Keys : read[w][k] = NoRow
    BY <2>2 DEF WorksOnItsFile, TypeOK
  <2>4. ReadsAreLocked'
    BY <2>1, <2>2, <2>3 DEF ReadsAreLocked, TypeOK
  <2>5. InsertsAreExclusive'
    BY <2>2 DEF InsertsAreExclusive
  <2>6. WorksOnItsFile'
    BY <1>0, <2>1, <2>2, <2>3 DEF WorksOnItsFile, TypeOK, Open
  <2> QED
    BY <2>4, <2>5, <2>6
<1>3. ASSUME NEW w \in Writers, LockRow(w) PROVE TransactionInv'
  <2> DEFINE n == NextLock(w)
  <2>1. n \in want[w] /\ n \in Keys
    BY <1>3, NextLockIsWanted DEF LockRow
  <2>2. /\ lock[n] = NoWriter
        /\ lock' = [lock EXCEPT ![n] = w]
        /\ read' = [read EXCEPT ![w][n] = obs[n]]
        /\ want' = [want EXCEPT ![w] = @ \ {n}]
        /\ UNCHANGED <<obs, archive, file, put, left>>
    BY <1>3 DEF LockRow
  <2> HIDE DEF n
  <2>3. obs[n] # NoRow /\ Open(w) /\ n \in Settled(Sheet[file[w]])
    BY <2>1 DEF ReadsAreLocked, WorksOnItsFile
  <2>4. ReadsAreLocked'
    BY <1>0, <2>1, <2>2, <2>3 DEF ReadsAreLocked, TypeOK
  <2>5. InsertsAreExclusive'
    BY <2>2 DEF InsertsAreExclusive
  <2>6. WorksOnItsFile'
    BY <2>1, <2>2, <2>3 DEF WorksOnItsFile, TypeOK, Open
  <2> QED
    BY <2>4, <2>5, <2>6
<1>4. ASSUME NEW w \in Writers, InsertRow(w) PROVE TransactionInv'
  <2> DEFINE n == NextInsert(w)
  <2>1. n \in Missing(w) /\ n \in Keys /\ Open(w)
    BY <1>4, NextInsertIsMissing DEF InsertRow, Flushing
  <2>2. /\ obs[n] = NoRow
        /\ \A v \in Writers \ {w} : n \notin put[v]
        /\ put' = [put EXCEPT ![w] = @ \cup {n}]
        /\ UNCHANGED <<obs, archive, lock, file, want, read, left>>
    BY <1>4 DEF InsertRow, InFlight
  <2>3. n \in Settled(Sheet[file[w]])
    BY <2>1 DEF Missing
  <2> HIDE DEF n
  <2>4. ReadsAreLocked'
    BY <2>2 DEF ReadsAreLocked
  <2>5. InsertsAreExclusive'
    BY <2>1, <2>2 DEF InsertsAreExclusive, TypeOK
  <2>6. WorksOnItsFile'
    BY <2>1, <2>2, <2>3 DEF WorksOnItsFile, TypeOK, Open
  <2> QED
    BY <2>4, <2>5, <2>6
<1>5. ASSUME NEW w \in Writers, Release(w)
      PROVE  /\ WorksOnItsFile'
             /\ \A v \in Writers \ {w} : want'[v] = want[v] /\ read'[v] = read[v] /\ put'[v] = put[v]
             /\ want'[w] = {} /\ put'[w] = {} /\ \A k \in Keys : read'[w][k] = NoRow
             /\ \A k \in Keys : lock'[k] = IF lock[k] = w THEN NoWriter ELSE lock[k]
  BY <1>5 DEF Release, WorksOnItsFile, TypeOK, Open
<1>6. ASSUME NEW w \in Writers, Commit(w) PROVE TransactionInv'
  <2>1. Release(w) /\ \A k \in Keys : obs'[k] = Committed(w, k)
    BY <1>6 DEF Commit
  <2>2. ASSUME NEW v \in Writers \ {w}, NEW k \in Keys, lock[k] = v \/ k \in put[v]
        PROVE  obs'[k] = obs[k]
    <3>1. k \notin put[w]
      BY <2>2 DEF ReadsAreLocked, InsertsAreExclusive
    <3>2. k \notin Revised(w)
      BY <2>2 DEF ReadsAreLocked, InsertsAreExclusive, Revised
    <3> QED
      BY <2>1, <3>1, <3>2 DEF Committed
  <2>3. ASSUME NEW k \in Keys, obs[k] # NoRow PROVE obs'[k] # NoRow
    <3>1. _as_observation(file[w], k) \in Row \/ k \notin put[w]
      BY <2>3 DEF InsertsAreExclusive
    <3>2. k \in Revised(w) => obs'[k] # NoRow
      <4> SUFFICES ASSUME k \in Revised(w) PROVE obs'[k] # NoRow
        OBVIOUS
      <4>1. k \in Settled(Sheet[file[w]]) /\ read[w][k] \in Row /\ Open(w)
        BY <1>6 DEF Revised, TypeOK, Commit
      <4>2. _apply(read[w][k], file[w], k) \in Row
        BY <4>1, FigOfSettled DEF _apply, Row, TypeOK, Open
      <4> QED
        BY <2>1, <2>3, <4>2, NoRowIsNotARow DEF Committed, InsertsAreExclusive
    <3> QED
      BY <2>1, <2>3, <3>2 DEF Committed, InsertsAreExclusive
  <2>4. ReadsAreLocked'
    BY <1>0, <1>5, <2>1, <2>2, <2>3 DEF ReadsAreLocked
  <2>5. InsertsAreExclusive'
    <3> SUFFICES ASSUME NEW v \in Writers, NEW k \in put'[v]
                 PROVE  obs'[k] = NoRow /\ \A u \in Writers \ {v} : k \notin put'[u]
      BY DEF InsertsAreExclusive
    <3>1. v # w /\ k \in put[v] /\ k \in Keys
      BY <1>5, <2>1 DEF TypeOK
    <3>2. obs'[k] = NoRow
      BY <2>2, <3>1 DEF InsertsAreExclusive
    <3>3. ASSUME NEW u \in Writers \ {v} PROVE k \notin put'[u]
      BY <1>5, <2>1, <3>1 DEF InsertsAreExclusive
    <3> QED
      BY <3>2, <3>3
  <2> QED
    BY <1>5, <2>1, <2>4, <2>5
<1>7. ASSUME NEW w \in Writers, Rollback(w) PROVE TransactionInv'
  <2>1. Release(w) /\ obs' = obs
    BY <1>7 DEF Rollback
  <2>2. ReadsAreLocked'
    <3> SUFFICES ASSUME NEW v \in Writers, NEW k \in Keys
                 PROVE  /\ lock'[k] = v => read'[v][k] = obs[k] /\ obs[k] # NoRow
                        /\ read'[v][k] # NoRow => lock'[k] = v
                        /\ k \in want'[v] => obs[k] # NoRow /\ read'[v][k] = NoRow
      BY <2>1 DEF ReadsAreLocked
    <3>1. CASE v = w
      BY <1>0, <1>5, <2>1, <3>1
    <3>2. CASE v # w
      BY <1>0, <1>5, <2>1, <3>2 DEF ReadsAreLocked
    <3> QED
      BY <3>1, <3>2
  <2>3. InsertsAreExclusive'
    BY <1>5, <2>1 DEF InsertsAreExclusive
  <2> QED
    BY <1>5, <2>1, <2>2, <2>3
<1> QED
  BY <1>1, <1>2, <1>3, <1>4, <1>6, <1>7, NextIsAStep

-----------------------------------------------------------------------------
\* The history.

HistoryInv == HistoryComplete /\ EveryRevisionChanges /\ Provenance

\* What a commit does to one key, in terms of what was STORED, not read.
LEMMA CommitOfKey ==
    ASSUME TypeOK, TransactionInv, NEW w \in Writers, Commit(w), NEW k \in Keys
    PROVE  \/ /\ k \in Settled(Sheet[file[w]])
              /\ obs[k] = NoRow
              /\ obs'[k] = _as_observation(file[w], k)
              /\ k \notin Revised(w)
           \/ /\ k \in Settled(Sheet[file[w]])
              /\ obs[k] \in Row
              /\ obs[k].fig # FigOf(Sheet[file[w]], k)
              /\ obs'[k] = _apply(obs[k], file[w], k)
              /\ k \in Revised(w)
              /\ read[w][k] = obs[k]
           \/ /\ obs'[k] = obs[k]
              /\ k \notin Revised(w)
              /\ k \in Settled(Sheet[file[w]]) =>
                     obs[k] \in Row /\ obs[k].fig = FigOf(Sheet[file[w]], k)
<1>1. obs'[k] = Committed(w, k) /\ Missing(w) = {} /\ Open(w)
  BY DEF Commit
<1>2. read[w][k] # NoRow => read[w][k] = obs[k] /\ obs[k] # NoRow
  BY DEF TransactionInv, ReadsAreLocked
<1>3. obs[k] \in Row \cup {NoRow}
  BY DEF TypeOK
<1>4. CASE k \in put[w]
  BY <1>1, <1>2, <1>4 DEF Committed, Revised, TransactionInv, InsertsAreExclusive, WorksOnItsFile
<1>5. CASE k \notin put[w] /\ k \in Revised(w)
  BY <1>1, <1>2, <1>3, <1>5 DEF Committed, Revised
<1>6. CASE k \notin put[w] /\ k \notin Revised(w)
  BY <1>1, <1>2, <1>3, <1>6 DEF Committed, Revised, Missing
<1> QED
  BY <1>4, <1>5, <1>6

\* What a commit does to the archive of one key.
LEMMA CommitOfArchive ==
    ASSUME TypeOK, TransactionInv, NEW w \in Writers, Commit(w), NEW k \in Keys
    PROVE  Past(k)' = Past(k) \cup
               (IF k \in Revised(w) THEN {_superseded(k, obs[k])} ELSE {})
<1>1. archive' = archive \cup {_superseded(j, read[w][j]) : j \in Revised(w)}
  BY DEF Commit
<1>2. \A j : _superseded(j, read[w][j]).key = j
  BY DEF _superseded
<1>3. k \in Revised(w) => read[w][k] = obs[k]
  BY CommitOfKey
<1> QED
  BY <1>1, <1>2, <1>3 DEF Past

LEMMA CommitKeepsHistory ==
    ASSUME TypeOK, TransactionInv, HistoryInv, NEW w \in Writers, Commit(w)
    PROVE  HistoryInv'
<1> DEFINE past(k) == Past(k)
           now(k) == Past(k)'
<1>0. file[w] \in Files
  BY DEF Commit, TypeOK, Open
<1>a. \A a \in archive : a.key \in Keys /\ a.no \in Nat
  BY DEF TypeOK, Superseded
<1>1. ASSUME NEW k \in Keys
      PROVE  /\ \A a, b \in now(k) : a.no = b.no => a = b
             /\ {a.no : a \in now(k)} =
                    IF obs'[k] = NoRow THEN {} ELSE 0..(obs'[k].rev - 1)
             /\ \A a \in now(k) : a.no + 1 = obs'[k].rev => a.fig # obs'[k].fig
             /\ \A a, b \in now(k) : b.no = a.no + 1 => a.fig # b.fig
             /\ obs'[k] # NoRow =>
                    /\ k \in Settled(Sheet[obs'[k].file])
                    /\ obs'[k].fig = FigOf(Sheet[obs'[k].file], k)
             /\ \A a \in now(k) :
                    k \in Settled(Sheet[a.file]) /\ a.fig = FigOf(Sheet[a.file], k)
  <2>1. /\ \A a, b \in past(k) : a.no = b.no => a = b
        /\ {a.no : a \in past(k)} = IF obs[k] = NoRow THEN {} ELSE 0..(obs[k].rev - 1)
        /\ \A a \in past(k) : a.no + 1 = obs[k].rev => a.fig # obs[k].fig
        /\ \A a, b \in past(k) : b.no = a.no + 1 => a.fig # b.fig
        /\ obs[k] # NoRow =>
               k \in Settled(Sheet[obs[k].file]) /\ obs[k].fig = FigOf(Sheet[obs[k].file], k)
        /\ \A a \in past(k) :
               k \in Settled(Sheet[a.file]) /\ a.fig = FigOf(Sheet[a.file], k)
    BY DEF HistoryInv, HistoryComplete, EveryRevisionChanges, Provenance, Past
  <2>2. now(k) = past(k) \cup (IF k \in Revised(w) THEN {_superseded(k, obs[k])} ELSE {})
    BY CommitOfArchive
  <2>3. \A a \in past(k) : a.no \in Nat
    BY <1>a DEF Past
  <2> HIDE DEF past, now
  <2>4. CASE /\ k \in Settled(Sheet[file[w]])
             /\ obs[k] = NoRow
             /\ obs'[k] = _as_observation(file[w], k)
             /\ k \notin Revised(w)
    <3>1. now(k) = {}
      BY <2>1, <2>2, <2>4
    <3>2. obs'[k] \in Row
      BY <1>0, <2>4, FigOfSettled DEF _as_observation, Row
    <3> QED
      BY <2>4, <3>1, <3>2, NoRowIsNotARow DEF _as_observation
  <2>5. CASE /\ k \in Settled(Sheet[file[w]])
             /\ obs[k] \in Row
             /\ obs[k].fig # FigOf(Sheet[file[w]], k)
             /\ obs'[k] = _apply(obs[k], file[w], k)
             /\ k \in Revised(w)
    <3> DEFINE old == _superseded(k, obs[k])
    <3>1. /\ obs[k] # NoRow /\ obs[k].rev \in Nat
          /\ obs'[k].rev = obs[k].rev + 1
          /\ obs'[k].file = file[w]
          /\ obs'[k].fig = FigOf(Sheet[file[w]], k)
          /\ old.no = obs[k].rev /\ old.fig = obs[k].fig /\ old.file = obs[k].file
      BY <2>5, NoRowIsNotARow DEF _apply, _superseded, Row
    <3>2. obs'[k] # NoRow
      <4>1. obs'[k] \in Row
        BY <1>0, <2>5, FigOfSettled DEF _apply, Row
      <4> QED
        BY <4>1, NoRowIsNotARow
    <3>3. now(k) = past(k) \cup {old}
      BY <2>2, <2>5
    <3> HIDE DEF old
    <3>4. \A a \in past(k) : a.no < obs[k].rev
      BY <2>1, <2>3, <3>1
    <3>5. \A a, b \in now(k) : a.no = b.no => a = b
      BY <2>1, <2>3, <3>1, <3>3, <3>4
    <3>6. {a.no : a \in now(k)} = 0..(obs'[k].rev - 1)
      <4>1. {a.no : a \in now(k)} = {a.no : a \in past(k)} \cup {obs[k].rev}
        BY <3>1, <3>3
      <4>2. 0..(obs'[k].rev - 1) = 0..(obs[k].rev - 1) \cup {obs[k].rev}
        BY <3>1
      <4> QED
        BY <2>1, <3>1, <4>1, <4>2
    <3>7. \A a \in now(k) : a.no + 1 = obs'[k].rev => a.fig # obs'[k].fig
      BY <2>3, <2>5, <3>1, <3>3, <3>4
    <3>8. \A a, b \in now(k) : b.no = a.no + 1 => a.fig # b.fig
      BY <2>1, <2>3, <3>1, <3>3, <3>4
    <3> QED
      BY <2>1, <2>5, <3>1, <3>2, <3>3, <3>5, <3>6, <3>7, <3>8
  <2>6. CASE obs'[k] = obs[k] /\ k \notin Revised(w)
    <3>1. now(k) = past(k)
      BY <2>2, <2>6
    <3> QED
      BY <2>1, <2>6, <3>1
  <2> QED
    BY <2>4, <2>5, <2>6, CommitOfKey
<1>2. \A a \in archive' : a.key \in Keys /\ a \in now(a.key)
  <2>1. archive' = archive \cup {_superseded(j, read[w][j]) : j \in Revised(w)}
    BY DEF Commit
  <2> QED
    BY <1>a, <2>1 DEF _superseded, Revised, Settled, Past
<1>3. HistoryComplete'
  BY <1>1 DEF HistoryComplete
<1>4. EveryRevisionChanges'
  BY <1>1, <1>2 DEF EveryRevisionChanges
<1>5. Provenance'
  BY <1>1, <1>2 DEF Provenance
<1> QED
  BY <1>3, <1>4, <1>5 DEF HistoryInv

LEMMA HistoryStep == TypeOK /\ TransactionInv /\ HistoryInv /\ [Next]_vars => HistoryInv'
<1> SUFFICES ASSUME TypeOK, TransactionInv, HistoryInv, [Next]_vars PROVE HistoryInv'
  OBVIOUS
<1>1. CASE UNCHANGED <<obs, archive>>
  BY <1>1 DEF HistoryInv, HistoryComplete, EveryRevisionChanges, Provenance, Past
<1>2. ASSUME NEW w \in Writers, Commit(w) PROVE HistoryInv'
  BY <1>2, CommitKeepsHistory
<1> QED
  BY <1>1, <1>2, NextIsAStep DEF vars, Begin, LockRow, InsertRow, Rollback

-----------------------------------------------------------------------------
IInv == TypeOK /\ TransactionInv /\ HistoryInv

LEMMA IInvInit == Init => IInv
<1> SUFFICES ASSUME Init PROVE IInv
  OBVIOUS
<1>1. TypeOK
  BY BoundIsNatural DEF Init, TypeOK
<1>2. TransactionInv
  BY WritersAreFinite
  DEF Init, TransactionInv, ReadsAreLocked, InsertsAreExclusive, WorksOnItsFile
<1>3. HistoryInv
  BY DEF Init, HistoryInv, HistoryComplete, EveryRevisionChanges, Provenance, Past
<1> QED
  BY <1>1, <1>2, <1>3 DEF IInv

LEMMA IInvNext == IInv /\ [Next]_vars => IInv'
BY TypeStep, TransactionStep, HistoryStep DEF IInv, TransactionInv

LEMMA IInvAlways == Spec => []IInv
BY IInvInit, IInvNext, PTL DEF Spec

\* Every table row, lock and transaction has its type in every behaviour.
THEOREM StoreTypeOK == Spec => []TypeOK
<1>1. IInv => TypeOK
  BY DEF IInv
<1> QED
  BY <1>1, IInvAlways, PTL

\* The window between reading a row and writing it is closed, for any number
\* of concurrent writers.
THEOREM StoreTransactions == Spec => []TransactionInv
<1>1. IInv => TransactionInv
  BY DEF IInv
<1> QED
  BY <1>1, IInvAlways, PTL

\* No overwrite ever loses the figures it replaces.
THEOREM StoreHistoryComplete == Spec => []HistoryComplete
<1>1. IInv => HistoryComplete
  BY DEF IInv, HistoryInv
<1> QED
  BY <1>1, IInvAlways, PTL

\* A rewrite of the same figures is never recorded as a revision.
THEOREM StoreRevisionsChange == Spec => []EveryRevisionChanges
<1>1. IInv => EveryRevisionChanges
  BY DEF IInv, HistoryInv
<1> QED
  BY <1>1, IInvAlways, PTL

\* Every published and every superseded figure is credited to a file that
\* really says so.
THEOREM StoreProvenance == Spec => []Provenance
<1>1. IInv => Provenance
  BY DEF IInv, HistoryInv
<1> QED
  BY <1>1, IInvAlways, PTL

\* A commit leaves the store in agreement with the whole file, whatever other
\* writers did since the transaction read its rows.
THEOREM StoreCommitPublishes == Spec => CommitPublishesTheFile
<1>1. ASSUME IInv, [Next]_vars, NEW w \in Writers, Commit(w),
             NEW k \in Settled(Sheet[file[w]])
      PROVE  obs'[k].fig = FigOf(Sheet[file[w]], k)
  <2>1. k \in Keys
    BY DEF Settled
  <2>2. \/ obs'[k] = _as_observation(file[w], k)
        \/ obs'[k] = _apply(obs[k], file[w], k)
        \/ obs'[k] = obs[k] /\ obs[k].fig = FigOf(Sheet[file[w]], k)
    <3>1. TypeOK /\ TransactionInv /\ k \in Settled(Sheet[file[w]])
      BY <1>1 DEF IInv
    <3> QED
      BY <1>1, <2>1, <3>1, CommitOfKey
  <2> QED
    BY <2>2 DEF _as_observation, _apply
<1>2. IInv /\ [Next]_vars =>
        [\A w \in Writers :
            Commit(w) => \A k \in Settled(Sheet[file[w]]) :
                obs'[k].fig = FigOf(Sheet[file[w]], k)]_vars
  BY <1>1
<1> QED
  BY <1>2, IInvAlways, PTL DEF Spec, CommitPublishesTheFile

-----------------------------------------------------------------------------
\* The refinement: the tables implement one list of publications per key.

\* PriceHistory's own copies of the batch operators are these ones.
LEMMA SameBatches ==
    ASSUME NEW b
    PROVE  /\ History!Settled(b) = Settled(b)
           /\ \A k : History!FigOf(b, k) = FigOf(b, k)
BY DEF History!Settled, Settled, History!FigOf, FigOf, History!Described,
       Described, History!Mentions, Mentions

\* A superseded version is read back from the one archived row that has its
\* number.
LEMMA VersionOfArchived ==
    ASSUME NEW row, NEW past, \A a, b \in past : a.no = b.no => a = b,
           NEW a \in past, a.no # row.rev
    PROVE  Version(row, past, a.no) = [fig |-> a.fig, file |-> a.file]
<1>1. (CHOOSE b \in past : b.no = a.no) = a
  OBVIOUS
<1> QED
  BY <1>1 DEF Version

\* A commit appends to a key's publications iff the file changes its figures.
LEMMA CommitPublishesKey ==
    ASSUME IInv, IInv', NEW w \in Writers, Commit(w), NEW k \in Keys
    PROVE  Published(k)' =
               IF History!Changes(Published(k), file[w], k)
               THEN Append(Published(k), [fig |-> FigOf(Sheet[file[w]], k), file |-> file[w]])
               ELSE Published(k)
<1> DEFINE B == Sheet[file[w]]
           new == [fig |-> FigOf(B, k), file |-> file[w]]
           \* The rows a key is read back from, after the commit.
           old == _superseded(k, obs[k])
<1>0. /\ TypeOK /\ TransactionInv
      /\ \A a, b \in Past(k) : a.no = b.no => a = b
      /\ {a.no : a \in Past(k)} = IF obs[k] = NoRow THEN {} ELSE 0..(obs[k].rev - 1)
      /\ \A a, b \in Past(k)' : a.no = b.no => a = b
      /\ file[w] \in Files
  BY DEF IInv, HistoryInv, HistoryComplete, Commit, TypeOK, Open
<1>1. ASSUME obs[k] \in Row
      PROVE  /\ obs[k] # NoRow
             /\ obs[k].rev \in Nat
             /\ Published(k) = [i \in 1..(obs[k].rev + 1) |-> Version(obs[k], Past(k), i - 1)]
             /\ Published(k) # <<>>
             /\ Len(Published(k)) = obs[k].rev + 1
             /\ History!Latest(Published(k)).fig = obs[k].fig
  <2>1. obs[k] # NoRow /\ obs[k].rev \in Nat
    BY <1>1, NoRowIsNotARow DEF Row
  <2>2. Published(k) = [i \in 1..(obs[k].rev + 1) |-> Version(obs[k], Past(k), i - 1)]
    BY <2>1 DEF Published
  <2>3. Len(Published(k)) = obs[k].rev + 1 /\ Published(k) # <<>>
    BY <2>1, <2>2
  <2>4. Published(k)[obs[k].rev + 1] = Version(obs[k], Past(k), obs[k].rev)
    BY <2>1, <2>2
  <2>5. Version(obs[k], Past(k), obs[k].rev).fig = obs[k].fig
    BY DEF Version
  <2> QED
    BY <2>1, <2>2, <2>3, <2>4, <2>5 DEF History!Latest
<1>2. CASE /\ k \in Settled(B)
           /\ obs[k] = NoRow
           /\ obs'[k] = _as_observation(file[w], k)
  <2>1. Published(k) = <<>> /\ History!Changes(Published(k), file[w], k)
    BY <1>2, SameBatches DEF Published, History!Changes
  <2>2. obs'[k] \in Row /\ obs'[k].rev = 0 /\ obs'[k].fig = FigOf(B, k) /\ obs'[k].file = file[w]
    BY <1>0, <1>2, FigOfSettled DEF _as_observation, Row
  <2>3. Published(k)' = [i \in 1..1 |-> Version(obs'[k], Past(k)', i - 1)]
    BY <2>2, NoRowIsNotARow DEF Published
  <2>4. Version(obs'[k], Past(k)', 0) = new
    BY <2>2 DEF Version
  <2>5. Published(k)' = <<new>>
    BY <2>3, <2>4
  <2> QED
    BY <2>1, <2>5
<1>3. CASE /\ k \in Settled(B)
           /\ obs[k] \in Row
           /\ obs[k].fig # FigOf(B, k)
           /\ obs'[k] = _apply(obs[k], file[w], k)
           /\ k \in Revised(w)
  <2>1. History!Changes(Published(k), file[w], k)
    BY <1>1, <1>3, SameBatches DEF History!Changes
  <2>2. /\ obs'[k].rev = obs[k].rev + 1 /\ obs[k].rev \in Nat
        /\ obs'[k].fig = FigOf(B, k) /\ obs'[k].file = file[w]
    BY <1>1, <1>3 DEF _apply
  <2>3. obs'[k] # NoRow
    <3>1. obs'[k] \in Row
      BY <1>0, <1>3, FigOfSettled DEF _apply, Row
    <3> QED
      BY <3>1, NoRowIsNotARow
  <2>4. Past(k)' = Past(k) \cup {old}
    BY <1>0, <1>3, CommitOfArchive
  <2>5. Version(obs'[k], Past(k)', obs[k].rev + 1) = new
    BY <2>2 DEF Version
  <2>6. ASSUME NEW n \in 0..obs[k].rev
        PROVE  Version(obs'[k], Past(k)', n) = Version(obs[k], Past(k), n)
    <3>1. CASE n = obs[k].rev
      <4>1. old \in Past(k)' /\ old.no = n /\ old.fig = obs[k].fig /\ old.file = obs[k].file
        BY <2>4, <3>1 DEF _superseded
      <4>2. old.no # obs'[k].rev
        BY <2>2, <3>1, <4>1
      <4>3. Version(obs'[k], Past(k)', old.no) = [fig |-> old.fig, file |-> old.file]
        BY <1>0, <4>1, <4>2, VersionOfArchived
      <4> QED
        BY <3>1, <4>1, <4>3 DEF Version
    <3>2. CASE n # obs[k].rev
      <4>0. n \in {a.no : a \in Past(k)}
        <5>1. n \in 0..(obs[k].rev - 1)
          BY <2>2, <3>2
        <5> QED
          BY <1>0, <1>1, <1>3, <5>1
      <4>1. PICK a \in Past(k) : a.no = n
        BY <4>0
      <4>2. a \in Past(k)' /\ a.no # obs[k].rev /\ a.no # obs'[k].rev
        BY <2>2, <2>4, <3>2, <4>1
      <4> QED
        <5>1. Version(obs'[k], Past(k)', a.no) = [fig |-> a.fig, file |-> a.file]
          BY <1>0, <4>2, VersionOfArchived
        <5>2. Version(obs[k], Past(k), a.no) = [fig |-> a.fig, file |-> a.file]
          BY <1>0, <4>2, VersionOfArchived
        <5> QED
          BY <4>1, <5>1, <5>2
    <3> QED
      BY <3>1, <3>2
  <2>7. Published(k)' =
          [i \in 1..(obs[k].rev + 2) |-> Version(obs'[k], Past(k)', i - 1)]
    BY <2>2, <2>3 DEF Published
  <2>8. Append(Published(k), new) =
          [i \in 1..(obs[k].rev + 2) |->
              IF i = obs[k].rev + 2 THEN new ELSE Version(obs[k], Past(k), i - 1)]
    BY <1>1, <1>3, <2>2
  <2>9. \A i \in 1..(obs[k].rev + 2) :
          Version(obs'[k], Past(k)', i - 1) =
              IF i = obs[k].rev + 2 THEN new ELSE Version(obs[k], Past(k), i - 1)
    BY <2>2, <2>5, <2>6
  <2> QED
    BY <2>1, <2>7, <2>8, <2>9
<1>4. CASE /\ obs'[k] = obs[k]
           /\ k \notin Revised(w)
           /\ k \in Settled(B) => obs[k] \in Row /\ obs[k].fig = FigOf(B, k)
  <2>1. Past(k)' = Past(k)
    BY <1>0, <1>4, CommitOfArchive
  <2>2. Published(k)' = Published(k)
    BY <1>4, <2>1 DEF Published
  <2>3. ~History!Changes(Published(k), file[w], k)
    BY <1>1, <1>4, SameBatches DEF History!Changes
  <2> QED
    BY <2>2, <2>3
<1> QED
  BY <1>0, <1>2, <1>3, <1>4, CommitOfKey

\* The store implements PriceHistory: a commit publishes its file in one step,
\* and no other step of any transaction shows.
THEOREM StoreImplementsHistory == Spec => ImplementsHistory
<1>1. Init => History!Init
  BY DEF Init, History!Init, Published
<1>2. IInv /\ IInv' /\ [Next]_vars => [History!Next]_[k \in Keys |-> Published(k)]
  <2> SUFFICES ASSUME IInv, IInv', [Next]_vars
               PROVE  [History!Next]_[k \in Keys |-> Published(k)]
    OBVIOUS
  <2>1. CASE UNCHANGED <<obs, archive>>
    <3>1. \A k \in Keys : Published(k)' = Published(k)
      BY <2>1 DEF Published, Past
    <3> QED
      BY <3>1
  <2>2. ASSUME NEW w \in Writers, Commit(w) PROVE History!Next
    <3>1. file[w] \in Files
      BY <2>2 DEF Commit, Open, IInv, TypeOK
    <3>2. History!Publish(file[w])
      BY <2>2, CommitPublishesKey, SameBatches DEF History!Publish
    <3> QED
      BY <3>1, <3>2 DEF History!Next
  <2> QED
    BY <2>1, <2>2, NextIsAStep DEF vars, Begin, LockRow, InsertRow, Rollback
<1> QED
  BY <1>1, <1>2, IInvAlways, PTL DEF Spec, ImplementsHistory, History!Spec
=============================================================================
