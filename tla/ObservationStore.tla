-------------------------- MODULE ObservationStore --------------------------
(***************************************************************************)
(* price_observations and observation_revisions under the transactions of  *)
(* several writers (db/upsert.py, db/models.py, db/engine.py).             *)
(*                                                                         *)
(* A writer publishes one file per transaction: it reads the stored rows   *)
(* of the file's keys under row locks, then inserts the missing ones, and  *)
(* commits the inserts together with the revisions.  PostgreSQL runs at    *)
(* READ COMMITTED: the locking SELECT sees the rows committed when it      *)
(* starts, waits for each locked row and then reads its latest version; an *)
(* insert waits for an uncommitted insert of the same key, and fails if    *)
(* that one commits.                                                       *)
(***************************************************************************)
EXTENDS Sheets, Integers, FiniteSets

CONSTANTS
    Writers,     \* processes that may ingest at the same time
    NoWriter,    \* the holder of a free row lock
    NoRow,       \* "no such row"
    NoFile,      \* the file of a writer with no open transaction
    MaxBatches   \* bound: transactions begun over a behaviour

ASSUME WritersAreFinite == IsFiniteSet(Writers) /\ NoWriter \notin Writers
ASSUME BoundIsNatural == MaxBatches \in Nat

Row == [fig : Figs, rev : Nat, file : Files]
ASSUME NoRowIsNotARow == NoRow \notin Row
ASSUME NoFileIsNotAFile == NoFile \notin Files

Superseded == [key : Keys, no : Nat, fig : Figs, file : Files]

VARIABLES
    obs,      \* price_observations, as committed
    archive,  \* observation_revisions, as committed
    lock,     \* who holds the row lock of a key
    file,     \* the file a writer's open transaction is publishing
    want,     \* keys its SELECT found and has yet to lock
    read,     \* rows it has locked, as it read them
    put,      \* keys it has inserted and not committed
    left      \* transactions that may still begin

vars == <<obs, archive, lock, file, want, read, put, left>>

Open(w) == file[w] # NoFile

Init ==
    /\ obs = [k \in Keys |-> NoRow]
    /\ archive = {}
    /\ lock = [k \in Keys |-> NoWriter]
    /\ file = [w \in Writers |-> NoFile]
    /\ want = [w \in Writers |-> {}]
    /\ read = [w \in Writers |-> [k \in Keys |-> NoRow]]
    /\ put = [w \in Writers |-> {}]
    /\ left = MaxBatches

-----------------------------------------------------------------------------
\* What the open transaction of w still has to do, and would write.

\* The key _lock_existing reaches next: rows are locked in key order.
NextLock(w) == CHOOSE k \in want[w] : \A j \in want[w] : k <= j

\* Keys of the batch that the SELECT did not return and are not inserted yet.
Missing(w) == {k \in Settled(Sheet[file[w]]) : read[w][k] = NoRow /\ k \notin put[w]}

\* New rows are flushed in the order the sheet first mentions them.
NextInsert(w) ==
    CHOOSE k \in Missing(w) :
        \A j \in Missing(w) : FirstAt(Sheet[file[w]], k) <= FirstAt(Sheet[file[w]], j)

\* Mutant of Revised: every stored row of the batch counts as changed.
RevisesAll(w) == {k \in Settled(Sheet[file[w]]) : read[w][k] # NoRow}

\* Stored rows whose figures the batch changes.
Revised(w) ==
    {k \in Settled(Sheet[file[w]]) : read[w][k] # NoRow /\ read[w][k].fig # FigOf(Sheet[file[w]], k)}

_as_observation(f, k) == [fig |-> FigOf(Sheet[f], k), rev |-> 0, file |-> f]

_superseded(k, row) == [key |-> k, no |-> row.rev, fig |-> row.fig, file |-> row.file]

\* Mutants of _apply: the revision number stays, or runs backwards, or the row
\* keeps crediting the file of the figures it replaced.
AppliesInPlace(row, f, k) == [fig |-> FigOf(Sheet[f], k), rev |-> row.rev, file |-> f]

KeepsTheSource(row, f, k) == [fig |-> FigOf(Sheet[f], k), rev |-> row.rev + 1, file |-> row.file]

_apply(row, f, k) == [fig |-> FigOf(Sheet[f], k), rev |-> row.rev + 1, file |-> f]

-----------------------------------------------------------------------------
\* Mutant of Release: a rolled back transaction keeps its row locks.
ReleasesNoLock(w) ==
    /\ file' = [file EXCEPT ![w] = NoFile]
    /\ want' = [want EXCEPT ![w] = {}]
    /\ read' = [read EXCEPT ![w] = [k \in Keys |-> NoRow]]
    /\ put' = [put EXCEPT ![w] = {}]
    /\ UNCHANGED <<lock, left>>

\* Ending a transaction drops its locks and its unflushed state.
Release(w) ==
    /\ lock' = [k \in Keys |-> IF lock[k] = w THEN NoWriter ELSE lock[k]]
    /\ file' = [file EXCEPT ![w] = NoFile]
    /\ want' = [want EXCEPT ![w] = {}]
    /\ read' = [read EXCEPT ![w] = [k \in Keys |-> NoRow]]
    /\ put' = [put EXCEPT ![w] = {}]
    /\ UNCHANGED left

Rollback(w) == Release(w) /\ UNCHANGED <<obs, archive>>

\* upsert_observations starts: the batch is collapsed and the SELECT takes
\* its snapshot.
Begin(w) ==
    /\ ~Open(w)
    /\ left > 0
    /\ left' = left - 1
    /\ \E f \in Files :
        /\ file' = [file EXCEPT ![w] = f]
        /\ want' = [want EXCEPT ![w] = {k \in Settled(Sheet[f]) : obs[k] # NoRow}]
    /\ UNCHANGED <<obs, archive, lock, read, put>>

\* Mutant of LockRow: a plain SELECT, without FOR UPDATE.
ReadsWithoutLock(w) ==
    /\ want[w] # {}
    /\ LET k == NextLock(w) IN
        /\ read' = [read EXCEPT ![w][k] = obs[k]]
        /\ want' = [want EXCEPT ![w] = @ \ {k}]
    /\ UNCHANGED <<obs, archive, lock, file, put, left>>

\* FOR UPDATE locks one row and reads its latest committed version.
LockRow(w) ==
    /\ want[w] # {}
    /\ LET k == NextLock(w) IN
        /\ lock[k] = NoWriter
        /\ lock' = [lock EXCEPT ![k] = w]
        /\ read' = [read EXCEPT ![w][k] = obs[k]]
        /\ want' = [want EXCEPT ![w] = @ \ {k}]
    /\ UNCHANGED <<obs, archive, file, put, left>>

Flushing(w) == Open(w) /\ want[w] = {} /\ Missing(w) # {}

\* Another open transaction inserted k: PostgreSQL makes us wait for its end.
InFlight(w, k) == \E v \in Writers \ {w} : k \in put[v]

\* Mutant of InsertRow: each insert commits by itself.
InsertAutocommits(w) ==
    /\ Flushing(w)
    /\ ~InFlight(w, NextInsert(w))
    /\ obs[NextInsert(w)] = NoRow
    /\ obs' = [obs EXCEPT ![NextInsert(w)] = _as_observation(file[w], NextInsert(w))]
    /\ UNCHANGED <<archive, lock, file, want, read, put, left>>

InsertRow(w) ==
    /\ Flushing(w)
    /\ ~InFlight(w, NextInsert(w))
    /\ obs[NextInsert(w)] = NoRow
    /\ put' = [put EXCEPT ![w] = @ \cup {NextInsert(w)}]
    /\ UNCHANGED <<obs, archive, lock, file, want, read, left>>

\* uq_price_observations_natural_key: IntegrityError, and session_scope rolls
\* the whole transaction back.
UniqueViolation(w) ==
    /\ Flushing(w)
    /\ obs[NextInsert(w)] # NoRow
    /\ Rollback(w)

\* What the commit of w makes of the row of k.
Committed(w, k) ==
    IF k \in put[w] THEN _as_observation(file[w], k)
    ELSE IF k \in Revised(w) THEN _apply(read[w][k], file[w], k)
    ELSE obs[k]

Commit(w) ==
    /\ Open(w)
    /\ want[w] = {}
    /\ Missing(w) = {}
    /\ obs' = [k \in Keys |-> Committed(w, k)]
    /\ archive' = archive \cup {_superseded(k, read[w][k]) : k \in Revised(w)}
    /\ Release(w)

\* The process dies, the connection drops or any exception leaves the block.
Fail(w) == Open(w) /\ Rollback(w)

-----------------------------------------------------------------------------
\* w waits for a row lock or for the end of an insert that v holds.
Waits(w, v) ==
    /\ v # w
    /\ \/ want[w] # {} /\ lock[NextLock(w)] = v
       \/ Flushing(w) /\ NextInsert(w) \in put[v]

\* w is on a cycle of waiting transactions.
Deadlocked(w) ==
    \E S \in SUBSET Writers :
        /\ w \in S
        /\ \A v \in S : (\E u \in S : Waits(v, u)) /\ (\E u \in S : Waits(u, v))

\* PostgreSQL's deadlock detector aborts one transaction of the cycle.
DeadlockVictim(w) == Deadlocked(w) /\ Rollback(w)

Step(w) == LockRow(w) \/ InsertRow(w) \/ UniqueViolation(w) \/ Commit(w)

Next ==
    \E w \in Writers : Begin(w) \/ Step(w) \/ Fail(w) \/ DeadlockVictim(w)

Spec == Init /\ [][Next]_vars

\* A connected writer keeps executing statements, and the detector runs after
\* deadlock_timeout.  Nothing obliges a writer to begin or to fail.
Fairness == \A w \in Writers : WF_vars(Step(w)) /\ WF_vars(DeadlockVictim(w))

FairSpec == Spec /\ Fairness
-----------------------------------------------------------------------------
TypeOK ==
    /\ obs \in [Keys -> Row \cup {NoRow}]
    /\ archive \subseteq Superseded
    /\ lock \in [Keys -> Writers \cup {NoWriter}]
    /\ file \in [Writers -> Files \cup {NoFile}]
    /\ want \in [Writers -> SUBSET Keys]
    /\ read \in [Writers -> [Keys -> Row \cup {NoRow}]]
    /\ put \in [Writers -> SUBSET Keys]
    /\ left \in Nat

\* What an open transaction relies on until it ends: a row it has read is
\* locked by it and still the committed one (the window _lock_existing closes,
\* upsert.py:263-264), a key it has inserted is nobody else's and not
\* committed, and both are keys of its file.
ReadsAreLocked ==
    \A w \in Writers, k \in Keys :
        /\ lock[k] = w => read[w][k] = obs[k] /\ obs[k] # NoRow
        /\ read[w][k] # NoRow => lock[k] = w
        /\ k \in want[w] => obs[k] # NoRow /\ read[w][k] = NoRow

InsertsAreExclusive ==
    \A w \in Writers : \A k \in put[w] :
        obs[k] = NoRow /\ \A v \in Writers \ {w} : k \notin put[v]

WorksOnItsFile ==
    \A w \in Writers, k \in Keys :
        (k \in want[w] \/ k \in put[w] \/ read[w][k] # NoRow) =>
            Open(w) /\ k \in Settled(Sheet[file[w]])

TransactionInv == ReadsAreLocked /\ InsertsAreExclusive /\ WorksOnItsFile

Past(k) == {a \in archive : a.key = k}

\* The revisions of a key are numbered 0, 1, ... with no gap and no repeat up
\* to the number before the current one: no overwrite lost what it replaced
\* (upsert.py:19-25), and UniqueConstraint(observation_id, revision_no) never
\* fires.
HistoryComplete ==
    \A k \in Keys :
        /\ \A a, b \in Past(k) : a.no = b.no => a = b
        /\ {a.no : a \in Past(k)} = IF obs[k] = NoRow THEN {} ELSE 0..(obs[k].rev - 1)

\* A revision is a change in the figures: no two consecutive versions of a key
\* carry the same ones (upsert.py:9-15).
EveryRevisionChanges ==
    \A a \in archive :
        /\ a.no + 1 = obs[a.key].rev => a.fig # obs[a.key].fig
        /\ \A b \in archive : (b.key = a.key /\ b.no = a.no + 1) => a.fig # b.fig

\* source_file_sha256 of a row, current or superseded, names a file that
\* really publishes those figures for that key (models.py:283).
Provenance ==
    /\ \A k \in Keys : obs[k] # NoRow =>
        k \in Settled(Sheet[obs[k].file]) /\ obs[k].fig = FigOf(Sheet[obs[k].file], k)
    /\ \A a \in archive : a.key \in Settled(Sheet[a.file]) /\ a.fig = FigOf(Sheet[a.file], a.key)

\* When a transaction commits, the store agrees with every settled row of its
\* file, the ones it found unchanged included: the lock "closes the window
\* between deciding a row is unchanged and writing it" (upsert.py:263-264).
CommitPublishesTheFile ==
    [][\A w \in Writers :
        Commit(w) => \A k \in Settled(Sheet[file[w]]) : obs'[k].fig = FigOf(Sheet[file[w]], k)]_vars

\* A transaction that began ends: waits for locks and inserts are finite.
EveryTransactionEnds == \A w \in Writers : Open(w) ~> ~Open(w)

\* The figures ever published for a key, oldest first: its archived rows by
\* number, then its current row.
Version(row, past, n) ==
    LET v == IF n = row.rev THEN row ELSE CHOOSE a \in past : a.no = n
    IN  [fig |-> v.fig, file |-> v.file]

Published(k) ==
    IF obs[k] = NoRow THEN <<>>
    ELSE [i \in 1..(obs[k].rev + 1) |-> Version(obs[k], Past(k), i - 1)]

History == INSTANCE PriceHistory WITH history <- [k \in Keys |-> Published(k)]

\* The two tables, under all their transactions, implement one list of
\* publications per key with files published whole and in some order.
ImplementsHistory == History!Spec
=============================================================================
