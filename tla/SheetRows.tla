----------------------------- MODULE SheetRows ------------------------------
(***************************************************************************)
(* The rows of one sheet on their way to the batch: read                   *)
(* (bantay_presyo.py _build_row), resolved to a commodity (commodities.py  *)
(* resolve, in the loop of ingest.py _store), rounded to the column's      *)
(* scale (upsert.py PendingObservation) and collapsed (Collapse.tla).  The *)
(* code does the four one list after the other, in the order of the rows;  *)
(* here a row goes through all of them in one step.                        *)
(*                                                                         *)
(* A sheet has one source, market and day, so a key is a commodity.        *)
(* Amounts are in tenths of a centavo.                                     *)
(***************************************************************************)
EXTENDS Collapse

CONSTANTS
    RawRows,    \* what a row of the table can hold
    Blank,      \* the price of an empty cell; NULL
    Unreadable, \* a cell with several values, or something else than a number
    NoUnit,     \* an empty unit cell
    Alias,      \* Alias[n]: the commodity of the names n (alias_key)
    UnitOf      \* UnitOf[k]: the unit of commodity k

Columns == {"low", "high", "prevailing", "average"}
Prices(r) == {r[c] : c \in Columns}

ASSUME RowsAreRead == \A r \in RawRows :
    /\ r.headed \in BOOLEAN
    /\ Prices(r) \subseteq Nat \cup {Blank, Unreadable}
ASSUME MarkersAreNoAmounts == Blank \notin Nat /\ Unreadable \notin Nat
ASSUME BlankIsReadable == Blank # Unreadable
ASSUME NoDanglingAlias == \A n \in DOMAIN Alias : Alias[n] \in Keys

VARIABLES
    rejected,   \* rows quarantined at stage parse
    unresolved  \* rows quarantined at stage alias

rowVars == <<vars, rejected, unresolved>>
-----------------------------------------------------------------------------
\* Both are prices, and a is the lower one: what `<' says of values that may be
\* NULL, in a WHERE or a FILTER and after the code's checks for None.
Below(a, b) == a # Blank /\ b # Blank /\ a < b

\* low <= high, unless one is NULL: _check_range of both models, and the
\* constraint low_not_above_high.
Ordered(f) == ~Below(f.high, f.low)

\* _check_unavailable and the constraint unavailable_implies_no_prices.
BlankIfUnavailable(f) == f.unavailable => Prices(f) = {Blank}

\* Mutant of _build_row: the range is left for the database to check.
TrustsTheRange(r) ==
    /\ r.headed
    /\ Unreadable \notin Prices(r)
    /\ r.unit # NoUnit

\* Can the row be trusted?
_build_row(r) ==
    /\ r.headed
    /\ Unreadable \notin Prices(r)
    /\ r.unit # NoUnit
    /\ Ordered(r)

Resolved(r) == r.name \in DOMAIN Alias /\ UnitOf[Alias[r.name]] = r.unit

\* Mutant of _quantize: the amount goes to the database as the sheet has it.
Unrounded(c) == c

\* ROUND_HALF_UP to the centavo.
_quantize(c) == IF c = Blank THEN Blank ELSE 10 * ((c + 5) \div 10)

\* PendingObservation.figures
Pending(r) ==
    [low |-> _quantize(r.low), high |-> _quantize(r.high),
     prevailing |-> _quantize(r.prevailing), average |-> _quantize(r.average),
     unavailable |-> Prices(r) = {Blank}]

ASSUME PendingsAreFigures ==
    \A r \in RawRows : _build_row(r) /\ Resolved(r) => Pending(r) \in Figs

\* What the column makes of an amount: Postgres rounds half away from zero.
Column(c) == IF c = Blank THEN Blank ELSE 10 * ((c + 5) \div 10)
-----------------------------------------------------------------------------
RowInit == Init /\ rejected = 0 /\ unresolved = 0

MoreRows == Len(batch) + rejected + unresolved < MaxRows

Reject(r) ==
    /\ ~_build_row(r)
    /\ rejected' = rejected + 1
    /\ UNCHANGED <<vars, unresolved>>

HoldUnresolved(r) ==
    /\ _build_row(r) /\ ~Resolved(r)
    /\ unresolved' = unresolved + 1
    /\ UNCHANGED <<vars, rejected>>

Take(r) ==
    /\ _build_row(r) /\ Resolved(r)
    /\ LET o == [key |-> Alias[r.name], fig |-> Pending(r)]
       IN  JoinDispute(o) \/ FirstMention(o) \/ Agree(o) \/ Disagree(o)
    /\ UNCHANGED <<rejected, unresolved>>

RowNext ==
    /\ MoreRows
    /\ \E r \in RawRows : Reject(r) \/ HoldUnresolved(r) \/ Take(r)

RowSpec == RowInit /\ [][RowNext]_rowVars
-----------------------------------------------------------------------------
RowTypeOK == TypeOK /\ rejected \in 0 .. MaxRows /\ unresolved \in 0 .. MaxRows

\* Whatever survives _build_row also passes the validators of
\* PendingObservation, after rounding: they raise inside _store's loop, where a
\* failure is not a rejected row but the end of the run.
PendingRowsAreValid ==
    \A i \in DOMAIN batch : Ordered(batch[i].fig) /\ BlankIfUnavailable(batch[i].fig)

\* The database keeps the figures it is given: if its rounding changed one, the
\* row would differ from its own sheet on every rerun and grow a revision each
\* time (STORED_SCALE).
ARerunIsQuiet ==
    \A k \in Keys : settled[k] # NoFig =>
        \A c \in Columns : Column(settled[k][c]) = settled[k][c]

\* Mutant of CountedImpossible: a missing bound counts as zero.
MissingBoundIsZero(f) ==
    f.average # Blank /\ (Below(f.average, f.low) \/ f.high = Blank \/ Below(f.high, f.average))

\* The FILTER of data_quality's count of impossible rows (routes.py).
CountedImpossible(f) ==
    f.average # Blank /\ (Below(f.average, f.low) \/ Below(f.high, f.average))

\* is_impossible (analytics/anomalies.py), which /anomalies reports.
is_impossible(f) ==
    \/ Below(f.high, f.low)
    \/ Below(f.average, f.low)
    \/ Below(f.high, f.average)

\* The quality page counts exactly the rows that /anomalies calls impossible,
\* although one asks SQL and the other a function with one rule more: that rule
\* never applies to a row the table can hold.
QualityCountsTheImpossible ==
    \A k \in Keys : settled[k] # NoFig =>
        (CountedImpossible(settled[k]) <=> is_impossible(settled[k]))
=============================================================================
