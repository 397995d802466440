------------------------------ MODULE ApiReads ------------------------------
(***************************************************************************)
(* A reader of the API while the store is being written (api/routes.py).   *)
(* The writers are PriceHistory's, which the observation store is shown to *)
(* implement: a file is published in one step.  A request of the API is    *)
(* several statements, each of which sees what is committed when it runs.  *)
(* The reader asks for /observations page after page until it has as many  *)
(* rows as the last total, or asks once for /movers.                       *)
(***************************************************************************)
EXTENDS PriceHistory, Integers, FiniteSetsExt, SequencesExt

CONSTANTS
    Day,        \* Day[k]: the observed_on of key k
    Series,     \* Series[k]: its commodity and market, in the order of their ids
    Id,         \* Id[k]: the id its row gets when it is first inserted
    Average,    \* Average[g]: the average of figures g, or NoAverage
    NoAverage,
    Unavailable,\* the figures of rows listed without any
    NoDay,      \* "as_of was not given", "there is no row"
    WindowDays, \* values of window_days
    Limit,      \* rows per page
    MaxPublications     \* bound: files published

\* Dates, serial ids and numeric columns; a total order of the series by the ids
\* of their commodity and of their market.
ASSUME ColumnsAreNumbers ==
    /\ \A k \in Keys : Day[k] \in Int /\ Id[k] \in Int /\ Series[k] \in Int
    /\ \A g \in Figs : Average[g] = NoAverage \/ Average[g] \in Int
ASSUME IdsAreUnique == \A k, l \in Keys : Id[k] = Id[l] => k = l
\* With the one source there is, a series has one row a day.
ASSUME OneRowADay ==
    \A k, l \in Keys : Series[k] = Series[l] /\ Day[k] = Day[l] => k = l
ASSUME UnavailableRowsAreBlank ==
    Unavailable \subseteq Figs /\ \A g \in Unavailable : Average[g] = NoAverage
ASSUME LimitIsPositive == Limit \in Nat \ {0}

Days == {Day[k] : k \in Keys}

VARIABLES
    published,      \* files published
    pc,
    include_unavailable,
    offset,
    total,          \* of the response being made, or of the last one
    items,          \* of the last response
    received,       \* the items of all pages, one after the other
    as_of, window_days,
    anchor,
    arrived, left,  \* ghost: keys that joined and left the listing being read
    torn            \* ghost: the last response had a commit between its statements

request == <<pc, include_unavailable, offset, as_of, window_days>>
response == <<total, items, received, anchor>>
vars == <<history, published, request, response, arrived, left, torn>>
-----------------------------------------------------------------------------
Stored == {k \in Keys : history[k] # <<>>}
FigNow(k) == Latest(history[k]).fig

\* ORDER BY: each row of S in the place that the rows that come before it leave
\* it.  Defined here because what the provers know of SortSeq is its name.
InOrder(S, Comes(_, _)) ==
    [i \in 1..Cardinality(S) |->
        CHOOSE x \in S : Cardinality({y \in S : Comes(y, x)}) = i - 1]

\* Mutant of Listed: the rows listed with no figures are never there.
NeverTheBlanks(incl) == {k \in Stored : FigNow(k) \notin Unavailable}

\* The rows /observations matches.
Listed(incl) == {k \in Stored : incl \/ FigNow(k) \notin Unavailable}

Before(k, l) == Day[k] < Day[l] \/ (Day[k] = Day[l] /\ Id[k] < Id[l])

\* In order of day and, last, of something unique.
Listing(incl) == InOrder(Listed(incl), Before)

\* Mutant of PageOf: the row before the offset comes along.
OneRowEarly(rows, from) ==
    SubSeq(rows, Max({from, 1}), Min({from + Limit, Len(rows)}))

\* Mutant of PageOf: the row at the offset is passed over.
OneRowLate(rows, from) == SubSeq(rows, from + 2, Min({from + 1 + Limit, Len(rows)}))

PageOf(rows, from) == SubSeq(rows, from + 1, Min({from + Limit, Len(rows)}))

\* Mutant of _count: rebuilt with other filters than the page's.
CountsAll(incl) == Cardinality(Stored)

_count(incl) == Cardinality(Listed(incl))
-----------------------------------------------------------------------------
\* Priced rows of the window that ends at the anchor.
Priced(to, length) ==
    {k \in Stored : /\ Average[FigNow(k)] # NoAverage /\ Average[FigNow(k)] > 0
                    /\ Day[k] > to - length /\ Day[k] <= to}

from_start(rows, k) ==
    1 + Cardinality({l \in rows : Series[l] = Series[k] /\ Day[l] < Day[k]})

\* Mutant of from_end: the rows are numbered from the start both times.
StartAgain(rows, k) == from_start(rows, k)

from_end(rows, k) ==
    1 + Cardinality({l \in rows : Series[l] = Series[k] /\ Day[l] > Day[k]})

\* A move of a series from its first to its last price of the window.
Moves(to, length) ==
    LET rows == Priced(to, length)
        ends == {pair \in rows \X rows :
                    /\ Series[pair[1]] = Series[pair[2]]
                    /\ from_start(rows, pair[1]) = 1 /\ from_end(rows, pair[2]) = 1
                    /\ Cardinality({k \in rows : Series[k] = Series[pair[1]]}) >= 2}
    IN  {[first |-> pair[1], last |-> pair[2],
          from |-> Average[FigNow(pair[1])], now |-> Average[FigNow(pair[2])]] : pair \in ends}

Change(m) == IF m.now < m.from THEN m.from - m.now ELSE m.now - m.from

\* abs(percent), over the product of both moves' first averages.
Share(m, other) == Change(m) * other.from

\* The larger share first, and then by commodity and market.
Larger(m, o) ==
    \/ Share(m, o) > Share(o, m)
    \/ Share(m, o) = Share(o, m) /\ Series[m.first] < Series[o.first]
-----------------------------------------------------------------------------
ApiInit ==
    /\ history = [k \in Keys |-> <<>>] /\ published = 0
    /\ pc = "idle" /\ include_unavailable = FALSE /\ offset = 0
    /\ as_of = NoDay /\ window_days = 0
    /\ total = 0 /\ items = <<>> /\ received = <<>> /\ anchor = NoDay
    /\ arrived = {} /\ left = {} /\ torn = FALSE

\* A writer commits a file.
Ingest(f) ==
    /\ published < MaxPublications
    /\ published' = published + 1
    /\ Publish(f)
    /\ UNCHANGED <<request, response>>
    /\ LET was == Listed(include_unavailable)
           is == Listed(include_unavailable)'
           reading == pc \in {"count", "page"}
       IN  /\ arrived' = IF reading THEN arrived \cup (is \ was) ELSE arrived
           /\ left' = IF reading THEN left \cup (was \ is) ELSE left
    /\ torn' = (torn \/ (pc \in {"page", "movers"} /\ history' # history))

\* list_observations counts the rows, and then selects the page.
AskForObservations(incl) ==
    /\ pc = "idle"
    /\ pc' = "count"
    /\ include_unavailable' = incl
    /\ UNCHANGED <<history, published, offset, as_of, window_days, response,
                   arrived, left, torn>>

CountObservations ==
    /\ pc = "count"
    /\ pc' = "page"
    /\ total' = _count(include_unavailable)
    /\ torn' = FALSE
    /\ UNCHANGED <<history, published, include_unavailable, offset, as_of, window_days,
                   items, received, anchor, arrived, left>>

\* The reader goes on while the total says there is more.
SelectObservations ==
    /\ pc = "page"
    /\ items' = PageOf(Listing(include_unavailable), offset)
    /\ received' = received \o items'
    /\ IF offset + Limit < total
       THEN pc' = "count" /\ offset' = offset + Limit
       ELSE pc' = "done" /\ UNCHANGED offset
    /\ UNCHANGED <<history, published, include_unavailable, as_of, window_days,
                   total, anchor, arrived, left, torn>>

\* list_movers finds its anchor, counts, and selects.
AskForMovers(day, length) ==
    /\ pc = "idle"
    /\ as_of' = day /\ window_days' = length
    /\ pc' = "anchor"
    /\ UNCHANGED <<history, published, include_unavailable, offset, response,
                   arrived, left, torn>>

FindAnchor ==
    /\ pc = "anchor"
    /\ anchor' = CASE as_of # NoDay -> as_of
                   [] as_of = NoDay /\ Stored # {} -> Max({Day[k] : k \in Stored})
                   [] OTHER -> NoDay
    /\ pc' = IF anchor' = NoDay THEN "done" ELSE "count_movers"
    /\ UNCHANGED <<history, published, include_unavailable, offset, as_of, window_days,
                   total, items, received, arrived, left, torn>>

\* Mutant of CountMovers: a series with a single price in the window counts.
CountsEverySeries ==
    /\ pc = "count_movers"
    /\ pc' = "movers"
    /\ total' = Cardinality({Series[k] : k \in Priced(anchor, window_days)})
    /\ torn' = FALSE
    /\ UNCHANGED <<history, published, include_unavailable, offset, as_of, window_days,
                   items, received, anchor, arrived, left>>

CountMovers ==
    /\ pc = "count_movers"
    /\ pc' = "movers"
    /\ total' = Cardinality(Moves(anchor, window_days))
    /\ torn' = FALSE
    /\ UNCHANGED <<history, published, include_unavailable, offset, as_of, window_days,
                   items, received, anchor, arrived, left>>

SelectMovers ==
    /\ pc = "movers"
    /\ pc' = "done"
    /\ items' = PageOf(InOrder(Moves(anchor, window_days), Larger), 0)
    /\ UNCHANGED <<history, published, include_unavailable, offset, as_of, window_days,
                   total, received, anchor, arrived, left, torn>>

\* PriceHistory's Next is the writers' part of this one.
ReadNext ==
    \/ \E incl \in BOOLEAN : AskForObservations(incl)
    \/ CountObservations \/ SelectObservations
    \/ \E day \in Days \cup {NoDay}, length \in WindowDays : AskForMovers(day, length)
    \/ FindAnchor \/ CountMovers \/ SelectMovers

ApiNext == ReadNext \/ \E f \in Files : Ingest(f)

ApiSpec == ApiInit /\ [][ApiNext]_vars
-----------------------------------------------------------------------------
\* A reader that follows the pages while files are published misses no row that
\* was listed all along, unless a row left the listing, which only a listing
\* without the unavailable rows can lose, or the last total was counted before
\* a commit its page came after (routes.py:10-13, 80-85).
NothingIsMissed ==
    [][SelectObservations /\ pc' = "done" /\ ~torn /\ (include_unavailable \/ left = {}) =>
          Listed(include_unavailable) \ arrived \subseteq ToSet(received')]_vars

\* A row a reader gets twice was pushed back by a row published ahead of it: the
\* order is total, so the plan never shuffles rows between two pages.
RepeatsWerePushedBack ==
    \A i, j \in DOMAIN received :
        i < j /\ received[i] = received[j] => \E k \in arrived : Before(k, received[i])

\* The total and the page of a response, of /observations or of /movers, are of one
\* listing unless a commit came between the two statements (routes.py:80-85); a
\* commit between the anchor of /movers and its total does them no harm.
TotalsMatchTheirPages ==
    [][(SelectObservations \/ SelectMovers) /\ ~torn =>
          Len(items') = Max({0, Min({Limit, total - offset})})]_vars

\* A mover is shown with its first and its last price of the window that ends at
\* the anchor, whatever has been published since the anchor was found; every
\* series with two priced days is there, the largest move first, as far as a
\* page goes (routes.py:329-430).
MoversCompareTheEnds ==
    [][SelectMovers =>
          LET shown == ToSet(items')
              rows == Priced(anchor, window_days)
          IN  /\ \A m \in shown :
                    /\ {m.first, m.last} \subseteq rows /\ Day[m.first] < Day[m.last]
                    /\ \A k \in rows : Series[k] = Series[m.first] =>
                          Day[k] \in Day[m.first]..Day[m.last]
              /\ \A e, l \in rows :
                    Series[e] = Series[l] /\ Day[e] < Day[l] =>
                       \/ Series[e] \in {Series[m.first] : m \in shown}
                       \/ Len(items') = Limit
              /\ \A i, j \in DOMAIN items' :
                    i < j => Share(items'[i], items'[j]) >= Share(items'[j], items'[i])]_vars
=============================================================================
