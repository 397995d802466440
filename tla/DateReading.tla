---------------------------- MODULE DateReading ----------------------------
(***************************************************************************)
(* The date read out of a text (sources/dates.py).  A text is the sequence *)
(* of its tokens, and a token is what it can be read as: a month, misspelt *)
(* or not, a day, a year, or none of them, 0 standing for "not one".       *)
(***************************************************************************)
EXTENDS Integers, Sequences, FiniteSetsExt

CONSTANTS
    Months, Days, Years,    \* the numbers the source writes
    NoDate                  \* DateReading without a value

ASSUME MonthsOfTheYear == Months \subseteq 1..12
ASSUME DaysOfAMonth == Days \subseteq 1..31
ASSUME PlausibleYears == Years \subseteq 1990..2100

Word == [month |-> 0, day |-> 0, year |-> 0]
Tokens ==
    {Word}
    \cup {[Word EXCEPT !.month = m] : m \in Months}
    \cup {[Word EXCEPT !.day = d] : d \in Days}
    \cup {[Word EXCEPT !.year = y] : y \in Years}
-----------------------------------------------------------------------------
DaysIn(y, m) ==
    CASE m = 2 -> IF y % 4 = 0 /\ (y % 100 # 0 \/ y % 400 = 0) THEN 29 ELSE 28
      [] m \in {4, 6, 9, 11} -> 30
      [] OTHER -> 31

\* date(year, month, day) does not raise.
IsDate(y, m, d) == d \in 1..DaysIn(y, m)

_as_day(t, i) == IF i \in DOMAIN t THEN t[i].day ELSE 0
MonthsIn(t) == {i \in DOMAIN t : t[i].month # 0}
YearsIn(t) == {i \in DOMAIN t : t[i].year # 0}
Candidates(t) == {i \in DOMAIN t : t[i].day # 0}

\* Two day-shaped numbers right after the month.
_looks_like_a_range(t, m) == _as_day(t, m + 1) # 0 /\ _as_day(t, m + 2) # 0

\* Mutant of _pick_day: the number before the month is tried first.
DayBeforeMonth(t, m) ==
    CASE m - 1 \in Candidates(t) -> _as_day(t, m - 1)
      [] m - 1 \notin Candidates(t) /\ m + 1 \in Candidates(t) -> _as_day(t, m + 1)
      [] OTHER -> 0

\* The number touching the month, after it or else before it; where none does,
\* the only number there is.
_pick_day(t, m) ==
    CASE m + 1 \in Candidates(t) -> _as_day(t, m + 1)
      [] m + 1 \notin Candidates(t) /\ m - 1 \in Candidates(t) -> _as_day(t, m - 1)
      [] Candidates(t) \cap {m - 1, m + 1} = {} /\ Cardinality(Candidates(t)) = 1 ->
            _as_day(t, Min(Candidates(t)))
      [] OTHER -> 0

\* The first month and the first year of the text, and the day picked.
Reading(t) ==
    LET m == Min(MonthsIn(t))
    IN  <<t[Min(YearsIn(t))].year, t[m].month, _pick_day(t, m)>>

read_date(t) ==
    IF /\ MonthsIn(t) # {}
       /\ ~_looks_like_a_range(t, Min(MonthsIn(t)))
       /\ YearsIn(t) # {}
       /\ _pick_day(t, Min(MonthsIn(t))) # 0
       /\ IsDate(Reading(t)[1], Reading(t)[2], Reading(t)[3])
    THEN Reading(t) ELSE NoDate
-----------------------------------------------------------------------------
CalendarDates ==
    {date \in Years \X Months \X Days : date[3] <= DaysIn(date[1], date[2])}

ASSUME NoDateIsNoDate == NoDate \notin CalendarDates

\* The text says "July 24 2026", or "24 July 2026" with no other number before
\* the day, from its i-th token on, and names no month and no year before that.
Says(t, i, date) ==
    /\ i + 2 \in DOMAIN t
    /\ \A j \in 1..(i - 1) : t[j].month = 0 /\ t[j].year = 0
    /\ t[i + 2].year = date[1]
    /\ \/ t[i].month = date[2] /\ t[i + 1].day = date[3]
       \/ /\ t[i].day = date[3] /\ t[i + 1].month = date[2]
          /\ _as_day(t, i - 1) = 0
=============================================================================
