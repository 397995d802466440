----------------------------- MODULE Anomalies -----------------------------
(***************************************************************************)
(* The flagging of prices (analytics/anomalies.py, and routes.py           *)
(* list_anomalies, which calls it).  A series is one market's averages of  *)
(* one commodity, by date, as the store holds it when a request reads it;  *)
(* the next request finds a row more, on whatever date, or a revised one.  *)
(* The code computes with floats; here medians are kept doubled and the    *)
(* comparisons cross-multiplied, so that they are exact.                   *)
(***************************************************************************)
EXTENDS Integers, SequencesExt

CONSTANTS
    Prices,         \* averages, in whole units
    NoPrice,        \* the average of a row without one
    Windows,        \* values of the window parameter
    MinNeighbours,  \* DEFAULT_MIN_NEIGHBOURS
    MaxPoints       \* bound: rows of the series

ASSUME PricesAreNatural == Prices \subseteq Nat /\ NoPrice \notin Prices
ASSUME WindowsAreUsable == Windows \subseteq Nat /\ \A w \in Windows : w >= 3
ASSUME NeighboursAreEnough == MinNeighbours \in Nat /\ MinNeighbours >= 2

VARIABLES
    points,     \* the series, oldest first
    window,
    flags       \* the answer to the last request: a verdict for each point

seriesVars == <<points, window, flags>>

Values == Prices \cup {NoPrice}
-----------------------------------------------------------------------------
Abs(x) == IF x < 0 THEN -x ELSE x

\* The r-th smallest value of f.
Ranked(f, r) ==
    CHOOSE v \in Range(f) :
        /\ Cardinality({j \in DOMAIN f : f[j] < v}) < r
        /\ Cardinality({j \in DOMAIN f : f[j] <= v}) >= r

\* Twice the median of f.
TwiceMedian(f) ==
    LET n == Cardinality(DOMAIN f)
    IN  Ranked(f, (n + 1) \div 2) + Ranked(f, n \div 2 + 1)

\* Mutants of WindowAt: it slides at the start only; it never slides; it is
\* the whole series.
SlidesAtTheStart(n, i, w) ==
    LET start == Max({1, i - w \div 2})
        stop == Min({n, i + w \div 2})
    IN  start .. (IF stop - start + 1 < w /\ start = 1 THEN Min({n, w}) ELSE stop)
NeverSlides(n, i, w) == Max({1, i - w \div 2}) .. Min({n, i + w \div 2})
WholeSeries(n, i, w) == 1 .. n

\* The positions of n compared with position i: w \div 2 on each side, slid
\* inwards at the edges.
WindowAt(n, i, w) ==
    LET start == Max({1, i - w \div 2})
        stop == Min({n, i + w \div 2})
        short == stop - start + 1 < w
    IN  CASE ~short             -> start .. stop
          [] short /\ start = 1 -> start .. Min({n, w})
          [] short /\ start # 1 -> Max({1, stop - w + 1}) .. stop

\* Mutant of _neighbours: a day without a price is a day the price was zero.
BlanksAreZero(s, i, w) ==
    [j \in WindowAt(Len(s), i, w) \ {i} |-> IF s[j] = NoPrice THEN 0 ELSE s[j]]

\* The prices near i, itself and the blanks left out.
_neighbours(s, i, w) ==
    [j \in {k \in WindowAt(Len(s), i, w) \ {i} : s[k] # NoPrice} |-> s[j]]

SumOf(f) == FoldFunction(+, 0, f)

\* Mutant of Unusual: only rises are.
OnlyRises(value, near) ==
    LET centre == TwiceMedian(near)
        absolute == [j \in DOMAIN near |-> Abs(2 * near[j] - centre)]
        mad == TwiceMedian(absolute)
    IN  IF mad > 0 THEN (2 * value - centre) * 2 * 6745 > 35000 * mad
        ELSE 2 * value # centre

\* The score is beyond the threshold of 3.5: the distance from the median over
\* the MAD, over the mean deviation when the MAD is zero; when both are, any
\* other price is beyond it (_deviation_scale and its caller).
\* `mad' is four times the MAD, and 4386599 is 3.5 * 1.253314 in millionths.
Unusual(value, near) ==
    LET centre == TwiceMedian(near)
        absolute == [j \in DOMAIN near |-> Abs(2 * near[j] - centre)]
        mad == TwiceMedian(absolute)
        sum == SumOf(absolute)
        deviation == Abs(2 * value - centre)
    IN  IF mad > 0 THEN deviation * 2 * 6745 > 35000 * mad
        ELSE deviation * Cardinality(DOMAIN near) * 1000000 > 4386599 * sum

\* At least a tenth of the median away from it.
_far_enough(value, near) ==
    LET centre == TwiceMedian(near)
    IN  IF centre = 0 THEN value # 0 ELSE Abs(2 * value - centre) * 10 >= centre

Verdict(s, i, w) ==
    LET near == _neighbours(s, i, w)
        judged == Cardinality(DOMAIN near) >= MinNeighbours
    IN  CASE s[i] = NoPrice             -> "blank"
          [] s[i] # NoPrice /\ ~judged -> "unjudged"
          [] s[i] # NoPrice /\ judged  ->
                IF Unusual(s[i], near) /\ _far_enough(s[i], near)
                THEN "anomalous" ELSE "ordinary"

flag_series(s, w) == [i \in 1 .. Len(s) |-> Verdict(s, i, w)]
-----------------------------------------------------------------------------
SeriesInit ==
    /\ points = <<>>
    /\ window \in Windows
    /\ flags = <<>>

\* A request for the series: list_anomalies.
Answer(s) ==
    /\ points' = s
    /\ flags' = flag_series(s, window)
    /\ UNCHANGED window

\* A row was inserted since the last request, before position i.
Insert(i, v) ==
    /\ Len(points) < MaxPoints
    /\ Answer(InsertAt(points, i, v))

\* Row i was revised since.
Revise(i, v) ==
    /\ v # points[i]
    /\ Answer(ReplaceAt(points, i, v))

SeriesNext ==
    \/ \E v \in Values, i \in 1 .. Len(points) + 1 : Insert(i, v)
    \/ \E v \in Values, i \in 1 .. Len(points) : Revise(i, v)

SeriesSpec == SeriesInit /\ [][SeriesNext]_seriesVars
-----------------------------------------------------------------------------
\* The ends of a series are judged as the rest is: the series read backwards
\* gets the same verdicts, backwards, and with a window's worth of priced days
\* nobody goes unjudged (what the slide in _neighbours is for).
EndsAreJudgedLikeTheRest ==
    /\ flag_series(Reverse(points), window) = Reverse(flags)
    /\ window > MinNeighbours /\ Len(points) >= window /\ NoPrice \notin Range(points)
          => "unjudged" \notin Range(flags)

\* What the median is for: when all prices but one lie within a tenth of each
\* other, that one, if it is double or half of them, neither hides itself nor
\* casts suspicion on the others, wherever the blanks are.
LoneSpikeIsCaught ==
    \A s \in DOMAIN points :
        LET priced == {j \in DOMAIN points : points[j] # NoPrice}
            others == {points[j] : j \in priced \ {s}}
        IN  /\ s \in priced
            /\ others # {} /\ Max(others) * 10 < Min(others) * 11
            /\ points[s] >= 2 * Max(others) \/ 2 * points[s] <= Min(others)
            => /\ flags[s] \in {"anomalous", "unjudged"}
               /\ \A j \in priced \ {s} : flags[j] # "anomalous"

\* A flagged price would be flagged at any price as far from the median of its
\* neighbours, above or below, or further: a spike cannot grow into hiding, and
\* a fall counts like a rise.
FurtherIsStillFlagged ==
    \A i \in DOMAIN points : flags[i] = "anomalous" =>
        LET centre == TwiceMedian(_neighbours(points, i, window))
        IN  \A p \in Prices :
                Abs(2 * p - centre) >= Abs(2 * points[i] - centre)
                => Verdict(ReplaceAt(points, i, p), i, window) = "anomalous"

\* A row that arrives or changes a window or more away leaves a point's verdict
\* as it was, so that news of one month does not rewrite the flags of another.
FarVerdictsStand ==
    [][ \A i \in DOMAIN points :
          \/ \E v \in Values, j \in 1 .. Len(points) :
                 /\ points' = ReplaceAt(points, j, v)
                 /\ Abs(i - j) < window \/ flags'[i] = flags[i]
          \/ \E v \in Values, j \in 1 .. Len(points) + 1 :
                 /\ points' = InsertAt(points, j, v)
                 /\ \/ j - i < window /\ i - j < window - 1
                    \/ i < j /\ flags'[i] = flags[i]
                    \/ i >= j /\ flags'[i + 1] = flags[i]
      ]_seriesVars
=============================================================================
