----------------------------- MODULE MCApiReads -----------------------------
\* Three days of one series and two of another, and four files: the first days,
\* a later one, a correction, and a sheet that lists a row without figures.
EXTENDS ApiReads, TLC

CONSTANTS opening, later, corrected, blanked, at10, at15, at12, no_figures

MCDay == <<1, 2, 4, 2, 4>>
MCSeries == <<1, 1, 1, 2, 2>>
\* The sequence gave ids to the rows of the second series first.
MCId == <<3, 4, 5, 1, 2>>

MCAverage == at10 :> 10 @@ at15 :> 15 @@ at12 :> 12 @@ no_figures :> NoAverage

O(k, g) == [key |-> k, fig |-> g]

MCSheet ==
    (opening   :> <<O(2, at10), O(4, at12)>>) @@
    (later     :> <<O(3, at15), O(5, at12)>>) @@
    (corrected :> <<O(1, at12), O(4, at15)>>) @@
    (blanked   :> <<O(2, no_figures), O(5, no_figures)>>)
=============================================================================
