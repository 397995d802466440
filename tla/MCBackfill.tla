----------------------------- MODULE MCBackfill -----------------------------
\* Five links of a regional index: a sheet, its correction, a sheet of another
\* day that cannot be placed until that day comes, one that cannot be parsed
\* and one nobody can date.
EXTENDS Backfill, TLC

CONSTANTS original, revised, early, broken, nodate, A, B

MCKeys == {1, 2, 3}

O(k, g) == [key |-> k, fig |-> g]

MCSheet ==
    (original :> <<O(1, A)>>) @@ (revised :> <<O(1, B)>>) @@
    (early :> <<O(2, A), O(3, A), O(3, B)>>) @@ (broken :> <<>>) @@ (nodate :> <<O(2, B)>>)

MCIndex == <<original, nodate, revised, broken, early>>

MCSheetDate ==
    (original :> 1) @@ (revised :> 1) @@ (early :> 2) @@ (broken :> 1) @@ (nodate :> 2)

MCIndexDate == MCSheetDate

MCRejected == [f \in {original, revised, early, broken, nodate} |-> IF f = early THEN 1 ELSE 0]

MCUnresolved == [f \in {original, revised, early, broken, nodate} |-> IF f = original THEN 1 ELSE 0]
=============================================================================
