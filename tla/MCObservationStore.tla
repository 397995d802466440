------------------------- MODULE MCObservationStore -------------------------
\* Two writers, two keys and three sheets: a sheet, its correction listing the
\* keys the other way round, and a sheet that disputes a key with itself.
EXTENDS ObservationStore, TLC

CONSTANTS w1, w2, original, revised, muddled, A, B

MCKeys == {1, 2}

O(k, g) == [key |-> k, fig |-> g]

MCSheet ==
    (original :> <<O(1, A), O(2, A), O(1, A)>>) @@
    (revised  :> <<O(2, B), O(1, A)>>) @@
    (muddled  :> <<O(1, B), O(2, A), O(2, B)>>)
=============================================================================
