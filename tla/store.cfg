CONSTANTS
    w1 = w1
    w2 = w2
    original = original
    revised = revised
    muddled = muddled
    A = A
    B = B
    Writers = {w1, w2}
    NoWriter = NoWriter
    NoRow = NoRow
    NoFile = NoFile
    Files = {original, revised, muddled}
    Figs = {A, B}
    Keys <- MCKeys
    Sheet <- MCSheet
    MaxBatches = 5
SPECIFICATION FairSpec
INVARIANT HistoryComplete
INVARIANT EveryRevisionChanges
INVARIANT Provenance
PROPERTY ImplementsHistory
PROPERTY EveryTransactionEnds
\* No batch is left to begin: the writers are done.
CHECK_DEADLOCK FALSE
