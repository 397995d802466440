CONSTANTS
    original = original
    revised = revised
    early = early
    broken = broken
    nodate = nodate
    A = A
    B = B
    Files = {original, revised, early, broken, nodate}
    Figs = {A, B}
    Keys <- MCKeys
    Sheet <- MCSheet
    Index <- MCIndex
    Undated = {nodate}
    IndexDate <- MCIndexDate
    SheetDate <- MCSheetDate
    Unparseable = {broken}
    Unmapped = {}
    Rejected <- MCRejected
    Unresolved <- MCUnresolved
    Lookback = 0
    Killable = TRUE
    IndexPage = IndexPage
    FirstDay = 1
    LastDay = 2
    MaxRuns = 2
SPECIFICATION Spec
INVARIANT RerunsConverge
\* The runs of the behaviour are used up.
CHECK_DEADLOCK FALSE
