SPECIFICATION RowSpec
CONSTANTS
    Keys = {1, 2}
    NoFig = NoFig
    Blank = Blank
    Unreadable = Unreadable
    NoUnit = NoUnit
    MaxRows = 3
    Figs <- MCFigs
    RawRows <- MCRawRows
    Alias <- MCAlias
    UnitOf <- MCUnitOf
INVARIANT BatchIsCollapsed
INVARIANT PendingRowsAreValid
INVARIANT ARerunIsQuiet
INVARIANT QualityCountsTheImpossible
\* The sheet is finite.
CHECK_DEADLOCK FALSE
