CONSTANTS
    Groups = {fish, fruits, rice}
    NoCell = NoCell
    Blank = Blank
    MaxRows = 4
    MaxPages = 3
SPECIFICATION SheetSpec
INVARIANT NothingIsMisfiled
INVARIANT OnlyHeadlessRowsAreRefused
\* A sheet is finite.
CHECK_DEADLOCK FALSE
