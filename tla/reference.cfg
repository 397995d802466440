CONSTANTS
    Jobs = {j1, j2}
    Versions = {"v1", "v2", "v3"}
    Tables <- MCTables
    Columns = {"name", "unit"}
    Values = {"a", "b"}
    Csv <- MCCsv
    butuan_city = butuan_city
    BUTUAN_CITY = BUTUAN_CITY
    tandag_city = tandag_city
    Spellings = {butuan_city, BUTUAN_CITY, tandag_city}
    Sheets = {"first", "second", "third"}
    Sheet <- MCSheet
    Place <- MCPlace
    None = None
    MaxJobs = 3
SYMMETRY Permuted
SPECIFICATION Spec
INVARIANT WhatIsResolvedIsThere
INVARIANT TwinsLookedAtOnce
PROPERTY LoadsConverge
\* The jobs are finite.
CHECK_DEADLOCK FALSE
