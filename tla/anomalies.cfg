SPECIFICATION SeriesSpec
CONSTANTS
    Prices = {0, 20, 21, 42}
    NoPrice = NoPrice
    Windows = {4, 5}
    MinNeighbours = 4
    MaxPoints = 6
INVARIANT EndsAreJudgedLikeTheRest
INVARIANT LoneSpikeIsCaught
INVARIANT FurtherIsStillFlagged
PROPERTY FarVerdictsStand
