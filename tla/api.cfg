CONSTANTS
    opening = opening
    later = later
    corrected = corrected
    blanked = blanked
    at10 = at10
    at15 = at15
    at12 = at12
    no_figures = no_figures
    Files = {opening, later, corrected, blanked}
    Figs = {at10, at15, at12, no_figures}
    Unavailable = {no_figures}
    Keys = {1, 2, 3, 4, 5}
    Sheet <- MCSheet
    Day <- MCDay
    Series <- MCSeries
    Id <- MCId
    Average <- MCAverage
    NoAverage = NoAverage
    NoDay = NoDay
    WindowDays = {2, 7}
    Limit = 2
    MaxPublications = 5
SPECIFICATION ApiSpec
PROPERTY NothingIsMissed
INVARIANT RepeatsWerePushedBack
PROPERTY TotalsMatchTheirPages
PROPERTY MoversCompareTheEnds
\* Files are published until the bound, and the reader asks once.
CHECK_DEADLOCK FALSE
