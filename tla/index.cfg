CONSTANTS
    Months = {2, 7}
    Days = {5, 30}
    Years = {2024}
    NoDate = NoDate
    Urls = {f1, f2}
    Foreign = Foreign
    NoLink = NoLink
    MaxAnchors = 3
    MaxTokens = 3
    Names <- MCNames
SYMMETRY Permuted
SPECIFICATION Spec
INVARIANT TheWrittenDateIsRead
INVARIANT NothingIsInvented
INVARIANT FirstLinkDecides
INVARIANT EveryCandidateIsAccounted
\* A page ends.
CHECK_DEADLOCK FALSE
