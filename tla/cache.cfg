CONSTANTS
    sheet = sheet
    sheetUpper = sheetUpper
    reupload = reupload
    u1 = u1
    u2 = u2
    b1 = b1
    b2 = b2
    f1 = f1
    f2 = f2
    Fetchers = {f1, f2}
    RawUrls = {sheet, sheetUpper, reupload}
    Urls = {u1, u2}
    Canon <- MCCanon
    Bodies = {b1, b2}
    Serves <- MCServes
    Absent = Absent
    Rotten = Rotten
    MaxGets = 3
SPECIFICATION Spec
INVARIANT EveryRecordReadsBack
PROPERTY EntriesArePermanent
PROPERTY NeverRefetched
\* Every URL has used up its downloads.
CHECK_DEADLOCK FALSE
