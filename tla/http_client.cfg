CONSTANTS
    sheet = sheet
    oldSheet = oldSheet
    https = https
    http = http
    office = office
    Urls <- MCUrls
    Origins = {https, http}
    Hosts = {office}
    OriginOf <- MCOriginOf
    HostOf <- MCHostOf
    RedirectTo <- UpgradeRedirect
    Floor = 2
    Delays = {3}
    Longest = 3
    Ttl = 5
    MaxAttempts = 2
    MaxBackOff = 1
    NoPolicy = NoPolicy
    NoUrl = NoUrl
SPECIFICATION FairSpec
INVARIANT ExpiredPoliciesServeOneGet
INVARIANT OnlyPermittedUrlsAreRequested
PROPERTY HostsAreLeftAlone
PROPERTY CrawlDelayIsHonoured
PROPERTY EveryGetEnds
