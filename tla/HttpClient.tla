----------------------------- MODULE HttpClient -----------------------------
(***************************************************************************)
(* HttpClient.get and robots_decision, and the RobotsGate behind them      *)
(* (net/client.py, net/robots.py): one thread that reads an origin's       *)
(* robots.txt when it holds no fresh policy for it, throttles every        *)
(* request per host, retries and backs off, and raises when the budget is  *)
(* spent.                                                                  *)
(*                                                                         *)
(* Time passes in ticks, and a clock that is only compared with a limit    *)
(* stops at that limit, so behaviours are as long as one likes.            *)
(***************************************************************************)
EXTENDS Integers, FiniteSets, FiniteSetsExt

CONSTANTS
    Urls,
    Origins,
    Hosts,
    OriginOf,      \* origin_of a URL: scheme and authority
    HostOf,        \* the authority of an origin, which the throttle goes by
    Floor,         \* min_interval_per_host
    Delays,        \* Crawl-delays a robots.txt may ask for; 0 asks for none
    Ttl,           \* robots_ttl
    MaxAttempts,
    MaxBackOff,    \* the longest of backoff_max and retry_after_max
    Longest,       \* bound: a clock that has reached it is beyond every interval
    RedirectTo,    \* URLs the server redirects, with where to
    NoPolicy,
    NoUrl

ASSUME OriginsAndHosts == OriginOf \in [Urls -> Origins] /\ HostOf \in [Origins -> Hosts]
ASSUME Tunables ==
    /\ Floor \in Nat /\ Ttl \in Nat /\ MaxBackOff \in Nat
    /\ MaxAttempts \in Nat \ {0}
    /\ Delays \subseteq Nat
ASSUME LongestIsLongest == Longest \in Nat /\ \A d \in Delays \cup {Floor} : d <= Longest
ASSUME Redirects == DOMAIN RedirectTo \subseteq Urls /\ \A u \in DOMAIN RedirectTo : RedirectTo[u] \in Urls
ASSUME NotAUrl == NoUrl \notin Urls

Policy == [status : {"parsed", "unavailable", "unreachable"},
           allows : SUBSET Urls, delay : Delays \cup {0}]

ASSUME NoPolicyIsNotAPolicy == NoPolicy \notin Policy

VARIABLES
    policy,    \* RobotsGate._policies
    policyAge, \* ticks since the policy of an origin was read, up to Ttl
    age,       \* ticks since _last_request_at of a host, up to Longest
    quiet,     \* ticks since this client issued a request to a host, up to Longest
    late,      \* content requests issued to an origin since its policy expired
    url,       \* the URL get() was called with
    reading,   \* TRUE while its robots.txt is being read
    deciding,  \* TRUE when that is for robots_decision(), not for a get()
    phase,     \* where _request is
    interval,  \* its min_interval
    attempt,
    nap,       \* ticks left of a sleep
    sent       \* the URL on the wire

vars == <<policy, policyAge, age, quiet, late, url, reading, deciding, phase, interval,
          attempt, nap, sent>>

counters == <<policyAge, age, quiet, late>>

Host(u) == HostOf[OriginOf[u]]

can_fetch(p, u) == p.status = "unavailable" \/ (p.status = "parsed" /\ u \in p.allows)

\* A policy is trusted until it is robots_ttl old.
Fresh(o) == policy[o] # NoPolicy /\ policyAge[o] < Ttl

\* Mutant of _interval_for: a long Crawl-delay is capped at the floor.
CappedInterval(p) == IF p.delay <= Floor THEN p.delay ELSE Floor

_interval_for(p) == IF p.delay <= Floor THEN Floor ELSE p.delay

Init ==
    /\ policy = [o \in Origins |-> NoPolicy]
    /\ policyAge = [o \in Origins |-> Ttl]
    /\ age = [h \in Hosts |-> Longest]
    /\ quiet = [h \in Hosts |-> Longest]
    /\ late = [o \in Origins |-> 0]
    /\ url = NoUrl
    /\ reading = FALSE
    /\ deciding = FALSE
    /\ phase = "idle"
    /\ interval = 0
    /\ attempt = 0
    /\ nap = 0
    /\ sent = NoUrl

\* get() or robots_decision() returns or raises.
Leave ==
    /\ url' = NoUrl
    /\ reading' = FALSE
    /\ deciding' = FALSE
    /\ phase' = "idle"
    /\ interval' = 0
    /\ attempt' = 0
    /\ nap' = 0
    /\ sent' = NoUrl

\* _request starts, for robots.txt or for the content of u.
StartRequest(u, robots, decision, gap) ==
    /\ url' = u
    /\ reading' = robots
    /\ deciding' = decision
    /\ phase' = "throttle"
    /\ interval' = gap
    /\ attempt' = 1
    /\ nap' = 0
    /\ sent' = NoUrl

\* Mutant of Proceed: an unreadable robots.txt restricts nothing.
FailsOpen(p, u) ==
    \/ (can_fetch(p, u) \/ p.status = "unreachable") /\ StartRequest(u, FALSE, FALSE, _interval_for(p))
    \/ p.status = "parsed" /\ ~can_fetch(p, u) /\ Leave

\* require_allowed under policy p, then the content request it permits.
Proceed(p, u) ==
    \/ can_fetch(p, u) /\ StartRequest(u, FALSE, FALSE, _interval_for(p))
    \/ ~can_fetch(p, u) /\ Leave

\* Mutant of GetUnderFreshPolicy: a policy once read is trusted for ever.
GetUnderAnyPolicy(u) ==
    /\ phase = "idle"
    /\ policy[OriginOf[u]] # NoPolicy
    /\ Proceed(policy[OriginOf[u]], u)
    /\ UNCHANGED <<policy, counters>>

GetUnderFreshPolicy(u) ==
    /\ phase = "idle"
    /\ Fresh(OriginOf[u])
    /\ Proceed(policy[OriginOf[u]], u)
    /\ UNCHANGED <<policy, counters>>

GetReadsRobots(u) ==
    /\ phase = "idle"
    /\ ~Fresh(OriginOf[u])
    /\ StartRequest(u, TRUE, FALSE, Floor)
    /\ UNCHANGED <<policy, counters>>

\* robots_decision(), which under a fresh policy changes nothing.
DecisionReadsRobots(u) ==
    /\ phase = "idle"
    /\ ~Fresh(OriginOf[u])
    /\ StartRequest(u, TRUE, TRUE, Floor)
    /\ UNCHANGED <<policy, counters>>

\* Kept for the properties: a content request under a policy that has expired.
CountIfLate ==
    late' = IF ~reading /\ policyAge[OriginOf[url]] = Ttl
            THEN [late EXCEPT ![OriginOf[url]] = @ + 1] ELSE late

\* Mutant of Issue: robots.txt requests are not counted against the budget.
RobotsAreFree ==
    /\ age' = IF reading THEN age ELSE [age EXCEPT ![Host(url)] = 0]
    /\ quiet' = [quiet EXCEPT ![Host(url)] = 0]
    /\ CountIfLate
    /\ phase' = "flight"
    /\ sent' = url
    /\ UNCHANGED <<policy, policyAge, url, reading, deciding, interval, attempt, nap>>

\* The request leaves: the throttle's own record, and the host's.
Issue ==
    /\ age' = [age EXCEPT ![Host(url)] = 0]
    /\ quiet' = [quiet EXCEPT ![Host(url)] = 0]
    /\ CountIfLate
    /\ phase' = "flight"
    /\ sent' = url
    /\ UNCHANGED <<policy, policyAge, url, reading, deciding, interval, attempt, nap>>

\* _throttle, when the host has been quiet for long enough ...
IssueAtOnce ==
    /\ phase = "throttle"
    /\ age[Host(url)] >= interval
    /\ Issue

\* ... and when it has not: one sleep, whose end is not checked again.
Throttle ==
    /\ phase = "throttle"
    /\ age[Host(url)] < interval
    /\ nap' = interval - age[Host(url)]
    /\ phase' = "nap"
    /\ UNCHANGED <<policy, counters, url, reading, deciding, interval, attempt, sent>>

IssueAfterNap ==
    /\ phase = "nap"
    /\ nap = 0
    /\ Issue

\* httpx follows a redirect by itself, past the gate and the throttle.
FollowRedirect ==
    /\ phase = "flight"
    /\ ~reading
    /\ sent \in DOMAIN RedirectTo
    /\ sent' = RedirectTo[sent]
    /\ UNCHANGED <<policy, counters, url, reading, deciding, phase, interval, attempt, nap>>

\* The policy of robots.txt p is stored as read now; get() goes on, and
\* robots_decision() returns.
Learn(p) ==
    /\ policy' = [policy EXCEPT ![OriginOf[url]] = p]
    /\ policyAge' = [policyAge EXCEPT ![OriginOf[url]] = 0]
    /\ late' = [late EXCEPT ![OriginOf[url]] = 0]
    /\ \/ ~deciding /\ Proceed(p, url)
       \/ deciding /\ Leave
    /\ UNCHANGED <<age, quiet>>

\* robots.txt with a 2xx or 3xx answer.
RobotsParsed ==
    /\ phase = "flight" /\ reading
    /\ \E d \in Delays \cup {0}, ok \in SUBSET {u \in Urls : OriginOf[u] = OriginOf[url]} :
        Learn([status |-> "parsed", allows |-> ok, delay |-> d])

\* robots.txt with a 4xx other than 429: nothing is restricted.
RobotsUnavailable ==
    /\ phase = "flight" /\ reading
    /\ Learn([status |-> "unavailable", allows |-> {}, delay |-> 0])

\* A content answer below 400 is returned, a 4xx other than 429 is raised.
ContentSettled ==
    /\ phase = "flight" /\ ~reading
    /\ sent \notin DOMAIN RedirectTo
    /\ Leave
    /\ UNCHANGED <<policy, counters>>

\* Mutant of Retry: attempts are not counted.
RetriesForever ==
    /\ phase = "flight"
    /\ attempt < MaxAttempts
    /\ nap' \in 0..MaxBackOff
    /\ phase' = "backoff"
    /\ sent' = NoUrl
    /\ UNCHANGED <<policy, counters, url, reading, deciding, interval, attempt>>

\* A 429, a 5xx or a transport error, with attempts left.
Retry ==
    /\ phase = "flight"
    /\ attempt < MaxAttempts
    /\ attempt' = attempt + 1
    /\ nap' \in 0..MaxBackOff
    /\ phase' = "backoff"
    /\ sent' = NoUrl
    /\ UNCHANGED <<policy, counters, url, reading, deciding, interval>>

EndBackOff ==
    /\ phase = "backoff"
    /\ nap = 0
    /\ phase' = "throttle"
    /\ UNCHANGED <<policy, counters, url, reading, deciding, interval, attempt, nap, sent>>

\* The last attempt failed: HttpRequestError.
ContentExhausted ==
    /\ phase = "flight" /\ ~reading
    /\ attempt = MaxAttempts
    /\ Leave
    /\ UNCHANGED <<policy, counters>>

\* _fetch_robots turns it into an outcome, which _classify reads as a complete
\* disallow.
RobotsUnreachable ==
    /\ phase = "flight" /\ reading
    /\ attempt = MaxAttempts
    /\ Learn([status |-> "unreachable", allows |-> {}, delay |-> 0])

Later(clock, limit) == [x \in DOMAIN clock |-> Min({clock[x] + 1, limit})]

\* A sleeping thread sleeps its time; any other step may be as slow as it likes.
Tick ==
    /\ policyAge' = Later(policyAge, Ttl)
    /\ age' = Later(age, Longest)
    /\ quiet' = Later(quiet, Longest)
    /\ nap' = IF nap > 0 THEN nap - 1 ELSE 0
    /\ UNCHANGED <<policy, late, url, reading, deciding, phase, interval, attempt, sent>>

\* What the transport answers; httpx's timeouts bound the wait for it.
Answer ==
    \/ FollowRedirect \/ ContentSettled \/ ContentExhausted \/ Retry
    \/ RobotsParsed \/ RobotsUnavailable \/ RobotsUnreachable

ClientStep == Throttle \/ IssueAtOnce \/ IssueAfterNap \/ EndBackOff

Next ==
    \/ \E u \in Urls : GetUnderFreshPolicy(u) \/ GetReadsRobots(u) \/ DecisionReadsRobots(u)
    \/ Answer \/ ClientStep \/ Tick

Spec == Init /\ [][Next]_vars

\* The thread runs, sleeps end, and every request in flight is answered or
\* times out.  Nothing obliges anyone to call the client.
Fairness == WF_vars(Answer) /\ WF_vars(ClientStep) /\ WF_vars(nap > 0 /\ Tick)

FairSpec == Spec /\ Fairness
-----------------------------------------------------------------------------
TypeOK ==
    /\ policy \in [Origins -> Policy \cup {NoPolicy}]
    /\ policyAge \in [Origins -> 0..Ttl]
    /\ age \in [Hosts -> 0..Longest]
    /\ quiet \in [Hosts -> 0..Longest]
    /\ url \in Urls \cup {NoUrl}
    /\ late \in [Origins -> Nat]
    /\ reading \in BOOLEAN /\ deciding \in BOOLEAN
    /\ deciding => reading
    /\ phase \in {"idle", "throttle", "nap", "flight", "backoff"}
    /\ interval \in 0..Longest
    /\ attempt \in 0..MaxAttempts
    /\ nap \in Nat
    /\ sent \in Urls \cup {NoUrl}
    /\ phase = "idle" <=> url = NoUrl
    /\ phase = "flight" <=> sent # NoUrl

\* "every get() passes through RobotsGate first" (client.py:5-8): while a content
\* request is out, first or repeated, the policy we hold of the URL's origin
\* permits the URL.  An unreadable robots.txt permits nothing.
OnlyPermittedUrlsAreRequested ==
    (phase = "flight" /\ ~reading) =>
        /\ policy[OriginOf[url]] # NoPolicy
        /\ can_fetch(policy[OriginOf[url]], url)

\* This step issues a request to h.
Issues(h) == phase # "flight" /\ phase' = "flight" /\ h = Host(url)

\* "at most one request per second per host is issued, counting robots.txt
\* requests against the same budget" (client.py:10-11), whichever scheme,
\* retry or robots.txt the request is for.
HostsAreLeftAlone ==
    [][\A h \in Hosts : Issues(h) => quiet[h] >= Floor]_vars

\* "A Crawl-delay longer than our own floor is honoured in full and never
\* capped" (client.py:180-182), for the requests robots.txt governs.
CrawlDelayIsHonoured ==
    [][\A h \in Hosts :
        (Issues(h) /\ ~reading) => quiet[h] >= policy[OriginOf[url]].delay]_vars

\* A policy that has expired serves out the one get() that it permitted while it
\* was fresh, that is at most max_attempts requests, and then nothing until
\* robots.txt is read again (robots.py:185-194, client.py:149-150): the requests
\* under it are attempts of the get() under way, so no withdrawn permission is
\* handed from one get() to the next.
ExpiredPoliciesServeOneGet ==
    /\ \A o \in Origins : late[o] <= MaxAttempts
    /\ (phase = "flight" /\ ~reading) => late[OriginOf[url]] <= attempt

\* "an exhausted retry budget raises": every get() ends, and so does
\* every robots_decision().
EveryGetEnds == phase # "idle" ~> phase = "idle"
=============================================================================
