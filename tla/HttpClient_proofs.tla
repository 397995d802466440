-------------------------- MODULE HttpClient_proofs --------------------------
(***************************************************************************)
(* Proofs about HttpClient, for any URLs, origins, tunables, answers and   *)
(* passing of time.  GateInv is inductive: a permission is checked when a  *)
(* content request starts, and it still holds for every retry because      *)
(* nothing but the reading of a robots.txt replaces a policy.              *)
(***************************************************************************)
EXTENDS HttpClient, TLAPS

\* What the gate needs to know of the types.
GateTypes ==
    /\ policy \in [Origins -> Policy \cup {NoPolicy}]
    /\ phase # "idle" => url \in Urls

\* From its start to its end, a content request is permitted.
Permitted ==
    (phase # "idle" /\ ~reading) =>
        /\ policy[OriginOf[url]] # NoPolicy
        /\ can_fetch(policy[OriginOf[url]], url)

GateInv == GateTypes /\ Permitted

LEMMA OriginsOfUrls == ASSUME NEW u \in Urls PROVE OriginOf[u] \in Origins
BY OriginsAndHosts

LEMMA GateInit == Init => GateInv
BY DEF Init, GateInv, GateTypes, Permitted

\* A get() that goes on under a policy does so with its permission.
LEMMA ProceedStep ==
    ASSUME NEW p \in Policy, NEW u \in Urls, Proceed(p, u) \/ Leave,
           policy' \in [Origins -> Policy \cup {NoPolicy}], policy'[OriginOf[u]] = p
    PROVE  GateInv'
<1>1. CASE Leave
  BY <1>1 DEF Leave, GateInv, GateTypes, Permitted
<1>2. CASE can_fetch(p, u) /\ StartRequest(u, FALSE, FALSE, _interval_for(p))
  BY <1>2, NoPolicyIsNotAPolicy DEF StartRequest, GateInv, GateTypes, Permitted
<1> QED
  BY <1>1, <1>2 DEF Proceed

LEMMA LearnStep ==
    ASSUME GateInv, NEW p \in Policy, phase # "idle", Learn(p)
    PROVE  GateInv'
<1>1. url \in Urls /\ OriginOf[url] \in Origins
  BY OriginsOfUrls DEF GateInv, GateTypes
<1>2. /\ policy' \in [Origins -> Policy \cup {NoPolicy}]
      /\ policy'[OriginOf[url]] = p
  BY <1>1 DEF Learn, GateInv, GateTypes
<1> QED
  BY <1>1, <1>2, ProceedStep DEF Learn

\* A step that keeps the policies and either ends the get() or leaves what it is
\* about alone.
LEMMA UndecidedStep ==
    ASSUME GateInv, policy' = policy,
           \/ phase' = "idle"
           \/ phase # "idle" /\ url' = url /\ reading' = reading
    PROVE  GateInv'
BY DEF GateInv, GateTypes, Permitted, can_fetch

LEMMA GateStep == GateInv /\ [Next]_vars => GateInv'
<1> SUFFICES ASSUME GateInv, [Next]_vars PROVE GateInv'
  OBVIOUS
<1>1. ASSUME NEW u \in Urls, GetUnderFreshPolicy(u) PROVE GateInv'
  <2>1. policy[OriginOf[u]] \in Policy
    BY <1>1, OriginsOfUrls DEF GetUnderFreshPolicy, Fresh, GateInv, GateTypes
  <2>2. policy' \in [Origins -> Policy \cup {NoPolicy}]
        /\ policy'[OriginOf[u]] = policy[OriginOf[u]]
    BY <1>1 DEF GetUnderFreshPolicy, GateInv, GateTypes
  <2> QED
    BY <1>1, <2>1, <2>2, ProceedStep DEF GetUnderFreshPolicy
<1>2. ASSUME NEW u \in Urls, GetReadsRobots(u) \/ DecisionReadsRobots(u) PROVE GateInv'
  BY <1>2 DEF GetReadsRobots, DecisionReadsRobots, StartRequest, GateInv, GateTypes, Permitted
<1>3. CASE FollowRedirect
  BY <1>3, UndecidedStep DEF FollowRedirect
<1>4. CASE ContentSettled
  BY <1>4, UndecidedStep DEF ContentSettled, Leave
<1>5. CASE ContentExhausted
  BY <1>5, UndecidedStep DEF ContentExhausted, Leave
<1>6. CASE Retry
  BY <1>6, UndecidedStep DEF Retry
<1>7. CASE RobotsParsed
  <2>1. PICK d \in Delays \cup {0}, ok \in SUBSET {u \in Urls : OriginOf[u] = OriginOf[url]} :
            Learn([status |-> "parsed", allows |-> ok, delay |-> d])
    BY <1>7 DEF RobotsParsed
  <2>2. [status |-> "parsed", allows |-> ok, delay |-> d] \in Policy
    BY DEF Policy
  <2> QED
    BY <1>7, <2>1, <2>2, LearnStep DEF RobotsParsed
<1>8. CASE RobotsUnavailable
  <2>1. [status |-> "unavailable", allows |-> {}, delay |-> 0] \in Policy
    BY DEF Policy
  <2> QED
    BY <1>8, <2>1, LearnStep DEF RobotsUnavailable
<1>9. CASE RobotsUnreachable
  <2>1. [status |-> "unreachable", allows |-> {}, delay |-> 0] \in Policy
    BY DEF Policy
  <2> QED
    BY <1>9, <2>1, LearnStep DEF RobotsUnreachable
<1>10. CASE ClientStep
  BY <1>10, UndecidedStep DEF ClientStep, Throttle, IssueAtOnce, IssueAfterNap, Issue, EndBackOff
<1>11. CASE Tick
  BY <1>11, UndecidedStep DEF Tick, GateInv, GateTypes, Permitted, can_fetch
<1>12. CASE UNCHANGED vars
  BY <1>12 DEF vars, GateInv, GateTypes, Permitted, can_fetch
<1> QED
  BY <1>1, <1>2, <1>3, <1>4, <1>5, <1>6, <1>7, <1>8, <1>9, <1>10, <1>11, <1>12
     DEF Next, Answer

\* Whatever expires, fails or is retried, the content request on the wire is one
\* that the policy held of its origin permits (client.py:5-8).
THEOREM ClientAsksPermission == Spec => []OnlyPermittedUrlsAreRequested
<1>1. GateInv => OnlyPermittedUrlsAreRequested
  BY DEF GateInv, Permitted, OnlyPermittedUrlsAreRequested
<1> QED
  BY <1>1, GateInit, GateStep, PTL DEF Spec

-----------------------------------------------------------------------------
\* The throttle.

LEMMA EarlierOf ==
    ASSUME NEW a \in Nat, NEW b \in Nat
    PROVE  Min({a, b}) = IF a <= b THEN a ELSE b
BY DEF Min

\* A clock that moves on moves one tick, and stops at its limit.
LEMMA ClockMovesOn ==
    ASSUME NEW S, NEW limit \in Nat, NEW clock \in [S -> 0..limit]
    PROVE  /\ Later(clock, limit) \in [S -> 0..limit]
           /\ \A x \in S : \/ Later(clock, limit)[x] = clock[x] + 1
                            \/ Later(clock, limit)[x] = limit
<1>1. \A x \in S : /\ Min({clock[x] + 1, limit}) \in 0..limit
                    /\ \/ Min({clock[x] + 1, limit}) = clock[x] + 1
                       \/ Min({clock[x] + 1, limit}) = limit
  <2> SUFFICES ASSUME NEW x \in S
               PROVE  /\ Min({clock[x] + 1, limit}) \in 0..limit
                      /\ \/ Min({clock[x] + 1, limit}) = clock[x] + 1
                         \/ Min({clock[x] + 1, limit}) = limit
    OBVIOUS
  <2>1. clock[x] + 1 \in Nat
    OBVIOUS
  <2> QED
    BY <2>1, EarlierOf
<1> QED
  BY <1>1 DEF Later

LEMMA DelayOfAPolicy ==
    ASSUME NEW p \in Policy
    PROVE  p.delay \in Nat /\ p.delay <= Longest
<1>1. p.delay \in Delays \cup {0}
  BY DEF Policy
<1>2. CASE p.delay = 0
  BY <1>2, LongestIsLongest
<1>3. CASE p.delay \in Delays
  BY <1>3, Tunables, LongestIsLongest
<1> QED
  BY <1>1, <1>2, <1>3

LEMMA IntervalOfAPolicy ==
    ASSUME NEW p \in Policy
    PROVE  /\ _interval_for(p) \in 0..Longest
           /\ Floor <= _interval_for(p)
           /\ p.delay <= _interval_for(p)
<1>1. p.delay \in Nat /\ p.delay <= Longest
  BY DelayOfAPolicy
<1>2. Floor \in Nat /\ Longest \in Nat /\ Floor <= Longest
  BY Tunables, LongestIsLongest
<1> QED
  BY <1>1, <1>2 DEF _interval_for

\* Both records of a host's last request agree; a request under way waits for
\* long enough, and a sleep lasts for what is missing.
ThrottleTypes ==
    /\ age \in [Hosts -> 0..Longest]
    /\ interval \in 0..Longest
    /\ nap \in Nat

Waits ==
    /\ quiet = age
    /\ phase # "idle" => Floor <= interval
    /\ (phase # "idle" /\ ~reading) => policy[OriginOf[url]].delay <= interval
    /\ phase = "nap" => interval <= age[Host(url)] + nap

ThrottleInv == ThrottleTypes /\ Waits

LEMMA ThrottleInit == Init => ThrottleInv
BY LongestIsLongest DEF Init, ThrottleInv, ThrottleTypes, Waits

LEMMA HostsOfUrls == ASSUME NEW u \in Urls PROVE Host(u) \in Hosts
BY OriginsAndHosts DEF Host

LEMMA ProceedWaits ==
    ASSUME ThrottleInv, NEW p \in Policy, NEW u \in Urls, Proceed(p, u) \/ Leave,
           policy'[OriginOf[u]] = p, age' = age, quiet' = quiet
    PROVE  ThrottleInv'
<1>1. CASE Leave
  BY <1>1, LongestIsLongest DEF Leave, ThrottleInv, ThrottleTypes, Waits
<1>2. CASE StartRequest(u, FALSE, FALSE, _interval_for(p))
  BY <1>2, IntervalOfAPolicy DEF StartRequest, ThrottleInv, ThrottleTypes, Waits
<1> QED
  BY <1>1, <1>2 DEF Proceed

LEMMA LearnWaits ==
    ASSUME GateInv, ThrottleInv, NEW p \in Policy, phase # "idle", Learn(p)
    PROVE  ThrottleInv'
<1>1. url \in Urls /\ OriginOf[url] \in Origins
  BY OriginsOfUrls DEF GateInv, GateTypes
<1>2. policy'[OriginOf[url]] = p
  BY <1>1 DEF Learn, GateInv, GateTypes
<1> QED
  BY <1>1, <1>2, ProceedWaits DEF Learn

LEMMA ThrottleStep == GateInv /\ ThrottleInv /\ [Next]_vars => ThrottleInv'
<1> SUFFICES ASSUME GateInv, ThrottleInv, [Next]_vars PROVE ThrottleInv'
  OBVIOUS
<1>1. ASSUME NEW u \in Urls, GetUnderFreshPolicy(u) PROVE ThrottleInv'
  <2>1. policy[OriginOf[u]] \in Policy
    BY <1>1, OriginsOfUrls DEF GetUnderFreshPolicy, Fresh, GateInv, GateTypes
  <2>2. policy' = policy /\ age' = age /\ quiet' = quiet
    BY <1>1 DEF GetUnderFreshPolicy, counters
  <2> QED
    BY <1>1, <2>1, <2>2, ProceedWaits DEF GetUnderFreshPolicy
<1>2. ASSUME NEW u \in Urls, GetReadsRobots(u) \/ DecisionReadsRobots(u) PROVE ThrottleInv'
  <2>1. Floor \in 0..Longest
    BY Tunables, LongestIsLongest
  <2> QED
    BY <1>2, <2>1
       DEF GetReadsRobots, DecisionReadsRobots, StartRequest, counters, ThrottleInv,
           ThrottleTypes, Waits
<1>3. CASE FollowRedirect
  BY <1>3 DEF FollowRedirect, counters, ThrottleInv, ThrottleTypes, Waits
<1>4. CASE ContentSettled \/ ContentExhausted
  BY <1>4, LongestIsLongest
     DEF ContentSettled, ContentExhausted, Leave, counters, ThrottleInv, ThrottleTypes, Waits
<1>5. CASE Retry
  <2>1. nap' \in Nat
    BY <1>5, Tunables DEF Retry
  <2> QED
    BY <1>5, <2>1 DEF Retry, counters, ThrottleInv, ThrottleTypes, Waits
<1>6. CASE RobotsParsed
  <2>1. PICK d \in Delays \cup {0}, ok \in SUBSET {u \in Urls : OriginOf[u] = OriginOf[url]} :
            Learn([status |-> "parsed", allows |-> ok, delay |-> d])
    BY <1>6 DEF RobotsParsed
  <2>2. [status |-> "parsed", allows |-> ok, delay |-> d] \in Policy
    BY DEF Policy
  <2> QED
    BY <1>6, <2>1, <2>2, LearnWaits DEF RobotsParsed
<1>7. CASE RobotsUnavailable
  <2>1. [status |-> "unavailable", allows |-> {}, delay |-> 0] \in Policy
    BY DEF Policy
  <2> QED
    BY <1>7, <2>1, LearnWaits DEF RobotsUnavailable
<1>8. CASE RobotsUnreachable
  <2>1. [status |-> "unreachable", allows |-> {}, delay |-> 0] \in Policy
    BY DEF Policy
  <2> QED
    BY <1>8, <2>1, LearnWaits DEF RobotsUnreachable
<1>9. CASE Throttle
  <2>1. age[Host(url)] \in 0..Longest
    BY <1>9, HostsOfUrls DEF Throttle, GateInv, GateTypes, ThrottleInv, ThrottleTypes
  <2>2. nap' \in Nat /\ interval <= age[Host(url)] + nap'
    BY <1>9, <2>1 DEF Throttle, ThrottleInv, ThrottleTypes
  <2> QED
    BY <1>9, <2>2 DEF Throttle, counters, Host, ThrottleInv, ThrottleTypes, Waits
<1>10. CASE IssueAtOnce \/ IssueAfterNap
  <2>1. 0 \in 0..Longest
    BY LongestIsLongest
  <2> QED
    BY <1>10, <2>1 DEF IssueAtOnce, IssueAfterNap, Issue, ThrottleInv, ThrottleTypes, Waits
<1>11. CASE EndBackOff
  BY <1>11 DEF EndBackOff, counters, ThrottleInv, ThrottleTypes, Waits
<1>12. CASE Tick
  <2>1. /\ age' \in [Hosts -> 0..Longest]
        /\ \A h \in Hosts : age'[h] = age[h] + 1 \/ age'[h] = Longest
    <3>1. age' = Later(age, Longest)
      BY <1>12 DEF Tick
    <3>2. age \in [Hosts -> 0..Longest] /\ Longest \in Nat
      BY LongestIsLongest DEF ThrottleInv, ThrottleTypes
    <3> QED
      BY <3>1, <3>2, ClockMovesOn
  <2>2. quiet' = age'
    BY <1>12 DEF Tick, ThrottleInv, Waits
  <2>3. /\ nap' \in Nat
        /\ nap' = nap \/ nap' = nap - 1
    BY <1>12 DEF Tick, ThrottleInv, ThrottleTypes
  <2>4. ASSUME phase = "nap" PROVE interval <= age'[Host(url)] + nap'
    <3>1. Host(url) \in Hosts
      BY <2>4, HostsOfUrls DEF GateInv, GateTypes
    <3>2. /\ age[Host(url)] \in Nat /\ interval \in 0..Longest /\ nap \in Nat
          /\ interval <= age[Host(url)] + nap
      BY <2>4, <3>1 DEF ThrottleInv, ThrottleTypes, Waits
    <3> QED
      BY <2>1, <2>3, <3>1, <3>2, LongestIsLongest
  <2> QED
    BY <1>12, <2>1, <2>2, <2>3, <2>4 DEF Tick, Host, ThrottleInv, ThrottleTypes, Waits
<1>13. CASE UNCHANGED vars
  BY <1>13 DEF vars, Host, ThrottleInv, ThrottleTypes, Waits
<1> QED
  BY <1>1, <1>2, <1>3, <1>4, <1>5, <1>6, <1>7, <1>8, <1>9, <1>10, <1>11, <1>12, <1>13
     DEF Next, Answer, ClientStep

\* A step that issues a request leaves the throttle, with nothing left to wait for.
LEMMA IssuesWhenQuiet ==
    ASSUME GateInv, ThrottleInv, [Next]_vars, NEW h \in Hosts, Issues(h)
    PROVE  phase # "idle" /\ interval <= quiet[h]
<1>1. IssueAtOnce \/ IssueAfterNap
  <2>1. ~\E u \in Urls : GetUnderFreshPolicy(u) \/ GetReadsRobots(u) \/ DecisionReadsRobots(u)
    BY DEF Issues, GetUnderFreshPolicy, GetReadsRobots, DecisionReadsRobots, Proceed,
           StartRequest, Leave
  <2>2. ~Answer
    BY DEF Issues, Answer, FollowRedirect, ContentSettled, ContentExhausted, Retry,
           RobotsParsed, RobotsUnavailable, RobotsUnreachable
  <2>3. ~Throttle /\ ~EndBackOff /\ ~Tick /\ ~UNCHANGED vars
    BY DEF Issues, Throttle, EndBackOff, Tick, vars
  <2> QED
    BY <2>1, <2>2, <2>3 DEF Next, ClientStep
<1>2. h = Host(url) /\ quiet = age /\ age[h] \in Nat
  BY DEF Issues, ThrottleInv, ThrottleTypes, Waits
<1>3. CASE IssueAtOnce
  BY <1>2, <1>3 DEF IssueAtOnce, ThrottleInv, ThrottleTypes
<1>4. CASE IssueAfterNap
  BY <1>2, <1>4 DEF IssueAfterNap, ThrottleInv, ThrottleTypes, Waits
<1> QED
  BY <1>1, <1>3, <1>4

LEMMA ClientInv == Spec => [](GateInv /\ ThrottleInv)
BY GateInit, GateStep, ThrottleInit, ThrottleStep, PTL DEF Spec

\* No two requests this client issues to a host are closer than the floor,
\* whichever origin, retry or robots.txt they are for (client.py:10-11).
THEOREM ClientLeavesHostsAlone == Spec => HostsAreLeftAlone
<1>1. GateInv /\ ThrottleInv /\ [Next]_vars =>
        \A h \in Hosts : Issues(h) => quiet[h] >= Floor
  <2> SUFFICES ASSUME GateInv, ThrottleInv, [Next]_vars, NEW h \in Hosts, Issues(h)
               PROVE  quiet[h] >= Floor
    OBVIOUS
  <2>1. phase # "idle" /\ interval <= quiet[h]
    BY IssuesWhenQuiet
  <2>2. /\ Floor <= interval /\ interval \in Nat /\ Floor \in Nat /\ quiet[h] \in Nat
    BY <2>1, Tunables DEF ThrottleInv, ThrottleTypes, Waits
  <2> QED
    BY <2>1, <2>2
<1> QED
  BY <1>1, ClientInv, PTL DEF Spec, HostsAreLeftAlone

\* A Crawl-delay is waited for in full (client.py:180-182).
THEOREM ClientHonoursCrawlDelay == Spec => CrawlDelayIsHonoured
<1>1. GateInv /\ ThrottleInv /\ [Next]_vars =>
        \A h \in Hosts : (Issues(h) /\ ~reading) => quiet[h] >= policy[OriginOf[url]].delay
  <2> SUFFICES ASSUME GateInv, ThrottleInv, [Next]_vars, NEW h \in Hosts, Issues(h), ~reading
               PROVE  quiet[h] >= policy[OriginOf[url]].delay
    OBVIOUS
  <2>1. phase # "idle" /\ interval <= quiet[h]
    BY IssuesWhenQuiet
  <2>2. policy[OriginOf[url]].delay <= interval /\ interval \in Nat /\ quiet[h] \in Nat
    BY <2>1 DEF ThrottleInv, ThrottleTypes, Waits
  <2>3. policy[OriginOf[url]] \in Policy
    BY <2>1, OriginsOfUrls DEF GateInv, GateTypes, Permitted
  <2>4. policy[OriginOf[url]].delay \in Nat
    BY <2>3, DelayOfAPolicy
  <2> QED
    BY <2>1, <2>2, <2>4
<1> QED
  BY <1>1, ClientInv, PTL DEF Spec, CrawlDelayIsHonoured
-----------------------------------------------------------------------------
\* Types.  They are inductive as they stand: a request is about a URL from its
\* start, and only a request in flight has a URL on the wire.

LEMMA TypesOfTheStart == Init => TypeOK
<1> SUFFICES ASSUME Init PROVE TypeOK
  OBVIOUS
<1>1. /\ 0 \in 0..Longest /\ 0 \in 0..MaxAttempts /\ 0 \in Nat
      /\ Longest \in 0..Longest /\ Ttl \in 0..Ttl
  BY LongestIsLongest, Tunables
<1>2. /\ policy \in [Origins -> Policy \cup {NoPolicy}]
      /\ policyAge \in [Origins -> 0..Ttl]
      /\ age \in [Hosts -> 0..Longest]
      /\ quiet \in [Hosts -> 0..Longest]
  BY <1>1 DEF Init
<1> QED
  BY <1>1, <1>2 DEF Init, TypeOK

LEMMA LeaveTypes ==
    ASSUME TypeOK, Leave, UNCHANGED <<age, quiet>>, late' \in [Origins -> Nat],
           policy' \in [Origins -> Policy \cup {NoPolicy}], policyAge' \in [Origins -> 0..Ttl]
    PROVE  TypeOK'
<1>1. 0 \in 0..Longest /\ 0 \in 0..MaxAttempts /\ 0 \in Nat
  BY LongestIsLongest, Tunables
<1>2. /\ url' = NoUrl /\ reading' = FALSE /\ deciding' = FALSE
      /\ phase' = "idle" /\ interval' = 0
      /\ attempt' = 0 /\ nap' = 0 /\ sent' = NoUrl
  BY DEF Leave
<1>3. age' \in [Hosts -> 0..Longest] /\ quiet' \in [Hosts -> 0..Longest]
  BY DEF TypeOK
<1> QED
  BY <1>1, <1>2, <1>3 DEF TypeOK

LEMMA StartTypes ==
    ASSUME TypeOK, NEW u \in Urls, NEW robots \in BOOLEAN, NEW decision \in BOOLEAN,
           decision => robots, NEW gap \in 0..Longest, StartRequest(u, robots, decision, gap),
           UNCHANGED <<age, quiet>>, late' \in [Origins -> Nat],
           policy' \in [Origins -> Policy \cup {NoPolicy}], policyAge' \in [Origins -> 0..Ttl]
    PROVE  TypeOK'
BY Tunables, NotAUrl DEF StartRequest, TypeOK

LEMMA ProceedTypes ==
    ASSUME TypeOK, NEW p \in Policy, NEW u \in Urls, Proceed(p, u) \/ Leave,
           UNCHANGED <<age, quiet>>, late' \in [Origins -> Nat],
           policy' \in [Origins -> Policy \cup {NoPolicy}], policyAge' \in [Origins -> 0..Ttl]
    PROVE  TypeOK'
<1>1. CASE Leave
  BY <1>1, LeaveTypes
<1>2. CASE StartRequest(u, FALSE, FALSE, _interval_for(p))
  BY <1>2, IntervalOfAPolicy, StartTypes
<1> QED
  BY <1>1, <1>2 DEF Proceed

LEMMA LearnTypes ==
    ASSUME TypeOK, NEW p \in Policy, phase # "idle", Learn(p)
    PROVE  TypeOK'
<1>1. url \in Urls
  BY DEF TypeOK
<1>2. /\ policy' \in [Origins -> Policy \cup {NoPolicy}]
      /\ policyAge' \in [Origins -> 0..Ttl]
      /\ late' \in [Origins -> Nat]
  <2>1. 0 \in 0..Ttl
    BY Tunables
  <2>2. /\ policy' = [policy EXCEPT ![OriginOf[url]] = p]
        /\ policyAge' = [policyAge EXCEPT ![OriginOf[url]] = 0]
        /\ late' = [late EXCEPT ![OriginOf[url]] = 0]
        /\ late \in [Origins -> Nat]
        /\ policy \in [Origins -> Policy \cup {NoPolicy}]
        /\ policyAge \in [Origins -> 0..Ttl]
    BY DEF Learn, TypeOK
  <2> QED
    BY <2>1, <2>2
<1> QED
  BY <1>1, <1>2, ProceedTypes DEF Learn

LEMMA TypeStep == TypeOK /\ [Next]_vars => TypeOK'
<1> SUFFICES ASSUME TypeOK, [Next]_vars PROVE TypeOK'
  OBVIOUS
<1>0. /\ policy \in [Origins -> Policy \cup {NoPolicy}]
      /\ policyAge \in [Origins -> 0..Ttl]
      /\ late \in [Origins -> Nat]
  BY DEF TypeOK
<1>1. ASSUME NEW u \in Urls, GetUnderFreshPolicy(u) PROVE TypeOK'
  <2>1. policy[OriginOf[u]] \in Policy
    BY <1>1, OriginsOfUrls DEF GetUnderFreshPolicy, Fresh, TypeOK
  <2> QED
    BY <1>0, <1>1, <2>1, ProceedTypes DEF GetUnderFreshPolicy, counters
<1>2. ASSUME NEW u \in Urls, GetReadsRobots(u) \/ DecisionReadsRobots(u) PROVE TypeOK'
  <2>1. Floor \in 0..Longest
    BY Tunables, LongestIsLongest
  <2> QED
    BY <1>0, <1>2, <2>1, StartTypes DEF GetReadsRobots, DecisionReadsRobots, counters
<1>3. CASE FollowRedirect
  BY <1>3, Redirects, NotAUrl DEF FollowRedirect, counters, TypeOK
<1>4. CASE ContentSettled \/ ContentExhausted
  BY <1>0, <1>4, LeaveTypes DEF ContentSettled, ContentExhausted, counters
<1>5. CASE Retry
  <2>1. nap' \in Nat /\ attempt' \in 0..MaxAttempts
    BY <1>5, Tunables DEF Retry, TypeOK
  <2> QED
    BY <1>5, <2>1 DEF Retry, counters, TypeOK
<1>6. CASE RobotsParsed
  <2>1. PICK d \in Delays \cup {0}, ok \in SUBSET {u \in Urls : OriginOf[u] = OriginOf[url]} :
            Learn([status |-> "parsed", allows |-> ok, delay |-> d])
    BY <1>6 DEF RobotsParsed
  <2>2. [status |-> "parsed", allows |-> ok, delay |-> d] \in Policy
    BY DEF Policy
  <2> QED
    BY <1>6, <2>1, <2>2, LearnTypes DEF RobotsParsed
<1>7. CASE RobotsUnavailable
  <2>1. [status |-> "unavailable", allows |-> {}, delay |-> 0] \in Policy
    BY DEF Policy
  <2> QED
    BY <1>7, <2>1, LearnTypes DEF RobotsUnavailable
<1>8. CASE RobotsUnreachable
  <2>1. [status |-> "unreachable", allows |-> {}, delay |-> 0] \in Policy
    BY DEF Policy
  <2> QED
    BY <1>8, <2>1, LearnTypes DEF RobotsUnreachable
<1>9. CASE Throttle
  <2>1. age[Host(url)] \in 0..Longest
    BY <1>9, HostsOfUrls DEF Throttle, TypeOK
  <2>2. nap' \in Nat
    BY <1>9, <2>1 DEF Throttle, TypeOK
  <2> QED
    BY <1>9, <2>2 DEF Throttle, counters, TypeOK
<1>10. CASE IssueAtOnce \/ IssueAfterNap
  <2>1. 0 \in 0..Longest /\ url # NoUrl
    BY <1>10, LongestIsLongest DEF IssueAtOnce, IssueAfterNap, TypeOK
  <2>2. late' \in [Origins -> Nat]
    BY <1>0, <1>10 DEF IssueAtOnce, IssueAfterNap, Issue, CountIfLate
  <2> QED
    BY <1>10, <2>1, <2>2 DEF IssueAtOnce, IssueAfterNap, Issue, TypeOK
<1>11. CASE EndBackOff
  BY <1>11 DEF EndBackOff, counters, TypeOK
<1>12. CASE Tick
  <2>1. age' \in [Hosts -> 0..Longest] /\ quiet' \in [Hosts -> 0..Longest]
    <3>1. age' = Later(age, Longest) /\ quiet' = Later(quiet, Longest)
      BY <1>12 DEF Tick
    <3>2. age \in [Hosts -> 0..Longest] /\ quiet \in [Hosts -> 0..Longest] /\ Longest \in Nat
      BY LongestIsLongest DEF TypeOK
    <3> QED
      BY <3>1, <3>2, ClockMovesOn
  <2>2. policyAge' \in [Origins -> 0..Ttl]
    <3>1. policyAge' = Later(policyAge, Ttl) /\ Ttl \in Nat
      BY <1>12, Tunables DEF Tick
    <3> QED
      BY <1>0, <3>1, ClockMovesOn
  <2>3. nap' \in Nat
    BY <1>12 DEF Tick, TypeOK
  <2> QED
    BY <1>12, <2>1, <2>2, <2>3 DEF Tick, TypeOK
<1>13. CASE UNCHANGED vars
  BY <1>13 DEF vars, TypeOK
<1> QED
  BY <1>1, <1>2, <1>3, <1>4, <1>5, <1>6, <1>7, <1>8, <1>9, <1>10, <1>11, <1>12, <1>13
     DEF Next, Answer, ClientStep

\* The client keeps its types, and is about a URL exactly while a get() runs
\* (client.py:142-150).
THEOREM ClientTypeOK == Spec => []TypeOK
BY TypesOfTheStart, TypeStep, PTL DEF Spec
-----------------------------------------------------------------------------
\* What an expired policy still serves.

\* A fresh policy has served no late request.  The get() under way is the only one
\* that has issued any under its policy, and no more than it has made attempts.
LateInv ==
    /\ \A o \in Origins : late[o] <= MaxAttempts /\ (policyAge[o] < Ttl => late[o] = 0)
    /\ (phase \in {"throttle", "nap", "backoff"} /\ ~reading) => late[OriginOf[url]] < attempt
    /\ (phase = "flight" /\ ~reading) => late[OriginOf[url]] <= attempt

LEMMA LateInit == Init => LateInv
BY Tunables DEF Init, LateInv

\* A get() goes on under a policy that has served no late request.
LEMMA ProceedLate ==
    ASSUME LateInv, NEW p, NEW u \in Urls, Proceed(p, u) \/ Leave, late'[OriginOf[u]] = 0,
           \A o \in Origins : \/ late'[o] = 0
                              \/ late'[o] = late[o] /\ policyAge'[o] = policyAge[o]
    PROVE  LateInv'
<1>1. \A o \in Origins : late'[o] <= MaxAttempts /\ (policyAge'[o] < Ttl => late'[o] = 0)
  BY Tunables DEF LateInv
<1>2. CASE Leave
  BY <1>1, <1>2 DEF Leave, LateInv
<1>3. CASE StartRequest(u, FALSE, FALSE, _interval_for(p))
  BY <1>1, <1>3 DEF StartRequest, LateInv
<1> QED
  BY <1>2, <1>3 DEF Proceed

LEMMA LearnLate ==
    ASSUME TypeOK, LateInv, NEW p, phase # "idle", Learn(p)
    PROVE  LateInv'
<1>1. url \in Urls /\ OriginOf[url] \in Origins
  BY OriginsOfUrls DEF TypeOK
<1>2. /\ late' = [late EXCEPT ![OriginOf[url]] = 0] /\ late \in [Origins -> Nat]
      /\ policyAge' = [policyAge EXCEPT ![OriginOf[url]] = 0]
      /\ policyAge \in [Origins -> 0..Ttl]
      /\ Proceed(p, url) \/ Leave
  BY DEF Learn, TypeOK
<1>3. /\ late'[OriginOf[url]] = 0
      /\ \A o \in Origins : \/ late'[o] = 0
                            \/ late'[o] = late[o] /\ policyAge'[o] = policyAge[o]
  BY <1>1, <1>2
<1> QED
  BY <1>1, <1>2, <1>3, ProceedLate

LEMMA LateStep == TypeOK /\ LateInv /\ [Next]_vars => LateInv'
<1> SUFFICES ASSUME TypeOK, LateInv, [Next]_vars PROVE LateInv'
  OBVIOUS
<1>0. /\ policyAge \in [Origins -> 0..Ttl] /\ late \in [Origins -> Nat]
      /\ attempt \in 0..MaxAttempts /\ MaxAttempts \in Nat /\ Ttl \in Nat
      /\ phase # "idle" => url \in Urls /\ OriginOf[url] \in Origins
  BY Tunables, OriginsOfUrls DEF TypeOK
<1>1. ASSUME NEW u \in Urls, GetUnderFreshPolicy(u) PROVE LateInv'
  <2>1. OriginOf[u] \in Origins /\ late[OriginOf[u]] = 0
    BY <1>1, OriginsOfUrls DEF GetUnderFreshPolicy, Fresh, LateInv
  <2>2. late' = late /\ policyAge' = policyAge /\ Proceed(policy[OriginOf[u]], u)
    BY <1>1 DEF GetUnderFreshPolicy, counters
  <2> QED
    BY <2>1, <2>2, ProceedLate
<1>2. ASSUME NEW u \in Urls, GetReadsRobots(u) \/ DecisionReadsRobots(u) PROVE LateInv'
  BY <1>2 DEF GetReadsRobots, DecisionReadsRobots, StartRequest, counters, LateInv
<1>3. CASE FollowRedirect
  BY <1>3 DEF FollowRedirect, counters, LateInv
<1>4. CASE ContentSettled \/ ContentExhausted
  BY <1>4 DEF ContentSettled, ContentExhausted, Leave, counters, LateInv
<1>5. CASE Retry
  BY <1>0, <1>5 DEF Retry, counters, LateInv
<1>6. CASE RobotsParsed \/ RobotsUnavailable \/ RobotsUnreachable
  BY <1>6, LearnLate DEF RobotsParsed, RobotsUnavailable, RobotsUnreachable
<1>7. CASE Throttle \/ EndBackOff
  BY <1>7 DEF Throttle, EndBackOff, counters, LateInv
<1>8. CASE IssueAtOnce \/ IssueAfterNap
  <2>1. /\ phase \in {"throttle", "nap"} /\ phase' = "flight" /\ Issue
        /\ UNCHANGED <<policyAge, url, reading, attempt>>
    BY <1>8 DEF IssueAtOnce, IssueAfterNap, Issue
  <2>2. CASE ~reading /\ policyAge[OriginOf[url]] = Ttl
    <3>1. late' = [late EXCEPT ![OriginOf[url]] = @ + 1]
      BY <2>1, <2>2 DEF Issue, CountIfLate
    <3>2. late[OriginOf[url]] < attempt
      BY <2>1, <2>2 DEF LateInv
    <3>3. late'[OriginOf[url]] = late[OriginOf[url]] + 1
      BY <1>0, <2>1, <3>1
    <3>4. \A o \in Origins : late'[o] <= MaxAttempts /\ (policyAge'[o] < Ttl => late'[o] = 0)
      BY <1>0, <2>1, <2>2, <3>1, <3>2 DEF LateInv
    <3> QED
      BY <1>0, <2>1, <3>2, <3>3, <3>4 DEF LateInv
  <2>3. CASE ~(~reading /\ policyAge[OriginOf[url]] = Ttl)
    <3>1. late' = late
      BY <2>1, <2>3 DEF Issue, CountIfLate
    <3> QED
      BY <1>0, <2>1, <3>1 DEF LateInv
  <2> QED
    BY <2>2, <2>3
<1>9. CASE Tick
  <2>1. \A o \in Origins : policyAge'[o] < Ttl => policyAge[o] < Ttl
    <3>1. policyAge' = Later(policyAge, Ttl)
      BY <1>9 DEF Tick
    <3>2. \A o \in Origins : policyAge'[o] = policyAge[o] + 1 \/ policyAge'[o] = Ttl
      BY <1>0, <3>1, ClockMovesOn
    <3> QED
      BY <1>0, <3>2
  <2> QED
    BY <1>9, <2>1 DEF Tick, LateInv
<1>10. CASE UNCHANGED vars
  BY <1>10 DEF vars, LateInv
<1> QED
  BY <1>1, <1>2, <1>3, <1>4, <1>5, <1>6, <1>7, <1>8, <1>9, <1>10 DEF Next, Answer, ClientStep

\* An expired policy serves out the one get() it permitted, max_attempts requests
\* at most, and the next one waits for robots.txt (robots.py:185-194).
THEOREM ExpiryEndsWithTheGet == Spec => []ExpiredPoliciesServeOneGet
<1>1. LateInv => ExpiredPoliciesServeOneGet
  BY DEF LateInv, ExpiredPoliciesServeOneGet
<1> QED
  BY <1>1, TypesOfTheStart, TypeStep, LateInit, LateStep, PTL DEF Spec
=============================================================================
