--------------------------- MODULE RawCache_proofs ---------------------------
(***************************************************************************)
(* Proofs about RawCache.  For any number of processes: a record never     *)
(* names a blob that is not on disk, because a process that is about to    *)
(* write a record has its blob there already, and a record nobody is       *)
(* racing is permanent, because store() looks the URL up first.  For a     *)
(* single process: a record never changes, because from the miss to the    *)
(* write nobody else can have made one.                                    *)
(***************************************************************************)
EXTENDS RawCache, TLAPS

\* A blob is absent, or has the bytes it is named after unless the disk damaged
\* them; a process about to write a record has its blob in place.
BlobBeforeRecord ==
    /\ \A b \in Bodies : blobs[b] \in {b, Absent, Rotten}
    /\ \A f \in Fetchers : pc[f] = "meta" => blobs[body[f]] # Absent

RecordsHaveBlobs == \A u \in Urls : meta[u] # Absent => blobs[meta[u]] # Absent

ResultsHaveBlobs == \A f \in Fetchers : result[f] # Absent => blobs[result[f].body] # Absent

CacheInv == TypeOK /\ BlobBeforeRecord /\ RecordsHaveBlobs /\ ResultsHaveBlobs

LEMMA CacheInvInit == Init => CacheInv
BY DEF Init, CacheInv, TypeOK, BlobBeforeRecord, RecordsHaveBlobs, ResultsHaveBlobs

LEMMA CacheInvMeaning == CacheInv => EveryRecordReadsBack /\ ResultsAreOnDisk
BY NotABody DEF CacheInv, TypeOK, BlobBeforeRecord, RecordsHaveBlobs, ResultsHaveBlobs,
                EveryRecordReadsBack, ResultsAreOnDisk, verify, FetchResult

LEMMA TypeStep == TypeOK /\ [Next]_vars => TypeOK'
<1> SUFFICES ASSUME TypeOK, [Next]_vars PROVE TypeOK'
  OBVIOUS
<1> USE NotABody DEF TypeOK
<1>1. CASE UNCHANGED vars
  BY <1>1 DEF vars
<1>2. ASSUME NEW f \in Fetchers, Leave(f)
      PROVE  /\ pc' \in [Fetchers -> {"idle", "get", "store", "blob", "meta"}]
             /\ url' \in [Fetchers -> Urls \cup {Absent}]
             /\ body' \in [Fetchers -> Bodies \cup {Absent}]
             /\ \A g \in Fetchers : pc'[g] # "idle" => url'[g] \in Urls
             /\ \A g \in Fetchers : pc'[g] \in {"store", "blob", "meta"} => body'[g] \in Bodies
  BY <1>2 DEF Leave
<1>3. ASSUME NEW f \in Fetchers, NEW u \in Urls, NEW b \in Bodies, NEW hit \in BOOLEAN,
             Return(f, u, b, hit)
      PROVE  result' \in [Fetchers -> FetchResult \cup {Absent}]
  <2>1. [url |-> u, body |-> b, from_cache |-> hit] \in FetchResult
    BY DEF FetchResult
  <2> QED
    BY <1>3, <2>1 DEF Return
<1>4. ASSUME NEW f \in Fetchers, NEW r \in RawUrls, Hit(f, r) PROVE TypeOK'
  <2>1. normalise_url(r) \in Urls /\ lookup(normalise_url(r)) \in Bodies
    BY <1>4, CanonNormalises DEF Hit, normalise_url, lookup
  <2>2. result' \in [Fetchers -> FetchResult \cup {Absent}]
    BY <1>3, <1>4, <2>1 DEF Hit
  <2> QED
    BY <1>4, <2>2 DEF Hit
<1>5. ASSUME NEW f \in Fetchers, NEW r \in RawUrls, Miss(f, r) PROVE TypeOK'
  <2>1. normalise_url(r) \in Urls
    BY CanonNormalises DEF normalise_url
  <2> QED
    BY <1>5, <2>1 DEF Miss
<1>6. ASSUME NEW f \in Fetchers, Answer(f) PROVE TypeOK'
  <2>1. Serves[url[f]] \subseteq Bodies
    BY <1>6, SourceServes DEF Answer
  <2> QED
    BY <1>6, <2>1 DEF Answer
<1>7. ASSUME NEW f \in Fetchers, AlreadyStored(f) PROVE TypeOK'
  <2>1. result' \in [Fetchers -> FetchResult \cup {Absent}]
    BY <1>3, <1>7 DEF AlreadyStored
  <2> QED
    BY <1>2, <1>7, <2>1 DEF AlreadyStored
<1>8. ASSUME NEW f \in Fetchers, Conflict(f) \/ Fail(f) PROVE TypeOK'
  BY <1>2, <1>8 DEF Conflict, Fail
<1>9. ASSUME NEW f \in Fetchers, NotStored(f) PROVE TypeOK'
  BY <1>9 DEF NotStored
<1>10. ASSUME NEW f \in Fetchers, WriteBlob(f) PROVE TypeOK'
  BY <1>10 DEF WriteBlob
<1>11. ASSUME NEW f \in Fetchers, WriteMeta(f) PROVE TypeOK'
  <2>1. result' \in [Fetchers -> FetchResult \cup {Absent}]
    BY <1>3, <1>11 DEF WriteMeta
  <2> QED
    BY <1>2, <1>11, <2>1 DEF WriteMeta
<1>12. ASSUME NEW b \in Bodies, Rot(b) PROVE TypeOK'
  BY <1>12 DEF Rot
<1> QED
  BY <1>1, <1>4, <1>5, <1>6, <1>7, <1>8, <1>9, <1>10, <1>11, <1>12 DEF Next

\* Blobs never disappear.
LEMMA BlobsStay ==
    TypeOK /\ [Next]_vars => \A b \in Bodies : blobs[b] # Absent => blobs'[b] # Absent
<1> SUFFICES ASSUME TypeOK, [Next]_vars, NEW b \in Bodies, blobs[b] # Absent
             PROVE  blobs'[b] # Absent
  OBVIOUS
<1> USE NotABody DEF TypeOK
<1>1. ASSUME NEW f \in Fetchers, WriteBlob(f) PROVE blobs'[b] # Absent
  BY <1>1 DEF WriteBlob
<1>2. ASSUME NEW c \in Bodies, Rot(c) PROVE blobs'[b] # Absent
  BY <1>2 DEF Rot
<1>3. CASE UNCHANGED blobs
  BY <1>3
<1> QED
  BY <1>1, <1>2, <1>3 DEF Next, vars, Hit, Miss, Answer, AlreadyStored, Conflict, NotStored,
                          WriteMeta, Fail

LEMMA BlobBeforeRecordNext == CacheInv /\ [Next]_vars => BlobBeforeRecord'
<1> SUFFICES ASSUME CacheInv, [Next]_vars PROVE BlobBeforeRecord'
  OBVIOUS
<1> USE NotABody DEF CacheInv, BlobBeforeRecord
<1>1. TypeOK /\ TypeOK' /\ \A b \in Bodies : blobs[b] # Absent => blobs'[b] # Absent
  BY TypeStep, BlobsStay
<1>2. \A b \in Bodies : blobs'[b] \in {b, Absent, Rotten}
  <2>1. ASSUME NEW f \in Fetchers, WriteBlob(f) PROVE \A c \in Bodies : blobs'[c] \in {c, Absent, Rotten}
    BY <1>1, <2>1 DEF WriteBlob, TypeOK
  <2>2. ASSUME NEW b \in Bodies, Rot(b) PROVE \A c \in Bodies : blobs'[c] \in {c, Absent, Rotten}
    BY <1>1, <2>2 DEF Rot, TypeOK
  <2>3. CASE UNCHANGED blobs
    BY <2>3
  <2> QED
    BY <2>1, <2>2, <2>3 DEF Next, vars, Hit, Miss, Answer, AlreadyStored, Conflict,
                            NotStored, WriteMeta, Fail
<1>3. ASSUME NEW f \in Fetchers, pc'[f] = "meta" PROVE blobs'[body'[f]] # Absent
  <2>1. CASE pc[f] = "meta" /\ body'[f] = body[f]
    BY <1>1, <2>1 DEF TypeOK
  <2>2. CASE WriteBlob(f)
    BY <1>1, <2>2 DEF WriteBlob, TypeOK
  <2>3. ASSUME ~WriteBlob(f) PROVE pc[f] = "meta" /\ body'[f] = body[f]
    <3> USE <1>1, <1>3 DEF TypeOK
    <3>1. ASSUME NEW g \in Fetchers, NEW r \in RawUrls, Hit(g, r) \/ Miss(g, r)
          PROVE  pc[f] = "meta" /\ body'[f] = body[f]
      BY <3>1 DEF Hit, Miss
    <3>2. ASSUME NEW g \in Fetchers, Answer(g) \/ NotStored(g) \/ WriteBlob(g)
          PROVE  pc[f] = "meta" /\ body'[f] = body[f]
      BY <2>3, <3>2 DEF Answer, NotStored, WriteBlob
    <3>3. ASSUME NEW g \in Fetchers, AlreadyStored(g) \/ Conflict(g) \/ WriteMeta(g) \/ Fail(g)
          PROVE  pc[f] = "meta" /\ body'[f] = body[f]
      BY <3>3 DEF AlreadyStored, Conflict, WriteMeta, Fail, Leave
    <3>4. CASE UNCHANGED <<pc, body>>
      BY <3>4
    <3> QED
      BY <3>1, <3>2, <3>3, <3>4 DEF Next, Rot, vars
  <2> QED
    BY <2>1, <2>2, <2>3
<1> QED
  BY <1>2, <1>3

LEMMA RecordsHaveBlobsNext == CacheInv /\ [Next]_vars => RecordsHaveBlobs'
<1> SUFFICES ASSUME CacheInv, [Next]_vars, NEW u \in Urls, meta'[u] # Absent
             PROVE  blobs'[meta'[u]] # Absent
  BY DEF RecordsHaveBlobs
<1>1. TypeOK /\ TypeOK' /\ \A b \in Bodies : blobs[b] # Absent => blobs'[b] # Absent
  BY TypeStep, BlobsStay DEF CacheInv
<1>2. CASE meta'[u] = meta[u]
  BY <1>1, <1>2 DEF CacheInv, RecordsHaveBlobs, TypeOK
<1>3. ASSUME NEW f \in Fetchers, WriteMeta(f), url[f] = u PROVE blobs'[meta'[u]] # Absent
  BY <1>1, <1>3 DEF CacheInv, BlobBeforeRecord, WriteMeta, TypeOK
<1>4. ASSUME \A f \in Fetchers : WriteMeta(f) => url[f] # u PROVE meta'[u] = meta[u]
  BY <1>1, <1>4 DEF TypeOK, Next, vars, Hit, Miss, Answer, AlreadyStored, Conflict, NotStored,
                    WriteBlob, WriteMeta, Fail, Rot
<1> QED
  BY <1>2, <1>3, <1>4

LEMMA ResultsHaveBlobsNext == CacheInv /\ [Next]_vars => ResultsHaveBlobs'
<1> SUFFICES ASSUME CacheInv, [Next]_vars, NEW f \in Fetchers, result'[f] # Absent
             PROVE  blobs'[result'[f].body] # Absent
  BY DEF ResultsHaveBlobs
<1>1. TypeOK /\ TypeOK' /\ \A b \in Bodies : blobs[b] # Absent => blobs'[b] # Absent
  BY TypeStep, BlobsStay DEF CacheInv
<1>2. CASE result'[f] = result[f]
  BY <1>1, <1>2 DEF CacheInv, ResultsHaveBlobs, TypeOK, FetchResult
<1>3. ASSUME NEW r \in RawUrls, Hit(f, r) PROVE blobs'[result'[f].body] # Absent
  <2>1. normalise_url(r) \in Urls
    BY CanonNormalises DEF normalise_url
  <2>2. result'[f].body = meta[normalise_url(r)] /\ meta[normalise_url(r)] # Absent
    BY <1>1, <1>3 DEF Hit, Return, lookup, TypeOK
  <2> QED
    BY <1>1, <2>1, <2>2 DEF CacheInv, RecordsHaveBlobs, TypeOK
<1>4. CASE AlreadyStored(f)
  <2>1. url[f] \in Urls /\ body[f] \in Bodies /\ meta[url[f]] = body[f]
    BY <1>1, <1>4 DEF AlreadyStored, lookup, TypeOK
  <2>2. result'[f].body = body[f]
    BY <1>1, <1>4 DEF AlreadyStored, Return, TypeOK
  <2> QED
    BY <1>1, <2>1, <2>2, NotABody DEF CacheInv, RecordsHaveBlobs
<1>5. CASE WriteMeta(f)
  <2>1. pc[f] = "meta" /\ body[f] \in Bodies
    BY <1>1, <1>5 DEF WriteMeta, TypeOK
  <2>2. result'[f].body = body[f]
    BY <1>1, <1>5 DEF WriteMeta, Return, TypeOK
  <2> QED
    BY <1>1, <2>1, <2>2 DEF CacheInv, BlobBeforeRecord
<1>6. ASSUME ~AlreadyStored(f), ~WriteMeta(f), \A r \in RawUrls : ~Hit(f, r)
      PROVE  result'[f] = result[f]
  BY <1>1, <1>6 DEF TypeOK, Next, vars, Hit, Return, Miss, Answer, AlreadyStored, Conflict,
                    NotStored, WriteBlob, WriteMeta, Fail, Rot
<1> QED
  BY <1>2, <1>3, <1>4, <1>5, <1>6

LEMMA CacheInvNext == CacheInv /\ [Next]_vars => CacheInv'
BY TypeStep, BlobBeforeRecordNext, RecordsHaveBlobsNext, ResultsHaveBlobsNext DEF CacheInv

THEOREM CacheTypeOK == Spec => []TypeOK
<1>1. CacheInv => TypeOK
  BY DEF CacheInv
<1> QED
  BY <1>1, CacheInvInit, CacheInvNext, PTL DEF Spec

\* However many processes share the cache and wherever they die, verify() reports
\* bit rot and nothing else.
THEOREM CacheReadsBack == Spec => []EveryRecordReadsBack
BY CacheInvInit, CacheInvNext, CacheInvMeaning, PTL DEF Spec

\* Every result handed out leads to a file that is there.
THEOREM CacheResultsOnDisk == Spec => []ResultsAreOnDisk
BY CacheInvInit, CacheInvNext, CacheInvMeaning, PTL DEF Spec

\* A record no store is racing with at some moment keeps its bytes from then on.
THEOREM CacheKeepsRecords == Spec => EntriesArePermanent
<1>1. TypeOK /\ [Next]_vars =>
        [\A u \in Urls : Undisturbed(u) => Undisturbed(u)' /\ meta'[u] = meta[u]]_vars
  <2> SUFFICES ASSUME TypeOK, Next, NEW u \in Urls, Undisturbed(u)
               PROVE  Undisturbed(u)' /\ meta'[u] = meta[u]
    OBVIOUS
  <2> USE DEF Undisturbed, TypeOK
  <2>1. ASSUME NEW f \in Fetchers, NEW r \in RawUrls, Hit(f, r) \/ Miss(f, r)
        PROVE  Undisturbed(u)' /\ meta'[u] = meta[u]
    BY <2>1 DEF Hit, Miss
  <2>2. ASSUME NEW f \in Fetchers, Answer(f) \/ NotStored(f) \/ WriteBlob(f)
        PROVE  Undisturbed(u)' /\ meta'[u] = meta[u]
    BY <2>2 DEF Answer, NotStored, WriteBlob, lookup
  <2>3. ASSUME NEW f \in Fetchers, AlreadyStored(f) \/ Conflict(f) \/ Fail(f)
        PROVE  Undisturbed(u)' /\ meta'[u] = meta[u]
    BY <2>3 DEF AlreadyStored, Conflict, Fail, Leave
  <2>4. ASSUME NEW f \in Fetchers, WriteMeta(f)
        PROVE  Undisturbed(u)' /\ meta'[u] = meta[u]
    BY <2>4 DEF WriteMeta, Leave
  <2>5. ASSUME NEW b \in Bodies, Rot(b)
        PROVE  Undisturbed(u)' /\ meta'[u] = meta[u]
    BY <2>5 DEF Rot
  <2> QED
    BY <2>1, <2>2, <2>3, <2>4, <2>5 DEF Next
<1> QED
  BY <1>1, CacheTypeOK, PTL DEF Spec, EntriesArePermanent

\* What has been handed out is on record, and a record is never taken back.
ResultsAreRecorded ==
    \A f \in Fetchers : result[f] # Absent =>
        result[f].url \in Urls /\ meta[result[f].url] # Absent

LEMMA RecordedNext ==
    TypeOK /\ ResultsAreRecorded /\ [Next]_vars => ResultsAreRecorded'
<1> SUFFICES ASSUME TypeOK, ResultsAreRecorded, [Next]_vars PROVE ResultsAreRecorded'
  OBVIOUS
<1>1. ASSUME \A u \in Urls : meta[u] # Absent => meta'[u] # Absent, result' = result
      PROVE  ResultsAreRecorded'
  BY <1>1 DEF ResultsAreRecorded
<1>2. ASSUME NEW f \in Fetchers, NEW u \in Urls, NEW b \in Bodies, NEW hit \in BOOLEAN,
             Return(f, u, b, hit), meta'[u] # Absent,
             \A v \in Urls : meta[v] # Absent => meta'[v] # Absent
      PROVE  ResultsAreRecorded'
  BY <1>2 DEF Return, ResultsAreRecorded, TypeOK
<1>3. ASSUME NEW f \in Fetchers, NEW r \in RawUrls, Hit(f, r) PROVE ResultsAreRecorded'
  <2>1. normalise_url(r) \in Urls /\ lookup(normalise_url(r)) \in Bodies
    BY <1>3, CanonNormalises DEF Hit, normalise_url, lookup, TypeOK
  <2>2. /\ meta' = meta /\ meta[normalise_url(r)] # Absent
        /\ Return(f, normalise_url(r), lookup(normalise_url(r)), TRUE)
    BY <1>3 DEF Hit, lookup
  <2> QED
    BY <1>2, <2>1, <2>2
<1>4. ASSUME NEW f \in Fetchers, AlreadyStored(f) PROVE ResultsAreRecorded'
  <2>1. url[f] \in Urls /\ body[f] \in Bodies
    BY <1>4 DEF AlreadyStored, TypeOK
  <2>2. meta' = meta /\ meta[url[f]] # Absent /\ Return(f, url[f], body[f], FALSE)
    BY <1>4, <2>1, NotABody DEF AlreadyStored, lookup
  <2> QED
    BY <1>2, <2>1, <2>2
<1>5. ASSUME NEW f \in Fetchers, WriteMeta(f) PROVE ResultsAreRecorded'
  <2>1. url[f] \in Urls /\ body[f] \in Bodies
    BY <1>5 DEF WriteMeta, TypeOK
  <2>2. /\ Return(f, url[f], body[f], FALSE)
        /\ meta' = [meta EXCEPT ![url[f]] = body[f]]
    BY <1>5 DEF WriteMeta
  <2>3. meta'[url[f]] # Absent /\ \A v \in Urls : meta[v] # Absent => meta'[v] # Absent
    BY <2>1, <2>2, NotABody DEF TypeOK
  <2> QED
    BY <1>2, <2>1, <2>2, <2>3
<1> QED
  BY <1>1, <1>3, <1>4, <1>5
  DEF Next, Miss, Answer, Conflict, NotStored, WriteBlob, Fail, Rot, vars

\* A URL whose bytes any process has been handed is never downloaded again.
THEOREM CacheNeverRefetches == Spec => NeverRefetched
<1>1. Init => TypeOK /\ ResultsAreRecorded
  BY CacheInvInit DEF CacheInv, Init, ResultsAreRecorded
<1>2. TypeOK /\ ResultsAreRecorded /\ [Next]_vars => (TypeOK /\ ResultsAreRecorded)'
  BY TypeStep, RecordedNext
<1>3. TypeOK /\ ResultsAreRecorded /\ [Next]_vars =>
        [\A f \in Fetchers : result[f] # Absent =>
            gets'[result[f].url] = gets[result[f].url]]_vars
  <2> SUFFICES ASSUME TypeOK, ResultsAreRecorded, Next,
                      NEW f \in Fetchers, result[f] # Absent
               PROVE  gets'[result[f].url] = gets[result[f].url]
    OBVIOUS
  <2>1. ASSUME NEW g \in Fetchers, NEW r \in RawUrls, Miss(g, r)
        PROVE  gets'[result[f].url] = gets[result[f].url]
    <3>1. normalise_url(r) # result[f].url /\ result[f].url \in Urls
      BY <2>1 DEF Miss, lookup, ResultsAreRecorded
    <3> QED
      BY <2>1, <3>1 DEF Miss, TypeOK
  <2> QED
    BY <2>1 DEF Next, Hit, Answer, AlreadyStored, Conflict, NotStored, WriteBlob,
                WriteMeta, Fail, Rot
<1>4. Spec => [](TypeOK /\ ResultsAreRecorded)
  BY <1>1, <1>2, PTL DEF Spec
<1> QED
  BY <1>3, <1>4, PTL DEF Spec, NeverRefetched

-----------------------------------------------------------------------------
\* One process at a time.

OneProcess == \A f, g \in Fetchers : f = g

\* What the process missed nobody has recorded since.
StillMissing ==
    \A f \in Fetchers : pc[f] # "idle" => meta[url[f]] = Absent

LEMMA StillMissingNext ==
    ASSUME OneProcess
    PROVE  TypeOK /\ StillMissing /\ [Next]_vars => StillMissing'
<1> SUFFICES ASSUME TypeOK, StillMissing, [Next]_vars PROVE StillMissing'
  OBVIOUS
<1>1. ASSUME NEW f \in Fetchers, Leave(f) PROVE StillMissing'
  BY <1>1 DEF OneProcess, Leave, StillMissing, TypeOK
<1>2. ASSUME NEW f \in Fetchers, NEW r \in RawUrls, Miss(f, r) PROVE StillMissing'
  BY <1>2 DEF OneProcess, Miss, lookup, StillMissing, TypeOK
<1>3. CASE UNCHANGED <<meta, url>> /\ \A f \in Fetchers : pc'[f] # "idle" => pc[f] # "idle"
  BY <1>3 DEF StillMissing
<1>4. ASSUME NEW f \in Fetchers, Answer(f) \/ NotStored(f) \/ WriteBlob(f) PROVE StillMissing'
  BY <1>3, <1>4 DEF Answer, NotStored, WriteBlob, OneProcess
<1>5. CASE UNCHANGED vars
  BY <1>3, <1>5 DEF vars
<1> QED
  BY <1>1, <1>2, <1>3, <1>4, <1>5
  DEF Next, Hit, AlreadyStored, Conflict, WriteMeta, Fail, Rot

\* A single process, crashing and restarting at will, on a disk that may rot,
\* never replaces a record: history is not rewritten.
THEOREM OneProcessKeepsRecords ==
    ASSUME OneProcess PROVE Spec => RecordsNeverChange
<1>1. Init => TypeOK /\ StillMissing
  BY CacheInvInit DEF CacheInv, Init, StillMissing
<1>2. TypeOK /\ StillMissing /\ [Next]_vars =>
        [\A u \in Urls : meta[u] # Absent => meta'[u] = meta[u]]_vars
  <2> SUFFICES ASSUME TypeOK, StillMissing, Next, NEW u \in Urls, meta[u] # Absent
               PROVE  meta'[u] = meta[u]
    OBVIOUS
  <2>1. ASSUME NEW f \in Fetchers, WriteMeta(f) PROVE meta'[u] = meta[u]
    BY <2>1 DEF WriteMeta, StillMissing, TypeOK
  <2> QED
    BY <2>1 DEF Next, Hit, Miss, Answer, AlreadyStored, Conflict, NotStored,
                WriteBlob, Fail, Rot
<1>3. TypeOK /\ StillMissing /\ [Next]_vars => (TypeOK /\ StillMissing)'
  BY TypeStep, StillMissingNext
<1>4. Spec => [](TypeOK /\ StillMissing)
  BY <1>1, <1>3, PTL DEF Spec
<1> QED
  BY <1>2, <1>4, PTL DEF Spec, RecordsNeverChange
=============================================================================
