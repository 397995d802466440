------------------------------ MODULE RawCache ------------------------------
(***************************************************************************)
(* The raw source cache and the fetcher in front of it (cache.py): blobs   *)
(* keyed by the hash of their bytes, one metadata record per URL naming    *)
(* its blob, and fetch_once, which asks the network only for a URL that    *)
(* has no record.                                                          *)
(*                                                                         *)
(* A file write is one step (_atomic_write moves a finished temporary file *)
(* into place), but a store is two of them, blob then record, and any      *)
(* process may die between any two steps.  A body stands for its own hash. *)
(***************************************************************************)
EXTENDS Naturals

CONSTANTS
    Fetchers,   \* processes sharing the cache directory
    RawUrls,    \* URLs as the index page spells them
    Urls,       \* URLs in canonical form
    Canon,      \* Canon[r]: what normalise_url makes of r
    Bodies,     \* contents a source file may have
    Serves,     \* Serves[u]: the bodies the source may answer a GET of u with
    Absent,     \* no record, no file, no body
    Rotten,     \* the content of a blob whose bytes no longer hash to its name
    MaxGets     \* bound: downloads begun for one URL

ASSUME CanonNormalises == Canon \in [RawUrls -> Urls]
ASSUME SourceServes == Serves \in [Urls -> SUBSET Bodies]
ASSUME NotABody == Absent \notin Bodies \cup Urls /\ Rotten \notin Bodies \cup {Absent}

VARIABLES
    blobs,   \* blobs[b]: content of the file named after the hash of b
    meta,    \* meta[u]: the body the record of u names
    pc,      \* where each fetcher is in fetch_once
    url,     \* the canonical URL it is fetching
    body,    \* the response it holds
    result,  \* the FetchResult each fetcher returned last
    gets     \* downloads begun per URL

vars == <<blobs, meta, pc, url, body, result, gets>>

FetchResult == [url : Urls, body : Bodies, from_cache : BOOLEAN]

normalise_url(r) == Canon[r]

\* Mutant of lookup: a corrupt blob counts as no entry at all.
LookupChecksTheBlob(u) ==
    IF meta[u] # Absent /\ blobs[meta[u]] = meta[u] THEN meta[u] ELSE Absent

\* The entry of a URL.  It does not look at the blob.
lookup(u) == meta[u]

Init ==
    /\ blobs = [b \in Bodies |-> Absent]
    /\ meta = [u \in Urls |-> Absent]
    /\ pc = [f \in Fetchers |-> "idle"]
    /\ url = [f \in Fetchers |-> Absent]
    /\ body = [f \in Fetchers |-> Absent]
    /\ result = [f \in Fetchers |-> Absent]
    /\ gets = [u \in Urls |-> 0]

Return(f, u, b, hit) ==
    result' = [result EXCEPT ![f] = [url |-> u, body |-> b, from_cache |-> hit]]

\* fetch_once returns or raises; a crash looks the same to the disk.
Leave(f) ==
    /\ pc' = [pc EXCEPT ![f] = "idle"]
    /\ url' = [url EXCEPT ![f] = Absent]
    /\ body' = [body EXCEPT ![f] = Absent]

\* The URL has a record: no request of any kind is made.
Hit(f, r) ==
    /\ pc[f] = "idle"
    /\ lookup(normalise_url(r)) # Absent
    /\ Return(f, normalise_url(r), lookup(normalise_url(r)), TRUE)
    /\ UNCHANGED <<blobs, meta, pc, url, body, gets>>

Miss(f, r) ==
    /\ pc[f] = "idle"
    /\ lookup(normalise_url(r)) = Absent
    /\ gets[normalise_url(r)] < MaxGets
    /\ pc' = [pc EXCEPT ![f] = "get"]
    /\ url' = [url EXCEPT ![f] = normalise_url(r)]
    /\ gets' = [gets EXCEPT ![normalise_url(r)] = @ + 1]
    /\ UNCHANGED <<blobs, meta, body, result>>

Answer(f) ==
    /\ pc[f] = "get"
    /\ \E b \in Serves[url[f]] : body' = [body EXCEPT ![f] = b]
    /\ pc' = [pc EXCEPT ![f] = "store"]
    /\ UNCHANGED <<blobs, meta, url, result, gets>>

\* store() looks the URL up again.  A record made meanwhile is returned when
\* the bytes agree ...
AlreadyStored(f) ==
    /\ pc[f] = "store"
    /\ lookup(url[f]) = body[f]
    /\ Return(f, url[f], body[f], FALSE)
    /\ Leave(f)
    /\ UNCHANGED <<blobs, meta, gets>>

\* ... and is a CacheConflictError when they do not.
Conflict(f) ==
    /\ pc[f] = "store"
    /\ lookup(url[f]) \notin {Absent, body[f]}
    /\ Leave(f)
    /\ UNCHANGED <<blobs, meta, result, gets>>

\* Mutant of NotStored: the record is written before its blob.
RecordsFirst(f) ==
    /\ pc[f] = "store"
    /\ lookup(url[f]) = Absent
    /\ meta' = [meta EXCEPT ![url[f]] = body[f]]
    /\ pc' = [pc EXCEPT ![f] = "blob"]
    /\ UNCHANGED <<blobs, url, body, result, gets>>

NotStored(f) ==
    /\ pc[f] = "store"
    /\ lookup(url[f]) = Absent
    /\ pc' = [pc EXCEPT ![f] = "blob"]
    /\ UNCHANGED <<blobs, meta, url, body, result, gets>>

\* A blob that is already there, from another URL, is not written again.
WriteBlob(f) ==
    /\ pc[f] = "blob"
    /\ blobs' = [blobs EXCEPT ![body[f]] = IF @ = Absent THEN body[f] ELSE @]
    /\ pc' = [pc EXCEPT ![f] = "meta"]
    /\ UNCHANGED <<meta, url, body, result, gets>>

WriteMeta(f) ==
    /\ pc[f] = "meta"
    /\ meta' = [meta EXCEPT ![url[f]] = body[f]]
    /\ Return(f, url[f], body[f], FALSE)
    /\ Leave(f)
    /\ UNCHANGED <<blobs, gets>>

\* The request fails or is disallowed, the disk is full, the process dies.
Fail(f) ==
    /\ pc[f] # "idle"
    /\ Leave(f)
    /\ UNCHANGED <<blobs, meta, result, gets>>

\* External: the disk flips bits in a stored blob.
Rot(b) ==
    /\ blobs[b] # Absent
    /\ blobs' = [blobs EXCEPT ![b] = Rotten]
    /\ UNCHANGED <<meta, pc, url, body, result, gets>>

Next ==
    \/ \E f \in Fetchers :
        \/ \E r \in RawUrls : Hit(f, r) \/ Miss(f, r)
        \/ Answer(f) \/ AlreadyStored(f) \/ Conflict(f) \/ NotStored(f)
        \/ WriteBlob(f) \/ WriteMeta(f) \/ Fail(f)
    \/ \E b \in Bodies : Rot(b)

Spec == Init /\ [][Next]_vars

\* The URLs verify() reports: it walks the records, not the blobs.
verify == {u \in Urls : meta[u] # Absent /\ blobs[meta[u]] # meta[u]}
-----------------------------------------------------------------------------
TypeOK ==
    /\ blobs \in [Bodies -> Bodies \cup {Absent, Rotten}]
    /\ meta \in [Urls -> Bodies \cup {Absent}]
    /\ pc \in [Fetchers -> {"idle", "get", "store", "blob", "meta"}]
    /\ url \in [Fetchers -> Urls \cup {Absent}]
    /\ body \in [Fetchers -> Bodies \cup {Absent}]
    /\ result \in [Fetchers -> FetchResult \cup {Absent}]
    /\ gets \in [Urls -> Nat]
    /\ \A f \in Fetchers : pc[f] # "idle" => url[f] \in Urls
    /\ \A f \in Fetchers : pc[f] \in {"store", "blob", "meta"} => body[f] \in Bodies

\* However many processes store at once and wherever they die, the only thing
\* verify() ever reports is bit rot: no record names a blob that is missing or
\* half there, because "a crash mid-write must not leave a truncated file behind
\* that later looks like a valid cache hit" (cache.py:130-131).
EveryRecordReadsBack == \A u \in verify : blobs[meta[u]] = Rotten

\* The path of every FetchResult handed out leads to the file it promises, which
\* only the disk can have damaged since (cache.py:105-107).
ResultsAreOnDisk ==
    \A f \in Fetchers : result[f] # Absent => blobs[result[f].body] \in {result[f].body, Rotten}

\* u has a record, and no store that found none is still on its way.
Undisturbed(u) ==
    meta[u] # Absent /\ \A f \in Fetchers : url[f] = u => pc[f] \notin {"blob", "meta"}

\* A record that is not being raced at this moment keeps its bytes for good: no
\* download, crash, spelling of the URL or bit rot makes a later store replace it
\* (cache.py:149-156).
EntriesArePermanent ==
    [][\A u \in Urls : Undisturbed(u) => Undisturbed(u)' /\ meta'[u] = meta[u]]_vars

\* Once any process has been handed a URL's bytes, nobody begins a download of it
\* again, however its link is spelled and whatever has become of the blob
\* (cache.py:299-303).
NeverRefetched ==
    [][\A f \in Fetchers : result[f] # Absent =>
        gets'[result[f].url] = gets[result[f].url]]_vars

\* The bytes of a known URL are never replaced: "silently replacing them would
\* destroy the evidence of what was originally published" (cache.py:54-55).  So
\* it is with one process; of two that miss a URL together, the second replaces
\* the record of the first.
RecordsNeverChange ==
    [][\A u \in Urls : meta[u] # Absent => meta'[u] = meta[u]]_vars
=============================================================================
