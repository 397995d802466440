----------------------------- MODULE IndexPage ------------------------------
(***************************************************************************)
(* One pass over an index page (sources/index.py): the parser collects the *)
(* page's anchors, and scrape_index takes them in page order, keeping each *)
(* file it can date and rejecting each file it cannot.  The parser closes  *)
(* an anchor left open when the next one starts or the page ends.          *)
(***************************************************************************)
EXTENDS DateReading, SequencesExt

CONSTANTS
    Urls,           \* canonical URLs that match the source's href_pattern
    Names,          \* the file names such a URL may end in, as tokens
    Foreign,        \* an href that is empty, not http, or not the source's
    NoLink,         \* _href between two anchors
    MaxAnchors,     \* bound: anchors of the page
    MaxTokens       \* bound: tokens of all the link texts of the page

ASSUME NamesAreTexts == Names \subseteq Seq(Tokens)
ASSUME HrefsDiffer == Foreign \notin Urls /\ NoLink \notin Urls \cup {Foreign}

Hrefs == Urls \cup {Foreign}
Anchor == [href : Hrefs, text : Seq(Tokens)]

VARIABLES
    filename,       \* the file name each URL ends in
    anchors,        \* _AnchorExtractor.anchors
    href, text,     \* _href and _text of the anchor being read
    fed,            \* the page has been read and the loop runs
    at,             \* anchors the loop has taken
    entries,
    rejected,
    seen,
    candidates,
    duplicates

extractor == <<anchors, href, text, fed>>
scrape == <<at, entries, rejected, seen, candidates, duplicates>>
vars == <<filename, extractor, scrape>>

TokensOf(as) == FoldSeq(LAMBDA a, n : n + Len(a.text), 0, as)
-----------------------------------------------------------------------------
Init ==
    /\ filename \in [Urls -> Names]
    /\ anchors = <<>> /\ href = NoLink /\ text = <<>> /\ fed = FALSE
    /\ at = 0 /\ entries = <<>> /\ rejected = <<>> /\ seen = {}
    /\ candidates = 0 /\ duplicates = 0

_finish_anchor ==
    anchors' = IF href = NoLink THEN anchors
               ELSE Append(anchors, [href |-> href, text |-> text])

\* A link that starts within another ends it.
handle_starttag(h) ==
    /\ ~fed
    /\ Len(anchors) + (IF href = NoLink THEN 0 ELSE 1) < MaxAnchors
    /\ _finish_anchor
    /\ href' = h /\ text' = <<>>
    /\ UNCHANGED <<filename, fed, scrape>>

\* Text outside an anchor is dropped.
handle_data(token) ==
    /\ ~fed
    /\ href # NoLink
    /\ Len(text) + TokensOf(anchors) < MaxTokens
    /\ text' = Append(text, token)
    /\ UNCHANGED <<filename, anchors, href, fed, scrape>>

handle_endtag ==
    /\ ~fed
    /\ href # NoLink
    /\ _finish_anchor
    /\ href' = NoLink /\ text' = <<>>
    /\ UNCHANGED <<filename, fed, scrape>>

\* The page has ended: a link still open ends with it.
close ==
    /\ ~fed
    /\ _finish_anchor
    /\ href' = NoLink /\ text' = <<>> /\ fed' = TRUE
    /\ UNCHANGED <<filename, scrape>>
-----------------------------------------------------------------------------
\* Mutant of _resolve_entry: the two texts are read as one.
ReadsBothTogether(url, link_text) ==
    [url |-> url, link_text |-> link_text,
     observed_on |-> read_date(link_text \o filename[url]), date_source |-> "link_text"]

\* The link text, and the file name where that has no date.
_resolve_entry(url, link_text) ==
    IF read_date(link_text) # NoDate
    THEN [url |-> url, link_text |-> link_text,
          observed_on |-> read_date(link_text), date_source |-> "link_text"]
    ELSE [url |-> url, link_text |-> link_text,
          observed_on |-> read_date(filename[url]), date_source |-> "filename"]

Taking == fed /\ at < Len(anchors) /\ at' = at + 1

SkipForeign ==
    /\ Taking
    /\ anchors[at + 1].href = Foreign
    /\ UNCHANGED <<filename, extractor, entries, rejected, seen, candidates, duplicates>>

\* Mutant of SkipDuplicate: a duplicate is dropped before it is a candidate.
DropsDuplicates ==
    /\ Taking
    /\ anchors[at + 1].href \in seen
    /\ duplicates' = duplicates + 1
    /\ UNCHANGED <<filename, extractor, entries, rejected, seen, candidates>>

\* The file has been linked above: whatever this link says is not looked at.
SkipDuplicate ==
    /\ Taking
    /\ anchors[at + 1].href \in seen
    /\ candidates' = candidates + 1
    /\ duplicates' = duplicates + 1
    /\ UNCHANGED <<filename, extractor, entries, rejected, seen>>

\* Mutant of Resolve: a file is seen once it has a date.
SeesDatedOnly ==
    /\ Taking
    /\ anchors[at + 1].href \in Urls \ seen
    /\ candidates' = candidates + 1
    /\ LET resolved == _resolve_entry(anchors[at + 1].href, anchors[at + 1].text)
       IN  IF resolved.observed_on = NoDate
           THEN rejected' = Append(rejected, resolved) /\ UNCHANGED <<entries, seen>>
           ELSE /\ entries' = Append(entries, resolved)
                /\ seen' = seen \cup {resolved.url}
                /\ UNCHANGED rejected
    /\ UNCHANGED <<filename, extractor, duplicates>>

\* A file linked for the first time.  Without not_before and not_after, which
\* run_backfill does not pass, _outside_bounds finds nothing.
Resolve ==
    /\ Taking
    /\ anchors[at + 1].href \in Urls \ seen
    /\ candidates' = candidates + 1
    /\ seen' = seen \cup {anchors[at + 1].href}
    /\ LET resolved == _resolve_entry(anchors[at + 1].href, anchors[at + 1].text)
       IN  IF resolved.observed_on = NoDate
           THEN rejected' = Append(rejected, resolved) /\ UNCHANGED entries
           ELSE entries' = Append(entries, resolved) /\ UNCHANGED rejected
    /\ UNCHANGED <<filename, extractor, duplicates>>

Next ==
    \/ \E h \in Hrefs : handle_starttag(h)
    \/ \E token \in Tokens : handle_data(token)
    \/ handle_endtag
    \/ close
    \/ SkipForeign
    \/ SkipDuplicate
    \/ Resolve

Spec == Init /\ [][Next]_vars
-----------------------------------------------------------------------------
Resolved == [url : Urls, link_text : Seq(Tokens), date_source : {"link_text", "filename"},
             observed_on : CalendarDates \cup {NoDate}]

TypeOK ==
    /\ filename \in [Urls -> Names]
    /\ anchors \in Seq(Anchor)
    /\ href \in Hrefs \cup {NoLink}
    /\ text \in Seq(Tokens)
    /\ fed \in BOOLEAN
    /\ at \in 0..Len(anchors)
    /\ entries \in Seq(Resolved)
    /\ rejected \in Seq(Resolved)
    /\ seen \subseteq Urls
    /\ candidates \in Nat
    /\ duplicates \in Nat

Outcomes == ToSet(entries) \cup ToSet(rejected)

\* A date written in either order, in the text of the first link to a file or,
\* where that text has none, in the file's name, is the date of the file,
\* whatever numbers and words come before it and whatever follows: a second
\* month, another year, the number the CMS appends (dates.py:238-262,
\* index.py:263-297).
TheWrittenDateIsRead ==
    \A r \in Outcomes : \A date \in CalendarDates :
        /\ \A i \in DOMAIN r.link_text :
              Says(r.link_text, i, date) => r.observed_on = date
        /\ \A i \in DOMAIN filename[r.url] :
              Says(filename[r.url], i, date) /\ read_date(r.link_text) = NoDate
                  => r.observed_on = date

\* The year, the month and the day of an entry all stand in the text it is
\* credited to: nothing is assumed, rounded or put together from the link text
\* and the file name (dates.py:8-11).
NothingIsInvented ==
    \A e \in ToSet(entries) :
        LET t == IF e.date_source = "link_text" THEN e.link_text ELSE filename[e.url]
        IN  /\ \E i \in DOMAIN t : t[i].year = e.observed_on[1]
            /\ \E i \in DOMAIN t : t[i].month = e.observed_on[2]
            /\ \E i \in DOMAIN t : t[i].day = e.observed_on[3]

\* Where the page first links to a file, among the anchors taken so far.
FirstLinks ==
    {i \in 1..at : /\ anchors[i].href \in Urls
                   /\ \A j \in 1..(i - 1) : anchors[j].href # anchors[i].href}

FirstLink(url) == CHOOSE i \in FirstLinks : anchors[i].href = url

\* Every file linked is either an entry or rejected, once, on what its first
\* link says, and both lists are in page order.  A file whose first link and
\* name have no date is rejected even where a second link has one
\* (index.py:197-206, 221-226).
FirstLinkDecides ==
    /\ {<<r.url, r.link_text>> : r \in Outcomes}
         = {<<anchors[i].href, anchors[i].text>> : i \in FirstLinks}
    /\ Len(entries) + Len(rejected) = Cardinality(FirstLinks)
    /\ \A list \in {entries, rejected} : \A i, j \in DOMAIN list :
          i < j => FirstLink(list[i].url) < FirstLink(list[j].url)

\* The counts of a scrape add up: each anchor to one of the source's files is a
\* candidate, and a candidate is an entry, rejected or a duplicate
\* (index.py:239-246).
EveryCandidateIsAccounted ==
    /\ candidates = Cardinality({i \in 1..at : anchors[i].href \in Urls})
    /\ candidates = Len(entries) + Len(rejected) + duplicates
=============================================================================
