--------------------------- MODULE Sources_proofs ---------------------------
(***************************************************************************)
(* What is read from the office's pages and files.                         *)
(*                                                                         *)
(* For any months, days and years, texts of any length and pages of any    *)
(* number of links: a date written in a text is the date read from it, the *)
(* date of an entry is a calendar date made of parts of one text, every    *)
(* link to a file is accounted for and the first one decides.              *)
(*                                                                         *)
(* However a sheet of any length is broken over pages, a commodity is      *)
(* filed under the group it was printed under or refused, and refused only *)
(* before the first heading.                                               *)
(***************************************************************************)
EXTENDS IndexPage, SheetGroups, FiniteSetTheorems, WellFoundedInduction, TLAPS

\* Min is one of the indices it is the least of.
LEMMA MinIsOne ==
    ASSUME NEW S, S \subseteq Nat, S # {}
    PROVE  Min(S) \in S /\ \A y \in S : Min(S) =< y
<1> DEFINE Less == OpToRel(<, Nat)
<1>1. PICK x \in S : \A y \in S : <<y, x>> \notin Less
  <2>1. IsWellFoundedOn(Less, Nat)
    BY NatLessThanWellFounded, Zenon
  <2> HIDE DEF Less
  <2> QED
    BY <2>1, WFMin
<1>2. \A y \in S : x =< y
  <2> SUFFICES ASSUME NEW y \in S PROVE x =< y
    OBVIOUS
  <2>1. <<y, x>> \in Nat \X Nat /\ <<y, x>>[1] = y /\ <<y, x>>[2] = x
    OBVIOUS
  <2>2. ~(y < x)
    BY <1>1, <2>1 DEF OpToRel
  <2> QED
    BY <2>2
<1> QED
  BY <1>2 DEF Min

LEMMA TokenParts ==
    ASSUME NEW t \in Tokens
    PROVE  /\ t.month \in Months \cup {0}
           /\ t.day \in Days \cup {0}
           /\ t.year \in Years \cup {0}
BY DEF Tokens, Word

\* The day picked is a day that stands in the text.
LEMMA PickedDay ==
    ASSUME NEW t \in Seq(Tokens), NEW m \in Nat, _pick_day(t, m) # 0
    PROVE  \E i \in DOMAIN t : t[i].day = _pick_day(t, m)
<1>1. \E i : _pick_day(t, m) = _as_day(t, i)
  <2>1. CASE m + 1 \in Candidates(t)
    BY <2>1 DEF _pick_day
  <2>2. CASE m + 1 \notin Candidates(t) /\ m - 1 \in Candidates(t)
    BY <2>2 DEF _pick_day
  <2>3. CASE /\ m + 1 \notin Candidates(t) /\ m - 1 \notin Candidates(t)
             /\ Candidates(t) \cap {m - 1, m + 1} = {} /\ Cardinality(Candidates(t)) = 1
    BY <2>3 DEF _pick_day
  <2>4. CASE /\ m + 1 \notin Candidates(t) /\ m - 1 \notin Candidates(t)
             /\ ~(Candidates(t) \cap {m - 1, m + 1} = {} /\ Cardinality(Candidates(t)) = 1)
    BY <2>4 DEF _pick_day
  <2> QED
    BY <2>1, <2>2, <2>3, <2>4
<1>2. PICK i : _pick_day(t, m) = _as_day(t, i)
  BY <1>1
<1>3. i \in DOMAIN t /\ t[i].day = _pick_day(t, m)
  BY <1>2 DEF _as_day
<1> QED
  BY <1>3

\* What read_date makes of one text.
LEMMA ReadingIsOfTheText ==
    ASSUME NEW t \in Seq(Tokens), read_date(t) # NoDate
    PROVE  /\ read_date(t) \in CalendarDates
           /\ \E i \in DOMAIN t : t[i].year = read_date(t)[1]
           /\ \E i \in DOMAIN t : t[i].month = read_date(t)[2]
           /\ \E i \in DOMAIN t : t[i].day = read_date(t)[3]
<1> DEFINE m == Min(MonthsIn(t))
           y == Min(YearsIn(t))
           d == _pick_day(t, m)
<1>1. /\ MonthsIn(t) # {} /\ YearsIn(t) # {} /\ d # 0
      /\ IsDate(t[y].year, t[m].month, d)
      /\ read_date(t) = <<t[y].year, t[m].month, d>>
  BY DEF read_date, Reading
<1>2. m \in MonthsIn(t) /\ y \in YearsIn(t)
  <2>1. MonthsIn(t) \subseteq Nat /\ YearsIn(t) \subseteq Nat
    BY DEF MonthsIn, YearsIn
  <2> QED
    BY <1>1, <2>1, MinIsOne
<1>3. /\ m \in DOMAIN t /\ t[m].month \in Months
      /\ y \in DOMAIN t /\ t[y].year \in Years
  <2>1. m \in DOMAIN t /\ t[m].month # 0 /\ y \in DOMAIN t /\ t[y].year # 0
    BY <1>2 DEF MonthsIn, YearsIn
  <2> HIDE DEF m, y
  <2>2. t[m] \in Tokens /\ t[y] \in Tokens
    BY <2>1
  <2> QED
    BY <2>1, <2>2, TokenParts
<1>4. PICK i \in DOMAIN t : t[i].day = d
  BY <1>1, <1>3, PickedDay
<1> HIDE DEF m, y, d
<1>5. d \in Days
  <2>1. t[i] \in Tokens
    OBVIOUS
  <2> QED
    BY <1>1, <1>4, <2>1, TokenParts
<1>6. d <= DaysIn(t[y].year, t[m].month)
  BY <1>1, <1>5, DaysOfAMonth DEF IsDate, DaysIn
<1>7. <<t[y].year, t[m].month, d>> \in CalendarDates
  BY <1>3, <1>5, <1>6 DEF CalendarDates
<1> QED
  BY <1>1, <1>3, <1>4, <1>7

LEMMA NumbersOfADate ==
    /\ \A y \in Years : y \in Int /\ y # 0
    /\ \A m \in Months : m \in Int /\ m # 0
    /\ \A d \in Days : d \in 1..31 /\ d # 0
<1>1. ASSUME NEW y \in Years PROVE y \in Int /\ y # 0
  BY PlausibleYears
<1>2. ASSUME NEW m \in Months PROVE m \in Int /\ m # 0
  BY MonthsOfTheYear
<1>3. ASSUME NEW d \in Days PROVE d \in 1..31 /\ d # 0
  BY DaysOfAMonth
<1> QED
  BY <1>1, <1>2, <1>3

\* A date a text says is the date read from it.
LEMMA WhatIsSaidIsRead ==
    ASSUME NEW t \in Seq(Tokens), NEW i \in DOMAIN t, NEW date \in CalendarDates,
           Says(t, i, date)
    PROVE  read_date(t) = date
<1> DEFINE m == Min(MonthsIn(t))
           y == Min(YearsIn(t))
<1>1. /\ date[1] \in Years /\ date[2] \in Months /\ date[3] \in Days
      /\ date = <<date[1], date[2], date[3]>>
      /\ date[3] <= DaysIn(date[1], date[2])
  BY DEF CalendarDates
<1>2. /\ date[1] \in Int /\ date[1] # 0 /\ date[2] \in Int /\ date[2] # 0
      /\ date[3] \in 1..31 /\ date[3] # 0
  BY <1>1, NumbersOfADate, Zenon
<1>3. /\ i \in Nat /\ i + 1 \in DOMAIN t /\ i + 2 \in DOMAIN t
      /\ \A j \in DOMAIN t : j \in Nat
      /\ t[i] \in Tokens /\ t[i + 1] \in Tokens /\ t[i + 2] \in Tokens
  BY DEF Says
<1>4. \A tok \in Tokens :
        /\ tok.month # 0 => tok.day = 0 /\ tok.year = 0
        /\ tok.day # 0 => tok.month = 0 /\ tok.year = 0
        /\ tok.year # 0 => tok.month = 0 /\ tok.day = 0
  BY DEF Tokens, Word
<1>5. MonthsIn(t) \subseteq Nat /\ YearsIn(t) \subseteq Nat
  BY DEF MonthsIn, YearsIn
<1>6. /\ t[i + 2].year = date[1] /\ t[i + 2].day = 0 /\ t[i + 2].month = 0
      /\ t[i].year = 0 /\ t[i + 1].year = 0
  BY <1>2, <1>3, <1>4 DEF Says
<1>7. y = i + 2 /\ YearsIn(t) # {}
  <2>1. i + 2 \in YearsIn(t)
    BY <1>2, <1>3, <1>6 DEF YearsIn
  <2>2. \A j \in YearsIn(t) : j >= i + 2
    BY <1>3, <1>6 DEF YearsIn, Says
  <2>3. y \in YearsIn(t) /\ y =< i + 2
    BY <2>1, <1>5, MinIsOne
  <2> HIDE DEF y
  <2> QED
    BY <2>1, <2>2, <2>3, <1>3, <1>5
<1>8. \E n \in {i, i + 1} :
        /\ m = n /\ n \in MonthsIn(t) /\ t[n].month = date[2]
        /\ _pick_day(t, n) = date[3]
        /\ ~_looks_like_a_range(t, n)
  <2>1. CASE t[i].month = date[2] /\ t[i + 1].day = date[3]
    <3>1. i \in MonthsIn(t)
      BY <2>1, <1>2 DEF MonthsIn
    <3>2. \A j \in MonthsIn(t) : j >= i
      BY <1>3 DEF MonthsIn, Says
    <3>3. m \in MonthsIn(t) /\ m =< i
      BY <3>1, <1>5, MinIsOne
    <3>4. m = i
      <4> HIDE DEF m
      <4> QED
        BY <3>2, <3>3, <1>3, <1>5
    <3>5. i + 1 \in Candidates(t)
      BY <2>1, <1>2, <1>3 DEF Candidates
    <3>6. _pick_day(t, i) = date[3]
      BY <3>5, <2>1, <1>3 DEF _pick_day, _as_day
    <3>7. ~_looks_like_a_range(t, i)
      BY <1>3, <1>6 DEF _looks_like_a_range, _as_day
    <3> QED
      BY <3>1, <3>4, <3>6, <3>7, <2>1
  <2>2. CASE t[i].day = date[3] /\ t[i + 1].month = date[2]
    <3>1. i + 1 \in MonthsIn(t)
      BY <2>2, <1>2, <1>3 DEF MonthsIn
    <3>2. \A j \in MonthsIn(t) : j >= i + 1
      <4>1. t[i].month = 0
        BY <2>2, <1>2, <1>3, <1>4
      <4> QED
        BY <4>1, <1>3 DEF MonthsIn, Says
    <3>3. m \in MonthsIn(t) /\ m =< i + 1
      BY <3>1, <1>5, MinIsOne
    <3>4. m = i + 1
      <4> HIDE DEF m
      <4> QED
        BY <3>2, <3>3, <1>3, <1>5
    <3>5. i \in Candidates(t) /\ i + 2 \notin Candidates(t)
      BY <2>2, <1>2, <1>3, <1>6 DEF Candidates
    <3>6. _pick_day(t, i + 1) = date[3]
      <4>1. i + 1 + 1 = i + 2 /\ i + 1 - 1 = i
        BY <1>3
      <4> QED
        BY <4>1, <3>5, <2>2 DEF _pick_day, _as_day
    <3>7. ~_looks_like_a_range(t, i + 1)
      <4>1. i + 1 + 1 = i + 2
        BY <1>3
      <4> QED
        BY <4>1, <1>3, <1>6 DEF _looks_like_a_range, _as_day
    <3> QED
      BY <3>1, <3>4, <3>6, <3>7, <2>2
  <2> QED
    BY <2>1, <2>2 DEF Says
<1>9. MonthsIn(t) # {} /\ t[m].month = date[2]
      /\ _pick_day(t, m) = date[3] /\ ~_looks_like_a_range(t, m)
  <2> HIDE DEF m
  <2> QED
    BY <1>8
<1>10. Reading(t) = date
  BY <1>1, <1>6, <1>7, <1>9 DEF Reading
<1>11. IsDate(Reading(t)[1], Reading(t)[2], Reading(t)[3])
  <2>1. DaysIn(date[1], date[2]) \in Int
    BY DEF DaysIn
  <2>2. date[3] \in 1..DaysIn(date[1], date[2])
    <3>1. \A d \in 1..31, n \in Int : d <= n => d \in 1..n
      OBVIOUS
    <3> QED
      BY <1>1, <1>2, <2>1, <3>1, Zenon
  <2> QED
    BY <1>10, <2>2 DEF IsDate
<1> QED
  BY <1>2, <1>7, <1>9, <1>10, <1>11 DEF read_date

LEMMA ResolvedIsTyped ==
    ASSUME filename \in [Urls -> Names], NEW url \in Urls, NEW link_text \in Seq(Tokens)
    PROVE  /\ _resolve_entry(url, link_text) \in Resolved
           /\ _resolve_entry(url, link_text).url = url
           /\ _resolve_entry(url, link_text).link_text = link_text
<1>1. filename[url] \in Seq(Tokens)
  BY NamesAreTexts
<1>2. CASE read_date(link_text) # NoDate
  <2>1. read_date(link_text) \in CalendarDates
    BY <1>2, ReadingIsOfTheText
  <2> QED
    BY <1>2, <2>1 DEF _resolve_entry, Resolved
<1>3. CASE read_date(link_text) = NoDate
  <2>1. read_date(filename[url]) \in CalendarDates \cup {NoDate}
    BY <1>1, ReadingIsOfTheText
  <2> QED
    BY <1>3, <2>1 DEF _resolve_entry, Resolved
<1> QED
  BY <1>2, <1>3
-----------------------------------------------------------------------------
\* A list of outcomes holds what _resolve_entry makes of links to files.
Honest(list) ==
    \A i \in DOMAIN list : list[i] = _resolve_entry(list[i].url, list[i].link_text)

\* The inductive invariant of what is kept: an outcome is computed from its own
\* link, and is an entry when it has a date.
Kept ==
    /\ TypeOK
    /\ Honest(entries) /\ Honest(rejected)
    /\ \A i \in DOMAIN entries : entries[i].observed_on # NoDate

LEMMA KeptByTheParser ==
    ASSUME Kept, UNCHANGED <<filename, scrape>>,
           anchors' \in Seq(Anchor), href' \in Hrefs \cup {NoLink},
           text' \in Seq(Tokens), fed' \in BOOLEAN, Len(anchors') >= Len(anchors)
    PROVE  Kept'
<1>1. TypeOK'
  <2>1. at' \in 0..Len(anchors')
    BY DEF Kept, TypeOK, scrape
  <2> QED
    BY <2>1 DEF Kept, TypeOK, scrape
<1>2. Honest(entries)' /\ Honest(rejected)'
  BY DEF Kept, Honest, _resolve_entry, scrape
<1> QED
  BY <1>1, <1>2 DEF Kept, scrape

LEMMA FinishedAnchors ==
    ASSUME TypeOK, _finish_anchor
    PROVE  anchors' \in Seq(Anchor) /\ Len(anchors') >= Len(anchors)
<1>1. CASE href = NoLink
  BY <1>1 DEF _finish_anchor, TypeOK
<1>2. CASE href # NoLink
  <2>1. [href |-> href, text |-> text] \in Anchor
    BY <1>2 DEF TypeOK, Anchor
  <2> QED
    BY <1>2, <2>1 DEF _finish_anchor, TypeOK
<1> QED
  BY <1>1, <1>2

LEMMA AppendedElements ==
    ASSUME NEW S, NEW s \in Seq(S), NEW e \in S
    PROVE  /\ Append(s, e) \in Seq(S)
           /\ \A i \in DOMAIN Append(s, e) :
                 (i \in DOMAIN s /\ Append(s, e)[i] = s[i]) \/ Append(s, e)[i] = e
OBVIOUS

LEMMA KeptByResolve == Kept /\ Resolve => Kept'
<1> SUFFICES ASSUME Kept, Resolve PROVE Kept'
  OBVIOUS
<1> DEFINE a == anchors[at + 1]
           new == _resolve_entry(a.href, a.text)
<1>1. a \in Anchor /\ a.href \in Urls /\ a.text \in Seq(Tokens) /\ at' \in 0..Len(anchors)
  <2>1. at \in 0..Len(anchors) /\ at < Len(anchors) /\ at' = at + 1
    BY DEF Kept, TypeOK, Resolve, Taking
  <2>2. at + 1 \in DOMAIN anchors /\ anchors \in Seq(Anchor)
    BY <2>1 DEF Kept, TypeOK
  <2>3. a \in Anchor
    BY <2>2
  <2> QED
    BY <2>1, <2>2, <2>3 DEF Resolve, Anchor
<1>2. new \in Resolved /\ new = _resolve_entry(new.url, new.link_text)
  BY <1>1, ResolvedIsTyped DEF Kept, TypeOK
<1>3. \/ /\ new.observed_on = NoDate
         /\ rejected' = Append(rejected, new) /\ UNCHANGED entries
      \/ /\ new.observed_on # NoDate
         /\ entries' = Append(entries, new) /\ UNCHANGED rejected
  BY DEF Resolve
<1>4. UNCHANGED <<filename, extractor, duplicates>> /\ seen' = seen \cup {a.href}
      /\ candidates' = candidates + 1
  BY DEF Resolve
<1>5. \A r : _resolve_entry(r.url, r.link_text)' = _resolve_entry(r.url, r.link_text)
  BY <1>4 DEF _resolve_entry
<1> HIDE DEF new, a
<1>6. Honest(entries) /\ Honest(rejected) /\ entries \in Seq(Resolved) /\ rejected \in Seq(Resolved)
  BY DEF Kept, TypeOK
<1>7. /\ entries' \in Seq(Resolved) /\ rejected' \in Seq(Resolved)
      /\ \A i \in DOMAIN entries' : entries'[i].observed_on # NoDate
  <2>1. CASE entries' = entries
    BY <2>1, <1>2, <1>3, <1>6, AppendedElements DEF Kept
  <2>2. CASE new.observed_on # NoDate /\ entries' = Append(entries, new) /\ UNCHANGED rejected
    BY <2>2, <1>2, <1>6, AppendedElements DEF Kept
  <2> QED
    BY <2>1, <2>2, <1>3
<1>8. /\ \A i \in DOMAIN entries' : entries'[i] = _resolve_entry(entries'[i].url, entries'[i].link_text)
      /\ \A i \in DOMAIN rejected' : rejected'[i] = _resolve_entry(rejected'[i].url, rejected'[i].link_text)
  <2>1. CASE rejected' = Append(rejected, new) /\ UNCHANGED entries
    BY <2>1, <1>2, <1>6, AppendedElements DEF Honest
  <2>2. CASE entries' = Append(entries, new) /\ UNCHANGED rejected
    BY <2>2, <1>2, <1>6, AppendedElements DEF Honest
  <2> QED
    BY <2>1, <2>2, <1>3
<1>9. Honest(entries)' /\ Honest(rejected)'
  BY <1>5, <1>8 DEF Honest
<1>10. TypeOK'
  BY <1>1, <1>4, <1>7 DEF Kept, TypeOK, extractor
<1> QED
  BY <1>7, <1>9, <1>10 DEF Kept

LEMMA OutcomesAreKept == Spec => []Kept
<1>1. Init => Kept
  <2> SUFFICES ASSUME Init PROVE Kept
    OBVIOUS
  <2>1. /\ anchors \in Seq(Anchor) /\ text \in Seq(Tokens)
        /\ entries \in Seq(Resolved) /\ rejected \in Seq(Resolved)
        /\ Len(anchors) = 0
    BY DEF Init
  <2>2. DOMAIN entries = {} /\ DOMAIN rejected = {}
    BY DEF Init
  <2>3. TypeOK
    <3>1. at \in 0..Len(anchors)
      BY DEF Init
    <3> QED
      BY <2>1, <3>1 DEF Init, TypeOK
  <2> QED
    BY <2>2, <2>3 DEF Kept, Honest
<1>2. Kept /\ [Next]_vars => Kept'
  <2> SUFFICES ASSUME Kept, [Next]_vars PROVE Kept'
    OBVIOUS
  <2> TypeOK
    BY DEF Kept
  <2>1. ASSUME NEW h \in Hrefs, handle_starttag(h) PROVE Kept'
    <3>1. text' \in Seq(Tokens) /\ href' \in Hrefs \cup {NoLink} /\ fed' \in BOOLEAN
      BY <2>1 DEF handle_starttag, TypeOK
    <3> QED
      BY <2>1, <3>1, FinishedAnchors, KeptByTheParser DEF handle_starttag
  <2>2. ASSUME NEW token \in Tokens, handle_data(token) PROVE Kept'
    <3>1. /\ text' \in Seq(Tokens) /\ href' \in Hrefs \cup {NoLink} /\ fed' \in BOOLEAN
          /\ anchors' \in Seq(Anchor) /\ Len(anchors') >= Len(anchors)
      BY <2>2 DEF handle_data, TypeOK
    <3> QED
      BY <2>2, <3>1, KeptByTheParser DEF handle_data
  <2>3. CASE handle_endtag
    <3>1. text' \in Seq(Tokens) /\ href' \in Hrefs \cup {NoLink} /\ fed' \in BOOLEAN
      BY <2>3 DEF handle_endtag, TypeOK
    <3> QED
      BY <2>3, <3>1, FinishedAnchors, KeptByTheParser DEF handle_endtag
  <2>4. CASE close
    <3>1. text' \in Seq(Tokens) /\ href' \in Hrefs \cup {NoLink} /\ fed' \in BOOLEAN
      BY <2>4 DEF close, TypeOK
    <3> QED
      BY <2>4, <3>1, FinishedAnchors, KeptByTheParser DEF close
  <2>5. CASE SkipForeign
    BY <2>5 DEF SkipForeign, Taking, Kept, TypeOK, Honest, _resolve_entry, extractor
  <2>6. CASE SkipDuplicate
    BY <2>6 DEF SkipDuplicate, Taking, Kept, TypeOK, Honest, _resolve_entry, extractor
  <2>7. CASE Resolve
    BY <2>7, KeptByResolve
  <2>8. CASE UNCHANGED vars
    BY <2>8 DEF vars, extractor, scrape, Kept, TypeOK, Honest, _resolve_entry
  <2> QED
    BY <2>1, <2>2, <2>3, <2>4, <2>5, <2>6, <2>7, <2>8 DEF Next
<1> QED
  BY <1>1, <1>2, PTL DEF Spec

\* Every entry's date is a date of the calendar (dates.py:227-231).
THEOREM DatesAreReal == Spec => []TypeOK
<1>1. Kept => TypeOK
  BY DEF Kept
<1> QED
  BY <1>1, OutcomesAreKept, PTL

\* Nothing of an entry's date is assumed, rounded or taken from the other text
\* (dates.py:8-11).
THEOREM DatesAreNotInvented == Spec => []NothingIsInvented
<1>1. Kept => NothingIsInvented
  <2> SUFFICES ASSUME Kept, NEW i \in DOMAIN entries
               PROVE  LET e == entries[i]
                          t == IF e.date_source = "link_text" THEN e.link_text ELSE filename[e.url]
                      IN  /\ \E j \in DOMAIN t : t[j].year = e.observed_on[1]
                          /\ \E j \in DOMAIN t : t[j].month = e.observed_on[2]
                          /\ \E j \in DOMAIN t : t[j].day = e.observed_on[3]
    BY DEF NothingIsInvented, ToSet
  <2> DEFINE e == entries[i]
  <2>1. /\ e \in Resolved /\ e.observed_on # NoDate
        /\ e = _resolve_entry(e.url, e.link_text)
    BY DEF Kept, TypeOK, Honest
  <2>2. e.link_text \in Seq(Tokens) /\ filename[e.url] \in Seq(Tokens)
    BY <2>1, NamesAreTexts DEF Resolved, Kept, TypeOK
  <2>3. \/ e.date_source = "link_text" /\ e.observed_on = read_date(e.link_text)
        \/ e.date_source = "filename" /\ e.observed_on = read_date(filename[e.url])
    BY <2>1 DEF _resolve_entry
  <2> HIDE DEF e
  <2>4. CASE e.date_source = "link_text" /\ e.observed_on = read_date(e.link_text)
    BY <2>1, <2>2, <2>4, ReadingIsOfTheText DEF e
  <2>5. CASE e.date_source = "filename" /\ e.observed_on = read_date(filename[e.url])
    BY <2>1, <2>2, <2>5, ReadingIsOfTheText DEF e
  <2> QED
    BY <2>3, <2>4, <2>5
<1> QED
  BY <1>1, OutcomesAreKept, PTL

\* A date a link's text or a file's name says, however long they are, is the
\* date of the file (dates.py:238-262, index.py:263-297).
THEOREM WrittenDatesAreRead == Spec => []TheWrittenDateIsRead
<1>1. Kept => TheWrittenDateIsRead
  <2> SUFFICES ASSUME Kept, NEW r \in Outcomes, NEW date \in CalendarDates
               PROVE  /\ \A i \in DOMAIN r.link_text :
                            Says(r.link_text, i, date) => r.observed_on = date
                      /\ \A i \in DOMAIN filename[r.url] :
                            Says(filename[r.url], i, date) /\ read_date(r.link_text) = NoDate
                                => r.observed_on = date
    BY DEF TheWrittenDateIsRead
  <2>1. r \in Resolved /\ r = _resolve_entry(r.url, r.link_text)
    BY DEF Outcomes, ToSet, Kept, TypeOK, Honest
  <2>2. r.link_text \in Seq(Tokens) /\ filename[r.url] \in Seq(Tokens)
    BY <2>1, NamesAreTexts DEF Resolved, Kept, TypeOK
  <2>3. r.observed_on = IF read_date(r.link_text) # NoDate
                        THEN read_date(r.link_text) ELSE read_date(filename[r.url])
    BY <2>1 DEF _resolve_entry
  <2>4. ASSUME NEW i \in DOMAIN r.link_text, Says(r.link_text, i, date)
        PROVE  r.observed_on = date
    BY <2>2, <2>3, <2>4, WhatIsSaidIsRead, NoDateIsNoDate
  <2>5. ASSUME NEW i \in DOMAIN filename[r.url], Says(filename[r.url], i, date),
               read_date(r.link_text) = NoDate
        PROVE  r.observed_on = date
    BY <2>2, <2>3, <2>5, WhatIsSaidIsRead
  <2> QED
    BY <2>4, <2>5
<1> QED
  BY <1>1, OutcomesAreKept, PTL
-----------------------------------------------------------------------------
\* What the counts amount to: the loop starts once the page has been read, and
\* the page does not change under it.
Counted ==
    /\ ~fed => at = 0
    /\ EveryCandidateIsAccounted

OfAFile == {i \in 1..at : anchors[i].href \in Urls}

\* Taking an anchor counts it when it links to one of the source's files.
LEMMA OneMoreAnchor ==
    ASSUME at \in Nat, Taking, UNCHANGED anchors
    PROVE  /\ anchors[at + 1].href \in Urls => Cardinality(OfAFile') = Cardinality(OfAFile) + 1
           /\ anchors[at + 1].href \notin Urls => OfAFile' = OfAFile
<1>1. at' = at + 1 /\ 1..at' = (1..at) \cup {at + 1} /\ at + 1 \notin 1..at
  BY DEF Taking
<1>2. OfAFile' = OfAFile \cup {i \in {at + 1} : anchors[i].href \in Urls}
  BY <1>1 DEF OfAFile
<1>3. at + 1 \notin OfAFile /\ IsFiniteSet(OfAFile)
  <2>1. IsFiniteSet(1..at)
    BY FS_Interval
  <2> QED
    BY <1>1, <2>1, FS_Subset DEF OfAFile
<1>4. ASSUME anchors[at + 1].href \in Urls
      PROVE  Cardinality(OfAFile') = Cardinality(OfAFile) + 1
  <2>1. OfAFile' = OfAFile \cup {at + 1}
    BY <1>2, <1>4
  <2> QED
    BY <2>1, <1>3, FS_AddElement
<1> QED
  BY <1>2, <1>4

LEMMA CountedThroughout == Spec => []Counted
<1>1. Init => Counted
  <2> SUFFICES ASSUME Init PROVE Counted
    OBVIOUS
  <2>1. OfAFile = {} /\ Len(entries) = 0 /\ Len(rejected) = 0
    BY DEF Init, OfAFile
  <2> QED
    BY <2>1, FS_EmptySet DEF Init, Counted, EveryCandidateIsAccounted, OfAFile
<1>2. Kept /\ Counted /\ [Next]_vars => Counted'
  <2> SUFFICES ASSUME Kept, Counted, [Next]_vars PROVE Counted'
    OBVIOUS
  <2>1. ASSUME UNCHANGED scrape, ~fed PROVE Counted'
    <3>1. at = 0 /\ at' = 0
      BY <2>1 DEF Counted, scrape
    <3>2. OfAFile = {} /\ OfAFile' = {}
      BY <3>1 DEF OfAFile
    <3> QED
      BY <2>1, <3>1, <3>2 DEF Counted, EveryCandidateIsAccounted, OfAFile, scrape
  <2>2. at \in Nat /\ candidates \in Nat /\ duplicates \in Nat
        /\ entries \in Seq(Resolved) /\ rejected \in Seq(Resolved)
    BY DEF Kept, TypeOK
  <2>3. CASE SkipForeign
    <3>1. OfAFile' = OfAFile
      BY <2>2, <2>3, OneMoreAnchor, HrefsDiffer DEF SkipForeign, extractor
    <3> QED
      BY <2>3, <3>1 DEF SkipForeign, Counted, EveryCandidateIsAccounted, OfAFile, extractor, Taking
  <2>4. CASE SkipDuplicate
    <3>1. Cardinality(OfAFile') = Cardinality(OfAFile) + 1
      <4>1. anchors[at + 1].href \in Urls
        BY <2>4 DEF SkipDuplicate, Kept, TypeOK
      <4> QED
        BY <2>2, <2>4, <4>1, OneMoreAnchor DEF SkipDuplicate, extractor
    <3>2. fed' /\ candidates' = candidates + 1 /\ duplicates' = duplicates + 1
          /\ entries' = entries /\ rejected' = rejected
      BY <2>4 DEF SkipDuplicate, Taking, extractor
    <3>3. /\ candidates = Cardinality(OfAFile)
          /\ candidates = Len(entries) + Len(rejected) + duplicates
      BY DEF Counted, EveryCandidateIsAccounted, OfAFile
    <3>4. Len(entries) \in Nat /\ Len(rejected) \in Nat
      BY <2>2
    <3>5. /\ candidates' = Cardinality(OfAFile')
          /\ candidates' = Len(entries') + Len(rejected') + duplicates'
      BY <2>2, <3>1, <3>2, <3>3, <3>4
    <3> QED
      BY <3>2, <3>5 DEF Counted, EveryCandidateIsAccounted, OfAFile
  <2>5. CASE Resolve
    <3>1. Cardinality(OfAFile') = Cardinality(OfAFile) + 1
      BY <2>2, <2>5, OneMoreAnchor DEF Resolve, extractor
    <3>2. fed' /\ candidates' = candidates + 1 /\ duplicates' = duplicates
      BY <2>5 DEF Resolve, Taking, extractor
    <3>3. Len(entries') + Len(rejected') = Len(entries) + Len(rejected) + 1
      <4> DEFINE new == _resolve_entry(anchors[at + 1].href, anchors[at + 1].text)
      <4>1. \/ rejected' = Append(rejected, new) /\ entries' = entries
            \/ entries' = Append(entries, new) /\ rejected' = rejected
        BY <2>5 DEF Resolve
      <4> HIDE DEF new
      <4>2. \A s \in Seq(Resolved) : Len(s) \in Nat /\ Len(Append(s, new)) = Len(s) + 1
        OBVIOUS
      <4>3. Len(entries) \in Nat /\ Len(rejected) \in Nat
        BY <2>2
      <4>4. CASE rejected' = Append(rejected, new) /\ entries' = entries
        BY <2>2, <4>2, <4>3, <4>4
      <4>5. CASE entries' = Append(entries, new) /\ rejected' = rejected
        BY <2>2, <4>2, <4>3, <4>5
      <4> QED
        BY <4>1, <4>4, <4>5
    <3>4. /\ candidates = Cardinality(OfAFile)
          /\ candidates = Len(entries) + Len(rejected) + duplicates
      BY DEF Counted, EveryCandidateIsAccounted, OfAFile
    <3>5. Len(entries) \in Nat /\ Len(rejected) \in Nat
      BY <2>2
    <3>6. /\ candidates' = Cardinality(OfAFile')
          /\ candidates' = Len(entries') + Len(rejected') + duplicates'
      BY <2>2, <3>1, <3>2, <3>3, <3>4, <3>5
    <3> QED
      BY <3>2, <3>6 DEF Counted, EveryCandidateIsAccounted, OfAFile
  <2>6. CASE UNCHANGED vars
    BY <2>6 DEF vars, extractor, scrape, Counted, EveryCandidateIsAccounted
  <2>7. ASSUME NEW h \in Hrefs, handle_starttag(h) PROVE Counted'
    BY <2>1, <2>7 DEF handle_starttag
  <2>8. ASSUME NEW token \in Tokens, handle_data(token) PROVE Counted'
    BY <2>1, <2>8 DEF handle_data
  <2>9. CASE handle_endtag \/ close
    BY <2>1, <2>9 DEF handle_endtag, close
  <2> QED
    BY <2>3, <2>4, <2>5, <2>6, <2>7, <2>8, <2>9 DEF Next
<1> QED
  BY <1>1, <1>2, OutcomesAreKept, PTL DEF Spec

\* No candidate goes missing, on a page of any length (index.py:239-246).
THEOREM CandidatesAreAccounted == Spec => []EveryCandidateIsAccounted
<1>1. Counted => EveryCandidateIsAccounted
  BY DEF Counted
<1> QED
  BY <1>1, CountedThroughout, PTL
-----------------------------------------------------------------------------
\* FirstLinks and FirstLink of the first n anchors of a list.
FirstsOf(as, n) ==
    {i \in 1..n : /\ as[i].href \in Urls
                  /\ \A j \in 1..(i - 1) : as[j].href # as[i].href}

FirstOf(as, n, url) == CHOOSE i \in FirstsOf(as, n) : as[i].href = url

InPageOrder(list, as, n) ==
    \A i, j \in DOMAIN list :
        i < j => FirstOf(as, n, list[i].url) < FirstOf(as, n, list[j].url)

\* A file has one first link.
LEMMA OneFirstLink ==
    ASSUME NEW as, NEW n \in Nat, NEW i \in FirstsOf(as, n)
    PROVE  FirstOf(as, n, as[i].href) = i
<1>1. ASSUME NEW k \in FirstsOf(as, n), as[k].href = as[i].href PROVE k = i
  <2>1. /\ i \in 1..n /\ \A j \in 1..(i - 1) : as[j].href # as[i].href
        /\ k \in 1..n /\ \A j \in 1..(k - 1) : as[j].href # as[k].href
    BY DEF FirstsOf
  <2>2. k \notin 1..(i - 1) /\ i \notin 1..(k - 1)
    BY <1>1, <2>1
  <2> QED
    BY <2>1, <2>2
<1> QED
  BY <1>1 DEF FirstOf

\* Another anchor is the first to its file, or changes nothing.
LEMMA OneMoreLink ==
    ASSUME NEW as, NEW n \in Nat
    PROVE  /\ n + 1 \notin FirstsOf(as, n) /\ IsFiniteSet(FirstsOf(as, n))
           /\ IF as[n + 1].href \in Urls /\ \A j \in 1..n : as[j].href # as[n + 1].href
              THEN FirstsOf(as, n + 1) = FirstsOf(as, n) \cup {n + 1}
              ELSE FirstsOf(as, n + 1) = FirstsOf(as, n)
<1>1. 1..(n + 1) = (1..n) \cup {n + 1} /\ n + 1 \notin 1..n /\ (n + 1) - 1 = n
  OBVIOUS
<1>2. n + 1 \in FirstsOf(as, n + 1)
        <=> as[n + 1].href \in Urls /\ \A j \in 1..n : as[j].href # as[n + 1].href
  BY <1>1 DEF FirstsOf
<1>3. FirstsOf(as, n + 1) \ {n + 1} = FirstsOf(as, n) /\ n + 1 \notin FirstsOf(as, n)
  BY <1>1 DEF FirstsOf
<1>4. IsFiniteSet(FirstsOf(as, n))
  <2>1. IsFiniteSet(1..n)
    BY FS_Interval
  <2> QED
    BY <2>1, FS_Subset DEF FirstsOf
<1> HIDE DEF FirstsOf
<1>5. CASE n + 1 \in FirstsOf(as, n + 1)
  BY <1>2, <1>3, <1>4, <1>5
<1>6. CASE n + 1 \notin FirstsOf(as, n + 1)
  BY <1>2, <1>3, <1>4, <1>6
<1> QED
  BY <1>5, <1>6

\* A list in page order stays so when another anchor has been taken, and so does
\* the list with that anchor's file.
LEMMA OrderIsKept ==
    ASSUME NEW as, NEW n \in Nat, NEW list \in Seq(Resolved),
           \A k \in DOMAIN list : \E i \in FirstsOf(as, n) : list[k].url = as[i].href,
           InPageOrder(list, as, n)
    PROVE  /\ InPageOrder(list, as, n + 1)
           /\ \A new \in Resolved :
                 n + 1 \in FirstsOf(as, n + 1) /\ new.url = as[n + 1].href
                     => InPageOrder(Append(list, new), as, n + 1)
<1>1. n + 1 \in Nat /\ \A i \in FirstsOf(as, n) : i \in FirstsOf(as, n + 1) /\ i < n + 1
  <2>1. \A i \in FirstsOf(as, n) : i \in FirstsOf(as, n + 1)
    BY OneMoreLink
  <2>2. \A i \in FirstsOf(as, n) : i \in 1..n
    BY DEF FirstsOf
  <2>3. n + 1 \in Nat /\ \A i \in 1..n : i < n + 1
    OBVIOUS
  <2> QED
    BY <2>1, <2>2, <2>3, Zenon
<1>2. ASSUME NEW k \in DOMAIN list
      PROVE  /\ FirstOf(as, n + 1, list[k].url) = FirstOf(as, n, list[k].url)
             /\ FirstOf(as, n, list[k].url) < n + 1
  <2>1. PICK i \in FirstsOf(as, n) : list[k].url = as[i].href
    OBVIOUS
  <2>2. FirstOf(as, n, list[k].url) = i
    BY <2>1, OneFirstLink
  <2>3. FirstOf(as, n + 1, list[k].url) = i
    BY <1>1, <2>1, OneFirstLink
  <2> QED
    BY <1>1, <2>2, <2>3
<1>3. InPageOrder(list, as, n + 1)
  BY <1>2 DEF InPageOrder
<1>4. ASSUME NEW new \in Resolved, n + 1 \in FirstsOf(as, n + 1), new.url = as[n + 1].href
      PROVE  InPageOrder(Append(list, new), as, n + 1)
  <2> DEFINE longer == Append(list, new)
  <2> SUFFICES ASSUME NEW i \in DOMAIN longer, NEW j \in DOMAIN longer, i < j
               PROVE  FirstOf(as, n + 1, longer[i].url) < FirstOf(as, n + 1, longer[j].url)
    BY DEF InPageOrder
  <2>1. /\ DOMAIN list = 1..Len(list) /\ DOMAIN longer = 1..(Len(list) + 1)
        /\ \A k \in DOMAIN list : longer[k] = list[k]
        /\ longer[Len(list) + 1] = new /\ Len(list) \in Nat
    OBVIOUS
  <2> HIDE DEF longer
  <2>2. i \in DOMAIN list /\ longer[i] = list[i]
    BY <2>1
  <2>3. CASE j \in DOMAIN list
    BY <1>2, <1>3, <2>1, <2>2, <2>3 DEF InPageOrder
  <2>4. CASE j = Len(list) + 1
    <3>1. FirstOf(as, n + 1, new.url) = n + 1
      <4>1. n + 1 \in Nat
        OBVIOUS
      <4> QED
        BY <1>4, <4>1, OneFirstLink
    <3> QED
      BY <1>2, <2>1, <2>2, <2>4, <3>1, Zenon
  <2>5. j \in DOMAIN list \/ j = Len(list) + 1
    BY <2>1
  <2> QED
    BY <2>3, <2>4, <2>5
<1> QED
  BY <1>3, <1>4

\* What the loop remembers is which files it has seen linked, and it has decided
\* each of them by its first link.
Decided ==
    /\ seen = {anchors[i].href : i \in 1..at} \cap Urls
    /\ {<<r.url, r.link_text>> : r \in Outcomes}
         = {<<anchors[i].href, anchors[i].text>> : i \in FirstsOf(anchors, at)}
    /\ Len(entries) + Len(rejected) = Cardinality(FirstsOf(anchors, at))
    /\ InPageOrder(entries, anchors, at) /\ InPageOrder(rejected, anchors, at)

LEMMA DecidedByFirstLinks == Decided => FirstLinkDecides
<1>1. FirstLinks = FirstsOf(anchors, at)
  BY DEF FirstLinks, FirstsOf
<1>2. \A url : FirstLink(url) = FirstOf(anchors, at, url)
  BY <1>1 DEF FirstLink, FirstOf
<1>3. ASSUME Decided
      PROVE  /\ \A i, j \in DOMAIN entries :
                    i < j => FirstLink(entries[i].url) < FirstLink(entries[j].url)
             /\ \A i, j \in DOMAIN rejected :
                    i < j => FirstLink(rejected[i].url) < FirstLink(rejected[j].url)
  BY <1>2, <1>3 DEF Decided, InPageOrder
<1> QED
  BY <1>1, <1>3, Zenon DEF Decided, FirstLinkDecides

LEMMA DecidedByTheLoop ==
    ASSUME Kept, Decided, Taking, UNCHANGED anchors,
           NEW a, a = anchors[at + 1],
           IF a.href \in Urls \ seen
           THEN /\ seen' = seen \cup {a.href}
                /\ LET new == _resolve_entry(a.href, a.text)
                   IN  \/ rejected' = Append(rejected, new) /\ UNCHANGED entries
                       \/ entries' = Append(entries, new) /\ UNCHANGED rejected
           ELSE /\ a.href \in Urls => a.href \in seen
                /\ UNCHANGED <<seen, entries, rejected>>
    PROVE  Decided'
<1> DEFINE Old == FirstsOf(anchors, at)
           New == FirstsOf(anchors, at + 1)
<1>1. /\ at \in Nat /\ at' = at + 1 /\ anchors' = anchors
      /\ at + 1 \in DOMAIN anchors /\ a \in Anchor
      /\ entries \in Seq(Resolved) /\ rejected \in Seq(Resolved)
  BY DEF Kept, TypeOK, Taking
<1>2. /\ seen = {anchors[i].href : i \in 1..at} \cap Urls
      /\ {<<r.url, r.link_text>> : r \in Outcomes}
           = {<<anchors[i].href, anchors[i].text>> : i \in Old}
      /\ Len(entries) + Len(rejected) = Cardinality(Old)
      /\ InPageOrder(entries, anchors, at) /\ InPageOrder(rejected, anchors, at)
  BY DEF Decided
<1>3. /\ \A k \in DOMAIN entries : \E i \in Old : entries[k].url = anchors[i].href
      /\ \A k \in DOMAIN rejected : \E i \in Old : rejected[k].url = anchors[i].href
  <2>1. ASSUME NEW r \in Outcomes PROVE \E i \in Old : r.url = anchors[i].href
    <3>1. <<r.url, r.link_text>> \in {<<anchors[i].href, anchors[i].text>> : i \in Old}
      BY <1>2
    <3> HIDE DEF Old
    <3> QED
      BY <3>1
  <2>2. /\ \A k \in DOMAIN entries : entries[k] \in Outcomes
        /\ \A k \in DOMAIN rejected : rejected[k] \in Outcomes
    BY DEF Outcomes, ToSet
  <2> HIDE DEF Old
  <2> QED
    BY <2>1, <2>2
<1>4. 1..(at + 1) = (1..at) \cup {at + 1}
  BY <1>1
<1>5. SUFFICES /\ seen' = {anchors[i].href : i \in 1..(at + 1)} \cap Urls
               /\ {<<r.url, r.link_text>> : r \in Outcomes'}
                    = {<<anchors[i].href, anchors[i].text>> : i \in New}
               /\ Len(entries') + Len(rejected') = Cardinality(New)
               /\ InPageOrder(entries', anchors, at + 1)
               /\ InPageOrder(rejected', anchors, at + 1)
  BY <1>1 DEF Decided
<1> HIDE DEF Old, New
<1>6. InPageOrder(entries, anchors, at + 1) /\ InPageOrder(rejected, anchors, at + 1)
  BY <1>1, <1>2, <1>3, OrderIsKept DEF Old
<1>7. CASE a.href \notin Urls \ seen
  <2>1. New = Old
    <3>1. ~(anchors[at + 1].href \in Urls /\ \A j \in 1..at : anchors[j].href # anchors[at + 1].href)
      BY <1>2, <1>7
    <3> QED
      BY <1>1, <3>1, OneMoreLink DEF Old, New
  <2>2. seen' = {anchors[i].href : i \in 1..(at + 1)} \cap Urls
    BY <1>2, <1>4, <1>7
  <2>3. UNCHANGED <<entries, rejected>> /\ Outcomes' = Outcomes
    BY <1>7 DEF Outcomes
  <2> QED
    BY <1>2, <1>6, <2>1, <2>2, <2>3
<1>8. CASE a.href \in Urls \ seen
  <2> DEFINE new == _resolve_entry(a.href, a.text)
  <2>1. new \in Resolved /\ new.url = a.href /\ new.link_text = a.text
    BY <1>1, <1>8, ResolvedIsTyped DEF Kept, TypeOK, Anchor
  <2>2. \/ rejected' = Append(rejected, new) /\ entries' = entries
        \/ entries' = Append(entries, new) /\ rejected' = rejected
    BY <1>8
  <2> HIDE DEF new
  <2>3. /\ New = Old \cup {at + 1} /\ at + 1 \in New
        /\ Cardinality(New) = Cardinality(Old) + 1
    <3>1. anchors[at + 1].href \in Urls /\ \A j \in 1..at : anchors[j].href # anchors[at + 1].href
      BY <1>2, <1>8
    <3>2. New = Old \cup {at + 1} /\ at + 1 \notin Old /\ IsFiniteSet(Old)
      BY <1>1, <3>1, OneMoreLink DEF Old, New
    <3> QED
      BY <3>2, FS_AddElement
  <2>4. seen' = {anchors[i].href : i \in 1..(at + 1)} \cap Urls
    BY <1>2, <1>4, <1>8
  <2>5. Outcomes' = Outcomes \cup {new}
    <3>1. \A s \in Seq(Resolved) : ToSet(Append(s, new)) = ToSet(s) \cup {new}
      <4> SUFFICES ASSUME NEW s \in Seq(Resolved)
                   PROVE  ToSet(Append(s, new)) = ToSet(s) \cup {new}
        OBVIOUS
      <4>1. /\ DOMAIN Append(s, new) = DOMAIN s \cup {Len(s) + 1}
            /\ \A i \in DOMAIN s : Append(s, new)[i] = s[i]
            /\ Append(s, new)[Len(s) + 1] = new
        OBVIOUS
      <4> QED
        BY <4>1 DEF ToSet
    <3> QED
      BY <1>1, <2>2, <3>1 DEF Outcomes
  <2>6. {<<r.url, r.link_text>> : r \in Outcomes'}
          = {<<anchors[i].href, anchors[i].text>> : i \in New}
    <3>1. {<<r.url, r.link_text>> : r \in Outcomes'}
            = {<<r.url, r.link_text>> : r \in Outcomes} \cup {<<a.href, a.text>>}
      BY <2>1, <2>5
    <3>2. {<<anchors[i].href, anchors[i].text>> : i \in New}
            = {<<anchors[i].href, anchors[i].text>> : i \in Old} \cup {<<a.href, a.text>>}
      BY <2>3
    <3> QED
      BY <1>2, <3>1, <3>2
  <2>7. Len(entries') + Len(rejected') = Cardinality(New)
    <3>1. /\ \A s \in Seq(Resolved) : Len(Append(s, new)) = Len(s) + 1
          /\ Len(entries) \in Nat /\ Len(rejected) \in Nat
      BY <1>1
    <3>2. Len(entries') + Len(rejected') = (Len(entries) + Len(rejected)) + 1
      <4>1. CASE rejected' = Append(rejected, new) /\ entries' = entries
        BY <1>1, <3>1, <4>1
      <4>2. CASE entries' = Append(entries, new) /\ rejected' = rejected
        BY <1>1, <3>1, <4>2
      <4> QED
        BY <2>2, <4>1, <4>2
    <3> QED
      BY <1>2, <2>3, <3>2
  <2>8. /\ InPageOrder(Append(entries, new), anchors, at + 1)
        /\ InPageOrder(Append(rejected, new), anchors, at + 1)
    BY <1>1, <1>2, <1>3, <2>1, <2>3, OrderIsKept DEF Old, New
  <2> QED
    BY <1>6, <2>2, <2>4, <2>6, <2>7, <2>8
<1> QED
  BY <1>7, <1>8

\* What becomes of a file is decided by the first link to it, on a page of any
\* length (index.py:197-206, 221-226).
THEOREM FirstLinksDecide == Spec => []FirstLinkDecides
<1>1. Init => Decided
  <2> SUFFICES ASSUME Init PROVE Decided
    OBVIOUS
  <2>1. /\ 1..at = {} /\ FirstsOf(anchors, at) = {}
        /\ entries = <<>> /\ rejected = <<>> /\ Len(entries) = 0 /\ Len(rejected) = 0
        /\ DOMAIN entries = {} /\ DOMAIN rejected = {}
        /\ seen = {}
    BY DEF Init, FirstsOf
  <2>2. Outcomes = {}
    BY <2>1 DEF Outcomes, ToSet
  <2> QED
    BY <2>1, <2>2, FS_EmptySet DEF Decided, InPageOrder
<1>2. Kept /\ Counted /\ Decided /\ [Next]_vars => Decided'
  <2> SUFFICES ASSUME Kept, Counted, Decided, [Next]_vars PROVE Decided'
    OBVIOUS
  <2>1. ASSUME UNCHANGED scrape, ~fed PROVE Decided'
    <3>1. at = 0 /\ at' = 0
      BY <2>1 DEF Counted, scrape
    <3>2. /\ 1..at = {} /\ FirstsOf(anchors, at) = {}
          /\ 1..at' = {} /\ FirstsOf(anchors', at') = {}
      BY <3>1 DEF FirstsOf
    <3>3. UNCHANGED <<seen, entries, rejected>> /\ Outcomes' = Outcomes
      BY <2>1 DEF scrape, Outcomes
    <3>4. Outcomes = {}
      BY <3>2 DEF Decided
    <3>5. DOMAIN entries = {} /\ DOMAIN rejected = {}
      BY <3>4 DEF Outcomes, ToSet
    <3> QED
      BY <3>2, <3>3, <3>5 DEF Decided, InPageOrder
  <2> DEFINE a == anchors[at + 1]
  <2>2. CASE SkipForeign
    <3>1. Taking /\ UNCHANGED <<anchors, seen, entries, rejected>> /\ a.href \notin Urls
      BY <2>2, HrefsDiffer DEF SkipForeign, extractor
    <3> QED
      BY <3>1, DecidedByTheLoop
  <2>3. CASE SkipDuplicate
    <3>1. Taking /\ UNCHANGED <<anchors, seen, entries, rejected>> /\ a.href \in seen
      BY <2>3 DEF SkipDuplicate, extractor
    <3> QED
      BY <3>1, DecidedByTheLoop
  <2>4. CASE Resolve
    <3>1. /\ Taking /\ UNCHANGED anchors /\ a.href \in Urls \ seen
          /\ seen' = seen \cup {a.href}
          /\ LET new == _resolve_entry(a.href, a.text)
             IN  \/ rejected' = Append(rejected, new) /\ UNCHANGED entries
                 \/ entries' = Append(entries, new) /\ UNCHANGED rejected
      BY <2>4 DEF Resolve, extractor
    <3> QED
      BY <3>1, DecidedByTheLoop
  <2>5. CASE UNCHANGED vars
    BY <2>5 DEF vars, extractor, scrape, Decided, Outcomes
  <2>6. ASSUME NEW h \in Hrefs, handle_starttag(h) PROVE Decided'
    BY <2>1, <2>6 DEF handle_starttag
  <2>7. ASSUME NEW token \in Tokens, handle_data(token) PROVE Decided'
    BY <2>1, <2>7 DEF handle_data
  <2>8. CASE handle_endtag \/ close
    BY <2>1, <2>8 DEF handle_endtag, close
  <2> QED
    BY <2>2, <2>3, <2>4, <2>5, <2>6, <2>7, <2>8 DEF Next
<1> QED
  BY <1>1, <1>2, OutcomesAreKept, CountedThroughout, DecidedByFirstLinks, PTL DEF Spec
-----------------------------------------------------------------------------
\* The rows are rows, in page order, and a heading is the heading of its block.
RowsArePrinted ==
    /\ table \in Seq(Row)
    /\ page \in Nat
    /\ block \in Groups \cup {NoCell}
    /\ owed \in BOOLEAN
    /\ \A i \in DOMAIN table :
          /\ _is_data_row(table[i]) => table[i].group \in Groups /\ table[i].page \in 1..page
          /\ _carries_a_group_label(table[i]) => table[i].cell = table[i].group

\* The last commodity printed before row i is one of group g.
Follows(i, g) ==
    \E j \in 1..(i - 1) :
        /\ _is_data_row(table[j]) /\ table[j].group = g
        /\ \A k \in (j + 1)..(i - 1) : ~_is_data_row(table[k])

\* The block being printed is that of the last commodity.
BlockIsOpen ==
    IF \E i \in DOMAIN table : _is_data_row(table[i])
    THEN block \in Groups /\ Follows(Len(table) + 1, block)
    ELSE block = NoCell /\ ~owed

\* The next heading from row i on is one of group g.
Precedes(i, g) ==
    \E j \in i..Len(table) :
        /\ _carries_a_group_label(table[j]) /\ table[j].group = g
        /\ \A k \in i..(j - 1) : ~_carries_a_group_label(table[k])

\* An empty cell below the top of its page has its heading before it, or will.
HeadingsAreAhead ==
    \A i \in DOMAIN table :
        ReachesForward(table, i) =>
            \/ Precedes(i, table[i].group)
            \/ /\ owed /\ table[i].group = block
               /\ \A k \in i..Len(table) : ~_carries_a_group_label(table[k])

\* Any other commodity without a heading beside it continues the block of the
\* one before, unless it is the first of the sheet.
HeadingsAreBehind ==
    \A i \in DOMAIN table :
        _is_data_row(table[i]) /\ ~_carries_a_group_label(table[i]) /\ ~ReachesForward(table, i) =>
            \/ Follows(i, table[i].group)
            \/ \A j \in 1..(i - 1) : ~_is_data_row(table[j])

SheetInv ==
    /\ RowsArePrinted
    /\ BlockIsOpen
    /\ HeadingsAreAhead
    /\ HeadingsAreBehind
    /\ resolved = <<>> \/ (~owed /\ resolved = _group_per_row(table))

\* A heading is text.
LEMMA LabelsAreGroups ==
    ASSUME NEW r, _carries_a_group_label(r)
    PROVE  r.cell \in Groups /\ r.cell # NoCell /\ r.cell # Blank /\ _is_data_row(r)
BY CellsAreNotGroups DEF _carries_a_group_label

\* What is printed later does not change where a page opens.
LEMMA LaterRowsOpenNothing ==
    ASSUME NEW t \in Seq(Row), NEW u \in Seq(Row), Len(t) <= Len(u),
           \A i \in 1..Len(t) : u[i] = t[i], NEW i \in 1..Len(t)
    PROVE  ReachesForward(u, i) <=> ReachesForward(t, i)
<1>1. u[i] = t[i] /\ \A j \in 1..(i - 1) : u[j] = t[j]
  OBVIOUS
<1>2. i \in DOMAIN t /\ i \in DOMAIN u
  OBVIOUS
<1> QED
  BY <1>1, <1>2 DEF ReachesForward, _rows_opening_a_page

\* The table as it grows.
Grows ==
    /\ table \in Seq(Row) /\ table' \in Seq(Row)
    /\ Len(table) <= Len(table')
    /\ \A i \in 1..Len(table) : table'[i] = table[i]

LEMMA StillFollows ==
    ASSUME Grows, NEW g, NEW i \in 1..(Len(table) + 1)
    PROVE  Follows(i, g)' <=> Follows(i, g)
<1>1. \A j \in 1..(i - 1) : table'[j] = table[j]
  BY DEF Grows
<1>2. \A j \in 1..(i - 1) : \A k \in (j + 1)..(i - 1) : table'[k] = table[k]
  BY <1>1
<1> QED
  BY <1>1, <1>2 DEF Follows

LEMMA StillPrecedes ==
    ASSUME Grows, NEW g, NEW i \in 1..Len(table), Precedes(i, g)
    PROVE  Precedes(i, g)'
<1>1. PICK j \in i..Len(table) :
          /\ _carries_a_group_label(table[j]) /\ table[j].group = g
          /\ \A k \in i..(j - 1) : ~_carries_a_group_label(table[k])
  BY DEF Precedes
<1>2. j \in i..Len(table') /\ \A k \in i..j : table'[k] = table[k]
  BY DEF Grows
<1> QED
  BY <1>1, <1>2 DEF Precedes

\* Lines that are no commodities leave everything as it was.
LEMMA FurnitureIsHarmless ==
    ASSUME SheetInv, Grows, UNCHANGED <<block, owed>>, page' \in Nat, page <= page',
           \A i \in (Len(table) + 1)..Len(table') : ~_is_data_row(table'[i])
    PROVE  (RowsArePrinted /\ BlockIsOpen /\ HeadingsAreAhead /\ HeadingsAreBehind)'
<1>1. \A i \in DOMAIN table' : _is_data_row(table'[i]) => i \in 1..Len(table) /\ table'[i] = table[i]
  BY DEF Grows
<1>2. \A i \in DOMAIN table' : _carries_a_group_label(table'[i]) => _is_data_row(table'[i])
  BY LabelsAreGroups
<1>3. RowsArePrinted'
  BY <1>1, <1>2 DEF Grows, SheetInv, RowsArePrinted
<1>4. BlockIsOpen'
  <2>1. (\E i \in DOMAIN table' : _is_data_row(table'[i])) <=> \E i \in DOMAIN table : _is_data_row(table[i])
    BY <1>1 DEF Grows
  <2>2. ASSUME Follows(Len(table) + 1, block)
        PROVE  \E j \in 1..((Len(table') + 1) - 1) :
                  /\ _is_data_row(table'[j]) /\ table'[j].group = block'
                  /\ \A k \in (j + 1)..((Len(table') + 1) - 1) : ~_is_data_row(table'[k])
    <3>1. PICK j \in 1..Len(table) :
              /\ _is_data_row(table[j]) /\ table[j].group = block
              /\ \A k \in (j + 1)..Len(table) : ~_is_data_row(table[k])
      BY <2>2 DEF Follows, Grows
    <3>2. /\ j \in 1..((Len(table') + 1) - 1) /\ table'[j] = table[j]
          /\ \A k \in (j + 1)..((Len(table') + 1) - 1) : ~_is_data_row(table'[k])
      BY <1>1, <3>1 DEF Grows
    <3> QED
      BY <3>1, <3>2
  <2> QED
    BY <2>1, <2>2 DEF SheetInv, BlockIsOpen, Follows
<1>5. HeadingsAreAhead'
  <2> SUFFICES ASSUME NEW i \in DOMAIN table', ReachesForward(table', i)
               PROVE  \/ Precedes(i, table[i].group)'
                      \/ /\ owed' /\ table'[i].group = block'
                         /\ \A k \in i..Len(table') : ~_carries_a_group_label(table'[k])
    BY DEF HeadingsAreAhead
  <2>1. i \in 1..Len(table) /\ table'[i] = table[i]
    BY <1>1 DEF ReachesForward
  <2>2. ReachesForward(table, i)
    BY <2>1, LaterRowsOpenNothing DEF Grows
  <2>3. CASE Precedes(i, table[i].group)
    BY <2>1, <2>3, StillPrecedes
  <2>4. CASE /\ owed /\ table[i].group = block
             /\ \A k \in i..Len(table) : ~_carries_a_group_label(table[k])
    BY <1>1, <1>2, <2>1, <2>4 DEF Grows
  <2> QED
    BY <2>1, <2>2, <2>3, <2>4 DEF SheetInv, HeadingsAreAhead, Grows
<1>6. HeadingsAreBehind'
  <2> SUFFICES ASSUME NEW i \in DOMAIN table', _is_data_row(table'[i]),
                      ~_carries_a_group_label(table'[i]), ~ReachesForward(table', i)
               PROVE  \/ Follows(i, table[i].group)'
                      \/ \A j \in 1..(i - 1) : ~_is_data_row(table'[j])
    BY DEF HeadingsAreBehind
  <2>1. i \in 1..Len(table) /\ table'[i] = table[i]
    BY <1>1
  <2>2. ~ReachesForward(table, i)
    BY <2>1, LaterRowsOpenNothing DEF Grows
  <2>3. Follows(i, table[i].group) \/ \A j \in 1..(i - 1) : ~_is_data_row(table[j])
    BY <2>1, <2>2 DEF SheetInv, HeadingsAreBehind, Grows
  <2> QED
    BY <2>1, <2>3, StillFollows DEF Grows
<1> QED
  BY <1>3, <1>4, <1>5, <1>6

\* A commodity printed where and as the office prints one keeps the invariant.
LEMMA CommodityIsPrinted ==
    ASSUME SheetInv, NEW cell \in Groups \cup {NoCell, Blank}, NEW g \in Groups,
           page > 0, Put(cell, g), owed' \in BOOLEAN,
           cell \in Groups => cell = g,
           owed => g = block /\ (cell \in Groups \/ owed'),
           cell = Blank /\ ~Opens => owed',
           \/ cell \in Groups
           \/ cell = Blank /\ ~Opens
           \/ g = block
           \/ \A i \in DOMAIN table : ~_is_data_row(table[i])
    PROVE  (RowsArePrinted /\ BlockIsOpen /\ HeadingsAreAhead /\ HeadingsAreBehind)'
<1> DEFINE n == Len(table) + 1
           r == [page |-> page, kind |-> "commodity", cell |-> cell, group |-> g]
<1>1. /\ table' = Append(table, r) /\ block' = g /\ page' = page /\ page \in Nat
      /\ table \in Seq(Row) /\ n \in Nat \ {0}
  BY DEF Put, SheetInv, RowsArePrinted
<1>2. /\ r \in Row /\ _is_data_row(r) /\ (_carries_a_group_label(r) <=> cell \in Groups)
      /\ r.group = g /\ r.page = page /\ r.cell = cell
  BY <1>1 DEF Row, Kinds, _is_data_row, _carries_a_group_label
<1> HIDE DEF r
<1>3. /\ Grows /\ Len(table') = n /\ table'[n] = r
      /\ DOMAIN table' = DOMAIN table \cup {n} /\ DOMAIN table = 1..Len(table)
      /\ \A i \in DOMAIN table : table'[i] = table[i]
  BY <1>1, <1>2 DEF Grows
<1>4. n \in _rows_opening_a_page(table') <=> Opens
  BY <1>1, <1>2, <1>3 DEF _rows_opening_a_page, Opens, Commodities, _is_data_row
<1>5. ReachesForward(table', n) <=> cell = Blank /\ ~Opens
  BY <1>2, <1>3, <1>4 DEF ReachesForward
<1>6. RowsArePrinted'
  <2>1. table' \in Seq(Row)
    BY <1>3 DEF Grows
  <2> QED
    BY <1>1, <1>2, <1>3, <2>1 DEF SheetInv, RowsArePrinted
<1>7. BlockIsOpen'
  <2>1. n \in 1..((Len(table') + 1) - 1) /\ _is_data_row(table'[n]) /\ table'[n].group = block'
        /\ \A k \in (n + 1)..((Len(table') + 1) - 1) : ~_is_data_row(table'[k])
    BY <1>1, <1>2, <1>3
  <2>2. Follows(Len(table) + 1, block)'
    BY <2>1 DEF Follows
  <2> QED
    BY <1>1, <1>3, <2>1, <2>2 DEF BlockIsOpen
<1>8. HeadingsAreAhead'
  <2> SUFFICES ASSUME NEW i \in DOMAIN table', ReachesForward(table', i)
               PROVE  \/ Precedes(i, table[i].group)'
                      \/ /\ owed' /\ table'[i].group = block'
                         /\ \A k \in i..Len(table') : ~_carries_a_group_label(table'[k])
    BY DEF HeadingsAreAhead
  <2>1. CASE i = n
    <3>1. cell = Blank /\ owed' /\ ~_carries_a_group_label(r)
      BY <1>2, <1>5, <2>1, CellsAreNotGroups
    <3> QED
      BY <1>1, <1>2, <1>3, <2>1, <3>1
  <2>2. CASE i \in DOMAIN table
    <3>1. ReachesForward(table, i) /\ i \in 1..Len(table) /\ table'[i] = table[i]
      BY <1>3, <2>2, LaterRowsOpenNothing DEF Grows
    <3>2. CASE Precedes(i, table[i].group)
      BY <1>3, <3>1, <3>2, StillPrecedes
    <3>3. CASE /\ owed /\ table[i].group = block
               /\ \A k \in i..Len(table) : ~_carries_a_group_label(table[k])
      <4>1. CASE cell \in Groups
        <5>1. /\ n \in i..Len(table') /\ _carries_a_group_label(table'[n])
              /\ table'[n].group = table'[i].group
              /\ \A k \in i..(n - 1) : ~_carries_a_group_label(table'[k])
          BY <1>1, <1>2, <1>3, <3>1, <3>3, <4>1
        <5> QED
          BY <5>1 DEF Precedes
      <4>2. CASE cell \notin Groups
        BY <1>1, <1>2, <1>3, <3>1, <3>3, <4>2
      <4> QED
        BY <4>1, <4>2
    <3> QED
      BY <2>2, <3>1, <3>2, <3>3 DEF SheetInv, HeadingsAreAhead
  <2> QED
    BY <1>3, <2>1, <2>2
<1>9. HeadingsAreBehind'
  <2> SUFFICES ASSUME NEW i \in DOMAIN table', _is_data_row(table'[i]),
                      ~_carries_a_group_label(table'[i]), ~ReachesForward(table', i)
               PROVE  \/ Follows(i, table[i].group)'
                      \/ \A j \in 1..(i - 1) : ~_is_data_row(table'[j])
    BY DEF HeadingsAreBehind
  <2>1. CASE i = n
    <3>1. g = block \/ \A j \in DOMAIN table : ~_is_data_row(table[j])
      BY <1>2, <1>3, <1>5, <2>1
    <3>2. CASE \A j \in DOMAIN table : ~_is_data_row(table[j])
      BY <1>3, <2>1, <3>2
    <3>3. CASE g = block /\ \E j \in DOMAIN table : _is_data_row(table[j])
      <4>1. Follows(i, g)
        BY <2>1, <3>3 DEF SheetInv, BlockIsOpen
      <4>2. Follows(i, g)'
        <5>1. i \in 1..(Len(table) + 1)
          BY <1>1, <2>1
        <5> QED
          BY <1>3, <4>1, <5>1, StillFollows
      <4> QED
        BY <1>2, <1>3, <2>1, <4>2
    <3> QED
      BY <3>1, <3>2, <3>3
  <2>2. CASE i \in DOMAIN table
    <3>1. ~ReachesForward(table, i) /\ i \in 1..Len(table) /\ table'[i] = table[i]
      BY <1>3, <2>2, LaterRowsOpenNothing DEF Grows
    <3>2. Follows(i, table[i].group) \/ \A j \in 1..(i - 1) : ~_is_data_row(table[j])
      BY <2>2, <3>1 DEF SheetInv, HeadingsAreBehind
    <3>3. i \in 1..(Len(table) + 1) /\ \A j \in 1..(i - 1) : table'[j] = table[j]
      BY <1>3, <3>1
    <3> QED
      BY <1>3, <3>1, <3>2, <3>3, StillFollows
  <2> QED
    BY <1>3, <2>1, <2>2
<1> QED
  BY <1>6, <1>7, <1>8, <1>9

\* The lines a page starts with are no commodities.
LEMMA PageIsTurned ==
    ASSUME SheetInv, TurnPage
    PROVE  (RowsArePrinted /\ BlockIsOpen /\ HeadingsAreAhead /\ HeadingsAreBehind)'
<1>1. page \in Nat /\ page' = page + 1 /\ table \in Seq(Row) /\ UNCHANGED <<block, owed>>
  BY DEF SheetInv, RowsArePrinted, TurnPage
<1>2. PICK lines \in Furniture : table' = table \o lines
  BY DEF TurnPage
<1>3. lines \in Seq(Row) /\ \A i \in DOMAIN lines : ~_is_data_row(lines[i])
  <2>1. \A k \in Kinds \ {"commodity"}, c \in Groups \cup {NoCell, Blank} :
            Line(k, c) \in Row /\ ~_is_data_row(Line(k, c))
    <3> SUFFICES ASSUME NEW k \in Kinds \ {"commodity"}, NEW c \in Groups \cup {NoCell, Blank}
                 PROVE  Line(k, c) \in Row /\ ~_is_data_row(Line(k, c))
      OBVIOUS
    <3>1. page' \in Nat /\ NoCell \in Groups \cup {NoCell} /\ k \in Kinds /\ k # "commodity"
      BY <1>1
    <3>2. [page |-> page', kind |-> k, cell |-> c, group |-> NoCell] \in Row
      BY <3>1 DEF Row
    <3> QED
      BY <3>1, <3>2 DEF Line, _is_data_row
  <2>2. CASE lines = <<>>
    BY <2>2
  <2>3. CASE lines = <<Line("column header", NoCell)>>
    <3>1. "column header" \in Kinds \ {"commodity"} /\ NoCell \in Groups \cup {NoCell, Blank}
      BY DEF Kinds
    <3> DEFINE a == Line("column header", NoCell)
    <3>2. a \in Row /\ ~_is_data_row(a) /\ lines = <<a>>
      BY <2>1, <2>3, <3>1
    <3> HIDE DEF a
    <3> QED
      BY <3>2
  <2>4. ASSUME NEW g \in Groups,
               lines = <<Line("block line", g), Line("empty line", Blank),
                         Line("column header", NoCell)>>
        PROVE  lines \in Seq(Row) /\ \A i \in DOMAIN lines : ~_is_data_row(lines[i])
    <3>1. /\ "column header" \in Kinds \ {"commodity"} /\ NoCell \in Groups \cup {NoCell, Blank}
          /\ "block line" \in Kinds \ {"commodity"} /\ g \in Groups \cup {NoCell, Blank}
          /\ "empty line" \in Kinds \ {"commodity"} /\ Blank \in Groups \cup {NoCell, Blank}
      BY DEF Kinds
    <3> DEFINE a == Line("block line", g)
               b == Line("empty line", Blank)
               c == Line("column header", NoCell)
    <3>2. /\ a \in Row /\ ~_is_data_row(a) /\ b \in Row /\ ~_is_data_row(b)
          /\ c \in Row /\ ~_is_data_row(c) /\ lines = <<a, b, c>>
      BY <2>1, <2>4, <3>1
    <3> HIDE DEF a, b, c
    <3> QED
      BY <3>2
  <2> QED
    BY <2>2, <2>3, <2>4 DEF Furniture
<1>4. /\ Grows /\ Len(table') = Len(table) + Len(lines)
      /\ \A i \in (Len(table) + 1)..Len(table') : ~_is_data_row(table'[i])
  BY <1>1, <1>2, <1>3 DEF Grows
<1> QED
  BY <1>1, <1>4, FurnitureIsHarmless

LEMMA LineIsPrinted ==
    ASSUME SheetInv, PrintLine
    PROVE  (RowsArePrinted /\ BlockIsOpen /\ HeadingsAreAhead /\ HeadingsAreBehind)'
<1> DEFINE Goal == (RowsArePrinted /\ BlockIsOpen /\ HeadingsAreAhead /\ HeadingsAreBehind)'
<1>1. /\ owed \in BOOLEAN /\ block \in Groups \cup {NoCell} /\ page \in Nat
      /\ table \in Seq(Row)
  BY DEF SheetInv, RowsArePrinted
<1>2. CASE TurnPage
  BY <1>2, PageIsTurned
<1>3. ASSUME NEW g \in Groups, StartBlock(g) PROVE Goal
  <2>1. page > 0 /\ ~owed /\ owed' = owed /\ Put(g, g)
    BY <1>3 DEF StartBlock
  <2>2. g # Blank
    BY CellsAreNotGroups
  <2> HIDE DEF Goal
  <2> QED
    BY <1>1, <2>1, <2>2, CommodityIsPrinted DEF Goal
<1>4. ASSUME NEW g \in Groups, StartSplitBlock(g) PROVE Goal
  <2>1. page > 0 /\ ~owed /\ owed' = TRUE /\ Put(Blank, g) /\ (Opens => page = 1)
    BY <1>4 DEF StartSplitBlock
  <2>2. Opens => \A i \in DOMAIN table : ~_is_data_row(table[i])
    <3> SUFFICES ASSUME Opens, NEW i \in DOMAIN table, _is_data_row(table[i]) PROVE FALSE
      OBVIOUS
    <3>1. i \in Commodities(table) /\ table[i].page \in 1..page /\ page = 1
      BY <2>1 DEF Commodities, _is_data_row, SheetInv, RowsArePrinted
    <3> QED
      BY <3>1 DEF Opens
  <2>3. Blank \notin Groups
    BY CellsAreNotGroups
  <2> QED
    BY <1>1, <2>1, <2>2, <2>3, CommodityIsPrinted
<1>5. CASE ContinueBlock
  <2>1. page > 0 /\ block \in Groups /\ ~Opens /\ owed' = owed
    BY <1>1, <1>5 DEF ContinueBlock
  <2>2. Put(NoCell, block) \/ (owed /\ Put(Blank, block))
    BY <1>5 DEF ContinueBlock
  <2>3. NoCell \notin Groups /\ Blank \notin Groups /\ NoCell # Blank
    BY CellsAreNotGroups
  <2>4. CASE Put(NoCell, block)
    BY <1>1, <2>1, <2>3, <2>4, CommodityIsPrinted
  <2>5. CASE owed /\ Put(Blank, block)
    BY <1>1, <2>1, <2>3, <2>5, CommodityIsPrinted
  <2> QED
    BY <2>2, <2>4, <2>5
<1>6. CASE ContinueOverleaf
  <2>1. page > 0 /\ block \in Groups /\ Opens /\ ~owed /\ owed' = owed
    BY <1>1, <1>6 DEF ContinueOverleaf
  <2>2. PICK cell \in {NoCell, Blank} : Put(cell, block)
    BY <1>6 DEF ContinueOverleaf
  <2>3. cell \notin Groups /\ cell \in Groups \cup {NoCell, Blank}
    BY CellsAreNotGroups
  <2> QED
    BY <1>1, <2>1, <2>2, <2>3, CommodityIsPrinted
<1>7. CASE DrawHeading
  <2>1. page > 0 /\ block \in Groups /\ Opens /\ owed
    BY <1>1, <1>7 DEF DrawHeading
  <2>2. \/ Put(block, block) /\ owed' = FALSE
        \/ Put(Blank, block) /\ owed' = owed
    BY <1>7 DEF DrawHeading
  <2>3. Blank \notin Groups
    BY CellsAreNotGroups
  <2>4. CASE Put(block, block) /\ owed' = FALSE
    BY <1>1, <2>1, <2>3, <2>4, CommodityIsPrinted
  <2>5. CASE Put(Blank, block) /\ owed' = owed
    BY <1>1, <2>1, <2>3, <2>5, CommodityIsPrinted
  <2> QED
    BY <2>2, <2>4, <2>5
<1> HIDE DEF Goal
<1>8. Goal
  BY <1>2, <1>3, <1>4, <1>5, <1>6, <1>7 DEF PrintLine, Goal
<1> QED
  BY <1>8 DEF Goal

LEMMA SheetsAreWellPrinted == SheetSpec => []SheetInv
<1>1. SheetInit => SheetInv
  <2> SUFFICES ASSUME SheetInit PROVE SheetInv
    OBVIOUS
  <2>1. table = <<>> /\ table \in Seq(Row) /\ DOMAIN table = {} /\ page = 0
        /\ block = NoCell /\ owed = FALSE /\ resolved = <<>>
    BY DEF SheetInit
  <2> QED
    BY <2>1 DEF SheetInv, RowsArePrinted, BlockIsOpen, HeadingsAreAhead, HeadingsAreBehind
<1>2. SheetInv /\ [SheetNext]_sheetVars => SheetInv'
  <2> SUFFICES ASSUME SheetInv, [SheetNext]_sheetVars PROVE SheetInv'
    OBVIOUS
  <2>1. CASE Printing /\ PrintLine
    <3>1. resolved' = <<>>
      BY <2>1 DEF Printing
    <3> QED
      BY <2>1, <3>1, LineIsPrinted DEF SheetInv
  <2>2. ASSUME UNCHANGED sheet
        PROVE  (RowsArePrinted /\ BlockIsOpen /\ HeadingsAreAhead /\ HeadingsAreBehind)'
    BY <2>2 DEF sheet, SheetInv, RowsArePrinted, BlockIsOpen, HeadingsAreAhead,
                HeadingsAreBehind, Follows, Precedes
  <2>3. CASE _read_body
    <3>1. ~owed' /\ resolved' = _group_per_row(table')
      BY <2>3 DEF _read_body, sheet
    <3> QED
      BY <2>2, <2>3, <3>1 DEF _read_body, SheetInv
  <2>4. CASE UNCHANGED sheetVars
    <3>1. UNCHANGED sheet /\ resolved' = resolved /\ table' = table /\ owed' = owed
      BY <2>4 DEF sheetVars, sheet
    <3> QED
      BY <2>2, <3>1 DEF SheetInv
  <2> QED
    BY <2>1, <2>3, <2>4 DEF SheetNext
<1> QED
  BY <1>1, <1>2, PTL DEF SheetSpec
-----------------------------------------------------------------------------

\* Induction up to n, over a set.
LEMMA UpTo ==
    ASSUME NEW n \in Nat, NEW S, 0 \in S, \A i \in 1..n : i - 1 \in S => i \in S
    PROVE  \A i \in 0..n : i \in S
<1> DEFINE Out == {i \in 0..n : i \notin S}
<1>1. SUFFICES ASSUME Out # {} PROVE FALSE
  OBVIOUS
<1>2. Min(Out) \in Out /\ \A y \in Out : Min(Out) =< y
  <2>1. Out \subseteq Nat
    OBVIOUS
  <2> HIDE DEF Out
  <2> QED
    BY <1>1, <2>1, MinIsOne
<1>3. Min(Out) \in 1..n /\ Min(Out) - 1 \in 0..n
  BY <1>2
<1>4. Min(Out) - 1 \in S
  BY <1>2, <1>3
<1> QED
  BY <1>2, <1>3, <1>4

\* The forward pass goes row by row.
LEMMA ForwardPass ==
    ASSUME NEW t \in Seq(Row)
    PROVE  /\ Carried(t)[0] = NoCell
           /\ \A i \in 1..Len(t) : Carried(t)[i] = Current(t, i, Carried(t)[i - 1])
<1> DEFINE IsPass(f, n) ==
              f = [i \in 0..n |-> IF i = 0 THEN NoCell ELSE Current(t, i, f[i - 1])]
           S == {n \in 0..Len(t) : \E f : IsPass(f, n)}
<1>1. 0 \in S
  <2> DEFINE f == [i \in 0..0 |-> NoCell]
  <2>1. IsPass(f, 0)
    OBVIOUS
  <2> HIDE DEF IsPass, f
  <2>2. 0 \in 0..Len(t) /\ \E h : IsPass(h, 0)
    BY <2>1
  <2> QED
    BY <2>2
<1>2. ASSUME NEW n \in 1..Len(t), n - 1 \in S PROVE n \in S
  <2>1. PICK f : IsPass(f, n - 1)
    BY <1>2
  <2> DEFINE g == [i \in 0..n |-> IF i = n THEN Current(t, n, f[n - 1]) ELSE f[i]]
  <2>2. \A i \in 0..n : g[i] = IF i = 0 THEN NoCell ELSE Current(t, i, g[i - 1])
    <3> SUFFICES ASSUME NEW i \in 0..n
                 PROVE  g[i] = IF i = 0 THEN NoCell ELSE Current(t, i, g[i - 1])
      OBVIOUS
    <3>1. CASE i = n
      <4>1. g[n - 1] = f[n - 1] /\ g[n] = Current(t, n, f[n - 1]) /\ n # 0
        OBVIOUS
      <4> QED
        BY <3>1, <4>1
    <3>2. CASE i = 0
      BY <2>1, <3>2
    <3>3. CASE i \in 1..(n - 1)
      <4>1. g[i - 1] = f[i - 1] /\ g[i] = f[i] /\ i # 0 /\ i \in 0..(n - 1)
        BY <3>3
      <4>2. f[i] = Current(t, i, f[i - 1])
        BY <2>1, <4>1
      <4> QED
        BY <4>1, <4>2
    <3> QED
      BY <3>1, <3>2, <3>3
  <2>3. IsPass(g, n)
    BY <2>2
  <2> HIDE DEF IsPass, g
  <2>4. n \in 0..Len(t) /\ \E h : IsPass(h, n)
    BY <2>3
  <2> QED
    BY <2>4
<1> HIDE DEF IsPass
<1>3. Len(t) \in S
  <2> HIDE DEF S
  <2>1. Len(t) \in Nat /\ Len(t) \in 0..Len(t)
    OBVIOUS
  <2> QED
    BY <1>1, <1>2, <2>1, UpTo
<1>4. IsPass(Carried(t), Len(t))
  <2>1. Carried(t) = CHOOSE f : IsPass(f, Len(t))
    BY DEF Carried, IsPass
  <2> QED
    BY <1>3, <2>1
<1> QED
  <2>1. \A i \in 0..Len(t) :
          Carried(t)[i] = IF i = 0 THEN NoCell ELSE Current(t, i, Carried(t)[i - 1])
    BY <1>4 DEF IsPass
  <2> QED
    BY <2>1

\* A heading on the way is the next one.
LEMMA UpcomingIsNext ==
    ASSUME SheetInv, NEW g, NEW i \in DOMAIN table, Precedes(i, g)
    PROVE  Upcoming(table, i) = g /\ g # NoCell
<1> DEFINE ahead == {j \in i..Len(table) : _carries_a_group_label(table[j])}
<1>1. table \in Seq(Row) /\ i \in Nat
  BY DEF SheetInv, RowsArePrinted
<1>2. PICK j \in i..Len(table) :
          /\ _carries_a_group_label(table[j]) /\ table[j].group = g
          /\ \A k \in i..(j - 1) : ~_carries_a_group_label(table[k])
  BY DEF Precedes
<1>3. ahead \subseteq Nat /\ j \in ahead /\ \A k \in ahead : j <= k
  BY <1>1, <1>2
<1>4. Min(ahead) = j
  <2>1. Min(ahead) \in ahead /\ \A y \in ahead : Min(ahead) =< y
    BY <1>3, MinIsOne
  <2> DEFINE m == Min(ahead)
  <2>2. m \in Nat /\ j \in Nat /\ j <= m /\ m <= j
    BY <1>3, <2>1, Zenon
  <2> HIDE DEF m
  <2>3. m = j
    BY <2>2
  <2> QED
    BY <2>3 DEF m
<1>5. table[j].cell = g /\ g # NoCell
  <2>1. j \in DOMAIN table
    BY <1>1, <1>2
  <2> QED
    BY <1>2, <2>1, LabelsAreGroups DEF SheetInv, RowsArePrinted
<1> QED
  BY <1>3, <1>4, <1>5 DEF Upcoming

LEMMA PassIsOfThePage ==
    ASSUME SheetInv, NEW i \in 1..Len(table)
    PROVE  /\ table \in Seq(Row)
           /\ Carried(table)[0] = NoCell
           /\ Carried(table)[i] = Current(table, i, Carried(table)[i - 1])
BY ForwardPass DEF SheetInv, RowsArePrinted

\* Of a finished sheet, the group carried past a row is that of the last
\* commodity so far, or none.
LEMMA CarriedIsTheBlock ==
    ASSUME SheetInv, ~owed
    PROVE  \A i \in 0..Len(table) :
              Carried(table)[i] = NoCell \/ Follows(i + 1, Carried(table)[i])
<1> DEFINE c == Carried(table)
           S == {i \in 0..Len(table) : c[i] = NoCell \/ Follows(i + 1, c[i])}
<1>1. Len(table) \in Nat /\ DOMAIN table = 1..Len(table)
  BY DEF SheetInv, RowsArePrinted
<1>2. 0 \in S
  BY <1>1, ForwardPass DEF SheetInv, RowsArePrinted
<1>3. ASSUME NEW i \in 1..Len(table), i - 1 \in S PROVE i \in S
  <2> DEFINE r == table[i]
  <2>1. c[i] = Current(table, i, c[i - 1])
    BY PassIsOfThePage
  <2>2. c[i - 1] = NoCell \/ Follows(i, c[i - 1])
    BY <1>3
  <2> HIDE DEF c
  <2>3. CASE ~_is_data_row(r)
    <3>1. c[i] = c[i - 1]
      BY <2>1, <2>3, LabelsAreGroups DEF Current, ReachesForward
    <3>2. ASSUME NEW g, Follows(i, g) PROVE Follows(i + 1, g)
      BY <2>3, <3>2 DEF Follows
    <3> QED
      BY <2>2, <3>1, <3>2
  <2>4. ASSUME _is_data_row(r) PROVE Follows(i + 1, r.group)
    BY <2>4 DEF Follows
  <2>5. CASE _carries_a_group_label(r)
    <3>1. c[i] = r.group /\ _is_data_row(r)
      BY <1>1, <2>1, <2>5, LabelsAreGroups DEF Current, SheetInv, RowsArePrinted
    <3> QED
      BY <2>4, <3>1
  <2>6. CASE _is_data_row(r) /\ ~_carries_a_group_label(r) /\ ReachesForward(table, i)
    <3>1. Precedes(i, r.group)
      BY <1>1, <2>6 DEF SheetInv, HeadingsAreAhead
    <3>2. Upcoming(table, i) = r.group /\ r.group # NoCell
      BY <1>1, <3>1, UpcomingIsNext
    <3>3. c[i] = r.group
      BY <2>1, <2>6, <3>2 DEF Current
    <3> QED
      BY <2>4, <2>6, <3>3
  <2>7. CASE _is_data_row(r) /\ ~_carries_a_group_label(r) /\ ~ReachesForward(table, i)
    <3>1. c[i] = c[i - 1]
      BY <2>1, <2>7 DEF Current
    <3>2. ASSUME Follows(i, c[i - 1]) PROVE c[i - 1] = r.group
      <4>1. PICK j \in 1..(i - 1) :
              /\ _is_data_row(table[j]) /\ table[j].group = c[i - 1]
              /\ \A k \in (j + 1)..(i - 1) : ~_is_data_row(table[k])
        BY <3>2 DEF Follows
      <4>2. Follows(i, r.group)
        BY <1>1, <2>7, <4>1 DEF SheetInv, HeadingsAreBehind
      <4>3. PICK l \in 1..(i - 1) :
              /\ _is_data_row(table[l]) /\ table[l].group = r.group
              /\ \A k \in (l + 1)..(i - 1) : ~_is_data_row(table[k])
        BY <4>2 DEF Follows
      <4>4. j = l
        BY <4>1, <4>3
      <4> QED
        BY <4>1, <4>3, <4>4
    <3> QED
      BY <2>2, <2>4, <2>7, <3>1, <3>2
  <2> QED
    BY <2>3, <2>5, <2>6, <2>7
<1> HIDE DEF S
<1>4. \A i \in 0..Len(table) : i \in S
  BY <1>1, <1>2, <1>3, UpTo
<1> QED
  BY <1>4 DEF S

\* However a block is broken over pages, nothing is filed under a group it was
\* not printed under (bantay_presyo.py:478-502).
THEOREM CommoditiesAreFiledRight == SheetSpec => []NothingIsMisfiled
<1>1. SheetInv => NothingIsMisfiled
  <2> SUFFICES ASSUME SheetInv, NEW i \in DOMAIN resolved, _is_data_row(table[i])
               PROVE  resolved[i] \in {table[i].group, NoCell}
    BY DEF NothingIsMisfiled
  <2>1. /\ ~owed /\ i \in 1..Len(table) /\ i \in 0..Len(table)
        /\ resolved[i] = Carried(table)[i]
    BY DEF SheetInv, _group_per_row, RowsArePrinted
  <2>2. CASE Follows(i + 1, Carried(table)[i])
    BY <2>1, <2>2 DEF Follows
  <2> QED
    BY <2>1, <2>2, CarriedIsTheBlock
<1> QED
  BY <1>1, SheetsAreWellPrinted, PTL

\* Below the first heading of a sheet no commodity is refused for want of one
\* (bantay_presyo.py:604-609).
THEOREM HeadedRowsAreKept == SheetSpec => []OnlyHeadlessRowsAreRefused
<1>1. SheetInv => OnlyHeadlessRowsAreRefused
  <2> SUFFICES ASSUME SheetInv, resolved # <<>>
               PROVE  \A i \in Headless(table) : \A j \in 1..i : ~_carries_a_group_label(table[j])
    BY DEF OnlyHeadlessRowsAreRefused
  <2> DEFINE c == Carried(table)
             S == {i \in 0..Len(table) :
                     (\E j \in 1..i : _carries_a_group_label(table[j])) => c[i] # NoCell}
  <2>1. Len(table) \in Nat /\ DOMAIN table = 1..Len(table)
    BY DEF SheetInv, RowsArePrinted
  <2>2. 0 \in S
    BY <2>1
  <2>3. ASSUME NEW i \in 1..Len(table), i - 1 \in S PROVE i \in S
    <3>1. c[i] = Current(table, i, c[i - 1])
      BY PassIsOfThePage
    <3> HIDE DEF c
    <3>2. CASE _carries_a_group_label(table[i])
      BY <3>1, <3>2, LabelsAreGroups DEF Current
    <3>3. CASE ~_carries_a_group_label(table[i])
      <4>1. c[i] # NoCell \/ c[i] = c[i - 1]
        BY <3>1, <3>3 DEF Current
      <4> QED
        BY <2>3, <3>3, <4>1
    <3> QED
      BY <3>2, <3>3
  <2> HIDE DEF S
  <2>4. \A i \in 0..Len(table) : i \in S
    BY <2>1, <2>2, <2>3, UpTo
  <2>5. \A i \in DOMAIN table : resolved[i] = c[i]
    BY DEF SheetInv, _group_per_row
  <2> QED
    BY <2>1, <2>4, <2>5 DEF S, Headless
<1> QED
  BY <1>1, SheetsAreWellPrinted, PTL
=============================================================================
