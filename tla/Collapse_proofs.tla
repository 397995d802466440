--------------------------- MODULE Collapse_proofs ---------------------------
(***************************************************************************)
(* The loop of collapse_duplicates computes Settled and Disputed, for      *)
(* every batch.  LoopInv adds to SettledIsUnanimous what the next          *)
(* iteration needs: a disputed key is not settled, and it is disputed      *)
(* because the batch describes it in at least two ways.  The rows of a     *)
(* sheet drive that loop (RowsImplementTheLoop), so what it promises holds  *)
(* of them; what the rows add is about the figures they turn into.         *)
(***************************************************************************)
EXTENDS SheetRows, TLAPS

\* One more observation adds its figures to its own key's descriptions.
LEMMA DescribedAppend ==
    ASSUME NEW b \in Seq(Observation), NEW o \in Observation, NEW k \in Keys
    PROVE  Described(Append(b, o), k) =
               IF o.key = k THEN Described(b, k) \cup {o.fig} ELSE Described(b, k)
<1>1. /\ DOMAIN Append(b, o) = DOMAIN b \cup {Len(b) + 1}
      /\ Append(b, o)[Len(b) + 1] = o
      /\ \A i \in DOMAIN b : Append(b, o)[i] = b[i]
  OBVIOUS
<1>2. Mentions(Append(b, o), k) =
        IF o.key = k THEN Mentions(b, k) \cup {Len(b) + 1} ELSE Mentions(b, k)
  BY <1>1 DEF Mentions
<1> QED
  BY <1>1, <1>2 DEF Described, Mentions

LEMMA DescribedType ==
    ASSUME NEW b \in Seq(Observation), NEW k PROVE Described(b, k) \subseteq Figs
<1>1. \A i \in DOMAIN b : b[i] \in Observation
  OBVIOUS
<1> QED
  BY <1>1 DEF Described, Mentions, Observation

\* A key is disputed iff two of its observations disagree, and then only.
DisputedIsDisagreement ==
    \A k \in Keys :
        /\ disputed[k] # <<>> <=> \E g, h \in Described(batch, k) : g # h
        /\ disputed[k] # <<>> => settled[k] = NoFig

LoopInv == TypeOK /\ SettledIsUnanimous /\ DisputedIsDisagreement

LEMMA LoopInvInit == Init => LoopInv
<1> SUFFICES ASSUME Init PROVE LoopInv
  OBVIOUS
<1>1. \A k : Described(batch, k) = {}
  <2>1. batch = <<>> /\ DOMAIN <<>> = {}
    BY DEF Init
  <2> QED
    BY <2>1 DEF Described, Mentions
<1> QED
  BY <1>1, NoFigIsNotAFigure
  DEF Init, LoopInv, TypeOK, SettledIsUnanimous, DisputedIsDisagreement

LEMMA LoopInvNext == LoopInv /\ [Next]_vars => LoopInv'
<1> SUFFICES ASSUME LoopInv, [Next]_vars PROVE LoopInv'
  OBVIOUS
<1> USE NoFigIsNotAFigure
<1>1. CASE UNCHANGED vars
  BY <1>1 DEF vars, LoopInv, TypeOK, SettledIsUnanimous, DisputedIsDisagreement
<1>2. ASSUME NEW o \in Observation,
             JoinDispute(o) \/ FirstMention(o) \/ Agree(o) \/ Disagree(o)
      PROVE  LoopInv'
  <2>1. batch \in Seq(Observation) /\ batch' = Append(batch, o)
    BY <1>2 DEF LoopInv, TypeOK, JoinDispute, FirstMention, Agree, Disagree, Consume
  <2>2. o.key \in Keys /\ o.fig \in Figs
    BY DEF Observation
  <2>3. TypeOK'
    <3>1. /\ batch' \in Seq(Observation)
          /\ settled \in [Keys -> Figs \cup {NoFig}]
          /\ disputed \in [Keys -> Seq(Figs)]
          /\ disputed[o.key] \in Seq(Figs)
      BY <2>1, <2>2 DEF LoopInv, TypeOK
    <3>2. CASE JoinDispute(o)
      <4>1. Append(disputed[o.key], o.fig) \in Seq(Figs)
        BY <2>2, <3>1
      <4> QED
        BY <2>2, <3>1, <3>2, <4>1 DEF TypeOK, JoinDispute
    <3>3. CASE FirstMention(o) \/ Agree(o)
      BY <2>2, <3>1, <3>3 DEF TypeOK, FirstMention, Agree
    <3>4. CASE Disagree(o)
      <4>1. <<settled[o.key], o.fig>> \in Seq(Figs)
        BY <2>2, <3>1, <3>4 DEF Disagree
      <4> QED
        BY <2>2, <3>1, <3>4, <4>1 DEF TypeOK, Disagree
    <3> QED
      BY <1>2, <3>2, <3>3, <3>4
  <2>4. ASSUME NEW k \in Keys
        PROVE  /\ \A g \in Figs : settled'[k] = g <=> Described(batch', k) = {g}
               /\ disputed'[k] # <<>> <=> \E g, h \in Described(batch', k) : g # h
               /\ disputed'[k] # <<>> => settled'[k] = NoFig
    <3> DEFINE D == Described(batch, k)
    <3>1. /\ D \subseteq Figs
          /\ Described(batch', k) = IF o.key = k THEN D \cup {o.fig} ELSE D
      BY <2>1, DescribedType, DescribedAppend
    <3>2. /\ \A g \in Figs : settled[k] = g <=> D = {g}
          /\ disputed[k] # <<>> <=> \E g, h \in D : g # h
          /\ disputed[k] # <<>> => settled[k] = NoFig
      BY DEF LoopInv, SettledIsUnanimous, DisputedIsDisagreement
    <3> HIDE DEF D
    <3>3. CASE o.key # k
      <4>1. settled'[k] = settled[k] /\ disputed'[k] = disputed[k]
        BY <1>2, <2>2, <3>3
        DEF LoopInv, TypeOK, JoinDispute, FirstMention, Agree, Disagree
      <4> QED
        BY <3>1, <3>2, <3>3, <4>1
    <3>4. CASE o.key = k
      <4>1. settled[k] \in Figs \cup {NoFig} /\ disputed[k] \in Seq(Figs)
        BY DEF LoopInv, TypeOK
      <4>2. CASE JoinDispute(o)
        <5>1. /\ disputed[k] # <<>> /\ settled'[k] = settled[k]
              /\ disputed'[k] = Append(disputed[k], o.fig)
          BY <3>4, <4>2 DEF JoinDispute, LoopInv, TypeOK
        <5>2. disputed'[k] # <<>>
          BY <4>1, <5>1, <2>2
        <5> QED
          BY <3>1, <3>2, <3>4, <5>1, <5>2
      <4>3. CASE FirstMention(o)
        <5>1. /\ disputed[k] = <<>> /\ settled[k] = NoFig
              /\ settled'[k] = o.fig /\ disputed'[k] = <<>>
          BY <3>4, <4>3 DEF FirstMention, LoopInv, TypeOK
        <5>2. D = {}
          BY <3>1, <3>2, <5>1
        <5> QED
          BY <2>2, <3>1, <3>2, <3>4, <5>1, <5>2
      <4>4. CASE Agree(o)
        <5>1. /\ disputed[k] = <<>> /\ settled[k] = o.fig
              /\ settled'[k] = o.fig /\ disputed'[k] = <<>>
          BY <3>4, <4>4 DEF Agree
        <5>2. D = {o.fig}
          BY <2>2, <3>2, <5>1
        <5> QED
          BY <3>1, <3>2, <3>4, <5>1, <5>2
      <4>5. CASE Disagree(o)
        <5>1. /\ disputed[k] = <<>> /\ settled[k] \in Figs /\ settled[k] # o.fig
              /\ settled'[k] = NoFig /\ disputed'[k] = <<settled[k], o.fig>>
          BY <3>4, <4>1, <4>5 DEF Disagree, LoopInv, TypeOK
        <5>2. D = {settled[k]} /\ disputed'[k] # <<>>
          BY <3>2, <5>1
        <5> QED
          BY <2>2, <3>1, <3>2, <3>4, <5>1, <5>2
      <4> QED
        BY <1>2, <4>2, <4>3, <4>4, <4>5
    <3> QED
      BY <3>3, <3>4
  <2> QED
    BY <2>3, <2>4 DEF LoopInv, SettledIsUnanimous, DisputedIsDisagreement
<1> QED
  BY <1>1, <1>2 DEF Next

\* collapse_duplicates settles exactly the keys the batch describes in one way
\* (upsert.py:168-200).
THEOREM LoopSettles == Spec => []SettledIsUnanimous
<1>1. LoopInv => SettledIsUnanimous
  BY DEF LoopInv
<1> QED
  BY <1>1, LoopInvInit, LoopInvNext, PTL DEF Spec

\* It reports exactly the keys described in several ways, so no key of a batch
\* is dropped without a conflict.
THEOREM LoopReports == Spec => []DisputedIsReported
<1>1. LoopInv => DisputedIsReported
  <2> SUFFICES ASSUME LoopInv, NEW k \in Keys
               PROVE  disputed[k] # <<>> <=> k \in Disputed(batch)
    BY DEF DisputedIsReported, Disputed
  <2>1. Described(batch, k) \subseteq Figs
    BY DescribedType DEF LoopInv, TypeOK
  <2> QED
    BY <2>1 DEF LoopInv, DisputedIsDisagreement, Disputed, Settled
<1> QED
  BY <1>1, LoopInvInit, LoopInvNext, PTL DEF Spec
-----------------------------------------------------------------------------
(***************************************************************************)
(* The rows of a sheet.                                                    *)
(***************************************************************************)
Consumed(o) == JoinDispute(o) \/ FirstMention(o) \/ Agree(o) \/ Disagree(o)

LEMMA TakeIsAnIteration ==
    ASSUME NEW r \in RawRows, Take(r)
    PROVE  LET o == [key |-> Alias[r.name], fig |-> Pending(r)]
           IN  o \in Observation /\ Consumed(o) /\ batch' = Append(batch, o)
<1> DEFINE o == [key |-> Alias[r.name], fig |-> Pending(r)]
<1>1. o.key \in Keys /\ o.fig \in Figs
  BY NoDanglingAlias, PendingsAreFigures DEF Take, Resolved
<1>2. o \in Observation
  BY <1>1 DEF Observation
<1>3. Consumed(o)
  BY DEF Take, Consumed
<1>4. batch' = Append(batch, o)
  BY <1>3 DEF Consumed, JoinDispute, FirstMention, Agree, Disagree, Consume
<1> QED
  BY <1>2, <1>3, <1>4

LEMMA RowStepIsALoopStep == [RowNext]_rowVars => [Next]_vars
<1> SUFFICES ASSUME [RowNext]_rowVars PROVE [Next]_vars
  OBVIOUS
<1>1. CASE UNCHANGED rowVars
  BY <1>1 DEF rowVars
<1>2. ASSUME NEW r \in RawRows, Reject(r) \/ HoldUnresolved(r) PROVE UNCHANGED vars
  BY <1>2 DEF Reject, HoldUnresolved
<1>3. ASSUME NEW r \in RawRows, Take(r) PROVE Next
  BY <1>3, TakeIsAnIteration DEF Next, Consumed
<1> QED
  BY <1>1, <1>2, <1>3 DEF RowNext

\* Reading a sheet row by row implements the loop over the batch: what rejects
\* or holds a row is a stutter of it, what takes one an iteration.
THEOREM RowsImplementTheLoop == RowSpec => Spec
<1>1. RowInit => Init
  BY DEF RowInit
<1> QED
  BY <1>1, RowStepIsALoopStep, PTL DEF RowSpec, Spec

\* Of a sheet's rows, those that agree on a commodity are written, and those
\* alone; whatever else a sheet says of a commodity is reported as a conflict
\* (upsert.py:168-200).
THEOREM RowsAreCollapsed == RowSpec => []BatchIsCollapsed
  BY RowsImplementTheLoop, LoopSettles, LoopReports, PTL DEF BatchIsCollapsed

\* The figures a row of the table can turn into.
Pendings == {Pending(r) : r \in {r \in RawRows : _build_row(r)}}

\* The batch and what is settled of it hold nothing else.
RowInv ==
    /\ TypeOK
    /\ \A i \in DOMAIN batch : batch[i].fig \in Pendings
    /\ \A k \in Keys : settled[k] # NoFig => settled[k] \in Pendings

LEMMA RowInvInit == RowInit => RowInv
<1> SUFFICES ASSUME RowInit PROVE RowInv
  OBVIOUS
<1>1. batch = <<>> /\ DOMAIN <<>> = {} /\ \A k \in Keys : settled[k] = NoFig
  BY DEF RowInit, Init
<1> QED
  BY <1>1, NoFigIsNotAFigure DEF RowInit, Init, RowInv, TypeOK

LEMMA RowInvNext == LoopInv /\ RowInv /\ [RowNext]_rowVars => RowInv'
<1> SUFFICES ASSUME LoopInv, RowInv, [RowNext]_rowVars PROVE RowInv'
  OBVIOUS
<1>1. TypeOK'
  BY RowStepIsALoopStep, LoopInvNext DEF LoopInv
<1>2. CASE UNCHANGED vars
  BY <1>1, <1>2 DEF RowInv, vars
<1>3. ASSUME NEW r \in RawRows, Take(r) PROVE RowInv'
  <2> DEFINE o == [key |-> Alias[r.name], fig |-> Pending(r)]
  <2>1. /\ o \in Observation /\ Consumed(o) /\ batch' = Append(batch, o)
        /\ o.fig \in Pendings
    BY <1>3, TakeIsAnIteration DEF Take, Pendings
  <2> HIDE DEF o
  <2>2. ASSUME NEW i \in DOMAIN batch' PROVE batch'[i].fig \in Pendings
    <3>1. batch \in Seq(Observation)
      BY DEF RowInv, TypeOK
    <3>2. CASE i \in DOMAIN batch
      BY <2>1, <3>1, <3>2 DEF RowInv
    <3>3. CASE i \notin DOMAIN batch
      <4>1. i = Len(batch) + 1 /\ batch'[i] = o
        BY <2>1, <2>2, <3>1, <3>3
      <4> QED
        BY <2>1, <4>1
    <3> QED
      BY <3>2, <3>3
  <2>3. ASSUME NEW k \in Keys, settled'[k] # NoFig PROVE settled'[k] \in Pendings
    <3>1. o.key \in Keys /\ settled \in [Keys -> Figs \cup {NoFig}]
      BY <2>1 DEF Observation, RowInv, TypeOK
    <3>2. settled'[k] \in {settled[k], o.fig, NoFig}
      BY <2>1, <3>1 DEF Consumed, JoinDispute, FirstMention, Agree, Disagree
    <3> QED
      BY <2>1, <2>3, <3>2 DEF RowInv
  <2> QED
    BY <1>1, <2>2, <2>3 DEF RowInv
<1> QED
  BY <1>2, <1>3 DEF RowNext, Reject, HoldUnresolved, rowVars

LEMMA RowInvHolds == RowSpec => []RowInv
<1>1. RowInit => LoopInv
  BY LoopInvInit DEF RowInit
<1>2. LoopInv /\ [RowNext]_rowVars => LoopInv'
  BY RowStepIsALoopStep, LoopInvNext
<1> QED
  BY <1>1, <1>2, RowInvInit, RowInvNext, PTL DEF RowSpec

\* Rounding keeps the order of amounts and what it has rounded.
LEMMA Rounding ==
    ASSUME NEW a \in Nat \cup {Blank}
    PROVE  /\ _quantize(a) \in Nat \cup {Blank}
           /\ _quantize(a) = Blank <=> a = Blank
           /\ Column(_quantize(a)) = _quantize(a)
           /\ \A b \in Nat \cup {Blank} : ~Below(a, b) => ~Below(_quantize(a), _quantize(b))
<1> USE MarkersAreNoAmounts
<1> DEFINE R(n) == 10 * ((n + 5) \div 10)
<1>1. \A n \in Nat : R(n) \in Nat /\ (R(n) + 5) \div 10 = (n + 5) \div 10
  OBVIOUS
<1>2. \A m, n \in Nat : m >= n => R(m) >= R(n)
  OBVIOUS
<1>3. \A n \in Nat : _quantize(n) = R(n) /\ Column(n) = R(n)
  BY DEF _quantize, Column
<1>4. _quantize(Blank) = Blank /\ Column(Blank) = Blank
  BY DEF _quantize, Column
<1> HIDE DEF R
<1>5. \A n \in Nat : R(R(n)) = R(n)
  BY <1>1 DEF R
<1>6. ASSUME NEW b \in Nat \cup {Blank}, ~Below(a, b)
      PROVE  ~Below(_quantize(a), _quantize(b))
  <2>1. CASE a = Blank \/ b = Blank
    BY <1>4, <2>1 DEF Below
  <2>2. CASE a \in Nat /\ b \in Nat
    <3>1. a >= b
      BY <1>6, <2>2 DEF Below
    <3>2. R(a) \in Nat /\ R(b) \in Nat /\ R(a) >= R(b)
      BY <1>1, <1>2, <2>2, <3>1
    <3> QED
      BY <1>3, <2>2, <3>2 DEF Below
  <2> QED
    BY <2>1, <2>2
<1>7. CASE a = Blank
  BY <1>4, <1>6, <1>7
<1>8. CASE a \in Nat
  <2>1. R(a) \in Nat /\ _quantize(a) = R(a) /\ Column(R(a)) = R(a)
    BY <1>1, <1>3, <1>5, <1>8
  <2> QED
    BY <1>6, <1>8, <2>1
<1> QED
  BY <1>7, <1>8

LEMMA PendingsAreSound ==
    ASSUME NEW f \in Pendings
    PROVE  /\ Ordered(f) /\ BlankIfUnavailable(f)
           /\ \A c \in Columns : f[c] \in Nat \cup {Blank} /\ Column(f[c]) = f[c]
<1>1. PICK r \in RawRows : _build_row(r) /\ f = Pending(r)
  BY DEF Pendings
<1>2. \A c \in Columns : r[c] \in Nat \cup {Blank}
  BY <1>1, RowsAreRead DEF _build_row, Prices
<1>3. \A c \in Columns : f[c] = _quantize(r[c])
  BY <1>1 DEF Pending, Columns
<1>4. Ordered(f)
  <2>1. ~Below(r.high, r.low)
    BY <1>1 DEF _build_row, Ordered
  <2> QED
    BY <1>2, <1>3, <2>1, Rounding DEF Ordered, Columns
<1>5. BlankIfUnavailable(f)
  <2> SUFFICES ASSUME f.unavailable PROVE Prices(f) = {Blank}
    BY DEF BlankIfUnavailable
  <2>1. \A c \in Columns : r[c] = Blank
    BY <1>1 DEF Pending, Prices
  <2>2. \A c \in Columns : f[c] = Blank
    BY <1>3, <2>1 DEF _quantize
  <2> QED
    BY <2>2 DEF Prices, Columns
<1> QED
  BY <1>2, <1>3, <1>4, <1>5, Rounding

\* No row ends the run: what _build_row lets through, PendingObservation accepts
\* after rounding it (upsert.py:98-110).
THEOREM RowsAreValid == RowSpec => []PendingRowsAreValid
<1>1. RowInv => PendingRowsAreValid
  BY PendingsAreSound DEF RowInv, PendingRowsAreValid
<1> QED
  BY <1>1, RowInvHolds, PTL

\* What is written is what the table keeps, so a rerun finds it unchanged
\* (upsert.py:56-63).
THEOREM RerunsAreQuiet == RowSpec => []ARerunIsQuiet
<1>1. RowInv => ARerunIsQuiet
  BY PendingsAreSound DEF RowInv, ARerunIsQuiet
<1> QED
  BY <1>1, RowInvHolds, PTL

\* The quality page and /anomalies agree on what is impossible.
THEOREM QualityAgrees == RowSpec => []QualityCountsTheImpossible
<1>1. RowInv => QualityCountsTheImpossible
  BY PendingsAreSound
  DEF RowInv, QualityCountsTheImpossible, CountedImpossible, is_impossible, Ordered, Below
<1> QED
  BY <1>1, RowInvHolds, PTL

\* No more rows are counted than the sheet has.
CountInv ==
    /\ rejected \in Nat /\ unresolved \in Nat
    /\ Len(batch) + rejected + unresolved <= MaxRows

LEMMA CountInvHolds == RowSpec => []CountInv
<1>1. RowInit => CountInv
  BY MaxRowsIsNatural DEF RowInit, Init, CountInv
<1>2. RowInv /\ CountInv /\ [RowNext]_rowVars => CountInv'
  <2> SUFFICES ASSUME RowInv, CountInv, [RowNext]_rowVars PROVE CountInv'
    OBVIOUS
  <2> USE MaxRowsIsNatural
  <2>1. Len(batch) \in Nat
    BY DEF RowInv, TypeOK
  <2>2. CASE UNCHANGED rowVars
    BY <2>2 DEF rowVars, vars, CountInv
  <2>3. ASSUME MoreRows, NEW r \in RawRows, Reject(r) \/ HoldUnresolved(r)
        PROVE  CountInv'
    BY <2>1, <2>3 DEF MoreRows, Reject, HoldUnresolved, vars, CountInv
  <2>4. ASSUME MoreRows, NEW r \in RawRows, Take(r) PROVE CountInv'
    <3>1. PICK o \in Observation : batch' = Append(batch, o)
      BY <2>4, TakeIsAnIteration
    <3>2. Len(batch') = Len(batch) + 1
      BY <3>1 DEF RowInv, TypeOK
    <3> QED
      BY <2>1, <2>4, <3>2 DEF MoreRows, Take, CountInv
  <2> QED
    BY <2>2, <2>3, <2>4 DEF RowNext
<1> QED
  BY <1>1, <1>2, RowInvHolds, PTL DEF RowSpec

\* What the rows leave is of its type, and no row is counted twice.
THEOREM RowsAreTyped == RowSpec => []RowTypeOK
<1>1. RowInv /\ CountInv => RowTypeOK
  <2> SUFFICES ASSUME RowInv, CountInv PROVE RowTypeOK
    OBVIOUS
  <2>1. Len(batch) \in Nat
    BY DEF RowInv, TypeOK
  <2> QED
    BY <2>1, MaxRowsIsNatural DEF RowInv, CountInv, RowTypeOK
<1> QED
  BY <1>1, RowInvHolds, CountInvHolds, PTL
=============================================================================
