------------------------------ MODULE Batches -------------------------------
(***************************************************************************)
(* A batch is what upsert_observations (db/upsert.py) receives: the        *)
(* resolved observations of one source file, in sheet order.  These        *)
(* operators say what collapse_duplicates leaves of one; Collapse.tla      *)
(* checks and proves that its loop computes them.                          *)
(*                                                                         *)
(* A natural key (source, market, commodity, day) is a number, ordered as  *)
(* sorted() orders the tuples.  The five figures of a row are one value of *)
(* Figs: the code only ever compares the five of them together.            *)
(***************************************************************************)
EXTENDS Naturals, Sequences

CONSTANTS
    Keys,   \* natural keys of price_observations
    Figs    \* (low, high, prevailing, average, unavailable) tuples

ASSUME KeysAreOrdered == Keys \subseteq Nat

Observation == [key : Keys, fig : Figs]

\* Where the batch mentions key k.
Mentions(b, k) == {i \in DOMAIN b : b[i].key = k}

\* Every way the batch describes key k.
Described(b, k) == {b[i].fig : i \in Mentions(b, k)}

\* Keys the batch describes in exactly one way: repeats that agree collapse.
Settled(b) ==
    {k \in Keys : LET figs == Described(b, k) IN \E g \in Figs : figs = {g}}

\* Keys it describes in several ways: not one of their rows is written.
Disputed(b) == {k \in Keys : Described(b, k) # {}} \ Settled(b)

FigOf(b, k) == CHOOSE g \in Figs : Described(b, k) = {g}

\* Where the batch first mentions k: a dict iterates in that order.
FirstAt(b, k) == CHOOSE i \in Mentions(b, k) : \A j \in Mentions(b, k) : i <= j
=============================================================================
