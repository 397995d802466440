------------------------------ MODULE Collapse ------------------------------
(***************************************************************************)
(* The loop of collapse_duplicates (db/upsert.py), one observation a step. *)
(* "settled" maps a key to the observation to write and "disputed" maps it *)
(* to the observations reported as a conflict; a key in neither is NoFig   *)
(* and <<>>.                                                               *)
(***************************************************************************)
EXTENDS Batches

CONSTANTS
    NoFig,     \* "settled has no such key"
    MaxRows    \* bound: observations in the batch

ASSUME NoFigIsNotAFigure == NoFig \notin Figs
ASSUME MaxRowsIsNatural == MaxRows \in Nat

VARIABLES
    batch,     \* observations consumed so far
    settled,
    disputed

vars == <<batch, settled, disputed>>

Init ==
    /\ batch = <<>>
    /\ settled = [k \in Keys |-> NoFig]
    /\ disputed = [k \in Keys |-> <<>>]

Consume(o) == Len(batch) < MaxRows /\ batch' = Append(batch, o)

\* The key is disputed already: this observation joins the conflict.
JoinDispute(o) ==
    /\ Consume(o)
    /\ disputed[o.key] # <<>>
    /\ disputed' = [disputed EXCEPT ![o.key] = Append(@, o.fig)]
    /\ UNCHANGED settled

FirstMention(o) ==
    /\ Consume(o)
    /\ disputed[o.key] = <<>>
    /\ settled[o.key] = NoFig
    /\ settled' = [settled EXCEPT ![o.key] = o.fig]
    /\ UNCHANGED disputed

\* Same figures again: nothing to keep.
Agree(o) ==
    /\ Consume(o)
    /\ disputed[o.key] = <<>>
    /\ settled[o.key] = o.fig
    /\ UNCHANGED <<settled, disputed>>

\* Mutant of Disagree: the conflict is reported and one of its rows still kept.
KeepsTheFirst(o) ==
    /\ Consume(o)
    /\ disputed[o.key] = <<>>
    /\ settled[o.key] \notin {NoFig, o.fig}
    /\ disputed' = [disputed EXCEPT ![o.key] = <<settled[o.key], o.fig>>]
    /\ UNCHANGED settled

\* Other figures: the settled observation is pulled out with this one.
Disagree(o) ==
    /\ Consume(o)
    /\ disputed[o.key] = <<>>
    /\ settled[o.key] \notin {NoFig, o.fig}
    /\ disputed' = [disputed EXCEPT ![o.key] = <<settled[o.key], o.fig>>]
    /\ settled' = [settled EXCEPT ![o.key] = NoFig]

Next ==
    \E o \in Observation :
        JoinDispute(o) \/ FirstMention(o) \/ Agree(o) \/ Disagree(o)

Spec == Init /\ [][Next]_vars
-----------------------------------------------------------------------------
TypeOK ==
    /\ batch \in Seq(Observation)
    /\ settled \in [Keys -> Figs \cup {NoFig}]
    /\ disputed \in [Keys -> Seq(Figs)]

\* The loop leaves in settled exactly the keys the batch describes in one way,
\* with those figures, whatever the order and the repeats (upsert.py:171-175).
SettledIsUnanimous ==
    \A k \in Keys :
        LET figs == Described(batch, k)
        IN  \A g \in Figs : settled[k] = g <=> figs = {g}

\* A key the batch describes in several ways is reported as a conflict, and
\* nothing else is.
DisputedIsReported == {k \in Keys : disputed[k] # <<>>} = Disputed(batch)

\* Both halves: every key of the batch is written once or reported, and which
\* of the two depends on what the batch says, not on the order it says it in.
BatchIsCollapsed == SettledIsUnanimous /\ DisputedIsReported
=============================================================================
