---------------------------- MODULE PriceHistory ----------------------------
(***************************************************************************)
(* What the observation store promises its readers, with no transaction,   *)
(* lock or table in sight.  Every natural key has a list of the figures    *)
(* published for it, oldest first, each with the file they first came      *)
(* from.  Publishing a file is one indivisible step: every key the file    *)
(* settles ends up with the file's figures, a key whose figures did not    *)
(* change keeps its list and the file it credits, and nothing is ever      *)
(* taken out of a list.                                                    *)
(***************************************************************************)
EXTENDS Sheets

VARIABLE history

Publication == [fig : Figs, file : Files]

Latest(h) == h[Len(h)]

Changes(h, f, k) == k \in Settled(Sheet[f]) /\ (h = <<>> \/ Latest(h).fig # FigOf(Sheet[f], k))

Init == history = [k \in Keys |-> <<>>]

Publish(f) ==
    history' = [k \in Keys |->
        IF Changes(history[k], f, k)
        THEN Append(history[k], [fig |-> FigOf(Sheet[f], k), file |-> f])
        ELSE history[k]]

Next == \E f \in Files : Publish(f)

Spec == Init /\ [][Next]_history
=============================================================================
