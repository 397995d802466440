---------------------------- MODULE MCSheetRows -----------------------------
(***************************************************************************)
(* The rows of a sheet with two commodities: rice, under two names, and    *)
(* corn.  Every combination of prices for rice; for the others one that    *)
(* can be stored, one that agrees with it once rounded, and one in dispute.*)
(***************************************************************************)
EXTENDS SheetRows

\* 52.0, 52.4, 52.5 and 52.6 centavos: the last two round to 53.
MCColumn == [c \in Columns |->
    CASE c = "prevailing" -> {Blank, 525}
      [] c = "average"    -> {Blank, 524, 525, 526, Unreadable}
      [] OTHER            -> {Blank, 520, 525, 526}]

Row(headed, name, unit, low, high, prevailing, average) ==
    [headed |-> headed, name |-> name, unit |-> unit, low |-> low, high |-> high,
     prevailing |-> prevailing, average |-> average]

MCRawRows ==
    {Row(TRUE, "rice", "kg", l, h, p, a) :
        l \in MCColumn["low"], h \in MCColumn["high"],
        p \in MCColumn["prevailing"], a \in MCColumn["average"]}
    \cup {Row(TRUE, n, "kg", 520, 526, Blank, a) :
        n \in {"well-milled rice", "corn"}, a \in {524, 525, 526}}
    \cup {Row(TRUE, n, u, 520, 526, Blank, 525) :
        n \in {"corn", "maize"}, u \in {"kg", "sack", NoUnit}}
    \cup {Row(FALSE, "rice", "kg", 520, 526, Blank, 525)}

MCAlias == [n \in {"rice", "well-milled rice", "corn"} |-> IF n = "corn" THEN 2 ELSE 1]
MCUnitOf == [k \in Keys |-> "kg"]

\* Prices rounded to the centavo, and as printed.
MCFigs ==
    [low : {Blank, 520, 525, 526, 530}, high : {Blank, 520, 525, 526, 530},
     prevailing : {Blank, 525, 530}, average : {Blank, 520, 524, 525, 526, 530},
     unavailable : BOOLEAN]
=============================================================================
