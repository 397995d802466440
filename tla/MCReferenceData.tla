-------------------------- MODULE MCReferenceData --------------------------
EXTENDS ReferenceData, TLC

CONSTANTS butuan_city, BUTUAN_CITY, tandag_city

MCTables == <<{"caraga"}, {"rice", "pork"}, {"Rice", "Pork"}>>

Row(name, unit) == [name |-> name, unit |-> unit]

\* The second version corrects a name and the third a unit; the third adds a
\* commodity, and the alias of another is made to point at it.
MCCsv ==
    [v1 |-> [caraga |-> Row("a", "a"), rice |-> Row("a", "a"), pork |-> None,
             Rice |-> [commodity |-> "rice"], Pork |-> [commodity |-> "rice"]],
     v2 |-> [caraga |-> Row("a", "a"), rice |-> Row("b", "a"), pork |-> None,
             Rice |-> [commodity |-> "rice"], Pork |-> [commodity |-> "rice"]],
     v3 |-> [caraga |-> Row("a", "a"), rice |-> Row("a", "b"), pork |-> Row("a", "a"),
             Rice |-> [commodity |-> "rice"], Pork |-> [commodity |-> "pork"]]]

MCSheet == [s \in {"first", "second", "third"} |->
    [region |-> "caraga", raw_names |-> {"Rice", "Pork"},
     spelling |-> CASE s = "first" -> butuan_city [] s = "second" -> BUTUAN_CITY
                    [] s = "third" -> tandag_city]]

MCPlace == [m \in {butuan_city, BUTUAN_CITY, tandag_city} |->
               IF m = tandag_city THEN "tandag" ELSE "butuan"]

Permuted == Permutations(Jobs)
=============================================================================
