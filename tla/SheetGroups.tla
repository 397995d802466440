---------------------------- MODULE SheetGroups ----------------------------
(***************************************************************************)
(* Which commodity group each row of a monitoring sheet belongs to         *)
(* (sources/bantay_presyo.py).  The office prints the sheet a row a step   *)
(* and the parser resolves the groups of all its rows.  A row is its page, *)
(* its kind, what extraction finds in its group cell, and the group it was *)
(* printed under, which only the properties look at.                       *)
(***************************************************************************)
EXTENDS Naturals, Sequences, FiniteSetsExt

CONSTANTS
    Groups,     \* commodity groups
    NoCell,     \* None: no cell here, the span above covers it
    Blank,      \* "": a cell closed by ruling lines, without text
    MaxRows,    \* bound: commodities on the sheet
    MaxPages    \* bound: pages of the sheet

ASSUME CellsAreNotGroups == NoCell \notin Groups /\ Blank \notin Groups \cup {NoCell}

VARIABLES
    table,      \* the rows printed so far
    page,       \* the page being printed
    block,      \* the group being printed, NoCell before the first
    owed,       \* the heading of that block is still to be drawn
    resolved    \* the group of each row, <<>> until the sheet is parsed

sheet == <<table, page, block, owed>>
sheetVars == <<table, page, block, owed, resolved>>

Kinds == {"commodity", "block line", "empty line", "column header"}
Row == [page : Nat, kind : Kinds, cell : Groups \cup {NoCell, Blank},
        group : Groups \cup {NoCell}]
-----------------------------------------------------------------------------
\* The parser.

_is_data_row(r) == r.kind = "commodity"

\* Mutant of _carries_a_group_label: any text in the first column is a heading.
CarriesText(r) == r.cell \in Groups

_carries_a_group_label(r) == _is_data_row(r) /\ r.cell \in Groups

\* The label of the next row at or after i that has one.
Upcoming(t, i) ==
    LET ahead == {j \in i..Len(t) : _carries_a_group_label(t[j])}
    IN  IF ahead = {} THEN NoCell ELSE t[Min(ahead)].cell

\* Mutant of _rows_opening_a_page: the first row of each page, data or not.
FirstRows(t) == {i \in DOMAIN t : \A j \in 1..(i - 1) : t[j].page # t[i].page}

_rows_opening_a_page(t) ==
    {i \in DOMAIN t :
        /\ _is_data_row(t[i])
        /\ \A j \in 1..(i - 1) : _is_data_row(t[j]) => t[j].page # t[i].page}

\* Mutant of ReachesForward: an empty row of the metadata block reaches too.
AnyBlankReaches(t, i) == t[i].cell = Blank /\ i \notin _rows_opening_a_page(t)

\* Half of a split heading whose text is overleaf.
ReachesForward(t, i) ==
    /\ _is_data_row(t[i])
    /\ t[i].cell = Blank
    /\ i \notin _rows_opening_a_page(t)

\* A heading of row i's own, one it reaches forward for, or the one carried to it.
Current(t, i, carried) ==
    CASE _carries_a_group_label(t[i]) -> t[i].cell
      [] ~_carries_a_group_label(t[i]) /\ ReachesForward(t, i) /\ Upcoming(t, i) # NoCell ->
            Upcoming(t, i)
      [] OTHER -> carried

\* The forward pass over the rows.
Carried(t) ==
    LET current[i \in 0..Len(t)] ==
            IF i = 0 THEN NoCell ELSE Current(t, i, current[i - 1])
    IN  current

\* Mutant of _group_per_row: the carried heading is forgotten with the page.
GroupPerPage(t) ==
    [i \in DOMAIN t |->
        IF i \in _rows_opening_a_page(t) /\ ~_carries_a_group_label(t[i])
        THEN NoCell ELSE Carried(t)[i]]

_group_per_row(t) == [i \in DOMAIN t |-> Carried(t)[i]]

\* A row without a group is rejected; the other rejections of _build_row look at
\* one row alone and are left out.
Headless(t) == {i \in DOMAIN t : _is_data_row(t[i]) /\ resolved[i] = NoCell}

\* A table without a column header is a SheetParseError: nothing of it is read.
_read_body ==
    /\ resolved = <<>>
    /\ ~owed
    /\ \E i \in DOMAIN table : table[i].kind = "column header"
    /\ resolved' = _group_per_row(table)
    /\ UNCHANGED sheet
-----------------------------------------------------------------------------
\* The office.  A page may start with nothing, with the column header, or with
\* the metadata block again, whose lines carry text or an absorbed heading in the
\* first column and whose blank rows have an empty cell there.

Line(k, c) == [page |-> page', kind |-> k, cell |-> c, group |-> NoCell]

Furniture ==
    {<<>>, <<Line("column header", NoCell)>>} \cup
    {<<Line("block line", g), Line("empty line", Blank), Line("column header", NoCell)>> :
        g \in Groups}

Commodities(t) == {i \in DOMAIN t : t[i].kind = "commodity"}
Opens == \A i \in Commodities(table) : table[i].page # page

SheetInit ==
    /\ table = <<>>
    /\ page = 0
    /\ block = NoCell
    /\ owed = FALSE
    /\ resolved = <<>>

Printing == resolved = <<>> /\ UNCHANGED resolved

Put(cell, group) ==
    /\ Cardinality(Commodities(table)) < MaxRows
    /\ table' = Append(table,
                  [page |-> page, kind |-> "commodity", cell |-> cell, group |-> group])
    /\ block' = group
    /\ UNCHANGED page

TurnPage ==
    /\ page < MaxPages
    /\ page = 0 \/ ~Opens
    /\ page' = page + 1
    /\ \E lines \in Furniture : table' = table \o lines
    /\ UNCHANGED <<block, owed>>

\* A new block, its heading beside its first row.
StartBlock(g) ==
    /\ page > 0 /\ ~owed
    /\ \A i \in Commodities(table) : table[i].group # g
    /\ Put(g, g)
    /\ UNCHANGED owed

\* A new block near the bottom of a page, its heading drawn overleaf.  Only the
\* first page may open with one: a later page that does is a whole page of the
\* block, and carries its heading.
StartSplitBlock(g) ==
    /\ page > 0 /\ ~owed
    /\ Opens => page = 1
    /\ \A i \in Commodities(table) : table[i].group # g
    /\ Put(Blank, g)
    /\ owed' = TRUE

\* The block goes on below its first row; where the heading is overleaf each row
\* may be ruled on its own.
ContinueBlock ==
    /\ page > 0 /\ block # NoCell /\ ~Opens
    /\ \/ Put(NoCell, block)
       \/ /\ owed
          /\ Put(Blank, block)
    /\ UNCHANGED owed

\* The block goes on at the top of a page, its heading behind it.
ContinueOverleaf ==
    /\ page > 0 /\ block # NoCell /\ Opens
    /\ ~owed
    /\ \E cell \in {NoCell, Blank} : Put(cell, block)
    /\ UNCHANGED owed

\* The heading that was owed is drawn on this page, or on a later one still.
DrawHeading ==
    /\ page > 0 /\ block # NoCell /\ Opens
    /\ owed
    /\ \/ /\ Put(block, block)
          /\ owed' = FALSE
       \/ /\ Put(Blank, block)
          /\ UNCHANGED owed

PrintLine ==
    \/ TurnPage
    \/ \E g \in Groups : StartBlock(g) \/ StartSplitBlock(g)
    \/ ContinueBlock
    \/ ContinueOverleaf
    \/ DrawHeading

SheetNext ==
    \/ Printing /\ PrintLine
    \/ _read_body

SheetSpec == SheetInit /\ [][SheetNext]_sheetVars
-----------------------------------------------------------------------------
\* However a block is broken over pages, no commodity of a finished sheet is
\* filed under a group it was not printed under (bantay_presyo.py:478-502): the
\* group is part of what identifies it, so a wrong one is another commodity.
NothingIsMisfiled ==
    \A i \in DOMAIN resolved :
        _is_data_row(table[i]) => resolved[i] \in {table[i].group, NoCell}

\* A commodity is refused for want of a heading only where no heading has been
\* drawn yet on the sheet, never behind one (bantay_presyo.py:604-609).
OnlyHeadlessRowsAreRefused ==
    resolved # <<>> =>
        \A i \in Headless(table) : \A j \in 1..i : ~_carries_a_group_label(table[j])
=============================================================================
