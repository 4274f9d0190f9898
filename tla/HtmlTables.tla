----------------------------- MODULE HtmlTables -----------------------------
(***************************************************************************)
(* A table of env.rhino.1.2.js and the calls that give it rows and cells.  *)
(* The page that is parsed leaves white space between the rows, and header *)
(* cells among the cells; the calls count rows and cells, but walk over    *)
(* all the children.                                                       *)
(*                                                                         *)
(* A child of the table is a section or a row, a child of a section is a   *)
(* row or white space.  No table is inside another.                        *)
(***************************************************************************)
EXTENDS Integers, Sequences, SequencesExt, FiniteSets

CONSTANTS Sections, \* the sections a page may start with
          MaxRows,  \* bound: the rows ever made
          MaxCells  \* bound: the cells ever made

VARIABLES table, \* the children of the table
          made   \* how many rows and cells there ever were

vars == <<table, made>>

Row(id) == [tag |-> "tr", id |-> id, cells |-> <<>>]
Cell(id, cellIndex) == [tag |-> "td", id |-> id, cellIndex |-> cellIndex]
Section(tag) == [tag |-> tag, childNodes |-> <<>>]

IsRow(n) == n.tag = "tr"
IsCell(n) == n.tag = "td"
IsSection(n) == n.tag \in {"thead", "tbody", "tfoot"}

(* What a page may start with: the children that a table and its sections  *)
(* and rows can have, where the head is before the rows and sections, and  *)
(* there is one head and one foot at most.                                 *)
Space == [tag |-> "#text"]
CellNodes == [tag : {"td", "th"}, id : Nat, cellIndex : Int]
RowNodes == [tag : {"tr"}, id : Nat, cells : Seq(CellNodes)]
SectionNodes == [tag : {"thead", "tbody", "tfoot"}, childNodes : Seq(RowNodes \cup {Space})]
TableNodes == RowNodes \cup SectionNodes \cup {Space}
HeadFirst(nodes) ==
    \A i, j \in DOMAIN nodes :
        /\ nodes[i].tag \in {"thead", "tfoot"} /\ nodes[j].tag = nodes[i].tag => i = j
        /\ nodes[i].tag = "thead" /\ nodes[j] # Space => i <= j
IsPage(nodes) == nodes \in Seq(TableNodes) /\ HeadFirst(nodes)

-----------------------------------------------------------------------------
(* Where the rows are: a path leads to a child of the table, or to a child *)
(* of that.  getElementsByTagName finds them in the order of the document. *)

(* The places in a list of children where the tag is this.                 *)
Places(nodes, tag) ==
    FlattenSeq([i \in DOMAIN nodes |-> IF nodes[i].tag = tag THEN <<i>> ELSE <<>>])
PathsAt(i, tag) ==
    LET below == IF IsSection(table[i]) THEN Places(table[i].childNodes, tag) ELSE <<>>
    IN  (IF table[i].tag = tag THEN <<<<i>>>> ELSE <<>>) \o [k \in DOMAIN below |-> <<i, below[k]>>]
ByTagName(tag) == FlattenSeq([i \in DOMAIN table |-> PathsAt(i, tag)])
SectionRows(i) == Places(table[i].childNodes, "tr")
At(path) == IF Len(path) = 1 THEN table[path[1]] ELSE table[path[1]].childNodes[path[2]]

(* The table with a list of children changed.                              *)
ChildNodes(parent) == IF parent = <<>> THEN table ELSE table[parent[1]].childNodes
WithChildNodes(parent, nodes) ==
    IF parent = <<>> THEN nodes ELSE [table EXCEPT ![parent[1]].childNodes = nodes]
WithRow(path, row) ==
    WithChildNodes(Front(path), [ChildNodes(Front(path)) EXCEPT ![Last(path)] = row])

(* The place idx children after the first, as a walk over nextSibling      *)
(* finds it; 0 if the walk falls off the end.  The place behind the last   *)
(* child is null, and to insert before null is to append.                  *)
WalkShort(nodes, idx) == IF idx <= Len(nodes) THEN (IF idx < 1 THEN 1 ELSE idx) ELSE 0
Walk(nodes, idx) == IF idx <= Len(nodes) THEN (IF idx < 0 THEN 0 ELSE idx) + 1 ELSE 0

-----------------------------------------------------------------------------
(* The calls.                                                              *)

RowCells(row) == Places(row.cells, "td")

(* createTHead and createTFoot answer the one there is.                    *)
CreateTHead ==
    /\ table' = IF ByTagName("thead") # <<>> THEN table ELSE <<Section("thead")>> \o table
    /\ UNCHANGED made
CreateTFoot ==
    /\ table' = IF ByTagName("tfoot") # <<>> THEN table ELSE Append(table, Section("tfoot"))
    /\ UNCHANGED made
DeleteSection(tag) ==
    /\ table' = IF ByTagName(tag) = <<>> THEN table
                ELSE RemoveAt(table, ByTagName(tag)[1][1])
    /\ UNCHANGED made

(* HTMLTableElement.insertRow: at the end of the table itself, or before   *)
(* the row that has the index, in its parent.  An index that is larger     *)
(* throws, and so does a negative one other than -1.                       *)
InsertRow(idx) ==
    LET rows == ByTagName("tr")
        row  == Row(made.rows)
    IN  /\ made.rows < MaxRows
        /\ idx \in -1..Len(rows)
        /\ table' = IF idx \in {-1, Len(rows)} THEN Append(table, row)
                    ELSE LET parent == Front(rows[idx + 1]) IN
                         WithChildNodes(parent,
                             InsertAt(ChildNodes(parent), Last(rows[idx + 1]), row))
        /\ made' = [made EXCEPT !.rows = @ + 1]

DeleteRow(idx) ==
    LET path == ByTagName("tr")[idx + 1] IN
    /\ idx + 1 \in DOMAIN ByTagName("tr")
    /\ table' = WithChildNodes(Front(path), RemoveAt(ChildNodes(Front(path)), Last(path)))
    /\ UNCHANGED made

(* HTMLTableSectionElement.insertRow walks over the children.              *)
SectionInsertRow(i, idx) ==
    LET rows  == SectionRows(i)
        nodes == table[i].childNodes
        place == IF idx \in {-1, Len(rows)} THEN Len(nodes) + 1 ELSE Walk(nodes, idx)
    IN  /\ IsSection(table[i]) /\ made.rows < MaxRows
        /\ idx \in -2..Len(rows) /\ place > 0
        /\ table' = WithChildNodes(<<i>>, InsertAt(nodes, place, Row(made.rows)))
        /\ made' = [made EXCEPT !.rows = @ + 1]
SectionDeleteRow(i, idx) ==
    LET rows == SectionRows(i) IN
    /\ IsSection(table[i]) /\ idx + 1 \in DOMAIN rows
    /\ table' = WithChildNodes(<<i>>, RemoveAt(table[i].childNodes, rows[idx + 1]))
    /\ UNCHANGED made

(* HTMLTableRowElement.insertCell: a header cell is a child, not a cell.   *)
(* The cell keeps the index that was asked for, even -1.                   *)
InsertCell(path, idx) ==
    LET row   == At(path)
        cells == RowCells(row)
        place == IF idx \in {-1, Len(cells)} THEN Len(row.cells) + 1 ELSE Walk(row.cells, idx)
        cell  == Cell(made.cells, idx)
    IN  /\ made.cells < MaxCells
        /\ idx \in -1..Len(cells) /\ place > 0
        /\ table' = WithRow(path, [row EXCEPT !.cells = InsertAt(row.cells, place, cell)])
        /\ made' = [made EXCEPT !.cells = @ + 1]
DeleteCell(path, idx) ==
    LET row   == At(path)
        cells == RowCells(row)
    IN  /\ idx + 1 \in DOMAIN cells
        /\ table' = WithRow(path, [row EXCEPT !.cells = RemoveAt(row.cells, cells[idx + 1])])
        /\ UNCHANGED made

Init ==
    /\ \E sections \in Sections : table = sections
    /\ made = [rows |-> 1, cells |-> 1]

Next ==
    \/ CreateTHead \/ CreateTFoot
    \/ \E tag \in {"thead", "tfoot"} : DeleteSection(tag)
    \/ \E idx \in -2..MaxRows :
          \/ InsertRow(idx) \/ DeleteRow(idx)
          \/ \E i \in DOMAIN table : SectionInsertRow(i, idx) \/ SectionDeleteRow(i, idx)
    \/ \E path \in ToSet(ByTagName("tr")), idx \in -1..MaxCells :
          InsertCell(path, idx) \/ DeleteCell(path, idx)

Spec == Init /\ [][Next]_vars

-----------------------------------------------------------------------------
Rows == LET rows == ByTagName("tr") IN [k \in DOMAIN rows |-> At(rows[k]).id]
RowsIn(i) ==
    LET rows == SectionRows(i) IN [k \in DOMAIN rows |-> table[i].childNodes[rows[k]].id]
Cells(path) ==
    LET cells == RowCells(At(path)) IN [k \in DOMAIN cells |-> At(path).cells[cells[k]].id]

HeadComesFirst ==
    /\ \A tag \in {"thead", "tfoot"} : Len(ByTagName(tag)) <= 1
    /\ \A head \in ToSet(ByTagName("thead")), row \in ToSet(ByTagName("tr")) :
          head[1] <= row[1]

(* The list afterwards is the one before with the new one at an index; a   *)
(* negative index is behind the last.                                      *)
IsInserted(after, before, idx, new) ==
    LET place == IF idx < 0 THEN Len(before) + 1 ELSE idx + 1 IN
    after = InsertAt(before, place, new)
PlainUpto(nodes, idx, Test(_)) == \A j \in 1..idx : j \in DOMAIN nodes => Test(nodes[j])

(* insertRow and insertCell put the new one at the index that was asked    *)
(* for, among the rows of the table or the section and the cells of the    *)
(* row, and leave the order of the others - as long as the walk over the   *)
(* children of a section or of a row meets no white space, no header cell. *)
(* And however often heads and feet are made and deleted, there is at most *)
(* one of each, and no row comes before the head.                          *)
PutsWhereAsked ==
    /\ made'.rows # made.rows =>
          \A idx \in -1..MaxRows :
              /\ InsertRow(idx) =>
                    IsInserted(Rows', Rows, idx, made.rows)
              /\ \A i \in DOMAIN table :
                    SectionInsertRow(i, idx) /\ PlainUpto(table[i].childNodes, idx, IsRow) =>
                        IsInserted(RowsIn(i)', RowsIn(i), idx, made.rows)
    /\ made'.cells # made.cells =>
          \A path \in ToSet(ByTagName("tr")), idx \in -1..MaxCells :
              InsertCell(path, idx) /\ PlainUpto(At(path).cells, idx, IsCell) =>
                  IsInserted(Cells(path)', Cells(path), idx, made.cells)
    /\ HeadComesFirst'
=============================================================================
