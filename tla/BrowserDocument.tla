--------------------------- MODULE BrowserDocument ---------------------------
(***************************************************************************)
(* The document of env.rhino.1.2.js: the modules on its nodes, their texts *)
(* and attributes, and on what an HTML document adds to them.  Each keeps  *)
(* its own part of a document and is checked by itself: in a behaviour one *)
(* of them runs and the variables of the others stay as they are.          *)
(* errorChecking is the one thing they share.                              *)
(***************************************************************************)
EXTENDS DomAttributes

CONSTANTS Running,  \* the modules that run
          Nodes, Fragments, Leaves, Owners, DocumentOf, NoNode, Tolerated,
          Characters, MaxText, MaxNodes, Null,
          Sections, MaxRows, MaxCells,
          Texts, Untitled, MaxElements,
          Named, TagOf, ElementNames

ASSUME DocumentAssumption ==
    /\ Running \subseteq {"tree", "text", "attributes", "tables", "document", "names"}
    /\ IsFiniteSet(Nodes)
    /\ Fragments \subseteq Nodes /\ Leaves \subseteq Nodes \ Fragments
    /\ DocumentOf \in [Nodes -> Owners]
    /\ NoNode \notin Nodes
    /\ TagOf \in [Named -> {"form", "object", "img"}]
    /\ None \notin ElementNames \cup Named
    /\ Null \notin Seq(Characters \cup {Null})

VARIABLES running,
          dom, replaced, mishaps,
          root, emptySplit,
          table, tableMade,
          childNodes, made, known,
          elementAttributes, inTree, getters, parted

Tree     == INSTANCE DomTree WITH Documents <- Owners
Text     == INSTANCE DomText WITH MaxLength <- MaxText
Tables   == INSTANCE HtmlTables WITH made <- tableMade
Document == INSTANCE HtmlDocument
Naming   == INSTANCE HtmlNames WITH Elements <- Named, Names <- ElementNames,
                                    attributes <- elementAttributes, mishaps <- parted

ASSUME TablesAssumption == \A page \in Sections : Tables!IsPage(page)

tree == <<dom, replaced, mishaps>>
text == <<root, emptySplit>>
attributeMaps == <<attributes, attr, doubled>>
tables == <<table, tableMade>>
document == <<childNodes, made, known>>
names == <<elementAttributes, inTree, getters, parted>>
all == <<running, errorChecking, tree, text, attributeMaps, tables, document, names>>

(* One that does not run needs only one of its initial states.             *)
DocumentInit ==
    /\ running \in Running
    /\ Init /\ Tree!Init /\ Text!Init /\ Tables!Init /\ Document!Init
    /\ Naming!Init
    /\ running \notin {"tree", "text", "attributes"} => ~errorChecking
    /\ running # "tables" => table = CHOOSE s \in Sections : TRUE
    /\ running # "document" => childNodes = <<>>

DocumentNext ==
    /\ UNCHANGED running
    /\ \/ /\ running = "tree" /\ Tree!Next
          /\ UNCHANGED <<text, attributeMaps, tables, document, names>>
       \/ /\ running = "text" /\ Text!Next
          /\ UNCHANGED <<tree, attributeMaps, tables, document, names>>
       \/ /\ running = "attributes" /\ Next
          /\ UNCHANGED <<tree, text, tables, document, names>>
       \/ /\ running = "tables" /\ Tables!Next
          /\ UNCHANGED <<errorChecking, tree, text, attributeMaps, document, names>>
       \/ /\ running = "document" /\ Document!Next
          /\ UNCHANGED <<errorChecking, tree, text, attributeMaps, tables, names>>
       \/ /\ running = "names" /\ Naming!Next
          /\ UNCHANGED <<errorChecking, tree, text, attributeMaps, tables, document>>

DocumentSpec == DocumentInit /\ [][DocumentNext]_all

-----------------------------------------------------------------------------
(* The properties are those of the modules; MapsAgree is of DomAttributes. *)

(* A call that is checked changes one attribute of one element.            *)
CallsTouchOneName == [][running = "attributes" => TouchesOneName]_all

(* The lists of children and the links tell the same tree.                 *)
LinksAgree == running = "tree" => Tree!LinksAgree

(* Cutting and joining texts keeps their text; clones are equal.           *)
TextKept == [][running = "text" => Text!KeepsText]_all

(* A new row or cell is where it was asked for; the head comes first.      *)
RowsAreWhereAsked == [][running = "tables" => Tables!PutsWhereAsked]_all

(* The getters of a document keep to what they answered.                   *)
AnswersStand == running = "document" => Document!AnswersStand

(* document.x is the element that is named x.                              *)
NamesAgree == running = "names" => Naming!NamesAgree
=============================================================================
