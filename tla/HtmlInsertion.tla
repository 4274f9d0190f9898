--------------------------- MODULE HtmlInsertion ---------------------------
(***************************************************************************)
(* How env.rhino.1.2.js loads what the elements of a page refer to: images *)
(* when their src is written, links and frames when they have an address   *)
(* and a parent, scripts when they come into the head.  An element comes   *)
(* into the document from the parser, from a script that makes it and puts *)
(* it there, or from markup given to innerHTML, which is parsed into       *)
(* another document and copied.  A frame without an address is not counted *)
(* as loaded, nor is the frame in that other document.                     *)
(***************************************************************************)
EXTENDS Naturals

CONSTANTS Elements,  \* elements of the page
          Kinds      \* a subset of "img", "link", "script", "iframe"

VARIABLES parsing,   \* the document's: its markup is still being parsed
          element    \* the state of each element that exists; ghosts: "puts"
                     \* and "sets", how often it was put somewhere and its
                     \* address written, "early", by a script of the page that
                     \* ran before the page was parsed

vars == <<parsing, element>>

Places == {"head", "body"}
Unborn ==
    [kind |-> "none", addressed |-> FALSE, place |-> "none", by |-> "none",
     loads |-> 0, puts |-> 0, sets |-> 0, early |-> FALSE]
Count(b) == IF b THEN 1 ELSE 0

Init == parsing = TRUE /\ element = [e \in Elements |-> Unborn]

(* Appended to the document, an element is loaded unless it is left to the *)
(* parser; an image is not, and a script only in the head.                 *)
LoadsWhenAppended(kind, addressed, place) ==
    /\ ~parsing
    /\ \/ kind \in {"link", "iframe"} /\ addressed
       \/ kind = "script" /\ place = "head"

(* Mutant: whether a link or a frame has a parent is not asked. *)
LoadsAnywhere(kind, place) == kind \in {"link", "iframe"} \/ (kind = "img" /\ ~parsing)

(* Its src written, an image is loaded, unless by the parser; a link or a  *)
(* frame only when it has a parent.                                        *)
LoadsWhenAddressed(kind, place) ==
    \/ kind = "img" /\ ~parsing
    \/ kind \in {"link", "iframe"} /\ place # "none"

Put(record, place, by) ==
    [record EXCEPT !.place = place, !.by = by,
                   !.puts = record.puts + 1, !.early = record.early \/ parsing]

-----------------------------------------------------------------------------
(* The parser has read an element to its end, and loads it.                *)
ElementPopped(e, kind, addressed, place) ==
    /\ parsing
    /\ element[e].kind = "none"
    /\ element' = [element EXCEPT ![e] =
           [kind |-> kind, addressed |-> addressed, place |-> place, by |-> "parser",
            loads |-> Count(addressed \/ kind = "script"),
            puts |-> 1, sets |-> Count(addressed), early |-> FALSE]]
    /\ UNCHANGED parsing

(* The parser has read the end of the page.                                *)
HtmlPopped == parsing /\ parsing' = FALSE /\ UNCHANGED element

CreateElement(e, kind) ==
    /\ element[e].kind = "none"
    /\ element' = [element EXCEPT ![e].kind = kind]
    /\ UNCHANGED parsing

(* A script writes the src or href of an element.                          *)
SetAddress(e) ==
    /\ element[e].kind # "none" /\ element[e].sets < 2
    /\ element' = [element EXCEPT ![e] =
           [element[e] EXCEPT
               !.addressed = TRUE, !.sets = element[e].sets + 1,
               !.early = element[e].early \/ parsing,
               !.loads = element[e].loads + Count(LoadsWhenAddressed(element[e].kind,
                                                                     element[e].place))]]
    /\ UNCHANGED parsing

(* A script appends an element, or puts it before another.  The head       *)
(* appends also then; elsewhere appendChild is not called, and nothing is  *)
(* loaded.                                                                 *)
AppendChild(e, place) ==
    /\ element[e].kind # "none" /\ element[e].puts < 2
    /\ element' = [element EXCEPT ![e] =
           [Put(element[e], place, "appendChild") EXCEPT
               !.loads = element[e].loads + Count(LoadsWhenAppended(element[e].kind,
                                                      element[e].addressed, place))]]
    /\ UNCHANGED parsing
InsertBefore(e, place) ==
    IF place = "head" THEN AppendChild(e, place)
    ELSE /\ element[e].kind # "none" /\ element[e].puts < 2
         /\ element' = [element EXCEPT ![e] = Put(element[e], place, "insertBefore")]
         /\ UNCHANGED parsing
RemoveChild(e) ==
    /\ element[e].place # "none"
    /\ element' = [element EXCEPT ![e].place = "none"]
    /\ UNCHANGED parsing

(* A script writes the innerHTML of head or body: the element is parsed in *)
(* a fragment, where nothing is loaded; its copy gets the address, has no  *)
(* parent yet, and is appended.                                            *)
SetInnerHTML(e, kind, addressed, place) ==
    /\ element[e].kind = "none"
    /\ element' = [element EXCEPT ![e] =
           [Put([Unborn EXCEPT !.kind = kind], place, "innerHTML") EXCEPT
               !.addressed = addressed, !.sets = Count(addressed),
               !.loads = Count(addressed /\ LoadsWhenAddressed(kind, "none"))
                         + Count(LoadsWhenAppended(kind, addressed, place))]]
    /\ UNCHANGED parsing

Next ==
    \/ HtmlPopped
    \/ \E e \in Elements :
          \/ SetAddress(e) \/ RemoveChild(e)
          \/ \E kind \in Kinds : CreateElement(e, kind)
          \/ \E place \in Places :
                \/ AppendChild(e, place) \/ InsertBefore(e, place)
                \/ \E kind \in Kinds, addressed \in BOOLEAN :
                      \/ ElementPopped(e, kind, addressed, place)
                      \/ SetInnerHTML(e, kind, addressed, place)

Spec == Init /\ [][Next]_vars

-----------------------------------------------------------------------------
(* An element that is put into the document once, with an address written  *)
(* once, is loaded once, whichever way it came and whichever was first -   *)
(* "We want event to trigger on the later and not during th fake doco"     *)
(* (env 9096).  Not loaded are a script outside the head, what insertBefore *)
(* put there, and what a script did while the page was parsed.             *)
LoadedOnce ==
    \A e \in Elements :
        element[e].puts = 1 /\ element[e].place # "none" /\ element[e].sets <= 1 =>
            /\ element[e].loads <= 1
            /\ ~element[e].early /\ element[e].by # "insertBefore" =>
                  element[e].loads =
                      Count(\/ element[e].kind # "script" /\ element[e].addressed
                            \/ /\ element[e].kind = "script"
                               /\ element[e].by = "parser" \/ element[e].place = "head")
=============================================================================
