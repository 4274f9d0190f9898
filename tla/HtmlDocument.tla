---------------------------- MODULE HtmlDocument ----------------------------
(***************************************************************************)
(* What an HTMLDocument of env.rhino.1.2.js answers for documentElement,   *)
(* head, body and title.  The getters make what they do not find, so that  *)
(* reading one may change the document, and the page changes it, too.      *)
(*                                                                         *)
(* An element is its tag, its identity and its children; those of a title  *)
(* are its text.  Ids are given in the order in which elements are made.   *)
(***************************************************************************)
EXTENDS Integers, Sequences, SequencesExt

CONSTANTS Texts,      \* what a page writes into a title
          Untitled,   \* the text "Untitled Document"
          MaxElements \* bound: the elements that are ever made

VARIABLES childNodes, \* the elements the document has
          made,       \* how many elements were made
          known       \* ghost: what the getters answered since the page last
                      \* changed the elements

vars == <<childNodes, made, known>>

Element(tag, id, children) == [tag |-> tag, id |-> id, childNodes |-> children]
Title(id, text) == [tag |-> "title", id |-> id, text |-> text]

(* The index of the first child with a tag, 0 if there is none.            *)
FindTag(nodes, tag) ==
    IF \E i \in DOMAIN nodes : nodes[i].tag = tag
    THEN CHOOSE i \in DOMAIN nodes :
            nodes[i].tag = tag /\ \A j \in 1..(i - 1) : nodes[j].tag # tag
    ELSE 0

-----------------------------------------------------------------------------
(* The getters, as what they leave: the document and the number of         *)
(* elements.  The documentElement is the first element; only if there is   *)
(* none an html element is made, with a head and a body.                   *)
NewHtml(id) == Element("html", id, <<Element("head", id + 1, <<>>), Element("body", id + 2, <<>>)>>)
DocumentElement(d) ==
    IF d.childNodes # <<>> THEN d
    ELSE [childNodes |-> <<NewHtml(d.made)>>, made |-> d.made + 3]

Html(d) == d.childNodes[1]
Appended(d, tag) ==
    [childNodes |-> [d.childNodes EXCEPT
                        ![1].childNodes = Append(Html(d).childNodes, Element(tag, d.made, <<>>))],
     made |-> d.made + 1]

GetHead(d) ==
    LET found == DocumentElement(d) IN
    IF FindTag(Html(found).childNodes, "head") > 0 THEN found ELSE Appended(found, "head")
(* As it would be if the body had to be the second child.                  *)
GetSecondBody(d) ==
    LET found == DocumentElement(d)
        below == Html(found).childNodes
    IN  IF Len(below) > 1 /\ below[2].tag = "body" THEN found ELSE Appended(found, "body")
GetBody(d) ==
    LET found == DocumentElement(d) IN
    IF FindTag(Html(found).childNodes, "body") > 0 THEN found ELSE Appended(found, "body")

HeadIndex(d) == FindTag(Html(d).childNodes, "head")
HeadOf(d) == Html(d).childNodes[HeadIndex(d)]
GetTitle(d) ==
    LET found == GetHead(d)
        titled == [found.childNodes EXCEPT
                      ![1].childNodes[HeadIndex(found)].childNodes =
                          Append(HeadOf(found).childNodes, Title(found.made, Untitled))]
    IN  IF FindTag(HeadOf(found).childNodes, "title") > 0 THEN found
        ELSE [childNodes |-> titled, made |-> found.made + 1]

(* What a getter answers once it has left the document like this.          *)
Answer(getter, d) ==
    CASE getter = "documentElement" -> Html(d).id
      [] getter \in {"head", "body"} -> Html(d).childNodes[FindTag(Html(d).childNodes, getter)].id
      [] getter = "title" -> HeadOf(d).childNodes[FindTag(HeadOf(d).childNodes, "title")].text
Left(getter, d) ==
    CASE getter = "documentElement" -> DocumentElement(d)
      [] getter = "head" -> GetHead(d)
      [] getter = "body" -> GetBody(d)
      [] getter = "title" -> GetTitle(d)

Here == [childNodes |-> childNodes, made |-> made]
Become(d) == childNodes' = d.childNodes /\ made' = d.made

Get(getter) ==
    LET left == Left(getter, Here) IN
    /\ left.made <= MaxElements
    /\ Become(left)
    /\ known' = [g \in DOMAIN known \cup {getter} |->
                     IF g = getter THEN Answer(getter, left) ELSE known[g]]

(* The setter of title sets a property of the string that the getter       *)
(* answers: it may make a title, and never changes one.                    *)
SetTitle(text) ==
    /\ GetTitle(Here).made <= MaxElements
    /\ Become(GetTitle(Here))
    /\ UNCHANGED known

-----------------------------------------------------------------------------
(* What the page does: it takes the html element or one below it out, puts *)
(* a new one in, and titles the document by hand.                          *)
PageChanges(nodes, n) ==
    /\ made + n <= MaxElements
    /\ childNodes' = nodes
    /\ made' = made + n
    /\ known' = <<>>

RemoveHtml == childNodes # <<>> /\ PageChanges(Tail(childNodes), 0)
AppendHtml == PageChanges(Append(childNodes, Element("html", made, <<>>)), 1)
RemoveBelow(i) ==
    /\ childNodes # <<>> /\ i \in DOMAIN childNodes[1].childNodes
    /\ PageChanges([childNodes EXCEPT ![1].childNodes = RemoveAt(childNodes[1].childNodes, i)], 0)
InsertBelow(i, tag) ==
    /\ childNodes # <<>> /\ i \in 1..(Len(childNodes[1].childNodes) + 1)
    /\ PageChanges([childNodes EXCEPT
                       ![1].childNodes =
                           InsertAt(childNodes[1].childNodes, i, Element(tag, made, <<>>))], 1)
WriteTitle(i, text) ==
    /\ childNodes # <<>> /\ i \in DOMAIN childNodes[1].childNodes
    /\ childNodes[1].childNodes[i].tag = "head"
    /\ PageChanges([childNodes EXCEPT ![1].childNodes[i].childNodes = <<Title(made, text)>>], 1)

Init ==
    /\ childNodes \in {<<>>, <<Element("html", 0, <<Element("body", 1, <<>>)>>)>>}
    /\ made = 2
    /\ known = <<>>

Next ==
    \/ \E getter \in {"documentElement", "head", "body", "title"} : Get(getter)
    \/ \E text \in Texts : SetTitle(text)
    \/ RemoveHtml \/ AppendHtml
    \/ \E i \in 1..MaxElements :
          \/ RemoveBelow(i)
          \/ \E tag \in {"head", "body"} : InsertBelow(i, tag)
          \/ \E text \in Texts : WriteTitle(i, text)

Spec == Init /\ [][Next]_vars

-----------------------------------------------------------------------------
(* What a getter answered it would answer again, without making anything,  *)
(* whatever other getters make in between - until the page changes the     *)
(* elements itself.                                                        *)
AnswersStand ==
    \A getter \in DOMAIN known :
        /\ Left(getter, Here) = Here
        /\ Answer(getter, Here) = known[getter]
=============================================================================
