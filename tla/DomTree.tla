------------------------------- MODULE DomTree -------------------------------
(***************************************************************************)
(* The tree of a document of env.rhino.1.2.js, the browser that            *)
(* rhino-experiment loads into Rhino.  A node keeps its place in the tree  *)
(* twice: its parent lists it in childNodes, and parentNode, firstChild,   *)
(* lastChild, previousSibling and nextSibling lead to it.  Node.prototype  *)
(* changes the two by hand, one assignment after the other.                *)
(*                                                                         *)
(* An XML document checks its calls (DOMImplementation.errorChecking), the *)
(* HTML document does not.  A call that throws changes nothing.            *)
(***************************************************************************)
EXTENDS Integers, Sequences, SequencesExt, FiniteSets

CONSTANTS Nodes,      \* the nodes there are
          Fragments,  \* those of them that are document fragments
          Leaves,     \* those of them that nobody gives children to
          Documents,  \* the documents
          DocumentOf, \* the document that created each node
          NoNode,     \* null
          Tolerated   \* bound: the mishaps after which calls still follow

VARIABLES dom,            \* what the nodes hold
          errorChecking,  \* does the implementation check calls?
          replaced,       \* ghost: the nodes that replaceChild took out
          mishaps         \* ghost: why the links may be wrong

vars == <<dom, errorChecking, replaced, mishaps>>

Parents == Nodes \ Leaves
Links == Nodes \cup {NoNode}

(* A fresh node has no relatives.                                          *)
Node ==
    [parentNode |-> [n \in Nodes |-> NoNode],
     childNodes |-> [n \in Nodes |-> <<>>],
     firstChild |-> [n \in Nodes |-> NoNode],
     lastChild |-> [n \in Nodes |-> NoNode],
     previousSibling |-> [n \in Nodes |-> NoNode],
     nextSibling |-> [n \in Nodes |-> NoNode]]

-----------------------------------------------------------------------------
(* The helpers.  Each takes what the nodes hold and returns what they hold *)
(* afterwards.                                                             *)

Children(d, p) == ToSet(d.childNodes[p])

(* Where a child is in its parent's list; 0 if it is not there.            *)
FindItemIndex(s, n) == IF n \in ToSet(s) THEN CHOOSE i \in 1..Len(s) :
                                                   /\ s[i] = n
                                                   /\ \A j \in 1..(i - 1) : s[j] # n
                                         ELSE 0

(* What inserting a node puts into a list: a fragment stands for its       *)
(* children, and keeps them.                                               *)
Items(d, n) == IF n \in Fragments THEN d.childNodes[n] ELSE <<n>>

(* The list with the items before the i-th one, or instead of it.          *)
InsertItems(s, i, items) ==
    IF i \in 1..(Len(s) + 1)
    THEN SubSeq(s, 1, i - 1) \o items \o SubSeq(s, i, Len(s))
    ELSE s
ReplaceItem(s, i, items) ==
    IF i \in 1..Len(s)
    THEN SubSeq(s, 1, i - 1) \o items \o SubSeq(s, i + 1, Len(s))
    ELSE s

(* The ancestors of a node: those it reaches over parentNode.              *)
Ancestors(d, n) ==
    LET Up[k \in 0..Cardinality(Nodes)] ==
            IF k = 0 THEN {d.parentNode[n]} \ {NoNode}
            ELSE Up[k - 1] \cup ({d.parentNode[m] : m \in Up[k - 1]} \ {NoNode})
    IN  Up[Cardinality(Nodes)]
IsAncestor(d, target, n) == target = n \/ n \in Ancestors(d, target)

(* "If there is a left neighbour, it is followed by n; otherwise n is the  *)
(* first child", and the same to the right.                                *)
FollowedBy(d, p, left, n) ==
    IF left # NoNode THEN [d EXCEPT !.nextSibling[left] = n]
                     ELSE [d EXCEPT !.firstChild[p] = n]

(* As it would be if the last child were left as it was.                   *)
PrecededByNeighbour(d, p, right, n) ==
    IF right # NoNode THEN [d EXCEPT !.previousSibling[right] = n] ELSE d

PrecededBy(d, p, right, n) ==
    IF right # NoNode THEN [d EXCEPT !.previousSibling[right] = n]
                      ELSE [d EXCEPT !.lastChild[p] = n]

Adopt(d, p, items) ==
    [d EXCEPT !.parentNode =
        [n \in Nodes |-> IF n \in ToSet(items) THEN p ELSE d.parentNode[n]]]

(* removeChild's node pointer surgery.                                     *)
Take(d, p, n) ==
    LET unlisted == [d EXCEPT !.childNodes[p] = RemoveFirst(d.childNodes[p], n),
                              !.parentNode[n] = NoNode]
        left     == FollowedBy(unlisted, p, unlisted.previousSibling[n], unlisted.nextSibling[n])
        both     == PrecededBy(left, p, left.nextSibling[n], left.previousSibling[n])
    IN  [both EXCEPT !.previousSibling[n] = NoNode, !.nextSibling[n] = NoNode]

(* "if the newChild is already in the tree, remove it"                     *)
Detach(d, n) == IF d.parentNode[n] = NoNode THEN d ELSE Take(d, d.parentNode[n], n)

-----------------------------------------------------------------------------
(* What the four calls do to a document that does not refuse them.         *)

Appended(d, p, new) ==
    LET free  == Detach(d, new)
        items == Items(free, new)
        old   == free.lastChild[p]
        owned == Adopt([free EXCEPT !.childNodes[p] = free.childNodes[p] \o items], p, items)
        ended == [owned EXCEPT !.lastChild[p] = Last(items)]
    IN  IF items = <<>> THEN free
        ELSE IF old = NoNode THEN [ended EXCEPT !.firstChild[p] = Head(items)]
        ELSE [ended EXCEPT !.nextSibling[old] = Head(items),
                           !.previousSibling[Head(items)] = old]

(* The place of refChild is looked up before newChild leaves its parent.   *)
Inserted(d, p, new, ref) ==
    LET i     == FindItemIndex(d.childNodes[p], ref)
        free  == Detach(d, new)
        items == Items(free, new)
        left  == free.previousSibling[ref]
        owned == Adopt([free EXCEPT !.childNodes[p] = InsertItems(free.childNodes[p], i, items)],
                       p, items)
        right == [owned EXCEPT !.previousSibling[ref] = Last(items)]
        both  == FollowedBy(right, p, left, Head(items))
    IN  IF items = <<>> THEN free
        ELSE [both EXCEPT !.previousSibling[Head(items)] = left,
                          !.nextSibling[Last(items)] = ref]

(* oldChild keeps its links.  To its right neighbour a fragment is the     *)
(* previous sibling, not the fragment's last child.                        *)
Exchanged(d, p, new, old) ==
    LET i     == FindItemIndex(d.childNodes[p], old)
        free  == Detach(d, new)
        items == Items(free, new)
        owned == Adopt([free EXCEPT !.childNodes[p] = ReplaceItem(free.childNodes[p], i, items)],
                       p, items)
        left  == FollowedBy(owned, p, owned.previousSibling[old], Head(items))
        both  == IF left.nextSibling[old] # NoNode
                 THEN [left EXCEPT !.previousSibling[left.nextSibling[old]] = new]
                 ELSE [left EXCEPT !.lastChild[p] = Last(items)]
        begun == [both EXCEPT !.previousSibling[Head(items)] = both.previousSibling[old]]
    IN  IF items = <<>> THEN owned
        ELSE [begun EXCEPT !.nextSibling[Last(items)] = begun.nextSibling[old]]

-----------------------------------------------------------------------------
(* What the checks refuse: another document's node, an ancestor, a         *)
(* reference that is no child, and - in the removeChild that frees         *)
(* newChild - a node whose parent does not list it.  appendChild compares  *)
(* the document with itself.                                               *)

Unlisted(d, n) == d.parentNode[n] # NoNode /\ n \notin Children(d, d.parentNode[n])

AppendRefused(d, p, new) == IsAncestor(d, p, new) \/ Unlisted(d, new)
PlaceRefused(d, p, new, child) ==
    \/ AppendRefused(d, p, new)
    \/ DocumentOf[p] # DocumentOf[new]
    \/ child \notin Children(d, p)

(* Calls after which list and links need not agree.                        *)
Shifts(d, p, new, child) ==
    /\ {new, child} \subseteq Children(d, p)
    /\ FindItemIndex(d.childNodes[p], new) <= FindItemIndex(d.childNodes[p], child)
Filled(n) == n \in Fragments /\ dom.childNodes[n] # <<>>
Mishaps(refused, shifted, fragment) ==
    (IF refused THEN {"unchecked"} ELSE {})
        \cup (IF shifted THEN {"shifted"} ELSE {})
        \cup (IF fragment THEN {"fragment"} ELSE {})

AppendChild(p, new) ==
    LET refused == AppendRefused(dom, p, new) IN
    /\ ~(errorChecking /\ refused)
    /\ dom' = Appended(dom, p, new)
    /\ mishaps' = mishaps \cup Mishaps(refused, FALSE, Filled(new))
    /\ UNCHANGED <<errorChecking, replaced>>

InsertBefore(p, new, ref) ==
    LET refused == PlaceRefused(dom, p, new, ref) IN
    /\ ~(errorChecking /\ refused)
    /\ dom' = Inserted(dom, p, new, ref)
    /\ mishaps' = mishaps \cup Mishaps(refused, Shifts(dom, p, new, ref), Filled(new))
    /\ UNCHANGED <<errorChecking, replaced>>

ReplaceChild(p, new, old) ==
    LET refused == PlaceRefused(dom, p, new, old) IN
    /\ ~(errorChecking /\ refused)
    /\ dom' = Exchanged(dom, p, new, old)
    /\ replaced' = replaced \cup {old}
    /\ mishaps' = mishaps \cup Mishaps(refused, Shifts(dom, p, new, old),
                                     new \in Fragments)
    /\ UNCHANGED errorChecking

RemoveChild(p, old) ==
    LET refused == old \notin Children(dom, p) IN
    /\ ~(errorChecking /\ refused)
    /\ dom' = Take(dom, p, old)
    /\ mishaps' = mishaps \cup Mishaps(refused, FALSE, FALSE)
    /\ UNCHANGED <<errorChecking, replaced>>

Init ==
    /\ dom = Node
    /\ errorChecking \in BOOLEAN
    /\ replaced = {}
    /\ mishaps = {}

Next ==
    /\ mishaps \subseteq Tolerated
    /\ \E p \in Parents, n \in Nodes :
          \/ AppendChild(p, n)
          \/ RemoveChild(p, n)
          \/ \E child \in Nodes : InsertBefore(p, n, child) \/ ReplaceChild(p, n, child)

Spec == Init /\ [][Next]_vars

-----------------------------------------------------------------------------
TypeOK ==
    /\ dom.parentNode \in [Nodes -> Links]
    /\ dom.childNodes \in [Nodes -> Seq(Nodes)]
    /\ dom.firstChild \in [Nodes -> Links] /\ dom.lastChild \in [Nodes -> Links]
    /\ dom.previousSibling \in [Nodes -> Links] /\ dom.nextSibling \in [Nodes -> Links]
    /\ errorChecking \in BOOLEAN
    /\ replaced \subseteq Nodes
    /\ mishaps \subseteq {"unchecked", "shifted", "fragment"}

(* A list of children is what the links say: no child twice, the ends are  *)
(* the first and the last child, neighbours know each other.               *)
ListMatchesLinks(p) ==
    LET s == dom.childNodes[p] IN
    /\ \A i, j \in 1..Len(s) : s[i] = s[j] => i = j
    /\ dom.firstChild[p] = IF s = <<>> THEN NoNode ELSE s[1]
    /\ dom.lastChild[p] = IF s = <<>> THEN NoNode ELSE s[Len(s)]
    /\ \A i \in 1..Len(s) :
          /\ dom.parentNode[s[i]] = p
          /\ dom.previousSibling[s[i]] = IF i = 1 THEN NoNode ELSE s[i - 1]
          /\ dom.nextSibling[s[i]] = IF i = Len(s) THEN NoNode ELSE s[i + 1]

(* The list of children and the links tell the same tree, however nodes    *)
(* were moved, unless a call went wrong in one of three ways: a node was   *)
(* moved from before its new right neighbour in the same parent, a         *)
(* fragment that had children was inserted or one replaced a child, or the *)
(* document does not check calls and got one that would be refused.  Only  *)
(* a node that was replaced keeps a parent that does not list it, against  *)
(* what the comment on parentNode says; that parent then refuses to give   *)
(* it up, so it is lost: never again is it anyone's child.                 *)
(*                                                                         *)
(* And a document that checks calls has no node that is its own ancestor,  *)
(* even when a move has confused a list.  (A fragment can get into a child *)
(* it still lists.)                                                        *)
LinksAgree ==
    /\ mishaps = {} =>
          /\ \A p \in Nodes : ListMatchesLinks(p)
          /\ \A n \in Nodes \ replaced : ~Unlisted(dom, n)
          /\ \A n \in replaced, p \in Nodes : n \notin Children(dom, p)
    /\ errorChecking /\ "fragment" \notin mishaps =>
          \A n \in Nodes : n \notin Ancestors(dom, n)
=============================================================================
