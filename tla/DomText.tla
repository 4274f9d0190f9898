------------------------------- MODULE DomText -------------------------------
(***************************************************************************)
(* The text of an element of env.rhino.1.2.js: the calls that cut, join    *)
(* and copy the character data below it.  Where a node is linked into the  *)
(* tree is DomTree's matter; here an element is its children, in order.    *)
(*                                                                         *)
(* Data is a sequence of characters.  A text may also have null for data:  *)
(* what substringData answers for an empty text.                           *)
(***************************************************************************)
EXTENDS Integers, Sequences, SequencesExt

CONSTANTS Characters, \* what is written into texts
          MaxLength,  \* bound: the length of the whole text
          MaxNodes,   \* bound: the nodes below the element
          Null        \* null

VARIABLES root,          \* the element
          errorChecking, \* does the document check calls?
          emptySplit     \* ghost: was an empty text split?

vars == <<root, errorChecking, emptySplit>>

Text(data) == [kind |-> "text", data |-> data]
Comment(data) == [kind |-> "comment", data |-> data]
Element(children) == [kind |-> "element", childNodes |-> children]

(* Joined to a string, null is the word, here one character of its own.    *)
Data(n) == IF n.data = Null THEN <<Null>> ELSE n.data
IsText(n) == n.kind = "text"

(* The code recurs to any depth.  Here, below the root, are elements whose *)
(* children are no elements: what its recursion answers one level down is  *)
(* written first, and then what it answers over that.                      *)

(* __recursivelyGatherText__; an element's data is not looked at.          *)
LeafText(n) == IF IsText(n) THEN Data(n) ELSE <<>>
ChildText(n) ==
    IF n.kind = "element"
    THEN FlattenSeq([i \in DOMAIN n.childNodes |-> LeafText(n.childNodes[i])])
    ELSE LeafText(n)
GatherText(n) == FlattenSeq([i \in DOMAIN n.childNodes |-> ChildText(n.childNodes[i])])

-----------------------------------------------------------------------------
(* CharacterData.  An offset outside the data throws or, in a document     *)
(* that does not check calls, is cut to it; only SplitText goes that far.  *)

From(data, offset) == SubSeq(data, offset + 1, Len(data))
To(data, offset) == SubSeq(data, 1, IF offset > Len(data) THEN Len(data) ELSE offset)
Falsy(data) == data = Null \/ data = <<>>
Length(data) == IF data = Null THEN 0 ELSE Len(data)

(* As it would be if the character at the offset were in neither half.     *)
SubstringAfter(data, offset) == IF Falsy(data) THEN Null ELSE From(data, offset + 1)

SubstringData(data, offset) == IF Falsy(data) THEN Null ELSE From(data, offset)

(* A count of nothing deletes everything, like a count that is missing.    *)
DeleteData(data, offset, count) ==
    IF Falsy(data) THEN data
    ELSE IF count = 0 \/ offset + count > Len(data) THEN To(data, offset)
    ELSE To(data, offset) \o From(data, offset + count)

InsertData(data, offset, arg) ==
    IF Falsy(data) THEN arg ELSE To(data, offset) \o arg \o From(data, offset)

ReplaceData(data, offset, count, arg) ==
    IF Falsy(data) THEN arg ELSE To(data, offset) \o arg \o From(data, offset + count)

(* normalize goes through the children, and takes the redundant ones out   *)
(* when it has seen them all.  It asks a text for its length, which null   *)
(* does not have: what was joined stays joined, and nothing is taken out.  *)
(* below is what it answers for the children that are elements.            *)
Visit(seen, i, below) ==
    LET n == seen.children[i] IN
    IF seen.threw THEN seen
    ELSE IF n.kind = "element"
    THEN [seen EXCEPT !.children[i] = Element(below[i].children),
                      !.adjacent = 0, !.threw = below[i].threw]
    ELSE IF ~IsText(n) THEN [seen EXCEPT !.adjacent = 0]
    ELSE IF n.data = Null THEN [seen EXCEPT !.threw = TRUE]
    ELSE IF n.data = <<>> THEN [seen EXCEPT !.redundant = @ \cup {i}]
    ELSE IF seen.adjacent = 0 THEN [seen EXCEPT !.adjacent = i]
    ELSE [seen EXCEPT !.children[seen.adjacent] = Text(@.data \o n.data),
                      !.redundant = @ \cup {i}]
VisitAll(children, below) ==
    LET seen[i \in 0..Len(children)] ==
            IF i = 0
            THEN [children |-> children, adjacent |-> 0, redundant |-> {}, threw |-> FALSE]
            ELSE Visit(seen[i - 1], i, below)
    IN  seen[Len(children)]
Without(children, redundant) ==
    LET kept[i \in 0..Len(children)] ==
            IF i = 0 THEN <<>>
            ELSE IF i \in redundant THEN kept[i - 1]
            ELSE Append(kept[i - 1], children[i])
    IN  kept[Len(children)]
NormalizeOver(children, below) ==
    LET end == VisitAll(children, below)
    IN  [children |-> IF end.threw THEN end.children ELSE Without(end.children, end.redundant),
         threw |-> end.threw]
Normalize(children) ==
    NormalizeOver(children, [i \in {j \in DOMAIN children : children[j].kind = "element"} |->
                                NormalizeOver(children[i].childNodes, <<>>)])

(* importNode, of the kinds that it knows.                                 *)
CopyOf(n, children) == IF n.kind # "element" THEN n ELSE Element(children)
Copy(n, deep) ==
    CopyOf(n, IF n.kind # "element" \/ ~deep THEN <<>>
              ELSE [i \in DOMAIN n.childNodes |-> CopyOf(n.childNodes[i], <<>>)])

-----------------------------------------------------------------------------
(* The calls, on the texts and elements below the root: a path leads to    *)
(* one of its children or grandchildren.                                   *)

Children(n) == IF n.kind = "element" THEN n.childNodes ELSE <<>>
Paths == {<<i>> : i \in DOMAIN root.childNodes}
             \cup UNION {{<<i, j>> : j \in DOMAIN Children(root.childNodes[i])} :
                         i \in DOMAIN root.childNodes}
At(path) == IF Len(path) = 1 THEN root.childNodes[path[1]]
            ELSE root.childNodes[path[1]].childNodes[path[2]]

(* The root with its node at a path become some others.                    *)
Become(path, items) ==
    IF Len(path) = 1
    THEN Element(To(root.childNodes, path[1] - 1) \o items \o From(root.childNodes, path[1]))
    ELSE LET parent == root.childNodes[path[1]]
             inner == Element(To(parent.childNodes, path[2] - 1) \o items
                                  \o From(parent.childNodes, path[2]))
         IN  Element([root.childNodes EXCEPT ![path[1]] = inner])

Size(n) == Len(n.childNodes) + FoldLeft(LAMBDA sum, m : sum + Len(Children(m)), 0, n.childNodes)
Room(n) == Size(root) + 1 + Len(Children(n)) <= MaxNodes

SetData(path, data) ==
    /\ Length(data) <= MaxLength
    /\ Len(GatherText(Become(path, <<[At(path) EXCEPT !.data = data]>>))) <= MaxLength
    /\ root' = Become(path, <<[At(path) EXCEPT !.data = data]>>)
    /\ UNCHANGED <<errorChecking, emptySplit>>

(* appendData, deleteData, insertData, replaceData of a text or a comment. *)
EditData(path) ==
    /\ At(path).kind # "element"
    /\ LET data == At(path).data
       IN  \/ \E c \in Characters : SetData(path, Data(At(path)) \o <<c>>)
           \/ \E offset \in 0..Length(data) :
                 \/ \E c \in Characters : SetData(path, InsertData(data, offset, <<c>>))
                 \/ \E count \in 0..(Length(data) - offset) :
                       \/ SetData(path, DeleteData(data, offset, count))
                       \/ \E c \in Characters :
                             SetData(path, ReplaceData(data, offset, count, <<c>>))

(* An offset that is too far throws where calls are checked.               *)
SplitText(path, offset) ==
    LET data == At(path).data
        rest == SubstringData(data, offset)
        tooFar == data = Null \/ offset > Len(data)
    IN  /\ IsText(At(path)) /\ Room(At(path))
        /\ ~(errorChecking /\ tooFar)
        /\ root' = Become(path, <<Text(DeleteData(data, offset, 0)), Text(rest)>>)
        /\ emptySplit' = (emptySplit \/ Falsy(data))
        /\ UNCHANGED errorChecking

(* A normalize that gives up can make the text longer, and again.          *)
NormalizeRoot ==
    /\ Len(GatherText(Element(Normalize(root.childNodes).children))) <= MaxLength + 1
    /\ root' = Element(Normalize(root.childNodes).children)
    /\ UNCHANGED <<errorChecking, emptySplit>>

SetTextContent(c) ==
    /\ root' = Element(<<Text(<<c>>)>>)
    /\ UNCHANGED <<errorChecking, emptySplit>>

(* A clone, which is appended to the root.  (That of a document or doctype *)
(* throws half-way: cloneNode answers null and leaves Document.importing   *)
(* on, so that namespaces are no longer checked.)                          *)
CloneNode(path, deep) ==
    LET copy == Copy(At(path), deep)
        grown == Element(Append(root.childNodes, copy))
    IN  /\ Room(copy) /\ Len(GatherText(grown)) <= MaxLength
        /\ root' = grown
        /\ UNCHANGED <<errorChecking, emptySplit>>

Init ==
    /\ \E c, d \in Characters :
          root = Element(<<Text(<<c, d>>), Element(<<Comment(<<d>>), Text(<<c>>)>>)>>)
    /\ errorChecking \in BOOLEAN
    /\ emptySplit = FALSE

Next ==
    \/ \E path \in Paths :
          \/ EditData(path)
          \/ \E offset \in 0..MaxLength : SplitText(path, offset)
          \/ \E deep \in BOOLEAN : CloneNode(path, deep)
    \/ NormalizeRoot
    \/ \E c \in Characters : SetTextContent(c)

Spec == Init /\ [][Next]_vars

-----------------------------------------------------------------------------
(* No text is empty and no two are neighbours, however deep; and what is   *)
(* below an element is no element.                                         *)
NormalList(children) ==
    \A i \in DOMAIN children :
        /\ IsText(children[i]) => children[i].data # <<>>
        /\ i > 1 => ~(IsText(children[i - 1]) /\ IsText(children[i]))
Normal(n) ==
    /\ NormalList(n.childNodes)
    /\ \A i \in DOMAIN n.childNodes :
          /\ NormalList(Children(n.childNodes[i]))
          /\ \A j \in DOMAIN Children(n.childNodes[i]) : n.childNodes[i].childNodes[j].kind # "element"

(* normalize and splitText change no text, normalize leaves the texts      *)
(* normal and does not throw - as long as nobody split an empty text: that *)
(* leaves a text without data, at which normalize gives up with texts      *)
(* joined but not yet taken out.  A deep clone equals what it was made     *)
(* from, and a shallow one has no children.                                *)
KeepsText ==
    /\ NormalizeRoot =>
          /\ ~emptySplit => ~Normalize(root.childNodes).threw
          /\ ~Normalize(root.childNodes).threw =>
                GatherText(root') = GatherText(root) /\ Normal(root')
    /\ \A path \in Paths, offset \in 0..MaxLength :
          SplitText(path, offset) /\ ~emptySplit' => GatherText(root') = GatherText(root)
    /\ \A path \in Paths, deep \in BOOLEAN :
          CloneNode(path, deep) =>
              LET copy == Last(root'.childNodes) IN
              IF deep \/ At(path).kind # "element" THEN copy = At(path)
              ELSE copy = Element(<<>>)
=============================================================================
