------------------------------ MODULE HtmlNames ------------------------------
(***************************************************************************)
(* The named elements of an HTMLDocument in env.rhino.1.2.js: document.x   *)
(* is the form that is named x, the object with the id x, the image with   *)
(* the id x that has a name, too.  The document has a getter for each of   *)
(* them, which HTMLElement's calls define and delete on their way.         *)
(***************************************************************************)
EXTENDS Integers, FiniteSets

CONSTANTS Elements, \* the elements that could be named
          TagOf,    \* what each of them is
          Names, None

VARIABLES attributes, \* the elements' attributes
          inTree,     \* the elements that have a parent
          getters,    \* the document's getters: the element for each name
          mishaps     \* ghost: what may have parted names and elements

vars == <<attributes, inTree, getters, mishaps>>

AttributeNames == {"name", "id", "title"}

(* __isNamedElement__: the name that an element with such attributes has.  *)
NodeName(e, a) ==
    CASE TagOf[e] = "form" -> a["name"]
      [] TagOf[e] = "object" -> a["id"]
      [] TagOf[e] = "img" -> IF a["name"] = None THEN None ELSE a["id"]
NameOf(e) == NodeName(e, attributes[e])

AddNamedMapOnce(e, name) ==
    IF name = None \/ getters[name] # None THEN getters ELSE [getters EXCEPT ![name] = e]
AddNamedMap(e, name) == IF name = None THEN getters ELSE [getters EXCEPT ![name] = e]
RemoveNamedMap(name) == IF name = None THEN getters ELSE [getters EXCEPT ![name] = None]

(* An element takes a name that another has, or gives up the one it had.   *)
Parted(e, name) ==
    (IF name # None /\ \E f \in Elements \ {e} : NameOf(f) = name THEN {"shared"} ELSE {})
        \cup (IF NameOf(e) \notin {name, None} THEN {"renamed"} ELSE {})

(* setAttribute defines the getter, whichever attribute was set, and       *)
(* leaves the one for an earlier name.                                     *)
SetAttribute(e, attribute, value) ==
    LET now == [attributes[e] EXCEPT ![attribute] = value]
        name == NodeName(e, now)
    IN  /\ attributes' = [attributes EXCEPT ![e] = now]
        /\ getters' = AddNamedMap(e, name)
        /\ mishaps' = mishaps \cup Parted(e, name)
        /\ UNCHANGED inTree

(* removeAttribute deletes the getter, whichever attribute is removed.     *)
RemoveAttribute(e, attribute) ==
    LET now == [attributes[e] EXCEPT ![attribute] = None] IN
    /\ attributes[e][attribute] # None
    /\ attributes' = [attributes EXCEPT ![e] = now]
    /\ getters' = RemoveNamedMap(NameOf(e))
    /\ mishaps' = mishaps \cup (IF NodeName(e, now) # None THEN {"other attribute"} ELSE {})
    /\ UNCHANGED inTree

(* removeChild deletes the getter of the child; appendChild, which removes *)
(* a child from its old parent first, does not define it again.            *)
RemoveChild(e) ==
    /\ e \in inTree
    /\ inTree' = inTree \ {e}
    /\ getters' = RemoveNamedMap(NameOf(e))
    /\ mishaps' = mishaps \cup (IF NameOf(e) # None THEN {"taken out"} ELSE {})
    /\ UNCHANGED attributes
AppendChild(e) ==
    /\ inTree' = inTree \cup {e}
    /\ getters' = IF e \in inTree THEN RemoveNamedMap(NameOf(e)) ELSE getters
    /\ mishaps' = mishaps \cup (IF e \in inTree /\ NameOf(e) # None THEN {"taken out"} ELSE {})
    /\ UNCHANGED attributes

Init ==
    /\ attributes = [e \in Elements |-> [a \in AttributeNames |-> None]]
    /\ inTree = {}
    /\ getters = [n \in Names |-> None]
    /\ mishaps = {}

(* Bound: when names and elements have been parted in either direction,    *)
(* the document is left as it is.                                          *)
NamesLead == mishaps \subseteq {"renamed"}
ElementsBear == mishaps \cap {"renamed", "shared"} = {}

Next ==
    /\ NamesLead \/ ElementsBear
    /\ \E e \in Elements :
        \/ RemoveChild(e) \/ AppendChild(e)
        \/ \E a \in AttributeNames :
              \/ RemoveAttribute(e, a)
              \/ \E n \in Names : SetAttribute(e, a, n)

Spec == Init /\ [][Next]_vars

-----------------------------------------------------------------------------
(* An element that has a name is what the document has under that name,    *)
(* unless it was taken out of the tree, another attribute was removed, or  *)
(* two elements shared a name; and whatever the document has under a name  *)
(* has that name, unless it was renamed or they shared it.                 *)
NamesAgree ==
    /\ NamesLead =>
          \A e \in Elements : NameOf(e) # None => getters[NameOf(e)] = e
    /\ ElementsBear =>
          \A n \in Names : getters[n] # None => NameOf(getters[n]) = n
=============================================================================
