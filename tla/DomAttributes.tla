---------------------------- MODULE DomAttributes ----------------------------
(***************************************************************************)
(* The attributes of elements in env.rhino.1.2.js.  An element's           *)
(* NamedNodeMap lists them; an Attr knows its owner.  Names are compared   *)
(* without their case: the calls without a namespace compare the whole     *)
(* name, p:id, the others the namespace and the local name, id.  (The map  *)
(* also has a property for each name, which it never deletes; no call      *)
(* reads it.)                                                              *)
(*                                                                         *)
(* A call that throws changes nothing; removeAttributeNode always throws:  *)
(* it calls methods that NamedNodeMap does not have.                       *)
(***************************************************************************)
EXTENDS Integers, Sequences, SequencesExt, FiniteSets

CONSTANTS Elements,   \* elements of one document
          Attrs,      \* the attributes that can ever be made
          Names,      \* names of attributes
          Local,      \* localName, of the names: what is behind their prefix
          Namespaces, \* namespaces that are not null
          Lower,      \* toLowerCase, of the names and namespaces
          Values, Empty, None,
          MaxLength   \* bound: the attributes of an element

ASSUME AttributesAssumption ==
    /\ Local \in [Names -> Names]
    /\ Names \cup Namespaces \subseteq DOMAIN Lower
    /\ \A n, m \in Names : Lower[n] = Lower[m] => Lower[Local[n]] = Lower[Local[m]]
    /\ Empty \in Values
    /\ None \notin Attrs \cup Elements \cup Names \cup Namespaces \cup Values

VARIABLES attributes,    \* the map of each element, as a list
          attr,          \* the attributes
          errorChecking, \* does the implementation check calls?
          doubled        \* ghost: was a name added that was there already?

vars == <<attributes, attr, errorChecking, doubled>>

Attr == [nodeName : Names \cup {None}, namespaceURI : Namespaces \cup {None},
         ownerElement : Elements \cup {None}, nodeValue : Values \cup {None}]

Unmade == {a \in Attrs : attr[a].nodeName = None}
SameName(n, m) == Lower[n] = Lower[m]

(* The first index in a list with a property; 0 if there is none.          *)
First(s, Test(_)) ==
    IF \E i \in DOMAIN s : Test(s[i])
    THEN CHOOSE i \in DOMAIN s : Test(s[i]) /\ \A j \in 1..(i - 1) : ~Test(s[j])
    ELSE 0

(* __findNamedItemIndex__ and __findNamedItemNSIndex__, which is given a   *)
(* local name.  A null namespace matches nothing, and throws at an         *)
(* attribute that has one.                                                 *)
FindNamed(e, n) == First(attributes[e], LAMBDA a : SameName(attr[a].nodeName, n))
FindNamedNS(e, ns, local) ==
    First(attributes[e], LAMBDA a : /\ attr[a].namespaceURI # None /\ ns # None
                                    /\ SameName(attr[a].namespaceURI, ns)
                                    /\ SameName(Local[attr[a].nodeName], local))
ThrowsNS(e, ns) ==
    ns = None /\ \E i \in DOMAIN attributes[e] : attr[attributes[e][i]].namespaceURI # None

(* Attr.value and getAttribute: the value that is null is read as empty.   *)
ValueIn(a) == IF a.nodeValue = None THEN Empty ELSE a.nodeValue
ValueOf(e, n) == IF FindNamed(e, n) = 0 THEN None
                 ELSE ValueIn(attr[attributes[e][FindNamed(e, n)]])

(* As it would be if nobody checked.                                       *)
NeverInUse(e, a) == FALSE
InUse(e, a) == attr[a].ownerElement \notin {e, None}

-----------------------------------------------------------------------------
(* NamedNodeMap.setNamedItem and setNamedItemNS: over the attribute that   *)
(* was found, or behind the others.  An attribute that is over-written     *)
(* keeps its owner.                                                        *)
SetNamedItem(e, a, i) ==
    /\ i = 0 => Len(attributes[e]) < MaxLength
    /\ attributes' = [attributes EXCEPT ![e] =
           IF i = 0 THEN Append(attributes[e], a) ELSE ReplaceAt(attributes[e], i, a)]
SetNamedItemNS(e, a, ns, n) ==
    LET i == FindNamedNS(e, ns, Local[n])
        kept == IF i = 0 THEN attributes[e] ELSE RemoveAt(attributes[e], i)
    IN  /\ SetNamedItem(e, a, i)
        /\ doubled' = (doubled \/ \E k \in DOMAIN kept : SameName(attr[kept[k]].nodeName, n))

-----------------------------------------------------------------------------
(* Document.createAttribute and createAttributeNS.                         *)
Create(a, n, ns, v) ==
    /\ a \in Unmade
    /\ attr' = [attr EXCEPT ![a] = [nodeName |-> n, namespaceURI |-> ns,
                                    ownerElement |-> None, nodeValue |-> v]]
    /\ UNCHANGED <<attributes, errorChecking, doubled>>
CreateAttribute(a, n) == Create(a, n, None, None)
CreateAttributeNS(a, n, ns) == Create(a, n, ns, Empty)

(* The attribute that has the name already, or a new one.                  *)
SetAttribute(e, n, v) ==
    LET i == FindNamed(e, n) IN
    \E a \in IF i = 0 THEN Unmade ELSE {attributes[e][i]} :
        LET name == IF i = 0 THEN n ELSE attr[a].nodeName IN
        /\ ~(errorChecking /\ InUse(e, a))
        /\ attr' = [attr EXCEPT ![a].nodeName = name, ![a].nodeValue = v,
                                ![a].ownerElement = e]
        /\ SetNamedItem(e, a, i)
        /\ UNCHANGED <<errorChecking, doubled>>

(* setAttributeNS looks for an attribute that is named like the namespace, *)
(* and so always makes a new one.                                          *)
SetAttributeNS(e, ns, n, v) ==
    /\ ~ThrowsNS(e, ns)
    /\ \E a \in Unmade :
        /\ attr' = [attr EXCEPT ![a] = [nodeName |-> n, namespaceURI |-> ns,
                                        ownerElement |-> e, nodeValue |-> v]]
        /\ SetNamedItemNS(e, a, ns, n)
    /\ UNCHANGED errorChecking

(* In an HTML document the property id is the attribute: before an         *)
(* attribute of that name takes the place of another, the other gets its   *)
(* value.                                                                  *)
SetAttributeNode(e, a) ==
    LET n == attr[a].nodeName
        i == FindNamed(e, n)
        old == attributes[e][i]
        copied == IF ~errorChecking /\ i > 0 /\ Lower[n] = "id"
                  THEN [attr EXCEPT ![old].nodeValue = ValueIn(attr[a]), ![old].ownerElement = e]
                  ELSE attr
    IN  /\ a \notin Unmade
        /\ ~(errorChecking /\ InUse(e, a))
        /\ attr' = [copied EXCEPT ![a].ownerElement = e]
        /\ SetNamedItem(e, a, i)
        /\ UNCHANGED <<errorChecking, doubled>>

SetAttributeNodeNS(e, a) ==
    /\ a \notin Unmade
    /\ ~ThrowsNS(e, attr[a].namespaceURI)
    /\ ~(errorChecking /\ InUse(e, a))
    /\ attr' = [attr EXCEPT ![a].ownerElement = e]
    /\ SetNamedItemNS(e, a, attr[a].namespaceURI, attr[a].nodeName)
    /\ UNCHANGED errorChecking

(* removeNamedItem and removeNamedItemNS: the attribute keeps its owner.   *)
RemoveItem(e, i) ==
    /\ i > 0
    /\ attributes' = [attributes EXCEPT ![e] = RemoveAt(attributes[e], i)]
    /\ UNCHANGED <<attr, errorChecking, doubled>>
RemoveAttribute(e, n) == RemoveItem(e, FindNamed(e, n))
RemoveAttributeNS(e, ns, local) ==
    ~ThrowsNS(e, ns) /\ RemoveItem(e, FindNamedNS(e, ns, local))

Init ==
    /\ attributes = [e \in Elements |-> <<>>]
    /\ attr = [a \in Attrs |-> [nodeName |-> None, namespaceURI |-> None,
                                ownerElement |-> None, nodeValue |-> None]]
    /\ errorChecking \in BOOLEAN
    /\ doubled = FALSE

Next ==
    \/ \E a \in Attrs, n \in Names :
          \/ CreateAttribute(a, n)
          \/ \E ns \in Namespaces \cup {None} : CreateAttributeNS(a, n, ns)
    \/ \E e \in Elements :
          \/ \E a \in Attrs : SetAttributeNode(e, a) \/ SetAttributeNodeNS(e, a)
          \/ \E n \in Names :
                \/ RemoveAttribute(e, n)
                \/ \E v \in Values : SetAttribute(e, n, v)
                \/ \E ns \in Namespaces \cup {None} :
                      \/ RemoveAttributeNS(e, ns, n)
                      \/ \E v \in Values : SetAttributeNS(e, ns, n, v)

Spec == Init /\ [][Next]_vars

-----------------------------------------------------------------------------
(* Calls that name no namespace keep the names of an element apart; and    *)
(* where calls are checked, an attribute is in one map only, that of its   *)
(* owner.                                                                  *)
MapsAgree ==
    /\ ~doubled =>
          \A e \in Elements : \A i, j \in DOMAIN attributes[e] :
              SameName(attr[attributes[e][i]].nodeName, attr[attributes[e][j]].nodeName)
                  => i = j
    /\ errorChecking =>
          \A e \in Elements : \A i \in DOMAIN attributes[e] :
              attr[attributes[e][i]].ownerElement = e

(* Where calls are checked, a call changes what one element answers for    *)
(* one name, and nothing that another element or for another name is       *)
(* answered - unless an element has two attributes of one name.  A call    *)
(* with a namespace may put p:id where q:id was: then q:id has no value    *)
(* any more, and p:id had none before.                                     *)
Renames(e, n, m) ==
    /\ SameName(Local[n], Local[m])
    /\ ValueOf(e, n)' = None /\ ValueOf(e, m) = None
TouchesOneName ==
    errorChecking /\ ~doubled' =>
        \A e \in Elements, n \in Names : ValueOf(e, n)' # ValueOf(e, n) =>
            \A f \in Elements, m \in Names : ValueOf(f, m)' # ValueOf(f, m) =>
                e = f /\ (SameName(n, m) \/ Renames(e, n, m) \/ Renames(e, m, n))
=============================================================================
