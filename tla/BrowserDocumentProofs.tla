------------------------ MODULE BrowserDocumentProofs ------------------------
(***************************************************************************)
(* What the modules on the browser's document keep, for any number of      *)
(* nodes, elements, attributes, names, rows and calls.  Each has an        *)
(* invariant of its own, which holds as well while another runs, for then  *)
(* nothing of it changes.                                                  *)
(***************************************************************************)
EXTENDS BrowserDocument, SequenceTheorems, FiniteSetTheorems, WellFoundedInduction, TLAPS

(* They share errorChecking, which none of them changes.                   *)
LEMMA NoneChangesChecking ==
    Next \/ Tree!Next \/ Text!Next => errorChecking' = errorChecking
<1>1. Tree!Next => errorChecking' = errorChecking
  BY DEF Tree!Next, Tree!AppendChild, Tree!RemoveChild, Tree!InsertBefore, Tree!ReplaceChild
<1>2. Text!Next => errorChecking' = errorChecking
  BY DEF Text!Next, Text!EditData, Text!SetData, Text!SplitText, Text!CloneNode,
         Text!NormalizeRoot, Text!SetTextContent
<1>3. Next => errorChecking' = errorChecking
  <2>1. ASSUME NEW a \in Attrs, NEW n \in Names,
               \/ CreateAttribute(a, n)
               \/ \E ns \in Namespaces \cup {None} : CreateAttributeNS(a, n, ns)
        PROVE  errorChecking' = errorChecking
    BY <2>1 DEF CreateAttribute, CreateAttributeNS, Create
  <2>2. ASSUME NEW e \in Elements, NEW a \in Attrs,
               SetAttributeNode(e, a) \/ SetAttributeNodeNS(e, a)
        PROVE  errorChecking' = errorChecking
    BY <2>2 DEF SetAttributeNode, SetAttributeNodeNS
  <2>3. ASSUME NEW e \in Elements, NEW n \in Names, NEW v \in Values, SetAttribute(e, n, v)
        PROVE  errorChecking' = errorChecking
    BY <2>3 DEF SetAttribute
  <2>4. ASSUME NEW e \in Elements, NEW n \in Names, NEW ns \in Namespaces \cup {None},
               \/ RemoveAttribute(e, n) \/ RemoveAttributeNS(e, ns, n)
               \/ \E v \in Values : SetAttributeNS(e, ns, n, v)
        PROVE  errorChecking' = errorChecking
    BY <2>4 DEF RemoveAttribute, RemoveAttributeNS, RemoveItem, SetAttributeNS
  <2> QED
    BY <2>1, <2>2, <2>3, <2>4 DEF Next
<1> QED
  BY <1>1, <1>2, <1>3

LEMMA OneRuns ==
    ASSUME [DocumentNext]_all
    PROVE  /\ [Next]_vars /\ [Tree!Next]_(Tree!vars) /\ [Text!Next]_(Text!vars)
           /\ [Tables!Next]_(Tables!vars) /\ [Document!Next]_(Document!vars)
           /\ [Naming!Next]_(Naming!vars)
           /\ running' = running
<1> USE DEF all, tree, text, attributeMaps, tables, document, names, vars,
           Tree!vars, Text!vars, Tables!vars, Document!vars, Naming!vars
<1>1. CASE UNCHANGED all
  BY <1>1
<1>2. CASE /\ running = "tree" /\ Tree!Next
           /\ UNCHANGED <<running, text, attributeMaps, tables, document, names>>
  BY <1>2, NoneChangesChecking
<1>3. CASE /\ running = "text" /\ Text!Next
           /\ UNCHANGED <<running, tree, attributeMaps, tables, document, names>>
  BY <1>3, NoneChangesChecking
<1>4. CASE /\ running = "attributes" /\ Next
           /\ UNCHANGED <<running, tree, text, tables, document, names>>
  BY <1>4, NoneChangesChecking
<1>5. CASE /\ running = "tables" /\ Tables!Next
           /\ UNCHANGED <<running, errorChecking, tree, text, attributeMaps, document, names>>
  BY <1>5
<1>6. CASE /\ running = "document" /\ Document!Next
           /\ UNCHANGED <<running, errorChecking, tree, text, attributeMaps, tables, names>>
  BY <1>6
<1>7. CASE /\ running = "names" /\ Naming!Next
           /\ UNCHANGED <<running, errorChecking, tree, text, attributeMaps, tables, document>>
  BY <1>7
<1> QED
  BY <1>1, <1>2, <1>3, <1>4, <1>5, <1>6, <1>7 DEF DocumentNext

-----------------------------------------------------------------------------
(* The attributes of elements.                                             *)

Lists == Seq(Attrs)
Name(a) == attr[a].nodeName
Owner(a) == attr[a].ownerElement

TypeInv ==
    /\ attributes \in [Elements -> Lists]
    /\ attr \in [Attrs -> Attr]
    /\ errorChecking \in BOOLEAN /\ doubled \in BOOLEAN

(* What is in a map was made; its names are kept apart, and it knows its   *)
(* owner.                                                                  *)
Made(s) == \A i \in 1 .. Len(s) : Name(s[i]) \in Names
Apart(s) == \A i, j \in 1 .. Len(s) : SameName(Name(s[i]), Name(s[j])) => i = j
Owned(s, e) == \A i \in 1 .. Len(s) : Owner(s[i]) = e

IInv ==
    /\ TypeInv
    /\ \A e \in Elements : Made(attributes[e])
    /\ ~doubled => \A e \in Elements : Apart(attributes[e])
    /\ errorChecking => \A e \in Elements : Owned(attributes[e], e)

-----------------------------------------------------------------------------

(* A list without one of its elements keeps the others in their order.     *)
LEMMA RemoveAtList ==
  ASSUME NEW S, NEW s \in Seq(S), NEW i \in 1 .. Len(s)
  PROVE  /\ RemoveAt(s, i) \in Seq(S) /\ Len(RemoveAt(s, i)) = Len(s) - 1
         /\ \A k \in 1 .. Len(s) - 1 :
               RemoveAt(s, i)[k] = IF k < i THEN s[k] ELSE s[k + 1]
<1> DEFINE low == SubSeq(s, 1, i - 1)
           high == SubSeq(s, i + 1, Len(s))
<1>1. Len(s) \in Nat /\ i \in Nat /\ i <= Len(s) /\ i >= 1
  OBVIOUS
<1>2. /\ low \in Seq(S) /\ Len(low) = i - 1
      /\ \A k \in 1 .. i - 1 : low[k] = s[k]
  <2>1. /\ \A k \in 1 .. i - 1 : s[k] \in S
        /\ 1 \in Int /\ i - 1 \in Int
    BY <1>1
  <2> QED BY <1>1, <2>1, SubSeqProperties
<1>3. /\ high \in Seq(S) /\ Len(high) = Len(s) - i
      /\ \A k \in 1 .. Len(s) - i : high[k] = s[i + k]
  <2>1. /\ \A k \in i + 1 .. Len(s) : s[k] \in S
        /\ i + 1 \in Int /\ Len(s) \in Int
    BY <1>1
  <2> QED BY <1>1, <2>1, SubSeqProperties
<1>4. RemoveAt(s, i) = low \o high
  BY DEF RemoveAt
<1> HIDE DEF low, high
<1>5. /\ low \o high \in Seq(S) /\ Len(low \o high) = Len(s) - 1
      /\ \A k \in 1 .. Len(s) - 1 :
            (low \o high)[k] = IF k < i THEN low[k] ELSE high[k - (i - 1)]
  <2>1. /\ low \o high \in Seq(S) /\ Len(low \o high) = Len(low) + Len(high)
        /\ \A k \in 1 .. Len(low) + Len(high) :
              (low \o high)[k] = IF k <= Len(low) THEN low[k] ELSE high[k - Len(low)]
    BY <1>2, <1>3, ConcatProperties
  <2>2. Len(low) + Len(high) = Len(s) - 1 /\ Len(low) = i - 1
    BY <1>1, <1>2, <1>3
  <2>3. \A k \in 1 .. Len(s) - 1 : k <= i - 1 <=> k < i
    BY <1>1
  <2> QED BY <2>1, <2>2, <2>3
<1>6. ASSUME NEW k \in 1 .. Len(s) - 1
      PROVE  (low \o high)[k] = IF k < i THEN s[k] ELSE s[k + 1]
  <2>1. CASE k < i
    <3>1. k \in 1 .. i - 1
      BY <1>1, <2>1
    <3> QED BY <1>2, <1>5, <2>1, <3>1
  <2>2. CASE ~(k < i)
    <3>1. k - (i - 1) \in 1 .. Len(s) - i /\ i + (k - (i - 1)) = k + 1
      BY <1>1, <2>2
    <3> QED BY <1>3, <1>5, <2>2, <3>1
  <2> QED BY <2>1, <2>2
<1> QED BY <1>4, <1>5, <1>6

(* The first index of a list that a test lets pass, or 0.                  *)
LEMMA FirstNamed ==
  ASSUME TypeInv, NEW e \in Elements, NEW n
  PROVE  LET s == attributes[e]
             i == FindNamed(e, n)
         IN  \/ i = 0 /\ \A k \in 1 .. Len(s) : ~SameName(Name(s[k]), n)
             \/ i \in 1 .. Len(s) /\ SameName(Name(s[i]), n)
<1> DEFINE s == attributes[e]
           T == {i \in 1 .. Len(s) : SameName(Name(s[i]), n)}
<1>1. s \in Seq(Attrs) /\ DOMAIN s = 1 .. Len(s)
  BY DEF TypeInv, Lists
<1>2. CASE T = {}
  BY <1>1, <1>2 DEF FindNamed, First, Name
<1>3. CASE T # {}
  <2>1. T \in SUBSET Nat
    BY <1>1
  <2>2. PICK i \in T : \A k \in T : ~(<<k, i>> \in OpToRel(<, Nat))
    BY <1>3, <2>1, NatLessThanWellFounded, WFMin
  <2>3. i \in T /\ \A k \in T : ~(k < i)
    BY <2>1, <2>2 DEF OpToRel
  <2>4. i \in DOMAIN s /\ SameName(attr[s[i]].nodeName, n)
        /\ \A k \in 1 .. (i - 1) : ~SameName(attr[s[k]].nodeName, n)
    BY <1>1, <2>3 DEF Name
  <2> QED BY <1>1, <2>4 DEF FindNamed, First, Name
<1> QED BY <1>2, <1>3

(* As FirstNamed, for calls that name a namespace: only where it is.       *)
LEMMA FirstNamedNS ==
  ASSUME TypeInv, NEW e \in Elements, NEW ns, NEW n
  PROVE  LET s == attributes[e]
             i == FindNamedNS(e, ns, n)
         IN  i = 0 \/ (i \in 1 .. Len(s) /\ SameName(Local[Name(s[i])], n))
<1> DEFINE s == attributes[e]
           Same(a) == /\ attr[a].namespaceURI # None /\ ns # None
                      /\ SameName(attr[a].namespaceURI, ns)
                      /\ SameName(Local[attr[a].nodeName], n)
           T == {i \in 1 .. Len(s) : Same(s[i])}
<1>1. s \in Seq(Attrs) /\ DOMAIN s = 1 .. Len(s)
  BY DEF TypeInv, Lists
<1>2. CASE T = {}
  BY <1>1, <1>2 DEF FindNamedNS, First, Name
<1>3. CASE T # {}
  <2>1. T \in SUBSET Nat
    BY <1>1
  <2>2. PICK i \in T : \A k \in T : ~(<<k, i>> \in OpToRel(<, Nat))
    BY <1>3, <2>1, NatLessThanWellFounded, WFMin
  <2>3. i \in T /\ \A k \in T : ~(k < i)
    BY <2>1, <2>2 DEF OpToRel
  <2>4. i \in DOMAIN s /\ Same(s[i]) /\ \A k \in 1 .. (i - 1) : ~Same(s[k])
    BY <1>1, <2>3
  <2> QED BY <1>1, <2>4 DEF FindNamedNS, First, Name
<1> QED BY <1>2, <1>3

-----------------------------------------------------------------------------

LEMMA InitIsInv == ASSUME Init PROVE IInv
<1>1. attr \in [Attrs -> Attr] /\ errorChecking \in BOOLEAN /\ doubled \in BOOLEAN
  BY DEF Init, Attr
<1>2. /\ attributes \in [Elements -> Lists]
      /\ \A e \in Elements : 1 .. Len(attributes[e]) = {}
  BY DEF Init, Lists
<1> QED BY <1>1, <1>2 DEF IInv, TypeInv, Made, Apart, Owned

(* attr changes at attributes in no map, or in a way that keeps names and, *)
(* where calls are checked, the owners of what is in maps.                 *)
LEMMA CreateStep ==
  ASSUME IInv, NEW a \in Attrs, NEW n \in Names, NEW ns \in Namespaces \cup {None},
         NEW v \in Values \cup {None}, Create(a, n, ns, v)
  PROVE  IInv'
<1>1. /\ attr[a].nodeName = None /\ a \in Attrs
      /\ UNCHANGED <<attributes, errorChecking, doubled>> /\ TypeInv
  BY DEF Create, Unmade, IInv, TypeInv
<1> DEFINE new == [nodeName |-> n, namespaceURI |-> ns, ownerElement |-> None,
                   nodeValue |-> v]
<1>2. new \in Attr
  BY DEF Attr
<1>3. attr' = [attr EXCEPT ![a] = new]
  BY DEF Create
<1> HIDE DEF new
<1>4. attr' \in [Attrs -> Attr] /\ \A b \in Attrs \ {a} : attr'[b] = attr[b]
  BY <1>1, <1>2, <1>3 DEF TypeInv
<1>5. \A e \in Elements : \A i \in 1 .. Len(attributes[e]) : attributes[e][i] \in Attrs \ {a}
  <2> SUFFICES ASSUME NEW e \in Elements, NEW i \in 1 .. Len(attributes[e])
               PROVE  attributes[e][i] \in Attrs \ {a}
    OBVIOUS
  <2>1. attributes[e] \in Seq(Attrs)
    BY <1>1 DEF TypeInv, Lists
  <2>2. attributes[e][i] \in Attrs
    BY <2>1
  <2>3. attr[attributes[e][i]].nodeName # None
    BY AttributesAssumption DEF IInv, Made, Name
  <2> QED BY <1>1, <2>2, <2>3
<1> QED BY <1>1, <1>4, <1>5 DEF IInv, TypeInv, Made, Apart, Owned, Name, Owner

LEMMA RemoveStep ==
  ASSUME IInv, NEW e \in Elements, NEW i \in 0 .. Len(attributes[e]), RemoveItem(e, i)
  PROVE  IInv'
<1> DEFINE s == attributes[e]
           kept == RemoveAt(s, i)
<1>1. /\ s \in Seq(Attrs) /\ i \in 1 .. Len(s) /\ TypeInv
      /\ attributes' = [attributes EXCEPT ![e] = kept]
      /\ UNCHANGED <<attr, errorChecking, doubled>>
  BY DEF RemoveItem, IInv, TypeInv, Lists
<1>2. /\ kept \in Seq(Attrs) /\ Len(kept) = Len(s) - 1
      /\ \A k \in 1 .. Len(s) - 1 : kept[k] = IF k < i THEN s[k] ELSE s[k + 1]
  BY <1>1, RemoveAtList
<1>3. Len(s) \in Nat /\ i \in Nat
  BY <1>1
<1> HIDE DEF s, kept
<1>4. \A k \in 1 .. Len(kept) : \E j \in 1 .. Len(s) : kept[k] = s[j]
  BY <1>2, <1>3
<1>5. Apart(s) => Apart(kept)
  <2> SUFFICES ASSUME Apart(s), NEW j \in 1 .. Len(kept), NEW k \in 1 .. Len(kept),
                      SameName(Name(kept[j]), Name(kept[k]))
               PROVE  j = k
    BY DEF Apart
  <2> DEFINE old(m) == IF m < i THEN m ELSE m + 1
  <2>1. /\ old(j) \in 1 .. Len(s) /\ old(k) \in 1 .. Len(s)
        /\ kept[j] = s[old(j)] /\ kept[k] = s[old(k)]
    BY <1>2, <1>3
  <2>2. old(j) = old(k)
    BY <2>1 DEF Apart
  <2> QED BY <1>2, <1>3, <2>2
<1>6. (Made(s) => Made(kept)) /\ (Owned(s, e) => Owned(kept, e))
  BY <1>4 DEF Made, Owned
<1>7. TypeInv'
  BY <1>1, <1>2 DEF TypeInv, Lists
<1>8. /\ attributes'[e] = kept /\ attributes[e] = s
      /\ \A f \in Elements \ {e} : attributes'[f] = attributes[f]
  BY <1>1 DEF TypeInv, s
<1>9. \A f \in Elements : /\ Made(attributes[f])' 
                          /\ ~doubled => Apart(attributes[f])'
                          /\ errorChecking => Owned(attributes[f], f)'
  <2>1. /\ Made(kept) /\ (~doubled => Apart(kept)) /\ (errorChecking => Owned(kept, e))
    BY <1>5, <1>6, <1>8 DEF IInv
  <2>2. attr' = attr
    BY <1>1
  <2>3. /\ Made(attributes[e])' /\ (~doubled => Apart(attributes[e])')
        /\ (errorChecking => Owned(attributes[e], e)')
    BY <1>8, <2>1, <2>2 DEF Made, Apart, Owned, Name, Owner
  <2>4. ASSUME NEW f \in Elements \ {e}
        PROVE  /\ Made(attributes[f])' /\ (~doubled => Apart(attributes[f])')
               /\ (errorChecking => Owned(attributes[f], f)')
    BY <1>8, <2>2 DEF IInv, Made, Apart, Owned, Name, Owner
  <2> QED BY <2>3, <2>4
<1> QED BY <1>1, <1>7, <1>9 DEF IInv

(* An attribute goes over the one at an index of a map, or behind them all *)
(* (0), while no other attribute gets another name.                        *)
LEMMA PutStep ==
  ASSUME IInv, NEW e \in Elements, NEW a \in Attrs, NEW i \in 0 .. Len(attributes[e]),
         SetNamedItem(e, a, i), UNCHANGED errorChecking,
         attr' \in [Attrs -> Attr], doubled' \in BOOLEAN, doubled => doubled',
         \A b \in Attrs \ {a} : Name(b)' = Name(b),
         Name(a)' \in Names, Name(a) \in Names => Name(a)' = Name(a),
         ~doubled' => \A k \in 1 .. Len(attributes[e]) :
                         k # i => ~SameName(Name(attributes[e][k]), Name(a)'),
         errorChecking => /\ Owner(a)' = e /\ (Owner(a) \in {e, None} \/ Name(a) = None)
                          /\ \A b \in Attrs \ {a} : Owner(b)' = Owner(b)
  PROVE  IInv'
<1> DEFINE s == attributes[e]
           t == IF i = 0 THEN Append(s, a) ELSE ReplaceAt(s, i, a)
           p == IF i = 0 THEN Len(s) + 1 ELSE i
<1>1. TypeInv /\ s \in Seq(Attrs) /\ Len(s) \in Nat /\ i \in Nat
  BY DEF IInv, TypeInv, Lists
<1>2. attributes' = [attributes EXCEPT ![e] = t]
  BY DEF SetNamedItem
<1>3. /\ t \in Seq(Attrs) /\ p \in 1 .. Len(t) /\ t[p] = a
      /\ \A k \in 1 .. Len(t) : k # p => k \in 1 .. Len(s) /\ k # i /\ t[k] = s[k]
  <2>1. CASE i = 0
    <3>1. t = Append(s, a) /\ p = Len(s) + 1
      BY <2>1
    <3> HIDE DEF t, p, s
    <3>2. /\ t \in Seq(Attrs) /\ Len(t) = Len(s) + 1 /\ t[Len(s) + 1] = a
          /\ \A k \in 1 .. Len(s) : t[k] = s[k]
      BY <1>1, <3>1, AppendProperties
    <3> QED BY <1>1, <2>1, <3>1, <3>2
  <2>2. CASE i # 0
    <3>1. t = [s EXCEPT ![i] = a] /\ p = i /\ i \in 1 .. Len(s)
      BY <1>1, <2>2 DEF ReplaceAt
    <3> HIDE DEF t, p, s
    <3> QED BY <1>1, <3>1
  <2> QED BY <2>1, <2>2
<1> HIDE DEF t, p
<1>4. /\ attributes'[e] = t /\ \A f \in Elements \ {e} : attributes'[f] = attributes[f]
      /\ TypeInv'
  BY <1>1, <1>2, <1>3 DEF TypeInv, Lists
(* What is in a map keeps its name.                                        *)
<1>5. ASSUME NEW f \in Elements, NEW k \in 1 .. Len(attributes[f]), NEW b,
             b = attributes[f][k]
      PROVE  b \in Attrs /\ attr'[b].nodeName = attr[b].nodeName
             /\ attr[b].nodeName \in Names
  <2>1. attributes[f] \in Seq(Attrs)
    BY <1>1 DEF TypeInv, Lists
  <2>2. b \in Attrs /\ attr[b].nodeName \in Names
    BY <1>5, <2>1 DEF IInv, Made, Name
  <2> QED BY <2>2 DEF Name
<1>6. ASSUME NEW f \in Elements PROVE Made(attributes[f])'
  <2>1. CASE f = e
    <3>1. \A k \in 1 .. Len(t) : attr'[t[k]].nodeName \in Names
      BY <1>3, <1>5 DEF Name
    <3> QED BY <1>4, <2>1, <3>1 DEF Made, Name
  <2>2. CASE f # e
    BY <1>4, <1>5, <2>2 DEF Made, Name
  <2> QED BY <2>1, <2>2
<1>7. ASSUME ~doubled', NEW f \in Elements PROVE Apart(attributes[f])'
  <2>1. CASE f = e
    <3>1. \A k \in 1 .. Len(t) : k # p => ~SameName(attr'[t[k]].nodeName, attr'[a].nodeName)
      BY <1>3, <1>5, <1>7 DEF Name
    <3>2. Apart(s)
      BY <1>7 DEF IInv
    <3>3. ASSUME NEW j \in 1 .. Len(t), NEW k \in 1 .. Len(t),
                 SameName(attr'[t[j]].nodeName, attr'[t[k]].nodeName)
          PROVE  j = k
      <4>1. CASE j = p \/ k = p
        BY <1>3, <3>1, <3>3, <4>1 DEF SameName
      <4>2. CASE j # p /\ k # p
        <5>1. j \in 1 .. Len(s) /\ k \in 1 .. Len(s) /\ t[j] = s[j] /\ t[k] = s[k]
          BY <1>3, <4>2
        <5>2. SameName(attr[s[j]].nodeName, attr[s[k]].nodeName)
          BY <1>5, <3>3, <5>1
        <5> QED BY <3>2, <5>1, <5>2 DEF Apart, Name
      <4> QED BY <4>1, <4>2
    <3> QED BY <1>4, <2>1, <3>3 DEF Apart, Name, SameName
  <2>2. CASE f # e
    <3>1. Apart(attributes[f])
      BY <1>7 DEF IInv
    <3> QED BY <1>4, <1>5, <2>2, <3>1 DEF Apart, Name, SameName
  <2> QED BY <2>1, <2>2
<1>8. ASSUME errorChecking, NEW f \in Elements PROVE Owned(attributes[f], f)'
  <2>1. Owned(attributes[f], f) /\ f # None
    BY <1>8, AttributesAssumption DEF IInv
  <2>2. CASE f = e
    <3>1. \A k \in 1 .. Len(t) : attr'[t[k]].ownerElement = e
      BY <1>3, <1>5, <1>8, <2>1, <2>2 DEF Owned, Owner
    <3> QED BY <1>4, <2>2, <3>1 DEF Owned, Owner
  <2>3. CASE f # e
    <3>1. ASSUME NEW k \in 1 .. Len(attributes[f])
          PROVE  attr'[attributes[f][k]].ownerElement = f
      <4> DEFINE b == attributes[f][k]
      <4>1. b \in Attrs /\ Name(b) # None /\ Owner(b) = f
        BY <1>5, <2>1, AttributesAssumption DEF Owned, Name
      <4> HIDE DEF b
      <4>2. b # a
        BY <1>8, <2>1, <2>3, <4>1
      <4>3. attr'[b].ownerElement = f
        BY <1>8, <4>1, <4>2 DEF Owner
      <4> QED BY <4>3 DEF b
    <3> QED BY <1>4, <2>3, <3>1 DEF Owned, Owner
  <2> QED BY <2>2, <2>3
<1> QED BY <1>4, <1>6, <1>7, <1>8 DEF IInv

(* What is not in use has no other owner.                                  *)
LEMMA NotInUse ==
  ASSUME NEW e, NEW a, ~InUse(e, a)
  PROVE  Owner(a) \in {e, None}
  BY DEF InUse, Owner

LEMMA SetAttributeStep ==
  ASSUME IInv, NEW e \in Elements, NEW n \in Names, NEW v \in Values, SetAttribute(e, n, v)
  PROVE  IInv'
<1> DEFINE i == FindNamed(e, n)
           s == attributes[e]
<1>1. PICK a \in IF i = 0 THEN Unmade ELSE {s[i]} :
         /\ ~(errorChecking /\ InUse(e, a))
         /\ attr' = [attr EXCEPT ![a].nodeName = IF i = 0 THEN n ELSE attr[a].nodeName,
                                 ![a].nodeValue = v, ![a].ownerElement = e]
         /\ SetNamedItem(e, a, i) /\ UNCHANGED <<errorChecking, doubled>>
  BY DEF SetAttribute
<1>2. TypeInv /\ s \in Seq(Attrs) /\ Made(s) /\ (~doubled => Apart(s))
  BY DEF IInv, TypeInv, Lists
<1>3. \/ i = 0 /\ \A k \in 1 .. Len(s) : ~SameName(Name(s[k]), n)
      \/ i \in 1 .. Len(s) /\ SameName(Name(s[i]), n)
  BY <1>2, FirstNamed
<1> HIDE DEF i
<1>4. a \in Attrs /\ i \in 0 .. Len(s) /\ (i # 0 => a = s[i] /\ Name(a) \in Names)
      /\ (i = 0 => Name(a) = None)
  <2>1. CASE i = 0
    BY <1>1, <1>2, <2>1 DEF Unmade, Name
  <2>2. CASE i # 0
    BY <1>1, <1>2, <1>3, <2>2 DEF Made
  <2> QED BY <2>1, <2>2
<1> DEFINE name == IF i = 0 THEN n ELSE attr[a].nodeName
           new == [attr[a] EXCEPT !.nodeName = name, !.nodeValue = v, !.ownerElement = e]
<1>5. name \in Names
  BY <1>4 DEF Name
<1>6. attr \in [Attrs -> Attr] /\ attr[a] \in Attr
  BY <1>2, <1>4 DEF TypeInv
<1>7. new \in Attr /\ new.nodeName = name /\ new.ownerElement = e
  BY <1>5, <1>6 DEF Attr
<1>8. attr' = [attr EXCEPT ![a] = new]
  BY <1>1, <1>6
<1> HIDE DEF new, name
<1>9. /\ attr' \in [Attrs -> Attr] /\ Name(a)' = name /\ Owner(a)' = e
      /\ \A b \in Attrs \ {a} : Name(b)' = Name(b) /\ Owner(b)' = Owner(b)
  BY <1>4, <1>6, <1>7, <1>8 DEF Name, Owner
<1>10. Name(a) \in Names => name = Name(a)
  BY <1>4, AttributesAssumption DEF name, Name
<1>11. ~doubled => \A k \in 1 .. Len(s) : k # i => ~SameName(Name(s[k]), name)
  <2>1. CASE i = 0
    BY <1>3, <2>1 DEF name
  <2>2. CASE i # 0
    BY <1>2, <1>3, <1>4, <2>2 DEF name, Apart, Name
  <2> QED BY <2>1, <2>2
<1>12. errorChecking => Owner(a) \in {e, None}
  BY <1>1, NotInUse
<1>13. doubled \in BOOLEAN
  BY <1>2 DEF TypeInv
<1> QED BY <1>1, <1>4, <1>5, <1>9, <1>10, <1>11, <1>12, <1>13, PutStep

(* An attribute goes over the one of its name and namespace; no other has  *)
(* its name unless the map is now doubled.                                 *)
LEMMA AfterSetNS ==
  ASSUME TypeInv, NEW e \in Elements, NEW a, NEW ns, NEW n, SetNamedItemNS(e, a, ns, n)
  PROVE  LET s == attributes[e]
             i == FindNamedNS(e, ns, Local[n])
         IN  /\ i \in 0 .. Len(s) /\ SetNamedItem(e, a, i) /\ doubled' \in BOOLEAN
             /\ doubled => doubled'
             /\ ~doubled' => \A k \in 1 .. Len(s) : k # i => ~SameName(Name(s[k]), n)
<1> DEFINE s == attributes[e]
           i == FindNamedNS(e, ns, Local[n])
           kept == IF i = 0 THEN s ELSE RemoveAt(s, i)
<1>1. /\ SetNamedItem(e, a, i)
      /\ doubled' = (doubled \/ \E k \in DOMAIN kept : SameName(attr[kept[k]].nodeName, n))
  BY DEF SetNamedItemNS
<1>2. s \in Seq(Attrs) /\ Len(s) \in Nat /\ doubled \in BOOLEAN
  BY DEF TypeInv, Lists
<1>3. i = 0 \/ i \in 1 .. Len(s)
  BY FirstNamedNS
<1> HIDE DEF i
<1>4. ASSUME NEW k \in 1 .. Len(s), k # i
      PROVE  \E j \in DOMAIN kept : kept[j] = s[k]
  <2>1. CASE i = 0
    BY <1>2, <2>1
  <2>2. CASE i # 0
    <3>1. i \in 1 .. Len(s) /\ kept = RemoveAt(s, i)
      BY <1>3, <2>2
    <3>2. /\ kept \in Seq(Attrs) /\ Len(kept) = Len(s) - 1
          /\ \A j \in 1 .. Len(s) - 1 : kept[j] = IF j < i THEN s[j] ELSE s[j + 1]
      BY <1>2, <3>1, RemoveAtList
    <3>3. DOMAIN kept = 1 .. Len(s) - 1
      BY <3>2
    <3> HIDE DEF kept, s
    <3>4. CASE k < i
      <4>1. k \in 1 .. Len(s) - 1
        BY <1>2, <3>1, <3>4
      <4> QED BY <3>2, <3>3, <3>4, <4>1
    <3>5. CASE k > i
      <4>1. k - 1 \in 1 .. Len(s) - 1 /\ ~(k - 1 < i) /\ (k - 1) + 1 = k
        BY <1>2, <3>1, <3>5
      <4> QED BY <3>2, <3>3, <4>1
    <3> QED BY <1>2, <1>4, <3>1, <3>4, <3>5
  <2> QED BY <2>1, <2>2
<1> HIDE DEF kept
<1>5. ~doubled' => \A k \in 1 .. Len(s) : k # i => ~SameName(Name(s[k]), n)
  BY <1>1, <1>4 DEF Name
<1>6. i \in 0 .. Len(s)
  BY <1>2, <1>3
<1>7. doubled' \in BOOLEAN /\ (doubled => doubled')
  BY <1>1, <1>2
<1> QED BY <1>1, <1>5, <1>6, <1>7 DEF i

LEMMA SetAttributeNSStep ==
  ASSUME IInv, NEW e \in Elements, NEW ns \in Namespaces \cup {None}, NEW n \in Names,
         NEW v \in Values, SetAttributeNS(e, ns, n, v)
  PROVE  IInv'
<1> DEFINE s == attributes[e]
           i == FindNamedNS(e, ns, Local[n])
           new(a) == [nodeName |-> n, namespaceURI |-> ns, ownerElement |-> e, nodeValue |-> v]
<1>1. PICK a \in Unmade : attr' = [attr EXCEPT ![a] = new(a)] /\ SetNamedItemNS(e, a, ns, n)
  BY DEF SetAttributeNS
<1>2. /\ TypeInv /\ a \in Attrs /\ Name(a) = None /\ UNCHANGED errorChecking
      /\ attr \in [Attrs -> Attr]
  BY <1>1 DEF IInv, TypeInv, Unmade, Name, SetAttributeNS
<1>3. new(a) \in Attr /\ new(a).nodeName = n /\ new(a).ownerElement = e
  BY DEF Attr
<1> HIDE DEF new
<1>4. /\ attr' \in [Attrs -> Attr] /\ Name(a)' = n /\ Owner(a)' = e
      /\ \A b \in Attrs \ {a} : Name(b)' = Name(b) /\ Owner(b)' = Owner(b)
  BY <1>1, <1>2, <1>3 DEF Name, Owner
<1>5. /\ i \in 0 .. Len(s) /\ SetNamedItem(e, a, i) /\ doubled' \in BOOLEAN
      /\ doubled => doubled'
      /\ ~doubled' => \A k \in 1 .. Len(s) : k # i => ~SameName(Name(s[k]), n)
  BY <1>1, <1>2, AfterSetNS
<1>6. Name(a) \notin Names
  BY <1>2, AttributesAssumption
<1> HIDE DEF i
<1> QED BY <1>2, <1>4, <1>5, <1>6, PutStep

LEMMA SetAttributeNodeNSStep ==
  ASSUME IInv, NEW e \in Elements, NEW a \in Attrs, SetAttributeNodeNS(e, a)
  PROVE  IInv'
<1> DEFINE s == attributes[e]
           i == FindNamedNS(e, attr[a].namespaceURI, Local[Name(a)])
           new == [attr[a] EXCEPT !.ownerElement = e]
<1>1. /\ TypeInv /\ attr \in [Attrs -> Attr] /\ attr[a] \in Attr /\ UNCHANGED errorChecking
      /\ Name(a) # None /\ Name(a) \in Names
  BY DEF SetAttributeNodeNS, IInv, TypeInv, Unmade, Name, Attr
<1>2. new \in Attr /\ new.nodeName = Name(a) /\ new.ownerElement = e
  BY <1>1 DEF Attr, Name
<1>3. attr' = [attr EXCEPT ![a] = new]
  BY <1>1 DEF SetAttributeNodeNS
<1> HIDE DEF new
<1>4. /\ attr' \in [Attrs -> Attr] /\ Name(a)' = Name(a) /\ Owner(a)' = e
      /\ \A b \in Attrs \ {a} : Name(b)' = Name(b) /\ Owner(b)' = Owner(b)
  BY <1>1, <1>2, <1>3 DEF Name, Owner
<1>5. SetNamedItemNS(e, a, attr[a].namespaceURI, Name(a)) /\ ~(errorChecking /\ InUse(e, a))
  BY DEF SetAttributeNodeNS, Name
<1>6. /\ i \in 0 .. Len(s) /\ SetNamedItem(e, a, i) /\ doubled' \in BOOLEAN
      /\ doubled => doubled'
      /\ ~doubled' => \A k \in 1 .. Len(s) : k # i => ~SameName(Name(s[k]), Name(a))
  BY <1>1, <1>5, AfterSetNS
<1> HIDE DEF i
<1>7. errorChecking => Owner(a) \in {e, None}
  BY <1>5, NotInUse
<1> QED BY <1>1, <1>4, <1>6, <1>7, PutStep

LEMMA SetAttributeNodeStep ==
  ASSUME IInv, NEW e \in Elements, NEW a \in Attrs, SetAttributeNode(e, a)
  PROVE  IInv'
<1> DEFINE s == attributes[e]
           n == Name(a)
           i == FindNamed(e, n)
           old == s[i]
           follows == ~errorChecking /\ i > 0 /\ Lower[n] = "id"
           copied == IF follows
                     THEN [attr EXCEPT ![old].nodeValue = ValueIn(attr[a]),
                                       ![old].ownerElement = e]
                     ELSE attr
<1>1. /\ TypeInv /\ attr \in [Attrs -> Attr] /\ attr[a] \in Attr /\ doubled \in BOOLEAN
      /\ UNCHANGED <<errorChecking, doubled>> /\ n # None /\ n \in Names
  BY DEF SetAttributeNode, IInv, TypeInv, Unmade, Name, Attr
<1>2. attr' = [copied EXCEPT ![a].ownerElement = e]
  BY DEF SetAttributeNode, Name
<1>3. SetNamedItem(e, a, i) /\ ~(errorChecking /\ InUse(e, a))
  BY DEF SetAttributeNode, Name
<1>4. \/ i = 0 /\ \A k \in 1 .. Len(s) : ~SameName(Name(s[k]), n)
      \/ i \in 1 .. Len(s) /\ SameName(Name(s[i]), n)
  BY <1>1, FirstNamed
<1>5. s \in Seq(Attrs) /\ (~doubled => Apart(s))
  BY DEF IInv, TypeInv, Lists
<1> HIDE DEF i
<1>6. /\ copied \in [Attrs -> Attr]
      /\ \A b \in Attrs : /\ copied[b].nodeName = attr[b].nodeName
                          /\ errorChecking => copied[b] = attr[b]
  <2>1. CASE follows
    <3> DEFINE new == [attr[old] EXCEPT !.nodeValue = ValueIn(attr[a]), !.ownerElement = e]
    <3>0. ValueIn(attr[a]) \in Values
      BY <1>1, AttributesAssumption DEF ValueIn, Attr
    <3>1. old \in Attrs /\ attr[old] \in Attr
      BY <1>1, <1>4, <1>5, <2>1
    <3>2. new \in Attr /\ new.nodeName = attr[old].nodeName
      BY <1>1, <3>0, <3>1 DEF Attr
    <3>3. copied = [attr EXCEPT ![old] = new]
      BY <1>1, <2>1, <3>1
    <3> HIDE DEF new, copied, old
    <3> QED BY <1>1, <2>1, <3>1, <3>2, <3>3
  <2>2. CASE ~follows
    BY <1>1, <2>2
  <2> QED BY <2>1, <2>2
<1> HIDE DEF copied
<1>7. /\ attr' \in [Attrs -> Attr] /\ Name(a)' = n /\ Owner(a)' = e
      /\ \A b \in Attrs \ {a} : /\ Name(b)' = Name(b)
                                /\ errorChecking => Owner(b)' = Owner(b)
  <2> DEFINE new == [copied[a] EXCEPT !.ownerElement = e]
  <2>1. new \in Attr /\ new.nodeName = n /\ new.ownerElement = e
    BY <1>6 DEF Attr, Name
  <2>2. attr' = [copied EXCEPT ![a] = new]
    BY <1>2, <1>6
  <2> HIDE DEF new
  <2> QED BY <1>6, <2>1, <2>2 DEF Name, Owner
<1>8. i \in 0 .. Len(s)
  BY <1>4, <1>5
<1>9. ~doubled => \A k \in 1 .. Len(s) : k # i => ~SameName(Name(s[k]), n)
  BY <1>4, <1>5 DEF Apart, SameName
<1>10. errorChecking => Owner(a) \in {e, None}
  BY <1>3, NotInUse
<1> HIDE DEF n
<1> QED BY <1>1, <1>3, <1>7, <1>8, <1>9, <1>10, PutStep DEF n

-----------------------------------------------------------------------------
LEMMA Inductive ==
  ASSUME IInv, [Next]_vars
  PROVE  IInv'
<1>1. CASE UNCHANGED vars
  BY <1>1 DEF vars, IInv, TypeInv, Made, Apart, Owned, Name, Owner, SameName
<1>2. ASSUME NEW a \in Attrs, NEW n \in Names,
             \/ CreateAttribute(a, n)
             \/ \E ns \in Namespaces \cup {None} : CreateAttributeNS(a, n, ns)
      PROVE  IInv'
  BY <1>2, CreateStep, AttributesAssumption DEF CreateAttribute, CreateAttributeNS
<1>3. ASSUME NEW e \in Elements, NEW a \in Attrs,
             SetAttributeNode(e, a) \/ SetAttributeNodeNS(e, a)
      PROVE  IInv'
  BY <1>3, SetAttributeNodeStep, SetAttributeNodeNSStep
<1>4. ASSUME NEW e \in Elements, NEW n \in Names, NEW v \in Values, SetAttribute(e, n, v)
      PROVE  IInv'
  BY <1>4, SetAttributeStep
<1>5. ASSUME NEW e \in Elements, NEW n \in Names, NEW ns \in Namespaces \cup {None},
             NEW v \in Values, SetAttributeNS(e, ns, n, v)
      PROVE  IInv'
  BY <1>5, SetAttributeNSStep
<1>6. ASSUME NEW e \in Elements, NEW i, RemoveItem(e, i),
             i = 0 \/ i \in 1 .. Len(attributes[e])
      PROVE  IInv'
  <2>1. i \in 0 .. Len(attributes[e])
    BY <1>6 DEF RemoveItem, IInv, TypeInv, Lists
  <2> QED BY <1>6, <2>1, RemoveStep
<1>7. ASSUME NEW e \in Elements, NEW n \in Names, RemoveAttribute(e, n)
      PROVE  IInv'
  BY <1>6, <1>7, FirstNamed DEF RemoveAttribute, IInv
<1>8. ASSUME NEW e \in Elements, NEW n \in Names, NEW ns \in Namespaces \cup {None},
             RemoveAttributeNS(e, ns, n)
      PROVE  IInv'
  BY <1>6, <1>8, FirstNamedNS DEF RemoveAttributeNS, IInv
<1> QED BY <1>1, <1>2, <1>3, <1>4, <1>5, <1>7, <1>8 DEF Next

(* Calls that name no namespace keep the names of every element apart, and *)
(* where calls are checked, an attribute is in the map of its owner only.  *)
THEOREM MapsAgreeAlways == DocumentSpec => []MapsAgree
<1>1. IInv => MapsAgree
  <2> SUFFICES ASSUME IInv PROVE MapsAgree
    OBVIOUS
  <2>1. \A e \in Elements : DOMAIN attributes[e] = 1 .. Len(attributes[e])
    BY DEF IInv, TypeInv, Lists
  <2> QED BY <2>1 DEF IInv, MapsAgree, Apart, Owned, Name, Owner
<1>2. DocumentInit => IInv
  BY InitIsInv DEF DocumentInit
<1>3. IInv /\ [DocumentNext]_all => IInv'
  BY Inductive, OneRuns
<1> QED BY <1>1, <1>2, <1>3, PTL DEF DocumentSpec

-----------------------------------------------------------------------------
(* What an element answers for a name, of its list and the attributes.     *)

NamedAt(s, at, n, k) == SameName(at[s[k]].nodeName, n)
PositionOf(s, at, n) ==
    IF \E i \in DOMAIN s : NamedAt(s, at, n, i)
    THEN CHOOSE i \in DOMAIN s : NamedAt(s, at, n, i) /\ \A j \in 1..(i - 1) : ~NamedAt(s, at, n, j)
    ELSE 0
AnswerOf(s, at, n) ==
    IF PositionOf(s, at, n) = 0 THEN None ELSE ValueIn(at[s[PositionOf(s, at, n)]])
Differ(s, at) ==
    \A i, j \in 1 .. Len(s) :
        SameName(at[s[i]].nodeName, at[s[j]].nodeName) => i = j

LEMMA ValueIsAnswer ==
    ASSUME NEW e, NEW n
    PROVE  /\ ValueOf(e, n) = AnswerOf(attributes[e], attr, n)
           /\ ValueOf(e, n)' = AnswerOf(attributes'[e], attr', n)
<1>1. FindNamed(e, n) = PositionOf(attributes[e], attr, n)
  BY DEF FindNamed, First, PositionOf, NamedAt
<1>2. FindNamed(e, n)' = PositionOf(attributes'[e], attr', n)
  BY DEF FindNamed, First, PositionOf, NamedAt
<1> QED
  BY <1>1, <1>2 DEF ValueOf, AnswerOf

(* Where names differ, the answer is the value of the one with that name.  *)
LEMMA AnswerIs ==
    ASSUME NEW s \in Seq(Attrs), NEW at, NEW n, Differ(s, at)
    PROVE  /\ (\A k \in 1 .. Len(s) : ~NamedAt(s, at, n, k)) => AnswerOf(s, at, n) = None
           /\ \A k \in 1 .. Len(s) :
                 NamedAt(s, at, n, k) => AnswerOf(s, at, n) = ValueIn(at[s[k]])
<1>1. DOMAIN s = 1 .. Len(s) /\ Len(s) \in Nat
  OBVIOUS
<1>2. (\A k \in 1 .. Len(s) : ~NamedAt(s, at, n, k)) => AnswerOf(s, at, n) = None
  BY <1>1 DEF AnswerOf, PositionOf
<1>3. ASSUME NEW k \in 1 .. Len(s), NamedAt(s, at, n, k)
      PROVE  AnswerOf(s, at, n) = ValueIn(at[s[k]])
  <2> DEFINE Only(i) == /\ NamedAt(s, at, n, i)
                        /\ \A j \in 1 .. i - 1 : ~NamedAt(s, at, n, j)
  <2>1. \A j \in 1 .. Len(s) : NamedAt(s, at, n, j) => j = k
    BY <1>3 DEF NamedAt, Differ, SameName
  <2>2. Only(k) /\ k \in DOMAIN s
    BY <1>1, <1>3, <2>1
  <2>3. \A i \in DOMAIN s : Only(i) => i = k
    BY <1>1, <2>1
  <2>4. PositionOf(s, at, n) = CHOOSE i \in DOMAIN s : Only(i)
    BY <2>2 DEF PositionOf
  <2> HIDE DEF Only
  <2>5. (CHOOSE i \in DOMAIN s : Only(i)) = k
    BY <2>2, <2>3
  <2>6. PositionOf(s, at, n) = k /\ k # 0
    BY <1>1, <2>4, <2>5
  <2> QED
    BY <2>6 DEF AnswerOf
<1> QED
  BY <1>2, <1>3

(* Two lists that have the same under a name answer the same.              *)
LEMMA SameAnswer ==
    ASSUME NEW s \in Seq(Attrs), NEW t \in Seq(Attrs), NEW at, NEW bt, NEW n,
           Differ(s, at), Differ(t, bt),
           \A k \in 1 .. Len(s) : NamedAt(s, at, n, k) =>
               \E l \in 1 .. Len(t) :
                   t[l] = s[k] /\ NamedAt(t, bt, n, l) /\ bt[s[k]].nodeValue = at[s[k]].nodeValue,
           \A l \in 1 .. Len(t) : NamedAt(t, bt, n, l) =>
               \E k \in 1 .. Len(s) : NamedAt(s, at, n, k)
    PROVE  AnswerOf(t, bt, n) = AnswerOf(s, at, n)
<1>1. CASE \A k \in 1 .. Len(s) : ~NamedAt(s, at, n, k)
  BY <1>1, AnswerIs
<1>2. ASSUME NEW k \in 1 .. Len(s), NamedAt(s, at, n, k)
      PROVE  AnswerOf(t, bt, n) = AnswerOf(s, at, n)
  BY <1>2, AnswerIs DEF ValueIn
<1> QED
  BY <1>1, <1>2

(* Nobody but an element for a name gets another answer.                   *)
Touched(e, n) ==
    \A f \in Elements, m \in Names :
        f # e \/ ~SameName(m, n) => ValueOf(f, m)' = ValueOf(f, m)

LEMMA OneTouched ==
    ASSUME NEW e, NEW n, Touched(e, n) PROVE TouchesOneName
  BY DEF Touched, TouchesOneName, SameName

(* Or for two names of one local name, of which the first is given up and  *)
(* the second is new.                                                      *)
Renamed(e, n1, n2) ==
    /\ SameName(Local[n1], Local[n2])
    /\ \A f \in Elements, m \in Names :
          /\ f # e \/ (~SameName(m, n1) /\ ~SameName(m, n2)) => ValueOf(f, m)' = ValueOf(f, m)
          /\ SameName(m, n1) => ValueOf(e, m)' = None
          /\ SameName(m, n2) => ValueOf(e, m) = None

LEMMA TwoTouched ==
    ASSUME NEW e, NEW n1 \in Names, NEW n2 \in Names, Renamed(e, n1, n2) PROVE TouchesOneName
<1> SUFFICES ASSUME NEW f \in Elements, NEW g \in Elements, NEW n \in Names, NEW m \in Names,
                    ValueOf(f, n)' # ValueOf(f, n), ValueOf(g, m)' # ValueOf(g, m)
             PROVE  f = g /\ (SameName(n, m) \/ Renames(f, n, m) \/ Renames(f, m, n))
  BY DEF TouchesOneName
<1>1. /\ f = e /\ (SameName(n, n1) \/ SameName(n, n2))
      /\ g = e /\ (SameName(m, n1) \/ SameName(m, n2))
  BY DEF Renamed
<1>2. ASSUME NEW x \in Names, NEW y \in Names, SameName(x, n1), SameName(y, n2)
      PROVE  Renames(e, x, y)
  <2>1. ValueOf(e, x)' = None /\ ValueOf(e, y) = None
    BY <1>1, <1>2 DEF Renamed
  <2>2. SameName(Local[x], Local[y])
    BY <1>2, AttributesAssumption DEF SameName, Renamed
  <2> QED
    BY <2>1, <2>2 DEF Renames
<1> QED
  BY <1>1, <1>2 DEF SameName

LEMMA ListsDiffer ==
    ASSUME IInv, IInv', ~doubled, ~doubled', NEW e \in Elements
    PROVE  /\ attributes[e] \in Seq(Attrs) /\ attributes'[e] \in Seq(Attrs)
           /\ Differ(attributes[e], attr) /\ Differ(attributes'[e], attr')
           /\ \A k \in 1 .. Len(attributes[e]) :
                 attributes[e][k] \in Attrs /\ attr[attributes[e][k]].nodeName \in Names
<1>1. attributes[e] \in Seq(Attrs) /\ attributes'[e] \in Seq(Attrs)
  BY DEF IInv, TypeInv, Lists
<1>2. Differ(attributes[e], attr) /\ Differ(attributes'[e], attr')
  BY DEF IInv, Apart, Name, Differ
<1>3. \A k \in 1 .. Len(attributes[e]) : attr[attributes[e][k]].nodeName \in Names
  BY DEF IInv, Made, Name
<1> QED
  BY <1>1, <1>2, <1>3

(* A list that stays, and whose attributes keep names and values.          *)
LEMMA NotTouched ==
    ASSUME IInv, IInv', ~doubled, ~doubled', NEW f \in Elements, NEW m,
           attributes'[f] = attributes[f],
           \A k \in 1 .. Len(attributes[f]) :
               LET b == attributes[f][k]
               IN  attr'[b].nodeName = attr[b].nodeName /\ attr'[b].nodeValue = attr[b].nodeValue
    PROVE  ValueOf(f, m)' = ValueOf(f, m)
<1> DEFINE s == attributes[f]
<1>1. s \in Seq(Attrs) /\ Differ(s, attr) /\ Differ(s, attr')
  BY ListsDiffer
<1>2. \A k \in 1 .. Len(s) : NamedAt(s, attr', m, k) <=> NamedAt(s, attr, m, k)
  BY DEF NamedAt
<1> HIDE DEF s
<1>3. \A k \in 1 .. Len(s) : attr'[s[k]].nodeValue = attr[s[k]].nodeValue
  BY DEF s
<1>4. AnswerOf(s, attr', m) = AnswerOf(s, attr, m)
  BY <1>1, <1>2, <1>3, SameAnswer
<1> QED
  BY <1>4, ValueIsAnswer DEF s

(* An attribute is put into one map; it keeps its name.                    *)
Puts(e, a, i) ==
    /\ e \in Elements /\ a \in Attrs /\ i \in 0 .. Len(attributes[e])
    /\ SetNamedItem(e, a, i)
    /\ attr'[a].nodeName \in Names
    /\ \A b \in Attrs \ {a} :
          attr'[b].nodeName = attr[b].nodeName /\ attr'[b].nodeValue = attr[b].nodeValue
    /\ \/ attr[a].nodeName = None
       \/ /\ SameName(attr[a].nodeName, attr'[a].nodeName)
          /\ attr[a].ownerElement \in {e, None}

LEMMA PutOthers ==
    ASSUME IInv, IInv', errorChecking, ~doubled, ~doubled', NEW e, NEW a, NEW i, Puts(e, a, i),
           NEW f \in Elements, NEW m \in Names,
           \/ f # e
           \/ /\ ~SameName(m, attr'[a].nodeName)
              /\ i # 0 => ~SameName(m, attr[attributes[e][i]].nodeName)
    PROVE  ValueOf(f, m)' = ValueOf(f, m)
<1> DEFINE n == attr'[a].nodeName
<1> USE DEF Puts
<1> DEFINE s == attributes[e]
           t == IF i = 0 THEN Append(s, a) ELSE ReplaceAt(s, i, a)
<1>0. attributes' = [attributes EXCEPT ![e] = t]
  BY DEF SetNamedItem
<1>1. attributes \in [Elements -> Seq(Attrs)]
  BY DEF IInv, TypeInv, Lists
<1>2. /\ s \in Seq(Attrs) /\ t \in Seq(Attrs) /\ Differ(s, attr) /\ Differ(t, attr')
      /\ \A k \in 1 .. Len(s) : s[k] \in Attrs /\ attr[s[k]].nodeName \in Names
  BY <1>0, <1>1, ListsDiffer
<1>3. CASE f # e
  <2>1. attributes'[f] = attributes[f]
    BY <1>0, <1>1, <1>3
  <2>2. ASSUME NEW k \in 1 .. Len(attributes[f]) PROVE attributes[f][k] \in Attrs \ {a}
    <3>1. /\ attributes[f][k] \in Attrs
          /\ attr[attributes[f][k]].nodeName \in Names
      BY <2>2, ListsDiffer
    <3>2. attr[attributes[f][k]].ownerElement = f
      BY DEF IInv, Owned, Owner
    <3> QED
      BY <1>3, <3>1, <3>2, AttributesAssumption
  <2> QED
    BY <2>1, <2>2, NotTouched
<1>4. CASE f = e
  <2>1. /\ Len(s) \in Nat /\ Len(t) \in Nat
        /\ \A k \in 1 .. Len(s) : k # i => k \in 1 .. Len(t) /\ t[k] = s[k]
        /\ \A l \in 1 .. Len(t) : t[l] = a \/ (l \in 1 .. Len(s) /\ t[l] = s[l])
    <3>1. CASE i = 0
      BY <1>2, <3>1, AppendProperties
    <3>2. CASE i # 0
      BY <1>2, <3>2 DEF ReplaceAt
    <3> QED
      BY <3>1, <3>2
  <2> HIDE DEF t, s
  <2>2. ASSUME NEW k \in 1 .. Len(s), NamedAt(s, attr, m, k)
        PROVE  /\ k \in 1 .. Len(t) /\ t[k] = s[k] /\ NamedAt(t, attr', m, k)
               /\ attr'[s[k]].nodeValue = attr[s[k]].nodeValue
    <3>1. ~SameName(attr[s[k]].nodeName, n)
      BY <1>4, <2>2 DEF NamedAt, SameName
    <3>2. k # i
      BY <1>2, <1>4, <2>1, <2>2 DEF s, NamedAt, SameName
    <3>3. s[k] \in Attrs \ {a}
      BY <1>2, <3>1, AttributesAssumption
    <3> QED
      BY <2>1, <2>2, <3>2, <3>3 DEF NamedAt
  <2>3. ASSUME NEW l \in 1 .. Len(t), NamedAt(t, attr', m, l)
        PROVE  l \in 1 .. Len(s) /\ NamedAt(s, attr, m, l)
    <3>1. t[l] # a
      BY <1>4, <2>3 DEF NamedAt, SameName
    <3>2. l \in 1 .. Len(s) /\ t[l] = s[l] /\ s[l] \in Attrs \ {a}
      BY <1>2, <2>1, <3>1
    <3> QED
      BY <2>3, <3>2 DEF NamedAt
  <2>4. AnswerOf(t, attr', m) = AnswerOf(s, attr, m)
    BY <1>2, <2>2, <2>3, SameAnswer
  <2>5. attributes'[e] = t
    BY <1>0, <1>1
  <2> QED
    BY <1>4, <2>4, <2>5, ValueIsAnswer DEF s
<1> QED
  BY <1>3, <1>4

LEMMA PutTouches ==
    ASSUME IInv, IInv', errorChecking, ~doubled, ~doubled', NEW e, NEW a, NEW i, Puts(e, a, i),
           i # 0 => SameName(attr[attributes[e][i]].nodeName, attr'[a].nodeName)
    PROVE  Touched(e, attr'[a].nodeName)
  BY PutOthers DEF Touched, SameName

(* Put over one of another name, while nothing else has the name that it   *)
(* brings.                                                                 *)
LEMMA PutRenames ==
    ASSUME IInv, IInv', errorChecking, ~doubled, ~doubled', NEW e, NEW a, NEW i, Puts(e, a, i),
           i # 0, ~SameName(attr[attributes[e][i]].nodeName, attr'[a].nodeName),
           SameName(Local[attr[attributes[e][i]].nodeName], Local[attr'[a].nodeName]),
           \A k \in 1 .. Len(attributes[e]) :
               k # i => ~SameName(attr[attributes[e][k]].nodeName, attr'[a].nodeName)
    PROVE  Renamed(e, attr[attributes[e][i]].nodeName, attr'[a].nodeName)
<1> DEFINE s == attributes[e]
           t == ReplaceAt(s, i, a)
           n1 == attr[s[i]].nodeName
           n2 == attr'[a].nodeName
<1>1. attributes' = [attributes EXCEPT ![e] = t] /\ e \in Elements /\ a \in Attrs
  BY DEF Puts, SetNamedItem
<1>2. attributes'[e] = t
  BY <1>1 DEF IInv, TypeInv
<1>3. /\ s \in Seq(Attrs) /\ t \in Seq(Attrs) /\ Differ(s, attr) /\ Differ(t, attr')
      /\ \A k \in 1 .. Len(s) : s[k] \in Attrs /\ attr[s[k]].nodeName \in Names
  BY <1>1, <1>2, ListsDiffer
<1>4. i \in 1 .. Len(s) /\ Len(s) \in Nat
  BY <1>3 DEF Puts
<1>5. Len(t) = Len(s) /\ t[i] = a /\ \A k \in 1 .. Len(s) : k # i => t[k] = s[k]
  BY <1>3, <1>4 DEF ReplaceAt
<1>6. ASSUME NEW m \in Names, SameName(m, n2) PROVE ValueOf(e, m) = None
  <2>1. \A k \in 1 .. Len(s) : ~NamedAt(s, attr, m, k)
    BY <1>6 DEF NamedAt, SameName
  <2>2. AnswerOf(s, attr, m) = None
    BY <1>3, <2>1, AnswerIs
  <2> QED
    BY <2>2, ValueIsAnswer
<1>7. ASSUME NEW m \in Names, SameName(m, n1) PROVE ValueOf(e, m)' = None
  <2>1. ASSUME NEW k \in 1 .. Len(t) PROVE ~NamedAt(t, attr', m, k)
    <3>1. CASE k = i
      BY <1>5, <1>7, <3>1 DEF NamedAt, SameName
    <3>2. CASE k # i
      <4>1. k \in 1 .. Len(s) /\ t[k] = s[k] /\ ~SameName(attr[s[k]].nodeName, n1)
        BY <1>3, <1>4, <1>5, <3>2 DEF Differ
      <4>2. s[k] \in Attrs /\ s[k] # a
        <5>1. ~SameName(attr[s[k]].nodeName, n2) /\ attr[s[k]].nodeName # None
          BY <1>3, <3>2, <4>1, AttributesAssumption
        <5> QED
          BY <1>3, <4>1, <5>1 DEF Puts
      <4> QED
        BY <1>7, <4>1, <4>2 DEF Puts, NamedAt, SameName
    <3> QED
      BY <3>1, <3>2
  <2>2. AnswerOf(t, attr', m) = None
    BY <1>3, <2>1, AnswerIs
  <2> QED
    BY <1>2, <2>2, ValueIsAnswer
<1>8. ASSUME NEW f \in Elements, NEW m \in Names, f # e \/ (~SameName(m, n1) /\ ~SameName(m, n2))
      PROVE  ValueOf(f, m)' = ValueOf(f, m)
  BY <1>8, PutOthers
<1> QED
  BY <1>6, <1>7, <1>8 DEF Renamed

LEMMA CreateTouches ==
    ASSUME IInv, IInv', ~doubled, ~doubled', NEW a \in Attrs, NEW n \in Names,
           NEW ns, NEW v, Create(a, n, ns, v), NEW f \in Elements, NEW m
    PROVE  ValueOf(f, m)' = ValueOf(f, m)
<1>1. attributes' = attributes /\ attr[a].nodeName = None
  BY DEF Create, Unmade
<1>2. ASSUME NEW b \in Attrs \ {a} PROVE attr'[b] = attr[b]
  BY DEF Create, IInv, TypeInv
<1>3. ASSUME NEW k \in 1 .. Len(attributes[f]) PROVE attributes[f][k] \in Attrs \ {a}
  BY <1>1, ListsDiffer, AttributesAssumption
<1> QED
  BY <1>1, <1>2, <1>3, NotTouched

LEMMA SetAttributeTouches ==
    ASSUME IInv, IInv', errorChecking, ~doubled, ~doubled', NEW e \in Elements,
           NEW n \in Names, NEW v \in Values, SetAttribute(e, n, v)
    PROVE  \E m \in Names : Touched(e, m)
<1> DEFINE i == FindNamed(e, n)
           s == attributes[e]
<1>1. PICK a \in IF i = 0 THEN Unmade ELSE {s[i]} :
         /\ ~(errorChecking /\ InUse(e, a))
         /\ attr' = [attr EXCEPT ![a].nodeName = IF i = 0 THEN n ELSE attr[a].nodeName,
                                 ![a].nodeValue = v, ![a].ownerElement = e]
         /\ SetNamedItem(e, a, i) /\ UNCHANGED <<errorChecking, doubled>>
  BY DEF SetAttribute
<1>2. \/ i = 0 /\ \A k \in 1 .. Len(s) : ~SameName(Name(s[k]), n)
      \/ i \in 1 .. Len(s) /\ SameName(Name(s[i]), n)
  BY FirstNamed DEF IInv
<1>3. /\ s \in Seq(Attrs) /\ \A k \in 1 .. Len(s) : s[k] \in Attrs /\ attr[s[k]].nodeName \in Names
      /\ attr \in [Attrs -> Attr]
  BY ListsDiffer DEF IInv, TypeInv
<1> HIDE DEF i, s
<1>4. a \in Attrs /\ i \in 0 .. Len(s) /\ (i # 0 => a = s[i]) /\ (i = 0 => attr[a].nodeName = None)
  BY <1>1, <1>2, <1>3 DEF Unmade
<1> DEFINE name == IF i = 0 THEN n ELSE attr[a].nodeName
<1>5. name \in Names /\ attr'[a].nodeName = name
  <2>1. name \in Names
    BY <1>2, <1>3, <1>4
  <2>2. attr[a] \in Attr
    BY <1>3, <1>4
  <2> QED
    BY <1>1, <1>3, <1>4, <2>1, <2>2 DEF Attr
<1>6. \A b \in Attrs \ {a} : attr'[b] = attr[b]
  BY <1>1, <1>3
<1>7. attr[a].ownerElement \in {e, None}
  BY <1>1 DEF InUse
<1>8. \/ attr[a].nodeName = None
      \/ SameName(attr[a].nodeName, name) /\ attr[a].ownerElement \in {e, None}
  BY <1>4, <1>7 DEF SameName
<1>9. i # 0 => SameName(attr[s[i]].nodeName, name)
  BY <1>4 DEF SameName
<1> HIDE DEF name
<1>11. SetNamedItem(e, a, i) /\ i \in 0 .. Len(attributes[e])
  BY <1>1, <1>4 DEF s
<1>12. \A b \in Attrs \ {a} :
          attr'[b].nodeName = attr[b].nodeName /\ attr'[b].nodeValue = attr[b].nodeValue
  BY <1>6
<1>10. Touched(e, name)
  <2>1. Puts(e, a, i)
    BY <1>11, <1>12, <1>4, <1>5, <1>8 DEF Puts
  <2> QED
    BY <1>5, <1>9, <2>1, PutTouches DEF s
<1> QED
  BY <1>5, <1>10

(* With a namespace, over one of the same namespace and local name.        *)
LEMMA PutNSTouches ==
    ASSUME IInv, IInv', errorChecking, ~doubled, ~doubled', NEW e \in Elements, NEW a, NEW ns,
           NEW n \in Names, attr'[a].nodeName = n, SetNamedItemNS(e, a, ns, n),
           \A i : i \in 0 .. Len(attributes[e]) /\ SetNamedItem(e, a, i) => Puts(e, a, i)
    PROVE  TouchesOneName
<1> DEFINE i == FindNamedNS(e, ns, Local[n])
           n1 == attr[attributes[e][i]].nodeName
<1>1. /\ i \in 0 .. Len(attributes[e]) /\ SetNamedItem(e, a, i)
      /\ \A k \in 1 .. Len(attributes[e]) :
            k # i => ~SameName(attr[attributes[e][k]].nodeName, n)
  BY AfterSetNS DEF IInv, Name
<1>2. i # 0 => /\ SameName(Local[n1], Local[n])
               /\ i \in 1 .. Len(attributes[e])
  BY FirstNamedNS DEF IInv, Name
<1>3. i # 0 => n1 \in Names
  BY <1>2, ListsDiffer
<1> HIDE DEF i
<1>4. Puts(e, a, i)
  BY <1>1
<1>5. CASE i = 0 \/ SameName(n1, n)
  <2>1. Touched(e, attr'[a].nodeName)
    BY <1>4, <1>5, PutTouches
  <2> QED
    BY <2>1, OneTouched
<1>6. CASE i # 0 /\ ~SameName(n1, n)
  <2>1. Renamed(e, n1, attr'[a].nodeName)
    BY <1>1, <1>2, <1>4, <1>6, PutRenames
  <2> QED
    BY <1>3, <1>6, <2>1, TwoTouched
<1> QED
  BY <1>5, <1>6

LEMMA SetAttributeNSTouches ==
    ASSUME IInv, IInv', errorChecking, ~doubled, ~doubled', NEW e \in Elements,
           NEW ns \in Namespaces \cup {None}, NEW n \in Names, NEW v \in Values,
           SetAttributeNS(e, ns, n, v)
    PROVE  TouchesOneName
<1>1. PICK a \in Unmade :
         /\ attr' = [attr EXCEPT ![a] = [nodeName |-> n, namespaceURI |-> ns,
                                         ownerElement |-> e, nodeValue |-> v]]
         /\ SetNamedItemNS(e, a, ns, n)
  BY DEF SetAttributeNS
<1>2. a \in Attrs /\ attr[a].nodeName = None /\ attr \in [Attrs -> Attr]
  BY <1>1 DEF Unmade, IInv, TypeInv
<1>3. attr'[a].nodeName = n /\ \A b \in Attrs \ {a} : attr'[b] = attr[b]
  BY <1>1, <1>2
<1>4. \A i : i \in 0 .. Len(attributes[e]) /\ SetNamedItem(e, a, i) => Puts(e, a, i)
  BY <1>2, <1>3 DEF Puts
<1> QED
  BY <1>1, <1>3, <1>4, PutNSTouches

LEMMA SetAttributeNodeTouches ==
    ASSUME IInv, IInv', errorChecking, ~doubled, ~doubled', NEW e \in Elements,
           NEW a \in Attrs, SetAttributeNode(e, a) \/ SetAttributeNodeNS(e, a)
    PROVE  TouchesOneName
<1> DEFINE n == attr[a].nodeName
<1>1. /\ n \in Names /\ attr \in [Attrs -> Attr] /\ attr[a].ownerElement \in {e, None}
      /\ attr' = [attr EXCEPT ![a].ownerElement = e]
  BY DEF SetAttributeNode, SetAttributeNodeNS, IInv, TypeInv, Unmade, Attr, InUse
<1>2. attr'[a].nodeName = n /\ \A b \in Attrs \ {a} : attr'[b] = attr[b]
  <2>1. attr[a] \in Attr
    BY <1>1
  <2> QED
    BY <1>1, <2>1 DEF Attr
<1>3. \A i : i \in 0 .. Len(attributes[e]) /\ SetNamedItem(e, a, i) => Puts(e, a, i)
  BY <1>1, <1>2 DEF Puts, SameName
<1>4. CASE SetAttributeNode(e, a)
  <2> DEFINE i == FindNamed(e, n)
  <2>1. i \in 0 .. Len(attributes[e])
    BY FirstNamed, ListsDiffer DEF IInv
  <2>2. i # 0 => SameName(attr[attributes[e][i]].nodeName, n)
    BY FirstNamed DEF IInv, Name
  <2>3. SetNamedItem(e, a, i)
    BY <1>4 DEF SetAttributeNode
  <2> HIDE DEF i
  <2>4. Puts(e, a, i)
    BY <1>3, <2>1, <2>3
  <2>5. Touched(e, attr'[a].nodeName)
    BY <1>2, <2>2, <2>4, PutTouches
  <2> QED
    BY <2>5, OneTouched
<1>5. CASE SetAttributeNodeNS(e, a)
  <2>1. SetNamedItemNS(e, a, attr[a].namespaceURI, n)
    BY <1>5 DEF SetAttributeNodeNS
  <2> HIDE DEF n
  <2> QED
    BY <1>1, <1>2, <1>3, <2>1, PutNSTouches
<1> QED
  BY <1>4, <1>5

LEMMA RemoveTouches ==
    ASSUME IInv, IInv', ~doubled, ~doubled', NEW e \in Elements,
           NEW i \in 1 .. Len(attributes[e]), RemoveItem(e, i)
    PROVE  \E m \in Names : Touched(e, m)
<1> DEFINE s == attributes[e]
           t == RemoveAt(s, i)
           n == attr[s[i]].nodeName
<1>1. attributes' = [attributes EXCEPT ![e] = t] /\ attr' = attr
  BY DEF RemoveItem
<1>2. attributes \in [Elements -> Seq(Attrs)]
  BY DEF IInv, TypeInv, Lists
<1>3. attributes'[e] = t /\ \A f \in Elements \ {e} : attributes'[f] = attributes[f]
  BY <1>1, <1>2
<1>4. /\ s \in Seq(Attrs) /\ t \in Seq(Attrs) /\ Differ(s, attr) /\ Differ(t, attr) /\ n \in Names
  BY <1>1, <1>3, ListsDiffer
<1>5. /\ Len(t) = Len(s) - 1 /\ Len(s) \in Nat
      /\ \A k \in 1 .. Len(s) - 1 : t[k] = IF k < i THEN s[k] ELSE s[k + 1]
  <2>1. s \in Seq(Attrs) /\ i \in 1 .. Len(s)
    BY <1>4
  <2>2. Len(s) \in Nat
    BY <2>1
  <2> HIDE DEF s
  <2> QED
    BY <2>1, <2>2, RemoveAtList
<1>6. ASSUME NEW f \in Elements, NEW m \in Names, f # e \/ ~SameName(m, n)
      PROVE  ValueOf(f, m)' = ValueOf(f, m)
  <2>1. CASE f # e
    BY <1>1, <1>3, <2>1, NotTouched
  <2>2. CASE f = e
    <3>1. ~NamedAt(s, attr, m, i)
      BY <1>6, <2>2 DEF NamedAt, SameName
    <3> HIDE DEF s, t, n
    <3>2. ASSUME NEW k \in 1 .. Len(s), NamedAt(s, attr, m, k)
          PROVE  \E l \in 1 .. Len(t) :
                    t[l] = s[k] /\ NamedAt(t, attr, m, l)
      <4>1. CASE k < i
        <5>1. k \in 1 .. Len(t) /\ t[k] = s[k]
          BY <1>5, <4>1 DEF s
        <5> QED
          BY <3>2, <5>1 DEF NamedAt
      <4>2. CASE k > i
        <5>1. k - 1 \in 1 .. Len(t) /\ t[k - 1] = s[k]
          BY <1>5, <4>2 DEF s
        <5> QED
          BY <3>2, <5>1 DEF NamedAt
      <4> QED
        BY <3>1, <3>2, <4>1, <4>2
    <3>3. ASSUME NEW l \in 1 .. Len(t), NamedAt(t, attr, m, l)
          PROVE  \E k \in 1 .. Len(s) : NamedAt(s, attr, m, k)
      <4>1. \E k \in 1 .. Len(s) : t[l] = s[k]
        BY <1>5
      <4> QED
        BY <3>3, <4>1 DEF NamedAt
    <3>4. AnswerOf(t, attr, m) = AnswerOf(s, attr, m)
      BY <1>4, <3>2, <3>3, SameAnswer
    <3> QED
      BY <1>1, <1>3, <2>2, <3>4, ValueIsAnswer DEF s
  <2> QED
    BY <2>1, <2>2
<1> QED
  BY <1>4, <1>6 DEF Touched

(* doubled stays once it is.                                               *)
LEMMA DoubledStays ==
    ASSUME IInv, Next, doubled PROVE doubled'
<1>1. ASSUME NEW a \in Attrs, NEW n \in Names,
             \/ CreateAttribute(a, n)
             \/ \E ns \in Namespaces \cup {None} : CreateAttributeNS(a, n, ns)
      PROVE  doubled'
  BY <1>1 DEF CreateAttribute, CreateAttributeNS, Create
<1>2. ASSUME NEW e \in Elements, NEW a \in Attrs, SetAttributeNode(e, a)
      PROVE  doubled'
  <2>1. doubled' = doubled
    BY <1>2 DEF SetAttributeNode
  <2> QED
    BY <2>1
<1>3. ASSUME NEW e \in Elements, NEW a \in Attrs, SetAttributeNodeNS(e, a)
      PROVE  doubled'
  <2>1. SetNamedItemNS(e, a, attr[a].namespaceURI, attr[a].nodeName)
    BY <1>3 DEF SetAttributeNodeNS
  <2> QED
    BY <2>1, AfterSetNS DEF IInv
<1>4. ASSUME NEW e \in Elements, NEW n \in Names, NEW v \in Values, SetAttribute(e, n, v)
      PROVE  doubled'
  BY <1>4 DEF SetAttribute
<1>5. ASSUME NEW e \in Elements, NEW n \in Names, NEW ns \in Namespaces \cup {None},
             NEW v \in Values, SetAttributeNS(e, ns, n, v)
      PROVE  doubled'
  <2>1. PICK a \in Unmade : SetNamedItemNS(e, a, ns, n)
    BY <1>5 DEF SetAttributeNS
  <2> QED
    BY <2>1, AfterSetNS DEF IInv
<1>6. ASSUME NEW e \in Elements, NEW n \in Names, NEW ns \in Namespaces \cup {None},
             RemoveAttribute(e, n) \/ RemoveAttributeNS(e, ns, n)
      PROVE  doubled'
  BY <1>6 DEF RemoveAttribute, RemoveAttributeNS, RemoveItem
<1> QED
  BY <1>1, <1>2, <1>3, <1>4, <1>5, <1>6 DEF Next

LEMMA OneNameTouched ==
    ASSUME IInv, IInv', Next PROVE TouchesOneName
<1> SUFFICES ASSUME errorChecking, ~doubled' PROVE TouchesOneName
  BY DEF TouchesOneName
<1>1. ~doubled
  BY DoubledStays
<1>2. ASSUME NEW a \in Attrs, NEW n \in Names,
             \/ CreateAttribute(a, n)
             \/ \E ns \in Namespaces \cup {None} : CreateAttributeNS(a, n, ns)
      PROVE  TouchesOneName
  <2>1. PICK ns \in Namespaces \cup {None}, v \in Values \cup {None} : Create(a, n, ns, v)
    BY <1>2, AttributesAssumption DEF CreateAttribute, CreateAttributeNS
  <2> QED
    BY <1>1, <2>1, CreateTouches DEF TouchesOneName
<1>3. ASSUME NEW e \in Elements, NEW a \in Attrs,
             SetAttributeNode(e, a) \/ SetAttributeNodeNS(e, a)
      PROVE  TouchesOneName
  BY <1>1, <1>3, SetAttributeNodeTouches
<1>4. ASSUME NEW e \in Elements, NEW n \in Names, NEW v \in Values, SetAttribute(e, n, v)
      PROVE  TouchesOneName
  BY <1>1, <1>4, SetAttributeTouches, OneTouched
<1>5. ASSUME NEW e \in Elements, NEW n \in Names, NEW ns \in Namespaces \cup {None},
             NEW v \in Values, SetAttributeNS(e, ns, n, v)
      PROVE  TouchesOneName
  BY <1>1, <1>5, SetAttributeNSTouches
<1>6. ASSUME NEW e \in Elements, NEW i, RemoveItem(e, i),
             i = 0 \/ i \in 1 .. Len(attributes[e])
      PROVE  TouchesOneName
  <2>1. i \in 1 .. Len(attributes[e])
    BY <1>6 DEF RemoveItem
  <2> QED
    BY <1>1, <1>6, <2>1, RemoveTouches, OneTouched
<1>7. ASSUME NEW e \in Elements, NEW n \in Names, RemoveAttribute(e, n)
      PROVE  TouchesOneName
  BY <1>6, <1>7, FirstNamed DEF RemoveAttribute, IInv
<1>8. ASSUME NEW e \in Elements, NEW n \in Names, NEW ns \in Namespaces \cup {None},
             RemoveAttributeNS(e, ns, n)
      PROVE  TouchesOneName
  BY <1>6, <1>8, FirstNamedNS DEF RemoveAttributeNS, IInv
<1> QED
  BY <1>2, <1>3, <1>4, <1>5, <1>7, <1>8 DEF Next

(* Where calls are checked, a call changes what one element answers for    *)
(* one name, and nothing that another element or for another name is       *)
(* answered - unless it puts p:id where q:id was, or an element has two    *)
(* attributes of one name.                                                 *)
THEOREM CallsTouchOneNameAlways == DocumentSpec => CallsTouchOneName
<1>1. DocumentInit => IInv
  BY InitIsInv DEF DocumentInit
<1>2. IInv /\ [DocumentNext]_all => IInv'
  BY Inductive, OneRuns
<1>3. IInv /\ [DocumentNext]_all => [running = "attributes" => TouchesOneName]_all
  <2> SUFFICES ASSUME IInv, DocumentNext, running = "attributes" PROVE TouchesOneName
    OBVIOUS
  <2>1. Next
    BY DEF DocumentNext
  <2>2. IInv'
    BY <1>2
  <2> QED
    BY <2>1, <2>2, OneNameTouched
<1> QED
  BY <1>1, <1>2, <1>3, PTL DEF DocumentSpec, CallsTouchOneName

-----------------------------------------------------------------------------
(* Named elements.                                                         *)

NamingInv ==
    /\ elementAttributes \in
           [Named -> [Naming!AttributeNames -> ElementNames \cup {None}]]
    /\ getters \in [ElementNames -> Named \cup {None}]
    /\ Naming!NamesAgree

(* An element's name is one, or none.                                      *)
LEMMA NodeNames ==
    ASSUME NEW e \in Named, NEW a \in [Naming!AttributeNames -> ElementNames \cup {None}]
    PROVE  Naming!NodeName(e, a) \in ElementNames \cup {None}
<1>1. TagOf[e] \in {"form", "object", "img"}
  BY DocumentAssumption
<1>2. a["name"] \in ElementNames \cup {None} /\ a["id"] \in ElementNames \cup {None}
  BY DEF Naming!AttributeNames
<1> QED
  BY <1>1, <1>2 DEF Naming!NodeName

LEMMA SetKeepsNames ==
    ASSUME NamingInv, NEW e \in Named, NEW a \in Naming!AttributeNames, NEW n \in ElementNames,
           Naming!SetAttribute(e, a, n)
    PROVE  NamingInv'
<1> DEFINE now == [elementAttributes[e] EXCEPT ![a] = n]
           name == Naming!NodeName(e, now)
<1>1. now \in [Naming!AttributeNames -> ElementNames \cup {None}]
  BY DEF NamingInv
<1>2. name \in ElementNames \cup {None}
  BY <1>1, NodeNames
<1>3. /\ elementAttributes' = [elementAttributes EXCEPT ![e] = now]
      /\ getters' = IF name = None THEN getters ELSE [getters EXCEPT ![name] = e]
      /\ parted' = parted \cup Naming!Parted(e, name)
  BY DEF Naming!SetAttribute, Naming!AddNamedMap
<1> HIDE DEF now
<1>4. /\ \A f \in Named \ {e} : Naming!NameOf(f)' = Naming!NameOf(f)
      /\ Naming!NameOf(e)' = name
  BY <1>3 DEF NamingInv, Naming!NameOf, Naming!NodeName
<1>5. \A f \in Named : Naming!NameOf(f) \in ElementNames \cup {None}
  BY NodeNames DEF NamingInv, Naming!NameOf
<1> HIDE DEF name
<1>6. /\ elementAttributes' \in
             [Named -> [Naming!AttributeNames -> ElementNames \cup {None}]]
      /\ getters' \in [ElementNames -> Named \cup {None}]
  BY <1>1, <1>2, <1>3 DEF NamingInv
<1>7. ASSUME Naming!NamesLead', NEW f \in Named, Naming!NameOf(f)' # None
      PROVE  getters'[Naming!NameOf(f)'] = f
  <2>1. Naming!NamesLead /\ Naming!Parted(e, name) \subseteq {"renamed"}
    BY <1>3, <1>7 DEF Naming!NamesLead
  <2>2. name = None \/ \A g \in Named \ {e} : Naming!NameOf(g) # name
    BY <2>1 DEF Naming!Parted
  <2>3. CASE f = e
    BY <1>2, <1>3, <1>4, <1>7, <2>3 DEF NamingInv
  <2>4. CASE f # e
    <3>1. getters[Naming!NameOf(f)] = f /\ Naming!NameOf(f) # name
      BY <1>4, <1>7, <2>1, <2>2, <2>4 DEF NamingInv, Naming!NamesAgree
    <3> QED
      BY <1>2, <1>3, <1>4, <1>5, <1>7, <2>4, <3>1 DEF NamingInv
  <2> QED
    BY <2>3, <2>4
<1>8. ASSUME Naming!ElementsBear', NEW m \in ElementNames, getters'[m] # None
      PROVE  (Naming!NameOf(getters[m]))' = m
  <2>1. Naming!ElementsBear /\ Naming!NameOf(e) \in {name, None}
    BY <1>3, <1>8 DEF Naming!ElementsBear, Naming!Parted
  <2>2. CASE m = name
    <3>1. getters'[m] = e
      BY <1>2, <1>3, <1>6, <1>8, <2>2, DocumentAssumption DEF NamingInv
    <3> QED
      BY <1>4, <2>2, <3>1 DEF Naming!NameOf
  <2>3. CASE m # name
    <3>1. getters'[m] = getters[m] /\ getters[m] \in Named
      BY <1>2, <1>3, <1>8, <2>3 DEF NamingInv
    <3>2. Naming!NameOf(getters[m]) = m
      BY <1>8, <2>1, <3>1 DEF NamingInv, Naming!NamesAgree
    <3>3. getters[m] # e
      BY <2>1, <2>3, <3>2, DocumentAssumption
    <3> QED
      BY <1>4, <3>1, <3>2, <3>3 DEF Naming!NameOf
  <2> QED
    BY <2>2, <2>3
<1> QED
  BY <1>6, <1>7, <1>8 DEF NamingInv, Naming!NamesAgree

(* A getter is deleted for the name an element had.                        *)
LEMMA DeletingKeepsNames ==
    ASSUME NamingInv, NEW e \in Named,
           NEW now \in [Naming!AttributeNames -> ElementNames \cup {None}],
           elementAttributes' = [elementAttributes EXCEPT ![e] = now],
           getters' = Naming!RemoveNamedMap(Naming!NameOf(e)),
           parted \subseteq parted',
           Naming!NamesLead' => Naming!NodeName(e, now) = None
    PROVE  NamingInv'
<1> DEFINE old == Naming!NameOf(e)
<1>1. /\ \A f \in Named \ {e} : Naming!NameOf(f)' = Naming!NameOf(f)
      /\ Naming!NameOf(e)' = Naming!NodeName(e, now)
  BY DEF NamingInv, Naming!NameOf, Naming!NodeName
<1>2. \A f \in Named : Naming!NameOf(f) \in ElementNames \cup {None}
  BY NodeNames DEF NamingInv, Naming!NameOf
<1>3. getters' = IF old = None THEN getters ELSE [getters EXCEPT ![old] = None]
  BY DEF Naming!RemoveNamedMap
<1>4. /\ elementAttributes' \in
             [Named -> [Naming!AttributeNames -> ElementNames \cup {None}]]
      /\ getters' \in [ElementNames -> Named \cup {None}]
  BY <1>2, <1>3 DEF NamingInv
<1>5. ASSUME Naming!NamesLead', NEW f \in Named, Naming!NameOf(f)' # None
      PROVE  getters'[Naming!NameOf(f)'] = f
  <2>1. f # e /\ Naming!NamesLead
    BY <1>1, <1>5 DEF Naming!NamesLead
  <2>2. getters[Naming!NameOf(f)] = f
    BY <1>1, <1>5, <2>1 DEF NamingInv, Naming!NamesAgree
  <2>3. old # None => getters[old] = e
    BY <2>1 DEF NamingInv, Naming!NamesAgree
  <2> QED
    BY <1>1, <1>2, <1>3, <1>5, <2>1, <2>2, <2>3 DEF NamingInv
<1>6. ASSUME Naming!ElementsBear', NEW m \in ElementNames, getters'[m] # None
      PROVE  (Naming!NameOf(getters[m]))' = m
  <2>1. Naming!ElementsBear
    BY <1>6 DEF Naming!ElementsBear
  <2>2. m # old /\ getters'[m] = getters[m] /\ getters[m] \in Named
    <3>1. m # None
      BY DocumentAssumption
    <3>2. m # old
      BY <1>3, <1>6, <3>1 DEF NamingInv
    <3> HIDE DEF old
    <3> QED
      BY <1>3, <1>6, <3>2 DEF NamingInv
  <2>3. Naming!NameOf(getters[m]) = m
    BY <2>1, <2>2, <1>6 DEF NamingInv, Naming!NamesAgree
  <2>4. getters[m] # e
    BY <2>2, <2>3
  <2> QED
    BY <1>1, <2>2, <2>3, <2>4 DEF Naming!NameOf
<1> QED
  BY <1>4, <1>5, <1>6 DEF NamingInv, Naming!NamesAgree

LEMMA NamingStep == NamingInv /\ [Naming!Next]_(Naming!vars) => NamingInv'
<1> SUFFICES ASSUME NamingInv, [Naming!Next]_(Naming!vars) PROVE NamingInv'
  OBVIOUS
<1>1. ASSUME UNCHANGED <<elementAttributes, getters, parted>> PROVE NamingInv'
  BY <1>1
     DEF NamingInv, Naming!NamesAgree, Naming!NamesLead, Naming!ElementsBear, Naming!NameOf
<1>2. ASSUME NEW e \in Named, NEW a \in Naming!AttributeNames, Naming!RemoveAttribute(e, a)
      PROVE  NamingInv'
  <2> DEFINE now == [elementAttributes[e] EXCEPT ![a] = None]
  <2>1. now \in [Naming!AttributeNames -> ElementNames \cup {None}]
    BY DEF NamingInv
  <2>2. /\ elementAttributes' = [elementAttributes EXCEPT ![e] = now]
        /\ getters' = Naming!RemoveNamedMap(Naming!NameOf(e))
        /\ parted' = parted \cup (IF Naming!NodeName(e, now) # None
                                  THEN {"other attribute"} ELSE {})
    BY <1>2 DEF Naming!RemoveAttribute
  <2>3. Naming!NamesLead' => Naming!NodeName(e, now) = None
    BY <2>2 DEF Naming!NamesLead
  <2> HIDE DEF now
  <2> QED
    BY <2>1, <2>2, <2>3, DeletingKeepsNames
<1>3. ASSUME NEW e \in Named, Naming!RemoveChild(e) \/ Naming!AppendChild(e)
      PROVE  NamingInv'
  <2> DEFINE now == elementAttributes[e]
  <2>1. CASE UNCHANGED <<elementAttributes, getters, parted>>
    BY <2>1, <1>1
  <2>2. CASE ~UNCHANGED <<elementAttributes, getters, parted>>
    <3>1. /\ now \in [Naming!AttributeNames -> ElementNames \cup {None}]
          /\ elementAttributes' = [elementAttributes EXCEPT ![e] = now]
      BY <1>3 DEF NamingInv, Naming!RemoveChild, Naming!AppendChild
    <3>2. /\ getters' = Naming!RemoveNamedMap(Naming!NameOf(e))
          /\ parted' = parted \cup (IF Naming!NameOf(e) # None THEN {"taken out"} ELSE {})
      BY <1>3, <2>2 DEF Naming!RemoveChild, Naming!AppendChild
    <3>3. Naming!NamesLead' => Naming!NodeName(e, now) = None
      BY <3>2 DEF Naming!NamesLead, Naming!NameOf
    <3> HIDE DEF now
    <3> QED
      BY <3>1, <3>2, <3>3, DeletingKeepsNames
  <2> QED
    BY <2>1, <2>2
<1> QED
  BY <1>1, <1>2, <1>3, SetKeepsNames DEF Naming!Next, Naming!vars

(* document.x is the element named x, and back, as far as the calls that   *)
(* part the two have not been made: for any elements, names and calls.     *)
THEOREM NamesAgreeAlways == DocumentSpec => []NamesAgree
<1>1. DocumentInit => NamingInv
  <2> SUFFICES ASSUME Naming!Init PROVE NamingInv
    BY DEF DocumentInit
  <2>1. \A e \in Named : Naming!NameOf(e) = None
    BY DocumentAssumption DEF Naming!Init, Naming!NameOf, Naming!NodeName, Naming!AttributeNames
  <2> QED
    BY <2>1 DEF NamingInv, Naming!Init, Naming!NamesAgree
<1>2. NamingInv /\ [DocumentNext]_all => NamingInv'
  BY OneRuns, NamingStep
<1>3. NamingInv => NamesAgree
  BY DEF NamingInv, NamesAgree
<1> QED
  BY <1>1, <1>2, <1>3, PTL DEF DocumentSpec

-----------------------------------------------------------------------------
(* The getters of an HTML document.                                        *)

Titles == [tag : {"title"}, id : Nat, text : Texts \cup {Untitled}]
Belows == [tag : {"head", "body"}, id : Nat, childNodes : Seq(Titles)]
Htmls == [tag : {"html"}, id : Nat, childNodes : Seq(Belows)]
Docs == [childNodes : Seq(Htmls), made : Nat]
Getters == {"documentElement", "head", "body", "title"}

Tagged(nodes, tag) == \E i \in 1 .. Len(nodes) : nodes[i].tag = tag
Below(d) == Document!Html(d).childNodes

(* A getter finds what it looks for.                                       *)
Has(getter, d) ==
    /\ d.childNodes # <<>>
    /\ getter \in {"head", "title"} => Tagged(Below(d), "head")
    /\ getter = "body" => Tagged(Below(d), "body")
    /\ getter = "title" => Tagged(Document!HeadOf(d).childNodes, "title")

(* One document has what another has, at the same places, and maybe more:  *)
(* only a head without a title may have been given one.                    *)
Extends(d, e) ==
    d.childNodes # <<>> =>
        /\ e.childNodes # <<>> /\ Document!Html(e).id = Document!Html(d).id
        /\ Len(Below(d)) <= Len(Below(e))
        /\ \A i \in 1 .. Len(Below(d)) :
              /\ Below(e)[i].tag = Below(d)[i].tag /\ Below(e)[i].id = Below(d)[i].id
              /\ Tagged(Below(d)[i].childNodes, "title") =>
                    Below(e)[i].childNodes = Below(d)[i].childNodes

DocumentInv ==
    /\ Document!Here \in Docs
    /\ DOMAIN known \subseteq Getters
    /\ \A g \in DOMAIN known :
          Has(g, Document!Here) /\ Document!Answer(g, Document!Here) = known[g]

LEMMA FoundTag ==
    ASSUME NEW S, NEW s \in Seq(S), NEW tag
    PROVE  /\ Document!FindTag(s, tag) \in 0 .. Len(s)
           /\ Document!FindTag(s, tag) > 0 <=> Tagged(s, tag)
           /\ Tagged(s, tag) => s[Document!FindTag(s, tag)].tag = tag
           /\ \A k \in 1 .. Len(s) :
                 (s[k].tag = tag /\ \A j \in 1 .. k - 1 : s[j].tag # tag)
                     => Document!FindTag(s, tag) = k
<1> DEFINE T == {i \in 1 .. Len(s) : s[i].tag = tag}
           First1(i) == s[i].tag = tag /\ \A j \in 1 .. i - 1 : s[j].tag # tag
<1>0. Len(s) \in Nat /\ DOMAIN s = 1 .. Len(s)
  OBVIOUS
<1>1. CASE ~Tagged(s, tag)
  BY <1>0, <1>1 DEF Document!FindTag, Tagged
<1>2. CASE Tagged(s, tag)
  <2>1. T # {} /\ T \subseteq Nat
    BY <1>0, <1>2 DEF Tagged
  <2>2. PICK m \in T : \A j \in T : ~(<<j, m>> \in OpToRel(<, Nat))
    BY <2>1, NatLessThanWellFounded, WFMin
  <2>3. \A j \in T : ~(j < m)
    BY <2>1, <2>2 DEF OpToRel
  <2>4. m \in DOMAIN s /\ First1(m)
    BY <1>0, <2>3
  <2>5. \A k, l \in DOMAIN s : First1(k) /\ First1(l) => k = l
    BY <1>0
  <2>6. Document!FindTag(s, tag) = CHOOSE i \in DOMAIN s : First1(i)
    BY <1>0, <1>2 DEF Document!FindTag, Tagged
  <2> HIDE DEF First1
  <2>7. Document!FindTag(s, tag) \in DOMAIN s /\ First1(Document!FindTag(s, tag))
    BY <2>4, <2>6
  <2>8. \A k \in 1 .. Len(s) : First1(k) => Document!FindTag(s, tag) = k
    BY <1>0, <2>5, <2>7
  <2> QED
    BY <1>0, <1>2, <2>7, <2>8 DEF First1
<1> QED
  BY <1>1, <1>2

(* The first node with a tag stays the first when others are added behind. *)
LEMMA FindsTheSame ==
    ASSUME NEW S, NEW s \in Seq(S), NEW T, NEW t \in Seq(T), NEW tag, Tagged(s, tag),
           Len(s) <= Len(t), \A i \in 1 .. Len(s) : t[i].tag = s[i].tag
    PROVE  /\ Tagged(t, tag) /\ Document!FindTag(t, tag) = Document!FindTag(s, tag)
           /\ Document!FindTag(s, tag) \in 1 .. Len(s)
<1> DEFINE k == Document!FindTag(s, tag)
<1>1. k \in 1 .. Len(s) /\ s[k].tag = tag
  BY FoundTag
<1>0. \A m \in 1 .. Len(s) :
          (s[m].tag = tag /\ \A j \in 1 .. m - 1 : s[j].tag # tag) => k = m
  BY FoundTag
<1> HIDE DEF k
<1>2. \A j \in 1 .. k - 1 : s[j].tag # tag
  <2> SUFFICES ASSUME NEW j \in 1 .. k - 1, s[j].tag = tag PROVE FALSE
    OBVIOUS
  <2> DEFINE R == {i \in 1 .. k - 1 : s[i].tag = tag}
  <2>1. R # {} /\ R \subseteq Nat
    BY <1>1
  <2>2. PICK m \in R : \A i \in R : ~(<<i, m>> \in OpToRel(<, Nat))
    BY <2>1, NatLessThanWellFounded, WFMin
  <2>3. \A i \in R : ~(i < m)
    BY <2>1, <2>2 DEF OpToRel
  <2>4. m \in 1 .. Len(s) /\ s[m].tag = tag /\ m < k
    <3>1. m \in 1 .. k - 1 /\ s[m].tag = tag
      OBVIOUS
    <3>2. Len(s) \in Nat
      OBVIOUS
    <3> HIDE DEF R
    <3> QED
      BY <1>1, <3>1, <3>2
  <2>5. \A i \in 1 .. m - 1 : s[i].tag # tag
    BY <1>1, <2>3, <2>4
  <2>6. k = m
    BY <1>0, <2>4, <2>5
  <2> QED
    BY <1>1, <2>4, <2>6
<1>3. k \in 1 .. Len(t) /\ t[k].tag = tag /\ \A j \in 1 .. k - 1 : t[j].tag # tag
  BY <1>1, <1>2
<1>4. Document!FindTag(t, tag) = k
  BY <1>3, FoundTag
<1>5. Tagged(t, tag)
  BY <1>3 DEF Tagged
<1> QED
  BY <1>1, <1>4, <1>5 DEF k

LEMMA DocsTyped ==
    ASSUME NEW d \in Docs
    PROVE  /\ d.made \in Nat /\ d.childNodes \in Seq(Htmls)
           /\ d = [childNodes |-> d.childNodes, made |-> d.made]
           /\ d.childNodes # <<>> =>
                 /\ Document!Html(d) \in Htmls /\ Below(d) \in Seq(Belows)
                 /\ Len(Below(d)) \in Nat
<1>1. /\ d.made \in Nat /\ d.childNodes \in Seq(Htmls)
      /\ d = [childNodes |-> d.childNodes, made |-> d.made]
  BY DEF Docs
<1>2. ASSUME d.childNodes # <<>>
      PROVE  /\ Document!Html(d) \in Htmls /\ Below(d) \in Seq(Belows)
             /\ Len(Below(d)) \in Nat
  <2>1. d.childNodes[1] \in Htmls
    BY <1>1, <1>2
  <2>2. d.childNodes[1].childNodes \in Seq(Belows)
    BY <2>1 DEF Htmls
  <2> QED
    BY <2>1, <2>2 DEF Below, Document!Html
<1> QED
  BY <1>1, <1>2

(* What a getter finds and answers it finds and answers in a document that *)
(* has more.                                                               *)
LEMMA StillThere ==
    ASSUME NEW d \in Docs, NEW e \in Docs, Extends(d, e), NEW g \in Getters, Has(g, d)
    PROVE  Has(g, e) /\ Document!Answer(g, e) = Document!Answer(g, d)
<1>1. /\ d.childNodes # <<>> /\ e.childNodes # <<>>
      /\ Document!Html(e).id = Document!Html(d).id
      /\ Below(d) \in Seq(Belows) /\ Below(e) \in Seq(Belows)
      /\ Len(Below(d)) <= Len(Below(e))
      /\ \A i \in 1 .. Len(Below(d)) :
              /\ Below(e)[i].tag = Below(d)[i].tag /\ Below(e)[i].id = Below(d)[i].id
              /\ Tagged(Below(d)[i].childNodes, "title") =>
                    Below(e)[i].childNodes = Below(d)[i].childNodes
  BY DocsTyped DEF Has, Extends
<1>2. ASSUME NEW tag, Tagged(Below(d), tag)
      PROVE  /\ Tagged(Below(e), tag)
             /\ Document!FindTag(Below(e), tag) = Document!FindTag(Below(d), tag)
             /\ Document!FindTag(Below(d), tag) \in 1 .. Len(Below(d))
  BY <1>1, <1>2, FindsTheSame
<1>3. CASE g = "documentElement"
  BY <1>1, <1>3 DEF Has, Document!Answer
<1>4. CASE g \in {"head", "body"}
  <2>1. Tagged(Below(d), g)
    BY <1>4 DEF Has
  <2>2. /\ Document!Answer(g, d) = Below(d)[Document!FindTag(Below(d), g)].id
        /\ Document!Answer(g, e) = Below(e)[Document!FindTag(Below(e), g)].id
    BY <1>4 DEF Document!Answer, Below
  <2>3. Has(g, e)
    BY <1>1, <1>2, <1>4, <2>1 DEF Has
  <2> QED
    BY <1>1, <1>2, <2>1, <2>2, <2>3
<1>5. CASE g = "title"
  <2>1. Tagged(Below(d), "head") /\ Tagged(Document!HeadOf(d).childNodes, "title")
    BY <1>5 DEF Has
  <2>2. /\ Document!HeadOf(d) = Below(d)[Document!FindTag(Below(d), "head")]
        /\ Document!HeadOf(e) = Below(e)[Document!FindTag(Below(e), "head")]
    BY DEF Document!HeadOf, Document!HeadIndex, Below
  <2>3. Document!HeadOf(e).childNodes = Document!HeadOf(d).childNodes
    BY <1>1, <1>2, <2>1, <2>2
  <2>4. Has(g, e)
    BY <1>1, <1>2, <1>5, <2>1, <2>3 DEF Has
  <2> QED
    BY <1>5, <2>3, <2>4 DEF Document!Answer
<1> QED
  BY <1>3, <1>4, <1>5 DEF Getters

LEMMA ExtendsOnce ==
    ASSUME NEW d \in Docs PROVE Extends(d, d)
  BY DocsTyped DEF Extends

LEMMA ExtendsTwice ==
    ASSUME NEW d \in Docs, NEW e \in Docs, NEW f \in Docs, Extends(d, e), Extends(e, f)
    PROVE  Extends(d, f)
<1> SUFFICES ASSUME d.childNodes # <<>>
             PROVE  /\ f.childNodes # <<>> /\ Document!Html(f).id = Document!Html(d).id
                    /\ Len(Below(d)) <= Len(Below(f))
                    /\ \A i \in 1 .. Len(Below(d)) :
                          /\ Below(f)[i].tag = Below(d)[i].tag
                          /\ Below(f)[i].id = Below(d)[i].id
                          /\ Tagged(Below(d)[i].childNodes, "title") =>
                                Below(f)[i].childNodes = Below(d)[i].childNodes
  BY DEF Extends
<1>1. /\ e.childNodes # <<>> /\ f.childNodes # <<>>
      /\ Len(Below(d)) \in Nat /\ Len(Below(e)) \in Nat /\ Len(Below(f)) \in Nat
  BY DocsTyped DEF Extends
<1> QED
  BY <1>1 DEF Extends

LEMMA DocumentElementFinds ==
    ASSUME NEW d \in Docs
    PROVE  /\ Document!DocumentElement(d) \in Docs
           /\ Document!DocumentElement(d).childNodes # <<>>
           /\ Extends(d, Document!DocumentElement(d))
<1>1. CASE d.childNodes # <<>>
  BY <1>1, ExtendsOnce DEF Document!DocumentElement
<1>2. CASE d.childNodes = <<>>
  <2> DEFINE head == Document!Element("head", d.made + 1, <<>>)
             body == Document!Element("body", d.made + 2, <<>>)
             html == Document!NewHtml(d.made)
  <2>1. head \in Belows /\ body \in Belows
    BY DocsTyped DEF Document!Element, Belows
  <2>2. html = [tag |-> "html", id |-> d.made, childNodes |-> <<head, body>>]
    BY DEF Document!NewHtml, Document!Element
  <2> HIDE DEF head, body
  <2>3. html \in Htmls
    BY <2>1, <2>2, DocsTyped DEF Htmls
  <2> HIDE DEF html
  <2>4. /\ Document!DocumentElement(d) = [childNodes |-> <<html>>, made |-> d.made + 3]
        /\ d.made + 3 \in Nat
    BY <1>2, DocsTyped DEF Document!DocumentElement, html
  <2>5. <<html>> \in Seq(Htmls) /\ <<html>> # <<>>
    BY <2>3
  <2> QED
    BY <1>2, <2>4, <2>5 DEF Docs, Extends
<1> QED
  BY <1>1, <1>2

LEMMA AppendedExtends ==
    ASSUME NEW d \in Docs, d.childNodes # <<>>, NEW tag \in {"head", "body"}
    PROVE  /\ Document!Appended(d, tag) \in Docs
           /\ Document!Appended(d, tag).childNodes # <<>>
           /\ Extends(d, Document!Appended(d, tag))
           /\ Tagged(Below(Document!Appended(d, tag)), tag)
<1> DEFINE e == Document!Appended(d, tag)
           new == Document!Element(tag, d.made, <<>>)
           below == Append(Below(d), new)
           html == [d.childNodes[1] EXCEPT !.childNodes = below]
<1>1. /\ d.made \in Nat /\ d.childNodes \in Seq(Htmls) /\ d.childNodes[1] \in Htmls
      /\ Below(d) \in Seq(Belows) /\ Below(d) = d.childNodes[1].childNodes
  BY DocsTyped DEF Below, Document!Html
<1>2. new \in Belows /\ new.tag = tag
  BY <1>1 DEF Document!Element, Belows
<1> HIDE DEF new
<1>3. /\ below \in Seq(Belows) /\ Len(below) = Len(Below(d)) + 1 /\ Len(Below(d)) \in Nat
      /\ below[Len(below)] = new
      /\ \A i \in 1 .. Len(Below(d)) : below[i] = Below(d)[i]
  BY <1>1, <1>2, AppendProperties
<1>4. e = [childNodes |-> [d.childNodes EXCEPT ![1].childNodes = below], made |-> d.made + 1]
  BY DEF Document!Appended, new, Below
<1> HIDE DEF below
<1>5. [d.childNodes EXCEPT ![1].childNodes = below] = [d.childNodes EXCEPT ![1] = html]
  BY <1>1
<1>6. html \in Htmls /\ html.childNodes = below /\ html.id = d.childNodes[1].id
  BY <1>1, <1>3 DEF Htmls
<1> HIDE DEF html
<1> DEFINE nodes == [d.childNodes EXCEPT ![1] = html]
<1>7. nodes \in Seq(Htmls) /\ nodes[1] = html /\ nodes # <<>>
  BY <1>1, <1>6
<1>12. e = [childNodes |-> nodes, made |-> d.made + 1]
  BY <1>4, <1>5
<1> HIDE DEF e, nodes
<1>8. e \in Docs /\ e.childNodes # <<>> /\ e.childNodes[1] = html
  BY <1>1, <1>7, <1>12 DEF Docs
<1>9. /\ Document!Html(e) = html /\ Below(e) = below
      /\ Document!Html(d) = d.childNodes[1]
  BY <1>6, <1>8 DEF Document!Html, Below
<1>10. Extends(d, e)
  BY <1>3, <1>6, <1>8, <1>9 DEF Extends
<1>11. Tagged(Below(e), tag)
  BY <1>2, <1>3, <1>9 DEF Tagged
<1> QED
  BY <1>8, <1>10, <1>11 DEF e

(* The getters of head and body, which are alike.                          *)
LEMMA GetBelowFinds ==
    ASSUME NEW d \in Docs, NEW tag \in {"head", "body"}
    PROVE  LET e == Document!Left(tag, d) IN e \in Docs /\ Extends(d, e) /\ Has(tag, e)
<1> DEFINE found == Document!DocumentElement(d)
           e == IF Document!FindTag(Document!Html(found).childNodes, tag) > 0 THEN found
                ELSE Document!Appended(found, tag)
<1>1. Document!Left(tag, d) = e
  BY DEF Document!Left, Document!GetHead, Document!GetBody
<1>2. /\ found \in Docs /\ found.childNodes # <<>> /\ Extends(d, found)
      /\ Below(found) \in Seq(Belows)
  BY DocumentElementFinds, DocsTyped
<1> HIDE DEF found
<1>3. CASE Tagged(Below(found), tag)
  <2>1. e = found
    BY <1>2, <1>3, FoundTag DEF Below
  <2> HIDE DEF e
  <2> QED
    BY <1>1, <1>2, <1>3, <2>1 DEF Has
<1>4. CASE ~Tagged(Below(found), tag)
  <2>1. e = Document!Appended(found, tag)
    BY <1>2, <1>4, FoundTag DEF Below
  <2> HIDE DEF e
  <2>2. e \in Docs /\ e.childNodes # <<>> /\ Extends(found, e) /\ Tagged(Below(e), tag)
    BY <1>2, <2>1, AppendedExtends
  <2> QED
    BY <1>1, <1>2, <2>2, ExtendsTwice DEF Has
<1> QED
  BY <1>3, <1>4

LEMMA GetTitleFinds ==
    ASSUME NEW d \in Docs
    PROVE  LET e == Document!GetTitle(d) IN e \in Docs /\ Extends(d, e) /\ Has("title", e)
<1> DEFINE found == Document!GetHead(d)
           k == Document!HeadIndex(found)
           head == Document!HeadOf(found)
           new == Document!Title(found.made, Untitled)
           titles == Append(head.childNodes, new)
           titled == [found.childNodes EXCEPT ![1].childNodes[k].childNodes = titles]
           e == Document!GetTitle(d)
<1>1. found = Document!Left("head", d)
  BY DEF Document!Left
<1>2. found \in Docs /\ Extends(d, found) /\ Has("head", found)
  BY <1>1, GetBelowFinds
<1> HIDE DEF found
<1>3. /\ found.made \in Nat /\ found.childNodes \in Seq(Htmls)
      /\ found.childNodes # <<>> /\ found.childNodes[1] \in Htmls
      /\ Below(found) \in Seq(Belows) /\ Below(found) = found.childNodes[1].childNodes
      /\ Document!Html(found) = found.childNodes[1] /\ Len(Below(found)) \in Nat
  BY <1>2, DocsTyped DEF Has, Below, Document!Html
<1>4. /\ k \in 1 .. Len(Below(found)) /\ Below(found)[k].tag = "head"
      /\ k = Document!FindTag(Below(found), "head") /\ head = Below(found)[k]
  <2>1. k = Document!FindTag(Below(found), "head") /\ head = Below(found)[k]
    BY DEF Document!HeadIndex, Document!HeadOf, Below
  <2>2. Tagged(Below(found), "head")
    BY <1>2 DEF Has
  <2> QED
    BY <1>3, <2>1, <2>2, FoundTag
<1>5. head \in Belows /\ head.childNodes \in Seq(Titles)
  <2> HIDE DEF head, k
  <2>1. head \in Belows
    BY <1>3, <1>4
  <2> QED
    BY <2>1 DEF Belows
<1>6. CASE Tagged(head.childNodes, "title")
  <2>1. e = found
    BY <1>5, <1>6, FoundTag DEF Document!GetTitle, found
  <2> HIDE DEF e
  <2> QED
    BY <1>2, <1>6, <2>1 DEF Has, e
<1>7. CASE ~Tagged(head.childNodes, "title")
  <2>1. e = [childNodes |-> titled, made |-> found.made + 1]
    <3>1. ~(Document!FindTag(head.childNodes, "title") > 0)
      BY <1>5, <1>7, FoundTag
    <3> QED
      BY <3>1 DEF Document!GetTitle, found
  <2>2. new \in Titles /\ new.tag = "title"
    BY <1>3 DEF Document!Title, Titles
  <2> HIDE DEF new
  <2>3. /\ titles \in Seq(Titles) /\ titles[Len(titles)] = new
        /\ Len(titles) \in Nat \ {0}
    BY <1>5, <2>2, AppendProperties
  <2>4. Tagged(titles, "title")
    BY <2>2, <2>3 DEF Tagged
  <2> HIDE DEF titles, head, k
  <2> DEFINE head2 == [head EXCEPT !.childNodes = titles]
             below == [Below(found) EXCEPT ![k] = head2]
             html == [found.childNodes[1] EXCEPT !.childNodes = below]
             nodes == [found.childNodes EXCEPT ![1] = html]
  <2>5. titled = nodes
    BY <1>3, <1>4
  <2>6. /\ head2 \in Belows /\ head2.childNodes = titles
        /\ head2.tag = head.tag /\ head2.id = head.id
    BY <1>5, <2>3 DEF Belows
  <2> HIDE DEF head2, titled
  <2>7. /\ below \in Seq(Belows) /\ Len(below) = Len(Below(found)) /\ below[k] = head2
        /\ \A i \in 1 .. Len(Below(found)) : i # k => below[i] = Below(found)[i]
    BY <1>3, <1>4, <2>6
  <2> HIDE DEF below
  <2>8. html \in Htmls /\ html.childNodes = below /\ html.id = found.childNodes[1].id
    BY <1>3, <2>7 DEF Htmls
  <2> HIDE DEF html
  <2>9. nodes \in Seq(Htmls) /\ nodes[1] = html /\ nodes # <<>>
    BY <1>3, <2>8
  <2>10. e = [childNodes |-> nodes, made |-> found.made + 1]
    BY <2>1, <2>5
  <2> HIDE DEF nodes, e
  <2>11. e \in Docs /\ e.childNodes # <<>> /\ e.childNodes[1] = html
    BY <1>3, <2>9, <2>10 DEF Docs
  <2>12. Document!Html(e) = html /\ Below(e) = below
    BY <2>8, <2>11 DEF Document!Html, Below
  <2>13. Extends(found, e)
    BY <1>3, <1>4, <1>7, <2>6, <2>7, <2>8, <2>11, <2>12 DEF Extends
  <2>14. Tagged(Below(e), "head") /\ Document!HeadOf(e) = head2
    <3>1. \A i \in 1 .. Len(Below(found)) : below[i].tag = Below(found)[i].tag
      BY <1>4, <2>6, <2>7
    <3>2. Tagged(Below(found), "head")
      BY <1>4 DEF Tagged
    <3>3. Tagged(below, "head") /\ Document!FindTag(below, "head") = k
      BY <1>3, <1>4, <2>7, <3>1, <3>2, FindsTheSame
    <3>4. Document!HeadOf(e) = below[Document!FindTag(below, "head")]
      BY <2>8, <2>12 DEF Document!HeadOf, Document!HeadIndex
    <3> QED
      BY <2>7, <2>12, <3>3, <3>4
  <2>15. Has("title", e)
    BY <2>4, <2>6, <2>11, <2>14 DEF Has
  <2> QED
    BY <1>2, <2>11, <2>13, <2>15, ExtendsTwice DEF e
<1> QED
  BY <1>6, <1>7

LEMMA LeftFinds ==
    ASSUME NEW d \in Docs, NEW g \in Getters
    PROVE  LET e == Document!Left(g, d) IN e \in Docs /\ Extends(d, e) /\ Has(g, e)
<1>1. CASE g = "documentElement"
  BY <1>1, DocumentElementFinds DEF Document!Left, Has
<1>2. CASE g \in {"head", "body"}
  BY <1>2, GetBelowFinds
<1>3. CASE g = "title"
  BY <1>3, GetTitleFinds DEF Document!Left
<1> QED
  BY <1>1, <1>2, <1>3 DEF Getters

(* A getter that finds what it looks for makes nothing.                    *)
LEMMA FoundIsLeft ==
    ASSUME NEW d \in Docs, NEW g \in Getters, Has(g, d)
    PROVE  Document!Left(g, d) = d
<1>1. Document!DocumentElement(d) = d /\ Below(d) \in Seq(Belows)
  BY DocsTyped DEF Has, Document!DocumentElement
<1>2. ASSUME NEW tag, Tagged(Below(d), tag)
      PROVE  /\ Document!FindTag(Document!Html(d).childNodes, tag) > 0
             /\ Document!FindTag(Below(d), tag) \in 1 .. Len(Below(d))
  BY <1>1, <1>2, FoundTag DEF Below
<1>3. CASE g = "documentElement"
  BY <1>1, <1>3 DEF Document!Left
<1>4. CASE g = "head"
  BY <1>1, <1>2, <1>4 DEF Document!Left, Document!GetHead, Has
<1>5. CASE g = "body"
  BY <1>1, <1>2, <1>5 DEF Document!Left, Document!GetBody, Has
<1>6. CASE g = "title"
  <2>1. Tagged(Below(d), "head") /\ Tagged(Document!HeadOf(d).childNodes, "title")
    BY <1>6 DEF Has
  <2>2. Document!GetHead(d) = d
    BY <1>1, <1>2, <2>1 DEF Document!GetHead
  <2>3. Document!HeadOf(d) \in Belows
    BY <1>1, <1>2, <2>1 DEF Document!HeadOf, Document!HeadIndex, Below
  <2>4. Document!FindTag(Document!HeadOf(d).childNodes, "title") > 0
    BY <2>1, <2>3, FoundTag DEF Belows
  <2> QED
    BY <1>6, <2>2, <2>4 DEF Document!Left, Document!GetTitle
<1> QED
  BY <1>3, <1>4, <1>5, <1>6 DEF Getters

(* Whatever a getter leaves, the answers so far stand.                     *)
LEMMA LeftKeeps ==
    ASSUME DocumentInv, NEW h \in Getters, Document!Become(Document!Left(h, Document!Here)),
           DOMAIN known' \subseteq Getters,
           \A g \in DOMAIN known' :
               \/ g \in DOMAIN known /\ known'[g] = known[g]
               \/ g = h /\ known'[g] = Document!Answer(h, Document!Left(h, Document!Here))
    PROVE  DocumentInv'
<1> DEFINE d == Document!Here
           e == Document!Left(h, d)
<1>1. d \in Docs /\ e \in Docs /\ Extends(d, e) /\ Has(h, e)
  BY LeftFinds DEF DocumentInv
<1>2. e = [childNodes |-> e.childNodes, made |-> e.made]
  BY <1>1, DocsTyped
<1>3. Document!Here' = e
  BY <1>2 DEF Document!Become, Document!Here
<1> HIDE DEF e, d
<1>4. ASSUME NEW g \in DOMAIN known' PROVE Has(g, e) /\ Document!Answer(g, e) = known'[g]
  <2>1. CASE g \in DOMAIN known /\ known'[g] = known[g]
    <3>1. g \in Getters /\ Has(g, d) /\ Document!Answer(g, d) = known[g]
      BY <2>1 DEF DocumentInv, d
    <3> QED
      BY <1>1, <2>1, <3>1, StillThere
  <2>2. CASE g = h /\ known'[g] = Document!Answer(h, e)
    BY <1>1, <2>2
  <2> QED
    BY <2>1, <2>2 DEF e, d
<1>5. (Document!Here \in Docs)' /\ \A g \in DOMAIN known' :
         Has(g, Document!Here') /\ Document!Answer(g, Document!Here') = known'[g]
  BY <1>1, <1>3, <1>4
<1> QED
  BY <1>5 DEF DocumentInv, Has, Below, Document!Answer, Document!Html, Document!HeadOf,
              Document!HeadIndex, Document!FindTag

(* A list with one more, or another, node in it.                           *)
LEMMA InsertAtList ==
    ASSUME NEW S, NEW s \in Seq(S), NEW i \in 1 .. Len(s) + 1, NEW x \in S
    PROVE  Document!InsertAt(s, i, x) \in Seq(S)
<1> DEFINE low == SubSeq(s, 1, i - 1)
           high == SubSeq(s, i, Len(s))
<1>1. low \in Seq(S)
  <2>1. \A k \in 1 .. i - 1 : s[k] \in S
    OBVIOUS
  <2> QED BY <2>1, SubSeqProperties
<1>2. high \in Seq(S)
  <2>1. \A k \in i .. Len(s) : s[k] \in S
    OBVIOUS
  <2> QED BY <2>1, SubSeqProperties
<1>3. Document!InsertAt(s, i, x) = (low \o <<x>>) \o high
  BY DEF Document!InsertAt
<1> HIDE DEF low, high
<1> QED
  BY <1>1, <1>2, <1>3, ConcatProperties

LEMMA PageKeeps ==
    ASSUME DocumentInv, NEW nodes \in Seq(Htmls), NEW n \in Nat,
           Document!PageChanges(nodes, n)
    PROVE  DocumentInv'
<1>1. childNodes' = nodes /\ made' = made + n /\ DOMAIN known' = {}
  BY DEF Document!PageChanges
<1>2. made \in Nat
  BY DEF DocumentInv, Docs, Document!Here
<1>3. Document!Here' \in Docs
  BY <1>1, <1>2 DEF Docs, Document!Here
<1> QED
  BY <1>1, <1>3 DEF DocumentInv, Docs, Htmls, Belows, Titles

(* What the page puts below its html element.                              *)
LEMMA BelowKeeps ==
    ASSUME DocumentInv, childNodes # <<>>, NEW below \in Seq(Belows)
    PROVE  [childNodes EXCEPT ![1].childNodes = below] \in Seq(Htmls)
<1> DEFINE html == [childNodes[1] EXCEPT !.childNodes = below]
<1>1. childNodes \in Seq(Htmls) /\ childNodes[1] \in Htmls
  BY DEF DocumentInv, Docs, Document!Here
<1>2. html \in Htmls
  BY <1>1 DEF Htmls
<1>3. [childNodes EXCEPT ![1].childNodes = below] = [childNodes EXCEPT ![1] = html]
  BY <1>1
<1> HIDE DEF html
<1> QED
  BY <1>1, <1>2, <1>3

LEMMA DocumentStep == DocumentInv /\ [Document!Next]_(Document!vars) => DocumentInv'
<1> SUFFICES ASSUME DocumentInv, [Document!Next]_(Document!vars) PROVE DocumentInv'
  OBVIOUS
<1>0. /\ made \in Nat /\ childNodes \in Seq(Htmls)
      /\ childNodes # <<>> =>
            /\ childNodes[1] \in Htmls /\ childNodes[1].childNodes \in Seq(Belows)
  BY DocsTyped DEF DocumentInv, Document!Here, Document!Html, Below
<1>1. CASE UNCHANGED Document!vars
  <2>1. Document!Here' = Document!Here /\ known' = known
    BY <1>1 DEF Document!vars, Document!Here
  <2>2. (Document!Here \in Docs)' /\ DOMAIN known' \subseteq Getters /\ \A g \in DOMAIN known' :
           Has(g, Document!Here') /\ Document!Answer(g, Document!Here') = known'[g]
    BY <2>1 DEF DocumentInv
  <2> QED
    BY <2>2 DEF DocumentInv, Has, Below, Document!Answer, Document!Html, Document!HeadOf,
                Document!HeadIndex, Document!FindTag
<1>2. ASSUME NEW g \in Getters, Document!Get(g) PROVE DocumentInv'
  <2>1. /\ Document!Become(Document!Left(g, Document!Here))
        /\ known' = [h \in DOMAIN known \cup {g} |->
                        IF h = g THEN Document!Answer(g, Document!Left(g, Document!Here))
                        ELSE known[h]]
    BY <1>2 DEF Document!Get
  <2>2. DOMAIN known' \subseteq Getters
    BY <2>1 DEF DocumentInv
  <2>3. \A h \in DOMAIN known' :
           \/ h \in DOMAIN known /\ known'[h] = known[h]
           \/ h = g /\ known'[h] = Document!Answer(g, Document!Left(g, Document!Here))
    BY <2>1
  <2> QED
    BY <2>1, <2>2, <2>3, LeftKeeps
<1>3. ASSUME NEW words, Document!SetTitle(words) PROVE DocumentInv'
  <2>1. Document!Left("title", Document!Here) = Document!GetTitle(Document!Here)
    BY DEF Document!Left
  <2> QED
    BY <1>3, <2>1, LeftKeeps DEF Document!SetTitle, DocumentInv, Getters
<1>4. CASE Document!RemoveHtml
  <2>1. Tail(childNodes) \in Seq(Htmls)
    BY <1>0, <1>4 DEF Document!RemoveHtml
  <2> QED
    BY <1>4, <2>1, PageKeeps DEF Document!RemoveHtml
<1>5. CASE Document!AppendHtml
  <2>1. Document!Element("html", made, <<>>) \in Htmls
    BY <1>0 DEF Document!Element, Htmls
  <2>2. Append(childNodes, Document!Element("html", made, <<>>)) \in Seq(Htmls)
    BY <1>0, <2>1, AppendProperties
  <2> QED
    BY <1>5, <2>2, PageKeeps DEF Document!AppendHtml
<1>6. ASSUME NEW i, Document!RemoveBelow(i) PROVE DocumentInv'
  <2>1. /\ childNodes # <<>> /\ i \in 1 .. Len(childNodes[1].childNodes)
    BY <1>0, <1>6 DEF Document!RemoveBelow
  <2>2. Document!RemoveAt(childNodes[1].childNodes, i) = RemoveAt(childNodes[1].childNodes, i)
    BY DEF Document!RemoveAt, RemoveAt
  <2>3. Document!RemoveAt(childNodes[1].childNodes, i) \in Seq(Belows)
    BY <1>0, <2>1, <2>2, RemoveAtList
  <2> QED
    BY <1>6, <2>1, <2>3, BelowKeeps, PageKeeps DEF Document!RemoveBelow
<1>7. ASSUME NEW i, NEW tag \in {"head", "body"}, Document!InsertBelow(i, tag)
      PROVE  DocumentInv'
  <2> DEFINE new == Document!Element(tag, made, <<>>)
             below == Document!InsertAt(childNodes[1].childNodes, i, new)
  <2>1. new \in Belows
    BY <1>0 DEF Document!Element, Belows
  <2> HIDE DEF new
  <2>2. childNodes # <<>> /\ i \in 1 .. Len(childNodes[1].childNodes) + 1
    BY <1>7 DEF Document!InsertBelow
  <2>3. below \in Seq(Belows)
    BY <1>0, <2>1, <2>2, InsertAtList
  <2>4. Document!PageChanges([childNodes EXCEPT ![1].childNodes = below], 1)
    BY <1>7 DEF Document!InsertBelow, new
  <2> HIDE DEF below
  <2> QED
    BY <2>2, <2>3, <2>4, BelowKeeps, PageKeeps
<1>8. ASSUME NEW i, NEW words \in Texts, Document!WriteTitle(i, words) PROVE DocumentInv'
  <2> DEFINE old == childNodes[1].childNodes
             titles == <<Document!Title(made, words)>>
             head == [old[i] EXCEPT !.childNodes = titles]
             below == [old EXCEPT ![i] = head]
  <2>1. childNodes # <<>> /\ i \in 1 .. Len(old) /\ old \in Seq(Belows) /\ old[i] \in Belows
    BY <1>0, <1>8 DEF Document!WriteTitle
  <2>2. Document!PageChanges([childNodes EXCEPT ![1].childNodes[i].childNodes = titles], 1)
    BY <1>8 DEF Document!WriteTitle
  <2>3. titles \in Seq(Titles)
    BY <1>0 DEF Document!Title, Titles
  <2> HIDE DEF titles
  <2>4. [childNodes EXCEPT ![1].childNodes[i].childNodes = titles] =
            [childNodes EXCEPT ![1].childNodes = below]
    BY <1>0, <2>1
  <2>5. head \in Belows
    BY <2>1, <2>3 DEF Belows
  <2> HIDE DEF head
  <2>6. below \in Seq(Belows)
    BY <2>1, <2>5
  <2> HIDE DEF below
  <2> QED
    BY <2>1, <2>2, <2>4, <2>6, BelowKeeps, PageKeeps
<1> QED
  BY <1>1, <1>2, <1>3, <1>4, <1>5, <1>6, <1>7, <1>8 DEF Document!Next, Getters

(* What a getter of the document answered it answers again, and makes      *)
(* nothing, until the page changes the elements: for any texts and calls.  *)
THEOREM AnswersStandAlways == DocumentSpec => []AnswersStand
<1>1. DocumentInit => DocumentInv
  <2> SUFFICES ASSUME Document!Init PROVE DocumentInv
    BY DEF DocumentInit
  <2> DEFINE body == Document!Element("body", 1, <<>>)
             html == Document!Element("html", 0, <<body>>)
  <2>1. body \in Belows
    BY DEF Document!Element, Belows
  <2> HIDE DEF body
  <2>2. html \in Htmls
    BY <2>1 DEF Document!Element, Htmls
  <2> HIDE DEF html
  <2>3. childNodes \in {<<>>, <<html>>} /\ made = 2 /\ DOMAIN known = {}
    BY DEF Document!Init, html, body
  <2>4. childNodes \in Seq(Htmls)
    <3>1. <<>> \in Seq(Htmls) /\ <<html>> \in Seq(Htmls)
      BY <2>2
    <3> QED
      BY <2>3, <3>1
  <2>5. Document!Here \in Docs
    BY <2>3, <2>4 DEF Docs, Document!Here
  <2> QED
    BY <2>3, <2>5 DEF DocumentInv
<1>2. DocumentInv /\ [DocumentNext]_all => DocumentInv'
  BY OneRuns, DocumentStep
<1>3. DocumentInv => AnswersStand
  BY FoundIsLeft DEF DocumentInv, AnswersStand, Document!AnswersStand
<1> QED
  BY <1>1, <1>2, <1>3, PTL DEF DocumentSpec

-----------------------------------------------------------------------------
(* The ancestors of the nodes of a tree.                                   *)

Above(d, n) == {d.parentNode[n]} \ {NoNode}
Wider(d, S) == S \cup ({d.parentNode[m] : m \in S} \ {NoNode})
Upward(d, S) == \A m \in S : d.parentNode[m] # NoNode => d.parentNode[m] \in S

(* A set of numbers up to N that has what follows each of its own has them *)
(* all.                                                                    *)
LEMMA StepByStep ==
    ASSUME NEW N \in Nat, NEW K, 0 \in K, \A k \in 0 .. N - 1 : k \in K => k + 1 \in K
    PROVE  \A k \in 0 .. N : k \in K
<1> DEFINE T == {k \in 0 .. N : k \notin K}
<1> SUFFICES T = {}
  OBVIOUS
<1> SUFFICES ASSUME T # {} PROVE FALSE
  OBVIOUS
<1>1. T \in SUBSET Nat
  OBVIOUS
<1>2. PICK i \in T : \A k \in T : ~(<<k, i>> \in OpToRel(<, Nat))
  <2> HIDE DEF T
  <2> QED
    BY <1>1, NatLessThanWellFounded, WFMin
<1>3. i \in T /\ \A k \in T : ~(k < i)
  BY <1>1, <1>2 DEF OpToRel
<1>4. i # 0 /\ i - 1 \in 0 .. N - 1
  BY <1>3
<1>5. i - 1 \in K
  BY <1>3, <1>4
<1> QED
  BY <1>3, <1>4, <1>5

LEMMA NodesAreFinite ==
    Cardinality(Nodes) \in Nat /\ IsFiniteSet(Nodes) /\ NoNode \notin Nodes
  BY FS_CardinalityType, DocumentAssumption

LEMMA AncestorsAre ==
    ASSUME NEW d, NEW n \in Nodes, d.parentNode \in [Nodes -> Nodes \cup {NoNode}]
    PROVE  LET N == Cardinality(Nodes)
           IN  \E up \in [0 .. N -> SUBSET Nodes] :
                  /\ up[0] = Above(d, n)
                  /\ \A k \in 0 .. N - 1 : up[k + 1] = Wider(d, up[k])
                  /\ Tree!Ancestors(d, n) = up[N]
<1> DEFINE N == Cardinality(Nodes)
           Is(up) == up = [k \in 0 .. N |-> IF k = 0 THEN Above(d, n) ELSE Wider(d, up[k - 1])]
           Upto(k, up) == \A i \in 0 .. k : up[i] = IF i = 0 THEN Above(d, n)
                                                    ELSE Wider(d, up[i - 1])
           A == Above(d, n)
<1>1. N \in Nat
  BY NodesAreFinite
<1>2. A \in SUBSET Nodes /\ \A S \in SUBSET Nodes : Wider(d, S) \in SUBSET Nodes
  BY DEF Above, Wider
<1>3. \A k \in 0 .. N : \E up \in [0 .. k -> SUBSET Nodes] : Upto(k, up)
  <2> DEFINE K == {k \in 0 .. N : \E up \in [0 .. k -> SUBSET Nodes] : Upto(k, up)}
  <2>1. 0 \in K
    <3>1. [i \in 0 .. 0 |-> A] \in [0 .. 0 -> SUBSET Nodes] /\ Upto(0, [i \in 0 .. 0 |-> A])
      BY <1>2
    <3>2. \E up \in [0 .. 0 -> SUBSET Nodes] : Upto(0, up)
      <4> HIDE DEF Upto, A
      <4> QED
        BY <3>1
    <3> QED
      BY <1>1, <3>2
  <2>2. ASSUME NEW k \in 0 .. N - 1, k \in K PROVE k + 1 \in K
    <3>1. PICK up \in [0 .. k -> SUBSET Nodes] : Upto(k, up)
      BY <2>2
    <3> DEFINE on == [i \in 0 .. k + 1 |-> IF i = k + 1 THEN Wider(d, up[k]) ELSE up[i]]
    <3>2. on \in [0 .. k + 1 -> SUBSET Nodes]
      BY <1>1, <1>2
    <3>3. Upto(k + 1, on)
      <4> SUFFICES ASSUME NEW i \in 0 .. k + 1
                   PROVE  on[i] = IF i = 0 THEN Above(d, n) ELSE Wider(d, on[i - 1])
        OBVIOUS
      <4>1. CASE i = k + 1
        <5>1. i # 0 /\ i - 1 = k /\ k \in 0 .. k + 1 /\ k # k + 1
          BY <1>1, <4>1
        <5>2. on[i] = Wider(d, up[k]) /\ on[i - 1] = up[k]
          BY <4>1, <5>1
        <5> QED
          BY <5>1, <5>2
      <4>2. CASE i # k + 1
        <5>1. i \in 0 .. k /\ i # k + 1
          BY <1>1, <4>2
        <5>2. i # 0 => i - 1 \in 0 .. k + 1 /\ i - 1 # k + 1
          BY <5>1
        <5>3. on[i] = up[i] /\ (i # 0 => on[i - 1] = up[i - 1])
          BY <5>1, <5>2
        <5> HIDE DEF on
        <5> QED
          BY <3>1, <5>1, <5>3
      <4> QED
        BY <4>1, <4>2
    <3> HIDE DEF on, Upto
    <3> QED
      BY <1>1, <3>2, <3>3
  <2> HIDE DEF K
  <2>3. \A k \in 0 .. N : k \in K
    BY <1>1, <2>1, <2>2, StepByStep
  <2> QED
    BY <2>3 DEF K
<1>4. PICK g \in [0 .. N -> SUBSET Nodes] : Upto(N, g)
  BY <1>1, <1>3
<1>5. Is(g)
  BY <1>4
<1> DEFINE up == CHOOSE f : Is(f)
<1>6. Is(up)
  BY <1>5
<1>7. Tree!Ancestors(d, n) = up[N]
  <2>1. Tree!Cardinality(Nodes) = N
    BY DEF Tree!Cardinality, Cardinality
  <2> QED
    BY <2>1 DEF Tree!Ancestors, Above, Wider
<1> HIDE DEF up
<1>8. /\ up[0] = A /\ DOMAIN up = 0 .. N
      /\ \A k \in 0 .. N - 1 : up[k + 1] = Wider(d, up[k])
  BY <1>1, <1>6
<1> HIDE DEF A
<1>9. up \in [0 .. N -> SUBSET Nodes]
  <2> DEFINE K == {k \in 0 .. N : up[k] \in SUBSET Nodes}
  <2>1. 0 \in K
    BY <1>1, <1>2, <1>8
  <2>2. \A k \in 0 .. N - 1 : k \in K => k + 1 \in K
    BY <1>1, <1>2, <1>8
  <2> HIDE DEF K
  <2>3. \A k \in 0 .. N : k \in K
    BY <1>1, <2>1, <2>2, StepByStep
  <2>4. \A k \in 0 .. N : up[k] \in SUBSET Nodes
    BY <2>3 DEF K
  <2>5. up = [k \in 0 .. N |-> up[k]]
    BY <1>6
  <2> QED
    BY <2>4, <2>5
<1> QED
  BY <1>7, <1>8, <1>9 DEF A

(* They are nodes, lead no further up, and are no more than they must.     *)
LEMMA AncestorsClosed ==
    ASSUME NEW d, NEW n \in Nodes, d.parentNode \in [Nodes -> Nodes \cup {NoNode}]
    PROVE  /\ Tree!Ancestors(d, n) \in SUBSET Nodes
           /\ Above(d, n) \subseteq Tree!Ancestors(d, n)
           /\ Upward(d, Tree!Ancestors(d, n))
           /\ \A C : Above(d, n) \subseteq C /\ Upward(d, C) => Tree!Ancestors(d, n) \subseteq C
<1> DEFINE N == Cardinality(Nodes)
<1>1. N \in Nat /\ IsFiniteSet(Nodes)
  BY NodesAreFinite
<1>2. PICK up \in [0 .. N -> SUBSET Nodes] :
         /\ up[0] = Above(d, n)
         /\ \A k \in 0 .. N - 1 : up[k + 1] = Wider(d, up[k])
         /\ Tree!Ancestors(d, n) = up[N]
  BY AncestorsAre
<1>3. \A k \in 0 .. N : Above(d, n) \subseteq up[k]
  <2> DEFINE K == {k \in 0 .. N : Above(d, n) \subseteq up[k]}
  <2>1. 0 \in K
    BY <1>1, <1>2
  <2>2. \A k \in 0 .. N - 1 : k \in K => k + 1 \in K
    BY <1>1, <1>2 DEF Wider
  <2> HIDE DEF K
  <2>3. \A k \in 0 .. N : k \in K
    BY <1>1, <2>1, <2>2, StepByStep
  <2> QED
    BY <2>3 DEF K
<1>4. \A k \in 0 .. N : Upward(d, up[k]) \/ Cardinality(up[k]) >= k
  <2> DEFINE K == {k \in 0 .. N : Upward(d, up[k]) \/ Cardinality(up[k]) >= k}
  <2>1. \A k \in 0 .. N : IsFiniteSet(up[k]) /\ Cardinality(up[k]) \in Nat
    BY <1>1, <1>2, FS_Subset, FS_CardinalityType
  <2>2. 0 \in K
    BY <1>1, <2>1
  <2>3. ASSUME NEW k \in 0 .. N - 1, k \in K PROVE k + 1 \in K
    <3>1. k \in 0 .. N /\ k + 1 \in 0 .. N /\ up[k + 1] = Wider(d, up[k])
      BY <1>1, <1>2
    <3>2. CASE Upward(d, up[k])
      <4>1. up[k + 1] = up[k]
        BY <3>1, <3>2 DEF Upward, Wider
      <4> QED
        BY <3>1, <3>2, <4>1
    <3>3. CASE ~Upward(d, up[k])
      <4>1. Cardinality(up[k]) >= k
        BY <2>3, <3>3
      <4>2. up[k] \subseteq up[k + 1] /\ up[k] # up[k + 1]
        BY <3>1, <3>3 DEF Upward, Wider
      <4>3. Cardinality(up[k]) < Cardinality(up[k + 1])
        BY <2>1, <3>1, <4>2, FS_Subset
      <4>4. Cardinality(up[k + 1]) >= k + 1
        BY <2>1, <3>1, <4>1, <4>3
      <4> QED
        BY <3>1, <4>4
    <3> QED
      BY <3>2, <3>3
  <2> HIDE DEF K
  <2>4. \A k \in 0 .. N : k \in K
    BY <1>1, <2>2, <2>3, StepByStep
  <2> QED
    BY <2>4 DEF K
<1>5. Upward(d, up[N])
  <2>1. N \in 0 .. N /\ up[N] \in SUBSET Nodes
    BY <1>1, <1>2
  <2>2. CASE Cardinality(up[N]) >= N
    <3>1. Cardinality(up[N]) = N => up[N] = Nodes
      BY <1>1, <2>1, FS_Subset
    <3>2. Cardinality(up[N]) <= N /\ Cardinality(up[N]) \in Nat
      BY <1>1, <2>1, FS_Subset, FS_CardinalityType
    <3>3. up[N] = Nodes
      BY <1>1, <2>2, <3>1, <3>2
    <3> QED
      BY <3>3 DEF Upward
  <2> QED
    BY <1>4, <2>1, <2>2
<1>6. ASSUME NEW C, Above(d, n) \subseteq C, Upward(d, C) PROVE up[N] \subseteq C
  <2> DEFINE K == {k \in 0 .. N : up[k] \subseteq C}
  <2>1. 0 \in K
    BY <1>1, <1>2, <1>6
  <2>2. \A k \in 0 .. N - 1 : k \in K => k + 1 \in K
    BY <1>1, <1>2, <1>6 DEF Wider, Upward
  <2> HIDE DEF K
  <2>3. \A k \in 0 .. N : k \in K
    BY <1>1, <2>1, <2>2, StepByStep
  <2> QED
    BY <1>1, <2>3 DEF K
<1> QED
  BY <1>1, <1>2, <1>3, <1>5, <1>6

(* Every set of nodes has one that leads out of it.                        *)
Acyclic(d) == \A S \in SUBSET Nodes : S # {} => \E s \in S : d.parentNode[s] \notin S

LEMMA NoneIsAboveItself ==
    ASSUME NEW d, d.parentNode \in [Nodes -> Nodes \cup {NoNode}], Acyclic(d), NEW n \in Nodes
    PROVE  n \notin Tree!Ancestors(d, n)
<1> SUFFICES ASSUME n \in Tree!Ancestors(d, n) PROVE FALSE
  OBVIOUS
<1> DEFINE S == {m \in Nodes : n \in Tree!Ancestors(d, m)}
<1>1. PICK s \in S : d.parentNode[s] \notin S
  BY DEF Acyclic
<1> DEFINE q == d.parentNode[s]
<1>2. CASE q = NoNode
  <2>1. Above(d, s) = {} /\ Upward(d, {})
    BY <1>2 DEF Above, Upward
  <2> QED
    BY <2>1, AncestorsClosed
<1>3. CASE q \in Nodes
  <2> DEFINE C == {q} \cup Tree!Ancestors(d, q)
  <2>1. Above(d, s) \subseteq C
    BY DEF Above
  <2>2. Upward(d, C)
    BY <1>3, AncestorsClosed DEF Upward, Above
  <2>3. n \in C
    BY <2>1, <2>2, AncestorsClosed
  <2> QED
    BY <1>1, <1>3, <2>3
<1> QED
  BY <1>2, <1>3

(* A node may go below one that it is not above.                           *)
LEMMA StaysAcyclic ==
    ASSUME NEW d, d.parentNode \in [Nodes -> Nodes \cup {NoNode}], Acyclic(d),
           NEW p \in Nodes, NEW n \in Nodes, ~Tree!IsAncestor(d, p, n),
           NEW e, e.parentNode \in [Nodes -> Nodes \cup {NoNode}],
           \A m \in Nodes : \/ e.parentNode[m] \in {d.parentNode[m], NoNode}
                            \/ m = n /\ e.parentNode[m] = p
    PROVE  Acyclic(e)
<1> SUFFICES ASSUME NEW S \in SUBSET Nodes, S # {}, \A s \in S : e.parentNode[s] \in S PROVE FALSE
  BY DEF Acyclic
<1>1. NoNode \notin S
  BY NodesAreFinite
<1>2. \A s \in S : s # n => d.parentNode[s] = e.parentNode[s]
  BY <1>1
<1>3. n \in S /\ (e.parentNode[n] = p \/ e.parentNode[n] = d.parentNode[n])
  BY <1>1, <1>2 DEF Acyclic
<1>4. e.parentNode[n] = p /\ p \in S
  BY <1>2, <1>3 DEF Acyclic
<1> DEFINE A == Tree!Ancestors(d, p)
           T == S \cap ({p} \cup A)
<1>5. p # n /\ n \notin A
  BY DEF Tree!IsAncestor
<1>6. Above(d, p) \subseteq A /\ Upward(d, A)
  BY AncestorsClosed
<1>7. ASSUME NEW s \in T PROVE d.parentNode[s] \in T
  <2>1. s # n /\ d.parentNode[s] \in S /\ d.parentNode[s] # NoNode
    BY <1>1, <1>2, <1>5
  <2> QED
    BY <1>6, <2>1 DEF Above, Upward
<1>8. T \in SUBSET Nodes /\ T # {}
  BY <1>4
<1> QED
  BY <1>7, <1>8 DEF Acyclic

(* What the nodes hold.                                                    *)
Link == Nodes \cup {NoNode}
LinkOf == [Nodes -> Link]
Holding == [parentNode : LinkOf, childNodes : [Nodes -> Seq(Nodes)],
            firstChild : LinkOf, lastChild : LinkOf,
            previousSibling : LinkOf, nextSibling : LinkOf]

Listed(d, p, n) == \E i \in 1 .. Len(d.childNodes[p]) : d.childNodes[p][i] = n
Before(s, i) == IF i = 1 THEN NoNode ELSE s[i - 1]
Behind(s, i) == IF i = Len(s) THEN NoNode ELSE s[i + 1]
Ends(d, p, s) ==
    /\ d.firstChild[p] = IF s = <<>> THEN NoNode ELSE s[1]
    /\ d.lastChild[p] = IF s = <<>> THEN NoNode ELSE s[Len(s)]
Different(s) == \A i, j \in 1 .. Len(s) : s[i] = s[j] => i = j
Matches(d, p, s) ==
    /\ Different(s) /\ Ends(d, p, s)
    /\ \A i \in 1 .. Len(s) : /\ d.parentNode[s[i]] = p
                              /\ d.previousSibling[s[i]] = Before(s, i)
                              /\ d.nextSibling[s[i]] = Behind(s, i)

(* List and links agree; those that were replaced are lost, and who has no *)
(* parent has no siblings.                                                 *)
Agree(d, lost) ==
    /\ \A p \in Nodes : Matches(d, p, d.childNodes[p])
    /\ \A n \in Nodes \ lost : d.parentNode[n] # NoNode => Listed(d, d.parentNode[n], n)
    /\ \A n \in lost : d.parentNode[n] # NoNode /\ \A p \in Nodes : ~Listed(d, p, n)
    /\ \A n \in Nodes : d.parentNode[n] = NoNode =>
                            d.previousSibling[n] = NoNode /\ d.nextSibling[n] = NoNode

TreeInv ==
    /\ dom \in Holding /\ replaced \subseteq Nodes
    /\ mishaps = {} => Agree(dom, replaced)
    /\ errorChecking /\ "fragment" \notin mishaps => Acyclic(dom)

(* One assignment changes one field of one node.                           *)
Set(f, g, a, b) == \A x \in Nodes : g[x] = IF x = a THEN b ELSE f[x]
WithNext(d, a, b) == [d EXCEPT !.nextSibling[a] = b]
NextSet(d, e, a, b) ==
    /\ Set(d.nextSibling, e.nextSibling, a, b)
    /\ e.parentNode = d.parentNode /\ e.childNodes = d.childNodes
    /\ e.firstChild = d.firstChild /\ e.lastChild = d.lastChild
    /\ e.previousSibling = d.previousSibling
WithPrevious(d, a, b) == [d EXCEPT !.previousSibling[a] = b]
PreviousSet(d, e, a, b) ==
    /\ Set(d.previousSibling, e.previousSibling, a, b)
    /\ e.parentNode = d.parentNode /\ e.childNodes = d.childNodes
    /\ e.firstChild = d.firstChild /\ e.lastChild = d.lastChild
    /\ e.nextSibling = d.nextSibling
WithFirst(d, a, b) == [d EXCEPT !.firstChild[a] = b]
FirstSet(d, e, a, b) ==
    /\ Set(d.firstChild, e.firstChild, a, b)
    /\ e.parentNode = d.parentNode /\ e.childNodes = d.childNodes
    /\ e.lastChild = d.lastChild /\ e.previousSibling = d.previousSibling
    /\ e.nextSibling = d.nextSibling
WithLast(d, a, b) == [d EXCEPT !.lastChild[a] = b]
LastSet(d, e, a, b) ==
    /\ Set(d.lastChild, e.lastChild, a, b)
    /\ e.parentNode = d.parentNode /\ e.childNodes = d.childNodes
    /\ e.firstChild = d.firstChild /\ e.previousSibling = d.previousSibling
    /\ e.nextSibling = d.nextSibling
WithParent(d, a, b) == [d EXCEPT !.parentNode[a] = b]
ParentSet(d, e, a, b) ==
    /\ Set(d.parentNode, e.parentNode, a, b)
    /\ e.childNodes = d.childNodes /\ e.firstChild = d.firstChild
    /\ e.lastChild = d.lastChild /\ e.previousSibling = d.previousSibling
    /\ e.nextSibling = d.nextSibling
WithChildren(d, a, b) == [d EXCEPT !.childNodes[a] = b]
ChildrenSet(d, e, a, b) ==
    /\ Set(d.childNodes, e.childNodes, a, b)
    /\ e.parentNode = d.parentNode /\ e.firstChild = d.firstChild
    /\ e.lastChild = d.lastChild /\ e.previousSibling = d.previousSibling
    /\ e.nextSibling = d.nextSibling

LEMMA WithNextSets ==
    ASSUME NEW d \in Holding, NEW a \in Nodes, NEW b \in Link
    PROVE  WithNext(d, a, b) \in Holding /\ NextSet(d, WithNext(d, a, b), a, b)
  BY DEF Holding, LinkOf, Set, WithNext, NextSet

LEMMA WithPreviousSets ==
    ASSUME NEW d \in Holding, NEW a \in Nodes, NEW b \in Link
    PROVE  WithPrevious(d, a, b) \in Holding /\ PreviousSet(d, WithPrevious(d, a, b), a, b)
  BY DEF Holding, LinkOf, Set, WithPrevious, PreviousSet

LEMMA WithFirstSets ==
    ASSUME NEW d \in Holding, NEW a \in Nodes, NEW b \in Link
    PROVE  WithFirst(d, a, b) \in Holding /\ FirstSet(d, WithFirst(d, a, b), a, b)
  BY DEF Holding, LinkOf, Set, WithFirst, FirstSet

LEMMA WithLastSets ==
    ASSUME NEW d \in Holding, NEW a \in Nodes, NEW b \in Link
    PROVE  WithLast(d, a, b) \in Holding /\ LastSet(d, WithLast(d, a, b), a, b)
  BY DEF Holding, LinkOf, Set, WithLast, LastSet

LEMMA WithParentSets ==
    ASSUME NEW d \in Holding, NEW a \in Nodes, NEW b \in Link
    PROVE  WithParent(d, a, b) \in Holding /\ ParentSet(d, WithParent(d, a, b), a, b)
  BY DEF Holding, LinkOf, Set, WithParent, ParentSet

LEMMA WithChildrenSets ==
    ASSUME NEW d \in Holding, NEW a \in Nodes, NEW b \in Seq(Nodes)
    PROVE  WithChildren(d, a, b) \in Holding /\ ChildrenSet(d, WithChildren(d, a, b), a, b)
  BY DEF Holding, LinkOf, Set, WithChildren, ChildrenSet

(* Who follows or precedes whom, or is the first or last child.            *)
Follows(d, e, p, left, n) ==
    /\ Set(d.nextSibling, e.nextSibling, left, n)
    /\ left = NoNode => Set(d.firstChild, e.firstChild, p, n)
    /\ left # NoNode => e.firstChild = d.firstChild
    /\ e.parentNode = d.parentNode /\ e.childNodes = d.childNodes
    /\ e.lastChild = d.lastChild /\ e.previousSibling = d.previousSibling
Precedes(d, e, p, right, n) ==
    /\ Set(d.previousSibling, e.previousSibling, right, n)
    /\ right = NoNode => Set(d.lastChild, e.lastChild, p, n)
    /\ right # NoNode => e.lastChild = d.lastChild
    /\ e.parentNode = d.parentNode /\ e.childNodes = d.childNodes
    /\ e.firstChild = d.firstChild /\ e.nextSibling = d.nextSibling

LEMMA FollowedByFollows ==
    ASSUME NEW d \in Holding, NEW p \in Nodes, NEW left \in Link, NEW n \in Link
    PROVE  /\ Tree!FollowedBy(d, p, left, n) \in Holding
           /\ Follows(d, Tree!FollowedBy(d, p, left, n), p, left, n)
<1>1. CASE left = NoNode
  <2>1. Tree!FollowedBy(d, p, left, n) = WithFirst(d, p, n)
    BY <1>1 DEF Tree!FollowedBy, WithFirst
  <2>2. WithFirst(d, p, n) \in Holding /\ FirstSet(d, WithFirst(d, p, n), p, n)
    BY WithFirstSets
  <2>3. Follows(d, WithFirst(d, p, n), p, left, n)
    BY <1>1, <2>2, NodesAreFinite DEF FirstSet, Follows, Set
  <2> QED
    BY <2>1, <2>2, <2>3
<1>2. CASE left # NoNode
  <2>1. Tree!FollowedBy(d, p, left, n) = WithNext(d, left, n) /\ left \in Nodes
    BY <1>2 DEF Tree!FollowedBy, Link, WithNext
  <2>2. WithNext(d, left, n) \in Holding /\ NextSet(d, WithNext(d, left, n), left, n)
    BY <2>1, WithNextSets
  <2>3. Follows(d, WithNext(d, left, n), p, left, n)
    BY <1>2, <2>2 DEF NextSet, Follows
  <2> QED
    BY <2>1, <2>2, <2>3
<1> QED
  BY <1>1, <1>2

LEMMA PrecededByPrecedes ==
    ASSUME NEW d \in Holding, NEW p \in Nodes, NEW right \in Link, NEW n \in Link
    PROVE  /\ Tree!PrecededBy(d, p, right, n) \in Holding
           /\ Precedes(d, Tree!PrecededBy(d, p, right, n), p, right, n)
<1>1. CASE right = NoNode
  <2>1. Tree!PrecededBy(d, p, right, n) = WithLast(d, p, n)
    BY <1>1 DEF Tree!PrecededBy, WithLast
  <2>2. WithLast(d, p, n) \in Holding /\ LastSet(d, WithLast(d, p, n), p, n)
    BY WithLastSets
  <2>3. Precedes(d, WithLast(d, p, n), p, right, n)
    BY <1>1, <2>2, NodesAreFinite DEF LastSet, Precedes, Set
  <2> QED
    BY <2>1, <2>2, <2>3
<1>2. CASE right # NoNode
  <2>1. Tree!PrecededBy(d, p, right, n) = WithPrevious(d, right, n) /\ right \in Nodes
    BY <1>2 DEF Tree!PrecededBy, Link, WithPrevious
  <2>2. /\ WithPrevious(d, right, n) \in Holding
        /\ PreviousSet(d, WithPrevious(d, right, n), right, n)
    BY <2>1, WithPreviousSets
  <2>3. Precedes(d, WithPrevious(d, right, n), p, right, n)
    BY <1>2, <2>2 DEF PreviousSet, Precedes
  <2> QED
    BY <2>1, <2>2, <2>3
<1> QED
  BY <1>1, <1>2

(* removeFirst takes the one at the least index.                           *)
LEMMA RemoveFirstIs ==
    ASSUME NEW s \in Seq(Nodes), NEW n
    PROVE  /\ Tree!RemoveFirst(s, n) \in Seq(Nodes)
           /\ Different(s) => \A k \in 1 .. Len(s) :
                 s[k] = n => Tree!RemoveFirst(s, n) = RemoveAt(s, k)
<1> DEFINE T == {i \in 1 .. Len(s) : s[i] = n}
<1>1. Len(s) \in Nat /\ T \in SUBSET Nat /\ DOMAIN s = 1 .. Len(s)
  OBVIOUS
<1>2. CASE T = {}
  BY <1>2 DEF Tree!RemoveFirst
<1>3. CASE T # {}
  <2>1. PICK i \in T : \A k \in T : ~(<<k, i>> \in OpToRel(<, Nat))
    <3> HIDE DEF T
    <3> QED
      BY <1>1, <1>3, NatLessThanWellFounded, WFMin
  <2>2. i \in T /\ \A k \in T : ~(k < i)
    BY <1>1, <2>1 DEF OpToRel
  <2> DEFINE k == Tree!SelectInSeq(s, LAMBDA v : v = n)
  <2>3. k \in 1 .. Len(s) /\ s[k] = n
    <3>1. k = CHOOSE m \in T : \A j \in T : m <= j
      BY <1>3 DEF Tree!SelectInSeq, Tree!Min
    <3>2. i \in T /\ \A j \in T : i <= j
      BY <1>1, <2>2
    <3> HIDE DEF k, T
    <3>3. k \in T
      BY <3>1, <3>2
    <3> QED
      BY <3>3 DEF T
  <2>4. Tree!RemoveFirst(s, n) = RemoveAt(s, k)
    BY <1>3 DEF Tree!RemoveFirst, Tree!RemoveAt, RemoveAt
  <2> HIDE DEF k
  <2>5. RemoveAt(s, k) \in Seq(Nodes)
    BY <2>3, RemoveAtList
  <2>6. Different(s) => \A j \in 1 .. Len(s) : s[j] = n => j = k
    BY <2>3 DEF Different
  <2> QED
    BY <2>4, <2>5, <2>6
<1> QED
  BY <1>2, <1>3

(* What removeChild leaves.                                                *)
Taken(d, e, p, n) ==
    LET l == d.previousSibling[n]
        r == d.nextSibling[n]
    IN  /\ Set(d.childNodes, e.childNodes, p, Tree!RemoveFirst(d.childNodes[p], n))
        /\ Set(d.parentNode, e.parentNode, n, NoNode)
        /\ \A x \in Nodes :
              /\ e.nextSibling[x] = IF x = n THEN NoNode
                                    ELSE IF x = l THEN r ELSE d.nextSibling[x]
              /\ e.previousSibling[x] = IF x = n THEN NoNode
                                        ELSE IF x = r THEN l ELSE d.previousSibling[x]
        /\ l = NoNode => Set(d.firstChild, e.firstChild, p, r)
        /\ l # NoNode => e.firstChild = d.firstChild
        /\ r = NoNode => Set(d.lastChild, e.lastChild, p, l)
        /\ r # NoNode => e.lastChild = d.lastChild

LEMMA TakeTakes ==
    ASSUME NEW d \in Holding, NEW p \in Nodes, NEW n \in Nodes
    PROVE  Tree!Take(d, p, n) \in Holding /\ Taken(d, Tree!Take(d, p, n), p, n)
<1> DEFINE l == d.previousSibling[n]
           r == d.nextSibling[n]
           s == Tree!RemoveFirst(d.childNodes[p], n)
           a == [d EXCEPT !.childNodes[p] = s]
           b == [a EXCEPT !.parentNode[n] = NoNode]
           f == Tree!FollowedBy(b, p, b.previousSibling[n], b.nextSibling[n])
           g == Tree!PrecededBy(f, p, f.nextSibling[n], f.previousSibling[n])
           h == [g EXCEPT !.previousSibling[n] = NoNode]
           e == [h EXCEPT !.nextSibling[n] = NoNode]
<1>1. NoNode \in Link
  BY DEF Link
<1>2. s \in Seq(Nodes)
  BY RemoveFirstIs DEF Holding
<1>3. a = WithChildren(d, p, s) /\ b = WithParent(a, n, NoNode)
  BY DEF WithChildren, WithParent
<1>4. h = WithPrevious(g, n, NoNode) /\ e = WithNext(h, n, NoNode)
  BY DEF WithPrevious, WithNext
<1>5. Tree!Take(d, p, n) = e
  BY DEF Tree!Take
<1> HIDE DEF e, h, g, f, b, a, s
<1>6. a \in Holding /\ ChildrenSet(d, a, p, s)
  BY <1>2, <1>3, WithChildrenSets
<1>7. b \in Holding /\ ParentSet(a, b, n, NoNode)
  BY <1>1, <1>3, <1>6, WithParentSets
<1>8. b.previousSibling = d.previousSibling /\ b.nextSibling = d.nextSibling
  BY <1>6, <1>7 DEF ChildrenSet, ParentSet
<1>9. f = Tree!FollowedBy(b, p, l, r) /\ l \in Link /\ r \in Link
  BY <1>8 DEF f, Holding, LinkOf
<1>10. f \in Holding /\ Follows(b, f, p, l, r)
  <2> HIDE DEF l, r
  <2> QED
    BY <1>7, <1>9, FollowedByFollows
<1>11. f.previousSibling = d.previousSibling /\ Set(d.nextSibling, f.nextSibling, l, r)
  <2> HIDE DEF l, r
  <2> QED
    BY <1>8, <1>10 DEF Follows
<1>12. g = Tree!PrecededBy(f, p, r, l)
  BY <1>11 DEF g, Set
<1> HIDE DEF l, r
<1>13. g \in Holding /\ Precedes(f, g, p, r, l)
  BY <1>9, <1>10, <1>12, PrecededByPrecedes
<1>14. h \in Holding /\ PreviousSet(g, h, n, NoNode)
  BY <1>1, <1>4, <1>13, WithPreviousSets
<1>15. e \in Holding /\ NextSet(h, e, n, NoNode)
  BY <1>1, <1>4, <1>14, WithNextSets
<1>16. /\ Set(d.childNodes, e.childNodes, p, s) /\ Set(d.parentNode, e.parentNode, n, NoNode)
       /\ l = NoNode => Set(d.firstChild, e.firstChild, p, r)
       /\ l # NoNode => e.firstChild = d.firstChild
       /\ r = NoNode => Set(d.lastChild, e.lastChild, p, l)
       /\ r # NoNode => e.lastChild = d.lastChild
  BY <1>6, <1>7, <1>10, <1>13, <1>14, <1>15
     DEF ChildrenSet, ParentSet, Follows, Precedes, PreviousSet, NextSet
<1>17. ASSUME NEW x \in Nodes
       PROVE  /\ e.nextSibling[x] = IF x = n THEN NoNode
                                    ELSE IF x = l THEN r ELSE d.nextSibling[x]
              /\ e.previousSibling[x] = IF x = n THEN NoNode
                                        ELSE IF x = r THEN l ELSE d.previousSibling[x]
  <2>1. /\ Set(d.nextSibling, g.nextSibling, l, r) /\ Set(g.nextSibling, e.nextSibling, n, NoNode)
        /\ Set(d.previousSibling, g.previousSibling, r, l)
        /\ Set(g.previousSibling, e.previousSibling, n, NoNode)
    BY <1>11, <1>13, <1>14, <1>15 DEF Precedes, PreviousSet, NextSet
  <2> QED
    BY <2>1 DEF Set
<1>18. Taken(d, e, p, n)
  BY <1>16, <1>17 DEF Taken, l, r, s
<1> QED
  BY <1>5, <1>15, <1>18

(* The children of a new parent.                                           *)
WithParents(d, g) == [d EXCEPT !.parentNode = g]
Adopted(d, e, p, items) ==
    /\ \A x \in Nodes : e.parentNode[x] = IF x \in Tree!ToSet(items) THEN p ELSE d.parentNode[x]
    /\ e.childNodes = d.childNodes /\ e.firstChild = d.firstChild
    /\ e.lastChild = d.lastChild /\ e.previousSibling = d.previousSibling
    /\ e.nextSibling = d.nextSibling

LEMMA AdoptAdopts ==
    ASSUME NEW d \in Holding, NEW p \in Nodes, NEW items
    PROVE  Tree!Adopt(d, p, items) \in Holding /\ Adopted(d, Tree!Adopt(d, p, items), p, items)
<1> DEFINE g == [n \in Nodes |-> IF n \in Tree!ToSet(items) THEN p ELSE d.parentNode[n]]
<1>1. Tree!Adopt(d, p, items) = WithParents(d, g)
  BY DEF Tree!Adopt, WithParents
<1>2. g \in LinkOf /\ \A x \in Nodes : g[x] = IF x \in Tree!ToSet(items) THEN p
                                               ELSE d.parentNode[x]
  BY DEF Holding, LinkOf, Link
<1> HIDE DEF g
<1>3. WithParents(d, g) \in Holding
  BY <1>2 DEF Holding, WithParents
<1>4. Adopted(d, WithParents(d, g), p, items)
  BY <1>2 DEF Holding, WithParents, Adopted
<1> QED
  BY <1>1, <1>3, <1>4

(* What stands for a node, and where the list has a node.                  *)
LEMMA ItemsAre ==
    ASSUME NEW d \in Holding, NEW n \in Nodes
    PROVE  /\ Tree!Items(d, n) \in Seq(Nodes)
           /\ n \notin Fragments => Tree!Items(d, n) = <<n>>
           /\ n \in Fragments => Tree!Items(d, n) = d.childNodes[n]
  BY DEF Tree!Items, Holding

LEMMA OneItem ==
    ASSUME NEW n \in Nodes
    PROVE  Head(<<n>>) = n /\ Tree!Last(<<n>>) = n /\ Tree!ToSet(<<n>>) = {n} /\ <<n>> # <<>>
  BY DEF Tree!Last, Tree!ToSet

LEMMA ItemEnds ==
    ASSUME NEW s \in Seq(Nodes), s # <<>>
    PROVE  Head(s) \in Nodes /\ Tree!Last(s) \in Nodes
<1>1. Len(s) \in 1 .. Len(s) /\ 1 \in 1 .. Len(s)
  OBVIOUS
<1> QED
  BY <1>1 DEF Tree!Last

(* What a call leaves that frees a node: the same, or less a child.        *)
LEMMA DetachIs ==
    ASSUME NEW d \in Holding, NEW n \in Nodes
    PROVE  /\ Tree!Detach(d, n) \in Holding
           /\ d.parentNode[n] = NoNode => Tree!Detach(d, n) = d
           /\ d.parentNode[n] # NoNode => /\ d.parentNode[n] \in Nodes
                                          /\ Taken(d, Tree!Detach(d, n), d.parentNode[n], n)
           /\ Set(d.parentNode, Tree!Detach(d, n).parentNode, n, NoNode)
<1>1. d.parentNode[n] \in Link
  BY DEF Holding, LinkOf
<1>2. CASE d.parentNode[n] = NoNode
  BY <1>2 DEF Tree!Detach, Set
<1>3. CASE d.parentNode[n] # NoNode
  <2> DEFINE q == d.parentNode[n]
             e == Tree!Take(d, q, n)
  <2>1. q \in Nodes /\ Tree!Detach(d, n) = e
    BY <1>1, <1>3 DEF Link, Tree!Detach
  <2> HIDE DEF q
  <2>2. e \in Holding /\ Taken(d, e, q, n)
    BY <2>1, TakeTakes
  <2>3. Set(d.parentNode, e.parentNode, n, NoNode)
    BY <2>2 DEF Taken
  <2> QED
    BY <1>3, <2>1, <2>2, <2>3 DEF q
<1> QED
  BY <1>2, <1>3

(* What a node's joining a list leaves, if no other node joins with it.    *)
Joined(d, e, p, n, t, l, r) ==
    /\ Set(d.childNodes, e.childNodes, p, t)
    /\ Set(d.parentNode, e.parentNode, n, p)
    /\ \A x \in Nodes :
          /\ e.nextSibling[x] = IF x = n THEN r ELSE IF x = l THEN n ELSE d.nextSibling[x]
          /\ e.previousSibling[x] = IF x = n THEN l
                                    ELSE IF x = r THEN n ELSE d.previousSibling[x]
    /\ l = NoNode => Set(d.firstChild, e.firstChild, p, n)
    /\ l # NoNode => e.firstChild = d.firstChild
    /\ r = NoNode => Set(d.lastChild, e.lastChild, p, n)
    /\ r # NoNode => e.lastChild = d.lastChild

LEMMA AppendedIs ==
    ASSUME NEW d \in Holding, NEW p \in Nodes, NEW n \in Nodes
    PROVE  LET e == Tree!Appended(d, p, n)
               f == Tree!Detach(d, n)
           IN  /\ e \in Holding
               /\ Tree!Items(f, n) = <<>> => e = f
               /\ n \notin Fragments => Set(f.parentNode, e.parentNode, n, p)
               /\ /\ n \notin Fragments /\ f.lastChild[p] # n
                  /\ f.nextSibling[n] = NoNode /\ f.previousSibling[n] = NoNode
                  => Joined(f, e, p, n, f.childNodes[p] \o <<n>>, f.lastChild[p], NoNode)
<1> DEFINE e == Tree!Appended(d, p, n)
           f == Tree!Detach(d, n)
           items == Tree!Items(f, n)
           old == f.lastChild[p]
           s == f.childNodes[p] \o items
           h == Head(items)
           z == Tree!Last(items)
           a == [f EXCEPT !.childNodes[p] = s]
           b == Tree!Adopt(a, p, items)
           c == [b EXCEPT !.lastChild[p] = z]
           first == [c EXCEPT !.firstChild[p] = h]
           next == [c EXCEPT !.nextSibling[old] = h]
           both == [next EXCEPT !.previousSibling[h] = old]
<1>1. e = IF items = <<>> THEN f ELSE IF old = NoNode THEN first ELSE both
  BY DEF Tree!Appended
<1>2. /\ a = WithChildren(f, p, s) /\ c = WithLast(b, p, z) /\ first = WithFirst(c, p, h)
      /\ next = WithNext(c, old, h) /\ both = WithPrevious(next, h, old)
  BY DEF WithChildren, WithLast, WithFirst, WithNext, WithPrevious
<1> HIDE DEF f
<1>3. f \in Holding
  BY DetachIs DEF f
<1>4. items \in Seq(Nodes) /\ f.childNodes[p] \in Seq(Nodes) /\ old \in Link
  BY <1>3, ItemsAre DEF Holding, LinkOf
<1>5. s \in Seq(Nodes)
  BY <1>4
<1>6. items # <<>> => h \in Nodes /\ z \in Nodes
  BY <1>4, ItemEnds
<1>7. n \notin Fragments => /\ items = <<n>> /\ h = n /\ z = n /\ Tree!ToSet(items) = {n}
                            /\ s = f.childNodes[p] \o <<n>> /\ items # <<>>
  BY <1>3, ItemsAre, OneItem
<1> HIDE DEF e, both, next, first, c, b, a, s, h, z, items
<1>8. a \in Holding /\ ChildrenSet(f, a, p, s)
  BY <1>2, <1>3, <1>5, WithChildrenSets
<1>9. b \in Holding /\ Adopted(a, b, p, items)
  BY <1>8, AdoptAdopts DEF b
<1>10. CASE items = <<>>
  BY <1>1, <1>3, <1>7, <1>10 DEF e, f, items
<1>11. CASE items # <<>>
  <2>1. h \in Nodes /\ z \in Nodes /\ h \in Link /\ z \in Link
    BY <1>6, <1>11 DEF Link
  <2>2. c \in Holding /\ LastSet(b, c, p, z)
    BY <1>2, <1>9, <2>1, WithLastSets
  <2>3. CASE old = NoNode
    <3>1. first \in Holding /\ FirstSet(c, first, p, h)
      BY <1>2, <2>1, <2>2, WithFirstSets
    <3>2. e = first
      BY <1>1, <1>11, <2>3
    <3>3. n \notin Fragments => Set(f.parentNode, e.parentNode, n, p)
      BY <1>7, <1>8, <1>9, <2>2, <3>1, <3>2
         DEF ChildrenSet, Adopted, LastSet, FirstSet, Set
    <3>4. ASSUME n \notin Fragments, f.nextSibling[n] = NoNode, f.previousSibling[n] = NoNode
          PROVE  Joined(f, e, p, n, s, old, NoNode)
      <4>1. /\ Set(f.childNodes, e.childNodes, p, s) /\ Set(f.lastChild, e.lastChild, p, n)
            /\ Set(f.firstChild, e.firstChild, p, n)
            /\ e.nextSibling = f.nextSibling /\ e.previousSibling = f.previousSibling
        BY <1>7, <1>8, <1>9, <2>2, <3>1, <3>2, <3>4
           DEF ChildrenSet, Adopted, LastSet, FirstSet, Set
      <4> HIDE DEF old
      <4>2. \A x \in Nodes :
              /\ e.nextSibling[x] = IF x = n THEN NoNode ELSE IF x = old THEN n
                                    ELSE f.nextSibling[x]
              /\ e.previousSibling[x] = IF x = n THEN old ELSE IF x = NoNode THEN n
                                        ELSE f.previousSibling[x]
        BY <2>3, <3>4, <4>1, NodesAreFinite
      <4> QED
        BY <2>3, <3>3, <3>4, <4>1, <4>2 DEF Joined
    <3> QED
      BY <1>7, <1>11, <3>1, <3>2, <3>3, <3>4 DEF e, f, items
  <2>4. CASE old # NoNode
    <3>1. old \in Nodes
      BY <1>4, <2>4 DEF Link
    <3> HIDE DEF old
    <3>2. next \in Holding /\ NextSet(c, next, old, h)
      BY <1>2, <2>1, <2>2, <3>1, WithNextSets
    <3>3. both \in Holding /\ PreviousSet(next, both, h, old)
      BY <1>2, <1>4, <2>1, <3>2, WithPreviousSets
    <3>4. e = both
      BY <1>1, <1>11, <2>4
    <3>5. n \notin Fragments => Set(f.parentNode, e.parentNode, n, p)
      BY <1>7, <1>8, <1>9, <2>2, <3>2, <3>3, <3>4
         DEF ChildrenSet, Adopted, LastSet, NextSet, PreviousSet, Set
    <3>6. ASSUME n \notin Fragments, f.nextSibling[n] = NoNode, old # n
          PROVE  Joined(f, e, p, n, s, old, NoNode)
      <4>1. /\ Set(f.childNodes, e.childNodes, p, s) /\ Set(f.lastChild, e.lastChild, p, n)
            /\ e.firstChild = f.firstChild
            /\ Set(f.nextSibling, e.nextSibling, old, n)
            /\ Set(f.previousSibling, e.previousSibling, n, old)
        BY <1>7, <1>8, <1>9, <2>2, <3>2, <3>3, <3>4, <3>6
           DEF ChildrenSet, Adopted, LastSet, NextSet, PreviousSet, Set
      <4>2. \A x \in Nodes :
              /\ e.nextSibling[x] = IF x = n THEN NoNode ELSE IF x = old THEN n
                                    ELSE f.nextSibling[x]
              /\ e.previousSibling[x] = IF x = n THEN old ELSE IF x = NoNode THEN n
                                        ELSE f.previousSibling[x]
        BY <3>6, <4>1, NodesAreFinite DEF Set
      <4> QED
        BY <2>4, <3>5, <3>6, <4>1, <4>2 DEF Joined
    <3> QED
      BY <1>7, <1>11, <3>3, <3>4, <3>5, <3>6 DEF e, f, items, old
  <2> QED
    BY <2>3, <2>4
<1> QED
  BY <1>10, <1>11

(* Items in the place of nothing, or of a child.                           *)
LEMMA InsertItemsList ==
    ASSUME NEW s \in Seq(Nodes), NEW i, NEW items \in Seq(Nodes)
    PROVE  Tree!InsertItems(s, i, items) \in Seq(Nodes)
<1>1. CASE i \in 1 .. Len(s) + 1
  <2>1. i \in Int /\ Len(s) \in Int /\ 1 \in Int /\ i - 1 \in Int
    BY <1>1
  <2>2. /\ \A k \in 1 .. i - 1 : s[k] \in Nodes
        /\ \A k \in i .. Len(s) : s[k] \in Nodes
    BY <1>1
  <2>3. SubSeq(s, 1, i - 1) \in Seq(Nodes) /\ SubSeq(s, i, Len(s)) \in Seq(Nodes)
    BY <2>1, <2>2, SubSeqProperties
  <2> QED
    BY <1>1, <2>3 DEF Tree!InsertItems
<1>2. CASE i \notin 1 .. Len(s) + 1
  BY <1>2 DEF Tree!InsertItems
<1> QED
  BY <1>1, <1>2

LEMMA ReplaceItemList ==
    ASSUME NEW s \in Seq(Nodes), NEW i, NEW items \in Seq(Nodes)
    PROVE  Tree!ReplaceItem(s, i, items) \in Seq(Nodes)
<1>1. CASE i \in 1 .. Len(s)
  <2>1. i + 1 \in Int /\ Len(s) \in Int /\ 1 \in Int /\ i - 1 \in Int
    BY <1>1
  <2>2. /\ \A k \in 1 .. i - 1 : s[k] \in Nodes
        /\ \A k \in i + 1 .. Len(s) : s[k] \in Nodes
    BY <1>1
  <2>3. SubSeq(s, 1, i - 1) \in Seq(Nodes) /\ SubSeq(s, i + 1, Len(s)) \in Seq(Nodes)
    BY <2>1, <2>2, SubSeqProperties
  <2> QED
    BY <1>1, <2>3 DEF Tree!ReplaceItem
<1>2. CASE i \notin 1 .. Len(s)
  BY <1>2 DEF Tree!ReplaceItem
<1> QED
  BY <1>1, <1>2

LEMMA InsertedIs ==
    ASSUME NEW d \in Holding, NEW p \in Nodes, NEW n \in Nodes, NEW ref \in Nodes
    PROVE  LET e == Tree!Inserted(d, p, n, ref)
               f == Tree!Detach(d, n)
               i == Tree!FindItemIndex(d.childNodes[p], ref)
           IN  /\ e \in Holding
               /\ Tree!Items(f, n) = <<>> => e = f
               /\ n \notin Fragments => Set(f.parentNode, e.parentNode, n, p)
               /\ n \notin Fragments /\ ref # n /\ f.previousSibling[ref] # n
                  => Joined(f, e, p, n, Tree!InsertItems(f.childNodes[p], i, <<n>>),
                            f.previousSibling[ref], ref)
<1> DEFINE e == Tree!Inserted(d, p, n, ref)
           f == Tree!Detach(d, n)
           i == Tree!FindItemIndex(d.childNodes[p], ref)
           items == Tree!Items(f, n)
           left == f.previousSibling[ref]
           s == Tree!InsertItems(f.childNodes[p], i, items)
           h == Head(items)
           z == Tree!Last(items)
           a == [f EXCEPT !.childNodes[p] = s]
           b == Tree!Adopt(a, p, items)
           c == [b EXCEPT !.previousSibling[ref] = z]
           both == Tree!FollowedBy(c, p, left, h)
           previous == [both EXCEPT !.previousSibling[h] = left]
           next == [previous EXCEPT !.nextSibling[z] = ref]
<1>1. e = IF items = <<>> THEN f ELSE next
  BY DEF Tree!Inserted
<1>2. /\ a = WithChildren(f, p, s) /\ c = WithPrevious(b, ref, z)
      /\ previous = WithPrevious(both, h, left) /\ next = WithNext(previous, z, ref)
  BY DEF WithChildren, WithPrevious, WithNext
<1> HIDE DEF f, i
<1>3. f \in Holding
  BY DetachIs DEF f
<1>4. items \in Seq(Nodes) /\ f.childNodes[p] \in Seq(Nodes) /\ left \in Link /\ ref \in Link
  BY <1>3, ItemsAre DEF Holding, LinkOf, Link
<1>5. s \in Seq(Nodes)
  BY <1>4, InsertItemsList
<1>6. items # <<>> => h \in Nodes /\ z \in Nodes
  BY <1>4, ItemEnds
<1>7. n \notin Fragments => /\ items = <<n>> /\ h = n /\ z = n /\ Tree!ToSet(items) = {n}
                            /\ s = Tree!InsertItems(f.childNodes[p], i, <<n>>) /\ items # <<>>
  BY <1>3, ItemsAre, OneItem
<1> HIDE DEF e, next, previous, both, c, b, a, s, h, z, items
<1>8. a \in Holding /\ ChildrenSet(f, a, p, s)
  BY <1>2, <1>3, <1>5, WithChildrenSets
<1>9. b \in Holding /\ Adopted(a, b, p, items)
  BY <1>8, AdoptAdopts DEF b
<1>10. CASE items = <<>>
  BY <1>1, <1>3, <1>7, <1>10 DEF e, f, items
<1>11. CASE items # <<>>
  <2> HIDE DEF left
  <2>1. h \in Nodes /\ z \in Nodes /\ h \in Link /\ z \in Link
    BY <1>6, <1>11 DEF Link
  <2>2. c \in Holding /\ PreviousSet(b, c, ref, z)
    BY <1>2, <1>9, <2>1, WithPreviousSets
  <2>3. both \in Holding /\ Follows(c, both, p, left, h)
    BY <1>4, <2>1, <2>2, FollowedByFollows DEF both
  <2>4. previous \in Holding /\ PreviousSet(both, previous, h, left)
    BY <1>2, <1>4, <2>1, <2>3, WithPreviousSets
  <2>5. next \in Holding /\ NextSet(previous, next, z, ref)
    BY <1>2, <1>4, <2>1, <2>4, WithNextSets
  <2>6. e = next
    BY <1>1, <1>11
  <2>7. n \notin Fragments => Set(f.parentNode, e.parentNode, n, p)
    BY <1>7, <1>8, <1>9, <2>2, <2>3, <2>4, <2>5, <2>6
       DEF ChildrenSet, Adopted, PreviousSet, Follows, NextSet, Set
  <2>8. ASSUME n \notin Fragments, ref # n, left # n
        PROVE  Joined(f, e, p, n, s, left, ref)
    <3>1. /\ Set(f.childNodes, e.childNodes, p, s) /\ e.lastChild = f.lastChild
          /\ left = NoNode => Set(f.firstChild, e.firstChild, p, n)
          /\ left # NoNode => e.firstChild = f.firstChild
      BY <1>7, <1>8, <1>9, <2>2, <2>3, <2>4, <2>5, <2>6, <2>8
         DEF ChildrenSet, Adopted, PreviousSet, Follows, NextSet, Set
    <3>2. /\ Set(f.nextSibling, both.nextSibling, left, n)
          /\ Set(both.nextSibling, e.nextSibling, n, ref)
          /\ Set(f.previousSibling, both.previousSibling, ref, n)
          /\ Set(both.previousSibling, e.previousSibling, n, left)
      BY <1>7, <1>8, <1>9, <2>2, <2>3, <2>4, <2>5, <2>6, <2>8
         DEF ChildrenSet, Adopted, PreviousSet, Follows, NextSet, Set
    <3>3. \A x \in Nodes :
            /\ e.nextSibling[x] = IF x = n THEN ref ELSE IF x = left THEN n
                                  ELSE f.nextSibling[x]
            /\ e.previousSibling[x] = IF x = n THEN left ELSE IF x = ref THEN n
                                      ELSE f.previousSibling[x]
      BY <3>2 DEF Set
    <3>4. ref # NoNode
      BY NodesAreFinite
    <3> QED
      BY <2>7, <2>8, <3>1, <3>3, <3>4 DEF Joined
  <2> QED
    BY <1>7, <1>11, <2>5, <2>6, <2>7, <2>8 DEF e, f, items, left, i
<1> QED
  BY <1>10, <1>11

LEMMA ExchangedIs ==
    ASSUME NEW d \in Holding, NEW p \in Nodes, NEW n \in Nodes, NEW old \in Nodes
    PROVE  LET e == Tree!Exchanged(d, p, n, old)
               f == Tree!Detach(d, n)
               i == Tree!FindItemIndex(d.childNodes[p], old)
               l == f.previousSibling[old]
               r == f.nextSibling[old]
           IN  /\ e \in Holding
               /\ n \notin Fragments => Set(f.parentNode, e.parentNode, n, p)
               /\ n \notin Fragments /\ n \notin {old, l, r} /\ old \notin {l, r}
                  => Joined(f, e, p, n, Tree!ReplaceItem(f.childNodes[p], i, <<n>>), l, r)
<1> DEFINE e == Tree!Exchanged(d, p, n, old)
           f == Tree!Detach(d, n)
           i == Tree!FindItemIndex(d.childNodes[p], old)
           l == f.previousSibling[old]
           r == f.nextSibling[old]
           items == Tree!Items(f, n)
           s == Tree!ReplaceItem(f.childNodes[p], i, items)
           h == Head(items)
           z == Tree!Last(items)
           a == [f EXCEPT !.childNodes[p] = s]
           b == Tree!Adopt(a, p, items)
           left == Tree!FollowedBy(b, p, b.previousSibling[old], h)
           right == left.nextSibling[old]
           before == [left EXCEPT !.previousSibling[right] = n]
           last == [left EXCEPT !.lastChild[p] = z]
           both == IF right # NoNode THEN before ELSE last
           begun == [both EXCEPT !.previousSibling[h] = both.previousSibling[old]]
           done == [begun EXCEPT !.nextSibling[z] = begun.nextSibling[old]]
<1>1. e = IF items = <<>> THEN b ELSE done
  BY DEF Tree!Exchanged
<1>2. /\ a = WithChildren(f, p, s) /\ before = WithPrevious(left, right, n)
      /\ last = WithLast(left, p, z)
      /\ begun = WithPrevious(both, h, both.previousSibling[old])
      /\ done = WithNext(begun, z, begun.nextSibling[old])
  BY DEF WithChildren, WithPrevious, WithLast, WithNext
<1> HIDE DEF f, i
<1>3. f \in Holding
  BY DetachIs DEF f
<1>4. items \in Seq(Nodes) /\ f.childNodes[p] \in Seq(Nodes) /\ l \in Link /\ r \in Link
  BY <1>3, ItemsAre DEF Holding, LinkOf
<1>5. s \in Seq(Nodes)
  BY <1>4, ReplaceItemList
<1>6. items # <<>> => h \in Nodes /\ z \in Nodes
  BY <1>4, ItemEnds
<1>7. n \notin Fragments => /\ items = <<n>> /\ h = n /\ z = n /\ Tree!ToSet(items) = {n}
                            /\ s = Tree!ReplaceItem(f.childNodes[p], i, <<n>>) /\ items # <<>>
  BY <1>3, ItemsAre, OneItem
<1> HIDE DEF e, done, begun, both, last, before, right, left, b, a, s, h, z, items
<1>8. a \in Holding /\ ChildrenSet(f, a, p, s)
  BY <1>2, <1>3, <1>5, WithChildrenSets
<1>9. b \in Holding /\ Adopted(a, b, p, items)
  BY <1>8, AdoptAdopts DEF b
<1>10. CASE items = <<>>
  BY <1>1, <1>7, <1>9, <1>10 DEF e, f, items
<1>11. CASE items # <<>>
  <2>1. h \in Nodes /\ z \in Nodes /\ h \in Link /\ z \in Link
    BY <1>6, <1>11 DEF Link
  <2>2. b.previousSibling = f.previousSibling /\ b.nextSibling = f.nextSibling
    BY <1>8, <1>9 DEF ChildrenSet, Adopted
  <2>3. left = Tree!FollowedBy(b, p, l, h)
    BY <2>2 DEF left
  <2> HIDE DEF l, r
  <2>4. left \in Holding /\ Follows(b, left, p, l, h)
    BY <1>4, <1>9, <2>1, <2>3, FollowedByFollows
  <2>5. right \in Link /\ n \in Link
    BY <2>4 DEF right, Holding, LinkOf, Link
  <2>6. right # NoNode => before \in Holding /\ PreviousSet(left, before, right, n)
    <3>1. SUFFICES ASSUME right # NoNode
                   PROVE  before \in Holding /\ PreviousSet(left, before, right, n)
      OBVIOUS
    <3>2. right \in Nodes
      BY <2>5, <3>1 DEF Link
    <3> QED
      BY <1>2, <2>4, <2>5, <3>2, WithPreviousSets
  <2>7. last \in Holding /\ LastSet(left, last, p, z)
    BY <1>2, <2>1, <2>4, WithLastSets
  <2>8. both \in Holding
    BY <2>6, <2>7 DEF both
  <2> DEFINE bl == both.previousSibling[old]
             br == begun.nextSibling[old]
  <2>9. bl \in Link
    BY <2>8 DEF Holding, LinkOf
  <2>10. begun \in Holding /\ PreviousSet(both, begun, h, bl)
    <3>1. begun = WithPrevious(both, h, bl)
      BY <1>2
    <3> HIDE DEF bl
    <3> QED
      BY <2>1, <2>8, <2>9, <3>1, WithPreviousSets
  <2>11. br \in Link
    BY <2>10 DEF Holding, LinkOf
  <2>12. done \in Holding /\ NextSet(begun, done, z, br)
    <3>1. done = WithNext(begun, z, br)
      BY <1>2
    <3> HIDE DEF br
    <3> QED
      BY <2>1, <2>10, <2>11, <3>1, WithNextSets
  <2>13. e = done
    BY <1>1, <1>11
  <2>14. both.parentNode = b.parentNode
    BY <2>4, <2>6, <2>7 DEF both, Follows, PreviousSet, LastSet
  <2>15. n \notin Fragments => Set(f.parentNode, e.parentNode, n, p)
    BY <1>7, <1>8, <1>9, <2>10, <2>12, <2>13, <2>14
       DEF ChildrenSet, Adopted, PreviousSet, NextSet, Set
  <2>16. ASSUME n \notin Fragments, n \notin {old, l, r}, old \notin {l, r}
         PROVE  Joined(f, e, p, n, s, l, r)
    <3>1. h = n /\ z = n
      BY <1>7, <2>16
    <3>2. right = r
      <4>1. Set(f.nextSibling, left.nextSibling, l, h)
        BY <2>2, <2>4 DEF Follows
      <4> QED
        BY <2>16, <4>1 DEF right, r, Set
    <3>3. Precedes(left, both, p, r, n)
      <4>1. CASE r = NoNode
        <5>1. both = last
          BY <3>2, <4>1 DEF both
        <5> QED
          BY <2>7, <3>1, <4>1, <5>1, NodesAreFinite DEF LastSet, Precedes, Set
      <4>2. CASE r # NoNode
        <5>1. both = before
          BY <3>2, <4>2 DEF both
        <5> QED
          BY <2>6, <3>2, <4>2, <5>1 DEF PreviousSet, Precedes
      <4> QED
        BY <4>1, <4>2
    <3>4. /\ Set(f.nextSibling, both.nextSibling, l, n)
          /\ Set(f.previousSibling, both.previousSibling, r, n)
          /\ l = NoNode => Set(f.firstChild, both.firstChild, p, n)
          /\ l # NoNode => both.firstChild = f.firstChild
          /\ r = NoNode => Set(f.lastChild, both.lastChild, p, n)
          /\ r # NoNode => both.lastChild = f.lastChild
          /\ Set(f.childNodes, both.childNodes, p, s)
      BY <1>8, <1>9, <2>4, <3>1, <3>3 DEF ChildrenSet, Adopted, Follows, Precedes, Set
    <3>5. bl = l
      BY <2>16, <3>4 DEF Set, l
    <3>6. begun.nextSibling = both.nextSibling
      BY <2>10 DEF PreviousSet
    <3>7. br = r
      BY <2>16, <3>4, <3>6 DEF Set, r
    <3> HIDE DEF bl, br
    <3>8. /\ Set(both.previousSibling, e.previousSibling, n, l)
          /\ Set(both.nextSibling, e.nextSibling, n, r)
          /\ e.childNodes = both.childNodes /\ e.firstChild = both.firstChild
          /\ e.lastChild = both.lastChild
      BY <2>10, <2>12, <2>13, <3>1, <3>5, <3>7 DEF PreviousSet, NextSet
    <3>9. \A x \in Nodes :
            /\ e.nextSibling[x] = IF x = n THEN r ELSE IF x = l THEN n ELSE f.nextSibling[x]
            /\ e.previousSibling[x] = IF x = n THEN l ELSE IF x = r THEN n
                                      ELSE f.previousSibling[x]
      BY <3>4, <3>8 DEF Set
    <3> QED
      BY <2>15, <2>16, <3>4, <3>8, <3>9 DEF Joined
  <2> QED
    BY <1>7, <1>11, <2>12, <2>13, <2>15, <2>16 DEF e, f, items, i, l, r
<1> QED
  BY <1>10, <1>11

(* Who is listed has its parent's links.                                   *)
LEMMA ListedIs ==
    ASSUME NEW d \in Holding, NEW lost, Agree(d, lost), NEW p \in Nodes
    PROVE  /\ d.childNodes[p] \in Seq(Nodes)
           /\ \A x \in Nodes : Listed(d, p, x) => d.parentNode[x] = p /\ x \notin lost
  BY DEF Agree, Matches, Listed, Holding

LEMMA NeighboursAre ==
    ASSUME NEW s \in Seq(Nodes), NEW k \in 1 .. Len(s)
    PROVE  /\ Before(s, k) \in Link /\ Behind(s, k) \in Link /\ s[k] \in Nodes
           /\ Before(s, k) = NoNode <=> k = 1
           /\ Behind(s, k) = NoNode <=> k = Len(s)
           /\ k # 1 => k - 1 \in 1 .. Len(s) /\ Before(s, k) = s[k - 1]
           /\ k # Len(s) => k + 1 \in 1 .. Len(s) /\ Behind(s, k) = s[k + 1]
<1>1. k # 1 => k - 1 \in 1 .. Len(s)
  OBVIOUS
<1>2. k # Len(s) => k + 1 \in 1 .. Len(s)
  OBVIOUS
<1> QED
  BY <1>1, <1>2, NodesAreFinite DEF Before, Behind, Link

(* What happens in one list changes nothing of the others.                 *)
LEMMA OthersMatch ==
    ASSUME NEW d \in Holding, NEW lost, Agree(d, lost), NEW p \in Nodes, NEW e,
           NEW q \in Nodes \ {p}, e.childNodes[q] = d.childNodes[q],
           e.firstChild[q] = d.firstChild[q], e.lastChild[q] = d.lastChild[q],
           \A x \in Nodes : d.parentNode[x] = q =>
              /\ e.parentNode[x] = q
              /\ e.previousSibling[x] = d.previousSibling[x]
              /\ e.nextSibling[x] = d.nextSibling[x]
    PROVE  Matches(e, q, e.childNodes[q])
<1> DEFINE s == d.childNodes[q]
<1>1. Matches(d, q, s) /\ s \in Seq(Nodes)
  BY DEF Agree, Holding
<1>2. e.childNodes[q] = s
  OBVIOUS
<1> HIDE DEF s
<1>3. \A i \in 1 .. Len(s) : s[i] \in Nodes
  BY <1>1
<1>4. Matches(e, q, s)
  BY <1>1, <1>3 DEF Matches, Ends
<1> QED
  BY <1>2, <1>4

(* A child that leaves a list leaves the tree.                             *)
LEMMA TakenMatches ==
    ASSUME NEW d \in Holding, NEW p \in Nodes, NEW s \in Seq(Nodes), Matches(d, p, s),
           NEW k \in 1 .. Len(s), NEW n, n = s[k], NEW e \in Holding, Taken(d, e, p, n)
    PROVE  Matches(e, p, RemoveAt(s, k))
<1> DEFINE t == RemoveAt(s, k)
           l == Before(s, k)
           r == Behind(s, k)
           At(i) == IF i < k THEN i ELSE i + 1
<1>1. /\ Len(s) \in Nat /\ k \in Nat /\ k >= 1 /\ k <= Len(s)
      /\ t \in Seq(Nodes) /\ Len(t) = Len(s) - 1
      /\ \A i \in 1 .. Len(s) - 1 : t[i] = IF i < k THEN s[i] ELSE s[i + 1]
  <2>1. Len(s) \in Nat /\ k \in Nat /\ k >= 1 /\ k <= Len(s)
    OBVIOUS
  <2>2. /\ RemoveAt(s, k) \in Seq(Nodes) /\ Len(RemoveAt(s, k)) = Len(s) - 1
        /\ \A i \in 1 .. Len(s) - 1 :
              RemoveAt(s, k)[i] = IF i < k THEN s[i] ELSE s[i + 1]
    BY RemoveAtList
  <2> QED
    BY <2>1, <2>2
<1> HIDE DEF t
<1>2. /\ n \in Nodes /\ d.previousSibling[n] = l /\ d.nextSibling[n] = r /\ Different(s)
      /\ Ends(d, p, s)
  BY DEF Matches
<1>3. \A i \in 1 .. Len(t) : /\ At(i) \in 1 .. Len(s) /\ At(i) # k /\ t[i] = s[At(i)]
                             /\ s[At(i)] # n /\ s[At(i)] \in Nodes
  BY <1>1, <1>2 DEF Different
<1>4. Different(t)
  BY <1>1, <1>2, <1>3 DEF Different
<1>5. \A i \in 1 .. Len(t) : e.parentNode[t[i]] = p
  BY <1>3 DEF Taken, Set, Matches
<1>6. ASSUME NEW i \in 1 .. Len(t)
      PROVE  e.previousSibling[t[i]] = Before(t, i)
  <2>1. d.previousSibling[t[i]] = Before(s, At(i))
    BY <1>3 DEF Matches
  <2>2. e.previousSibling[t[i]] = IF t[i] = r THEN l ELSE d.previousSibling[t[i]]
    BY <1>2, <1>3 DEF Taken
  <2>3. t[i] = r <=> i = k
    <3>1. CASE k = Len(s)
      BY <1>1, <1>3, <3>1, NodesAreFinite DEF Behind
    <3>2. CASE k # Len(s)
      <4>1. r = s[k + 1] /\ k + 1 \in 1 .. Len(s)
        BY <1>1, <3>2 DEF Behind
      <4>2. s[At(i)] = s[k + 1] <=> At(i) = k + 1
        BY <1>2, <1>3, <4>1 DEF Different
      <4>3. At(i) = k + 1 <=> i = k
        BY <1>1
      <4> QED
        BY <1>3, <4>1, <4>2, <4>3
    <3> QED
      BY <3>1, <3>2
  <2>4. CASE i = k
    <3>1. e.previousSibling[t[i]] = l
      BY <2>2, <2>3, <2>4
    <3>2. l = Before(t, k)
      BY <1>1, <2>4 DEF Before
    <3> QED
      BY <2>4, <3>1, <3>2
  <2>5. CASE i # k
    <3>1. e.previousSibling[t[i]] = Before(s, At(i))
      BY <2>1, <2>2, <2>3, <2>5
    <3>2. CASE i = 1
      <4>1. At(i) = 1
        BY <1>1, <2>5, <3>2
      <4> QED
        BY <3>1, <3>2, <4>1 DEF Before
    <3>3. CASE i # 1
      <4>1. i - 1 \in 1 .. Len(t) /\ At(i - 1) = At(i) - 1 /\ At(i) # 1
        BY <1>1, <2>5, <3>3
      <4>2. t[i - 1] = s[At(i) - 1]
        BY <1>3, <4>1
      <4> QED
        BY <3>1, <3>3, <4>1, <4>2 DEF Before
    <3> QED
      BY <3>2, <3>3
  <2> QED
    BY <2>4, <2>5
<1>7. ASSUME NEW i \in 1 .. Len(t)
      PROVE  e.nextSibling[t[i]] = Behind(t, i)
  <2>1. d.nextSibling[t[i]] = Behind(s, At(i))
    BY <1>3 DEF Matches
  <2>2. e.nextSibling[t[i]] = IF t[i] = l THEN r ELSE d.nextSibling[t[i]]
    BY <1>2, <1>3 DEF Taken
  <2>3. t[i] = l <=> i = k - 1
    <3>1. CASE k = 1
      BY <1>1, <1>3, <3>1, NodesAreFinite DEF Before
    <3>2. CASE k # 1
      <4>1. l = s[k - 1] /\ k - 1 \in 1 .. Len(s)
        BY <1>1, <3>2 DEF Before
      <4>2. s[At(i)] = s[k - 1] <=> At(i) = k - 1
        BY <1>2, <1>3, <4>1 DEF Different
      <4>3. At(i) = k - 1 <=> i = k - 1
        BY <1>1
      <4> QED
        BY <1>3, <4>1, <4>2, <4>3
    <3> QED
      BY <3>1, <3>2
  <2>4. CASE i = k - 1
    <3>1. e.nextSibling[t[i]] = r
      BY <2>2, <2>3, <2>4
    <3>2. r = Behind(t, i)
      BY <1>1, <2>4 DEF Behind
    <3> QED
      BY <3>1, <3>2
  <2>5. CASE i # k - 1
    <3>1. e.nextSibling[t[i]] = Behind(s, At(i))
      BY <2>1, <2>2, <2>3, <2>5
    <3>2. CASE i = Len(t)
      <4>1. At(i) = Len(s)
        BY <1>1, <2>5, <3>2
      <4> QED
        BY <3>1, <3>2, <4>1 DEF Behind
    <3>3. CASE i # Len(t)
      <4>1. i + 1 \in 1 .. Len(t) /\ At(i + 1) = At(i) + 1 /\ At(i) # Len(s)
        BY <1>1, <2>5, <3>3
      <4>2. t[i + 1] = s[At(i) + 1]
        BY <1>3, <4>1
      <4> QED
        BY <3>1, <3>3, <4>1, <4>2 DEF Behind
    <3> QED
      BY <3>2, <3>3
  <2> QED
    BY <2>4, <2>5
<1>8. e.firstChild[p] = IF t = <<>> THEN NoNode ELSE t[1]
  <2>1. t = <<>> <=> Len(s) = 1
    BY <1>1
  <2>2. s # <<>> /\ d.firstChild[p] = s[1]
    BY <1>1, <1>2 DEF Ends
  <2>3. CASE k = 1
    <3>1. e.firstChild[p] = r
      BY <1>2, <2>3 DEF Taken, Before, Set
    <3>2. Len(s) # 1 => r = s[2] /\ t[1] = s[2]
      BY <1>1, <2>3 DEF Behind
    <3>3. Len(s) = 1 => r = NoNode
      BY <2>3 DEF Behind
    <3> QED
      BY <2>1, <3>1, <3>2, <3>3
  <2>4. CASE k # 1
    <3>1. l # NoNode
      BY <2>4, NeighboursAre
    <3>2. e.firstChild[p] = s[1]
      BY <1>2, <2>2, <3>1 DEF Taken
    <3>3. Len(s) # 1 /\ t[1] = s[1]
      BY <1>1, <2>4
    <3> QED
      BY <2>1, <3>2, <3>3
  <2> QED
    BY <2>3, <2>4
<1>9. e.lastChild[p] = IF t = <<>> THEN NoNode ELSE t[Len(t)]
  <2>1. t = <<>> <=> Len(s) = 1
    BY <1>1
  <2>2. s # <<>> /\ d.lastChild[p] = s[Len(s)]
    BY <1>1, <1>2 DEF Ends
  <2>3. CASE k = Len(s)
    <3>1. e.lastChild[p] = l
      BY <1>2, <2>3 DEF Taken, Behind, Set
    <3>2. Len(s) # 1 => l = s[Len(s) - 1] /\ t[Len(t)] = s[Len(s) - 1]
      BY <1>1, <2>3 DEF Before
    <3>3. Len(s) = 1 => l = NoNode
      BY <2>3 DEF Before
    <3> QED
      BY <2>1, <3>1, <3>2, <3>3
  <2>4. CASE k # Len(s)
    <3>1. r # NoNode
      BY <2>4, NeighboursAre
    <3>2. e.lastChild[p] = s[Len(s)]
      BY <1>2, <2>2, <3>1 DEF Taken
    <3>3. Len(s) # 1 /\ t[Len(t)] = s[Len(s)]
      BY <1>1, <2>4
    <3> QED
      BY <2>1, <3>2, <3>3
  <2> QED
    BY <2>3, <2>4
<1> QED
  BY <1>4, <1>5, <1>6, <1>7, <1>8, <1>9 DEF Matches, Ends, t

LEMMA TakenAgrees ==
    ASSUME NEW d \in Holding, NEW lost \in SUBSET Nodes, Agree(d, lost),
           NEW p \in Nodes, NEW n \in Nodes, Listed(d, p, n),
           NEW e \in Holding, Taken(d, e, p, n)
    PROVE  /\ Agree(e, lost) /\ e.parentNode[n] = NoNode
           /\ \E k \in 1 .. Len(d.childNodes[p]) :
                 d.childNodes[p][k] = n /\ e.childNodes[p] = RemoveAt(d.childNodes[p], k)
<1> DEFINE s == d.childNodes[p]
<1>1. s \in Seq(Nodes) /\ Matches(d, p, s)
  BY DEF Holding, Agree
<1>2. PICK k \in 1 .. Len(s) : s[k] = n
  BY DEF Listed
<1> DEFINE t == RemoveAt(s, k)
           l == Before(s, k)
           r == Behind(s, k)
<1>3. e.childNodes[p] = t
  <2>1. Tree!RemoveFirst(s, n) = t
    <3>1. Different(s)
      BY <1>1 DEF Matches
    <3> HIDE DEF s
    <3> QED
      BY <1>1, <1>2, <3>1, RemoveFirstIs
  <2> QED
    BY <2>1 DEF Taken, Set
<1>4. d.previousSibling[n] = l /\ d.nextSibling[n] = r /\ d.parentNode[n] = p
  BY <1>1, <1>2 DEF Matches
<1>5. \A x \in Nodes : x = l \/ x = r \/ x = n => d.parentNode[x] = p
  <2>1. /\ k # 1 => k - 1 \in 1 .. Len(s) /\ l = s[k - 1]
        /\ k # Len(s) => k + 1 \in 1 .. Len(s) /\ r = s[k + 1]
        /\ l = NoNode <=> k = 1
        /\ r = NoNode <=> k = Len(s)
    <3> HIDE DEF s
    <3> QED
      BY <1>1, NeighboursAre
  <2> HIDE DEF l, r, s
  <2> QED
    BY <1>1, <1>4, <2>1, NodesAreFinite DEF Matches
<1>6. Matches(e, p, t)
  <2> HIDE DEF s
  <2> QED
    BY <1>1, <1>2, TakenMatches
<1>7. \A x \in 1 .. Len(t) : \E i \in 1 .. Len(s) : i # k /\ t[x] = s[i]
  <2>1. /\ Len(t) = Len(s) - 1
        /\ \A i \in 1 .. Len(s) - 1 : t[i] = IF i < k THEN s[i] ELSE s[i + 1]
    <3> HIDE DEF s
    <3> QED
      BY <1>1, RemoveAtList
  <2> HIDE DEF t, s
  <2> QED
    BY <1>1, <2>1
<1>8. \A i \in 1 .. Len(s) : i # k => \E x \in 1 .. Len(t) : t[x] = s[i]
  <2>1. /\ Len(t) = Len(s) - 1
        /\ \A i \in 1 .. Len(s) - 1 : t[i] = IF i < k THEN s[i] ELSE s[i + 1]
    <3> HIDE DEF s
    <3> QED
      BY <1>1, RemoveAtList
  <2> HIDE DEF t, s
  <2> SUFFICES ASSUME NEW i \in 1 .. Len(s), i # k PROVE \E x \in 1 .. Len(t) : t[x] = s[i]
    OBVIOUS
  <2>2. CASE i < k
    <3>1. i \in 1 .. Len(t) /\ t[i] = s[i]
      BY <1>1, <2>1, <2>2
    <3> QED
      BY <3>1
  <2>3. CASE i > k
    <3>1. i - 1 \in 1 .. Len(t) /\ t[i - 1] = s[i]
      BY <1>1, <2>1, <2>3
    <3> QED
      BY <3>1
  <2> QED
    BY <1>1, <2>2, <2>3
<1>9. \A x \in Nodes : Listed(e, p, x) <=> Listed(d, p, x) /\ x # n
  <2>1. Different(s)
    BY <1>1 DEF Matches
  <2> HIDE DEF t, s, l, r
  <2>2. \A x \in Nodes : Listed(d, p, x) <=> \E i \in 1 .. Len(s) : s[i] = x
    BY DEF Listed, s
  <2>3. \A x \in Nodes : Listed(e, p, x) <=> \E i \in 1 .. Len(t) : t[i] = x
    BY <1>3 DEF Listed
  <2>4. \A i \in 1 .. Len(s) : s[i] = n <=> i = k
    BY <1>2, <2>1 DEF Different
  <2> SUFFICES ASSUME NEW x \in Nodes
               PROVE  Listed(e, p, x) <=> Listed(d, p, x) /\ x # n
    OBVIOUS
  <2>5. ASSUME Listed(e, p, x) PROVE Listed(d, p, x) /\ x # n
    <3>1. PICK j \in 1 .. Len(t) : t[j] = x
      BY <2>3, <2>5
    <3>2. PICK i \in 1 .. Len(s) : i # k /\ t[j] = s[i]
      BY <1>7
    <3> QED
      BY <2>2, <2>4, <3>1, <3>2
  <2>6. ASSUME Listed(d, p, x), x # n PROVE Listed(e, p, x)
    <3>1. PICK i \in 1 .. Len(s) : s[i] = x
      BY <2>2, <2>6
    <3>2. i # k
      BY <2>4, <2>6, <3>1
    <3> QED
      BY <1>8, <2>3, <3>1, <3>2
  <2> QED
    BY <2>5, <2>6
<1> HIDE DEF s, t, l, r
<1>10. \A q \in Nodes \ {p} : e.childNodes[q] = d.childNodes[q]
  BY DEF Taken, Set
<1>11. \A q \in Nodes \ {p} : \A x \in Nodes : Listed(e, q, x) <=> Listed(d, q, x)
  BY <1>10 DEF Listed
<1>12. /\ \A x \in Nodes : x # n => e.parentNode[x] = d.parentNode[x]
       /\ e.parentNode[n] = NoNode /\ e.nextSibling[n] = NoNode
       /\ e.previousSibling[n] = NoNode
       /\ \A x \in Nodes : d.parentNode[x] # p =>
             /\ e.previousSibling[x] = d.previousSibling[x]
             /\ e.nextSibling[x] = d.nextSibling[x]
  BY <1>4, <1>5 DEF Taken, Set
<1>13. \A q \in Nodes \ {p} : /\ e.firstChild[q] = d.firstChild[q]
                              /\ e.lastChild[q] = d.lastChild[q]
  BY <1>4 DEF Taken, Set
<1>14. \A q \in Nodes : Matches(e, q, e.childNodes[q])
  <2> SUFFICES ASSUME NEW q \in Nodes \ {p} PROVE Matches(e, q, e.childNodes[q])
    BY <1>3, <1>6
  <2>1. \A x \in Nodes : d.parentNode[x] = q => x # n /\ d.parentNode[x] # p
    BY <1>4
  <2> QED
    BY <1>10, <1>12, <1>13, <2>1, OthersMatch
<1>15. Agree(e, lost)
  <2>1. \A x \in Nodes \ lost : e.parentNode[x] # NoNode => Listed(e, e.parentNode[x], x)
    <3> SUFFICES ASSUME NEW x \in Nodes \ lost, e.parentNode[x] # NoNode
                 PROVE  Listed(e, e.parentNode[x], x)
      OBVIOUS
    <3>1. x # n /\ e.parentNode[x] = d.parentNode[x]
      BY <1>12
    <3>2. Listed(d, d.parentNode[x], x)
      BY <3>1 DEF Agree
    <3>3. d.parentNode[x] \in Nodes
      BY <3>1 DEF Holding, LinkOf, Link
    <3> QED
      BY <1>9, <1>11, <3>1, <3>2, <3>3
  <2>2. \A x \in lost : e.parentNode[x] # NoNode /\ \A q \in Nodes : ~Listed(e, q, x)
    BY <1>9, <1>11, <1>12 DEF Agree
  <2>3. \A x \in Nodes : e.parentNode[x] = NoNode =>
           e.previousSibling[x] = NoNode /\ e.nextSibling[x] = NoNode
    BY <1>12, NodesAreFinite DEF Agree
  <2> QED
    BY <1>14, <2>1, <2>2, <2>3 DEF Agree
<1> QED
  BY <1>2, <1>3, <1>12, <1>15 DEF s, t

(* A list whose links are right but around its k-th child.                 *)
Around(d, p, t, k) ==
    /\ \A i \in 1 .. Len(t) : i # k =>
          /\ d.parentNode[t[i]] = p
          /\ i # k + 1 => d.previousSibling[t[i]] = Before(t, i)
          /\ i # k - 1 => d.nextSibling[t[i]] = Behind(t, i)
    /\ k # 1 => d.firstChild[p] = t[1]
    /\ k # Len(t) => d.lastChild[p] = t[Len(t)]

LEMMA JoinedMatches ==
    ASSUME NEW d \in Holding, NEW p \in Nodes, NEW t \in Seq(Nodes), NEW k \in 1 .. Len(t),
           Different(t), Around(d, p, t, k), NEW e,
           Joined(d, e, p, t[k], t, Before(t, k), Behind(t, k))
    PROVE  Matches(e, p, t)
<1> DEFINE l == Before(t, k)
           r == Behind(t, k)
           n == t[k]
<1>1. /\ Len(t) \in Nat /\ k \in Nat /\ k >= 1 /\ k <= Len(t)
      /\ \A i \in 1 .. Len(t) : t[i] \in Nodes
  OBVIOUS
<1>2. /\ l \in Link /\ r \in Link /\ n \in Nodes
      /\ l = NoNode <=> k = 1
      /\ r = NoNode <=> k = Len(t)
      /\ k # 1 => k - 1 \in 1 .. Len(t) /\ l = t[k - 1]
      /\ k # Len(t) => k + 1 \in 1 .. Len(t) /\ r = t[k + 1]
  BY NeighboursAre
<1>3. \A i \in 1 .. Len(t) : i # k => t[i] # n
  BY DEF Different
<1>4. \A i \in 1 .. Len(t) : t[i] = l <=> i = k - 1
  BY <1>1, <1>2, NodesAreFinite DEF Different
<1>5. \A i \in 1 .. Len(t) : t[i] = r <=> i = k + 1
  BY <1>1, <1>2, NodesAreFinite DEF Different
<1>6. /\ \A x \in Nodes :
            /\ e.nextSibling[x] = IF x = n THEN r ELSE IF x = l THEN n ELSE d.nextSibling[x]
            /\ e.previousSibling[x] = IF x = n THEN l
                                      ELSE IF x = r THEN n ELSE d.previousSibling[x]
      /\ Set(d.parentNode, e.parentNode, n, p)
      /\ l = NoNode => Set(d.firstChild, e.firstChild, p, n)
      /\ l # NoNode => e.firstChild = d.firstChild
      /\ r = NoNode => Set(d.lastChild, e.lastChild, p, n)
      /\ r # NoNode => e.lastChild = d.lastChild
  BY DEF Joined
<1>7. Before(t, k + 1) = n /\ Behind(t, k - 1) = n
  BY <1>1 DEF Before, Behind
<1>8. l = Before(t, k) /\ r = Behind(t, k)
  OBVIOUS
<1> HIDE DEF l, r, n
<1>9. ASSUME NEW i \in 1 .. Len(t)
      PROVE  /\ e.parentNode[t[i]] = p
             /\ e.previousSibling[t[i]] = Before(t, i)
             /\ e.nextSibling[t[i]] = Behind(t, i)
  <2>1. CASE i = k
    BY <1>1, <1>6, <1>8, <2>1 DEF n, Set
  <2>2. CASE i # k
    <3>1. t[i] # n /\ t[i] \in Nodes
      BY <1>1, <1>3, <2>2
    <3>2. e.parentNode[t[i]] = p
      BY <1>6, <2>2, <3>1 DEF Around, Set
    <3>3. e.previousSibling[t[i]] = Before(t, i)
      BY <1>5, <1>6, <1>7, <2>2, <3>1 DEF Around
    <3>4. e.nextSibling[t[i]] = Behind(t, i)
      BY <1>4, <1>6, <1>7, <2>2, <3>1 DEF Around
    <3> QED
      BY <3>2, <3>3, <3>4
  <2> QED
    BY <2>1, <2>2
<1>10. Ends(e, p, t)
  <2>1. t # <<>>
    BY <1>1
  <2>2. e.firstChild[p] = t[1]
    BY <1>2, <1>6 DEF n, Around, Set
  <2>3. e.lastChild[p] = t[Len(t)]
    BY <1>2, <1>6 DEF n, Around, Set
  <2> QED
    BY <2>1, <2>2, <2>3 DEF Ends
<1> QED
  BY <1>9, <1>10 DEF Matches

(* A node without a parent joins a list; who leaves it for it is lost.     *)
Joins(d, e, p, t, k) == Joined(d, e, p, t[k], t, Before(t, k), Behind(t, k))
Fits(d, p, t, k, out) ==
    /\ Different(t) /\ Around(d, p, t, k) /\ d.parentNode[t[k]] = NoNode
    /\ \A m \in out : Listed(d, p, m)
    /\ \A m \in Nodes : Listed(d, p, m) => m \in out \/ \E i \in 1 .. Len(t) : t[i] = m
    /\ \A i \in 1 .. Len(t) : t[i] \notin out /\ (i # k => Listed(d, p, t[i]))

LEMMA JoinedAgrees ==
    ASSUME NEW d \in Holding, NEW lost \in SUBSET Nodes, Agree(d, lost),
           NEW p \in Nodes, NEW t \in Seq(Nodes), NEW k \in 1 .. Len(t),
           NEW e \in Holding, Joins(d, e, p, t, k),
           NEW out \in SUBSET Nodes, Fits(d, p, t, k, out)
    PROVE  Agree(e, lost \cup out)
<1>0. /\ Joined(d, e, p, t[k], t, Before(t, k), Behind(t, k))
      /\ Different(t) /\ Around(d, p, t, k) /\ d.parentNode[t[k]] = NoNode
      /\ \A m \in out : Listed(d, p, m)
      /\ \A m \in Nodes : Listed(d, p, m) => m \in out \/ \E i \in 1 .. Len(t) : t[i] = m
      /\ \A i \in 1 .. Len(t) : t[i] \notin out /\ (i # k => Listed(d, p, t[i]))
  BY DEF Joins, Fits
<1> DEFINE l == Before(t, k)
           r == Behind(t, k)
           n == t[k]
<1>1. /\ l \in Link /\ r \in Link /\ n \in Nodes
      /\ l = NoNode <=> k = 1
      /\ r = NoNode <=> k = Len(t)
      /\ k # 1 => k - 1 \in 1 .. Len(t) /\ l = t[k - 1]
      /\ k # Len(t) => k + 1 \in 1 .. Len(t) /\ r = t[k + 1]
  BY NeighboursAre
<1>2. Matches(e, p, t)
  BY <1>0, JoinedMatches
<1>3. \A i \in 1 .. Len(t) : t[i] \in Nodes
  OBVIOUS
<1>4. l # NoNode => l \in Nodes /\ d.parentNode[l] = p
  <2>1. SUFFICES ASSUME k # 1 PROVE l \in Nodes /\ d.parentNode[l] = p
    BY <1>1
  <2>2. k - 1 \in 1 .. Len(t) /\ k - 1 # k /\ l = t[k - 1]
    BY <1>1, <2>1
  <2> QED
    BY <1>0, <1>3, <2>2 DEF Around
<1>5. r # NoNode => r \in Nodes /\ d.parentNode[r] = p
  <2>1. SUFFICES ASSUME k # Len(t) PROVE r \in Nodes /\ d.parentNode[r] = p
    BY <1>1
  <2>2. k + 1 \in 1 .. Len(t) /\ k + 1 # k /\ r = t[k + 1]
    BY <1>1, <2>1
  <2> QED
    BY <1>0, <1>3, <2>2 DEF Around
<1> HIDE DEF l, r
<1>6. /\ Set(d.childNodes, e.childNodes, p, t)
      /\ Set(d.parentNode, e.parentNode, n, p)
      /\ \A x \in Nodes :
            /\ e.nextSibling[x] = IF x = n THEN r ELSE IF x = l THEN n ELSE d.nextSibling[x]
            /\ e.previousSibling[x] = IF x = n THEN l
                                      ELSE IF x = r THEN n ELSE d.previousSibling[x]
      /\ \A q \in Nodes \ {p} : /\ e.firstChild[q] = d.firstChild[q]
                                /\ e.lastChild[q] = d.lastChild[q]
  BY <1>0 DEF Joined, l, r, Set
<1>7. n = t[k] /\ d.parentNode[n] = NoNode
  BY <1>0
<1> HIDE DEF n
<1>8. /\ \A x \in Nodes : x # n => e.parentNode[x] = d.parentNode[x]
      /\ e.parentNode[n] = p
      /\ \A x \in Nodes : x # n /\ d.parentNode[x] # p =>
            /\ e.previousSibling[x] = d.previousSibling[x]
            /\ e.nextSibling[x] = d.nextSibling[x]
      /\ \A q \in Nodes \ {p} : e.childNodes[q] = d.childNodes[q]
      /\ e.childNodes[p] = t
  BY <1>1, <1>4, <1>5, <1>6, NodesAreFinite DEF Set
<1>9. \A q \in Nodes : Matches(e, q, e.childNodes[q])
  <2> SUFFICES ASSUME NEW q \in Nodes \ {p} PROVE Matches(e, q, e.childNodes[q])
    BY <1>2, <1>8
  <2>1. \A x \in Nodes : d.parentNode[x] = q => x # n /\ d.parentNode[x] # p
    BY <1>7, NodesAreFinite
  <2> QED
    BY <1>6, <1>8, <2>1, OthersMatch
<1>10. \A q \in Nodes \ {p} : \A x \in Nodes : Listed(e, q, x) <=> Listed(d, q, x)
  BY <1>8 DEF Listed
<1>11. \A x \in Nodes : Listed(e, p, x) <=> \E i \in 1 .. Len(t) : t[i] = x
  BY <1>8 DEF Listed
<1>12. Listed(e, p, n)
  BY <1>1, <1>7, <1>11
<1>13. ASSUME NEW x \in Nodes \ (lost \cup out), e.parentNode[x] # NoNode
       PROVE  Listed(e, e.parentNode[x], x)
  <2>1. CASE x = n
    BY <1>8, <1>12, <2>1
  <2>2. CASE x # n
    <3> DEFINE q == d.parentNode[x]
    <3>1. e.parentNode[x] = q /\ q \in Nodes /\ Listed(d, q, x)
      BY <1>8, <1>13, <2>2 DEF Agree, Holding, LinkOf, Link
    <3> HIDE DEF q
    <3>2. CASE q = p
      <4>1. \E i \in 1 .. Len(t) : t[i] = x
        BY <1>0, <1>13, <3>1, <3>2
      <4> QED
        BY <1>11, <3>1, <3>2, <4>1
    <3>3. CASE q # p
      BY <1>10, <3>1, <3>3
    <3> QED
      BY <3>2, <3>3
  <2> QED
    BY <2>1, <2>2
<1>14. ASSUME NEW x \in lost \cup out
       PROVE  e.parentNode[x] # NoNode /\ \A q \in Nodes : ~Listed(e, q, x)
  <2>1. CASE x \in lost
    <3>1. d.parentNode[x] # NoNode /\ \A q \in Nodes : ~Listed(d, q, x)
      BY <2>1 DEF Agree
    <3>2. x # n /\ e.parentNode[x] # NoNode
      BY <1>7, <1>8, <2>1, <3>1
    <3>3. \A i \in 1 .. Len(t) : t[i] # x
      <4> SUFFICES ASSUME NEW i \in 1 .. Len(t), t[i] = x PROVE FALSE
        OBVIOUS
      <4>1. i # k
        BY <1>7, <3>2
      <4> QED
        BY <1>0, <3>1, <4>1
    <3>4. ~Listed(e, p, x)
      BY <1>11, <2>1, <3>3
    <3> QED
      BY <1>10, <2>1, <3>1, <3>2, <3>4
  <2>2. CASE x \in out
    <3>1. Listed(d, p, x) /\ x \in Nodes
      BY <1>0, <2>2
    <3>2. d.parentNode[x] = p
      BY <3>1, ListedIs
    <3>3. x # n /\ e.parentNode[x] = p
      BY <1>7, <1>8, <3>1, <3>2, NodesAreFinite
    <3>4. ~Listed(e, p, x)
      BY <1>0, <1>11, <2>2, <3>1
    <3>5. ASSUME NEW q \in Nodes \ {p} PROVE ~Listed(d, q, x)
      BY <3>1, <3>2, ListedIs
    <3> QED
      BY <1>10, <3>1, <3>3, <3>4, <3>5, NodesAreFinite
  <2> QED
    BY <2>1, <2>2
<1>15. ASSUME NEW x \in Nodes, e.parentNode[x] = NoNode
       PROVE  e.previousSibling[x] = NoNode /\ e.nextSibling[x] = NoNode
  <2>1. x # n /\ d.parentNode[x] = NoNode /\ d.parentNode[x] # p
    BY <1>8, <1>15, NodesAreFinite
  <2> QED
    BY <1>8, <2>1 DEF Agree
<1> QED
  BY <1>9, <1>13, <1>14, <1>15 DEF Agree

(* One node more in a list, or another one.                                *)
Longer(s, t, k, n) ==
    /\ t \in Seq(Nodes) /\ Len(t) = Len(s) + 1
    /\ \A i \in 1 .. Len(s) + 1 : t[i] = IF i < k THEN s[i] ELSE IF i = k THEN n ELSE s[i - 1]
Exchange(s, t, k, n) ==
    /\ t \in Seq(Nodes) /\ Len(t) = Len(s)
    /\ \A i \in 1 .. Len(s) : t[i] = IF i = k THEN n ELSE s[i]

LEMMA AppendMakesLonger ==
    ASSUME NEW s \in Seq(Nodes), NEW n \in Nodes
    PROVE  Longer(s, s \o <<n>>, Len(s) + 1, n)
<1>1. /\ s \o <<n>> \in Seq(Nodes) /\ Len(s \o <<n>>) = Len(s) + 1
      /\ \A i \in 1 .. Len(s) + 1 : (s \o <<n>>)[i] = IF i <= Len(s) THEN s[i]
                                                      ELSE <<n>>[i - Len(s)]
  OBVIOUS
<1>2. \A i \in 1 .. Len(s) + 1 : (s \o <<n>>)[i] = IF i < Len(s) + 1 THEN s[i] ELSE n
  BY <1>1
<1> QED
  BY <1>1, <1>2 DEF Longer

LEMMA InsertMakesLonger ==
    ASSUME NEW s \in Seq(Nodes), NEW n \in Nodes, NEW k \in 1 .. Len(s) + 1
    PROVE  Longer(s, Tree!InsertItems(s, k, <<n>>), k, n)
<1> DEFINE low == SubSeq(s, 1, k - 1)
           high == SubSeq(s, k, Len(s))
<1>1. Len(s) \in Nat /\ k \in Int /\ k >= 1 /\ k <= Len(s) + 1
  OBVIOUS
<1>2. /\ low \in Seq(Nodes) /\ Len(low) = k - 1
      /\ \A i \in 1 .. k - 1 : low[i] = s[i]
  <2>1. /\ \A i \in 1 .. k - 1 : s[i] \in Nodes
        /\ 1 \in Int /\ k - 1 \in Int
    BY <1>1
  <2> QED BY <1>1, <2>1, SubSeqProperties
<1>3. /\ high \in Seq(Nodes) /\ Len(high) = Len(s) - k + 1
      /\ \A i \in 1 .. Len(s) - k + 1 : high[i] = s[k + i - 1]
  <2>1. /\ \A i \in k .. Len(s) : s[i] \in Nodes
        /\ Len(s) \in Int
    BY <1>1
  <2> QED BY <1>1, <2>1, SubSeqProperties
<1>4. Tree!InsertItems(s, k, <<n>>) = low \o <<n>> \o high
  BY DEF Tree!InsertItems
<1> HIDE DEF low, high
<1> DEFINE lown == low \o <<n>>
<1>5. /\ lown \in Seq(Nodes) /\ Len(lown) = k
      /\ \A i \in 1 .. k : lown[i] = IF i < k THEN s[i] ELSE n
  <2>1. Longer(low, lown, Len(low) + 1, n)
    BY <1>2, AppendMakesLonger
  <2>2. Len(low) + 1 = k
    BY <1>1, <1>2
  <2> HIDE DEF lown
  <2> QED
    BY <1>1, <1>2, <2>1, <2>2 DEF Longer
<1> HIDE DEF lown
<1> DEFINE t == lown \o high
<1>6. /\ t \in Seq(Nodes) /\ Len(t) = Len(s) + 1
      /\ \A i \in 1 .. Len(s) + 1 : t[i] = IF i <= k THEN lown[i] ELSE high[i - k]
  <2>1. /\ t \in Seq(Nodes) /\ Len(t) = Len(lown) + Len(high)
        /\ \A i \in 1 .. Len(lown) + Len(high) :
              t[i] = IF i <= Len(lown) THEN lown[i] ELSE high[i - Len(lown)]
    BY <1>3, <1>5, ConcatProperties
  <2>2. Len(lown) + Len(high) = Len(s) + 1
    BY <1>1, <1>3, <1>5
  <2> QED
    BY <1>5, <2>1, <2>2
<1> HIDE DEF t
<1>7. ASSUME NEW i \in 1 .. Len(s) + 1
      PROVE  t[i] = IF i < k THEN s[i] ELSE IF i = k THEN n ELSE s[i - 1]
  <2>1. CASE i <= k
    BY <1>1, <1>5, <1>6, <2>1
  <2>2. CASE i > k
    <3>1. i - k \in 1 .. Len(s) - k + 1 /\ k + (i - k) - 1 = i - 1
      BY <1>1, <2>2
    <3>2. high[i - k] = s[i - 1]
      BY <1>3, <3>1
    <3>3. t[i] = high[i - k] /\ ~(i < k) /\ i # k
      BY <1>1, <1>6, <2>2
    <3> QED
      BY <3>2, <3>3
  <2> QED
    BY <1>1, <2>1, <2>2
<1> QED
  BY <1>4, <1>6, <1>7 DEF Longer, t, lown

LEMMA ReplaceExchanges ==
    ASSUME NEW s \in Seq(Nodes), NEW n \in Nodes, NEW k \in 1 .. Len(s)
    PROVE  Exchange(s, Tree!ReplaceItem(s, k, <<n>>), k, n)
<1> DEFINE low == SubSeq(s, 1, k - 1)
           high == SubSeq(s, k + 1, Len(s))
<1>1. Len(s) \in Nat /\ k \in Int /\ k >= 1 /\ k <= Len(s)
  OBVIOUS
<1>2. /\ low \in Seq(Nodes) /\ Len(low) = k - 1
      /\ \A i \in 1 .. k - 1 : low[i] = s[i]
  <2>1. /\ \A i \in 1 .. k - 1 : s[i] \in Nodes
        /\ 1 \in Int /\ k - 1 \in Int
    BY <1>1
  <2> QED BY <1>1, <2>1, SubSeqProperties
<1>3. /\ high \in Seq(Nodes) /\ Len(high) = Len(s) - k
      /\ \A i \in 1 .. Len(s) - k : high[i] = s[k + i]
  <2>1. /\ \A i \in k + 1 .. Len(s) : s[i] \in Nodes
        /\ Len(s) \in Int /\ k + 1 \in Int
    BY <1>1
  <2> QED BY <1>1, <2>1, SubSeqProperties
<1>4. Tree!ReplaceItem(s, k, <<n>>) = low \o <<n>> \o high
  BY DEF Tree!ReplaceItem
<1> HIDE DEF low, high
<1> DEFINE lown == low \o <<n>>
<1>5. /\ lown \in Seq(Nodes) /\ Len(lown) = k
      /\ \A i \in 1 .. k : lown[i] = IF i < k THEN s[i] ELSE n
  <2>1. Longer(low, lown, Len(low) + 1, n)
    BY <1>2, AppendMakesLonger
  <2>2. Len(low) + 1 = k
    BY <1>1, <1>2
  <2> HIDE DEF lown
  <2> QED
    BY <1>1, <1>2, <2>1, <2>2 DEF Longer
<1> HIDE DEF lown
<1> DEFINE t == lown \o high
<1>6. /\ t \in Seq(Nodes) /\ Len(t) = Len(s)
      /\ \A i \in 1 .. Len(s) : t[i] = IF i <= k THEN lown[i] ELSE high[i - k]
  <2>1. /\ t \in Seq(Nodes) /\ Len(t) = Len(lown) + Len(high)
        /\ \A i \in 1 .. Len(lown) + Len(high) :
              t[i] = IF i <= Len(lown) THEN lown[i] ELSE high[i - Len(lown)]
    BY <1>3, <1>5, ConcatProperties
  <2>2. Len(lown) + Len(high) = Len(s)
    BY <1>1, <1>3, <1>5
  <2> QED
    BY <1>5, <2>1, <2>2
<1> HIDE DEF t
<1>7. ASSUME NEW i \in 1 .. Len(s)
      PROVE  t[i] = IF i = k THEN n ELSE s[i]
  <2>1. CASE i <= k
    BY <1>1, <1>5, <1>6, <2>1
  <2>2. CASE i > k
    <3>1. i - k \in 1 .. Len(s) - k /\ k + (i - k) = i
      BY <1>1, <2>2
    <3> QED
      BY <1>1, <1>3, <1>6, <2>2, <3>1
  <2> QED
    BY <1>1, <2>1, <2>2
<1> QED
  BY <1>4, <1>6, <1>7 DEF Exchange, t, lown

(* Around the new child of a list the others' links are still right.       *)
LEMMA LongerIsAround ==
    ASSUME NEW d \in Holding, NEW p \in Nodes, NEW s \in Seq(Nodes), Matches(d, p, s),
           NEW n \in Nodes, \A i \in 1 .. Len(s) : s[i] # n,
           NEW k \in 1 .. Len(s) + 1, NEW t, Longer(s, t, k, n)
    PROVE  /\ t \in Seq(Nodes) /\ k \in 1 .. Len(t) /\ t[k] = n
           /\ Different(t) /\ Around(d, p, t, k)
           /\ Before(t, k) = IF k = 1 THEN NoNode ELSE s[k - 1]
           /\ Behind(t, k) = IF k = Len(s) + 1 THEN NoNode ELSE s[k]
           /\ \A i \in 1 .. Len(t) : i # k => \E j \in 1 .. Len(s) : s[j] = t[i]
           /\ \A i \in 1 .. Len(s) : \E j \in 1 .. Len(t) : t[j] = s[i]
<1> DEFINE At(i) == IF i < k THEN i ELSE i - 1
<1>1. /\ t \in Seq(Nodes) /\ Len(t) = Len(s) + 1 /\ Len(s) \in Nat
      /\ k \in Int /\ k >= 1 /\ k <= Len(t)
      /\ \A i \in 1 .. Len(t) : t[i] = IF i = k THEN n ELSE s[At(i)]
      /\ \A i \in 1 .. Len(t) : i # k => At(i) \in 1 .. Len(s)
  BY DEF Longer
<1>2. Different(s) /\ Ends(d, p, s)
  BY DEF Matches
<1>3. Different(t)
  <2> SUFFICES ASSUME NEW i \in 1 .. Len(t), NEW j \in 1 .. Len(t), t[i] = t[j] PROVE i = j
    BY DEF Different
  <2>1. CASE i = k \/ j = k
    BY <1>1, <2>1
  <2>2. CASE i # k /\ j # k
    <3>1. At(i) = At(j)
      BY <1>1, <1>2, <2>2 DEF Different
    <3> QED
      BY <1>1, <2>2, <3>1
  <2> QED
    BY <2>1, <2>2
<1>4. ASSUME NEW i \in 1 .. Len(t), i # k
      PROVE  /\ d.parentNode[t[i]] = p
             /\ i # k + 1 => d.previousSibling[t[i]] = Before(t, i)
             /\ i # k - 1 => d.nextSibling[t[i]] = Behind(t, i)
  <2>1. At(i) \in 1 .. Len(s) /\ t[i] = s[At(i)]
    BY <1>1, <1>4
  <2>2. /\ d.parentNode[t[i]] = p /\ d.previousSibling[t[i]] = Before(s, At(i))
        /\ d.nextSibling[t[i]] = Behind(s, At(i))
    BY <2>1 DEF Matches
  <2>3. ASSUME i # k + 1 PROVE Before(s, At(i)) = Before(t, i)
    <3>1. CASE i = 1
      BY <1>1, <1>4, <3>1 DEF Before
    <3>2. CASE i # 1
      <4>1. i - 1 \in 1 .. Len(t) /\ i - 1 # k /\ At(i - 1) = At(i) - 1 /\ At(i) # 1
        BY <1>1, <1>4, <2>3, <3>2
      <4>2. t[i - 1] = s[At(i) - 1]
        BY <1>1, <4>1
      <4> QED
        BY <3>2, <4>1, <4>2 DEF Before
    <3> QED
      BY <3>1, <3>2
  <2>4. ASSUME i # k - 1 PROVE Behind(s, At(i)) = Behind(t, i)
    <3>1. CASE i = Len(t)
      BY <1>1, <1>4, <3>1 DEF Behind
    <3>2. CASE i # Len(t)
      <4>1. i + 1 \in 1 .. Len(t) /\ i + 1 # k /\ At(i + 1) = At(i) + 1 /\ At(i) # Len(s)
        BY <1>1, <1>4, <2>4, <3>2
      <4>2. t[i + 1] = s[At(i) + 1]
        BY <1>1, <4>1
      <4> QED
        BY <3>2, <4>1, <4>2 DEF Behind
    <3> QED
      BY <3>1, <3>2
  <2> QED
    BY <2>2, <2>3, <2>4
<1>5. k # 1 => d.firstChild[p] = t[1]
  <2> SUFFICES ASSUME k # 1 PROVE d.firstChild[p] = t[1]
    OBVIOUS
  <2>1. 1 \in 1 .. Len(t) /\ At(1) = 1 /\ s # <<>>
    BY <1>1
  <2> QED
    BY <1>1, <1>2, <2>1 DEF Ends
<1>6. k # Len(t) => d.lastChild[p] = t[Len(t)]
  <2> SUFFICES ASSUME k # Len(t) PROVE d.lastChild[p] = t[Len(t)]
    OBVIOUS
  <2>1. Len(t) \in 1 .. Len(t) /\ At(Len(t)) = Len(s) /\ s # <<>>
    BY <1>1
  <2> QED
    BY <1>1, <1>2, <2>1 DEF Ends
<1>7. /\ Before(t, k) = IF k = 1 THEN NoNode ELSE s[k - 1]
      /\ Behind(t, k) = IF k = Len(s) + 1 THEN NoNode ELSE s[k]
  BY <1>1 DEF Before, Behind
<1>8. ASSUME NEW i \in 1 .. Len(s) PROVE \E j \in 1 .. Len(t) : t[j] = s[i]
  <2>1. CASE i < k
    <3>1. i \in 1 .. Len(t) /\ t[i] = s[i]
      BY <1>1, <2>1
    <3> QED
      BY <3>1
  <2>2. CASE i >= k
    <3>1. i + 1 \in 1 .. Len(t) /\ i + 1 # k /\ At(i + 1) = i
      BY <1>1, <2>2
    <3>2. t[i + 1] = s[i]
      BY <1>1, <3>1
    <3> QED
      BY <3>1, <3>2
  <2> QED
    BY <1>1, <2>1, <2>2
<1>9. \A i \in 1 .. Len(t) : i # k => \E j \in 1 .. Len(s) : s[j] = t[i]
  BY <1>1
<1> QED
  BY <1>1, <1>3, <1>4, <1>5, <1>6, <1>7, <1>8, <1>9 DEF Around

LEMMA ExchangeIsAround ==
    ASSUME NEW d \in Holding, NEW p \in Nodes, NEW s \in Seq(Nodes), Matches(d, p, s),
           NEW n \in Nodes, \A i \in 1 .. Len(s) : s[i] # n,
           NEW k \in 1 .. Len(s), NEW t, Exchange(s, t, k, n)
    PROVE  /\ t \in Seq(Nodes) /\ k \in 1 .. Len(t) /\ t[k] = n
           /\ Different(t) /\ Around(d, p, t, k)
           /\ Before(t, k) = Before(s, k) /\ Behind(t, k) = Behind(s, k)
           /\ \A i \in 1 .. Len(t) : t[i] # s[k]
           /\ \A i \in 1 .. Len(t) : i # k => \E j \in 1 .. Len(s) : s[j] = t[i]
           /\ \A i \in 1 .. Len(s) : i # k => \E j \in 1 .. Len(t) : t[j] = s[i]
<1>1. /\ t \in Seq(Nodes) /\ Len(t) = Len(s) /\ Len(s) \in Nat
      /\ k \in Int /\ k >= 1 /\ k <= Len(t)
      /\ \A i \in 1 .. Len(t) : t[i] = IF i = k THEN n ELSE s[i]
  BY DEF Exchange
<1>2. Different(s) /\ Ends(d, p, s)
  BY DEF Matches
<1>3. Different(t) /\ \A i \in 1 .. Len(t) : t[i] # s[k]
  BY <1>1, <1>2 DEF Different
<1>4. ASSUME NEW i \in 1 .. Len(t), i # k
      PROVE  /\ d.parentNode[t[i]] = p
             /\ i # k + 1 => d.previousSibling[t[i]] = Before(t, i)
             /\ i # k - 1 => d.nextSibling[t[i]] = Behind(t, i)
  <2>1. /\ d.parentNode[t[i]] = p /\ d.previousSibling[t[i]] = Before(s, i)
        /\ d.nextSibling[t[i]] = Behind(s, i)
    BY <1>1, <1>4 DEF Matches
  <2>2. i # k + 1 => Before(s, i) = Before(t, i)
    <3>1. i # k + 1 /\ i # 1 => i - 1 \in 1 .. Len(t) /\ i - 1 # k
      BY <1>1
    <3> QED
      BY <1>1, <3>1 DEF Before
  <2>3. i # k - 1 => Behind(s, i) = Behind(t, i)
    <3>1. i # k - 1 /\ i # Len(t) => i + 1 \in 1 .. Len(t) /\ i + 1 # k
      BY <1>1
    <3> QED
      BY <1>1, <3>1 DEF Behind
  <2> QED
    BY <2>1, <2>2, <2>3
<1>5. k # 1 => d.firstChild[p] = t[1]
  BY <1>1, <1>2 DEF Ends
<1>6. k # Len(t) => d.lastChild[p] = t[Len(t)]
  BY <1>1, <1>2 DEF Ends
<1>7. Before(t, k) = Before(s, k) /\ Behind(t, k) = Behind(s, k)
  BY <1>1 DEF Before, Behind
<1> QED
  BY <1>1, <1>3, <1>4, <1>5, <1>6, <1>7 DEF Around

LEMMA ChildrenAreListed ==
    ASSUME NEW d \in Holding, NEW p \in Nodes, NEW n
    PROVE  n \in Tree!Children(d, p) <=> Listed(d, p, n)
<1>1. d.childNodes[p] \in Seq(Nodes)
  BY DEF Holding
<1> QED
  BY <1>1 DEF Tree!Children, Tree!ToSet, Listed

LEMMA FindItemIndexIs ==
    ASSUME NEW s \in Seq(Nodes), Different(s), NEW k \in 1 .. Len(s)
    PROVE  Tree!FindItemIndex(s, s[k]) = k
<1> DEFINE Place(i) == i \in 1 .. Len(s) /\ s[i] = s[k] /\ \A j \in 1 .. i - 1 : s[j] # s[k]
<1>1. Len(s) \in Nat /\ k \in Nat /\ k <= Len(s)
  OBVIOUS
<1>2. \A i : Place(i) <=> i = k
  <2>1. \A j \in 1 .. k - 1 : j \in 1 .. Len(s) /\ j # k
    BY <1>1
  <2> QED
    BY <2>1 DEF Different
<1>3. s[k] \in Tree!ToSet(s)
  BY DEF Tree!ToSet
<1>4. Tree!FindItemIndex(s, s[k]) = CHOOSE i : Place(i)
  <2>1. (CHOOSE i \in 1 .. Len(s) : s[i] = s[k] /\ \A j \in 1 .. i - 1 : s[j] # s[k])
            = CHOOSE i : Place(i)
    OBVIOUS
  <2> QED
    BY <1>3, <2>1 DEF Tree!FindItemIndex
<1> HIDE DEF Place
<1> QED
  BY <1>2, <1>4

(* Freeing a node moves none of the children before it.                    *)
LEMMA DetachAgrees ==
    ASSUME NEW d \in Holding, NEW lost \in SUBSET Nodes, Agree(d, lost),
           NEW n \in Nodes, ~Tree!Unlisted(d, n)
    PROVE  LET f == Tree!Detach(d, n)
           IN  /\ f \in Holding /\ Agree(f, lost) /\ f.parentNode[n] = NoNode
               /\ \A p \in Nodes : \A i \in 1 .. Len(d.childNodes[p]) :
                     (\A j \in 1 .. Len(d.childNodes[p]) : d.childNodes[p][j] = n => i < j)
                     => /\ i \in 1 .. Len(f.childNodes[p])
                        /\ f.childNodes[p][i] = d.childNodes[p][i]
<1> DEFINE f == Tree!Detach(d, n)
           q == d.parentNode[n]
<1>1. /\ f \in Holding
      /\ q = NoNode => f = d
      /\ q # NoNode => q \in Nodes /\ Taken(d, f, q, n)
  BY DetachIs
<1> HIDE DEF f
<1>2. CASE q = NoNode
  BY <1>1, <1>2 DEF f
<1>3. CASE q # NoNode
  <2>1. q \in Nodes /\ Taken(d, f, q, n)
    BY <1>1, <1>3
  <2>2. Listed(d, q, n)
    BY <1>3, <2>1, ChildrenAreListed DEF Tree!Unlisted
  <2> HIDE DEF q
  <2>3. /\ Agree(f, lost) /\ f.parentNode[n] = NoNode
        /\ \E k \in 1 .. Len(d.childNodes[q]) :
              d.childNodes[q][k] = n /\ f.childNodes[q] = RemoveAt(d.childNodes[q], k)
    BY <1>1, <2>1, <2>2, TakenAgrees
  <2>4. PICK k \in 1 .. Len(d.childNodes[q]) :
           d.childNodes[q][k] = n /\ f.childNodes[q] = RemoveAt(d.childNodes[q], k)
    BY <2>3
  <2>5. ASSUME NEW p \in Nodes, NEW i \in 1 .. Len(d.childNodes[p]),
               \A j \in 1 .. Len(d.childNodes[p]) : d.childNodes[p][j] = n => i < j
        PROVE  /\ i \in 1 .. Len(f.childNodes[p])
               /\ f.childNodes[p][i] = d.childNodes[p][i]
    <3>1. CASE p = q
      <4> DEFINE s == d.childNodes[q]
      <4>1. s \in Seq(Nodes) /\ k \in 1 .. Len(s) /\ i \in 1 .. Len(s) /\ i < k
        BY <2>1, <2>4, <2>5, <3>1 DEF Holding
      <4>2. f.childNodes[p] = RemoveAt(s, k) /\ d.childNodes[p] = s
        BY <2>4, <3>1
      <4> HIDE DEF s
      <4>3. /\ Len(RemoveAt(s, k)) = Len(s) - 1
            /\ \A x \in 1 .. Len(s) - 1 : RemoveAt(s, k)[x] = IF x < k THEN s[x] ELSE s[x + 1]
        BY <4>1, RemoveAtList
      <4> QED
        BY <4>1, <4>2, <4>3
    <3>2. CASE p # q
      <4>1. f.childNodes[p] = d.childNodes[p]
        BY <2>1, <3>2 DEF Taken, Set
      <4> QED
        BY <4>1
    <3> QED
      BY <3>1, <3>2
  <2> QED
    BY <1>1, <2>3, <2>5 DEF f
<1> QED
  BY <1>2, <1>3

LEMMA AppendAgrees ==
    ASSUME NEW d \in Holding, NEW lost \in SUBSET Nodes, Agree(d, lost),
           NEW p \in Nodes, NEW n \in Nodes \ Fragments, ~Tree!Unlisted(d, n)
    PROVE  Agree(Tree!Appended(d, p, n), lost)
<1> DEFINE e == Tree!Appended(d, p, n)
           f == Tree!Detach(d, n)
           s == f.childNodes[p]
           t == s \o <<n>>
           k == Len(s) + 1
<1>1. f \in Holding /\ Agree(f, lost) /\ f.parentNode[n] = NoNode
  BY DetachAgrees
<1>2. /\ e \in Holding
      /\ /\ f.lastChild[p] # n /\ f.nextSibling[n] = NoNode /\ f.previousSibling[n] = NoNode
         => Joined(f, e, p, n, t, f.lastChild[p], NoNode)
  BY AppendedIs
<1> HIDE DEF e, f
<1>3. s \in Seq(Nodes) /\ Matches(f, p, s) /\ Different(s)
  BY <1>1 DEF Holding, Agree, Matches
<1>4. \A i \in 1 .. Len(s) : s[i] # n
  BY <1>1, <1>3, NodesAreFinite DEF Matches
<1>5. f.nextSibling[n] = NoNode /\ f.previousSibling[n] = NoNode
  BY <1>1 DEF Agree
<1>6. f.lastChild[p] = IF k = 1 THEN NoNode ELSE s[k - 1]
  BY <1>3 DEF Matches, Ends
<1>7. f.lastChild[p] # n
  BY <1>3, <1>4, <1>6, NodesAreFinite
<1>8. \A m \in Nodes : Listed(f, p, m) <=> \E i \in 1 .. Len(s) : s[i] = m
  BY DEF Listed
<1> HIDE DEF s
<1>9. Longer(s, t, k, n) /\ k \in 1 .. Len(s) + 1
  BY <1>3, AppendMakesLonger
<1> HIDE DEF t
<1>10. Len(s) + 1 = k
  OBVIOUS
<1> HIDE DEF k
<1>11. /\ t \in Seq(Nodes) /\ k \in 1 .. Len(t) /\ t[k] = n
       /\ Different(t) /\ Around(f, p, t, k)
       /\ Before(t, k) = IF k = 1 THEN NoNode ELSE s[k - 1]
       /\ Behind(t, k) = IF k = Len(s) + 1 THEN NoNode ELSE s[k]
       /\ \A i \in 1 .. Len(t) : i # k => \E j \in 1 .. Len(s) : s[j] = t[i]
       /\ \A i \in 1 .. Len(s) : \E j \in 1 .. Len(t) : t[j] = s[i]
  BY <1>1, <1>3, <1>4, <1>9, LongerIsAround
<1>12. Joins(f, e, p, t, k)
  <2>1. Before(t, k) = f.lastChild[p] /\ Behind(t, k) = NoNode
    BY <1>6, <1>10, <1>11
  <2> QED
    BY <1>2, <1>5, <1>7, <1>11, <2>1 DEF Joins
<1>13. \A m \in Nodes : Listed(f, p, m) => \E i \in 1 .. Len(t) : t[i] = m
  BY <1>8, <1>11
<1>14. \A i \in 1 .. Len(t) : i # k => Listed(f, p, t[i])
  BY <1>8, <1>11
<1>15. Agree(e, lost \cup {})
  <2> DEFINE out == {}
  <2>1. f.parentNode[t[k]] = NoNode
    BY <1>1, <1>11
  <2>2. out \in SUBSET Nodes /\ Fits(f, p, t, k, out)
    BY <1>11, <1>13, <1>14, <2>1 DEF Fits
  <2> HIDE DEF out
  <2>3. f \in Holding /\ Agree(f, lost) /\ e \in Holding
    BY <1>1, <1>2
  <2>4. t \in Seq(Nodes) /\ k \in 1 .. Len(t)
    BY <1>11
  <2>5. Agree(e, lost \cup out)
    BY <1>12, <2>2, <2>3, <2>4, JoinedAgrees
  <2> QED
    BY <2>5 DEF out
<1>16. lost \cup {} = lost
  OBVIOUS
<1> QED
  BY <1>15, <1>16 DEF e

(* A node that does not come from before its place finds it where it was.  *)
LEMMA PlaceStays ==
    ASSUME NEW d \in Holding, NEW lost \in SUBSET Nodes, Agree(d, lost),
           NEW p \in Nodes, NEW n \in Nodes, ~Tree!Unlisted(d, n),
           NEW child \in Nodes, Listed(d, p, child), ~Tree!Shifts(d, p, n, child)
    PROVE  LET f == Tree!Detach(d, n)
               i == Tree!FindItemIndex(d.childNodes[p], child)
           IN  /\ f \in Holding /\ Agree(f, lost) /\ f.parentNode[n] = NoNode
               /\ i \in 1 .. Len(f.childNodes[p]) /\ f.childNodes[p][i] = child
<1> DEFINE f == Tree!Detach(d, n)
           s == d.childNodes[p]
           i == Tree!FindItemIndex(s, child)
<1>1. /\ f \in Holding /\ Agree(f, lost) /\ f.parentNode[n] = NoNode
      /\ \A k \in 1 .. Len(s) : (\A j \in 1 .. Len(s) : s[j] = n => k < j)
            => k \in 1 .. Len(f.childNodes[p]) /\ f.childNodes[p][k] = s[k]
  BY DetachAgrees
<1> HIDE DEF f
<1>2. s \in Seq(Nodes) /\ Different(s)
  BY DEF Agree, Matches, Holding
<1>3. PICK c \in 1 .. Len(s) : s[c] = child
  BY DEF Listed
<1>4. ASSUME NEW j \in 1 .. Len(s), s[j] = n PROVE i < j
  <2>1. n \in Tree!Children(d, p) /\ child \in Tree!Children(d, p)
    BY <1>4, ChildrenAreListed DEF Listed
  <2>2. ~(Tree!FindItemIndex(s, n) <= i)
    BY <2>1 DEF Tree!Shifts
  <2> HIDE DEF s
  <2>3. Tree!FindItemIndex(s, n) = j /\ Tree!FindItemIndex(s, child) = c
    BY <1>2, <1>3, <1>4, FindItemIndexIs
  <2> QED
    BY <1>2, <2>2, <2>3
<1>5. i = c
  <2> HIDE DEF s
  <2> QED
    BY <1>2, <1>3, FindItemIndexIs
<1> QED
  BY <1>1, <1>3, <1>4, <1>5 DEF f

LEMMA InsertAgrees ==
    ASSUME NEW d \in Holding, NEW lost \in SUBSET Nodes, Agree(d, lost),
           NEW p \in Nodes, NEW n \in Nodes \ Fragments, ~Tree!Unlisted(d, n),
           NEW ref \in Nodes, Listed(d, p, ref), ~Tree!Shifts(d, p, n, ref)
    PROVE  Agree(Tree!Inserted(d, p, n, ref), lost)
<1> DEFINE e == Tree!Inserted(d, p, n, ref)
           f == Tree!Detach(d, n)
           s == f.childNodes[p]
           k == Tree!FindItemIndex(d.childNodes[p], ref)
           t == Tree!InsertItems(s, k, <<n>>)
<1>1. /\ f \in Holding /\ Agree(f, lost) /\ f.parentNode[n] = NoNode
      /\ k \in 1 .. Len(s) /\ s[k] = ref
  BY PlaceStays
<1>2. /\ e \in Holding
      /\ ref # n /\ f.previousSibling[ref] # n
         => Joined(f, e, p, n, t, f.previousSibling[ref], ref)
  BY InsertedIs
<1> HIDE DEF e, f, k
<1>3. s \in Seq(Nodes) /\ Matches(f, p, s) /\ Different(s)
  BY <1>1 DEF Holding, Agree, Matches
<1>4. \A i \in 1 .. Len(s) : s[i] # n
  BY <1>1, <1>3, NodesAreFinite DEF Matches
<1>5. f.previousSibling[ref] = Before(s, k)
  BY <1>1, <1>3 DEF Matches
<1>8. \A m \in Nodes : Listed(f, p, m) <=> \E i \in 1 .. Len(s) : s[i] = m
  BY DEF Listed
<1> HIDE DEF s
<1>6. Before(s, k) # n /\ ref # n
  BY <1>1, <1>3, <1>4, NeighboursAre, NodesAreFinite
<1>9. Longer(s, t, k, n) /\ k \in 1 .. Len(s) + 1
  BY <1>1, <1>3, InsertMakesLonger
<1> HIDE DEF t
<1>11. /\ t \in Seq(Nodes) /\ k \in 1 .. Len(t) /\ t[k] = n
       /\ Different(t) /\ Around(f, p, t, k)
       /\ Before(t, k) = IF k = 1 THEN NoNode ELSE s[k - 1]
       /\ Behind(t, k) = IF k = Len(s) + 1 THEN NoNode ELSE s[k]
       /\ \A i \in 1 .. Len(t) : i # k => \E j \in 1 .. Len(s) : s[j] = t[i]
       /\ \A i \in 1 .. Len(s) : \E j \in 1 .. Len(t) : t[j] = s[i]
  BY <1>1, <1>3, <1>4, <1>9, LongerIsAround
<1>12. Joins(f, e, p, t, k)
  <2>1. Before(t, k) = Before(s, k)
    BY <1>11 DEF Before
  <2>2. Behind(t, k) = ref
    BY <1>1, <1>3, <1>11
  <2> QED
    BY <1>2, <1>5, <1>6, <1>11, <2>1, <2>2 DEF Joins
<1>13. \A m \in Nodes : Listed(f, p, m) => \E i \in 1 .. Len(t) : t[i] = m
  BY <1>8, <1>11
<1>14. \A i \in 1 .. Len(t) : i # k => Listed(f, p, t[i])
  BY <1>8, <1>11
<1>15. Agree(e, lost \cup {})
  <2> DEFINE out == {}
  <2>1. f.parentNode[t[k]] = NoNode
    BY <1>1, <1>11
  <2>2. out \in SUBSET Nodes /\ Fits(f, p, t, k, out)
    BY <1>11, <1>13, <1>14, <2>1 DEF Fits
  <2> HIDE DEF out
  <2>3. f \in Holding /\ Agree(f, lost) /\ e \in Holding
    BY <1>1, <1>2
  <2>4. t \in Seq(Nodes) /\ k \in 1 .. Len(t)
    BY <1>11
  <2>5. Agree(e, lost \cup out)
    BY <1>12, <2>2, <2>3, <2>4, JoinedAgrees
  <2> QED
    BY <2>5 DEF out
<1>16. lost \cup {} = lost
  OBVIOUS
<1> QED
  BY <1>15, <1>16 DEF e

LEMMA ExchangeAgrees ==
    ASSUME NEW d \in Holding, NEW lost \in SUBSET Nodes, Agree(d, lost),
           NEW p \in Nodes, NEW n \in Nodes \ Fragments, ~Tree!Unlisted(d, n),
           NEW old \in Nodes, Listed(d, p, old), ~Tree!Shifts(d, p, n, old)
    PROVE  Agree(Tree!Exchanged(d, p, n, old), lost \cup {old})
<1> DEFINE e == Tree!Exchanged(d, p, n, old)
           f == Tree!Detach(d, n)
           s == f.childNodes[p]
           k == Tree!FindItemIndex(d.childNodes[p], old)
           t == Tree!ReplaceItem(s, k, <<n>>)
           l == f.previousSibling[old]
           r == f.nextSibling[old]
<1>1. /\ f \in Holding /\ Agree(f, lost) /\ f.parentNode[n] = NoNode
      /\ k \in 1 .. Len(s) /\ s[k] = old
  BY PlaceStays
<1>2. e \in Holding /\ (n \notin {old, l, r} /\ old \notin {l, r} => Joined(f, e, p, n, t, l, r))
  BY ExchangedIs
<1> HIDE DEF e, f, k
<1>3. s \in Seq(Nodes) /\ Matches(f, p, s) /\ Different(s)
  BY <1>1 DEF Holding, Agree, Matches
<1>4. \A i \in 1 .. Len(s) : s[i] # n
  BY <1>1, <1>3, NodesAreFinite DEF Matches
<1>5. l = Before(s, k) /\ r = Behind(s, k)
  BY <1>1, <1>3 DEF Matches
<1>8. \A m \in Nodes : Listed(f, p, m) <=> \E i \in 1 .. Len(s) : s[i] = m
  BY DEF Listed
<1> HIDE DEF s, l, r
<1>6. n \notin {old, l, r} /\ old \notin {l, r}
  <2>1. /\ Before(s, k) = NoNode <=> k = 1
        /\ Behind(s, k) = NoNode <=> k = Len(s)
        /\ k # 1 => k - 1 \in 1 .. Len(s) /\ Before(s, k) = s[k - 1]
        /\ k # Len(s) => k + 1 \in 1 .. Len(s) /\ Behind(s, k) = s[k + 1]
    BY <1>1, <1>3, NeighboursAre
  <2>2. n \notin {old, l, r}
    BY <1>1, <1>4, <1>5, <2>1, NodesAreFinite
  <2>3. k - 1 # k /\ k + 1 # k
    BY <1>1, <1>3
  <2>4. old \notin {l, r}
    BY <1>1, <1>3, <1>5, <2>1, <2>3, NodesAreFinite DEF Different
  <2> QED
    BY <2>2, <2>4
<1>9. Exchange(s, t, k, n)
  BY <1>1, <1>3, ReplaceExchanges
<1> HIDE DEF t
<1>11. /\ t \in Seq(Nodes) /\ k \in 1 .. Len(t) /\ t[k] = n
       /\ Different(t) /\ Around(f, p, t, k)
       /\ Before(t, k) = Before(s, k) /\ Behind(t, k) = Behind(s, k)
       /\ \A i \in 1 .. Len(t) : t[i] # s[k]
       /\ \A i \in 1 .. Len(t) : i # k => \E j \in 1 .. Len(s) : s[j] = t[i]
       /\ \A i \in 1 .. Len(s) : i # k => \E j \in 1 .. Len(t) : t[j] = s[i]
  <2>1. f \in Holding /\ k \in 1 .. Len(s)
    BY <1>1
  <2>2. s \in Seq(Nodes) /\ Matches(f, p, s)
    BY <1>3
  <2> QED
    BY <1>4, <1>9, <2>1, <2>2, ExchangeIsAround
<1>12. Joins(f, e, p, t, k)
  BY <1>2, <1>5, <1>6, <1>11 DEF Joins
<1>13. \A m \in Nodes : Listed(f, p, m) => m = old \/ \E i \in 1 .. Len(t) : t[i] = m
  BY <1>1, <1>8, <1>11
<1>14. \A i \in 1 .. Len(t) : t[i] # old /\ (i # k => Listed(f, p, t[i]))
  BY <1>1, <1>8, <1>11
<1>15. f.parentNode[t[k]] = NoNode
  BY <1>1, <1>11
<1>16. Listed(f, p, old)
  BY <1>1, <1>8
<1> DEFINE out == {old}
<1>17. out \in SUBSET Nodes /\ Fits(f, p, t, k, out)
  BY <1>11, <1>13, <1>14, <1>15, <1>16 DEF Fits
<1> HIDE DEF out
<1>18. f \in Holding /\ Agree(f, lost) /\ e \in Holding
  BY <1>1, <1>2
<1>19. t \in Seq(Nodes) /\ k \in 1 .. Len(t)
  BY <1>11
<1>20. Agree(e, lost \cup out)
  BY <1>12, <1>17, <1>18, <1>19, JoinedAgrees
<1> QED
  BY <1>20 DEF e, out

LEMMA EmptyStays ==
    ASSUME NEW d \in Holding, NEW n \in Nodes, d.childNodes[n] = <<>>
    PROVE  Tree!Detach(d, n).childNodes[n] = <<>>
<1>1. CASE d.parentNode[n] = NoNode
  BY <1>1, DetachIs
<1>2. CASE d.parentNode[n] # NoNode
  <2> DEFINE q == d.parentNode[n]
  <2>1. q \in Nodes /\ Taken(d, Tree!Detach(d, n), q, n)
    BY <1>2, DetachIs
  <2> HIDE DEF q
  <2>2. Tree!RemoveFirst(<<>>, n) = <<>>
    BY DEF Tree!RemoveFirst
  <2> QED
    BY <2>1, <2>2 DEF Taken, Set
<1> QED
  BY <1>1, <1>2

LEMMA CutStaysAcyclic ==
    ASSUME NEW d, Acyclic(d), NEW n \in Nodes, NEW e, Set(d.parentNode, e.parentNode, n, NoNode)
    PROVE  Acyclic(e)
<1> SUFFICES ASSUME NEW S \in SUBSET Nodes, S # {} PROVE \E s \in S : e.parentNode[s] \notin S
  BY DEF Acyclic
<1>1. PICK s \in S : d.parentNode[s] \notin S
  BY DEF Acyclic
<1>2. e.parentNode[s] \in {d.parentNode[s], NoNode}
  BY DEF Set
<1> QED
  BY <1>1, <1>2, NodesAreFinite

LEMMA JoinStaysAcyclic ==
    ASSUME NEW d \in Holding, Acyclic(d), NEW p \in Nodes, NEW n \in Nodes,
           ~Tree!IsAncestor(d, p, n), NEW e \in Holding,
           Set(Tree!Detach(d, n).parentNode, e.parentNode, n, p)
    PROVE  Acyclic(e)
<1>1. Set(d.parentNode, Tree!Detach(d, n).parentNode, n, NoNode)
  BY DetachIs
<1>2. \A m \in Nodes : \/ e.parentNode[m] \in {d.parentNode[m], NoNode}
                       \/ m = n /\ e.parentNode[m] = p
  BY <1>1 DEF Set
<1>3. /\ d.parentNode \in [Nodes -> Nodes \cup {NoNode}]
      /\ e.parentNode \in [Nodes -> Nodes \cup {NoNode}]
  BY DEF Holding, LinkOf, Link
<1> QED
  BY <1>2, <1>3, StaysAcyclic

(* A fragment without children only leaves its parent.                     *)
LEMMA EmptyFragment ==
    ASSUME NEW d \in Holding, NEW n \in Fragments, NEW f, f = Tree!Detach(d, n),
           d.childNodes[n] = <<>>
    PROVE  Tree!Items(f, n) = <<>>
<1>1. n \in Nodes
  BY DocumentAssumption
<1>2. f \in Holding /\ f.childNodes[n] = <<>>
  BY <1>1, DetachIs, EmptyStays
<1> QED
  BY <1>1, <1>2, ItemsAre

LEMMA AppendKeeps ==
    ASSUME TreeInv, NEW p \in Nodes, NEW n \in Nodes, Tree!AppendChild(p, n)
    PROVE  TreeInv'
<1> DEFINE f == Tree!Detach(dom, n)
<1>1. /\ dom \in Holding /\ replaced \in SUBSET Nodes /\ replaced' = replaced
      /\ errorChecking' = errorChecking
      /\ dom' = Tree!Appended(dom, p, n)
      /\ errorChecking => ~Tree!IsAncestor(dom, p, n)
  BY DEF TreeInv, Tree!AppendChild, Tree!AppendRefused
<1>2. /\ mishaps' = {} => /\ mishaps = {} /\ ~Tree!Filled(n) /\ ~Tree!Unlisted(dom, n)
      /\ "fragment" \notin mishaps' => "fragment" \notin mishaps /\ ~Tree!Filled(n)
  BY DEF Tree!AppendChild, Tree!AppendRefused, Tree!Mishaps
<1>3. /\ dom' \in Holding
      /\ Tree!Items(f, n) = <<>> => dom' = f
      /\ n \notin Fragments => Set(f.parentNode, dom'.parentNode, n, p)
  <2>1. /\ Tree!Appended(dom, p, n) \in Holding
        /\ Tree!Items(f, n) = <<>> => Tree!Appended(dom, p, n) = f
        /\ n \notin Fragments => Set(f.parentNode, Tree!Appended(dom, p, n).parentNode, n, p)
    BY <1>1, AppendedIs
  <2> QED
    BY <1>1, <2>1
<1>4. n \in Fragments /\ ~Tree!Filled(n) => dom' = f
  BY <1>1, <1>3, EmptyFragment DEF Tree!Filled
<1>5. ASSUME mishaps' = {} PROVE Agree(dom', replaced')
  <2>1. Agree(dom, replaced) /\ ~Tree!Unlisted(dom, n)
    BY <1>2, <1>5 DEF TreeInv
  <2>2. CASE n \in Fragments
    <3>1. Agree(f, replaced)
      BY <1>1, <2>1, DetachAgrees
    <3> QED
      BY <1>1, <1>2, <1>4, <1>5, <2>2, <3>1
  <2>3. CASE n \notin Fragments
    <3>1. Agree(Tree!Appended(dom, p, n), replaced)
      BY <1>1, <2>1, <2>3, AppendAgrees
    <3> QED
      BY <1>1, <3>1
  <2> QED
    BY <2>2, <2>3
<1>6. ASSUME errorChecking', "fragment" \notin mishaps' PROVE Acyclic(dom')
  <2>1. Acyclic(dom) /\ ~Tree!IsAncestor(dom, p, n)
    BY <1>1, <1>2, <1>6 DEF TreeInv
  <2>2. CASE n \in Fragments
    <3>1. Set(dom.parentNode, f.parentNode, n, NoNode)
      BY <1>1, DetachIs
    <3>2. Acyclic(f)
      <4> HIDE DEF f
      <4> QED
        BY <2>1, <3>1, CutStaysAcyclic
    <3> QED
      BY <1>2, <1>4, <1>6, <2>2, <3>2
  <2>3. CASE n \notin Fragments
    BY <1>1, <1>3, <2>1, <2>3, JoinStaysAcyclic
  <2> QED
    BY <2>2, <2>3
<1> QED
  BY <1>1, <1>3, <1>5, <1>6 DEF TreeInv

LEMMA InsertKeeps ==
    ASSUME TreeInv, NEW p \in Nodes, NEW n \in Nodes, NEW ref \in Nodes,
           Tree!InsertBefore(p, n, ref)
    PROVE  TreeInv'
<1> DEFINE f == Tree!Detach(dom, n)
<1>1. /\ dom \in Holding /\ replaced \in SUBSET Nodes /\ replaced' = replaced
      /\ errorChecking' = errorChecking
      /\ dom' = Tree!Inserted(dom, p, n, ref)
      /\ errorChecking => ~Tree!IsAncestor(dom, p, n)
  BY DEF TreeInv, Tree!InsertBefore, Tree!PlaceRefused, Tree!AppendRefused
<1>2. /\ mishaps' = {} => /\ mishaps = {} /\ ~Tree!Filled(n) /\ ~Tree!Unlisted(dom, n)
                          /\ ref \in Tree!Children(dom, p) /\ ~Tree!Shifts(dom, p, n, ref)
      /\ "fragment" \notin mishaps' => "fragment" \notin mishaps /\ ~Tree!Filled(n)
  BY DEF Tree!InsertBefore, Tree!PlaceRefused, Tree!AppendRefused, Tree!Mishaps
<1>3. /\ dom' \in Holding
      /\ Tree!Items(f, n) = <<>> => dom' = f
      /\ n \notin Fragments => Set(f.parentNode, dom'.parentNode, n, p)
  <2>1. /\ Tree!Inserted(dom, p, n, ref) \in Holding
        /\ Tree!Items(f, n) = <<>> => Tree!Inserted(dom, p, n, ref) = f
        /\ n \notin Fragments => Set(f.parentNode, Tree!Inserted(dom, p, n, ref).parentNode, n, p)
    BY <1>1, InsertedIs
  <2> QED
    BY <1>1, <2>1
<1>4. n \in Fragments /\ ~Tree!Filled(n) => dom' = f
  BY <1>1, <1>3, EmptyFragment DEF Tree!Filled
<1>5. ASSUME mishaps' = {} PROVE Agree(dom', replaced')
  <2>1. /\ Agree(dom, replaced) /\ ~Tree!Unlisted(dom, n)
        /\ Listed(dom, p, ref) /\ ~Tree!Shifts(dom, p, n, ref)
    BY <1>1, <1>2, <1>5, ChildrenAreListed DEF TreeInv
  <2>2. CASE n \in Fragments
    <3>1. Agree(f, replaced)
      BY <1>1, <2>1, DetachAgrees
    <3> QED
      BY <1>1, <1>2, <1>4, <1>5, <2>2, <3>1
  <2>3. CASE n \notin Fragments
    <3>1. Agree(Tree!Inserted(dom, p, n, ref), replaced)
      BY <1>1, <2>1, <2>3, InsertAgrees
    <3> QED
      BY <1>1, <3>1
  <2> QED
    BY <2>2, <2>3
<1>6. ASSUME errorChecking', "fragment" \notin mishaps' PROVE Acyclic(dom')
  <2>1. Acyclic(dom) /\ ~Tree!IsAncestor(dom, p, n)
    BY <1>1, <1>2, <1>6 DEF TreeInv
  <2>2. CASE n \in Fragments
    <3>1. Set(dom.parentNode, f.parentNode, n, NoNode)
      BY <1>1, DetachIs
    <3>2. Acyclic(f)
      <4> HIDE DEF f
      <4> QED
        BY <2>1, <3>1, CutStaysAcyclic
    <3> QED
      BY <1>2, <1>4, <1>6, <2>2, <3>2
  <2>3. CASE n \notin Fragments
    BY <1>1, <1>3, <2>1, <2>3, JoinStaysAcyclic
  <2> QED
    BY <2>2, <2>3
<1> QED
  BY <1>1, <1>3, <1>5, <1>6 DEF TreeInv

LEMMA ReplaceKeeps ==
    ASSUME TreeInv, NEW p \in Nodes, NEW n \in Nodes, NEW old \in Nodes,
           Tree!ReplaceChild(p, n, old)
    PROVE  TreeInv'
<1> DEFINE f == Tree!Detach(dom, n)
<1>1. /\ dom \in Holding /\ replaced \in SUBSET Nodes /\ replaced' = replaced \cup {old}
      /\ errorChecking' = errorChecking
      /\ dom' = Tree!Exchanged(dom, p, n, old)
      /\ errorChecking => ~Tree!IsAncestor(dom, p, n)
  BY DEF TreeInv, Tree!ReplaceChild, Tree!PlaceRefused, Tree!AppendRefused
<1>2. /\ mishaps' = {} => /\ mishaps = {} /\ n \notin Fragments /\ ~Tree!Unlisted(dom, n)
                          /\ old \in Tree!Children(dom, p) /\ ~Tree!Shifts(dom, p, n, old)
      /\ "fragment" \notin mishaps' => "fragment" \notin mishaps /\ n \notin Fragments
  BY DEF Tree!ReplaceChild, Tree!PlaceRefused, Tree!AppendRefused, Tree!Mishaps
<1>3. /\ dom' \in Holding
      /\ n \notin Fragments => Set(f.parentNode, dom'.parentNode, n, p)
  <2>1. /\ Tree!Exchanged(dom, p, n, old) \in Holding
        /\ n \notin Fragments => Set(f.parentNode, Tree!Exchanged(dom, p, n, old).parentNode, n, p)
    BY <1>1, ExchangedIs
  <2> QED
    BY <1>1, <2>1
<1>4. ASSUME mishaps' = {} PROVE Agree(dom', replaced')
  <2>1. /\ Agree(dom, replaced) /\ ~Tree!Unlisted(dom, n) /\ n \notin Fragments
        /\ Listed(dom, p, old) /\ ~Tree!Shifts(dom, p, n, old)
    BY <1>1, <1>2, <1>4, ChildrenAreListed DEF TreeInv
  <2>2. Agree(Tree!Exchanged(dom, p, n, old), replaced \cup {old})
    BY <1>1, <2>1, ExchangeAgrees
  <2> QED
    BY <1>1, <2>2
<1>5. ASSUME errorChecking', "fragment" \notin mishaps' PROVE Acyclic(dom')
  <2>1. Acyclic(dom) /\ ~Tree!IsAncestor(dom, p, n) /\ n \notin Fragments
    BY <1>1, <1>2, <1>5 DEF TreeInv
  <2> QED
    BY <1>1, <1>3, <2>1, JoinStaysAcyclic
<1> QED
  BY <1>1, <1>3, <1>4, <1>5 DEF TreeInv

LEMMA RemoveKeeps ==
    ASSUME TreeInv, NEW p \in Nodes, NEW old \in Nodes, Tree!RemoveChild(p, old)
    PROVE  TreeInv'
<1>1. /\ dom \in Holding /\ replaced \in SUBSET Nodes /\ replaced' = replaced
      /\ errorChecking' = errorChecking
      /\ dom' = Tree!Take(dom, p, old)
  BY DEF TreeInv, Tree!RemoveChild
<1>2. /\ mishaps' = {} => mishaps = {} /\ old \in Tree!Children(dom, p)
      /\ "fragment" \notin mishaps' => "fragment" \notin mishaps
  BY DEF Tree!RemoveChild, Tree!Mishaps
<1>3. dom' \in Holding /\ Taken(dom, dom', p, old)
  <2>1. Tree!Take(dom, p, old) \in Holding /\ Taken(dom, Tree!Take(dom, p, old), p, old)
    BY <1>1, TakeTakes
  <2> QED
    BY <1>1, <2>1
<1>4. ASSUME mishaps' = {} PROVE Agree(dom', replaced')
  <2>1. Agree(dom, replaced) /\ Listed(dom, p, old)
    BY <1>1, <1>2, <1>4, ChildrenAreListed DEF TreeInv
  <2>2. Agree(dom', replaced)
    BY <1>1, <1>3, <2>1, TakenAgrees
  <2> QED
    BY <1>1, <2>2
<1>5. ASSUME errorChecking', "fragment" \notin mishaps' PROVE Acyclic(dom')
  <2>1. Acyclic(dom)
    BY <1>1, <1>2, <1>5 DEF TreeInv
  <2>2. Set(dom.parentNode, dom'.parentNode, old, NoNode)
    BY <1>3 DEF Taken
  <2> QED
    BY <2>1, <2>2, CutStaysAcyclic
<1> QED
  BY <1>1, <1>3, <1>4, <1>5 DEF TreeInv

LEMMA TreeInvInit == Tree!Init => TreeInv
<1> SUFFICES ASSUME Tree!Init PROVE TreeInv
  OBVIOUS
<1>1. dom = Tree!Node /\ replaced = {} /\ mishaps = {}
  BY DEF Tree!Init
<1>2. NoNode \in Link /\ <<>> \in Seq(Nodes)
  BY DEF Link
<1>3. dom \in Holding
  BY <1>1, <1>2 DEF Tree!Node, Holding, LinkOf
<1>4. \A n \in Nodes : /\ dom.parentNode[n] = NoNode /\ dom.childNodes[n] = <<>>
                       /\ dom.firstChild[n] = NoNode /\ dom.lastChild[n] = NoNode
                       /\ dom.previousSibling[n] = NoNode /\ dom.nextSibling[n] = NoNode
  BY <1>1 DEF Tree!Node
<1>5. Agree(dom, replaced)
  <2>1. \A p \in Nodes : Matches(dom, p, <<>>)
    BY <1>4 DEF Matches, Ends, Different
  <2> QED
    BY <1>1, <1>4, <2>1 DEF Agree
<1>6. Acyclic(dom)
  BY <1>4, NodesAreFinite DEF Acyclic
<1> QED
  BY <1>1, <1>3, <1>5, <1>6 DEF TreeInv

LEMMA TreeInvStep == TreeInv /\ [Tree!Next]_(Tree!vars) => TreeInv'
<1> SUFFICES ASSUME TreeInv, [Tree!Next]_(Tree!vars) PROVE TreeInv'
  OBVIOUS
<1>1. CASE UNCHANGED Tree!vars
  <2>1. dom' = dom /\ replaced' = replaced /\ mishaps' = mishaps /\ errorChecking' = errorChecking
    BY <1>1 DEF Tree!vars
  <2> QED
    BY <2>1 DEF TreeInv
<1>2. CASE Tree!Next
  <2>1. PICK p \in Nodes, n \in Nodes :
           \/ Tree!AppendChild(p, n)
           \/ Tree!RemoveChild(p, n)
           \/ \E child \in Nodes : Tree!InsertBefore(p, n, child) \/ Tree!ReplaceChild(p, n, child)
    BY <1>2 DEF Tree!Next, Tree!Parents
  <2> QED
    BY <2>1, AppendKeeps, RemoveKeeps, InsertKeeps, ReplaceKeeps
<1> QED
  BY <1>1, <1>2

LEMMA TreeInvShows == TreeInv => Tree!LinksAgree
<1> SUFFICES ASSUME TreeInv PROVE Tree!LinksAgree
  OBVIOUS
<1>1. dom \in Holding /\ replaced \subseteq Nodes
  BY DEF TreeInv
<1>2. ASSUME mishaps = {}, NEW p \in Nodes PROVE Tree!ListMatchesLinks(p)
  <2>1. Matches(dom, p, dom.childNodes[p])
    BY <1>2 DEF TreeInv, Agree
  <2> QED
    BY <2>1 DEF Matches, Ends, Different, Before, Behind, Tree!ListMatchesLinks
<1>3. ASSUME mishaps = {}, NEW n \in Nodes \ replaced PROVE ~Tree!Unlisted(dom, n)
  <2>1. dom.parentNode[n] # NoNode =>
           dom.parentNode[n] \in Nodes /\ Listed(dom, dom.parentNode[n], n)
    BY <1>1, <1>3 DEF TreeInv, Agree, Holding, LinkOf, Link
  <2> QED
    BY <1>1, <2>1, ChildrenAreListed DEF Tree!Unlisted
<1>4. ASSUME mishaps = {}, NEW n \in replaced, NEW p \in Nodes PROVE n \notin Tree!Children(dom, p)
  <2>1. ~Listed(dom, p, n)
    BY <1>4 DEF TreeInv, Agree
  <2> QED
    BY <1>1, <2>1, ChildrenAreListed
<1>5. ASSUME errorChecking, "fragment" \notin mishaps, NEW n \in Nodes
      PROVE  n \notin Tree!Ancestors(dom, n)
  <2>1. Acyclic(dom) /\ dom.parentNode \in [Nodes -> Nodes \cup {NoNode}]
    BY <1>1, <1>5 DEF TreeInv, Holding, LinkOf, Link
  <2> QED
    BY <2>1, NoneIsAboveItself
<1> QED
  BY <1>2, <1>3, <1>4, <1>5 DEF Tree!LinksAgree

(* Lists and links tell the same tree as long as nothing has gone wrong,   *)
(* and none of the nodes of a document that checks its calls is above      *)
(* itself.                                                                 *)
THEOREM LinksAgreeAlways == DocumentSpec => []LinksAgree
<1>1. DocumentInit => TreeInv
  BY TreeInvInit DEF DocumentInit
<1>2. TreeInv /\ [DocumentNext]_all => TreeInv'
  BY OneRuns, TreeInvStep
<1>3. TreeInv => LinksAgree
  BY TreeInvShows DEF LinksAgree
<1> QED
  BY <1>1, <1>2, <1>3, PTL DEF DocumentSpec

=============================================================================
