-------------------------- MODULE BrowserEditProofs --------------------------
(***************************************************************************)
(* The theorems about the texts and the tables of BrowserDocument, for all *)
(* characters, texts and pages of any length: a text that is split or      *)
(* normalized stays the text that it was, and a clone is equal to what it  *)
(* was made from; a new row or cell gets the index that was asked for.     *)
(*                                                                         *)
(* The text below a node is followed child by child.  While normalize has  *)
(* joined texts and not yet taken any out, the redundant ones count for    *)
(* nothing; so at every child the text is that of the beginning.           *)
(*                                                                         *)
(* The rows of a table are those its children contribute, one after the    *)
(* other; so what is in front of the place where a row is put decides the  *)
(* index that it gets.                                                     *)
(***************************************************************************)
EXTENDS BrowserDocument, SequenceTheorems, FiniteSetTheorems, WellFoundedInduction, TLAPS

(* What the texts share with the tree and the attributes does not change   *)
(* when one of those runs.                                                 *)
LEMMA NoneChangesChecking ==
    Next \/ Tree!Next => errorChecking' = errorChecking
<1>1. Tree!Next => errorChecking' = errorChecking
  BY DEF Tree!Next, Tree!AppendChild, Tree!RemoveChild, Tree!InsertBefore, Tree!ReplaceChild
<1>2. Next => errorChecking' = errorChecking
  <2>1. ASSUME NEW a \in Attrs, NEW n \in Names,
               \/ CreateAttribute(a, n)
               \/ \E ns \in Namespaces \cup {None} : CreateAttributeNS(a, n, ns)
        PROVE  errorChecking' = errorChecking
    BY <2>1 DEF CreateAttribute, CreateAttributeNS, Create
  <2>2. ASSUME NEW e \in Elements, NEW a \in Attrs,
               SetAttributeNode(e, a) \/ SetAttributeNodeNS(e, a)
        PROVE  errorChecking' = errorChecking
    BY <2>2, Zenon DEF SetAttributeNode, SetAttributeNodeNS
  <2>3. ASSUME NEW e \in Elements, NEW n \in Names, NEW v \in Values, SetAttribute(e, n, v)
        PROVE  errorChecking' = errorChecking
    BY <2>3 DEF SetAttribute
  <2>4. ASSUME NEW e \in Elements, NEW n \in Names, NEW ns \in Namespaces \cup {None},
               \/ RemoveAttribute(e, n) \/ RemoveAttributeNS(e, ns, n)
               \/ \E v \in Values : SetAttributeNS(e, ns, n, v)
        PROVE  errorChecking' = errorChecking
    BY <2>4 DEF RemoveAttribute, RemoveAttributeNS, RemoveItem, SetAttributeNS
  <2> QED
    BY <2>1, <2>2, <2>3, <2>4 DEF Next
<1> QED
  BY <1>1, <1>2

LEMMA OneRuns ==
    ASSUME [DocumentNext]_all
    PROVE  [Text!Next]_(Text!vars) /\ [Tables!Next]_(Tables!vars)
<1> USE DEF all, tree, text, attributeMaps, tables, document, names, Text!vars, Tables!vars
<1>1. CASE UNCHANGED all
  BY <1>1
<1>2. CASE \/ running = "tree" /\ Tree!Next /\ UNCHANGED <<text, tables>>
           \/ running = "attributes" /\ Next /\ UNCHANGED <<text, tables>>
  BY <1>2, NoneChangesChecking
<1>3. CASE running = "text" /\ Text!Next /\ UNCHANGED tables
  BY <1>3
<1>4. CASE running = "tables" /\ Tables!Next /\ UNCHANGED <<errorChecking, text>>
  BY <1>4
<1>5. CASE \/ running = "document" \/ running = "names"
  BY <1>5 DEF DocumentNext
<1> QED
  BY <1>1, <1>2, <1>3, <1>4, <1>5 DEF DocumentNext

-----------------------------------------------------------------------------
(* A set of numbers up to N that has what follows each of its own has them *)
(* all.                                                                    *)
LEMMA StepByStep ==
    ASSUME NEW N \in Nat, NEW K, 0 \in K, \A k \in 0 .. N - 1 : k \in K => k + 1 \in K
    PROVE  \A k \in 0 .. N : k \in K
<1> DEFINE T == {k \in 0 .. N : k \notin K}
<1> SUFFICES T = {}
  OBVIOUS
<1> SUFFICES ASSUME T # {} PROVE FALSE
  OBVIOUS
<1>1. T \in SUBSET Nat
  OBVIOUS
<1>2. PICK i \in T : \A k \in T : ~(<<k, i>> \in OpToRel(<, Nat))
  <2> HIDE DEF T
  <2> QED
    BY <1>1, NatLessThanWellFounded, WFMin
<1>3. i \in T /\ \A k \in T : ~(k < i)
  BY <1>1, <1>2 DEF OpToRel
<1>4. i # 0 /\ i - 1 \in 0 .. N - 1
  BY <1>3
<1>5. i - 1 \in K
  BY <1>3, <1>4
<1> QED
  BY <1>3, <1>4, <1>5

(* What is computed from one number to the next is computed for all.       *)
Computes(f, step, k) == \A i \in 1 .. k : f[i] = step[i][f[i - 1]]

LEMMA Computed ==
  ASSUME NEW N \in Nat, NEW S, NEW base \in S, NEW step \in [1 .. N -> [S -> S]]
  PROVE  \E f \in [0 .. N -> S] : f[0] = base /\ Computes(f, step, N)
<1> DEFINE Upto(k) == \E f \in [0 .. k -> S] : f[0] = base /\ Computes(f, step, k)
           K == {k \in 0 .. N : Upto(k)}
<1>1. 0 \in K
  <2> DEFINE f == [i \in 0 .. 0 |-> base]
  <2>1. f \in [0 .. 0 -> S] /\ f[0] = base /\ Computes(f, step, 0)
    BY DEF Computes
  <2> HIDE DEF f
  <2> QED BY <2>1
<1>2. ASSUME NEW k \in 0 .. N - 1, k \in K PROVE k + 1 \in K
  <2>1. PICK f \in [0 .. k -> S] : f[0] = base /\ Computes(f, step, k)
    BY <1>2
  <2>2. step[k + 1] \in [S -> S] /\ f[k] \in S
    BY <2>1
  <2> DEFINE new == step[k + 1][f[k]]
             g == [i \in 0 .. k + 1 |-> IF i = k + 1 THEN new ELSE f[i]]
  <2>3. new \in S
    BY <2>2
  <2> HIDE DEF new
  <2>4. /\ g \in [0 .. k + 1 -> S] /\ g[k + 1] = new
        /\ \A i \in 0 .. k : g[i] = f[i]
    BY <2>3
  <2> HIDE DEF g
  <2>5. ASSUME NEW i \in 1 .. k + 1 PROVE g[i] = step[i][g[i - 1]]
    <3>1. CASE i = k + 1
      <4>1. i - 1 = k /\ k \in 0 .. k
        BY <3>1
      <4> QED BY <2>4, <3>1, <4>1 DEF new
    <3>2. CASE i # k + 1
      <4>1. i \in 1 .. k /\ i \in 0 .. k /\ i - 1 \in 0 .. k
        BY <3>2
      <4> QED BY <2>1, <2>4, <4>1 DEF Computes
    <3> QED BY <3>1, <3>2
  <2>6. Upto(k + 1)
    <3>1. g[0] = base /\ Computes(g, step, k + 1)
      BY <2>1, <2>4, <2>5 DEF Computes
    <3> QED BY <2>4, <3>1
  <2> HIDE DEF Upto
  <2> QED BY <2>6
<1> HIDE DEF K
<1>3. \A k \in 0 .. N : k \in K
  BY <1>1, <1>2, StepByStep
<1> QED BY <1>3 DEF K

-----------------------------------------------------------------------------
(* Sequences put together of sequences.                                    *)

LEMMA ConcatIsAssociative ==
  ASSUME NEW C, NEW u \in Seq(C), NEW v \in Seq(C), NEW w \in Seq(C)
  PROVE  (u \o v) \o w = u \o (v \o w)
  BY ConcatAssociative, SMTT(30)

(* What is put together of the first ones.                                 *)
SumsIn(C, t, f) ==
    /\ f \in [0 .. Len(t) -> Seq(C)] /\ f[0] = <<>>
    /\ \A i \in 1 .. Len(t) : f[i] = f[i - 1] \o t[i]

LEMMA PartsExist ==
  ASSUME NEW C, NEW t \in Seq(Seq(C)) PROVE \E f : SumsIn(C, t, f)
<1> DEFINE N == Len(t)
           S == Seq(C)
           step == [i \in 1 .. N |-> [s \in S |-> s \o t[i]]]
<1>1. N \in Nat /\ <<>> \in S /\ \A i \in 1 .. N : t[i] \in S
  OBVIOUS
<1>2. \A s \in S, w \in S : s \o w \in S
  BY ConcatProperties
<1>3. step \in [1 .. N -> [S -> S]]
  BY <1>1, <1>2
<1>4. \A i \in 1 .. N, s \in S : step[i][s] = s \o t[i]
  OBVIOUS
<1> HIDE DEF step
<1>5. PICK g \in [0 .. N -> S] : g[0] = <<>> /\ Computes(g, step, N)
  <2> HIDE DEF N, S
  <2> QED BY <1>1, <1>3, Computed
<1>6. \A i \in 1 .. N : i - 1 \in 0 .. N
  BY <1>1
<1>7. \A i \in 1 .. N : g[i] = g[i - 1] \o t[i]
  BY <1>4, <1>5, <1>6 DEF Computes
<1> QED BY <1>5, <1>7 DEF SumsIn

(* There is one such function, and it is that of FlattenSeq.               *)
LEMMA FlattenBy ==
  ASSUME NEW C, NEW t \in Seq(Seq(C)), NEW f, SumsIn(C, t, f)
  PROVE  FlattenSeq(t) = f[Len(t)]
<1> DEFINE N == Len(t)
           Is(g) == g = [i \in 1 .. N |-> IF i = 1 THEN t[i] ELSE g[i - 1] \o t[i]]
           g == CHOOSE g : Is(g)
<1>1. CASE N = 0
  <2>1. t = <<>>
    BY <1>1
  <2> QED BY <1>1, <2>1 DEF FlattenSeq, SumsIn
<1>2. CASE N # 0
  <2>1. N \in Nat /\ N >= 1 /\ \A i \in 1 .. N : t[i] \in Seq(C)
    BY <1>2
  <2>2. /\ f \in [0 .. N -> Seq(C)] /\ f[0] = <<>>
        /\ \A i \in 1 .. N : f[i] = f[i - 1] \o t[i]
    BY DEF SumsIn
  <2>3. f[1] = t[1]
    <3>1. 1 \in 1 .. N /\ 1 - 1 = 0
      BY <2>1
    <3>2. f[1] = f[1 - 1] \o t[1] /\ t[1] \in Seq(C)
      BY <3>1, <2>1, <2>2
    <3>3. f[1] = <<>> \o t[1]
      BY <3>1, <3>2, <2>2
    <3> QED BY <3>2, <3>3, ConcatEmptySeq
  <2>4. Is([i \in 1 .. N |-> f[i]])
    <3> DEFINE h == [i \in 1 .. N |-> f[i]]
    <3>1. ASSUME NEW i \in 1 .. N
          PROVE  f[i] = IF i = 1 THEN t[i] ELSE h[i - 1] \o t[i]
      <4>1. CASE i = 1
        BY <4>1, <2>3
      <4>2. CASE i # 1
        <5>1. i - 1 \in 1 .. N
          BY <4>2, <2>1
        <5>2. h[i - 1] = f[i - 1]
          BY <5>1
        <5> QED BY <4>2, <5>2, <2>2
      <4> QED BY <4>1, <4>2
    <3> QED BY <3>1
  <2>5. Is(g)
    <3> HIDE DEF Is
    <3> QED BY <2>4
  <2>6. g[1] = t[1] /\ \A i \in 1 .. N : i # 1 => g[i] = g[i - 1] \o t[i]
    <3>1. 1 \in 1 .. N
      BY <2>1
    <3> HIDE DEF g
    <3> QED BY <3>1, <2>5
  <2>7. FlattenSeq(t) = g[N]
    BY <1>2 DEF FlattenSeq
  <2> HIDE DEF g
  <2> DEFINE K == {k \in 0 .. N : k = 0 \/ g[k] = f[k]}
  <2>8. 0 \in K
    BY <2>1
  <2>9. ASSUME NEW k \in 0 .. N - 1, k \in K PROVE k + 1 \in K
    <3>1. k + 1 \in 1 .. N /\ (k + 1) - 1 = k
      BY <2>1
    <3>2. CASE k = 0
      BY <3>1, <3>2, <2>3, <2>6
    <3>3. CASE k # 0
      <4>1. g[k] = f[k] /\ k + 1 # 1
        BY <2>9, <3>3
      <4>2. g[k + 1] = g[k] \o t[k + 1] /\ f[k + 1] = f[k] \o t[k + 1]
        BY <3>1, <4>1, <2>2, <2>6
      <4>3. g[k + 1] = f[k + 1] /\ k + 1 \in 0 .. N
        BY <3>1, <4>1, <4>2
      <4> QED BY <4>3
    <3> QED BY <3>2, <3>3
  <2>10. \A k \in 0 .. N : k \in K
    <3> HIDE DEF K
    <3> QED BY <2>1, <2>8, <2>9, StepByStep
  <2>11. N \in 0 .. N
    BY <2>1
  <2> QED BY <1>2, <2>7, <2>10, <2>11
<1> QED BY <1>1, <1>2

LEMMA FlattenIs ==
  ASSUME NEW C, NEW t \in Seq(Seq(C)) PROVE FlattenSeq(t) \in Seq(C)
<1>1. PICK f : SumsIn(C, t, f)
  BY PartsExist
<1>2. Len(t) \in 0 .. Len(t)
  OBVIOUS
<1>3. f[Len(t)] \in Seq(C)
  BY <1>1, <1>2 DEF SumsIn
<1>4. FlattenSeq(t) = f[Len(t)]
  BY <1>1, FlattenBy
<1> QED BY <1>3, <1>4

(* What is put together of two is that of the one and then of the other.   *)
LEMMA FlattenOfBoth ==
  ASSUME NEW C, NEW s \in Seq(Seq(C)), NEW t \in Seq(Seq(C))
  PROVE  FlattenSeq(s \o t) = FlattenSeq(s) \o FlattenSeq(t)
<1>1. PICK f : SumsIn(C, s, f)
  BY PartsExist
<1>2. PICK g : SumsIn(C, t, g)
  BY PartsExist
<1> DEFINE M == Len(s)
           N == Len(t)
           both == s \o t
           h == [i \in 0 .. M + N |-> IF i <= M THEN f[i] ELSE f[M] \o g[i - M]]
<1>3. /\ M \in Nat /\ N \in Nat /\ both \in Seq(Seq(C)) /\ Len(both) = M + N
      /\ \A i \in 1 .. M + N : both[i] = IF i <= M THEN s[i] ELSE t[i - M]
  OBVIOUS
<1>4. /\ \A i \in 1 .. M : s[i] \in Seq(C)
      /\ \A i \in 1 .. N : t[i] \in Seq(C)
  OBVIOUS
<1> HIDE DEF both
<1>5. /\ \A i \in 0 .. M : f[i] \in Seq(C)
      /\ \A i \in 0 .. N : g[i] \in Seq(C)
      /\ f[0] = <<>> /\ g[0] = <<>>
      /\ \A i \in 1 .. M : f[i] = f[i - 1] \o s[i]
      /\ \A i \in 1 .. N : g[i] = g[i - 1] \o t[i]
  BY <1>1, <1>2, <1>3 DEF SumsIn
<1>6. \A v, w \in Seq(C) : v \o w \in Seq(C)
  BY ConcatProperties
<1> HIDE DEF M, N
<1>7. h \in [0 .. M + N -> Seq(C)]
  <2>1. ASSUME NEW i \in 0 .. M + N PROVE h[i] \in Seq(C)
    <3>1. CASE i <= M
      BY <3>1, <1>3, <1>5
    <3>2. CASE ~(i <= M)
      <4>1. i - M \in 0 .. N /\ M \in 0 .. M
        BY <3>2, <1>3
      <4> QED BY <3>2, <4>1, <1>5, <1>6
    <3> QED BY <3>1, <3>2
  <2> QED BY <2>1
<1>8. h[0] = <<>>
  BY <1>3, <1>5
<1>9. ASSUME NEW i \in 1 .. M + N PROVE h[i] = h[i - 1] \o both[i]
  <2>1. i \in 0 .. M + N /\ i - 1 \in 0 .. M + N
    BY <1>3
  <2>2. CASE i <= M
    <3>1. i \in 1 .. M /\ i - 1 <= M
      BY <2>2, <1>3
    <3> QED BY <2>1, <2>2, <3>1, <1>3, <1>5
  <2>3. CASE ~(i <= M)
    <3>1. /\ i - M \in 1 .. N /\ (i - 1) - M = (i - M) - 1 /\ (i - M) - 1 \in 0 .. N
          /\ M \in 0 .. M
      BY <2>3, <1>3
    <3>2. both[i] = t[i - M]
      BY <2>3, <1>3
    <3>3. h[i] = f[M] \o (g[(i - M) - 1] \o t[i - M])
      BY <2>1, <2>3, <3>1, <1>5
    <3>4. f[M] \in Seq(C) /\ g[(i - M) - 1] \in Seq(C) /\ t[i - M] \in Seq(C)
      BY <3>1, <1>4, <1>5
    <3>5. h[i] = (f[M] \o g[(i - M) - 1]) \o t[i - M]
      <4> DEFINE x == f[M]
                 y == g[(i - M) - 1]
                 z == t[i - M]
      <4>1. x \in Seq(C) /\ y \in Seq(C) /\ z \in Seq(C) /\ h[i] = x \o (y \o z)
        BY <3>3, <3>4
      <4> HIDE DEF x, y, z, h
      <4>2. (x \o y) \o z = x \o (y \o z)
        BY <4>1, ConcatIsAssociative, SMTT(30)
      <4>3. h[i] = (x \o y) \o z
        BY <4>1, <4>2
      <4> QED BY <4>3 DEF x, y, z
    <3>6. h[i - 1] = f[M] \o g[(i - M) - 1]
      <4>1. CASE i - 1 <= M
        <5>1. i - 1 = M /\ (i - M) - 1 = 0
          BY <4>1, <2>3, <1>3
        <5>2. f[M] \o <<>> = f[M]
          BY <3>4, ConcatEmptySeq
        <5> QED BY <2>1, <4>1, <5>1, <5>2, <1>5
      <4>2. CASE ~(i - 1 <= M)
        BY <2>1, <4>2, <3>1
      <4> QED BY <4>1, <4>2
    <3> QED BY <3>2, <3>5, <3>6
  <2> QED BY <2>2, <2>3
<1>10. h[M + N] = f[M] \o g[N]
  <2>1. CASE N = 0
    <3>1. M + N \in 0 .. M + N /\ M + N <= M /\ M + N = M /\ M \in 0 .. M
      BY <2>1, <1>3
    <3>2. f[M] \o <<>> = f[M]
      BY <3>1, <1>5, ConcatEmptySeq
    <3> QED BY <2>1, <3>1, <3>2, <1>5
  <2>2. CASE N # 0
    <3>1. M + N \in 0 .. M + N /\ ~(M + N <= M) /\ (M + N) - M = N
      BY <2>2, <1>3
    <3> QED BY <3>1
  <2> QED BY <2>1, <2>2
<1> HIDE DEF h
<1>11. SumsIn(C, both, h)
  BY <1>3, <1>7, <1>8, <1>9 DEF SumsIn
<1>12. FlattenSeq(both) = h[M + N]
  BY <1>3, <1>11, FlattenBy
<1>13. FlattenSeq(s) = f[M] /\ FlattenSeq(t) = g[N]
  BY <1>1, <1>2, FlattenBy DEF M, N
<1> QED BY <1>10, <1>12, <1>13 DEF both

(* Of a few, and of three parts.                                           *)
LEMMA FlattenOfFew ==
  ASSUME NEW C PROVE FlattenSeq(<<>>) = <<>> /\ \A x \in Seq(C) : FlattenSeq(<<x>>) = x
<1>1. FlattenSeq(<<>>) = <<>>
  BY DEF FlattenSeq
<1>2. ASSUME NEW x \in Seq(C) PROVE FlattenSeq(<<x>>) = x
  <2> DEFINE t == <<x>>
             f == [i \in 0 .. 1 |-> IF i = 0 THEN <<>> ELSE x]
  <2>1. t \in Seq(Seq(C)) /\ Len(t) = 1 /\ t[1] = x
    OBVIOUS
  <2>2. f[0] = <<>> /\ f[1] = x
    OBVIOUS
  <2>3. <<>> \o x = x /\ <<>> \in Seq(C)
    BY ConcatEmptySeq
  <2>4. f \in [0 .. 1 -> Seq(C)]
    <3> DEFINE Q == Seq(C)
    <3> HIDE DEF Q
    <3>1. <<>> \in Q /\ x \in Q
      BY <2>3 DEF Q
    <3>2. f \in [0 .. 1 -> Q]
      BY <3>1
    <3> QED BY <3>2 DEF Q
  <2> HIDE DEF t, f
  <2>5. \A i \in 1 .. 1 : i = 1 /\ i - 1 = 0
    OBVIOUS
  <2>6. \A i \in 1 .. Len(t) : f[i] = f[i - 1] \o t[i]
    BY <2>1, <2>2, <2>3, <2>5
  <2>7. SumsIn(C, t, f)
    BY <2>1, <2>2, <2>4, <2>6 DEF SumsIn
  <2>8. FlattenSeq(t) = f[1]
    BY <2>1, <2>7, FlattenBy, Zenon
  <2> QED BY <2>2, <2>8 DEF t
<1> QED BY <1>1, <1>2

LEMMA InThree ==
  ASSUME NEW Q, NEW s \in Seq(Q), NEW i \in 1 .. Len(s)
  PROVE  /\ SubSeq(s, 1, i - 1) \in Seq(Q) /\ SubSeq(s, i + 1, Len(s)) \in Seq(Q)
         /\ <<s[i]>> \in Seq(Q) /\ s[i] \in Q
         /\ s = SubSeq(s, 1, i - 1) \o <<s[i]>> \o SubSeq(s, i + 1, Len(s))
<1> DEFINE before == SubSeq(s, 1, i - 1)
           after == SubSeq(s, i + 1, Len(s))
           one == <<s[i]>>
<1>1. before \in Seq(Q) /\ after \in Seq(Q) /\ one \in Seq(Q) /\ s[i] \in Q
  OBVIOUS
<1>2. /\ i \in Nat /\ Len(s) \in Nat /\ i \in 1 .. Len(s) /\ 1 \in 1 .. Len(s)
      /\ i \in 1 .. Len(s) + 1 /\ 1 \in 1 .. Len(s) + 1 /\ i \in 1 - 1 .. Len(s)
  OBVIOUS
<1>3. SubSeq(s, 1, i) = before \o one
  BY <1>2, SubSeqRecursiveSecond
<1>4. SubSeq(s, 1, i) \o after = SubSeq(s, 1, Len(s))
  BY <1>2, ConcatAdjacentSubSeq
<1>5. SubSeq(s, 1, Len(s)) = s
  BY SubSeqFull
<1> HIDE DEF before, after, one
<1> QED BY <1>1, <1>3, <1>4, <1>5, Zenon DEF before, after, one

LEMMA FlattenInThree ==
  ASSUME NEW C, NEW t \in Seq(Seq(C)), NEW i \in 1 .. Len(t)
  PROVE  /\ FlattenSeq(SubSeq(t, 1, i - 1)) \in Seq(C) /\ t[i] \in Seq(C)
         /\ FlattenSeq(SubSeq(t, i + 1, Len(t))) \in Seq(C)
         /\ FlattenSeq(t) = FlattenSeq(SubSeq(t, 1, i - 1)) \o t[i]
                            \o FlattenSeq(SubSeq(t, i + 1, Len(t)))
<1> DEFINE Q == Seq(C)
           before == SubSeq(t, 1, i - 1)
           after == SubSeq(t, i + 1, Len(t))
           one == <<t[i]>>
<1>1. /\ before \in Seq(Q) /\ after \in Seq(Q) /\ one \in Seq(Q) /\ t[i] \in Q
      /\ t = before \o one \o after
  <2> HIDE DEF Q
  <2>1. t \in Seq(Q)
    BY DEF Q
  <2> QED BY <2>1, InThree
<1>2. FlattenSeq(one) = t[i]
  BY <1>1, FlattenOfFew
<1> HIDE DEF before, after, one
<1>3. before \o one \in Seq(Q)
  BY <1>1, ConcatProperties
<1>4. FlattenSeq((before \o one) \o after) = FlattenSeq(before \o one) \o FlattenSeq(after)
  BY <1>1, <1>3, FlattenOfBoth
<1>5. FlattenSeq(before \o one) = FlattenSeq(before) \o FlattenSeq(one)
  BY <1>1, FlattenOfBoth
<1>6. FlattenSeq(before) \in Q /\ FlattenSeq(after) \in Q
  BY <1>1, FlattenIs
<1> QED BY <1>1, <1>2, <1>4, <1>5, <1>6 DEF before, after

LEMMA FlattenOfFirst ==
  ASSUME NEW C, NEW t \in Seq(Seq(C)), NEW f, SumsIn(C, t, f), NEW n \in 0 .. Len(t)
  PROVE  FlattenSeq(SubSeq(t, 1, n)) = f[n]
<1> DEFINE Q == Seq(C)
           s == SubSeq(t, 1, n)
           g == [i \in 0 .. n |-> f[i]]
<1>1. s \in Seq(Q) /\ Len(s) = n /\ \A i \in 1 .. n : s[i] = t[i]
  <2> HIDE DEF Q
  <2>1. t \in Seq(Q)
    BY DEF Q
  <2> QED BY <2>1
<1>2. /\ \A i \in 0 .. Len(t) : f[i] \in Q
      /\ f[0] = <<>> /\ \A i \in 1 .. Len(t) : f[i] = f[i - 1] \o t[i]
  <2> HIDE DEF Q
  <2>1. f \in [0 .. Len(t) -> Q]
    BY DEF SumsIn, Q
  <2> QED BY <2>1 DEF SumsIn
<1>3. /\ n \in Nat /\ n \in 0 .. n /\ 0 \in 0 .. n
      /\ \A i \in 0 .. n : i \in 0 .. Len(t)
      /\ \A i \in 1 .. n : i \in 1 .. Len(t) /\ i \in 0 .. n /\ i - 1 \in 0 .. n
  OBVIOUS
<1>4. g \in [0 .. n -> Q]
  <2> HIDE DEF Q
  <2> QED BY <1>2, <1>3
<1>5. g[0] = <<>> /\ g[n] = f[n]
  BY <1>2, <1>3
<1>6. \A i \in 1 .. n : g[i] = g[i - 1] \o s[i]
  <2> HIDE DEF s, Q
  <2> QED BY <1>1, <1>2, <1>3
<1> HIDE DEF g, s
<1>7. SumsIn(C, s, g)
  BY <1>1, <1>4, <1>5, <1>6 DEF SumsIn
<1>8. FlattenSeq(s) = g[n]
  BY <1>1, <1>7, FlattenBy
<1> QED BY <1>5, <1>8 DEF s

(* Which of the sequences an element comes from.                           *)
LEMMA FlattenAt ==
  ASSUME NEW C, NEW t \in Seq(Seq(C)), NEW k \in 1 .. Len(FlattenSeq(t))
  PROVE  \E i \in 1 .. Len(t) : \E j \in 1 .. Len(t[i]) :
            k = Len(FlattenSeq(SubSeq(t, 1, i - 1))) + j /\ FlattenSeq(t)[k] = t[i][j]
<1> DEFINE N == Len(t)
           Q == Seq(C)
<1>1. PICK f : SumsIn(C, t, f)
  BY PartsExist
<1>2. /\ N \in Nat /\ f[0] = <<>> /\ \A i \in 1 .. N : f[i] = f[i - 1] \o t[i] /\ t[i] \in Q
      /\ \A i \in 0 .. N : f[i] \in Q
  <2> HIDE DEF Q
  <2>1. f \in [0 .. N -> Q] /\ t \in Seq(Q)
    BY <1>1 DEF SumsIn, Q
  <2>2. f[0] = <<>> /\ \A i \in 1 .. N : f[i] = f[i - 1] \o t[i]
    BY <1>1 DEF SumsIn
  <2>3. N \in Nat /\ \A i \in 1 .. N : t[i] \in Q
    BY <2>1
  <2> QED BY <2>1, <2>2, <2>3
<1>3. \A v \in Q, w \in Q : /\ Len(v) \in Nat /\ Len(w) \in Nat /\ Len(v \o w) = Len(v) + Len(w)
                            /\ \A j \in 1 .. Len(w) : (v \o w)[Len(v) + j] = w[j]
                            /\ \A j \in 1 .. Len(v) : (v \o w)[j] = v[j]
  OBVIOUS
<1> HIDE DEF N, Q
<1> DEFINE From(n, l) == \E i \in 1 .. n : \E j \in 1 .. Len(t[i]) : l = Len(f[i - 1]) + j
           K == {n \in 0 .. N : \A l \in 1 .. Len(f[n]) : From(n, l)}
<1>4. 0 \in K
  <2>1. Len(f[0]) = 0
    BY <1>2
  <2> QED BY <1>2, <2>1
<1>5. ASSUME NEW n \in 0 .. N - 1, n \in K PROVE n + 1 \in K
  <2>1. n + 1 \in 0 .. N /\ n + 1 \in 1 .. N /\ (n + 1) - 1 = n /\ n \in 0 .. N /\ n \in Nat
    BY <1>2
  <2>2. f[n] \in Q /\ t[n + 1] \in Q /\ f[n + 1] = f[n] \o t[n + 1]
    BY <1>2, <2>1
  <2>3. Len(f[n + 1]) = Len(f[n]) + Len(t[n + 1]) /\ Len(f[n]) \in Nat /\ Len(t[n + 1]) \in Nat
    BY <1>3, <2>2
  <2>4. ASSUME NEW l \in 1 .. Len(f[n + 1]) PROVE From(n + 1, l)
    <3>1. CASE l <= Len(f[n])
      <4>1. l \in 1 .. Len(f[n])
        BY <3>1, <2>3
      <4>2. From(n, l)
        BY <1>5, <4>1
      <4>3. \A i \in 1 .. n : i \in 1 .. n + 1
        BY <2>1
      <4> QED BY <4>2, <4>3
    <3>2. CASE ~(l <= Len(f[n]))
      <4>1. l - Len(f[n]) \in 1 .. Len(t[n + 1]) /\ l = Len(f[n]) + (l - Len(f[n]))
        <5>1. \A p, q \in Nat : \A l1 \in 1 .. p + q :
                 ~(l1 <= p) => l1 - p \in 1 .. q /\ l1 = p + (l1 - p)
          OBVIOUS
        <5>2. l \in 1 .. Len(f[n]) + Len(t[n + 1])
          BY <2>3
        <5> QED BY <3>2, <5>1, <5>2, <2>3
      <4>2. n + 1 \in 1 .. n + 1
        BY <2>1
      <4>3. \E j \in 1 .. Len(t[n + 1]) : l = Len(f[(n + 1) - 1]) + j
        BY <4>1, <2>1
      <4> QED BY <4>2, <4>3
    <3> QED BY <3>1, <3>2, <2>3
  <2> HIDE DEF From
  <2> QED BY <2>1, <2>4
<1>6. N \in K
  <2> HIDE DEF K
  <2>1. \A n \in 0 .. N : n \in K
    BY <1>2, <1>4, <1>5, StepByStep
  <2> QED BY <1>2, <2>1
<1>7. FlattenSeq(t) = f[N]
  BY <1>1, FlattenBy DEF N
<1>8. PICK i \in 1 .. N : \E j \in 1 .. Len(t[i]) : k = Len(f[i - 1]) + j
  BY <1>6, <1>7
<1>9. PICK j \in 1 .. Len(t[i]) : k = Len(f[i - 1]) + j
  BY <1>8
<1>10. i - 1 \in 0 .. Len(t) /\ i \in 1 .. Len(t)
  BY <1>2 DEF N
<1>11. FlattenSeq(SubSeq(t, 1, i - 1)) = f[i - 1]
  BY <1>1, <1>10, FlattenOfFirst
<1> DEFINE a == FlattenSeq(SubSeq(t, 1, i - 1))
           b == FlattenSeq(SubSeq(t, i + 1, Len(t)))
           x == t[i]
<1>12. a \in Q /\ b \in Q /\ x \in Q /\ FlattenSeq(t) = a \o x \o b
  BY <1>10, FlattenInThree DEF Q
<1>13. k = Len(a) + j /\ j \in 1 .. Len(x)
  BY <1>9, <1>11
<1> HIDE DEF a, b, x
<1>14. (a \o x \o b)[k] = x[j]
  <2>1. /\ a \o x \in Q /\ Len(a \o x) = Len(a) + Len(x) /\ Len(a) \in Nat /\ Len(x) \in Nat
        /\ (a \o x)[Len(a) + j] = x[j]
    <3>1. a \o x \in Q
      BY <1>12, ConcatProperties DEF Q
    <3> QED BY <3>1, <1>3, <1>12, <1>13
  <2>2. k \in 1 .. Len(a \o x)
    BY <1>13, <2>1
  <2>3. ((a \o x) \o b)[k] = (a \o x)[k]
    BY <1>3, <1>12, <2>1, <2>2
  <2> QED BY <2>1, <2>3, <1>13
<1>15. FlattenSeq(t)[k] = x[j]
  BY <1>12, <1>14
<1> QED BY <1>10, <1>13, <1>15 DEF a, x

(* What each element stands for, in the same order.                        *)
Maps(m, C, D) == m \in [C -> D]
Mapped(m, s) == [k \in 1 .. Len(s) |-> m[s[k]]]

LEMMA MappedIs ==
  ASSUME NEW C, NEW D, NEW m, Maps(m, C, D), NEW s \in Seq(C)
  PROVE  /\ Mapped(m, s) \in Seq(D) /\ Len(Mapped(m, s)) = Len(s)
         /\ \A k \in 1 .. Len(s) : Mapped(m, s)[k] = m[s[k]]
<1>1. Len(s) \in Nat /\ \A k \in 1 .. Len(s) : m[s[k]] \in D
  BY DEF Maps
<1> DEFINE x == Mapped(m, s)
           N == Len(s)
<1>2. x = [k \in 1 .. N |-> m[s[k]]]
  BY DEF Mapped
<1>3. x \in [1 .. N -> D]
  BY <1>1, <1>2
<1> HIDE DEF N
<1>4. x \in Seq(D) /\ Len(x) = N
  BY <1>1, <1>2, <1>3 DEF N
<1> QED BY <1>2, <1>4 DEF N

LEMMA ConcatIs ==
  ASSUME NEW D, NEW x \in Seq(D), NEW y \in Seq(D)
  PROVE  /\ x \o y \in Seq(D) /\ Len(x \o y) = Len(x) + Len(y)
         /\ x \o y = [k \in 1 .. Len(x) + Len(y) |-> IF k <= Len(x) THEN x[k] ELSE y[k - Len(x)]]
<1> DEFINE xy == x \o y
           N == Len(x) + Len(y)
<1>1. /\ xy \in Seq(D) /\ Len(xy) = N
      /\ \A k \in 1 .. N : xy[k] = IF k <= Len(x) THEN x[k] ELSE y[k - Len(x)]
  OBVIOUS
<1> HIDE DEF xy
<1>2. xy = [k \in 1 .. N |-> xy[k]]
  BY <1>1
<1> QED BY <1>1, <1>2 DEF xy

LEMMA MappedBoth ==
  ASSUME NEW C, NEW D, NEW m, Maps(m, C, D)
  PROVE  \A v \in Seq(C) : \A w \in Seq(C) : Mapped(m, v \o w) = Mapped(m, v) \o Mapped(m, w)
<1> SUFFICES ASSUME NEW v \in Seq(C), NEW w \in Seq(C)
             PROVE  Mapped(m, v \o w) = Mapped(m, v) \o Mapped(m, w)
  OBVIOUS
<1> DEFINE x == Mapped(m, v)
           y == Mapped(m, w)
           M == Len(v)
           N == Len(w)
           vw == v \o w
<1>0. ASSUME NEW s \in Seq(C)
      PROVE  /\ Mapped(m, s) \in Seq(D) /\ Len(Mapped(m, s)) = Len(s)
             /\ \A k \in 1 .. Len(s) : Mapped(m, s)[k] = m[s[k]]
  BY MappedIs
<1>1. /\ x \in Seq(D) /\ Len(x) = M /\ \A k \in 1 .. M : x[k] = m[v[k]]
      /\ y \in Seq(D) /\ Len(y) = N /\ \A k \in 1 .. N : y[k] = m[w[k]]
  BY <1>0
<1>2. /\ M \in Nat /\ N \in Nat /\ vw \in Seq(C) /\ Len(vw) = M + N
      /\ \A k \in 1 .. M + N : vw[k] = IF k <= M THEN v[k] ELSE w[k - M]
  OBVIOUS
<1>3. Mapped(m, vw) = [k \in 1 .. M + N |-> m[vw[k]]]
  BY <1>2 DEF Mapped
<1> HIDE DEF x, y, M, N, vw
<1>4. x \o y = [k \in 1 .. M + N |-> IF k <= M THEN x[k] ELSE y[k - M]]
  <2>1. x \in Seq(D) /\ y \in Seq(D) /\ Len(x) = M /\ Len(y) = N
    BY <1>1
  <2>2. x \o y = [k \in 1 .. Len(x) + Len(y) |-> IF k <= Len(x) THEN x[k] ELSE y[k - Len(x)]]
    BY <2>1, ConcatIs
  <2> QED BY <2>1, <2>2
<1>5. ASSUME NEW k \in 1 .. M + N
      PROVE  m[vw[k]] = IF k <= M THEN x[k] ELSE y[k - M]
  <2>1. CASE k <= M
    <3>1. k \in 1 .. M
      BY <2>1, <1>2
    <3> QED BY <2>1, <3>1, <1>1, <1>2
  <2>2. CASE ~(k <= M)
    <3>1. k - M \in 1 .. N
      BY <2>2, <1>2
    <3> QED BY <2>2, <3>1, <1>1, <1>2
  <2> QED BY <2>1, <2>2
<1>6. Mapped(m, vw) = x \o y
  BY <1>3, <1>4, <1>5
<1> QED BY <1>6 DEF x, y, vw

LEMMA FlattenMapped ==
  ASSUME NEW C, NEW D, NEW m, Maps(m, C, D), NEW t \in Seq(Seq(C)), NEW u \in Seq(Seq(D)),
         Len(u) = Len(t), \A i \in 1 .. Len(t) : u[i] = Mapped(m, t[i])
  PROVE  FlattenSeq(u) = Mapped(m, FlattenSeq(t))
<1> DEFINE N == Len(t)
           Q == Seq(C)
           R == Seq(D)
<1>1. PICK f : SumsIn(C, t, f)
  BY PartsExist
<1>2. f \in [0 .. N -> Q] /\ f[0] = <<>> /\ \A i \in 1 .. N : f[i] = f[i - 1] \o t[i]
  BY <1>1 DEF SumsIn
<1>3. N \in Nat /\ \A i \in 1 .. N : t[i] \in Q /\ u[i] = Mapped(m, t[i])
  <2> HIDE DEF Q
  <2>1. t \in Seq(Q)
    BY DEF Q
  <2> QED BY <2>1
<1>4. \A s \in Q : Mapped(m, s) \in R
  BY MappedIs
<1>5. \A v \in Q : \A w \in Q : Mapped(m, v \o w) = Mapped(m, v) \o Mapped(m, w)
  BY MappedBoth
<1>6. Mapped(m, <<>>) = <<>>
  BY DEF Mapped
<1> DEFINE g == [i \in 0 .. N |-> Mapped(m, f[i])]
<1> HIDE DEF N, Q, R
<1>7. g \in [0 .. N -> R] /\ \A i \in 0 .. N : g[i] = Mapped(m, f[i])
  BY <1>2, <1>4
<1> HIDE DEF g
<1>8. \A i \in 1 .. N : i \in 0 .. N /\ i - 1 \in 0 .. N
  BY <1>3
<1>9. ASSUME NEW i \in 1 .. N PROVE g[i] = g[i - 1] \o u[i]
  <2>1. g[i] = Mapped(m, f[i - 1] \o t[i])
    BY <1>2, <1>7, <1>8
  <2>2. f[i - 1] \in Q /\ t[i] \in Q
    BY <1>2, <1>3, <1>8
  <2>3. g[i] = Mapped(m, f[i - 1]) \o Mapped(m, t[i])
    BY <2>1, <2>2, <1>5
  <2> QED BY <2>3, <1>3, <1>7, <1>8
<1>10. g[0] = <<>> /\ g[N] = Mapped(m, f[N])
  BY <1>2, <1>3, <1>6, <1>7
<1>11. SumsIn(D, u, g)
  BY <1>7, <1>9, <1>10 DEF SumsIn, N, R
<1>12. FlattenSeq(u) = g[N]
  BY <1>11, FlattenBy DEF N
<1>13. FlattenSeq(t) = f[N]
  BY <1>1, FlattenBy DEF N
<1> QED BY <1>10, <1>12, <1>13

-----------------------------------------------------------------------------
(* The text of a sequence of texts.                                        *)

Chars == Characters \cup {Null}
Strings == Seq(Chars)

LEMMA Associates ==
  ASSUME NEW u \in Strings, NEW v \in Strings, NEW w \in Strings
  PROVE  (u \o v) \o w = u \o (v \o w)
<1>1. \A S : \A a, b, c \in Seq(S) : (a \o b) \o c = a \o (b \o c)
  BY ConcatAssociative
<1> QED BY <1>1 DEF Strings

(* The text of the first ones.                                             *)
Sums(t, f) ==
    /\ f \in [0 .. Len(t) -> Strings] /\ f[0] = <<>>
    /\ \A i \in 1 .. Len(t) : f[i] = f[i - 1] \o t[i]

LEMMA SameFlat ==
  ASSUME NEW t
  PROVE  Text!FlattenSeq(t) = FlattenSeq(t) /\ Tables!FlattenSeq(t) = FlattenSeq(t)
<1>1. Text!FlattenSeq(t) = FlattenSeq(t)
  BY Zenon DEF Text!FlattenSeq, FlattenSeq
<1>2. Tables!FlattenSeq(t) = FlattenSeq(t)
  BY Zenon DEF Tables!FlattenSeq, FlattenSeq
<1> QED BY <1>1, <1>2

LEMMA SumsAreParts ==
  ASSUME NEW t, NEW f PROVE Sums(t, f) = SumsIn(Chars, t, f)
  BY DEF Sums, SumsIn, Strings

LEMMA SumsExist ==
  ASSUME NEW t \in Seq(Strings) PROVE \E f : Sums(t, f)
<1>1. \E f : SumsIn(Chars, t, f)
  BY PartsExist DEF Strings
<1> QED BY <1>1, SumsAreParts

LEMMA FlatBy ==
  ASSUME NEW t \in Seq(Strings), NEW f, Sums(t, f)
  PROVE  Text!FlattenSeq(t) = f[Len(t)]
<1>1. SumsIn(Chars, t, f)
  BY SumsAreParts
<1>2. FlattenSeq(t) = f[Len(t)]
  BY <1>1, FlattenBy DEF Strings
<1> QED BY <1>2, SameFlat

LEMMA FlatIsString ==
  ASSUME NEW t \in Seq(Strings) PROVE Text!FlattenSeq(t) \in Strings
<1>1. FlattenSeq(t) \in Strings
  BY FlattenIs DEF Strings
<1> QED BY <1>1, SameFlat

LEMMA FlatOfBoth ==
  ASSUME NEW s \in Seq(Strings), NEW t \in Seq(Strings)
  PROVE  Text!FlattenSeq(s \o t) = Text!FlattenSeq(s) \o Text!FlattenSeq(t)
<1>1. FlattenSeq(s \o t) = FlattenSeq(s) \o FlattenSeq(t)
  BY FlattenOfBoth DEF Strings
<1> QED BY <1>1, SameFlat

(* A text may move to an earlier one if there is nothing between the two.  *)
JoinsAt(t, a, b, u) ==
    /\ a \in 1 .. Len(t) /\ b \in 1 .. Len(t) /\ a < b
    /\ \A k \in 1 .. Len(t) : a < k /\ k < b => t[k] = <<>>
    /\ Len(u) = Len(t)
    /\ u[a] = t[a] \o t[b] /\ u[b] = <<>>
    /\ \A k \in 1 .. Len(t) : k # a /\ k # b => u[k] = t[k]

LEMMA FlatOfJoined ==
  ASSUME NEW t \in Seq(Strings), NEW u \in Seq(Strings), NEW a, NEW b, JoinsAt(t, a, b, u)
  PROVE  Text!FlattenSeq(u) = Text!FlattenSeq(t)
<1> DEFINE N == Len(t)
<1>1. PICK f : Sums(t, f)
  BY SumsExist
<1> DEFINE h == [i \in 0 .. N |-> IF a <= i /\ i < b THEN f[i] \o t[b] ELSE f[i]]
<1>2. N \in Nat /\ a \in Nat /\ b \in Nat /\ 1 <= a /\ a < b /\ b <= N
  BY DEF JoinsAt
<1>3. /\ \A i \in 0 .. N : f[i] \in Strings
      /\ f[0] = <<>>
      /\ \A i \in 1 .. N : f[i] = f[i - 1] \o t[i]
  BY <1>1 DEF Sums
<1>4. \A i \in 1 .. N : t[i] \in Strings /\ u[i] \in Strings
  BY DEF JoinsAt
<1>5. \A v, w \in Strings : v \o w \in Strings /\ v \o <<>> = v
  BY ConcatProperties, ConcatEmptySeq DEF Strings
<1> HIDE DEF N
<1>6. \A i \in 0 .. N : h[i] = IF a <= i /\ i < b THEN f[i] \o t[b] ELSE f[i]
  OBVIOUS
<1>7. h \in [0 .. N -> Strings]
  <2>1. ASSUME NEW i \in 0 .. N PROVE h[i] \in Strings
    <3>1. b \in 1 .. N
      BY <1>2
    <3> QED BY <3>1, <1>3, <1>4, <1>5, <1>6
  <2> QED BY <2>1
<1> HIDE DEF h
<1>8. ASSUME NEW i \in 1 .. N PROVE h[i] = h[i - 1] \o u[i]
  <2>1. i \in 0 .. N /\ i - 1 \in 0 .. N /\ i \in Nat /\ b \in 1 .. N /\ a \in 1 .. N
    BY <1>2
  <2>2. f[i] = f[i - 1] \o t[i] /\ f[i] \in Strings /\ f[i - 1] \in Strings
    BY <2>1, <1>3
  <2>0. i \in Int /\ a \in Int /\ b \in Int /\ a < b
    BY <2>1, <1>2
  <2>3. CASE i = a
    <3>1. h[i] = f[i] \o t[b] /\ h[i - 1] = f[i - 1]
      <4>1. a <= i /\ i < b /\ ~(a <= i - 1)
        BY <2>0, <2>3
      <4> QED BY <4>1, <2>1, <1>6
    <3>2. t[a] \in Strings /\ t[b] \in Strings /\ u[a] = t[a] \o t[b]
      BY <2>1, <1>4 DEF JoinsAt
    <3>3. (f[i - 1] \o t[a]) \o t[b] = f[i - 1] \o (t[a] \o t[b])
      BY <2>2, <3>2, Associates
    <3> QED BY <2>2, <2>3, <3>1, <3>2, <3>3
  <2>4. CASE a < i /\ i < b
    <3>1. t[i] = <<>> /\ u[i] = <<>>
      <4>1. i # a /\ i # b
        BY <2>4, <2>1, <1>2
      <4>2. u[i] = t[i] /\ t[i] = <<>>
        BY <2>4, <4>1 DEF N, JoinsAt
      <4> QED BY <4>2
    <3>2. h[i] = f[i] \o t[b] /\ h[i - 1] = f[i - 1] \o t[b]
      <4>1. a <= i /\ i < b /\ a <= i - 1 /\ i - 1 < b
        BY <2>0, <2>4
      <4> QED BY <4>1, <2>1, <1>6
    <3>3. f[i] = f[i - 1]
      BY <2>2, <3>1, <1>5
    <3>4. h[i - 1] \in Strings
      BY <2>1, <1>7
    <3> QED BY <3>1, <3>2, <3>3, <3>4, <1>5
  <2>5. CASE i = b
    <3>1. h[i] = f[i] /\ h[i - 1] = f[i - 1] \o t[b]
      <4>1. ~(i < b) /\ a <= i - 1 /\ i - 1 < b
        BY <2>0, <2>5
      <4> QED BY <4>1, <2>1, <1>6
    <3>2. h[i - 1] \in Strings
      BY <2>1, <1>7
    <3>3. u[i] = <<>>
      BY <2>5 DEF JoinsAt
    <3> QED BY <2>2, <2>5, <3>1, <3>2, <3>3, <1>5
  <2>6. CASE i < a \/ b < i
    <3>1. h[i] = f[i] /\ h[i - 1] = f[i - 1]
      BY <2>1, <2>6, <1>2, <1>6
    <3>2. i # a /\ i # b
      BY <2>1, <2>6, <1>2
    <3>3. u[i] = t[i]
      BY <3>2 DEF N, JoinsAt
    <3> QED BY <2>2, <3>1, <3>3
  <2>7. i = a \/ (a < i /\ i < b) \/ i = b \/ (i < a \/ b < i)
    BY <2>0
  <2> QED BY <2>3, <2>4, <2>5, <2>6, <2>7
<1>9. h[0] = <<>> /\ h[N] = f[N]
  BY <1>2, <1>3, <1>6
<1>10. Sums(u, h)
  BY <1>7, <1>8, <1>9 DEF Sums, N, JoinsAt
<1>11. Text!FlattenSeq(u) = h[N] /\ Text!FlattenSeq(t) = f[N]
  BY <1>1, <1>10, FlatBy DEF N, JoinsAt
<1> QED BY <1>9, <1>11

-----------------------------------------------------------------------------
(* The nodes: below the root leaves and elements, below these leaves.      *)

Holds(data) == data = Strings \/ data = Strings \cup {Null}
LeafNodes(data) == [kind : {"text", "comment"}, data : data]
InnerNodes(data) == [kind : {"element"}, childNodes : Seq(LeafNodes(data))]
AllNodes(data) == LeafNodes(data) \cup InnerNodes(data)
Roots(data) == [kind : {"element"}, childNodes : Seq(AllNodes(data))]

(* The text of some children.                                              *)
Words(s) == [i \in DOMAIN s |-> Text!ChildText(s[i])]
Told(s) == Text!FlattenSeq(Words(s))

LEMMA NullIsNoString ==
  Null \notin Strings /\ <<Null>> \in Strings /\ <<>> \in Strings
<1>1. Null \notin Strings
  BY DocumentAssumption DEF Strings, Chars
<1>2. Null \in Chars
  BY DEF Chars
<1> QED BY <1>1, <1>2 DEF Strings

LEMMA LeafIs ==
  ASSUME NEW D, Holds(D), NEW n \in LeafNodes(D)
  PROVE  /\ n.kind \in {"text", "comment"} /\ n.kind # "element" /\ n.data \in D
         /\ Text!IsText(n) <=> n.kind = "text"
         /\ Text!LeafText(n) \in Strings
         /\ Text!ChildText(n) = Text!LeafText(n)
         /\ n.kind = "comment" => Text!ChildText(n) = <<>>
         /\ n.kind = "text" => Text!ChildText(n) = IF n.data = Null THEN <<Null>> ELSE n.data
         /\ n = [kind |-> n.kind, data |-> n.data]
<1>1. n.kind \in {"text", "comment"} /\ n.data \in D /\ n = [kind |-> n.kind, data |-> n.data]
  BY DEF LeafNodes
<1>2. n.kind # "element" /\ (n.kind = "comment" => n.kind # "text")
  BY <1>1
<1>3. n.data \in Strings \/ n.data = Null
  BY <1>1 DEF Holds
<1>4. Text!LeafText(n) = IF n.kind = "text" THEN IF n.data = Null THEN <<Null>> ELSE n.data ELSE <<>>
  BY DEF Text!LeafText, Text!IsText, Text!Data
<1>5. Text!ChildText(n) = Text!LeafText(n)
  BY <1>2 DEF Text!ChildText
<1>6. Text!LeafText(n) \in Strings
  BY <1>3, <1>4, NullIsNoString
<1> QED BY <1>1, <1>2, <1>4, <1>5, <1>6 DEF Text!IsText

LEMMA LeavesAre ==
  ASSUME NEW D, Holds(D), NEW s \in Seq(LeafNodes(D))
  PROVE  /\ s \in Seq(AllNodes(D))
         /\ Words(s) = [i \in DOMAIN s |-> Text!LeafText(s[i])]
         /\ Words(s) \in Seq(Strings)
<1>1. s \in Seq(AllNodes(D))
  BY DEF AllNodes
<1>2. \A i \in DOMAIN s : s[i] \in LeafNodes(D)
  OBVIOUS
<1>3. \A i \in DOMAIN s : /\ Text!ChildText(s[i]) = Text!LeafText(s[i])
                          /\ Text!LeafText(s[i]) \in Strings
  BY <1>2, LeafIs
<1>4. Words(s) = [i \in DOMAIN s |-> Text!LeafText(s[i])]
  BY <1>3 DEF Words
<1>5. DOMAIN s = 1 .. Len(s) /\ Len(s) \in Nat
  OBVIOUS
<1>6. Words(s) \in Seq(Strings)
  BY <1>3, <1>4, <1>5
<1> QED BY <1>1, <1>4, <1>6

LEMMA InnerIs ==
  ASSUME NEW D, Holds(D), NEW n \in InnerNodes(D)
  PROVE  /\ n.kind = "element" /\ ~Text!IsText(n) /\ n.childNodes \in Seq(LeafNodes(D))
         /\ Text!ChildText(n) = Told(n.childNodes)
         /\ Text!ChildText(n) \in Strings
         /\ n = Text!Element(n.childNodes)
<1>1. n.kind = "element" /\ n.childNodes \in Seq(LeafNodes(D))
  BY DEF InnerNodes
<1>2. Text!ChildText(n) = Told(n.childNodes)
  BY <1>1, LeavesAre DEF Text!ChildText, Told
<1>3. Text!ChildText(n) \in Strings
  BY <1>1, <1>2, LeavesAre, FlatIsString DEF Told
<1>4. n = Text!Element(n.childNodes)
  BY DEF InnerNodes, Text!Element
<1> QED BY <1>1, <1>2, <1>3, <1>4 DEF Text!IsText

LEMMA ElementIsInner ==
  ASSUME NEW D, Holds(D), NEW s \in Seq(LeafNodes(D))
  PROVE  Text!Element(s) \in InnerNodes(D) /\ Text!Element(s).childNodes = s
  BY DEF Text!Element, InnerNodes

LEMMA NodesAre ==
  ASSUME NEW D, Holds(D), NEW s \in Seq(AllNodes(D))
  PROVE  /\ Words(s) \in Seq(Strings) /\ Len(Words(s)) = Len(s)
         /\ \A i \in 1 .. Len(s) : Words(s)[i] = Text!ChildText(s[i]) /\ Words(s)[i] \in Strings
         /\ Told(s) \in Strings
<1>1. DOMAIN s = 1 .. Len(s) /\ Len(s) \in Nat /\ \A i \in 1 .. Len(s) : s[i] \in AllNodes(D)
  OBVIOUS
<1>2. \A i \in 1 .. Len(s) : Text!ChildText(s[i]) \in Strings
  BY <1>1, LeafIs, InnerIs DEF AllNodes
<1>3. Words(s) = [i \in 1 .. Len(s) |-> Text!ChildText(s[i])]
  BY <1>1 DEF Words
<1>4. Words(s) \in Seq(Strings) /\ Len(Words(s)) = Len(s)
  BY <1>1, <1>2, <1>3
<1>5. \A i \in 1 .. Len(s) : Words(s)[i] = Text!ChildText(s[i])
  BY <1>3
<1>6. Told(s) \in Strings
  BY <1>4, FlatIsString DEF Told
<1> QED BY <1>2, <1>4, <1>5, <1>6

(* The same words are the same text.                                       *)
LEMMA SameWords ==
  ASSUME NEW D, Holds(D), NEW s \in Seq(AllNodes(D)), NEW t \in Seq(AllNodes(D)),
         Len(s) = Len(t), \A i \in 1 .. Len(s) : Text!ChildText(s[i]) = Text!ChildText(t[i])
  PROVE  Told(s) = Told(t)
<1>1. DOMAIN s = DOMAIN t /\ DOMAIN s = 1 .. Len(s)
  OBVIOUS
<1> QED BY <1>1 DEF Words, Told

LEMMA ToldOfBoth ==
  ASSUME NEW D, Holds(D), NEW s \in Seq(AllNodes(D)), NEW t \in Seq(AllNodes(D))
  PROVE  s \o t \in Seq(AllNodes(D)) /\ Told(s \o t) = Told(s) \o Told(t)
<1> DEFINE both == s \o t
<1>1. /\ both \in Seq(AllNodes(D)) /\ Len(both) = Len(s) + Len(t)
      /\ \A i \in 1 .. Len(both) : both[i] = IF i <= Len(s) THEN s[i] ELSE t[i - Len(s)]
      /\ Len(s) \in Nat /\ Len(t) \in Nat
  OBVIOUS
<1> HIDE DEF both
<1>2. /\ Words(s) \in Seq(Strings) /\ Len(Words(s)) = Len(s)
      /\ Words(t) \in Seq(Strings) /\ Len(Words(t)) = Len(t)
      /\ Words(both) \in Seq(Strings) /\ Len(Words(both)) = Len(both)
      /\ \A i \in 1 .. Len(s) : Words(s)[i] = Text!ChildText(s[i])
      /\ \A i \in 1 .. Len(t) : Words(t)[i] = Text!ChildText(t[i])
      /\ \A i \in 1 .. Len(both) : Words(both)[i] = Text!ChildText(both[i])
  BY <1>1, NodesAre
<1>3. Words(both) = Words(s) \o Words(t)
  <2> DEFINE ws == Words(s)
             wt == Words(t)
             wb == Words(both)
             wst == ws \o wt
  <2>1. /\ wst \in Seq(Strings) /\ Len(wst) = Len(ws) + Len(wt)
        /\ \A i \in 1 .. Len(wst) : wst[i] = IF i <= Len(ws) THEN ws[i] ELSE wt[i - Len(ws)]
    <3> HIDE DEF ws, wt
    <3>1. ws \in Seq(Strings) /\ wt \in Seq(Strings)
      BY <1>2 DEF ws, wt
    <3> QED BY <3>1
  <2>2. wb \in Seq(Strings) /\ Len(wb) = Len(wst)
    BY <1>1, <1>2, <2>1
  <2>3. ASSUME NEW i \in 1 .. Len(wb) PROVE wb[i] = wst[i]
    <3>1. /\ i \in 1 .. Len(both) /\ wb[i] = Text!ChildText(both[i])
          /\ i \in 1 .. Len(wst)
      BY <1>2, <2>2
    <3>2. CASE i <= Len(s)
      <4>1. i \in 1 .. Len(s)
        BY <3>1, <3>2, <1>1
      <4>2. wst[i] = ws[i] /\ both[i] = s[i]
        BY <3>1, <3>2, <2>1, <1>1, <1>2
      <4> QED BY <3>1, <4>1, <4>2, <1>2
    <3>3. CASE ~(i <= Len(s))
      <4>1. i - Len(s) \in 1 .. Len(t)
        BY <3>1, <3>3, <1>1
      <4>2. wst[i] = wt[i - Len(s)] /\ both[i] = t[i - Len(s)]
        BY <3>1, <3>3, <2>1, <1>1, <1>2
      <4> QED BY <3>1, <4>1, <4>2, <1>2
    <3> QED BY <3>2, <3>3
  <2> HIDE DEF wb, wst
  <2>4. wb = wst
    BY <2>1, <2>2, <2>3
  <2> QED BY <2>4 DEF wb, wst, ws, wt
<1>4. Told(both) = Told(s) \o Told(t)
  BY <1>2, <1>3, FlatOfBoth DEF Told
<1> QED BY <1>1, <1>4 DEF both

LEMMA ToldOfFew ==
  ASSUME NEW D, Holds(D), NEW n \in AllNodes(D)
  PROVE  /\ <<n>> \in Seq(AllNodes(D)) /\ Told(<<n>>) = Text!ChildText(n)
         /\ Told(<<>>) = <<>>
<1>1. <<n>> \in Seq(AllNodes(D)) /\ Len(<<n>>) = 1 /\ <<n>>[1] = n
  OBVIOUS
<1> DEFINE w == Words(<<n>>)
<1>2. w \in Seq(Strings) /\ Len(w) = 1 /\ w[1] = Text!ChildText(n) /\ w[1] \in Strings
  <2> HIDE DEF w
  <2>1. 1 \in 1 .. Len(<<n>>)
    BY <1>1
  <2> QED BY <1>1, <2>1, NodesAre DEF w
<1> HIDE DEF w
<1> DEFINE f == [i \in 0 .. 1 |-> IF i = 0 THEN <<>> ELSE w[1]]
<1>3. <<>> \o w[1] = w[1]
  BY <1>2, ConcatEmptySeq DEF Strings
<1>4. Sums(w, f)
  <2>1. f \in [0 .. 1 -> Strings] /\ f[0] = <<>> /\ f[1] = w[1]
    BY <1>2, NullIsNoString
  <2>2. \A i \in 1 .. 1 : f[i] = f[i - 1] \o w[i]
    <3>1. ASSUME NEW i \in 1 .. 1 PROVE f[i] = f[i - 1] \o w[i]
      <4>1. i = 1 /\ i - 1 = 0
        OBVIOUS
      <4> HIDE DEF f
      <4> QED BY <4>1, <1>3, <2>1
    <3> QED BY <3>1
  <2> HIDE DEF f
  <2> QED BY <1>2, <2>1, <2>2 DEF Sums
<1>5. Told(<<n>>) = Text!ChildText(n)
  <2>1. f[1] = w[1]
    OBVIOUS
  <2> HIDE DEF f
  <2> QED BY <1>2, <1>4, <2>1, FlatBy DEF Told, w
<1>6. Words(<<>>) = <<>>
  BY DEF Words
<1>7. Told(<<>>) = <<>>
  BY <1>6 DEF Told, Text!FlattenSeq
<1> QED BY <1>1, <1>5, <1>7

-----------------------------------------------------------------------------
(* normalize.                                                              *)

(* What is known of the children and of what is below them: K is what the  *)
(* children are, leaves or any nodes.                                      *)
Given(D, K, children, below) ==
    /\ Holds(D) /\ K \in {LeafNodes(D), AllNodes(D)} /\ children \in Seq(K)
    /\ \A i \in 1 .. Len(children) :
          children[i].kind = "element" =>
              /\ below[i].children \in Seq(LeafNodes(D)) /\ below[i].threw \in BOOLEAN
              /\ D = Strings => ~below[i].threw
              /\ ~below[i].threw =>
                    /\ Told(below[i].children) = Text!ChildText(children[i])
                    /\ Text!NormalList(below[i].children)

SeenStates(K) == [children : Seq(K), adjacent : Nat, redundant : SUBSET Nat, threw : BOOLEAN]
SeenAs(c, a, r, t) == [children |-> c, adjacent |-> a, redundant |-> r, threw |-> t]

(* A node that is redundant counts for nothing.                            *)
Counts(s) == [k \in 1 .. Len(s.children) |->
                 IF k \in s.redundant THEN <<>> ELSE Text!ChildText(s.children[k])]

KeptText(s, k) == k \notin s.redundant /\ s.children[k].kind = "text"
KeptOther(s, k) == k \notin s.redundant /\ s.children[k].kind # "text"

(* Of the first i children, and those that are left.                       *)
FullTexts(s, i) == \A k \in 1 .. i : KeptText(s, k) => s.children[k].data \notin {<<>>, Null}
NormalBelow(s, i) ==
    \A k \in 1 .. i : s.children[k].kind = "element" => Text!NormalList(s.children[k].childNodes)
OtherBetween(s, i) ==
    \A k \in 1 .. i, l \in 1 .. i :
        k < l /\ KeptText(s, k) /\ KeptText(s, l) => \E m \in k + 1 .. l - 1 : KeptOther(s, m)
AdjacentIs(s, i) ==
    IF s.adjacent = 0
    THEN \A k \in 1 .. i : KeptText(s, k) => \E m \in k + 1 .. i : KeptOther(s, m)
    ELSE /\ s.adjacent \in 1 .. i /\ KeptText(s, s.adjacent)
         /\ \A k \in s.adjacent + 1 .. i : k \in s.redundant

Undone(D, K, children, i, s) ==
    /\ s \in SeenStates(K) /\ Len(s.children) = Len(children)
    /\ D = Strings => ~s.threw
    /\ \A k \in i + 1 .. Len(children) : s.children[k] = children[k]
Done(children, i, s) ==
    /\ Text!FlattenSeq(Counts(s)) = Told(children)
    /\ s.redundant \subseteq 1 .. i
    /\ FullTexts(s, i) /\ NormalBelow(s, i) /\ OtherBetween(s, i) /\ AdjacentIs(s, i)
Goes(D, K, children, i, s) ==
    /\ Undone(D, K, children, i, s)
    /\ ~s.threw => Done(children, i, s)

LEMMA GivenIs ==
  ASSUME NEW D, NEW K, NEW children, NEW below, Given(D, K, children, below)
  PROVE  /\ Holds(D) /\ children \in Seq(K) /\ children \in Seq(AllNodes(D))
         /\ Seq(K) \subseteq Seq(AllNodes(D)) /\ LeafNodes(D) \subseteq K /\ K \subseteq AllNodes(D)
         /\ Len(children) \in Nat /\ DOMAIN children = 1 .. Len(children)
<1>1. Holds(D) /\ K \in {LeafNodes(D), AllNodes(D)} /\ children \in Seq(K)
  BY DEF Given
<1>2. LeafNodes(D) \subseteq K /\ K \subseteq AllNodes(D)
  BY <1>1 DEF AllNodes
<1>3. Seq(K) \subseteq Seq(AllNodes(D))
  BY <1>2
<1> QED BY <1>1, <1>2, <1>3

(* Any node of K, by its kind.                                             *)
LEMMA NodeOfK ==
  ASSUME NEW D, NEW K, NEW children, NEW below, Given(D, K, children, below), NEW n \in K
  PROVE  /\ n \in LeafNodes(D) \/ (n \in InnerNodes(D) /\ InnerNodes(D) \subseteq K)
         /\ n.kind # "element" => n \in LeafNodes(D) /\ n.data \in D
         /\ n.kind = "element" => /\ n \in InnerNodes(D) /\ InnerNodes(D) \subseteq K
                                  /\ n.childNodes \in Seq(LeafNodes(D))
         /\ Text!IsText(n) <=> n.kind = "text"
         /\ Text!ChildText(n) \in Strings
         /\ n.kind = "text" /\ n.data # Null => n.data \in Strings /\ Text!ChildText(n) = n.data
<1>1. Holds(D) /\ K \in {LeafNodes(D), AllNodes(D)}
  BY DEF Given
<1>2. n \in LeafNodes(D) \/ (n \in InnerNodes(D) /\ InnerNodes(D) \subseteq K)
  BY <1>1 DEF AllNodes
<1>3. CASE n \in LeafNodes(D)
  <2>1. /\ n.kind # "element" /\ n.data \in D /\ Text!ChildText(n) \in Strings
        /\ n.kind = "text" => Text!ChildText(n) = IF n.data = Null THEN <<Null>> ELSE n.data
    BY <1>1, <1>3, LeafIs
  <2>2. n.data \in Strings \/ n.data = Null
    BY <1>1, <2>1 DEF Holds
  <2> QED BY <1>2, <1>3, <2>1, <2>2 DEF Text!IsText
<1>4. CASE n \in InnerNodes(D) /\ InnerNodes(D) \subseteq K
  <2>1. n.kind = "element" /\ n.childNodes \in Seq(LeafNodes(D)) /\ Text!ChildText(n) \in Strings
    BY <1>1, <1>4, InnerIs
  <2>2. n.kind # "text"
    BY <2>1
  <2> QED BY <1>4, <2>1, <2>2 DEF Text!IsText
<1> QED BY <1>2, <1>3, <1>4

(* What is done at a child, in each of its cases.                          *)
VisitsTo(s, i, below, t) ==
    \/ s.threw /\ t = s
    \/ /\ ~s.threw /\ s.children[i].kind = "element"
       /\ t = SeenAs([s.children EXCEPT ![i] = Text!Element(below[i].children)], 0,
                     s.redundant, below[i].threw)
    \/ /\ ~s.threw /\ s.children[i].kind = "comment"
       /\ t = SeenAs(s.children, 0, s.redundant, FALSE)
    \/ /\ ~s.threw /\ s.children[i].kind = "text" /\ s.children[i].data = Null
       /\ t = SeenAs(s.children, s.adjacent, s.redundant, TRUE)
    \/ /\ ~s.threw /\ s.children[i].kind = "text" /\ s.children[i].data = <<>>
       /\ t = SeenAs(s.children, s.adjacent, s.redundant \cup {i}, FALSE)
    \/ /\ ~s.threw /\ s.children[i].kind = "text" /\ s.children[i].data \notin {Null, <<>>}
       /\ s.adjacent = 0 /\ t = SeenAs(s.children, i, s.redundant, FALSE)
    \/ /\ ~s.threw /\ s.children[i].kind = "text" /\ s.children[i].data \notin {Null, <<>>}
       /\ s.adjacent # 0
       /\ t = SeenAs([s.children EXCEPT ![s.adjacent] =
                         Text!Text(s.children[s.adjacent].data \o s.children[i].data)],
                     s.adjacent, s.redundant \cup {i}, FALSE)

LEMMA VisitIs ==
  ASSUME NEW D, NEW K, NEW children, NEW below, Given(D, K, children, below),
         NEW s \in SeenStates(K), NEW i \in 1 .. Len(s.children)
  PROVE  VisitsTo(s, i, below, Text!Visit(s, i, below))
<1> DEFINE c == s.children
           n == c[i]
           v == Text!Visit(s, i, below)
<1>1. /\ c \in Seq(K) /\ n \in K /\ s.threw \in BOOLEAN
      /\ s = SeenAs(c, s.adjacent, s.redundant, s.threw)
  BY DEF SeenStates, SeenAs
<1>2. n.kind \in {"text", "comment", "element"} /\ (Text!IsText(n) <=> n.kind = "text")
  <2>1. n \in LeafNodes(D) \/ n \in InnerNodes(D)
    BY <1>1, NodeOfK
  <2> QED BY <2>1 DEF LeafNodes, InnerNodes, Text!IsText
<1>4. CASE s.threw
  BY <1>4 DEF Text!Visit, VisitsTo
<1>5. CASE ~s.threw /\ n.kind = "element"
  <2>1. v = [s EXCEPT !.children = [c EXCEPT ![i] = Text!Element(below[i].children)],
                      !.adjacent = 0, !.threw = below[i].threw]
    BY <1>5 DEF Text!Visit
  <2>2. v = SeenAs([c EXCEPT ![i] = Text!Element(below[i].children)], 0, s.redundant, below[i].threw)
    <3> DEFINE x == [c EXCEPT ![i] = Text!Element(below[i].children)]
               t == below[i].threw
    <3>1. v = [s EXCEPT !.children = x, !.adjacent = 0, !.threw = t]
      BY <2>1
    <3> HIDE DEF x, t
    <3>2. v = SeenAs(x, 0, s.redundant, t)
      BY <1>1, <3>1 DEF SeenAs
    <3> QED BY <3>2 DEF x, t
  <2> QED BY <1>5, <2>2 DEF VisitsTo
<1>6. CASE ~s.threw /\ n.kind = "comment"
  <2>1. v = [s EXCEPT !.adjacent = 0]
    BY <1>2, <1>6 DEF Text!Visit
  <2>2. v = SeenAs(c, 0, s.redundant, FALSE)
    BY <1>1, <1>6, <2>1 DEF SeenAs
  <2> QED BY <1>6, <2>2 DEF VisitsTo
<1>7. CASE ~s.threw /\ n.kind = "text" /\ n.data = Null
  <2>1. v = [s EXCEPT !.threw = TRUE]
    BY <1>2, <1>7 DEF Text!Visit
  <2>2. v = SeenAs(c, s.adjacent, s.redundant, TRUE)
    BY <1>1, <1>7, <2>1 DEF SeenAs
  <2> QED BY <1>7, <2>2 DEF VisitsTo
<1>8. CASE ~s.threw /\ n.kind = "text" /\ n.data = <<>> /\ n.data # Null
  <2>1. v = [s EXCEPT !.redundant = s.redundant \cup {i}]
    BY <1>2, <1>8 DEF Text!Visit
  <2>2. v = SeenAs(c, s.adjacent, s.redundant \cup {i}, FALSE)
    BY <1>1, <1>8, <2>1 DEF SeenAs
  <2> QED BY <1>8, <2>2 DEF VisitsTo
<1>9. CASE ~s.threw /\ n.kind = "text" /\ n.data \notin {Null, <<>>} /\ s.adjacent = 0
  <2>1. v = [s EXCEPT !.adjacent = i]
    BY <1>2, <1>9 DEF Text!Visit
  <2>2. v = SeenAs(c, i, s.redundant, FALSE)
    BY <1>1, <1>9, <2>1 DEF SeenAs
  <2> QED BY <1>9, <2>2 DEF VisitsTo
<1>10. CASE ~s.threw /\ n.kind = "text" /\ n.data \notin {Null, <<>>} /\ s.adjacent # 0
  <2>1. v = [s EXCEPT !.children = [c EXCEPT ![s.adjacent] = Text!Text(c[s.adjacent].data \o n.data)],
                      !.redundant = s.redundant \cup {i}]
    BY <1>2, <1>10 DEF Text!Visit
  <2>2. v = SeenAs([c EXCEPT ![s.adjacent] = Text!Text(c[s.adjacent].data \o n.data)],
                   s.adjacent, s.redundant \cup {i}, FALSE)
    <3> DEFINE x == [c EXCEPT ![s.adjacent] = Text!Text(c[s.adjacent].data \o n.data)]
               r == s.redundant \cup {i}
    <3>1. v = [s EXCEPT !.children = x, !.redundant = r]
      BY <2>1
    <3> HIDE DEF x, r
    <3>2. v = SeenAs(x, s.adjacent, r, FALSE)
      BY <1>1, <1>10, <3>1 DEF SeenAs
    <3> QED BY <3>2 DEF x, r
  <2> QED BY <1>10, <2>2 DEF VisitsTo
<1> QED BY <1>1, <1>2, <1>4, <1>5, <1>6, <1>7, <1>8, <1>9, <1>10

(* The earlier ones are what they were.                                    *)
SameKept(s, t, i) ==
    \A k \in 1 .. i : /\ KeptText(t, k) <=> KeptText(s, k)
                      /\ KeptOther(t, k) <=> KeptOther(s, k)

LEMMA OneChildMore ==
  ASSUME NEW s, NEW t, NEW i \in Nat, i >= 1, SameKept(s, t, i - 1),
         OtherBetween(s, i - 1), AdjacentIs(s, i - 1)
  PROVE  /\ ~KeptText(t, i) => OtherBetween(t, i)
         /\ KeptOther(t, i) /\ t.adjacent = 0 => AdjacentIs(t, i)
         /\ i \in t.redundant /\ t.adjacent = s.adjacent /\ s.redundant \subseteq t.redundant =>
               AdjacentIs(t, i)
         /\ KeptText(t, i) /\ s.adjacent = 0 /\ t.adjacent = i =>
               OtherBetween(t, i) /\ AdjacentIs(t, i)
<1>1. \A k \in 1 .. i - 1 : /\ KeptText(t, k) <=> KeptText(s, k)
                            /\ KeptOther(t, k) <=> KeptOther(s, k)
  BY DEF SameKept
<1>2. \A k \in 1 .. i : k = i \/ k \in 1 .. i - 1
  OBVIOUS
<1>3. ASSUME NEW k \in 1 .. i - 1, NEW l \in 1 .. i - 1, k < l, KeptText(t, k), KeptText(t, l)
      PROVE  \E m \in k + 1 .. l - 1 : KeptOther(t, m)
  <2>1. KeptText(s, k) /\ KeptText(s, l)
    BY <1>1, <1>3
  <2>2. PICK m \in k + 1 .. l - 1 : KeptOther(s, m)
    BY <1>3, <2>1 DEF OtherBetween
  <2>3. m \in 1 .. i - 1
    OBVIOUS
  <2> QED BY <1>1, <2>2, <2>3
<1>4. ASSUME ~KeptText(t, i) PROVE OtherBetween(t, i)
  <2> SUFFICES ASSUME NEW k \in 1 .. i, NEW l \in 1 .. i, k < l, KeptText(t, k), KeptText(t, l)
               PROVE  \E m \in k + 1 .. l - 1 : KeptOther(t, m)
    BY DEF OtherBetween
  <2>1. k # i /\ l # i
    BY <1>4
  <2>2. k \in 1 .. i - 1 /\ l \in 1 .. i - 1
    BY <1>2, <2>1
  <2> QED BY <1>3, <2>2
<1>5. ASSUME KeptOther(t, i), t.adjacent = 0 PROVE AdjacentIs(t, i)
  <2>1. ~KeptText(t, i)
    BY <1>5 DEF KeptOther, KeptText
  <2>2. ASSUME NEW k \in 1 .. i, KeptText(t, k) PROVE \E m \in k + 1 .. i : KeptOther(t, m)
    <3>1. k # i
      BY <2>1, <2>2
    <3>2. i \in k + 1 .. i
      BY <3>1
    <3> QED BY <3>2, <1>5
  <2> QED BY <1>5, <2>2 DEF AdjacentIs
<1>6. ASSUME i \in t.redundant, t.adjacent = s.adjacent, s.redundant \subseteq t.redundant
      PROVE  AdjacentIs(t, i)
  <2>0. ~KeptText(t, i)
    BY <1>6 DEF KeptText
  <2>1. CASE s.adjacent = 0
    <3>1. ASSUME NEW k \in 1 .. i, KeptText(t, k) PROVE \E m \in k + 1 .. i : KeptOther(t, m)
      <4>1. k # i
        BY <2>0, <3>1
      <4>2. k \in 1 .. i - 1
        BY <1>2, <4>1
      <4>3. KeptText(s, k)
        BY <1>1, <3>1, <4>2
      <4>4. PICK m \in k + 1 .. i - 1 : KeptOther(s, m)
        BY <2>1, <4>2, <4>3 DEF AdjacentIs
      <4>5. m \in 1 .. i - 1 /\ m \in k + 1 .. i
        OBVIOUS
      <4> QED BY <1>1, <4>4, <4>5
    <3> QED BY <1>6, <2>1, <3>1 DEF AdjacentIs
  <2>2. CASE s.adjacent # 0
    <3>1. /\ s.adjacent \in 1 .. i - 1 /\ KeptText(s, s.adjacent)
          /\ \A k \in s.adjacent + 1 .. i - 1 : k \in s.redundant
      BY <2>2 DEF AdjacentIs
    <3>2. KeptText(t, s.adjacent) /\ s.adjacent \in 1 .. i /\ s.adjacent \in Int
      BY <1>1, <3>1
    <3>3. ASSUME NEW k \in s.adjacent + 1 .. i PROVE k \in t.redundant
      <4>1. CASE k = i
        BY <1>6, <4>1
      <4>2. CASE k # i
        <5>1. k \in s.adjacent + 1 .. i - 1
          BY <3>2, <4>2
        <5> QED BY <1>6, <3>1, <5>1
      <4> QED BY <4>1, <4>2
    <3> QED BY <1>6, <2>2, <3>2, <3>3 DEF AdjacentIs
  <2> QED BY <2>1, <2>2
<1>7. ASSUME KeptText(t, i), s.adjacent = 0, t.adjacent = i
      PROVE  OtherBetween(t, i) /\ AdjacentIs(t, i)
  <2>1. ASSUME NEW k \in 1 .. i, NEW l \in 1 .. i, k < l, KeptText(t, k), KeptText(t, l)
        PROVE  \E m \in k + 1 .. l - 1 : KeptOther(t, m)
    <3>1. k \in 1 .. i - 1
      BY <2>1
    <3>2. CASE l = i
      <4>1. KeptText(s, k)
        BY <1>1, <2>1, <3>1
      <4>2. PICK m \in k + 1 .. i - 1 : KeptOther(s, m)
        BY <1>7, <3>1, <4>1 DEF AdjacentIs
      <4>3. m \in 1 .. i - 1
        OBVIOUS
      <4> QED BY <1>1, <3>2, <4>2, <4>3
    <3>3. CASE l # i
      <4>1. l \in 1 .. i - 1
        BY <1>2, <3>3
      <4> QED BY <1>3, <2>1, <3>1, <4>1
    <3> QED BY <3>2, <3>3
  <2>2. i # 0 /\ i \in 1 .. i /\ \A k \in i + 1 .. i : FALSE
    OBVIOUS
  <2> QED BY <1>7, <2>1, <2>2 DEF OtherBetween, AdjacentIs
<1> QED BY <1>4, <1>5, <1>6, <1>7

LEMMA SeenIs ==
  ASSUME NEW c, NEW a, NEW r, NEW t
  PROVE  /\ SeenAs(c, a, r, t).children = c /\ SeenAs(c, a, r, t).adjacent = a
         /\ SeenAs(c, a, r, t).redundant = r /\ SeenAs(c, a, r, t).threw = t
  BY DEF SeenAs

(* Where a state stands that is not thrown out.                            *)
LEMMA StandsAt ==
  ASSUME NEW D, NEW K, NEW children, NEW below, Given(D, K, children, below),
         NEW i \in 1 .. Len(children), NEW s, Goes(D, K, children, i - 1, s), ~s.threw
  PROVE  /\ s \in SeenStates(K) /\ s.children \in Seq(K) /\ Len(s.children) = Len(children)
         /\ s.children[i] = children[i] /\ children[i] \in K
         /\ \A k \in 1 .. Len(children) : s.children[k] \in K
         /\ \A k \in i + 1 .. Len(children) : s.children[k] = children[k]
         /\ s.adjacent \in Nat /\ s.redundant \in SUBSET Nat
         /\ s.redundant \subseteq 1 .. i - 1 /\ i \notin s.redundant
         /\ i \in Nat /\ i >= 1 /\ Len(children) \in Nat
         /\ Text!FlattenSeq(Counts(s)) = Told(children)
         /\ FullTexts(s, i - 1) /\ NormalBelow(s, i - 1)
         /\ OtherBetween(s, i - 1) /\ AdjacentIs(s, i - 1)
         /\ Counts(s) \in Seq(Strings) /\ Len(Counts(s)) = Len(children)
         /\ \A k \in 1 .. Len(children) :
               Counts(s)[k] = IF k \in s.redundant THEN <<>> ELSE Text!ChildText(s.children[k])
<1>1. Undone(D, K, children, i - 1, s) /\ Done(children, i - 1, s)
  BY DEF Goes
<1>2. /\ s.children \in Seq(K) /\ s.adjacent \in Nat /\ s.redundant \in SUBSET Nat
      /\ s \in SeenStates(K) /\ Len(s.children) = Len(children)
  BY <1>1 DEF Undone, SeenStates
<1>3. children \in Seq(K) /\ Len(children) \in Nat
  BY GivenIs
<1>4. \A k \in i .. Len(children) : s.children[k] = children[k]
  BY <1>1 DEF Undone
<1>5. i \in i .. Len(children) /\ \A k \in i + 1 .. Len(children) : k \in i .. Len(children)
  BY <1>3
<1>6. s.children[i] = children[i] /\ children[i] \in K
  BY <1>3, <1>4, <1>5
<1>7. \A k \in 1 .. Len(children) : s.children[k] \in K
  BY <1>2
<1>8. s.redundant \subseteq 1 .. i - 1 /\ i \notin s.redundant
  BY <1>1 DEF Done
<1>9. /\ Counts(s) \in Seq(Strings) /\ Len(Counts(s)) = Len(children)
      /\ \A k \in 1 .. Len(children) :
            Counts(s)[k] = IF k \in s.redundant THEN <<>> ELSE Text!ChildText(s.children[k])
  <2>1. \A k \in 1 .. Len(children) : Text!ChildText(s.children[k]) \in Strings
    BY <1>7, NodeOfK
  <2> DEFINE w == [k \in 1 .. Len(children) |->
                      IF k \in s.redundant THEN <<>> ELSE Text!ChildText(s.children[k])]
  <2>2. Counts(s) = w
    BY <1>2 DEF Counts
  <2>3. w \in Seq(Strings) /\ Len(w) = Len(children)
    BY <1>3, <2>1, NullIsNoString
  <2>4. \A k \in 1 .. Len(children) :
           w[k] = IF k \in s.redundant THEN <<>> ELSE Text!ChildText(s.children[k])
    OBVIOUS
  <2> HIDE DEF w
  <2> QED BY <2>2, <2>3, <2>4
<1>10. i \in Nat /\ i >= 1
  OBVIOUS
<1> QED BY <1>1, <1>2, <1>3, <1>4, <1>5, <1>6, <1>7, <1>8, <1>9, <1>10 DEF Done

(* The same counts are the same text.                                      *)
LEMMA SameCounts ==
  ASSUME NEW s, NEW t, Len(s.children) = Len(t.children),
         \A k \in 1 .. Len(s.children) :
            (IF k \in s.redundant THEN <<>> ELSE Text!ChildText(s.children[k]))
               = (IF k \in t.redundant THEN <<>> ELSE Text!ChildText(t.children[k]))
  PROVE  Counts(s) = Counts(t)
  BY DEF Counts

LEMMA VisitElement ==
  ASSUME NEW D, NEW K, NEW children, NEW below, Given(D, K, children, below),
         NEW i \in 1 .. Len(children), NEW s, Goes(D, K, children, i - 1, s), ~s.threw,
         s.children[i].kind = "element", NEW t,
         t = SeenAs([s.children EXCEPT ![i] = Text!Element(below[i].children)], 0,
                    s.redundant, below[i].threw)
  PROVE  Goes(D, K, children, i, t)
<1> DEFINE c == s.children
           b == below[i].children
           e == Text!Element(b)
<1>1. /\ c \in Seq(K) /\ Len(c) = Len(children) /\ c[i] = children[i] /\ children[i] \in K
      /\ \A k \in i + 1 .. Len(children) : c[k] = children[k]
      /\ s.redundant \in SUBSET Nat /\ s.redundant \subseteq 1 .. i - 1 /\ i \notin s.redundant
      /\ i \in Nat /\ i >= 1 /\ Len(children) \in Nat
      /\ Text!FlattenSeq(Counts(s)) = Told(children)
      /\ FullTexts(s, i - 1) /\ NormalBelow(s, i - 1)
      /\ OtherBetween(s, i - 1) /\ AdjacentIs(s, i - 1)
  BY StandsAt
<1>2. /\ Holds(D) /\ b \in Seq(LeafNodes(D)) /\ below[i].threw \in BOOLEAN
      /\ D = Strings => ~below[i].threw
      /\ ~below[i].threw => Told(b) = Text!ChildText(c[i]) /\ Text!NormalList(b)
  BY <1>1 DEF Given
<1>3. e \in InnerNodes(D) /\ e.childNodes = b
  BY <1>2, ElementIsInner
<1>4. e \in K /\ e.kind = "element" /\ Text!ChildText(e) = Told(b)
  BY <1>1, <1>2, <1>3, NodeOfK, InnerIs
<1> HIDE DEF c, e, b
<1> DEFINE d == [c EXCEPT ![i] = e]
<1>5. /\ d \in Seq(K) /\ Len(d) = Len(children) /\ d[i] = e
      /\ \A k \in 1 .. Len(children) : k # i => d[k] = c[k]
  BY <1>1, <1>4
<1> HIDE DEF d
<1>6. t.children = d /\ t.adjacent = 0 /\ t.redundant = s.redundant /\ t.threw = below[i].threw
  BY SeenIs DEF d, c, e, b
<1>7. t \in SeenStates(K)
  BY <1>1, <1>2, <1>5 DEF SeenStates, SeenAs, d, c, e, b
<1>8. Undone(D, K, children, i, t)
  <2>1. \A k \in i + 1 .. Len(children) : k # i /\ k \in 1 .. Len(children)
    BY <1>1
  <2>2. \A k \in i + 1 .. Len(children) : d[k] = children[k]
    BY <1>1, <1>5, <2>1
  <2> QED BY <1>2, <1>5, <1>6, <1>7, <2>2 DEF Undone
<1>9. ASSUME ~t.threw PROVE Done(children, i, t)
  <2>1. Text!ChildText(d[i]) = Text!ChildText(c[i]) /\ Text!NormalList(d[i].childNodes)
    BY <1>2, <1>3, <1>4, <1>5, <1>6, <1>9
  <2>2. Counts(t) = Counts(s)
    BY <1>1, <1>5, <1>6, <2>1, SameCounts, SMTT(30) DEF c
  <2>3. \A k \in 1 .. i - 1 : k # i /\ k \in 1 .. Len(children)
    BY <1>1
  <2>4. SameKept(s, t, i - 1)
    BY <1>5, <1>6, <2>3 DEF SameKept, KeptText, KeptOther, c
  <2>5. ~KeptText(t, i) /\ KeptOther(t, i)
    BY <1>1, <1>4, <1>5, <1>6 DEF KeptText, KeptOther
  <2>6. OtherBetween(t, i) /\ AdjacentIs(t, i)
    BY <1>1, <1>6, <2>4, <2>5, OneChildMore
  <2>7. \A k \in 1 .. i : k = i \/ k \in 1 .. i - 1
    BY <1>1
  <2>8. FullTexts(t, i)
    BY <1>1, <1>5, <1>6, <2>3, <2>5, <2>7 DEF FullTexts, KeptText, c
  <2>9. NormalBelow(t, i)
    BY <1>1, <1>5, <1>6, <2>1, <2>3, <2>7 DEF NormalBelow, c
  <2>10. t.redundant \subseteq 1 .. i
    BY <1>1, <1>6
  <2> QED BY <1>1, <2>2, <2>6, <2>8, <2>9, <2>10 DEF Done
<1> QED BY <1>8, <1>9 DEF Goes

(* A child that stays as it is.                                            *)
LEMMA VisitChangesNone ==
  ASSUME NEW D, NEW K, NEW children, NEW below, Given(D, K, children, below),
         NEW i \in 1 .. Len(children), NEW s, Goes(D, K, children, i - 1, s), ~s.threw,
         NEW a \in Nat, NEW r \in SUBSET Nat, NEW thrown \in BOOLEAN, NEW t,
         t = SeenAs(s.children, a, r, thrown),
         r \in {s.redundant, s.redundant \cup {i}},
         \/ s.children[i].kind = "comment" /\ a = 0 /\ r = s.redundant /\ ~thrown
         \/ s.children[i].kind = "text" /\ s.children[i].data = Null /\ thrown
         \/ /\ s.children[i].kind = "text" /\ s.children[i].data = <<>> /\ ~thrown
            /\ a = s.adjacent /\ r = s.redundant \cup {i}
         \/ /\ s.children[i].kind = "text" /\ s.children[i].data \notin {Null, <<>>} /\ ~thrown
            /\ s.adjacent = 0 /\ a = i /\ r = s.redundant
  PROVE  Goes(D, K, children, i, t)
<1> DEFINE c == s.children
<1>1. /\ c \in Seq(K) /\ Len(c) = Len(children) /\ c[i] = children[i] /\ children[i] \in K
      /\ \A k \in i + 1 .. Len(children) : c[k] = children[k]
      /\ s.redundant \in SUBSET Nat /\ s.redundant \subseteq 1 .. i - 1 /\ i \notin s.redundant
      /\ i \in Nat /\ i >= 1 /\ Len(children) \in Nat
      /\ Text!FlattenSeq(Counts(s)) = Told(children)
      /\ FullTexts(s, i - 1) /\ NormalBelow(s, i - 1)
      /\ OtherBetween(s, i - 1) /\ AdjacentIs(s, i - 1)
  BY StandsAt
<1>2. t.children = c /\ t.adjacent = a /\ t.redundant = r /\ t.threw = thrown
  BY SeenIs
<1>3. t \in SeenStates(K)
  BY <1>1 DEF SeenStates, SeenAs
<1>4. D = Strings => ~t.threw
  <2> SUFFICES ASSUME D = Strings, thrown PROVE FALSE
    BY <1>2
  <2>1. c[i].kind = "text" /\ c[i].data = Null
    OBVIOUS
  <2>2. c[i].kind # "element"
    BY <2>1
  <2>3. c[i].data \in D
    BY <1>1, <2>2, NodeOfK
  <2> QED BY <2>1, <2>3, NullIsNoString
<1>5. Undone(D, K, children, i, t)
  BY <1>1, <1>2, <1>3, <1>4 DEF Undone
<1>6. ASSUME ~t.threw PROVE Done(children, i, t)
  <2>0. ~thrown
    BY <1>2, <1>6
  <2>1. c[i].kind \in {"text", "comment"} /\ c[i].kind # "element"
    BY <2>0
  <2>2. c[i] \in LeafNodes(D) /\ Holds(D)
    BY <1>1, <2>1, NodeOfK, GivenIs
  <2>3. i \in r => Text!ChildText(c[i]) = <<>>
    <3> SUFFICES ASSUME i \in r PROVE Text!ChildText(c[i]) = <<>>
      OBVIOUS
    <3>1. c[i].kind = "text" /\ c[i].data = <<>>
      BY <1>1, <2>0
    <3>2. c[i].data # Null
      BY <3>1, NullIsNoString
    <3> QED BY <1>1, <3>1, <3>2, NodeOfK
  <2>4. Counts(t) = Counts(s)
    <3>1. \A k : k # i => (k \in r <=> k \in s.redundant)
      OBVIOUS
    <3>2. \A k \in 1 .. Len(c) :
             (IF k \in s.redundant THEN <<>> ELSE Text!ChildText(c[k]))
                = (IF k \in r THEN <<>> ELSE Text!ChildText(c[k]))
      BY <1>1, <2>3, <3>1
    <3> QED BY <1>2, <3>2, SameCounts
  <2>5. \A k \in 1 .. i - 1 : k # i
    BY <1>1
  <2>6. SameKept(s, t, i - 1)
    BY <1>2, <2>5 DEF SameKept, KeptText, KeptOther
  <2>7. OtherBetween(t, i) /\ AdjacentIs(t, i)
    <3>1. CASE c[i].kind = "comment"
      <4>1. KeptOther(t, i) /\ ~KeptText(t, i) /\ t.adjacent = 0
        BY <1>1, <1>2, <2>0, <3>1 DEF KeptOther, KeptText
      <4> QED BY <1>1, <2>6, <4>1, OneChildMore
    <3>2. CASE c[i].kind = "text" /\ i \in r
      <4>1. ~KeptText(t, i) /\ i \in t.redundant /\ t.adjacent = s.adjacent
        BY <1>1, <1>2, <2>0, <3>2 DEF KeptText
      <4>2. s.redundant \subseteq t.redundant
        BY <1>2
      <4> QED BY <1>1, <2>6, <4>1, <4>2, OneChildMore
    <3>3. CASE c[i].kind = "text" /\ i \notin r
      <4>1. KeptText(t, i) /\ s.adjacent = 0 /\ t.adjacent = i
        BY <1>1, <1>2, <2>0, <3>3 DEF KeptText
      <4> QED BY <1>1, <2>6, <4>1, OneChildMore
    <3> QED BY <2>1, <3>1, <3>2, <3>3
  <2>8. \A k \in 1 .. i : k = i \/ k \in 1 .. i - 1
    BY <1>1
  <2>9. KeptText(t, i) => c[i].data \notin {<<>>, Null}
    BY <1>1, <1>2, <2>0 DEF KeptText
  <2>10. FullTexts(t, i)
    BY <1>1, <1>2, <2>5, <2>6, <2>8, <2>9 DEF FullTexts, SameKept
  <2>11. NormalBelow(t, i)
    BY <1>1, <1>2, <2>1, <2>8 DEF NormalBelow
  <2>12. t.redundant \subseteq 1 .. i
    BY <1>1, <1>2
  <2> QED BY <1>1, <2>4, <2>7, <2>10, <2>11, <2>12 DEF Done
<1> QED BY <1>5, <1>6 DEF Goes

(* A text that is joined to the one before.                                *)
LEMMA VisitJoins ==
  ASSUME NEW D, NEW K, NEW children, NEW below, Given(D, K, children, below),
         NEW i \in 1 .. Len(children), NEW s, Goes(D, K, children, i - 1, s), ~s.threw,
         s.children[i].kind = "text", s.children[i].data \notin {Null, <<>>}, s.adjacent # 0,
         NEW t,
         t = SeenAs([s.children EXCEPT ![s.adjacent] =
                        Text!Text(s.children[s.adjacent].data \o s.children[i].data)],
                    s.adjacent, s.redundant \cup {i}, FALSE)
  PROVE  Goes(D, K, children, i, t)
<1> DEFINE c == s.children
           a == s.adjacent
           e == Text!Text(c[a].data \o c[i].data)
<1>1. /\ c \in Seq(K) /\ Len(c) = Len(children) /\ c[i] = children[i] /\ children[i] \in K
      /\ \A k \in 1 .. Len(children) : c[k] \in K
      /\ \A k \in i + 1 .. Len(children) : c[k] = children[k]
      /\ s.redundant \in SUBSET Nat /\ s.redundant \subseteq 1 .. i - 1 /\ i \notin s.redundant
      /\ i \in Nat /\ i >= 1 /\ Len(children) \in Nat
      /\ Text!FlattenSeq(Counts(s)) = Told(children)
      /\ FullTexts(s, i - 1) /\ NormalBelow(s, i - 1)
      /\ OtherBetween(s, i - 1) /\ AdjacentIs(s, i - 1)
      /\ Counts(s) \in Seq(Strings) /\ Len(Counts(s)) = Len(children)
      /\ \A k \in 1 .. Len(children) :
            Counts(s)[k] = IF k \in s.redundant THEN <<>> ELSE Text!ChildText(c[k])
  BY StandsAt
<1>2. /\ a \in 1 .. i - 1 /\ KeptText(s, a) /\ a \in Nat
      /\ \A k \in a + 1 .. i - 1 : k \in s.redundant
  BY <1>1 DEF AdjacentIs
<1>3. /\ a \in 1 .. Len(children) /\ a # i /\ a < i
      /\ c[a].kind = "text" /\ a \notin s.redundant /\ c[a].data \notin {<<>>, Null}
  BY <1>1, <1>2 DEF KeptText, FullTexts
<1>4. /\ c[a].data \in Strings /\ Text!ChildText(c[a]) = c[a].data
      /\ c[i].data \in Strings /\ Text!ChildText(c[i]) = c[i].data
  BY <1>1, <1>3, NodeOfK
<1>5. c[a].data \o c[i].data \in Strings /\ c[a].data \o c[i].data \notin {<<>>, Null}
  <2> DEFINE u == c[a].data
             v == c[i].data
  <2>1. u \in Seq(Chars) /\ v \in Seq(Chars) /\ u # <<>>
    BY <1>3, <1>4 DEF Strings
  <2> HIDE DEF u, v
  <2>2. u \o v \in Seq(Chars) /\ u \o v # <<>>
    BY <2>1
  <2> QED BY <2>2, NullIsNoString DEF Strings, u, v
<1>6. /\ e \in K /\ e.kind = "text" /\ e.data = c[a].data \o c[i].data
      /\ Text!ChildText(e) = c[a].data \o c[i].data
  <2>1. Holds(D) /\ LeafNodes(D) \subseteq K
    BY GivenIs
  <2>2. e.kind = "text" /\ e.data = c[a].data \o c[i].data
    BY Zenon DEF Text!Text
  <2>3. e \in LeafNodes(D)
    BY <1>5, <2>1, Zenon DEF Holds, LeafNodes, Text!Text
  <2>4. e \in K
    BY <2>1, <2>3
  <2> HIDE DEF e
  <2> QED BY <1>5, <2>2, <2>4, NodeOfK, Zenon
<1> HIDE DEF c, e, a
<1> DEFINE d == [c EXCEPT ![a] = e]
           r == s.redundant \cup {i}
<1>7. /\ d \in Seq(K) /\ Len(d) = Len(children) /\ d[a] = e
      /\ \A k \in 1 .. Len(children) : k # a => d[k] = c[k]
  BY <1>1, <1>3, <1>6
<1> HIDE DEF d
<1>8. t.children = d /\ t.adjacent = a /\ t.redundant = r /\ t.threw = FALSE
  <2>1. t = SeenAs(d, a, r, FALSE)
    BY DEF d, c, e, a
  <2> HIDE DEF r
  <2> DEFINE new == SeenAs(d, a, r, FALSE)
  <2>2. new.children = d /\ new.adjacent = a /\ new.redundant = r /\ new.threw = FALSE
    BY DEF SeenAs
  <2>3. t = new
    BY <2>1
  <2> HIDE DEF new
  <2> QED BY <2>2, <2>3
<1>9. t \in SeenStates(K)
  BY <1>1, <1>2, <1>7 DEF SeenStates, SeenAs, d, c, e, a
<1>10. \A k \in i + 1 .. Len(children) : k # a /\ k \in 1 .. Len(children)
  BY <1>1, <1>3
<1>11. Undone(D, K, children, i, t)
  BY <1>1, <1>7, <1>8, <1>9, <1>10 DEF Undone
<1>12. Text!FlattenSeq(Counts(t)) = Text!FlattenSeq(Counts(s))
  <2> DEFINE u == Counts(s)
             w == Counts(t)
  <2>1. w = [k \in 1 .. Len(children) |-> IF k \in r THEN <<>> ELSE Text!ChildText(d[k])]
    BY <1>7, <1>8 DEF Counts
  <2>2. \A k \in 1 .. Len(children) : Text!ChildText(d[k]) \in Strings
    <3>1. \A k \in 1 .. Len(children) : d[k] \in K
      BY <1>7
    <3> QED BY <3>1, NodeOfK
  <2>3. w \in Seq(Strings) /\ Len(w) = Len(children)
    <3>1. \A k \in 1 .. Len(children) :
             (IF k \in r THEN <<>> ELSE Text!ChildText(d[k])) \in Strings
      BY <2>2, NullIsNoString
    <3> HIDE DEF w
    <3> QED BY <1>1, <2>1, <3>1
  <2>4. \A k \in 1 .. Len(children) : w[k] = IF k \in r THEN <<>> ELSE Text!ChildText(d[k])
    BY <2>1
  <2>5. u[a] = c[a].data /\ u[i] = c[i].data
    BY <1>1, <1>3, <1>4
  <2>6. w[a] = u[a] \o u[i] /\ w[i] = <<>>
    BY <1>3, <1>6, <1>7, <2>4, <2>5
  <2>7. \A k \in 1 .. Len(children) : k # a /\ k # i => w[k] = u[k]
    BY <1>1, <1>7, <2>4, Zenon
  <2>8. \A k \in 1 .. Len(children) : a < k /\ k < i => u[k] = <<>>
    <3>1. \A k \in 1 .. Len(children) : a < k /\ k < i => k \in a + 1 .. i - 1
      BY <1>1, <1>2
    <3> QED BY <1>1, <1>2, <3>1
  <2>9. u \in Seq(Strings) /\ Len(u) = Len(children)
    BY <1>1
  <2> HIDE DEF u, w
  <2>10. JoinsAt(u, a, i, w)
    BY <1>3, <2>3, <2>6, <2>7, <2>8, <2>9 DEF JoinsAt
  <2>11. Text!FlattenSeq(w) = Text!FlattenSeq(u)
    BY <2>3, <2>9, <2>10, FlatOfJoined
  <2> QED BY <2>11 DEF u, w
<1>13. \A k \in 1 .. i - 1 : k # i /\ k \in 1 .. Len(children)
  BY <1>1
<1>14. \A k \in 1 .. Len(children) : d[k].kind = c[k].kind
  BY <1>3, <1>6, <1>7
<1>15. SameKept(s, t, i - 1)
  BY <1>8, <1>13, <1>14 DEF SameKept, KeptText, KeptOther, c
<1>16. OtherBetween(t, i) /\ AdjacentIs(t, i)
  <2>1. ~KeptText(t, i) /\ i \in t.redundant /\ t.adjacent = s.adjacent
    BY <1>8 DEF KeptText, a
  <2>2. s.redundant \subseteq t.redundant
    BY <1>8
  <2> QED BY <1>1, <1>15, <2>1, <2>2, OneChildMore
<1>17. \A k \in 1 .. i : k = i \/ k \in 1 .. i - 1
  BY <1>1
<1>18. FullTexts(t, i)
  <2> SUFFICES ASSUME NEW k \in 1 .. i, KeptText(t, k) PROVE d[k].data \notin {<<>>, Null}
    BY <1>8, Zenon DEF FullTexts
  <2>1. k \in 1 .. i - 1 /\ KeptText(s, k)
    BY <1>8, <1>15, <1>17, Zenon DEF KeptText, SameKept
  <2>2. CASE k = a
    BY <2>2, <1>5, <1>6, <1>7
  <2>3. CASE k # a
    BY <2>1, <2>3, <1>1, <1>7, <1>13 DEF FullTexts, c
  <2> QED BY <2>2, <2>3
<1>19. NormalBelow(t, i)
  <2> SUFFICES ASSUME NEW k \in 1 .. i, d[k].kind = "element"
               PROVE  Text!NormalList(d[k].childNodes)
    BY <1>8 DEF NormalBelow
  <2>1. k # i /\ k # a
    <3>1. c[i].kind = "text"
      BY DEF c
    <3>2. i # a /\ d[i] = c[i]
      BY <1>3, <1>7
    <3> QED BY <1>6, <1>7, <3>1, <3>2
  <2>2. k \in 1 .. i - 1
    BY <1>17, <2>1
  <2> QED BY <2>1, <2>2, <1>1, <1>7, <1>13 DEF NormalBelow, c
<1>20. t.redundant \subseteq 1 .. i
  <2>1. \A k \in s.redundant : k \in 1 .. i
    <3>1. \A k \in 1 .. i - 1 : k \in 1 .. i
      BY <1>1
    <3> QED BY <1>1, <3>1
  <2>2. i \in 1 .. i
    BY <1>1
  <2> QED BY <1>8, <2>1, <2>2
<1>21. Done(children, i, t)
  BY <1>1, <1>12, <1>16, <1>18, <1>19, <1>20 DEF Done
<1> QED BY <1>11, <1>21 DEF Goes

LEMMA VisitGoes ==
  ASSUME NEW D, NEW K, NEW children, NEW below, Given(D, K, children, below),
         NEW i \in 1 .. Len(children), NEW s, Goes(D, K, children, i - 1, s)
  PROVE  Goes(D, K, children, i, Text!Visit(s, i, below))
<1> DEFINE t == Text!Visit(s, i, below)
           c == s.children
<1>1. s \in SeenStates(K) /\ Len(c) = Len(children) /\ Len(children) \in Nat
  BY GivenIs DEF Goes, Undone
<1>2. /\ c \in Seq(K) /\ s.adjacent \in Nat /\ s.redundant \in SUBSET Nat
      /\ s.redundant \cup {i} \in SUBSET Nat /\ i \in Nat
  BY <1>1 DEF SeenStates
<1>3. VisitsTo(s, i, below, t)
  BY <1>1, VisitIs
<1> SUFFICES Goes(D, K, children, i, t)
  OBVIOUS
<1> HIDE DEF t
<1>4. CASE s.threw /\ t = s
  <2>1. \A k \in i + 1 .. Len(children) : k \in (i - 1) + 1 .. Len(children)
    BY <1>1
  <2> QED BY <1>4, <2>1 DEF Goes, Undone
<1>5. CASE ~s.threw /\ c[i].kind = "element" /\
           t = SeenAs([c EXCEPT ![i] = Text!Element(below[i].children)], 0,
                      s.redundant, below[i].threw)
  BY <1>5, VisitElement
<1>6. CASE ~s.threw /\ c[i].kind = "comment" /\ t = SeenAs(c, 0, s.redundant, FALSE)
  <2> DEFINE no == FALSE
  <2>1. no \in BOOLEAN /\ ~no /\ t = SeenAs(c, 0, s.redundant, no) /\ 0 \in Nat
    BY <1>6
  <2> HIDE DEF no
  <2> QED BY <1>2, <1>6, <2>1, VisitChangesNone
<1>7. CASE ~s.threw /\ c[i].kind = "text" /\ c[i].data = Null
           /\ t = SeenAs(c, s.adjacent, s.redundant, TRUE)
  <2> DEFINE yes == TRUE
  <2>1. yes \in BOOLEAN /\ yes /\ t = SeenAs(c, s.adjacent, s.redundant, yes)
    BY <1>7
  <2> HIDE DEF yes
  <2> QED BY <1>2, <1>7, <2>1, VisitChangesNone
<1>8. CASE ~s.threw /\ c[i].kind = "text" /\ c[i].data = <<>>
           /\ t = SeenAs(c, s.adjacent, s.redundant \cup {i}, FALSE)
  <2> DEFINE no == FALSE
             r == s.redundant \cup {i}
  <2>1. /\ no \in BOOLEAN /\ ~no /\ t = SeenAs(c, s.adjacent, r, no)
        /\ r = s.redundant \cup {i} /\ r \in SUBSET Nat
    BY <1>2, <1>8
  <2> HIDE DEF no, r
  <2> QED BY <1>2, <1>8, <2>1, VisitChangesNone
<1>9. CASE ~s.threw /\ c[i].kind = "text" /\ c[i].data \notin {Null, <<>>} /\ s.adjacent = 0
           /\ t = SeenAs(c, i, s.redundant, FALSE)
  <2> DEFINE no == FALSE
  <2>1. no \in BOOLEAN /\ ~no /\ t = SeenAs(c, i, s.redundant, no)
    BY <1>9
  <2> HIDE DEF no
  <2> QED BY <1>2, <1>9, <2>1, VisitChangesNone
<1>10. CASE ~s.threw /\ c[i].kind = "text" /\ c[i].data \notin {Null, <<>>} /\ s.adjacent # 0
            /\ t = SeenAs([c EXCEPT ![s.adjacent] = Text!Text(c[s.adjacent].data \o c[i].data)],
                          s.adjacent, s.redundant \cup {i}, FALSE)
  BY <1>10, VisitJoins
<1> QED BY <1>3, <1>4, <1>5, <1>6, <1>7, <1>8, <1>9, <1>10 DEF VisitsTo

FirstSeen(children) == SeenAs(children, 0, {}, FALSE)

LEMMA GoesFirst ==
  ASSUME NEW D, NEW K, NEW children, NEW below, Given(D, K, children, below)
  PROVE  Goes(D, K, children, 0, FirstSeen(children))
<1> DEFINE s == FirstSeen(children)
<1>1. children \in Seq(K) /\ children \in Seq(AllNodes(D)) /\ Holds(D) /\ Len(children) \in Nat
      /\ DOMAIN children = 1 .. Len(children)
  BY GivenIs
<1>2. s.children = children /\ s.adjacent = 0 /\ s.redundant = {} /\ s.threw = FALSE
  BY DEF FirstSeen, SeenAs
<1>3. s \in SeenStates(K)
  BY <1>1 DEF SeenStates, FirstSeen, SeenAs
<1> HIDE DEF s
<1>4. Counts(s) = Words(children)
  BY <1>1, <1>2 DEF Counts, Words
<1>5. Undone(D, K, children, 0, s)
  BY <1>1, <1>2, <1>3 DEF Undone
<1>6. \A k \in 1 .. 0 : FALSE
  OBVIOUS
<1>7. Done(children, 0, s)
  BY <1>2, <1>4, <1>6 DEF Done, Told, FullTexts, NormalBelow, OtherBetween, AdjacentIs
<1> QED BY <1>5, <1>7 DEF Goes, s

(* So it goes to the last.                                                 *)
LEMMA VisitedAll ==
  ASSUME NEW D, NEW K, NEW children, NEW below, Given(D, K, children, below)
  PROVE  Goes(D, K, children, Len(children), Text!VisitAll(children, below))
<1> DEFINE N == Len(children)
           S == SeenStates(K)
           first == FirstSeen(children)
           Goes1(i, s) == Goes(D, K, children, i, s)
           step == [i \in 1 .. N |-> [s \in S |->
                       IF Text!Visit(s, i, below) \in S THEN Text!Visit(s, i, below) ELSE s]]
           Is(f) == f = [i \in 0 .. N |->
                            IF i = 0
                            THEN [children |-> children, adjacent |-> 0, redundant |-> {},
                                  threw |-> FALSE]
                            ELSE Text!Visit(f[i - 1], i, below)]
<1>1. N \in Nat
  BY GivenIs
<1>2. \A i, s : Goes1(i, s) => s \in S
  BY DEF Goes, Undone
<1>3. Goes1(0, first) /\ first \in S
  <2>1. Goes1(0, first)
    BY GoesFirst
  <2> HIDE DEF Goes1, first, S
  <2> QED BY <1>2, <2>1
<1>4. \A s : \A i \in 1 .. N : Goes1(i - 1, s) => Goes1(i, Text!Visit(s, i, below))
  BY VisitGoes
<1>5. /\ step \in [1 .. N -> [S -> S]]
      /\ \A i \in 1 .. N, s \in S :
            Text!Visit(s, i, below) \in S => step[i][s] = Text!Visit(s, i, below)
  OBVIOUS
<1>6. first = [children |-> children, adjacent |-> 0, redundant |-> {}, threw |-> FALSE]
  BY DEF FirstSeen, SeenAs
<1> HIDE DEF N, S, first, Goes1, step
<1>7. PICK g \in [0 .. N -> S] : g[0] = first /\ Computes(g, step, N)
  BY <1>1, <1>3, <1>5, Computed
<1> DEFINE M == {i \in 0 .. N : Goes1(i, g[i])}
<1>8. \A i \in 0 .. N : i \in M
  <2>1. 0 \in M
    BY <1>1, <1>3, <1>7
  <2>2. ASSUME NEW k \in 0 .. N - 1, k \in M PROVE k + 1 \in M
    <3>1. k + 1 \in 1 .. N /\ (k + 1) - 1 = k /\ k + 1 \in 0 .. N /\ k \in 0 .. N
      BY <1>1
    <3>2. Goes1(k, g[k]) /\ g[k] \in S
      BY <2>2, <3>1, <1>7
    <3>3. Goes1(k + 1, Text!Visit(g[k], k + 1, below))
      BY <3>1, <3>2, <1>4
    <3>4. g[k + 1] = step[k + 1][g[k]]
      BY <3>1, <1>7 DEF Computes
    <3>5. g[k + 1] = Text!Visit(g[k], k + 1, below)
      BY <3>1, <3>2, <3>3, <3>4, <1>2, <1>5
    <3> QED BY <3>1, <3>3, <3>5
  <2> HIDE DEF M
  <2> QED BY <1>1, <2>1, <2>2, StepByStep
<1>9. \A i \in 1 .. N : i - 1 \in 0 .. N /\ i \in 0 .. N /\ i # 0
  BY <1>1
<1>10. \A i \in 1 .. N : g[i] = Text!Visit(g[i - 1], i, below)
  <2> SUFFICES ASSUME NEW i \in 1 .. N PROVE g[i] = Text!Visit(g[i - 1], i, below)
    OBVIOUS
  <2>1. Goes1(i - 1, g[i - 1]) /\ g[i - 1] \in S
    BY <1>7, <1>8, <1>9
  <2>2. Text!Visit(g[i - 1], i, below) \in S
    BY <2>1, <1>2, <1>4
  <2>3. g[i] = step[i][g[i - 1]]
    BY <1>7 DEF Computes
  <2> QED BY <2>1, <2>2, <2>3, <1>5
<1>11. Is(g)
  <2>1. ASSUME NEW i \in 0 .. N
        PROVE  g[i] = IF i = 0
                      THEN [children |-> children, adjacent |-> 0, redundant |-> {}, threw |-> FALSE]
                      ELSE Text!Visit(g[i - 1], i, below)
    <3>1. CASE i = 0
      BY <3>1, <1>6, <1>7
    <3>2. CASE i # 0
      <4>1. i \in 1 .. N
        BY <3>2, <1>1
      <4> QED BY <3>2, <4>1, <1>10
    <3> QED BY <3>1, <3>2
  <2> QED BY <2>1, <1>7
<1> DEFINE f == CHOOSE f : Is(f)
<1>12. Is(f)
  <2> HIDE DEF Is
  <2> QED BY <1>11
<1>13. Text!VisitAll(children, below) = f[N]
  BY DEF Text!VisitAll, N
<1> HIDE DEF f
<1>14. /\ f[0] = first
       /\ \A i \in 1 .. N : f[i] = Text!Visit(f[i - 1], i, below)
  <2>1. 0 \in 0 .. N
    BY <1>1
  <2> QED BY <2>1, <1>6, <1>9, <1>12
<1> DEFINE L == {i \in 0 .. N : Goes1(i, f[i])}
<1>15. \A i \in 0 .. N : i \in L
  <2>1. 0 \in L
    BY <1>1, <1>3, <1>14
  <2>2. ASSUME NEW k \in 0 .. N - 1, k \in L PROVE k + 1 \in L
    <3>1. k + 1 \in 1 .. N /\ (k + 1) - 1 = k /\ k + 1 \in 0 .. N
      BY <1>1
    <3> QED BY <2>2, <3>1, <1>4, <1>14
  <2> HIDE DEF L
  <2> QED BY <1>1, <2>1, <2>2, StepByStep
<1>16. Goes1(N, f[N])
  <2>1. N \in 0 .. N
    BY <1>1
  <2> QED BY <2>1, <1>15
<1> QED BY <1>13, <1>16 DEF Goes1, N

-----------------------------------------------------------------------------
(* The redundant ones are taken out, one child after the other.            *)

Keeps(c, r, K, f) ==
    /\ f \in [0 .. Len(c) -> Seq(K)] /\ f[0] = <<>>
    /\ \A i \in 1 .. Len(c) : f[i] = IF i \in r THEN f[i - 1] ELSE Append(f[i - 1], c[i])

LEMMA WithoutIs ==
  ASSUME NEW K, NEW c \in Seq(K), NEW r
  PROVE  \E f : Keeps(c, r, K, f) /\ Text!Without(c, r) = f[Len(c)]
<1> DEFINE N == Len(c)
           S == Seq(K)
           step == [i \in 1 .. N |-> [q \in S |-> IF i \in r THEN q ELSE Append(q, c[i])]]
           Is(f) == f = [i \in 0 .. N |->
                            IF i = 0 THEN <<>>
                            ELSE IF i \in r THEN f[i - 1]
                            ELSE Append(f[i - 1], c[i])]
<1>1. N \in Nat /\ <<>> \in S /\ \A i \in 1 .. N : c[i] \in K
  OBVIOUS
<1>2. \A q \in S, n \in K : Append(q, n) \in S
  OBVIOUS
<1>3. step \in [1 .. N -> [S -> S]]
  BY <1>1, <1>2
<1>4. \A i \in 1 .. N, q \in S : step[i][q] = IF i \in r THEN q ELSE Append(q, c[i])
  OBVIOUS
<1> HIDE DEF N, S, step
<1>5. PICK g \in [0 .. N -> S] : g[0] = <<>> /\ Computes(g, step, N)
  BY <1>1, <1>3, Computed
<1>6. \A i \in 1 .. N : i - 1 \in 0 .. N /\ i \in 0 .. N /\ i # 0
  BY <1>1
<1>7. \A i \in 1 .. N : g[i] = IF i \in r THEN g[i - 1] ELSE Append(g[i - 1], c[i])
  BY <1>4, <1>5, <1>6 DEF Computes
<1>8. Is(g)
  <2>1. ASSUME NEW i \in 0 .. N
        PROVE  g[i] = IF i = 0 THEN <<>>
                      ELSE IF i \in r THEN g[i - 1] ELSE Append(g[i - 1], c[i])
    <3>1. CASE i = 0
      BY <3>1, <1>5
    <3>2. CASE i # 0
      <4>1. i \in 1 .. N
        BY <3>2, <1>1
      <4> QED BY <3>2, <4>1, <1>7
    <3> QED BY <3>1, <3>2
  <2> QED BY <2>1, <1>5
<1> DEFINE f == CHOOSE f : Is(f)
<1>9. Is(f)
  <2> HIDE DEF Is
  <2> QED BY <1>8
<1>10. Text!Without(c, r) = f[N]
  BY DEF Text!Without, N
<1> HIDE DEF f
<1>11. /\ f[0] = <<>> /\ DOMAIN f = 0 .. N
       /\ \A i \in 1 .. N : f[i] = IF i \in r THEN f[i - 1] ELSE Append(f[i - 1], c[i])
  <2>1. 0 \in 0 .. N
    BY <1>1
  <2> QED BY <2>1, <1>6, <1>9
<1> DEFINE L == {i \in 0 .. N : f[i] \in S}
<1>12. \A i \in 0 .. N : i \in L
  <2>1. 0 \in L
    BY <1>1, <1>11
  <2>2. ASSUME NEW k \in 0 .. N - 1, k \in L PROVE k + 1 \in L
    <3>1. k + 1 \in 1 .. N /\ (k + 1) - 1 = k /\ k + 1 \in 0 .. N
      BY <1>1
    <3> QED BY <2>2, <3>1, <1>1, <1>2, <1>11
  <2> HIDE DEF L
  <2> QED BY <1>1, <2>1, <2>2, StepByStep
<1>13. f \in [0 .. N -> S]
  <2>1. f = [i \in 0 .. N |-> f[i]]
    BY <1>9
  <2> QED BY <2>1, <1>12
<1>14. Keeps(c, r, K, f)
  BY <1>11, <1>13 DEF Keeps, N, S
<1> QED BY <1>10, <1>14 DEF N

(* What normalize answers for some children.                               *)
Answers(D, K, children, answer) ==
    /\ answer.children \in Seq(K) /\ answer.threw \in BOOLEAN
    /\ D = Strings => ~answer.threw
    /\ ~answer.threw =>
          /\ Told(answer.children) = Told(children)
          /\ Text!NormalList(answer.children)
          /\ \A k \in 1 .. Len(answer.children) :
                answer.children[k].kind = "element" =>
                    Text!NormalList(answer.children[k].childNodes)

(* What is left of the first i, if none of them threw.                     *)
LeftIs(D, K, s, i, q) ==
    /\ Text!NormalList(q)
    /\ \A k \in 1 .. Len(q) : q[k].kind = "element" => Text!NormalList(q[k].childNodes)
    /\ q # <<>> => \E m \in 1 .. i : /\ m \notin s.redundant /\ q[Len(q)] = s.children[m]
                                     /\ \A l \in m + 1 .. i : l \in s.redundant

LEMMA LeftGrows ==
  ASSUME NEW D, NEW K, NEW children, NEW below, Given(D, K, children, below),
         NEW s, Goes(D, K, children, Len(children), s), ~s.threw,
         NEW i \in 1 .. Len(children), i \notin s.redundant,
         NEW q \in Seq(K), LeftIs(D, K, s, i - 1, q)
  PROVE  LeftIs(D, K, s, i, Append(q, s.children[i]))
<1> DEFINE n == s.children[i]
           p == Append(q, n)
           N == Len(children)
<1>1. /\ Undone(D, K, children, N, s) /\ FullTexts(s, N) /\ NormalBelow(s, N)
      /\ OtherBetween(s, N)
  BY DEF Goes, Done
<1>2. N \in Nat /\ i \in Nat /\ i >= 1 /\ \A k \in 1 .. N : s.children[k] \in K
  <2>1. N \in Nat
    BY GivenIs
  <2>2. s.children \in Seq(K) /\ Len(s.children) = N
    BY <1>1 DEF Undone, SeenStates
  <2> QED BY <2>1, <2>2
<1>3. /\ Len(p) = Len(q) + 1 /\ Len(q) \in Nat /\ p[Len(p)] = n /\ n \in K /\ p \in Seq(K)
      /\ \A k \in 1 .. Len(q) : p[k] = q[k] /\ q[k] \in K
      /\ \A k \in 1 .. Len(p) : k = Len(p) \/ k \in 1 .. Len(q)
  <2>1. n \in K
    BY <1>2
  <2> HIDE DEF n
  <2> QED BY <2>1
<1>4. \A k \in 1 .. Len(p) : p[k].kind = "element" => Text!NormalList(p[k].childNodes)
  <2>1. n.kind = "element" => Text!NormalList(n.childNodes)
    BY <1>1 DEF NormalBelow
  <2> HIDE DEF p, n
  <2> QED BY <2>1, <1>3 DEF LeftIs
<1>5. n.kind = "text" => n.data # <<>>
  BY <1>1 DEF FullTexts, KeptText
<1>6. \A m \in K : Text!IsText(m) <=> m.kind = "text"
  BY NodeOfK
<1>7. n.kind = "text" /\ q # <<>> => q[Len(q)].kind # "text"
  <2> SUFFICES ASSUME n.kind = "text", q # <<>>, q[Len(q)].kind = "text" PROVE FALSE
    OBVIOUS
  <2>1. PICK m \in 1 .. i - 1 : /\ m \notin s.redundant /\ q[Len(q)] = s.children[m]
                                /\ \A l \in m + 1 .. i - 1 : l \in s.redundant
    BY DEF LeftIs
  <2>2. KeptText(s, m) /\ KeptText(s, i)
    BY <2>1 DEF KeptText
  <2>3. m \in 1 .. N /\ m < i
    BY <1>2
  <2>4. PICK j \in m + 1 .. i - 1 : KeptOther(s, j)
    BY <1>1, <2>2, <2>3 DEF OtherBetween
  <2> QED BY <2>1, <2>4 DEF KeptOther
<1>8. Text!NormalList(p)
  <2> SUFFICES ASSUME NEW k \in 1 .. Len(p)
               PROVE  /\ Text!IsText(p[k]) => p[k].data # <<>>
                      /\ k > 1 => ~(Text!IsText(p[k - 1]) /\ Text!IsText(p[k]))
    <3>1. DOMAIN p = 1 .. Len(p)
      BY <1>3
    <3> QED BY <3>1 DEF Text!NormalList
  <2> HIDE DEF p, n
  <2>1. CASE k = Len(p)
    <3>1. Text!IsText(p[k]) => p[k].data # <<>>
      BY <2>1, <1>3, <1>5, <1>6
    <3>2. ASSUME k > 1, Text!IsText(p[k - 1]), Text!IsText(p[k]) PROVE FALSE
      <4>1. k - 1 = Len(q) /\ k - 1 \in 1 .. Len(q)
        BY <2>1, <3>2, <1>3
      <4>2. p[k - 1] = q[Len(q)] /\ q[Len(q)] \in K /\ q # <<>>
        BY <4>1, <1>3
      <4>3. q[Len(q)].kind = "text" /\ n.kind = "text"
        BY <2>1, <3>2, <4>2, <1>3, <1>6
      <4> QED BY <4>2, <4>3, <1>7
    <3> QED BY <3>1, <3>2
  <2>2. CASE k # Len(p)
    <3>1. k \in 1 .. Len(q) /\ p[k] = q[k] /\ DOMAIN q = 1 .. Len(q)
      BY <2>2, <1>3
    <3>2. k > 1 => p[k - 1] = q[k - 1]
      <4>1. k > 1 => k - 1 \in 1 .. Len(q)
        BY <3>1, <1>3
      <4> QED BY <4>1, <1>3
    <3> QED BY <3>1, <3>2 DEF LeftIs, Text!NormalList
  <2> QED BY <2>1, <2>2
<1>9. \E m \in 1 .. i : /\ m \notin s.redundant /\ p[Len(p)] = s.children[m]
                        /\ \A l \in m + 1 .. i : l \in s.redundant
  <2>1. i \in 1 .. i /\ \A l \in i + 1 .. i : FALSE
    BY <1>2
  <2> QED BY <2>1, <1>3
<1> HIDE DEF p
<1>10. LeftIs(D, K, s, i, p)
  BY <1>4, <1>8, <1>9 DEF LeftIs
<1> QED BY <1>10 DEF p

LEMMA LeftStays ==
  ASSUME NEW D, NEW K, NEW s, NEW i \in Nat, i >= 1, i \in s.redundant,
         NEW q, LeftIs(D, K, s, i - 1, q)
  PROVE  LeftIs(D, K, s, i, q)
<1>1. ASSUME q # <<>>
      PROVE  \E m \in 1 .. i : /\ m \notin s.redundant /\ q[Len(q)] = s.children[m]
                               /\ \A l \in m + 1 .. i : l \in s.redundant
  <2>1. PICK m \in 1 .. i - 1 : /\ m \notin s.redundant /\ q[Len(q)] = s.children[m]
                                /\ \A l \in m + 1 .. i - 1 : l \in s.redundant
    BY <1>1 DEF LeftIs
  <2>2. \A l \in m + 1 .. i : l = i \/ l \in m + 1 .. i - 1
    OBVIOUS
  <2>3. m \in 1 .. i
    OBVIOUS
  <2> QED BY <2>1, <2>2, <2>3
<1> QED BY <1>1 DEF LeftIs

LEMMA NormalizeAnswers ==
  ASSUME NEW D, NEW K, NEW children, NEW below, Given(D, K, children, below)
  PROVE  Answers(D, K, children, Text!NormalizeOver(children, below))
<1> DEFINE end == Text!VisitAll(children, below)
           answer == Text!NormalizeOver(children, below)
           N == Len(children)
<1>1. Goes(D, K, children, N, end)
  BY VisitedAll
<1>2. /\ answer.children = IF end.threw THEN end.children
                           ELSE Text!Without(end.children, end.redundant)
      /\ answer.threw = end.threw
  BY DEF Text!NormalizeOver
<1> SUFFICES Answers(D, K, children, answer)
  OBVIOUS
<1> HIDE DEF end, answer
<1> DEFINE c == end.children
           r == end.redundant
<1>3. /\ c \in Seq(K) /\ Len(c) = N /\ N \in Nat /\ end.threw \in BOOLEAN
      /\ D = Strings => ~end.threw
      /\ Holds(D) /\ K \subseteq AllNodes(D) /\ Seq(K) \subseteq Seq(AllNodes(D))
  BY <1>1, GivenIs DEF Goes, Undone, SeenStates
<1>4. CASE end.threw
  BY <1>2, <1>3, <1>4 DEF Answers
<1>5. CASE ~end.threw
  <2>1. /\ Text!FlattenSeq(Counts(end)) = Told(children)
        /\ Counts(end) = [k \in 1 .. N |-> IF k \in r THEN <<>> ELSE Text!ChildText(c[k])]
    BY <1>1, <1>3, <1>5 DEF Goes, Done, Counts
  <2> DEFINE t == Counts(end)
  <2>2. \A k \in 1 .. N : c[k] \in K
    BY <1>3
  <2>3. \A k \in 1 .. N : Text!ChildText(c[k]) \in Strings
    BY <2>2, NodeOfK
  <2>4. /\ \A k \in 1 .. N : t[k] = IF k \in r THEN <<>> ELSE Text!ChildText(c[k])
        /\ t \in Seq(Strings) /\ Len(t) = N
    <3>1. \A k \in 1 .. N : (IF k \in r THEN <<>> ELSE Text!ChildText(c[k])) \in Strings
      BY <2>3, NullIsNoString
    <3> HIDE DEF t
    <3>2. t = [k \in 1 .. N |-> IF k \in r THEN <<>> ELSE Text!ChildText(c[k])]
      BY <2>1 DEF t
    <3> HIDE DEF c, r, N
    <3> QED BY <1>3, <3>1, <3>2
  <2>5. PICK f : Sums(t, f)
    BY <2>4, SumsExist
  <2>6. PICK k : Keeps(c, r, K, k) /\ Text!Without(c, r) = k[Len(c)]
    BY <1>3, WithoutIs
  <2>7. /\ k \in [0 .. N -> Seq(K)] /\ k[0] = <<>>
        /\ \A i \in 1 .. N : k[i] = IF i \in r THEN k[i - 1] ELSE Append(k[i - 1], c[i])
    BY <1>3, <2>6 DEF Keeps
  <2>8. /\ f \in [0 .. N -> Strings] /\ f[0] = <<>>
        /\ \A i \in 1 .. N : f[i] = f[i - 1] \o t[i]
    BY <2>4, <2>5 DEF Sums
  <2> DEFINE P(i) == Told(k[i]) = f[i] /\ LeftIs(D, K, end, i, k[i])
             M == {i \in 0 .. N : P(i)}
  <2>9. 0 \in M
    <3>1. Told(<<>>) = <<>>
      BY DEF Told, Words, Text!FlattenSeq
    <3>2. LeftIs(D, K, end, 0, <<>>)
      BY DEF LeftIs, Text!NormalList
    <3>3. 0 \in 0 .. N
      BY <1>3
    <3> QED BY <2>7, <2>8, <3>1, <3>2, <3>3
  <2>10. ASSUME NEW j \in 0 .. N - 1, j \in M PROVE j + 1 \in M
    <3>1. /\ j + 1 \in 1 .. N /\ (j + 1) - 1 = j /\ j + 1 \in 0 .. N /\ j \in 0 .. N
          /\ j + 1 \in Nat /\ j + 1 >= 1
      BY <1>3
    <3>2. P(j) /\ k[j] \in Seq(K) /\ f[j] \in Strings
      BY <2>7, <2>8, <2>10, <3>1
    <3>3. /\ k[j + 1] = IF j + 1 \in r THEN k[j] ELSE Append(k[j], c[j + 1])
          /\ f[j + 1] = f[j] \o t[j + 1]
      <4> DEFINE i == j + 1
      <4>1. i \in 1 .. N /\ i - 1 = j
        BY <3>1
      <4> HIDE DEF i
      <4>2. /\ k[i] = IF i \in r THEN k[i - 1] ELSE Append(k[i - 1], c[i])
            /\ f[i] = f[i - 1] \o t[i]
        BY <2>7, <2>8, <4>1
      <4>3. /\ k[i] = IF i \in r THEN k[j] ELSE Append(k[j], c[i])
            /\ f[i] = f[j] \o t[i]
        BY <4>1, <4>2
      <4> QED BY <4>3 DEF i
    <3>4. CASE j + 1 \in r
      <4>1. t[j + 1] = <<>> /\ k[j + 1] = k[j]
        BY <2>4, <3>1, <3>3, <3>4
      <4>2. f[j + 1] = f[j]
        BY <3>2, <3>3, <4>1, ConcatEmptySeq DEF Strings
      <4>3. LeftIs(D, K, end, j + 1, k[j])
        <5> DEFINE i == j + 1
        <5>1. i \in Nat /\ i >= 1 /\ i \in end.redundant /\ LeftIs(D, K, end, i - 1, k[j])
          BY <3>1, <3>2, <3>4
        <5> HIDE DEF i
        <5>2. LeftIs(D, K, end, i, k[j])
          BY <5>1, LeftStays
        <5> QED BY <5>2 DEF i
      <4>4. P(j + 1)
        BY <3>2, <4>1, <4>2, <4>3
      <4> HIDE DEF P
      <4> QED BY <3>1, <4>4
    <3>5. CASE j + 1 \notin r
      <4> DEFINE n == c[j + 1]
      <4>1. t[j + 1] = Text!ChildText(n) /\ k[j + 1] = Append(k[j], n) /\ n \in AllNodes(D)
        BY <1>3, <2>2, <2>4, <3>1, <3>3, <3>5
      <4>2. Append(k[j], n) = k[j] \o <<n>> /\ k[j] \in Seq(AllNodes(D))
        <5>1. k[j] \in Seq(AllNodes(D))
          BY <1>3, <3>2
        <5> HIDE DEF n
        <5> QED BY <4>1, <5>1
      <4>3. Told(k[j] \o <<n>>) = Told(k[j]) \o Told(<<n>>)
        <5>1. <<n>> \in Seq(AllNodes(D))
          BY <4>1
        <5> QED BY <1>3, <4>2, <5>1, ToldOfBoth
      <4>4. Told(<<n>>) = Text!ChildText(n)
        BY <1>3, <4>1, ToldOfFew
      <4>5. Told(k[j + 1]) = f[j + 1]
        BY <3>2, <3>3, <4>1, <4>2, <4>3, <4>4
      <4>6. LeftIs(D, K, end, j + 1, Append(k[j], n))
        <5> DEFINE i == j + 1
        <5>1. i \in 1 .. N /\ i \notin end.redundant /\ LeftIs(D, K, end, i - 1, k[j])
          BY <3>1, <3>2, <3>5
        <5> HIDE DEF i
        <5>2. LeftIs(D, K, end, i, Append(k[j], end.children[i]))
          BY <1>1, <1>5, <3>2, <5>1, LeftGrows
        <5> QED BY <5>2 DEF i
      <4>7. P(j + 1)
        BY <4>1, <4>5, <4>6
      <4> HIDE DEF P
      <4> QED BY <3>1, <4>7
    <3> QED BY <3>4, <3>5
  <2>11. \A i \in 0 .. N : i \in M
    <3> HIDE DEF M, N
    <3> QED BY <1>3, <2>9, <2>10, StepByStep
  <2>12. P(N) /\ k[N] \in Seq(K)
    <3>1. N \in 0 .. N
      BY <1>3
    <3> QED BY <2>7, <2>11, <3>1
  <2>13. f[N] = Told(children)
    BY <2>1, <2>4, <2>5, FlatBy
  <2>14. answer.children = k[N]
    BY <1>2, <1>3, <1>5, <2>6
  <2> QED BY <1>2, <1>3, <1>5, <2>12, <2>13, <2>14 DEF Answers, LeftIs
<1> QED BY <1>3, <1>4, <1>5

-----------------------------------------------------------------------------
(* The calls.                                                              *)

TextData(empty) == IF empty THEN Strings \cup {Null} ELSE Strings

(* As long as no empty text was split every text has data.                 *)
TextInv == emptySplit \in BOOLEAN /\ root \in Roots(TextData(emptySplit))

LEMMA RootIs ==
  ASSUME NEW D, Holds(D), NEW n \in Roots(D)
  PROVE  /\ n.kind = "element" /\ n.childNodes \in Seq(AllNodes(D))
         /\ Text!GatherText(n) = Told(n.childNodes)
         /\ Len(n.childNodes) \in Nat /\ DOMAIN n.childNodes = 1 .. Len(n.childNodes)
  BY DEF Roots, Text!GatherText, Told, Words

LEMMA ElementIsRoot ==
  ASSUME NEW D, Holds(D), NEW s \in Seq(AllNodes(D))
  PROVE  Text!Element(s) \in Roots(D) /\ Text!Element(s).childNodes = s
  BY DEF Roots, Text!Element

LEMMA NormalizeIs ==
  ASSUME NEW D, Holds(D), NEW s \in Seq(AllNodes(D)), NEW answer, answer = Text!Normalize(s)
  PROVE  /\ answer.children \in Seq(AllNodes(D))
         /\ D = Strings => ~answer.threw
         /\ ~answer.threw => /\ Told(answer.children) = Told(s)
                             /\ Text!Normal(Text!Element(answer.children))
<1> DEFINE K == AllNodes(D)
           L == LeafNodes(D)
           inner == {i \in DOMAIN s : s[i].kind = "element"}
           below == [i \in inner |-> Text!NormalizeOver(s[i].childNodes, <<>>)]
           N == Len(s)
<1>1. N \in Nat /\ DOMAIN s = 1 .. N /\ \A i \in 1 .. N : s[i] \in K
  OBVIOUS
<1>2. ASSUME NEW n \in K
      PROVE  /\ n.kind = "element" => n \in InnerNodes(D) /\ n.childNodes \in Seq(L)
                                      /\ Text!ChildText(n) = Told(n.childNodes)
             /\ n.kind # "element" => n \in L
  BY LeafIs, InnerIs DEF AllNodes
<1>3. ASSUME NEW c \in Seq(L), NEW none, none = <<>>
      PROVE  Given(D, L, c, none) /\ \A k \in 1 .. Len(c) : c[k].kind # "element"
  <2>1. \A k \in 1 .. Len(c) : c[k] \in L
    BY <1>3
  <2>2. \A k \in 1 .. Len(c) : c[k].kind # "element"
    BY <2>1, LeafIs
  <2> QED BY <2>2 DEF Given
<1>4. ASSUME NEW i \in 1 .. N, s[i].kind = "element"
      PROVE  Answers(D, L, s[i].childNodes, below[i]) /\ Text!ChildText(s[i]) = Told(s[i].childNodes)
  <2> DEFINE c == s[i].childNodes
             none == <<>>
  <2>1. c \in Seq(L) /\ Text!ChildText(s[i]) = Told(c)
    BY <1>1, <1>2, <1>4
  <2>2. below[i] = Text!NormalizeOver(c, none)
    BY <1>1, <1>4
  <2>3. none = <<>>
    OBVIOUS
  <2> HIDE DEF c, none, below
  <2>4. Answers(D, L, c, Text!NormalizeOver(c, none))
    BY <1>3, <2>1, <2>3, NormalizeAnswers
  <2> QED BY <2>1, <2>2, <2>4 DEF c
<1>5. answer = Text!NormalizeOver(s, below)
  BY DEF Text!Normalize
<1> HIDE DEF below, inner, L, K, N
<1>6. Given(D, K, s, below)
  <2>1. ASSUME NEW i \in 1 .. N, s[i].kind = "element"
        PROVE  /\ below[i].children \in Seq(L) /\ below[i].threw \in BOOLEAN
               /\ D = Strings => ~below[i].threw
               /\ ~below[i].threw => /\ Told(below[i].children) = Text!ChildText(s[i])
                                     /\ Text!NormalList(below[i].children)
    BY <1>4, <2>1 DEF Answers
  <2> QED BY <2>1 DEF Given, K, L, N
<1>7. Answers(D, K, s, answer)
  BY <1>5, <1>6, NormalizeAnswers
<1> DEFINE q == answer.children
<1>8. q \in Seq(K)
  BY <1>7 DEF Answers
<1>9. ASSUME ~answer.threw PROVE Text!Normal(Text!Element(q))
  <2> DEFINE e == Text!Element(q)
  <2>1. e.childNodes = q
    BY <1>8, ElementIsRoot DEF K
  <2>2. /\ Text!NormalList(q)
        /\ \A k \in 1 .. Len(q) : q[k].kind = "element" => Text!NormalList(q[k].childNodes)
    BY <1>7, <1>9 DEF Answers
  <2> HIDE DEF q, e
  <2>3. DOMAIN q = 1 .. Len(q) /\ \A k \in 1 .. Len(q) : q[k] \in K
    BY <1>8
  <2>4. ASSUME NEW k \in 1 .. Len(q)
        PROVE  /\ Text!NormalList(Text!Children(q[k]))
               /\ \A j \in DOMAIN Text!Children(q[k]) : q[k].childNodes[j].kind # "element"
    <3>1. CASE q[k].kind = "element"
      <4> DEFINE c == q[k].childNodes
      <4>1. Text!Children(q[k]) = c /\ c \in Seq(L)
        BY <1>2, <2>3, <3>1 DEF Text!Children
      <4>2. \A j \in 1 .. Len(c) : c[j].kind # "element"
        <5> DEFINE none == <<>>
        <5> HIDE DEF c
        <5> QED BY <1>3, <4>1
      <4>3. DOMAIN c = 1 .. Len(c)
        BY <4>1
      <4> QED BY <2>2, <3>1, <4>1, <4>2, <4>3
    <3>2. CASE q[k].kind # "element"
      <4>1. Text!Children(q[k]) = <<>>
        BY <3>2 DEF Text!Children
      <4> QED BY <4>1 DEF Text!NormalList
    <3> QED BY <3>1, <3>2
  <2>5. Text!Normal(e)
    BY <2>1, <2>2, <2>3, <2>4 DEF Text!Normal
  <2> QED BY <2>5 DEF e
<1> QED BY <1>7, <1>8, <1>9 DEF Answers, K

(* Some children, with one of them become others.                          *)
Spliced(s, i, items) == Text!To(s, i - 1) \o items \o Text!From(s, i)

LEMMA SplicedIs ==
  ASSUME NEW D, Holds(D), NEW K \in {LeafNodes(D), AllNodes(D)},
         NEW s \in Seq(K), NEW i \in 1 .. Len(s), NEW items \in Seq(K)
  PROVE  /\ Spliced(s, i, items) \in Seq(K)
         /\ Told(items) = Text!ChildText(s[i]) => Told(Spliced(s, i, items)) = Told(s)
<1> DEFINE before == SubSeq(s, 1, i - 1)
           after == SubSeq(s, i + 1, Len(s))
           one == <<s[i]>>
<1>1. K \subseteq AllNodes(D)
  BY DEF AllNodes
<1>2. Text!To(s, i - 1) = before /\ Text!From(s, i) = after
  BY DEF Text!To, Text!From
<1>3. before \in Seq(K) /\ after \in Seq(K) /\ one \in Seq(K) /\ s[i] \in K
  OBVIOUS
<1>4. s = before \o one \o after
  <2>1. /\ i \in Nat /\ Len(s) \in Nat /\ i \in 1 .. Len(s) /\ 1 \in 1 .. Len(s)
        /\ i \in 1 .. Len(s) + 1 /\ 1 \in 1 .. Len(s) + 1 /\ i \in 1 - 1 .. Len(s)
    OBVIOUS
  <2>2. SubSeq(s, 1, i) = before \o one
    BY <2>1, SubSeqRecursiveSecond
  <2>3. SubSeq(s, 1, i) \o after = SubSeq(s, 1, Len(s))
    BY <2>1, ConcatAdjacentSubSeq
  <2>4. SubSeq(s, 1, Len(s)) = s
    BY SubSeqFull
  <2> QED BY <2>2, <2>3, <2>4, Zenon
<1> HIDE DEF before, after, one
<1>5. before \o items \o after \in Seq(K)
  BY <1>3
<1>6. before \in Seq(AllNodes(D)) /\ after \in Seq(AllNodes(D)) /\ one \in Seq(AllNodes(D))
      /\ items \in Seq(AllNodes(D)) /\ s[i] \in AllNodes(D)
  BY <1>1, <1>3
<1>7. Told(one) = Text!ChildText(s[i])
  BY <1>6, ToldOfFew DEF one
<1>8. ASSUME NEW m \in Seq(AllNodes(D))
      PROVE  Told(before \o m \o after) = (Told(before) \o Told(m)) \o Told(after)
  <2> DEFINE both == before \o m
  <2>1. both \in Seq(AllNodes(D)) /\ Told(both) = Told(before) \o Told(m)
    BY <1>6, ToldOfBoth
  <2> HIDE DEF both
  <2>2. Told(both \o after) = Told(both) \o Told(after)
    BY <1>6, <2>1, ToldOfBoth
  <2> QED BY <2>1, <2>2 DEF both
<1>9. Told(items) = Told(one) => Told(before \o items \o after) = Told(before \o one \o after)
  BY <1>6, <1>8
<1> QED BY <1>2, <1>4, <1>5, <1>7, <1>9 DEF Spliced

(* Where a path leads.                                                     *)
LEMMA PathIs ==
  ASSUME NEW D, Holds(D), root \in Roots(D), NEW path \in Text!Paths
  PROVE  \/ \E i \in 1 .. Len(root.childNodes) :
              /\ path = <<i>> /\ Text!At(path) = root.childNodes[i]
              /\ \A items : Text!Become(path, items)
                               = Text!Element(Spliced(root.childNodes, i, items))
         \/ \E i \in 1 .. Len(root.childNodes) : \E j \in 1 .. Len(root.childNodes[i].childNodes) :
              /\ path = <<i, j>> /\ root.childNodes[i] \in InnerNodes(D)
              /\ Text!At(path) = root.childNodes[i].childNodes[j]
              /\ \A items : Text!Become(path, items)
                               = Text!Element([root.childNodes EXCEPT ![i] =
                                     Text!Element(Spliced(root.childNodes[i].childNodes, j, items))])
<1> DEFINE s == root.childNodes
<1>1. s \in Seq(AllNodes(D)) /\ DOMAIN s = 1 .. Len(s)
  BY RootIs
<1>2. \/ \E i \in DOMAIN s : path = <<i>>
      \/ \E i \in DOMAIN s : \E j \in DOMAIN Text!Children(s[i]) : path = <<i, j>>
  BY DEF Text!Paths
<1>3. ASSUME NEW i \in DOMAIN s, path = <<i>>
      PROVE  /\ Text!At(path) = s[i]
             /\ \A items : Text!Become(path, items) = Text!Element(Spliced(s, i, items))
  <2>1. Len(path) = 1 /\ path[1] = i
    BY <1>3
  <2> QED BY <2>1 DEF Text!At, Text!Become, Spliced
<1>4. ASSUME NEW i \in DOMAIN s, NEW j \in DOMAIN Text!Children(s[i]), path = <<i, j>>
      PROVE  /\ s[i] \in InnerNodes(D) /\ j \in 1 .. Len(s[i].childNodes)
             /\ Text!At(path) = s[i].childNodes[j]
             /\ \A items : Text!Become(path, items)
                              = Text!Element([s EXCEPT ![i] =
                                    Text!Element(Spliced(s[i].childNodes, j, items))])
  <2>1. Len(path) = 2 /\ Len(path) # 1 /\ path[1] = i /\ path[2] = j
    BY <1>4
  <2>2. s[i] \in AllNodes(D)
    BY <1>1
  <2>3. s[i].kind = "element"
    <3> SUFFICES ASSUME s[i].kind # "element" PROVE FALSE
      OBVIOUS
    <3>1. Text!Children(s[i]) = <<>>
      BY DEF Text!Children
    <3>2. DOMAIN <<>> = {}
      OBVIOUS
    <3>3. j \in DOMAIN <<>>
      BY <3>1
    <3> QED BY <3>2, <3>3
  <2>4. s[i] \in InnerNodes(D)
    BY <2>2, <2>3, LeafIs DEF AllNodes
  <2>5. s[i].childNodes \in Seq(LeafNodes(D)) /\ j \in DOMAIN s[i].childNodes
    BY <2>3, <2>4, InnerIs DEF Text!Children
  <2>6. j \in 1 .. Len(s[i].childNodes)
    BY <2>5
  <2> QED BY <2>1, <2>4, <2>6 DEF Text!At, Text!Become, Spliced
<1> HIDE DEF s
<1>5. CASE \E i \in DOMAIN s : path = <<i>>
  <2>1. PICK i \in DOMAIN s : path = <<i>>
    BY <1>5
  <2> QED BY <1>1, <1>3, <2>1 DEF s
<1>6. CASE \E i \in DOMAIN s : \E j \in DOMAIN Text!Children(s[i]) : path = <<i, j>>
  <2>1. PICK i \in DOMAIN s : \E j \in DOMAIN Text!Children(s[i]) : path = <<i, j>>
    BY <1>6
  <2>2. PICK j \in DOMAIN Text!Children(s[i]) : path = <<i, j>>
    BY <2>1
  <2> QED BY <1>1, <1>4, <2>2 DEF s
<1> QED BY <1>2, <1>5, <1>6

LEMMA AtIs ==
  ASSUME NEW D, Holds(D), root \in Roots(D), NEW path \in Text!Paths
  PROVE  /\ Text!At(path) \in AllNodes(D)
         /\ Text!At(path).kind # "element" => Text!At(path) \in LeafNodes(D)
<1>1. root.childNodes \in Seq(AllNodes(D))
  BY RootIs
<1>2. Text!At(path) \in AllNodes(D)
  <2>1. CASE \E i \in 1 .. Len(root.childNodes) : Text!At(path) = root.childNodes[i]
    BY <1>1, <2>1
  <2>2. CASE \E i \in 1 .. Len(root.childNodes) : \E j \in 1 .. Len(root.childNodes[i].childNodes) :
               root.childNodes[i] \in InnerNodes(D)
               /\ Text!At(path) = root.childNodes[i].childNodes[j]
    <3>1. PICK i \in 1 .. Len(root.childNodes) : \E j \in 1 .. Len(root.childNodes[i].childNodes) :
               root.childNodes[i] \in InnerNodes(D)
               /\ Text!At(path) = root.childNodes[i].childNodes[j]
      BY <2>2
    <3>2. root.childNodes[i].childNodes \in Seq(LeafNodes(D))
      BY <3>1, InnerIs
    <3> QED BY <3>1, <3>2 DEF AllNodes
  <2> QED BY <2>1, <2>2, PathIs
<1>3. Text!At(path).kind # "element" => Text!At(path) \in LeafNodes(D)
  BY <1>2, InnerIs DEF AllNodes
<1> QED BY <1>2, <1>3

(* A leaf becomes some others.                                             *)
LEMMA BecomeIs ==
  ASSUME NEW D, Holds(D), root \in Roots(D), NEW path \in Text!Paths,
         NEW items \in Seq(LeafNodes(D))
  PROVE  /\ Text!Become(path, items) \in Roots(D)
         /\ Told(items) = Text!ChildText(Text!At(path)) =>
               Text!GatherText(Text!Become(path, items)) = Text!GatherText(root)
<1> DEFINE s == root.childNodes
           K == AllNodes(D)
           L == LeafNodes(D)
<1>1. s \in Seq(K) /\ Text!GatherText(root) = Told(s)
  BY RootIs
<1>2. items \in Seq(K) /\ L \subseteq K
  BY DEF AllNodes
<1>3. ASSUME NEW t \in Seq(K), Text!Become(path, items) = Text!Element(t),
             Told(items) = Text!ChildText(Text!At(path)) => Told(t) = Told(s)
      PROVE  /\ Text!Become(path, items) \in Roots(D)
             /\ Told(items) = Text!ChildText(Text!At(path)) =>
                   Text!GatherText(Text!Become(path, items)) = Text!GatherText(root)
  <2>1. Text!Element(t) \in Roots(D) /\ Text!Element(t).childNodes = t
    BY ElementIsRoot
  <2>2. Text!GatherText(Text!Element(t)) = Told(t)
    BY <2>1, RootIs
  <2> QED BY <1>1, <1>3, <2>1, <2>2
<1>4. CASE \E i \in 1 .. Len(s) :
              /\ path = <<i>> /\ Text!At(path) = s[i]
              /\ \A x : Text!Become(path, x) = Text!Element(Spliced(s, i, x))
  <2>1. PICK i \in 1 .. Len(s) :
              /\ path = <<i>> /\ Text!At(path) = s[i]
              /\ \A x : Text!Become(path, x) = Text!Element(Spliced(s, i, x))
    BY <1>4
  <2> DEFINE t == Spliced(s, i, items)
  <2>2. t \in Seq(K) /\ (Told(items) = Text!ChildText(s[i]) => Told(t) = Told(s))
    <3> HIDE DEF K, s
    <3>1. K \in {LeafNodes(D), AllNodes(D)}
      BY DEF K
    <3> QED BY <1>1, <1>2, <3>1, SplicedIs
  <2>3. Text!Become(path, items) = Text!Element(t)
    BY <2>1
  <2> HIDE DEF t, s, K
  <2> QED BY <1>3, <2>1, <2>2, <2>3
<1>5. CASE \E i \in 1 .. Len(s) : \E j \in 1 .. Len(s[i].childNodes) :
              /\ path = <<i, j>> /\ s[i] \in InnerNodes(D)
              /\ Text!At(path) = s[i].childNodes[j]
              /\ \A x : Text!Become(path, x)
                           = Text!Element([s EXCEPT ![i] =
                                 Text!Element(Spliced(s[i].childNodes, j, x))])
  <2>1. PICK i \in 1 .. Len(s) : \E j \in 1 .. Len(s[i].childNodes) :
              /\ path = <<i, j>> /\ s[i] \in InnerNodes(D)
              /\ Text!At(path) = s[i].childNodes[j]
              /\ \A x : Text!Become(path, x)
                           = Text!Element([s EXCEPT ![i] =
                                 Text!Element(Spliced(s[i].childNodes, j, x))])
    BY <1>5
  <2>2. PICK j \in 1 .. Len(s[i].childNodes) :
              /\ path = <<i, j>> /\ s[i] \in InnerNodes(D)
              /\ Text!At(path) = s[i].childNodes[j]
              /\ \A x : Text!Become(path, x)
                           = Text!Element([s EXCEPT ![i] =
                                 Text!Element(Spliced(s[i].childNodes, j, x))])
    BY <2>1
  <2> DEFINE c == s[i].childNodes
             p == Spliced(c, j, items)
             e == Text!Element(p)
             t == [s EXCEPT ![i] = e]
  <2>3. c \in Seq(L) /\ Text!ChildText(s[i]) = Told(c)
    BY <2>2, InnerIs
  <2>4. p \in Seq(L) /\ (Told(items) = Text!ChildText(c[j]) => Told(p) = Told(c))
    <3> HIDE DEF L, c
    <3>1. L \in {LeafNodes(D), AllNodes(D)} /\ j \in 1 .. Len(c) /\ items \in Seq(L)
      BY <2>2 DEF L, c
    <3> QED BY <2>3, <3>1, SplicedIs
  <2> HIDE DEF p
  <2>5. e \in InnerNodes(D) /\ e.childNodes = p
    BY <2>4, ElementIsInner
  <2>6. Text!ChildText(e) = Told(p) /\ e \in K
    BY <2>5, InnerIs DEF AllNodes
  <2> HIDE DEF e
  <2>7. t \in Seq(K) /\ Len(t) = Len(s) /\ \A k \in 1 .. Len(s) : t[k] = IF k = i THEN e ELSE s[k]
    <3> HIDE DEF s, K
    <3> QED BY <1>1, <2>6
  <2>8. Text!Become(path, items) = Text!Element(t)
    BY <2>2 DEF e, p
  <2> HIDE DEF t
  <2>9. Told(items) = Text!ChildText(Text!At(path)) => Told(t) = Told(s)
    <3> SUFFICES ASSUME Told(items) = Text!ChildText(Text!At(path)) PROVE Told(t) = Told(s)
      OBVIOUS
    <3>1. Text!ChildText(e) = Text!ChildText(s[i])
      BY <2>2, <2>3, <2>4, <2>6
    <3>2. \A k \in 1 .. Len(s) : Text!ChildText(t[k]) = Text!ChildText(s[k])
      BY <2>7, <3>1
    <3> HIDE DEF s
    <3> QED BY <1>1, <2>7, <3>2, SameWords DEF K
  <2> HIDE DEF s, K
  <2> QED BY <1>3, <2>7, <2>8, <2>9
<1> QED BY <1>4, <1>5, PathIs

LEMMA HeldIs ==
  ASSUME TextInv
  PROVE  /\ Holds(TextData(emptySplit)) /\ root \in Roots(TextData(emptySplit))
         /\ Strings \subseteq TextData(emptySplit) /\ emptySplit \in BOOLEAN
  BY DEF TextInv, TextData, Holds

LEMMA MoreHeld ==
  ASSUME NEW D, NEW E, D \subseteq E PROVE Roots(D) \subseteq Roots(E)
<1>1. LeafNodes(D) \subseteq LeafNodes(E)
  BY DEF LeafNodes
<1>2. Seq(LeafNodes(D)) \subseteq Seq(LeafNodes(E))
  BY <1>1
<1>3. InnerNodes(D) \subseteq InnerNodes(E)
  BY <1>2 DEF InnerNodes
<1>4. AllNodes(D) \subseteq AllNodes(E)
  BY <1>1, <1>3 DEF AllNodes
<1>5. Seq(AllNodes(D)) \subseteq Seq(AllNodes(E))
  BY <1>4
<1> QED BY <1>5 DEF Roots

(* What the calls make of data.                                            *)
LEMMA StringsAre ==
  ASSUME NEW data \in Strings, NEW n \in Nat
  PROVE  /\ Text!From(data, n) \in Strings /\ Text!To(data, n) \in Strings
         /\ Text!To(data, n) \o Text!From(data, n) = data
         /\ Len(data) \in Nat
<1>1. data \in Seq(Chars) /\ Len(data) \in Nat /\ \A k \in 1 .. Len(data) : data[k] \in Chars
  BY DEF Strings
<1>2. SubSeq(data, n + 1, Len(data)) \in Seq(Chars)
  <2>1. \A k \in n + 1 .. Len(data) : data[k] \in Chars
    BY <1>1
  <2> QED BY <1>1, <2>1, SubSeqProperties
<1>3. ASSUME NEW m \in 0 .. Len(data) PROVE SubSeq(data, 1, m) \in Seq(Chars)
  <2>1. \A k \in 1 .. m : data[k] \in Chars
    BY <1>1
  <2> QED BY <1>1, <2>1, SubSeqProperties
<1>4. SubSeq(data, 1, Len(data)) = data
  BY <1>1, SubSeqFull
<1>5. CASE n > Len(data)
  <2>1. SubSeq(data, n + 1, Len(data)) = <<>>
    BY <1>1, <1>5, SubSeqEmpty
  <2>2. data \o <<>> = data
    BY <1>1, ConcatEmptySeq
  <2>3. Text!To(data, n) = data /\ Text!From(data, n) = <<>>
    BY <1>4, <1>5, <2>1 DEF Text!To, Text!From
  <2> QED BY <1>1, <2>2, <2>3, NullIsNoString
<1>6. CASE ~(n > Len(data))
  <2>1. Text!To(data, n) = SubSeq(data, 1, n) /\ Text!From(data, n) = SubSeq(data, n + 1, Len(data))
    BY <1>6 DEF Text!To, Text!From
  <2>2. n \in 0 .. Len(data) /\ n \in 1 - 1 .. Len(data) /\ 1 \in 1 .. Len(data) + 1
        /\ Len(data) \in n .. Len(data)
    BY <1>1, <1>6
  <2>3. SubSeq(data, 1, n) \o SubSeq(data, n + 1, Len(data)) = SubSeq(data, 1, Len(data))
    BY <1>1, <2>2, ConcatAdjacentSubSeq
  <2> QED BY <1>1, <1>2, <1>3, <1>4, <2>1, <2>2, <2>3, Zenon DEF Strings
<1> QED BY <1>5, <1>6

LEMMA DataIs ==
  ASSUME NEW D, Holds(D), NEW data \in D, NEW n \in Nat, NEW count \in Nat
  PROVE  /\ ~Text!Falsy(data) => data \in Strings
         /\ Text!DeleteData(data, n, count) \in D
         /\ \A w \in Strings : /\ Text!InsertData(data, n, w) \in Strings
                               /\ Text!ReplaceData(data, n, count, w) \in Strings
         /\ ~Text!Falsy(data) =>
               /\ Text!DeleteData(data, n, 0) = Text!To(data, n)
               /\ Text!SubstringData(data, n) = Text!From(data, n)
         /\ Text!Falsy(data) =>
               /\ Text!DeleteData(data, n, count) = data
               /\ Text!SubstringData(data, n) = Null
<1>1. Strings \subseteq D /\ (data = Null \/ data \in Strings)
  BY DEF Holds
<1>2. ~Text!Falsy(data) => data \in Strings
  BY <1>1 DEF Text!Falsy
<1>4. \A u, v \in Strings : u \o v \in Strings
  BY ConcatProperties DEF Strings
<1>5. n + count \in Nat
  OBVIOUS
<1>6. CASE Text!Falsy(data)
  BY <1>1, <1>6 DEF Text!DeleteData, Text!InsertData, Text!ReplaceData, Text!SubstringData
<1>7. CASE ~Text!Falsy(data)
  <2>1. /\ Text!To(data, n) \in Strings /\ Text!From(data, n) \in Strings
        /\ Text!From(data, n + count) \in Strings
    BY <1>2, <1>5, <1>7, StringsAre
  <2>2. Text!DeleteData(data, n, count) \in Strings
    BY <1>4, <1>7, <2>1 DEF Text!DeleteData
  <2>3. ASSUME NEW w \in Strings
        PROVE  /\ Text!InsertData(data, n, w) \in Strings
               /\ Text!ReplaceData(data, n, count, w) \in Strings
    <3>1. Text!InsertData(data, n, w) = (Text!To(data, n) \o w) \o Text!From(data, n)
      BY <1>7 DEF Text!InsertData
    <3>2. Text!ReplaceData(data, n, count, w) = (Text!To(data, n) \o w) \o Text!From(data, n + count)
      BY <1>7 DEF Text!ReplaceData
    <3>3. Text!To(data, n) \o w \in Strings
      BY <1>4, <2>1
    <3> QED BY <1>4, <2>1, <3>1, <3>2, <3>3
  <2>7. /\ Text!DeleteData(data, n, 0) = Text!To(data, n)
        /\ Text!SubstringData(data, n) = Text!From(data, n)
    BY <1>7 DEF Text!DeleteData, Text!SubstringData
  <2> QED BY <1>1, <1>2, <1>7, <2>2, <2>3, <2>7
<1> QED BY <1>6, <1>7

LEMMA SetKeeps ==
  ASSUME TextInv, NEW path \in Text!Paths, Text!At(path).kind # "element",
         NEW data \in TextData(emptySplit), Text!SetData(path, data)
  PROVE  TextInv'
<1> DEFINE D == TextData(emptySplit)
           n == Text!At(path)
           m == [n EXCEPT !.data = data]
<1>1. Holds(D) /\ root \in Roots(D)
  BY HeldIs
<1>2. n \in LeafNodes(D)
  <2> HIDE DEF D
  <2> QED BY <1>1, AtIs
<1>3. root' = Text!Become(path, <<m>>) /\ emptySplit' = emptySplit
  BY DEF Text!SetData
<1>4. m \in LeafNodes(D)
  <2> HIDE DEF n
  <2> QED BY <1>2 DEF LeafNodes
<1>5. <<m>> \in Seq(LeafNodes(D))
  <2> HIDE DEF m
  <2> QED BY <1>4
<1>6. Text!Become(path, <<m>>) \in Roots(D)
  <2> HIDE DEF m, D
  <2> QED BY <1>1, <1>5, BecomeIs
<1> QED BY <1>3, <1>6, HeldIs DEF TextInv, TextData

LEMMA EditKeeps ==
  ASSUME TextInv, NEW path \in Text!Paths, Text!EditData(path)
  PROVE  TextInv'
<1> DEFINE D == TextData(emptySplit)
           n == Text!At(path)
           data == n.data
<1>1. Holds(D) /\ root \in Roots(D) /\ Strings \subseteq D
  BY HeldIs
<1>2. n.kind # "element"
  BY DEF Text!EditData
<1>3. n \in LeafNodes(D)
  <2> HIDE DEF D
  <2> QED BY <1>1, <1>2, AtIs
<1>4. data \in D
  BY <1>3 DEF LeafNodes
<1>5. Text!Length(data) \in Nat
  <2>1. data = Null \/ data \in Seq(Chars)
    BY <1>1, <1>4 DEF Holds, Strings
  <2> QED BY <2>1 DEF Text!Length
<1>6. \A offset \in 0 .. Text!Length(data) : /\ offset \in Nat
                                             /\ \A count \in 0 .. Text!Length(data) - offset : count \in Nat
  BY <1>5
<1>7. \A c \in Characters : <<c>> \in Strings
  BY DEF Strings, Chars
<1>8. ASSUME NEW x \in D, Text!SetData(path, x) PROVE TextInv'
  BY <1>2, <1>8, SetKeeps
<1>9. TextInv'
  <2> HIDE DEF D
  <2>1. CASE \E c \in Characters : Text!SetData(path, Text!Data(n) \o <<c>>)
    <3>1. PICK c \in Characters : Text!SetData(path, Text!Data(n) \o <<c>>)
      BY <2>1
    <3>2. Text!Data(n) \in Strings
      BY <1>1, <1>4, NullIsNoString DEF Text!Data, Holds
    <3>3. Text!Data(n) \o <<c>> \in Strings
      BY <1>7, <3>2, ConcatProperties DEF Strings
    <3> QED BY <1>1, <1>8, <3>1, <3>3
  <2>2. CASE \E offset \in 0 .. Text!Length(data) :
                \/ \E c \in Characters : Text!SetData(path, Text!InsertData(data, offset, <<c>>))
                \/ \E count \in 0 .. Text!Length(data) - offset :
                      \/ Text!SetData(path, Text!DeleteData(data, offset, count))
                      \/ \E c \in Characters :
                            Text!SetData(path, Text!ReplaceData(data, offset, count, <<c>>))
    <3>1. PICK offset \in 0 .. Text!Length(data) :
                \/ \E c \in Characters : Text!SetData(path, Text!InsertData(data, offset, <<c>>))
                \/ \E count \in 0 .. Text!Length(data) - offset :
                      \/ Text!SetData(path, Text!DeleteData(data, offset, count))
                      \/ \E c \in Characters :
                            Text!SetData(path, Text!ReplaceData(data, offset, count, <<c>>))
      BY <2>2
    <3>2. offset \in Nat /\ \A count \in 0 .. Text!Length(data) - offset : count \in Nat
      BY <1>6
    <3> HIDE DEF data
    <3>3. CASE \E c \in Characters : Text!SetData(path, Text!InsertData(data, offset, <<c>>))
      <4>1. PICK c \in Characters : Text!SetData(path, Text!InsertData(data, offset, <<c>>))
        BY <3>3
      <4>2. Text!InsertData(data, offset, <<c>>) \in D
        <5>1. 0 \in Nat
          OBVIOUS
        <5> QED BY <1>1, <1>4, <1>7, <3>2, <5>1, DataIs
      <4> QED BY <1>8, <4>1, <4>2
    <3>4. ASSUME NEW count \in 0 .. Text!Length(data) - offset,
                 Text!SetData(path, Text!DeleteData(data, offset, count))
          PROVE  TextInv'
      <4>1. Text!DeleteData(data, offset, count) \in D
        BY <1>1, <1>4, <3>2, DataIs
      <4> QED BY <1>8, <3>4, <4>1
    <3>5. ASSUME NEW count \in 0 .. Text!Length(data) - offset, NEW c \in Characters,
                 Text!SetData(path, Text!ReplaceData(data, offset, count, <<c>>))
          PROVE  TextInv'
      <4>1. Text!ReplaceData(data, offset, count, <<c>>) \in D
        BY <1>1, <1>4, <1>7, <3>2, DataIs
      <4> QED BY <1>8, <3>5, <4>1
    <3> QED BY <3>1, <3>3, <3>4, <3>5
  <2> QED BY <2>1, <2>2 DEF Text!EditData
<1> QED BY <1>9

LEMMA SplitIs ==
  ASSUME TextInv, NEW path \in Text!Paths, NEW offset \in Nat, Text!SplitText(path, offset)
  PROVE  /\ TextInv'
         /\ ~emptySplit' => Text!GatherText(root') = Text!GatherText(root)
<1> DEFINE D == TextData(emptySplit)
           E == TextData(emptySplit')
           n == Text!At(path)
           data == n.data
           a == Text!DeleteData(data, offset, 0)
           b == Text!SubstringData(data, offset)
           items == <<Text!Text(a), Text!Text(b)>>
<1>1. Holds(D) /\ root \in Roots(D) /\ emptySplit \in BOOLEAN
  BY HeldIs
<1>2. /\ n.kind = "text" /\ root' = Text!Become(path, items)
      /\ emptySplit' = (emptySplit \/ Text!Falsy(data))
  BY DEF Text!SplitText, Text!IsText
<1>3. emptySplit' \in BOOLEAN /\ Holds(E) /\ D \subseteq E
  BY <1>1, <1>2 DEF TextData, Holds
<1>4. root \in Roots(E)
  <2> HIDE DEF D, E
  <2> QED BY <1>1, <1>3, MoreHeld
<1>5. n \in LeafNodes(D) /\ data \in D
  <2>1. n.kind # "element"
    BY <1>2
  <2>2. n \in LeafNodes(D)
    <3> HIDE DEF D
    <3> QED BY <1>1, <2>1, AtIs
  <2> QED BY <2>2 DEF LeafNodes
<1>6. CASE Text!Falsy(data)
  <2>1. a = data /\ b = Null
    <3> HIDE DEF D, data
    <3> QED BY <1>1, <1>5, <1>6, DataIs
  <2>2. a \in E /\ b \in E /\ emptySplit'
    BY <1>2, <1>3, <1>5, <1>6, <2>1 DEF TextData
  <2> HIDE DEF a, b, E
  <2>3. Text!Text(a) \in LeafNodes(E) /\ Text!Text(b) \in LeafNodes(E)
    BY <2>2 DEF LeafNodes, Text!Text
  <2>4. items \in Seq(LeafNodes(E))
    BY <2>3
  <2> HIDE DEF items
  <2>5. root' \in Roots(E)
    BY <1>2, <1>3, <1>4, <2>4, BecomeIs
  <2> QED BY <1>3, <2>2, <2>5 DEF TextInv, E
<1>7. CASE ~Text!Falsy(data)
  <2>1. /\ data \in Strings /\ a = Text!To(data, offset) /\ b = Text!From(data, offset)
    <3> HIDE DEF D, data
    <3>1. 0 \in Nat
      OBVIOUS
    <3> QED BY <1>1, <1>5, <1>7, <3>1, DataIs
  <2>2. a \in Strings /\ b \in Strings /\ a \o b = data
    <3> HIDE DEF a, b, data
    <3> QED BY <2>1, StringsAre
  <2>3. emptySplit' = emptySplit /\ Strings \subseteq E
    BY <1>1, <1>2, <1>7 DEF TextData
  <2> HIDE DEF a, b, E
  <2>4. /\ Text!Text(a) \in LeafNodes(E) /\ Text!Text(a).kind = "text" /\ Text!Text(a).data = a
        /\ Text!Text(b) \in LeafNodes(E) /\ Text!Text(b).kind = "text" /\ Text!Text(b).data = b
    BY <2>2, <2>3 DEF LeafNodes, Text!Text
  <2> DEFINE x == Text!Text(a)
             y == Text!Text(b)
  <2>5. items \in Seq(LeafNodes(E)) /\ items = <<x>> \o <<y>>
    BY <2>4
  <2>6. Text!ChildText(x) = a /\ Text!ChildText(y) = b
    BY <1>3, <2>2, <2>4, LeafIs, NullIsNoString
  <2>7. x \in AllNodes(E) /\ y \in AllNodes(E)
    BY <2>4 DEF AllNodes
  <2> HIDE DEF x, y
  <2>8. /\ <<x>> \in Seq(AllNodes(E)) /\ Told(<<x>>) = a
        /\ <<y>> \in Seq(AllNodes(E)) /\ Told(<<y>>) = b
    BY <1>3, <2>6, <2>7, ToldOfFew
  <2>9. Told(<<x>> \o <<y>>) = a \o b
    <3> DEFINE p == <<x>>
               q == <<y>>
    <3>1. p \in Seq(AllNodes(E)) /\ q \in Seq(AllNodes(E)) /\ Told(p) = a /\ Told(q) = b
      BY <2>8
    <3> HIDE DEF p, q
    <3>2. Told(p \o q) = a \o b
      BY <1>3, <3>1, ToldOfBoth
    <3> QED BY <3>2 DEF p, q
  <2>10. Told(items) = data
    BY <2>2, <2>5, <2>9
  <2>11. Text!ChildText(n) = data
    <3>1. data # Null
      BY <1>7 DEF Text!Falsy
    <3> HIDE DEF D, n
    <3> QED BY <1>1, <1>2, <1>5, <3>1, LeafIs
  <2> HIDE DEF items, n
  <2>12. /\ root' \in Roots(E)
         /\ Text!GatherText(root') = Text!GatherText(root)
    BY <1>2, <1>3, <1>4, <2>5, <2>10, <2>11, BecomeIs DEF n
  <2> QED BY <1>3, <2>12 DEF TextInv, E
<1> QED BY <1>6, <1>7

LEMMA CopyIs ==
  ASSUME NEW D, Holds(D), NEW n \in AllNodes(D), NEW deep \in BOOLEAN
  PROVE  /\ Text!Copy(n, deep) \in AllNodes(D)
         /\ deep \/ n.kind # "element" => Text!Copy(n, deep) = n
         /\ ~deep /\ n.kind = "element" => Text!Copy(n, deep) = Text!Element(<<>>)
<1>1. CASE n.kind # "element"
  <2>1. Text!Copy(n, deep) = n
    BY <1>1 DEF Text!Copy, Text!CopyOf
  <2> QED BY <1>1, <2>1
<1>2. CASE n.kind = "element" /\ ~deep
  <2>1. Text!Copy(n, deep) = Text!Element(<<>>)
    BY <1>2 DEF Text!Copy, Text!CopyOf
  <2>2. <<>> \in Seq(LeafNodes(D))
    OBVIOUS
  <2>3. Text!Element(<<>>) \in InnerNodes(D)
    BY <2>2, ElementIsInner
  <2> QED BY <1>2, <2>1, <2>3 DEF AllNodes
<1>3. CASE n.kind = "element" /\ deep
  <2> DEFINE c == n.childNodes
             copies == [i \in DOMAIN c |-> Text!CopyOf(c[i], <<>>)]
  <2>1. Text!Copy(n, deep) = Text!Element(copies)
    BY <1>3 DEF Text!Copy, Text!CopyOf
  <2>2. n \in InnerNodes(D)
    BY <1>3, LeafIs DEF AllNodes
  <2>3. c \in Seq(LeafNodes(D)) /\ n = Text!Element(c)
    BY <2>2, InnerIs
  <2> HIDE DEF c
  <2>4. \A i \in DOMAIN c : c[i] \in LeafNodes(D)
    BY <2>3
  <2>5. \A i \in DOMAIN c : Text!CopyOf(c[i], <<>>) = c[i]
    <3>1. \A i \in DOMAIN c : c[i].kind # "element"
      BY <2>4, LeafIs
    <3> QED BY <3>1 DEF Text!CopyOf
  <2>6. copies = c
    BY <2>3, <2>5
  <2> HIDE DEF copies
  <2> QED BY <1>3, <2>1, <2>3, <2>6
<1> QED BY <1>1, <1>2, <1>3

LEMMA CloneIs ==
  ASSUME TextInv, NEW path \in Text!Paths, NEW deep \in BOOLEAN, Text!CloneNode(path, deep)
  PROVE  /\ TextInv'
         /\ LET copy == Text!Last(root'.childNodes) IN
            IF deep \/ Text!At(path).kind # "element" THEN copy = Text!At(path)
            ELSE copy = Text!Element(<<>>)
<1> DEFINE D == TextData(emptySplit)
           n == Text!At(path)
           new == Text!Copy(n, deep)
           s == root.childNodes
           t == Append(s, new)
<1>1. Holds(D) /\ root \in Roots(D) /\ emptySplit \in BOOLEAN
  BY HeldIs
<1>2. root' = Text!Element(t) /\ emptySplit' = emptySplit
  BY DEF Text!CloneNode
<1> HIDE DEF D
<1>3. n \in AllNodes(D) /\ s \in Seq(AllNodes(D))
  BY <1>1, AtIs, RootIs
<1> HIDE DEF n
<1>4. /\ new \in AllNodes(D)
      /\ deep \/ n.kind # "element" => new = n
      /\ ~deep /\ n.kind = "element" => new = Text!Element(<<>>)
  BY <1>1, <1>3, CopyIs
<1> HIDE DEF new, s
<1>5. t \in Seq(AllNodes(D)) /\ t[Len(t)] = new
  BY <1>3, <1>4
<1> HIDE DEF t
<1>6. root' \in Roots(D) /\ root'.childNodes = t
  BY <1>1, <1>2, <1>5, ElementIsRoot
<1>7. TextInv'
  BY <1>1, <1>2, <1>6 DEF TextInv, D
<1>8. Text!Last(root'.childNodes) = new
  BY <1>5, <1>6 DEF Text!Last
<1> QED BY <1>4, <1>7, <1>8 DEF n

LEMMA NormalizeRootIs ==
  ASSUME TextInv, Text!NormalizeRoot
  PROVE  /\ TextInv'
         /\ ~emptySplit => ~Text!Normalize(root.childNodes).threw
         /\ ~Text!Normalize(root.childNodes).threw =>
               Text!GatherText(root') = Text!GatherText(root) /\ Text!Normal(root')
<1> DEFINE D == TextData(emptySplit)
           s == root.childNodes
           answer == Text!Normalize(s)
           t == answer.children
<1>1. Holds(D) /\ root \in Roots(D) /\ emptySplit \in BOOLEAN /\ (~emptySplit => D = Strings)
  BY HeldIs DEF TextData
<1>2. root' = Text!Element(t) /\ emptySplit' = emptySplit
  BY DEF Text!NormalizeRoot
<1> HIDE DEF D
<1>3. s \in Seq(AllNodes(D)) /\ Text!GatherText(root) = Told(s)
  BY <1>1, RootIs
<1> SUFFICES /\ TextInv' /\ (~emptySplit => ~answer.threw)
             /\ ~answer.threw =>
                   Text!GatherText(root') = Text!GatherText(root) /\ Text!Normal(root')
  OBVIOUS
<1>4. answer = Text!Normalize(s)
  OBVIOUS
<1> HIDE DEF s, answer
<1>5. /\ t \in Seq(AllNodes(D)) /\ (D = Strings => ~answer.threw)
      /\ ~answer.threw => Told(t) = Told(s) /\ Text!Normal(Text!Element(t))
  BY <1>1, <1>3, <1>4, NormalizeIs
<1> HIDE DEF t
<1>6. root' \in Roots(D) /\ root'.childNodes = t
  BY <1>1, <1>2, <1>5, ElementIsRoot
<1>7. Text!GatherText(root') = Told(t)
  BY <1>1, <1>6, RootIs
<1>8. TextInv'
  BY <1>1, <1>2, <1>6 DEF TextInv, D
<1> QED BY <1>1, <1>2, <1>3, <1>5, <1>7, <1>8

LEMMA ContentKeeps ==
  ASSUME TextInv, NEW c \in Characters, Text!SetTextContent(c)
  PROVE  TextInv'
<1> DEFINE D == TextData(emptySplit)
           n == Text!Text(<<c>>)
<1>1. Holds(D) /\ Strings \subseteq D /\ emptySplit \in BOOLEAN
  BY HeldIs
<1>2. root' = Text!Element(<<n>>) /\ emptySplit' = emptySplit
  BY DEF Text!SetTextContent
<1>3. <<c>> \in Strings
  BY DEF Strings, Chars
<1> HIDE DEF D
<1>4. n \in AllNodes(D)
  BY <1>1, <1>3 DEF AllNodes, LeafNodes, Text!Text
<1> HIDE DEF n
<1>5. <<n>> \in Seq(AllNodes(D))
  BY <1>4
<1>6. root' \in Roots(D)
  BY <1>1, <1>2, <1>5, ElementIsRoot
<1> QED BY <1>1, <1>2, <1>6 DEF TextInv, D

LEMMA TextInvStep ==
  TextInv /\ [Text!Next]_(Text!vars) => TextInv'
<1> SUFFICES ASSUME TextInv, [Text!Next]_(Text!vars) PROVE TextInv'
  OBVIOUS
<1>1. CASE UNCHANGED Text!vars
  BY <1>1 DEF TextInv, Text!vars
<1>2. ASSUME NEW path \in Text!Paths, Text!EditData(path) PROVE TextInv'
  BY <1>2, EditKeeps
<1>3. ASSUME NEW path \in Text!Paths, NEW offset \in 0 .. MaxText, Text!SplitText(path, offset)
      PROVE  TextInv'
  <2>1. offset \in Nat
    OBVIOUS
  <2> QED BY <1>3, <2>1, SplitIs
<1>4. ASSUME NEW path \in Text!Paths, NEW deep \in BOOLEAN, Text!CloneNode(path, deep)
      PROVE  TextInv'
  BY <1>4, CloneIs
<1>5. ASSUME Text!NormalizeRoot PROVE TextInv'
  BY <1>5, NormalizeRootIs
<1>6. ASSUME NEW c \in Characters, Text!SetTextContent(c) PROVE TextInv'
  BY <1>6, ContentKeeps
<1> QED BY <1>1, <1>2, <1>3, <1>4, <1>5, <1>6 DEF Text!Next

LEMMA TextInvShows ==
  ASSUME TextInv PROVE Text!KeepsText
<1>1. Text!NormalizeRoot =>
          /\ ~emptySplit => ~Text!Normalize(root.childNodes).threw
          /\ ~Text!Normalize(root.childNodes).threw =>
                Text!GatherText(root') = Text!GatherText(root) /\ Text!Normal(root')
  BY NormalizeRootIs
<1>2. ASSUME NEW path \in Text!Paths, NEW offset \in 0 .. MaxText,
             Text!SplitText(path, offset) /\ ~emptySplit'
      PROVE  Text!GatherText(root') = Text!GatherText(root)
  <2>1. offset \in Nat
    OBVIOUS
  <2> QED BY <1>2, <2>1, SplitIs
<1>3. ASSUME NEW path \in Text!Paths, NEW deep \in BOOLEAN, Text!CloneNode(path, deep)
      PROVE  LET copy == Text!Last(root'.childNodes) IN
             IF deep \/ Text!At(path).kind # "element" THEN copy = Text!At(path)
             ELSE copy = Text!Element(<<>>)
  BY <1>3, CloneIs
<1> QED BY <1>1, <1>2, <1>3 DEF Text!KeepsText

LEMMA TextInvInit ==
  ASSUME Text!Init PROVE TextInv
<1>1. PICK c, d \in Characters :
         root = Text!Element(<<Text!Text(<<c, d>>),
                               Text!Element(<<Text!Comment(<<d>>), Text!Text(<<c>>)>>)>>)
  BY DEF Text!Init
<1>2. Holds(Strings)
  BY DEF Holds
<1> DEFINE x == Text!Text(<<c, d>>)
           y == Text!Comment(<<d>>)
           z == Text!Text(<<c>>)
           e == Text!Element(<<y, z>>)
<1>3. <<c, d>> \in Strings /\ <<d>> \in Strings /\ <<c>> \in Strings
  BY DEF Strings, Chars
<1>4. x \in LeafNodes(Strings) /\ y \in LeafNodes(Strings) /\ z \in LeafNodes(Strings)
  BY <1>3 DEF LeafNodes, Text!Text, Text!Comment
<1> HIDE DEF x, y, z
<1>5. <<y, z>> \in Seq(LeafNodes(Strings))
  BY <1>4
<1>6. e \in InnerNodes(Strings)
  BY <1>2, <1>5, ElementIsInner
<1> HIDE DEF e
<1>7. <<x, e>> \in Seq(AllNodes(Strings))
  BY <1>4, <1>6 DEF AllNodes
<1>8. Text!Element(<<x, e>>) \in Roots(Strings)
  BY <1>2, <1>7, ElementIsRoot
<1>9. root \in Roots(Strings) /\ emptySplit = FALSE
  BY <1>1, <1>8 DEF x, e, y, z, Text!Init
<1> QED BY <1>9 DEF TextInv, TextData

(* Cutting and joining texts keeps their text, normalize leaves them       *)
(* normal, and clones are equal, of any texts and nodes (splitText,        *)
(* normalize and cloneNode).                                               *)
THEOREM TextKeptAlways == DocumentSpec => TextKept
<1>1. DocumentInit => TextInv
  BY TextInvInit DEF DocumentInit
<1>2. TextInv /\ [DocumentNext]_all => TextInv'
  BY OneRuns, TextInvStep
<1>3. TextInv => Text!KeepsText
  BY TextInvShows
<1>4. TextInv /\ [DocumentNext]_all => [running = "text" => Text!KeepsText]_all
  BY <1>3
<1> QED
  BY <1>1, <1>2, <1>4, PTL DEF DocumentSpec, TextKept

(* What is collected from all elements, each contributing a sequence.      *)
Collected(w, s) == FlattenSeq(Mapped(w, s))

LEMMA CollectedIs ==
  ASSUME NEW K, NEW D, NEW w, Maps(w, K, Seq(D)), NEW s \in Seq(K)
  PROVE  /\ Mapped(w, s) \in Seq(Seq(D)) /\ Len(Mapped(w, s)) = Len(s)
         /\ Collected(w, s) \in Seq(D)
<1>1. Mapped(w, s) \in Seq(Seq(D)) /\ Len(Mapped(w, s)) = Len(s)
  BY MappedIs
<1> QED BY <1>1, FlattenIs DEF Collected

LEMMA CollectedOfFew ==
  ASSUME NEW K, NEW D, NEW w, Maps(w, K, Seq(D))
  PROVE  Collected(w, <<>>) = <<>> /\ \A n \in K : Collected(w, <<n>>) = w[n]
<1>1. Mapped(w, <<>>) = <<>>
  BY DEF Mapped
<1>2. ASSUME NEW n \in K PROVE Mapped(w, <<n>>) = <<w[n]>> /\ w[n] \in Seq(D)
  <2>1. w[n] \in Seq(D)
    <3> DEFINE Q == Seq(D)
    <3>1. w \in [K -> Q]
      BY DEF Maps
    <3> HIDE DEF Q
    <3>2. w[n] \in Q
      BY <3>1
    <3> QED BY <3>2 DEF Q
  <2>2. Mapped(w, <<n>>) = <<w[n]>>
    BY DEF Mapped
  <2> QED BY <2>1, <2>2
<1>3. FlattenSeq(<<>>) = <<>> /\ \A x \in Seq(D) : FlattenSeq(<<x>>) = x
  BY FlattenOfFew
<1> QED BY <1>1, <1>2, <1>3 DEF Collected

LEMMA CollectedOfBoth ==
  ASSUME NEW K, NEW D, NEW w, Maps(w, K, Seq(D)), NEW a \in Seq(K), NEW b \in Seq(K)
  PROVE  Collected(w, a \o b) = Collected(w, a) \o Collected(w, b)
<1> DEFINE x == Mapped(w, a)
           y == Mapped(w, b)
<1>1. x \in Seq(Seq(D)) /\ y \in Seq(Seq(D))
  BY CollectedIs
<1>2. Mapped(w, a \o b) = x \o y
  BY MappedBoth
<1> HIDE DEF x, y
<1>3. FlattenSeq(x \o y) = FlattenSeq(x) \o FlattenSeq(y)
  BY <1>1, FlattenOfBoth
<1> QED BY <1>2, <1>3 DEF Collected, x, y

-----------------------------------------------------------------------------
(* The rows and cells of a table, in the order of the document.            *)

(* The numbers of those children that have a tag.                          *)
Numbered(K, tag) == \A n \in K : n.tag = tag => n.id \in Nat
IdOf(n, tag) == IF n.tag = tag THEN <<n.id>> ELSE <<>>
IdIn(K, tag) == [n \in K |-> IdOf(n, tag)]
IdLists(nodes, tag) == [i \in 1 .. Len(nodes) |-> IdOf(nodes[i], tag)]
IdsOf(nodes, tag) == FlattenSeq(IdLists(nodes, tag))

LEMMA IdsAreCollected ==
  ASSUME NEW K, NEW tag, Numbered(K, tag)
  PROVE  /\ Maps(IdIn(K, tag), K, Seq(Nat))
         /\ \A nodes \in Seq(K) : /\ IdLists(nodes, tag) = Mapped(IdIn(K, tag), nodes)
                                  /\ IdsOf(nodes, tag) = Collected(IdIn(K, tag), nodes)
<1>1. ASSUME NEW n \in K PROVE IdOf(n, tag) \in Seq(Nat)
  <2>1. n.tag = tag => n.id \in Nat
    BY DEF Numbered
  <2> QED BY <2>1 DEF IdOf
<1>2. Maps(IdIn(K, tag), K, Seq(Nat))
  <2> DEFINE Q == Seq(Nat)
  <2>1. \A n \in K : IdOf(n, tag) \in Q
    BY <1>1
  <2> HIDE DEF Q
  <2>2. IdIn(K, tag) \in [K -> Q]
    BY <2>1 DEF IdIn
  <2> QED BY <2>2 DEF Maps, Q
<1>3. ASSUME NEW nodes \in Seq(K) PROVE IdLists(nodes, tag) = Mapped(IdIn(K, tag), nodes)
  <2>1. \A i \in 1 .. Len(nodes) : nodes[i] \in K
    OBVIOUS
  <2>2. \A i \in 1 .. Len(nodes) : IdIn(K, tag)[nodes[i]] = IdOf(nodes[i], tag)
    BY <2>1 DEF IdIn
  <2> QED BY <2>2 DEF IdLists, Mapped
<1> QED BY <1>2, <1>3 DEF IdsOf, Collected

LEMMA IdListsAre ==
  ASSUME NEW K, NEW tag, Numbered(K, tag), NEW nodes \in Seq(K)
  PROVE  IdLists(nodes, tag) \in Seq(Seq(Nat)) /\ Len(IdLists(nodes, tag)) = Len(nodes)
<1> DEFINE w == IdIn(K, tag)
<1>1. Maps(w, K, Seq(Nat)) /\ IdLists(nodes, tag) = Mapped(w, nodes)
  BY IdsAreCollected
<1> HIDE DEF w
<1>2. Mapped(w, nodes) \in Seq(Seq(Nat)) /\ Len(Mapped(w, nodes)) = Len(nodes)
  BY <1>1, CollectedIs
<1> QED BY <1>1, <1>2

LEMMA IdsAre ==
  ASSUME NEW K, NEW tag, Numbered(K, tag), NEW nodes \in Seq(K)
  PROVE  IdsOf(nodes, tag) \in Seq(Nat)
  BY IdListsAre, FlattenIs DEF IdsOf

LEMMA IdsOfFew ==
  ASSUME NEW K, NEW tag, Numbered(K, tag)
  PROVE  /\ IdsOf(<<>>, tag) = <<>>
         /\ \A n \in K : IdsOf(<<n>>, tag) = IdOf(n, tag)
<1> DEFINE w == IdIn(K, tag)
<1>1. Maps(w, K, Seq(Nat))
  BY IdsAreCollected
<1>2. \A nodes \in Seq(K) : IdsOf(nodes, tag) = Collected(w, nodes)
  BY IdsAreCollected
<1>3. \A n \in K : w[n] = IdOf(n, tag)
  BY DEF IdIn
<1> HIDE DEF w
<1>4. Collected(w, <<>>) = <<>> /\ \A n \in K : Collected(w, <<n>>) = w[n]
  BY <1>1, CollectedOfFew
<1>5. <<>> \in Seq(K) /\ \A n \in K : <<n>> \in Seq(K)
  OBVIOUS
<1> QED BY <1>2, <1>3, <1>4, <1>5

LEMMA IdsOfBoth ==
  ASSUME NEW K, NEW tag, Numbered(K, tag), NEW a \in Seq(K), NEW b \in Seq(K)
  PROVE  IdsOf(a \o b, tag) = IdsOf(a, tag) \o IdsOf(b, tag)
<1> DEFINE w == IdIn(K, tag)
<1>1. Maps(w, K, Seq(Nat))
  BY IdsAreCollected
<1>2. \A nodes \in Seq(K) : IdsOf(nodes, tag) = Collected(w, nodes)
  BY IdsAreCollected
<1> HIDE DEF w
<1>3. a \o b \in Seq(K)
  BY ConcatProperties
<1>4. Collected(w, a \o b) = Collected(w, a) \o Collected(w, b)
  BY <1>1, CollectedOfBoth
<1> QED BY <1>2, <1>3, <1>4

(* Where those children are: the k-th of them has k - 1 of them before it. *)
PlaceLists(nodes, tag) ==
    [i \in 1 .. Len(nodes) |-> IF nodes[i].tag = tag THEN <<i>> ELSE <<>>]
IdAt(nodes, tag) ==
    [i \in 1 .. Len(nodes) |-> IF nodes[i].tag = tag THEN nodes[i].id ELSE 0]

LEMMA PlaceListsAre ==
  ASSUME NEW K, NEW nodes \in Seq(K), NEW tag
  PROVE  /\ Tables!Places(nodes, tag) = FlattenSeq(PlaceLists(nodes, tag))
         /\ PlaceLists(nodes, tag) \in Seq(Seq(1 .. Len(nodes)))
         /\ Len(PlaceLists(nodes, tag)) = Len(nodes)
<1>1. DOMAIN nodes = 1 .. Len(nodes) /\ Len(nodes) \in Nat
  OBVIOUS
<1>2. Tables!Places(nodes, tag) = FlattenSeq(PlaceLists(nodes, tag))
  <2>1. Tables!Places(nodes, tag) = Tables!FlattenSeq(PlaceLists(nodes, tag))
    BY <1>1 DEF Tables!Places, PlaceLists
  <2> QED BY <2>1, SameFlat
<1> DEFINE N == Len(nodes)
           C == 1 .. N
           Q == Seq(C)
<1>3. \A i \in C : <<i>> \in Q /\ <<>> \in Q
  OBVIOUS
<1> HIDE DEF Q, N
<1>4. PlaceLists(nodes, tag) = [i \in 1 .. N |-> IF nodes[i].tag = tag THEN <<i>> ELSE <<>>]
  BY DEF PlaceLists, N
<1>5. PlaceLists(nodes, tag) \in [1 .. N -> Q]
  BY <1>3, <1>4
<1>6. N \in Nat
  BY <1>1 DEF N
<1>7. PlaceLists(nodes, tag) \in Seq(Q) /\ Len(PlaceLists(nodes, tag)) = N
  BY <1>4, <1>5, <1>6
<1> QED BY <1>2, <1>7 DEF Q, N

LEMMA IdsOfPlaces ==
  ASSUME NEW K, NEW tag, Numbered(K, tag), NEW nodes \in Seq(K), NEW n \in 0 .. Len(nodes)
  PROVE  /\ SubSeq(nodes, 1, n) \in Seq(K)
         /\ IdsOf(SubSeq(nodes, 1, n), tag)
               = Mapped(IdAt(nodes, tag), FlattenSeq(SubSeq(PlaceLists(nodes, tag), 1, n)))
         /\ FlattenSeq(SubSeq(PlaceLists(nodes, tag), 1, n)) \in Seq(1 .. Len(nodes))
         /\ Maps(IdAt(nodes, tag), 1 .. Len(nodes), Nat)
<1> DEFINE N == Len(nodes)
           first == SubSeq(nodes, 1, n)
           t == SubSeq(PlaceLists(nodes, tag), 1, n)
           u == IdLists(first, tag)
           m == IdAt(nodes, tag)
<1>1. /\ N \in Nat /\ n \in Nat /\ n <= N /\ \A i \in 1 .. n : i \in 1 .. N
      /\ first \in Seq(K) /\ Len(first) = n /\ \A i \in 1 .. n : first[i] = nodes[i]
  OBVIOUS
<1>2. \A i \in 1 .. N : nodes[i] \in K
  OBVIOUS
<1>3. Maps(m, 1 .. N, Nat)
  <2>1. \A i \in 1 .. N : (IF nodes[i].tag = tag THEN nodes[i].id ELSE 0) \in Nat
    BY <1>2 DEF Numbered
  <2> QED BY <2>1 DEF Maps, IdAt
<1>4. /\ t \in Seq(Seq(1 .. N)) /\ Len(t) = n
      /\ \A i \in 1 .. n : t[i] = PlaceLists(nodes, tag)[i]
  <2> DEFINE Q == Seq(1 .. N)
             all1 == PlaceLists(nodes, tag)
  <2>1. all1 \in Seq(Q) /\ Len(all1) = N
    BY PlaceListsAre
  <2> HIDE DEF Q, all1, N
  <2>2. SubSeq(all1, 1, n) \in Seq(Q) /\ Len(SubSeq(all1, 1, n)) = n
        /\ \A i \in 1 .. n : SubSeq(all1, 1, n)[i] = all1[i]
    BY <2>1, <1>1
  <2> QED BY <2>2 DEF Q, all1
<1>5. u \in Seq(Seq(Nat)) /\ Len(u) = n
  BY <1>1, IdListsAre, Zenon
<1>6. ASSUME NEW i \in 1 .. n PROVE u[i] = Mapped(m, t[i])
  <2>1. i \in 1 .. N /\ first[i] = nodes[i]
    BY <1>1
  <2>2. u[i] = IdOf(nodes[i], tag)
    BY <1>1, <2>1 DEF IdLists
  <2>3. t[i] = IF nodes[i].tag = tag THEN <<i>> ELSE <<>>
    BY <1>4, <2>1 DEF PlaceLists
  <2>4. CASE nodes[i].tag = tag
    <3>1. m[i] = nodes[i].id
      BY <2>1, <2>4 DEF IdAt
    <3>2. Mapped(m, <<i>>) = <<m[i]>>
      <4> HIDE DEF m
      <4> QED BY DEF Mapped
    <3> QED BY <2>2, <2>3, <2>4, <3>1, <3>2 DEF IdOf
  <2>5. CASE nodes[i].tag # tag
    <3>1. Mapped(m, <<>>) = <<>>
      BY DEF Mapped
    <3> QED BY <2>2, <2>3, <2>5, <3>1 DEF IdOf
  <2> QED BY <2>4, <2>5
<1> HIDE DEF t, u, m
<1>7. FlattenSeq(u) = Mapped(m, FlattenSeq(t))
  BY <1>3, <1>4, <1>5, <1>6, FlattenMapped
<1>8. FlattenSeq(t) \in Seq(1 .. N)
  BY <1>4, FlattenIs
<1> QED BY <1>1, <1>3, <1>7, <1>8 DEF IdsOf, t, u, m

LEMMA PlacesAre ==
  ASSUME NEW K, NEW tag, Numbered(K, tag), NEW nodes \in Seq(K)
  PROVE  /\ Tables!Places(nodes, tag) \in Seq(1 .. Len(nodes))
         /\ Len(Tables!Places(nodes, tag)) = Len(IdsOf(nodes, tag))
         /\ IdsOf(nodes, tag) = [k \in DOMAIN Tables!Places(nodes, tag) |->
                                    nodes[Tables!Places(nodes, tag)[k]].id]
         /\ \A k \in 1 .. Len(Tables!Places(nodes, tag)) :
               /\ Tables!Places(nodes, tag)[k] \in 1 .. Len(nodes)
               /\ nodes[Tables!Places(nodes, tag)[k]].tag = tag
               /\ Len(IdsOf(SubSeq(nodes, 1, Tables!Places(nodes, tag)[k] - 1), tag)) = k - 1
<1> DEFINE N == Len(nodes)
           places == Tables!Places(nodes, tag)
           t == PlaceLists(nodes, tag)
           m == IdAt(nodes, tag)
           ids == IdsOf(nodes, tag)
<1>1. places = FlattenSeq(t) /\ t \in Seq(Seq(1 .. N)) /\ Len(t) = N
  BY PlaceListsAre
<1>2. /\ N \in Nat /\ N \in 0 .. N /\ SubSeq(nodes, 1, N) = nodes
  BY SubSeqFull
<1>3. SubSeq(t, 1, N) = t
  <2> DEFINE Q == Seq(1 .. N)
  <2> HIDE DEF t, N, Q
  <2>1. t \in Seq(Q) /\ Len(t) = N
    BY <1>1 DEF Q
  <2> QED BY <2>1, SubSeqFull
<1>4. places \in Seq(1 .. N)
  BY <1>1, FlattenIs
<1>5. ids = Mapped(m, places) /\ Maps(m, 1 .. N, Nat)
  <2>1. IdsOf(SubSeq(nodes, 1, N), tag) = Mapped(m, FlattenSeq(SubSeq(t, 1, N)))
    BY <1>2, IdsOfPlaces
  <2>2. Maps(m, 1 .. N, Nat)
    BY <1>2, IdsOfPlaces
  <2> QED BY <2>1, <2>2, <1>1, <1>2, <1>3
<1>6. Len(ids) = Len(places) /\ ids = [k \in 1 .. Len(places) |-> m[places[k]]]
  <2> HIDE DEF places, m, ids
  <2>1. Len(Mapped(m, places)) = Len(places)
    BY <1>4, <1>5, MappedIs
  <2> QED BY <2>1, <1>5 DEF Mapped
<1>7. ASSUME NEW k \in 1 .. Len(places)
      PROVE  /\ places[k] \in 1 .. N /\ nodes[places[k]].tag = tag
             /\ Len(IdsOf(SubSeq(nodes, 1, places[k] - 1), tag)) = k - 1
             /\ m[places[k]] = nodes[places[k]].id
  <2>1. PICK i \in 1 .. N : \E j \in 1 .. Len(t[i]) :
           k = Len(FlattenSeq(SubSeq(t, 1, i - 1))) + j /\ places[k] = t[i][j]
    <3> DEFINE C == 1 .. N
    <3>1. t \in Seq(Seq(C)) /\ Len(t) = N /\ k \in 1 .. Len(FlattenSeq(t)) /\ places = FlattenSeq(t)
      BY <1>1
    <3> HIDE DEF t, C, places
    <3>2. \E i \in 1 .. Len(t) : \E j \in 1 .. Len(t[i]) :
             k = Len(FlattenSeq(SubSeq(t, 1, i - 1))) + j /\ FlattenSeq(t)[k] = t[i][j]
      BY <3>1, FlattenAt
    <3> QED BY <3>1, <3>2
  <2>2. PICK j \in 1 .. Len(t[i]) :
           k = Len(FlattenSeq(SubSeq(t, 1, i - 1))) + j /\ places[k] = t[i][j]
    BY <2>1
  <2>3. t[i] = IF nodes[i].tag = tag THEN <<i>> ELSE <<>>
    BY DEF PlaceLists
  <2>4. nodes[i].tag = tag /\ t[i] = <<i>> /\ j = 1 /\ t[i][j] = i
    <3> HIDE DEF t
    <3>1. CASE nodes[i].tag = tag
      <4>1. t[i] = <<i>> /\ Len(t[i]) = 1
        BY <3>1, <2>3
      <4>2. j = 1
        BY <4>1
      <4> QED BY <3>1, <4>1, <4>2
    <3>2. CASE nodes[i].tag # tag
      <4>1. Len(t[i]) = 0
        BY <3>2, <2>3
      <4> QED BY <4>1
    <3> QED BY <3>1, <3>2
  <2>5. i - 1 \in 0 .. N
    BY <1>2
  <2> DEFINE first == SubSeq(nodes, 1, i - 1)
             before == FlattenSeq(SubSeq(t, 1, i - 1))
  <2>6. IdsOf(first, tag) = Mapped(m, before) /\ before \in Seq(1 .. N)
    BY <2>5, IdsOfPlaces
  <2>7. k = Len(before) + 1 /\ places[k] = i
    BY <2>2, <2>4
  <2>8. m[i] = nodes[i].id
    BY <2>4 DEF IdAt
  <2> HIDE DEF first, before, m
  <2>9. Len(IdsOf(first, tag)) = Len(before)
    BY <2>6, <1>5, MappedIs
  <2>10. Len(before) \in Nat
    BY <2>6
  <2> HIDE DEF places, t
  <2> QED BY <2>4, <2>7, <2>8, <2>9, <2>10 DEF first
<1> HIDE DEF places, m, ids
<1>8. DOMAIN places = 1 .. Len(places)
  BY <1>4
<1>9. ids = [k \in DOMAIN places |-> nodes[places[k]].id]
  BY <1>6, <1>7, <1>8
<1>10. \A k \in 1 .. Len(places) :
         /\ places[k] \in 1 .. N /\ nodes[places[k]].tag = tag
         /\ Len(IdsOf(SubSeq(nodes, 1, places[k] - 1), tag)) = k - 1
  BY <1>7
<1> QED BY <1>4, <1>6, <1>9, <1>10 DEF places, ids

(* One more among them.                                                    *)
CanPut(Q, s, p, x) == s \in Seq(Q) /\ p \in 1 .. Len(s) + 1 /\ x \in Q

IsPut(Q, s, p, x, r) ==
    /\ SubSeq(s, 1, p - 1) \in Seq(Q) /\ Len(SubSeq(s, 1, p - 1)) = p - 1
    /\ SubSeq(s, p, Len(s)) \in Seq(Q)
    /\ s = SubSeq(s, 1, p - 1) \o SubSeq(s, p, Len(s))
    /\ r = SubSeq(s, 1, p - 1) \o <<x>> \o SubSeq(s, p, Len(s))
    /\ r \in Seq(Q) /\ Len(r) = Len(s) + 1
    /\ \A k \in 1 .. Len(s) + 1 : r[k] = IF k < p THEN s[k] ELSE IF k = p THEN x ELSE s[k - 1]

LEMMA RowInsertedIs ==
  ASSUME NEW Q, NEW s, NEW p, NEW x, CanPut(Q, s, p, x)
  PROVE  IsPut(Q, s, p, x, Tables!InsertAt(s, p, x))
<1> DEFINE a == SubSeq(s, 1, p - 1)
           b == SubSeq(s, p, Len(s))
           ax == a \o <<x>>
<1>0. s \in Seq(Q) /\ p \in 1 .. Len(s) + 1 /\ x \in Q
  BY DEF CanPut
<1>1. /\ Len(s) \in Nat /\ p \in Nat /\ a \in Seq(Q) /\ b \in Seq(Q)
      /\ Len(a) = p - 1 /\ Len(b) = Len(s) - p + 1 /\ <<x>> \in Seq(Q)
      /\ \A k \in 1 .. p - 1 : a[k] = s[k]
      /\ \A k \in 1 .. Len(s) - p + 1 : b[k] = s[p + k - 1]
  BY <1>0
<1>2. s = a \o b
  <2> USE <1>0
  <2> HIDE DEF a, b
  <2> DEFINE ab == a \o b
  <2>1. /\ ab \in Seq(Q) /\ Len(ab) = Len(s)
        /\ \A k \in 1 .. Len(s) : ab[k] = IF k <= p - 1 THEN a[k] ELSE b[k - (p - 1)]
    BY <1>1
  <2> HIDE DEF ab
  <2>2. ASSUME NEW k \in 1 .. Len(s) PROVE ab[k] = s[k]
    <3>1. CASE k <= p - 1
      BY <3>1, <1>1, <2>1
    <3>2. CASE ~(k <= p - 1)
      <4>1. k - (p - 1) \in 1 .. Len(s) - p + 1 /\ p + (k - (p - 1)) - 1 = k
        BY <3>2, <1>1
      <4> QED BY <3>2, <4>1, <1>1, <2>1
    <3> QED BY <3>1, <3>2
  <2>3. ab = s
    BY <2>1, <2>2
  <2> QED BY <2>3 DEF ab
<1>3. Tables!InsertAt(s, p, x) = ax \o b
  BY DEF Tables!InsertAt
<1> HIDE DEF a, b
<1>4. /\ ax \in Seq(Q) /\ Len(ax) = p /\ ax[p] = x
      /\ \A k \in 1 .. p - 1 : ax[k] = a[k]
  BY <1>0, <1>1, SMTT(30)
<1> HIDE DEF ax
<1> DEFINE r == ax \o b
<1>5. /\ r \in Seq(Q) /\ Len(r) = Len(s) + 1
      /\ \A k \in 1 .. Len(s) + 1 : r[k] = IF k <= p THEN ax[k] ELSE b[k - p]
  <2>1. /\ ax \o b \in Seq(Q) /\ Len(ax \o b) = Len(ax) + Len(b)
        /\ ax \o b = [k \in 1 .. Len(ax) + Len(b) |-> IF k <= Len(ax) THEN ax[k] ELSE b[k - Len(ax)]]
    BY <1>1, <1>4, ConcatIs, Zenon
  <2>2. Len(ax) = p /\ Len(ax) + Len(b) = Len(s) + 1
    BY <1>1, <1>4
  <2>3. r = [k \in 1 .. Len(s) + 1 |-> IF k <= p THEN ax[k] ELSE b[k - p]]
    BY <2>1, <2>2
  <2>4. r \in Seq(Q) /\ Len(r) = Len(s) + 1
    BY <2>1, <2>2
  <2> HIDE DEF r
  <2> QED BY <2>3, <2>4
<1> HIDE DEF r
<1>6. ASSUME NEW k \in 1 .. Len(s) + 1
      PROVE  r[k] = IF k < p THEN s[k] ELSE IF k = p THEN x ELSE s[k - 1]
  <2> USE <1>0
  <2>1. CASE k < p
    <3>1. k \in 1 .. p - 1 /\ k <= p
      BY <2>1, <1>1
    <3> QED BY <2>1, <3>1, <1>1, <1>4, <1>5
  <2>2. CASE k = p
    <3>1. ~(k < p) /\ k <= p
      BY <2>2, <1>1
    <3> QED BY <2>2, <3>1, <1>4, <1>5
  <2>3. CASE k > p
    <3>1. k - p \in 1 .. Len(s) - p + 1 /\ ~(k <= p) /\ ~(k < p) /\ k # p /\ p + (k - p) - 1 = k - 1
      BY <2>3, <1>1
    <3> QED BY <3>1, <1>1, <1>5
  <2> QED BY <2>1, <2>2, <2>3, <1>1
<1> QED BY <1>1, <1>2, <1>3, <1>5, <1>6 DEF r, ax, a, b, IsPut

LEMMA InsertBetween ==
  ASSUME NEW Q, NEW a \in Seq(Q), NEW b \in Seq(Q), NEW x \in Q
  PROVE  Tables!InsertAt(a \o b, Len(a) + 1, x) = a \o <<x>> \o b
<1> DEFINE s == a \o b
           n == Len(a)
<1>1. /\ n \in Nat /\ Len(s) = n + Len(b) /\ Len(b) \in Nat /\ s \in Seq(Q)
      /\ \A k \in 1 .. n : s[k] = a[k]
      /\ \A k \in 1 .. Len(b) : s[n + k] = b[k]
  OBVIOUS
<1>2. SubSeq(s, 1, n) = a
  <2> HIDE DEF s
  <2> DEFINE c == SubSeq(s, 1, n)
  <2>1. c \in Seq(Q) /\ Len(c) = n /\ \A k \in 1 .. n : c[k] = s[k]
    BY <1>1
  <2> HIDE DEF c
  <2>2. c = a
    BY <2>1, <1>1
  <2> QED BY <2>2 DEF c
<1>3. SubSeq(s, n + 1, Len(s)) = b
  <2> HIDE DEF s
  <2> DEFINE c == SubSeq(s, n + 1, Len(s))
  <2>1. c \in Seq(Q) /\ Len(c) = Len(b) /\ \A k \in 1 .. Len(b) : c[k] = s[n + k]
    BY <1>1
  <2> HIDE DEF c
  <2>2. c = b
    BY <2>1, <1>1
  <2> QED BY <2>2 DEF c
<1>4. (n + 1) - 1 = n
  BY <1>1
<1> HIDE DEF s, n
<1>5. Tables!InsertAt(s, n + 1, x) = a \o <<x>> \o b
  BY <1>2, <1>3, <1>4 DEF Tables!InsertAt
<1> QED BY <1>5 DEF s, n

(* One more that contributes one: what comes before it is what those       *)
(* before it contribute.                                                   *)
LEMMA CollectedOfInserted ==
  ASSUME NEW K, NEW D, NEW w, Maps(w, K, Seq(D)), NEW s \in Seq(K),
         NEW p \in 1 .. Len(s) + 1, NEW x \in K, NEW d \in D, w[x] = <<d>>
  PROVE  Collected(w, Tables!InsertAt(s, p, x)) =
            Tables!InsertAt(Collected(w, s), Len(Collected(w, SubSeq(s, 1, p - 1))) + 1, d)
<1> DEFINE a == SubSeq(s, 1, p - 1)
           b == SubSeq(s, p, Len(s))
<1>1. /\ a \in Seq(K) /\ b \in Seq(K) /\ s = a \o b
      /\ Tables!InsertAt(s, p, x) = a \o <<x>> \o b
  <2>1. CanPut(K, s, p, x)
    BY DEF CanPut
  <2>2. IsPut(K, s, p, x, Tables!InsertAt(s, p, x))
    BY <2>1, RowInsertedIs
  <2> QED BY <2>2 DEF IsPut
<1> DEFINE one == <<x>>
           ax == a \o one
<1>2. one \in Seq(K)
  OBVIOUS
<1>3. Collected(w, one) = <<d>>
  BY CollectedOfFew
<1> HIDE DEF a, b, one
<1>4. ax \in Seq(K)
  BY <1>1, <1>2, ConcatProperties
<1>6. Collected(w, ax) = Collected(w, a) \o Collected(w, one)
  BY <1>1, <1>2, CollectedOfBoth
<1> HIDE DEF ax
<1>5. Collected(w, ax \o b) = Collected(w, ax) \o Collected(w, b)
  BY <1>1, <1>4, CollectedOfBoth
<1>7. Collected(w, a \o b) = Collected(w, a) \o Collected(w, b)
  BY <1>1, CollectedOfBoth
<1>8. Collected(w, a) \in Seq(D) /\ Collected(w, b) \in Seq(D)
  BY <1>1, CollectedIs
<1>9. Tables!InsertAt(Collected(w, a) \o Collected(w, b), Len(Collected(w, a)) + 1, d)
         = Collected(w, a) \o <<d>> \o Collected(w, b)
  BY <1>8, InsertBetween
<1>10. Tables!InsertAt(s, p, x) = ax \o b
  BY <1>1 DEF ax, one
<1> QED BY <1>1, <1>3, <1>5, <1>6, <1>7, <1>9, <1>10 DEF a

LEMMA IdsOfInserted ==
  ASSUME NEW K, NEW tag, Numbered(K, tag), NEW nodes \in Seq(K),
         NEW p \in 1 .. Len(nodes) + 1, NEW x \in K, x.tag = tag
  PROVE  IdsOf(Tables!InsertAt(nodes, p, x), tag) =
            Tables!InsertAt(IdsOf(nodes, tag), Len(IdsOf(SubSeq(nodes, 1, p - 1), tag)) + 1, x.id)
<1> DEFINE w == IdIn(K, tag)
           a == SubSeq(nodes, 1, p - 1)
           r == Tables!InsertAt(nodes, p, x)
<1>1. Maps(w, K, Seq(Nat)) /\ \A s \in Seq(K) : IdsOf(s, tag) = Collected(w, s)
  BY IdsAreCollected
<1>2. a \in Seq(K) /\ r \in Seq(K)
  <2>1. CanPut(K, nodes, p, x)
    BY DEF CanPut
  <2>2. IsPut(K, nodes, p, x, r)
    BY <2>1, RowInsertedIs
  <2> QED BY <2>2 DEF IsPut
<1>3. w[x] = <<x.id>> /\ x.id \in Nat
  BY DEF IdIn, IdOf, Numbered
<1> HIDE DEF w
<1>4. Collected(w, r) = Tables!InsertAt(Collected(w, nodes), Len(Collected(w, a)) + 1, x.id)
  BY <1>1, <1>3, CollectedOfInserted
<1> HIDE DEF a, r
<1> QED BY <1>1, <1>2, <1>4 DEF a, r

LEMMA PlainIds ==
  ASSUME NEW K, NEW tag, Numbered(K, tag), NEW nodes \in Seq(K), NEW n \in 0 .. Len(nodes),
         \A j \in 1 .. n : nodes[j].tag = tag
  PROVE  Len(IdsOf(SubSeq(nodes, 1, n), tag)) = n
<1> DEFINE FirstOf(i) == SubSeq(nodes, 1, i)
           S == {i \in 0 .. n : Len(IdsOf(FirstOf(i), tag)) = i}
<1>1. n \in Nat /\ Len(nodes) \in Nat /\ n <= Len(nodes)
  OBVIOUS
<1>2. 0 \in S
  <2>1. FirstOf(0) = <<>>
    OBVIOUS
  <2>2. Len(IdsOf(<<>>, tag)) = 0
    <3>1. IdsOf(<<>>, tag) = <<>>
      BY IdsOfFew
    <3> QED BY <3>1
  <2> HIDE DEF FirstOf
  <2> QED BY <1>1, <2>1, <2>2
<1>3. ASSUME NEW i \in 0 .. n - 1, i \in S PROVE i + 1 \in S
  <2>1. /\ i + 1 \in 1 .. n /\ i + 1 \in 1 .. Len(nodes) /\ i \in Nat /\ (i + 1) - 1 = i
        /\ i + 1 \in 0 .. n /\ i + 1 \in 1 .. Len(nodes) + 1 /\ 1 \in 1 .. Len(nodes) + 1
    BY <1>1
  <2> DEFINE one == <<nodes[i + 1]>>
             N == Len(nodes)
  <2>2. FirstOf(i + 1) = FirstOf(i) \o one
    <3>1. N \in Nat /\ i + 1 \in 1 .. N
      BY <2>1
    <3>2. \A m \in Int : 1 \in 1 .. Len(nodes) + 1 /\ m \in 1 - 1 + 1 .. Len(nodes)
             => SubSeq(nodes, 1, m) = SubSeq(nodes, 1, m - 1) \o <<nodes[m]>>
      BY SubSeqRecursiveSecond
    <3>3. i + 1 \in Int /\ i + 1 \in 1 - 1 + 1 .. Len(nodes)
      BY <2>1
    <3> QED BY <2>1, <3>2, <3>3
  <2>3. FirstOf(i) \in Seq(K) /\ one \in Seq(K) /\ nodes[i + 1] \in K
    BY <1>1, <2>1
  <2>4. nodes[i + 1].tag = tag
    BY <2>1
  <2> HIDE DEF FirstOf
  <2>5. IdsOf(one, tag) = <<nodes[i + 1].id>>
    BY <2>3, <2>4, IdsOfFew DEF IdOf
  <2>6. nodes[i + 1].id \in Nat
    BY <2>3, <2>4 DEF Numbered
  <2> HIDE DEF one
  <2>7. IdsOf(FirstOf(i + 1), tag) = IdsOf(FirstOf(i), tag) \o IdsOf(one, tag)
    <3> DEFINE a == FirstOf(i)
    <3>1. a \in Seq(K)
      BY <2>3
    <3> HIDE DEF a
    <3>2. IdsOf(a \o one, tag) = IdsOf(a, tag) \o IdsOf(one, tag)
      BY <2>3, <3>1, IdsOfBoth, Zenon
    <3> QED BY <2>2, <3>2 DEF a
  <2>8. IdsOf(FirstOf(i), tag) \in Seq(Nat)
    BY <2>3, IdsAre
  <2>9. Len(IdsOf(FirstOf(i + 1), tag)) = Len(IdsOf(FirstOf(i), tag)) + 1
    BY <2>5, <2>6, <2>7, <2>8
  <2>10. Len(IdsOf(FirstOf(i), tag)) = i
    BY <1>3
  <2> QED BY <2>1, <2>9, <2>10
<1>4. n \in S
  <2> HIDE DEF S
  <2>1. \A i \in 0 .. n : i \in S
    BY <1>1, <1>2, <1>3, StepByStep
  <2> QED BY <1>1, <2>1
<1> QED BY <1>4

(* The walk over all children finds the place among those with the tag, as *)
(* long as it meets no others.                                             *)
PlaceFor(nodes, idx, tag) ==
    IF idx \in {-1, Len(IdsOf(nodes, tag))} THEN Len(nodes) + 1 ELSE Tables!Walk(nodes, idx)

LEMMA PutInList ==
  ASSUME NEW K, NEW tag, Numbered(K, tag), NEW nodes \in Seq(K), NEW x \in K, x.tag = tag,
         NEW idx \in -1 .. Len(IdsOf(nodes, tag)), PlaceFor(nodes, idx, tag) > 0,
         \A j \in 1 .. idx : j \in DOMAIN nodes => nodes[j].tag = tag
  PROVE  Tables!IsInserted(IdsOf(Tables!InsertAt(nodes, PlaceFor(nodes, idx, tag), x), tag),
                           IdsOf(nodes, tag), idx, x.id)
<1> DEFINE ids == IdsOf(nodes, tag)
           place == PlaceFor(nodes, idx, tag)
           N == Len(nodes)
<1>1. ids \in Seq(Nat) /\ Len(ids) \in Nat /\ N \in Nat /\ DOMAIN nodes = 1 .. N
  <2>1. ids \in Seq(Nat)
    BY IdsAre
  <2> HIDE DEF ids
  <2> QED BY <2>1
<1>2. CASE idx \in {-1, Len(ids)}
  <2>1. place = N + 1 /\ place \in 1 .. Len(nodes) + 1 /\ place - 1 = N
    BY <1>1, <1>2 DEF PlaceFor
  <2>2. SubSeq(nodes, 1, place - 1) = nodes
    BY <2>1, SubSeqFull
  <2> HIDE DEF place
  <2>3. IdsOf(Tables!InsertAt(nodes, place, x), tag)
           = Tables!InsertAt(ids, Len(IdsOf(SubSeq(nodes, 1, place - 1), tag)) + 1, x.id)
    BY <2>1, IdsOfInserted
  <2>4. IdsOf(Tables!InsertAt(nodes, place, x), tag) = Tables!InsertAt(ids, Len(ids) + 1, x.id)
    BY <2>2, <2>3
  <2>5. (IF idx < 0 THEN Len(ids) + 1 ELSE idx + 1) = Len(ids) + 1
    BY <1>1, <1>2
  <2> HIDE DEF ids
  <2>6. Tables!IsInserted(IdsOf(Tables!InsertAt(nodes, place, x), tag), ids, idx, x.id)
    BY <2>4, <2>5 DEF Tables!IsInserted
  <2> QED BY <2>6 DEF place, ids
<1>3. CASE idx \notin {-1, Len(ids)}
  <2>1. idx \in Nat /\ idx < Len(ids) /\ ~(idx < 0)
    <3> HIDE DEF ids
    <3>1. idx \in Int /\ -1 <= idx /\ idx <= Len(ids) /\ idx # -1 /\ idx # Len(ids)
      BY <1>1, <1>3 DEF ids
    <3> QED BY <3>1, <1>1
  <2>2. place = Tables!Walk(nodes, idx)
    BY <1>3 DEF PlaceFor
  <2>3. place > 0
    OBVIOUS
  <2>4. idx <= N /\ place = idx + 1
    <3> HIDE DEF place
    <3>1. place = IF idx <= N THEN idx + 1 ELSE 0
      BY <2>1, <2>2 DEF Tables!Walk
    <3> QED BY <3>1, <2>3
  <2>5. place \in 1 .. Len(nodes) + 1 /\ place - 1 = idx /\ idx \in 0 .. Len(nodes)
    <3> HIDE DEF place
    <3> QED BY <1>1, <2>1, <2>4
  <2> HIDE DEF place
  <2>6. Len(IdsOf(SubSeq(nodes, 1, idx), tag)) = idx
    <3>1. \A j \in 1 .. idx : nodes[j].tag = tag
      <4>1. \A j \in 1 .. idx : j \in 1 .. N
        BY <2>1, <2>4, <1>1
      <4> QED BY <4>1, <1>1
    <3> QED BY <2>5, <3>1, PlainIds
  <2>7. IdsOf(Tables!InsertAt(nodes, place, x), tag)
           = Tables!InsertAt(ids, Len(IdsOf(SubSeq(nodes, 1, place - 1), tag)) + 1, x.id)
    BY <2>5, IdsOfInserted
  <2>8. (IF idx < 0 THEN Len(ids) + 1 ELSE idx + 1) = idx + 1
    BY <2>1
  <2> HIDE DEF ids
  <2>9. Tables!IsInserted(IdsOf(Tables!InsertAt(nodes, place, x), tag), ids, idx, x.id)
    BY <2>5, <2>6, <2>7, <2>8 DEF Tables!IsInserted
  <2> QED BY <2>9 DEF place, ids
<1> QED BY <1>2, <1>3

(* Inserting inside the middle of three.                                   *)
Three(a, v, b) == a \o v \o b

LEMMA InsertWithin ==
  ASSUME NEW Q, NEW a \in Seq(Q), NEW v \in Seq(Q), NEW b \in Seq(Q),
         NEW j \in 1 .. Len(v) + 1, NEW x \in Q
  PROVE  Three(a, Tables!InsertAt(v, j, x), b) = Tables!InsertAt(Three(a, v, b), Len(a) + j, x)
<1> DEFINE c == SubSeq(v, 1, j - 1)
           d == SubSeq(v, j, Len(v))
           one == <<x>>
<1>1. /\ c \in Seq(Q) /\ d \in Seq(Q) /\ Len(c) = j - 1 /\ v = c \o d
      /\ Tables!InsertAt(v, j, x) = c \o one \o d
  <2>1. CanPut(Q, v, j, x)
    BY DEF CanPut
  <2>2. IsPut(Q, v, j, x, Tables!InsertAt(v, j, x))
    BY <2>1, RowInsertedIs
  <2> QED BY <2>2 DEF IsPut
<1>2. one \in Seq(Q)
  OBVIOUS
<1> HIDE DEF c, d, one
<1> DEFINE R == Seq(Q)
<1>3. ASSUME NEW s \in R, NEW t \in R PROVE s \o t \in R
  BY ConcatProperties
<1>4. ASSUME NEW s \in R, NEW t \in R, NEW u \in R PROVE (s \o t) \o u = s \o (t \o u)
  BY ConcatIsAssociative, SMTT(30)
<1>0. a \in R /\ b \in R /\ c \in R /\ d \in R /\ one \in R
  BY <1>1, <1>2
<1> HIDE DEF R
<1> DEFINE ac == a \o c
           db == d \o b
           co == c \o one
<1>5. ac \in R /\ db \in R /\ co \in R /\ ac \o one \in R
  <2>1. ac \in R /\ db \in R /\ co \in R
    BY <1>0, <1>3
  <2> HIDE DEF ac, db, co
  <2> QED BY <1>0, <1>3, <2>1
<1>6. a \o (c \o d) \o b = ac \o db
  <2>1. a \o (c \o d) = ac \o d
    BY <1>0, <1>4, Zenon
  <2>2. (ac \o d) \o b = ac \o db
    <3>1. ac \in R /\ d \in R /\ b \in R
      BY <1>0, <1>5
    <3> HIDE DEF ac
    <3> QED BY <1>4, <3>1, Zenon
  <2> QED BY <2>1, <2>2, Zenon
<1>7. a \o ((c \o one) \o d) \o b = (ac \o one) \o db
  <2>1. a \o (co \o d) = (a \o co) \o d
    <3>1. a \in R /\ co \in R /\ d \in R
      BY <1>0, <1>5
    <3> HIDE DEF co
    <3> QED BY <1>4, <3>1, Zenon
  <2>2. a \o co = ac \o one
    BY <1>0, <1>4, SMTT(30)
  <2>3. ((ac \o one) \o d) \o b = (ac \o one) \o db
    <3> DEFINE z == ac \o one
    <3>1. z \in R
      BY <1>5
    <3> HIDE DEF z
    <3>2. (z \o d) \o b = z \o (d \o b)
      BY <3>1, <1>0, <1>4, Zenon
    <3> QED BY <3>2 DEF z
  <2> QED BY <2>1, <2>2, <2>3, Zenon
<1>8. Tables!InsertAt(ac \o db, Len(ac) + 1, x) = (ac \o one) \o db
  <2> HIDE DEF ac, db
  <2> QED BY <1>5, InsertBetween DEF one, R
<1>9. Len(ac) + 1 = Len(a) + j
  <2>1. Len(a \o c) = Len(a) + Len(c) /\ Len(a) \in Nat
    <3>1. a \in Seq(Q) /\ c \in Seq(Q)
      BY <1>1
    <3> QED BY <3>1
  <2> QED BY <1>1, <2>1
<1>10. Three(a, v, b) = ac \o db
  BY <1>1, <1>6 DEF Three
<1>11. Three(a, Tables!InsertAt(v, j, x), b) = (ac \o one) \o db
  BY <1>1, <1>7 DEF Three
<1> HIDE DEF ac, db
<1> QED BY <1>8, <1>9, <1>10, <1>11

(* One changed: those before and behind it are the same.                   *)
WithOne(a, x, b) == a \o <<x>> \o b

LEMMA ReplacedIs ==
  ASSUME NEW Q, NEW s \in Seq(Q), NEW i \in 1 .. Len(s), NEW x \in Q
  PROVE  /\ [s EXCEPT ![i] = x] \in Seq(Q) /\ Len([s EXCEPT ![i] = x]) = Len(s)
         /\ [s EXCEPT ![i] = x][i] = x
         /\ \A k \in 1 .. Len(s) : k # i => [s EXCEPT ![i] = x][k] = s[k]
         /\ [s EXCEPT ![i] = x] = WithOne(SubSeq(s, 1, i - 1), x, SubSeq(s, i + 1, Len(s)))
<1> DEFINE r == [s EXCEPT ![i] = x]
           N == Len(s)
<1>1. /\ r \in Seq(Q) /\ Len(r) = N /\ r[i] = x /\ i \in Nat /\ N \in Nat
      /\ \A k \in 1 .. N : k # i => r[k] = s[k]
  OBVIOUS
<1> HIDE DEF r
<1>2. r = SubSeq(r, 1, i - 1) \o <<r[i]>> \o SubSeq(r, i + 1, Len(r))
  BY <1>1, InThree
<1>3. SubSeq(r, 1, i - 1) = SubSeq(s, 1, i - 1)
  <2> DEFINE y == SubSeq(r, 1, i - 1)
             z == SubSeq(s, 1, i - 1)
  <2>1. /\ y \in Seq(Q) /\ Len(y) = i - 1 /\ \A k \in 1 .. i - 1 : y[k] = r[k]
        /\ z \in Seq(Q) /\ Len(z) = i - 1 /\ \A k \in 1 .. i - 1 : z[k] = s[k]
    BY <1>1
  <2>2. \A k \in 1 .. i - 1 : k \in 1 .. N /\ k # i
    BY <1>1
  <2> HIDE DEF y, z
  <2>3. y = z
    BY <2>1, <2>2, <1>1
  <2> QED BY <2>3 DEF y, z
<1>4. SubSeq(r, i + 1, N) = SubSeq(s, i + 1, N)
  <2> DEFINE y == SubSeq(r, i + 1, N)
             z == SubSeq(s, i + 1, N)
  <2>1. /\ y \in Seq(Q) /\ Len(y) = N - i /\ \A k \in 1 .. N - i : y[k] = r[i + k]
        /\ z \in Seq(Q) /\ Len(z) = N - i /\ \A k \in 1 .. N - i : z[k] = s[i + k]
    <3> HIDE DEF N
    <3>1. y \in Seq(Q) /\ Len(y) = N - i /\ \A k \in 1 .. N - i : y[k] = r[i + k]
      <4>1. i \in 1 .. N
        BY DEF N
      <4>2. \A k \in 1 .. N - i : i + k \in 1 .. N
        BY <1>1, <4>1
      <4> QED BY <1>1, <4>1, <4>2
    <3>2. s \in Seq(Q) /\ Len(s) = N /\ i \in 1 .. N
      BY DEF N
    <3>3. z \in Seq(Q) /\ Len(z) = N - i /\ \A k \in 1 .. N - i : z[k] = s[i + k]
      <4>1. \A k \in 1 .. N - i : i + k \in 1 .. N
        BY <1>1
      <4> HIDE DEF z
      <4> QED BY <3>2, <4>1, <1>1 DEF z
    <3> QED BY <3>1, <3>3
  <2>2. \A k \in 1 .. N - i : i + k \in 1 .. N /\ i + k # i
    BY <1>1
  <2> HIDE DEF y, z, N
  <2>3. y = z
    BY <2>1, <2>2, <1>1
  <2> QED BY <2>3 DEF y, z
<1> QED BY <1>1, <1>2, <1>3, <1>4, Zenon DEF r, WithOne

LEMMA RemovedIs ==
  ASSUME NEW Q, NEW s \in Seq(Q), NEW i \in 1 .. Len(s)
  PROVE  /\ Tables!RemoveAt(s, i) \in Seq(Q) /\ Len(Tables!RemoveAt(s, i)) = Len(s) - 1
         /\ \A k \in 1 .. Len(s) - 1 :
               Tables!RemoveAt(s, i)[k] = IF k < i THEN s[k] ELSE s[k + 1]
<1> DEFINE a == SubSeq(s, 1, i - 1)
           b == SubSeq(s, i + 1, Len(s))
           N == Len(s)
<1>1. /\ i \in Nat /\ N \in Nat /\ a \in Seq(Q) /\ b \in Seq(Q)
      /\ Len(a) = i - 1 /\ Len(b) = N - i
      /\ \A k \in 1 .. i - 1 : a[k] = s[k]
      /\ \A k \in 1 .. N - i : b[k] = s[i + k]
  OBVIOUS
<1>2. Tables!RemoveAt(s, i) = a \o b
  BY DEF Tables!RemoveAt
<1> HIDE DEF a, b
<1>3. /\ a \o b \in Seq(Q) /\ Len(a \o b) = Len(a) + Len(b)
      /\ a \o b = [k \in 1 .. Len(a) + Len(b) |-> IF k <= Len(a) THEN a[k] ELSE b[k - Len(a)]]
  BY <1>1, ConcatIs, Zenon
<1> DEFINE r == a \o b
<1>4. Len(a) + Len(b) = N - 1
  BY <1>1
<1> HIDE DEF r
<1>5. ASSUME NEW k \in 1 .. N - 1 PROVE r[k] = IF k < i THEN s[k] ELSE s[k + 1]
  <2>0. r[k] = IF k <= i - 1 THEN a[k] ELSE b[k - (i - 1)]
    BY <1>1, <1>3, <1>4 DEF r
  <2>1. CASE k < i
    <3>1. k \in 1 .. i - 1 /\ k <= i - 1
      BY <2>1, <1>1
    <3> QED BY <2>0, <2>1, <3>1, <1>1
  <2>2. CASE ~(k < i)
    <3>1. k - (i - 1) \in 1 .. N - i /\ i + (k - (i - 1)) = k + 1 /\ ~(k <= i - 1)
      BY <2>2, <1>1
    <3> QED BY <2>0, <2>2, <3>1, <1>1
  <2> QED BY <2>1, <2>2
<1> QED BY <1>2, <1>3, <1>4, <1>5 DEF r

(* The nodes of a page, and what tells them apart.                         *)
RowOrSpace == Tables!RowNodes \cup {Tables!Space}

LEMMA NodesOfPage ==
         /\ Numbered(RowOrSpace, "tr") /\ Numbered(Tables!CellNodes, "td")
         /\ Numbered(Tables!TableNodes, "tr")
         /\ \A tag \in {"thead", "tfoot"} : Numbered(RowOrSpace, tag)
         /\ \A n \in RowOrSpace : n.tag \notin {"thead", "tfoot"}
         /\ \A n \in Tables!TableNodes :
               /\ n.tag = "tr" => n \in Tables!RowNodes
               /\ n.tag = "#text" <=> n = Tables!Space
               /\ Tables!IsSection(n) <=> n \in Tables!SectionNodes
               /\ Tables!IsSection(n) => n.childNodes \in Seq(RowOrSpace) /\ n.tag # "tr"
         /\ \A n \in Tables!RowNodes :
               /\ n.tag = "tr" /\ n.id \in Nat /\ n.cells \in Seq(Tables!CellNodes)
               /\ ~Tables!IsSection(n) /\ n \in Tables!TableNodes /\ n \in RowOrSpace
         /\ \A n \in RowOrSpace : n.tag = "tr" => n \in Tables!RowNodes
<1>1. ASSUME NEW n \in Tables!RowNodes
      PROVE  n.tag = "tr" /\ n.id \in Nat /\ n.cells \in Seq(Tables!CellNodes)
  BY DEF Tables!RowNodes
<1>2. ASSUME NEW n \in Tables!SectionNodes
      PROVE  n.tag \in {"thead", "tbody", "tfoot"} /\ n.childNodes \in Seq(RowOrSpace)
  BY DEF Tables!SectionNodes, RowOrSpace
<1>3. Tables!Space.tag = "#text"
  BY DEF Tables!Space
<1>4. \A n \in Tables!CellNodes : n.id \in Nat
  BY DEF Tables!CellNodes
<1> QED BY <1>1, <1>2, <1>3, <1>4 DEF RowOrSpace, Tables!TableNodes, Tables!IsSection, Numbered

LEMMA NewRow ==
  ASSUME NEW id \in Nat
  PROVE  Tables!Row(id) \in Tables!RowNodes /\ Tables!Row(id).id = id
<1>1. <<>> \in Seq(Tables!CellNodes)
  OBVIOUS
<1> QED BY <1>1 DEF Tables!Row, Tables!RowNodes

LEMMA NewCell ==
  ASSUME NEW id \in Nat, NEW idx \in Int
  PROVE  /\ Tables!Cell(id, idx) \in Tables!CellNodes /\ Tables!Cell(id, idx).id = id
         /\ Tables!Cell(id, idx).tag = "td"
  BY DEF Tables!Cell, Tables!CellNodes

(* A section or a row with other children is one still.                    *)
LEMMA NewChildren ==
         /\ \A n \in Tables!SectionNodes : \A c \in Seq(RowOrSpace) :
               /\ [n EXCEPT !.childNodes = c] \in Tables!SectionNodes
               /\ [n EXCEPT !.childNodes = c].tag = n.tag
               /\ [n EXCEPT !.childNodes = c].childNodes = c
         /\ \A n \in Tables!RowNodes : \A c \in Seq(Tables!CellNodes) :
               /\ [n EXCEPT !.cells = c] \in Tables!RowNodes
               /\ [n EXCEPT !.cells = c].cells = c
<1> DEFINE Q == Seq(RowOrSpace)
           R == Seq(Tables!CellNodes)
<1>1. /\ Tables!SectionNodes = [tag : {"thead", "tbody", "tfoot"}, childNodes : Q]
      /\ Tables!RowNodes = [tag : {"tr"}, id : Nat, cells : R]
  BY DEF Tables!SectionNodes, Tables!RowNodes, RowOrSpace
<1> HIDE DEF Q, R
<1>2. ASSUME NEW n \in Tables!SectionNodes, NEW c \in Q
      PROVE  /\ [n EXCEPT !.childNodes = c] \in Tables!SectionNodes
             /\ [n EXCEPT !.childNodes = c].tag = n.tag
             /\ [n EXCEPT !.childNodes = c].childNodes = c
  BY <1>1
<1>3. ASSUME NEW n \in Tables!RowNodes, NEW c \in R
      PROVE  [n EXCEPT !.cells = c] \in Tables!RowNodes /\ [n EXCEPT !.cells = c].cells = c
  BY <1>1
<1> QED BY <1>2, <1>3 DEF Q, R

(* The places of the table's rows, its head and its foot, of any table.    *)
PathsIn(tb, i, tag) ==
    LET below == IF Tables!IsSection(tb[i]) THEN Tables!Places(tb[i].childNodes, tag) ELSE <<>>
    IN  (IF tb[i].tag = tag THEN <<<<i>>>> ELSE <<>>) \o [k \in DOMAIN below |-> <<i, below[k]>>]
PathLists(tb, tag) == [i \in DOMAIN tb |-> PathsIn(tb, i, tag)]
TaggedIn(tb, tag) == FlattenSeq(PathLists(tb, tag))
NodeIn(tb, path) == IF Len(path) = 1 THEN tb[path[1]] ELSE tb[path[1]].childNodes[path[2]]
RowsHere(tb) ==
    [k \in DOMAIN TaggedIn(tb, "tr") |-> NodeIn(tb, TaggedIn(tb, "tr")[k]).id]

LEMMA HereAndNext ==
         /\ \A tag : /\ Tables!ByTagName(tag) = TaggedIn(table, tag)
                     /\ Tables!ByTagName(tag)' = TaggedIn(table', tag)
         /\ Tables!Rows = RowsHere(table) /\ Tables!Rows' = RowsHere(table')
         /\ \A path : /\ Tables!At(path) = NodeIn(table, path)
                      /\ Tables!At(path)' = NodeIn(table', path)
<1>1. ASSUME NEW tag
      PROVE  /\ Tables!ByTagName(tag) = TaggedIn(table, tag)
             /\ Tables!ByTagName(tag)' = TaggedIn(table', tag)
  <2>1. Tables!ByTagName(tag) = Tables!FlattenSeq(PathLists(table, tag))
    BY DEF Tables!ByTagName, Tables!PathsAt, PathsIn, PathLists
  <2>2. Tables!ByTagName(tag)' = Tables!FlattenSeq(PathLists(table', tag))
    BY DEF Tables!ByTagName, Tables!PathsAt, PathsIn, PathLists
  <2> QED BY <2>1, <2>2, SameFlat DEF TaggedIn
<1>2. ASSUME NEW path
      PROVE  /\ Tables!At(path) = NodeIn(table, path)
             /\ Tables!At(path)' = NodeIn(table', path)
  BY DEF Tables!At, NodeIn
<1>3. Tables!Rows = RowsHere(table)
  BY <1>1 DEF Tables!Rows, RowsHere, Tables!At, NodeIn
<1>4. Tables!Rows' = RowsHere(table')
  BY <1>1 DEF Tables!Rows, RowsHere, Tables!At, NodeIn
<1> QED BY <1>1, <1>2, <1>3, <1>4

(* The rows of a table are those each child contributes.                   *)
RowIds(n) ==
    IF n.tag = "tr" THEN <<n.id>>
    ELSE IF Tables!IsSection(n) THEN IdsOf(n.childNodes, "tr") ELSE <<>>
RowIn == [n \in Tables!TableNodes |-> RowIds(n)]
RowsOf(tb) == Collected(RowIn, tb)

LEMMA RowInIs ==
  Maps(RowIn, Tables!TableNodes, Seq(Nat)) /\ \A n \in Tables!TableNodes : RowIn[n] = RowIds(n)
<1> DEFINE Q == Seq(Nat)
<1>1. ASSUME NEW n \in Tables!TableNodes PROVE RowIds(n) \in Q
  <2>1. CASE n.tag = "tr"
    <3>1. n.id \in Nat
      BY <2>1, NodesOfPage
    <3> QED BY <2>1, <3>1 DEF RowIds
  <2>2. CASE n.tag # "tr" /\ Tables!IsSection(n)
    <3>1. n.childNodes \in Seq(RowOrSpace) /\ Numbered(RowOrSpace, "tr")
      BY <2>2, NodesOfPage
    <3>2. IdsOf(n.childNodes, "tr") \in Seq(Nat)
      BY <3>1, IdsAre
    <3> QED BY <2>2, <3>2 DEF RowIds
  <2>3. CASE n.tag # "tr" /\ ~Tables!IsSection(n)
    BY <2>3 DEF RowIds
  <2> QED BY <2>1, <2>2, <2>3
<1> HIDE DEF Q
<1>2. RowIn \in [Tables!TableNodes -> Q]
  BY <1>1 DEF RowIn
<1> QED BY <1>2 DEF RowIn, Maps, Q

LEMMA NoPlaces ==
  ASSUME NEW K, NEW tag, NEW nodes \in Seq(K), Numbered(K, tag), \A n \in K : n.tag # tag
  PROVE  Tables!Places(nodes, tag) = <<>>
<1> DEFINE places == Tables!Places(nodes, tag)
<1>1. /\ places \in Seq(1 .. Len(nodes))
      /\ \A k \in 1 .. Len(places) : places[k] \in 1 .. Len(nodes) /\ nodes[places[k]].tag = tag
  BY PlacesAre
<1>2. \A i \in 1 .. Len(nodes) : nodes[i].tag # tag
  OBVIOUS
<1> HIDE DEF places
<1>3. Len(places) \in Nat /\ \A k \in 1 .. Len(places) : FALSE
  BY <1>1, <1>2
<1>4. Len(places) = 0
  BY <1>3
<1>5. places = <<>>
  BY <1>1, <1>4
<1> QED BY <1>5 DEF places

Tags == {"tr", "thead", "tfoot"}
PathsTo(tb, tag) ==
    {p \in Seq(Nat) :
        /\ p[1] \in 1 .. Len(tb)
        /\ \/ Len(p) = 1 /\ tb[p[1]].tag = tag
           \/ /\ Len(p) = 2 /\ Tables!IsSection(tb[p[1]]) /\ tag = "tr"
              /\ p[2] \in 1 .. Len(tb[p[1]].childNodes)
              /\ tb[p[1]].childNodes[p[2]].tag = tag}

LEMMA PathsInAre ==
  ASSUME NEW tb \in Seq(Tables!TableNodes), NEW i \in 1 .. Len(tb), NEW tag \in Tags
  PROVE  /\ tb[i].tag = tag => PathsIn(tb, i, tag) = <<<<i>>>>
         /\ Tables!IsSection(tb[i]) /\ tag = "tr" =>
               LET places == Tables!Places(tb[i].childNodes, "tr") IN
               PathsIn(tb, i, tag) = [k \in 1 .. Len(places) |-> <<i, places[k]>>]
         /\ tb[i].tag # tag /\ ~(Tables!IsSection(tb[i]) /\ tag = "tr") =>
               PathsIn(tb, i, tag) = <<>>
         /\ PathsIn(tb, i, tag) \in Seq(PathsTo(tb, tag))
<1> DEFINE n == tb[i]
           nodes == tb[i].childNodes
           places == Tables!Places(nodes, tag)
           self == IF n.tag = tag THEN <<<<i>>>> ELSE <<>>
           below == IF Tables!IsSection(n) THEN places ELSE <<>>
           C == PathsTo(tb, tag)
<1>1. n \in Tables!TableNodes /\ i \in Nat
  OBVIOUS
<1>2. PathsIn(tb, i, tag) = self \o [k \in DOMAIN below |-> <<i, below[k]>>]
  BY DEF PathsIn
<1>3. Tables!IsSection(n) => nodes \in Seq(RowOrSpace) /\ n.tag # "tr"
  BY <1>1, NodesOfPage
<1>4. Tables!IsSection(n) /\ tag # "tr" => places = <<>>
  <2> SUFFICES ASSUME Tables!IsSection(n), tag # "tr" PROVE places = <<>>
    OBVIOUS
  <2>1. /\ nodes \in Seq(RowOrSpace) /\ Numbered(RowOrSpace, tag)
        /\ \A m \in RowOrSpace : m.tag # tag
    BY <1>3, NodesOfPage DEF Tags
  <2> HIDE DEF nodes
  <2> QED BY <2>1, NoPlaces
<1>5. ~(Tables!IsSection(n) /\ tag = "tr") => below = <<>>
  BY <1>4
<1>6. below = <<>> => [k \in DOMAIN below |-> <<i, below[k]>>] = <<>>
  <2> HIDE DEF below
  <2> QED OBVIOUS
<1>7. ASSUME n.tag = tag PROVE PathsIn(tb, i, tag) = <<<<i>>>> /\ <<i>> \in C
  <2>1. ~(Tables!IsSection(n) /\ tag = "tr")
    BY <1>3, <1>7
  <2>2. PathsIn(tb, i, tag) = self \o <<>>
    BY <2>1, <1>2, <1>5, <1>6
  <2>3. self = <<<<i>>>>
    BY <1>7
  <2>4. <<<<i>>>> \o <<>> = <<<<i>>>>
    OBVIOUS
  <2>5. <<i>> \in C
    BY <1>1, <1>7 DEF PathsTo
  <2> QED BY <2>2, <2>3, <2>4, <2>5
<1>8. ASSUME n.tag # tag, ~(Tables!IsSection(n) /\ tag = "tr")
      PROVE  PathsIn(tb, i, tag) = <<>>
  <2>1. PathsIn(tb, i, tag) = self \o <<>> /\ self = <<>>
    BY <1>2, <1>5, <1>6, <1>8
  <2> QED BY <2>1
<1>9. ASSUME Tables!IsSection(n), tag = "tr"
      PROVE  /\ PathsIn(tb, i, tag) = [k \in 1 .. Len(places) |-> <<i, places[k]>>]
             /\ PathsIn(tb, i, tag) \in Seq(C)
  <2>1. nodes \in Seq(RowOrSpace) /\ Numbered(RowOrSpace, tag) /\ n.tag # tag
    BY <1>3, <1>9, NodesOfPage
  <2>2. /\ places \in Seq(1 .. Len(nodes))
        /\ \A k \in 1 .. Len(places) : places[k] \in 1 .. Len(nodes) /\ nodes[places[k]].tag = tag
    <3> HIDE DEF nodes
    <3> QED BY <2>1, PlacesAre
  <2>3. self = <<>> /\ below = places
    BY <2>1, <1>9
  <2> DEFINE paths == [k \in 1 .. Len(places) |-> <<i, places[k]>>]
  <2>4. DOMAIN places = 1 .. Len(places) /\ Len(places) \in Nat
    <3> HIDE DEF places
    <3> QED BY <2>2
  <2>5. PathsIn(tb, i, tag) = <<>> \o paths
    BY <1>2, <2>3, <2>4
  <2>6. ASSUME NEW k \in 1 .. Len(places) PROVE <<i, places[k]>> \in C
    <3>1. places[k] \in 1 .. Len(nodes) /\ nodes[places[k]].tag = tag /\ places[k] \in Nat
      BY <2>1, <2>2
    <3> HIDE DEF places
    <3> DEFINE p == <<i, places[k]>>
    <3>2. p \in Seq(Nat) /\ Len(p) = 2 /\ p[1] = i /\ p[2] = places[k]
      BY <1>1, <3>1
    <3> HIDE DEF p
    <3>3. p \in C
      BY <3>1, <3>2, <1>9 DEF PathsTo
    <3> QED BY <3>3 DEF p
  <2>7. paths \in Seq(C)
    <3> HIDE DEF C, places
    <3> QED BY <2>4, <2>6
  <2>8. <<>> \o paths = paths
    <3> HIDE DEF paths, C
    <3> QED BY <2>7
  <2> QED BY <2>5, <2>7, <2>8
<1>10. PathsIn(tb, i, tag) \in Seq(C)
  <2> DEFINE one == <<i>>
  <2> HIDE DEF C, n, places, self, below
  <2>1. CASE n.tag = tag
    <3>1. PathsIn(tb, i, tag) = <<one>> /\ one \in C
      BY <1>7, <2>1
    <3> HIDE DEF one
    <3> QED BY <3>1
  <2>2. CASE Tables!IsSection(n) /\ tag = "tr"
    BY <1>9, <2>2
  <2>3. CASE n.tag # tag /\ ~(Tables!IsSection(n) /\ tag = "tr")
    <3>1. PathsIn(tb, i, tag) = <<>>
      BY <1>8, <2>3
    <3> QED BY <3>1
  <2> QED BY <2>1, <2>2, <2>3
<1> QED BY <1>7, <1>8, <1>9, <1>10

LEMMA PathListsAre ==
  ASSUME NEW tb \in Seq(Tables!TableNodes), NEW tag \in Tags
  PROVE  /\ PathLists(tb, tag) \in Seq(Seq(PathsTo(tb, tag)))
         /\ Len(PathLists(tb, tag)) = Len(tb)
         /\ \A i \in 1 .. Len(tb) : PathLists(tb, tag)[i] = PathsIn(tb, i, tag)
         /\ TaggedIn(tb, tag) \in Seq(PathsTo(tb, tag))
<1> DEFINE C == PathsTo(tb, tag)
           Q == Seq(C)
           t == PathLists(tb, tag)
           N == Len(tb)
<1>1. N \in Nat /\ DOMAIN tb = 1 .. N
  OBVIOUS
<1>2. \A i \in 1 .. N : PathsIn(tb, i, tag) \in Q
  BY PathsInAre
<1>3. t = [i \in 1 .. N |-> PathsIn(tb, i, tag)]
  BY <1>1 DEF PathLists
<1> HIDE DEF Q, t, N
<1>4. t \in Seq(Q) /\ Len(t) = N /\ \A i \in 1 .. N : t[i] = PathsIn(tb, i, tag)
  <2>1. t \in [1 .. N -> Q]
    BY <1>2, <1>3
  <2> QED BY <1>1, <1>3, <2>1
<1> HIDE DEF C
<1>5. FlattenSeq(t) \in Seq(C)
  BY <1>4, FlattenIs DEF Q
<1> QED BY <1>4, <1>5 DEF Q, C, t, N, TaggedIn

(* What the paths to the rows lead to.                                     *)
PathId(tb) == [p \in PathsTo(tb, "tr") |-> NodeIn(tb, p).id]

LEMMA PathIdIs ==
  ASSUME NEW tb \in Seq(Tables!TableNodes)
  PROVE  /\ Maps(PathId(tb), PathsTo(tb, "tr"), Nat)
         /\ \A p \in PathsTo(tb, "tr") :
               PathId(tb)[p] = NodeIn(tb, p).id /\ NodeIn(tb, p) \in Tables!RowNodes
<1>1. ASSUME NEW p \in PathsTo(tb, "tr") PROVE NodeIn(tb, p) \in Tables!RowNodes
  <2> DEFINE n == tb[p[1]]
  <2>1. n \in Tables!TableNodes
    BY DEF PathsTo
  <2>2. CASE Len(p) = 1 /\ n.tag = "tr"
    BY <2>1, <2>2, NodesOfPage DEF NodeIn
  <2>3. CASE /\ Len(p) = 2 /\ Tables!IsSection(n)
             /\ p[2] \in 1 .. Len(n.childNodes) /\ n.childNodes[p[2]].tag = "tr"
    <3>1. n.childNodes \in Seq(RowOrSpace)
      BY <2>1, <2>3, NodesOfPage
    <3> HIDE DEF n
    <3>2. n.childNodes[p[2]] \in RowOrSpace
      BY <2>3, <3>1
    <3>3. NodeIn(tb, p) = n.childNodes[p[2]]
      BY <2>3 DEF NodeIn, n
    <3> QED BY <2>3, <3>2, <3>3, NodesOfPage
  <2> QED BY <2>2, <2>3 DEF PathsTo
<1>2. \A p \in PathsTo(tb, "tr") : NodeIn(tb, p).id \in Nat
  BY <1>1, NodesOfPage
<1> QED BY <1>1, <1>2 DEF PathId, Maps

LEMMA RowsOfChild ==
  ASSUME NEW tb \in Seq(Tables!TableNodes), NEW i \in 1 .. Len(tb)
  PROVE  Mapped(PathId(tb), PathsIn(tb, i, "tr")) = RowIds(tb[i])
<1> DEFINE m == PathId(tb)
           n == tb[i]
           C == PathsTo(tb, "tr")
           paths == PathsIn(tb, i, "tr")
<1>1. n \in Tables!TableNodes
  OBVIOUS
<1>2. paths \in Seq(C) /\ "tr" \in Tags
  BY PathsInAre DEF Tags
<1>3. \A p \in C : m[p] = NodeIn(tb, p).id
  BY PathIdIs
<1>4. CASE n.tag = "tr"
  <2>1. paths = <<<<i>>>>
    BY <1>2, <1>4, PathsInAre
  <2>2. <<i>> \in C /\ NodeIn(tb, <<i>>) = n
    BY <1>1, <1>4 DEF PathsTo, NodeIn
  <2> DEFINE one == <<i>>
  <2>3. m[one] = n.id
    BY <2>2, <1>3
  <2> HIDE DEF m, one
  <2>4. Mapped(m, <<one>>) = <<m[one]>>
    BY DEF Mapped
  <2>5. RowIds(n) = <<n.id>>
    BY <1>4 DEF RowIds
  <2>6. paths = <<one>>
    BY <2>1 DEF one
  <2> HIDE DEF paths
  <2>7. Mapped(m, paths) = RowIds(n)
    BY <2>3, <2>4, <2>5, <2>6
  <2> QED BY <2>7 DEF m, paths
<1>5. CASE Tables!IsSection(n)
  <2> DEFINE nodes == n.childNodes
             places == Tables!Places(nodes, "tr")
  <2>1. nodes \in Seq(RowOrSpace) /\ Numbered(RowOrSpace, "tr") /\ n.tag # "tr"
    BY <1>1, <1>5, NodesOfPage
  <2>2. /\ places \in Seq(1 .. Len(nodes))
        /\ IdsOf(nodes, "tr") = [k \in DOMAIN places |-> nodes[places[k]].id]
    <3> HIDE DEF nodes
    <3> QED BY <2>1, PlacesAre
  <2>3. paths = [k \in 1 .. Len(places) |-> <<i, places[k]>>]
    BY <1>2, <1>5, PathsInAre
  <2>4. DOMAIN places = 1 .. Len(places) /\ Len(places) \in Nat
    <3> HIDE DEF places
    <3> QED BY <2>2
  <2>5. Len(paths) = Len(places) /\ \A k \in 1 .. Len(places) : paths[k] \in C
    <3> HIDE DEF C, paths, places
    <3>1. Len(paths) = Len(places)
      BY <2>3, <2>4, <1>2
    <3> QED BY <3>1, <1>2
  <2>6. ASSUME NEW k \in 1 .. Len(places) PROVE m[paths[k]] = nodes[places[k]].id
    <3>1. paths[k] = <<i, places[k]>> /\ paths[k] \in C
      <4> HIDE DEF paths, places, C
      <4> QED BY <2>3, <2>5
    <3>2. m[paths[k]] = NodeIn(tb, <<i, places[k]>>).id
      BY <3>1, <1>3
    <3>3. NodeIn(tb, <<i, places[k]>>) = nodes[places[k]]
      BY DEF NodeIn
    <3> QED BY <3>2, <3>3
  <2>7. Mapped(m, paths) = [k \in 1 .. Len(places) |-> nodes[places[k]].id]
    <3>1. Mapped(m, paths) = [k \in 1 .. Len(places) |-> m[paths[k]]]
      BY <2>5 DEF Mapped
    <3> HIDE DEF m, paths, places, nodes
    <3> QED BY <3>1, <2>6
  <2>8. RowIds(n) = IdsOf(nodes, "tr")
    BY <1>5, <2>1 DEF RowIds
  <2> HIDE DEF m, paths, places, nodes, n
  <2>9. Mapped(m, paths) = RowIds(n)
    BY <2>2, <2>4, <2>7, <2>8
  <2> QED BY <2>9 DEF m, paths, n
<1>6. CASE n.tag # "tr" /\ ~Tables!IsSection(n)
  <2>1. paths = <<>>
    BY <1>2, <1>6, PathsInAre
  <2>2. Mapped(m, <<>>) = <<>>
    BY DEF Mapped
  <2> QED BY <1>6, <2>1, <2>2 DEF RowIds
<1> QED BY <1>4, <1>5, <1>6

LEMMA RowsOfPaths ==
  ASSUME NEW tb \in Seq(Tables!TableNodes), NEW n \in 0 .. Len(tb)
  PROVE  /\ SubSeq(tb, 1, n) \in Seq(Tables!TableNodes)
         /\ RowsOf(SubSeq(tb, 1, n)) =
               Mapped(PathId(tb), FlattenSeq(SubSeq(PathLists(tb, "tr"), 1, n)))
         /\ FlattenSeq(SubSeq(PathLists(tb, "tr"), 1, n)) \in Seq(PathsTo(tb, "tr"))
<1> DEFINE N == Len(tb)
           K == Tables!TableNodes
           C == PathsTo(tb, "tr")
           first == SubSeq(tb, 1, n)
           t == SubSeq(PathLists(tb, "tr"), 1, n)
           u == Mapped(RowIn, first)
           m == PathId(tb)
<1> HIDE DEF K
<1>1. /\ N \in Nat /\ n \in Nat /\ n <= N /\ \A i \in 1 .. n : i \in 1 .. N
      /\ first \in Seq(K) /\ Len(first) = n /\ \A i \in 1 .. n : first[i] = tb[i]
  BY DEF K
<1>2. Maps(m, C, Nat)
  BY PathIdIs
<1>3. Maps(RowIn, K, Seq(Nat)) /\ \A x \in K : RowIn[x] = RowIds(x)
  BY RowInIs DEF K
<1>4. /\ t \in Seq(Seq(C)) /\ Len(t) = n
      /\ \A i \in 1 .. n : t[i] = PathsIn(tb, i, "tr")
  <2> DEFINE Q == Seq(C)
             all1 == PathLists(tb, "tr")
  <2>1. all1 \in Seq(Q) /\ Len(all1) = N /\ \A i \in 1 .. N : all1[i] = PathsIn(tb, i, "tr")
    BY PathListsAre DEF Tags
  <2> HIDE DEF Q, all1, N
  <2>2. SubSeq(all1, 1, n) \in Seq(Q) /\ Len(SubSeq(all1, 1, n)) = n
        /\ \A i \in 1 .. n : SubSeq(all1, 1, n)[i] = all1[i]
    BY <2>1, <1>1
  <2> QED BY <2>1, <2>2, <1>1 DEF Q, all1
<1>5. u \in Seq(Seq(Nat)) /\ Len(u) = n
  <2> HIDE DEF first
  <2> QED BY <1>1, <1>3, CollectedIs
<1>6. ASSUME NEW i \in 1 .. n PROVE u[i] = Mapped(m, t[i])
  <2>1. i \in 1 .. N /\ first[i] = tb[i] /\ tb[i] \in K
    BY <1>1 DEF K
  <2>2. u[i] = RowIn[first[i]]
    <3> HIDE DEF first
    <3> QED BY <1>1 DEF Mapped
  <2>3. u[i] = RowIds(tb[i])
    <3> HIDE DEF first, u
    <3> QED BY <2>1, <2>2, <1>3
  <2>4. Mapped(m, PathsIn(tb, i, "tr")) = RowIds(tb[i])
    BY <2>1, RowsOfChild
  <2>5. t[i] = PathsIn(tb, i, "tr")
    BY <1>4
  <2> HIDE DEF t, u, m
  <2> QED BY <2>3, <2>4, <2>5
<1> HIDE DEF t, u, m, C, first
<1>7. FlattenSeq(u) = Mapped(m, FlattenSeq(t))
  BY <1>2, <1>4, <1>5, <1>6, FlattenMapped, SMTT(30)
<1>8. FlattenSeq(t) \in Seq(C)
  BY <1>4, FlattenIs
<1> QED BY <1>1, <1>7, <1>8 DEF RowsOf, Collected, t, u, m, C, K, first

LEMMA RowsAre ==
  ASSUME NEW tb \in Seq(Tables!TableNodes)
  PROVE  /\ RowsHere(tb) = RowsOf(tb) /\ RowsOf(tb) \in Seq(Nat)
         /\ Len(TaggedIn(tb, "tr")) = Len(RowsOf(tb))
<1> DEFINE C == PathsTo(tb, "tr")
           t == PathLists(tb, "tr")
           N == Len(tb)
           m == PathId(tb)
           paths == TaggedIn(tb, "tr")
<1>1. t \in Seq(Seq(C)) /\ Len(t) = N /\ paths \in Seq(C) /\ N \in Nat
  BY PathListsAre DEF Tags
<1>2. N \in 0 .. N /\ SubSeq(tb, 1, N) = tb
  BY SubSeqFull
<1>3. SubSeq(t, 1, N) = t
  <2> DEFINE Q == Seq(C)
  <2> HIDE DEF t, N, Q
  <2>1. t \in Seq(Q) /\ Len(t) = N
    BY <1>1 DEF Q
  <2> QED BY <2>1, SubSeqFull
<1>4. RowsOf(tb) = Mapped(m, paths)
  <2>1. RowsOf(SubSeq(tb, 1, N)) = Mapped(m, FlattenSeq(SubSeq(t, 1, N)))
    BY <1>2, RowsOfPaths
  <2> QED BY <2>1, <1>2, <1>3 DEF TaggedIn
<1>5. Maps(m, C, Nat) /\ \A p \in C : m[p] = NodeIn(tb, p).id
  BY PathIdIs
<1> HIDE DEF m, C, paths, N, t
<1>6. Mapped(m, paths) \in Seq(Nat) /\ Len(Mapped(m, paths)) = Len(paths)
  BY <1>1, <1>5, MappedIs
<1>7. DOMAIN paths = 1 .. Len(paths) /\ \A k \in 1 .. Len(paths) : paths[k] \in C
  BY <1>1
<1>8. RowsHere(tb) = [k \in 1 .. Len(paths) |-> m[paths[k]]]
  <2>1. RowsHere(tb) = [k \in DOMAIN paths |-> NodeIn(tb, paths[k]).id]
    BY DEF RowsHere, paths
  <2> QED BY <2>1, <1>5, <1>7
<1> QED BY <1>4, <1>6, <1>8 DEF Mapped, paths

(* Where the k-th row, or head or foot, is.                                *)
LEMMA TaggedAt ==
  ASSUME NEW tb \in Seq(Tables!TableNodes), NEW tag \in Tags,
         NEW k \in 1 .. Len(TaggedIn(tb, tag))
  PROVE  \E i \in 1 .. Len(tb) : \E j \in 1 .. Len(PathsIn(tb, i, tag)) :
            /\ k = Len(FlattenSeq(SubSeq(PathLists(tb, tag), 1, i - 1))) + j
            /\ TaggedIn(tb, tag)[k] = PathsIn(tb, i, tag)[j]
            /\ tag = "tr" => k = Len(RowsOf(SubSeq(tb, 1, i - 1))) + j
<1> DEFINE t == PathLists(tb, tag)
           C == PathsTo(tb, tag)
           N == Len(tb)
<1>1. /\ t \in Seq(Seq(C)) /\ Len(t) = N /\ N \in Nat
      /\ \A i \in 1 .. N : t[i] = PathsIn(tb, i, tag)
  BY PathListsAre
<1>2. k \in 1 .. Len(FlattenSeq(t)) /\ TaggedIn(tb, tag) = FlattenSeq(t)
  BY DEF TaggedIn
<1> HIDE DEF t, C
<1>3. \E i \in 1 .. Len(t) : \E j \in 1 .. Len(t[i]) :
         k = Len(FlattenSeq(SubSeq(t, 1, i - 1))) + j /\ FlattenSeq(t)[k] = t[i][j]
  BY <1>1, <1>2, FlattenAt
<1>4. PICK i \in 1 .. N : \E j \in 1 .. Len(t[i]) :
         k = Len(FlattenSeq(SubSeq(t, 1, i - 1))) + j /\ FlattenSeq(t)[k] = t[i][j]
  BY <1>1, <1>3
<1>5. ASSUME tag = "tr"
      PROVE  Len(RowsOf(SubSeq(tb, 1, i - 1))) = Len(FlattenSeq(SubSeq(t, 1, i - 1)))
  <2> DEFINE before == FlattenSeq(SubSeq(t, 1, i - 1))
             m == PathId(tb)
  <2>1. i - 1 \in 0 .. Len(tb)
    BY <1>1
  <2>2. RowsOf(SubSeq(tb, 1, i - 1)) = Mapped(m, before) /\ before \in Seq(C)
    BY <2>1, <1>5, RowsOfPaths DEF t, C
  <2>3. Maps(m, C, Nat)
    BY <1>5, PathIdIs DEF C
  <2> HIDE DEF before, m
  <2>4. Len(Mapped(m, before)) = Len(before)
    BY <2>2, <2>3, MappedIs
  <2> QED BY <2>2, <2>4 DEF before
<1> QED BY <1>1, <1>2, <1>4, <1>5 DEF t

(* What the children around one contribute.                                *)
LEMMA CollectedInThree ==
  ASSUME NEW K, NEW D, NEW w, Maps(w, K, Seq(D)), NEW a \in Seq(K), NEW b \in Seq(K), NEW x \in K
  PROVE  Collected(w, WithOne(a, x, b)) = Collected(w, a) \o w[x] \o Collected(w, b)
<1> DEFINE one == <<x>>
           ax == a \o one
<1>1. one \in Seq(K)
  OBVIOUS
<1>2. Collected(w, one) = w[x]
  BY CollectedOfFew
<1> HIDE DEF one
<1>3. ax \in Seq(K)
  BY <1>1, ConcatProperties
<1>4. Collected(w, ax) = Collected(w, a) \o Collected(w, one)
  BY <1>1, CollectedOfBoth
<1> HIDE DEF ax
<1>5. Collected(w, ax \o b) = Collected(w, ax) \o Collected(w, b)
  BY <1>3, CollectedOfBoth
<1>6. WithOne(a, x, b) = ax \o b
  BY DEF WithOne, ax, one
<1> QED BY <1>2, <1>4, <1>5, <1>6

(* The rows of a table where the i-th child is n.                          *)
RowsAround(tb, i, n) ==
    RowsOf(SubSeq(tb, 1, i - 1)) \o RowIds(n) \o RowsOf(SubSeq(tb, i + 1, Len(tb)))

LEMMA RowsAroundAre ==
  ASSUME NEW tb \in Seq(Tables!TableNodes), NEW i \in 1 .. Len(tb), NEW n \in Tables!TableNodes
  PROVE  /\ RowsOf(tb) = RowsAround(tb, i, tb[i])
         /\ [tb EXCEPT ![i] = n] \in Seq(Tables!TableNodes)
         /\ RowsOf([tb EXCEPT ![i] = n]) = RowsAround(tb, i, n)
         /\ RowsOf(SubSeq(tb, 1, i - 1)) \in Seq(Nat)
         /\ RowsOf(SubSeq(tb, i + 1, Len(tb))) \in Seq(Nat)
         /\ RowIds(n) \in Seq(Nat)
<1> DEFINE K == Tables!TableNodes
           a == SubSeq(tb, 1, i - 1)
           b == SubSeq(tb, i + 1, Len(tb))
           r == [tb EXCEPT ![i] = n]
           x == tb[i]
<1> HIDE DEF K
<1>1. Maps(RowIn, K, Seq(Nat)) /\ \A m \in K : RowIn[m] = RowIds(m)
  BY RowInIs DEF K
<1>2. a \in Seq(K) /\ b \in Seq(K) /\ x \in K /\ tb = WithOne(a, x, b)
  BY InThree DEF K, WithOne
<1>4. n \in K /\ tb \in Seq(K)
  BY DEF K
<1>3. r \in Seq(K) /\ r = WithOne(a, n, b)
  BY <1>4, ReplacedIs
<1> HIDE DEF a, b, r, x
<1>5. ASSUME NEW m \in K
      PROVE  Collected(RowIn, WithOne(a, m, b)) = Collected(RowIn, a) \o RowIn[m] \o Collected(RowIn, b)
  BY <1>1, <1>2, CollectedInThree
<1>6. Collected(RowIn, a) \in Seq(Nat) /\ Collected(RowIn, b) \in Seq(Nat)
  BY <1>1, <1>2, CollectedIs
<1>7. RowIds(n) \in Seq(Nat)
  <2> DEFINE Q == Seq(Nat)
  <2>1. RowIn \in [K -> Q]
    BY <1>1 DEF Maps
  <2> HIDE DEF Q
  <2>2. RowIn[n] \in Q
    BY <2>1, <1>4
  <2> QED BY <2>2, <1>1, <1>4 DEF Q
<1>8. Collected(RowIn, tb) = Collected(RowIn, a) \o RowIds(x) \o Collected(RowIn, b)
  BY <1>1, <1>2, <1>5
<1>9. Collected(RowIn, r) = Collected(RowIn, a) \o RowIds(n) \o Collected(RowIn, b)
  BY <1>1, <1>3, <1>4, <1>5
<1> QED BY <1>3, <1>6, <1>7, <1>8, <1>9 DEF RowsAround, RowsOf, K, a, b, r, x

(* A row more among the children of the table itself.                      *)
LEMMA RowPut ==
  ASSUME NEW tb \in Seq(Tables!TableNodes), NEW p \in 1 .. Len(tb) + 1, NEW x \in Tables!RowNodes
  PROVE  RowsOf(Tables!InsertAt(tb, p, x)) =
            Tables!InsertAt(RowsOf(tb), Len(RowsOf(SubSeq(tb, 1, p - 1))) + 1, x.id)
<1> DEFINE K == Tables!TableNodes
<1> HIDE DEF K
<1>1. Maps(RowIn, K, Seq(Nat)) /\ \A m \in K : RowIn[m] = RowIds(m)
  BY RowInIs DEF K
<1>2. x \in K /\ x.id \in Nat /\ x.tag = "tr"
  BY NodesOfPage DEF K
<1>3. RowIn[x] = <<x.id>>
  BY <1>1, <1>2 DEF RowIds
<1>4. tb \in Seq(K)
  BY DEF K
<1>5. Collected(RowIn, Tables!InsertAt(tb, p, x)) =
         Tables!InsertAt(Collected(RowIn, tb), Len(Collected(RowIn, SubSeq(tb, 1, p - 1))) + 1, x.id)
  BY <1>1, <1>2, <1>3, <1>4, CollectedOfInserted
<1> QED BY <1>5 DEF RowsOf

LEMMA InsertAtEnds ==
  ASSUME NEW Q, NEW s \in Seq(Q), NEW x \in Q
  PROVE  /\ Tables!InsertAt(s, Len(s) + 1, x) = Append(s, x)
         /\ Tables!InsertAt(s, 1, x) = <<x>> \o s
<1> DEFINE n == Len(s)
           one == <<x>>
<1>1. n \in Nat /\ (n + 1) - 1 = n /\ 1 - 1 = 0 /\ one \in Seq(Q)
  OBVIOUS
<1>2. /\ SubSeq(s, 1, n) = s /\ SubSeq(s, n + 1, n) = <<>> /\ SubSeq(s, 1, 0) = <<>>
  <2>1. SubSeq(s, 1, n) = s
    BY SubSeqFull
  <2>2. SubSeq(s, n + 1, n) = <<>> /\ SubSeq(s, 1, 0) = <<>>
    BY <1>1, SubSeqEmpty
  <2> QED BY <2>1, <2>2
<1>3. Tables!InsertAt(s, n + 1, x) = (s \o one) \o <<>>
  BY <1>1, <1>2 DEF Tables!InsertAt
<1>4. Tables!InsertAt(s, 1, x) = (<<>> \o one) \o s
  BY <1>1, <1>2 DEF Tables!InsertAt
<1>5. s \o one \in Seq(Q) /\ s \o one = Append(s, x)
  OBVIOUS
<1>6. (s \o one) \o <<>> = s \o one
  BY <1>5, ConcatEmptySeq
<1>7. <<>> \o one = one
  BY <1>1, ConcatEmptySeq
<1> QED BY <1>3, <1>4, <1>5, <1>6, <1>7

-----------------------------------------------------------------------------
(* The head stays first.                                                   *)
LEMMA HeadFirstIs ==
  ASSUME NEW tb \in Seq(Tables!TableNodes)
  PROVE  Tables!HeadFirst(tb) <=>
            \A i, j \in 1 .. Len(tb) :
               /\ tb[i].tag \in {"thead", "tfoot"} /\ tb[j].tag = tb[i].tag => i = j
               /\ tb[i].tag = "thead" /\ tb[j].tag # "#text" => i <= j
<1>1. DOMAIN tb = 1 .. Len(tb) /\ \A j \in 1 .. Len(tb) : tb[j] \in Tables!TableNodes
  OBVIOUS
<1>2. \A j \in 1 .. Len(tb) : tb[j] # Tables!Space <=> tb[j].tag # "#text"
  BY <1>1, NodesOfPage
<1> QED BY <1>1, <1>2 DEF Tables!HeadFirst

LEMMA PagePut ==
  ASSUME NEW tb, Tables!IsPage(tb), NEW p \in 1 .. Len(tb) + 1, NEW x \in Tables!TableNodes,
         x.tag \in {"thead", "tfoot"} => \A k \in 1 .. Len(tb) : tb[k].tag # x.tag,
         x.tag = "thead" => p = 1,
         x.tag # "thead" => \A k \in 1 .. Len(tb) : tb[k].tag = "thead" => k < p
  PROVE  Tables!IsPage(Tables!InsertAt(tb, p, x))
<1> DEFINE K == Tables!TableNodes
           r == Tables!InsertAt(tb, p, x)
           N == Len(tb)
<1>1. tb \in Seq(K) /\ N \in Nat /\ p \in Nat
  BY DEF Tables!IsPage
<1>2. \A i, j \in 1 .. N :
         /\ tb[i].tag \in {"thead", "tfoot"} /\ tb[j].tag = tb[i].tag => i = j
         /\ tb[i].tag = "thead" /\ tb[j].tag # "#text" => i <= j
  BY <1>1, HeadFirstIs DEF Tables!IsPage
<1>3. /\ r \in Seq(K) /\ Len(r) = N + 1
      /\ \A k \in 1 .. N + 1 : r[k] = IF k < p THEN tb[k] ELSE IF k = p THEN x ELSE tb[k - 1]
  <2>1. CanPut(K, tb, p, x)
    BY <1>1 DEF CanPut
  <2>2. IsPut(K, tb, p, x, r)
    BY <2>1, RowInsertedIs
  <2> QED BY <2>2 DEF IsPut
<1> HIDE DEF K, r
<1> DEFINE Old(k) == IF k < p THEN k ELSE k - 1
<1>4. p \in 1 .. N + 1
  OBVIOUS
<1> HIDE DEF N
<1>5. ASSUME NEW k \in 1 .. N + 1, k # p PROVE Old(k) \in 1 .. N /\ r[k].tag = tb[Old(k)].tag
  <2>1. CASE k < p
    <3>1. k \in 1 .. N
      BY <2>1, <1>1, <1>4
    <3> QED BY <2>1, <3>1, <1>3
  <2>2. CASE ~(k < p)
    <3>1. k - 1 \in 1 .. N
      BY <2>2, <1>1, <1>4, <1>5
    <3> QED BY <2>2, <3>1, <1>3, <1>5
  <2> QED BY <2>1, <2>2
<1>6. r[p] = x
  BY <1>1, <1>3, <1>4
<1>7. ASSUME NEW i \in 1 .. N + 1, NEW j \in 1 .. N + 1
      PROVE  /\ r[i].tag \in {"thead", "tfoot"} /\ r[j].tag = r[i].tag => i = j
             /\ r[i].tag = "thead" /\ r[j].tag # "#text" => i <= j
  <2>1. CASE i = p /\ j = p
    BY <2>1, <1>1
  <2>2. CASE i = p /\ j # p
    <3>1. Old(j) \in 1 .. N /\ r[j].tag = tb[Old(j)].tag
      BY <2>2, <1>5
    <3>2. x.tag \in {"thead", "tfoot"} => r[j].tag # x.tag
      BY <3>1 DEF N
    <3> QED BY <2>2, <3>2, <1>1, <1>6
  <2>3. CASE i # p /\ j = p
    <3>1. Old(i) \in 1 .. N /\ r[i].tag = tb[Old(i)].tag
      BY <2>3, <1>5
    <3>2. x.tag \in {"thead", "tfoot"} => r[i].tag # x.tag
      BY <3>1 DEF N
    <3>3. r[i].tag = "thead" => Old(i) < p
      BY <3>1, <3>2 DEF N
    <3>4. Old(i) < p => i <= p
      BY <2>3, <1>1
    <3> QED BY <2>3, <3>2, <3>3, <3>4, <1>6
  <2>4. CASE i # p /\ j # p
    <3>1. /\ Old(i) \in 1 .. N /\ r[i].tag = tb[Old(i)].tag
          /\ Old(j) \in 1 .. N /\ r[j].tag = tb[Old(j)].tag
      BY <2>4, <1>5
    <3>2. (Old(i) = Old(j) => i = j) /\ (Old(i) <= Old(j) => i <= j)
      BY <2>4, <1>1
    <3> HIDE DEF Old
    <3> QED BY <3>1, <3>2, <1>2
  <2> QED BY <2>1, <2>2, <2>3, <2>4
<1>8. \A i, j \in 1 .. Len(r) :
         /\ r[i].tag \in {"thead", "tfoot"} /\ r[j].tag = r[i].tag => i = j
         /\ r[i].tag = "thead" /\ r[j].tag # "#text" => i <= j
  BY <1>3, <1>7
<1>9. Tables!HeadFirst(r)
  BY <1>3, <1>8, HeadFirstIs DEF K
<1> QED BY <1>3, <1>9 DEF Tables!IsPage, K, r

LEMMA PageTaken ==
  ASSUME NEW tb, Tables!IsPage(tb), NEW p \in 1 .. Len(tb)
  PROVE  Tables!IsPage(Tables!RemoveAt(tb, p))
<1> DEFINE K == Tables!TableNodes
           r == Tables!RemoveAt(tb, p)
           N == Len(tb)
<1>1. tb \in Seq(K) /\ N \in Nat /\ p \in Nat
  BY DEF Tables!IsPage
<1>2. \A i, j \in 1 .. N :
         /\ tb[i].tag \in {"thead", "tfoot"} /\ tb[j].tag = tb[i].tag => i = j
         /\ tb[i].tag = "thead" /\ tb[j].tag # "#text" => i <= j
  BY <1>1, HeadFirstIs DEF Tables!IsPage
<1>3. /\ r \in Seq(K) /\ Len(r) = N - 1
      /\ \A k \in 1 .. N - 1 : r[k] = IF k < p THEN tb[k] ELSE tb[k + 1]
  BY <1>1, RemovedIs
<1>4. p \in 1 .. N
  OBVIOUS
<1> HIDE DEF K, r, N
<1> DEFINE Old(k) == IF k < p THEN k ELSE k + 1
<1>5. ASSUME NEW k \in 1 .. N - 1 PROVE Old(k) \in 1 .. N /\ r[k].tag = tb[Old(k)].tag
  BY <1>1, <1>3, <1>4
<1>6. ASSUME NEW i \in 1 .. N - 1, NEW j \in 1 .. N - 1
      PROVE  /\ r[i].tag \in {"thead", "tfoot"} /\ r[j].tag = r[i].tag => i = j
             /\ r[i].tag = "thead" /\ r[j].tag # "#text" => i <= j
  <2>1. /\ Old(i) \in 1 .. N /\ r[i].tag = tb[Old(i)].tag
        /\ Old(j) \in 1 .. N /\ r[j].tag = tb[Old(j)].tag
    BY <1>5
  <2>2. (Old(i) = Old(j) => i = j) /\ (Old(i) <= Old(j) => i <= j)
    BY <1>1
  <2> HIDE DEF Old
  <2> QED BY <2>1, <2>2, <1>2
<1>7. \A i, j \in 1 .. Len(r) :
         /\ r[i].tag \in {"thead", "tfoot"} /\ r[j].tag = r[i].tag => i = j
         /\ r[i].tag = "thead" /\ r[j].tag # "#text" => i <= j
  BY <1>3, <1>6
<1>8. Tables!HeadFirst(r)
  BY <1>3, <1>7, HeadFirstIs DEF K
<1> QED BY <1>3, <1>8 DEF Tables!IsPage, K, r

LEMMA PageReplaced ==
  ASSUME NEW tb, Tables!IsPage(tb), NEW p \in 1 .. Len(tb), NEW x \in Tables!TableNodes,
         x.tag = tb[p].tag
  PROVE  Tables!IsPage([tb EXCEPT ![p] = x])
<1> DEFINE K == Tables!TableNodes
           r == [tb EXCEPT ![p] = x]
           N == Len(tb)
<1>1. tb \in Seq(K) /\ N \in Nat
  BY DEF Tables!IsPage
<1>2. \A i, j \in 1 .. N :
         /\ tb[i].tag \in {"thead", "tfoot"} /\ tb[j].tag = tb[i].tag => i = j
         /\ tb[i].tag = "thead" /\ tb[j].tag # "#text" => i <= j
  BY <1>1, HeadFirstIs DEF Tables!IsPage
<1>3. /\ r \in Seq(K) /\ Len(r) = N /\ r[p] = x
      /\ \A k \in 1 .. N : k # p => r[k] = tb[k]
  BY <1>1, ReplacedIs
<1> HIDE DEF K, r
<1>4. \A k \in 1 .. N : r[k].tag = tb[k].tag
  BY <1>3
<1>5. \A i, j \in 1 .. Len(r) :
         /\ r[i].tag \in {"thead", "tfoot"} /\ r[j].tag = r[i].tag => i = j
         /\ r[i].tag = "thead" /\ r[j].tag # "#text" => i <= j
  BY <1>2, <1>3, <1>4
<1>6. Tables!HeadFirst(r)
  BY <1>3, <1>5, HeadFirstIs DEF K
<1> QED BY <1>3, <1>6 DEF Tables!IsPage, K, r

-----------------------------------------------------------------------------
(* The calls on a table.                                                   *)
TableInv == Tables!IsPage(table) /\ tableMade \in [rows : Nat, cells : Nat]

LEMMA NewSection ==
  ASSUME NEW tag \in {"thead", "tfoot"}
  PROVE  Tables!Section(tag) \in Tables!TableNodes /\ Tables!Section(tag).tag = tag
<1>1. <<>> \in Seq(Tables!RowNodes \cup {Tables!Space})
  OBVIOUS
<1> QED BY <1>1 DEF Tables!Section, Tables!SectionNodes, Tables!TableNodes

LEMMA NoneTagged ==
  ASSUME NEW tb \in Seq(Tables!TableNodes), NEW tag \in Tags
  PROVE  /\ TaggedIn(tb, tag) = <<>> => \A i \in 1 .. Len(tb) : tb[i].tag # tag
         /\ \A k \in 1 .. Len(TaggedIn(tb, tag)) : TaggedIn(tb, tag)[k] \in PathsTo(tb, tag)
         /\ TaggedIn(tb, tag) # <<>> =>
               1 \in 1 .. Len(TaggedIn(tb, tag)) /\ TaggedIn(tb, tag)[1][1] \in 1 .. Len(tb)
<1> DEFINE t == PathLists(tb, tag)
           C == PathsTo(tb, tag)
           paths == TaggedIn(tb, tag)
<1>1. /\ t \in Seq(Seq(C)) /\ Len(t) = Len(tb)
      /\ \A i \in 1 .. Len(tb) : t[i] = PathsIn(tb, i, tag)
      /\ paths \in Seq(C) /\ paths = FlattenSeq(t)
  BY PathListsAre DEF TaggedIn
<1>2. ASSUME NEW i \in 1 .. Len(tb), tb[i].tag = tag PROVE paths # <<>>
  <2>1. t[i] = <<<<i>>>>
    BY <1>1, <1>2, PathsInAre
  <2> HIDE DEF t, C, paths
  <2>2. i \in 1 .. Len(t)
    BY <1>1
  <2> DEFINE a == FlattenSeq(SubSeq(t, 1, i - 1))
             b == FlattenSeq(SubSeq(t, i + 1, Len(t)))
             x == t[i]
  <2>3. a \in Seq(C) /\ b \in Seq(C) /\ x \in Seq(C) /\ paths = a \o x \o b
    BY <1>1, <2>2, FlattenInThree
  <2>4. Len(x) = 1
    BY <2>1
  <2> HIDE DEF a, b, x
  <2>5. /\ a \o x \in Seq(C) /\ Len(a \o x) = Len(a) + 1
        /\ Len(a) \in Nat /\ Len(b) \in Nat
    <3>1. a \o x \in Seq(C) /\ Len(a \o x) = Len(a) + Len(x)
      BY <2>3, ConcatIs
    <3> QED BY <3>1, <2>3, <2>4
  <2>6. Len(paths) = Len(a) + 1 + Len(b)
    <3> DEFINE ax == a \o x
    <3> HIDE DEF ax
    <3>1. ax \in Seq(C) /\ Len(ax) = Len(a) + 1 /\ paths = ax \o b
      BY <2>3, <2>5 DEF ax
    <3>2. Len(ax \o b) = Len(ax) + Len(b)
      BY <2>3, <3>1, ConcatIs
    <3> QED BY <3>1, <3>2
  <2>7. Len(paths) # 0
    BY <2>5, <2>6
  <2> QED BY <2>7
<1> HIDE DEF paths, C
<1>3. \A k \in 1 .. Len(paths) : paths[k] \in C
  BY <1>1
<1>4. paths # <<>> => 1 \in 1 .. Len(paths)
  BY <1>1
<1>5. \A p \in C : p[1] \in 1 .. Len(tb)
  BY DEF C, PathsTo
<1> QED BY <1>2, <1>3, <1>4, <1>5 DEF paths, C

LEMMA HeadsAndFeet ==
  ASSUME TableInv,
         \/ Tables!CreateTHead \/ Tables!CreateTFoot
         \/ \E tag \in {"thead", "tfoot"} : Tables!DeleteSection(tag)
  PROVE  Tables!IsPage(table')
<1> DEFINE K == Tables!TableNodes
<1>1. Tables!IsPage(table) /\ table \in Seq(K)
  BY DEF TableInv, Tables!IsPage
<1>2. \A tag : Tables!ByTagName(tag) = TaggedIn(table, tag)
  BY HereAndNext
<1>3. ASSUME Tables!CreateTHead PROVE Tables!IsPage(table')
  <2> DEFINE x == Tables!Section("thead")
  <2>1. CASE TaggedIn(table, "thead") # <<>>
    BY <1>1, <1>2, <1>3, <2>1 DEF Tables!CreateTHead
  <2>2. CASE TaggedIn(table, "thead") = <<>>
    <3>1. table' = <<x>> \o table
      BY <1>2, <1>3, <2>2 DEF Tables!CreateTHead
    <3>2. x \in K /\ x.tag = "thead"
      BY NewSection
    <3>3. \A i \in 1 .. Len(table) : table[i].tag # "thead"
      BY <1>1, <2>2, NoneTagged DEF Tags
    <3> HIDE DEF x
    <3>4. Tables!InsertAt(table, 1, x) = <<x>> \o table
      BY <1>1, <3>2, InsertAtEnds
    <3>5. 1 \in 1 .. Len(table) + 1
      BY <1>1
    <3>6. Tables!IsPage(Tables!InsertAt(table, 1, x))
      BY <1>1, <3>2, <3>3, <3>5, PagePut
    <3> QED BY <3>1, <3>4, <3>6
  <2> QED BY <2>1, <2>2
<1>4. ASSUME Tables!CreateTFoot PROVE Tables!IsPage(table')
  <2> DEFINE x == Tables!Section("tfoot")
  <2>1. CASE TaggedIn(table, "tfoot") # <<>>
    BY <1>1, <1>2, <1>4, <2>1 DEF Tables!CreateTFoot
  <2>2. CASE TaggedIn(table, "tfoot") = <<>>
    <3>1. table' = Append(table, x)
      BY <1>2, <1>4, <2>2 DEF Tables!CreateTFoot
    <3>2. x \in K /\ x.tag = "tfoot"
      BY NewSection
    <3>3. \A i \in 1 .. Len(table) : table[i].tag # "tfoot"
      BY <1>1, <2>2, NoneTagged DEF Tags
    <3> HIDE DEF x
    <3>4. Tables!InsertAt(table, Len(table) + 1, x) = Append(table, x)
      BY <1>1, <3>2, InsertAtEnds
    <3>5. Len(table) + 1 \in 1 .. Len(table) + 1 /\ \A k \in 1 .. Len(table) : k < Len(table) + 1
      BY <1>1
    <3>6. Tables!IsPage(Tables!InsertAt(table, Len(table) + 1, x))
      BY <1>1, <3>2, <3>3, <3>5, PagePut
    <3> QED BY <3>1, <3>4, <3>6
  <2> QED BY <2>1, <2>2
<1>5. ASSUME NEW tag \in {"thead", "tfoot"}, Tables!DeleteSection(tag)
      PROVE  Tables!IsPage(table')
  <2>1. CASE TaggedIn(table, tag) = <<>>
    BY <1>1, <1>2, <1>5, <2>1 DEF Tables!DeleteSection
  <2>2. CASE TaggedIn(table, tag) # <<>>
    <3> DEFINE p == TaggedIn(table, tag)[1][1]
    <3>1. table' = Tables!RemoveAt(table, p)
      BY <1>2, <1>5, <2>2 DEF Tables!DeleteSection
    <3>2. p \in 1 .. Len(table)
      BY <1>1, <2>2, NoneTagged DEF Tags
    <3> HIDE DEF p
    <3> QED BY <1>1, <3>1, <3>2, PageTaken
  <2> QED BY <2>1, <2>2
<1> QED BY <1>3, <1>4, <1>5

LEMMA FrontAndLast ==
  ASSUME NEW p \in Seq(Nat)
  PROVE  /\ Len(p) = 1 => Tables!Front(p) = <<>> /\ Tables!Last(p) = p[1]
         /\ Len(p) = 2 => /\ Tables!Front(p) = <<p[1]>> /\ Tables!Front(p) # <<>>
                          /\ Tables!Last(p) = p[2]
<1>1. ASSUME Len(p) = 1 PROVE Tables!Front(p) = <<>> /\ Tables!Last(p) = p[1]
  <2>1. SubSeq(p, 1, 0) = <<>>
    BY <1>1
  <2> QED BY <1>1, <2>1 DEF Tables!Front, Tables!Last
<1>2. ASSUME Len(p) = 2
      PROVE  Tables!Front(p) = <<p[1]>> /\ Tables!Front(p) # <<>> /\ Tables!Last(p) = p[2]
  <2>1. SubSeq(p, 1, 1) = <<p[1]>>
    <3> DEFINE s == SubSeq(p, 1, 1)
    <3>1. s \in Seq(Nat) /\ Len(s) = 1 /\ s[1] = p[1]
      <4>1. \A m \in 0 .. Len(p) : /\ SubSeq(p, 1, m) \in Seq(Nat) /\ Len(SubSeq(p, 1, m)) = m
                                   /\ \A k \in 1 .. m : SubSeq(p, 1, m)[k] = p[k]
        OBVIOUS
      <4>2. 1 \in 0 .. Len(p) /\ 1 \in 1 .. 1
        BY <1>2
      <4> QED BY <4>1, <4>2
    <3> HIDE DEF s
    <3>2. s = <<p[1]>>
      BY <3>1
    <3> QED BY <3>2 DEF s
  <2>2. Tables!Front(p) = <<p[1]>>
    BY <1>2, <2>1 DEF Tables!Front
  <2> QED BY <1>2, <2>2 DEF Tables!Last
<1> QED BY <1>1, <1>2

(* The children of a section changed.                                      *)
HoldingChildren(tb, i, c) == [tb EXCEPT ![i].childNodes = c]

LEMMA ParentsChildren ==
  /\ Tables!ChildNodes(<<>>) = table /\ \A c : Tables!WithChildNodes(<<>>, c) = c
  /\ \A i \in Nat : /\ Tables!ChildNodes(<<i>>) = table[i].childNodes
                     /\ \A c : Tables!WithChildNodes(<<i>>, c) = HoldingChildren(table, i, c)
<1>1. Tables!ChildNodes(<<>>) = table /\ \A c : Tables!WithChildNodes(<<>>, c) = c
  BY DEF Tables!ChildNodes, Tables!WithChildNodes
<1>2. ASSUME NEW i \in Nat
      PROVE  /\ Tables!ChildNodes(<<i>>) = table[i].childNodes
             /\ \A c : Tables!WithChildNodes(<<i>>, c) = HoldingChildren(table, i, c)
  <2> DEFINE one == <<i>>
  <2>1. one # <<>> /\ one[1] = i
    OBVIOUS
  <2> HIDE DEF one
  <2>2. Tables!ChildNodes(one) = table[i].childNodes
    BY <2>1 DEF Tables!ChildNodes
  <2>3. \A c : Tables!WithChildNodes(one, c) = HoldingChildren(table, i, c)
    BY <2>1 DEF Tables!WithChildNodes, HoldingChildren
  <2> QED BY <2>2, <2>3 DEF one
<1> QED BY <1>1, <1>2

LEMMA ChildrenChanged ==
  ASSUME NEW tb, Tables!IsPage(tb), NEW i \in 1 .. Len(tb), Tables!IsSection(tb[i]),
         NEW c \in Seq(RowOrSpace)
  PROVE  /\ Tables!IsPage(HoldingChildren(tb, i, c))
         /\ HoldingChildren(tb, i, c)[i].childNodes = c
         /\ RowsOf(HoldingChildren(tb, i, c)) =
               RowsOf(SubSeq(tb, 1, i - 1)) \o IdsOf(c, "tr") \o RowsOf(SubSeq(tb, i + 1, Len(tb)))
         /\ RowsOf(tb) = RowsOf(SubSeq(tb, 1, i - 1)) \o IdsOf(tb[i].childNodes, "tr")
                         \o RowsOf(SubSeq(tb, i + 1, Len(tb)))
<1> DEFINE K == Tables!TableNodes
           n == tb[i]
           x == [n EXCEPT !.childNodes = c]
           r == [tb EXCEPT ![i] = x]
<1>1. tb \in Seq(K) /\ n \in K
  BY DEF Tables!IsPage
<1>2. n \in Tables!SectionNodes /\ n.tag # "tr"
  BY <1>1, NodesOfPage
<1>3. x \in Tables!SectionNodes /\ x.tag = n.tag /\ x.childNodes = c
  <2> HIDE DEF n
  <2> QED BY <1>2, NewChildren
<1>4. HoldingChildren(tb, i, c) = r
  BY DEF HoldingChildren
<1>5. x \in K
  <2> HIDE DEF x
  <2> QED BY <1>3 DEF Tables!TableNodes
<1>6. RowIds(x) = IdsOf(c, "tr") /\ RowIds(n) = IdsOf(n.childNodes, "tr")
  <2> HIDE DEF x
  <2>1. Tables!IsSection(x) /\ x.tag # "tr"
    BY <1>2, <1>3 DEF Tables!IsSection
  <2> QED BY <1>2, <1>3, <2>1 DEF RowIds
<1> HIDE DEF K, x
<1>7. RowsOf(tb) = RowsAround(tb, i, n) /\ RowsOf(r) = RowsAround(tb, i, x)
  BY <1>1, <1>5, RowsAroundAre DEF K
<1>8. Tables!IsPage(r) /\ r[i] = x
  <2>1. Tables!IsPage(r)
    BY <1>3, <1>5, PageReplaced DEF K
  <2>2. r[i] = x
    BY <1>1, <1>5, ReplacedIs
  <2> QED BY <2>1, <2>2
<1> HIDE DEF r, n
<1> QED BY <1>3, <1>4, <1>6, <1>7, <1>8 DEF RowsAround, n

(* A row of the table, by the path to it.                                  *)
LEMMA AtRow ==
  ASSUME NEW tb, Tables!IsPage(tb), NEW p \in PathsTo(tb, "tr")
  PROVE  /\ p \in Seq(Nat) /\ p[1] \in 1 .. Len(tb) /\ tb[p[1]] \in Tables!TableNodes
         /\ NodeIn(tb, p) \in Tables!RowNodes
         /\ \/ Len(p) = 1 /\ NodeIn(tb, p) = tb[p[1]] /\ tb[p[1]].tag = "tr"
            \/ /\ Len(p) = 2 /\ Tables!IsSection(tb[p[1]])
               /\ tb[p[1]].childNodes \in Seq(RowOrSpace)
               /\ p[2] \in 1 .. Len(tb[p[1]].childNodes)
               /\ NodeIn(tb, p) = tb[p[1]].childNodes[p[2]]
<1>1. tb \in Seq(Tables!TableNodes)
  BY DEF Tables!IsPage
<1>2. p \in Seq(Nat) /\ p[1] \in 1 .. Len(tb)
  BY DEF PathsTo
<1>3. tb[p[1]] \in Tables!TableNodes
  BY <1>1, <1>2
<1>4. NodeIn(tb, p) \in Tables!RowNodes
  BY <1>1, PathIdIs
<1>5. CASE Len(p) = 1 /\ tb[p[1]].tag = "tr"
  BY <1>2, <1>3, <1>4, <1>5 DEF NodeIn
<1>6. CASE /\ Len(p) = 2 /\ Tables!IsSection(tb[p[1]])
           /\ p[2] \in 1 .. Len(tb[p[1]].childNodes)
  <2>1. tb[p[1]].childNodes \in Seq(RowOrSpace)
    BY <1>3, <1>6, NodesOfPage
  <2> QED BY <1>2, <1>3, <1>4, <1>6, <2>1 DEF NodeIn
<1> QED BY <1>5, <1>6 DEF PathsTo

LEMMA RowInserted ==
  ASSUME TableInv, NEW idx, Tables!InsertRow(idx)
  PROVE  Tables!IsPage(table') /\ Tables!IsInserted(Tables!Rows', Tables!Rows, idx, tableMade.rows)
<1> DEFINE K == Tables!TableNodes
           tb == table
           paths == TaggedIn(tb, "tr")
           x == Tables!Row(tableMade.rows)
           rows == RowsOf(tb)
<1>1. Tables!IsPage(tb) /\ tb \in Seq(K) /\ tableMade.rows \in Nat /\ "tr" \in Tags
  BY DEF TableInv, Tables!IsPage, Tags
<1>2. x \in Tables!RowNodes /\ x.id = tableMade.rows
  BY <1>1, NewRow
<1>3. x \in K /\ x.tag = "tr"
  BY <1>2, NodesOfPage
<1>4. Tables!Rows = rows /\ Tables!Rows' = RowsHere(table') /\ rows \in Seq(Nat)
      /\ Len(paths) = Len(rows) /\ Tables!ByTagName("tr") = paths
  BY <1>1, HereAndNext, RowsAre
<1>5. Len(rows) \in Nat /\ Len(tb) \in Nat
  <2> HIDE DEF rows
  <2> QED BY <1>1, <1>4
<1>6. idx \in -1 .. Len(rows)
  BY <1>4 DEF Tables!InsertRow
<1> HIDE DEF x
<1>7. CASE idx \in {-1, Len(rows)}
  <2> DEFINE p == Len(tb) + 1
  <2>1. table' = Append(tb, x)
    BY <1>4, <1>7 DEF Tables!InsertRow, x
  <2>2. p \in 1 .. Len(tb) + 1 /\ SubSeq(tb, 1, p - 1) = tb /\ \A k \in 1 .. Len(tb) : k < p
    <3>1. SubSeq(tb, 1, Len(tb)) = tb
      BY <1>1, SubSeqFull
    <3>2. p - 1 = Len(tb)
      BY <1>5
    <3> QED BY <1>5, <3>1, <3>2
  <2>3. Tables!InsertAt(tb, p, x) = Append(tb, x)
    BY <1>1, <1>3, InsertAtEnds
  <2> HIDE DEF p
  <2>4. Tables!IsPage(Tables!InsertAt(tb, p, x))
    BY <1>1, <1>3, <2>2, PagePut
  <2>5. RowsOf(Tables!InsertAt(tb, p, x)) = Tables!InsertAt(rows, Len(rows) + 1, x.id)
    BY <1>1, <1>2, <2>2, RowPut
  <2>6. Tables!IsPage(table') /\ RowsOf(table') = Tables!InsertAt(rows, Len(rows) + 1, x.id)
    BY <2>1, <2>3, <2>4, <2>5
  <2>7. RowsHere(table') = RowsOf(table')
    BY <2>6, RowsAre DEF Tables!IsPage
  <2>8. (IF idx < 0 THEN Len(rows) + 1 ELSE idx + 1) = Len(rows) + 1
    BY <1>5, <1>7
  <2> HIDE DEF rows
  <2> QED BY <1>2, <1>4, <2>6, <2>7, <2>8 DEF Tables!IsInserted
<1>8. CASE idx \notin {-1, Len(rows)}
  <2> DEFINE k == idx + 1
             path == paths[k]
  <2>1. k \in 1 .. Len(rows) /\ ~(idx < 0)
    <3> HIDE DEF rows
    <3> QED BY <1>5, <1>6, <1>8
  <2>2. PICK i \in 1 .. Len(tb) : \E j \in 1 .. Len(PathsIn(tb, i, "tr")) :
           /\ paths[k] = PathsIn(tb, i, "tr")[j]
           /\ k = Len(RowsOf(SubSeq(tb, 1, i - 1))) + j
    <3>1. k \in 1 .. Len(paths)
      BY <1>4, <2>1
    <3> HIDE DEF k
    <3> QED BY <1>1, <3>1, TaggedAt
  <2>3. PICK j \in 1 .. Len(PathsIn(tb, i, "tr")) :
           paths[k] = PathsIn(tb, i, "tr")[j] /\ k = Len(RowsOf(SubSeq(tb, 1, i - 1))) + j
    BY <2>2
  <2> DEFINE n == tb[i]
             a == RowsOf(SubSeq(tb, 1, i - 1))
             b == RowsOf(SubSeq(tb, i + 1, Len(tb)))
  <2>4. n \in K /\ i \in Nat
    BY <1>1
  <2>5. path \in PathsTo(tb, "tr")
    <3>1. k \in 1 .. Len(paths)
      BY <1>4, <2>1
    <3> HIDE DEF k
    <3> QED BY <1>1, <3>1, NoneTagged
  <2>6. /\ table' = Tables!WithChildNodes(Tables!Front(path),
                        Tables!InsertAt(Tables!ChildNodes(Tables!Front(path)), Tables!Last(path), x))
    BY <1>4, <1>8 DEF Tables!InsertRow, x
  <2>7. path \in Seq(Nat)
    BY <2>5 DEF PathsTo
  <2>8. CASE n.tag = "tr"
    <3>1. PathsIn(tb, i, "tr") = <<<<i>>>>
      BY <1>1, <2>8, PathsInAre
    <3>2. path = <<i>> /\ j = 1
      <4> HIDE DEF path
      <4> DEFINE one == <<i>>
      <4>1. PathsIn(tb, i, "tr") = <<one>> /\ path = PathsIn(tb, i, "tr")[j]
        BY <3>1, <2>3 DEF path
      <4> HIDE DEF one
      <4>2. Len(<<one>>) = 1 /\ j = 1
        BY <4>1
      <4> QED BY <4>1, <4>2 DEF one
    <3>3. Tables!Front(path) = <<>> /\ Tables!Last(path) = i
      <4> HIDE DEF path
      <4>1. Len(path) = 1 /\ path[1] = i
        BY <3>2
      <4> QED BY <2>7, <4>1, FrontAndLast
    <3>4. table' = Tables!InsertAt(tb, i, x)
      <4> HIDE DEF path
      <4> QED BY <2>6, <3>3, ParentsChildren
    <3>5. i \in 1 .. Len(tb) + 1 /\ \A h \in 1 .. Len(tb) : tb[h].tag = "thead" => h < i
      <4>1. \A h \in 1 .. Len(tb) : tb[h].tag = "thead" => h <= i
        BY <1>1, <2>8, HeadFirstIs DEF Tables!IsPage
      <4>2. \A h \in 1 .. Len(tb) : tb[h].tag = "thead" => h # i
        BY <2>8
      <4> QED BY <4>1, <4>2, <1>5
    <3>6. Tables!IsPage(table')
      BY <1>1, <1>3, <3>4, <3>5, PagePut
    <3>7. RowsOf(table') = Tables!InsertAt(rows, Len(a) + 1, x.id)
      BY <1>1, <1>2, <3>4, <3>5, RowPut
    <3>8. RowsHere(table') = RowsOf(table')
      BY <3>6, RowsAre DEF Tables!IsPage
    <3>9. Len(a) + 1 = idx + 1
      BY <2>3, <3>2
    <3> HIDE DEF rows, a
    <3> QED BY <1>2, <1>4, <2>1, <3>6, <3>7, <3>8, <3>9 DEF Tables!IsInserted
  <2>9. CASE Tables!IsSection(n)
    <3> DEFINE nodes == n.childNodes
               places == Tables!Places(nodes, "tr")
               c == Tables!InsertAt(nodes, places[j], x)
               ids == IdsOf(nodes, "tr")
    <3>1. nodes \in Seq(RowOrSpace) /\ Numbered(RowOrSpace, "tr") /\ x \in RowOrSpace
      BY <1>2, <2>4, <2>9, NodesOfPage
    <3>2. PathsIn(tb, i, "tr") = [l \in 1 .. Len(places) |-> <<i, places[l]>>]
      BY <1>1, <2>9, PathsInAre
    <3>3. /\ places \in Seq(1 .. Len(nodes)) /\ Len(places) = Len(ids)
          /\ \A l \in 1 .. Len(places) :
                /\ places[l] \in 1 .. Len(nodes)
                /\ Len(IdsOf(SubSeq(nodes, 1, places[l] - 1), "tr")) = l - 1
      <4> HIDE DEF nodes
      <4>1. places \in Seq(1 .. Len(nodes)) /\ Len(places) = Len(ids)
        BY <3>1, PlacesAre
      <4>2. ASSUME NEW l \in 1 .. Len(places)
            PROVE  /\ places[l] \in 1 .. Len(nodes)
                   /\ Len(IdsOf(SubSeq(nodes, 1, places[l] - 1), "tr")) = l - 1
        BY <3>1, PlacesAre
      <4> HIDE DEF places, ids
      <4> QED BY <4>1, <4>2
    <3>4. Len(places) \in Nat
      <4> HIDE DEF places
      <4> QED BY <3>3
    <3>5. j \in 1 .. Len(places) /\ path = <<i, places[j]>>
      <4> HIDE DEF places, path
      <4>1. Len(PathsIn(tb, i, "tr")) = Len(places)
        BY <3>2, <3>4
      <4>2. path = PathsIn(tb, i, "tr")[j]
        BY <2>3 DEF path
      <4> QED BY <3>2, <4>1, <4>2
    <3>6. places[j] \in 1 .. Len(nodes) /\ Len(IdsOf(SubSeq(nodes, 1, places[j] - 1), "tr")) = j - 1
      BY <3>3, <3>5
    <3>7. Tables!Front(path) = <<i>> /\ Tables!Last(path) = places[j]
      <4> HIDE DEF path, places
      <4>1. Len(path) = 2 /\ path[1] = i /\ path[2] = places[j]
        BY <3>5
      <4> QED BY <2>7, <4>1, FrontAndLast
    <3>8. table' = HoldingChildren(tb, i, c)
      <4> DEFINE one == <<i>>
      <4>1. Tables!ChildNodes(one) = nodes /\ Tables!WithChildNodes(one, c) = HoldingChildren(tb, i, c)
        BY <2>4, ParentsChildren
      <4>2. Tables!Front(path) = one /\ Tables!Last(path) = places[j]
        BY <3>7
      <4> HIDE DEF one, path, places, nodes
      <4>3. table' = Tables!WithChildNodes(one, Tables!InsertAt(Tables!ChildNodes(one), places[j], x))
        BY <2>6, <4>2
      <4> QED BY <4>1, <4>3
    <3>9. c \in Seq(RowOrSpace) /\ IdsOf(c, "tr") = Tables!InsertAt(ids, j, x.id)
      <4> HIDE DEF nodes, places
      <4>1. places[j] \in 1 .. Len(nodes) + 1 /\ (j - 1) + 1 = j
        <5>1. Len(nodes) \in Nat /\ j \in Int
          BY <3>1
        <5> QED BY <3>6, <5>1
      <4>2. CanPut(RowOrSpace, nodes, places[j], x)
        BY <3>1, <4>1 DEF CanPut
      <4>3. c \in Seq(RowOrSpace)
        BY <4>2, RowInsertedIs DEF IsPut
      <4>4. IdsOf(c, "tr") =
               Tables!InsertAt(ids, Len(IdsOf(SubSeq(nodes, 1, places[j] - 1), "tr")) + 1, x.id)
        BY <1>3, <3>1, <4>1, IdsOfInserted
      <4> QED BY <3>6, <4>1, <4>3, <4>4
    <3> HIDE DEF c
    <3>10. /\ Tables!IsPage(table') /\ RowsOf(table') = a \o IdsOf(c, "tr") \o b
           /\ rows = a \o ids \o b
      BY <1>1, <2>9, <3>8, <3>9, ChildrenChanged
    <3>11. a \in Seq(Nat) /\ b \in Seq(Nat) /\ ids \in Seq(Nat)
      <4>1. a \in Seq(Nat) /\ b \in Seq(Nat)
        BY <1>1, <2>4, RowsAroundAre
      <4>2. ids \in Seq(Nat)
        <5> HIDE DEF nodes
        <5> QED BY <3>1, IdsAre
      <4> QED BY <4>1, <4>2
    <3>12. j \in 1 .. Len(ids) + 1
      <4> HIDE DEF places, ids
      <4> QED BY <3>3, <3>5, <3>11
    <3> HIDE DEF ids, a, b, rows
    <3>13. RowsOf(table') = Tables!InsertAt(rows, Len(a) + j, x.id)
      <4>1. x.id \in Nat
        BY <1>1, <1>2
      <4>2. Three(a, Tables!InsertAt(ids, j, x.id), b) = Tables!InsertAt(Three(a, ids, b), Len(a) + j, x.id)
        BY <3>11, <3>12, <4>1, InsertWithin
      <4> QED BY <3>9, <3>10, <4>2 DEF Three
    <3>14. RowsHere(table') = RowsOf(table')
      BY <3>10, RowsAre DEF Tables!IsPage
    <3>15. Len(a) + j = idx + 1
      BY <2>3 DEF a
    <3> QED BY <1>2, <1>4, <2>1, <3>10, <3>13, <3>14, <3>15 DEF Tables!IsInserted
  <2>10. n.tag = "tr" \/ Tables!IsSection(n)
    <3> SUFFICES ASSUME n.tag # "tr", ~Tables!IsSection(n) PROVE FALSE
      OBVIOUS
    <3>1. PathsIn(tb, i, "tr") = <<>>
      BY <1>1, PathsInAre
    <3> QED BY <2>3, <3>1
  <2> QED BY <2>8, <2>9, <2>10
<1> QED BY <1>7, <1>8

LEMMA RowDeleted ==
  ASSUME TableInv, NEW idx, Tables!DeleteRow(idx)
  PROVE  Tables!IsPage(table')
<1> DEFINE k == idx + 1
           paths == TaggedIn(table, "tr")
           p == paths[k]
           i == p[1]
<1>1. Tables!IsPage(table) /\ table \in Seq(Tables!TableNodes)
  BY DEF TableInv, Tables!IsPage
<1>2. /\ k \in DOMAIN paths
      /\ table' = Tables!WithChildNodes(Tables!Front(p),
                      Tables!RemoveAt(Tables!ChildNodes(Tables!Front(p)), Tables!Last(p)))
  BY HereAndNext DEF Tables!DeleteRow
<1>3. p \in PathsTo(table, "tr")
  <2>1. paths \in Seq(PathsTo(table, "tr"))
    BY <1>1, PathListsAre DEF Tags
  <2> HIDE DEF paths, k
  <2> QED BY <1>2, <2>1
<1> HIDE DEF p
<1>4. /\ p \in Seq(Nat) /\ i \in 1 .. Len(table) /\ i \in Nat
      /\ \/ Len(p) = 1
         \/ /\ Len(p) = 2 /\ Tables!IsSection(table[i])
            /\ table[i].childNodes \in Seq(RowOrSpace)
            /\ p[2] \in 1 .. Len(table[i].childNodes)
  BY <1>1, <1>3, AtRow
<1>5. CASE Len(p) = 1
  <2>1. Tables!Front(p) = <<>> /\ Tables!Last(p) = i
    BY <1>4, <1>5, FrontAndLast
  <2>2. table' = Tables!RemoveAt(table, i)
    BY <1>2, <2>1, ParentsChildren
  <2> HIDE DEF i
  <2> QED BY <1>1, <1>4, <2>2, PageTaken
<1>6. CASE Len(p) = 2
  <2> DEFINE one == <<i>>
             nodes == table[i].childNodes
             c == Tables!RemoveAt(nodes, p[2])
  <2>1. Tables!Front(p) = one /\ Tables!Last(p) = p[2]
    BY <1>4, <1>6, FrontAndLast
  <2>2. Tables!ChildNodes(one) = nodes /\ Tables!WithChildNodes(one, c) = HoldingChildren(table, i, c)
    BY <1>4, ParentsChildren
  <2>3. Tables!IsSection(table[i]) /\ nodes \in Seq(RowOrSpace) /\ p[2] \in 1 .. Len(nodes)
    BY <1>4, <1>6
  <2> HIDE DEF one
  <2>4. table' = HoldingChildren(table, i, c)
    BY <1>2, <2>1, <2>2
  <2>5. c \in Seq(RowOrSpace)
    <3> HIDE DEF nodes
    <3> QED BY <2>3, RemovedIs
  <2> HIDE DEF c, i
  <2> QED BY <1>1, <1>4, <2>3, <2>4, <2>5, ChildrenChanged
<1> QED BY <1>4, <1>5, <1>6

LEMMA RowsInAre ==
  ASSUME NEW i
  PROVE  /\ Tables!IsPage(table) /\ i \in 1 .. Len(table) /\ Tables!IsSection(table[i]) =>
               /\ table[i].childNodes \in Seq(RowOrSpace)
               /\ Tables!RowsIn(i) = IdsOf(table[i].childNodes, "tr")
               /\ Len(Tables!SectionRows(i)) = Len(IdsOf(table[i].childNodes, "tr"))
               /\ Tables!SectionRows(i) \in Seq(1 .. Len(table[i].childNodes))
         /\ table'[i].childNodes \in Seq(RowOrSpace) =>
               Tables!RowsIn(i)' = IdsOf(table'[i].childNodes, "tr")
<1>1. Numbered(RowOrSpace, "tr")
  BY NodesOfPage
<1>2. ASSUME Tables!IsPage(table), i \in 1 .. Len(table), Tables!IsSection(table[i])
      PROVE  /\ table[i].childNodes \in Seq(RowOrSpace)
             /\ Tables!RowsIn(i) = IdsOf(table[i].childNodes, "tr")
             /\ Len(Tables!SectionRows(i)) = Len(IdsOf(table[i].childNodes, "tr"))
             /\ Tables!SectionRows(i) \in Seq(1 .. Len(table[i].childNodes))
  <2> DEFINE nodes == table[i].childNodes
             places == Tables!Places(nodes, "tr")
  <2>1. nodes \in Seq(RowOrSpace)
    <3>1. table[i] \in Tables!TableNodes
      BY <1>2 DEF Tables!IsPage
    <3> QED BY <1>2, <3>1, NodesOfPage
  <2>2. /\ Tables!SectionRows(i) = places
        /\ Tables!RowsIn(i) = [k \in DOMAIN places |-> nodes[places[k]].id]
    BY DEF Tables!RowsIn, Tables!SectionRows
  <2> HIDE DEF nodes
  <2>3. /\ places \in Seq(1 .. Len(nodes)) /\ Len(places) = Len(IdsOf(nodes, "tr"))
        /\ IdsOf(nodes, "tr") = [k \in DOMAIN places |-> nodes[places[k]].id]
    BY <1>1, <2>1, PlacesAre
  <2> HIDE DEF places
  <2> QED BY <2>1, <2>2, <2>3 DEF nodes
<1>3. ASSUME table'[i].childNodes \in Seq(RowOrSpace)
      PROVE  Tables!RowsIn(i)' = IdsOf(table'[i].childNodes, "tr")
  <2> DEFINE nodes == table'[i].childNodes
             places == Tables!Places(nodes, "tr")
  <2>1. Tables!RowsIn(i)' = [k \in DOMAIN places |-> nodes[places[k]].id]
    BY DEF Tables!RowsIn, Tables!SectionRows
  <2>2. nodes \in Seq(RowOrSpace)
    BY <1>3
  <2> HIDE DEF nodes
  <2>3. IdsOf(nodes, "tr") = [k \in DOMAIN places |-> nodes[places[k]].id]
    BY <1>1, <2>2, PlacesAre
  <2> HIDE DEF places
  <2> QED BY <2>1, <2>3 DEF nodes
<1> QED BY <1>2, <1>3

(* The walk, when it does not fall off the end, finds a place.             *)
LEMMA PlaceFound ==
  ASSUME NEW K, NEW tag, NEW nodes \in Seq(K), NEW idx \in Int, PlaceFor(nodes, idx, tag) > 0
  PROVE  PlaceFor(nodes, idx, tag) \in 1 .. Len(nodes) + 1
<1> DEFINE N == Len(nodes)
           L == Len(IdsOf(nodes, tag))
<1>1. N \in Nat
  OBVIOUS
<1>2. PlaceFor(nodes, idx, tag) =
         IF idx \in {-1, L} THEN N + 1
         ELSE IF idx <= N THEN (IF idx < 0 THEN 0 ELSE idx) + 1 ELSE 0
  BY DEF PlaceFor, Tables!Walk
<1> HIDE DEF N, L
<1>3. CASE idx \in {-1, L}
  <2>1. PlaceFor(nodes, idx, tag) = N + 1
    BY <1>2, <1>3
  <2> QED BY <1>1, <2>1 DEF N
<1>4. CASE idx \notin {-1, L}
  <2>1. idx <= N /\ PlaceFor(nodes, idx, tag) = (IF idx < 0 THEN 0 ELSE idx) + 1
    BY <1>2, <1>4
  <2>2. (IF idx < 0 THEN 0 ELSE idx) + 1 \in 1 .. N + 1
    BY <1>1, <2>1
  <2> QED BY <2>1, <2>2 DEF N
<1> QED BY <1>3, <1>4

LEMMA SectionRowInserted ==
  ASSUME TableInv, NEW i \in DOMAIN table, NEW idx \in Int, Tables!SectionInsertRow(i, idx)
  PROVE  /\ Tables!IsPage(table')
         /\ idx >= -1 /\ Tables!PlainUpto(table[i].childNodes, idx, Tables!IsRow) =>
               Tables!IsInserted(Tables!RowsIn(i)', Tables!RowsIn(i), idx, tableMade.rows)
<1> DEFINE nodes == table[i].childNodes
           ids == IdsOf(nodes, "tr")
           place == PlaceFor(nodes, idx, "tr")
           x == Tables!Row(tableMade.rows)
           c == Tables!InsertAt(nodes, place, x)
<1>1. /\ Tables!IsPage(table) /\ table \in Seq(Tables!TableNodes) /\ tableMade.rows \in Nat
      /\ i \in 1 .. Len(table) /\ i \in Nat
  BY DEF TableInv, Tables!IsPage
<1>2. Tables!IsSection(table[i])
  BY DEF Tables!SectionInsertRow
<1>3. /\ nodes \in Seq(RowOrSpace) /\ Tables!RowsIn(i) = ids
      /\ Len(Tables!SectionRows(i)) = Len(ids)
  BY <1>1, <1>2, RowsInAre
<1>4. /\ idx \in -2 .. Len(ids) /\ place > 0 /\ table' = Tables!WithChildNodes(<<i>>, c)
  <2> DEFINE rows == Tables!SectionRows(i)
  <2>1. LET found == IF idx \in {-1, Len(rows)} THEN Len(nodes) + 1 ELSE Tables!Walk(nodes, idx) IN
        /\ idx \in -2 .. Len(rows) /\ found > 0
        /\ table' = Tables!WithChildNodes(<<i>>, Tables!InsertAt(nodes, found, x))
    BY DEF Tables!SectionInsertRow
  <2> HIDE DEF rows, nodes, x
  <2>2. place = IF idx \in {-1, Len(rows)} THEN Len(nodes) + 1 ELSE Tables!Walk(nodes, idx)
    BY <1>3 DEF PlaceFor, rows
  <2> HIDE DEF place
  <2> QED BY <1>3, <2>1, <2>2 DEF rows
<1>5. x \in Tables!RowNodes /\ x.id = tableMade.rows
  BY <1>1, NewRow
<1>6. x \in RowOrSpace /\ x.tag = "tr" /\ Numbered(RowOrSpace, "tr")
  BY <1>5, NodesOfPage
<1>7. table' = HoldingChildren(table, i, c)
  BY <1>1, <1>4, ParentsChildren
<1>8. place \in 1 .. Len(nodes) + 1
  <2> HIDE DEF nodes
  <2> QED BY <1>3, <1>4, PlaceFound
<1>9. c \in Seq(RowOrSpace)
  <2> HIDE DEF nodes, place, x
  <2>1. CanPut(RowOrSpace, nodes, place, x)
    BY <1>3, <1>6, <1>8 DEF CanPut
  <2> QED BY <2>1, RowInsertedIs DEF IsPut
<1> HIDE DEF c
<1>10. Tables!IsPage(table') /\ table'[i].childNodes = c
  BY <1>1, <1>2, <1>7, <1>9, ChildrenChanged
<1>11. Tables!RowsIn(i)' = IdsOf(c, "tr")
  BY <1>9, <1>10, RowsInAre
<1>12. ASSUME idx >= -1, Tables!PlainUpto(nodes, idx, Tables!IsRow)
       PROVE  Tables!IsInserted(Tables!RowsIn(i)', Tables!RowsIn(i), idx, tableMade.rows)
  <2>1. \A j \in 1 .. idx : j \in DOMAIN nodes => nodes[j].tag = "tr"
    BY <1>12 DEF Tables!PlainUpto, Tables!IsRow
  <2>2. idx \in -1 .. Len(ids)
    <3> HIDE DEF ids
    <3>1. ids \in Seq(Nat)
      BY <1>3, <1>6, IdsAre DEF ids
    <3> QED BY <1>4, <1>12, <3>1
  <2> HIDE DEF nodes, x
  <2>3. Tables!IsInserted(IdsOf(Tables!InsertAt(nodes, place, x), "tr"), ids, idx, x.id)
    BY <1>3, <1>4, <1>6, <2>1, <2>2, PutInList
  <2> QED BY <1>3, <1>5, <1>11, <2>3 DEF c
<1> QED BY <1>10, <1>12

LEMMA SectionRowDeleted ==
  ASSUME TableInv, NEW i \in DOMAIN table, NEW idx, Tables!SectionDeleteRow(i, idx)
  PROVE  Tables!IsPage(table')
<1> DEFINE nodes == table[i].childNodes
           rows == Tables!SectionRows(i)
           k == idx + 1
           c == Tables!RemoveAt(nodes, rows[k])
<1>1. /\ Tables!IsPage(table) /\ table \in Seq(Tables!TableNodes)
      /\ i \in 1 .. Len(table) /\ i \in Nat
  BY DEF TableInv, Tables!IsPage
<1>2. Tables!IsSection(table[i]) /\ k \in DOMAIN rows /\ table' = Tables!WithChildNodes(<<i>>, c)
  BY DEF Tables!SectionDeleteRow
<1>3. nodes \in Seq(RowOrSpace) /\ rows \in Seq(1 .. Len(nodes))
  BY <1>1, <1>2, RowsInAre
<1>4. table' = HoldingChildren(table, i, c)
  BY <1>1, <1>2, ParentsChildren
<1>5. c \in Seq(RowOrSpace)
  <2> HIDE DEF nodes, rows, k
  <2>1. rows[k] \in 1 .. Len(nodes)
    BY <1>2, <1>3
  <2> QED BY <1>3, <2>1, RemovedIs
<1> HIDE DEF c
<1> QED BY <1>1, <1>2, <1>4, <1>5, ChildrenChanged

(* A row put in the place of another.                                      *)
LEMMA RowChanged ==
  ASSUME Tables!IsPage(table), NEW p \in PathsTo(table, "tr"), NEW r \in Tables!RowNodes,
         table' = Tables!WithRow(p, r)
  PROVE  Tables!IsPage(table') /\ NodeIn(table', p) = r
<1> DEFINE i == p[1]
<1>1. /\ p \in Seq(Nat) /\ i \in 1 .. Len(table) /\ i \in Nat /\ table[i] \in Tables!TableNodes
      /\ \/ Len(p) = 1 /\ table[i].tag = "tr"
         \/ /\ Len(p) = 2 /\ Tables!IsSection(table[i])
            /\ table[i].childNodes \in Seq(RowOrSpace)
            /\ p[2] \in 1 .. Len(table[i].childNodes)
  BY AtRow
<1>2. r \in Tables!TableNodes /\ r.tag = "tr" /\ r \in RowOrSpace
  BY NodesOfPage
<1>3. table' = Tables!WithChildNodes(Tables!Front(p),
                   [Tables!ChildNodes(Tables!Front(p)) EXCEPT ![Tables!Last(p)] = r])
  BY DEF Tables!WithRow
<1>4. table \in Seq(Tables!TableNodes)
  BY DEF Tables!IsPage
<1>5. CASE Len(p) = 1
  <2>1. Tables!Front(p) = <<>> /\ Tables!Last(p) = i
    BY <1>1, <1>5, FrontAndLast
  <2>2. table' = [table EXCEPT ![i] = r]
    BY <1>3, <2>1, ParentsChildren
  <2>3. r.tag = table[i].tag
    BY <1>1, <1>2, <1>5
  <2>4. [table EXCEPT ![i] = r][i] = r
    BY <1>1, <1>2, <1>4, ReplacedIs
  <2>5. NodeIn(table', p) = r
    BY <1>5, <2>2, <2>4 DEF NodeIn
  <2>6. Tables!IsPage([table EXCEPT ![i] = r])
    <3> HIDE DEF i
    <3> QED BY <1>1, <1>2, <2>3, PageReplaced
  <2> QED BY <2>2, <2>5, <2>6
<1>6. CASE Len(p) = 2
  <2> DEFINE one == <<i>>
             nodes == table[i].childNodes
             c == [nodes EXCEPT ![p[2]] = r]
  <2>1. Tables!Front(p) = one /\ Tables!Last(p) = p[2]
    BY <1>1, <1>6, FrontAndLast
  <2>2. Tables!ChildNodes(one) = nodes /\ Tables!WithChildNodes(one, c) = HoldingChildren(table, i, c)
    BY <1>1, ParentsChildren
  <2>3. Tables!IsSection(table[i]) /\ nodes \in Seq(RowOrSpace) /\ p[2] \in 1 .. Len(nodes)
    BY <1>1, <1>6
  <2> HIDE DEF one
  <2>4. table' = HoldingChildren(table, i, c)
    BY <1>3, <2>1, <2>2
  <2>5. c \in Seq(RowOrSpace) /\ c[p[2]] = r
    <3> HIDE DEF nodes
    <3> QED BY <1>2, <2>3, ReplacedIs
  <2> HIDE DEF c
  <2>6. Tables!IsPage(table') /\ table'[i].childNodes = c
    BY <1>1, <2>3, <2>4, <2>5, ChildrenChanged, SMTT(30)
  <2>7. NodeIn(table', p) = c[p[2]]
    BY <1>6, <2>6 DEF NodeIn
  <2> QED BY <2>5, <2>6, <2>7
<1> QED BY <1>1, <1>5, <1>6

LEMMA CellsAre ==
  ASSUME NEW p
  PROVE  /\ NodeIn(table, p) \in Tables!RowNodes =>
               /\ Tables!Cells(p) = IdsOf(NodeIn(table, p).cells, "td")
               /\ Len(Tables!RowCells(Tables!At(p))) = Len(IdsOf(NodeIn(table, p).cells, "td"))
               /\ Tables!RowCells(Tables!At(p)) \in Seq(1 .. Len(NodeIn(table, p).cells))
         /\ NodeIn(table', p) \in Tables!RowNodes =>
               Tables!Cells(p)' = IdsOf(NodeIn(table', p).cells, "td")
<1>1. Numbered(Tables!CellNodes, "td") /\ \A r \in Tables!RowNodes : r.cells \in Seq(Tables!CellNodes)
  BY NodesOfPage
<1>2. ASSUME NEW r \in Tables!RowNodes
      PROVE  /\ Tables!Places(r.cells, "td") \in Seq(1 .. Len(r.cells))
             /\ Len(Tables!Places(r.cells, "td")) = Len(IdsOf(r.cells, "td"))
             /\ IdsOf(r.cells, "td") = [k \in DOMAIN Tables!Places(r.cells, "td") |->
                                          r.cells[Tables!Places(r.cells, "td")[k]].id]
  <2> DEFINE nodes == r.cells
  <2>1. nodes \in Seq(Tables!CellNodes)
    BY <1>1
  <2> HIDE DEF nodes
  <2>2. /\ Tables!Places(nodes, "td") \in Seq(1 .. Len(nodes))
        /\ Len(Tables!Places(nodes, "td")) = Len(IdsOf(nodes, "td"))
        /\ IdsOf(nodes, "td") = [k \in DOMAIN Tables!Places(nodes, "td") |->
                                    nodes[Tables!Places(nodes, "td")[k]].id]
    BY <1>1, <2>1, PlacesAre
  <2> QED BY <2>2 DEF nodes
<1>3. ASSUME NodeIn(table, p) \in Tables!RowNodes
      PROVE  /\ Tables!Cells(p) = IdsOf(NodeIn(table, p).cells, "td")
             /\ Len(Tables!RowCells(Tables!At(p))) = Len(IdsOf(NodeIn(table, p).cells, "td"))
             /\ Tables!RowCells(Tables!At(p)) \in Seq(1 .. Len(NodeIn(table, p).cells))
  <2> DEFINE r == NodeIn(table, p)
  <2>1. Tables!At(p) = r
    BY HereAndNext
  <2>2. Tables!Cells(p) = [k \in DOMAIN Tables!Places(r.cells, "td") |->
                              r.cells[Tables!Places(r.cells, "td")[k]].id]
    BY <2>1 DEF Tables!Cells, Tables!RowCells
  <2>3. Tables!RowCells(Tables!At(p)) = Tables!Places(r.cells, "td")
    BY <2>1 DEF Tables!RowCells
  <2> HIDE DEF r
  <2>4. r \in Tables!RowNodes
    BY <1>3 DEF r
  <2> QED BY <1>2, <2>2, <2>3, <2>4 DEF r
<1>4. ASSUME NodeIn(table', p) \in Tables!RowNodes
      PROVE  Tables!Cells(p)' = IdsOf(NodeIn(table', p).cells, "td")
  <2> DEFINE r == NodeIn(table', p)
  <2>1. Tables!At(p)' = r
    BY HereAndNext
  <2>2. Tables!Cells(p)' = [k \in DOMAIN Tables!Places(r.cells, "td") |->
                              r.cells[Tables!Places(r.cells, "td")[k]].id]
    BY <2>1 DEF Tables!Cells, Tables!RowCells
  <2> HIDE DEF r
  <2>3. r \in Tables!RowNodes
    BY <1>4 DEF r
  <2> QED BY <1>2, <2>2, <2>3 DEF r
<1> QED BY <1>3, <1>4

LEMMA CellInserted ==
  ASSUME TableInv, NEW p \in PathsTo(table, "tr"), NEW idx \in Int, Tables!InsertCell(p, idx)
  PROVE  /\ Tables!IsPage(table')
         /\ Tables!PlainUpto(Tables!At(p).cells, idx, Tables!IsCell) =>
               Tables!IsInserted(Tables!Cells(p)', Tables!Cells(p), idx, tableMade.cells)
<1> DEFINE row == NodeIn(table, p)
           nodes == row.cells
           ids == IdsOf(nodes, "td")
           place == PlaceFor(nodes, idx, "td")
           x == Tables!Cell(tableMade.cells, idx)
           c == Tables!InsertAt(nodes, place, x)
           r == [row EXCEPT !.cells = c]
           K == Tables!CellNodes
<1>1. Tables!IsPage(table) /\ tableMade.cells \in Nat
  BY DEF TableInv
<1>2. row \in Tables!RowNodes /\ Tables!At(p) = row
  BY <1>1, AtRow, HereAndNext
<1>3. nodes \in Seq(K) /\ Numbered(K, "td")
  BY <1>2, NodesOfPage
<1>4. Tables!Cells(p) = ids /\ Len(Tables!RowCells(row)) = Len(ids)
  BY <1>2, CellsAre
<1>5. idx \in -1 .. Len(ids) /\ place > 0 /\ table' = Tables!WithRow(p, r)
  <2> DEFINE cells == Tables!RowCells(row)
             found == IF idx \in {-1, Len(cells)} THEN Len(nodes) + 1 ELSE Tables!Walk(nodes, idx)
  <2>1. /\ idx \in -1 .. Len(cells) /\ found > 0
        /\ table' = Tables!WithRow(p, [row EXCEPT !.cells = Tables!InsertAt(nodes, found, x)])
    <3> HIDE DEF row, x
    <3> QED BY <1>2 DEF Tables!InsertCell, x
  <2> HIDE DEF cells, row, x
  <2>2. place = found
    BY <1>4 DEF PlaceFor, cells
  <2> HIDE DEF place, found
  <2> QED BY <1>4, <2>1, <2>2 DEF cells
<1>6. x \in K /\ x.id = tableMade.cells /\ x.tag = "td"
  BY <1>1, NewCell
<1>7. place \in 1 .. Len(nodes) + 1
  <2> HIDE DEF nodes
  <2> QED BY <1>3, <1>5, PlaceFound
<1>8. c \in Seq(K)
  <2> HIDE DEF nodes, place, x, K
  <2>1. CanPut(K, nodes, place, x)
    BY <1>3, <1>6, <1>7 DEF CanPut
  <2> QED BY <2>1, RowInsertedIs DEF IsPut
<1>9. r \in Tables!RowNodes /\ r.cells = c
  <2> HIDE DEF c, row
  <2> QED BY <1>2, <1>8, NewChildren
<1>10. Tables!IsPage(table') /\ NodeIn(table', p) = r
  <2> HIDE DEF r
  <2> QED BY <1>1, <1>5, <1>9, RowChanged
<1>11. Tables!Cells(p)' = IdsOf(c, "td")
  <2> HIDE DEF r, c
  <2>1. NodeIn(table', p) \in Tables!RowNodes /\ NodeIn(table', p).cells = c
    BY <1>9, <1>10
  <2> QED BY <2>1, CellsAre
<1>12. ASSUME Tables!PlainUpto(nodes, idx, Tables!IsCell)
       PROVE  Tables!IsInserted(Tables!Cells(p)', Tables!Cells(p), idx, tableMade.cells)
  <2>1. \A j \in 1 .. idx : j \in DOMAIN nodes => nodes[j].tag = "td"
    BY <1>12 DEF Tables!PlainUpto, Tables!IsCell
  <2> HIDE DEF nodes, x
  <2>2. Tables!IsInserted(IdsOf(Tables!InsertAt(nodes, place, x), "td"), ids, idx, x.id)
    BY <1>3, <1>5, <1>6, <2>1, PutInList
  <2> QED BY <1>4, <1>6, <1>11, <2>2
<1> QED BY <1>2, <1>10, <1>12

LEMMA CellDeleted ==
  ASSUME TableInv, NEW p \in PathsTo(table, "tr"), NEW idx, Tables!DeleteCell(p, idx)
  PROVE  Tables!IsPage(table')
<1> DEFINE row == NodeIn(table, p)
           nodes == row.cells
           cells == Tables!RowCells(row)
           k == idx + 1
           c == Tables!RemoveAt(nodes, cells[k])
           r == [row EXCEPT !.cells = c]
           K == Tables!CellNodes
<1>1. Tables!IsPage(table)
  BY DEF TableInv
<1>2. row \in Tables!RowNodes /\ Tables!At(p) = row
  BY <1>1, AtRow, HereAndNext
<1>3. nodes \in Seq(K) /\ cells \in Seq(1 .. Len(nodes))
  BY <1>2, NodesOfPage, CellsAre
<1>4. k \in DOMAIN cells /\ table' = Tables!WithRow(p, r)
  <2> HIDE DEF row
  <2> QED BY <1>2 DEF Tables!DeleteCell
<1>5. c \in Seq(K)
  <2> HIDE DEF nodes, cells, k, K
  <2>1. cells[k] \in 1 .. Len(nodes)
    BY <1>3, <1>4
  <2> QED BY <1>3, <2>1, RemovedIs
<1>6. r \in Tables!RowNodes
  <2> HIDE DEF c, row
  <2> QED BY <1>2, <1>5, NewChildren
<1> HIDE DEF r
<1> QED BY <1>1, <1>4, <1>6, RowChanged

(* There is one head and one foot at most, and no row before the head.     *)
LEMMA HeadIsFirst ==
  ASSUME NEW tb, Tables!IsPage(tb)
  PROVE  /\ \A tag \in {"thead", "tfoot"} : Len(TaggedIn(tb, tag)) <= 1
         /\ \A head \in Tables!ToSet(TaggedIn(tb, "thead")), row \in Tables!ToSet(TaggedIn(tb, "tr")) :
               head[1] <= row[1]
<1>1. tb \in Seq(Tables!TableNodes)
  BY DEF Tables!IsPage
<1>2. \A i, j \in 1 .. Len(tb) :
         /\ tb[i].tag \in {"thead", "tfoot"} /\ tb[j].tag = tb[i].tag => i = j
         /\ tb[i].tag = "thead" /\ tb[j].tag # "#text" => i <= j
  BY <1>1, HeadFirstIs DEF Tables!IsPage
<1>3. ASSUME NEW tag \in {"thead", "tfoot"}
      PROVE  /\ Len(TaggedIn(tb, tag)) <= 1
             /\ \A k \in 1 .. Len(TaggedIn(tb, tag)) :
                   TaggedIn(tb, tag)[k][1] \in 1 .. Len(tb) /\ tb[TaggedIn(tb, tag)[k][1]].tag = tag
  <2> DEFINE paths == TaggedIn(tb, tag)
             t == PathLists(tb, tag)
             PlacesBefore(i) == Len(FlattenSeq(SubSeq(t, 1, i - 1)))
  <2>1. tag \in Tags
    BY DEF Tags
  <2>2. ASSUME NEW k \in 1 .. Len(paths)
        PROVE  \E i \in 1 .. Len(tb) : tb[i].tag = tag /\ k = PlacesBefore(i) + 1
    <3>1. PICK i \in 1 .. Len(tb) : \E j \in 1 .. Len(PathsIn(tb, i, tag)) : k = PlacesBefore(i) + j
      BY <1>1, <2>1, TaggedAt
    <3>2. PICK j \in 1 .. Len(PathsIn(tb, i, tag)) : k = PlacesBefore(i) + j
      BY <3>1
    <3>3. tb[i].tag = tag
      <4> SUFFICES ASSUME tb[i].tag # tag PROVE FALSE
        OBVIOUS
      <4>1. PathsIn(tb, i, tag) = <<>>
        BY <1>1, <2>1, PathsInAre
      <4> QED BY <3>2, <4>1
    <3>4. PathsIn(tb, i, tag) = <<<<i>>>>
      BY <1>1, <2>1, <3>3, PathsInAre
    <3>5. j = 1
      <4> DEFINE one == <<i>>
      <4>1. PathsIn(tb, i, tag) = <<one>>
        BY <3>4
      <4> HIDE DEF one
      <4> QED BY <3>2, <4>1
    <3> HIDE DEF PlacesBefore
    <3> QED BY <3>2, <3>3, <3>5
  <2>3. paths \in Seq(PathsTo(tb, tag))
    BY <1>1, <2>1, PathListsAre
  <2> HIDE DEF paths, PlacesBefore
  <2>4. Len(paths) \in Nat
    BY <2>3
  <2>5. Len(paths) <= 1
    <3> SUFFICES ASSUME ~(Len(paths) <= 1) PROVE FALSE
      OBVIOUS
    <3>1. 1 \in 1 .. Len(paths) /\ 2 \in 1 .. Len(paths)
      BY <2>4
    <3>2. PICK i \in 1 .. Len(tb) : tb[i].tag = tag /\ 1 = PlacesBefore(i) + 1
      BY <2>2, <3>1
    <3>3. PICK j \in 1 .. Len(tb) : tb[j].tag = tag /\ 2 = PlacesBefore(j) + 1
      BY <2>2, <3>1
    <3>4. i = j
      BY <1>2, <3>2, <3>3
    <3> QED BY <3>2, <3>3, <3>4
  <2>6. \A k \in 1 .. Len(paths) : paths[k] \in PathsTo(tb, tag)
    BY <2>3
  <2>7. \A p \in PathsTo(tb, tag) : p[1] \in 1 .. Len(tb) /\ tb[p[1]].tag = tag
    BY DEF PathsTo
  <2> QED BY <2>5, <2>6, <2>7 DEF paths
<1>4. ASSUME NEW head \in Tables!ToSet(TaggedIn(tb, "thead")), NEW row \in Tables!ToSet(TaggedIn(tb, "tr"))
      PROVE  head[1] <= row[1]
  <2>1. TaggedIn(tb, "thead") \in Seq(PathsTo(tb, "thead")) /\ TaggedIn(tb, "tr") \in Seq(PathsTo(tb, "tr"))
    BY <1>1, PathListsAre DEF Tags
  <2>2. head \in PathsTo(tb, "thead") /\ row \in PathsTo(tb, "tr")
    BY <2>1 DEF Tables!ToSet
  <2>3. head[1] \in 1 .. Len(tb) /\ tb[head[1]].tag = "thead"
    BY <2>2 DEF PathsTo
  <2>4. row[1] \in 1 .. Len(tb) /\ tb[row[1]].tag # "#text"
    <3>1. tb[row[1]].tag = "tr" \/ Tables!IsSection(tb[row[1]])
      BY <2>2 DEF PathsTo
    <3> QED BY <2>2, <3>1 DEF PathsTo, Tables!IsSection
  <2> QED BY <1>2, <2>3, <2>4
<1> QED BY <1>3, <1>4

LEMMA TableInvStep ==
  ASSUME TableInv, [Tables!Next]_(Tables!vars) PROVE TableInv'
<1>1. CASE UNCHANGED Tables!vars
  BY <1>1 DEF Tables!vars, TableInv, Tables!IsPage, Tables!HeadFirst
<1>2. CASE Tables!Next
  <2>1. tableMade' \in [rows : Nat, cells : Nat]
    <3>1. \/ UNCHANGED tableMade
          \/ tableMade' = [tableMade EXCEPT !.rows = @ + 1]
          \/ tableMade' = [tableMade EXCEPT !.cells = @ + 1]
      BY <1>2 DEF Tables!Next, Tables!CreateTHead, Tables!CreateTFoot, Tables!DeleteSection,
                  Tables!InsertRow, Tables!DeleteRow, Tables!SectionInsertRow,
                  Tables!SectionDeleteRow, Tables!InsertCell, Tables!DeleteCell
    <3> QED BY <3>1 DEF TableInv
  <2>2. \A p \in Tables!ToSet(Tables!ByTagName("tr")) : p \in PathsTo(table, "tr")
    <3> DEFINE paths == TaggedIn(table, "tr")
    <3>1. Tables!ByTagName("tr") = paths
      BY HereAndNext
    <3>2. paths \in Seq(PathsTo(table, "tr"))
      BY PathListsAre DEF TableInv, Tables!IsPage, Tags
    <3> HIDE DEF paths
    <3> QED BY <3>1, <3>2 DEF Tables!ToSet
  <2>3. CASE \/ Tables!CreateTHead \/ Tables!CreateTFoot
             \/ \E tag \in {"thead", "tfoot"} : Tables!DeleteSection(tag)
    BY <2>1, <2>3, HeadsAndFeet DEF TableInv
  <2>4. ASSUME NEW idx \in -2 .. MaxRows, Tables!InsertRow(idx) PROVE TableInv'
    BY <2>1, <2>4, RowInserted DEF TableInv
  <2>5. ASSUME NEW idx \in -2 .. MaxRows, Tables!DeleteRow(idx) PROVE TableInv'
    BY <2>1, <2>5, RowDeleted DEF TableInv
  <2>6. ASSUME NEW idx \in -2 .. MaxRows, NEW i \in DOMAIN table, Tables!SectionInsertRow(i, idx)
        PROVE  TableInv'
    BY <2>1, <2>6, SectionRowInserted DEF TableInv
  <2>7. ASSUME NEW idx \in -2 .. MaxRows, NEW i \in DOMAIN table, Tables!SectionDeleteRow(i, idx)
        PROVE  TableInv'
    BY <2>1, <2>7, SectionRowDeleted DEF TableInv
  <2>8. ASSUME NEW p \in Tables!ToSet(Tables!ByTagName("tr")), NEW idx \in -1 .. MaxCells,
               Tables!InsertCell(p, idx)
        PROVE  TableInv'
    BY <2>1, <2>2, <2>8, CellInserted DEF TableInv
  <2>9. ASSUME NEW p \in Tables!ToSet(Tables!ByTagName("tr")), NEW idx \in -1 .. MaxCells,
               Tables!DeleteCell(p, idx)
        PROVE  TableInv'
    BY <2>1, <2>2, <2>9, CellDeleted DEF TableInv
  <2> QED BY <1>2, <2>3, <2>4, <2>5, <2>6, <2>7, <2>8, <2>9 DEF Tables!Next
<1> QED BY <1>1, <1>2

LEMMA TableInvShows ==
  ASSUME TableInv, TableInv' PROVE Tables!PutsWhereAsked
<1>1. ASSUME NEW idx \in -1 .. MaxRows
      PROVE  /\ Tables!InsertRow(idx) =>
                   Tables!IsInserted(Tables!Rows', Tables!Rows, idx, tableMade.rows)
             /\ \A i \in DOMAIN table :
                   Tables!SectionInsertRow(i, idx) /\ Tables!PlainUpto(table[i].childNodes, idx, Tables!IsRow) =>
                      Tables!IsInserted(Tables!RowsIn(i)', Tables!RowsIn(i), idx, tableMade.rows)
  <2>1. idx \in Int /\ idx >= -1
    OBVIOUS
  <2>2. Tables!InsertRow(idx) => Tables!IsInserted(Tables!Rows', Tables!Rows, idx, tableMade.rows)
    BY RowInserted
  <2>3. ASSUME NEW i \in DOMAIN table, Tables!SectionInsertRow(i, idx),
               Tables!PlainUpto(table[i].childNodes, idx, Tables!IsRow)
        PROVE  Tables!IsInserted(Tables!RowsIn(i)', Tables!RowsIn(i), idx, tableMade.rows)
    BY <2>1, <2>3, SectionRowInserted
  <2> QED BY <2>2, <2>3
<1>2. ASSUME NEW p \in Tables!ToSet(Tables!ByTagName("tr")), NEW idx \in -1 .. MaxCells,
             Tables!InsertCell(p, idx), Tables!PlainUpto(Tables!At(p).cells, idx, Tables!IsCell)
      PROVE  Tables!IsInserted(Tables!Cells(p)', Tables!Cells(p), idx, tableMade.cells)
  <2>1. p \in PathsTo(table, "tr")
    <3> DEFINE paths == TaggedIn(table, "tr")
    <3>1. Tables!ByTagName("tr") = paths
      BY HereAndNext
    <3>2. paths \in Seq(PathsTo(table, "tr"))
      BY PathListsAre DEF TableInv, Tables!IsPage, Tags
    <3> HIDE DEF paths
    <3> QED BY <3>1, <3>2 DEF Tables!ToSet
  <2> QED BY <1>2, <2>1, CellInserted
<1>3. Tables!HeadComesFirst'
  <2>1. Tables!IsPage(table')
    BY DEF TableInv, Tables!IsPage, Tables!HeadFirst
  <2>2. \A tag : Tables!ByTagName(tag)' = TaggedIn(table', tag)
    BY HereAndNext
  <2>3. /\ \A tag \in {"thead", "tfoot"} : Len(Tables!ByTagName(tag)') <= 1
        /\ \A head \in Tables!ToSet(Tables!ByTagName("thead")'), row \in Tables!ToSet(Tables!ByTagName("tr")') :
              head[1] <= row[1]
    BY <2>1, <2>2, HeadIsFirst
  <2> QED BY <2>3 DEF Tables!HeadComesFirst
<1> QED BY <1>1, <1>2, <1>3 DEF Tables!PutsWhereAsked

LEMMA TableInvInit ==
  ASSUME Tables!Init PROVE TableInv
<1>1. table \in Sections /\ tableMade = [rows |-> 1, cells |-> 1]
  BY DEF Tables!Init
<1> QED BY <1>1, TablesAssumption DEF TableInv

(* A new row of a table or a section, or a new cell of a row, gets the     *)
(* index that was asked for and the others keep their order, and the head  *)
(* stays first, of any page (insertRow, insertCell and createTHead).       *)
THEOREM RowsAreWhereAskedAlways == DocumentSpec => RowsAreWhereAsked
<1>1. DocumentInit => TableInv
  BY TableInvInit DEF DocumentInit
<1>2. TableInv /\ [DocumentNext]_all => TableInv'
  BY OneRuns, TableInvStep
<1>3. TableInv /\ TableInv' => Tables!PutsWhereAsked
  BY TableInvShows
<1>4. TableInv /\ TableInv' /\ [DocumentNext]_all => [running = "tables" => Tables!PutsWhereAsked]_all
  BY <1>3
<1> QED
  BY <1>1, <1>2, <1>4, PTL DEF DocumentSpec, RowsAreWhereAsked

=============================================================================
