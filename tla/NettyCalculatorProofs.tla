------------------------ MODULE NettyCalculatorProofs ------------------------
(* Proofs about NettyCalculator, for any number of callers and calls.       *)
EXTENDS NettyCalculator, SequenceTheorems, TLAPS

Has(s, c) == \E i \in 1 .. Len(s) : s[i] = c

(* What the server has yet to handle, from its buffer to the client's end. *)
Stream == cumulation \o toServer

(* A sequence of whole requests, each of another call. *)
Aligned(s) ==
    /\ Len(s) % 8 = 0
    /\ \A i, j \in 1 .. Len(s) : s[i] = s[j] <=> (i - 1) \div 8 = (j - 1) \div 8

(* The bytes of one response are within four places of each other. *)
Spaced(s) == \A i, j \in 1 .. Len(s) : s[i] = s[j] => j - i < 4

-----------------------------------------------------------------------------
(* Sequences *)

LEMMA DropFact ==
    ASSUME NEW S, NEW s \in Seq(S), NEW n \in 0 .. Len(s)
    PROVE  /\ Drop(s, n) \in Seq(S)
           /\ Len(Drop(s, n)) = Len(s) - n
           /\ \A i \in 1 .. Len(s) - n : Drop(s, n)[i] = s[i + n]
  BY DEF Drop

LEMMA PrefixFact ==
    ASSUME NEW S, NEW s \in Seq(S), NEW n \in 0 .. Len(s)
    PROVE  /\ SubSeq(s, 1, n) \in Seq(S)
           /\ Len(SubSeq(s, 1, n)) = n
           /\ \A i \in 1 .. n : SubSeq(s, 1, n)[i] = s[i]
  OBVIOUS

LEMMA ConcatFact ==
    ASSUME NEW S, NEW s \in Seq(S), NEW t \in Seq(S)
    PROVE  /\ s \o t \in Seq(S)
           /\ Len(s \o t) = Len(s) + Len(t)
           /\ \A i \in 1 .. Len(s) : (s \o t)[i] = s[i]
           /\ \A i \in 1 .. Len(t) : (s \o t)[Len(s) + i] = t[i]
  OBVIOUS

LEMMA BytesFact ==
    ASSUME NEW S, NEW c \in S, NEW n \in Nat
    PROVE  /\ Bytes(n, c) \in Seq(S)
           /\ Len(Bytes(n, c)) = n
           /\ \A i \in 1 .. n : Bytes(n, c)[i] = c
  BY DEF Bytes

(* Receiving moves bytes from one part of the stream to the other. *)
LEMMA ConcatAt ==
    ASSUME NEW S, NEW s \in Seq(S), NEW t \in Seq(S)
    PROVE  /\ s \o t \in Seq(S)
           /\ Len(s \o t) = Len(s) + Len(t)
           /\ \A i \in Nat : i >= 1 /\ i <= Len(s) => (s \o t)[i] = s[i]
           /\ \A i \in Nat : i > Len(s) /\ i <= Len(s) + Len(t)
                            => (s \o t)[i] = t[i - Len(s)]
  OBVIOUS

LEMMA MoveFact ==
    ASSUME NEW S, NEW a \in Seq(S), NEW b \in Seq(S), NEW n \in 1 .. Len(b)
    PROVE  (a \o SubSeq(b, 1, n)) \o Drop(b, n) = a \o b
  <1> DEFINE p == SubSeq(b, 1, n)
             q == Drop(b, n)
             m == a \o p
             l == m \o q
             r == a \o b
  <1>1. /\ p \in Seq(S) /\ Len(p) = n /\ \A i \in 1 .. n : p[i] = b[i]
    BY PrefixFact
  <1>2. /\ q \in Seq(S) /\ Len(q) = Len(b) - n
        /\ \A i \in 1 .. Len(b) - n : q[i] = b[i + n]
    BY DropFact
  <1>3. p \in Seq(S) /\ q \in Seq(S)
    BY <1>1, <1>2
  <1> HIDE DEF p, q
  <1>4. /\ m \in Seq(S) /\ Len(m) = Len(a) + Len(p)
        /\ \A i \in Nat : i >= 1 /\ i <= Len(a) => m[i] = a[i]
        /\ \A i \in Nat : i > Len(a) /\ i <= Len(a) + Len(p) => m[i] = p[i - Len(a)]
    BY <1>3, ConcatAt
  <1>5. m \in Seq(S)
    BY <1>4
  <1>6. /\ r \in Seq(S) /\ Len(r) = Len(a) + Len(b)
        /\ \A i \in Nat : i >= 1 /\ i <= Len(a) => r[i] = a[i]
        /\ \A i \in Nat : i > Len(a) /\ i <= Len(a) + Len(b) => r[i] = b[i - Len(a)]
    BY ConcatAt
  <1> HIDE DEF m, r
  <1>7. /\ l \in Seq(S) /\ Len(l) = Len(m) + Len(q)
        /\ \A i \in Nat : i >= 1 /\ i <= Len(m) => l[i] = m[i]
        /\ \A i \in Nat : i > Len(m) /\ i <= Len(m) + Len(q) => l[i] = q[i - Len(m)]
    BY <1>3, <1>5, ConcatAt
  <1> HIDE DEF l
  <1>8. /\ Len(a) \in Nat /\ Len(b) \in Nat /\ n \in Nat /\ n <= Len(b)
        /\ Len(p) = n /\ Len(q) = Len(b) - n /\ Len(m) = Len(a) + n
        /\ Len(l) = Len(a) + Len(b) /\ Len(r) = Len(a) + Len(b)
    BY <1>1, <1>2, <1>4, <1>6, <1>7
  <1>9. ASSUME NEW i \in 1 .. Len(l) PROVE l[i] = r[i]
    <2>1. i \in Nat /\ i >= 1 /\ i <= Len(a) + Len(b)
      BY <1>8
    <2>2. CASE i <= Len(a)
      BY <2>1, <2>2, <1>4, <1>6, <1>7, <1>8
    <2>3. CASE i > Len(a) /\ i <= Len(a) + n
      <3>1. l[i] = m[i] /\ m[i] = p[i - Len(a)] /\ r[i] = b[i - Len(a)]
        BY <2>1, <2>3, <1>4, <1>6, <1>7, <1>8
      <3>2. i - Len(a) \in 1 .. n
        BY <2>1, <2>3, <1>8
      <3> QED BY <3>1, <3>2, <1>1
    <2>4. CASE i > Len(a) + n
      <3>a. i > Len(m) /\ i <= Len(m) + Len(q)
        BY <2>1, <2>4, <1>8
      <3>b. l[i] = q[i - Len(m)]
        BY <3>a, <2>1, <1>7
      <3>c. r[i] = b[i - Len(a)]
        BY <2>1, <2>4, <1>6, <1>8
      <3>1. l[i] = q[i - Len(m)] /\ r[i] = b[i - Len(a)]
        BY <3>b, <3>c
      <3>2. /\ i - Len(m) \in 1 .. Len(b) - n
            /\ i - Len(m) + n = i - Len(a)
        BY <2>1, <2>4, <1>8
      <3> QED BY <3>1, <3>2, <1>2
    <2> QED BY <2>1, <2>2, <2>3, <2>4, <1>8
  <1>a. l = r
    BY <1>6, <1>7, <1>8, <1>9, SeqEqual
  <1> QED BY <1>a DEF l, r, m, p, q

LEMMA DropConcat ==
    ASSUME NEW S, NEW a \in Seq(S), NEW b \in Seq(S), NEW n \in 0 .. Len(a)
    PROVE  Drop(a, n) \o b = Drop(a \o b, n)
  <1> DEFINE d == Drop(a, n)
             c == a \o b
             l == d \o b
             r == Drop(c, n)
  <1>1. /\ d \in Seq(S) /\ Len(d) = Len(a) - n
        /\ \A i \in 1 .. Len(a) - n : d[i] = a[i + n]
    BY DropFact
  <1>2. /\ c \in Seq(S) /\ Len(c) = Len(a) + Len(b)
        /\ \A i \in 1 .. Len(a) + Len(b) :
              c[i] = IF i <= Len(a) THEN a[i] ELSE b[i - Len(a)]
    BY ConcatProperties
  <1> HIDE DEF d, c
  <1>3. /\ l \in Seq(S) /\ Len(l) = Len(d) + Len(b)
        /\ \A i \in 1 .. Len(d) + Len(b) :
              l[i] = IF i <= Len(d) THEN d[i] ELSE b[i - Len(d)]
    BY <1>1, ConcatProperties
  <1>4. n \in 0 .. Len(c)
    BY <1>2
  <1>5. /\ r \in Seq(S) /\ Len(r) = Len(c) - n
        /\ \A i \in 1 .. Len(c) - n : r[i] = c[i + n]
    BY <1>2, <1>4, DropFact
  <1> HIDE DEF l, r
  <1>6. Len(l) = Len(r)
    BY <1>1, <1>2, <1>3, <1>5
  <1>7. \A i \in 1 .. Len(l) : l[i] = r[i]
    BY <1>1, <1>2, <1>3, <1>5
  <1>8. l = r
    BY <1>3, <1>5, <1>6, <1>7, SeqEqual
  <1> QED BY <1>8 DEF l, r, c, d

LEMMA AlignedDrop ==
    ASSUME NEW S, NEW s \in Seq(S), Aligned(s), Len(s) >= 8
    PROVE  /\ Aligned(Drop(s, 8))
           /\ \A i \in 1 .. 8 : s[i] = s[1]
           /\ ~ Has(Drop(s, 8), s[1])
  <1> DEFINE d == Drop(s, 8)
  <1>1. /\ Len(d) = Len(s) - 8 /\ \A i \in 1 .. Len(s) - 8 : d[i] = s[i + 8]
    BY DropFact
  <1> HIDE DEF d
  <1>2. Len(d) % 8 = 0
    BY <1>1 DEF Aligned
  <1>3. \A i, j \in 1 .. Len(d) : d[i] = d[j] <=> (i - 1) \div 8 = (j - 1) \div 8
    <2> TAKE i, j \in 1 .. Len(d)
    <2>1. /\ i + 8 \in 1 .. Len(s) /\ j + 8 \in 1 .. Len(s)
          /\ d[i] = s[i + 8] /\ d[j] = s[j + 8]
      BY <1>1
    <2>2. d[i] = d[j] <=> (i + 8 - 1) \div 8 = (j + 8 - 1) \div 8
      BY <2>1 DEF Aligned
    <2> QED BY <2>2
  <1>4. \A i \in 1 .. 8 : s[i] = s[1]
    BY DEF Aligned
  <1>5. ~ Has(d, s[1])
    BY <1>1 DEF Aligned, Has
  <1> QED BY <1>2, <1>3, <1>4, <1>5 DEF Aligned, d

LEMMA BlockFact ==
    ASSUME NEW n \in Nat, n % 8 = 0
    PROVE  /\ \A i \in 1 .. n : (i - 1) \div 8 < n \div 8
           /\ \A i \in n + 1 .. n + 8 : (i - 1) \div 8 = n \div 8
  OBVIOUS

LEMMA AlignedAppend ==
    ASSUME NEW S, NEW s \in Seq(S), Aligned(s), NEW c \in S, ~ Has(s, c)
    PROVE  Aligned(s \o Bytes(8, c))
  <1> DEFINE b == Bytes(8, c)
             e == s \o b
             B(i) == (i - 1) \div 8
  <1>1. Len(b) = 8 /\ \A i \in 1 .. 8 : b[i] = c
    BY BytesFact
  <1>a. b \in Seq(S)
    BY BytesFact
  <1> HIDE DEF b, B
  <1>2. /\ Len(e) = Len(s) + Len(b)
        /\ \A i \in Nat : i >= 1 /\ i <= Len(s) => e[i] = s[i]
        /\ \A i \in Nat : i > Len(s) /\ i <= Len(s) + Len(b) => e[i] = b[i - Len(s)]
    BY <1>a, ConcatAt
  <1> HIDE DEF e
  <1>3. /\ Len(s) \in Nat /\ Len(s) % 8 = 0
        /\ \A i \in 1 .. Len(s) : s[i] # c
        /\ \A i, j \in 1 .. Len(s) : s[i] = s[j] <=> B(i) = B(j)
    BY DEF Aligned, Has, B
  <1>4. /\ \A i \in 1 .. Len(s) : e[i] = s[i]
        /\ \A i \in Len(s) + 1 .. Len(s) + 8 : e[i] = c
    <2>1. ASSUME NEW i \in Len(s) + 1 .. Len(s) + 8 PROVE e[i] = c
      <3>1. i - Len(s) \in 1 .. 8 /\ i \in Nat /\ i > Len(s) /\ i <= Len(s) + Len(b)
        BY <1>1, <1>3
      <3> QED BY <3>1, <1>1, <1>2
    <2> QED BY <2>1, <1>2, <1>3
  <1>5. /\ \A i \in 1 .. Len(s) : B(i) < Len(s) \div 8
        /\ \A i \in Len(s) + 1 .. Len(s) + 8 : B(i) = Len(s) \div 8
    BY <1>3, BlockFact DEF B
  <1>6. \A i \in 1 .. Len(s) : B(i) # Len(s) \div 8
    BY <1>3, <1>5
  <1>7. Len(e) = Len(s) + 8 /\ Len(e) % 8 = 0
    BY <1>1, <1>2, <1>3
  <1>8. ASSUME NEW i \in 1 .. Len(e), NEW j \in 1 .. Len(e)
        PROVE  e[i] = e[j] <=> B(i) = B(j)
    <2>1. /\ i \in 1 .. Len(s) \/ i \in Len(s) + 1 .. Len(s) + 8
          /\ j \in 1 .. Len(s) \/ j \in Len(s) + 1 .. Len(s) + 8
      <3>1. Len(s) \in Nat /\ Len(e) = Len(s) + 8 BY <1>3, <1>7
      <3> QED BY <3>1
    <2> QED BY <2>1, <1>3, <1>4, <1>5, <1>6
  <1> QED BY <1>7, <1>8 DEF Aligned, e, b, B
LEMMA HasDrop ==
    ASSUME NEW S, NEW s \in Seq(S), NEW n \in 0 .. Len(s), NEW c, Has(Drop(s, n), c)
    PROVE  Has(s, c)
  <1> DEFINE d == Drop(s, n)
  <1>1. Len(d) = Len(s) - n /\ \A i \in 1 .. Len(s) - n : d[i] = s[i + n]
    BY DropFact
  <1>2. Has(d, c)
    OBVIOUS
  <1> HIDE DEF d
  <1>3. PICK i \in 1 .. Len(d) : d[i] = c
    BY <1>2 DEF Has
  <1>4. i + n \in 1 .. Len(s) /\ s[i + n] = c
    BY <1>1, <1>3
  <1> QED BY <1>4 DEF Has

LEMMA HasPrefix ==
    ASSUME NEW S, NEW s \in Seq(S), NEW n \in 0 .. Len(s), NEW c,
           Has(SubSeq(s, 1, n), c)
    PROVE  Has(s, c)
  BY PrefixFact DEF Has

(* e is s with n times c at its end. *)
Appended(e, s, n, c) ==
    /\ Len(e) = Len(s) + n
    /\ \A i \in 1 .. Len(s) + n :
          \/ i <= Len(s) /\ e[i] = s[i]
          \/ i > Len(s) /\ e[i] = c

LEMMA AppendFact ==
    ASSUME NEW S, NEW s \in Seq(S), NEW n \in Nat, NEW c \in S
    PROVE  /\ s \o Bytes(n, c) \in Seq(S)
           /\ Appended(s \o Bytes(n, c), s, n, c)
  <1> DEFINE b == Bytes(n, c)
             e == s \o b
  <1>1. Len(b) = n /\ \A i \in 1 .. n : b[i] = c
    BY BytesFact
  <1>2. b \in Seq(S)
    BY BytesFact
  <1> HIDE DEF b
  <1>3. /\ e \in Seq(S) /\ Len(e) = Len(s) + Len(b)
        /\ \A i \in Nat : i >= 1 /\ i <= Len(s) => e[i] = s[i]
        /\ \A i \in Nat : i > Len(s) /\ i <= Len(s) + Len(b) => e[i] = b[i - Len(s)]
    BY <1>2, ConcatAt
  <1> HIDE DEF e
  <1>4. Len(s) \in Nat
    OBVIOUS
  <1>5. ASSUME NEW i \in 1 .. Len(s) + n
        PROVE  \/ i <= Len(s) /\ e[i] = s[i]
               \/ i > Len(s) /\ e[i] = c
    <2>1. CASE i <= Len(s) BY <2>1, <1>3, <1>4
    <2>2. CASE i > Len(s)
      <3>1. i - Len(s) \in 1 .. n /\ i \in Nat /\ i <= Len(s) + Len(b)
        BY <2>2, <1>1, <1>4
      <3> QED BY <3>1, <2>2, <1>1, <1>3
    <2> QED BY <2>1, <2>2, <1>4
  <1> QED BY <1>1, <1>3, <1>5 DEF e, b, Appended

LEMMA HasAppend ==
    ASSUME NEW S, NEW s \in Seq(S), NEW n \in Nat, NEW c \in S, NEW d,
           Has(s \o Bytes(n, c), d), d # c
    PROVE  Has(s, d)
  <1> DEFINE e == s \o Bytes(n, c)
  <1>1. Appended(e, s, n, c)
    BY AppendFact
  <1>2. Has(e, d)
    OBVIOUS
  <1> HIDE DEF e
  <1> QED BY <1>1, <1>2 DEF Has, Appended

LEMMA SpacedDrop ==
    ASSUME NEW S, NEW s \in Seq(S), NEW n \in 0 .. Len(s), Spaced(s)
    PROVE  Spaced(Drop(s, n))
  <1> DEFINE d == Drop(s, n)
  <1>1. Len(d) = Len(s) - n /\ \A i \in 1 .. Len(s) - n : d[i] = s[i + n]
    BY DropFact
  <1> HIDE DEF d
  <1>2. ASSUME NEW i \in 1 .. Len(d), NEW j \in 1 .. Len(d), d[i] = d[j]
        PROVE  j - i < 4
    <2>1. /\ i + n \in 1 .. Len(s) /\ j + n \in 1 .. Len(s)
          /\ s[i + n] = s[j + n]
      BY <1>1, <1>2
    <2>2. (j + n) - (i + n) < 4
      BY <2>1 DEF Spaced
    <2> QED BY <2>2
  <1> QED BY <1>2 DEF Spaced, d

LEMMA SpacedPrefix ==
    ASSUME NEW S, NEW s \in Seq(S), NEW n \in 0 .. Len(s), Spaced(s)
    PROVE  Spaced(SubSeq(s, 1, n))
  <1> DEFINE p == SubSeq(s, 1, n)
  <1>1. Len(p) = n /\ \A i \in 1 .. n : p[i] = s[i]
    BY PrefixFact
  <1> HIDE DEF p
  <1>2. ASSUME NEW i \in 1 .. Len(p), NEW j \in 1 .. Len(p), p[i] = p[j]
        PROVE  j - i < 4
    BY <1>1, <1>2 DEF Spaced
  <1> QED BY <1>2 DEF Spaced, p

LEMMA SpacedAppend ==
    ASSUME NEW S, NEW s \in Seq(S), NEW c \in S, Spaced(s), ~ Has(s, c)
    PROVE  Spaced(s \o Bytes(4, c))
  <1> DEFINE e == s \o Bytes(4, c)
  <1>1. Appended(e, s, 4, c)
    BY AppendFact
  <1> HIDE DEF e
  <1>2. Len(s) \in Nat /\ \A i \in 1 .. Len(s) : s[i] # c
    BY DEF Has
  <1>3. ASSUME NEW i \in 1 .. Len(e), NEW j \in 1 .. Len(e), e[i] = e[j]
        PROVE  j - i < 4
    BY <1>1, <1>2, <1>3 DEF Spaced, Appended
  <1> QED BY <1>3 DEF Spaced, e

(* Reading a whole response leaves none of its bytes behind. *)
LEMMA SpacedRead ==
    ASSUME NEW S, NEW s \in Seq(S), NEW n \in 4 .. Len(s), Spaced(s),
           \A i \in 1 .. 4 : s[i] = s[1]
    PROVE  ~ Has(Drop(s, n), s[1])
  <1> DEFINE d == Drop(s, n)
  <1>1. Len(d) = Len(s) - n /\ \A i \in 1 .. Len(s) - n : d[i] = s[i + n]
    BY DropFact
  <1> HIDE DEF d
  <1>2. ASSUME NEW i \in 1 .. Len(d), d[i] = s[1]
        PROVE  FALSE
    <2>1. i + n \in 1 .. Len(s) /\ 1 \in 1 .. Len(s) /\ s[1] = s[i + n]
      BY <1>1, <1>2
    <2>2. (i + n) - 1 < 4
      BY <2>1 DEF Spaced
    <2> QED BY <2>2
  <1> QED BY <1>2 DEF Has, d

-----------------------------------------------------------------------------
(* Types *)

LEMMA IntOfType ==
    ASSUME NEW S, NEW s \in Seq(S), NEW n \in 1 .. Len(s)
    PROVE  IntOf(s, n) \in S \cup {Garbage}
  BY DEF IntOf

CallerState == [phase : {"idle", "writing", "waiting"}, calls : 0 .. MaxCalls]

(* A caller inside addNumbers has counted its call. *)
Counted == \A t \in Callers : caller[t].phase # "idle" => caller[t].calls >= 1

LEMMA CallOfType ==
    ASSUME TypeOK, Counted, NEW t \in Callers, caller[t].phase # "idle"
    PROVE  CallOf(t) \in Calls
  BY DEF TypeOK, Counted, CallOf, Calls

LEMMA TypeStep ==
    ASSUME TypeOK, Counted, [Next]_vars
    PROVE  TypeOK' /\ Counted'
  <1> USE NettyAssumption
  <1>0. /\ toServer \in Seq(Calls) /\ cumulation \in Seq(Calls)
        /\ toClient \in Seq(Values) /\ caller \in [Callers -> CallerState]
    BY DEF TypeOK, CallerState
  <1>1. CASE StartServer \/ StartClient \/ CloseChannel
    BY <1>1 DEF StartServer, StartClient, CloseChannel, TypeOK, Counted, States, wire
  <1>3. CASE StopServer
    <2>1. PICK n \in 0 .. Len(toClient) : toClient' = SubSeq(toClient, 1, n)
      BY <1>3 DEF StopServer
    <2>2. toClient' \in Seq(Values)
      BY <2>1, <1>0, PrefixFact
    <2> QED BY <1>3, <2>2 DEF StopServer, TypeOK, Counted, States
  <1>5. ASSUME NEW t \in Callers, StartCall(t) PROVE TypeOK' /\ Counted'
    <2>1. /\ caller[t].calls + 1 \in 1 .. MaxCalls
          /\ caller' = [caller EXCEPT ![t] =
                [phase |-> "writing", calls |-> caller[t].calls + 1]]
          /\ caller'[t].calls = caller[t].calls + 1
      BY <1>5, <1>0 DEF StartCall, CallerState
    <2>2. caller' \in [Callers -> CallerState] /\ Counted'
      BY <2>1, <1>0 DEF CallerState, Counted
    <2>3. exchanger' \in Calls
      BY <1>5, <2>1 DEF StartCall, CallOf, Calls
    <2> QED BY <1>5, <2>2, <2>3 DEF StartCall, TypeOK, CallerState, wire
  <1>6. ASSUME NEW t \in Callers, Flush(t) PROVE TypeOK' /\ Counted'
    <2>1. caller' \in [Callers -> CallerState] /\ Counted'
      BY <1>6, <1>0 DEF Flush, CallerState, Counted
    <2>2. CallOf(t) \in Calls
      BY <1>6, CallOfType DEF Flush
    <2>3. Bytes(RequestBytes, CallOf(t)) \in Seq(Calls)
      BY <2>2, BytesFact DEF RequestBytes
    <2>4. toServer \o Bytes(RequestBytes, CallOf(t)) \in Seq(Calls)
      BY <1>0, <2>3, ConcatAt
    <2>5. toServer' \in Seq(Calls)
      BY <1>6, <2>4, <1>0 DEF Flush
    <2> QED BY <1>6, <2>1, <2>5 DEF Flush, TypeOK, CallerState
  <1>7. ASSUME NEW t \in Callers, FailWrite(t) PROVE TypeOK' /\ Counted'
    <2>1. caller' \in [Callers -> CallerState] /\ Counted'
      BY <1>7, <1>0 DEF FailWrite, CallerState, Counted
    <2> QED BY <1>7, <2>1 DEF FailWrite, TypeOK, CallerState, wire
  <1>8. ASSUME NEW t \in Callers, Exchange(t) PROVE TypeOK' /\ Counted'
    <2>1. caller' \in [Callers -> CallerState] /\ Counted'
      BY <1>8, <1>0 DEF Exchange, CallerState, Counted
    <2>2. CallOf(t) \in Calls
      BY <1>8, CallOfType DEF Exchange
    <2>3. answer' \in [Calls -> Values \cup {NoCall}]
      BY <1>8, <2>2 DEF Exchange, TypeOK
    <2>4. loop' \in [on : Calls \cup {NoCall}, value : Values \cup {NoCall}]
      BY <1>8 DEF Exchange, Free
    <2> QED BY <1>8, <2>1, <2>3, <2>4 DEF Exchange, TypeOK, CallerState, wire
  <1>9. ASSUME NEW n \in 1 .. Len(toClient), Read(n) PROVE TypeOK' /\ Counted'
    <2>1. toClient' \in Seq(Values)
      BY <1>9, <1>0, DropFact DEF Read
    <2>2. loop' \in [on : Calls \cup {NoCall}, value : Values \cup {NoCall}]
      <3>1. CASE n < IntBytes
        BY <1>9, <3>1 DEF Read, TypeOK
      <3>2. CASE ~ (n < IntBytes)
        <4>1. IntBytes \in 1 .. Len(toClient)
          BY <3>2, <1>0 DEF IntBytes
        <4>2. IntOf(toClient, IntBytes) \in Values
          BY <4>1, <1>0, IntOfType DEF Values
        <4> QED BY <1>9, <3>2, <4>2 DEF Read, TypeOK
      <3> QED BY <3>1, <3>2
    <2> QED BY <1>9, <2>1, <2>2 DEF Read, TypeOK, Counted
  <1>10. ASSUME NEW n \in 1 .. Len(toServer), Receive(n) PROVE TypeOK' /\ Counted'
    <2>1. toServer' \in Seq(Calls)
      BY <1>10, <1>0, DropFact DEF Receive
    <2>2. SubSeq(toServer, 1, n) \in Seq(Calls)
      BY <1>0, PrefixFact
    <2>3. cumulation' \in Seq(Calls)
      BY <1>10, <2>2, <1>0, ConcatAt DEF Receive
    <2> QED BY <1>10, <2>1, <2>3 DEF Receive, TypeOK, Counted
  <1>11. CASE Serve
    <2>1. RequestBytes \in 1 .. Len(cumulation)
      BY <1>11, <1>0 DEF Serve, RequestBytes
    <2>a. RequestBytes \in 0 .. Len(cumulation)
      BY <2>1 DEF RequestBytes
    <2>b. Drop(cumulation, RequestBytes) \in Seq(Calls)
      BY <2>a, <1>0, DropFact
    <2>2. cumulation' \in Seq(Calls)
      BY <1>11, <2>b DEF Serve
    <2>3. IntOf(cumulation, RequestBytes) \in Values
      BY <2>1, <1>0, IntOfType DEF Values
    <2>4. Bytes(IntBytes, IntOf(cumulation, RequestBytes)) \in Seq(Values)
      BY <2>3, BytesFact DEF IntBytes
    <2>5. toClient' \in Seq(Values)
      BY <1>11, <2>4, <1>0, ConcatAt DEF Serve
    <2> QED BY <1>11, <2>2, <2>5 DEF Serve, TypeOK, Counted
  <1>12. CASE UNCHANGED vars
    BY <1>12 DEF vars, TypeOK, Counted
  <1> QED BY <1>1, <1>3, <1>5, <1>6, <1>7, <1>8, <1>9, <1>10, <1>11, <1>12
          DEF Next, Network

-----------------------------------------------------------------------------
(* The byte streams *)

InFlight(c) == Has(Stream, c) \/ Has(toClient, c)

StreamInv ==
    /\ Aligned(Stream)
    /\ Spaced(toClient)
    /\ SumsAreReal
    /\ \A c \in Calls : ~ (Has(Stream, c) /\ Has(toClient, c))
    (* A call of a caller is in flight only after its write. *)
    /\ \A c \in Calls : InFlight(c) =>
          /\ c[2] <= caller[c[1]].calls
          /\ c = CallOf(c[1]) => caller[c[1]].phase # "writing"

LEMMA SeqTypes ==
    ASSUME TypeOK
    PROVE  /\ toServer \in Seq(Calls) /\ cumulation \in Seq(Calls)
           /\ toClient \in Seq(Values) /\ Stream \in Seq(Calls)
  <1>1. toServer \in Seq(Calls) /\ cumulation \in Seq(Calls)
    BY DEF TypeOK
  <1>2. Stream \in Seq(Calls)
    BY <1>1, ConcatAt DEF Stream
  <1> QED BY <1>1, <1>2 DEF TypeOK

LEMMA ReceiveStream ==
    ASSUME TypeOK, NEW n \in 1 .. Len(toServer), Receive(n)
    PROVE  Stream' = Stream
  <1>1. Stream' = (cumulation \o SubSeq(toServer, 1, n)) \o Drop(toServer, n)
    BY DEF Receive, Stream
  <1>2. toServer \in Seq(Calls) /\ cumulation \in Seq(Calls)
    BY SeqTypes
  <1>3. (cumulation \o SubSeq(toServer, 1, n)) \o Drop(toServer, n)
            = cumulation \o toServer
    BY <1>2, MoveFact
  <1> QED BY <1>1, <1>3 DEF Stream

LEMMA FlushStream ==
    ASSUME TypeOK, Counted, NEW t \in Callers, Flush(t)
    PROVE  Stream' = Stream \/ Stream' = Stream \o Bytes(8, CallOf(t))
  <1> DEFINE b == Bytes(8, CallOf(t))
  <1>1. toServer \in Seq(Calls) /\ cumulation \in Seq(Calls)
    BY SeqTypes
  <1>2. b \in Seq(Calls)
    BY CallOfType, BytesFact DEF Flush
  <1>3. toServer' = toServer \/ toServer' = toServer \o b
    BY DEF Flush, RequestBytes
  <1>4. cumulation' = cumulation
    BY DEF Flush
  <1> HIDE DEF b
  <1>5. (cumulation \o toServer) \o b = cumulation \o (toServer \o b)
    BY <1>1, <1>2, ConcatAssociative
  <1>6. Stream' = Stream \/ Stream' = Stream \o b
    BY <1>3, <1>4, <1>5 DEF Stream
  <1> QED BY <1>6 DEF b

LEMMA ServeStream ==
    ASSUME TypeOK, Aligned(Stream), Serve
    PROVE  /\ Len(Stream) >= 8
           /\ Stream' = Drop(Stream, 8)
           /\ Stream[1] \in Calls /\ Has(Stream, Stream[1]) /\ ~ Has(Stream', Stream[1])
           /\ toClient' = toClient \o Bytes(4, Stream[1])
  <1>1. /\ toServer \in Seq(Calls) /\ cumulation \in Seq(Calls)
        /\ Stream \in Seq(Calls)
    BY SeqTypes
  <1>2. Len(cumulation) >= 8
    BY DEF Serve, RequestBytes
  <1>a. /\ Len(Stream) = Len(cumulation) + Len(toServer)
        /\ \A i \in Nat : i >= 1 /\ i <= Len(cumulation) => Stream[i] = cumulation[i]
    BY <1>1, ConcatAt DEF Stream
  <1>b. Len(cumulation) \in Nat /\ Len(toServer) \in Nat
    BY <1>1
  <1>3. Len(Stream) >= 8 /\ \A i \in 1 .. 8 : Stream[i] = cumulation[i]
    BY <1>a, <1>b, <1>2
  <1>4. /\ \A i \in 1 .. 8 : Stream[i] = Stream[1]
        /\ ~ Has(Drop(Stream, 8), Stream[1])
    BY <1>1, <1>3, AlignedDrop
  <1>5. 8 \in 0 .. Len(cumulation)
    BY <1>1, <1>2
  <1>6. Drop(cumulation, 8) \o toServer = Drop(cumulation \o toServer, 8)
    BY <1>1, <1>5, DropConcat
  <1>7. Stream' = Drop(Stream, 8)
    BY <1>6 DEF Serve, Stream, RequestBytes
  <1>8. IntOf(cumulation, 8) = Stream[1]
    BY <1>3, <1>4 DEF IntOf
  <1>9. Stream[1] \in Calls /\ Has(Stream, Stream[1])
    BY <1>1, <1>3 DEF Has
  <1> QED BY <1>3, <1>4, <1>7, <1>8, <1>9 DEF Serve, RequestBytes, IntBytes

LEMMA StreamStep ==
    ASSUME TypeOK, Counted, StreamInv, [Next]_vars
    PROVE  StreamInv'
  <1>0. /\ toServer \in Seq(Calls) /\ cumulation \in Seq(Calls)
        /\ toClient \in Seq(Values) /\ Stream \in Seq(Calls)
        /\ caller \in [Callers -> CallerState]
    BY SeqTypes DEF TypeOK, CallerState
  <1>1. CASE StartServer \/ StartClient \/ CloseChannel \/ UNCHANGED vars
    BY <1>1 DEF StartServer, StartClient, CloseChannel, vars, wire, StreamInv, Stream,
                InFlight, SumsAreReal, CallOf
  <1>2. CASE StopServer
    <2>1. PICK n \in 0 .. Len(toClient) : toClient' = SubSeq(toClient, 1, n)
      BY <1>2 DEF StopServer
    <2>2. \A c : Has(toClient', c) => Has(toClient, c)
      BY <2>1, <1>0, HasPrefix
    <2>3. Spaced(toClient')
      BY <2>1, <1>0, SpacedPrefix DEF StreamInv
    <2>4. SumsAreReal'
      BY <2>1, <1>0, PrefixFact DEF StreamInv, SumsAreReal
    <2>5. Stream' = <<>>
      BY <1>2 DEF StopServer, Stream
    <2>6. Aligned(<<>>) /\ \A c : ~ Has(<<>>, c)
      BY DEF Aligned, Has
    <2> QED BY <1>2, <2>2, <2>3, <2>4, <2>5, <2>6
            DEF StopServer, StreamInv, InFlight, CallOf
  <1>3. ASSUME NEW t \in Callers, StartCall(t) PROVE StreamInv'
    <2>1. UNCHANGED wire
      BY <1>3 DEF StartCall
    <2>2. /\ caller'[t].calls = caller[t].calls + 1
          /\ \A u \in Callers : u # t => caller'[u] = caller[u]
      BY <1>3, <1>0 DEF StartCall
    <2>3. ASSUME NEW c \in Calls, InFlight(c)
          PROVE  /\ c[2] <= caller'[c[1]].calls
                 /\ c = <<c[1], caller'[c[1]].calls>> => caller'[c[1]].phase # "writing"
      <3>1. c[2] <= caller[c[1]].calls /\ c[1] \in Callers /\ c[2] \in Nat
        BY <2>3 DEF StreamInv, Calls
      <3>2. CASE c[1] = t
        <4>1. caller[t].calls \in Nat
          BY <1>0 DEF CallerState
        <4> QED BY <3>1, <3>2, <2>2, <4>1
      <3>3. CASE c[1] # t
        BY <2>2, <2>3, <3>1, <3>3 DEF StreamInv, CallOf
      <3> QED BY <3>2, <3>3
    <2> QED BY <2>1, <2>3 DEF wire, StreamInv, Stream, InFlight, SumsAreReal, CallOf
  <1>4. ASSUME NEW t \in Callers, Flush(t) PROVE StreamInv'
    <2> DEFINE d == CallOf(t)
    <2>1. d \in Calls /\ caller[t].phase = "writing" /\ toClient' = toClient
      BY <1>4, CallOfType DEF Flush
    <2>2. d[1] = t
      BY DEF CallOf
    <2>3. ~ Has(Stream, d) /\ ~ Has(toClient, d)
      BY <2>1, <2>2 DEF StreamInv, InFlight
    <2>4. Stream' = Stream \/ Stream' = Stream \o Bytes(8, d)
      BY <1>4, FlushStream
    <2>5. /\ d' = d /\ caller'[t].phase = "waiting" /\ caller'[t].calls = caller[t].calls
          /\ \A u \in Callers : u # t => caller'[u] = caller[u]
      BY <1>4, <1>0 DEF Flush, CallOf
    <2>a. d[2] = caller[t].calls /\ caller[t].calls \in Nat
      BY <1>0 DEF CallOf, CallerState
    <2> HIDE DEF d
    <2>6. Aligned(Stream')
      BY <2>1, <2>3, <2>4, <1>0, AlignedAppend DEF StreamInv
    <2>7. ASSUME NEW c, Has(Stream', c), c # d PROVE Has(Stream, c)
      <3>1. CASE Stream' = Stream BY <2>7, <3>1
      <3>2. CASE Stream' = Stream \o Bytes(8, d)
        <4>1. Has(Stream \o Bytes(8, d), c) BY <2>7, <3>2
        <4> QED BY <4>1, <2>1, <2>7, <1>0, HasAppend
      <3> QED BY <2>4, <3>1, <3>2
    <2>8. ASSUME NEW c \in Calls, InFlight(c)'
          PROVE  /\ c[2] <= caller'[c[1]].calls
                 /\ c = CallOf(c[1])' => caller'[c[1]].phase # "writing"
      <3>1. CASE c = d
        BY <3>1, <2>2, <2>5, <2>a
      <3>2. CASE c # d
        <4>1. InFlight(c) /\ c[1] \in Callers
          BY <3>2, <2>1, <2>7, <2>8 DEF InFlight, Calls
        <4>2. CASE c[1] = t
          BY <4>1, <4>2, <2>5 DEF StreamInv
        <4>3. CASE c[1] # t
          BY <4>1, <4>3, <2>5 DEF StreamInv, CallOf
        <4> QED BY <4>2, <4>3
      <3> QED BY <3>1, <3>2
    <2> QED BY <2>1, <2>3, <2>6, <2>7, <2>8 DEF StreamInv, SumsAreReal
  <1>5. ASSUME NEW t \in Callers, FailWrite(t) \/ Exchange(t) PROVE StreamInv'
    <2>1. UNCHANGED wire
      BY <1>5 DEF FailWrite, Exchange
    <2>a. caller' = [caller EXCEPT ![t].phase = "idle"]
      BY <1>5 DEF FailWrite, Exchange
    <2>b. /\ caller'[t].calls = caller[t].calls /\ caller'[t].phase = "idle"
          /\ \A u \in Callers : u # t => caller'[u] = caller[u]
      BY <2>a, <1>0
    <2>3. ASSUME NEW c \in Calls, InFlight(c)
          PROVE  /\ c[2] <= caller'[c[1]].calls
                 /\ c = CallOf(c[1])' => caller'[c[1]].phase # "writing"
      <3>1. c[1] \in Callers /\ c[2] <= caller[c[1]].calls
        BY <2>3 DEF StreamInv, Calls
      <3>2. CASE c[1] = t
        BY <2>b, <3>1, <3>2
      <3>3. CASE c[1] # t
        BY <2>b, <2>3, <3>1, <3>3 DEF StreamInv, CallOf
      <3> QED BY <3>2, <3>3
    <2> QED BY <2>1, <2>3 DEF wire, StreamInv, Stream, InFlight, SumsAreReal
  <1>6. ASSUME NEW n \in 1 .. Len(toClient), Read(n) PROVE StreamInv'
    <2>1. toClient' = Drop(toClient, n) /\ Stream' = Stream /\ caller' = caller
      BY <1>6 DEF Read, Stream
    <2>2. n \in 0 .. Len(toClient)
      BY <1>0
    <2>3. \A c : Has(toClient', c) => Has(toClient, c)
      BY <2>1, <2>2, <1>0, HasDrop
    <2>4. Spaced(toClient')
      BY <2>1, <2>2, <1>0, SpacedDrop DEF StreamInv
    <2>5. SumsAreReal'
      <3> DEFINE d == Drop(toClient, n)
      <3>1. /\ Len(d) = Len(toClient) - n
            /\ \A i \in 1 .. Len(toClient) - n : d[i] = toClient[i + n]
        BY <2>2, <1>0, DropFact
      <3> HIDE DEF d
      <3>2. \A i \in 1 .. Len(d) : i + n \in 1 .. Len(toClient) /\ d[i] = toClient[i + n]
        BY <3>1, <1>0
      <3>3. \A i \in 1 .. Len(d) : d[i] # Garbage
        BY <3>2 DEF StreamInv, SumsAreReal
      <3>4. toClient' = d
        BY <2>1 DEF d
      <3> QED BY <3>3, <3>4 DEF SumsAreReal
    <2> QED BY <2>1, <2>3, <2>4, <2>5 DEF StreamInv, InFlight, CallOf
  <1>7. ASSUME NEW n \in 1 .. Len(toServer), Receive(n) PROVE StreamInv'
    <2>1. Stream' = Stream
      BY <1>7, ReceiveStream
    <2> QED BY <1>7, <2>1 DEF Receive, StreamInv, InFlight, SumsAreReal, CallOf
  <1>8. CASE Serve
    <2> DEFINE d == Stream[1]
    <2>1. /\ Len(Stream) >= 8 /\ Stream' = Drop(Stream, 8)
          /\ d \in Calls /\ Has(Stream, d) /\ ~ Has(Stream', d)
          /\ toClient' = toClient \o Bytes(4, d)
      BY <1>8, ServeStream DEF StreamInv
    <2>2. caller' = caller
      BY <1>8 DEF Serve
    <2> HIDE DEF d
    <2>3. Aligned(Stream')
      BY <2>1, <1>0, AlignedDrop DEF StreamInv
    <2>4. ~ Has(toClient, d) /\ d \in Values
      BY <2>1 DEF StreamInv, Values
    <2>5. Spaced(toClient')
      BY <2>1, <2>4, <1>0, SpacedAppend DEF StreamInv
    <2>6. 8 \in 0 .. Len(Stream)
      BY <2>1, <1>0
    <2>7. \A c : Has(Stream', c) => Has(Stream, c)
      BY <2>1, <2>6, <1>0, HasDrop
    <2>8. \A c : Has(toClient', c) => Has(toClient, c) \/ c = d
      BY <2>1, <2>4, <1>0, HasAppend
    <2>9. SumsAreReal'
      <3>1. ~ Has(toClient, Garbage)
        BY DEF StreamInv, SumsAreReal, Has
      <3>2. d # Garbage
        BY <2>1, NettyAssumption
      <3>3. ~ Has(toClient', Garbage)
        BY <2>8, <3>1, <3>2
      <3> QED BY <3>3 DEF SumsAreReal, Has
    <2> QED BY <2>1, <2>2, <2>3, <2>5, <2>7, <2>8, <2>9
            DEF StreamInv, InFlight, CallOf
  <1> QED BY <1>1, <1>2, <1>3, <1>4, <1>5, <1>6, <1>7, <1>8 DEF Next, Network

-----------------------------------------------------------------------------
(* Mixed-up answers *)

SomeOrphan == \E t \in Callers : Orphaned(t)

AnswerInv ==
    (* While bytes of a call are on their way its caller waits for them, and *)
    (* the loop does not yet hold its answer; or somebody is orphaned.       *)
    /\ \A c \in Calls : InFlight(c) =>
          \/ SomeOrphan
          \/ c = CallOf(c[1]) /\ caller[c[1]].phase = "waiting" /\ loop.on # c
    /\ \A c \in Calls : Wrong(c) => SomeOrphan
    /\ loop.on # NoCall /\ loop.value # loop.on => SomeOrphan

(* Once orphaned, a caller stays so. *)
LEMMA OrphanStep ==
    ASSUME TypeOK, Counted, [Next]_vars, NEW t \in Callers, Orphaned(t)
    PROVE  Orphaned(t)'
  <1>0. caller \in [Callers -> CallerState] /\ CallOf(t) # NoCall
    BY CallOfType, NettyAssumption DEF TypeOK, CallerState, Orphaned, Values
  <1>1. CASE StartServer \/ StartClient \/ StopServer \/ CloseChannel \/ UNCHANGED vars
    BY <1>1 DEF StartServer, StartClient, StopServer, CloseChannel, vars, Orphaned, CallOf
  <1>2. ASSUME NEW u \in Callers, StartCall(u) PROVE Orphaned(t)'
    <2>1. u # t
      BY <1>2 DEF StartCall, Orphaned
    <2>2. caller'[t] = caller[t]
      BY <1>2, <2>1, <1>0 DEF StartCall
    <2>3. exchanger' # CallOf(t)'
      BY <1>2, <2>1 DEF StartCall, CallOf
    <2> QED BY <1>2, <2>2, <2>3 DEF StartCall, Orphaned, CallOf
  <1>3. ASSUME NEW u \in Callers, Flush(u) \/ FailWrite(u) \/ Exchange(u)
        PROVE  Orphaned(t)'
    <2>1. u # t
      BY <1>3 DEF Flush, FailWrite, Exchange, Orphaned
    <2>2. caller'[t] = caller[t]
      BY <1>3, <2>1, <1>0 DEF Flush, FailWrite, Exchange
    <2>3. exchanger' = exchanger /\ (loop' = loop \/ loop' = Free)
      BY <1>3 DEF Flush, FailWrite, Exchange
    <2>4. loop'.on # CallOf(t)
      BY <2>3, <1>0 DEF Orphaned, Free
    <2> QED BY <2>2, <2>3, <2>4 DEF Orphaned, CallOf
  <1>4. ASSUME NEW n \in 1 .. Len(toClient), Read(n) PROVE Orphaned(t)'
    <2>1. loop' = loop \/ loop' = [on |-> exchanger, value |-> IntOf(toClient, IntBytes)]
      BY <1>4 DEF Read
    <2> QED BY <1>4, <2>1 DEF Read, Orphaned, CallOf
  <1>5. ASSUME NEW n \in 1 .. Len(toServer), Receive(n) PROVE Orphaned(t)'
    BY <1>5 DEF Receive, Orphaned, CallOf
  <1>6. CASE Serve
    BY <1>6 DEF Serve, Orphaned, CallOf
  <1> QED BY <1>1, <1>2, <1>3, <1>4, <1>5, <1>6 DEF Next, Network

(* No new bytes but those of a write, none back in flight. *)
LEMMA FlightStep ==
    ASSUME TypeOK, Counted, StreamInv, [Next]_vars,
           NEW c \in Calls, InFlight(c)',
           \A t \in Callers : ~ (Flush(t) /\ c = CallOf(t))
    PROVE  InFlight(c)
  <1>0. /\ toClient \in Seq(Values) /\ Stream \in Seq(Calls)
    BY SeqTypes
  <1>1. CASE UNCHANGED wire
    BY <1>1 DEF wire, Stream, InFlight
  <1>2. CASE StopServer
    <2>1. PICK n \in 0 .. Len(toClient) : toClient' = SubSeq(toClient, 1, n)
      BY <1>2 DEF StopServer
    <2>2. ~ Has(Stream', c)
      BY <1>2 DEF StopServer, Stream, Has
    <2> QED BY <2>1, <2>2, <1>0, HasPrefix DEF InFlight
  <1>3. ASSUME NEW t \in Callers, Flush(t) PROVE InFlight(c)
    <2>1. c # CallOf(t) /\ CallOf(t) \in Calls /\ toClient' = toClient
      BY <1>3, CallOfType DEF Flush
    <2>2. Stream' = Stream \/ Stream' = Stream \o Bytes(8, CallOf(t))
      BY <1>3, FlushStream
    <2>3. ASSUME Has(Stream', c) PROVE Has(Stream, c)
      <3>1. CASE Stream' = Stream BY <2>3, <3>1
      <3>2. CASE Stream' = Stream \o Bytes(8, CallOf(t))
        <4>1. Has(Stream \o Bytes(8, CallOf(t)), c) BY <2>3, <3>2
        <4> QED BY <4>1, <2>1, <1>0, HasAppend
      <3> QED BY <2>2, <3>1, <3>2
    <2> QED BY <2>1, <2>3 DEF InFlight
  <1>4. ASSUME NEW n \in 1 .. Len(toClient), Read(n) PROVE InFlight(c)
    <2>1. toClient' = Drop(toClient, n) /\ Stream' = Stream /\ n \in 0 .. Len(toClient)
      BY <1>4, <1>0 DEF Read, Stream
    <2> QED BY <2>1, <1>0, HasDrop DEF InFlight
  <1>5. ASSUME NEW n \in 1 .. Len(toServer), Receive(n) PROVE InFlight(c)
    <2>1. Stream' = Stream /\ toClient' = toClient
      BY <1>5, ReceiveStream DEF Receive
    <2> QED BY <2>1 DEF InFlight
  <1>6. CASE Serve
    <2> DEFINE d == Stream[1]
    <2>1. /\ Len(Stream) >= 8 /\ Stream' = Drop(Stream, 8)
          /\ d \in Calls /\ Has(Stream, d)
          /\ toClient' = toClient \o Bytes(4, d)
      BY <1>6, ServeStream DEF StreamInv
    <2> HIDE DEF d
    <2>2. 8 \in 0 .. Len(Stream) /\ d \in Values
      BY <2>1, <1>0 DEF Values
    <2>3. Has(Stream', c) => Has(Stream, c)
      BY <2>1, <2>2, <1>0, HasDrop
    <2>4. Has(toClient', c) => Has(toClient, c) \/ c = d
      BY <2>1, <2>2, <1>0, HasAppend
    <2> QED BY <2>1, <2>3, <2>4 DEF InFlight
  <1>7. ASSUME NEW t \in Callers, StartCall(t) \/ FailWrite(t) \/ Exchange(t)
        PROVE  UNCHANGED wire
    BY <1>7 DEF StartCall, FailWrite, Exchange
  <1>8. CASE StartServer \/ StartClient \/ CloseChannel \/ UNCHANGED vars
    BY <1>1, <1>8 DEF StartServer, StartClient, CloseChannel, vars, wire
  <1> QED BY <1>1, <1>2, <1>3, <1>4, <1>5, <1>6, <1>7, <1>8 DEF Next, Network

(* What the event loop takes from a read, when nobody is orphaned yet. *)
LEMMA ReadAnswer ==
    ASSUME TypeOK, Counted, StreamInv, AnswerInv, ~ SomeOrphan,
           NEW n \in 1 .. Len(toClient), Read(n), ~ SomeOrphan'
    PROVE  AnswerInv'
  <1>0. /\ toClient \in Seq(Values) /\ Stream \in Seq(Calls)
        /\ caller \in [Callers -> CallerState]
    BY SeqTypes DEF TypeOK, CallerState
  <1>1. /\ caller' = caller /\ answer' = answer /\ exchanger' = exchanger
        /\ Stream' = Stream /\ toClient' = Drop(toClient, n)
        /\ n \in 0 .. Len(toClient)
    BY <1>0 DEF Read, Stream
  <1>2. \A c \in Calls : ~ Wrong(c)'
    BY <1>1 DEF AnswerInv, Wrong
  <1>3. ASSUME NEW c \in Calls, InFlight(c)
        PROVE  c[1] \in Callers /\ c = CallOf(c[1]) /\ caller[c[1]].phase = "waiting"
    BY <1>3 DEF AnswerInv, Calls
  <1>4. ASSUME NEW c \in Calls, InFlight(c), loop'.on # c
        PROVE  exchanger = c
    <2>1. Orphaned(c[1])' \/ exchanger = c
      BY <1>1, <1>3, <1>4 DEF Orphaned, CallOf
    <2> QED BY <2>1, <1>3, <1>4 DEF SomeOrphan
  <1>5. \A c \in Calls : InFlight(c)' => InFlight(c)
    <2>1. \A c : Has(toClient', c) => Has(toClient, c)
      BY <1>0, <1>1, HasDrop
    <2> QED BY <1>1, <2>1 DEF InFlight
  <1>6. CASE n < IntBytes
    <2>1. loop' = loop
      BY <1>6 DEF Read
    <2> QED BY <1>1, <1>2, <1>5, <2>1 DEF AnswerInv, CallOf
  <1>7. CASE ~ (n < IntBytes)
    <2> DEFINE v == IntOf(toClient, IntBytes)
    <2>1. loop' = [on |-> exchanger, value |-> v]
      BY <1>7 DEF Read
    <2>2. loop'.on = exchanger /\ loop'.value = v
      BY <2>1
    <2>3. n \in 4 .. Len(toClient)
      BY <1>7, <1>0 DEF IntBytes
    <2>4. ASSUME NEW i \in 1 .. 4 PROVE toClient[i] = exchanger
      <3>1. i \in 1 .. Len(toClient)
        BY <2>3, <1>0
      <3>2. toClient[i] \in Values /\ toClient[i] # Garbage
        BY <3>1, <1>0 DEF StreamInv, SumsAreReal
      <3>3. toClient[i] \in Calls /\ Has(toClient, toClient[i])
        BY <3>1, <3>2 DEF Values, Has
      <3>4. InFlight(toClient[i])
        BY <3>3 DEF InFlight
      <3> QED BY <1>4, <2>2, <3>3, <3>4
    <2>5. v = exchanger /\ toClient[1] = exchanger
      BY <2>4 DEF IntOf, IntBytes
    <2>6. \A i \in 1 .. 4 : toClient[i] = toClient[1]
      BY <2>4
    <2>7. ~ Has(toClient', exchanger)
      <3>1. ~ Has(Drop(toClient, n), toClient[1])
        BY <2>3, <2>6, <1>0, SpacedRead DEF StreamInv
      <3> QED BY <3>1, <2>5, <1>1
    <2>8. exchanger \in Calls /\ Has(toClient, exchanger)
      <3>1. 1 \in 1 .. Len(toClient)
        BY <2>3, <1>0
      <3>2. toClient[1] \in Values /\ toClient[1] # Garbage
        BY <3>1, <1>0 DEF StreamInv, SumsAreReal
      <3> QED BY <3>1, <3>2, <2>5 DEF Values, Has
    <2>9. ~ Has(Stream', exchanger)
      BY <2>8, <1>1 DEF StreamInv
    <2>10. ASSUME NEW c \in Calls, InFlight(c)'
           PROVE  c = CallOf(c[1])' /\ caller'[c[1]].phase = "waiting" /\ loop'.on # c
      <3>1. c # exchanger
        BY <2>7, <2>9, <2>10 DEF InFlight
      <3> QED BY <3>1, <2>2, <2>10, <1>1, <1>3, <1>5 DEF CallOf
    <2> QED BY <2>2, <2>5, <2>10, <1>2 DEF AnswerInv
  <1> QED BY <1>6, <1>7

LEMMA AnswerStep ==
    ASSUME TypeOK, Counted, StreamInv, AnswerInv, [Next]_vars
    PROVE  AnswerInv'
  <1>0. caller \in [Callers -> CallerState]
    BY DEF TypeOK, CallerState
  <1>1. CASE SomeOrphan'
    BY <1>1 DEF AnswerInv
  <1>2. CASE ~ SomeOrphan'
    <2>1. ~ SomeOrphan
      BY <1>2, OrphanStep DEF SomeOrphan
    <2>2. /\ \A c \in Calls : ~ Wrong(c)
          /\ \A c \in Calls : InFlight(c) =>
                c = CallOf(c[1]) /\ caller[c[1]].phase = "waiting" /\ loop.on # c
          /\ loop.on # NoCall => loop.value = loop.on
      BY <2>1 DEF AnswerInv
    <2>3. CASE UNCHANGED <<caller, loop, answer>>
      <3>1. ASSUME NEW t \in Callers, Flush(t) PROVE FALSE
        <4>1. caller'[t].phase = "waiting" /\ caller[t].phase = "writing"
          BY <3>1, <1>0 DEF Flush
        <4> QED BY <4>1, <2>3
      <3>2. \A c \in Calls : InFlight(c)' => InFlight(c)
        BY <3>1, FlightStep
      <3> QED BY <2>2, <2>3, <3>2 DEF AnswerInv, CallOf, Wrong
    <2>4. ASSUME NEW t \in Callers, StartCall(t) \/ FailWrite(t) PROVE AnswerInv'
      <3>1. /\ \A u \in Callers : u # t => caller'[u] = caller[u]
            /\ caller[t].phase # "waiting" /\ caller'[t].phase # "waiting"
            /\ loop' = loop /\ answer' = answer /\ UNCHANGED wire
        <4>1. CASE StartCall(t)
          <5>1. caller[t].phase = "idle" /\ caller'[t].phase = "writing"
            BY <4>1, <1>0 DEF StartCall
          <5> QED BY <5>1, <4>1, <1>0 DEF StartCall
        <4>2. CASE FailWrite(t)
          <5>1. caller[t].phase = "writing" /\ caller'[t].phase = "idle"
            BY <4>2, <1>0 DEF FailWrite
          <5> QED BY <5>1, <4>2, <1>0 DEF FailWrite
        <4> QED BY <2>4, <4>1, <4>2
      <3>2. ASSUME NEW c \in Calls, InFlight(c)'
            PROVE  c = CallOf(c[1])' /\ caller'[c[1]].phase = "waiting" /\ loop'.on # c
        <4>1. InFlight(c) /\ c[1] \in Callers
          BY <3>1, <3>2 DEF wire, InFlight, Stream, Calls
        <4>2. c[1] # t
          BY <4>1, <2>2, <3>1
        <4> QED BY <4>1, <4>2, <3>1, <2>2 DEF CallOf
      <3> QED BY <2>2, <3>1, <3>2 DEF AnswerInv, Wrong
    <2>5. ASSUME NEW t \in Callers, Flush(t) PROVE AnswerInv'
      <3>1. /\ \A u \in Callers : u # t => caller'[u] = caller[u]
            /\ caller'[t].phase = "waiting" /\ caller'[t].calls = caller[t].calls
            /\ loop' = loop /\ answer' = answer /\ loop.on = NoCall
        BY <2>5, <1>0 DEF Flush, LoopIsFree
      <3>2. ASSUME NEW c \in Calls, InFlight(c)'
            PROVE  c = CallOf(c[1])' /\ caller'[c[1]].phase = "waiting" /\ loop'.on # c
        <4>1. c[1] \in Callers /\ c # NoCall
          BY NettyAssumption DEF Calls, Values
        <4>2. CASE c = CallOf(t)
          BY <4>1, <4>2, <3>1 DEF CallOf
        <4>3. CASE c # CallOf(t)
          <5>1. \A u \in Callers : ~ (Flush(u) /\ c = CallOf(u))
            <6>1. ASSUME NEW u \in Callers, Flush(u) PROVE u = t
              <7>1. caller'[u].phase = "waiting" /\ caller[u].phase = "writing"
                BY <6>1, <1>0 DEF Flush
              <7> QED BY <7>1, <3>1
            <6> QED BY <6>1, <4>3
          <5>2. InFlight(c)
            BY <5>1, <3>2, FlightStep
          <5>3. c = CallOf(c[1]) /\ caller[c[1]].phase = "waiting"
            BY <5>2, <2>2
          <5> QED BY <5>3, <4>1, <3>1 DEF CallOf
        <4> QED BY <4>2, <4>3
      <3> QED BY <2>2, <3>1, <3>2 DEF AnswerInv, Wrong
    <2>6. ASSUME NEW t \in Callers, Exchange(t) PROVE AnswerInv'
      <3>1. /\ \A u \in Callers : u # t => caller'[u] = caller[u]
            /\ caller[t].phase = "waiting" /\ loop.on = CallOf(t) /\ loop'.on = NoCall
            /\ answer' = [answer EXCEPT ![CallOf(t)] = loop.value] /\ UNCHANGED wire
        BY <2>6, <1>0 DEF Exchange, Free
      <3>2. CallOf(t) \in Calls
        BY <3>1, CallOfType
      <3>3. loop.value = CallOf(t)
        BY <2>2, <3>1, <3>2, NettyAssumption DEF Values
      <3>4. \A c \in Calls : ~ Wrong(c)'
        BY <2>2, <3>1, <3>2, <3>3 DEF Wrong, TypeOK
      <3>5. ASSUME NEW c \in Calls, InFlight(c)'
            PROVE  c = CallOf(c[1])' /\ caller'[c[1]].phase = "waiting" /\ loop'.on # c
        <4>1. InFlight(c) /\ c[1] \in Callers /\ c # NoCall
          BY <3>1, <3>5, NettyAssumption DEF wire, InFlight, Stream, Calls, Values
        <4>2. c = CallOf(c[1]) /\ caller[c[1]].phase = "waiting" /\ loop.on # c
          BY <4>1, <2>2
        <4>3. c[1] # t
          BY <4>2, <3>1
        <4> QED BY <4>1, <4>2, <4>3, <3>1 DEF CallOf
      <3> QED BY <3>1, <3>4, <3>5 DEF AnswerInv
    <2>7. ASSUME NEW n \in 1 .. Len(toClient), Read(n) PROVE AnswerInv'
      BY <2>7, <2>1, <1>2, ReadAnswer
    <2>8. ASSUME \/ StartServer \/ StartClient \/ StopServer \/ CloseChannel
                 \/ UNCHANGED vars \/ Serve
                 \/ \E n \in 1 .. Len(toServer) : Receive(n)
          PROVE  UNCHANGED <<caller, loop, answer>>
      BY <2>8 DEF StartServer, StartClient, StopServer, CloseChannel, vars, Serve, Receive
    <2> QED BY <2>3, <2>4, <2>5, <2>6, <2>7, <2>8 DEF Next, Network
  <1> QED BY <1>1, <1>2

-----------------------------------------------------------------------------
(* The theorems *)

IInv == TypeOK /\ Counted /\ StreamInv /\ AnswerInv

(* The inductive invariant holds. *)
THEOREM Invariance == Spec => []IInv
  <1>1. Init => IInv
    <2> SUFFICES ASSUME Init PROVE IInv
      OBVIOUS
    <2>1. TypeOK /\ Counted
      BY NettyAssumption DEF Init, TypeOK, Counted, States, Free, Calls, Values
    <2>2. Stream = <<>> /\ toClient = <<>>
      BY DEF Init, Stream
    <2>3. Aligned(<<>>) /\ Spaced(<<>>) /\ \A c : ~ Has(<<>>, c)
      BY DEF Aligned, Spaced, Has
    <2>4. StreamInv
      BY <2>2, <2>3 DEF StreamInv, InFlight, SumsAreReal
    <2>5. AnswerInv
      BY <2>2, <2>3 DEF AnswerInv, InFlight, Init, Free, Wrong
    <2> QED BY <2>1, <2>4, <2>5 DEF IInv
  <1>2. IInv /\ [Next]_vars => IInv'
    BY TypeStep, StreamStep, AnswerStep DEF IInv
  <1> QED BY <1>1, <1>2, PTL DEF Spec

(* Type correctness. *)
THEOREM TypeCorrect == Spec => []TypeOK
  BY Invariance, PTL DEF IInv

(* The server never adds parts of two requests, however TCP cuts them. *)
THEOREM SumsReal == Spec => []SumsAreReal
  BY Invariance, PTL DEF IInv, StreamInv

(* For every wrong answer some caller of addNumbers waits in vain ... *)
THEOREM WrongCostsACaller == Spec => []MixUpsHang
  <1>1. IInv => MixUpsHang
    BY DEF IInv, AnswerInv, SomeOrphan, MixUpsHang
  <1> QED BY <1>1, Invariance, PTL

(* ... for ever. *)
THEOREM OrphansForEver == Spec => OrphansStay
  <1>1. IInv /\ [Next]_vars => [\A t \in Callers : Orphaned(t) => Orphaned(t)']_vars
    BY OrphanStep DEF IInv
  <1> QED BY <1>1, Invariance, PTL DEF Spec, OrphansStay

-----------------------------------------------------------------------------
(* One caller: nobody can replace its exchanger. *)

OneCaller == \A t, u \in Callers : t = u

FieldIsOwn ==
    \A t \in Callers : caller[t].phase # "idle" => exchanger = CallOf(t)

(* One caller at a time gets its own sum, whatever TCP does. *)
THEOREM SerialOwnSum == OneCaller => (Spec => []OwnSum)
  <1> SUFFICES ASSUME OneCaller PROVE Spec => []OwnSum
    OBVIOUS
  <1>1. Init => FieldIsOwn
    BY DEF Init, FieldIsOwn
  <1>2. IInv /\ FieldIsOwn /\ [Next]_vars => FieldIsOwn'
    <2> SUFFICES ASSUME IInv, FieldIsOwn, [Next]_vars, NEW t \in Callers,
                        caller'[t].phase # "idle"
                 PROVE  exchanger' = CallOf(t)'
      BY DEF FieldIsOwn
    <2>0. caller \in [Callers -> CallerState]
      BY DEF IInv, TypeOK, CallerState
    <2>1. CASE StartCall(t)
      BY <2>1 DEF StartCall
    <2>2. CASE Flush(t)
      <3>1. caller'[t].calls = caller[t].calls /\ caller[t].phase = "writing"
        BY <2>2, <2>0 DEF Flush
      <3> QED BY <2>2, <3>1 DEF Flush, FieldIsOwn, CallOf
    <2>3. CASE FailWrite(t) \/ Exchange(t)
      <3>1. caller' = [caller EXCEPT ![t].phase = "idle"]
        BY <2>3 DEF FailWrite, Exchange
      <3>2. caller'[t].phase = "idle"
        BY <3>1, <2>0 DEF CallerState
      <3> QED BY <3>2
    <2>4. CASE UNCHANGED <<caller, exchanger>>
      BY <2>4 DEF FieldIsOwn, CallOf
    <2>5. ASSUME \/ StartServer \/ StartClient \/ StopServer \/ CloseChannel
                 \/ UNCHANGED vars \/ Serve
                 \/ \E n \in 1 .. Len(toServer) : Receive(n)
                 \/ \E n \in 1 .. Len(toClient) : Read(n)
          PROVE  UNCHANGED <<caller, exchanger>>
      BY <2>5 DEF StartServer, StartClient, StopServer, CloseChannel, vars, Serve,
                  Receive, Read
    <2> QED BY <2>1, <2>2, <2>3, <2>4, <2>5, OneCaller DEF Next, Network, OneCaller
  <1>3. IInv /\ FieldIsOwn => OwnSum
    BY DEF IInv, AnswerInv, SomeOrphan, Orphaned, FieldIsOwn, OwnSum
  <1> QED BY <1>1, <1>2, <1>3, Invariance, PTL DEF Spec
=============================================================================
