------------------------ MODULE BrowserWindowProofs ------------------------
(***************************************************************************)
(* Theorems about BrowserWindow for any number of inputs, elements, timers,*)
(* requests, cookies, listeners, segments of a path and classes of         *)
(* elements: each of the modules keeps what a page relies on, and the      *)
(* steps of the others do not touch its variables.                         *)
(***************************************************************************)
EXTENDS BrowserWindow, Integers, SequenceTheorems, FiniteSetTheorems,
        WellFoundedInduction, TLAPS

(* What a step of the window is to the module that runs.                   *)
LEMMA OneRuns ==
  ASSUME [WindowNext]_all
  PROVE  /\ running' = running
         /\ running = "forms" => Forms!Next \/ UNCHANGED inputs
         /\ running = "select" => Choosing!Next \/ UNCHANGED options
         /\ running = "insertion" => Insertion!Next \/ UNCHANGED page
         /\ running = "timers" => Timers!Next \/ UNCHANGED clock
         /\ running = "requests" => Exchanges!Next \/ UNCHANGED exchange
         /\ running = "cookies" => Cookies!Next \/ UNCHANGED jar
         /\ running = "events" => Events!Next \/ UNCHANGED listening
         /\ running = "urls" => Addresses!Next \/ UNCHANGED location
         /\ running = "reflection" => Reflection!Next \/ UNCHANGED reflected
<1>1. CASE WindowNext
  BY <1>1 DEF WindowNext
<1>2. CASE UNCHANGED all
  BY <1>2 DEF all
<1> QED BY <1>1, <1>2

-----------------------------------------------------------------------------
(* Inputs                                                                  *)

Input ==
    [attribute : Values \cup {None}, _value : Values \cup {None}, _dirty : BOOLEAN,
     meant : Values \cup {None}, marked : BOOLEAN,
     _checked : {"null", "true", "false"}, wanted : {"null", "true", "false"}]

(* What the page meant is what the element keeps, and it means nothing     *)
(* before the attribute was taken over.                                    *)
Kept(input) ==
    /\ ~input._dirty => input.meant = None
    /\ input.meant # None => input._value = input.meant
    /\ input.wanted # "null" => input._checked = input.wanted

FormsInv == inputs \in [Inputs -> Input] /\ \A i \in Inputs : Kept(inputs[i])

LEMMA FormsInit == ASSUME Forms!Init PROVE FormsInv
  BY DEF Forms!Init, Forms!NewInput, FormsInv, Input, Kept

(* A step gives one input a new state.                                     *)
LEMMA OneInput ==
  ASSUME FormsInv, NEW i \in Inputs, NEW input \in Input, Kept(input),
         inputs' = [inputs EXCEPT ![i] = input]
  PROVE  FormsInv'
  BY DEF FormsInv

LEMMA FormsStep ==
  ASSUME FormsInv, Forms!Next
  PROVE  FormsInv'
<1>1. PICK i \in Inputs :
          \/ Forms!RemoveAttribute(i) \/ Forms!ReadChecked(i)
          \/ \E v \in Values : \/ Forms!SetAttribute(i, v) \/ Forms!SetDefaultValue(i, v)
                               \/ Forms!SetValue(i, v)
          \/ \E b \in BOOLEAN : Forms!SetChecked(i, b) \/ Forms!SetDefaultChecked(i, b)
  BY DEF Forms!Next
<1>2. inputs \in [Inputs -> Input] /\ inputs[i] \in Input /\ Kept(inputs[i])
  BY DEF FormsInv
<1>3. CASE Forms!RemoveAttribute(i)
  <2>1. inputs' = [inputs EXCEPT ![i] = [inputs[i] EXCEPT !.attribute = None]]
    BY <1>2, <1>3 DEF Forms!RemoveAttribute
  <2>2. [inputs[i] EXCEPT !.attribute = None] \in Input
        /\ Kept([inputs[i] EXCEPT !.attribute = None])
    BY <1>2 DEF Input, Kept
  <2> QED BY <2>1, <2>2, OneInput
<1>4. CASE Forms!ReadChecked(i)
  <2> DEFINE input == [inputs[i] EXCEPT !._checked = Forms!CheckedOf(i)]
  <2>1. inputs' = [inputs EXCEPT ![i] = input]
    BY <1>2, <1>4 DEF Forms!ReadChecked
  <2>2. input \in Input /\ Kept(input)
    BY <1>2 DEF Input, Kept, Forms!CheckedOf, Forms!Truth
  <2> QED BY <2>1, <2>2, OneInput
<1>5. ASSUME NEW v \in Values, Forms!SetAttribute(i, v) PROVE FormsInv'
  <2> DEFINE input == IF inputs[i]._dirty THEN [inputs[i] EXCEPT !.attribute = v]
                      ELSE [inputs[i] EXCEPT !.attribute = v, !._value = v, !._dirty = TRUE]
  <2>1. inputs' = [inputs EXCEPT ![i] = input]
    BY <1>5 DEF Forms!SetAttribute
  <2>2. input \in Input /\ Kept(input)
    BY <1>2 DEF Input, Kept
  <2> QED BY <2>1, <2>2, OneInput
<1>6. ASSUME NEW v \in Values, Forms!SetDefaultValue(i, v) PROVE FormsInv'
  <2> DEFINE input == [inputs[i] EXCEPT !._dirty = TRUE, !.attribute = v]
  <2>1. inputs' = [inputs EXCEPT ![i] = input]
    BY <1>6 DEF Forms!SetDefaultValue
  <2>2. input \in Input /\ Kept(input)
    BY <1>2 DEF Input, Kept
  <2> QED BY <2>1, <2>2, OneInput
<1>7. ASSUME NEW v \in Values, Forms!SetValue(i, v) PROVE FormsInv'
  <2> DEFINE input == [inputs[i] EXCEPT !._value = v,
                                        !.meant = IF inputs[i]._dirty THEN v ELSE None]
  <2>1. inputs' = [inputs EXCEPT ![i] = input]
    BY <1>7 DEF Forms!SetValue
  <2>2. input \in Input /\ Kept(input)
    BY <1>2 DEF Input, Kept
  <2> QED BY <2>1, <2>2, OneInput
<1>8. ASSUME NEW b \in BOOLEAN, Forms!SetChecked(i, b) PROVE FormsInv'
  <2> DEFINE input == [inputs[i] EXCEPT !._checked = Forms!Truth(b),
                                        !.wanted = Forms!Truth(b)]
  <2>1. inputs' = [inputs EXCEPT ![i] = input]
    BY <1>8 DEF Forms!SetChecked
  <2>2. input \in Input /\ Kept(input)
    BY <1>2 DEF Input, Kept, Forms!Truth
  <2> QED BY <2>1, <2>2, OneInput
<1>9. ASSUME NEW b \in BOOLEAN, Forms!SetDefaultChecked(i, b) PROVE FormsInv'
  <2> DEFINE input == [inputs[i] EXCEPT !.marked = b]
  <2>1. inputs' = [inputs EXCEPT ![i] = input]
    BY <1>2, <1>9 DEF Forms!SetDefaultChecked
  <2>2. input \in Input /\ Kept(input)
    BY <1>2 DEF Input, Kept
  <2> QED BY <2>1, <2>2, OneInput
<1> QED BY <1>1, <1>3, <1>4, <1>5, <1>6, <1>7, <1>8, <1>9

(* Whatever becomes of the attributes of an input and whoever reads it, it *)
(* shows the value and the checkedness that the page wrote into it.        *)
THEOREM InputsKeepTheirValues == WindowSpec => []PageDecides
<1> DEFINE Inv == running = "forms" => FormsInv
<1>1. WindowInit => Inv
  BY FormsInit DEF WindowInit
<1>2. Inv /\ [WindowNext]_all => Inv'
  <2> SUFFICES ASSUME Inv, [WindowNext]_all, running' = "forms" PROVE FormsInv'
    OBVIOUS
  <2>1. running = "forms" /\ (Forms!Next \/ UNCHANGED inputs)
    BY OneRuns
  <2>2. CASE UNCHANGED inputs
    BY <2>1, <2>2 DEF FormsInv
  <2> QED BY <2>1, <2>2, FormsStep
<1>3. Inv => PageDecides
  <2> SUFFICES ASSUME FormsInv PROVE Forms!PageDecides
    BY DEF PageDecides
  <2> QED BY DEF FormsInv, Kept, Input, Forms!PageDecides, Forms!ValueOf, Forms!CheckedOf
<1> QED BY <1>1, <1>2, <1>3, PTL DEF WindowSpec

-----------------------------------------------------------------------------
(* Elements that load what they refer to                                   *)

Element ==
    [kind : Kinds \cup {"none"}, addressed : BOOLEAN, place : Insertion!Places \cup {"none"},
     by : {"none", "parser", "appendChild", "insertBefore", "innerHTML"},
     loads : Nat, puts : Nat, sets : Nat, early : BOOLEAN]

(* What the record of an element says of its loads: before the element is  *)
(* put anywhere it has no place, and only an image has been loaded, and    *)
(* that when its address was written; once it is put somewhere, what       *)
(* LoadedOnce says, and that without an address only a script is loaded.   *)
Begun(r) ==
    /\ r.kind = "none" => r.puts = 0 /\ r.sets = 0 /\ r.loads = 0
    /\ r.addressed <=> r.sets > 0
    /\ r.puts = 0 => r.place = "none"
Loose(r) ==
    r.puts = 0 /\ r.sets <= 1 =>
        /\ r.loads <= 1
        /\ r.kind # "img" \/ ~r.addressed => r.loads = 0
        /\ r.kind = "img" /\ r.addressed /\ ~r.early => r.loads = 1
Placed(r) ==
    r.puts = 1 /\ r.place # "none" /\ r.sets <= 1 =>
        /\ r.loads <= 1
        /\ r.kind # "script" /\ ~r.addressed => r.loads = 0
        /\ ~r.early /\ r.by # "insertBefore" =>
              /\ r.kind # "script" /\ r.addressed => r.loads = 1
              /\ r.kind = "script" =>
                    r.loads = IF r.by = "parser" \/ r.place = "head" THEN 1 ELSE 0

Counted(r) == r \in Element /\ Begun(r) /\ Loose(r) /\ Placed(r)

InsertionInv ==
    /\ parsing \in BOOLEAN
    /\ element \in [Elements -> Element]
    /\ \A e \in Elements : Counted(element[e])

LEMMA InsertionInit == ASSUME Insertion!Init PROVE InsertionInv
  BY DEF Insertion!Init, Insertion!Unborn, InsertionInv, Counted, Element, Begun, Loose, Placed

(* A step gives one element a new state.                                   *)
LEMMA OneElement ==
  ASSUME InsertionInv, NEW e \in Elements, NEW r, Counted(r),
         element' = [element EXCEPT ![e] = r], parsing' = parsing
  PROVE  InsertionInv'
  BY DEF InsertionInv, Counted

(* An element that is put somewhere for the first time, with or without    *)
(* being loaded then, or once more.                                        *)
LEMMA PutElement ==
  ASSUME parsing \in BOOLEAN, NEW r, Counted(r), r.kind # "none",
         NEW place \in Insertion!Places
  PROVE  /\ Counted(Insertion!Put(r, place, "insertBefore"))
         /\ Counted([Insertion!Put(r, place, "appendChild") EXCEPT
                         !.loads = r.loads + Insertion!Count(
                             Insertion!LoadsWhenAppended(r.kind, r.addressed, place))])
<1> DEFINE loads == Insertion!Count(Insertion!LoadsWhenAppended(r.kind, r.addressed, place))
           before == Insertion!Put(r, place, "insertBefore")
           behind == [Insertion!Put(r, place, "appendChild") EXCEPT !.loads = r.loads + loads]
<1>1. /\ r \in Element /\ r.kind \in {"img", "link", "script", "iframe"}
      /\ r.puts \in Nat /\ r.sets \in Nat /\ r.loads \in Nat
  BY WindowAssumption DEF Counted, Element
<1>2. loads = IF Insertion!LoadsWhenAppended(r.kind, r.addressed, place) THEN 1 ELSE 0
  BY DEF Insertion!Count
<1> DEFINE early == r.early \/ parsing
<1>3. /\ loads \in Nat /\ r.loads + loads \in Nat /\ r.puts + 1 \in Nat
      /\ early \in BOOLEAN /\ (~early => ~r.early /\ ~parsing)
  BY <1>1, <1>2
<1> DEFINE begun == Insertion!Put(r, place, "appendChild")
<1>4. /\ before = [r EXCEPT !.place = place, !.by = "insertBefore",
                            !.puts = r.puts + 1, !.early = early]
      /\ begun = [r EXCEPT !.place = place, !.by = "appendChild",
                           !.puts = r.puts + 1, !.early = early]
      /\ behind = [begun EXCEPT !.loads = r.loads + loads]
  BY DEF Insertion!Put
<1> HIDE DEF loads, before, behind, begun, early
<1>5. /\ before \in Element /\ before.puts = r.puts + 1 /\ before.place = place
      /\ before.by = "insertBefore" /\ before.loads = r.loads /\ before.kind = r.kind
      /\ before.addressed = r.addressed /\ before.sets = r.sets
  BY <1>1, <1>3, <1>4 DEF Element
<1>6. /\ begun \in Element /\ begun.puts = r.puts + 1 /\ begun.place = place
      /\ begun.by = "appendChild" /\ begun.kind = r.kind /\ begun.early = early
      /\ begun.addressed = r.addressed /\ begun.sets = r.sets
  BY <1>1, <1>3, <1>4 DEF Element
<1>7. /\ behind \in Element /\ behind.puts = r.puts + 1 /\ behind.place = place
      /\ behind.by = "appendChild" /\ behind.loads = r.loads + loads /\ behind.kind = r.kind
      /\ behind.addressed = r.addressed /\ behind.sets = r.sets /\ behind.early = early
  BY <1>3, <1>4, <1>6 DEF Element
<1>8. Counted(before)
  BY <1>1, <1>5 DEF Counted, Begun, Loose, Placed
<1>9. Begun(behind) /\ Loose(behind)
  BY <1>1, <1>3, <1>7 DEF Counted, Begun, Loose
<1>10. Placed(behind)
  <2>1. CASE Insertion!LoadsWhenAppended(r.kind, r.addressed, place)
    BY <1>1, <1>2, <1>3, <1>7, <2>1 DEF Counted, Loose, Placed, Insertion!LoadsWhenAppended
  <2>2. CASE ~Insertion!LoadsWhenAppended(r.kind, r.addressed, place)
    BY <1>1, <1>2, <1>3, <1>7, <2>2 DEF Counted, Loose, Placed, Insertion!LoadsWhenAppended
  <2> QED BY <2>1, <2>2
<1>11. Counted(behind)
  BY <1>7, <1>9, <1>10 DEF Counted
<1> QED BY <1>8, <1>11 DEF loads, before, behind, begun

LEMMA AppendElement ==
  ASSUME InsertionInv, NEW e \in Elements, NEW place \in Insertion!Places,
         Insertion!AppendChild(e, place)
  PROVE  InsertionInv'
  BY PutElement, OneElement DEF InsertionInv, Insertion!AppendChild

(* Writing the address of an element; removing it.                         *)
LEMMA AddressElement ==
  ASSUME InsertionInv, NEW e \in Elements, Insertion!SetAddress(e)
  PROVE  InsertionInv'
<1> DEFINE r == element[e]
           loads == Insertion!Count(Insertion!LoadsWhenAddressed(r.kind, r.place))
           early == r.early \/ parsing
           s == [r EXCEPT !.addressed = TRUE, !.sets = r.sets + 1, !.early = early,
                          !.loads = r.loads + loads]
<1>1. /\ parsing \in BOOLEAN /\ r \in Element /\ Counted(r)
      /\ r.kind \in {"none", "img", "link", "script", "iframe"} /\ r.kind # "none"
      /\ r.puts \in Nat /\ r.sets \in Nat /\ r.loads \in Nat
  BY WindowAssumption DEF InsertionInv, Counted, Element, Insertion!SetAddress
<1>2. loads = IF Insertion!LoadsWhenAddressed(r.kind, r.place) THEN 1 ELSE 0
  BY DEF Insertion!Count
<1>3. /\ loads \in Nat /\ r.loads + loads \in Nat /\ r.sets + 1 \in Nat
      /\ early \in BOOLEAN /\ (~early => ~r.early /\ ~parsing)
  BY <1>1, <1>2
<1>4. element' = [element EXCEPT ![e] = s] /\ parsing' = parsing
  BY DEF Insertion!SetAddress
<1>5. /\ s \in Element /\ s.kind = r.kind /\ s.addressed = TRUE /\ s.place = r.place
      /\ s.by = r.by /\ s.loads = r.loads + loads /\ s.puts = r.puts /\ s.sets = r.sets + 1
      /\ s.early = early
  <2> HIDE DEF loads, early
  <2> QED BY <1>1, <1>3 DEF Element
<1> HIDE DEF s, loads, r, early
<1>6. CASE Insertion!LoadsWhenAddressed(r.kind, r.place)
  <2>1. /\ loads = 1
        /\ \/ r.kind = "img" /\ ~parsing
           \/ r.kind \in {"link", "iframe"} /\ r.place # "none"
    BY <1>2, <1>6 DEF Insertion!LoadsWhenAddressed
  <2>2. Begun(s) /\ Loose(s)
    BY <1>1, <1>3, <1>5, <2>1 DEF Counted, Begun, Loose
  <2>3. Placed(s)
    BY <1>1, <1>3, <1>5, <2>1 DEF Counted, Begun, Placed
  <2> QED BY <1>4, <1>5, <2>2, <2>3, OneElement DEF Counted
<1>7. CASE ~Insertion!LoadsWhenAddressed(r.kind, r.place)
  <2>1. /\ loads = 0 /\ (r.kind = "img" => parsing)
        /\ r.kind \in {"link", "iframe"} => r.place = "none"
    BY <1>2, <1>7 DEF Insertion!LoadsWhenAddressed
  <2>2. Begun(s) /\ Loose(s)
    BY <1>1, <1>3, <1>5, <2>1 DEF Counted, Begun, Loose
  <2>3. Placed(s)
    BY <1>1, <1>3, <1>5, <2>1 DEF Counted, Begun, Placed
  <2> QED BY <1>4, <1>5, <2>2, <2>3, OneElement DEF Counted
<1> QED BY <1>6, <1>7

LEMMA RemoveElement ==
  ASSUME InsertionInv, NEW e \in Elements, Insertion!RemoveChild(e)
  PROVE  InsertionInv'
<1> DEFINE s == [element[e] EXCEPT !.place = "none"]
<1>1. element' = [element EXCEPT ![e] = s] /\ parsing' = parsing
  BY DEF Insertion!RemoveChild, InsertionInv
<1>2. Counted(s)
  BY DEF InsertionInv, Counted, Element, Begun, Loose, Placed
<1> QED BY <1>1, <1>2, OneElement

(* An element that comes to be: made by a script, read by the parser or    *)
(* copied from markup.                                                     *)
LEMMA NewElement ==
  ASSUME InsertionInv, NEW e \in Elements, NEW kind \in Kinds,
         NEW addressed \in BOOLEAN, NEW place \in Insertion!Places,
         \/ Insertion!CreateElement(e, kind)
         \/ Insertion!ElementPopped(e, kind, addressed, place)
         \/ Insertion!SetInnerHTML(e, kind, addressed, place)
  PROVE  InsertionInv'
<1>1. kind \in {"img", "link", "script", "iframe"} /\ place \in {"head", "body"}
  BY WindowAssumption DEF Insertion!Places
<1>2. CASE Insertion!CreateElement(e, kind)
  <2> DEFINE s == [element[e] EXCEPT !.kind = kind]
  <2>1. element' = [element EXCEPT ![e] = s] /\ parsing' = parsing
    BY <1>2 DEF Insertion!CreateElement, InsertionInv
  <2>2. Counted(s)
    BY <1>1, <1>2 DEF Insertion!CreateElement, InsertionInv, Counted, Element, Begun, Loose, Placed
  <2> QED BY <2>1, <2>2, OneElement
<1>3. CASE Insertion!ElementPopped(e, kind, addressed, place)
  <2> DEFINE s == [kind |-> kind, addressed |-> addressed, place |-> place, by |-> "parser",
                   loads |-> IF addressed \/ kind = "script" THEN 1 ELSE 0,
                   puts |-> 1, sets |-> IF addressed THEN 1 ELSE 0, early |-> FALSE]
  <2>1. element' = [element EXCEPT ![e] = s] /\ parsing' = parsing
    BY <1>3 DEF Insertion!ElementPopped, Insertion!Count
  <2>2. Counted(s)
    BY <1>1 DEF Counted, Element, Begun, Loose, Placed, Insertion!Places
  <2> QED BY <2>1, <2>2, OneElement
<1>4. CASE Insertion!SetInnerHTML(e, kind, addressed, place)
  <2> DEFINE loads == Insertion!Count(addressed /\ Insertion!LoadsWhenAddressed(kind, "none"))
                      + Insertion!Count(Insertion!LoadsWhenAppended(kind, addressed, place))
             sets == Insertion!Count(addressed)
             begun == Insertion!Put([Insertion!Unborn EXCEPT !.kind = kind], place, "innerHTML")
             early == Insertion!Unborn.early \/ parsing
             s == [begun EXCEPT !.addressed = addressed, !.sets = sets, !.loads = loads]
  <2>1. element' = [element EXCEPT ![e] = s] /\ parsing' = parsing
    BY <1>4 DEF Insertion!SetInnerHTML
  <2>2. sets = IF addressed THEN 1 ELSE 0
    BY DEF Insertion!Count
  <2>3. loads = IF ~parsing /\ \/ kind # "script" /\ addressed
                               \/ kind = "script" /\ place = "head" THEN 1 ELSE 0
    BY <1>1 DEF Insertion!Count, Insertion!LoadsWhenAddressed, Insertion!LoadsWhenAppended
  <2>4. early \in BOOLEAN /\ (~early => ~parsing)
    BY DEF InsertionInv, Insertion!Unborn
  <2>5. begun = [[Insertion!Unborn EXCEPT !.kind = kind] EXCEPT
                    !.place = place, !.by = "innerHTML", !.puts = 1, !.early = early]
    BY DEF Insertion!Put, Insertion!Unborn
  <2>6. sets \in Nat /\ loads \in Nat
    BY <2>2, <2>3
  <2> HIDE DEF loads, sets, begun, early
  <2>7. /\ begun \in Element /\ begun.kind = kind /\ begun.place = place
        /\ begun.by = "innerHTML" /\ begun.puts = 1 /\ begun.early = early
    BY <1>1, <2>4, <2>5 DEF Insertion!Unborn, Element, Insertion!Places
  <2>8. /\ s \in Element /\ s.kind = kind /\ s.place = place /\ s.addressed = addressed
        /\ s.by = "innerHTML" /\ s.puts = 1 /\ s.early = early
        /\ s.sets = sets /\ s.loads = loads
    BY <2>6, <2>7 DEF Element
  <2> HIDE DEF s
  <2>9. Counted(s)
    BY <1>1, <2>2, <2>3, <2>4, <2>8 DEF Counted, Begun, Loose, Placed
  <2> QED BY <2>1, <2>9, OneElement
<1> QED BY <1>2, <1>3, <1>4

LEMMA InsertionStep ==
  ASSUME InsertionInv, Insertion!Next
  PROVE  InsertionInv'
<1>1. CASE Insertion!HtmlPopped
  BY <1>1 DEF Insertion!HtmlPopped, InsertionInv
<1>2. ASSUME NEW e \in Elements, Insertion!SetAddress(e) \/ Insertion!RemoveChild(e)
      PROVE  InsertionInv'
  BY <1>2, AddressElement, RemoveElement
<1>3. ASSUME NEW e \in Elements, NEW kind \in Kinds, Insertion!CreateElement(e, kind)
      PROVE  InsertionInv'
  BY <1>3, NewElement, "head" \in Insertion!Places DEF Insertion!Places
<1>4. ASSUME NEW e \in Elements, NEW place \in Insertion!Places,
             Insertion!AppendChild(e, place) \/ Insertion!InsertBefore(e, place)
      PROVE  InsertionInv'
  <2>1. CASE Insertion!AppendChild(e, place)
    BY <2>1, AppendElement
  <2>2. CASE Insertion!InsertBefore(e, place) /\ place = "head"
    BY <2>2, AppendElement DEF Insertion!InsertBefore
  <2>3. CASE Insertion!InsertBefore(e, place) /\ place # "head"
    BY <2>3, PutElement, OneElement DEF InsertionInv, Insertion!InsertBefore
  <2> QED BY <1>4, <2>1, <2>2, <2>3
<1>5. ASSUME NEW e \in Elements, NEW place \in Insertion!Places, NEW kind \in Kinds,
             NEW addressed \in BOOLEAN,
             \/ Insertion!ElementPopped(e, kind, addressed, place)
             \/ Insertion!SetInnerHTML(e, kind, addressed, place)
      PROVE  InsertionInv'
  BY <1>5, NewElement
<1> QED BY <1>1, <1>2, <1>3, <1>4, <1>5 DEF Insertion!Next

(* Whichever way an element comes into the document, and whenever its      *)
(* address is written, what it refers to is loaded once.                   *)
THEOREM ElementsLoadOnce == WindowSpec => []LoadedOnce
<1> DEFINE Inv == running = "insertion" => InsertionInv
<1>1. WindowInit => Inv
  BY InsertionInit DEF WindowInit
<1>2. Inv /\ [WindowNext]_all => Inv'
  <2> SUFFICES ASSUME Inv, [WindowNext]_all, running' = "insertion" PROVE InsertionInv'
    OBVIOUS
  <2>1. running = "insertion" /\ (Insertion!Next \/ UNCHANGED page)
    BY OneRuns
  <2>2. CASE UNCHANGED page
    BY <2>1, <2>2 DEF InsertionInv, page
  <2> QED BY <2>1, <2>2, InsertionStep
<1>3. Inv => LoadedOnce
  <2> SUFFICES ASSUME InsertionInv PROVE Insertion!LoadedOnce
    BY DEF LoadedOnce
  <2> QED BY DEF InsertionInv, Counted, Element, Placed, Begun, Insertion!LoadedOnce,
                 Insertion!Count
<1> QED BY <1>1, <1>2, <1>3, PTL DEF WindowSpec

-----------------------------------------------------------------------------
(* Timers                                                                  *)

Timer == [once : BOOLEAN, interval : Nat, left : {n \in Int : n >= -MaxLate}]
Frame == [timer : Nat, until : {"noneSet", "noneDue", "timeOver"}, left : Int]

(* A timeout that was started and is set is one of a callback that runs:   *)
(* it is cleared before the callback's frame is free for another.          *)
ClockType ==
    /\ frames \in Seq(Frame)
    /\ timers \in [DOMAIN timers -> Timer] /\ DOMAIN timers \subseteq 1 .. MaxTimers
    /\ runs \in [DOMAIN runs -> Nat] /\ DOMAIN runs \subseteq 1 .. MaxTimers
FramesInv ==
    \A j, k \in 1 .. Len(frames) :
        frames[j].timer = frames[k].timer /\ frames[j].timer # 0 => j = k
RunsInv ==
    /\ \A id \in DOMAIN timers : timers[id].once <=> id \in DOMAIN runs
    /\ \A id \in DOMAIN runs :
          /\ runs[id] <= 1
          /\ id \in DOMAIN timers /\ runs[id] = 1 =>
                \E k \in 1 .. Len(frames) : frames[k].timer = id
ClockInv == ClockType /\ FramesInv /\ RunsInv

LEMMA ClockInit == ASSUME Timers!Init PROVE ClockInv
  BY DEF Timers!Init, Timers!NoTimers, Timers!NoTimer, ClockInv, ClockType, FramesInv, RunsInv

(* Among timers there is an earliest one: of those that are due first, the *)
(* one with the least number.                                              *)
LEMMA EarliestExists ==
  ASSUME ClockType, Timers!Candidates # {}
  PROVE  Timers!Earliest \in Timers!Candidates
<1> DEFINE C == Timers!Candidates
           due(id) == timers[id].left + MaxLate
<1>1. C \subseteq DOMAIN timers /\ C # {}
  BY DEF Timers!Candidates
<1>2. /\ MaxLate \in Nat
      /\ \A id \in C : id \in Nat /\ timers[id].left \in Int /\ due(id) \in Nat
  BY <1>1, WindowAssumption DEF ClockType, Timer
<1> HIDE DEF C
<1>3. \A T \in SUBSET Nat : T # {} => \E x \in T : \A y \in T : x <= y
  <2> SUFFICES ASSUME NEW T \in SUBSET Nat, T # {} PROVE \E x \in T : \A y \in T : x <= y
    OBVIOUS
  <2>1. PICK x \in T : \A y \in T : ~(<<y, x>> \in OpToRel(<, Nat))
    BY NatLessThanWellFounded, WFMin
  <2>2. \A y \in T : ~(y < x)
    BY <2>1 DEF OpToRel
  <2> QED BY <2>2
<1>4. PICK least \in {due(id) : id \in C} : \A y \in {due(id) : id \in C} : least <= y
  BY <1>1, <1>2, <1>3
<1> DEFINE F == {id \in C : due(id) = least}
<1>5. F \in SUBSET Nat /\ F # {}
  BY <1>2, <1>4
<1>6. PICK id \in F : \A other \in F : id <= other
  BY <1>3, <1>5
<1>7. id \in C /\ \A other \in C : \/ timers[id].left < timers[other].left
                                   \/ timers[id].left = timers[other].left /\ id <= other
  <2>1. id \in C /\ due(id) = least
    BY <1>6
  <2>2. ASSUME NEW other \in C
        PROVE  \/ timers[id].left < timers[other].left
               \/ timers[id].left = timers[other].left /\ id <= other
    <3>1. least <= due(other)
      BY <1>4
    <3>2. due(other) = least => id <= other
      BY <1>6
    <3> QED BY <1>2, <2>1, <3>1, <3>2
  <2> QED BY <2>1, <2>2
<1> QED BY <1>7 DEF C, Timers!Earliest

LEMMA FrameTypes ==
  ASSUME ClockType
  PROVE  /\ Len(frames) \in Nat
         /\ \A k \in 1 .. Len(frames) : frames[k] \in Frame /\ frames[k].timer \in Nat
<1>1. frames \in Seq(Frame)
  BY DEF ClockType
<1>2. Len(frames) \in Nat /\ \A k \in 1 .. Len(frames) : frames[k] \in Frame
  BY <1>1
<1>3. \A f \in Frame : f.timer \in Nat
  BY DEF Frame
<1> QED BY <1>2, <1>3

(* Starting a timer gives it a number that no timer and no frame has.      *)
LEMMA StartStep ==
  ASSUME ClockInv, NEW timer \in Timer, Timers!Start(timer)
  PROVE  ClockInv'
<1>1. PICK num \in 1 .. MaxTimers :
         /\ num \notin DOMAIN timers
         /\ timers' = [id \in DOMAIN timers \cup {num} |-> IF id = num THEN timer ELSE timers[id]]
         /\ runs' = IF ~timer.once THEN [id \in DOMAIN runs \ {num} |-> runs[id]]
                    ELSE [id \in DOMAIN runs \cup {num} |-> IF id = num THEN 0 ELSE runs[id]]
  BY DEF Timers!Start
<1>2. frames' = frames
  BY DEF Timers!Start
<1>3. /\ DOMAIN timers' = DOMAIN timers \cup {num} /\ timers'[num] = timer
      /\ \A id \in DOMAIN timers : timers'[id] = timers[id]
      /\ timers' \in [DOMAIN timers' -> Timer]
  BY <1>1 DEF ClockInv, ClockType
<1>4. /\ timer.once => DOMAIN runs' = DOMAIN runs \cup {num} /\ runs'[num] = 0
      /\ ~timer.once => DOMAIN runs' = DOMAIN runs \ {num}
      /\ \A id \in DOMAIN runs \ {num} : runs'[id] = runs[id]
      /\ runs' \in [DOMAIN runs' -> Nat]
  <2>1. CASE timer.once
    BY <1>1, <2>1 DEF ClockInv, ClockType
  <2>2. CASE ~timer.once
    BY <1>1, <2>2 DEF ClockInv, ClockType
  <2> QED BY <2>1, <2>2
<1>5. ClockType'
  <2>1. DOMAIN timers' \subseteq 1 .. MaxTimers /\ DOMAIN runs' \subseteq 1 .. MaxTimers
    BY <1>3, <1>4 DEF ClockInv, ClockType
  <2> QED BY <1>2, <1>3, <1>4, <2>1 DEF ClockInv, ClockType
<1>6. FramesInv'
  BY <1>2 DEF ClockInv, FramesInv
<1>7. RunsInv'
  <2>1. CASE timer.once
    BY <1>1, <1>2, <1>3, <1>4, <2>1 DEF ClockInv, RunsInv
  <2>2. CASE ~timer.once
    BY <1>1, <1>2, <1>3, <1>4, <2>2 DEF ClockInv, RunsInv
  <2> QED BY <2>1, <2>2
<1> QED BY <1>5, <1>6, <1>7 DEF ClockInv

(* The frames of the calls of wait, but for how long they still last.      *)
SameFrames ==
    /\ frames' \in Seq(Frame) /\ Len(frames') = Len(frames)
    /\ \A k \in 1 .. Len(frames) : frames'[k].timer = frames[k].timer

(* Timers that are cleared, or due at another time.                        *)
LEMMA TimersStep ==
  ASSUME ClockInv, SameFrames, runs' = runs,
         timers' \in [DOMAIN timers' -> Timer], DOMAIN timers' \subseteq DOMAIN timers,
         \A id \in DOMAIN timers' : timers'[id].once = timers[id].once
  PROVE  ClockInv'
<1>1. ClockType'
  BY DEF ClockInv, ClockType, SameFrames
<1>2. FramesInv'
  BY DEF ClockInv, FramesInv, SameFrames
<1>3. RunsInv'
  BY DEF ClockInv, RunsInv, SameFrames
<1> QED BY <1>1, <1>2, <1>3 DEF ClockInv

LEMMA ScriptStep ==
  ASSUME ClockInv, Timers!Script
  PROVE  ClockInv'
<1>1. ASSUME NEW time \in Delays, Timers!SetTimeout(time) \/ Timers!SetInterval(time)
      PROVE  ClockInv'
  <2>1. time \in Nat /\ MaxLate \in Nat
    BY WindowAssumption
  <2>2. [once |-> TRUE, interval |-> time, left |-> time] \in Timer
    BY <2>1 DEF Timer
  <2>3. Timers!Later(time, Timers!LeastInterval) \in Nat
    BY <2>1 DEF Timers!Later, Timers!LeastInterval
  <2>4. [once |-> FALSE, interval |-> Timers!Later(time, Timers!LeastInterval),
         left |-> Timers!Later(time, Timers!LeastInterval)] \in Timer
    BY <2>1, <2>3 DEF Timer
  <2> QED BY <1>1, <2>2, <2>4, StartStep DEF Timers!SetTimeout, Timers!SetInterval
<1>2. ASSUME NEW id \in DOMAIN timers, Timers!ClearInterval(id)
      PROVE  ClockInv'
  BY <1>2, TimersStep
     DEF Timers!ClearInterval, Timers!Without, ClockInv, ClockType, SameFrames
<1>3. ASSUME NEW until \in {"noneSet", "noneDue", "timeOver"}, NEW n \in Nat,
             Timers!Wait(until, n)
      PROVE  ClockInv'
  <2> DEFINE frame == [timer |-> 0, until |-> until, left |-> n]
  <2>1. /\ frame \in Frame /\ frame.timer = 0
        /\ frames' = Append(frames, frame) /\ UNCHANGED <<timers, runs>>
    BY <1>3 DEF Timers!Wait, Timers!NoTimer, Frame
  <2> HIDE DEF frame
  <2>2. /\ frames' \in Seq(Frame) /\ Len(frames') = Len(frames) + 1 /\ Len(frames) \in Nat
        /\ \A k \in 1 .. Len(frames) : frames'[k] = frames[k] /\ frames[k].timer \in Nat
        /\ frames'[Len(frames) + 1] = frame
    <3>1. frames \in Seq(Frame)
      BY DEF ClockInv, ClockType
    <3>2. /\ frames' \in Seq(Frame) /\ Len(frames') = Len(frames) + 1
          /\ \A k \in 1 .. Len(frames) : frames'[k] = frames[k]
          /\ frames'[Len(frames) + 1] = frame
      BY <2>1, <3>1
    <3> QED BY <3>2, FrameTypes DEF ClockInv
  <2>3. \A k \in 1 .. Len(frames') : \/ k \in 1 .. Len(frames) /\ frames'[k] = frames[k]
                                     \/ k = Len(frames) + 1 /\ frames'[k].timer = 0
    <3> SUFFICES ASSUME NEW k \in 1 .. Len(frames'), k \notin 1 .. Len(frames)
                 PROVE  k = Len(frames) + 1 /\ frames'[k].timer = 0
      BY <2>2, Zenon
    <3>1. k = Len(frames) + 1
      BY <2>2
    <3> QED BY <2>1, <2>2, <3>1
  <2>4. ClockType'
    BY <2>1, <2>2 DEF ClockInv, ClockType
  <2>5. FramesInv'
    BY <2>1, <2>2, <2>3 DEF ClockInv, ClockType, FramesInv
  <2>6. RunsInv'
    BY <2>1, <2>2 DEF ClockInv, RunsInv
  <2> QED BY <2>4, <2>5, <2>6 DEF ClockInv
<1>4. \A n \in Delays : n \in Nat
  BY WindowAssumption
<1> QED BY <1>1, <1>2, <1>3, <1>4 DEF Timers!Script

(* What the loop of the innermost wait has in its frame.                   *)
LEMMA InnermostFrame ==
  ASSUME ClockType, frames # <<>>
  PROVE  /\ Len(frames) \in 1 .. Len(frames)
         /\ Timers!Innermost = frames[Len(frames)] /\ Timers!Innermost \in Frame
<1>1. frames \in Seq(Frame)
  BY DEF ClockType
<1>2. Len(frames) \in 1 .. Len(frames)
  BY <1>1
<1> QED BY <1>2, FrameTypes DEF Timers!Innermost

(* The timer of the innermost frame, and of no other, is written.          *)
LEMMA FrameStep ==
  ASSUME ClockType, frames # <<>>, NEW id \in Nat,
         frames' = [frames EXCEPT ![Len(frames)].timer = id]
  PROVE  /\ frames' \in Seq(Frame) /\ Len(frames') = Len(frames) /\ Len(frames) \in Nat
         /\ frames'[Len(frames)].timer = id
         /\ \A k \in 1 .. Len(frames) : k # Len(frames) => frames'[k] = frames[k]
<1> DEFINE frame == [frames[Len(frames)] EXCEPT !.timer = id]
<1>1. frames \in Seq(Frame) /\ Len(frames) \in 1 .. Len(frames) /\ Len(frames) \in Nat
  BY InnermostFrame, FrameTypes DEF ClockType
<1>2. frame \in Frame /\ frame.timer = id
  BY <1>1, FrameTypes DEF Frame
<1>3. frames' = [frames EXCEPT ![Len(frames)] = frame]
  BY <1>1
<1> HIDE DEF frame
<1> QED BY <1>1, <1>2, <1>3

LEMMA FireStep ==
  ASSUME ClockInv, Timers!Fire
  PROVE  ClockInv'
<1> DEFINE id == Timers!Earliest
           n == Len(frames)
<1>1. frames # <<>> /\ Timers!Innermost.timer = 0 /\ Timers!Candidates # {}
  BY DEF Timers!Fire, Timers!InScript, Timers!Due, Timers!NoTimer
<1>2. id \in DOMAIN timers /\ ~Timers!IsRunning(id)
  BY <1>1, EarliestExists DEF ClockInv, Timers!Candidates
<1>3. id \in Nat /\ id # 0
  BY <1>2, WindowAssumption DEF ClockInv, ClockType
<1>4. /\ frames' = [frames EXCEPT ![n].timer = id]
      /\ runs' = [i \in DOMAIN runs |-> IF i # id THEN runs[i]
                                       ELSE IF runs[i] = 0 THEN 1 ELSE 2]
      /\ timers' = timers
  BY DEF Timers!Fire
<1> HIDE DEF id
<1>5. /\ frames' \in Seq(Frame) /\ Len(frames') = n /\ n \in 1 .. n
      /\ frames'[n].timer = id
      /\ \A k \in 1 .. n : k # n => frames'[k] = frames[k]
  BY <1>1, <1>3, <1>4, FrameStep, InnermostFrame DEF ClockInv
<1>6. \A k \in 1 .. n : frames[k].timer # id
  <2>1. frames \in Seq(Frame)
    BY DEF ClockInv, ClockType
  <2>2. DOMAIN frames = 1 .. n
    BY <2>1
  <2> QED BY <1>2, <2>2 DEF Timers!IsRunning
<1>7. id \in DOMAIN runs => runs[id] = 0
  <2> SUFFICES ASSUME id \in DOMAIN runs PROVE runs[id] = 0
    OBVIOUS
  <2>1. runs[id] \in Nat /\ runs[id] <= 1 /\ runs[id] # 1
    BY <1>2, <1>6 DEF ClockInv, ClockType, RunsInv
  <2> QED BY <2>1
<1>8. ClockType'
  <2>1. DOMAIN runs' = DOMAIN runs /\ runs' \in [DOMAIN runs -> Nat]
    BY <1>4 DEF ClockInv, ClockType
  <2> QED BY <1>4, <1>5, <2>1 DEF ClockInv, ClockType
<1>9. FramesInv'
  BY <1>3, <1>4, <1>5, <1>6 DEF ClockInv, FramesInv
<1>10. RunsInv'
  <2>1. /\ DOMAIN runs' = DOMAIN runs
        /\ \A i \in DOMAIN runs : runs'[i] = IF i = id THEN 1 ELSE runs[i]
    BY <1>4, <1>7
  <2>2. \A i \in DOMAIN runs : runs'[i] <= 1
    BY <2>1 DEF ClockInv, RunsInv
  <2>3. ASSUME NEW i \in DOMAIN runs, i \in DOMAIN timers, runs'[i] = 1
        PROVE  \E k \in 1 .. n : frames'[k].timer = i
    <3>1. CASE i = id
      BY <1>5, <3>1
    <3>2. CASE i # id
      <4>1. PICK k \in 1 .. n : frames[k].timer = i
        BY <2>1, <2>3, <3>2 DEF ClockInv, RunsInv
      <4>2. i # 0
        BY <2>3 DEF ClockInv, ClockType
      <4>3. k # n
        BY <1>1, <4>1, <4>2, InnermostFrame DEF ClockInv
      <4> QED BY <1>5, <4>1, <4>3
    <3> QED BY <3>1, <3>2
  <2> QED BY <1>4, <1>5, <2>1, <2>2, <2>3 DEF ClockInv, RunsInv
<1> QED BY <1>8, <1>9, <1>10 DEF ClockInv

LEMMA FinishStep ==
  ASSUME ClockInv, Timers!Finish
  PROVE  ClockInv'
<1> DEFINE id == Timers!Innermost.timer
           n == Len(frames)
<1>1. /\ frames # <<>> /\ id # 0 /\ runs' = runs
      /\ frames' = [frames EXCEPT ![n].timer = 0]
  BY DEF Timers!Finish, Timers!NoTimer
<1>2. frames[n].timer = id /\ n \in 1 .. n
  BY <1>1, InnermostFrame DEF ClockInv
<1>3. timers' = IF id \notin DOMAIN timers THEN timers
                ELSE IF timers[id].once THEN [other \in DOMAIN timers \ {id} |-> timers[other]]
                ELSE [timers EXCEPT ![id].left =
                         Timers!Later(timers[id].left + timers[id].interval, 0)]
  BY DEF Timers!Finish, Timers!Without
<1> HIDE DEF id
<1>4. /\ frames' \in Seq(Frame) /\ Len(frames') = n
      /\ frames'[n].timer = 0
      /\ \A k \in 1 .. n : k # n => frames'[k] = frames[k]
  BY <1>1, FrameStep DEF ClockInv
<1>5. /\ timers' \in [DOMAIN timers' -> Timer] /\ DOMAIN timers' \subseteq DOMAIN timers
      /\ \A i \in DOMAIN timers' : timers'[i].once = timers[i].once
      /\ id \in DOMAIN timers' => ~timers[id].once
  <2>1. timers \in [DOMAIN timers -> Timer]
    BY DEF ClockInv, ClockType
  <2>2. CASE id \notin DOMAIN timers
    BY <1>3, <2>1, <2>2
  <2>3. CASE id \in DOMAIN timers /\ timers[id].once
    BY <1>3, <2>1, <2>3
  <2>4. CASE id \in DOMAIN timers /\ ~timers[id].once
    <3> DEFINE late == Timers!Later(timers[id].left + timers[id].interval, 0)
               timer == [timers[id] EXCEPT !.left = late]
    <3>1. late \in {m \in Int : m >= -MaxLate}
      BY <2>1, <2>4, WindowAssumption DEF Timers!Later, Timer
    <3>2. timers' = [timers EXCEPT ![id] = timer]
      BY <1>3, <2>4
    <3> HIDE DEF late
    <3>3. timer \in Timer /\ timer.once = timers[id].once
      BY <2>1, <2>4, <3>1 DEF Timer
    <3> HIDE DEF timer
    <3> QED BY <2>1, <2>4, <3>2, <3>3
  <2> QED BY <2>2, <2>3, <2>4
<1>6. ClockType'
  BY <1>1, <1>4, <1>5 DEF ClockInv, ClockType
<1>7. FramesInv'
  BY <1>1, <1>2, <1>4 DEF ClockInv, ClockType, FramesInv
<1>8. RunsInv'
  <2>1. ASSUME NEW i \in DOMAIN runs, i \in DOMAIN timers', runs[i] = 1
        PROVE  \E k \in 1 .. n : frames'[k].timer = i
    <3>1. i \in DOMAIN timers /\ timers[i].once
      BY <1>5, <2>1 DEF ClockInv, RunsInv
    <3>2. PICK k \in 1 .. n : frames[k].timer = i
      BY <2>1, <3>1 DEF ClockInv, RunsInv
    <3>3. k # n
      BY <1>2, <1>5, <2>1, <3>1, <3>2
    <3> QED BY <1>4, <3>2, <3>3
  <2> QED BY <1>1, <1>4, <1>5, <2>1 DEF ClockInv, RunsInv
<1> QED BY <1>6, <1>7, <1>8 DEF ClockInv

LEMMA LeaveStep ==
  ASSUME ClockInv, Timers!Leave
  PROVE  ClockInv'
<1> DEFINE n == Len(frames)
<1>1. /\ frames # <<>> /\ Timers!Innermost.timer = 0
      /\ frames' = SubSeq(frames, 1, n - 1) /\ UNCHANGED <<timers, runs>>
  BY DEF Timers!Leave, Timers!InScript, Timers!Pop, Timers!NoTimer
<1>2. frames \in Seq(Frame) /\ n \in 1 .. n /\ n \in Nat /\ frames[n].timer = 0
  BY <1>1, InnermostFrame, FrameTypes DEF ClockInv, ClockType
<1>3. /\ frames' \in Seq(Frame) /\ Len(frames') = n - 1
      /\ \A k \in 1 .. n - 1 : frames'[k] = frames[k]
  <2> DEFINE m == n - 1
  <2>1. 1 \in 1 .. n + 1 /\ m \in 0 .. n
    BY <1>2
  <2>2. frames' = SubSeq(frames, 1, m)
    BY <1>1
  <2>3. m - 1 + 1 = m
    BY <1>2
  <2> HIDE DEF m
  <2>4. /\ frames' \in Seq(Frame) /\ Len(frames') = m
        /\ \A k \in 1 .. m : frames'[k] = frames[k]
    BY <1>2, <2>1, <2>2, <2>3
  <2> QED BY <2>4 DEF m
<1>4. 1 .. n - 1 \subseteq 1 .. n /\ \A k \in 1 .. n : k # n => k \in 1 .. n - 1
  BY <1>2
<1>5. ClockType'
  BY <1>1, <1>3 DEF ClockInv, ClockType
<1>6. FramesInv'
  BY <1>1, <1>3, <1>4 DEF ClockInv, FramesInv
<1>7. RunsInv'
  <2>1. ASSUME NEW i \in DOMAIN runs, i \in DOMAIN timers, runs[i] = 1
        PROVE  \E k \in 1 .. n - 1 : frames'[k].timer = i
    <3>1. PICK k \in 1 .. n : frames[k].timer = i
      BY <2>1 DEF ClockInv, RunsInv
    <3>2. i # 0
      BY DEF ClockInv, ClockType
    <3> QED BY <1>2, <1>3, <1>4, <3>1, <3>2
  <2> QED BY <1>1, <1>3, <2>1 DEF ClockInv, RunsInv
<1> QED BY <1>5, <1>6, <1>7 DEF ClockInv

LEMMA TickStep ==
  ASSUME ClockInv, Timers!Tick
  PROVE  ClockInv'
<1>1. /\ timers' = [id \in DOMAIN timers |->
                       [timers[id] EXCEPT !.left = Timers!Later(timers[id].left - 1, -MaxLate)]]
      /\ frames' = [k \in DOMAIN frames |->
                       [frames[k] EXCEPT !.left = Timers!Later(frames[k].left - 1, -1)]]
      /\ runs' = runs
  BY DEF Timers!Tick
<1>2. \A f \in Frame : LET g == [f EXCEPT !.left = Timers!Later(f.left - 1, -1)]
                       IN  g \in Frame /\ g.timer = f.timer
  BY DEF Frame, Timers!Later
<1>3. \A f \in Timer : LET g == [f EXCEPT !.left = Timers!Later(f.left - 1, -MaxLate)]
                       IN  g \in Timer /\ g.once = f.once
  BY WindowAssumption DEF Timer, Timers!Later
<1>4. SameFrames
  <2>1. frames \in Seq(Frame) /\ Len(frames) \in Nat /\ DOMAIN frames = 1 .. Len(frames)
    BY DEF ClockInv, ClockType
  <2>2. \A k \in 1 .. Len(frames) : frames'[k] \in Frame /\ frames'[k].timer = frames[k].timer
    <3> SUFFICES ASSUME NEW k \in 1 .. Len(frames)
                 PROVE  frames'[k] \in Frame /\ frames'[k].timer = frames[k].timer
      OBVIOUS
    <3>1. frames'[k] = [frames[k] EXCEPT !.left = Timers!Later(frames[k].left - 1, -1)]
      BY <1>1, <2>1
    <3>2. frames[k] \in Frame
      BY <2>1
    <3> QED BY <1>2, <3>1, <3>2
  <2>3. DOMAIN frames' = 1 .. Len(frames) /\ frames' = [k \in 1 .. Len(frames) |-> frames'[k]]
    BY <1>1, <2>1
  <2>4. frames' \in Seq(Frame)
    BY <2>1, <2>2, <2>3, IsASeq
  <2>5. Len(frames') = Len(frames)
    BY <2>1, <2>3, <2>4
  <2> QED BY <2>2, <2>4, <2>5 DEF SameFrames
<1>5. /\ timers' \in [DOMAIN timers' -> Timer] /\ DOMAIN timers' = DOMAIN timers
      /\ \A id \in DOMAIN timers' : timers'[id].once = timers[id].once
  <2>1. timers \in [DOMAIN timers -> Timer]
    BY DEF ClockInv, ClockType
  <2> QED BY <1>1, <1>3, <2>1
<1> QED BY <1>1, <1>4, <1>5, TimersStep

(* However calls of wait are nested, a timeout's callback is started once, *)
(* and no callback while it runs.                                          *)
THEOREM CallbacksStartOnce == WindowSpec => []StartsOnce
<1> DEFINE Inv == running = "timers" => ClockInv
<1>1. WindowInit => Inv
  BY ClockInit DEF WindowInit
<1>2. Inv /\ [WindowNext]_all => Inv'
  <2> SUFFICES ASSUME Inv, [WindowNext]_all, running' = "timers" PROVE ClockInv'
    OBVIOUS
  <2>1. running = "timers" /\ (Timers!Next \/ UNCHANGED clock)
    BY OneRuns
  <2>2. CASE UNCHANGED clock
    BY <2>1, <2>2 DEF ClockInv, ClockType, FramesInv, RunsInv, clock
  <2> QED BY <2>1, <2>2, ScriptStep, FireStep, FinishStep, LeaveStep, TickStep
          DEF Timers!Next
<1>3. Inv => StartsOnce
  <2> SUFFICES ASSUME ClockInv PROVE Timers!StartsOnce
    BY DEF StartsOnce
  <2>1. DOMAIN frames = 1 .. Len(frames)
    BY DEF ClockInv, ClockType
  <2> QED BY <2>1 DEF ClockInv, FramesInv, RunsInv, Timers!StartsOnce, Timers!NoTimer
<1> QED BY <1>1, <1>2, <1>3, PTL DEF WindowSpec

-----------------------------------------------------------------------------
(* Requests                                                                *)

Stages == {"unsent", "waiting", "connected", "answered", "failed", "done"}
UnderWay == {"waiting", "connected", "answered"}
Found == Urls \cup {None}
Request ==
    [stage : Stages, blocks : BOOLEAN, url : Found, stores : BOOLEAN, sent : Found,
     own : SUBSET Found, alone : BOOLEAN, heard : SUBSET Found]
Object ==
    [readyState : {0, 1, 4}, method : Exchanges!Methods \cup {None}, url : Found,
     aborted : BOOLEAN, responseText : Found, headers : SUBSET Found]

RequestsType ==
    /\ request \in [Requests -> Request]
    /\ xhr \in Object

(* While a request that is alone is under way, the object is its own: it   *)
(* has the url the request was sent for, and the text there was if the     *)
(* request stores, and then its answer.                                    *)
OwnObject(r) ==
    request[r].alone =>
        /\ request[r].stage \in UnderWay =>
              /\ xhr.url = request[r].sent
              /\ \A other \in Requests \ {r} : request[other].stage \notin UnderWay
        /\ request[r].stage \in {"waiting", "connected"} =>
              /\ request[r].sent \in request[r].own
              /\ Exchanges!Stores(xhr.method, xhr.url) => xhr.responseText \in request[r].own
        /\ request[r].stage = "connected" =>
              /\ request[r].url = request[r].sent
              /\ request[r].stores => xhr.responseText \in request[r].own
        /\ request[r].stage = "answered" => xhr.responseText \in request[r].own
        /\ request[r].stage = "done" =>
              /\ request[r].heard \subseteq request[r].own
              /\ request[r].heard = {} => xhr.aborted

(* No headers are kept before the only request connects, and no cookies    *)
(* filed before its answer; those of the only request are its own.         *)
OwnCookies(r) ==
    (\A other \in Requests \ {r} : request[other].stage = "unsent") =>
        /\ request[r].stage \in {"unsent", "waiting", "connected"} => xhr.headers = {}
        /\ request[r].stage \notin {"answered", "done"} => cookies = {}
        /\ request[r].stage \in {"answered", "done"} /\ request[r].alone =>
              cookies \subseteq {<<request[r].sent, request[r].sent>>}

(* Without threads the page waits for every request.                       *)
Awaited(r) ==
    platform = "threadless" =>
        /\ request[r].alone
        /\ request[r].stage \in UnderWay => request[r].blocks

RequestsInv ==
    /\ RequestsType
    /\ \A r \in Requests : OwnObject(r) /\ OwnCookies(r) /\ Awaited(r)

LEMMA RequestsInit == ASSUME Exchanges!Init PROVE RequestsInv
<1>1. /\ RequestsType /\ cookies = {} /\ xhr.headers = {}
      /\ \A r \in Requests : request[r].stage = "unsent" /\ request[r].alone
  BY DEF Exchanges!Init, Exchanges!NewRequest, RequestsType, Request, Object, Stages, Found
<1> QED BY <1>1 DEF RequestsInv, OwnObject, OwnCookies, Awaited, UnderWay

(* What the guard of the calls of a page says, and what they do to the     *)
(* requests that are under way.                                            *)
LEMMA PageIsFree ==
  ASSUME RequestsInv, Exchanges!PageRuns, platform = "threadless"
  PROVE  \A r \in Requests : request[r].stage \notin UnderWay
  BY DEF RequestsInv, Awaited, Exchanges!PageRuns, Exchanges!Under, UnderWay

LEMMA DisturbedFields ==
  ASSUME RequestsType, NEW r \in Requests
  PROVE  LET d == Exchanges!Disturbed[r]
         IN  /\ d \in Request
             /\ d.stage = request[r].stage /\ d.blocks = request[r].blocks
             /\ d.url = request[r].url /\ d.sent = request[r].sent
             /\ d.stores = request[r].stores /\ d.own = request[r].own
             /\ d.heard = request[r].heard
             /\ d.alone => request[r].alone /\ request[r].stage \notin UnderWay
             /\ request[r].alone /\ request[r].stage \notin UnderWay => d.alone
<1> DEFINE alone == request[r].alone /\ ~Exchanges!Under(r)
           d == Exchanges!Disturbed[r]
<1>1. request[r] \in Request
  BY DEF RequestsType
<1>2. alone \in BOOLEAN /\ d = [request[r] EXCEPT !.alone = alone]
  BY <1>1 DEF Exchanges!Disturbed, Request
<1>3. /\ alone => request[r].alone /\ request[r].stage \notin UnderWay
      /\ request[r].alone /\ request[r].stage \notin UnderWay => alone
  BY DEF Exchanges!Under, UnderWay
<1> HIDE DEF alone, d
<1>4. /\ d \in Request /\ d.alone = alone
      /\ d.stage = request[r].stage /\ d.blocks = request[r].blocks
      /\ d.url = request[r].url /\ d.sent = request[r].sent
      /\ d.stores = request[r].stores /\ d.own = request[r].own
      /\ d.heard = request[r].heard
  BY <1>1, <1>2 DEF Request
<1> QED BY <1>3, <1>4 DEF d

LEMMA OpenStep ==
  ASSUME RequestsInv, NEW method \in Exchanges!Methods, NEW url \in Urls,
         Exchanges!Open(method, url)
  PROVE  RequestsInv'
<1>1. /\ request' = Exchanges!Disturbed /\ UNCHANGED <<platform, cookies>>
      /\ xhr' = [xhr EXCEPT !.readyState = 1, !.method = method, !.url = url]
      /\ Exchanges!PageRuns
  BY DEF Exchanges!Open
<1>2. RequestsType
  BY DEF RequestsInv
<1>3. \A r \in Requests :
         /\ request'[r] \in Request
         /\ request'[r].stage = request[r].stage /\ request'[r].blocks = request[r].blocks
         /\ request'[r].url = request[r].url /\ request'[r].sent = request[r].sent
         /\ request'[r].stores = request[r].stores /\ request'[r].own = request[r].own
         /\ request'[r].heard = request[r].heard
         /\ request'[r].alone => request[r].alone /\ request[r].stage \notin UnderWay
         /\ request[r].alone /\ request[r].stage \notin UnderWay => request'[r].alone
  BY <1>1, <1>2, DisturbedFields
<1>4. xhr' \in Object /\ xhr'.aborted = xhr.aborted /\ xhr'.headers = xhr.headers
  BY <1>1, <1>2 DEF RequestsType, Object, Found
<1>5. RequestsType'
  <2>1. request' \in [Requests -> Request]
    BY <1>1, <1>3 DEF Exchanges!Disturbed
  <2> QED BY <1>4, <2>1 DEF RequestsType
<1>6. ASSUME NEW r \in Requests PROVE OwnObject(r)'
  BY <1>3, <1>4 DEF RequestsInv, OwnObject, UnderWay
<1>7. ASSUME NEW r \in Requests PROVE OwnCookies(r)'
  BY <1>1, <1>3, <1>4 DEF RequestsInv, OwnCookies, UnderWay
<1>8. ASSUME NEW r \in Requests PROVE Awaited(r)'
  BY <1>1, <1>3, PageIsFree DEF RequestsInv, Awaited
<1> QED BY <1>5, <1>6, <1>7, <1>8 DEF RequestsInv

LEMMA SendStep ==
  ASSUME RequestsInv, NEW r \in Requests, NEW async \in BOOLEAN, Exchanges!Send(r, async)
  PROVE  RequestsInv'
<1> DEFINE blocks == ~async \/ platform = "threadless"
           alone == \A other \in Requests : ~Exchanges!Under(other)
           own == Exchanges!OwnTexts
           new == [Exchanges!NewRequest EXCEPT
                      !.stage = "waiting", !.blocks = blocks, !.sent = xhr.url, !.own = own,
                      !.alone = alone]
<1>1. /\ request' = [Exchanges!Disturbed EXCEPT ![r] = new]
      /\ UNCHANGED <<platform, cookies, xhr>>
      /\ request[r].stage = "unsent" /\ Exchanges!PageRuns
  BY DEF Exchanges!Send
<1>2. RequestsType
  BY DEF RequestsInv
<1>3. blocks \in BOOLEAN /\ (platform = "threadless" => blocks)
  OBVIOUS
<1>4. /\ alone \in BOOLEAN
      /\ alone <=> \A other \in Requests : request[other].stage \notin UnderWay
  BY DEF Exchanges!Under, UnderWay
<1>4a. /\ own \in SUBSET Found /\ xhr.url \in own
       /\ Exchanges!Stores(xhr.method, xhr.url) => xhr.responseText \in own
  BY <1>2 DEF Exchanges!OwnTexts, RequestsType, Object
<1> HIDE DEF blocks, alone, own
<1>5. /\ new \in Request /\ new.stage = "waiting" /\ new.sent = xhr.url /\ new.own = own
      /\ new.alone = alone /\ new.blocks = blocks
  BY <1>2, <1>3, <1>4, <1>4a
     DEF RequestsType, Request, Object, Exchanges!NewRequest, Found, Stages
<1> HIDE DEF new
<1>6. \A other \in Requests \ {r} :
         /\ request'[other] \in Request
         /\ request'[other].stage = request[other].stage
         /\ request'[other].blocks = request[other].blocks
         /\ request'[other].url = request[other].url /\ request'[other].sent = request[other].sent
         /\ request'[other].stores = request[other].stores
         /\ request'[other].own = request[other].own
         /\ request'[other].heard = request[other].heard
         /\ request'[other].alone => request[other].alone /\ request[other].stage \notin UnderWay
         /\ request[other].alone /\ request[other].stage \notin UnderWay => request'[other].alone
  <2> SUFFICES ASSUME NEW other \in Requests \ {r}
               PROVE  request'[other] = Exchanges!Disturbed[other]
    BY <1>2, DisturbedFields
  <2> QED BY <1>1 DEF Exchanges!Disturbed
<1>7. request'[r] = new
  BY <1>1 DEF Exchanges!Disturbed
<1>8. RequestsType'
  <2>1. request' \in [Requests -> Request]
    BY <1>1, <1>5, <1>6, <1>7 DEF Exchanges!Disturbed
  <2> QED BY <1>1, <1>2, <2>1 DEF RequestsType
<1>9. ASSUME NEW q \in Requests PROVE OwnObject(q)'
  <2>1. CASE q = r
    BY <1>1, <1>4, <1>4a, <1>5, <1>6, <1>7, <2>1 DEF OwnObject
  <2>2. CASE q # r
    BY <1>1, <1>6, <2>2 DEF RequestsInv, OwnObject, UnderWay
  <2> QED BY <2>1, <2>2
<1>10. ASSUME NEW q \in Requests PROVE OwnCookies(q)'
  <2>1. CASE q = r
    BY <1>1, <1>5, <1>6, <1>7, <2>1 DEF RequestsInv, OwnCookies
  <2>2. CASE q # r
    BY <1>5, <1>7, <2>2 DEF OwnCookies
  <2> QED BY <2>1, <2>2
<1>11. ASSUME NEW q \in Requests PROVE Awaited(q)'
  BY <1>1, <1>3, <1>4, <1>5, <1>6, <1>7, PageIsFree DEF RequestsInv, Awaited
<1> QED BY <1>8, <1>9, <1>10, <1>11 DEF RequestsInv

LEMMA AbortStep ==
  ASSUME RequestsInv, Exchanges!Abort
  PROVE  RequestsInv'
<1>1. /\ xhr' \in Object /\ xhr'.method = xhr.method
      /\ xhr'.url = xhr.url /\ xhr'.headers = xhr.headers /\ xhr'.aborted
      /\ xhr'.responseText = xhr.responseText /\ UNCHANGED <<platform, request, cookies>>
  BY DEF Exchanges!Abort, RequestsInv, RequestsType, Object
<1> QED BY <1>1 DEF RequestsInv, RequestsType, OwnObject, OwnCookies, Awaited

(* A step of a request to its next stage.                                  *)
LEMMA NextStage ==
  ASSUME RequestsType, NEW r \in Requests, NEW new \in Request,
         request' = [request EXCEPT ![r] = new]
  PROVE  /\ request' \in [Requests -> Request] /\ request'[r] = new
         /\ \A other \in Requests \ {r} : request'[other] = request[other]
  BY DEF RequestsType

LEMMA ConnectStep ==
  ASSUME RequestsInv, NEW r \in Requests, Exchanges!Connect(r)
  PROVE  RequestsInv'
<1>1. /\ request[r].stage = "waiting" /\ xhr.url \in Found /\ request[r] \in Request
      /\ RequestsType /\ UNCHANGED <<platform, xhr, cookies>>
  BY DEF Exchanges!Connect, RequestsInv, RequestsType, Object
<1> DEFINE stores == Exchanges!Stores(xhr.method, xhr.url)
           new == [request[r] EXCEPT !.stage = "connected", !.url = xhr.url, !.stores = stores]
<1>1a. stores \in BOOLEAN
  BY DEF Exchanges!Stores
<1>2. request' = [request EXCEPT ![r] = new]
  BY <1>1 DEF Exchanges!Connect, RequestsType
<1> HIDE DEF stores
<1>2a. /\ new \in Request /\ new.stage = "connected" /\ new.url = xhr.url
      /\ new.stores = stores /\ new.own = request[r].own
      /\ new.alone = request[r].alone /\ new.sent = request[r].sent
      /\ new.blocks = request[r].blocks
  BY <1>1, <1>1a DEF Request, Stages
<1> HIDE DEF new
<1>3. /\ request' \in [Requests -> Request]
      /\ request'[r].stage = "connected" /\ request'[r].url = xhr.url
      /\ request'[r].stores = stores /\ request'[r].own = request[r].own
      /\ request'[r].alone = request[r].alone /\ request'[r].sent = request[r].sent
      /\ request'[r].blocks = request[r].blocks
      /\ \A other \in Requests \ {r} : request'[other] = request[other]
  BY <1>1, <1>2, <1>2a, NextStage
<1>4. RequestsType'
  BY <1>1, <1>3 DEF RequestsType
<1>5. ASSUME NEW q \in Requests PROVE OwnObject(q)'
  BY <1>1, <1>3 DEF RequestsInv, OwnObject, UnderWay, stores
<1>6. ASSUME NEW q \in Requests PROVE OwnCookies(q)'
  BY <1>1, <1>3 DEF RequestsInv, OwnCookies
<1>7. ASSUME NEW q \in Requests PROVE Awaited(q)'
  BY <1>1, <1>3 DEF RequestsInv, Awaited, UnderWay
<1> QED BY <1>4, <1>5, <1>6, <1>7 DEF RequestsInv

LEMMA FailStep ==
  ASSUME RequestsInv, NEW r \in Requests, Exchanges!Fail(r)
  PROVE  RequestsInv'
<1>1. /\ request[r].stage = "connected" /\ request[r] \in Request
      /\ RequestsType /\ UNCHANGED <<platform, cookies>>
  BY DEF Exchanges!Fail, RequestsInv, RequestsType
<1>1a. /\ xhr' \in Object /\ xhr'.method = xhr.method /\ xhr'.url = xhr.url
       /\ xhr'.aborted = xhr.aborted /\ xhr'.responseText = xhr.responseText
  <2>1. xhr \in Object /\ Exchanges!Headers(r) \in SUBSET Found
    BY <1>1 DEF Exchanges!Headers, RequestsType, Request, Object
  <2>2. xhr' = xhr \/ xhr' = [xhr EXCEPT !.readyState = 4, !.headers = Exchanges!Headers(r)]
    BY DEF Exchanges!Fail
  <2> QED BY <2>1, <2>2 DEF Object
<1> DEFINE new == [request[r] EXCEPT !.stage = "failed"]
<1>2. request' = [request EXCEPT ![r] = new]
  BY <1>1 DEF Exchanges!Fail, RequestsType
<1>2a. /\ new \in Request /\ new.stage = "failed"
      /\ new.own = request[r].own /\ new.alone = request[r].alone /\ new.sent = request[r].sent
      /\ new.blocks = request[r].blocks
  BY <1>1 DEF Request, Stages
<1> HIDE DEF new
<1>3. /\ request' \in [Requests -> Request]
      /\ request'[r].stage = "failed"
      /\ request'[r].own = request[r].own
      /\ request'[r].alone = request[r].alone /\ request'[r].sent = request[r].sent
      /\ request'[r].blocks = request[r].blocks
      /\ \A other \in Requests \ {r} : request'[other] = request[other]
  BY <1>1, <1>2, <1>2a, NextStage
<1>4. RequestsType'
  BY <1>1a, <1>3 DEF RequestsType
<1>5. ASSUME NEW q \in Requests PROVE OwnObject(q)'
  BY <1>1, <1>1a, <1>3 DEF RequestsInv, OwnObject, UnderWay
<1>6. ASSUME NEW q \in Requests PROVE OwnCookies(q)'
  BY <1>1, <1>3 DEF RequestsInv, OwnCookies
<1>7. ASSUME NEW q \in Requests PROVE Awaited(q)'
  BY <1>1, <1>3 DEF RequestsInv, Awaited, UnderWay
<1> QED BY <1>4, <1>5, <1>6, <1>7 DEF RequestsInv

LEMMA AnswerStep ==
  ASSUME RequestsInv, NEW r \in Requests, Exchanges!Answer(r)
  PROVE  RequestsInv'
<1>1. /\ request[r].stage = "connected" /\ request[r] \in Request /\ request[r].url \in Found
      /\ RequestsType /\ UNCHANGED platform
  BY DEF Exchanges!Answer, RequestsInv, RequestsType, Request
<1> DEFINE new == [request[r] EXCEPT !.stage = "answered"]
<1>2. request' = [request EXCEPT ![r] = new]
  BY <1>1 DEF Exchanges!Answer, RequestsType
<1>2a. /\ new \in Request /\ new.stage = "answered" /\ new.url = request[r].url
      /\ new.own = request[r].own /\ new.alone = request[r].alone /\ new.sent = request[r].sent
      /\ new.blocks = request[r].blocks
  BY <1>1 DEF Request, Stages
<1> HIDE DEF new
<1>3. /\ request' \in [Requests -> Request]
      /\ request'[r].stage = "answered" /\ request'[r].url = request[r].url
      /\ request'[r].own = request[r].own
      /\ request'[r].alone = request[r].alone /\ request'[r].sent = request[r].sent
      /\ request'[r].blocks = request[r].blocks
      /\ \A other \in Requests \ {r} : request'[other] = request[other]
  BY <1>1, <1>2, <1>2a, NextStage
<1>4. /\ xhr' \in Object /\ xhr'.method = xhr.method
      /\ xhr'.url = xhr.url /\ xhr'.aborted = xhr.aborted
      /\ \/ xhr'.responseText = request[r].url
         \/ request[r].stores /\ xhr'.responseText = xhr.responseText
      /\ xhr'.headers \subseteq xhr.headers \cup {request[r].url}
  <2>1. PICK text \in {request[r].url} \union
                      (IF request[r].stores THEN {xhr.responseText} ELSE {}) :
           xhr' = [xhr EXCEPT !.readyState = 4, !.responseText = text,
                              !.headers = Exchanges!Headers(r)]
    BY DEF Exchanges!Answer
  <2>2. /\ xhr \in Object /\ Exchanges!Headers(r) \in SUBSET Found
        /\ Exchanges!Headers(r) \subseteq xhr.headers \cup {request[r].url}
    BY <1>1 DEF Exchanges!Headers, RequestsType, Object
  <2>3. /\ text \in Found
        /\ text = request[r].url \/ (request[r].stores /\ text = xhr.responseText)
    BY <1>1, <2>2 DEF Object
  <2> QED BY <2>1, <2>2, <2>3 DEF Object
<1>5. cookies' \subseteq cookies \cup {<<xhr.url, from>> : from \in xhr'.headers}
  BY DEF Exchanges!Answer
<1>6. RequestsType'
  BY <1>3, <1>4 DEF RequestsType
<1>7. ASSUME NEW q \in Requests PROVE OwnObject(q)'
  <2>1. CASE q = r
    BY <1>1, <1>3, <1>4, <2>1 DEF RequestsInv, OwnObject, UnderWay
  <2>2. CASE q # r
    BY <1>1, <1>3, <1>4, <2>2 DEF RequestsInv, OwnObject, UnderWay
  <2> QED BY <2>1, <2>2
<1>8. ASSUME NEW q \in Requests PROVE OwnCookies(q)'
  <2>1. CASE q = r
    <3> SUFFICES ASSUME \A other \in Requests \ {r} : request'[other].stage = "unsent",
                        request'[r].alone
                 PROVE  cookies' \subseteq {<<request[r].sent, request[r].sent>>}
      BY <1>3, <2>1 DEF OwnCookies
    <3>1. \A other \in Requests \ {r} : request[other].stage = "unsent"
      BY <1>3
    <3>2. cookies = {} /\ xhr'.headers \subseteq {request[r].url}
      BY <1>1, <1>4, <3>1 DEF RequestsInv, OwnCookies
    <3>3. xhr.url = request[r].sent /\ request[r].url = request[r].sent
      BY <1>1, <1>3 DEF RequestsInv, OwnObject, UnderWay
    <3> QED BY <1>5, <3>2, <3>3
  <2>2. CASE q # r
    BY <1>3, <2>2 DEF OwnCookies
  <2> QED BY <2>1, <2>2
<1>9. ASSUME NEW q \in Requests PROVE Awaited(q)'
  BY <1>1, <1>3 DEF RequestsInv, Awaited, UnderWay
<1> QED BY <1>6, <1>7, <1>8, <1>9 DEF RequestsInv

LEMMA CallBackStep ==
  ASSUME RequestsInv, NEW r \in Requests, Exchanges!CallBack(r)
  PROVE  RequestsInv'
<1> DEFINE heard == IF xhr.aborted THEN {} ELSE {xhr.responseText}
<1>1. /\ request[r].stage = "answered" /\ request[r] \in Request /\ heard \in SUBSET Found
      /\ RequestsType /\ UNCHANGED <<platform, xhr, cookies>>
  BY DEF Exchanges!CallBack, RequestsInv, RequestsType, Object
<1> DEFINE new == [request[r] EXCEPT !.stage = "done", !.heard = heard]
<1>2. request' = [request EXCEPT ![r] = new]
  BY <1>1 DEF Exchanges!CallBack, RequestsType
<1>3. heard \subseteq {xhr.responseText} /\ (heard = {} => xhr.aborted)
  OBVIOUS
<1> HIDE DEF heard
<1>2a. /\ new \in Request /\ new.stage = "done" /\ new.heard = heard
      /\ new.own = request[r].own /\ new.alone = request[r].alone /\ new.sent = request[r].sent
      /\ new.blocks = request[r].blocks
  BY <1>1 DEF Request, Stages
<1> HIDE DEF new
<1>4. /\ request' \in [Requests -> Request]
      /\ request'[r].stage = "done" /\ request'[r].heard = heard
      /\ request'[r].own = request[r].own
      /\ request'[r].alone = request[r].alone /\ request'[r].sent = request[r].sent
      /\ request'[r].blocks = request[r].blocks
      /\ \A other \in Requests \ {r} : request'[other] = request[other]
  BY <1>1, <1>2, <1>2a, NextStage
<1>5. RequestsType'
  BY <1>1, <1>4 DEF RequestsType
<1>6. ASSUME NEW q \in Requests PROVE OwnObject(q)'
  BY <1>1, <1>3, <1>4 DEF RequestsInv, OwnObject, UnderWay
<1>7. ASSUME NEW q \in Requests PROVE OwnCookies(q)'
  BY <1>1, <1>4 DEF RequestsInv, OwnCookies
<1>8. ASSUME NEW q \in Requests PROVE Awaited(q)'
  BY <1>1, <1>4 DEF RequestsInv, Awaited, UnderWay
<1> QED BY <1>5, <1>6, <1>7, <1>8 DEF RequestsInv

(* However a page opens, sends and aborts, a request it left alone finds   *)
(* its own answer; without threads every request is left alone.            *)
THEOREM RequestsHearTheirOwn == WindowSpec => []HeardIsOwn
<1> DEFINE Inv == running = "requests" => RequestsInv
<1>1. WindowInit => Inv
  BY RequestsInit DEF WindowInit
<1>2. Inv /\ [WindowNext]_all => Inv'
  <2> SUFFICES ASSUME Inv, [WindowNext]_all, running' = "requests" PROVE RequestsInv'
    OBVIOUS
  <2>1. running = "requests" /\ (Exchanges!Next \/ UNCHANGED exchange)
    BY OneRuns
  <2>2. CASE UNCHANGED exchange
    BY <2>1, <2>2 DEF RequestsInv, RequestsType, OwnObject, OwnCookies, Awaited, exchange
  <2> QED BY <2>1, <2>2, OpenStep, SendStep, AbortStep, ConnectStep, FailStep, AnswerStep,
             CallBackStep DEF Exchanges!Next
<1>3. Inv => HeardIsOwn
  <2> SUFFICES ASSUME RequestsInv PROVE Exchanges!HeardIsOwn
    BY DEF HeardIsOwn
  <2> QED BY DEF RequestsInv, OwnObject, OwnCookies, Awaited, Exchanges!HeardIsOwn
<1> QED BY <1>1, <1>2, <1>3, PTL DEF WindowSpec

-----------------------------------------------------------------------------
(* Cookies                                                                 *)

(* A temporary cookie that was set last is kept at its place.              *)
LastIsKept ==
    last # None /\ ~last.cookie.maxAge =>
        LET place == Cookies!Place(last.page, last.cookie)
        IN  place \in DOMAIN temporary /\ temporary[place] = last.cookie.value

LEMMA CookiesStep ==
  ASSUME LastIsKept, Cookies!Next
  PROVE  LastIsKept'
<1>1. ASSUME NEW p \in Pages, NEW cookie \in Cookies!Cookies, Cookies!SetCookie(p, cookie)
      PROVE  LastIsKept'
  <2> DEFINE place == Cookies!Place(p, cookie)
  <2>1. last' = [page |-> p, cookie |-> cookie]
    BY <1>1 DEF Cookies!SetCookie
  <2>2. last'.page = p /\ last'.cookie = cookie
    BY <2>1
  <2>3. ~cookie.maxAge => temporary' = Cookies!MergeCookie(temporary, place, cookie.value)
    BY <1>1 DEF Cookies!SetCookie
  <2> HIDE DEF place
  <2>4. ~cookie.maxAge => place \in DOMAIN temporary' /\ temporary'[place] = cookie.value
    BY <2>3 DEF Cookies!MergeCookie
  <2>5. Cookies!Place(last.page, last.cookie)' = place
    BY <2>2 DEF place, Cookies!Place, Cookies!DomainValid
  <2> QED BY <2>2, <2>4, <2>5 DEF LastIsKept
<1>2. CASE Cookies!GetCookies
  BY <1>2 DEF Cookies!GetCookies, LastIsKept, Cookies!Place, Cookies!DomainValid
<1>3. CASE Cookies!Restart
  BY <1>3 DEF Cookies!Restart, LastIsKept
<1> QED BY <1>1, <1>2, <1>3 DEF Cookies!Next

(* Whatever was set before, a page reads back the temporary cookie it set  *)
(* last.                                                                   *)
THEOREM SessionCookiesReadBack == WindowSpec => []SessionReadsBack
<1> DEFINE Inv == running = "cookies" => LastIsKept
<1>1. WindowInit => Inv
  BY DEF WindowInit, Cookies!Init, LastIsKept
<1>2. Inv /\ [WindowNext]_all => Inv'
  <2> SUFFICES ASSUME Inv, [WindowNext]_all, running' = "cookies" PROVE LastIsKept'
    OBVIOUS
  <2>1. running = "cookies" /\ (Cookies!Next \/ UNCHANGED jar)
    BY OneRuns
  <2>2. CASE UNCHANGED jar
    BY <2>1, <2>2 DEF LastIsKept, jar, Cookies!Place, Cookies!DomainValid
  <2> QED BY <2>1, <2>2, CookiesStep
<1>3. Inv => SessionReadsBack
  <2> SUFFICES ASSUME LastIsKept, last # None, ~last.cookie.maxAge,
                      Cookies!Matches(Cookies!Place(last.page, last.cookie), last.page)
               PROVE  Cookies!TellsLast
    BY DEF SessionReadsBack, Cookies!SessionReadsBack
  <2> DEFINE place == Cookies!Place(last.page, last.cookie)
  <2>1. /\ place \in DOMAIN temporary /\ temporary[place] = last.cookie.value
        /\ place.name = last.cookie.name
    BY DEF LastIsKept, Cookies!Place
  <2> HIDE DEF place
  <2>2. Cookies!Matches(place, last.page)
    BY DEF place
  <2> QED BY <2>1, <2>2 DEF Cookies!TellsLast, Cookies!Told, Cookies!CookieString
<1> QED BY <1>1, <1>2, <1>3, PTL DEF WindowSpec

-----------------------------------------------------------------------------
(* Selects                                                                 *)

OptionType ==
    [value : Values, disabled : BOOLEAN, defaultSelected : BOOLEAN,
     _selected : {"null", "true", "false"}, chosen : BOOLEAN]

(* An option that would not be selected, were it not disabled.             *)
Quiet(o) == IF o._selected = "null" THEN ~o.defaultSelected ELSE o._selected # "true"

(* Next to the chosen option every other one is quiet.                     *)
Alone(os) ==
    \A i, j \in 1 .. Len(os) : os[i].chosen /\ j # i => Quiet(os[j])
SelectInv == options \in Seq(OptionType) /\ Alone(options)

-----------------------------------------------------------------------------
(* A function over the places of some options is a list of options.        *)
LEMMA ListOf ==
  ASSUME NEW os \in Seq(OptionType), NEW new,
         DOMAIN new = 1 .. Len(os), new = [k \in 1 .. Len(os) |-> new[k]],
         \A k \in 1 .. Len(os) : new[k] \in OptionType
  PROVE  new \in Seq(OptionType) /\ Len(new) = Len(os)
<1>1. Len(os) \in Nat
  OBVIOUS
<1>2. new \in Seq(OptionType)
  BY <1>1, IsASeq
<1> QED BY <1>1, <1>2

(* Forgetting what was chosen leaves the options as they are, and nothing  *)
(* to be alone.                                                            *)
LEMMA ForgottenOptions ==
  ASSUME NEW os \in Seq(OptionType), NEW b \in BOOLEAN, b \/ Alone(os)
  PROVE  Choosing!Forgotten(os, b) \in Seq(OptionType) /\ Alone(Choosing!Forgotten(os, b))
<1> DEFINE new == Choosing!Forgotten(os, b)
<1>1. DOMAIN os = 1 .. Len(os) /\ \A k \in 1 .. Len(os) : os[k] \in OptionType
  OBVIOUS
<1>2. new = [k \in 1 .. Len(os) |-> [os[k] EXCEPT !.chosen = IF b THEN FALSE ELSE os[k].chosen]]
  BY <1>1 DEF Choosing!Forgotten
<1>3. \A o \in OptionType, c \in BOOLEAN :
         LET p == [o EXCEPT !.chosen = c]
         IN  /\ p \in OptionType /\ p.chosen = c
             /\ p._selected = o._selected /\ p.defaultSelected = o.defaultSelected
  BY DEF OptionType
<1>4. \A k \in 1 .. Len(os) : (IF b THEN FALSE ELSE os[k].chosen) \in BOOLEAN
  BY <1>1 DEF OptionType
<1> HIDE DEF new
<1>5. \A k \in 1 .. Len(os) : /\ new[k] \in OptionType
                              /\ new[k].chosen => ~b /\ os[k].chosen
                              /\ new[k]._selected = os[k]._selected
                              /\ new[k].defaultSelected = os[k].defaultSelected
  <2> SUFFICES ASSUME NEW k \in 1 .. Len(os)
               PROVE  /\ new[k] \in OptionType
                      /\ new[k].chosen => ~b /\ os[k].chosen
                      /\ new[k]._selected = os[k]._selected
                      /\ new[k].defaultSelected = os[k].defaultSelected
    OBVIOUS
  <2> DEFINE c == IF b THEN FALSE ELSE os[k].chosen
  <2>1. new[k] = [os[k] EXCEPT !.chosen = c] /\ os[k] \in OptionType /\ c \in BOOLEAN
    BY <1>1, <1>2, <1>4
  <2>2. c => ~b /\ os[k].chosen
    OBVIOUS
  <2> HIDE DEF c
  <2> QED BY <1>3, <2>1, <2>2
<1>6. new \in Seq(OptionType) /\ Len(new) = Len(os)
  BY <1>2, <1>5, ListOf
<1>7. Alone(new)
  BY <1>5, <1>6 DEF Alone, Quiet
<1> QED BY <1>6, <1>7 DEF new

(* One option is written.                                                  *)
LEMMA OneOption ==
  ASSUME SelectInv, NEW i \in DOMAIN options, NEW o \in OptionType, o.chosen = options[i].chosen,
         NEW os, os = [options EXCEPT ![i] = o]
  PROVE  /\ os \in Seq(OptionType)
         /\ (Quiet(options[i]) => Quiet(o)) => Alone(os)
<1>1. /\ options \in Seq(OptionType) /\ DOMAIN options = 1 .. Len(options)
      /\ os \in Seq(OptionType) /\ Len(os) = Len(options)
      /\ os[i] = o /\ \A k \in 1 .. Len(options) : k # i => os[k] = options[k]
  BY DEF SelectInv
<1> QED BY <1>1 DEF SelectInv, Alone

LEMMA OptionFields ==
  ASSUME SelectInv, NEW i \in DOMAIN options, NEW b \in BOOLEAN, NEW v \in Values
  PROVE  LET o == options[i]
             selected == [o EXCEPT !._selected = Choosing!Truth(b)]
             default == [o EXCEPT !.defaultSelected = b]
             disabled == [o EXCEPT !.disabled = b]
             valued == [o EXCEPT !.value = v]
         IN  /\ selected \in OptionType /\ selected.chosen = o.chosen
             /\ ~b => Quiet(selected)
             /\ default \in OptionType /\ default.chosen = o.chosen
             /\ ~b => (Quiet(o) => Quiet(default))
             /\ disabled \in OptionType /\ disabled.chosen = o.chosen
             /\ Quiet(o) => Quiet(disabled)
             /\ valued \in OptionType /\ valued.chosen = o.chosen
             /\ Quiet(o) => Quiet(valued)
<1>1. options[i] \in OptionType
  BY DEF SelectInv
<1> QED BY <1>1 DEF OptionType, Quiet, Choosing!Truth

(* A setter of the select writes an option.                                *)
LEMMA ChosenOption ==
  ASSUME NEW o \in OptionType, NEW c \in BOOLEAN
  PROVE  LET p == [o EXCEPT !._selected = Choosing!Truth(c), !.chosen = c]
         IN  /\ p \in OptionType /\ p.chosen = c
             /\ ~c => Quiet(p)
BY DEF OptionType, Quiet, Choosing!Truth

(* What a page does with an option itself.                                 *)
LEMMA WriteStep ==
  ASSUME SelectInv, NEW i \in DOMAIN options, NEW b \in BOOLEAN, NEW v \in Values,
         \/ Choosing!SetSelected(i, b) \/ Choosing!SetDefaultSelected(i, b)
         \/ Choosing!SetDisabled(i, b) \/ Choosing!SetOptionValue(i, v)
  PROVE  SelectInv'
<1>1. options \in Seq(OptionType)
  BY DEF SelectInv
<1>2. CASE Choosing!SetSelected(i, b)
  <2> DEFINE os == [options EXCEPT ![i] = [options[i] EXCEPT !._selected = Choosing!Truth(b)]]
  <2>1. options' = Choosing!Forgotten(os, b)
    BY <1>1, <1>2 DEF Choosing!SetSelected
  <2>2. os \in Seq(OptionType) /\ (b \/ Alone(os))
    BY OneOption, OptionFields
  <2> QED BY <2>1, <2>2, ForgottenOptions DEF SelectInv
<1>3. CASE Choosing!SetDefaultSelected(i, b)
  <2> DEFINE os == [options EXCEPT ![i] = [options[i] EXCEPT !.defaultSelected = b]]
  <2>1. options' = Choosing!Forgotten(os, b)
    BY <1>1, <1>3 DEF Choosing!SetDefaultSelected
  <2>2. os \in Seq(OptionType) /\ (b \/ Alone(os))
    BY OneOption, OptionFields
  <2> QED BY <2>1, <2>2, ForgottenOptions DEF SelectInv
<1>4. CASE Choosing!SetDisabled(i, b)
  <2>1. options' = [options EXCEPT ![i] = [options[i] EXCEPT !.disabled = b]]
    BY <1>1, <1>4 DEF Choosing!SetDisabled
  <2> QED BY <2>1, OneOption, OptionFields DEF SelectInv
<1>5. CASE Choosing!SetOptionValue(i, v)
  <2>1. options' = [options EXCEPT ![i] = [options[i] EXCEPT !.value = v]]
    BY <1>1, <1>5 DEF Choosing!SetOptionValue
  <2> QED BY <2>1, OneOption, OptionFields DEF SelectInv
<1> QED BY <1>2, <1>3, <1>4, <1>5

-----------------------------------------------------------------------------
(* The setters of the select, and the options it has.                      *)
LEMMA ChooseStep ==
  ASSUME SelectInv, NEW index, Choosing!SetSelectedIndex(index)
  PROVE  SelectInv'
<1> DEFINE c(k) == k - 1 = index
           new(k) == [options[k] EXCEPT !._selected = Choosing!Truth(c(k)), !.chosen = c(k)]
<1>1. options \in Seq(OptionType) /\ DOMAIN options = 1 .. Len(options) /\ Len(options) \in Nat
  BY DEF SelectInv
<1>2. options' = [k \in DOMAIN options |-> new(k)]
  BY Zenon DEF Choosing!SetSelectedIndex
<1>3. ASSUME NEW k \in 1 .. Len(options)
      PROVE  /\ new(k) \in OptionType
             /\ new(k).chosen = c(k)
             /\ ~c(k) => Quiet(new(k))
  <2>1. options[k] \in OptionType /\ c(k) \in BOOLEAN
    BY <1>1
  <2> HIDE DEF c
  <2> QED BY <2>1, ChosenOption, Zenon
<1>4. \A i, j \in 1 .. Len(options) : c(i) /\ j # i => ~c(j)
  BY <1>1
<1> HIDE DEF c, new
<1>5. options' = [k \in 1 .. Len(options) |-> new(k)]
  BY <1>1, <1>2
<1>6. options' \in Seq(OptionType) /\ Len(options') = Len(options)
  <2>1. \A k \in 1 .. Len(options) : options'[k] = new(k) /\ options'[k] \in OptionType
    BY <1>3, <1>5
  <2>2. DOMAIN options' = 1 .. Len(options)
        /\ options' = [k \in 1 .. Len(options) |-> options'[k]]
    BY <1>5, <2>1
  <2> QED BY <1>1, <2>1, <2>2, ListOf
<1>7. ASSUME NEW i \in 1 .. Len(options), NEW j \in 1 .. Len(options), options'[i].chosen, j # i
      PROVE  Quiet(options'[j])
  <2>1. options'[i] = new(i) /\ options'[j] = new(j)
    BY <1>5
  <2>2. c(i)
    BY <1>3, <1>7, <2>1, Zenon
  <2>3. ~c(j)
    BY <1>4, <1>7, <2>2
  <2> QED BY <1>3, <2>1, <2>3, Zenon
<1> QED BY <1>6, <1>7 DEF SelectInv, Alone

LEMMA AppendStep ==
  ASSUME SelectInv, NEW value \in Values, NEW b \in BOOLEAN, Choosing!AppendToSelect(value, b)
  PROVE  SelectInv'
<1> DEFINE o == Choosing!Option(value, Choosing!Unset, b)
           os == Append(options, o)
<1>1. options' = Choosing!Forgotten(os, b) /\ options \in Seq(OptionType) /\ Len(options) \in Nat
  BY DEF Choosing!AppendToSelect, SelectInv
<1>2. o \in OptionType /\ ~o.chosen /\ (~b => Quiet(o))
  BY DEF Choosing!Option, OptionType, Choosing!Unset, Quiet
<1> HIDE DEF o
<1>3. /\ os \in Seq(OptionType) /\ Len(os) = Len(options) + 1 /\ os[Len(options) + 1] = o
      /\ \A k \in 1 .. Len(options) : os[k] = options[k]
  BY <1>1, <1>2, AppendProperties
<1> HIDE DEF os
<1>4. \A k \in 1 .. Len(os) : k = Len(options) + 1 \/ k \in 1 .. Len(options)
  BY <1>1, <1>3
<1>5. ~b => Alone(os)
  BY <1>2, <1>3, <1>4 DEF SelectInv, Alone
<1> QED BY <1>1, <1>3, <1>5, ForgottenOptions DEF SelectInv

LEMMA GroupStep ==
  ASSUME SelectInv, NEW value \in Values, NEW place \in 1 .. MaxOptions,
         Choosing!AppendToGroup(place, value)
  PROVE  SelectInv'
<1> DEFINE o == Choosing!Option(value, "true", FALSE)
           os == Choosing!InsertAt(options, place, o)
           low == SubSeq(options, 1, place - 1)
           high == SubSeq(options, place, Len(options))
<1>1. /\ options' = Choosing!Forgotten(os, TRUE) /\ options \in Seq(OptionType)
      /\ place \in 1 .. Len(options) + 1 /\ Len(options) \in Nat /\ place \in Int
  BY DEF Choosing!AppendToGroup, SelectInv
<1>2. o \in OptionType
  BY DEF Choosing!Option, OptionType
<1>3. low \in Seq(OptionType)
  <2>1. \A k \in 1 .. place - 1 : options[k] \in OptionType
    BY <1>1
  <2> QED BY <1>1, <2>1, SubSeqProperties
<1>4. high \in Seq(OptionType)
  <2>1. \A k \in place .. Len(options) : options[k] \in OptionType
    BY <1>1
  <2> QED BY <1>1, <2>1, SubSeqProperties
<1>5. os = low \o <<o>> \o high
  BY DEF Choosing!InsertAt
<1> HIDE DEF low, high, os, o
<1>6. os \in Seq(OptionType)
  BY <1>2, <1>3, <1>4, <1>5
<1> QED BY <1>1, <1>6, ForgottenOptions DEF SelectInv

(* A list without one of its elements keeps the others in their order.     *)
LEMMA RemoveAtList ==
  ASSUME NEW S, NEW s \in Seq(S), NEW i \in 1 .. Len(s)
  PROVE  /\ Choosing!RemoveAt(s, i) \in Seq(S) /\ Len(Choosing!RemoveAt(s, i)) = Len(s) - 1
         /\ \A k \in 1 .. Len(s) - 1 :
               Choosing!RemoveAt(s, i)[k] = IF k < i THEN s[k] ELSE s[k + 1]
<1> DEFINE low == SubSeq(s, 1, i - 1)
           high == SubSeq(s, i + 1, Len(s))
<1>1. Len(s) \in Nat /\ i \in Nat /\ i <= Len(s) /\ i >= 1
  OBVIOUS
<1>2. /\ low \in Seq(S) /\ Len(low) = i - 1
      /\ \A k \in 1 .. i - 1 : low[k] = s[k]
  <2>1. /\ \A k \in 1 .. i - 1 : s[k] \in S
        /\ 1 \in Int /\ i - 1 \in Int
    BY <1>1
  <2> QED BY <1>1, <2>1, SubSeqProperties
<1>3. /\ high \in Seq(S) /\ Len(high) = Len(s) - i
      /\ \A k \in 1 .. Len(s) - i : high[k] = s[i + k]
  <2>1. /\ \A k \in i + 1 .. Len(s) : s[k] \in S
        /\ i + 1 \in Int /\ Len(s) \in Int
    BY <1>1
  <2> QED BY <1>1, <2>1, SubSeqProperties
<1>4. Choosing!RemoveAt(s, i) = low \o high
  BY DEF Choosing!RemoveAt
<1> HIDE DEF low, high
<1>5. /\ low \o high \in Seq(S) /\ Len(low \o high) = Len(s) - 1
      /\ \A k \in 1 .. Len(s) - 1 :
            (low \o high)[k] = IF k < i THEN low[k] ELSE high[k - (i - 1)]
  <2>1. /\ low \o high \in Seq(S) /\ Len(low \o high) = Len(low) + Len(high)
        /\ \A k \in 1 .. Len(low) + Len(high) :
              (low \o high)[k] = IF k <= Len(low) THEN low[k] ELSE high[k - Len(low)]
    BY <1>2, <1>3, ConcatProperties
  <2>2. Len(low) + Len(high) = Len(s) - 1 /\ Len(low) = i - 1
    BY <1>1, <1>2, <1>3
  <2>3. \A k \in 1 .. Len(s) - 1 : k <= i - 1 <=> k < i
    BY <1>1
  <2> QED BY <2>1, <2>2, <2>3
<1>6. ASSUME NEW k \in 1 .. Len(s) - 1
      PROVE  (low \o high)[k] = IF k < i THEN s[k] ELSE s[k + 1]
  <2>1. CASE k < i
    <3>1. k \in 1 .. i - 1
      BY <1>1, <2>1
    <3> QED BY <1>2, <1>5, <2>1, <3>1
  <2>2. CASE ~(k < i)
    <3>1. k - (i - 1) \in 1 .. Len(s) - i /\ i + (k - (i - 1)) = k + 1
      BY <1>1, <2>2
    <3> QED BY <1>3, <1>5, <2>2, <3>1
  <2> QED BY <2>1, <2>2
<1> QED BY <1>4, <1>5, <1>6

LEMMA RemoveStep ==
  ASSUME SelectInv, NEW i \in DOMAIN options, Choosing!RemoveOption(i)
  PROVE  SelectInv'
<1> DEFINE old(k) == IF k < i THEN k ELSE k + 1
<1>1. /\ options \in Seq(OptionType) /\ i \in 1 .. Len(options) /\ Len(options) \in Nat
      /\ options' = Choosing!RemoveAt(options, i)
  BY DEF Choosing!RemoveOption, SelectInv
<1>2. /\ options' \in Seq(OptionType) /\ Len(options') = Len(options) - 1
      /\ \A k \in 1 .. Len(options) - 1 :
            options'[k] = IF k < i THEN options[k] ELSE options[k + 1]
  BY <1>1, RemoveAtList
<1>3. \A k \in 1 .. Len(options') : old(k) \in 1 .. Len(options) /\ options'[k] = options[old(k)]
  BY <1>1, <1>2
<1>4. \A j, k \in 1 .. Len(options') : j # k => old(j) # old(k)
  BY <1>1, <1>2
<1> HIDE DEF old
<1> QED BY <1>2, <1>3, <1>4 DEF SelectInv, Alone

LEMMA SelectStep ==
  ASSUME SelectInv, Choosing!Next
  PROVE  SelectInv'
<1>1. ASSUME NEW value \in Values, Choosing!SetValue(value)
      PROVE  SelectInv'
  BY <1>1, ChooseStep DEF Choosing!SetValue
<1>2. ASSUME NEW value \in Values, NEW i \in DOMAIN options, Choosing!SetOptionValue(i, value)
      PROVE  SelectInv'
  BY <1>2, WriteStep, TRUE \in BOOLEAN
<1>3. ASSUME NEW i \in DOMAIN options, NEW b \in BOOLEAN,
             \/ Choosing!SetSelected(i, b) \/ Choosing!SetDefaultSelected(i, b)
             \/ Choosing!SetDisabled(i, b)
      PROVE  SelectInv'
  <2>1. options[i] \in OptionType
    BY DEF SelectInv
  <2>2. options[i].value \in Values
    BY <2>1 DEF OptionType
  <2> QED BY <1>3, <2>2, WriteStep
<1> QED BY <1>1, <1>2, <1>3, ChooseStep, AppendStep, GroupStep, RemoveStep DEF Choosing!Next

(* The option that was chosen is the first one that is selected.           *)
LEMMA ChosenIsFirst == ASSUME SelectInv PROVE Choosing!ShowsChosen
<1> SUFFICES ASSUME NEW i \in DOMAIN options, options[i].chosen
             PROVE  /\ Choosing!SelectedIndexOf(options) =
                          IF Choosing!Selected(options[i]) THEN i - 1 ELSE -1
                    /\ Choosing!ValueOf(options) \in {options[i].value, None}
  BY DEF Choosing!ShowsChosen
<1>1. DOMAIN options = 1 .. Len(options) /\ i \in Nat
  BY DEF SelectInv
<1>2. \A j \in DOMAIN options : j # i => ~Choosing!Selected(options[j])
  BY <1>1 DEF SelectInv, Alone, Quiet, Choosing!Selected, Choosing!Unset
<1>3. CASE Choosing!Selected(options[i])
  <2>1. \A j \in 1 .. (i - 1) : j \in DOMAIN options /\ j # i
    BY <1>1
  <2>2. Choosing!SelectedIndexOf(options) = i - 1
    BY <1>1, <1>2, <1>3, <2>1 DEF Choosing!SelectedIndexOf
  <2>3. Choosing!SelectedIndexOf(options) + 1 = i
    BY <1>1, <2>2
  <2> QED BY <1>3, <2>2, <2>3 DEF Choosing!ValueOf
<1>4. CASE ~Choosing!Selected(options[i])
  <2>1. Choosing!SelectedIndexOf(options) = -1
    BY <1>2, <1>4 DEF Choosing!SelectedIndexOf
  <2> QED BY <1>4, <2>1 DEF Choosing!ValueOf
<1> QED BY <1>3, <1>4

(* Whatever becomes of the other options, a select shows the option that   *)
(* was chosen last over its value or index, or nothing while it is         *)
(* disabled.                                                               *)
THEOREM ChosenIsShown == WindowSpec => []ShowsChosen
<1> DEFINE Inv == running = "select" => SelectInv
<1>1. WindowInit => Inv
  BY DEF WindowInit, Choosing!Init, SelectInv, Alone
<1>2. Inv /\ [WindowNext]_all => Inv'
  <2> SUFFICES ASSUME Inv, [WindowNext]_all, running' = "select" PROVE SelectInv'
    OBVIOUS
  <2>1. running = "select" /\ (Choosing!Next \/ UNCHANGED options)
    BY OneRuns
  <2>2. CASE UNCHANGED options
    BY <2>1, <2>2 DEF SelectInv, Alone, Quiet
  <2> QED BY <2>1, <2>2, SelectStep
<1>3. Inv => ShowsChosen
  BY ChosenIsFirst DEF ShowsChosen
<1> QED BY <1>1, <1>2, <1>3, PTL DEF WindowSpec

-----------------------------------------------------------------------------
(* Events.                                                                 *)

Turns == {"capturing", "targetCapturing", "targetBubbling", "handler", "bubbling"}
Callees == Functions \cup {"on"}
Lists == [known : BOOLEAN, CAPTURING : Seq(Functions), BUBBLING : Seq(Functions)]
OnItsWay == [phase : Turns \cup {"called"}, target : Nodes, bubbles : BOOLEAN,
             cancelable : BOOLEAN, cancelled : BOOLEAN, currentTarget : Nodes \cup {NoNode},
             turn : Turns, listeners : Seq(Callees), stack : Seq(Nodes)]
Calls == [node : Nodes, turn : Turns, fn : Callees, cancelled : BOOLEAN]

In(f, s) == \E i \in 1 .. Len(s) : s[i] = f
Once(s) == \A i, j \in 1 .. Len(s) : s[i] = s[j] => i = j

(* A node t and its ancestors W, each at its distance d, the last at L.    *)
IsWay(up, t, W, d, L) ==
    /\ t \in Nodes /\ W \subseteq Nodes /\ t \notin W /\ L \in Nat
    /\ d[t] = 0 /\ \A n \in W : d[n] \in 1 .. L
    /\ \A m, n \in W : d[m] = d[n] => m = n
    /\ \A n \in W \cup {t} : IF up[n] = NoNode THEN d[n] = L
                             ELSE up[n] \in W /\ d[up[n]] = d[n] + 1

(* When a node has its turn, as a number that grows.                       *)
Proper(t, W, turn, n) == IF turn \in {"capturing", "bubbling"} THEN n \in W ELSE n = t
Place(d, turn, n) ==
    CASE turn = "capturing" -> 0 - d[n]
      [] turn = "targetCapturing" -> 0
      [] turn = "targetBubbling" -> 1
      [] turn = "handler" -> 2
      [] turn = "bubbling" -> d[n] + 2
Here(d, L, ev) ==
    IF ev.turn = "capturing" /\ ev.currentTarget = NoNode THEN 0 - (L + 1)
    ELSE Place(d, ev.turn, ev.currentTarget)

Registered(es, turn, n) ==
    IF turn \in {"capturing", "targetCapturing"} THEN es[n].CAPTURING
    ELSE IF turn = "handler" THEN (IF n \in Handled THEN <<"on">> ELSE <<>>)
    ELSE es[n].BUBBLING
WasCalled(cs, turn, n, f) ==
    \E i \in 1 .. Len(cs) : cs[i].turn = turn /\ cs[i].node = n /\ cs[i].fn = f

(* Calls come in the order of the turns, each of them once.                *)
InTurn(t, W, d, here, cs) ==
    /\ \A i \in 1 .. Len(cs) : /\ Proper(t, W, cs[i].turn, cs[i].node)
                               /\ Place(d, cs[i].turn, cs[i].node) <= here
    /\ \A i, j \in 1 .. Len(cs) : i < j =>
          /\ Place(d, cs[i].turn, cs[i].node) <= Place(d, cs[j].turn, cs[j].node)
          /\ ~(cs[i].turn = cs[j].turn /\ cs[i].node = cs[j].node /\ cs[i].fn = cs[j].fn)

(* Whoever is still to be called in this turn has not been called in it.   *)
ToBeCalled(t, W, ev, cs) ==
    /\ \/ Proper(t, W, ev.turn, ev.currentTarget)
       \/ /\ ev.listeners = <<>> /\ ev.phase # "called"
          /\ ev.turn # "targetBubbling" => ev.turn = "capturing" /\ ev.currentTarget = NoNode
    /\ Once(ev.listeners)
    /\ \A f \in Callees :
          In(f, ev.listeners) => ~WasCalled(cs, ev.turn, ev.currentTarget, f)

(* Up to here all were called, but for ancestors after a stop.             *)
StoppedBefore(d, cs, place) ==
    \E i \in 1 .. Len(cs) : cs[i].cancelled /\ Place(d, cs[i].turn, cs[i].node) < place
CalledUpTo(es, t, W, d, here, listeners, cs) ==
    \A turn \in Turns, n \in Nodes :
        Proper(t, W, turn, n) /\ Place(d, turn, n) <= here =>
            \/ turn = "capturing" /\ StoppedBefore(d, cs, Place(d, turn, n))
            \/ \A f \in Callees : In(f, Registered(es, turn, n)) =>
                  WasCalled(cs, turn, n, f) \/ (Place(d, turn, n) = here /\ In(f, listeners))

Stopped(ev, cs) ==
    /\ ev.cancelled => \E i \in 1 .. Len(cs) : cs[i].cancelled
    /\ ev.phase = "called" => cs # <<>> /\ ~cs[Len(cs)].cancelled

(* The stack holds the listening ancestors between here and the target.    *)
StackOf(es, W, d, here, stack) ==
    /\ \A i \in 1 .. Len(stack) : stack[i] \in W /\ d[stack[i]] < 0 - here
    /\ \A i, j \in 1 .. Len(stack) : i < j => d[stack[i]] < d[stack[j]]
    /\ \A n \in W : es[n].known /\ d[n] < 0 - here => In(n, stack)

Going(es, t, W, d, L, ev, cs) ==
    /\ InTurn(t, W, d, Here(d, L, ev), cs)
    /\ ToBeCalled(t, W, ev, cs)
    /\ CalledUpTo(es, t, W, d, Here(d, L, ev), ev.listeners, cs)
    /\ Stopped(ev, cs)
    /\ ev.turn = "capturing" => StackOf(es, W, d, Here(d, L, ev), ev.stack)

Places(t, W, d, L) ==
    /\ \A n : /\ Place(d, "capturing", n) = 0 - d[n]
              /\ Place(d, "targetCapturing", n) = 0
              /\ Place(d, "targetBubbling", n) = 1
              /\ Place(d, "handler", n) = 2
              /\ Place(d, "bubbling", n) = d[n] + 2
    /\ \A turn \in Turns : \A n : Proper(t, W, turn, n) =>
          /\ n \in Nodes /\ Place(d, turn, n) \in Int /\ 0 - L <= Place(d, turn, n)
          /\ turn = "capturing" <=> Place(d, turn, n) < 0
    /\ \A turn, other \in Turns : \A n, m :
          Proper(t, W, turn, n) /\ Proper(t, W, other, m)
          /\ Place(d, turn, n) = Place(d, other, m) => turn = other /\ n = m

LEMMA PlaceIs ==
  ASSUME NEW up, NEW t, NEW W, NEW d, NEW L, IsWay(up, t, W, d, L)
  PROVE  Places(t, W, d, L)
<1>1. \A n : /\ Place(d, "capturing", n) = 0 - d[n]
             /\ Place(d, "targetCapturing", n) = 0
             /\ Place(d, "targetBubbling", n) = 1
             /\ Place(d, "handler", n) = 2
             /\ Place(d, "bubbling", n) = d[n] + 2
  BY DEF Place
<1>2. /\ t \in Nodes /\ W \subseteq Nodes /\ L \in Nat /\ \A n \in W : d[n] \in 1 .. L
      /\ \A m, n \in W : d[m] = d[n] => m = n
  BY DEF IsWay
<1>3. ASSUME NEW turn \in Turns, NEW n, Proper(t, W, turn, n)
      PROVE  /\ n \in Nodes /\ Place(d, turn, n) \in Int /\ 0 - L <= Place(d, turn, n)
             /\ turn = "capturing" <=> Place(d, turn, n) < 0
  <2>1. CASE turn = "capturing"
    BY <1>1, <1>2, <1>3, <2>1 DEF Proper
  <2>2. CASE turn = "bubbling"
    BY <1>1, <1>2, <1>3, <2>2 DEF Proper
  <2>3. CASE turn \in {"targetCapturing", "targetBubbling", "handler"}
    BY <1>1, <1>2, <1>3, <2>3 DEF Proper
  <2> QED BY <2>1, <2>2, <2>3 DEF Turns
<1>4. ASSUME NEW turn \in Turns, NEW other \in Turns, NEW n, NEW m,
             Proper(t, W, turn, n), Proper(t, W, other, m),
             Place(d, turn, n) = Place(d, other, m)
      PROVE  turn = other /\ n = m
  <2>1. CASE turn = "capturing" \/ other = "capturing"
    <3>1. turn = "capturing" /\ other = "capturing"
      BY <1>3, <1>4, <2>1
    <3>2. n \in W /\ m \in W /\ 0 - d[n] = 0 - d[m] /\ d[n] \in 1 .. L /\ d[m] \in 1 .. L
      BY <1>1, <1>2, <1>4, <3>1 DEF Proper
    <3>3. d[n] = d[m]
      BY <1>2, <3>2
    <3> QED BY <1>2, <3>1, <3>2, <3>3
  <2>2. CASE turn = "bubbling" \/ other = "bubbling"
    <3>1. \A k : k \in W => d[k] + 2 > 2 /\ d[k] + 2 # 1
      BY <1>2
    <3>2. /\ turn # "bubbling" => Place(d, turn, n) < 0 \/ Place(d, turn, n) \in 0 .. 2
          /\ other # "bubbling" => Place(d, other, m) < 0 \/ Place(d, other, m) \in 0 .. 2
      BY <1>1, <1>3, <1>4 DEF Turns
    <3>3. /\ turn = "bubbling" => Place(d, turn, n) = d[n] + 2 /\ n \in W
          /\ other = "bubbling" => Place(d, other, m) = d[m] + 2 /\ m \in W
      BY <1>1, <1>4 DEF Proper
    <3>4. turn = "bubbling" /\ other = "bubbling"
      BY <1>2, <1>3, <1>4, <2>2, <3>1, <3>2, <3>3
    <3>5. n \in W /\ m \in W /\ d[n] + 2 = d[m] + 2 /\ d[n] \in 1 .. L /\ d[m] \in 1 .. L
      BY <1>1, <1>2, <1>4, <3>4 DEF Proper
    <3>6. d[n] = d[m]
      BY <1>2, <3>5
    <3> QED BY <1>2, <3>4, <3>5, <3>6
  <2>3. CASE /\ turn \in {"targetCapturing", "targetBubbling", "handler"}
             /\ other \in {"targetCapturing", "targetBubbling", "handler"}
    BY <1>1, <1>4, <2>3 DEF Proper
  <2> QED BY <2>1, <2>2, <2>3 DEF Turns
<1> QED BY <1>1, <1>3, <1>4 DEF Places

LEMMA HereIs ==
  ASSUME NEW up, NEW t, NEW W, NEW d, NEW L, IsWay(up, t, W, d, L), NEW ev \in OnItsWay,
         NEW cs, ToBeCalled(t, W, ev, cs)
  PROVE  Here(d, L, ev) \in Int
<1>1. ev.turn \in Turns /\ L \in Nat /\ Places(t, W, d, L)
  BY PlaceIs DEF OnItsWay, IsWay
<1>2. CASE Proper(t, W, ev.turn, ev.currentTarget)
  BY <1>1, <1>2 DEF Here, Places
<1>3. CASE ev.turn = "capturing" /\ ev.currentTarget = NoNode
  BY <1>1, <1>3 DEF Here
<1>4. CASE ev.turn = "targetBubbling"
  BY <1>1, <1>4 DEF Here, Places
<1> QED BY <1>2, <1>3, <1>4 DEF ToBeCalled

(* The turn goes to a later node; no one between has anyone to call, or    *)
(* they are ancestors and the event was stopped.                           *)
Passes(es, t, W, d, L, ev, e) ==
    /\ Here(d, L, ev) < Here(d, L, e)
    /\ \A turn \in Turns, n \in Nodes : Proper(t, W, turn, n) =>
          /\ Place(d, turn, n) = Here(d, L, e) => Registered(es, turn, n) = e.listeners
          /\ Here(d, L, ev) < Place(d, turn, n) /\ Place(d, turn, n) < Here(d, L, e) =>
                Registered(es, turn, n) = <<>> \/ (turn = "capturing" /\ ev.cancelled)

LEMMA NextTurn ==
  ASSUME NEW up, NEW t, NEW W, NEW d, NEW L, IsWay(up, t, W, d, L), NEW es,
         NEW ev \in OnItsWay, NEW e \in OnItsWay, NEW cs \in Seq(Calls),
         Going(es, t, W, d, L, ev, cs), ev.listeners = <<>>,
         Passes(es, t, W, d, L, ev, e), Once(e.listeners),
         e.phase # "called", e.cancelled = ev.cancelled,
         Proper(t, W, e.turn, e.currentTarget)
            \/ (e.listeners = <<>> /\ e.turn = "targetBubbling"),
         e.turn = "capturing" => StackOf(es, W, d, Here(d, L, e), e.stack)
  PROVE  Going(es, t, W, d, L, e, cs)
<1> DEFINE here == Here(d, L, ev)
           next == Here(d, L, e)
<1>1. /\ InTurn(t, W, d, here, cs) /\ ToBeCalled(t, W, ev, cs) /\ Stopped(ev, cs)
      /\ CalledUpTo(es, t, W, d, here, <<>>, cs)
      /\ Places(t, W, d, L) /\ e.turn \in Turns /\ Len(cs) \in Nat
      /\ \A i \in 1 .. Len(cs) : cs[i].turn \in Turns
  <2>1. Places(t, W, d, L)
    BY PlaceIs
  <2>2. \A i \in 1 .. Len(cs) : cs[i] \in Calls
    OBVIOUS
  <2>3. \A c \in Calls : c.turn \in Turns
    BY DEF Calls
  <2>4. e.turn \in Turns
    BY DEF OnItsWay
  <2> QED BY <2>1, <2>2, <2>3, <2>4 DEF Going
<1>2. here \in Int
  BY <1>1, HereIs
<1>3. next \in Int
  <2>1. CASE Proper(t, W, e.turn, e.currentTarget)
    <3>1. ~(e.turn = "capturing" /\ e.currentTarget = NoNode)
      BY <2>1, WindowAssumption DEF Proper, IsWay
    <3> QED BY <1>1, <2>1, <3>1 DEF Here, Places
  <2>2. CASE e.turn = "targetBubbling"
    BY <1>1, <2>2 DEF Here, Places
  <2> QED BY <2>1, <2>2
<1>4. here < next
  BY DEF Passes
<1> HIDE DEF here, next
<1>5. InTurn(t, W, d, next, cs)
  <2>1. ASSUME NEW i \in 1 .. Len(cs)
        PROVE  Place(d, cs[i].turn, cs[i].node) <= next
    <3>1. /\ Place(d, cs[i].turn, cs[i].node) <= here
          /\ Place(d, cs[i].turn, cs[i].node) \in Int
      BY <1>1 DEF InTurn, Places
    <3> QED BY <1>2, <1>3, <1>4, <3>1
  <2> QED BY <1>1, <2>1 DEF InTurn
<1>6. ToBeCalled(t, W, e, cs)
  <2>1. ASSUME NEW f \in Callees, In(f, e.listeners)
        PROVE  ~WasCalled(cs, e.turn, e.currentTarget, f)
    <3> SUFFICES ASSUME NEW i \in 1 .. Len(cs), cs[i].turn = e.turn,
                        cs[i].node = e.currentTarget
                 PROVE  FALSE
      BY DEF WasCalled
    <3>1. Proper(t, W, e.turn, e.currentTarget)
      BY <2>1 DEF In
    <3>2. e.turn = "capturing" => e.currentTarget # NoNode
      BY <3>1, WindowAssumption DEF Proper, IsWay
    <3>3. next = Place(d, e.turn, e.currentTarget)
      BY <3>2 DEF Here, next
    <3>4. Place(d, cs[i].turn, cs[i].node) <= here
      BY <1>1 DEF InTurn
    <3> QED BY <1>2, <1>3, <1>4, <3>3, <3>4
  <2> QED BY <2>1 DEF ToBeCalled
<1>7. CalledUpTo(es, t, W, d, next, e.listeners, cs)
  <2> SUFFICES ASSUME NEW turn \in Turns, NEW n \in Nodes, Proper(t, W, turn, n),
                      Place(d, turn, n) <= next
               PROVE  \/ turn = "capturing" /\ StoppedBefore(d, cs, Place(d, turn, n))
                      \/ \A f \in Callees : In(f, Registered(es, turn, n)) =>
                            \/ WasCalled(cs, turn, n, f)
                            \/ Place(d, turn, n) = next /\ In(f, e.listeners)
    BY DEF CalledUpTo
  <2>1. Place(d, turn, n) \in Int
    BY <1>1 DEF Places
  <2>2. CASE Place(d, turn, n) <= here
    <3>1. \A f : ~In(f, <<>>)
      BY DEF In
    <3> QED BY <1>1, <2>2, <3>1 DEF CalledUpTo
  <2>3. CASE Place(d, turn, n) = next
    <3>1. Registered(es, turn, n) = e.listeners
      BY <2>3 DEF Passes, next
    <3> QED BY <2>3, <3>1
  <2>4. CASE here < Place(d, turn, n) /\ Place(d, turn, n) < next
    <3>1. Registered(es, turn, n) = <<>> \/ (turn = "capturing" /\ ev.cancelled)
      BY <2>4 DEF Passes, here, next
    <3>2. CASE Registered(es, turn, n) = <<>>
      BY <3>2 DEF In
    <3>3. CASE turn = "capturing" /\ ev.cancelled
      <4>1. PICK i \in 1 .. Len(cs) : cs[i].cancelled
        BY <1>1, <3>3 DEF Stopped
      <4>2. /\ Place(d, cs[i].turn, cs[i].node) <= here
            /\ Place(d, cs[i].turn, cs[i].node) \in Int
        BY <1>1 DEF InTurn, Places
      <4>3. Place(d, cs[i].turn, cs[i].node) < Place(d, turn, n)
        BY <1>2, <2>1, <2>4, <4>2
      <4> QED BY <3>3, <4>1, <4>3 DEF StoppedBefore
    <3> QED BY <3>1, <3>2, <3>3
  <2> QED BY <1>2, <1>3, <2>1, <2>2, <2>3, <2>4
<1>8. Stopped(e, cs)
  BY <1>1 DEF Stopped
<1> QED BY <1>5, <1>6, <1>7, <1>8 DEF Going, next

(* The next one is called.                                                 *)
LEMMA NextCall ==
  ASSUME NEW up, NEW t, NEW W, NEW d, NEW L, IsWay(up, t, W, d, L), NEW es,
         NEW ev \in OnItsWay, NEW e \in OnItsWay, NEW cs \in Seq(Calls), NEW c \in Calls,
         Going(es, t, W, d, L, ev, cs), ev.listeners # <<>>,
         c.node = ev.currentTarget, c.turn = ev.turn, c.fn = Head(ev.listeners), ~c.cancelled,
         e.listeners = Tail(ev.listeners), e.cancelled = ev.cancelled,
         e.turn = ev.turn, e.currentTarget = ev.currentTarget, e.stack = ev.stack
  PROVE  Going(es, t, W, d, L, e, Append(cs, c))
<1> DEFINE here == Here(d, L, ev)
           longer == Append(cs, c)
           ls == ev.listeners
           n == ev.currentTarget
<1>1. /\ InTurn(t, W, d, here, cs) /\ ToBeCalled(t, W, ev, cs) /\ Stopped(ev, cs)
      /\ CalledUpTo(es, t, W, d, here, ls, cs) /\ ev.turn \in Turns /\ ls \in Seq(Callees)
      /\ ev.turn = "capturing" => StackOf(es, W, d, here, ev.stack)
  BY DEF Going, OnItsWay
<1>2. Places(t, W, d, L) /\ here \in Int
  BY <1>1, PlaceIs, HereIs
<1>3. Proper(t, W, ev.turn, n)
  BY <1>1 DEF ToBeCalled
<1>4. here = Place(d, ev.turn, n)
  <2>1. ~(ev.turn = "capturing" /\ n = NoNode)
    BY <1>3, WindowAssumption DEF Proper, IsWay
  <2> QED BY <2>1 DEF Here
<1>5. Here(d, L, e) = here
  BY DEF Here
<1>6. /\ longer \in Seq(Calls) /\ Len(longer) = Len(cs) + 1 /\ Len(cs) \in Nat
      /\ \A i \in 1 .. Len(cs) : longer[i] = cs[i]
      /\ longer[Len(cs) + 1] = c
  OBVIOUS
<1>7. /\ Len(ls) \in Nat \ {0} /\ Len(Tail(ls)) = Len(ls) - 1 /\ Head(ls) = ls[1]
      /\ \A k \in 1 .. Len(ls) - 1 : Tail(ls)[k] = ls[k + 1]
  BY <1>1
<1> HIDE DEF here, longer, n, ls
<1>8. \A f : In(f, ls) <=> f = Head(ls) \/ In(f, Tail(ls))
  <2>1. ASSUME NEW f, In(f, ls) PROVE f = Head(ls) \/ In(f, Tail(ls))
    <3>1. PICK k \in 1 .. Len(ls) : ls[k] = f
      BY <2>1 DEF In
    <3>2. k # 1 => k - 1 \in 1 .. Len(Tail(ls)) /\ Tail(ls)[k - 1] = f
      BY <1>7, <3>1
    <3> QED BY <1>7, <3>1, <3>2 DEF In
  <2>2. In(Head(ls), ls)
    BY <1>7 DEF In
  <2>3. ASSUME NEW f, In(f, Tail(ls)) PROVE In(f, ls)
    <3>1. PICK k \in 1 .. Len(Tail(ls)) : Tail(ls)[k] = f
      BY <2>3 DEF In
    <3>2. k + 1 \in 1 .. Len(ls) /\ ls[k + 1] = f
      BY <1>7, <3>1
    <3> QED BY <3>2 DEF In
  <2> QED BY <2>1, <2>2, <2>3
<1>9. Once(Tail(ls)) /\ ~In(Head(ls), Tail(ls))
  <2>1. Once(ls)
    BY <1>1 DEF ToBeCalled, ls
  <2>2. ASSUME NEW i \in 1 .. Len(Tail(ls)), NEW j \in 1 .. Len(Tail(ls)), Tail(ls)[i] = Tail(ls)[j]
        PROVE  i = j
    <3>1. i + 1 \in 1 .. Len(ls) /\ j + 1 \in 1 .. Len(ls) /\ ls[i + 1] = ls[j + 1]
      BY <1>7, <2>2
    <3>2. i + 1 = j + 1
      BY <2>1, <3>1 DEF Once
    <3> QED BY <1>7, <3>2
  <2>3. ASSUME NEW i \in 1 .. Len(Tail(ls)), Tail(ls)[i] = Head(ls) PROVE FALSE
    <3>1. i + 1 \in 1 .. Len(ls) /\ 1 \in 1 .. Len(ls) /\ ls[i + 1] = ls[1] /\ i + 1 # 1
      BY <1>7, <2>3
    <3> QED BY <2>1, <3>1 DEF Once
  <2> QED BY <2>2, <2>3 DEF Once, In
<1>10. \A turn, m, f : WasCalled(longer, turn, m, f) <=>
          WasCalled(cs, turn, m, f) \/ (turn = ev.turn /\ m = n /\ f = Head(ls))
  <2>1. ASSUME NEW turn, NEW m, NEW f, WasCalled(longer, turn, m, f)
        PROVE  WasCalled(cs, turn, m, f) \/ (turn = ev.turn /\ m = n /\ f = Head(ls))
    <3>1. PICK i \in 1 .. Len(longer) :
             longer[i].turn = turn /\ longer[i].node = m /\ longer[i].fn = f
      BY <2>1 DEF WasCalled
    <3>2. i \in 1 .. Len(cs) \/ longer[i] = c
      BY <1>6, <3>1
    <3> QED BY <1>6, <3>1, <3>2 DEF WasCalled, n, ls
  <2>2. ASSUME NEW turn, NEW m, NEW f, WasCalled(cs, turn, m, f)
        PROVE  WasCalled(longer, turn, m, f)
    <3>1. PICK i \in 1 .. Len(cs) : cs[i].turn = turn /\ cs[i].node = m /\ cs[i].fn = f
      BY <2>2 DEF WasCalled
    <3>2. i \in 1 .. Len(longer) /\ longer[i] = cs[i]
      BY <1>6, <3>1
    <3> QED BY <3>1, <3>2 DEF WasCalled
  <2>3. WasCalled(longer, ev.turn, n, Head(ls))
    BY <1>6 DEF WasCalled, n, ls
  <2> QED BY <2>1, <2>2, <2>3
<1>11. InTurn(t, W, d, here, longer)
  <2>1. ASSUME NEW i \in 1 .. Len(longer)
        PROVE  /\ Proper(t, W, longer[i].turn, longer[i].node)
               /\ Place(d, longer[i].turn, longer[i].node) <= here
    <3>1. CASE i \in 1 .. Len(cs)
      BY <1>1, <1>6, <3>1 DEF InTurn
    <3>2. CASE i = Len(cs) + 1
      BY <1>2, <1>3, <1>4, <1>6, <3>2 DEF n
    <3> QED BY <1>6, <3>1, <3>2
  <2>2. ASSUME NEW i \in 1 .. Len(longer), NEW j \in 1 .. Len(longer), i < j
        PROVE  /\ Place(d, longer[i].turn, longer[i].node)
                     <= Place(d, longer[j].turn, longer[j].node)
               /\ ~(longer[i].turn = longer[j].turn /\ longer[i].node = longer[j].node
                    /\ longer[i].fn = longer[j].fn)
    <3>1. i \in 1 .. Len(cs) /\ longer[i] = cs[i]
      BY <1>6, <2>2
    <3>2. CASE j \in 1 .. Len(cs)
      BY <1>1, <1>6, <2>2, <3>1, <3>2 DEF InTurn
    <3>3. CASE j = Len(cs) + 1
      <4>1. longer[j] = c
        BY <1>6, <3>3
      <4>2. Place(d, cs[i].turn, cs[i].node) <= here
        BY <1>1, <3>1 DEF InTurn
      <4>3. ~WasCalled(cs, ev.turn, n, Head(ls))
        <5>1. Head(ls) \in Callees /\ In(Head(ls), ls)
          BY <1>1, <1>7, <1>8
        <5> QED BY <1>1, <5>1 DEF ToBeCalled, n, ls
      <4> QED BY <1>4, <3>1, <4>1, <4>2, <4>3 DEF WasCalled, n, ls
    <3> QED BY <1>6, <3>2, <3>3
  <2> QED BY <2>1, <2>2 DEF InTurn
<1>12. ToBeCalled(t, W, e, longer)
  <2>1. Once(e.listeners) /\ Proper(t, W, e.turn, e.currentTarget)
    BY <1>3, <1>9 DEF ls, n
  <2>2. ASSUME NEW f \in Callees, In(f, Tail(ls)) PROVE ~WasCalled(longer, ev.turn, n, f)
    <3>1. ~WasCalled(cs, ev.turn, n, f)
      BY <1>1, <1>8, <2>2 DEF ToBeCalled, n, ls
    <3> QED BY <1>9, <1>10, <2>2, <3>1
  <2> QED BY <2>1, <2>2 DEF ToBeCalled, n, ls
<1>13. CalledUpTo(es, t, W, d, here, e.listeners, longer)
  <2> SUFFICES ASSUME NEW turn \in Turns, NEW m \in Nodes, Proper(t, W, turn, m),
                      Place(d, turn, m) <= here
               PROVE  \/ turn = "capturing" /\ StoppedBefore(d, longer, Place(d, turn, m))
                      \/ \A f \in Callees : In(f, Registered(es, turn, m)) =>
                            \/ WasCalled(longer, turn, m, f)
                            \/ Place(d, turn, m) = here /\ In(f, Tail(ls))
    BY DEF CalledUpTo, ls
  <2>1. CASE turn = "capturing" /\ StoppedBefore(d, cs, Place(d, turn, m))
    <3>1. PICK i \in 1 .. Len(cs) :
             cs[i].cancelled /\ Place(d, cs[i].turn, cs[i].node) < Place(d, turn, m)
      BY <2>1 DEF StoppedBefore
    <3>2. i \in 1 .. Len(longer) /\ longer[i] = cs[i]
      BY <1>6, <3>1
    <3> QED BY <2>1, <3>1, <3>2 DEF StoppedBefore
  <2>2. ASSUME NEW f \in Callees, In(f, Registered(es, turn, m)),
               WasCalled(cs, turn, m, f) \/ (Place(d, turn, m) = here /\ In(f, ls))
        PROVE  WasCalled(longer, turn, m, f) \/ (Place(d, turn, m) = here /\ In(f, Tail(ls)))
    <3>1. CASE WasCalled(cs, turn, m, f)
      BY <1>10, <3>1
    <3>2. CASE Place(d, turn, m) = here /\ In(f, ls)
      <4>1. turn = ev.turn /\ m = n
        BY <1>1, <1>2, <1>3, <1>4, <3>2 DEF Places
      <4> QED BY <1>8, <1>10, <3>2, <4>1
    <3> QED BY <2>2, <3>1, <3>2
  <2> QED BY <1>1, <2>1, <2>2 DEF CalledUpTo
<1>14. Stopped(e, longer)
  <2>1. ev.cancelled => \E i \in 1 .. Len(longer) : longer[i].cancelled
    BY <1>1, <1>6 DEF Stopped
  <2>2. longer # <<>> /\ ~longer[Len(longer)].cancelled
    BY <1>6
  <2> QED BY <2>1, <2>2 DEF Stopped
<1> QED BY <1>1, <1>5, <1>11, <1>12, <1>13, <1>14 DEF Going, longer, ls

(* A listener returns, and the event is stopped or goes on.                *)
LEMMA Returned ==
  ASSUME NEW up, NEW t, NEW W, NEW d, NEW L, IsWay(up, t, W, d, L), NEW es,
         NEW ev \in OnItsWay, NEW e \in OnItsWay, NEW cs \in Seq(Calls), NEW ds \in Seq(Calls),
         Going(es, t, W, d, L, ev, cs), ev.phase = "called", e.phase # "called",
         e.listeners = ev.listeners, ev.cancelled => e.cancelled,
         e.turn = ev.turn, e.currentTarget = ev.currentTarget, e.stack = ev.stack,
         Len(ds) = Len(cs), ds[Len(cs)].cancelled = e.cancelled,
         \A i \in 1 .. Len(cs) : ds[i].turn = cs[i].turn /\ ds[i].node = cs[i].node
                                 /\ ds[i].fn = cs[i].fn,
         \A i \in 1 .. Len(cs) : i # Len(cs) => ds[i].cancelled = cs[i].cancelled
  PROVE  Going(es, t, W, d, L, e, ds)
<1> DEFINE here == Here(d, L, ev)
<1>1. /\ InTurn(t, W, d, here, cs) /\ ToBeCalled(t, W, ev, cs) /\ Stopped(ev, cs)
      /\ CalledUpTo(es, t, W, d, here, ev.listeners, cs)
      /\ ev.turn = "capturing" => StackOf(es, W, d, here, ev.stack)
  BY DEF Going
<1>2. Here(d, L, e) = here
  BY DEF Here
<1>3. \A turn, n, f : WasCalled(ds, turn, n, f) <=> WasCalled(cs, turn, n, f)
  BY DEF WasCalled
<1>4. Len(cs) \in Nat \ {0} /\ ~cs[Len(cs)].cancelled
  BY <1>1 DEF Stopped
<1>5. \A place : StoppedBefore(d, cs, place) => StoppedBefore(d, ds, place)
  BY <1>4 DEF StoppedBefore
<1> HIDE DEF here
<1>6. InTurn(t, W, d, here, ds)
  BY <1>1 DEF InTurn
<1>7. ToBeCalled(t, W, e, ds)
  BY <1>1, <1>3 DEF ToBeCalled
<1>8. CalledUpTo(es, t, W, d, here, e.listeners, ds)
  BY <1>1, <1>3, <1>5 DEF CalledUpTo
<1>9. Stopped(e, ds)
  BY <1>4 DEF Stopped
<1> QED BY <1>1, <1>2, <1>6, <1>7, <1>8, <1>9 DEF Going

-----------------------------------------------------------------------------
(* The way of an event.                                                    *)

(* A set of numbers up to N that has what follows each of its own has them *)
(* all.                                                                    *)
LEMMA StepByStep ==
  ASSUME NEW N \in Nat, NEW K, 0 \in K, \A k \in 0 .. N - 1 : k \in K => k + 1 \in K
  PROVE  \A k \in 0 .. N : k \in K
<1> DEFINE T == {k \in 0 .. N : k \notin K}
<1> SUFFICES T = {}
  OBVIOUS
<1> SUFFICES ASSUME T # {} PROVE FALSE
  OBVIOUS
<1>1. T \in SUBSET Nat
  OBVIOUS
<1>2. PICK i \in T : \A k \in T : ~(<<k, i>> \in OpToRel(<, Nat))
  <2> HIDE DEF T
  <2> QED
    BY <1>1, NatLessThanWellFounded, WFMin
<1>3. i \in T /\ \A k \in T : ~(k < i)
  BY <1>1, <1>2 DEF OpToRel
<1>4. i # 0 /\ i - 1 \in 0 .. N - 1
  BY <1>3
<1>5. i - 1 \in K
  BY <1>3, <1>4
<1> QED
  BY <1>3, <1>4, <1>5

(* What is computed from one number to the next is computed for all.       *)
Computes(f, step, k) == \A i \in 1 .. k : f[i] = step[i][f[i - 1]]

LEMMA Computed ==
  ASSUME NEW N \in Nat, NEW S, NEW base \in S, NEW step \in [1 .. N -> [S -> S]]
  PROVE  \E f \in [0 .. N -> S] : f[0] = base /\ Computes(f, step, N)
<1> DEFINE Upto(k) == \E f \in [0 .. k -> S] : f[0] = base /\ Computes(f, step, k)
           K == {k \in 0 .. N : Upto(k)}
<1>1. 0 \in K
  <2> DEFINE f == [i \in 0 .. 0 |-> base]
  <2>1. f \in [0 .. 0 -> S] /\ f[0] = base /\ Computes(f, step, 0)
    BY DEF Computes
  <2> HIDE DEF f
  <2> QED BY <2>1
<1>2. ASSUME NEW k \in 0 .. N - 1, k \in K PROVE k + 1 \in K
  <2>1. PICK f \in [0 .. k -> S] : f[0] = base /\ Computes(f, step, k)
    BY <1>2
  <2>2. step[k + 1] \in [S -> S] /\ f[k] \in S
    BY <2>1
  <2> DEFINE new == step[k + 1][f[k]]
             g == [i \in 0 .. k + 1 |-> IF i = k + 1 THEN new ELSE f[i]]
  <2>3. new \in S
    BY <2>2
  <2> HIDE DEF new
  <2>4. /\ g \in [0 .. k + 1 -> S] /\ g[k + 1] = new
        /\ \A i \in 0 .. k : g[i] = f[i]
    BY <2>3
  <2> HIDE DEF g
  <2>5. ASSUME NEW i \in 1 .. k + 1 PROVE g[i] = step[i][g[i - 1]]
    <3>1. CASE i = k + 1
      <4>1. i - 1 = k /\ k \in 0 .. k
        BY <3>1
      <4> QED BY <2>4, <3>1, <4>1 DEF new
    <3>2. CASE i # k + 1
      <4>1. i \in 1 .. k /\ i \in 0 .. k /\ i - 1 \in 0 .. k
        BY <3>2
      <4> QED BY <2>1, <2>4, <4>1 DEF Computes
    <3> QED BY <3>1, <3>2
  <2>6. Upto(k + 1)
    <3>1. g[0] = base /\ Computes(g, step, k + 1)
      BY <2>1, <2>4, <2>5 DEF Computes
    <3> QED BY <2>4, <3>1
  <2> HIDE DEF Upto
  <2> QED BY <2>6
<1> HIDE DEF K
<1>3. \A k \in 0 .. N : k \in K
  BY <1>1, <1>2, StepByStep
<1> QED BY <1>3 DEF K

Parents == [Nodes -> Nodes \cup {NoNode}]
Parent(up, n) == IF n = NoNode THEN NoNode ELSE up[n]

(* Above each set of nodes there is something else, or nothing.            *)
Forest(up) == \A S \in SUBSET Nodes : S # {} => \E n \in S : up[n] \notin S

Highest == Cardinality(Nodes)
AncestorsOf(up, node) ==
    LET Up[k \in 0 .. Highest] ==
            IF k = 0 THEN node
            ELSE IF Up[k - 1] = NoNode THEN NoNode ELSE up[Up[k - 1]]
    IN  Up
Walk(a, up, t) ==
    /\ a \in [0 .. Highest -> Nodes \cup {NoNode}] /\ a[0] = t
    /\ \A k \in 1 .. Highest : a[k] = Parent(up, a[k - 1])

LEMMA NodesAreFinite ==
    Highest \in Nat /\ IsFiniteSet(Nodes) /\ NoNode \notin Nodes
  BY FS_CardinalityType, WindowAssumption DEF Highest

LEMMA AncestorsAre ==
  ASSUME NEW up \in Parents, NEW t \in Nodes
  PROVE  Walk(AncestorsOf(up, t), up, t)
<1> DEFINE N == Highest
           S == Nodes \cup {NoNode}
           step == [k \in 1 .. N |-> [n \in S |-> Parent(up, n)]]
           Is(f) == f = [k \in 0 .. N |-> IF k = 0 THEN t
                            ELSE IF f[k - 1] = NoNode THEN NoNode ELSE up[f[k - 1]]]
<1>1. N \in Nat
  BY NodesAreFinite
<1>2. \A n \in S : Parent(up, n) \in S
  BY DEF Parent, Parents
<1>3. step \in [1 .. N -> [S -> S]] /\ t \in S
  BY <1>2
<1>4. \A k \in 1 .. N, n \in S : step[k][n] = Parent(up, n)
  OBVIOUS
<1> HIDE DEF S, step, N
<1>5. PICK g \in [0 .. N -> S] : g[0] = t /\ Computes(g, step, N)
  BY <1>1, <1>3, Computed
<1>6. \A k \in 1 .. N : k - 1 \in 0 .. N
  BY <1>1
<1>7. \A k \in 1 .. N : g[k] = Parent(up, g[k - 1])
  BY <1>4, <1>5, <1>6 DEF Computes
<1>8. Is(g)
  <2>1. \A k \in 0 .. N : k = 0 \/ k \in 1 .. N
    BY <1>1
  <2> QED BY <1>5, <1>7, <2>1 DEF Parent
<1> DEFINE a == CHOOSE f : Is(f)
<1>9. Is(a)
  BY <1>8
<1>10. AncestorsOf(up, t) = a
  BY DEF AncestorsOf, N
<1> HIDE DEF a
<1>11. /\ a[0] = t /\ \A k \in 1 .. N : a[k] = Parent(up, a[k - 1])
  <2>1. 0 \in 0 .. N /\ \A k \in 1 .. N : k \in 0 .. N /\ k # 0
    BY <1>1
  <2> QED BY <1>9, <2>1 DEF Parent
<1>12. a \in [0 .. N -> S]
  <2> DEFINE K == {k \in 0 .. N : a[k] \in S}
  <2>1. 0 \in K
    BY <1>1, <1>3, <1>11
  <2>2. ASSUME NEW k \in 0 .. N - 1, k \in K PROVE k + 1 \in K
    <3>1. k + 1 \in 1 .. N /\ k + 1 \in 0 .. N /\ (k + 1) - 1 = k
      BY <1>1
    <3>2. a[k + 1] = Parent(up, a[k])
      BY <1>11, <3>1
    <3> QED BY <1>2, <2>2, <3>1, <3>2 DEF S
  <2> HIDE DEF K
  <2>3. \A k \in 0 .. N : k \in K
    BY <1>1, <2>1, <2>2, StepByStep
  <2>4. a = [k \in 0 .. N |-> a[k]]
    BY <1>9
  <2> QED BY <2>3, <2>4 DEF K
<1> QED BY <1>10, <1>11, <1>12 DEF Walk, N, S

(* The nodes of a walk, how far it is to each, and to the last one.        *)
NodesOf(a) == {a[k] : k \in 0 .. Highest} \ {NoNode}
StepsTo(a, n) == CHOOSE k \in 0 .. Highest : a[k] = n
Steps(a) == [n \in NodesOf(a) |-> StepsTo(a, n)]
Height(a) ==
    CHOOSE l \in 0 .. Highest : a[l] # NoNode /\ \A k \in l + 1 .. Highest : a[k] = NoNode
Reached(a) ==
    /\ Height(a) \in 0 .. Highest
    /\ \A k \in 0 .. Height(a) : a[k] \in NodesOf(a) /\ a[k] \in Nodes /\ Steps(a)[a[k]] = k
    /\ \A k \in Height(a) + 1 .. Highest : a[k] = NoNode

LEMMA NoNodeStays ==
  ASSUME NEW up, NEW t \in Nodes, NEW a, Walk(a, up, t), NEW k \in 0 .. Highest, a[k] = NoNode
  PROVE  \A m \in k .. Highest : a[m] = NoNode
<1> DEFINE N == Highest
           K == {j \in 0 .. N : j >= k => a[j] = NoNode}
<1>1. N \in Nat
  BY NodesAreFinite
<1>2. 0 \in K
  BY <1>1
<1>3. ASSUME NEW j \in 0 .. N - 1, j \in K PROVE j + 1 \in K
  <2>1. j + 1 \in 1 .. N /\ (j + 1) - 1 = j
    BY <1>1
  <2>2. a[j + 1] = Parent(up, a[j])
    BY <2>1 DEF Walk
  <2>3. CASE j >= k
    BY <1>1, <1>3, <2>2, <2>3 DEF Parent
  <2>4. CASE j + 1 = k
    BY <1>1, <2>4
  <2> QED BY <1>1, <2>3, <2>4
<1> HIDE DEF K, N
<1>4. \A j \in 0 .. N : j \in K
  BY <1>1, <1>2, <1>3, StepByStep
<1> QED BY <1>1, <1>4 DEF K, N

LEMMA WalkGoesOn ==
  ASSUME NEW up \in Parents, Forest(up), NEW t \in Nodes, NEW a, Walk(a, up, t),
         NEW i \in 0 .. Highest, NEW j \in 0 .. Highest, i < j, a[i] = a[j]
  PROVE  a[i] = NoNode
<1> SUFFICES ASSUME a[i] # NoNode PROVE FALSE
  OBVIOUS
<1> DEFINE S == {a[k] : k \in i .. j - 1}
<1>1. Highest \in Nat
  BY NodesAreFinite
<1>2. ASSUME NEW k \in i .. j PROVE a[k] \in Nodes
  <2>1. k \in 0 .. Highest /\ j \in k .. Highest
    BY <1>1
  <2>2. a[k] # NoNode
    BY <2>1, NoNodeStays
  <2> QED BY <2>1, <2>2 DEF Walk
<1>3. S \in SUBSET Nodes /\ S # {}
  BY <1>1, <1>2
<1>4. PICK n \in S : up[n] \notin S
  BY <1>3 DEF Forest
<1>5. PICK k \in i .. j - 1 : n = a[k]
  BY <1>4
<1>6. up[n] = a[k + 1]
  <2>1. k + 1 \in 1 .. Highest /\ (k + 1) - 1 = k /\ k \in i .. j
    BY <1>1
  <2>2. a[k + 1] = Parent(up, a[k]) /\ a[k] \in Nodes
    BY <1>2, <2>1 DEF Walk
  <2> QED BY <1>5, <2>2, NodesAreFinite DEF Parent
<1>7. k + 1 \in i .. j - 1 \/ (k + 1 = j /\ i \in i .. j - 1)
  BY <1>1
<1> QED BY <1>4, <1>6, <1>7

LEMMA WalkEnds ==
  ASSUME NEW up \in Parents, Forest(up), NEW t \in Nodes, NEW a, Walk(a, up, t)
  PROVE  a[Highest] = NoNode
<1> SUFFICES ASSUME a[Highest] # NoNode PROVE FALSE
  OBVIOUS
<1>1. Highest \in Nat /\ IsFiniteSet(Nodes) /\ Cardinality(Nodes) = Highest
  BY NodesAreFinite DEF Highest
<1>2. ASSUME NEW k \in 0 .. Highest PROVE a[k] \in Nodes
  <2>1. Highest \in k .. Highest
    BY <1>1
  <2>2. a[k] # NoNode
    BY <2>1, NoNodeStays
  <2> QED BY <2>2 DEF Walk
<1>3. a \in [0 .. Highest -> Nodes]
  BY <1>2 DEF Walk
<1>4. IsFiniteSet(0 .. Highest) /\ Cardinality(0 .. Highest) = Highest + 1
  BY <1>1, FS_Interval
<1>5. PICK x \in 0 .. Highest, y \in 0 .. Highest : x # y /\ a[x] = a[y]
  <2>1. Cardinality(Nodes) < Cardinality(0 .. Highest)
    BY <1>1, <1>4
  <2> QED BY <1>1, <1>3, <1>4, <2>1, FS_PigeonHole
<1>6. x < y \/ y < x
  BY <1>1, <1>5
<1> QED BY <1>2, <1>5, <1>6, WalkGoesOn, NodesAreFinite

LEMMA WalkReaches ==
  ASSUME NEW up \in Parents, Forest(up), NEW t \in Nodes, NEW a, Walk(a, up, t)
  PROVE  Reached(a)
<1> DEFINE N == Highest
           T == {k \in 0 .. N : a[k] = NoNode}
           Top(l) == l \in 0 .. N /\ a[l] # NoNode /\ \A k \in l + 1 .. N : a[k] = NoNode
<1>1. N \in Nat /\ NoNode \notin Nodes
  BY NodesAreFinite
<1>2. N \in T
  BY <1>1, WalkEnds
<1>3. \E l \in 0 .. N : Top(l)
  <2>0. T \in SUBSET Nat /\ T # {}
    BY <1>1, <1>2
  <2>1. PICK i \in T : \A k \in T : ~(<<k, i>> \in OpToRel(<, Nat))
    <3> HIDE DEF T
    <3> QED BY <2>0, NatLessThanWellFounded, WFMin
  <2>2. i \in T /\ \A k \in T : ~(k < i)
    <3> HIDE DEF T
    <3> QED BY <2>0, <2>1 DEF OpToRel
  <2>3. i # 0
    BY <1>1, <2>2 DEF Walk
  <2>4. i - 1 \in 0 .. N /\ i - 1 \notin T
    BY <1>1, <2>2, <2>3
  <2>5. \A k \in (i - 1) + 1 .. N : a[k] = NoNode
    <3>1. \A k \in i .. N : a[k] = NoNode
      BY <2>2, NoNodeStays
    <3> QED BY <1>1, <2>2, <3>1
  <2> QED BY <2>4, <2>5
<1> DEFINE l == Height(a)
<1>4. Top(l)
  BY <1>3 DEF Height
<1> HIDE DEF l
<1>5. ASSUME NEW k \in 0 .. l
      PROVE  a[k] \in NodesOf(a) /\ a[k] \in Nodes /\ Steps(a)[a[k]] = k
  <2>1. k \in 0 .. N /\ l \in k .. N
    BY <1>1, <1>4
  <2>2. a[k] # NoNode
    BY <1>4, <2>1, NoNodeStays
  <2>3. a[k] \in NodesOf(a) /\ a[k] \in Nodes
    BY <2>1, <2>2 DEF NodesOf, Walk
  <2>4. PICK m \in 0 .. N : m = StepsTo(a, a[k]) /\ a[m] = a[k]
    BY <2>1 DEF StepsTo
  <2>5. m = k
    <3>1. m < k \/ m = k \/ k < m
      BY <1>1, <2>1
    <3> QED BY <2>1, <2>2, <2>4, <3>1, WalkGoesOn
  <2> QED BY <2>3, <2>4, <2>5 DEF Steps
<1> QED BY <1>4, <1>5 DEF Reached, l

LEMMA WayIs ==
  ASSUME NEW up \in Parents, Forest(up), NEW t \in Nodes, NEW a, Walk(a, up, t)
  PROVE  /\ IsWay(up, t, NodesOf(a) \ {t}, Steps(a), Height(a))
         /\ t \in NodesOf(a) /\ Steps(a) \in [NodesOf(a) -> Int]
<1> DEFINE N == Highest
           L == Height(a)
           W == NodesOf(a) \ {t}
           d == Steps(a)
<1>1. N \in Nat /\ NoNode \notin Nodes
  BY NodesAreFinite
<1>2. Reached(a)
  BY WalkReaches
<1>3. /\ L \in 0 .. N /\ \A k \in 0 .. L : a[k] \in NodesOf(a) /\ a[k] \in Nodes /\ d[a[k]] = k
      /\ \A k \in L + 1 .. N : a[k] = NoNode
  BY <1>2 DEF Reached
<1>4. a[0] = t /\ \A k \in 1 .. N : a[k] = Parent(up, a[k - 1])
  BY DEF Walk
<1>5. ASSUME NEW n \in NodesOf(a) PROVE \E k \in 0 .. L : a[k] = n
  <2>1. PICK k \in 0 .. N : a[k] = n /\ n # NoNode
    BY DEF NodesOf
  <2>2. k \in 0 .. L
    BY <1>1, <1>3, <2>1
  <2> QED BY <2>1, <2>2
<1> HIDE DEF L, d
<1>6. t \in NodesOf(a) /\ d[t] = 0 /\ 0 \in 0 .. L
  BY <1>1, <1>3, <1>4
<1>7. ASSUME NEW n \in W PROVE d[n] \in 1 .. L /\ n \in Nodes
  <2>1. PICK k \in 0 .. L : a[k] = n
    BY <1>5
  <2>2. k # 0 /\ d[n] = k /\ n \in Nodes
    BY <1>3, <1>4, <2>1
  <2> QED BY <1>1, <1>3, <2>2
<1>8. ASSUME NEW m \in W, NEW n \in W, d[m] = d[n] PROVE m = n
  <2>1. PICK k \in 0 .. L : a[k] = m
    BY <1>5
  <2>2. PICK i \in 0 .. L : a[i] = n
    BY <1>5
  <2> QED BY <1>3, <1>8, <2>1, <2>2
<1>9. ASSUME NEW n \in W \cup {t}
      PROVE  IF up[n] = NoNode THEN d[n] = L ELSE up[n] \in W /\ d[up[n]] = d[n] + 1
  <2>1. PICK k \in 0 .. L : a[k] = n
    BY <1>5, <1>6
  <2>2. d[n] = k /\ n \in Nodes
    BY <1>3, <2>1
  <2>3. CASE k = L
    <3>1. CASE L = N
      <4>1. a[N] = NoNode
        BY WalkEnds
      <4> QED BY <1>1, <2>1, <2>2, <2>3, <3>1, <4>1
    <3>2. CASE L # N
      <4>1. k + 1 \in 1 .. N /\ k + 1 \in L + 1 .. N /\ (k + 1) - 1 = k
        BY <1>1, <1>3, <2>3, <3>2
      <4>2. up[n] = NoNode
        BY <1>1, <1>3, <1>4, <2>1, <2>2, <4>1 DEF Parent
      <4> QED BY <2>2, <2>3, <4>2
    <3> QED BY <3>1, <3>2
  <2>4. CASE k # L
    <3>1. k + 1 \in 1 .. N /\ k + 1 \in 0 .. L /\ (k + 1) - 1 = k /\ k + 1 # 0
      BY <1>1, <1>3, <2>4
    <3>2. up[n] = a[k + 1]
      BY <1>1, <1>4, <2>1, <2>2, <3>1 DEF Parent
    <3>3. up[n] \in NodesOf(a) /\ up[n] \in Nodes /\ d[up[n]] = k + 1
      BY <1>3, <3>1, <3>2
    <3>4. up[n] # t /\ up[n] # NoNode
      BY <1>1, <1>6, <3>1, <3>3
    <3> QED BY <2>2, <3>3, <3>4
  <2> QED BY <2>3, <2>4
<1>10. d \in [NodesOf(a) -> Int]
  <2>1. \A n \in NodesOf(a) : d[n] \in Int
    <3>1. L \in Nat
      BY <1>1, <1>3
    <3> QED BY <1>6, <1>7, <3>1
  <2>2. d = [n \in NodesOf(a) |-> d[n]]
    BY DEF d, Steps
  <2> QED BY <2>1, <2>2
<1>11. L \in Nat
  BY <1>1, <1>3
<1> QED BY <1>6, <1>7, <1>8, <1>9, <1>10, <1>11 DEF IsWay, L, d

StackFrom(es, a) ==
    LET Stack[k \in 0 .. Highest] ==
            LET parent == a[k] IN
            IF k = 0 THEN <<>>
            ELSE IF parent # NoNode /\ es[parent].known THEN Append(Stack[k - 1], parent)
            ELSE Stack[k - 1]
    IN  Stack[Highest]
StackUpTo(es, W, d, k, stack) ==
    /\ \A i \in 1 .. Len(stack) : stack[i] \in W /\ d[stack[i]] \in 1 .. k
    /\ \A i, j \in 1 .. Len(stack) : i < j => d[stack[i]] < d[stack[j]]
    /\ \A n \in W : es[n].known /\ d[n] \in 1 .. k => In(n, stack)

LEMMA StackGrows ==
  ASSUME NEW es, NEW W \in SUBSET Nodes, NEW d, NEW k \in Nat, NEW stack \in Seq(Nodes),
         StackUpTo(es, W, d, k, stack), NEW n \in W, d[n] = k + 1,
         \A m \in W : d[m] = d[n] => m = n
  PROVE  StackUpTo(es, W, d, k + 1, Append(stack, n))
<1> DEFINE new == Append(stack, n)
<1>1. /\ Len(new) = Len(stack) + 1 /\ Len(stack) \in Nat
      /\ \A i \in 1 .. Len(stack) : new[i] = stack[i]
      /\ new[Len(stack) + 1] = n
  OBVIOUS
<1> HIDE DEF new
<1>2. ASSUME NEW i \in 1 .. Len(new) PROVE new[i] \in W /\ d[new[i]] \in 1 .. k + 1
  <2>1. CASE i \in 1 .. Len(stack)
    BY <1>1, <2>1 DEF StackUpTo
  <2>2. CASE i = Len(stack) + 1
    BY <1>1, <2>2
  <2> QED BY <1>1, <2>1, <2>2
<1>3. ASSUME NEW i \in 1 .. Len(new), NEW j \in 1 .. Len(new), i < j
      PROVE  d[new[i]] < d[new[j]]
  <2>1. i \in 1 .. Len(stack) /\ new[i] = stack[i] /\ d[stack[i]] \in 1 .. k
    BY <1>1, <1>3 DEF StackUpTo
  <2>2. CASE j \in 1 .. Len(stack)
    BY <1>1, <1>3, <2>1, <2>2 DEF StackUpTo
  <2>3. CASE j = Len(stack) + 1
    BY <1>1, <2>1, <2>3
  <2> QED BY <1>1, <2>2, <2>3
<1>4. ASSUME NEW m \in W, es[m].known, d[m] \in 1 .. k + 1 PROVE In(m, new)
  <2>1. CASE d[m] \in 1 .. k
    <3>1. PICK i \in 1 .. Len(stack) : stack[i] = m
      BY <1>4, <2>1 DEF StackUpTo, In
    <3>2. i \in 1 .. Len(new) /\ new[i] = m
      BY <1>1, <3>1
    <3> QED BY <3>2 DEF In
  <2>2. CASE d[m] = k + 1
    <3>1. m = n
      BY <2>2
    <3> QED BY <1>1, <3>1 DEF In
  <2> QED BY <1>4, <2>1, <2>2
<1> QED BY <1>2, <1>3, <1>4 DEF StackUpTo, new

LEMMA StackIs ==
  ASSUME NEW up \in Parents, Forest(up), NEW t \in Nodes, NEW a, Walk(a, up, t), NEW es,
         \A n \in Nodes : es[n].known \in BOOLEAN
  PROVE  /\ StackFrom(es, a) \in Seq(Nodes)
         /\ StackOf(es, NodesOf(a) \ {t}, Steps(a), 0 - (Height(a) + 1), StackFrom(es, a))
<1> DEFINE N == Highest
           L == Height(a)
           W == NodesOf(a) \ {t}
           d == Steps(a)
           S == Seq(Nodes)
           Pushed(k, s) == IF a[k] # NoNode /\ es[a[k]].known THEN Append(s, a[k]) ELSE s
           step == [k \in 1 .. N |-> [s \in S |-> Pushed(k, s)]]
           Is(f) == f = [k \in 0 .. N |->
                            IF k = 0 THEN <<>>
                            ELSE IF a[k] # NoNode /\ es[a[k]].known THEN Append(f[k - 1], a[k])
                            ELSE f[k - 1]]
<1>1. N \in Nat /\ NoNode \notin Nodes
  BY NodesAreFinite
<1>2. ASSUME NEW k \in 1 .. N, NEW s \in S PROVE Pushed(k, s) \in S
  <2>1. a[k] # NoNode => a[k] \in Nodes
    BY <1>1 DEF Walk
  <2> QED BY <2>1
<1>3. IsWay(up, t, W, d, L) /\ Reached(a)
  BY WayIs, WalkReaches
<1>4. /\ W \in SUBSET Nodes /\ L \in 0 .. N
      /\ \A n \in W : d[n] \in 1 .. L
      /\ \A m, n \in W : d[m] = d[n] => m = n
      /\ \A k \in 1 .. L : a[k] \in W /\ d[a[k]] = k
      /\ \A k \in L + 1 .. N : a[k] = NoNode
  <2>1. /\ W \in SUBSET Nodes /\ L \in 0 .. N
        /\ \A n \in W : d[n] \in 1 .. L
        /\ \A m, n \in W : d[m] = d[n] => m = n
        /\ \A k \in L + 1 .. N : a[k] = NoNode /\ d[t] = 0
    BY <1>3 DEF IsWay, Reached
  <2>2. ASSUME NEW k \in 1 .. L PROVE a[k] \in W /\ d[a[k]] = k
    <3>1. a[k] \in NodesOf(a) /\ d[a[k]] = k /\ k # 0
      BY <1>1, <1>3 DEF Reached
    <3>2. d[t] = 0
      BY <1>3 DEF IsWay
    <3> QED BY <3>1, <3>2
  <2> QED BY <2>1, <2>2
<1>5. step \in [1 .. N -> [S -> S]] /\ <<>> \in S
  <2> HIDE DEF Pushed, S
  <2>1. step \in [1 .. N -> [S -> S]]
    BY <1>2
  <2> QED BY <2>1 DEF S
<1>6. \A k \in 1 .. N, s \in S : step[k][s] = Pushed(k, s)
  OBVIOUS
<1> HIDE DEF S, step, N, W, d, L, Pushed
<1>7. PICK g \in [0 .. N -> S] : g[0] = <<>> /\ Computes(g, step, N)
  BY <1>1, <1>5, Computed
<1>8. \A k \in 1 .. N : k - 1 \in 0 .. N
  BY <1>1
<1>9. \A k \in 1 .. N : g[k] = Pushed(k, g[k - 1])
  BY <1>6, <1>7, <1>8 DEF Computes
<1>10. Is(g)
  <2>1. \A k \in 0 .. N : k = 0 \/ k \in 1 .. N
    BY <1>1
  <2> QED BY <1>7, <1>9, <2>1 DEF Pushed
<1> DEFINE f == CHOOSE h : Is(h)
<1>11. Is(f)
  BY <1>10
<1>12. StackFrom(es, a) = f[N]
  BY DEF StackFrom, N
<1> HIDE DEF f
<1>13. /\ f[0] = <<>> /\ \A k \in 1 .. N : f[k] = Pushed(k, f[k - 1])
  <2>1. 0 \in 0 .. N /\ \A k \in 1 .. N : k \in 0 .. N /\ k # 0
    BY <1>1
  <2> QED BY <1>11, <2>1 DEF Pushed
<1> DEFINE K == {k \in 0 .. N : f[k] \in S /\ StackUpTo(es, W, d, k, f[k])}
<1>14. 0 \in K
  <2>1. f[0] \in S
    BY <1>5, <1>13
  <2>2. StackUpTo(es, W, d, 0, <<>>)
    BY DEF StackUpTo
  <2> QED BY <1>1, <1>13, <2>1, <2>2
<1>15. ASSUME NEW k \in 0 .. N - 1, k \in K PROVE k + 1 \in K
  <2>1. k + 1 \in 1 .. N /\ k + 1 \in 0 .. N /\ (k + 1) - 1 = k /\ k \in Nat
    BY <1>1
  <2>2. f[k + 1] = Pushed(k + 1, f[k])
    BY <1>13, <2>1
  <2>3. f[k] \in S /\ StackUpTo(es, W, d, k, f[k])
    BY <1>15
  <2>4. f[k + 1] \in S
    BY <1>2, <2>1, <2>2, <2>3
  <2>5. StackUpTo(es, W, d, k + 1, f[k + 1])
    <3>1. CASE a[k + 1] # NoNode
      <4>1. k + 1 \in 1 .. L
        BY <1>1, <1>4, <2>1, <3>1
      <4>2. a[k + 1] \in W /\ d[a[k + 1]] = k + 1
        BY <1>4, <4>1
      <4>3. CASE es[a[k + 1]].known
        <5>1. f[k + 1] = Append(f[k], a[k + 1])
          BY <2>2, <3>1, <4>3 DEF Pushed
        <5> QED BY <1>4, <2>1, <2>3, <4>2, <5>1, StackGrows DEF S
      <4>4. CASE ~es[a[k + 1]].known
        <5>1. f[k + 1] = f[k]
          BY <2>2, <4>4 DEF Pushed
        <5>2. ASSUME NEW n \in W, es[n].known, d[n] \in 1 .. k + 1 PROVE d[n] \in 1 .. k
          <6>1. d[n] # k + 1
            BY <1>4, <4>2, <4>4, <5>2
          <6> QED BY <2>1, <5>2, <6>1
        <5>3. 1 .. k \subseteq 1 .. k + 1
          BY <2>1
        <5> QED BY <2>3, <5>1, <5>2, <5>3 DEF StackUpTo
      <4> QED BY <4>3, <4>4
    <3>2. CASE a[k + 1] = NoNode
      <4>1. f[k + 1] = f[k]
        BY <2>2, <3>2 DEF Pushed
      <4>2. ~(k + 1 \in 1 .. L)
        BY <1>1, <1>4, <3>2
      <4>3. ASSUME NEW n \in W, d[n] \in 1 .. k + 1 PROVE d[n] \in 1 .. k
        <5>1. d[n] # k + 1
          BY <1>4, <4>2
        <5> QED BY <2>1, <4>3, <5>1
      <4>4. 1 .. k \subseteq 1 .. k + 1
        BY <2>1
      <4> QED BY <2>3, <4>1, <4>3, <4>4 DEF StackUpTo
    <3> QED BY <3>1, <3>2
  <2> QED BY <2>1, <2>4, <2>5
<1> HIDE DEF K
<1>16. N \in K
  <2>1. \A k \in 0 .. N : k \in K
    BY <1>1, <1>14, <1>15, StepByStep
  <2> QED BY <1>1, <2>1
<1>17. f[N] \in S /\ StackUpTo(es, W, d, N, f[N])
  BY <1>16 DEF K
<1>18. StackOf(es, W, d, 0 - (L + 1), f[N])
  <2>1. 0 - (0 - (L + 1)) = L + 1 /\ L \in 0 .. N
    BY <1>1, <1>4
  <2>2. \A n \in W : d[n] < L + 1 /\ d[n] \in 1 .. N
    BY <1>1, <1>4
  <2> QED BY <1>17, <2>1, <2>2 DEF StackUpTo, StackOf
<1> QED BY <1>12, <1>17, <1>18 DEF S, W, d, L

LEMMA OperatorsAre ==
  /\ \A n : Events!Ancestors(n) = AncestorsOf(parentNode, n)
  /\ \A n : Events!AncestorStack(n) = StackFrom(events, AncestorsOf(parentNode, n))
  /\ Events!Way = NodesOf(AncestorsOf(parentNode, event.target))
  /\ \A n : Events!Distance(n) = StepsTo(AncestorsOf(parentNode, event.target), n)
<1>1. \A n : Events!Ancestors(n) = AncestorsOf(parentNode, n)
  BY DEF Events!Ancestors, AncestorsOf, Highest, Events!Cardinality, Cardinality
<1>2. Events!Cardinality(Nodes) = Highest
  BY DEF Highest, Events!Cardinality, Cardinality
<1>3. \A n : Events!AncestorStack(n) = StackFrom(events, AncestorsOf(parentNode, n))
  BY <1>1, <1>2 DEF Events!AncestorStack, StackFrom
<1>4. Events!Way = NodesOf(AncestorsOf(parentNode, event.target))
  BY <1>1, <1>2 DEF Events!Way, NodesOf
<1>5. \A n : Events!Distance(n) = StepsTo(AncestorsOf(parentNode, event.target), n)
  BY <1>1, <1>2 DEF Events!Distance, StepsTo
<1> QED BY <1>1, <1>3, <1>4, <1>5

-----------------------------------------------------------------------------
(* Nobody is in a list twice, and where nobody registered the lists are    *)
(* empty.                                                                  *)
Listed == {l \in Lists : /\ Once(l.CAPTURING) /\ Once(l.BUBBLING)
                         /\ ~l.known => l.CAPTURING = <<>> /\ l.BUBBLING = <<>>}
(* Whoever is to be called is called at a node.                            *)
Sound == {ev \in OnItsWay :
            /\ ev.phase \in {ev.turn, "called"}
            /\ ev.listeners # <<>> \/ ev.phase = "called" \/ ev.turn = "bubbling" =>
                  ev.currentTarget \in Nodes}
Orderly(up, es, ev, cs) ==
    LET a == AncestorsOf(up, ev.target)
    IN  Going(es, ev.target, NodesOf(a) \ {ev.target}, Steps(a), Height(a), ev, cs)

EventsInv ==
    /\ parentNode \in Parents /\ Forest(parentNode)
    /\ events \in [Nodes -> Listed]
    /\ event \in Sound \cup {Events!NoEvent} /\ calls \in Seq(Calls)
    /\ event # Events!NoEvent /\ ~disturbed => Orderly(parentNode, events, event, calls)

LEMMA EmptyIsListed == Events!Undefined \in Listed
<1>1. <<>> \in Seq(Functions) /\ Once(<<>>)
  BY DEF Once
<1> QED BY <1>1 DEF Listed, Lists, Events!Undefined

LEMMA EventsInit == ASSUME Events!Init PROVE EventsInv
<1>1. parentNode \in Parents /\ Forest(parentNode)
  BY WindowAssumption DEF Events!Init, Parents, Forest
<1>2. events \in [Nodes -> Listed]
  BY EmptyIsListed DEF Events!Init
<1>3. <<>> \in Seq(Calls)
  OBVIOUS
<1> QED BY <1>1, <1>2, <1>3 DEF Events!Init, EventsInv

(* No event is under way, or it is disturbed.                              *)
LEMMA Disturbs ==
  ASSUME EventsInv, Events!Disturb, UNCHANGED <<event, calls>>,
         parentNode' \in Parents /\ Forest(parentNode'), events' \in [Nodes -> Listed]
  PROVE  EventsInv'
<1>1. event' = Events!NoEvent \/ disturbed'
  BY DEF Events!Disturb
<1> QED BY <1>1 DEF EventsInv

LEMMA WithOne ==
  ASSUME NEW s \in Seq(Functions), Once(s), NEW fn \in Functions, fn \notin Events!ToSet(s)
  PROVE  Append(s, fn) \in Seq(Functions) /\ Once(Append(s, fn))
<1> DEFINE new == Append(s, fn)
<1>1. /\ new \in Seq(Functions) /\ Len(new) = Len(s) + 1 /\ Len(s) \in Nat
      /\ \A i \in 1 .. Len(s) : new[i] = s[i]
      /\ new[Len(s) + 1] = fn
  OBVIOUS
<1>2. \A i \in 1 .. Len(s) : s[i] # fn
  BY DEF Events!ToSet
<1> HIDE DEF new
<1>3. ASSUME NEW i \in 1 .. Len(new), NEW j \in 1 .. Len(new), new[i] = new[j] PROVE i = j
  <2>1. CASE i \in 1 .. Len(s) /\ j \in 1 .. Len(s)
    BY <1>1, <1>3, <2>1 DEF Once
  <2>2. CASE i = Len(s) + 1 \/ j = Len(s) + 1
    BY <1>1, <1>2, <1>3, <2>2
  <2> QED BY <1>1, <2>1, <2>2
<1> QED BY <1>1, <1>3 DEF Once, new

(* A list without one of its places has nobody twice either.               *)
LEMMA WithoutPlace ==
  ASSUME NEW s \in Seq(Functions), Once(s), NEW i \in 1 .. Len(s)
  PROVE  Choosing!RemoveAt(s, i) \in Seq(Functions) /\ Once(Choosing!RemoveAt(s, i))
<1> DEFINE new == Choosing!RemoveAt(s, i)
           From(k) == IF k < i THEN k ELSE k + 1
<1>1. Len(s) \in Nat /\ i \in Nat
  OBVIOUS
<1>2. /\ new \in Seq(Functions) /\ Len(new) = Len(s) - 1
      /\ \A k \in 1 .. Len(s) - 1 : new[k] = IF k < i THEN s[k] ELSE s[k + 1]
  BY RemoveAtList
<1> HIDE DEF new
<1>3. \A k \in 1 .. Len(new) : From(k) \in 1 .. Len(s) /\ new[k] = s[From(k)]
  BY <1>1, <1>2
<1>4. ASSUME NEW j \in 1 .. Len(new), NEW k \in 1 .. Len(new), new[j] = new[k] PROVE j = k
  <2>1. From(j) = From(k)
    <3> HIDE DEF From
    <3> QED BY <1>3, <1>4 DEF Once
  <2> QED BY <1>1, <1>2, <2>1
<1> QED BY <1>2, <1>4 DEF Once, new

LEMMA WithoutOne ==
  ASSUME NEW s \in Seq(Functions), Once(s), NEW fn
  PROVE  Events!Without(s, fn) \in Seq(Functions) /\ Once(Events!Without(s, fn))
<1>1. CASE fn \notin Events!ToSet(s)
  BY <1>1 DEF Events!Without
<1>2. CASE fn \in Events!ToSet(s)
  <2> DEFINE i == CHOOSE j \in DOMAIN s : s[j] = fn
  <2>1. i \in 1 .. Len(s)
    BY <1>2 DEF Events!ToSet
  <2>2. Events!Without(s, fn) = Choosing!RemoveAt(s, i)
    BY <1>2 DEF Events!Without, Events!RemoveAt, Choosing!RemoveAt
  <2> HIDE DEF i
  <2> QED BY <2>1, <2>2, WithoutPlace
<1> QED BY <1>1, <1>2

LEMMA AddListener ==
  ASSUME EventsInv, NEW n \in Nodes, NEW fn \in Functions, NEW phase \in {"CAPTURING", "BUBBLING"},
         Events!AddEventListener(n, fn, phase)
  PROVE  EventsInv'
<1> DEFINE l == events[n]
           new == IF fn \in Events!ToSet(l[phase]) THEN l[phase] ELSE Append(l[phase], fn)
           known == [l EXCEPT !.known = TRUE, ![phase] = new]
<1>1. l \in Listed /\ events \in [Nodes -> Listed]
  BY DEF EventsInv
<1>2. l[phase] \in Seq(Functions) /\ Once(l[phase])
  <2>1. CASE phase = "CAPTURING"
    BY <1>1, <2>1 DEF Listed, Lists
  <2>2. CASE phase = "BUBBLING"
    BY <1>1, <2>2 DEF Listed, Lists
  <2> QED BY <2>1, <2>2
<1>3. new \in Seq(Functions) /\ Once(new)
  BY <1>2, WithOne
<1>4. events' = [events EXCEPT ![n] = known]
  BY <1>1 DEF Events!AddEventListener, Listed, Lists
<1> HIDE DEF new
<1>5. known \in Listed
  <2>1. CASE phase = "CAPTURING"
    BY <1>1, <1>3, <2>1 DEF Listed, Lists
  <2>2. CASE phase = "BUBBLING"
    BY <1>1, <1>3, <2>2 DEF Listed, Lists
  <2> QED BY <2>1, <2>2
<1> HIDE DEF known
<1>6. events' \in [Nodes -> Listed]
  BY <1>1, <1>4, <1>5
<1>7. parentNode' \in Parents /\ Forest(parentNode')
  BY DEF EventsInv, Events!AddEventListener
<1> QED BY <1>6, <1>7, Disturbs DEF Events!AddEventListener

LEMMA RemoveListener ==
  ASSUME EventsInv, NEW n \in Nodes, NEW fn, Events!RemoveEventListener(n, fn)
  PROVE  EventsInv'
<1> DEFINE l == events[n]
           new == Events!Without(l.BUBBLING, fn)
           rest == [l EXCEPT !.BUBBLING = new]
<1>1. l \in Listed /\ events \in [Nodes -> Listed]
  BY DEF EventsInv
<1>2. new \in Seq(Functions) /\ Once(new)
  BY <1>1, WithoutOne DEF Listed, Lists
<1>3. events' = [events EXCEPT ![n] = rest]
  BY <1>1 DEF Events!RemoveEventListener
<1> HIDE DEF new
<1>4. rest \in Listed
  BY <1>1, <1>2 DEF Listed, Lists, Events!RemoveEventListener
<1> HIDE DEF rest
<1>5. events' \in [Nodes -> Listed]
  BY <1>1, <1>3, <1>4
<1>6. parentNode' \in Parents /\ Forest(parentNode')
  BY DEF EventsInv, Events!RemoveEventListener
<1> QED BY <1>5, <1>6, Disturbs DEF Events!RemoveEventListener

LEMMA RemoveAllListeners ==
  ASSUME EventsInv, NEW n \in Nodes, Events!RemoveEveryListener(n)
  PROVE  EventsInv'
<1>1. events' \in [Nodes -> Listed]
  BY EmptyIsListed DEF EventsInv, Events!RemoveEveryListener
<1>2. parentNode' \in Parents /\ Forest(parentNode')
  BY DEF EventsInv, Events!RemoveEveryListener
<1> QED BY <1>1, <1>2, Disturbs DEF Events!RemoveEveryListener

LEMMA RemoveOneNode ==
  ASSUME EventsInv, NEW n \in Nodes, Events!RemoveNode(n)
  PROVE  EventsInv'
<1>1. /\ parentNode \in Parents /\ Forest(parentNode)
      /\ parentNode' = [parentNode EXCEPT ![n] = NoNode]
  BY DEF EventsInv, Events!RemoveNode
<1>2. parentNode' \in Parents
  BY <1>1 DEF Parents
<1>3. Forest(parentNode')
  <2>1. \A m \in Nodes : parentNode'[m] = parentNode[m] \/ parentNode'[m] = NoNode
    BY <1>1 DEF Parents
  <2> QED BY <1>1, <2>1, NodesAreFinite DEF Forest
<1>4. events' \in [Nodes -> Listed]
  BY EmptyIsListed DEF EventsInv, Events!RemoveNode
<1> QED BY <1>2, <1>3, <1>4, Disturbs DEF Events!RemoveNode

LEMMA Underway ==
  ASSUME EventsInv, event.phase \in Turns \cup {"called"}
  PROVE  /\ event \in Sound /\ event \in OnItsWay /\ event # Events!NoEvent
         /\ event.phase \in Turns => event.phase = event.turn
         /\ \A n \in Nodes : events[n] \in Listed
         /\ \A n \in Nodes : /\ events[n].CAPTURING \in Seq(Callees)
                               /\ events[n].BUBBLING \in Seq(Callees)
<1>1. event # Events!NoEvent
  BY DEF Events!NoEvent, Turns
<1>2. event \in Sound /\ event \in OnItsWay
  BY <1>1 DEF EventsInv, Sound
<1>3. "called" \notin Turns
  BY DEF Turns
<1>4. ASSUME NEW s \in Seq(Functions) PROVE s \in Seq(Callees)
  <2>1. \A i \in 1 .. Len(s) : s[i] \in Callees
    BY DEF Callees
  <2> QED BY <2>1
<1>5. \A n \in Nodes : events[n] \in Listed
  BY DEF EventsInv
<1>6. \A n \in Nodes : events[n].CAPTURING \in Seq(Callees) /\ events[n].BUBBLING \in Seq(Callees)
  BY <1>4, <1>5 DEF Listed, Lists
<1> QED BY <1>1, <1>2, <1>3, <1>5, <1>6 DEF Sound

LEMMA TurnFields ==
  ASSUME event \in Sound, NEW node \in Nodes \cup {NoNode}, NEW turn \in Turns,
         NEW ls \in Seq(Callees), Events!TurnTo(node, turn, ls),
         ls # <<>> \/ turn = "bubbling" => node \in Nodes
  PROVE  /\ event' \in Sound /\ event'.target = event.target /\ event'.cancelled = event.cancelled
         /\ event'.phase = turn /\ event'.turn = turn /\ event'.currentTarget = node
         /\ event'.listeners = ls
<1>1. event \in OnItsWay
  BY DEF Sound
<1>2. event' = [event EXCEPT !.currentTarget = node, !.phase = turn, !.turn = turn,
                             !.listeners = ls]
  BY DEF Events!TurnTo
<1>3. /\ event'.target = event.target /\ event'.cancelled = event.cancelled
      /\ event'.phase = turn /\ event'.turn = turn /\ event'.currentTarget = node
      /\ event'.listeners = ls
  BY <1>1, <1>2 DEF OnItsWay
<1>4. event' \in OnItsWay
  BY <1>1, <1>2 DEF OnItsWay
<1>5. turn # "called"
  BY DEF Turns
<1> QED BY <1>3, <1>4, <1>5 DEF Sound

LEMMA CallFields ==
  ASSUME EventsInv, Events!Call
  PROVE  LET c == [node |-> event.currentTarget, turn |-> event.turn,
                   fn |-> Head(event.listeners), cancelled |-> FALSE]
         IN  /\ event \in Sound /\ event # Events!NoEvent /\ event' \in Sound
             /\ c \in Calls /\ calls' = Append(calls, c)
             /\ event'.target = event.target /\ event'.cancelled = event.cancelled
             /\ event'.turn = event.turn /\ event'.currentTarget = event.currentTarget
             /\ event'.stack = event.stack /\ event.listeners # <<>>
             /\ event'.listeners = Tail(event.listeners) /\ event.phase # "called"
<1> DEFINE c == [node |-> event.currentTarget, turn |-> event.turn,
                 fn |-> Head(event.listeners), cancelled |-> FALSE]
<1>1. /\ event.phase # "none" /\ event.phase # "called" /\ event.listeners # <<>>
      /\ event' = [event EXCEPT !.phase = "called", !.listeners = Tail(event.listeners)]
      /\ calls' = Append(calls, [node |-> event.currentTarget, turn |-> event.phase,
                                 fn |-> Head(event.listeners), cancelled |-> FALSE])
  BY DEF Events!Call
<1>2. event \in Sound
  BY <1>1 DEF EventsInv, Events!NoEvent
<1>3. event \in OnItsWay /\ event.phase = event.turn /\ event.currentTarget \in Nodes
  BY <1>1, <1>2 DEF Sound
<1>4. event.listeners \in Seq(Callees) /\ event.turn \in Turns
  BY <1>3 DEF OnItsWay
<1>5. Head(event.listeners) \in Callees /\ Tail(event.listeners) \in Seq(Callees)
  BY <1>1, <1>4
<1>6. c \in Calls
  BY <1>3, <1>4, <1>5 DEF Calls
<1>7. calls' = Append(calls, c)
  BY <1>1, <1>3
<1>8. /\ event'.target = event.target /\ event'.cancelled = event.cancelled
      /\ event'.turn = event.turn /\ event'.currentTarget = event.currentTarget
      /\ event'.stack = event.stack /\ event'.phase = "called"
      /\ event'.listeners = Tail(event.listeners)
  BY <1>1, <1>3 DEF OnItsWay
<1>9. event' \in OnItsWay
  BY <1>1, <1>3, <1>5 DEF OnItsWay
<1>10. event' \in Sound
  BY <1>3, <1>8, <1>9 DEF Sound
<1> QED BY <1>1, <1>2, <1>3, <1>6, <1>7, <1>8, <1>10, Underway DEF OnItsWay

LEMMA ReturnFields ==
  ASSUME EventsInv, NEW stops \in BOOLEAN, Events!Return(stops)
  PROVE  /\ event \in Sound /\ event # Events!NoEvent /\ event' \in Sound
         /\ event.phase = "called" /\ event'.phase # "called"
         /\ event'.target = event.target /\ (event.cancelled => event'.cancelled)
         /\ event'.turn = event.turn /\ event'.currentTarget = event.currentTarget
         /\ event'.stack = event.stack /\ event'.listeners = event.listeners
         /\ calls' \in Seq(Calls) /\ Len(calls') = Len(calls)
         /\ Len(calls) # 0 => calls'[Len(calls)].cancelled = event'.cancelled
         /\ \A i \in 1 .. Len(calls) :
               /\ calls'[i].turn = calls[i].turn /\ calls'[i].node = calls[i].node
               /\ calls'[i].fn = calls[i].fn
               /\ i # Len(calls) => calls'[i].cancelled = calls[i].cancelled
<1> DEFINE stopped == event.cancelled \/ (stops /\ event.cancelable)
           size == Len(calls)
           again == [calls[size] EXCEPT !.cancelled = stopped]
<1>1. /\ event.phase = "called"
      /\ event' = [event EXCEPT !.phase = event.turn, !.cancelled = stopped]
      /\ calls' = [calls EXCEPT ![size] = again]
  BY DEF Events!Return
<1>2. event \in Sound /\ event \in OnItsWay /\ event # Events!NoEvent
  BY <1>1, Underway
<1>3. stopped \in BOOLEAN /\ event.turn \in Turns /\ (event.cancelled => stopped)
  BY <1>2 DEF OnItsWay
<1> HIDE DEF stopped
<1>4. /\ event'.target = event.target /\ event'.cancelled = stopped
      /\ event'.turn = event.turn /\ event'.currentTarget = event.currentTarget
      /\ event'.stack = event.stack /\ event'.phase = event.turn
      /\ event'.listeners = event.listeners
  BY <1>1, <1>2 DEF OnItsWay
<1>5. event' \in OnItsWay
  BY <1>1, <1>2, <1>3 DEF OnItsWay
<1>6. event' \in Sound /\ event'.phase # "called"
  <2>1. event'.phase # "called"
    BY <1>3, <1>4 DEF Turns
  <2>2. event.currentTarget \in Nodes
    BY <1>1, <1>2 DEF Sound
  <2> QED BY <1>4, <1>5, <2>1, <2>2 DEF Sound
<1>7. calls \in Seq(Calls) /\ size \in Nat
  BY DEF EventsInv
<1>8. CASE size = 0
  <2>1. calls' = calls
    BY <1>1, <1>7, <1>8
  <2> QED BY <1>1, <1>2, <1>3, <1>4, <1>6, <1>7, <1>8, <2>1
<1>9. CASE size # 0
  <2>1. size \in 1 .. Len(calls) /\ calls[size] \in Calls
    BY <1>7, <1>9
  <2>2. /\ again \in Calls /\ again.cancelled = stopped
        /\ again.turn = calls[size].turn /\ again.node = calls[size].node
        /\ again.fn = calls[size].fn
    BY <1>3, <2>1 DEF Calls
  <2> HIDE DEF again
  <2>3. /\ calls' \in Seq(Calls) /\ Len(calls') = Len(calls) /\ calls'[size] = again
        /\ \A i \in 1 .. Len(calls) : i # size => calls'[i] = calls[i]
    <3> HIDE DEF size
    <3> QED BY <1>1, <1>7, <2>1, <2>2
  <2> HIDE DEF size
  <2>4. \A i \in 1 .. Len(calls) :
               /\ calls'[i].turn = calls[i].turn /\ calls'[i].node = calls[i].node
               /\ calls'[i].fn = calls[i].fn
               /\ i # size => calls'[i].cancelled = calls[i].cancelled
    BY <2>1, <2>2, <2>3
  <2>5. calls'[size].cancelled = event'.cancelled
    BY <1>4, <2>2, <2>3
  <2> QED BY <1>1, <1>2, <1>3, <1>4, <1>6, <2>3, <2>4, <2>5 DEF size
<1> QED BY <1>8, <1>9

(* A step that leaves the nodes and their listeners as they are need only  *)
(* keep the event on its way.                                              *)
LEMMA GoesOn ==
  ASSUME EventsInv, event \in Sound, event # Events!NoEvent,
         event' \in Sound, event'.target = event.target, calls' \in Seq(Calls),
         UNCHANGED <<parentNode, events, disturbed>>,
         \A W, d, L : /\ IsWay(parentNode, event.target, W, d, L)
                      /\ Going(events, event.target, W, d, L, event, calls)
                      => Going(events, event.target, W, d, L, event', calls')
  PROVE  EventsInv'
<1> DEFINE t == event.target
           a == AncestorsOf(parentNode, t)
<1>1. t \in Nodes /\ parentNode \in Parents /\ Forest(parentNode)
  BY DEF EventsInv, Sound, OnItsWay
<1>2. Walk(a, parentNode, t)
  BY <1>1, AncestorsAre
<1> HIDE DEF a
<1>3. IsWay(parentNode, t, NodesOf(a) \ {t}, Steps(a), Height(a))
  BY <1>1, <1>2, WayIs
<1>4. ~disturbed => Going(events, t, NodesOf(a) \ {t}, Steps(a), Height(a), event, calls)
  BY DEF EventsInv, Orderly, a
<1>5. ~disturbed => Going(events, t, NodesOf(a) \ {t}, Steps(a), Height(a), event', calls')
  BY <1>3, <1>4
<1>6. ~disturbed => Orderly(parentNode, events, event', calls')
  BY <1>5 DEF Orderly, a
<1> QED BY <1>6 DEF EventsInv

LEMMA CallStep == ASSUME EventsInv, Events!Call PROVE EventsInv'
<1> DEFINE c == [node |-> event.currentTarget, turn |-> event.turn,
                 fn |-> Head(event.listeners), cancelled |-> FALSE]
<1>1. /\ event \in Sound /\ event # Events!NoEvent /\ event' \in Sound
      /\ c \in Calls /\ calls' = Append(calls, c)
      /\ event'.target = event.target /\ event'.cancelled = event.cancelled
      /\ event'.turn = event.turn /\ event'.currentTarget = event.currentTarget
      /\ event'.stack = event.stack /\ event.listeners # <<>>
      /\ event'.listeners = Tail(event.listeners)
  BY CallFields
<1>2. calls \in Seq(Calls) /\ UNCHANGED <<parentNode, events, disturbed>>
  BY DEF EventsInv, Events!Call
<1>3. /\ c.node = event.currentTarget /\ c.turn = event.turn /\ c.fn = Head(event.listeners)
      /\ ~c.cancelled
  OBVIOUS
<1> HIDE DEF c
<1>4. calls' \in Seq(Calls) /\ event \in OnItsWay /\ event' \in OnItsWay
  BY <1>1, <1>2 DEF Sound
<1>5. ASSUME NEW W, NEW d, NEW L, IsWay(parentNode, event.target, W, d, L),
             Going(events, event.target, W, d, L, event, calls)
      PROVE  Going(events, event.target, W, d, L, event', calls')
  BY <1>1, <1>2, <1>3, <1>4, <1>5, NextCall
<1> QED BY <1>1, <1>2, <1>4, <1>5, GoesOn

LEMMA ReturnStep ==
  ASSUME EventsInv, NEW stops \in BOOLEAN, Events!Return(stops)
  PROVE  EventsInv'
<1>1. /\ event \in Sound /\ event # Events!NoEvent /\ event' \in Sound
      /\ event.phase = "called" /\ event'.phase # "called"
      /\ event'.target = event.target /\ (event.cancelled => event'.cancelled)
      /\ event'.turn = event.turn /\ event'.currentTarget = event.currentTarget
      /\ event'.stack = event.stack /\ event'.listeners = event.listeners
      /\ calls' \in Seq(Calls) /\ Len(calls') = Len(calls)
      /\ Len(calls) # 0 => calls'[Len(calls)].cancelled = event'.cancelled
      /\ \A i \in 1 .. Len(calls) :
            /\ calls'[i].turn = calls[i].turn /\ calls'[i].node = calls[i].node
            /\ calls'[i].fn = calls[i].fn
            /\ i # Len(calls) => calls'[i].cancelled = calls[i].cancelled
  BY ReturnFields
<1>2. calls \in Seq(Calls) /\ UNCHANGED <<parentNode, events, disturbed>>
  BY DEF EventsInv, Events!Return
<1>3. event \in OnItsWay /\ event' \in OnItsWay
  BY <1>1 DEF Sound
<1>4. ASSUME NEW W, NEW d, NEW L, IsWay(parentNode, event.target, W, d, L),
             Going(events, event.target, W, d, L, event, calls)
      PROVE  Going(events, event.target, W, d, L, event', calls')
  <2>1. calls # <<>>
    BY <1>1, <1>4 DEF Going, Stopped
  <2>2. Len(calls) # 0
    BY <1>2, <2>1
  <2> QED BY <1>1, <1>2, <1>3, <1>4, <2>2, Returned
<1> QED BY <1>1, <1>2, <1>4, GoesOn

(* The next one is the one behind here, and no other node is between.      *)
LEMMA OneFurther ==
  ASSUME NEW up, NEW t, NEW W, NEW d, NEW L, IsWay(up, t, W, d, L), NEW es, NEW ev, NEW e,
         Here(d, L, ev) \in Int, e.turn \in Turns, Proper(t, W, e.turn, e.currentTarget),
         Here(d, L, e) = Place(d, e.turn, e.currentTarget),
         Here(d, L, e) = Here(d, L, ev) + 1,
         Registered(es, e.turn, e.currentTarget) = e.listeners
  PROVE  Passes(es, t, W, d, L, ev, e)
<1> DEFINE here == Here(d, L, ev)
           next == Here(d, L, e)
<1>1. Places(t, W, d, L)
  BY PlaceIs
<1> HIDE DEF here, next
<1>2. ASSUME NEW turn \in Turns, NEW n \in Nodes, Proper(t, W, turn, n)
      PROVE  /\ Place(d, turn, n) = next => Registered(es, turn, n) = e.listeners
             /\ ~(here < Place(d, turn, n) /\ Place(d, turn, n) < next)
  <2>1. Place(d, turn, n) \in Int
    BY <1>1, <1>2 DEF Places
  <2>2. Place(d, turn, n) = next => turn = e.turn /\ n = e.currentTarget
    <3>1. Place(d, e.turn, e.currentTarget) = next
      BY DEF next
    <3> QED BY <1>1, <1>2, <3>1 DEF Places
  <2> QED BY <2>1, <2>2 DEF here, next
<1> QED BY <1>2 DEF Passes, here, next

LEMMA CallOn ==
  ASSUME NEW W, NEW d, NEW L, IsWay(parentNode, event.target, W, d, L),
         Going(events, event.target, W, d, L, event, calls),
         event \in OnItsWay, event' \in OnItsWay, calls \in Seq(Calls), calls' = calls,
         event.listeners = <<>>, Once(event'.listeners), event'.cancelled = event.cancelled,
         event'.phase # "called",
         event'.turn # "capturing",
         Here(d, L, event) \in Int,
         Proper(event.target, W, event'.turn, event'.currentTarget),
         Place(d, event'.turn, event'.currentTarget) = Here(d, L, event) + 1,
         Registered(events, event'.turn, event'.currentTarget) = event'.listeners
  PROVE  Going(events, event.target, W, d, L, event', calls')
<1>1. Here(d, L, event') = Place(d, event'.turn, event'.currentTarget) /\ event'.turn \in Turns
  BY DEF Here, OnItsWay
<1>2. Passes(events, event.target, W, d, L, event, event')
  BY <1>1, OneFurther
<1> QED BY <1>2, NextTurn

(* A node's listeners, or its handler, are to be called each once.         *)
LEMMA OnceEach ==
  ASSUME EventsInv, NEW turn \in Turns, NEW n \in Nodes
  PROVE  Registered(events, turn, n) \in Seq(Callees) /\ Once(Registered(events, turn, n))
<1>1. events[n] \in Listed
  BY DEF EventsInv
<1>2. \A s \in Seq(Functions) : s \in Seq(Callees)
  <2>1. ASSUME NEW s \in Seq(Functions) PROVE s \in Seq(Callees)
    <3>1. \A i \in 1 .. Len(s) : s[i] \in Callees
      BY DEF Callees
    <3> QED BY <3>1
  <2> QED BY <2>1
<1>3. /\ <<"on">> \in Seq(Callees) /\ Once(<<"on">>)
      /\ <<>> \in Seq(Callees) /\ Once(<<>>)
  BY DEF Callees, Once
<1>4. CASE turn = "handler"
  BY <1>3, <1>4 DEF Registered
<1>5. CASE turn # "handler"
  BY <1>1, <1>2, <1>5 DEF Registered, Listed, Lists
<1> QED BY <1>4, <1>5

LEMMA AtTargetStep == ASSUME EventsInv, Events!AtTarget PROVE EventsInv'
<1> DEFINE t == event.target
           ls == events[t].BUBBLING
<1>1. /\ event.phase = "targetCapturing" /\ event.listeners = <<>>
      /\ Events!TurnTo(t, "targetBubbling", ls)
      /\ UNCHANGED <<parentNode, events, calls, disturbed>>
  BY DEF Events!AtTarget, Events!Idle, Events!Same
<1>2. /\ event \in Sound /\ event \in OnItsWay /\ event # Events!NoEvent
      /\ event.turn = "targetCapturing"
  BY <1>1, Underway DEF Turns
<1>3. t \in Nodes /\ "targetBubbling" \in Turns /\ Registered(events, "targetBubbling", t) = ls
  BY <1>2 DEF OnItsWay, Turns, Registered
<1>4. ls \in Seq(Callees) /\ Once(ls)
  BY <1>3, OnceEach
<1>5. /\ event' \in Sound /\ event'.target = t /\ event'.cancelled = event.cancelled
      /\ event'.phase = "targetBubbling" /\ event'.turn = "targetBubbling"
      /\ event'.currentTarget = t /\ event'.listeners = ls
  BY <1>1, <1>2, <1>3, <1>4, TurnFields
<1>6. calls \in Seq(Calls) /\ event' \in OnItsWay
  BY <1>5 DEF EventsInv, Sound
<1> HIDE DEF ls
<1>7. ASSUME NEW W, NEW d, NEW L, IsWay(parentNode, event.target, W, d, L),
             Going(events, event.target, W, d, L, event, calls)
      PROVE  Going(events, event.target, W, d, L, event', calls')
  <2>1. Places(t, W, d, L)
    BY <1>7, PlaceIs
  <2>2. Here(d, L, event) = 0
    BY <1>2, <2>1 DEF Here, Places
  <2>3. Proper(t, W, "targetBubbling", t) /\ Place(d, "targetBubbling", t) = 1
    BY <2>1 DEF Proper, Places
  <2> QED BY <1>1, <1>2, <1>3, <1>4, <1>5, <1>6, <1>7, <2>2, <2>3, CallOn
<1> QED BY <1>1, <1>2, <1>5, <1>6, <1>7, GoesOn

LEMMA HandleStep == ASSUME EventsInv, Events!Handle PROVE EventsInv'
<1> DEFINE t == event.target
           ls == IF t \in Handled THEN <<"on">> ELSE <<>>
<1>1. /\ event.phase = "targetBubbling" /\ event.listeners = <<>>
      /\ Events!TurnTo(t, "handler", ls)
      /\ UNCHANGED <<parentNode, events, calls, disturbed>>
  BY DEF Events!Handle, Events!Idle, Events!Same
<1>2. /\ event \in Sound /\ event \in OnItsWay /\ event # Events!NoEvent
      /\ event.turn = "targetBubbling"
  BY <1>1, Underway DEF Turns
<1>3. t \in Nodes /\ "handler" \in Turns /\ Registered(events, "handler", t) = ls
  BY <1>2 DEF OnItsWay, Turns, Registered
<1>4. ls \in Seq(Callees) /\ Once(ls)
  BY <1>3, OnceEach
<1> HIDE DEF ls
<1>5. /\ event' \in Sound /\ event'.target = t /\ event'.cancelled = event.cancelled
      /\ event'.phase = "handler" /\ event'.turn = "handler"
      /\ event'.currentTarget = t /\ event'.listeners = ls
  BY <1>1, <1>2, <1>3, <1>4, TurnFields
<1>6. calls \in Seq(Calls) /\ event' \in OnItsWay
  BY <1>5 DEF EventsInv, Sound
<1>7. ASSUME NEW W, NEW d, NEW L, IsWay(parentNode, event.target, W, d, L),
             Going(events, event.target, W, d, L, event, calls)
      PROVE  Going(events, event.target, W, d, L, event', calls')
  <2>1. Places(t, W, d, L)
    BY <1>7, PlaceIs
  <2>2. Here(d, L, event) = 1
    BY <1>2, <2>1 DEF Here, Places
  <2>3. Proper(t, W, "handler", t) /\ Place(d, "handler", t) = 2
    BY <2>1 DEF Proper, Places
  <2> QED BY <1>1, <1>2, <1>3, <1>4, <1>5, <1>6, <1>7, <2>2, <2>3, CallOn
<1> QED BY <1>1, <1>2, <1>5, <1>6, <1>7, GoesOn

LEMMA BubbleStep == ASSUME EventsInv, Events!BubbleEvent PROVE EventsInv'
<1> DEFINE t == event.target
           from == IF event.turn = "handler" THEN t ELSE event.currentTarget
           n == parentNode[from]
           ls == events[n].BUBBLING
<1>1. /\ event.phase \in {"handler", "bubbling"} /\ event.listeners = <<>>
      /\ n # NoNode /\ Events!TurnTo(n, "bubbling", ls)
      /\ UNCHANGED <<parentNode, events, calls, disturbed>>
  BY DEF Events!BubbleEvent, Events!Idle, Events!Same
<1>2. /\ event \in Sound /\ event \in OnItsWay /\ event # Events!NoEvent
      /\ event.turn = event.phase /\ event.turn \in {"handler", "bubbling"}
  BY <1>1, Underway DEF Turns
<1>3. t \in Nodes /\ from \in Nodes /\ n \in Nodes
  <2>1. t \in Nodes /\ from \in Nodes
    BY <1>2 DEF Sound, OnItsWay
  <2> QED BY <1>1, <2>1 DEF EventsInv, Parents
<1>4. "bubbling" \in Turns /\ Registered(events, "bubbling", n) = ls
  BY DEF Turns, Registered
<1> HIDE DEF n
<1>5. ls \in Seq(Callees) /\ Once(ls)
  BY <1>3, <1>4, OnceEach
<1> HIDE DEF ls
<1>6. /\ event' \in Sound /\ event'.target = t /\ event'.cancelled = event.cancelled
      /\ event'.phase = "bubbling" /\ event'.turn = "bubbling"
      /\ event'.currentTarget = n /\ event'.listeners = ls
  BY <1>1, <1>2, <1>3, <1>4, <1>5, TurnFields
<1>7. calls \in Seq(Calls) /\ event' \in OnItsWay
  BY <1>6 DEF EventsInv, Sound
<1>8. ASSUME NEW W, NEW d, NEW L, IsWay(parentNode, event.target, W, d, L),
             Going(events, event.target, W, d, L, event, calls)
      PROVE  Going(events, event.target, W, d, L, event', calls')
  <2>1. Places(t, W, d, L)
    BY <1>8, PlaceIs
  <2>2. ToBeCalled(t, W, event, calls)
    BY <1>8 DEF Going
  <2>3. event.turn = "bubbling" => event.currentTarget \in W
    BY <1>2, <2>2 DEF ToBeCalled, Proper
  <2>4. from \in W \cup {t} /\ Here(d, L, event) = d[from] + 2
    <3>1. d[t] = 0
      BY <1>8 DEF IsWay
    <3> QED BY <1>2, <2>1, <2>3, <3>1 DEF Here, Places
  <2> HIDE DEF from
  <2>5. n \in W /\ d[n] = d[from] + 1 /\ d[from] \in Int
    <3>1. d[from] \in Int
      BY <1>8, <2>4 DEF IsWay
    <3> QED BY <1>1, <1>8, <2>4, <3>1 DEF IsWay, n
  <2>6. Proper(t, W, "bubbling", n) /\ Place(d, "bubbling", n) = d[n] + 2
    BY <2>1, <2>5 DEF Proper, Places
  <2>7. Place(d, "bubbling", n) = Here(d, L, event) + 1 /\ Here(d, L, event) \in Int
    BY <2>4, <2>5, <2>6
  <2> QED BY <1>1, <1>2, <1>4, <1>5, <1>6, <1>7, <1>8, <2>6, <2>7, CallOn
<1> QED BY <1>1, <1>2, <1>6, <1>7, <1>8, GoesOn

LEMMA CaptureFields ==
  ASSUME EventsInv, Events!CaptureEvent
  PROVE  LET s == event.stack
             n == s[Len(s)]
             own == events[event.target]
         IN  /\ event \in Sound /\ event # Events!NoEvent /\ event.turn = "capturing"
             /\ event.phase = "capturing" /\ event.listeners = <<>>
             /\ event' \in Sound /\ event'.target = event.target
             /\ event'.cancelled = event.cancelled /\ event'.phase # "called"
             /\ \/ /\ s # <<>> /\ ~event.cancelled
                   /\ event'.turn = "capturing" /\ event'.currentTarget = n /\ n \in Nodes
                   /\ event'.stack = SubSeq(s, 1, Len(s) - 1)
                   /\ event'.listeners = events[n].CAPTURING
                \/ /\ s = <<>> \/ event.cancelled
                   /\ own.known
                   /\ event'.turn = "targetCapturing" /\ event'.currentTarget = event.target
                   /\ event'.listeners = own.CAPTURING
                \/ /\ s = <<>> \/ event.cancelled
                   /\ ~own.known
                   /\ event'.turn = "targetBubbling" /\ event'.listeners = <<>>
<1> DEFINE s == event.stack
           n == s[Len(s)]
           own == events[event.target]
<1>1. /\ event.phase = "capturing" /\ event.listeners = <<>>
      /\ IF s # <<>> /\ ~event.cancelled
         THEN event' = [event EXCEPT !.stack = SubSeq(s, 1, Len(s) - 1), !.currentTarget = n,
                                     !.listeners = events[n].CAPTURING]
         ELSE IF own.known THEN Events!TurnTo(event.target, "targetCapturing", own.CAPTURING)
         ELSE Events!TurnTo(event.currentTarget, "targetBubbling", <<>>)
  BY DEF Events!CaptureEvent, Events!Idle, Events!Last, Events!Front
<1>2. /\ event \in Sound /\ event \in OnItsWay /\ event # Events!NoEvent
      /\ event.turn = "capturing"
      /\ \A m \in Nodes : /\ events[m].CAPTURING \in Seq(Callees)
                            /\ events[m].BUBBLING \in Seq(Callees)
  BY <1>1, Underway DEF Turns
<1>3. /\ event.target \in Nodes /\ event.currentTarget \in Nodes \cup {NoNode}
      /\ s \in Seq(Nodes)
      /\ "capturing" \in Turns /\ "targetCapturing" \in Turns /\ "targetBubbling" \in Turns
  BY <1>2 DEF OnItsWay, Turns
<1>4. CASE s # <<>> /\ ~event.cancelled
  <2>1. event' = [event EXCEPT !.stack = SubSeq(s, 1, Len(s) - 1), !.currentTarget = n,
                               !.listeners = events[n].CAPTURING]
    BY <1>1, <1>4
  <2>2. n \in Nodes
    BY <1>3, <1>4
  <2>3. SubSeq(s, 1, Len(s) - 1) \in Seq(Nodes)
    <3>1. \A i \in 1 .. Len(s) - 1 : s[i] \in Nodes
      BY <1>3
    <3>2. Len(s) \in Nat /\ 1 \in Int /\ Len(s) - 1 \in Int
      BY <1>3
    <3> HIDE DEF s
    <3> QED BY <1>3, <3>1, <3>2, SubSeqProperties
  <2>4. events[n].CAPTURING \in Seq(Callees)
    BY <1>2, <2>2
  <2> HIDE DEF n, s
  <2>5. /\ event'.target = event.target /\ event'.cancelled = event.cancelled
        /\ event'.turn = "capturing" /\ event'.phase = "capturing"
        /\ event'.currentTarget = n /\ event'.stack = SubSeq(s, 1, Len(s) - 1)
        /\ event'.listeners = events[n].CAPTURING
    BY <1>1, <1>2, <2>1 DEF OnItsWay
  <2>6. event' \in OnItsWay
    BY <1>2, <2>1, <2>2, <2>3, <2>4 DEF OnItsWay
  <2>7. event' \in Sound
    BY <2>2, <2>5, <2>6 DEF Sound
  <2> QED BY <1>1, <1>2, <1>4, <2>2, <2>5, <2>7 DEF n, s
<1>5. CASE (s = <<>> \/ event.cancelled) /\ own.known
  <2>1. Events!TurnTo(event.target, "targetCapturing", own.CAPTURING)
    BY <1>1, <1>5
  <2>2. own.CAPTURING \in Seq(Callees)
    BY <1>2, <1>3
  <2> HIDE DEF own, s
  <2>3. /\ event' \in Sound /\ event'.target = event.target /\ event'.cancelled = event.cancelled
        /\ event'.phase = "targetCapturing" /\ event'.turn = "targetCapturing"
        /\ event'.currentTarget = event.target /\ event'.listeners = own.CAPTURING
    BY <1>2, <1>3, <2>1, <2>2, TurnFields
  <2> QED BY <1>1, <1>2, <1>5, <2>3 DEF own, s
<1>6. CASE (s = <<>> \/ event.cancelled) /\ ~own.known
  <2>1. Events!TurnTo(event.currentTarget, "targetBubbling", <<>>)
    BY <1>1, <1>6
  <2>2. <<>> \in Seq(Callees)
    OBVIOUS
  <2>3. /\ event' \in Sound /\ event'.target = event.target /\ event'.cancelled = event.cancelled
        /\ event'.phase = "targetBubbling" /\ event'.turn = "targetBubbling"
        /\ event'.listeners = <<>>
    BY <1>2, <1>3, <2>1, <2>2, TurnFields
  <2> QED BY <1>1, <1>2, <1>6, <2>3
<1> QED BY <1>4, <1>5, <1>6

(* While it captures, the ancestors between here and the next one on the   *)
(* stack are not listened to.                                              *)
LEMMA NobodyBetween ==
  ASSUME EventsInv, event \in OnItsWay, event.turn = "capturing", event.listeners = <<>>,
         NEW W, NEW d, NEW L, IsWay(parentNode, event.target, W, d, L),
         Going(events, event.target, W, d, L, event, calls),
         NEW n \in W, Here(d, L, event) < Place(d, "capturing", n),
         \A i \in 1 .. Len(event.stack) : event.stack[i] # n
  PROVE  events[n].CAPTURING = <<>>
<1> DEFINE here == Here(d, L, event)
<1>1. /\ Places(event.target, W, d, L) /\ d[n] \in Int /\ n \in Nodes
      /\ ToBeCalled(event.target, W, event, calls)
      /\ StackOf(events, W, d, here, event.stack)
  <2>1. Places(event.target, W, d, L)
    BY PlaceIs
  <2> QED BY <2>1 DEF Going, IsWay
<1>2. here \in Int /\ Place(d, "capturing", n) = 0 - d[n]
  BY <1>1, HereIs DEF Places
<1> HIDE DEF here
<1>3. d[n] < 0 - here
  BY <1>1, <1>2 DEF here
<1>4. ~events[n].known
  BY <1>1, <1>3 DEF StackOf, In
<1>5. events[n] \in Listed
  BY <1>1 DEF EventsInv
<1> QED BY <1>4, <1>5 DEF Listed

(* The next ancestor has its turn.                                         *)
LEMMA ToAncestor ==
  ASSUME EventsInv, event \in OnItsWay, event' \in OnItsWay, calls' = calls,
         event.turn = "capturing", event.listeners = <<>>, event'.phase # "called",
         event'.cancelled = event.cancelled, event'.turn = "capturing",
         event.stack # <<>>, event'.currentTarget = event.stack[Len(event.stack)],
         event'.stack = SubSeq(event.stack, 1, Len(event.stack) - 1),
         event'.listeners = events[event'.currentTarget].CAPTURING,
         NEW W, NEW d, NEW L, IsWay(parentNode, event.target, W, d, L),
         Going(events, event.target, W, d, L, event, calls)
  PROVE  Going(events, event.target, W, d, L, event', calls')
<1> DEFINE t == event.target
           s == event.stack
           r == event'.stack
           n == event'.currentTarget
           here == Here(d, L, event)
           next == Here(d, L, event')
           size == Len(s)
<1>1. /\ Places(t, W, d, L) /\ W \subseteq Nodes /\ \A m \in W : d[m] \in Int
      /\ \A m, k \in W : d[m] = d[k] => m = k
      /\ ToBeCalled(t, W, event, calls) /\ StackOf(events, W, d, here, s)
  <2>1. Places(t, W, d, L)
    BY PlaceIs
  <2> QED BY <2>1 DEF Going, IsWay
<1>2. here \in Int /\ calls \in Seq(Calls)
  BY <1>1, HereIs DEF EventsInv
<1>3. s \in Seq(Nodes) /\ size \in Nat \ {0} /\ n = s[size]
  <2>1. s \in Seq(Nodes)
    BY DEF OnItsWay
  <2> QED BY <2>1
<1>4. n \in W /\ d[n] < 0 - here /\ n \in Nodes
  <2>1. size \in 1 .. Len(s)
    BY <1>3
  <2> QED BY <1>1, <1>3, <2>1 DEF StackOf
<1>5. next = 0 - d[n] /\ n # NoNode /\ next = Place(d, "capturing", n)
      /\ Proper(t, W, "capturing", n)
  BY <1>1, <1>4, NodesAreFinite DEF Here, Places, Proper
<1>6. Registered(events, "capturing", n) = event'.listeners /\ Once(event'.listeners)
  <2>1. Registered(events, "capturing", n) = event'.listeners
    BY DEF Registered
  <2>2. "capturing" \in Turns
    BY DEF Turns
  <2> QED BY <1>4, <2>1, <2>2, OnceEach
<1>7. r \in Seq(Nodes) /\ Len(r) = size - 1 /\ \A i \in 1 .. size - 1 : r[i] = s[i]
  <2>1. \A i \in 1 .. size - 1 : s[i] \in Nodes
    BY <1>3
  <2>2. 1 \in Int /\ size - 1 \in Int /\ r = SubSeq(s, 1, size - 1)
    BY <1>3
  <2> HIDE DEF s, size, r
  <2> QED BY <1>3, <2>1, <2>2, SubSeqProperties
<1> HIDE DEF s, r, n, here, next, size
<1>8. \A i \in 1 .. size : d[s[i]] <= d[n] /\ s[i] \in W /\ (i # size => d[s[i]] < d[n])
  <2>1. ASSUME NEW i \in 1 .. size
        PROVE  d[s[i]] <= d[n] /\ s[i] \in W /\ (i # size => d[s[i]] < d[n])
    <3>1. s[i] \in W /\ d[s[i]] \in Int /\ d[n] \in Int
      BY <1>1, <1>4 DEF StackOf, size
    <3>2. i < size => d[s[i]] < d[s[size]]
      BY <1>1, <1>3 DEF StackOf, size
    <3> QED BY <1>3, <3>1, <3>2
  <2> QED BY <2>1
<1>9. Passes(events, t, W, d, L, event, event')
  <2>1. here < next
    BY <1>1, <1>2, <1>4, <1>5
  <2>2. ASSUME NEW turn \in Turns, NEW m \in Nodes, Proper(t, W, turn, m)
        PROVE  /\ Place(d, turn, m) = next => Registered(events, turn, m) = event'.listeners
               /\ here < Place(d, turn, m) /\ Place(d, turn, m) < next =>
                     Registered(events, turn, m) = <<>>
    <3>1. "capturing" \in Turns
      BY DEF Turns
    <3>2. Place(d, turn, m) = next => turn = "capturing" /\ m = n
      BY <1>1, <1>5, <2>2, <3>1 DEF Places
    <3>3. ASSUME here < Place(d, turn, m), Place(d, turn, m) < next
          PROVE  Registered(events, turn, m) = <<>>
      <4>1. Place(d, turn, m) \in Int /\ next < 0
        <5>1. Place(d, "capturing", n) < 0
          BY <1>1, <1>5, <3>1 DEF Places
        <5> QED BY <1>1, <1>5, <2>2, <5>1 DEF Places
      <4>2. turn = "capturing"
        <5>1. next \in Int
          BY <1>1, <1>4, <1>5
        <5>2. Place(d, turn, m) < 0
          BY <3>3, <4>1, <5>1
        <5> QED BY <1>1, <2>2, <5>2 DEF Places
      <4>3. m \in W /\ Place(d, turn, m) = 0 - d[m]
        BY <1>1, <2>2, <4>2 DEF Proper, Places
      <4>4. d[n] < d[m]
        BY <1>1, <1>4, <1>5, <3>3, <4>3
      <4>5. \A i \in 1 .. Len(event.stack) : event.stack[i] # m
        BY <1>1, <1>4, <1>8, <4>3, <4>4 DEF s, size
      <4>6. events[m].CAPTURING = <<>>
        BY <3>3, <4>2, <4>3, <4>5, NobodyBetween DEF here
      <4> QED BY <4>2, <4>6 DEF Registered
    <3> QED BY <1>6, <3>2, <3>3
  <2> QED BY <2>1, <2>2 DEF Passes, here, next
<1>10. StackOf(events, W, d, next, r)
  <2>1. 0 - next = d[n]
    BY <1>1, <1>4, <1>5
  <2>2. \A i \in 1 .. Len(r) : r[i] \in W /\ d[r[i]] < d[n]
    <3>1. \A i \in 1 .. Len(r) : i \in 1 .. size /\ i # size /\ r[i] = s[i]
      BY <1>3, <1>7
    <3> QED BY <1>8, <3>1
  <2>3. \A i, j \in 1 .. Len(r) : i < j => d[r[i]] < d[r[j]]
    <3>1. \A i \in 1 .. Len(r) : i \in 1 .. size /\ r[i] = s[i]
      BY <1>3, <1>7
    <3> QED BY <1>1, <3>1 DEF StackOf, size
  <2>4. ASSUME NEW m \in W, events[m].known, d[m] < d[n] PROVE In(m, r)
    <3>1. d[m] < 0 - here
      BY <1>1, <1>2, <1>4, <2>4
    <3>2. PICK i \in 1 .. size : s[i] = m
      BY <1>1, <2>4, <3>1 DEF StackOf, In, size
    <3>3. i # size
      BY <1>1, <1>3, <1>4, <2>4, <3>2
    <3>4. i \in 1 .. Len(r) /\ r[i] = m
      BY <1>3, <1>7, <3>2, <3>3
    <3> QED BY <3>4 DEF In
  <2> QED BY <2>1, <2>2, <2>3, <2>4 DEF StackOf
<1>11. Proper(t, W, event'.turn, event'.currentTarget)
  BY <1>5 DEF n
<1> QED BY <1>2, <1>6, <1>9, <1>10, <1>11, NextTurn DEF next, r

(* The other ancestors are left out, and the target has its turn.          *)
LEMMA ToTarget ==
  ASSUME EventsInv, event \in OnItsWay, event' \in OnItsWay, calls' = calls,
         event.turn = "capturing", event.listeners = <<>>, event'.phase # "called",
         event'.cancelled = event.cancelled,
         event.stack = <<>> \/ event.cancelled,
         \/ /\ event'.turn = "targetCapturing" /\ event'.currentTarget = event.target
            /\ event'.listeners = events[event.target].CAPTURING
         \/ /\ event'.turn = "targetBubbling" /\ event'.listeners = <<>>
            /\ ~events[event.target].known,
         NEW W, NEW d, NEW L, IsWay(parentNode, event.target, W, d, L),
         Going(events, event.target, W, d, L, event, calls)
  PROVE  Going(events, event.target, W, d, L, event', calls')
<1> DEFINE t == event.target
           here == Here(d, L, event)
           next == Here(d, L, event')
<1>1. /\ Places(t, W, d, L) /\ W \subseteq Nodes /\ t \in Nodes
      /\ ToBeCalled(t, W, event, calls)
  <2>1. Places(t, W, d, L)
    BY PlaceIs
  <2> QED BY <2>1 DEF Going, IsWay
<1>2. here \in Int /\ calls \in Seq(Calls)
  BY <1>1, HereIs DEF EventsInv
<1>3. here < 0
  <2>1. CASE event.currentTarget = NoNode
    BY <1>1, <2>1 DEF Here, IsWay
  <2>2. CASE event.currentTarget # NoNode
    <3>1. Proper(t, W, "capturing", event.currentTarget) /\ "capturing" \in Turns
      BY <1>1, <2>2 DEF ToBeCalled, Turns
    <3> QED BY <1>1, <2>2, <3>1 DEF Here, Places
  <2> QED BY <2>1, <2>2
<1>4. /\ next \in {0, 1}
      /\ event'.turn = "targetCapturing" => next = 0
      /\ event'.turn = "targetBubbling" => next = 1
  BY <1>1 DEF Here, Places
<1>5. events[t] \in Listed
  BY <1>1 DEF EventsInv
<1>6. Once(event'.listeners)
  <2>1. Once(<<>>)
    BY DEF Once
  <2> QED BY <1>5, <2>1 DEF Listed
<1> HIDE DEF here, next
<1>7. ASSUME NEW turn \in Turns, NEW m \in Nodes, Proper(t, W, turn, m),
             here < Place(d, turn, m), Place(d, turn, m) <= next
      PROVE  \/ /\ Place(d, turn, m) < next
                /\ Registered(events, turn, m) = <<>> \/ (turn = "capturing" /\ event.cancelled)
             \/ Place(d, turn, m) = next /\ Registered(events, turn, m) = event'.listeners
  <2>1. Place(d, turn, m) \in Int
    BY <1>1, <1>7 DEF Places
  <2>2. CASE turn = "capturing"
    <3>1. Place(d, turn, m) < next
      BY <1>1, <1>4, <1>7, <2>1, <2>2 DEF Places
    <3>2. m \in W
      BY <1>7, <2>2 DEF Proper
    <3>3. CASE event.stack = <<>>
      <4>1. events[m].CAPTURING = <<>>
        BY <1>7, <2>2, <3>2, <3>3, NobodyBetween DEF here
      <4> QED BY <2>2, <3>1, <4>1 DEF Registered
    <3>4. CASE event.cancelled
      BY <2>2, <3>1, <3>4
    <3> QED BY <3>3, <3>4
  <2>3. CASE turn # "capturing"
    <3>1. 0 <= Place(d, turn, m) /\ Place(d, turn, m) <= 1
      BY <1>1, <1>4, <1>7, <2>1, <2>3 DEF Places
    <3>2. /\ Proper(t, W, "targetCapturing", t) /\ Proper(t, W, "targetBubbling", t)
          /\ Place(d, "targetCapturing", t) = 0 /\ Place(d, "targetBubbling", t) = 1
          /\ "targetCapturing" \in Turns /\ "targetBubbling" \in Turns
      BY <1>1 DEF Proper, Places, Turns
    <3>3. /\ Place(d, turn, m) = 0 => turn = "targetCapturing" /\ m = t
          /\ Place(d, turn, m) = 1 => turn = "targetBubbling" /\ m = t
      BY <1>1, <1>7, <3>2 DEF Places
    <3>4. /\ Registered(events, "targetCapturing", t) = events[t].CAPTURING
          /\ Registered(events, "targetBubbling", t) = events[t].BUBBLING
      BY DEF Registered
    <3>5. CASE event'.turn = "targetCapturing"
      <4>1. Place(d, turn, m) = 0
        BY <1>4, <1>7, <2>1, <3>1, <3>5
      <4> QED BY <1>4, <3>3, <3>4, <3>5, <4>1
    <3>6. CASE event'.turn = "targetBubbling"
      <4>1. events[t].CAPTURING = <<>> /\ events[t].BUBBLING = <<>> /\ event'.listeners = <<>>
        BY <1>5, <3>6 DEF Listed
      <4>2. Place(d, turn, m) = 0 \/ Place(d, turn, m) = 1
        BY <2>1, <3>1
      <4> QED BY <1>4, <3>3, <3>4, <3>6, <4>1, <4>2
    <3> QED BY <3>5, <3>6
  <2> QED BY <2>2, <2>3
<1>8. Passes(events, t, W, d, L, event, event')
  <2>1. here < next /\ next \in Int
    BY <1>2, <1>3, <1>4
  <2>2. \A turn \in Turns, m \in Nodes : Proper(t, W, turn, m) => Place(d, turn, m) \in Int
    BY <1>1 DEF Places
  <2> QED BY <1>2, <1>7, <2>1, <2>2 DEF Passes, here, next
<1>9. \/ Proper(t, W, event'.turn, event'.currentTarget)
      \/ event'.listeners = <<>> /\ event'.turn = "targetBubbling"
  BY DEF Proper
<1>10. event'.turn # "capturing"
  OBVIOUS
<1> QED BY <1>2, <1>6, <1>8, <1>9, <1>10, NextTurn

LEMMA CaptureStep == ASSUME EventsInv, Events!CaptureEvent PROVE EventsInv'
<1> DEFINE s == event.stack
           n == s[Len(s)]
           own == events[event.target]
<1>1. /\ event \in Sound /\ event # Events!NoEvent /\ event.turn = "capturing"
      /\ event.phase = "capturing" /\ event.listeners = <<>>
      /\ event' \in Sound /\ event'.target = event.target
      /\ event'.cancelled = event.cancelled /\ event'.phase # "called"
      /\ \/ /\ s # <<>> /\ ~event.cancelled
            /\ event'.turn = "capturing" /\ event'.currentTarget = n /\ n \in Nodes
            /\ event'.stack = SubSeq(s, 1, Len(s) - 1)
            /\ event'.listeners = events[n].CAPTURING
         \/ /\ s = <<>> \/ event.cancelled
            /\ own.known
            /\ event'.turn = "targetCapturing" /\ event'.currentTarget = event.target
            /\ event'.listeners = own.CAPTURING
         \/ /\ s = <<>> \/ event.cancelled
            /\ ~own.known
            /\ event'.turn = "targetBubbling" /\ event'.listeners = <<>>
  BY CaptureFields
<1>2. UNCHANGED <<parentNode, events, calls, disturbed>> /\ calls' \in Seq(Calls)
  BY DEF EventsInv, Events!CaptureEvent, Events!Same
<1>3. event \in OnItsWay /\ event' \in OnItsWay
  BY <1>1 DEF Sound
<1>4. ASSUME NEW W, NEW d, NEW L, IsWay(parentNode, event.target, W, d, L),
             Going(events, event.target, W, d, L, event, calls)
      PROVE  Going(events, event.target, W, d, L, event', calls')
  <2>1. CASE /\ s # <<>> /\ event'.turn = "capturing" /\ event'.currentTarget = n
             /\ event'.stack = SubSeq(s, 1, Len(s) - 1)
             /\ event'.listeners = events[n].CAPTURING
    BY <1>1, <1>2, <1>3, <1>4, <2>1, ToAncestor
  <2>2. CASE /\ s = <<>> \/ event.cancelled
             /\ \/ /\ event'.turn = "targetCapturing" /\ event'.currentTarget = event.target
                   /\ event'.listeners = own.CAPTURING
                \/ /\ event'.turn = "targetBubbling" /\ event'.listeners = <<>> /\ ~own.known
    BY <1>1, <1>2, <1>3, <1>4, <2>2, ToTarget
  <2> HIDE DEF s, n, own
  <2> QED BY <1>1, <2>1, <2>2
<1> QED BY <1>1, <1>2, <1>4, GoesOn

LEMMA DispatchStep ==
  ASSUME EventsInv, NEW n \in Nodes, NEW bubbles \in BOOLEAN, NEW cancelable \in BOOLEAN,
         Events!DispatchEvent(n, bubbles, cancelable)
  PROVE  EventsInv'
<1> DEFINE a == AncestorsOf(parentNode, n)
           L == Height(a)
           W == NodesOf(a) \ {n}
           d == Steps(a)
           stack == StackFrom(events, a)
<1>1. /\ parentNode \in Parents /\ Forest(parentNode) /\ events \in [Nodes -> Listed]
      /\ \A m \in Nodes : events[m].known \in BOOLEAN
  BY DEF EventsInv, Listed, Lists
<1>2. Walk(a, parentNode, n)
  BY <1>1, AncestorsAre
<1>3. Events!AncestorStack(n) = stack
  BY OperatorsAre
<1>4. /\ event' = [phase |-> "capturing", target |-> n, bubbles |-> bubbles,
                   cancelable |-> cancelable, cancelled |-> FALSE,
                   currentTarget |-> NoNode, turn |-> "capturing", listeners |-> <<>>,
                   stack |-> stack]
      /\ calls' = <<>> /\ UNCHANGED <<parentNode, events>>
  BY <1>3 DEF Events!DispatchEvent
<1> HIDE DEF a
<1>5. stack \in Seq(Nodes) /\ StackOf(events, W, d, 0 - (L + 1), stack)
  BY <1>1, <1>2, StackIs
<1>6. IsWay(parentNode, n, W, d, L)
  BY <1>1, <1>2, WayIs
<1> HIDE DEF L, W, d, stack
<1>7. event' \in Sound
  BY <1>4, <1>5 DEF Sound, OnItsWay, Turns
<1>8. Here(d, L, event') = 0 - (L + 1) /\ L \in Nat
  BY <1>4, <1>6 DEF Here, IsWay
<1>9. Going(events, n, W, d, L, event', <<>>)
  <2>1. InTurn(n, W, d, Here(d, L, event'), <<>>)
    BY DEF InTurn
  <2>2. ToBeCalled(n, W, event', <<>>)
    BY <1>4 DEF ToBeCalled, Once, In
  <2>3. CalledUpTo(events, n, W, d, 0 - (L + 1), <<>>, <<>>)
    <3>1. ASSUME NEW turn \in Turns, NEW m \in Nodes, Proper(n, W, turn, m)
          PROVE  ~(Place(d, turn, m) <= 0 - (L + 1))
      <4>1. Place(d, turn, m) \in Int /\ 0 - L <= Place(d, turn, m)
        BY <1>6, <3>1, PlaceIs DEF Places
      <4> QED BY <1>8, <4>1
    <3> QED BY <3>1 DEF CalledUpTo
  <2>4. Stopped(event', <<>>)
    BY <1>4 DEF Stopped
  <2> QED BY <1>4, <1>5, <1>8, <2>1, <2>2, <2>3, <2>4 DEF Going
<1>10. Orderly(parentNode, events, event', <<>>)
  BY <1>4, <1>9 DEF Orderly, L, W, d, a
<1>11. <<>> \in Seq(Calls)
  OBVIOUS
<1> QED BY <1>1, <1>4, <1>7, <1>10, <1>11 DEF EventsInv

LEMMA EventsStep == ASSUME EventsInv, Events!Next PROVE EventsInv'
<1>1. ASSUME event' = Events!NoEvent, Events!Same PROVE EventsInv'
  BY <1>1 DEF EventsInv, Events!Same
<1>2. CASE Events!Throw \/ Events!Finish
  BY <1>1, <1>2 DEF Events!Throw, Events!Finish
<1>3. CASE \E n \in Nodes, fn \in Functions :
              \/ \E phase \in {"CAPTURING", "BUBBLING"} : Events!AddEventListener(n, fn, phase)
              \/ Events!RemoveEventListener(n, fn)
  BY <1>3, AddListener, RemoveListener
<1>4. CASE \E n \in Nodes : Events!RemoveEveryListener(n) \/ Events!RemoveNode(n)
  BY <1>4, RemoveAllListeners, RemoveOneNode
<1>5. CASE \E n \in Nodes, bubbles, cancelable \in BOOLEAN :
              Events!DispatchEvent(n, bubbles, cancelable)
  BY <1>5, DispatchStep
<1>6. CASE \E stops \in BOOLEAN : Events!Return(stops)
  BY <1>6, ReturnStep
<1> QED BY <1>2, <1>3, <1>4, <1>5, <1>6, CallStep, CaptureStep, AtTargetStep, HandleStep,
           BubbleStep DEF Events!Next

-----------------------------------------------------------------------------
(* Where a call stands to the target, as a number of steps.                *)
RankOf(place) == IF place <= 0 THEN place ELSE IF place <= 2 THEN 0 ELSE place - 2

(* The way of the event, and what is known of the calls on it.             *)
OnIts(t, W, d, L) ==
    /\ IsWay(parentNode, t, W, d, L) /\ Places(t, W, d, L)
    /\ Going(events, t, W, d, L, event, calls)
    /\ event \in Sound /\ t = event.target
    /\ W = Events!Way \ {t} /\ \A n \in W : Events!Distance(n) = d[n]

LEMMA WayOfEvent ==
  ASSUME EventsInv, Events!Undisturbed
  PROVE  \E W, d, L : OnIts(event.target, W, d, L)
<1> DEFINE t == event.target
           a == AncestorsOf(parentNode, t)
           W == NodesOf(a) \ {t}
           d == Steps(a)
           L == Height(a)
<1>1. event # Events!NoEvent /\ ~disturbed
  BY DEF Events!Undisturbed
<1>2. event \in Sound /\ Orderly(parentNode, events, event, calls)
  BY <1>1 DEF EventsInv
<1>3. t \in Nodes /\ parentNode \in Parents /\ Forest(parentNode)
  BY <1>2 DEF EventsInv, Sound, OnItsWay
<1>4. Walk(a, parentNode, t)
  BY <1>3, AncestorsAre
<1>5. Going(events, t, W, d, L, event, calls)
  BY <1>2 DEF Orderly
<1>6. W = Events!Way \ {t} /\ \A n \in W : Events!Distance(n) = d[n]
  <2>1. Events!Way = NodesOf(a) /\ \A n : Events!Distance(n) = StepsTo(a, n)
    BY OperatorsAre
  <2> HIDE DEF a
  <2> QED BY <2>1 DEF Steps
<1> HIDE DEF a
<1>7. IsWay(parentNode, t, W, d, L)
  BY <1>3, <1>4, WayIs
<1> HIDE DEF W, d, L
<1>8. Places(t, W, d, L)
  BY <1>7, PlaceIs
<1> QED BY <1>2, <1>5, <1>6, <1>7, <1>8 DEF OnIts

LEMMA RankIs ==
  ASSUME NEW W, NEW d, NEW L, OnIts(event.target, W, d, L),
         NEW c, c.turn \in Turns, Proper(event.target, W, c.turn, c.node)
  PROVE  /\ Place(d, c.turn, c.node) \in Int
         /\ Events!Rank(c) = RankOf(Place(d, c.turn, c.node))
<1> DEFINE t == event.target
           place == Place(d, c.turn, c.node)
<1>1. /\ Places(t, W, d, L) /\ L \in Nat /\ \A n \in W : d[n] \in 1 .. L
      /\ \A n \in W : Events!Distance(n) = d[n]
  BY DEF OnIts, IsWay
<1>2. CASE c.turn = "capturing"
  <2>1. c.node \in W /\ place = 0 - d[c.node]
    BY <1>1, <1>2 DEF Proper, Places
  <2>2. Events!Rank(c) = -Events!Distance(c.node)
    BY <1>2 DEF Events!Rank
  <2> QED BY <1>1, <2>1, <2>2 DEF RankOf
<1>3. CASE c.turn = "bubbling"
  <2>1. c.node \in W /\ place = d[c.node] + 2
    BY <1>1, <1>3 DEF Proper, Places
  <2>2. Events!Rank(c) = Events!Distance(c.node)
    BY <1>3 DEF Events!Rank
  <2> QED BY <1>1, <2>1, <2>2 DEF RankOf
<1>4. CASE c.turn \notin {"capturing", "bubbling"}
  <2>1. place \in 0 .. 2
    BY <1>1, <1>4 DEF Turns, Places
  <2>2. Events!Rank(c) = 0
    BY <1>4 DEF Events!Rank
  <2> QED BY <2>1, <2>2 DEF RankOf
<1> QED BY <1>2, <1>3, <1>4

(* The calls have their turns as they come, and each is a stop or none.    *)
LEMMA CallRanks ==
  ASSUME EventsInv, NEW W, NEW d, NEW L, OnIts(event.target, W, d, L)
  PROVE  \A i \in 1 .. Len(calls) :
            /\ Place(d, calls[i].turn, calls[i].node) \in Int
            /\ Events!Rank(calls[i]) = RankOf(Place(d, calls[i].turn, calls[i].node))
            /\ calls[i].cancelled => RankOf(Place(d, calls[i].turn, calls[i].node)) \in Events!Stops
<1> SUFFICES ASSUME NEW i \in 1 .. Len(calls)
             PROVE  /\ Place(d, calls[i].turn, calls[i].node) \in Int
                    /\ Events!Rank(calls[i]) = RankOf(Place(d, calls[i].turn, calls[i].node))
                    /\ calls[i].cancelled =>
                          RankOf(Place(d, calls[i].turn, calls[i].node)) \in Events!Stops
  OBVIOUS
<1>1. calls \in Seq(Calls)
  BY DEF EventsInv
<1>2. calls[i].turn \in Turns
  <2>1. calls[i] \in Calls
    BY <1>1
  <2> QED BY <2>1 DEF Calls
<1>3. Proper(event.target, W, calls[i].turn, calls[i].node)
  BY DEF OnIts, Going, InTurn
<1>4. /\ Place(d, calls[i].turn, calls[i].node) \in Int
      /\ Events!Rank(calls[i]) = RankOf(Place(d, calls[i].turn, calls[i].node))
  BY <1>2, <1>3, RankIs
<1>5. calls[i].cancelled => Events!Rank(calls[i]) \in Events!Stops
  BY <1>1 DEF Events!Stops
<1> QED BY <1>4, <1>5

LEMMA CallsAreInOrder ==
  ASSUME EventsInv, NEW W, NEW d, NEW L, OnIts(event.target, W, d, L)
  PROVE  Events!InOrder
<1> SUFFICES ASSUME NEW i \in DOMAIN calls, NEW j \in DOMAIN calls, i < j
             PROVE  /\ Events!Rank(calls[i]) <= Events!Rank(calls[j])
                    /\ <<calls[i].node, calls[i].turn, calls[i].fn>>
                          # <<calls[j].node, calls[j].turn, calls[j].fn>>
  BY DEF Events!InOrder
<1> DEFINE p == Place(d, calls[i].turn, calls[i].node)
           q == Place(d, calls[j].turn, calls[j].node)
<1>1. i \in 1 .. Len(calls) /\ j \in 1 .. Len(calls)
  BY DEF EventsInv
<1>2. /\ p <= q
      /\ ~(calls[i].turn = calls[j].turn /\ calls[i].node = calls[j].node
           /\ calls[i].fn = calls[j].fn)
  BY <1>1 DEF OnIts, Going, InTurn
<1>3. /\ p \in Int /\ q \in Int
      /\ Events!Rank(calls[i]) = RankOf(p) /\ Events!Rank(calls[j]) = RankOf(q)
  BY <1>1, CallRanks
<1> HIDE DEF p, q
<1>4. RankOf(p) <= RankOf(q)
  BY <1>2, <1>3 DEF RankOf
<1> QED BY <1>2, <1>3, <1>4

(* Whoever's turn it was before here was called, or the event was stopped. *)
LEMMA CalledBefore ==
  ASSUME EventsInv, NEW W, NEW d, NEW L, OnIts(event.target, W, d, L), event.listeners = <<>>,
         NEW turn \in Turns \ {"handler"}, NEW n, Proper(event.target, W, turn, n),
         Place(d, turn, n) <= Here(d, L, event)
  PROVE  Events!Heard(n, turn)
<1> DEFINE t == event.target
           place == Place(d, turn, n)
           phase == IF turn \in {"capturing", "targetCapturing"} THEN "CAPTURING" ELSE "BUBBLING"
           rank == Events!Rank([node |-> n, turn |-> turn])
<1>1. place \in Int /\ rank = RankOf(place)
  BY RankIs
<1>2. n \in Nodes /\ (turn = "capturing" <=> place < 0)
  BY DEF OnIts, Places
<1>3. \/ turn = "capturing" /\ StoppedBefore(d, calls, place)
      \/ \A f \in Callees : In(f, Registered(events, turn, n)) => WasCalled(calls, turn, n, f)
  <2>1. CalledUpTo(events, t, W, d, Here(d, L, event), <<>>, calls)
    BY DEF OnIts, Going
  <2> QED BY <1>2, <2>1 DEF CalledUpTo, In
<1>4. CASE turn = "capturing" /\ StoppedBefore(d, calls, place)
  <2>1. PICK i \in 1 .. Len(calls) :
           calls[i].cancelled /\ Place(d, calls[i].turn, calls[i].node) < place
    BY <1>4 DEF StoppedBefore
  <2> DEFINE p == Place(d, calls[i].turn, calls[i].node)
  <2>2. p \in Int /\ RankOf(p) \in Events!Stops /\ p < place
    BY <2>1, CallRanks
  <2> HIDE DEF p, place
  <2>3. rank < 0 /\ RankOf(p) < rank
    BY <1>1, <1>2, <1>4, <2>2 DEF RankOf
  <2>4. RankOf(p) \in Int /\ rank \in Int
    BY <1>1, <2>2 DEF RankOf
  <2>5. ~Events!Reaches(rank)
    <3> HIDE DEF rank
    <3> QED BY <2>2, <2>3, <2>4 DEF Events!Reaches
  <2> QED BY <2>5 DEF Events!Heard
<1>5. CASE \A f \in Callees : In(f, Registered(events, turn, n)) => WasCalled(calls, turn, n, f)
  <2> HIDE DEF place, rank
  <2>1. events[n] \in Lists /\ calls \in Seq(Calls)
    BY <1>2 DEF EventsInv, Listed
  <2>2. Registered(events, turn, n) = events[n][phase] /\ events[n][phase] \in Seq(Functions)
    BY <2>1 DEF Registered, Lists
  <2>3. ASSUME NEW fn \in Events!ToSet(events[n][phase])
        PROVE  \E i \in DOMAIN calls : calls[i].node = n /\ calls[i].turn = turn /\ calls[i].fn = fn
    <3> HIDE DEF phase
    <3>1. PICK k \in 1 .. Len(events[n][phase]) : events[n][phase][k] = fn
      BY <2>2 DEF Events!ToSet
    <3>2. fn \in Callees /\ In(fn, Registered(events, turn, n))
      BY <2>2, <3>1 DEF Callees, In
    <3>3. WasCalled(calls, turn, n, fn)
      BY <1>5, <3>2
    <3>4. DOMAIN calls = 1 .. Len(calls)
      BY <2>1
    <3> QED BY <3>3, <3>4 DEF WasCalled
  <2> QED BY <2>3 DEF Events!Heard
<1> QED BY <1>3, <1>4, <1>5

LEMMA AllWereCalled ==
  ASSUME EventsInv, NEW W, NEW d, NEW L, OnIts(event.target, W, d, L), Events!Ends
  PROVE  Events!AllAreCalled
<1> DEFINE t == event.target
           here == Here(d, L, event)
<1>1. /\ Places(t, W, d, L) /\ L \in Nat /\ \A n \in W : d[n] \in 1 .. L
      /\ InTurn(t, W, d, here, calls) /\ ToBeCalled(t, W, event, calls) /\ Stopped(event, calls)
      /\ event \in OnItsWay /\ event \in Sound
  BY DEF OnIts, IsWay, Going, Sound
<1>2. /\ event.listeners = <<>>
      /\ event.phase = "handler" \/ event.phase = "bubbling"
      /\ event.turn = event.phase
  BY <1>1 DEF Events!Ends, Events!Idle, Sound
<1>3. CASE event.phase = "handler"
  <2>1. here = 2
    BY <1>1, <1>2, <1>3 DEF Here, Places
  <2>2. ASSUME NEW n \in W PROVE Events!Heard(n, "bubbling")
    <3> DEFINE rank == Events!Rank([node |-> n, turn |-> "bubbling"])
    <3>1. rank = d[n] /\ d[n] \in 1 .. L
      BY <1>1 DEF OnIts, Events!Rank
    <3>2. SUFFICES ASSUME Events!Reaches(rank) PROVE FALSE
      BY DEF Events!Heard
    <3> HIDE DEF rank
    <3>3. event.bubbles /\ \A s \in Events!Stops : s > 0
      BY <1>1, <3>1, <3>2 DEF Events!Reaches
    <3>4. ~event.cancelled
      <4> SUFFICES ASSUME event.cancelled PROVE FALSE
        OBVIOUS
      <4>1. PICK i \in 1 .. Len(calls) : calls[i].cancelled
        BY <1>1 DEF Stopped
      <4> DEFINE p == Place(d, calls[i].turn, calls[i].node)
      <4>2. p \in Int /\ RankOf(p) \in Events!Stops
        BY <4>1, CallRanks
      <4>3. p <= 2
        BY <1>1, <2>1 DEF InTurn
      <4> HIDE DEF p
      <4>4. RankOf(p) <= 0 /\ RankOf(p) \in Int
        BY <4>2, <4>3 DEF RankOf
      <4> QED BY <3>3, <4>2, <4>4
    <3>5. parentNode[t] = NoNode
      BY <1>3, <3>3, <3>4 DEF Events!Ends, Events!Idle
    <3>6. L = 0
      BY <3>5 DEF OnIts, IsWay
    <3> QED BY <3>1, <3>6
  <2>3. ASSUME NEW n \in W PROVE Events!Heard(n, "capturing")
    <3>1. Proper(t, W, "capturing", n) /\ "capturing" \in Turns \ {"handler"}
      BY DEF Proper, Turns
    <3>2. Place(d, "capturing", n) <= here
      BY <1>1, <2>1, <2>3 DEF Places
    <3> QED BY <1>2, <3>1, <3>2, CalledBefore
  <2>4. Events!Heard(t, "targetCapturing") /\ Events!Heard(t, "targetBubbling")
    <3>1. /\ Proper(t, W, "targetCapturing", t) /\ "targetCapturing" \in Turns \ {"handler"}
          /\ Proper(t, W, "targetBubbling", t) /\ "targetBubbling" \in Turns \ {"handler"}
          /\ Place(d, "targetCapturing", t) <= here /\ Place(d, "targetBubbling", t) <= here
      BY <1>1, <2>1 DEF Proper, Turns, Places
    <3> QED BY <1>2, <3>1, CalledBefore
  <2> QED BY <2>2, <2>3, <2>4 DEF OnIts, Events!AllAreCalled
<1>4. CASE event.phase = "bubbling"
  <2>1. here = L + 2
    <3>1. event.currentTarget \in W
      BY <1>1, <1>2, <1>4 DEF ToBeCalled, Proper
    <3>2. parentNode[event.currentTarget] = NoNode
      BY <1>4 DEF Events!Ends, Events!Idle
    <3>3. d[event.currentTarget] = L
      BY <3>1, <3>2 DEF OnIts, IsWay
    <3> QED BY <1>1, <1>2, <1>4, <3>3 DEF Here, Places
  <2>2. ASSUME NEW n \in W PROVE Events!Heard(n, "bubbling") /\ Events!Heard(n, "capturing")
    <3>1. /\ Proper(t, W, "capturing", n) /\ "capturing" \in Turns \ {"handler"}
          /\ Proper(t, W, "bubbling", n) /\ "bubbling" \in Turns \ {"handler"}
      BY DEF Proper, Turns
    <3>2. Place(d, "capturing", n) <= here /\ Place(d, "bubbling", n) <= here
      BY <1>1, <2>1, <2>2 DEF Places
    <3> QED BY <1>2, <3>1, <3>2, CalledBefore
  <2>3. Events!Heard(t, "targetCapturing") /\ Events!Heard(t, "targetBubbling")
    <3>1. /\ Proper(t, W, "targetCapturing", t) /\ "targetCapturing" \in Turns \ {"handler"}
          /\ Proper(t, W, "targetBubbling", t) /\ "targetBubbling" \in Turns \ {"handler"}
          /\ Place(d, "targetCapturing", t) <= here /\ Place(d, "targetBubbling", t) <= here
      BY <1>1, <2>1 DEF Proper, Turns, Places
    <3> QED BY <1>2, <3>1, CalledBefore
  <2> QED BY <2>2, <2>3 DEF OnIts, Events!AllAreCalled
<1> QED BY <1>2, <1>3, <1>4

LEMMA ListenersOfOne == ASSUME EventsInv PROVE Events!ListenersAreCalled
<1> SUFFICES ASSUME Events!Undisturbed
             PROVE  Events!InOrder /\ (Events!Ends => Events!AllAreCalled)
  BY DEF Events!ListenersAreCalled
<1>1. PICK W, d, L : OnIts(event.target, W, d, L)
  BY WayOfEvent
<1> QED BY <1>1, CallsAreInOrder, AllWereCalled

(* While nobody disturbs it, an event calls the listeners on its way, each *)
(* once in its turn, from the outermost ancestor in to the target and out  *)
(* again, and leaves out only whom it was stopped before.                  *)
THEOREM ListenersAreCalledAlways == WindowSpec => []ListenersAreCalled
<1> DEFINE Inv == running = "events" => EventsInv
<1>1. WindowInit => Inv
  BY EventsInit DEF WindowInit
<1>2. Inv /\ [WindowNext]_all => Inv'
  <2> SUFFICES ASSUME Inv, [WindowNext]_all, running' = "events" PROVE EventsInv'
    OBVIOUS
  <2>1. running = "events" /\ (Events!Next \/ UNCHANGED listening)
    BY OneRuns
  <2>2. CASE UNCHANGED listening
    BY <2>1, <2>2 DEF EventsInv, listening
  <2> QED BY <2>1, <2>2, EventsStep
<1>3. Inv => ListenersAreCalled
  BY ListenersOfOne DEF ListenersAreCalled
<1> QED BY <1>1, <1>2, <1>3, PTL DEF WindowSpec

-----------------------------------------------------------------------------
(* Addresses.  The proof follows normalizepath segment by segment.  What   *)
(* it has kept of the first ones are those at the positions that no ".."   *)
(* has taken back, and how far the path rises from each of them says how   *)
(* many more ".." it takes to take it back too.                            *)

(* The dot segments are none of the others.                                *)
LEMMA SegmentNames ==
  /\ Addresses!Stay # Addresses!Back
  /\ Addresses!Empty \notin Addresses!Dots /\ "a" \notin Addresses!Dots
  /\ Addresses!Empty \in Segments /\ "a" \in Segments
<1>1. /\ Addresses!Stay # Addresses!Back
      /\ Addresses!Empty # Addresses!Stay /\ Addresses!Empty # Addresses!Back
      /\ "a" # Addresses!Stay /\ "a" # Addresses!Back
  BY Zenon DEF Addresses!Empty, Addresses!Stay, Addresses!Back
<1>2. Addresses!Empty \in Segments /\ "a" \in Segments
  BY Zenon, PathsAssumption DEF Addresses!Empty
<1> QED BY <1>1, <1>2 DEF Addresses!Dots

(* Where certain segments are in a part of a path.                        *)
PlacesOf(path, i, j, which) == {k \in i .. j : path[k] \in which}

LEMMA CountIs ==
  ASSUME NEW path, NEW i \in Nat, NEW j \in Nat, NEW which
  PROVE  /\ IsFiniteSet(PlacesOf(path, i, j, which))
         /\ Addresses!Count(path, i, j, which) = Cardinality(PlacesOf(path, i, j, which))
         /\ Addresses!Count(path, i, j, which) \in Nat
<1>1. IsFiniteSet(i .. j) /\ PlacesOf(path, i, j, which) \in SUBSET (i .. j)
  BY FS_Interval DEF PlacesOf
<1>2. IsFiniteSet(PlacesOf(path, i, j, which))
  BY <1>1, FS_Subset
<1> QED BY <1>2, FS_CardinalityType DEF Addresses!Count, PlacesOf, Addresses!Cardinality, Cardinality

One(path, i, which) == IF path[i] \in which THEN 1 ELSE 0

(* A part of a path that is one segment longer, at the end or in front.    *)
LEMMA OneSegmentMore ==
  ASSUME NEW path, NEW i \in Nat, NEW j \in Nat, 1 <= i, i <= j, NEW which
  PROVE  /\ Addresses!Count(path, i, j, which)
              = Addresses!Count(path, i, j - 1, which) + One(path, j, which)
         /\ Addresses!Count(path, i, j, which)
              = One(path, i, which) + Addresses!Count(path, i + 1, j, which)
<1> DEFINE C(a, b) == PlacesOf(path, a, b, which)
<1>1. j - 1 \in Nat /\ i + 1 \in Nat
  OBVIOUS
<1>2. /\ j \notin C(i, j - 1) /\ i \notin C(i + 1, j)
      /\ C(i, j) = C(i, j - 1) \cup (IF path[j] \in which THEN {j} ELSE {})
      /\ C(i, j) = C(i + 1, j) \cup (IF path[i] \in which THEN {i} ELSE {})
  BY <1>1 DEF PlacesOf
<1>3. /\ IsFiniteSet(C(i, j - 1)) /\ IsFiniteSet(C(i + 1, j))
      /\ Addresses!Count(path, i, j, which) = Cardinality(C(i, j))
      /\ Addresses!Count(path, i, j - 1, which) = Cardinality(C(i, j - 1))
      /\ Addresses!Count(path, i + 1, j, which) = Cardinality(C(i + 1, j))
      /\ Cardinality(C(i, j - 1)) \in Nat /\ Cardinality(C(i + 1, j)) \in Nat
  BY <1>1, CountIs
<1> HIDE DEF C
<1>4. Cardinality(C(i, j)) = Cardinality(C(i, j - 1)) + One(path, j, which)
  <2>1. CASE path[j] \in which
    <3>1. Cardinality(C(i, j - 1) \cup {j}) = Cardinality(C(i, j - 1)) + 1
      BY <1>2, <1>3, FS_AddElement, Zenon
    <3>2. C(i, j) = C(i, j - 1) \cup {j}
      BY <1>2, <2>1
    <3> QED BY <2>1, <3>1, <3>2 DEF One
  <2>2. CASE path[j] \notin which
    BY <1>2, <1>3, <2>2 DEF One
  <2> QED BY <2>1, <2>2
<1>5. Cardinality(C(i, j)) = Cardinality(C(i + 1, j)) + One(path, i, which)
  <2>1. CASE path[i] \in which
    <3>1. Cardinality(C(i + 1, j) \cup {i}) = Cardinality(C(i + 1, j)) + 1
      BY <1>2, <1>3, FS_AddElement, Zenon
    <3>2. C(i, j) = C(i + 1, j) \cup {i}
      BY <1>2, <2>1
    <3> QED BY <2>1, <3>1, <3>2 DEF One
  <2>2. CASE path[i] \notin which
    BY <1>2, <1>3, <2>2 DEF One
  <2> QED BY <2>1, <2>2
<1>6. One(path, i, which) \in Nat
  BY DEF One
<1> QED BY <1>3, <1>4, <1>5, <1>6

(* How many more segments a part of a path has than it takes back.         *)
Named == Segments \ Addresses!Dots
Rise(path, i, j) ==
    Addresses!Count(path, i, j, Named) - Addresses!Count(path, i, j, {Addresses!Back})
Rises(path, j) ==
    IF path[j] = Addresses!Stay THEN 0 ELSE IF path[j] = Addresses!Back THEN 0 - 1 ELSE 1

(* ... changes by one with each segment, at the end or in front.           *)
LEMMA RiseIs ==
  ASSUME NEW path \in Seq(Segments), NEW j \in 1 .. Len(path), NEW i \in 1 .. j
  PROVE  /\ Rise(path, i, j) \in Int /\ Rise(path, i, j - 1) \in Int
         /\ Rise(path, i + 1, j) \in Int
         /\ Rise(path, i, j) = Rise(path, i, j - 1) + Rises(path, j)
         /\ Rise(path, i, j) = Rises(path, i) + Rise(path, i + 1, j)
         /\ Rises(path, i) \in Int /\ Rises(path, j) \in Int
         /\ Rise(path, i, i - 1) = 0
<1>1. /\ i \in Nat /\ j \in Nat /\ 1 <= i /\ i <= j
      /\ j - 1 \in Nat /\ i + 1 \in Nat /\ i - 1 \in Nat
  OBVIOUS
<1>2. ASSUME NEW which
      PROVE  /\ Addresses!Count(path, i, j, which) \in Nat
             /\ Addresses!Count(path, i, j - 1, which) \in Nat
             /\ Addresses!Count(path, i + 1, j, which) \in Nat
             /\ Addresses!Count(path, i, i - 1, which) = 0
  <2>1. i .. (i - 1) = {}
    BY <1>1
  <2>2. PlacesOf(path, i, i - 1, which) = {}
    BY <2>1 DEF PlacesOf
  <2> QED BY <1>1, <2>2, CountIs, FS_EmptySet
<1>3. ASSUME NEW k \in 1 .. Len(path)
      PROVE  One(path, k, Named) - One(path, k, {Addresses!Back}) = Rises(path, k)
  <2>1. path[k] \in Segments
    OBVIOUS
  <2>2. path[k] \in Named <=> path[k] # Addresses!Stay /\ path[k] # Addresses!Back
    BY <2>1 DEF Named, Addresses!Dots
  <2>3. path[k] \in {Addresses!Back} <=> path[k] = Addresses!Back
    OBVIOUS
  <2> HIDE DEF Named
  <2> QED BY <2>2, <2>3, SegmentNames DEF One, Rises
<1>4. \A k \in 1 .. Len(path) : \A which : One(path, k, which) \in Nat
  BY DEF One
<1>5. ASSUME NEW which
      PROVE  /\ Addresses!Count(path, i, j, which)
                  = Addresses!Count(path, i, j - 1, which) + One(path, j, which)
             /\ Addresses!Count(path, i, j, which)
                  = One(path, i, which) + Addresses!Count(path, i + 1, j, which)
  BY <1>1, OneSegmentMore
<1>6. \A k \in 1 .. Len(path) : Rises(path, k) \in Int
  BY DEF Rises
<1>7. i \in 1 .. Len(path) /\ j \in 1 .. Len(path)
  OBVIOUS
<1> HIDE DEF Named
<1>8. /\ One(path, i, Named) \in Nat /\ One(path, i, {Addresses!Back}) \in Nat
      /\ One(path, j, Named) \in Nat /\ One(path, j, {Addresses!Back}) \in Nat
  BY DEF One
<1> DEFINE N(a, b) == Addresses!Count(path, a, b, Named)
           B(a, b) == Addresses!Count(path, a, b, {Addresses!Back})
<1>9. /\ N(i, j) = N(i, j - 1) + One(path, j, Named)
      /\ N(i, j) = One(path, i, Named) + N(i + 1, j)
      /\ B(i, j) = B(i, j - 1) + One(path, j, {Addresses!Back})
      /\ B(i, j) = One(path, i, {Addresses!Back}) + B(i + 1, j)
      /\ N(i, j - 1) \in Nat /\ N(i + 1, j) \in Nat /\ B(i, j - 1) \in Nat /\ B(i + 1, j) \in Nat
  BY <1>2, <1>5
<1>10. /\ Rises(path, i) = One(path, i, Named) - One(path, i, {Addresses!Back})
       /\ Rises(path, j) = One(path, j, Named) - One(path, j, {Addresses!Back})
  BY <1>3, <1>7
<1>13. /\ Rise(path, i, j) = N(i, j) - B(i, j)
       /\ Rise(path, i, j - 1) = N(i, j - 1) - B(i, j - 1)
       /\ Rise(path, i + 1, j) = N(i + 1, j) - B(i + 1, j)
  BY DEF Rise
<1> HIDE DEF N, B
<1>14. /\ Rise(path, i, j) = Rise(path, i, j - 1) + Rises(path, j)
       /\ Rise(path, i, j) = Rises(path, i) + Rise(path, i + 1, j)
  <2> DEFINE n == One(path, i, Named)
             b == One(path, i, {Addresses!Back})
             n2 == One(path, j, Named)
             b2 == One(path, j, {Addresses!Back})
  <2>1. n \in Nat /\ b \in Nat /\ n2 \in Nat /\ b2 \in Nat
    BY <1>8
  <2>2. /\ Rises(path, i) = n - b /\ N(i, j) = n + N(i + 1, j) /\ B(i, j) = b + B(i + 1, j)
        /\ Rises(path, j) = n2 - b2 /\ N(i, j) = N(i, j - 1) + n2 /\ B(i, j) = B(i, j - 1) + b2
    BY <1>9, <1>10
  <2>3. /\ N(i, j - 1) \in Nat /\ N(i + 1, j) \in Nat
        /\ B(i, j - 1) \in Nat /\ B(i + 1, j) \in Nat
    BY <1>9
  <2> HIDE DEF n, b, n2, b2
  <2>4. Rise(path, i, j) = Rise(path, i, j - 1) + Rises(path, j)
    BY <1>13, <2>1, <2>2, <2>3
  <2>5. Rise(path, i, j) = Rises(path, i) + Rise(path, i + 1, j)
    BY <1>13, <2>1, <2>2, <2>3
  <2> QED BY <2>4, <2>5
<1>11. Rise(path, i, i - 1) = 0
  BY <1>2 DEF Rise
<1>12. Rise(path, i, j) \in Int /\ Rise(path, i, j - 1) \in Int /\ Rise(path, i + 1, j) \in Int
  BY <1>2 DEF Rise
<1> QED BY <1>6, <1>7, <1>11, <1>12, <1>14

(* The positions of the segments that are left of the first ones.          *)
Left(path, n) ==
    {k \in 1 .. n : path[k] \notin Addresses!Dots /\ \A j \in k + 1 .. n : Rise(path, k, j) # 0}

(* A segment more may take one back, and may itself be left.               *)
LEMMA LeftOfMore ==
  ASSUME NEW path, NEW n \in Nat
  PROVE  /\ \A k \in Left(path, n + 1) :
               k = n + 1 \/ (k \in Left(path, n) /\ Rise(path, k, n + 1) # 0)
         /\ \A k \in Left(path, n) : Rise(path, k, n + 1) # 0 => k \in Left(path, n + 1)
         /\ n + 1 \in Left(path, n + 1) <=> path[n + 1] \notin Addresses!Dots
  BY DEF Left

(* They stand in their order, and the last m - a of them rise above one.   *)
Ordered(path, n, m, ks) ==
    /\ ks \in [1 .. m -> 1 .. n] /\ m >= 1 /\ ks[1] = 1
    /\ \A a, b \in 1 .. m : a < b => ks[a] < ks[b]
    /\ \A a \in 1 .. m : Rise(path, ks[a], n) = m - a + 1
    /\ \A a \in 1 .. m : ks[a] \in Left(path, n)
    /\ \A k \in Left(path, n) : \E a \in 1 .. m : ks[a] = k

LEMMA RisesOn ==
  ASSUME NEW path \in Seq(Segments), NEW n \in 1 .. Len(path) - 1, NEW m \in Nat, NEW ks,
         Ordered(path, n, m, ks)
  PROVE  \A a \in 1 .. m : Rise(path, ks[a], n + 1) = m - a + 1 + Rises(path, n + 1)
<1> SUFFICES ASSUME NEW a \in 1 .. m
             PROVE  Rise(path, ks[a], n + 1) = m - a + 1 + Rises(path, n + 1)
  OBVIOUS
<1>1. ks[a] \in 1 .. n + 1 /\ n + 1 \in 1 .. Len(path) /\ (n + 1) - 1 = n
  BY DEF Ordered
<1>2. Rise(path, ks[a], n + 1) = Rise(path, ks[a], n) + Rises(path, n + 1)
  BY <1>1, RiseIs
<1> QED BY <1>2 DEF Ordered

(* "." keeps the list, a name is appended to it, and ".." takes back the    *)
(* last of it.                                                             *)
LEMMA OrderStays ==
  ASSUME NEW path \in Seq(Segments), NEW n \in 1 .. Len(path) - 1, NEW m \in Nat, NEW ks,
         Ordered(path, n, m, ks), path[n + 1] = Addresses!Stay
  PROVE  Ordered(path, n + 1, m, ks)
<1>1. \A a \in 1 .. m : Rise(path, ks[a], n + 1) = m - a + 1 + Rises(path, n + 1)
  BY RisesOn
<1>2. Rises(path, n + 1) = 0 /\ path[n + 1] \in Addresses!Dots
  BY DEF Rises, Addresses!Dots
<1>3. \A a \in 1 .. m : Rise(path, ks[a], n + 1) = m - a + 1 /\ m - a + 1 # 0
  BY <1>1, <1>2
<1>4. ks \in [1 .. m -> 1 .. n + 1] /\ n \in Nat
  BY DEF Ordered
<1>5. \A a \in 1 .. m : ks[a] \in Left(path, n + 1)
  BY <1>3, <1>4, LeftOfMore DEF Ordered
<1>6. \A k \in Left(path, n + 1) : k \in Left(path, n)
  BY <1>2, <1>4, LeftOfMore
<1> QED BY <1>3, <1>4, <1>5, <1>6 DEF Ordered

LEMMA OrderGrows ==
  ASSUME NEW path \in Seq(Segments), NEW n \in 1 .. Len(path) - 1, NEW m \in Nat, NEW ks,
         Ordered(path, n, m, ks), path[n + 1] \notin Addresses!Dots,
         NEW new, new = [a \in 1 .. m + 1 |-> IF a = m + 1 THEN n + 1 ELSE ks[a]]
  PROVE  Ordered(path, n + 1, m + 1, new)
<1>1. \A a \in 1 .. m : Rise(path, ks[a], n + 1) = m - a + 1 + Rises(path, n + 1)
  BY RisesOn
<1>2. Rises(path, n + 1) = 1
  BY DEF Rises, Addresses!Dots
<1>3. \A a \in 1 .. m : Rise(path, ks[a], n + 1) = (m + 1) - a + 1 /\ (m + 1) - a + 1 # 0
  BY <1>1, <1>2
<1>4. Rise(path, n + 1, n + 1) = 1
  <2>1. n + 1 \in 1 .. Len(path) /\ n + 1 \in 1 .. n + 1
    OBVIOUS
  <2> QED BY <1>2, <2>1, RiseIs
<1>5. n \in Nat /\ ks \in [1 .. m -> 1 .. n] /\ m >= 1 /\ ks[1] = 1
  BY DEF Ordered
<1>6. /\ new \in [1 .. m + 1 -> 1 .. n + 1] /\ new[m + 1] = n + 1
      /\ \A a \in 1 .. m : new[a] = ks[a]
  BY <1>5
<1>7. 1 \in 1 .. m /\ m + 1 >= 1 /\ new[1] = 1
  BY <1>5, <1>6
<1>8. \A a \in 1 .. m + 1 : a = m + 1 \/ a \in 1 .. m
  OBVIOUS
<1>9. \A a, b \in 1 .. m + 1 : a < b => new[a] < new[b]
  <2> SUFFICES ASSUME NEW a \in 1 .. m + 1, NEW b \in 1 .. m + 1, a < b PROVE new[a] < new[b]
    OBVIOUS
  <2>1. a \in 1 .. m /\ new[a] = ks[a] /\ ks[a] \in 1 .. n
    BY <1>5, <1>6
  <2> QED BY <1>6, <1>8, <2>1 DEF Ordered
<1>10. \A a \in 1 .. m + 1 : Rise(path, new[a], n + 1) = (m + 1) - a + 1
  BY <1>3, <1>4, <1>6, <1>8
<1>11. \A a \in 1 .. m : ks[a] \in Left(path, n + 1)
  BY <1>3, <1>5, LeftOfMore DEF Ordered
<1>12. \A a \in 1 .. m + 1 : new[a] \in Left(path, n + 1)
  BY <1>5, <1>6, <1>8, <1>11, LeftOfMore
<1>13. \A k \in Left(path, n + 1) : \E a \in 1 .. m + 1 : new[a] = k
  <2> SUFFICES ASSUME NEW k \in Left(path, n + 1) PROVE \E a \in 1 .. m + 1 : new[a] = k
    OBVIOUS
  <2>1. k = n + 1 \/ k \in Left(path, n)
    BY <1>5, LeftOfMore
  <2>2. m + 1 \in 1 .. m + 1 /\ \A a \in 1 .. m : a \in 1 .. m + 1
    OBVIOUS
  <2> QED BY <1>6, <2>1, <2>2 DEF Ordered
<1> HIDE DEF Ordered
<1> QED BY <1>6, <1>7, <1>9, <1>10, <1>12, <1>13 DEF Ordered

LEMMA OrderShrinks ==
  ASSUME NEW path \in Seq(Segments), NEW n \in 1 .. Len(path) - 1, NEW m \in Nat, NEW ks,
         Ordered(path, n, m, ks), path[n + 1] = Addresses!Back, m >= 2,
         NEW new, new = [a \in 1 .. m - 1 |-> ks[a]]
  PROVE  Ordered(path, n + 1, m - 1, new)
<1>1. \A a \in 1 .. m : Rise(path, ks[a], n + 1) = m - a + 1 + Rises(path, n + 1)
  BY RisesOn
<1>2. Rises(path, n + 1) = 0 - 1 /\ path[n + 1] \in Addresses!Dots
  BY SegmentNames DEF Rises, Addresses!Dots
<1>3. \A a \in 1 .. m : Rise(path, ks[a], n + 1) = (m - 1) - a + 1
  BY <1>1, <1>2
<1>5. n \in Nat /\ ks \in [1 .. m -> 1 .. n] /\ ks[1] = 1
  BY DEF Ordered
<1>6. /\ new \in [1 .. m - 1 -> 1 .. n + 1] /\ \A a \in 1 .. m - 1 : new[a] = ks[a]
      /\ \A a \in 1 .. m - 1 : a \in 1 .. m
  BY <1>5
<1>7. m - 1 >= 1 /\ new[1] = 1
  BY <1>5, <1>6
<1>9. \A a, b \in 1 .. m - 1 : a < b => new[a] < new[b]
  BY <1>6 DEF Ordered
<1>10. \A a \in 1 .. m - 1 : Rise(path, new[a], n + 1) = (m - 1) - a + 1 /\ (m - 1) - a + 1 # 0
  BY <1>3, <1>6
<1>11. \A a \in 1 .. m - 1 : new[a] \in Left(path, n + 1)
  BY <1>5, <1>6, <1>10, LeftOfMore DEF Ordered
<1>12. \A k \in Left(path, n + 1) : \E a \in 1 .. m - 1 : new[a] = k
  <2> SUFFICES ASSUME NEW k \in Left(path, n + 1) PROVE \E a \in 1 .. m - 1 : new[a] = k
    OBVIOUS
  <2>1. k \in Left(path, n) /\ Rise(path, k, n + 1) # 0
    <3>1. n + 1 \notin Left(path, n + 1)
      BY <1>2, <1>5, LeftOfMore
    <3>2. k = n + 1 \/ (k \in Left(path, n) /\ Rise(path, k, n + 1) # 0)
      BY <1>5, LeftOfMore
    <3> QED BY <3>1, <3>2
  <2>2. PICK a \in 1 .. m : ks[a] = k
    BY <2>1 DEF Ordered
  <2>3. a # m
    BY <1>3, <2>1, <2>2
  <2>4. a \in 1 .. m - 1
    BY <2>3
  <2> QED BY <1>6, <2>2, <2>4
<1> QED BY <1>6, <1>7, <1>9, <1>10, <1>11, <1>12 DEF Ordered

(* What one segment does to those that are kept.                           *)
Put(kept, part) ==
    IF part = Addresses!Stay THEN kept
    ELSE IF part = Addresses!Back /\ Len(kept) > 1 THEN Addresses!Front(kept)
    ELSE Append(kept, part)
Before(path) == IF Addresses!Relative(path) THEN <<Addresses!Empty>> ELSE <<>>
KeptOf(path) ==
    LET Keep[i \in 0 .. Len(path)] ==
            IF i = 0 THEN IF Addresses!Relative(path) THEN <<Addresses!Empty>> ELSE <<>>
            ELSE CASE path[i] = Addresses!Stay -> Keep[i - 1]
                   [] path[i] = Addresses!Back /\ Len(Keep[i - 1]) > 1 ->
                         Addresses!Front(Keep[i - 1])
                   [] OTHER -> Append(Keep[i - 1], path[i])
    IN  Keep

LEMMA KeptIsLast ==
  ASSUME NEW path PROVE Addresses!KeptBut(path, 1) = KeptOf(path)[Len(path)]
  BY DEF Addresses!KeptBut, KeptOf

LEMMA PutSegment ==
  ASSUME NEW kept \in Seq(Segments), NEW part \in Segments
  PROVE  /\ Put(kept, part) \in Seq(Segments)
         /\ part \notin Addresses!Dots => Put(kept, part) = Append(kept, part)
         /\ part = Addresses!Back /\ Len(kept) > 1 =>
               Put(kept, part) = [a \in 1 .. Len(kept) - 1 |-> kept[a]]
<1>1. Len(kept) > 1 => /\ Addresses!Front(kept) = [a \in 1 .. Len(kept) - 1 |-> kept[a]]
                       /\ Addresses!Front(kept) \in Seq(Segments)
  BY DEF Addresses!Front
<1> QED BY <1>1, SegmentNames DEF Put, Addresses!Dots

KeepsFrom(path, f) ==
    /\ f \in [0 .. Len(path) -> Seq(Segments)] /\ f[0] = Before(path)
    /\ \A i \in 1 .. Len(path) : f[i] = Put(f[i - 1], path[i])

(* The recursive function of KeptBut takes one segment after the other.    *)
LEMMA KeptIs ==
  ASSUME NEW path \in Seq(Segments)
  PROVE  KeepsFrom(path, KeptOf(path))
<1> DEFINE N == Len(path)
           S == Seq(Segments)
           base == Before(path)
           step == [i \in 1 .. N |-> [kept \in S |-> Put(kept, path[i])]]
           Is(f) == f = [i \in 0 .. N |->
                IF i = 0 THEN IF Addresses!Relative(path) THEN <<Addresses!Empty>> ELSE <<>>
                ELSE CASE path[i] = Addresses!Stay -> f[i - 1]
                       [] path[i] = Addresses!Back /\ Len(f[i - 1]) > 1 -> Addresses!Front(f[i - 1])
                       [] OTHER -> Append(f[i - 1], path[i])]
<1>1. N \in Nat /\ base \in S
  BY SegmentNames DEF Before
<1>2. \A i \in 1 .. N : path[i] \in Segments
  OBVIOUS
<1>3. step \in [1 .. N -> [S -> S]]
  BY <1>2, PutSegment
<1>4. \A i \in 1 .. N, kept \in S : step[i][kept] = Put(kept, path[i])
  OBVIOUS
<1> HIDE DEF step, S, N, base
<1>5. PICK g \in [0 .. N -> S] : g[0] = base /\ Computes(g, step, N)
  BY <1>1, <1>3, Computed
<1>6. \A i \in 1 .. N : i - 1 \in 0 .. N /\ i \in 0 .. N /\ i # 0
  BY <1>1
<1>7. \A i \in 0 .. N : i = 0 \/ i \in 1 .. N
  BY <1>1
<1>8. \A i \in 1 .. N : g[i] = Put(g[i - 1], path[i])
  BY <1>4, <1>5, <1>6 DEF Computes
<1>9. Is(g)
  <2>1. ASSUME NEW i \in 0 .. N
        PROVE  g[i] = IF i = 0
                      THEN IF Addresses!Relative(path) THEN <<Addresses!Empty>> ELSE <<>>
                      ELSE CASE path[i] = Addresses!Stay -> g[i - 1]
                             [] path[i] = Addresses!Back /\ Len(g[i - 1]) > 1 ->
                                   Addresses!Front(g[i - 1])
                             [] OTHER -> Append(g[i - 1], path[i])
    <3>1. CASE i = 0
      BY <1>5, <3>1 DEF base, Before
    <3>2. CASE i \in 1 .. N
      <4>1. g[i] = Put(g[i - 1], path[i]) /\ i # 0
        BY <1>6, <1>8, <3>2
      <4> QED BY <4>1, SegmentNames DEF Put
    <3> QED BY <1>7, <3>1, <3>2
  <2>2. g = [i \in 0 .. N |-> g[i]]
    BY <1>5
  <2> QED BY <2>1, <2>2
<1> DEFINE a == CHOOSE f : Is(f)
<1>10. Is(a)
  BY <1>9
<1>11. KeptOf(path) = a
  BY DEF KeptOf, N
<1> HIDE DEF a
<1>12. a[0] = base
  <2>1. 0 \in 0 .. N
    BY <1>1
  <2> QED BY <1>10, <2>1 DEF base, Before
<1>13. ASSUME NEW i \in 1 .. N PROVE a[i] = Put(a[i - 1], path[i])
  <2>1. i \in 0 .. N /\ i # 0
    BY <1>6
  <2>2. a[i] = CASE path[i] = Addresses!Stay -> a[i - 1]
                 [] path[i] = Addresses!Back /\ Len(a[i - 1]) > 1 -> Addresses!Front(a[i - 1])
                 [] OTHER -> Append(a[i - 1], path[i])
    BY <1>10, <2>1
  <2> QED BY <2>2, SegmentNames DEF Put
<1>14. a \in [0 .. N -> S]
  <2> DEFINE K == {i \in 0 .. N : a[i] \in S}
  <2>1. 0 \in K
    BY <1>1, <1>12
  <2>2. ASSUME NEW i \in 0 .. N - 1, i \in K PROVE i + 1 \in K
    <3>1. i + 1 \in 1 .. N /\ i + 1 \in 0 .. N /\ (i + 1) - 1 = i
      BY <1>1
    <3>2. a[i + 1] = Put(a[i], path[i + 1])
      BY <1>13, <3>1
    <3>3. a[i] \in Seq(Segments) /\ path[i + 1] \in Segments
      BY <1>2, <2>2, <3>1 DEF S
    <3>4. a[i + 1] \in S
      BY <3>2, <3>3, PutSegment DEF S
    <3> QED BY <3>1, <3>4
  <2> HIDE DEF K
  <2>3. \A i \in 0 .. N : i \in K
    BY <1>1, <2>1, <2>2, StepByStep
  <2>4. a = [i \in 0 .. N |-> a[i]]
    BY <1>10
  <2> QED BY <2>3, <2>4 DEF K
<1> QED BY <1>11, <1>12, <1>13, <1>14 DEF KeepsFrom, N, S, base

(* What is kept are the segments at the positions that are left.           *)
Keeps(path, n, kept) ==
    \E m \in Nat, ks \in [1 .. Len(kept) -> 1 .. n] :
        Ordered(path, n, m, ks) /\ m = Len(kept) /\ kept = [a \in 1 .. m |-> path[ks[a]]]

LEMMA KeepsThese ==
  ASSUME NEW path, NEW n, NEW m \in Nat, NEW ks, NEW kept, Ordered(path, n, m, ks),
         Len(kept) = m, kept = [a \in 1 .. m |-> path[ks[a]]]
  PROVE  Keeps(path, n, kept)
<1>1. ks \in [1 .. Len(kept) -> 1 .. n]
  BY DEF Ordered
<1> QED BY <1>1, Zenon DEF Keeps

LEMMA FirstIsKept ==
  ASSUME NEW path \in Seq(Segments), Len(path) >= 1, path[1] = Addresses!Empty
  PROVE  Keeps(path, 1, <<path[1]>>)
<1> DEFINE ks == [a \in 1 .. 1 |-> 1]
<1>1. 1 \in 1 .. Len(path) /\ 1 \in 1 .. 1
  OBVIOUS
<1>2. path[1] \notin Addresses!Dots /\ Rises(path, 1) = 1
  BY SegmentNames DEF Rises, Addresses!Dots
<1>3. Rise(path, 1, 1) = 1
  <2>1. Rise(path, 1, 1) = Rise(path, 1, 1 - 1) + Rises(path, 1) /\ Rise(path, 1, 1 - 1) = 0
    BY <1>1, RiseIs
  <2> QED BY <1>2, <2>1
<1>4. 1 \in Left(path, 1) /\ \A k \in Left(path, 1) : k = 1
  BY <1>1, <1>2 DEF Left
<1>5. ks \in [1 .. 1 -> 1 .. 1] /\ \A a \in 1 .. 1 : ks[a] = 1 /\ a = 1
  OBVIOUS
<1> HIDE DEF ks
<1>6. Ordered(path, 1, 1, ks)
  BY <1>1, <1>3, <1>4, <1>5 DEF Ordered
<1>7. /\ Len(<<path[1]>>) = 1
      /\ <<path[1]>> = [a \in 1 .. 1 |-> path[ks[a]]]
  BY <1>5
<1> QED BY <1>6, <1>7, KeepsThese

LEMMA OneMoreIsKept ==
  ASSUME NEW path \in Seq(Segments), NEW n \in 1 .. Len(path) - 1,
         path[1] = Addresses!Empty, ~Addresses!Climbs(path),
         NEW kept \in Seq(Segments), Keeps(path, n, kept)
  PROVE  Keeps(path, n + 1, Put(kept, path[n + 1]))
<1>1. PICK m \in Nat, ks \in [1 .. Len(kept) -> 1 .. n] :
         Ordered(path, n, m, ks) /\ m = Len(kept) /\ kept = [a \in 1 .. m |-> path[ks[a]]]
  BY DEF Keeps
<1> DEFINE part == path[n + 1]
<1>2. /\ part \in Segments /\ n + 1 \in 1 .. Len(path) /\ 1 \in 1 .. n /\ 1 \in 1 .. n + 1
      /\ n + 1 \in 2 .. Len(path)
  OBVIOUS
<1>3. CASE part = Addresses!Stay
  <2>1. Ordered(path, n + 1, m, ks)
    BY <1>1, <1>3, OrderStays
  <2>2. Put(kept, part) = kept
    BY <1>3 DEF Put
  <2> QED BY <1>1, <2>1, <2>2, KeepsThese
<1>4. CASE part \notin Addresses!Dots
  <2> DEFINE new == [a \in 1 .. m + 1 |-> IF a = m + 1 THEN n + 1 ELSE ks[a]]
             more == [a \in 1 .. m + 1 |-> path[new[a]]]
  <2>1. Ordered(path, n + 1, m + 1, new)
    BY <1>1, <1>4, OrderGrows
  <2>2. Put(kept, part) = Append(kept, part)
    BY <1>2, <1>4, PutSegment
  <2>3. /\ new \in [1 .. m + 1 -> 1 .. n + 1] /\ new[m + 1] = n + 1
        /\ \A a \in 1 .. m : new[a] = ks[a]
    BY <1>1
  <2> HIDE DEF new
  <2>4. Append(kept, part) = more
    <3>1. \A a \in 1 .. m : more[a] = kept[a]
      BY <1>1, <2>3
    <3>2. more[m + 1] = part
      BY <2>3
    <3>3. Len(kept) = m /\ Append(kept, part) = [a \in 1 .. m + 1 |-> IF a = m + 1 THEN part ELSE kept[a]]
      BY <1>1
    <3>4. \A a \in 1 .. m + 1 : a = m + 1 \/ a \in 1 .. m
      OBVIOUS
    <3> HIDE DEF part
    <3>5. \A a \in 1 .. m + 1 : more[a] = IF a = m + 1 THEN part ELSE kept[a]
      <4> HIDE DEF more
      <4> QED BY <3>1, <3>2, <3>4
    <3> QED BY <3>3, <3>5
  <2>5. Len(Append(kept, part)) = m + 1
    BY <1>1
  <2> HIDE DEF part
  <2>6. Put(kept, part) = [a \in 1 .. m + 1 |-> path[new[a]]] /\ Len(Put(kept, part)) = m + 1
    BY <2>2, <2>4, <2>5
  <2>7. m + 1 \in Nat
    OBVIOUS
  <2>8. Keeps(path, n + 1, Put(kept, part))
    BY <2>1, <2>6, <2>7, KeepsThese
  <2> QED BY <2>8 DEF part
<1>5. CASE part = Addresses!Back
  <2>1. m >= 2
    <3>0. Ordered(path, n, m, ks)
      BY <1>1
    <3>1. \A a \in 1 .. m : Rise(path, ks[a], n + 1) = m - a + 1 + Rises(path, n + 1)
      BY <3>0, RisesOn
    <3>2. m >= 1 /\ ks[1] = 1 /\ 1 \in 1 .. m
      BY <1>1 DEF Ordered
    <3>3. Rises(path, n + 1) = 0 - 1
      BY <1>5, SegmentNames DEF Rises
    <3>4. Rise(path, 1, n + 1) = m - 1
      BY <3>1, <3>2, <3>3
    <3>5. Rises(path, 1) = 1
      BY SegmentNames DEF Rises, Addresses!Dots
    <3>6. Rise(path, 1, n + 1) = 1 + Rise(path, 2, n + 1) /\ Rise(path, 2, n + 1) \in Int
      BY <1>2, <3>5, RiseIs
    <3>7. Rise(path, 2, n + 1) >= 0
      <4>1. /\ Addresses!Count(path, 2, n + 1, {Addresses!Back}) \in Nat
            /\ Addresses!Count(path, 2, n + 1, Named) \in Nat
        BY <1>2, CountIs
      <4>2. ~(Addresses!Count(path, 2, n + 1, {Addresses!Back})
                > Addresses!Count(path, 2, n + 1, Named))
        BY <1>2 DEF Addresses!Climbs, Named
      <4> QED BY <4>1, <4>2 DEF Rise
    <3> QED BY <3>4, <3>6, <3>7
  <2> DEFINE new == [a \in 1 .. m - 1 |-> ks[a]]
             less == [a \in 1 .. m - 1 |-> path[new[a]]]
  <2>2. Ordered(path, n + 1, m - 1, new)
    BY <1>1, <1>5, <2>1, OrderShrinks
  <2>3. Put(kept, part) = [a \in 1 .. m - 1 |-> kept[a]]
    <3>1. Len(kept) = m /\ Len(kept) > 1
      BY <1>1, <2>1
    <3> HIDE DEF part
    <3>2. Put(kept, part) = [a \in 1 .. Len(kept) - 1 |-> kept[a]]
      BY <1>2, <1>5, <3>1, PutSegment
    <3> QED BY <3>1, <3>2
  <2>4. new \in [1 .. m - 1 -> 1 .. n + 1] /\ \A a \in 1 .. m - 1 : new[a] = ks[a] /\ a \in 1 .. m
    BY <1>1
  <2> HIDE DEF new
  <2>5. Put(kept, part) = less
    BY <1>1, <2>3, <2>4
  <2>6. Len(Put(kept, part)) = m - 1 /\ m - 1 \in Nat
    BY <2>1, <2>3
  <2> HIDE DEF part
  <2>7. Keeps(path, n + 1, Put(kept, part))
    BY <2>2, <2>5, <2>6, KeepsThese
  <2> QED BY <2>7 DEF part
<1> QED BY <1>3, <1>4, <1>5 DEF Addresses!Dots

(* A path that does not climb over its root is kept as it is meant.        *)
LEMMA PathIsKept ==
  ASSUME NEW path \in Seq(Segments), NEW f, KeepsFrom(path, f), Len(path) >= 1,
         path[1] = Addresses!Empty, ~Addresses!Climbs(path)
  PROVE  Keeps(path, Len(path), f[Len(path)])
<1> DEFINE N == Len(path) - 1
           K == {n \in 0 .. N : Keeps(path, n + 1, f[n + 1])}
<1>1. N \in Nat /\ f[1] = Put(f[0], path[1]) /\ f[0] = <<>>
  BY DEF KeepsFrom, Before, Addresses!Relative
<1>2. f[1] = <<path[1]>>
  <2>1. Put(<<>>, path[1]) = Append(<<>>, path[1])
    BY SegmentNames DEF Put, Addresses!Dots
  <2> QED BY <1>1, <2>1
<1>3. 0 \in K
  <2>1. Keeps(path, 1, f[1])
    <3>1. Keeps(path, 1, <<path[1]>>)
      BY FirstIsKept
    <3> QED BY <1>2, <3>1
  <2>2. 0 + 1 = 1 /\ 0 \in 0 .. N
    BY <1>1
  <2> QED BY <2>1, <2>2
<1>4. ASSUME NEW n \in 0 .. N - 1, n \in K PROVE n + 1 \in K
  <2>1. n + 1 \in 1 .. Len(path) - 1 /\ n + 2 \in 1 .. Len(path) /\ (n + 2) - 1 = n + 1 /\ n + 1 \in 0 .. N
    BY <1>1
  <2>2. f[n + 2] = Put(f[n + 1], path[n + 2]) /\ f[n + 1] \in Seq(Segments)
    <3>1. n + 1 \in 0 .. Len(path)
      BY <2>1
    <3>2. f[n + 2] = Put(f[(n + 2) - 1], path[n + 2])
      BY <2>1 DEF KeepsFrom
    <3> QED BY <2>1, <3>1, <3>2 DEF KeepsFrom
  <2>3. Keeps(path, n + 1, f[n + 1])
    BY <1>4
  <2>4. (n + 1) + 1 = n + 2
    OBVIOUS
  <2>5. Keeps(path, n + 2, f[n + 2])
    BY <2>1, <2>2, <2>3, <2>4, OneMoreIsKept
  <2> QED BY <2>1, <2>4, <2>5
<1> HIDE DEF K
<1>5. \A n \in 0 .. N : n \in K
  BY <1>1, <1>3, <1>4, StepByStep
<1>6. N \in 0 .. N /\ N + 1 = Len(path)
  BY <1>1
<1> QED BY <1>5, <1>6 DEF K

(* What is listed in its order is counted by its places.                   *)
FirstOf(ks, c) == {ks[b] : b \in 1 .. c}

LEMMA ListedInOrder ==
  ASSUME NEW m \in Nat, NEW n, NEW ks \in [1 .. m -> 1 .. n],
         \A a, b \in 1 .. m : a < b => ks[a] < ks[b]
  PROVE  \A c \in 0 .. m : /\ IsFiniteSet(FirstOf(ks, c))
                           /\ Cardinality(FirstOf(ks, c)) = c
<1> SUFFICES ASSUME NEW c \in 0 .. m
             PROVE  /\ IsFiniteSet(FirstOf(ks, c))
                    /\ Cardinality(FirstOf(ks, c)) = c
  OBVIOUS
<1> DEFINE T == FirstOf(ks, c)
           f == [b \in 1 .. c |-> ks[b]]
<1>1. \A b \in 1 .. c : b \in 1 .. m
  OBVIOUS
<1>2. f \in [1 .. c -> T] /\ \A t \in T : \E b \in 1 .. c : f[b] = t
  BY DEF FirstOf
<1>3. ASSUME NEW a \in 1 .. c, NEW b \in 1 .. c, f[a] = f[b] PROVE a = b
  <2>1. a \in 1 .. m /\ b \in 1 .. m /\ ks[a] = ks[b] /\ ks[a] \in Int
    BY <1>1, <1>3
  <2>2. ~(a < b) /\ ~(b < a)
    BY <2>1
  <2> QED BY <2>1, <2>2
<1> HIDE DEF f, T
<1>4. ExistsBijection(1 .. c, T)
  <2>1. f \in Bijection(1 .. c, T)
    BY <1>2, <1>3 DEF Bijection, Injection, Surjection, IsInjective
  <2> QED BY <2>1 DEF ExistsBijection
<1>5. c \in Int /\ IsFiniteSet(1 .. c) /\ Cardinality(1 .. c) = c
  BY FS_Interval
<1>6. IsFiniteSet(T) /\ Cardinality(T) = Cardinality(1 .. c)
  BY <1>4, <1>5, FS_Bijection
<1> QED BY <1>5, <1>6 DEF T

(* The positions that Meant enumerates are the ones that are left.         *)
MeantAt(path) ==
    {i \in 1 .. Len(path) : path[i] \notin Addresses!Dots /\ ~Addresses!TakenBack(path, i)}

MeantOf(path) ==
    [k \in 1 .. Cardinality(MeantAt(path)) |->
        path[CHOOSE i \in MeantAt(path) : Cardinality({j \in MeantAt(path) : j < i}) = k - 1]]

LEMMA MeantIs == ASSUME NEW path PROVE Addresses!Meant(path) = MeantOf(path)
  BY DEF Addresses!Meant, Addresses!Cardinality, Cardinality, MeantOf, MeantAt

LEMMA LeftIsMeant ==
  ASSUME NEW path \in Seq(Segments)
  PROVE  MeantAt(path) = Left(path, Len(path))
<1> SUFFICES ASSUME NEW i \in 1 .. Len(path)
             PROVE  ~Addresses!TakenBack(path, i)
                      <=> \A j \in i + 1 .. Len(path) : Rise(path, i, j) # 0
  BY DEF MeantAt, Left
<1>1. ASSUME NEW j \in i + 1 .. Len(path)
      PROVE  Rise(path, i, j) = 0 <=>
             Addresses!Count(path, i, j, {Addresses!Back})
                = Addresses!Count(path, i, j, Segments \ Addresses!Dots)
  <2>1. /\ Addresses!Count(path, i, j, {Addresses!Back}) \in Nat
        /\ Addresses!Count(path, i, j, Segments \ Addresses!Dots) \in Nat
    BY CountIs
  <2> QED BY <2>1 DEF Rise, Named
<1> QED BY <1>1 DEF Addresses!TakenBack

LEMMA MeantIsKept ==
  ASSUME NEW path \in Seq(Segments), NEW kept, Keeps(path, Len(path), kept)
  PROVE  kept = Addresses!Meant(path)
<1> DEFINE n == Len(path)
           S == MeantAt(path)
           Rank(i) == Cardinality({j \in S : j < i})
<1>1. PICK m \in Nat, ks \in [1 .. Len(kept) -> 1 .. n] :
         Ordered(path, n, m, ks) /\ m = Len(kept) /\ kept = [a \in 1 .. m |-> path[ks[a]]]
  BY DEF Keeps
<1>2. S = FirstOf(ks, m)
  BY <1>1, LeftIsMeant DEF Ordered, FirstOf
<1>3. /\ ks \in [1 .. m -> 1 .. n] /\ n \in Nat
      /\ \A a, b \in 1 .. m : a < b => ks[a] < ks[b]
  BY <1>1 DEF Ordered
<1> HIDE DEF S
<1>4. Cardinality(S) = m
  <2>1. m \in 0 .. m
    OBVIOUS
  <2> QED BY <1>2, <1>3, <2>1, ListedInOrder
<1>5. ASSUME NEW a \in 1 .. m PROVE Rank(ks[a]) = a - 1
  <2>1. \A b \in 1 .. m : ks[b] < ks[a] <=> b < a
    <3> SUFFICES ASSUME NEW b \in 1 .. m, ks[b] < ks[a] PROVE b < a
      BY <1>3
    <3>1. ks[a] \in Int /\ ks[b] \in Int
      BY <1>3
    <3>2. a < b => ks[a] < ks[b]
      BY <1>3
    <3> QED BY <3>1, <3>2
  <2>2. {j \in S : j < ks[a]} = FirstOf(ks, a - 1)
    <3>1. ASSUME NEW j \in S, j < ks[a] PROVE j \in FirstOf(ks, a - 1)
      <4>1. PICK b \in 1 .. m : j = ks[b]
        BY <1>2 DEF FirstOf
      <4>2. b \in 1 .. a - 1
        BY <2>1, <3>1, <4>1
      <4> QED BY <4>1, <4>2 DEF FirstOf
    <3>2. ASSUME NEW b \in 1 .. a - 1 PROVE ks[b] \in S /\ ks[b] < ks[a]
      <4>1. b \in 1 .. m /\ b < a
        OBVIOUS
      <4> QED BY <1>2, <2>1, <4>1 DEF FirstOf
    <3> QED BY <3>1, <3>2 DEF FirstOf
  <2>3. a - 1 \in 0 .. m
    OBVIOUS
  <2>4. \A c \in 0 .. m : Cardinality(FirstOf(ks, c)) = c
    BY <1>3, ListedInOrder
  <2>5. Rank(ks[a]) = Cardinality(FirstOf(ks, a - 1))
    BY <2>2
  <2> HIDE DEF Rank
  <2> QED BY <2>3, <2>4, <2>5
<1> DEFINE At(k) == CHOOSE i \in S : Rank(i) = k - 1
<1>6. ASSUME NEW a \in 1 .. m PROVE At(a) = ks[a]
  <2>1. ks[a] \in S /\ Rank(ks[a]) = a - 1
    BY <1>2, <1>5 DEF FirstOf
  <2>2. ASSUME NEW i \in S, Rank(i) = a - 1 PROVE i = ks[a]
    <3>1. PICK b \in 1 .. m : i = ks[b]
      BY <1>2 DEF FirstOf
    <3>2. Rank(ks[b]) = b - 1
      BY <1>5
    <3>3. b - 1 = a - 1
      BY <2>2, <3>1, <3>2
    <3> QED BY <3>1, <3>3
  <2> HIDE DEF Rank
  <2> QED BY <2>1, <2>2
<1>7. Addresses!Meant(path) = [k \in 1 .. Cardinality(S) |-> path[At(k)]]
  BY MeantIs, Zenon DEF MeantOf, S
<1> HIDE DEF At
<1>8. [k \in 1 .. m |-> path[At(k)]] = [a \in 1 .. m |-> path[ks[a]]]
  BY <1>6
<1> QED BY <1>1, <1>4, <1>7, <1>8

(* Paths that a resolved address has: they begin at the root, and keep a   *)
(* ".." only where there is nothing to take back.                          *)
Partial(kept) ==
    /\ kept \in Seq(Segments) /\ Len(kept) >= 1 /\ kept[1] = Addresses!Empty
    /\ \A i \in 1 .. Len(kept) : kept[i] # Addresses!Stay
    /\ \A i \in 1 .. Len(kept) : kept[i] = Addresses!Back => i = 2
NormalPaths == {path \in Seq(Segments) : Partial(path) /\ Len(path) >= 2}

LEMMA PutPartial ==
  ASSUME NEW kept \in Seq(Segments), Partial(kept), NEW part \in Segments
  PROVE  Partial(Put(kept, part))
<1>1. CASE part = Addresses!Stay
  BY <1>1 DEF Put
<1>2. CASE part = Addresses!Back /\ Len(kept) > 1
  <2>1. Put(kept, part) = [a \in 1 .. Len(kept) - 1 |-> kept[a]] /\ Put(kept, part) \in Seq(Segments)
    BY <1>2, PutSegment
  <2>2. Len(Put(kept, part)) = Len(kept) - 1
    BY <1>2, <2>1
  <2> QED BY <1>2, <2>1, <2>2 DEF Partial
<1>3. CASE part # Addresses!Stay /\ ~(part = Addresses!Back /\ Len(kept) > 1)
  <2>1. Put(kept, part) = Append(kept, part)
    BY <1>3 DEF Put
  <2>2. part = Addresses!Back => Len(kept) = 1
    BY <1>3 DEF Partial
  <2>3. /\ Append(kept, part) \in Seq(Segments)
        /\ Len(Append(kept, part)) = Len(kept) + 1
        /\ Append(kept, part)[Len(kept) + 1] = part
        /\ \A i \in 1 .. Len(kept) : Append(kept, part)[i] = kept[i]
    OBVIOUS
  <2>4. \A i \in 1 .. Len(kept) + 1 : i = Len(kept) + 1 \/ i \in 1 .. Len(kept)
    OBVIOUS
  <2> DEFINE new == Append(kept, part)
  <2> HIDE DEF new
  <2>5. Partial(new)
    BY <1>3, <2>2, <2>3, <2>4 DEF Partial, new
  <2> QED BY <2>1, <2>5 DEF new
<1> QED BY <1>1, <1>2, <1>3

LEMMA KeptIsPartial ==
  ASSUME NEW path \in Seq(Segments), path # <<>>, NEW f, KeepsFrom(path, f)
  PROVE  \A i \in 1 .. Len(path) : Partial(f[i])
<1> DEFINE N == Len(path) - 1
           K == {n \in 0 .. N : Partial(f[n + 1])}
<1>1. N \in Nat /\ Len(path) >= 1 /\ path[1] \in Segments
  OBVIOUS
<1>2. f[0] = Before(path) /\ f[1] = Put(f[0], path[1])
  <2>1. 1 \in 1 .. Len(path) /\ 1 - 1 = 0
    BY <1>1
  <2> QED BY <2>1 DEF KeepsFrom
<1>3. Partial(f[1])
  <2>1. CASE Addresses!Relative(path)
    <3>1. f[0] = <<Addresses!Empty>>
      BY <1>2, <2>1 DEF Before
    <3>2. Partial(<<Addresses!Empty>>) /\ <<Addresses!Empty>> \in Seq(Segments)
      BY SegmentNames DEF Partial, Addresses!Dots
    <3> QED BY <1>1, <1>2, <3>1, <3>2, PutPartial
  <2>2. CASE ~Addresses!Relative(path)
    <3>1. f[0] = <<>> /\ path[1] = Addresses!Empty
      BY <1>2, <2>2 DEF Before, Addresses!Relative
    <3>2. Put(<<>>, Addresses!Empty) = <<Addresses!Empty>>
      BY SegmentNames DEF Put, Addresses!Dots
    <3>3. Partial(<<Addresses!Empty>>)
      BY SegmentNames DEF Partial, Addresses!Dots
    <3> QED BY <1>2, <3>1, <3>2, <3>3
  <2> QED BY <2>1, <2>2
<1>4. 0 \in K
  <2>1. 0 + 1 = 1 /\ 0 \in 0 .. N
    BY <1>1
  <2> QED BY <1>3, <2>1
<1>5. ASSUME NEW n \in 0 .. N - 1, n \in K PROVE n + 1 \in K
  <2>1. /\ n + 2 \in 1 .. Len(path) /\ (n + 2) - 1 = n + 1 /\ n + 1 \in 0 .. N
        /\ n + 1 \in 0 .. Len(path) /\ (n + 1) + 1 = n + 2
    BY <1>1
  <2>2. f[n + 2] = Put(f[n + 1], path[n + 2])
    <3>1. f[n + 2] = Put(f[(n + 2) - 1], path[n + 2])
      BY <2>1 DEF KeepsFrom
    <3> QED BY <2>1, <3>1
  <2>3. f[n + 1] \in Seq(Segments) /\ path[n + 2] \in Segments
    BY <2>1 DEF KeepsFrom
  <2>4. Partial(f[n + 1])
    BY <1>5
  <2>5. Partial(f[n + 2])
    BY <2>2, <2>3, <2>4, PutPartial
  <2> QED BY <2>1, <2>5
<1> HIDE DEF K
<1>6. \A n \in 0 .. N : n \in K
  BY <1>1, <1>4, <1>5, StepByStep
<1> QED
  <2> SUFFICES ASSUME NEW i \in 1 .. Len(path) PROVE Partial(f[i])
    OBVIOUS
  <2>1. i - 1 \in 0 .. N /\ (i - 1) + 1 = i
    BY <1>1
  <2>2. Partial(f[(i - 1) + 1])
    BY <1>6, <2>1 DEF K
  <2> QED BY <2>1, <2>2

(* Whatever the path, what is made of it is the path of a resolved address. *)
LEMMA MadeNormal ==
  ASSUME NEW path \in Seq(Segments)
  PROVE  Addresses!NormalizePath(path) \in NormalPaths
<1> DEFINE kept == KeptOf(path)[Len(path)]
<1>1. Addresses!NormalizePath(path) = Addresses!PathOf(path, kept)
  BY KeptIsLast DEF Addresses!NormalizePath
<1>2. Addresses!Root \in NormalPaths
  BY SegmentNames DEF Addresses!Root, Addresses!Dots, NormalPaths, Partial
<1>3. CASE path \in {<<>>, Addresses!Root} \/ kept = <<Addresses!Empty>>
  BY <1>1, <1>2, <1>3 DEF Addresses!PathOf
<1>4. CASE path \notin {<<>>, Addresses!Root} /\ kept # <<Addresses!Empty>>
  <2>1. KeepsFrom(path, KeptOf(path)) /\ path # <<>>
    BY <1>4, KeptIs
  <2> HIDE DEF kept
  <2>2. Partial(kept)
    <3>1. Len(path) \in 1 .. Len(path)
      BY <2>1
    <3> QED BY <2>1, <3>1, KeptIsPartial DEF kept
  <2>3. Len(kept) >= 2
    <3>1. kept \in Seq(Segments) /\ Len(kept) >= 1 /\ kept[1] = Addresses!Empty
      BY <2>2 DEF Partial
    <3>2. Len(kept) = 1 => kept = <<Addresses!Empty>>
      BY <3>1
    <3>3. Len(kept) \in Nat
      BY <3>1
    <3>4. Len(kept) # 1
      BY <1>4, <3>2
    <3>5. \A l \in Nat : l >= 1 /\ l # 1 => l >= 2
      OBVIOUS
    <3> QED BY <3>1, <3>3, <3>4, <3>5, Zenon
  <2>4. kept \in NormalPaths
    BY <2>2, <2>3 DEF NormalPaths, Partial
  <2> QED BY <1>1, <1>4, <2>4 DEF Addresses!PathOf
<1> QED BY <1>3, <1>4

(* ... and is made of itself.                                              *)
LEMMA NormalStays ==
  ASSUME NEW path \in NormalPaths
  PROVE  Addresses!NormalizePath(path) = path
<1> DEFINE f == KeptOf(path)
           N == Len(path)
           K == {n \in 0 .. N : f[n] = SubSeq(path, 1, n)}
<1>1. /\ path \in Seq(Segments) /\ N \in Nat /\ N >= 2 /\ path[1] = Addresses!Empty
      /\ \A i \in 1 .. N : path[i] # Addresses!Stay
      /\ \A i \in 1 .. N : path[i] = Addresses!Back => i = 2
  BY DEF NormalPaths, Partial
<1>2. KeepsFrom(path, f)
  BY <1>1, KeptIs
<1> HIDE DEF f
<1>3. f[0] = <<>>
  BY <1>1, <1>2 DEF KeepsFrom, Before, Addresses!Relative
<1>4. 0 \in K
  <2>1. SubSeq(path, 1, 0) = <<>> /\ 0 \in 0 .. N
    BY <1>1
  <2> QED BY <1>3, <2>1
<1>5. ASSUME NEW n \in 0 .. N - 1, n \in K PROVE n + 1 \in K
  <2>1. n + 1 \in 1 .. N /\ (n + 1) - 1 = n /\ n + 1 \in 0 .. N
    BY <1>1
  <2>2. f[n + 1] = Put(f[n], path[n + 1])
    <3>1. f[n + 1] = Put(f[(n + 1) - 1], path[n + 1])
      BY <1>2, <2>1 DEF KeepsFrom
    <3> QED BY <2>1, <3>1
  <2>3. f[n] = SubSeq(path, 1, n) /\ Len(SubSeq(path, 1, n)) = n
    BY <1>1, <1>5
  <2>4. path[n + 1] # Addresses!Stay /\ (path[n + 1] = Addresses!Back => n + 1 = 2)
    BY <1>1, <2>1
  <2>5. f[n + 1] = Append(SubSeq(path, 1, n), path[n + 1])
    BY <2>2, <2>3, <2>4 DEF Put
  <2>6. Append(SubSeq(path, 1, n), path[n + 1]) = SubSeq(path, 1, n + 1)
    BY <1>1, <2>1
  <2> QED BY <2>1, <2>5, <2>6
<1> HIDE DEF K
<1>6. \A n \in 0 .. N : n \in K
  BY <1>1, <1>4, <1>5, StepByStep
<1>7. f[N] = path
  <2>1. N \in 0 .. N /\ SubSeq(path, 1, N) = path
    BY <1>1
  <2> QED BY <1>6, <2>1 DEF K
<1>8. Addresses!NormalizePath(path) = Addresses!PathOf(path, path)
  BY <1>7, KeptIsLast DEF Addresses!NormalizePath, f
<1>9. path # <<>> /\ path # <<Addresses!Empty>>
  BY <1>1
<1> QED BY <1>8, <1>9 DEF Addresses!PathOf

(* A path that does not climb over its root, and does not end in a dot     *)
(* segment, is normalized to what it means.                                *)
LEMMA NormalizedAsMeant ==
  ASSUME NEW path \in Seq(Segments), Len(path) >= 2, path[1] = Addresses!Empty,
         path # Addresses!Root, path[Len(path)] \notin Addresses!Dots, ~Addresses!Climbs(path)
  PROVE  Addresses!NormalizePath(path) = Addresses!Meant(path)
<1> DEFINE f == KeptOf(path)
           N == Len(path)
<1>1. KeepsFrom(path, f) /\ path # <<>> /\ N \in 1 .. N /\ N - 1 \in 0 .. N /\ N - 1 \in 1 .. N
  BY KeptIs
<1> HIDE DEF f
<1>2. f[N] = Addresses!Meant(path)
  <2>1. Keeps(path, N, f[N])
    BY <1>1, PathIsKept
  <2> QED BY <2>1, MeantIsKept
<1>3. Len(f[N]) >= 2
  <2>1. f[N] = Put(f[N - 1], path[N])
    BY <1>1 DEF KeepsFrom
  <2>2. Partial(f[N - 1])
    BY <1>1, KeptIsPartial
  <2>3. f[N - 1] \in Seq(Segments) /\ Len(f[N - 1]) >= 1
    BY <2>2 DEF Partial
  <2>4. path[N] \in Segments
    BY <1>1
  <2>5. f[N] = Append(f[N - 1], path[N])
    BY <2>1, <2>3, <2>4, PutSegment
  <2> QED BY <2>3, <2>5
<1>4. Addresses!NormalizePath(path) = Addresses!PathOf(path, f[N])
  BY KeptIsLast DEF Addresses!NormalizePath, f
<1>5. f[N] # <<Addresses!Empty>>
  <2>1. Len(<<Addresses!Empty>>) = 1
    OBVIOUS
  <2> SUFFICES ASSUME f[N] = <<Addresses!Empty>> PROVE FALSE
    OBVIOUS
  <2>2. Len(f[N]) = 1
    BY <2>1, Zenon
  <2> QED BY <1>3, <2>2
<1> QED BY <1>1, <1>2, <1>4, <1>5 DEF Addresses!PathOf

(* The address of the document was resolved: it names what loads it, and   *)
(* nothing in it is left to be normalized.                                 *)
ResolvedUrls ==
    [scheme : Addresses!Schemes, hostname : Hosts \cup {Addresses!Empty},
     port : Ports \cup {Addresses!NoPort}, path : NormalPaths,
     query : BOOLEAN, fragment : BOOLEAN]
Settled(url) ==
    /\ url.scheme = "file" => ~url.query /\ ~url.fragment
    /\ url.scheme # "file" => url.port # Addresses!DefaultPort[url.scheme]
LocationInv == location \in ResolvedUrls /\ Settled(location)

LEMMA SchemeNames ==
  /\ "http" # Addresses!Empty /\ "https" # Addresses!Empty /\ "file" # Addresses!Empty
  /\ "javascript" # Addresses!Empty
  /\ Addresses!NoPort # "80" /\ Addresses!NoPort # "443"
  BY Zenon DEF Addresses!Empty, Addresses!NoPort

(* An address before it is normalized.                                     *)
Rough ==
    [scheme : Addresses!Schemes, hostname : Hosts \cup {Addresses!Empty},
     port : Ports \cup {Addresses!NoPort}, path : Seq(Segments),
     query : BOOLEAN, fragment : BOOLEAN]

LEMMA NormalizedUrl ==
  ASSUME NEW url \in Rough
  PROVE  /\ Addresses!UrlNormalize(url) \in ResolvedUrls
         /\ Settled(Addresses!UrlNormalize(url))
         /\ Addresses!UrlNormalize(url).path = Addresses!NormalizePath(url.path)
<1> DEFINE path == Addresses!NormalizePath(url.path)
           new == Addresses!UrlNormalize(url)
<1>1. path \in NormalPaths
  BY MadeNormal DEF Rough
<1>2. url.scheme \in {"file", "http", "https"}
  BY DEF Rough, Addresses!Schemes
<1> HIDE DEF path
<1>3. CASE url.scheme = "file"
  <2>1. new = [url EXCEPT !.query = FALSE, !.fragment = FALSE, !.path = path]
    BY <1>3 DEF Addresses!UrlNormalize, path
  <2> HIDE DEF new
  <2>2. /\ new \in ResolvedUrls /\ new.path = path /\ new.scheme = "file"
        /\ ~new.query /\ ~new.fragment
    BY <1>1, <1>3, <2>1 DEF Rough, ResolvedUrls
  <2> QED BY <2>2 DEF Settled, path, new
<1>4. CASE url.scheme # "file"
  <2> DEFINE port == IF url.port = Addresses!DefaultPort[url.scheme] THEN Addresses!NoPort ELSE url.port
  <2>1. url.scheme \in DOMAIN Addresses!DefaultPort
    BY <1>2, <1>4 DEF Addresses!DefaultPort
  <2>2. Addresses!NoPort # Addresses!DefaultPort[url.scheme]
    BY <1>2, <1>4, SchemeNames DEF Addresses!DefaultPort
  <2>3. new = [url EXCEPT !.port = port, !.path = path]
    BY <1>4, <2>1 DEF Addresses!UrlNormalize, path
  <2>4. port \in Ports \cup {Addresses!NoPort} /\ port # Addresses!DefaultPort[url.scheme]
    BY <2>2 DEF Rough
  <2> HIDE DEF new, port
  <2>5. new \in ResolvedUrls /\ new.path = path /\ new.scheme = url.scheme /\ new.port = port
    BY <1>1, <2>3, <2>4 DEF Rough, ResolvedUrls
  <2> QED BY <1>4, <2>4, <2>5 DEF Settled, path, new
<1> QED BY <1>3, <1>4

LEMMA SettledStays ==
  ASSUME NEW url \in ResolvedUrls, Settled(url)
  PROVE  Addresses!UrlNormalize(url) = url
<1>1. /\ Addresses!NormalizePath(url.path) = url.path
      /\ url.scheme \in {"file", "http", "https"}
  BY NormalStays DEF ResolvedUrls, Addresses!Schemes
<1>2. CASE url.scheme = "file"
  <2>1. url.query = FALSE /\ url.fragment = FALSE
    BY <1>2 DEF Settled, ResolvedUrls
  <2>2. Addresses!UrlNormalize(url)
          = [url EXCEPT !.query = FALSE, !.fragment = FALSE, !.path = url.path]
    BY <1>1, <1>2 DEF Addresses!UrlNormalize
  <2> QED BY <2>1, <2>2 DEF ResolvedUrls
<1>3. CASE url.scheme # "file"
  <2>1. url.scheme \in DOMAIN Addresses!DefaultPort
    BY <1>1, <1>3 DEF Addresses!DefaultPort
  <2>2. url.port # Addresses!DefaultPort[url.scheme]
    BY <1>3 DEF Settled
  <2>3. Addresses!UrlNormalize(url) = [url EXCEPT !.port = url.port, !.path = url.path]
    BY <1>1, <1>3, <2>1, <2>2 DEF Addresses!UrlNormalize
  <2> QED BY <2>3 DEF ResolvedUrls
<1> QED BY <1>2, <1>3

LEMMA StartIsResolved == ASSUME Addresses!Init PROVE LocationInv
<1>1. location = Addresses!Start
  BY DEF Addresses!Init
<1>2. <<Addresses!Empty, "a", Addresses!Empty>> \in NormalPaths
  BY SegmentNames DEF NormalPaths, Partial, Addresses!Dots
<1> QED BY <1>1, <1>2 DEF LocationInv, ResolvedUrls, Settled, Addresses!Start, Addresses!Schemes

LEMMA PathsAreSequences ==
  ASSUME NEW path \in Addresses!PathsUpTo(MaxSegments) PROVE path \in Seq(Segments)
<1>1. PICK k \in 0 .. MaxSegments : path \in [1 .. k -> Segments]
  BY DEF Addresses!PathsUpTo
<1>2. MaxSegments \in Nat
  BY PathsAssumption, Zenon
<1>3. k \in Nat
  BY <1>2
<1> QED BY <1>1, <1>3

(* A relative path follows the base without its last segment.              *)
LEMMA JoinedPath ==
  ASSUME NEW base \in NormalPaths, NEW path \in Seq(Segments)
  PROVE  /\ Addresses!JoinPath(base, path) \in Seq(Segments)
         /\ path # <<>> /\ Addresses!Relative(path) =>
               /\ Addresses!JoinPath(base, path) = Addresses!Front(base) \o path
               /\ Len(Addresses!JoinPath(base, path)) = Len(base) - 1 + Len(path)
               /\ \A i \in 1 .. Len(base) - 1 : Addresses!JoinPath(base, path)[i] = base[i]
               /\ \A i \in 1 .. Len(path) :
                     Addresses!JoinPath(base, path)[Len(base) - 1 + i] = path[i]
<1>1. base \in Seq(Segments) /\ Len(base) >= 2
  BY DEF NormalPaths
<1>2. /\ Addresses!Front(base) \in Seq(Segments) /\ Len(Addresses!Front(base)) = Len(base) - 1
      /\ \A i \in 1 .. Len(base) - 1 : Addresses!Front(base)[i] = base[i]
  BY <1>1 DEF Addresses!Front
<1>3. ASSUME NEW front \in Seq(Segments), Len(front) = Len(base) - 1
      PROVE  /\ front \o path \in Seq(Segments) /\ Len(front \o path) = Len(base) - 1 + Len(path)
             /\ \A i \in 1 .. Len(base) - 1 : (front \o path)[i] = front[i]
             /\ \A i \in 1 .. Len(path) : (front \o path)[Len(base) - 1 + i] = path[i]
  BY <1>1, <1>3
<1>4. Addresses!JoinPath(base, path)
        \in {base, path, Addresses!Front(base) \o path}
  BY DEF Addresses!JoinPath
<1>5. Addresses!JoinPath(base, path) \in Seq(Segments)
  <2>1. Addresses!Front(base) \o path \in Seq(Segments)
    BY <1>2
  <2> QED BY <1>1, <1>4, <2>1
<1>6. ASSUME path # <<>>, Addresses!Relative(path)
      PROVE  Addresses!JoinPath(base, path) = Addresses!Front(base) \o path
  BY <1>1, <1>6 DEF Addresses!JoinPath
<1> SUFFICES ASSUME path # <<>>, Addresses!Relative(path)
             PROVE  /\ Len(Addresses!JoinPath(base, path)) = Len(base) - 1 + Len(path)
                    /\ \A i \in 1 .. Len(base) - 1 : Addresses!JoinPath(base, path)[i] = base[i]
                    /\ \A i \in 1 .. Len(path) :
                          Addresses!JoinPath(base, path)[Len(base) - 1 + i] = path[i]
  BY <1>5, <1>6
<1> DEFINE front == Addresses!Front(base)
<1>7. Addresses!JoinPath(base, path) = front \o path
  BY <1>6
<1>8. /\ front \in Seq(Segments) /\ Len(front) = Len(base) - 1
      /\ \A i \in 1 .. Len(base) - 1 : front[i] = base[i]
  BY <1>2
<1> HIDE DEF front
<1>9. /\ Len(front \o path) = Len(base) - 1 + Len(path)
      /\ \A i \in 1 .. Len(base) - 1 : (front \o path)[i] = front[i]
      /\ \A i \in 1 .. Len(path) : (front \o path)[Len(base) - 1 + i] = path[i]
  BY <1>3, <1>8
<1> QED BY <1>7, <1>8, <1>9

LEMMA JoinedUrl ==
  ASSUME NEW base \in ResolvedUrls, NEW url, NEW scheme \in Addresses!Schemes \cup {Addresses!Empty},
         url \in [scheme : {scheme}, hostname : Hosts \cup {Addresses!Empty},
                  port : Ports \cup {Addresses!NoPort},
                  path : Seq(Segments), query : BOOLEAN, fragment : BOOLEAN],
         ~Addresses!ReadAsScheme(url)
  PROVE  Addresses!UrlJoin(base, url) \in Rough
<1>1. CASE url.scheme # Addresses!Empty
  <2>1. Addresses!UrlJoin(base, url) = url
    BY <1>1 DEF Addresses!UrlJoin
  <2> QED BY <1>1, <2>1 DEF Rough
<1>2. CASE url.scheme = Addresses!Empty
  <2> DEFINE owner == IF base.hostname = Addresses!Empty THEN url ELSE base
             path == Addresses!NormalizePath(Addresses!JoinPath(base.path, url.path))
  <2>1. Addresses!UrlJoin(base, url)
          = [scheme |-> base.scheme, hostname |-> owner.hostname, port |-> owner.port,
             path |-> path, query |-> url.query, fragment |-> FALSE]
    BY <1>2 DEF Addresses!UrlJoin
  <2>2. owner.hostname \in Hosts \cup {Addresses!Empty} /\ owner.port \in Ports \cup {Addresses!NoPort}
    BY DEF ResolvedUrls
  <2>3. path \in Seq(Segments)
    <3>1. base.path \in NormalPaths /\ url.path \in Seq(Segments)
      BY DEF ResolvedUrls
    <3>2. path \in NormalPaths
      BY <3>1, JoinedPath, MadeNormal
    <3> QED BY <3>2 DEF NormalPaths
  <2> HIDE DEF owner, path
  <2> QED BY <2>1, <2>2, <2>3 DEF Rough, ResolvedUrls
<1> QED BY <1>1, <1>2

(* Whatever the document links to, its next address is resolved again.     *)
LEMMA FollowStep ==
  ASSUME LocationInv, NEW url \in Addresses!Addresses, Addresses!Follow(url)
  PROVE  LocationInv'
<1>1. /\ location \in ResolvedUrls /\ url.path \in Seq(Segments)
      /\ url \in [scheme : Addresses!Schemes \cup {Addresses!Empty, "javascript"}, hostname : Hosts,
                  port : Ports, path : Addresses!PathsUpTo(MaxSegments),
                  query : BOOLEAN, fragment : BOOLEAN]
      /\ location' = Addresses!Uri(url, location) /\ Addresses!Uri(url, location) # None
      /\ ~Addresses!ReadAsScheme(url)
  BY PathsAreSequences DEF LocationInv, Addresses!Addresses, Addresses!Follow
<1>2. url.scheme # "javascript"
  BY <1>1 DEF Addresses!Uri
<1>3. url.scheme \in Addresses!Schemes \cup {Addresses!Empty}
  BY <1>1, <1>2
<1>4. PICK rough \in Rough : location' = Addresses!UrlNormalize(rough)
  <2>1. CASE url.scheme # Addresses!Empty
    <3>1. location' = Addresses!UrlNormalize(url)
      BY <1>1, <1>2, <2>1 DEF Addresses!Uri
    <3>2. url \in Rough
      BY <1>1, <1>3, <2>1 DEF Rough
    <3> QED BY <3>1, <3>2
  <2>2. CASE url.scheme = Addresses!Empty /\ url.hostname # Addresses!Empty
    <3> DEFINE http == [url EXCEPT !.scheme = "http"]
    <3>1. location' = Addresses!UrlNormalize(Addresses!UrlJoin(location, http))
      BY <1>1, <1>2, <2>2 DEF Addresses!Uri
    <3>2. http \in [scheme : {"http"}, hostname : Hosts \cup {Addresses!Empty},
                    port : Ports \cup {Addresses!NoPort}, path : Seq(Segments),
                    query : BOOLEAN, fragment : BOOLEAN]
      BY <1>1
    <3>3. "http" \in Addresses!Schemes \cup {Addresses!Empty} /\ http.scheme # Addresses!Empty
      BY <3>2, SchemeNames DEF Addresses!Schemes
    <3> HIDE DEF http
    <3>4. Addresses!UrlJoin(location, http) \in Rough
      BY <1>1, <3>2, <3>3, JoinedUrl DEF Addresses!ReadAsScheme
    <3> QED BY <3>1, <3>4
  <2>3. CASE url.scheme = Addresses!Empty /\ url.hostname = Addresses!Empty
    <3>1. location' = Addresses!UrlNormalize(Addresses!UrlJoin(location, url))
      BY <1>1, <1>2, <2>3 DEF Addresses!Uri
    <3>2. url \in [scheme : {url.scheme}, hostname : Hosts \cup {Addresses!Empty},
                   port : Ports \cup {Addresses!NoPort}, path : Seq(Segments),
                   query : BOOLEAN, fragment : BOOLEAN]
      BY <1>1
    <3>4. Addresses!UrlJoin(location, url) \in Rough
      BY <1>1, <1>3, <3>2, JoinedUrl
    <3> QED BY <3>1, <3>4
  <2> QED BY <2>1, <2>2, <2>3
<1>5. Addresses!UrlNormalize(rough) \in ResolvedUrls /\ Settled(Addresses!UrlNormalize(rough))
  BY NormalizedUrl
<1> QED BY <1>4, <1>5 DEF LocationInv, Settled

(* A relative path from the document's own address.                        *)
LinkTo(path) == [Addresses!Start EXCEPT !.scheme = Addresses!Empty, !.path = path]

LEMMA RelativeIsMeant ==
  ASSUME LocationInv, NEW path \in Seq(Segments), path # <<>>, Addresses!Relative(path),
         ~Addresses!ReadAsScheme(LinkTo(path)),
         Addresses!Last(path) \notin Addresses!Dots,
         ~Addresses!Climbs(Addresses!JoinPath(location.path, path))
  PROVE  Addresses!Uri(LinkTo(path), location).path
            = Addresses!Meant(Addresses!JoinPath(location.path, path))
<1> DEFINE whole == Addresses!JoinPath(location.path, path)
           url == [scheme |-> Addresses!Empty, hostname |-> Addresses!Empty,
                   port |-> Addresses!NoPort, path |-> path, query |-> FALSE, fragment |-> FALSE]
           base == location.path
<1>1. location \in ResolvedUrls /\ base \in NormalPaths
  BY DEF LocationInv, ResolvedUrls
<1>2. base \in Seq(Segments) /\ Len(base) >= 2 /\ base[1] = Addresses!Empty
  BY <1>1 DEF NormalPaths, Partial
<1>3. Len(path) \in Nat /\ Len(path) >= 1 /\ path[1] # Addresses!Empty
  BY DEF Addresses!Relative
<1> HIDE DEF base
<1>4. /\ whole \in Seq(Segments) /\ Len(whole) = Len(base) - 1 + Len(path)
      /\ \A i \in 1 .. Len(base) - 1 : whole[i] = base[i]
      /\ \A i \in 1 .. Len(path) : whole[Len(base) - 1 + i] = path[i]
  BY <1>1, JoinedPath DEF base
<1> HIDE DEF whole
<1>5. Len(base) \in Nat /\ Len(whole) >= 2 /\ Len(whole) \in Nat
  BY <1>2, <1>3, <1>4
<1>6. whole[1] = Addresses!Empty
  BY <1>2, <1>4
<1>7. whole[Len(whole)] \notin Addresses!Dots
  <2>1. Len(path) \in 1 .. Len(path)
    BY <1>3
  <2>2. whole[Len(base) - 1 + Len(path)] = path[Len(path)]
    BY <1>4, <2>1
  <2> QED BY <1>4, <2>2 DEF Addresses!Last
<1>8. whole # Addresses!Root
  <2> SUFFICES ASSUME whole = Addresses!Root PROVE FALSE
    OBVIOUS
  <2>1. Len(whole) = 2 /\ whole[2] = Addresses!Empty
    BY DEF Addresses!Root
  <2>2. Len(base) = 2 /\ Len(path) = 1
    BY <1>2, <1>3, <1>4, <1>5, <2>1
  <2>3. whole[2] = path[1]
    BY <1>4, <2>2
  <2> QED BY <1>3, <2>1, <2>3
<1>9. Addresses!NormalizePath(whole) = Addresses!Meant(whole)
  BY <1>4, <1>5, <1>6, <1>7, <1>8, NormalizedAsMeant DEF whole
<1>10. LinkTo(path) = url
  <2> DEFINE Shape == [scheme : {"file"}, hostname : {Addresses!Empty}, port : {Addresses!NoPort},
                       path : {Addresses!Start.path}, query : {FALSE}, fragment : {FALSE}]
  <2>1. Addresses!Start \in Shape
    BY DEF Addresses!Start
  <2>2. ASSUME NEW start \in Shape
        PROVE  [start EXCEPT !.scheme = Addresses!Empty, !.path = path] = url
    <3> DEFINE new == [start EXCEPT !.scheme = Addresses!Empty, !.path = path]
               Alike == [scheme : {Addresses!Empty}, hostname : {Addresses!Empty},
                         port : {Addresses!NoPort}, path : {path}, query : {FALSE}, fragment : {FALSE}]
    <3>1. new \in Alike
      OBVIOUS
    <3> HIDE DEF new
    <3>2. new = url
      BY <3>1
    <3> QED BY <3>2 DEF new
  <2> HIDE DEF Shape, url
  <2> QED BY <2>1, <2>2 DEF LinkTo
<1> DEFINE joined == Addresses!UrlJoin(location, url)
<1>11. Addresses!Uri(url, location) = Addresses!UrlNormalize(joined)
  BY SchemeNames DEF Addresses!Uri
<1>12. url \in [scheme : {Addresses!Empty}, hostname : Hosts \cup {Addresses!Empty},
                port : Ports \cup {Addresses!NoPort}, path : Seq(Segments),
                query : BOOLEAN, fragment : BOOLEAN]
  OBVIOUS
<1>13. ~Addresses!ReadAsScheme(url) /\ joined.path = Addresses!NormalizePath(whole)
  <2>1. ~Addresses!ReadAsScheme(url)
    BY <1>10
  <2> QED BY <2>1 DEF Addresses!UrlJoin, whole
<1> HIDE DEF url
<1>14. joined \in Rough
  BY <1>1, <1>12, <1>13, JoinedUrl
<1> HIDE DEF joined
<1>15. Addresses!UrlNormalize(joined).path = Addresses!NormalizePath(joined.path)
  BY <1>14, NormalizedUrl
<1>16. Addresses!NormalizePath(whole) \in NormalPaths
  BY <1>4, MadeNormal
<1>17. Addresses!NormalizePath(joined.path) = Addresses!NormalizePath(whole)
  BY <1>13, <1>16, NormalStays
<1> QED BY <1>9, <1>10, <1>11, <1>15, <1>17 DEF whole

LEMMA ResolvedOfOne == ASSUME LocationInv PROVE Addresses!AddressesAreResolved
<1>1. ASSUME NEW base PROVE Addresses!Uri(location, base) = location
  <2>1. location \in ResolvedUrls /\ Settled(location)
    BY DEF LocationInv
  <2>2. location.scheme \in {"file", "http", "https"}
    BY <2>1 DEF ResolvedUrls, Addresses!Schemes
  <2>3. location.scheme # Addresses!Empty /\ location.scheme # "javascript"
    BY <2>2, SchemeNames
  <2>4. Addresses!Uri(location, base) = Addresses!UrlNormalize(location)
    BY <2>3 DEF Addresses!Uri
  <2> QED BY <2>1, <2>4, SettledStays
<1>2. ASSUME NEW path \in Addresses!PathsUpTo(MaxSegments) PROVE path \in Seq(Segments)
  BY PathsAreSequences
<1> HIDE DEF LocationInv
<1>3. ASSUME NEW path \in Addresses!PathsUpTo(MaxSegments), path # <<>>,
             Addresses!Relative(path), ~Addresses!ReadAsScheme(LinkTo(path)),
             Addresses!Last(path) \notin Addresses!Dots,
             ~Addresses!Climbs(Addresses!JoinPath(location.path, path))
      PROVE  Addresses!Uri(LinkTo(path), location).path
                = Addresses!Meant(Addresses!JoinPath(location.path, path))
  BY <1>2, <1>3, RelativeIsMeant
<1>4. \A path \in Addresses!PathsUpTo(MaxSegments) :
         LET whole == Addresses!JoinPath(location.path, path)
             link == LinkTo(path)
         IN  path # <<>> /\ Addresses!Relative(path) /\ ~Addresses!ReadAsScheme(link)
               /\ Addresses!Last(path) \notin Addresses!Dots /\ ~Addresses!Climbs(whole)
             => Addresses!Uri(link, location).path = Addresses!Meant(whole)
  BY <1>3
<1>5. \A base \in {Addresses!Start, location} : Addresses!Uri(location, base) = location
  BY <1>1
<1> QED BY <1>4, <1>5, Zenon DEF Addresses!AddressesAreResolved, LinkTo

(* Whatever the document links to, the address it loads names the segments *)
(* that the link means, and stays what it is wherever it is resolved again. *)
THEOREM AddressesAreResolvedAlways == WindowSpec => []AddressesAreResolved
<1> DEFINE Inv == running = "urls" => LocationInv
<1>1. WindowInit => Inv
  BY StartIsResolved DEF WindowInit
<1>2. Inv /\ [WindowNext]_all => Inv'
  <2> SUFFICES ASSUME Inv, [WindowNext]_all, running' = "urls" PROVE LocationInv'
    OBVIOUS
  <2>1. running = "urls" /\ (Addresses!Next \/ UNCHANGED location)
    BY OneRuns
  <2>2. CASE UNCHANGED location
    BY <2>1, <2>2 DEF LocationInv, Settled
  <2>3. CASE Addresses!Next
    <3>1. PICK url \in Addresses!Addresses : Addresses!Follow(url)
      BY <2>3 DEF Addresses!Next
    <3> QED BY <2>1, <3>1, FollowStep
  <2> QED BY <2>1, <2>2, <2>3
<1>3. Inv => AddressesAreResolved
  BY ResolvedOfOne DEF AddressesAreResolved
<1> QED BY <1>1, <1>2, <1>3, PTL DEF WindowSpec

-----------------------------------------------------------------------------
(* Properties.  A class is put together of properties that use attributes  *)
(* of their own, but for those that are shared: what one of them writes,   *)
(* no other reads.                                                         *)

(* The attributes that a class uses are some of these.                     *)
Uses(class, names) ==
    \A p \in DOMAIN class : /\ class[p].reads \in names \cup {Reflection!NoName}
                            /\ class[p].writes \in names \cup {Reflection!NoName}

(* How a property is kept: it reads what it writes, if it does both.       *)
Paired(p, how) ==
    /\ how.kind \in {"text", "word", "presence", "choice"}
    /\ how.kind = "word" => p # ""
    /\ how.kind = "choice" => how.writes = Reflection!NoName
    /\ \/ how.reads = Reflection!NoName
       \/ how.writes = Reflection!NoName
       \/ how.reads = how.writes

(* What one property writes another reads only if the two are shared.      *)
Heeds(how, other) == how.writes = other.reads /\ other.reads # Reflection!NoName
Apart(class, shared) ==
    /\ \A p \in DOMAIN class : Paired(p, class[p])
    /\ \A p, q \in DOMAIN class : Heeds(class[p], class[q]) /\ p # q => {p, q} \in shared

LEMMA OverIs ==
  ASSUME NEW own, NEW inherited
  PROVE  /\ DOMAIN Reflection!Over(own, inherited) = DOMAIN own \cup DOMAIN inherited
         /\ \A p \in DOMAIN own : Reflection!Over(own, inherited)[p] = own[p]
         /\ \A p \in DOMAIN inherited \ DOMAIN own :
               Reflection!Over(own, inherited)[p] = inherited[p]
BY DEF Reflection!Over

(* Two parts of a class that share nothing, or only what may be shared.    *)
LEMMA SharedOver ==
  ASSUME NEW own, NEW inherited, NEW shared, Apart(own, shared), Apart(inherited, shared),
         \A p \in DOMAIN own, q \in DOMAIN inherited :
            /\ Heeds(own[p], inherited[q]) => {p, q} \in shared
            /\ Heeds(inherited[q], own[p]) => {p, q} \in shared
  PROVE  Apart(Reflection!Over(own, inherited), shared)
<1> DEFINE class == Reflection!Over(own, inherited)
<1>1. /\ DOMAIN class = DOMAIN own \cup DOMAIN inherited
      /\ \A p \in DOMAIN own : class[p] = own[p]
      /\ \A p \in DOMAIN inherited \ DOMAIN own : class[p] = inherited[p]
  BY OverIs
<1> HIDE DEF class
<1>2. \A p \in DOMAIN class : Paired(p, class[p])
  BY <1>1 DEF Apart
<1>3. ASSUME NEW p \in DOMAIN class, NEW q \in DOMAIN class, Heeds(class[p], class[q]), p # q
      PROVE  {p, q} \in shared
  <2>1. CASE p \in DOMAIN own /\ q \in DOMAIN own
    BY <1>1, <1>3, <2>1 DEF Apart
  <2>2. CASE p \notin DOMAIN own /\ q \notin DOMAIN own
    BY <1>1, <1>3, <2>2 DEF Apart
  <2>3. CASE p \in DOMAIN own /\ q \notin DOMAIN own
    BY <1>1, <1>3, <2>3
  <2>4. CASE p \notin DOMAIN own /\ q \in DOMAIN own
    <3>1. {q, p} \in shared
      BY <1>1, <1>3, <2>4
    <3>2. {q, p} = {p, q}
      OBVIOUS
    <3> QED BY <3>1, <3>2
  <2> QED BY <2>1, <2>2, <2>3, <2>4
<1> QED BY <1>2, <1>3 DEF Apart, class

LEMMA UsesOver ==
  ASSUME NEW own, NEW inherited, NEW names, NEW others, Uses(own, names), Uses(inherited, others)
  PROVE  Uses(Reflection!Over(own, inherited), names \cup others)
<1> DEFINE class == Reflection!Over(own, inherited)
<1>1. /\ DOMAIN class = DOMAIN own \cup DOMAIN inherited
      /\ \A p \in DOMAIN own : class[p] = own[p]
      /\ \A p \in DOMAIN inherited \ DOMAIN own : class[p] = inherited[p]
  BY OverIs
<1> HIDE DEF class
<1>2. ASSUME NEW p \in DOMAIN class
      PROVE  /\ class[p].reads \in names \cup others \cup {Reflection!NoName}
             /\ class[p].writes \in names \cup others \cup {Reflection!NoName}
  <2>1. CASE p \in DOMAIN own
    BY <1>1, <2>1 DEF Uses
  <2>2. CASE p \in DOMAIN inherited \ DOMAIN own
    BY <1>1, <2>2 DEF Uses
  <2> QED BY <1>1, <2>1, <2>2
<1>3. Uses(class, names \cup others)
  BY <1>2 DEF Uses
<1> QED BY <1>3 DEF class

LEMMA ApartOver ==
  ASSUME NEW own, NEW inherited, NEW shared, NEW names, NEW others,
         Apart(own, shared), Apart(inherited, shared), Uses(own, names), Uses(inherited, others),
         names \cap others = {}
  PROVE  /\ Apart(Reflection!Over(own, inherited), shared)
         /\ Uses(Reflection!Over(own, inherited), names \cup others)
<1>1. \A p \in DOMAIN own, q \in DOMAIN inherited :
         ~Heeds(own[p], inherited[q]) /\ ~Heeds(inherited[q], own[p])
  BY DEF Uses, Heeds
<1>2. Apart(Reflection!Over(own, inherited), shared)
  BY <1>1, SharedOver
<1>3. Uses(Reflection!Over(own, inherited), names \cup others)
  BY UsesOver
<1> QED BY <1>2, <1>3

(* The parts that classes are put together of.                             *)
LEMMA TextApart ==
  ASSUME NEW ps, NEW shared
  PROVE  /\ Apart(Reflection!Text(ps), shared) /\ Uses(Reflection!Text(ps), ps)
         /\ Apart(Reflection!Read(ps), shared) /\ Uses(Reflection!Read(ps), ps)
<1>1. ASSUME NEW class, NEW writes, DOMAIN class = ps,
             \A p \in ps : /\ class[p] = [kind |-> "text", reads |-> p, writes |-> writes[p]]
                           /\ writes[p] \in {p, Reflection!NoName}
      PROVE  Apart(class, shared) /\ Uses(class, ps)
  <2>1. \A p \in ps : /\ class[p].kind = "text" /\ class[p].reads = p
                      /\ class[p].writes \in {p, Reflection!NoName}
    BY <1>1
  <2>2. Uses(class, ps)
    BY <1>1, <2>1 DEF Uses
  <2>3. \A p \in ps : Paired(p, class[p])
    BY <2>1 DEF Paired
  <2>4. \A p, q \in ps : Heeds(class[p], class[q]) => p = q
    BY <2>1 DEF Heeds
  <2> QED BY <1>1, <2>2, <2>3, <2>4 DEF Apart
<1>2. Apart(Reflection!Text(ps), shared) /\ Uses(Reflection!Text(ps), ps)
  <2> DEFINE class == Reflection!Text(ps)
             writes == [p \in ps |-> p]
  <2>1. /\ DOMAIN class = ps
        /\ \A p \in ps : /\ class[p] = [kind |-> "text", reads |-> p, writes |-> writes[p]]
                          /\ writes[p] \in {p, Reflection!NoName}
    BY DEF Reflection!Text
  <2> HIDE DEF class, writes
  <2> QED BY <1>1, <2>1 DEF class
<1>3. Apart(Reflection!Read(ps), shared) /\ Uses(Reflection!Read(ps), ps)
  <2> DEFINE class == Reflection!Read(ps)
             writes == [p \in ps |-> Reflection!NoName]
  <2>1. /\ DOMAIN class = ps
        /\ \A p \in ps : /\ class[p] = [kind |-> "text", reads |-> p, writes |-> writes[p]]
                          /\ writes[p] \in {p, Reflection!NoName}
    BY DEF Reflection!Read
  <2> HIDE DEF class, writes
  <2> QED BY <1>1, <2>1 DEF class
<1> QED BY <1>2, <1>3

LEMMA ReflectsApart ==
  ASSUME NEW kind \in {"text", "word", "presence", "choice"}, NEW p, NEW reads, NEW writes,
         NEW shared, kind = "word" => p # "", kind = "choice" => writes = Reflection!NoName,
         \/ reads = Reflection!NoName \/ writes = Reflection!NoName
         \/ reads = writes
  PROVE  /\ Apart(Reflection!Reflects(kind, p, reads, writes), shared)
         /\ Uses(Reflection!Reflects(kind, p, reads, writes), {reads, writes})
<1> DEFINE class == Reflection!Reflects(kind, p, reads, writes)
           how == [kind |-> kind, reads |-> reads, writes |-> writes]
<1>1. DOMAIN class = {p} /\ class[p] = how
  BY DEF Reflection!Reflects
<1>2. how.kind = kind /\ how.reads = reads /\ how.writes = writes
  OBVIOUS
<1> HIDE DEF class, how
<1>3. Apart(class, shared)
  <2>1. Paired(p, class[p])
    BY <1>1, <1>2 DEF Paired
  <2> QED BY <1>1, <2>1 DEF Apart
<1>4. Uses(class, {reads, writes})
  BY <1>1, <1>2 DEF Uses
<1> QED BY <1>3, <1>4 DEF class

LEMMA TextOver ==
  ASSUME NEW ps, NEW inherited, NEW shared, NEW others,
         Apart(inherited, shared), Uses(inherited, others), ps \cap others = {}
  PROVE  /\ Apart(Reflection!Over(Reflection!Text(ps), inherited), shared)
         /\ Uses(Reflection!Over(Reflection!Text(ps), inherited), ps \cup others)
         /\ Apart(Reflection!Over(Reflection!Read(ps), inherited), shared)
         /\ Uses(Reflection!Over(Reflection!Read(ps), inherited), ps \cup others)
BY TextApart, ApartOver

LEMMA ReflectsOver ==
  ASSUME NEW kind \in {"text", "word", "presence", "choice"}, NEW p, NEW reads, NEW writes,
         NEW shared, kind = "word" => p # "", kind = "choice" => writes = Reflection!NoName,
         \/ reads = Reflection!NoName \/ writes = Reflection!NoName
         \/ reads = writes,
         NEW inherited, NEW others,
         Apart(inherited, shared), Uses(inherited, others), {reads, writes} \cap others = {}
  PROVE  /\ Apart(Reflection!Over(Reflection!Reflects(kind, p, reads, writes), inherited), shared)
         /\ Uses(Reflection!Over(Reflection!Reflects(kind, p, reads, writes), inherited),
                 {reads, writes} \cup others)
BY ReflectsApart, ApartOver

(* A property that shares its attribute with some above it.                *)
LEMMA SharerOver ==
  ASSUME NEW kind \in {"text", "word", "presence", "choice"}, NEW p, NEW reads, NEW writes,
         NEW shared, kind = "word" => p # "", kind = "choice" => writes = Reflection!NoName,
         \/ reads = Reflection!NoName \/ writes = Reflection!NoName
         \/ reads = writes,
         NEW inherited, NEW others,
         Apart(inherited, shared), Uses(inherited, others), {reads, writes} \cap others = {},
         NEW own, NEW names, Apart(own, shared), Uses(own, names), names \cap others = {},
         NEW how, how = [kind |-> kind, reads |-> reads, writes |-> writes],
         \A q \in DOMAIN own : Heeds(how, own[q]) \/ Heeds(own[q], how) => {p, q} \in shared
  PROVE  LET below == Reflection!Over(Reflection!Reflects(kind, p, reads, writes), inherited)
         IN  /\ Apart(Reflection!Over(own, below), shared)
             /\ Uses(Reflection!Over(own, below), names \cup ({reads, writes} \cup others))
<1> DEFINE sharer == Reflection!Reflects(kind, p, reads, writes)
           below == Reflection!Over(sharer, inherited)
<1>1. Apart(below, shared) /\ Uses(below, {reads, writes} \cup others)
  BY ReflectsOver
<1>2. DOMAIN sharer = {p} /\ sharer[p] = how
  BY DEF Reflection!Reflects
<1>3. /\ DOMAIN below = DOMAIN sharer \cup DOMAIN inherited
      /\ \A q \in DOMAIN sharer : below[q] = sharer[q]
      /\ \A q \in DOMAIN inherited \ DOMAIN sharer : below[q] = inherited[q]
  BY OverIs
<1> HIDE DEF sharer, below
<1>4. ASSUME NEW q \in DOMAIN own, NEW r \in DOMAIN below
      PROVE  /\ Heeds(own[q], below[r]) => {q, r} \in shared
             /\ Heeds(below[r], own[q]) => {q, r} \in shared
  <2>1. CASE r = p
    <3>1. below[r] = how /\ {q, r} = {p, q}
      BY <1>2, <1>3, <2>1
    <3> QED BY <3>1
  <2>2. CASE r # p
    <3>1. r \in DOMAIN inherited /\ below[r] = inherited[r]
      BY <1>2, <1>3, <2>2
    <3>2. ~Heeds(own[q], inherited[r]) /\ ~Heeds(inherited[r], own[q])
      BY <3>1 DEF Uses, Heeds
    <3> QED BY <3>1, <3>2
  <2> QED BY <2>1, <2>2
<1>5. Apart(Reflection!Over(own, below), shared)
  BY <1>1, <1>4, SharedOver
<1>6. Uses(Reflection!Over(own, below), names \cup ({reads, writes} \cup others))
  BY <1>1, UsesOver
<1> QED BY <1>5, <1>6 DEF below, sharer

(* The attributes of the classes that others inherit.                      *)
ElementUses == {"dir", "id", "lang", "title", "tabIndex", "class"}
InputUses == {"accessKey", "access", "disabled"} \cup ElementUses
TypeValueUses == {"size", "name"} \cup InputUses
InputAreaUses == {"readOnly"} \cup TypeValueUses
LegendUses == {"align"} \cup InputUses
FrameUses == {"longDesc", "marginHeight", "marginWidth", "name", "noResize",
    "scrolling", "src", "border"} \cup ElementUses

LEMMA BasesAreApart ==
  ASSUME NEW shared
  PROVE  /\ Apart(Reflection!HTMLElement, shared)
         /\ Uses(Reflection!HTMLElement, ElementUses)
         /\ Apart(Reflection!HTMLInputCommon, shared)
         /\ Uses(Reflection!HTMLInputCommon, InputUses)
         /\ Apart(Reflection!HTMLTypeValueInputs, shared)
         /\ Uses(Reflection!HTMLTypeValueInputs, TypeValueUses)
         /\ Apart(Reflection!HTMLInputAreaCommon, shared)
         /\ Uses(Reflection!HTMLInputAreaCommon, InputAreaUses)
         /\ Apart(Reflection!HTMLLegendElement, shared)
         /\ Uses(Reflection!HTMLLegendElement, LegendUses)
         /\ Apart(Reflection!HTMLFrameElement, shared)
         /\ Uses(Reflection!HTMLFrameElement, FrameUses)
<1>1. /\ Apart(Reflection!HTMLElement, shared)
      /\ Uses(Reflection!HTMLElement, ElementUses)
  <2>1. /\ Apart(Reflection!Renamed("className", "class"), shared)
        /\ Uses(Reflection!Renamed("className", "class"), {"class", "class"})
    BY ReflectsApart DEF Reflection!Renamed
  <2> QED BY <2>1, TextOver DEF Reflection!HTMLElement, ElementUses
<1>2. /\ Apart(Reflection!HTMLInputCommon, shared)
      /\ Uses(Reflection!HTMLInputCommon, InputUses)
  <2> DEFINE inner == Reflection!Over(Reflection!Word("disabled"),
                Reflection!HTMLElement)
  <2>1. {"disabled", "disabled"} \cap ElementUses = {}
    BY DEF ElementUses
  <2>2. Apart(inner, shared) /\ Uses(inner, {"disabled", "disabled"} \cup ElementUses)
    BY <2>1, <1>1, ReflectsOver DEF Reflection!Word
  <2> HIDE DEF inner
  <2>3. {"accessKey", "access"} \cap ({"disabled", "disabled"} \cup ElementUses) = {}
    BY DEF ElementUses
  <2>4. /\ Apart(Reflection!Over(Reflection!Text({"accessKey", "access"}), inner),
              shared)
        /\ Uses(Reflection!Over(Reflection!Text({"accessKey", "access"}), inner),
              {"accessKey", "access"} \cup ({"disabled", "disabled"} \cup ElementUses))
    BY <2>3, <2>2, TextOver
  <2> QED BY <2>4 DEF Reflection!HTMLInputCommon, inner, InputUses
<1>3. /\ Apart(Reflection!HTMLTypeValueInputs, shared)
      /\ Uses(Reflection!HTMLTypeValueInputs, TypeValueUses)
  <2>1. {"size", "name"} \cap InputUses = {}
    BY DEF InputUses, ElementUses
  <2> QED BY <2>1, <1>2, TextOver DEF Reflection!HTMLTypeValueInputs, TypeValueUses
<1>4. /\ Apart(Reflection!HTMLInputAreaCommon, shared)
      /\ Uses(Reflection!HTMLInputAreaCommon, InputAreaUses)
  <2>1. {"readOnly", "readOnly"} \cap TypeValueUses = {}
    BY DEF TypeValueUses, InputUses, ElementUses
  <2>2. /\ Apart(Reflection!Over(Reflection!Word("readOnly"),
              Reflection!HTMLTypeValueInputs), shared)
        /\ Uses(Reflection!Over(Reflection!Word("readOnly"),
              Reflection!HTMLTypeValueInputs), {"readOnly", "readOnly"} \cup
              TypeValueUses)
    BY <2>1, <1>3, ReflectsOver DEF Reflection!Word
  <2> QED BY <2>2 DEF Reflection!HTMLInputAreaCommon, InputAreaUses
<1>5. /\ Apart(Reflection!HTMLLegendElement, shared)
      /\ Uses(Reflection!HTMLLegendElement, LegendUses)
  <2>1. {"align"} \cap InputUses = {}
    BY DEF InputUses, ElementUses
  <2> QED BY <2>1, <1>2, TextOver DEF Reflection!HTMLLegendElement, LegendUses
<1>6. /\ Apart(Reflection!HTMLFrameElement, shared)
      /\ Uses(Reflection!HTMLFrameElement, FrameUses)
  <2> DEFINE inner == Reflection!Over(Reflection!Renamed("frameBorder", "border"),
                Reflection!HTMLElement)
  <2>1. {"border", "border"} \cap ElementUses = {}
    BY DEF ElementUses
  <2>2. Apart(inner, shared) /\ Uses(inner, {"border", "border"} \cup ElementUses)
    BY <2>1, <1>1, ReflectsOver DEF Reflection!Renamed
  <2> HIDE DEF inner
  <2>3. {"longDesc", "marginHeight", "marginWidth", "name", "noResize", "scrolling",
        "src"} \cap ({"border", "border"} \cup ElementUses) = {}
    BY DEF ElementUses
  <2>4. /\ Apart(Reflection!Over(Reflection!Text({"longDesc", "marginHeight",
              "marginWidth", "name", "noResize", "scrolling", "src"}), inner), shared)
        /\ Uses(Reflection!Over(Reflection!Text({"longDesc", "marginHeight",
              "marginWidth", "name", "noResize", "scrolling", "src"}), inner),
              {"longDesc", "marginHeight", "marginWidth", "name", "noResize",
              "scrolling", "src"} \cup ({"border", "border"} \cup ElementUses))
    BY <2>3, <2>2, TextOver
  <2> QED BY <2>4 DEF Reflection!HTMLFrameElement, inner, FrameUses
<1> QED BY <1>1, <1>2, <1>3, <1>4, <1>5, <1>6

LEMMA ClassesAreApart ==
  ASSUME NEW shared
  PROVE  /\ Apart(Reflection!HTMLAnchorElement, shared)
         /\ Apart(Reflection!HTMLBaseElement, shared)
         /\ Apart(Reflection!HTMLQuoteElement, shared)
         /\ Apart(Reflection!HTMLButtonElement, shared)
         /\ Apart(Reflection!HTMLCanvasElement, shared)
         /\ Apart(Reflection!HTMLModElement, shared)
         /\ Apart(Reflection!HTMLDivElement, shared)
         /\ Apart(Reflection!HTMLFieldSetElement, shared)
         /\ Apart(Reflection!HTMLFormElement, shared)
         /\ Apart(Reflection!HTMLFrameSetElement, shared)
         /\ Apart(Reflection!HTMLHeadElement, shared)
         /\ Apart(Reflection!HTMLIFrameElement, shared)
         /\ Apart(Reflection!HTMLInputElement, shared)
         /\ Apart(Reflection!HTMLLabelElement, shared)
         /\ Apart(Reflection!HTMLLinkElement, shared)
         /\ Apart(Reflection!HTMLMapElement, shared)
         /\ Apart(Reflection!HTMLMetaElement, shared)
         /\ Apart(Reflection!HTMLObjectElement, shared)
         /\ Apart(Reflection!HTMLOptGroupElement, shared)
         /\ Apart(Reflection!HTMLOptionElement, shared)
         /\ Apart(Reflection!HTMLParamElement, shared)
         /\ Apart(Reflection!HTMLScriptElement, shared)
         /\ Apart(Reflection!HTMLStyleElement, shared)
         /\ Apart(Reflection!HTMLTableElement, shared)
         /\ Apart(Reflection!HTMLTableSectionElement, shared)
         /\ Apart(Reflection!HTMLTextAreaElement, shared)
         /\ Apart(Reflection!HTMLTableRowElement, shared)
<1>1. Apart(Reflection!HTMLAnchorElement, shared)
  <2>1. {"accessKey", "charset", "coords", "href", "hreflang", "name", "rel", "rev",
        "shape", "target", "type"} \cap ElementUses = {}
    BY DEF ElementUses
  <2> QED BY <2>1, BasesAreApart, TextOver DEF Reflection!HTMLAnchorElement
<1>2. Apart(Reflection!HTMLBaseElement, shared)
  <2>1. {"href", "target"} \cap ElementUses = {}
    BY DEF ElementUses
  <2> QED BY <2>1, BasesAreApart, TextOver DEF Reflection!HTMLBaseElement
<1>3. Apart(Reflection!HTMLQuoteElement, shared)
  <2>1. {"cite"} \cap ElementUses = {}
    BY DEF ElementUses
  <2> QED BY <2>1, BasesAreApart, TextOver DEF Reflection!HTMLQuoteElement
<1>4. Apart(Reflection!HTMLButtonElement, shared)
  <2>1. {"dataFormatAs", "type", "value"} \cap TypeValueUses = {}
    BY DEF TypeValueUses, InputUses, ElementUses
  <2> QED BY <2>1, BasesAreApart, TextOver DEF Reflection!HTMLButtonElement
<1>5. Apart(Reflection!HTMLCanvasElement, shared)
  <2>1. {"height", "width"} \cap ElementUses = {}
    BY DEF ElementUses
  <2> QED BY <2>1, BasesAreApart, TextOver DEF Reflection!HTMLCanvasElement
<1>6. Apart(Reflection!HTMLModElement, shared)
  <2>1. {"cite", "dateTime"} \cap ElementUses = {}
    BY DEF ElementUses
  <2> QED BY <2>1, BasesAreApart, TextOver DEF Reflection!HTMLModElement
<1>7. Apart(Reflection!HTMLDivElement, shared)
  <2>1. {"align"} \cap ElementUses = {}
    BY DEF ElementUses
  <2> QED BY <2>1, BasesAreApart, TextOver DEF Reflection!HTMLDivElement
<1>8. Apart(Reflection!HTMLFieldSetElement, shared)
  <2>1. {"margin"} \cap LegendUses = {}
    BY DEF LegendUses, InputUses, ElementUses
  <2> QED BY <2>1, BasesAreApart, TextOver DEF Reflection!HTMLFieldSetElement
<1>9. Apart(Reflection!HTMLFormElement, shared)
  <2> DEFINE inner == Reflection!Over(Reflection!Renamed("acceptCharset",
                "accept-charset"), Reflection!HTMLElement)
  <2>1. {"accept-charset", "accept-charset"} \cap ElementUses = {}
    BY DEF ElementUses
  <2>2. Apart(inner, shared) /\ Uses(inner, {"accept-charset", "accept-charset"} \cup
        ElementUses)
    BY <2>1, BasesAreApart, ReflectsOver DEF Reflection!Renamed
  <2> HIDE DEF inner
  <2>3. {"action", "enctype", "method", "name", "target"} \cap ({"accept-charset",
        "accept-charset"} \cup ElementUses) = {}
    BY DEF ElementUses
  <2>4. /\ Apart(Reflection!Over(Reflection!Text({"action", "enctype", "method", "name",
              "target"}), inner), shared)
        /\ Uses(Reflection!Over(Reflection!Text({"action", "enctype", "method", "name",
              "target"}), inner), {"action", "enctype", "method", "name", "target"} \cup
              ({"accept-charset", "accept-charset"} \cup ElementUses))
    BY <2>3, <2>2, TextOver
  <2> QED BY <2>4 DEF Reflection!HTMLFormElement, inner
<1>10. Apart(Reflection!HTMLFrameSetElement, shared)
  <2>1. {"cols", "rows"} \cap ElementUses = {}
    BY DEF ElementUses
  <2> QED BY <2>1, BasesAreApart, TextOver DEF Reflection!HTMLFrameSetElement
<1>11. Apart(Reflection!HTMLHeadElement, shared)
  <2>1. {"profile"} \cap ElementUses = {}
    BY DEF ElementUses
  <2> QED BY <2>1, BasesAreApart, TextOver DEF Reflection!HTMLHeadElement
<1>12. Apart(Reflection!HTMLIFrameElement, shared)
  <2>1. {"height", "width"} \cap FrameUses = {}
    BY DEF FrameUses, ElementUses
  <2> QED BY <2>1, BasesAreApart, TextOver DEF Reflection!HTMLIFrameElement
<1>13. Apart(Reflection!HTMLInputElement, shared)
  <2> DEFINE inner == Reflection!Over(Reflection!Renamed("defaultValue", "value"),
                Reflection!HTMLInputAreaCommon)
             middle == Reflection!Over(Reflection!Presence("defaultChecked", "checked"),
                   inner)
             outer == Reflection!Over(Reflection!Reflects("text", "useMap", "map",
                   Reflection!NoName), middle)
  <2>1. {"value", "value"} \cap InputAreaUses = {}
    BY DEF InputAreaUses, TypeValueUses, InputUses, ElementUses
  <2>2. Apart(inner, shared) /\ Uses(inner, {"value", "value"} \cup InputAreaUses)
    BY <2>1, BasesAreApart, ReflectsOver DEF Reflection!Renamed
  <2> HIDE DEF inner
  <2>3. {"checked", "checked"} \cap ({"value", "value"} \cup InputAreaUses) = {}
    BY DEF InputAreaUses, TypeValueUses, InputUses, ElementUses
  <2>4. Apart(middle, shared) /\ Uses(middle, {"checked", "checked"} \cup ({"value",
        "value"} \cup InputAreaUses))
    BY <2>3, <2>2, ReflectsOver DEF Reflection!Presence
  <2> HIDE DEF middle
  <2>5. {"map", Reflection!NoName} \cap ({"checked", "checked"} \cup ({"value", "value"}
        \cup InputAreaUses)) = {}
    BY DEF InputAreaUses, TypeValueUses, InputUses, ElementUses, Reflection!NoName
  <2>6. Apart(outer, shared) /\ Uses(outer, {"map", Reflection!NoName} \cup ({"checked",
        "checked"} \cup ({"value", "value"} \cup InputAreaUses)))
    BY <2>5, <2>4, ReflectsOver
  <2> HIDE DEF outer
  <2>7. {"alt", "height", "maxLength", "src", "type", "width"} \cap ({"map",
        Reflection!NoName} \cup ({"checked", "checked"} \cup ({"value", "value"} \cup
        InputAreaUses))) = {}
    BY DEF InputAreaUses, TypeValueUses, InputUses, ElementUses, Reflection!NoName
  <2>8. /\ Apart(Reflection!Over(Reflection!Text({"alt", "height", "maxLength", "src",
              "type", "width"}), outer), shared)
        /\ Uses(Reflection!Over(Reflection!Text({"alt", "height", "maxLength", "src",
              "type", "width"}), outer), {"alt", "height", "maxLength", "src", "type",
              "width"} \cup ({"map", Reflection!NoName} \cup ({"checked", "checked"}
              \cup ({"value", "value"} \cup InputAreaUses))))
    BY <2>7, <2>6, TextOver
  <2> QED BY <2>8 DEF Reflection!HTMLInputElement, inner, middle, outer
<1>14. Apart(Reflection!HTMLLabelElement, shared)
  <2> DEFINE inner == Reflection!Over(Reflection!Text({"dataFormatAs"}),
                Reflection!HTMLInputCommon)
  <2>1. {"dataFormatAs"} \cap InputUses = {}
    BY DEF InputUses, ElementUses
  <2>2. Apart(inner, shared) /\ Uses(inner, {"dataFormatAs"} \cup InputUses)
    BY <2>1, BasesAreApart, TextOver
  <2> HIDE DEF inner
  <2>3. {"for", "for"} \cap ({"dataFormatAs"} \cup InputUses) = {}
    BY DEF InputUses, ElementUses
  <2>4. /\ Apart(Reflection!Over(Reflection!Renamed("htmlFor", "for"), inner), shared)
        /\ Uses(Reflection!Over(Reflection!Renamed("htmlFor", "for"), inner), {"for",
              "for"} \cup ({"dataFormatAs"} \cup InputUses))
    BY <2>3, <2>2, ReflectsOver DEF Reflection!Renamed
  <2> QED BY <2>4 DEF Reflection!HTMLLabelElement, inner
<1>15. Apart(Reflection!HTMLLinkElement, shared)
  <2>1. {"disabled", "charset", "href", "hreflang", "media", "rel", "rev", "target",
        "type"} \cap ElementUses = {}
    BY DEF ElementUses
  <2> QED BY <2>1, BasesAreApart, TextOver DEF Reflection!HTMLLinkElement
<1>16. Apart(Reflection!HTMLMapElement, shared)
  <2>1. {"name"} \cap ElementUses = {}
    BY DEF ElementUses
  <2> QED BY <2>1, BasesAreApart, TextOver DEF Reflection!HTMLMapElement
<1>17. Apart(Reflection!HTMLMetaElement, shared)
  <2> DEFINE inner == Reflection!Over(Reflection!Renamed("httpEquiv", "http-equiv"),
                Reflection!HTMLElement)
  <2>1. {"http-equiv", "http-equiv"} \cap ElementUses = {}
    BY DEF ElementUses
  <2>2. Apart(inner, shared) /\ Uses(inner, {"http-equiv", "http-equiv"} \cup
        ElementUses)
    BY <2>1, BasesAreApart, ReflectsOver DEF Reflection!Renamed
  <2> HIDE DEF inner
  <2>3. {"content", "name", "scheme"} \cap ({"http-equiv", "http-equiv"} \cup
        ElementUses) = {}
    BY DEF ElementUses
  <2>4. /\ Apart(Reflection!Over(Reflection!Text({"content", "name", "scheme"}), inner),
              shared)
        /\ Uses(Reflection!Over(Reflection!Text({"content", "name", "scheme"}), inner),
              {"content", "name", "scheme"} \cup ({"http-equiv", "http-equiv"} \cup
              ElementUses))
    BY <2>3, <2>2, TextOver
  <2> QED BY <2>4 DEF Reflection!HTMLMetaElement, inner
<1>18. Apart(Reflection!HTMLObjectElement, shared)
  <2>1. {"code", "archive", "codeBase", "codeType", "data", "declare", "height",
        "standby", "type", "useMap", "width"} \cap ElementUses = {}
    BY DEF ElementUses
  <2> QED BY <2>1, BasesAreApart, TextOver DEF Reflection!HTMLObjectElement
<1>19. Apart(Reflection!HTMLOptGroupElement, shared)
  <2>1. {"disabled", "label"} \cap ElementUses = {}
    BY DEF ElementUses
  <2> QED BY <2>1, BasesAreApart, TextOver DEF Reflection!HTMLOptGroupElement
<1>20. Apart(Reflection!HTMLOptionElement, shared)
  <2> DEFINE inner == Reflection!Over(Reflection!Presence("defaultSelected",
                "selected"), Reflection!HTMLInputCommon)
  <2>1. {"selected", "selected"} \cap InputUses = {}
    BY DEF InputUses, ElementUses
  <2>2. Apart(inner, shared) /\ Uses(inner, {"selected", "selected"} \cup InputUses)
    BY <2>1, BasesAreApart, ReflectsOver DEF Reflection!Presence
  <2> HIDE DEF inner
  <2>3. {"label", "name"} \cap ({"selected", "selected"} \cup InputUses) = {}
    BY DEF InputUses, ElementUses
  <2>4. /\ Apart(Reflection!Over(Reflection!Text({"label", "name"}), inner), shared)
        /\ Uses(Reflection!Over(Reflection!Text({"label", "name"}), inner), {"label",
              "name"} \cup ({"selected", "selected"} \cup InputUses))
    BY <2>3, <2>2, TextOver
  <2> QED BY <2>4 DEF Reflection!HTMLOptionElement, inner
<1>21. Apart(Reflection!HTMLParamElement, shared)
  <2>1. {"name", "type", "value", "valueType"} \cap ElementUses = {}
    BY DEF ElementUses
  <2> QED BY <2>1, BasesAreApart, TextOver DEF Reflection!HTMLParamElement
<1>22. Apart(Reflection!HTMLScriptElement, shared)
  <2> DEFINE inner == Reflection!Over(Reflection!Text({"event", "charset", "defer",
                "src", "type"}), Reflection!HTMLElement)
  <2>1. {"event", "charset", "defer", "src", "type"} \cap ElementUses = {}
    BY DEF ElementUses
  <2>2. Apart(inner, shared) /\ Uses(inner, {"event", "charset", "defer", "src", "type"}
        \cup ElementUses)
    BY <2>1, BasesAreApart, TextOver
  <2> HIDE DEF inner
  <2>3. {"for", "for"} \cap ({"event", "charset", "defer", "src", "type"} \cup
        ElementUses) = {}
    BY DEF ElementUses
  <2>4. /\ Apart(Reflection!Over(Reflection!Renamed("htmlFor", "for"), inner), shared)
        /\ Uses(Reflection!Over(Reflection!Renamed("htmlFor", "for"), inner), {"for",
              "for"} \cup ({"event", "charset", "defer", "src", "type"} \cup
              ElementUses))
    BY <2>3, <2>2, ReflectsOver DEF Reflection!Renamed
  <2> QED BY <2>4 DEF Reflection!HTMLScriptElement, inner
<1>23. Apart(Reflection!HTMLStyleElement, shared)
  <2>1. {"disabled", "media", "type"} \cap ElementUses = {}
    BY DEF ElementUses
  <2> QED BY <2>1, BasesAreApart, TextOver DEF Reflection!HTMLStyleElement
<1>24. Apart(Reflection!HTMLTableElement, shared)
  <2>1. {"summary", "align", "bgColor", "cellPadding", "cellSpacing", "frame", "rules",
        "width"} \cap ElementUses = {}
    BY DEF ElementUses
  <2> QED BY <2>1, BasesAreApart, TextOver DEF Reflection!HTMLTableElement
<1>25. Apart(Reflection!HTMLTableSectionElement, shared)
  <2> DEFINE inner == Reflection!Over(Reflection!Read({"align", "vAlign"}),
                Reflection!HTMLElement)
  <2>1. {"align", "vAlign"} \cap ElementUses = {}
    BY DEF ElementUses
  <2>2. Apart(inner, shared) /\ Uses(inner, {"align", "vAlign"} \cup ElementUses)
    BY <2>1, BasesAreApart, TextOver
  <2> HIDE DEF inner
  <2>3. {"ch", "chOff"} \cap ({"align", "vAlign"} \cup ElementUses) = {}
    BY DEF ElementUses
  <2>4. /\ Apart(Reflection!Over(Reflection!Text({"ch", "chOff"}), inner), shared)
        /\ Uses(Reflection!Over(Reflection!Text({"ch", "chOff"}), inner), {"ch",
              "chOff"} \cup ({"align", "vAlign"} \cup ElementUses))
    BY <2>3, <2>2, TextOver
  <2> QED BY <2>4 DEF Reflection!HTMLTableSectionElement, inner
<1>26. Apart(Reflection!HTMLTextAreaElement, shared)
  <2> DEFINE inner == Reflection!Over(Reflection!Read({"type"}),
                Reflection!HTMLInputAreaCommon)
  <2>1. {"type"} \cap InputAreaUses = {}
    BY DEF InputAreaUses, TypeValueUses, InputUses, ElementUses
  <2>2. Apart(inner, shared) /\ Uses(inner, {"type"} \cup InputAreaUses)
    BY <2>1, BasesAreApart, TextOver
  <2> HIDE DEF inner
  <2>3. {"cols", "rows"} \cap ({"type"} \cup InputAreaUses) = {}
    BY DEF InputAreaUses, TypeValueUses, InputUses, ElementUses
  <2>4. /\ Apart(Reflection!Over(Reflection!Text({"cols", "rows"}), inner), shared)
        /\ Uses(Reflection!Over(Reflection!Text({"cols", "rows"}), inner), {"cols",
              "rows"} \cup ({"type"} \cup InputAreaUses))
    BY <2>3, <2>2, TextOver
  <2> QED BY <2>4 DEF Reflection!HTMLTextAreaElement, inner
<1>27. Apart(Reflection!HTMLTableRowElement, shared)
  <2> DEFINE inner == Reflection!Over(Reflection!Read({"align", "bgColor", "vAlign"}),
                Reflection!HTMLElement)
  <2>1. {"align", "bgColor", "vAlign"} \cap ElementUses = {}
    BY DEF ElementUses
  <2>2. Apart(inner, shared) /\ Uses(inner, {"align", "bgColor", "vAlign"} \cup
        ElementUses)
    BY <2>1, BasesAreApart, TextOver
  <2> HIDE DEF inner
  <2>3. {"ch", "chOff"} \cap ({"align", "bgColor", "vAlign"} \cup ElementUses) = {}
    BY DEF ElementUses
  <2>4. /\ Apart(Reflection!Over(Reflection!Text({"ch", "chOff"}), inner), shared)
        /\ Uses(Reflection!Over(Reflection!Text({"ch", "chOff"}), inner), {"ch",
              "chOff"} \cup ({"align", "bgColor", "vAlign"} \cup ElementUses))
    BY <2>3, <2>2, TextOver
  <2> QED BY <2>4 DEF Reflection!HTMLTableRowElement, inner
<1> QED BY <1>1, <1>2, <1>3, <1>4, <1>5, <1>6, <1>7, <1>8, <1>9, <1>10, <1>11, <1>12,
    <1>13, <1>14, <1>15, <1>16, <1>17, <1>18, <1>19, <1>20, <1>21, <1>22, <1>23, <1>24,
    <1>25, <1>26, <1>27

(* The classes with properties that share an attribute.                    *)
LEMMA SharersAreApart ==
  ASSUME NEW shared
  PROVE  /\ {"ch", "chOff"} \in shared => Apart(Reflection!HTMLTableColElement, shared)
         /\ {"href", "noHref"} \in shared => Apart(Reflection!HTMLAreaElement, shared)
         /\ {"useMap", "isMap"} \in shared => Apart(Reflection!HTMLImageElement, shared)
         /\ {"multiple", "type"} \in shared => Apart(Reflection!HTMLSelectElement, shared)
<1>1. ASSUME {"ch", "chOff"} \in shared PROVE Apart(Reflection!HTMLTableColElement, shared)
  <2> DEFINE own == Reflection!Text({"align", "ch", "span", "vAlign", "width"})
             how == [kind |-> "text", reads |-> "ch", writes |-> "ch"]
  <2>1. /\ {"ch", "ch"} \cap ElementUses = {}
        /\ {"align", "ch", "span", "vAlign", "width"} \cap ElementUses = {}
    BY DEF ElementUses
  <2>2. /\ Apart(own, shared) /\ Uses(own, {"align", "ch", "span", "vAlign", "width"})
        /\ \A q \in DOMAIN own : own[q].reads = q /\ own[q].writes = q
    BY TextApart DEF Reflection!Text
  <2>3. /\ how.reads = "ch" /\ how.writes = "ch"
        /\ how = [kind |-> "text", reads |-> "ch", writes |-> "ch"]
    OBVIOUS
  <2> HIDE DEF own, how
  <2>4. \A q \in DOMAIN own : Heeds(how, own[q]) \/ Heeds(own[q], how) => {"chOff", q} \in shared
    <3>1. {"chOff", "ch"} \in shared
      <4>1. {"chOff", "ch"} = {"ch", "chOff"}
        OBVIOUS
      <4> QED BY <1>1, <4>1
    <3> QED BY <2>2, <2>3, <3>1 DEF Heeds
  <2> DEFINE below == Reflection!Over(Reflection!Reflects("text", "chOff", "ch", "ch"),
                                      Reflection!HTMLElement)
  <2> HIDE DEF below
  <2>6. /\ Apart(Reflection!HTMLElement, shared) /\ Uses(Reflection!HTMLElement, ElementUses)
    BY BasesAreApart
  <2>5. Apart(Reflection!Over(own, below), shared)
    <3> DEFINE ch == "ch"
    <3>1. {ch, ch} \cap ElementUses = {} /\ how = [kind |-> "text", reads |-> ch, writes |-> ch]
      BY <2>1, <2>3
    <3>2. below = Reflection!Over(Reflection!Reflects("text", "chOff", ch, ch),
                                  Reflection!HTMLElement)
      BY DEF below
    <3> HIDE DEF ch
    <3> QED BY <2>1, <2>2, <2>4, <2>6, <3>1, <3>2, SharerOver
  <2> QED BY <2>5 DEF below, own, Reflection!HTMLTableColElement, Reflection!Renamed
<1>2. ASSUME {"href", "noHref"} \in shared PROVE Apart(Reflection!HTMLAreaElement, shared)
  <2> DEFINE own == Reflection!Text({"accessKey", "alt", "coords", "href", "target"})
             how == [kind |-> "presence", reads |-> "href", writes |-> Reflection!NoName]
  <2>1. /\ {"href", Reflection!NoName} \cap ElementUses = {}
        /\ {"accessKey", "alt", "coords", "href", "target"} \cap ElementUses = {}
    BY DEF ElementUses, Reflection!NoName
  <2>2. /\ Apart(own, shared) /\ Uses(own, {"accessKey", "alt", "coords", "href", "target"})
        /\ \A q \in DOMAIN own : own[q].reads = q /\ own[q].writes = q
    BY TextApart DEF Reflection!Text
  <2>3. how.reads = "href" /\ how.writes = Reflection!NoName
    OBVIOUS
  <2> HIDE DEF own, how
  <2>4. \A q \in DOMAIN own : Heeds(how, own[q]) \/ Heeds(own[q], how) => {"noHref", q} \in shared
    <3>1. {"noHref", "href"} \in shared
      <4>1. {"noHref", "href"} = {"href", "noHref"}
        OBVIOUS
      <4> QED BY <1>2, <4>1
    <3> QED BY <2>2, <2>3, <3>1 DEF Heeds
  <2> DEFINE below == Reflection!Over(Reflection!Reflects("presence", "noHref", "href",
                                          Reflection!NoName), Reflection!HTMLElement)
  <2>5. Apart(Reflection!Over(own, below), shared)
    BY <2>1, <2>2, <2>4, BasesAreApart, SharerOver DEF how
  <2> QED BY <2>5 DEF own, Reflection!HTMLAreaElement
<1>3. ASSUME {"useMap", "isMap"} \in shared PROVE Apart(Reflection!HTMLImageElement, shared)
  <2> DEFINE own == Reflection!Reflects("presence", "isMap", "map", Reflection!NoName)
             how == [kind |-> "text", reads |-> Reflection!NoName, writes |-> "map"]
             below == Reflection!Over(Reflection!Reflects("text", "useMap", Reflection!NoName,
                                          "map"), Reflection!HTMLElement)
             inner == Reflection!Over(own, below)
             mapped == {"map", Reflection!NoName} \cup ({Reflection!NoName, "map"} \cup ElementUses)
             texts == {"alt", "height", "longDesc", "name", "src", "width"}
  <2>1. /\ {Reflection!NoName, "map"} \cap ElementUses = {}
        /\ {"map", Reflection!NoName} \cap ElementUses = {}
        /\ texts \cap mapped = {}
    BY DEF ElementUses, Reflection!NoName
  <2>2. /\ Apart(own, shared) /\ Uses(own, {"map", Reflection!NoName})
        /\ DOMAIN own = {"isMap"}
    <3>1. DOMAIN own = {"isMap"}
      BY DEF Reflection!Reflects
    <3> QED BY <3>1, ReflectsApart
  <2> HIDE DEF own
  <2>3. \A q \in DOMAIN own : {"useMap", q} \in shared
    BY <1>3, <2>2
  <2>4. Apart(inner, shared) /\ Uses(inner, mapped)
    BY <2>1, <2>2, <2>3, BasesAreApart, SharerOver
  <2> HIDE DEF inner, mapped, texts
  <2>5. Apart(Reflection!Over(Reflection!Text(texts), inner), shared)
    BY <2>1, <2>4, TextOver
  <2> QED BY <2>5 DEF inner, texts, own, Reflection!HTMLImageElement
<1>4. ASSUME {"multiple", "type"} \in shared PROVE Apart(Reflection!HTMLSelectElement, shared)
  <2> DEFINE multiple == "multiple"
             own == Reflection!Reflects("presence", "multiple", multiple, multiple)
             how == [kind |-> "choice", reads |-> multiple, writes |-> Reflection!NoName]
             below == Reflection!Over(Reflection!Reflects("choice", "type", multiple,
                                          Reflection!NoName), Reflection!HTMLTypeValueInputs)
  <2>1. /\ {multiple, Reflection!NoName} \cap TypeValueUses = {}
        /\ {multiple, multiple} \cap TypeValueUses = {}
    BY DEF TypeValueUses, InputUses, ElementUses, Reflection!NoName
  <2>2. DOMAIN own = {"multiple"}
    BY DEF Reflection!Reflects
  <2>3. Apart(own, shared) /\ Uses(own, {multiple, multiple})
    BY ReflectsApart
  <2> HIDE DEF own, multiple
  <2>4. \A q \in DOMAIN own : {"type", q} \in shared
    <3>1. {"type", "multiple"} = {"multiple", "type"}
      OBVIOUS
    <3> QED BY <1>4, <2>2, <3>1
  <2>5. Apart(Reflection!Over(own, below), shared)
    BY <2>1, <2>3, <2>4, BasesAreApart, SharerOver
  <2> QED BY <2>5 DEF own, multiple, Reflection!HTMLSelectElement, Reflection!Presence
<1> QED BY <1>1, <1>2, <1>3, <1>4

(* Whatever the tag name, only the properties Shared share an attribute.   *)
LEMMA ClassIsApart == Apart(Reflection!PropertiesOf(tagName), Reflection!Shared)
<1>1. Apart(Reflection!HTMLElement, Reflection!Shared)
  BY BasesAreApart
<1>2. CASE tagName \in {"COL", "COLGROUP"}
  <2>1. {"ch", "chOff"} \in Reflection!Shared
    BY <1>2 DEF Reflection!Shared
  <2>2. Reflection!PropertiesOf(tagName) = Reflection!HTMLTableColElement
    BY <1>2 DEF Reflection!PropertiesOf
  <2> QED BY <2>1, <2>2, SharersAreApart
<1>3. CASE tagName = "AREA"
  <2>1. {"href", "noHref"} \in Reflection!Shared
    BY <1>3 DEF Reflection!Shared
  <2>2. Reflection!PropertiesOf(tagName) = Reflection!HTMLAreaElement
    BY <1>3 DEF Reflection!PropertiesOf
  <2> QED BY <2>1, <2>2, SharersAreApart
<1>4. CASE tagName = "IMG"
  <2>1. {"useMap", "isMap"} \in Reflection!Shared
    BY <1>4 DEF Reflection!Shared
  <2>2. Reflection!PropertiesOf(tagName) = Reflection!HTMLImageElement
    BY <1>4 DEF Reflection!PropertiesOf
  <2> QED BY <2>1, <2>2, SharersAreApart
<1>5. CASE tagName = "SELECT"
  <2>1. {"multiple", "type"} \in Reflection!Shared
    BY <1>5 DEF Reflection!Shared
  <2>2. Reflection!PropertiesOf(tagName) = Reflection!HTMLSelectElement
    BY <1>5 DEF Reflection!PropertiesOf
  <2> QED BY <2>1, <2>2, SharersAreApart
<1>6. CASE tagName \notin {"COL", "COLGROUP", "AREA", "IMG", "SELECT"}
  <2> DEFINE shared == Reflection!Shared
  <2> HIDE DEF shared
  <2>1. Apart(Reflection!PropertiesOf(tagName), shared)
    BY <1>6, BasesAreApart, ClassesAreApart DEF Reflection!PropertiesOf,
       Reflection!HTMLBodyElement, Reflection!HTMLBRElement, Reflection!HTMLDListElement,
       Reflection!HTMLHeadingElement, Reflection!HTMLHRElement, Reflection!HTMLHtmlElement,
       Reflection!HTMLLIElement, Reflection!HTMLOListElement, Reflection!HTMLParagraphElement,
       Reflection!HTMLSpanElement, Reflection!HTMLTableCellElement, Reflection!HTMLTitleElement,
       Reflection!HTMLUListElement, Reflection!HTMLUnknownElement
  <2> QED BY <2>1 DEF shared
<1> QED BY <1>2, <1>3, <1>4, <1>5, <1>6

(* The element has the properties of its class, and the attributes that    *)
(* they use.                                                               *)
ReflectionInv ==
    tagName # None =>
        /\ properties = Reflection!PropertiesOf(tagName)
        /\ attribute = [a \in DOMAIN attribute |-> attribute[a]]
        /\ DOMAIN attribute = Reflection!AttributesOf(properties) \ {Reflection!NoName}

LEMMA ReflectionStep ==
  ReflectionInv /\ (Reflection!Next \/ UNCHANGED reflected) => ReflectionInv'
<1> SUFFICES ASSUME ReflectionInv, Reflection!Next \/ UNCHANGED reflected PROVE ReflectionInv'
  OBVIOUS
<1>1. ASSUME NEW tag \in TagNames, Reflection!CreateElement(tag) PROVE ReflectionInv'
  <2> DEFINE names == Reflection!AttributesOf(properties') \ {Reflection!NoName}
  <2>1. /\ tagName' = tag /\ properties' = Reflection!PropertiesOf(tag)
        /\ attribute' = [a \in names |-> None]
    BY <1>1 DEF Reflection!CreateElement
  <2> HIDE DEF names
  <2>2. DOMAIN attribute' = names /\ attribute' = [a \in DOMAIN attribute' |-> attribute'[a]]
    BY <2>1
  <2>3. properties' = Reflection!PropertiesOf(tagName')
    BY <2>1
  <2> QED BY <2>2, <2>3 DEF ReflectionInv, names, Reflection!AttributesOf, Reflection!PropertiesOf
<1>2. ASSUME NEW a, NEW v, attribute' = [attribute EXCEPT ![a] = v],
             UNCHANGED <<tagName, properties>>
      PROVE  ReflectionInv'
  <2>1. tagName' = tagName /\ properties' = properties
    BY <1>2
  <2>2. DOMAIN attribute' = DOMAIN attribute /\ attribute' = [b \in DOMAIN attribute' |-> attribute'[b]]
    BY <1>2
  <2> QED BY <2>1, <2>2 DEF ReflectionInv, Reflection!AttributesOf
<1>3. CASE Reflection!Next
  <2>1. CASE \E tag \in TagNames : Reflection!CreateElement(tag)
    BY <1>1, <2>1
  <2>2. CASE \E p \in Reflection!Settable : \E v \in Reflection!ValuesOf(p) : Reflection!Set(p, v)
    BY <1>2, <2>2 DEF Reflection!Set
  <2>3. CASE \E a \in DOMAIN attribute :
                Reflection!RemoveAttribute(a) \/ \E v \in Words : Reflection!SetAttribute(a, v)
    BY <1>2, <2>3 DEF Reflection!SetAttribute, Reflection!RemoveAttribute
  <2> QED BY <1>3, <2>1, <2>2, <2>3 DEF Reflection!Next
<1>4. CASE UNCHANGED reflected
  <2>1. tagName' = tagName /\ properties' = properties /\ attribute' = attribute
    BY <1>4 DEF reflected
  <2> QED BY <2>1 DEF ReflectionInv, Reflection!AttributesOf
<1> QED BY <1>3, <1>4

(* A text that was written shows as it was meant, whatever the property.   *)
LEMMA WrittenIsMeant ==
  ASSUME NEW p, NEW v \in Words
  PROVE  Reflection!Shown(tagName, p, IF p = "className" THEN Trimmed[v]
                                      ELSE IF p = "tabIndex" THEN Number[v] ELSE v)
            = Reflection!Meant(p, v)
<1>1. /\ Trimmed[""] = "" /\ Number[""] = "0" /\ v # None /\ Trimmed[v] # None
      /\ Number[v] \notin {None, ""} /\ Number[Number[v]] = Number[v]
  BY ConversionAssumption
<1>2. CASE p = "className"
  <2>1. /\ Reflection!Default(tagName, p) = "" /\ Reflection!Meant(p, v) = Trimmed[v]
        /\ Reflection!Converted(tagName, p, Trimmed[v]) = Trimmed[v]
    BY <1>2 DEF Reflection!Default, Reflection!Meant, Reflection!Converted, Reflection!IsNumber
  <2> QED BY <1>1, <1>2, <2>1 DEF Reflection!Shown
<1>3. CASE p = "tabIndex"
  <2>1. /\ Reflection!Default(tagName, p) = "0"
        /\ \A text : Reflection!Converted(tagName, p, text) = Number[text]
    BY <1>3 DEF Reflection!Default, Reflection!Converted, Reflection!IsNumber
  <2>2. Reflection!Meant(p, v) = IF v = "" THEN "0" ELSE Number[v]
    BY <1>3, <2>1 DEF Reflection!Meant
  <2> QED BY <1>1, <1>3, <2>1, <2>2 DEF Reflection!Shown
<1>4. CASE p \notin {"className", "tabIndex"}
  <2>1. Reflection!Meant(p, v)
           = IF v = "" THEN Reflection!Default(tagName, p) ELSE Reflection!Converted(tagName, p, v)
    BY <1>4 DEF Reflection!Meant
  <2> QED BY <1>1, <1>4, <2>1 DEF Reflection!Shown
<1> QED BY <1>2, <1>3, <1>4

(* What is written reads back as it was meant.                             *)
LEMMA WrittenReadsBack ==
  ASSUME NEW p \in Reflection!Settable, NEW v \in Reflection!ValuesOf(p),
         p \in Reflection!Readable, ReflectionInv, tagName # None, Reflection!Set(p, v)
  PROVE  Reflection!Get(p)'
            = IF Reflection!Property(p).kind = "text" THEN Reflection!Meant(p, v) ELSE v
<1> DEFINE how == properties[p]
<1>1. /\ p \in DOMAIN properties /\ how.writes # Reflection!NoName /\ how.reads # Reflection!NoName
  BY DEF Reflection!Settable, Reflection!Readable, Reflection!Property
<1>2. Paired(p, how)
  BY <1>1, ClassIsApart DEF Apart, ReflectionInv
<1>3. how.reads = how.writes /\ how.kind \in {"text", "word", "presence"}
      /\ (how.kind = "word" => p # "")
  BY <1>1, <1>2 DEF Paired
<1>4. how.writes \in DOMAIN attribute
  BY <1>1 DEF ReflectionInv, Reflection!AttributesOf
<1>5. /\ properties' = properties /\ tagName' = tagName
      /\ attribute' = [attribute EXCEPT ![how.writes] = Reflection!Written(p, v)]
  BY DEF Reflection!Set, Reflection!Property
<1>6. attribute'[how.reads] = Reflection!Written(p, v)
  BY <1>3, <1>4, <1>5
<1>7. Reflection!Property(p) = how
  BY DEF Reflection!Property
<1>8. CASE how.kind = "text"
  <2>1. v \in Words
    BY <1>8 DEF Reflection!ValuesOf, Reflection!Property
  <2>2. Reflection!Get(p)' = Reflection!Shown(tagName, p, Reflection!Written(p, v))
    BY <1>5, <1>6, <1>8 DEF Reflection!Get, Reflection!Property
  <2>3. Reflection!Written(p, v)
           = IF p = "className" THEN Trimmed[v] ELSE IF p = "tabIndex" THEN Number[v] ELSE v
    BY <1>8 DEF Reflection!Written, Reflection!Property
  <2> QED BY <1>7, <1>8, <2>2, WrittenIsMeant, <2>1, <2>3
<1>9. CASE how.kind = "word"
  <2>1. v \in {"true", "false"}
    BY <1>9 DEF Reflection!ValuesOf, Reflection!Property
  <2>2. Reflection!Written(p, v) = IF v = "true" THEN p ELSE ""
    BY <1>9 DEF Reflection!Written, Reflection!Property
  <2>3. Reflection!Get(p)' = Reflection!Truth(attribute'[how.reads] = p)
    BY <1>5, <1>9 DEF Reflection!Get, Reflection!Property, Reflection!Truth
  <2> HIDE DEF how
  <2> QED BY <1>3, <1>6, <1>7, <1>9, <2>1, <2>2, <2>3 DEF Reflection!Truth
<1>10. CASE how.kind = "presence"
  <2>1. v \in {"true", "false"}
    BY <1>10 DEF Reflection!ValuesOf, Reflection!Property
  <2>2. Reflection!Written(p, v) = IF v = "true" THEN "" ELSE None
    BY <1>10 DEF Reflection!Written, Reflection!Property
  <2>3. Reflection!Get(p)' = Reflection!Truth(attribute'[how.reads] # None)
    BY <1>5, <1>10 DEF Reflection!Get, Reflection!Property, Reflection!Truth
  <2> HIDE DEF how
  <2>4. CASE v = "true"
    <3>1. Reflection!Written(p, v) # None
      BY <2>2, <2>4, EmptyAssumption, Zenon
    <3> QED BY <1>6, <1>7, <1>10, <2>3, <2>4, <3>1 DEF Reflection!Truth
  <2>5. CASE v = "false"
    <3>1. Reflection!Written(p, v) = None
      BY <2>2, <2>5
    <3> QED BY <1>6, <1>7, <1>10, <2>3, <2>5, <3>1 DEF Reflection!Truth
  <2> QED BY <2>1, <2>4, <2>5
<1> QED BY <1>3, <1>8, <1>9, <1>10

(* ... and nothing else, but what shares its attribute, shows it.          *)
LEMMA OthersShowTheSame ==
  ASSUME NEW p \in Reflection!Settable, NEW v, NEW q \in Reflection!Readable \ {p},
         ReflectionInv, tagName # None, Reflection!Set(p, v)
  PROVE  Reflection!Get(q)' = Reflection!Get(q) \/ {p, q} \in Reflection!Shared
<1>1. /\ p \in DOMAIN properties /\ q \in DOMAIN properties /\ p # q
      /\ properties[q].reads # Reflection!NoName
  BY DEF Reflection!Settable, Reflection!Readable, Reflection!Property
<1>2. /\ properties' = properties /\ tagName' = tagName
      /\ attribute' = [attribute EXCEPT ![properties[p].writes] = Reflection!Written(p, v)]
  BY DEF Reflection!Set, Reflection!Property
<1>3. CASE properties[p].writes = properties[q].reads
  <2>1. Heeds(properties[p], properties[q])
    BY <1>1, <1>3 DEF Heeds
  <2>2. Apart(properties, Reflection!Shared)
    BY ClassIsApart DEF ReflectionInv
  <2> QED BY <1>1, <2>1, <2>2 DEF Apart
<1>4. CASE properties[p].writes # properties[q].reads
  <2>1. properties[q].reads \in DOMAIN attribute
    BY <1>1 DEF ReflectionInv, Reflection!AttributesOf
  <2>2. attribute'[properties[q].reads] = attribute[properties[q].reads]
    BY <1>2, <1>4, <2>1
  <2> QED BY <1>2, <2>2 DEF Reflection!Get, Reflection!Property, Reflection!Truth
<1> QED BY <1>3, <1>4

(* Whatever the tag name, a property reads back what a page means that     *)
(* writes it, and no other property of the element shows anything new, but *)
(* for those that share an attribute.                                      *)
THEOREM PropertiesAreOwnAlways == WindowSpec => PropertiesAreOwn
<1> DEFINE Inv == running = "reflection" => ReflectionInv
<1>1. WindowInit => Inv
  BY DEF WindowInit, Reflection!Init, ReflectionInv
<1>2. Inv /\ [WindowNext]_all => Inv'
  BY OneRuns, ReflectionStep
<1>3. ASSUME ReflectionInv
      PROVE  Reflection!PropertiesStayOwn
  BY <1>3, WrittenReadsBack, OthersShowTheSame DEF Reflection!PropertiesStayOwn
<1>4. Inv /\ [WindowNext]_all
         => [running = "reflection" => Reflection!PropertiesStayOwn]_all
  BY <1>3
<1> QED BY <1>1, <1>2, <1>4, PTL DEF WindowSpec, PropertiesAreOwn
================================================================================
