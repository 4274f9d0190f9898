----------------------------- MODULE HtmlForms -----------------------------
(***************************************************************************)
(* The input elements of env.rhino.1.2.js.  What an input shows is kept    *)
(* twice: as an attribute, which markup and setAttribute write, and in the *)
(* element, which the page writes; the element's copy is taken from the    *)
(* attribute until the page decides.                                       *)
(***************************************************************************)
CONSTANTS Inputs,  \* input elements
          Values,  \* values of inputs
          None     \* an attribute that is not there, and null

VARIABLES inputs  \* the state of each input; ghosts: "meant", the value the
                  \* page wrote since the attribute was taken over, and
                  \* "wanted", the last checked it wrote

NewInput ==
    [attribute |-> None, _value |-> None, _dirty |-> FALSE, meant |-> None,
     marked |-> FALSE, _checked |-> "null", wanted |-> "null"]
Truth(b) == IF b THEN "true" ELSE "false"

(* The getters value and checked.                                          *)
ValueOf(i) == IF inputs[i]._value = None THEN inputs[i].attribute ELSE inputs[i]._value
CheckedOf(i) ==
    IF inputs[i]._checked = "null" THEN Truth(inputs[i].marked) ELSE inputs[i]._checked

Init == inputs = [i \in Inputs |-> NewInput]

(* Mutant: setAttribute always writes the element's value, too. *)
SetAttributeAndValue(i, v) ==
    inputs' = [inputs EXCEPT ![i] = [inputs[i] EXCEPT !.attribute = v, !._value = v, !._dirty = TRUE]]

(* setAttribute("value"): the element takes the value over the first time. *)
SetAttribute(i, v) ==
    inputs' = [inputs EXCEPT ![i] =
           IF inputs[i]._dirty THEN [inputs[i] EXCEPT !.attribute = v]
           ELSE [inputs[i] EXCEPT !.attribute = v, !._value = v, !._dirty = TRUE]]
RemoveAttribute(i) ==
    inputs' = [inputs EXCEPT ![i].attribute = None]

(* The setters of defaultValue and value.                                  *)
SetDefaultValue(i, v) ==
    inputs' = [inputs EXCEPT ![i] = [inputs[i] EXCEPT !._dirty = TRUE, !.attribute = v]]
SetValue(i, v) ==
    inputs' = [inputs EXCEPT ![i] =
           [inputs[i] EXCEPT !._value = v, !.meant = IF inputs[i]._dirty THEN v ELSE None]]

(* checked: reading it keeps the mark there was, for good.                 *)
ReadChecked(i) ==
    inputs' = [inputs EXCEPT ![i]._checked = CheckedOf(i)]
SetChecked(i, b) ==
    inputs' = [inputs EXCEPT ![i] =
           [inputs[i] EXCEPT !._checked = Truth(b), !.wanted = Truth(b)]]
SetDefaultChecked(i, b) ==
    inputs' = [inputs EXCEPT ![i].marked = b]

Next ==
    \E i \in Inputs :
       \/ RemoveAttribute(i) \/ ReadChecked(i)
       \/ \E v \in Values : SetAttribute(i, v) \/ SetDefaultValue(i, v) \/ SetValue(i, v)
       \/ \E b \in BOOLEAN : SetChecked(i, b) \/ SetDefaultChecked(i, b)

Spec == Init /\ [][Next]_inputs

-----------------------------------------------------------------------------
(* What the page wrote into an input stays there, whatever becomes of the  *)
(* attributes and whoever reads it: its value from when the value          *)
(* attribute was first written, its checkedness from the start.            *)
PageDecides ==
    \A i \in Inputs :
        /\ inputs[i].meant # None => ValueOf(i) = inputs[i].meant
        /\ inputs[i].wanted # "null" => CheckedOf(i) = inputs[i].wanted
=============================================================================
