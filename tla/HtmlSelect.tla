----------------------------- MODULE HtmlSelect -----------------------------
(***************************************************************************)
(* A select element of env.rhino.1.2.js and its options.  Which option is  *)
(* selected is kept by the options: _selected, once it was set, or else    *)
(* the selected attribute.  The select works out its selectedIndex and its *)
(* value from them.                                                        *)
(***************************************************************************)
EXTENDS Integers, Sequences, SequencesExt

CONSTANTS Values,    \* the values of options
          Nothing,   \* what a select answers that has no selected option
          MaxOptions \* bound: the options a select has

VARIABLE options  \* the options of the select, in the order of the document;
                  \* ghost: "chosen", over the select and not disturbed since

Unset == "null"
Truth(b) == IF b THEN "true" ELSE "false"

(* selected of an option: never of one that is disabled.                   *)
Selected(o) == ~o.disabled /\ IF o._selected = Unset THEN o.defaultSelected
                              ELSE o._selected = "true"

(* selectedIndex counts from 0; value is that of the option, or nothing.   *)
SelectedIndexOf(os) ==
    IF \E i \in DOMAIN os : Selected(os[i])
    THEN (CHOOSE i \in DOMAIN os : Selected(os[i]) /\ \A j \in 1..(i - 1) : ~Selected(os[j])) - 1
    ELSE -1
ValueOf(os) == IF SelectedIndexOf(os) = -1 THEN Nothing ELSE os[SelectedIndexOf(os) + 1].value

(* As it would be if the others were not deselected.                       *)
SelectAlso(index) ==
    options' = [i \in DOMAIN options |->
                   IF i - 1 = index THEN [options[i] EXCEPT !._selected = "true", !.chosen = TRUE]
                   ELSE [options[i] EXCEPT !.chosen = FALSE]]

(* The setters: one option is selected and the others are not.  The one of *)
(* value takes the first option with that value, and does nothing when     *)
(* there is none.                                                          *)
SetSelectedIndex(index) ==
    options' = [i \in DOMAIN options |->
                   [options[i] EXCEPT !._selected = Truth(i - 1 = index),
                                      !.chosen = (i - 1 = index)]]
SetValue(value) ==
    \E i \in DOMAIN options :
        /\ options[i].value = value
        /\ \A j \in 1..(i - 1) : options[j].value # value
        /\ SetSelectedIndex(i - 1)

-----------------------------------------------------------------------------
(* What the page does with an option itself.                               *)

Forgotten(os, b) ==
    [i \in DOMAIN os |-> [os[i] EXCEPT !.chosen = IF b THEN FALSE ELSE os[i].chosen]]

SetSelected(i, b) ==
    options' = Forgotten([options EXCEPT ![i]._selected = Truth(b)], b)
SetDefaultSelected(i, b) ==
    options' = Forgotten([options EXCEPT ![i].defaultSelected = b], b)
SetDisabled(i, b) == options' = [options EXCEPT ![i].disabled = b]
SetOptionValue(i, value) == options' = [options EXCEPT ![i].value = value]

(* A new option goes to the end of the select, or to that of an optgroup   *)
(* before other options.  The optgroup selects every option it is given,   *)
(* for it asks itself, not its options, whether one is selected.           *)
Option(value, selected, b) ==
    [value |-> value, disabled |-> FALSE, defaultSelected |-> b,
     _selected |-> selected, chosen |-> FALSE]
AppendToSelect(value, b) ==
    /\ Len(options) < MaxOptions
    /\ options' = Forgotten(Append(options, Option(value, Unset, b)), b)
AppendToGroup(place, value) ==
    /\ Len(options) < MaxOptions
    /\ place \in 1..(Len(options) + 1)
    /\ options' = Forgotten(InsertAt(options, place, Option(value, "true", FALSE)), TRUE)
RemoveOption(i) == options' = RemoveAt(options, i)

Init == options = <<>>

Next ==
    \/ \E value \in Values :
          \/ SetValue(value)
          \/ \E b \in BOOLEAN : AppendToSelect(value, b)
          \/ \E place \in 1..MaxOptions : AppendToGroup(place, value)
    \/ \E index \in -1..Len(options) : SetSelectedIndex(index)
    \/ \E i \in DOMAIN options :
          \/ RemoveOption(i)
          \/ \E value \in Values : SetOptionValue(i, value)
          \/ \E b \in BOOLEAN :
                SetSelected(i, b) \/ SetDefaultSelected(i, b) \/ SetDisabled(i, b)

Spec == Init /\ [][Next]_options

-----------------------------------------------------------------------------
(* The select shows the option that was last chosen over its value or      *)
(* index, or nothing if that is disabled now, whatever becomes of the      *)
(* other options - until the page selects an option itself, or adds one    *)
(* that is selected from the start, as all of an optgroup's are.           *)
ShowsChosen ==
    \A i \in DOMAIN options :
        options[i].chosen =>
            /\ SelectedIndexOf(options) = IF Selected(options[i]) THEN i - 1 ELSE -1
            /\ ValueOf(options) \in {options[i].value, Nothing}
=============================================================================
