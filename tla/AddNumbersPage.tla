---------------------------- MODULE AddNumbersPage ----------------------------
(***************************************************************************)
(* spark-experiment: the page of /angular.  Each run asks the server for   *)
(* the same sum twice, with a GET and with a POST; several runs may be     *)
(* under way, and their answers come in any order.                         *)
(***************************************************************************)
EXTENDS Integers, Sequences, SequencesExt

CONSTANTS Texts,   \* what can be typed: its shape, and its value if it has one
          IntBits, \* the width of an int, 32 in Java
          MaxRuns  \* bound: how often the button is pressed

VARIABLES fields,   \* $scope.a and $scope.b
          runs,     \* the fields at each run, the newest last
          inFlight, \* the requests that are not answered yet
          shown,    \* $scope.getResult and $scope.postResult
          answered  \* for each method the runs it was answered, in that order

vars == <<fields, runs, inFlight, shown, answered>>

Methods == {"get", "post"}
Call == [method : Methods, run : 1 .. MaxRuns]
NothingShown == {}

Init ==
    /\ fields = [a |-> [shape |-> "integer", value |-> 0],
                 b |-> [shape |-> "integer", value |-> 0]]
    /\ runs = <<>> /\ inFlight = {}
    /\ shown = [method \in Methods |-> NothingShown]
    /\ answered = [method \in Methods |-> <<>>]

(* ng-model of the two inputs.                                             *)
Type(field, text) ==
    /\ fields' = [fields EXCEPT ![field] = text]
    /\ UNCHANGED <<runs, inFlight, shown, answered>>

(* run() sends both requests before either is answered.                    *)
Run ==
    /\ Len(runs) < MaxRuns
    /\ runs' = Append(runs, fields)
    /\ inFlight' = inFlight \cup {[method |-> m, run |-> Len(runs) + 1] : m \in Methods}
    /\ UNCHANGED <<fields, shown, answered>>

-----------------------------------------------------------------------------
(* The server.  The fields are texts once they were typed in: parseInt     *)
(* takes integers, and Gson, given a quoted number for an int, takes also  *)
(* what is an integer as a double, as "1.0" is.                            *)
Reads(method, text) ==
    \/ text.shape = "integer"
    \/ method = "post" /\ text.shape = "integral double"

Half == 2 ^ (IntBits - 1)
ToInt(n) == ((n + Half) % (2 * Half)) - Half

AddNumbersResponse(a, b) == [a |-> a, b |-> b, result |-> ToInt(a + b)]

(* The requests carry the fields as they were when they were sent.         *)
AskedLate(call) == fields
Asked(call) == runs[call.run]

(* The success callback of api.addNumbersGet and addNumbersPost.           *)
Arrive(call) ==
    /\ call \in inFlight
    /\ \A field \in {"a", "b"} : Reads(call.method, Asked(call)[field])
    /\ inFlight' = inFlight \ {call}
    /\ shown' = [shown EXCEPT ![call.method] =
                    {AddNumbersResponse(Asked(call).a.value, Asked(call).b.value)}]
    /\ answered' = [answered EXCEPT ![call.method] = Append(@, call.run)]
    /\ UNCHANGED <<fields, runs>>

(* What the server answers with an error, or what gets lost, is nobody's   *)
(* concern: there is no error callback, and the old result stays.          *)
Fail(call) ==
    /\ call \in inFlight
    /\ inFlight' = inFlight \ {call}
    /\ UNCHANGED <<fields, runs, shown, answered>>

Next ==
    \/ \E field \in {"a", "b"}, text \in Texts : Type(field, text)
    \/ Run
    \/ \E call \in inFlight : Arrive(call) \/ Fail(call)

Spec == Init /\ [][Next]_vars

-----------------------------------------------------------------------------
Ints == -Half .. Half - 1
Fields == [a : Texts \cup {[shape |-> "integer", value |-> 0]},
           b : Texts \cup {[shape |-> "integer", value |-> 0]}]

TypeOK ==
    /\ fields \in Fields /\ runs \in BoundedSeq(Fields, MaxRuns)
    /\ inFlight \in SUBSET Call
    /\ \A method \in Methods :
          /\ shown[method] \subseteq [a : Ints, b : Ints, result : Ints]
          /\ shown[method] = NothingShown <=> answered[method] = <<>>

(* Both results of the page are for the newest run, and therefore the same *)
(* one, as soon as both requests of it were answered, unless the answer to *)
(* an older run came in after that: whatever was typed in the meantime.    *)
(* The result is the sum, or what an int makes of it.                      *)
NewestShown(method) ==
    /\ answered[method] # <<>>
    /\ Last(answered[method]) = Len(runs)
NewestRunIsShown ==
    (\A method \in Methods : NewestShown(method)) =>
        /\ shown["get"] = shown["post"]
        /\ \A response \in shown["get"] :
              /\ response.a = Last(runs).a.value /\ response.b = Last(runs).b.value
              /\ (response.result - response.a - response.b) % (2 * Half) = 0
=============================================================================
