--------------------------- MODULE AsyncCalculator ---------------------------
(***************************************************************************)
(* jdeferred-experiment: a calculator that works in the thread of an       *)
(* executor and settles a promise, and a caller that registers callbacks on *)
(* the promise, one after the other, and then waits at an exchanger for   *)
(* the callback that was called.                                           *)
(*                                                                         *)
(* A promise settles, registers and calls its callbacks under its monitor, *)
(* and a callback registered after the promise has settled is called at    *)
(* once, by the thread that registers it.                                  *)
(***************************************************************************)
EXTENDS Naturals, Sequences

CONSTANT Programs \* what callers do: the callbacks they register, in order, and
                  \* how the addNumbers of each ends

VARIABLES program,    \* the one of them that runs
          caller, worker, \* where the two threads are
          state,      \* the promise, and
          registered, \* the callbacks it has been given
          owner,      \* the thread in its monitor
          received,   \* what the caller got at the exchanger
          early       \* whether the promise settled before the caller
                      \* had registered its last callback

vars == <<program, caller, worker, state, registered, owner, received, early>>

Init ==
    /\ program \in Programs
    /\ caller = "adding" /\ worker = "waiting"
    /\ state = "pending" /\ registered = <<>> /\ owner = "nobody"
    /\ received = "nothing" /\ early = FALSE

(* The callbacks that go to the exchanger, and the state each is for; that *)
(* of always only prints.                                                  *)
Callbacks == [resolved |-> "done", rejected |-> "fail"]
Runs(callback, how) == how # "pending" /\ callback = Callbacks[how]

(* AsyncCalculator.addNumbers, which gives the executor its task.          *)
AddNumbers ==
    /\ caller = "adding"
    /\ caller' = "registering" /\ worker' = "calculating"
    /\ UNCHANGED <<program, state, registered, owner, received, early>>

(* done, fail or always of the promise; shutdown() follows the last one,   *)
(* and waits for nothing.                                                  *)
Register ==
    LET callback == program.callbacks[Len(registered) + 1]
    IN  /\ caller = "registering" /\ owner = "nobody"
        /\ registered' = Append(registered, callback)
        /\ IF Runs(callback, state)
           THEN caller' = "inCallback" /\ owner' = "caller"
           ELSE /\ caller' = IF registered' = program.callbacks THEN "exchanging" ELSE caller
                /\ UNCHANGED owner
        /\ UNCHANGED <<program, worker, state, received, early>>

(* Calculator.addNumbers has returned or thrown: resolve or reject, which  *)
(* call the callbacks there are.                                           *)
SettleSilently ==
    /\ worker = "calculating" /\ owner = "nobody"
    /\ state' = program.ends
    /\ early' = (caller = "registering")
    /\ worker' = "ended"
    /\ UNCHANGED <<program, caller, registered, owner, received>>
Settle ==
    /\ worker = "calculating" /\ owner = "nobody"
    /\ state' = program.ends
    /\ early' = (caller = "registering")
    /\ IF \E k \in DOMAIN registered : Runs(registered[k], program.ends)
       THEN worker' = "exchanging" /\ owner' = "worker"
       ELSE worker' = "ended" /\ UNCHANGED owner
    /\ UNCHANGED <<program, caller, registered, received>>

(* The exchanger: the caller comes with nothing, the worker, in a          *)
(* callback, with what the callback is for.                                *)
Exchange ==
    /\ caller = "exchanging" /\ worker = "exchanging"
    /\ received' = state
    /\ caller' = "ended" /\ worker' = "ended" /\ owner' = "nobody"
    /\ UNCHANGED <<program, state, registered, early>>

Next == AddNumbers \/ Register \/ Settle \/ Exchange

Spec == Init /\ [][Next]_vars

(* Both threads run, and two that meet at an exchanger do exchange.        *)
Fairness ==
    WF_vars(AddNumbers \/ Register) /\ WF_vars(Settle) /\ WF_vars(Exchange)

-----------------------------------------------------------------------------
(* Who is in the monitor is where the monitor is held.                     *)
TypeOK ==
    /\ program \in Programs
    /\ caller \in {"adding", "registering", "inCallback", "exchanging", "ended"}
    /\ worker \in {"waiting", "calculating", "exchanging", "ended"}
    /\ state \in {"pending", program.ends} /\ received \in {"nothing", program.ends}
    /\ registered = SubSeq(program.callbacks, 1, Len(registered))
    /\ owner = "worker" <=> worker = "exchanging"
    /\ owner = "caller" <=> caller = "inCallback"
    /\ early \in BOOLEAN

(* The promise must not settle before the caller has registered all its    *)
(* callbacks: the caller then runs the callback itself and waits at the    *)
(* exchanger for nobody, or waits for the monitor while the worker, in it, *)
(* waits at the exchanger for the caller.  Only the half second that the   *)
(* calculator sleeps keeps the program from this.                          *)
EndsOnlyIfLate == caller = "ended" => ~early /\ received = program.ends

(* When it settles later, the program ends.                                *)
EndsIfLate == <>(early \/ caller = "ended")
=============================================================================
