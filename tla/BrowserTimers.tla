----------------------------- MODULE BrowserTimers -----------------------------
(***************************************************************************)
(* The timers of env.rhino.1.2.js.  Rhino runs the scripts in one thread:  *)
(* callbacks run inside of Envjs.wait, and a callback may call wait again. *)
(* (runAsync does, after its function, as Rhino outside of its shell has   *)
(* neither sync nor spawn.)                                                *)
(*                                                                         *)
(* Times are kept relative to now: how long until a timer is due, negative *)
(* when it is late.  A timer has any number that none has that is set or   *)
(* runs, where $timers.length only grows: a page may set timers for ever.  *)
(***************************************************************************)
EXTENDS Integers, Sequences, FiniteSets

CONSTANTS Delays,    \* what scripts ask for, in units of the least interval
          MaxTimers, \* bound: timers that are set or run
          MaxDepth,  \* bound: calls of wait inside of one another
          MaxLate    \* bound: how late a timer is counted, at least the longest delay

VARIABLES timers,  \* $timers: the timers that are set
          frames,  \* the calls of wait, the innermost one last
          runs     \* ghost: how often each timeout's callback was started,
                   \* counted up to two

vars == <<timers, frames, runs>>

NoTimer == 0
LeastInterval == 1
NoTimers == [id \in {} |-> NoTimer]

Innermost == frames[Len(frames)]
Pop == SubSeq(frames, 1, Len(frames) - 1)
Later(a, b) == IF a > b THEN a ELSE b

(* Scripts run when wait does not: in the main program and in callbacks.   *)
InScript == frames # <<>> => Innermost.timer # NoTimer
IsRunning(id) == \E k \in DOMAIN frames : frames[k].timer = id

-----------------------------------------------------------------------------
(* What scripts call.                                                      *)

Start(timer) ==
    /\ InScript
    /\ \E num \in 1 .. MaxTimers :
          /\ num \notin DOMAIN timers /\ ~IsRunning(num)
          /\ timers' = [id \in DOMAIN timers \cup {num} |-> IF id = num THEN timer ELSE timers[id]]
          /\ runs' = IF ~timer.once THEN [id \in DOMAIN runs \ {num} |-> runs[id]]
                     ELSE [id \in DOMAIN runs \cup {num} |-> IF id = num THEN 0 ELSE runs[id]]
    /\ UNCHANGED frames

SetTimeout(time) == Start([once |-> TRUE, interval |-> time, left |-> time])
SetInterval(time) ==
    LET least == Later(time, LeastInterval)
    IN  Start([once |-> FALSE, interval |-> least, left |-> least])

Without(id) == [other \in DOMAIN timers \ {id} |-> timers[other]]
ClearInterval(id) ==
    /\ InScript
    /\ timers' = Without(id)
    /\ UNCHANGED <<frames, runs>>

(* wait(), wait(0) or wait(-n), and wait(n): until no timer is set, while  *)
(* one is due, and for n.  (The n of wait(-n) is not used.)                *)
Wait(until, n) ==
    /\ InScript /\ Len(frames) < MaxDepth
    /\ frames' = Append(frames, [timer |-> NoTimer, until |-> until, left |-> n])
    /\ UNCHANGED <<timers, runs>>

-----------------------------------------------------------------------------
(* The loop of the innermost wait.                                         *)

Candidates == {id \in DOMAIN timers : ~IsRunning(id)}
Earliest ==
    CHOOSE id \in Candidates : \A other \in Candidates :
        \/ timers[id].left < timers[other].left
        \/ timers[id].left = timers[other].left /\ id <= other
Due == Candidates # {} /\ timers[Earliest].left <= 0

Fire ==
    /\ ~InScript /\ Due
    /\ frames' = [frames EXCEPT ![Len(frames)].timer = Earliest]
    /\ runs' = [id \in DOMAIN runs |-> IF id # Earliest THEN runs[id]
                                    ELSE IF runs[id] = 0 THEN 1 ELSE 2]
    /\ UNCHANGED timers

(* Mutant: a timeout stays set once its callback has run. *)
FinishKeepingTimeout ==
    /\ frames # <<>> /\ Innermost.timer # NoTimer
    /\ frames' = [frames EXCEPT ![Len(frames)].timer = NoTimer]
    /\ UNCHANGED <<timers, runs>>

(* A callback returns, or throws, which is only logged.  A timeout clears  *)
(* itself; an interval that is late is due again at once.                  *)
Finish ==
    /\ frames # <<>> /\ Innermost.timer # NoTimer
    /\ LET id == Innermost.timer IN
       /\ timers' = IF id \notin DOMAIN timers THEN timers
                    ELSE IF timers[id].once THEN Without(id)
                    ELSE [timers EXCEPT ![id].left = Later(timers[id].left + timers[id].interval, 0)]
    /\ frames' = [frames EXCEPT ![Len(frames)].timer = NoTimer]
    /\ UNCHANGED runs

(* The call ends: the time it was given is looked at only when no timer is *)
(* due.                                                                    *)
Leave ==
    /\ ~InScript /\ ~Due
    /\ \/ Candidates = {} /\ Innermost.until = "noneSet"
       \/ Innermost.until = "noneDue"
       \/ Innermost.until = "timeOver" /\ Innermost.left < 0
    /\ frames' = Pop
    /\ UNCHANGED <<timers, runs>>

(* Time passes: wait sleeps, or a script takes its time.                   *)
Tick ==
    /\ timers' = [id \in DOMAIN timers |-> [timers[id] EXCEPT !.left = Later(@ - 1, -MaxLate)]]
    /\ frames' = [k \in DOMAIN frames |-> [frames[k] EXCEPT !.left = Later(@ - 1, -1)]]
    /\ UNCHANGED runs

Init == timers = NoTimers /\ frames = <<>> /\ runs = NoTimers

Script ==
    \/ \E time \in Delays : SetTimeout(time) \/ SetInterval(time)
    \/ \E id \in DOMAIN timers : ClearInterval(id)
    \/ Wait("noneSet", 0) \/ Wait("noneDue", 0)
    \/ \E n \in Delays \ {0} : Wait("timeOver", n)
Next == Script \/ Fire \/ Finish \/ Leave \/ Tick

(* The loop goes on, and so does time; callbacks end, however often they   *)
(* call wait before.                                                       *)
Fairness == WF_vars(Fire \/ Leave) /\ SF_vars(Finish) /\ WF_vars(Tick)
Spec == Init /\ [][Next]_vars /\ Fairness

-----------------------------------------------------------------------------
(* However calls of wait are nested, a timeout's callback is started once, *)
(* and no callback while it runs.                                          *)
StartsOnce ==
    /\ \A id \in DOMAIN runs : runs[id] <= 1
    /\ \A j, k \in DOMAIN frames :
          frames[j].timer = frames[k].timer /\ frames[j].timer # NoTimer => j = k

(* Once the page sets no more timers, a call of wait returns, unless an     *)
(* interval is left that nobody clears: even wait(n) does not return as    *)
(* long as its callback takes longer than the interval, nor while timeouts *)
(* set each other.                                                         *)
IntervalIsSet == \E id \in DOMAIN timers : ~timers[id].once
SetsNone == [][DOMAIN timers' \subseteq DOMAIN timers]_timers
WaitReturns == <>SetsNone => (frames # <<>> ~> (frames = <<>> \/ IntervalIsSet))
=============================================================================
