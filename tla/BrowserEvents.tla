----------------------------- MODULE BrowserEvents -----------------------------
(***************************************************************************)
(* EventTarget of env.rhino.1.2.js: listeners of one type of event, and    *)
(* the way of an event through the tree: down to the target over the       *)
(* capturing listeners of its ancestors, and up again over the bubbling    *)
(* ones.  A listener may register, remove, move nodes and stop the event   *)
(* while it is on its way.  (Listeners that dispatch events of their own   *)
(* are left out; their dispatch shares nothing but the listeners.)         *)
(***************************************************************************)
EXTENDS Integers, Sequences, SequencesExt, FiniteSets

CONSTANTS Nodes, NoNode,
          Above,      \* parentNode of each node at first
          Functions,  \* what can be registered
          Handled     \* the nodes with a handler of their own (onclick, ...)

VARIABLES parentNode, events, event, calls, disturbed

vars == <<parentNode, events, event, calls, disturbed>>

(* $events[uuid][type]; what nobody registered for is undefined.           *)
Undefined == [known |-> FALSE, CAPTURING |-> <<>>, BUBBLING |-> <<>>]
NoEvent == [phase |-> "none"]

-----------------------------------------------------------------------------
(* What scripts call, in a listener or outside of one.                     *)

InScript == event.phase \in {"none", "called"}
Disturb == disturbed' = (disturbed \/ event # NoEvent)

(* Mutant: a function that is registered already is registered again. *)
AddEventListenerAgain(target, fn, phase) ==
    /\ InScript /\ Len(events[target][phase]) < 2
    /\ events' = [events EXCEPT ![target].known = TRUE, ![target][phase] = Append(@, fn)]
    /\ Disturb
    /\ UNCHANGED <<parentNode, event, calls>>

AddEventListener(target, fn, phase) ==
    /\ InScript
    /\ events' = [events EXCEPT ![target].known = TRUE,
                     ![target][phase] = IF fn \in ToSet(@) THEN @ ELSE Append(@, fn)]
    /\ Disturb
    /\ UNCHANGED <<parentNode, event, calls>>

(* The list without a function, which is there at most once.               *)
Without(list, fn) ==
    IF fn \in ToSet(list) THEN RemoveAt(list, CHOOSE i \in DOMAIN list : list[i] = fn) ELSE list

(* The public call does not pass the phase on.                             *)
RemoveEventListener(target, fn) ==
    /\ InScript /\ events[target].known
    /\ events' = [events EXCEPT ![target].BUBBLING = Without(@, fn)]
    /\ Disturb
    /\ UNCHANGED <<parentNode, event, calls>>
RemoveEveryListener(target) ==
    /\ InScript /\ events[target].known
    /\ events' = [events EXCEPT ![target] = Undefined]
    /\ Disturb
    /\ UNCHANGED <<parentNode, event, calls>>

(* removeChild of the node's parent, once the document is parsed: the node *)
(* loses its listeners with its place.                                     *)
RemoveNode(node) ==
    /\ InScript /\ parentNode[node] # NoNode
    /\ parentNode' = [parentNode EXCEPT ![node] = NoNode]
    /\ events' = [events EXCEPT ![node] = Undefined]
    /\ Disturb
    /\ UNCHANGED <<event, calls>>

-----------------------------------------------------------------------------
(* The node, its parent and so on; where there is no parent, NoNode.       *)
Ancestors(node) ==
    LET Up[k \in 0..Cardinality(Nodes)] ==
            IF k = 0 THEN node
            ELSE IF Up[k - 1] = NoNode THEN NoNode ELSE parentNode[Up[k - 1]]
    IN  Up

(* The ancestors that somebody listens to, the nearest first.              *)
AncestorStack(target) ==
    LET Stack[k \in 0..Cardinality(Nodes)] ==
            LET parent == Ancestors(target)[k] IN
            IF k = 0 THEN <<>>
            ELSE IF parent # NoNode /\ events[parent].known THEN Append(Stack[k - 1], parent)
            ELSE Stack[k - 1]
    IN  Stack[Cardinality(Nodes)]

DispatchEvent(target, bubbles, cancelable) ==
    /\ event = NoEvent
    /\ event' = [phase |-> "capturing", target |-> target, bubbles |-> bubbles,
                 cancelable |-> cancelable, cancelled |-> FALSE,
                 currentTarget |-> NoNode, turn |-> "capturing", listeners |-> <<>>,
                 stack |-> AncestorStack(target)]
    /\ calls' = <<>>
    /\ disturbed' = FALSE
    /\ UNCHANGED <<parentNode, events>>

(* One node's listeners are called: those there were when its turn came.   *)
TurnTo(node, phase, listeners) ==
    event' = [event EXCEPT !.currentTarget = node, !.phase = phase, !.turn = phase,
                           !.listeners = listeners]
Idle(phase) == event.phase = phase /\ event.listeners = <<>>
Same == UNCHANGED <<parentNode, events, calls, disturbed>>

Call ==
    /\ event.phase \notin {"none", "called"} /\ event.listeners # <<>>
    /\ calls' = Append(calls, [node |-> event.currentTarget, turn |-> event.phase,
                               fn |-> Head(event.listeners), cancelled |-> FALSE])
    /\ event' = [event EXCEPT !.phase = "called", !.listeners = Tail(@)]
    /\ UNCHANGED <<parentNode, events, disturbed>>

(* stopPropagation, or "return false".                                     *)
Return(stops) ==
    /\ event.phase = "called"
    /\ LET stopped == event.cancelled \/ (stops /\ event.cancelable) IN
       /\ event' = [event EXCEPT !.phase = event.turn, !.cancelled = stopped]
       /\ calls' = [calls EXCEPT ![Len(calls)].cancelled = stopped]
    /\ UNCHANGED <<parentNode, events, disturbed>>

(* A listener that throws ends the dispatch, and so does a target that     *)
(* loses all its listeners while the capturing ones are called.            *)
Throw ==
    /\ \/ event.phase = "called"
       \/ Idle("targetCapturing") /\ ~events[event.target].known
    /\ event' = NoEvent
    /\ Same

CaptureEvent ==
    /\ Idle("capturing")
    /\ IF event.stack # <<>> /\ ~event.cancelled
       THEN LET node == Last(event.stack) IN
            event' = [event EXCEPT !.stack = Front(@), !.currentTarget = node,
                                   !.listeners = events[node].CAPTURING]
       ELSE LET own == events[event.target] IN
            IF own.known THEN TurnTo(event.target, "targetCapturing", own.CAPTURING)
            ELSE TurnTo(event.currentTarget, "targetBubbling", <<>>)
    /\ Same

AtTarget ==
    /\ Idle("targetCapturing") /\ events[event.target].known
    /\ TurnTo(event.target, "targetBubbling", events[event.target].BUBBLING)
    /\ Same

Handle ==
    /\ Idle("targetBubbling")
    /\ TurnTo(event.target, "handler", IF event.target \in Handled THEN <<"on">> ELSE <<>>)
    /\ Same

(* Where it bubbles is asked of the tree at every step; whether it was     *)
(* stopped only at the first.                                              *)
BubbleEvent ==
    /\ \/ Idle("handler") /\ event.bubbles /\ ~event.cancelled
       \/ Idle("bubbling")
    /\ LET from == IF event.turn = "handler" THEN event.target ELSE event.currentTarget
           node == parentNode[from]
       IN  /\ node # NoNode
           /\ TurnTo(node, "bubbling", events[node].BUBBLING)
    /\ Same

(* What a browser does by itself afterwards (defaultEventBehaviors) is     *)
(* left out.                                                               *)
Ends ==
    \/ Idle("handler") /\ (~event.bubbles \/ event.cancelled \/ parentNode[event.target] = NoNode)
    \/ Idle("bubbling") /\ parentNode[event.currentTarget] = NoNode
Finish ==
    /\ Ends
    /\ event' = NoEvent
    /\ Same

Init ==
    /\ parentNode = Above
    /\ events = [n \in Nodes |-> Undefined]
    /\ event = NoEvent /\ calls = <<>> /\ disturbed = FALSE

Next ==
    \/ \E n \in Nodes, fn \in Functions :
          \/ \E phase \in {"CAPTURING", "BUBBLING"} : AddEventListener(n, fn, phase)
          \/ RemoveEventListener(n, fn)
    \/ \E n \in Nodes : RemoveEveryListener(n) \/ RemoveNode(n)
    \/ \E n \in Nodes, bubbles, cancelable \in BOOLEAN : DispatchEvent(n, bubbles, cancelable)
    \/ \E stops \in BOOLEAN : Return(stops)
    \/ Call \/ Throw \/ CaptureEvent \/ AtTarget \/ Handle \/ BubbleEvent \/ Finish

Spec == Init /\ [][Next]_vars

-----------------------------------------------------------------------------
(* Where a node is on the way: before the target, at it or behind it.      *)
Distance(node) == CHOOSE k \in 0..Cardinality(Nodes) : Ancestors(event.target)[k] = node
Rank(call) ==
    CASE call.turn = "capturing" -> -Distance(call.node)
      [] call.turn = "bubbling" -> Distance(call.node)
      [] OTHER -> 0
Way == {Ancestors(event.target)[k] : k \in 0..Cardinality(Nodes)} \ {NoNode}
Undisturbed == event # NoEvent /\ ~disturbed

InOrder ==
    \A i, j \in DOMAIN calls : i < j =>
        /\ Rank(calls[i]) <= Rank(calls[j])
        /\ <<calls[i].node, calls[i].turn, calls[i].fn>>
              # <<calls[j].node, calls[j].turn, calls[j].fn>>

Stops == {Rank(calls[i]) : i \in {j \in DOMAIN calls : calls[j].cancelled}}
Reaches(rank) ==
    /\ rank > 0 => event.bubbles /\ \A s \in Stops : s > 0
    /\ rank < 0 => \A s \in Stops : s >= rank
Heard(n, turn) ==
    Reaches(Rank([node |-> n, turn |-> turn])) =>
        LET phase == IF turn \in {"capturing", "targetCapturing"} THEN "CAPTURING" ELSE "BUBBLING"
        IN  \A fn \in ToSet(events[n][phase]) :
                \E i \in DOMAIN calls : calls[i].node = n /\ calls[i].turn = turn /\ calls[i].fn = fn
AllAreCalled ==
    /\ \A n \in Way \ {event.target} : Heard(n, "capturing") /\ Heard(n, "bubbling")
    /\ Heard(event.target, "targetCapturing") /\ Heard(event.target, "targetBubbling")

(* An event that nobody disturbs goes from the outermost ancestor in to    *)
(* its target and out again, and calls no listener of a node twice in the  *)
(* same turn.  It calls every listener on its way, or up to where it was   *)
(* first stopped: while it captures, the other ancestors are left out and  *)
(* the target is not; at the target, all ancestors.  Stopping it while it  *)
(* bubbles stops nothing.                                                  *)
ListenersAreCalled == Undisturbed => InOrder /\ (Ends => AllAreCalled)
=============================================================================
