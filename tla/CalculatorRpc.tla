---------------------------- MODULE CalculatorRpc ----------------------------
(***************************************************************************)
(* java-rabbitmq-experiment: CalculatorClient and CalculatorServer talk    *)
(* over the queue "calculator-rpc" and one fresh reply queue per call.     *)
(*                                                                         *)
(* Consumers are registered without autoAck and nothing is ever            *)
(* acknowledged, so the broker keeps every message a server was given, and *)
(* gives it to another server when the first one's channel closes.  A      *)
(* request is modelled by the call it belongs to, an answer by the call    *)
(* whose numbers it adds: the correlation id is sent but never read.       *)
(***************************************************************************)
EXTENDS Naturals, Sequences, FiniteSets

CONSTANTS Clients,
          Servers,
          Stray,      \* a message the server cannot handle, of another program
          NoRequest,
          MaxCalls,   \* bound: calls of each client
          MaxMakes,   \* bound: servers started
          MaxStrays   \* bound: stray messages published

ASSUME BoundsAssumption == {MaxCalls, MaxMakes, MaxStrays} \subseteq Nat

Calls == Clients \X (1 .. MaxCalls)
Requests == Calls \cup {Stray}

ASSUME NamesAssumption == Stray \notin Calls /\ NoRequest \notin Requests

VARIABLES
    ready,    \* the queue "calculator-rpc": messages no consumer has
    server,   \* each CalculatorServer, with the consumer of its channel
    client,   \* each CalculatorClient and the call it is in
    replies,  \* the reply queue of each call
    makes, strays

vars == <<ready, server, client, replies, makes, strays>>

(* inbox: deliveries in the memory of the QueueingConsumer; current: the   *)
(* delivery the worker thread handles; unacked: everything the broker has  *)
(* given to this channel.  "dead" is a server whose worker has thrown.     *)
ServerState == [phase : {"down", "running", "closing", "dead"},
                inbox : Seq(Requests), current : Requests \cup {NoRequest},
                unacked : Seq(Requests)]

Down == [phase |-> "down", inbox |-> <<>>, current |-> NoRequest, unacked |-> <<>>]

ClientState == [phase : {"idle", "waiting", "closed"}, calls : 0 .. MaxCalls,
                result : Calls \cup {NoRequest}]

TypeOK ==
    /\ ready \in Seq(Requests)
    /\ server \in [Servers -> ServerState]
    /\ client \in [Clients -> ClientState]
    /\ replies \in [Calls -> Seq(Calls)]
    /\ makes \in Nat /\ strays \in Nat

Init ==
    /\ ready = <<>>
    /\ server = [s \in Servers |-> Down]
    /\ client = [c \in Clients |-> [phase |-> "idle", calls |-> 0, result |-> NoRequest]]
    /\ replies = [call \in Calls |-> <<>>]
    /\ makes = 0 /\ strays = 0

CallOf(c) == <<c, client[c].calls>>

(* Mutant: one reply queue per client. *)
ReplyQueuePerClient(call) == <<call[1], 1>>
(* channel.queueDeclare(): a server-named queue of its own for each call. *)
ReplyQueue(call) == call

-----------------------------------------------------------------------------
(* CalculatorClient *)

(* addNumbers, up to the wait for the answer. *)
Publish(c) ==
    /\ client[c].phase = "idle" /\ client[c].calls < MaxCalls
    /\ client' = [client EXCEPT ![c] = [phase |-> "waiting", calls |-> @.calls + 1,
                                        result |-> NoRequest]]
    /\ ready' = Append(ready, CallOf(c)')
    /\ UNCHANGED <<server, replies, makes, strays>>

(* nextDelivery returns: whatever is first in the reply queue is the sum. *)
Receive(c) ==
    LET q == ReplyQueue(CallOf(c)) IN
    /\ client[c].phase = "waiting"
    /\ replies[q] # <<>>
    /\ client' = [client EXCEPT ![c] = [phase |-> "idle", calls |-> @.calls,
                                        result |-> Head(replies[q])]]
    /\ replies' = [replies EXCEPT ![q] = Tail(@)]
    /\ UNCHANGED <<ready, server, makes, strays>>

(* close: the connection's exclusive reply queues go with it. *)
CloseClient(c) ==
    /\ client[c].phase = "idle"
    /\ client' = [client EXCEPT ![c].phase = "closed"]
    /\ replies' = [call \in Calls |-> IF call[1] = c THEN <<>> ELSE replies[call]]
    /\ UNCHANGED <<ready, server, makes, strays>>

PublishStray ==
    /\ strays < MaxStrays
    /\ strays' = strays + 1
    /\ ready' = Append(ready, Stray)
    /\ UNCHANGED <<server, client, replies, makes>>

-----------------------------------------------------------------------------
(* The broker: a channel is consuming from make to the end of close. *)

Consuming(s) == server[s].phase # "down"

Deliver(s) ==
    /\ Consuming(s) /\ ready # <<>>
    /\ server' = [server EXCEPT ![s] =
           [@ EXCEPT !.inbox = Append(server[s].inbox, Head(ready)),
                     !.unacked = Append(server[s].unacked, Head(ready))]]
    /\ ready' = Tail(ready)
    /\ UNCHANGED <<client, replies, makes, strays>>

(* Mutant: the messages of a closed channel are gone, as with autoAck. *)
NothingRequeued(s) == ready
(* The broker puts back what the closed channel did not acknowledge. *)
Requeued(s) == server[s].unacked \o ready

-----------------------------------------------------------------------------
(* CalculatorServer *)

(* make purges the messages that are ready, also those clients wait for. *)
Make(s) ==
    /\ server[s].phase = "down" /\ makes < MaxMakes
    /\ makes' = makes + 1
    /\ server' = [server EXCEPT ![s].phase = "running"]
    /\ ready' = <<>>
    /\ UNCHANGED <<client, replies, strays>>

(* nextDelivery of the worker thread; an interrupted thread takes nothing. *)
Take(s) ==
    /\ server[s].phase = "running" /\ server[s].current = NoRequest
    /\ server[s].inbox # <<>>
    /\ server' = [server EXCEPT ![s] =
           [@ EXCEPT !.current = Head(server[s].inbox),
                     !.inbox = Tail(server[s].inbox)]]
    /\ UNCHANGED <<ready, client, replies, makes, strays>>

(* The sum is published to the reply queue, unless its client is gone.     *)
(* A closing server finishes the request it has in hand.                   *)
Answer(s) ==
    LET call == server[s].current IN
    /\ server[s].phase \in {"running", "closing"} /\ call \in Calls
    /\ server' = [server EXCEPT ![s].current = NoRequest]
    /\ replies' = IF client[call[1]].phase = "closed" THEN replies
                  ELSE [replies EXCEPT ![ReplyQueue(call)] = Append(@, call)]
    /\ UNCHANGED <<ready, client, makes, strays>>

(* "can't handle this message": the worker thread dies, its channel stays. *)
Choke(s) ==
    /\ server[s].phase \in {"running", "closing"} /\ server[s].current = Stray
    /\ server' = [server EXCEPT ![s] =
           [@ EXCEPT !.current = NoRequest,
                     !.phase = IF server[s].phase = "running" THEN "dead"
                               ELSE server[s].phase]]
    /\ UNCHANGED <<ready, client, replies, makes, strays>>

(* Mutant: close waits for the worker to empty its inbox. *)
CloseServerDrained(s) ==
    /\ server[s].phase \in {"closing", "dead"} /\ server[s].current = NoRequest
    /\ server[s].inbox = <<>>
    /\ server' = [server EXCEPT ![s] = Down]
    /\ ready' = Requeued(s)
    /\ UNCHANGED <<client, replies, makes, strays>>

(* close: interrupt the worker ... *)
Interrupt(s) ==
    /\ server[s].phase = "running"
    /\ server' = [server EXCEPT ![s].phase = "closing"]
    /\ UNCHANGED <<ready, client, replies, makes, strays>>

(* ... join it, and close the channel. *)
CloseServer(s) ==
    /\ server[s].phase \in {"closing", "dead"} /\ server[s].current = NoRequest
    /\ server' = [server EXCEPT ![s] = Down]
    /\ ready' = Requeued(s)
    /\ UNCHANGED <<client, replies, makes, strays>>

(* The process ends, or its connection is lost, at any point. *)
Crash(s) ==
    /\ Consuming(s)
    /\ server' = [server EXCEPT ![s] = Down]
    /\ ready' = Requeued(s)
    /\ UNCHANGED <<client, replies, makes, strays>>

ClientStep(c) == Publish(c) \/ Receive(c) \/ CloseClient(c)
Work(s) == Take(s) \/ Answer(s) \/ Choke(s)
ServerStep(s) ==
    Make(s) \/ Deliver(s) \/ Work(s) \/ Interrupt(s) \/ CloseServer(s) \/ Crash(s)

Next ==
    \/ \E c \in Clients : ClientStep(c)
    \/ \E s \in Servers : ServerStep(s)
    \/ PublishStray

Spec == Init /\ [][Next]_vars

(* Running threads run, and the broker delivers what it can.  close(), once *)
(* called, goes on; nobody has to start, close or crash anything.           *)
Fairness ==
    /\ \A c \in Clients : WF_vars(Receive(c))
    /\ WF_vars(\E s \in Servers : Deliver(s))
    /\ \A s \in Servers :
         /\ WF_vars(Work(s))
         /\ WF_vars(server[s].phase = "closing" /\ CloseServer(s))

-----------------------------------------------------------------------------
(* Properties *)

SeqHas(q, r) == \E i \in 1 .. Len(q) : q[i] = r

(* A request the broker still has, or the answer to it. *)
Traceable(call) ==
    \/ SeqHas(ready, call)
    \/ \E s \in Servers : SeqHas(server[s].unacked, call)
    \/ replies[ReplyQueue(call)] # <<>>

Waiting(c) == client[c].phase = "waiting"

(* addNumbers returns the sum of its own numbers.  The client checks no    *)
(* correlation id, and closed servers make the broker repeat requests that *)
(* were answered long ago: only the queue per call keeps calls apart.      *)
OwnAnswer ==
    \A c \in Clients : client[c].result \in {NoRequest, CallOf(c)}

(* What a server holds in memory, the broker can still redeliver. *)
HeldIsUnacked ==
    \A s \in Servers : \A r \in Requests :
        SeqHas(server[s].inbox, r) \/ server[s].current = r
            => SeqHas(server[s].unacked, r)

(* A request is lost only when a starting server purges the queue: neither *)
(* a crash nor a close nor a dead worker loses one.                        *)
OnlyPurgeLoses ==
    [][\A c \in Clients :
          Waiting(c) /\ Traceable(CallOf(c)) /\ Waiting(c)' /\ ~Traceable(CallOf(c))'
              => makes' = makes + 1]_vars

(* Unless it is purged, a request is answered as long as some server runs. *)
CallsReturn ==
    \A c \in Clients :
        Waiting(c) /\ Traceable(CallOf(c)) ~>
            \/ ~Waiting(c) \/ ~Traceable(CallOf(c))
            \/ \A s \in Servers : server[s].phase # "running"

(* close() of a server returns, whatever its worker was doing. *)
CloseReturns ==
    \A s \in Servers : server[s].phase = "closing" ~> server[s].phase = "down"
=============================================================================
