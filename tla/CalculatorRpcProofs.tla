------------------------- MODULE CalculatorRpcProofs -------------------------
(***************************************************************************)
(* Theorems about CalculatorRpc for any number of clients, servers, calls, *)
(* restarts and stray messages.  OwnAnswer is inductive once it is known   *)
(* that every reply queue holds only answers to the call it was made for.  *)
(* What the broker had of a call it keeps, in the queue, with a server or  *)
(* answered, whatever step is taken but a server's start.                  *)
(***************************************************************************)
EXTENDS CalculatorRpc, TLAPS

RepliesOwn ==
    \A call \in Calls : \A i \in 1 .. Len(replies[call]) : replies[call][i] = call

WaitingHasCall == \A c \in Clients : Waiting(c) => client[c].calls \in 1 .. MaxCalls

IInv == TypeOK /\ WaitingHasCall /\ RepliesOwn /\ OwnAnswer

(* The counters that bound the model are natural numbers. *)
LEMMA Bounds == MaxCalls \in Nat /\ MaxMakes \in Nat /\ MaxStrays \in Nat
  BY BoundsAssumption

(* Writing the fields of a server with values of their types. *)
LEMMA ServerFields ==
  ASSUME NEW v \in ServerState
  PROVE  /\ \A p \in {"down", "running", "closing", "dead"} :
              [v EXCEPT !.phase = p] \in ServerState
         /\ \A q \in Seq(Requests) : [v EXCEPT !.inbox = q] \in ServerState
         /\ \A r \in Requests \cup {NoRequest} :
              [v EXCEPT !.current = r] \in ServerState
         /\ \A q \in Seq(Requests) : [v EXCEPT !.unacked = q] \in ServerState
  BY DEF ServerState

-----------------------------------------------------------------------------
(* Type correctness *)

(* The steps of a client keep every variable in its type. *)
LEMMA ClientType ==
  ASSUME TypeOK, WaitingHasCall, NEW c \in Clients, ClientStep(c)
  PROVE  TypeOK'
<1> USE Bounds
<1>0. client[c] \in ClientState
  BY DEF TypeOK
<1>1. CASE Publish(c)
  <2>1. client[c].calls + 1 \in 1 .. MaxCalls
    BY <1>0, <1>1 DEF Publish, ClientState
  <2>2. client' \in [Clients -> ClientState] /\ client'[c].calls \in 1 .. MaxCalls
    BY <1>0, <1>1, <2>1 DEF Publish, ClientState, TypeOK
  <2>3. CallOf(c)' \in Requests
    BY <2>2 DEF CallOf, Requests, Calls
  <2> QED BY <1>1, <2>2, <2>3 DEF Publish, TypeOK
<1>2. CASE Receive(c)
  <2>1. CallOf(c) \in Calls
    BY <1>2 DEF Receive, WaitingHasCall, Waiting, CallOf, Calls
  <2>2. /\ replies[CallOf(c)] \in Seq(Calls) /\ replies[CallOf(c)] # <<>>
    BY <1>2, <2>1 DEF Receive, TypeOK, ReplyQueue
  <2>3. /\ Head(replies[CallOf(c)]) \in Calls
        /\ Tail(replies[CallOf(c)]) \in Seq(Calls)
    BY <2>2
  <2> QED BY <1>0, <1>2, <2>1, <2>3 DEF Receive, TypeOK, ClientState, ReplyQueue
<1>3. CASE CloseClient(c)
  <2>1. [client[c] EXCEPT !.phase = "closed"] \in ClientState
    BY <1>0 DEF ClientState
  <2>2. replies' \in [Calls -> Seq(Calls)]
    BY <1>3 DEF CloseClient, TypeOK
  <2> QED BY <1>3, <2>1, <2>2 DEF CloseClient, TypeOK
<1> QED BY <1>1, <1>2, <1>3 DEF ClientStep

(* The steps of a server, and of the broker for it, do as well. *)
LEMMA ServerType ==
  ASSUME TypeOK, NEW s \in Servers, ServerStep(s)
  PROVE  TypeOK'
<1> USE Bounds
<1>0. /\ server[s] \in ServerState /\ server \in [Servers -> ServerState]
      /\ server[s].inbox \in Seq(Requests) /\ server[s].unacked \in Seq(Requests)
      /\ ready \in Seq(Requests)
  BY DEF TypeOK, ServerState
<1>1. CASE Make(s)
  <2>1. [server[s] EXCEPT !.phase = "running"] \in ServerState
    BY <1>0, ServerFields
  <2> QED BY <1>0, <1>1, <2>1 DEF Make, TypeOK
<1>2. CASE Deliver(s)
  <2> DEFINE v == [server[s] EXCEPT !.inbox = Append(server[s].inbox, Head(ready))]
             w == [v EXCEPT !.unacked = Append(server[s].unacked, Head(ready))]
  <2>1. Head(ready) \in Requests /\ Tail(ready) \in Seq(Requests)
    BY <1>0, <1>2 DEF Deliver
  <2>2. /\ Append(server[s].inbox, Head(ready)) \in Seq(Requests)
        /\ Append(server[s].unacked, Head(ready)) \in Seq(Requests)
    BY <1>0, <2>1
  <2>3. v \in ServerState
    BY <1>0, <2>2, ServerFields
  <2>4. server' = [server EXCEPT ![s] = w]
    BY <1>0, <1>2 DEF Deliver, ServerState
  <2> HIDE DEF v
  <2>5. w \in ServerState
    BY <2>2, <2>3, ServerFields
  <2> HIDE DEF w
  <2> QED BY <1>0, <1>2, <2>1, <2>4, <2>5 DEF Deliver, TypeOK
<1>3. CASE Take(s)
  <2> DEFINE v == [server[s] EXCEPT !.current = Head(server[s].inbox)]
             w == [v EXCEPT !.inbox = Tail(server[s].inbox)]
  <2>1. /\ Head(server[s].inbox) \in Requests
        /\ Tail(server[s].inbox) \in Seq(Requests)
    BY <1>0, <1>3 DEF Take
  <2>2. v \in ServerState
    BY <1>0, <2>1, ServerFields
  <2>3. server' = [server EXCEPT ![s] = w]
    BY <1>0, <1>3 DEF Take, ServerState
  <2> HIDE DEF v
  <2>4. w \in ServerState
    BY <2>1, <2>2, ServerFields
  <2> HIDE DEF w
  <2> QED BY <1>0, <1>3, <2>3, <2>4 DEF Take, TypeOK
<1>4. CASE Answer(s)
  <2>1. [server[s] EXCEPT !.current = NoRequest] \in ServerState
    BY <1>0, ServerFields
  <2>2. replies' \in [Calls -> Seq(Calls)]
    BY <1>4 DEF Answer, TypeOK, ReplyQueue
  <2> QED BY <1>0, <1>4, <2>1, <2>2 DEF Answer, TypeOK
<1>5. CASE Choke(s)
  <2> DEFINE p == IF server[s].phase = "running" THEN "dead" ELSE server[s].phase
             v == [server[s] EXCEPT !.current = NoRequest]
             w == [v EXCEPT !.phase = p]
  <2>1. p \in {"down", "running", "closing", "dead"}
    BY <1>5 DEF Choke
  <2>2. v \in ServerState
    BY <1>0, ServerFields
  <2>3. server' = [server EXCEPT ![s] = w]
    BY <1>0, <1>5 DEF Choke, ServerState
  <2> HIDE DEF v, p
  <2>4. w \in ServerState
    BY <2>1, <2>2, ServerFields
  <2> HIDE DEF w
  <2> QED BY <1>0, <1>5, <2>3, <2>4 DEF Choke, TypeOK
<1>6. CASE Interrupt(s)
  <2>1. [server[s] EXCEPT !.phase = "closing"] \in ServerState
    BY <1>0, ServerFields
  <2> QED BY <1>0, <1>6, <2>1 DEF Interrupt, TypeOK
<1>7. CASE CloseServer(s) \/ Crash(s)
  <2>1. Down \in ServerState
    BY DEF Down, ServerState
  <2>2. Requeued(s) \in Seq(Requests)
    BY <1>0 DEF Requeued
  <2> QED BY <1>0, <1>7, <2>1, <2>2 DEF CloseServer, Crash, TypeOK
<1> QED BY <1>1, <1>2, <1>3, <1>4, <1>5, <1>6, <1>7 DEF ServerStep, Work

-----------------------------------------------------------------------------
(* Every call gets its own answer *)

(* The invariant holds before the first call. *)
LEMMA InitInv == Init => IInv
<1> SUFFICES ASSUME Init PROVE IInv
  OBVIOUS
<1>1. TypeOK
  BY Bounds DEF Init, TypeOK, Down, ServerState, ClientState
<1> QED BY <1>1 DEF Init, IInv, WaitingHasCall, Waiting, RepliesOwn, OwnAnswer

(* A client takes the head of its own call's queue, and a new call starts  *)
(* with a queue of its own.                                                *)
LEMMA ClientInv ==
  ASSUME IInv, NEW c \in Clients, ClientStep(c)
  PROVE  IInv'
<1> USE Bounds
<1>0. /\ TypeOK /\ TypeOK' /\ client[c] \in ClientState
      /\ client \in [Clients -> ClientState]
  BY ClientType DEF IInv, TypeOK
<1>1. CASE Publish(c)
  <2>1. /\ client'[c].calls \in 1 .. MaxCalls /\ client'[c].result = NoRequest
        /\ \A d \in Clients \ {c} : client'[d] = client[d]
    BY <1>0, <1>1 DEF Publish, ClientState
  <2> QED BY <1>0, <1>1, <2>1
      DEF IInv, WaitingHasCall, Waiting, RepliesOwn, OwnAnswer, CallOf, Publish
<1>2. CASE Receive(c)
  <2> DEFINE call == CallOf(c)
  <2>1. call \in Calls
    BY <1>2 DEF Receive, IInv, WaitingHasCall, Waiting, CallOf, Calls
  <2>2. replies[call] \in Seq(Calls) /\ replies[call] # <<>>
    BY <1>0, <1>2, <2>1 DEF Receive, TypeOK, ReplyQueue
  <2>3. Head(replies[call]) = call
    BY <2>1, <2>2 DEF IInv, RepliesOwn
  <2>4. /\ client'[c].phase = "idle" /\ client'[c].calls = client[c].calls
        /\ client'[c].result = call
        /\ \A d \in Clients \ {c} : client'[d] = client[d]
    BY <1>0, <1>2, <2>3 DEF Receive, ReplyQueue
  <2>5. RepliesOwn'
    <3>1. /\ replies'[call] = Tail(replies[call])
          /\ \A k \in Calls \ {call} : replies'[k] = replies[k]
      BY <1>0, <1>2, <2>1 DEF Receive, TypeOK, ReplyQueue
    <3>2. \A i \in 1 .. Len(Tail(replies[call])) : Tail(replies[call])[i] = call
      BY <2>1, <2>2 DEF IInv, RepliesOwn
    <3> QED BY <3>1, <3>2 DEF IInv, RepliesOwn
  <2> QED BY <1>0, <2>4, <2>5
      DEF IInv, WaitingHasCall, Waiting, OwnAnswer, CallOf
<1>3. CASE CloseClient(c)
  <2>1. /\ client'[c].phase = "closed" /\ client'[c].calls = client[c].calls
        /\ client'[c].result = client[c].result
        /\ \A d \in Clients \ {c} : client'[d] = client[d]
    BY <1>0, <1>3 DEF CloseClient, ClientState
  <2>2. RepliesOwn'
    BY <1>3 DEF CloseClient, IInv, RepliesOwn
  <2> QED BY <1>0, <2>1, <2>2 DEF IInv, WaitingHasCall, Waiting, OwnAnswer, CallOf
<1> QED BY <1>1, <1>2, <1>3 DEF ClientStep

(* A server, old or new, answers a request - also one that was answered    *)
(* before - into the queue of the call it belongs to.                      *)
LEMMA ServerInv ==
  ASSUME IInv, NEW s \in Servers, ServerStep(s)
  PROVE  IInv'
<1>1. TypeOK' /\ UNCHANGED client
  BY ServerType
     DEF IInv, ServerStep, Work, Make, Deliver, Take, Answer, Choke, Interrupt,
         CloseServer, Crash
<1>2. RepliesOwn'
  <2>1. CASE UNCHANGED replies
    BY <2>1 DEF IInv, RepliesOwn
  <2>2. CASE Answer(s) /\ ~UNCHANGED replies
    <3> DEFINE call == server[s].current
    <3>1. call \in Calls /\ replies[call] \in Seq(Calls)
      BY <2>2 DEF Answer, IInv, TypeOK
    <3>2. /\ replies'[call] = Append(replies[call], call)
          /\ \A k \in Calls \ {call} : replies'[k] = replies[k]
      BY <2>2, <3>1 DEF Answer, IInv, TypeOK, ReplyQueue
    <3>3. \A i \in 1 .. Len(Append(replies[call], call)) :
             Append(replies[call], call)[i] = call
      BY <3>1 DEF IInv, RepliesOwn
    <3> QED BY <3>2, <3>3 DEF IInv, RepliesOwn
  <2> QED BY <2>1, <2>2
      DEF ServerStep, Work, Make, Deliver, Take, Choke, Interrupt, CloseServer, Crash
<1> QED BY <1>1, <1>2 DEF IInv, WaitingHasCall, Waiting, OwnAnswer, CallOf

(* IInv holds in every reachable state. *)
THEOREM Invariance == Spec => []IInv
<1>1. IInv /\ [Next]_vars => IInv'
  <2> SUFFICES ASSUME IInv, [Next]_vars PROVE IInv'
    OBVIOUS
  <2>1. CASE UNCHANGED vars
    BY <2>1 DEF vars, IInv, TypeOK, WaitingHasCall, Waiting, RepliesOwn,
                OwnAnswer, CallOf
  <2>2. CASE PublishStray
    BY <2>2, Bounds DEF PublishStray, IInv, TypeOK, WaitingHasCall, Waiting,
                RepliesOwn, OwnAnswer, CallOf, Requests
  <2> QED BY <2>1, <2>2, ClientInv, ServerInv DEF Next
<1> QED BY <1>1, InitInv, PTL DEF Spec

(* Every variable keeps its type. *)
THEOREM TypeCorrect == Spec => []TypeOK
<1>1. IInv => TypeOK
  BY DEF IInv
<1> QED BY <1>1, Invariance, PTL

(* addNumbers returns the sum of its own numbers, however often the broker *)
(* repeats old requests.                                                   *)
THEOREM AnswersAreOwn == Spec => []OwnAnswer
<1>1. IInv => OwnAnswer
  BY DEF IInv
<1> QED BY <1>1, Invariance, PTL

-----------------------------------------------------------------------------
(* Nothing a server holds can be lost with it *)

(* What a longer sequence has, and what a tail has not, compared with the  *)
(* sequence itself.                                                        *)
LEMMA SeqHasFacts ==
  ASSUME NEW S, NEW q \in Seq(S), NEW r \in S
  PROVE  /\ \A e \in S : SeqHas(Append(q, e), r) <=> SeqHas(q, r) \/ e = r
         /\ q # <<>> => SeqHas(q, Head(q))
         /\ q # <<>> /\ SeqHas(Tail(q), r) => SeqHas(q, r)
<1>1. ASSUME NEW e \in S
      PROVE  SeqHas(Append(q, e), r) <=> SeqHas(q, r) \/ e = r
  <2>1. /\ Len(Append(q, e)) = Len(q) + 1 /\ Len(q) \in Nat
        /\ \A i \in 1 .. Len(q) : Append(q, e)[i] = q[i]
        /\ Append(q, e)[Len(q) + 1] = e
    OBVIOUS
  <2>2. SeqHas(Append(q, e), r) => SeqHas(q, r) \/ e = r
    BY <2>1 DEF SeqHas
  <2>3. SeqHas(q, r) => SeqHas(Append(q, e), r)
    BY <2>1 DEF SeqHas
  <2>4. e = r => SeqHas(Append(q, e), r)
    BY <2>1 DEF SeqHas
  <2> QED BY <2>2, <2>3, <2>4
<1>2. q # <<>> => SeqHas(q, Head(q))
  BY DEF SeqHas
<1>3. q # <<>> /\ SeqHas(Tail(q), r) => SeqHas(q, r)
  <2> SUFFICES ASSUME q # <<>>, NEW i \in 1 .. Len(Tail(q)), Tail(q)[i] = r
               PROVE  SeqHas(q, r)
    BY DEF SeqHas
  <2>1. i + 1 \in 1 .. Len(q) /\ q[i + 1] = r
    OBVIOUS
  <2> QED BY <2>1 DEF SeqHas
<1> QED BY <1>1, <1>2, <1>3

(* What one server has in hand or in memory is among its unacknowledged    *)
(* messages.                                                               *)
Held(s) ==
    \A r \in Requests :
        SeqHas(server[s].inbox, r) \/ server[s].current = r
            => SeqHas(server[s].unacked, r)

(* A step of one server preserves this for that server. *)
LEMMA HeldStep ==
  ASSUME TypeOK, NEW s \in Servers, ServerStep(s), Held(s)
  PROVE  Held(s)' /\ \A z \in Servers \ {s} : server'[z] = server[z]
<1>0. /\ server[s] \in ServerState /\ server \in [Servers -> ServerState]
      /\ server[s].inbox \in Seq(Requests) /\ server[s].unacked \in Seq(Requests)
      /\ ready \in Seq(Requests)
  BY DEF TypeOK, ServerState
<1>1. CASE Deliver(s)
  <2>1. /\ server'[s].inbox = Append(server[s].inbox, Head(ready))
        /\ server'[s].unacked = Append(server[s].unacked, Head(ready))
        /\ server'[s].current = server[s].current
        /\ \A z \in Servers \ {s} : server'[z] = server[z]
    BY <1>0, <1>1 DEF Deliver, ServerState
  <2>2. Head(ready) \in Requests
    BY <1>0, <1>1 DEF Deliver
  <2>3. ASSUME NEW r \in Requests
        PROVE  /\ SeqHas(server'[s].inbox, r) <=>
                    SeqHas(server[s].inbox, r) \/ Head(ready) = r
               /\ SeqHas(server'[s].unacked, r) <=>
                    SeqHas(server[s].unacked, r) \/ Head(ready) = r
    BY <1>0, <2>1, <2>2, SeqHasFacts
  <2> QED BY <2>1, <2>3 DEF Held
<1>2. CASE Take(s)
  <2>1. /\ server'[s].inbox = Tail(server[s].inbox)
        /\ server'[s].unacked = server[s].unacked
        /\ server'[s].current = Head(server[s].inbox)
        /\ server[s].inbox # <<>>
        /\ \A z \in Servers \ {s} : server'[z] = server[z]
    BY <1>0, <1>2 DEF Take, ServerState
  <2>2. ASSUME NEW r \in Requests,
               SeqHas(server'[s].inbox, r) \/ server'[s].current = r
        PROVE  SeqHas(server[s].inbox, r)
    BY <1>0, <2>1, <2>2, SeqHasFacts
  <2> QED BY <2>1, <2>2 DEF Held
<1>3. CASE Make(s) \/ Answer(s) \/ Choke(s) \/ Interrupt(s)
  <2>1. /\ server'[s].inbox = server[s].inbox
        /\ server'[s].unacked = server[s].unacked
        /\ server'[s].current \in {server[s].current, NoRequest}
        /\ \A z \in Servers \ {s} : server'[z] = server[z]
    <3>1. CASE Make(s)
      BY <1>0, <3>1 DEF Make, ServerState
    <3>2. CASE Answer(s)
      BY <1>0, <3>2 DEF Answer, ServerState
    <3>3. CASE Choke(s)
      BY <1>0, <3>3 DEF Choke, ServerState
    <3>4. CASE Interrupt(s)
      BY <1>0, <3>4 DEF Interrupt, ServerState
    <3> QED BY <1>3, <3>1, <3>2, <3>3, <3>4
  <2> QED BY <2>1, NamesAssumption DEF Held
<1>4. CASE CloseServer(s) \/ Crash(s)
  <2>1. server'[s] = Down /\ \A z \in Servers \ {s} : server'[z] = server[z]
    BY <1>0, <1>4 DEF CloseServer, Crash
  <2> QED BY <2>1, NamesAssumption DEF Held, Down, SeqHas
<1> QED BY <1>1, <1>2, <1>3, <1>4 DEF ServerStep, Work

(* A message a server has in memory is never beyond redelivery. *)
THEOREM HeldSafe == Spec => []HeldIsUnacked
<1>1. Init => HeldIsUnacked
  BY NamesAssumption DEF Init, HeldIsUnacked, Down, SeqHas
<1>2. IInv /\ HeldIsUnacked /\ [Next]_vars => HeldIsUnacked'
  <2> SUFFICES ASSUME IInv, HeldIsUnacked, [Next]_vars PROVE HeldIsUnacked'
    OBVIOUS
  <2>1. CASE UNCHANGED server
    BY <2>1 DEF HeldIsUnacked
  <2>2. ASSUME NEW s \in Servers, ServerStep(s) PROVE HeldIsUnacked'
    <3>1. Held(s)' /\ \A z \in Servers \ {s} : server'[z] = server[z]
      BY <2>2, HeldStep DEF IInv, HeldIsUnacked, Held
    <3>2. \A z \in Servers \ {s} : Held(z)'
      BY <3>1 DEF HeldIsUnacked, Held
    <3> QED BY <3>1, <3>2 DEF HeldIsUnacked, Held
  <2> QED
    BY <2>1, <2>2
       DEF Next, vars, ClientStep, Publish, Receive, CloseClient, PublishStray
<1> QED BY <1>1, <1>2, Invariance, PTL DEF Spec
-----------------------------------------------------------------------------
(* Only a purge loses a request                                            *)

(* Joining two sequences, and taking the head off one, loses nothing.      *)
LEMMA SeqHasJoined ==
  ASSUME NEW S, NEW p \in Seq(S), NEW q \in Seq(S), NEW r \in S
  PROVE  /\ SeqHas(p, r) \/ SeqHas(q, r) => SeqHas(p \o q, r)
         /\ q # <<>> /\ SeqHas(q, r) => Head(q) = r \/ SeqHas(Tail(q), r)
<1>1. ASSUME NEW i \in 1 .. Len(p), p[i] = r PROVE SeqHas(p \o q, r)
  <2>1. i \in 1 .. Len(p \o q) /\ (p \o q)[i] = r
    BY <1>1
  <2> QED BY <2>1 DEF SeqHas
<1>2. ASSUME NEW i \in 1 .. Len(q), q[i] = r PROVE SeqHas(p \o q, r)
  <2>1. Len(p) + i \in 1 .. Len(p \o q) /\ (p \o q)[Len(p) + i] = r
    BY <1>2
  <2> QED BY <2>1 DEF SeqHas
<1>3. ASSUME q # <<>>, NEW i \in 1 .. Len(q), q[i] = r, Head(q) # r
      PROVE  SeqHas(Tail(q), r)
  <2>1. i - 1 \in 1 .. Len(Tail(q)) /\ Tail(q)[i - 1] = r
    BY <1>3
  <2> QED BY <2>1 DEF SeqHas
<1> QED BY <1>1, <1>2, <1>3 DEF SeqHas

LEMMA AppendNotEmpty ==
  ASSUME NEW S, NEW q \in Seq(S), NEW e \in S
  PROVE  Append(q, e) # <<>>
<1>1. Len(Append(q, e)) = Len(q) + 1 /\ Len(q) \in Nat
  OBVIOUS
<1> QED BY <1>1

(* Where a call may be found after a step.                                 *)
Found(call) ==
    \/ SeqHas(ready', call)
    \/ \E s \in Servers : SeqHas(server'[s].unacked, call)
    \/ replies'[call] # <<>>

(* What other clients do takes nothing from the queue of a call.           *)
LEMMA ClientLosesNothing ==
  ASSUME TypeOK, NEW c \in Clients, NEW d \in Clients, ClientStep(d), Waiting(c), Waiting(c)',
         CallOf(c) \in Calls, Traceable(CallOf(c))
  PROVE  Found(CallOf(c)) /\ CallOf(c)' = CallOf(c)
<1> DEFINE call == CallOf(c)
<1>0. /\ client \in [Clients -> ClientState] /\ replies \in [Calls -> Seq(Calls)]
      /\ ready \in Seq(Requests) /\ call \in Requests
  BY DEF TypeOK, Requests
<1>1. d # c /\ client'[c] = client[c]
  <2>1. CASE Publish(d)
    BY <1>0, <2>1 DEF Publish, Waiting
  <2>2. CASE Receive(d)
    BY <1>0, <2>2 DEF Receive, Waiting
  <2>3. CASE CloseClient(d)
    BY <1>0, <2>3 DEF CloseClient, Waiting
  <2> QED BY <2>1, <2>2, <2>3 DEF ClientStep
<1>2. CallOf(c)' = CallOf(c)
  BY <1>1 DEF CallOf
<1>3. UNCHANGED server
  BY DEF ClientStep, Publish, Receive, CloseClient
<1>4. CASE Publish(d)
  <2>1. replies' = replies
    BY <1>4 DEF Publish
  <2>2. SeqHas(ready, call) => SeqHas(ready', call)
    <3>1. CallOf(d)' \in Requests
      BY <1>0, <1>4, Bounds DEF Publish, CallOf, Requests, Calls, ClientState
    <3> QED BY <1>0, <1>4, <3>1, SeqHasFacts DEF Publish
  <2> QED BY <1>2, <1>3, <2>1, <2>2 DEF Found, Traceable, ReplyQueue
<1>5. CASE Receive(d)
  <2>1. CallOf(d) # call
    BY <1>1 DEF CallOf
  <2>2. replies'[call] = replies[call] /\ ready' = ready
    BY <1>0, <1>5, <2>1 DEF Receive, ReplyQueue
  <2> QED BY <1>2, <1>3, <2>2 DEF Found, Traceable, ReplyQueue
<1>6. CASE CloseClient(d)
  <2>1. call[1] # d
    BY <1>1 DEF CallOf
  <2>2. replies'[call] = replies[call] /\ ready' = ready
    BY <1>0, <1>6, <2>1 DEF CloseClient
  <2> QED BY <1>2, <1>3, <2>2 DEF Found, Traceable, ReplyQueue
<1> QED BY <1>4, <1>5, <1>6 DEF ClientStep

(* A server that is given a message, closes or crashes keeps the message   *)
(* from getting lost; only one that starts takes what nobody has yet.      *)
LEMMA ServerLosesNothing ==
  ASSUME TypeOK, NEW call \in Calls, Traceable(call), NEW s \in Servers, ServerStep(s), ~Make(s)
  PROVE  Found(call)
<1>0. /\ server \in [Servers -> ServerState] /\ replies \in [Calls -> Seq(Calls)]
      /\ ready \in Seq(Requests) /\ call \in Requests /\ server[s].unacked \in Seq(Requests)
      /\ server[s] \in ServerState
  BY DEF TypeOK, Requests, ServerState
<1>1. CASE Deliver(s)
  <2>1. /\ server'[s].unacked = Append(server[s].unacked, Head(ready))
        /\ \A z \in Servers \ {s} : server'[z] = server[z]
        /\ ready' = Tail(ready) /\ ready # <<>> /\ replies' = replies
    BY <1>0, <1>1 DEF Deliver, ServerState
  <2>2. Head(ready) \in Requests
    BY <1>0, <2>1
  <2>3. SeqHas(server'[s].unacked, call) <=> SeqHas(server[s].unacked, call) \/ Head(ready) = call
    BY <1>0, <2>1, <2>2, SeqHasFacts
  <2>4. SeqHas(ready, call) => Head(ready) = call \/ SeqHas(ready', call)
    BY <1>0, <2>1, SeqHasJoined
  <2>5. ASSUME NEW z \in Servers, SeqHas(server[z].unacked, call)
        PROVE  SeqHas(server'[z].unacked, call)
    BY <2>1, <2>3, <2>5
  <2> QED BY <2>1, <2>3, <2>4, <2>5 DEF Found, Traceable, ReplyQueue
<1>2. CASE Take(s) \/ Choke(s) \/ Interrupt(s) \/ Answer(s)
  <2>1. \A z \in Servers : server'[z].unacked = server[z].unacked
    <3>1. CASE Take(s)
      BY <1>0, <3>1 DEF Take, ServerState
    <3>2. CASE Choke(s)
      BY <1>0, <3>2 DEF Choke, ServerState
    <3>3. CASE Interrupt(s)
      BY <1>0, <3>3 DEF Interrupt, ServerState
    <3>4. CASE Answer(s)
      BY <1>0, <3>4 DEF Answer, ServerState
    <3> QED BY <1>2, <3>1, <3>2, <3>3, <3>4
  <2>2. ready' = ready
    BY <1>2 DEF Take, Choke, Interrupt, Answer
  <2>3. replies[call] # <<>> => replies'[call] # <<>>
    <3>1. CASE replies' = replies
      BY <3>1
    <3>2. CASE replies' # replies
      <4> DEFINE k == server[s].current
      <4>1. k \in Calls /\ replies' = [replies EXCEPT ![k] = Append(replies[k], k)]
        BY <1>2, <3>2 DEF Take, Choke, Interrupt, Answer, ReplyQueue
      <4> HIDE DEF k
      <4>2. Append(replies[k], k) # <<>>
        BY <1>0, <4>1, AppendNotEmpty
      <4>3. replies'[k] # <<>>
        BY <1>0, <4>1, <4>2
      <4>4. call # k => replies'[call] = replies[call]
        BY <1>0, <4>1
      <4> QED BY <4>3, <4>4
    <3> QED BY <3>1, <3>2
  <2> QED BY <2>1, <2>2, <2>3 DEF Found, Traceable, ReplyQueue
<1>3. CASE CloseServer(s) \/ Crash(s)
  <2>1. /\ ready' = server[s].unacked \o ready /\ replies' = replies
        /\ \A z \in Servers \ {s} : server'[z] = server[z]
    BY <1>0, <1>3 DEF CloseServer, Crash, Requeued
  <2>2. SeqHas(ready, call) \/ SeqHas(server[s].unacked, call) => SeqHas(ready', call)
    BY <1>0, <2>1, SeqHasJoined
  <2>3. ASSUME NEW z \in Servers, SeqHas(server[z].unacked, call)
        PROVE  Found(call)
    BY <2>1, <2>2, <2>3 DEF Found
  <2> QED BY <2>1, <2>2, <2>3 DEF Found, Traceable, ReplyQueue
<1> QED BY <1>1, <1>2, <1>3 DEF ServerStep, Work

(* While a client waits, a request the broker had, or the answer to it, is *)
(* there still, unless a starting server has purged the queue.             *)
THEOREM OnlyPurgesLose == Spec => OnlyPurgeLoses
<1> DEFINE Kept == \A c \in Clients :
                      Waiting(c) /\ Traceable(CallOf(c)) /\ Waiting(c)' /\ ~Traceable(CallOf(c))'
                          => makes' = makes + 1
<1>1. IInv /\ [Next]_vars => Kept
  <2> SUFFICES ASSUME IInv, [Next]_vars, NEW c \in Clients, Waiting(c), Waiting(c)',
                      Traceable(CallOf(c)), ~Traceable(CallOf(c))'
               PROVE  makes' = makes + 1
    OBVIOUS
  <2>1. TypeOK /\ CallOf(c) \in Calls
    BY DEF IInv, WaitingHasCall, CallOf, Calls
  <2>2. ~(Found(CallOf(c)) /\ CallOf(c)' = CallOf(c))
    BY DEF Found, Traceable, ReplyQueue
  <2>3. CASE UNCHANGED vars
    BY <2>2, <2>3 DEF vars, Found, Traceable, ReplyQueue, CallOf
  <2>4. CASE PublishStray
    <3>1. SeqHas(ready, CallOf(c)) => SeqHas(ready', CallOf(c))
      <4>1. /\ CallOf(c) \in Requests /\ Stray \in Requests
            /\ ready \in Seq(Requests) /\ ready' = Append(ready, Stray)
        BY <2>1, <2>4 DEF PublishStray, TypeOK, Requests
      <4> DEFINE call == CallOf(c)
      <4> HIDE DEF call
      <4>2. SeqHas(ready, call) => SeqHas(Append(ready, Stray), call)
        BY <4>1, SeqHasFacts DEF call
      <4> QED BY <4>1, <4>2 DEF call
    <3> QED BY <2>2, <2>4, <3>1 DEF PublishStray, Found, Traceable, ReplyQueue, CallOf
  <2>5. ASSUME NEW d \in Clients, ClientStep(d) PROVE FALSE
    BY <2>1, <2>2, <2>5, ClientLosesNothing
  <2>6. ASSUME NEW s \in Servers, ServerStep(s) PROVE makes' = makes + 1
    <3>1. CASE Make(s)
      BY <3>1 DEF Make
    <3>2. CASE ~Make(s)
      <4>1. Found(CallOf(c))
        BY <2>1, <2>6, <3>2, ServerLosesNothing
      <4>2. UNCHANGED client
        BY <2>6 DEF ServerStep, Work, Make, Deliver, Take, Answer, Choke, Interrupt,
                    CloseServer, Crash
      <4> QED BY <2>2, <4>1, <4>2 DEF CallOf
    <3> QED BY <3>1, <3>2
  <2> QED BY <2>3, <2>4, <2>5, <2>6 DEF Next
<1>2. IInv /\ [Next]_vars => [Kept]_vars
  BY <1>1
<1> QED BY <1>2, Invariance, PTL DEF Spec, OnlyPurgeLoses
=============================================================================
