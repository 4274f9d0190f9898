--------------------------- MODULE NettyCalculator ---------------------------
(***************************************************************************)
(* netty-experiment: MyClient.addNumbers over one TCP connection.          *)
(*                                                                         *)
(* A caller puts a new Exchanger into the field of the one client handler, *)
(* has the event loop write eight bytes, and waits at its exchanger.  The  *)
(* event loop waits there too, at whichever exchanger the field holds when *)
(* an answer is read, and does nothing else meanwhile.  TCP may cut both   *)
(* streams anywhere.                                                       *)
(*                                                                         *)
(* A byte is modelled by the call whose numbers it carries, an exchanger   *)
(* by the call that made it.  The field is not volatile, but a caller's    *)
(* assignment happens before the write it then submits to the event loop,  *)
(* so the loop sees at least that assignment or a later one.               *)
(***************************************************************************)
EXTENDS Naturals, Sequences

CONSTANTS Callers,
          NoCall,
          Garbage,         \* an int made of bytes of several calls
          MaxCalls         \* bound: calls of each caller

Calls == Callers \X (1 .. MaxCalls)
Values == Calls \cup {Garbage}

ASSUME NettyAssumption ==
    /\ MaxCalls \in Nat
    /\ NoCall \notin Values /\ Garbage \notin Calls

VARIABLES
    server, client,  \* MyServer and MyClient: "new", "open" or "closed"
    caller,          \* each thread inside or outside addNumbers
    exchanger,       \* the field of MyClientHandler
    loop,            \* the client's event loop, while it is in exchange()
    toServer,        \* bytes the client has written, not yet received
    cumulation,      \* bytes the server has received, not yet handled
    toClient,        \* bytes the server has written, not yet read
    answer           \* what each call returned

vars == <<server, client, caller, exchanger, loop, toServer, cumulation,
          toClient, answer>>
wire == <<toServer, cumulation, toClient>>

States == {"new", "open", "closed"}
Free == [on |-> NoCall, value |-> NoCall]
LoopIsFree == loop.on = NoCall

TypeOK ==
    /\ server \in States /\ client \in States
    /\ caller \in [Callers -> [phase : {"idle", "writing", "waiting"},
                               calls : 0 .. MaxCalls]]
    /\ exchanger \in Calls \cup {NoCall}
    /\ loop \in [on : Calls \cup {NoCall}, value : Values \cup {NoCall}]
    /\ toServer \in Seq(Calls) /\ cumulation \in Seq(Calls)
    /\ toClient \in Seq(Values)
    /\ answer \in [Calls -> Values \cup {NoCall}]

Init ==
    /\ server = "new" /\ client = "new"
    /\ caller = [t \in Callers |-> [phase |-> "idle", calls |-> 0]]
    /\ exchanger = NoCall
    /\ loop = Free
    /\ toServer = <<>> /\ cumulation = <<>> /\ toClient = <<>>
    /\ answer = [c \in Calls |-> NoCall]

CallOf(t) == <<t, caller[t].calls>>

(* What the code writes and reads for one int and for a request of two. *)
IntBytes == 4
RequestBytes == 8
Bytes(n, c) == [i \in 1 .. n |-> c]

(* The int in the first n bytes of s: it belongs to a call only if they do. *)
IntOf(s, n) == IF \A i \in 1 .. n : s[i] = s[1] THEN s[1] ELSE Garbage

Drop(s, n) == SubSeq(s, n + 1, Len(s))

-----------------------------------------------------------------------------
(* Start and stop *)

StartServer ==
    /\ server = "new"
    /\ server' = "open"
    /\ UNCHANGED <<client, caller, exchanger, loop, wire, answer>>

(* connect().sync() throws unless the server listens. *)
StartClient ==
    /\ client = "new" /\ server = "open"
    /\ client' = "open"
    /\ UNCHANGED <<server, caller, exchanger, loop, wire, answer>>

(* The worker group closes the connection; what it has not received is     *)
(* lost, and so may be the end of what it has sent.                        *)
StopServer ==
    /\ server = "open"
    /\ server' = "closed"
    /\ toServer' = <<>> /\ cumulation' = <<>>
    /\ \E n \in 0 .. Len(toClient) : toClient' = SubSeq(toClient, 1, n)
    /\ UNCHANGED <<client, caller, exchanger, loop, answer>>

(* The event loop closes the channel: stop() is called, or the server is   *)
(* gone and everything it sent has been read.                              *)
CloseChannel ==
    /\ client = "open" /\ LoopIsFree
    /\ client' = "closed"
    /\ UNCHANGED <<server, caller, exchanger, loop, wire, answer>>

-----------------------------------------------------------------------------
(* addNumbers *)

(* Mutant: the new exchanger is set after the request has been written. *)
StartCallKeepingExchanger(t) ==
    /\ client # "new"
    /\ caller[t].phase = "idle" /\ caller[t].calls < MaxCalls
    /\ caller' = [caller EXCEPT ![t] = [phase |-> "writing", calls |-> @.calls + 1]]
    /\ exchanger' = IF exchanger = NoCall THEN CallOf(t)' ELSE exchanger
    /\ UNCHANGED <<server, client, loop, wire, answer>>

StartCall(t) ==
    /\ client # "new"
    /\ caller[t].phase = "idle" /\ caller[t].calls < MaxCalls
    /\ caller' = [caller EXCEPT ![t] = [phase |-> "writing", calls |-> @.calls + 1]]
    /\ exchanger' = CallOf(t)'
    /\ UNCHANGED <<server, client, loop, wire, answer>>

(* The event loop writes the request, and sync() returns.  Writes come in  *)
(* any order: nothing else shows in which order they were submitted.       *)
Flush(t) ==
    /\ caller[t].phase = "writing"
    /\ client = "open" /\ LoopIsFree
    /\ caller' = [caller EXCEPT ![t].phase = "waiting"]
    /\ toServer' = IF server = "closed" THEN toServer
                   ELSE toServer \o Bytes(RequestBytes, CallOf(t))
    /\ UNCHANGED <<server, client, exchanger, loop, cumulation, toClient, answer>>

(* Mutant: a caller gives up waiting for its answer. *)
GiveUp(t) ==
    /\ caller[t].phase \in {"writing", "waiting"}
    /\ LoopIsFree
    /\ caller' = [caller EXCEPT ![t].phase = "idle"]
    /\ UNCHANGED <<server, client, exchanger, loop, wire, answer>>

(* sync() throws: the channel is closed, or the server is gone. *)
FailWrite(t) ==
    /\ caller[t].phase = "writing"
    /\ client = "closed" \/ server = "closed"
    /\ LoopIsFree
    /\ caller' = [caller EXCEPT ![t].phase = "idle"]
    /\ UNCHANGED <<server, client, exchanger, loop, wire, answer>>

(* Caller and event loop meet at the caller's exchanger. *)
Exchange(t) ==
    /\ caller[t].phase = "waiting" /\ loop.on = CallOf(t)
    /\ caller' = [caller EXCEPT ![t].phase = "idle"]
    /\ answer' = [answer EXCEPT ![CallOf(t)] = loop.value]
    /\ loop' = Free
    /\ UNCHANGED <<server, client, exchanger, wire>>

(* channelRead with the n bytes that have arrived: readInt takes the first *)
(* four, or throws if there are fewer.  The rest is dropped either way.    *)
Read(n) ==
    /\ client = "open" /\ LoopIsFree
    /\ n \in 1 .. Len(toClient)
    /\ toClient' = Drop(toClient, n)
    /\ loop' = IF n < IntBytes THEN loop
               ELSE [on |-> exchanger, value |-> IntOf(toClient, IntBytes)]
    /\ UNCHANGED <<server, client, caller, exchanger, toServer, cumulation, answer>>

-----------------------------------------------------------------------------
(* MyServer's pipeline *)

(* Mutant: the decoder keeps only whole requests of each read. *)
ReceiveWholeOnly(n) ==
    /\ server = "open" /\ Len(cumulation) < RequestBytes
    /\ n \in 1 .. Len(toServer)
    /\ cumulation' = SubSeq(cumulation \o SubSeq(toServer, 1, n), 1,
                            n - (n % RequestBytes))
    /\ toServer' = Drop(toServer, n)
    /\ UNCHANGED <<server, client, caller, exchanger, loop, toClient, answer>>

(* n bytes arrive and are added to those that made no request yet.  The    *)
(* decoder takes requests from them until fewer than eight bytes are left. *)
Receive(n) ==
    /\ server = "open" /\ Len(cumulation) < RequestBytes
    /\ n \in 1 .. Len(toServer)
    /\ cumulation' = cumulation \o SubSeq(toServer, 1, n)
    /\ toServer' = Drop(toServer, n)
    /\ UNCHANGED <<server, client, caller, exchanger, loop, toClient, answer>>

(* Mutant: the decoder looks at a request without taking it, once. *)
ServeAndKeep ==
    /\ server = "open" /\ Len(cumulation) >= RequestBytes
    /\ cumulation' \in {cumulation, Drop(cumulation, RequestBytes)}
    /\ Len(toClient) < 3 * IntBytes
    /\ toClient' = toClient \o Bytes(IntBytes, IntOf(cumulation, RequestBytes))
    /\ UNCHANGED <<server, client, caller, exchanger, loop, toServer, answer>>

(* channelRead of MyServerHandler: one request, one response. *)
Serve ==
    /\ server = "open" /\ Len(cumulation) >= RequestBytes
    /\ cumulation' = Drop(cumulation, RequestBytes)
    /\ toClient' = toClient \o Bytes(IntBytes, IntOf(cumulation, RequestBytes))
    /\ UNCHANGED <<server, client, caller, exchanger, loop, toServer, answer>>

-----------------------------------------------------------------------------
Network ==
    \/ \E n \in 1 .. Len(toServer) : Receive(n)
    \/ \E n \in 1 .. Len(toClient) : Read(n)

Next ==
    \/ StartServer \/ StartClient \/ StopServer \/ CloseChannel
    \/ \E t \in Callers :
          StartCall(t) \/ Flush(t) \/ FailWrite(t) \/ Exchange(t)
    \/ Network
    \/ Serve

Spec == Init /\ [][Next]_vars

(* Event loops and the network go on; a caller that can exchange does. *)
Fairness ==
    /\ WF_vars(Network) /\ WF_vars(Serve)
    /\ \A t \in Callers : WF_vars(Flush(t)) /\ WF_vars(Exchange(t))

-----------------------------------------------------------------------------
(* Properties *)

Wrong(c) == answer[c] \notin {NoCall, c}

(* Waiting at an exchanger that the handler no longer has. *)
Orphaned(t) ==
    /\ caller[t].phase = "waiting"
    /\ exchanger # CallOf(t) /\ loop.on # CallOf(t)

(* However the stream is cut, the server adds the two numbers of one       *)
(* request, never parts of two (MyMessageDecoder.decode).                  *)
SumsAreReal == \A i \in 1 .. Len(toClient) : toClient[i] # Garbage

(* Threads that share a client can get each other's sums or a mixture, but *)
(* never unnoticed: for a wrong answer some thread is left waiting.        *)
MixUpsHang == (\E c \in Calls : Wrong(c)) => \E t \in Callers : Orphaned(t)

(* A thread whose exchanger was replaced never returns (MyClient:51).      *)
OrphansStay == [][\A t \in Callers : Orphaned(t) => Orphaned(t)']_vars

(* addNumbers returns the sum of its own numbers.  With one caller at a    *)
(* time, even if TCP cuts the responses or either side stops.              *)
OwnSum == \A c \in Calls : ~ Wrong(c)

(* With one caller, addNumbers returns unless a side stops or TCP cuts the *)
(* response, of which then a part is left in the stream for a while.       *)
CallReturns ==
    \A t \in Callers :
        caller[t].phase = "writing" ~>
            \/ caller[t].phase = "idle"
            \/ server = "closed" \/ client = "closed"
            \/ Len(toClient) % IntBytes # 0
=============================================================================
