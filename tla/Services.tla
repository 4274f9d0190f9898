------------------------------ MODULE Services -------------------------------
(***************************************************************************)
(* The three services with fewer clients than they are made for: the todo  *)
(* service with calls that do not overlap, the calculators with all that   *)
(* their threads and networks have to get done.  They share nothing, so a  *)
(* behaviour is one of them running by itself.                             *)
(***************************************************************************)
EXTENDS Integers, Sequences, FiniteSets

CONSTANTS Running,  \* a subset of "axon", "rpc" and "netty"
          TodoClients, TodoIds, UnknownTodo, Texts, NoTodo, NoClient,
          MaxTodos, MaxEvents,
          Clients, Servers, Stray, NoRequest, MaxRpcs, MaxMakes, MaxStrays,
          Callers, NoSum, Garbage, MaxCalls

VARIABLES running,
          eventStore, todoTable, todoCount, aggregateLock, countRowLock, tx,
          ready, rpcServer, rpcClient, replies, makes, strays,
          server, client, caller, exchanger, loop, toServer, cumulation, toClient, answer

Axon  == INSTANCE TodoService WITH Clients <- TodoClients
Rpc   == INSTANCE CalculatorRpc WITH server <- rpcServer, client <- rpcClient,
                                     MaxCalls <- MaxRpcs
Netty == INSTANCE NettyCalculator WITH NoCall <- NoSum

ASSUME ServicesAssumption ==
    /\ UnknownTodo \notin TodoIds /\ NoTodo \notin Texts /\ NoClient \notin TodoClients
    /\ MaxTodos \in Nat \ {0} /\ {MaxEvents, MaxRpcs, MaxMakes, MaxStrays, MaxCalls} \subseteq Nat
    /\ Stray \notin Rpc!Calls /\ NoRequest \notin Rpc!Requests
    /\ NoSum \notin Netty!Values /\ Garbage \notin Netty!Calls

axon == <<eventStore, todoTable, todoCount, aggregateLock, countRowLock, tx>>
rpc == <<ready, rpcServer, rpcClient, replies, makes, strays>>
netty == <<server, client, caller, exchanger, loop, toServer, cumulation, toClient, answer>>
vars == <<running, axon, rpc, netty>>

Init == running \in Running /\ Axon!Init /\ Rpc!Init /\ Netty!Init

Next ==
    /\ UNCHANGED running
    /\ \/ running = "axon" /\ Axon!Next /\ UNCHANGED <<rpc, netty>>
       \/ running = "rpc" /\ Rpc!Next /\ UNCHANGED <<axon, netty>>
       \/ running = "netty" /\ Netty!Next /\ UNCHANGED <<axon, rpc>>

Spec ==
    /\ Init /\ [][Next]_vars
    /\ running = "rpc" => Rpc!Fairness
    /\ running = "netty" => Netty!Fairness

-----------------------------------------------------------------------------
(* axon-experiment: while calls do not overlap, the counter is exact and   *)
(* there are never more todos than allowed.                                *)
SerialCallsCount == Axon!CountsAgree /\ Axon!LimitHolds

(* java-rabbitmq-experiment: a request that is not purged is answered as   *)
(* long as some server runs, and close() of a server returns.              *)
RpcReturns == running = "rpc" => Rpc!CallsReturn /\ Rpc!CloseReturns

(* netty-experiment: one thread's answers are its own.                     *)
OwnSum == Netty!OwnSum

(* netty-experiment: addNumbers of one thread returns unless a side stops  *)
(* or TCP cuts the response.                                               *)
CallReturns == running = "netty" => Netty!CallReturns
=============================================================================
