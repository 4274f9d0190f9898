--------------------------- MODULE ServicesProofs ----------------------------
(***************************************************************************)
(* What the theorems about the three services say of Services, where one   *)
(* of them runs by itself: a behaviour of Services is a behaviour of each, *)
(* so the theorems of their own modules hold in it.                        *)
(***************************************************************************)
EXTENDS Services, TLAPS

AxonProofs  == INSTANCE TodoServiceProofs WITH Clients <- TodoClients
NettyProofs == INSTANCE NettyCalculatorProofs WITH NoCall <- NoSum

OneTodoClient == \A c, d \in TodoClients : c = d
OneCaller == \A t, u \in Callers : t = u

(* The constants are what the modules ask for.                             *)
LEMMA AxonAssumptions == AxonProofs!NamesAssumption /\ AxonProofs!LimitAssumption
  BY ServicesAssumption DEF AxonProofs!NamesAssumption, AxonProofs!LimitAssumption
LEMMA NettyAssumptions == NettyProofs!NettyAssumption
  BY ServicesAssumption
     DEF NettyProofs!NettyAssumption, NettyProofs!Values, NettyProofs!Calls,
         Netty!Values, Netty!Calls

(* The proofs' instances of the modules unfold to the ones that run.       *)
LEMMA AxonIsAxon == (Axon!Init <=> AxonProofs!Init) /\ (Axon!Next <=> AxonProofs!Next)
<1>1. Axon!Init <=> AxonProofs!Init
  BY DEF Axon!Init, Axon!NoCall, AxonProofs!Init, AxonProofs!NoCall
<1>2. ASSUME NEW c \in TodoClients PROVE Axon!Calls(c) <=> AxonProofs!Calls(c)
  <2>1. ASSUME NEW S PROVE Axon!Cardinality(S) = AxonProofs!Cardinality(S)
    BY DEF Axon!Cardinality, AxonProofs!Cardinality
  <2>2. ASSUME NEW id PROVE Axon!Fresh(id) <=> AxonProofs!Fresh(id)
    BY DEF Axon!Fresh, AxonProofs!Fresh
  <2>3. {id \in TodoIds : Axon!Fresh(id)} = {id \in TodoIds : AxonProofs!Fresh(id)}
    BY <2>2
  <2>4. Axon!EnoughIds <=> AxonProofs!EnoughIds
    BY <2>1, <2>3 DEF Axon!EnoughIds, AxonProofs!EnoughIds
  <2>5. ASSUME NEW cmd, NEW id, NEW text
        PROVE  Axon!Begin(c, cmd, id, text) <=> AxonProofs!Begin(c, cmd, id, text)
    BY DEF Axon!Begin, Axon!NoCall, Axon!database, Axon!locks,
         AxonProofs!Begin, AxonProofs!NoCall, AxonProofs!database, AxonProofs!locks
  <2>6. ASSUME NEW id PROVE Axon!Callable(id) <=> AxonProofs!Callable(id)
    BY DEF Axon!Callable, Axon!Committed, AxonProofs!Callable, AxonProofs!Committed
  <2> QED
    BY <2>4, <2>5, <2>6
       DEF Axon!Calls, Axon!CallCreate, Axon!CallUpdate, Axon!CallDelete,
         AxonProofs!Calls, AxonProofs!CallCreate, AxonProofs!CallUpdate,
         AxonProofs!CallDelete
<1>3. ASSUME NEW c PROVE Axon!RefuseCreate(c) <=> AxonProofs!RefuseCreate(c)
  BY DEF Axon!RefuseCreate, Axon!LimitReached, Axon!Reply, Axon!database,
         Axon!locks, AxonProofs!RefuseCreate, AxonProofs!LimitReached,
         AxonProofs!Reply, AxonProofs!database, AxonProofs!locks
<1>4. ASSUME NEW c PROVE Axon!AcceptCreate(c) <=> AxonProofs!AcceptCreate(c)
  BY DEF Axon!AcceptCreate, Axon!LimitReached, Axon!Fresh, Axon!database,
         Axon!locks, AxonProofs!AcceptCreate, AxonProofs!LimitReached,
         AxonProofs!Fresh, AxonProofs!database, AxonProofs!locks
<1>5. ASSUME NEW c PROVE Axon!LoadFails(c) <=> AxonProofs!LoadFails(c)
  BY DEF Axon!LoadFails, Axon!Replay, Axon!Committed, Axon!Reply, Axon!database,
         Axon!locks, AxonProofs!LoadFails, AxonProofs!Replay,
         AxonProofs!Committed, AxonProofs!Reply, AxonProofs!database,
         AxonProofs!locks
<1>6. ASSUME NEW c PROVE Axon!Load(c) <=> AxonProofs!Load(c)
  BY DEF Axon!Load, Axon!Replay, Axon!Committed, Axon!database, AxonProofs!Load,
         AxonProofs!Replay, AxonProofs!Committed, AxonProofs!database
<1>7. ASSUME NEW c PROVE Axon!AppendEvent(c) <=> AxonProofs!AppendEvent(c)
  BY DEF Axon!AppendEvent, Axon!KeyTaken, Axon!Committed, Axon!KeyPending,
         Axon!Uncommitted, Axon!RowMissing, Axon!Unlocked, Axon!database,
         AxonProofs!AppendEvent, AxonProofs!KeyTaken,
         AxonProofs!Committed, AxonProofs!KeyPending,
         AxonProofs!Uncommitted, AxonProofs!RowMissing,
         AxonProofs!Unlocked, AxonProofs!database
<1>8. ASSUME NEW c PROVE Axon!AppendFails(c) <=> AxonProofs!AppendFails(c)
  BY DEF Axon!AppendFails, Axon!KeyTaken, Axon!Committed, Axon!KeyPending,
         Axon!Uncommitted, Axon!RowMissing, Axon!Unlocked, Axon!Reply,
         Axon!database, AxonProofs!AppendFails, AxonProofs!KeyTaken,
         AxonProofs!Committed, AxonProofs!KeyPending,
         AxonProofs!Uncommitted, AxonProofs!RowMissing,
         AxonProofs!Unlocked, AxonProofs!Reply, AxonProofs!database
<1>9. ASSUME NEW c PROVE Axon!Flush(c) <=> AxonProofs!Flush(c)
  BY DEF Axon!Flush, Axon!ChangesCount, Axon!database, AxonProofs!Flush,
         AxonProofs!ChangesCount, AxonProofs!database
<1>10. ASSUME NEW c PROVE Axon!FlushTimesOut(c) <=> AxonProofs!FlushTimesOut(c)
  BY DEF Axon!FlushTimesOut, Axon!ChangesCount, Axon!Reply, Axon!database,
         Axon!locks, AxonProofs!FlushTimesOut, AxonProofs!ChangesCount,
         AxonProofs!Reply, AxonProofs!database, AxonProofs!locks
<1>11. ASSUME NEW c PROVE Axon!Commit(c) <=> AxonProofs!Commit(c)
  BY DEF Axon!Commit, Axon!EventOf, Axon!RowsWritten, Axon!CountWritten,
         Axon!ChangesCount, Axon!Reply, AxonProofs!Commit,
         AxonProofs!EventOf, AxonProofs!RowsWritten,
         AxonProofs!CountWritten, AxonProofs!ChangesCount,
         AxonProofs!Reply
<1>12. ASSUME NEW c PROVE Axon!Return(c) <=> AxonProofs!Return(c)
  BY DEF Axon!Return, Axon!NoCall, Axon!database, Axon!locks, AxonProofs!Return,
         AxonProofs!NoCall, AxonProofs!database, AxonProofs!locks
<1> QED
  BY <1>1, <1>2, <1>3, <1>4, <1>5, <1>6, <1>7, <1>8, <1>9, <1>10, <1>11, <1>12
     DEF Axon!Next, AxonProofs!Next, Axon!Handle, AxonProofs!Handle

LEMMA NettyIsNetty == (Netty!Init <=> NettyProofs!Init) /\ (Netty!Next <=> NettyProofs!Next)
<1>1. Netty!Init <=> NettyProofs!Init
  BY DEF Netty!Init, Netty!Free, Netty!Calls, NettyProofs!Init, NettyProofs!Free,
         NettyProofs!Calls
<1>2. Netty!Next <=> NettyProofs!Next
  BY DEF Netty!Next, Netty!StartServer, Netty!wire, Netty!StartClient,
         Netty!StopServer, Netty!CloseChannel, Netty!LoopIsFree, Netty!StartCall,
         Netty!CallOf, Netty!Flush, Netty!Bytes, Netty!RequestBytes, Netty!FailWrite,
         Netty!Exchange, Netty!Free, Netty!Network, Netty!Receive, Netty!Drop,
         Netty!Read, Netty!IntBytes, Netty!IntOf, Netty!Serve, NettyProofs!Next,
         NettyProofs!StartServer, NettyProofs!wire, NettyProofs!StartClient,
         NettyProofs!StopServer, NettyProofs!CloseChannel, NettyProofs!LoopIsFree,
         NettyProofs!StartCall, NettyProofs!CallOf, NettyProofs!Flush,
         NettyProofs!Bytes, NettyProofs!RequestBytes, NettyProofs!FailWrite,
         NettyProofs!Exchange, NettyProofs!Free, NettyProofs!Network,
         NettyProofs!Receive, NettyProofs!Drop, NettyProofs!Read,
         NettyProofs!IntBytes, NettyProofs!IntOf, NettyProofs!Serve
<1> QED
  BY <1>1, <1>2

(* A step of Services is a step of each service, or leaves it alone.       *)
LEMMA AxonRuns == [Next]_vars => [AxonProofs!Next]_(AxonProofs!vars)
  BY AxonIsAxon DEF Next, vars, axon, AxonProofs!vars
LEMMA NettyRuns == [Next]_vars => [NettyProofs!Next]_(NettyProofs!vars)
  BY NettyIsNetty DEF Next, vars, netty, NettyProofs!vars

-----------------------------------------------------------------------------
(* axon-experiment: as long as calls do not overlap, countTodos() and      *)
(* countTodos2() agree, and there are never more todos than MaxTodos, for  *)
(* any number of todos and texts.                                          *)
THEOREM SerialTodosCount == OneTodoClient => (Spec => []SerialCallsCount)
<1> SUFFICES ASSUME OneTodoClient PROVE Spec => []SerialCallsCount
  OBVIOUS
<1>0. AxonProofs!OneClient
  BY DEF OneTodoClient, AxonProofs!OneClient
<1>1. Init => AxonProofs!Init
  BY AxonIsAxon DEF Init
<1>2. [Next]_vars => [AxonProofs!Next]_(AxonProofs!vars)
  BY AxonRuns
<1>3. AxonProofs!Spec => []AxonProofs!CountsAgree /\ []AxonProofs!LimitHolds
  BY <1>0, AxonProofs!SerialCounts, AxonProofs!SerialLimit, AxonAssumptions, PTL
<1>4. AxonProofs!CountsAgree /\ AxonProofs!LimitHolds => SerialCallsCount
  <2>1. ASSUME NEW S PROVE Axon!Cardinality(S) = AxonProofs!Cardinality(S)
    BY DEF Axon!Cardinality, AxonProofs!Cardinality
  <2> QED
    BY <2>1 DEF SerialCallsCount,
         Axon!CountsAgree, Axon!CountTodos, Axon!CountTodos2, Axon!LimitHolds,
         AxonProofs!CountsAgree, AxonProofs!CountTodos, AxonProofs!CountTodos2,
         AxonProofs!LimitHolds
<1> QED
  BY <1>1, <1>2, <1>3, <1>4, PTL DEF Spec, AxonProofs!Spec

(* netty-experiment: one thread at a time is answered its own sums,        *)
(* however TCP cuts the streams and whichever side stops.                  *)
THEOREM SerialCallsOwnSum == OneCaller => (Spec => []OwnSum)
<1> SUFFICES ASSUME OneCaller PROVE Spec => []OwnSum
  OBVIOUS
<1>0. NettyProofs!OneCaller
  BY DEF OneCaller, NettyProofs!OneCaller
<1>1. Init => NettyProofs!Init
  BY NettyIsNetty DEF Init
<1>2. [Next]_vars => [NettyProofs!Next]_(NettyProofs!vars)
  BY NettyRuns
<1>3. NettyProofs!Spec => []NettyProofs!OwnSum
  BY <1>0, NettyProofs!SerialOwnSum, NettyAssumptions, PTL
<1>4. NettyProofs!OwnSum => OwnSum
  BY DEF OwnSum, Netty!OwnSum, Netty!Calls, Netty!Wrong, NettyProofs!OwnSum,
         NettyProofs!Calls, NettyProofs!Wrong
<1> QED
  BY <1>1, <1>2, <1>3, <1>4, PTL DEF Spec, NettyProofs!Spec
=============================================================================
