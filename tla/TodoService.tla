----------------------------- MODULE TodoService -----------------------------
(***************************************************************************)
(* The event-sourced todo service of axon-experiment.  Clients call        *)
(* ApiFacade; each call is one database transaction (@Transactional).  A   *)
(* command handler loads an aggregate by replaying its committed events,   *)
(* appends one event, and the event handlers update the two read models -  *)
(* the table of todos and the singleton counter - in the same transaction. *)
(* The per-aggregate lock of the repository is released when the unit of   *)
(* work ends, which is BEFORE the transaction commits.                     *)
(*                                                                         *)
(* The database is read-committed: a transaction reads what is committed,  *)
(* and an insert of a key another transaction inserted but did not commit  *)
(* waits, and fails at last on a lock timeout or on the duplicate key.     *)
(***************************************************************************)
EXTENDS Integers, Sequences, FiniteSets

CONSTANTS Clients, TodoIds, UnknownTodo, Texts, NoTodo,
          NoClient,     \* a lock nobody holds
          MaxTodos,     \* 3 in TodoCommandHandler
          MaxEvents     \* bound: no call is made on a log this long

ASSUME NamesAssumption ==
    /\ UnknownTodo \notin TodoIds
    /\ NoTodo \notin Texts
    /\ NoClient \notin Clients
ASSUME LimitAssumption == MaxTodos \in Nat \ {0} /\ MaxEvents \in Nat

VARIABLES
    eventStore,     \* committed events of each aggregate, in sequence order
    todoTable,      \* committed rows of TodoEntity, id -> text
    todoCount,      \* committed count of the singleton TodoCountEntity
    aggregateLock,  \* the in-memory lock of EventSourcingRepository, per id
    countRowLock,   \* the database's write lock on the singleton row
    tx              \* the call, and the transaction, of each client

vars == <<eventStore, todoTable, todoCount, aggregateLock, countRowLock, tx>>

Event == [type : {"created", "updated", "deleted"}, text : Texts \cup {NoTodo}]
Commands == {"create", "update", "delete"}
Phases == {"idle", "called", "loaded", "appended", "flushed", "replied"}

NoCall == [phase |-> "idle", cmd |-> "none", id |-> UnknownTodo,
           text |-> NoTodo, version |-> 0, count |-> 0, result |-> "ok"]

Transaction == [phase : Phases, cmd : Commands \cup {"none"},
                id : TodoIds \cup {UnknownTodo}, text : Texts \cup {NoTodo},
                version : Nat, count : Int,
                result : {"ok", "limit", "notFound", "error"}]

TypeOK ==
    /\ eventStore \in [TodoIds -> Seq(Event)]
    /\ todoTable \in [TodoIds -> Texts \cup {NoTodo}]
    /\ todoCount \in Int
    /\ aggregateLock \in [TodoIds -> Clients \cup {NoClient}]
    /\ countRowLock \in Clients \cup {NoClient}
    /\ tx \in [Clients -> Transaction]

-----------------------------------------------------------------------------
(* State formulas *)

Committed(id) == IF id \in TodoIds THEN Len(eventStore[id]) ELSE 0

(* What replaying the log of an aggregate yields: the text its last event *)
(* carries, and nothing for an aggregate that is marked deleted.          *)
Replay(id) ==
    IF Committed(id) = 0 THEN NoTodo ELSE eventStore[id][Committed(id)].text

(* c has inserted an event, read-model rows aside, and has not committed. *)
Uncommitted(c) == tx[c].phase \in {"appended", "flushed"}

(* Mutant: the id is derived from the rows that are there. *)
FreshAmongRows(id) ==
    /\ todoTable[id] = NoTodo
    /\ \A c \in Clients : tx[c].id # id

(* UUID.randomUUID(): an id no log and no running transaction has. *)
Fresh(id) ==
    /\ eventStore[id] = <<>>
    /\ \A c \in Clients : tx[c].id # id

EventOf(t) ==
    CASE t.cmd = "create" -> [type |-> "created", text |-> t.text]
      [] t.cmd = "update" -> [type |-> "updated", text |-> t.text]
      [] t.cmd = "delete" -> [type |-> "deleted", text |-> NoTodo]

CountTodos == Cardinality({id \in TodoIds : todoTable[id] # NoTodo})
CountTodos2 == todoCount

-----------------------------------------------------------------------------
(* Init: PostConstruct has stored the singleton with count 0. *)

Init ==
    /\ eventStore = [id \in TodoIds |-> <<>>]
    /\ todoTable = [id \in TodoIds |-> NoTodo]
    /\ todoCount = 0
    /\ aggregateLock = [id \in TodoIds |-> NoClient]
    /\ countRowLock = NoClient
    /\ tx = [c \in Clients |-> NoCall]

database == <<eventStore, todoTable, todoCount>>
locks == <<aggregateLock, countRowLock>>

Begin(c, cmd, id, text) ==
    /\ tx[c].phase = "idle"
    /\ tx' = [tx EXCEPT ![c] = [NoCall EXCEPT !.phase = "called", !.cmd = cmd,
                                              !.id = id, !.text = text]]
    /\ UNCHANGED <<database, locks>>

Reply(c, result) ==
    tx' = [tx EXCEPT ![c] =
              [phase |-> "replied", cmd |-> tx[c].cmd, id |-> tx[c].id,
               text |-> tx[c].text, version |-> 0, count |-> 0, result |-> result]]

(* Bound: TodoIds is finite, UUIDs are not. *)
EnoughIds ==
    Cardinality({d \in Clients : tx[d].phase = "called" /\ tx[d].cmd = "create"})
        < Cardinality({id \in TodoIds : Fresh(id)})

CallCreate(c, text) ==
    /\ EnoughIds
    /\ Begin(c, "create", UnknownTodo, text)

(* Clients know an id only after its creation was committed. *)
Callable(id) == id = UnknownTodo \/ Committed(id) \in 1 .. MaxEvents - 1

CallUpdate(c, id, text) == Callable(id) /\ Begin(c, "update", id, text)
CallDelete(c, id) == Callable(id) /\ Begin(c, "delete", id, NoTodo)

LimitReached == todoCount = MaxTodos

(* TodoCommandHandler.handle(CreateTodoCommand).  The limit is checked     *)
(* against the committed counter; the entity read here stays in the        *)
(* persistence context, so the event handler's ++count uses this value.    *)
RefuseCreate(c) ==
    /\ tx[c].phase = "called" /\ tx[c].cmd = "create"
    /\ LimitReached
    /\ Reply(c, "limit")
    /\ UNCHANGED <<database, locks>>

AcceptCreate(c) ==
    /\ tx[c].phase = "called" /\ tx[c].cmd = "create"
    /\ ~LimitReached
    /\ \E id \in TodoIds :
           /\ Fresh(id)
           /\ tx' = [tx EXCEPT ![c] = [@ EXCEPT !.phase = "appended", !.id = id,
                                               !.count = todoCount]]
    /\ UNCHANGED <<database, locks>>

(* repository.load: take the aggregate's lock, replay its committed events. *)
LoadFails(c) ==
    /\ tx[c].phase = "called" /\ tx[c].cmd \in {"update", "delete"}
    /\ tx[c].id \in TodoIds => aggregateLock[tx[c].id] = NoClient
    /\ Replay(tx[c].id) = NoTodo
    /\ Reply(c, "notFound")
    /\ UNCHANGED <<database, locks>>

Load(c) ==
    LET id == tx[c].id IN
    /\ tx[c].phase = "called" /\ tx[c].cmd \in {"update", "delete"}
    /\ id \in TodoIds
    /\ aggregateLock[id] = NoClient
    /\ Replay(id) # NoTodo
    /\ aggregateLock' = [aggregateLock EXCEPT ![id] = c]
    /\ tx' = [tx EXCEPT ![c] = [@ EXCEPT !.phase = "loaded",
                                        !.version = Committed(id)]]
    /\ UNCHANGED <<database, countRowLock>>

Unlocked(id) == [aggregateLock EXCEPT ![id] = NoClient]

(* The end of the unit of work: insert the event under the next sequence   *)
(* number, run the event handlers, release the aggregate's lock.           *)
KeyTaken(c) == Committed(tx[c].id) # tx[c].version
(* Mutant: the key of DomainEventEntry is unique among committed rows only. *)
NoKeyPending(c) == FALSE
KeyPending(c) ==
    \E d \in Clients \ {c} : Uncommitted(d) /\ tx[d].id = tx[c].id
RowMissing(c) == todoTable[tx[c].id] = NoTodo

AppendEvent(c) ==
    /\ tx[c].phase = "loaded"
    /\ ~KeyTaken(c) /\ ~KeyPending(c) /\ ~RowMissing(c)
    /\ aggregateLock' = Unlocked(tx[c].id)
    /\ tx' = [tx EXCEPT ![c] = [@ EXCEPT !.phase = "appended",
              !.count = IF tx[c].cmd = "delete" THEN todoCount ELSE 0]]
    /\ UNCHANGED <<database, countRowLock>>

(* Mutant: the failed unit of work forgets its lock. *)
AppendFailsLocked(c) ==
    /\ tx[c].phase = "loaded"
    /\ KeyTaken(c) \/ KeyPending(c) \/ RowMissing(c)
    /\ Reply(c, "error")
    /\ UNCHANGED <<database, locks>>

(* Duplicate key, lock timeout while the key is pending, or an event       *)
(* handler that finds no row: a runtime exception rolls everything back.   *)
AppendFails(c) ==
    /\ tx[c].phase = "loaded"
    /\ KeyTaken(c) \/ KeyPending(c) \/ RowMissing(c)
    /\ aggregateLock' = Unlocked(tx[c].id)
    /\ Reply(c, "error")
    /\ UNCHANGED <<database, countRowLock>>

(* Commit starts with the flush of the persistence context, which writes   *)
(* the counter's row if the event handlers changed it.                     *)
ChangesCount(c) == tx[c].cmd \in {"create", "delete"}

Flush(c) ==
    /\ tx[c].phase = "appended"
    /\ ChangesCount(c) => countRowLock = NoClient
    /\ countRowLock' = IF ChangesCount(c) THEN c ELSE countRowLock
    /\ tx' = [tx EXCEPT ![c].phase = "flushed"]
    /\ UNCHANGED <<database, aggregateLock>>

FlushTimesOut(c) ==
    /\ tx[c].phase = "appended"
    /\ ChangesCount(c) /\ countRowLock # NoClient
    /\ Reply(c, "error")
    /\ UNCHANGED <<database, locks>>

(* Mutants: SET count = count + 1, and a counter that ignores deletions. *)
CountIncremented(c) ==
    CASE tx[c].cmd = "create" -> todoCount + 1
      [] tx[c].cmd = "delete" -> todoCount - 1
      [] OTHER -> todoCount
CountOnlyCreated(c) ==
    IF tx[c].cmd = "create" THEN tx[c].count + 1 ELSE todoCount

(* The statement was UPDATE ... SET count = <the value in the entity>:     *)
(* it overwrites whatever was committed since the entity was read.         *)
CountWritten(c) ==
    CASE tx[c].cmd = "create" -> tx[c].count + 1
      [] tx[c].cmd = "delete" -> tx[c].count - 1
      [] OTHER -> todoCount

(* Mutant: TodoEntity is not updated on TodoUpdatedEvent. *)
RowsIgnoringUpdates(c) ==
    IF tx[c].cmd = "update" THEN todoTable
    ELSE [todoTable EXCEPT ![tx[c].id] = EventOf(tx[c]).text]
(* TodoEntityUpdatingEventHandler: save a new row, save its text, delete it. *)
RowsWritten(c) == [todoTable EXCEPT ![tx[c].id] = EventOf(tx[c]).text]

Commit(c) ==
    /\ tx[c].phase = "flushed"
    /\ eventStore' = [eventStore EXCEPT ![tx[c].id] = Append(@, EventOf(tx[c]))]
    /\ todoTable' = RowsWritten(c)
    /\ todoCount' = CountWritten(c)
    /\ countRowLock' = IF ChangesCount(c) THEN NoClient ELSE countRowLock
    /\ Reply(c, "ok")
    /\ UNCHANGED aggregateLock

Return(c) ==
    /\ tx[c].phase = "replied"
    /\ tx' = [tx EXCEPT ![c] = NoCall]
    /\ UNCHANGED <<database, locks>>

Calls(c) ==
    \/ \E text \in Texts : CallCreate(c, text)
    \/ \E id \in TodoIds \cup {UnknownTodo} :
           \/ \E text \in Texts : CallUpdate(c, id, text)
           \/ CallDelete(c, id)

Handle(c) ==
    \/ RefuseCreate(c) \/ AcceptCreate(c) \/ LoadFails(c) \/ Load(c)
    \/ AppendEvent(c) \/ AppendFails(c)
    \/ Flush(c) \/ FlushTimesOut(c) \/ Commit(c) \/ Return(c)

Next == \E c \in Clients : Calls(c) \/ Handle(c)

Spec == Init /\ [][Next]_vars

(* A thread that can run its call's next step runs it.  A thread waiting   *)
(* for an aggregate's lock gets it if it is released again and again.      *)
LiveSpec ==
    Spec /\ \A c \in Clients : WF_vars(Handle(c)) /\ SF_vars(Load(c) \/ LoadFails(c))

-----------------------------------------------------------------------------
(* Safety *)

(* Every log of DomainEventEntry tells a possible life of one todo: it     *)
(* starts with the only creation and nothing follows a deletion - the pair *)
(* of the lock and the unique (aggregate, sequence number) key at work.    *)
EventLogWellFormed ==
    \A id \in TodoIds : \A i \in 1 .. Committed(id) :
        /\ (eventStore[id][i].type = "created") <=> (i = 1)
        /\ (eventStore[id][i].type = "deleted") => (i = Committed(id))

(* The query side never diverges from the command side: the row of each    *)
(* todo is what replaying its log gives (TodoEntityUpdatingEventHandler).  *)
ReadModelMatchesEvents ==
    \A id \in TodoIds : todoTable[id] = Replay(id)

(* The lock is gone once the unit of work is over, and yet at most one     *)
(* transaction has an uncommitted event on a todo, and that event fits the *)
(* committed log and row: no commit can fail or overwrite.                 *)
OneUncommittedPerTodo ==
    \A c \in Clients : Uncommitted(c) =>
        /\ \A d \in Clients \ {c} : Uncommitted(d) => tx[d].id # tx[c].id
        /\ Committed(tx[c].id) = tx[c].version
        /\ tx[c].cmd # "create" => todoTable[tx[c].id] # NoTodo

(* The check count == 3 is for equality, not for >=.  It is enough as long *)
(* as no interleaving of the lost updates takes the counter past MaxTodos. *)
CountWithinLimit == todoCount <= MaxTodos

(* AppTest.demo: countTodos() and countTodos2() agree. *)
CountsAgree == CountTodos = CountTodos2

(* AppTest.createShouldThrowIfTodoCountIsExceeded: there are never more    *)
(* than MaxTodos todos.                                                    *)
LimitHolds == CountTodos <= MaxTodos

-----------------------------------------------------------------------------
(* Action properties and liveness *)

(* What is wrong with the counter: the todos it does not count. *)
Drift == CountTodos - CountTodos2

(* The changes of the counter that were committed after c had read it. *)
Overwritten(c) == IF ChangesCount(c) THEN todoCount - tx[c].count ELSE 0

Commits(c) == tx[c].phase = "flushed" /\ tx'[c].phase = "replied"

(* The two counts, which AppTest.demo expects to agree, drift apart by     *)
(* nothing but the changes that a commit overwrites: no interleaving of    *)
(* creations and deletions counts a todo twice, or counts one deletion of  *)
(* two transactions twice, whatever the lock and the keys let through.     *)
DriftsByOverwriting ==
    [][Drift' # Drift =>
          \E c \in Clients : Commits(c) /\ Drift' = Drift + Overwritten(c)]_vars

(* No thread is stuck behind the locks: every call returns. *)
EveryCallReturns ==
    \A c \in Clients : tx[c].phase # "idle" ~> tx[c].phase = "idle"

-----------------------------------------------------------------------------
(* The service implements TodoList: each call is atomic at its commit, or  *)
(* at the load or the check that made it fail.                             *)

AbstractSession(t) ==
    [phase |-> CASE t.phase = "idle" -> "idle"
                 [] t.phase = "replied" -> "done"
                 [] OTHER -> "pending",
     cmd |-> t.cmd,
     id |-> IF t.cmd = "create" /\ (t.phase # "replied" \/ t.result # "ok")
            THEN UnknownTodo ELSE t.id,
     text |-> t.text, result |-> t.result]

TL == INSTANCE TodoList WITH
        todos <- todoTable,
        used <- {id \in TodoIds : eventStore[id] # <<>>},
        session <- [c \in Clients |-> AbstractSession(tx[c])]

(* Every answer is one that an atomic todo list could give at some instant *)
(* of the call, whatever the other transactions do meanwhile.              *)
ImplementsTodoList == TL!Spec
=============================================================================
