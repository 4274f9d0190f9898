------------------------- MODULE TodoServiceProofs -------------------------
(***************************************************************************)
(* Theorems about TodoService for any number of clients, todos and texts.  *)
(* The invariants of the service are not inductive by themselves: they     *)
(* need what each transaction knows about the log it is going to extend,   *)
(* which TxOK says, and that only a deletion carries no text.              *)
(***************************************************************************)
EXTENDS TodoService, FiniteSetTheorems, TLAPS

DeletionsHaveNoText ==
    \A id \in TodoIds : \A i \in 1 .. Len(eventStore[id]) :
        (eventStore[id][i].type = "deleted") <=> (eventStore[id][i].text = NoTodo)

(* What the transaction of c knows in each phase of its call. *)
TxOK(c) ==
    LET t == tx[c] IN
    /\ t.phase # "idle" =>
         /\ t.cmd \in Commands
         /\ t.cmd # "delete" => t.text \in Texts
    /\ t.phase = "called" => t.version = 0
    /\ t.phase = "loaded" =>
         /\ t.cmd # "create" /\ t.id \in TodoIds
         /\ t.version \in 1 .. Len(eventStore[t.id])
    /\ Uncommitted(c) =>
         /\ t.id \in TodoIds
         /\ t.version = Len(eventStore[t.id])
         /\ t.cmd = "create" => t.version = 0 /\ t.count < MaxTodos
         /\ t.cmd # "create" => todoTable[t.id] # NoTodo
         /\ t.cmd = "delete" => t.count <= MaxTodos
         /\ \A d \in Clients \ {c} : Uncommitted(d) => tx[d].id # t.id

IInv ==
    /\ TypeOK
    /\ \A c \in Clients : TxOK(c)
    /\ DeletionsHaveNoText
    /\ EventLogWellFormed
    /\ ReadModelMatchesEvents
    /\ CountWithinLimit

-----------------------------------------------------------------------------
(* Type correctness *)

(* Every command the service can receive, and every record it keeps of a   *)
(* call, has the type its fields declare in the initial state.             *)
LEMMA NoCallType == NoCall \in Transaction
  BY DEF NoCall, Transaction, Phases, Commands

(* The event a call appends has the type of the store's events. *)
LEMMA EventOfType ==
  ASSUME NEW t \in Transaction, t.cmd \in Commands
  PROVE  EventOf(t) \in Event
  BY DEF EventOf, Event, Transaction, Commands

(* A reply keeps the record of a call well typed. *)
LEMMA ReplyType ==
  ASSUME TypeOK, NEW c \in Clients,
         NEW result \in {"ok", "limit", "notFound", "error"},
         Reply(c, result)
  PROVE  tx' \in [Clients -> Transaction]
<1> DEFINE t == [phase |-> "replied", cmd |-> tx[c].cmd, id |-> tx[c].id,
                 text |-> tx[c].text, version |-> 0, count |-> 0,
                 result |-> result]
<1>1. tx[c] \in Transaction /\ tx \in [Clients -> Transaction]
  BY DEF TypeOK
<1>2. t \in Transaction
  BY <1>1 DEF Transaction, Phases
<1>3. tx' = [tx EXCEPT ![c] = t]
  BY DEF Reply
<1> HIDE DEF t
<1> QED BY <1>1, <1>2, <1>3

(* Writing one field of a call with a value of its type keeps its type. *)
LEMMA FieldTypes ==
  ASSUME NEW t \in Transaction
  PROVE  /\ \A p \in Phases : [t EXCEPT !.phase = p] \in Transaction
         /\ \A id \in TodoIds : [t EXCEPT !.id = id] \in Transaction
         /\ \A n \in Nat : [t EXCEPT !.version = n] \in Transaction
         /\ \A n \in Int : [t EXCEPT !.count = n] \in Transaction
  BY DEF Transaction

(* TypeOK alone is not inductive: that a committing transaction has a      *)
(* command and a todo of its own comes from TxOK.                          *)
LEMMA TypeStep ==
  ASSUME TypeOK, \A c \in Clients : TxOK(c), [Next]_vars
  PROVE  TypeOK'
<1> USE NamesAssumption, LimitAssumption
<1>1. CASE UNCHANGED vars
  BY <1>1 DEF vars, TypeOK
<1>2. ASSUME NEW c \in Clients, Calls(c)
      PROVE  TypeOK'
  <2>1. ASSUME NEW cmd \in Commands, NEW id \in TodoIds \cup {UnknownTodo},
               NEW text \in Texts \cup {NoTodo}, Begin(c, cmd, id, text)
        PROVE  TypeOK'
    BY <2>1, NoCallType
       DEF Begin, TypeOK, Transaction, Phases, database, locks, NoCall
  <2>2. PICK cmd \in Commands, id \in TodoIds \cup {UnknownTodo},
             text \in Texts \cup {NoTodo} : Begin(c, cmd, id, text)
    BY <1>2, Zenon DEF Calls, CallCreate, CallUpdate, CallDelete, Commands
  <2> QED BY <2>1, <2>2
<1>3. ASSUME NEW c \in Clients, Handle(c)
      PROVE  TypeOK'
  <2>1. CASE RefuseCreate(c)
    <3>1. tx' \in [Clients -> Transaction]
      BY <2>1, ReplyType DEF RefuseCreate
    <3> QED BY <2>1, <3>1 DEF RefuseCreate, TypeOK, database, locks
  <2>2. CASE AcceptCreate(c)
    <3>1. PICK id \in TodoIds :
             tx' = [tx EXCEPT ![c] = [@ EXCEPT !.phase = "appended", !.id = id,
                                               !.count = todoCount]]
      BY <2>2 DEF AcceptCreate
    <3> DEFINE t1 == [tx[c] EXCEPT !.phase = "appended"]
               t2 == [t1 EXCEPT !.id = id]
               t3 == [t2 EXCEPT !.count = todoCount]
    <3>2. t1 \in Transaction
      BY FieldTypes DEF TypeOK, Phases
    <3> HIDE DEF t1
    <3>3. t2 \in Transaction
      BY <3>2, FieldTypes
    <3> HIDE DEF t2
    <3>4. t3 \in Transaction
      BY <3>3, FieldTypes DEF TypeOK
    <3>5. tx' = [tx EXCEPT ![c] = t3]
      BY <3>1 DEF t1, t2
    <3> HIDE DEF t3
    <3> QED BY <2>2, <3>4, <3>5 DEF AcceptCreate, TypeOK, database, locks
  <2>3. CASE LoadFails(c)
    <3>1. tx' \in [Clients -> Transaction]
      BY <2>3, ReplyType DEF LoadFails
    <3> QED BY <2>3, <3>1 DEF LoadFails, TypeOK, database, locks
  <2>4. CASE Load(c)
    <3> DEFINE t1 == [tx[c] EXCEPT !.phase = "loaded"]
               t2 == [t1 EXCEPT !.version = Committed(tx[c].id)]
    <3>1. t1 \in Transaction
      BY FieldTypes DEF TypeOK, Phases
    <3> HIDE DEF t1
    <3>2. t2 \in Transaction
      BY <2>4, <3>1, FieldTypes DEF TypeOK, Load, Committed
    <3>3. tx' = [tx EXCEPT ![c] = t2]
      BY <2>4 DEF Load, t1
    <3> HIDE DEF t2
    <3> QED BY <2>4, <3>2, <3>3 DEF Load, TypeOK, database
  <2>5. CASE AppendEvent(c)
    <3> DEFINE n == IF tx[c].cmd = "delete" THEN todoCount ELSE 0
               t1 == [tx[c] EXCEPT !.phase = "appended"]
               t2 == [t1 EXCEPT !.count = n]
    <3>1. t1 \in Transaction
      BY FieldTypes DEF TypeOK, Phases
    <3>2. n \in Int
      BY DEF TypeOK
    <3>3. tx' = [tx EXCEPT ![c] = t2]
      BY <2>5 DEF AppendEvent
    <3> HIDE DEF t1, n
    <3>4. t2 \in Transaction
      BY <3>1, <3>2, FieldTypes
    <3> HIDE DEF t2
    <3> QED BY <2>5, <3>3, <3>4 DEF AppendEvent, TypeOK, database, Unlocked
  <2>6. CASE AppendFails(c)
    <3>1. tx' \in [Clients -> Transaction]
      BY <2>6, ReplyType DEF AppendFails
    <3> QED BY <2>6, <3>1 DEF AppendFails, TypeOK, database, Unlocked
  <2>7. CASE Flush(c)
    <3>1. [tx[c] EXCEPT !.phase = "flushed"] \in Transaction
      BY FieldTypes DEF TypeOK, Phases
    <3> QED BY <2>7, <3>1 DEF Flush, TypeOK, database
  <2>8. CASE FlushTimesOut(c)
    <3>1. tx' \in [Clients -> Transaction]
      BY <2>8, ReplyType DEF FlushTimesOut
    <3> QED BY <2>8, <3>1 DEF FlushTimesOut, TypeOK, database, locks
  <2>9. CASE Commit(c)
    <3>1. /\ tx[c].id \in TodoIds /\ tx[c].cmd \in Commands
          /\ tx[c] \in Transaction
      BY <2>9 DEF Commit, TxOK, Uncommitted, TypeOK
    <3>2. EventOf(tx[c]) \in Event
      BY <3>1, EventOfType
    <3>3. eventStore' \in [TodoIds -> Seq(Event)]
      BY <2>9, <3>1, <3>2 DEF Commit, TypeOK
    <3>4. todoTable' \in [TodoIds -> Texts \cup {NoTodo}]
      BY <2>9, <3>1, <3>2 DEF Commit, TypeOK, RowsWritten, Event
    <3>5. todoCount' \in Int
      BY <2>9, <3>1 DEF Commit, TypeOK, CountWritten, Transaction
    <3>6. tx' \in [Clients -> Transaction]
      BY <2>9, ReplyType DEF Commit
    <3> QED BY <2>9, <3>3, <3>4, <3>5, <3>6 DEF Commit, TypeOK
  <2>10. CASE Return(c)
    BY <2>10, NoCallType DEF Return, TypeOK, database, locks
  <2> QED
    BY <1>3, <2>1, <2>2, <2>3, <2>4, <2>5, <2>6, <2>7, <2>8, <2>9, <2>10
       DEF Handle
<1> QED BY <1>1, <1>2, <1>3 DEF Next

-----------------------------------------------------------------------------
(* The inductive invariant *)

(* A step of c that leaves the database alone and is consistent with what  *)
(* c knows preserves the invariant: the others know the same as before.    *)
LEMMA QuietStep ==
  ASSUME IInv, TypeOK', UNCHANGED database, NEW c \in Clients,
         \A d \in Clients \ {c} : tx'[d] = tx[d],
         TxOK(c)',
         Uncommitted(c)' => \A d \in Clients \ {c} :
                               Uncommitted(d) => tx[d].id # tx'[c].id
  PROVE  IInv'
<1>1. DeletionsHaveNoText' /\ EventLogWellFormed' /\ ReadModelMatchesEvents'
      /\ CountWithinLimit'
  BY DEF IInv, database, DeletionsHaveNoText, EventLogWellFormed,
         ReadModelMatchesEvents, CountWithinLimit, Committed, Replay
<1>2. ASSUME NEW d \in Clients \ {c}
      PROVE  TxOK(d)'
  <2>1. tx'[d] = tx[d] /\ TxOK(d)
    BY DEF IInv
  <2>2. ASSUME NEW e \in Clients \ {d}, Uncommitted(d)', Uncommitted(e)'
        PROVE  tx'[e].id # tx'[d].id
    BY <2>1, <2>2 DEF TxOK, Uncommitted
  <2> QED BY <2>1, <2>2 DEF TxOK, Uncommitted, database
<1> QED BY <1>1, <1>2 DEF IInv

(* A transaction that replies, whatever the answer, owns nothing more. *)
LEMMA ReplyTx ==
  ASSUME IInv, NEW c \in Clients, tx[c].phase # "idle",
         NEW result \in {"ok", "limit", "notFound", "error"},
         Reply(c, result)
  PROVE  /\ TxOK(c)' /\ ~Uncommitted(c)'
         /\ \A d \in Clients \ {c} : tx'[d] = tx[d]
<1> DEFINE t == [phase |-> "replied", cmd |-> tx[c].cmd, id |-> tx[c].id,
                 text |-> tx[c].text, version |-> 0, count |-> 0,
                 result |-> result]
<1>1. tx[c] \in Transaction /\ tx \in [Clients -> Transaction] /\ TxOK(c)
  BY DEF IInv, TypeOK
<1>2. t.phase = "replied" /\ t.cmd = tx[c].cmd /\ t.text = tx[c].text
  BY <1>1 DEF Transaction
<1>3. tx' = [tx EXCEPT ![c] = t]
  BY DEF Reply
<1> HIDE DEF t
<1> QED BY <1>1, <1>2, <1>3 DEF TxOK, Uncommitted

(* Calls and handler steps other than Commit. *)
LEMMA QuietSteps ==
  ASSUME IInv, TypeOK', NEW c \in Clients,
         Calls(c) \/ Handle(c), ~Commit(c)
  PROVE  IInv'
<1> USE NamesAssumption, LimitAssumption
<1>0. tx[c] \in Transaction /\ TxOK(c) /\ TypeOK
  BY DEF IInv, TypeOK
<1>1. CASE Calls(c)
  <2>1. PICK cmd \in Commands, id \in TodoIds \cup {UnknownTodo},
             text \in Texts \cup {NoTodo} :
                Begin(c, cmd, id, text) /\ (cmd # "delete" => text \in Texts)
    BY <1>1, Zenon DEF Calls, CallCreate, CallUpdate, CallDelete, Commands
  <2>2. /\ TxOK(c)' /\ ~Uncommitted(c)'
        /\ \A d \in Clients \ {c} : tx'[d] = tx[d]
    BY <1>0, <2>1 DEF Begin, TypeOK, TxOK, Uncommitted, NoCall
  <2> QED BY <2>1, <2>2, QuietStep DEF Begin, database
<1>2. CASE RefuseCreate(c)
  BY <1>2, ReplyTx, QuietStep DEF RefuseCreate, database
<1>3. CASE LoadFails(c)
  BY <1>3, ReplyTx, QuietStep DEF LoadFails, database
<1>4. CASE AppendFails(c)
  BY <1>4, ReplyTx, QuietStep DEF AppendFails, database
<1>5. CASE FlushTimesOut(c)
  BY <1>5, ReplyTx, QuietStep DEF FlushTimesOut, database
<1>6. CASE Return(c)
  <2>1. /\ TxOK(c)' /\ ~Uncommitted(c)'
        /\ \A d \in Clients \ {c} : tx'[d] = tx[d]
    BY <1>0, <1>6 DEF Return, TypeOK, TxOK, Uncommitted, NoCall
  <2> QED BY <1>6, <2>1, QuietStep DEF Return, database
<1>7. CASE AcceptCreate(c)
  <2>1. PICK id \in TodoIds :
           /\ Fresh(id)
           /\ tx' = [tx EXCEPT ![c] = [@ EXCEPT !.phase = "appended", !.id = id,
                                               !.count = todoCount]]
    BY <1>7 DEF AcceptCreate
  <2>2. /\ tx'[c].phase = "appended" /\ tx'[c].id = id
        /\ tx'[c].count = todoCount /\ tx'[c].cmd = "create"
        /\ tx'[c].text = tx[c].text /\ tx'[c].version = tx[c].version
        /\ \A d \in Clients \ {c} : tx'[d] = tx[d]
    BY <1>0, <1>7, <2>1 DEF TypeOK, AcceptCreate, Transaction
  <2>3. todoCount < MaxTodos /\ eventStore[id] = <<>>
        /\ \A d \in Clients \ {c} : tx[d].id # id
    BY <1>7, <2>1 DEF AcceptCreate, LimitReached, Fresh, IInv, CountWithinLimit, TypeOK
  <2>4. TxOK(c)'
    BY <1>0, <1>7, <2>2, <2>3 DEF AcceptCreate, TxOK, Uncommitted, database
  <2> QED BY <1>7, <2>2, <2>3, <2>4, QuietStep DEF AcceptCreate, database
<1>8. CASE Load(c)
  <2>1. /\ tx'[c].phase = "loaded" /\ tx'[c].version = Len(eventStore[tx[c].id])
        /\ tx'[c].id = tx[c].id /\ tx'[c].cmd = tx[c].cmd
        /\ tx'[c].text = tx[c].text
        /\ \A d \in Clients \ {c} : tx'[d] = tx[d]
    BY <1>0, <1>8 DEF Load, TypeOK, Transaction, Committed
  <2>2. TxOK(c)' /\ ~Uncommitted(c)'
    BY <1>0, <1>8, <2>1 DEF Load, TxOK, Uncommitted, database, Replay, Committed, TypeOK
  <2> QED BY <1>8, <2>1, <2>2, QuietStep DEF Load, database
<1>9. CASE AppendEvent(c)
  <2>1. /\ tx'[c].phase = "appended" /\ tx'[c].version = tx[c].version
        /\ tx'[c].id = tx[c].id /\ tx'[c].cmd = tx[c].cmd
        /\ tx'[c].text = tx[c].text
        /\ tx'[c].cmd = "delete" => tx'[c].count = todoCount
        /\ \A d \in Clients \ {c} : tx'[d] = tx[d]
    BY <1>0, <1>9 DEF AppendEvent, TypeOK, Transaction
  <2>2. \A d \in Clients \ {c} : Uncommitted(d) => tx[d].id # tx[c].id
    BY <1>9 DEF AppendEvent, KeyPending
  <2>3. TxOK(c)'
    BY <1>0, <1>9, <2>1, <2>2
       DEF AppendEvent, TxOK, Uncommitted, database, KeyTaken, RowMissing,
           Committed, IInv, CountWithinLimit
  <2> QED BY <1>9, <2>1, <2>2, <2>3, QuietStep DEF AppendEvent, database
<1>10. CASE Flush(c)
  <2>1. /\ tx'[c].phase = "flushed" /\ tx'[c].version = tx[c].version
        /\ tx'[c].id = tx[c].id /\ tx'[c].cmd = tx[c].cmd
        /\ tx'[c].text = tx[c].text /\ tx'[c].count = tx[c].count
        /\ \A d \in Clients \ {c} : tx'[d] = tx[d]
    BY <1>0, <1>10 DEF Flush, TypeOK, Transaction
  <2>2. TxOK(c)'
    BY <1>0, <1>10, <2>1 DEF Flush, TxOK, Uncommitted, database
  <2>3. \A d \in Clients \ {c} : Uncommitted(d) => tx[d].id # tx[c].id
    BY <1>0, <1>10 DEF Flush, TxOK, Uncommitted
  <2> QED BY <1>10, <2>1, <2>2, <2>3, QuietStep DEF Flush, database
<1> QED
  BY <1>1, <1>2, <1>3, <1>4, <1>5, <1>6, <1>7, <1>8, <1>9, <1>10 DEF Handle

(* The commit of c: its event fits the log, so the log stays well formed,  *)
(* and no other transaction knows anything of c's todo that it changes.    *)
LEMMA CommitStep ==
  ASSUME IInv, TypeOK', NEW c \in Clients, Commit(c)
  PROVE  IInv'
<1> USE NamesAssumption, LimitAssumption
<1> DEFINE t == tx[c]
           e == EventOf(t)
           log == eventStore[t.id]
<1>1. /\ TypeOK /\ TxOK(c) /\ Uncommitted(c) /\ t.id \in TodoIds
      /\ t \in Transaction /\ t.cmd \in Commands /\ t.version = Len(log)
      /\ log \in Seq(Event)
  BY DEF IInv, TypeOK, TxOK, Uncommitted, Commit
<1>2. /\ e \in Event
      /\ (e.type = "created") <=> (t.cmd = "create")
      /\ (e.type = "deleted") <=> (t.cmd = "delete")
      /\ (e.type = "deleted") <=> (e.text = NoTodo)
  BY <1>1, EventOfType DEF EventOf, TxOK, Uncommitted, Commands, Commit
<1>3. /\ eventStore'[t.id] = Append(log, e)
      /\ \A id \in TodoIds \ {t.id} : eventStore'[id] = eventStore[id]
      /\ todoTable'[t.id] = e.text
      /\ \A id \in TodoIds \ {t.id} : todoTable'[id] = todoTable[id]
  BY <1>1 DEF Commit, RowsWritten, TypeOK
<1>4. /\ Len(eventStore'[t.id]) = Len(log) + 1
      /\ \A i \in 1 .. Len(log) : eventStore'[t.id][i] = log[i]
      /\ eventStore'[t.id][Len(log) + 1] = e
      /\ Len(log) \in Nat
  BY <1>1, <1>2, <1>3
<1> HIDE DEF e, log
<1>5. DeletionsHaveNoText'
  <2> SUFFICES ASSUME NEW id \in TodoIds, NEW i \in 1 .. Len(eventStore'[id])
               PROVE  (eventStore'[id][i].type = "deleted")
                        <=> (eventStore'[id][i].text = NoTodo)
    BY DEF DeletionsHaveNoText
  <2>1. CASE id = t.id /\ i = Len(log) + 1
    BY <1>2, <1>4, <2>1
  <2>2. CASE id = t.id /\ i # Len(log) + 1
    <3>1. i \in 1 .. Len(log) /\ eventStore'[id][i] = log[i]
      BY <1>4, <2>2
    <3> QED BY <1>1, <2>2, <3>1 DEF DeletionsHaveNoText, IInv, log
  <2>3. CASE id # t.id
    BY <1>3, <2>3 DEF DeletionsHaveNoText, IInv
  <2> QED BY <2>1, <2>2, <2>3
<1>6. ReadModelMatchesEvents'
  <2> SUFFICES ASSUME NEW id \in TodoIds
               PROVE  todoTable'[id] = Replay(id)'
    BY DEF ReadModelMatchesEvents
  <2>1. CASE id = t.id
    <3>1. Committed(id)' = Len(log) + 1
      BY <1>1, <1>4, <2>1 DEF Committed
    <3> QED BY <1>1, <1>3, <1>4, <2>1, <3>1 DEF Replay
  <2>2. CASE id # t.id
    <3>1. eventStore'[id] = eventStore[id] /\ todoTable'[id] = todoTable[id]
      BY <1>3, <2>2
    <3> QED BY <3>1 DEF ReadModelMatchesEvents, IInv, Replay, Committed
  <2> QED BY <2>1, <2>2
<1>7. \A i \in 1 .. Len(log) : log[i].type # "deleted"
  <2>1. CASE t.cmd = "create"
    BY <1>1, <2>1 DEF TxOK
  <2>2. CASE t.cmd # "create"
    <3>1. Replay(t.id) # NoTodo /\ Committed(t.id) = Len(log)
      BY <1>1, <2>2 DEF TxOK, IInv, ReadModelMatchesEvents, Committed, log
    <3>2. Len(log) > 0 => log[Len(log)].type # "deleted"
      BY <1>1, <3>1 DEF Replay, IInv, DeletionsHaveNoText, log
    <3>3. \A i \in 1 .. Len(log) : log[i].type = "deleted" => i = Len(log)
      BY <1>1, <3>1 DEF IInv, EventLogWellFormed, log
    <3> QED BY <1>1, <3>2, <3>3
  <2> QED BY <2>1, <2>2
<1>8. EventLogWellFormed'
  <2> SUFFICES ASSUME NEW id \in TodoIds, NEW i \in 1 .. Len(eventStore'[id])
               PROVE  /\ (eventStore'[id][i].type = "created") <=> (i = 1)
                      /\ (eventStore'[id][i].type = "deleted")
                            => (i = Len(eventStore'[id]))
    BY DEF EventLogWellFormed, Committed
  <2>1. CASE id = t.id /\ i = Len(log) + 1
    <3>1. (t.cmd = "create") <=> (Len(log) = 0)
      <4>1. CASE t.cmd = "create"
        BY <1>1, <4>1 DEF TxOK
      <4>2. CASE t.cmd # "create"
        BY <1>1, <4>2 DEF TxOK, IInv, ReadModelMatchesEvents, Replay, Committed, log
      <4> QED BY <4>1, <4>2
    <3> QED BY <1>1, <1>2, <1>4, <2>1, <3>1
  <2>2. CASE id = t.id /\ i # Len(log) + 1
    <3>1. i \in 1 .. Len(log) /\ eventStore'[id][i] = log[i]
      BY <1>4, <2>2
    <3>2. (log[i].type = "created") <=> (i = 1)
      BY <1>1, <3>1 DEF EventLogWellFormed, IInv, Committed, log
    <3> QED BY <1>7, <3>1, <3>2
  <2>3. CASE id # t.id
    BY <1>3, <2>3 DEF EventLogWellFormed, IInv, Committed
  <2> QED BY <2>1, <2>2, <2>3
<1>9. CountWithinLimit'
  BY <1>1 DEF Commit, CountWritten, CountWithinLimit, IInv, TypeOK, TxOK,
              Transaction, Commands
<1>10. ASSUME NEW d \in Clients PROVE TxOK(d)'
  <2>1. /\ \A f \in Clients \ {c} : tx'[f] = tx[f]
        /\ tx'[c].phase = "replied" /\ tx'[c].cmd = t.cmd /\ tx'[c].text = t.text
    BY <1>1 DEF Commit, Reply, TypeOK
  <2>2. CASE d = c
    BY <1>1, <2>1, <2>2 DEF TxOK, Uncommitted
  <2>3. CASE d # c
    <3>1. tx'[d] = tx[d] /\ TxOK(d)
      BY <2>1, <2>3 DEF IInv
    <3>2. tx[d].phase = "loaded" => tx[d].version \in 1 .. Len(eventStore'[tx[d].id])
      <4>1. CASE tx[d].id = t.id
        <5>1. tx[d].phase = "loaded" => tx[d].version \in 1 .. Len(log)
          BY <3>1, <4>1 DEF TxOK, log
        <5> QED BY <1>4, <4>1, <5>1
      <4>2. CASE tx[d].id # t.id
        BY <1>3, <3>1, <4>2 DEF TxOK
      <4> QED BY <4>1, <4>2
    <3>3. ASSUME Uncommitted(d)
          PROVE  /\ tx[d].id # t.id
                 /\ eventStore'[tx[d].id] = eventStore[tx[d].id]
                 /\ todoTable'[tx[d].id] = todoTable[tx[d].id]
      BY <1>1, <1>3, <2>3, <3>1, <3>3 DEF TxOK
    <3>4. \A f \in Clients \ {d} : Uncommitted(f)' => Uncommitted(f) /\ tx'[f] = tx[f]
      BY <2>1 DEF Uncommitted
    <3> QED BY <3>1, <3>2, <3>3, <3>4 DEF TxOK, Uncommitted
  <2> QED BY <2>2, <2>3
<1> QED BY <1>5, <1>6, <1>8, <1>9, <1>10 DEF IInv

(* The invariant holds at the start: no log, no row, no call. *)
LEMMA InitInv == Init => IInv
<1> SUFFICES ASSUME Init PROVE IInv
  OBVIOUS
<1> USE NamesAssumption, LimitAssumption DEF Init
<1>1. TypeOK
  BY NoCallType DEF TypeOK
<1>2. \A c \in Clients : TxOK(c)
  BY DEF TxOK, NoCall, Uncommitted
<1>3. /\ DeletionsHaveNoText /\ EventLogWellFormed /\ ReadModelMatchesEvents
      /\ CountWithinLimit
  BY DEF DeletionsHaveNoText, EventLogWellFormed, ReadModelMatchesEvents,
         CountWithinLimit, Committed, Replay
<1> QED BY <1>1, <1>2, <1>3 DEF IInv

(* Every step preserves the invariant. *)
LEMMA NextInv == IInv /\ [Next]_vars => IInv'
<1> SUFFICES ASSUME IInv, [Next]_vars PROVE IInv'
  OBVIOUS
<1>1. TypeOK'
  BY TypeStep DEF IInv
<1>2. CASE UNCHANGED vars
  BY <1>2 DEF vars, IInv, TypeOK, TxOK, Uncommitted, DeletionsHaveNoText,
     EventLogWellFormed, ReadModelMatchesEvents, CountWithinLimit, Committed, Replay
<1>3. ASSUME NEW c \in Clients, Calls(c) \/ Handle(c) PROVE IInv'
  BY <1>1, <1>3, QuietSteps, CommitStep
<1> QED BY <1>2, <1>3 DEF Next

(* IInv holds in every reachable state. *)
THEOREM Invariance == Spec => []IInv
<1>1. Init => IInv
  BY InitInv
<1>2. IInv /\ [Next]_vars => IInv'
  BY NextInv
<1> QED BY <1>1, <1>2, PTL DEF Spec

-----------------------------------------------------------------------------
(* The safety properties *)

(* Every variable keeps its type, whatever the calls and their order. *)
THEOREM TypeCorrect == Spec => []TypeOK
<1>1. IInv => TypeOK
  BY DEF IInv
<1> QED BY <1>1, Invariance, PTL

(* Every log in the event store is the possible life of one todo. *)
THEOREM EventLogSafe == Spec => []EventLogWellFormed
<1>1. IInv => EventLogWellFormed
  BY DEF IInv
<1> QED BY <1>1, Invariance, PTL

(* The todo table is always the projection of the event store. *)
THEOREM ReadModelSafe == Spec => []ReadModelMatchesEvents
<1>1. IInv => ReadModelMatchesEvents
  BY DEF IInv
<1> QED BY <1>1, Invariance, PTL

(* Between unlock and commit a transaction still owns its todo. *)
THEOREM UncommittedSafe == Spec => []OneUncommittedPerTodo
<1>1. IInv => OneUncommittedPerTodo
  BY DEF IInv, OneUncommittedPerTodo, TxOK, Committed
<1> QED BY <1>1, Invariance, PTL

(* Lost updates of the counter never take it past the limit. *)
THEOREM CountSafe == Spec => []CountWithinLimit
<1>1. IInv => CountWithinLimit
  BY DEF IInv
<1> QED BY <1>1, Invariance, PTL

-----------------------------------------------------------------------------
(* The drift of the counter *)

Live == {id \in TodoIds : todoTable[id] # NoTodo}

(* Only a commit writes the tables of the database. *)
LEMMA OthersLeaveDatabase ==
  ASSUME [Next]_vars, ~UNCHANGED <<todoTable, todoCount>>
  PROVE  \E c \in Clients : Commit(c)
<1>1. PICK c \in Clients : Calls(c) \/ Handle(c)
  BY DEF Next, vars
<1>2. ASSUME Calls(c) PROVE FALSE
  <2>1. \E cmd \in Commands, id \in TodoIds \cup {UnknownTodo},
           text \in Texts \cup {NoTodo} : Begin(c, cmd, id, text)
    BY <1>2, Zenon DEF Calls, CallCreate, CallUpdate, CallDelete, Commands
  <2> QED BY <2>1 DEF Begin, database
<1>3. ASSUME Handle(c) PROVE Commit(c)
  BY <1>3 DEF Handle, RefuseCreate, AcceptCreate, LoadFails, Load, AppendEvent,
              AppendFails, Flush, FlushTimesOut, Return, database
<1> QED BY <1>1, <1>2, <1>3

(* A commit moves the set of live todos as its command says: the row it    *)
(* creates was missing, the one it deletes was there, because no other     *)
(* transaction has had an event on that todo in the meantime.              *)
LEMMA CommitMovesLive ==
  ASSUME IInv, NEW c \in Clients, Commit(c)
  PROVE  /\ tx[c].cmd = "create" => Live' = Live \cup {tx[c].id} /\ tx[c].id \notin Live
         /\ tx[c].cmd = "update" => Live' = Live
         /\ tx[c].cmd = "delete" => Live' = Live \ {tx[c].id} /\ tx[c].id \in Live
         /\ tx[c].cmd \in Commands
<1> USE NamesAssumption
<1> DEFINE t == tx[c]
<1>1. /\ t.id \in TodoIds /\ t.cmd \in Commands
      /\ t.cmd # "delete" => t.text \in Texts
      /\ t.cmd = "create" => todoTable[t.id] = NoTodo
      /\ t.cmd # "create" => todoTable[t.id] # NoTodo
      /\ todoTable \in [TodoIds -> Texts \cup {NoTodo}]
  BY DEF IInv, TypeOK, TxOK, Uncommitted, Commit, ReadModelMatchesEvents,
         Replay, Committed
<1>2. todoTable' = [todoTable EXCEPT ![t.id] = EventOf(t).text]
  BY DEF Commit, RowsWritten
<1>3. CASE t.cmd = "create"
  BY <1>1, <1>2, <1>3 DEF Live, EventOf
<1>4. CASE t.cmd = "update"
  BY <1>1, <1>2, <1>4 DEF Live, EventOf
<1>5. CASE t.cmd = "delete"
  BY <1>1, <1>2, <1>5 DEF Live, EventOf
<1> QED BY <1>1, <1>3, <1>4, <1>5 DEF Commands

(* There are only ever finitely many todos. *)
LEMMA LiveStep ==
  ASSUME IInv, IsFiniteSet(Live), [Next]_vars
  PROVE  IsFiniteSet(Live')
<1>1. CASE UNCHANGED <<todoTable, todoCount>>
  BY <1>1 DEF Live
<1>2. ASSUME NEW c \in Clients, Commit(c)
      PROVE  IsFiniteSet(Live')
  <2>1. IsFiniteSet(Live \cup {tx[c].id}) /\ IsFiniteSet(Live \ {tx[c].id})
    BY FS_AddElement, FS_RemoveElement
  <2> QED BY <1>2, <2>1, CommitMovesLive DEF Commands
<1> QED BY <1>1, <1>2, OthersLeaveDatabase

(* What a commit does to the two counts.                                   *)
LEMMA CommitDrifts ==
  ASSUME IInv, IsFiniteSet(Live), NEW c \in Clients, Commit(c)
  PROVE  Commits(c) /\ Drift' = Drift + Overwritten(c)
<1> DEFINE t == tx[c]
<1>1. /\ Cardinality(Live) \in Nat /\ todoCount \in Int /\ t.count \in Int
      /\ tx \in [Clients -> Transaction] /\ t.cmd \in Commands
  BY FS_CardinalityType, CommitMovesLive DEF IInv, TypeOK, Transaction
<1>2. Commits(c)
  BY <1>1 DEF Commits, Commit, Reply
<1>3. Drift = Cardinality(Live) - todoCount
      /\ Drift' = Cardinality(Live') - todoCount'
  BY DEF Drift, CountTodos, CountTodos2, Live
<1>4. CASE t.cmd = "create"
  <2>1. Cardinality(Live') = Cardinality(Live) + 1
    BY <1>4, CommitMovesLive, FS_AddElement
  <2>2. todoCount' = t.count + 1 /\ Overwritten(c) = todoCount - t.count
    BY <1>4 DEF Commit, CountWritten, Overwritten, ChangesCount
  <2> HIDE DEF t
  <2> QED BY <1>1, <1>2, <1>3, <2>1, <2>2
<1>5. CASE t.cmd = "update"
  <2>1. Live' = Live
    BY <1>5, CommitMovesLive
  <2>2. todoCount' = todoCount /\ Overwritten(c) = 0
    BY <1>5 DEF Commit, CountWritten, Overwritten, ChangesCount
  <2> HIDE DEF t
  <2> QED BY <1>1, <1>2, <1>3, <2>1, <2>2
<1>6. CASE t.cmd = "delete"
  <2>1. Cardinality(Live') = Cardinality(Live) - 1
    BY <1>6, CommitMovesLive, FS_RemoveElement
  <2>2. todoCount' = t.count - 1 /\ Overwritten(c) = todoCount - t.count
    BY <1>6 DEF Commit, CountWritten, Overwritten, ChangesCount
  <2> HIDE DEF t
  <2> QED BY <1>1, <1>2, <1>3, <2>1, <2>2
<1> QED BY <1>1, <1>4, <1>5, <1>6 DEF Commands

(* For any number of clients, countTodos() and countTodos2() drift apart   *)
(* only by the changes of the counter that some commit overwrites.         *)
THEOREM DriftExplained == Spec => DriftsByOverwriting
<1>1. Init => IsFiniteSet(Live)
  <2> SUFFICES ASSUME Init PROVE IsFiniteSet(Live)
    OBVIOUS
  <2>1. Live = {}
    BY DEF Init, Live
  <2> QED BY <2>1, FS_EmptySet
<1>2. IInv /\ IsFiniteSet(Live) /\ [Next]_vars => IsFiniteSet(Live)'
  BY LiveStep
<1>3. IInv /\ IsFiniteSet(Live) /\ [Next]_vars =>
        [Drift' # Drift =>
            \E c \in Clients : Commits(c) /\ Drift' = Drift + Overwritten(c)]_vars
  <2> SUFFICES ASSUME IInv, IsFiniteSet(Live), [Next]_vars, Drift' # Drift
               PROVE  \E c \in Clients :
                          Commits(c) /\ Drift' = Drift + Overwritten(c)
    OBVIOUS
  <2>1. ~UNCHANGED <<todoTable, todoCount>>
    BY DEF Drift, CountTodos, CountTodos2
  <2> QED BY <2>1, OthersLeaveDatabase, CommitDrifts
<1> QED BY <1>1, <1>2, <1>3, Invariance, PTL DEF Spec, DriftsByOverwriting

-----------------------------------------------------------------------------
(* Refinement *)

Sessions == [c \in Clients |-> AbstractSession(tx[c])]
Used == {id \in TodoIds : eventStore[id] # <<>>}

(* A reply that changes nothing of the database is an answer of TodoList   *)
(* with the id the caller asked for.                                       *)
LEMMA ReplyMaps ==
  ASSUME IInv, NEW c \in Clients, tx[c].phase \notin {"idle", "replied"},
         NEW result \in {"limit", "notFound", "error"}, Reply(c, result)
  PROVE  TL!Answer(c, AbstractSession(tx[c]).id, result)
<1>1. tx \in [Clients -> Transaction] /\ tx[c] \in Transaction
  BY DEF IInv, TypeOK
<1>2. AbstractSession(tx[c]).phase = "pending"
  BY <1>1 DEF AbstractSession, Transaction, Phases
<1>3. Sessions' = [Sessions EXCEPT ![c] =
          [phase |-> "done", cmd |-> Sessions[c].cmd,
           id |-> AbstractSession(tx[c]).id, text |-> Sessions[c].text,
           result |-> result]]
  <2>1. \A d \in Clients \ {c} : AbstractSession(tx'[d]) = AbstractSession(tx[d])
    BY <1>1 DEF Reply
  <2>2. tx'[c] = [phase |-> "replied", cmd |-> tx[c].cmd, id |-> tx[c].id,
                  text |-> tx[c].text, version |-> 0, count |-> 0,
                  result |-> result]
    BY <1>1 DEF Reply
  <2>3. AbstractSession(tx'[c]) =
           [phase |-> "done", cmd |-> tx[c].cmd, id |-> AbstractSession(tx[c]).id,
            text |-> tx[c].text, result |-> result]
    <3>1. /\ tx'[c].cmd = tx[c].cmd /\ tx'[c].text = tx[c].text
          /\ tx'[c].phase = "replied" /\ tx'[c].result = result
          /\ tx'[c].id = tx[c].id /\ result # "ok" /\ tx[c].phase # "replied"
      BY <2>2
    <3> QED BY <3>1 DEF AbstractSession
  <2>4. Sessions[c].cmd = tx[c].cmd /\ Sessions[c].text = tx[c].text
    BY DEF Sessions, AbstractSession
  <2> QED BY <2>1, <2>3, <2>4 DEF Sessions
<1> QED BY <1>2, <1>3 DEF TL!Answer, Sessions

(* The commit of a call is the instant at which it takes effect. *)
LEMMA CommitMaps ==
  ASSUME IInv, NEW c \in Clients, Commit(c)
  PROVE  TL!Create(c) \/ TL!Update(c) \/ TL!Delete(c)
<1> USE NamesAssumption
<1> DEFINE t == tx[c]
<1>1. /\ t \in Transaction /\ t.id \in TodoIds /\ t.cmd \in Commands
      /\ t.cmd # "delete" => t.text \in Texts
      /\ t.cmd = "create" => Len(eventStore[t.id]) = 0
      /\ t.cmd # "create" => todoTable[t.id] # NoTodo
      /\ t.phase = "flushed"
      /\ eventStore \in [TodoIds -> Seq(Event)]
      /\ todoTable \in [TodoIds -> Texts \cup {NoTodo}]
      /\ tx \in [Clients -> Transaction]
  BY DEF IInv, TypeOK, TxOK, Uncommitted, Commit
<1>2. Sessions' = [Sessions EXCEPT ![c] =
          [phase |-> "done", cmd |-> Sessions[c].cmd, id |-> t.id,
           text |-> Sessions[c].text, result |-> "ok"]]
  <2>1. /\ \A d \in Clients \ {c} : AbstractSession(tx'[d]) = AbstractSession(tx[d])
        /\ tx'[c] = [phase |-> "replied", cmd |-> t.cmd, id |-> t.id,
                     text |-> t.text, version |-> 0, count |-> 0, result |-> "ok"]
    BY <1>1 DEF Reply, Commit
  <2>2. AbstractSession(tx'[c]) = [phase |-> "done", cmd |-> t.cmd, id |-> t.id,
                                   text |-> t.text, result |-> "ok"]
    BY <2>1 DEF AbstractSession
  <2>3. Sessions[c].cmd = t.cmd /\ Sessions[c].text = t.text
    BY DEF Sessions, AbstractSession
  <2> QED BY <2>1, <2>2, <2>3 DEF Sessions
<1>3. /\ Sessions[c].phase = "pending" /\ Sessions[c].cmd = t.cmd
      /\ Sessions[c].text = t.text
      /\ t.cmd # "create" => Sessions[c].id = t.id
  BY <1>1 DEF Sessions, AbstractSession
<1>4. TL!Answer(c, t.id, "ok")
  BY <1>2, <1>3 DEF TL!Answer, Sessions
<1>5. /\ todoTable' = [todoTable EXCEPT ![t.id] = EventOf(t).text]
      /\ eventStore' = [eventStore EXCEPT ![t.id] =
                            Append(eventStore[t.id], EventOf(t))]
  BY DEF Commit, RowsWritten
<1>6. EventOf(t) \in Event /\ eventStore[t.id] \in Seq(Event)
  BY <1>1, EventOfType
<1>7. Used' = Used \cup {t.id}
  <2>1. eventStore'[t.id] = Append(eventStore[t.id], EventOf(t))
    BY <1>1, <1>5
  <2>2. Append(eventStore[t.id], EventOf(t)) # <<>>
    BY <1>6
  <2>3. \A id \in TodoIds \ {t.id} : eventStore'[id] = eventStore[id]
    BY <1>1, <1>5
  <2> QED BY <1>1, <2>1, <2>2, <2>3 DEF Used
<1>8. CASE t.cmd = "create"
  <2>1. EventOf(t).text = t.text
    BY <1>8 DEF EventOf
  <2>2. t.id \in TodoIds \ Used
    BY <1>1, <1>6, <1>8 DEF Used
  <2> QED BY <1>3, <1>4, <1>5, <1>7, <1>8, <2>1, <2>2 DEF TL!Create, Sessions, Used
<1>9. CASE t.cmd # "create"
  <2>1. t.id \in Used
    <3>1. Len(eventStore[t.id]) # 0
      BY <1>1, <1>9 DEF IInv, ReadModelMatchesEvents, Replay, Committed
    <3> QED BY <1>1, <3>1 DEF Used
  <2>2. Used' = Used
    BY <1>7, <2>1
  <2>3. TL!Exists(t.id)
    BY <1>1, <1>9 DEF TL!Exists
  <2>4. CASE t.cmd = "update"
    <3>1. EventOf(t).text = t.text
      BY <2>4 DEF EventOf
    <3> QED BY <1>3, <1>4, <1>5, <2>2, <2>3, <2>4, <3>1 DEF TL!Update, Sessions, Used
  <2>5. CASE t.cmd = "delete"
    <3>1. EventOf(t).text = NoTodo
      BY <2>5 DEF EventOf
    <3> QED BY <1>3, <1>4, <1>5, <2>2, <2>3, <2>5, <3>1 DEF TL!Delete, Sessions, Used
  <2> QED BY <1>1, <1>9, <2>4, <2>5 DEF Commands
<1> QED BY <1>8, <1>9

(* Every step of the service is a step of TodoList, or changes nothing     *)
(* that TodoList knows of.                                                 *)
LEMMA StepMaps ==
  ASSUME IInv, [Next]_vars
  PROVE  [TL!Next]_(TL!vars)
<1> USE NamesAssumption
<1>0. TypeOK /\ tx \in [Clients -> Transaction]
  BY DEF IInv, TypeOK
<1>1. CASE UNCHANGED vars
  BY <1>1 DEF vars, TL!vars, AbstractSession
<1>2. ASSUME UNCHANGED database, NEW c \in Clients,
             \A d \in Clients \ {c} : tx'[d] = tx[d],
             DOMAIN tx' = Clients,
             AbstractSession(tx'[c]) = AbstractSession(tx[c])
      PROVE  UNCHANGED TL!vars
  <2>1. Sessions' = Sessions
    BY <1>2 DEF Sessions
  <2> QED BY <1>2, <2>1 DEF TL!vars, database, Sessions
<1>3. ASSUME NEW c \in Clients, NEW cmd \in Commands,
             NEW id \in TodoIds \cup {UnknownTodo},
             NEW text \in Texts \cup {NoTodo}, Begin(c, cmd, id, text),
             cmd = "create" => id = UnknownTodo
      PROVE  TL!Invoke(c, cmd, id, text)
  <2>1. /\ \A d \in Clients \ {c} : AbstractSession(tx'[d]) = AbstractSession(tx[d])
        /\ tx'[c].phase = "called" /\ tx'[c].cmd = cmd /\ tx'[c].id = id
        /\ tx'[c].text = text /\ tx'[c].result = "ok"
    BY <1>0, <1>3 DEF Begin, NoCall
  <2>2. AbstractSession(tx'[c]) = [phase |-> "pending", cmd |-> cmd, id |-> id,
                                   text |-> text, result |-> "ok"]
    BY <1>3, <2>1 DEF AbstractSession
  <2>3. Sessions[c].phase = "idle"
    BY <1>3 DEF Begin, Sessions, AbstractSession
  <2>4. Sessions' = [Sessions EXCEPT ![c] =
            [phase |-> "pending", cmd |-> cmd, id |-> id, text |-> text,
             result |-> "ok"]]
    BY <2>1, <2>2 DEF Sessions
  <2> QED BY <1>3, <2>3, <2>4 DEF TL!Invoke, Sessions, Begin, database
<1>4. ASSUME NEW c \in Clients, Calls(c)
      PROVE  TL!Next
  <2>1. CASE \E text \in Texts : CallCreate(c, text)
    <3>1. PICK text \in Texts : Begin(c, "create", UnknownTodo, text)
      BY <2>1 DEF CallCreate
    <3>2. TL!Invoke(c, "create", UnknownTodo, text)
      BY <1>3, <3>1 DEF Commands
    <3> QED BY <3>2 DEF TL!Next
  <2>2. CASE \E id \in TodoIds \cup {UnknownTodo} :
                \E text \in Texts : CallUpdate(c, id, text)
    <3>1. PICK id \in TodoIds \cup {UnknownTodo}, text \in Texts :
             Begin(c, "update", id, text)
      BY <2>2 DEF CallUpdate
    <3>2. TL!Invoke(c, "update", id, text)
      BY <1>3, <3>1 DEF Commands
    <3> QED BY <3>2 DEF TL!Next
  <2>3. CASE \E id \in TodoIds \cup {UnknownTodo} : CallDelete(c, id)
    <3>1. PICK id \in TodoIds \cup {UnknownTodo} : Begin(c, "delete", id, NoTodo)
      BY <2>3 DEF CallDelete
    <3>2. TL!Invoke(c, "delete", id, NoTodo)
      BY <1>3, <3>1 DEF Commands
    <3> QED BY <3>2 DEF TL!Next
  <2> QED BY <1>4, <2>1, <2>2, <2>3, Zenon DEF Calls
<1>5. ASSUME NEW c \in Clients, Handle(c)
      PROVE  [TL!Next]_(TL!vars)
  <2> DEFINE s == AbstractSession(tx[c])
  <2>0. tx[c] \in Transaction /\ TxOK(c)
    BY <1>0 DEF IInv
  <2>1. CASE RefuseCreate(c)
    <3>1. TL!Answer(c, s.id, "limit")
      BY <2>1, ReplyMaps DEF RefuseCreate
    <3>2. s.cmd = "create"
      BY <2>1 DEF RefuseCreate, AbstractSession
    <3>3. TL!Refuse(c)
      BY <2>1, <3>1, <3>2 DEF TL!Refuse, RefuseCreate, database
    <3> QED BY <3>3 DEF TL!Next
  <2>2. CASE LoadFails(c)
    <3>1. TL!Answer(c, s.id, "notFound")
      BY <2>2, ReplyMaps DEF LoadFails
    <3>2. s.cmd \in {"update", "delete"} /\ s.id = tx[c].id
      BY <2>2 DEF LoadFails, AbstractSession
    <3>3. ~TL!Exists(tx[c].id)
      BY <2>2 DEF LoadFails, TL!Exists, IInv, ReadModelMatchesEvents
    <3>4. TL!NotFound(c)
      BY <2>2, <3>1, <3>2, <3>3 DEF TL!NotFound, LoadFails, database
    <3> QED BY <3>4 DEF TL!Next
  <2>3. CASE AppendFails(c)
    <3>1. TL!Answer(c, s.id, "error")
      BY <2>3, ReplyMaps DEF AppendFails
    <3>2. TL!Fail(c)
      BY <2>3, <3>1 DEF TL!Fail, AppendFails, database
    <3> QED BY <3>2 DEF TL!Next
  <2>4. CASE FlushTimesOut(c)
    <3>1. TL!Answer(c, s.id, "error")
      BY <2>4, ReplyMaps DEF FlushTimesOut
    <3>2. TL!Fail(c)
      BY <2>4, <3>1 DEF TL!Fail, FlushTimesOut, database
    <3> QED BY <3>2 DEF TL!Next
  <2>5. CASE Commit(c)
    BY <2>5, CommitMaps DEF TL!Next
  <2>6. CASE Return(c)
    <3>1. /\ \A d \in Clients \ {c} : AbstractSession(tx'[d]) = AbstractSession(tx[d])
          /\ tx'[c] = NoCall
      BY <1>0, <2>6 DEF Return
    <3>2. AbstractSession(NoCall) = TL!Idle
      BY DEF AbstractSession, NoCall, TL!Idle
    <3>3. Sessions' = [Sessions EXCEPT ![c] = TL!Idle]
      BY <3>1, <3>2 DEF Sessions
    <3>4. Sessions[c].phase = "done"
      BY <2>6 DEF Return, Sessions, AbstractSession
    <3>5. TL!Return(c)
      BY <2>6, <3>3, <3>4 DEF TL!Return, Return, Sessions, database
    <3> QED BY <3>5 DEF TL!Next
  <2>7. CASE AcceptCreate(c)
    <3>1. /\ \A d \in Clients \ {c} : tx'[d] = tx[d]
          /\ tx'[c].phase = "appended" /\ tx'[c].cmd = tx[c].cmd
          /\ tx'[c].text = tx[c].text /\ tx'[c].result = tx[c].result
          /\ DOMAIN tx' = Clients
      BY <1>0, <2>0, <2>7 DEF AcceptCreate, Transaction
    <3>2. AbstractSession(tx'[c]) = AbstractSession(tx[c])
      BY <2>7, <3>1 DEF AbstractSession, AcceptCreate
    <3> QED BY <1>2, <2>7, <3>1, <3>2 DEF AcceptCreate
  <2>8. CASE Load(c) \/ AppendEvent(c) \/ Flush(c)
    <3>1. /\ \A d \in Clients \ {c} : tx'[d] = tx[d]
          /\ tx'[c].phase \in {"loaded", "appended", "flushed"}
          /\ tx'[c].cmd = tx[c].cmd /\ tx'[c].id = tx[c].id
          /\ tx'[c].text = tx[c].text /\ tx'[c].result = tx[c].result
          /\ tx[c].phase \in {"called", "loaded", "appended"}
          /\ DOMAIN tx' = Clients /\ UNCHANGED database
      <4>1. CASE Load(c)
        BY <1>0, <2>0, <4>1 DEF Load, Transaction
      <4>2. CASE AppendEvent(c)
        BY <1>0, <2>0, <4>2 DEF AppendEvent, Transaction
      <4>3. CASE Flush(c)
        BY <1>0, <2>0, <4>3 DEF Flush, Transaction
      <4> QED BY <2>8, <4>1, <4>2, <4>3
    <3>2. AbstractSession(tx'[c]) = AbstractSession(tx[c])
      BY <3>1 DEF AbstractSession
    <3> QED BY <1>2, <3>1, <3>2
  <2> QED
    BY <1>5, <2>1, <2>2, <2>3, <2>4, <2>5, <2>6, <2>7, <2>8 DEF Handle
<1> QED BY <1>1, <1>4, <1>5 DEF Next

(* The service, with its locks and overlapping transactions, implements    *)
(* the atomic TodoList.                                                    *)
THEOREM Refinement == Spec => ImplementsTodoList
<1>1. Init => TL!Init
  <2> SUFFICES ASSUME Init PROVE TL!Init
    OBVIOUS
  <2>1. AbstractSession(NoCall) = TL!Idle
    BY DEF AbstractSession, NoCall, TL!Idle
  <2> QED BY <2>1 DEF Init, TL!Init
<1>2. IInv /\ [Next]_vars => [TL!Next]_(TL!vars)
  BY StepMaps
<1> QED BY <1>1, <1>2, Invariance, PTL DEF Spec, ImplementsTodoList, TL!Spec

-----------------------------------------------------------------------------
(* Calls that never overlap *)

OneClient == \A c, d \in Clients : c = d

(* With nobody else around, the counter a transaction has read is the      *)
(* committed one until it commits itself.                                  *)
SerialInv ==
    /\ IsFiniteSet(Live)
    /\ todoCount = Cardinality(Live)
    /\ \A c \in Clients :
          Uncommitted(c) /\ ChangesCount(c) => tx[c].count = todoCount

(* A commit changes the counter by as much as the number of rows. *)
LEMMA SerialCommit ==
  ASSUME OneClient, IInv, SerialInv, NEW c \in Clients, Commit(c)
  PROVE  SerialInv'
<1> DEFINE t == tx[c]
<1>1. ChangesCount(c) => t.count = todoCount
  BY DEF Uncommitted, Commit, SerialInv
<1>2. t.cmd \in Commands
  BY CommitMovesLive
<1>3. \A d \in Clients : ~Uncommitted(d)'
  BY DEF OneClient, Commit, Reply, Uncommitted, IInv, TypeOK
<1>4. IsFiniteSet(Live) /\ todoCount = Cardinality(Live) /\ Cardinality(Live) \in Nat
  BY FS_CardinalityType DEF SerialInv
<1>5. IsFiniteSet(Live') /\ todoCount' = Cardinality(Live')
  <2>1. CASE t.cmd = "create"
    <3>1. Live' = Live \cup {t.id} /\ t.id \notin Live
      BY <2>1, CommitMovesLive
    <3>2. todoCount' = todoCount + 1
      BY <1>1, <2>1 DEF Commit, CountWritten, ChangesCount
    <3> QED BY <1>4, <3>1, <3>2, FS_AddElement
  <2>2. CASE t.cmd = "update"
    <3>1. Live' = Live
      BY <2>2, CommitMovesLive
    <3>2. todoCount' = todoCount
      BY <2>2 DEF Commit, CountWritten
    <3> QED BY <1>4, <3>1, <3>2
  <2>3. CASE t.cmd = "delete"
    <3>1. Live' = Live \ {t.id} /\ t.id \in Live
      BY <2>3, CommitMovesLive
    <3>2. todoCount' = todoCount - 1
      BY <1>1, <2>3 DEF Commit, CountWritten, ChangesCount
    <3> QED BY <1>4, <3>1, <3>2, FS_RemoveElement
  <2> QED BY <1>2, <2>1, <2>2, <2>3 DEF Commands
<1> QED BY <1>3, <1>5 DEF SerialInv

(* Every step of a single client preserves the exact count. *)
LEMMA SerialStep ==
  ASSUME OneClient, IInv, IInv', SerialInv, [Next]_vars
  PROVE  SerialInv'
<1>1. CASE UNCHANGED vars
  BY <1>1 DEF vars, SerialInv, Live, Uncommitted, ChangesCount
<1>2. ASSUME NEW c \in Clients, Calls(c) \/ Handle(c)
      PROVE  SerialInv'
  <2>0. tx \in [Clients -> Transaction] /\ tx[c] \in Transaction
    BY DEF IInv, TypeOK
  <2>1. CASE Commit(c)
    BY <2>1, SerialCommit
  <2>2. ASSUME UNCHANGED database,
               Uncommitted(c)' /\ ChangesCount(c)' => tx'[c].count = todoCount
        PROVE  SerialInv'
    BY <2>2 DEF SerialInv, OneClient, database, Live
  <2>3. ASSUME UNCHANGED database, ~Uncommitted(c)'
        PROVE  SerialInv'
    BY <2>2, <2>3
  <2>4. CASE Calls(c)
    <3>1. \E cmd \in Commands, id \in TodoIds \cup {UnknownTodo},
             text \in Texts \cup {NoTodo} : Begin(c, cmd, id, text)
      BY <2>4, Zenon DEF Calls, CallCreate, CallUpdate, CallDelete, Commands
    <3> QED BY <2>0, <2>3, <3>1 DEF Begin, NoCall, Uncommitted
  <2>5. CASE RefuseCreate(c) \/ LoadFails(c) \/ AppendFails(c) \/ FlushTimesOut(c)
    BY <2>0, <2>3, <2>5
       DEF RefuseCreate, LoadFails, AppendFails, FlushTimesOut, Reply, Uncommitted
  <2>6. CASE Return(c)
    BY <2>0, <2>3, <2>6 DEF Return, NoCall, Uncommitted
  <2>7. CASE Load(c)
    BY <2>0, <2>3, <2>7 DEF Load, Uncommitted, Transaction
  <2>8. CASE AcceptCreate(c)
    <3>1. tx'[c].count = todoCount /\ UNCHANGED database
      BY <2>0, <2>8 DEF AcceptCreate, Transaction
    <3> QED BY <2>2, <3>1
  <2>9. CASE AppendEvent(c)
    <3>1. /\ tx'[c].cmd = tx[c].cmd /\ tx[c].cmd # "create"
          /\ tx[c].cmd = "delete" => tx'[c].count = todoCount
          /\ UNCHANGED database
      BY <2>0, <2>9 DEF AppendEvent, Transaction, IInv, TxOK
    <3> QED BY <2>2, <3>1 DEF ChangesCount
  <2>10. CASE Flush(c)
    <3>1. /\ tx'[c].cmd = tx[c].cmd /\ tx'[c].count = tx[c].count
          /\ Uncommitted(c) /\ UNCHANGED database
      BY <2>0, <2>10 DEF Flush, Transaction, Uncommitted
    <3> QED BY <2>2, <3>1 DEF ChangesCount, SerialInv
  <2> QED
    BY <1>2, <2>1, <2>4, <2>5, <2>6, <2>7, <2>8, <2>9, <2>10 DEF Handle
<1> QED BY <1>1, <1>2 DEF Next

(* When calls do not overlap, countTodos() and countTodos2() agree, which  *)
(* is what AppTest.demo relies on.                                         *)
THEOREM SerialCounts == OneClient => (Spec => []CountsAgree)
<1> SUFFICES ASSUME OneClient PROVE Spec => []CountsAgree
  OBVIOUS
<1>1. Init => SerialInv
  <2> SUFFICES ASSUME Init PROVE SerialInv
    OBVIOUS
  <2>1. Live = {}
    BY DEF Init, Live
  <2> QED BY <2>1, FS_EmptySet DEF Init, SerialInv, NoCall, Uncommitted
<1>2. IInv /\ IInv' /\ SerialInv /\ [Next]_vars => SerialInv'
  BY SerialStep
<1>3. SerialInv => CountsAgree
  BY DEF SerialInv, CountsAgree, CountTodos, CountTodos2, Live
<1> QED BY <1>1, <1>2, <1>3, Invariance, PTL DEF Spec

(* ... and there are never more than MaxTodos todos. *)
THEOREM SerialLimit == OneClient => (Spec => []LimitHolds)
<1> SUFFICES ASSUME OneClient PROVE Spec => []LimitHolds
  OBVIOUS
<1>1. CountsAgree /\ IInv => LimitHolds
  BY DEF CountsAgree, CountTodos2, IInv, CountWithinLimit, LimitHolds
<1> QED BY <1>1, SerialCounts, Invariance, PTL
=============================================================================
