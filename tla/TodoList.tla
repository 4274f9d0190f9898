------------------------------ MODULE TodoList ------------------------------
(***************************************************************************)
(* What the todo service of axon-experiment promises its callers: every    *)
(* call takes effect at one instant between its start and its return, or   *)
(* has no effect at all.                                                   *)
(***************************************************************************)
CONSTANTS Clients,      \* threads that call ApiFacade
          TodoIds,      \* ids a created todo can get
          UnknownTodo,  \* an id no todo ever gets ("111" in AppTest)
          Texts,
          NoTodo        \* the text of a todo that is not there

VARIABLES todos,        \* [TodoIds -> Texts \cup {NoTodo}]
          used,         \* ids handed out so far
          session       \* what each client asked for, and the answer it got

vars == <<todos, used, session>>

Results == {"ok", "limit", "notFound", "error"}

Idle == [phase |-> "idle", cmd |-> "none", id |-> UnknownTodo,
         text |-> NoTodo, result |-> "ok"]

Init ==
    /\ todos = [id \in TodoIds |-> NoTodo]
    /\ used = {}
    /\ session = [c \in Clients |-> Idle]

Exists(id) == id \in TodoIds /\ todos[id] # NoTodo

Invoke(c, cmd, id, text) ==
    /\ session[c].phase = "idle"
    /\ session' = [session EXCEPT ![c] =
           [phase |-> "pending", cmd |-> cmd, id |-> id, text |-> text,
            result |-> "ok"]]
    /\ UNCHANGED <<todos, used>>

Answer(c, id, result) ==
    /\ session[c].phase = "pending"
    /\ session' = [session EXCEPT ![c] =
           [phase |-> "done", cmd |-> session[c].cmd, id |-> id,
            text |-> session[c].text, result |-> result]]

(* A creation takes effect: its id was never handed out before. *)
Create(c) ==
    \E id \in TodoIds \ used :
        /\ session[c].cmd = "create"
        /\ Answer(c, id, "ok")
        /\ todos' = [todos EXCEPT ![id] = session[c].text]
        /\ used' = used \cup {id}

(* An update answered "ok" changed a todo that existed at that instant. *)
Update(c) ==
    /\ session[c].cmd = "update"
    /\ Exists(session[c].id)
    /\ Answer(c, session[c].id, "ok")
    /\ todos' = [todos EXCEPT ![session[c].id] = session[c].text]
    /\ UNCHANGED used

Delete(c) ==
    /\ session[c].cmd = "delete"
    /\ Exists(session[c].id)
    /\ Answer(c, session[c].id, "ok")
    /\ todos' = [todos EXCEPT ![session[c].id] = NoTodo]
    /\ UNCHANGED used

NotFound(c) ==
    /\ session[c].cmd \in {"update", "delete"}
    /\ ~Exists(session[c].id)
    /\ Answer(c, session[c].id, "notFound")
    /\ UNCHANGED <<todos, used>>

(* A refused or failed call leaves no trace. *)
Refuse(c) ==
    /\ session[c].cmd = "create"
    /\ Answer(c, session[c].id, "limit")
    /\ UNCHANGED <<todos, used>>

Fail(c) ==
    /\ Answer(c, session[c].id, "error")
    /\ UNCHANGED <<todos, used>>

Return(c) ==
    /\ session[c].phase = "done"
    /\ session' = [session EXCEPT ![c] = Idle]
    /\ UNCHANGED <<todos, used>>

Next ==
    \E c \in Clients :
        \/ \E text \in Texts : Invoke(c, "create", UnknownTodo, text)
        \/ \E id \in TodoIds \cup {UnknownTodo}, text \in Texts :
               Invoke(c, "update", id, text)
        \/ \E id \in TodoIds \cup {UnknownTodo} : Invoke(c, "delete", id, NoTodo)
        \/ Create(c) \/ Update(c) \/ Delete(c)
        \/ NotFound(c) \/ Refuse(c) \/ Fail(c) \/ Return(c)

Spec == Init /\ [][Next]_vars
=============================================================================
