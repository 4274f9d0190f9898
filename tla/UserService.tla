----------------------------- MODULE UserService -----------------------------
(***************************************************************************)
(* jdbc-experiment: the three implementations of UserService, over one     *)
(* table of an HSQLDB database.  Connections are in auto-commit mode, so   *)
(* each SQL statement is a transaction of its own: a call of more than one *)
(* statement can be interleaved with the calls of other clients, and can   *)
(* fail half-way.                                                          *)
(***************************************************************************)
EXTENDS Integers, Sequences, FiniteSets

CONSTANTS Clients,         \* threads, each with its own service and connection
          Implementations, \* the implementations they may all be using
          Names,
          ItemsPerPage,    \* sizes and
          Pages,           \* numbers of the pages they ask for
          IntBits,         \* bits of a Java int
          MaxUsers         \* bound: how many users are ever created

VARIABLES implementation,  \* the class of the services
          users,           \* table Users: a name for each id there is
          nextId,          \* its identity column
          client,          \* what each client is doing
          settled          \* for the properties: the users that the calls of
                           \* createUser that are over answered with, or left behind

vars == <<implementation, users, nextId, client, settled>>

Ids == 0 .. MaxUsers - 1
Calls ==
    [op : {"createUser"}, name : Names]
        \cup [op : {"getUser", "deleteUser"}, userId : Ids]
        \cup [op : {"updateUser"}, userId : Ids, name : Names]
        \cup [op : {"getAllUsers"}]
        \cup [op : {"getUsers"}, itemsPerPage : ItemsPerPage, page : Pages]

(* What a call can come back with: an exception, nothing, a user, a list   *)
(* of users or a page of them.  An exception because a statement failed is *)
(* the same to the caller, and told apart for the properties only.         *)
Exception    == [is |-> "exception"]
SQLException == [is |-> "SQLException"]
Nothing   == [is |-> "nothing"]
UserDTO(id, name) == [is |-> "user", userId |-> id, userName |-> name]
Found(table, id) == IF id \in DOMAIN table THEN UserDTO(id, table[id]) ELSE Exception

(* select without an order by, from the only index there is.               *)
RowNumber(table, id) == Cardinality({i \in DOMAIN table : i <= id})
Rows(table) ==
    [k \in 1 .. Cardinality(DOMAIN table) |->
        LET id == CHOOSE i \in DOMAIN table : RowNumber(table, i) = k
        IN  UserDTO(id, table[id])]
Listed(table) == [is |-> "list", items |-> Rows(table)]
PageDTO(total, page, items) ==
    [is |-> "page", totalItems |-> total, pageNumber |-> page, items |-> items]

ToInt(n) == ((n + 2 ^ (IntBits - 1)) % 2 ^ IntBits) - 2 ^ (IntBits - 1)
FirstRow(call) == ToInt(call.page * call.itemsPerPage)

(* select limit offset count.                                              *)
LimitedInclusively(rows, offset, count) ==
    SubSeq(rows, offset + 1, IF offset + count < Len(rows) THEN offset + count + 1 ELSE Len(rows))
Limited(rows, offset, count) ==
    SubSeq(rows, offset + 1, IF offset + count < Len(rows) THEN offset + count ELSE Len(rows))

(* A client between two calls has the answer of the last one.  In a call   *)
(* it knows where it is, the number the previous statement gave, and, for  *)
(* the properties, the table as it was when the call began, until another  *)
(* client changes it.                                                      *)
Idle(answer) == [at |-> "idle", answer |-> answer]

Init ==
    /\ implementation \in Implementations
    /\ users = <<>> /\ nextId = 0
    /\ client = [c \in Clients |-> Idle(Nothing)]
    /\ settled = {}

Call(c, call) ==
    /\ client[c].at = "idle"
    /\ client' = [client EXCEPT ![c] =
                     [at |-> "called", call |-> call, number |-> 0, before |-> {users}]]
    /\ UNCHANGED <<implementation, users, nextId>>

At(c, at, op) == client[c].at = at /\ client[c].call.op = op
Answer(c, answer) == client' = [client EXCEPT ![c] = Idle(answer)]
GoOn(c, at, number) ==
    client' = [client EXCEPT ![c].at = at, ![c].number = number]

WithRow(table, id, name) ==
    [i \in DOMAIN table \cup {id} |-> IF i = id THEN name ELSE table[i]]

(* The same, of a statement that may have changed the table.               *)
Disturb(table, c, after) ==
    /\ users' = table
    /\ client' = [d \in Clients |->
           IF d = c THEN after
           ELSE IF client[d].at = "idle" \/ table = users THEN client[d]
           ELSE [client[d] EXCEPT !.before = {}]]

-----------------------------------------------------------------------------
(* The statements.                                                         *)

(* insert into Users(name) values(?).  PureJDBC makes the answer of what   *)
(* it was given; the others read the row again.                            *)
Insert(c) ==
    LET name == client[c].call.name
    IN  /\ At(c, "called", "createUser") /\ nextId < MaxUsers
        /\ nextId' = nextId + 1
        /\ Disturb(WithRow(users, nextId, name), c,
               IF implementation = "PureJDBC" THEN Idle(UserDTO(nextId, name))
               ELSE [client[c] EXCEPT !.at = "inserted", !.number = nextId])
        /\ UNCHANGED implementation

ReadInsertedByCount(c) ==
    /\ At(c, "inserted", "createUser")
    /\ Answer(c, Found(users, Cardinality(DOMAIN users) - 1))
    /\ UNCHANGED <<implementation, users, nextId>>
ReadInserted(c) ==
    /\ At(c, "inserted", "createUser")
    /\ Answer(c, Found(users, client[c].number))
    /\ UNCHANGED <<implementation, users, nextId>>

GetUser(c) ==
    /\ At(c, "called", "getUser")
    /\ Answer(c, Found(users, client[c].call.userId))
    /\ UNCHANGED <<implementation, users, nextId>>

(* updateUser of ApacheDBUtilsUserService is not implemented.              *)
Refused(c) == At(c, "called", "updateUser") /\ implementation = "ApacheDBUtils"
RefuseUpdate(c) ==
    /\ Refused(c)
    /\ Answer(c, Exception)
    /\ UNCHANGED <<implementation, users, nextId>>

Update(c) ==
    LET call == client[c].call
        rowsUpdated == DOMAIN users \cap {call.userId}
    IN  /\ At(c, "called", "updateUser") /\ implementation # "ApacheDBUtils"
        /\ Disturb([id \in DOMAIN users |-> IF id \in rowsUpdated THEN call.name ELSE users[id]], c,
               CASE implementation = "Dalesbred" -> [client[c] EXCEPT !.at = "updated"]
                 [] implementation # "Dalesbred" /\ rowsUpdated = {} -> Idle(Exception)
                 [] OTHER -> Idle(UserDTO(call.userId, call.name)))
        /\ UNCHANGED <<implementation, nextId>>

ReadUpdated(c) ==
    /\ At(c, "updated", "updateUser")
    /\ Answer(c, Found(users, client[c].call.userId))
    /\ UNCHANGED <<implementation, users, nextId>>

(* Only PureJDBC looks at the number of rows it has deleted.               *)
Delete(c) ==
    LET id == client[c].call.userId
    IN  /\ At(c, "called", "deleteUser")
        /\ Disturb([i \in DOMAIN users \ {id} |-> users[i]], c,
               Idle(IF implementation = "PureJDBC" /\ id \notin DOMAIN users
                    THEN Exception ELSE Nothing))
        /\ UNCHANGED <<implementation, nextId>>

GetAllUsers(c) ==
    /\ At(c, "called", "getAllUsers")
    /\ Answer(c, Listed(users))
    /\ UNCHANGED <<implementation, users, nextId>>

Count(c) ==
    LET rowCount == Cardinality(DOMAIN users)
    IN  /\ At(c, "called", "getUsers")
        /\ IF rowCount <= FirstRow(client[c].call) THEN Answer(c, Exception)
           ELSE GoOn(c, "counted", rowCount)
        /\ UNCHANGED <<implementation, users, nextId>>

(* HSQLDB refuses a negative limit.                                        *)
ReadPage(c) ==
    LET call == client[c].call
        items == Limited(Rows(users), FirstRow(call), call.itemsPerPage)
    IN  /\ At(c, "counted", "getUsers")
        /\ Answer(c, IF FirstRow(call) < 0 THEN Exception
                     ELSE PageDTO(client[c].number, call.page, items))
        /\ UNCHANGED <<implementation, users, nextId>>

(* A statement ends in an SQLException, without an effect.                 *)
StatementFails(c) ==
    /\ client[c].at # "idle" /\ ~Refused(c)
    /\ Answer(c, SQLException)
    /\ UNCHANGED <<implementation, users, nextId>>

Returns(c) == client[c].at # "idle" /\ client'[c].at = "idle"
Creates(c) == Returns(c) /\ client[c].call.op = "createUser"

(* The user a createUser answers with, and the one it has inserted when    *)
(* its second statement comes to nothing.                                  *)
Settles(c) ==
    IF ~Creates(c) THEN {}
    ELSE {id \in Ids : \/ client'[c].answer.is = "user" /\ client'[c].answer.userId = id
                       \/ client[c].at = "inserted" /\ client[c].number = id}

Next ==
    /\ \E c \in Clients :
           \/ \E call \in Calls : Call(c, call)
           \/ Insert(c) \/ ReadInserted(c)
           \/ GetUser(c)
           \/ RefuseUpdate(c) \/ Update(c) \/ ReadUpdated(c)
           \/ Delete(c)
           \/ GetAllUsers(c)
           \/ Count(c) \/ ReadPage(c)
           \/ StatementFails(c)
    /\ settled' = settled \cup UNION {Settles(c) : c \in Clients}

Spec == Init /\ [][Next]_vars

-----------------------------------------------------------------------------
Answers ==
    {Nothing, Exception, SQLException} \cup {UserDTO(id, name) : id \in Ids, name \in Names}

(* Every id in the table is one the identity column has given, and so is   *)
(* the id of a create under way.                                           *)
TypeOK ==
    /\ implementation \in Implementations
    /\ nextId \in 0 .. MaxUsers
    /\ DOMAIN users \subseteq 0 .. nextId - 1 /\ settled \subseteq 0 .. nextId - 1
    /\ \A id \in DOMAIN users : users[id] \in Names
    /\ \A c \in Clients :
           \/ client[c].at = "idle" /\ client[c].answer \in Answers
           \/ client[c].at = "idle" /\ client[c].answer.is \in {"list", "page"}
           \/ /\ client[c].at \in {"called", "inserted", "updated", "counted"}
              /\ client[c].call \in Calls
              /\ client[c].number \in IF client[c].at = "inserted" THEN 0 .. nextId - 1
                                      ELSE 0 .. MaxUsers

(* What the interface promises of a call, as its tests show it: how the    *)
(* table is after it, and what it answers.                                 *)
Promise(call, before, after, answer) ==
    CASE call.op = "createUser" ->
           \E id \in Ids \ DOMAIN before :
               after = WithRow(before, id, call.name) /\ answer = UserDTO(id, call.name)
      [] call.op = "getUser" -> after = before /\ answer = Found(before, call.userId)
      [] call.op = "updateUser" ->
           \/ /\ call.userId \in DOMAIN before
              /\ after = [before EXCEPT ![call.userId] = call.name]
              /\ answer = UserDTO(call.userId, call.name)
           \/ /\ call.userId \in DOMAIN before => implementation = "ApacheDBUtils"
              /\ after = before /\ answer = Exception
      [] call.op = "deleteUser" ->
           /\ after = [id \in DOMAIN before \ {call.userId} |-> before[id]]
           /\ \/ answer = Nothing
              \/ answer = Exception /\ call.userId \notin DOMAIN before
      [] call.op = "getAllUsers" -> after = before /\ answer = Listed(before)
      [] call.op = "getUsers" ->
           LET first == call.page * call.itemsPerPage
               onPage == {k \in DOMAIN Rows(before) :
                              k > first /\ k <= first + call.itemsPerPage}
           IN  /\ after = before
               /\ \/ onPage = {} /\ answer = Exception
                  \/ /\ onPage # {} /\ answer.is = "page"
                     /\ answer.totalItems = Len(Rows(before))
                     /\ answer.pageNumber = call.page
                     /\ answer.items = [k \in 1 .. Cardinality(onPage) |-> Rows(before)[first + k]]
                  \/ first >= 2 ^ (IntBits - 1)

(* A call keeps the promise, with any of the implementations, unless       *)
(* another client changes the table in the middle of it or a statement     *)
(* fails.  Of a page whose first row is no int nothing can be said: the    *)
(* code multiplies without a check, and may answer with another page.      *)
UndisturbedCallsKeepPromise ==
    [][\A c \in Clients :
          (Returns(c) /\ client'[c].answer # SQLException) =>
              \A before \in client[c].before :
                  Promise(client[c].call, before, users', client'[c].answer)]_vars

(* No two calls of createUser are about one user.  The user a caller is    *)
(* told of is not one that an earlier call has told somebody of, nor one   *)
(* that a call left behind whose second statement failed - so a retry of   *)
(* that makes another user -, nor one that another call under way has      *)
(* inserted; and no deletion in between makes its id come again.           *)
CreatesAnswerNewUsers ==
    [][\A c \in Clients :
          (Creates(c) /\ client'[c].answer.is = "user") =>
              LET id == client'[c].answer.userId
              IN  /\ id \notin settled
                  /\ \A d \in Clients \ {c} :
                        At(d, "inserted", "createUser") => client[d].number # id]_vars
=============================================================================
