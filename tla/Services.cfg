\* One client and three todos, of which two may be there at once; two clients of
\* two servers, which start three times; one thread of the netty client.
SPECIFICATION Spec
CONSTANTS
    Running = {"axon", "rpc", "netty"}
    TodoClients = {c1}
    TodoIds = {i1, i2, i3}
    Texts = {x, y}
    UnknownTodo = UnknownTodo
    NoTodo = NoTodo
    NoClient = NoClient
    MaxTodos = 2
    MaxEvents = 3
    Clients = {c1, c2}
    Servers = {s1, s2}
    Stray = Stray
    NoRequest = NoRequest
    MaxRpcs = 1
    MaxMakes = 3
    MaxStrays = 0
    Callers = {t1}
    NoSum = NoSum
    Garbage = Garbage
    MaxCalls = 4
INVARIANTS SerialCallsCount OwnSum
PROPERTIES RpcReturns CallReturns
\* Clients and servers may all be closed.
CHECK_DEADLOCK FALSE
