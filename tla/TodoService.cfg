CONSTANTS
    c1 = c1  c2 = c2  c3 = c3
    i1 = i1  i2 = i2  i3 = i3  i4 = i4
    x = x  y = y
    Clients = {c1, c2}
    TodoIds = {i1, i2}
    Texts = {x, y}
    UnknownTodo = UnknownTodo
    NoTodo = NoTodo
    NoClient = NoClient
    MaxTodos = 1
    MaxEvents = 3
SPECIFICATION Spec
SYMMETRY Symmetric
INVARIANTS EventLogWellFormed ReadModelMatchesEvents OneUncommittedPerTodo CountWithinLimit
PROPERTIES DriftsByOverwriting
