CONSTANTS
    c1 = c1  c2 = c2  c3 = c3
    i1 = i1  i2 = i2  i3 = i3  i4 = i4
    x = x  y = y
    Clients = {c1, c2}
    TodoIds = {i1, i2, i3, i4}
    Texts = {x}
    UnknownTodo = UnknownTodo
    NoTodo = NoTodo
    NoClient = NoClient
    MaxTodos = 3
    MaxEvents = 2
SPECIFICATION Spec
INVARIANTS LimitHolds
