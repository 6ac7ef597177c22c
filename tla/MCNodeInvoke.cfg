SPECIFICATION MCSpec
CONSTANTS
    n = n
    c1 = c1
    c2 = c2
    i1 = i1
    i2 = i2
    a = a
    x = x
    None = None
    r1 = r1
    Ids = {a}
    ShortIds = {}
    Requests = {r1}
    Waiters = {}
    Bindings = {x}
    Privileged = {x}
    Nodes = {n}
    Conns = {c1, c2}
    Invokes = {i1, i2}
    NodeOf <- MCNodeOf
    Target <- MCTarget
    Commands <- MCCommands
    Keys = {1, 2}
    MaxActions = 1
INVARIANTS WaitsForConnectedNode
PROPERTIES  InvokeAnswered
CHECK_DEADLOCK FALSE
