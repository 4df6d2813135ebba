SPECIFICATION Spec
CONSTANTS
    n1 = n1  n2 = n2  a = a  b = b  m = m  k = k  z = z  g = g  q = q
    Calls = {c1, c2, c3}
    Names = {m, k, z, g, q}
    Module <- MCModule
    Instances = {a, b}
    Masters = {a}
    Nodes = {n1, n2}
    Ids = {i1, i2, i3}
    NoName = NoName  NoInstance = NoInstance  NoNode = NoNode  LeastZdbs = 2
    Requests <- AllRequests
    Faults = {"rmb", "deploy", "crash"}
SYMMETRY Symmetry
INVARIANTS TypeOK OwnContracts NothingForgotten InfoNamesDeployment
PROPERTIES ReturnsDone OnlyInstanceGone
CHECK_DEADLOCK FALSE
