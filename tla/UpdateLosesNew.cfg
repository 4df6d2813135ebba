SPECIFICATION Spec
CONSTANTS
    a = a  b = b  net = net  p = p  q = q
    Nodes = {1}
    Names = {a, b}
    Net = net
    Contents = {p, q}
    MaxBatch = 1
    MaxVersion = 1
    MaxId = 1
INVARIANT NewWorkloadsAdded
CHECK_DEADLOCK FALSE
