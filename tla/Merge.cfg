SPECIFICATION Spec
CONSTANTS
    a = a  b = b  net = net  p = p  q = q
    Nodes = {1, 2}
    Names = {a, b}
    Net = net
    Contents = {p, q}
    MaxBatch = 2
    MaxVersion = 2
    MaxId = 1
SYMMETRY Symmetry
INVARIANTS TypeOK UpdateExact UpdatesApplied MergedOnce DeploysJoined
PROPERTY ChangeVersioned
CHECK_DEADLOCK FALSE
