SPECIFICATION Spec
CONSTANTS
    n1 = n1  n2 = n2  n3 = n3  vm1 = vm1  vm2 = vm2  c1 = c1  c2 = c2
    Nodes = {n1, n2, n3}
    AccessNodes = {n2}
    Hidden = {n3}
    Calls = {c1, c2}
    Names = {"A", "B"}
    Machines = {vm1, vm2}
    MaxId = 4
    Requests <- MCRequests
    Beside <- MCBeside
    Faults = {"rmb", "deploy", "crash", "cancel"}
INVARIANTS TypeOK AddressesDistinct SubnetsDistinct InfoComplete RoutesUnique NetworkFreed
PROPERTY GrowsReachable
SYMMETRY Symmetry
CONSTRAINT OnlyClean
CHECK_DEADLOCK FALSE
