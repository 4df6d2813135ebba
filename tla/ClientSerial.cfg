SPECIFICATION Spec
CONSTANTS
    a = a  b = b  c = c  q = q  alice = alice  bob = bob
    Calls = {a, b, c, q}
    NoCall = NoCall
    Clients = {alice, bob}
    ClientOf <- TwoClients
    Section <- Mixed
    MaxConnections = 4
    Faults = {"init", "refused", "failed", "failedOther", "dropped", "disconnect"}
INVARIANTS TypeOK OneAtATime OneInPool OneConnection
PROPERTY ImplementsSerial
CHECK_DEADLOCK FALSE
