SPECIFICATION FairSpec
CONSTANTS
    a = a  b = b  c = c  q = q  alice = alice  bob = bob
    Calls = {a, b}
    NoCall = NoCall
    Clients = {alice}
    ClientOf <- OneUser
    Section <- TransferFirst
    MaxConnections = 3
    Faults = {"failed"}
PROPERTY AllAnswered
CHECK_DEADLOCK FALSE
