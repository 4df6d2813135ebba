SPECIFICATION FairSpec
CONSTANTS
    a = a  b = b  c = c  q = q  alice = alice  bob = bob
    Calls = {a, b, q}
    NoCall = NoCall
    Clients = {alice, bob}
    ClientOf <- TwoClients
    Section <- Mixed
    MaxConnections = 3
    Faults = {"init", "refused", "unanswered", "watch", "failed", "failedOther", "dropped",
              "disconnect"}
PROPERTIES ImplementsSerial AllAnswered
CHECK_DEADLOCK FALSE
