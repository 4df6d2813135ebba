SPECIFICATION FairSpec
CONSTANTS
    h1 = h1  h2 = h2  x = x  y = y  z = z
    old = old  new = new  other = other
    Handlers = {h1, h2}
    NoHandler = NoHandler
    Names = {x, y, z}
    Specs = {old, new, other}
    NoSpec = NoSpec
    Version <- MCVersion
    Batch <- GatewayBatch
    Existing <- GatewayExisting
    MaxId = 6
    Faults = {"query", "tx", "txUnknown", "cancel", "rmb", "workload", "timeout"}
INVARIANTS NamesBacked NamesReleased
PROPERTIES ImplementsLedger AllSettle
