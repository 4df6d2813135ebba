SPECIFICATION FairSpec
CONSTANTS
    h1 = h1  h2 = h2  x = x  y = y  z = z
    old = old  new = new  other = other
    Handlers = {h1}
    NoHandler = NoHandler
    Names = {x, y}
    Specs = {old, new, other}
    NoSpec = NoSpec
    Version <- MCVersion
    Batch <- MixedBatch
    Existing <- MixedExisting
    MaxId = 4
    Faults = {"capacity", "query", "tx", "txUnknown", "cancel", "rmb", "rmbLost", "workload", "timeout", "storage", "external"}
INVARIANT TypeOK
PROPERTIES ImplementsLedger AllSettle
