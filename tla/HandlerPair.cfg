SPECIFICATION Spec
CONSTANTS
    h1 = h1  h2 = h2  x = x  y = y  z = z
    old = old  new = new  other = other
    Handlers = {h1, h2}
    NoHandler = NoHandler
    Names = {x, y}
    Specs = {old, new, other}
    NoSpec = NoSpec
    Version <- MCVersion
    Batch <- PairBatch
    Existing <- MixedExisting
    MaxId = 4
    Faults = {"tx", "rmb", "rmbLost", "workload", "timeout"}
INVARIANTS FailedDeployUndone SuccessMeansDeployed
PROPERTY ImplementsLedger
