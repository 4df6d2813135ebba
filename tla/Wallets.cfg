SPECIFICATION Spec
CONSTANTS
    c1 = c1  c2 = c2  c3 = c3  s = s  t = t
    Calls = {c1, c2, c3}
    Names = {"a", "b", "d", "e"}
    Secrets = {s, t}
    NoSecret = NoSecret  End = End
    Backends = {"fs", "tfkvstore"}
    ChunkSize = 2
    MaxChunks = 3
    Requests <- MCRequests
    FirstWallets <- MCFirstWallets
    Faults = {"account", "write", "crash"}
INVARIANTS TypeOK ReadsBack WalletsKept
PROPERTY UpdateRestores
SYMMETRY Symmetry
CHECK_DEADLOCK FALSE
