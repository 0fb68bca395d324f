SPECIFICATION MCSpec
CONSTANTS
    Kinds = {"mem0", "hindsight", "openviking", "session"}
    Scopes = {"s1"}
    Tasks = {"t1", "t2"}
    Closers = {"k1", "k2"}
    Sources = 2
    BatchLimit = 1
    Pairs = 2
    MaxBatchAttempt = 2
    Hows = {"banks", "documents", "memories", "points"}
    Ids = {1, 2, 3, 4}
    Expected = {1, 2, 3}
    PageLimit = 2
    MaxPages = 2
    MaxChanges = 3
INVARIANTS NoReplay InOrder AttemptedWasSent ReadyIsSettled ClosedIsIdle AcceptedWasThere StableIsAccepted
PROPERTY CloseReturns
CHECK_DEADLOCK FALSE
