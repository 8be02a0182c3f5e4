\* Refused and uncertain writes, two deaths, or a departure that fails; every founder may leave.
SPECIFICATION CrashSpec
CONSTANTS
    Node = {1, 2, 3}
    Founders = {2, 3}
    Creator = 3
    BufferCap = 2
    MaxCommits = 3
    Leavers = {2, 3}
    Faults = {"store", "log", "crash", "leave"}
    MaxCrashes = 2
INVARIANTS
    AuthorKeepsCommit
    RejoinHasCause
    NoFork
    OneAdmin
\* Everyone may have left.
CHECK_DEADLOCK FALSE
