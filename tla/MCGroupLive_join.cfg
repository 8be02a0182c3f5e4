\* One joiner, an admin that may die twice, frames that may not get out.
SPECIFICATION JoinSpec
CONSTANTS
    Node = {1, 2, 3}
    Founders = {2, 3}
    Creator = 3
    BufferCap = 2
    MaxCommits = 1
    Leavers = {}
    Faults = {"publish", "crash"}
    MaxCrashes = 2
PROPERTY
    JoinSettles
