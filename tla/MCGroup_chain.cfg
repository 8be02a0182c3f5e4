\* One admission and two departures, frames that do not get out, a full buffer.
SPECIFICATION CrashSpec
CONSTANTS
    Node = {1, 2, 3, 4}
    Founders = {2, 3, 4}
    Creator = 4
    BufferCap = 1
    MaxCommits = 3
    Leavers = {2, 4}
    Faults = {"publish"}
    MaxCrashes = 0
INVARIANTS
    TypeOK
    OneChain
