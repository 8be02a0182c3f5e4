\* Two admissions, of which the other founder may miss the first.
SPECIFICATION GapSpec
CONSTANTS
    Node = {1, 2, 3, 4}
    Founders = {3, 4}
    Creator = 4
    BufferCap = 2
    MaxCommits = 2
    Leavers = {}
    Faults = {"crash"}
    MaxCrashes = 1
PROPERTY
    GapCloses
