\* One text; up to four faults between its filing and its delivery.
SPECIFICATION FaultSpec
CONSTANTS
    MaxMsgs = 1
    Oversized <- NoOversized
    AutoResendMax = 1
    MaxGen = 2
    MaxFaults = 4
INVARIANTS
    TypeOK
    RefusedNeverPublished
    PublishedStaysKnown
    DeliveredWasHeld
    GenerationsNeverReused
    RestartLosesNothingSettled
PROPERTIES
    PublishedIsRecoverable
    ImplementsContract
