\* The older of two texts can never be published; three faults, three automatic resends.
SPECIFICATION LiveSpec
CONSTANTS
    MaxMsgs = 2
    Oversized <- FirstOversized
    AutoResendMax = 3
    MaxGen = 9
    MaxFaults = 3
PROPERTIES
    AcceptedSettles
    NoOvertaking
