CONSTANTS
    Cases = {c0, c1}
    PilotCases = {c0}
    Keys = {p}
    Workers = 2
    InfraLimit = 2
    LogKinds = {"ok", "other", "partial"}
    MaxStarts = 2
    MaxStops = 1
    MaxChanges = 1
SPECIFICATION FairSpec
INVARIANTS
    OnlyStartupTolerated
CHECK_DEADLOCK FALSE
