SPECIFICATION FairSpec
CONSTANTS
    s1 = s1
    s2 = s2
    Sessions <- MCSessions
    Agents = {a1}
    AgentOf <- MCAgentOf
    Claims <- MCClaims
    Handlers = {1, 2}
    Objects = {1, 2, 3}
    MaxSessions = 4
    MaxSessionsPerAgent = 1
    NoObject = NoObject
    NoHandler = NoHandler
    NoClaim = NoClaim
    MaxEpoch = 2
    MaxWindows = 2
    Limits <- MCLimits
INVARIANTS
    PairedByClaim
    JoinedOnce
PROPERTIES
    EndedStaysEnded
    AgentGivenBack
CHECK_DEADLOCK FALSE
