SPECIFICATION HomeSpec
CONSTANTS
    Scenarios <- MCAppScenarios
    AppOrder <- MCAppOrder
    SecretFields <- MCSecretFields
    Features = {"files", "notes"}
    Logins = {"l", "m"}
    Agents = {"a", "b"}
    Sizes = {1, 3, 4}
    MaxFrames = 4
    MaxQueueBytes = 2
    MaxFrameBytes = 3
    MaxBytesPerSecond = 4
INVARIANTS
    RevokedTrustStaysOut
    SessionsFollowTrust
    ProvisionedAccountsAreScoped
    EnrollmentIsExact
    AgentAppsConsistent
    RowsFollowAgent
    FramesAreAccounted
PROPERTIES
    MembersJoinByInvitation
    AgentIsFreeAgain
    FramesArriveOrEnd
CHECK_DEADLOCK FALSE
