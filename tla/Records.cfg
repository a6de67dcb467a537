CONSTANTS
    HomeOwner = "owner"
    Guests = {"guest", "other"}
    Ids <- MCIds
    Names <- MCNames
    Requests = {"r1", "r2", "r3", "r4", "r5"}
    Conns = {"c1", "c2", "c3"}
    SessionOf <- MCSessionOf
    UserOf <- MCUserOf
    Operations <- MCOperations
    Scenarios <- MCScenarios
    Attachments = {"f1", "f2"}
    MaxAttempts = 2
SPECIFICATION Spec
INVARIANTS
    EditingIsShared
    NotebookHierarchy
    LiveAttachmentsHaveFiles
    RunsActOnce
    IndexFollowsSources
PROPERTIES
    NotesSettle
    QuietSyncAgrees
    JobsSettle
CHECK_DEADLOCK FALSE
