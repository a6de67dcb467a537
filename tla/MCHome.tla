------------------------------- MODULE MCHome -------------------------------
(***************************************************************************)
(* The home's apps (HomeApps, on the scenarios of MCApps), accounts and    *)
(* access (HomeAccess, on AccessScenarios), and desktops: their trust      *)
(* (DesktopEnrollment, on TrustScenarios) and the pumps of a paired        *)
(* session (DesktopPipe).  They share no state the properties look at, so  *)
(* one of them has something to do in a behaviour and the others stay as   *)
(* they start, the pumps stopped.                                          *)
(***************************************************************************)
EXTENDS MCApps, HomeAccounts, DesktopTrust

CONSTANTS Sizes, MaxFrames, MaxQueueBytes, MaxFrameBytes, MaxBytesPerSecond

ASSUME SizesAssumption == Sizes \subseteq Nat \ {0}
ASSUME LimitsAssumption == {MaxFrames, MaxQueueBytes, MaxFrameBytes, MaxBytesPerSecond} \subseteq Nat

VARIABLES
    accessHttp, accessAnswers, accessLeft, trustAnswers, trustLeft,
    sent, frames, queuedBytes, available, space, reader, timer, window, writer, held, delivered, counted, ended,
    reported

accessVars == <<accounts, access, permissions, fleet, accessHttp, accessAnswers, accessLeft, scoped>>
trustVars == <<tables, relays, job, requests, trustAnswers, trustLeft, history>>
pumps ==
    <<sent, frames, queuedBytes, available, space, reader, timer, window, writer, held, delivered, counted, ended,
      reported>>

AllAccess == INSTANCE AccessScenarios
AllTrust == INSTANCE TrustScenarios
MCAccessScenarios == AllAccess!AccessScenarios
MCTrustScenarios == AllTrust!TrustScenarios

Access ==
    INSTANCE HomeAccess WITH
        Scenarios <- MCAccessScenarios, http <- accessHttp, answers <- accessAnswers, left <- accessLeft
Trust ==
    INSTANCE DesktopEnrollment WITH Scenarios <- MCTrustScenarios, answers <- trustAnswers, left <- trustLeft
Pipe == INSTANCE DesktopPipe

ASSUME AccessAssumption == \A sc \in MCAccessScenarios : Access!Startable(sc)
ASSUME TrustAssumption == Unset \notin Logins /\ \A sc \in MCTrustScenarios : Trust!Startable(sc, AllTrust!OperatorIds)

\* The pumps of a session that ended before it carried a frame.
PumpsOver ==
    /\ sent = <<>> /\ frames = <<>> /\ queuedBytes = 0 /\ available = FALSE /\ space = FALSE
    /\ reader = "stopped" /\ timer = "stopped" /\ window = 0 /\ writer = "stopped" /\ held = 0
    /\ delivered = <<>> /\ counted = 0 /\ ended = TRUE /\ reported = [set |-> TRUE, bytes |-> 0]

\* The scenarios, and one in which nothing happens (the others have theirs).
MCAppScenarios == MCScenarios \union {Start(<< >>, "admins_only", {})}

HomeInit ==
    /\ HomeAppsInit
    /\ Access!Init /\ (left = {} \/ accessLeft = {})
    /\ Trust!Init /\ (trustLeft = {} \/ (left = {} /\ accessLeft = {}))
    /\ PumpsOver \/ (Pipe!Init /\ left = {} /\ accessLeft = {} /\ trustLeft = {})

HomeNext ==
    \/ HomeAppsNext /\ UNCHANGED <<accessVars, trustVars, pumps>>
    \/ Access!Next /\ UNCHANGED <<vars, trustVars, pumps>>
    \/ Trust!Next /\ UNCHANGED <<vars, accessVars, pumps>>
    \/ Pipe!Next /\ UNCHANGED <<vars, accessVars, trustVars>>

HomeSpec ==
    HomeInit /\ [][HomeNext]_<<vars, accessVars, trustVars, pumps>> /\ HomeAppsFairness /\ Pipe!Fairness

-----------------------------------------------------------------------------
(* The components' properties, under the names of this module. *)

\* The app an invocation uses is the one the agent's next start loads, unless the disk refused the last
\* write for it; its configuration and secrets are the ones an admin stored last, or none after an
\* install that was cut off, and never a mixture; and a package that was accepted can be put on the
\* disk (HomeApps: DiskAgreesWithManager, ConfigurationIsWhole, AcceptedPackagesInstall).
AgentAppsConsistent == DiskAgreesWithManager /\ ConfigurationIsWhole /\ AcceptedPackagesInstall

\* The relay forwards the frames of a desktop in order, none lost and none twice, keeps the queue
\* within its budget, reports the bytes it delivered, and leaves no pump asleep that could go on and
\* has no token coming (DesktopPipe: InOrder, QueueWithinBudget, ReportIsDelivered, NoLostWakeup).
FramesAreAccounted ==
    Pipe!InOrder /\ Pipe!QueueWithinBudget /\ Pipe!ReportIsDelivered /\ Pipe!NoLostWakeup

\* Every frame that was read is delivered or its session ends, and when a session ends both its pumps
\* return (DesktopPipe).
FramesArriveOrEnd == Pipe!FramesArriveOrEnd
=============================================================================
