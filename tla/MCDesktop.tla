----------------------------- MODULE MCDesktop -----------------------------
(***************************************************************************)
(* Values of the constants of DesktopSessions for model checking.  All     *)
(* sessions are of one agent.  A behaviour has two sockets in one epoch,   *)
(* or one socket with a reconnect and a restart, or two sessions that      *)
(* compete for the agent.                                                  *)
(***************************************************************************)
EXTENDS DesktopSessions

CONSTANTS s1, s2

MCSessions == {s1, s2}
MCClaims == [session : MCSessions, epoch : 1 .. MaxEpoch, window : 0 .. MaxWindows]
MCAgentOf == [s \in MCSessions |-> CHOOSE a \in Agents : TRUE]
MCLimits ==
    {[sessions |-> {s1}, epochs |-> 1, windows |-> 0, sockets |-> 2, restarts |-> 0],
     [sessions |-> {s1}, epochs |-> 2, windows |-> 2, sockets |-> 1, restarts |-> 1],
     [sessions |-> {s1, s2}, epochs |-> 1, windows |-> 0, sockets |-> 0, restarts |-> 0]}
=============================================================================
