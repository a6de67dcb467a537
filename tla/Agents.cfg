SPECIFICATION LinkSpec
CONSTANTS
  Agents = {a1, a2}
  PrimaryAgents = {a1, a2}
  Sockets = {c1, c2}
  NoSocket = NoSocket
  NoAgent = NoAgent
  Commands = {p1, p2}
  Apps = {app}
  Requests = {r1, r2}
  Shells = {s1}
  MaxInFlight = 1
  MaxShells = 1
  MaxRestarts = 1
  None = None
INVARIANTS
  OfflineOnceAllClosed
  CommandsSettleOnce
PROPERTIES
  UnrouteHasCause
  LiveAgentBecomesOnline
  EveryCommandAnswered
CHECK_DEADLOCK FALSE
