SPECIFICATION RoutingSpec
CONSTANTS
  Agents = {a1}
  PrimaryAgents = {a1}
  Sockets = {c1, c2}
  NoSocket = NoSocket
  NoAgent = NoAgent
PROPERTIES
  CleanupKeepsOtherSockets
CHECK_DEADLOCK FALSE
