\* Two commands, at once or not, on the shipped group and a new one; two kills, failed binds or
\* stops of the service.
CONSTANTS
  g1 = g1
  g2 = g2
  v1 = v1
  v2 = v2
  NoG = NoGroup
  NoGroup = NoGroup
  NoFile = NoFile
  Groups = {g1, g2}
  VMs = {v1, v2}
  Ports = {0, 1}
  DefaultPort = 0
  Tools = {t1, t2}
  Requests <- MCRequests
  Shipped <- MCShipped
  Backlog = 1
  MaxCommands = 2
  MaxFaults = 2
SPECIFICATION AdminSpec
CHECK_DEADLOCK FALSE
INVARIANTS AdminTypeOK AskedIsKept JoinedIsServed
PROPERTIES LoadedInTheEnd RestartedInTheEnd
