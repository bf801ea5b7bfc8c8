\* Two workers of each kind of server, one of the client (its workers only read).
CONSTANTS
  g1 = g1
  g2 = g2
  v1 = v1
  v2 = v2
  v3 = v3
  w1 = w1
  w2 = w2
  s1 = s1
  s2 = s2
  m1 = m1
  m2 = m2
  Zero = Zero
  Groups = {g1, g2}
  VMs = {v1, v2, v3}
  GroupBuckets = 1
  GroupHash <- MCHash
  GrpMax = 3
  VmMax = 3
  Configs <- MCConfigs
  Packets <- MCPackets
  Workers = {w1, w2}
  FdMax = 1
  MaxReloads = 1
  MaxPackets = 2
  Servers = {s1, s2}
  GroupPorts = {1, 2, 3}
  ServerPorts = {0, 1, 2}
  MultiIps = {m1, m2}
  NodeBuckets = 2
  NodeDepth = 2
  ip_port_hash_key <- MCKeyHash
  NoAddress = NoAddress
  Cut = Cut
  ClientFiles <- MCFiles
  Additions <- MCAdditions
  Deletions <- MCDeletions
  ClientTools = {t1, t2}
  Receivers = {r1}
  MaxCommands = 2
  Devices = 2
  Processors = {1, 3}
  QUEUE_COUNT = 2
  QUEUE_SIZE = 2
  MaxCaptured = 3
SPECIFICATION UserlandSpec
SYMMETRY WorkerSymmetry
CHECK_DEADLOCK FALSE
INVARIANTS ForwardTypeOK ExactAtRest WholeOrNothing CountersExact ServesTheFile SentAsConfigured QueueIsFifo ListOutlivesReaders
