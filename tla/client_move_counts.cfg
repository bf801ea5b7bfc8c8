\* One CPU, one packet: a node that has counted it is moved.
CONSTANTS
  any = any
  port = port
  Callers = {p1}
  Keys <- MCKeys
  Groups = {g1}
  NoKey = NoKey
  NoGroup = NoGroup
  Buckets <- MCBuckets
  ip_port_hash_key <- MCHash
  GrpDepth = 2
  GrpMax = 2
  RowMod = 2
  CPUs = {c1}
  AnyPort <- MCAnyPort
  MaxPackets = 1
SPECIFICATION ForwardSpec
PROPERTY CountersNeverDrop
CHECK_DEADLOCK FALSE
