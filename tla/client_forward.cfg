\* Two CPUs and one sender of requests; both keys in one bucket, so that deletions move a
\* row under packets on their way.
CONSTANTS
  any = any
  port = port
  Callers = {p1}
  Keys <- MCKeys
  Groups = {g1, g2}
  NoKey = NoKey
  NoGroup = NoGroup
  Buckets <- MCBuckets
  ip_port_hash_key <- MCHash
  GrpDepth = 2
  GrpMax = 2
  RowMod = 2
  CPUs = {c1, c2}
  AnyPort <- MCAnyPort
  MaxPackets = 2
SPECIFICATION ForwardSpec
SYMMETRY MCSymmetry
INVARIANTS ForwardTypeOK TotalCoversNodes CountsOwnUnlessMixed
CHECK_DEADLOCK FALSE
