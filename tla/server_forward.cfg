\* Two CPUs; a second group in the bucket makes a request spin, as it does in the code
\* from the 257th on, and packets under way go on.
CONSTANTS
  g1 = g1
  g2 = g2
  Groups <- MCGroups
  VMs = {v1, v2}
  NoGroup = NoGroup
  Buckets <- MCBuckets
  mulit_hash_key <- MCHash
  GrpDepth = 1
  GrpMax = 2
  VmMax = 2
  IdxMod = 2
  RowMod = 1
  BitmapBits = 2
  CPUs = {c1, c2}
  MaxPackets = 2
SPECIFICATION ForwardSpec
SYMMETRY MCSymmetry
INVARIANTS ForwardTypeOK ExactUnlessOverlapped CountsOwnCopies
CHECK_DEADLOCK FALSE
