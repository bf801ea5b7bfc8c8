\* As in the code the row counter wraps below MULTI_GRP_DEPTH, and there is one group
\* more than the rows it reaches.
CONSTANTS
  g1 = g1
  g2 = g2
  g3 = g3
  Groups <- MCGroups
  VMs = {v1, v2, v3}
  NoGroup = NoGroup
  Buckets <- OneBucket
  mulit_hash_key <- HashToOne
  GrpDepth = 4
  GrpMax = 4
  VmMax = 2
  IdxMod = 4
  RowMod = 2
  BitmapBits = 4
SPECIFICATION Spec
SYMMETRY VMSymmetry
INVARIANT NeverSpins
