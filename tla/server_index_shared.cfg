\* One group more than multi_grp_idx has values, below MULTI_GRP_MAX; the word is wide enough.
CONSTANTS
  g1 = g1
  g2 = g2
  g3 = g3
  Groups <- MCGroups
  VMs = {v1, v2, v3}
  NoGroup = NoGroup
  Buckets <- OneBucket
  mulit_hash_key <- HashToOne
  GrpDepth = 4
  GrpMax = 5
  VmMax = 2
  IdxMod = 2
  RowMod = 3
  BitmapBits = 5
SPECIFICATION Spec
SYMMETRY VMSymmetry
INVARIANT IndexesDistinct
