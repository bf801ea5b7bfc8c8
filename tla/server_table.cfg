\* The shape of the real constants: BitmapBits < IdxMod = RowMod < GrpDepth < GrpMax,
\* with as many groups as the word has bits, all of them in one bucket.
CONSTANTS
  g1 = g1
  g2 = g2
  g3 = g3
  Groups <- MCGroups
  VMs = {v1, v2, v3}
  NoGroup = NoGroup
  Buckets <- OneBucket
  mulit_hash_key <- HashToOne
  GrpDepth = 4
  GrpMax = 5
  VmMax = 2
  IdxMod = 3
  RowMod = 3
  BitmapBits = 3
SPECIFICATION Spec
SYMMETRY VMSymmetry
INVARIANTS TypeOK EveryGroupFound IndexesDistinct BitmapExact ListsMatch NeverSpins
PROPERTY ImplementsGroups
