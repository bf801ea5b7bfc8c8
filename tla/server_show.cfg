\* Two rows in a bucket, fewer indexes than rows: both refusals happen, and a SHOW can meet
\* more groups than there are at once.  One reader walks beside requests, two overlap.
CONSTANTS
  g1 = g1
  g2 = g2
  g3 = g3
  g4 = g4
  g5 = g5
  Groups = {g1, g2, g3, g4, g5}
  VMs = {v1}
  NoGroup = NoGroup
  Buckets <- MCBuckets
  mulit_hash_key <- MCHash
  GrpDepth = 2
  GrpMax = 3
  VmMax = 3
  IdxMod = 4
  RowMod = 4
  BitmapBits = 3
  Readers = {p1, p2}
  MaxBeside = 2
SPECIFICATION ShowSpec
SYMMETRY ShowSymmetry
VIEW ShowView
INVARIANT AnswersTrue
PROPERTY RefusedOnlyWhenFull
