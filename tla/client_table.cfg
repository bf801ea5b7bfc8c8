\* RowMod < GrpDepth as in the code, and room for more nodes than the bound on the
\* overshoot allows: two nodes let in, and a third bucket row to spin on.
CONSTANTS
  k1 = k1
  k2 = k2
  k3 = k3
  k4 = k4
  k5 = k5
  Callers = {c1, c2}
  Keys <- MCKeys
  Groups = {g1, g2}
  NoKey = NoKey
  NoGroup = NoGroup
  Buckets <- MCBuckets
  ip_port_hash_key <- MCHash
  GrpDepth = 3
  GrpMax = 2
  RowMod = 2
SPECIFICATION ClientSpec
SYMMETRY MCSymmetry
INVARIANTS ClientTypeOK EveryNodeFound NodeCntExact OvershootBounded
PROPERTY ImplementsBindings
CHECK_DEADLOCK FALSE
