\* Two tools on three keys, two of which fill the table; two accidents: tools killed, messages lost.
CONSTANTS
  Keys = {k1, k2, k3}
  Groups = {g1, g2}
  NoGroup = NoGroup
  NoKey = NoKey
  ZeroAddress = ZeroAddress
  GrpMax = 2
  Tools = {t1, t2}
  MaxAccidents = 2
SPECIFICATION AdminSpec
SYMMETRY MCSymmetry
VIEW MCView
INVARIANTS AdminTypeOK InSyncUnlessStale
