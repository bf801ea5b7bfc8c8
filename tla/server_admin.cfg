\* Two tools, or one and the recovery's, on two groups of which the limit lets one exist,
\* with a member list of one entry; two commands; one tool killed or one power loss.
CONSTANTS
  Groups = {g1, g2}
  VMs = {v1}
  VmMax = 1
  Tools = {t1, t2}
  Inodes = {i1, i2, i3}
  NoFile = NoFile
  NoGroup = NoGroup
  GrpMax = 1
  MaxCommands = 2
  MaxKills = 1
SPECIFICATION AdminSpec
SYMMETRY MCSymmetry
VIEW MCView
INVARIANTS AdminTypeOK InSyncUnlessStale
PROPERTIES StopSavesServed RecoveryComplete RefusedByFileFirst
