-------------------------- MODULE MCServerForward --------------------------
(***************************************************************************)
(* Instance of ServerForward for TLC.                                      *)
(***************************************************************************)
EXTENDS ServerForward, TLC

CONSTANTS g1, g2

\* Both groups in the one bucket.
MCGroups == {g1, g2}
MCBuckets == {0}
MCHash == [g \in MCGroups |-> 0]

MCSymmetry == Permutations(MCGroups) \cup Permutations(VMs) \cup Permutations(CPUs)
=============================================================================
