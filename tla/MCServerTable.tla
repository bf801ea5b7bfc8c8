--------------------------- MODULE MCServerTable ---------------------------
(***************************************************************************)
(* Instances of ServerTable for TLC.                                       *)
(***************************************************************************)
EXTENDS ServerTable, TLC

CONSTANTS g1, g2, g3

MCGroups == {g1, g2, g3}

\* All groups in one bucket: the rows fill up.
OneBucket == {0}
HashToOne == [g \in MCGroups |-> 0]

VMSymmetry == Permutations(VMs)

\* Member lists of up to three of four addresses.
List == INSTANCE VmList WITH Addresses <- 1 .. 4, NoAddress <- 0, MaxLen <- 3

ASSUME List!LoopsComputeSets
=============================================================================
