--------------------------- MODULE MCClientTable ---------------------------
(***************************************************************************)
(* Instance of ClientTable for TLC.                                        *)
(***************************************************************************)
EXTENDS ClientTable, TLC

CONSTANTS k1, k2, k3, k4, k5

\* Three keys collide in bucket 0 and two in bucket 1.
MCKeys == {k1, k2, k3, k4, k5}
MCBuckets == 0 .. 1
MCHash == [k \in MCKeys |-> IF k \in {k4, k5} THEN 1 ELSE 0]

MCSymmetry ==
  Permutations(Callers) \cup Permutations(Groups)
    \cup Permutations({k1, k2, k3}) \cup Permutations({k4, k5})
=============================================================================
