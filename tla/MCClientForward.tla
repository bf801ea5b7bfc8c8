-------------------------- MODULE MCClientForward --------------------------
(***************************************************************************)
(* Instance of ClientForward for TLC.                                      *)
(***************************************************************************)
EXTENDS ClientForward, TLC

CONSTANTS any, port

\* A server's key with port 0 and its key with another port, in one bucket.
MCKeys == {any, port}
MCAnyPort == [k \in MCKeys |-> any]
MCBuckets == {0}
MCHash == [k \in MCKeys |-> 0]

MCSymmetry == Permutations(Groups) \cup Permutations(CPUs) \cup Permutations(Callers)
=============================================================================
