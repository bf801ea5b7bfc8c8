--------------------------- MODULE MCClientAdmin ---------------------------
(***************************************************************************)
(* Instance of ClientAdmin for TLC.                                        *)
(***************************************************************************)
EXTENDS ClientAdmin, TLC

MCSymmetry == Permutations(Tools) \cup Permutations(Groups) \cup Permutations(Keys)

\* The kernel's last answer decides nothing.
MCView == <<group, running, tool, accidents, order, stale>>
=============================================================================
