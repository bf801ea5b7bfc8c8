--------------------------- MODULE MCServerAdmin ---------------------------
(***************************************************************************)
(* Instance of ServerAdmin for TLC.                                        *)
(***************************************************************************)
EXTENDS ServerAdmin, TLC

\* There is always a file that nobody has open.
ASSUME EnoughInodes == Cardinality(Inodes) > Cardinality(Tools)

MCSymmetry == Permutations(Tools) \cup Permutations(Groups) \cup Permutations(Inodes)

\* The kernel's last answer, and what the file was before it is rewritten, decide nothing.
MCView == <<groups, members, running, startup, at, tool, scriptVars, bounds, historyVars>>
=============================================================================
