-------------------------- MODULE MulticastGroups --------------------------
(***************************************************************************)
(* What the multicast server promises to an administrator, whatever table  *)
(* it keeps: a set of multicast groups, each with a set of member VMs, and *)
(* one answer per request.  A request answered with an error has changed   *)
(* nothing; a request answered 0 has had exactly its effect and no other.  *)
(*                                                                         *)
(* It is abstracted from the requests that multis_nl.c dispatches; the     *)
(* table of multis_grp.c (module ServerTable) is shown to implement it.    *)
(***************************************************************************)
EXTENDS Naturals, FiniteSets

CONSTANTS
  Groups,   \* multicast addresses the administrator uses
  VMs,      \* addresses of member VMs
  VmMax,    \* MULTI_VM_MAX: members of one group, at most
  GrpMax    \* MULTI_GRP_MAX: groups, at most

VARIABLES
  groups,   \* the groups that exist
  members,  \* members[g]: the VMs of group g; empty for a group that does not exist
  ret       \* the answer to the last request

absVars == <<groups, members, ret>>

\* The answers of the kernel module (enum of grp.h).
Answers == {"ok", "MULTI_NODE_NOT_EXSIT", "MULTI_IDX_EXHAUST", "MULTI_PARAM_ERROR"}

\* The member lists one request can carry: parse_arg.h drops repeated addresses,
\* refuses more than MULTI_VM_MAX of them, and "-A -m G" carries none.
Requests == {R \in SUBSET VMs : Cardinality(R) <= VmMax}

AbsTypeOK ==
  /\ groups \subseteq Groups
  /\ members \in [Groups -> SUBSET VMs]
  /\ ret \in Answers

AbsInit ==
  /\ groups = {}
  /\ members = [g \in Groups |-> {}]
  /\ ret = "ok"

\* A join creates the group if need be and adds the VMs to it.
AbsJoin(g, R) ==
  /\ groups' = groups \cup {g}
  /\ Cardinality(members[g] \cup R) <= VmMax
  /\ members' = [members EXCEPT ![g] = @ \cup R]
  /\ ret' = "ok"

\* A refused join leaves no trace.
AbsJoinRefused(g, R) ==
  /\ ret' = IF g \in groups THEN "MULTI_PARAM_ERROR" ELSE "MULTI_IDX_EXHAUST"
  /\ g \in groups => Cardinality(R) + Cardinality(members[g]) > VmMax
  /\ UNCHANGED <<groups, members>>

\* Requests about a group that does not exist change nothing.
AbsMissing(g) ==
  /\ g \notin groups
  /\ ret' = "MULTI_NODE_NOT_EXSIT"
  /\ UNCHANGED <<groups, members>>

AbsQuit(g, R) ==
  /\ g \in groups
  /\ members' = [members EXCEPT ![g] = @ \ R]
  /\ ret' = "ok"
  /\ UNCHANGED groups

\* Deleting a group that does not exist is answered like any other deletion.
AbsDelete(g) ==
  /\ groups' = groups \ {g}
  /\ members' = [members EXCEPT ![g] = {}]
  /\ ret' = "ok"

AbsClear ==
  /\ groups' = {}
  /\ members' = [g \in Groups |-> {}]
  /\ ret' = "ok"

AbsRead ==
  /\ ret' = "ok"
  /\ UNCHANGED <<groups, members>>

AbsNext ==
  \/ \E g \in Groups, R \in Requests :
       AbsJoin(g, R) \/ AbsJoinRefused(g, R) \/ AbsQuit(g, R)
  \/ \E g \in Groups : AbsMissing(g) \/ AbsDelete(g)
  \/ AbsClear
  \/ AbsRead

AbsSpec == AbsInit /\ [][AbsNext]_absVars

-----------------------------------------------------------------------------
(* AbsSpec leaves the server free to refuse a new group.  A server whose   *)
(* table has a place for every group refuses when it is full, and then     *)
(* only.                                                                   *)

\* A request may have to find room for addresses that are members already.
Fits(g, R) == Cardinality(R) + Cardinality(members[g]) <= VmMax
HasRoom(g, R) == IF g \in groups THEN Fits(g, R) ELSE Cardinality(groups) < GrpMax

ExactJoin(g, R) == HasRoom(g, R) /\ AbsJoin(g, R)
ExactJoinRefused(g, R) == ~HasRoom(g, R) /\ AbsJoinRefused(g, R)

ExactNext ==
  \/ \E g \in Groups, R \in Requests :
       ExactJoin(g, R) \/ ExactJoinRefused(g, R) \/ AbsQuit(g, R)
  \/ \E g \in Groups : AbsMissing(g) \/ AbsDelete(g)
  \/ AbsClear
  \/ AbsRead
=============================================================================
