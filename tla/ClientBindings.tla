--------------------------- MODULE ClientBindings ---------------------------
(***************************************************************************)
(* What the multicast client promises to an administrator, whatever table  *)
(* it keeps: each pair of a server address and a port is bound to at most  *)
(* one multicast group, and a request answered with an error has changed   *)
(* nothing.  A binding is refused for lack of room only when there are     *)
(* GrpMax of them.                                                         *)
(*                                                                         *)
(* It is abstracted from the requests that multic_nl.c dispatches; the     *)
(* table of multic_grp.c (module ClientTable) is shown to implement it.    *)
(***************************************************************************)
EXTENDS Naturals, FiniteSets

CONSTANTS
  Keys,     \* pairs of a server address and a port
  Groups,   \* multicast addresses
  NoGroup,  \* no binding
  GrpMax    \* MULTI_GRP_MAX

VARIABLES
  group,  \* group[k]: the group that packets from k are delivered to
  ret     \* the answer to the last request

absVars == <<group, ret>>

BoundKeys == {k \in Keys : group[k] # NoGroup}

AbsInit ==
  /\ group = [k \in Keys |-> NoGroup]
  /\ ret = "ok"

\* A key that is bound to another group is bound anew.
AbsBind(k, g) ==
  /\ group[k] # g
  /\ group' = [group EXCEPT ![k] = g]
  /\ ret' = "ok"

AbsBoundAlready(k, g) ==
  /\ group[k] = g
  /\ ret' = "MULTI_NODE_EXSIT"
  /\ UNCHANGED group

AbsNoRoom ==
  /\ GrpMax <= Cardinality(BoundKeys)
  /\ ret' = "MULTI_TBL_FULL"
  /\ UNCHANGED group

AbsUnbind(k) ==
  /\ k \in BoundKeys
  /\ group' = [group EXCEPT ![k] = NoGroup]
  /\ ret' = "ok"

AbsMissing(k) ==
  /\ k \notin BoundKeys
  /\ ret' = "MULTI_NODE_NOT_EXSIT"
  /\ UNCHANGED group

AbsClear ==
  /\ group' = [k \in Keys |-> NoGroup]
  /\ ret' = "ok"

AbsRead ==
  /\ ret' = "ok"
  /\ UNCHANGED group

AbsNext ==
  \/ \E k \in Keys, g \in Groups : AbsBind(k, g) \/ AbsBoundAlready(k, g)
  \/ \E k \in Keys : AbsUnbind(k) \/ AbsMissing(k)
  \/ AbsNoRoom
  \/ AbsClear
  \/ AbsRead

AbsSpec == AbsInit /\ [][AbsNext]_absVars
=============================================================================
