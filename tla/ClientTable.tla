---------------------------- MODULE ClientTable ----------------------------
(***************************************************************************)
(* The table of the multicast client's kernel module,                      *)
(* multi_client/kmod/multic_grp.c, and the netlink requests of multic_nl.c *)
(* that work on it.  A node binds a key, the pair of a server address and  *)
(* a port, to a multicast group, and counts the packets received for it.   *)
(*                                                                         *)
(* Each request runs in its sender's context and takes multi_lock, except  *)
(* for the first thing add_multi_node does: it compares node_cnt with      *)
(* MULTI_GRP_MAX before the lock, so other senders' requests come between. *)
(*                                                                         *)
(* The row counter of add_multi_node is a uint8_t.  MULTI_GRP_DEPTH is     *)
(* 512: the loop never gets to its end, and the answer MULTI_IDX_EXHAUST   *)
(* behind it is never given.                                               *)
(***************************************************************************)
EXTENDS Naturals, FiniteSets

CONSTANTS
  Callers,           \* processes that send requests
  Keys,              \* pairs of a server address and a port
  Groups,            \* multicast addresses
  NoKey, NoGroup,    \* zeros, in a node that is not created
  Buckets,           \* 0 .. MULTI_GRP_BUCKET-1
  ip_port_hash_key,  \* bucket of a key
  GrpDepth,          \* MULTI_GRP_DEPTH: rows of a bucket
  GrpMax,            \* MULTI_GRP_MAX
  RowMod             \* 2^8: values of the row counter of add_multi_node

ASSUME ClientAssumption ==
  /\ IsFiniteSet(Callers) /\ IsFiniteSet(Keys) /\ IsFiniteSet(Buckets)
  /\ NoKey \notin Keys
  /\ NoGroup \notin Groups
  /\ ip_port_hash_key \in [Keys -> Buckets]
  /\ GrpDepth \in Nat /\ GrpMax \in Nat \ {0}
  /\ RowMod \in 1 .. GrpDepth

VARIABLES
  multi_grp,  \* multi_grp[b][r]: the node in row r of bucket b
  node_cnt,   \* atomic counter of created nodes
  adding,     \* adding[c]: the key and group of c's request to add, between
              \* the comparison of node_cnt and spin_lock_bh
  spinning,   \* a request loops for ever inside the critical section
  ret         \* the answer to the last request

clientVars == <<multi_grp, node_cnt, adding, spinning, ret>>

Rows == 0 .. GrpDepth - 1

Answers == {"ok", "MULTI_NODE_EXSIT", "MULTI_NODE_NOT_EXSIT", "MULTI_TBL_FULL"}

Node == [multi_ip : Groups \cup {NoGroup}, key : Keys \cup {NoKey}, created : {0, 1},
         rx_packets : Nat]

\* A node after memset, and one that is deleted: del_multi_node leaves the counter.
ZeroNode == [multi_ip |-> NoGroup, key |-> NoKey, created |-> 0, rx_packets |-> 0]
Deleted(node) == [ZeroNode EXCEPT !.rx_packets = node.rx_packets]

Idle(c) == adding[c] = <<>>

Lock == ~spinning

Answer(a) == ret' = a

-----------------------------------------------------------------------------
(* Looking up                                                              *)

\* __lookup_ip_port_node finds k in row r: the scan stops at the first row that is not
\* created and at the first row that holds k.
FoundAt(k, r) ==
  LET bucket == multi_grp[ip_port_hash_key[k]] IN
  /\ bucket[r].key = k
  /\ \A q \in Rows : q <= r => bucket[q].created = 1
  /\ \A q \in Rows : q < r => bucket[q].key # k

Exists(k) == \E r \in Rows : FoundAt(k, r)

\* The rows add_multi_node's uint8_t counter can reach.
ScannedRows == {r \in Rows : r < RowMod}

FirstFreeRow(b, r) ==
  /\ r \in ScannedRows
  /\ multi_grp[b][r].created = 0
  /\ \A q \in ScannedRows : q < r => multi_grp[b][q].created = 1

-----------------------------------------------------------------------------
(* add_multi_node                                                          *)

\* Mutant: node_cnt is not looked at.
RoomSeen_Always == TRUE

\* atomic_read(&node_cnt) finds room.
RoomSeen == node_cnt < GrpMax

\* The comparison lets c's request pass.
AddStarts(c, k, g) ==
  /\ Idle(c)
  /\ RoomSeen
  /\ adding' = [adding EXCEPT ![c] = <<k, g>>]
  /\ UNCHANGED <<multi_grp, node_cnt, spinning, ret>>

AddNoRoom(c) ==
  /\ Idle(c)
  /\ ~RoomSeen
  /\ Answer("MULTI_TBL_FULL")
  /\ UNCHANGED <<multi_grp, node_cnt, adding, spinning>>

\* c's request to add g under k takes the lock.
AddLocks(c, k, g) ==
  /\ adding[c] = <<k, g>>
  /\ Lock

AddDone(c) == adding' = [adding EXCEPT ![c] = <<>>]

AddExists(c, k, g) ==
  /\ AddLocks(c, k, g)
  /\ \E r \in Rows : FoundAt(k, r) /\ multi_grp[ip_port_hash_key[k]][r].multi_ip = g
  /\ AddDone(c)
  /\ Answer("MULTI_NODE_EXSIT")
  /\ UNCHANGED <<multi_grp, node_cnt, spinning>>

\* The key is bound to another group: it is bound to g from now on.
AddUpdates(c, k, g) ==
  /\ AddLocks(c, k, g)
  /\ \E r \in Rows :
       LET b == ip_port_hash_key[k] IN
       /\ FoundAt(k, r)
       /\ multi_grp[b][r].multi_ip # g
       /\ multi_grp' = [multi_grp EXCEPT ![b][r].multi_ip = g]
  /\ AddDone(c)
  /\ Answer("ok")
  /\ UNCHANGED <<node_cnt, spinning>>

\* Mutant: the counter of the row is not reset.
AddCreates_KeepStats(c, k, g) ==
  /\ AddLocks(c, k, g)
  /\ ~Exists(k)
  /\ \E r \in Rows :
       LET b == ip_port_hash_key[k] IN
       /\ FirstFreeRow(b, r)
       /\ multi_grp' = [multi_grp EXCEPT ![b][r] =
                          [@ EXCEPT !.multi_ip = g, !.key = k, !.created = 1]]
  /\ node_cnt' = node_cnt + 1
  /\ AddDone(c)
  /\ Answer("ok")
  /\ UNCHANGED spinning

\* Mutant: the key is looked up before the lock, with node_cnt.
AddCreates_NoLookup(c, k, g) ==
  /\ AddLocks(c, k, g)
  /\ \E r \in Rows :
       LET b == ip_port_hash_key[k] IN
       /\ FirstFreeRow(b, r)
       /\ multi_grp' = [multi_grp EXCEPT ![b][r] =
                          [multi_ip |-> g, key |-> k, created |-> 1, rx_packets |-> 0]]
  /\ node_cnt' = node_cnt + 1
  /\ AddDone(c)
  /\ Answer("ok")
  /\ UNCHANGED spinning

AddCreates(c, k, g) ==
  /\ AddLocks(c, k, g)
  /\ ~Exists(k)
  /\ \E r \in Rows :
       LET b == ip_port_hash_key[k] IN
       /\ FirstFreeRow(b, r)
       /\ multi_grp' = [multi_grp EXCEPT ![b][r] =
                          [multi_ip |-> g, key |-> k, created |-> 1, rx_packets |-> 0]]
  /\ node_cnt' = node_cnt + 1
  /\ AddDone(c)
  /\ Answer("ok")
  /\ UNCHANGED spinning

\* Every row the counter reaches is created: the loop never ends, and multi_lock is
\* never released.
AddSpins(c, k, g) ==
  /\ AddLocks(c, k, g)
  /\ ~Exists(k)
  /\ \A r \in ScannedRows : multi_grp[ip_port_hash_key[k]][r].created = 1
  /\ spinning' = TRUE
  /\ UNCHANGED <<multi_grp, node_cnt, adding, ret>>

add_multi_node(c, k, g) ==
  \/ AddStarts(c, k, g)
  \/ AddNoRoom(c)
  \/ AddExists(c, k, g)
  \/ AddUpdates(c, k, g)
  \/ AddCreates(c, k, g)
  \/ AddSpins(c, k, g)

-----------------------------------------------------------------------------
(* The other requests                                                      *)

LastCreatedFrom(b, r, last) ==
  /\ r <= last /\ multi_grp[b][last].created = 1
  /\ \A q \in Rows : last < q => multi_grp[b][q].created = 0

\* Mutant: the row deleted is left free where it is.
RowRemoved_Hole(bucket, r, last) == [bucket EXCEPT ![r] = Deleted(bucket[r])]

\* The bucket without row r: the last created row from r on moves into the hole.  The
\* address, the port and the group move; the counters stay where they were.
RowRemoved(bucket, r, last) ==
  [bucket EXCEPT ![r] = [bucket[last] EXCEPT !.rx_packets = bucket[r].rx_packets],
                 ![last] = Deleted(bucket[last])]

DeleteFound(c, k) ==
  /\ Idle(c)
  /\ Lock
  /\ \E r \in Rows, last \in Rows :
       LET b == ip_port_hash_key[k] IN
       /\ FoundAt(k, r)
       /\ LastCreatedFrom(b, r, last)
       /\ multi_grp' = [multi_grp EXCEPT ![b] = RowRemoved(multi_grp[b], r, last)]
  /\ node_cnt' = node_cnt - 1
  /\ Answer("ok")
  /\ UNCHANGED <<adding, spinning>>

\* Mutant: node_cnt is decremented before the node is looked for.
DeleteMissing_Decrements(c, k) ==
  /\ Idle(c)
  /\ Lock
  /\ ~Exists(k)
  /\ node_cnt' = node_cnt - 1
  /\ Answer("MULTI_NODE_NOT_EXSIT")
  /\ UNCHANGED <<multi_grp, adding, spinning>>

DeleteMissing(c, k) ==
  /\ Idle(c)
  /\ Lock
  /\ ~Exists(k)
  /\ Answer("MULTI_NODE_NOT_EXSIT")
  /\ UNCHANGED <<multi_grp, node_cnt, adding, spinning>>

del_multi_node(c, k) == DeleteFound(c, k) \/ DeleteMissing(c, k)

\* Mutant: node_cnt is not set to 0.
clear_multi_node_KeepCnt(c) ==
  /\ Idle(c)
  /\ Lock
  /\ multi_grp' = [b \in Buckets |-> [r \in Rows |-> ZeroNode]]
  /\ Answer("ok")
  /\ UNCHANGED <<node_cnt, adding, spinning>>

clear_multi_node(c) ==
  /\ Idle(c)
  /\ Lock
  /\ multi_grp' = [b \in Buckets |-> [r \in Rows |-> ZeroNode]]
  /\ node_cnt' = 0
  /\ Answer("ok")
  /\ UNCHANGED <<adding, spinning>>

\* list_all_multi_grp, and get_multi_packets_stats, whose answer is always 0
Read(c) ==
  /\ Idle(c)
  /\ Lock
  /\ Answer("ok")
  /\ UNCHANGED <<multi_grp, node_cnt, adding, spinning>>

-----------------------------------------------------------------------------
\* multi_node_init
ClientInit ==
  /\ multi_grp = [b \in Buckets |-> [r \in Rows |-> ZeroNode]]
  /\ node_cnt = 0
  /\ adding = [c \in Callers |-> <<>>]
  /\ spinning = FALSE
  /\ ret = "ok"

\* tmcc_rcv_skb
ClientNext ==
  \E c \in Callers :
    \/ \E k \in Keys :
         \/ \E g \in Groups : add_multi_node(c, k, g)
         \/ del_multi_node(c, k)
    \/ clear_multi_node(c)
    \/ Read(c)

ClientSpec == ClientInit /\ [][ClientNext]_clientVars

-----------------------------------------------------------------------------
(* Properties                                                              *)

Created(b, r) == multi_grp[b][r].created = 1
CreatedRows == {br \in Buckets \X Rows : Created(br[1], br[2])}
Adders == {c \in Callers : ~Idle(c)}

ClientTypeOK ==
  /\ multi_grp \in [Buckets -> [Rows -> Node]]
  /\ node_cnt \in Nat
  /\ adding \in [Callers -> (Keys \X Groups) \cup {<<>>}]
  /\ spinning \in BOOLEAN
  /\ ret \in Answers

\* Every created node is the one that a lookup of its key returns, although lookups stop
\* at the first row that is not created, del_multi_node moves rows, and two senders may
\* have been let in to add the same key: no hole in a bucket, no key twice.
EveryNodeFound ==
  \A b \in Buckets, r \in Rows :
    IF Created(b, r)
    THEN LET node == multi_grp[b][r] IN
         /\ node.key \in Keys /\ ip_port_hash_key[node.key] = b
         /\ FoundAt(node.key, r)
         /\ node.multi_ip \in Groups
    ELSE multi_grp[b][r].key = NoKey /\ multi_grp[b][r].multi_ip = NoGroup

\* node_cnt, read without the lock and kept by three functions, is the number of nodes.
NodeCntExact == node_cnt = Cardinality(CreatedRows)

\* The check of MULTI_GRP_MAX is made before the lock, so the table can outgrow it, and
\* with it the arrays of list_all_multi_grp; but by no more than one node for each sender
\* but one, counting those on their way to the lock.
OvershootBounded == node_cnt + Cardinality(Adders) <= GrpMax - 1 + Cardinality(Callers)

\* The group a lookup of k returns.
GroupOf(k) ==
  IF Exists(k)
  THEN multi_grp[ip_port_hash_key[k]][CHOOSE r \in Rows : FoundAt(k, r)].multi_ip
  ELSE NoGroup

\* The table implements the bindings: each request changes one binding or none, and
\* MULTI_TBL_FULL is answered only when there are MULTI_GRP_MAX of them.
Abstract == INSTANCE ClientBindings WITH group <- [k \in Keys |-> GroupOf(k)]

ImplementsBindings == Abstract!AbsSpec
=============================================================================
