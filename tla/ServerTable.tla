---------------------------- MODULE ServerTable ----------------------------
(***************************************************************************)
(* The group table of the multicast server's kernel module,                *)
(* multi_server/kmod/multis_grp.c, and the netlink requests of multis_nl.c *)
(* that work on it.  Every request runs from spin_lock_bh to               *)
(* spin_unlock_bh on multi_lock, so it is one action.                      *)
(*                                                                         *)
(* Three arrays and a word make the table: multi_grp[bucket][row] holds    *)
(* the nodes, hashed by group address; a node carries an index, taken from *)
(* `bitmap', that selects the node's member list in multi_vm and its       *)
(* counter in multi_stats.                                                 *)
(*                                                                         *)
(* A member list is the SET of the addresses in the list's first           *)
(* multi_member_cnt entries; VmList has the code's loops over the array,   *)
(* and MCServerTable compares the two.  The widths of the code's integers  *)
(* are constants: IdxMod for the uint8_t multi_grp_idx, RowMod for the     *)
(* uint8_t row counter of add_multi_node, BitmapBits for the unsigned long *)
(* bitmap.                                                                 *)
(***************************************************************************)
EXTENDS Naturals, FiniteSets

CONSTANTS
  Groups, VMs,      \* addresses in use
  NoGroup,          \* multi_ip = 0, in a node that is not created
  Buckets,          \* 0 .. MULTI_GRP_BUCKET-1
  mulit_hash_key,   \* bucket of a group address (jhash % MULTI_GRP_BUCKET)
  GrpDepth,         \* MULTI_GRP_DEPTH: rows of a bucket
  GrpMax,           \* MULTI_GRP_MAX: entries of multi_vm and multi_stats
  VmMax,            \* MULTI_VM_MAX: entries of a member list
  IdxMod,           \* 2^8: values of multi_grp_idx
  RowMod,           \* 2^8: values of the row counter of add_multi_node
  BitmapBits        \* 64: bits of the word `bitmap'

ASSUME ServerAssumption ==
  /\ IsFiniteSet(Groups) /\ IsFiniteSet(VMs)
  /\ NoGroup \notin Groups
  /\ mulit_hash_key \in [Groups -> Buckets]
  /\ GrpDepth \in Nat \ {0}
  /\ GrpMax \in Nat \ {0}
  /\ VmMax \in Nat \ {0}
  /\ IdxMod \in Nat \ {0}
  /\ RowMod \in Nat \ {0}
  /\ BitmapBits \in Nat \ {0}

VARIABLES
  multi_grp,    \* multi_grp[b][r]: the node in row r of bucket b
  bitmap,       \* indexes whose bit is set
  multi_vm,     \* multi_vm[i]: members listed under index i
  multi_stats,  \* multi_stats[i]: packets counted under index i
  spinning,     \* a request loops for ever inside the critical section
  ret           \* the answer to the last request

tableVars == <<multi_grp, bitmap, multi_vm, multi_stats, spinning, ret>>

Rows == 0 .. GrpDepth - 1
Indexes == 0 .. GrpMax - 1

Requests == {R \in SUBSET VMs : Cardinality(R) <= VmMax}

Answers == {"ok", "MULTI_NODE_NOT_EXSIT", "MULTI_IDX_EXHAUST", "MULTI_PARAM_ERROR"}

Node == [multi_ip : Groups \cup {NoGroup}, multi_member_cnt : 0 .. VmMax,
         multi_grp_idx : Indexes \cap 0 .. IdxMod - 1, created : {0, 1}]

FreeNode == [multi_ip |-> NoGroup, multi_member_cnt |-> 0,
             multi_grp_idx |-> 0, created |-> 0]

-----------------------------------------------------------------------------
(* Looking up and allocating                                               *)

\* __lookup_multi_node finds g in row r: the scan stops at the first row that is
\* not created and at the first row that holds g.
FoundAt(g, r) ==
  LET bucket == multi_grp[mulit_hash_key[g]] IN
  /\ bucket[r].multi_ip = g
  /\ \A k \in Rows : k <= r => bucket[k].created = 1
  /\ \A k \in Rows : k < r => bucket[k].multi_ip # g

Exists(g) == \E r \in Rows : FoundAt(g, r)

\* Bits of the word that get_idx finds clear.
FreeBits == {i \in Indexes : i < BitmapBits /\ i \notin bitmap}

\* get_idx returns the first clear bit.  Past the word, where MULTI_GRP_MAX lets it
\* go, it tests and sets bits of whatever the linker put there: any answer is possible.
GetIdx(i) ==
  \/ i \in FreeBits /\ \A k \in FreeBits : i <= k
  \/ FreeBits = {} /\ i \in Indexes /\ BitmapBits <= i

\* Mutant: test_and_set_bit only tests.
SetBit_TestOnly(i) == bitmap
SetBit(i) == IF i < BitmapBits THEN bitmap \cup {i} ELSE bitmap
\* Mutant: the bit stays set.
PutIdx_Leak(i) == bitmap
PutIdx(i) == bitmap \ {i}

\* multi_grp_idx and every `uint8_t idx' keep the low 8 bits of an index.
Uint8(i) == i % IdxMod

\* The rows add_multi_node's uint8_t counter can reach.
ScannedRows == {r \in Rows : r < RowMod}

\* Row r of bucket b is the first that is not created, counting as the code does.
FirstFreeRow(b, r) ==
  /\ r \in ScannedRows
  /\ multi_grp[b][r].created = 0
  /\ \A k \in ScannedRows : k < r => multi_grp[b][k].created = 1

NoFreeRow(b) == \A r \in ScannedRows : multi_grp[b][r].created = 1

-----------------------------------------------------------------------------
(* The requests                                                            *)

\* spin_lock_bh: a request that loops inside the critical section shuts out all others.
Lock == ~spinning

Answer(a) == ret' = a

Unchanged == UNCHANGED <<multi_grp, bitmap, multi_vm, multi_stats, spinning>>

\* Mutant: the members already listed are not counted.
Fits_RequestOnly(R, cnt) == Cardinality(R) <= VmMax

\* add_vm_ip_list refuses a request that would not fit if all of it were new.
Fits(R, cnt) == Cardinality(R) + cnt <= VmMax

\* Mutant: an address already listed is counted again.
AddVmIpList_CountsAll(g, r, R) ==
  LET b == mulit_hash_key[g]
      idx == multi_grp[b][r].multi_grp_idx
  IN  /\ multi_vm' = [multi_vm EXCEPT ![idx] = @ \cup R]
      /\ multi_grp' = [multi_grp EXCEPT ![b][r].multi_member_cnt = @ + Cardinality(R)]

\* add_vm_ip_list on the node in row r of g's bucket.
AddVmIpList(g, r, R) ==
  LET b == mulit_hash_key[g]
      idx == multi_grp[b][r].multi_grp_idx
  IN  /\ multi_vm' = [multi_vm EXCEPT ![idx] = @ \cup R]
      /\ multi_grp' = [multi_grp EXCEPT ![b][r].multi_member_cnt =
                                           @ + Cardinality(R \ multi_vm[idx])]

\* The group exists: append (add_multi_node and append_vm_ip_list do the same).
AppendToGroup(g, R) ==
  \E r \in Rows :
    /\ Lock
    /\ FoundAt(g, r)
    /\ Fits(R, multi_grp[mulit_hash_key[g]][r].multi_member_cnt)
    /\ AddVmIpList(g, r, R)
    /\ Answer("ok")
    /\ UNCHANGED <<bitmap, multi_stats, spinning>>

AppendRefused(g, R) ==
  /\ Lock
  /\ \E r \in Rows :
       /\ FoundAt(g, r)
       /\ ~Fits(R, multi_grp[mulit_hash_key[g]][r].multi_member_cnt)
  /\ Answer("MULTI_PARAM_ERROR")
  /\ Unchanged

\* Mutant: the counter of the index is not reset.
CreateGroup_KeepStats(g, R) ==
  /\ Lock
  /\ ~Exists(g)
  /\ \E i \in Indexes, r \in Rows :
       LET b == mulit_hash_key[g] IN
       /\ GetIdx(i)
       /\ FirstFreeRow(b, r)
       /\ bitmap' = SetBit(i)
       /\ multi_grp' = [multi_grp EXCEPT ![b][r] =
                          [multi_ip |-> g, multi_member_cnt |-> Cardinality(R),
                           multi_grp_idx |-> Uint8(i), created |-> 1]]
       /\ multi_vm' = [multi_vm EXCEPT ![Uint8(i)] = R]
  /\ Answer("ok")
  /\ UNCHANGED <<multi_stats, spinning>>

\* add_multi_node, new group: index i, row r.  The list under a fresh index starts at
\* entry 0 and R, without repetitions, always fits in it.
CreateGroup(g, R) ==
  /\ Lock
  /\ ~Exists(g)
  /\ \E i \in Indexes, r \in Rows :
       LET b == mulit_hash_key[g] IN
       /\ GetIdx(i)
       /\ FirstFreeRow(b, r)
       /\ bitmap' = SetBit(i)
       /\ multi_grp' = [multi_grp EXCEPT ![b][r] =
                          [multi_ip |-> g, multi_member_cnt |-> Cardinality(R),
                           multi_grp_idx |-> Uint8(i), created |-> 1]]
       /\ multi_vm' = [multi_vm EXCEPT ![Uint8(i)] = R]
       /\ multi_stats' = [multi_stats EXCEPT ![i] = 0]
  /\ Answer("ok")
  /\ UNCHANGED spinning

\* add_multi_node, new group: every bit tested is set.
CreateNoIndex(g) ==
  /\ Lock
  /\ ~Exists(g)
  /\ FreeBits = {}
  /\ Answer("MULTI_IDX_EXHAUST")
  /\ Unchanged

\* Mutant: the index taken is not put back.
CreateBucketFull_Leak(g) ==
  /\ Lock
  /\ ~Exists(g)
  /\ GrpDepth < RowMod
  /\ NoFreeRow(mulit_hash_key[g])
  /\ \E i \in Indexes : GetIdx(i) /\ bitmap' = SetBit(i)
  /\ Answer("MULTI_IDX_EXHAUST")
  /\ UNCHANGED <<multi_grp, multi_vm, multi_stats, spinning>>

\* add_multi_node, new group: the bucket is full and the row loop ends; put_idx.
CreateBucketFull(g) ==
  /\ Lock
  /\ ~Exists(g)
  /\ GrpDepth < RowMod
  /\ NoFreeRow(mulit_hash_key[g])
  /\ \E i \in Indexes : GetIdx(i) /\ bitmap' = SetBit(i) \ {i}
  /\ Answer("MULTI_IDX_EXHAUST")
  /\ UNCHANGED <<multi_grp, multi_vm, multi_stats, spinning>>

\* add_multi_node, new group: the counter wraps to 0 before it reaches
\* MULTI_GRP_DEPTH, so the loop never ends and multi_lock is never released.
CreateSpins(g) ==
  /\ Lock
  /\ ~Exists(g)
  /\ RowMod <= GrpDepth
  /\ NoFreeRow(mulit_hash_key[g])
  /\ \E i \in Indexes : GetIdx(i) /\ bitmap' = SetBit(i)
  /\ spinning' = TRUE
  /\ UNCHANGED <<multi_grp, multi_vm, multi_stats, ret>>

\* vm_quit_from_multi_grp
Quit(g, R) ==
  \E r \in Rows :
    LET b == mulit_hash_key[g]
        idx == multi_grp[b][r].multi_grp_idx
    IN  /\ Lock
        /\ FoundAt(g, r)
        /\ multi_vm' = [multi_vm EXCEPT ![idx] = @ \ R]
        /\ multi_grp' = [multi_grp EXCEPT ![b][r].multi_member_cnt =
                                             @ - Cardinality(R \cap multi_vm[idx])]
        /\ Answer("ok")
        /\ UNCHANGED <<bitmap, multi_stats, spinning>>

\* append, quit, list and stats of a group that is not in the table
GroupMissing(g) ==
  /\ Lock
  /\ ~Exists(g)
  /\ Answer("MULTI_NODE_NOT_EXSIT")
  /\ Unchanged

\* Mutants: the row is zeroed where it is; the row moved is not zeroed.
RowRemoved_Hole(bucket, r, last) == [bucket EXCEPT ![r] = FreeNode]
RowRemoved_Copy(bucket, r, last) == [bucket EXCEPT ![r] = bucket[last]]

\* The bucket without row r: the last created row from r on moves into the hole.
RowRemoved(bucket, r, last) == [bucket EXCEPT ![r] = bucket[last], ![last] = FreeNode]

LastCreatedFrom(b, r, last) ==
  /\ r <= last /\ multi_grp[b][last].created = 1
  /\ \A k \in Rows : last < k => multi_grp[b][k].created = 0

\* Mutant: the index is read after the move, so the moved group loses its members.
DeleteFound_IdxAfterMove(g) ==
  \E r \in Rows, last \in Rows :
    LET b == mulit_hash_key[g]
        idx == multi_grp[b][last].multi_grp_idx
    IN  /\ Lock
        /\ FoundAt(g, r)
        /\ LastCreatedFrom(b, r, last)
        /\ multi_grp' = [multi_grp EXCEPT ![b] = RowRemoved(multi_grp[b], r, last)]
        /\ multi_vm' = [multi_vm EXCEPT ![idx] = {}]
        /\ bitmap' = PutIdx(idx)
        /\ Answer("ok")
        /\ UNCHANGED <<multi_stats, spinning>>

\* del_multi_node, the group is in row r
DeleteFound(g) ==
  \E r \in Rows, last \in Rows :
    LET b == mulit_hash_key[g]
        idx == multi_grp[b][r].multi_grp_idx
    IN  /\ Lock
        /\ FoundAt(g, r)
        /\ LastCreatedFrom(b, r, last)
        /\ multi_grp' = [multi_grp EXCEPT ![b] = RowRemoved(multi_grp[b], r, last)]
        /\ multi_vm' = [multi_vm EXCEPT ![idx] = {}]
        /\ bitmap' = PutIdx(idx)
        /\ Answer("ok")
        /\ UNCHANGED <<multi_stats, spinning>>

\* del_multi_node ends in `return 0', whatever it found.
DeleteMissing(g) ==
  /\ Lock
  /\ ~Exists(g)
  /\ Answer("ok")
  /\ Unchanged

\* The rows clear_multi_group visits: it leaves a bucket at the first that is not created.
ClearedRows(b) == {r \in Rows : \A k \in Rows : k <= r => multi_grp[b][k].created = 1}

ClearedIndexes ==
  {i \in Indexes : \E b \in Buckets : \E r \in ClearedRows(b) : multi_grp[b][r].multi_grp_idx = i}

\* clear_multi_group
Clear ==
  /\ Lock
  /\ bitmap' = bitmap \ ClearedIndexes
  /\ multi_stats' = [i \in Indexes |-> IF i \in ClearedIndexes THEN 0 ELSE multi_stats[i]]
  /\ multi_vm' = [i \in Indexes |-> IF i \in ClearedIndexes THEN {} ELSE multi_vm[i]]
  /\ multi_grp' = [b \in Buckets |->
                     [r \in Rows |-> IF r \in ClearedRows(b) THEN FreeNode ELSE multi_grp[b][r]]]
  /\ Answer("ok")
  /\ UNCHANGED spinning

\* list_multi_node_and_vm_ip and get_multi_pkt_stats of a group in the table
ReadGroup(g) ==
  /\ Lock
  /\ Exists(g)
  /\ Answer("ok")
  /\ Unchanged

-----------------------------------------------------------------------------
(* What tmcc_rcv_skb dispatches                                            *)

add_multi_node(g, R) ==
  \/ AppendToGroup(g, R)
  \/ AppendRefused(g, R)
  \/ CreateGroup(g, R)
  \/ CreateNoIndex(g)
  \/ CreateBucketFull(g)
  \/ CreateSpins(g)

vm_quit_from_multi_grp(g, R) == Quit(g, R) \/ GroupMissing(g)

del_multi_node(g) == DeleteFound(g) \/ DeleteMissing(g)

append_vm_ip_list(g, R) ==
  \/ AppendToGroup(g, R)
  \/ AppendRefused(g, R)
  \/ GroupMissing(g)

multi_nl_node_add(g, action, R) ==
  \/ action = "MULTI_OPT_JOIN" /\ add_multi_node(g, R)
  \/ action = "MULTI_OPT_QUIT" /\ vm_quit_from_multi_grp(g, R)

\* TMCC_SERVICE_LIST, and MULTI_DROP_STATS of one group
multi_nl_vm_list_get(g) == ReadGroup(g) \/ GroupMissing(g)

\* multi_node_init
Init ==
  /\ multi_grp = [b \in Buckets |-> [r \in Rows |-> FreeNode]]
  /\ bitmap = {}
  /\ multi_vm = [i \in Indexes |-> {}]
  /\ multi_stats = [i \in Indexes |-> 0]
  /\ spinning = FALSE
  /\ ret = "ok"

\* tmcc_rcv_skb
Next ==
  \/ \E g \in Groups, R \in Requests :
       \/ \E action \in {"MULTI_OPT_JOIN", "MULTI_OPT_QUIT"} : multi_nl_node_add(g, action, R)
       \/ append_vm_ip_list(g, R)
  \/ \E g \in Groups :
       \/ del_multi_node(g)
       \/ multi_nl_vm_list_get(g)
  \/ Clear

Spec == Init /\ [][Next]_tableVars

-----------------------------------------------------------------------------
(* Properties                                                              *)

Created(b, r) == multi_grp[b][r].created = 1
IdxAt(b, r) == multi_grp[b][r].multi_grp_idx
UsedIndexes == {i \in Indexes : \E b \in Buckets, r \in Rows : Created(b, r) /\ IdxAt(b, r) = i}

TypeOK ==
  /\ multi_grp \in [Buckets -> [Rows -> Node]]
  /\ bitmap \subseteq Indexes
  /\ multi_vm \in [Indexes -> SUBSET VMs]
  /\ multi_stats \in [Indexes -> Nat]
  /\ spinning \in BOOLEAN
  /\ ret \in Answers

\* Every created node is the one a lookup of its address returns, although lookups and
\* clear_multi_group stop at the first row that is not created and del_multi_node moves
\* rows: no hole in a bucket, no group twice, none in a bucket that is not its own.
EveryGroupFound ==
  \A b \in Buckets, r \in Rows :
    IF Created(b, r)
    THEN LET g == multi_grp[b][r].multi_ip IN
         g \in Groups /\ mulit_hash_key[g] = b /\ FoundAt(g, r)
    ELSE multi_grp[b][r] = FreeNode

\* Two groups never share an index: they would share a member list and a counter.
IndexesDistinct ==
  \A b, c \in Buckets, r, s \in Rows :
    Created(b, r) /\ Created(c, s) /\ IdxAt(b, r) = IdxAt(c, s) => b = c /\ r = s

\* Between requests the bits set are those of the indexes in use: none has leaked (the
\* pool would run dry) and none is free for get_idx to hand out a second time.
BitmapExact == ~spinning => bitmap = UsedIndexes

\* multi_member_cnt is the length of the list it goes with, never beyond the array, and
\* a list nobody owns is empty, so a new group never starts with the members of an old one.
ListsMatch ==
  /\ \A b \in Buckets, r \in Rows :
       Created(b, r) =>
         multi_grp[b][r].multi_member_cnt = Cardinality(multi_vm[IdxAt(b, r)])
  /\ \A i \in Indexes : i \notin UsedIndexes => multi_vm[i] = {}

\* No request keeps multi_lock for ever: the comment of add_multi_node on its row loop,
\* "add group fail because of hash table collision", says that the loop ends.
NeverSpins == ~spinning

\* A group is refused for want of an index only when every index is in use: indexes taken
\* by requests that found no row have been put back, and those of deleted groups too.
RefusedOnlyWhenFull ==
  [][\A g \in Groups : CreateNoIndex(g) => Cardinality(UsedIndexes) = GrpMax]_tableVars

-----------------------------------------------------------------------------
(* The deployments the code's integer widths allow                         *)

\* The most groups that can exist at once.
GroupsAtOnce == IF Cardinality(Groups) < GrpMax THEN Cardinality(Groups) ELSE GrpMax

\* Each of them gets a bit of the word and an index that fits in multi_grp_idx.
IndexesFit == GroupsAtOnce <= IdxMod /\ GroupsAtOnce <= BitmapBits

\* Either the row loop can count to MULTI_GRP_DEPTH, or no bucket fills the rows it reaches.
RowsFit == GrpDepth < RowMod \/ GroupsAtOnce <= RowMod

\* A bucket has a row for every group that can exist, should all of them hash to it.
RoomInBuckets == GroupsAtOnce <= GrpDepth

-----------------------------------------------------------------------------
(* What the table is for                                                   *)

\* The members a lookup of g returns.
Members(g) ==
  UNION {multi_vm[IdxAt(mulit_hash_key[g], r)] : r \in {k \in Rows : FoundAt(g, k)}}

Abstract ==
  INSTANCE MulticastGroups WITH
    groups <- {g \in Groups : Exists(g)},
    members <- [g \in Groups |-> Members(g)]

\* The table implements the group service: requests on one group leave every other
\* group's members alone, and a request answered with an error has changed nothing.  Where
\* no bucket fills up it is the very service that multis_admin counts on: an addition is
\* refused when the group's list or the table is full, and only then, whatever came before.
ImplementsGroups ==
  /\ Abstract!AbsInit
  /\ [][IF RoomInBuckets THEN Abstract!ExactNext ELSE Abstract!AbsNext]_(Abstract!absVars)
=============================================================================
