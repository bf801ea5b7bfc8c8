---------------------------- MODULE MCServerShow ----------------------------
(***************************************************************************)
(* Instance of ServerShow for TLC.  Three groups contend for the two rows  *)
(* of bucket 0, two share bucket 1: four rows, but three indexes.          *)
(***************************************************************************)
EXTENDS ServerShow

CONSTANTS g1, g2, g3, g4, g5

MCBuckets == 0 .. 1
MCHash == [g \in Groups |-> IF g \in {g4, g5} THEN 1 ELSE 0]
ShowSymmetry == Permutations({g1, g2, g3}) \cup Permutations({g4, g5}) \cup Permutations(Readers)

\* Which index a group has makes no difference as long as no two have the same, and no step
\* reads the answer to the last request.
Table ==
  [b \in Buckets |-> [r \in Rows |-> <<multi_grp[b][r].multi_ip, multi_vm[IdxAt(b, r)]>>]]

\* No property asks what a reader gets that is mixed with anything; when one reader under
\* way is, all are.  What an earlier request has left in k_service is overwritten or not read:
\* SHOW reads neither multi_ip nor an old entry of the list.
Mixed(p) == reader[p].mixed = "any"
Place(r) == <<r.pc, r.cmd, r.g, r.b, r.j, r.k, r.ret>>
History(r) == <<r.want, r.there, r.seen, r.lost, r.changes, r.mixed>>
Filled == Max({k_service.ip_num} \cup {reader[p].k : p \in Readers})
Reply ==
  <<k_service.ip_num, [i \in {i \in 0 .. VmMax - 1 : i < Filled} |-> k_service.ip_list[i]],
    IF \E p \in Active : reader[p].cmd = "list" THEN <<k_service.multi_ip, k_service.ret>> ELSE <<>>>>
ShowView ==
  <<Table, Cardinality(bitmap), spinning,
    IF \E p \in Active : ~Mixed(p) THEN Reply ELSE <<>>,
    [p \in Readers |->
       LET r == reader[p] IN
       IF Mixed(p) THEN <<Place(r)>>
       ELSE <<Place(r), History(r)>>]>>
=============================================================================
