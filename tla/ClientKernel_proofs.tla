------------------------ MODULE ClientKernel_proofs -------------------------
(***************************************************************************)
(* Proofs about the client's table (module ClientTable), for every number  *)
(* of senders, every set of keys and groups and every size of the table,   *)
(* and about the counters of the netfilter hook beside it (module          *)
(* ClientForward), for any number of CPUs.                                 *)
(***************************************************************************)
EXTENDS ClientForward, FoldLemmas

(***************************************************************************)
(* The inductive invariant.  A deletion takes node_cnt down to a natural   *)
(* number because node_cnt counts the created rows, and it takes one row   *)
(* away because buckets have no holes.                                     *)
(***************************************************************************)
IInv ==
  /\ ClientTypeOK
  /\ EveryNodeFound
  /\ NodeCntExact
  /\ OvershootBounded

-----------------------------------------------------------------------------
(* Facts about lookups                                                     *)

\* EveryNodeFound as a fact about the rows of a table t: what each step has to show.
WellPlaced(t) ==
  \A b \in Buckets, r \in Rows :
    /\ t[b][r].created # 1 => t[b][r].key = NoKey /\ t[b][r].multi_ip = NoGroup
    /\ t[b][r].created = 1 =>
         /\ t[b][r].key \in Keys
         /\ ip_port_hash_key[t[b][r].key] = b
         /\ t[b][r].multi_ip \in Groups
         /\ \A q \in Rows : q <= r => t[b][q].created = 1
         /\ \A q \in Rows : q < r => t[b][q].key # t[b][r].key

LEMMA PlacedNow == EveryNodeFound <=> WellPlaced(multi_grp)
  BY DEF EveryNodeFound, WellPlaced, FoundAt, Created

LEMMA PlacedNext == EveryNodeFound' <=> WellPlaced(multi_grp')
  BY DEF EveryNodeFound, WellPlaced, FoundAt, Created

LEMMA Sizes == Rows \subseteq Nat /\ IsFiniteSet(Buckets \X Rows) /\ GrpMax \in Nat \ {0}
  <1>1. GrpDepth - 1 \in Int /\ 0 \in Int
    BY ClientAssumption
  <1>2. IsFiniteSet(Rows)
    BY <1>1, FS_Interval DEF Rows
  <1>3. QED
    BY <1>2, ClientAssumption, FS_Product, SMTT(30) DEF Rows

LEMMA CreatedFinite ==
  /\ IsFiniteSet(CreatedRows)
  /\ Cardinality(CreatedRows) \in Nat
  <1>1. CreatedRows \in SUBSET (Buckets \X Rows)
    BY DEF CreatedRows
  <1>2. QED
    BY <1>1, Sizes, FS_Subset, FS_CardinalityType

LEMMA AddersFinite ==
  /\ IsFiniteSet(Adders) /\ IsFiniteSet(Callers)
  /\ Cardinality(Adders) \in Nat /\ Cardinality(Callers) \in Nat
  /\ Cardinality(Adders) <= Cardinality(Callers)
  <1>1. Adders \in SUBSET Callers
    BY DEF Adders
  <1>2. QED
    BY <1>1, ClientAssumption, FS_Subset, FS_CardinalityType

\* A step that leaves the created rows alone leaves the invariants of the table alone.
LEMMA TableSame ==
  ASSUME IInv, UNCHANGED <<multi_grp, node_cnt>>
  PROVE  EveryNodeFound' /\ NodeCntExact'
  <1>1. CreatedRows' = CreatedRows
    BY DEF CreatedRows, Created
  <1>2. WellPlaced(multi_grp')
    BY PlacedNow DEF IInv
  <1>3. QED
    BY <1>1, <1>2, PlacedNext DEF IInv, NodeCntExact

-----------------------------------------------------------------------------
(* The initial state                                                       *)

LEMMA InitInv == ClientInit => IInv
  <1> SUFFICES ASSUME ClientInit PROVE IInv
    OBVIOUS
  <1>1. ClientTypeOK
    BY DEF ClientInit, ClientTypeOK, ZeroNode, Node, Answers
  <1>2. \A b \in Buckets, r \in Rows : multi_grp[b][r] = ZeroNode
    BY DEF ClientInit
  <1>3. EveryNodeFound
    BY <1>2, PlacedNow DEF WellPlaced, ZeroNode
  <1>4. CreatedRows = {}
    BY <1>2 DEF CreatedRows, Created, ZeroNode
  <1>5. NodeCntExact
    BY <1>4, FS_EmptySet DEF NodeCntExact, ClientInit
  <1>6. Adders = {}
    BY DEF Adders, Idle, ClientInit
  <1>7. Cardinality(Adders) = 0 /\ node_cnt = 0
    BY <1>6, FS_EmptySet DEF ClientInit
  <1>8. OvershootBounded
    BY <1>7, AddersFinite, Sizes DEF OvershootBounded
  <1>9. QED
    BY <1>1, <1>3, <1>5, <1>8 DEF IInv

-----------------------------------------------------------------------------
(* Adding                                                                  *)

LEMMA PairIsRequest == \A k, g : <<k, g>> # <<>>
  OBVIOUS

LEMMA StartStep ==
  ASSUME IInv, NEW c \in Callers, NEW k \in Keys, NEW g \in Groups, AddStarts(c, k, g)
  PROVE  IInv'
  <1>1. adding \in [Callers -> (Keys \X Groups) \cup {<<>>}]
    BY DEF IInv, ClientTypeOK
  <1>2. /\ adding' = [adding EXCEPT ![c] = <<k, g>>]
        /\ UNCHANGED <<multi_grp, node_cnt, spinning, ret>>
    BY DEF AddStarts
  <1>3. ClientTypeOK'
    <2>1. adding' \in [Callers -> (Keys \X Groups) \cup {<<>>}]
      BY <1>1, <1>2
    <2>2. QED
      BY <1>2, <2>1 DEF IInv, ClientTypeOK
  <1>4. Adders' = Adders \cup {c} /\ c \notin Adders
    BY <1>1, <1>2, PairIsRequest DEF Adders, Idle, AddStarts
  <1>5. Cardinality(Adders') = Cardinality(Adders) + 1
    BY <1>4, AddersFinite, FS_AddElement
  <1>6. Adders' \subseteq Callers /\ Cardinality(Adders') <= Cardinality(Callers)
    BY AddersFinite, <1>4, FS_Subset DEF Adders
  <1>7. node_cnt < GrpMax /\ node_cnt \in Nat
    BY DEF AddStarts, RoomSeen, IInv, ClientTypeOK
  <1>8. OvershootBounded'
    <2>1. node_cnt + Cardinality(Adders') <= GrpMax - 1 + Cardinality(Callers)
      BY <1>5, <1>6, <1>7, AddersFinite, Sizes
    <2>2. QED
      BY <1>2, <2>1 DEF OvershootBounded
  <1>9. QED
    BY <1>2, <1>3, <1>8, TableSame DEF IInv

\* A sender that gets the lock is no longer on its way to it.
LEMMA AddReturns ==
  ASSUME IInv, NEW c \in Callers, NEW k \in Keys, NEW g \in Groups,
         AddLocks(c, k, g), AddDone(c)
  PROVE  /\ adding' \in [Callers -> (Keys \X Groups) \cup {<<>>}]
         /\ Cardinality(Adders') = Cardinality(Adders) - 1
  <1>1. adding \in [Callers -> (Keys \X Groups) \cup {<<>>}]
    BY DEF IInv, ClientTypeOK
  <1>2. adding' \in [Callers -> (Keys \X Groups) \cup {<<>>}]
    BY <1>1 DEF AddDone
  <1>3. c \in Adders /\ Adders' = Adders \ {c}
    BY <1>1, PairIsRequest DEF Adders, Idle, AddLocks, AddDone
  <1>4. QED
    BY <1>2, <1>3, AddersFinite, FS_RemoveElement

\* An add that finds its key changes one binding at most.
LEMMA RebindStep ==
  ASSUME IInv, NEW c \in Callers, NEW k \in Keys, NEW g \in Groups,
         AddExists(c, k, g) \/ AddUpdates(c, k, g)
  PROVE  IInv'
  <1> DEFINE b == ip_port_hash_key[k]
  <1>1. /\ AddLocks(c, k, g) /\ AddDone(c)
        /\ UNCHANGED <<node_cnt, spinning>> /\ ret' \in Answers
    BY DEF AddExists, AddUpdates, Answer, Answers
  <1>2. b \in Buckets /\ multi_grp \in [Buckets -> [Rows -> Node]]
    BY ClientAssumption DEF IInv, ClientTypeOK
  <1>3. PICK r \in Rows :
          /\ FoundAt(k, r)
          /\ \/ multi_grp' = multi_grp
             \/ multi_grp' = [multi_grp EXCEPT ![b][r].multi_ip = g]
    BY DEF AddExists, AddUpdates
  <1> HIDE DEF b
  <1>4. \A d \in Buckets, s \in Rows :
          /\ multi_grp'[d][s].created = multi_grp[d][s].created
          /\ multi_grp'[d][s].key = multi_grp[d][s].key
          /\ \/ multi_grp'[d][s].multi_ip = multi_grp[d][s].multi_ip
             \/ d = b /\ s = r /\ multi_grp'[d][s].multi_ip = g
    BY <1>2, <1>3, SMTT(30) DEF Node
  <1>5. multi_grp' \in [Buckets -> [Rows -> Node]]
    <2> DEFINE node == multi_grp[b][r]
    <2>1. node \in Node
      BY <1>2
    <2>2. [node EXCEPT !.multi_ip = g] \in Node
      BY <2>1 DEF Node
    <2>3. [multi_grp[b] EXCEPT ![r] = [node EXCEPT !.multi_ip = g]] \in [Rows -> Node]
      BY <1>2, <2>2
    <2>4. multi_grp' \in {multi_grp, [multi_grp EXCEPT ![b] =
                             [multi_grp[b] EXCEPT ![r] = [node EXCEPT !.multi_ip = g]]]}
      BY <1>3
    <2>5. QED
      BY <1>2, <2>3, <2>4
  <1>6. ClientTypeOK'
    BY <1>1, <1>5, AddReturns DEF IInv, ClientTypeOK
  <1>7. multi_grp[b][r].created = 1
    BY <1>3 DEF FoundAt, Rows, b
  <1>8. EveryNodeFound'
    <2>1. WellPlaced(multi_grp)
      BY PlacedNow DEF IInv
    <2>2. WellPlaced(multi_grp')
      BY <1>4, <1>7, <2>1 DEF WellPlaced
    <2>3. QED
      BY <2>2, PlacedNext
  <1>9. CreatedRows' = CreatedRows
    BY <1>4 DEF CreatedRows, Created
  <1>10. Cardinality(Adders') = Cardinality(Adders) - 1
    BY <1>1, AddReturns
  <1>11. OvershootBounded'
    <2>1. node_cnt + (Cardinality(Adders) - 1) <= GrpMax - 1 + Cardinality(Callers)
      BY AddersFinite, Sizes DEF IInv, OvershootBounded, ClientTypeOK
    <2>2. QED
      BY <1>1, <1>10, <2>1 DEF OvershootBounded
  <1>12. QED
    BY <1>1, <1>6, <1>8, <1>9, <1>11 DEF IInv, NodeCntExact
\* A new node takes the first free row of its bucket.
LEMMA CreateStep ==
  ASSUME IInv, NEW c \in Callers, NEW k \in Keys, NEW g \in Groups, AddCreates(c, k, g)
  PROVE  IInv'
  <1> DEFINE b == ip_port_hash_key[k]
  <1>1. /\ AddLocks(c, k, g) /\ AddDone(c) /\ ~Exists(k)
        /\ node_cnt' = node_cnt + 1
        /\ UNCHANGED spinning /\ ret' \in Answers
    BY DEF AddCreates, Answer, Answers
  <1>2. b \in Buckets /\ multi_grp \in [Buckets -> [Rows -> Node]] /\ node_cnt \in Nat
    BY ClientAssumption DEF IInv, ClientTypeOK
  <1> DEFINE new == [multi_ip |-> g, key |-> k, created |-> 1, rx_packets |-> 0]
  <1>3. PICK r \in Rows :
          /\ FirstFreeRow(b, r)
          /\ multi_grp' = [multi_grp EXCEPT ![b][r] = new]
    BY DEF AddCreates
  <1>4. new \in Node /\ new.created = 1 /\ new.key = k /\ new.multi_ip = g
    BY DEF Node
  <1> HIDE DEF b, new
  <1>5. \A d \in Buckets, s \in Rows :
          multi_grp'[d][s] = IF d = b /\ s = r THEN new ELSE multi_grp[d][s]
    BY <1>2, <1>3
  <1>6. multi_grp' \in [Buckets -> [Rows -> Node]]
    BY <1>2, <1>3, <1>4
  <1>7. ClientTypeOK'
    BY <1>1, <1>2, <1>6, AddReturns DEF IInv, ClientTypeOK
  <1>8. /\ multi_grp[b][r].created = 0
        /\ \A q \in Rows : q < r => multi_grp[b][q].created = 1
    BY <1>3, ClientAssumption, Sizes DEF FirstFreeRow, ScannedRows, Rows
  <1>9. WellPlaced(multi_grp)
    BY PlacedNow DEF IInv
  <1>10. \A q \in Rows : r <= q => multi_grp[b][q].created # 1
    BY <1>2, <1>8, <1>9 DEF WellPlaced
  <1>11. \A q \in Rows : multi_grp[b][q].created = 1 => multi_grp[b][q].key # k
    BY <1>1, <1>2, <1>9 DEF WellPlaced, Exists, FoundAt, b
  <1>12. EveryNodeFound'
    <2>1. ASSUME NEW d \in Buckets, NEW s \in Rows
          PROVE  /\ multi_grp'[d][s].created # 1 =>
                      multi_grp'[d][s].key = NoKey /\ multi_grp'[d][s].multi_ip = NoGroup
                 /\ multi_grp'[d][s].created = 1 =>
                      /\ multi_grp'[d][s].key \in Keys
                      /\ ip_port_hash_key[multi_grp'[d][s].key] = d
                      /\ multi_grp'[d][s].multi_ip \in Groups
                      /\ \A q \in Rows : q <= s => multi_grp'[d][q].created = 1
                      /\ \A q \in Rows : q < s => multi_grp'[d][q].key # multi_grp'[d][s].key
      <3>1. CASE d # b
        BY <1>5, <1>9, <3>1 DEF WellPlaced
      <3>2. CASE d = b /\ s = r
        <4>0. \A q \in Rows : q < r => q # r
          BY Sizes
        <4>1. /\ multi_grp'[b][r] = new
              /\ \A q \in Rows : q < r => multi_grp'[b][q] = multi_grp[b][q]
          BY <1>2, <1>5, <4>0
        <4>2. ip_port_hash_key[k] = b
          BY DEF b
        <4>3. \A q \in Rows : q <= r => q < r \/ q = r
          BY Sizes
        <4>4. \A q \in Rows : q <= r => multi_grp'[b][q].created = 1
          BY <1>4, <1>8, <4>1, <4>3
        <4>5. \A q \in Rows : q < r => multi_grp'[b][q].key # k
          BY <1>8, <1>11, <4>1
        <4>6. QED
          BY <1>4, <3>2, <4>1, <4>2, <4>4, <4>5
      <3>3. CASE d = b /\ s # r
        <4>1. multi_grp'[b][s] = multi_grp[b][s]
          BY <1>2, <1>5, <3>3
        <4>2. CASE multi_grp[b][s].created = 1
          <5>1. s < r
            BY <1>10, <3>3, <4>2, Sizes
          <5>2. \A q \in Rows : q <= s => multi_grp'[b][q] = multi_grp[b][q]
            BY <1>2, <1>5, <5>1, Sizes
          <5>3. \A q \in Rows : q < s => q <= s
            BY Sizes
          <5>4. QED
            BY <1>2, <1>9, <3>3, <4>1, <4>2, <5>2, <5>3 DEF WellPlaced
        <4>3. CASE multi_grp[b][s].created # 1
          BY <1>2, <1>9, <3>3, <4>1, <4>3 DEF WellPlaced
        <4>4. QED
          BY <4>2, <4>3
      <3>4. QED
        BY <3>1, <3>2, <3>3
    <2>2. QED
      BY <2>1, PlacedNext DEF WellPlaced
  <1>13. NodeCntExact'
    <2>1. CreatedRows' = CreatedRows \cup {<<b, r>>}
      BY <1>2, <1>4, <1>5 DEF CreatedRows, Created
    <2>2. <<b, r>> \notin CreatedRows
      BY <1>8 DEF CreatedRows, Created
    <2>3. Cardinality(CreatedRows') = Cardinality(CreatedRows) + 1
      BY <2>1, <2>2, CreatedFinite, FS_AddElement
    <2>4. QED
      BY <1>1, <2>3 DEF IInv, NodeCntExact
  <1>14. OvershootBounded'
    <2>1. Cardinality(Adders') = Cardinality(Adders) - 1
      BY <1>1, AddReturns
    <2>2. (node_cnt + 1) + (Cardinality(Adders) - 1) <= GrpMax - 1 + Cardinality(Callers)
      BY <1>2, AddersFinite, Sizes DEF IInv, OvershootBounded
    <2>3. QED
      BY <1>1, <2>1, <2>2 DEF OvershootBounded
  <1>15. QED
    BY <1>7, <1>12, <1>13, <1>14 DEF IInv

-----------------------------------------------------------------------------
(* Deleting and clearing                                                   *)

\* The last row moves into the place of the row deleted.
LEMMA DeleteStep ==
  ASSUME IInv, NEW c \in Callers, NEW k \in Keys, DeleteFound(c, k)
  PROVE  IInv'
  <1> DEFINE b == ip_port_hash_key[k]
  <1>1. /\ node_cnt' = node_cnt - 1
        /\ UNCHANGED <<adding, spinning>> /\ ret' \in Answers
    BY DEF DeleteFound, Answer, Answers
  <1>2. b \in Buckets /\ multi_grp \in [Buckets -> [Rows -> Node]] /\ node_cnt \in Nat
    BY ClientAssumption DEF IInv, ClientTypeOK
  <1>3. PICK r \in Rows, last \in Rows :
          /\ FoundAt(k, r)
          /\ LastCreatedFrom(b, r, last)
          /\ multi_grp' = [multi_grp EXCEPT ![b] = RowRemoved(multi_grp[b], r, last)]
    BY DEF DeleteFound
  <1> HIDE DEF b
  <1> DEFINE moved == [multi_grp[b][last] EXCEPT !.rx_packets = multi_grp[b][r].rx_packets]
             free == Deleted(multi_grp[b][last])
  <1>4. /\ moved \in Node /\ moved.created = multi_grp[b][last].created
        /\ moved.key = multi_grp[b][last].key /\ moved.multi_ip = multi_grp[b][last].multi_ip
        /\ free \in Node /\ free.created = 0 /\ free.key = NoKey /\ free.multi_ip = NoGroup
    BY <1>2 DEF Node, Deleted, ZeroNode
  <1>5. multi_grp' = [multi_grp EXCEPT ![b] = [multi_grp[b] EXCEPT ![r] = moved, ![last] = free]]
    BY <1>3 DEF RowRemoved
  <1> HIDE DEF moved, free
  <1>6. \A d \in Buckets, s \in Rows :
          multi_grp'[d][s] = IF d # b THEN multi_grp[d][s]
                             ELSE IF s = last THEN free
                             ELSE IF s = r THEN moved
                             ELSE multi_grp[b][s]
    BY <1>2, <1>5
  <1>7. multi_grp' \in [Buckets -> [Rows -> Node]]
    <2>1. [multi_grp[b] EXCEPT ![r] = moved, ![last] = free] \in [Rows -> Node]
      BY <1>2, <1>4
    <2>2. QED
      BY <1>2, <1>5, <2>1
  <1>8. /\ r <= last /\ multi_grp[b][last].created = 1
        /\ \A q \in Rows : multi_grp[b][q].created = 1 => q <= last
    BY <1>3, Sizes DEF LastCreatedFrom
  <1>9. WellPlaced(multi_grp)
    BY PlacedNow DEF IInv
  <1>10. \A q \in Rows : q <= last => multi_grp[b][q].created = 1
    BY <1>2, <1>8, <1>9 DEF WellPlaced
  <1>11. \A q, s \in Rows :
           q # s /\ q <= last /\ s <= last => multi_grp[b][q].key # multi_grp[b][s].key
    <2>1. \A q, s \in Rows : q < s /\ s <= last => multi_grp[b][q].key # multi_grp[b][s].key
      BY <1>2, <1>9, <1>10 DEF WellPlaced
    <2>2. QED
      BY <2>1, Sizes
  <1>12. EveryNodeFound'
    <2>1. ASSUME NEW d \in Buckets, NEW s \in Rows
          PROVE  /\ multi_grp'[d][s].created # 1 =>
                      multi_grp'[d][s].key = NoKey /\ multi_grp'[d][s].multi_ip = NoGroup
                 /\ multi_grp'[d][s].created = 1 =>
                      /\ multi_grp'[d][s].key \in Keys
                      /\ ip_port_hash_key[multi_grp'[d][s].key] = d
                      /\ multi_grp'[d][s].multi_ip \in Groups
                      /\ \A q \in Rows : q <= s => multi_grp'[d][q].created = 1
                      /\ \A q \in Rows : q < s => multi_grp'[d][q].key # multi_grp'[d][s].key
      <3>1. CASE d # b
        BY <1>6, <1>9, <3>1 DEF WellPlaced
      <3>2. CASE d = b /\ s = last
        BY <1>2, <1>4, <1>6, <3>2
      <3>3. CASE d = b /\ last < s
        <4>0. s # last /\ s # r /\ ~(s <= last)
          BY <1>8, <3>3, Sizes
        <4>1. multi_grp'[b][s] = multi_grp[b][s] /\ multi_grp[b][s].created # 1
          BY <1>2, <1>6, <1>8, <4>0
        <4>2. QED
          BY <1>2, <1>9, <3>3, <4>1 DEF WellPlaced
      <3>4. CASE d = b /\ s < last
        <4> DEFINE From(q) == IF q = r THEN last ELSE q
        <4>1. \A q \in Rows : q < last =>
                /\ From(q) \in Rows /\ From(q) <= last
                /\ multi_grp'[b][q].created = multi_grp[b][From(q)].created
                /\ multi_grp'[b][q].key = multi_grp[b][From(q)].key
                /\ multi_grp'[b][q].multi_ip = multi_grp[b][From(q)].multi_ip
          BY <1>2, <1>4, <1>6, Sizes
        <4>2. \A q \in Rows : q < last => multi_grp'[b][q].created = 1
          BY <1>10, <4>1
        <4>3. /\ multi_grp'[b][s].key \in Keys
              /\ ip_port_hash_key[multi_grp'[b][s].key] = b
              /\ multi_grp'[b][s].multi_ip \in Groups
          BY <1>2, <1>9, <1>10, <3>4, <4>1 DEF WellPlaced
        <4>4. ASSUME NEW q \in Rows, q < s
              PROVE  multi_grp'[b][q].key # multi_grp'[b][s].key
          <5>1. q < last /\ From(q) # From(s)
            BY <3>4, <4>4, Sizes
          <5>2. QED
            BY <1>11, <3>4, <4>1, <5>1
        <4>5. \A q \in Rows : q <= s => q < last
          BY <3>4, Sizes
        <4>6. QED
          BY <3>4, <4>2, <4>3, <4>4, <4>5
      <3>5. QED
        BY <3>1, <3>2, <3>3, <3>4, Sizes
    <2>2. QED
      BY <2>1, PlacedNext DEF WellPlaced
  <1>13. /\ Cardinality(CreatedRows') = Cardinality(CreatedRows) - 1
         /\ 1 <= Cardinality(CreatedRows)
    <2>1. CreatedRows' = CreatedRows \ {<<b, last>>}
      <3>1. \A d \in Buckets, s \in Rows :
              multi_grp'[d][s].created = 1 <=>
                multi_grp[d][s].created = 1 /\ ~(d = b /\ s = last)
        BY <1>2, <1>4, <1>6, <1>8, <1>10
      <3>2. QED
        BY <3>1 DEF CreatedRows, Created
    <2>2. <<b, last>> \in CreatedRows
      BY <1>2, <1>8 DEF CreatedRows, Created
    <2>3. Cardinality(CreatedRows) # 0
      BY <2>2, CreatedFinite, FS_EmptySet
    <2>4. Cardinality(CreatedRows \ {<<b, last>>}) = Cardinality(CreatedRows) - 1
      BY <2>2, CreatedFinite, FS_RemoveElement, Zenon
    <2>5. 1 <= Cardinality(CreatedRows)
      BY <2>3, CreatedFinite
    <2>6. QED
      BY <2>1, <2>4, <2>5
  <1>14. NodeCntExact' /\ node_cnt' \in Nat
    BY <1>1, <1>2, <1>13, CreatedFinite DEF IInv, NodeCntExact
  <1>15. ClientTypeOK'
    BY <1>1, <1>7, <1>14 DEF IInv, ClientTypeOK
  <1>16. OvershootBounded'
    <2>1. Adders' = Adders
      BY <1>1 DEF Adders, Idle
    <2>2. (node_cnt - 1) + Cardinality(Adders) <= GrpMax - 1 + Cardinality(Callers)
      BY <1>2, AddersFinite, Sizes DEF IInv, OvershootBounded
    <2>3. QED
      BY <1>1, <2>1, <2>2 DEF OvershootBounded
  <1>17. QED
    BY <1>12, <1>14, <1>15, <1>16 DEF IInv

LEMMA ClearStep ==
  ASSUME IInv, NEW c \in Callers, clear_multi_node(c)
  PROVE  IInv'
  <1>1. /\ multi_grp' = [b \in Buckets |-> [r \in Rows |-> ZeroNode]]
        /\ node_cnt' = 0 /\ ret' \in Answers
        /\ UNCHANGED <<adding, spinning>>
    BY DEF clear_multi_node, Answer, Answers
  <1>2. ClientTypeOK'
    BY <1>1 DEF IInv, ClientTypeOK, ZeroNode, Node
  <1>3. EveryNodeFound'
    BY <1>1, PlacedNext DEF WellPlaced, ZeroNode
  <1>4. CreatedRows' = {}
    BY <1>1 DEF CreatedRows, Created, ZeroNode
  <1>5. NodeCntExact'
    BY <1>1, <1>4, FS_EmptySet DEF NodeCntExact
  <1>6. OvershootBounded'
    <2>1. Adders' = Adders
      BY <1>1 DEF Adders, Idle
    <2>2. 0 + Cardinality(Adders) <= GrpMax - 1 + Cardinality(Callers)
      BY AddersFinite, Sizes
    <2>3. QED
      BY <1>1, <2>1, <2>2 DEF OvershootBounded
  <1>7. QED
    BY <1>2, <1>3, <1>5, <1>6 DEF IInv

-----------------------------------------------------------------------------
(* Every step                                                              *)

\* Steps that change neither the table nor who is on its way to the lock.
LEMMA QuietStep ==
  ASSUME IInv, UNCHANGED <<multi_grp, node_cnt, adding>>, spinning' \in BOOLEAN, ret' \in Answers
  PROVE  IInv'
  <1>1. Adders' = Adders
    BY DEF Adders, Idle
  <1>2. ClientTypeOK'
    BY DEF IInv, ClientTypeOK
  <1>3. OvershootBounded'
    BY <1>1 DEF IInv, OvershootBounded
  <1>4. QED
    BY <1>2, <1>3, TableSame DEF IInv

LEMMA NextInv == IInv /\ [ClientNext]_clientVars => IInv'
  <1> SUFFICES ASSUME IInv, [ClientNext]_clientVars PROVE IInv'
    OBVIOUS
  <1>1. spinning \in BOOLEAN /\ ret \in Answers
    BY DEF IInv, ClientTypeOK
  <1>2. CASE UNCHANGED clientVars
    BY <1>1, <1>2, QuietStep DEF clientVars
  <1>3. CASE ClientNext
    <2>1. PICK c \in Callers :
            \/ \E k \in Keys, g \in Groups : add_multi_node(c, k, g)
            \/ \E k \in Keys : del_multi_node(c, k)
            \/ clear_multi_node(c)
            \/ Read(c)
      BY <1>3 DEF ClientNext
    <2>2. CASE \E k \in Keys, g \in Groups : add_multi_node(c, k, g)
      <3>1. PICK k \in Keys, g \in Groups : add_multi_node(c, k, g)
        BY <2>2
      <3>2. CASE AddStarts(c, k, g)
        BY <3>2, StartStep
      <3>3. CASE AddNoRoom(c)
        BY <1>1, <3>3, QuietStep DEF AddNoRoom, Answer, Answers
      <3>4. CASE AddExists(c, k, g) \/ AddUpdates(c, k, g)
        BY <3>4, RebindStep
      <3>5. CASE AddCreates(c, k, g)
        BY <3>5, CreateStep
      <3>6. CASE AddSpins(c, k, g)
        BY <1>1, <3>6, QuietStep DEF AddSpins
      <3>7. QED
        BY <3>1, <3>2, <3>3, <3>4, <3>5, <3>6 DEF add_multi_node
    <2>3. CASE \E k \in Keys : del_multi_node(c, k)
      <3>1. PICK k \in Keys : del_multi_node(c, k)
        BY <2>3
      <3>2. CASE DeleteFound(c, k)
        BY <3>2, DeleteStep
      <3>3. CASE DeleteMissing(c, k)
        BY <1>1, <3>3, QuietStep DEF DeleteMissing, Answer, Answers
      <3>4. QED
        BY <3>1, <3>2, <3>3 DEF del_multi_node
    <2>4. CASE clear_multi_node(c)
      BY <2>4, ClearStep
    <2>5. CASE Read(c)
      BY <1>1, <2>5, QuietStep DEF Read, Answer, Answers
    <2>6. QED
      BY <2>1, <2>2, <2>3, <2>4, <2>5
  <1>4. QED
    BY <1>2, <1>3

LEMMA ClientInvariant == ClientSpec => []IInv
  <1>1. QED
    BY InitInv, NextInv, PTL DEF ClientSpec

\* The client's table and node_cnt stay within their types: node_cnt never goes below 0.
THEOREM ClientTypeCorrect == ClientSpec => []ClientTypeOK
  <1>1. IInv => ClientTypeOK
    BY DEF IInv
  <1>2. QED
    BY <1>1, ClientInvariant, PTL

\* After any sequence of requests, of any number of senders let in at once, a lookup finds
\* every node: the rows that del_multi_node moves leave no hole and no key twice.
THEOREM ClientFindsEveryNode == ClientSpec => []EveryNodeFound
  <1>1. IInv => EveryNodeFound
    BY DEF IInv
  <1>2. QED
    BY <1>1, ClientInvariant, PTL

\* The counter that add_multi_node reads without the lock is exact at every moment.
THEOREM ClientCountsNodes == ClientSpec => []NodeCntExact
  <1>1. IInv => NodeCntExact
    BY DEF IInv
  <1>2. QED
    BY <1>1, ClientInvariant, PTL

\* The table outgrows MULTI_GRP_MAX by no more than the number of senders less one.
THEOREM ClientOvershoot == ClientSpec => []OvershootBounded
  <1>1. IInv => OvershootBounded
    BY DEF IInv
  <1>2. QED
    BY <1>1, ClientInvariant, PTL

-----------------------------------------------------------------------------
(* The bindings                                                            *)

\* Row r of k's bucket holds k.
Holds(k, r) ==
  Created(ip_port_hash_key[k], r) /\ multi_grp[ip_port_hash_key[k]][r].key = k

\* A lookup finds the one row that holds k, and the group there.
LookupFacts ==
  /\ \A k \in Keys, r \in Rows : FoundAt(k, r) <=> Holds(k, r)
  /\ \A k \in Keys, r, s \in Rows : Holds(k, r) /\ Holds(k, s) => r = s
  /\ \A k \in Keys, r \in Rows :
       Holds(k, r) => /\ GroupOf(k) = multi_grp[ip_port_hash_key[k]][r].multi_ip
                      /\ GroupOf(k) \in Groups
  /\ \A k \in Keys : (\A r \in Rows : ~Holds(k, r)) => GroupOf(k) = NoGroup

LEMMA LookupNow == EveryNodeFound => LookupFacts
  <1> SUFFICES ASSUME EveryNodeFound PROVE LookupFacts
    OBVIOUS
  <1>1. WellPlaced(multi_grp)
    BY PlacedNow
  <1>2. \A k \in Keys, r \in Rows : FoundAt(k, r) => Holds(k, r)
    BY Sizes DEF FoundAt, Holds, Created
  <1>3. \A k \in Keys, r \in Rows : Holds(k, r) => FoundAt(k, r)
    BY <1>1, ClientAssumption DEF WellPlaced, FoundAt, Holds, Created
  <1>4. ASSUME NEW k \in Keys, NEW r \in Rows, NEW s \in Rows, FoundAt(k, r), FoundAt(k, s)
        PROVE  r = s
    <2>1. ~(r < s) /\ ~(s < r)
      BY <1>4 DEF FoundAt
    <2>2. QED
      BY <2>1, Sizes
  <1>5. ASSUME NEW k \in Keys, NEW r \in Rows, Holds(k, r)
        PROVE  /\ GroupOf(k) = multi_grp[ip_port_hash_key[k]][r].multi_ip
               /\ GroupOf(k) \in Groups
    <2>1. FoundAt(k, r)
      BY <1>3, <1>5
    <2>2. Exists(k) /\ (CHOOSE s \in Rows : FoundAt(k, s)) = r
      BY <1>4, <2>1 DEF Exists
    <2>3. multi_grp[ip_port_hash_key[k]][r].multi_ip \in Groups
      BY <1>1, <1>5, ClientAssumption DEF WellPlaced, Holds, Created
    <2>4. QED
      BY <2>2, <2>3 DEF GroupOf
  <1>6. \A k \in Keys : (\A r \in Rows : ~Holds(k, r)) => GroupOf(k) = NoGroup
    BY <1>2 DEF GroupOf, Exists
  <1>7. QED
    BY <1>2, <1>3, <1>4, <1>5, <1>6 DEF LookupFacts

LEMMA LookupNext == EveryNodeFound' => LookupFacts'
  BY LookupNow, PTL

\* A key is bound if and only if a lookup finds it.
LEMMA BoundIsFound ==
  ASSUME IInv, NEW k \in Keys
  PROVE  /\ Exists(k) <=> GroupOf(k) # NoGroup
         /\ GroupOf(k) \in Groups \cup {NoGroup}
         /\ \A r \in Rows : FoundAt(k, r) =>
               GroupOf(k) = multi_grp[ip_port_hash_key[k]][r].multi_ip
  BY LookupNow, ClientAssumption DEF IInv, LookupFacts, Exists

\* The bindings are as many as the created rows.
LEMMA AllBound ==
  ASSUME IInv
  PROVE  Cardinality(CreatedRows) <= Cardinality({k \in Keys : GroupOf(k) # NoGroup})
  <1> DEFINE B == {k \in Keys : GroupOf(k) # NoGroup}
             f == [br \in CreatedRows |-> multi_grp[br[1]][br[2]].key]
  <1>1. WellPlaced(multi_grp) /\ LookupFacts
    BY PlacedNow, LookupNow DEF IInv
  <1>2. ASSUME NEW br \in CreatedRows
        PROVE  /\ br = <<br[1], br[2]>> /\ br[1] \in Buckets /\ br[2] \in Rows
               /\ f[br] \in Keys /\ ip_port_hash_key[f[br]] = br[1] /\ Holds(f[br], br[2])
    <2>1. br = <<br[1], br[2]>> /\ br[1] \in Buckets /\ br[2] \in Rows
      BY DEF CreatedRows
    <2>2. multi_grp[br[1]][br[2]].created = 1
      BY DEF CreatedRows, Created
    <2>3. PICK b, r : b = br[1] /\ r = br[2]
      OBVIOUS
    <2>4. LET k == multi_grp[b][r].key IN k \in Keys /\ ip_port_hash_key[k] = b
      BY <1>1, <2>1, <2>2, <2>3 DEF WellPlaced
    <2>5. Holds(multi_grp[b][r].key, r)
      BY <2>2, <2>3, <2>4 DEF Holds, Created
    <2>6. f[br] = multi_grp[b][r].key
      BY <2>3
    <2>7. QED
      BY <2>1, <2>3, <2>4, <2>5, <2>6
  <1>3. f \in [CreatedRows -> B]
    BY <1>1, <1>2, ClientAssumption DEF LookupFacts
  <1>4. ASSUME NEW br \in CreatedRows, NEW cs \in CreatedRows, f[br] = f[cs]
        PROVE  br = cs
    <2>1. br[1] = cs[1] /\ br[2] = cs[2]
      BY <1>1, <1>2, <1>4 DEF LookupFacts
    <2>2. QED
      BY <1>2, <2>1
  <1>5. IsFiniteSet(B)
    BY ClientAssumption, FS_Subset
  <1>6. f \in Injection(CreatedRows, B)
    <2> HIDE DEF f
    <2>1. QED
      BY <1>3, <1>4 DEF Injection, IsInjective
  <1>7. QED
    BY <1>5, <1>6, FS_Injection

LEMMA SameBindings ==
  ASSUME UNCHANGED multi_grp
  PROVE  UNCHANGED [k \in Keys |-> GroupOf(k)]
  BY DEF GroupOf, Exists, FoundAt

LEMMA SameCardinality == \A S : Abstract!Cardinality(S) = Cardinality(S)
  BY DEF Abstract!Cardinality, Cardinality, Abstract!IsFiniteSet, IsFiniteSet

LEMMA InitAbs == ClientInit => Abstract!AbsInit
  <1> SUFFICES ASSUME ClientInit PROVE Abstract!AbsInit
    OBVIOUS
  <1>1. \A k \in Keys, r \in Rows : ~Holds(k, r)
    BY ClientAssumption DEF ClientInit, Holds, Created, ZeroNode
  <1>2. \A k \in Keys : GroupOf(k) = NoGroup
    BY <1>1, InitInv, LookupNow DEF IInv, LookupFacts
  <1>3. QED
    BY <1>2 DEF Abstract!AbsInit, ClientInit

\* What each kind of step does to the bindings.
LEMMA UpdateBinds ==
  ASSUME IInv, IInv', NEW c \in Callers, NEW k \in Keys, NEW g \in Groups, AddUpdates(c, k, g)
  PROVE  /\ GroupOf(k) # g
         /\ \A h \in Keys : GroupOf(h)' = IF h = k THEN g ELSE GroupOf(h)
  <1> DEFINE b == ip_port_hash_key[k]
  <1>1. PICK r \in Rows :
          /\ FoundAt(k, r)
          /\ multi_grp[b][r].multi_ip # g
          /\ multi_grp' = [multi_grp EXCEPT ![b][r].multi_ip = g]
    BY DEF AddUpdates
  <1>2. b \in Buckets /\ multi_grp \in [Buckets -> [Rows -> Node]]
    BY ClientAssumption DEF IInv, ClientTypeOK
  <1>3. LookupFacts /\ LookupFacts'
    BY LookupNow, LookupNext DEF IInv
  <1>4. Holds(k, r) /\ GroupOf(k) # g
    BY <1>1, <1>3 DEF LookupFacts
  <1>5. \A d \in Buckets, s \in Rows :
          /\ multi_grp'[d][s].created = multi_grp[d][s].created
          /\ multi_grp'[d][s].key = multi_grp[d][s].key
          /\ ~(d = b /\ s = r) => multi_grp'[d][s].multi_ip = multi_grp[d][s].multi_ip
          /\ multi_grp'[b][r].multi_ip = g
    <2> HIDE DEF b
    <2>1. QED
      BY <1>1, <1>2 DEF Node
  <1>6. \A h \in Keys, s \in Rows : Holds(h, s)' <=> Holds(h, s)
    BY <1>5, ClientAssumption DEF Holds, Created
  <1>7. ASSUME NEW h \in Keys
        PROVE  GroupOf(h)' = IF h = k THEN g ELSE GroupOf(h)
    <2>1. CASE h = k
      BY <1>3, <1>4, <1>5, <1>6, <2>1, ClientAssumption DEF LookupFacts
    <2>2. CASE h # k /\ \E s \in Rows : Holds(h, s)
      <3>1. PICK s \in Rows : Holds(h, s)
        BY <2>2
      <3>2. ~(ip_port_hash_key[h] = b /\ s = r)
        BY <1>4, <2>2, <3>1 DEF Holds
      <3>3. QED
        BY <1>3, <1>5, <1>6, <2>2, <3>1, <3>2, ClientAssumption DEF LookupFacts
    <2>3. CASE h # k /\ \A s \in Rows : ~Holds(h, s)
      BY <1>3, <1>6, <2>3 DEF LookupFacts
    <2>4. QED
      BY <2>1, <2>2, <2>3
  <1>8. QED
    BY <1>4, <1>7

LEMMA CreateBinds ==
  ASSUME IInv, IInv', NEW c \in Callers, NEW k \in Keys, NEW g \in Groups, AddCreates(c, k, g)
  PROVE  /\ GroupOf(k) # g
         /\ \A h \in Keys : GroupOf(h)' = IF h = k THEN g ELSE GroupOf(h)
  <1> DEFINE b == ip_port_hash_key[k]
             new == [multi_ip |-> g, key |-> k, created |-> 1, rx_packets |-> 0]
  <1>1. PICK r \in Rows :
          /\ FirstFreeRow(b, r)
          /\ multi_grp' = [multi_grp EXCEPT ![b][r] = new]
    BY DEF AddCreates
  <1>2. b \in Buckets /\ multi_grp \in [Buckets -> [Rows -> Node]]
    BY ClientAssumption DEF IInv, ClientTypeOK
  <1>3. LookupFacts /\ LookupFacts'
    BY LookupNow, LookupNext DEF IInv
  <1>4. ~Exists(k) /\ GroupOf(k) = NoGroup
    BY BoundIsFound DEF AddCreates
  <1>5. multi_grp[b][r].created = 0 /\ new.created = 1 /\ new.key = k /\ new.multi_ip = g
    BY <1>1 DEF FirstFreeRow
  <1>6. \A d \in Buckets, s \in Rows :
          multi_grp'[d][s] = IF d = b /\ s = r THEN new ELSE multi_grp[d][s]
    <2> HIDE DEF b, new
    <2>1. QED
      BY <1>1, <1>2
  <1> HIDE DEF new
  <1>7. \A h \in Keys, s \in Rows : h # k => (Holds(h, s)' <=> Holds(h, s))
    BY <1>5, <1>6, ClientAssumption DEF Holds, Created
  <1>8. Holds(k, r)'
    BY <1>2, <1>5, <1>6 DEF Holds, Created
  <1>9. ASSUME NEW h \in Keys
        PROVE  GroupOf(h)' = IF h = k THEN g ELSE GroupOf(h)
    <2>1. CASE h = k
      BY <1>2, <1>3, <1>5, <1>6, <1>8, <2>1 DEF LookupFacts
    <2>2. CASE h # k /\ \E s \in Rows : Holds(h, s)
      <3>1. PICK s \in Rows : Holds(h, s)
        BY <2>2
      <3>2. ~(ip_port_hash_key[h] = b /\ s = r)
        BY <1>5, <3>1 DEF Holds, Created
      <3>3. QED
        BY <1>3, <1>6, <1>7, <2>2, <3>1, <3>2, ClientAssumption DEF LookupFacts
    <2>3. CASE h # k /\ \A s \in Rows : ~Holds(h, s)
      BY <1>3, <1>7, <2>3 DEF LookupFacts
    <2>4. QED
      BY <2>1, <2>2, <2>3
  <1>10. QED
    BY <1>4, <1>9, ClientAssumption

LEMMA DeleteUnbinds ==
  ASSUME IInv, IInv', NEW c \in Callers, NEW k \in Keys, DeleteFound(c, k)
  PROVE  /\ GroupOf(k) # NoGroup
         /\ \A h \in Keys : GroupOf(h)' = IF h = k THEN NoGroup ELSE GroupOf(h)
  <1> DEFINE b == ip_port_hash_key[k]
  <1>1. PICK r \in Rows, last \in Rows :
          /\ FoundAt(k, r)
          /\ LastCreatedFrom(b, r, last)
          /\ multi_grp' = [multi_grp EXCEPT ![b] = RowRemoved(multi_grp[b], r, last)]
    BY DEF DeleteFound
  <1>2. b \in Buckets /\ multi_grp \in [Buckets -> [Rows -> Node]]
    BY ClientAssumption DEF IInv, ClientTypeOK
  <1>3. LookupFacts /\ LookupFacts'
    BY LookupNow, LookupNext DEF IInv
  <1>4. Holds(k, r) /\ Exists(k) /\ GroupOf(k) # NoGroup
    BY <1>1, <1>3, BoundIsFound DEF LookupFacts, Exists
  <1>5. Created(b, last)
    BY <1>1 DEF LastCreatedFrom, Created
  <1> DEFINE moved == [multi_grp[b][last] EXCEPT !.rx_packets = multi_grp[b][r].rx_packets]
             free == Deleted(multi_grp[b][last])
  <1>6. /\ moved.created = multi_grp[b][last].created
        /\ moved.key = multi_grp[b][last].key /\ moved.multi_ip = multi_grp[b][last].multi_ip
        /\ free.created = 0
    <2> HIDE DEF b
    <2>1. QED
      BY <1>2 DEF Node, Deleted, ZeroNode
  <1>7. \A d \in Buckets, s \in Rows :
          multi_grp'[d][s] = IF d # b THEN multi_grp[d][s]
                             ELSE IF s = last THEN free
                             ELSE IF s = r THEN moved
                             ELSE multi_grp[b][s]
    <2>1. multi_grp' = [multi_grp EXCEPT ![b] = [multi_grp[b] EXCEPT ![r] = moved, ![last] = free]]
      BY <1>1 DEF RowRemoved
    <2> HIDE DEF b, moved, free
    <2>2. QED
      BY <1>2, <2>1
  <1> HIDE DEF moved, free
  <1>8. ASSUME NEW h \in Keys, h # k, NEW s \in Rows, Holds(h, s)
        PROVE  \E q \in Rows : /\ Holds(h, q)'
                               /\ multi_grp'[ip_port_hash_key[h]][q].multi_ip =
                                     multi_grp[ip_port_hash_key[h]][s].multi_ip
    <2>1. ip_port_hash_key[h] \in Buckets /\ ~(ip_port_hash_key[h] = b /\ s = r)
      BY <1>4, <1>8, ClientAssumption DEF Holds
    <2>2. CASE ip_port_hash_key[h] = b /\ s = last
      <3>1. r # last
        BY <2>1, <2>2
      <3>2. multi_grp'[b][r] = moved
        BY <1>2, <1>7, <3>1
      <3>3. Holds(h, r)'
        BY <1>6, <1>8, <2>2, <3>2 DEF Holds, Created
      <3>4. QED
        BY <1>6, <2>2, <3>2, <3>3
    <2>3. CASE ~(ip_port_hash_key[h] = b /\ s = last)
      <3>1. multi_grp'[ip_port_hash_key[h]][s] = multi_grp[ip_port_hash_key[h]][s]
        BY <1>7, <2>1, <2>3
      <3>2. QED
        BY <1>8, <3>1 DEF Holds, Created
    <2>4. QED
      BY <2>2, <2>3
  <1>9. ASSUME NEW h \in Keys, NEW q \in Rows, Holds(h, q)'
        PROVE  h # k /\ \E s \in Rows : Holds(h, s)
    <2>1. ip_port_hash_key[h] \in Buckets
      BY ClientAssumption
    <2>2. CASE ip_port_hash_key[h] = b /\ q = r
      <3>1. r # last
        BY <1>2, <1>6, <1>7, <1>9, <2>2 DEF Holds, Created
      <3>2. multi_grp'[b][r] = moved
        BY <1>2, <1>7, <3>1
      <3>3. Holds(h, last)
        BY <1>5, <1>6, <1>9, <2>2, <3>2 DEF Holds, Created
      <3>4. h # k
        BY <1>3, <1>4, <3>1, <3>3 DEF LookupFacts
      <3>5. QED
        BY <3>3, <3>4
    <2>3. CASE ~(ip_port_hash_key[h] = b /\ q = r)
      <3>1. ~(ip_port_hash_key[h] = b /\ q = last)
        BY <1>2, <1>6, <1>7, <1>9 DEF Holds, Created
      <3>2. Holds(h, q)
        BY <1>7, <1>9, <2>1, <2>3, <3>1 DEF Holds, Created
      <3>3. h # k
        BY <1>3, <1>4, <2>3, <3>2 DEF LookupFacts
      <3>4. QED
        BY <3>2, <3>3
    <2>4. QED
      BY <2>2, <2>3
  <1>10. ASSUME NEW h \in Keys
         PROVE  GroupOf(h)' = IF h = k THEN NoGroup ELSE GroupOf(h)
    <2>1. CASE \E q \in Rows : Holds(h, q)'
      <3>1. h # k /\ \E s \in Rows : Holds(h, s)
        BY <1>9, <2>1
      <3>2. QED
        BY <1>3, <1>8, <3>1 DEF LookupFacts
    <2>2. CASE \A q \in Rows : ~Holds(h, q)'
      <3>1. GroupOf(h)' = NoGroup
        BY <1>3, <2>2 DEF LookupFacts
      <3>2. h # k => \A s \in Rows : ~Holds(h, s)
        BY <1>8, <2>2
      <3>3. QED
        BY <1>3, <3>1, <3>2 DEF LookupFacts
    <2>3. QED
      BY <2>1, <2>2
  <1>11. QED
    BY <1>4, <1>10

LEMMA NextAbs ==
  ASSUME IInv, IInv', [ClientNext]_clientVars
  PROVE  [Abstract!AbsNext]_(Abstract!absVars)
  <1> DEFINE M == [k \in Keys |-> GroupOf(k)]
  <1>1. CASE UNCHANGED clientVars
    BY <1>1, SameBindings DEF clientVars, Abstract!absVars
  <1>2. ASSUME NEW c \in Callers, NEW k \in Keys, NEW g \in Groups,
               AddUpdates(c, k, g) \/ AddCreates(c, k, g)
        PROVE  Abstract!AbsBind(k, g)
    <2>1. /\ M[k] # g
          /\ \A h \in Keys : GroupOf(h)' = IF h = k THEN g ELSE M[h]
      BY <1>2, UpdateBinds, CreateBinds
    <2>2. M' = [M EXCEPT ![k] = g] /\ ret' = "ok"
      BY <1>2, <2>1 DEF AddUpdates, AddCreates, Answer
    <2>3. QED
      BY <2>1, <2>2 DEF Abstract!AbsBind
  <1>3. ASSUME NEW c \in Callers, NEW k \in Keys, NEW g \in Groups, AddExists(c, k, g)
        PROVE  Abstract!AbsBoundAlready(k, g)
    <2>1. M[k] = g
      BY <1>3, BoundIsFound DEF AddExists
    <2>2. M' = M /\ ret' = "MULTI_NODE_EXSIT"
      BY <1>3, SameBindings DEF AddExists, Answer
    <2>3. QED
      BY <2>1, <2>2 DEF Abstract!AbsBoundAlready
  <1>4. ASSUME NEW c \in Callers, AddNoRoom(c)
        PROVE  Abstract!AbsNoRoom
    <2>1. {k \in Keys : M[k] # NoGroup} = {k \in Keys : GroupOf(k) # NoGroup}
      OBVIOUS
    <2>2. Cardinality({k \in Keys : GroupOf(k) # NoGroup}) \in Nat
      BY ClientAssumption, FS_Subset, FS_CardinalityType
    <2>3. GrpMax <= Cardinality({k \in Keys : GroupOf(k) # NoGroup})
      BY <1>4, <2>2, AllBound, CreatedFinite, Sizes DEF AddNoRoom, RoomSeen, IInv, NodeCntExact
    <2>4. M' = M /\ ret' = "MULTI_TBL_FULL"
      BY <1>4, SameBindings DEF AddNoRoom, Answer
    <2>5. QED
      BY <2>1, <2>3, <2>4, SameCardinality DEF Abstract!AbsNoRoom, Abstract!BoundKeys
  <1>5. ASSUME NEW c \in Callers, NEW k \in Keys, DeleteFound(c, k)
        PROVE  Abstract!AbsUnbind(k)
    <2>1. /\ M[k] # NoGroup
          /\ \A h \in Keys : GroupOf(h)' = IF h = k THEN NoGroup ELSE M[h]
      BY <1>5, DeleteUnbinds
    <2>2. M' = [M EXCEPT ![k] = NoGroup] /\ ret' = "ok"
      BY <1>5, <2>1 DEF DeleteFound, Answer
    <2>3. QED
      BY <2>1, <2>2 DEF Abstract!AbsUnbind, Abstract!BoundKeys
  <1>6. ASSUME NEW c \in Callers, NEW k \in Keys, DeleteMissing(c, k)
        PROVE  Abstract!AbsMissing(k)
    <2>1. M[k] = NoGroup
      BY <1>6, BoundIsFound DEF DeleteMissing
    <2>2. M' = M /\ ret' = "MULTI_NODE_NOT_EXSIT"
      BY <1>6, SameBindings DEF DeleteMissing, Answer
    <2>3. QED
      BY <2>1, <2>2 DEF Abstract!AbsMissing, Abstract!BoundKeys
  <1>7. ASSUME NEW c \in Callers, clear_multi_node(c)
        PROVE  Abstract!AbsClear
    <2>1. \A k \in Keys, r \in Rows : ~Holds(k, r)'
      BY <1>7, ClientAssumption DEF clear_multi_node, Holds, Created, ZeroNode
    <2>2. \A k \in Keys : GroupOf(k)' = NoGroup
      BY <2>1, LookupNext DEF IInv, LookupFacts
    <2>3. QED
      BY <1>7, <2>2 DEF Abstract!AbsClear, clear_multi_node, Answer
  <1>8. ASSUME NEW c \in Callers, Read(c)
        PROVE  Abstract!AbsRead
    BY <1>8, SameBindings DEF Abstract!AbsRead, Read, Answer
  <1>9. ASSUME NEW c \in Callers, NEW k \in Keys, NEW g \in Groups,
               AddStarts(c, k, g) \/ AddSpins(c, k, g)
        PROVE  UNCHANGED Abstract!absVars
    BY <1>9, SameBindings DEF Abstract!absVars, AddStarts, AddSpins
  <1>10. CASE ClientNext
    <2>1. PICK c \in Callers :
            \/ \E k \in Keys, g \in Groups : add_multi_node(c, k, g)
            \/ \E k \in Keys : del_multi_node(c, k)
            \/ clear_multi_node(c)
            \/ Read(c)
      BY <1>10 DEF ClientNext
    <2>2. QED
      BY <1>2, <1>3, <1>4, <1>5, <1>6, <1>7, <1>8, <1>9, <2>1
         DEF Abstract!AbsNext, add_multi_node, del_multi_node
  <1>11. QED
    BY <1>1, <1>10

\* The client's table implements the bindings of module ClientBindings: deleting a node
\* never disturbs another one's group, and nobody is refused while there is room.
THEOREM ClientImplementsBindings == ClientSpec => ImplementsBindings
  <1>1. ClientInit => Abstract!AbsInit
    BY InitAbs
  <1>2. IInv /\ IInv' /\ [ClientNext]_clientVars => [Abstract!AbsNext]_(Abstract!absVars)
    BY NextAbs
  <1>3. QED
    BY <1>1, <1>2, ClientInvariant, PTL DEF ClientSpec, ImplementsBindings, Abstract!AbsSpec

-----------------------------------------------------------------------------
(* The netfilter hook                                                      *)

Packet == [pc : {"idle", "any", "found", "count", "stats"}, key : Keys \cup {NoKey},
           multi_ip : Groups \cup {NoGroup}, depth : Rows, reg : Nat, stale : BOOLEAN]

\* p's node has been found.
HasNode(p) == p.pc \in {"found", "count", "stats"}

WellFormed(p) ==
  /\ p \in Packet
  /\ p.pc # "idle" => p.key \in Keys
  /\ HasNode(p) => p.multi_ip \in Groups

HookTypes ==
  /\ rx_packets \in Nat
  /\ \A c \in CPUs : WellFormed(cpu[c])
  /\ cpu \in [CPUs -> Packet]
  /\ own \in [Keys -> Nat]

-----------------------------------------------------------------------------
(* Invariants                                                              *)

\* p has been rewritten, and has still to be counted in a row.
OwesRow(p) == p.pc \in {"count", "stats"}
FreshFor(k) == {c \in CPUs : OwesRow(cpu[c]) /\ ~cpu[c].stale /\ cpu[c].key = k}

(***************************************************************************)
(* A packet that is not stale has a node in the table.  Unless a node is   *)
(* mixed, what it has counted and what it is owed never exceed the packets *)
(* rewritten for it.                                                       *)
(***************************************************************************)
OwnInv ==
  /\ \A c \in CPUs : HasNode(cpu[c]) /\ ~cpu[c].stale => cpu[c].key \in KeysIn(multi_grp)
  /\ \A b \in Buckets, r \in Rows, k \in Keys :
       Created(b, r) /\ KeyAt(b, r) = k /\ k \notin mixed =>
         multi_grp[b][r].rx_packets + Cardinality(FreshFor(k)) <= own[k]

HookInv == IInv /\ HookTypes /\ OwnInv

-----------------------------------------------------------------------------
(* Sets of CPUs, and the table's rows                                      *)

LEMMA CpuSet ==
  ASSUME NEW S \in SUBSET CPUs
  PROVE  /\ Cardinality(S) \in Nat
         /\ S = {} => Cardinality(S) = 0
         /\ \A T \in SUBSET S : Cardinality(T) \in Nat /\ Cardinality(T) <= Cardinality(S)
         /\ \A c \in CPUs \ S : Cardinality(S \cup {c}) = Cardinality(S) + 1
         /\ \A c \in S : Cardinality(S \ {c}) = Cardinality(S) - 1
  <1>1. IsFiniteSet(S)
    BY ForwardAssumption, FS_Subset
  <1>2. \A T \in SUBSET S : IsFiniteSet(T) /\ Cardinality(T) <= Cardinality(S)
    BY <1>1, FS_Subset
  <1>3. Cardinality(S) \in Nat /\ \A T \in SUBSET S : Cardinality(T) \in Nat
    BY <1>1, <1>2, FS_CardinalityType
  <1>4. S = {} => Cardinality(S) = 0
    BY FS_EmptySet
  <1>5. \A c \in CPUs \ S : Cardinality(S \cup {c}) = Cardinality(S) + 1
    BY <1>1, FS_AddElement
  <1>6. \A c \in S : Cardinality(S \ {c}) = Cardinality(S) - 1
    BY <1>1, FS_RemoveElement
  <1>7. QED
    BY <1>2, <1>3, <1>4, <1>5, <1>6

\* A created row's node: its key, group and count.
LEMMA NodeOfRow ==
  ASSUME IInv, NEW b \in Buckets, NEW r \in Rows
  PROVE  /\ multi_grp[b][r] \in Node /\ multi_grp[b][r].rx_packets \in Nat
         /\ Created(b, r) => /\ KeyAt(b, r) \in Keys /\ KeyAt(b, r) \in KeysIn(multi_grp)
                             /\ ip_port_hash_key[KeyAt(b, r)] = b
                             /\ multi_grp[b][r].multi_ip \in Groups
         /\ ~Created(b, r) => KeyAt(b, r) \notin Keys /\ multi_grp[b][r].multi_ip \notin Groups
  <1>1. multi_grp[b][r] \in Node
    BY DEF IInv, ClientTypeOK
  <1>2. WellPlaced(multi_grp)
    BY PlacedNow DEF IInv
  <1>3. QED
    BY <1>1, <1>2, ClientAssumption DEF WellPlaced, Created, KeyAt, KeysIn, Node

\* A packet that is not stale, and a created row, at most share a key.
LEMMA FreshNumbers ==
  ASSUME HookTypes, NEW k \in Keys
  PROVE  /\ FreshFor(k) \in SUBSET CPUs /\ Cardinality(FreshFor(k)) \in Nat
         /\ own[k] \in Nat
  <1>1. FreshFor(k) \in SUBSET CPUs
    BY DEF FreshFor
  <1>2. QED
    BY <1>1, CpuSet DEF HookTypes

-----------------------------------------------------------------------------
(* What a step of the hook does                                            *)

LEMMA NoPacketFormed == WellFormed(NoPacket) /\ NoPacket.pc = "idle"
  <1>1. 0 \in Rows
    BY ClientAssumption DEF Rows
  <1>2. NoPacket \in Packet
    BY <1>1 DEF NoPacket, Packet
  <1>3. QED
    BY <1>2 DEF WellFormed, HasNode, NoPacket

\* c's packet is p next.  p owes its row a count if it did before, and if it has a node,
\* that was found now or before.
Quiet(c, p) ==
  /\ WellFormed(p) /\ At(c, p)
  /\ OwesRow(p) <=> OwesRow(cpu[c])
  /\ OwesRow(p) => p.key = cpu[c].key /\ p.stale = cpu[c].stale
  /\ HasNode(p) /\ ~p.stale =>
       \/ p.key \in KeysIn(multi_grp)
       \/ HasNode(cpu[c]) /\ ~cpu[c].stale /\ cpu[c].key = p.key
  /\ rx_packets' \in Nat
  /\ UNCHANGED <<clientVars, own, mixed>>

LEMMA CpusMoved ==
  ASSUME HookTypes, NEW c \in CPUs, NEW p, WellFormed(p), At(c, p)
  PROVE  /\ cpu' \in [CPUs -> Packet] /\ \A d \in CPUs : WellFormed(cpu'[d])
         /\ cpu'[c] = p /\ \A d \in CPUs \ {c} : cpu'[d] = cpu[d]
  BY DEF HookTypes, At, WellFormed

\* A lookup: the node found is in the table.
LEMMA LookupFinds ==
  ASSUME IInv, HookTypes, NEW c \in CPUs, NEW k \in Keys, NEW Miss, LookupAt(c, k, Miss)
  PROVE  \/ At(c, Miss)
         \/ \E p : /\ WellFormed(p) /\ At(c, p) /\ p.pc = "found" /\ p.key = k
                   /\ k \in KeysIn(multi_grp)
  <1> DEFINE b == ip_port_hash_key[k]
  <1>1. CASE ~Exists(k)
    BY <1>1 DEF LookupAt
  <1>2. CASE Exists(k)
    <2>1. PICK r \in Rows :
            /\ FoundAt(k, r)
            /\ At(c, [NoPacket EXCEPT !.pc = "found", !.key = k, !.depth = r,
                                      !.multi_ip = multi_grp[b][r].multi_ip])
      BY <1>2 DEF LookupAt
    <2> DEFINE ip == multi_grp[b][r].multi_ip
               p == [NoPacket EXCEPT !.pc = "found", !.key = k, !.depth = r, !.multi_ip = ip]
    <2>2. b \in Buckets /\ Created(b, r) /\ KeyAt(b, r) = k
      BY <2>1, ClientAssumption DEF FoundAt, Created, KeyAt, Rows
    <2>3. ip \in Groups /\ k \in KeysIn(multi_grp)
      BY <2>2, NodeOfRow
    <2>4. At(c, p)
      BY <2>1
    <2> HIDE DEF ip
    <2>5. NoPacket \in Packet
      BY NoPacketFormed DEF WellFormed
    <2>6. p \in Packet /\ p.pc = "found" /\ p.key = k /\ p.multi_ip = ip
      BY <2>3, <2>5 DEF Packet
    <2>7. WellFormed(p)
      BY <2>3, <2>6 DEF WellFormed
    <2> HIDE DEF p
    <2>8. QED
      BY <2>3, <2>4, <2>6, <2>7
  <1>3. QED
    BY <1>1, <1>2

\* The lookups, a packet that is let pass, and the store of the module's counter.
LEMMA QuietSteps ==
  ASSUME IInv, HookTypes, NEW c \in CPUs,
         \/ \E k \in Keys : LookupKey(c, k)
         \/ LookupAnyPort(c)
         \/ NotProxied(c)
         \/ StoreCounter(c)
  PROVE  \E p : Quiet(c, p)
  <1>1. WellFormed(cpu[c]) /\ cpu[c] \in Packet
    BY DEF HookTypes, WellFormed
  <1>2. rx_packets \in Nat
    BY DEF HookTypes
  <1>3. ASSUME NEW p, WellFormed(p), At(c, p), ~OwesRow(cpu[c]), ~OwesRow(p),
               HasNode(p) => p.key \in KeysIn(multi_grp),
               UNCHANGED <<clientVars, rx_packets, own, mixed>>
        PROVE  Quiet(c, p)
    BY <1>2, <1>3 DEF Quiet
  <1>4. ASSUME NEW k \in Keys, NEW Miss, LookupAt(c, k, Miss), WellFormed(Miss),
               ~HasNode(Miss), ~OwesRow(cpu[c]),
               UNCHANGED <<clientVars, rx_packets, own, mixed>>
        PROVE  \E p : Quiet(c, p)
    <2>1. ~OwesRow(Miss)
      BY <1>4 DEF OwesRow, HasNode
    <2>2. CASE At(c, Miss)
      BY <1>3, <1>4, <2>1, <2>2
    <2>3. CASE \E p : /\ WellFormed(p) /\ At(c, p) /\ p.pc = "found" /\ p.key = k
                      /\ k \in KeysIn(multi_grp)
      <3>1. PICK p : /\ WellFormed(p) /\ At(c, p) /\ p.pc = "found" /\ p.key = k
                     /\ k \in KeysIn(multi_grp)
        BY <2>3
      <3>2. ~OwesRow(p)
        BY <3>1 DEF OwesRow
      <3>3. QED
        BY <1>3, <1>4, <3>1, <3>2
    <2>4. QED
      BY <1>4, <2>2, <2>3, LookupFinds
  <1>5. ASSUME NEW k \in Keys, LookupKey(c, k)
        PROVE  \E p : Quiet(c, p)
    <2> DEFINE Miss == [NoPacket EXCEPT !.pc = "any", !.key = AnyPort[k]]
    <2>1. AnyPort[k] \in Keys /\ NoPacket \in Packet
      BY ForwardAssumption, NoPacketFormed DEF WellFormed
    <2>2. Miss \in Packet /\ Miss.pc = "any" /\ Miss.key = AnyPort[k]
      BY <2>1 DEF Packet
    <2>3. WellFormed(Miss) /\ ~HasNode(Miss)
      BY <2>1, <2>2 DEF WellFormed, HasNode
    <2>4. ~OwesRow(cpu[c]) /\ UNCHANGED <<clientVars, rx_packets, own, mixed>>
      BY <1>5 DEF LookupKey, OwesRow
    <2>5. LookupAt(c, k, Miss)
      BY <1>5 DEF LookupKey
    <2> HIDE DEF Miss
    <2>6. QED
      BY <1>4, <2>3, <2>4, <2>5
  <1>6. CASE LookupAnyPort(c)
    <2>1. cpu[c].key \in Keys /\ ~OwesRow(cpu[c])
      BY <1>1, <1>6 DEF LookupAnyPort, WellFormed, OwesRow
    <2>2. ~HasNode(NoPacket)
      BY NoPacketFormed DEF HasNode
    <2>3. QED
      BY <1>4, <1>6, <2>1, <2>2, NoPacketFormed DEF LookupAnyPort
  <1>7. CASE NotProxied(c)
    <2>1. ~OwesRow(cpu[c]) /\ ~OwesRow(NoPacket) /\ ~HasNode(NoPacket)
      BY <1>7, NoPacketFormed DEF NotProxied, OwesRow, HasNode
    <2>2. QED
      BY <1>3, <1>7, <2>1, NoPacketFormed DEF NotProxied
  <1>8. CASE StoreCounter(c)
    <2> DEFINE p == [cpu[c] EXCEPT !.pc = "stats", !.reg = 0]
    <2>1. cpu[c].pc = "count" /\ At(c, p) /\ rx_packets' = cpu[c].reg + 1
          /\ UNCHANGED <<clientVars, own, mixed>>
      BY <1>8 DEF StoreCounter
    <2>2. /\ p \in Packet /\ p.pc = "stats" /\ p.key = cpu[c].key
          /\ p.stale = cpu[c].stale /\ p.multi_ip = cpu[c].multi_ip
      BY <1>1 DEF Packet
    <2> HIDE DEF p
    <2>3. WellFormed(p)
      BY <1>1, <2>1, <2>2 DEF WellFormed, HasNode
    <2>4. rx_packets' \in Nat
      BY <1>1, <2>1 DEF Packet
    <2>5. QED
      BY <2>1, <2>2, <2>3, <2>4 DEF Quiet, OwesRow, HasNode
  <1>9. QED
    BY <1>5, <1>6, <1>7, <1>8

LEMMA RewriteStep ==
  ASSUME HookTypes, NEW c \in CPUs, Rewrite(c)
  PROVE  \E p : /\ WellFormed(p) /\ At(c, p) /\ cpu[c].pc = "found" /\ p.pc = "count"
                /\ p.key = cpu[c].key /\ p.stale = cpu[c].stale /\ p.key \in Keys
                /\ own' = IF p.stale THEN own ELSE [own EXCEPT ![p.key] = @ + 1]
                /\ UNCHANGED <<clientVars, rx_packets, mixed>>
  <1> DEFINE p == [cpu[c] EXCEPT !.pc = "count", !.reg = rx_packets]
  <1>1. WellFormed(cpu[c]) /\ cpu[c] \in Packet /\ cpu[c].pc = "found" /\ rx_packets \in Nat
    BY DEF HookTypes, WellFormed, Rewrite
  <1>2. /\ p \in Packet /\ p.pc = "count" /\ p.key = cpu[c].key
        /\ p.stale = cpu[c].stale /\ p.multi_ip = cpu[c].multi_ip
    BY <1>1 DEF Packet
  <1>3. At(c, p)
    BY DEF Rewrite
  <1> HIDE DEF p
  <1>4. WellFormed(p) /\ p.key \in Keys
    BY <1>1, <1>2 DEF WellFormed, HasNode
  <1>5. QED
    BY <1>1, <1>2, <1>3, <1>4 DEF Rewrite

\* The count in a row changes nothing else in the table.
LEMMA CountStep ==
  ASSUME IInv, HookTypes, NEW c \in CPUs, CountInRow(c)
  PROVE  /\ At(c, NoPacket) /\ cpu[c].pc = "stats" /\ UNCHANGED <<node_cnt, adding, spinning, ret>>
         /\ rx_packets' = rx_packets /\ own' = own
         /\ multi_grp' \in [Buckets -> [Rows -> Node]]
         /\ \A b \in Buckets, r \in Rows :
              /\ multi_grp'[b][r].created = multi_grp[b][r].created
              /\ multi_grp'[b][r].key = multi_grp[b][r].key
              /\ multi_grp'[b][r].multi_ip = multi_grp[b][r].multi_ip
              /\ \/ multi_grp'[b][r].rx_packets = multi_grp[b][r].rx_packets
                 \/ /\ multi_grp'[b][r].rx_packets = multi_grp[b][r].rx_packets + 1
                    /\ cpu[c].stale \/ KeyAt(b, r) # cpu[c].key => KeyAt(b, r) \in mixed'
         /\ mixed \subseteq mixed'
  <1> DEFINE p == cpu[c]
             b == ip_port_hash_key[p.key]
             s == p.depth
             node == multi_grp[b][s]
  <1>1. p.pc = "stats" /\ WellFormed(p) /\ p \in Packet
    BY DEF CountInRow, HookTypes, WellFormed
  <1>2. b \in Buckets /\ s \in Rows
    BY <1>1, ClientAssumption DEF WellFormed, Packet
  <1>3. multi_grp \in [Buckets -> [Rows -> Node]]
    BY DEF IInv, ClientTypeOK
  <1>4. /\ At(c, NoPacket) /\ UNCHANGED <<node_cnt, adding, spinning, ret, rx_packets, own>>
        /\ IF node.multi_ip = p.multi_ip
           THEN /\ multi_grp' = [multi_grp EXCEPT ![b][s].rx_packets = @ + 1]
                /\ mixed' = IF p.stale \/ node.key # p.key THEN mixed \cup {node.key} ELSE mixed
           ELSE UNCHANGED <<multi_grp, mixed>>
    BY DEF CountInRow
  <1> HIDE DEF b, s, p
  <1>5. CASE node.multi_ip # p.multi_ip
    BY <1>1, <1>3, <1>4, <1>5 DEF p
  <1>6. CASE node.multi_ip = p.multi_ip
    <2> DEFINE new == [node EXCEPT !.rx_packets = @ + 1]
    <2>1. node \in Node
      BY <1>2, <1>3
    <2>2. node.rx_packets + 1 \in Nat
      BY <2>1 DEF Node
    <2>3. /\ new \in Node /\ new.created = node.created /\ new.key = node.key
          /\ new.multi_ip = node.multi_ip /\ new.rx_packets = node.rx_packets + 1
      BY <2>1, <2>2 DEF Node
    <2>4. multi_grp' = [multi_grp EXCEPT ![b] = [multi_grp[b] EXCEPT ![s] = new]]
      BY <1>4, <1>6
    <2>5. mixed' = IF p.stale \/ node.key # p.key THEN mixed \cup {node.key} ELSE mixed
      BY <1>4, <1>6
    <2> HIDE DEF new
    <2>6. multi_grp' \in [Buckets -> [Rows -> Node]]
      BY <1>2, <1>3, <2>3, <2>4
    <2>7. \A d \in Buckets, r \in Rows :
            multi_grp'[d][r] = IF d = b /\ r = s THEN new ELSE multi_grp[d][r]
      BY <1>2, <1>3, <2>4
    <2>8. QED
      BY <1>1, <1>2, <1>4, <2>3, <2>5, <2>6, <2>7 DEF p, KeyAt
  <1>7. QED
    BY <1>5, <1>6

-----------------------------------------------------------------------------
(* What a request does                                                     *)

LEMMA RequestCpus ==
  ASSUME HookTypes, Request
  PROVE  /\ cpu' \in [CPUs -> Packet]
         /\ \A c \in CPUs :
              /\ WellFormed(cpu'[c]) /\ cpu'[c].pc = cpu[c].pc /\ cpu'[c].key = cpu[c].key
              /\ cpu'[c].stale <=>
                   \/ cpu[c].stale
                   \/ HasNode(cpu[c]) /\ cpu[c].key \in KeysIn(multi_grp) \ KeysIn(multi_grp')
  <1> DEFINE gone == KeysIn(multi_grp) \ KeysIn(multi_grp')
             s(c) == cpu[c].stale \/ (cpu[c].pc \in {"found", "count", "stats"} /\ cpu[c].key \in gone)
  <1>1. cpu' = [c \in CPUs |-> [cpu[c] EXCEPT !.stale = s(c)]]
    BY DEF Request
  <1>2. \A c \in CPUs : s(c) \in BOOLEAN /\ cpu[c] \in Packet /\ WellFormed(cpu[c])
    BY DEF HookTypes, Packet
  <1> HIDE DEF s
  <1>3. ASSUME NEW c \in CPUs
        PROVE  /\ cpu'[c] \in Packet /\ WellFormed(cpu'[c])
               /\ cpu'[c].pc = cpu[c].pc /\ cpu'[c].key = cpu[c].key
               /\ cpu'[c].stale <=> s(c)
    <2>1. cpu'[c] = [cpu[c] EXCEPT !.stale = s(c)] /\ cpu[c] \in Packet /\ WellFormed(cpu[c])
      BY <1>1, <1>2
    <2>2. s(c) \in BOOLEAN
      BY <1>2
    <2>3. /\ cpu'[c] \in Packet /\ cpu'[c].multi_ip = cpu[c].multi_ip
          /\ cpu'[c].pc = cpu[c].pc /\ cpu'[c].key = cpu[c].key /\ cpu'[c].stale = s(c)
      BY <2>1, <2>2 DEF Packet
    <2>4. QED
      BY <2>1, <2>3 DEF WellFormed, HasNode
  <1>4. cpu' \in [CPUs -> Packet]
    BY <1>1, <1>3
  <1>5. QED
    BY <1>3, <1>4 DEF s, HasNode

\* A row after a request: it has the node and the count it had, or a new node that has
\* counted nothing, or a node that was moved there.
RowKept(b, r) ==
  /\ Created(b, r) /\ KeyAt(b, r)' = KeyAt(b, r)
  /\ multi_grp'[b][r].rx_packets = multi_grp[b][r].rx_packets
RowNew(b, r) == KeyAt(b, r)' \notin KeysIn(multi_grp) /\ multi_grp'[b][r].rx_packets = 0
RowMoved(b, r) == KeyAt(b, r)' \in MovedKeys

RowsFollow == \A b \in Buckets, r \in Rows :
                Created(b, r)' => RowKept(b, r) \/ RowNew(b, r) \/ RowMoved(b, r)

LEMMA CreateRows ==
  ASSUME IInv, NEW c \in Callers, NEW k \in Keys, NEW g \in Groups, AddCreates(c, k, g)
  PROVE  RowsFollow
  <1> DEFINE b == ip_port_hash_key[k]
             new == [multi_ip |-> g, key |-> k, created |-> 1, rx_packets |-> 0]
  <1>1. PICK r \in Rows : multi_grp' = [multi_grp EXCEPT ![b][r] = new]
    BY DEF AddCreates
  <1>2. b \in Buckets /\ multi_grp \in [Buckets -> [Rows -> Node]]
    BY ClientAssumption DEF IInv, ClientTypeOK
  <1>3. ~Exists(k)
    BY DEF AddCreates
  <1>4. new.key = k /\ new.rx_packets = 0
    OBVIOUS
  <1>5. k \notin KeysIn(multi_grp)
    <2>1. SUFFICES ASSUME NEW d \in Buckets, NEW s \in Rows, multi_grp[d][s].key = k
                   PROVE  FALSE
      BY DEF KeysIn
    <2>2. Created(d, s) /\ d = b
      BY <2>1, NodeOfRow DEF KeyAt
    <2>3. FoundAt(k, s)
      BY <2>1, <2>2 DEF IInv, EveryNodeFound
    <2>4. QED
      BY <1>3, <2>3 DEF Exists
  <1> HIDE DEF b, new
  <1>6. \A d \in Buckets, s \in Rows :
          multi_grp'[d][s] = IF d = b /\ s = r THEN new ELSE multi_grp[d][s]
    BY <1>1, <1>2
  <1>7. QED
    BY <1>4, <1>5, <1>6 DEF RowsFollow, RowKept, RowNew, Created, KeyAt

LEMMA DeleteRows ==
  ASSUME IInv, IInv', NEW c \in Callers, NEW k \in Keys, DeleteFound(c, k)
  PROVE  RowsFollow
  <1> DEFINE b == ip_port_hash_key[k]
  <1>1. PICK r \in Rows, last \in Rows :
          multi_grp' = [multi_grp EXCEPT ![b] = RowRemoved(multi_grp[b], r, last)]
    BY DEF DeleteFound
  <1>2. b \in Buckets /\ multi_grp \in [Buckets -> [Rows -> Node]]
    BY ClientAssumption DEF IInv, ClientTypeOK
  <1> HIDE DEF b
  <1> DEFINE moved == [multi_grp[b][last] EXCEPT !.rx_packets = multi_grp[b][r].rx_packets]
             free == Deleted(multi_grp[b][last])
  <1>3. moved.key = multi_grp[b][last].key /\ free.created = 0
    BY <1>2 DEF Node, Deleted, ZeroNode
  <1>4. multi_grp' = [multi_grp EXCEPT ![b] = [multi_grp[b] EXCEPT ![r] = moved, ![last] = free]]
    BY <1>1 DEF RowRemoved
  <1> HIDE DEF moved, free
  <1>5. \A d \in Buckets, s \in Rows :
          multi_grp'[d][s] = IF d # b THEN multi_grp[d][s]
                             ELSE IF s = last THEN free
                             ELSE IF s = r THEN moved
                             ELSE multi_grp[b][s]
    BY <1>2, <1>4
  <1>6. ASSUME NEW d \in Buckets, NEW s \in Rows, Created(d, s)'
        PROVE  RowKept(d, s) \/ RowMoved(d, s)
    <2>1. CASE d # b \/ (s # last /\ s # r)
      <3>1. multi_grp'[d][s] = multi_grp[d][s]
        BY <1>5, <2>1
      <3>2. QED
        BY <1>6, <3>1 DEF RowKept, Created, KeyAt
    <2>2. CASE d = b /\ s = last
      BY <1>2, <1>3, <1>5, <1>6, <2>2 DEF Created
    <2>3. CASE d = b /\ s = r /\ s # last
      <3>1. multi_grp'[b][r].key = multi_grp[b][last].key
        BY <1>2, <1>3, <1>5, <2>3
      <3>2. KeyAt(b, r)' \in Keys
        <4>1. WellPlaced(multi_grp')
          BY PlacedNext DEF IInv
        <4>2. QED
          BY <1>2, <1>6, <2>3, <4>1 DEF WellPlaced, Created, KeyAt
      <3>3. KeyAt(b, r)' \in MovedKeys
        BY <1>2, <2>3, <3>1, <3>2 DEF MovedKeys, KeyAt
      <3>4. QED
        BY <2>3, <3>3 DEF RowMoved
    <2>4. QED
      BY <2>1, <2>2, <2>3
  <1>7. QED
    BY <1>6 DEF RowsFollow

LEMMA RequestRows ==
  ASSUME IInv, IInv', ClientNext
  PROVE  RowsFollow
  <1>1. ASSUME UNCHANGED multi_grp
        PROVE  RowsFollow
    BY <1>1 DEF RowsFollow, RowKept, Created, KeyAt
  <1>2. ASSUME NEW c \in Callers, NEW k \in Keys, NEW g \in Groups, AddUpdates(c, k, g)
        PROVE  RowsFollow
    <2> DEFINE b == ip_port_hash_key[k]
    <2>1. PICK r \in Rows : multi_grp' = [multi_grp EXCEPT ![b][r].multi_ip = g]
      BY <1>2 DEF AddUpdates
    <2>2. b \in Buckets /\ multi_grp \in [Buckets -> [Rows -> Node]]
      BY ClientAssumption DEF IInv, ClientTypeOK
    <2> HIDE DEF b
    <2>3. \A d \in Buckets, s \in Rows :
            /\ multi_grp'[d][s].created = multi_grp[d][s].created
            /\ multi_grp'[d][s].key = multi_grp[d][s].key
            /\ multi_grp'[d][s].rx_packets = multi_grp[d][s].rx_packets
      BY <2>1, <2>2 DEF Node
    <2>4. QED
      BY <2>3 DEF RowsFollow, RowKept, Created, KeyAt
  <1>3. ASSUME NEW c \in Callers, clear_multi_node(c)
        PROVE  RowsFollow
    <2>1. multi_grp' = [b \in Buckets |-> [r \in Rows |-> ZeroNode]]
      BY <1>3 DEF clear_multi_node
    <2>2. \A b \in Buckets, r \in Rows : ~Created(b, r)'
      BY <2>1 DEF Created, ZeroNode
    <2>3. QED
      BY <2>2 DEF RowsFollow
  <1>4. PICK c \in Callers :
          \/ \E k \in Keys, g \in Groups : add_multi_node(c, k, g)
          \/ \E k \in Keys : del_multi_node(c, k)
          \/ clear_multi_node(c)
          \/ Read(c)
    BY DEF ClientNext
  <1>5. CASE \E k \in Keys, g \in Groups : add_multi_node(c, k, g)
    <2>1. PICK k \in Keys, g \in Groups : add_multi_node(c, k, g)
      BY <1>5
    <2>2. CASE AddStarts(c, k, g) \/ AddNoRoom(c) \/ AddExists(c, k, g) \/ AddSpins(c, k, g)
      BY <1>1, <2>2 DEF AddStarts, AddNoRoom, AddExists, AddSpins
    <2>3. QED
      BY <1>2, <2>1, <2>2, CreateRows DEF add_multi_node
  <1>6. CASE \E k \in Keys : del_multi_node(c, k)
    BY <1>1, <1>6, DeleteRows DEF del_multi_node, DeleteMissing
  <1>7. CASE Read(c)
    BY <1>1, <1>7 DEF Read
  <1>8. QED
    BY <1>3, <1>4, <1>5, <1>6, <1>7

-----------------------------------------------------------------------------
(* Types, and the table beside the hook                                    *)

LEMMA TypesInit == ForwardInit => HookTypes
  <1> SUFFICES ASSUME ForwardInit PROVE HookTypes
    OBVIOUS
  <1>1. WellFormed(NoPacket) /\ NoPacket \in Packet
    BY NoPacketFormed DEF WellFormed
  <1>2. QED
    BY <1>1 DEF ForwardInit, HookTypes

LEMMA TypesNext ==
  ASSUME IInv, HookTypes, [ForwardNext]_forwardVars
  PROVE  HookTypes'
  <1>1. ASSUME NEW c \in CPUs, NEW p, Quiet(c, p)
        PROVE  HookTypes'
    BY <1>1, CpusMoved DEF Quiet, HookTypes
  <1>2. ASSUME NEW c \in CPUs, Rewrite(c)
        PROVE  HookTypes'
    <2>1. PICK p : /\ WellFormed(p) /\ At(c, p) /\ rx_packets' = rx_packets
                   /\ own' = IF p.stale THEN own ELSE [own EXCEPT ![p.key] = @ + 1]
      BY <1>2, RewriteStep
    <2>2. \A k \in Keys : own[k] + 1 \in Nat
      BY DEF HookTypes
    <2>3. own' = own \/ own' = [own EXCEPT ![p.key] = @ + 1]
      BY <2>1
    <2>4. own' \in [Keys -> Nat]
      BY <2>2, <2>3 DEF HookTypes
    <2>5. QED
      BY <2>1, <2>4, CpusMoved DEF HookTypes
  <1>3. ASSUME NEW c \in CPUs, CountInRow(c)
        PROVE  HookTypes'
    BY <1>3, CountStep, NoPacketFormed, CpusMoved DEF HookTypes
  <1>4. CASE Request
    <2>1. own' \in [Keys -> Nat] /\ rx_packets' = rx_packets
      BY <1>4 DEF Request, HookTypes
    <2>2. QED
      BY <1>4, <2>1, RequestCpus DEF HookTypes
  <1>5. CASE UNCHANGED forwardVars
    BY <1>5 DEF forwardVars, HookTypes, WellFormed
  <1>6. QED
    BY <1>1, <1>2, <1>3, <1>4, <1>5, QuietSteps DEF ForwardNext, HookStep

LEMMA TableNext ==
  ASSUME IInv, HookTypes, [ForwardNext]_forwardVars
  PROVE  IInv'
  <1>1. ASSUME UNCHANGED clientVars
        PROVE  IInv'
    BY <1>1, NextInv
  <1>2. ASSUME NEW c \in CPUs, NEW p, Quiet(c, p)
        PROVE  IInv'
    BY <1>1, <1>2 DEF Quiet
  <1>3. ASSUME NEW c \in CPUs, Rewrite(c)
        PROVE  IInv'
    BY <1>1, <1>3 DEF Rewrite
  <1>4. ASSUME NEW c \in CPUs, CountInRow(c)
        PROVE  IInv'
    <2>1. /\ UNCHANGED <<node_cnt, adding, spinning, ret>>
          /\ multi_grp' \in [Buckets -> [Rows -> Node]]
          /\ \A b \in Buckets, r \in Rows :
               /\ multi_grp'[b][r].created = multi_grp[b][r].created
               /\ multi_grp'[b][r].key = multi_grp[b][r].key
               /\ multi_grp'[b][r].multi_ip = multi_grp[b][r].multi_ip
      BY <1>4, CountStep
    <2>2. ClientTypeOK'
      BY <2>1 DEF IInv, ClientTypeOK
    <2>3. EveryNodeFound'
      <3>1. WellPlaced(multi_grp)
        BY PlacedNow DEF IInv
      <3>2. WellPlaced(multi_grp')
        BY <2>1, <3>1 DEF WellPlaced
      <3>3. QED
        BY <3>2, PlacedNext
    <2>4. CreatedRows' = CreatedRows /\ Adders' = Adders
      BY <2>1 DEF CreatedRows, Created, Adders, Idle
    <2>5. QED
      BY <2>1, <2>2, <2>3, <2>4 DEF IInv, NodeCntExact, OvershootBounded
  <1>5. CASE Request
    BY <1>5, NextInv DEF Request
  <1>6. CASE UNCHANGED forwardVars
    BY <1>1, <1>6 DEF forwardVars
  <1>7. QED
    BY <1>2, <1>3, <1>4, <1>5, <1>6, QuietSteps DEF ForwardNext, HookStep

-----------------------------------------------------------------------------
(* The nodes' counts                                                       *)

LEMMA OwnInit == ForwardInit => OwnInv
  BY NoPacketFormed DEF ForwardInit, ClientInit, OwnInv, Created, ZeroNode, HasNode

\* Steps that leave the table's rows but for their counts: every packet that is not stale
\* keeps its node.
LEMMA NodesKept ==
  ASSUME HookTypes, OwnInv, NEW c \in CPUs, NEW p, WellFormed(p), At(c, p),
         KeysIn(multi_grp') = KeysIn(multi_grp),
         HasNode(p) /\ ~p.stale =>
           \/ p.key \in KeysIn(multi_grp)
           \/ HasNode(cpu[c]) /\ ~cpu[c].stale /\ cpu[c].key = p.key
  PROVE  \A d \in CPUs : HasNode(cpu'[d]) /\ ~cpu'[d].stale => cpu'[d].key \in KeysIn(multi_grp')
  BY CpusMoved DEF OwnInv

LEMMA OwnQuiet ==
  ASSUME HookTypes, OwnInv, NEW c \in CPUs, NEW p, Quiet(c, p)
  PROVE  OwnInv'
  <1>1. /\ WellFormed(p) /\ At(c, p) /\ UNCHANGED <<multi_grp, own, mixed>>
        /\ OwesRow(p) <=> OwesRow(cpu[c])
        /\ OwesRow(p) => p.key = cpu[c].key /\ p.stale = cpu[c].stale
    BY DEF Quiet, clientVars
  <1>2. cpu'[c] = p /\ \A d \in CPUs \ {c} : cpu'[d] = cpu[d]
    BY <1>1, CpusMoved
  <1>3. ASSUME NEW k PROVE FreshFor(k)' = FreshFor(k)
    BY <1>1, <1>2 DEF FreshFor
  <1>4. \A d \in CPUs : HasNode(cpu'[d]) /\ ~cpu'[d].stale => cpu'[d].key \in KeysIn(multi_grp')
    BY <1>1, NodesKept DEF Quiet
  <1>5. QED
    BY <1>1, <1>3, <1>4 DEF OwnInv, Created, KeyAt

LEMMA OwnRewrite ==
  ASSUME IInv, HookTypes, OwnInv, NEW c \in CPUs, Rewrite(c)
  PROVE  OwnInv'
  <1>1. PICK p : /\ WellFormed(p) /\ At(c, p) /\ cpu[c].pc = "found" /\ p.pc = "count"
                 /\ p.key = cpu[c].key /\ p.stale = cpu[c].stale /\ p.key \in Keys
                 /\ own' = IF p.stale THEN own ELSE [own EXCEPT ![p.key] = @ + 1]
                 /\ UNCHANGED <<clientVars, rx_packets, mixed>>
    BY RewriteStep
  <1>2. cpu'[c] = p /\ \A d \in CPUs \ {c} : cpu'[d] = cpu[d]
    BY <1>1, CpusMoved
  <1>3. multi_grp' = multi_grp /\ mixed' = mixed
    BY <1>1 DEF clientVars
  <1>4. ~OwesRow(cpu[c]) /\ OwesRow(p) /\ HasNode(cpu[c])
    BY <1>1 DEF OwesRow, HasNode
  <1>5. \A d \in CPUs : HasNode(cpu'[d]) /\ ~cpu'[d].stale => cpu'[d].key \in KeysIn(multi_grp')
    BY <1>1, <1>3, <1>4, NodesKept
  <1>6. ASSUME NEW b \in Buckets, NEW r \in Rows, NEW k \in Keys,
               Created(b, r), KeyAt(b, r) = k, k \notin mixed
        PROVE  multi_grp[b][r].rx_packets + Cardinality(FreshFor(k)') <= own'[k]
    <2> DEFINE n == Cardinality(FreshFor(k))
               rx == multi_grp[b][r].rx_packets
    <2>1. rx \in Nat
      BY NodeOfRow
    <2>2. rx + n <= own[k]
      BY <1>6 DEF OwnInv
    <2>3. n \in Nat /\ own[k] \in Nat /\ FreshFor(k) \in SUBSET CPUs
      BY FreshNumbers
    <2> HIDE DEF rx
    <2>4. CASE ~p.stale /\ p.key = k
      <3>1. FreshFor(k)' = FreshFor(k) \cup {c} /\ c \notin FreshFor(k)
        BY <1>2, <1>4, <2>4 DEF FreshFor
      <3>2. Cardinality(FreshFor(k)') = n + 1
        BY <2>3, <3>1, CpuSet
      <3>3. own'[k] = own[k] + 1
        BY <1>1, <2>1, <2>4 DEF HookTypes
      <3> HIDE DEF n
      <3>4. rx + Cardinality(FreshFor(k)') <= own'[k]
        BY <2>1, <2>2, <2>3, <3>2, <3>3
      <3>5. QED
        BY <3>4 DEF rx
    <2>5. CASE ~(~p.stale /\ p.key = k)
      <3>1. FreshFor(k)' = FreshFor(k)
        BY <1>2, <1>4, <2>5 DEF FreshFor
      <3>2. own'[k] = own[k]
        BY <1>1, <2>1, <2>5 DEF HookTypes
      <3>3. rx + Cardinality(FreshFor(k)') <= own'[k]
        BY <2>2, <3>1, <3>2
      <3>4. QED
        BY <3>3 DEF rx
    <2>6. QED
      BY <2>4, <2>5
  <1>7. QED
    BY <1>3, <1>5, <1>6 DEF OwnInv, Created, KeyAt

LEMMA OwnCounted ==
  ASSUME IInv, HookTypes, OwnInv, NEW c \in CPUs, CountInRow(c)
  PROVE  OwnInv'
  <1> DEFINE p == cpu[c]
  <1>1. /\ At(c, NoPacket) /\ p.pc = "stats" /\ own' = own /\ mixed \subseteq mixed'
        /\ \A b \in Buckets, r \in Rows :
             /\ multi_grp'[b][r].created = multi_grp[b][r].created
             /\ multi_grp'[b][r].key = multi_grp[b][r].key
             /\ \/ multi_grp'[b][r].rx_packets = multi_grp[b][r].rx_packets
                \/ /\ multi_grp'[b][r].rx_packets = multi_grp[b][r].rx_packets + 1
                   /\ p.stale \/ KeyAt(b, r) # p.key => KeyAt(b, r) \in mixed'
    BY CountStep
  <1>2. cpu'[c] = NoPacket /\ \A d \in CPUs \ {c} : cpu'[d] = cpu[d]
    BY <1>1, CpusMoved, NoPacketFormed
  <1>3. ~OwesRow(NoPacket) /\ OwesRow(p) /\ ~HasNode(NoPacket)
    BY <1>1, NoPacketFormed DEF OwesRow, HasNode
  <1>4. KeysIn(multi_grp') = KeysIn(multi_grp)
    BY <1>1 DEF KeysIn
  <1>5. \A d \in CPUs : HasNode(cpu'[d]) /\ ~cpu'[d].stale => cpu'[d].key \in KeysIn(multi_grp')
    BY <1>1, <1>3, <1>4, NodesKept, NoPacketFormed
  <1> HIDE DEF p
  <1>6. ASSUME NEW b \in Buckets, NEW r \in Rows, NEW k \in Keys,
               Created(b, r), KeyAt(b, r) = k, k \notin mixed'
        PROVE  multi_grp'[b][r].rx_packets + Cardinality(FreshFor(k)') <= own[k]
    <2> DEFINE n == Cardinality(FreshFor(k))
               rx == multi_grp[b][r].rx_packets
    <2>1. rx \in Nat
      BY NodeOfRow
    <2>2. rx + n <= own[k]
      BY <1>1, <1>6 DEF OwnInv
    <2>3. \/ multi_grp'[b][r].rx_packets = rx
          \/ multi_grp'[b][r].rx_packets = rx + 1 /\ ~p.stale /\ k = p.key
      BY <1>1, <1>6
    <2> HIDE DEF rx
    <2>4. n \in Nat /\ own[k] \in Nat /\ FreshFor(k) \in SUBSET CPUs
      BY FreshNumbers
    <2>5. CASE ~p.stale /\ p.key = k
      <3>1. FreshFor(k)' = FreshFor(k) \ {c} /\ c \in FreshFor(k)
        BY <1>2, <1>3, <2>5 DEF FreshFor, p
      <3>2. Cardinality(FreshFor(k)') = n - 1
        BY <2>4, <3>1, CpuSet
      <3> HIDE DEF n
      <3>3. QED
        BY <2>1, <2>2, <2>3, <2>4, <3>2
    <2>6. CASE ~(~p.stale /\ p.key = k)
      <3>1. FreshFor(k)' = FreshFor(k)
        BY <1>2, <1>3, <2>6 DEF FreshFor, p
      <3>2. multi_grp'[b][r].rx_packets = rx
        BY <2>3, <2>6
      <3>3. QED
        BY <2>2, <3>1, <3>2
    <2>7. QED
      BY <2>5, <2>6
  <1>7. QED
    BY <1>1, <1>5, <1>6 DEF OwnInv, Created, KeyAt

LEMMA OwnRequest ==
  ASSUME IInv, IInv', HookTypes, OwnInv, Request
  PROVE  OwnInv'
  <1> DEFINE old == KeysIn(multi_grp)
             now == KeysIn(multi_grp')
  <1>1. RowsFollow
    BY RequestRows DEF Request
  <1>2. \A c \in CPUs : /\ cpu'[c].pc = cpu[c].pc /\ cpu'[c].key = cpu[c].key
                        /\ cpu'[c].stale <=>
                             cpu[c].stale \/ (HasNode(cpu[c]) /\ cpu[c].key \in old \ now)
    BY RequestCpus
  <1>3. /\ own' = [k \in Keys |-> IF k \in now \ old THEN 0 ELSE own[k]]
        /\ mixed' = (mixed \ (now \ old)) \cup MovedKeys
    BY DEF Request
  <1> HIDE DEF old, now
  <1>4. ASSUME NEW c \in CPUs, HasNode(cpu'[c]), ~cpu'[c].stale
        PROVE  HasNode(cpu[c]) /\ ~cpu[c].stale /\ cpu'[c].key \in old /\ cpu'[c].key \in now
    <2>1. HasNode(cpu[c]) /\ ~cpu[c].stale
      BY <1>2, <1>4 DEF HasNode
    <2>2. cpu[c].key \in old
      BY <2>1 DEF OwnInv, old
    <2>3. QED
      BY <1>2, <1>4, <2>1, <2>2
  <1>5. ASSUME NEW k, NEW c \in FreshFor(k)'
        PROVE  c \in FreshFor(k) /\ k \in old
    <2>1. c \in CPUs /\ OwesRow(cpu'[c]) /\ ~cpu'[c].stale /\ cpu'[c].key = k
      BY <1>5 DEF FreshFor
    <2>2. HasNode(cpu'[c]) /\ OwesRow(cpu[c]) /\ cpu[c].key = k
      BY <1>2, <2>1 DEF OwesRow, HasNode
    <2>3. QED
      BY <1>4, <2>1, <2>2 DEF FreshFor
  <1>6. ASSUME NEW b \in Buckets, NEW r \in Rows, NEW k \in Keys,
               Created(b, r)', KeyAt(b, r)' = k, k \notin mixed'
        PROVE  multi_grp'[b][r].rx_packets + Cardinality(FreshFor(k)') <= own'[k]
    <2> DEFINE n == Cardinality(FreshFor(k))
               m == Cardinality(FreshFor(k)')
    <2>1. k \in now
      BY <1>6 DEF KeyAt, KeysIn, now
    <2>2. RowKept(b, r) \/ RowNew(b, r)
      BY <1>1, <1>3, <1>6 DEF RowsFollow, RowMoved
    <2>3. CASE RowNew(b, r)
      <3>1. k \notin old /\ multi_grp'[b][r].rx_packets = 0
        BY <1>6, <2>3 DEF RowNew, old
      <3>2. own'[k] = 0
        BY <1>3, <2>1, <3>1
      <3>3. FreshFor(k)' = {}
        BY <1>5, <3>1
      <3>4. Cardinality(FreshFor(k)') = 0
        BY <3>3, FS_EmptySet
      <3>5. QED
        BY <3>1, <3>2, <3>4
    <2>4. CASE RowKept(b, r)
      <3>1. /\ Created(b, r) /\ k = KeyAt(b, r)
            /\ multi_grp'[b][r].rx_packets = multi_grp[b][r].rx_packets
        BY <1>6, <2>4 DEF RowKept
      <3>2. k \in old /\ multi_grp[b][r].rx_packets \in Nat
        BY <3>1, NodeOfRow DEF old
      <3>3. k \notin mixed
        BY <1>3, <1>6, <3>2
      <3>4. multi_grp[b][r].rx_packets + n <= own[k]
        BY <3>1, <3>3 DEF OwnInv
      <3>5. own'[k] = own[k]
        BY <1>3, <2>1, <3>2
      <3>6. n \in Nat /\ own[k] \in Nat /\ FreshFor(k) \in SUBSET CPUs
        BY FreshNumbers
      <3>7. FreshFor(k)' \in SUBSET FreshFor(k)
        BY <1>5
      <3>8. m \in Nat /\ m <= n
        BY <3>6, <3>7, CpuSet
      <3> HIDE DEF n, m
      <3>9. multi_grp'[b][r].rx_packets + m <= own'[k]
        BY <3>1, <3>2, <3>4, <3>5, <3>6, <3>8
      <3>10. QED
        BY <3>9 DEF m
    <2>5. QED
      BY <2>2, <2>3, <2>4
  <1>7. QED
    BY <1>4, <1>6 DEF OwnInv, now

-----------------------------------------------------------------------------
LEMMA HookInvInit == ForwardInit => HookInv
  BY InitInv, TypesInit, OwnInit DEF HookInv, ForwardInit

LEMMA HookInvNext ==
  ASSUME HookInv, [ForwardNext]_forwardVars
  PROVE  HookInv'
  <1>1. IInv' /\ HookTypes'
    BY TableNext, TypesNext DEF HookInv
  <1>2. OwnInv'
    <2>1. CASE UNCHANGED forwardVars
      <3>1. UNCHANGED <<multi_grp, cpu, own, mixed>>
        BY <2>1 DEF forwardVars, clientVars
      <3>2. ASSUME NEW k PROVE FreshFor(k)' = FreshFor(k)
        BY <3>1 DEF FreshFor
      <3>3. QED
        BY <3>1, <3>2 DEF HookInv, OwnInv, Created, KeyAt
    <2>2. CASE ForwardNext
      BY <1>1, <2>2, QuietSteps, OwnQuiet, OwnRewrite, OwnCounted, OwnRequest
      DEF ForwardNext, HookStep, HookInv
    <2>3. QED
      BY <2>1, <2>2
  <1>3. QED
    BY <1>1, <1>2 DEF HookInv

\* A node counts its own packets only, those of its key since it was created, unless it was
\* moved or took a packet looked up for another node: whatever requests come between
\* lookup_ip_port_node and multi_client_stats, on any number of CPUs.
THEOREM NodesCountOwnPackets == ForwardSpec => []CountsOwnUnlessMixed
  <1>1. HookInv => CountsOwnUnlessMixed
    <2> SUFFICES ASSUME HookInv, NEW b \in Buckets, NEW r \in Rows, Created(b, r),
                        KeyAt(b, r) \notin mixed
                 PROVE  multi_grp[b][r].rx_packets <= own[KeyAt(b, r)]
      BY DEF CountsOwnUnlessMixed, CreatedRows, KeyAt
    <2> DEFINE k == KeyAt(b, r)
               n == Cardinality(FreshFor(k))
               rx == multi_grp[b][r].rx_packets
    <2>1. k \in Keys /\ rx \in Nat
      BY NodeOfRow DEF HookInv
    <2>2. rx + n <= own[k]
      BY <2>1 DEF HookInv, OwnInv
    <2>3. n \in Nat /\ own[k] \in Nat
      BY <2>1, FreshNumbers DEF HookInv
    <2> HIDE DEF k, n, rx
    <2>4. rx <= own[k]
      BY <2>1, <2>2, <2>3
    <2>5. QED
      BY <2>4 DEF rx, k
  <1>2. HookInv /\ [ForwardNext]_forwardVars => HookInv'
    BY HookInvNext
  <1>3. QED
    BY <1>1, <1>2, HookInvInit, PTL DEF ForwardSpec

-----------------------------------------------------------------------------
(* The packets counted in the rows of a table t                            *)

RowsOf(t) == {br \in Buckets \X Rows : t[br[1]][br[2]].created = 1}
PacketsIn(t) == MapThenSumSet(LAMBDA br : t[br[1]][br[2]].rx_packets, RowsOf(t))
CountsIn(t) == [br \in RowsOf(t) |-> t[br[1]][br[2]].rx_packets]

LEMMA PacketsNow == NodePackets = PacketsIn(multi_grp) /\ NodePackets' = PacketsIn(multi_grp')
  BY Zenon DEF NodePackets, PacketsIn, CreatedRows, Created, RowsOf, MapThenSumSet, MapThenFoldSet

LEMMA PacketsSum ==
  ASSUME NEW t \in [Buckets -> [Rows -> Node]]
  PROVE  /\ IsFiniteSet(RowsOf(t)) /\ CountsIn(t) \in [RowsOf(t) -> Nat]
         /\ PacketsIn(t) \in Nat
         /\ \E it : Sums(it, CountsIn(t), RowsOf(t)) /\ PacketsIn(t) = it[RowsOf(t)]
  <1> DEFINE S == RowsOf(t)
             first(T) == CHOOSE br \in T : TRUE
             Chosen == CHOOSE it : it =
               [T \in SUBSET S |->
                  IF T = {} THEN 0
                  ELSE t[first(T)[1]][first(T)[2]].rx_packets + it[T \ {first(T)}]]
  <1>1. S \in SUBSET (Buckets \X Rows)
    BY DEF RowsOf
  <1>2. IsFiniteSet(S)
    BY <1>1, Sizes, FS_Subset
  <1>3. \A br \in S : t[br[1]][br[2]].rx_packets \in Nat
    BY <1>1 DEF Node
  <1>4. CountsIn(t) \in [S -> Nat]
    BY <1>3 DEF CountsIn
  <1>5. PICK it : Sums(it, CountsIn(t), S)
    <2> HIDE DEF S
    <2>1. QED
      BY <1>2, <1>4, SumExists
  <1>6. \A T \in SUBSET S : T # {} => first(T) \in S
    OBVIOUS
  <1> DEFINE n(br) == t[br[1]][br[2]].rx_packets
  <1>7. \A T \in SUBSET S : T # {} => CountsIn(t)[first(T)] = n(first(T))
    BY <1>6 DEF CountsIn
  <1>8. ASSUME NEW jt PROVE Sums(jt, CountsIn(t), S) <=>
          jt = [T \in SUBSET S |-> IF T = {} THEN 0 ELSE n(first(T)) + jt[T \ {first(T)}]]
    <2>1. [T \in SUBSET S |-> IF T = {} THEN 0 ELSE CountsIn(t)[first(T)] + jt[T \ {first(T)}]]
          = [T \in SUBSET S |-> IF T = {} THEN 0 ELSE n(first(T)) + jt[T \ {first(T)}]]
      <3> HIDE DEF S, first, n
      <3>1. QED
        BY <1>7
    <2>2. QED
      BY <1>2, <1>4, <2>1 DEF Sums
  <1>9. Sums(Chosen, CountsIn(t), S)
    <2>0. it = [T \in SUBSET S |-> IF T = {} THEN 0 ELSE n(first(T)) + it[T \ {first(T)}]]
      BY <1>5, <1>8
    <2>1. \E jt : jt = [T \in SUBSET S |->
                          IF T = {} THEN 0 ELSE n(first(T)) + jt[T \ {first(T)}]]
      BY <2>0
    <2>2. Chosen = [T \in SUBSET S |->
                      IF T = {} THEN 0 ELSE n(first(T)) + Chosen[T \ {first(T)}]]
      BY <2>1
    <2> HIDE DEF Chosen
    <2>3. QED
      BY <1>8, <2>2
  <1>10. PacketsIn(t) = Chosen[S]
    BY DEF PacketsIn, MapThenSumSet, MapThenFoldSet
  <1> HIDE DEF Chosen, S
  <1>11. Chosen[S] \in Nat
    BY <1>2, <1>4, <1>9, SumRemoves
  <1>12. QED
    BY <1>2, <1>4, <1>9, <1>10, <1>11 DEF S

\* The rows of table u are rows of t that have counted no more there, or have counted nothing.
LEMMA PacketsFall ==
  ASSUME NEW t \in [Buckets -> [Rows -> Node]], NEW u \in [Buckets -> [Rows -> Node]],
         \A b \in Buckets, r \in Rows :
           u[b][r].created = 1 =>
             \/ t[b][r].created = 1 /\ u[b][r].rx_packets = t[b][r].rx_packets
             \/ u[b][r].rx_packets = 0
  PROVE  PacketsIn(u) <= PacketsIn(t)
  <1> DEFINE S == RowsOf(t)
             R == RowsOf(u)
             f == CountsIn(t)
             g == CountsIn(u)
  <1>1. PICK i : Sums(i, f, S) /\ PacketsIn(t) = i[S]
    BY PacketsSum
  <1>2. PICK j : Sums(j, g, R) /\ PacketsIn(u) = j[R]
    BY PacketsSum
  <1>3. /\ IsFiniteSet(S) /\ f \in [S -> Nat]
        /\ IsFiniteSet(R) /\ g \in [R -> Nat]
    BY PacketsSum
  <1>4. ASSUME NEW x \in R
        PROVE  (x \in S /\ g[x] <= f[x]) \/ g[x] = 0
    <2>1. x \in Buckets \X Rows /\ x[1] \in Buckets /\ x[2] \in Rows
      BY DEF RowsOf
    <2>2. u[x[1]][x[2]].created = 1 /\ g[x] = u[x[1]][x[2]].rx_packets
      BY DEF RowsOf, CountsIn
    <2>3. CASE t[x[1]][x[2]].created = 1 /\ u[x[1]][x[2]].rx_packets = t[x[1]][x[2]].rx_packets
      <3>1. x \in S /\ f[x] = g[x]
        BY <2>1, <2>2, <2>3 DEF RowsOf, CountsIn
      <3>2. QED
        BY <1>3, <3>1
    <2>4. QED
      BY <2>1, <2>2, <2>3
  <1> HIDE DEF S, R, f, g
  <1>5. j[R \cap (S \cup R)] <= i[S \cap (S \cup R)]
    <2>1. \A x \in R \cap (S \cup R) : (x \in S /\ g[x] <= f[x]) \/ g[x] = 0
      BY <1>4
    <2>2. S \cup R \in SUBSET (S \cup R)
      OBVIOUS
    <2>3. Sums(i, f, S) /\ Sums(j, g, R)
      BY <1>1, <1>2
    <2>4. AtMost(j, g, R, i, f, S)
      BY ONLY <2>3, SumAtMost
    <2>5. QED
      BY ONLY <2>1, <2>2, <2>4 DEF AtMost
  <1>6. R \cap (S \cup R) = R /\ S \cap (S \cup R) = S
    OBVIOUS
  <1>7. QED
    BY <1>1, <1>2, <1>5, <1>6

\* One row has counted a packet.
LEMMA PacketsRise ==
  ASSUME NEW t \in [Buckets -> [Rows -> Node]], NEW u \in [Buckets -> [Rows -> Node]],
         NEW b \in Buckets, NEW s \in Rows,
         \A d \in Buckets, r \in Rows :
           /\ u[d][r].created = t[d][r].created
           /\ u[d][r].rx_packets = (IF d = b /\ r = s THEN t[d][r].rx_packets + 1
                                                      ELSE t[d][r].rx_packets)
  PROVE  PacketsIn(u) <= PacketsIn(t) + 1
  <1> DEFINE S == RowsOf(t)
             f == CountsIn(t)
             g == CountsIn(u)
             x == <<b, s>>
  <1>0. RowsOf(u) = S
    BY DEF RowsOf
  <1>1. PICK i : Sums(i, f, S) /\ PacketsIn(t) = i[S]
    BY PacketsSum
  <1>2. PICK j : Sums(j, g, S) /\ PacketsIn(u) = j[S]
    BY <1>0, PacketsSum
  <1>3. IsFiniteSet(S) /\ f \in [S -> Nat] /\ g \in [S -> Nat]
    BY <1>0, PacketsSum
  <1>4. ASSUME NEW y \in S
        PROVE  g[y] = IF y = x THEN f[y] + 1 ELSE f[y]
    <2>1. y = <<y[1], y[2]>> /\ y[1] \in Buckets /\ y[2] \in Rows
      BY DEF RowsOf
    <2>2. g[y] = u[y[1]][y[2]].rx_packets /\ f[y] = t[y[1]][y[2]].rx_packets
      BY <1>0 DEF CountsIn
    <2>3. QED
      BY <2>1, <2>2
  <1> HIDE DEF S, f, g, x
  <1>5. j[S \ {x}] <= i[S \ {x}]
    <2>1. \A y \in S \cap (S \ {x}) : (y \in S /\ g[y] <= f[y]) \/ g[y] = 0
      BY <1>3, <1>4
    <2>2. S \ {x} \in SUBSET (S \cup S)
      OBVIOUS
    <2>3. j[S \cap (S \ {x})] <= i[S \cap (S \ {x})]
      <3>1. Sums(i, f, S) /\ Sums(j, g, S)
        BY <1>1, <1>2
      <3>2. AtMost(j, g, S, i, f, S)
        BY ONLY <3>1, SumAtMost
      <3>3. QED
        BY ONLY <2>1, <2>2, <3>2 DEF AtMost
    <2>4. S \cap (S \ {x}) = S \ {x}
      OBVIOUS
    <2>5. QED
      BY <2>3, <2>4
  <1>6. S \ {x} \in SUBSET S /\ S \in SUBSET S
    OBVIOUS
  <1>7. i[S \ {x}] \in Nat /\ i[S] \in Nat /\ (x \in S => i[S] = f[x] + i[S \ {x}])
    <2>1. Sums(i, f, S)
      BY <1>1
    <2>2. \A T \in SUBSET S : i[T] \in Nat /\ \A y \in T : i[T] = f[y] + i[T \ {y}]
      BY ONLY <2>1, SumRemoves
    <2>3. QED
      BY <1>6, <2>2
  <1>8. j[S \ {x}] \in Nat /\ j[S] \in Nat /\ (x \in S => j[S] = g[x] + j[S \ {x}])
    <2>1. Sums(j, g, S)
      BY <1>2
    <2>2. \A T \in SUBSET S : j[T] \in Nat /\ \A y \in T : j[T] = g[y] + j[T \ {y}]
      BY ONLY <2>1, SumRemoves
    <2>3. QED
      BY <1>6, <2>2
  <1>9. CASE x \in S
    <2>1. g[x] = f[x] + 1 /\ f[x] \in Nat
      BY <1>3, <1>4, <1>9
    <2>2. QED
      BY <1>1, <1>2, <1>5, <1>7, <1>8, <1>9, <2>1
  <1>10. CASE x \notin S
    <2>1. S \ {x} = S
      BY <1>10
    <2>2. j[S] <= i[S]
      BY <1>5, <2>1
    <2>3. QED
      BY <1>1, <1>2, <1>7, <1>8, <2>2
  <1>11. QED
    BY <1>9, <1>10

-----------------------------------------------------------------------------
(* The total                                                               *)

Waiting == {c \in CPUs : cpu[c].pc \in {"any", "found"}}
Counting == {c \in CPUs : cpu[c].pc = "count"}
InRow == {c \in CPUs : cpu[c].pc = "stats"}

HistoryTypes ==
  /\ arrived \in 0 .. MaxPackets /\ rewritten \in Nat
  /\ mixed \subseteq Keys /\ overlapped \in BOOLEAN
  /\ \A k \in Keys : own[k] <= rewritten
  /\ rewritten + Cardinality(Waiting) <= arrived

(***************************************************************************)
(* Nobody, not even a CPU that loaded rx_packets long ago, is ahead of the *)
(* packets rewritten.  While nobody has overlapped, one CPU at most counts *)
(* and has loaded the current value, and who has counted in rx_packets but *)
(* not yet in a row is not in the rows' total.                             *)
(***************************************************************************)
NeverAhead ==
  /\ rx_packets + Cardinality(Counting) <= rewritten
  /\ \A c \in Counting : cpu[c].reg + Cardinality(Counting) <= rewritten
RowsCovered ==
  ~overlapped =>
    /\ \A c, d \in Counting : c = d
    /\ \A c \in Counting : cpu[c].reg = rx_packets
    /\ NodePackets + Cardinality(InRow) <= rx_packets
TotalInv == HistoryTypes /\ NeverAhead /\ RowsCovered

LEMMA TotalNumbers ==
  ASSUME IInv, HookTypes, TotalInv
  PROVE  /\ Cardinality(Waiting) \in Nat /\ Cardinality(Counting) \in Nat
         /\ Cardinality(InRow) \in Nat
         /\ arrived \in Nat /\ rewritten \in Nat /\ rx_packets \in Nat /\ NodePackets \in Nat
         /\ MaxPackets \in Nat
         /\ \A c \in CPUs : cpu[c].reg \in Nat
  <1>1. Waiting \in SUBSET CPUs /\ Counting \in SUBSET CPUs /\ InRow \in SUBSET CPUs
    BY DEF Waiting, Counting, InRow
  <1>2. Cardinality(Waiting) \in Nat /\ Cardinality(Counting) \in Nat /\ Cardinality(InRow) \in Nat
    BY <1>1, CpuSet
  <1>3. multi_grp \in [Buckets -> [Rows -> Node]]
    BY DEF IInv, ClientTypeOK
  <1>4. NodePackets \in Nat
    BY <1>3, PacketsNow, PacketsSum
  <1>5. MaxPackets \in Nat
    BY ForwardAssumption
  <1>6. arrived \in Nat /\ rewritten \in Nat
    BY <1>5 DEF TotalInv, HistoryTypes
  <1>7. rx_packets \in Nat /\ \A c \in CPUs : cpu[c].reg \in Nat
    BY DEF HookTypes, WellFormed, Packet
  <1>8. QED
    BY <1>2, <1>4, <1>5, <1>6, <1>7

LEMMA TotalInit == ForwardInit => TotalInv
  <1> SUFFICES ASSUME ForwardInit PROVE TotalInv
    OBVIOUS
  <1>1. cpu = [c \in CPUs |-> NoPacket] /\ NoPacket.pc = "idle"
    BY NoPacketFormed DEF ForwardInit
  <1>2. Waiting = {} /\ Counting = {} /\ InRow = {}
    BY <1>1 DEF Waiting, Counting, InRow
  <1>3. Cardinality(Waiting) = 0 /\ Cardinality(Counting) = 0 /\ Cardinality(InRow) = 0
    BY <1>2, FS_EmptySet
  <1>4. NodePackets = 0
    <2>1. multi_grp \in [Buckets -> [Rows -> Node]]
      BY InitInv DEF ForwardInit, IInv, ClientTypeOK
    <2>2. RowsOf(multi_grp) = {}
      BY DEF ForwardInit, ClientInit, RowsOf, ZeroNode
    <2>3. PICK it : Sums(it, CountsIn(multi_grp), {}) /\ PacketsIn(multi_grp) = it[{}]
      BY <2>1, <2>2, PacketsSum
    <2>4. it[{}] = 0
      BY <2>3, SumRemoves
    <2>5. QED
      BY <2>3, <2>4, PacketsNow
  <1>5. HistoryTypes
    <2>1. \A k \in Keys : own[k] = 0
      BY DEF ForwardInit
    <2>2. arrived = 0 /\ rewritten = 0 /\ mixed = {} /\ MaxPackets \in Nat
      BY ForwardAssumption DEF ForwardInit
    <2>3. overlapped \in BOOLEAN
      BY DEF ForwardInit
    <2>4. arrived \in 0 .. MaxPackets /\ rewritten \in Nat /\ mixed \subseteq Keys
      BY <2>2
    <2>5. rewritten + Cardinality(Waiting) <= arrived /\ \A k \in Keys : own[k] <= rewritten
      BY <1>3, <2>1, <2>2
    <2>6. QED
      BY <2>3, <2>4, <2>5 DEF HistoryTypes
  <1>6. NeverAhead /\ RowsCovered
    BY <1>2, <1>3, <1>4 DEF ForwardInit, NeverAhead, RowsCovered
  <1>7. QED
    BY <1>5, <1>6 DEF TotalInv

\* What moves between the sets of CPUs when c's packet is p next.
LEMMA SetsMoved ==
  ASSUME HookTypes, NEW c \in CPUs, NEW p, WellFormed(p), At(c, p)
  PROVE  /\ Waiting' = IF p.pc \in {"any", "found"} THEN Waiting \cup {c} ELSE Waiting \ {c}
         /\ Counting' = IF p.pc = "count" THEN Counting \cup {c} ELSE Counting \ {c}
         /\ InRow' = IF p.pc = "stats" THEN InRow \cup {c} ELSE InRow \ {c}
         /\ cpu'[c] = p /\ \A d \in CPUs \ {c} : cpu'[d] = cpu[d]
  <1>1. cpu'[c] = p /\ \A d \in CPUs \ {c} : cpu'[d] = cpu[d]
    BY CpusMoved
  <1>2. QED
    BY <1>1 DEF Waiting, Counting, InRow

\* How many there are then.
LEMMA NumbersMoved ==
  ASSUME NEW S \in SUBSET CPUs, NEW c \in CPUs
  PROVE  /\ Cardinality(S \cup {c}) = IF c \in S THEN Cardinality(S) ELSE Cardinality(S) + 1
         /\ Cardinality(S \ {c}) = IF c \in S THEN Cardinality(S) - 1 ELSE Cardinality(S)
  <1>1. c \in S => S \cup {c} = S
    OBVIOUS
  <1>2. c \notin S => S \ {c} = S
    OBVIOUS
  <1>3. QED
    BY <1>1, <1>2, CpuSet

\* The two lookups, and a packet that is let pass.
LEMMA TotalLookups ==
  ASSUME IInv, HookTypes, TotalInv, NEW c \in CPUs,
         (\E k \in Keys : LookupKey(c, k)) \/ LookupAnyPort(c) \/ NotProxied(c)
  PROVE  TotalInv'
  <1>1. \E p : /\ WellFormed(p) /\ At(c, p) /\ p.pc \in {"idle", "any", "found"}
               /\ cpu[c].pc \in {"idle", "any", "found"}
               /\ arrived' \in Nat /\ arrived' <= MaxPackets
               /\ \/ arrived' = arrived + 1
                  \/ arrived' = arrived /\ cpu[c].pc # "idle"
               /\ UNCHANGED <<multi_grp, rx_packets, rewritten, own, mixed, overlapped>>
    <2>1. /\ UNCHANGED <<multi_grp, rx_packets, rewritten, own, mixed, overlapped>>
          /\ cpu[c].pc \in {"idle", "any", "found"}
          /\ \/ arrived' = arrived + 1 /\ arrived < MaxPackets
             \/ arrived' = arrived /\ cpu[c].pc # "idle"
      BY DEF LookupKey, LookupAnyPort, NotProxied, clientVars
    <2>2. arrived' \in Nat /\ arrived' <= MaxPackets
      BY <2>1, TotalNumbers DEF TotalInv, HistoryTypes
    <2>3. ASSUME NEW k \in Keys, NEW Miss, LookupAt(c, k, Miss), WellFormed(Miss),
                 Miss.pc \in {"idle", "any"}
          PROVE  \E p : WellFormed(p) /\ At(c, p) /\ p.pc \in {"idle", "any", "found"}
      BY <2>3, LookupFinds
    <2>4. \E p : WellFormed(p) /\ At(c, p) /\ p.pc \in {"idle", "any", "found"}
      <3>1. ASSUME NEW k \in Keys, LookupKey(c, k)
            PROVE  \E p : WellFormed(p) /\ At(c, p) /\ p.pc \in {"idle", "any", "found"}
        <4> DEFINE Miss == [NoPacket EXCEPT !.pc = "any", !.key = AnyPort[k]]
        <4>1. AnyPort[k] \in Keys /\ NoPacket \in Packet
          BY ForwardAssumption, NoPacketFormed DEF WellFormed
        <4>2. Miss \in Packet /\ Miss.pc = "any" /\ Miss.key = AnyPort[k]
          BY <4>1 DEF Packet
        <4>3. WellFormed(Miss)
          BY <4>1, <4>2 DEF WellFormed, HasNode
        <4>4. LookupAt(c, k, Miss)
          BY <3>1 DEF LookupKey
        <4> HIDE DEF Miss
        <4>5. QED
          BY <2>3, <4>2, <4>3, <4>4
      <3>2. CASE LookupAnyPort(c)
        <4>1. cpu[c].key \in Keys
          BY <3>2 DEF LookupAnyPort, HookTypes, WellFormed
        <4>2. QED
          BY <2>3, <3>2, <4>1, NoPacketFormed DEF LookupAnyPort
      <3>3. CASE NotProxied(c)
        BY <3>3, NoPacketFormed DEF NotProxied
      <3>4. QED
        BY <3>1, <3>2, <3>3
    <2>5. QED
      BY <2>1, <2>2, <2>4
  <1>2. PICK p : /\ WellFormed(p) /\ At(c, p) /\ p.pc \in {"idle", "any", "found"}
                 /\ cpu[c].pc \in {"idle", "any", "found"}
                 /\ arrived' \in Nat /\ arrived' <= MaxPackets
                 /\ \/ arrived' = arrived + 1
                    \/ arrived' = arrived /\ cpu[c].pc # "idle"
                 /\ UNCHANGED <<multi_grp, rx_packets, rewritten, own, mixed, overlapped>>
    BY <1>1
  <1>3. /\ Counting' = Counting /\ InRow' = InRow
        /\ Waiting' = IF p.pc \in {"any", "found"} THEN Waiting \cup {c} ELSE Waiting \ {c}
        /\ \A d \in Counting : cpu'[d] = cpu[d]
    <2>1. c \notin Counting /\ c \notin InRow
      BY <1>2 DEF Counting, InRow
    <2>2. p.pc # "count" /\ p.pc # "stats"
      BY <1>2
    <2>3. QED
      BY <1>2, <2>1, <2>2, SetsMoved DEF Counting
  <1>4. NodePackets' = NodePackets
    BY <1>2, PacketsNow
  <1>5. Waiting \in SUBSET CPUs /\ (c \in Waiting <=> cpu[c].pc \in {"any", "found"})
    BY DEF Waiting
  <1>6. Cardinality(Waiting') <= Cardinality(Waiting) + (arrived' - arrived)
    <2>1. /\ Cardinality(Waiting \cup {c}) =
               IF c \in Waiting THEN Cardinality(Waiting) ELSE Cardinality(Waiting) + 1
          /\ Cardinality(Waiting \ {c}) =
               IF c \in Waiting THEN Cardinality(Waiting) - 1 ELSE Cardinality(Waiting)
      BY <1>5, NumbersMoved
    <2>2. Cardinality(Waiting) \in Nat /\ arrived \in Nat
      BY TotalNumbers
    <2>3. CASE arrived' = arrived + 1
      BY <1>3, <2>1, <2>2, <2>3
    <2>4. CASE arrived' = arrived /\ cpu[c].pc # "idle"
      <3>1. c \in Waiting
        BY <1>2, <1>5, <2>4
      <3>2. QED
        BY <1>3, <2>1, <2>2, <2>4, <3>1
    <2>5. QED
      BY <1>2, <2>3, <2>4
  <1>7. Cardinality(Waiting') \in Nat
    <2>1. Waiting' \in SUBSET CPUs
      BY DEF Waiting
    <2>2. QED
      BY <2>1, CpuSet
  <1>8. rewritten' + Cardinality(Waiting)' <= arrived'
    BY <1>2, <1>6, <1>7, TotalNumbers DEF TotalInv, HistoryTypes
  <1>9. HistoryTypes'
    <2>1. \A k \in Keys : own'[k] <= rewritten'
      BY <1>2 DEF TotalInv, HistoryTypes
    <2>2. arrived' \in 0 .. MaxPackets
      BY <1>2, TotalNumbers
    <2>3. QED
      BY <1>2, <1>8, <2>1, <2>2 DEF TotalInv, HistoryTypes
  <1>10. NeverAhead' /\ RowsCovered'
    BY <1>2, <1>3, <1>4 DEF TotalInv, NeverAhead, RowsCovered
  <1>11. QED
    BY <1>9, <1>10 DEF TotalInv

LEMMA TotalRewritten ==
  ASSUME IInv, HookTypes, TotalInv, NEW c \in CPUs, Rewrite(c)
  PROVE  TotalInv'
  <1> DEFINE p == [cpu[c] EXCEPT !.pc = "count", !.reg = rx_packets]
             w == Cardinality(Waiting)
             n == Cardinality(Counting)
  <1>1. /\ cpu[c].pc = "found" /\ At(c, p) /\ rewritten' = rewritten + 1
        /\ own' = IF cpu[c].stale THEN own ELSE [own EXCEPT ![cpu[c].key] = @ + 1]
        /\ UNCHANGED <<multi_grp, rx_packets, arrived, mixed>>
    BY DEF Rewrite, clientVars
  <1>2. WellFormed(cpu[c]) /\ cpu[c] \in Packet /\ rx_packets \in Nat
    BY DEF HookTypes, WellFormed
  <1>3. /\ p \in Packet /\ p.pc = "count" /\ p.key = cpu[c].key /\ p.reg = rx_packets
        /\ p.multi_ip = cpu[c].multi_ip
    BY <1>2 DEF Packet
  <1> HIDE DEF p
  <1>4. WellFormed(p) /\ cpu[c].key \in Keys
    BY <1>1, <1>2, <1>3 DEF WellFormed, HasNode
  <1>5. /\ Waiting' = Waiting \ {c} /\ Counting' = Counting \cup {c} /\ InRow' = InRow \ {c}
        /\ cpu'[c] = p /\ \A d \in CPUs \ {c} : cpu'[d] = cpu[d]
    BY <1>1, <1>3, <1>4, SetsMoved
  <1>6. c \in Waiting /\ c \notin Counting /\ c \notin InRow
        /\ Waiting \in SUBSET CPUs /\ Counting \in SUBSET CPUs
    BY <1>1 DEF Waiting, Counting, InRow
  <1>7. Cardinality(Waiting') = w - 1 /\ Cardinality(Counting') = n + 1
    BY <1>5, <1>6, NumbersMoved
  <1>8. InRow' = InRow /\ NodePackets' = NodePackets
    BY <1>1, <1>5, <1>6, PacketsNow
  <1>9. w \in Nat /\ n \in Nat /\ rewritten \in Nat /\ arrived \in Nat /\ \A d \in CPUs : cpu[d].reg \in Nat
    BY TotalNumbers
  <1> HIDE DEF w, n
  <1>10. HistoryTypes'
    <2>1. \A k \in Keys : own'[k] <= rewritten'
      <3>1. own \in [Keys -> Nat] /\ \A k \in Keys : own[k] <= rewritten
        BY DEF HookTypes, TotalInv, HistoryTypes
      <3>2. \A k \in Keys : own'[k] = own[k] \/ own'[k] = own[k] + 1
        BY <1>1, <3>1
      <3>3. QED
        BY <1>1, <1>9, <3>1, <3>2
    <2>2. rewritten' + Cardinality(Waiting)' <= arrived'
      <3>1. rewritten + w <= arrived
        BY DEF w, TotalInv, HistoryTypes
      <3>2. QED
        BY <1>1, <1>7, <1>9, <3>1
    <2>3. overlapped' \in BOOLEAN
      BY DEF Rewrite
    <2>4. rewritten' \in Nat /\ arrived' \in 0 .. MaxPackets /\ mixed' \subseteq Keys
      BY <1>1, <1>9 DEF TotalInv, HistoryTypes
    <2>5. QED
      BY <2>1, <2>2, <2>3, <2>4 DEF HistoryTypes
  <1>11. NeverAhead'
    <2>1. rx_packets + n <= rewritten /\ \A d \in Counting : cpu[d].reg + n <= rewritten
      BY DEF n, TotalInv, NeverAhead
    <2>2. rx_packets' + Cardinality(Counting)' <= rewritten'
      BY <1>1, <1>2, <1>7, <1>9, <2>1
    <2>3. ASSUME NEW d \in Counting'
          PROVE  cpu'[d].reg + Cardinality(Counting)' <= rewritten'
      <3>1. CASE d = c
        BY <1>1, <1>2, <1>3, <1>5, <1>7, <1>9, <2>1, <3>1
      <3>2. CASE d # c
        <4>1. d \in Counting /\ d \in CPUs /\ cpu'[d] = cpu[d]
          BY <1>5, <1>6, <2>3, <3>2
        <4>2. cpu[d].reg + n <= rewritten /\ cpu[d].reg \in Nat
          BY <1>9, <2>1, <4>1
        <4>3. QED
          BY <1>1, <1>7, <1>9, <4>1, <4>2
      <3>3. QED
        BY <3>1, <3>2
    <2>4. QED
      BY <2>2, <2>3 DEF NeverAhead
  <1>12. RowsCovered'
    <2> SUFFICES ASSUME ~overlapped'
                 PROVE  /\ \A d, e \in Counting' : d = e
                        /\ \A d \in Counting' : cpu'[d].reg = rx_packets'
                        /\ NodePackets' + Cardinality(InRow') <= rx_packets'
      BY DEF RowsCovered
    <2>1. ~overlapped /\ \A d \in CPUs \ {c} : cpu[d].pc # "count"
      BY DEF Rewrite
    <2>2. Counting' = {c}
      BY <1>5, <1>6, <2>1 DEF Counting
    <2>3. NodePackets + Cardinality(InRow) <= rx_packets
      BY <2>1 DEF TotalInv, RowsCovered
    <2>4. QED
      BY <1>1, <1>3, <1>5, <1>8, <2>2, <2>3
  <1>13. QED
    BY <1>10, <1>11, <1>12 DEF TotalInv

LEMMA TotalStored ==
  ASSUME IInv, HookTypes, TotalInv, NEW c \in CPUs, StoreCounter(c)
  PROVE  TotalInv'
  <1> DEFINE p == [cpu[c] EXCEPT !.pc = "stats", !.reg = 0]
             n == Cardinality(Counting)
             i == Cardinality(InRow)
  <1>1. /\ cpu[c].pc = "count" /\ At(c, p) /\ rx_packets' = cpu[c].reg + 1
        /\ UNCHANGED <<multi_grp, arrived, rewritten, own, mixed, overlapped>>
    BY DEF StoreCounter, clientVars
  <1>2. WellFormed(cpu[c]) /\ cpu[c] \in Packet
    BY DEF HookTypes, WellFormed
  <1>3. p \in Packet /\ p.pc = "stats" /\ p.key = cpu[c].key /\ p.multi_ip = cpu[c].multi_ip
    BY <1>2 DEF Packet
  <1> HIDE DEF p
  <1>4. WellFormed(p)
    BY <1>1, <1>2, <1>3 DEF WellFormed, HasNode
  <1>5. /\ Waiting' = Waiting \ {c} /\ Counting' = Counting \ {c} /\ InRow' = InRow \cup {c}
        /\ cpu'[c] = p /\ \A d \in CPUs \ {c} : cpu'[d] = cpu[d]
    BY <1>1, <1>3, <1>4, SetsMoved
  <1>6. c \notin Waiting /\ c \in Counting /\ c \notin InRow
        /\ InRow \in SUBSET CPUs /\ Counting \in SUBSET CPUs
    BY <1>1 DEF Waiting, Counting, InRow
  <1>7. Cardinality(Counting') = n - 1 /\ Cardinality(InRow') = i + 1
    BY <1>5, <1>6, NumbersMoved
  <1>8. Waiting' = Waiting /\ NodePackets' = NodePackets
    BY <1>1, <1>5, <1>6, PacketsNow
  <1>9. /\ i \in Nat /\ n \in Nat /\ rewritten \in Nat /\ rx_packets \in Nat /\ NodePackets \in Nat
        /\ \A d \in CPUs : cpu[d].reg \in Nat
    BY TotalNumbers
  <1> HIDE DEF i, n
  <1>10. HistoryTypes'
    BY <1>1, <1>8 DEF TotalInv, HistoryTypes
  <1>11. NeverAhead'
    <2>1. \A d \in Counting : cpu[d].reg + n <= rewritten
      BY DEF n, TotalInv, NeverAhead
    <2>2. cpu[c].reg + n <= rewritten /\ cpu[c].reg \in Nat
      BY <1>6, <1>9, <2>1
    <2>3. rx_packets' + Cardinality(Counting)' <= rewritten'
      BY <1>1, <1>7, <1>9, <2>2
    <2>4. ASSUME NEW d \in Counting'
          PROVE  cpu'[d].reg + Cardinality(Counting)' <= rewritten'
      <3>1. d \in Counting /\ d \in CPUs /\ cpu'[d] = cpu[d]
        BY <1>5, <1>6, <2>4
      <3>2. cpu[d].reg + n <= rewritten /\ cpu[d].reg \in Nat
        BY <1>9, <2>1, <3>1
      <3>3. QED
        BY <1>1, <1>7, <1>9, <3>1, <3>2
    <2>5. QED
      BY <2>3, <2>4 DEF NeverAhead
  <1>12. RowsCovered'
    <2> SUFFICES ASSUME ~overlapped'
                 PROVE  /\ \A d, e \in Counting' : d = e
                        /\ \A d \in Counting' : cpu'[d].reg = rx_packets'
                        /\ NodePackets' + Cardinality(InRow') <= rx_packets'
      BY DEF RowsCovered
    <2>1. /\ \A d, e \in Counting : d = e
          /\ \A d \in Counting : cpu[d].reg = rx_packets
          /\ NodePackets + i <= rx_packets
      BY <1>1 DEF i, TotalInv, RowsCovered
    <2>2. Counting' = {} /\ cpu[c].reg = rx_packets
      BY <1>5, <1>6, <2>1
    <2>3. NodePackets' + Cardinality(InRow') <= rx_packets'
      BY <1>1, <1>7, <1>8, <1>9, <2>1, <2>2
    <2>4. QED
      BY <2>2, <2>3
  <1>13. QED
    BY <1>10, <1>11, <1>12 DEF TotalInv

\* The count in a row: in one row at most, and what it does to the rows' total.
LEMMA CountsOne ==
  ASSUME IInv, HookTypes, NEW c \in CPUs, CountInRow(c)
  PROVE  /\ NodePackets' <= NodePackets + 1 /\ NodePackets' \in Nat
         /\ mixed \subseteq Keys => mixed' \subseteq Keys
  <1> DEFINE p == cpu[c]
             b == ip_port_hash_key[p.key]
             s == p.depth
             node == multi_grp[b][s]
  <1>1. p.pc = "stats" /\ WellFormed(p) /\ p \in Packet
    BY DEF CountInRow, HookTypes, WellFormed
  <1>2. b \in Buckets /\ s \in Rows /\ p.multi_ip \in Groups
    BY <1>1, ClientAssumption DEF WellFormed, Packet, HasNode
  <1>3. multi_grp \in [Buckets -> [Rows -> Node]]
    BY DEF IInv, ClientTypeOK
  <1>4. multi_grp' \in [Buckets -> [Rows -> Node]]
    BY CountStep
  <1>5. IF node.multi_ip = p.multi_ip
        THEN /\ multi_grp' = [multi_grp EXCEPT ![b][s].rx_packets = @ + 1]
             /\ mixed' = IF p.stale \/ node.key # p.key THEN mixed \cup {node.key} ELSE mixed
        ELSE UNCHANGED <<multi_grp, mixed>>
    BY DEF CountInRow
  <1> HIDE DEF b, s, p
  <1>6. NodePackets \in Nat /\ NodePackets' \in Nat
    BY <1>3, <1>4, PacketsNow, PacketsSum
  <1>7. CASE node.multi_ip # p.multi_ip
    <2>1. NodePackets' = NodePackets /\ mixed' = mixed
      BY <1>5, <1>7, PacketsNow
    <2>2. QED
      BY <1>6, <2>1
  <1>8. CASE node.multi_ip = p.multi_ip
    <2> DEFINE new == [node EXCEPT !.rx_packets = @ + 1]
    <2>1. node \in Node
      BY <1>2, <1>3
    <2>2. new.created = node.created /\ new.rx_packets = node.rx_packets + 1
      BY <2>1 DEF Node
    <2>3. multi_grp' = [multi_grp EXCEPT ![b] = [multi_grp[b] EXCEPT ![s] = new]]
      BY <1>5, <1>8
    <2> HIDE DEF new
    <2>4. \A d \in Buckets, r \in Rows :
            /\ multi_grp'[d][r].created = multi_grp[d][r].created
            /\ multi_grp'[d][r].rx_packets =
                 (IF d = b /\ r = s THEN multi_grp[d][r].rx_packets + 1 ELSE multi_grp[d][r].rx_packets)
      BY <1>2, <1>3, <2>2, <2>3
    <2>5. NodePackets' <= NodePackets + 1
      <3>1. PICK u : u = multi_grp'
        OBVIOUS
      <3>2. PacketsIn(u) <= PacketsIn(multi_grp) + 1
        BY <1>2, <1>3, <1>4, <2>4, <3>1, PacketsRise
      <3>3. QED
        BY <3>1, <3>2, PacketsNow
    <2>6. node.key \in Keys
      <3>1. Created(b, s)
        BY <1>2, <1>8, NodeOfRow
      <3>2. QED
        BY <1>2, <3>1, NodeOfRow DEF KeyAt
    <2>7. mixed \subseteq Keys => mixed' \subseteq Keys
      BY <1>5, <1>8, <2>6
    <2>8. QED
      BY <1>6, <2>5, <2>7
  <1>9. QED
    BY <1>7, <1>8

LEMMA TotalCounted ==
  ASSUME IInv, HookTypes, TotalInv, NEW c \in CPUs, CountInRow(c)
  PROVE  TotalInv'
  <1> DEFINE i == Cardinality(InRow)
  <1>1. /\ cpu[c].pc = "stats" /\ At(c, NoPacket)
        /\ UNCHANGED <<rx_packets, arrived, rewritten, own, overlapped>>
    BY DEF CountInRow
  <1>2. /\ Waiting' = Waiting \ {c} /\ Counting' = Counting \ {c} /\ InRow' = InRow \ {c}
        /\ \A d \in CPUs \ {c} : cpu'[d] = cpu[d]
    BY <1>1, NoPacketFormed, SetsMoved
  <1>3. c \notin Waiting /\ c \notin Counting /\ c \in InRow /\ InRow \in SUBSET CPUs
        /\ Counting \in SUBSET CPUs
    BY <1>1 DEF Waiting, Counting, InRow
  <1>4. Waiting' = Waiting /\ Counting' = Counting /\ Cardinality(InRow') = i - 1
    BY <1>2, <1>3, NumbersMoved
  <1>5. \A d \in Counting : cpu'[d] = cpu[d]
    BY <1>2, <1>3
  <1>6. i \in Nat /\ NodePackets \in Nat /\ rx_packets \in Nat
    BY TotalNumbers
  <1>7. NodePackets' <= NodePackets + 1 /\ NodePackets' \in Nat /\ (mixed \subseteq Keys => mixed' \subseteq Keys)
    BY CountsOne
  <1>8. HistoryTypes' /\ NeverAhead'
    BY <1>1, <1>4, <1>5, <1>7 DEF TotalInv, HistoryTypes, NeverAhead
  <1>9. RowsCovered'
    <2> SUFFICES ASSUME ~overlapped'
                 PROVE  /\ \A d, e \in Counting' : d = e
                        /\ \A d \in Counting' : cpu'[d].reg = rx_packets'
                        /\ NodePackets' + Cardinality(InRow') <= rx_packets'
      BY DEF RowsCovered
    <2>1. /\ \A d, e \in Counting : d = e
          /\ \A d \in Counting : cpu[d].reg = rx_packets
          /\ NodePackets + i <= rx_packets
      BY <1>1 DEF TotalInv, RowsCovered
    <2> HIDE DEF i
    <2>2. NodePackets' + Cardinality(InRow') <= rx_packets'
      BY <1>1, <1>4, <1>6, <1>7, <2>1
    <2>3. QED
      BY <1>1, <1>4, <1>5, <2>1, <2>2
  <1>10. QED
    BY <1>8, <1>9 DEF TotalInv

\* After a request a created row has the count that it had, or has counted nothing: a node
\* that is moved takes over the count of the row it comes to.
RowsInherit == \A b \in Buckets, r \in Rows :
                 Created(b, r)' =>
                   \/ Created(b, r) /\ multi_grp'[b][r].rx_packets = multi_grp[b][r].rx_packets
                   \/ multi_grp'[b][r].rx_packets = 0

LEMMA RequestInherits ==
  ASSUME IInv, ClientNext
  PROVE  RowsInherit
  <1>0. multi_grp \in [Buckets -> [Rows -> Node]]
    BY DEF IInv, ClientTypeOK
  <1>1. ASSUME UNCHANGED multi_grp
        PROVE  RowsInherit
    BY <1>1 DEF RowsInherit, Created
  <1>2. ASSUME NEW c \in Callers, NEW k \in Keys, NEW g \in Groups, AddUpdates(c, k, g)
        PROVE  RowsInherit
    <2> DEFINE b == ip_port_hash_key[k]
    <2>1. PICK r \in Rows : multi_grp' = [multi_grp EXCEPT ![b][r].multi_ip = g]
      BY <1>2 DEF AddUpdates
    <2>2. b \in Buckets
      BY ClientAssumption
    <2> HIDE DEF b
    <2>3. \A d \in Buckets, s \in Rows :
            /\ multi_grp'[d][s].created = multi_grp[d][s].created
            /\ multi_grp'[d][s].rx_packets = multi_grp[d][s].rx_packets
      BY <1>0, <2>1, <2>2 DEF Node
    <2>4. QED
      BY <2>3 DEF RowsInherit, Created
  <1>3. ASSUME NEW c \in Callers, NEW k \in Keys, NEW g \in Groups, AddCreates(c, k, g)
        PROVE  RowsInherit
    <2> DEFINE b == ip_port_hash_key[k]
               new == [multi_ip |-> g, key |-> k, created |-> 1, rx_packets |-> 0]
    <2>1. PICK r \in Rows : multi_grp' = [multi_grp EXCEPT ![b][r] = new]
      BY <1>3 DEF AddCreates
    <2>2. b \in Buckets /\ new.rx_packets = 0
      BY ClientAssumption
    <2> HIDE DEF b, new
    <2>3. \A d \in Buckets, s \in Rows :
            multi_grp'[d][s] = IF d = b /\ s = r THEN new ELSE multi_grp[d][s]
      BY <1>0, <2>1, <2>2
    <2>4. QED
      BY <2>2, <2>3 DEF RowsInherit, Created
  <1>4. ASSUME NEW c \in Callers, NEW k \in Keys, DeleteFound(c, k)
        PROVE  RowsInherit
    <2> DEFINE b == ip_port_hash_key[k]
    <2>1. PICK r \in Rows, last \in Rows :
            /\ FoundAt(k, r)
            /\ multi_grp' = [multi_grp EXCEPT ![b] = RowRemoved(multi_grp[b], r, last)]
      BY <1>4 DEF DeleteFound
    <2>2. b \in Buckets /\ multi_grp[b][r].created = 1
      <3>1. r <= r
        BY <2>1, Sizes
      <3>2. QED
        BY <2>1, <3>1, ClientAssumption DEF FoundAt
    <2> HIDE DEF b
    <2> DEFINE moved == [multi_grp[b][last] EXCEPT !.rx_packets = multi_grp[b][r].rx_packets]
               free == Deleted(multi_grp[b][last])
    <2>3. moved.rx_packets = multi_grp[b][r].rx_packets /\ free.created = 0
      BY <1>0, <2>2 DEF Node, Deleted, ZeroNode
    <2>4. multi_grp' = [multi_grp EXCEPT ![b] = [multi_grp[b] EXCEPT ![r] = moved, ![last] = free]]
      BY <2>1 DEF RowRemoved
    <2> HIDE DEF moved, free
    <2>5. \A d \in Buckets, s \in Rows :
            multi_grp'[d][s] = IF d # b THEN multi_grp[d][s]
                               ELSE IF s = last THEN free
                               ELSE IF s = r THEN moved
                               ELSE multi_grp[b][s]
      BY <1>0, <2>2, <2>4
    <2>6. QED
      BY <2>2, <2>3, <2>5 DEF RowsInherit, Created
  <1>5. ASSUME NEW c \in Callers, clear_multi_node(c)
        PROVE  RowsInherit
    <2>1. multi_grp' = [b \in Buckets |-> [r \in Rows |-> ZeroNode]]
      BY <1>5 DEF clear_multi_node
    <2>2. \A b \in Buckets, r \in Rows : ~Created(b, r)'
      BY <2>1 DEF Created, ZeroNode
    <2>3. QED
      BY <2>2 DEF RowsInherit
  <1>6. PICK c \in Callers :
          \/ \E k \in Keys, g \in Groups : add_multi_node(c, k, g)
          \/ \E k \in Keys : del_multi_node(c, k)
          \/ clear_multi_node(c)
          \/ Read(c)
    BY DEF ClientNext
  <1>7. CASE \E k \in Keys, g \in Groups : add_multi_node(c, k, g)
    <2>1. PICK k \in Keys, g \in Groups : add_multi_node(c, k, g)
      BY <1>7
    <2>2. CASE AddStarts(c, k, g) \/ AddNoRoom(c) \/ AddExists(c, k, g) \/ AddSpins(c, k, g)
      BY <1>1, <2>2 DEF AddStarts, AddNoRoom, AddExists, AddSpins
    <2>3. QED
      BY <1>2, <1>3, <2>1, <2>2 DEF add_multi_node
  <1>8. CASE \E k \in Keys : del_multi_node(c, k)
    BY <1>1, <1>4, <1>8 DEF del_multi_node, DeleteMissing
  <1>9. CASE Read(c)
    BY <1>1, <1>9 DEF Read
  <1>10. QED
    BY <1>5, <1>6, <1>7, <1>8, <1>9

LEMMA TotalRequest ==
  ASSUME IInv, IInv', HookTypes, TotalInv, Request
  PROVE  TotalInv'
  <1>1. /\ ClientNext /\ UNCHANGED <<rx_packets, arrived, rewritten, overlapped>>
        /\ \A k \in Keys : own'[k] \in {0, own[k]}
        /\ mixed' \subseteq mixed \cup MovedKeys
    BY DEF Request
  <1>2. \A c \in CPUs : cpu'[c].pc = cpu[c].pc /\ cpu'[c].reg = cpu[c].reg
    <2> DEFINE s(c) == cpu[c].stale \/ (/\ cpu[c].pc \in {"found", "count", "stats"}
                                        /\ cpu[c].key \in KeysIn(multi_grp) \ KeysIn(multi_grp'))
    <2>1. cpu' = [c \in CPUs |-> [cpu[c] EXCEPT !.stale = s(c)]]
      BY DEF Request
    <2>2. \A c \in CPUs : cpu[c] \in Packet
      BY DEF HookTypes, WellFormed
    <2> HIDE DEF s
    <2>3. QED
      BY <2>1, <2>2 DEF Packet
  <1>3. Waiting' = Waiting /\ Counting' = Counting /\ InRow' = InRow
    BY <1>2 DEF Waiting, Counting, InRow
  <1>4. \A c \in Counting : cpu'[c].reg = cpu[c].reg
    BY <1>2 DEF Counting
  <1>5. NodePackets' <= NodePackets /\ NodePackets' \in Nat
    <2>1. multi_grp \in [Buckets -> [Rows -> Node]] /\ multi_grp' \in [Buckets -> [Rows -> Node]]
      BY DEF IInv, ClientTypeOK
    <2>2. PICK u : u = multi_grp'
      OBVIOUS
    <2>3. RowsInherit
      BY <1>1, RequestInherits
    <2>4. \A b \in Buckets, r \in Rows :
            u[b][r].created = 1 =>
              \/ multi_grp[b][r].created = 1 /\ u[b][r].rx_packets = multi_grp[b][r].rx_packets
              \/ u[b][r].rx_packets = 0
      BY <2>2, <2>3 DEF RowsInherit, Created
    <2>5. PacketsIn(u) <= PacketsIn(multi_grp) /\ PacketsIn(u) \in Nat
      BY <2>1, <2>2, <2>4, PacketsFall, PacketsSum
    <2>6. QED
      BY <2>2, <2>5, PacketsNow
  <1>6. HistoryTypes'
    <2>1. \A k \in Keys : own'[k] <= rewritten'
      BY <1>1, TotalNumbers DEF TotalInv, HistoryTypes
    <2>2. mixed' \subseteq Keys
      BY <1>1 DEF MovedKeys, TotalInv, HistoryTypes
    <2>3. QED
      BY <1>1, <1>3, <2>1, <2>2 DEF TotalInv, HistoryTypes
  <1>7. NeverAhead'
    BY <1>1, <1>3, <1>4 DEF TotalInv, NeverAhead
  <1>8. RowsCovered'
    <2> SUFFICES ASSUME ~overlapped'
                 PROVE  /\ \A d, e \in Counting' : d = e
                        /\ \A d \in Counting' : cpu'[d].reg = rx_packets'
                        /\ NodePackets' + Cardinality(InRow') <= rx_packets'
      BY DEF RowsCovered
    <2>1. /\ \A d, e \in Counting : d = e
          /\ \A d \in Counting : cpu[d].reg = rx_packets
          /\ NodePackets + Cardinality(InRow) <= rx_packets
      BY <1>1 DEF TotalInv, RowsCovered
    <2>2. NodePackets' + Cardinality(InRow') <= rx_packets'
      BY <1>1, <1>3, <1>5, <2>1, TotalNumbers
    <2>3. QED
      BY <1>1, <1>3, <1>4, <2>1, <2>2
  <1>9. QED
    BY <1>6, <1>7, <1>8 DEF TotalInv

LEMMA TotalNext ==
  ASSUME IInv, HookTypes, TotalInv, [ForwardNext]_forwardVars
  PROVE  TotalInv'
  <1>1. IInv'
    BY TableNext
  <1>2. CASE UNCHANGED forwardVars
    <2>1. /\ UNCHANGED <<multi_grp, rx_packets, cpu, arrived, rewritten, own, mixed, overlapped>>
      BY <1>2 DEF forwardVars, clientVars
    <2>2. NodePackets' = NodePackets
      BY <2>1, PacketsNow
    <2>3. Waiting' = Waiting /\ Counting' = Counting /\ InRow' = InRow
      BY <2>1 DEF Waiting, Counting, InRow
    <2>4. QED
      BY <2>1, <2>2, <2>3 DEF TotalInv, HistoryTypes, NeverAhead, RowsCovered
  <1>3. CASE Request
    BY <1>1, <1>3, TotalRequest
  <1>4. ASSUME NEW c \in CPUs, HookStep(c)
        PROVE  TotalInv'
    BY <1>4, TotalLookups, TotalRewritten, TotalStored, TotalCounted DEF HookStep
  <1>5. QED
    BY <1>2, <1>3, <1>4 DEF ForwardNext

LEMMA TotalInvariant == ForwardSpec => [](HookInv /\ TotalInv)
  <1>1. ForwardInit => HookInv /\ TotalInv
    BY HookInvInit, TotalInit
  <1>2. HookInv /\ TotalInv /\ [ForwardNext]_forwardVars => HookInv' /\ TotalInv'
    BY HookInvNext, TotalNext DEF HookInv
  <1>3. QED
    BY <1>1, <1>2, PTL DEF ForwardSpec

\* The hook's variables keep their types and their bounds: rx_packets never exceeds the packets
\* that arrived, nor the packets of a key those rewritten, whatever CPUs overwrite and whatever
\* requests do to the table under them.
THEOREM HookTypeCorrect == ForwardSpec => []ForwardTypeOK
  <1>1. HookInv /\ TotalInv => ForwardTypeOK
    <2> SUFFICES ASSUME HookInv, TotalInv PROVE ForwardTypeOK
      OBVIOUS
    <2>1. /\ Cardinality(Waiting) \in Nat /\ Cardinality(Counting) \in Nat
          /\ arrived \in Nat /\ rewritten \in Nat /\ rx_packets \in Nat
      BY TotalNumbers DEF HookInv
    <2>2. rewritten \in 0 .. arrived
      BY <2>1 DEF TotalInv, HistoryTypes
    <2>3. rx_packets \in 0 .. arrived
      BY <2>1, <2>2 DEF TotalInv, NeverAhead
    <2>4. own \in [Keys -> 0 .. rewritten]
      <3>1. own \in [Keys -> Nat] /\ \A k \in Keys : own[k] <= rewritten
        BY DEF HookInv, HookTypes, TotalInv, HistoryTypes
      <3>2. \A k \in Keys : own[k] \in 0 .. rewritten
        BY <2>1, <3>1
      <3>3. QED
        BY <3>1, <3>2
    <2>5. cpu \in [CPUs -> Packet]
      BY DEF HookInv, HookTypes
    <2>6. arrived \in 0 .. MaxPackets /\ mixed \subseteq Keys /\ overlapped \in BOOLEAN
      BY DEF TotalInv, HistoryTypes
    <2>7. QED
      BY <2>2, <2>3, <2>4, <2>5, <2>6 DEF ForwardTypeOK, Packet
  <1>2. QED
    BY <1>1, TotalInvariant, PTL

\* The nodes' counters never add up to more than the total, and the total never exceeds the
\* packets rewritten, whatever requests move and delete nodes under packets on their way;
\* only CPUs that count at once can lose a packet of the total.
THEOREM NodesWithinTotal == ForwardSpec => []TotalCoversNodes
  <1>1. HookInv /\ TotalInv => TotalCoversNodes
    <2> SUFFICES ASSUME HookInv, TotalInv PROVE TotalCoversNodes
      OBVIOUS
    <2>1. /\ Cardinality(InRow) \in Nat /\ Cardinality(Counting) \in Nat
          /\ rewritten \in Nat /\ rx_packets \in Nat /\ NodePackets \in Nat
      BY TotalNumbers DEF HookInv
    <2>2. rx_packets <= rewritten
      BY <2>1 DEF TotalInv, NeverAhead
    <2>3. ~overlapped => NodePackets <= rx_packets
      BY <2>1 DEF TotalInv, RowsCovered
    <2>4. QED
      BY <2>2, <2>3 DEF TotalCoversNodes
  <1>2. QED
    BY <1>1, TotalInvariant, PTL
=============================================================================
