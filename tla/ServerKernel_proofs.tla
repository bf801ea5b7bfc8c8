------------------------ MODULE ServerKernel_proofs -------------------------
(***************************************************************************)
(* Proofs about the server's group table (module ServerTable), for every   *)
(* set of groups and VMs and every size of the table, and the loops over   *)
(* its member lists (module VmList); about the counters of the netfilter   *)
(* hook beside it (module ServerForward), for any number of CPUs; and      *)
(* about the reply that LIST and SHOW share (module ServerShow), for any   *)
(* number of senders.                                                      *)
(***************************************************************************)
EXTENDS ServerForward, ServerShow, FoldLemmas

(***************************************************************************)
(* The inductive invariant.  Preserving any one part needs the others:     *)
(* get_idx gives a new group an index of its own because bitmap is exact,  *)
(* deletion leaves bitmap exact because indexes are distinct, and both     *)
(* find their rows because buckets have no holes.                          *)
(***************************************************************************)
IInv ==
  /\ TypeOK
  /\ EveryGroupFound
  /\ IndexesDistinct
  /\ BitmapExact
  /\ ListsMatch

-----------------------------------------------------------------------------
(* Facts about finite sets and naturals                                    *)

LEMMA CardUnion ==
  ASSUME NEW S, NEW T, IsFiniteSet(S), IsFiniteSet(T)
  PROVE  /\ IsFiniteSet(S \cup T)
         /\ Cardinality(S \cup T) = Cardinality(S) + Cardinality(T \ S)
         /\ Cardinality(T \ S) \in Nat
         /\ Cardinality(T \ S) <= Cardinality(T)
  <1>1. IsFiniteSet(T \ S) /\ Cardinality(T \ S) \in Nat
    BY FS_Difference, FS_CardinalityType
  <1>2. S \cup T = S \cup (T \ S) /\ S \cap (T \ S) = {}
    OBVIOUS
  <1>3. Cardinality(S \cup (T \ S)) =
          Cardinality(S) + Cardinality(T \ S) - Cardinality(S \cap (T \ S))
    BY <1>1, FS_Union
  <1>4. Cardinality(S \cup T) = Cardinality(S) + Cardinality(T \ S)
    <2>1. Cardinality(S \cap (T \ S)) = 0
      BY <1>2, FS_EmptySet
    <2>2. Cardinality(S) \in Nat
      BY FS_CardinalityType
    <2>3. Cardinality(S \cup T) = Cardinality(S) + Cardinality(T \ S) - 0
      BY <1>2, <1>3, <2>1
    <2>4. QED
      BY <1>1, <2>2, <2>3
  <1>5. Cardinality(T \ S) <= Cardinality(T)
    BY FS_Subset
  <1>6. QED
    BY <1>1, <1>4, <1>5, FS_Union

LEMMA CardMinus ==
  ASSUME NEW S, NEW T, IsFiniteSet(S)
  PROVE  /\ IsFiniteSet(S \ T)
         /\ Cardinality(S \ T) = Cardinality(S) - Cardinality(T \cap S)
         /\ Cardinality(S \ T) \in Nat
         /\ Cardinality(S \ T) <= Cardinality(S)
  <1>1. S \cap T = T \cap S
    OBVIOUS
  <1>2. IsFiniteSet(S \ T) /\ Cardinality(S \ T) = Cardinality(S) - Cardinality(S \cap T)
    BY FS_Difference
  <1>3. Cardinality(S \ T) \in Nat
    BY <1>2, FS_CardinalityType
  <1>4. Cardinality(S \ T) <= Cardinality(S)
    BY FS_Subset
  <1>5. QED
    BY <1>1, <1>2, <1>3, <1>4

\* The pigeonhole principle for an interval.
LEMMA Pigeons ==
  ASSUME NEW n \in Nat, NEW T, IsFiniteSet(T), NEW f \in [0 .. n - 1 -> T],
         \A x, y \in 0 .. n - 1 : f[x] = f[y] => x = y
  PROVE  n <= Cardinality(T)
  <1>1. IsFiniteSet(0 .. n - 1) /\ Cardinality(0 .. n - 1) = n
    BY FS_Interval
  <1>2. Cardinality(T) \in Nat
    BY FS_CardinalityType
  <1>3. SUFFICES ASSUME Cardinality(T) < n PROVE FALSE
    BY <1>2
  <1>4. QED
    BY <1>1, <1>3, FS_PigeonHole

LEMMA SmallMod == ASSUME NEW i \in Nat, NEW m \in Nat \ {0}, i < m PROVE i % m = i
  OBVIOUS

LEMMA RequestFinite ==
  ASSUME NEW R \in Requests
  PROVE  IsFiniteSet(R) /\ R \subseteq VMs /\ Cardinality(R) \in Nat /\ Cardinality(R) <= VmMax
  <1>1. R \subseteq VMs /\ Cardinality(R) <= VmMax
    BY DEF Requests
  <1>2. QED
    BY <1>1, ServerAssumption, FS_Subset, FS_CardinalityType

-----------------------------------------------------------------------------
(* Facts about lookups                                                     *)

\* A row that a lookup finds holds the group; there is one such row.
LEMMA FoundRow ==
  ASSUME NEW g, NEW r \in Rows, FoundAt(g, r)
  PROVE  /\ Created(mulit_hash_key[g], r)
         /\ multi_grp[mulit_hash_key[g]][r].multi_ip = g
         /\ \A s \in Rows : FoundAt(g, s) => s = r
  BY DEF FoundAt, Created, Rows

\* A group that no lookup finds is in no created row.
LEMMA NotFoundNotCreated ==
  ASSUME EveryGroupFound, NEW g, ~Exists(g), NEW b \in Buckets, NEW r \in Rows, Created(b, r)
  PROVE  multi_grp[b][r].multi_ip # g
  BY DEF EveryGroupFound, Exists

\* The created rows of a bucket come first.
LEMMA NoHoles ==
  ASSUME EveryGroupFound, NEW b \in Buckets, NEW r \in Rows, NEW k \in Rows,
         Created(b, r), k <= r
  PROVE  Created(b, k)
  BY DEF EveryGroupFound, FoundAt, Created

\* Row r's group is found at r.
LEMMA CreatedFound ==
  ASSUME EveryGroupFound, NEW b \in Buckets, NEW r \in Rows, Created(b, r)
  PROVE  /\ multi_grp[b][r].multi_ip \in Groups
         /\ mulit_hash_key[multi_grp[b][r].multi_ip] = b
         /\ FoundAt(multi_grp[b][r].multi_ip, r)
  BY DEF EveryGroupFound

\* The same group twice in a bucket is the same row twice.
LEMMA OneRow ==
  ASSUME EveryGroupFound, NEW b \in Buckets, NEW r \in Rows, NEW s \in Rows,
         Created(b, r), Created(b, s), multi_grp[b][r].multi_ip = multi_grp[b][s].multi_ip
  PROVE  r = s
  BY CreatedFound, FoundRow

\* EveryGroupFound as a fact about the rows of a table t: what each step has to show.
WellPlaced(t) ==
  \A b \in Buckets, r \in Rows :
    /\ t[b][r].created # 1 => t[b][r] = FreeNode
    /\ t[b][r].created = 1 =>
         /\ t[b][r].multi_ip \in Groups
         /\ mulit_hash_key[t[b][r].multi_ip] = b
         /\ \A k \in Rows : k <= r => t[b][k].created = 1
         /\ \A k \in Rows : k < r => t[b][k].multi_ip # t[b][r].multi_ip

LEMMA PlacedNow == EveryGroupFound <=> WellPlaced(multi_grp)
  BY DEF EveryGroupFound, WellPlaced, FoundAt, Created

LEMMA PlacedNext == EveryGroupFound' <=> WellPlaced(multi_grp')
  BY DEF EveryGroupFound, WellPlaced, FoundAt, Created

-----------------------------------------------------------------------------
(* The index given to a new group                                          *)

LEMMA CardGroups == Cardinality(Groups) \in Nat /\ GroupsAtOnce \in Nat /\ GroupsAtOnce <= GrpMax
  BY ServerAssumption, FS_CardinalityType DEF GroupsAtOnce

\* While a group is absent, the indexes below n cannot all be in use if n is the number
\* of groups: each is owned by another group, and there are only n - 1 of those.
LEMMA SomeIndexFree ==
  ASSUME IInv, ~spinning, NEW g \in Groups, ~Exists(g),
         NEW n \in Nat, \A k \in 0 .. n - 1 : k \in bitmap
  PROVE  n < Cardinality(Groups)
  <1> DEFINE IsOwner(k, h) == \E b \in Buckets, r \in Rows :
                Created(b, r) /\ IdxAt(b, r) = k /\ multi_grp[b][r].multi_ip = h
             Others == Groups \ {g}
             Owner == [k \in 0 .. n - 1 |-> CHOOSE h \in Others : IsOwner(k, h)]
  <1>1. ASSUME NEW k \in 0 .. n - 1 PROVE \E h \in Others : IsOwner(k, h)
    <2>1. k \in UsedIndexes
      BY DEF IInv, BitmapExact
    <2>2. PICK b \in Buckets, r \in Rows : Created(b, r) /\ IdxAt(b, r) = k
      BY <2>1 DEF UsedIndexes
    <2>3. multi_grp[b][r].multi_ip \in Others
      BY <2>2, NotFoundNotCreated, CreatedFound DEF IInv
    <2>4. QED
      BY <2>2, <2>3
  <1>2. \A k \in 0 .. n - 1 : Owner[k] \in Others /\ IsOwner(k, Owner[k])
    BY <1>1
  <1>3. ASSUME NEW j \in 0 .. n - 1, NEW k \in 0 .. n - 1, Owner[j] = Owner[k] PROVE j = k
    <2>1. PICK b \in Buckets, r \in Rows :
            Created(b, r) /\ IdxAt(b, r) = j /\ multi_grp[b][r].multi_ip = Owner[j]
      BY <1>2
    <2>2. PICK c \in Buckets, s \in Rows :
            Created(c, s) /\ IdxAt(c, s) = k /\ multi_grp[c][s].multi_ip = Owner[j]
      BY <1>2, <1>3
    <2>3. b = c
      <3>1. mulit_hash_key[multi_grp[b][r].multi_ip] = b
        BY <2>1, CreatedFound DEF IInv
      <3>2. mulit_hash_key[multi_grp[c][s].multi_ip] = c
        BY <2>2, CreatedFound DEF IInv
      <3>3. multi_grp[b][r].multi_ip = multi_grp[c][s].multi_ip
        BY <2>1, <2>2
      <3>4. QED
        BY <3>1, <3>2, <3>3
    <2>4. r = s
      BY <2>1, <2>2, <2>3, OneRow DEF IInv
    <2>5. QED
      BY <2>1, <2>2, <2>3, <2>4
  <1>4. IsFiniteSet(Others) /\ Cardinality(Others) = Cardinality(Groups) - 1
    BY ServerAssumption, FS_RemoveElement
  <1>5. Owner \in [0 .. n - 1 -> Others]
    BY <1>2
  <1>6. n <= Cardinality(Others)
    <2> HIDE DEF Owner, Others
    <2>1. QED
      BY <1>3, <1>4, <1>5, Pigeons
  <1>7. QED
    BY <1>4, <1>6, CardGroups

\* A new group gets an index that nobody uses, in the word and in a uint8_t.
LEMMA NewIndex ==
  ASSUME IInv, IndexesFit, ~spinning, NEW g \in Groups, ~Exists(g), NEW i \in Indexes, GetIdx(i)
  PROVE  /\ i < GroupsAtOnce
         /\ i < BitmapBits
         /\ i \notin bitmap
         /\ Uint8(i) = i
         /\ i \in 0 .. IdxMod - 1
  <1>1. IdxMod \in Nat \ {0} /\ BitmapBits \in Nat \ {0} /\ GrpMax \in Nat \ {0} /\ i \in Nat
        /\ i < GrpMax /\ GroupsAtOnce \in Nat
    BY ServerAssumption, CardGroups DEF Indexes
  <1>2. ASSUME NEW k \in Nat, k < BitmapBits, k < i PROVE k \in bitmap
    BY <1>1, <1>2 DEF GetIdx, FreeBits, Indexes
  <1>3. i < GroupsAtOnce
    <2>1. SUFFICES ASSUME GroupsAtOnce <= i PROVE FALSE
      BY <1>1
    <2>2. GroupsAtOnce = Cardinality(Groups)
      BY <1>1, <2>1 DEF GroupsAtOnce
    <2>3. \A k \in 0 .. GroupsAtOnce - 1 : k \in bitmap
      BY <1>1, <1>2, <2>1 DEF IndexesFit
    <2>4. GroupsAtOnce < Cardinality(Groups)
      BY <1>1, <2>3, SomeIndexFree
    <2>5. QED
      BY <1>1, <2>2, <2>4
  <1>4. i < BitmapBits /\ i < IdxMod
    BY <1>1, <1>3 DEF IndexesFit
  <1>5. i \notin bitmap
    BY <1>1, <1>4 DEF GetIdx, FreeBits
  <1>6. Uint8(i) = i
    BY <1>1, <1>4, SmallMod DEF Uint8
  <1>7. QED
    BY <1>1, <1>3, <1>4, <1>5, <1>6

-----------------------------------------------------------------------------
(* Every request preserves the invariant                                   *)

LEMMA Sizes ==
  /\ GrpDepth \in Nat \ {0} /\ GrpMax \in Nat \ {0} /\ VmMax \in Nat \ {0}
  /\ IdxMod \in Nat \ {0} /\ RowMod \in Nat \ {0} /\ BitmapBits \in Nat \ {0}
  /\ FreeNode \in Node
  BY ServerAssumption DEF FreeNode, Node, Indexes

LEMMA InitInv == Init => IInv
  <1> SUFFICES ASSUME Init PROVE IInv
    OBVIOUS
  <1>1. TypeOK
    BY Sizes DEF Init, TypeOK, Answers
  <1>2. \A b \in Buckets, r \in Rows : ~Created(b, r) /\ multi_grp[b][r] = FreeNode
    BY DEF Init, Created, FreeNode
  <1>3. QED
    BY <1>1, <1>2 DEF Init, IInv, EveryGroupFound, IndexesDistinct, BitmapExact, ListsMatch,
                      UsedIndexes, Created

\* What the rows and the lists decide.
LEMMA SameNodes ==
  ASSUME UNCHANGED <<multi_grp, multi_vm>>
  PROVE  /\ EveryGroupFound => EveryGroupFound'
         /\ IndexesDistinct => IndexesDistinct'
         /\ ListsMatch => ListsMatch'
         /\ UNCHANGED UsedIndexes
  <1>1. EveryGroupFound => EveryGroupFound'
    BY DEF EveryGroupFound, FoundAt, Created
  <1>2. IndexesDistinct => IndexesDistinct'
    BY DEF IndexesDistinct, Created, IdxAt
  <1>3. UNCHANGED UsedIndexes
    BY DEF UsedIndexes, Created, IdxAt
  <1>4. ListsMatch => ListsMatch'
    BY <1>3 DEF ListsMatch, Created, IdxAt
  <1>5. QED
    BY <1>1, <1>2, <1>3, <1>4

\* Steps that leave the table as it is, but for the counters and the answer.
LEMMA CountsOnly ==
  ASSUME IInv, UNCHANGED <<multi_grp, bitmap, multi_vm, spinning>>, TypeOK'
  PROVE  IInv'
  <1>1. EveryGroupFound' /\ IndexesDistinct' /\ ListsMatch' /\ UNCHANGED UsedIndexes
    BY SameNodes DEF IInv
  <1>2. BitmapExact'
    BY <1>1 DEF IInv, BitmapExact
  <1>3. QED
    BY <1>1, <1>2 DEF IInv

\* Requests that only answer.
LEMMA AnswerOnly ==
  ASSUME IInv, Unchanged, ret' \in Answers
  PROVE  IInv'
  <1>1. UNCHANGED <<multi_grp, bitmap, multi_vm, multi_stats, spinning>>
    BY DEF Unchanged
  <1>2. TypeOK'
    BY <1>1 DEF IInv, TypeOK
  <1>3. QED
    BY <1>1, <1>2, CountsOnly

\* A created node, whatever its row, has an index of its array and lists VMs.
LEMMA ListOfRow ==
  ASSUME IInv, NEW b \in Buckets, NEW r \in Rows, Created(b, r)
  PROVE  /\ multi_grp[b][r] \in Node
         /\ IdxAt(b, r) \in Indexes
         /\ multi_vm[IdxAt(b, r)] \subseteq VMs
         /\ IsFiniteSet(multi_vm[IdxAt(b, r)])
         /\ multi_grp[b][r].multi_member_cnt = Cardinality(multi_vm[IdxAt(b, r)])
         /\ Cardinality(multi_vm[IdxAt(b, r)]) \in 0 .. VmMax
  <1>1. multi_grp[b][r] \in Node
    BY DEF IInv, TypeOK
  <1>2. IdxAt(b, r) \in Indexes /\ multi_grp[b][r].multi_member_cnt \in 0 .. VmMax
    BY <1>1 DEF Node, IdxAt
  <1>3. multi_vm[IdxAt(b, r)] \subseteq VMs
    BY <1>2 DEF IInv, TypeOK
  <1>4. IsFiniteSet(multi_vm[IdxAt(b, r)])
    BY <1>3, ServerAssumption, FS_Subset
  <1>5. multi_grp[b][r].multi_member_cnt = Cardinality(multi_vm[IdxAt(b, r)])
    BY DEF IInv, ListsMatch
  <1>6. QED
    BY <1>1, <1>2, <1>3, <1>4, <1>5

\* Append and quit replace the list of the group in row r by L and its count with it.
Relisted(g, r, L) ==
  /\ FoundAt(g, r)
  /\ L \in SUBSET VMs /\ Cardinality(L) \in 0 .. VmMax
  /\ multi_grp' = [multi_grp EXCEPT ![mulit_hash_key[g]][r].multi_member_cnt = Cardinality(L)]
  /\ multi_vm' = [multi_vm EXCEPT ![IdxAt(mulit_hash_key[g], r)] = L]
  /\ UNCHANGED <<bitmap, multi_stats, spinning>>
  /\ ret' = "ok"

LEMMA ListStep ==
  ASSUME IInv, NEW g \in Groups, NEW r \in Rows, NEW L, Relisted(g, r, L)
  PROVE  IInv'
  <1> DEFINE b == mulit_hash_key[g]
  <1>a. /\ b \in Buckets /\ Created(b, r)
        /\ L \in SUBSET VMs /\ Cardinality(L) \in 0 .. VmMax
        /\ multi_grp' = [multi_grp EXCEPT ![b][r].multi_member_cnt = Cardinality(L)]
        /\ multi_vm' = [multi_vm EXCEPT ![IdxAt(b, r)] = L]
        /\ UNCHANGED <<bitmap, multi_stats, spinning>> /\ ret' \in Answers
    BY ServerAssumption, FoundRow DEF Relisted, Answers
  <1> HIDE DEF b
  <1> USE <1>a
  <1>1. multi_grp \in [Buckets -> [Rows -> Node]] /\ multi_vm \in [Indexes -> SUBSET VMs]
        /\ IdxAt(b, r) \in Indexes
    BY ListOfRow DEF IInv, TypeOK
  <1>2. multi_grp[b][r] \in Node
        /\ [multi_grp[b][r] EXCEPT !.multi_member_cnt = Cardinality(L)] \in Node
    <2>1. \A node \in Node, n \in 0 .. VmMax : [node EXCEPT !.multi_member_cnt = n] \in Node
      BY DEF Node
    <2>2. QED
      BY <1>1, <2>1
  <1>3. \A c \in Buckets, s \in Rows :
          multi_grp'[c][s] = IF c = b /\ s = r
                             THEN [multi_grp[b][r] EXCEPT !.multi_member_cnt = Cardinality(L)]
                             ELSE multi_grp[c][s]
    BY <1>1
  <1>4. TypeOK'
    <2>1. multi_grp' \in [Buckets -> [Rows -> Node]]
      BY <1>1, <1>2
    <2>2. QED
      BY <1>1, <2>1 DEF IInv, TypeOK
  <1>5. \A c \in Buckets, s \in Rows :
          /\ multi_grp'[c][s].created = multi_grp[c][s].created
          /\ multi_grp'[c][s].multi_ip = multi_grp[c][s].multi_ip
          /\ multi_grp'[c][s].multi_grp_idx = multi_grp[c][s].multi_grp_idx
    BY <1>2, <1>3 DEF Node
  <1>6. \A c \in Buckets, s \in Rows :
          Created(c, s)' = Created(c, s) /\ IdxAt(c, s)' = IdxAt(c, s)
    BY <1>5 DEF Created, IdxAt
  <1>7. EveryGroupFound'
    <2>1. WellPlaced(multi_grp)
      BY PlacedNow DEF IInv
    <2>2. \A c \in Buckets, s \in Rows :
            multi_grp'[c][s].created # 1 => multi_grp'[c][s] = FreeNode
      BY <1>3, <1>5, <2>1 DEF WellPlaced, Created
    <2>3. WellPlaced(multi_grp')
      BY <1>5, <2>1, <2>2 DEF WellPlaced
    <2>4. QED
      BY <2>3, PlacedNext
  <1>8. IndexesDistinct'
    BY <1>6 DEF IInv, IndexesDistinct
  <1>9. UsedIndexes' = UsedIndexes
    BY <1>6 DEF UsedIndexes
  <1>10. BitmapExact'
    BY <1>9 DEF IInv, BitmapExact
  <1>11. ListsMatch'
    <2>1. ASSUME NEW c \in Buckets, NEW s \in Rows, Created(c, s)
          PROVE  multi_grp'[c][s].multi_member_cnt = Cardinality(multi_vm'[IdxAt(c, s)])
      <3>1. CASE c = b /\ s = r
        BY <1>1, <1>2, <1>3, <3>1 DEF Node
      <3>2. CASE ~(c = b /\ s = r)
        <4>1. IdxAt(c, s) # IdxAt(b, r)
          BY <2>1, <3>2 DEF IInv, IndexesDistinct
        <4>2. multi_vm'[IdxAt(c, s)] = multi_vm[IdxAt(c, s)]
          BY <1>1, <2>1, <4>1, ListOfRow
        <4>3. QED
          BY <1>3, <2>1, <3>2, <4>2, ListOfRow
      <3>3. QED
        BY <3>1, <3>2
    <2>2. ASSUME NEW i \in Indexes, i \notin UsedIndexes PROVE multi_vm'[i] = {}
      <3>1. i # IdxAt(b, r)
        BY <1>1, <2>2 DEF UsedIndexes
      <3>2. QED
        BY <1>1, <2>2, <3>1 DEF IInv, ListsMatch
    <2>3. QED
      BY <1>6, <1>9, <2>1, <2>2 DEF ListsMatch
  <1>12. QED
    BY <1>4, <1>7, <1>8, <1>10, <1>11 DEF IInv

LEMMA AppendRelists ==
  ASSUME IInv, NEW g \in Groups, NEW R \in Requests, AppendToGroup(g, R)
  PROVE  \E r \in Rows : Relisted(g, r, multi_vm[IdxAt(mulit_hash_key[g], r)] \cup R)
  <1> DEFINE b == mulit_hash_key[g]
  <1>1. PICK r \in Rows : /\ FoundAt(g, r)
                          /\ Fits(R, multi_grp[b][r].multi_member_cnt)
                          /\ AddVmIpList(g, r, R)
                          /\ ret' = "ok"
                          /\ UNCHANGED <<bitmap, multi_stats, spinning>>
    BY DEF AppendToGroup, Answer
  <1>2. b \in Buckets /\ Created(b, r)
    BY <1>1, ServerAssumption, FoundRow
  <1> DEFINE old == multi_vm[IdxAt(b, r)]
             L == old \cup R
  <1>3. /\ IdxAt(b, r) \in Indexes /\ old \subseteq VMs /\ IsFiniteSet(old)
        /\ multi_grp[b][r].multi_member_cnt = Cardinality(old)
        /\ Cardinality(old) \in 0 .. VmMax
    BY <1>2, ListOfRow
  <1>4. /\ Cardinality(L) = Cardinality(old) + Cardinality(R \ old)
        /\ Cardinality(R \ old) \in Nat
        /\ Cardinality(R \ old) <= Cardinality(R)
        /\ Cardinality(R) \in Nat
    BY <1>3, CardUnion, RequestFinite, FS_CardinalityType
  <1>5. Cardinality(R) + Cardinality(old) <= VmMax
    BY <1>1, <1>3 DEF Fits
  <1>6. L \in SUBSET VMs /\ Cardinality(L) \in 0 .. VmMax
    BY <1>3, <1>4, <1>5, RequestFinite, Sizes
  <1>7. /\ multi_vm' = [multi_vm EXCEPT ![IdxAt(b, r)] = L]
        /\ multi_grp' = [multi_grp EXCEPT ![b][r].multi_member_cnt = Cardinality(L)]
    BY <1>1, <1>3, <1>4 DEF AddVmIpList, IdxAt
  <1>8. QED
    BY <1>1, <1>6, <1>7 DEF Relisted

LEMMA QuitRelists ==
  ASSUME IInv, NEW g \in Groups, NEW R \in Requests, Quit(g, R)
  PROVE  \E r \in Rows : Relisted(g, r, multi_vm[IdxAt(mulit_hash_key[g], r)] \ R)
  <1> DEFINE b == mulit_hash_key[g]
  <1>1. PICK r \in Rows :
          /\ FoundAt(g, r)
          /\ multi_vm' = [multi_vm EXCEPT ![IdxAt(b, r)] = @ \ R]
          /\ multi_grp' = [multi_grp EXCEPT ![b][r].multi_member_cnt =
                                               @ - Cardinality(R \cap multi_vm[IdxAt(b, r)])]
          /\ ret' = "ok"
          /\ UNCHANGED <<bitmap, multi_stats, spinning>>
    BY DEF Quit, Answer, IdxAt
  <1>2. b \in Buckets /\ Created(b, r)
    BY <1>1, ServerAssumption, FoundRow
  <1> DEFINE old == multi_vm[IdxAt(b, r)]
             L == old \ R
  <1>3. /\ IdxAt(b, r) \in Indexes /\ old \subseteq VMs /\ IsFiniteSet(old)
        /\ multi_grp[b][r].multi_member_cnt = Cardinality(old)
        /\ Cardinality(old) \in 0 .. VmMax
    BY <1>2, ListOfRow
  <1>4. /\ Cardinality(L) = Cardinality(old) - Cardinality(R \cap old)
        /\ Cardinality(L) \in Nat
        /\ Cardinality(L) <= Cardinality(old)
    BY <1>3, CardMinus
  <1>5. L \in SUBSET VMs /\ Cardinality(L) \in 0 .. VmMax
    BY <1>3, <1>4, Sizes
  <1>6. /\ multi_vm' = [multi_vm EXCEPT ![IdxAt(b, r)] = L]
        /\ multi_grp' = [multi_grp EXCEPT ![b][r].multi_member_cnt = Cardinality(L)]
    BY <1>1, <1>3, <1>4
  <1>7. QED
    BY <1>1, <1>5, <1>6 DEF Relisted

LEMMA CreateStep ==
  ASSUME IInv, IndexesFit, NEW g \in Groups, NEW R \in Requests, CreateGroup(g, R)
  PROVE  IInv'
  <1> DEFINE b == mulit_hash_key[g]
  <1>1. PICK i \in Indexes, r \in Rows :
          /\ ~spinning /\ ~Exists(g)
          /\ GetIdx(i)
          /\ FirstFreeRow(b, r)
          /\ bitmap' = SetBit(i)
          /\ multi_grp' = [multi_grp EXCEPT ![b][r] =
                             [multi_ip |-> g, multi_member_cnt |-> Cardinality(R),
                              multi_grp_idx |-> Uint8(i), created |-> 1]]
          /\ multi_vm' = [multi_vm EXCEPT ![Uint8(i)] = R]
          /\ multi_stats' = [multi_stats EXCEPT ![i] = 0]
          /\ ret' = "ok" /\ UNCHANGED spinning
    BY DEF CreateGroup, Answer, Lock
  <1>2. /\ i < BitmapBits /\ i \notin bitmap /\ Uint8(i) = i /\ i \in 0 .. IdxMod - 1
    BY <1>1, NewIndex
  <1>3. b \in Buckets
    BY ServerAssumption
  <1>4. i \notin UsedIndexes /\ bitmap = UsedIndexes /\ bitmap' = bitmap \cup {i}
    BY <1>1, <1>2 DEF IInv, BitmapExact, SetBit
  <1> DEFINE new == [multi_ip |-> g, multi_member_cnt |-> Cardinality(R),
                     multi_grp_idx |-> i, created |-> 1]
  <1>5. new \in Node
    BY <1>2, RequestFinite, Sizes DEF Node
  <1>6. multi_grp \in [Buckets -> [Rows -> Node]]
    BY DEF IInv, TypeOK
  <1>7. \A c \in Buckets, s \in Rows :
          multi_grp'[c][s] = IF c = b /\ s = r THEN new ELSE multi_grp[c][s]
    BY <1>1, <1>2, <1>6
  <1>8. TypeOK'
    <2>1. multi_grp' \in [Buckets -> [Rows -> Node]]
      BY <1>1, <1>2, <1>5, <1>6
    <2>2. multi_vm' \in [Indexes -> SUBSET VMs]
      BY <1>1, <1>2, RequestFinite DEF IInv, TypeOK
    <2>3. multi_stats' \in [Indexes -> Nat]
      BY <1>1 DEF IInv, TypeOK
    <2>4. QED
      BY <1>1, <1>4, <2>1, <2>2, <2>3 DEF IInv, TypeOK, Answers
  <1>9. /\ multi_grp[b][r].created = 0
        /\ \A k \in Rows : k < r => multi_grp[b][k].created = 1
    BY <1>1, Sizes DEF FirstFreeRow, ScannedRows, Rows
  <1>10. \A s \in Rows : multi_grp[b][s].created = 1 => s < r
    <2>1. ASSUME NEW s \in Rows, multi_grp[b][s].created = 1, r <= s PROVE FALSE
      BY <1>3, <1>9, <2>1, NoHoles DEF IInv, Created
    <2>2. QED
      BY <2>1 DEF Rows
  <1>11. \A s \in Rows : multi_grp[b][s].created = 1 => multi_grp[b][s].multi_ip # g
    BY <1>1, <1>3, NotFoundNotCreated DEF IInv, Created
  <1> HIDE DEF b
  <1>12. EveryGroupFound'
    <2>1. WellPlaced(multi_grp)
      BY PlacedNow DEF IInv
    <2>2. ASSUME NEW c \in Buckets, NEW s \in Rows
          PROVE  /\ multi_grp'[c][s].created # 1 => multi_grp'[c][s] = FreeNode
                 /\ multi_grp'[c][s].created = 1 =>
                      /\ multi_grp'[c][s].multi_ip \in Groups
                      /\ mulit_hash_key[multi_grp'[c][s].multi_ip] = c
                      /\ \A k \in Rows : k <= s => multi_grp'[c][k].created = 1
                      /\ \A k \in Rows : k < s => multi_grp'[c][k].multi_ip # multi_grp'[c][s].multi_ip
      <3>1. CASE c # b
        BY <1>7, <2>1, <3>1 DEF WellPlaced
      <3>2. CASE c = b /\ s = r
        <4>1. multi_grp'[b][r].multi_ip = g /\ multi_grp'[b][r].created = 1
          BY <1>3, <1>7
        <4>2. \A k \in Rows : k < r => multi_grp'[b][k] = multi_grp[b][k]
          BY <1>3, <1>7 DEF Rows
        <4>3. \A k \in Rows : k <= r => multi_grp'[b][k].created = 1
          BY <1>9, <4>1, <4>2 DEF Rows
        <4>4. \A k \in Rows : k < r => multi_grp'[b][k].multi_ip # g
          BY <1>9, <1>11, <4>2
        <4>5. QED
          BY <3>2, <4>1, <4>3, <4>4 DEF b
      <3>3. CASE c = b /\ s # r
        <4>1. multi_grp'[b][s] = multi_grp[b][s]
          BY <1>3, <1>7, <3>3
        <4>2. CASE multi_grp[b][s].created # 1
          BY <2>1, <3>3, <4>1, <4>2, <1>3 DEF WellPlaced
        <4>3. CASE multi_grp[b][s].created = 1
          <5>1. s < r
            BY <1>10, <4>3
          <5>2. \A k \in Rows : k <= s => multi_grp'[b][k] = multi_grp[b][k]
            BY <1>3, <1>7, <5>1 DEF Rows
          <5>3. \A k \in Rows : k < s => k <= s
            BY DEF Rows
          <5>4. QED
            BY <1>3, <2>1, <3>3, <4>1, <4>3, <5>2, <5>3 DEF WellPlaced
        <4>4. QED
          BY <4>2, <4>3
      <3>4. QED
        BY <3>1, <3>2, <3>3
    <2>3. QED
      BY <2>2, PlacedNext DEF WellPlaced
  <1>13. \A c \in Buckets, s \in Rows :
           IF c = b /\ s = r
           THEN Created(c, s)' /\ IdxAt(c, s)' = i
           ELSE Created(c, s)' = Created(c, s) /\ IdxAt(c, s)' = IdxAt(c, s)
    BY <1>7 DEF Created, IdxAt
  <1>14. \A c \in Buckets, s \in Rows : Created(c, s) =>
           IdxAt(c, s) # i /\ ~(c = b /\ s = r) /\ IdxAt(c, s) \in Indexes
    BY <1>4, <1>9, ListOfRow DEF UsedIndexes, Created
  <1>15. IndexesDistinct'
    BY <1>13, <1>14 DEF IInv, IndexesDistinct
  <1>16. UsedIndexes' = UsedIndexes \cup {i}
    BY <1>1, <1>3, <1>13, <1>14 DEF UsedIndexes
  <1>17. BitmapExact'
    BY <1>4, <1>16 DEF BitmapExact
  <1>18. ListsMatch'
    <2>1. multi_vm' = [multi_vm EXCEPT ![i] = R] /\ multi_vm \in [Indexes -> SUBSET VMs]
      BY <1>1, <1>2 DEF IInv, TypeOK
    <2>2. ASSUME NEW c \in Buckets, NEW s \in Rows, Created(c, s)'
          PROVE  multi_grp'[c][s].multi_member_cnt = Cardinality(multi_vm'[IdxAt(c, s)'])
      <3>1. CASE c = b /\ s = r
        BY <1>1, <1>7, <1>13, <2>1, <3>1
      <3>2. CASE ~(c = b /\ s = r)
        BY <1>7, <1>13, <1>14, <2>1, <2>2, <3>2, ListOfRow
      <3>3. QED
        BY <3>1, <3>2
    <2>3. \A k \in Indexes : k \notin UsedIndexes' => multi_vm'[k] = {}
      BY <1>16, <2>1 DEF IInv, ListsMatch
    <2>4. QED
      BY <2>2, <2>3 DEF ListsMatch
  <1>19. QED
    BY <1>8, <1>12, <1>15, <1>17, <1>18 DEF IInv

LEMMA DeleteStep ==
  ASSUME IInv, NEW g \in Groups, DeleteFound(g)
  PROVE  IInv'
  <1> DEFINE b == mulit_hash_key[g]
  <1>1. PICK r \in Rows, last \in Rows :
          /\ ~spinning
          /\ FoundAt(g, r)
          /\ LastCreatedFrom(b, r, last)
          /\ multi_grp' = [multi_grp EXCEPT ![b] = RowRemoved(multi_grp[b], r, last)]
          /\ multi_vm' = [multi_vm EXCEPT ![IdxAt(b, r)] = {}]
          /\ bitmap' = bitmap \ {IdxAt(b, r)}
          /\ ret' = "ok"
          /\ UNCHANGED <<multi_stats, spinning>>
    BY DEF DeleteFound, Answer, Lock, IdxAt, PutIdx
  <1>2. b \in Buckets /\ Created(b, r)
    BY <1>1, ServerAssumption, FoundRow
  <1> DEFINE idx == IdxAt(b, r)
  <1>3. multi_grp \in [Buckets -> [Rows -> Node]] /\ multi_vm \in [Indexes -> SUBSET VMs]
        /\ idx \in Indexes
    BY <1>2, ListOfRow DEF IInv, TypeOK
  <1> HIDE DEF b
  <1>4. \A c \in Buckets, s \in Rows :
          multi_grp'[c][s] = IF c # b THEN multi_grp[c][s]
                             ELSE IF s = last THEN FreeNode
                             ELSE IF s = r THEN multi_grp[b][last]
                             ELSE multi_grp[b][s]
    BY <1>1, <1>2, <1>3 DEF RowRemoved
  <1>5. TypeOK'
    <2>1. multi_grp'[b] \in [Rows -> Node]
      BY <1>1, <1>2, <1>3, Sizes DEF RowRemoved
    <2>2. multi_grp' \in [Buckets -> [Rows -> Node]]
      BY <1>1, <1>2, <1>3, <2>1
    <2>3. multi_vm' \in [Indexes -> SUBSET VMs]
      BY <1>1, <1>3
    <2>4. QED
      BY <1>1, <2>2, <2>3 DEF IInv, TypeOK, Answers
  <1>6. /\ r <= last /\ Created(b, last)
        /\ \A k \in Rows : Created(b, k) => k <= last
    BY <1>1 DEF LastCreatedFrom, Created, Rows
  <1>7. WellPlaced(multi_grp)
    BY PlacedNow DEF IInv
  <1>8. FreeNode.created = 0
    BY DEF FreeNode
  <1>9. EveryGroupFound'
    <2>1. ASSUME NEW c \in Buckets, NEW s \in Rows
          PROVE  /\ multi_grp'[c][s].created # 1 => multi_grp'[c][s] = FreeNode
                 /\ multi_grp'[c][s].created = 1 =>
                      /\ multi_grp'[c][s].multi_ip \in Groups
                      /\ mulit_hash_key[multi_grp'[c][s].multi_ip] = c
                      /\ \A k \in Rows : k <= s => multi_grp'[c][k].created = 1
                      /\ \A k \in Rows : k < s => multi_grp'[c][k].multi_ip # multi_grp'[c][s].multi_ip
      <3>1. CASE c # b
        BY <1>4, <1>7, <3>1 DEF WellPlaced
      <3>2. CASE c = b /\ s >= last
        <4>1. multi_grp'[b][s] = FreeNode
          <5>1. CASE s = last
            BY <1>2, <1>4, <5>1
          <5>2. CASE s # last
            BY <1>2, <1>4, <1>6, <1>7, <3>2, <5>2 DEF WellPlaced, Created, Rows
          <5>3. QED
            BY <5>1, <5>2
        <4>2. QED
          BY <1>8, <3>2, <4>1
      <3>3. CASE c = b /\ s < last
        <4>1. /\ multi_grp'[b][s] = IF s = r THEN multi_grp[b][last] ELSE multi_grp[b][s]
              /\ \A k \in Rows : k <= s =>
                   multi_grp'[b][k] = IF k = r THEN multi_grp[b][last] ELSE multi_grp[b][k]
          BY <1>2, <1>4, <3>3 DEF Rows
        <4>2. \A k \in Rows : k <= s => multi_grp[b][k].created = 1
          BY <1>2, <1>6, <3>3, NoHoles DEF IInv, Created, Rows
        <4>3. \A k \in Rows : k <= s => multi_grp'[b][k].created = 1
          BY <1>6, <4>1, <4>2 DEF Created
        <4>4. /\ multi_grp'[b][s].multi_ip \in Groups
              /\ mulit_hash_key[multi_grp'[b][s].multi_ip] = b
          BY <1>2, <1>6, <1>7, <4>1, <4>2 DEF WellPlaced, Created, Rows
        <4>5. ASSUME NEW k \in Rows, k < s
              PROVE  multi_grp'[b][k].multi_ip # multi_grp'[b][s].multi_ip
          <5> DEFINE From(x) == IF x = r THEN last ELSE x
          <5>1. From(k) \in Rows /\ From(s) \in Rows /\ From(k) # From(s)
            BY <3>3, <4>5 DEF Rows
          <5>2. /\ multi_grp'[b][k] = multi_grp[b][From(k)]
                /\ multi_grp'[b][s] = multi_grp[b][From(s)]
            BY <4>1, <4>5 DEF Rows
          <5>3. Created(b, From(k)) /\ Created(b, From(s))
            BY <1>6, <4>2, <4>5 DEF Created, Rows
          <5>4. QED
            BY <1>2, <5>1, <5>2, <5>3, OneRow DEF IInv
        <4>6. QED
          <5>1. multi_grp'[b][s].created = 1
            BY <4>3 DEF Rows
          <5>2. QED
            BY <3>3, <4>3, <4>4, <4>5, <5>1
      <3>4. QED
        BY <3>1, <3>2, <3>3 DEF Rows
    <2>2. QED
      BY <2>1, PlacedNext DEF WellPlaced
  <1> DEFINE From(c, s) == IF c = b /\ s = r THEN last ELSE s
  <1>10. ASSUME NEW c \in Buckets, NEW s \in Rows, Created(c, s)'
         PROVE  /\ From(c, s) \in Rows /\ Created(c, From(c, s))
                /\ multi_grp'[c][s] = multi_grp[c][From(c, s)]
                /\ IdxAt(c, s)' = IdxAt(c, From(c, s))
                /\ IdxAt(c, s)' # idx
    <2>1. multi_grp'[c][s].created = 1
      BY <1>10 DEF Created
    <2>2. ~(c = b /\ s = last)
      BY <1>4, <1>8, <2>1
    <2>3. multi_grp'[c][s] = multi_grp[c][From(c, s)]
      BY <1>4, <2>2
    <2>4. From(c, s) \in Rows /\ Created(c, From(c, s)) /\ IdxAt(c, s)' = IdxAt(c, From(c, s))
      BY <2>1, <2>3 DEF Created, IdxAt
    <2>5. ~(c = b /\ From(c, s) = r)
      BY <2>2
    <2>6. IdxAt(c, From(c, s)) # idx
      BY <1>2, <2>4, <2>5 DEF IInv, IndexesDistinct
    <2>7. QED
      BY <2>3, <2>4, <2>6
  <1>11. IndexesDistinct'
    <2>1. SUFFICES ASSUME NEW c \in Buckets, NEW d \in Buckets, NEW s \in Rows, NEW t \in Rows,
                          Created(c, s)', Created(d, t)', IdxAt(c, s)' = IdxAt(d, t)'
                   PROVE  c = d /\ s = t
      BY DEF IndexesDistinct
    <2>2. c = d /\ From(c, s) = From(d, t)
      BY <1>10, <2>1 DEF IInv, IndexesDistinct
    <2>3. ~(c = b /\ s = last) /\ ~(d = b /\ t = last)
      BY <1>4, <1>8, <2>1 DEF Created
    <2>4. QED
      BY <2>2, <2>3
  <1>12. UsedIndexes' = UsedIndexes \ {idx}
    <2>1. ASSUME NEW i \in UsedIndexes' PROVE i \in UsedIndexes \ {idx}
      BY <1>10, <2>1 DEF UsedIndexes
    <2>2. ASSUME NEW i \in UsedIndexes, i # idx PROVE i \in UsedIndexes'
      <3>1. PICK c \in Buckets, s \in Rows : Created(c, s) /\ IdxAt(c, s) = i
        BY <2>2 DEF UsedIndexes
      <3>2. ~(c = b /\ s = r)
        BY <2>2, <3>1
      <3>3. CASE c = b /\ s = last
        <4>1. multi_grp'[b][r] = multi_grp[b][last]
          BY <1>2, <1>4, <3>2, <3>3
        <4>2. Created(b, r)' /\ IdxAt(b, r)' = i
          BY <3>1, <3>3, <4>1 DEF Created, IdxAt
        <4>3. QED
          BY <1>2, <2>2, <4>2 DEF UsedIndexes
      <3>4. CASE ~(c = b /\ s = last)
        <4>1. multi_grp'[c][s] = multi_grp[c][s]
          BY <1>4, <3>2, <3>4
        <4>2. Created(c, s)' /\ IdxAt(c, s)' = i
          BY <3>1, <4>1 DEF Created, IdxAt
        <4>3. QED
          BY <2>2, <4>2 DEF UsedIndexes
      <3>5. QED
        BY <3>3, <3>4
    <2>3. QED
      BY <2>1, <2>2
  <1>13. BitmapExact'
    BY <1>1, <1>12 DEF IInv, BitmapExact
  <1>14. ListsMatch'
    <2>1. ASSUME NEW c \in Buckets, NEW s \in Rows, Created(c, s)'
          PROVE  multi_grp'[c][s].multi_member_cnt = Cardinality(multi_vm'[IdxAt(c, s)'])
      <3>1. IdxAt(c, s)' \in Indexes
        BY <1>10, <2>1, ListOfRow
      <3>2. multi_vm'[IdxAt(c, s)'] = multi_vm[IdxAt(c, s)']
        BY <1>1, <1>3, <1>10, <2>1, <3>1
      <3>3. QED
        BY <1>10, <2>1, <3>2, ListOfRow
    <2>2. \A i \in Indexes : i \notin UsedIndexes' => multi_vm'[i] = {}
      BY <1>1, <1>3, <1>12 DEF IInv, ListsMatch
    <2>3. QED
      BY <2>1, <2>2 DEF ListsMatch
  <1>15. QED
    BY <1>5, <1>9, <1>11, <1>13, <1>14 DEF IInv

\* clear_multi_group visits every created row, because buckets have no holes.
LEMMA ClearedAll ==
  ASSUME IInv
  PROVE  /\ \A b \in Buckets, r \in Rows : r \in ClearedRows(b) <=> Created(b, r)
         /\ ClearedIndexes = UsedIndexes
  <1>1. ASSUME NEW b \in Buckets, NEW r \in Rows PROVE r \in ClearedRows(b) <=> Created(b, r)
    <2>1. r \in ClearedRows(b) => Created(b, r)
      BY DEF ClearedRows, Created, Rows
    <2>2. Created(b, r) => r \in ClearedRows(b)
      BY NoHoles DEF IInv, ClearedRows, Created
    <2>3. QED
      BY <2>1, <2>2
  <1>2. \A b \in Buckets : ClearedRows(b) \subseteq Rows
    BY DEF ClearedRows
  <1>3. ClearedIndexes = UsedIndexes
    BY <1>1, <1>2 DEF ClearedIndexes, UsedIndexes, IdxAt
  <1>4. QED
    BY <1>1, <1>3

LEMMA ClearedTable ==
  ASSUME IInv, Clear
  PROVE  /\ multi_grp' = [b \in Buckets |-> [r \in Rows |-> FreeNode]]
         /\ multi_vm' = [i \in Indexes |-> {}]
  <1>1. \A b \in Buckets, r \in Rows : ~Created(b, r) => multi_grp[b][r] = FreeNode
    BY DEF IInv, EveryGroupFound
  <1>2. multi_grp' = [b \in Buckets |-> [r \in Rows |-> FreeNode]]
    <2>1. multi_grp' = [b \in Buckets |->
            [r \in Rows |-> IF r \in ClearedRows(b) THEN FreeNode ELSE multi_grp[b][r]]]
      BY DEF Clear
    <2>2. \A b \in Buckets, r \in Rows :
            (IF r \in ClearedRows(b) THEN FreeNode ELSE multi_grp[b][r]) = FreeNode
      BY <1>1, ClearedAll
    <2>3. QED
      BY <2>1, <2>2
  <1>3. multi_vm' = [i \in Indexes |-> {}]
    <2>1. multi_vm' = [i \in Indexes |-> IF i \in UsedIndexes THEN {} ELSE multi_vm[i]]
      BY ClearedAll DEF Clear
    <2>2. QED
      BY <2>1 DEF IInv, ListsMatch
  <1>4. QED
    BY <1>2, <1>3

LEMMA ClearStep ==
  ASSUME IInv, Clear
  PROVE  IInv'
  <1>1. ~spinning /\ ret' = "ok" /\ UNCHANGED spinning
    BY DEF Clear, Answer, Lock
  <1>3. /\ multi_grp' = [b \in Buckets |-> [r \in Rows |-> FreeNode]]
        /\ multi_vm' = [i \in Indexes |-> {}]
    BY ClearedTable
  <1>4. \A b \in Buckets, r \in Rows : ~Created(b, r)' /\ multi_grp'[b][r] = FreeNode
    BY <1>3 DEF Created, FreeNode
  <1>5. bitmap' = {}
    BY <1>1, ClearedAll DEF Clear, IInv, BitmapExact
  <1>7. multi_stats' \in [Indexes -> Nat]
    BY DEF Clear, IInv, TypeOK
  <1>8. TypeOK'
    BY <1>1, <1>3, <1>5, <1>7, Sizes DEF IInv, TypeOK, Answers
  <1>9. UsedIndexes' = {}
    BY <1>4 DEF UsedIndexes
  <1>10. EveryGroupFound' /\ IndexesDistinct'
    BY <1>4 DEF EveryGroupFound, IndexesDistinct
  <1>11. BitmapExact' /\ ListsMatch'
    BY <1>3, <1>4, <1>5, <1>9 DEF BitmapExact, ListsMatch
  <1>12. QED
    BY <1>8, <1>10, <1>11 DEF IInv

\* A refused creation puts back the index it took: nobody else's bit.
LEMMA BucketFullStep ==
  ASSUME IInv, IndexesFit, NEW g \in Groups, CreateBucketFull(g)
  PROVE  IInv'
  <1>1. PICK i \in Indexes : GetIdx(i) /\ bitmap' = SetBit(i) \ {i}
    BY DEF CreateBucketFull
  <1>2. i < BitmapBits /\ i \notin bitmap
    BY <1>1, NewIndex DEF CreateBucketFull, Lock
  <1>3. bitmap' = bitmap
    BY <1>1, <1>2 DEF SetBit
  <1>4. QED
    BY <1>3, AnswerOnly DEF CreateBucketFull, Answer, Answers, Unchanged

LEMMA SpinStep ==
  ASSUME IInv, NEW g \in Groups, CreateSpins(g)
  PROVE  IInv'
  <1>1. PICK i \in Indexes : bitmap' = SetBit(i)
    BY DEF CreateSpins
  <1>2. bitmap' \subseteq Indexes
    BY <1>1 DEF IInv, TypeOK, SetBit
  <1>3. spinning' = TRUE /\ UNCHANGED <<multi_grp, multi_vm, multi_stats, ret>>
    BY DEF CreateSpins
  <1>4. TypeOK'
    BY <1>2, <1>3 DEF IInv, TypeOK
  <1>5. BitmapExact'
    BY <1>3 DEF BitmapExact
  <1>6. EveryGroupFound' /\ IndexesDistinct' /\ ListsMatch'
    BY <1>3, SameNodes DEF IInv
  <1>7. QED
    BY <1>4, <1>5, <1>6 DEF IInv

\* Next as its elementary steps.
LEMMA NextCases ==
  ASSUME Next
  PROVE  \/ \E g \in Groups, R \in Requests :
              \/ AppendToGroup(g, R)
              \/ AppendRefused(g, R)
              \/ CreateGroup(g, R)
              \/ Quit(g, R)
         \/ \E g \in Groups :
              \/ CreateNoIndex(g)
              \/ CreateBucketFull(g)
              \/ CreateSpins(g)
              \/ GroupMissing(g)
              \/ DeleteFound(g)
              \/ DeleteMissing(g)
              \/ ReadGroup(g)
         \/ Clear
  BY DEF Next, multi_nl_node_add, add_multi_node, vm_quit_from_multi_grp, append_vm_ip_list,
         del_multi_node, multi_nl_vm_list_get

LEMMA NextInv ==
  ASSUME IInv, IndexesFit, [Next]_tableVars
  PROVE  IInv'
  <1>1. CASE UNCHANGED tableVars
    <2>1. Unchanged /\ ret' \in Answers
      BY <1>1 DEF tableVars, Unchanged, IInv, TypeOK
    <2>2. QED
      BY <2>1, AnswerOnly
  <1>2. ASSUME NEW g \in Groups, NEW R \in Requests,
               \/ AppendToGroup(g, R)
               \/ AppendRefused(g, R)
               \/ CreateGroup(g, R)
               \/ Quit(g, R)
        PROVE  IInv'
    <2>1. CASE AppendToGroup(g, R)
      BY <2>1, AppendRelists, ListStep
    <2>2. CASE AppendRefused(g, R)
      BY <2>2, AnswerOnly DEF AppendRefused, Answer, Answers
    <2>3. CASE CreateGroup(g, R)
      BY <2>3, CreateStep
    <2>4. CASE Quit(g, R)
      BY <2>4, QuitRelists, ListStep
    <2>5. QED
      BY <1>2, <2>1, <2>2, <2>3, <2>4
  <1>3. ASSUME NEW g \in Groups,
               \/ CreateNoIndex(g)
               \/ CreateBucketFull(g)
               \/ CreateSpins(g)
               \/ GroupMissing(g)
               \/ DeleteFound(g)
               \/ DeleteMissing(g)
               \/ ReadGroup(g)
        PROVE  IInv'
    <2>1. CASE CreateNoIndex(g)
      BY <2>1, AnswerOnly DEF CreateNoIndex, Answer, Answers
    <2>2. CASE CreateBucketFull(g)
      BY <2>2, BucketFullStep
    <2>3. CASE CreateSpins(g)
      BY <2>3, SpinStep
    <2>4. CASE GroupMissing(g)
      BY <2>4, AnswerOnly DEF GroupMissing, Answer, Answers
    <2>5. CASE DeleteFound(g)
      BY <2>5, DeleteStep
    <2>6. CASE DeleteMissing(g)
      BY <2>6, AnswerOnly DEF DeleteMissing, Answer, Answers
    <2>7. CASE ReadGroup(g)
      BY <2>7, AnswerOnly DEF ReadGroup, Answer, Answers
    <2>8. QED
      BY <1>3, <2>1, <2>2, <2>3, <2>4, <2>5, <2>6, <2>7
  <1>4. CASE Clear
    BY <1>4, ClearStep
  <1>5. QED
    BY <1>1, <1>2, <1>3, <1>4, NextCases

-----------------------------------------------------------------------------
(* The row loop, and full buckets                                          *)

\* If the first n rows of its bucket are created while g is absent, the bucket holds n
\* groups, and g would be one more.
LEMMA FullBucket ==
  ASSUME IInv, IndexesFit, ~spinning, NEW g \in Groups, ~Exists(g),
         NEW i \in Indexes, GetIdx(i), NEW n \in Nat,
         \A r \in 0 .. n - 1 : r \in Rows /\ Created(mulit_hash_key[g], r)
  PROVE  n < GroupsAtOnce
  <1> DEFINE b == mulit_hash_key[g]
             Others == Groups \ {g}
             Ip == [r \in 0 .. n - 1 |-> multi_grp[b][r].multi_ip]
             Idx == [r \in 0 .. n - 1 |-> IdxAt(b, r)]
  <1>1. b \in Buckets
    BY ServerAssumption
  <1>2. \A r \in 0 .. n - 1 : r \in Rows /\ Created(b, r)
    OBVIOUS
  <1>3. i \notin UsedIndexes
    BY NewIndex DEF IInv, BitmapExact
  <1>4. n <= Cardinality(Groups) - 1
    <2>1. IsFiniteSet(Others) /\ Cardinality(Others) = Cardinality(Groups) - 1
      BY ServerAssumption, FS_RemoveElement
    <2>2. \A r \in 0 .. n - 1 : multi_grp[b][r].multi_ip \in Others
      BY <1>1, <1>2, NotFoundNotCreated, CreatedFound DEF IInv
    <2>3. Ip \in [0 .. n - 1 -> Others]
      BY <2>2
    <2>4. \A q, r \in 0 .. n - 1 : Ip[q] = Ip[r] => q = r
      BY <1>1, <1>2, OneRow DEF IInv
    <2> HIDE DEF Ip, Others
    <2>5. QED
      BY <2>1, <2>3, <2>4, Pigeons, Sizes
  <1>5. n <= GrpMax - 1
    <2>1. IsFiniteSet(Indexes) /\ Cardinality(Indexes) = GrpMax
      BY Sizes, FS_Interval DEF Indexes
    <2>2. IsFiniteSet(Indexes \ {i}) /\ Cardinality(Indexes \ {i}) = GrpMax - 1
      BY <2>1, FS_RemoveElement
    <2>3. \A r \in 0 .. n - 1 : IdxAt(b, r) \in Indexes \ {i}
      <3>1. \A r \in 0 .. n - 1 : IdxAt(b, r) \in Indexes
        BY <1>1, <1>2, ListOfRow
      <3>2. QED
        BY <1>1, <1>2, <1>3, <3>1 DEF UsedIndexes
    <2>4. Idx \in [0 .. n - 1 -> Indexes \ {i}]
      BY <2>3
    <2>5. \A q, r \in 0 .. n - 1 : Idx[q] = Idx[r] => q = r
      BY <1>1, <1>2 DEF IInv, IndexesDistinct
    <2> HIDE DEF Idx
    <2>6. QED
      BY <2>2, <2>4, <2>5, Pigeons, Sizes
  <1>6. QED
    BY <1>4, <1>5, CardGroups, Sizes DEF GroupsAtOnce

\* The uint8_t counter never goes round: fewer groups than it has values are in the bucket.
LEMMA NoSpinStep ==
  ASSUME IInv, IndexesFit, RowsFit, NEW g \in Groups, CreateSpins(g)
  PROVE  FALSE
  <1>1. PICK i \in Indexes : GetIdx(i)
    BY DEF CreateSpins
  <1>2. ~spinning /\ ~Exists(g) /\ RowMod <= GrpDepth /\ NoFreeRow(mulit_hash_key[g])
    BY DEF CreateSpins, Lock
  <1>3. \A r \in 0 .. RowMod - 1 : r \in Rows /\ Created(mulit_hash_key[g], r)
    BY <1>2, Sizes DEF NoFreeRow, ScannedRows, Rows, Created
  <1>4. RowMod < GroupsAtOnce
    BY <1>1, <1>2, <1>3, FullBucket, Sizes
  <1>5. GroupsAtOnce <= RowMod
    BY <1>2, Sizes DEF RowsFit
  <1>6. QED
    BY <1>4, <1>5, CardGroups, Sizes

\* Where a bucket has a row for every group, no addition finds its bucket full.
LEMMA NoBucketFull ==
  ASSUME IInv, IndexesFit, RoomInBuckets, NEW g \in Groups, CreateBucketFull(g)
  PROVE  FALSE
  <1>1. PICK i \in Indexes : GetIdx(i)
    BY DEF CreateBucketFull
  <1>2. ~spinning /\ ~Exists(g) /\ GrpDepth < RowMod /\ NoFreeRow(mulit_hash_key[g])
    BY DEF CreateBucketFull, Lock
  <1>3. \A r \in 0 .. GrpDepth - 1 : r \in Rows /\ Created(mulit_hash_key[g], r)
    BY <1>2, Sizes DEF NoFreeRow, ScannedRows, Rows, Created
  <1>4. GrpDepth < GroupsAtOnce
    BY <1>1, <1>2, <1>3, FullBucket, Sizes
  <1>5. QED
    BY <1>4, CardGroups, Sizes DEF RoomInBuckets

LEMMA NoSpinNext ==
  ASSUME IInv, IndexesFit, RowsFit, NeverSpins, [Next]_tableVars
  PROVE  NeverSpins'
  <1>1. CASE UNCHANGED tableVars
    BY <1>1 DEF tableVars, NeverSpins
  <1>2. ASSUME NEW g \in Groups, CreateSpins(g) PROVE FALSE
    BY <1>2, NoSpinStep
  <1>3. CASE Next
    BY <1>2, <1>3, NextCases DEF NeverSpins, AppendToGroup, AppendRefused, CreateGroup, Quit,
       CreateNoIndex, CreateBucketFull, GroupMissing, DeleteFound, DeleteMissing, ReadGroup,
       Clear, Unchanged
  <1>4. QED
    BY <1>1, <1>3

-----------------------------------------------------------------------------
(* Refusals                                                                *)

\* No index is free only if all are in use: while g is absent the other groups, being
\* fewer than the bits of the word, cannot use them all.
LEMMA NoIndexAllUsed ==
  ASSUME IInv, IndexesFit, NEW g \in Groups, CreateNoIndex(g)
  PROVE  Cardinality(UsedIndexes) = GrpMax
  <1>1. ~spinning /\ ~Exists(g) /\ bitmap = UsedIndexes
    BY DEF CreateNoIndex, Lock, IInv, BitmapExact
  <1>2. \A k \in Nat : k < GrpMax /\ k < BitmapBits => k \in bitmap
    BY Sizes DEF CreateNoIndex, FreeBits, Indexes
  <1>3. CASE GrpMax <= BitmapBits
    <2>1. UsedIndexes = 0 .. GrpMax - 1
      BY <1>1, <1>2, <1>3, Sizes DEF UsedIndexes, Indexes
    <2>2. QED
      BY <2>1, Sizes, FS_Interval
  <1>4. CASE BitmapBits < GrpMax
    <2>1. GroupsAtOnce = Cardinality(Groups) /\ Cardinality(Groups) <= BitmapBits
      BY <1>4, Sizes, CardGroups DEF IndexesFit, GroupsAtOnce
    <2>2. \A k \in 0 .. Cardinality(Groups) - 1 : k \in bitmap
      BY <1>2, <1>4, <2>1, Sizes, CardGroups
    <2>3. QED
      BY <1>1, <2>2, SomeIndexFree, CardGroups
  <1>5. QED
    BY <1>3, <1>4, Sizes

-----------------------------------------------------------------------------
(* The table implements the group service                                  *)

\* Group g is in row r of its bucket.
Holds(g, r) ==
  Created(mulit_hash_key[g], r) /\ multi_grp[mulit_hash_key[g]][r].multi_ip = g

\* A lookup finds the one row that holds g; a group's members are the list of that row.
LookupFacts ==
  /\ \A g \in Groups, r \in Rows : FoundAt(g, r) <=> Holds(g, r)
  /\ \A g \in Groups, r, s \in Rows : Holds(g, r) /\ Holds(g, s) => r = s
  /\ \A g \in Groups : Exists(g) <=> \E r \in Rows : Holds(g, r)
  /\ \A g \in Groups, r \in Rows :
       Holds(g, r) => Members(g) = multi_vm[IdxAt(mulit_hash_key[g], r)]
  /\ \A g \in Groups : ~Exists(g) => Members(g) = {}

LEMMA LookupNow == EveryGroupFound => LookupFacts
  <1> SUFFICES ASSUME EveryGroupFound PROVE LookupFacts
    OBVIOUS
  <1>1. \A g \in Groups, r \in Rows : FoundAt(g, r) <=> Holds(g, r)
    BY CreatedFound, FoundRow, ServerAssumption DEF Holds
  <1>2. \A g \in Groups, r, s \in Rows : Holds(g, r) /\ Holds(g, s) => r = s
    BY <1>1, FoundRow
  <1>3. ASSUME NEW g \in Groups, NEW r \in Rows, Holds(g, r)
        PROVE  Members(g) = multi_vm[IdxAt(mulit_hash_key[g], r)]
    <2>1. {k \in Rows : FoundAt(g, k)} = {r}
      BY <1>1, <1>2, <1>3
    <2>2. Members(g) = UNION {multi_vm[IdxAt(mulit_hash_key[g], k)] : k \in {r}}
      BY <2>1 DEF Members
    <2>3. QED
      BY <2>2
  <1>4. ASSUME NEW g \in Groups, ~Exists(g) PROVE Members(g) = {}
    <2>1. {k \in Rows : FoundAt(g, k)} = {}
      BY <1>4 DEF Exists
    <2>2. QED
      BY <2>1 DEF Members
  <1>5. \A g \in Groups : Exists(g) <=> \E r \in Rows : Holds(g, r)
    BY <1>1 DEF Exists
  <1>6. QED
    BY <1>1, <1>2, <1>3, <1>4, <1>5 DEF LookupFacts

LEMMA LookupNext == EveryGroupFound' => LookupFacts'
  BY LookupNow, PTL

\* What the administrator sees is unchanged by a step that leaves nodes and lists alone.
LEMMA SameView ==
  ASSUME UNCHANGED <<multi_grp, multi_vm>>
  PROVE  \A h \in Groups : (Exists(h)' <=> Exists(h)) /\ Members(h)' = Members(h)
  BY DEF Exists, Members, FoundAt, IdxAt

LEMMA RelistedView ==
  ASSUME IInv, IInv', NEW g \in Groups, NEW r \in Rows, NEW L, Relisted(g, r, L)
  PROVE  /\ Exists(g) /\ Members(g) = multi_vm[IdxAt(mulit_hash_key[g], r)]
         /\ \A h \in Groups : /\ (Exists(h)' <=> Exists(h))
                              /\ Members(h)' = IF h = g THEN L ELSE Members(h)
  <1> DEFINE B(h) == mulit_hash_key[h]
  <1>1. LookupFacts /\ LookupFacts'
    BY LookupNow, LookupNext DEF IInv
  <1>2. Holds(g, r) /\ B(g) \in Buckets
    BY <1>1, ServerAssumption DEF Relisted, LookupFacts
  <1>3. Exists(g) /\ Members(g) = multi_vm[IdxAt(B(g), r)]
    BY <1>1, <1>2 DEF LookupFacts
  <1>4. multi_grp \in [Buckets -> [Rows -> Node]] /\ multi_vm \in [Indexes -> SUBSET VMs]
    BY DEF IInv, TypeOK
  <1>5. \A c \in Buckets, s \in Rows :
          /\ multi_grp'[c][s].created = multi_grp[c][s].created
          /\ multi_grp'[c][s].multi_ip = multi_grp[c][s].multi_ip
          /\ multi_grp'[c][s].multi_grp_idx = multi_grp[c][s].multi_grp_idx
    BY <1>2, <1>4 DEF Relisted, Node
  <1>6. \A h \in Groups, s \in Rows :
          (Holds(h, s)' <=> Holds(h, s)) /\ IdxAt(B(h), s)' = IdxAt(B(h), s)
    BY <1>5, ServerAssumption DEF Holds, Created, IdxAt
  <1>7. \A h \in Groups : (Exists(h)' <=> Exists(h))
    BY <1>1, <1>6 DEF LookupFacts
  <1>8. ASSUME NEW h \in Groups PROVE Members(h)' = IF h = g THEN L ELSE Members(h)
    <2>1. CASE ~Exists(h)
      <3>1. Members(h)' = {} /\ Members(h) = {} /\ h # g
        BY <1>1, <1>3, <1>7, <2>1 DEF LookupFacts
      <3>2. QED
        BY <3>1
    <2>2. CASE Exists(h)
      <3>1. PICK s \in Rows : Holds(h, s)
        BY <1>1, <2>2 DEF LookupFacts
      <3>2. Members(h) = multi_vm[IdxAt(B(h), s)] /\ Members(h)' = multi_vm'[IdxAt(B(h), s)]
        BY <1>1, <1>6, <3>1 DEF LookupFacts
      <3>3. B(h) \in Buckets /\ IdxAt(B(h), s) \in Indexes /\ Created(B(h), s)
        BY <3>1, ServerAssumption, ListOfRow DEF Holds
      <3>4. CASE h = g
        <4>1. s = r
          BY <1>1, <1>2, <3>1, <3>4 DEF LookupFacts
        <4>2. QED
          BY <1>4, <3>2, <3>3, <3>4, <4>1 DEF Relisted
      <3>5. CASE h # g
        <4>1. IdxAt(B(h), s) # IdxAt(B(g), r)
          BY <1>2, <3>1, <3>3, <3>5 DEF IInv, IndexesDistinct, Holds
        <4>2. QED
          BY <1>4, <3>2, <3>3, <3>5, <4>1 DEF Relisted
      <3>6. QED
        BY <3>4, <3>5
    <2>3. QED
      BY <2>1, <2>2
  <1>9. QED
    BY <1>3, <1>7, <1>8

LEMMA CreatedView ==
  ASSUME IInv, IInv', IndexesFit, NEW g \in Groups, NEW R \in Requests, CreateGroup(g, R)
  PROVE  \A h \in Groups : /\ Exists(h)' <=> (h = g \/ Exists(h))
                           /\ Members(h)' = IF h = g THEN R ELSE Members(h)
  <1> DEFINE B(h) == mulit_hash_key[h]
             new(i) == [multi_ip |-> g, multi_member_cnt |-> Cardinality(R),
                        multi_grp_idx |-> i, created |-> 1]
  <1>1. PICK i \in Indexes, r \in Rows :
          /\ ~spinning /\ ~Exists(g)
          /\ GetIdx(i)
          /\ FirstFreeRow(B(g), r)
          /\ multi_grp' = [multi_grp EXCEPT ![B(g)][r] = new(Uint8(i))]
          /\ multi_vm' = [multi_vm EXCEPT ![Uint8(i)] = R]
    BY DEF CreateGroup, Lock
  <1>2. Uint8(i) = i /\ i \notin UsedIndexes
    BY <1>1, NewIndex DEF IInv, BitmapExact
  <1>3. multi_grp \in [Buckets -> [Rows -> Node]] /\ multi_vm \in [Indexes -> SUBSET VMs]
        /\ \A h \in Groups : B(h) \in Buckets
    BY ServerAssumption DEF IInv, TypeOK
  <1>4. LookupFacts /\ LookupFacts'
    BY LookupNow, LookupNext DEF IInv
  <1>5. Holds(g, r)' /\ IdxAt(B(g), r)' = i
    BY <1>1, <1>2, <1>3 DEF Holds, Created, IdxAt
  <1>6. Exists(g)' /\ Members(g)' = R
    BY <1>1, <1>2, <1>3, <1>4, <1>5 DEF LookupFacts
  <1>7. ASSUME NEW h \in Groups, h # g
        PROVE  (Exists(h)' <=> Exists(h)) /\ Members(h)' = Members(h)
    <2>1. ~Created(B(g), r)
      BY <1>1 DEF FirstFreeRow, Created
    <2>2. \A s \in Rows : B(h) = B(g) /\ s = r => ~Holds(h, s) /\ ~Holds(h, s)'
      BY <1>5, <1>7, <2>1 DEF Holds
    <2>3. \A s \in Rows : ~(B(h) = B(g) /\ s = r) => multi_grp'[B(h)][s] = multi_grp[B(h)][s]
      BY <1>1, <1>3
    <2>4. \A s \in Rows : /\ Holds(h, s)' <=> Holds(h, s)
                          /\ Holds(h, s) => IdxAt(B(h), s)' = IdxAt(B(h), s)
      BY <2>2, <2>3 DEF Holds, Created, IdxAt
    <2>5. Exists(h)' <=> Exists(h)
      BY <1>4, <2>4 DEF LookupFacts
    <2>6. CASE ~Exists(h)
      BY <1>4, <2>5, <2>6 DEF LookupFacts
    <2>7. CASE Exists(h)
      <3>1. PICK s \in Rows : Holds(h, s)
        BY <1>4, <2>7 DEF LookupFacts
      <3>2. IdxAt(B(h), s) \in Indexes /\ IdxAt(B(h), s) # i
        BY <1>2, <1>3, <3>1, ListOfRow DEF Holds, UsedIndexes
      <3>3. Members(h) = multi_vm[IdxAt(B(h), s)] /\ Members(h)' = multi_vm'[IdxAt(B(h), s)]
        BY <1>4, <2>4, <3>1 DEF LookupFacts
      <3>4. QED
        BY <1>1, <1>2, <1>3, <2>5, <3>2, <3>3
    <2>8. QED
      BY <2>6, <2>7
  <1>8. QED
    BY <1>6, <1>7

LEMMA DeletedView ==
  ASSUME IInv, IInv', NEW g \in Groups, DeleteFound(g)
  PROVE  \A h \in Groups : /\ Exists(h)' <=> (h # g /\ Exists(h))
                           /\ Members(h)' = IF h = g THEN {} ELSE Members(h)
  <1> DEFINE B(h) == mulit_hash_key[h]
  <1>1. PICK r \in Rows, last \in Rows :
          /\ FoundAt(g, r)
          /\ LastCreatedFrom(B(g), r, last)
          /\ multi_grp' = [multi_grp EXCEPT ![B(g)] = RowRemoved(multi_grp[B(g)], r, last)]
          /\ multi_vm' = [multi_vm EXCEPT ![IdxAt(B(g), r)] = {}]
    BY DEF DeleteFound, IdxAt
  <1>2. multi_grp \in [Buckets -> [Rows -> Node]] /\ multi_vm \in [Indexes -> SUBSET VMs]
        /\ \A h \in Groups : B(h) \in Buckets
    BY ServerAssumption DEF IInv, TypeOK
  <1>3. LookupFacts /\ LookupFacts'
    BY LookupNow, LookupNext DEF IInv
  <1>4. Holds(g, r)
    BY <1>1, <1>3 DEF LookupFacts
  <1>5. \A c \in Buckets, s \in Rows :
          multi_grp'[c][s] = IF c # B(g) THEN multi_grp[c][s]
                             ELSE IF s = last THEN FreeNode
                             ELSE IF s = r THEN multi_grp[B(g)][last]
                             ELSE multi_grp[B(g)][s]
    BY <1>1, <1>2 DEF RowRemoved
  <1>6. ASSUME NEW h \in Groups, NEW s \in Rows, Holds(h, s)'
        PROVE  h # g /\ \E t \in Rows : Holds(h, t) /\ IdxAt(B(h), s)' = IdxAt(B(h), t)
    <2> DEFINE t == IF B(h) = B(g) /\ s = r THEN last ELSE s
    <2>1. ~(B(h) = B(g) /\ s = last)
      BY <1>2, <1>5, <1>6 DEF Holds, Created, FreeNode
    <2>2. multi_grp'[B(h)][s] = multi_grp[B(h)][t]
      BY <1>2, <1>5, <2>1
    <2>3. t \in Rows /\ Holds(h, t) /\ IdxAt(B(h), s)' = IdxAt(B(h), t)
      BY <1>6, <2>2 DEF Holds, Created, IdxAt
    <2>4. h # g
      BY <1>3, <1>4, <2>1, <2>3 DEF LookupFacts
    <2>5. QED
      BY <2>3, <2>4
  <1>7. ASSUME NEW h \in Groups, h # g, NEW t \in Rows, Holds(h, t)
        PROVE  \E s \in Rows : Holds(h, s)' /\ IdxAt(B(h), s)' = IdxAt(B(h), t)
    <2> DEFINE s == IF B(h) = B(g) /\ t = last THEN r ELSE t
    <2>1. ~(B(h) = B(g) /\ t = r)
      BY <1>4, <1>7 DEF Holds
    <2>2. multi_grp'[B(h)][s] = multi_grp[B(h)][t]
      BY <1>2, <1>5, <2>1
    <2>3. QED
      BY <1>7, <2>2 DEF Holds, Created, IdxAt
  <1>8. \A h \in Groups : Exists(h)' <=> (h # g /\ Exists(h))
    BY <1>3, <1>6, <1>7 DEF LookupFacts
  <1>9. ASSUME NEW h \in Groups PROVE Members(h)' = IF h = g THEN {} ELSE Members(h)
    <2>1. CASE h = g \/ ~Exists(h)
      BY <1>3, <1>8, <2>1 DEF LookupFacts
    <2>2. CASE h # g /\ Exists(h)
      <3>1. PICK t \in Rows : Holds(h, t)
        BY <1>3, <2>2 DEF LookupFacts
      <3>2. PICK s \in Rows : Holds(h, s)' /\ IdxAt(B(h), s)' = IdxAt(B(h), t)
        BY <1>7, <2>2, <3>1
      <3>3. Members(h) = multi_vm[IdxAt(B(h), t)] /\ Members(h)' = multi_vm'[IdxAt(B(h), t)]
        BY <1>3, <3>1, <3>2 DEF LookupFacts
      <3>4. IdxAt(B(h), t) \in Indexes /\ IdxAt(B(h), t) # IdxAt(B(g), r)
        <4>1. Created(B(h), t) /\ Created(B(g), r) /\ ~(B(h) = B(g) /\ t = r)
          BY <1>4, <2>2, <3>1 DEF Holds
        <4>2. QED
          BY <1>2, <4>1, ListOfRow DEF IInv, IndexesDistinct
      <3>5. QED
        BY <1>1, <1>2, <2>2, <3>3, <3>4
    <2>3. QED
      BY <2>1, <2>2
  <1>10. QED
    BY <1>8, <1>9

LEMMA ClearedView ==
  ASSUME IInv, IInv', Clear
  PROVE  \A h \in Groups : ~Exists(h)' /\ Members(h)' = {}
  <1>1. \A b \in Buckets, r \in Rows : ~Created(b, r)'
    BY ClearedTable DEF Created, FreeNode
  <1>2. LookupFacts'
    BY LookupNext DEF IInv
  <1>3. QED
    BY <1>1, <1>2, ServerAssumption DEF LookupFacts, Holds

\* The abstract state of a step, from what it does to each group.
LEMMA InitAbs == Init => Abstract!AbsInit
  <1> SUFFICES ASSUME Init PROVE Abstract!AbsInit
    OBVIOUS
  <1>1. EveryGroupFound
    BY InitInv DEF IInv
  <1>2. \A g \in Groups, r \in Rows : ~Holds(g, r)
    BY ServerAssumption DEF Init, Holds, Created, FreeNode
  <1>3. \A g \in Groups : ~Exists(g) /\ Members(g) = {}
    BY <1>1, <1>2, LookupNow DEF LookupFacts
  <1>4. QED
    BY <1>3 DEF Abstract!AbsInit, Init

LEMMA SameCardinality == \A S : Abstract!Cardinality(S) = Cardinality(S)
  BY DEF Abstract!Cardinality, Cardinality, Abstract!IsFiniteSet, IsFiniteSet

LEMMA SameRequests == Abstract!Requests = Requests
  BY SameCardinality DEF Abstract!Requests, Requests

LEMMA AnswerAbs ==
  ASSUME UNCHANGED <<multi_grp, multi_vm>>
  PROVE  /\ UNCHANGED {g \in Groups : Exists(g)}
         /\ UNCHANGED [g \in Groups |-> Members(g)]
  BY SameView

\* As many groups exist as indexes are in use: a group has an index, and no other has it.
LEMMA GroupsHaveIndexes ==
  ASSUME IInv
  PROVE  Cardinality({g \in Groups : Exists(g)}) = Cardinality(UsedIndexes)
  <1> DEFINE G == {g \in Groups : Exists(g)}
             HasIdx(g, k) == \E r \in Rows : Holds(g, r) /\ IdxAt(mulit_hash_key[g], r) = k
             IdxOf == [g \in G |-> CHOOSE k \in UsedIndexes : HasIdx(g, k)]
  <1>1. ASSUME NEW g \in G PROVE \E k \in UsedIndexes : HasIdx(g, k)
    <2>1. PICK r \in Rows : Holds(g, r)
      BY LookupNow DEF IInv, LookupFacts
    <2>2. mulit_hash_key[g] \in Buckets /\ Created(mulit_hash_key[g], r)
      BY <2>1, ServerAssumption DEF Holds
    <2>3. IdxAt(mulit_hash_key[g], r) \in UsedIndexes
      BY <2>2, ListOfRow DEF UsedIndexes
    <2>4. QED
      BY <2>1, <2>3
  <1>2. \A g \in G : IdxOf[g] \in UsedIndexes /\ HasIdx(g, IdxOf[g])
    BY <1>1
  <1>3. ASSUME NEW g \in G, NEW h \in G, IdxOf[g] = IdxOf[h] PROVE g = h
    <2>1. PICK r \in Rows : Holds(g, r) /\ IdxAt(mulit_hash_key[g], r) = IdxOf[g]
      BY <1>2
    <2>2. PICK s \in Rows : Holds(h, s) /\ IdxAt(mulit_hash_key[h], s) = IdxOf[g]
      BY <1>2, <1>3
    <2>3. mulit_hash_key[g] \in Buckets /\ mulit_hash_key[h] \in Buckets
      BY ServerAssumption
    <2>4. mulit_hash_key[g] = mulit_hash_key[h] /\ r = s
      BY <2>1, <2>2, <2>3 DEF Holds, IInv, IndexesDistinct
    <2>5. QED
      BY <2>1, <2>2, <2>4 DEF Holds
  <1>4. ASSUME NEW k \in UsedIndexes PROVE \E g \in G : IdxOf[g] = k
    <2>1. PICK b \in Buckets, r \in Rows : Created(b, r) /\ IdxAt(b, r) = k
      BY DEF UsedIndexes
    <2>2. PICK g : g = multi_grp[b][r].multi_ip
      OBVIOUS
    <2>3. g \in Groups /\ mulit_hash_key[g] = b /\ FoundAt(g, r)
      BY <2>1, <2>2, CreatedFound DEF IInv
    <2>4. g \in G /\ Holds(g, r)
      BY <2>1, <2>2, <2>3 DEF Exists, Holds
    <2>5. PICK s \in Rows : Holds(g, s) /\ IdxAt(b, s) = IdxOf[g]
      BY <1>2, <2>3, <2>4
    <2>6. r = s
      BY <2>3, <2>4, <2>5, LookupNow DEF IInv, LookupFacts
    <2>7. QED
      BY <2>1, <2>4, <2>5, <2>6
  <1> HIDE DEF G, HasIdx
  <1>5. IdxOf \in Injection(G, UsedIndexes) /\ IdxOf \in Surjection(G, UsedIndexes)
    <2>1. IdxOf \in [G -> UsedIndexes]
      BY <1>2
    <2> HIDE DEF IdxOf
    <2>2. IdxOf \in Injection(G, UsedIndexes)
      BY <1>3, <2>1 DEF Injection, IsInjective
    <2>3. IdxOf \in Surjection(G, UsedIndexes)
      BY <1>4, <2>1 DEF Surjection
    <2>4. QED
      BY <2>2, <2>3
  <1> HIDE DEF IdxOf
  <1>6. IsFiniteSet(UsedIndexes)
    <2>1. IsFiniteSet(Indexes)
      BY Sizes, FS_Interval DEF Indexes
    <2>2. UsedIndexes \in SUBSET Indexes
      BY DEF UsedIndexes
    <2>3. QED
      BY <2>1, <2>2, FS_Subset
  <1>7. QED
    BY <1>5, <1>6, FS_Injection DEF G

\* An index that can be had is one that no group has.
LEMMA IndexMeansRoom ==
  ASSUME IInv, IndexesFit, ~spinning, NEW g \in Groups, ~Exists(g), NEW i \in Indexes, GetIdx(i)
  PROVE  Cardinality({h \in Groups : Exists(h)}) < GrpMax
  <1>1. i \notin UsedIndexes
    BY NewIndex DEF IInv, BitmapExact
  <1>2. IsFiniteSet(Indexes) /\ Cardinality(Indexes) = GrpMax
    BY Sizes, FS_Interval DEF Indexes
  <1>3. UsedIndexes \in SUBSET Indexes /\ UsedIndexes # Indexes
    BY <1>1 DEF UsedIndexes
  <1>4. IsFiniteSet(UsedIndexes) /\ Cardinality(UsedIndexes) <= GrpMax /\ Cardinality(UsedIndexes) # GrpMax
    BY <1>2, <1>3, FS_Subset
  <1>5. QED
    BY <1>4, GroupsHaveIndexes, FS_CardinalityType, Sizes

\* What a step on the table is to those it serves: the exact service, but for an addition
\* that finds its bucket full.
LEMMA NextService ==
  ASSUME IInv, IInv', IndexesFit, [Next]_tableVars
  PROVE  \/ UNCHANGED Abstract!absVars
         \/ Abstract!ExactNext
         \/ \E g \in Groups : CreateBucketFull(g) /\ Abstract!AbsJoinRefused(g, {})
  <1> DEFINE G == {g \in Groups : Exists(g)}
             M == [g \in Groups |-> Members(g)]
  <1>1. CASE UNCHANGED tableVars
    BY <1>1, AnswerAbs DEF tableVars, Abstract!absVars
  <1>2. ASSUME NEW g \in Groups, NEW R \in Requests, AppendToGroup(g, R)
        PROVE  Abstract!ExactJoin(g, R)
    <2>1. PICK r \in Rows : Relisted(g, r, multi_vm[IdxAt(mulit_hash_key[g], r)] \cup R)
      BY <1>2, AppendRelists
    <2>2. Relisted(g, r, M[g] \cup R) /\ g \in G
      BY <2>1, RelistedView
    <2>3. G' = G /\ M' = [M EXCEPT ![g] = @ \cup R]
      BY <2>2, RelistedView
    <2>4. Cardinality(M[g] \cup R) <= VmMax /\ ret' = "ok"
      BY <2>2, Sizes DEF Relisted
    <2>5. Abstract!AbsJoin(g, R)
      BY <2>2, <2>3, <2>4, SameCardinality DEF Abstract!AbsJoin
    <2>6. PICK s \in Rows : FoundAt(g, s) /\ Fits(R, multi_grp[mulit_hash_key[g]][s].multi_member_cnt)
      BY <1>2 DEF AppendToGroup
    <2>7. Holds(g, s) /\ M[g] = multi_vm[IdxAt(mulit_hash_key[g], s)]
      BY <2>6, LookupNow DEF IInv, LookupFacts
    <2>8. Cardinality(R) + Cardinality(M[g]) <= VmMax
      BY <2>6, <2>7, ListOfRow, ServerAssumption, RequestFinite DEF Holds, Fits
    <2>9. Abstract!HasRoom(g, R)
      BY <2>2, <2>8, SameCardinality DEF Abstract!HasRoom, Abstract!Fits
    <2>10. QED
      BY <2>5, <2>9 DEF Abstract!ExactJoin
  <1>3. ASSUME NEW g \in Groups, NEW R \in Requests, AppendRefused(g, R)
        PROVE  Abstract!ExactJoinRefused(g, R)
    <2>1. PICK r \in Rows : FoundAt(g, r) /\ ~Fits(R, multi_grp[mulit_hash_key[g]][r].multi_member_cnt)
      BY <1>3 DEF AppendRefused
    <2>2. Holds(g, r) /\ g \in G /\ M[g] = multi_vm[IdxAt(mulit_hash_key[g], r)]
      BY <2>1, LookupNow DEF IInv, LookupFacts
    <2>3. Cardinality(R) + Cardinality(M[g]) > VmMax
      BY <2>1, <2>2, ListOfRow, ServerAssumption, RequestFinite DEF Holds, Fits
    <2>4. ret' = "MULTI_PARAM_ERROR" /\ G' = G /\ M' = M
      BY <1>3, AnswerAbs DEF AppendRefused, Answer, Unchanged
    <2>5. Abstract!AbsJoinRefused(g, R)
      BY <2>2, <2>3, <2>4, SameCardinality DEF Abstract!AbsJoinRefused
    <2>6. Cardinality(R) + Cardinality(M[g]) \in Nat /\ VmMax \in Nat
      BY <2>2, ListOfRow, ServerAssumption, RequestFinite, FS_CardinalityType DEF Holds
    <2>7. ~(Cardinality(R) + Cardinality(M[g]) <= VmMax)
      BY <2>3, <2>6
    <2>8. ~Abstract!HasRoom(g, R)
      BY <2>2, <2>7, SameCardinality DEF Abstract!HasRoom, Abstract!Fits
    <2>9. QED
      BY <2>5, <2>8 DEF Abstract!ExactJoinRefused
  <1>4. ASSUME NEW g \in Groups, NEW R \in Requests, CreateGroup(g, R)
        PROVE  Abstract!ExactJoin(g, R)
    <2>1. M[g] = {}
      BY <1>4, LookupNow DEF CreateGroup, IInv, LookupFacts
    <2>2. G' = G \cup {g}
      BY <1>4, CreatedView
    <2>3. M' = [M EXCEPT ![g] = @ \cup R]
      BY <1>4, <2>1, CreatedView
    <2>4. Cardinality(M[g] \cup R) <= VmMax
      BY <2>1, RequestFinite
    <2>5. ret' = "ok"
      BY <1>4 DEF CreateGroup, Answer
    <2>6. Abstract!AbsJoin(g, R)
      BY <2>2, <2>3, <2>4, <2>5, SameCardinality DEF Abstract!AbsJoin
    <2>7. PICK i \in Indexes : GetIdx(i)
      BY <1>4 DEF CreateGroup
    <2>8. g \notin G /\ Cardinality(G) < GrpMax
      BY <1>4, <2>7, IndexMeansRoom DEF CreateGroup, Lock
    <2>9. Abstract!HasRoom(g, R)
      BY <2>8, SameCardinality DEF Abstract!HasRoom
    <2>10. QED
      BY <2>6, <2>9 DEF Abstract!ExactJoin
  <1>5. ASSUME NEW g \in Groups, NEW R \in Requests, Quit(g, R)
        PROVE  Abstract!AbsQuit(g, R)
    <2>1. PICK r \in Rows : Relisted(g, r, multi_vm[IdxAt(mulit_hash_key[g], r)] \ R)
      BY <1>5, QuitRelists
    <2>2. Relisted(g, r, M[g] \ R) /\ g \in G
      BY <2>1, RelistedView
    <2>3. G' = G /\ M' = [M EXCEPT ![g] = @ \ R]
      BY <2>2, RelistedView
    <2>4. QED
      BY <2>2, <2>3 DEF Abstract!AbsQuit, Relisted
  <1>6. ASSUME NEW g \in Groups, CreateNoIndex(g) \/ CreateBucketFull(g)
        PROVE  Abstract!AbsJoinRefused(g, {})
    <2>1. ret' = "MULTI_IDX_EXHAUST" /\ ~Exists(g) /\ UNCHANGED <<multi_grp, multi_vm>>
      BY <1>6 DEF CreateNoIndex, CreateBucketFull, Answer, Unchanged
    <2>2. QED
      BY <2>1, AnswerAbs DEF Abstract!AbsJoinRefused
  <1>7. ASSUME NEW g \in Groups, CreateNoIndex(g)
         PROVE  Abstract!ExactJoinRefused(g, {})
    <2>1. g \notin G /\ Cardinality(G) = GrpMax
      BY <1>7, NoIndexAllUsed, GroupsHaveIndexes DEF CreateNoIndex
    <2>2. ~(Cardinality(G) < GrpMax)
      BY <2>1, Sizes
    <2>3. ~Abstract!HasRoom(g, {})
      BY <2>1, <2>2, SameCardinality DEF Abstract!HasRoom
    <2>4. QED
      BY <1>6, <1>7, <2>3 DEF Abstract!ExactJoinRefused
  <1>8. ASSUME NEW g \in Groups, CreateSpins(g)
        PROVE  UNCHANGED Abstract!absVars
    BY <1>8, AnswerAbs DEF CreateSpins, Abstract!absVars
  <1>9. ASSUME NEW g \in Groups, GroupMissing(g)
        PROVE  Abstract!AbsMissing(g)
    BY <1>9, AnswerAbs DEF GroupMissing, Answer, Unchanged, Abstract!AbsMissing
  <1>10. ASSUME NEW g \in Groups, DeleteFound(g)
        PROVE  Abstract!AbsDelete(g)
    <2>1. G' = G \ {g} /\ M' = [M EXCEPT ![g] = {}]
      BY <1>10, DeletedView
    <2>2. QED
      BY <1>10, <2>1 DEF DeleteFound, Answer, Abstract!AbsDelete
  <1>11. ASSUME NEW g \in Groups, DeleteMissing(g)
         PROVE  Abstract!AbsDelete(g)
    <2>1. g \notin G /\ M[g] = {}
      BY <1>11, LookupNow DEF DeleteMissing, IInv, LookupFacts
    <2>2. G' = G /\ M' = M /\ ret' = "ok"
      BY <1>11, AnswerAbs DEF DeleteMissing, Answer, Unchanged
    <2>3. QED
      BY <2>1, <2>2 DEF Abstract!AbsDelete
  <1>12. ASSUME NEW g \in Groups, ReadGroup(g)
         PROVE  Abstract!AbsRead
    BY <1>12, AnswerAbs DEF ReadGroup, Answer, Unchanged, Abstract!AbsRead
  <1>13. ASSUME Clear PROVE Abstract!AbsClear
    BY <1>13, ClearedView DEF Clear, Answer, Abstract!AbsClear
  <1>14. {} \in Requests
    BY Sizes, FS_EmptySet DEF Requests
  <1> HIDE DEF G, M
  <1>15. CASE Next
    <2>1. ASSUME NEW g \in Groups, NEW R \in Requests,
                 \/ AppendToGroup(g, R)
                 \/ AppendRefused(g, R)
                 \/ CreateGroup(g, R)
                 \/ Quit(g, R)
          PROVE  Abstract!ExactNext
      BY <1>2, <1>3, <1>4, <1>5, <2>1, SameRequests DEF Abstract!ExactNext
    <2>2. ASSUME NEW g \in Groups,
                 \/ CreateNoIndex(g)
                 \/ GroupMissing(g)
                 \/ DeleteFound(g)
                 \/ DeleteMissing(g)
                 \/ ReadGroup(g)
          PROVE  Abstract!ExactNext
      BY <1>7, <1>9, <1>10, <1>11, <1>12, <1>14, <2>2, SameRequests DEF Abstract!ExactNext
    <2>3. Clear => Abstract!ExactNext
      BY <1>13 DEF Abstract!ExactNext
    <2>4. QED
      BY <1>6, <1>8, <1>15, <2>1, <2>2, <2>3, NextCases
  <1>16. QED
    BY <1>1, <1>15

\* An exact join is a join, and an exact refusal a refusal.
LEMMA ExactIsAbs == Abstract!ExactNext => Abstract!AbsNext
  BY DEF Abstract!ExactNext, Abstract!AbsNext, Abstract!ExactJoin, Abstract!ExactJoinRefused

LEMMA NextImplements ==
  ASSUME IInv, IInv', IndexesFit, [Next]_tableVars
  PROVE  [IF RoomInBuckets THEN Abstract!ExactNext ELSE Abstract!AbsNext]_(Abstract!absVars)
  <1>1. RoomInBuckets => ~ \E g \in Groups : CreateBucketFull(g)
    BY NoBucketFull
  <1>2. {} \in Abstract!Requests
    BY Sizes, FS_EmptySet, SameRequests DEF Requests
  <1>3. (\E g \in Groups : Abstract!AbsJoinRefused(g, {})) => Abstract!AbsNext
    BY <1>2 DEF Abstract!AbsNext
  <1>4. QED
    BY <1>1, <1>3, ExactIsAbs, NextService

-----------------------------------------------------------------------------
(* The theorems.  IndexesFit and RowsFit say which deployments the widths  *)
(* of the code's integers allow; the runs server_add_spins and             *)
(* server_index_shared show what happens outside them.                     *)

\* The inductive invariant holds in every state of a deployment whose groups all fit in
\* the bitmap and in multi_grp_idx.
LEMMA TableInvariant == ASSUME IndexesFit PROVE Spec => []IInv
  <1>1. Init => IInv
    BY InitInv
  <1>2. IInv /\ [Next]_tableVars => IInv'
    BY NextInv
  <1>3. QED
    BY <1>1, <1>2, PTL DEF Spec

\* The arrays of multis_grp.c stay within their types: no count passes MULTI_VM_MAX or
\* goes below 0, and no index leaves multi_vm.
THEOREM TableTypeCorrect == ASSUME IndexesFit PROVE Spec => []TypeOK
  <1>1. IInv => TypeOK
    BY DEF IInv
  <1>2. QED
    BY <1>1, TableInvariant, PTL

\* After any sequence of requests a lookup finds every group that was created: deletion
\* by moving the last row leaves no hole for __lookup_multi_node to stop at.
THEOREM TableFindsEveryGroup == ASSUME IndexesFit PROVE Spec => []EveryGroupFound
  <1>1. IInv => EveryGroupFound
    BY DEF IInv
  <1>2. QED
    BY <1>1, TableInvariant, PTL

\* Two groups never share a member list.
THEOREM TableIndexesOwned == ASSUME IndexesFit PROVE Spec => []IndexesDistinct
  <1>1. IInv => IndexesDistinct
    BY DEF IInv
  <1>2. QED
    BY <1>1, TableInvariant, PTL

\* No bit of the bitmap leaks, and get_idx never hands out an index in use.
THEOREM TableBitmapExact == ASSUME IndexesFit PROVE Spec => []BitmapExact
  <1>1. IInv => BitmapExact
    BY DEF IInv
  <1>2. QED
    BY <1>1, TableInvariant, PTL

\* Every multi_member_cnt is the length of its list, and lists nobody owns are empty.
THEOREM TableListsMatch == ASSUME IndexesFit PROVE Spec => []ListsMatch
  <1>1. IInv => ListsMatch
    BY DEF IInv
  <1>2. QED
    BY <1>1, TableInvariant, PTL

\* add_multi_node's row loop always ends where, besides, the uint8_t row counter reaches
\* MULTI_GRP_DEPTH or no more groups can exist than the rows it reaches.
THEOREM TableNeverSpins == ASSUME IndexesFit, RowsFit PROVE Spec => []NeverSpins
  <1>1. Init => NeverSpins
    BY DEF Init, NeverSpins
  <1>2. IInv /\ NeverSpins /\ [Next]_tableVars => NeverSpins'
    BY NoSpinNext
  <1>3. QED
    BY <1>1, <1>2, TableInvariant, PTL DEF Spec

\* The table implements the group service of module MulticastGroups: the exact one, which
\* multis_admin counts on, where no bucket fills up, and the one that may refuse elsewhere.
THEOREM TableImplementsGroups ==
  ASSUME IndexesFit
  PROVE  Spec => ImplementsGroups /\ Abstract!AbsSpec
  <1> DEFINE Served == IF RoomInBuckets THEN Abstract!ExactNext ELSE Abstract!AbsNext
  <1>1. Init => Abstract!AbsInit
    BY InitAbs
  <1>2. IInv /\ IInv' /\ [Next]_tableVars => [Served]_(Abstract!absVars)
    BY NextImplements
  <1>3. Served => Abstract!AbsNext
    BY ExactIsAbs
  <1>4. Spec => Abstract!AbsInit /\ [][Served]_(Abstract!absVars) /\ Abstract!AbsSpec
    <2> HIDE DEF Served
    <2>1. QED
      BY <1>1, <1>2, <1>3, TableInvariant, PTL DEF Spec, Abstract!AbsSpec
  <1>5. QED
    BY <1>4 DEF ImplementsGroups

\* A group is refused for want of an index only when all indexes are in use: no sequence of
\* refused and deleted groups wears the pool of indexes out.
THEOREM TableRefusesOnlyWhenFull == ASSUME IndexesFit PROVE Spec => RefusedOnlyWhenFull
  <1> DEFINE Step == \A g \in Groups : CreateNoIndex(g) => Cardinality(UsedIndexes) = GrpMax
  <1>1. IInv /\ [Next]_tableVars => [Step]_tableVars
    BY NoIndexAllUsed
  <1>2. Spec => [][Step]_tableVars
    <2> HIDE DEF Step
    <2>1. QED
      BY <1>1, TableInvariant, PTL DEF Spec
  <1>3. QED
    BY <1>2 DEF RefusedOnlyWhenFull

-----------------------------------------------------------------------------
(* Member lists as arrays                                                  *)

\* VmList, for the members and the length of the table's lists.
NoVm == CHOOSE v : v \notin VMs
VmLists == INSTANCE VmList WITH Addresses <- VMs, NoAddress <- NoVm, MaxLen <- VmMax

Slots == 0 .. VmMax - 1
VmArray == [Slots -> VMs \cup {NoVm}]
Held(L) == {L.ips[j] : j \in {k \in Slots : k < L.cnt}}

\* One turn of each loop: of add_vm_ip_list for a list that was L, and of del_quit_vm_ip.
AddVisit(L, a, ip) ==
  IF \E j \in Slots : j < L.cnt /\ a.ips[j] = ip
  THEN a
  ELSE [ips |-> [a.ips EXCEPT ![a.cnt] = ip], cnt |-> a.cnt + 1]
Found(a, ip) == {j \in Slots : j < a.cnt /\ a.ips[j] = ip}
QuitVisit(a, ip) ==
  IF Found(a, ip) = {}
  THEN a
  ELSE [ips |-> [a.ips EXCEPT ![Min(Found(a, ip))] = a.ips[a.cnt - 1], ![a.cnt - 1] = NoVm],
        cnt |-> a.cnt - 1]

\* The entries in use are different members, and the others are free.
InOrder(a) ==
  /\ a \in [ips : VmArray, cnt : 0 .. VmMax]
  /\ \A j \in Slots : j < a.cnt => a.ips[j] \in VMs
  /\ \A i, j \in Slots : i < a.cnt /\ j < a.cnt /\ a.ips[i] = a.ips[j] => i = j
  /\ \A j \in Slots : a.cnt <= j => a.ips[j] = NoVm

LEMMA NoVmIsNone == NoVm \notin VMs
  BY NoSetContainsEverything DEF NoVm

LEMMA ListCardinality == \A S : VmLists!Cardinality(S) = Cardinality(S)
  BY DEF VmLists!Cardinality, Cardinality

LEMMA HeldIs == \A L : VmLists!MembersOf(L) = Held(L)
  BY DEF VmLists!MembersOf, VmLists!Entries, Held, Slots

\* The count is that of the members if and only if no entry is there twice.
LEMMA OrderIs ==
  ASSUME NEW L \in VmLists!Lists
  PROVE  VmLists!WellFormed(L) <=> InOrder(L)
  <1> DEFINE D == {k \in Slots : k < L.cnt}
             M == Held(L)
             f == [j \in D |-> L.ips[j]]
  <1>1. L \in [ips : VmArray, cnt : 0 .. VmMax] /\ VmMax \in Nat
    BY Sizes DEF VmLists!Lists, VmLists!Entries, VmArray, Slots
  <1>2. L.cnt \in Nat /\ L.cnt <= VmMax /\ L.ips \in VmArray
    BY <1>1
  <1>3. D = 0 .. L.cnt - 1
    BY <1>1, <1>2 DEF Slots
  <1>4. IsFiniteSet(D) /\ Cardinality(D) = L.cnt
    <2>1. PICK n \in Nat : n = L.cnt
      BY <1>2
    <2>2. PICK m \in Int : m = n - 1
      BY <2>1
    <2>3. IsFiniteSet(0 .. m) /\ Cardinality(0 .. m) = IF 0 > m THEN 0 ELSE m - 0 + 1
      BY FS_Interval
    <2>4. (IF 0 > m THEN 0 ELSE m - 0 + 1) = n
      BY <2>1, <2>2
    <2>5. D = 0 .. m
      BY <1>3, <2>1, <2>2
    <2> HIDE DEF D
    <2>6. QED
      BY <2>1, <2>3, <2>4, <2>5
  <1>5. f \in Surjection(D, M)
    <2>1. f \in [D -> M] /\ \A x \in M : \E j \in D : f[j] = x
      BY DEF Held
    <2>2. QED
      BY <2>1 DEF Surjection
  <1> HIDE DEF D, f
  <1>6. Cardinality(M) = L.cnt <=> f \in Injection(D, M)
    BY <1>4, <1>5, FS_Surjection
  <1>7. f \in Injection(D, M) <=> \A i, j \in D : L.ips[i] = L.ips[j] => i = j
    <2>1. f \in [D -> M]
      BY <1>5 DEF Surjection
    <2>2. QED
      BY <2>1 DEF Injection, IsInjective, f
  <1>8. NoVm \notin M <=> \A j \in Slots : j < L.cnt => L.ips[j] \in VMs
    BY <1>2, NoVmIsNone DEF Held, VmArray
  <1>9. VmLists!WellFormed(L) <=> /\ Cardinality(M) = L.cnt /\ NoVm \notin M
                                  /\ \A j \in Slots : L.cnt <= j => L.ips[j] = NoVm
    <2>1. VmLists!MembersOf(L) = M
      BY HeldIs
    <2> HIDE DEF M
    <2>2. VmLists!Cardinality(M) = Cardinality(M)
      BY ListCardinality
    <2>3. QED
      BY <2>1, <2>2 DEF VmLists!WellFormed, VmLists!Entries, Slots
  <1>10. (\A i, j \in D : L.ips[i] = L.ips[j] => i = j)
         <=> \A i, j \in Slots : i < L.cnt /\ j < L.cnt /\ L.ips[i] = L.ips[j] => i = j
    BY DEF D
  <1> HIDE DEF M
  <1>11. QED
    BY <1>1, <1>6, <1>7, <1>8, <1>9, <1>10 DEF InOrder

-----------------------------------------------------------------------------
(* One turn of a loop                                                      *)

LEMMA AppendMember ==
  ASSUME NEW a, InOrder(a), a.cnt < VmMax, NEW ip \in VMs, ip \notin Held(a),
         NEW b, b = [ips |-> [a.ips EXCEPT ![a.cnt] = ip], cnt |-> a.cnt + 1]
  PROVE  /\ InOrder(b) /\ Held(b) = Held(a) \cup {ip} /\ b.cnt = a.cnt + 1
         /\ \A j \in Slots : j < a.cnt => b.ips[j] = a.ips[j]
  <1>1. /\ a.cnt \in Slots /\ a.cnt \in Nat /\ a.ips \in VmArray /\ VmMax \in Nat
        /\ b.ips = [a.ips EXCEPT ![a.cnt] = ip] /\ b.cnt = a.cnt + 1
    BY Sizes DEF InOrder, Slots
  <1>2. b.ips \in VmArray /\ b.cnt \in 0 .. VmMax
    BY <1>1 DEF VmArray
  <1>3. /\ b.ips[a.cnt] = ip
        /\ \A j \in Slots : j # a.cnt => b.ips[j] = a.ips[j]
    BY <1>1 DEF VmArray
  <1>4. \A j \in Slots : /\ j < b.cnt <=> j < a.cnt \/ j = a.cnt
                         /\ j < a.cnt => j # a.cnt
    BY <1>1 DEF Slots
  <1>5. \A j \in Slots : j < a.cnt => a.ips[j] # ip
    BY DEF Held
  <1>6. Held(b) = Held(a) \cup {ip}
    BY <1>1, <1>3, <1>4 DEF Held
  <1>7. \A i, j \in Slots : i < b.cnt /\ j < b.cnt /\ b.ips[i] = b.ips[j] => i = j
    BY <1>3, <1>4, <1>5 DEF InOrder
  <1>8. \A j \in Slots : /\ j < b.cnt => b.ips[j] \in VMs
                         /\ b.cnt <= j => b.ips[j] = NoVm
    <2>1. \A j \in Slots : b.cnt <= j => a.cnt <= j /\ j # a.cnt
      BY <1>1 DEF Slots
    <2>2. QED
      BY <1>3, <1>4, <2>1 DEF InOrder
  <1>9. b \in [ips : VmArray, cnt : 0 .. VmMax]
    BY <1>2
  <1>10. QED
    BY <1>1, <1>3, <1>4, <1>6, <1>7, <1>8, <1>9 DEF InOrder

LEMMA QuitMember ==
  ASSUME NEW a, InOrder(a), NEW ip \in VMs, NEW b, b = QuitVisit(a, ip)
  PROVE  InOrder(b) /\ Held(b) = Held(a) \ {ip}
  <1>1. CASE Found(a, ip) = {}
    <2>1. b = a /\ ip \notin Held(a)
      BY <1>1 DEF QuitVisit, Found, Held
    <2>2. QED
      BY <2>1
  <1>2. CASE Found(a, ip) # {}
    <2> DEFINE last == a.cnt - 1
               m == Min(Found(a, ip))
    <2>1. m \in Slots /\ m < a.cnt /\ a.ips[m] = ip
      <3>1. Found(a, ip) \in SUBSET Nat
        BY DEF Found, Slots
      <3>2. m \in Found(a, ip)
        BY <1>2, <3>1, MinOf
      <3>3. QED
        BY <3>2 DEF Found
    <2>2. /\ a.cnt \in Nat /\ a.cnt <= VmMax /\ a.ips \in VmArray /\ VmMax \in Nat
          /\ m \in Nat
      BY <2>1, Sizes DEF InOrder, Slots
    <2>3. b = [ips |-> [a.ips EXCEPT ![m] = a.ips[last], ![last] = NoVm], cnt |-> last]
      BY <1>2 DEF QuitVisit
    <2> HIDE DEF m
    <2>4. last \in Slots /\ last \in Nat /\ last < a.cnt
      BY <2>1, <2>2 DEF Slots
    <2>5. b.ips = [[a.ips EXCEPT ![m] = a.ips[last]] EXCEPT ![last] = NoVm] /\ b.cnt = last
      BY <2>3
    <2>6. /\ b.ips \in VmArray /\ b.ips[last] = NoVm
          /\ m # last => b.ips[m] = a.ips[last]
          /\ \A j \in Slots : j # m /\ j # last => b.ips[j] = a.ips[j]
      BY <2>1, <2>2, <2>4, <2>5 DEF VmArray
    <2>7. \A j \in Slots : /\ j < a.cnt <=> j < last \/ j = last
                           /\ j < last => j # last
                           /\ j < b.cnt <=> j < last
                           /\ b.cnt <= j => j = last \/ a.cnt <= j
      BY <2>2, <2>4, <2>5 DEF Slots
    <2>8. m < last \/ m = last
      BY <2>1, <2>7
    <2> HIDE DEF last
    <2>9. \A i, j \in Slots : i < a.cnt /\ j < a.cnt /\ a.ips[i] = a.ips[j] => i = j
      BY DEF InOrder
    <2>10. \A j \in Slots : j < last =>
             \E k \in Slots : /\ k < a.cnt /\ b.ips[j] = a.ips[k] /\ k # m
                              /\ k = IF j = m THEN last ELSE j
      BY <2>1, <2>4, <2>6, <2>7
    <2>11. \A j \in Slots : j < b.cnt => b.ips[j] \in VMs
      BY <2>7, <2>10 DEF InOrder
    <2>12. \A i, j \in Slots : i < b.cnt /\ j < b.cnt /\ b.ips[i] = b.ips[j] => i = j
      <3>1. SUFFICES ASSUME NEW i \in Slots, NEW j \in Slots, i < last, j < last,
                            b.ips[i] = b.ips[j]
                     PROVE  i = j
        BY <2>7
      <3>2. PICK k \in Slots : k < a.cnt /\ b.ips[i] = a.ips[k] /\ k = IF i = m THEN last ELSE i
        BY <2>10, <3>1
      <3>3. PICK l \in Slots : l < a.cnt /\ b.ips[j] = a.ips[l] /\ l = IF j = m THEN last ELSE j
        BY <2>10, <3>1
      <3>4. k = l /\ i # last /\ j # last
        BY <2>7, <2>9, <3>1, <3>2, <3>3
      <3>5. QED
        BY <3>2, <3>3, <3>4
    <2>13. \A j \in Slots : b.cnt <= j => b.ips[j] = NoVm
      <3>1. SUFFICES ASSUME NEW j \in Slots, b.cnt <= j PROVE b.ips[j] = NoVm
        OBVIOUS
      <3>2. CASE j = last
        BY <2>6, <3>2
      <3>3. CASE j # last
        <4>1. a.cnt <= j
          BY <2>7, <3>1, <3>3
        <4>2. j # m
          BY <2>1, <2>2, <4>1 DEF Slots
        <4>3. QED
          BY <2>6, <3>3, <4>1, <4>2 DEF InOrder
      <3>4. QED
        BY <3>2, <3>3
    <2>14. b \in [ips : VmArray, cnt : 0 .. VmMax]
      <3>1. last \in 0 .. VmMax
        BY <2>2, <2>4
      <3>2. QED
        BY <2>3, <2>5, <2>6, <3>1
    <2>15. Held(b) = Held(a) \ {ip}
      <3>1. ASSUME NEW x \in Held(b) PROVE x \in Held(a) /\ x # ip
        <4>1. PICK j \in Slots : j < last /\ x = b.ips[j]
          BY <2>7, <3>1 DEF Held
        <4>2. PICK k \in Slots : k < a.cnt /\ b.ips[j] = a.ips[k] /\ k # m
          BY <2>10, <4>1
        <4>3. QED
          BY <2>1, <2>9, <4>1, <4>2 DEF Held
      <3>2. ASSUME NEW x \in Held(a), x # ip PROVE x \in Held(b)
        <4>1. PICK k \in Slots : k < a.cnt /\ x = a.ips[k]
          BY <3>2 DEF Held
        <4>2. k # m
          BY <2>1, <3>2, <4>1
        <4>3. CASE k = last
          <5>1. m < last /\ m # last
            BY <2>8, <4>2, <4>3
          <5>2. b.ips[m] = x /\ m < b.cnt
            BY <2>1, <2>6, <2>7, <4>1, <4>3, <5>1
          <5>3. QED
            BY <2>1, <5>2 DEF Held
        <4>4. CASE k # last
          <5>1. b.ips[k] = x /\ k < b.cnt
            BY <2>6, <2>7, <4>1, <4>2, <4>4
          <5>2. QED
            BY <4>1, <5>1 DEF Held
        <4>5. QED
          BY <4>3, <4>4
      <3>3. QED
        BY <3>1, <3>2
    <2>16. QED
      BY <2>11, <2>12, <2>13, <2>14, <2>15 DEF InOrder
  <1>3. QED
    BY <1>1, <1>2
-----------------------------------------------------------------------------
(* The loops                                                               *)

\* What a loop works on, whatever its count.
AnyCount == [ips : VmArray, cnt : Int]
CountWithin == [ips : VmArray, cnt : {n \in Int : n <= VmMax}]

LEMMA AddVisitTypes == \A L : \A a \in AnyCount, x \in VMs : AddVisit(L, a, x) \in AnyCount
  <1> SUFFICES ASSUME NEW a \in AnyCount, NEW x \in VMs, NEW L
               PROVE  AddVisit(L, a, x) \in AnyCount
    OBVIOUS
  <1>1. a.cnt \in Int /\ a.cnt + 1 \in Int /\ a.ips \in VmArray
    BY DEF AnyCount
  <1>2. PICK k : k = a.cnt
    OBVIOUS
  <1>3. [a.ips EXCEPT ![k] = x] \in VmArray
    BY <1>1 DEF VmArray
  <1>4. QED
    BY <1>1, <1>2, <1>3 DEF AddVisit, AnyCount

LEMMA QuitVisitTypes ==
  \A a \in CountWithin, x \in VMs : QuitVisit(a, x) \in CountWithin
  <1> SUFFICES ASSUME NEW a \in CountWithin, NEW x \in VMs, Found(a, x) # {}
               PROVE  QuitVisit(a, x) \in CountWithin
    BY DEF QuitVisit
  <1>1. a.cnt \in Int /\ a.cnt <= VmMax /\ VmMax \in Nat /\ a.ips \in VmArray
    BY Sizes DEF CountWithin
  <1>2. a.cnt - 1 \in Slots /\ a.cnt - 1 \in Int /\ a.cnt - 1 <= VmMax
    BY <1>1 DEF Found, Slots
  <1>3. a.ips[a.cnt - 1] \in VMs \cup {NoVm}
    BY <1>1, <1>2 DEF VmArray
  <1>4. PICK m : m = Min(Found(a, x))
    OBVIOUS
  <1>5. [[a.ips EXCEPT ![m] = a.ips[a.cnt - 1]] EXCEPT ![a.cnt - 1] = NoVm] \in VmArray
    BY <1>1, <1>3 DEF VmArray
  <1>6. QuitVisit(a, x) =
          [ips |-> [[a.ips EXCEPT ![m] = a.ips[a.cnt - 1]] EXCEPT ![a.cnt - 1] = NoVm],
           cnt |-> a.cnt - 1]
    BY <1>4 DEF QuitVisit
  <1>7. QED
    BY <1>2, <1>5, <1>6 DEF CountWithin

\* Member by member.
AddTable(ch, L, s) ==
  /\ ch \in [0 .. Len(s) -> AnyCount]
  /\ ch[0] = L /\ VmLists!AddLoop(L, s) = ch[Len(s)]
  /\ \A i \in 1 .. Len(s) : ch[i] = AddVisit(L, ch[i - 1], s[i])

LEMMA AddChain ==
  ASSUME NEW L \in AnyCount, NEW s \in Seq(VMs)
  PROVE  \E ch : AddTable(ch, L, s)
  <1> DEFINE n == Len(s)
             A == AnyCount
             f == [i \in 1 .. n |-> [a \in A |-> AddVisit(L, a, s[i])]]
             Chosen == CHOOSE it : it = [S \in SUBSET (DOMAIN s) |->
                         IF S = {} THEN L ELSE AddVisit(L, it[S \ {Max(S)}], s[Max(S)])]
  <1>1. n \in Nat /\ DOMAIN s = 1 .. n /\ \A i \in 1 .. n : s[i] \in VMs
    OBVIOUS
  <1>2. \A a \in A, x \in VMs : AddVisit(L, a, x) \in A
    BY AddVisitTypes
  <1>3. L \in A
    OBVIOUS
  <1>4. f \in [1 .. n -> [A -> A]]
    BY <1>1, <1>2
  <1> HIDE DEF A, n
  <1>5. PICK it \in [SUBSET (1 .. n) -> A] :
          \A S \in SUBSET (1 .. n) : it[S] = IF S = {} THEN L ELSE f[Max(S)][it[S \ {Max(S)}]]
    <2> DEFINE b == L
    <2>1. b \in A /\ n \in Nat /\ f \in [1 .. n -> [A -> A]]
      BY <1>1, <1>3, <1>4
    <2> HIDE DEF f, b
    <2>2. \E it : Iteration(n, A, b, f, it)
      BY <2>1, Iterates
    <2>3. QED
      BY <2>2 DEF b, Iteration
  <1>6. it = [S \in SUBSET (1 .. n) |->
                IF S = {} THEN L ELSE AddVisit(L, it[S \ {Max(S)}], s[Max(S)])]
    <2> SUFFICES ASSUME NEW S \in SUBSET (1 .. n), S # {}
                 PROVE  it[S] = AddVisit(L, it[S \ {Max(S)}], s[Max(S)])
      BY <1>5
    <2>1. Max(S) \in 1 .. n
      BY <1>1, MaxOf
    <2>2. it[S \ {Max(S)}] \in A
      OBVIOUS
    <2>3. it[S] = f[Max(S)][it[S \ {Max(S)}]]
      BY <1>5
    <2>4. QED
      BY <2>1, <2>2, <2>3
  <1>7. Chosen = [S \in SUBSET (1 .. n) |->
                    IF S = {} THEN L ELSE AddVisit(L, Chosen[S \ {Max(S)}], s[Max(S)])]
    <2>1. \E jt : jt = [S \in SUBSET (DOMAIN s) |->
                          IF S = {} THEN L ELSE AddVisit(L, jt[S \ {Max(S)}], s[Max(S)])]
      BY <1>1, <1>6
    <2>2. QED
      BY <1>1, <2>1
  <1>8. VmLists!AddLoop(L, s) = Chosen[1 .. n]
    BY <1>1 DEF VmLists!AddLoop, AddVisit, Slots, VmLists!Entries,
             VmLists!FoldLeft, VmLists!MapThenFoldSet, VmLists!Max, Max
  <1> HIDE DEF Chosen, f
  <1> DEFINE ch == [i \in 0 .. n |-> Chosen[1 .. i]]
  <1>9. ch[0] = L /\ ch[n] = VmLists!AddLoop(L, s)
    <2>1. 1 .. 0 = {} /\ 1 .. 0 \in SUBSET (1 .. n)
      OBVIOUS
    <2>2. Chosen[1 .. 0] = L
      BY <1>7, <2>1
    <2>3. QED
      BY <1>1, <1>8, <2>2
  <1>10. ASSUME NEW i \in 1 .. n PROVE ch[i] = AddVisit(L, ch[i - 1], s[i])
    <2>1. /\ 1 .. i \in SUBSET (1 .. n) /\ 1 .. i # {}
          /\ (1 .. i) \ {i} = 1 .. (i - 1)
      BY <1>1
    <2>2. Max(1 .. i) = i
      BY <1>1, MaxOfInterval
    <2>3. Chosen[1 .. i] = AddVisit(L, Chosen[1 .. (i - 1)], s[i])
      BY <1>7, <2>1, <2>2
    <2>4. i \in 0 .. n /\ i - 1 \in 0 .. n
      BY <1>1
    <2>5. QED
      BY <2>3, <2>4
  <1>11. ch \in [0 .. n -> A]
    <2> DEFINE P == {i \in 0 .. n : ch[i] \in A}
    <2>1. 0 \in P
      BY <1>1, <1>3, <1>9
    <2>2. ASSUME NEW i \in 1 .. n, i - 1 \in P PROVE i \in P
      <3>1. ch[i - 1] \in A /\ s[i] \in VMs /\ i \in 0 .. n
        BY <1>1, <2>2
      <3> HIDE DEF ch
      <3>2. AddVisit(L, ch[i - 1], s[i]) \in A
        BY <1>2, <3>1
      <3>3. QED
        BY <1>10, <3>1, <3>2
    <2> HIDE DEF P
    <2>3. \A i \in 0 .. n : i \in P
      <3>1. \A i \in 1 .. n : i - 1 \in P => i \in P
        BY <2>2
      <3>2. QED
        BY <1>1, <2>1, <3>1, Induction
    <2>4. \A i \in 0 .. n : ch[i] \in A
      BY <2>3 DEF P
    <2>5. QED
      BY <2>4
  <1> HIDE DEF ch
  <1>12. AddTable(ch, L, s)
    BY <1>1, <1>9, <1>10, <1>11 DEF n, A, AddTable
  <1>13. QED
    BY <1>12

\* Member by member.
QuitTable(ch, L, s) ==
  /\ ch \in [0 .. Len(s) -> CountWithin]
  /\ ch[0] = L /\ VmLists!QuitLoop(L, s) = ch[Len(s)]
  /\ \A i \in 1 .. Len(s) : ch[i] = QuitVisit(ch[i - 1], s[i])

LEMMA QuitChain ==
  ASSUME NEW L \in CountWithin, NEW s \in Seq(VMs)
  PROVE  \E ch : QuitTable(ch, L, s)
  <1> DEFINE n == Len(s)
             A == CountWithin
             f == [i \in 1 .. n |-> [a \in A |-> QuitVisit(a, s[i])]]
             Chosen == CHOOSE it : it = [S \in SUBSET (DOMAIN s) |->
                         IF S = {} THEN L ELSE QuitVisit(it[S \ {Max(S)}], s[Max(S)])]
  <1>1. n \in Nat /\ DOMAIN s = 1 .. n /\ \A i \in 1 .. n : s[i] \in VMs
    OBVIOUS
  <1>2. \A a \in A, x \in VMs : QuitVisit(a, x) \in A
    BY QuitVisitTypes
  <1>3. L \in A
    OBVIOUS
  <1>4. f \in [1 .. n -> [A -> A]]
    BY <1>1, <1>2
  <1> HIDE DEF A, n
  <1>5. PICK it \in [SUBSET (1 .. n) -> A] :
          \A S \in SUBSET (1 .. n) : it[S] = IF S = {} THEN L ELSE f[Max(S)][it[S \ {Max(S)}]]
    <2> DEFINE b == L
    <2>1. b \in A /\ n \in Nat /\ f \in [1 .. n -> [A -> A]]
      BY <1>1, <1>3, <1>4
    <2> HIDE DEF f, b
    <2>2. \E it : Iteration(n, A, b, f, it)
      BY <2>1, Iterates
    <2>3. QED
      BY <2>2 DEF b, Iteration
  <1>6. it = [S \in SUBSET (1 .. n) |->
                IF S = {} THEN L ELSE QuitVisit(it[S \ {Max(S)}], s[Max(S)])]
    <2> SUFFICES ASSUME NEW S \in SUBSET (1 .. n), S # {}
                 PROVE  it[S] = QuitVisit(it[S \ {Max(S)}], s[Max(S)])
      BY <1>5
    <2>1. Max(S) \in 1 .. n
      BY <1>1, MaxOf
    <2>2. it[S \ {Max(S)}] \in A
      OBVIOUS
    <2>3. it[S] = f[Max(S)][it[S \ {Max(S)}]]
      BY <1>5
    <2>4. QED
      BY <2>1, <2>2, <2>3
  <1>7. Chosen = [S \in SUBSET (1 .. n) |->
                    IF S = {} THEN L ELSE QuitVisit(Chosen[S \ {Max(S)}], s[Max(S)])]
    <2>1. \E jt : jt = [S \in SUBSET (DOMAIN s) |->
                          IF S = {} THEN L ELSE QuitVisit(jt[S \ {Max(S)}], s[Max(S)])]
      BY <1>1, <1>6
    <2>2. QED
      BY <1>1, <2>1
  <1>8. VmLists!QuitLoop(L, s) = Chosen[1 .. n]
    BY <1>1 DEF VmLists!QuitLoop, QuitVisit, Found, Slots, VmLists!Entries, VmLists!Min, Min,
             VmLists!FoldLeft, VmLists!MapThenFoldSet, VmLists!Max, Max
  <1> HIDE DEF Chosen, f
  <1> DEFINE ch == [i \in 0 .. n |-> Chosen[1 .. i]]
  <1>9. ch[0] = L /\ ch[n] = VmLists!QuitLoop(L, s)
    <2>1. 1 .. 0 = {} /\ 1 .. 0 \in SUBSET (1 .. n)
      OBVIOUS
    <2>2. Chosen[1 .. 0] = L
      BY <1>7, <2>1
    <2>3. QED
      BY <1>1, <1>8, <2>2
  <1>10. ASSUME NEW i \in 1 .. n PROVE ch[i] = QuitVisit(ch[i - 1], s[i])
    <2>1. /\ 1 .. i \in SUBSET (1 .. n) /\ 1 .. i # {}
          /\ (1 .. i) \ {i} = 1 .. (i - 1)
      BY <1>1
    <2>2. Max(1 .. i) = i
      BY <1>1, MaxOfInterval
    <2>3. Chosen[1 .. i] = QuitVisit(Chosen[1 .. (i - 1)], s[i])
      BY <1>7, <2>1, <2>2
    <2>4. i \in 0 .. n /\ i - 1 \in 0 .. n
      BY <1>1
    <2>5. QED
      BY <2>3, <2>4
  <1>11. ch \in [0 .. n -> A]
    <2> DEFINE P == {i \in 0 .. n : ch[i] \in A}
    <2>1. 0 \in P
      BY <1>1, <1>3, <1>9
    <2>2. ASSUME NEW i \in 1 .. n, i - 1 \in P PROVE i \in P
      <3>1. ch[i - 1] \in A /\ s[i] \in VMs /\ i \in 0 .. n
        BY <1>1, <2>2
      <3> HIDE DEF ch
      <3>2. QuitVisit(ch[i - 1], s[i]) \in A
        BY <1>2, <3>1
      <3>3. QED
        BY <1>10, <3>1, <3>2
    <2> HIDE DEF P
    <2>3. \A i \in 0 .. n : i \in P
      <3>1. \A i \in 1 .. n : i - 1 \in P => i \in P
        BY <2>2
      <3>2. QED
        BY <1>1, <2>1, <3>1, Induction
    <2>4. \A i \in 0 .. n : ch[i] \in A
      BY <2>3 DEF P
    <2>5. QED
      BY <2>4
  <1> HIDE DEF ch
  <1>12. QuitTable(ch, L, s)
    BY <1>1, <1>9, <1>10, <1>11 DEF n, A, QuitTable
  <1>13. QED
    BY <1>12

\* The lists that a request can bring.
LEMMA IpListIs ==
  ASSUME NEW s \in VmLists!IpLists
  PROVE  /\ s \in Seq(VMs) /\ Len(s) \in Nat
         /\ \A i, j \in 1 .. Len(s) : s[i] = s[j] => i = j
         /\ VmLists!Range(s) = {s[k] : k \in 1 .. Len(s)}
  <1>1. PICK n \in 0 .. VmMax : s \in [1 .. n -> VMs] /\ \A i, j \in 1 .. n : s[i] = s[j] => i = j
    BY DEF VmLists!IpLists, VmLists!Injection, VmLists!IsInjective
  <1>2. n \in Nat
    OBVIOUS
  <1>3. s \in Seq(VMs) /\ Len(s) = n
    BY <1>1, <1>2
  <1>4. VmLists!Range(s) = {s[k] : k \in 1 .. n}
    BY <1>1 DEF VmLists!Range
  <1>5. QED
    BY <1>1, <1>2, <1>3, <1>4

\* add_vm_ip_list adds the members that the list did not have at the start.
LEMMA AddLoopUnites ==
  ASSUME NEW L, InOrder(L), NEW s \in Seq(VMs), Len(s) + L.cnt <= VmMax,
         \A i, j \in 1 .. Len(s) : s[i] = s[j] => i = j
  PROVE  /\ InOrder(VmLists!AddLoop(L, s))
         /\ Held(VmLists!AddLoop(L, s)) = Held(L) \cup {s[k] : k \in 1 .. Len(s)}
  <1> DEFINE n == Len(s)
             S(i) == {s[k] : k \in 1 .. i}
  <1>1. n \in Nat /\ L.cnt \in Nat /\ VmMax \in Nat /\ n + L.cnt <= VmMax /\ L \in AnyCount
        /\ \A i \in 1 .. n : s[i] \in VMs
    BY Sizes DEF InOrder, AnyCount
  <1>2. PICK ch : AddTable(ch, L, s)
    BY <1>1, AddChain
  <1>3. /\ ch[0] = L /\ VmLists!AddLoop(L, s) = ch[n]
        /\ \A i \in 1 .. n : ch[i] = AddVisit(L, ch[i - 1], s[i])
    BY <1>2 DEF AddTable
  <1> DEFINE Visited(i) == /\ InOrder(ch[i]) /\ ch[i].cnt <= L.cnt + i
                           /\ \A j \in Slots : j < L.cnt => j < ch[i].cnt /\ ch[i].ips[j] = L.ips[j]
                           /\ Held(ch[i]) = Held(L) \cup S(i)
             P == {i \in 0 .. n : Visited(i)}
  <1>4. 0 \in P
    <2>1. S(0) = {}
      OBVIOUS
    <2>2. Visited(0)
      BY <1>1, <1>3, <2>1
    <2>3. QED
      BY <1>1, <2>2
  <1>5. ASSUME NEW i \in 1 .. n, i - 1 \in P PROVE i \in P
    <2>1. /\ i \in 0 .. n /\ i \in Nat /\ i - 1 \in Nat /\ i - 1 < n
      BY <1>1
    <2>2. PICK a : a = ch[i - 1]
      OBVIOUS
    <2>3. /\ InOrder(a) /\ a.cnt <= L.cnt + (i - 1)
          /\ \A j \in Slots : j < L.cnt => j < a.cnt /\ a.ips[j] = L.ips[j]
          /\ Held(a) = Held(L) \cup S(i - 1)
      <3> HIDE DEF Visited
      <3>1. Visited(i - 1)
        BY <1>5
      <3>2. QED
        BY ONLY <2>2, <3>1 DEF Visited
    <2>4. a.cnt \in Nat
      BY <2>3 DEF InOrder
    <2>5. PICK ip \in VMs : ip = s[i]
      BY <1>1
    <2>6. ch[i] = AddVisit(L, a, ip)
      BY <1>3, <2>2, <2>5
    <2>7. S(i) = S(i - 1) \cup {ip}
      <3>1. 1 .. i = (1 .. (i - 1)) \cup {i}
        BY <2>1
      <3>2. QED
        BY <2>5, <3>1
    <2>8. ip \notin S(i - 1)
      <3>1. SUFFICES ASSUME NEW k \in 1 .. (i - 1), s[k] = ip PROVE FALSE
        OBVIOUS
      <3>2. k \in 1 .. n /\ k # i
        BY <2>1
      <3>3. QED
        BY <2>5, <3>1, <3>2
    <2> HIDE DEF S
    <2>9. (\E j \in Slots : j < L.cnt /\ a.ips[j] = ip) <=> ip \in Held(L)
      BY <2>3 DEF Held
    <2>10. CASE ip \in Held(L)
      <3>1. ch[i] = a
        BY <2>6, <2>9, <2>10 DEF AddVisit
      <3>2. Held(a) = Held(L) \cup S(i)
        BY <2>3, <2>7, <2>10
      <3>3. a.cnt <= L.cnt + i
        BY <1>1, <2>1, <2>3, <2>4
      <3>4. Visited(i)
        BY <2>3, <3>1, <3>2, <3>3
      <3> HIDE DEF Visited
      <3>5. QED
        BY <2>1, <3>4
    <2>11. CASE ip \notin Held(L)
      <3>1. ip \notin Held(a) /\ a.cnt < VmMax
        BY <1>1, <2>1, <2>3, <2>4, <2>8, <2>11
      <3>2. PICK b : b = [ips |-> [a.ips EXCEPT ![a.cnt] = ip], cnt |-> a.cnt + 1]
        OBVIOUS
      <3>3. ch[i] = b
        BY <2>6, <2>9, <2>11, <3>2 DEF AddVisit
      <3>4. /\ InOrder(b) /\ Held(b) = Held(a) \cup {ip} /\ b.cnt = a.cnt + 1
            /\ \A j \in Slots : j < a.cnt => b.ips[j] = a.ips[j]
        BY <2>3, <3>1, <3>2, AppendMember
      <3>5. Held(b) = Held(L) \cup S(i)
        BY <2>3, <2>7, <3>4
      <3>6. b.cnt <= L.cnt + i
        BY <1>1, <2>1, <2>3, <2>4, <3>4
      <3>7. \A j \in Slots : j < L.cnt => j < b.cnt /\ b.ips[j] = L.ips[j]
        <4>1. \A j \in Slots : j < a.cnt => j < a.cnt + 1
          BY <2>4 DEF Slots
        <4>2. QED
          BY <2>3, <3>4, <4>1
      <3>8. Visited(i)
        BY <3>3, <3>4, <3>5, <3>6, <3>7
      <3> HIDE DEF Visited
      <3>9. QED
        BY <2>1, <3>8
    <2>12. QED
      BY <2>10, <2>11
  <1> HIDE DEF P
  <1>6. n \in P
    <2>1. \A i \in 0 .. n : i \in P
      <3>1. \A i \in 1 .. n : i - 1 \in P => i \in P
        BY <1>5
      <3>2. QED
        BY <1>1, <1>4, <3>1, Induction
    <2>2. QED
      BY <1>1, <2>1
  <1>7. InOrder(ch[n]) /\ Held(ch[n]) = Held(L) \cup S(n)
    <2> HIDE DEF Visited
    <2>1. Visited(n)
      BY <1>6 DEF P
    <2>2. QED
      BY ONLY <2>1 DEF Visited
  <1>8. QED
    BY ONLY <1>3, <1>7

\* del_quit_vm_ip takes the members that quit off the list.
LEMMA QuitLoopSubtracts ==
  ASSUME NEW L, InOrder(L), NEW s \in Seq(VMs)
  PROVE  /\ InOrder(VmLists!QuitLoop(L, s))
         /\ Held(VmLists!QuitLoop(L, s)) = Held(L) \ {s[k] : k \in 1 .. Len(s)}
  <1> DEFINE n == Len(s)
             S(i) == {s[k] : k \in 1 .. i}
  <1>1. n \in Nat /\ L \in CountWithin /\ \A i \in 1 .. n : s[i] \in VMs
    BY Sizes DEF InOrder, CountWithin
  <1>2. PICK ch : QuitTable(ch, L, s)
    BY <1>1, QuitChain
  <1>3. /\ ch[0] = L /\ VmLists!QuitLoop(L, s) = ch[n]
        /\ \A i \in 1 .. n : ch[i] = QuitVisit(ch[i - 1], s[i])
    BY <1>2 DEF QuitTable
  <1> DEFINE Visited(i) == InOrder(ch[i]) /\ Held(ch[i]) = Held(L) \ S(i)
             P == {i \in 0 .. n : Visited(i)}
  <1>4. 0 \in P
    <2>1. S(0) = {}
      OBVIOUS
    <2>2. Visited(0)
      BY <1>3, <2>1
    <2>3. QED
      BY <1>1, <2>2
  <1>5. ASSUME NEW i \in 1 .. n, i - 1 \in P PROVE i \in P
    <2>1. i \in 0 .. n /\ i \in Nat
      BY <1>1
    <2>2. PICK a : a = ch[i - 1]
      OBVIOUS
    <2>3. InOrder(a) /\ Held(a) = Held(L) \ S(i - 1)
      BY <1>5, <2>2
    <2>4. PICK ip \in VMs : ip = s[i]
      BY <1>1
    <2>5. S(i) = S(i - 1) \cup {ip}
      <3>1. 1 .. i = (1 .. (i - 1)) \cup {i}
        BY <2>1
      <3>2. QED
        BY <2>4, <3>1
    <2> HIDE DEF S
    <2>6. PICK b : b = QuitVisit(a, ip)
      OBVIOUS
    <2>7. InOrder(b) /\ Held(b) = Held(a) \ {ip}
      BY <2>3, <2>6, QuitMember
    <2>8. ch[i] = b
      BY <1>3, <2>2, <2>4, <2>6
    <2>9. Visited(i)
      BY <2>3, <2>5, <2>7, <2>8
    <2> HIDE DEF Visited
    <2>10. QED
      BY <2>1, <2>9
  <1> HIDE DEF P
  <1>6. n \in P
    <2>1. \A i \in 0 .. n : i \in P
      <3>1. \A i \in 1 .. n : i - 1 \in P => i \in P
        BY <1>5
      <3>2. QED
        BY <1>1, <1>4, <3>1, Induction
    <2>2. QED
      BY <1>1, <2>1
  <1>7. QED
    BY <1>3, <1>6 DEF P

\* The loops over the arrays of members do what ServerTable does with sets of members: whatever
\* the order of the entries and of the request, they leave the union or the difference, each
\* member once, without a gap, and count it rightly.
THEOREM LoopsAreSetOperations == VmLists!LoopsComputeSets
  <1>1. SUFFICES ASSUME NEW L \in VmLists!Lists, VmLists!WellFormed(L),
                        NEW s \in VmLists!IpLists
                 PROVE  /\ VmLists!Accepts(L, s) =>
                             /\ VmLists!WellFormed(VmLists!AddLoop(L, s))
                             /\ VmLists!MembersOf(VmLists!AddLoop(L, s)) =
                                  VmLists!MembersOf(L) \cup VmLists!Range(s)
                        /\ VmLists!WellFormed(VmLists!QuitLoop(L, s))
                        /\ VmLists!MembersOf(VmLists!QuitLoop(L, s)) =
                             VmLists!MembersOf(L) \ VmLists!Range(s)
    BY DEF VmLists!LoopsComputeSets
  <1>2. InOrder(L)
    BY <1>1, OrderIs
  <1>3. /\ s \in Seq(VMs) /\ Len(s) \in Nat
        /\ \A i, j \in 1 .. Len(s) : s[i] = s[j] => i = j
        /\ VmLists!Range(s) = {s[k] : k \in 1 .. Len(s)}
    BY IpListIs
  <1>4. ASSUME NEW a, InOrder(a)
        PROVE  VmLists!WellFormed(a) /\ VmLists!MembersOf(a) = Held(a)
    <2>1. a \in VmLists!Lists
      BY <1>4 DEF InOrder, VmLists!Lists, VmLists!Entries, VmArray, Slots
    <2>2. VmLists!WellFormed(a)
      BY <1>2, <1>4, <2>1, OrderIs
    <2>3. VmLists!MembersOf(a) = Held(a)
      BY HeldIs
    <2>4. QED
      BY <2>2, <2>3
  <1>5. /\ InOrder(VmLists!QuitLoop(L, s))
        /\ Held(VmLists!QuitLoop(L, s)) = Held(L) \ {s[k] : k \in 1 .. Len(s)}
    BY <1>2, <1>3, QuitLoopSubtracts
  <1>6. ASSUME VmLists!Accepts(L, s)
        PROVE  /\ InOrder(VmLists!AddLoop(L, s))
               /\ Held(VmLists!AddLoop(L, s)) = Held(L) \cup {s[k] : k \in 1 .. Len(s)}
    <2>1. Len(s) + L.cnt <= VmMax
      BY <1>6 DEF VmLists!Accepts
    <2>2. QED
      BY <1>2, <1>3, <2>1, AddLoopUnites
  <1>7. QED
    BY <1>2, <1>3, <1>4, <1>5, <1>6

-----------------------------------------------------------------------------
(* The netfilter hook                                                      *)

Packet == [pc : {"idle", "copy", "count", "stats"}, idx : Indexes, left : SUBSET VMs,
           what : Counters \cup {""}, reg : Nat, then : {"idle", "copy", "tx", "stats"},
           stale : BOOLEAN]

\* A packet under way counts a global counter; tx_packets is the last, before the index's.
WellFormed(p) ==
  /\ p \in Packet
  /\ p.pc = "count" => p.what \in Counters /\ (p.then = "stats" <=> p.what = "tx_packets")
  /\ p.pc = "stats" => p.then = "copy"

HookTypes ==
  /\ counter \in [Counters -> Nat] /\ outputs \in Nat
  /\ multi_stats \in [Indexes -> Nat]
  /\ outputsOf \in [Indexes -> Nat] /\ strayed \in [Indexes -> BOOLEAN]
  /\ cpu \in [CPUs -> Packet] /\ \A c \in CPUs : WellFormed(cpu[c])
  /\ overlapped \in BOOLEAN

-----------------------------------------------------------------------------
(* Invariants                                                              *)

\* A copy has left, and its packet has still to store tx_packets.
OwesTx(p) == p.pc = "count" /\ p.then \in {"tx", "stats"}
Owing == {c \in CPUs : OwesTx(cpu[c])}

\* c has loaded tx_packets and not yet stored it.
LoadedTx(c) == cpu[c].pc = "count" /\ cpu[c].then = "stats"

(***************************************************************************)
(* What has been counted, or loaded to be counted, and what is owed never  *)
(* exceed the outputs; while no two CPUs have counted at once, one at most *)
(* counts, on the value it has loaded.                                     *)
(***************************************************************************)
TotalInv ==
  /\ counter["tx_packets"] + Cardinality(Owing) <= outputs
  /\ \A c \in CPUs : LoadedTx(c) => cpu[c].reg + Cardinality(Owing) <= outputs
  /\ ~overlapped =>
       /\ counter["tx_packets"] + Cardinality(Owing) = outputs
       /\ \A c, d \in CPUs : Busy(cpu[c]) /\ Busy(cpu[d]) => c = d
       /\ \A c \in CPUs : LoadedTx(c) => cpu[c].reg = counter["tx_packets"]

-----------------------------------------------------------------------------
(* Sets of CPUs                                                            *)

LEMMA CpuSet ==
  ASSUME NEW S \in SUBSET CPUs
  PROVE  /\ IsFiniteSet(S) /\ Cardinality(S) \in Nat
         /\ S = {} => Cardinality(S) = 0
         /\ \A T \in SUBSET S : Cardinality(T) \in Nat /\ Cardinality(T) <= Cardinality(S)
         /\ \A c \in CPUs \ S : Cardinality(S \cup {c}) = Cardinality(S) + 1
         /\ \A c \in S : Cardinality(S \ {c}) = Cardinality(S) - 1
  <1>1. IsFiniteSet(S)
    BY ForwardAssumption, FS_Subset
  <1>2. \A T \in SUBSET S : IsFiniteSet(T) /\ Cardinality(T) <= Cardinality(S)
    BY <1>1, FS_Subset
  <1>3. Cardinality(S) \in Nat /\ \A T \in SUBSET S : Cardinality(T) \in Nat
    BY <1>1, <1>2, FS_CardinalityType
  <1>4. S = {} => Cardinality(S) = 0
    BY FS_EmptySet
  <1>5. \A c \in CPUs \ S : Cardinality(S \cup {c}) = Cardinality(S) + 1
    BY <1>1, FS_AddElement
  <1>6. \A c \in S : Cardinality(S \ {c}) = Cardinality(S) - 1
    BY <1>1, FS_RemoveElement
  <1>7. QED
    BY <1>1, <1>2, <1>3, <1>4, <1>5, <1>6

-----------------------------------------------------------------------------
(* Types                                                                   *)

LEMMA IdleFormed == WellFormed(Idle)
  <1>1. 0 \in Indexes
    BY Sizes DEF Indexes
  <1>2. Idle \in Packet
    BY <1>1 DEF Idle, Packet
  <1>3. QED
    BY <1>2 DEF WellFormed, Idle

LEMMA PacketTypes ==
  ASSUME HookTypes, NEW c \in CPUs
  PROVE  /\ cpu[c] \in Packet /\ WellFormed(cpu[c]) /\ cpu[c].idx \in Indexes
         /\ cpu[c].reg \in Nat /\ cpu[c].reg + 1 \in Nat
  <1>1. cpu[c] \in Packet /\ WellFormed(cpu[c])
    BY DEF HookTypes
  <1>2. cpu[c].idx \in Indexes /\ cpu[c].reg \in Nat
    BY <1>1 DEF Packet
  <1>3. QED
    BY <1>1, <1>2

\* What a packet is before and after a load.
LEMMA CountingFormed ==
  ASSUME HookTypes, NEW p, WellFormed(p), NEW name \in Counters,
         NEW then \in {"idle", "copy", "tx", "stats"}, then = "stats" <=> name = "tx_packets"
  PROVE  /\ WellFormed(Counting(p, name, then))
         /\ Counting(p, name, then).pc = "count" /\ Counting(p, name, then).then = then
         /\ Counting(p, name, then).reg = counter[name]
         /\ Counting(p, name, then).idx = p.idx /\ Counting(p, name, then).stale = p.stale
  <1>1. counter[name] \in Nat
    BY DEF HookTypes
  <1>2. Counting(p, name, then) =
          [p EXCEPT !.pc = "count", !.what = name, !.reg = counter[name], !.then = then]
    BY DEF Counting
  <1>3. p \in Packet
    BY DEF WellFormed
  <1>4. Counting(p, name, then) \in Packet
    BY <1>1, <1>2, <1>3 DEF Packet
  <1>5. QED
    BY <1>2, <1>3, <1>4 DEF Packet, WellFormed

LEMMA AfterFormed ==
  ASSUME HookTypes, NEW c \in CPUs, Busy(cpu[c])
  PROVE  /\ WellFormed(AfterCount(c, cpu[c]))
         /\ cpu[c].then = "idle" => AfterCount(c, cpu[c]).pc = "idle"
         /\ cpu[c].then = "copy" => AfterCount(c, cpu[c]).pc = "copy"
         /\ cpu[c].then # "idle" =>
              AfterCount(c, cpu[c]).idx = cpu[c].idx /\ AfterCount(c, cpu[c]).stale = cpu[c].stale
         /\ cpu[c].then = "tx" =>
              /\ AfterCount(c, cpu[c]).pc = "count" /\ AfterCount(c, cpu[c]).then = "stats"
              /\ AfterCount(c, cpu[c]).reg = counter["tx_packets"]
         /\ cpu[c].then = "stats" =>
              /\ AfterCount(c, cpu[c]).pc = "stats"
              /\ AfterCount(c, cpu[c]).reg = multi_stats[cpu[c].idx]
  <1> DEFINE p == cpu[c]
  <1>1. WellFormed(p) /\ p \in Packet
    BY DEF HookTypes, WellFormed
  <1>2. p.then \in {"idle", "copy", "tx", "stats"} /\ p.idx \in Indexes
    BY <1>1 DEF Packet
  <1> HIDE DEF p
  <1>3. CASE p.then = "idle"
    BY <1>3, IdleFormed DEF AfterCount, Idle, p
  <1>4. CASE p.then = "copy"
    <2>1. AfterCount(c, p) = [p EXCEPT !.pc = "copy", !.what = "", !.reg = 0, !.then = "idle"]
      BY <1>4 DEF AfterCount
    <2>2. /\ AfterCount(c, p) \in Packet /\ AfterCount(c, p).pc = "copy"
          /\ AfterCount(c, p).idx = p.idx /\ AfterCount(c, p).stale = p.stale
      <3>1. 0 \in Nat /\ "" \in Counters \cup {""}
        OBVIOUS
      <3>2. QED
        BY <1>1, <2>1, <3>1 DEF Packet
    <2>3. QED
      BY <1>4, <2>2 DEF WellFormed, p
  <1>5. CASE p.then = "tx"
    <2>1. AfterCount(c, p) = Counting(p, "tx_packets", "stats")
      BY <1>5 DEF AfterCount
    <2>2. QED
      BY <1>1, <1>5, <2>1, CountingFormed DEF Counters, p
  <1>6. CASE p.then = "stats"
    <2>1. AfterCount(c, p) = [p EXCEPT !.pc = "stats", !.what = "", !.reg = multi_stats[p.idx],
                                       !.then = "copy"]
      BY <1>6 DEF AfterCount
    <2>2. multi_stats[p.idx] \in Nat
      BY <1>2 DEF HookTypes
    <2>3. /\ AfterCount(c, p) \in Packet /\ AfterCount(c, p).pc = "stats"
          /\ AfterCount(c, p).then = "copy" /\ AfterCount(c, p).reg = multi_stats[p.idx]
          /\ AfterCount(c, p).idx = p.idx /\ AfterCount(c, p).stale = p.stale
      BY <1>1, <2>1, <2>2 DEF Packet
    <2>4. QED
      BY <1>6, <2>3 DEF WellFormed, p
  <1>7. QED
    BY <1>2, <1>3, <1>4, <1>5, <1>6

-----------------------------------------------------------------------------
(* What a step of the hook does                                            *)

\* c's packet has left, or been counted, and not yet been counted under its index.
OwesStats(p) == OwesTx(p) \/ p.pc = "stats"

\* c's packet is p next; other CPUs keep theirs.
Moves(c, p) ==
  /\ WellFormed(p)
  /\ cpu' = [cpu EXCEPT ![c] = p]
  /\ overlapped' \in BOOLEAN
  /\ ~overlapped' => ~overlapped /\ (Busy(p) => \A d \in CPUs \ {c} : ~Busy(cpu[d]))

\* A step that counts nothing: its packet had nothing to be counted for, and has not now.
Quiet(c, p) ==
  /\ Moves(c, p)
  /\ ~OwesStats(cpu[c]) /\ ~OwesStats(p)
  /\ HoldsIndex(p) /\ ~p.stale =>
       \/ p.idx \in UsedIndexes
       \/ HoldsIndex(cpu[c]) /\ ~cpu[c].stale /\ cpu[c].idx = p.idx
  /\ UNCHANGED <<tableVars, counter, outputs, outputsOf, strayed>>

LEMMA AtMoves ==
  ASSUME HookTypes, NEW c \in CPUs, NEW p, WellFormed(p), At(c, p)
  PROVE  Moves(c, p)
  BY DEF HookTypes, At, Moves

\* A turn of the loop that ends in an error, or forgets the copy.
LEMMA TurnsQuiet ==
  ASSUME HookTypes, NEW c \in CPUs, NEW v \in VMs,
         NoMemory(c, v) \/ NoHeader(c, v) \/ NoRoute(c, v)
  PROVE  \E p : Quiet(c, p)
  <1> DEFINE q == Rest(c, v)
  <1>1. cpu[c].pc = "copy" /\ WellFormed(cpu[c]) /\ cpu[c] \in Packet
    BY DEF NoMemory, NoHeader, NoRoute, Turn, HookTypes, WellFormed
  <1>2. /\ WellFormed(q) /\ q.pc = "copy" /\ q.idx = cpu[c].idx /\ q.stale = cpu[c].stale
    BY <1>1 DEF Rest, WellFormed, Packet
  <1> HIDE DEF q
  <1>3. UNCHANGED <<tableVars, counter, outputs, outputsOf, strayed>>
    BY DEF NoMemory, NoHeader, NoRoute
  <1>4. ~OwesStats(cpu[c]) /\ HoldsIndex(cpu[c])
    BY <1>1 DEF OwesStats, OwesTx, HoldsIndex
  <1>5. ASSUME NEW name \in Counters, name # "tx_packets", At(c, Counting(q, name, "copy"))
        PROVE  Quiet(c, Counting(q, name, "copy"))
    <2> DEFINE p == Counting(q, name, "copy")
    <2>1. /\ WellFormed(p) /\ p.pc = "count" /\ p.then = "copy"
          /\ p.idx = cpu[c].idx /\ p.stale = cpu[c].stale
      BY <1>2, <1>5, CountingFormed
    <2>2. Moves(c, p)
      BY <1>5, <2>1, AtMoves
    <2> HIDE DEF p
    <2>3. Quiet(c, p)
      BY <1>3, <1>4, <2>1, <2>2 DEF Quiet, OwesStats, OwesTx
    <2>4. QED
      BY <2>3 DEF p
  <1>6. CASE NoHeader(c, v)
    <2>1. Moves(c, q)
      BY <1>2, <1>6, AtMoves DEF NoHeader, q
    <2>2. Quiet(c, q)
      BY <1>2, <1>3, <1>4, <2>1 DEF Quiet, OwesStats, OwesTx
    <2>3. QED
      BY <2>2
  <1>7. CASE NoMemory(c, v)
    BY <1>5, <1>7 DEF NoMemory, Counters, q
  <1>8. CASE NoRoute(c, v)
    BY <1>5, <1>8 DEF NoRoute, Counters, q
  <1>9. QED
    BY <1>6, <1>7, <1>8

\* A packet arrives; the lookup finds no group, no members, or some.
LEMMA ArrivalsQuiet ==
  ASSUME IInv, HookTypes, NEW c \in CPUs, NEW g \in Groups, NoGroupFor(c, g) \/ MembersFor(c, g)
  PROVE  \E p : Quiet(c, p)
  <1>1. /\ cpu[c].pc = "idle"
        /\ UNCHANGED <<tableVars, counter, outputs, outputsOf, strayed>>
    BY DEF NoGroupFor, MembersFor, Arrives
  <1>2. ~OwesStats(cpu[c])
    BY <1>1 DEF OwesStats, OwesTx
  <1>3. ASSUME NEW name \in Counters, name # "tx_packets", At(c, Counting(Idle, name, "idle"))
        PROVE  Quiet(c, Counting(Idle, name, "idle"))
    <2> DEFINE p == Counting(Idle, name, "idle")
    <2>1. WellFormed(p) /\ p.pc = "count" /\ p.then = "idle"
      BY <1>3, IdleFormed, CountingFormed
    <2>2. Moves(c, p)
      BY <1>3, <2>1, AtMoves
    <2> HIDE DEF p
    <2>3. Quiet(c, p)
      BY <1>1, <1>2, <2>1, <2>2 DEF Quiet, OwesStats, OwesTx, HoldsIndex
    <2>4. QED
      BY <2>3 DEF p
  <1>4. CASE NoGroupFor(c, g)
    BY <1>3, <1>4 DEF NoGroupFor, Counters
  <1>5. CASE MembersFor(c, g)
    <2> DEFINE b == mulit_hash_key[g]
    <2>1. PICK r \in Rows :
            /\ FoundAt(g, r)
            /\ At(c, IF multi_grp[b][r].multi_member_cnt = 0
                     THEN Counting(Idle, "no_vm_ip_list_pkt_drop_count", "idle")
                     ELSE [Idle EXCEPT !.pc = "copy", !.idx = multi_grp[b][r].multi_grp_idx,
                                       !.left = multi_vm[multi_grp[b][r].multi_grp_idx]])
      BY <1>5 DEF MembersFor
    <2>2. b \in Buckets /\ Created(b, r)
      BY <2>1, ServerAssumption, FoundRow
    <2>3. CASE multi_grp[b][r].multi_member_cnt = 0
      BY <1>3, <2>1, <2>3 DEF Counters
    <2>4. CASE multi_grp[b][r].multi_member_cnt # 0
      <3> DEFINE i == IdxAt(b, r)
                 p == [Idle EXCEPT !.pc = "copy", !.idx = i, !.left = multi_vm[i]]
      <3>1. i \in Indexes /\ i \in UsedIndexes /\ multi_vm[i] \subseteq VMs
        BY <2>2, ListOfRow DEF UsedIndexes
      <3> HIDE DEF i
      <3>2. Idle \in Packet
        BY IdleFormed DEF WellFormed
      <3>3. p \in Packet /\ p.pc = "copy" /\ p.idx = i
        BY <3>1, <3>2 DEF Packet
      <3>4. WellFormed(p)
        BY <3>3 DEF WellFormed
      <3>5. Moves(c, p)
        BY <2>1, <2>4, <3>4, AtMoves DEF i, IdxAt
      <3> HIDE DEF p
      <3>6. Quiet(c, p)
        BY <1>1, <1>2, <3>1, <3>3, <3>5 DEF Quiet, OwesStats, OwesTx
      <3>7. QED
        BY <3>6
    <2>5. QED
      BY <2>3, <2>4
  <1>6. QED
    BY <1>4, <1>5

LEMMA ReturnQuiet ==
  ASSUME HookTypes, NEW c \in CPUs, HookReturns(c)
  PROVE  Quiet(c, Idle)
  <1>1. Moves(c, Idle)
    BY IdleFormed, AtMoves DEF HookReturns
  <1>2. QED
    BY <1>1 DEF HookReturns, Quiet, OwesStats, OwesTx, HoldsIndex, Idle

\* A copy leaves: it will be counted.
LEMMA OutputStep ==
  ASSUME HookTypes, NEW c \in CPUs, NEW v \in VMs, Output(c, v)
  PROVE  \E p : /\ Moves(c, p) /\ cpu[c].pc = "copy" /\ p.pc = "count" /\ p.then = "tx"
                /\ p.idx = cpu[c].idx /\ p.stale = cpu[c].stale
                /\ outputs' = outputs + 1
                /\ outputsOf' = IF p.stale THEN outputsOf ELSE [outputsOf EXCEPT ![p.idx] = @ + 1]
                /\ UNCHANGED <<tableVars, counter, strayed>>
  <1> DEFINE q == Rest(c, v)
             p == Counting(q, "no_multi_grp_pkt_drop_count", "tx")
  <1>1. cpu[c].pc = "copy" /\ WellFormed(cpu[c]) /\ cpu[c] \in Packet
    BY DEF Output, Turn, HookTypes, WellFormed
  <1>2. WellFormed(q) /\ q.idx = cpu[c].idx /\ q.stale = cpu[c].stale
    BY <1>1 DEF Rest, WellFormed, Packet
  <1>3. /\ WellFormed(p) /\ p.pc = "count" /\ p.then = "tx"
        /\ p.idx = cpu[c].idx /\ p.stale = cpu[c].stale
    BY <1>2, CountingFormed DEF Counters
  <1>4. Moves(c, p)
    BY <1>3, AtMoves DEF Output
  <1> HIDE DEF p
  <1>5. QED
    BY <1>1, <1>3, <1>4 DEF Output

LEMMA StoreCounterStep ==
  ASSUME HookTypes, NEW c \in CPUs, StoreCounter(c)
  PROVE  /\ Moves(c, AfterCount(c, cpu[c]))
         /\ cpu[c].pc = "count" /\ WellFormed(cpu[c]) /\ cpu[c].what \in Counters
         /\ counter' = [counter EXCEPT ![cpu[c].what] = cpu[c].reg + 1]
         /\ UNCHANGED <<tableVars, outputs, outputsOf, strayed>>
  <1>1. cpu[c].pc = "count" /\ WellFormed(cpu[c])
    BY DEF StoreCounter, HookTypes
  <1>2. Moves(c, AfterCount(c, cpu[c]))
    BY <1>1, AfterFormed, AtMoves DEF StoreCounter, Busy
  <1>3. QED
    BY <1>1, <1>2 DEF StoreCounter, WellFormed

LEMMA StoreStatsStep ==
  ASSUME HookTypes, NEW c \in CPUs, StoreStats(c)
  PROVE  /\ Moves(c, AfterCount(c, cpu[c]))
         /\ cpu[c].pc = "stats" /\ AfterCount(c, cpu[c]).pc = "copy" /\ cpu[c] \in Packet
         /\ AfterCount(c, cpu[c]).idx = cpu[c].idx /\ AfterCount(c, cpu[c]).stale = cpu[c].stale
         /\ multi_stats' = [multi_stats EXCEPT ![cpu[c].idx] = cpu[c].reg + 1]
         /\ strayed' = IF cpu[c].stale THEN [strayed EXCEPT ![cpu[c].idx] = TRUE] ELSE strayed
         /\ UNCHANGED <<multi_grp, bitmap, multi_vm, spinning, ret, counter, outputs, outputsOf>>
  <1>1. cpu[c].pc = "stats" /\ WellFormed(cpu[c]) /\ cpu[c] \in Packet
    BY DEF StoreStats, HookTypes, WellFormed
  <1>2. cpu[c].then = "copy"
    BY <1>1 DEF WellFormed
  <1>3. Moves(c, AfterCount(c, cpu[c])) /\ AfterCount(c, cpu[c]).pc = "copy"
    BY <1>1, <1>2, AfterFormed, AtMoves DEF StoreStats, Busy
  <1>4. AfterCount(c, cpu[c]).idx = cpu[c].idx /\ AfterCount(c, cpu[c]).stale = cpu[c].stale
    BY <1>1, <1>2 DEF AfterCount, Packet
  <1>5. QED
    BY <1>1, <1>3, <1>4 DEF StoreStats

LEMMA RequestCpus ==
  ASSUME HookTypes, Request
  PROVE  /\ cpu' \in [CPUs -> Packet]
         /\ \A c \in CPUs :
              /\ WellFormed(cpu'[c]) /\ cpu'[c].pc = cpu[c].pc /\ cpu'[c].then = cpu[c].then
              /\ cpu'[c].idx = cpu[c].idx /\ cpu'[c].reg = cpu[c].reg
              /\ cpu'[c].stale <=>
                   cpu[c].stale \/ (HoldsIndex(cpu[c]) /\ cpu[c].idx \in bitmap \ bitmap')
  <1> DEFINE s(c) == cpu[c].stale \/ (HoldsIndex(cpu[c]) /\ cpu[c].idx \in bitmap \ bitmap')
  <1>1. cpu' = [c \in CPUs |-> [cpu[c] EXCEPT !.stale = s(c)]]
    BY DEF Request
  <1>2. \A c \in CPUs : s(c) \in BOOLEAN /\ cpu[c] \in Packet /\ WellFormed(cpu[c])
    BY DEF HookTypes, Packet
  <1> HIDE DEF s
  <1>3. ASSUME NEW c \in CPUs
        PROVE  /\ cpu'[c] \in Packet /\ WellFormed(cpu'[c])
               /\ cpu'[c].pc = cpu[c].pc /\ cpu'[c].then = cpu[c].then
               /\ cpu'[c].idx = cpu[c].idx /\ cpu'[c].reg = cpu[c].reg
               /\ cpu'[c].stale <=> s(c)
    <2>1. cpu'[c] = [cpu[c] EXCEPT !.stale = s(c)] /\ cpu[c] \in Packet /\ WellFormed(cpu[c])
      BY <1>1, <1>2
    <2>2. s(c) \in BOOLEAN
      BY <1>2
    <2>3. /\ cpu'[c] \in Packet /\ cpu'[c].what = cpu[c].what
          /\ cpu'[c].pc = cpu[c].pc /\ cpu'[c].then = cpu[c].then
          /\ cpu'[c].idx = cpu[c].idx /\ cpu'[c].reg = cpu[c].reg
          /\ cpu'[c].stale = s(c)
      BY <2>1, <2>2 DEF Packet
    <2>4. QED
      BY <2>1, <2>3 DEF WellFormed
  <1>4. cpu' \in [CPUs -> Packet]
    BY <1>1, <1>3
  <1>5. QED
    BY <1>3, <1>4 DEF s

-----------------------------------------------------------------------------
(* Types                                                                   *)

LEMMA TypesInit == ForwardInit => HookTypes
  <1> SUFFICES ASSUME ForwardInit PROVE HookTypes
    OBVIOUS
  <1>1. Idle \in Packet /\ WellFormed(Idle)
    BY IdleFormed DEF WellFormed
  <1>2. QED
    BY <1>1 DEF ForwardInit, Init, HookTypes

LEMMA CpusMoved ==
  ASSUME HookTypes, NEW c \in CPUs, NEW p, Moves(c, p)
  PROVE  /\ cpu' \in [CPUs -> Packet] /\ \A d \in CPUs : WellFormed(cpu'[d])
         /\ cpu'[c] = p /\ \A d \in CPUs \ {c} : cpu'[d] = cpu[d]
  BY DEF HookTypes, Moves, WellFormed

LEMMA TypesNext ==
  ASSUME IInv, IndexesFit, HookTypes, ForwardNext
  PROVE  HookTypes'
  <1>1. ASSUME NEW c \in CPUs, NEW p, Quiet(c, p)
        PROVE  HookTypes'
    BY <1>1, CpusMoved DEF Quiet, Moves, tableVars, HookTypes
  <1>2. ASSUME NEW c \in CPUs, NEW v \in VMs, Output(c, v)
        PROVE  HookTypes'
    <2>1. PICK p : /\ Moves(c, p) /\ outputs' = outputs + 1
                   /\ p.idx = cpu[c].idx
                   /\ outputsOf' = IF p.stale THEN outputsOf ELSE [outputsOf EXCEPT ![p.idx] = @ + 1]
                   /\ UNCHANGED <<tableVars, counter, strayed>>
      BY <1>2, OutputStep
    <2>2. outputsOf' \in [Indexes -> Nat] /\ outputs' \in Nat
      <3>1. \A i \in Indexes : outputsOf[i] + 1 \in Nat
        BY DEF HookTypes
      <3>2. outputsOf' = outputsOf \/ outputsOf' = [outputsOf EXCEPT ![p.idx] = @ + 1]
        BY <2>1
      <3>3. outputsOf' \in [Indexes -> Nat]
        BY <3>1, <3>2 DEF HookTypes
      <3>4. outputs' \in Nat
        BY <2>1 DEF HookTypes
      <3>5. QED
        BY <3>3, <3>4
    <2>3. QED
      BY <2>1, <2>2, CpusMoved DEF Moves, tableVars, HookTypes
  <1>3. ASSUME NEW c \in CPUs, StoreCounter(c)
        PROVE  HookTypes'
    <2>1. cpu[c].reg + 1 \in Nat
      BY PacketTypes
    <2>2. counter' \in [Counters -> Nat]
      BY <1>3, <2>1, StoreCounterStep DEF HookTypes
    <2>3. QED
      BY <1>3, <2>2, StoreCounterStep, CpusMoved DEF Moves, tableVars, HookTypes
  <1>4. ASSUME NEW c \in CPUs, StoreStats(c)
        PROVE  HookTypes'
    <2>1. cpu[c].reg + 1 \in Nat /\ TRUE \in BOOLEAN
      BY PacketTypes
    <2>2. multi_stats' \in [Indexes -> Nat] /\ strayed' \in [Indexes -> BOOLEAN]
      BY <1>4, <2>1, StoreStatsStep, ZenonT(60) DEF HookTypes
    <2>3. QED
      BY <1>4, <2>2, StoreStatsStep, CpusMoved DEF Moves, HookTypes
  <1>5. CASE Request
    <2>1. multi_stats' \in [Indexes -> Nat]
      BY <1>5, NextInv DEF Request, IInv, TypeOK
    <2>2. outputsOf' \in [Indexes -> Nat] /\ strayed' \in [Indexes -> BOOLEAN]
      BY <1>5 DEF Request, HookTypes
    <2>3. UNCHANGED <<counter, outputs, overlapped>>
      BY <1>5 DEF Request
    <2>4. QED
      BY <1>5, <2>1, <2>2, <2>3, RequestCpus DEF HookTypes
  <1>6. QED
    BY <1>1, <1>2, <1>3, <1>4, <1>5, TurnsQuiet, ArrivalsQuiet, ReturnQuiet DEF ForwardNext, HookStep

-----------------------------------------------------------------------------
(* The table, beside the hook                                              *)

LEMMA TableNext ==
  ASSUME IInv, IndexesFit, HookTypes, [ForwardNext]_forwardVars
  PROVE  IInv'
  <1>1. ASSUME UNCHANGED tableVars
        PROVE  IInv'
    BY <1>1, NextInv
  <1>2. ASSUME NEW c \in CPUs, NEW p, Quiet(c, p)
        PROVE  IInv'
    BY <1>1, <1>2 DEF Quiet
  <1>3. ASSUME NEW c \in CPUs, NEW v \in VMs, Output(c, v)
        PROVE  IInv'
    BY <1>1, <1>3 DEF Output
  <1>4. ASSUME NEW c \in CPUs, StoreCounter(c)
        PROVE  IInv'
    BY <1>1, <1>4 DEF StoreCounter
  <1>5. ASSUME NEW c \in CPUs, StoreStats(c)
        PROVE  IInv'
    <2>1. UNCHANGED <<multi_grp, bitmap, multi_vm, spinning, ret>>
      BY <1>5 DEF StoreStats
    <2>2. cpu[c].reg + 1 \in Nat
      BY PacketTypes
    <2>3. multi_stats' \in [Indexes -> Nat]
      BY <1>5, <2>2, StoreStatsStep DEF HookTypes
    <2>4. TypeOK'
      BY <2>1, <2>3 DEF IInv, TypeOK
    <2>5. QED
      BY <2>1, <2>4, CountsOnly
  <1>6. CASE Request
    BY <1>6, NextInv DEF Request
  <1>7. CASE UNCHANGED forwardVars
    BY <1>1, <1>7 DEF forwardVars
  <1>8. QED
    BY <1>2, <1>3, <1>4, <1>5, <1>6, <1>7, TurnsQuiet, ArrivalsQuiet, ReturnQuiet
    DEF ForwardNext, HookStep

-----------------------------------------------------------------------------
(* tx_packets                                                              *)

LEMMA TotalInit == ForwardInit => TotalInv
  <1> SUFFICES ASSUME ForwardInit PROVE TotalInv
    OBVIOUS
  <1>1. Owing = {} /\ \A c \in CPUs : cpu[c].pc = "idle"
    BY DEF ForwardInit, Owing, OwesTx, Idle
  <1>2. Cardinality(Owing) = 0 /\ counter["tx_packets"] = 0 /\ outputs = 0
    BY <1>1, FS_EmptySet DEF ForwardInit, Counters
  <1>3. QED
    BY <1>1, <1>2 DEF TotalInv, LoadedTx, Busy

LEMMA TotalNumbers ==
  ASSUME HookTypes
  PROVE  /\ Owing \in SUBSET CPUs /\ Cardinality(Owing) \in Nat
         /\ counter["tx_packets"] \in Nat /\ outputs \in Nat
  <1>1. Owing \in SUBSET CPUs
    BY DEF Owing
  <1>2. Cardinality(Owing) \in Nat
    BY <1>1, CpuSet
  <1>3. QED
    BY <1>1, <1>2 DEF HookTypes, Counters

\* A step that leaves tx_packets and what is owed to it alone.
LEMMA TotalSame ==
  ASSUME HookTypes, TotalInv, NEW c \in CPUs, NEW p, Moves(c, p),
         counter'["tx_packets"] = counter["tx_packets"], outputs' = outputs,
         OwesTx(p) <=> OwesTx(cpu[c]),
         p.pc = "count" /\ p.then = "stats" => p.reg = counter["tx_packets"]
  PROVE  TotalInv'
  <1>1. cpu'[c] = p /\ \A d \in CPUs \ {c} : cpu'[d] = cpu[d]
    BY CpusMoved
  <1>2. Owing' = Owing
    BY <1>1 DEF Owing
  <1>3. \A d \in CPUs : LoadedTx(d)' => cpu'[d].reg + Cardinality(Owing) <= outputs
    BY <1>1 DEF TotalInv, LoadedTx
  <1>4. ~overlapped' => ~overlapped /\ \A d, e \in CPUs : Busy(cpu'[d]) /\ Busy(cpu'[e]) => d = e
    BY <1>1 DEF Moves, TotalInv
  <1>5. ~overlapped' => \A d \in CPUs : LoadedTx(d)' => cpu'[d].reg = counter["tx_packets"]
    BY <1>1, <1>4 DEF TotalInv, LoadedTx
  <1>6. QED
    BY <1>2, <1>3, <1>4, <1>5 DEF TotalInv

LEMMA TotalOutput ==
  ASSUME HookTypes, TotalInv, NEW c \in CPUs, NEW v \in VMs, Output(c, v)
  PROVE  TotalInv'
  <1>1. PICK p : /\ Moves(c, p) /\ cpu[c].pc = "copy" /\ p.pc = "count" /\ p.then = "tx"
                 /\ outputs' = outputs + 1 /\ counter' = counter
    BY OutputStep
  <1>2. cpu'[c] = p /\ \A d \in CPUs \ {c} : cpu'[d] = cpu[d]
    BY <1>1, CpusMoved
  <1>3. Owing' = Owing \cup {c} /\ c \notin Owing
    BY <1>1, <1>2 DEF Owing, OwesTx
  <1>4. Cardinality(Owing') = Cardinality(Owing) + 1
    BY <1>3, TotalNumbers, CpuSet
  <1> DEFINE n == Cardinality(Owing)
  <1>5. n \in Nat /\ counter["tx_packets"] \in Nat /\ outputs \in Nat
    BY TotalNumbers
  <1>6. \A d \in CPUs : cpu[d].reg \in Nat
    BY PacketTypes
  <1>7. \A d \in CPUs : LoadedTx(d)' => LoadedTx(d) /\ cpu'[d] = cpu[d]
    BY <1>1, <1>2 DEF LoadedTx
  <1> HIDE DEF n
  <1>8. \A d \in CPUs : LoadedTx(d)' => cpu'[d].reg + (n + 1) <= outputs'
    BY <1>1, <1>5, <1>6, <1>7 DEF TotalInv, n
  <1>9. ~overlapped' => ~overlapped /\ \A d, e \in CPUs : Busy(cpu'[d]) /\ Busy(cpu'[e]) => d = e
    BY <1>1, <1>2 DEF Moves, TotalInv
  <1>10. /\ counter'["tx_packets"] + (n + 1) <= outputs'
         /\ ~overlapped' => counter'["tx_packets"] + (n + 1) = outputs'
    BY <1>1, <1>5, <1>9 DEF TotalInv, n
  <1>11. ~overlapped' => \A d \in CPUs : LoadedTx(d)' => cpu'[d].reg = counter'["tx_packets"]
    BY <1>1, <1>7, <1>9 DEF TotalInv
  <1>12. QED
    BY <1>4, <1>8, <1>9, <1>10, <1>11 DEF TotalInv, n

\* The store of tx_packets: what c owed is counted.
LEMMA TotalStored ==
  ASSUME HookTypes, TotalInv, NEW c \in CPUs, StoreCounter(c), cpu[c].then = "stats"
  PROVE  TotalInv'
  <1> DEFINE p == AfterCount(c, cpu[c])
             n == Cardinality(Owing)
             tx == counter["tx_packets"]
  <1>1. /\ Moves(c, p) /\ cpu[c].pc = "count" /\ cpu[c].what = "tx_packets" /\ outputs' = outputs
        /\ counter' = [counter EXCEPT !["tx_packets"] = cpu[c].reg + 1]
    BY StoreCounterStep DEF WellFormed
  <1>2. p.pc = "stats"
    BY <1>1, AfterFormed DEF Busy
  <1> HIDE DEF p
  <1>3. cpu'[c] = p /\ \A d \in CPUs \ {c} : cpu'[d] = cpu[d]
    BY <1>1, CpusMoved
  <1>4. Owing' = Owing \ {c} /\ c \in Owing /\ LoadedTx(c)
    BY <1>1, <1>2, <1>3 DEF Owing, OwesTx, LoadedTx
  <1>5. Cardinality(Owing') = n - 1
    BY <1>4, TotalNumbers, CpuSet
  <1>6. n \in Nat /\ tx \in Nat /\ outputs \in Nat /\ cpu[c].reg \in Nat
    BY TotalNumbers, PacketTypes
  <1>7. \A d \in CPUs : cpu[d].reg \in Nat
    BY PacketTypes
  <1>8. counter'["tx_packets"] = cpu[c].reg + 1
    BY <1>1 DEF HookTypes, Counters
  <1>9. \A d \in CPUs : LoadedTx(d)' => LoadedTx(d) /\ cpu'[d] = cpu[d] /\ d # c
    BY <1>2, <1>3 DEF LoadedTx
  <1>10. ~overlapped' => ~overlapped /\ \A d, e \in CPUs : Busy(cpu'[d]) /\ Busy(cpu'[e]) => d = e
    BY <1>1, <1>3 DEF Moves, TotalInv
  <1>11. ~overlapped => \A d \in CPUs : ~LoadedTx(d)'
    BY <1>1, <1>9 DEF TotalInv, LoadedTx, Busy
  <1>12. cpu[c].reg + n <= outputs /\ (~overlapped => cpu[c].reg = tx /\ tx + n = outputs)
    BY <1>4 DEF TotalInv
  <1>13. \A d \in CPUs : LoadedTx(d) => cpu[d].reg + n <= outputs
    BY DEF TotalInv
  <1> HIDE DEF n, tx
  <1>14. \A d \in CPUs : LoadedTx(d)' => cpu'[d].reg + (n - 1) <= outputs'
    BY <1>1, <1>6, <1>7, <1>9, <1>13
  <1>15. /\ counter'["tx_packets"] + (n - 1) <= outputs'
         /\ ~overlapped' => counter'["tx_packets"] + (n - 1) = outputs'
    BY <1>1, <1>6, <1>8, <1>10, <1>12
  <1>16. QED
    BY <1>5, <1>10, <1>11, <1>14, <1>15 DEF TotalInv

LEMMA TotalNext ==
  ASSUME IInv, HookTypes, TotalInv, [ForwardNext]_forwardVars
  PROVE  TotalInv'
  <1>1. ASSUME NEW c \in CPUs, NEW p, Quiet(c, p)
        PROVE  TotalInv'
    <2>1. /\ ~OwesTx(cpu[c]) /\ ~OwesTx(p) /\ Moves(c, p)
          /\ counter' = counter /\ outputs' = outputs
      BY <1>1 DEF Quiet, OwesStats
    <2>2. ~(p.pc = "count" /\ p.then = "stats")
      BY <2>1 DEF OwesTx
    <2>3. QED
      BY <2>1, <2>2, TotalSame
  <1>2. ASSUME NEW c \in CPUs, StoreCounter(c)
        PROVE  TotalInv'
    <2> DEFINE p == AfterCount(c, cpu[c])
    <2>1. /\ Moves(c, p) /\ cpu[c].pc = "count" /\ WellFormed(cpu[c]) /\ cpu[c].what \in Counters
          /\ counter' = [counter EXCEPT ![cpu[c].what] = cpu[c].reg + 1] /\ outputs' = outputs
      BY <1>2, StoreCounterStep
    <2>2. cpu[c].then \in {"idle", "copy", "tx", "stats"}
      BY PacketTypes DEF Packet
    <2>3. CASE cpu[c].then = "stats"
      BY <1>2, <2>3, TotalStored
    <2>4. CASE cpu[c].then # "stats"
      <3>1. counter'["tx_packets"] = counter["tx_packets"]
        BY <2>1, <2>4 DEF WellFormed, HookTypes, Counters
      <3>2. CASE cpu[c].then = "tx"
        <4>1. p.pc = "count" /\ p.then = "stats" /\ p.reg = counter["tx_packets"]
          BY <2>1, <3>2, AfterFormed DEF Busy
        <4>2. OwesTx(p) /\ OwesTx(cpu[c])
          BY <2>1, <3>2, <4>1 DEF OwesTx
        <4> HIDE DEF p
        <4>3. QED
          BY <2>1, <3>1, <4>1, <4>2, TotalSame
      <3>3. CASE cpu[c].then \in {"idle", "copy"}
        <4>1. p.pc \in {"idle", "copy"}
          BY <2>1, <3>3, AfterFormed DEF Busy
        <4>2. ~OwesTx(p) /\ ~OwesTx(cpu[c])
          BY <3>3, <4>1 DEF OwesTx
        <4> HIDE DEF p
        <4>3. QED
          BY <2>1, <3>1, <4>1, <4>2, TotalSame
      <3>4. QED
        BY <2>2, <2>4, <3>2, <3>3
    <2>5. QED
      BY <2>3, <2>4
  <1>3. ASSUME NEW c \in CPUs, StoreStats(c)
        PROVE  TotalInv'
    <2> DEFINE p == AfterCount(c, cpu[c])
    <2>1. /\ Moves(c, p) /\ cpu[c].pc = "stats" /\ p.pc = "copy"
          /\ counter' = counter /\ outputs' = outputs
      BY <1>3, StoreStatsStep
    <2> HIDE DEF p
    <2>2. ~OwesTx(p) /\ ~OwesTx(cpu[c])
      BY <2>1 DEF OwesTx
    <2>3. QED
      BY <2>1, <2>2, TotalSame
  <1>4. CASE Request
    <2>1. \A c \in CPUs : /\ cpu'[c].pc = cpu[c].pc /\ cpu'[c].then = cpu[c].then
                          /\ cpu'[c].reg = cpu[c].reg
      BY <1>4, RequestCpus
    <2>2. UNCHANGED <<counter, outputs, overlapped>>
      BY <1>4 DEF Request
    <2>3. Owing' = Owing
      BY <2>1 DEF Owing, OwesTx
    <2>4. QED
      BY <2>1, <2>2, <2>3 DEF TotalInv, LoadedTx, Busy
  <1>5. CASE UNCHANGED forwardVars
    <2>1. UNCHANGED <<counter, cpu, outputs, overlapped>>
      BY <1>5 DEF forwardVars
    <2>2. Owing' = Owing
      BY <2>1 DEF Owing
    <2>3. QED
      BY <2>1, <2>2 DEF TotalInv, LoadedTx
  <1>6. QED
    BY <1>1, <1>2, <1>3, <1>4, <1>5, TotalOutput, TurnsQuiet, ArrivalsQuiet, ReturnQuiet
    DEF ForwardNext, HookStep

-----------------------------------------------------------------------------
(* multi_grp_stats                                                         *)

\* Packets that have still to be counted under i, for the group that owns it now.
FreshFor(i) == {c \in CPUs : OwesStats(cpu[c]) /\ ~cpu[c].stale /\ cpu[c].idx = i}

(***************************************************************************)
(* A packet that is not stale holds an index in use.  What is counted under*)
(* an index, or loaded to be counted, and what is owed to it never exceed  *)
(* the copies sent for its owner, until a stray packet is counted there.   *)
(***************************************************************************)
StatsInv ==
  /\ \A c \in CPUs : HoldsIndex(cpu[c]) /\ ~cpu[c].stale => cpu[c].idx \in UsedIndexes
  /\ \A i \in UsedIndexes :
       ~strayed[i] =>
         /\ multi_stats[i] + Cardinality(FreshFor(i)) <= outputsOf[i]
         /\ \A c \in FreshFor(i) :
              cpu[c].pc = "stats" => cpu[c].reg + Cardinality(FreshFor(i)) <= outputsOf[i]

LEMMA FreshNumbers ==
  ASSUME HookTypes, NEW i \in Indexes
  PROVE  /\ FreshFor(i) \in SUBSET CPUs /\ Cardinality(FreshFor(i)) \in Nat
         /\ multi_stats[i] \in Nat /\ outputsOf[i] \in Nat
  <1>1. FreshFor(i) \in SUBSET CPUs
    BY DEF FreshFor
  <1>2. Cardinality(FreshFor(i)) \in Nat
    BY <1>1, CpuSet
  <1>3. QED
    BY <1>1, <1>2 DEF HookTypes

\* A request gives the index of a deleted group back, and hands out indexes with a count
\* of 0; it leaves the counts of the other groups alone.
RequestCounts ==
  /\ UsedIndexes \ UsedIndexes' \subseteq bitmap \ bitmap'
  /\ \A i \in UsedIndexes' \ UsedIndexes : i \in bitmap' \ bitmap /\ multi_stats'[i] = 0
  /\ \A i \in UsedIndexes \cap UsedIndexes' :
       multi_stats'[i] = multi_stats[i] /\ i \notin bitmap' \ bitmap

LEMMA RequestIndexes ==
  ASSUME IInv, IInv', IndexesFit, Next
  PROVE  RequestCounts
  <1>1. ASSUME ~spinning, ~spinning', bitmap' \subseteq bitmap, multi_stats' = multi_stats
        PROVE  RequestCounts
    BY <1>1 DEF IInv, BitmapExact, RequestCounts
  <1>2. ASSUME NEW g \in Groups, NEW R \in Requests, CreateGroup(g, R)
        PROVE  RequestCounts
    <2>1. ~spinning /\ ~spinning' /\ ~Exists(g)
      BY <1>2 DEF CreateGroup, Lock
    <2>2. PICK i \in Indexes : /\ GetIdx(i) /\ bitmap' = SetBit(i)
                               /\ multi_stats' = [multi_stats EXCEPT ![i] = 0]
      BY <1>2 DEF CreateGroup
    <2>3. bitmap' = bitmap \cup {i} /\ i \notin bitmap
      BY <2>1, <2>2, NewIndex DEF SetBit
    <2>4. multi_stats \in [Indexes -> Nat] /\ UsedIndexes \subseteq Indexes
      BY DEF IInv, TypeOK, UsedIndexes
    <2>5. UsedIndexes = bitmap /\ UsedIndexes' = bitmap'
      BY <2>1 DEF IInv, BitmapExact
    <2>6. QED
      BY <2>2, <2>3, <2>4, <2>5 DEF RequestCounts
  <1>3. ASSUME NEW g \in Groups, CreateSpins(g)
        PROVE  RequestCounts
    <2>1. UNCHANGED <<multi_grp, multi_stats>> /\ ~spinning /\ ~Exists(g)
      BY <1>3 DEF CreateSpins, Lock
    <2>2. UsedIndexes' = UsedIndexes /\ UsedIndexes = bitmap
      BY <2>1 DEF IInv, BitmapExact, UsedIndexes, Created, IdxAt
    <2>3. QED
      BY <2>1, <2>2 DEF RequestCounts
  <1>4. CASE Clear
    <2>1. ~spinning /\ ~spinning' /\ bitmap' = bitmap \ ClearedIndexes
      BY <1>4 DEF Clear, Lock
    <2>2. UsedIndexes = bitmap /\ UsedIndexes' = bitmap' /\ ClearedIndexes = UsedIndexes
      BY <2>1, ClearedAll DEF IInv, BitmapExact
    <2>3. QED
      BY <2>1, <2>2 DEF RequestCounts
  <1>5. ASSUME NEW g \in Groups, CreateBucketFull(g)
        PROVE  RequestCounts
    <2>1. PICK i \in Indexes : bitmap' = SetBit(i) \ {i}
      BY <1>5 DEF CreateBucketFull
    <2>2. bitmap' \subseteq bitmap
      BY <2>1 DEF SetBit
    <2>3. QED
      BY <1>1, <1>5, <2>2 DEF CreateBucketFull, Lock
  <1>6. ASSUME NEW g \in Groups, NEW R \in Requests, AppendToGroup(g, R) \/ Quit(g, R)
        PROVE  RequestCounts
    <2>1. ~spinning /\ UNCHANGED <<bitmap, multi_stats, spinning>>
      BY <1>6 DEF AppendToGroup, Quit, Lock
    <2>2. QED
      BY <1>1, <2>1
  <1>7. ASSUME NEW g \in Groups, DeleteFound(g)
        PROVE  RequestCounts
    <2>1. ~spinning /\ UNCHANGED <<multi_stats, spinning>> /\ bitmap' \subseteq bitmap
      BY <1>7 DEF DeleteFound, Lock, PutIdx
    <2>2. QED
      BY <1>1, <2>1
  <1>8. ASSUME Lock, Unchanged
        PROVE  RequestCounts
    BY <1>1, <1>8 DEF Lock, Unchanged
  <1>9. ASSUME NEW g \in Groups, NEW R \in Requests,
               \/ AppendRefused(g, R)
               \/ CreateNoIndex(g)
               \/ GroupMissing(g)
               \/ DeleteMissing(g)
               \/ ReadGroup(g)
        PROVE  RequestCounts
    BY <1>8, <1>9 DEF AppendRefused, CreateNoIndex, GroupMissing, DeleteMissing, ReadGroup
  <1>10. {} \in Requests
    <2>1. Cardinality({}) = 0
      BY FS_EmptySet
    <2>2. QED
      BY <2>1, Sizes DEF Requests
  <1>11. QED
    <2>1. ASSUME NEW g \in Groups, NEW R \in Requests,
                 \/ AppendToGroup(g, R)
                 \/ AppendRefused(g, R)
                 \/ CreateGroup(g, R)
                 \/ Quit(g, R)
          PROVE  RequestCounts
      BY <1>2, <1>6, <1>9, <2>1
    <2>2. ASSUME NEW g \in Groups,
                 \/ CreateNoIndex(g)
                 \/ CreateBucketFull(g)
                 \/ CreateSpins(g)
                 \/ GroupMissing(g)
                 \/ DeleteFound(g)
                 \/ DeleteMissing(g)
                 \/ ReadGroup(g)
          PROVE  RequestCounts
      BY <1>3, <1>5, <1>7, <1>9, <1>10, <2>2
    <2>3. QED
      BY <1>4, <2>1, <2>2, NextCases

LEMMA StatsInit == ForwardInit => StatsInv
  <1> SUFFICES ASSUME ForwardInit PROVE StatsInv
    OBVIOUS
  <1>1. UsedIndexes = {}
    BY DEF ForwardInit, Init, UsedIndexes, Created, FreeNode
  <1>2. \A c \in CPUs : ~HoldsIndex(cpu[c])
    BY DEF ForwardInit, HoldsIndex, Idle
  <1>3. QED
    BY <1>1, <1>2 DEF StatsInv

\* A packet that owes its index a count still holds it.
LEMMA OwesHolds ==
  ASSUME NEW p, OwesStats(p)
  PROVE  HoldsIndex(p)
  BY DEF OwesStats, OwesTx, HoldsIndex

\* After c moves, every packet that is not stale holds an index in use.
LEMMA OwnersMoved ==
  ASSUME HookTypes, StatsInv, NEW c \in CPUs, NEW p, Moves(c, p), UsedIndexes' = UsedIndexes,
         HoldsIndex(p) /\ ~p.stale =>
           \/ p.idx \in UsedIndexes
           \/ HoldsIndex(cpu[c]) /\ ~cpu[c].stale /\ cpu[c].idx = p.idx
  PROVE  \A d \in CPUs : HoldsIndex(cpu'[d]) /\ ~cpu'[d].stale => cpu'[d].idx \in UsedIndexes'
  BY CpusMoved DEF StatsInv

\* A step that leaves the counts of the indexes and what is owed to them alone.
LEMMA StatsSame ==
  ASSUME HookTypes, StatsInv, NEW c \in CPUs, NEW p, Moves(c, p),
         UNCHANGED <<tableVars, outputsOf, strayed>>,
         OwesStats(p) <=> OwesStats(cpu[c]),
         OwesStats(p) => p.idx = cpu[c].idx /\ p.stale = cpu[c].stale,
         p.pc = "stats" => p.reg = multi_stats[p.idx],
         HoldsIndex(p) /\ ~p.stale =>
           \/ p.idx \in UsedIndexes
           \/ HoldsIndex(cpu[c]) /\ ~cpu[c].stale /\ cpu[c].idx = p.idx
  PROVE  StatsInv'
  <1>1. cpu'[c] = p /\ \A d \in CPUs \ {c} : cpu'[d] = cpu[d]
    BY CpusMoved
  <1>2. UsedIndexes' = UsedIndexes /\ multi_stats' = multi_stats
    BY DEF tableVars, UsedIndexes, Created, IdxAt
  <1>3. ASSUME NEW i PROVE FreshFor(i)' = FreshFor(i)
    BY <1>1 DEF FreshFor
  <1>4. ASSUME NEW i \in UsedIndexes, ~strayed'[i]
        PROVE  /\ multi_stats'[i] + Cardinality(FreshFor(i)') <= outputsOf'[i]
               /\ \A d \in FreshFor(i)' :
                    cpu'[d].pc = "stats" => cpu'[d].reg + Cardinality(FreshFor(i)') <= outputsOf'[i]
    <2>1. /\ multi_stats[i] + Cardinality(FreshFor(i)) <= outputsOf[i]
          /\ \A d \in FreshFor(i) :
               cpu[d].pc = "stats" => cpu[d].reg + Cardinality(FreshFor(i)) <= outputsOf[i]
      BY <1>4 DEF StatsInv
    <2>2. ASSUME NEW d \in FreshFor(i), cpu'[d].pc = "stats"
          PROVE  cpu'[d].reg + Cardinality(FreshFor(i)) <= outputsOf[i]
      <3>1. CASE d = c
        <4>1. p.reg = multi_stats[i]
          BY <1>1, <1>3, <2>2, <3>1 DEF FreshFor
        <4>2. QED
          BY <1>1, <2>1, <3>1, <4>1
      <3>2. CASE d # c
        BY <1>1, <2>1, <2>2, <3>2 DEF FreshFor
      <3>3. QED
        BY <3>1, <3>2
    <2>3. QED
      BY <1>2, <1>3, <2>1, <2>2
  <1>5. QED
    BY <1>2, <1>4, OwnersMoved DEF StatsInv

LEMMA StatsOutput ==
  ASSUME HookTypes, StatsInv, NEW c \in CPUs, NEW v \in VMs, Output(c, v)
  PROVE  StatsInv'
  <1>1. PICK p : /\ Moves(c, p) /\ cpu[c].pc = "copy" /\ p.pc = "count" /\ p.then = "tx"
                 /\ p.idx = cpu[c].idx /\ p.stale = cpu[c].stale
                 /\ outputsOf' = IF p.stale THEN outputsOf ELSE [outputsOf EXCEPT ![p.idx] = @ + 1]
                 /\ UNCHANGED <<tableVars, counter, strayed>>
    BY OutputStep
  <1>2. cpu'[c] = p /\ \A d \in CPUs \ {c} : cpu'[d] = cpu[d]
    BY <1>1, CpusMoved
  <1>3. UsedIndexes' = UsedIndexes /\ multi_stats' = multi_stats /\ UsedIndexes \subseteq Indexes
    BY <1>1 DEF tableVars, UsedIndexes, Created, IdxAt
  <1>4. HoldsIndex(cpu[c])
    BY <1>1 DEF HoldsIndex
  <1>5. c \notin FreshFor(p.idx) /\ ~OwesStats(cpu[c]) /\ OwesStats(p)
    BY <1>1 DEF FreshFor, OwesStats, OwesTx
  <1>6. ASSUME NEW i \in UsedIndexes, ~strayed'[i]
        PROVE  /\ multi_stats'[i] + Cardinality(FreshFor(i)') <= outputsOf'[i]
               /\ \A d \in FreshFor(i)' :
                    cpu'[d].pc = "stats" => cpu'[d].reg + Cardinality(FreshFor(i)') <= outputsOf'[i]
    <2> DEFINE n == Cardinality(FreshFor(i))
    <2>1. n \in Nat /\ multi_stats[i] \in Nat /\ outputsOf[i] \in Nat /\ FreshFor(i) \in SUBSET CPUs
      BY <1>3, FreshNumbers
    <2>2. \A d \in CPUs : cpu[d].reg \in Nat
      BY PacketTypes
    <2>3. /\ multi_stats[i] + n <= outputsOf[i]
          /\ \A d \in FreshFor(i) : cpu[d].pc = "stats" => cpu[d].reg + n <= outputsOf[i]
      BY <1>1, <1>6 DEF StatsInv
    <2>4. \A d \in FreshFor(i)' :
            cpu'[d].pc = "stats" => d \in FreshFor(i) /\ d \in CPUs /\ cpu'[d] = cpu[d]
      BY <1>1, <1>2 DEF FreshFor
    <2>5. CASE ~p.stale /\ p.idx = i
      <3>1. FreshFor(i)' = FreshFor(i) \cup {c}
        BY <1>2, <1>5, <2>5 DEF FreshFor
      <3>2. Cardinality(FreshFor(i)') = n + 1
        BY <1>5, <2>1, <2>5, <3>1, CpuSet
      <3>3. outputsOf'[i] = outputsOf[i] + 1
        BY <1>1, <1>3, <2>5 DEF HookTypes
      <3> HIDE DEF n
      <3>4. QED
        BY <1>3, <2>1, <2>2, <2>3, <2>4, <3>2, <3>3
    <2>6. CASE ~(~p.stale /\ p.idx = i)
      <3>1. FreshFor(i)' = FreshFor(i)
        BY <1>1, <1>2, <1>5, <2>6 DEF FreshFor
      <3>2. outputsOf'[i] = outputsOf[i]
        BY <1>1, <1>3, <2>6 DEF HookTypes
      <3>3. QED
        BY <1>3, <2>3, <2>4, <3>1, <3>2
    <2>7. QED
      BY <2>5, <2>6
  <1>7. \A d \in CPUs : HoldsIndex(cpu'[d]) /\ ~cpu'[d].stale => cpu'[d].idx \in UsedIndexes'
    BY <1>1, <1>3, <1>4, OwnersMoved
  <1>8. QED
    BY <1>3, <1>6, <1>7 DEF StatsInv

LEMMA StatsStored ==
  ASSUME HookTypes, StatsInv, NEW c \in CPUs, StoreStats(c)
  PROVE  StatsInv'
  <1> DEFINE p == AfterCount(c, cpu[c])
  <1>1. /\ Moves(c, p) /\ cpu[c].pc = "stats" /\ p.pc = "copy" /\ cpu[c] \in Packet
        /\ p.idx = cpu[c].idx /\ p.stale = cpu[c].stale
        /\ multi_stats' = [multi_stats EXCEPT ![cpu[c].idx] = cpu[c].reg + 1]
        /\ strayed' = IF cpu[c].stale THEN [strayed EXCEPT ![cpu[c].idx] = TRUE] ELSE strayed
        /\ UNCHANGED <<multi_grp, outputsOf>>
    BY StoreStatsStep
  <1> HIDE DEF p
  <1>2. cpu'[c] = p /\ \A d \in CPUs \ {c} : cpu'[d] = cpu[d]
    BY <1>1, CpusMoved
  <1>3. UsedIndexes' = UsedIndexes /\ UsedIndexes \subseteq Indexes
    BY <1>1 DEF UsedIndexes, Created, IdxAt
  <1>4. HoldsIndex(cpu[c]) /\ ~OwesStats(p) /\ OwesStats(cpu[c])
    BY <1>1 DEF HoldsIndex, OwesStats, OwesTx
  <1>5. ASSUME NEW i \in UsedIndexes, ~strayed'[i]
        PROVE  /\ multi_stats'[i] + Cardinality(FreshFor(i)') <= outputsOf'[i]
               /\ \A d \in FreshFor(i)' :
                    cpu'[d].pc = "stats" => cpu'[d].reg + Cardinality(FreshFor(i)') <= outputsOf'[i]
    <2> DEFINE n == Cardinality(FreshFor(i))
    <2>1. n \in Nat /\ multi_stats[i] \in Nat /\ outputsOf[i] \in Nat /\ FreshFor(i) \in SUBSET CPUs
      BY <1>3, FreshNumbers
    <2>2. \A d \in CPUs : cpu[d].reg \in Nat
      BY PacketTypes
    <2>3. ~strayed[i] /\ ~(cpu[c].stale /\ cpu[c].idx = i)
      BY <1>1, <1>3, <1>5 DEF HookTypes
    <2>4. /\ multi_stats[i] + n <= outputsOf[i]
          /\ \A d \in FreshFor(i) : cpu[d].pc = "stats" => cpu[d].reg + n <= outputsOf[i]
      BY <2>3 DEF StatsInv
    <2>5. \A d \in FreshFor(i)' : d \in FreshFor(i) /\ d \in CPUs /\ cpu'[d] = cpu[d]
      BY <1>2, <1>4 DEF FreshFor
    <2>6. CASE cpu[c].idx = i
      <3>1. c \in FreshFor(i) /\ FreshFor(i)' = FreshFor(i) \ {c}
        BY <1>2, <1>4, <2>3, <2>6 DEF FreshFor
      <3>2. Cardinality(FreshFor(i)') = n - 1
        BY <2>1, <3>1, CpuSet
      <3>3. multi_stats'[i] = cpu[c].reg + 1
        BY <1>1, <1>3, <2>6 DEF HookTypes
      <3>4. cpu[c].reg + n <= outputsOf[i]
        BY <1>1, <2>4, <3>1
      <3> HIDE DEF n
      <3>5. QED
        BY <1>1, <2>1, <2>2, <2>4, <2>5, <3>2, <3>3, <3>4
    <2>7. CASE cpu[c].idx # i
      <3>1. FreshFor(i)' = FreshFor(i)
        BY <1>1, <1>2, <2>7 DEF FreshFor
      <3>2. multi_stats'[i] = multi_stats[i]
        BY <1>1, <1>3, <2>7 DEF HookTypes
      <3>3. QED
        BY <1>1, <2>4, <2>5, <3>1, <3>2
    <2>8. QED
      BY <2>6, <2>7
  <1>6. \A d \in CPUs : HoldsIndex(cpu'[d]) /\ ~cpu'[d].stale => cpu'[d].idx \in UsedIndexes'
    BY <1>1, <1>3, <1>4, OwnersMoved
  <1>7. QED
    BY <1>3, <1>5, <1>6 DEF StatsInv

LEMMA StatsRequest ==
  ASSUME IInv, IInv', IndexesFit, HookTypes, HookTypes', StatsInv, Request
  PROVE  StatsInv'
  <1>1. RequestCounts
    BY RequestIndexes DEF Request
  <1>2. \A c \in CPUs : /\ cpu'[c].pc = cpu[c].pc /\ cpu'[c].then = cpu[c].then
                        /\ cpu'[c].idx = cpu[c].idx /\ cpu'[c].reg = cpu[c].reg
                        /\ cpu'[c].stale <=>
                             cpu[c].stale \/ (HoldsIndex(cpu[c]) /\ cpu[c].idx \in bitmap \ bitmap')
    BY RequestCpus
  <1>3. \A c \in CPUs : /\ HoldsIndex(cpu'[c]) <=> HoldsIndex(cpu[c])
                        /\ OwesStats(cpu'[c]) <=> OwesStats(cpu[c])
    BY <1>2 DEF HoldsIndex, OwesStats, OwesTx
  <1>4. ASSUME NEW c \in CPUs, HoldsIndex(cpu'[c]), ~cpu'[c].stale
        PROVE  /\ cpu[c].idx \in UsedIndexes /\ cpu'[c].idx \in UsedIndexes' /\ ~cpu[c].stale
               /\ cpu'[c].idx = cpu[c].idx
    BY <1>1, <1>2, <1>3, <1>4 DEF StatsInv, RequestCounts
  <1>5. UsedIndexes \subseteq Indexes /\ UsedIndexes' \subseteq Indexes
    BY DEF UsedIndexes
  <1>6. ASSUME NEW i \in UsedIndexes', ~strayed'[i]
        PROVE  /\ multi_stats'[i] + Cardinality(FreshFor(i)') <= outputsOf'[i]
               /\ \A d \in FreshFor(i)' :
                    cpu'[d].pc = "stats" => cpu'[d].reg + Cardinality(FreshFor(i)') <= outputsOf'[i]
    <2>1. \A d \in FreshFor(i)' : d \in CPUs /\ d \in FreshFor(i) /\ i \in UsedIndexes
      <3>1. ASSUME NEW d \in FreshFor(i)'
            PROVE  d \in CPUs /\ OwesStats(cpu'[d]) /\ ~cpu'[d].stale /\ cpu'[d].idx = i
        BY <3>1 DEF FreshFor
      <3>2. ASSUME NEW d \in FreshFor(i)' PROVE HoldsIndex(cpu'[d])
        BY <3>1, OwesHolds
      <3>3. QED
        BY <1>3, <1>4, <3>1, <3>2 DEF FreshFor
    <2>2. CASE i \notin UsedIndexes
      <3>1. FreshFor(i)' = {}
        BY <2>1, <2>2
      <3>2. Cardinality(FreshFor(i)') = 0
        BY <3>1, FS_EmptySet
      <3>3. i \in bitmap' \ bitmap /\ multi_stats'[i] = 0
        BY <1>1, <2>2 DEF RequestCounts
      <3>4. outputsOf'[i] = 0
        BY <1>5, <3>3 DEF Request
      <3>5. QED
        BY <3>1, <3>2, <3>3, <3>4
    <2>3. CASE i \in UsedIndexes
      <3> DEFINE n == Cardinality(FreshFor(i))
                 m == Cardinality(FreshFor(i)')
      <3>1. multi_stats'[i] = multi_stats[i] /\ i \notin bitmap' \ bitmap
        BY <1>1, <2>3 DEF RequestCounts
      <3>2. outputsOf'[i] = outputsOf[i] /\ ~strayed[i]
        BY <1>5, <1>6, <3>1 DEF Request
      <3>3. /\ multi_stats[i] + n <= outputsOf[i]
            /\ \A d \in FreshFor(i) : cpu[d].pc = "stats" => cpu[d].reg + n <= outputsOf[i]
        BY <2>3, <3>2 DEF StatsInv
      <3>4. n \in Nat /\ multi_stats[i] \in Nat /\ outputsOf[i] \in Nat /\ FreshFor(i) \in SUBSET CPUs
        BY <1>5, FreshNumbers
      <3>5. FreshFor(i)' \in SUBSET FreshFor(i)
        BY <2>1
      <3>6. m \in Nat /\ m <= n
        BY <3>4, <3>5, CpuSet
      <3>7. \A d \in CPUs : cpu[d].reg \in Nat
        BY PacketTypes
      <3> HIDE DEF n, m
      <3>8. multi_stats'[i] + m <= outputsOf'[i]
        BY <3>1, <3>2, <3>3, <3>4, <3>6
      <3>9. ASSUME NEW d \in FreshFor(i)', cpu'[d].pc = "stats"
            PROVE  cpu'[d].reg + m <= outputsOf'[i]
        <4>1. d \in CPUs /\ d \in FreshFor(i) /\ cpu'[d].reg = cpu[d].reg /\ cpu[d].pc = "stats"
          BY <1>2, <2>1, <3>9
        <4>2. cpu[d].reg + n <= outputsOf[i] /\ cpu[d].reg \in Nat
          BY <3>3, <3>7, <4>1
        <4>3. QED
          BY <3>2, <3>4, <3>6, <4>1, <4>2
      <3>10. QED
        BY <3>8, <3>9 DEF m
    <2>4. QED
      BY <2>2, <2>3
  <1>7. QED
    BY <1>4, <1>6 DEF StatsInv

LEMMA StatsNext ==
  ASSUME IInv, IInv', IndexesFit, HookTypes, HookTypes', StatsInv, [ForwardNext]_forwardVars
  PROVE  StatsInv'
  <1>1. ASSUME NEW c \in CPUs, NEW p, Quiet(c, p)
        PROVE  StatsInv'
    <2>1. p.pc # "stats"
      BY <1>1 DEF Quiet, OwesStats
    <2>2. QED
      BY <1>1, <2>1, StatsSame DEF Quiet
  <1>2. ASSUME NEW c \in CPUs, StoreCounter(c)
        PROVE  StatsInv'
    <2> DEFINE p == AfterCount(c, cpu[c])
    <2>1. /\ Moves(c, p) /\ cpu[c].pc = "count"
          /\ UNCHANGED <<tableVars, outputsOf, strayed>>
      BY <1>2, StoreCounterStep
    <2>2. cpu[c].then \in {"idle", "copy", "tx", "stats"}
      BY PacketTypes DEF Packet
    <2>3. /\ cpu[c].then = "idle" => p.pc = "idle"
          /\ cpu[c].then = "copy" => p.pc = "copy"
          /\ cpu[c].then # "idle" => p.idx = cpu[c].idx /\ p.stale = cpu[c].stale
          /\ cpu[c].then = "tx" => p.pc = "count" /\ p.then = "stats"
          /\ cpu[c].then = "stats" => p.pc = "stats" /\ p.reg = multi_stats[cpu[c].idx]
      BY <2>1, AfterFormed DEF Busy
    <2> HIDE DEF p
    <2>4. /\ OwesStats(p) <=> OwesStats(cpu[c])
          /\ OwesStats(p) => p.idx = cpu[c].idx /\ p.stale = cpu[c].stale
          /\ p.pc = "stats" => p.reg = multi_stats[p.idx]
      BY <2>1, <2>2, <2>3 DEF OwesStats, OwesTx
    <2>5. HoldsIndex(p) /\ ~p.stale => HoldsIndex(cpu[c]) /\ ~cpu[c].stale /\ cpu[c].idx = p.idx
      BY <2>1, <2>2, <2>3 DEF HoldsIndex
    <2>6. QED
      BY <2>1, <2>4, <2>5, StatsSame
  <1>3. CASE UNCHANGED forwardVars
    <2>1. /\ UNCHANGED <<multi_grp, multi_stats, cpu, outputsOf, strayed>>
      BY <1>3 DEF forwardVars, tableVars
    <2>2. UsedIndexes' = UsedIndexes /\ \A i \in UsedIndexes : FreshFor(i)' = FreshFor(i)
      BY <2>1 DEF UsedIndexes, Created, IdxAt, FreshFor
    <2>3. QED
      BY <2>1, <2>2 DEF StatsInv
  <1>4. QED
    BY <1>1, <1>2, <1>3, StatsOutput, StatsStored, StatsRequest, TurnsQuiet, ArrivalsQuiet,
       ReturnQuiet DEF ForwardNext, HookStep

-----------------------------------------------------------------------------
HookInv == IInv /\ HookTypes /\ TotalInv /\ StatsInv

LEMMA HookInvInit == ForwardInit => HookInv
  BY InitInv, TypesInit, TotalInit, StatsInit DEF HookInv, ForwardInit

LEMMA HookInvNext ==
  ASSUME IndexesFit, HookInv, [ForwardNext]_forwardVars
  PROVE  HookInv'
  <1>1. HookTypes'
    <2>1. CASE ForwardNext
      BY <2>1, TypesNext DEF HookInv
    <2>2. CASE UNCHANGED forwardVars
      BY <2>2 DEF HookInv, HookTypes, forwardVars, tableVars, WellFormed
    <2>3. QED
      BY <2>1, <2>2
  <1>2. IInv' /\ TotalInv'
    BY TableNext, TotalNext DEF HookInv
  <1>3. StatsInv'
    BY <1>1, <1>2, StatsNext DEF HookInv
  <1>4. QED
    BY <1>1, <1>2, <1>3 DEF HookInv

LEMMA HookInvariant == ASSUME IndexesFit PROVE ForwardSpec => []HookInv
  <1>1. HookInv /\ [ForwardNext]_forwardVars => HookInv'
    BY HookInvNext
  <1>2. QED
    BY <1>1, HookInvInit, PTL DEF ForwardSpec

LEMMA TotalExact ==
  ASSUME HookTypes, TotalInv
  PROVE  ExactUnlessOverlapped
  <1> DEFINE n == Cardinality(Owing)
             tx == counter["tx_packets"]
  <1>1. n \in Nat /\ tx \in Nat /\ outputs \in Nat
    BY TotalNumbers
  <1>2. tx + n <= outputs /\ (~overlapped => tx + n = outputs)
    BY DEF TotalInv
  <1>3. (\A c \in CPUs : cpu[c].pc = "idle") => n = 0
    <2>1. (\A c \in CPUs : cpu[c].pc = "idle") => Owing = {}
      BY DEF Owing, OwesTx
    <2>2. QED
      BY <2>1, FS_EmptySet
  <1> HIDE DEF n, tx
  <1>4. tx <= outputs /\ (~overlapped /\ n = 0 => tx = outputs)
    BY <1>1, <1>2
  <1>5. QED
    BY <1>3, <1>4 DEF ExactUnlessOverlapped, tx

\* tx_packets, counted with plain loads and stores on any number of CPUs, never exceeds the
\* copies handed to ip_local_out, and is exact at rest if no two CPUs ever counted at once.
THEOREM CountsNeverInvented == ASSUME IndexesFit PROVE ForwardSpec => []ExactUnlessOverlapped
  <1>1. HookInv => ExactUnlessOverlapped
    BY TotalExact DEF HookInv
  <1>2. QED
    BY <1>1, HookInvariant, PTL

\* A group's count under its index, taken without the lock for packets looked up before, is
\* never more than the copies sent for it since it was created, unless a packet of the
\* index's former owner was counted there: del_multi_node and add_multi_node hand indexes
\* on without a count.
THEOREM GroupsCountOwnCopies == ASSUME IndexesFit PROVE ForwardSpec => []CountsOwnCopies
  <1>1. HookInv => CountsOwnCopies
    <2> SUFFICES ASSUME HookInv, NEW b \in Buckets, NEW r \in Rows, Created(b, r),
                        ~strayed[IdxAt(b, r)]
                 PROVE  multi_stats[IdxAt(b, r)] <= outputsOf[IdxAt(b, r)]
      BY DEF CountsOwnCopies
    <2> DEFINE i == IdxAt(b, r)
               n == Cardinality(FreshFor(i))
    <2>1. i \in Indexes /\ i \in UsedIndexes
      BY ListOfRow DEF HookInv, UsedIndexes
    <2>2. multi_stats[i] + n <= outputsOf[i]
      BY <2>1 DEF HookInv, StatsInv
    <2>3. n \in Nat /\ multi_stats[i] \in Nat /\ outputsOf[i] \in Nat
      BY <2>1, FreshNumbers DEF HookInv
    <2> HIDE DEF i, n
    <2>4. multi_stats[i] <= outputsOf[i]
      BY <2>2, <2>3
    <2>5. QED
      BY <2>4 DEF i
  <1>2. QED
    BY <1>1, HookInvariant, PTL

-----------------------------------------------------------------------------
(* The bounds of the hook's counters                                       *)

\* The members that packets under way have still to serve, and the packets of which the
\* counter name has still to be stored.
Unserved == {x \in CPUs \X VMs : x[2] \in cpu[x[1]].left}
ToCount(name) ==
  {c \in CPUs : cpu[c].pc = "count"
                /\ (cpu[c].what = name \/ (name = "tx_packets" /\ cpu[c].then = "tx"))}
Ahead(name) == Cardinality(ToCount(name)) + Cardinality(Unserved)
MaxCount == arrived * (VmMax + 1)

(***************************************************************************)
(* A counter, or a value of it that somebody has loaded however long ago,  *)
(* leaves room for what is still to be counted; an unserved member will be *)
(* counted at most once by each counter.                                   *)
(***************************************************************************)
CountsBounded ==
  /\ \A name \in Counters : counter[name] + Ahead(name) <= MaxCount
  /\ \A name \in Counters, c \in CPUs :
       cpu[c].pc = "count" /\ cpu[c].what = name => cpu[c].reg + Ahead(name) <= MaxCount
OutputsBounded ==
  /\ arrived \in 0 .. MaxPackets
  /\ outputs + Cardinality(Unserved) <= arrived * VmMax
  /\ \A i \in Indexes : outputsOf[i] <= outputs
BoundInv == CountsBounded /\ OutputsBounded

\* VmMax copies and one more for a packet: the bounds grow with the packets.
LEMMA Products ==
  ASSUME NEW a \in Nat
  PROVE  /\ a * VmMax \in Nat /\ (a + 1) * VmMax = a * VmMax + VmMax
         /\ a * (VmMax + 1) \in Nat /\ (a + 1) * (VmMax + 1) = a * (VmMax + 1) + (VmMax + 1)
         /\ VmMax \in Nat
  <1>1. VmMax \in Nat
    BY Sizes
  <1>2. PICK m : m = VmMax
    OBVIOUS
  <1>3. a * m \in Nat /\ (a + 1) * m = a * m + m
    BY <1>1, <1>2
  <1>4. a * (m + 1) \in Nat /\ (a + 1) * (m + 1) = a * (m + 1) + (m + 1)
    BY <1>1, <1>2
  <1>5. QED
    BY <1>1, <1>2, <1>3, <1>4

\* Pairs of a CPU and a member it has still to serve.
LEMMA PairSet ==
  ASSUME NEW S \in SUBSET (CPUs \X VMs)
  PROVE  /\ IsFiniteSet(S) /\ Cardinality(S) \in Nat
         /\ \A T \in SUBSET S : IsFiniteSet(T) /\ Cardinality(T) \in Nat
                                /\ Cardinality(T) <= Cardinality(S)
         /\ \A x \in S : Cardinality(S \ {x}) = Cardinality(S) - 1
         /\ \A T : IsFiniteSet(T) => /\ Cardinality(T) \in Nat /\ IsFiniteSet(S \cup T)
                                     /\ Cardinality(S \cup T) <= Cardinality(S) + Cardinality(T)
  <1>1. IsFiniteSet(CPUs \X VMs)
    BY ForwardAssumption, ServerAssumption, FS_Product
  <1>2. IsFiniteSet(S) /\ Cardinality(S) \in Nat
    BY <1>1, FS_Subset, FS_CardinalityType
  <1>3. \A T \in SUBSET S : IsFiniteSet(T) /\ Cardinality(T) <= Cardinality(S)
    BY <1>2, FS_Subset
  <1>4. \A T \in SUBSET S : Cardinality(T) \in Nat
    BY <1>3, FS_CardinalityType
  <1>5. \A x \in S : Cardinality(S \ {x}) = Cardinality(S) - 1
    BY <1>2, FS_RemoveElement
  <1>6. ASSUME NEW T, IsFiniteSet(T)
        PROVE  /\ Cardinality(T) \in Nat /\ IsFiniteSet(S \cup T)
               /\ Cardinality(S \cup T) <= Cardinality(S) + Cardinality(T)
    <2>1. Cardinality(T) \in Nat
      BY <1>6, FS_CardinalityType
    <2>2. /\ IsFiniteSet(S \cup T)
          /\ Cardinality(S \cup T) = Cardinality(S) + Cardinality(T) - Cardinality(S \cap T)
      BY <1>2, <1>6, FS_Union
    <2>3. Cardinality(S \cap T) \in Nat
      BY <1>4
    <2>4. QED
      BY <1>2, <2>1, <2>2, <2>3
  <1>7. QED
    BY <1>2, <1>3, <1>4, <1>5, <1>6

LEMMA BoundNumbers ==
  ASSUME HookTypes
  PROVE  /\ Unserved \in SUBSET (CPUs \X VMs) /\ Cardinality(Unserved) \in Nat
         /\ \A name \in Counters :
              /\ ToCount(name) \in SUBSET CPUs /\ Cardinality(ToCount(name)) \in Nat
              /\ counter[name] \in Nat
         /\ \A c \in CPUs : cpu[c].reg \in Nat
         /\ outputs \in Nat
  <1>1. Unserved \in SUBSET (CPUs \X VMs) /\ \A name \in Counters : ToCount(name) \in SUBSET CPUs
    BY DEF Unserved, ToCount
  <1>2. Cardinality(Unserved) \in Nat
    BY <1>1, PairSet
  <1>3. \A name \in Counters : Cardinality(ToCount(name)) \in Nat
    BY <1>1, CpuSet
  <1>4. outputs \in Nat /\ \A name \in Counters : counter[name] \in Nat
    BY DEF HookTypes
  <1>5. \A c \in CPUs : cpu[c].reg \in Nat
    BY PacketTypes
  <1>6. QED
    BY <1>1, <1>2, <1>3, <1>4, <1>5

\* What a step of c does to the members unserved: it has served one, or taken over a list.
LEMMA ServesMembers ==
  ASSUME HookTypes, NEW c \in CPUs, NEW p, Moves(c, p)
  PROVE  /\ Cardinality(Unserved') \in Nat
         /\ p.left \subseteq cpu[c].left => Cardinality(Unserved') <= Cardinality(Unserved)
         /\ \A v \in cpu[c].left :
              p.left \subseteq cpu[c].left \ {v} =>
                Cardinality(Unserved') + 1 <= Cardinality(Unserved)
         /\ \A n \in Nat :
              IsFiniteSet(p.left) /\ Cardinality(p.left) <= n =>
                Cardinality(Unserved') <= Cardinality(Unserved) + n
  <1>1. cpu'[c] = p /\ \A d \in CPUs \ {c} : cpu'[d] = cpu[d]
    BY CpusMoved
  <1>2. p.left \in SUBSET VMs /\ cpu[c].left \in SUBSET VMs
    BY DEF Moves, WellFormed, Packet, HookTypes
  <1>3. Unserved' = {x \in CPUs \X VMs : x[2] \in cpu'[x[1]].left}
    BY DEF Unserved
  <1>4. Unserved \in SUBSET (CPUs \X VMs) /\ Unserved' \in SUBSET (CPUs \X VMs)
    BY <1>3 DEF Unserved
  <1>5. Cardinality(Unserved') \in Nat /\ Cardinality(Unserved) \in Nat
    BY <1>4, PairSet
  <1>6. ASSUME p.left \subseteq cpu[c].left
        PROVE  Cardinality(Unserved') <= Cardinality(Unserved)
    <2>1. Unserved' \in SUBSET Unserved
      BY <1>1, <1>3, <1>6 DEF Unserved
    <2>2. QED
      BY <1>4, <2>1, PairSet
  <1>7. ASSUME NEW v \in cpu[c].left, p.left \subseteq cpu[c].left \ {v}
        PROVE  Cardinality(Unserved') + 1 <= Cardinality(Unserved)
    <2>1. <<c, v>> \in Unserved /\ Unserved \ {<<c, v>>} \in SUBSET (CPUs \X VMs)
      BY <1>2 DEF Unserved
    <2>2. Unserved' \in SUBSET (Unserved \ {<<c, v>>})
      BY <1>1, <1>3, <1>7 DEF Unserved
    <2>3. Cardinality(Unserved') <= Cardinality(Unserved \ {<<c, v>>})
      BY <2>1, <2>2, PairSet
    <2>4. Cardinality(Unserved \ {<<c, v>>}) = Cardinality(Unserved) - 1
      BY <1>4, <2>1, PairSet
    <2>5. QED
      BY <1>5, <2>3, <2>4
  <1>8. ASSUME NEW n \in Nat, IsFiniteSet(p.left), Cardinality(p.left) <= n
        PROVE  Cardinality(Unserved') <= Cardinality(Unserved) + n
    <2> DEFINE L == {c} \X p.left
    <2>1. IsFiniteSet({c}) /\ Cardinality({c}) = 1 /\ Cardinality(p.left) \in Nat
      BY <1>8, FS_Singleton, FS_CardinalityType
    <2>2. IsFiniteSet(L) /\ Cardinality(L) = 1 * Cardinality(p.left)
      BY <1>8, <2>1, FS_Product
    <2>3. L \in SUBSET (CPUs \X VMs) /\ Unserved \cup L \in SUBSET (CPUs \X VMs)
      BY <1>2, <1>4
    <2>4. Unserved' \in SUBSET (Unserved \cup L)
      BY <1>1, <1>3 DEF Unserved
    <2> HIDE DEF L
    <2>5. Cardinality(Unserved') <= Cardinality(Unserved \cup L)
      BY <2>3, <2>4, PairSet
    <2>6. /\ Cardinality(Unserved \cup L) <= Cardinality(Unserved) + Cardinality(L)
          /\ Cardinality(Unserved \cup L) \in Nat
      BY <1>4, <2>2, <2>3, PairSet
    <2>7. QED
      BY <1>5, <1>8, <2>1, <2>2, <2>5, <2>6
  <1>9. QED
    BY <1>5, <1>6, <1>7, <1>8

\* What a step of c does to the packets that a counter waits for: one more at most.
LEMMA OwesCounts ==
  ASSUME HookTypes, NEW c \in CPUs, NEW p, Moves(c, p), NEW name \in Counters
  PROVE  /\ Cardinality(ToCount(name)') \in Nat
         /\ Cardinality(ToCount(name)') <= Cardinality(ToCount(name)) + 1
         /\ p.pc # "count" => Cardinality(ToCount(name)') <= Cardinality(ToCount(name))
  <1> DEFINE S == ToCount(name)
             N == {d \in CPUs : cpu'[d].pc = "count" /\
                     (cpu'[d].what = name \/ (name = "tx_packets" /\ cpu'[d].then = "tx"))}
  <1>1. cpu'[c] = p /\ \A d \in CPUs \ {c} : cpu'[d] = cpu[d]
    BY CpusMoved
  <1>2. ToCount(name)' = N
    BY DEF ToCount
  <1>3. S \in SUBSET CPUs /\ N \in SUBSET CPUs /\ S \cup {c} \in SUBSET CPUs
    BY DEF ToCount
  <1>4. N \in SUBSET (S \cup {c}) /\ (p.pc # "count" => N \in SUBSET S)
    BY <1>1 DEF ToCount
  <1> HIDE DEF S, N
  <1>5. Cardinality(S) \in Nat /\ Cardinality(N) \in Nat
    BY <1>3, CpuSet
  <1>6. Cardinality(S \cup {c}) <= Cardinality(S) + 1
    <2>1. CASE c \in S
      <3>1. S \cup {c} = S
        BY <2>1
      <3>2. Cardinality(S \cup {c}) = Cardinality(S)
        BY ONLY <3>1
      <3>3. QED
        BY <1>5, <3>2
    <2>2. CASE c \notin S
      BY <1>3, <1>5, <2>2, CpuSet
    <2>3. QED
      BY <2>1, <2>2
  <1>7. Cardinality(N) <= Cardinality(S \cup {c}) /\ Cardinality(S \cup {c}) \in Nat
    BY <1>3, <1>4, CpuSet
  <1>8. p.pc # "count" => Cardinality(N) <= Cardinality(S)
    BY <1>3, <1>4, CpuSet
  <1>9. QED
    BY <1>2, <1>5, <1>6, <1>7, <1>8 DEF S

(***************************************************************************)
(* A step that stores no counter: e members more to be served, f packets   *)
(* more to be counted, and as much room for them.                          *)
(***************************************************************************)
LEMMA BoundsMove ==
  ASSUME HookTypes, CountsBounded, NEW c \in CPUs, NEW p, Moves(c, p), counter' = counter,
         p.pc = "count" => p.what \in Counters /\ p.reg = counter[p.what],
         NEW e \in Int, NEW f \in Int,
         Cardinality(Unserved') \in Nat,
         Cardinality(Unserved') <= Cardinality(Unserved) + e,
         \A name \in Counters : Cardinality(ToCount(name)') <= Cardinality(ToCount(name)) + f,
         MaxCount \in Nat, MaxCount' \in Nat, MaxCount + e + f <= MaxCount'
  PROVE  CountsBounded'
  <1>1. cpu'[c] = p /\ \A d \in CPUs \ {c} : cpu'[d] = cpu[d]
    BY CpusMoved
  <1>2. ASSUME NEW name \in Counters
        PROVE  /\ counter'[name] + Ahead(name)' <= MaxCount'
               /\ \A d \in CPUs : cpu'[d].pc = "count" /\ cpu'[d].what = name =>
                                    cpu'[d].reg + Ahead(name)' <= MaxCount'
    <2> DEFINE u == Cardinality(Unserved)
               k == Cardinality(ToCount(name))
    <2>1. PICK v : v = Cardinality(Unserved')
      OBVIOUS
    <2>2. PICK j : j = Cardinality(ToCount(name)')
      OBVIOUS
    <2>3. PICK m : m = MaxCount'
      OBVIOUS
    <2>4. u \in Nat /\ k \in Nat /\ v \in Nat /\ j \in Nat /\ counter[name] \in Nat
      BY <1>2, <2>1, <2>2, BoundNumbers, OwesCounts
    <2>5. v <= u + e /\ j <= k + f /\ MaxCount + e + f <= m /\ m \in Nat
      BY <1>2, <2>1, <2>2, <2>3
    <2>6. Ahead(name) = k + u /\ Ahead(name)' = j + v
      BY <2>1, <2>2 DEF Ahead
    <2> HIDE DEF u, k
    <2>7. \A n \in Nat : n + Ahead(name) <= MaxCount => n + Ahead(name)' <= m
      BY <2>4, <2>5, <2>6
    <2>8. counter'[name] + Ahead(name)' <= MaxCount'
      BY <2>3, <2>4, <2>7 DEF CountsBounded
    <2>9. ASSUME NEW d \in CPUs, cpu'[d].pc = "count" /\ cpu'[d].what = name
          PROVE  cpu'[d].reg + Ahead(name)' <= MaxCount'
      <3>1. CASE d = c
        <4>1. cpu'[d].reg = counter'[name]
          BY <1>1, <2>9, <3>1
        <4>2. QED
          BY <2>8, <4>1
      <3>2. CASE d # c
        <4>1. cpu'[d] = cpu[d] /\ cpu[d].reg \in Nat
          BY <1>1, <3>2, BoundNumbers
        <4>2. cpu[d].reg + Ahead(name) <= MaxCount
          BY <2>9, <4>1 DEF CountsBounded
        <4>3. QED
          BY <2>3, <2>7, <4>1, <4>2
      <3>3. QED
        BY <3>1, <3>2
    <2>10. QED
      BY <2>8, <2>9
  <1>3. QED
    BY <1>2 DEF CountsBounded
LEMMA MaxCountNow ==
  ASSUME BoundInv
  PROVE  /\ arrived \in Nat /\ MaxCount \in Nat /\ arrived * VmMax \in Nat
         /\ arrived' = arrived => MaxCount' = MaxCount
         /\ arrived' = arrived + 1 => MaxCount' = MaxCount + (VmMax + 1)
  <1>1. arrived \in Nat
    BY ForwardAssumption DEF BoundInv, OutputsBounded
  <1>2. MaxCount \in Nat /\ arrived * VmMax \in Nat
    BY <1>1, Products DEF MaxCount
  <1>3. arrived' = arrived => MaxCount' = MaxCount
    BY DEF MaxCount
  <1>4. ASSUME arrived' = arrived + 1
        PROVE  MaxCount' = MaxCount + (VmMax + 1)
    <2>1. MaxCount' = (arrived + 1) * (VmMax + 1)
      BY <1>4 DEF MaxCount
    <2>2. QED
      BY <1>1, <2>1, Products DEF MaxCount
  <1>5. QED
    BY <1>1, <1>2, <1>3, <1>4

\* A step that serves no member and counts nothing.
LEMMA RestBounded ==
  ASSUME HookTypes, BoundInv, NEW c \in CPUs, NEW p, Moves(c, p), p.pc # "count",
         p.left \subseteq cpu[c].left, UNCHANGED <<counter, arrived, outputs, outputsOf>>
  PROVE  BoundInv'
  <1>1. /\ Cardinality(Unserved') \in Nat
        /\ Cardinality(Unserved') <= Cardinality(Unserved)
    BY ServesMembers
  <1>2. Cardinality(Unserved) \in Nat /\ outputs \in Nat
    BY BoundNumbers
  <1>3. \A name \in Counters : Cardinality(ToCount(name)') <= Cardinality(ToCount(name)) + 0
    <2>1. SUFFICES ASSUME NEW name \in Counters
                   PROVE  Cardinality(ToCount(name)') <= Cardinality(ToCount(name)) + 0
      OBVIOUS
    <2>2. /\ Cardinality(ToCount(name)') <= Cardinality(ToCount(name))
          /\ Cardinality(ToCount(name)) \in Nat
      BY OwesCounts, BoundNumbers
    <2>3. QED
      BY <2>2
  <1>4. MaxCount \in Nat /\ MaxCount' \in Nat /\ MaxCount + 0 + 0 <= MaxCount'
    BY MaxCountNow
  <1>5. CountsBounded'
    <2>1. /\ 0 \in Int /\ Cardinality(Unserved') <= Cardinality(Unserved) + 0
          /\ CountsBounded /\ counter' = counter
      BY <1>1, <1>2 DEF BoundInv
    <2>2. QED
      BY <1>1, <1>3, <1>4, <2>1, BoundsMove
  <1>6. OutputsBounded'
    <2>1. outputs + Cardinality(Unserved) <= arrived * VmMax /\ arrived * VmMax \in Nat
      BY MaxCountNow DEF BoundInv, OutputsBounded
    <2>2. outputs + Cardinality(Unserved') <= arrived * VmMax
      BY <1>1, <1>2, <2>1
    <2>3. QED
      BY <2>2 DEF BoundInv, OutputsBounded
  <1>7. QED
    BY <1>5, <1>6 DEF BoundInv

\* A turn of the loop: v is served, or given up.
LEMMA TurnBounded ==
  ASSUME HookTypes, BoundInv, NEW c \in CPUs, NEW p, Moves(c, p),
         p.pc = "count" => p.what \in Counters /\ p.reg = counter[p.what],
         NEW v \in cpu[c].left, p.left \subseteq cpu[c].left \ {v},
         UNCHANGED <<counter, arrived>>, outputs' \in {outputs, outputs + 1},
         \A i \in Indexes : outputsOf'[i] <= outputs'
  PROVE  BoundInv'
  <1>1. /\ Cardinality(Unserved') \in Nat
        /\ Cardinality(Unserved') + 1 <= Cardinality(Unserved)
    BY ServesMembers
  <1>2. Cardinality(Unserved) \in Nat /\ outputs \in Nat
    BY BoundNumbers
  <1>3. \A name \in Counters : Cardinality(ToCount(name)') <= Cardinality(ToCount(name)) + 1
    BY OwesCounts
  <1>4. MaxCount \in Nat /\ MaxCount' \in Nat /\ MaxCount + (-1) + 1 <= MaxCount'
    BY MaxCountNow
  <1>5. CountsBounded'
    <2>1. /\ -1 \in Int /\ 1 \in Int /\ Cardinality(Unserved') <= Cardinality(Unserved) + (-1)
          /\ CountsBounded /\ counter' = counter
      BY <1>1, <1>2 DEF BoundInv
    <2>2. PICK e : e = -1
      OBVIOUS
    <2>3. /\ e \in Int /\ Cardinality(Unserved') <= Cardinality(Unserved) + e
          /\ MaxCount + e + 1 <= MaxCount'
      BY <1>4, <2>1, <2>2
    <2>4. QED
      BY <1>1, <1>3, <1>4, <2>1, <2>3, BoundsMove
  <1>6. OutputsBounded'
    <2>1. /\ outputs + Cardinality(Unserved) <= arrived * VmMax /\ arrived * VmMax \in Nat
          /\ arrived \in 0 .. MaxPackets
      BY MaxCountNow DEF BoundInv, OutputsBounded
    <2>2. outputs' + Cardinality(Unserved') <= arrived * VmMax
      BY <1>1, <1>2, <2>1
    <2>3. QED
      BY <2>1, <2>2 DEF OutputsBounded
  <1>7. QED
    BY <1>5, <1>6 DEF BoundInv

\* A packet arrives, with the list of a group or the count of its failure.
LEMMA ArrivalBounded ==
  ASSUME HookTypes, BoundInv, NEW c \in CPUs, NEW p, Moves(c, p),
         p.pc = "count" => p.what \in Counters /\ p.reg = counter[p.what],
         \/ p.left = {}
         \/ p.pc # "count" /\ IsFiniteSet(p.left) /\ Cardinality(p.left) <= VmMax,
         arrived < MaxPackets, arrived' = arrived + 1, UNCHANGED <<counter, outputs, outputsOf>>
  PROVE  BoundInv'
  <1>1. Cardinality(Unserved') \in Nat /\ Cardinality(Unserved) \in Nat /\ outputs \in Nat
    BY ServesMembers, BoundNumbers
  <1>2. /\ arrived \in Nat /\ MaxCount \in Nat /\ MaxCount' = MaxCount + (VmMax + 1)
        /\ VmMax \in Nat /\ arrived * VmMax \in Nat
        /\ (arrived + 1) * VmMax = arrived * VmMax + VmMax
    BY MaxCountNow, Products
  <1>3. MaxCount' \in Nat
    BY <1>2
  <1>4. CountsBounded /\ counter' = counter
    BY DEF BoundInv
  <1>5. /\ CountsBounded'
        /\ Cardinality(Unserved') <= Cardinality(Unserved) + VmMax
    <2>1. CASE p.left = {}
      <3>1. Cardinality(Unserved') <= Cardinality(Unserved) + 0
        <4>1. Cardinality(Unserved') <= Cardinality(Unserved)
          BY <2>1, ServesMembers
        <4>2. QED
          BY <1>1, <4>1
      <3>2. \A name \in Counters : Cardinality(ToCount(name)') <= Cardinality(ToCount(name)) + 1
        BY OwesCounts
      <3>3. 0 \in Int /\ 1 \in Int /\ MaxCount + 0 + 1 <= MaxCount'
        BY <1>2
      <3>4. CountsBounded'
        BY <1>1, <1>2, <1>3, <1>4, <3>1, <3>2, <3>3, BoundsMove
      <3>5. QED
        BY <1>1, <1>2, <3>1, <3>4
    <2>2. CASE p.pc # "count" /\ IsFiniteSet(p.left) /\ Cardinality(p.left) <= VmMax
      <3>1. Cardinality(Unserved') <= Cardinality(Unserved) + VmMax
        BY <1>2, <2>2, ServesMembers
      <3>2. ASSUME NEW name \in Counters
            PROVE  Cardinality(ToCount(name)') <= Cardinality(ToCount(name)) + 0
        <4>1. /\ Cardinality(ToCount(name)') <= Cardinality(ToCount(name))
              /\ Cardinality(ToCount(name)) \in Nat
          BY <2>2, OwesCounts, BoundNumbers
        <4>2. QED
          BY <4>1
      <3>3. VmMax \in Int /\ 0 \in Int /\ MaxCount + VmMax + 0 <= MaxCount'
        BY <1>2
      <3>4. CountsBounded'
        BY <1>1, <1>2, <1>3, <1>4, <3>1, <3>2, <3>3, BoundsMove
      <3>5. QED
        BY <3>1, <3>4
    <2>3. QED
      BY <2>1, <2>2
  <1>6. OutputsBounded'
    <2>1. outputs + Cardinality(Unserved) <= arrived * VmMax
      BY DEF BoundInv, OutputsBounded
    <2>2. arrived' * VmMax = arrived * VmMax + VmMax
      BY <1>2
    <2>3. outputs' + Cardinality(Unserved') <= arrived' * VmMax
      BY <1>1, <1>2, <1>5, <2>1, <2>2
    <2>4. arrived' \in 0 .. MaxPackets
      BY <1>2, ForwardAssumption
    <2>5. \A i \in Indexes : outputsOf'[i] <= outputs'
      BY DEF BoundInv, OutputsBounded
    <2>6. QED
      BY <2>3, <2>4, <2>5 DEF OutputsBounded
  <1>7. QED
    BY <1>5, <1>6 DEF BoundInv
\* What becomes of a packet when a counter has been stored for it.
LEMMA StoredPacket ==
  ASSUME HookTypes, NEW c \in CPUs, NEW p, p = AfterCount(c, cpu[c]), cpu[c].pc \in {"count", "stats"}
  PROVE  /\ p.left \subseteq cpu[c].left
         /\ p.pc = "count" => /\ cpu[c].then = "tx" /\ p.what = "tx_packets" /\ p.then = "stats"
                              /\ p.reg = counter["tx_packets"]
  <1>1. cpu[c] \in Packet /\ WellFormed(cpu[c])
    BY PacketTypes
  <1>2. cpu[c].then \in {"idle", "copy", "tx", "stats"}
    BY <1>1 DEF Packet
  <1>3. CASE cpu[c].then = "idle"
    BY <1>3 DEF AfterCount, Idle
  <1>4. CASE cpu[c].then = "copy"
    <2>1. p = [cpu[c] EXCEPT !.pc = "copy", !.what = "", !.reg = 0, !.then = "idle"]
      BY <1>4 DEF AfterCount
    <2>2. p.pc = "copy" /\ p.left = cpu[c].left
      BY <1>1, <2>1 DEF Packet
    <2>3. QED
      BY <2>2
  <1>5. CASE cpu[c].then = "tx"
    <2>1. p = [cpu[c] EXCEPT !.pc = "count", !.what = "tx_packets",
                             !.reg = counter["tx_packets"], !.then = "stats"]
      BY <1>5 DEF AfterCount, Counting
    <2>2. /\ p.left = cpu[c].left /\ p.what = "tx_packets" /\ p.then = "stats"
          /\ p.reg = counter["tx_packets"]
      BY <1>1, <2>1 DEF Packet
    <2>3. QED
      BY <1>5, <2>2
  <1>6. CASE cpu[c].then = "stats"
    <2>1. p = [cpu[c] EXCEPT !.pc = "stats", !.what = "", !.reg = multi_stats[cpu[c].idx],
                             !.then = "copy"]
      BY <1>6 DEF AfterCount
    <2>2. p.pc = "stats" /\ p.left = cpu[c].left
      BY <1>1, <2>1 DEF Packet
    <2>3. QED
      BY <2>2
  <1>7. QED
    BY <1>2, <1>3, <1>4, <1>5, <1>6

\* The counter that c stores waits for one packet less, and no counter for one more.
LEMMA StoreOwed ==
  ASSUME HookTypes, NEW c \in CPUs, StoreCounter(c), NEW name \in Counters
  PROVE  /\ Cardinality(ToCount(name)') \in Nat
         /\ Cardinality(ToCount(name)') <= Cardinality(ToCount(name))
         /\ name = cpu[c].what =>
              Cardinality(ToCount(name)') + 1 <= Cardinality(ToCount(name))
  <1> DEFINE p == AfterCount(c, cpu[c])
             S == ToCount(name)
             N == {d \in CPUs : cpu'[d].pc = "count" /\
                     (cpu'[d].what = name \/ (name = "tx_packets" /\ cpu'[d].then = "tx"))}
  <1>1. Moves(c, p) /\ cpu[c].pc = "count" /\ WellFormed(cpu[c])
    BY StoreCounterStep
  <1>2. p.pc = "count" => cpu[c].then = "tx" /\ p.what = "tx_packets" /\ p.then = "stats"
    BY <1>1, StoredPacket
  <1> HIDE DEF p
  <1>3. cpu'[c] = p /\ \A d \in CPUs \ {c} : cpu'[d] = cpu[d]
    BY <1>1, CpusMoved
  <1>4. ToCount(name)' = N
    BY DEF ToCount
  <1>5. S \in SUBSET CPUs /\ N \in SUBSET CPUs /\ S \ {c} \in SUBSET CPUs
    BY DEF ToCount
  <1>6. N \in SUBSET S
    BY <1>1, <1>2, <1>3 DEF ToCount
  <1>7. name = cpu[c].what => c \in S /\ N \in SUBSET (S \ {c})
    <2>1. ASSUME name = cpu[c].what
          PROVE  c \in S /\ c \notin N
      <3>1. c \in S
        BY <1>1, <2>1 DEF ToCount
      <3>2. cpu[c].then = "tx" => name # "tx_packets"
        BY <1>1, <2>1 DEF WellFormed
      <3>3. QED
        BY <1>2, <1>3, <3>1, <3>2
    <2>2. QED
      BY <1>6, <2>1
  <1> HIDE DEF S, N
  <1>8. Cardinality(S) \in Nat /\ Cardinality(N) \in Nat /\ Cardinality(N) <= Cardinality(S)
    BY <1>5, <1>6, CpuSet
  <1>9. ASSUME name = cpu[c].what
        PROVE  Cardinality(N) + 1 <= Cardinality(S)
    <2>1. Cardinality(S \ {c}) = Cardinality(S) - 1
      BY <1>5, <1>7, <1>9, CpuSet
    <2>2. Cardinality(N) <= Cardinality(S \ {c})
      BY <1>5, <1>7, <1>9, CpuSet
    <2>3. QED
      BY <1>8, <2>1, <2>2
  <1>10. QED
    BY <1>4, <1>8, <1>9 DEF S

LEMMA StoreBounded ==
  ASSUME HookTypes, BoundInv, NEW c \in CPUs, StoreCounter(c)
  PROVE  BoundInv'
  <1> DEFINE p == AfterCount(c, cpu[c])
             n == cpu[c].what
  <1>1. /\ Moves(c, p) /\ cpu[c].pc = "count" /\ WellFormed(cpu[c]) /\ n \in Counters
        /\ counter' = [counter EXCEPT ![n] = cpu[c].reg + 1]
        /\ UNCHANGED <<outputs, outputsOf>>
    BY StoreCounterStep
  <1>2. arrived' = arrived
    BY DEF StoreCounter
  <1>3. /\ p.left \subseteq cpu[c].left
        /\ p.pc = "count" => /\ cpu[c].then = "tx" /\ p.what = "tx_packets"
                             /\ p.reg = counter["tx_packets"]
    BY <1>1, StoredPacket
  <1> HIDE DEF p
  <1>4. cpu'[c] = p /\ \A d \in CPUs \ {c} : cpu'[d] = cpu[d]
    BY <1>1, CpusMoved
  <1>5. Cardinality(Unserved') \in Nat /\ Cardinality(Unserved') <= Cardinality(Unserved)
    BY <1>1, <1>3, ServesMembers
  <1>6. Cardinality(Unserved) \in Nat /\ outputs \in Nat
    BY BoundNumbers
  <1>7. MaxCount' = MaxCount /\ MaxCount \in Nat
    BY <1>2, MaxCountNow
  <1>8. CountsBounded'
    <2>1. ASSUME NEW name \in Counters
          PROVE  /\ counter'[name] + Ahead(name)' <= MaxCount
                 /\ \A d \in CPUs : cpu'[d].pc = "count" /\ cpu'[d].what = name =>
                                      cpu'[d].reg + Ahead(name)' <= MaxCount
      <3> DEFINE a == Ahead(name)
      <3>1. PICK b : b = Ahead(name)'
        OBVIOUS
      <3>2. a \in Nat /\ b \in Nat /\ b <= a /\ (name = n => b + 1 <= a)
        <4>1. PICK j : j = Cardinality(ToCount(name)')
          OBVIOUS
        <4>2. PICK v : v = Cardinality(Unserved')
          OBVIOUS
        <4> DEFINE k == Cardinality(ToCount(name))
                   u == Cardinality(Unserved)
        <4>3. j \in Nat /\ j <= k /\ (name = n => j + 1 <= k)
          BY <4>1, StoreOwed
        <4>4. k \in Nat /\ u \in Nat /\ v \in Nat /\ v <= u
          BY <1>5, <4>2, BoundNumbers
        <4>5. a = k + u /\ b = j + v
          BY <3>1, <4>1, <4>2 DEF Ahead
        <4> HIDE DEF k, u, a, n
        <4>6. QED
          BY <4>3, <4>4, <4>5
      <3>3. /\ counter[name] + a <= MaxCount
            /\ \A d \in CPUs : cpu[d].pc = "count" /\ cpu[d].what = name =>
                                 cpu[d].reg + a <= MaxCount
        BY DEF BoundInv, CountsBounded
      <3>4. counter[name] \in Nat /\ \A d \in CPUs : cpu[d].reg \in Nat
        BY BoundNumbers
      <3> HIDE DEF a
      <3>5. counter[name] + b <= MaxCount
        BY <1>7, <3>2, <3>3, <3>4
      <3>6. counter'[name] + b <= MaxCount
        <4>1. CASE name = n
          <5>1. counter'[name] = cpu[c].reg + 1 /\ cpu[c].reg + a <= MaxCount
            BY <1>1, <3>3, <4>1 DEF HookTypes
          <5>2. QED
            BY <1>7, <3>2, <3>4, <4>1, <5>1
        <4>2. CASE name # n
          <5>1. counter'[name] = counter[name]
            BY <1>1, <4>2 DEF HookTypes
          <5>2. QED
            BY <3>5, <5>1
        <4>3. QED
          BY <4>1, <4>2
      <3>7. ASSUME NEW d \in CPUs, cpu'[d].pc = "count" /\ cpu'[d].what = name
            PROVE  cpu'[d].reg + b <= MaxCount
        <4>1. CASE d = c
          <5>1. cpu'[d].reg = counter[name]
            BY <1>3, <1>4, <3>7, <4>1
          <5>2. QED
            BY <3>5, <5>1
        <4>2. CASE d # c
          <5>1. cpu'[d] = cpu[d] /\ cpu[d].reg + a <= MaxCount
            BY <1>4, <3>3, <3>7, <4>2
          <5>2. QED
            BY <1>7, <3>2, <3>4, <5>1
        <4>3. QED
          BY <4>1, <4>2
      <3>8. QED
        BY <3>1, <3>6, <3>7
    <2>2. QED
      BY <1>7, <2>1 DEF CountsBounded
  <1>9. OutputsBounded'
    <2>1. outputs + Cardinality(Unserved) <= arrived * VmMax /\ arrived * VmMax \in Nat
      BY MaxCountNow DEF BoundInv, OutputsBounded
    <2>2. outputs + Cardinality(Unserved') <= arrived * VmMax
      BY <1>5, <1>6, <2>1
    <2>3. QED
      BY <1>1, <1>2, <2>2 DEF BoundInv, OutputsBounded
  <1>10. QED
    BY <1>8, <1>9 DEF BoundInv

\* A request, or a step of nothing, leaves the packets under way and their counts as they were.
LEMMA BoundBeside ==
  ASSUME HookTypes, BoundInv, UNCHANGED <<counter, arrived, outputs>>,
         \A i \in Indexes : outputsOf'[i] \in {0, outputsOf[i]},
         \A c \in CPUs : /\ cpu'[c].pc = cpu[c].pc /\ cpu'[c].what = cpu[c].what
                         /\ cpu'[c].then = cpu[c].then /\ cpu'[c].reg = cpu[c].reg
                         /\ cpu'[c].left = cpu[c].left
  PROVE  BoundInv'
  <1>1. Unserved' = Unserved
    BY DEF Unserved
  <1>2. \A name \in Counters : ToCount(name)' = ToCount(name)
    BY DEF ToCount
  <1>3. \A name \in Counters : Ahead(name)' = Ahead(name)
    BY <1>1, <1>2 DEF Ahead
  <1>4. MaxCount' = MaxCount
    BY DEF MaxCount
  <1>5. CountsBounded'
    BY <1>3, <1>4 DEF BoundInv, CountsBounded
  <1>6. \A i \in Indexes : outputsOf'[i] <= outputs'
    <2>1. outputs \in Nat
      BY BoundNumbers
    <2>2. QED
      BY <2>1 DEF BoundInv, OutputsBounded
  <1>7. OutputsBounded'
    BY <1>1, <1>6 DEF BoundInv, OutputsBounded
  <1>8. QED
    BY <1>5, <1>7 DEF BoundInv
LEMMA CountingFields ==
  ASSUME NEW p \in Packet, NEW name, NEW then, NEW q, q = Counting(p, name, then)
  PROVE  q.left = p.left /\ q.what = name /\ q.reg = counter[name]
  <1>1. q = [p EXCEPT !.pc = "count", !.what = name, !.reg = counter[name], !.then = then]
    BY DEF Counting
  <1>2. QED
    BY <1>1 DEF Packet

LEMMA TurnsBounded ==
  ASSUME HookTypes, BoundInv, NEW c \in CPUs, NEW v \in VMs,
         NoMemory(c, v) \/ NoHeader(c, v) \/ NoRoute(c, v) \/ Output(c, v)
  PROVE  BoundInv'
  <1> DEFINE q == Rest(c, v)
  <1>1. cpu[c] \in Packet /\ WellFormed(cpu[c]) /\ v \in cpu[c].left
    BY PacketTypes DEF NoMemory, NoHeader, NoRoute, Output, Turn
  <1>2. WellFormed(q) /\ q \in Packet /\ q.left = cpu[c].left \ {v} /\ q.pc = cpu[c].pc
    BY <1>1 DEF Rest, WellFormed, Packet
  <1>3. q.pc # "count"
    BY <1>2 DEF NoMemory, NoHeader, NoRoute, Output, Turn
  <1>4. UNCHANGED <<counter, arrived>>
    BY DEF NoMemory, NoHeader, NoRoute, Output
  <1>5. outputs' \in {outputs, outputs + 1} /\ \A i \in Indexes : outputsOf'[i] <= outputs'
    <2>1. outputs \in Nat /\ \A i \in Indexes : outputsOf[i] \in Nat /\ outputsOf[i] <= outputs
      BY DEF HookTypes, BoundInv, OutputsBounded
    <2>2. CASE Output(c, v)
      <3>1. PICK p : /\ outputs' = outputs + 1
                     /\ outputsOf' = IF p.stale THEN outputsOf ELSE [outputsOf EXCEPT ![p.idx] = @ + 1]
        BY <2>2, OutputStep
      <3>2. \A i \in Indexes : outputsOf'[i] \in {outputsOf[i], outputsOf[i] + 1}
        BY <3>1 DEF HookTypes
      <3>3. QED
        BY <2>1, <3>1, <3>2
    <2>3. CASE NoMemory(c, v) \/ NoHeader(c, v) \/ NoRoute(c, v)
      BY <2>1, <2>3 DEF NoMemory, NoHeader, NoRoute
    <2>4. QED
      BY <2>2, <2>3
  <1> HIDE DEF q
  <1>6. ASSUME NEW p, Moves(c, p), p.left = q.left,
               p.pc = "count" => p.what \in Counters /\ p.reg = counter[p.what]
        PROVE  BoundInv'
    <2>1. p.left \subseteq cpu[c].left \ {v}
      BY <1>2, <1>6
    <2>2. QED
      BY <1>1, <1>4, <1>5, <1>6, <2>1, TurnBounded
  <1>7. ASSUME NEW name \in Counters, name # "tx_packets", NEW then \in {"copy", "tx"},
               At(c, Counting(q, name, then))
        PROVE  BoundInv'
    <2> DEFINE p == Counting(q, name, then)
    <2>1. WellFormed(p)
      BY <1>2, <1>7, CountingFormed
    <2>2. p.left = q.left /\ p.what = name /\ p.reg = counter[name]
      BY <1>2, CountingFields
    <2>3. Moves(c, p)
      BY <1>7, <2>1, AtMoves
    <2> HIDE DEF p
    <2>4. QED
      BY <1>6, <2>2, <2>3
  <1>8. CASE NoHeader(c, v)
    <2>1. Moves(c, q)
      BY <1>2, <1>8, AtMoves DEF NoHeader, q
    <2>2. QED
      BY <1>3, <1>6, <2>1
  <1>9. CASE NoMemory(c, v)
    BY <1>7, <1>9 DEF NoMemory, Counters, q
  <1>10. CASE NoRoute(c, v)
    BY <1>7, <1>10 DEF NoRoute, Counters, q
  <1>11. CASE Output(c, v)
    BY <1>7, <1>11 DEF Output, Counters, q
  <1>12. QED
    BY <1>8, <1>9, <1>10, <1>11

LEMMA ArrivalsBounded ==
  ASSUME IInv, HookTypes, BoundInv, NEW c \in CPUs, NEW g \in Groups,
         NoGroupFor(c, g) \/ MembersFor(c, g)
  PROVE  BoundInv'
  <1>1. /\ arrived < MaxPackets /\ arrived' = arrived + 1
        /\ UNCHANGED <<counter, outputs, outputsOf>>
    BY DEF NoGroupFor, MembersFor, Arrives
  <1>2. ASSUME NEW name \in Counters, name # "tx_packets", At(c, Counting(Idle, name, "idle"))
        PROVE  BoundInv'
    <2> DEFINE p == Counting(Idle, name, "idle")
    <2>1. WellFormed(p)
      BY <1>2, IdleFormed, CountingFormed
    <2>2. p.left = {} /\ p.what = name /\ p.reg = counter[name]
      <3>1. Idle \in Packet /\ Idle.left = {}
        BY IdleFormed DEF WellFormed, Idle
      <3>2. QED
        BY <3>1, CountingFields
    <2>3. Moves(c, p)
      BY <1>2, <2>1, AtMoves
    <2> HIDE DEF p
    <2>4. QED
      BY <1>1, <1>2, <2>2, <2>3, ArrivalBounded
  <1>3. CASE NoGroupFor(c, g)
    BY <1>2, <1>3 DEF NoGroupFor, Counters
  <1>4. CASE MembersFor(c, g)
    <2> DEFINE b == mulit_hash_key[g]
    <2>1. PICK r \in Rows :
            /\ FoundAt(g, r)
            /\ At(c, IF multi_grp[b][r].multi_member_cnt = 0
                     THEN Counting(Idle, "no_vm_ip_list_pkt_drop_count", "idle")
                     ELSE [Idle EXCEPT !.pc = "copy", !.idx = multi_grp[b][r].multi_grp_idx,
                                       !.left = multi_vm[multi_grp[b][r].multi_grp_idx]])
      BY <1>4 DEF MembersFor
    <2>2. b \in Buckets /\ Created(b, r)
      BY <2>1, ServerAssumption, FoundRow
    <2>3. CASE multi_grp[b][r].multi_member_cnt = 0
      BY <1>2, <2>1, <2>3 DEF Counters
    <2>4. CASE multi_grp[b][r].multi_member_cnt # 0
      <3> DEFINE i == IdxAt(b, r)
                 p == [Idle EXCEPT !.pc = "copy", !.idx = i, !.left = multi_vm[i]]
      <3>1. /\ i \in Indexes /\ multi_vm[i] \subseteq VMs
            /\ IsFiniteSet(multi_vm[i]) /\ Cardinality(multi_vm[i]) \in 0 .. VmMax
        BY <2>2, ListOfRow
      <3> HIDE DEF i
      <3>2. Idle \in Packet
        BY IdleFormed DEF WellFormed
      <3>3. p \in Packet /\ p.pc = "copy" /\ p.left = multi_vm[i]
        BY <3>1, <3>2 DEF Packet
      <3>4. WellFormed(p)
        BY <3>3 DEF WellFormed
      <3>5. Moves(c, p)
        BY <2>1, <2>4, <3>4, AtMoves DEF i, IdxAt
      <3>6. p.pc # "count" /\ IsFiniteSet(p.left) /\ Cardinality(p.left) <= VmMax
        <4>1. p.pc # "count" /\ IsFiniteSet(p.left)
          BY <3>1, <3>3
        <4>2. Cardinality(p.left) = Cardinality(multi_vm[i])
          BY <3>3
        <4>3. Cardinality(multi_vm[i]) <= VmMax
          BY <3>1, Sizes
        <4>4. QED
          BY <4>1, <4>2, <4>3
      <3> HIDE DEF p
      <3>7. QED
        BY <1>1, <3>5, <3>6, ArrivalBounded
    <2>5. QED
      BY <2>3, <2>4
  <1>5. QED
    BY <1>3, <1>4

LEMMA BoundNext ==
  ASSUME IInv, HookTypes, BoundInv, [ForwardNext]_forwardVars
  PROVE  BoundInv'
  <1>1. ASSUME NEW c \in CPUs, StoreStats(c)
        PROVE  BoundInv'
    <2> DEFINE p == AfterCount(c, cpu[c])
    <2>1. Moves(c, p) /\ cpu[c].pc = "stats" /\ p.pc = "copy"
      BY <1>1, StoreStatsStep
    <2>2. p.left \subseteq cpu[c].left
      BY <2>1, StoredPacket
    <2>3. UNCHANGED <<counter, arrived, outputs, outputsOf>>
      BY <1>1 DEF StoreStats
    <2> HIDE DEF p
    <2>4. QED
      BY <2>1, <2>2, <2>3, RestBounded
  <1>2. ASSUME NEW c \in CPUs, HookReturns(c)
        PROVE  BoundInv'
    <2>1. Moves(c, Idle)
      BY <1>2, IdleFormed, AtMoves DEF HookReturns
    <2>2. Idle.pc # "count" /\ Idle.left \subseteq cpu[c].left
      BY DEF Idle
    <2>3. UNCHANGED <<counter, arrived, outputs, outputsOf>>
      BY <1>2 DEF HookReturns
    <2>4. QED
      BY <2>1, <2>2, <2>3, RestBounded
  <1>3. CASE Request
    <2>1. \A c \in CPUs : /\ cpu'[c].pc = cpu[c].pc /\ cpu'[c].what = cpu[c].what
                          /\ cpu'[c].then = cpu[c].then /\ cpu'[c].reg = cpu[c].reg
                          /\ cpu'[c].left = cpu[c].left
      <3>1. SUFFICES ASSUME NEW c \in CPUs
                     PROVE  /\ cpu'[c].pc = cpu[c].pc /\ cpu'[c].what = cpu[c].what
                            /\ cpu'[c].then = cpu[c].then /\ cpu'[c].reg = cpu[c].reg
                            /\ cpu'[c].left = cpu[c].left
        OBVIOUS
      <3>2. \E s : cpu'[c] = [cpu[c] EXCEPT !.stale = s]
        BY <1>3 DEF Request
      <3>3. cpu[c] \in Packet
        BY PacketTypes
      <3>4. QED
        BY <3>2, <3>3 DEF Packet
    <2>2. UNCHANGED <<counter, arrived, outputs>>
      BY <1>3 DEF Request
    <2>3. \A i \in Indexes : outputsOf'[i] \in {0, outputsOf[i]}
      BY <1>3 DEF Request
    <2>4. QED
      BY <2>1, <2>2, <2>3, BoundBeside
  <1>4. CASE UNCHANGED forwardVars
    <2>1. UNCHANGED <<counter, cpu, arrived, outputs, outputsOf>>
      BY <1>4 DEF forwardVars
    <2>2. QED
      BY <2>1, BoundBeside
  <1>5. QED
    BY <1>1, <1>2, <1>3, <1>4, TurnsBounded, ArrivalsBounded, StoreBounded DEF ForwardNext, HookStep

LEMMA BoundInit == ForwardInit => BoundInv
  <1> SUFFICES ASSUME ForwardInit PROVE BoundInv
    OBVIOUS
  <1>1. Unserved = {} /\ \A name \in Counters : ToCount(name) = {}
    BY DEF ForwardInit, Unserved, ToCount, Idle
  <1>2. \A name \in Counters : Ahead(name) = 0
    BY <1>1, FS_EmptySet DEF Ahead
  <1>3. MaxCount = 0 /\ arrived * VmMax = 0 /\ Cardinality(Unserved) = 0
    BY <1>1, FS_EmptySet, Sizes DEF ForwardInit, MaxCount
  <1>4. \A c \in CPUs : cpu[c].pc = "idle"
    BY DEF ForwardInit, Idle
  <1>5. CountsBounded
    BY <1>2, <1>3, <1>4 DEF ForwardInit, CountsBounded
  <1>6. OutputsBounded
    BY <1>3, ForwardAssumption DEF ForwardInit, OutputsBounded
  <1>7. QED
    BY <1>5, <1>6 DEF BoundInv

\* The hook's variables keep their types, and its counters their bounds: whatever the CPUs'
\* loads and stores overwrite and whatever requests do to lists under way, each counter counts
\* a packet at most once for each member it was served to and once for itself.
THEOREM HookTypeCorrect == ASSUME IndexesFit PROVE ForwardSpec => []ForwardTypeOK
  <1>1. HookInv /\ BoundInv => ForwardTypeOK
    <2> SUFFICES ASSUME HookInv, BoundInv PROVE ForwardTypeOK
      OBVIOUS
    <2>1. HookTypes
      BY DEF HookInv
    <2>2. counter \in [Counters -> 0 .. arrived * (VmMax + 1)]
      <3>1. counter \in [Counters -> Nat]
        BY <2>1 DEF HookTypes
      <3>2. ASSUME NEW name \in Counters
            PROVE  counter[name] \in 0 .. arrived * (VmMax + 1)
        <4>1. /\ Cardinality(ToCount(name)) \in Nat /\ Cardinality(Unserved) \in Nat
              /\ counter[name] \in Nat
          BY <2>1, BoundNumbers
        <4>2. MaxCount \in Nat
          BY MaxCountNow
        <4>3. counter[name] + Ahead(name) <= MaxCount
          BY DEF BoundInv, CountsBounded
        <4>4. counter[name] \in 0 .. MaxCount
          BY <4>1, <4>2, <4>3 DEF Ahead
        <4>5. QED
          BY <4>4 DEF MaxCount
      <3>3. QED
        BY <3>1, <3>2
    <2>3. arrived \in 0 .. MaxPackets /\ outputs \in 0 .. arrived * VmMax
      <3>1. arrived * VmMax \in Nat /\ outputs \in Nat /\ Cardinality(Unserved) \in Nat
        BY <2>1, BoundNumbers, MaxCountNow
      <3>2. outputs + Cardinality(Unserved) <= arrived * VmMax
        BY DEF BoundInv, OutputsBounded
      <3>3. outputs \in 0 .. arrived * VmMax
        BY <3>1, <3>2
      <3>4. QED
        BY <3>3 DEF BoundInv, OutputsBounded
    <2>4. outputsOf \in [Indexes -> 0 .. outputs]
      <3>1. outputsOf \in [Indexes -> Nat] /\ outputs \in Nat
        BY <2>1 DEF HookTypes
      <3>2. \A i \in Indexes : outputsOf[i] \in 0 .. outputs
        BY <3>1 DEF BoundInv, OutputsBounded
      <3>3. QED
        BY <3>1, <3>2
    <2>5. strayed \in [Indexes -> BOOLEAN] /\ overlapped \in BOOLEAN
      BY <2>1 DEF HookTypes
    <2>6. QED
      BY <2>1, <2>2, <2>3, <2>4, <2>5 DEF ForwardTypeOK, HookTypes, Packet
  <1>2. HookInv /\ BoundInv /\ [ForwardNext]_forwardVars => BoundInv'
    BY BoundNext DEF HookInv
  <1>3. QED
    BY <1>1, <1>2, BoundInit, HookInvariant, PTL DEF ForwardSpec

-----------------------------------------------------------------------------
(* SHOW and LIST: the order in which SHOW comes to the rows                *)

AllRows == {x \in Buckets \X Rows : Created(x[1], x[2])}

\* The created rows before row j of bucket b.
Passed(b, j) == {x \in AllRows : x[1] < b \/ (x[1] = b /\ x[2] < j)}
Place(x) == Cardinality(Passed(x[1], x[2]))
GroupAt(x) == multi_grp[x[1]][x[2]].multi_ip

LEMMA BucketFacts ==
  /\ Buckets \subseteq Nat /\ 0 \in Buckets /\ IsFiniteSet(Buckets)
  /\ \A b \in Buckets : b + 1 \notin Buckets => \A c \in Buckets : c <= b
  /\ Rows \subseteq Nat /\ IsFiniteSet(Rows)
  <1>1. PICK n : n = Cardinality(Buckets)
    OBVIOUS
  <1>2. n \in Nat /\ Buckets = 0 .. n - 1 /\ IsFiniteSet(Buckets) /\ Buckets # {}
    BY <1>1, ShowAssumption, FS_CardinalityType
  <1>3. Buckets \subseteq Nat /\ 0 \in Buckets
    BY <1>2
  <1>4. \A b \in Buckets : b + 1 \notin Buckets => \A c \in Buckets : c <= b
    BY <1>2
  <1>5. Rows \subseteq Nat /\ IsFiniteSet(Rows)
    BY Sizes, FS_Interval DEF Rows
  <1>6. QED
    BY <1>2, <1>3, <1>4, <1>5

LEMMA RowSets ==
  /\ IsFiniteSet(AllRows) /\ Cardinality(AllRows) \in Nat
  /\ \A b \in Buckets, j \in Nat :
       /\ Passed(b, j) \subseteq AllRows /\ IsFiniteSet(Passed(b, j))
       /\ Cardinality(Passed(b, j)) \in Nat
       /\ Cardinality(Passed(b, j)) <= Cardinality(AllRows)
  <1>1. IsFiniteSet(Buckets \X Rows)
    BY BucketFacts, FS_Product
  <1>2. IsFiniteSet(AllRows) /\ Cardinality(AllRows) \in Nat
    BY <1>1, FS_Subset, FS_CardinalityType DEF AllRows
  <1>3. \A b, j : Passed(b, j) \in SUBSET AllRows
    BY DEF Passed
  <1>4. \A T \in SUBSET AllRows : IsFiniteSet(T) /\ Cardinality(T) <= Cardinality(AllRows)
    BY <1>2, FS_Subset
  <1>5. \A T \in SUBSET AllRows : Cardinality(T) \in Nat
    BY <1>4, FS_CardinalityType
  <1>6. QED
    BY <1>2, <1>3, <1>4, <1>5

\* One row further.
LEMMA PassesRow ==
  ASSUME NEW b \in Buckets, NEW j \in Rows, Created(b, j)
  PROVE  /\ <<b, j>> \in AllRows
         /\ Cardinality(Passed(b, j + 1)) = Cardinality(Passed(b, j)) + 1
         /\ Cardinality(Passed(b, j)) < Cardinality(AllRows)
  <1>1. <<b, j>> \in AllRows /\ <<b, j>> \notin Passed(b, j) /\ j \in Nat /\ b \in Nat
    BY BucketFacts DEF AllRows, Passed
  <1>2. Passed(b, j + 1) = Passed(b, j) \cup {<<b, j>>}
    <2>1. ASSUME NEW x \in AllRows
          PROVE  x \in Passed(b, j + 1) <=> x \in Passed(b, j) \/ x = <<b, j>>
      <3>a. x = <<x[1], x[2]>> /\ x[1] \in Buckets /\ x[2] \in Rows
        BY DEF AllRows
      <3>1. x = <<x[1], x[2]>> /\ x[1] \in Nat /\ x[2] \in Nat
        BY <3>a, BucketFacts
      <3>2. x[2] < j + 1 <=> x[2] < j \/ x[2] = j
        BY <1>1, <3>1
      <3>3. QED
        BY <3>1, <3>2 DEF Passed
    <2>2. QED
      BY <1>1, <2>1 DEF Passed
  <1>3. Cardinality(Passed(b, j + 1)) = Cardinality(Passed(b, j)) + 1
    BY <1>1, <1>2, RowSets, FS_AddElement
  <1>4. Cardinality(Passed(b, j)) + 1 <= Cardinality(AllRows)
    BY <1>1, <1>3, RowSets
  <1>5. QED
    BY <1>1, <1>3, <1>4, RowSets

\* Past the last row of a bucket.
LEMMA PassesBucket ==
  ASSUME EveryGroupFound, NEW b \in Buckets, NEW j \in 0 .. GrpDepth, j \notin Rows \/ ~Created(b, j)
  PROVE  /\ b + 1 \in Buckets => Passed(b + 1, 0) = Passed(b, j)
         /\ b + 1 \notin Buckets => AllRows = Passed(b, j)
  <1>1. ASSUME NEW x \in AllRows
        PROVE  /\ x[1] \in Nat /\ x[2] \in Nat /\ b \in Nat /\ j \in Nat
               /\ x[1] = b => x[2] < j
               /\ b + 1 \notin Buckets => x[1] <= b
    <2>1. x[1] \in Buckets /\ x[2] \in Rows /\ Created(x[1], x[2])
      BY DEF AllRows
    <2>a. x[1] \in Nat /\ x[2] \in Nat /\ b \in Nat
      BY <2>1, BucketFacts
    <2>2. x[1] \in Nat /\ x[2] \in Nat /\ b \in Nat /\ j \in Nat /\ x[2] < GrpDepth
      BY <2>1, <2>a, Sizes DEF Rows
    <2>3. ASSUME x[1] = b PROVE x[2] < j
      <3>1. CASE j \notin Rows
        BY <2>2, <3>1, Sizes DEF Rows
      <3>2. CASE j \in Rows /\ ~Created(b, j)
        <4>1. ~(j <= x[2])
          BY <2>1, <2>3, <3>2, NoHoles
        <4>2. QED
          BY <2>2, <4>1
      <3>3. QED
        BY <3>1, <3>2
    <2>4. QED
      BY <2>1, <2>2, <2>3, BucketFacts
  <1>2. ASSUME b + 1 \in Buckets PROVE Passed(b + 1, 0) = Passed(b, j)
    <2>1. ASSUME NEW x \in AllRows PROVE x \in Passed(b + 1, 0) <=> x \in Passed(b, j)
      <3>1. x[1] < b + 1 <=> x[1] < b \/ x[1] = b
        BY <1>1
      <3>2. ~(x[2] < 0)
        BY <1>1
      <3>3. QED
        BY <1>1, <3>1, <3>2 DEF Passed
    <2>2. QED
      BY <2>1 DEF Passed
  <1>3. ASSUME b + 1 \notin Buckets PROVE AllRows = Passed(b, j)
    <2>1. ASSUME NEW x \in AllRows PROVE x \in Passed(b, j)
      <3>1. x[1] < b \/ x[1] = b
        BY <1>1, <1>3
      <3>2. QED
        BY <1>1, <3>1 DEF Passed
    <2>2. QED
      BY <2>1 DEF Passed
  <1>4. QED
    BY <1>2, <1>3

\* Each created row has its place in the reply.
LEMMA OnePlace ==
  ASSUME NEW x \in AllRows, NEW y \in AllRows, Place(x) = Place(y)
  PROVE  x = y
  <1>1. ASSUME NEW u \in AllRows, NEW v \in AllRows, u \in Passed(v[1], v[2]) PROVE Place(u) < Place(v)
    <2>1. /\ u[1] \in Buckets /\ u[2] \in Rows /\ v[1] \in Buckets /\ v[2] \in Rows /\ Created(u[1], u[2])
          /\ u = <<u[1], u[2]>>
      BY DEF AllRows
    <2>2. u[1] \in Nat /\ u[2] \in Nat /\ v[1] \in Nat /\ v[2] \in Nat
      BY <2>1, BucketFacts
    <2>3. Passed(u[1], u[2]) \in SUBSET Passed(v[1], v[2])
      <3>1. ASSUME NEW w \in Passed(u[1], u[2]) PROVE w \in Passed(v[1], v[2])
        <4>1. w[1] \in Nat /\ w[2] \in Nat /\ w \in AllRows
          BY BucketFacts DEF Passed, AllRows
        <4>2. QED
          BY <1>1, <2>2, <4>1 DEF Passed
      <3>2. QED
        BY <3>1
    <2>4. u \notin Passed(u[1], u[2])
      BY <2>2 DEF Passed
    <2>5. /\ IsFiniteSet(Passed(v[1], v[2])) /\ Place(u) \in Nat /\ Place(v) \in Nat
      BY <2>1, <2>2, RowSets DEF Place
    <2>6. Place(u) <= Place(v) /\ (Place(u) = Place(v) => Passed(u[1], u[2]) = Passed(v[1], v[2]))
      BY <2>3, <2>5, FS_Subset DEF Place
    <2>7. QED
      BY <1>1, <2>4, <2>5, <2>6
  <1>2. x \in Passed(y[1], y[2]) \/ y \in Passed(x[1], x[2]) \/ x = y
    <2>a. /\ x = <<x[1], x[2]>> /\ y = <<y[1], y[2]>>
          /\ x[1] \in Buckets /\ x[2] \in Rows /\ y[1] \in Buckets /\ y[2] \in Rows
      BY DEF AllRows
    <2>1. /\ x = <<x[1], x[2]>> /\ y = <<y[1], y[2]>>
          /\ x[1] \in Nat /\ x[2] \in Nat /\ y[1] \in Nat /\ y[2] \in Nat
      BY <2>a, BucketFacts
    <2>2. x[1] < y[1] \/ y[1] < x[1] \/ (x[1] = y[1] /\ (x[2] < y[2] \/ y[2] < x[2] \/ x[2] = y[2]))
      BY <2>1
    <2>3. QED
      BY <2>1, <2>2 DEF Passed
  <1>3. Place(x) \in Nat /\ Place(y) \in Nat
    <2>1. x[1] \in Buckets /\ x[2] \in Nat /\ y[1] \in Buckets /\ y[2] \in Nat
      BY BucketFacts DEF AllRows
    <2>2. QED
      BY <2>1, RowSets DEF Place
  <1>4. ~(x \in Passed(y[1], y[2])) /\ ~(y \in Passed(x[1], x[2]))
    BY <1>1, <1>3
  <1>5. QED
    BY <1>2, <1>4

\* The places are filled without a gap, one for each group, and no more than there are indexes.
LEMMA PlacesFilled ==
  ASSUME IInv
  PROVE  /\ \A x \in AllRows : Place(x) \in 0 .. Cardinality(AllRows) - 1
         /\ \A i \in 0 .. Cardinality(AllRows) - 1 : \E x \in AllRows : Place(x) = i
         /\ Listed = {GroupAt(x) : x \in AllRows}
         /\ Cardinality(Listed) = Cardinality(AllRows)
         /\ Cardinality(AllRows) <= GrpMax
  <1> DEFINE T == Cardinality(AllRows)
             f == [x \in AllRows |-> Place(x)]
             h == [x \in AllRows |-> GroupAt(x)]
             e == [x \in AllRows |-> IdxAt(x[1], x[2])]
  <1>1. T \in Nat /\ IsFiniteSet(AllRows)
    BY RowSets
  <1>2. \A x \in AllRows : x = <<x[1], x[2]>> /\ x[1] \in Buckets /\ x[2] \in Rows /\ Created(x[1], x[2])
    BY DEF AllRows
  <1>3. \A x \in AllRows : Place(x) \in 0 .. T - 1
    <2>1. ASSUME NEW x \in AllRows PROVE Place(x) \in 0 .. T - 1
      <3>1. Place(x) < T
        BY <1>2, PassesRow DEF Place
      <3>2. x[2] \in Nat
        BY <1>2, BucketFacts
      <3>3. Place(x) \in Nat
        BY <1>2, <3>2, RowSets DEF Place
      <3>4. QED
        BY <1>1, <3>1, <3>3
    <2>2. QED
      BY <2>1
  <1>4. IsFiniteSet(0 .. T - 1) /\ Cardinality(0 .. T - 1) = T
    BY <1>1, FS_Interval
  <1>5. f \in Injection(AllRows, 0 .. T - 1)
    BY <1>3, OnePlace DEF Injection, IsInjective
  <1>6. f \in Surjection(AllRows, 0 .. T - 1)
    BY <1>4, <1>5, FS_Injection
  <1>7. \A i \in 0 .. T - 1 : \E x \in AllRows : Place(x) = i
    BY <1>6 DEF Surjection
  <1>8. \A x \in AllRows : /\ GroupAt(x) \in Groups /\ mulit_hash_key[GroupAt(x)] = x[1]
                           /\ Exists(GroupAt(x))
    BY <1>2, CreatedFound DEF IInv, GroupAt, Exists
  <1>9. Listed = {GroupAt(x) : x \in AllRows}
    <2>1. ASSUME NEW g \in Listed PROVE \E x \in AllRows : GroupAt(x) = g
      <3>1. PICK r \in Rows : FoundAt(g, r)
        BY DEF Listed, Exists
      <3>2. <<mulit_hash_key[g], r>> \in AllRows /\ GroupAt(<<mulit_hash_key[g], r>>) = g
        BY <3>1, FoundRow, ServerAssumption DEF Listed, AllRows, GroupAt
      <3>3. QED
        BY <3>2
    <2>2. QED
      BY <1>8, <2>1 DEF Listed
  <1>10. Cardinality(Listed) = T
    <2>1. h \in Injection(AllRows, Listed)
      <3>1. h \in [AllRows -> Listed]
        BY <1>9
      <3>2. ASSUME NEW x \in AllRows, NEW y \in AllRows, h[x] = h[y] PROVE x = y
        <4>1. GroupAt(x) = GroupAt(y) /\ x[1] = y[1]
          BY <1>8, <3>2
        <4>2. x[2] = y[2]
          BY <1>2, <4>1, OneRow DEF IInv, GroupAt
        <4>3. QED
          BY <1>2, <4>1, <4>2
      <3>3. QED
        BY <3>1, <3>2 DEF Injection, IsInjective
    <2>2. h \in Surjection(AllRows, Listed)
      BY <1>9 DEF Surjection
    <2>3. QED
      BY <1>1, <2>1, <2>2, FS_Surjection
  <1>11. T <= GrpMax
    <2>1. e \in [AllRows -> Indexes]
      BY <1>2, ListOfRow
    <2>2. e \in Injection(AllRows, Indexes)
      BY <1>2, <2>1 DEF Injection, IsInjective, IInv, IndexesDistinct
    <2>3. IsFiniteSet(Indexes) /\ Cardinality(Indexes) = GrpMax
      BY Sizes, FS_Interval DEF Indexes
    <2>4. QED
      BY <2>2, <2>3, FS_Injection
  <1>12. QED
    BY <1>3, <1>7, <1>9, <1>10, <1>11

-----------------------------------------------------------------------------
(* The invariant of the reply                                              *)

ShowAnswers == {"ok", "MULTI_NODE_NOT_EXSIT"}
ReplyTypes ==
  [ret : ShowAnswers, multi_ip : Groups \cup {NoGroup}, ip_num : Nat,
   ip_list : [0 .. VmMax - 1 -> Groups \cup VMs \cup {NoGroup}]]
ReaderTypes ==
  [pc : {"idle", "row", "num", "list", "ret", "copy"}, cmd : {"show", "list"},
   g : Groups \cup {NoGroup}, b : Buckets, j : 0 .. GrpDepth, k : Nat, ret : ShowAnswers,
   want : SUBSET VMs, there : SUBSET Groups, seen : SUBSET Groups, lost : SUBSET Buckets,
   changes : Nat, mixed : {"none", "shows", "any"}]
InForm(r) ==
  /\ r.pc \in {"row", "num"} => r.cmd = "show"
  /\ r.pc = "list" => r.cmd = "list" /\ r.ret = "ok" /\ r.want = {}
  /\ r.cmd = "list" => r.g \in Groups
ShowTypes ==
  /\ k_service \in ReplyTypes
  /\ reader \in [Readers -> ReaderTypes] /\ \A p \in Readers : InForm(reader[p])

\* Who is not mixed is alone; SHOWs mix only with SHOWs, on a table that has not changed.
MixInv ==
  \A p \in Active :
    /\ reader[p].mixed = "shows" => reader[p].cmd = "show" /\ reader[p].changes = 0
    /\ \A q \in Active \ {p} : reader[q].mixed = reader[p].mixed /\ reader[p].mixed # "none"

\* Where r, alone with the reply ks, has listed g.  In the bucket r is at, the groups listed
\* are those of the rows passed; beyond it, none is.
Places(r, ks, g) == {i \in 0 .. r.k - 1 : ks.ip_list[i] = g}
WalkedPast(r, ks, g) ==
  /\ \A i, l \in Places(r, ks, g) : i = l
  /\ Places(r, ks, g) # {} => g \in r.seen
  /\ g \in r.there => Exists(g)
  /\ g \in r.there /\ (r.pc # "row" \/ mulit_hash_key[g] < r.b) => Places(r, ks, g) # {}
  /\ r.pc = "row" /\ r.b < mulit_hash_key[g] => Places(r, ks, g) = {}
  /\ r.pc = "row" /\ r.b = mulit_hash_key[g] =>
       (Places(r, ks, g) # {} <=> \E s \in Rows : s < r.j /\ Holds(g, s))
Walked(r, ks) ==
  /\ Listed \subseteq r.seen
  /\ r.pc = "row" /\ r.b \notin r.lost => \A s \in Rows : s < r.j => Created(r.b, s)
  /\ r.pc \in {"ret", "copy"} => ks.ip_num = r.k
  /\ r.k <= VmMax => \A g \in Groups : mulit_hash_key[g] \notin r.lost => WalkedPast(r, ks, g)

\* The first n entries of ks are the groups of the table in the order of the walk; so each
\* SHOW writes what another one has written.
Has(n, ks) == \A x \in AllRows : Place(x) < n => ks.ip_list[Place(x)] = GroupAt(x)
Steady(r, ks) ==
  /\ r.there = Listed
  /\ r.pc = "row" => r.k = Cardinality(Passed(r.b, r.j)) /\ \A s \in Rows : s < r.j => Created(r.b, s)
  /\ r.pc # "row" => r.k = Cardinality(AllRows)
  /\ Has(r.k, ks)
  /\ ks.ip_num \in {0, Cardinality(AllRows)}
  /\ ks.ip_num # 0 => Has(Cardinality(AllRows), ks)

\* A LIST alone with ks.
Answered(r, ks) ==
  /\ r.pc = "list" => ks.ip_num = 0
  /\ r.pc # "list" =>
       /\ ks.ip_num = Cardinality(r.want) /\ ks.ip_num <= VmMax
       /\ {ks.ip_list[i] : i \in 0 .. ks.ip_num - 1} = r.want
       /\ r.ret = "ok" => ks.multi_ip = r.g
  /\ r.pc = "copy" => ks.ret = r.ret

Good(r, ks) ==
  /\ r.cmd = "show" /\ r.mixed = "none" => Walked(r, ks)
  /\ r.cmd = "show" /\ r.mixed # "any" /\ r.changes = 0 => Steady(r, ks)
  /\ r.cmd = "list" /\ r.mixed = "none" => Answered(r, ks)

ShowInv == IInv /\ ShowTypes /\ MixInv /\ \A p \in Active : Good(reader[p], k_service)

\* Nothing of this depends on more of the table than multi_grp.
LEMMA SameRows ==
  ASSUME UNCHANGED multi_grp
  PROVE  /\ AllRows' = AllRows /\ Listed' = Listed
         /\ \A r, ks : Good(r, ks)' <=> Good(r, ks)
  <1>1. AllRows' = AllRows /\ \A b, j : Passed(b, j)' = Passed(b, j)
    BY DEF AllRows, Passed, Created
  <1>2. \A x : Place(x)' = Place(x) /\ GroupAt(x)' = GroupAt(x)
    BY <1>1 DEF Place, GroupAt
  <1>3. \A b, r : (Created(b, r)' <=> Created(b, r)) /\ (Holds(b, r)' <=> Holds(b, r))
    BY DEF Created, Holds
  <1>4. Listed' = Listed /\ \A g : Exists(g)' <=> Exists(g)
    BY DEF Listed, Exists, FoundAt
  <1>5. ASSUME NEW r, NEW ks PROVE Good(r, ks)' <=> Good(r, ks)
    <2>1. Walked(r, ks)' <=> Walked(r, ks)
      BY <1>3, <1>4 DEF Walked, WalkedPast, Places
    <2>2. \A n : Has(n, ks)' <=> Has(n, ks)
      BY <1>1, <1>2 DEF Has
    <2>3. Steady(r, ks)' <=> Steady(r, ks)
      BY <1>1, <1>3, <1>4, <2>2 DEF Steady
    <2>4. QED
      BY <2>1, <2>3 DEF Good, Answered
  <1>6. QED
    BY <1>1, <1>4, <1>5

\* The step of one reader under way.  What others have of the reply matters only among SHOWs.
LEMMA ReaderMoves ==
  ASSUME ShowInv, UNCHANGED tableVars, NEW p \in Active, NEW x \in ReaderTypes, InForm(x),
         k_service' \in ReplyTypes, reader' = [reader EXCEPT ![p] = x], x.pc # "idle",
         x.cmd = reader[p].cmd, x.mixed = reader[p].mixed, x.changes = reader[p].changes,
         Good(x, k_service'),
         \A q \in Active \ {p} :
           /\ reader[p].mixed = "shows" /\ reader[p].cmd = "show" /\ reader[p].changes = 0
           /\ reader[q].mixed = "shows" /\ reader[q].cmd = "show" /\ Steady(reader[q], k_service)
           => Steady(reader[q], k_service')
  PROVE  ShowInv'
  <1>1. p \in Readers /\ reader[p].pc # "idle" /\ Active = {q \in Readers : reader[q].pc # "idle"}
    BY DEF Active, ReaderAt
  <1>2. reader'[p] = x /\ \A q \in Readers \ {p} : reader'[q] = reader[q]
    BY <1>1 DEF ShowInv, ShowTypes
  <1>3. Active' = Active
    BY <1>1, <1>2 DEF Active, ReaderAt
  <1>4. IInv' /\ UNCHANGED multi_grp
    <2>2. UNCHANGED <<multi_grp, bitmap, multi_vm, multi_stats, spinning, ret>>
      BY DEF tableVars
    <2>3. TypeOK'
      BY <2>2 DEF ShowInv, IInv, TypeOK
    <2>4. QED
      BY <2>2, <2>3, CountsOnly DEF ShowInv
  <1>5. ShowTypes'
    BY <1>1, <1>2 DEF ShowInv, ShowTypes
  <1>6. MixInv'
    BY <1>1, <1>2, <1>3 DEF ShowInv, MixInv
  <1>7. ASSUME NEW q \in Active \ {p} PROVE Good(reader[q], k_service')
    <2>1. reader[q].mixed = reader[p].mixed /\ reader[q].mixed # "none"
          /\ (reader[q].mixed = "shows" => reader[q].cmd = "show" /\ reader[q].changes = 0
                                           /\ reader[p].cmd = "show" /\ reader[p].changes = 0)
      BY DEF ShowInv, MixInv
    <2>2. Good(reader[q], k_service) /\ reader[q].mixed \in {"none", "shows", "any"}
      <3>1. reader[q] \in ReaderTypes
        BY <1>1 DEF ShowInv, ShowTypes
      <3>2. QED
        BY <3>1 DEF ShowInv, ReaderTypes
    <2>3. CASE reader[q].mixed = "shows"
      <3>1. Steady(reader[q], k_service)
        BY <2>1, <2>2, <2>3 DEF Good
      <3>2. Steady(reader[q], k_service')
        BY <2>1, <2>3, <3>1
      <3>3. QED
        BY <2>1, <2>3, <3>2 DEF Good
    <2>4. CASE reader[q].mixed = "any"
      BY <2>4 DEF Good
    <2>5. QED
      BY <2>1, <2>2, <2>3, <2>4
  <1>8. ASSUME NEW q \in Active' PROVE Good(reader[q], k_service)'
    <2>1. PICK y, ks : y = reader'[q] /\ ks = k_service'
      OBVIOUS
    <2>2. Good(y, ks)
      BY <1>1, <1>2, <1>3, <1>7, <2>1
    <2>3. Good(y, ks)'
      BY <1>4, <2>2, SameRows
    <2>4. Walked(y, ks)' => Walked(reader[q], k_service)'
      BY <2>1 DEF Walked, WalkedPast, Places, Created
    <2>5. Steady(y, ks)' => Steady(reader[q], k_service)'
      BY <2>1 DEF Steady, Has, Passed, Created
    <2>6. Answered(y, ks)' => Answered(reader[q], k_service)'
      BY <2>1 DEF Answered
    <2>7. QED
      BY <2>1, <2>3, <2>4, <2>5, <2>6 DEF Good
  <1>9. QED
    BY <1>4, <1>5, <1>6, <1>8 DEF ShowInv

-----------------------------------------------------------------------------
(* One step of the walk                                                    *)

LEMMA WritesRow ==
  ASSUME IInv, GrpMax <= VmMax, NEW b \in Buckets, NEW j \in Rows, Created(b, j),
         NEW ks \in ReplyTypes, NEW i, i = Cardinality(Passed(b, j)),
         NEW new, \A l \in 0 .. VmMax - 1 :
                    new.ip_list[l] = IF l = i THEN multi_grp[b][j].multi_ip ELSE ks.ip_list[l]
  PROVE  /\ i \in 0 .. VmMax - 1
         /\ \A n \in Nat : Has(n, ks) => Has(n, new)
         /\ Has(i, ks) => Has(i + 1, new)
  <1>1. /\ <<b, j>> \in AllRows /\ Place(<<b, j>>) = i /\ GroupAt(<<b, j>>) = multi_grp[b][j].multi_ip
    BY PassesRow DEF Place, GroupAt
  <1>2. i \in 0 .. VmMax - 1
    <2>1. i \in 0 .. Cardinality(AllRows) - 1 /\ Cardinality(AllRows) <= GrpMax
      BY <1>1, PlacesFilled
    <2>2. QED
      BY <2>1, Sizes, RowSets
  <1>4. \A x \in AllRows : Place(x) \in 0 .. VmMax - 1 /\ (Place(x) = i => x = <<b, j>>)
    <2>1. \A x \in AllRows : Place(x) \in 0 .. Cardinality(AllRows) - 1 /\ Cardinality(AllRows) <= GrpMax
      BY PlacesFilled
    <2>2. \A x \in AllRows : Place(x) \in 0 .. VmMax - 1
      BY <2>1, Sizes, RowSets
    <2>3. QED
      BY <1>1, <2>2, OnePlace
  <1>5. ASSUME NEW x \in AllRows
        PROVE  new.ip_list[Place(x)] = GroupAt(x) <=> Place(x) = i \/ ks.ip_list[Place(x)] = GroupAt(x)
    BY <1>1, <1>4
  <1>6. ASSUME NEW n \in Nat, Has(n, ks) PROVE Has(n, new)
    BY <1>5, <1>6 DEF Has
  <1>7. ASSUME Has(i, ks) PROVE Has(i + 1, new)
    <2>1. ASSUME NEW x \in AllRows, Place(x) < i + 1 PROVE new.ip_list[Place(x)] = GroupAt(x)
      <3>1. Place(x) < i \/ Place(x) = i
        BY <1>2, <1>4, <2>1
      <3>2. QED
        BY <1>5, <1>7, <3>1 DEF Has
    <2>2. QED
      BY <2>1 DEF Has
  <1>8. QED
    BY <1>2, <1>6, <1>7

\* A created row.
LEMMA WalkLists ==
  ASSUME IInv, NEW r \in ReaderTypes, NEW ks \in ReplyTypes, Walked(r, ks), r.pc = "row",
         r.j \in Rows, Created(r.b, r.j), NEW x, x = [r EXCEPT !.j = @ + 1, !.k = @ + 1],
         NEW new, new = IF r.k < VmMax THEN [ks EXCEPT !.ip_list[r.k] = multi_grp[r.b][r.j].multi_ip]
                        ELSE ks
  PROVE  Walked(x, new)
  <1>1. /\ r.b \in Buckets /\ r.j \in Nat /\ r.k \in Nat /\ x.b = r.b /\ x.j = r.j + 1 /\ x.k = r.k + 1
        /\ x.pc = "row" /\ x.seen = r.seen /\ x.there = r.there /\ x.lost = r.lost
    BY Sizes DEF ReaderTypes, Rows
  <1>2. Listed \subseteq x.seen
    BY <1>1 DEF Walked
  <1>3. ASSUME x.b \notin x.lost PROVE \A s \in Rows : s < x.j => Created(x.b, s)
    <2>1. \A s \in Rows : s < r.j + 1 => s < r.j \/ s = r.j
      BY <1>1, BucketFacts
    <2>2. QED
      BY <1>1, <1>3, <2>1 DEF Walked
  <1>4. ASSUME x.k <= VmMax, NEW g \in Groups, mulit_hash_key[g] \notin x.lost
        PROVE  WalkedPast(x, new, g)
    <2> DEFINE G == multi_grp[r.b][r.j].multi_ip
               h == mulit_hash_key[g]
               P == Places(r, ks, g)
               Q == Places(x, new, g)
    <2>1. r.k \in 0 .. VmMax - 1 /\ r.k <= VmMax /\ r.k < VmMax
      BY <1>1, <1>4, Sizes
    <2>2. new = [ks EXCEPT !.ip_list[r.k] = G]
      BY <2>1
    <2>3. \A l \in 0 .. VmMax - 1 : new.ip_list[l] = IF l = r.k THEN G ELSE ks.ip_list[l]
      BY <2>1, <2>2 DEF ReplyTypes
    <2>4. WalkedPast(r, ks, g)
      BY <1>1, <1>4, <2>1 DEF Walked
    <2>5. \A i : i \in Q <=> i \in P \/ (i = r.k /\ G = g)
      <3>1. \A i : i \in 0 .. x.k - 1 <=> i \in 0 .. r.k - 1 \/ i = r.k
        BY <1>1
      <3>2. \A i \in 0 .. r.k - 1 : i \in 0 .. VmMax - 1 /\ i # r.k
        BY <1>1, <2>1, Sizes
      <3>3. QED
        BY <2>1, <2>3, <3>1, <3>2 DEF Places
    <2>6. h \in Buckets /\ h \in Nat /\ r.b \in Nat
      BY <1>1, BucketFacts, ServerAssumption
    <2>7. \A s \in Rows : s < r.j + 1 <=> s < r.j \/ s = r.j
      BY <1>1, BucketFacts
    <2>8. Holds(g, r.j) /\ h = r.b <=> G = g
      BY <1>1, CreatedFound DEF Holds, IInv
    <2>9. CASE G = g
      <3>1. \A s \in Rows : s < r.j => ~Holds(g, s)
        <4>1. \A s \in Rows : Holds(g, s) => s = r.j
          BY <1>1, <2>8, <2>9, OneRow, ServerAssumption DEF Holds, IInv
        <4>2. QED
          BY <1>1, <4>1
      <3>2. P = {}
        BY <1>1, <2>4, <2>8, <2>9, <3>1 DEF WalkedPast
      <3>3. Q = {r.k}
        BY <2>5, <2>9, <3>2
      <3>4. Exists(g)
        BY <2>8, <2>9, LookupNow DEF LookupFacts, IInv
      <3>5. g \in r.seen
        BY <1>2, <1>1, <3>4 DEF Listed
      <3>6. h = r.b
        BY <2>8, <2>9
      <3>7. \E s \in Rows : s < x.j /\ Holds(g, s)
        BY <1>1, <2>7, <2>8, <2>9
      <3> HIDE DEF Q, P, h
      <3>8. QED
        BY <1>1, <2>6, <3>3, <3>4, <3>5, <3>6, <3>7 DEF WalkedPast, Q, h
    <2>10. CASE G # g
      <3>1. Q = P
        BY <2>5, <2>10
      <3>2. r.b = h => ((\E s \in Rows : s < x.j /\ Holds(g, s)) <=> \E s \in Rows : s < r.j /\ Holds(g, s))
        BY <1>1, <2>7, <2>8, <2>10
      <3>3. QED
        BY <1>1, <2>4, <3>1, <3>2 DEF WalkedPast
    <2>11. QED
      BY <2>9, <2>10
  <1>5. QED
    BY <1>1, <1>2, <1>3, <1>4 DEF Walked

\* The end of a bucket.
LEMMA WalkLeaves ==
  ASSUME IInv, NEW r \in ReaderTypes, NEW ks \in ReplyTypes, Walked(r, ks), r.pc = "row",
         r.j \notin Rows \/ ~Created(r.b, r.j),
         NEW x, x = IF r.b + 1 \in Buckets THEN [r EXCEPT !.b = @ + 1, !.j = 0] ELSE [r EXCEPT !.pc = "num"]
  PROVE  Walked(x, ks)
  <1>1. /\ r.b \in Buckets /\ r.j \in 0 .. GrpDepth /\ r.k \in Nat /\ x.k = r.k
        /\ x.seen = r.seen /\ x.there = r.there /\ x.lost = r.lost
        /\ IF r.b + 1 \in Buckets THEN x.pc = "row" /\ x.b = r.b + 1 /\ x.j = 0 ELSE x.pc = "num"
    BY DEF ReaderTypes
  <1>2. Listed \subseteq x.seen
    BY <1>1 DEF Walked
  <1>3. \A s \in Rows : ~(s < 0)
    BY BucketFacts
  <1>4. ASSUME NEW g \in Groups, WalkedPast(r, ks, g) PROVE WalkedPast(x, ks, g)
    <2> DEFINE h == mulit_hash_key[g]
               P == Places(r, ks, g)
    <2>1. Places(x, ks, g) = P
      BY <1>1 DEF Places
    <2>2. h \in Buckets /\ h \in Nat /\ r.b \in Nat
      BY <1>1, BucketFacts, ServerAssumption
    <2>3. ASSUME g \in r.there, h = r.b PROVE P # {}
      <3>1. PICK s \in Rows : Holds(g, s)
        BY <1>4, <2>3, LookupNow DEF WalkedPast, LookupFacts, IInv
      <3>2. s < r.j
        <4>1. s \in Nat /\ s < GrpDepth /\ Created(r.b, s)
          BY <2>3, <3>1, Sizes DEF Rows, Holds
        <4>2. CASE r.j \notin Rows
          BY <1>1, <4>1, <4>2, Sizes DEF Rows
        <4>3. CASE r.j \in Rows /\ ~Created(r.b, r.j)
          <5>1. ~(r.j <= s)
            BY <1>1, <4>1, <4>3, NoHoles DEF IInv
          <5>2. QED
            BY <1>1, <4>1, <5>1
        <4>4. QED
          BY <4>2, <4>3
      <3>3. QED
        BY <1>4, <2>3, <3>1, <3>2 DEF WalkedPast
    <2>4. h < r.b + 1 <=> h < r.b \/ h = r.b
      BY <2>2
    <2>5. r.b + 1 < h => r.b < h
      BY <2>2
    <2>6. r.b + 1 = h => r.b < h
      BY <2>2
    <2>7. r.b + 1 \notin Buckets => h < r.b \/ h = r.b
      <3>1. r.b + 1 \notin Buckets => h <= r.b
        BY <1>1, <2>2, BucketFacts
      <3>2. QED
        BY <2>2, <3>1
    <2>8. CASE r.b + 1 \in Buckets
      <3>1. x.pc = "row" /\ x.b = r.b + 1 /\ x.j = 0
        BY <1>1, <2>8
      <3>2. g \in r.there /\ h < r.b + 1 => P # {}
        BY <1>4, <2>3, <2>4 DEF WalkedPast
      <3>3. r.b + 1 < h \/ r.b + 1 = h => P = {}
        BY <1>4, <2>5, <2>6 DEF WalkedPast
      <3>4. QED
        BY <1>1, <1>3, <1>4, <2>1, <3>1, <3>2, <3>3 DEF WalkedPast
    <2>9. CASE r.b + 1 \notin Buckets
      <3>1. x.pc = "num"
        BY <1>1, <2>9
      <3>2. g \in r.there => P # {}
        BY <1>4, <2>3, <2>7, <2>9 DEF WalkedPast
      <3>3. QED
        BY <1>1, <1>4, <2>1, <3>1, <3>2 DEF WalkedPast
    <2>10. QED
      BY <2>8, <2>9
  <1>5. x.pc = "row" => \A s \in Rows : ~(s < x.j)
    BY <1>1, <1>3
  <1>6. x.pc \in {"row", "num"}
    BY <1>1
  <1>7. QED
    BY <1>1, <1>2, <1>4, <1>5, <1>6 DEF Walked

LEMMA SteadyLists ==
  ASSUME IInv, GrpMax <= VmMax, NEW r \in ReaderTypes, NEW ks \in ReplyTypes, Steady(r, ks),
         r.pc = "row", r.j \in Rows, Created(r.b, r.j),
         NEW x, x.pc = "row", x.b = r.b, x.j = r.j + 1, x.k = r.k + 1, x.there = r.there,
         NEW new, new.ip_num = ks.ip_num,
         \A l \in 0 .. VmMax - 1 :
           new.ip_list[l] = IF l = r.k THEN multi_grp[r.b][r.j].multi_ip ELSE ks.ip_list[l]
  PROVE  /\ r.k \in 0 .. VmMax - 1 /\ Steady(x, new)
         /\ \A q \in ReaderTypes : Steady(q, ks) => Steady(q, new)
  <1>1. /\ r.b \in Buckets /\ r.j \in Nat /\ r.k \in Nat /\ x.b = r.b /\ x.j = r.j + 1 /\ x.k = r.k + 1
        /\ x.pc = "row" /\ x.there = r.there /\ r.k = Cardinality(Passed(r.b, r.j))
    BY Sizes DEF ReaderTypes, Rows, Steady
  <1>2. /\ r.k \in 0 .. VmMax - 1 /\ \A n \in Nat : Has(n, ks) => Has(n, new)
        /\ Has(r.k, ks) => Has(r.k + 1, new)
    <2>1. PICK i, b, j : i = r.k /\ b = r.b /\ j = r.j
      OBVIOUS
    <2>2. /\ b \in Buckets /\ j \in Rows /\ Created(b, j) /\ i = Cardinality(Passed(b, j))
          /\ \A l \in 0 .. VmMax - 1 :
               new.ip_list[l] = IF l = i THEN multi_grp[b][j].multi_ip ELSE ks.ip_list[l]
      BY <1>1, <2>1
    <2>3. i \in 0 .. VmMax - 1 /\ (\A n \in Nat : Has(n, ks) => Has(n, new)) /\ (Has(i, ks) => Has(i + 1, new))
      BY <2>2, WritesRow
    <2>4. QED
      BY <2>1, <2>3
  <1>4. ASSUME NEW q \in ReaderTypes, Steady(q, ks) PROVE Steady(q, new)
    <2>1. q.k \in Nat /\ Cardinality(AllRows) \in Nat
      BY RowSets DEF ReaderTypes
    <2>2. QED
      BY <1>2, <1>4, <2>1 DEF Steady
  <1>5. Cardinality(Passed(x.b, x.j)) = x.k
    BY <1>1, PassesRow
  <1>6. \A s \in Rows : s < x.j => Created(x.b, s)
    <2>1. \A s \in Rows : s < r.j + 1 => s < r.j \/ s = r.j
      BY ONLY <1>1, BucketFacts
    <2>2. QED
      BY <1>1, <2>1 DEF Steady
  <1>7. Steady(x, new)
    <2>1. Steady(r, new)
      BY <1>4
    <2>2. Has(x.k, new)
      BY <1>1, <1>2 DEF Steady
    <2>3. QED
      BY <1>1, <1>5, <1>6, <2>1, <2>2 DEF Steady
  <1>8. QED
    BY <1>2, <1>4, <1>7

LEMMA SteadyLeaves ==
  ASSUME IInv, NEW r \in ReaderTypes, NEW ks \in ReplyTypes, Steady(r, ks), r.pc = "row",
         r.j \notin Rows \/ ~Created(r.b, r.j),
         NEW x, x = IF r.b + 1 \in Buckets THEN [r EXCEPT !.b = @ + 1, !.j = 0] ELSE [r EXCEPT !.pc = "num"]
  PROVE  Steady(x, ks)
  <1>1. /\ r.b \in Buckets /\ r.j \in 0 .. GrpDepth /\ x.k = r.k /\ x.there = r.there
        /\ IF r.b + 1 \in Buckets THEN x.pc = "row" /\ x.b = r.b + 1 /\ x.j = 0 ELSE x.pc = "num"
    BY DEF ReaderTypes
  <1>2. IF r.b + 1 \in Buckets THEN Passed(x.b, x.j) = Passed(r.b, r.j) ELSE AllRows = Passed(r.b, r.j)
    BY <1>1, PassesBucket DEF IInv
  <1>3. \A s \in Rows : ~(s < 0)
    BY BucketFacts
  <1>4. QED
    BY <1>1, <1>2, <1>3 DEF Steady

\* The types of what a reader and the reply become.
LEMMA ActiveTypes ==
  ASSUME ShowInv, NEW p \in Active
  PROVE  /\ p \in Readers /\ reader[p] \in ReaderTypes /\ InForm(reader[p])
         /\ reader[p].pc # "idle" /\ Good(reader[p], k_service) /\ k_service \in ReplyTypes
  BY DEF ShowInv, ShowTypes, Active, ReaderAt

LEMMA ReadsRowInv ==
  ASSUME ShowInv, GrpMax <= VmMax, NEW p \in Readers, ReadsRow(p)
  PROVE  ShowInv'
  <1> DEFINE r == reader[p]
             listing == r.j \in Rows /\ Created(r.b, r.j)
  <1>1. /\ r.pc = "row" /\ UNCHANGED tableVars
        /\ IF listing THEN reader' = [reader EXCEPT ![p].j = @ + 1, ![p].k = @ + 1] ELSE NextBucket(p)
        /\ k_service' = IF listing /\ r.k < VmMax
                        THEN [k_service EXCEPT !.ip_list[r.k] = multi_grp[r.b][r.j].multi_ip]
                        ELSE k_service
    BY DEF ReadsRow, ReaderAt, Created
  <1>2. p \in Active
    BY <1>1 DEF Active, ReaderAt
  <1>3. /\ r \in ReaderTypes /\ InForm(r) /\ Good(r, k_service) /\ k_service \in ReplyTypes /\ IInv
        /\ r.cmd = "show"
    BY <1>1, <1>2, ActiveTypes DEF ShowInv, InForm
  <1>4. reader \in [Readers -> ReaderTypes]
    BY DEF ShowInv, ShowTypes
  <1>5. \A q \in Active : reader[q] \in ReaderTypes
    BY ActiveTypes
  <1>6. CASE listing
    <2> DEFINE x == [r EXCEPT !.j = @ + 1, !.k = @ + 1]
               new == IF r.k < VmMax THEN [k_service EXCEPT !.ip_list[r.k] = multi_grp[r.b][r.j].multi_ip]
                      ELSE k_service
    <2>1. reader' = [reader EXCEPT ![p] = x] /\ k_service' = new
      BY <1>1, <1>4, <1>6
    <2>2. x \in ReaderTypes /\ InForm(x) /\ x.pc # "idle" /\ x.cmd = r.cmd /\ x.mixed = r.mixed
          /\ x.changes = r.changes
      <3>1. r.j + 1 \in 0 .. GrpDepth /\ r.k + 1 \in Nat
        BY <1>3, <1>6, Sizes DEF ReaderTypes, Rows
      <3>2. QED
        BY <1>1, <1>3, <3>1 DEF ReaderTypes, InForm
    <2>3. multi_grp[r.b][r.j].multi_ip \in Groups
      BY <1>3, <1>6, CreatedFound DEF IInv, ReaderTypes
    <2>4. new \in ReplyTypes
      BY <1>3, <2>3 DEF ReplyTypes
    <2>5. r.cmd = "show" /\ r.mixed = "none" => Walked(x, new)
      BY <1>1, <1>3, <1>6, WalkLists DEF Good
    <2>6. r.mixed # "any" /\ r.changes = 0 =>
            /\ Steady(x, new)
            /\ \A q \in ReaderTypes : Steady(q, k_service) => Steady(q, new)
      <3> SUFFICES ASSUME r.mixed # "any", r.changes = 0
                   PROVE  /\ Steady(x, new)
                          /\ \A q \in ReaderTypes : Steady(q, k_service) => Steady(q, new)
        OBVIOUS
      <3> DEFINE nw == [k_service EXCEPT !.ip_list[r.k] = multi_grp[r.b][r.j].multi_ip]
      <3>1. Steady(r, k_service)
        BY <1>3 DEF Good
      <3>2. /\ r.k \in 0 .. VmMax - 1 /\ Steady(x, nw)
            /\ \A q \in ReaderTypes : Steady(q, k_service) => Steady(q, nw)
        <4>1. r.k \in Nat /\ \A l \in 0 .. VmMax - 1 :
                nw.ip_list[l] = IF l = r.k THEN multi_grp[r.b][r.j].multi_ip ELSE k_service.ip_list[l]
          BY <1>3 DEF ReplyTypes, ReaderTypes
        <4>2. nw.ip_num = k_service.ip_num
          BY <1>3 DEF ReplyTypes
        <4>3. x.pc = "row" /\ x.b = r.b /\ x.j = r.j + 1 /\ x.k = r.k + 1 /\ x.there = r.there
          BY <1>1, <1>3 DEF ReaderTypes
        <4> HIDE DEF x, nw, new
        <4>4. QED
          BY <1>1, <1>3, <1>6, <3>1, <4>1, <4>2, <4>3, SteadyLists
      <3>3. new = nw
        BY <3>2, Sizes
      <3> HIDE DEF new, nw, x
      <3>4. QED
        BY <3>2, <3>3
    <2>7. Good(x, new)
      BY <1>3, <2>2, <2>5, <2>6 DEF Good
    <2> HIDE DEF x, new
    <2>8. \A q \in Active \ {p} :
            /\ reader[p].mixed = "shows" /\ reader[p].cmd = "show" /\ reader[p].changes = 0
            /\ reader[q].mixed = "shows" /\ reader[q].cmd = "show" /\ Steady(reader[q], k_service)
            => Steady(reader[q], k_service')
      BY <1>5, <2>1, <2>6
    <2>9. QED
      BY <1>1, <1>2, <2>1, <2>2, <2>4, <2>7, <2>8, ReaderMoves
  <1>7. CASE ~listing
    <2> DEFINE x == IF r.b + 1 \in Buckets THEN [r EXCEPT !.b = @ + 1, !.j = 0] ELSE [r EXCEPT !.pc = "num"]
    <2>1. reader' = [reader EXCEPT ![p] = x] /\ k_service' = k_service
      BY <1>1, <1>4, <1>7 DEF NextBucket
    <2>2. x \in ReaderTypes /\ InForm(x) /\ x.pc # "idle" /\ x.cmd = r.cmd /\ x.mixed = r.mixed
          /\ x.changes = r.changes
      <3>1. 0 \in 0 .. GrpDepth
        BY Sizes
      <3>2. CASE r.b + 1 \in Buckets
        BY <1>1, <1>3, <3>1, <3>2 DEF ReaderTypes, InForm
      <3>3. CASE r.b + 1 \notin Buckets
        BY <1>1, <1>3, <3>3 DEF ReaderTypes, InForm
      <3>4. QED
        BY <3>2, <3>3
    <2>3. r.mixed = "none" => Walked(x, k_service)
      BY <1>1, <1>3, <1>7, WalkLeaves DEF Good
    <2>4. r.mixed # "any" /\ r.changes = 0 => Steady(x, k_service)
      BY <1>1, <1>3, <1>7, SteadyLeaves DEF Good
    <2>5. Good(x, k_service)
      BY <1>3, <2>2, <2>3, <2>4 DEF Good
    <2> HIDE DEF x
    <2>6. QED
      BY <1>1, <1>2, <1>3, <2>1, <2>2, <2>5, ReaderMoves
  <1>8. QED
    BY <1>6, <1>7

LEMMA SetsIpNumInv ==
  ASSUME ShowInv, NEW p \in Readers, SetsIpNum(p)
  PROVE  ShowInv'
  <1> DEFINE r == reader[p]
             x == [r EXCEPT !.pc = "ret", !.b = 0, !.j = 0]
             new == [k_service EXCEPT !.ip_num = r.k]
  <1>1. r.pc = "num" /\ UNCHANGED tableVars /\ k_service' = new
    BY DEF SetsIpNum, ReaderAt
  <1>2. p \in Active
    BY <1>1 DEF Active, ReaderAt
  <1>3. /\ r \in ReaderTypes /\ InForm(r) /\ Good(r, k_service) /\ k_service \in ReplyTypes
        /\ r.cmd = "show" /\ r.k \in Nat
    BY <1>1, <1>2, ActiveTypes DEF ShowInv, InForm, ReaderTypes
  <1>4. reader' = [reader EXCEPT ![p] = x]
    BY DEF SetsIpNum, ShowInv, ShowTypes
  <1>5. /\ x \in ReaderTypes /\ InForm(x) /\ x.cmd = r.cmd /\ x.mixed = r.mixed /\ x.pc = "ret"
        /\ x.changes = r.changes /\ x.k = r.k /\ x.there = r.there /\ x.seen = r.seen /\ x.lost = r.lost
    <2>1. 0 \in Buckets /\ 0 \in 0 .. GrpDepth
      BY BucketFacts, Sizes
    <2>2. QED
      BY <1>1, <1>3, <2>1 DEF ReaderTypes, InForm
  <1>6. new \in ReplyTypes /\ new.ip_num = r.k /\ new.ip_list = k_service.ip_list
    BY <1>3 DEF ReplyTypes
  <1> HIDE DEF x, new
  <1>7. r.mixed = "none" => Walked(x, new)
    <2>1. \A g : Places(x, new, g) = Places(r, k_service, g)
      BY <1>5, <1>6 DEF Places
    <2>2. \A g : WalkedPast(r, k_service, g) => WalkedPast(x, new, g)
      BY <1>1, <1>5, <2>1 DEF WalkedPast
    <2>3. QED
      BY <1>1, <1>3, <1>5, <1>6, <2>2 DEF Walked, Good
  <1>8. \A n : Has(n, new) <=> Has(n, k_service)
    BY <1>6 DEF Has
  <1>9. Steady(r, k_service) =>
          /\ Steady(x, new)
          /\ \A q \in ReaderTypes : Steady(q, k_service) => Steady(q, new)
    BY <1>1, <1>5, <1>6, <1>8 DEF Steady
  <1>10. Good(x, new)
    BY <1>3, <1>5, <1>7, <1>9 DEF Good
  <1>11. \A q \in Active \ {p} :
           /\ r.mixed = "shows" /\ r.cmd = "show" /\ r.changes = 0
           /\ reader[q].mixed = "shows" /\ reader[q].cmd = "show" /\ Steady(reader[q], k_service)
           => Steady(reader[q], k_service')
    BY <1>1, <1>3, <1>9, ActiveTypes DEF Good
  <1>12. QED
    BY <1>1, <1>2, <1>4, <1>5, <1>6, <1>10, <1>11, ReaderMoves

-----------------------------------------------------------------------------
(* LIST, and the ends of both                                              *)

\* A finite set as a sequence.
LEMMA SetAsSeq ==
  ASSUME NEW S, IsFiniteSet(S)
  PROVE  /\ Len(SetToSeq(S)) = Cardinality(S) /\ Cardinality(S) \in Nat
         /\ DOMAIN SetToSeq(S) = 1 .. Cardinality(S)
         /\ {SetToSeq(S)[i] : i \in 1 .. Cardinality(S)} = S
  <1> DEFINE n == Cardinality(S)
             s == SetToSeq(S)
  <1>1. n \in Nat /\ IsFiniteSet(1 .. n) /\ Cardinality(1 .. n) = n
    BY FS_CardinalityType, FS_Interval
  <1>2. PICK f : f \in Injection(1 .. n, S)
    BY FS_CardinalityType DEF ExistsBijection, Bijection
  <1>3. s \in [1 .. n -> S] /\ IsInjective(s)
    BY <1>2 DEF SetToSeq, Injection
  <1>4. s \in Surjection(1 .. n, S)
    BY <1>1, <1>3, FS_Injection DEF Injection
  <1>5. Len(s) = n
    <2>1. s \in Seq(S)
      BY <1>1, <1>3
    <2>2. QED
      BY <1>1, <1>3, <2>1
  <1>6. QED
    BY <1>1, <1>3, <1>4, <1>5 DEF Surjection

\* The members of a group fit in the reply.
LEMMA MembersFit ==
  ASSUME IInv, NEW g \in Groups, Exists(g)
  PROVE  Members(g) \in SUBSET VMs /\ IsFiniteSet(Members(g)) /\ Cardinality(Members(g)) \in 0 .. VmMax
  <1>1. PICK r \in Rows : Holds(g, r) /\ Members(g) = multi_vm[IdxAt(mulit_hash_key[g], r)]
    BY LookupNow DEF LookupFacts, IInv
  <1>2. mulit_hash_key[g] \in Buckets /\ Created(mulit_hash_key[g], r)
    BY <1>1, ServerAssumption DEF Holds
  <1>3. QED
    BY <1>1, <1>2, ListOfRow

LEMMA ListsGroupInv ==
  ASSUME ShowInv, NEW p \in Readers, ListsGroup(p)
  PROVE  ShowInv'
  <1> DEFINE r == reader[p]
             M == Members(r.g)
             n == Cardinality(M)
             s == SetToSeq(M)
             x == [r EXCEPT !.pc = "ret", !.want = M]
             new == [k_service EXCEPT !.ip_num = Len(s), !.multi_ip = r.g,
                       !.ip_list = [i \in DOMAIN @ |-> IF i < Len(s) THEN s[i + 1] ELSE @[i]]]
  <1>1. r.pc = "list" /\ UNCHANGED tableVars /\ k_service' = new /\ Exists(r.g)
    BY DEF ListsGroup, ReaderAt
  <1>2. p \in Active
    BY <1>1 DEF Active, ReaderAt
  <1>3. /\ r \in ReaderTypes /\ InForm(r) /\ k_service \in ReplyTypes
        /\ r.cmd = "list" /\ r.g \in Groups
    BY <1>1, <1>2, ActiveTypes DEF InForm
  <1>4. reader' = [reader EXCEPT ![p] = x]
    BY DEF ListsGroup, ShowInv, ShowTypes
  <1>5. M \in SUBSET VMs /\ IsFiniteSet(M) /\ n \in 0 .. VmMax
    BY <1>1, <1>3, MembersFit DEF ShowInv
  <1>6. Len(s) = n /\ DOMAIN s = 1 .. n /\ {s[i] : i \in 1 .. n} = M
    BY <1>5, SetAsSeq
  <1>7. /\ x \in ReaderTypes /\ InForm(x) /\ x.cmd = r.cmd /\ x.mixed = r.mixed /\ x.pc = "ret"
        /\ x.changes = r.changes /\ x.want = M /\ x.g = r.g
    BY <1>1, <1>3, <1>5 DEF ReaderTypes, InForm
  <1>8. \A i \in 0 .. n - 1 : i \in 0 .. VmMax - 1 /\ i < n /\ i + 1 \in 1 .. n
    BY <1>5, Sizes
  <1>9. /\ new.ip_num = n /\ new.multi_ip = r.g
        /\ new.ip_list = [i \in 0 .. VmMax - 1 |-> IF i < n THEN s[i + 1] ELSE k_service.ip_list[i]]
    BY <1>3, <1>6 DEF ReplyTypes
  <1>10. new \in ReplyTypes
    <2>1. \A i \in 0 .. VmMax - 1 : i < n => s[i + 1] \in VMs
      <3>1. \A i \in 0 .. VmMax - 1 : i < n => i + 1 \in 1 .. n
        BY <1>5, Sizes
      <3>2. QED
        BY <1>5, <1>6, <3>1
    <2>2. new.ip_list \in [0 .. VmMax - 1 -> Groups \cup VMs \cup {NoGroup}]
      BY <1>3, <1>9, <2>1 DEF ReplyTypes
    <2>3. n \in Nat /\ Len(s) = n
      BY <1>5, <1>6
    <2>4. QED
      BY <1>3, <1>6, <2>2, <2>3 DEF ReplyTypes
  <1> HIDE DEF s, x, new
  <1>11. {new.ip_list[i] : i \in 0 .. n - 1} = M
    <2>1. \A i \in 0 .. n - 1 : new.ip_list[i] = s[i + 1]
      BY <1>8, <1>9
    <2>2. \A l \in 1 .. n : l - 1 \in 0 .. n - 1 /\ (l - 1) + 1 = l
      BY <1>5
    <2>3. ASSUME NEW v \in M PROVE \E i \in 0 .. n - 1 : new.ip_list[i] = v
      <3>1. PICK l \in 1 .. n : s[l] = v
        BY <1>6
      <3>2. QED
        BY <2>1, <2>2, <3>1
    <2>4. \A i \in 0 .. n - 1 : new.ip_list[i] \in M
      BY <1>6, <1>8, <2>1
    <2>5. QED
      BY <2>3, <2>4
  <1>12. Good(x, new)
    <2>1. n \in Nat /\ n <= VmMax
      BY <1>5, Sizes
    <2>2. QED
      BY <1>3, <1>7, <1>9, <1>11, <2>1 DEF Good, Answered
  <1>13. QED
    BY <1>1, <1>2, <1>3, <1>4, <1>7, <1>10, <1>12, ReaderMoves

LEMMA ListMissingInv ==
  ASSUME ShowInv, NEW p \in Readers, ListMissing(p)
  PROVE  ShowInv'
  <1> DEFINE r == reader[p]
             x == [r EXCEPT !.pc = "ret", !.ret = "MULTI_NODE_NOT_EXSIT"]
  <1>1. r.pc = "list" /\ UNCHANGED tableVars /\ k_service' = k_service
    BY DEF ListMissing, ReaderAt
  <1>2. p \in Active
    BY <1>1 DEF Active, ReaderAt
  <1>3. /\ r \in ReaderTypes /\ InForm(r) /\ k_service \in ReplyTypes /\ Good(r, k_service)
        /\ r.cmd = "list" /\ r.g \in Groups /\ r.want = {}
    BY <1>1, <1>2, ActiveTypes DEF InForm
  <1>4. reader' = [reader EXCEPT ![p] = x]
    BY DEF ListMissing, ShowInv, ShowTypes
  <1>5. /\ x \in ReaderTypes /\ InForm(x) /\ x.cmd = r.cmd /\ x.mixed = r.mixed /\ x.pc = "ret"
        /\ x.changes = r.changes /\ x.want = {} /\ x.ret = "MULTI_NODE_NOT_EXSIT"
    BY <1>1, <1>3 DEF ReaderTypes, InForm, ShowAnswers
  <1> HIDE DEF x
  <1>6. Good(x, k_service)
    <2>1. Cardinality({}) = 0 /\ 0 <= VmMax /\ 0 .. 0 - 1 = {}
      BY FS_EmptySet, Sizes
    <2>2. ASSUME r.mixed = "none" PROVE Answered(x, k_service)
      <3>1. k_service.ip_num = 0
        BY <1>1, <1>3, <2>2 DEF Good, Answered
      <3>2. {k_service.ip_list[i] : i \in 0 .. k_service.ip_num - 1} = {}
        BY <2>1, <3>1
      <3>3. QED
        BY <1>5, <2>1, <3>1, <3>2 DEF Answered
    <2>3. QED
      BY <1>3, <1>5, <2>2 DEF Good
  <1>7. QED
    BY <1>1, <1>2, <1>3, <1>4, <1>5, <1>6, ReaderMoves

LEMMA SetsRetInv ==
  ASSUME ShowInv, NEW p \in Readers, SetsRet(p)
  PROVE  ShowInv'
  <1> DEFINE r == reader[p]
             x == [r EXCEPT !.pc = "copy"]
             new == [k_service EXCEPT !.ret = r.ret]
  <1>1. r.pc = "ret" /\ UNCHANGED tableVars /\ k_service' = new
    BY DEF SetsRet, ReaderAt
  <1>2. p \in Active
    BY <1>1 DEF Active, ReaderAt
  <1>3. r \in ReaderTypes /\ InForm(r) /\ k_service \in ReplyTypes /\ Good(r, k_service)
    BY <1>1, <1>2, ActiveTypes
  <1>4. reader' = [reader EXCEPT ![p] = x]
    BY DEF SetsRet, ShowInv, ShowTypes
  <1>5. /\ x \in ReaderTypes /\ InForm(x) /\ x.cmd = r.cmd /\ x.mixed = r.mixed /\ x.pc = "copy"
        /\ x.changes = r.changes /\ x.want = r.want /\ x.ret = r.ret /\ x.g = r.g /\ x.k = r.k
        /\ x.there = r.there /\ x.seen = r.seen /\ x.lost = r.lost
    BY <1>1, <1>3 DEF ReaderTypes, InForm
  <1>6. /\ new \in ReplyTypes /\ new.ip_num = k_service.ip_num /\ new.ip_list = k_service.ip_list
        /\ new.multi_ip = k_service.multi_ip /\ new.ret = r.ret
    BY <1>3 DEF ReplyTypes, ReaderTypes
  <1> HIDE DEF x, new
  <1>7. Good(x, new)
    <2>1. Walked(r, k_service) => Walked(x, new)
      <3>1. \A g : Places(x, new, g) = Places(r, k_service, g)
        BY <1>5, <1>6 DEF Places
      <3>2. \A g : WalkedPast(r, k_service, g) => WalkedPast(x, new, g)
        BY <1>1, <1>5, <3>1 DEF WalkedPast
      <3>3. QED
        BY <1>1, <1>5, <1>6, <3>2 DEF Walked
    <2>2. Steady(r, k_service) => Steady(x, new)
      BY <1>1, <1>5, <1>6 DEF Steady, Has
    <2>3. Answered(r, k_service) => Answered(x, new)
      BY <1>1, <1>5, <1>6 DEF Answered
    <2>4. QED
      BY <1>3, <1>5, <2>1, <2>2, <2>3 DEF Good
  <1>8. \A q \in Active : Steady(reader[q], k_service) => Steady(reader[q], new)
    BY <1>6 DEF Steady, Has
  <1>9. QED
    BY <1>1, <1>2, <1>3, <1>4, <1>5, <1>6, <1>7, <1>8, ReaderMoves

\* Nothing of the table.
LEMMA SameTable == IInv /\ UNCHANGED tableVars => IInv'
  <1> SUFFICES ASSUME IInv, UNCHANGED tableVars PROVE IInv'
    OBVIOUS
  <1>1. UNCHANGED <<multi_grp, bitmap, multi_vm, multi_stats, spinning, ret>>
    BY DEF tableVars
  <1>2. TypeOK'
    BY <1>1 DEF IInv, TypeOK
  <1>3. QED
    BY <1>1, <1>2, CountsOnly

LEMMA AbsentTypes == Absent \in ReaderTypes /\ InForm(Absent) /\ Absent.pc = "idle"
  <1>1. 0 \in Buckets /\ 0 \in 0 .. GrpDepth
    BY BucketFacts, Sizes
  <1>2. QED
    BY <1>1 DEF Absent, ReaderTypes, InForm, ShowAnswers

\* From the invariant of the next state's readers to that state's.
LEMMA GoodNext ==
  ASSUME UNCHANGED multi_grp, NEW q, Good(reader'[q], k_service')
  PROVE  Good(reader[q], k_service)'
  <1>1. PICK y, ks : y = reader'[q] /\ ks = k_service'
    OBVIOUS
  <1>2. Good(y, ks)'
    BY <1>1, SameRows
  <1>3. QED
    BY <1>1, <1>2 DEF Good, Walked, WalkedPast, Places, Has, Steady, Answered, Passed, Created

LEMMA CopiesInv ==
  ASSUME ShowInv, NEW p \in Readers, Copies(p)
  PROVE  ShowInv'
  <1>1. /\ reader' = [reader EXCEPT ![p] = Absent] /\ k_service' = k_service /\ UNCHANGED tableVars
        /\ reader[p].pc = "copy"
    BY DEF Copies, ReaderAt
  <1>2. reader'[p] = Absent /\ \A q \in Readers \ {p} : reader'[q] = reader[q]
    BY <1>1 DEF ShowInv, ShowTypes
  <1>3. Active' = Active \ {p}
    BY <1>2, AbsentTypes DEF Active, ReaderAt
  <1>4. IInv' /\ UNCHANGED multi_grp
    BY <1>1, SameTable DEF ShowInv, tableVars
  <1>5. ShowTypes'
    BY <1>1, <1>2, AbsentTypes DEF ShowInv, ShowTypes
  <1>6. \A q \in Active' : q \in Active /\ q # p /\ reader'[q] = reader[q]
    BY <1>2, <1>3 DEF Active
  <1>7. MixInv'
    BY <1>3, <1>6 DEF ShowInv, MixInv
  <1>8. ASSUME NEW q \in Active' PROVE Good(reader[q], k_service)'
    <2>1. Good(reader'[q], k_service')
      BY <1>1, <1>6 DEF ShowInv
    <2>2. QED
      BY <1>4, <2>1, GoodNext
  <1>9. QED
    BY <1>4, <1>5, <1>7, <1>8 DEF ShowInv

-----------------------------------------------------------------------------
(* The beginning of a request, and requests beside it                      *)

\* What is said of a reader does not depend on whose answers are mixed into its own.
LEMMA MixedOnly ==
  ASSUME NEW r \in ReaderTypes, NEW m \in {"none", "shows", "any"},
         NEW y, y = [r EXCEPT !.mixed = m], NEW ks
  PROVE  /\ y \in ReaderTypes /\ y.mixed = m /\ y.pc = r.pc /\ y.cmd = r.cmd /\ y.changes = r.changes
         /\ InForm(r) => InForm(y)
         /\ Walked(r, ks) => Walked(y, ks)
         /\ Steady(r, ks) => Steady(y, ks)
         /\ Answered(r, ks) => Answered(y, ks)
  <1>1. /\ y \in ReaderTypes /\ y.mixed = m /\ y.pc = r.pc /\ y.cmd = r.cmd /\ y.changes = r.changes
        /\ y.g = r.g /\ y.b = r.b /\ y.j = r.j /\ y.k = r.k /\ y.ret = r.ret /\ y.want = r.want
        /\ y.there = r.there /\ y.seen = r.seen /\ y.lost = r.lost
    BY DEF ReaderTypes
  <1>2. InForm(r) => InForm(y)
    BY <1>1 DEF InForm
  <1>3. Walked(r, ks) => Walked(y, ks)
    <2>1. \A g : Places(y, ks, g) = Places(r, ks, g)
      BY <1>1 DEF Places
    <2>2. \A g : WalkedPast(r, ks, g) => WalkedPast(y, ks, g)
      BY <1>1, <2>1 DEF WalkedPast
    <2>3. QED
      BY <1>1, <2>2 DEF Walked
  <1>4. Steady(r, ks) => Steady(y, ks)
    BY <1>1 DEF Steady
  <1>5. Answered(r, ks) => Answered(y, ks)
    BY <1>1 DEF Answered
  <1>6. QED
    BY <1>1, <1>2, <1>3, <1>4, <1>5

LEMMA BeginsInv ==
  ASSUME ShowInv, NEW p \in Readers, NEW r \in ReaderTypes, Begins(p, r), InForm(r), r.pc # "idle",
         r.changes = 0, NEW new, new = [k_service EXCEPT !.ip_num = 0],
         r.cmd = "show" => Walked(r, new) /\ Steady(r, new),
         r.cmd = "list" => Answered(r, new)
  PROVE  ShowInv'
  <1> DEFINE m == Mixture(r)
             mine == IF Active = {} THEN "none" ELSE m
             x == [r EXCEPT !.mixed = mine]
  <1>1. /\ UNCHANGED tableVars /\ k_service' = new /\ reader[p].pc = "idle"
        /\ reader' = [q \in Readers |->
             IF q = p THEN x ELSE IF q \in Active THEN [reader[q] EXCEPT !.mixed = m] ELSE reader[q]]
    BY DEF Begins, ReaderAt
  <1>2. m \in {"shows", "any"} /\ mine \in {"none", "shows", "any"}
    BY DEF Mixture
  <1>3. /\ \A q \in Readers : reader[q] \in ReaderTypes /\ InForm(reader[q])
        /\ k_service \in ReplyTypes
    BY DEF ShowInv, ShowTypes
  <1>4. /\ x \in ReaderTypes /\ x.mixed = mine /\ x.pc = r.pc /\ x.cmd = r.cmd /\ x.changes = 0 /\ InForm(x)
        /\ Walked(r, new) => Walked(x, new)
        /\ Steady(r, new) => Steady(x, new)
        /\ Answered(r, new) => Answered(x, new)
    BY <1>2, MixedOnly
  <1>5. new \in ReplyTypes /\ new.ip_num = 0 /\ new.ip_list = k_service.ip_list
    BY <1>3 DEF ReplyTypes
  <1>6. m = "shows" =>
          /\ r.cmd = "show"
          /\ \A q \in Active : reader[q].cmd = "show" /\ reader[q].changes = 0 /\ reader[q].mixed # "any"
    BY DEF Mixture
  <1>7. p \notin Active /\ Active \subseteq Readers
    BY <1>1 DEF Active, ReaderAt
  <1> HIDE DEF m, mine, x
  <1>8. ASSUME NEW q \in Active
        PROVE  /\ reader'[q] \in ReaderTypes /\ InForm(reader'[q]) /\ reader'[q].mixed = m
               /\ reader'[q].pc = reader[q].pc /\ reader'[q].cmd = reader[q].cmd
               /\ reader'[q].changes = reader[q].changes
               /\ Steady(reader[q], new) => Steady(reader'[q], new)
    <2>1. reader'[q] = [reader[q] EXCEPT !.mixed = m] /\ reader[q] \in ReaderTypes /\ InForm(reader[q])
      BY <1>1, <1>3, <1>7
    <2>2. m \in {"none", "shows", "any"}
      BY <1>2
    <2>3. PICK y : y = reader'[q]
      OBVIOUS
    <2>4. QED
      BY <2>1, <2>2, <2>3, MixedOnly
  <1>9. reader'[p] = x /\ \A q \in Readers \ (Active \cup {p}) : reader'[q] = reader[q]
    BY <1>1
  <1>10. Active' = Active \cup {p}
    <2>1. \A q \in Readers : reader'[q].pc # "idle" <=> q \in Active \cup {p}
      BY <1>4, <1>8, <1>9 DEF Active, ReaderAt
    <2>2. QED
      BY <1>7, <2>1 DEF Active, ReaderAt
  <1>11. ShowTypes'
    <2>1. \A q \in Readers : reader'[q] \in ReaderTypes /\ InForm(reader'[q])
      BY <1>3, <1>4, <1>8, <1>9
    <2>2. reader' \in [Readers -> ReaderTypes]
      BY <1>1, <2>1
    <2>3. QED
      BY <1>1, <1>5, <2>1, <2>2 DEF ShowTypes
  <1>12. MixInv'
    <2>1. \A q \in Active' : reader'[q].mixed = IF q = p THEN mine ELSE m
      BY <1>4, <1>8, <1>9, <1>10
    <2>2. Active # {} => mine = m
      BY DEF mine
    <2>3. \A q \in Active' : reader'[q].mixed = "shows" => reader'[q].cmd = "show" /\ reader'[q].changes = 0
      <3>1. mine = "shows" => m = "shows"
        BY DEF mine
      <3>2. QED
        BY <1>4, <1>6, <1>8, <1>9, <1>10, <2>1, <3>1
    <2>4. \A q, u \in Active' : q # u => reader'[q].mixed = m /\ reader'[u].mixed = m
      BY <1>10, <2>1, <2>2
    <2>5. m # "none"
      BY <1>2
    <2>6. QED
      BY <2>3, <2>4, <2>5 DEF MixInv
  <1>13. IInv' /\ UNCHANGED multi_grp
    BY <1>1, SameTable DEF ShowInv, tableVars
  <1>14. ASSUME NEW q \in Active' PROVE Good(reader[q], k_service)'
    <2>1. CASE q = p
      <3>1. Good(reader'[q], new)
        BY <1>4, <1>9, <2>1 DEF Good
      <3>2. QED
        BY <1>1, <1>13, <3>1, GoodNext
    <2>2. CASE q \in Active
      <3>1. CASE m = "any"
        <4>1. Good(reader'[q], new)
          BY <1>8, <2>2, <3>1 DEF Good
        <4>2. QED
          BY <1>1, <1>13, <4>1, GoodNext
      <3>2. CASE m = "shows"
        <4>1. Steady(reader[q], k_service)
          BY <1>6, <2>2, <3>2 DEF ShowInv, Good
        <4>2. Steady(reader[q], new)
          BY <1>5, <4>1 DEF Steady, Has
        <4>3. Good(reader'[q], new)
          BY <1>6, <1>8, <2>2, <3>2, <4>2 DEF Good
        <4>4. QED
          BY <1>1, <1>13, <4>3, GoodNext
      <3>3. QED
        BY <1>2, <3>1, <3>2
    <2>3. QED
      BY <1>10, <2>1, <2>2
  <1>15. QED
    BY <1>11, <1>12, <1>13, <1>14 DEF ShowInv

LEMMA ShowBeginsInv ==
  ASSUME ShowInv, NEW p \in Readers, ShowBegins(p)
  PROVE  ShowInv'
  <1> DEFINE r == [Absent EXCEPT !.pc = "row", !.there = Listed, !.seen = Listed]
             new == [k_service EXCEPT !.ip_num = 0]
  <1>1. Begins(p, r)
    BY DEF ShowBegins
  <1>2. /\ r.pc = "row" /\ r.cmd = "show" /\ r.changes = 0 /\ r.k = 0 /\ r.b = 0 /\ r.j = 0
        /\ r.there = Listed /\ r.seen = Listed /\ r.lost = {}
    BY DEF Absent
  <1>3. r \in ReaderTypes /\ InForm(r)
    <2>1. Absent \in ReaderTypes /\ Listed \in SUBSET Groups
      BY AbsentTypes DEF Listed
    <2>2. r \in ReaderTypes
      BY <2>1 DEF ReaderTypes
    <2>3. QED
      BY <1>2, <2>2 DEF InForm
  <1>4. new.ip_num = 0 /\ new.ip_list = k_service.ip_list
    BY DEF ShowInv, ShowTypes, ReplyTypes
  <1> HIDE DEF r, new
  <1>5. \A s \in Rows : ~(s < 0)
    BY BucketFacts
  <1>6. 0 .. 0 - 1 = {} /\ \A n \in Nat : ~(n < 0)
    OBVIOUS
  <1>7. Walked(r, new)
    <2>1. ASSUME NEW g \in Groups PROVE WalkedPast(r, new, g)
      <3>1. Places(r, new, g) = {}
        BY <1>2, <1>6 DEF Places
      <3>2. mulit_hash_key[g] \in Nat
        BY BucketFacts, ServerAssumption
      <3>3. ~(mulit_hash_key[g] < 0)
        BY <3>2
      <3>4. g \in r.there => Exists(g)
        BY <1>2 DEF Listed
      <3>5. QED
        BY <1>2, <1>5, <3>1, <3>3, <3>4 DEF WalkedPast
    <2>2. QED
      BY <1>2, <1>5, <2>1 DEF Walked
  <1>8. Steady(r, new)
    <2>1. Passed(0, 0) = {}
      <3>1. ASSUME NEW x \in AllRows PROVE ~(x[1] < 0) /\ ~(x[2] < 0)
        <4>1. x[1] \in Buckets /\ x[2] \in Rows
          BY DEF AllRows
        <4>2. x[1] \in Nat /\ x[2] \in Nat
          BY <4>1, BucketFacts
        <4>3. QED
          BY <4>2
      <3>2. QED
        BY <3>1 DEF Passed
    <2>2. Cardinality(Passed(0, 0)) = 0
      BY <2>1, FS_EmptySet
    <2>3. Has(0, new)
      <3>1. \A x \in AllRows : Place(x) \in 0 .. Cardinality(AllRows) - 1
        BY PlacesFilled DEF ShowInv
      <3>2. \A x \in AllRows : ~(Place(x) < 0)
        BY <3>1
      <3>3. QED
        BY <3>2 DEF Has
    <2>4. QED
      BY <1>2, <1>4, <1>5, <2>2, <2>3 DEF Steady
  <1>9. QED
    BY <1>1, <1>2, <1>3, <1>7, <1>8, BeginsInv DEF new

LEMMA ListBeginsInv ==
  ASSUME ShowInv, NEW p \in Readers, NEW g \in Groups, ListBegins(p, g)
  PROVE  ShowInv'
  <1> DEFINE r == [Absent EXCEPT !.pc = "list", !.cmd = "list", !.g = g]
             new == [k_service EXCEPT !.ip_num = 0]
  <1>1. Begins(p, r)
    BY DEF ListBegins
  <1>2. /\ r.pc = "list" /\ r.cmd = "list" /\ r.changes = 0 /\ r.g = g /\ r.want = {} /\ r.ret = "ok"
    BY DEF Absent
  <1>3. r \in ReaderTypes /\ InForm(r)
    <2>1. r \in ReaderTypes
      BY AbsentTypes DEF ReaderTypes
    <2>2. QED
      BY <1>2, <2>1 DEF InForm
  <1>4. new.ip_num = 0
    BY DEF ShowInv, ShowTypes, ReplyTypes
  <1> HIDE DEF r, new
  <1>5. Answered(r, new)
    BY <1>2, <1>4 DEF Answered
  <1>6. QED
    BY <1>1, <1>2, <1>3, <1>5, BeginsInv DEF new

\* In a bucket that loses no row every group stays where it is.
LEMMA RowsStay ==
  ASSUME IInv, IInv', NEW b \in Buckets, ~LosesRow(b), NEW s \in Rows, Created(b, s)
  PROVE  Created(b, s)' /\ multi_grp'[b][s].multi_ip = multi_grp[b][s].multi_ip
  <1>1. multi_grp'[b][s].multi_ip = multi_grp[b][s].multi_ip
    BY DEF LosesRow
  <1>2. multi_grp'[b][s].multi_ip \in Groups
    BY <1>1, CreatedFound DEF IInv
  <1>3. ~Created(b, s)' => multi_grp'[b][s] = FreeNode
    BY DEF IInv, EveryGroupFound
  <1>4. QED
    BY <1>1, <1>2, <1>3, ServerAssumption DEF FreeNode

LEMMA WalkBeside ==
  ASSUME IInv, IInv', NEW r \in ReaderTypes, NEW ks, Walked(r, ks),
         NEW y, y.pc = r.pc, y.b = r.b, y.j = r.j, y.k = r.k, y.there = r.there,
         y.lost = r.lost \cup {b \in Buckets : LosesRow(b)}, y.seen = r.seen \cup Listed'
  PROVE  Walked(y, ks)'
  <1>1. r.b \in Buckets
    BY DEF ReaderTypes
  <1>2. \A b \in Buckets : b \notin y.lost =>
          /\ b \notin r.lost
          /\ \A s \in Rows : Created(b, s) =>
               Created(b, s)' /\ multi_grp'[b][s].multi_ip = multi_grp[b][s].multi_ip
    BY RowsStay
  <1>3. y.pc = "row" /\ y.b \notin y.lost => \A s \in Rows : s < y.j => Created(y.b, s) /\ Created(y.b, s)'
    BY <1>1, <1>2 DEF Walked
  <1>4. ASSUME NEW g \in Groups, mulit_hash_key[g] \notin y.lost, WalkedPast(r, ks, g)
        PROVE  WalkedPast(y, ks, g)'
    <2> DEFINE h == mulit_hash_key[g]
    <2>1. h \in Buckets
      BY ServerAssumption
    <2>2. Places(y, ks, g) = Places(r, ks, g)
      BY DEF Places
    <2>3. \A s \in Rows : Holds(g, s) => Holds(g, s)'
      BY <1>2, <1>4, <2>1 DEF Holds
    <2>4. Exists(g) => Exists(g)'
      <3>1. Exists(g) => \E s \in Rows : Holds(g, s)
        BY LookupNow DEF LookupFacts, IInv
      <3>2. (\E s \in Rows : Holds(g, s)') => Exists(g)'
        BY LookupNext DEF LookupFacts, IInv
      <3>3. QED
        BY <2>3, <3>1, <3>2
    <2>5. ASSUME y.pc = "row", y.b = h
          PROVE  (\E s \in Rows : s < y.j /\ Holds(g, s)') <=> \E s \in Rows : s < r.j /\ Holds(g, s)
      <3>1. \A s \in Rows : s < r.j => (Holds(g, s)' <=> Holds(g, s))
        BY <1>2, <1>3, <1>4, <2>1, <2>5 DEF Holds
      <3>2. QED
        BY <3>1
    <2>6. Places(y, ks, g)' = Places(y, ks, g)
      BY DEF Places
    <2>7. QED
      BY <1>4, <2>2, <2>4, <2>5, <2>6 DEF WalkedPast
  <1>5. r.k <= VmMax => \A g \in Groups : mulit_hash_key[g] \notin y.lost => WalkedPast(y, ks, g)'
    <2>1. \A g \in Groups : mulit_hash_key[g] \notin y.lost => mulit_hash_key[g] \notin r.lost
      OBVIOUS
    <2>2. QED
      BY <1>4, <2>1 DEF Walked
  <1>6. QED
    BY <1>3, <1>5 DEF Walked

LEMMA OtherRequestInv ==
  ASSUME ShowInv, IndexesFit, OtherRequest
  PROVE  ShowInv'
  <1>1. /\ Next /\ k_service' = k_service
        /\ reader' = [p \in Readers |-> IF p \in Active THEN Watched(reader[p]) ELSE reader[p]]
    BY DEF OtherRequest
  <1>2. IInv /\ IInv'
    BY <1>1, NextInv DEF ShowInv
  <1>3. Active \subseteq Readers /\ \A p \in Active : reader[p] \in ReaderTypes /\ InForm(reader[p])
    BY ActiveTypes
  <1>4. CASE UNCHANGED <<multi_grp, multi_vm>>
    <2>1. \A p \in Active : Watched(reader[p]) = reader[p]
      BY <1>4 DEF Watched
    <2>2. reader' = reader
      BY <1>1, <2>1 DEF ShowInv, ShowTypes
    <2>3. Active' = Active
      BY <2>2 DEF Active, ReaderAt
    <2>4. ShowTypes' /\ MixInv'
      BY <1>1, <2>2, <2>3 DEF ShowInv, ShowTypes, MixInv
    <2>5. ASSUME NEW q \in Active' PROVE Good(reader[q], k_service)'
      <3>1. Good(reader'[q], k_service')
        BY <1>1, <2>2, <2>3 DEF ShowInv
      <3>2. QED
        BY <1>4, <3>1, GoodNext
    <2>6. QED
      BY <1>2, <2>4, <2>5 DEF ShowInv
  <1>5. CASE ~UNCHANGED <<multi_grp, multi_vm>>
    <2> DEFINE L == {b \in Buckets : LosesRow(b)}
    <2>1. ASSUME NEW p \in Active
          PROVE  /\ reader'[p] \in ReaderTypes /\ InForm(reader'[p])
                 /\ reader'[p].pc = reader[p].pc /\ reader'[p].cmd = reader[p].cmd
                 /\ reader'[p].changes = reader[p].changes + 1 /\ reader'[p].changes # 0
                 /\ reader'[p].lost = reader[p].lost \cup L
                 /\ reader[p].cmd = "show" => reader'[p].seen = reader[p].seen \cup Listed'
                 /\ reader'[p].mixed = (IF reader[p].mixed = "none" THEN "none" ELSE "any")
                 /\ reader'[p].b = reader[p].b /\ reader'[p].j = reader[p].j /\ reader'[p].k = reader[p].k
                 /\ reader'[p].there = reader[p].there /\ reader'[p].want = reader[p].want
                 /\ reader'[p].ret = reader[p].ret /\ reader'[p].g = reader[p].g
      <3> DEFINE r == reader[p]
      <3>1. reader'[p] = [r EXCEPT !.changes = @ + 1, !.lost = @ \cup L,
                            !.seen = IF r.cmd = "show" THEN @ \cup Listed' ELSE @,
                            !.mixed = IF @ = "none" THEN "none" ELSE "any"]
        BY <1>1, <1>3, <1>5 DEF Watched
      <3>2. r \in ReaderTypes /\ InForm(r)
        BY <1>3
      <3>3. L \in SUBSET Buckets /\ Listed' \in SUBSET Groups
        BY DEF Listed
      <3>4. r.changes \in Nat /\ r.changes + 1 \in Nat /\ r.changes + 1 # 0
        BY <3>2 DEF ReaderTypes
      <3> HIDE DEF L
      <3>5. reader'[p] \in ReaderTypes
        <4>1. PICK c, l, s, m :
                /\ c = r.changes + 1 /\ l = r.lost \cup L
                /\ s = (IF r.cmd = "show" THEN r.seen \cup Listed' ELSE r.seen)
                /\ m = (IF r.mixed = "none" THEN "none" ELSE "any")
          OBVIOUS
        <4>2. reader'[p] = [r EXCEPT !.changes = c, !.lost = l, !.seen = s, !.mixed = m]
          BY <3>1, <4>1
        <4>a. r.lost \in SUBSET Buckets /\ r.seen \in SUBSET Groups
          BY <3>2 DEF ReaderTypes
        <4>3. c \in Nat /\ l \in SUBSET Buckets /\ s \in SUBSET Groups /\ m \in {"none", "shows", "any"}
          BY <3>3, <3>4, <4>1, <4>a
        <4>4. r \in ReaderTypes
          BY <3>2
        <4> HIDE DEF r
        <4>5. QED
          BY <4>2, <4>3, <4>4 DEF ReaderTypes
      <3>6. QED
        BY <3>1, <3>2, <3>4, <3>5 DEF ReaderTypes, InForm
    <2>2. \A p \in Readers \ Active : reader'[p] = reader[p]
      BY <1>1
    <2>3. Active' = Active
      <3>1. \A p \in Readers : reader'[p].pc = reader[p].pc
        BY <2>1, <2>2
      <3>2. QED
        BY <3>1 DEF Active, ReaderAt
    <2>4. ShowTypes'
      <3>1. \A p \in Readers : reader'[p] \in ReaderTypes /\ InForm(reader'[p])
        BY <2>1, <2>2 DEF ShowInv, ShowTypes
      <3>2. reader' \in [Readers -> ReaderTypes]
        BY <1>1, <3>1
      <3>3. QED
        BY <1>1, <3>1, <3>2 DEF ShowInv, ShowTypes
    <2>5. MixInv'
      <3>1. \A p \in Active : reader'[p].mixed # "shows"
        BY <2>1
      <3>2. \A p \in Active : \A q \in Active \ {p} : reader[p].mixed # "none" /\ reader[q].mixed # "none"
        BY DEF ShowInv, MixInv
      <3>3. \A p \in Active : \A q \in Active \ {p} : reader'[p].mixed = "any" /\ reader'[q].mixed = "any"
        BY <2>1, <3>2
      <3>4. QED
        BY <2>3, <3>1, <3>3 DEF MixInv
    <2>6. ASSUME NEW p \in Active' PROVE Good(reader[p], k_service)'
      <3>1. PICK y, ks : y = reader'[p] /\ ks = k_service'
        OBVIOUS
      <3>2. Good(reader[p], ks) /\ p \in Active
        BY <1>1, <2>3, <3>1 DEF ShowInv
      <3>3. y.cmd = "show" /\ y.mixed = "none" => Walked(y, ks)'
        <4> SUFFICES ASSUME y.cmd = "show", y.mixed = "none" PROVE Walked(y, ks)'
          OBVIOUS
        <4>1. reader[p].cmd = "show" /\ reader[p].mixed = "none"
          BY <2>1, <3>1, <3>2
        <4>2. Walked(reader[p], ks) /\ reader[p] \in ReaderTypes
          BY <1>3, <3>2, <4>1 DEF Good
        <4>3. PICK r : r = reader[p]
          OBVIOUS
        <4>4. /\ y.pc = r.pc /\ y.b = r.b /\ y.j = r.j /\ y.k = r.k /\ y.there = r.there
              /\ y.lost = r.lost \cup L /\ y.seen = r.seen \cup Listed'
          BY <2>1, <3>1, <3>2, <4>1, <4>3
        <4>5. Walked(r, ks) /\ r \in ReaderTypes
          BY <4>2, <4>3
        <4>6. QED
          BY <1>2, <4>4, <4>5, WalkBeside
      <3>4. y.changes # 0
        BY <2>1, <3>1, <3>2
      <3>5. y.cmd = "list" /\ y.mixed = "none" => Answered(y, ks)
        BY <2>1, <3>1, <3>2 DEF Good, Answered
      <3>6. Good(y, ks)'
        BY <3>3, <3>4, <3>5 DEF Good, Answered
      <3>7. QED
        BY <3>1, <3>6 DEF Good, Walked, WalkedPast, Places, Has, Steady, Answered, Passed, Created
    <2>7. QED
      BY <1>2, <2>4, <2>5, <2>6 DEF ShowInv
  <1>6. QED
    BY <1>4, <1>5

LEMMA ShowInitInv == ShowInit => ShowInv
  <1> SUFFICES ASSUME ShowInit PROVE ShowInv
    OBVIOUS
  <1>1. IInv
    BY InitInv DEF ShowInit
  <1>2. \A p \in Readers : reader[p] = Absent
    BY DEF ShowInit
  <1>3. Active = {}
    BY <1>2, AbsentTypes DEF Active, ReaderAt
  <1>4. ShowTypes
    BY AbsentTypes DEF ShowInit, ShowTypes, ReplyTypes, ShowAnswers
  <1>5. QED
    BY <1>1, <1>3, <1>4 DEF ShowInv, MixInv

LEMMA ShowInvNext ==
  ASSUME IndexesFit, GrpMax <= VmMax, ShowInv, [ShowNext]_showVars
  PROVE  ShowInv'
  <1>1. CASE OtherRequest
    BY <1>1, OtherRequestInv
  <1>2. ASSUME NEW p \in Readers, ReaderSteps(p) PROVE ShowInv'
    BY <1>2, ShowBeginsInv, ReadsRowInv, SetsIpNumInv, ListBeginsInv, ListsGroupInv, ListMissingInv,
       SetsRetInv, CopiesInv DEF ReaderSteps
  <1>3. CASE UNCHANGED showVars
    <2>1. UNCHANGED tableVars /\ reader' = reader /\ k_service' = k_service
      BY <1>3 DEF showVars
    <2>2. IInv' /\ UNCHANGED multi_grp
      BY <2>1, SameTable DEF ShowInv, tableVars
    <2>3. Active' = Active
      BY <2>1 DEF Active, ReaderAt
    <2>4. ShowTypes' /\ MixInv'
      BY <2>1, <2>3 DEF ShowInv, ShowTypes, MixInv
    <2>5. ASSUME NEW q \in Active' PROVE Good(reader[q], k_service)'
      <3>1. Good(reader'[q], k_service')
        BY <2>1, <2>3 DEF ShowInv
      <3>2. QED
        BY <2>2, <3>1, GoodNext
    <2>6. QED
      BY <2>2, <2>4, <2>5 DEF ShowInv
  <1>4. QED
    BY <1>1, <1>2, <1>3 DEF ShowNext

LEMMA ShowInvariant ==
  ASSUME IndexesFit, GrpMax <= VmMax
  PROVE  ShowSpec => []ShowInv
  <1>1. ShowInit => ShowInv
    BY ShowInitInv
  <1>2. ShowInv /\ [ShowNext]_showVars => ShowInv'
    BY ShowInvNext
  <1>3. QED
    BY <1>1, <1>2, PTL DEF ShowSpec

\* What the sender prints of an answer that fits the list: the places of g, counted from 1.
LEMMA PrintedPlaces ==
  ASSUME NEW r, r.k \in Nat, r.k <= VmMax, k_service.ip_num = r.k, NEW g,
         \A i, l \in Places(r, k_service, g) : i = l
  PROVE  /\ Times(g, Printed) \in Nat /\ Times(g, Printed) <= 1
         /\ Places(r, k_service, g) # {} => Times(g, Printed) = 1
         /\ Places(r, k_service, g) = {} => Times(g, Printed) = 0
  <1> DEFINE Q == {i \in DOMAIN Printed : Printed[i] = g}
  <1>1. VmMax \in Nat
    BY Sizes
  <1>2. DOMAIN Printed = 1 .. r.k /\ \A i \in 1 .. r.k : Printed[i] = k_service.ip_list[i - 1]
    BY <1>1 DEF Printed
  <1>3. \A i \in Q : i \in Nat /\ i - 1 \in Places(r, k_service, g)
    BY <1>2 DEF Places
  <1>4. \A i \in Places(r, k_service, g) : i + 1 \in Q
    <2>1. ASSUME NEW i \in Places(r, k_service, g) PROVE i + 1 \in Q
      <3>1. i \in 0 .. r.k - 1 /\ k_service.ip_list[i] = g
        BY DEF Places
      <3>2. i + 1 \in 1 .. r.k /\ (i + 1) - 1 = i
        BY <3>1
      <3>3. QED
        BY <1>2, <3>1, <3>2
    <2>2. QED
      BY <2>1
  <1>5. Times(g, Printed) = Cardinality(Q)
    BY DEF Times
  <1>6. CASE Places(r, k_service, g) = {}
    <2>1. Q = {}
      BY <1>3, <1>6
    <2>2. QED
      BY <1>5, <1>6, <2>1, FS_EmptySet
  <1>7. CASE Places(r, k_service, g) # {}
    <2>1. PICK i \in Places(r, k_service, g) : TRUE
      BY <1>7
    <2>2. \A m, n \in Q : m = n
      <3>1. ASSUME NEW m \in Q, NEW n \in Q PROVE m = n
        <4>1. m - 1 = n - 1 /\ m \in Nat /\ n \in Nat
          BY <1>3
        <4>2. QED
          BY <4>1
      <3>2. QED
        BY <3>1
    <2>3. Q = {i + 1}
      BY <1>4, <2>1, <2>2
    <2>4. Cardinality({i + 1}) = 1
      BY FS_Singleton
    <2>5. QED
      BY <1>5, <1>7, <2>3, <2>4
  <1>8. QED
    BY <1>6, <1>7

\* An answer whose entries are known as a set.
LEMMA PrintedAll ==
  ASSUME k_service.ip_num \in Nat, k_service.ip_num <= VmMax
  PROVE  /\ Len(Printed) = k_service.ip_num
         /\ ToSet(Printed) = {k_service.ip_list[i] : i \in 0 .. k_service.ip_num - 1}
  <1> DEFINE n == k_service.ip_num
  <1>1. VmMax \in Nat
    BY Sizes
  <1>2. Printed = [i \in 1 .. n |-> k_service.ip_list[i - 1]]
    BY <1>1 DEF Printed
  <1>3. Len(Printed) = n
    BY <1>2
  <1>4. ToSet(Printed) = {Printed[i] : i \in 1 .. n}
    BY <1>2 DEF ToSet
  <1>5. \A i \in 1 .. n : i - 1 \in 0 .. n - 1
    OBVIOUS
  <1>6. \A i \in 0 .. n - 1 : i + 1 \in 1 .. n /\ (i + 1) - 1 = i
    OBVIOUS
  <1>7. {Printed[i] : i \in 1 .. n} = {k_service.ip_list[i] : i \in 0 .. n - 1}
    <2>1. \A i \in 1 .. n : Printed[i] = k_service.ip_list[i - 1]
      BY <1>2
    <2>2. \A i \in 0 .. n - 1 : Printed[i + 1] = k_service.ip_list[i]
      BY <1>6, <2>1
    <2> HIDE DEF n
    <2>3. QED
      BY <1>5, <1>6, <2>1, <2>2
  <1>8. QED
    BY <1>3, <1>4, <1>7

LEMMA InvAnswers ==
  ASSUME GrpMax <= VmMax, ShowInv
  PROVE  AnswersTrue
  <1>1. SUFFICES ASSUME NEW p \in Readers, reader[p].pc = "copy"
                 PROVE  LET r == reader[p] IN
                   /\ r.cmd = "show" /\ r.mixed = "none" /\ k_service.ip_num <= VmMax =>
                        \A g \in Groups :
                          mulit_hash_key[g] \notin r.lost =>
                            /\ Times(g, Printed) <= 1
                            /\ g \in r.there => Times(g, Printed) = 1
                            /\ g \notin r.seen => Times(g, Printed) = 0
                   /\ r.cmd = "show" /\ r.mixed = "shows" /\ k_service.ip_num > 0 =>
                        ToSet(Printed) = r.there /\ Len(Printed) = Cardinality(r.there)
                   /\ r.cmd = "list" /\ r.mixed = "none" =>
                        /\ ToSet(Printed) = r.want /\ Len(Printed) = Cardinality(r.want)
                        /\ k_service.ret = "ok" => k_service.multi_ip = r.g
    BY DEF AnswersTrue, ReaderAt
  <1> DEFINE r == reader[p]
  <1>2. p \in Active /\ Good(r, k_service) /\ r \in ReaderTypes /\ r.pc = "copy"
    BY <1>1 DEF ShowInv, ShowTypes, Active, ReaderAt
  <1>3. r.k \in Nat /\ VmMax \in Nat /\ GrpMax \in Nat /\ k_service.ip_num \in Nat
    BY <1>2, Sizes DEF ReaderTypes, ShowInv, ShowTypes, ReplyTypes
  <1>4. ASSUME r.cmd = "show", r.mixed = "none", k_service.ip_num <= VmMax,
               NEW g \in Groups, mulit_hash_key[g] \notin r.lost
        PROVE  /\ Times(g, Printed) <= 1
               /\ g \in r.there => Times(g, Printed) = 1
               /\ g \notin r.seen => Times(g, Printed) = 0
    <2>1. Walked(r, k_service)
      BY <1>2, <1>4 DEF Good
    <2>2. k_service.ip_num = r.k /\ r.k <= VmMax
      BY <1>2, <1>4, <2>1 DEF Walked
    <2>3. WalkedPast(r, k_service, g)
      BY <1>4, <2>1, <2>2 DEF Walked
    <2>4. /\ \A i, l \in Places(r, k_service, g) : i = l
          /\ Places(r, k_service, g) # {} => g \in r.seen
          /\ g \in r.there => Places(r, k_service, g) # {}
      BY <1>2, <2>3 DEF WalkedPast
    <2> HIDE DEF r
    <2>5. QED
      BY <1>3, <2>2, <2>4, PrintedPlaces
  <1>5. ASSUME r.cmd = "show", r.mixed = "shows", k_service.ip_num > 0
        PROVE  ToSet(Printed) = r.there /\ Len(Printed) = Cardinality(r.there)
    <2> DEFINE T == Cardinality(AllRows)
    <2>1. r.changes = 0
      BY <1>2, <1>5 DEF ShowInv, MixInv
    <2>2. Steady(r, k_service)
      BY <1>2, <1>5, <2>1 DEF Good
    <2>3. r.there = Listed /\ k_service.ip_num = T /\ Has(T, k_service)
      BY <1>3, <1>5, <2>2 DEF Steady
    <2>4. /\ \A x \in AllRows : Place(x) \in 0 .. T - 1
          /\ \A i \in 0 .. T - 1 : \E x \in AllRows : Place(x) = i
          /\ Listed = {GroupAt(x) : x \in AllRows}
          /\ Cardinality(Listed) = T /\ T <= GrpMax
      BY PlacesFilled DEF ShowInv
    <2>5. T \in Nat /\ T <= VmMax
      BY <1>3, <2>3, <2>4
    <2>6. \A x \in AllRows : k_service.ip_list[Place(x)] = GroupAt(x)
      BY <2>3, <2>4, <2>5 DEF Has
    <2> HIDE DEF T
    <2>7. {k_service.ip_list[i] : i \in 0 .. T - 1} = Listed
      BY <2>4, <2>6
    <2>8. QED
      BY <1>3, <2>3, <2>4, <2>5, <2>7, PrintedAll
  <1>6. ASSUME r.cmd = "list", r.mixed = "none"
        PROVE  /\ ToSet(Printed) = r.want /\ Len(Printed) = Cardinality(r.want)
               /\ k_service.ret = "ok" => k_service.multi_ip = r.g
    <2>1. Answered(r, k_service)
      BY <1>2, <1>6 DEF Good
    <2>2. QED
      BY <1>2, <1>3, <2>1, PrintedAll DEF Answered
  <1>7. QED
    BY <1>4, <1>5, <1>6

\* The reply of SHOW and LIST, which the readers share, tells its sender the truth as far as
\* AnswersTrue says: see there.  In the code the reply has room for as many groups as there
\* may be (MULTI_VM_MAX and MULTI_GRP_MAX are both 1024).
THEOREM ShowAnswersTrue ==
  ASSUME IndexesFit, GrpMax <= VmMax
  PROVE  ShowSpec => []AnswersTrue
  <1>1. ShowInv => AnswersTrue
    BY InvAnswers
  <1>2. QED
    BY <1>1, ShowInvariant, PTL
=============================================================================
