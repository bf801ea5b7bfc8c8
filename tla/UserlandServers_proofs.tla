----------------------- MODULE UserlandServers_proofs -----------------------
(***************************************************************************)
(* Proofs about the server proxies that forward packets in user space:     *)
(* the Linux one (module LinuxServerForward), for any number of workers,   *)
(* groups, members and reloads, and, from "The Windows proxy" on, the      *)
(* rings and the device list of the Windows one (module WinQueues), for    *)
(* any number of devices, processors and queues and any size of the rings. *)
(***************************************************************************)
EXTENDS LinuxServerForward, WinQueues, FoldLemmas

-----------------------------------------------------------------------------
(* Folds over sequences, step by step                                      *)

First(s, n) == SubSeq(s, 1, n)
Entries == [ip : Groups, port : Nat, members : Seq(VMs)]

\* The entries of group g.
EntriesTable(ch, s, g) ==
  /\ ch \in [0 .. Len(s) -> Seq(Entries)]
  /\ ch[0] = <<>> /\ EntriesIn(s, g) = ch[Len(s)]
  /\ \A i \in 1 .. Len(s) : ch[i] = (IF s[i].ip = g THEN Append(ch[i - 1], s[i]) ELSE ch[i - 1])

LEMMA EntriesChain ==
  ASSUME NEW s \in Seq(Entries), NEW g
  PROVE  \E ch : EntriesTable(ch, s, g)
  <1> DEFINE n == Len(s)
             A == Seq(Entries)
             f == [i \in 1 .. n |-> [a \in A |-> (IF s[i].ip = g THEN Append(a, s[i]) ELSE a)]]
             Chosen == CHOOSE it : it = [S \in SUBSET (DOMAIN s) |->
                         IF S = {} THEN <<>> ELSE (IF s[Max(S)].ip = g THEN Append(it[S \ {Max(S)}], s[Max(S)]) ELSE it[S \ {Max(S)}])]
  <1>1. n \in Nat /\ DOMAIN s = 1 .. n /\ \A i \in 1 .. n : s[i] \in Entries
    OBVIOUS
  <1>2. \A a \in A, x \in Entries : (IF x.ip = g THEN Append(a, x) ELSE a) \in A
    OBVIOUS
  <1>3. <<>> \in A
    OBVIOUS
  <1>4. f \in [1 .. n -> [A -> A]]
    BY <1>1, <1>2
  <1> HIDE DEF A, n
  <1>5. PICK it \in [SUBSET (1 .. n) -> A] :
          \A S \in SUBSET (1 .. n) : it[S] = IF S = {} THEN <<>> ELSE f[Max(S)][it[S \ {Max(S)}]]
    <2> DEFINE b == <<>>
    <2>1. b \in A /\ n \in Nat /\ f \in [1 .. n -> [A -> A]]
      BY <1>1, <1>3, <1>4
    <2> HIDE DEF f, b
    <2>2. \E it : Iteration(n, A, b, f, it)
      BY <2>1, Iterates
    <2>3. QED
      BY <2>2 DEF b, Iteration
  <1>6. it = [S \in SUBSET (1 .. n) |->
                IF S = {} THEN <<>> ELSE (IF s[Max(S)].ip = g THEN Append(it[S \ {Max(S)}], s[Max(S)]) ELSE it[S \ {Max(S)}])]
    <2> SUFFICES ASSUME NEW S \in SUBSET (1 .. n), S # {}
                 PROVE  it[S] = (IF s[Max(S)].ip = g THEN Append(it[S \ {Max(S)}], s[Max(S)]) ELSE it[S \ {Max(S)}])
      BY <1>5
    <2>1. Max(S) \in 1 .. n
      BY <1>1, MaxOf
    <2>2. it[S \ {Max(S)}] \in A
      OBVIOUS
    <2>3. it[S] = f[Max(S)][it[S \ {Max(S)}]]
      BY <1>5
    <2>4. QED
      BY <2>1, <2>2, <2>3
  <1>7. Chosen = [S \in SUBSET (1 .. n) |->
                    IF S = {} THEN <<>> ELSE (IF s[Max(S)].ip = g THEN Append(Chosen[S \ {Max(S)}], s[Max(S)]) ELSE Chosen[S \ {Max(S)}])]
    <2>1. \E jt : jt = [S \in SUBSET (DOMAIN s) |->
                          IF S = {} THEN <<>> ELSE (IF s[Max(S)].ip = g THEN Append(jt[S \ {Max(S)}], s[Max(S)]) ELSE jt[S \ {Max(S)}])]
      BY <1>1, <1>6
    <2>2. QED
      BY <1>1, <2>1
  <1>8. EntriesIn(s, g) = Chosen[1 .. n]
    BY <1>1 DEF EntriesIn, FoldLeft, MapThenFoldSet
  <1> HIDE DEF Chosen, f
  <1> DEFINE ch == [i \in 0 .. n |-> Chosen[1 .. i]]
  <1>9. ch[0] = <<>> /\ ch[n] = EntriesIn(s, g)
    <2>1. 1 .. 0 = {} /\ 1 .. 0 \in SUBSET (1 .. n)
      OBVIOUS
    <2>2. Chosen[1 .. 0] = <<>>
      BY <1>7, <2>1
    <2>3. QED
      BY <1>1, <1>8, <2>2
  <1>10. ASSUME NEW i \in 1 .. n PROVE ch[i] = (IF s[i].ip = g THEN Append(ch[i - 1], s[i]) ELSE ch[i - 1])
    <2>1. /\ 1 .. i \in SUBSET (1 .. n) /\ 1 .. i # {}
          /\ (1 .. i) \ {i} = 1 .. (i - 1)
      BY <1>1
    <2>2. Max(1 .. i) = i
      BY <1>1, MaxOfInterval
    <2>3. Chosen[1 .. i] = (IF s[i].ip = g THEN Append(Chosen[1 .. (i - 1)], s[i]) ELSE Chosen[1 .. (i - 1)])
      BY <1>7, <2>1, <2>2
    <2>4. i \in 0 .. n /\ i - 1 \in 0 .. n
      BY <1>1
    <2>5. QED
      BY <2>3, <2>4
  <1>11. ch \in [0 .. n -> A]
    <2> DEFINE P == {i \in 0 .. n : ch[i] \in A}
    <2>1. 0 \in P
      BY <1>1, <1>3, <1>9
    <2>2. ASSUME NEW i \in 1 .. n, i - 1 \in P PROVE i \in P
      <3>1. ch[i - 1] \in A /\ s[i] \in Entries /\ i \in 0 .. n
        BY <1>1, <2>2
      <3>2. (IF s[i].ip = g THEN Append(ch[i - 1], s[i]) ELSE ch[i - 1]) \in A
        <4> HIDE DEF ch
        <4>1. QED
          BY <1>2, <3>1
      <3>3. QED
        BY <1>10, <3>1, <3>2
    <2> HIDE DEF P
    <2>3. \A i \in 0 .. n : i \in P
      <3>1. \A i \in 1 .. n : i - 1 \in P => i \in P
        BY <2>2
      <3>2. QED
        BY <1>1, <2>1, <3>1, Induction
    <2>4. \A i \in 0 .. n : ch[i] \in A
      BY <2>3 DEF P
    <2>5. QED
      BY <2>4
  <1> HIDE DEF ch
  <1>12. EntriesTable(ch, s, g)
    BY <1>1, <1>9, <1>10, <1>11 DEF n, A, EntriesTable
  <1>13. QED
    BY <1>12

LEMMA EntriesSteps ==
  ASSUME NEW s \in Seq(Entries), NEW g
  PROVE  /\ EntriesIn(First(s, 0), g) = <<>> /\ First(s, Len(s)) = s
         /\ \A i \in 0 .. Len(s) : EntriesIn(First(s, i), g) \in Seq(Entries)
         /\ \A i \in 1 .. Len(s) :
              EntriesIn(First(s, i), g) = (IF s[i].ip = g THEN Append(EntriesIn(First(s, i - 1), g), s[i]) ELSE EntriesIn(First(s, i - 1), g))
  <1> DEFINE n == Len(s)
             F(k) == EntriesIn(First(s, k), g)
  <1>a. PICK ch : EntriesTable(ch, s, g)
    BY EntriesChain
  <1>1. /\ ch \in [0 .. n -> Seq(Entries)] /\ ch[0] = <<>> /\ EntriesIn(s, g) = ch[n]
        /\ \A i \in 1 .. n : ch[i] = (IF s[i].ip = g THEN Append(ch[i - 1], s[i]) ELSE ch[i - 1])
    BY <1>a DEF EntriesTable
  <1>2. n \in Nat /\ First(s, n) = s
    BY DEF First
  <1>3. ASSUME NEW k \in 0 .. n PROVE F(k) = ch[k]
    <2> DEFINE r == First(s, k)
    <2>1. r \in Seq(Entries) /\ Len(r) = k /\ \A i \in 1 .. k : r[i] = s[i]
      BY <1>2 DEF First
    <2> HIDE DEF r
    <2>2. PICK cr : EntriesTable(cr, r, g)
      <3>1. r \in Seq(Entries)
        BY <2>1
      <3>2. QED
        BY <3>1, EntriesChain
    <2>a. /\ cr[0] = <<>> /\ EntriesIn(r, g) = cr[k]
           /\ \A i \in 1 .. k : cr[i] = (IF r[i].ip = g THEN Append(cr[i - 1], r[i]) ELSE cr[i - 1])
      BY <2>1, <2>2 DEF EntriesTable
    <2> DEFINE P == {i \in 0 .. k : cr[i] = ch[i]}
    <2>3. 0 \in P
      BY <1>1, <1>2, <2>a
    <2>4. ASSUME NEW i \in 1 .. k, i - 1 \in P PROVE i \in P
      <3>1. i \in 1 .. n /\ i \in 0 .. k /\ cr[i - 1] = ch[i - 1] /\ r[i] = s[i]
        BY <1>2, <2>1, <2>4
      <3>2. QED
        BY <1>1, <2>a, <3>1
    <2> HIDE DEF P
    <2>5. \A i \in 0 .. k : i \in P
      <3>1. \A i \in 1 .. k : i - 1 \in P => i \in P
        BY <2>4
      <3>2. k \in Nat
        BY <1>2
      <3>3. QED
        BY <2>3, <3>1, <3>2, Induction
    <2>6. cr[k] = ch[k]
      BY <1>2, <2>5 DEF P
    <2>7. QED
      BY <2>a, <2>6 DEF r
  <1> HIDE DEF F
  <1>4. F(0) = <<>> /\ \A i \in 0 .. n : F(i) \in Seq(Entries)
    BY <1>1, <1>2, <1>3
  <1>5. \A i \in 1 .. n : F(i) = (IF s[i].ip = g THEN Append(F(i - 1), s[i]) ELSE F(i - 1))
    <2> SUFFICES ASSUME NEW i \in 1 .. n PROVE F(i) = (IF s[i].ip = g THEN Append(F(i - 1), s[i]) ELSE F(i - 1))
      OBVIOUS
    <2>1. i \in 0 .. n /\ i - 1 \in 0 .. n
      BY <1>2
    <2>2. F(i) = ch[i] /\ F(i - 1) = ch[i - 1]
      BY <1>3, <2>1
    <2>3. QED
      BY <1>1, <2>2
  <1>6. QED
    BY <1>2, <1>4, <1>5 DEF F

\* The members in ms that a list does not have yet, appended to it.
Added(old, ms) == FoldLeft(LAMBDA list, v : IF v \in ToSet(old) THEN list ELSE Append(list, v), old, ms)

\* Member by member.
AddedTable(ch, s, old) ==
  /\ ch \in [0 .. Len(s) -> Seq(VMs)]
  /\ ch[0] = old /\ Added(old, s) = ch[Len(s)]
  /\ \A i \in 1 .. Len(s) : ch[i] = (IF s[i] \in ToSet(old) THEN ch[i - 1] ELSE Append(ch[i - 1], s[i]))

LEMMA AddedChain ==
  ASSUME NEW old \in Seq(VMs), NEW s \in Seq(VMs)
  PROVE  \E ch : AddedTable(ch, s, old)
  <1> DEFINE n == Len(s)
             A == Seq(VMs)
             f == [i \in 1 .. n |-> [a \in A |-> (IF s[i] \in ToSet(old) THEN a ELSE Append(a, s[i]))]]
             Chosen == CHOOSE it : it = [S \in SUBSET (DOMAIN s) |->
                         IF S = {} THEN old ELSE (IF s[Max(S)] \in ToSet(old) THEN it[S \ {Max(S)}] ELSE Append(it[S \ {Max(S)}], s[Max(S)]))]
  <1>1. n \in Nat /\ DOMAIN s = 1 .. n /\ \A i \in 1 .. n : s[i] \in VMs
    OBVIOUS
  <1>2. \A a \in A, x \in VMs : (IF x \in ToSet(old) THEN a ELSE Append(a, x)) \in A
    OBVIOUS
  <1>3. old \in A
    OBVIOUS
  <1>4. f \in [1 .. n -> [A -> A]]
    BY <1>1, <1>2
  <1> HIDE DEF A, n
  <1>5. PICK it \in [SUBSET (1 .. n) -> A] :
          \A S \in SUBSET (1 .. n) : it[S] = IF S = {} THEN old ELSE f[Max(S)][it[S \ {Max(S)}]]
    <2> DEFINE b == old
    <2>1. b \in A /\ n \in Nat /\ f \in [1 .. n -> [A -> A]]
      BY <1>1, <1>3, <1>4
    <2> HIDE DEF f, b
    <2>2. \E it : Iteration(n, A, b, f, it)
      BY <2>1, Iterates
    <2>3. QED
      BY <2>2 DEF b, Iteration
  <1>6. it = [S \in SUBSET (1 .. n) |->
                IF S = {} THEN old ELSE (IF s[Max(S)] \in ToSet(old) THEN it[S \ {Max(S)}] ELSE Append(it[S \ {Max(S)}], s[Max(S)]))]
    <2> SUFFICES ASSUME NEW S \in SUBSET (1 .. n), S # {}
                 PROVE  it[S] = (IF s[Max(S)] \in ToSet(old) THEN it[S \ {Max(S)}] ELSE Append(it[S \ {Max(S)}], s[Max(S)]))
      BY <1>5
    <2>1. Max(S) \in 1 .. n
      BY <1>1, MaxOf
    <2>2. it[S \ {Max(S)}] \in A
      OBVIOUS
    <2>3. it[S] = f[Max(S)][it[S \ {Max(S)}]]
      BY <1>5
    <2>4. QED
      BY <2>1, <2>2, <2>3
  <1>7. Chosen = [S \in SUBSET (1 .. n) |->
                    IF S = {} THEN old ELSE (IF s[Max(S)] \in ToSet(old) THEN Chosen[S \ {Max(S)}] ELSE Append(Chosen[S \ {Max(S)}], s[Max(S)]))]
    <2>1. \E jt : jt = [S \in SUBSET (DOMAIN s) |->
                          IF S = {} THEN old ELSE (IF s[Max(S)] \in ToSet(old) THEN jt[S \ {Max(S)}] ELSE Append(jt[S \ {Max(S)}], s[Max(S)]))]
      BY <1>1, <1>6
    <2>2. QED
      BY <1>1, <2>1
  <1>8. Added(old, s) = Chosen[1 .. n]
    BY <1>1 DEF Added, FoldLeft, MapThenFoldSet
  <1> HIDE DEF Chosen, f
  <1> DEFINE ch == [i \in 0 .. n |-> Chosen[1 .. i]]
  <1>9. ch[0] = old /\ ch[n] = Added(old, s)
    <2>1. 1 .. 0 = {} /\ 1 .. 0 \in SUBSET (1 .. n)
      OBVIOUS
    <2>2. Chosen[1 .. 0] = old
      BY <1>7, <2>1
    <2>3. QED
      BY <1>1, <1>8, <2>2
  <1>10. ASSUME NEW i \in 1 .. n PROVE ch[i] = (IF s[i] \in ToSet(old) THEN ch[i - 1] ELSE Append(ch[i - 1], s[i]))
    <2>1. /\ 1 .. i \in SUBSET (1 .. n) /\ 1 .. i # {}
          /\ (1 .. i) \ {i} = 1 .. (i - 1)
      BY <1>1
    <2>2. Max(1 .. i) = i
      BY <1>1, MaxOfInterval
    <2>3. Chosen[1 .. i] = (IF s[i] \in ToSet(old) THEN Chosen[1 .. (i - 1)] ELSE Append(Chosen[1 .. (i - 1)], s[i]))
      BY <1>7, <2>1, <2>2
    <2>4. i \in 0 .. n /\ i - 1 \in 0 .. n
      BY <1>1
    <2>5. QED
      BY <2>3, <2>4
  <1>11. ch \in [0 .. n -> A]
    <2> DEFINE P == {i \in 0 .. n : ch[i] \in A}
    <2>1. 0 \in P
      BY <1>1, <1>3, <1>9
    <2>2. ASSUME NEW i \in 1 .. n, i - 1 \in P PROVE i \in P
      <3>1. ch[i - 1] \in A /\ s[i] \in VMs /\ i \in 0 .. n
        BY <1>1, <2>2
      <3>2. (IF s[i] \in ToSet(old) THEN ch[i - 1] ELSE Append(ch[i - 1], s[i])) \in A
        <4> HIDE DEF ch
        <4>1. QED
          BY <1>2, <3>1
      <3>3. QED
        BY <1>10, <3>1, <3>2
    <2> HIDE DEF P
    <2>3. \A i \in 0 .. n : i \in P
      <3>1. \A i \in 1 .. n : i - 1 \in P => i \in P
        BY <2>2
      <3>2. QED
        BY <1>1, <2>1, <3>1, Induction
    <2>4. \A i \in 0 .. n : ch[i] \in A
      BY <2>3 DEF P
    <2>5. QED
      BY <2>4
  <1> HIDE DEF ch
  <1>12. AddedTable(ch, s, old)
    BY <1>1, <1>9, <1>10, <1>11 DEF n, A, AddedTable
  <1>13. QED
    BY <1>12

LEMMA AddedSteps ==
  ASSUME NEW old \in Seq(VMs), NEW s \in Seq(VMs)
  PROVE  /\ Added(old, First(s, 0)) = old /\ First(s, Len(s)) = s
         /\ \A i \in 0 .. Len(s) : Added(old, First(s, i)) \in Seq(VMs)
         /\ \A i \in 1 .. Len(s) :
              Added(old, First(s, i)) = (IF s[i] \in ToSet(old) THEN Added(old, First(s, i - 1)) ELSE Append(Added(old, First(s, i - 1)), s[i]))
  <1> DEFINE n == Len(s)
             F(k) == Added(old, First(s, k))
  <1>a. PICK ch : AddedTable(ch, s, old)
    BY AddedChain
  <1>1. /\ ch \in [0 .. n -> Seq(VMs)] /\ ch[0] = old /\ Added(old, s) = ch[n]
        /\ \A i \in 1 .. n : ch[i] = (IF s[i] \in ToSet(old) THEN ch[i - 1] ELSE Append(ch[i - 1], s[i]))
    BY <1>a DEF AddedTable
  <1>2. n \in Nat /\ First(s, n) = s
    BY DEF First
  <1>3. ASSUME NEW k \in 0 .. n PROVE F(k) = ch[k]
    <2> DEFINE r == First(s, k)
    <2>1. r \in Seq(VMs) /\ Len(r) = k /\ \A i \in 1 .. k : r[i] = s[i]
      BY <1>2 DEF First
    <2> HIDE DEF r
    <2>2. PICK cr : AddedTable(cr, r, old)
      <3>1. r \in Seq(VMs)
        BY <2>1
      <3>2. QED
        BY <3>1, AddedChain
    <2>a. /\ cr[0] = old /\ Added(old, r) = cr[k]
           /\ \A i \in 1 .. k : cr[i] = (IF r[i] \in ToSet(old) THEN cr[i - 1] ELSE Append(cr[i - 1], r[i]))
      BY <2>1, <2>2 DEF AddedTable
    <2> DEFINE P == {i \in 0 .. k : cr[i] = ch[i]}
    <2>3. 0 \in P
      BY <1>1, <1>2, <2>a
    <2>4. ASSUME NEW i \in 1 .. k, i - 1 \in P PROVE i \in P
      <3>1. i \in 1 .. n /\ i \in 0 .. k /\ cr[i - 1] = ch[i - 1] /\ r[i] = s[i]
        BY <1>2, <2>1, <2>4
      <3>2. QED
        BY <1>1, <2>a, <3>1
    <2> HIDE DEF P
    <2>5. \A i \in 0 .. k : i \in P
      <3>1. \A i \in 1 .. k : i - 1 \in P => i \in P
        BY <2>4
      <3>2. k \in Nat
        BY <1>2
      <3>3. QED
        BY <2>3, <3>1, <3>2, Induction
    <2>6. cr[k] = ch[k]
      BY <1>2, <2>5 DEF P
    <2>7. QED
      BY <2>a, <2>6 DEF r
  <1> HIDE DEF F
  <1>4. F(0) = old /\ \A i \in 0 .. n : F(i) \in Seq(VMs)
    BY <1>1, <1>2, <1>3
  <1>5. \A i \in 1 .. n : F(i) = (IF s[i] \in ToSet(old) THEN F(i - 1) ELSE Append(F(i - 1), s[i]))
    <2> SUFFICES ASSUME NEW i \in 1 .. n PROVE F(i) = (IF s[i] \in ToSet(old) THEN F(i - 1) ELSE Append(F(i - 1), s[i]))
      OBVIOUS
    <2>1. i \in 0 .. n /\ i - 1 \in 0 .. n
      BY <1>2
    <2>2. F(i) = ch[i] /\ F(i - 1) = ch[i - 1]
      BY <1>3, <2>1
    <2>3. QED
      BY <1>1, <2>2
  <1>6. QED
    BY <1>2, <1>4, <1>5 DEF F

Prefix(s, t) == Len(s) <= Len(t) /\ \A j \in 1 .. Len(s) : s[j] = t[j]

\* What add_vm_ip_list can hold.
Lists == {l \in Seq(VMs) : Len(l) <= VmMax}

\* Adding members keeps those that were there, and adds no more than are given.
LEMMA AddedPrefix ==
  ASSUME NEW old \in Seq(VMs), NEW s \in Seq(VMs)
  PROVE  /\ Added(old, s) \in Seq(VMs) /\ Len(Added(old, s)) <= Len(old) + Len(s)
         /\ Prefix(old, Added(old, s))
  <1> DEFINE a(i) == Added(old, First(s, i))
             Good(i) == /\ a(i) \in Seq(VMs) /\ Len(a(i)) <= Len(old) + i
                        /\ Prefix(old, a(i))
             P == {i \in 0 .. Len(s) : Good(i)}
  <1>1. /\ a(0) = old /\ First(s, Len(s)) = s
        /\ \A i \in 0 .. Len(s) : a(i) \in Seq(VMs)
        /\ \A i \in 1 .. Len(s) : a(i) = IF s[i] \in ToSet(old) THEN a(i - 1) ELSE Append(a(i - 1), s[i])
    BY AddedSteps
  <1>2. Len(s) \in Nat /\ Len(old) \in Nat
    OBVIOUS
  <1> HIDE DEF a
  <1>3. 0 \in P
    BY <1>1, <1>2 DEF Prefix
  <1>4. ASSUME NEW i \in 1 .. Len(s), i - 1 \in P PROVE i \in P
    <2>1. /\ i \in 0 .. Len(s) /\ s[i] \in VMs /\ Good(i - 1)
          /\ a(i) = IF s[i] \in ToSet(old) THEN a(i - 1) ELSE Append(a(i - 1), s[i])
      BY <1>1, <1>2, <1>4
    <2>2. CASE s[i] \in ToSet(old)
      BY <1>2, <2>1, <2>2
    <2>3. CASE s[i] \notin ToSet(old)
      <3>1. a(i) = Append(a(i - 1), s[i])
        BY <2>1, <2>3
      <3>2. /\ Len(a(i)) = Len(a(i - 1)) + 1 /\ a(i) \in Seq(VMs)
            /\ \A j \in 1 .. Len(a(i - 1)) : a(i)[j] = a(i - 1)[j]
        BY <2>1, <3>1
      <3>3. Len(a(i - 1)) \in Nat /\ Len(a(i)) <= Len(old) + i
        BY <1>2, <2>1, <3>2
      <3>4. Prefix(old, a(i))
        <4>1. /\ Len(old) <= Len(a(i - 1))
              /\ \A j \in 1 .. Len(old) : old[j] = a(i - 1)[j]
          BY <2>1 DEF Prefix
        <4>2. Len(old) <= Len(a(i))
          BY <1>2, <3>2, <3>3, <4>1
        <4>3. \A j \in 1 .. Len(old) : old[j] = a(i)[j]
          BY <1>2, <3>2, <3>3, <4>1
        <4>4. QED
          BY <4>2, <4>3 DEF Prefix
      <3>5. QED
        BY <2>1, <3>2, <3>3, <3>4
    <2>4. QED
      BY <2>2, <2>3
  <1> HIDE DEF P
  <1>5. \A i \in 0 .. Len(s) : i \in P
    <2>1. \A i \in 1 .. Len(s) : i - 1 \in P => i \in P
      BY <1>4
    <2>2. QED
      BY <1>2, <1>3, <2>1, Induction
  <1>6. Len(s) \in P
    BY <1>2, <1>5
  <1>7. QED
    BY <1>1, <1>6 DEF P, a

LEMMA JoinedPrefix ==
  ASSUME NEW old \in Lists, NEW e \in Entries
  PROVE  Joined(old, e) \in Lists /\ Prefix(old, Joined(old, e))
  <1>1. CASE Len(old) + Len(e.members) > VmMax
    <2>1. Joined(old, e) = old
      BY <1>1 DEF Joined
    <2>2. Len(old) \in Nat
      BY DEF Lists
    <2>3. QED
      BY <2>1, <2>2 DEF Prefix
  <1>2. CASE ~(Len(old) + Len(e.members) > VmMax)
    <2>1. Joined(old, e) = Added(old, e.members)
      BY <1>2 DEF Joined, Added
    <2>2. old \in Seq(VMs) /\ e.members \in Seq(VMs)
      BY DEF Lists, Entries
    <2>3. /\ Added(old, e.members) \in Seq(VMs) /\ Prefix(old, Added(old, e.members))
          /\ Len(Added(old, e.members)) <= Len(old) + Len(e.members)
      BY <2>2, AddedPrefix
    <2>4. Len(Added(old, e.members)) <= VmMax
      BY <1>2, <2>2, <2>3, ForwardAssumption DEF ForwardAssumption
    <2>5. QED
      BY <2>1, <2>3, <2>4 DEF Lists
  <1>3. QED
    BY <1>1, <1>2

\* The members of a group, from all its entries.
Whole(es) == FoldLeft(Joined, <<>>, es)

\* Entry by entry.
WholeTable(ch, s) ==
  /\ ch \in [0 .. Len(s) -> Lists]
  /\ ch[0] = <<>> /\ Whole(s) = ch[Len(s)]
  /\ \A i \in 1 .. Len(s) : ch[i] = Joined(ch[i - 1], s[i])

LEMMA WholeChain ==
  ASSUME NEW s \in Seq(Entries)
  PROVE  \E ch : WholeTable(ch, s)
  <1> DEFINE n == Len(s)
             A == Lists
             f == [i \in 1 .. n |-> [a \in A |-> Joined(a, s[i])]]
             Chosen == CHOOSE it : it = [S \in SUBSET (DOMAIN s) |->
                         IF S = {} THEN <<>> ELSE Joined(it[S \ {Max(S)}], s[Max(S)])]
  <1>1. n \in Nat /\ DOMAIN s = 1 .. n /\ \A i \in 1 .. n : s[i] \in Entries
    OBVIOUS
  <1>2. \A a \in A, x \in Entries : Joined(a, x) \in A
    BY JoinedPrefix
  <1>3. <<>> \in A
    BY ForwardAssumption DEF ForwardAssumption, Lists
  <1>4. f \in [1 .. n -> [A -> A]]
    BY <1>1, <1>2
  <1> HIDE DEF A, n
  <1>5. PICK it \in [SUBSET (1 .. n) -> A] :
          \A S \in SUBSET (1 .. n) : it[S] = IF S = {} THEN <<>> ELSE f[Max(S)][it[S \ {Max(S)}]]
    <2> DEFINE b == <<>>
    <2>1. b \in A /\ n \in Nat /\ f \in [1 .. n -> [A -> A]]
      BY <1>1, <1>3, <1>4
    <2> HIDE DEF f, b
    <2>2. \E it : Iteration(n, A, b, f, it)
      BY <2>1, Iterates
    <2>3. QED
      BY <2>2 DEF b, Iteration
  <1>6. it = [S \in SUBSET (1 .. n) |->
                IF S = {} THEN <<>> ELSE Joined(it[S \ {Max(S)}], s[Max(S)])]
    <2> SUFFICES ASSUME NEW S \in SUBSET (1 .. n), S # {}
                 PROVE  it[S] = Joined(it[S \ {Max(S)}], s[Max(S)])
      BY <1>5
    <2>1. Max(S) \in 1 .. n
      BY <1>1, MaxOf
    <2>2. it[S \ {Max(S)}] \in A
      OBVIOUS
    <2>3. it[S] = f[Max(S)][it[S \ {Max(S)}]]
      BY <1>5
    <2>4. QED
      BY <2>1, <2>2, <2>3
  <1>7. Chosen = [S \in SUBSET (1 .. n) |->
                    IF S = {} THEN <<>> ELSE Joined(Chosen[S \ {Max(S)}], s[Max(S)])]
    <2>1. \E jt : jt = [S \in SUBSET (DOMAIN s) |->
                          IF S = {} THEN <<>> ELSE Joined(jt[S \ {Max(S)}], s[Max(S)])]
      BY <1>1, <1>6
    <2>2. QED
      BY <1>1, <2>1
  <1>8. Whole(s) = Chosen[1 .. n]
    BY <1>1 DEF Whole, FoldLeft, MapThenFoldSet
  <1> HIDE DEF Chosen, f
  <1> DEFINE ch == [i \in 0 .. n |-> Chosen[1 .. i]]
  <1>9. ch[0] = <<>> /\ ch[n] = Whole(s)
    <2>1. 1 .. 0 = {} /\ 1 .. 0 \in SUBSET (1 .. n)
      OBVIOUS
    <2>2. Chosen[1 .. 0] = <<>>
      BY <1>7, <2>1
    <2>3. QED
      BY <1>1, <1>8, <2>2
  <1>10. ASSUME NEW i \in 1 .. n PROVE ch[i] = Joined(ch[i - 1], s[i])
    <2>1. /\ 1 .. i \in SUBSET (1 .. n) /\ 1 .. i # {}
          /\ (1 .. i) \ {i} = 1 .. (i - 1)
      BY <1>1
    <2>2. Max(1 .. i) = i
      BY <1>1, MaxOfInterval
    <2>3. Chosen[1 .. i] = Joined(Chosen[1 .. (i - 1)], s[i])
      BY <1>7, <2>1, <2>2
    <2>4. i \in 0 .. n /\ i - 1 \in 0 .. n
      BY <1>1
    <2>5. QED
      BY <2>3, <2>4
  <1>11. ch \in [0 .. n -> A]
    <2> DEFINE P == {i \in 0 .. n : ch[i] \in A}
    <2>1. 0 \in P
      BY <1>1, <1>3, <1>9
    <2>2. ASSUME NEW i \in 1 .. n, i - 1 \in P PROVE i \in P
      <3>1. ch[i - 1] \in A /\ s[i] \in Entries /\ i \in 0 .. n
        BY <1>1, <2>2
      <3>2. Joined(ch[i - 1], s[i]) \in A
        <4> HIDE DEF ch
        <4>1. QED
          BY <1>2, <3>1
      <3>3. QED
        BY <1>10, <3>1, <3>2
    <2> HIDE DEF P
    <2>3. \A i \in 0 .. n : i \in P
      <3>1. \A i \in 1 .. n : i - 1 \in P => i \in P
        BY <2>2
      <3>2. QED
        BY <1>1, <2>1, <3>1, Induction
    <2>4. \A i \in 0 .. n : ch[i] \in A
      BY <2>3 DEF P
    <2>5. QED
      BY <2>4
  <1> HIDE DEF ch
  <1>12. WholeTable(ch, s)
    BY <1>1, <1>9, <1>10, <1>11 DEF n, A, WholeTable
  <1>13. QED
    BY <1>12

LEMMA WholeSteps ==
  ASSUME NEW s \in Seq(Entries)
  PROVE  /\ Whole(First(s, 0)) = <<>> /\ First(s, Len(s)) = s
         /\ \A i \in 0 .. Len(s) : Whole(First(s, i)) \in Lists
         /\ \A i \in 1 .. Len(s) :
              Whole(First(s, i)) = Joined(Whole(First(s, i - 1)), s[i])
  <1> DEFINE n == Len(s)
             F(k) == Whole(First(s, k))
  <1>a. PICK ch : WholeTable(ch, s)
    BY WholeChain
  <1>1. /\ ch \in [0 .. n -> Lists] /\ ch[0] = <<>> /\ Whole(s) = ch[n]
        /\ \A i \in 1 .. n : ch[i] = Joined(ch[i - 1], s[i])
    BY <1>a DEF WholeTable
  <1>2. n \in Nat /\ First(s, n) = s
    BY DEF First
  <1>3. ASSUME NEW k \in 0 .. n PROVE F(k) = ch[k]
    <2> DEFINE r == First(s, k)
    <2>1. r \in Seq(Entries) /\ Len(r) = k /\ \A i \in 1 .. k : r[i] = s[i]
      BY <1>2 DEF First
    <2> HIDE DEF r
    <2>2. PICK cr : WholeTable(cr, r)
      <3>1. r \in Seq(Entries)
        BY <2>1
      <3>2. QED
        BY <3>1, WholeChain
    <2>a. /\ cr[0] = <<>> /\ Whole(r) = cr[k]
           /\ \A i \in 1 .. k : cr[i] = Joined(cr[i - 1], r[i])
      BY <2>1, <2>2 DEF WholeTable
    <2> DEFINE P == {i \in 0 .. k : cr[i] = ch[i]}
    <2>3. 0 \in P
      BY <1>1, <1>2, <2>a
    <2>4. ASSUME NEW i \in 1 .. k, i - 1 \in P PROVE i \in P
      <3>1. i \in 1 .. n /\ i \in 0 .. k /\ cr[i - 1] = ch[i - 1] /\ r[i] = s[i]
        BY <1>2, <2>1, <2>4
      <3>2. QED
        BY <1>1, <2>a, <3>1
    <2> HIDE DEF P
    <2>5. \A i \in 0 .. k : i \in P
      <3>1. \A i \in 1 .. k : i - 1 \in P => i \in P
        BY <2>4
      <3>2. k \in Nat
        BY <1>2
      <3>3. QED
        BY <2>3, <3>1, <3>2, Induction
    <2>6. cr[k] = ch[k]
      BY <1>2, <2>5 DEF P
    <2>7. QED
      BY <2>a, <2>6 DEF r
  <1> HIDE DEF F
  <1>4. F(0) = <<>> /\ \A i \in 0 .. n : F(i) \in Lists
    BY <1>1, <1>2, <1>3
  <1>5. \A i \in 1 .. n : F(i) = Joined(F(i - 1), s[i])
    <2> SUFFICES ASSUME NEW i \in 1 .. n PROVE F(i) = Joined(F(i - 1), s[i])
      OBVIOUS
    <2>1. i \in 0 .. n /\ i - 1 \in 0 .. n
      BY <1>2
    <2>2. F(i) = ch[i] /\ F(i - 1) = ch[i - 1]
      BY <1>3, <2>1
    <2>3. QED
      BY <1>1, <2>2
  <1>6. QED
    BY <1>2, <1>4, <1>5 DEF F

\* The entries of group g among the first n of configuration c, and the members that they make.
EntriesOf(c, g, n) == EntriesIn(First(c, n), g)
ListOf(c, g, n) == Whole(EntriesOf(c, g, n))

LEMMA ChainPrefix ==
  ASSUME NEW n \in Nat, NEW X, NEW ch \in [0 .. n -> Seq(X)],
         \A i \in 1 .. n : Prefix(ch[i - 1], ch[i])
  PROVE  \A i, j \in 0 .. n : i <= j => Prefix(ch[i], ch[j])
  <1> SUFFICES ASSUME NEW i \in 0 .. n PROVE \A j \in 0 .. n : i <= j => Prefix(ch[i], ch[j])
    OBVIOUS
  <1> DEFINE P == {j \in 0 .. n : i <= j => Prefix(ch[i], ch[j])}
  <1>1. Prefix(ch[i], ch[i])
    <2>1. Len(ch[i]) \in Nat
      OBVIOUS
    <2>2. QED
      BY <2>1 DEF Prefix
  <1>2. 0 \in P
    <2>1. i <= 0 => i = 0
      OBVIOUS
    <2>2. QED
      BY <1>1, <2>1
  <1>3. ASSUME NEW j \in 1 .. n, j - 1 \in P PROVE j \in P
    <2> SUFFICES ASSUME i <= j PROVE Prefix(ch[i], ch[j])
      OBVIOUS
    <2>1. CASE i = j
      BY <1>1, <2>1
    <2>2. CASE i # j
      <3>1. i <= j - 1 /\ j - 1 \in 0 .. n
        BY <2>2
      <3>2. Prefix(ch[i], ch[j - 1]) /\ Prefix(ch[j - 1], ch[j])
        BY <1>3, <3>1
      <3>3. Len(ch[i]) \in Nat /\ Len(ch[j - 1]) \in Nat /\ Len(ch[j]) \in Nat
        BY <3>1
      <3>4. QED
        BY <3>2, <3>3 DEF Prefix
    <2>3. QED
      BY <2>1, <2>2
  <1> HIDE DEF P
  <1>4. \A j \in 0 .. n : j \in P
    <2>1. \A j \in 1 .. n : j - 1 \in P => j \in P
      BY <1>3
    <2>2. QED
      BY <1>2, <2>1, Induction
  <1>5. QED
    BY <1>4 DEF P

LEMMA EntriesOfSteps ==
  ASSUME NEW c \in Seq(Entries), NEW g
  PROVE  /\ EntriesOf(c, g, 0) = <<>> /\ EntriesOf(c, g, Len(c)) = EntriesIn(c, g)
         /\ \A i \in 0 .. Len(c) : EntriesOf(c, g, i) \in Seq(Entries)
         /\ \A i \in 1 .. Len(c) :
              EntriesOf(c, g, i) = IF c[i].ip = g THEN Append(EntriesOf(c, g, i - 1), c[i])
                                                  ELSE EntriesOf(c, g, i - 1)
  <1>1. /\ EntriesOf(c, g, 0) = <<>> /\ First(c, Len(c)) = c
        /\ \A i \in 0 .. Len(c) : EntriesOf(c, g, i) \in Seq(Entries)
    BY EntriesSteps DEF EntriesOf
  <1>2. \A i \in 1 .. Len(c) :
          EntriesOf(c, g, i) = IF c[i].ip = g THEN Append(EntriesOf(c, g, i - 1), c[i])
                                              ELSE EntriesOf(c, g, i - 1)
    BY EntriesSteps DEF EntriesOf
  <1>3. EntriesOf(c, g, Len(c)) = EntriesIn(c, g)
    BY <1>1 DEF EntriesOf
  <1>4. QED
    BY <1>1, <1>2, <1>3

\* The entries before the n-th are the first of all the group's entries.
LEMMA EntriesOfPrefix ==
  ASSUME NEW c \in Seq(Entries), NEW g
  PROVE  \A i, j \in 0 .. Len(c) : i <= j => Prefix(EntriesOf(c, g, i), EntriesOf(c, g, j))
  <1> DEFINE n == Len(c)
             ch == [i \in 0 .. n |-> EntriesOf(c, g, i)]
  <1>1. n \in Nat
    OBVIOUS
  <1>2. ch \in [0 .. n -> Seq(Entries)]
    BY EntriesOfSteps
  <1>3. ASSUME NEW i \in 1 .. n PROVE Prefix(ch[i - 1], ch[i])
    <2>1. i \in 0 .. n /\ i - 1 \in 0 .. n /\ c[i] \in Entries
      BY <1>1
    <2>2. ch[i] = (IF c[i].ip = g THEN Append(ch[i - 1], c[i]) ELSE ch[i - 1])
      BY <2>1, EntriesOfSteps
    <2>3. ch[i - 1] \in Seq(Entries)
      BY <1>2, <2>1
    <2> HIDE DEF ch
    <2>4. CASE c[i].ip = g
      BY <2>1, <2>2, <2>3, <2>4 DEF Prefix
    <2>5. CASE c[i].ip # g
      <3>1. Len(ch[i - 1]) \in Nat /\ ch[i] = ch[i - 1]
        BY <2>2, <2>3, <2>5
      <3>2. QED
        BY <3>1 DEF Prefix
    <2>6. QED
      BY <2>4, <2>5
  <1> HIDE DEF ch, n
  <1>4. \A i, j \in 0 .. n : i <= j => Prefix(ch[i], ch[j])
    BY <1>1, <1>2, <1>3, ChainPrefix
  <1>5. QED
    BY <1>4 DEF ch, n

LEMMA EntriesOfFirst ==
  ASSUME NEW c \in Seq(Entries), NEW g, NEW d \in 0 .. Len(c)
  PROVE  /\ Len(EntriesOf(c, g, d)) \in 0 .. Len(EntriesIn(c, g))
         /\ EntriesOf(c, g, d) = First(EntriesIn(c, g), Len(EntriesOf(c, g, d)))
  <1> DEFINE es == EntriesIn(c, g)
             sub == EntriesOf(c, g, d)
  <1>1. es \in Seq(Entries) /\ sub \in Seq(Entries)
    <2>1. Len(c) \in 0 .. Len(c)
      OBVIOUS
    <2>2. QED
      BY <2>1, EntriesOfSteps
  <1>2. Prefix(sub, es)
    <2>1. d <= Len(c) /\ Len(c) \in 0 .. Len(c) /\ es = EntriesOf(c, g, Len(c))
      BY EntriesOfSteps
    <2>2. QED
      BY <2>1, EntriesOfPrefix
  <1> HIDE DEF es, sub
  <1>3. Len(sub) \in Nat /\ Len(es) \in Nat /\ Len(sub) <= Len(es)
    BY <1>1, <1>2 DEF Prefix
  <1>4. /\ First(es, Len(sub)) \in Seq(Entries) /\ Len(First(es, Len(sub))) = Len(sub)
        /\ \A j \in 1 .. Len(sub) : First(es, Len(sub))[j] = es[j]
    BY <1>1, <1>3 DEF First
  <1>5. sub = First(es, Len(sub))
    BY <1>1, <1>2, <1>4 DEF Prefix
  <1>6. QED
    BY <1>3, <1>5 DEF es, sub

LEMMA ListOfSteps ==
  ASSUME NEW c \in Seq(Entries), NEW g
  PROVE  /\ ListOf(c, g, 0) = <<>>
         /\ \A i \in 0 .. Len(c) : ListOf(c, g, i) \in Lists
         /\ \A i \in 1 .. Len(c) :
              ListOf(c, g, i) = IF c[i].ip = g THEN Joined(ListOf(c, g, i - 1), c[i])
                                               ELSE ListOf(c, g, i - 1)
  <1>1. ASSUME NEW es \in Seq(Entries) PROVE Whole(es) \in Lists
    <2>1. Len(es) \in 0 .. Len(es)
      OBVIOUS
    <2>2. QED
      BY <2>1, WholeSteps
  <1>2. ASSUME NEW es \in Seq(Entries), NEW e \in Entries
        PROVE  Whole(Append(es, e)) = Joined(Whole(es), e)
    <2> DEFINE s == Append(es, e)
    <2>1. /\ s \in Seq(Entries) /\ Len(s) = Len(es) + 1 /\ s[Len(s)] = e
          /\ Len(s) \in 1 .. Len(s) /\ Len(s) - 1 = Len(es) /\ Len(es) \in Nat
          /\ \A i \in 1 .. Len(es) : s[i] = es[i]
      OBVIOUS
    <2> HIDE DEF s
    <2>2. First(s, Len(es)) = es
      BY <2>1 DEF First
    <2>3. /\ First(s, Len(s)) = s
          /\ Whole(First(s, Len(s))) = Joined(Whole(First(s, Len(s) - 1)), s[Len(s)])
      <3>1. s \in Seq(Entries) /\ Len(s) \in 1 .. Len(s)
        BY <2>1
      <3>2. QED
        BY <3>1, WholeSteps
    <2>4. Whole(s) = Joined(Whole(es), e)
      BY <2>1, <2>2, <2>3
    <2>5. QED
      BY <2>4 DEF s
  <1>3. Whole(<<>>) = <<>>
    <2>1. <<>> \in Seq(Entries) /\ First(<<>>, 0) = <<>>
      BY DEF First
    <2>2. QED
      BY <2>1, WholeSteps
  <1>4. ASSUME NEW i \in 1 .. Len(c)
        PROVE  ListOf(c, g, i) = IF c[i].ip = g THEN Joined(ListOf(c, g, i - 1), c[i])
                                                ELSE ListOf(c, g, i - 1)
    <2>1. i - 1 \in 0 .. Len(c) /\ c[i] \in Entries
      OBVIOUS
    <2>2. EntriesOf(c, g, i - 1) \in Seq(Entries)
      BY <2>1, EntriesOfSteps
    <2>3. EntriesOf(c, g, i) = IF c[i].ip = g THEN Append(EntriesOf(c, g, i - 1), c[i])
                                               ELSE EntriesOf(c, g, i - 1)
      BY EntriesOfSteps
    <2>4. QED
      BY <1>2, <2>1, <2>2, <2>3 DEF ListOf
  <1>5. ListOf(c, g, 0) = <<>>
    BY <1>3, EntriesOfSteps DEF ListOf
  <1>6. \A i \in 0 .. Len(c) : ListOf(c, g, i) \in Lists
    BY <1>1, EntriesOfSteps DEF ListOf
  <1>7. QED
    BY <1>4, <1>5, <1>6

\* What the first entries make stays in front of what more of them make.
LEMMA ListOfPrefix ==
  ASSUME NEW c \in Seq(Entries), NEW g
  PROVE  \A i, j \in 0 .. Len(c) : i <= j => Prefix(ListOf(c, g, i), ListOf(c, g, j))
  <1> DEFINE n == Len(c)
             ch == [i \in 0 .. n |-> ListOf(c, g, i)]
  <1>1. n \in Nat
    OBVIOUS
  <1>2. ch \in [0 .. n -> Seq(VMs)]
    BY ListOfSteps DEF Lists
  <1>3. ASSUME NEW i \in 1 .. n PROVE Prefix(ch[i - 1], ch[i])
    <2>1. i \in 0 .. n /\ i - 1 \in 0 .. n /\ c[i] \in Entries
      BY <1>1
    <2>2. ch[i] = (IF c[i].ip = g THEN Joined(ch[i - 1], c[i]) ELSE ch[i - 1])
      BY <2>1, ListOfSteps
    <2>3. ch[i - 1] \in Lists
      BY <2>1, ListOfSteps
    <2> HIDE DEF ch
    <2>4. CASE c[i].ip = g
      BY <2>1, <2>2, <2>3, <2>4, JoinedPrefix
    <2>5. CASE c[i].ip # g
      <3>1. Len(ch[i - 1]) \in Nat /\ ch[i] = ch[i - 1]
        BY <2>2, <2>3, <2>5 DEF Lists
      <3>2. QED
        BY <3>1 DEF Prefix
    <2>6. QED
      BY <2>4, <2>5
  <1> HIDE DEF ch, n
  <1>4. \A i, j \in 0 .. n : i <= j => Prefix(ch[i], ch[j])
    BY <1>1, <1>2, <1>3, ChainPrefix
  <1>5. QED
    BY <1>4 DEF ch, n

\* Such a list is empty or made by some of the group's entries, without a gap.
LEMMA ListOfEntries ==
  ASSUME NEW c \in Seq(Entries), NEW g, NEW d \in 0 .. Len(c), ListOf(c, g, d) # <<>>
  PROVE  \E k \in 1 .. Len(EntriesIn(c, g)) : ListOf(c, g, d) = Whole(First(EntriesIn(c, g), k))
  <1> DEFINE k == Len(EntriesOf(c, g, d))
  <1>1. k \in 0 .. Len(EntriesIn(c, g)) /\ EntriesOf(c, g, d) = First(EntriesIn(c, g), k)
    BY EntriesOfFirst
  <1>2. k # 0
    <2> SUFFICES ASSUME k = 0 PROVE FALSE
      OBVIOUS
    <2>1. EntriesOf(c, g, d) = <<>> /\ EntriesOf(c, g, 0) = <<>>
      BY EntriesOfSteps
    <2>2. QED
      BY <2>1, ListOfSteps DEF ListOf
  <1> HIDE DEF k
  <1>3. Len(EntriesIn(c, g)) \in Nat
    <2>1. Len(c) \in 0 .. Len(c)
      OBVIOUS
    <2>2. EntriesIn(c, g) \in Seq(Entries)
      BY <2>1, EntriesOfSteps
    <2>3. QED
      BY <2>2
  <1>4. k \in 1 .. Len(EntriesIn(c, g))
    BY <1>1, <1>2, <1>3
  <1>5. QED
    BY <1>1, <1>4 DEF ListOf

-----------------------------------------------------------------------------
(* The table while it is cleared and filled                                *)

Buckets == 0 .. GroupBuckets - 1
Rows == 1 .. Depth
Indexes == 0 .. GrpMax - 1
RowTypes == [created : BOOLEAN, ip : Groups \cup {Zero}, idx : Indexes, cnt : 0 .. VmMax, port : Nat]
ReloadPcs == {"rest", "rows", "lists", "file", "node", "port", "limit", "list"}

ReloadTypes == [pc : ReloadPcs, bucket : Buckets, e : Nat, row : Rows, m : Nat, k : 0 .. VmMax]

TableTypes ==
  /\ multi_grp \in [Buckets -> [Rows -> RowTypes]]
  /\ multi_vm \in [Indexes -> [1 .. VmMax -> VMs \cup {Zero}]]
  /\ g_bitmap \in SUBSET Indexes
  /\ reload \in ReloadTypes
  /\ cfg \in Configs \cup {<<>>}
  /\ serving \in BOOLEAN

\* An entry of the configuration is being loaded; its row is in use; how many are loaded.
Filling == reload.pc \in {"node", "port", "limit", "list"}
HasRow == reload.pc \in {"port", "limit", "list"}
Loaded == IF Filling THEN reload.e - 1 ELSE Len(cfg)

\* Nothing has been cleared from the bucket since it was filled.
Intact(b) == Filling \/ ReloadAt("rest") \/ (ReloadAt("rows") /\ b >= reload.bucket)

Created(b, i) == multi_grp[b][i].created
Ip(b, i) == multi_grp[b][i].ip
Idx(b, i) == multi_grp[b][i].idx
Has(g, i) == Created(GroupHash[g], i) /\ Ip(GroupHash[g], i) = g

NoGaps == \A b \in Buckets, i, j \in Rows : i < j /\ Created(b, j) => Created(b, i)

RowsOwned ==
  \A b \in Buckets, i \in Rows : Created(b, i) =>
    /\ Intact(b)
    /\ Ip(b, i) \in Groups /\ GroupHash[Ip(b, i)] = b
    /\ Idx(b, i) \in g_bitmap

RowsDistinct ==
  \A b, c \in Buckets, i, j \in Rows :
    /\ Created(b, i) /\ Created(c, j)
    /\ Ip(b, i) = Ip(c, j) \/ Idx(b, i) = Idx(c, j)
    => b = c /\ i = j

BitmapFits ==
  /\ ReloadAt("file") => g_bitmap = {}
  /\ Filling => Cardinality(g_bitmap) <= IF HasRow THEN reload.e ELSE reload.e - 1

\* A group has a row if and only if an entry of it has been seen.
Known(g) == EntriesOf(cfg, g, Loaded) # <<>> \/ (HasRow /\ cfg[reload.e].ip = g)
RowsComplete ==
  \A g \in Groups : Intact(GroupHash[g]) => (Known(g) <=> \E i \in Rows : Has(g, i))

\* A row's members are those of the entries loaded, its port that of the group's first entry.
Holds(b, i) ==
  LET list == ListOf(cfg, Ip(b, i), Loaded) IN
  /\ multi_grp[b][i].cnt = Len(list)
  /\ \A j \in 1 .. Len(list) : multi_vm[Idx(b, i)][j] = list[j]
HasPort(b, i) ==
  \/ multi_grp[b][i].port = EntriesIn(cfg, Ip(b, i))[1].port
  \/ ReloadAt("port") /\ b = reload.bucket /\ i = reload.row
RowsRight == \A b \in Buckets, i \in Rows : Created(b, i) => Holds(b, i) /\ HasPort(b, i)

\* The members of the entry that is being loaded, up to the one that comes next.
Listing ==
  LET en == cfg[reload.e]
      old == ListOf(cfg, en.ip, reload.e - 1)
      part == Added(old, First(en.members, reload.m - 1))
  IN  /\ Len(en.members) + Len(old) <= VmMax
      /\ reload.m \in 1 .. Len(en.members) + 1
      /\ reload.k = Len(part)
      /\ \A j \in 1 .. Len(part) : multi_vm[Row.idx][j] = part[j]

Position ==
  /\ Filling => reload.e \in 1 .. Len(cfg)
  /\ HasRow => /\ reload.bucket = GroupHash[cfg[reload.e].ip]
               /\ Has(cfg[reload.e].ip, reload.row)
  /\ ReloadAt("port") => EntriesOf(cfg, cfg[reload.e].ip, reload.e - 1) = <<>>
  /\ ReloadAt("list") => Listing

TableInv ==
  /\ TableTypes
  /\ NoGaps /\ RowsOwned /\ RowsDistinct
  /\ BitmapFits
  /\ RowsComplete /\ RowsRight
  /\ Position

LEMMA Sizes == /\ GrpMax \in Nat /\ GrpMax > 0 /\ VmMax \in Nat
               /\ Depth \in Nat /\ Depth > GrpMax
               /\ GroupBuckets \in Nat /\ GroupBuckets > 0
               /\ \A g \in Groups : GroupHash[g] \in Buckets
  BY ForwardAssumption DEF ForwardAssumption, Depth, Buckets

LEMMA ConfigTypes ==
  ASSUME NEW c \in Configs \cup {<<>>}
  PROVE  /\ c \in Seq(Entries) /\ Len(c) \in Nat /\ Len(c) <= GrpMax
         /\ \A e \in 1 .. Len(c) : /\ c[e] \in Entries /\ c[e].ip \in Groups
                                   /\ c[e].members \in Seq(VMs) /\ c[e].port \in Nat
                                   /\ Len(c[e].members) <= VmMax
  <1>1. CASE c = <<>>
    BY <1>1, Sizes
  <1>2. CASE c \in Configs
    <2>1. c \in Seq(Entries)
      BY <1>2, ForwardAssumption DEF ForwardAssumption, Entries
    <2>2. Len(c) <= GrpMax /\ \A e \in 1 .. Len(c) : Len(c[e].members) <= VmMax
      <3>1. DOMAIN c = 1 .. Len(c)
        BY <2>1
      <3>2. QED
        BY <1>2, <3>1, ForwardAssumption DEF ForwardAssumption
    <2>3. \A e \in 1 .. Len(c) : c[e] \in Entries
      BY <2>1
    <2>4. QED
      BY <2>1, <2>2, <2>3 DEF Entries
  <1>3. QED
    BY <1>1, <1>2

LEMMA LoadedTypes ==
  ASSUME TableTypes, Position
  PROVE  Loaded \in 0 .. Len(cfg) /\ Len(cfg) \in Nat
  BY ConfigTypes DEF Position, Loaded, Filling, TableTypes

LEMMA RowOfType ==
  ASSUME TableTypes, NoGaps, NEW g \in Groups
  PROVE  /\ RowOf(g) \in 0 .. Depth
         /\ RowOf(g) # 0 => RowOf(g) \in Rows /\ Has(g, RowOf(g))
         /\ RowOf(g) = 0 => \A i \in Rows : ~Has(g, i)
  <1> DEFINE b == GroupHash[g]
             at == {i \in 1 .. Depth : (\A j \in 1 .. i : multi_grp[b][j].created) /\ multi_grp[b][i].ip = g}
  <1>1. RowOf(g) = IF at = {} THEN 0 ELSE Min(at)
    BY DEF RowOf
  <1>2. at \in SUBSET Nat /\ Depth \in Nat /\ b \in Buckets
    BY Sizes
  <1>3. at # {} => Min(at) \in at
    <2> HIDE DEF at
    <2>1. QED
      BY <1>2, MinOf
  <1>4. \A i \in at : i \in Rows /\ Has(g, i)
    <2>1. \A i \in at : i \in 1 .. i
      BY <1>2
    <2>2. QED
      BY <2>1 DEF Rows, Has, Created, Ip
  <1>5. ASSUME NEW i \in Rows, Has(g, i) PROVE i \in at
    <2>1. \A j \in 1 .. i : j \in Rows /\ (j = i \/ j < i)
      BY <1>2 DEF Rows
    <2>2. \A j \in 1 .. i : Created(b, j)
      BY <1>2, <1>5, <2>1 DEF NoGaps, Has
    <2>3. QED
      BY <1>5, <2>2 DEF Rows, Has, Created, Ip
  <1> HIDE DEF at
  <1>6. CASE at = {}
    BY <1>1, <1>2, <1>5, <1>6
  <1>7. CASE at # {}
    <2>1. RowOf(g) \in Rows /\ Has(g, RowOf(g))
      BY <1>1, <1>3, <1>4, <1>7
    <2>2. QED
      BY <1>2, <2>1 DEF Rows
  <1>8. QED
    BY <1>6, <1>7

\* The rows of a bucket have different indexes and outnumber these.
LEMMA FirstUnusedType ==
  ASSUME TableTypes, RowsDistinct, NEW b \in Buckets
  PROVE  /\ FirstUnused(b) \in Rows /\ ~Created(b, FirstUnused(b))
         /\ \A i \in Rows : i < FirstUnused(b) => Created(b, i)
  <1> DEFINE S == {i \in 1 .. Depth : ~multi_grp[b][i].created}
             f == [i \in Rows |-> Idx(b, i)]
  <1>1. S # {}
    <2> SUFFICES ASSUME S = {} PROVE FALSE
      OBVIOUS
    <2>1. \A i \in Rows : Created(b, i)
      BY DEF Created, Rows
    <2>2. f \in [Rows -> Indexes]
      <3>1. \A i \in Rows : multi_grp[b][i] \in RowTypes
        BY DEF TableTypes
      <3>2. QED
        BY <3>1 DEF Idx, RowTypes
    <2>3. /\ IsFiniteSet(Rows) /\ IsFiniteSet(Indexes)
          /\ Cardinality(Rows) = Depth /\ Cardinality(Indexes) = GrpMax
      <3>1. Cardinality(1 .. Depth) = Depth /\ IsFiniteSet(1 .. Depth)
        BY Sizes, FS_Interval
      <3>2. Cardinality(0 .. GrpMax - 1) = GrpMax /\ IsFiniteSet(0 .. GrpMax - 1)
        BY Sizes, FS_Interval
      <3>3. QED
        BY <3>1, <3>2 DEF Rows, Indexes
    <2>4. PICK i, j \in Rows : i # j /\ f[i] = f[j]
      <3> HIDE DEF f
      <3>1. Cardinality(Indexes) < Cardinality(Rows)
        BY <2>3, Sizes
      <3>2. QED
        BY <2>2, <2>3, <3>1, FS_PigeonHole
    <2>5. QED
      BY <2>1, <2>4 DEF RowsDistinct
  <1>2. S \in SUBSET Nat
    BY Sizes
  <1>3. FirstUnused(b) = Min(S)
    BY DEF FirstUnused
  <1> HIDE DEF S
  <1>4. FirstUnused(b) \in S /\ \A i \in S : FirstUnused(b) <= i
    BY <1>1, <1>2, <1>3, MinOf
  <1>5. QED
    BY <1>4, Sizes DEF S, Rows, Created

LEMMA FreeIndexType ==
  ASSUME TableTypes, Cardinality(g_bitmap) < GrpMax
  PROVE  FreeIndex \in Indexes \ g_bitmap
  <1> DEFINE S == Indexes \ g_bitmap
  <1>1. S # {}
    <2>1. Cardinality(0 .. GrpMax - 1) = GrpMax
      BY Sizes, FS_Interval
    <2>2. g_bitmap # Indexes
      BY <2>1, Sizes DEF Indexes
    <2>3. QED
      BY <2>2 DEF TableTypes
  <1>2. S \in SUBSET Nat
    BY Sizes DEF Indexes
  <1>3. FreeIndex = Min(S)
    BY DEF FreeIndex, Indexes
  <1> HIDE DEF S
  <1>4. FreeIndex \in S
    BY <1>1, <1>2, <1>3, MinOf
  <1>5. QED
    BY <1>4 DEF S

\* A step that may add rows, entries and members but takes none away.
RowsKept ==
  /\ cfg' = cfg /\ Loaded <= Loaded'
  /\ \A b \in Buckets : Intact(b)'
  /\ \A b \in Buckets, i \in Rows : Created(b, i) =>
       /\ Created(b, i)' /\ Ip(b, i)' = Ip(b, i) /\ Idx(b, i)' = Idx(b, i)
       /\ \A j \in 1 .. multi_grp[b][i].cnt : multi_vm'[Idx(b, i)][j] = multi_vm[Idx(b, i)][j]

\* A step that leaves alone which rows are in use, and for what.
LEMMA ShapeStays ==
  ASSUME TableInv, UNCHANGED <<g_bitmap, cfg>>,
         \A b \in Buckets, i \in Rows :
           /\ Created(b, i)' = Created(b, i) /\ Ip(b, i)' = Ip(b, i) /\ Idx(b, i)' = Idx(b, i),
         \A b \in Buckets : Intact(b) <=> Intact(b)',
         \A g \in Groups : Known(g) <=> Known(g)'
  PROVE  NoGaps' /\ RowsOwned' /\ RowsDistinct' /\ RowsComplete'
  <1>1. ASSUME NEW g \in Groups, NEW i \in Rows PROVE Has(g, i)' = Has(g, i)
    <2>1. GroupHash[g] \in Buckets
      BY Sizes
    <2>2. Created(GroupHash[g], i)' = Created(GroupHash[g], i) /\ Ip(GroupHash[g], i)' = Ip(GroupHash[g], i)
      BY <2>1
    <2>3. QED
      BY <2>2 DEF Has
  <1>2. NoGaps'
    BY DEF TableInv, NoGaps
  <1>3. RowsOwned'
    BY DEF TableInv, RowsOwned
  <1>4. RowsDistinct'
    BY DEF TableInv, RowsDistinct
  <1>5. RowsComplete'
    BY <1>1, Sizes DEF TableInv, RowsComplete
  <1>6. QED
    BY <1>2, <1>3, <1>4, <1>5

\* A step that changes no row, list or entry.
LEMMA TableStays ==
  ASSUME TableInv, UNCHANGED <<multi_grp, multi_vm, g_bitmap, cfg>>, Loaded' = Loaded,
         ~ReloadAt("port"),
         \A b \in Buckets : Intact(b) <=> Intact(b)',
         \A g \in Groups : Known(g) <=> Known(g)'
  PROVE  NoGaps' /\ RowsOwned' /\ RowsDistinct' /\ RowsComplete' /\ RowsRight'
  <1>1. \A b \in Buckets, i \in Rows :
          /\ Created(b, i)' = Created(b, i) /\ Ip(b, i)' = Ip(b, i) /\ Idx(b, i)' = Idx(b, i)
    BY DEF Created, Ip, Idx
  <1>2. NoGaps' /\ RowsOwned' /\ RowsDistinct' /\ RowsComplete'
    BY <1>1, ShapeStays
  <1>3. ASSUME NEW b \in Buckets, NEW i \in Rows, Created(b, i)'
        PROVE  Holds(b, i)' /\ HasPort(b, i)'
    <2>1. Created(b, i) /\ Holds(b, i) /\ HasPort(b, i)
      BY <1>1, <1>3 DEF TableInv, RowsRight
    <2>2. Holds(b, i)'
      BY <2>1 DEF Holds, Ip, Idx
    <2>3. HasPort(b, i)'
      BY <2>1 DEF HasPort, Ip
    <2>4. QED
      BY <2>2, <2>3
  <1>4. RowsRight'
    BY <1>3 DEF RowsRight
  <1>5. QED
    BY <1>2, <1>4

LEMMA RequestedTable ==
  ASSUME TableInv, ReloadRequested
  PROVE  TableInv'
  <1>1. /\ reload.pc = "rest" /\ reload'.pc = "rows" /\ reload'.bucket = 0
        /\ UNCHANGED <<multi_grp, multi_vm, g_bitmap, cfg, serving>>
    BY DEF ReloadRequested, ReloadAt, TableInv, TableTypes, tableVars
  <1>2. TableTypes'
    <2>1. 0 \in Buckets
      BY Sizes DEF Buckets
    <2>2. reload' = [reload EXCEPT !.pc = "rows", !.bucket = 0]
      BY DEF ReloadRequested
    <2>3. reload' \in ReloadTypes
      BY <2>1, <2>2 DEF TableInv, TableTypes, ReloadPcs, ReloadTypes
    <2>4. QED
      BY <1>1, <2>3 DEF TableInv, TableTypes
  <1>3. ~Filling /\ ~Filling' /\ ~HasRow /\ ~HasRow' /\ Loaded' = Loaded /\ ~ReloadAt("port")
    BY <1>1 DEF Filling, HasRow, Loaded, ReloadAt
  <1>4. \A b \in Buckets : Intact(b) /\ Intact(b)'
    BY <1>1 DEF Intact, ReloadAt, Buckets
  <1>5. \A g \in Groups : Known(g) <=> Known(g)'
    BY <1>1, <1>3 DEF Known
  <1>6. NoGaps' /\ RowsOwned' /\ RowsDistinct' /\ RowsComplete' /\ RowsRight'
    BY <1>1, <1>3, <1>4, <1>5, TableStays
  <1>7. BitmapFits' /\ Position'
    BY <1>1, <1>3 DEF BitmapFits, Position, ReloadAt
  <1>8. QED
    BY <1>2, <1>6, <1>7 DEF TableInv

LEMMA ClearsRowsTable ==
  ASSUME TableInv, ClearsRows
  PROVE  TableInv'
  <1> PICK b0 \in Buckets : b0 = reload.bucket
    BY DEF TableInv, TableTypes, ReloadTypes
  <1>1. /\ reload.pc = "rows" /\ reload'.pc \in {"rows", "lists"}
        /\ multi_grp' = [multi_grp EXCEPT ![b0] = ZeroRows]
        /\ UNCHANGED <<multi_vm, g_bitmap, cfg, serving>>
        /\ reload'.pc = "rows" => reload'.bucket = b0 + 1
        /\ reload'.pc = "lists" => ~(b0 + 1 < GroupBuckets)
    BY DEF ClearsRows, ReloadAt, TableInv, TableTypes, tableVars
  <1>2. TableTypes'
    <2>1. ZeroRows \in [Rows -> RowTypes]
      BY Sizes DEF ZeroRows, ZeroRow, Rows, RowTypes, Indexes
    <2>2. multi_grp' \in [Buckets -> [Rows -> RowTypes]]
      BY <1>1, <2>1 DEF TableInv, TableTypes
    <2>3. reload' \in ReloadTypes
      <3>1. CASE b0 + 1 < GroupBuckets
        <4>1. b0 + 1 \in Buckets
          BY <1>1, <3>1, Sizes DEF Buckets
        <4>2. reload' = [reload EXCEPT !.bucket = b0 + 1]
          BY <3>1 DEF ClearsRows
        <4>3. QED
          BY <4>1, <4>2 DEF TableInv, TableTypes, ReloadTypes
      <3>2. CASE ~(b0 + 1 < GroupBuckets)
        <4>1. reload' = [reload EXCEPT !.pc = "lists"]
          BY <3>2 DEF ClearsRows
        <4>2. QED
          BY <4>1 DEF TableInv, TableTypes, ReloadPcs, ReloadTypes
      <3>3. QED
        BY <3>1, <3>2
    <2>4. QED
      BY <1>1, <2>2, <2>3 DEF TableInv, TableTypes
  <1>3. ~Filling /\ ~Filling' /\ ~HasRow /\ ~HasRow' /\ Loaded' = Loaded
    BY <1>1 DEF Filling, HasRow, Loaded
  <1>4. \A b \in Buckets, i \in Rows : b # b0 => multi_grp'[b][i] = multi_grp[b][i]
    BY <1>1 DEF TableInv, TableTypes
  <1>5. \A i \in Rows : ~Created(b0, i)'
    <2>1. multi_grp'[b0] = ZeroRows
      BY <1>1 DEF TableInv, TableTypes
    <2>2. QED
      BY <2>1 DEF Created, ZeroRows, ZeroRow, Rows
  <1>6. ASSUME NEW b \in Buckets, NEW i \in Rows, Created(b, i)'
        PROVE  /\ b # b0 /\ Created(b, i) /\ Ip(b, i)' = Ip(b, i) /\ Idx(b, i)' = Idx(b, i)
               /\ Intact(b)' /\ Holds(b, i)' /\ HasPort(b, i)'
    <2>1. b # b0
      <3> SUFFICES ASSUME b = b0 PROVE FALSE
        OBVIOUS
      <3>1. Created(b0, i)'
        BY <1>6 DEF Created
      <3>2. QED
        BY <1>5, <3>1
    <2>9. multi_grp'[b][i] = multi_grp[b][i]
      BY <1>4, <2>1
    <2>2. Created(b, i) /\ Ip(b, i)' = Ip(b, i) /\ Idx(b, i)' = Idx(b, i)
      BY <1>6, <2>9 DEF Created, Ip, Idx
    <2>3. Intact(b) /\ Holds(b, i) /\ HasPort(b, i)
      BY <2>2 DEF TableInv, RowsOwned, RowsRight
    <2>4. b > b0 /\ b < GroupBuckets
      BY <1>1, <1>3, <2>1, <2>3, Sizes DEF Intact, ReloadAt, Buckets
    <2>5. Intact(b)'
      BY <1>1, <2>4, Sizes DEF Intact, ReloadAt, Buckets
    <2>6. Holds(b, i)'
      BY <1>1, <1>3, <2>9, <2>2, <2>3 DEF Holds, Ip, Idx
    <2>7. HasPort(b, i)'
      BY <1>1, <2>9, <2>2, <2>3 DEF HasPort, ReloadAt
    <2>8. QED
      BY <2>1, <2>2, <2>5, <2>6, <2>7
  <1>7. NoGaps'
    <2> SUFFICES ASSUME NEW b \in Buckets, NEW i \in Rows, NEW j \in Rows, i < j, Created(b, j)'
                 PROVE  Created(b, i)'
      BY DEF NoGaps
    <2>1. b # b0 /\ Created(b, i)
      BY <1>6 DEF TableInv, NoGaps
    <2>2. QED
      BY <1>4, <2>1 DEF Created
  <1>8. RowsOwned'
    BY <1>1, <1>6 DEF TableInv, RowsOwned
  <1>9. RowsDistinct'
    BY <1>6 DEF TableInv, RowsDistinct
  <1>10. RowsRight'
    BY <1>6 DEF RowsRight
  <1>11. RowsComplete'
    <2> SUFFICES ASSUME NEW g \in Groups, Intact(GroupHash[g])'
                 PROVE  Known(g)' <=> \E i \in Rows : Has(g, i)'
      BY DEF RowsComplete
    <2>1. /\ GroupHash[g] \in Buckets /\ GroupHash[g] # b0 /\ Intact(GroupHash[g])
      BY <1>1, <1>3, Sizes DEF Intact, ReloadAt, Buckets
    <2>2. \A i \in Rows : Has(g, i)' = Has(g, i)
      BY <1>4, <2>1 DEF Has, Created, Ip
    <2>3. Known(g)' <=> Known(g)
      BY <1>1, <1>3 DEF Known
    <2>4. QED
      BY <2>1, <2>2, <2>3 DEF TableInv, RowsComplete
  <1>12. BitmapFits' /\ Position'
    BY <1>1, <1>3 DEF BitmapFits, Position, ReloadAt
  <1>13. QED
    BY <1>2, <1>7, <1>8, <1>9, <1>10, <1>11, <1>12 DEF TableInv

\* Before the first entry the table is empty.
LEMMA TableEmpty ==
  ASSUME TableInv, ReloadAt("lists") \/ ReloadAt("file")
  PROVE  \A b \in Buckets, i \in Rows : ~Created(b, i)
  BY DEF TableInv, RowsOwned, Intact, Filling, ReloadAt

LEMMA ClearsListsTable ==
  ASSUME TableInv, ClearsLists
  PROVE  TableInv'
  <1>1. /\ reload.pc = "lists" /\ reload'.pc = "file" /\ g_bitmap' = {}
        /\ reload' = [reload EXCEPT !.pc = "file"]
        /\ multi_vm' = [i \in DOMAIN multi_vm |-> ZeroList]
        /\ UNCHANGED <<multi_grp, cfg, serving>>
    BY DEF ClearsLists, ReloadAt, TableInv, TableTypes
  <1>2. TableTypes'
    <2>1. ZeroList \in [1 .. VmMax -> VMs \cup {Zero}]
      BY DEF ZeroList
    <2>2. multi_vm' \in [Indexes -> [1 .. VmMax -> VMs \cup {Zero}]]
      BY <1>1, <2>1 DEF TableInv, TableTypes
    <2>3. reload' \in ReloadTypes
      BY <1>1 DEF TableInv, TableTypes, ReloadPcs, ReloadTypes
    <2>4. QED
      BY <1>1, <2>2, <2>3 DEF TableInv, TableTypes
  <1>3. \A b \in Buckets, i \in Rows : ~Created(b, i)'
    BY <1>1, TableEmpty DEF ReloadAt, Created
  <1>4. NoGaps' /\ RowsOwned' /\ RowsDistinct' /\ RowsRight'
    BY <1>3 DEF NoGaps, RowsOwned, RowsDistinct, RowsRight
  <1>5. RowsComplete'
    BY <1>1 DEF RowsComplete, Intact, Filling, ReloadAt
  <1>6. BitmapFits' /\ Position'
    BY <1>1 DEF BitmapFits, Position, Filling, HasRow, ReloadAt
  <1>7. QED
    BY <1>2, <1>4, <1>5, <1>6 DEF TableInv

LEMMA ReadsFileTable ==
  ASSUME TableInv, ReadsFile
  PROVE  TableInv'
  <1>1. PICK c \in Configs \cup {<<>>} : cfg' = c /\ Entry(c, 1)
    BY DEF ReadsFile
  <1>2. ReloadAt("file") /\ UNCHANGED <<multi_grp, multi_vm, g_bitmap>>
    BY DEF ReadsFile, tableVars
  <1>3. /\ reload'.pc \in {"node", "rest"} /\ (reload'.pc = "node" => reload'.e = 1 /\ 1 <= Len(c))
        /\ (reload'.pc = "rest" => ~(1 <= Len(c)))
        /\ reload' \in ReloadTypes
        /\ serving' \in BOOLEAN
    <2>1. CASE 1 <= Len(c)
      <3>1. reload' = [reload EXCEPT !.pc = "node", !.e = 1] /\ UNCHANGED serving
        BY <1>1, <2>1 DEF Entry
      <3>2. QED
        BY <2>1, <3>1 DEF TableInv, TableTypes, ReloadPcs, ReloadTypes
    <2>2. CASE ~(1 <= Len(c))
      <3>1. reload' = [reload EXCEPT !.pc = "rest"] /\ serving' = TRUE
        BY <1>1, <2>2 DEF Entry
      <3>2. QED
        BY <2>2, <3>1 DEF TableInv, TableTypes, ReloadPcs, ReloadTypes
    <2>3. QED
      BY <2>1, <2>2
  <1>4. TableTypes'
    BY <1>1, <1>2, <1>3 DEF TableInv, TableTypes
  <1>5. /\ cfg' \in Seq(Entries) /\ Len(cfg') \in Nat
    BY <1>4, ConfigTypes DEF TableTypes
  <1>6. Loaded' = 0 /\ ~HasRow'
    BY <1>1, <1>3, <1>5 DEF Loaded, Filling, HasRow
  <1>7. \A b \in Buckets, i \in Rows : ~Created(b, i)'
    BY <1>2, TableEmpty DEF Created
  <1>8. NoGaps' /\ RowsOwned' /\ RowsDistinct' /\ RowsRight'
    BY <1>7 DEF NoGaps, RowsOwned, RowsDistinct, RowsRight
  <1>9. \A g \in Groups : ~Known(g)'
    <2>1. \A g \in Groups : EntriesOf(cfg', g, 0) = <<>>
      BY <1>5, EntriesOfSteps
    <2>2. QED
      BY <1>6, <2>1 DEF Known
  <1>10. RowsComplete'
    BY <1>7, <1>9, Sizes DEF RowsComplete, Has
  <1>11. BitmapFits'
    <2>1. g_bitmap' = {}
      BY <1>2 DEF TableInv, BitmapFits
    <2>2. QED
      BY <1>3, <1>6, <2>1, FS_EmptySet DEF BitmapFits, Filling, ReloadAt
  <1>12. Position'
    BY <1>1, <1>3, <1>5, <1>6 DEF Position, Filling, ReloadAt
  <1>13. QED
    BY <1>4, <1>8, <1>10, <1>11, <1>12 DEF TableInv

\* What one more entry makes of a group's entries and members.
LEMMA EntryCounts ==
  ASSUME NEW c \in Configs \cup {<<>>}, NEW e \in 1 .. Len(c), NEW g
  PROVE  /\ EntriesOf(c, g, e) # <<>> <=> EntriesOf(c, g, e - 1) # <<>> \/ c[e].ip = g
         /\ c[e].ip # g => ListOf(c, g, e) = ListOf(c, g, e - 1)
         /\ c[e].ip = g => ListOf(c, g, e) = Joined(ListOf(c, g, e - 1), c[e])
         /\ ListOf(c, g, e - 1) \in Lists /\ ListOf(c, g, e) \in Lists
         /\ EntriesOf(c, g, e - 1) \in Seq(Entries)
  <1>1. c \in Seq(Entries) /\ Len(c) \in Nat /\ c[e] \in Entries
    BY ConfigTypes
  <1>2. e \in 0 .. Len(c) /\ e - 1 \in 0 .. Len(c)
    BY <1>1
  <1>3. EntriesOf(c, g, e - 1) \in Seq(Entries)
    BY <1>1, <1>2, EntriesOfSteps
  <1>4. EntriesOf(c, g, e) = IF c[e].ip = g THEN Append(EntriesOf(c, g, e - 1), c[e])
                                            ELSE EntriesOf(c, g, e - 1)
    BY <1>1, EntriesOfSteps, ZenonT(60)
  <1>5. Append(EntriesOf(c, g, e - 1), c[e]) # <<>>
    BY <1>1, <1>3
  <1>6. EntriesOf(c, g, e) # <<>> <=> EntriesOf(c, g, e - 1) # <<>> \/ c[e].ip = g
    BY <1>4, <1>5
  <1>7. ListOf(c, g, e - 1) \in Lists /\ ListOf(c, g, e) \in Lists
    BY <1>1, <1>2, ListOfSteps
  <1>8. ListOf(c, g, e) = IF c[e].ip = g THEN Joined(ListOf(c, g, e - 1), c[e])
                                         ELSE ListOf(c, g, e - 1)
    BY <1>1, ListOfSteps, SMTT(30)
  <1>9. QED
    BY <1>3, <1>6, <1>7, <1>8

LEMMA BitmapFinite ==
  ASSUME TableTypes
  PROVE  IsFiniteSet(g_bitmap) /\ Cardinality(g_bitmap) \in Nat
  <1>1. IsFiniteSet(Indexes)
    BY FS_Interval, Sizes DEF Indexes
  <1>2. IsFiniteSet(g_bitmap)
    BY <1>1, FS_Subset DEF TableTypes
  <1>3. QED
    BY <1>2, FS_CardinalityType

\* On to the next entry.
LEMMA Advance ==
  ASSUME TableInv, HasRow, UNCHANGED <<cfg, g_bitmap>>, Entry(cfg, reload.e + 1)
  PROVE  /\ reload' \in ReloadTypes /\ serving' \in BOOLEAN
         /\ reload.e \in 1 .. Len(cfg) /\ Loaded = reload.e - 1 /\ Loaded' = reload.e
         /\ ~ReloadAt("port")' /\ \A b \in Buckets : Intact(b) /\ Intact(b)'
         /\ \A g \in Groups : Known(g) <=> Known(g)'
         /\ BitmapFits' /\ Position'
  <1>1. cfg \in Configs \cup {<<>>} /\ cfg \in Seq(Entries) /\ Len(cfg) \in Nat
    BY ConfigTypes DEF TableInv, TableTypes
  <1>2. Filling /\ reload.e \in 1 .. Len(cfg) /\ Loaded = reload.e - 1
    BY DEF TableInv, Position, Filling, HasRow, Loaded
  <1>3. /\ reload'.pc \in {"node", "rest"}
        /\ reload'.pc = "node" => reload'.e = reload.e + 1 /\ reload.e + 1 <= Len(cfg)
        /\ reload'.pc = "rest" => ~(reload.e + 1 <= Len(cfg))
        /\ reload' \in ReloadTypes /\ serving' \in BOOLEAN
    <2>1. CASE reload.e + 1 <= Len(cfg)
      <3>1. reload' = [reload EXCEPT !.pc = "node", !.e = reload.e + 1] /\ UNCHANGED serving
        BY <2>1 DEF Entry
      <3>2. QED
        <4>1. reload.e + 1 \in Nat /\ reload \in ReloadTypes
          BY DEF TableInv, TableTypes, ReloadTypes
        <4>2. reload' \in ReloadTypes /\ reload'.pc = "node" /\ reload'.e = reload.e + 1
          BY <3>1, <4>1 DEF ReloadTypes, ReloadPcs
        <4>3. QED
          BY <2>1, <3>1, <4>2 DEF TableInv, TableTypes
    <2>2. CASE ~(reload.e + 1 <= Len(cfg))
      <3>1. reload' = [reload EXCEPT !.pc = "rest"] /\ serving' = TRUE
        BY <2>2 DEF Entry
      <3>2. QED
        BY <2>2, <3>1 DEF TableInv, TableTypes, ReloadPcs, ReloadTypes
    <2>3. QED
      BY <2>1, <2>2
  <1>4. Loaded' = reload.e /\ ~HasRow' /\ ~ReloadAt("port")'
    BY <1>1, <1>2, <1>3 DEF Loaded, Filling, HasRow, ReloadAt
  <1>5. \A b \in Buckets : Intact(b) /\ Intact(b)'
    BY <1>2, <1>3 DEF Intact, Filling, ReloadAt
  <1>6. ASSUME NEW g \in Groups PROVE Known(g) <=> Known(g)'
    BY <1>1, <1>2, <1>4, EntryCounts DEF Known
  <1>7. BitmapFits'
    <2>1. Cardinality(g_bitmap) <= reload.e
      BY <1>2 DEF TableInv, BitmapFits
    <2>2. Filling' => reload'.e - 1 = reload.e
      BY <1>2, <1>3 DEF Filling
    <2>3. ~ReloadAt("file")'
      BY <1>3 DEF ReloadAt
    <2>4. QED
      BY <1>4, <2>1, <2>2, <2>3 DEF BitmapFits
  <1>8. Position'
    <2>1. Filling' => reload'.e \in 1 .. Len(cfg')
      BY <1>1, <1>2, <1>3 DEF Filling
    <2>2. ~ReloadAt("list")'
      BY <1>3 DEF ReloadAt
    <2>3. QED
      BY <1>4, <2>1, <2>2 DEF Position
  <1>9. QED
    BY <1>2, <1>3, <1>4, <1>5, <1>6, <1>7, <1>8

LEMMA AppendsToTable ==
  ASSUME TableInv, AppendsTo
  PROVE  TableInv' /\ RowsKept
  <1> PICK g, r : g = cfg[reload.e].ip /\ r = RowOf(g)
    OBVIOUS
  <1>1. /\ reload.pc = "node" /\ r # 0
        /\ reload' = [reload EXCEPT !.pc = "limit", !.bucket = GroupHash[g], !.row = r]
        /\ UNCHANGED <<multi_grp, multi_vm, g_bitmap, cfg, serving>>
    BY DEF AppendsTo, ReloadAt, tableVars
  <1>2. Filling /\ Filling' /\ ~HasRow /\ HasRow' /\ reload'.pc = "limit" /\ reload'.e = reload.e
    BY <1>1 DEF Filling, HasRow, TableInv, TableTypes
  <1>3. cfg \in Configs \cup {<<>>} /\ reload.e \in 1 .. Len(cfg) /\ g \in Groups
    <2>1. cfg \in Configs \cup {<<>>} /\ reload.e \in 1 .. Len(cfg)
      BY <1>2 DEF TableInv, TableTypes, Position
    <2>2. QED
      BY <2>1, ConfigTypes
  <1>4. r \in Rows /\ Has(g, r) /\ GroupHash[g] \in Buckets
    BY <1>1, <1>3, RowOfType, Sizes DEF TableInv
  <1>5. TableTypes'
    <2>1. reload' \in ReloadTypes
      BY <1>1, <1>4 DEF TableInv, TableTypes, ReloadPcs, ReloadTypes
    <2>2. QED
      BY <1>1, <2>1 DEF TableInv, TableTypes, ReloadTypes
  <1>6. Loaded' = Loaded
    BY <1>2 DEF Loaded
  <1>7. \A b \in Buckets : Intact(b) /\ Intact(b)'
    BY <1>2 DEF Intact
  <1>8. Known(g)
    BY <1>3, <1>4, <1>7 DEF TableInv, RowsComplete
  <1>9. \A h \in Groups : Known(h) <=> Known(h)'
    BY <1>1, <1>2, <1>6, <1>8 DEF Known
  <1>10. ~ReloadAt("port") /\ ~ReloadAt("port")' /\ ~ReloadAt("list")' /\ ~ReloadAt("file")'
    BY <1>1, <1>2 DEF ReloadAt
  <1>11. NoGaps' /\ RowsOwned' /\ RowsDistinct' /\ RowsComplete' /\ RowsRight'
    BY <1>1, <1>6, <1>7, <1>9, <1>10, TableStays
  <1>12. BitmapFits'
    <2>1. Cardinality(g_bitmap) <= reload.e - 1
      BY <1>2 DEF TableInv, BitmapFits
    <2>2. Cardinality(g_bitmap) \in Nat
      BY BitmapFinite DEF TableInv
    <2>3. Cardinality(g_bitmap) <= reload.e
      BY <1>3, <2>1, <2>2
    <2>4. QED
      BY <1>1, <1>2, <1>10, <2>3 DEF BitmapFits
  <1>13. Position'
    <2>1. reload'.bucket = GroupHash[g] /\ reload'.row = r
      BY <1>1 DEF TableInv, TableTypes
    <2>2. Has(g, r)'
      BY <1>1, <1>4, <2>1 DEF Has, Created, Ip
    <2>3. QED
      BY <1>1, <1>2, <1>3, <1>10, <2>1, <2>2 DEF Position, Has, Created, Ip
  <1>14. RowsKept
    BY <1>1, <1>2, <1>3, <1>6, <1>7 DEF RowsKept, Created, Ip, Idx, Loaded
  <1>15. QED
    BY <1>5, <1>11, <1>12, <1>13, <1>14 DEF TableInv

LEMMA TakesRowTable ==
  ASSUME TableInv, TakesRow
  PROVE  TableInv' /\ RowsKept
  <1> PICK e, g, b, i, x : /\ e = reload.e /\ g = cfg[e].ip /\ b = GroupHash[g]
                           /\ i = FirstUnused(b) /\ x = FreeIndex
    OBVIOUS
  <1>1. /\ reload.pc = "node" /\ RowOf(g) = 0 /\ g_bitmap' = g_bitmap \cup {x}
        /\ multi_grp' = [multi_grp EXCEPT ![b][i] =
             [created |-> TRUE, ip |-> g, idx |-> x, cnt |-> 0, port |-> multi_grp[b][i].port]]
        /\ reload' = [reload EXCEPT !.pc = "port", !.bucket = b, !.row = i]
        /\ UNCHANGED <<multi_vm, cfg, serving>>
    BY DEF TakesRow, ReloadAt
  <1>2. Filling /\ Filling' /\ ~HasRow /\ HasRow' /\ reload'.pc = "port" /\ reload'.e = e
    BY <1>1 DEF Filling, HasRow, TableInv, TableTypes, ReloadTypes
  <1>3. cfg \in Configs \cup {<<>>} /\ e \in 1 .. Len(cfg) /\ Len(cfg) <= GrpMax /\ Len(cfg) \in Nat /\ g \in Groups
    <2>1. cfg \in Configs \cup {<<>>} /\ e \in 1 .. Len(cfg)
      BY <1>2 DEF TableInv, TableTypes, Position
    <2>2. QED
      BY <2>1, ConfigTypes
  <1>4. b \in Buckets /\ i \in Rows /\ ~Created(b, i) /\ \A j \in Rows : j < i => Created(b, j)
    <2>1. b \in Buckets
      BY <1>3, Sizes
    <2>2. QED
      BY <2>1, FirstUnusedType DEF TableInv
  <1>5. x \in Indexes \ g_bitmap /\ Cardinality(g_bitmap) <= e - 1 /\ Cardinality(g_bitmap) \in Nat
    <2>1. Cardinality(g_bitmap) <= e - 1 /\ Cardinality(g_bitmap) \in Nat
      BY <1>2, BitmapFinite DEF TableInv, BitmapFits
    <2>2. Cardinality(g_bitmap) < GrpMax
      BY <1>3, <2>1, Sizes
    <2>3. QED
      BY <2>1, <2>2, FreeIndexType DEF TableInv
  <1>6. /\ multi_grp' \in [Buckets -> [Rows -> RowTypes]]
        /\ Created(b, i)' /\ Ip(b, i)' = g /\ Idx(b, i)' = x /\ multi_grp'[b][i].cnt = 0
        /\ \A c \in Buckets, j \in Rows : c # b \/ j # i => multi_grp'[c][j] = multi_grp[c][j]
    <2> PICK row : row = [created |-> TRUE, ip |-> g, idx |-> x, cnt |-> 0, port |-> multi_grp[b][i].port]
      OBVIOUS
    <2>1. multi_grp[b][i] \in RowTypes
      BY <1>4 DEF TableInv, TableTypes
    <2>2. row \in RowTypes
      <3>1. multi_grp[b][i].port \in Nat
        BY <2>1 DEF RowTypes
      <3>2. g \in Groups /\ x \in Indexes /\ 0 \in 0 .. VmMax
        BY <1>3, <1>5, Sizes
      <3>3. QED
        BY <3>1, <3>2 DEF RowTypes
    <2>3. multi_grp' = [multi_grp EXCEPT ![b][i] = row]
      BY <1>1
    <2>4. /\ multi_grp' \in [Buckets -> [Rows -> RowTypes]] /\ multi_grp'[b][i] = row
          /\ \A c \in Buckets, j \in Rows : c # b \/ j # i => multi_grp'[c][j] = multi_grp[c][j]
      BY <1>4, <2>2, <2>3, ZenonT(60) DEF TableInv, TableTypes
    <2>5. Created(b, i)' /\ Ip(b, i)' = g /\ Idx(b, i)' = x /\ multi_grp'[b][i].cnt = 0
      <3>1. row.created /\ row.ip = g /\ row.idx = x /\ row.cnt = 0
        OBVIOUS
      <3>2. QED
        BY <2>4, <3>1 DEF Created, Ip, Idx
    <2>6. QED
      BY <2>4, <2>5
  <1>7. \A c \in Buckets, j \in Rows : c # b \/ j # i =>
          Created(c, j)' = Created(c, j) /\ Ip(c, j)' = Ip(c, j) /\ Idx(c, j)' = Idx(c, j)
    BY <1>6 DEF Created, Ip, Idx
  <1>8. TableTypes'
    <2>1. g_bitmap' \in SUBSET Indexes
      BY <1>1, <1>5 DEF TableInv, TableTypes
    <2>2. reload' \in ReloadTypes
      BY <1>1, <1>4 DEF TableInv, TableTypes, ReloadTypes, ReloadPcs
    <2>3. QED
      BY <1>1, <1>6, <2>1, <2>2 DEF TableInv, TableTypes
  <1>9. Loaded = e - 1 /\ Loaded' = e - 1
    BY <1>2 DEF Loaded
  <1>10. \A c \in Buckets : Intact(c) /\ Intact(c)'
    BY <1>2 DEF Intact
  <1>11. \A j \in Rows : ~Has(g, j)
    BY <1>1, <1>3, RowOfType DEF TableInv
  <1>12. EntriesOf(cfg, g, e - 1) = <<>>
    BY <1>2, <1>3, <1>9, <1>10, <1>11, Sizes DEF TableInv, RowsComplete, Known
  <1>13. NoGaps'
    <2> SUFFICES ASSUME NEW c \in Buckets, NEW j \in Rows, NEW k \in Rows, j < k, Created(c, k)'
                 PROVE  Created(c, j)'
      BY DEF NoGaps
    <2>1. CASE c = b /\ k = i
      BY <1>4, <1>7, <2>1, Sizes DEF Rows
    <2>2. CASE c # b \/ k # i
      <3>1. Created(c, k)
        BY <1>7, <2>2
      <3>2. Created(c, j)
        BY <3>1 DEF TableInv, NoGaps
      <3>3. c # b \/ j # i
        BY <1>4, <3>2
      <3>4. QED
        BY <1>7, <3>2, <3>3
    <2>3. QED
      BY <2>1, <2>2
  <1>14. RowsOwned'
    <2> SUFFICES ASSUME NEW c \in Buckets, NEW j \in Rows, Created(c, j)'
                 PROVE  /\ Intact(c)' /\ Ip(c, j)' \in Groups /\ GroupHash[Ip(c, j)'] = c
                        /\ Idx(c, j)' \in g_bitmap'
      BY DEF RowsOwned
    <2>1. CASE c = b /\ j = i
      BY <1>1, <1>3, <1>6, <1>10, <2>1
    <2>2. CASE c # b \/ j # i
      BY <1>1, <1>7, <1>10, <2>2 DEF TableInv, RowsOwned
    <2>3. QED
      BY <2>1, <2>2
  <1>15. ASSUME NEW c \in Buckets, NEW j \in Rows, Created(c, j), c # b \/ j # i
         PROVE  Ip(c, j) # g /\ Idx(c, j) # x
    <2>1. GroupHash[Ip(c, j)] = c /\ Idx(c, j) \in g_bitmap
      BY <1>15 DEF TableInv, RowsOwned
    <2>2. Ip(c, j) # g
      BY <1>11, <1>15, <2>1 DEF Has
    <2>3. QED
      BY <1>5, <2>1, <2>2
  <1>16a. ASSUME NEW c \in Buckets, NEW j \in Rows, Created(c, j)', c # b \/ j # i
          PROVE  Ip(c, j)' # g /\ Idx(c, j)' # x
    <2>1. Created(c, j) /\ Ip(c, j)' = Ip(c, j) /\ Idx(c, j)' = Idx(c, j)
      BY <1>7, <1>16a
    <2>2. Ip(c, j) # g /\ Idx(c, j) # x
      BY <1>15, <1>16a, <2>1
    <2>3. QED
      BY <2>1, <2>2
  <1>16. RowsDistinct'
    <2> SUFFICES ASSUME NEW c \in Buckets, NEW d \in Buckets, NEW j \in Rows, NEW k \in Rows,
                        Created(c, j)', Created(d, k)', Ip(c, j)' = Ip(d, k)' \/ Idx(c, j)' = Idx(d, k)'
                 PROVE  c = d /\ j = k
      BY DEF RowsDistinct
    <2>1. CASE (c # b \/ j # i) /\ (d # b \/ k # i)
      BY <1>7, <2>1 DEF TableInv, RowsDistinct
    <2>2. CASE (c = b /\ j = i) /\ (d # b \/ k # i)
      <3>1. Ip(c, j)' = g /\ Idx(c, j)' = x
        BY <1>6, <2>2
      <3>2. Ip(d, k)' # g /\ Idx(d, k)' # x
        BY <1>16a, <2>2
      <3>3. QED
        BY <3>1, <3>2
    <2>3. CASE (c # b \/ j # i) /\ (d = b /\ k = i)
      <3>1. Ip(d, k)' = g /\ Idx(d, k)' = x
        BY <1>6, <2>3
      <3>2. Ip(c, j)' # g /\ Idx(c, j)' # x
        BY <1>16a, <2>3
      <3>3. QED
        BY <3>1, <3>2
    <2>4. CASE (c = b /\ j = i) /\ (d = b /\ k = i)
      BY <2>4
    <2>5. QED
      BY <2>1, <2>2, <2>3, <2>4
  <1>17. BitmapFits'
    <2>1. Cardinality(g_bitmap') <= e
      <3>1. IsFiniteSet(g_bitmap) /\ x \notin g_bitmap
        BY <1>5, BitmapFinite DEF TableInv
      <3>2. Cardinality(g_bitmap \cup {x}) = Cardinality(g_bitmap) + 1
        BY <3>1, FS_AddElement
      <3>3. Cardinality(g_bitmap) + 1 <= e
        BY <1>3, <1>5
      <3>4. QED
        BY <1>1, <3>2, <3>3
    <2>2. QED
      BY <1>2, <2>1 DEF BitmapFits, ReloadAt
  <1>18. RowsComplete'
    <2> SUFFICES ASSUME NEW h \in Groups
                 PROVE  Known(h)' <=> \E j \in Rows : Has(h, j)'
      BY DEF RowsComplete
    <2>1. GroupHash[h] \in Buckets
      BY Sizes
    <2>2. CASE h = g
      <3>1. Known(h)'
        BY <1>1, <1>2, <2>2 DEF Known
      <3>2. Has(h, i)'
        BY <1>6, <2>2 DEF Has, Created, Ip
      <3>3. QED
        BY <1>4, <3>1, <3>2
    <2>3. CASE h # g
      <3>1. Known(h)' <=> Known(h)
        BY <1>1, <1>2, <1>9, <2>3 DEF Known
      <3>2. ASSUME NEW j \in Rows PROVE Has(h, j)' <=> Has(h, j)
        <4>1. CASE GroupHash[h] = b /\ j = i
          BY <1>4, <1>6, <2>3, <4>1 DEF Has, Created, Ip
        <4>2. CASE GroupHash[h] # b \/ j # i
          BY <1>6, <2>1, <4>2 DEF Has, Created, Ip
        <4>3. QED
          BY <4>1, <4>2
      <3>3. QED
        BY <1>10, <2>1, <3>1, <3>2 DEF TableInv, RowsComplete
    <2>4. QED
      BY <2>2, <2>3
  <1>19. RowsRight'
    <2> SUFFICES ASSUME NEW c \in Buckets, NEW j \in Rows, Created(c, j)'
                 PROVE  Holds(c, j)' /\ HasPort(c, j)'
      BY DEF RowsRight
    <2>1. CASE c = b /\ j = i
      <3>1. ListOf(cfg, g, e - 1) = <<>>
        <4>1. cfg \in Seq(Entries)
          BY <1>3, ConfigTypes
        <4>2. EntriesOf(cfg, g, 0) = <<>> /\ ListOf(cfg, g, 0) = <<>>
          BY <4>1, EntriesOfSteps, ListOfSteps
        <4>3. QED
          BY <1>12, <4>2 DEF ListOf
      <3>2. ListOf(cfg', Ip(c, j)', Loaded') = <<>>
        BY <1>1, <1>6, <1>9, <2>1, <3>1
      <3>3. Holds(c, j)'
        <4>1. multi_grp'[c][j].cnt = 0 /\ Len(<<>>) = 0
          BY <1>6, <2>1
        <4>2. QED
          BY <3>2, <4>1 DEF Holds
      <3>4. HasPort(c, j)'
        <4>1. reload'.bucket = b /\ reload'.row = i
          BY <1>1 DEF TableInv, TableTypes, ReloadTypes
        <4>2. QED
          BY <1>2, <2>1, <4>1 DEF HasPort, ReloadAt
      <3>5. QED
        BY <3>3, <3>4
    <2>2. CASE c # b \/ j # i
      <3>1. Created(c, j) /\ Holds(c, j) /\ HasPort(c, j) /\ multi_grp'[c][j] = multi_grp[c][j]
        BY <1>6, <1>7, <2>2 DEF TableInv, RowsRight
      <3>2. Holds(c, j)'
        <4>1. Loaded' = Loaded
          BY <1>9
        <4>2. QED
          BY <1>1, <3>1, <4>1 DEF Holds, Ip, Idx
      <3>3. HasPort(c, j)'
        BY <1>1, <3>1 DEF HasPort, Ip, ReloadAt
      <3>4. QED
        BY <3>2, <3>3
    <2>3. QED
      BY <2>1, <2>2
  <1>20. Position'
    <2>1. reload'.bucket = b /\ reload'.row = i /\ cfg'[reload'.e].ip = g
      BY <1>1, <1>2 DEF TableInv, TableTypes, ReloadTypes
    <2>2. Has(g, i)'
      BY <1>6 DEF Has, Created, Ip
    <2>3. Has(cfg[reload.e].ip, reload.row)'
      BY <2>1, <2>2 DEF Has, Created, Ip
    <2>4. ~ReloadAt("list")'
      BY <1>2 DEF ReloadAt
    <2>5. EntriesOf(cfg', cfg'[reload'.e].ip, reload'.e - 1) = <<>>
      BY <1>1, <1>2, <1>12, <2>1
    <2>6. QED
      BY <1>1, <1>2, <1>3, <2>1, <2>3, <2>4, <2>5 DEF Position
  <1>21. RowsKept
    <2>1. \A c \in Buckets, j \in Rows : Created(c, j) => c # b \/ j # i
      BY <1>4
    <2>2. Loaded <= Loaded'
      BY <1>3, <1>9
    <2>3. QED
      BY <1>1, <1>7, <1>10, <2>1, <2>2 DEF RowsKept
  <1>22. QED
    BY <1>8, <1>13, <1>14, <1>16, <1>17, <1>18, <1>19, <1>20, <1>21 DEF TableInv

\* Where the reload thread is while it fills a row.
LEMMA AtRow ==
  ASSUME TableInv, HasRow
  PROVE  /\ cfg \in Configs \cup {<<>>} /\ Len(cfg) \in Nat /\ reload.e \in 1 .. Len(cfg)
         /\ cfg[reload.e] \in Entries /\ cfg[reload.e].ip \in Groups
         /\ cfg[reload.e].members \in Seq(VMs) /\ cfg[reload.e].port \in Nat
         /\ reload.bucket = GroupHash[cfg[reload.e].ip] /\ reload.bucket \in Buckets
         /\ reload.row \in Rows
         /\ Created(reload.bucket, reload.row) /\ Ip(reload.bucket, reload.row) = cfg[reload.e].ip
         /\ Row = multi_grp[reload.bucket][reload.row] /\ Row \in RowTypes
         /\ Loaded = reload.e - 1 /\ Filling
  <1>1. Filling /\ reload.e \in 1 .. Len(cfg) /\ cfg \in Configs \cup {<<>>}
    BY DEF TableInv, TableTypes, Position, Filling, HasRow
  <1>2. /\ Len(cfg) \in Nat
        /\ cfg[reload.e] \in Entries /\ cfg[reload.e].ip \in Groups
        /\ cfg[reload.e].members \in Seq(VMs) /\ cfg[reload.e].port \in Nat
    BY <1>1, ConfigTypes
  <1>3. reload.bucket = GroupHash[cfg[reload.e].ip] /\ Has(cfg[reload.e].ip, reload.row)
    BY DEF TableInv, Position
  <1>4. reload.bucket \in Buckets /\ reload.row \in Rows
    BY DEF TableInv, TableTypes, ReloadTypes
  <1>5. Row = multi_grp[reload.bucket][reload.row] /\ Row \in RowTypes
    BY <1>4 DEF TableInv, TableTypes, Row
  <1>6. QED
    BY <1>1, <1>2, <1>3, <1>4, <1>5 DEF Has, Loaded

LEMMA FirstEntry ==
  ASSUME NEW c \in Configs \cup {<<>>}, NEW e \in 1 .. Len(c), EntriesOf(c, c[e].ip, e - 1) = <<>>
  PROVE  EntriesIn(c, c[e].ip)[1] = c[e]
  <1> PICK g : g = c[e].ip
    OBVIOUS
  <1>1. c \in Seq(Entries) /\ Len(c) \in Nat
    BY ConfigTypes
  <1>2. EntriesOf(c, g, e) = Append(<<>>, c[e])
    BY <1>1, EntriesOfSteps, ZenonT(60)
  <1>3. Len(EntriesOf(c, g, e)) = 1 /\ EntriesOf(c, g, e)[1] = c[e]
    BY <1>2
  <1>4. Prefix(EntriesOf(c, g, e), EntriesIn(c, g))
    <2>1. e \in 0 .. Len(c) /\ Len(c) \in 0 .. Len(c) /\ e <= Len(c)
      BY <1>1
    <2>2. Prefix(EntriesOf(c, g, e), EntriesOf(c, g, Len(c)))
      BY <1>1, <2>1, EntriesOfPrefix
    <2>3. QED
      BY <1>1, <2>2, EntriesOfSteps
  <1>5. QED
    BY <1>3, <1>4 DEF Prefix

LEMMA SetsPortTable ==
  ASSUME TableInv, SetsPort
  PROVE  TableInv' /\ RowsKept
  <1> PICK e, g, b, i : e = reload.e /\ g = cfg[e].ip /\ b = reload.bucket /\ i = reload.row
    OBVIOUS
  <1>1. /\ reload.pc = "port" /\ reload' = [reload EXCEPT !.pc = "limit"]
        /\ multi_grp' = [multi_grp EXCEPT ![b][i] = [Row EXCEPT !.port = cfg[e].port]]
        /\ UNCHANGED <<multi_vm, g_bitmap, cfg, serving>>
    BY DEF SetsPort, SetRow, ReloadAt
  <1>2. /\ HasRow /\ HasRow' /\ Filling' /\ reload'.pc = "limit" /\ reload'.e = e
        /\ reload'.bucket = b /\ reload'.row = i /\ reload' \in ReloadTypes
    BY <1>1 DEF HasRow, Filling, TableInv, TableTypes, ReloadTypes, ReloadPcs
  <1>3. /\ cfg \in Configs \cup {<<>>} /\ e \in 1 .. Len(cfg) /\ cfg[e].port \in Nat
        /\ b \in Buckets /\ i \in Rows /\ Row = multi_grp[b][i] /\ Row \in RowTypes
        /\ Ip(b, i) = g /\ b = GroupHash[g] /\ Loaded = e - 1 /\ Filling
    BY <1>2, AtRow
  <1>4. /\ multi_grp' \in [Buckets -> [Rows -> RowTypes]]
        /\ multi_grp'[b][i] = [Row EXCEPT !.port = cfg[e].port]
        /\ \A c \in Buckets, j \in Rows : c # b \/ j # i => multi_grp'[c][j] = multi_grp[c][j]
    <2> PICK row : row = [Row EXCEPT !.port = cfg[e].port]
      OBVIOUS
    <2>1. row \in RowTypes
      BY <1>3 DEF RowTypes
    <2>2. multi_grp' = [multi_grp EXCEPT ![b][i] = row]
      BY <1>1
    <2>3. QED
      BY <1>3, <2>1, <2>2 DEF TableInv, TableTypes
  <1>5. /\ multi_grp'[b][i].created = multi_grp[b][i].created /\ multi_grp'[b][i].ip = multi_grp[b][i].ip
        /\ multi_grp'[b][i].idx = multi_grp[b][i].idx /\ multi_grp'[b][i].cnt = multi_grp[b][i].cnt
        /\ multi_grp'[b][i].port = cfg[e].port
    BY <1>3, <1>4 DEF RowTypes
  <1>6. \A c \in Buckets, j \in Rows :
          /\ Created(c, j)' = Created(c, j) /\ Ip(c, j)' = Ip(c, j) /\ Idx(c, j)' = Idx(c, j)
          /\ multi_grp'[c][j].cnt = multi_grp[c][j].cnt
          /\ c # b \/ j # i => multi_grp'[c][j].port = multi_grp[c][j].port
    BY <1>4, <1>5 DEF Created, Ip, Idx
  <1>7. TableTypes'
    BY <1>1, <1>2, <1>4 DEF TableInv, TableTypes
  <1>8. Loaded' = Loaded
    BY <1>2, <1>3 DEF Loaded
  <1>9. NoGaps' /\ RowsOwned' /\ RowsDistinct' /\ RowsComplete'
    <2>1. \A c \in Buckets : Intact(c) /\ Intact(c)'
      BY <1>2, <1>3 DEF Intact
    <2>2. \A h \in Groups : Known(h) <=> Known(h)'
      BY <1>1, <1>2, <1>8 DEF Known
    <2>3. QED
      BY <1>1, <1>6, <2>1, <2>2, ShapeStays
  <1>10. BitmapFits'
    BY <1>1, <1>2, <1>3 DEF TableInv, BitmapFits, ReloadAt
  <1>11. RowsRight'
    <2> SUFFICES ASSUME NEW c \in Buckets, NEW j \in Rows, Created(c, j)'
                 PROVE  Holds(c, j)' /\ HasPort(c, j)'
      BY DEF RowsRight
    <2>1. Created(c, j) /\ Holds(c, j) /\ HasPort(c, j)
      BY <1>6 DEF TableInv, RowsRight
    <2>2. Holds(c, j)'
      BY <1>1, <1>6, <1>8, <2>1 DEF Holds
    <2>3. HasPort(c, j)'
      <3>1. CASE c = b /\ j = i
        <4>1. EntriesIn(cfg, g)[1] = cfg[e]
          BY <1>1, <1>3, FirstEntry DEF TableInv, Position, ReloadAt
        <4>2. Ip(c, j)' = g /\ multi_grp'[c][j].port = cfg[e].port
          BY <1>3, <1>5, <1>6, <3>1
        <4>3. QED
          BY <1>1, <4>1, <4>2 DEF HasPort
      <3>2. CASE c # b \/ j # i
        BY <1>1, <1>6, <2>1, <3>2 DEF HasPort
      <3>3. QED
        BY <3>1, <3>2
    <2>4. QED
      BY <2>2, <2>3
  <1>12. Position'
    <2>1. Has(g, i)'
      BY <1>2, <1>3, <1>5, AtRow DEF Has, Created, Ip
    <2>2. Has(cfg[reload.e].ip, reload.row)'
      BY <1>1, <1>2, <2>1 DEF Has, Created, Ip
    <2>3. QED
      BY <1>1, <1>2, <1>3, <2>2 DEF Position, ReloadAt
  <1>13. RowsKept
    <2>1. \A c \in Buckets : Intact(c)'
      BY <1>2 DEF Intact
    <2>2. Loaded <= Loaded'
      BY <1>3, <1>8
    <2>3. QED
      BY <1>1, <1>6, <2>1, <2>2 DEF RowsKept
  <1>14. QED
    BY <1>7, <1>9, <1>10, <1>11, <1>12, <1>13 DEF TableInv

LEMMA Limits ==
  ASSUME NEW a \in Nat, NEW b \in Nat
  PROVE  /\ a + b = b + a /\ 1 \in 1 .. a + 1
         /\ ~(a + b > VmMax) <=> a + b <= VmMax
  BY Sizes

LEMMA ListFits ==
  ASSUME NEW a \in Nat, NEW b \in Nat, NEW m \in 1 .. b + 1, NEW k \in Nat,
         b + a <= VmMax, k <= a + (m - 1)
  PROVE  k <= VmMax /\ k <= a + m - 1
  BY Sizes

LEMMA ChecksLimitTable ==
  ASSUME TableInv, ChecksLimit
  PROVE  TableInv' /\ RowsKept
  <1> PICK e, g, b, i, old : /\ e = reload.e /\ g = cfg[e].ip /\ b = reload.bucket /\ i = reload.row
                             /\ old = ListOf(cfg, g, e - 1)
    OBVIOUS
  <1>1. reload.pc = "limit" /\ HasRow /\ UNCHANGED <<multi_grp, multi_vm, g_bitmap, cfg>>
    BY DEF ChecksLimit, HasRow, ReloadAt, tableVars
  <1>2. /\ cfg \in Configs \cup {<<>>} /\ e \in 1 .. Len(cfg) /\ cfg[e] \in Entries /\ g \in Groups
        /\ b \in Buckets /\ i \in Rows /\ Row = multi_grp[b][i] /\ Row \in RowTypes
        /\ Created(b, i) /\ Ip(b, i) = g /\ b = GroupHash[g] /\ Loaded = e - 1 /\ Filling
        /\ cfg[e].members \in Seq(VMs)
    BY <1>1, AtRow
  <1>3. Row.cnt = Len(old) /\ \A j \in 1 .. Len(old) : multi_vm[Row.idx][j] = old[j]
    <2>1. Holds(b, i) /\ ListOf(cfg, Ip(b, i), Loaded) = old
      BY <1>2 DEF TableInv, RowsRight
    <2>2. QED
      BY <1>2, <2>1 DEF Holds, Idx
  <1>4. old \in Lists
    BY <1>2, EntryCounts
  <1>5. CASE Len(cfg[e].members) + Row.cnt > VmMax
    <2>1. Entry(cfg, reload.e + 1)
      BY <1>5 DEF ChecksLimit
    <2>2. /\ reload' \in ReloadTypes /\ serving' \in BOOLEAN /\ Loaded' = e
          /\ ~ReloadAt("port")' /\ \A c \in Buckets : Intact(c) /\ Intact(c)'
          /\ \A h \in Groups : Known(h) <=> Known(h)'
          /\ BitmapFits' /\ Position'
      BY <1>1, <2>1, Advance
    <2>3. TableTypes'
      BY <1>1, <2>2 DEF TableInv, TableTypes
    <2>4. \A c \in Buckets, j \in Rows :
            /\ Created(c, j)' = Created(c, j) /\ Ip(c, j)' = Ip(c, j) /\ Idx(c, j)' = Idx(c, j)
      BY <1>1 DEF Created, Ip, Idx
    <2>5. NoGaps' /\ RowsOwned' /\ RowsDistinct' /\ RowsComplete'
      BY <1>1, <2>2, <2>4, ShapeStays
    <2>6. RowsRight'
      <3> SUFFICES ASSUME NEW c \in Buckets, NEW j \in Rows, Created(c, j)'
                   PROVE  Holds(c, j)' /\ HasPort(c, j)'
        BY DEF RowsRight
      <3>1. Created(c, j) /\ Holds(c, j) /\ HasPort(c, j)
        BY <2>4 DEF TableInv, RowsRight
      <3>2. Joined(old, cfg[e]) = old
        <4>1. Len(cfg[e].members) \in Nat /\ Len(old) \in Nat /\ VmMax \in Nat
          BY <1>2, <1>4, Sizes DEF Lists
        <4>2. Len(cfg[e].members) + Len(old) > VmMax
          BY <1>3, <1>5
        <4>3. Len(old) + Len(cfg[e].members) > VmMax
          BY <4>1, <4>2, Limits
        <4>4. QED
          BY <4>3 DEF Joined
      <3>3. ListOf(cfg, Ip(c, j), e) = ListOf(cfg, Ip(c, j), e - 1)
        <4>1. CASE Ip(c, j) = g
          BY <1>2, <3>2, <4>1, EntryCounts
        <4>2. CASE Ip(c, j) # g
          BY <1>2, <4>2, EntryCounts
        <4>3. QED
          BY <4>1, <4>2
      <3>4. ListOf(cfg', Ip(c, j)', Loaded') = ListOf(cfg, Ip(c, j), Loaded)
        BY <1>1, <1>2, <2>2, <2>4, <3>3
      <3>5. Holds(c, j)'
        BY <1>1, <2>4, <3>1, <3>4 DEF Holds
      <3>6. HasPort(c, j)'
        BY <1>1, <2>4, <3>1 DEF HasPort, ReloadAt
      <3>7. QED
        BY <3>5, <3>6
    <2>7. RowsKept
      <3>1. Loaded <= Loaded'
        BY <1>2, <2>2
      <3>2. QED
        BY <1>1, <2>2, <2>4, <3>1 DEF RowsKept
    <2>8. QED
      BY <2>2, <2>3, <2>5, <2>6, <2>7 DEF TableInv
  <1>6. CASE ~(Len(cfg[e].members) + Row.cnt > VmMax)
    <2>1. reload' = [reload EXCEPT !.pc = "list", !.m = 1, !.k = Row.cnt] /\ UNCHANGED serving
      BY <1>6 DEF ChecksLimit
    <2>2. /\ HasRow' /\ Filling' /\ reload'.pc = "list" /\ reload'.e = e /\ reload'.m = 1
          /\ reload'.bucket = b /\ reload'.row = i /\ reload'.k = Row.cnt /\ reload' \in ReloadTypes
      BY <1>2, <2>1 DEF HasRow, Filling, TableInv, TableTypes, ReloadTypes, ReloadPcs, RowTypes
    <2>3. TableTypes'
      BY <1>1, <2>1, <2>2 DEF TableInv, TableTypes
    <2>4. Loaded' = Loaded /\ ~ReloadAt("port")
      BY <1>1, <1>2, <2>2 DEF Loaded, ReloadAt
    <2>5. NoGaps' /\ RowsOwned' /\ RowsDistinct' /\ RowsComplete' /\ RowsRight'
      <3>1. \A c \in Buckets : Intact(c) /\ Intact(c)'
        BY <1>2, <2>2 DEF Intact
      <3>2. \A h \in Groups : Known(h) <=> Known(h)'
        BY <1>1, <2>2, <2>4 DEF Known
      <3>3. QED
        BY <1>1, <2>4, <3>1, <3>2, TableStays
    <2>6. BitmapFits'
      BY <1>1, <1>2, <2>2 DEF TableInv, BitmapFits, ReloadAt
    <2>7. Listing'
      <3>1. First(cfg[e].members, 0) = <<>> /\ Added(old, First(cfg[e].members, 0)) = old
        BY <1>2, <1>4, AddedSteps DEF First, Lists
      <3>2. Len(cfg[e].members) + Len(old) <= VmMax /\ 1 \in 1 .. Len(cfg[e].members) + 1
        <4>1. Len(cfg[e].members) \in Nat /\ Len(old) \in Nat /\ VmMax \in Nat
          BY <1>2, <1>4, Sizes DEF Lists
        <4>2. ~(Len(cfg[e].members) + Len(old) > VmMax)
          BY <1>3, <1>6
        <4>3. QED
          BY <4>1, <4>2, Limits
      <3>3. Row' = Row
        BY <1>1, <2>2 DEF Row
      <3>4. Added(ListOf(cfg', cfg'[reload'.e].ip, reload'.e - 1), First(cfg'[reload'.e].members, reload'.m - 1)) = old
        BY <1>1, <2>2, <3>1
      <3>5. QED
        BY <1>1, <1>3, <2>2, <3>2, <3>3, <3>4 DEF Listing
    <2>8. Position'
      <3>1. Has(g, i)'
        BY <1>1, <1>2 DEF Has, Created, Ip
      <3>2. Has(cfg[reload.e].ip, reload.row)'
        BY <1>1, <2>2, <3>1 DEF Has, Created, Ip
      <3>3. QED
        BY <1>1, <1>2, <2>2, <2>7, <3>2 DEF Position, ReloadAt
    <2>9. RowsKept
      <3>1. \A c \in Buckets : Intact(c)'
        BY <2>2 DEF Intact
      <3>2. Loaded <= Loaded'
        BY <1>2, <2>4
      <3>3. QED
        BY <1>1, <3>1, <3>2 DEF RowsKept, Created, Ip, Idx
    <2>10. QED
      BY <2>3, <2>5, <2>6, <2>8, <2>9 DEF TableInv
  <1>7. QED
    BY <1>5, <1>6

\* The members that the entry's group had, and those it has got so far.
OldList == ListOf(cfg, cfg[reload.e].ip, reload.e - 1)
PartList == Added(OldList, First(cfg[reload.e].members, reload.m - 1))

\* What is known while members are added.
LEMMA AtList ==
  ASSUME TableInv, ReloadAt("list")
  PROVE  /\ OldList \in Lists /\ PartList \in Lists
         /\ reload.m \in 1 .. Len(cfg[reload.e].members) + 1 /\ Len(cfg[reload.e].members) \in Nat
         /\ Len(OldList) + Len(cfg[reload.e].members) <= VmMax
         /\ Row.cnt = Len(OldList)
         /\ \A j \in 1 .. Len(OldList) : multi_vm[Row.idx][j] = OldList[j]
         /\ reload.k = Len(PartList)
         /\ \A j \in 1 .. Len(PartList) : multi_vm[Row.idx][j] = PartList[j]
         /\ Prefix(OldList, PartList) /\ Len(PartList) <= Len(OldList) + reload.m - 1
         /\ HasRow
  <1> PICK e, old, part : e = reload.e /\ old = OldList /\ part = PartList
    OBVIOUS
  <1>a. old = ListOf(cfg, cfg[e].ip, e - 1) /\ part = Added(old, First(cfg[e].members, reload.m - 1))
    BY DEF OldList, PartList
  <1>1. HasRow /\ Listing
    BY DEF HasRow, ReloadAt, TableInv, Position
  <1>2. /\ cfg \in Configs \cup {<<>>} /\ e \in 1 .. Len(cfg) /\ cfg[e] \in Entries
        /\ reload.bucket \in Buckets /\ reload.row \in Rows
        /\ Row = multi_grp[reload.bucket][reload.row] /\ Created(reload.bucket, reload.row)
        /\ Ip(reload.bucket, reload.row) = cfg[e].ip /\ Loaded = e - 1
        /\ cfg[e].members \in Seq(VMs)
    BY <1>1, AtRow
  <1>3. old \in Lists
    BY <1>a, <1>2, EntryCounts
  <1>4. Row.cnt = Len(old) /\ \A j \in 1 .. Len(old) : multi_vm[Row.idx][j] = old[j]
    BY <1>a, <1>2 DEF TableInv, RowsRight, Holds, Idx
  <1>5. /\ Len(cfg[e].members) + Len(old) <= VmMax
        /\ reload.m \in 1 .. Len(cfg[e].members) + 1 /\ reload.k = Len(part)
        /\ \A j \in 1 .. Len(part) : multi_vm[Row.idx][j] = part[j]
    BY <1>1, <1>a DEF Listing
  <1>6. Len(cfg[e].members) \in Nat /\ old \in Seq(VMs) /\ Len(old) \in Nat
    BY <1>2, <1>3 DEF Lists
  <1>7. /\ First(cfg[e].members, reload.m - 1) \in Seq(VMs)
        /\ Len(First(cfg[e].members, reload.m - 1)) = reload.m - 1
    BY <1>2, <1>5, <1>6, SMTT(30) DEF First
  <1>8. part \in Seq(VMs) /\ Prefix(old, part) /\ Len(part) <= Len(old) + (reload.m - 1)
    <2>1. /\ part \in Seq(VMs) /\ Prefix(old, part)
          /\ Len(part) <= Len(old) + Len(First(cfg[e].members, reload.m - 1))
      BY <1>a, <1>6, <1>7, AddedPrefix
    <2>2. QED
      BY <1>7, <2>1
  <1>9. Len(part) \in Nat
    BY <1>8
  <1>10. Len(part) <= VmMax /\ Len(part) <= Len(old) + reload.m - 1
    <2>1. Len(cfg[e].members) + Len(old) <= VmMax /\ Len(part) <= Len(old) + (reload.m - 1)
      BY <1>5, <1>8
    <2>2. reload.m \in 1 .. Len(cfg[e].members) + 1
      BY <1>5
    <2>3. QED
      BY <1>6, <1>9, <2>1, <2>2, ListFits
  <1>11. part \in Lists
    BY <1>8, <1>10 DEF Lists
  <1>12. Len(old) + Len(cfg[e].members) <= VmMax
    BY <1>5, <1>6, Limits
  <1>13. QED
    BY <1>1, <1>3, <1>4, <1>5, <1>6, <1>8, <1>10, <1>11, <1>12

LEMMA NextPlace ==
  ASSUME NEW a \in Nat, NEW b \in Nat, NEW m \in 1 .. b, NEW k \in Nat,
         a + b <= VmMax, a <= k, k <= a + m - 1
  PROVE  k + 1 \in 1 .. VmMax /\ k + 1 > a /\ m + 1 \in 1 .. b + 1 /\ m \in 1 .. b + 1 /\ (m + 1) - 1 = m
  BY Sizes

LEMMA AddedNext ==
  ASSUME NEW old \in Seq(VMs), NEW s \in Seq(VMs), NEW j \in 1 .. Len(s)
  PROVE  Added(old, First(s, j)) = IF s[j] \in ToSet(old) THEN Added(old, First(s, j - 1))
                                   ELSE Append(Added(old, First(s, j - 1)), s[j])
  BY AddedSteps

LEMMA AddsMemberTable ==
  ASSUME TableInv, AddsMember
  PROVE  TableInv' /\ RowsKept
  <1> PICK e, g, b, i, mem, m, k, x, v :
        /\ e = reload.e /\ g = cfg[e].ip /\ b = reload.bucket /\ i = reload.row
        /\ mem = cfg[e].members /\ m = reload.m /\ k = reload.k /\ x = Row.idx /\ v = mem[m]
    OBVIOUS
  <1> PICK old, part : old = OldList /\ part = PartList
    OBVIOUS
  <1>a. old = ListOf(cfg, g, e - 1) /\ part = Added(old, First(mem, m - 1))
    BY DEF OldList, PartList
  <1>1. /\ reload.pc = "list" /\ ReloadAt("list") /\ m <= Len(mem)
        /\ UNCHANGED <<multi_grp, g_bitmap, cfg, serving>>
    BY DEF AddsMember, ReloadAt
  <1>2. /\ old \in Lists /\ part \in Lists /\ m \in 1 .. Len(mem) + 1 /\ Len(mem) \in Nat
        /\ Len(old) + Len(mem) <= VmMax
        /\ Row.cnt = Len(old) /\ \A j \in 1 .. Len(old) : multi_vm[x][j] = old[j]
        /\ k = Len(part) /\ \A j \in 1 .. Len(part) : multi_vm[x][j] = part[j]
        /\ Prefix(old, part) /\ Len(part) <= Len(old) + m - 1 /\ HasRow
    BY <1>1, AtList
  <1>3. /\ cfg \in Configs \cup {<<>>} /\ e \in 1 .. Len(cfg) /\ mem \in Seq(VMs) /\ g \in Groups
        /\ b \in Buckets /\ i \in Rows /\ Row = multi_grp[b][i] /\ Row \in RowTypes
        /\ Created(b, i) /\ Ip(b, i) = g /\ b = GroupHash[g] /\ Loaded = e - 1 /\ Filling
    BY <1>2, AtRow
  <1>4. /\ m \in 1 .. Len(mem) /\ v \in VMs /\ x \in Indexes /\ Idx(b, i) = x
        /\ Len(old) \in Nat /\ Len(part) \in Nat /\ Len(old) <= Len(part)
        /\ old \in Seq(VMs) /\ part \in Seq(VMs)
    <2>1. m \in 1 .. Len(mem)
      BY <1>1, <1>2
    <2>2. v \in VMs
      BY <1>3, <2>1
    <2>3. x \in Indexes /\ Idx(b, i) = x
      BY <1>3 DEF RowTypes, Idx
    <2>4. old \in Seq(VMs) /\ part \in Seq(VMs)
      BY <1>2 DEF Lists
    <2>5. Len(old) <= Len(part)
      BY <1>2 DEF Prefix
    <2>6. QED
      BY <2>1, <2>2, <2>3, <2>4, <2>5
  <1>5. /\ k + 1 \in 1 .. VmMax /\ k + 1 > Len(old) /\ m + 1 \in 1 .. Len(mem) + 1
        /\ (m + 1) - 1 = m
    <2>1. Len(old) + Len(mem) <= VmMax /\ Len(old) <= k /\ k <= Len(old) + m - 1
      BY <1>2, <1>4
    <2>2. Len(old) \in Nat /\ Len(mem) \in Nat /\ m \in 1 .. Len(mem) /\ k \in Nat
      BY <1>2, <1>4
    <2>3. QED
      BY <2>1, <2>2, NextPlace
  <1>6. (\E j \in 1 .. Row.cnt : multi_vm[Row.idx][j] = mem[m]) <=> v \in ToSet(old)
    <2>1. DOMAIN old = 1 .. Len(old)
      BY <1>4
    <2>2. v \in ToSet(old) <=> \E j \in 1 .. Len(old) : old[j] = v
      BY <2>1 DEF ToSet
    <2>3. (\E j \in 1 .. Len(old) : old[j] = v) <=> \E j \in 1 .. Len(old) : multi_vm[x][j] = v
      BY <1>2
    <2>4. (\E j \in 1 .. Row.cnt : multi_vm[Row.idx][j] = mem[m]) <=> \E j \in 1 .. Len(old) : multi_vm[x][j] = v
      <3>1. Row.cnt = Len(old)
        BY <1>2
      <3>2. QED
        BY <3>1
    <2>5. QED
      BY <2>2, <2>3, <2>4
  <1>7. /\ multi_vm' = IF v \in ToSet(old) THEN multi_vm ELSE [multi_vm EXCEPT ![x][k + 1] = v]
        /\ reload' = [reload EXCEPT !.m = m + 1, !.k = IF v \in ToSet(old) THEN k ELSE k + 1]
    BY <1>6 DEF AddsMember
  <1>8. /\ multi_vm' \in [Indexes -> [1 .. VmMax -> VMs \cup {Zero}]]
        /\ v \notin ToSet(old) => multi_vm'[x][k + 1] = v
        /\ \A y \in Indexes, j \in 1 .. VmMax : y # x \/ j # k + 1 => multi_vm'[y][j] = multi_vm[y][j]
    <2>1. CASE v \in ToSet(old)
      BY <1>7, <2>1 DEF TableInv, TableTypes
    <2>2. CASE v \notin ToSet(old)
      <3>1. multi_vm' = [multi_vm EXCEPT ![x][k + 1] = v]
        BY <1>7, <2>2
      <3> PICK p \in 1 .. VmMax : p = k + 1
        BY <1>5
      <3>2. multi_vm' = [multi_vm EXCEPT ![x][p] = v]
        BY <3>1
      <3>3. QED
        BY <1>4, <3>2 DEF TableInv, TableTypes
    <2>3. QED
      BY <2>1, <2>2
  <1>9. /\ reload'.pc = "list" /\ reload'.e = e /\ reload'.bucket = b /\ reload'.row = i
        /\ reload'.m = m + 1 /\ reload'.k = IF v \in ToSet(old) THEN k ELSE k + 1
        /\ reload' \in ReloadTypes
    <2>1. reload \in ReloadTypes /\ m + 1 \in Nat /\ (IF v \in ToSet(old) THEN k ELSE k + 1) \in 0 .. VmMax
      <3>1. reload \in ReloadTypes /\ k \in 0 .. VmMax
        BY DEF TableInv, TableTypes, ReloadTypes
      <3>2. k + 1 \in 0 .. VmMax /\ m + 1 \in Nat
        BY <1>2, <1>5
      <3>3. QED
        BY <3>1, <3>2
    <2>2. QED
      BY <1>1, <1>7, <2>1 DEF ReloadTypes
  <1>10. TableTypes'
    BY <1>1, <1>8, <1>9 DEF TableInv, TableTypes
  <1>11. /\ HasRow' /\ Filling' /\ Loaded' = Loaded /\ ~ReloadAt("port") /\ ~ReloadAt("port")'
         /\ \A c \in Buckets : Intact(c) /\ Intact(c)'
    BY <1>1, <1>3, <1>9 DEF HasRow, Filling, Loaded, ReloadAt, Intact
  <1>12. \A h \in Groups : Known(h) <=> Known(h)'
    BY <1>1, <1>2, <1>9, <1>11 DEF Known
  <1>13. \A c \in Buckets, j \in Rows :
           /\ Created(c, j)' = Created(c, j) /\ Ip(c, j)' = Ip(c, j) /\ Idx(c, j)' = Idx(c, j)
    BY <1>1 DEF Created, Ip, Idx
  <1>14. NoGaps' /\ RowsOwned' /\ RowsDistinct' /\ RowsComplete'
    BY <1>1, <1>11, <1>12, <1>13, ShapeStays
  <1>15. BitmapFits'
    BY <1>1, <1>2, <1>3, <1>9, <1>11 DEF TableInv, BitmapFits, ReloadAt
  <1>16. RowsRight'
    <2> SUFFICES ASSUME NEW c \in Buckets, NEW j \in Rows, Created(c, j)'
                 PROVE  Holds(c, j)' /\ HasPort(c, j)'
      BY DEF RowsRight
    <2>1. Created(c, j) /\ Holds(c, j) /\ HasPort(c, j)
      BY <1>13 DEF TableInv, RowsRight
    <2> PICK list : list = ListOf(cfg, Ip(c, j), Loaded)
      OBVIOUS
    <2>2. list \in Lists /\ Len(list) \in Nat /\ Len(list) <= VmMax
      <3>1. list \in Lists
        BY <1>3, EntryCounts
      <3>2. QED
        BY <3>1 DEF Lists
    <2>3. multi_grp[c][j].cnt = Len(list) /\ \A q \in 1 .. Len(list) : multi_vm[Idx(c, j)][q] = list[q]
      BY <2>1 DEF Holds
    <2>4. Idx(c, j) \in Indexes /\ \A q \in 1 .. Len(list) : q \in 1 .. VmMax
      BY <2>2, Sizes DEF TableInv, TableTypes, RowTypes, Idx
    <2>5. \A q \in 1 .. Len(list) : multi_vm'[Idx(c, j)][q] = list[q]
      <3>1. CASE c = b /\ j = i
        <4>1. Len(list) = Len(old) /\ \A q \in 1 .. Len(list) : q # k + 1
          <5>1. Len(list) = Len(old)
            BY <1>2, <1>3, <2>3, <3>1
          <5>2. \A q \in 1 .. Len(old) : q # k + 1
            BY <1>4, <1>5
          <5>3. QED
            BY <5>1, <5>2
        <4>2. QED
          BY <1>8, <2>3, <2>4, <4>1
      <3>2. CASE c # b \/ j # i
        <4>1. Idx(c, j) # x
          BY <1>3, <1>4, <2>1, <3>2 DEF TableInv, RowsDistinct
        <4>2. QED
          BY <1>8, <2>3, <2>4, <4>1
      <3>3. QED
        BY <3>1, <3>2
    <2>6. ListOf(cfg', Ip(c, j)', Loaded') = list
      BY <1>1, <1>11, <1>13
    <2>7. Holds(c, j)'
      BY <1>1, <1>13, <2>3, <2>5, <2>6 DEF Holds
    <2>8. HasPort(c, j)'
      BY <1>1, <1>11, <1>13, <2>1 DEF HasPort
    <2>9. QED
      BY <2>7, <2>8
  <1>17. Listing'
    <2> PICK new : new = Added(old, First(mem, m))
      OBVIOUS
    <2>1. new = IF v \in ToSet(old) THEN part ELSE Append(part, v)
      <3>1. mem \in Seq(VMs) /\ old \in Seq(VMs) /\ m \in 1 .. Len(mem)
        BY <1>3, <1>4
      <3>2. Added(old, First(mem, m)) = IF mem[m] \in ToSet(old) THEN Added(old, First(mem, m - 1))
                                        ELSE Append(Added(old, First(mem, m - 1)), mem[m])
        BY <3>1, AddedNext, ZenonT(30)
      <3>3. part = Added(old, First(mem, m - 1)) /\ v = mem[m] /\ new = Added(old, First(mem, m))
        BY <1>a
      <3>4. QED
        BY <3>2, <3>3, Zenon
    <2>2. reload'.k = Len(new) /\ \A j \in 1 .. Len(new) : multi_vm'[x][j] = new[j]
      <3>1. \A j \in 1 .. Len(part) : j \in 1 .. VmMax /\ j # k + 1
        <4>1. k = Len(part) /\ k \in Nat /\ k + 1 \in 1 .. VmMax /\ VmMax \in Nat
          BY <1>2, <1>4, <1>5, Sizes
        <4>2. QED
          BY <4>1
      <3>2. \A j \in 1 .. Len(part) : multi_vm'[x][j] = part[j]
        BY <1>2, <1>4, <1>8, <3>1
      <3>3. CASE v \in ToSet(old)
        BY <1>2, <1>9, <2>1, <3>2, <3>3
      <3>4. CASE v \notin ToSet(old)
        <4>1. /\ new = Append(part, v) /\ Len(new) = Len(part) + 1 /\ new[Len(part) + 1] = v
              /\ \A j \in 1 .. Len(part) : new[j] = part[j]
          BY <1>4, <2>1, <3>4
        <4>2. multi_vm'[x][Len(part) + 1] = v
          BY <1>2, <1>8, <3>4
        <4>3. \A j \in 1 .. Len(new) : j \in 1 .. Len(part) \/ j = Len(part) + 1
          BY <1>4, <4>1
        <4>4. \A j \in 1 .. Len(new) : multi_vm'[x][j] = new[j]
          BY <3>2, <4>1, <4>2, <4>3
        <4>5. reload'.k = Len(new)
          BY <1>2, <1>9, <3>4, <4>1
        <4>6. QED
          BY <4>4, <4>5
      <3>5. QED
        BY <3>3, <3>4
    <2>3. /\ Row'.idx = x /\ cfg'[reload'.e].members = mem /\ cfg'[reload'.e].ip = g
          /\ ListOf(cfg', cfg'[reload'.e].ip, reload'.e - 1) = old
          /\ First(cfg'[reload'.e].members, reload'.m - 1) = First(mem, m)
      <3>1. Row' = Row
        BY <1>1, <1>9 DEF Row
      <3>2. reload'.m - 1 = m
        BY <1>5, <1>9
      <3>3. QED
        BY <1>a, <1>1, <1>9, <3>1, <3>2
    <2>4. Len(mem) + Len(old) <= VmMax
      BY <1>2, <1>4, Limits
    <2>5. QED
      BY <1>5, <1>9, <2>2, <2>3, <2>4 DEF Listing
  <1>18. Position'
    <2>1. Has(cfg[reload.e].ip, reload.row)'
      BY <1>1, <1>3, <1>9 DEF Has, Created, Ip
    <2>2. QED
      BY <1>1, <1>3, <1>9, <1>11, <1>17, <2>1 DEF Position
  <1>19. RowsKept
    <2>1. Loaded <= Loaded'
      BY <1>3, <1>11
    <2>2. ASSUME NEW c \in Buckets, NEW j \in Rows, Created(c, j), NEW q \in 1 .. multi_grp[c][j].cnt
          PROVE  multi_vm'[Idx(c, j)][q] = multi_vm[Idx(c, j)][q]
      <3>1. Idx(c, j) \in Indexes /\ q \in 1 .. VmMax
        BY Sizes DEF TableInv, TableTypes, RowTypes, Idx
      <3>2. CASE c = b /\ j = i
        <4>1. q <= Len(old)
          <5>1. multi_grp[c][j].cnt = Len(old)
            BY <1>2, <1>3, <3>2
          <5>2. QED
            BY <1>4, <5>1
        <4>2. q # k + 1
          BY <1>4, <1>5, <3>1, <4>1
        <4>3. QED
          BY <1>8, <3>1, <4>2
      <3>3. CASE c # b \/ j # i
        <4>1. Idx(c, j) # x
          BY <1>3, <1>4, <2>2, <3>3 DEF TableInv, RowsDistinct
        <4>2. QED
          BY <1>8, <3>1, <4>1
      <3>4. QED
        BY <3>2, <3>3
    <2>3. QED
      BY <1>1, <1>11, <1>13, <2>1, <2>2 DEF RowsKept
  <1>20. QED
    BY <1>10, <1>14, <1>15, <1>16, <1>18, <1>19 DEF TableInv

LEMMA SetsCountTable ==
  ASSUME TableInv, SetsCount
  PROVE  TableInv' /\ RowsKept
  <1> PICK e, g, b, i, mem, m, k, x :
        /\ e = reload.e /\ g = cfg[e].ip /\ b = reload.bucket /\ i = reload.row
        /\ mem = cfg[e].members /\ m = reload.m /\ k = reload.k /\ x = Row.idx
    OBVIOUS
  <1> PICK old, part : old = OldList /\ part = PartList
    OBVIOUS
  <1>a. old = ListOf(cfg, g, e - 1) /\ part = Added(old, First(mem, m - 1))
    BY DEF OldList, PartList
  <1>1. /\ reload.pc = "list" /\ ReloadAt("list") /\ m > Len(mem)
        /\ multi_grp' = [multi_grp EXCEPT ![b][i] = [Row EXCEPT !.cnt = k]]
        /\ Entry(cfg, reload.e + 1)
        /\ UNCHANGED <<multi_vm, g_bitmap, cfg>>
    BY DEF SetsCount, SetRow, ReloadAt
  <1>2. /\ old \in Lists /\ part \in Lists /\ m \in 1 .. Len(mem) + 1 /\ Len(mem) \in Nat
        /\ Len(old) + Len(mem) <= VmMax
        /\ k = Len(part) /\ \A j \in 1 .. Len(part) : multi_vm[x][j] = part[j]
        /\ HasRow
    BY <1>1, AtList
  <1>3. /\ cfg \in Configs \cup {<<>>} /\ e \in 1 .. Len(cfg) /\ mem \in Seq(VMs) /\ g \in Groups
        /\ b \in Buckets /\ i \in Rows /\ Row = multi_grp[b][i] /\ Row \in RowTypes
        /\ Created(b, i) /\ Ip(b, i) = g /\ b = GroupHash[g] /\ Loaded = e - 1 /\ Filling
    BY <1>2, AtRow
  <1>4. part = Joined(old, cfg[e])
    <2>1. m - 1 = Len(mem) /\ old \in Seq(VMs)
      <3>1. m - 1 = Len(mem)
        BY <1>1, <1>2, SMTT(30)
      <3>2. QED
        BY <1>2, <3>1 DEF Lists
    <2>2. First(mem, m - 1) = mem
      BY <1>3, <2>1, AddedSteps
    <2>3. ~(Len(old) + Len(mem) > VmMax)
      <3>1. Len(old) \in Nat
        BY <2>1
      <3>2. QED
        BY <1>2, <3>1, Limits
    <2>4. QED
      BY <1>a, <2>2, <2>3 DEF Joined, Added
  <1>5. /\ reload' \in ReloadTypes /\ serving' \in BOOLEAN /\ Loaded' = e
        /\ ~ReloadAt("port")' /\ \A c \in Buckets : Intact(c) /\ Intact(c)'
        /\ \A h \in Groups : Known(h) <=> Known(h)'
        /\ BitmapFits' /\ Position'
    BY <1>1, <1>2, Advance
  <1>6. /\ multi_grp' \in [Buckets -> [Rows -> RowTypes]]
        /\ multi_grp'[b][i] = [Row EXCEPT !.cnt = k]
        /\ \A c \in Buckets, j \in Rows : c # b \/ j # i => multi_grp'[c][j] = multi_grp[c][j]
    <2> PICK row : row = [Row EXCEPT !.cnt = k]
      OBVIOUS
    <2>1. row \in RowTypes
      <3>1. k \in 0 .. VmMax
        BY DEF TableInv, TableTypes, ReloadTypes
      <3>2. QED
        BY <1>3, <3>1 DEF RowTypes
    <2>2. multi_grp' = [multi_grp EXCEPT ![b][i] = row]
      BY <1>1
    <2>3. QED
      BY <1>3, <2>1, <2>2 DEF TableInv, TableTypes
  <1>7. /\ multi_grp'[b][i].created = multi_grp[b][i].created /\ multi_grp'[b][i].ip = multi_grp[b][i].ip
        /\ multi_grp'[b][i].idx = multi_grp[b][i].idx /\ multi_grp'[b][i].port = multi_grp[b][i].port
        /\ multi_grp'[b][i].cnt = k
    BY <1>3, <1>6 DEF RowTypes
  <1>8. \A c \in Buckets, j \in Rows :
          /\ Created(c, j)' = Created(c, j) /\ Ip(c, j)' = Ip(c, j) /\ Idx(c, j)' = Idx(c, j)
          /\ multi_grp'[c][j].port = multi_grp[c][j].port
          /\ c # b \/ j # i => multi_grp'[c][j].cnt = multi_grp[c][j].cnt
    BY <1>6, <1>7 DEF Created, Ip, Idx
  <1>9. TableTypes'
    BY <1>1, <1>5, <1>6 DEF TableInv, TableTypes
  <1>10. NoGaps' /\ RowsOwned' /\ RowsDistinct' /\ RowsComplete'
    BY <1>1, <1>5, <1>8, ShapeStays
  <1>11. RowsRight'
    <2> SUFFICES ASSUME NEW c \in Buckets, NEW j \in Rows, Created(c, j)'
                 PROVE  Holds(c, j)' /\ HasPort(c, j)'
      BY DEF RowsRight
    <2>1. Created(c, j) /\ Holds(c, j) /\ HasPort(c, j)
      BY <1>8 DEF TableInv, RowsRight
    <2>2. ListOf(cfg', Ip(c, j)', Loaded') = ListOf(cfg, Ip(c, j), e)
      BY <1>1, <1>5, <1>8
    <2>3. Holds(c, j)'
      <3>1. CASE c = b /\ j = i
        <4>1. ListOf(cfg, g, e) = part
          BY <1>a, <1>3, <1>4, EntryCounts
        <4>2. multi_grp'[c][j].cnt = Len(part) /\ Idx(c, j)' = x /\ Ip(c, j) = g
          BY <1>2, <1>3, <1>7, <1>8, <3>1 DEF Idx
        <4>3. QED
          BY <1>1, <1>2, <2>2, <4>1, <4>2 DEF Holds
      <3>2. CASE c # b \/ j # i
        <4>1. Ip(c, j) # g
          BY <1>3, <2>1, <3>2 DEF TableInv, RowsDistinct
        <4>2. ListOf(cfg, Ip(c, j), e) = ListOf(cfg, Ip(c, j), Loaded)
          BY <1>3, <4>1, EntryCounts
        <4>3. ListOf(cfg', Ip(c, j)', Loaded') = ListOf(cfg, Ip(c, j), Loaded)
          BY <2>2, <4>2
        <4>4. QED
          BY <1>1, <1>8, <2>1, <3>2, <4>3 DEF Holds
      <3>3. QED
        BY <3>1, <3>2
    <2>4. HasPort(c, j)'
      BY <1>1, <1>8, <2>1 DEF HasPort, ReloadAt
    <2>5. QED
      BY <2>3, <2>4
  <1>12. RowsKept
    <2>1. Loaded <= Loaded'
      BY <1>3, <1>5
    <2>2. QED
      BY <1>1, <1>5, <1>8, <2>1 DEF RowsKept
  <1>13. QED
    BY <1>5, <1>9, <1>10, <1>11, <1>12 DEF TableInv

Fills == AppendsTo \/ TakesRow \/ SetsPort \/ ChecksLimit \/ AddsMember \/ SetsCount

LEMMA FillsTable ==
  ASSUME TableInv, Fills
  PROVE  TableInv' /\ RowsKept /\ ~ReloadAt("rest") /\ UNCHANGED worker
  <1>1. TableInv' /\ RowsKept
    BY AppendsToTable, TakesRowTable, SetsPortTable, ChecksLimitTable, AddsMemberTable, SetsCountTable DEF Fills
  <1>2. ~ReloadAt("rest") /\ UNCHANGED worker
    BY DEF Fills, AppendsTo, TakesRow, SetsPort, ChecksLimit, AddsMember, SetsCount, ReloadAt
  <1>3. QED
    BY <1>1, <1>2

LEMMA ReloadTable ==
  ASSUME TableInv, ReloadSteps
  PROVE  TableInv'
  BY FillsTable, RequestedTable, ClearsRowsTable, ClearsListsTable, ReadsFileTable
     DEF ReloadSteps, Fills

LEMMA InitTable ==
  ASSUME ForwardInit
  PROVE  TableInv
  <1>1. /\ multi_grp = [b \in Buckets |-> ZeroRows] /\ multi_vm = [i \in Indexes |-> ZeroList]
        /\ g_bitmap = {} /\ cfg = <<>> /\ serving = FALSE
        /\ reload = [pc |-> "file", bucket |-> 0, e |-> 1, row |-> 1, m |-> 1, k |-> 0]
    BY DEF ForwardInit, Buckets, Indexes
  <1>2. TableTypes
    <2>1. ZeroRows \in [Rows -> RowTypes] /\ ZeroList \in [1 .. VmMax -> VMs \cup {Zero}]
      BY Sizes DEF ZeroRows, ZeroRow, ZeroList, Rows, RowTypes, Indexes
    <2>2. reload \in ReloadTypes
      BY <1>1, Sizes DEF ReloadTypes, ReloadPcs, Buckets, Rows
    <2>3. QED
      BY <1>1, <2>1, <2>2 DEF TableTypes
  <1>3. \A b \in Buckets, i \in Rows : ~Created(b, i)
    BY <1>1 DEF Created, ZeroRows, ZeroRow, Rows
  <1>4. NoGaps /\ RowsOwned /\ RowsDistinct /\ RowsRight
    BY <1>3 DEF NoGaps, RowsOwned, RowsDistinct, RowsRight
  <1>5. ~Filling /\ ~HasRow /\ ~ReloadAt("port") /\ ~ReloadAt("list") /\ \A b : ~Intact(b)
    BY <1>1 DEF Filling, HasRow, ReloadAt, Intact
  <1>6. RowsComplete /\ BitmapFits /\ Position
    BY <1>1, <1>5 DEF RowsComplete, BitmapFits, Position
  <1>7. QED
    BY <1>2, <1>4, <1>6 DEF TableInv

-----------------------------------------------------------------------------
(* The workers                                                             *)

WorkerPcs == {"idle", "store", "find", "cnt", "idx", "port", "copy", "send", "socket"}
AnyPacket == Packets \cup {CHOOSE p \in Packets : TRUE}
WorkerTypes ==
  [pc : WorkerPcs, pkt : AnyPacket, row : 0 .. Depth, cnt : 0 .. VmMax, idx : Indexes, port : Nat,
   list : Seq(VMs \cup {Zero}), ctr : Counters, reg : Nat, next : {"idle", "find", "send", "socket"},
   mixed : BOOLEAN, during : BOOLEAN, want : Seq(Entries)]
CountTypes ==
  /\ count \in [Counters -> Nat] /\ leaked \in 0 .. FdMax /\ raced \in BOOLEAN
  /\ real \in [received : Nat, dropped : Nat, sent : Nat, failed : Nat]

\* Where a worker goes once a counter is stored.
After(c) == CASE c = "recv" -> "find" [] c = "drop" -> "idle" [] c = "forward" -> "send"
              [] c = "point" -> "socket"

Looking(w) == worker[w].pc \in {"cnt", "idx", "port", "copy"}
Shape(w) ==
  /\ worker[w].pc # "idle" => worker[w].pkt \in Packets
  /\ worker[w].pc # "store" => worker[w].next = "idle"
  /\ worker[w].pc = "store" => worker[w].next = After(worker[w].ctr)
  /\ Looking(w) => worker[w].row \in Rows
  /\ Len(worker[w].list) <= VmMax
  /\ worker[w].pc \in {"find", "cnt", "idx", "port"} => worker[w].list = <<>>

ShapeInv ==
  /\ worker \in [Workers -> WorkerTypes]
  /\ CountTypes
  /\ \A w \in Workers : Shape(w)

LEMMA IdleType ==
  /\ Idle \in WorkerTypes /\ Idle.pc = "idle" /\ Idle.next = "idle" /\ Idle.list = <<>>
  /\ Idle.during = FALSE /\ Idle.mixed = FALSE
  <1>1. 0 \in 0 .. Depth /\ 0 \in 0 .. VmMax /\ 0 \in Indexes /\ "recv" \in Counters
    BY Sizes DEF Indexes, Counters
  <1>2. QED
    BY <1>1 DEF Idle, WorkerTypes, WorkerPcs, AnyPacket

LEMMA PacketType ==
  ASSUME NEW p \in Packets
  PROVE  p.to \in Groups /\ p \in AnyPacket /\ GroupHash[p.to] \in Buckets
  BY Sizes, ForwardAssumption DEF ForwardAssumption, AnyPacket

LEMMA CountingType ==
  ASSUME CountTypes, NEW x \in WorkerTypes, NEW c \in Counters, x.pkt \in Packets,
         Len(x.list) <= VmMax, NEW next, next = After(c), NEW y, y = Counting(x, c, next)
  PROVE  /\ y \in WorkerTypes /\ y.pc = "store" /\ y.ctr = c /\ y.next = next /\ y.reg = count[c]
         /\ y.pkt = x.pkt /\ y.list = x.list /\ y.want = x.want /\ y.port = x.port
         /\ y.during = x.during /\ y.mixed = x.mixed
  <1>1. count[c] \in Nat /\ After(c) \in {"idle", "find", "send", "socket"}
    BY DEF CountTypes, Counters, After
  <1>2. QED
    BY <1>1 DEF Counting, WorkerTypes, WorkerPcs

\* The steps of w, as what they make of it.
LEMMA WorkerStays ==
  ASSUME ShapeInv, NEW w \in Workers, WorkerSteps(w)
  PROVE  UNCHANGED reloadVars /\ \A v \in Workers \ {w} : worker'[v] = worker[v]
  BY DEF ShapeInv, WorkerSteps, Receives, Stores, FindsNone, FindsRow, ReadsCount, ReadsIndex,
         ReadsPort, Copies, Ends, CountsFirst, Sends, SendFails, NoSocket, Done

LEMMA StepTo ==
  ASSUME ShapeInv, NEW w \in Workers, NEW y \in WorkerTypes, worker' = [worker EXCEPT ![w] = y]
  PROVE  /\ worker' \in [Workers -> WorkerTypes] /\ worker'[w] = y
         /\ \A v \in Workers \ {w} : worker'[v] = worker[v]
  BY DEF ShapeInv

LEMMA EntriesType ==
  ASSUME TableTypes, NEW g
  PROVE  EntryOf(g) = EntriesIn(cfg, g) /\ EntryOf(g) \in Seq(Entries)
  <1>1. cfg \in Seq(Entries) /\ Len(cfg) \in 0 .. Len(cfg)
    BY ConfigTypes DEF TableTypes
  <1>2. QED
    BY <1>1, EntriesOfSteps DEF EntryOf

LEMMA ReceivesShape ==
  ASSUME ShapeInv, NEW w \in Workers, NEW p \in Packets, Receives(w, p)
  PROVE  /\ worker' \in [Workers -> WorkerTypes] /\ CountTypes' /\ Shape(w)'
         /\ worker[w].pc = "idle" /\ worker'[w].pc = "store" /\ worker'[w].next = "find"
         /\ worker'[w].ctr = "recv" /\ worker'[w].reg = count["recv"]
         /\ worker'[w].during = ~ReloadAt("rest")
  <1> PICK x : x = [worker[w] EXCEPT !.pkt = p, !.during = ~ReloadAt("rest")]
    OBVIOUS
  <1> PICK y : y = Counting(x, "recv", "find")
    OBVIOUS
  <1>1. worker[w] \in WorkerTypes /\ Len(worker[w].list) <= VmMax /\ CountTypes /\ worker[w].pc = "idle"
    BY DEF ShapeInv, Shape, Receives, At
  <1>2. /\ x \in WorkerTypes /\ x.pkt = p /\ x.list = worker[w].list
        /\ x.during = ~ReloadAt("rest")
    BY <1>1, PacketType DEF WorkerTypes
  <1>3. /\ y \in WorkerTypes /\ y.pc = "store" /\ y.ctr = "recv" /\ y.next = "find" /\ y.pkt = p
        /\ y.reg = count["recv"] /\ y.list = worker[w].list /\ y.during = ~ReloadAt("rest")
    <2>1. "recv" \in Counters /\ After("recv") = "find"
      BY DEF Counters, After
    <2>2. Len(x.list) <= VmMax /\ x.pkt \in Packets
      BY <1>1, <1>2
    <2>3. /\ y \in WorkerTypes /\ y.pc = "store" /\ y.ctr = "recv" /\ y.next = "find"
          /\ y.reg = count["recv"] /\ y.pkt = x.pkt /\ y.list = x.list /\ y.during = x.during
      <3>1. count["recv"] \in Nat
        BY <1>1, <2>1 DEF CountTypes
      <3>2. y = [x EXCEPT !.pc = "store", !.ctr = "recv", !.reg = count["recv"], !.next = "find"]
        BY DEF Counting
      <3>3. x \in WorkerTypes /\ "store" \in WorkerPcs /\ "recv" \in Counters
        BY <1>2, <2>1 DEF WorkerPcs
      <3>4. QED
        BY <3>1, <3>2, <3>3, ZenonT(60) DEF WorkerTypes
    <2>4. QED
      BY <1>2, <2>3
  <1>4. worker' = [worker EXCEPT ![w] = y]
    BY DEF Receives
  <1>5. worker' \in [Workers -> WorkerTypes] /\ worker'[w] = y
    BY <1>3, <1>4, StepTo
  <1>6. CountTypes'
    BY <1>1 DEF Receives, CountTypes
  <1>7. Shape(w)'
    BY <1>1, <1>3, <1>5 DEF Shape, Looking, After
  <1>8. QED
    BY <1>1, <1>3, <1>5, <1>6, <1>7

LEMMA StoresShape ==
  ASSUME ShapeInv, NEW w \in Workers, Stores(w)
  PROVE  /\ worker' \in [Workers -> WorkerTypes] /\ CountTypes' /\ Shape(w)'
         /\ worker[w].pc = "store" /\ worker'[w].pc = worker[w].next /\ worker'[w].next = "idle"
         /\ worker[w].next = "find" => worker'[w].during = worker[w].during
  <1>1. worker[w] \in WorkerTypes /\ Shape(w) /\ CountTypes /\ worker[w].pc = "store"
    BY DEF ShapeInv, Stores, At
  <1> PICK y : y = CASE worker[w].next = "idle" -> Idle
                     [] worker[w].next = "find" ->
                          [Idle EXCEPT !.pc = "find", !.pkt = worker[w].pkt, !.during = worker[w].during]
                     [] OTHER -> [Idle EXCEPT !.pc = worker[w].next, !.pkt = worker[w].pkt, !.list = worker[w].list]
    OBVIOUS
  <1>2. /\ worker[w].pkt \in Packets /\ worker[w].pkt \in AnyPacket /\ worker[w].list \in Seq(VMs \cup {Zero})
        /\ Len(worker[w].list) <= VmMax /\ worker[w].next \in {"idle", "find", "send", "socket"}
        /\ worker[w].during \in BOOLEAN
    BY <1>1 DEF Shape, WorkerTypes
  <1>3. /\ y \in WorkerTypes /\ y.pc = worker[w].next /\ y.next = "idle" /\ Len(y.list) <= VmMax
        /\ y.pc # "idle" => y.pkt \in Packets
        /\ y.pc = "find" => y.list = <<>> /\ y.during = worker[w].during
    <2>1. CASE worker[w].next = "idle"
      <3>1. y = Idle
        BY <2>1
      <3>2. QED
        BY <2>1, <3>1, IdleType, Sizes
    <2>2. CASE worker[w].next = "find"
      <3>1. y = [Idle EXCEPT !.pc = "find", !.pkt = worker[w].pkt, !.during = worker[w].during]
        BY <2>2
      <3>2. /\ y \in WorkerTypes /\ y.pc = "find" /\ y.next = "idle" /\ y.pkt = worker[w].pkt
            /\ y.list = <<>> /\ y.during = worker[w].during
        BY <1>2, <3>1, IdleType DEF WorkerTypes, WorkerPcs
      <3>3. Len(<<>>) <= VmMax
        BY Sizes
      <3>4. QED
        BY <1>2, <2>2, <3>2, <3>3
    <2>3. CASE worker[w].next \in {"send", "socket"}
      <3>1. y = [Idle EXCEPT !.pc = worker[w].next, !.pkt = worker[w].pkt, !.list = worker[w].list]
        BY <2>3
      <3>2. /\ y \in WorkerTypes /\ y.pc = worker[w].next /\ y.next = "idle" /\ y.pkt = worker[w].pkt
            /\ y.list = worker[w].list
        BY <1>2, <2>3, <3>1, IdleType DEF WorkerTypes, WorkerPcs
      <3>3. QED
        BY <1>2, <2>3, <3>2
    <2>4. QED
      BY <1>2, <2>1, <2>2, <2>3
  <1>4. worker' = [worker EXCEPT ![w] = y]
    BY DEF Stores
  <1>5. worker' \in [Workers -> WorkerTypes] /\ worker'[w] = y
    BY <1>3, <1>4, StepTo
  <1>6. CountTypes'
    <2>1. count' = [count EXCEPT ![worker[w].ctr] = worker[w].reg + 1] /\ UNCHANGED <<leaked, real>>
      BY DEF Stores
    <2>2. worker[w].ctr \in Counters /\ worker[w].reg + 1 \in Nat
      BY <1>1 DEF WorkerTypes
    <2>3. raced' \in BOOLEAN
      BY <1>1 DEF Stores, CountTypes
    <2>4. QED
      BY <1>1, <2>1, <2>2, <2>3 DEF CountTypes
  <1>7. Shape(w)'
    <2>1. worker'[w].pc \in {"idle", "find", "send", "socket"}
      BY <1>2, <1>3, <1>5
    <2>2. QED
      BY <1>3, <1>5, <2>1 DEF Shape, Looking
  <1>8. QED
    BY <1>1, <1>3, <1>5, <1>6, <1>7, <1>2

LEMMA EndsShape ==
  ASSUME ShapeInv, NEW w \in Workers, Done(w)
  PROVE  worker' \in [Workers -> WorkerTypes] /\ Shape(w)' /\ worker'[w] = Idle
  <1>1. Idle \in WorkerTypes /\ worker' = [worker EXCEPT ![w] = Idle]
    BY IdleType DEF Done
  <1>2. worker' \in [Workers -> WorkerTypes] /\ worker'[w] = Idle
    BY <1>1, StepTo
  <1>3. Len(<<>>) <= VmMax
    BY Sizes
  <1>4. QED
    BY <1>2, <1>3, IdleType DEF Shape, Looking

LEMMA FindsNoneShape ==
  ASSUME ShapeInv, TableTypes, NEW w \in Workers, FindsNone(w)
  PROVE  /\ worker' \in [Workers -> WorkerTypes] /\ CountTypes' /\ Shape(w)'
         /\ worker[w].pc = "find" /\ worker[w].pkt \in Packets /\ RowOf(worker[w].pkt.to) = 0
         /\ worker'[w].pc = "store" /\ worker'[w].next = "idle"
         /\ worker'[w].ctr = "drop" /\ worker'[w].reg = count["drop"]
         /\ worker'[w].during = worker[w].during /\ worker'[w].mixed = worker[w].mixed
         /\ worker'[w].want = EntriesIn(cfg, worker[w].pkt.to)
  <1> PICK want : want = EntryOf(worker[w].pkt.to)
    OBVIOUS
  <1> PICK x : x = worker[w]
    OBVIOUS
  <1>1. x \in WorkerTypes /\ Shape(w) /\ CountTypes /\ x.pc = "find" /\ RowOf(x.pkt.to) = 0
    BY DEF ShapeInv, FindsNone, At
  <1>2. want \in Seq(Entries) /\ want = EntriesIn(cfg, x.pkt.to)
    BY EntriesType
  <1>3. x.pkt \in Packets /\ x.list = <<>> /\ count["drop"] \in Nat /\ "store" \in WorkerPcs /\ "drop" \in Counters
    BY <1>1 DEF Shape, CountTypes, Counters, WorkerPcs
  <1> PICK y : y = [x EXCEPT !.want = want, !.pc = "store", !.ctr = "drop",
                             !.reg = count["drop"], !.next = "idle"]
    OBVIOUS
  <1>4. /\ y \in WorkerTypes /\ y.pc = "store" /\ y.next = "idle" /\ y.ctr = "drop" /\ y.want = want
        /\ y.reg = count["drop"] /\ y.during = x.during /\ y.mixed = x.mixed /\ y.pkt = x.pkt
        /\ y.list = x.list
    BY <1>1, <1>2, <1>3 DEF WorkerTypes
  <1>5. worker' = [worker EXCEPT ![w] = y]
    <2>1. y = Counting([x EXCEPT !.want = want], "drop", "idle")
      BY <1>1 DEF Counting, WorkerTypes
    <2>2. QED
      BY <2>1 DEF FindsNone
  <1>6. worker' \in [Workers -> WorkerTypes] /\ worker'[w] = y
    BY <1>4, <1>5, StepTo
  <1>7. CountTypes'
    BY <1>1 DEF FindsNone, CountTypes
  <1>8. Shape(w)'
    <2>1. Len(<<>>) <= VmMax /\ After("drop") = "idle"
      BY Sizes DEF After
    <2>2. QED
      BY <1>3, <1>4, <1>6, <2>1 DEF Shape, Looking
  <1>9. QED
    BY <1>1, <1>2, <1>3, <1>4, <1>6, <1>7, <1>8

LEMMA FindsRowShape ==
  ASSUME ShapeInv, TableTypes, NoGaps, NEW w \in Workers, FindsRow(w)
  PROVE  /\ worker' \in [Workers -> WorkerTypes] /\ CountTypes' /\ Shape(w)'
         /\ worker[w].pc = "find" /\ worker'[w].pc = "cnt" /\ worker'[w].next = "idle"
         /\ worker'[w].pkt = worker[w].pkt /\ worker'[w].pkt \in Packets
         /\ worker'[w].row = RowOf(worker[w].pkt.to) /\ RowOf(worker[w].pkt.to) # 0
         /\ worker'[w].during = worker[w].during /\ worker'[w].mixed = FALSE
         /\ worker'[w].want = EntriesIn(cfg, worker[w].pkt.to)
  <1> PICK want : want = EntryOf(worker[w].pkt.to)
    OBVIOUS
  <1> PICK x : x = worker[w]
    OBVIOUS
  <1> PICK r : r = RowOf(x.pkt.to)
    OBVIOUS
  <1>1. x \in WorkerTypes /\ Shape(w) /\ CountTypes /\ x.pc = "find" /\ r # 0
    BY DEF ShapeInv, FindsRow, At
  <1>2. want \in Seq(Entries) /\ want = EntriesIn(cfg, x.pkt.to)
    BY EntriesType
  <1>3. x.pkt \in Packets /\ x.list = <<>> /\ x.next = "idle" /\ "cnt" \in WorkerPcs
    BY <1>1 DEF Shape, WorkerPcs
  <1>4. r \in 0 .. Depth /\ r \in Rows
    <2>1. x.pkt.to \in Groups
      BY <1>3, PacketType
    <2>2. QED
      BY <1>1, <2>1, RowOfType
  <1> PICK y : y = [x EXCEPT !.pc = "cnt", !.row = r, !.mixed = FALSE, !.want = want]
    OBVIOUS
  <1>5. /\ y \in WorkerTypes /\ y.pc = "cnt" /\ y.next = "idle" /\ y.want = want /\ y.mixed = FALSE
        /\ y.during = x.during /\ y.pkt = x.pkt /\ y.list = x.list /\ y.row = r
    BY <1>1, <1>2, <1>3, <1>4 DEF WorkerTypes
  <1>6. worker' = [worker EXCEPT ![w] = y]
    <2>1. worker' = [worker EXCEPT ![w] = [worker[w] EXCEPT !.pc = "cnt", !.row = RowOf(worker[w].pkt.to),
                                                    !.mixed = FALSE, !.want = EntryOf(worker[w].pkt.to)]]
      BY DEF FindsRow, ShapeInv
    <2>2. QED
      BY <2>1
  <1>7. worker' \in [Workers -> WorkerTypes] /\ worker'[w] = y
    BY <1>5, <1>6, StepTo
  <1>8. CountTypes'
    BY <1>1 DEF FindsRow, CountTypes, countVars
  <1>9. Shape(w)'
    <2>1. Len(<<>>) <= VmMax
      BY Sizes
    <2>2. QED
      BY <1>3, <1>4, <1>5, <1>7, <2>1 DEF Shape, Looking
  <1>10. QED
    BY <1>1, <1>2, <1>3, <1>5, <1>7, <1>8, <1>9

\* The row that a worker has stopped at.
LEMMA NodeType ==
  ASSUME ShapeInv, TableTypes, NEW w \in Workers, Looking(w)
  PROVE  /\ worker[w] \in WorkerTypes /\ worker[w].pkt \in Packets /\ worker[w].next = "idle"
         /\ worker[w].row \in Rows /\ GroupHash[worker[w].pkt.to] \in Buckets
         /\ worker[w].pkt.to \in Groups
         /\ Len(worker[w].list) <= VmMax /\ (worker[w].pc # "copy" => worker[w].list = <<>>)
         /\ NodeOf(w) \in RowTypes
  <1>1. /\ worker[w] \in WorkerTypes /\ worker[w].pkt \in Packets /\ worker[w].next = "idle"
        /\ worker[w].row \in Rows
        /\ Len(worker[w].list) <= VmMax /\ (worker[w].pc # "copy" => worker[w].list = <<>>)
    BY DEF ShapeInv, Shape, Looking
  <1>2. GroupHash[worker[w].pkt.to] \in Buckets /\ worker[w].pkt.to \in Groups
    BY <1>1, PacketType
  <1>3. QED
    BY <1>1, <1>2 DEF NodeOf, TableTypes

\* What a read from the row leaves alone.
Same(w) ==
  /\ worker'[w].pkt = worker[w].pkt /\ worker'[w].row = worker[w].row /\ worker'[w].next = worker[w].next
  /\ worker'[w].list = worker[w].list /\ worker'[w].want = worker[w].want
  /\ worker'[w].during = worker[w].during /\ worker'[w].mixed = worker[w].mixed

LEMMA ReadsShape ==
  ASSUME ShapeInv, TableTypes, NEW w \in Workers, Looking(w),
         worker' \in [Workers -> WorkerTypes], Looking(w)', Same(w), UNCHANGED countVars,
         worker[w].pc # "copy"
  PROVE  CountTypes' /\ Shape(w)'
  <1>1. CountTypes'
    BY DEF ShapeInv, CountTypes, countVars
  <1>2. worker'[w].list = <<>> /\ worker'[w].pkt \in Packets /\ worker'[w].row \in Rows /\ worker'[w].next = "idle"
    BY NodeType DEF Same
  <1>3. Len(<<>>) <= VmMax
    BY Sizes
  <1>4. QED
    BY <1>1, <1>2, <1>3 DEF Shape, Looking

LEMMA ReadsCountShape ==
  ASSUME ShapeInv, TableTypes, NEW w \in Workers, ReadsCount(w)
  PROVE  /\ worker' \in [Workers -> WorkerTypes] /\ CountTypes' /\ Shape(w)'
         /\ worker[w].pc = "cnt" /\ worker'[w].pc = "idx" /\ Same(w)
         /\ worker'[w].cnt = NodeOf(w).cnt
  <1>1. worker[w].pc = "cnt" /\ Looking(w) /\ UNCHANGED countVars
    BY DEF ReadsCount, At, Looking
  <1>2. worker[w] \in WorkerTypes /\ NodeOf(w).cnt \in 0 .. VmMax /\ "idx" \in WorkerPcs
    BY <1>1, NodeType DEF RowTypes, WorkerPcs
  <1> PICK c : c = NodeOf(w).cnt
    OBVIOUS
  <1> PICK y : y = [worker[w] EXCEPT !.pc = "idx", !.cnt = c]
    OBVIOUS
  <1>3. /\ y \in WorkerTypes /\ y.pc = "idx" /\ y.cnt = c
        /\ y.pkt = worker[w].pkt /\ y.row = worker[w].row /\ y.next = worker[w].next
        /\ y.list = worker[w].list /\ y.want = worker[w].want
        /\ y.during = worker[w].during /\ y.mixed = worker[w].mixed
    BY <1>2 DEF WorkerTypes
  <1>4. worker' = [worker EXCEPT ![w] = y]
    BY DEF ReadsCount, ShapeInv
  <1>5. worker' \in [Workers -> WorkerTypes] /\ worker'[w] = y
    BY <1>3, <1>4, StepTo
  <1>6. Same(w) /\ Looking(w)'
    BY <1>3, <1>5 DEF Same, Looking
  <1>7. CountTypes' /\ Shape(w)'
    BY <1>1, <1>5, <1>6, ReadsShape
  <1>8. QED
    BY <1>1, <1>3, <1>5, <1>6, <1>7

LEMMA ReadsIndexShape ==
  ASSUME ShapeInv, TableTypes, NEW w \in Workers, ReadsIndex(w)
  PROVE  /\ worker' \in [Workers -> WorkerTypes] /\ CountTypes' /\ Shape(w)'
         /\ worker[w].pc = "idx" /\ worker'[w].pc = "port" /\ Same(w)
         /\ worker'[w].idx = NodeOf(w).idx /\ worker'[w].cnt = worker[w].cnt
  <1>1. worker[w].pc = "idx" /\ Looking(w) /\ UNCHANGED countVars
    BY DEF ReadsIndex, At, Looking
  <1>2. worker[w] \in WorkerTypes /\ NodeOf(w).idx \in Indexes /\ "port" \in WorkerPcs
    BY <1>1, NodeType DEF RowTypes, WorkerPcs
  <1> PICK x : x = NodeOf(w).idx
    OBVIOUS
  <1> PICK y : y = [worker[w] EXCEPT !.pc = "port", !.idx = x]
    OBVIOUS
  <1>3. /\ y \in WorkerTypes /\ y.pc = "port" /\ y.idx = x /\ y.cnt = worker[w].cnt
        /\ y.pkt = worker[w].pkt /\ y.row = worker[w].row /\ y.next = worker[w].next
        /\ y.list = worker[w].list /\ y.want = worker[w].want
        /\ y.during = worker[w].during /\ y.mixed = worker[w].mixed
    BY <1>2 DEF WorkerTypes
  <1>4. worker' = [worker EXCEPT ![w] = y]
    BY DEF ReadsIndex, ShapeInv
  <1>5. worker' \in [Workers -> WorkerTypes] /\ worker'[w] = y
    BY <1>3, <1>4, StepTo
  <1>6. Same(w) /\ Looking(w)'
    BY <1>3, <1>5 DEF Same, Looking
  <1>7. CountTypes' /\ Shape(w)'
    BY <1>1, <1>5, <1>6, ReadsShape
  <1>8. QED
    BY <1>1, <1>3, <1>5, <1>6, <1>7

LEMMA ReadsPortShape ==
  ASSUME ShapeInv, TableTypes, NEW w \in Workers, ReadsPort(w)
  PROVE  /\ worker' \in [Workers -> WorkerTypes] /\ CountTypes' /\ Shape(w)'
         /\ worker[w].pc = "port" /\ worker'[w].pc = "copy" /\ Same(w)
         /\ worker'[w].port = NodeOf(w).port
         /\ worker'[w].cnt = worker[w].cnt /\ worker'[w].idx = worker[w].idx
         /\ worker[w].list = <<>>
  <1>1. worker[w].pc = "port" /\ Looking(w) /\ UNCHANGED countVars
    BY DEF ReadsPort, At, Looking
  <1>2. worker[w] \in WorkerTypes /\ NodeOf(w).port \in Nat /\ "copy" \in WorkerPcs /\ worker[w].list = <<>>
    BY <1>1, NodeType DEF RowTypes, WorkerPcs
  <1> PICK p : p = NodeOf(w).port
    OBVIOUS
  <1> PICK y : y = [worker[w] EXCEPT !.pc = "copy", !.port = p]
    OBVIOUS
  <1>3. /\ y \in WorkerTypes /\ y.pc = "copy" /\ y.port = p
        /\ y.cnt = worker[w].cnt /\ y.idx = worker[w].idx
        /\ y.pkt = worker[w].pkt /\ y.row = worker[w].row /\ y.next = worker[w].next
        /\ y.list = worker[w].list /\ y.want = worker[w].want
        /\ y.during = worker[w].during /\ y.mixed = worker[w].mixed
    BY <1>2 DEF WorkerTypes
  <1>4. worker' = [worker EXCEPT ![w] = y]
    BY DEF ReadsPort, ShapeInv
  <1>5. worker' \in [Workers -> WorkerTypes] /\ worker'[w] = y
    BY <1>3, <1>4, StepTo
  <1>6. Same(w) /\ Looking(w)'
    BY <1>3, <1>5 DEF Same, Looking
  <1>7. CountTypes' /\ Shape(w)'
    BY <1>1, <1>5, <1>6, ReadsShape
  <1>8. QED
    BY <1>1, <1>2, <1>3, <1>5, <1>6, <1>7

\* What the end of a walk leaves alone.
Kept(w) ==
  /\ worker'[w].pkt = worker[w].pkt /\ worker'[w].list = worker[w].list /\ worker'[w].want = worker[w].want
  /\ worker'[w].port = worker[w].port
  /\ worker'[w].during = worker[w].during /\ worker'[w].mixed = worker[w].mixed

LEMMA CopiesShape ==
  ASSUME ShapeInv, TableTypes, NEW w \in Workers, Copies(w), Len(worker[w].list) < worker[w].cnt
  PROVE  /\ worker' \in [Workers -> WorkerTypes] /\ CountTypes' /\ Shape(w)'
         /\ worker[w].pc = "copy" /\ worker'[w].pc = "copy"
         /\ worker'[w].list = Append(worker[w].list, multi_vm[worker[w].idx][Len(worker[w].list) + 1])
         /\ worker'[w].pkt = worker[w].pkt /\ worker'[w].row = worker[w].row
         /\ worker'[w].cnt = worker[w].cnt /\ worker'[w].idx = worker[w].idx
         /\ worker'[w].port = worker[w].port /\ worker'[w].want = worker[w].want
         /\ worker'[w].during = worker[w].during /\ worker'[w].mixed = worker[w].mixed
         /\ worker'[w].next = "idle"
  <1> PICK x : x = worker[w]
    OBVIOUS
  <1> PICK n : n = Len(x.list)
    OBVIOUS
  <1> PICK v : v = multi_vm[x.idx][n + 1]
    OBVIOUS
  <1> PICK y : y = [x EXCEPT !.list = Append(x.list, v)]
    OBVIOUS
  <1>1. x.pc = "copy" /\ Looking(w) /\ UNCHANGED countVars
    BY DEF Copies, At, Looking
  <1>2. x \in WorkerTypes /\ x.pkt \in Packets /\ x.next = "idle" /\ x.row \in Rows
    BY <1>1, NodeType
  <1>3. x.list \in Seq(VMs \cup {Zero}) /\ n \in Nat /\ x.idx \in Indexes /\ x.cnt \in 0 .. VmMax
    BY <1>2 DEF WorkerTypes
  <1>4. n + 1 \in 1 .. VmMax
    BY <1>3, Sizes, SMTT(30)
  <1>5. v \in VMs \cup {Zero}
    BY <1>3, <1>4 DEF TableTypes
  <1>6. Append(x.list, v) \in Seq(VMs \cup {Zero}) /\ Len(Append(x.list, v)) = n + 1
    BY <1>3, <1>5
  <1>7. /\ y \in WorkerTypes /\ y.pc = "copy" /\ y.list = Append(x.list, v)
        /\ y.pkt = x.pkt /\ y.row = x.row /\ y.cnt = x.cnt /\ y.idx = x.idx
        /\ y.port = x.port /\ y.want = x.want /\ y.during = x.during /\ y.mixed = x.mixed
        /\ y.next = "idle"
    BY <1>1, <1>2, <1>6 DEF WorkerTypes
  <1>8. worker' = [worker EXCEPT ![w] = y]
    BY DEF Copies
  <1>9. worker' \in [Workers -> WorkerTypes] /\ worker'[w] = y
    BY <1>7, <1>8, StepTo
  <1>10. CountTypes'
    BY <1>1 DEF ShapeInv, CountTypes, countVars
  <1>11. Shape(w)'
    <2>1. Len(y.list) <= VmMax
      BY <1>4, <1>6, <1>7
    <2>2. QED
      BY <1>2, <1>7, <1>9, <2>1 DEF Shape, Looking
  <1>12. QED
    BY <1>1, <1>7, <1>9, <1>10, <1>11

LEMMA CopiedShape ==
  ASSUME ShapeInv, TableTypes, NEW w \in Workers, Copies(w), ~(Len(worker[w].list) < worker[w].cnt)
  PROVE  /\ worker' \in [Workers -> WorkerTypes] /\ CountTypes' /\ Shape(w)'
         /\ worker[w].pc = "copy" /\ worker'[w].pc = "store" /\ Kept(w)
         /\ worker'[w].ctr = "forward" /\ worker'[w].next = "send" /\ worker'[w].reg = count["forward"]
  <1> PICK x : x = worker[w]
    OBVIOUS
  <1> PICK y : y = [x EXCEPT !.pc = "store", !.ctr = "forward", !.reg = count["forward"], !.next = "send"]
    OBVIOUS
  <1>1. x.pc = "copy" /\ Looking(w) /\ UNCHANGED countVars
    BY DEF Copies, At, Looking
  <1>2. x \in WorkerTypes /\ x.pkt \in Packets /\ Len(x.list) <= VmMax
    BY <1>1, NodeType
  <1>3. count["forward"] \in Nat /\ "store" \in WorkerPcs /\ "forward" \in Counters
    BY DEF ShapeInv, CountTypes, Counters, WorkerPcs
  <1>4. /\ y \in WorkerTypes /\ y.pc = "store" /\ y.ctr = "forward" /\ y.next = "send"
        /\ y.reg = count["forward"] /\ y.pkt = x.pkt /\ y.list = x.list /\ y.want = x.want
        /\ y.port = x.port /\ y.during = x.during /\ y.mixed = x.mixed
    BY <1>2, <1>3 DEF WorkerTypes
  <1>5. worker' = [worker EXCEPT ![w] = y]
    BY DEF Copies, Counting
  <1>6. worker' \in [Workers -> WorkerTypes] /\ worker'[w] = y
    BY <1>4, <1>5, StepTo
  <1>7. CountTypes'
    BY <1>1 DEF ShapeInv, CountTypes, countVars
  <1>8. Shape(w)'
    <2>1. After("forward") = "send"
      BY DEF After
    <2>2. QED
      BY <1>2, <1>4, <1>6, <2>1 DEF Shape, Looking
  <1>9. QED
    BY <1>1, <1>4, <1>6, <1>7, <1>8 DEF Kept

LEMMA CountsFirstShape ==
  ASSUME ShapeInv, NEW w \in Workers, CountsFirst(w)
  PROVE  /\ worker' \in [Workers -> WorkerTypes] /\ CountTypes' /\ Shape(w)'
         /\ worker[w].pc = "send" /\ worker'[w].pc = "store" /\ worker'[w].next = "socket"
         /\ worker'[w].ctr = "point" /\ worker'[w].reg = count["point"]
  <1> PICK x : x = worker[w]
    OBVIOUS
  <1> PICK y : y = [x EXCEPT !.pc = "store", !.ctr = "point", !.reg = count["point"], !.next = "socket"]
    OBVIOUS
  <1>1. x.pc = "send" /\ UNCHANGED countVars
    BY DEF CountsFirst, At
  <1>2. x \in WorkerTypes /\ x.pkt \in Packets /\ Len(x.list) <= VmMax
    BY <1>1 DEF ShapeInv, Shape
  <1>3. count["point"] \in Nat /\ "store" \in WorkerPcs /\ "point" \in Counters
    BY DEF ShapeInv, CountTypes, Counters, WorkerPcs
  <1>4. /\ y \in WorkerTypes /\ y.pc = "store" /\ y.ctr = "point" /\ y.next = "socket"
        /\ y.reg = count["point"] /\ y.pkt = x.pkt /\ y.list = x.list
    BY <1>2, <1>3 DEF WorkerTypes
  <1>5. worker' = [worker EXCEPT ![w] = y]
    BY DEF CountsFirst, Counting
  <1>6. worker' \in [Workers -> WorkerTypes] /\ worker'[w] = y
    BY <1>4, <1>5, StepTo
  <1>7. CountTypes'
    BY <1>1 DEF ShapeInv, CountTypes, countVars
  <1>8. Shape(w)'
    <2>1. After("point") = "socket"
      BY DEF After
    <2>2. QED
      BY <1>2, <1>4, <1>6, <2>1 DEF Shape, Looking
  <1>9. QED
    BY <1>1, <1>4, <1>6, <1>7, <1>8

LEMMA SendsShape ==
  ASSUME ShapeInv, NEW w \in Workers, Sends(w)
  PROVE  /\ worker' \in [Workers -> WorkerTypes] /\ CountTypes' /\ Shape(w)'
         /\ worker[w].pc = "socket" /\ worker'[w].pc = "send" /\ worker'[w].next = "idle"
         /\ real'.received = real.received /\ real'.dropped = real.dropped
         /\ real'.sent = real.sent + 1 /\ real'.failed = real.failed
  <1> PICK x : x = worker[w]
    OBVIOUS
  <1> PICK rest : rest = Tail(x.list)
    OBVIOUS
  <1> PICK y : y = [x EXCEPT !.list = rest, !.pc = "send"]
    OBVIOUS
  <1>1. x.pc = "socket"
    BY DEF Sends, At
  <1>2. x \in WorkerTypes /\ x.pkt \in Packets /\ Len(x.list) <= VmMax /\ x.next = "idle"
    BY <1>1 DEF ShapeInv, Shape
  <1>3. Tail(x.list) \in Seq(VMs \cup {Zero}) /\ Len(Tail(x.list)) <= VmMax /\ "send" \in WorkerPcs
    <2>1. x.list \in Seq(VMs \cup {Zero})
      BY <1>2 DEF WorkerTypes
    <2>2. CASE x.list = <<>>
      BY <1>2, <2>2, Sizes DEF WorkerPcs
    <2>3. CASE x.list # <<>>
      <3>1. Tail(x.list) \in Seq(VMs \cup {Zero}) /\ Len(Tail(x.list)) = Len(x.list) - 1
        BY <2>1, <2>3
      <3>2. Len(x.list) \in Nat
        BY <2>1
      <3>3. QED
        BY <1>2, <3>1, <3>2, Sizes DEF WorkerPcs
    <2>4. QED
      BY <2>2, <2>3
  <1>4. y \in WorkerTypes /\ y.pc = "send" /\ y.next = "idle" /\ y.pkt = x.pkt /\ y.list = rest
    BY <1>2, <1>3 DEF WorkerTypes
  <1>5. worker' = [worker EXCEPT ![w] = y]
    BY DEF Sends, ShapeInv
  <1>6. worker' \in [Workers -> WorkerTypes] /\ worker'[w] = y
    BY <1>4, <1>5, StepTo
  <1>7. /\ CountTypes' /\ real'.received = real.received /\ real'.dropped = real.dropped
        /\ real'.sent = real.sent + 1 /\ real'.failed = real.failed
    BY DEF ShapeInv, Sends, CountTypes
  <1>8. Shape(w)'
    BY <1>2, <1>3, <1>4, <1>6 DEF Shape, Looking
  <1>9. QED
    BY <1>1, <1>4, <1>6, <1>7, <1>8

LEMMA FailsShape ==
  ASSUME ShapeInv, NEW w \in Workers, SendFails(w) \/ NoSocket(w)
  PROVE  /\ worker' \in [Workers -> WorkerTypes] /\ CountTypes' /\ Shape(w)' /\ worker'[w] = Idle
         /\ worker[w].pc = "socket" /\ UNCHANGED <<count, raced>>
         /\ real'.received = real.received /\ real'.dropped = real.dropped
         /\ real'.sent = real.sent /\ real'.failed = real.failed + 1
  <1>1. Done(w) /\ worker[w].pc = "socket" /\ UNCHANGED <<count, raced>>
    BY DEF SendFails, NoSocket, At
  <1>2. worker' \in [Workers -> WorkerTypes] /\ Shape(w)' /\ worker'[w] = Idle
    BY <1>1, EndsShape
  <1>3. leaked' \in 0 .. FdMax
    BY ForwardAssumption DEF SendFails, NoSocket, ShapeInv, CountTypes, ForwardAssumption
  <1>4. real' = [real EXCEPT !.failed = @ + 1]
    BY DEF SendFails, NoSocket
  <1>5. /\ real' \in [received : Nat, dropped : Nat, sent : Nat, failed : Nat]
        /\ real'.received = real.received /\ real'.dropped = real.dropped
        /\ real'.sent = real.sent /\ real'.failed = real.failed + 1
    BY <1>4 DEF ShapeInv, CountTypes
  <1>6. CountTypes'
    BY <1>1, <1>3, <1>5 DEF ShapeInv, CountTypes
  <1>7. QED
    BY <1>1, <1>2, <1>5, <1>6

LEMMA WorkerShape ==
  ASSUME ShapeInv, TableTypes, NoGaps, NEW w \in Workers, WorkerSteps(w)
  PROVE  ShapeInv'
  <1>1. worker' \in [Workers -> WorkerTypes] /\ CountTypes' /\ Shape(w)'
    <2>1. CASE \E p \in Packets : Receives(w, p)
      BY <2>1, ReceivesShape
    <2>2. CASE Stores(w)
      BY <2>2, StoresShape
    <2>3. CASE FindsNone(w) \/ FindsRow(w)
      BY <2>3, FindsNoneShape, FindsRowShape
    <2>4. CASE ReadsCount(w) \/ ReadsIndex(w) \/ ReadsPort(w)
      BY <2>4, ReadsCountShape, ReadsIndexShape, ReadsPortShape
    <2>5. CASE Copies(w)
      BY <2>5, CopiesShape, CopiedShape
    <2>6. CASE Ends(w)
      <3>1. CountTypes'
        BY <2>6 DEF Ends, ShapeInv, CountTypes, countVars
      <3>2. Done(w)
        BY <2>6 DEF Ends
      <3>3. QED
        BY <3>1, <3>2, EndsShape
    <2>7. CASE CountsFirst(w)
      BY <2>7, CountsFirstShape
    <2>8. CASE Sends(w)
      BY <2>8, SendsShape
    <2>9. CASE SendFails(w) \/ NoSocket(w)
      BY <2>9, FailsShape
    <2>10. QED
      BY <2>1, <2>2, <2>3, <2>4, <2>5, <2>6, <2>7, <2>8, <2>9 DEF WorkerSteps
  <1>2. ASSUME NEW v \in Workers PROVE Shape(v)'
    <2>1. CASE v = w
      BY <1>1, <2>1
    <2>2. CASE v # w
      <3>1. worker'[v] = worker[v]
        BY <2>2, WorkerStays
      <3>2. QED
        BY <3>1 DEF ShapeInv, Shape, Looking
    <2>3. QED
      BY <2>1, <2>2
  <1>3. QED
    BY <1>1, <1>2 DEF ShapeInv

\* The reload thread marks the workers, and does not touch them otherwise.
Marked(w) ==
  /\ worker'[w].pc = worker[w].pc /\ worker'[w].next = worker[w].next /\ worker'[w].ctr = worker[w].ctr
  /\ worker'[w].reg = worker[w].reg
  /\ worker'[w].pkt = worker[w].pkt /\ worker'[w].list = worker[w].list /\ worker'[w].want = worker[w].want
  /\ worker'[w].port = worker[w].port /\ worker'[w].row = worker[w].row /\ worker'[w].idx = worker[w].idx
  /\ worker'[w].cnt = worker[w].cnt

LEMMA Marks ==
  ASSUME ShapeInv, ReloadSteps
  PROVE  /\ worker' \in [Workers -> WorkerTypes] /\ UNCHANGED countVars
         /\ \A w \in Workers :
              /\ Marked(w)
              /\ worker'[w].during = (worker[w].during \/ (ReloadRequested /\ LooksUp(w)))
              /\ worker'[w].mixed = (worker[w].mixed \/ (ClearsRows /\ LooksUp(w)))
  <1>1. \A w \in Workers : worker[w] \in WorkerTypes
    BY DEF ShapeInv
  <1>2. CASE ReloadRequested
    <2>1. /\ ~ClearsRows /\ UNCHANGED countVars
          /\ worker' = [w \in Workers |-> [worker[w] EXCEPT !.during = @ \/ LooksUp(w)]]
      BY <1>2 DEF ReloadRequested, ClearsRows, ReloadAt
    <2>2. ASSUME NEW w \in Workers
          PROVE  /\ worker'[w] \in WorkerTypes /\ Marked(w)
                 /\ worker'[w].during = (worker[w].during \/ LooksUp(w)) /\ worker'[w].mixed = worker[w].mixed
      <3>1. PICK b \in BOOLEAN : b = (worker[w].during \/ LooksUp(w))
        OBVIOUS
      <3>2. worker'[w] = [worker[w] EXCEPT !.during = b]
        BY <2>1, <3>1, Zenon
      <3>3. /\ worker'[w] \in WorkerTypes /\ Marked(w) /\ worker'[w].during = b
            /\ worker'[w].mixed = worker[w].mixed
        BY <1>1, <3>2 DEF WorkerTypes, Marked
      <3>4. QED
        BY <3>1, <3>3
    <2>3. QED
      BY <1>1, <1>2, <2>1, <2>2, ZenonT(60) DEF WorkerTypes
  <1>3. CASE ClearsRows
    <2>1. /\ ~ReloadRequested /\ UNCHANGED countVars
          /\ worker' = [w \in Workers |-> [worker[w] EXCEPT !.mixed = @ \/ LooksUp(w)]]
      BY <1>3 DEF ReloadRequested, ClearsRows, ReloadAt
    <2>2. ASSUME NEW w \in Workers
          PROVE  /\ worker'[w] \in WorkerTypes /\ Marked(w)
                 /\ worker'[w].mixed = (worker[w].mixed \/ LooksUp(w)) /\ worker'[w].during = worker[w].during
      <3>1. PICK b \in BOOLEAN : b = (worker[w].mixed \/ LooksUp(w))
        OBVIOUS
      <3>2. worker'[w] = [worker[w] EXCEPT !.mixed = b]
        BY <2>1, <3>1, Zenon
      <3>3. /\ worker'[w] \in WorkerTypes /\ Marked(w) /\ worker'[w].mixed = b
            /\ worker'[w].during = worker[w].during
        BY <1>1, <3>2 DEF WorkerTypes, Marked
      <3>4. QED
        BY <3>1, <3>3
    <2>3. QED
      BY <1>1, <1>3, <2>1, <2>2, ZenonT(60) DEF WorkerTypes
  <1>4. CASE ~ReloadRequested /\ ~ClearsRows
    <2>1. UNCHANGED <<worker, countVars>>
      BY <1>4 DEF ReloadSteps, ClearsLists, ReadsFile, AppendsTo, TakesRow, SetsPort, ChecksLimit,
                  AddsMember, SetsCount
    <2>2. worker' \in [Workers -> WorkerTypes] /\ UNCHANGED countVars /\ \A w \in Workers : Marked(w)
      BY <2>1 DEF ShapeInv, Marked
    <2>3. \A w \in Workers : worker[w].during \in BOOLEAN /\ worker[w].mixed \in BOOLEAN
      BY <1>1 DEF WorkerTypes
    <2>4. QED
      BY <1>4, <2>1, <2>2, <2>3
  <1>5. QED
    BY <1>2, <1>3, <1>4

LEMMA ReloadShape ==
  ASSUME ShapeInv, ReloadSteps
  PROVE  ShapeInv'
  <1>1. worker' \in [Workers -> WorkerTypes] /\ CountTypes'
    BY Marks DEF ShapeInv, CountTypes, countVars
  <1>2. \A w \in Workers : Shape(w)'
    BY Marks DEF Marked, ShapeInv, Shape, Looking
  <1>3. QED
    BY <1>1, <1>2 DEF ShapeInv

LEMMA InitShape ==
  ASSUME ForwardInit
  PROVE  ShapeInv
  <1>1. worker = [w \in Workers |-> Idle] /\ Len(<<>>) <= VmMax
    BY Sizes DEF ForwardInit
  <1>2. worker \in [Workers -> WorkerTypes] /\ \A w \in Workers : Shape(w)
    BY <1>1, IdleType DEF Shape, Looking
  <1>3. CountTypes
    BY ForwardAssumption DEF ForwardInit, CountTypes, ForwardAssumption
  <1>4. QED
    BY <1>2, <1>3 DEF ShapeInv

-----------------------------------------------------------------------------

BaseInv == TableInv /\ ShapeInv

LEMMA TableUnchanged ==
  ASSUME TableInv, UNCHANGED reloadVars
  PROVE  TableInv' /\ (\A b : Intact(b)' <=> Intact(b)) /\ Loaded' = Loaded
  <1>1. UNCHANGED <<multi_grp, multi_vm, g_bitmap, reload, cfg, serving>>
    BY DEF reloadVars, tableVars
  <1>2. /\ \A b : Intact(b)' <=> Intact(b)
        /\ Loaded' = Loaded /\ (Filling' <=> Filling) /\ (HasRow' <=> HasRow)
        /\ ReloadAt("port")' <=> ReloadAt("port")
        /\ ReloadAt("list")' <=> ReloadAt("list")
        /\ ReloadAt("file")' <=> ReloadAt("file")
    BY <1>1 DEF Intact, Loaded, Filling, HasRow, ReloadAt
  <1>3. \A b, i : Created(b, i)' = Created(b, i) /\ Ip(b, i)' = Ip(b, i) /\ Idx(b, i)' = Idx(b, i)
    BY <1>1 DEF Created, Ip, Idx
  <1>4. \A g, i : Has(g, i)' <=> Has(g, i)
    BY <1>3 DEF Has
  <1>5. TableTypes'
    BY <1>1 DEF TableInv, TableTypes
  <1>6. NoGaps' /\ RowsDistinct' /\ RowsOwned'
    BY <1>1, <1>2, <1>3 DEF TableInv, NoGaps, RowsDistinct, RowsOwned
  <1>7. BitmapFits'
    BY <1>1, <1>2 DEF TableInv, BitmapFits
  <1>8. RowsComplete'
    <2>1. \A g : Known(g)' <=> Known(g)
      BY <1>1, <1>2 DEF Known
    <2>2. QED
      BY <1>2, <1>4, <2>1 DEF TableInv, RowsComplete
  <1>9. RowsRight'
    <2>1. \A b, i : (Holds(b, i)' <=> Holds(b, i)) /\ (HasPort(b, i)' <=> HasPort(b, i))
      BY <1>1, <1>2, <1>3 DEF Holds, HasPort
    <2>2. QED
      BY <1>3, <2>1 DEF TableInv, RowsRight
  <1>10. Position'
    <2>1. Listing' <=> Listing
      BY <1>1 DEF Listing, Row
    <2>2. QED
      BY <1>1, <1>2, <1>4, <2>1 DEF TableInv, Position
  <1>11. QED
    BY <1>2, <1>5, <1>6, <1>7, <1>8, <1>9, <1>10 DEF TableInv

LEMMA BaseStep ==
  ASSUME BaseInv, [ForwardNext]_forwardVars
  PROVE  BaseInv'
  <1>1. CASE ReloadSteps
    BY <1>1, ReloadTable, ReloadShape DEF BaseInv
  <1>2. CASE \E w \in Workers : WorkerSteps(w)
    <2>1. UNCHANGED reloadVars
      BY <1>2, WorkerStays DEF BaseInv
    <2>2. TableInv'
      BY <2>1, TableUnchanged DEF BaseInv
    <2>3. ShapeInv'
      BY <1>2, WorkerShape DEF BaseInv, TableInv
    <2>4. QED
      BY <2>2, <2>3 DEF BaseInv
  <1>3. CASE UNCHANGED forwardVars
    <2>1. TableInv'
      BY <1>3, TableUnchanged DEF BaseInv, forwardVars
    <2>2. ShapeInv'
      BY <1>3 DEF BaseInv, ShapeInv, CountTypes, Shape, Looking, forwardVars, countVars
    <2>3. QED
      BY <2>1, <2>2 DEF BaseInv
  <1>4. QED
    BY <1>1, <1>2, <1>3 DEF ForwardNext

\* The rows, the lists, the cursor of the load and what the workers hold have their types: no
\* index leaves multi_vm, no list grows past MULTI_VM_MAX.
THEOREM ForwardTypes == ForwardSpec => []ForwardTypeOK
  <1>1. ForwardInit => BaseInv
    BY InitTable, InitShape DEF BaseInv
  <1>2. BaseInv /\ [ForwardNext]_forwardVars => BaseInv'
    BY BaseStep
  <1>3. BaseInv => ForwardTypeOK
    <2> SUFFICES ASSUME BaseInv PROVE ForwardTypeOK
      OBVIOUS
    <2>1. TableTypes /\ ShapeInv
      BY DEF BaseInv, TableInv
    <2>2. ASSUME NEW b \in DOMAIN multi_grp, NEW i \in 1 .. Depth
          PROVE  /\ multi_grp[b][i].ip \in Groups \cup {Zero} /\ multi_grp[b][i].idx \in 0 .. GrpMax - 1
                 /\ multi_grp[b][i].cnt \in 0 .. VmMax /\ multi_grp[b][i].created \in BOOLEAN
                 /\ multi_grp[b][i].port \in Nat
      BY <2>1 DEF TableTypes, Rows, RowTypes, Indexes
    <2>3. /\ multi_vm \in [0 .. GrpMax - 1 -> [1 .. VmMax -> VMs \cup {Zero}]]
          /\ g_bitmap \subseteq 0 .. GrpMax - 1
          /\ reload.row \in 1 .. Depth /\ reload.k \in 0 .. VmMax
      BY <2>1 DEF TableTypes, ReloadTypes, Rows, Indexes
    <2>4. ASSUME NEW w \in Workers
          PROVE  /\ worker[w].list \in Seq(VMs \cup {Zero}) /\ Len(worker[w].list) <= VmMax
                 /\ worker[w].cnt \in 0 .. VmMax /\ worker[w].idx \in 0 .. GrpMax - 1
      BY <2>1 DEF ShapeInv, Shape, WorkerTypes, Indexes
    <2>5. count \in [Counters -> Nat] /\ leaked \in 0 .. FdMax
      BY <2>1 DEF ShapeInv, CountTypes
    <2>6. QED
      BY <2>2, <2>3, <2>4, <2>5 DEF ForwardTypeOK
  <1>4. QED
    BY <1>1, <1>2, <1>3, PTL DEF ForwardSpec

-----------------------------------------------------------------------------
(* What a lookup has found                                                 *)

\* While nothing is cleared, the row that w has stopped at stays its group's, the number it has
\* read is that of the members which the row had at some time, and the members it has copied
\* are the first of these.
Sees(w) ==
  LET x == worker[w]
      b == GroupHash[x.pkt.to]
  IN  /\ Intact(b) /\ Has(x.pkt.to, x.row)
      /\ x.want = EntriesIn(cfg, x.pkt.to)
      /\ x.pc # "cnt" => \E d \in 0 .. Loaded : /\ x.cnt = Len(ListOf(cfg, x.pkt.to, d))
                                                /\ x.during \/ d = Len(cfg)
      /\ x.pc \in {"port", "copy"} => x.idx = Idx(b, x.row)
      /\ x.pc = "copy" => /\ (x.cnt = 0 /\ x.during) \/ x.port = x.want[1].port
                          /\ Len(x.list) <= x.cnt
                          /\ \A j \in 1 .. Len(x.list) : x.list[j] = multi_vm[x.idx][j]

\* What w has found when it has found out.
Ended(w) ==
  LET x == worker[w] IN
  /\ At(w, "store") /\ x.ctr = "drop" => x.during \/ x.want = <<>>
  /\ Copied(w) =>
       /\ x.during \/ (x.want # <<>> /\ HasEntries(w, Len(x.want)))
       /\ x.mixed \/ x.list = <<>> \/ \E k \in DOMAIN x.want : HasEntries(w, k)

Walks(w) ==
  /\ LooksUp(w) => worker[w].during \/ ReloadAt("rest")
  /\ Looking(w) => worker[w].during \/ ~worker[w].mixed
  /\ Looking(w) => worker[w].mixed \/ Sees(w)
  /\ Ended(w)

WalkInv == \A w \in Workers : Walks(w)

LEMMA RowCount == \A r \in RowTypes : r.cnt \in Nat
  BY Sizes DEF RowTypes

LEMMA WorkerCount == \A r \in WorkerTypes : r.cnt \in Nat /\ r.list \in Seq(VMs \cup {Zero})
  BY DEF WorkerTypes

LEMMA ListSeen ==
  ASSUME TableInv, NEW g \in Groups, NEW i \in Rows, Has(g, i), NEW d \in 0 .. Loaded
  PROVE  /\ ListOf(cfg, g, d) \in Lists
         /\ Len(ListOf(cfg, g, d)) <= multi_grp[GroupHash[g]][i].cnt
         /\ \A j \in 1 .. Len(ListOf(cfg, g, d)) :
              multi_vm[Idx(GroupHash[g], i)][j] = ListOf(cfg, g, d)[j]
  <1> PICK n : n = Loaded
    OBVIOUS
  <1>1. GroupHash[g] \in Buckets /\ Created(GroupHash[g], i) /\ Ip(GroupHash[g], i) = g
    BY Sizes DEF Has
  <1>2. Holds(GroupHash[g], i)
    BY <1>1 DEF TableInv, RowsRight
  <1>3. /\ multi_grp[GroupHash[g]][i].cnt = Len(ListOf(cfg, g, n))
        /\ \A j \in 1 .. Len(ListOf(cfg, g, n)) :
             multi_vm[Idx(GroupHash[g], i)][j] = ListOf(cfg, g, n)[j]
    BY <1>1, <1>2 DEF Holds
  <1>4. cfg \in Seq(Entries) /\ Len(cfg) \in Nat
    BY ConfigTypes DEF TableInv, TableTypes
  <1>5. n \in 0 .. Len(cfg)
    BY LoadedTypes DEF TableInv
  <1>6. d \in 0 .. Len(cfg) /\ d <= n
    BY <1>4, <1>5
  <1>7. ListOf(cfg, g, d) \in Lists /\ ListOf(cfg, g, n) \in Lists
    BY <1>4, <1>5, <1>6, ListOfSteps
  <1>8. Prefix(ListOf(cfg, g, d), ListOf(cfg, g, n))
    BY <1>4, <1>5, <1>6, ListOfPrefix
  <1> PICK s, t : s = ListOf(cfg, g, d) /\ t = ListOf(cfg, g, n)
    OBVIOUS
  <1>9. Len(s) <= Len(t) /\ \A j \in 1 .. Len(s) : j \in 1 .. Len(t) /\ s[j] = t[j]
    <2>1. Len(s) \in Nat /\ Len(t) \in Nat
      BY <1>7 DEF Lists
    <2>2. Len(s) <= Len(t) /\ \A j \in 1 .. Len(s) : s[j] = t[j]
      BY <1>8 DEF Prefix
    <2>3. QED
      BY <2>1, <2>2
  <1>10. QED
    BY <1>3, <1>7, <1>9

LEMMA SeesStays ==
  ASSUME BaseInv, TableTypes', RowsKept, NEW w \in Workers, Looking(w), Sees(w), Marked(w),
         worker[w].during => worker'[w].during
  PROVE  Sees(w)'
  <1> PICK x, y, g, i, b, c : /\ x = worker[w] /\ y = worker'[w] /\ g = x.pkt.to /\ i = x.row
                              /\ b = GroupHash[g] /\ c = cfg
    OBVIOUS
  <1>1. /\ y.pc = x.pc /\ y.pkt = x.pkt /\ y.list = x.list /\ y.want = x.want /\ y.port = x.port
        /\ y.row = x.row /\ y.idx = x.idx /\ y.cnt = x.cnt
        /\ x.during => y.during
    BY DEF Marked
  <1>2. x \in WorkerTypes /\ g \in Groups /\ b \in Buckets /\ i \in Rows
    BY NodeType DEF BaseInv, TableInv
  <1>3. /\ Has(g, i) /\ x.want = EntriesIn(c, g)
        /\ x.pc \in {"port", "copy"} => x.idx = Idx(b, i)
        /\ x.pc = "copy" => /\ (x.cnt = 0 /\ x.during) \/ x.port = x.want[1].port
                            /\ Len(x.list) <= x.cnt
                            /\ \A j \in 1 .. Len(x.list) : x.list[j] = multi_vm[x.idx][j]
    BY DEF Sees
  <1>4. x.pc # "cnt" => \E d \in 0 .. Loaded : /\ x.cnt = Len(ListOf(c, g, d))
                                               /\ x.during \/ d = Len(c)
    BY DEF Sees
  <1>5. /\ cfg' = c /\ Intact(b)' /\ Has(g, i)' /\ Idx(b, i)' = Idx(b, i)
        /\ \A j \in 1 .. multi_grp[b][i].cnt : multi_vm'[Idx(b, i)][j] = multi_vm[Idx(b, i)][j]
    <2>1. Created(b, i) /\ Ip(b, i) = g
      BY <1>3 DEF Has
    <2>2. /\ cfg' = c /\ Intact(b)' /\ Created(b, i)' /\ Ip(b, i)' = g /\ Idx(b, i)' = Idx(b, i)
          /\ \A j \in 1 .. multi_grp[b][i].cnt : multi_vm'[Idx(b, i)][j] = multi_vm[Idx(b, i)][j]
      BY <1>2, <2>1 DEF RowsKept
    <2>3. Has(g, i)'
      BY <2>2 DEF Has
    <2>4. QED
      BY <2>2, <2>3
  <1>6. \A d \in 0 .. Loaded : d \in 0 .. Loaded'
    <2>1. Loaded \in Nat /\ Loaded <= Loaded'
      BY LoadedTypes DEF BaseInv, TableInv, RowsKept
    <2>2. Loaded' \in Int
      <3>1. Loaded' = IF Filling' THEN reload'.e - 1 ELSE Len(cfg')
        BY DEF Loaded
      <3>2. cfg' \in Seq(Entries)
        BY <1>5, ConfigTypes DEF BaseInv, TableInv, TableTypes
      <3>3. Len(cfg') \in Int
        BY <3>2
      <3>4. reload'.e \in Int
        BY DEF TableTypes, ReloadTypes
      <3>5. QED
        BY <3>1, <3>3, <3>4
    <2>3. QED
      BY <2>1, <2>2
  <1>7. x.pc # "cnt" => \E d \in 0 .. Loaded' : /\ x.cnt = Len(ListOf(c, g, d))
                                                /\ y.during \/ d = Len(c)
    BY <1>1, <1>4, <1>6
  <1>8. x.pc = "copy" => \A j \in 1 .. Len(x.list) : x.list[j] = multi_vm'[x.idx][j]
    <2> SUFFICES ASSUME x.pc = "copy", NEW j \in 1 .. Len(x.list)
                 PROVE  x.list[j] = multi_vm'[x.idx][j]
      OBVIOUS
    <2>1. PICK d \in 0 .. Loaded : x.cnt = Len(ListOf(c, g, d))
      BY <1>4
    <2>2. Len(ListOf(c, g, d)) <= multi_grp[b][i].cnt
      BY <1>2, <1>3, ListSeen DEF BaseInv
    <2>3. j \in 1 .. multi_grp[b][i].cnt
      <3>1. multi_grp[b][i] \in RowTypes
        BY <1>2 DEF BaseInv, TableInv, TableTypes
      <3>a. multi_grp[b][i].cnt \in Nat
        BY <3>1, RowCount
      <3>b. x.cnt \in Nat /\ x.list \in Seq(VMs \cup {Zero})
        BY <1>2, WorkerCount
      <3>2. multi_grp[b][i].cnt \in Nat /\ x.cnt \in Nat /\ Len(x.list) \in Nat
        BY <3>a, <3>b
      <3>3. Len(x.list) <= x.cnt
        BY <1>3
      <3>4. x.cnt <= multi_grp[b][i].cnt
        BY <2>1, <2>2
      <3>5. PICK m, n, l : m = multi_grp[b][i].cnt /\ n = x.cnt /\ l = Len(x.list)
        OBVIOUS
      <3>6. j \in 1 .. l /\ m \in Nat /\ n \in Nat /\ l \in Nat /\ l <= n /\ n <= m
        BY <3>2, <3>3, <3>4, <3>5
      <3>7. j \in 1 .. m
        BY ONLY <3>6
      <3>8. QED
        BY <3>5, <3>7
    <2>4. x.idx = Idx(b, i) /\ x.list[j] = multi_vm[x.idx][j]
      BY <1>3
    <2>5. multi_vm'[Idx(b, i)][j] = multi_vm[Idx(b, i)][j]
      BY <1>5, <2>3
    <2>6. QED
      BY <2>4, <2>5
  <1>9. /\ y.want = EntriesIn(c, g)
        /\ y.pc \in {"port", "copy"} => y.idx = Idx(b, i)'
        /\ y.pc = "copy" => /\ (y.cnt = 0 /\ y.during) \/ y.port = y.want[1].port
                            /\ Len(y.list) <= y.cnt
    BY <1>1, <1>3, <1>5
  <1>10. y.pc = "copy" => \A j \in 1 .. Len(y.list) : y.list[j] = multi_vm'[y.idx][j]
    BY <1>1, <1>8
  <1>11. y.pc # "cnt" => \E d \in 0 .. Loaded' : /\ y.cnt = Len(ListOf(c, g, d))
                                                 /\ y.during \/ d = Len(c)
    BY <1>1, <1>7
  <1>12. y.pkt.to = g /\ y.row = i /\ cfg' = c /\ Intact(b)' /\ Has(g, i)'
    BY <1>1, <1>5
  <1>13. QED
    BY <1>9, <1>10, <1>11, <1>12 DEF Sees

LEMMA RequestedKept ==
  ASSUME TableInv, ReloadRequested
  PROVE  RowsKept
  <1>1. /\ reload.pc = "rest" /\ reload'.pc = "rows" /\ reload'.bucket = 0
        /\ UNCHANGED <<multi_grp, multi_vm, g_bitmap, cfg, serving>>
    BY DEF ReloadRequested, ReloadAt, TableInv, TableTypes, tableVars, ReloadTypes
  <1>2. Loaded' = Loaded /\ Len(cfg) \in Nat
    BY <1>1, ConfigTypes DEF Loaded, Filling, TableInv, TableTypes
  <1>3. Loaded <= Loaded'
    BY <1>2, LoadedTypes DEF TableInv
  <1>4. \A b \in Buckets : Intact(b)'
    BY <1>1, Sizes DEF Buckets, Intact, ReloadAt
  <1>5. QED
    BY <1>1, <1>3, <1>4 DEF RowsKept, Created, Ip, Idx

\* What a worker has ended with is not touched by a reload.
LEMMA EndedStays ==
  ASSUME ShapeInv, NEW w \in Workers, Ended(w), Marked(w),
         ~LooksUp(w) => worker'[w].during = worker[w].during /\ worker'[w].mixed = worker[w].mixed
  PROVE  Ended(w)'
  <1>1. worker[w].pc = "store" /\ worker[w].ctr \in {"drop", "forward"} => worker[w].next # "find"
    BY DEF ShapeInv, Shape, After
  <1>2. worker[w].pc = "store" /\ worker[w].ctr \in {"drop", "forward"} =>
          worker'[w].during = worker[w].during /\ worker'[w].mixed = worker[w].mixed
    BY <1>1 DEF LooksUp
  <1>3. \A k : HasEntries(w, k)' <=> HasEntries(w, k)
    BY DEF Marked, HasEntries
  <1>4. QED
    BY <1>2, <1>3 DEF Ended, At, Copied, Marked

LEMMA ReloadWalks ==
  ASSUME BaseInv, BaseInv', WalkInv, ReloadSteps
  PROVE  WalkInv'
  <1> SUFFICES ASSUME NEW w \in Workers PROVE Walks(w)'
    BY DEF WalkInv
  <1> PICK x, y : x = worker[w] /\ y = worker'[w]
    OBVIOUS
  <1>1. /\ Marked(w)
        /\ y.during = (x.during \/ (ReloadRequested /\ LooksUp(w)))
        /\ y.mixed = (x.mixed \/ (ClearsRows /\ LooksUp(w)))
    BY Marks DEF BaseInv
  <1>2. x \in WorkerTypes /\ y \in WorkerTypes
    BY DEF BaseInv, ShapeInv
  <1>3. x.during \in BOOLEAN /\ x.mixed \in BOOLEAN /\ y.during \in BOOLEAN /\ y.mixed \in BOOLEAN
    BY <1>2 DEF WorkerTypes
  <1>4. (LooksUp(w)' <=> LooksUp(w)) /\ (Looking(w)' <=> Looking(w)) /\ (Looking(w) => LooksUp(w))
    BY <1>1 DEF Marked, LooksUp, Looking
  <1>5. Ended(w)'
    <2>1. ~LooksUp(w) => y.during = x.during /\ y.mixed = x.mixed
      BY <1>1, <1>3
    <2>2. QED
      BY <1>1, <2>1, EndedStays DEF BaseInv, WalkInv, Walks
  <1>6. LooksUp(w) => y.during
    <2>1. CASE ReloadRequested
      BY <1>1, <2>1
    <2>2. CASE ~ReloadRequested
      <3>1. ~ReloadAt("rest")
        BY <2>2 DEF ReloadSteps, ClearsRows, ClearsLists, ReadsFile, AppendsTo, TakesRow, SetsPort,
                    ChecksLimit, AddsMember, SetsCount, ReloadAt
      <3>2. LooksUp(w) => x.during
        BY <3>1 DEF WalkInv, Walks
      <3>3. QED
        BY <1>1, <3>2
    <2>3. QED
      BY <2>1, <2>2
  <1>7. Looking(w) => y.mixed \/ Sees(w)'
    <2> SUFFICES ASSUME Looking(w), ~y.mixed PROVE Sees(w)'
      OBVIOUS
    <2>1. ~ClearsRows /\ ~x.mixed
      BY <1>1, <1>4
    <2>2. Sees(w)
      BY <2>1 DEF WalkInv, Walks
    <2>3. CASE Fills \/ ReloadRequested
      <3>1. RowsKept
        BY <2>3, FillsTable, RequestedKept DEF BaseInv
      <3>2. TableTypes'
        BY DEF BaseInv, TableInv
      <3>3. x.during => y.during
        BY <1>1
      <3>4. QED
        BY <1>1, <2>2, <3>1, <3>2, <3>3, SeesStays
    <2>4. CASE ClearsLists \/ ReadsFile
      <3>1. reload.pc \in {"lists", "file"}
        BY <2>4 DEF ClearsLists, ReadsFile, ReloadAt
      <3>2. \A b : ~Intact(b)
        BY <3>1 DEF Intact, Filling, ReloadAt
      <3>3. QED
        BY <2>2, <3>2 DEF Sees
    <2>5. QED
      BY <2>1, <2>3, <2>4 DEF ReloadSteps, Fills
  <1>8. QED
    BY <1>4, <1>5, <1>6, <1>7 DEF Walks

LEMMA OtherWalks ==
  ASSUME TableInv, UNCHANGED reloadVars, NEW v \in Workers, worker'[v] = worker[v], Walks(v)
  PROVE  Walks(v)'
  <1>1. UNCHANGED <<multi_grp, multi_vm, reload, cfg>>
    BY DEF reloadVars, tableVars
  <1>2. (\A b : Intact(b)' <=> Intact(b)) /\ Loaded' = Loaded
    BY TableUnchanged
  <1>3. \A b, i : Idx(b, i)' = Idx(b, i) /\ (Has(b, i)' <=> Has(b, i))
    BY <1>1 DEF Has, Created, Ip, Idx
  <1>4. Sees(v)' <=> Sees(v)
    BY <1>1, <1>2, <1>3 DEF Sees
  <1>5. Ended(v)' <=> Ended(v)
    BY DEF Ended, At, Copied, HasEntries
  <1>6. /\ LooksUp(v)' <=> LooksUp(v)
        /\ Looking(v)' <=> Looking(v)
        /\ ReloadAt("rest")' <=> ReloadAt("rest")
    BY <1>1 DEF LooksUp, Looking, ReloadAt
  <1>7. QED
    BY <1>4, <1>5, <1>6 DEF Walks

\* Not at the end of a walk, nor on one.
LEMMA Elsewhere ==
  ASSUME NEW w \in Workers, worker'[w].pc \in {"idle", "find", "send", "socket", "store"},
         worker'[w].pc = "store" => worker'[w].ctr \notin {"drop", "forward"},
         LooksUp(w)' => worker'[w].during \/ ReloadAt("rest")'
  PROVE  Walks(w)'
  BY DEF Walks, Looking, Ended, At, Copied

\* A step along a row.
LEMMA OnARow ==
  ASSUME NEW w \in Workers, Looking(w)',
         worker'[w].during \/ ReloadAt("rest")', worker'[w].during \/ ~worker'[w].mixed,
         worker'[w].mixed \/ Sees(w)'
  PROVE  Walks(w)'
  BY DEF Walks, Looking, LooksUp, Ended, At, Copied

LEMMA FindsNoneWalks ==
  ASSUME BaseInv, NEW w \in Workers, Walks(w), FindsNone(w), UNCHANGED reloadVars
  PROVE  Walks(w)'
  <1>1. /\ worker[w].pc = "find" /\ worker[w].pkt \in Packets /\ RowOf(worker[w].pkt.to) = 0
        /\ worker'[w].pc = "store" /\ worker'[w].next = "idle" /\ worker'[w].ctr = "drop"
        /\ worker'[w].during = worker[w].during
        /\ worker'[w].want = EntriesIn(cfg, worker[w].pkt.to)
    BY FindsNoneShape DEF BaseInv, TableInv
  <1> PICK g : g = worker[w].pkt.to
    OBVIOUS
  <1>2. g \in Groups /\ GroupHash[g] \in Buckets
    BY <1>1, PacketType
  <1>3. worker[w].during \/ EntriesIn(cfg, g) = <<>>
    <2> SUFFICES ASSUME ~worker[w].during PROVE EntriesIn(cfg, g) = <<>>
      OBVIOUS
    <2>1. ReloadAt("rest")
      BY <1>1 DEF Walks, LooksUp
    <2>2. ~Filling /\ Intact(GroupHash[g]) /\ Loaded = Len(cfg)
      BY <2>1 DEF ReloadAt, Filling, Intact, Loaded
    <2>3. \A i \in Rows : ~Has(g, i)
      BY <1>1, <1>2, RowOfType DEF BaseInv, TableInv
    <2>4. EntriesOf(cfg, g, Loaded) = <<>>
      BY <1>2, <2>2, <2>3 DEF BaseInv, TableInv, RowsComplete, Known
    <2>5. cfg \in Seq(Entries)
      BY ConfigTypes DEF BaseInv, TableInv, TableTypes
    <2>6. EntriesOf(cfg, g, Len(cfg)) = EntriesIn(cfg, g)
      BY <2>5, EntriesOfSteps
    <2>7. QED
      BY <2>2, <2>4, <2>6
  <1>4. QED
    BY <1>1, <1>3 DEF Walks, Ended, At, Copied, Looking, LooksUp

LEMMA FindsRowWalks ==
  ASSUME BaseInv, NEW w \in Workers, Walks(w), FindsRow(w), UNCHANGED reloadVars
  PROVE  Walks(w)'
  <1>1. /\ worker[w].pc = "find" /\ worker'[w].pc = "cnt"
        /\ worker'[w].pkt = worker[w].pkt /\ worker'[w].pkt \in Packets
        /\ worker'[w].row = RowOf(worker[w].pkt.to) /\ RowOf(worker[w].pkt.to) # 0
        /\ worker'[w].during = worker[w].during /\ worker'[w].mixed = FALSE
        /\ worker'[w].want = EntriesIn(cfg, worker[w].pkt.to)
    BY FindsRowShape DEF BaseInv, TableInv
  <1> PICK g, i : g = worker[w].pkt.to /\ i = RowOf(g)
    OBVIOUS
  <1>2. g \in Groups /\ GroupHash[g] \in Buckets
    BY <1>1, PacketType
  <1>3. i \in Rows /\ Has(g, i)
    BY <1>1, <1>2, RowOfType DEF BaseInv, TableInv
  <1>4. Intact(GroupHash[g])
    BY <1>2, <1>3 DEF BaseInv, TableInv, RowsOwned, Has
  <1>5. UNCHANGED <<multi_grp, reload, cfg>> /\ Has(g, i)' /\ Intact(GroupHash[g])'
    <2>1. UNCHANGED <<multi_grp, reload, cfg>>
      BY DEF reloadVars, tableVars
    <2>2. QED
      BY <1>3, <1>4, <2>1 DEF Has, Created, Ip, Intact, Filling, ReloadAt
  <1>6. Sees(w)'
    BY <1>1, <1>5 DEF Sees
  <1>7. worker[w].during \/ ReloadAt("rest")
    BY <1>1 DEF Walks, LooksUp
  <1>8. QED
    BY <1>1, <1>5, <1>6, <1>7, OnARow DEF Looking, ReloadAt

\* The steps after that leave the table and the row alone.
LEMMA StillOnARow ==
  ASSUME BaseInv, NEW w \in Workers, Walks(w), Looking(w), Looking(w)', Same(w), UNCHANGED reloadVars,
         Sees(w) => Sees(w)'
  PROVE  Walks(w)'
  <1>1. worker[w].during \/ ReloadAt("rest")
    BY DEF Walks, LooksUp, Looking
  <1>2. ReloadAt("rest")' <=> ReloadAt("rest")
    BY DEF reloadVars, ReloadAt
  <1>3. /\ worker[w].during \/ ~worker[w].mixed
        /\ worker[w].mixed \/ Sees(w)
    BY DEF Walks
  <1>4. worker'[w].during = worker[w].during /\ worker'[w].mixed = worker[w].mixed
    BY DEF Same
  <1>5. QED
    BY <1>1, <1>2, <1>3, <1>4, OnARow

LEMMA ReadsCountWalks ==
  ASSUME BaseInv, NEW w \in Workers, Walks(w), ReadsCount(w), UNCHANGED reloadVars
  PROVE  Walks(w)'
  <1>1. /\ worker[w].pc = "cnt" /\ worker'[w].pc = "idx" /\ Same(w)
        /\ worker'[w].cnt = NodeOf(w).cnt
    BY ReadsCountShape DEF BaseInv, TableInv
  <1>2. Looking(w) /\ Looking(w)'
    BY <1>1 DEF Looking
  <1> PICK g, i, d : g = worker[w].pkt.to /\ i = worker[w].row /\ d = Loaded
    OBVIOUS
  <1>3. g \in Groups /\ GroupHash[g] \in Buckets /\ i \in Rows
    BY <1>2, NodeType DEF BaseInv, TableInv
  <1>4. ASSUME Sees(w) PROVE Sees(w)'
    <2>1. Intact(GroupHash[g]) /\ Has(g, i) /\ worker[w].want = EntriesIn(cfg, g)
      BY <1>4 DEF Sees
    <2>2. UNCHANGED <<multi_grp, reload, cfg>>
      BY DEF reloadVars, tableVars
    <2>3. Has(g, i)' /\ Intact(GroupHash[g])' /\ Loaded' = d
      BY <2>1, <2>2 DEF Has, Created, Ip, Intact, Filling, ReloadAt, Loaded
    <2>4. NodeOf(w).cnt = Len(ListOf(cfg, g, d))
      <3>1. Holds(GroupHash[g], i) /\ Ip(GroupHash[g], i) = g
        BY <1>3, <2>1 DEF BaseInv, TableInv, RowsRight, Has
      <3>2. QED
        BY <3>1 DEF Holds, NodeOf
    <2>5. worker[w].during \/ d = Len(cfg)
      <3>1. worker[w].during \/ ReloadAt("rest")
        BY <1>2 DEF Walks, Looking, LooksUp
      <3>2. QED
        BY <3>1 DEF ReloadAt, Loaded, Filling
    <2>6. d \in 0 .. d
      BY LoadedTypes DEF BaseInv, TableInv
    <2>7. /\ worker'[w].pkt.to = g /\ worker'[w].row = i /\ worker'[w].want = worker[w].want
          /\ worker'[w].during = worker[w].during /\ worker'[w].cnt = Len(ListOf(cfg, g, d))
      BY <1>1, <2>4 DEF Same
    <2>8. QED
      BY <1>1, <2>1, <2>2, <2>3, <2>5, <2>6, <2>7 DEF Sees
  <1>5. QED
    BY <1>1, <1>2, <1>4, StillOnARow

LEMMA ReadsIndexWalks ==
  ASSUME BaseInv, NEW w \in Workers, Walks(w), ReadsIndex(w), UNCHANGED reloadVars
  PROVE  Walks(w)'
  <1>1. /\ worker[w].pc = "idx" /\ worker'[w].pc = "port" /\ Same(w)
        /\ worker'[w].idx = NodeOf(w).idx /\ worker'[w].cnt = worker[w].cnt
    BY ReadsIndexShape DEF BaseInv, TableInv
  <1>2. Looking(w) /\ Looking(w)'
    BY <1>1 DEF Looking
  <1> PICK g, i : g = worker[w].pkt.to /\ i = worker[w].row
    OBVIOUS
  <1>3. ASSUME Sees(w) PROVE Sees(w)'
    <2>1. /\ Intact(GroupHash[g]) /\ Has(g, i) /\ worker[w].want = EntriesIn(cfg, g)
          /\ \E d \in 0 .. Loaded : /\ worker[w].cnt = Len(ListOf(cfg, g, d))
                                    /\ worker[w].during \/ d = Len(cfg)
      BY <1>1, <1>3 DEF Sees
    <2>2. UNCHANGED <<multi_grp, reload, cfg>>
      BY DEF reloadVars, tableVars
    <2>3. Has(g, i)' /\ Intact(GroupHash[g])' /\ Loaded' = Loaded /\ Idx(GroupHash[g], i)' = NodeOf(w).idx
      BY <2>1, <2>2 DEF Has, Created, Ip, Intact, Filling, ReloadAt, Loaded, NodeOf, Idx
    <2>4. /\ worker'[w].pkt.to = g /\ worker'[w].row = i /\ worker'[w].want = worker[w].want
          /\ worker'[w].during = worker[w].during
      BY <1>1 DEF Same
    <2>5. QED
      BY <1>1, <2>1, <2>2, <2>3, <2>4 DEF Sees
  <1>4. QED
    BY <1>1, <1>2, <1>3, StillOnARow

\* A row whose port has not been set has no member.
LEMMA PortRead ==
  ASSUME TableInv, NEW g \in Groups, NEW i \in Rows, Has(g, i), NEW d \in 0 .. Loaded,
         multi_grp[GroupHash[g]][i].port # EntriesIn(cfg, g)[1].port
  PROVE  ListOf(cfg, g, d) = <<>> /\ ~ReloadAt("rest")
  <1> PICK n : n = Loaded
    OBVIOUS
  <1>1. GroupHash[g] \in Buckets /\ Created(GroupHash[g], i) /\ Ip(GroupHash[g], i) = g
    BY Sizes DEF Has
  <1>2. HasPort(GroupHash[g], i)
    BY <1>1 DEF TableInv, RowsRight
  <1>3. reload.pc = "port" /\ GroupHash[g] = reload.bucket /\ i = reload.row
    BY <1>1, <1>2 DEF HasPort, ReloadAt
  <1>4. /\ EntriesOf(cfg, cfg[reload.e].ip, reload.e - 1) = <<>>
        /\ Has(cfg[reload.e].ip, i) /\ GroupHash[g] = GroupHash[cfg[reload.e].ip]
        /\ n = reload.e - 1
    BY <1>3 DEF TableInv, Position, ReloadAt, HasRow, Loaded, Filling
  <1>5. cfg[reload.e].ip = g
    BY <1>1, <1>4 DEF Has
  <1>6. EntriesOf(cfg, g, n) = <<>>
    BY <1>4, <1>5
  <1>7. cfg \in Seq(Entries) /\ Len(cfg) \in Nat /\ n \in 0 .. Len(cfg)
    BY ConfigTypes, LoadedTypes DEF TableInv, TableTypes
  <1>8. ListOf(cfg, g, n) = <<>> /\ 0 \in 0 .. Len(cfg) /\ d \in 0 .. Len(cfg) /\ d <= n
    <2>1. EntriesOf(cfg, g, 0) = <<>> /\ ListOf(cfg, g, 0) = <<>>
      BY <1>7, EntriesOfSteps, ListOfSteps
    <2>2. ListOf(cfg, g, n) = <<>>
      BY <1>6, <2>1 DEF ListOf
    <2>3. QED
      BY <1>7, <2>2
  <1>9. Prefix(ListOf(cfg, g, d), ListOf(cfg, g, n)) /\ ListOf(cfg, g, d) \in Seq(VMs)
    BY <1>7, <1>8, ListOfPrefix, ListOfSteps DEF Lists
  <1>10. ListOf(cfg, g, d) = <<>>
    <2> PICK s : s = ListOf(cfg, g, d)
      OBVIOUS
    <2>1. Len(s) <= 0 /\ s \in Seq(VMs)
      BY <1>8, <1>9 DEF Prefix
    <2>2. s = <<>>
      BY <2>1
    <2>3. QED
      BY <2>2
  <1>11. QED
    BY <1>3, <1>10 DEF ReloadAt

LEMMA ReadsPortWalks ==
  ASSUME BaseInv, NEW w \in Workers, Walks(w), ReadsPort(w), UNCHANGED reloadVars
  PROVE  Walks(w)'
  <1>1. /\ worker[w].pc = "port" /\ worker'[w].pc = "copy" /\ Same(w)
        /\ worker'[w].port = NodeOf(w).port
        /\ worker'[w].cnt = worker[w].cnt /\ worker'[w].idx = worker[w].idx
        /\ worker[w].list = <<>>
    BY ReadsPortShape DEF BaseInv, TableInv
  <1>2. Looking(w) /\ Looking(w)'
    BY <1>1 DEF Looking
  <1> PICK g, i, b : g = worker[w].pkt.to /\ i = worker[w].row /\ b = GroupHash[g]
    OBVIOUS
  <1>3. g \in Groups /\ b \in Buckets /\ i \in Rows /\ worker[w] \in WorkerTypes
    BY <1>2, NodeType DEF BaseInv, TableInv
  <1>4. ASSUME Sees(w) PROVE Sees(w)'
    <2>1. /\ Intact(b) /\ Has(g, i) /\ worker[w].want = EntriesIn(cfg, g)
          /\ worker[w].idx = Idx(b, i)
      BY <1>1, <1>4 DEF Sees
    <2>2. PICK d \in 0 .. Loaded : /\ worker[w].cnt = Len(ListOf(cfg, g, d))
                                   /\ worker[w].during \/ d = Len(cfg)
      BY <1>1, <1>4 DEF Sees
    <2>3. UNCHANGED <<multi_grp, reload, cfg>>
      BY DEF reloadVars, tableVars
    <2>4. Has(g, i)' /\ Intact(b)' /\ Loaded' = Loaded /\ Idx(b, i)' = Idx(b, i)
      BY <2>1, <2>3 DEF Has, Created, Ip, Intact, Filling, ReloadAt, Loaded, Idx
    <2>5. /\ worker'[w].pkt.to = g /\ worker'[w].row = i /\ worker'[w].want = worker[w].want
          /\ worker'[w].during = worker[w].during /\ worker'[w].list = <<>>
      BY <1>1 DEF Same
    <2>6. (worker[w].cnt = 0 /\ worker[w].during) \/ NodeOf(w).port = worker[w].want[1].port
      <3> SUFFICES ASSUME NodeOf(w).port # worker[w].want[1].port
                   PROVE  worker[w].cnt = 0 /\ worker[w].during
        OBVIOUS
      <3>1. multi_grp[GroupHash[g]][i].port # EntriesIn(cfg, g)[1].port
        BY <2>1 DEF NodeOf
      <3>2. ListOf(cfg, g, d) = <<>> /\ ~ReloadAt("rest")
        BY <1>3, <2>1, <3>1, PortRead DEF BaseInv
      <3>3. worker[w].during
        BY <1>2, <3>2 DEF Walks, Looking, LooksUp
      <3>4. QED
        BY <2>2, <3>2, <3>3
    <2>7. 0 <= worker[w].cnt
      BY <1>3 DEF WorkerTypes
    <2>8. (worker'[w].cnt = 0 /\ worker'[w].during) \/ worker'[w].port = worker'[w].want[1].port
      BY <1>1, <2>5, <2>6
    <2>9. /\ Len(worker'[w].list) <= worker'[w].cnt
          /\ \A j \in 1 .. Len(worker'[w].list) : worker'[w].list[j] = multi_vm'[worker'[w].idx][j]
      BY <1>1, <2>5, <2>7
    <2>10. \E e \in 0 .. Loaded' : /\ worker'[w].cnt = Len(ListOf(cfg', g, e))
                                   /\ worker'[w].during \/ e = Len(cfg')
      BY <1>1, <2>2, <2>3, <2>4, <2>5
    <2>11. QED
      BY <1>1, <2>1, <2>3, <2>4, <2>5, <2>8, <2>9, <2>10 DEF Sees
  <1>5. QED
    BY <1>1, <1>2, <1>4, StillOnARow

LEMMA CopiesWalks ==
  ASSUME BaseInv, NEW w \in Workers, Walks(w), Copies(w), UNCHANGED reloadVars,
         Len(worker[w].list) < worker[w].cnt
  PROVE  Walks(w)'
  <1>1. /\ worker[w].pc = "copy" /\ worker'[w].pc = "copy"
        /\ worker'[w].list = Append(worker[w].list, multi_vm[worker[w].idx][Len(worker[w].list) + 1])
        /\ worker'[w].pkt = worker[w].pkt /\ worker'[w].row = worker[w].row
        /\ worker'[w].cnt = worker[w].cnt /\ worker'[w].idx = worker[w].idx
        /\ worker'[w].port = worker[w].port /\ worker'[w].want = worker[w].want
        /\ worker'[w].during = worker[w].during /\ worker'[w].mixed = worker[w].mixed
    BY CopiesShape DEF BaseInv, TableInv
  <1>2. Looking(w) /\ Looking(w)'
    BY <1>1 DEF Looking
  <1> PICK g, i, b, s, v, n : /\ g = worker[w].pkt.to /\ i = worker[w].row /\ b = GroupHash[g]
                              /\ s = worker[w].list /\ n = Len(s)
                              /\ v = multi_vm[worker[w].idx][Len(worker[w].list) + 1]
    OBVIOUS
  <1>3. worker[w] \in WorkerTypes /\ s \in Seq(VMs \cup {Zero}) /\ n \in Nat /\ worker[w].cnt \in Nat
    <2>1. worker[w] \in WorkerTypes
      BY <1>2, NodeType DEF BaseInv, TableInv
    <2>2. QED
      BY <2>1 DEF WorkerTypes
  <1>4. /\ Len(Append(s, v)) = n + 1 /\ Append(s, v)[n + 1] = v
        /\ \A j \in 1 .. n : Append(s, v)[j] = s[j]
    BY <1>3
  <1>5. UNCHANGED <<multi_grp, multi_vm, reload, cfg>>
    BY DEF reloadVars, tableVars
  <1>6. ASSUME Sees(w) PROVE Sees(w)'
    <2>1. /\ Intact(b) /\ Has(g, i) /\ worker[w].want = EntriesIn(cfg, g)
          /\ worker[w].idx = Idx(b, i)
          /\ (worker[w].cnt = 0 /\ worker[w].during) \/ worker[w].port = worker[w].want[1].port
          /\ \A j \in 1 .. n : s[j] = multi_vm[worker[w].idx][j]
      BY <1>1, <1>6 DEF Sees
    <2>2. \E d \in 0 .. Loaded : /\ worker[w].cnt = Len(ListOf(cfg, g, d))
                                 /\ worker[w].during \/ d = Len(cfg)
      BY <1>1, <1>6 DEF Sees
    <2>3. Has(g, i)' /\ Intact(b)' /\ Loaded' = Loaded /\ Idx(b, i)' = Idx(b, i)
      BY <2>1, <1>5 DEF Has, Created, Ip, Intact, Filling, ReloadAt, Loaded, Idx
    <2>4. Len(worker'[w].list) <= worker'[w].cnt
      <3>1. n + 1 <= worker[w].cnt
        BY <1>3
      <3>2. QED
        BY <1>1, <1>4, <3>1
    <2>5. \A j \in 1 .. Len(worker'[w].list) : worker'[w].list[j] = multi_vm'[worker'[w].idx][j]
      <3>1. \A j \in 1 .. n + 1 : j \in 1 .. n \/ j = n + 1
        BY <1>3
      <3>2. \A j \in 1 .. n + 1 : Append(s, v)[j] = multi_vm[worker[w].idx][j]
        BY <1>4, <2>1, <3>1
      <3>3. QED
        BY <1>1, <1>4, <1>5, <3>2
    <2>6. \E d \in 0 .. Loaded' : /\ worker'[w].cnt = Len(ListOf(cfg', g, d))
                                  /\ worker'[w].during \/ d = Len(cfg')
      BY <1>1, <1>5, <2>2, <2>3
    <2>7. /\ worker'[w].pkt.to = g /\ worker'[w].row = i /\ worker'[w].idx = Idx(b, i)'
          /\ worker'[w].want = EntriesIn(cfg', g)
          /\ (worker'[w].cnt = 0 /\ worker'[w].during) \/ worker'[w].port = worker'[w].want[1].port
      BY <1>1, <1>5, <2>1, <2>3
    <2>8. QED
      BY <1>1, <2>3, <2>4, <2>5, <2>6, <2>7 DEF Sees
  <1>7. /\ worker[w].during \/ ReloadAt("rest")
        /\ worker[w].during \/ ~worker[w].mixed
        /\ worker[w].mixed \/ Sees(w)
    BY <1>2 DEF Walks, LooksUp, Looking
  <1>8. ReloadAt("rest")' <=> ReloadAt("rest")
    BY <1>5 DEF ReloadAt
  <1>9. QED
    BY <1>1, <1>2, <1>6, <1>7, <1>8, OnARow

\* A complete copy is one of the lists that the row has had.
LEMMA CopyIsList ==
  ASSUME BaseInv, NEW w \in Workers, worker[w].pc = "copy", Sees(w),
         ~(Len(worker[w].list) < worker[w].cnt)
  PROVE  \E d \in 0 .. Loaded : /\ worker[w].list = ListOf(cfg, worker[w].pkt.to, d)
                                /\ worker[w].during \/ d = Len(cfg)
                                /\ worker[w].cnt = Len(worker[w].list)
  <1>1. Looking(w)
    BY DEF Looking
  <1> PICK g, i, b, s : /\ g = worker[w].pkt.to /\ i = worker[w].row /\ b = GroupHash[g]
                        /\ s = worker[w].list
    OBVIOUS
  <1>2. g \in Groups /\ b \in Buckets /\ i \in Rows /\ worker[w] \in WorkerTypes
    BY <1>1, NodeType DEF BaseInv, TableInv
  <1>3. PICK d \in 0 .. Loaded : worker[w].cnt = Len(ListOf(cfg, g, d)) /\ (worker[w].during \/ d = Len(cfg))
    BY DEF Sees
  <1> PICK t : t = ListOf(cfg, g, d)
    OBVIOUS
  <1>4. /\ Has(g, i) /\ worker[w].idx = Idx(b, i) /\ Len(s) <= worker[w].cnt
        /\ \A j \in 1 .. Len(s) : s[j] = multi_vm[Idx(b, i)][j]
    BY DEF Sees
  <1>5. t \in Lists /\ \A j \in 1 .. Len(t) : multi_vm[Idx(b, i)][j] = t[j]
    BY <1>2, <1>4, ListSeen DEF BaseInv
  <1>6. s \in Seq(VMs \cup {Zero}) /\ t \in Seq(VMs \cup {Zero}) /\ Len(s) = Len(t)
    <2>1. s \in Seq(VMs \cup {Zero}) /\ t \in Seq(VMs) /\ worker[w].cnt \in Nat
      BY <1>2, <1>5 DEF WorkerTypes, Lists
    <2>2. Len(s) \in Nat /\ Len(t) \in Nat
      BY <2>1
    <2>3. Len(s) = Len(t)
      BY <1>3, <1>4, <2>1, <2>2
    <2>4. QED
      BY <2>1, <2>3
  <1>7. \A j \in 1 .. Len(s) : s[j] = t[j]
    BY <1>4, <1>5, <1>6
  <1>8. s = t
    BY <1>6, <1>7
  <1>9. QED
    BY <1>3, <1>8

LEMMA HasEntriesIs ==
  ASSUME NEW w \in Workers, NEW k
  PROVE  HasEntries(w, k) <=> /\ worker[w].list = Whole(First(worker[w].want, k))
                              /\ worker[w].port = worker[w].want[1].port
  BY DEF HasEntries, Whole, First

LEMMA CopiedFound ==
  ASSUME BaseInv, NEW w \in Workers, Walks(w), worker[w].pc = "copy",
         ~(Len(worker[w].list) < worker[w].cnt)
  PROVE  /\ worker[w].during \/ (worker[w].want # <<>> /\ HasEntries(w, Len(worker[w].want)))
         /\ \/ worker[w].mixed \/ worker[w].list = <<>>
            \/ \E k \in DOMAIN worker[w].want : HasEntries(w, k)
  <1>1. /\ Looking(w)
        /\ worker[w].during \/ ReloadAt("rest")
        /\ worker[w].during \/ ~worker[w].mixed
        /\ worker[w].mixed \/ Sees(w)
    BY DEF Walks, Looking, LooksUp
  <1> PICK g, i, c, s, want : /\ g = worker[w].pkt.to /\ i = worker[w].row /\ c = cfg
                              /\ s = worker[w].list /\ want = worker[w].want
    OBVIOUS
  <1>2. g \in Groups /\ GroupHash[g] \in Buckets /\ i \in Rows
    BY <1>1, NodeType DEF BaseInv, TableInv
  <1>3. c \in Seq(Entries) /\ Len(c) \in Nat /\ Loaded \in 0 .. Len(c)
    BY ConfigTypes, LoadedTypes DEF BaseInv, TableInv, TableTypes
  <1> SUFFICES ASSUME Sees(w)
               PROVE  /\ worker[w].during \/ (want # <<>> /\ HasEntries(w, Len(want)))
                      /\ s = <<>> \/ \E k \in DOMAIN want : HasEntries(w, k)
    BY <1>1
  <1>4. PICK d \in 0 .. Loaded : s = ListOf(c, g, d) /\ (worker[w].during \/ d = Len(c)) /\ worker[w].cnt = Len(s)
    BY CopyIsList
  <1>5. /\ want = EntriesIn(c, g) /\ Has(g, i)
        /\ (worker[w].cnt = 0 /\ worker[w].during) \/ worker[w].port = want[1].port
    BY DEF Sees
  <1>6. want \in Seq(Entries) /\ EntriesOf(c, g, Len(c)) = want
    <2>1. Len(c) \in 0 .. Len(c)
      BY <1>3
    <2>2. QED
      BY <1>3, <1>5, <2>1, EntriesOfSteps
  <1>7. s = <<>> \/ \E k \in DOMAIN want : HasEntries(w, k)
    <2> SUFFICES ASSUME s # <<>> PROVE \E k \in DOMAIN want : HasEntries(w, k)
      OBVIOUS
    <2>1. d \in 0 .. Len(c)
      BY <1>3, <1>4
    <2>2. PICK k \in 1 .. Len(EntriesIn(c, g)) : ListOf(c, g, d) = Whole(First(EntriesIn(c, g), k))
      <3>1. ListOf(c, g, d) # <<>>
        BY <1>4
      <3>2. QED
        BY <1>3, <2>1, <3>1, ListOfEntries
    <2>3. worker[w].cnt # 0
      <3>1. s \in Seq(VMs)
        <4>1. ListOf(c, g, d) \in Lists
          BY <1>3, <2>1, ListOfSteps
        <4>2. QED
          BY <1>4, <4>1 DEF Lists
      <3>2. QED
        BY <1>4, <3>1
    <2>4. HasEntries(w, k)
      BY <1>4, <1>5, <2>2, <2>3, HasEntriesIs
    <2>5. k \in DOMAIN want
      <3>1. k \in 1 .. Len(want)
        BY <1>5
      <3>2. QED
        BY <1>6, <3>1
    <2>6. QED
      BY <2>4, <2>5
  <1>8. worker[w].during \/ (want # <<>> /\ HasEntries(w, Len(want)))
    <2> SUFFICES ASSUME ~worker[w].during PROVE want # <<>> /\ HasEntries(w, Len(want))
      OBVIOUS
    <2>1. ReloadAt("rest") /\ d = Len(c)
      BY <1>1, <1>4
    <2>2. ~HasRow /\ Intact(GroupHash[g]) /\ Loaded = Len(c)
      BY <2>1 DEF ReloadAt, HasRow, Filling, Intact, Loaded
    <2>3. want # <<>>
      <3>1. Known(g)
        BY <1>2, <1>5, <2>2 DEF BaseInv, TableInv, RowsComplete
      <3>2. EntriesOf(c, g, Loaded) # <<>>
        BY <2>2, <3>1 DEF Known
      <3>3. QED
        BY <1>6, <2>2, <3>2
    <2>4. First(want, Len(want)) = want
      BY <1>6 DEF First
    <2>5. s = Whole(want)
      BY <1>4, <1>6, <2>1 DEF ListOf
    <2>6. HasEntries(w, Len(want))
      BY <1>5, <2>4, <2>5, HasEntriesIs
    <2>7. QED
      BY <2>3, <2>6
  <1>9. QED
    BY <1>7, <1>8

LEMMA CopiedWalks ==
  ASSUME BaseInv, NEW w \in Workers, Walks(w), Copies(w), ~(Len(worker[w].list) < worker[w].cnt)
  PROVE  Walks(w)'
  <1>1. /\ worker[w].pc = "copy" /\ worker'[w].pc = "store" /\ Kept(w)
        /\ worker'[w].ctr = "forward" /\ worker'[w].next = "send"
    BY CopiedShape DEF BaseInv, TableInv
  <1>2. \A k : HasEntries(w, k)' <=> HasEntries(w, k)
    BY <1>1 DEF Kept, HasEntries
  <1>3. /\ worker[w].during \/ (worker[w].want # <<>> /\ HasEntries(w, Len(worker[w].want)))
        /\ \/ worker[w].mixed \/ worker[w].list = <<>>
           \/ \E k \in DOMAIN worker[w].want : HasEntries(w, k)
    BY <1>1, CopiedFound
  <1>4. Ended(w)'
    BY <1>1, <1>2, <1>3 DEF Ended, At, Copied, Kept
  <1>5. QED
    BY <1>1, <1>4 DEF Walks, Looking, LooksUp

LEMMA WorkerWalks ==
  ASSUME BaseInv, WalkInv, NEW w \in Workers, WorkerSteps(w)
  PROVE  WalkInv'
  <1>1. UNCHANGED reloadVars /\ \A v \in Workers \ {w} : worker'[v] = worker[v]
    BY WorkerStays DEF BaseInv
  <1>2. Walks(w)
    BY DEF WalkInv
  <1>3. ReloadAt("rest")' <=> ReloadAt("rest")
    BY <1>1 DEF ReloadAt, reloadVars
  <1>4. Walks(w)'
    <2>1. CASE \E p \in Packets : Receives(w, p)
      <3>1. /\ worker'[w].pc = "store" /\ worker'[w].ctr = "recv"
            /\ worker'[w].during = ~ReloadAt("rest")
        BY <2>1, ReceivesShape DEF BaseInv
      <3>2. QED
        BY <1>3, <3>1, Elsewhere
    <2>2. CASE Stores(w)
      <3>1. /\ worker[w].pc = "store" /\ worker'[w].pc = worker[w].next /\ worker'[w].next = "idle"
            /\ worker[w].next = "find" => worker'[w].during = worker[w].during
        BY <2>2, StoresShape DEF BaseInv
      <3>2. worker[w].next \in {"idle", "find", "send", "socket"}
        BY DEF BaseInv, ShapeInv, WorkerTypes
      <3>3. LooksUp(w)' => worker'[w].during \/ ReloadAt("rest")
        BY <1>2, <3>1, <3>2 DEF LooksUp, Walks
      <3>4. QED
        BY <1>3, <3>1, <3>2, <3>3, Elsewhere
    <2>3. CASE FindsNone(w) \/ FindsRow(w)
      BY <1>1, <1>2, <2>3, FindsNoneWalks, FindsRowWalks
    <2>4. CASE ReadsCount(w) \/ ReadsIndex(w) \/ ReadsPort(w)
      BY <1>1, <1>2, <2>4, ReadsCountWalks, ReadsIndexWalks, ReadsPortWalks
    <2>5. CASE Copies(w)
      BY <1>1, <1>2, <2>5, CopiesWalks, CopiedWalks
    <2>6. CASE Ends(w) \/ SendFails(w) \/ NoSocket(w)
      <3>1. worker'[w] = Idle
        <4>1. Done(w)
          BY <2>6 DEF Ends, SendFails, NoSocket
        <4>2. QED
          BY <4>1, EndsShape DEF BaseInv
      <3>2. worker'[w].pc = "idle" /\ worker'[w].next = "idle"
        BY <3>1, IdleType
      <3>3. ~LooksUp(w)'
        BY <3>2 DEF LooksUp
      <3>4. QED
        BY <3>2, <3>3, Elsewhere
    <2>7. CASE CountsFirst(w)
      <3>1. worker'[w].pc = "store" /\ worker'[w].next = "socket" /\ worker'[w].ctr = "point"
        BY <2>7, CountsFirstShape DEF BaseInv
      <3>2. ~LooksUp(w)'
        BY <3>1 DEF LooksUp
      <3>3. QED
        BY <3>1, <3>2, Elsewhere
    <2>8. CASE Sends(w)
      <3>1. worker'[w].pc = "send" /\ worker'[w].next = "idle"
        BY <2>8, SendsShape DEF BaseInv
      <3>2. ~LooksUp(w)'
        BY <3>1 DEF LooksUp
      <3>3. QED
        BY <3>1, <3>2, Elsewhere
    <2>9. QED
      BY <2>1, <2>2, <2>3, <2>4, <2>5, <2>6, <2>7, <2>8 DEF WorkerSteps
  <1>5. ASSUME NEW v \in Workers, v # w PROVE Walks(v)'
    <2>1. worker'[v] = worker[v] /\ Walks(v)
      BY <1>1, <1>5 DEF WalkInv
    <2>2. QED
      BY <1>1, <2>1, OtherWalks DEF BaseInv
  <1>6. QED
    BY <1>4, <1>5 DEF WalkInv

\* What a packet's way through the table depends on: the table, the workers' state, and what
\* each of them has seen so far.
LookupInv == BaseInv /\ WalkInv

LEMMA LookupInit ==
  ASSUME ForwardInit
  PROVE  LookupInv
  <1>1. BaseInv
    BY InitTable, InitShape DEF BaseInv
  <1>2. \A w \in Workers : worker[w].pc = "idle" /\ worker[w].next = "idle"
    BY IdleType DEF ForwardInit
  <1>3. WalkInv
    BY <1>2 DEF WalkInv, Walks, LooksUp, Looking, Ended, At, Copied
  <1>4. QED
    BY <1>1, <1>3 DEF LookupInv

LEMMA LookupStep ==
  ASSUME LookupInv, [ForwardNext]_forwardVars
  PROVE  LookupInv'
  <1>1. BaseInv /\ WalkInv /\ BaseInv'
    BY BaseStep DEF LookupInv
  <1>2. CASE ReloadSteps
    BY <1>1, <1>2, ReloadWalks DEF LookupInv
  <1>3. CASE \E w \in Workers : WorkerSteps(w)
    BY <1>1, <1>3, WorkerWalks DEF LookupInv
  <1>4. CASE UNCHANGED forwardVars
    <2>1. UNCHANGED reloadVars /\ \A v \in Workers : worker'[v] = worker[v]
      BY <1>4 DEF forwardVars
    <2>2. WalkInv'
      BY <1>1, <2>1, OtherWalks DEF BaseInv, WalkInv
    <2>3. QED
      BY <1>1, <2>2 DEF LookupInv
  <1>5. QED
    BY <1>2, <1>3, <1>4 DEF ForwardNext

\* A packet that no reload overlaps is dropped only if its group is not configured, and
\* otherwise goes to exactly the group's members at the group's port, whatever the number of
\* workers, the buckets of the groups, and the files loaded before.
THEOREM ExactWhenAtRest == ForwardSpec => []ExactAtRest
  <1>1. ForwardInit => LookupInv
    BY LookupInit
  <1>2. LookupInv /\ [ForwardNext]_forwardVars => LookupInv'
    BY LookupStep
  <1>3. LookupInv => ExactAtRest
    BY DEF LookupInv, WalkInv, Walks, Ended, ExactAtRest
  <1>4. QED
    BY <1>1, <1>2, <1>3, PTL DEF ForwardSpec

\* A packet that overlaps the filling of the table but not its clearing goes to no member or to
\* all those of the group's first entries, at the right port: the order in which add_multi_node
\* and add_vm_ip_list write the row, the list and the count is enough without a lock.
THEOREM WholeListOrNothing == ForwardSpec => []WholeOrNothing
  <1>1. ForwardInit => LookupInv
    BY LookupInit
  <1>2. LookupInv /\ [ForwardNext]_forwardVars => LookupInv'
    BY LookupStep
  <1>3. LookupInv => WholeOrNothing
    BY DEF LookupInv, WalkInv, Walks, Ended, WholeOrNothing
  <1>4. QED
    BY <1>1, <1>2, <1>3, PTL DEF ForwardSpec

-----------------------------------------------------------------------------
(* The statistics                                                          *)

\* The workers that are about to store counter c, have not ended their lookup, and have counted
\* a copy that they have not sent.
Storing(c) == {w \in Workers : At(w, "store") /\ worker[w].ctr = c}
LookingUp == {w \in Workers : LooksUp(w)}
Sending == {w \in Workers : At(w, "socket")}

\* A worker that holds a counter's value may put it back to that value plus one: the other
\* increments that are under way come on top of it.
NeverAhead(c, n) ==
  /\ count[c] + Cardinality(Storing(c)) <= n
  /\ \A w \in Storing(c) : worker[w].reg + Cardinality(Storing(c)) <= n

Balance ==
  /\ count["recv"] + Cardinality(Storing("recv")) = real.received
  /\ count["drop"] + Cardinality(Storing("drop")) = real.dropped
  /\ count["forward"] + Cardinality(Storing("forward")) + Cardinality(LookingUp)
       = real.received - real.dropped
  /\ count["point"] = real.sent + real.failed + Cardinality(Sending)

LedgerInv ==
  /\ NeverAhead("recv", real.received) /\ NeverAhead("drop", real.dropped)
  /\ raced \/ Balance

\* The size of a set of workers that w may have entered or left.
Moves(X, Y, w) ==
  /\ Cardinality(X) \in Nat /\ Cardinality(Y) \in Nat
  /\ w \notin X /\ w \in Y => Cardinality(Y) = Cardinality(X) + 1
  /\ w \in X /\ w \notin Y => Cardinality(Y) = Cardinality(X) - 1
  /\ (w \in X <=> w \in Y) => Cardinality(Y) = Cardinality(X)

LEMMA SizeMoves ==
  ASSUME NEW X \in SUBSET Workers, NEW Y \in SUBSET Workers, NEW w, X \ {w} = Y \ {w}
  PROVE  Moves(X, Y, w)
  <1>1. IsFiniteSet(X) /\ IsFiniteSet(Y)
    BY ForwardAssumption, FS_Subset DEF ForwardAssumption
  <1>2. Cardinality(X) \in Nat /\ Cardinality(Y) \in Nat
    BY <1>1, FS_CardinalityType
  <1>3. ASSUME w \notin X, w \in Y PROVE Cardinality(Y) = Cardinality(X) + 1
    <2>1. Y = X \cup {w}
      BY <1>3
    <2>2. QED
      BY <1>1, <1>3, <2>1, FS_AddElement
  <1>4. ASSUME w \in X, w \notin Y PROVE Cardinality(Y) = Cardinality(X) - 1
    <2>1. Y = X \ {w}
      BY <1>4
    <2>2. QED
      BY <1>1, <1>4, <2>1, FS_RemoveElement
  <1>5. ASSUME w \in X <=> w \in Y PROVE Cardinality(Y) = Cardinality(X)
    <2>1. X = Y
      BY <1>5
    <2>2. QED
      BY <2>1
  <1>6. QED
    BY <1>2, <1>3, <1>4, <1>5 DEF Moves

LEMMA SetsMove ==
  ASSUME NEW w \in Workers, \A v \in Workers \ {w} : worker'[v] = worker[v]
  PROVE  /\ \A c : Moves(Storing(c), Storing(c)', w)
         /\ Moves(LookingUp, LookingUp', w) /\ Moves(Sending, Sending', w)
         /\ \A c : \A v \in Storing(c)' : v # w => v \in Storing(c) /\ worker'[v].reg = worker[v].reg
  <1>1. ASSUME NEW c PROVE Moves(Storing(c), Storing(c)', w)
    <2>1. /\ Storing(c) \in SUBSET Workers /\ Storing(c)' \in SUBSET Workers
          /\ Storing(c) \ {w} = Storing(c)' \ {w}
      BY DEF Storing, At
    <2>2. QED
      BY <2>1, SizeMoves
  <1>2. Moves(LookingUp, LookingUp', w)
    <2>1. /\ LookingUp \in SUBSET Workers /\ LookingUp' \in SUBSET Workers
          /\ LookingUp \ {w} = LookingUp' \ {w}
      BY DEF LookingUp, LooksUp
    <2>2. QED
      BY <2>1, SizeMoves
  <1>3. Moves(Sending, Sending', w)
    <2>1. /\ Sending \in SUBSET Workers /\ Sending' \in SUBSET Workers
          /\ Sending \ {w} = Sending' \ {w}
      BY DEF Sending, At
    <2>2. QED
      BY <2>1, SizeMoves
  <1>4. \A c : \A v \in Storing(c)' : v # w => v \in Storing(c) /\ worker'[v].reg = worker[v].reg
    BY DEF Storing, At
  <1>5. QED
    BY <1>1, <1>2, <1>3, <1>4

LEMMA AheadStays ==
  ASSUME ShapeInv, NEW w \in Workers, \A v \in Workers \ {w} : worker'[v] = worker[v],
         NEW c \in Counters, count'[c] = count[c], w \notin Storing(c), w \notin Storing(c)',
         NEW n \in Nat, NEW m \in Nat, n <= m, NeverAhead(c, n)
  PROVE  NeverAhead(c, m)'
  <1> PICK k : k = Cardinality(Storing(c))
    OBVIOUS
  <1>1. Cardinality(Storing(c)') = k /\ k \in Nat
    BY SetsMove DEF Moves
  <1>2. count[c] \in Nat /\ \A v \in Workers : worker[v].reg \in Nat
    BY DEF ShapeInv, CountTypes, WorkerTypes
  <1>3. count'[c] + k <= m
    BY <1>1, <1>2 DEF NeverAhead
  <1>4. \A v \in Storing(c)' : worker'[v].reg + k <= m
    <2> SUFFICES ASSUME NEW v \in Storing(c)' PROVE worker'[v].reg + k <= m
      OBVIOUS
    <2>1. v \in Storing(c) /\ worker'[v].reg = worker[v].reg
      BY SetsMove
    <2>2. worker[v].reg + k <= n /\ worker[v].reg \in Nat
      BY <1>2, <2>1 DEF NeverAhead, Storing
    <2>3. QED
      BY <1>1, <2>1, <2>2
  <1>5. QED
    BY <1>1, <1>3, <1>4 DEF NeverAhead

LEMMA AheadLoads ==
  ASSUME ShapeInv, NEW w \in Workers, \A v \in Workers \ {w} : worker'[v] = worker[v],
         NEW c \in Counters, count'[c] = count[c], w \notin Storing(c), w \in Storing(c)',
         worker'[w].reg = count[c], NEW n \in Nat, NeverAhead(c, n)
  PROVE  NeverAhead(c, n + 1)'
  <1> PICK k : k = Cardinality(Storing(c))
    OBVIOUS
  <1>1. Cardinality(Storing(c)') = k + 1 /\ k \in Nat
    BY SetsMove DEF Moves
  <1>2. count[c] \in Nat /\ \A v \in Workers : worker[v].reg \in Nat
    BY DEF ShapeInv, CountTypes, WorkerTypes
  <1>3. count[c] + (k + 1) <= n + 1
    BY <1>1, <1>2 DEF NeverAhead
  <1>4. \A v \in Storing(c)' : worker'[v].reg + (k + 1) <= n + 1
    <2> SUFFICES ASSUME NEW v \in Storing(c)', v # w PROVE worker'[v].reg + (k + 1) <= n + 1
      BY <1>3
    <2>1. v \in Storing(c) /\ worker'[v].reg = worker[v].reg
      BY SetsMove
    <2>2. worker[v].reg + k <= n /\ worker[v].reg \in Nat
      BY <1>2, <2>1 DEF NeverAhead, Storing
    <2>3. QED
      BY <1>1, <2>1, <2>2
  <1>5. QED
    BY <1>1, <1>3, <1>4 DEF NeverAhead

LEMMA AheadStores ==
  ASSUME ShapeInv, NEW w \in Workers, \A v \in Workers \ {w} : worker'[v] = worker[v],
         NEW c \in Counters, w \in Storing(c), w \notin Storing(c)',
         count'[c] = worker[w].reg + 1, NEW n \in Nat, NeverAhead(c, n)
  PROVE  NeverAhead(c, n)'
  <1> PICK k : k = Cardinality(Storing(c))
    OBVIOUS
  <1>1. Cardinality(Storing(c)') = k - 1 /\ k \in Nat
    BY SetsMove DEF Moves
  <1>2. \A v \in Workers : worker[v].reg \in Nat
    BY DEF ShapeInv, WorkerTypes
  <1>3. count'[c] + (k - 1) <= n
    <2>1. worker[w].reg + k <= n /\ worker[w].reg \in Nat
      BY <1>2 DEF NeverAhead
    <2>2. QED
      BY <1>1, <2>1
  <1>4. \A v \in Storing(c)' : worker'[v].reg + (k - 1) <= n
    <2> SUFFICES ASSUME NEW v \in Storing(c)' PROVE worker'[v].reg + (k - 1) <= n
      OBVIOUS
    <2>1. v \in Storing(c) /\ worker'[v].reg = worker[v].reg
      BY SetsMove
    <2>2. worker[v].reg + k <= n /\ worker[v].reg \in Nat
      BY <1>2, <2>1 DEF NeverAhead, Storing
    <2>3. QED
      BY <1>1, <2>1, <2>2
  <1>5. QED
    BY <1>1, <1>3, <1>4 DEF NeverAhead

\* Where a worker that is not about to store counts, before a step and after it.
LEMMA NotStoring ==
  ASSUME ShapeInv, NEW w \in Workers, worker[w].pc # "store"
  PROVE  /\ \A c : w \notin Storing(c)
         /\ w \in LookingUp <=> worker[w].pc \in {"find", "cnt", "idx", "port", "copy"}
         /\ w \in Sending <=> worker[w].pc = "socket"
  <1>1. worker[w].next = "idle"
    BY DEF ShapeInv, Shape
  <1>2. QED
    BY <1>1 DEF Storing, LookingUp, LooksUp, Sending, At

LEMMA NotStoringNext ==
  ASSUME NEW w \in Workers, Shape(w)', worker'[w].pc # "store"
  PROVE  /\ \A c : w \notin Storing(c)'
         /\ w \in LookingUp' <=> worker'[w].pc \in {"find", "cnt", "idx", "port", "copy"}
         /\ w \in Sending' <=> worker'[w].pc = "socket"
  <1>1. worker'[w].next = "idle"
    BY DEF Shape
  <1>2. QED
    BY <1>1 DEF Storing, LookingUp, LooksUp, Sending, At

\* Where one that is about to store a counter does.
LEMMA AboutToStore ==
  ASSUME ShapeInv, NEW w \in Workers, worker[w].pc = "store"
  PROVE  /\ \A c : w \in Storing(c) <=> c = worker[w].ctr
         /\ w \in LookingUp <=> worker[w].ctr = "recv"
         /\ w \notin Sending
         /\ worker[w].ctr \in Counters /\ worker[w].next = After(worker[w].ctr) /\ worker[w].reg \in Nat
  <1>1. worker[w].ctr \in Counters /\ worker[w].next = After(worker[w].ctr) /\ worker[w].reg \in Nat
    BY DEF ShapeInv, Shape, WorkerTypes
  <1>2. worker[w].next = "find" <=> worker[w].ctr = "recv"
    BY <1>1 DEF After, Counters
  <1>3. QED
    BY <1>1, <1>2 DEF Storing, LookingUp, LooksUp, Sending, At

LEMMA AboutToStoreNext ==
  ASSUME NEW w \in Workers, worker'[w].pc = "store", NEW k \in Counters, worker'[w].ctr = k,
         worker'[w].next = "find" <=> k = "recv"
  PROVE  /\ \A c : w \in Storing(c)' <=> c = k
         /\ w \in LookingUp' <=> k = "recv"
         /\ w \notin Sending'
  BY DEF Storing, LookingUp, LooksUp, Sending, At

\* What a step of w does to the sizes.
LEMMA Sized ==
  ASSUME NEW w \in Workers, \A v \in Workers \ {w} : worker'[v] = worker[v]
  PROVE  /\ \A c : /\ Cardinality(Storing(c)) \in Nat /\ Cardinality(Storing(c)') \in Nat
                   /\ w \notin Storing(c) /\ w \in Storing(c)' =>
                        Cardinality(Storing(c)') = Cardinality(Storing(c)) + 1
                   /\ w \in Storing(c) /\ w \notin Storing(c)' =>
                        Cardinality(Storing(c)') = Cardinality(Storing(c)) - 1
                   /\ (w \in Storing(c) <=> w \in Storing(c)') =>
                        Cardinality(Storing(c)') = Cardinality(Storing(c))
         /\ Cardinality(LookingUp) \in Nat /\ Cardinality(LookingUp') \in Nat
         /\ w \notin LookingUp /\ w \in LookingUp' => Cardinality(LookingUp') = Cardinality(LookingUp) + 1
         /\ w \in LookingUp /\ w \notin LookingUp' => Cardinality(LookingUp') = Cardinality(LookingUp) - 1
         /\ (w \in LookingUp <=> w \in LookingUp') => Cardinality(LookingUp') = Cardinality(LookingUp)
         /\ Cardinality(Sending) \in Nat /\ Cardinality(Sending') \in Nat
         /\ w \notin Sending /\ w \in Sending' => Cardinality(Sending') = Cardinality(Sending) + 1
         /\ w \in Sending /\ w \notin Sending' => Cardinality(Sending') = Cardinality(Sending) - 1
         /\ (w \in Sending <=> w \in Sending') => Cardinality(Sending') = Cardinality(Sending)
  BY SetsMove DEF Moves

Tally == /\ count["recv"] \in Nat /\ count["drop"] \in Nat /\ count["forward"] \in Nat /\ count["point"] \in Nat
         /\ real.received \in Nat /\ real.dropped \in Nat /\ real.sent \in Nat /\ real.failed \in Nat

LEMMA Tallied ==
  ASSUME ShapeInv
  PROVE  /\ Tally /\ "recv" \in Counters /\ "drop" \in Counters /\ "forward" \in Counters
         /\ "point" \in Counters
  BY DEF ShapeInv, CountTypes, Counters, Tally

\* A step that leaves the counters alone, and w out of the sets.
LEMMA QuietStep ==
  ASSUME ShapeInv, LedgerInv, NEW w \in Workers, \A v \in Workers \ {w} : worker'[v] = worker[v],
         UNCHANGED <<count, raced, real>>,
         \A c : w \notin Storing(c) /\ w \notin Storing(c)',
         w \in LookingUp <=> w \in LookingUp', w \in Sending <=> w \in Sending'
  PROVE  LedgerInv'
  <1>1. NeverAhead("recv", real.received)' /\ NeverAhead("drop", real.dropped)'
    <2> PICK r, d : r = real.received /\ d = real.dropped
      OBVIOUS
    <2>1. r \in Nat /\ d \in Nat /\ "recv" \in Counters /\ "drop" \in Counters
      BY Tallied DEF Tally
    <2>2. NeverAhead("recv", r) /\ NeverAhead("drop", d) /\ r <= r /\ d <= d
      BY <2>1 DEF LedgerInv
    <2>3. NeverAhead("recv", r)' /\ NeverAhead("drop", d)'
      BY <2>1, <2>2, AheadStays
    <2>4. real'.received = r /\ real'.dropped = d
      OBVIOUS
    <2>5. QED
      BY <2>3, <2>4 DEF NeverAhead
  <1>2. raced' \/ Balance'
    <2> SUFFICES ASSUME ~raced PROVE Balance'
      OBVIOUS
    <2>1. Balance
      BY DEF LedgerInv
    <2>2. /\ \A c : Cardinality(Storing(c)') = Cardinality(Storing(c))
          /\ Cardinality(LookingUp') = Cardinality(LookingUp) /\ Cardinality(Sending') = Cardinality(Sending)
      BY Sized
    <2>3. QED
      BY <2>1, <2>2 DEF Balance
  <1>3. QED
    BY <1>1, <1>2 DEF LedgerInv

LEMMA ReceivesLedger ==
  ASSUME ShapeInv, LedgerInv, NEW w \in Workers, NEW p \in Packets, Receives(w, p)
  PROVE  LedgerInv'
  <1>1. \A v \in Workers \ {w} : worker'[v] = worker[v]
    BY WorkerStays DEF WorkerSteps
  <1>2. /\ worker[w].pc = "idle" /\ worker'[w].pc = "store" /\ worker'[w].next = "find"
        /\ worker'[w].ctr = "recv" /\ worker'[w].reg = count["recv"]
        /\ UNCHANGED <<count, raced>>
    BY ReceivesShape DEF Receives
  <1>3. Tally
    BY Tallied
  <1> PICK r, d : r = real.received /\ d = real.dropped
    OBVIOUS
  <1>4. /\ real'.received = r + 1 /\ real'.dropped = d
        /\ real'.sent = real.sent /\ real'.failed = real.failed
    BY DEF Receives, ShapeInv, CountTypes
  <1>5. /\ \A c : w \notin Storing(c)
        /\ w \notin LookingUp /\ w \notin Sending
    BY <1>2, NotStoring
  <1>6. /\ \A c : w \in Storing(c)' <=> c = "recv"
        /\ w \in LookingUp' /\ w \notin Sending'
    BY <1>2, Tallied, AboutToStoreNext
  <1>7. NeverAhead("recv", r + 1)' /\ NeverAhead("drop", d)'
    <2>1. NeverAhead("recv", r) /\ NeverAhead("drop", d) /\ r \in Nat /\ d \in Nat /\ d <= d
      BY <1>3 DEF LedgerInv, Tally
    <2>2. NeverAhead("recv", r + 1)'
      BY <1>1, <1>2, <1>5, <1>6, <2>1, Tallied, AheadLoads
    <2>3. w \notin Storing("drop") /\ w \notin Storing("drop")' /\ count'["drop"] = count["drop"]
      BY <1>2, <1>5, <1>6
    <2>4. NeverAhead("drop", d)'
      BY <1>1, <2>1, <2>3, Tallied, AheadStays
    <2>5. QED
      BY <2>2, <2>4
  <1>8. raced' \/ Balance'
    <2> SUFFICES ASSUME ~raced PROVE Balance'
      BY <1>2
    <2>1. Balance
      BY DEF LedgerInv
    <2>2. /\ Cardinality(Storing("recv")') = Cardinality(Storing("recv")) + 1
          /\ \A c : c # "recv" => Cardinality(Storing(c)') = Cardinality(Storing(c))
          /\ Cardinality(LookingUp') = Cardinality(LookingUp) + 1
          /\ Cardinality(Sending') = Cardinality(Sending)
          /\ Cardinality(LookingUp) \in Nat /\ Cardinality(Sending) \in Nat
          /\ \A c : Cardinality(Storing(c)) \in Nat
      BY <1>1, <1>5, <1>6, Sized
    <2>3. /\ Cardinality(Storing("recv")') = Cardinality(Storing("recv")) + 1
          /\ Cardinality(Storing("drop")') = Cardinality(Storing("drop"))
          /\ Cardinality(Storing("forward")') = Cardinality(Storing("forward"))
          /\ Cardinality(Storing("recv")) \in Nat /\ Cardinality(Storing("drop")) \in Nat
          /\ Cardinality(Storing("forward")) \in Nat
      BY <2>2
    <2>4. /\ count["recv"] + Cardinality(Storing("recv")) = r
          /\ count["drop"] + Cardinality(Storing("drop")) = d
          /\ count["forward"] + Cardinality(Storing("forward")) + Cardinality(LookingUp) = r - d
          /\ count["point"] = real.sent + real.failed + Cardinality(Sending)
      BY <2>1 DEF Balance
    <2>5. r \in Nat /\ d \in Nat
      BY <1>3 DEF Tally
    <2>6. /\ count["recv"] + Cardinality(Storing("recv")') = r + 1
          /\ count["drop"] + Cardinality(Storing("drop")') = d
      BY <1>3, <2>3, <2>4, <2>5 DEF Tally
    <2>7. count["forward"] + Cardinality(Storing("forward")') + Cardinality(LookingUp') = (r + 1) - d
      <3> PICK f, n, l : /\ f = count["forward"] /\ n = Cardinality(Storing("forward"))
                         /\ l = Cardinality(LookingUp)
        OBVIOUS
      <3>1. f \in Nat /\ n \in Nat /\ l \in Nat /\ f + n + l = r - d
        BY <1>3, <2>2, <2>3, <2>4 DEF Tally
      <3>2. Cardinality(Storing("forward")') = n /\ Cardinality(LookingUp') = l + 1
        BY <2>2, <2>3
      <3>3. f + n + (l + 1) = (r + 1) - d
        BY <2>5, <3>1
      <3>4. QED
        BY <3>2, <3>3
    <2>8. count["point"] = real'.sent + real'.failed + Cardinality(Sending')
      BY <1>4, <2>2, <2>4
    <2>9. QED
      BY <1>2, <1>4, <2>6, <2>7, <2>8 DEF Balance
  <1>9. QED
    BY <1>4, <1>7, <1>8 DEF LedgerInv, NeverAhead

LEMMA FindsNoneLedger ==
  ASSUME ShapeInv, TableTypes, LedgerInv, NEW w \in Workers, FindsNone(w)
  PROVE  LedgerInv'
  <1>1. \A v \in Workers \ {w} : worker'[v] = worker[v]
    BY WorkerStays DEF WorkerSteps
  <1>2. /\ worker[w].pc = "find" /\ worker'[w].pc = "store" /\ worker'[w].next = "idle"
        /\ worker'[w].ctr = "drop" /\ worker'[w].reg = count["drop"]
        /\ UNCHANGED <<count, raced>>
    BY FindsNoneShape DEF FindsNone
  <1>3. Tally
    BY Tallied
  <1> PICK r, d : r = real.received /\ d = real.dropped
    OBVIOUS
  <1>4. /\ real'.received = r /\ real'.dropped = d + 1
        /\ real'.sent = real.sent /\ real'.failed = real.failed
    BY DEF FindsNone, ShapeInv, CountTypes
  <1>5. /\ \A c : w \notin Storing(c)
        /\ w \in LookingUp /\ w \notin Sending
    BY <1>2, NotStoring
  <1>6. /\ \A c : w \in Storing(c)' <=> c = "drop"
        /\ w \notin LookingUp' /\ w \notin Sending'
    BY <1>2, Tallied, AboutToStoreNext
  <1>7. NeverAhead("recv", r)' /\ NeverAhead("drop", d + 1)'
    <2>1. NeverAhead("recv", r) /\ NeverAhead("drop", d) /\ r \in Nat /\ d \in Nat /\ r <= r
      BY <1>3 DEF LedgerInv, Tally
    <2>2. NeverAhead("drop", d + 1)'
      BY <1>1, <1>2, <1>5, <1>6, <2>1, Tallied, AheadLoads
    <2>3. w \notin Storing("recv") /\ w \notin Storing("recv")' /\ count'["recv"] = count["recv"]
      BY <1>2, <1>5, <1>6
    <2>4. NeverAhead("recv", r)'
      BY <1>1, <2>1, <2>3, Tallied, AheadStays
    <2>5. QED
      BY <2>2, <2>4
  <1>8. raced' \/ Balance'
    <2> SUFFICES ASSUME ~raced PROVE Balance'
      BY <1>2
    <2>1. Balance
      BY DEF LedgerInv
    <2>2. /\ Cardinality(Storing("drop")') = Cardinality(Storing("drop")) + 1
          /\ \A c : c # "drop" => Cardinality(Storing(c)') = Cardinality(Storing(c))
          /\ Cardinality(LookingUp') = Cardinality(LookingUp) - 1
          /\ Cardinality(Sending') = Cardinality(Sending)
          /\ Cardinality(LookingUp) \in Nat /\ Cardinality(Sending) \in Nat
          /\ \A c : Cardinality(Storing(c)) \in Nat
      BY <1>1, <1>5, <1>6, Sized
    <2>3. /\ Cardinality(Storing("recv")') = Cardinality(Storing("recv"))
          /\ Cardinality(Storing("drop")') = Cardinality(Storing("drop")) + 1
          /\ Cardinality(Storing("forward")') = Cardinality(Storing("forward"))
          /\ Cardinality(Storing("recv")) \in Nat /\ Cardinality(Storing("drop")) \in Nat
          /\ Cardinality(Storing("forward")) \in Nat
      BY <2>2
    <2>4. /\ count["recv"] + Cardinality(Storing("recv")) = r
          /\ count["drop"] + Cardinality(Storing("drop")) = d
          /\ count["forward"] + Cardinality(Storing("forward")) + Cardinality(LookingUp) = r - d
          /\ count["point"] = real.sent + real.failed + Cardinality(Sending)
      BY <2>1 DEF Balance
    <2>5. r \in Nat /\ d \in Nat
      BY <1>3 DEF Tally
    <2>6. /\ count["recv"] + Cardinality(Storing("recv")') = r
          /\ count["drop"] + Cardinality(Storing("drop")') = d + 1
      BY <1>3, <2>3, <2>4, <2>5 DEF Tally
    <2>7. count["forward"] + Cardinality(Storing("forward")') + Cardinality(LookingUp') = r - (d + 1)
      <3> PICK f, n, l : /\ f = count["forward"] /\ n = Cardinality(Storing("forward"))
                         /\ l = Cardinality(LookingUp)
        OBVIOUS
      <3>1. f \in Nat /\ n \in Nat /\ l \in Nat /\ f + n + l = r - d
        BY <1>3, <2>2, <2>3, <2>4 DEF Tally
      <3>2. Cardinality(Storing("forward")') = n /\ Cardinality(LookingUp') = l - 1
        BY <2>2, <2>3
      <3>3. f + n + (l - 1) = r - (d + 1)
        BY <2>5, <3>1
      <3>4. QED
        BY <3>2, <3>3
    <2>8. count["point"] = real'.sent + real'.failed + Cardinality(Sending')
      BY <1>4, <2>2, <2>4
    <2>9. QED
      BY <1>2, <1>4, <2>6, <2>7, <2>8 DEF Balance
  <1>9. QED
    BY <1>4, <1>7, <1>8 DEF LedgerInv, NeverAhead

\* A step to the store of "forward" or "point".
LEMMA CountsLedger ==
  ASSUME ShapeInv, LedgerInv, NEW w \in Workers, \A v \in Workers \ {w} : worker'[v] = worker[v],
         UNCHANGED <<count, raced, real>>,
         NEW k \in {"forward", "point"}, worker[w].pc = IF k = "forward" THEN "copy" ELSE "send",
         worker'[w].pc = "store", worker'[w].ctr = k, worker'[w].next # "find"
  PROVE  LedgerInv'
  <1>1. Tally
    BY Tallied
  <1>2. /\ \A c : w \notin Storing(c)
        /\ w \in LookingUp <=> k = "forward"
        /\ w \notin Sending
    BY NotStoring
  <1>3. /\ \A c : w \in Storing(c)' <=> c = k
        /\ w \notin LookingUp' /\ w \notin Sending'
    BY Tallied, AboutToStoreNext
  <1> PICK r, d : r = real.received /\ d = real.dropped
    OBVIOUS
  <1>4. real'.received = r /\ real'.dropped = d
    OBVIOUS
  <1>5. NeverAhead("recv", r)' /\ NeverAhead("drop", d)'
    <2>1. /\ NeverAhead("recv", r) /\ NeverAhead("drop", d) /\ r \in Nat /\ d \in Nat /\ r <= r /\ d <= d
          /\ \A c \in {"recv", "drop"} : w \notin Storing(c) /\ w \notin Storing(c)' /\ count'[c] = count[c]
      BY <1>1, <1>2, <1>3 DEF LedgerInv, Tally
    <2>2. QED
      BY <2>1, Tallied, AheadStays
  <1>6. raced' \/ Balance'
    <2> SUFFICES ASSUME ~raced PROVE Balance'
      OBVIOUS
    <2>1. Balance
      BY DEF LedgerInv
    <2>2. /\ Cardinality(Storing(k)') = Cardinality(Storing(k)) + 1
          /\ \A c : c # k => Cardinality(Storing(c)') = Cardinality(Storing(c))
          /\ k = "forward" => Cardinality(LookingUp') = Cardinality(LookingUp) - 1
          /\ k = "point" => Cardinality(LookingUp') = Cardinality(LookingUp)
          /\ Cardinality(Sending') = Cardinality(Sending)
          /\ Cardinality(LookingUp) \in Nat /\ Cardinality(Sending) \in Nat
          /\ \A c : Cardinality(Storing(c)) \in Nat
      BY <1>2, <1>3, Sized
    <2>3. CASE k = "forward"
      BY <1>1, <2>1, <2>2, <2>3 DEF Balance, Tally
    <2>4. CASE k = "point"
      BY <1>1, <2>1, <2>2, <2>4 DEF Balance, Tally
    <2>5. QED
      BY <2>3, <2>4
  <1>7. QED
    BY <1>4, <1>5, <1>6 DEF LedgerInv, NeverAhead

\* A copy is sent, or is not.
LEMMA SocketLedger ==
  ASSUME ShapeInv, LedgerInv, NEW w \in Workers, \A v \in Workers \ {w} : worker'[v] = worker[v],
         UNCHANGED <<count, raced>>, worker[w].pc = "socket", Shape(w)', worker'[w].pc \in {"send", "idle"},
         real'.received = real.received, real'.dropped = real.dropped,
         real'.sent + real'.failed = real.sent + real.failed + 1
  PROVE  LedgerInv'
  <1>1. Tally
    BY Tallied
  <1>2. /\ \A c : w \notin Storing(c)
        /\ w \notin LookingUp /\ w \in Sending
    BY NotStoring
  <1>3. /\ \A c : w \notin Storing(c)'
        /\ w \notin LookingUp' /\ w \notin Sending'
    <2>1. worker'[w].pc # "store" /\ worker'[w].pc \notin {"find", "cnt", "idx", "port", "copy", "socket"}
      OBVIOUS
    <2>2. QED
      BY <2>1, NotStoringNext
  <1> PICK r, d : r = real.received /\ d = real.dropped
    OBVIOUS
  <1>4. NeverAhead("recv", r)' /\ NeverAhead("drop", d)'
    <2>1. /\ NeverAhead("recv", r) /\ NeverAhead("drop", d) /\ r \in Nat /\ d \in Nat /\ r <= r /\ d <= d
          /\ \A c \in {"recv", "drop"} : w \notin Storing(c) /\ w \notin Storing(c)' /\ count'[c] = count[c]
      BY <1>1, <1>2, <1>3 DEF LedgerInv, Tally
    <2>2. QED
      BY <2>1, Tallied, AheadStays
  <1>5. raced' \/ Balance'
    <2> SUFFICES ASSUME ~raced PROVE Balance'
      OBVIOUS
    <2>1. Balance
      BY DEF LedgerInv
    <2>2. /\ \A c : Cardinality(Storing(c)') = Cardinality(Storing(c))
          /\ Cardinality(LookingUp') = Cardinality(LookingUp)
          /\ Cardinality(Sending') = Cardinality(Sending) - 1
          /\ Cardinality(LookingUp) \in Nat /\ Cardinality(Sending) \in Nat
          /\ \A c : Cardinality(Storing(c)) \in Nat
      BY <1>2, <1>3, Sized
    <2>3. count["point"] = real'.sent + real'.failed + Cardinality(Sending')
      BY <1>1, <2>1, <2>2 DEF Balance, Tally
    <2>4. QED
      BY <2>1, <2>2, <2>3 DEF Balance
  <1>6. QED
    BY <1>4, <1>5 DEF LedgerInv, NeverAhead

LEMMA StoresLedger ==
  ASSUME ShapeInv, LedgerInv, NEW w \in Workers, Stores(w)
  PROVE  LedgerInv'
  <1>1. \A v \in Workers \ {w} : worker'[v] = worker[v]
    BY WorkerStays DEF WorkerSteps
  <1> PICK k, reg : k = worker[w].ctr /\ reg = worker[w].reg
    OBVIOUS
  <1>2. /\ worker[w].pc = "store" /\ Shape(w)' /\ worker'[w].pc = worker[w].next
        /\ count' = [count EXCEPT ![k] = reg + 1] /\ raced' = (raced \/ count[k] # reg) /\ UNCHANGED real
    BY StoresShape DEF Stores
  <1>3. /\ Tally /\ "recv" \in Counters /\ "drop" \in Counters
        /\ count \in [Counters -> Nat]
    BY Tallied DEF ShapeInv, CountTypes
  <1>4. /\ \A c : w \in Storing(c) <=> c = k
        /\ w \in LookingUp <=> k = "recv"
        /\ w \notin Sending
        /\ k \in Counters /\ worker'[w].pc = After(k) /\ reg \in Nat
    BY <1>2, AboutToStore
  <1>5. /\ \A c : w \notin Storing(c)'
        /\ w \in LookingUp' <=> k = "recv"
        /\ w \in Sending' <=> k = "point"
    <2>1. /\ worker'[w].pc # "store"
          /\ worker'[w].pc \in {"find", "cnt", "idx", "port", "copy"} <=> k = "recv"
          /\ worker'[w].pc = "socket" <=> k = "point"
      BY <1>4 DEF After, Counters
    <2>2. QED
      BY <1>2, <2>1, NotStoringNext
  <1>6. \A c \in Counters : count'[c] = IF c = k THEN reg + 1 ELSE count[c]
    BY <1>2, <1>3, <1>4
  <1> PICK r, d : r = real.received /\ d = real.dropped
    OBVIOUS
  <1>7. real'.received = r /\ real'.dropped = d
    BY <1>2
  <1>8. ASSUME NEW c \in {"recv", "drop"}, NEW n \in Nat, NeverAhead(c, n) PROVE NeverAhead(c, n)'
    <2>1. c \in Counters /\ n <= n
      BY <1>3
    <2>2. CASE c = k
      <3>1. w \in Storing(c) /\ w \notin Storing(c)' /\ count'[c] = worker[w].reg + 1
        BY <1>4, <1>5, <1>6, <2>1, <2>2
      <3>2. QED
        BY <1>1, <1>8, <2>1, <3>1, AheadStores
    <2>3. CASE c # k
      <3>1. w \notin Storing(c) /\ w \notin Storing(c)' /\ count'[c] = count[c]
        BY <1>4, <1>5, <1>6, <2>1, <2>3
      <3>2. QED
        BY <1>1, <1>8, <2>1, <3>1, AheadStays
    <2>4. QED
      BY <2>2, <2>3
  <1>9. NeverAhead("recv", r)' /\ NeverAhead("drop", d)'
    BY <1>3, <1>8 DEF LedgerInv, Tally
  <1>10. raced' \/ Balance'
    <2> SUFFICES ASSUME ~raced' PROVE Balance'
      OBVIOUS
    <2>1. Balance /\ count[k] = reg
      BY <1>2 DEF LedgerInv
    <2>2. /\ Cardinality(Storing(k)') = Cardinality(Storing(k)) - 1
          /\ \A c : c # k => Cardinality(Storing(c)') = Cardinality(Storing(c))
          /\ Cardinality(LookingUp') = Cardinality(LookingUp)
          /\ k = "point" => Cardinality(Sending') = Cardinality(Sending) + 1
          /\ k # "point" => Cardinality(Sending') = Cardinality(Sending)
          /\ Cardinality(LookingUp) \in Nat /\ Cardinality(Sending) \in Nat
          /\ \A c : Cardinality(Storing(c)) \in Nat
      BY <1>1, <1>4, <1>5, Sized
    <2>3. /\ count'[k] = count[k] + 1 /\ \A c \in Counters : c # k => count'[c] = count[c]
      BY <1>4, <1>6, <2>1
    <2>4. ASSUME NEW c \in Counters, c # "point"
          PROVE  count'[c] + Cardinality(Storing(c)') = count[c] + Cardinality(Storing(c))
      <3>1. count[c] \in Nat /\ Cardinality(Storing(c)) \in Nat
        BY <1>3, <2>2
      <3>2. CASE c = k
        <4>1. /\ count'[c] = count[c] + 1
              /\ Cardinality(Storing(c)') = Cardinality(Storing(c)) - 1
          BY <2>2, <2>3, <3>2
        <4>2. QED
          BY <3>1, <4>1
      <3>3. CASE c # k
        BY <2>2, <2>3, <3>3
      <3>4. QED
        BY <3>2, <3>3
    <2>5. count'["point"] = real.sent + real.failed + Cardinality(Sending')
      <3>1. CASE k = "point"
        BY <1>3, <2>1, <2>2, <2>3, <3>1 DEF Balance, Tally
      <3>2. CASE k # "point"
        BY <2>1, <2>2, <2>3, <3>2, Tallied DEF Balance
      <3>3. QED
        BY <3>1, <3>2
    <2>6. /\ count'["recv"] + Cardinality(Storing("recv")') = r
          /\ count'["drop"] + Cardinality(Storing("drop")') = d
          /\ count'["forward"] + Cardinality(Storing("forward")') = count["forward"] + Cardinality(Storing("forward"))
      BY <2>1, <2>4, Tallied DEF Balance
    <2>7. count'["forward"] + Cardinality(Storing("forward")') + Cardinality(LookingUp') = r - d
      BY <2>1, <2>2, <2>6 DEF Balance
    <2>8. QED
      BY <1>2, <1>7, <2>5, <2>6, <2>7 DEF Balance
  <1>11. QED
    BY <1>7, <1>9, <1>10 DEF LedgerInv, NeverAhead

LEMMA WorkerLedger ==
  ASSUME BaseInv, LedgerInv, NEW w \in Workers, WorkerSteps(w)
  PROVE  LedgerInv'
  <1>1. ShapeInv /\ TableTypes /\ NoGaps /\ ShapeInv'
    BY WorkerShape DEF BaseInv, TableInv
  <1>2. \A v \in Workers \ {w} : worker'[v] = worker[v]
    BY <1>1, WorkerStays
  <1>3. Shape(w)'
    BY <1>1 DEF ShapeInv
  <1>4. CASE \E p \in Packets : Receives(w, p)
    BY <1>1, <1>4, ReceivesLedger
  <1>5. CASE Stores(w)
    BY <1>1, <1>5, StoresLedger
  <1>6. CASE FindsNone(w)
    BY <1>1, <1>6, FindsNoneLedger
  <1>7. CASE \/ FindsRow(w) \/ ReadsCount(w) \/ ReadsIndex(w) \/ ReadsPort(w)
             \/ (Copies(w) /\ Len(worker[w].list) < worker[w].cnt)
    <2>1. UNCHANGED <<count, raced, real>>
      BY <1>7 DEF FindsRow, ReadsCount, ReadsIndex, ReadsPort, Copies, countVars
    <2>2. /\ worker[w].pc \in {"find", "cnt", "idx", "port", "copy"}
          /\ worker'[w].pc \in {"find", "cnt", "idx", "port", "copy"}
      BY <1>1, <1>7, FindsRowShape, ReadsCountShape, ReadsIndexShape, ReadsPortShape, CopiesShape
    <2>3. /\ \A c : w \notin Storing(c) /\ w \notin Storing(c)'
          /\ w \in LookingUp /\ w \in LookingUp' /\ w \notin Sending /\ w \notin Sending'
      <3>1. worker[w].pc # "store" /\ worker'[w].pc # "store" /\ worker[w].pc # "socket" /\ worker'[w].pc # "socket"
        BY <2>2
      <3>2. QED
        BY <1>1, <1>3, <2>2, <3>1, NotStoring, NotStoringNext
    <2>4. QED
      BY <1>1, <1>2, <2>1, <2>3, QuietStep
  <1>8. CASE Copies(w) /\ ~(Len(worker[w].list) < worker[w].cnt)
    <2>1. UNCHANGED <<count, raced, real>>
      BY <1>8 DEF Copies, countVars
    <2>2. /\ worker[w].pc = "copy" /\ worker'[w].pc = "store" /\ worker'[w].ctr = "forward"
          /\ worker'[w].next # "find"
      BY <1>1, <1>8, CopiedShape
    <2>3. worker[w].pc = IF "forward" = "forward" THEN "copy" ELSE "send"
      BY <2>2
    <2>4. QED
      BY <1>1, <1>2, <2>1, <2>2, <2>3, CountsLedger
  <1>9. CASE Ends(w)
    <2>1. UNCHANGED <<count, raced, real>> /\ worker[w].pc = "send" /\ Done(w)
      BY <1>9 DEF Ends, countVars, At
    <2>2. worker'[w].pc = "idle"
      BY <1>1, <2>1, EndsShape, IdleType
    <2>3. /\ \A c : w \notin Storing(c) /\ w \notin Storing(c)'
          /\ w \notin LookingUp /\ w \notin LookingUp' /\ w \notin Sending /\ w \notin Sending'
      <3>1. worker[w].pc # "store" /\ worker'[w].pc # "store"
        BY <2>1, <2>2
      <3>2. QED
        BY <1>1, <1>3, <2>1, <2>2, <3>1, NotStoring, NotStoringNext
    <2>4. QED
      BY <1>1, <1>2, <2>1, <2>3, QuietStep
  <1>10. CASE CountsFirst(w)
    <2>1. UNCHANGED <<count, raced, real>>
      BY <1>10 DEF CountsFirst, countVars
    <2>2. /\ worker[w].pc = "send" /\ worker'[w].pc = "store" /\ worker'[w].ctr = "point"
          /\ worker'[w].next # "find"
      BY <1>1, <1>10, CountsFirstShape
    <2>3. worker[w].pc = IF "point" = "forward" THEN "copy" ELSE "send"
      BY <2>2
    <2>4. QED
      BY <1>1, <1>2, <2>1, <2>2, <2>3, CountsLedger
  <1>11. CASE Sends(w)
    <2>1. /\ UNCHANGED <<count, raced>> /\ worker[w].pc = "socket" /\ worker'[w].pc = "send"
          /\ real'.received = real.received /\ real'.dropped = real.dropped
          /\ real'.sent = real.sent + 1 /\ real'.failed = real.failed
      BY <1>1, <1>11, SendsShape DEF Sends
    <2>2. real'.sent + real'.failed = real.sent + real.failed + 1
      BY <1>1, <2>1, Tallied DEF Tally
    <2>3. QED
      BY <1>1, <1>2, <1>3, <2>1, <2>2, SocketLedger
  <1>12. CASE SendFails(w) \/ NoSocket(w)
    <2>1. /\ UNCHANGED <<count, raced>> /\ worker[w].pc = "socket" /\ worker'[w].pc = "idle"
          /\ real'.received = real.received /\ real'.dropped = real.dropped
          /\ real'.sent = real.sent /\ real'.failed = real.failed + 1
      BY <1>1, <1>12, FailsShape, IdleType
    <2>2. real'.sent + real'.failed = real.sent + real.failed + 1
      BY <1>1, <2>1, Tallied DEF Tally
    <2>3. QED
      BY <1>1, <1>2, <1>3, <2>1, <2>2, SocketLedger
  <1>13. QED
    BY <1>4, <1>5, <1>6, <1>7, <1>8, <1>9, <1>10, <1>11, <1>12 DEF WorkerSteps

LEMMA ReloadLedger ==
  ASSUME ShapeInv, LedgerInv, ReloadSteps
  PROVE  LedgerInv'
  <1>1. UNCHANGED <<count, raced, real>>
    BY Marks DEF countVars
  <1>2. /\ \A c : Storing(c)' = Storing(c)
        /\ LookingUp' = LookingUp /\ Sending' = Sending
    BY Marks DEF Marked, Storing, LookingUp, LooksUp, Sending, At
  <1>3. \A c : \A w \in Storing(c) : worker'[w].reg = worker[w].reg
    BY Marks DEF Marked, Storing
  <1>4. QED
    BY <1>1, <1>2, <1>3 DEF LedgerInv, NeverAhead, Balance

LEMMA InitLedger ==
  ASSUME ForwardInit
  PROVE  LedgerInv
  <1>1. \A w \in Workers : worker[w].pc = "idle" /\ worker[w].next = "idle"
    BY IdleType DEF ForwardInit
  <1>2. (\A c : Storing(c) = {}) /\ LookingUp = {} /\ Sending = {}
    BY <1>1 DEF Storing, LookingUp, LooksUp, Sending, At
  <1>3. Cardinality({}) = 0
    BY FS_EmptySet
  <1>4. /\ real = [received |-> 0, dropped |-> 0, sent |-> 0, failed |-> 0]
        /\ count["recv"] = 0 /\ count["drop"] = 0 /\ count["forward"] = 0 /\ count["point"] = 0
    BY Tallied DEF ForwardInit, Counters
  <1>5. \A c : Cardinality(Storing(c)) = 0
    BY <1>2, <1>3
  <1>6. Cardinality(LookingUp) = 0 /\ Cardinality(Sending) = 0
    BY <1>2, <1>3
  <1>7. real.received = 0 /\ real.dropped = 0 /\ real.sent = 0 /\ real.failed = 0
    BY <1>4
  <1>8. NeverAhead("recv", real.received) /\ NeverAhead("drop", real.dropped)
    BY <1>2, <1>4, <1>5, <1>7 DEF NeverAhead
  <1>9. Balance
    BY <1>4, <1>5, <1>6, <1>7 DEF Balance
  <1>10. QED
    BY <1>8, <1>9 DEF LedgerInv

\* The statistics add up: while no increment has been lost, every packet is counted as received
\* and then as dropped or forwarded, and every copy as transmitted; and without the qualification
\* received and dropped never run ahead of what there was to count, although the workers
\* increment them without a lock.
THEOREM StatisticsAddUp == ForwardSpec => []CountersExact
  <1>1. ForwardInit => BaseInv /\ LedgerInv
    BY InitTable, InitShape, InitLedger DEF BaseInv
  <1>2. BaseInv /\ LedgerInv /\ [ForwardNext]_forwardVars => BaseInv' /\ LedgerInv'
    <2> SUFFICES ASSUME BaseInv, LedgerInv, [ForwardNext]_forwardVars PROVE LedgerInv'
      BY BaseStep
    <2>1. CASE ReloadSteps
      BY <2>1, ReloadLedger DEF BaseInv
    <2>2. CASE \E w \in Workers : WorkerSteps(w)
      BY <2>2, WorkerLedger
    <2>3. CASE UNCHANGED forwardVars
      <3>1. UNCHANGED <<worker, count, raced, real>>
        BY <2>3 DEF forwardVars, countVars
      <3>2. /\ \A c : Storing(c)' = Storing(c)
            /\ LookingUp' = LookingUp /\ Sending' = Sending
        BY <3>1 DEF Storing, LookingUp, LooksUp, Sending, At
      <3>3. QED
        BY <3>1, <3>2 DEF LedgerInv, NeverAhead, Balance
    <2>4. QED
      BY <2>1, <2>2, <2>3 DEF ForwardNext
  <1>3. BaseInv /\ LedgerInv => CountersExact
    <2> SUFFICES ASSUME BaseInv, LedgerInv PROVE CountersExact
      OBVIOUS
    <2>1. Tally /\ ShapeInv
      BY Tallied DEF BaseInv
    <2>2. \A c : Storing(c) \in SUBSET Workers /\ Cardinality(Storing(c)) \in Nat
      <3>1. ASSUME NEW c PROVE Storing(c) \in SUBSET Workers /\ Cardinality(Storing(c)) \in Nat
        <4>1. Storing(c) \in SUBSET Workers
          BY DEF Storing
        <4>2. IsFiniteSet(Storing(c))
          BY <4>1, ForwardAssumption, FS_Subset DEF ForwardAssumption
        <4>3. QED
          BY <4>1, <4>2, FS_CardinalityType
      <3>2. QED
        BY <3>1
    <2>3. count["recv"] <= real.received /\ count["drop"] <= real.dropped
      BY <2>1, <2>2 DEF LedgerInv, NeverAhead, Tally
    <2>4. ASSUME \A w \in Workers : At(w, "idle"), ~raced
          PROVE  /\ count["recv"] = real.received /\ count["drop"] = real.dropped
                 /\ count["forward"] = real.received - real.dropped
                 /\ count["point"] = real.sent + real.failed
      <3>1. (\A c : Storing(c) = {}) /\ LookingUp = {} /\ Sending = {}
        <4>1. \A w \in Workers : worker[w].pc = "idle" /\ worker[w].next = "idle"
          BY <2>1, <2>4 DEF At, ShapeInv, Shape
        <4>2. QED
          BY <4>1 DEF Storing, LookingUp, LooksUp, Sending, At
      <3>2. Balance /\ Cardinality({}) = 0
        BY <2>4, FS_EmptySet DEF LedgerInv
      <3>3. /\ Cardinality(Storing("recv")) = 0 /\ Cardinality(Storing("drop")) = 0
            /\ Cardinality(Storing("forward")) = 0
            /\ Cardinality(LookingUp) = 0 /\ Cardinality(Sending) = 0
        BY <3>1, <3>2
      <3>4. /\ count["recv"] + 0 = real.received /\ count["drop"] + 0 = real.dropped
            /\ count["forward"] + 0 + 0 = real.received - real.dropped
            /\ count["point"] = real.sent + real.failed + 0
        BY <3>2, <3>3 DEF Balance
      <3>5. QED
        BY <2>1, <3>4 DEF Tally
    <2>5. QED
      BY <2>3, <2>4 DEF CountersExact
  <1>4. QED
    BY <1>1, <1>2, <1>3, PTL DEF ForwardSpec

-----------------------------------------------------------------------------
(* The Windows proxy                                                       *)

QueueType ==
  pkt_queue \in [Queues -> [node : [0 .. QUEUE_SIZE - 1 -> Nat], head : 0 .. QUEUE_SIZE - 1,
                            tail : 0 .. QUEUE_SIZE - 1, element_count : Int]]

MainType ==
  winmain \in [pc : {"create", "next", "cpus", "limit", "handlers", "wait", "gone"},
               d : 1 .. Devices, q : Nat, cpus : Processors]

CapturePcs == {"none", "open", "finish", "loop", "copy", "tail", "count", "store", "ended"}
EnQueuePcs == {"copy", "tail", "count", "store"}

CaptureType ==
  /\ capture \in [Captures -> [pc : CapturePcs, q : Nat, pkt : Nat, reg : Int]]
  /\ \A d \in Captures : capture[d].pc \in EnQueuePcs => capture[d].q \in Queues

HandlerPcs == {"none", "poll", "head", "store", "handle", "ended"}

HandlerType == handler \in [Queues -> [pc : HandlerPcs, pkt : Nat, reg : Int]]

OtherType ==
  /\ gqueue_num \in Nat
  /\ alldevs \in {"held", "freed"} /\ finish_flag \in Nat /\ openFailed \in BOOLEAN
  /\ captured \in Nat
  /\ put \in [Queues -> Seq(Nat)] /\ handled \in [Queues -> Seq(Nat)]

WinTypeOK == QueueType /\ MainType /\ CaptureType /\ HandlerType /\ OtherType

-----------------------------------------------------------------------------
(* Threads and the list of devices                                         *)

ThroughPcs == {"loop", "copy", "tail", "count", "store"}
Through == {d \in Captures : capture[d].pc \in ThroughPcs}

\* entry creates every thread once, in order; a capture thread has a queue only when it is
\* past the list of devices; no thread outlives the process.
ThreadsInv ==
  /\ winmain.pc # "gone" =>
       /\ \A d \in Captures :
            /\ d > winmain.d \/ (d = winmain.d /\ winmain.pc = "create") => capture[d].pc = "none"
            /\ capture[d].q \in Queues => d \in Through
       /\ \A q \in Queues :
            /\ handler[q].pc # "ended"
            /\ winmain.pc \in {"create", "next", "cpus", "limit"} => handler[q].pc = "none"
            /\ winmain.pc = "handlers" /\ q >= winmain.q => handler[q].pc = "none"
  /\ winmain.pc = "gone" =>
       /\ \A d \in Captures : capture[d].pc = "ended"
       /\ \A q \in Queues : handler[q].pc = "ended"

(***************************************************************************)
(* finish_flag counts the capture threads that have read the list, and     *)
(* entry has not created the last one (ThreadsInv) while it reads it: the  *)
(* list is freed after all of them, but for entry's last step.             *)
(***************************************************************************)
DevicesInv ==
  ~openFailed =>
    /\ winmain.pc # "gone" =>
         /\ finish_flag = Cardinality(Through)
         /\ alldevs = "freed" => finish_flag >= Devices
    /\ ListOutlivesReaders

-----------------------------------------------------------------------------
(* The rings                                                               *)

Wrap(i) == IF i < QUEUE_SIZE THEN i ELSE i - QUEUE_SIZE

(***************************************************************************)
(* A ring with one writer at x, or no writer ("loop"), and a handler h,    *)
(* when the packets p have been put into it and s handled.  Taken have     *)
(* been copied by the handler, Moved are behind the head, Counted are      *)
(* subtracted from element_count.                                          *)
(***************************************************************************)
Taken(s, h) == IF h.pc \in {"head", "store", "handle"} THEN Len(s) + 1 ELSE Len(s)
Moved(s, h) == IF h.pc \in {"store", "handle"} THEN Len(s) + 1 ELSE Len(s)
Counted(s, h) == IF h.pc = "handle" THEN Len(s) + 1 ELSE Len(s)

RingInv(ring, p, s, h, x, reg) ==
  /\ Taken(s, h) <= Len(p)
  /\ ring.element_count =
       (IF x \in {"tail", "count", "store"} THEN Len(p) - 1 ELSE Len(p)) - Counted(s, h)
  /\ Len(p) - Counted(s, h) <= (IF x = "copy" THEN QUEUE_SIZE - 1 ELSE QUEUE_SIZE)
  /\ x # "tail" => ring.tail = Wrap(ring.head + (Len(p) - Moved(s, h)))
  /\ x = "tail" => reg = ring.tail /\ Wrap(reg + 1) = Wrap(ring.head + (Len(p) - Moved(s, h)))
  /\ \A i \in Taken(s, h) + 1 .. Len(p) :
       ring.node[Wrap(ring.head + (i - 1 - Moved(s, h)))] = p[i]
  /\ h.pc \in {"head", "store", "handle"} => h.pkt = p[Len(s) + 1]
  /\ \A i \in 1 .. Len(s) : s[i] = p[i]

Writers(q) == {d \in Captures : InEnQueue(d, q)}
RingAt(q, x, reg) == RingInv(pkt_queue[q], put[q], handled[q], handler[q], x, reg)

\* In a queue whose updates have not overlapped there is one writer at most.
QueueInv(q) ==
  /\ \A d, e \in Writers(q) : d = e
  /\ Writers(q) = {} => RingAt(q, "loop", 0)
  /\ \A d \in Writers(q) : RingAt(q, capture[d].pc, capture[d].reg)

PrefixInv == \A q \in Queues \ overlapped : IsPrefix(handled[q], put[q])

RingsInv == winmain.pc # "gone" => \A q \in Queues \ overlapped : QueueInv(q)

-----------------------------------------------------------------------------
(* Division, which the provers find hard with a divisor that is not a number *)

LEMMA ModSmall ==
  ASSUME NEW S \in Nat \ {0}, NEW i \in 0 .. S - 1
  PROVE  i % S = i
  BY SMT

LEMMA ModOnce ==
  ASSUME NEW S \in Nat \ {0}, NEW i \in S .. 2 * S - 1
  PROVE  i % S = i - S
  BY SMT

LEMMA ModWrap ==
  ASSUME NEW i \in 0 .. 2 * QUEUE_SIZE - 1
  PROVE  i % QUEUE_SIZE = Wrap(i) /\ Wrap(i) \in 0 .. QUEUE_SIZE - 1
  <1>1. QUEUE_SIZE \in Nat \ {0}
    BY WinAssumption
  <1>2. CASE i < QUEUE_SIZE
    BY <1>1, <1>2, ModSmall DEF Wrap
  <1>3. CASE i >= QUEUE_SIZE
    BY <1>1, <1>3, ModOnce DEF Wrap
  <1>4. QED
    BY <1>1, <1>2, <1>3

-----------------------------------------------------------------------------
(* Types                                                                   *)

LEMMA TypeInit == WinInit => WinTypeOK
  <1> SUFFICES ASSUME WinInit PROVE WinTypeOK
    OBVIOUS
  <1>1. QueueType
    BY WinAssumption DEF WinInit, QueueType, EmptyQueue
  <1>2. MainType
    BY WinAssumption DEF WinInit, MainType
  <1>3. CaptureType
    BY WinAssumption DEF WinInit, CaptureType, CapturePcs, EnQueuePcs, Captures, Queues
  <1>4. HandlerType
    BY DEF WinInit, HandlerType, HandlerPcs
  <1>5. OtherType
    <2>1. <<>> \in Seq(Nat) /\ gqueue_num \in Nat
      BY WinAssumption DEF WinInit
    <2>2. QED
      BY <2>1 DEF WinInit, OtherType
  <1>6. QED
    BY <1>1, <1>2, <1>3, <1>4, <1>5 DEF WinTypeOK

LEMMA MainTypes == WinTypeOK /\ MainSteps => WinTypeOK'
  <1> SUFFICES ASSUME WinTypeOK, MainSteps PROVE WinTypeOK'
    OBVIOUS
  <1> USE DEF WinTypeOK, queueVars, deviceVars, MainAt
  <1>1. CASE CreatesCapture
    <2>1. CaptureType'
      BY <1>1 DEF CreatesCapture, CaptureType, CapturePcs, EnQueuePcs
    <2>2. QED
      BY <1>1, <2>1 DEF CreatesCapture, QueueType, MainType, HandlerType, OtherType
  <1>2. CASE TakesNext
    <2>1. MainType'
      <3>1. CASE winmain.d < Devices
        <4>1. winmain' = [winmain EXCEPT !.pc = "create", !.d = @ + 1]
          BY <1>2, <3>1 DEF TakesNext
        <4>2. winmain.d + 1 \in 1 .. Devices
          BY <3>1, WinAssumption DEF MainType
        <4>3. QED
          BY <4>1, <4>2 DEF MainType
      <3>2. CASE ~(winmain.d < Devices)
        BY <1>2, <3>2 DEF TakesNext, MainType
      <3>3. QED
        BY <3>1, <3>2
    <2>2. QED
      BY <1>2, <2>1 DEF TakesNext, QueueType, CaptureType, HandlerType, OtherType
  <1>3. CASE CountsProcessors
    <2>1. gqueue_num' \in Nat
      BY <1>3, WinAssumption DEF CountsProcessors, MainType
    <2>2. QED
      BY <1>3, <2>1 DEF CountsProcessors, QueueType, MainType, CaptureType, HandlerType, OtherType
  <1>4. CASE LimitsQueues
    <2>1. gqueue_num' \in Nat
      BY <1>4, WinAssumption DEF LimitsQueues, OtherType
    <2>2. QED
      BY <1>4, <2>1 DEF LimitsQueues, QueueType, MainType, CaptureType, HandlerType, OtherType
  <1>5. CASE CreatesHandler
    <2>1. HandlerType'
      BY <1>5 DEF CreatesHandler, HandlerType, HandlerPcs
    <2>2. MainType'
      BY <1>5 DEF CreatesHandler, MainType
    <2>3. QED
      BY <1>5, <2>1, <2>2 DEF CreatesHandler, QueueType, CaptureType, OtherType
  <1>6. CASE CreationFails
    <2>1. CaptureType' /\ HandlerType'
      BY <1>6 DEF CreationFails, CaptureType, CapturePcs, EnQueuePcs, HandlerType, HandlerPcs
    <2>2. QED
      BY <1>6, <2>1 DEF CreationFails, QueueType, MainType, OtherType
  <1>7. QED
    BY <1>1, <1>2, <1>3, <1>4, <1>5, <1>6 DEF MainSteps

LEMMA CaptureTypes ==
  ASSUME WinTypeOK, NEW d \in Captures, CaptureSteps(d)
  PROVE  WinTypeOK'
  <1> USE DEF WinTypeOK, queueVars, deviceVars, CaptureAt
  <1>1. CASE OpensDevice(d)
    <2>1. CaptureType'
      BY <1>1 DEF OpensDevice, CaptureType, CapturePcs, EnQueuePcs
    <2>2. QED
      BY <1>1, <2>1 DEF OpensDevice, QueueType, MainType, HandlerType, OtherType
  <1>2. CASE OpenFails(d)
    <2>1. CaptureType'
      BY <1>2 DEF OpenFails, CaptureType, CapturePcs, EnQueuePcs
    <2>2. QED
      BY <1>2, <2>1 DEF OpenFails, QueueType, MainType, HandlerType, OtherType
  <1>3. CASE Finishes(d)
    <2>1. CaptureType'
      BY <1>3 DEF Finishes, CaptureType, CapturePcs, EnQueuePcs
    <2>2. QED
      BY <1>3, <2>1 DEF Finishes, QueueType, MainType, HandlerType, OtherType
  <1>4. CASE ChoosesQueue(d)
    <2>1. CaptureType'
      <3>1. PICK q \in Queues :
              capture' = capture
                \/ capture' = [capture EXCEPT ![d] = [@ EXCEPT !.pc = "copy", !.q = q, !.pkt = captured']]
        BY <1>4 DEF ChoosesQueue
      <3>2. q \in Nat /\ captured' \in Nat
        BY <1>4, WinAssumption DEF ChoosesQueue, OtherType, Queues
      <3>3. QED
        BY <3>1, <3>2 DEF CaptureType, CapturePcs, EnQueuePcs
    <2>2. QED
      BY <1>4, <2>1, SMTT(30) DEF ChoosesQueue, QueueType, MainType, HandlerType, OtherType
  <1>5. CASE WritesOutside(d)
    BY <1>5 DEF WritesOutside, QueueType, MainType, CaptureType, HandlerType, OtherType
  <1>6. CASE EnQueueCopies(d)
    <2>1. capture[d].q \in Queues /\ capture[d].pkt \in Nat
      BY <1>6 DEF EnQueueCopies, CaptureType, EnQueuePcs
    <2>2. pkt_queue[capture[d].q].tail \in 0 .. QUEUE_SIZE - 1
      BY <2>1 DEF QueueType
    <2>3. QueueType'
      BY <1>6, <2>1, <2>2 DEF EnQueueCopies, QueueType
    <2>4. CaptureType'
      <3>1. capture' = [capture EXCEPT ![d].pc = "tail", ![d].reg = pkt_queue[capture[d].q].tail]
        BY <1>6 DEF EnQueueCopies
      <3>2. pkt_queue[capture[d].q].tail \in Int
        BY <2>2, WinAssumption
      <3>3. QED
        BY <2>1, <3>1, <3>2 DEF CaptureType, CapturePcs, EnQueuePcs
    <2>5. QED
      BY <1>6, <2>1, <2>3, <2>4, SMTT(30) DEF EnQueueCopies, MainType, HandlerType, OtherType
  <1>7. CASE EnQueueMovesTail(d)
    <2>1. capture[d].q \in Queues /\ capture[d].reg \in Int
      BY <1>7 DEF EnQueueMovesTail, CaptureType, EnQueuePcs
    <2>2. Next1(capture[d].reg) \in 0 .. QUEUE_SIZE - 1
      BY <2>1, WinAssumption DEF Next1
    <2>3. QueueType'
      BY <1>7, <2>1, <2>2 DEF EnQueueMovesTail, QueueType
    <2>4. CaptureType'
      BY <1>7 DEF EnQueueMovesTail, CaptureType, CapturePcs, EnQueuePcs
    <2>5. QED
      BY <1>7, <2>3, <2>4 DEF EnQueueMovesTail, MainType, HandlerType, OtherType
  <1>8. CASE EnQueueLoads(d)
    <2>1. CaptureType'
      BY <1>8 DEF EnQueueLoads, CaptureType, CapturePcs, EnQueuePcs, QueueType
    <2>2. QED
      BY <1>8, <2>1 DEF EnQueueLoads, QueueType, MainType, HandlerType, OtherType
  <1>9. CASE EnQueueStores(d)
    <2>1. capture[d].reg + 1 \in Int
      BY DEF CaptureType
    <2>2. QueueType'
      BY <1>9, <2>1 DEF EnQueueStores, QueueType
    <2>3. CaptureType'
      <3>1. capture' = [capture EXCEPT ![d].pc = "loop", ![d].reg = 0, ![d].pkt = 0]
        BY <1>9 DEF EnQueueStores
      <3>2. 0 \in Int
        OBVIOUS
      <3>3. QED
        BY <3>1, <3>2, ZenonT(60) DEF CaptureType, CapturePcs, EnQueuePcs
    <2>4. QED
      BY <1>9, <2>2, <2>3 DEF EnQueueStores, MainType, HandlerType, OtherType
  <1>10. QED
    BY <1>1, <1>2, <1>3, <1>4, <1>5, <1>6, <1>7, <1>8, <1>9 DEF CaptureSteps

LEMMA HandlerTypes ==
  ASSUME WinTypeOK, NEW q \in Queues, HandlerSteps(q)
  PROVE  WinTypeOK'
  <1> USE DEF WinTypeOK, queueVars, deviceVars, HandlerAt
  <1>1. CASE DeQueueCopies(q)
    <2>1. pkt_queue[q].node[pkt_queue[q].head] \in Nat
      BY DEF QueueType
    <2>2. HandlerType'
      BY <1>1, <2>1 DEF DeQueueCopies, HandlerType, HandlerPcs
    <2>3. QED
      BY <1>1, <2>2 DEF DeQueueCopies, QueueType, MainType, CaptureType, OtherType
  <1>2. CASE DeQueueMovesHead(q)
    <2>1. Next1(pkt_queue[q].head) \in 0 .. QUEUE_SIZE - 1 /\ pkt_queue[q].element_count \in Int
      BY WinAssumption DEF Next1, QueueType
    <2>2. QueueType' /\ HandlerType'
      BY <1>2, <2>1, ZenonT(60) DEF DeQueueMovesHead, QueueType, HandlerType, HandlerPcs
    <2>3. QED
      BY <1>2, <2>2 DEF DeQueueMovesHead, MainType, CaptureType, OtherType
  <1>3. CASE DeQueueStores(q)
    <2>1. handler[q].reg - 1 \in Int
      BY DEF HandlerType
    <2>2. QueueType'
      BY <1>3, <2>1 DEF DeQueueStores, QueueType
    <2>3. HandlerType'
      <3>1. handler' = [handler EXCEPT ![q].pc = "handle", ![q].reg = 0]
        BY <1>3 DEF DeQueueStores
      <3>2. 0 \in Int
        OBVIOUS
      <3>3. QED
        BY <3>1, <3>2 DEF HandlerType, HandlerPcs
    <2>4. QED
      BY <1>3, <2>2, <2>3 DEF DeQueueStores, MainType, CaptureType, OtherType
  <1>4. CASE Handles(q)
    <2>1. HandlerType'
      BY <1>4 DEF Handles, HandlerType, HandlerPcs
    <2>2. OtherType'
      BY <1>4 DEF Handles, HandlerType, OtherType
    <2>3. QED
      BY <1>4, <2>1, <2>2 DEF Handles, QueueType, MainType, CaptureType
  <1>5. QED
    BY <1>1, <1>2, <1>3, <1>4 DEF HandlerSteps

LEMMA TypeNext == WinTypeOK /\ [WinNext]_winVars => WinTypeOK'
  <1> SUFFICES ASSUME WinTypeOK, [WinNext]_winVars PROVE WinTypeOK'
    OBVIOUS
  <1>1. CASE UNCHANGED winVars
    BY <1>1 DEF winVars, queueVars, deviceVars, WinTypeOK, QueueType, MainType, CaptureType,
                HandlerType, OtherType
  <1>2. QED
    BY <1>1, MainTypes, CaptureTypes, HandlerTypes DEF WinNext

-----------------------------------------------------------------------------
(* Threads                                                                 *)

LEMMA ThreadsInit == WinInit => ThreadsInv
  <1>1. QUEUE_COUNT \notin Queues
    BY WinAssumption DEF Queues
  <1>2. QED
    BY <1>1 DEF WinInit, ThreadsInv

LEMMA ThreadsMain ==
  ASSUME WinTypeOK, ThreadsInv, MainSteps
  PROVE  ThreadsInv'
  <1> USE DEF MainAt
  <1>1. CASE CreatesCapture
    <2> DEFINE d == winmain.d
    <2>1. d \in Captures /\ winmain.pc = "create" /\ handler' = handler
      BY <1>1 DEF CreatesCapture, WinTypeOK, MainType, Captures
    <2>2. /\ \A e \in Captures : capture'[e].pc = IF e = d THEN "open" ELSE capture[e].pc
          /\ \A e \in Captures : capture'[e].q = capture[e].q
      BY <1>1 DEF CreatesCapture, WinTypeOK, CaptureType
    <2>3. winmain'.pc = "next" /\ winmain'.d = d
      BY <1>1 DEF CreatesCapture, WinTypeOK, MainType
    <2>4. capture[d].pc = "none"
      BY <2>1 DEF ThreadsInv
    <2>5. Through' = Through
      BY <2>2, <2>4 DEF Through, ThroughPcs
    <2>6. \A e \in Captures : e > d => capture'[e].pc = "none"
      BY <2>1, <2>2 DEF ThreadsInv, Captures
    <2>7. QED
      BY <2>1, <2>2, <2>3, <2>5, <2>6 DEF ThreadsInv
  <1>2. CASE TakesNext
    <2>1. winmain.pc = "next" /\ UNCHANGED <<capture, handler>>
      BY <1>2 DEF TakesNext
    <2>2. \/ winmain'.pc = "create" /\ winmain'.d = winmain.d + 1
          \/ winmain'.pc = "cpus" /\ winmain'.d = winmain.d
      BY <1>2 DEF TakesNext, WinTypeOK, MainType
    <2>3. QED
      BY <2>1, <2>2 DEF ThreadsInv, Through, WinTypeOK, MainType, Captures
  <1>3. CASE CountsProcessors \/ LimitsQueues
    <2>1. /\ winmain.pc \in {"cpus", "limit"} /\ UNCHANGED <<capture, handler>>
          /\ winmain'.pc \in {"limit", "handlers"} /\ winmain'.d = winmain.d
      BY <1>3 DEF CountsProcessors, LimitsQueues, WinTypeOK, MainType
    <2>2. QED
      BY <2>1 DEF ThreadsInv, Through
  <1>4. CASE CreatesHandler
    <2>1. winmain.pc = "handlers" /\ capture' = capture
      BY <1>4 DEF CreatesHandler
    <2>2. /\ winmain'.d = winmain.d
          /\ \/ winmain'.pc = "handlers" /\ winmain'.q = winmain.q + 1
             \/ winmain'.pc = "wait"
      BY <1>4 DEF CreatesHandler, WinTypeOK, MainType
    <2>3. \A q \in Queues : handler'[q].pc = IF q = winmain.q THEN "poll" ELSE handler[q].pc
      BY <1>4 DEF CreatesHandler, WinTypeOK, HandlerType
    <2>4. QED
      BY <2>1, <2>2, <2>3 DEF ThreadsInv, Through, WinTypeOK, MainType, Queues
  <1>5. CASE CreationFails
    <2>1. /\ winmain'.pc = "gone"
          /\ \A d \in Captures : capture'[d].pc = "ended"
          /\ \A q \in Queues : handler'[q].pc = "ended"
      BY <1>5 DEF CreationFails, WinTypeOK, MainType, CaptureType, HandlerType
    <2>2. QED
      BY <2>1 DEF ThreadsInv
  <1>6. QED
    BY <1>1, <1>2, <1>3, <1>4, <1>5 DEF MainSteps

LEMMA ThreadsCapture ==
  ASSUME WinTypeOK, ThreadsInv, NEW d \in Captures, CaptureSteps(d)
  PROVE  ThreadsInv'
  <1> USE DEF CaptureAt
  <1>1. UNCHANGED <<winmain, handler>>
    BY DEF CaptureSteps, OpensDevice, OpenFails, Finishes, ChoosesQueue, WritesOutside,
           EnQueueCopies, EnQueueMovesTail, EnQueueLoads, EnQueueStores
  <1>2. \A e \in Captures \ {d} : capture'[e] = capture[e]
    BY DEF CaptureSteps, OpensDevice, OpenFails, Finishes, ChoosesQueue, WritesOutside,
           EnQueueCopies, EnQueueMovesTail, EnQueueLoads, EnQueueStores, WinTypeOK, CaptureType
  <1>3. capture[d].pc \in {"open", "finish"} \cup ThroughPcs
    BY DEF CaptureSteps, OpensDevice, OpenFails, Finishes, ChoosesQueue, WritesOutside,
           EnQueueCopies, EnQueueMovesTail, EnQueueLoads, EnQueueStores, ThroughPcs
  <1>4. \/ capture'[d].pc \in ThroughPcs
        \/ capture[d].pc = "open" /\ capture'[d].q = capture[d].q
    <2>1. CASE OpensDevice(d) \/ OpenFails(d)
      BY <2>1 DEF OpensDevice, OpenFails, WinTypeOK, CaptureType
    <2>2. CASE Finishes(d) \/ WritesOutside(d)
      BY <2>2 DEF Finishes, WritesOutside, WinTypeOK, CaptureType, ThroughPcs
    <2>3. CASE ChoosesQueue(d)
      <3>1. capture'[d].pc \in {"loop", "copy"}
        BY <2>3 DEF ChoosesQueue, WinTypeOK, CaptureType
      <3>2. QED
        BY <3>1 DEF ThroughPcs
    <2>4. CASE EnQueueCopies(d) \/ EnQueueMovesTail(d) \/ EnQueueLoads(d) \/ EnQueueStores(d)
      BY <2>4 DEF EnQueueCopies, EnQueueMovesTail, EnQueueLoads, EnQueueStores, WinTypeOK,
                  CaptureType, ThroughPcs
    <2>5. QED
      BY <2>1, <2>2, <2>3, <2>4 DEF CaptureSteps
  <1>5. winmain.pc # "gone"
    BY <1>3 DEF ThreadsInv, ThroughPcs
  <1>6. ~(d > winmain.d \/ (d = winmain.d /\ winmain.pc = "create"))
    BY <1>3, <1>5 DEF ThreadsInv, ThroughPcs
  <1>7. \A e \in Captures : capture'[e].q \in Queues => e \in Through'
    BY <1>2, <1>4, <1>5 DEF ThreadsInv, Through, ThroughPcs
  <1>8. QED
    BY <1>1, <1>2, <1>5, <1>6, <1>7 DEF ThreadsInv

LEMMA ThreadsHandler ==
  ASSUME WinTypeOK, ThreadsInv, NEW q \in Queues, HandlerSteps(q)
  PROVE  ThreadsInv'
  <1> USE DEF HandlerSteps, DeQueueCopies, DeQueueMovesHead, DeQueueStores, Handles, HandlerAt
  <1>1. UNCHANGED <<winmain, capture>>
    OBVIOUS
  <1>2. handler[q].pc \notin {"none", "ended"}
    OBVIOUS
  <1>3. /\ handler'[q].pc \notin {"none", "ended"}
        /\ \A k \in Queues \ {q} : handler'[k] = handler[k]
    BY DEF WinTypeOK, HandlerType
  <1>4. QED
    BY <1>1, <1>2, <1>3 DEF ThreadsInv, Through

LEMMA ThreadsNext == WinTypeOK /\ ThreadsInv /\ [WinNext]_winVars => ThreadsInv'
  <1> SUFFICES ASSUME WinTypeOK, ThreadsInv, [WinNext]_winVars PROVE ThreadsInv'
    OBVIOUS
  <1>1. CASE UNCHANGED winVars
    BY <1>1 DEF winVars, ThreadsInv, Through
  <1>2. QED
    BY <1>1, ThreadsMain, ThreadsCapture, ThreadsHandler DEF WinNext

-----------------------------------------------------------------------------
(* The list of devices                                                     *)

LEMMA SomeCaptures ==
  ASSUME NEW T \in SUBSET Captures
  PROVE  /\ Cardinality(T) \in Nat
         /\ Cardinality(T) >= Devices => T = Captures
         /\ \A d \in Captures \ T : Cardinality(T \cup {d}) = Cardinality(T) + 1
  <1>1. IsFiniteSet(Captures) /\ Cardinality(Captures) = Devices
    BY FS_Interval, WinAssumption DEF Captures
  <1>2. /\ IsFiniteSet(T) /\ Cardinality(T) <= Cardinality(Captures)
        /\ Cardinality(Captures) = Cardinality(T) => T = Captures
    BY <1>1, FS_Subset
  <1>3. Cardinality(T) \in Nat
    BY <1>2, FS_CardinalityType
  <1>4. \A d \in Captures \ T : Cardinality(T \cup {d}) = Cardinality(T) + 1
    BY <1>2, FS_AddElement
  <1>5. QED
    BY <1>1, <1>2, <1>3, <1>4, WinAssumption

\* The list is not freed while a capture thread has still to read it.
LEMMA HeldForReader ==
  ASSUME DevicesInv, WinTypeOK, ~openFailed, winmain.pc # "gone", NEW d \in Captures, d \notin Through
  PROVE  alldevs # "freed"
  <1>1. Cardinality(Through) >= Devices => Through = Captures
    BY SomeCaptures DEF Through
  <1>2. QED
    BY <1>1 DEF DevicesInv

LEMMA DevicesInit == WinInit => DevicesInv
  <1> SUFFICES ASSUME WinInit PROVE DevicesInv
    OBVIOUS
  <1>1. Through = {}
    BY DEF WinInit, Through, ThroughPcs
  <1>2. Cardinality(Through) = 0
    BY <1>1, FS_EmptySet
  <1>3. QED
    BY <1>2 DEF WinInit, DevicesInv, ListOutlivesReaders

LEMMA DevicesMain ==
  ASSUME WinTypeOK, ThreadsInv, DevicesInv, MainSteps
  PROVE  DevicesInv'
  <1> USE DEF deviceVars, MainAt
  <1> SUFFICES ASSUME ~openFailed' PROVE DevicesInv'
    BY DEF DevicesInv
  <1>1. CASE CreatesCapture
    <2> DEFINE d == winmain.d
    <2>1. ~openFailed /\ winmain.pc = "create" /\ d \in Captures
      BY <1>1 DEF CreatesCapture, WinTypeOK, MainType, Captures
    <2>2. capture[d].pc = "none" /\ d \notin Through
      BY <2>1 DEF ThreadsInv, Through, ThroughPcs
    <2>3. alldevs # "freed"
      BY <2>1, <2>2, HeldForReader
    <2>4. freedReads' = freedReads
      BY <1>1, <2>3 DEF CreatesCapture, ReadsList
    <2>5. \A e \in Captures : capture'[e].pc = IF e = d THEN "open" ELSE capture[e].pc
      BY <1>1 DEF CreatesCapture, WinTypeOK, CaptureType
    <2>6. Through' = Through
      BY <2>2, <2>5 DEF Through, ThroughPcs
    <2>7. winmain'.pc = "next" /\ winmain'.d = d
      BY <1>1 DEF CreatesCapture, WinTypeOK, MainType
    <2>8. QED
      BY <1>1, <2>1, <2>3, <2>4, <2>5, <2>6, <2>7
      DEF CreatesCapture, DevicesInv, ListOutlivesReaders, WinTypeOK, MainType, Captures
  <1>2. CASE TakesNext
    <2>1. ~openFailed /\ winmain.pc = "next" /\ UNCHANGED <<capture, alldevs, finish_flag>>
      BY <1>2 DEF TakesNext
    <2>2. Through' = Through
      BY <2>1 DEF Through
    <2>3. CASE winmain.d < Devices
      <3> DEFINE e == winmain.d + 1
      <3>1. e \in Captures
        BY <2>3, WinAssumption DEF WinTypeOK, MainType, Captures
      <3>2. capture[e].pc = "none" /\ e \notin Through
        BY <2>1, <3>1 DEF ThreadsInv, Through, ThroughPcs, WinTypeOK, MainType
      <3>3. alldevs # "freed"
        BY <2>1, <3>1, <3>2, HeldForReader
      <3>4. freedReads' = freedReads
        BY <1>2, <3>3 DEF TakesNext, ReadsList
      <3>5. "main" \notin freedReads
        BY <2>1, <2>3, WinAssumption DEF DevicesInv, ListOutlivesReaders, WinTypeOK, MainType
      <3>6. winmain'.pc = "create" /\ winmain'.d = e
        BY <1>2, <2>3 DEF TakesNext, WinTypeOK, MainType
      <3>7. QED
        BY <2>1, <2>2, <3>3, <3>4, <3>5, <3>6
        DEF DevicesInv, ListOutlivesReaders, WinTypeOK, MainType, Captures
    <2>4. CASE ~(winmain.d < Devices)
      <3>1. winmain'.pc = "cpus" /\ winmain'.d = winmain.d /\ winmain.d = Devices
        BY <1>2, <2>4, WinAssumption DEF TakesNext, WinTypeOK, MainType
      <3>2. "capture" \notin freedReads'
        BY <1>2, <2>1 DEF TakesNext, ReadsList, DevicesInv, ListOutlivesReaders
      <3>3. QED
        BY <2>1, <2>2, <3>1, <3>2 DEF DevicesInv, ListOutlivesReaders, Captures
    <2>5. QED
      BY <2>3, <2>4
  <1>3. CASE CountsProcessors \/ LimitsQueues \/ CreatesHandler
    <2>1. /\ UNCHANGED <<capture, alldevs, finish_flag, openFailed, freedReads>>
          /\ winmain'.d = winmain.d /\ winmain'.pc \in {"limit", "handlers", "wait"}
          /\ winmain.pc \in {"cpus", "limit", "handlers"}
      BY <1>3 DEF CountsProcessors, LimitsQueues, CreatesHandler, WinTypeOK, MainType
    <2>2. Through' = Through
      BY <2>1 DEF Through
    <2>3. QED
      BY <2>1, <2>2 DEF DevicesInv, ListOutlivesReaders
  <1>4. CASE CreationFails
    <2>1. /\ UNCHANGED <<openFailed, freedReads>>
          /\ winmain'.d = winmain.d /\ winmain'.pc = "gone" /\ winmain.pc # "gone"
          /\ \A d \in Captures : capture'[d].pc = "ended"
      BY <1>4 DEF CreationFails, WinTypeOK, MainType, CaptureType
    <2>2. QED
      BY <2>1 DEF DevicesInv, ListOutlivesReaders
  <1>5. QED
    BY <1>1, <1>2, <1>3, <1>4 DEF MainSteps

\* A step of a capture thread that is through the list, and stays so.
LEMMA DevicesEnQueue ==
  ASSUME WinTypeOK, ThreadsInv, DevicesInv, NEW d \in Captures, d \in Through,
         UNCHANGED <<deviceVars, winmain>>,
         \A e \in Captures \ {d} : capture'[e] = capture[e],
         capture'[d].pc \in ThroughPcs
  PROVE  DevicesInv'
  <1>1. Through' = Through
    BY DEF Through
  <1>2. QED
    BY <1>1 DEF DevicesInv, ListOutlivesReaders, deviceVars

LEMMA DevicesCapture ==
  ASSUME WinTypeOK, ThreadsInv, DevicesInv, NEW d \in Captures, CaptureSteps(d)
  PROVE  DevicesInv'
  <1> USE DEF CaptureAt
  <1>1. CASE OpensDevice(d)
    <2> SUFFICES ASSUME ~openFailed' PROVE DevicesInv'
      BY DEF DevicesInv
    <2>1. /\ ~openFailed /\ capture[d].pc = "open" /\ UNCHANGED <<alldevs, finish_flag, winmain>>
          /\ \A e \in Captures : capture'[e].pc = IF e = d THEN "finish" ELSE capture[e].pc
      BY <1>1 DEF OpensDevice, WinTypeOK, CaptureType
    <2>2. winmain.pc # "gone" /\ d \notin Through /\ Through' = Through
      BY <2>1 DEF ThreadsInv, Through, ThroughPcs
    <2>3. alldevs # "freed"
      BY <2>1, <2>2, HeldForReader
    <2>4. freedReads' = freedReads
      BY <1>1, <2>3 DEF OpensDevice, ReadsList
    <2>5. QED
      BY <2>1, <2>2, <2>3, <2>4 DEF DevicesInv, ListOutlivesReaders
  <1>2. CASE OpenFails(d)
    BY <1>2 DEF OpenFails, DevicesInv
  <1>3. CASE Finishes(d)
    <2> SUFFICES ASSUME ~openFailed' PROVE DevicesInv'
      BY DEF DevicesInv
    <2>1. /\ ~openFailed /\ capture[d].pc = "finish" /\ UNCHANGED <<freedReads, winmain>>
          /\ \A e \in Captures : capture'[e].pc = IF e = d THEN "loop" ELSE capture[e].pc
      BY <1>3 DEF Finishes, WinTypeOK, CaptureType
    <2>2. winmain.pc # "gone" /\ d \notin Through /\ Through' = Through \cup {d}
      BY <2>1 DEF ThreadsInv, Through, ThroughPcs
    <2>3. Cardinality(Through') = Cardinality(Through) + 1
      BY <2>2, SomeCaptures DEF Through
    <2>4. finish_flag = Cardinality(Through) /\ alldevs # "freed"
      BY <2>1, <2>2, HeldForReader DEF DevicesInv
    <2>5. finish_flag' = Cardinality(Through') /\ (alldevs' = "freed" => finish_flag' >= Devices)
      BY <1>3, <2>3, <2>4 DEF Finishes
    <2>6. QED
      BY <2>1, <2>2, <2>5 DEF DevicesInv, ListOutlivesReaders
  <1>4. CASE ChoosesQueue(d)
    <2>1. capture[d].pc = "loop" /\ UNCHANGED <<deviceVars, winmain>>
      BY <1>4 DEF ChoosesQueue
    <2>2. /\ \A e \in Captures \ {d} : capture'[e] = capture[e]
          /\ capture'[d].pc \in {"loop", "copy"}
      BY <1>4 DEF ChoosesQueue, WinTypeOK, CaptureType
    <2>3. QED
      BY <2>1, <2>2, DevicesEnQueue DEF Through, ThroughPcs
  <1>5. CASE WritesOutside(d)
    <2>1. capture[d].pc = "loop" /\ UNCHANGED <<deviceVars, winmain, capture>>
      BY <1>5 DEF WritesOutside
    <2>2. QED
      BY <2>1, DevicesEnQueue DEF Through, ThroughPcs
  <1>6. CASE EnQueueCopies(d) \/ EnQueueMovesTail(d) \/ EnQueueLoads(d) \/ EnQueueStores(d)
    <2>1. capture[d].pc \in EnQueuePcs /\ UNCHANGED <<deviceVars, winmain>>
      BY <1>6 DEF EnQueueCopies, EnQueueMovesTail, EnQueueLoads, EnQueueStores, EnQueuePcs
    <2>2. /\ \A e \in Captures \ {d} : capture'[e] = capture[e]
          /\ capture'[d].pc \in {"loop", "tail", "count", "store"}
      BY <1>6 DEF EnQueueCopies, EnQueueMovesTail, EnQueueLoads, EnQueueStores, WinTypeOK, CaptureType
    <2>3. QED
      BY <2>1, <2>2, DevicesEnQueue DEF Through, ThroughPcs, EnQueuePcs
  <1>7. QED
    BY <1>1, <1>2, <1>3, <1>4, <1>5, <1>6 DEF CaptureSteps

LEMMA DevicesNext == WinTypeOK /\ ThreadsInv /\ DevicesInv /\ [WinNext]_winVars => DevicesInv'
  <1> SUFFICES ASSUME WinTypeOK, ThreadsInv, DevicesInv, [WinNext]_winVars PROVE DevicesInv'
    OBVIOUS
  <1>1. ASSUME UNCHANGED <<deviceVars, winmain, capture>>
        PROVE  DevicesInv'
    BY <1>1 DEF deviceVars, DevicesInv, ListOutlivesReaders, Through
  <1>2. ASSUME NEW q \in Queues, HandlerSteps(q)
        PROVE  DevicesInv'
    BY <1>1, <1>2 DEF HandlerSteps, DeQueueCopies, DeQueueMovesHead, DeQueueStores, Handles
  <1>3. CASE UNCHANGED winVars
    BY <1>1, <1>3 DEF winVars
  <1>4. QED
    BY <1>2, <1>3, DevicesMain, DevicesCapture DEF WinNext

\* The list of devices outlives its readers unless pcap_open has failed, for any number of
\* devices, however the capture threads and entry interleave: property ListOutlivesReaders.
THEOREM DeviceListOutlivesReaders == WinSpec => []ListOutlivesReaders
  <1> DEFINE Inv == WinTypeOK /\ ThreadsInv /\ DevicesInv
  <1>1. WinInit => Inv
    BY TypeInit, ThreadsInit, DevicesInit
  <1>2. Inv /\ [WinNext]_winVars => Inv'
    BY TypeNext, ThreadsNext, DevicesNext
  <1>3. Inv => ListOutlivesReaders
    BY DEF DevicesInv, ListOutlivesReaders
  <1>4. QED
    BY <1>1, <1>2, <1>3, PTL DEF WinSpec

-----------------------------------------------------------------------------
(* Positions in a ring                                                     *)

LEMMA WrapRange ==
  ASSUME NEW head \in 0 .. QUEUE_SIZE - 1, NEW n \in 0 .. QUEUE_SIZE
  PROVE  Wrap(head + n) \in 0 .. QUEUE_SIZE - 1
  BY WinAssumption DEF Wrap

LEMMA WrapNext ==
  ASSUME NEW head \in 0 .. QUEUE_SIZE - 1, NEW n \in 0 .. QUEUE_SIZE - 1
  PROVE  Wrap(Wrap(head + n) + 1) = Wrap(head + (n + 1))
  BY WinAssumption DEF Wrap

LEMMA WrapHead ==
  ASSUME NEW head \in 0 .. QUEUE_SIZE - 1, NEW n \in 1 .. QUEUE_SIZE
  PROVE  Wrap(Wrap(head + 1) + (n - 1)) = Wrap(head + n)
  BY WinAssumption DEF Wrap

LEMMA WrapDistinct ==
  ASSUME NEW head \in 0 .. QUEUE_SIZE - 1, NEW m \in 0 .. QUEUE_SIZE - 1,
         NEW n \in 0 .. QUEUE_SIZE - 1, m # n
  PROVE  Wrap(head + m) # Wrap(head + n)
  BY WinAssumption DEF Wrap

LEMMA WrapZero ==
  ASSUME NEW head \in 0 .. QUEUE_SIZE - 1
  PROVE  Wrap(head + 0) = head
  BY WinAssumption DEF Wrap

LEMMA NextIsWrap ==
  ASSUME NEW i \in 0 .. QUEUE_SIZE - 1
  PROVE  Next1(i) = Wrap(i + 1) /\ Next1(i) \in 0 .. QUEUE_SIZE - 1
  <1>1. i + 1 \in 0 .. 2 * QUEUE_SIZE - 1
    BY WinAssumption
  <1>2. QED
    BY <1>1, ModWrap DEF Next1

-----------------------------------------------------------------------------
(* One ring                                                                *)

RingRec == [node : [0 .. QUEUE_SIZE - 1 -> Nat], head : 0 .. QUEUE_SIZE - 1,
            tail : 0 .. QUEUE_SIZE - 1, element_count : Int]
HandlerRec == [pc : HandlerPcs, pkt : Nat, reg : Int]

LEMMA HandlerNumbers ==
  ASSUME NEW s \in Seq(Nat), NEW h \in HandlerRec
  PROVE  /\ Len(s) \in Nat /\ Taken(s, h) \in Nat /\ Moved(s, h) \in Nat /\ Counted(s, h) \in Nat
         /\ Len(s) <= Counted(s, h) /\ Counted(s, h) <= Moved(s, h)
         /\ Moved(s, h) <= Taken(s, h) /\ Taken(s, h) <= Moved(s, h) + 1
         /\ Taken(s, h) <= Len(s) + 1
  <1>1. Len(s) \in Nat
    OBVIOUS
  <1>2. QED
    BY <1>1 DEF Taken, Moved, Counted

\* A writer finds room.
LEMMA RingEntered ==
  ASSUME NEW ring \in RingRec, NEW p \in Seq(Nat), NEW s \in Seq(Nat), NEW h \in HandlerRec,
         RingInv(ring, p, s, h, "loop", 0), ring.element_count < QUEUE_SIZE, NEW reg \in Int
  PROVE  RingInv(ring, p, s, h, "copy", reg)
  <1>1. Counted(s, h) \in Nat /\ Len(p) \in Nat /\ QUEUE_SIZE \in Nat
    BY HandlerNumbers, WinAssumption
  <1>2. Len(p) - Counted(s, h) <= QUEUE_SIZE - 1
    BY <1>1 DEF RingInv
  <1>3. QED
    BY <1>2 DEF RingInv

\* memcpy to the tail
LEMMA RingCopied ==
  ASSUME NEW ring \in RingRec, NEW p \in Seq(Nat), NEW s \in Seq(Nat), NEW h \in HandlerRec,
         NEW reg \in Int, RingInv(ring, p, s, h, "copy", reg), NEW k \in Nat
  PROVE  RingInv([ring EXCEPT !.node[ring.tail] = k], Append(p, k), s, h, "tail", ring.tail)
  <1> DEFINE ring2 == [ring EXCEPT !.node[ring.tail] = k]
             p2 == Append(p, k)
             taken == Taken(s, h)
             moved == Moved(s, h)
             counted == Counted(s, h)
             len == Len(p)
  <1>1. /\ ring.head \in 0 .. QUEUE_SIZE - 1 /\ ring.tail \in 0 .. QUEUE_SIZE - 1
        /\ ring.node \in [0 .. QUEUE_SIZE - 1 -> Nat] /\ QUEUE_SIZE \in Nat \ {0}
    BY WinAssumption DEF RingRec
  <1>2. /\ Len(s) \in Nat /\ taken \in Nat /\ moved \in Nat /\ counted \in Nat /\ len \in Nat
        /\ Len(s) <= counted /\ counted <= moved /\ moved <= taken
    BY HandlerNumbers
  <1>3. /\ taken <= len /\ ring.element_count = len - counted
        /\ len - counted <= QUEUE_SIZE - 1 /\ ring.tail = Wrap(ring.head + (len - moved))
        /\ \A i \in taken + 1 .. len : ring.node[Wrap(ring.head + (i - 1 - moved))] = p[i]
        /\ h.pc \in {"head", "store", "handle"} => h.pkt = p[Len(s) + 1]
        /\ \A i \in 1 .. Len(s) : s[i] = p[i]
    BY DEF RingInv
  <1>4. /\ ring2.head = ring.head /\ ring2.tail = ring.tail
        /\ ring2.element_count = ring.element_count
        /\ ring2.node = [ring.node EXCEPT ![ring.tail] = k]
    BY DEF RingRec
  <1>5. /\ Len(p2) = len + 1 /\ p2[len + 1] = k
        /\ \A i \in 1 .. len : p2[i] = p[i]
    OBVIOUS
  <1>6. h.pc \in {"head", "store", "handle"} => Len(s) + 1 \in 1 .. len
    BY <1>2, <1>3 DEF Taken
  <1> HIDE DEF p2, ring2, taken, moved, counted, len
  <1>7. Wrap(ring.tail + 1) = Wrap(ring.head + (Len(p2) - moved))
    <2>1. len - moved \in 0 .. QUEUE_SIZE - 1 /\ Len(p2) - moved = (len - moved) + 1
      <3>1. len - moved \in 0 .. QUEUE_SIZE - 1
        BY <1>1, <1>2, <1>3
      <3>2. QED
        BY <3>1, <1>2, <1>5
    <2>2. QED
      BY <1>1, <1>3, <2>1, WrapNext
  <1>8. ASSUME NEW i \in taken + 1 .. Len(p2)
        PROVE  ring2.node[Wrap(ring.head + (i - 1 - moved))] = p2[i]
    <2>1. CASE i = len + 1
      <3>1. i - 1 - moved = len - moved
        BY <1>2, <2>1
      <3>2. QED
        BY <1>1, <1>3, <1>4, <1>5, <2>1, <3>1
    <2>2. CASE i # len + 1
      <3>1. i \in taken + 1 .. len /\ i \in 1 .. len
        BY <1>2, <1>5, <2>2
      <3>2. /\ i - 1 - moved \in 0 .. QUEUE_SIZE - 1 /\ len - moved \in 0 .. QUEUE_SIZE - 1
            /\ i - 1 - moved # len - moved
        <4>1. i \in Nat /\ moved < i /\ i <= len
          BY <1>2, <3>1
        <4>2. len - moved <= QUEUE_SIZE - 1 /\ moved <= len
          BY <1>1, <1>2, <1>3, SMTT(30)
        <4>3. QED
          BY <1>1, <1>2, <4>1, <4>2
      <3>3. Wrap(ring.head + (i - 1 - moved)) # ring.tail
        BY <1>1, <1>3, <3>2, WrapDistinct
      <3>4. Wrap(ring.head + (i - 1 - moved)) \in 0 .. QUEUE_SIZE - 1
        BY <1>1, <3>2, WrapRange, SMTT(30)
      <3>5. QED
        BY <1>1, <1>3, <1>4, <1>5, <3>1, <3>3, <3>4
    <2>3. QED
      BY <2>1, <2>2
  <1>9. /\ taken <= Len(p2) /\ ring2.element_count = Len(p2) - 1 - counted
        /\ Len(p2) - counted <= QUEUE_SIZE
    BY <1>1, <1>2, <1>3, <1>4, <1>5
  <1>10. /\ h.pc \in {"head", "store", "handle"} => h.pkt = p2[Len(s) + 1]
         /\ \A i \in 1 .. Len(s) : s[i] = p2[i]
    BY <1>2, <1>3, <1>5, <1>6
  <1>11. RingInv(ring2, p2, s, h, "tail", ring.tail)
    BY <1>4, <1>7, <1>8, <1>9, <1>10 DEF RingInv, taken, moved, counted
  <1>12. QED
    BY <1>11 DEF ring2, p2

LEMMA RingTailMoved ==
  ASSUME NEW ring \in RingRec, NEW p \in Seq(Nat), NEW s \in Seq(Nat), NEW h \in HandlerRec,
         NEW reg \in Int, RingInv(ring, p, s, h, "tail", reg)
  PROVE  RingInv([ring EXCEPT !.tail = Next1(reg)], p, s, h, "count", reg)
  <1>1. reg \in 0 .. QUEUE_SIZE - 1
    BY DEF RingInv, RingRec
  <1>2. Next1(reg) = Wrap(reg + 1)
    BY <1>1, ModWrap, WinAssumption DEF Next1
  <1>3. QED
    BY <1>2 DEF RingInv, RingRec

LEMMA RingLoaded ==
  ASSUME NEW ring \in RingRec, NEW p \in Seq(Nat), NEW s \in Seq(Nat), NEW h \in HandlerRec,
         NEW reg \in Int, RingInv(ring, p, s, h, "count", reg), NEW reg2 \in Int
  PROVE  RingInv(ring, p, s, h, "store", reg2)
  BY DEF RingInv

LEMMA RingStored ==
  ASSUME NEW ring \in RingRec, NEW p \in Seq(Nat), NEW s \in Seq(Nat), NEW h \in HandlerRec,
         NEW reg \in Int, RingInv(ring, p, s, h, "store", reg), ring.element_count = reg
  PROVE  RingInv([ring EXCEPT !.element_count = reg + 1], p, s, h, "loop", 0)
  <1>1. Counted(s, h) \in Nat
    BY DEF Counted
  <1>2. QED
    BY <1>1 DEF RingInv, RingRec

\* The handler copies from the head.
LEMMA RingHeadCopied ==
  ASSUME NEW ring \in RingRec, NEW p \in Seq(Nat), NEW s \in Seq(Nat), NEW h \in HandlerRec,
         NEW x, NEW reg, RingInv(ring, p, s, h, x, reg),
         h.pc \in {"none", "poll"}, ring.element_count > 0,
         NEW h2 \in HandlerRec, h2.pc = "head", h2.pkt = ring.node[ring.head]
  PROVE  RingInv(ring, p, s, h2, x, reg)
  <1> DEFINE len == Len(p)
             done == Len(s)
  <1>1. len \in Nat /\ done \in Nat /\ ring.head \in 0 .. QUEUE_SIZE - 1
    BY DEF RingRec
  <1>2. /\ Taken(s, h) = done /\ Moved(s, h) = done /\ Counted(s, h) = done
        /\ Taken(s, h2) = done + 1 /\ Moved(s, h2) = done /\ Counted(s, h2) = done
    BY DEF Taken, Moved, Counted
  <1>3. /\ done <= len
        /\ ring.element_count = (IF x \in {"tail", "count", "store"} THEN len - 1 ELSE len) - done
        /\ len - done <= (IF x = "copy" THEN QUEUE_SIZE - 1 ELSE QUEUE_SIZE)
        /\ x # "tail" => ring.tail = Wrap(ring.head + (len - done))
        /\ x = "tail" => reg = ring.tail /\ Wrap(reg + 1) = Wrap(ring.head + (len - done))
        /\ \A i \in done + 1 .. len : ring.node[Wrap(ring.head + (i - 1 - done))] = p[i]
        /\ \A i \in 1 .. done : s[i] = p[i]
    BY <1>2 DEF RingInv
  <1> HIDE DEF len, done
  <1>4. done + 1 \in done + 1 .. len
    BY <1>1, <1>3
  <1>5. (done + 1) - 1 - done = 0
    BY <1>1
  <1>6. ring.node[ring.head] = p[done + 1]
    BY <1>1, <1>3, <1>4, <1>5, WrapZero
  <1>7. \A i \in done + 1 + 1 .. len : i \in done + 1 .. len
    BY <1>1
  <1>8. done + 1 <= len
    BY <1>1, <1>4
  <1>9. QED
    BY <1>2, <1>3, <1>6, <1>7, <1>8 DEF RingInv, len, done

\* head = (head + 1) % QUEUE_SIZE
LEMMA RingHeadMoved ==
  ASSUME NEW ring \in RingRec, NEW p \in Seq(Nat), NEW s \in Seq(Nat), NEW h \in HandlerRec,
         NEW x, NEW reg, RingInv(ring, p, s, h, x, reg), h.pc = "head",
         NEW h2 \in HandlerRec, h2.pc = "store", h2.pkt = h.pkt
  PROVE  RingInv([ring EXCEPT !.head = Next1(ring.head)], p, s, h2, x, reg)
  <1> DEFINE ring2 == [ring EXCEPT !.head = Next1(ring.head)]
             len == Len(p)
             done == Len(s)
  <1>1. /\ len \in Nat /\ done \in Nat /\ ring.head \in 0 .. QUEUE_SIZE - 1
        /\ QUEUE_SIZE \in Nat \ {0}
    BY WinAssumption DEF RingRec
  <1>2. /\ Taken(s, h) = done + 1 /\ Moved(s, h) = done /\ Counted(s, h) = done
        /\ Taken(s, h2) = done + 1 /\ Moved(s, h2) = done + 1 /\ Counted(s, h2) = done
    BY DEF Taken, Moved, Counted
  <1>3. /\ done + 1 <= len
        /\ ring.element_count = (IF x \in {"tail", "count", "store"} THEN len - 1 ELSE len) - done
        /\ len - done <= (IF x = "copy" THEN QUEUE_SIZE - 1 ELSE QUEUE_SIZE)
        /\ x # "tail" => ring.tail = Wrap(ring.head + (len - done))
        /\ x = "tail" => reg = ring.tail /\ Wrap(reg + 1) = Wrap(ring.head + (len - done))
        /\ \A i \in done + 1 + 1 .. len : ring.node[Wrap(ring.head + (i - 1 - done))] = p[i]
        /\ h.pkt = p[done + 1]
        /\ \A i \in 1 .. done : s[i] = p[i]
    BY <1>2 DEF RingInv
  <1>4. /\ ring2.head = Wrap(ring.head + 1) /\ ring2.tail = ring.tail
        /\ ring2.node = ring.node /\ ring2.element_count = ring.element_count
    BY <1>1, NextIsWrap DEF RingRec
  <1> HIDE DEF len, done, ring2
  <1>5. len - done \in 1 .. QUEUE_SIZE
    BY <1>1, <1>3
  <1>6. Wrap(ring.head + (len - done)) = Wrap(ring2.head + (len - (done + 1)))
    <2>1. len - (done + 1) = (len - done) - 1
      BY <1>1
    <2>2. QED
      BY <1>1, <1>4, <1>5, <2>1, WrapHead
  <1>7. ASSUME NEW i \in done + 1 + 1 .. len
        PROVE  ring2.node[Wrap(ring2.head + (i - 1 - (done + 1)))] = p[i]
    <2>1. i - 1 - (done + 1) = (i - 1 - done) - 1 /\ i - 1 - done \in 1 .. QUEUE_SIZE
      BY <1>1, <1>5
    <2>2. Wrap(ring2.head + (i - 1 - (done + 1))) = Wrap(ring.head + (i - 1 - done))
      BY <1>1, <1>4, <2>1, WrapHead
    <2>3. QED
      BY <1>3, <1>4, <2>2
  <1>8. RingInv(ring2, p, s, h2, x, reg)
    BY <1>2, <1>3, <1>4, <1>6, <1>7 DEF RingInv, len, done
  <1>9. QED
    BY <1>8 DEF ring2

\* element_count-- of the value the handler has loaded
LEMMA RingTaken ==
  ASSUME NEW ring \in RingRec, NEW p \in Seq(Nat), NEW s \in Seq(Nat), NEW h \in HandlerRec,
         NEW x, NEW reg, RingInv(ring, p, s, h, x, reg), h.pc = "store",
         h.reg = ring.element_count, NEW h2 \in HandlerRec, h2.pc = "handle", h2.pkt = h.pkt
  PROVE  RingInv([ring EXCEPT !.element_count = h.reg - 1], p, s, h2, x, reg)
  <1> DEFINE ring2 == [ring EXCEPT !.element_count = h.reg - 1]
             len == Len(p)
             done == Len(s)
  <1>1. len \in Nat /\ done \in Nat /\ QUEUE_SIZE \in Nat /\ ring.element_count \in Int
    BY WinAssumption DEF RingRec
  <1>2. /\ Taken(s, h) = done + 1 /\ Moved(s, h) = done + 1 /\ Counted(s, h) = done
        /\ Taken(s, h2) = done + 1 /\ Moved(s, h2) = done + 1 /\ Counted(s, h2) = done + 1
    BY DEF Taken, Moved, Counted
  <1>3. /\ ring2.head = ring.head /\ ring2.tail = ring.tail /\ ring2.node = ring.node
        /\ ring2.element_count = ring.element_count - 1
    BY DEF RingRec
  <1>4. /\ ring.element_count = (IF x \in {"tail", "count", "store"} THEN len - 1 ELSE len) - done
        /\ len - done <= (IF x = "copy" THEN QUEUE_SIZE - 1 ELSE QUEUE_SIZE)
    BY <1>2 DEF RingInv
  <1> HIDE DEF len, done, ring2
  <1>5. /\ ring2.element_count =
             (IF x \in {"tail", "count", "store"} THEN len - 1 ELSE len) - (done + 1)
        /\ len - (done + 1) <= (IF x = "copy" THEN QUEUE_SIZE - 1 ELSE QUEUE_SIZE)
    BY <1>1, <1>3, <1>4
  <1>6. RingInv(ring2, p, s, h2, x, reg)
    BY <1>2, <1>3, <1>5 DEF RingInv, len, done
  <1>7. QED
    BY <1>6 DEF ring2

LEMMA RingHandled ==
  ASSUME NEW ring \in RingRec, NEW p \in Seq(Nat), NEW s \in Seq(Nat), NEW h \in HandlerRec,
         NEW x, NEW reg, RingInv(ring, p, s, h, x, reg), h.pc = "handle",
         NEW h2 \in HandlerRec, h2.pc = "poll"
  PROVE  RingInv(ring, p, Append(s, h.pkt), h2, x, reg)
  <1> DEFINE s2 == Append(s, h.pkt)
  <1>1. Len(s) \in Nat /\ Len(s2) = Len(s) + 1 /\ s2[Len(s) + 1] = h.pkt
        /\ \A i \in 1 .. Len(s) : s2[i] = s[i]
    BY DEF HandlerRec
  <1>2. /\ Taken(s2, h2) = Taken(s, h) /\ Moved(s2, h2) = Moved(s, h)
        /\ Counted(s2, h2) = Counted(s, h)
    BY <1>1 DEF Taken, Moved, Counted
  <1>3. h.pkt = p[Len(s) + 1]
    BY DEF RingInv
  <1>4. QED
    BY <1>1, <1>2, <1>3 DEF RingInv

\* The handler is created.
LEMMA RingPolled ==
  ASSUME NEW ring, NEW p, NEW s, NEW h, NEW x, NEW reg, RingInv(ring, p, s, h, x, reg),
         h.pc = "none", NEW h2, h2.pc = "poll"
  PROVE  RingInv(ring, p, s, h2, x, reg)
  BY DEF RingInv, Taken, Moved, Counted

-----------------------------------------------------------------------------
(* The queues                                                              *)

LEMMA QueueTypes ==
  ASSUME WinTypeOK, NEW q \in Queues
  PROVE  /\ pkt_queue[q] \in RingRec /\ handler[q] \in HandlerRec
         /\ put[q] \in Seq(Nat) /\ handled[q] \in Seq(Nat)
  BY DEF WinTypeOK, QueueType, HandlerType, OtherType, RingRec, HandlerRec

\* A step that changes neither the queue nor its writers.
LEMMA QueueSame ==
  ASSUME NEW q \in Queues, QueueInv(q),
         pkt_queue'[q] = pkt_queue[q], put'[q] = put[q], handled'[q] = handled[q],
         handler'[q] = handler[q],
         \A d \in Captures : capture'[d] = capture[d] \/ (~InEnQueue(d, q) /\ ~InEnQueue(d, q)')
  PROVE  QueueInv(q)'
  <1>1. Writers(q)' = Writers(q)
    BY DEF Writers, InEnQueue, CaptureAt
  <1>2. \A d \in Writers(q) : capture'[d] = capture[d]
    BY DEF Writers
  <1>3. QED
    BY <1>1, <1>2 DEF QueueInv, RingAt

\* A step of the queue's writer d, which then writes still.
LEMMA QueueWritten ==
  ASSUME NEW q \in Queues, NEW d \in Captures,
         \A e \in Captures \ {d} : capture'[e] = capture[e] /\ ~InEnQueue(e, q),
         InEnQueue(d, q)', RingAt(q, capture[d].pc, capture[d].reg)'
  PROVE  QueueInv(q)'
  <1>1. Writers(q)' = {d}
    BY DEF Writers, InEnQueue, CaptureAt
  <1>2. QED
    BY <1>1 DEF QueueInv

\* The last step of the queue's writer.
LEMMA QueueLeft ==
  ASSUME NEW q \in Queues, NEW d \in Captures,
         \A e \in Captures \ {d} : capture'[e] = capture[e] /\ ~InEnQueue(e, q),
         ~InEnQueue(d, q)', RingAt(q, "loop", 0)'
  PROVE  QueueInv(q)'
  <1>1. Writers(q)' = {}
    BY DEF Writers, InEnQueue, CaptureAt
  <1>2. QED
    BY <1>1 DEF QueueInv

\* A step of the queue's handler.
LEMMA QueueHandled ==
  ASSUME NEW q \in Queues, QueueInv(q), capture' = capture,
         \A x, reg : RingAt(q, x, reg) =>
           RingInv(pkt_queue'[q], put'[q], handled'[q], handler'[q], x, reg)
  PROVE  QueueInv(q)'
  <1>1. Writers(q)' = Writers(q)
    BY DEF Writers, InEnQueue, CaptureAt
  <1>2. QED
    BY <1>1 DEF QueueInv, RingAt

LEMMA RingsInit == WinInit => RingsInv /\ PrefixInv
  <1> SUFFICES ASSUME WinInit, NEW q \in Queues PROVE QueueInv(q) /\ IsPrefix(handled[q], put[q])
    BY DEF RingsInv, PrefixInv
  <1>1. QUEUE_COUNT \notin Queues
    BY WinAssumption DEF Queues
  <1>2. Writers(q) = {}
    BY <1>1 DEF WinInit, Writers, InEnQueue
  <1>3. /\ pkt_queue[q] = EmptyQueue /\ put[q] = <<>> /\ handled[q] = <<>>
        /\ handler[q] = [pc |-> "none", pkt |-> 0, reg |-> 0]
    BY DEF WinInit
  <1>4. Taken(<<>>, handler[q]) = 0 /\ Moved(<<>>, handler[q]) = 0 /\ Counted(<<>>, handler[q]) = 0
    BY <1>3 DEF Taken, Moved, Counted
  <1>5. RingAt(q, "loop", 0)
    <2>1. EmptyQueue.element_count = 0 /\ EmptyQueue.tail = 0 /\ EmptyQueue.head = 0
      BY DEF EmptyQueue
    <2>2. Wrap(0) = 0
      BY WinAssumption DEF Wrap
    <2>3. QED
      BY <1>3, <1>4, <2>1, <2>2, WinAssumption DEF RingAt, RingInv
  <1>6. IsPrefix(handled[q], put[q])
    BY <1>3 DEF IsPrefix
  <1>7. QED
    BY <1>2, <1>5, <1>6 DEF QueueInv

LEMMA RingsMain ==
  ASSUME WinTypeOK, ThreadsInv, RingsInv, MainSteps
  PROVE  RingsInv'
  <1> USE DEF MainAt
  <1> SUFFICES ASSUME winmain'.pc # "gone", NEW q \in Queues, q \notin overlapped'
               PROVE  QueueInv(q)'
    BY DEF RingsInv
  <1>1. UNCHANGED queueVars /\ winmain.pc # "gone" /\ ~CreationFails
    BY DEF MainSteps, CreatesCapture, TakesNext, CountsProcessors, LimitsQueues, CreatesHandler,
           CreationFails, WinTypeOK, MainType
  <1>2. QueueInv(q)
    BY <1>1 DEF RingsInv, queueVars
  <1>3. CASE CreatesCapture
    <2>1. winmain.d \in Captures /\ handler' = handler /\ winmain.pc = "create"
      BY <1>3 DEF CreatesCapture, WinTypeOK, MainType, Captures
    <2>2. /\ \A e \in Captures \ {winmain.d} : capture'[e] = capture[e]
          /\ capture'[winmain.d].q = capture[winmain.d].q
      BY <1>3 DEF CreatesCapture, WinTypeOK, CaptureType
    <2>3. capture[winmain.d].q # q
      BY <1>1, <2>1 DEF ThreadsInv, Through, ThroughPcs
    <2>4. QED
      BY <1>1, <1>2, <2>1, <2>2, <2>3, QueueSame DEF queueVars, InEnQueue
  <1>4. CASE TakesNext \/ CountsProcessors \/ LimitsQueues
    <2>1. UNCHANGED <<capture, handler>>
      BY <1>4 DEF TakesNext, CountsProcessors, LimitsQueues
    <2>2. QED
      BY <1>1, <1>2, <2>1, QueueSame DEF queueVars
  <1>5. CASE CreatesHandler
    <2>1. capture' = capture
      BY <1>5 DEF CreatesHandler
    <2>2. CASE q = winmain.q
      <3>1. handler[q].pc = "none" /\ handler'[q].pc = "poll"
        BY <1>1, <1>5, <2>2 DEF CreatesHandler, ThreadsInv, WinTypeOK, MainType, HandlerType, Queues
      <3>2. \A x, reg : RingAt(q, x, reg) =>
              RingInv(pkt_queue'[q], put'[q], handled'[q], handler'[q], x, reg)
        BY <1>1, <3>1, RingPolled DEF queueVars, RingAt
      <3>3. QED
        BY <1>2, <2>1, <3>2, QueueHandled
    <2>3. CASE q # winmain.q
      <3>1. handler'[q] = handler[q]
        BY <1>5, <2>3 DEF CreatesHandler, WinTypeOK, HandlerType
      <3>2. QED
        BY <1>1, <1>2, <2>1, <3>1, QueueSame DEF queueVars
    <2>4. QED
      BY <2>2, <2>3
  <1>6. QED
    BY <1>1, <1>3, <1>4, <1>5 DEF MainSteps

-----------------------------------------------------------------------------
\* A capture thread's step, seen from a queue that is not its own before or after it.
LEMMA QueueElsewhere ==
  ASSUME WinTypeOK, NEW q \in Queues, QueueInv(q), NEW d \in Captures,
         \A e \in Captures \ {d} : capture'[e] = capture[e],
         ~InEnQueue(d, q), ~InEnQueue(d, q)', handler' = handler,
         pkt_queue'[q] = pkt_queue[q], put'[q] = put[q], handled'[q] = handled[q]
  PROVE  QueueInv(q)'
  BY QueueSame

\* The only writer of a queue.
LEMMA OnlyWriter ==
  ASSUME NEW q \in Queues, QueueInv(q), NEW d \in Captures, InEnQueue(d, q)
  PROVE  /\ \A e \in Captures \ {d} : ~InEnQueue(e, q)
         /\ RingAt(q, capture[d].pc, capture[d].reg)
  BY DEF QueueInv, Writers

\* A capture thread enters a queue that has no writer.
LEMMA RingsChosen ==
  ASSUME WinTypeOK, ThreadsInv, NEW d \in Captures, ChoosesQueue(d),
         NEW q \in Queues, QueueInv(q), q \notin overlapped'
  PROVE  QueueInv(q)'
  <1>1. /\ capture[d].pc = "loop" /\ handler' = handler
        /\ pkt_queue' = pkt_queue /\ put' = put /\ handled' = handled
    BY DEF ChoosesQueue, CaptureAt
  <1>2. PICK k \in Queues :
          IF Full(k) THEN UNCHANGED <<capture, overlapped>>
          ELSE /\ capture' = [capture EXCEPT ![d] = [@ EXCEPT !.pc = "copy", !.q = k, !.pkt = captured']]
               /\ overlapped' = IF \E e \in Captures : InEnQueue(e, k) THEN overlapped \cup {k} ELSE overlapped
    BY DEF ChoosesQueue
  <1>3. CASE Full(k)
    BY <1>1, <1>2, <1>3, QueueSame
  <1>4. CASE ~Full(k)
    <2>1. /\ \A e \in Captures \ {d} : capture'[e] = capture[e]
          /\ capture'[d].pc = "copy" /\ capture'[d].q = k /\ capture'[d].reg = capture[d].reg
      BY <1>2, <1>4 DEF WinTypeOK, CaptureType
    <2>2. CASE k # q
      <3>1. ~InEnQueue(d, q) /\ ~InEnQueue(d, q)'
        BY <1>1, <2>1, <2>2 DEF InEnQueue, CaptureAt
      <3>2. QED
        BY <1>1, <2>1, <3>1, QueueElsewhere
    <2>3. CASE k = q
      <3>1. \A e \in Captures : ~InEnQueue(e, q)
        BY <1>2, <1>4, <2>3
      <3>2. RingAt(q, "loop", 0)
        BY <3>1 DEF QueueInv, Writers
      <3>3. pkt_queue[q].element_count < QUEUE_SIZE
        BY <1>4, <2>3, WinAssumption DEF Full, WinTypeOK, QueueType
      <3>4. capture[d].reg \in Int
        BY DEF WinTypeOK, CaptureType
      <3>5. RingAt(q, "copy", capture[d].reg)
        BY <3>2, <3>3, <3>4, QueueTypes, RingEntered DEF RingAt
      <3>6. RingAt(q, capture[d].pc, capture[d].reg)'
        BY <1>1, <2>1, <3>5 DEF RingAt
      <3>7. InEnQueue(d, q)'
        BY <2>1, <2>3 DEF InEnQueue, CaptureAt
      <3>8. QED
        BY <2>1, <3>1, <3>6, <3>7, QueueWritten
    <2>4. QED
      BY <2>2, <2>3
  <1>5. QED
    BY <1>3, <1>4

\* en_queue
LEMMA RingsEnQueue ==
  ASSUME WinTypeOK, NEW d \in Captures, capture[d].pc \in EnQueuePcs, CaptureSteps(d),
         NEW q \in Queues, QueueInv(q), q \notin overlapped'
  PROVE  QueueInv(q)'
  <1> DEFINE k == capture[d].q
             ring == pkt_queue[k]
  <1>1. EnQueueCopies(d) \/ EnQueueMovesTail(d) \/ EnQueueLoads(d) \/ EnQueueStores(d)
    BY DEF CaptureSteps, OpensDevice, OpenFails, Finishes, ChoosesQueue, WritesOutside, CaptureAt,
           EnQueuePcs
  <1>2. /\ \A e \in Captures \ {d} : capture'[e] = capture[e]
        /\ capture'[d].q = k /\ handler' = handler /\ handled' = handled
    BY <1>1 DEF EnQueueCopies, EnQueueMovesTail, EnQueueLoads, EnQueueStores, WinTypeOK,
                CaptureType, queueVars
  <1>3. k \in Queues /\ capture[d].pkt \in Nat /\ capture[d].reg \in Int
    BY DEF WinTypeOK, CaptureType
  <1>4. CASE k # q
    <2>1. pkt_queue'[q] = pkt_queue[q] /\ put'[q] = put[q]
      BY <1>1, <1>3, <1>4 DEF EnQueueCopies, EnQueueMovesTail, EnQueueLoads, EnQueueStores,
                              WinTypeOK, QueueType, OtherType, queueVars
    <2>2. ~InEnQueue(d, q) /\ ~InEnQueue(d, q)'
      BY <1>2, <1>4 DEF InEnQueue
    <2>3. QED
      BY <1>2, <2>1, <2>2, QueueElsewhere
  <1>5. CASE k = q
    <2>1. /\ \A e \in Captures \ {d} : ~InEnQueue(e, q)
          /\ RingAt(q, capture[d].pc, capture[d].reg)
      BY <1>5, OnlyWriter DEF InEnQueue, CaptureAt, EnQueuePcs
    <2>2. /\ ring \in RingRec /\ handler[q] \in HandlerRec
          /\ put[q] \in Seq(Nat) /\ handled[q] \in Seq(Nat)
      BY <1>5, QueueTypes
    <2>3. ASSUME capture'[d].pc \in EnQueuePcs, RingAt(q, capture[d].pc, capture[d].reg)'
          PROVE  QueueInv(q)'
      <3>1. InEnQueue(d, q)'
        BY <1>2, <1>5, <2>3 DEF InEnQueue, CaptureAt, EnQueuePcs
      <3>2. QED
        BY <1>2, <2>1, <2>3, <3>1, QueueWritten
    <2>4. CASE EnQueueCopies(d)
      <3>1. /\ capture[d].pc = "copy" /\ capture'[d].pc = "tail" /\ capture'[d].reg = ring.tail
            /\ put'[q] = Append(put[q], capture[d].pkt)
            /\ pkt_queue'[q] = [ring EXCEPT !.node[ring.tail] = capture[d].pkt]
        BY <1>3, <1>5, <2>4 DEF EnQueueCopies, CaptureAt, WinTypeOK, CaptureType, QueueType, OtherType
      <3>2. RingInv(ring, put[q], handled[q], handler[q], "copy", capture[d].reg)
        BY <1>5, <2>1, <3>1 DEF RingAt
      <3>3. RingInv([ring EXCEPT !.node[ring.tail] = capture[d].pkt], Append(put[q], capture[d].pkt),
                    handled[q], handler[q], "tail", ring.tail)
        BY <1>3, <2>2, <3>2, RingCopied
      <3>4. QED
        BY <1>2, <2>3, <3>1, <3>3 DEF RingAt, EnQueuePcs
    <2>5. CASE EnQueueMovesTail(d)
      <3>1. /\ capture[d].pc = "tail" /\ capture'[d].pc = "count" /\ capture'[d].reg = capture[d].reg
            /\ put'[q] = put[q]
            /\ pkt_queue'[q] = [ring EXCEPT !.tail = Next1(capture[d].reg)]
        BY <1>3, <1>5, <2>5 DEF EnQueueMovesTail, CaptureAt, WinTypeOK, CaptureType, QueueType
      <3>2. RingInv(pkt_queue'[q], put[q], handled[q], handler[q], "count", capture[d].reg)
        BY <1>3, <1>5, <2>1, <2>2, <3>1, RingTailMoved DEF RingAt
      <3>3. QED
        BY <1>2, <2>3, <3>1, <3>2 DEF RingAt, EnQueuePcs
    <2>6. CASE EnQueueLoads(d)
      <3>1. /\ capture[d].pc = "count" /\ capture'[d].pc = "store"
            /\ capture'[d].reg = ring.element_count
            /\ put'[q] = put[q] /\ pkt_queue'[q] = ring
        BY <1>3, <1>5, <2>6 DEF EnQueueLoads, CaptureAt, WinTypeOK, CaptureType, queueVars
      <3>2. ring.element_count \in Int
        BY <2>2 DEF RingRec
      <3>3. RingInv(ring, put[q], handled[q], handler[q], "store", ring.element_count)
        BY <1>3, <1>5, <2>1, <2>2, <3>1, <3>2, RingLoaded DEF RingAt
      <3>4. QED
        BY <1>2, <2>3, <3>1, <3>3 DEF RingAt, EnQueuePcs
    <2>7. CASE EnQueueStores(d)
      <3>1. /\ capture[d].pc = "store" /\ capture'[d].pc = "loop"
            /\ put'[q] = put[q]
            /\ pkt_queue'[q] = [ring EXCEPT !.element_count = capture[d].reg + 1]
            /\ ring.element_count = capture[d].reg
        BY <1>3, <1>5, <2>7 DEF EnQueueStores, Lost, CaptureAt, WinTypeOK, CaptureType, QueueType
      <3>2. RingInv(pkt_queue'[q], put[q], handled[q], handler[q], "loop", 0)
        BY <1>3, <1>5, <2>1, <2>2, <3>1, RingStored DEF RingAt
      <3>3. ~InEnQueue(d, q)' /\ RingAt(q, "loop", 0)'
        BY <1>2, <3>1, <3>2 DEF InEnQueue, CaptureAt, RingAt
      <3>4. QED
        BY <1>2, <2>1, <3>3, QueueLeft
    <2>8. QED
      BY <1>1, <2>4, <2>5, <2>6, <2>7
  <1>6. QED
    BY <1>4, <1>5

LEMMA RingsCapture ==
  ASSUME WinTypeOK, ThreadsInv, RingsInv, NEW d \in Captures, CaptureSteps(d)
  PROVE  RingsInv'
  <1> SUFFICES ASSUME winmain'.pc # "gone", NEW q \in Queues, q \notin overlapped'
               PROVE  QueueInv(q)'
    BY DEF RingsInv
  <1>1. winmain' = winmain /\ overlapped \subseteq overlapped'
    BY DEF CaptureSteps, OpensDevice, OpenFails, Finishes, ChoosesQueue, WritesOutside,
           EnQueueCopies, EnQueueMovesTail, EnQueueLoads, EnQueueStores, Lost, queueVars
  <1>2. QueueInv(q)
    BY <1>1 DEF RingsInv
  <1>3. CASE OpensDevice(d) \/ OpenFails(d) \/ Finishes(d)
    <2>1. /\ capture[d].pc \in {"open", "finish"} /\ UNCHANGED <<queueVars, handler>>
          /\ \A e \in Captures \ {d} : capture'[e] = capture[e]
          /\ capture'[d].q = capture[d].q
      BY <1>3 DEF OpensDevice, OpenFails, Finishes, CaptureAt, WinTypeOK, CaptureType
    <2>2. capture[d].q # q
      BY <1>1, <2>1 DEF ThreadsInv, Through, ThroughPcs
    <2>3. QED
      BY <1>2, <2>1, <2>2, QueueElsewhere DEF InEnQueue, queueVars
  <1>4. CASE ChoosesQueue(d)
    BY <1>2, <1>4, RingsChosen
  <1>5. CASE WritesOutside(d)
    BY <1>2, <1>5, QueueSame DEF WritesOutside
  <1>6. CASE EnQueueCopies(d) \/ EnQueueMovesTail(d) \/ EnQueueLoads(d) \/ EnQueueStores(d)
    <2>1. capture[d].pc \in EnQueuePcs
      BY <1>6 DEF EnQueueCopies, EnQueueMovesTail, EnQueueLoads, EnQueueStores, CaptureAt, EnQueuePcs
    <2>2. QED
      BY <1>2, <2>1, RingsEnQueue
  <1>7. QED
    BY <1>3, <1>4, <1>5, <1>6 DEF CaptureSteps

LEMMA RingsHandler ==
  ASSUME WinTypeOK, ThreadsInv, RingsInv, NEW k \in Queues, HandlerSteps(k)
  PROVE  RingsInv'
  <1> USE DEF HandlerAt
  <1> SUFFICES ASSUME winmain'.pc # "gone", NEW q \in Queues, q \notin overlapped'
               PROVE  QueueInv(q)'
    BY DEF RingsInv
  <1>1. UNCHANGED <<winmain, capture, put>> /\ overlapped \subseteq overlapped'
    BY DEF HandlerSteps, DeQueueCopies, DeQueueMovesHead, DeQueueStores, Handles, Lost, queueVars
  <1>2. QueueInv(q)
    BY <1>1 DEF RingsInv
  <1>3. CASE k # q
    <2>1. pkt_queue'[q] = pkt_queue[q] /\ handled'[q] = handled[q] /\ handler'[q] = handler[q]
      BY <1>3 DEF HandlerSteps, DeQueueCopies, DeQueueMovesHead, DeQueueStores, Handles, queueVars,
                  WinTypeOK, QueueType, HandlerType, OtherType
    <2>2. QED
      BY <1>1, <1>2, <2>1, QueueSame
  <1>4. CASE k = q
    <2> DEFINE ring == pkt_queue[q]
               h == handler[q]
    <2>1. /\ ring \in RingRec /\ h \in HandlerRec /\ handler'[q] \in HandlerRec
          /\ put[q] \in Seq(Nat) /\ handled[q] \in Seq(Nat)
      <3>1. WinTypeOK'
        BY HandlerTypes
      <3>2. handler'[q] \in HandlerRec
        BY <3>1 DEF WinTypeOK, HandlerType, HandlerRec
      <3>3. QED
        BY <3>2, QueueTypes
    <2>2. SUFFICES ASSUME NEW x, NEW reg, RingInv(ring, put[q], handled[q], h, x, reg)
                   PROVE  RingInv(pkt_queue'[q], put[q], handled'[q], handler'[q], x, reg)
      BY <1>1, <1>2, QueueHandled DEF RingAt
    <2>3. CASE DeQueueCopies(q)
      <3>1. /\ h.pc = "poll" /\ ring.element_count > 0 /\ UNCHANGED queueVars
            /\ handler'[q].pc = "head" /\ handler'[q].pkt = ring.node[ring.head]
        BY <2>3 DEF DeQueueCopies, WinTypeOK, HandlerType
      <3>2. QED
        BY <2>1, <2>2, <3>1, RingHeadCopied DEF queueVars
    <2>4. CASE DeQueueMovesHead(q)
      <3>1. /\ h.pc = "head" /\ handled' = handled
            /\ handler'[q].pc = "store" /\ handler'[q].pkt = h.pkt
            /\ pkt_queue'[q] = [ring EXCEPT !.head = Next1(ring.head)]
        BY <2>4 DEF DeQueueMovesHead, WinTypeOK, HandlerType, QueueType
      <3>2. QED
        BY <2>1, <2>2, <3>1, RingHeadMoved, SMTT(30)
    <2>5. CASE DeQueueStores(q)
      <3>1. /\ h.pc = "store" /\ handled' = handled
            /\ handler'[q].pc = "handle" /\ handler'[q].pkt = h.pkt
            /\ pkt_queue'[q] = [ring EXCEPT !.element_count = h.reg - 1]
            /\ h.reg = ring.element_count
        BY <2>5 DEF DeQueueStores, Lost, WinTypeOK, HandlerType, QueueType
      <3>2. QED
        BY <2>1, <2>2, <3>1, RingTaken
    <2>6. CASE Handles(q)
      <3>1. /\ h.pc = "handle" /\ handled'[q] = Append(handled[q], h.pkt)
            /\ handler'[q].pc = "poll" /\ pkt_queue'[q] = ring
        BY <2>6 DEF Handles, WinTypeOK, HandlerType, OtherType
      <3>2. QED
        BY <2>1, <2>2, <3>1, RingHandled
    <2>7. QED
      BY <1>4, <2>3, <2>4, <2>5, <2>6 DEF HandlerSteps
  <1>5. QED
    BY <1>3, <1>4

LEMMA RingsNext == WinTypeOK /\ ThreadsInv /\ RingsInv /\ [WinNext]_winVars => RingsInv'
  <1> SUFFICES ASSUME WinTypeOK, ThreadsInv, RingsInv, [WinNext]_winVars PROVE RingsInv'
    OBVIOUS
  <1>1. CASE UNCHANGED winVars
    <2>1. ASSUME NEW q \in Queues, QueueInv(q)
          PROVE  QueueInv(q)'
      BY <1>1, <2>1, QueueSame DEF winVars, queueVars
    <2>2. QED
      BY <1>1, <2>1 DEF winVars, queueVars, RingsInv
  <1>2. QED
    BY <1>1, RingsMain, RingsCapture, RingsHandler DEF WinNext

\* Every ring holds what was put into it last, after what was handled.
LEMMA QueueRing ==
  ASSUME NEW q \in Queues, QueueInv(q)
  PROVE  \E x, reg : /\ RingAt(q, x, reg)
                     /\ (\A d \in Captures : ~InEnQueue(d, q)) => x = "loop"
  <1>1. CASE Writers(q) = {}
    BY <1>1 DEF QueueInv
  <1>2. CASE Writers(q) # {}
    <2>1. PICK d \in Writers(q) : RingAt(q, capture[d].pc, capture[d].reg)
      BY <1>2 DEF QueueInv
    <2>2. QED
      BY <2>1 DEF Writers
  <1>3. QED
    BY <1>1, <1>2

LEMMA PrefixBySame ==
  ASSUME NEW p \in Seq(Nat), NEW s \in Seq(Nat), Len(s) <= Len(p), \A i \in 1 .. Len(s) : s[i] = p[i]
  PROVE  IsPrefix(s, p)
  <1>1. Len(s) \in Nat /\ Len(p) \in Nat
    OBVIOUS
  <1>2. SubSeq(s, 1, Len(s)) = [i \in 1 .. Len(s) |-> s[i]]
    BY <1>1
  <1>3. SubSeq(p, 1, Len(s)) = [i \in 1 .. Len(s) |-> p[i]]
    BY <1>1
  <1>4. QED
    BY <1>2, <1>3 DEF IsPrefix

LEMMA QueuePrefix ==
  ASSUME WinTypeOK, NEW q \in Queues, QueueInv(q)
  PROVE  IsPrefix(handled[q], put[q])
  <1>1. PICK x, reg : RingAt(q, x, reg)
    BY QueueRing
  <1>2. handled[q] \in Seq(Nat) /\ put[q] \in Seq(Nat) /\ handler[q] \in HandlerRec
    BY QueueTypes
  <1>3. Taken(handled[q], handler[q]) <= Len(put[q]) /\ Taken(handled[q], handler[q]) >= Len(handled[q])
    BY <1>1, <1>2, HandlerNumbers DEF RingAt, RingInv, Taken
  <1>4. Len(handled[q]) <= Len(put[q])
    BY <1>2, <1>3, HandlerNumbers
  <1>5. QED
    BY <1>1, <1>2, <1>4, PrefixBySame DEF RingAt, RingInv

LEMMA PrefixWhenRings == WinTypeOK /\ RingsInv /\ winmain.pc # "gone" => PrefixInv
  BY QueuePrefix DEF RingsInv, PrefixInv

\* After the end of the process nothing is put or handled any more.
LEMMA PrefixNext ==
  WinTypeOK /\ ThreadsInv /\ RingsInv /\ PrefixInv /\ [WinNext]_winVars => PrefixInv'
  <1> SUFFICES ASSUME WinTypeOK, ThreadsInv, RingsInv, PrefixInv, [WinNext]_winVars PROVE PrefixInv'
    OBVIOUS
  <1>1. CASE winmain'.pc # "gone"
    <2>1. WinTypeOK' /\ RingsInv'
      BY TypeNext, RingsNext
    <2>2. (WinTypeOK /\ RingsInv /\ winmain.pc # "gone" => PrefixInv)'
      BY PrefixWhenRings, PTL
    <2>3. QED
      BY <1>1, <2>1, <2>2
  <1>2. CASE winmain'.pc = "gone"
    <2>1. UNCHANGED queueVars
      <3>1. CASE MainSteps
        BY <3>1 DEF MainSteps, CreatesCapture, TakesNext, CountsProcessors, LimitsQueues,
                    CreatesHandler, CreationFails
      <3>2. ASSUME NEW d \in Captures, CaptureSteps(d)
            PROVE  FALSE
        <4>1. winmain' = winmain /\ capture[d].pc # "ended"
          BY <3>2 DEF CaptureSteps, OpensDevice, OpenFails, Finishes, ChoosesQueue, WritesOutside,
                      EnQueueCopies, EnQueueMovesTail, EnQueueLoads, EnQueueStores, CaptureAt
        <4>2. QED
          BY <1>2, <4>1 DEF ThreadsInv
      <3>3. ASSUME NEW q \in Queues, HandlerSteps(q)
            PROVE  FALSE
        <4>1. winmain' = winmain /\ handler[q].pc # "ended"
          BY <3>3 DEF HandlerSteps, DeQueueCopies, DeQueueMovesHead, DeQueueStores, Handles, HandlerAt
        <4>2. QED
          BY <1>2, <4>1 DEF ThreadsInv
      <3>4. QED
        BY <3>1, <3>2, <3>3 DEF WinNext, winVars
    <2>2. QED
      BY <2>1 DEF queueVars, PrefixInv
  <1>3. QED
    BY <1>1, <1>2

LEMMA FifoWhenRings ==
  ASSUME WinTypeOK, ThreadsInv, RingsInv, PrefixInv
  PROVE  QueueIsFifo
  <1> SUFFICES ASSUME NEW q \in Queues, q \notin overlapped, AtRest(q)
               PROVE  /\ pkt_queue[q].element_count = Len(put[q]) - Len(handled[q])
                      /\ \A i \in 1 .. Len(put[q]) - Len(handled[q]) :
                           pkt_queue[q].node[(pkt_queue[q].head + i - 1) % QUEUE_SIZE]
                             = put[q][Len(handled[q]) + i]
    BY DEF QueueIsFifo, PrefixInv
  <1> DEFINE len == Len(put[q])
             done == Len(handled[q])
             head == pkt_queue[q].head
  <1>1. QueueInv(q)
    BY DEF AtRest, ThreadsInv, RingsInv
  <1>2. PICK reg : RingAt(q, "loop", reg)
    BY <1>1, QueueRing DEF AtRest
  <1>3. /\ Taken(handled[q], handler[q]) = done /\ Moved(handled[q], handler[q]) = done
        /\ Counted(handled[q], handler[q]) = done
    BY DEF AtRest, Taken, Moved, Counted
  <1>4. /\ done <= len /\ pkt_queue[q].element_count = len - done /\ len - done <= QUEUE_SIZE
        /\ \A j \in done + 1 .. len : pkt_queue[q].node[Wrap(head + (j - 1 - done))] = put[q][j]
    BY <1>2, <1>3 DEF RingAt, RingInv
  <1>5. len \in Nat /\ done \in Nat /\ head \in 0 .. QUEUE_SIZE - 1 /\ QUEUE_SIZE \in Nat \ {0}
    BY QueueTypes, WinAssumption DEF RingRec
  <1> HIDE DEF len, done, head
  <1>6. ASSUME NEW i \in 1 .. len - done
        PROVE  pkt_queue[q].node[(head + i - 1) % QUEUE_SIZE] = put[q][done + i]
    <2>1. /\ head + i - 1 \in 0 .. 2 * QUEUE_SIZE - 1 /\ done + i \in done + 1 .. len
          /\ head + ((done + i) - 1 - done) = head + i - 1
      BY <1>4, <1>5
    <2>2. (head + i - 1) % QUEUE_SIZE = Wrap(head + i - 1)
      BY <2>1, ModWrap
    <2>3. QED
      BY <1>4, <2>1, <2>2
  <1>7. QED
    BY <1>4, <1>6 DEF len, done, head

\* Until two updates of it overlap, a ring is a queue, for any number of devices, processors
\* and queues, any size of the rings and any number of packets: property QueueIsFifo.
THEOREM QueuesAreFifo == WinSpec => []QueueIsFifo
  <1> DEFINE Inv == WinTypeOK /\ ThreadsInv /\ RingsInv /\ PrefixInv
  <1>1. WinInit => Inv
    BY TypeInit, ThreadsInit, RingsInit
  <1>2. Inv /\ [WinNext]_winVars => Inv'
    BY TypeNext, ThreadsNext, RingsNext, PrefixNext
  <1>3. Inv => QueueIsFifo
    BY FifoWhenRings
  <1>4. QED
    BY <1>1, <1>2, <1>3, PTL DEF WinSpec

=============================================================================
