-------------------------- MODULE LinuxAdmin_proofs --------------------------
(***************************************************************************)
(* Proofs about the administration of the Linux userland server proxy      *)
(* (module LinuxServerAdmin), for any number of commands and accidents, any *)
(* requests and any finite set of groups.                                  *)
(***************************************************************************)
EXTENDS LinuxServerAdmin, FoldLemmas

-----------------------------------------------------------------------------
(* The inductive invariant                                                 *)

\* What a file, a copy of it and the table may hold: a group once.
Confs == {c \in Seq(Entries) : \A i, j \in DOMAIN c : c[i].ip = c[j].ip => i = j}
N == Cardinality(Groups)
ToolTypes == [pc : {"idle", "exit", "write", "fill", "reload"}, req : Requests \cup {NoRequest},
              copy : Confs, missed : SUBSET Groups]
AskedTypes == [in : BOOLEAN, port : Ports, vms : SUBSET VMs]

ToolTypeInv ==
  /\ file = NoFile \/ file \in Confs
  /\ tool \in [Tools -> ToolTypes]
  /\ \A t \in Tools : tool[t].pc \in {"write", "fill"} =>
       tool[t].req \in Requests /\ tool[t].req.cmd # "show"
  /\ commands \in Nat /\ faults \in Nat
  /\ asked \in [Groups -> AskedTypes] /\ spoiled \subseteq Groups /\ parted \in BOOLEAN

ProxyTypeInv ==
  /\ main \in {"down", "start", "call", "open", "join", "work"}
  /\ thread \in {"none", "bind", "accept", "drop", "load", "rejoin", "dead"}
  /\ groupIp \in [1 .. N -> Groups \cup {NoGroup}]
  /\ groupNum \in 0 .. N /\ numParam \in 0 .. N
  /\ mi \in 1 .. N + 1 /\ ti \in 1 .. N + 1
  /\ sock \in BOOLEAN /\ joined \subseteq Groups /\ refused \subseteq Groups
  /\ table \in Confs /\ pending \in 0 .. Backlog
  /\ monitor \in {"off", "look", "again"} /\ crossed \in BOOLEAN

\* Every index that is used lies in the list, which names a group once.
ListInv ==
  /\ \A i \in 1 .. groupNum : groupIp[i] \in Groups
  /\ \A i, j \in 1 .. groupNum : groupIp[i] = groupIp[j] => i = j
  /\ main \in {"open", "join"} => \A i \in 1 .. numParam : groupIp[i] \in Groups
  /\ main = "join" => mi <= numParam + 1
  /\ thread \in {"drop", "rejoin"} => ti <= groupNum + 1
  /\ thread = "load" => ti = 1
  /\ table # <<>> => groupNum = Len(table) /\ \A i \in 1 .. groupNum : groupIp[i] = table[i].ip

Listed(i, j) == {groupIp[k] : k \in i .. j}

\* The memberships are those of S, but for what the kernel has refused.
Has(S) == joined \ refused = S \ refused

\* How far startup and reload have got with the memberships.
Quiet == thread \notin {"drop", "load", "rejoin"}
JoinInv ==
  ~crossed =>
    /\ main \notin {"join", "work"} => joined = {} /\ refused = {}
    /\ main # "work" => Quiet
    /\ main \in {"open", "join"} => numParam = groupNum
    /\ main = "join" => Has(Listed(1, mi - 1))
    /\ main \in {"join", "work"} => sock
    /\ main = "work" => CASE thread = "drop"   -> Has(Listed(ti, groupNum))
                          [] thread = "load"   -> Has({})
                          [] thread = "rejoin" -> Has(Listed(1, ti - 1))
                          [] OTHER             -> Has(Listed(1, groupNum))

\* c has g as a says.
Agrees(c, g, a) ==
  IF a.in THEN \E e \in ToSet(c) : e.ip = g /\ e.port = a.port /\ ToSet(e.members) = a.vms
          ELSE \A e \in ToSet(c) : e.ip # g

\* The file is as asked; so will be, when it is written, what a command has made of the file, but
\* for groups written since the command read it.
Ends(r, g) == r.cmd \in {"del", "clear"} /\ g \in About(r)
CopyOK(a, lost, x) ==
  \A g \in Groups :
    /\ x.pc \in {"write", "fill"}
    /\ Ends(x.req, g) \/ g \notin lost \cup x.missed \cup PortsReset(a, x.req)
    => Agrees(x.copy, g, Expected(a, x.req)[g])
AskedInv ==
  /\ \A g \in Groups : ~asked[g].in => asked[g].vms = {}
  /\ file # NoFile => \A g \in Groups \ spoiled : Agrees(file, g, asked[g])
  /\ file = NoFile /\ Writing = {} => \A g \in Groups \ spoiled : ~asked[g].in
  /\ \A t \in Tools : CopyOK(asked, spoiled, tool[t])

IInv == ToolTypeInv /\ ProxyTypeInv /\ ListInv /\ JoinInv /\ AskedInv


-----------------------------------------------------------------------------
(* The loops of multis_admin, step by step                                 *)

\* The members of an existing group, one argument after the other.
JoiningTable(ch, s, ms) ==
  /\ ch \in [0 .. Len(s) -> Seq(VMs)]
  /\ ch[0] = ms /\ Joining(ms, s) = ch[Len(s)]
  /\ \A i \in 1 .. Len(s) : ch[i] = (IF s[i] \in ToSet(ch[i - 1])
                                     THEN ch[i - 1] ELSE Append(ch[i - 1], s[i]))

LEMMA JoiningChain ==
  ASSUME NEW ms \in Seq(VMs), NEW s \in Seq(VMs)
  PROVE  \E ch : JoiningTable(ch, s, ms)
  <1> DEFINE n == Len(s)
             A == Seq(VMs)
             f == [i \in 1 .. n |-> [a \in A |-> (IF s[i] \in ToSet(a)
                                                  THEN a ELSE Append(a, s[i]))]]
             Chosen == CHOOSE it : it = [S \in SUBSET (DOMAIN s) |->
                         IF S = {} THEN ms ELSE (IF s[Max(S)] \in ToSet(it[S \ {Max(S)}])
                                                 THEN it[S \ {Max(S)}]
                                                 ELSE Append(it[S \ {Max(S)}], s[Max(S)]))]
  <1>1. n \in Nat /\ DOMAIN s = 1 .. n /\ \A i \in 1 .. n : s[i] \in VMs
    OBVIOUS
  <1>2. \A a \in A, x \in VMs : (IF x \in ToSet(a) THEN a ELSE Append(a, x)) \in A
    OBVIOUS
  <1>3. ms \in A
    OBVIOUS
  <1>4. f \in [1 .. n -> [A -> A]]
    BY <1>1, <1>2
  <1> HIDE DEF A, n
  <1>5. PICK it \in [SUBSET (1 .. n) -> A] :
          \A S \in SUBSET (1 .. n) : it[S] = IF S = {} THEN ms ELSE f[Max(S)][it[S \ {Max(S)}]]
    <2> DEFINE b == ms
    <2>1. b \in A /\ n \in Nat /\ f \in [1 .. n -> [A -> A]]
      BY <1>1, <1>3, <1>4
    <2> HIDE DEF f, b
    <2>2. \E it : Iteration(n, A, b, f, it)
      BY <2>1, Iterates
    <2>3. QED
      BY <2>2 DEF b, Iteration
  <1>6. it = [S \in SUBSET (1 .. n) |->
                IF S = {} THEN ms ELSE (IF s[Max(S)] \in ToSet(it[S \ {Max(S)}])
                                        THEN it[S \ {Max(S)}]
                                        ELSE Append(it[S \ {Max(S)}], s[Max(S)]))]
    <2> SUFFICES ASSUME NEW S \in SUBSET (1 .. n), S # {}
                 PROVE  it[S] = (IF s[Max(S)] \in ToSet(it[S \ {Max(S)}])
                                 THEN it[S \ {Max(S)}] ELSE Append(it[S \ {Max(S)}], s[Max(S)]))
      BY <1>5
    <2>1. Max(S) \in 1 .. n
      BY <1>1, MaxOf
    <2>2. it[S \ {Max(S)}] \in A
      OBVIOUS
    <2>3. it[S] = f[Max(S)][it[S \ {Max(S)}]]
      BY <1>5
    <2>4. QED
      BY <2>1, <2>2, <2>3
  <1>7. Chosen = [S \in SUBSET (1 .. n) |->
                    IF S = {} THEN ms ELSE (IF s[Max(S)] \in ToSet(Chosen[S \ {Max(S)}])
                                            THEN Chosen[S \ {Max(S)}]
                                            ELSE Append(Chosen[S \ {Max(S)}], s[Max(S)]))]
    <2>1. \E jt : jt = [S \in SUBSET (DOMAIN s) |->
                          IF S = {} THEN ms ELSE (IF s[Max(S)] \in ToSet(jt[S \ {Max(S)}])
                                                  THEN jt[S \ {Max(S)}]
                                                  ELSE Append(jt[S \ {Max(S)}], s[Max(S)]))]
      BY <1>1, <1>6
    <2>2. QED
      BY <1>1, <2>1
  <1>8. Joining(ms, s) = Chosen[1 .. n]
    BY <1>1 DEF Joining, FoldLeft, MapThenFoldSet
  <1> HIDE DEF Chosen, f
  <1> DEFINE ch == [i \in 0 .. n |-> Chosen[1 .. i]]
  <1>9. ch[0] = ms /\ ch[n] = Joining(ms, s)
    <2>1. 1 .. 0 = {} /\ 1 .. 0 \in SUBSET (1 .. n)
      OBVIOUS
    <2>2. Chosen[1 .. 0] = ms
      BY <1>7, <2>1
    <2>3. QED
      BY <1>1, <1>8, <2>2
  <1>10. ASSUME NEW i \in 1 .. n PROVE ch[i] = (IF s[i] \in ToSet(ch[i - 1])
                                                THEN ch[i - 1] ELSE Append(ch[i - 1], s[i]))
    <2>1. /\ 1 .. i \in SUBSET (1 .. n) /\ 1 .. i # {}
          /\ (1 .. i) \ {i} = 1 .. (i - 1)
      BY <1>1
    <2>2. Max(1 .. i) = i
      BY <1>1, MaxOfInterval
    <2>3. Chosen[1 .. i] = (IF s[i] \in ToSet(Chosen[1 .. (i - 1)])
                            THEN Chosen[1 .. (i - 1)] ELSE Append(Chosen[1 .. (i - 1)], s[i]))
      BY <1>7, <2>1, <2>2
    <2>4. i \in 0 .. n /\ i - 1 \in 0 .. n
      BY <1>1
    <2>5. QED
      BY <2>3, <2>4
  <1>11. ch \in [0 .. n -> A]
    <2> DEFINE P == {i \in 0 .. n : ch[i] \in A}
    <2>1. 0 \in P
      BY <1>1, <1>3, <1>9
    <2>2. ASSUME NEW i \in 1 .. n, i - 1 \in P PROVE i \in P
      <3>1. ch[i - 1] \in A /\ s[i] \in VMs /\ i \in 0 .. n
        BY <1>1, <2>2
      <3>2. (IF s[i] \in ToSet(ch[i - 1]) THEN ch[i - 1] ELSE Append(ch[i - 1], s[i])) \in A
        <4> HIDE DEF ch
        <4>1. QED
          BY <1>2, <3>1
      <3>3. QED
        BY <1>10, <3>1, <3>2
    <2> HIDE DEF P
    <2>3. \A i \in 0 .. n : i \in P
      <3>1. \A i \in 1 .. n : i - 1 \in P => i \in P
        BY <2>2
      <3>2. QED
        BY <1>1, <2>1, <3>1, Induction
    <2>4. \A i \in 0 .. n : ch[i] \in A
      BY <2>3 DEF P
    <2>5. QED
      BY <2>4
  <1> HIDE DEF ch
  <1>12. JoiningTable(ch, s, ms)
    BY <1>1, <1>9, <1>10, <1>11 DEF n, A, JoiningTable
  <1>13. QED
    BY <1>12


\* The members that stay, one after the other.
StayingTable(ch, s, R) ==
  /\ ch \in [0 .. Len(s) -> Seq(VMs)]
  /\ ch[0] = <<>> /\ Staying(s, R) = ch[Len(s)]
  /\ \A i \in 1 .. Len(s) : ch[i] = (IF s[i] \in ToSet(R)
                                     THEN ch[i - 1] ELSE Append(ch[i - 1], s[i]))

LEMMA StayingChain ==
  ASSUME NEW R, NEW s \in Seq(VMs)
  PROVE  \E ch : StayingTable(ch, s, R)
  <1> DEFINE n == Len(s)
             A == Seq(VMs)
             f == [i \in 1 .. n |-> [a \in A |-> (IF s[i] \in ToSet(R)
                                                  THEN a ELSE Append(a, s[i]))]]
             Chosen == CHOOSE it : it = [S \in SUBSET (DOMAIN s) |->
                         IF S = {} THEN <<>> ELSE (IF s[Max(S)] \in ToSet(R)
                                                   THEN it[S \ {Max(S)}]
                                                   ELSE Append(it[S \ {Max(S)}], s[Max(S)]))]
  <1>1. n \in Nat /\ DOMAIN s = 1 .. n /\ \A i \in 1 .. n : s[i] \in VMs
    OBVIOUS
  <1>2. \A a \in A, x \in VMs : (IF x \in ToSet(R) THEN a ELSE Append(a, x)) \in A
    OBVIOUS
  <1>3. <<>> \in A
    OBVIOUS
  <1>4. f \in [1 .. n -> [A -> A]]
    BY <1>1, <1>2
  <1> HIDE DEF A, n
  <1>5. PICK it \in [SUBSET (1 .. n) -> A] :
          \A S \in SUBSET (1 .. n) : it[S] = IF S = {} THEN <<>> ELSE f[Max(S)][it[S \ {Max(S)}]]
    <2> DEFINE b == <<>>
    <2>1. b \in A /\ n \in Nat /\ f \in [1 .. n -> [A -> A]]
      BY <1>1, <1>3, <1>4
    <2> HIDE DEF f, b
    <2>2. \E it : Iteration(n, A, b, f, it)
      BY <2>1, Iterates
    <2>3. QED
      BY <2>2 DEF b, Iteration
  <1>6. it = [S \in SUBSET (1 .. n) |->
                IF S = {} THEN <<>> ELSE (IF s[Max(S)] \in ToSet(R)
                                          THEN it[S \ {Max(S)}]
                                          ELSE Append(it[S \ {Max(S)}], s[Max(S)]))]
    <2> SUFFICES ASSUME NEW S \in SUBSET (1 .. n), S # {}
                 PROVE  it[S] = (IF s[Max(S)] \in ToSet(R)
                                 THEN it[S \ {Max(S)}] ELSE Append(it[S \ {Max(S)}], s[Max(S)]))
      BY <1>5
    <2>1. Max(S) \in 1 .. n
      BY <1>1, MaxOf
    <2>2. it[S \ {Max(S)}] \in A
      OBVIOUS
    <2>3. it[S] = f[Max(S)][it[S \ {Max(S)}]]
      BY <1>5
    <2>4. QED
      BY <2>1, <2>2, <2>3
  <1>7. Chosen = [S \in SUBSET (1 .. n) |->
                    IF S = {} THEN <<>> ELSE (IF s[Max(S)] \in ToSet(R)
                                              THEN Chosen[S \ {Max(S)}]
                                              ELSE Append(Chosen[S \ {Max(S)}], s[Max(S)]))]
    <2>1. \E jt : jt = [S \in SUBSET (DOMAIN s) |->
                          IF S = {} THEN <<>> ELSE (IF s[Max(S)] \in ToSet(R)
                                                    THEN jt[S \ {Max(S)}]
                                                    ELSE Append(jt[S \ {Max(S)}], s[Max(S)]))]
      BY <1>1, <1>6
    <2>2. QED
      BY <1>1, <2>1
  <1>8. Staying(s, R) = Chosen[1 .. n]
    BY <1>1 DEF Staying, FoldLeft, MapThenFoldSet
  <1> HIDE DEF Chosen, f
  <1> DEFINE ch == [i \in 0 .. n |-> Chosen[1 .. i]]
  <1>9. ch[0] = <<>> /\ ch[n] = Staying(s, R)
    <2>1. 1 .. 0 = {} /\ 1 .. 0 \in SUBSET (1 .. n)
      OBVIOUS
    <2>2. Chosen[1 .. 0] = <<>>
      BY <1>7, <2>1
    <2>3. QED
      BY <1>1, <1>8, <2>2
  <1>10. ASSUME NEW i \in 1 .. n PROVE ch[i] = (IF s[i] \in ToSet(R)
                                                THEN ch[i - 1] ELSE Append(ch[i - 1], s[i]))
    <2>1. /\ 1 .. i \in SUBSET (1 .. n) /\ 1 .. i # {}
          /\ (1 .. i) \ {i} = 1 .. (i - 1)
      BY <1>1
    <2>2. Max(1 .. i) = i
      BY <1>1, MaxOfInterval
    <2>3. Chosen[1 .. i] = (IF s[i] \in ToSet(R)
                            THEN Chosen[1 .. (i - 1)] ELSE Append(Chosen[1 .. (i - 1)], s[i]))
      BY <1>7, <2>1, <2>2
    <2>4. i \in 0 .. n /\ i - 1 \in 0 .. n
      BY <1>1
    <2>5. QED
      BY <2>3, <2>4
  <1>11. ch \in [0 .. n -> A]
    <2> DEFINE P == {i \in 0 .. n : ch[i] \in A}
    <2>1. 0 \in P
      BY <1>1, <1>3, <1>9
    <2>2. ASSUME NEW i \in 1 .. n, i - 1 \in P PROVE i \in P
      <3>1. ch[i - 1] \in A /\ s[i] \in VMs /\ i \in 0 .. n
        BY <1>1, <2>2
      <3>2. (IF s[i] \in ToSet(R) THEN ch[i - 1] ELSE Append(ch[i - 1], s[i])) \in A
        <4> HIDE DEF ch
        <4>1. QED
          BY <1>2, <3>1
      <3>3. QED
        BY <1>10, <3>1, <3>2
    <2> HIDE DEF P
    <2>3. \A i \in 0 .. n : i \in P
      <3>1. \A i \in 1 .. n : i - 1 \in P => i \in P
        BY <2>2
      <3>2. QED
        BY <1>1, <2>1, <3>1, Induction
    <2>4. \A i \in 0 .. n : ch[i] \in A
      BY <2>3 DEF P
    <2>5. QED
      BY <2>4
  <1> HIDE DEF ch
  <1>12. StayingTable(ch, s, R)
    BY <1>1, <1>9, <1>10, <1>11 DEF n, A, StayingTable
  <1>13. QED
    BY <1>12


\* The other groups, one after the other.
OthersTable(ch, s, g) ==
  /\ ch \in [0 .. Len(s) -> Seq(Entries)]
  /\ ch[0] = <<>> /\ Others(s, g) = ch[Len(s)]
  /\ \A i \in 1 .. Len(s) : ch[i] = (IF s[i].ip = g
                                     THEN ch[i - 1]
                                     ELSE Append(ch[i - 1], [s[i] EXCEPT !.port = DefaultPort]))

LEMMA OthersChain ==
  ASSUME NEW g, NEW s \in Seq(Entries)
  PROVE  \E ch : OthersTable(ch, s, g)
  <1> DEFINE n == Len(s)
             A == Seq(Entries)
             f == [i \in 1 .. n |-> [a \in A |-> (IF s[i].ip = g
                                                  THEN a
                                                  ELSE Append(a, [s[i] EXCEPT !.port = DefaultPort]))]]
             Chosen == CHOOSE it : it = [S \in SUBSET (DOMAIN s) |->
                         IF S = {} THEN <<>> ELSE (IF s[Max(S)].ip = g
                                                   THEN it[S \ {Max(S)}]
                                                   ELSE Append(it[S \ {Max(S)}], [s[Max(S)] EXCEPT !.port = DefaultPort]))]
  <1>1. n \in Nat /\ DOMAIN s = 1 .. n /\ \A i \in 1 .. n : s[i] \in Entries
    OBVIOUS
  <1>2. \A a \in A, x \in Entries : (IF x.ip = g
                                     THEN a ELSE Append(a, [x EXCEPT !.port = DefaultPort])) \in A
    <2>1. \A x \in Entries : [x EXCEPT !.port = DefaultPort] \in Entries
      BY LinuxAssumption DEF Entries
    <2>2. QED
      BY <2>1
  <1>3. <<>> \in A
    OBVIOUS
  <1>4. f \in [1 .. n -> [A -> A]]
    BY <1>1, <1>2
  <1> HIDE DEF A, n
  <1>5. PICK it \in [SUBSET (1 .. n) -> A] :
          \A S \in SUBSET (1 .. n) : it[S] = IF S = {} THEN <<>> ELSE f[Max(S)][it[S \ {Max(S)}]]
    <2> DEFINE b == <<>>
    <2>1. b \in A /\ n \in Nat /\ f \in [1 .. n -> [A -> A]]
      BY <1>1, <1>3, <1>4
    <2> HIDE DEF f, b
    <2>2. \E it : Iteration(n, A, b, f, it)
      BY <2>1, Iterates
    <2>3. QED
      BY <2>2 DEF b, Iteration
  <1>6. it = [S \in SUBSET (1 .. n) |->
                IF S = {} THEN <<>> ELSE (IF s[Max(S)].ip = g
                                          THEN it[S \ {Max(S)}]
                                          ELSE Append(it[S \ {Max(S)}], [s[Max(S)] EXCEPT !.port = DefaultPort]))]
    <2> SUFFICES ASSUME NEW S \in SUBSET (1 .. n), S # {}
                 PROVE  it[S] = (IF s[Max(S)].ip = g
                                 THEN it[S \ {Max(S)}]
                                 ELSE Append(it[S \ {Max(S)}], [s[Max(S)] EXCEPT !.port = DefaultPort]))
      BY <1>5
    <2>1. Max(S) \in 1 .. n
      BY <1>1, MaxOf
    <2>2. it[S \ {Max(S)}] \in A
      OBVIOUS
    <2>3. it[S] = f[Max(S)][it[S \ {Max(S)}]]
      BY <1>5
    <2>4. QED
      BY <2>1, <2>2, <2>3
  <1>7. Chosen = [S \in SUBSET (1 .. n) |->
                    IF S = {} THEN <<>> ELSE (IF s[Max(S)].ip = g
                                              THEN Chosen[S \ {Max(S)}]
                                              ELSE Append(Chosen[S \ {Max(S)}], [s[Max(S)] EXCEPT !.port = DefaultPort]))]
    <2>1. \E jt : jt = [S \in SUBSET (DOMAIN s) |->
                          IF S = {} THEN <<>> ELSE (IF s[Max(S)].ip = g
                                                    THEN jt[S \ {Max(S)}]
                                                    ELSE Append(jt[S \ {Max(S)}], [s[Max(S)] EXCEPT !.port = DefaultPort]))]
      BY <1>1, <1>6
    <2>2. QED
      BY <1>1, <2>1
  <1>8. Others(s, g) = Chosen[1 .. n]
    BY <1>1 DEF Others, FoldLeft, MapThenFoldSet
  <1> HIDE DEF Chosen, f
  <1> DEFINE ch == [i \in 0 .. n |-> Chosen[1 .. i]]
  <1>9. ch[0] = <<>> /\ ch[n] = Others(s, g)
    <2>1. 1 .. 0 = {} /\ 1 .. 0 \in SUBSET (1 .. n)
      OBVIOUS
    <2>2. Chosen[1 .. 0] = <<>>
      BY <1>7, <2>1
    <2>3. QED
      BY <1>1, <1>8, <2>2
  <1>10. ASSUME NEW i \in 1 .. n PROVE ch[i] = (IF s[i].ip = g
                                                THEN ch[i - 1]
                                                ELSE Append(ch[i - 1], [s[i] EXCEPT !.port = DefaultPort]))
    <2>1. /\ 1 .. i \in SUBSET (1 .. n) /\ 1 .. i # {}
          /\ (1 .. i) \ {i} = 1 .. (i - 1)
      BY <1>1
    <2>2. Max(1 .. i) = i
      BY <1>1, MaxOfInterval
    <2>3. Chosen[1 .. i] = (IF s[i].ip = g
                            THEN Chosen[1 .. (i - 1)]
                            ELSE Append(Chosen[1 .. (i - 1)], [s[i] EXCEPT !.port = DefaultPort]))
      BY <1>7, <2>1, <2>2
    <2>4. i \in 0 .. n /\ i - 1 \in 0 .. n
      BY <1>1
    <2>5. QED
      BY <2>3, <2>4
  <1>11. ch \in [0 .. n -> A]
    <2> DEFINE P == {i \in 0 .. n : ch[i] \in A}
    <2>1. 0 \in P
      BY <1>1, <1>3, <1>9
    <2>2. ASSUME NEW i \in 1 .. n, i - 1 \in P PROVE i \in P
      <3>1. ch[i - 1] \in A /\ s[i] \in Entries /\ i \in 0 .. n
        BY <1>1, <2>2
      <3>2. (IF s[i].ip = g
             THEN ch[i - 1] ELSE Append(ch[i - 1], [s[i] EXCEPT !.port = DefaultPort])) \in A
        <4> HIDE DEF ch
        <4>1. QED
          BY <1>2, <3>1
      <3>3. QED
        BY <1>10, <3>1, <3>2
    <2> HIDE DEF P
    <2>3. \A i \in 0 .. n : i \in P
      <3>1. \A i \in 1 .. n : i - 1 \in P => i \in P
        BY <2>2
      <3>2. QED
        BY <1>1, <2>1, <3>1, Induction
    <2>4. \A i \in 0 .. n : ch[i] \in A
      BY <2>3 DEF P
    <2>5. QED
      BY <2>4
  <1> HIDE DEF ch
  <1>12. OthersTable(ch, s, g)
    BY <1>1, <1>9, <1>10, <1>11 DEF n, A, OthersTable
  <1>13. QED
    BY <1>12

-----------------------------------------------------------------------------
(* What the commands make of a configuration                               *)

LEMMA AppendSet ==
  ASSUME NEW S, NEW s \in Seq(S), NEW x \in S
  PROVE  ToSet(Append(s, x)) = ToSet(s) \cup {x}
  <1>1. /\ DOMAIN Append(s, x) = 1 .. Len(s) + 1 /\ DOMAIN s = 1 .. Len(s) /\ Len(s) \in Nat
        /\ Append(s, x)[Len(s) + 1] = x /\ \A i \in 1 .. Len(s) : Append(s, x)[i] = s[i]
    OBVIOUS
  <1>2. ASSUME NEW y \in ToSet(Append(s, x)) PROVE y \in ToSet(s) \cup {x}
    <2>1. PICK i \in 1 .. Len(s) + 1 : y = Append(s, x)[i]
      BY <1>1 DEF ToSet
    <2>2. i = Len(s) + 1 \/ i \in 1 .. Len(s)
      BY <1>1
    <2>3. QED
      BY <1>1, <2>1, <2>2 DEF ToSet
  <1>3. ASSUME NEW y \in ToSet(s) \cup {x} PROVE y \in ToSet(Append(s, x))
    <2>1. y = x \/ \E i \in 1 .. Len(s) : y = s[i]
      BY <1>1 DEF ToSet
    <2>2. \E i \in 1 .. Len(s) + 1 : y = Append(s, x)[i]
      <3>1. CASE y = x
        BY <1>1, <3>1
      <3>2. CASE \E i \in 1 .. Len(s) : y = s[i]
        <4>1. PICK i \in 1 .. Len(s) : y = s[i]
          BY <3>2
        <4>2. i \in 1 .. Len(s) + 1 /\ y = Append(s, x)[i]
          BY <1>1, <4>1
        <4>3. QED
          BY <4>2
      <3>3. QED
        BY <2>1, <3>1, <3>2
    <2>3. QED
      BY <1>1, <2>2 DEF ToSet
  <1>4. QED
    BY <1>2, <1>3

\* An existing group gets the members it does not have.
LEMMA JoiningIs ==
  ASSUME NEW ms \in Seq(VMs), NEW R \in Seq(VMs)
  PROVE  Joining(ms, R) \in Seq(VMs) /\ ToSet(Joining(ms, R)) = ToSet(ms) \cup ToSet(R)
  <1>1. PICK ch : JoiningTable(ch, R, ms)
    BY JoiningChain
  <1>2. PICK n \in Nat : n = Len(R)
    OBVIOUS
  <1>3. DOMAIN R = 1 .. n /\ \A i \in 1 .. n : R[i] \in VMs
    BY <1>2
  <1>4. /\ ch \in [0 .. n -> Seq(VMs)] /\ ch[0] = ms /\ Joining(ms, R) = ch[n]
        /\ \A i \in 1 .. n : ch[i] = (IF R[i] \in ToSet(ch[i - 1])
                                      THEN ch[i - 1] ELSE Append(ch[i - 1], R[i]))
    BY <1>1, <1>2 DEF JoiningTable
  <1> DEFINE P == {i \in 0 .. n : ToSet(ch[i]) = ToSet(ms) \cup {R[j] : j \in 1 .. i}}
  <1>5. 0 \in P
    BY <1>4
  <1>6. ASSUME NEW i \in 1 .. n, i - 1 \in P PROVE i \in P
    <2>1. ToSet(ch[i - 1]) = ToSet(ms) \cup {R[j] : j \in 1 .. i - 1}
      BY <1>6
    <2>2. {R[j] : j \in 1 .. i} = {R[j] : j \in 1 .. i - 1} \cup {R[i]}
      <3>1. 1 .. i = (1 .. i - 1) \cup {i}
        OBVIOUS
      <3>2. QED
        BY <3>1
    <2>3. ToSet(ch[i]) = ToSet(ch[i - 1]) \cup {R[i]}
      <3>1. ch[i - 1] \in Seq(VMs) /\ R[i] \in VMs
        BY <1>3, <1>4
      <3>2. CASE R[i] \in ToSet(ch[i - 1])
        BY <1>4, <3>2
      <3>3. CASE R[i] \notin ToSet(ch[i - 1])
        <4>1. ToSet(Append(ch[i - 1], R[i])) = ToSet(ch[i - 1]) \cup {R[i]}
          BY <3>1, AppendSet
        <4>2. QED
          BY <1>4, <3>3, <4>1
      <3>4. QED
        BY <3>2, <3>3
    <2>4. QED
      BY <2>1, <2>2, <2>3
  <1> HIDE DEF P
  <1>7. n \in P
    <2>1. \A i \in 1 .. n : i - 1 \in P => i \in P
      BY <1>6
    <2>2. \A i \in 0 .. n : i \in P
      BY <1>5, <2>1, Induction
    <2>3. QED
      BY <2>2
  <1>8. ToSet(R) = {R[j] : j \in 1 .. n}
    BY <1>3 DEF ToSet
  <1>9. QED
    BY <1>4, <1>7, <1>8 DEF P

LEMMA StayingIs ==
  ASSUME NEW ms \in Seq(VMs), NEW R
  PROVE  Staying(ms, R) \in Seq(VMs) /\ ToSet(Staying(ms, R)) = ToSet(ms) \ ToSet(R)
  <1>1. PICK ch : StayingTable(ch, ms, R)
    BY StayingChain
  <1>2. PICK n \in Nat : n = Len(ms)
    OBVIOUS
  <1>3. DOMAIN ms = 1 .. n /\ \A i \in 1 .. n : ms[i] \in VMs
    BY <1>2
  <1>g. PICK G : G = ToSet(R)
    OBVIOUS
  <1>4. /\ ch \in [0 .. n -> Seq(VMs)] /\ ch[0] = <<>> /\ Staying(ms, R) = ch[n]
        /\ \A i \in 1 .. n : ch[i] = (IF ms[i] \in G
                                      THEN ch[i - 1] ELSE Append(ch[i - 1], ms[i]))
    BY <1>1, <1>2, <1>g DEF StayingTable
  <1> DEFINE P == {i \in 0 .. n : ToSet(ch[i]) = {ms[j] : j \in 1 .. i} \ G}
  <1>5. 0 \in P
    BY <1>4 DEF ToSet
  <1>6. ASSUME NEW i \in 1 .. n, i - 1 \in P PROVE i \in P
    <2>1. ToSet(ch[i - 1]) = {ms[j] : j \in 1 .. i - 1} \ G
      BY <1>6
    <2>2. {ms[j] : j \in 1 .. i} = {ms[j] : j \in 1 .. i - 1} \cup {ms[i]}
      <3>1. 1 .. i = (1 .. i - 1) \cup {i}
        OBVIOUS
      <3>2. QED
        BY <3>1
    <2>3. ch[i - 1] \in Seq(VMs) /\ ms[i] \in VMs
      BY <1>3, <1>4
    <2>4. ToSet(Append(ch[i - 1], ms[i])) = ToSet(ch[i - 1]) \cup {ms[i]}
      BY <2>3, AppendSet
    <2>5. ToSet(ch[i]) = IF ms[i] \in G THEN ToSet(ch[i - 1]) ELSE ToSet(ch[i - 1]) \cup {ms[i]}
      BY <1>4, <2>4
    <2>6. QED
      BY <2>1, <2>2, <2>5
  <1> HIDE DEF P
  <1>7. n \in P
    <2>1. \A i \in 1 .. n : i - 1 \in P => i \in P
      BY <1>6
    <2>2. \A i \in 0 .. n : i \in P
      BY <1>5, <2>1, Induction
    <2>3. QED
      BY <2>2
  <1>8. ToSet(ms) = {ms[j] : j \in 1 .. n}
    BY <1>3 DEF ToSet
  <1>9. QED
    BY <1>4, <1>7, <1>8, <1>g DEF P

LEMMA ConfParts ==
  ASSUME NEW c \in Confs
  PROVE  /\ c \in Seq(Entries) /\ Len(c) \in Nat /\ DOMAIN c = 1 .. Len(c)
         /\ \A i \in 1 .. Len(c) : c[i] \in Entries /\ c[i] \in ToSet(c) /\ c[i].ip \in Groups
         /\ \A i, j \in 1 .. Len(c) : c[i].ip = c[j].ip => i = j
         /\ \A e \in ToSet(c) : \E i \in 1 .. Len(c) : e = c[i]
  <1>1. c \in Seq(Entries) /\ \A i, j \in DOMAIN c : c[i].ip = c[j].ip => i = j
    BY DEF Confs
  <1>2. Len(c) \in Nat /\ DOMAIN c = 1 .. Len(c) /\ \A i \in 1 .. Len(c) : c[i] \in Entries
    BY <1>1
  <1>3. QED
    BY <1>1, <1>2 DEF ToSet, Entries

LEMMA AppendConf ==
  ASSUME NEW c \in Confs, NEW e \in Entries, \A x \in ToSet(c) : x.ip # e.ip
  PROVE  Append(c, e) \in Confs /\ ToSet(Append(c, e)) = ToSet(c) \cup {e}
  <1>1. /\ c \in Seq(Entries) /\ Len(c) \in Nat
        /\ \A i \in 1 .. Len(c) : c[i] \in ToSet(c)
        /\ \A i, j \in 1 .. Len(c) : c[i].ip = c[j].ip => i = j
    BY ConfParts
  <1>2. PICK d : d = Append(c, e)
    OBVIOUS
  <1>3. /\ d \in Seq(Entries) /\ DOMAIN d = 1 .. Len(c) + 1 /\ d[Len(c) + 1] = e
        /\ \A i \in 1 .. Len(c) : d[i] = c[i]
    BY <1>1, <1>2
  <1>4. ASSUME NEW i \in DOMAIN d, NEW j \in DOMAIN d, d[i].ip = d[j].ip PROVE i = j
    <2>1. (i = Len(c) + 1 \/ i \in 1 .. Len(c)) /\ (j = Len(c) + 1 \/ j \in 1 .. Len(c))
      BY <1>1, <1>3
    <2>2. QED
      BY <1>1, <1>3, <1>4, <2>1
  <1>5. d \in Confs
    BY <1>3, <1>4 DEF Confs
  <1>6. QED
    BY <1>1, <1>2, <1>5, AppendSet

LEMMA EditConf ==
  ASSUME NEW c \in Confs, NEW i \in DOMAIN c, NEW e \in Entries, e.ip = c[i].ip
  PROVE  /\ [c EXCEPT ![i] = e] \in Confs
         /\ ToSet([c EXCEPT ![i] = e]) = {x \in ToSet(c) : x.ip # e.ip} \cup {e}
  <1>1. /\ c \in Seq(Entries) /\ Len(c) \in Nat /\ DOMAIN c = 1 .. Len(c)
        /\ \A k, j \in 1 .. Len(c) : c[k].ip = c[j].ip => k = j
    BY ConfParts
  <1>2. PICK d : d = [c EXCEPT ![i] = e]
    OBVIOUS
  <1>3. /\ d \in Seq(Entries) /\ DOMAIN d = 1 .. Len(c) /\ d[i] = e
        /\ \A j \in 1 .. Len(c) : j # i => d[j] = c[j]
    BY <1>1, <1>2
  <1>4. \A j \in 1 .. Len(c) : d[j].ip = c[j].ip
    BY <1>3
  <1>5. d \in Confs
    BY <1>1, <1>3, <1>4 DEF Confs
  <1>6. ToSet(c) = {c[j] : j \in 1 .. Len(c)} /\ ToSet(d) = {d[j] : j \in 1 .. Len(c)}
    BY <1>1, <1>3 DEF ToSet
  <1>7. ASSUME NEW j \in 1 .. Len(c) PROVE d[j] \in {x \in ToSet(c) : x.ip # e.ip} \cup {e}
    <2>1. CASE j = i
      BY <1>3, <2>1
    <2>2. CASE j # i
      BY <1>1, <1>3, <1>6, <2>2
    <2>3. QED
      BY <2>1, <2>2
  <1>8. ASSUME NEW x \in ToSet(c), x.ip # e.ip PROVE x \in ToSet(d)
    <2>1. PICK j \in 1 .. Len(c) : x = c[j]
      BY <1>6
    <2>2. j # i
      BY <1>8, <2>1
    <2>3. QED
      BY <1>3, <1>6, <2>1, <2>2
  <1>9. e \in ToSet(d)
    BY <1>1, <1>3, <1>6
  <1>10. ToSet(d) = {x \in ToSet(c) : x.ip # e.ip} \cup {e}
    BY <1>6, <1>7, <1>8, <1>9
  <1>11. QED
    BY <1>2, <1>5, <1>10

LEMMA NamedIs ==
  ASSUME NEW c \in Confs, NEW g
  PROVE  \/ Named(c, g) = 0 /\ \A e \in ToSet(c) : e.ip # g
         \/ Named(c, g) \in 1 .. Len(c) /\ c[Named(c, g)].ip = g /\ c[Named(c, g)] \in ToSet(c)
  <1> DEFINE I == {i \in 1 .. Len(c) : c[i].ip = g}
  <1>1. Named(c, g) = IF I # {} THEN Min(I) ELSE 0
    BY DEF Named, SelectInSeq
  <1>2. /\ \A i \in 1 .. Len(c) : c[i] \in ToSet(c)
        /\ \A e \in ToSet(c) : \E i \in 1 .. Len(c) : e = c[i]
    BY ConfParts
  <1>3. CASE I = {}
    BY <1>1, <1>2, <1>3
  <1>4. CASE I # {}
    <2>1. I \in SUBSET Nat
      OBVIOUS
    <2>2. Named(c, g) = Min(I)
      BY <1>1, <1>4
    <2> HIDE DEF I
    <2>3. Min(I) \in I
      BY <1>4, <2>1, MinOf
    <2>4. QED
      BY <1>2, <2>2, <2>3 DEF I
  <1>5. QED
    BY <1>3, <1>4

\* -D: every other group, with the default port.
LEMMA OthersIs ==
  ASSUME NEW c \in Confs, NEW g
  PROVE  /\ Others(c, g) \in Confs
         /\ ToSet(Others(c, g)) = {[e EXCEPT !.port = DefaultPort] : e \in {x \in ToSet(c) : x.ip # g}}
  <1> DEFINE n == Len(c)
             new(j) == [c[j] EXCEPT !.port = DefaultPort]
  <1>1. /\ c \in Seq(Entries) /\ n \in Nat /\ DOMAIN c = 1 .. n
        /\ \A i \in 1 .. n : c[i] \in Entries
        /\ \A i, j \in 1 .. n : c[i].ip = c[j].ip => i = j
    BY ConfParts
  <1>2. \A i \in 1 .. n : new(i) \in Entries /\ new(i).ip = c[i].ip
    BY <1>1, LinuxAssumption DEF Entries
  <1>3. PICK ch : OthersTable(ch, c, g)
    BY <1>1, OthersChain
  <1>4. /\ ch \in [0 .. n -> Seq(Entries)] /\ ch[0] = <<>> /\ Others(c, g) = ch[n]
        /\ \A i \in 1 .. n : ch[i] = (IF c[i].ip = g THEN ch[i - 1] ELSE Append(ch[i - 1], new(i)))
    BY <1>3 DEF OthersTable
  <1> DEFINE P == {i \in 0 .. n : /\ ch[i] \in Confs
                                  /\ ToSet(ch[i]) = {new(j) : j \in {k \in 1 .. i : c[k].ip # g}}}
  <1>5. 0 \in P
    <2>1. <<>> \in Confs /\ ToSet(<<>>) = {}
      BY DEF Confs, ToSet
    <2>2. QED
      BY <1>1, <1>4, <2>1
  <1>6. ASSUME NEW i \in 1 .. n, i - 1 \in P PROVE i \in P
    <2>1. /\ ch[i - 1] \in Confs
          /\ ToSet(ch[i - 1]) = {new(j) : j \in {k \in 1 .. i - 1 : c[k].ip # g}}
      BY <1>6
    <2>2. 1 .. i = (1 .. i - 1) \cup {i} /\ i \in 0 .. n
      BY <1>1
    <2>3. CASE c[i].ip = g
      <3>1. {k \in 1 .. i : c[k].ip # g} = {k \in 1 .. i - 1 : c[k].ip # g}
        BY <2>2, <2>3
      <3>2. QED
        BY <1>4, <2>1, <2>2, <2>3, <3>1
    <2>4. CASE c[i].ip # g
      <3>1. {k \in 1 .. i : c[k].ip # g} = {k \in 1 .. i - 1 : c[k].ip # g} \cup {i}
        BY <2>2, <2>4
      <3>2. \A x \in ToSet(ch[i - 1]) : x.ip # new(i).ip
        <4> SUFFICES ASSUME NEW j \in 1 .. i - 1 PROVE new(j).ip # new(i).ip
          BY <2>1
        <4>1. j \in 1 .. n /\ j # i
          BY <1>1
        <4>2. QED
          BY <1>1, <1>2, <4>1
      <3>3. ch[i] = Append(ch[i - 1], new(i)) /\ new(i) \in Entries
        BY <1>2, <1>4, <2>4
      <3> HIDE DEF new
      <3>4. ch[i] \in Confs /\ ToSet(ch[i]) = ToSet(ch[i - 1]) \cup {new(i)}
        BY <2>1, <3>2, <3>3, AppendConf
      <3>5. QED
        BY <2>1, <2>2, <3>1, <3>4
    <2>5. QED
      BY <2>3, <2>4
  <1> HIDE DEF P
  <1>7. n \in P
    <2>1. \A i \in 1 .. n : i - 1 \in P => i \in P
      BY <1>6
    <2>2. \A i \in 0 .. n : i \in P
      BY <1>1, <1>5, <2>1, Induction
    <2>3. QED
      BY <1>1, <2>2
  <1>8. ToSet(Others(c, g)) = {new(j) : j \in {k \in 1 .. n : c[k].ip # g}}
    BY <1>4, <1>7 DEF P
  <1>9. ToSet(c) = {c[j] : j \in 1 .. n}
    BY <1>1 DEF ToSet
  <1>10. Others(c, g) \in Confs
    BY <1>4, <1>7 DEF P
  <1>11. {[e EXCEPT !.port = DefaultPort] : e \in {x \in ToSet(c) : x.ip # g}}
           = {new(j) : j \in {k \in 1 .. n : c[k].ip # g}}
    <2>1. {x \in ToSet(c) : x.ip # g} = {c[j] : j \in {k \in 1 .. n : c[k].ip # g}}
      BY <1>9
    <2>2. QED
      BY <2>1
  <1>12. QED
    BY <1>8, <1>10, <1>11

LEMMA OneEntry ==
  ASSUME NEW c \in Confs, NEW x \in ToSet(c), NEW y \in ToSet(c), x.ip = y.ip
  PROVE  x = y
  BY ConfParts

LEMMA EntryTypes ==
  ASSUME NEW c \in Confs, NEW x \in ToSet(c)
  PROVE  x \in Entries
  BY ConfParts

\* json_add_list
LEMMA AddedIs ==
  ASSUME NEW c \in Confs, NEW r, r.g \in Groups, r.R \in Seq(VMs), r.port \in Ports
  PROVE  /\ Added(c, r) \in Confs
         /\ \E e \in Entries :
              /\ e.ip = r.g /\ e.port = r.port
              /\ ToSet(Added(c, r)) = {x \in ToSet(c) : x.ip # r.g} \cup {e}
              /\ \A x \in ToSet(c) : x.ip = r.g => ToSet(e.members) = ToSet(x.members) \cup ToSet(r.R)
              /\ (\A x \in ToSet(c) : x.ip # r.g) => ToSet(e.members) = ToSet(r.R)
  <1>i. PICK i : i = Named(c, r.g)
    OBVIOUS
  <1>1. CASE i = 0
    <2>1. \A x \in ToSet(c) : x.ip # r.g
      <3>1. i \notin 1 .. Len(c)
        BY <1>1, ConfParts
      <3>2. QED
        BY <1>i, <3>1, NamedIs
    <2>2. PICK e : e = [ip |-> r.g, port |-> r.port, members |-> r.R]
      OBVIOUS
    <2>3. e \in Entries /\ e.ip = r.g /\ e.port = r.port /\ e.members = r.R
      BY <2>2 DEF Entries
    <2>4. Added(c, r) = Append(c, e)
      BY <1>i, <1>1, <2>2 DEF Added
    <2>5. Append(c, e) \in Confs /\ ToSet(Append(c, e)) = ToSet(c) \cup {e}
      BY <2>1, <2>3, AppendConf
    <2>6. QED
      BY <2>1, <2>3, <2>4, <2>5
  <1>2. CASE i # 0
    <2>1. i \in 1 .. Len(c) /\ c[i].ip = r.g /\ c[i] \in ToSet(c) /\ Len(c) \in Nat
      BY <1>i, <1>2, NamedIs, ConfParts
    <2>2. c[i] \in Entries /\ c \in Seq(Entries) /\ DOMAIN c = 1 .. Len(c)
      BY <2>1, ConfParts
    <2>3. PICK m : m = Joining(c[i].members, r.R)
      OBVIOUS
    <2>4. m \in Seq(VMs) /\ ToSet(m) = ToSet(c[i].members) \cup ToSet(r.R)
      BY <2>2, <2>3, JoiningIs DEF Entries
    <2>5. PICK e : e = [ip |-> r.g, port |-> r.port, members |-> m]
      OBVIOUS
    <2>6. e \in Entries /\ e.ip = r.g /\ e.port = r.port /\ e.members = m
      BY <2>4, <2>5 DEF Entries
    <2>7. Added(c, r) = [c EXCEPT ![i] = e]
      <3>1. i > 0
        BY <2>1
      <3>2. Added(c, r) = [c EXCEPT ![i].port = r.port, ![i].members = Joining(@, r.R)]
        BY <1>i, <3>1 DEF Added
      <3>3. PICK b : b = [c EXCEPT ![i].port = r.port]
        OBVIOUS
      <3>4. b[i].members = c[i].members
        BY <2>1, <2>2, <3>3 DEF Entries
      <3>5. [b EXCEPT ![i].members = Joining(@, r.R)] = [b EXCEPT ![i].members = m]
        BY <2>3, <3>4
      <3>6. Added(c, r) = [c EXCEPT ![i].port = r.port, ![i].members = m]
        BY <3>2, <3>3, <3>5
      <3>7. [[c[i] EXCEPT !.port = r.port] EXCEPT !.members = m] = e
        <4>1. PICK y : y = c[i]
          OBVIOUS
        <4>2. y \in [ip : Groups, port : Ports, members : Seq(VMs)] /\ y.ip = r.g
          BY <2>1, <2>2, <4>1 DEF Entries
        <4>3. [[y EXCEPT !.port = r.port] EXCEPT !.members = m] = e
          <5>1. PICK z : z = [y EXCEPT !.port = r.port]
            OBVIOUS
          <5>2. z = [ip |-> r.g, port |-> r.port, members |-> y.members]
            BY <4>2, <5>1
          <5>3. [z EXCEPT !.members = m] = [ip |-> r.g, port |-> r.port, members |-> m]
            BY <5>2
          <5>4. QED
            BY <2>5, <5>1, <5>3
        <4>4. QED
          BY <4>1, <4>3
      <3>8. QED
        BY <2>1, <2>2, <3>6, <3>7
    <2>8. /\ [c EXCEPT ![i] = e] \in Confs
          /\ ToSet([c EXCEPT ![i] = e]) = {x \in ToSet(c) : x.ip # r.g} \cup {e}
      <3>1. i \in DOMAIN c /\ e.ip = c[i].ip /\ e.ip = r.g /\ e \in Entries
        BY <2>1, <2>2, <2>6
      <3>2. /\ [c EXCEPT ![i] = e] \in Confs
            /\ ToSet([c EXCEPT ![i] = e]) = {x \in ToSet(c) : x.ip # e.ip} \cup {e}
        BY <3>1, EditConf
      <3>3. QED
        BY <3>1, <3>2
    <2>9. \A x \in ToSet(c) : x.ip = r.g => x = c[i]
      BY <2>1, OneEntry
    <2>10. QED
      BY <2>1, <2>4, <2>6, <2>7, <2>8, <2>9
  <1>3. QED
    BY <1>1, <1>2

\* json_del_list
LEMMA RemovedIs ==
  ASSUME NEW c \in Confs, NEW r, r.R \in Seq(VMs), Named(c, r.g) # 0
  PROVE  /\ Removed(c, r) \in Confs
         /\ \E x \in ToSet(c), e \in Entries :
              /\ x.ip = r.g /\ e.ip = r.g /\ e.port = x.port
              /\ ToSet(e.members) = ToSet(x.members) \ ToSet(r.R)
              /\ ToSet(Removed(c, r)) = {y \in ToSet(c) : y.ip # r.g} \cup {e}
  <1>i. PICK i : i = Named(c, r.g)
    OBVIOUS
  <1>1. i \in 1 .. Len(c) /\ c[i].ip = r.g /\ c[i] \in ToSet(c)
    BY <1>i, NamedIs
  <1>2. c[i] \in Entries /\ c \in Seq(Entries) /\ DOMAIN c = 1 .. Len(c)
    BY <1>1, ConfParts
  <1>3. PICK m : m = Staying(c[i].members, r.R)
    OBVIOUS
  <1>4. m \in Seq(VMs) /\ ToSet(m) = ToSet(c[i].members) \ ToSet(r.R)
    BY <1>2, <1>3, StayingIs DEF Entries
  <1>5. PICK e : e = [c[i] EXCEPT !.members = m]
    OBVIOUS
  <1>6. e \in Entries /\ e.ip = r.g /\ e.port = c[i].port /\ e.members = m
    BY <1>1, <1>2, <1>4, <1>5 DEF Entries
  <1>7. Removed(c, r) = [c EXCEPT ![i] = e]
    BY <1>i, <1>2, <1>3, <1>5 DEF Removed
  <1>8. /\ [c EXCEPT ![i] = e] \in Confs
        /\ ToSet([c EXCEPT ![i] = e]) = {x \in ToSet(c) : x.ip # r.g} \cup {e}
    <2>1. i \in DOMAIN c /\ e.ip = c[i].ip /\ e.ip = r.g /\ e \in Entries
      BY <1>1, <1>2, <1>6
    <2>2. /\ [c EXCEPT ![i] = e] \in Confs
          /\ ToSet([c EXCEPT ![i] = e]) = {x \in ToSet(c) : x.ip # e.ip} \cup {e}
      BY <2>1, EditConf
    <2>3. QED
      BY <2>1, <2>2
  <1>9. QED
    BY <1>1, <1>4, <1>6, <1>7, <1>8

\* The fields that a command's request has.
LEMMA RequestParts ==
  ASSUME NEW r \in Requests, r.cmd # "show"
  PROVE  \/ r.cmd \in {"join", "quit"} /\ r.g \in Groups /\ r.R \in Seq(VMs) /\ r.port \in Ports
         \/ r.cmd = "del" /\ r.g \in Groups
         \/ r.cmd = "clear"
  BY LinuxAssumption

\* What asked becomes, and where a configuration that agreed with asked agrees again.
LEMMA ExpectedTypes ==
  ASSUME NEW r \in Requests, r.cmd # "show", asked \in [Groups -> AskedTypes],
         \A g \in Groups : ~asked[g].in => asked[g].vms = {}
  PROVE  /\ Expected(asked, r) \in [Groups -> AskedTypes] /\ About(r) \subseteq Groups
         /\ \A g \in Groups : ~Expected(asked, r)[g].in => Expected(asked, r)[g].vms = {}
         /\ \A g \in Groups \ About(r) : Expected(asked, r)[g] = asked[g]
  <1>1. ASSUME NEW g \in Groups
        PROVE  /\ Expected(asked, r)[g] \in AskedTypes
               /\ ~Expected(asked, r)[g].in => Expected(asked, r)[g].vms = {}
               /\ g \notin About(r) => Expected(asked, r)[g] = asked[g]
    <2>1. asked[g] \in AskedTypes
      OBVIOUS
    <2>2. CASE g \notin About(r)
      BY <2>1, <2>2 DEF Expected
    <2>3. CASE g \in About(r) /\ r.cmd = "join"
      <3>1. Expected(asked, r)[g] = [in |-> TRUE, port |-> r.port, vms |-> asked[g].vms \cup ToSet(r.R)]
        BY <2>3 DEF Expected
      <3>2. r.port \in Ports /\ ToSet(r.R) \subseteq VMs
        BY <2>3, RequestParts DEF ToSet
      <3>3. QED
        BY <2>1, <2>3, <3>1, <3>2 DEF AskedTypes
    <2>4. CASE g \in About(r) /\ r.cmd = "quit"
      <3>1. Expected(asked, r)[g] = [asked[g] EXCEPT !.vms = @ \ ToSet(r.R)]
        BY <2>4 DEF Expected
      <3>2. QED
        BY <2>1, <2>4, <3>1 DEF AskedTypes
    <2>5. CASE g \in About(r) /\ r.cmd \notin {"join", "quit"}
      <3>1. Expected(asked, r)[g] = [in |-> FALSE, port |-> DefaultPort, vms |-> {}]
        BY <2>5 DEF Expected
      <3>2. QED
        BY <2>5, <3>1, LinuxAssumption DEF AskedTypes
    <2>6. QED
      BY <2>2, <2>3, <2>4, <2>5
  <1>2. About(r) \subseteq Groups
    BY RequestParts DEF About
  <1>3. Expected(asked, r) \in [Groups -> AskedTypes]
    <2>1. Expected(asked, r) = [g \in Groups |-> Expected(asked, r)[g]]
      BY DEF Expected
    <2>2. QED
      BY <1>1, <2>1
  <1>4. QED
    BY <1>1, <1>2, <1>3

\* A command's edit of a configuration is what its user expects.
LEMMA EditedIs ==
  ASSUME NEW f, f = NoFile \/ f \in Confs, NEW r \in Requests, r.cmd # "show", ~Refused(f, r),
         NEW c, c = IF f = NoFile THEN <<>> ELSE f, asked \in [Groups -> AskedTypes],
         \A g \in Groups : ~asked[g].in => asked[g].vms = {}
  PROVE  /\ Edited(f, r) \in Confs
         /\ \A g \in Groups :
              Ends(r, g) \/ (Agrees(c, g, asked[g]) /\ g \notin PortsReset(asked, r))
              => Agrees(Edited(f, r), g, Expected(asked, r)[g])
  <1>e. <<>> \in Confs /\ ToSet(<<>>) = {}
    BY DEF Confs, ToSet
  <1>c. c \in Confs
    BY <1>e
  <1>1. CASE r.cmd = "join"
    <2>1. r.g \in Groups /\ r.R \in Seq(VMs) /\ r.port \in Ports
      BY <1>1, RequestParts
    <2>2. Edited(f, r) = Added(c, r)
      BY <1>1 DEF Edited
    <2> DEFINE d == Added(c, r)
    <2>3. PICK e \in Entries :
              /\ e.ip = r.g /\ e.port = r.port
              /\ ToSet(d) = {x \in ToSet(c) : x.ip # r.g} \cup {e}
              /\ \A x \in ToSet(c) : x.ip = r.g => ToSet(e.members) = ToSet(x.members) \cup ToSet(r.R)
              /\ (\A x \in ToSet(c) : x.ip # r.g) => ToSet(e.members) = ToSet(r.R)
      BY <1>c, <2>1, AddedIs
    <2>4. d \in Confs
      BY <1>c, <2>1, AddedIs
    <2> HIDE DEF d
    <2>5. ASSUME NEW g \in Groups, Agrees(c, g, asked[g]) PROVE Agrees(d, g, Expected(asked, r)[g])
      <3>1. CASE g = r.g
        <4>1. Expected(asked, r)[g] = [in |-> TRUE, port |-> r.port, vms |-> asked[g].vms \cup ToSet(r.R)]
          BY <1>1, <3>1 DEF Expected, About
        <4>2. ToSet(e.members) = asked[g].vms \cup ToSet(r.R)
          BY <2>3, <2>5, <3>1 DEF Agrees
        <4>3. e \in ToSet(d)
          BY <2>3
        <4>4. QED
          BY <2>3, <3>1, <4>1, <4>2, <4>3 DEF Agrees
      <3>2. CASE g # r.g
        <4>1. Expected(asked, r)[g] = asked[g]
          BY <1>1, <3>2 DEF Expected, About
        <4>2. \A x : x.ip = g => (x \in ToSet(d) <=> x \in ToSet(c))
          BY <2>3, <3>2
        <4>3. QED
          BY <2>5, <4>1, <4>2 DEF Agrees
      <3>3. QED
        BY <3>1, <3>2
    <2>6. \A g : ~Ends(r, g)
      BY <1>1 DEF Ends
    <2>7. QED
      BY <2>2, <2>4, <2>5, <2>6 DEF d
  <1>2. CASE r.cmd = "quit"
    <2>1. r.g \in Groups /\ r.R \in Seq(VMs) /\ c = f /\ Named(c, r.g) # 0
      BY <1>2, RequestParts DEF Refused
    <2>2. Edited(f, r) = Removed(c, r)
      BY <1>2, <2>1 DEF Edited
    <2> DEFINE d == Removed(c, r)
    <2>3. PICK x \in ToSet(c), e \in Entries :
              /\ x.ip = r.g /\ e.ip = r.g /\ e.port = x.port
              /\ ToSet(e.members) = ToSet(x.members) \ ToSet(r.R)
              /\ ToSet(d) = {y \in ToSet(c) : y.ip # r.g} \cup {e}
      BY <1>c, <2>1, RemovedIs
    <2>4. d \in Confs
      BY <1>c, <2>1, RemovedIs
    <2> HIDE DEF d
    <2>5. ASSUME NEW g \in Groups, Agrees(c, g, asked[g]) PROVE Agrees(d, g, Expected(asked, r)[g])
      <3>1. CASE g = r.g
        <4>1. Expected(asked, r)[g] = [asked[g] EXCEPT !.vms = @ \ ToSet(r.R)] /\ asked[g] \in AskedTypes
          BY <1>2, <3>1 DEF Expected, About
        <4>2. asked[g].in
          BY <2>3, <2>5, <3>1 DEF Agrees
        <4>3. PICK y \in ToSet(c) : y.ip = g /\ y.port = asked[g].port /\ ToSet(y.members) = asked[g].vms
          BY <2>5, <4>2 DEF Agrees
        <4>4. y = x
          BY <1>c, <2>3, <3>1, <4>3, OneEntry
        <4>5. e \in ToSet(d) /\ e.port = asked[g].port /\ ToSet(e.members) = asked[g].vms \ ToSet(r.R)
          BY <2>3, <4>3, <4>4
        <4>6. /\ Expected(asked, r)[g].in /\ Expected(asked, r)[g].port = asked[g].port
              /\ Expected(asked, r)[g].vms = asked[g].vms \ ToSet(r.R)
          BY <4>1, <4>2 DEF AskedTypes
        <4>7. QED
          BY <2>3, <3>1, <4>5, <4>6 DEF Agrees
      <3>2. CASE g # r.g
        <4>1. Expected(asked, r)[g] = asked[g]
          BY <1>2, <3>2 DEF Expected, About
        <4>2. \A y : y.ip = g => (y \in ToSet(d) <=> y \in ToSet(c))
          BY <2>3, <3>2
        <4>3. QED
          BY <2>5, <4>1, <4>2 DEF Agrees
      <3>3. QED
        BY <3>1, <3>2
    <2>6. \A g : ~Ends(r, g)
      BY <1>2 DEF Ends
    <2>7. QED
      BY <2>2, <2>4, <2>5, <2>6 DEF d
  <1>3. CASE r.cmd = "del"
    <2>1. r.g \in Groups /\ c = f
      BY <1>3, RequestParts DEF Refused
    <2>2. Edited(f, r) = Others(c, r.g)
      BY <1>3, <2>1 DEF Edited, Deleted
    <2> DEFINE d == Others(c, r.g)
               new(e) == [e EXCEPT !.port = DefaultPort]
    <2>3. /\ d \in Confs
          /\ ToSet(d) = {new(e) : e \in {x \in ToSet(c) : x.ip # r.g}}
      BY <1>c, OthersIs
    <2>4. \A e \in ToSet(c) : new(e).ip = e.ip /\ new(e).port = DefaultPort /\ new(e).members = e.members
      BY <1>c, EntryTypes DEF Entries
    <2> HIDE DEF d, new
    <2>5. ASSUME NEW g \in Groups, g = r.g PROVE Agrees(d, g, Expected(asked, r)[g])
      <3>1. Expected(asked, r)[g] = [in |-> FALSE, port |-> DefaultPort, vms |-> {}]
        BY <1>3, <2>5 DEF Expected, About
      <3>2. \A e \in ToSet(d) : e.ip # g
        BY <2>3, <2>4, <2>5
      <3>3. QED
        BY <3>1, <3>2 DEF Agrees
    <2>6. ASSUME NEW g \in Groups, g # r.g, Agrees(c, g, asked[g]), g \notin PortsReset(asked, r)
          PROVE  Agrees(d, g, Expected(asked, r)[g])
      <3>1. Expected(asked, r)[g] = asked[g]
        BY <1>3, <2>6 DEF Expected, About
      <3>2. asked[g].in => asked[g].port = DefaultPort
        BY <1>3, <2>6 DEF PortsReset
      <3>3. CASE asked[g].in
        <4>1. PICK x \in ToSet(c) : x.ip = g /\ x.port = asked[g].port /\ ToSet(x.members) = asked[g].vms
          BY <2>6, <3>3 DEF Agrees
        <4>2. new(x) \in ToSet(d)
          BY <2>3, <2>6, <4>1
        <4>3. QED
          BY <2>4, <3>1, <3>2, <3>3, <4>1, <4>2 DEF Agrees
      <3>4. CASE ~asked[g].in
        <4>1. \A x \in ToSet(c) : x.ip # g
          BY <2>6, <3>4 DEF Agrees
        <4>2. \A e \in ToSet(d) : e.ip # g
          BY <2>3, <2>4, <4>1
        <4>3. QED
          BY <3>1, <3>4, <4>2 DEF Agrees
      <3>5. QED
        BY <3>3, <3>4
    <2>7. \A g : Ends(r, g) => g = r.g
      BY <1>3 DEF Ends, About
    <2>8. QED
      BY <2>2, <2>3, <2>5, <2>6, <2>7 DEF d
  <1>4. CASE r.cmd = "clear"
    <2>1. Edited(f, r) = <<>>
      BY <1>4 DEF Edited
    <2>2. \A g \in Groups : ~Expected(asked, r)[g].in
      BY <1>4 DEF Expected, About
    <2>3. QED
      BY <1>e, <2>1, <2>2 DEF Agrees
  <1>5. QED
    BY <1>1, <1>2, <1>3, <1>4, RequestParts

-----------------------------------------------------------------------------
(* The steps of the commands                                               *)

LEMMA IdleTypes == Idle \in ToolTypes /\ Idle.pc = "idle"
  <1>1. <<>> \in Confs
    BY DEF Confs
  <1>2. QED
    BY <1>1 DEF Idle, ToolTypes

\* Commands end, killed or not; only one that is killed as it writes spoils anything.
LEMMA ToolsLeave ==
  ASSUME ToolTypeInv, AskedInv, UNCHANGED <<file, asked, commands>>,
         tool' \in [Tools -> ToolTypes], \A u \in Tools : tool'[u] = tool[u] \/ tool'[u] = Idle,
         spoiled' = Groups \/ (spoiled' = spoiled /\ Writing' = Writing),
         faults' \in Nat, parted' \in BOOLEAN
  PROVE  ToolTypeInv' /\ AskedInv'
  <1>1. \A u \in Tools : tool'[u].pc \in {"write", "fill"} => tool'[u] = tool[u]
    BY IdleTypes
  <1>2. ToolTypeInv'
    BY <1>1 DEF ToolTypeInv
  <1>3. /\ \A g \in Groups : ~asked'[g].in => asked'[g].vms = {}
        /\ file' # NoFile => \A g \in Groups \ spoiled' : Agrees(file', g, asked'[g])
        /\ file' = NoFile /\ Writing' = {} => \A g \in Groups \ spoiled' : ~asked'[g].in
    BY DEF AskedInv
  <1>4. ASSUME NEW u \in Tools PROVE CopyOK(asked', spoiled', tool'[u])
    <2>1. CASE tool'[u] = tool[u]
      <3>1. CopyOK(asked, spoiled, tool[u]) /\ (spoiled' = Groups \/ spoiled' = spoiled)
        BY DEF AskedInv
      <3>2. QED
        BY <2>1, <3>1 DEF CopyOK
    <2>2. CASE tool'[u] = Idle
      BY <2>2, IdleTypes DEF CopyOK
    <2>3. QED
      BY <2>1, <2>2
  <1>5. QED
    BY <1>2, <1>3, <1>4 DEF AskedInv

LEMMA ToolsStay ==
  ASSUME ToolTypeInv, AskedInv, UNCHANGED <<toolVars, asked, spoiled>>,
         faults' \in Nat, parted' \in BOOLEAN
  PROVE  ToolTypeInv' /\ AskedInv'
  <1>1. UNCHANGED <<file, asked, commands, tool, spoiled>> /\ Writing' = Writing
    BY DEF toolVars, Writing
  <1>2. tool' \in [Tools -> ToolTypes] /\ \A u \in Tools : tool'[u] = tool[u]
    BY <1>1 DEF ToolTypeInv
  <1>3. QED
    BY <1>1, <1>2, ToolsLeave

\* What a command makes of the file is what its user expects, unless another is at its write.
LEMMA ReadsAsked ==
  ASSUME ToolTypeInv, AskedInv, NEW t \in Tools, NEW r \in Requests, Reads(t, r)
  PROVE  ToolTypeInv' /\ AskedInv'
  <1> DEFINE edits == r.cmd # "show" /\ ~Refused(file, r)
  <1>x. PICK x : x = tool'[t]
    OBVIOUS
  <1>c. PICK c : c = IF file = NoFile THEN <<>> ELSE file
    OBVIOUS
  <1>1. /\ tool[t].pc = "idle" /\ UNCHANGED <<file, faults, asked, spoiled, parted>>
        /\ commands' \in Nat
    BY DEF Reads, ToolTypeInv
  <1>2. /\ x = [pc |-> CASE r.cmd = "show" -> "exit"
                         [] r.cmd # "show" /\ Refused(file, r) -> "reload"
                         [] OTHER -> "write",
                req |-> r,
                copy |-> IF r.cmd = "show" \/ Refused(file, r) THEN <<>> ELSE Edited(file, r),
                missed |-> IF Writing # {} THEN Groups ELSE {}]
        /\ tool' = [tool EXCEPT ![t] = x]
    BY <1>x DEF Reads, ToolTypeInv
  <1>3. /\ x.req = r /\ x.copy = (IF edits THEN Edited(file, r) ELSE <<>>)
        /\ x.missed = (IF Writing # {} THEN Groups ELSE {})
        /\ x.pc \in {"exit", "reload", "write"} /\ (x.pc = "write" <=> edits)
    BY <1>2
  <1>4. /\ asked \in [Groups -> AskedTypes] /\ (file = NoFile \/ file \in Confs)
        /\ \A g \in Groups : ~asked[g].in => asked[g].vms = {}
    BY DEF ToolTypeInv, AskedInv
  <1>5. ASSUME edits
        PROVE  /\ Edited(file, r) \in Confs
               /\ \A g \in Groups :
                    Ends(r, g) \/ (Agrees(c, g, asked[g]) /\ g \notin PortsReset(asked, r))
                    => Agrees(Edited(file, r), g, Expected(asked, r)[g])
    BY <1>4, <1>5, <1>c, EditedIs
  <1>6. <<>> \in Confs /\ ToSet(<<>>) = {}
    BY DEF Confs, ToSet
  <1>7. x \in ToolTypes
    <2>1. x.copy \in Confs /\ x.missed \in SUBSET Groups /\ x.req \in Requests \cup {NoRequest}
      BY <1>3, <1>5, <1>6
    <2>2. x = [pc |-> x.pc, req |-> x.req, copy |-> x.copy, missed |-> x.missed]
      BY <1>2
    <2>3. QED
      BY <1>3, <2>1, <2>2 DEF ToolTypes
  <1> HIDE DEF edits
  <1>8. ToolTypeInv'
    <2>1. tool' \in [Tools -> ToolTypes]
      BY <1>2, <1>7 DEF ToolTypeInv
    <2>2. \A u \in Tools : tool'[u].pc \in {"write", "fill"} =>
            tool'[u].req \in Requests /\ tool'[u].req.cmd # "show"
      BY <1>2, <1>3 DEF ToolTypeInv, edits
    <2>3. QED
      BY <1>1, <2>1, <2>2 DEF ToolTypeInv
  <1>9. Writing' = Writing
    BY <1>1, <1>2, <1>3 DEF Writing, ToolTypeInv
  <1>10. CopyOK(asked, spoiled, x)
    <2> SUFFICES ASSUME NEW g \in Groups, x.pc = "write",
                        Ends(r, g) \/ g \notin spoiled \cup x.missed \cup PortsReset(asked, r)
                 PROVE  Agrees(x.copy, g, Expected(asked, r)[g])
      BY <1>3 DEF CopyOK
    <2>1. x.copy = Edited(file, r) /\ edits
      BY <1>3
    <2>2. CASE Ends(r, g)
      BY <1>5, <2>1, <2>2
    <2>3. CASE g \notin spoiled \cup x.missed \cup PortsReset(asked, r)
      <3>1. Writing = {}
        BY <1>3, <2>3
      <3>2. Agrees(c, g, asked[g])
        <4>1. CASE file = NoFile
          <5>1. c = <<>> /\ ~asked[g].in
            BY <1>c, <2>3, <3>1, <4>1 DEF AskedInv
          <5>2. QED
            BY <1>6, <5>1 DEF Agrees
        <4>2. CASE file # NoFile
          <5>1. c = file
            BY <1>c, <4>2
          <5>2. QED
            BY <2>3, <4>2, <5>1 DEF AskedInv
        <4>3. QED
          BY <4>1, <4>2
      <3>3. QED
        BY <1>5, <2>1, <2>3, <3>2
    <2>4. QED
      BY <2>2, <2>3
  <1>11. AskedInv'
    <2>1. \A u \in Tools : CopyOK(asked, spoiled, tool'[u])
      BY <1>2, <1>10 DEF AskedInv, ToolTypeInv
    <2>2. /\ \A g \in Groups : ~asked'[g].in => asked'[g].vms = {}
          /\ file' # NoFile => \A g \in Groups \ spoiled' : Agrees(file', g, asked'[g])
          /\ file' = NoFile /\ Writing' = {} => \A g \in Groups \ spoiled' : ~asked'[g].in
      BY <1>1, <1>9 DEF AskedInv
    <2>3. QED
      BY <1>1, <2>1, <2>2 DEF AskedInv
  <1>12. QED
    BY <1>8, <1>11

LEMMA TruncatesAsked ==
  ASSUME ToolTypeInv, AskedInv, NEW t \in Tools, Truncates(t)
  PROVE  ToolTypeInv' /\ AskedInv'
  <1>x. PICK x : x = [tool[t] EXCEPT !.pc = "fill"]
    OBVIOUS
  <1>1. /\ tool[t].pc = "write" /\ UNCHANGED <<commands, faults, asked, spoiled, parted>>
        /\ file' = NoFile /\ tool' = [tool EXCEPT ![t] = x] /\ tool[t] \in ToolTypes
    BY <1>x DEF Truncates, ToolTypeInv
  <1>2. /\ x \in ToolTypes /\ x.pc = "fill" /\ x.req = tool[t].req /\ x.copy = tool[t].copy
        /\ x.missed = tool[t].missed
    BY <1>1, <1>x DEF ToolTypes
  <1>3. /\ tool' \in [Tools -> ToolTypes]
        /\ \A u \in Tools : u # t => tool'[u] = tool[u]
        /\ tool'[t] = x
    BY <1>1, <1>2 DEF ToolTypeInv
  <1>4. ToolTypeInv'
    BY <1>1, <1>2, <1>3 DEF ToolTypeInv
  <1>5. t \in Writing'
    BY <1>1, <1>2 DEF Writing, ToolTypeInv
  <1>6. CopyOK(asked, spoiled, x)
    <2>1. CopyOK(asked, spoiled, tool[t])
      BY DEF AskedInv
    <2>2. QED
      BY <1>1, <1>2, <2>1 DEF CopyOK
  <1>7. \A u \in Tools : CopyOK(asked, spoiled, tool'[u])
    BY <1>3, <1>6 DEF AskedInv
  <1>8. \A g \in Groups : ~asked'[g].in => asked'[g].vms = {}
    BY <1>1 DEF AskedInv
  <1>9. AskedInv'
    BY <1>1, <1>5, <1>7, <1>8 DEF AskedInv
  <1>10. QED
    BY <1>4, <1>9

\* What is written is as asked; the others have missed it.
LEMMA FillsAsked ==
  ASSUME ToolTypeInv, AskedInv, NEW t \in Tools, Fills(t)
  PROVE  ToolTypeInv' /\ AskedInv'
  <1>r. PICK r : r = tool[t].req
    OBVIOUS
  <1> DEFINE ended == IF r.cmd \in {"del", "clear"} THEN About(r) ELSE {}
  <1>1. /\ tool[t].pc = "fill" /\ UNCHANGED <<commands, faults, parted>>
        /\ file' = tool[t].copy /\ asked' = Expected(asked, r)
        /\ spoiled' = (spoiled \cup tool[t].missed \cup PortsReset(asked, r)) \ ended
        /\ tool' = [u \in Tools |->
             IF u = t THEN [tool[t] EXCEPT !.pc = "reload", !.copy = <<>>, !.missed = {}]
             ELSE IF tool[u].pc \in {"write", "fill"}
                  THEN [tool[u] EXCEPT !.missed = @ \cup About(r)]
                  ELSE tool[u]]
    BY <1>r DEF Fills
  <1>2. /\ r \in Requests /\ r.cmd # "show" /\ asked \in [Groups -> AskedTypes]
        /\ \A u \in Tools : tool[u] \in ToolTypes
        /\ \A g \in Groups : ~asked[g].in => asked[g].vms = {}
    BY <1>1, <1>r DEF ToolTypeInv, AskedInv
  <1>3. /\ Expected(asked, r) \in [Groups -> AskedTypes] /\ About(r) \subseteq Groups
        /\ \A g \in Groups : ~Expected(asked, r)[g].in => Expected(asked, r)[g].vms = {}
        /\ \A g \in Groups \ About(r) : Expected(asked, r)[g] = asked[g]
    BY <1>2, ExpectedTypes
  <1>4. \A g : g \in ended <=> Ends(r, g)
    BY DEF Ends
  <1> HIDE DEF ended
  <1>5. tool'[t] \in ToolTypes /\ tool'[t].pc = "reload"
    <2>1. tool'[t] = [tool[t] EXCEPT !.pc = "reload", !.copy = <<>>, !.missed = {}]
      BY <1>1
    <2>2. <<>> \in Confs
      BY DEF Confs
    <2>3. QED
      BY <1>2, <2>1, <2>2 DEF ToolTypes
  <1>6. ASSUME NEW u \in Tools, u # t
        PROVE  /\ tool'[u] \in ToolTypes /\ tool'[u].pc = tool[u].pc
               /\ tool'[u].req = tool[u].req /\ tool'[u].copy = tool[u].copy
               /\ tool[u].pc \in {"write", "fill"} => tool'[u].missed = tool[u].missed \cup About(r)
    <2>1. CASE tool[u].pc \in {"write", "fill"}
      <3>1. tool'[u] = [tool[u] EXCEPT !.missed = @ \cup About(r)]
        BY <1>1, <1>6, <2>1
      <3>2. QED
        BY <1>2, <1>3, <2>1, <3>1 DEF ToolTypes
    <2>2. CASE tool[u].pc \notin {"write", "fill"}
      <3>1. tool'[u] = tool[u]
        BY <1>1, <1>6, <2>2
      <3>2. QED
        BY <1>2, <2>2, <3>1
    <2>3. QED
      BY <2>1, <2>2
  <1>7. ToolTypeInv'
    <2>1. tool' \in [Tools -> ToolTypes]
      <3>1. \A u \in Tools : tool'[u] \in ToolTypes
        BY <1>5, <1>6
      <3>2. tool' = [u \in Tools |-> tool'[u]]
        BY <1>1
      <3>3. QED
        BY <3>1, <3>2
    <2>2. \A u \in Tools : tool'[u].pc \in {"write", "fill"} =>
            tool'[u].req \in Requests /\ tool'[u].req.cmd # "show"
      BY <1>5, <1>6 DEF ToolTypeInv
    <2>3. file' \in Confs /\ spoiled' \subseteq Groups
      <3>1. tool[t].copy \in Confs /\ tool[t].missed \subseteq Groups /\ PortsReset(asked, r) \subseteq Groups
        BY <1>2 DEF ToolTypes, PortsReset
      <3>2. QED
        BY <1>1, <3>1 DEF ToolTypeInv
    <2>4. QED
      BY <1>1, <1>3, <2>1, <2>2, <2>3 DEF ToolTypeInv
  <1>8. file' # NoFile
    BY <1>1, <1>2, LinuxAssumption DEF ToolTypes, Confs
  <1>9. ASSUME NEW g \in Groups \ spoiled' PROVE Agrees(file', g, asked'[g])
    <2>1. Ends(r, g) \/ g \notin spoiled \cup tool[t].missed \cup PortsReset(asked, r)
      BY <1>1, <1>4, <1>9
    <2>2. CopyOK(asked, spoiled, tool[t])
      BY DEF AskedInv
    <2>3. Agrees(tool[t].copy, g, Expected(asked, r)[g])
      BY <1>1, <1>r, <2>1, <2>2 DEF CopyOK
    <2>4. QED
      BY <1>1, <2>3
  <1>10. ASSUME NEW u \in Tools PROVE CopyOK(asked', spoiled', tool'[u])
    <2>x. PICK x, y, a, b, lost : /\ x = tool[u] /\ y = tool'[u] /\ a = asked /\ b = asked'
                                  /\ lost = spoiled'
      OBVIOUS
    <2> SUFFICES ASSUME NEW g \in Groups, y.pc \in {"write", "fill"},
                        Ends(y.req, g) \/ g \notin lost \cup y.missed \cup PortsReset(b, y.req)
                 PROVE  Agrees(y.copy, g, Expected(b, y.req)[g])
      BY <2>x DEF CopyOK
    <2>1. /\ u # t /\ x.pc \in {"write", "fill"} /\ y.req = x.req /\ y.copy = x.copy
          /\ y.missed = x.missed \cup About(r)
      BY <1>5, <1>6, <2>x
    <2>2. CopyOK(a, spoiled, x)
      BY <2>x DEF AskedInv
    <2>3. CASE Ends(x.req, g)
      <3>1. Expected(b, x.req)[g] = Expected(a, x.req)[g]
        BY <2>3 DEF Ends, Expected
      <3>2. Agrees(x.copy, g, Expected(a, x.req)[g])
        BY <2>1, <2>2, <2>3 DEF CopyOK
      <3>3. QED
        BY <2>1, <3>1, <3>2
    <2>4. CASE ~Ends(x.req, g)
      <3>1. g \notin lost /\ g \notin x.missed /\ g \notin About(r) /\ g \notin PortsReset(b, x.req)
        BY <2>1, <2>4
      <3>2. b[g] = a[g] /\ g \notin spoiled
        <4>1. g \notin ended
          BY <1>4, <3>1 DEF Ends
        <4>2. QED
          BY <1>1, <1>3, <2>x, <3>1, <4>1
      <3>3. g \notin PortsReset(a, x.req) /\ Expected(b, x.req)[g] = Expected(a, x.req)[g]
        BY <3>1, <3>2 DEF PortsReset, Expected
      <3>4. Agrees(x.copy, g, Expected(a, x.req)[g])
        BY <2>1, <2>2, <3>1, <3>2, <3>3 DEF CopyOK
      <3>5. QED
        BY <2>1, <3>3, <3>4
    <2>5. QED
      BY <2>3, <2>4
  <1>11. \A g \in Groups : ~asked'[g].in => asked'[g].vms = {}
    BY <1>1, <1>3
  <1>12. AskedInv'
    BY <1>8, <1>9, <1>10, <1>11 DEF AskedInv
  <1>13. QED
    BY <1>7, <1>12

-----------------------------------------------------------------------------
(* The steps of the proxy's threads                                        *)

ProxyInv == ProxyTypeInv /\ ListInv /\ JoinInv

LEMMA GroupCount == N \in Nat
  BY FS_CardinalityType, LinuxAssumption DEF N

\* The arrays are large enough for a configuration that names a group once.
LEMMA ConfFits ==
  ASSUME NEW c \in Confs
  PROVE  Len(c) \in 0 .. N
  <1> DEFINE names == [i \in 1 .. Len(c) |-> c[i].ip]
  <1>1. /\ Len(c) \in Nat /\ \A i \in 1 .. Len(c) : c[i].ip \in Groups
        /\ \A i, j \in 1 .. Len(c) : c[i].ip = c[j].ip => i = j
    BY ConfParts
  <1>2. names \in Injection(1 .. Len(c), Groups)
    BY <1>1 DEF Injection, IsInjective
  <1>3. Cardinality(1 .. Len(c)) <= N
    <2> HIDE DEF names
    <2>1. QED
      BY <1>2, FS_Injection, LinuxAssumption DEF N
  <1>4. Cardinality(1 .. Len(c)) = Len(c)
    <2>1. Cardinality(1 .. Len(c)) = IF 1 > Len(c) THEN 0 ELSE Len(c) - 1 + 1
      BY <1>1, FS_Interval
    <2>2. QED
      BY <1>1, <2>1
  <1>5. QED
    BY <1>1, <1>3, <1>4, GroupCount

LEMMA ProxyStays ==
  ASSUME ProxyInv,
         UNCHANGED <<main, thread, groupIp, groupNum, numParam, mi, ti, sock, joined, refused, table, crossed>>,
         pending' \in 0 .. Backlog, monitor' \in {"off", "look", "again"}
  PROVE  ProxyInv'
  BY DEF ProxyInv, ProxyTypeInv, ListInv, JoinInv, Quiet, Listed, Has

\* A new process, or none.
LEMMA ProcessInv ==
  ASSUME NEW pc \in {"start", "down"}, Process(pc), monitor' \in {"off", "look", "again"},
         groupIp \in [1 .. N -> Groups \cup {NoGroup}]
  PROVE  ProxyInv'
  <1>1. /\ main' = pc /\ numParam' = 0 /\ mi' = 1 /\ sock' = FALSE
        /\ thread' = "none" /\ ti' = 1 /\ pending' = 0 /\ groupNum' = 0
        /\ groupIp' = [i \in DOMAIN groupIp |-> NoGroup]
        /\ joined' = {} /\ refused' = {} /\ table' = <<>> /\ crossed' = FALSE
    BY DEF Process
  <1>2. groupIp' \in [1 .. N -> Groups \cup {NoGroup}] /\ <<>> \in Confs
    BY <1>1 DEF Confs
  <1>3. ProxyTypeInv'
    <2>1. 1 \in 1 .. N + 1 /\ 0 \in 0 .. N /\ 0 \in 0 .. Backlog
      BY GroupCount, LinuxAssumption
    <2>2. QED
      BY <1>1, <1>2, <2>1 DEF ProxyTypeInv
  <1>4. ListInv'
    BY <1>1 DEF ListInv
  <1>5. JoinInv'
    BY <1>1 DEF JoinInv, Quiet
  <1>6. QED
    BY <1>3, <1>4, <1>5 DEF ProxyInv

\* cfg_init fills the list from the table.
LEMMA LoadedLists ==
  ASSUME ProxyInv, NEW c \in Confs, Loaded(c)
  PROVE  /\ groupIp' \in [1 .. N -> Groups \cup {NoGroup}] /\ groupNum' \in 0 .. N
         /\ table' = c /\ groupNum' = Len(c) /\ parted' = FALSE
         /\ \A i \in 1 .. groupNum' : groupIp'[i] = c[i].ip /\ groupIp'[i] \in Groups
         /\ \A i, j \in 1 .. groupNum' : groupIp'[i] = groupIp'[j] => i = j
         /\ \A i \in 1 .. N : groupIp[i] \in Groups => groupIp'[i] \in Groups
  <1>1. /\ Len(c) \in Nat /\ \A i \in 1 .. Len(c) : c[i].ip \in Groups
        /\ \A i, j \in 1 .. Len(c) : c[i].ip = c[j].ip => i = j
    BY ConfParts
  <1>2. Len(c) \in 0 .. N
    BY ConfFits
  <1>3. groupIp \in [1 .. N -> Groups \cup {NoGroup}] /\ N \in Nat
    BY GroupCount DEF ProxyInv, ProxyTypeInv
  <1>4. /\ groupNum' = Len(c) /\ table' = c /\ parted' = FALSE
        /\ groupIp' = [i \in 1 .. N |-> IF i <= Len(c) THEN c[i].ip ELSE groupIp[i]]
    BY <1>3 DEF Loaded
  <1>5. \A i \in 1 .. Len(c) : i \in 1 .. N /\ groupIp'[i] = c[i].ip
    BY <1>2, <1>3, <1>4
  <1>6. \A i \in 1 .. N : groupIp'[i] \in Groups \cup {NoGroup}
                          /\ (groupIp[i] \in Groups => groupIp'[i] \in Groups)
    BY <1>1, <1>3, <1>4
  <1>7. groupIp' \in [1 .. N -> Groups \cup {NoGroup}]
    BY <1>4, <1>6
  <1>8. QED
    BY <1>1, <1>2, <1>4, <1>5, <1>6, <1>7

LEMMA StartFailsInv ==
  ASSUME ProxyInv, StartFails
  PROVE  ProxyInv'
  <1>1. /\ main = "start" /\ main' = "down"
        /\ UNCHANGED <<numParam, mi, sock, thread, ti, pending, groupIp, groupNum, joined, refused, table,
                       monitor, crossed>>
    BY DEF StartFails, threadVars, listVars, groupVars
  <1>2. ProxyTypeInv' /\ ListInv'
    BY <1>1 DEF ProxyInv, ProxyTypeInv, ListInv
  <1>3. JoinInv'
    BY <1>1 DEF ProxyInv, JoinInv, Quiet, Listed, Has
  <1>4. QED
    BY <1>2, <1>3 DEF ProxyInv

LEMMA StartLoadsInv ==
  ASSUME ToolTypeInv, ProxyInv, StartLoads
  PROVE  ProxyInv' /\ parted' = FALSE
  <1>1. /\ main = "start" /\ main' = "call" /\ thread' = "bind" /\ file \in Confs /\ Loaded(file)
        /\ UNCHANGED <<numParam, mi, sock, ti, pending, joined, refused, monitor, crossed>>
    BY DEF StartLoads, ToolTypeInv, groupVars
  <1>2. /\ groupIp' \in [1 .. N -> Groups \cup {NoGroup}] /\ groupNum' \in 0 .. N
        /\ table' = file /\ groupNum' = Len(file) /\ parted' = FALSE
        /\ \A i \in 1 .. groupNum' : groupIp'[i] = file[i].ip /\ groupIp'[i] \in Groups
        /\ \A i, j \in 1 .. groupNum' : groupIp'[i] = groupIp'[j] => i = j
    BY <1>1, LoadedLists
  <1>3. ProxyTypeInv'
    BY <1>1, <1>2 DEF ProxyInv, ProxyTypeInv
  <1>4. ListInv'
    BY <1>1, <1>2 DEF ListInv
  <1>5. JoinInv'
    BY <1>1 DEF ProxyInv, JoinInv, Quiet
  <1>6. QED
    BY <1>2, <1>3, <1>4, <1>5 DEF ProxyInv

LEMMA MainMoves ==
  ASSUME ProxyInv, CallsConnections \/ OpensSocket
  PROVE  ProxyInv'
  <1>1. UNCHANGED <<thread, ti, pending, groupIp, groupNum, joined, refused, table, monitor, crossed>>
    BY DEF CallsConnections, OpensSocket, threadVars, listVars, groupVars
  <1>2. CASE CallsConnections
    <2>1. main = "call" /\ main' = "open" /\ numParam' = groupNum /\ UNCHANGED <<mi, sock>>
      BY <1>2 DEF CallsConnections
    <2>2. ProxyTypeInv' /\ ListInv'
      BY <1>1, <2>1 DEF ProxyInv, ProxyTypeInv, ListInv
    <2>3. JoinInv'
      BY <1>1, <2>1 DEF ProxyInv, JoinInv, Quiet
    <2>4. QED
      BY <2>2, <2>3 DEF ProxyInv
  <1>3. CASE OpensSocket
    <2>1. main = "open" /\ main' = "join" /\ mi' = 1 /\ sock' = TRUE /\ numParam' = numParam
      BY <1>3 DEF OpensSocket
    <2>2. ProxyTypeInv'
      BY <1>1, <2>1, GroupCount DEF ProxyInv, ProxyTypeInv
    <2>3. ListInv'
      BY <1>1, <2>1 DEF ProxyInv, ProxyTypeInv, ListInv
    <2>4. JoinInv'
      <3>1. ~crossed => joined = {} /\ refused = {} /\ Quiet /\ numParam = groupNum
        BY <2>1 DEF ProxyInv, JoinInv
      <3>2. Listed(1, mi - 1)' = {}
        BY <2>1 DEF Listed
      <3>3. QED
        BY <1>1, <2>1, <3>1, <3>2 DEF JoinInv, Quiet, Has
    <2>5. QED
      BY <2>2, <2>3, <2>4 DEF ProxyInv
  <1>4. QED
    BY <1>2, <1>3

\* What a call that may fail makes of the memberships.
LEMMA Adds ==
  ASSUME NEW g \in Groups, joined \subseteq Groups, refused \subseteq Groups, AddsMembership(g)
  PROVE  /\ joined' \subseteq Groups /\ refused' \subseteq Groups
         /\ \A S : Has(S) => joined' \ refused' = (S \cup {g}) \ refused'
  BY DEF AddsMembership, Has

LEMMA Drops ==
  ASSUME NEW g, joined \subseteq Groups, refused \subseteq Groups, DropsMembership(g)
  PROVE  /\ joined' \subseteq Groups /\ refused' \subseteq Groups
         /\ \A S : Has(S) => joined' \ refused' = (S \ {g}) \ refused'
  BY DEF DropsMembership, Has

LEMMA JoinsInv ==
  ASSUME ProxyInv, JoinsGroup
  PROVE  ProxyInv'
  <1>1. /\ main = "join"
        /\ UNCHANGED <<numParam, sock, thread, ti, pending, groupIp, groupNum, table, monitor,
                       crossed>>
    BY DEF JoinsGroup, threadVars, listVars
  <1>2. /\ mi \in 1 .. N + 1 /\ numParam \in 0 .. N /\ mi <= numParam + 1 /\ N \in Nat
        /\ \A i \in 1 .. numParam : groupIp[i] \in Groups
        /\ joined \subseteq Groups /\ refused \subseteq Groups
    BY <1>1, GroupCount DEF ProxyInv, ProxyTypeInv, ListInv
  <1>3. ~crossed => Quiet /\ numParam = groupNum /\ Has(Listed(1, mi - 1)) /\ sock
    BY <1>1 DEF ProxyInv, JoinInv
  <1>4. CASE mi <= numParam
    <2>1. AddsMembership(groupIp[mi]) /\ mi' = mi + 1 /\ main' = main
      BY <1>4 DEF JoinsGroup
    <2>2. groupIp[mi] \in Groups /\ mi' \in 1 .. N + 1 /\ mi' <= numParam + 1
      BY <1>2, <1>4, <2>1
    <2>a. /\ joined' \subseteq Groups /\ refused' \subseteq Groups
          /\ \A S : Has(S) => joined' \ refused' = (S \cup {groupIp[mi]}) \ refused'
      BY <1>2, <2>1, <2>2, Adds
    <2>3. ProxyTypeInv' /\ ListInv'
      BY <1>1, <2>1, <2>2, <2>a DEF ProxyInv, ProxyTypeInv, ListInv
    <2>4. ~crossed => Has(Listed(1, mi - 1))'
      <3>1. 1 .. mi' - 1 = (1 .. mi - 1) \cup {mi}
        BY <1>2, <2>1
      <3>2. Listed(1, mi - 1)' = Listed(1, mi - 1) \cup {groupIp[mi]}
        BY <1>1, <3>1 DEF Listed
      <3>3. QED
        BY <1>3, <2>a, <3>2 DEF Has
    <2>5. JoinInv'
      BY <1>1, <1>3, <2>1, <2>4 DEF JoinInv, Quiet
    <2>6. QED
      BY <2>3, <2>5 DEF ProxyInv
  <1>5. CASE ~(mi <= numParam)
    <2>1. main' = "work" /\ mi' = 1 /\ joined' = joined /\ refused' = refused
      BY <1>5 DEF JoinsGroup, groupVars
    <2>2. ProxyTypeInv' /\ ListInv'
      BY <1>1, <1>2, <2>1 DEF ProxyInv, ProxyTypeInv, ListInv
    <2>3. mi - 1 = numParam
      BY <1>2, <1>5
    <2>4. ~crossed => Has(Listed(1, groupNum))'
      BY <1>1, <1>3, <2>1, <2>3 DEF Listed, Has
    <2>5. JoinInv'
      BY <1>1, <1>3, <2>1, <2>4 DEF JoinInv, Quiet
    <2>6. QED
      BY <2>2, <2>5 DEF ProxyInv
  <1>6. QED
    BY <1>4, <1>5

LEMMA BindsInv ==
  ASSUME ProxyInv, Binds
  PROVE  ProxyInv'
  <1>1. /\ thread = "bind" /\ thread' \in {"accept", "dead"}
        /\ UNCHANGED <<main, numParam, mi, sock, ti, pending, groupIp, groupNum, joined, refused, table,
                       monitor, crossed>>
    BY DEF Binds, mainVars, listVars, groupVars
  <1>2. ProxyTypeInv' /\ ListInv'
    BY <1>1 DEF ProxyInv, ProxyTypeInv, ListInv
  <1>3. JoinInv'
    BY <1>1 DEF ProxyInv, JoinInv, Quiet, Listed, Has
  <1>4. QED
    BY <1>2, <1>3 DEF ProxyInv

\* A request is taken up: from here on memberships are not those listed.
LEMMA AcceptsInv ==
  ASSUME ProxyInv, Accepts
  PROVE  ProxyInv'
  <1>1. /\ thread = "accept" /\ thread' = "drop" /\ ti' = 1 /\ pending > 0 /\ pending' = pending - 1
        /\ crossed' = (crossed \/ main # "work")
        /\ UNCHANGED <<main, numParam, mi, sock, groupIp, groupNum, joined, refused, table, monitor>>
    BY DEF Accepts, mainVars, listVars, groupVars
  <1>2. pending' \in 0 .. Backlog
    BY <1>1, LinuxAssumption DEF ProxyInv, ProxyTypeInv
  <1>3. ProxyTypeInv'
    BY <1>1, <1>2, GroupCount DEF ProxyInv, ProxyTypeInv
  <1>4. ListInv'
    BY <1>1, GroupCount DEF ProxyInv, ProxyTypeInv, ListInv
  <1>5. ~crossed' => main' = "work" /\ sock' /\ Has(Listed(ti, groupNum))'
    BY <1>1 DEF ProxyInv, JoinInv, Listed, Has
  <1>6. JoinInv'
    BY <1>1, <1>5 DEF JoinInv
  <1>7. QED
    BY <1>3, <1>4, <1>6 DEF ProxyInv

LEMMA DropsInv ==
  ASSUME ProxyInv, DropsGroup
  PROVE  ProxyInv'
  <1>1. /\ thread = "drop"
        /\ UNCHANGED <<main, numParam, mi, sock, pending, groupIp, groupNum, monitor, crossed>>
    BY DEF DropsGroup, mainVars, listVars
  <1>2. /\ ti \in 1 .. N + 1 /\ groupNum \in 0 .. N /\ ti <= groupNum + 1 /\ N \in Nat
        /\ \A i, j \in 1 .. groupNum : groupIp[i] = groupIp[j] => i = j
        /\ joined \subseteq Groups /\ refused \subseteq Groups
    BY <1>1, GroupCount DEF ProxyInv, ProxyTypeInv, ListInv
  <1>3. ~crossed => main = "work" /\ Has(Listed(ti, groupNum)) /\ sock
    BY <1>1 DEF ProxyInv, JoinInv, Quiet
  <1>4. CASE ti <= groupNum
    <2>1. /\ IF sock THEN DropsMembership(groupIp[ti]) ELSE joined' = joined /\ refused' = refused
          /\ ti' = ti + 1 /\ UNCHANGED <<thread, table>>
      BY <1>4 DEF DropsGroup, groupVars
    <2>a. joined' \subseteq Groups /\ refused' \subseteq Groups
      BY <1>2, <2>1, Drops
    <2>2. ProxyTypeInv'
      BY <1>1, <1>2, <1>4, <2>1, <2>a DEF ProxyInv, ProxyTypeInv
    <2>3. ListInv'
      BY <1>1, <1>2, <1>4, <2>1 DEF ProxyInv, ListInv
    <2>4. ~crossed => Has(Listed(ti, groupNum))'
      <3>1. ti .. groupNum = {ti} \cup (ti + 1 .. groupNum) /\ ti .. groupNum \subseteq 1 .. groupNum
        BY <1>2, <1>4
      <3>2. \A i \in ti + 1 .. groupNum : groupIp[i] # groupIp[ti]
        BY <1>2, <1>4
      <3>3. {groupIp[i] : i \in ti .. groupNum} \ {groupIp[ti]} = {groupIp[i] : i \in ti + 1 .. groupNum}
        BY <3>1, <3>2
      <3>4. Listed(ti, groupNum)' = Listed(ti, groupNum) \ {groupIp[ti]}
        BY <1>1, <2>1, <3>3 DEF Listed
      <3>5. sock => \A S : Has(S) => joined' \ refused' = (S \ {groupIp[ti]}) \ refused'
        BY <1>2, <2>1, Drops
      <3>6. QED
        BY <1>3, <3>4, <3>5 DEF Has
    <2>5. JoinInv'
      BY <1>1, <1>3, <2>1, <2>4 DEF JoinInv
    <2>6. QED
      BY <2>2, <2>3, <2>5 DEF ProxyInv
  <1>5. CASE ~(ti <= groupNum)
    <2>1. thread' = "load" /\ ti' = 1 /\ table' = <<>> /\ joined' = joined /\ refused' = refused
      BY <1>5 DEF DropsGroup, groupVars
    <2>2. <<>> \in Confs
      BY DEF Confs
    <2>3. ProxyTypeInv'
      BY <1>1, <1>2, <2>1, <2>2 DEF ProxyInv, ProxyTypeInv
    <2>4. ListInv'
      BY <1>1, <2>1 DEF ProxyInv, ListInv
    <2>5. ~crossed => Has({})'
      <3>1. Listed(ti, groupNum) = {}
        BY <1>2, <1>5 DEF Listed
      <3>2. QED
        BY <1>3, <2>1, <3>1 DEF Has
    <2>6. JoinInv'
      BY <1>1, <1>3, <2>1, <2>5 DEF JoinInv
    <2>7. QED
      BY <2>3, <2>4, <2>6 DEF ProxyInv
  <1>6. QED
    BY <1>4, <1>5

\* Main, if it still joins, has its own count, and no entry of the list is ever unset.
LEMMA LoadsInv ==
  ASSUME ToolTypeInv, ProxyInv, LoadsFile
  PROVE  ProxyInv' /\ parted' = FALSE
  <1>1. /\ thread = "load" /\ thread' = "rejoin"
        /\ UNCHANGED <<main, numParam, mi, sock, ti, pending, joined, refused, monitor, crossed>>
    BY DEF LoadsFile, mainVars, groupVars
  <1>2. ti = 1 /\ N \in Nat
    BY <1>1, GroupCount DEF ProxyInv, ListInv
  <1>3. ~crossed => main = "work" /\ Has({}) /\ sock
    BY <1>1 DEF ProxyInv, JoinInv, Quiet
  <1>4. JoinInv'
    <2>1. Listed(1, ti - 1)' = {}
      BY <1>1, <1>2 DEF Listed
    <2>2. QED
      BY <1>1, <1>3, <2>1 DEF JoinInv, Has
  <1>5. CASE file = NoFile
    <2>1. parted' = FALSE /\ UNCHANGED <<groupIp, groupNum, table>>
      BY <1>5 DEF LoadsFile, listVars
    <2>2. ProxyTypeInv'
      BY <1>1, <2>1 DEF ProxyInv, ProxyTypeInv
    <2>3. ListInv'
      BY <1>1, <1>2, <2>1 DEF ProxyInv, ProxyTypeInv, ListInv
    <2>4. QED
      BY <1>4, <2>1, <2>2, <2>3 DEF ProxyInv
  <1>6. CASE file # NoFile
    <2>1. file \in Confs /\ Loaded(file)
      BY <1>6 DEF LoadsFile, ToolTypeInv
    <2>2. /\ groupIp' \in [1 .. N -> Groups \cup {NoGroup}] /\ groupNum' \in 0 .. N
          /\ table' = file /\ groupNum' = Len(file) /\ parted' = FALSE
          /\ \A i \in 1 .. groupNum' : groupIp'[i] = file[i].ip /\ groupIp'[i] \in Groups
          /\ \A i, j \in 1 .. groupNum' : groupIp'[i] = groupIp'[j] => i = j
          /\ \A i \in 1 .. N : groupIp[i] \in Groups => groupIp'[i] \in Groups
      BY <2>1, LoadedLists
    <2>3. ProxyTypeInv'
      BY <1>1, <2>1, <2>2 DEF ProxyInv, ProxyTypeInv
    <2>4. main \in {"open", "join"} => \A i \in 1 .. numParam : groupIp'[i] \in Groups
      <3>1. numParam \in 0 .. N /\ N \in Nat
        BY GroupCount DEF ProxyInv, ProxyTypeInv
      <3>2. main \in {"open", "join"} => \A i \in 1 .. numParam : groupIp[i] \in Groups
        BY DEF ProxyInv, ListInv
      <3>3. QED
        BY <2>2, <3>1, <3>2
    <2>5. /\ main = "join" => mi <= numParam + 1
          /\ ti' <= groupNum' + 1
      BY <1>1, <1>2, <2>2, GroupCount DEF ProxyInv, ListInv
    <2>6. ListInv'
      BY <1>1, <2>2, <2>4, <2>5 DEF ListInv
    <2>7. QED
      BY <1>4, <2>2, <2>3, <2>6 DEF ProxyInv
  <1>7. QED
    BY <1>5, <1>6

LEMMA RejoinsInv ==
  ASSUME ProxyInv, RejoinsGroup
  PROVE  ProxyInv'
  <1>1. /\ thread = "rejoin"
        /\ UNCHANGED <<main, numParam, mi, sock, pending, groupIp, groupNum, table, monitor, crossed>>
    BY DEF RejoinsGroup, mainVars, listVars
  <1>2. /\ ti \in 1 .. N + 1 /\ groupNum \in 0 .. N /\ ti <= groupNum + 1 /\ N \in Nat
        /\ \A i \in 1 .. groupNum : groupIp[i] \in Groups
        /\ joined \subseteq Groups /\ refused \subseteq Groups
    BY <1>1, GroupCount DEF ProxyInv, ProxyTypeInv, ListInv
  <1>3. ~crossed => main = "work" /\ Has(Listed(1, ti - 1)) /\ sock
    BY <1>1 DEF ProxyInv, JoinInv, Quiet
  <1>4. CASE ti <= groupNum
    <2>1. /\ IF sock THEN AddsMembership(groupIp[ti]) ELSE joined' = joined /\ refused' = refused
          /\ ti' = ti + 1 /\ thread' = thread
      BY <1>4 DEF RejoinsGroup, groupVars
    <2>a. groupIp[ti] \in Groups /\ ti' \in 1 .. N + 1 /\ ti' <= groupNum + 1
      BY <1>2, <1>4, <2>1
    <2>b. sock => \A S : Has(S) => joined' \ refused' = (S \cup {groupIp[ti]}) \ refused'
      BY <1>2, <2>1, <2>a, Adds
    <2>2. /\ joined' \subseteq Groups /\ refused' \subseteq Groups
          /\ ti' \in 1 .. N + 1 /\ ti' <= groupNum + 1
      BY <1>2, <2>1, <2>a, Adds
    <2>3. ProxyTypeInv'
      BY <1>1, <2>1, <2>2 DEF ProxyInv, ProxyTypeInv
    <2>4. ListInv'
      BY <1>1, <2>1, <2>2 DEF ProxyInv, ListInv
    <2>5. ~crossed => Has(Listed(1, ti - 1))'
      <3>1. 1 .. ti' - 1 = (1 .. ti - 1) \cup {ti}
        BY <1>2, <2>1
      <3>2. Listed(1, ti - 1)' = Listed(1, ti - 1) \cup {groupIp[ti]}
        BY <1>1, <3>1 DEF Listed
      <3>3. QED
        BY <1>3, <2>b, <3>2 DEF Has
    <2>6. JoinInv'
      BY <1>1, <1>3, <2>1, <2>5 DEF JoinInv
    <2>7. QED
      BY <2>3, <2>4, <2>6 DEF ProxyInv
  <1>5. CASE ~(ti <= groupNum)
    <2>1. thread' = "accept" /\ ti' = 1 /\ joined' = joined /\ refused' = refused
      BY <1>5 DEF RejoinsGroup, groupVars
    <2>2. ProxyTypeInv' /\ ListInv'
      BY <1>1, <1>2, <2>1 DEF ProxyInv, ProxyTypeInv, ListInv
    <2>3. ti - 1 = groupNum
      BY <1>2, <1>5
    <2>4. ~crossed => Has(Listed(1, groupNum))'
      BY <1>1, <1>3, <2>1, <2>3 DEF Listed, Has
    <2>5. JoinInv'
      BY <1>1, <1>3, <2>1, <2>4 DEF JoinInv
    <2>6. QED
      BY <2>2, <2>5 DEF ProxyInv
  <1>6. QED
    BY <1>4, <1>5

-----------------------------------------------------------------------------
(* The theorems                                                            *)

LEMMA InitIInv == AdminInit => IInv
  <1> SUFFICES ASSUME AdminInit PROVE IInv
    OBVIOUS
  <1>1. /\ file \in {NoFile, Shipped} /\ tool = [t \in Tools |-> Idle]
        /\ main = "down" /\ thread = "none" /\ numParam = 0 /\ mi = 1 /\ ti = 1 /\ sock = FALSE
        /\ groupIp = [i \in 1 .. N |-> NoGroup] /\ groupNum = 0
        /\ joined = {} /\ refused = {} /\ table = <<>> /\ pending = 0
        /\ monitor = "off" /\ commands = 0 /\ faults = 0
        /\ spoiled = {} /\ parted = FALSE /\ crossed = FALSE
    BY DEF AdminInit, N
  <1>2. \A g \in Groups :
          asked[g] = LET i == IF file = NoFile THEN 0 ELSE Named(file, g) IN
                     IF i = 0 THEN [in |-> FALSE, port |-> DefaultPort, vms |-> {}]
                     ELSE [in |-> TRUE, port |-> file[i].port, vms |-> ToSet(file[i].members)]
    BY DEF AdminInit
  <1>3. <<>> \in Confs /\ Shipped \in Confs /\ Shipped # NoFile
    BY LinuxAssumption DEF Confs
  <1>4. ASSUME NEW g \in Groups
        PROVE  /\ asked[g] \in AskedTypes /\ (~asked[g].in => asked[g].vms = {})
               /\ file # NoFile => Agrees(file, g, asked[g])
               /\ file = NoFile => ~asked[g].in
    <2>i. PICK i : i = IF file = NoFile THEN 0 ELSE Named(file, g)
      OBVIOUS
    <2>1. CASE i = 0
      <3>1. asked[g] = [in |-> FALSE, port |-> DefaultPort, vms |-> {}]
        BY <1>2, <2>i, <2>1
      <3>2. file # NoFile => \A e \in ToSet(file) : e.ip # g
        <4> SUFFICES ASSUME file # NoFile PROVE \A e \in ToSet(file) : e.ip # g
          OBVIOUS
        <4>1. file \in Confs /\ Named(file, g) = 0
          BY <1>1, <1>3, <2>i, <2>1
        <4>2. 0 \notin 1 .. Len(file)
          BY <4>1, ConfParts
        <4>3. QED
          BY <4>1, <4>2, NamedIs
      <3>3. QED
        BY <3>1, <3>2, LinuxAssumption DEF AskedTypes, Agrees
    <2>2. CASE i # 0
      <3>1. file # NoFile /\ file \in Confs /\ i = Named(file, g)
        BY <1>1, <1>3, <2>i, <2>2
      <3>2. i \in 1 .. Len(file) /\ file[i].ip = g /\ file[i] \in ToSet(file)
        BY <2>2, <3>1, NamedIs
      <3>3. file[i] \in Entries
        BY <3>1, <3>2, ConfParts
      <3>4. asked[g] = [in |-> TRUE, port |-> file[i].port, vms |-> ToSet(file[i].members)]
        BY <1>2, <2>i, <2>2
      <3>5. file[i].port \in Ports /\ ToSet(file[i].members) \subseteq VMs
        BY <3>3 DEF Entries, ToSet
      <3>6. asked[g] \in AskedTypes
        BY <3>4, <3>5 DEF AskedTypes
      <3>7. QED
        BY <3>1, <3>2, <3>4, <3>6 DEF Agrees
    <2>3. QED
      BY <2>1, <2>2
  <1>5. asked \in [Groups -> AskedTypes]
    <2>1. asked = [g \in Groups |-> asked[g]]
      BY DEF AdminInit
    <2>2. QED
      BY <1>4, <2>1
  <1>6. tool \in [Tools -> ToolTypes] /\ \A t \in Tools : tool[t].pc = "idle"
    BY <1>1, IdleTypes
  <1>7. ToolTypeInv
    BY <1>1, <1>3, <1>5, <1>6 DEF ToolTypeInv
  <1>8. AskedInv
    BY <1>1, <1>4, <1>6 DEF AskedInv, CopyOK
  <1>9. ProxyTypeInv
    <2>1. 1 \in 1 .. N + 1 /\ 0 \in 0 .. N /\ 0 \in 0 .. Backlog
      BY GroupCount, LinuxAssumption
    <2>2. QED
      BY <1>1, <1>3, <2>1 DEF ProxyTypeInv
  <1>10. ListInv /\ JoinInv
    BY <1>1 DEF ListInv, JoinInv, Quiet
  <1>11. QED
    BY <1>7, <1>8, <1>9, <1>10 DEF IInv

\* A step that leaves the commands alone.
LEMMA ThreadsInv ==
  ASSUME ToolTypeInv, ProxyInv, MainSteps \/ ThreadSteps
  PROVE  ProxyInv'
  BY StartFailsInv, StartLoadsInv, MainMoves, JoinsInv, BindsInv, AcceptsInv, DropsInv, LoadsInv,
     RejoinsInv DEF MainSteps, ThreadSteps

LEMMA ThreadsKeepTools ==
  ASSUME ToolTypeInv, ProxyInv, MainSteps \/ ThreadSteps
  PROVE  UNCHANGED <<toolVars, asked, spoiled>> /\ faults' \in Nat /\ parted' \in BOOLEAN
  <1>1. faults \in Nat /\ parted \in BOOLEAN
    BY DEF ToolTypeInv
  <1>2. CASE StartFails \/ CallsConnections \/ OpensSocket \/ JoinsGroup
    BY <1>1, <1>2 DEF StartFails, CallsConnections, OpensSocket, JoinsGroup
  <1>3. CASE StartLoads
    BY <1>1, <1>3, StartLoadsInv DEF StartLoads
  <1>4. CASE Binds
    BY <1>1, <1>4 DEF Binds
  <1>5. CASE Accepts \/ DropsGroup \/ RejoinsGroup
    BY <1>1, <1>5 DEF Accepts, DropsGroup, RejoinsGroup
  <1>6. CASE LoadsFile
    BY <1>1, <1>6, LoadsInv DEF LoadsFile
  <1>7. QED
    BY <1>2, <1>3, <1>4, <1>5, <1>6 DEF MainSteps, ThreadSteps

LEMMA SameProxy ==
  ASSUME ProxyInv, UNCHANGED proxyVars, monitor' \in {"off", "look", "again"}
  PROVE  ProxyInv'
  <1>1. /\ UNCHANGED <<main, thread, groupIp, groupNum, numParam, mi, ti, sock, joined, refused, table, crossed>>
        /\ pending' = pending
    BY DEF proxyVars, mainVars, threadVars, listVars, groupVars
  <1>2. pending' \in 0 .. Backlog
    BY <1>1 DEF ProxyInv, ProxyTypeInv
  <1>3. QED
    BY <1>1, <1>2, ProxyStays

\* The end of a command, or its death.
LEMMA LeavesInv ==
  ASSUME ToolTypeInv, AskedInv, ProxyInv, NEW t \in Tools, Reloads(t) \/ Exits(t) \/ ToolDies(t)
  PROVE  ToolTypeInv' /\ AskedInv' /\ ProxyInv'
  <1>0. faults \in Nat /\ parted \in BOOLEAN
    BY DEF ToolTypeInv
  <1>a. tool' = [tool EXCEPT ![t] = Idle] /\ UNCHANGED <<file, asked, commands>> /\ monitor' = monitor
    BY DEF Reloads, Exits, ToolDies
  <1>b. faults' = faults \/ faults' = faults + 1
    BY DEF Reloads, Exits, ToolDies
  <1>c. parted' \in BOOLEAN
    <2>1. parted' = parted \/ parted' = (parted \/ HasLoaded)
          \/ parted' = (parted \/ (tool[t].pc # "write" /\ HasLoaded))
      <3>1. CASE Reloads(t)
        BY <3>1, Zenon DEF Reloads
      <3>2. CASE Exits(t)
        BY <3>2 DEF Exits
      <3>3. CASE ToolDies(t)
        BY <3>3, Zenon DEF ToolDies
      <3>4. QED
        BY <3>1, <3>2, <3>3
    <2>2. QED
      BY <1>0, <2>1
  <1>d. faults' \in Nat
    BY <1>0, <1>b
  <1>1. /\ tool' = [tool EXCEPT ![t] = Idle] /\ UNCHANGED <<file, asked, commands>>
        /\ faults' \in Nat /\ parted' \in BOOLEAN /\ monitor' = monitor
    BY <1>a, <1>c, <1>d
  <1>2. tool' \in [Tools -> ToolTypes] /\ \A u \in Tools : tool'[u] = tool[u] \/ tool'[u] = Idle
    BY <1>1, IdleTypes DEF ToolTypeInv
  <1>3. tool[t].pc # "fill" => Writing' = Writing
    BY <1>1, IdleTypes DEF Writing, ToolTypeInv
  <1>4. spoiled' = Groups \/ (spoiled' = spoiled /\ tool[t].pc # "fill")
    BY DEF Reloads, Exits, ToolDies
  <1>5. ToolTypeInv' /\ AskedInv'
    BY <1>1, <1>2, <1>3, <1>4, ToolsLeave
  <1>6. ProxyInv'
    <2>1. monitor' \in {"off", "look", "again"}
      BY <1>1 DEF ProxyInv, ProxyTypeInv
    <2>2. CASE Reloads(t)
      <3>1. /\ UNCHANGED <<main, thread, groupIp, groupNum, numParam, mi, ti, sock, joined, refused, table, crossed>>
            /\ pending' = pending \/ (pending < Backlog /\ pending' = pending + 1)
        BY <2>2 DEF Reloads, mainVars, listVars, groupVars
      <3>2. pending' \in 0 .. Backlog
        BY <3>1, LinuxAssumption DEF ProxyInv, ProxyTypeInv
      <3>3. QED
        BY <2>1, <3>1, <3>2, ProxyStays
    <2>3. CASE Exits(t) \/ ToolDies(t)
      BY <2>1, <2>3, SameProxy DEF Exits, ToolDies
    <2>4. QED
      BY <2>2, <2>3
  <1>7. QED
    BY <1>5, <1>6

\* The monitor, and what stops the proxy.
LEMMA ServiceInv ==
  ASSUME ToolTypeInv, AskedInv, ProxyInv,
         MonitorSteps \/ ServiceStarts \/ ServiceStops \/ ProxyDies
  PROVE  ToolTypeInv' /\ AskedInv' /\ ProxyInv'
  <1>1. faults \in Nat /\ parted \in BOOLEAN /\ monitor \in {"off", "look", "again"}
        /\ groupIp \in [1 .. N -> Groups \cup {NoGroup}]
    BY DEF ToolTypeInv, ProxyInv, ProxyTypeInv
  <1>2. CASE MonitorLooks \/ ServiceStarts
    <2>1. /\ UNCHANGED <<toolVars, proxyVars, faults, asked, spoiled, parted>>
          /\ monitor' \in {"look", "again"}
      BY <1>2 DEF MonitorLooks, ServiceStarts
    <2>2. QED
      BY <1>1, <2>1, ToolsStay, SameProxy
  <1>3. CASE MonitorLooksAgain
    <2>1. /\ UNCHANGED <<toolVars, faults, asked, spoiled, parted>> /\ monitor' = "look"
          /\ UNCHANGED proxyVars \/ Process("start")
      BY <1>3 DEF MonitorLooksAgain
    <2>2. ProxyInv'
      BY <1>1, <2>1, SameProxy, ProcessInv
    <2>3. QED
      BY <1>1, <2>1, <2>2, ToolsStay
  <1>4. CASE ServiceStops
    <2>1. /\ faults' = faults + 1 /\ monitor' = "off" /\ Process("down")
          /\ tool' = [t \in Tools |-> Idle] /\ parted' = FALSE /\ UNCHANGED <<file, commands, asked>>
          /\ spoiled' = IF Writing # {} THEN Groups ELSE spoiled
      BY <1>4 DEF ServiceStops
    <2>2. ProxyInv'
      BY <1>1, <2>1, ProcessInv
    <2>3. tool' \in [Tools -> ToolTypes] /\ \A u \in Tools : tool'[u] = Idle
      BY <2>1, IdleTypes
    <2>4. Writing' = {}
      BY <2>3, IdleTypes DEF Writing
    <2>a. faults' \in Nat
      BY <1>1, <2>1
    <2>b. parted' \in BOOLEAN
      BY <2>1
    <2>c. spoiled' = Groups \/ (spoiled' = spoiled /\ Writing' = Writing)
      BY <2>1, <2>4
    <2>d. UNCHANGED <<file, asked, commands>>
      BY <2>1
    <2>5. ToolTypeInv' /\ AskedInv'
      BY <2>a, <2>b, <2>c, <2>d, <2>3, ToolsLeave
    <2>6. QED
      BY <2>2, <2>5
  <1>5. CASE ProxyDies
    <2>1. /\ UNCHANGED <<toolVars, monitor, asked, spoiled>> /\ parted' = FALSE /\ faults' = faults + 1
          /\ Process("down")
      BY <1>5 DEF ProxyDies
    <2>2. ProxyInv'
      BY <1>1, <2>1, ProcessInv
    <2>a. faults' \in Nat
      BY <1>1, <2>1
    <2>b. parted' \in BOOLEAN
      BY <2>1
    <2>3. QED
      BY <2>a, <2>b, <2>1, <2>2, ToolsStay
  <1>6. QED
    BY <1>2, <1>3, <1>4, <1>5 DEF MonitorSteps

LEMMA NextIInv == IInv /\ [AdminNext]_adminVars => IInv'
  <1> SUFFICES ASSUME IInv, [AdminNext]_adminVars PROVE IInv'
    OBVIOUS
  <1>0. ToolTypeInv /\ AskedInv /\ ProxyInv
    BY DEF IInv, ProxyInv
  <1> SUFFICES ToolTypeInv' /\ AskedInv' /\ ProxyInv'
    BY DEF IInv, ProxyInv
  <1>1. ASSUME NEW t \in Tools, NEW r \in Requests, Reads(t, r)
        PROVE  ToolTypeInv' /\ AskedInv' /\ ProxyInv'
    BY <1>0, <1>1, ReadsAsked, SameProxy DEF Reads, ProxyInv, ProxyTypeInv
  <1>2. ASSUME NEW t \in Tools, ToolSteps(t) \/ ToolDies(t)
        PROVE  ToolTypeInv' /\ AskedInv' /\ ProxyInv'
    <2>1. CASE Truncates(t)
      BY <1>0, <2>1, TruncatesAsked, SameProxy DEF Truncates, ProxyInv, ProxyTypeInv
    <2>2. CASE Fills(t)
      <3>1. UNCHANGED <<proxyVars, monitor>>
        BY <2>2 DEF Fills
      <3>2. ProxyInv'
        BY <1>0, <3>1, SameProxy DEF ProxyInv, ProxyTypeInv
      <3>3. QED
        BY <1>0, <2>2, <3>2, FillsAsked
    <2>3. CASE Reloads(t) \/ Exits(t) \/ ToolDies(t)
      BY <1>0, <2>3, LeavesInv
    <2>4. QED
      BY <1>2, <2>1, <2>2, <2>3 DEF ToolSteps
  <1>3. CASE MainSteps \/ ThreadSteps
    BY <1>0, <1>3, ThreadsInv, ThreadsKeepTools, ToolsStay
  <1>4. CASE MonitorSteps \/ ServiceStarts \/ ServiceStops \/ ProxyDies
    BY <1>0, <1>4, ServiceInv
  <1>5. CASE UNCHANGED adminVars
    <2>1. UNCHANGED <<toolVars, proxyVars, monitor, faults, asked, spoiled, parted>>
      BY <1>5 DEF adminVars, proxyVars
    <2>2. QED
      BY <1>0, <2>1, ToolsStay, SameProxy DEF ToolTypeInv, ProxyInv, ProxyTypeInv
  <1>6. QED
    BY <1>1, <1>2, <1>3, <1>4, <1>5 DEF AdminNext

LEMMA InvariantIInv == AdminSpec => []IInv
  BY InitIInv, NextIInv, PTL DEF AdminSpec

\* No list is ever read or written past the groups it holds, by commands, threads and scripts
\* in any order.
THEOREM LinuxAdminTypes == AdminSpec => []AdminTypeOK
  <1>1. IInv => AdminTypeOK
    <2> SUFFICES ASSUME IInv PROVE AdminTypeOK
      OBVIOUS
    <2>1. /\ file = NoFile \/ file \in Seq(Entries)
          /\ table \in Seq(Entries)
      BY DEF IInv, ToolTypeInv, ProxyTypeInv, Confs
    <2>2. \A t \in Tools :
            /\ tool[t].pc \in {"idle", "exit", "write", "fill", "reload"}
            /\ tool[t].req \in Requests \cup {NoRequest}
            /\ tool[t].copy \in Seq(Entries) /\ tool[t].missed \subseteq Groups
      BY DEF IInv, ToolTypeInv, ToolTypes, Confs
    <2>3. QED
      BY <2>1, <2>2 DEF IInv, ToolTypeInv, ProxyTypeInv, AdminTypeOK, N, AskedTypes
  <1>2. QED
    BY <1>1, InvariantIInv, PTL

\* Commands that do not lock the file leave in it what they asked for, in the order of their
\* writes, for every group on which no overlap, no kill at a write and no -D of another group
\* has left its mark.
THEOREM LinuxAskedIsKept == AdminSpec => []AskedIsKept
  <1>1. IInv => AskedIsKept
    <2> SUFFICES ASSUME IInv, file # NoFile, NEW g \in Groups \ spoiled, NEW i, i = Named(file, g)
                 PROVE  IF asked[g].in
                        THEN i > 0 /\ file[i].port = asked[g].port /\ ToSet(file[i].members) = asked[g].vms
                        ELSE i = 0
      BY DEF AskedIsKept
    <2>1. file \in Confs /\ Agrees(file, g, asked[g])
      BY DEF IInv, ToolTypeInv, AskedInv
    <2>2. \/ i = 0 /\ \A e \in ToSet(file) : e.ip # g
          \/ i \in 1 .. Len(file) /\ file[i].ip = g /\ file[i] \in ToSet(file)
      BY <2>1, NamedIs
    <2>3. CASE asked[g].in
      <3>1. PICK e \in ToSet(file) : e.ip = g /\ e.port = asked[g].port /\ ToSet(e.members) = asked[g].vms
        BY <2>1, <2>3 DEF Agrees
      <3>2. i \in 1 .. Len(file) /\ file[i].ip = g /\ file[i] \in ToSet(file)
        BY <2>2, <3>1
      <3>3. e = file[i]
        BY <2>1, <3>1, <3>2, OneEntry
      <3>4. i > 0
        BY <2>1, <3>2, ConfParts
      <3>5. QED
        BY <2>3, <3>1, <3>3, <3>4
    <2>4. CASE ~asked[g].in
      BY <2>1, <2>2, <2>4 DEF Agrees
    <2>5. QED
      BY <2>3, <2>4
  <1>2. QED
    BY <1>1, InvariantIInv, PTL

\* When the reload thread rests, the socket's memberships are the groups listed and those of the
\* table, whatever reloads a working proxy has been through, but for the groups of which the
\* kernel has refused to change the membership.
THEOREM LinuxJoinedIsServed == AdminSpec => []JoinedIsServed
  <1>1. IInv => JoinedIsServed
    <2> SUFFICES ASSUME IInv, main = "work", thread \in {"bind", "accept", "dead"}, ~crossed
                 PROVE  \A g \in Groups \ refused :
                          /\ g \in joined <=> \E i \in 1 .. groupNum : groupIp[i] = g
                          /\ table # <<>> => (g \in joined <=> g \in NamesOf(table))
      BY DEF JoinedIsServed
    <2>1. \A g \in Groups \ refused : g \in joined <=> g \in Listed(1, groupNum)
      BY DEF IInv, JoinInv, Has
    <2>2. ASSUME table # <<>> PROVE Listed(1, groupNum) = NamesOf(table)
      <3>1. table \in Confs /\ groupNum = Len(table) /\ \A i \in 1 .. groupNum : groupIp[i] = table[i].ip
        BY <2>2 DEF IInv, ProxyTypeInv, ListInv
      <3>2. DOMAIN table = 1 .. groupNum
        BY <3>1, ConfParts
      <3>3. NamesOf(table) = {table[i].ip : i \in 1 .. groupNum}
        BY <3>2 DEF NamesOf, ToSet
      <3>4. QED
        BY <3>1, <3>3 DEF Listed
    <2>3. QED
      BY <2>1, <2>2 DEF Listed
  <1>2. QED
    BY <1>1, InvariantIInv, PTL
=============================================================================
