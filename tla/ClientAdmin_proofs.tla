------------------------- MODULE ClientAdmin_proofs -------------------------
(***************************************************************************)
(* Proofs about the administration of the client (module ClientAdmin), for *)
(* any number of tools, keys and groups and any sequence of requests and   *)
(* accidents.                                                              *)
(***************************************************************************)
EXTENDS ClientAdmin, FiniteSetTheorems, TLAPS

-----------------------------------------------------------------------------
(* Sequences without repetition                                            *)

Distinct(q) == \A i, j \in 1 .. Len(q) : q[i] = q[j] => i = j
Members(q) == {q[i] : i \in 1 .. Len(q)}
Pos(q, u) == CHOOSE i \in 1 .. Len(q) : q[i] = u

LEMMA PosOf ==
  ASSUME NEW q, NEW u \in Members(q)
  PROVE  Pos(q, u) \in 1 .. Len(q) /\ q[Pos(q, u)] = u
  BY DEF Pos, Members

LEMMA PosIs ==
  ASSUME NEW q, Distinct(q), NEW i \in 1 .. Len(q)
  PROVE  Pos(q, q[i]) = i
  <1>1. q[i] \in Members(q)
    BY DEF Members
  <1>2. QED
    BY <1>1, PosOf DEF Distinct

\* An element appended is the last.
LEMMA Appended ==
  ASSUME NEW S, NEW q \in Seq(S), Distinct(q), NEW t \in S, t \notin Members(q)
  PROVE  LET r == Append(q, t) IN
         /\ r \in Seq(S) /\ Distinct(r) /\ Members(r) = Members(q) \cup {t}
         /\ \A u \in Members(q) : Pos(r, u) = Pos(q, u) /\ Pos(r, u) < Pos(r, t)
  <1> DEFINE r == Append(q, t)
             n == Len(q)
  <1>1. n \in Nat /\ r \in Seq(S) /\ Len(r) = n + 1 /\ r[n + 1] = t /\ \A i \in 1 .. n : r[i] = q[i]
    OBVIOUS
  <1>2. \A i \in 1 .. n : q[i] # t
    BY DEF Members
  <1>3. ASSUME NEW i \in 1 .. Len(r), NEW j \in 1 .. Len(r), r[i] = r[j] PROVE i = j
    <2>1. CASE i \in 1 .. n /\ j \in 1 .. n
      BY <1>1, <1>3, <2>1 DEF Distinct
    <2>2. CASE i = n + 1 \/ j = n + 1
      BY <1>1, <1>2, <1>3, <2>2
    <2>3. QED
      BY <1>1, <2>1, <2>2
  <1> HIDE DEF r
  <1>4. Distinct(r)
    BY <1>3 DEF Distinct
  <1>5. Members(r) = Members(q) \cup {t}
    <2>1. 1 .. Len(r) = 1 .. n \cup {n + 1}
      BY <1>1
    <2>2. QED
      BY <1>1, <2>1 DEF Members
  <1>6. ASSUME NEW u \in Members(q) PROVE Pos(r, u) = Pos(q, u) /\ Pos(r, u) < Pos(r, t)
    <2>1. Pos(q, u) \in 1 .. n /\ q[Pos(q, u)] = u
      BY PosOf
    <2>2. Pos(q, u) \in 1 .. Len(r) /\ r[Pos(q, u)] = u /\ n + 1 \in 1 .. Len(r)
      BY <1>1, <2>1
    <2>3. Pos(r, u) = Pos(q, u) /\ Pos(r, t) = n + 1
      BY <1>1, <1>4, <2>2, PosIs
    <2>4. QED
      BY <1>1, <2>1, <2>3
  <1>7. QED
    BY <1>1, <1>4, <1>5, <1>6 DEF r

\* An element removed leaves the others in their order.
LEMMA Removed ==
  ASSUME NEW S, NEW q \in Seq(S), Distinct(q), NEW t \in Members(q)
  PROVE  LET r == RemoveAt(q, Pos(q, t)) IN
         /\ r \in Seq(S) /\ Distinct(r) /\ Members(r) = Members(q) \ {t}
         /\ \A u, v \in Members(r) : Pos(r, u) < Pos(r, v) <=> Pos(q, u) < Pos(q, v)
  <1> DEFINE n == Len(q)
             p == Pos(q, t)
             r == RemoveAt(q, p)
  <1>1. n \in Nat /\ p \in 1 .. n /\ q[p] = t
    BY PosOf
  <1>2. r = SubSeq(q, 1, p - 1) \o SubSeq(q, p + 1, n)
    BY DEF RemoveAt
  <1> HIDE DEF n, p, r
  <1> DEFINE a == SubSeq(q, 1, p - 1)
             b == SubSeq(q, p + 1, n)
  <1>3. a \in Seq(S) /\ Len(a) = p - 1 /\ \A i \in 1 .. p - 1 : a[i] = q[i]
    BY <1>1 DEF n
  <1>4. b \in Seq(S) /\ Len(b) = n - p /\ \A i \in 1 .. n - p : b[i] = q[p + i]
    BY <1>1 DEF n
  <1>5. r = a \o b
    BY <1>2
  <1> HIDE DEF a, b
  <1>6. r \in Seq(S) /\ Len(r) = n - 1
    BY <1>1, <1>3, <1>4, <1>5
  <1> DEFINE Old(i) == IF i < p THEN i ELSE i + 1
  <1>7. ASSUME NEW i \in 1 .. n - 1
        PROVE  r[i] = q[Old(i)] /\ Old(i) \in 1 .. n /\ Old(i) # p
    <2>1. CASE i < p
      BY <1>1, <1>3, <1>4, <1>5, <2>1
    <2>2. CASE ~(i < p)
      <3>1. (a \o b)[i] = b[i - (p - 1)] /\ i - (p - 1) \in 1 .. n - p
        BY <1>1, <1>3, <1>4, <2>2
      <3>2. p + (i - (p - 1)) = i + 1
        BY <1>1
      <3>3. QED
        BY <1>1, <1>4, <1>5, <2>2, <3>1, <3>2
    <2>3. QED
      BY <2>1, <2>2
  <1>8. Distinct(r)
    <2> SUFFICES ASSUME NEW i \in 1 .. n - 1, NEW j \in 1 .. n - 1, r[i] = r[j] PROVE i = j
      BY <1>6 DEF Distinct
    <2>1. Old(i) = Old(j)
      <3> HIDE DEF Old
      <3>1. QED
        BY <1>7 DEF Distinct, n
    <2>2. QED
      BY <1>1, <2>1
  <1>9. Members(r) = Members(q) \ {t}
    <2>1. ASSUME NEW u \in Members(r) PROVE u \in Members(q) \ {t}
      <3>1. PICK i \in 1 .. n - 1 : u = r[i]
        BY <1>6 DEF Members
      <3>2. Old(i) \in 1 .. n /\ u = q[Old(i)] /\ Old(i) # p
        BY <1>7, <3>1
      <3> HIDE DEF Old
      <3>3. QED
        BY <1>1, <3>2 DEF Members, Distinct, n
    <2>2. ASSUME NEW u \in Members(q), u # t PROVE u \in Members(r)
      <3>1. PICK k \in 1 .. n : u = q[k]
        BY DEF Members, n
      <3>2. k # p
        BY <1>1, <2>2, <3>1
      <3>3. CASE k < p
        <4>1. k \in 1 .. n - 1 /\ Old(k) = k
          BY <1>1, <3>3
        <4>2. QED
          BY <1>6, <1>7, <3>1, <4>1 DEF Members
      <3>4. CASE k > p
        <4>1. k - 1 \in 1 .. n - 1 /\ Old(k - 1) = k
          BY <1>1, <3>4
        <4>2. QED
          BY <1>6, <1>7, <3>1, <4>1 DEF Members
      <3>5. QED
        BY <1>1, <3>2, <3>3, <3>4
    <2>3. QED
      BY <2>1, <2>2
  <1>10. ASSUME NEW u \in Members(r) PROVE Pos(r, u) \in 1 .. n - 1 /\ Pos(q, u) = Old(Pos(r, u))
    <2>1. Pos(r, u) \in 1 .. n - 1 /\ r[Pos(r, u)] = u
      BY <1>6, PosOf
    <2>2. Old(Pos(r, u)) \in 1 .. n /\ u = q[Old(Pos(r, u))]
      BY <1>7, <2>1
    <2> HIDE DEF Old
    <2>3. QED
      BY <2>1, <2>2, PosIs DEF n
  <1>11. ASSUME NEW u \in Members(r), NEW v \in Members(r)
         PROVE  Pos(r, u) < Pos(r, v) <=> Pos(q, u) < Pos(q, v)
    BY <1>1, <1>10
  <1>12. QED
    BY <1>6, <1>8, <1>9, <1>11 DEF r, p

-----------------------------------------------------------------------------
(* Requests, tools, and the order of the tools                             *)

PendingPcs == {"kernel", "room", "undo"}
Pcs == {"idle", "config"} \cup PendingPcs
ToolStates == [pc : Pcs, req : Requests]

ToolOK(s) ==
  /\ s \in ToolStates
  /\ s.pc # "idle" => s.req.cmd # "read"
  /\ s.pc = "room" => s.req.cmd = "add"
  /\ s.pc = "undo" => s.req.cmd # "clear"

KeySet(req) == IF req.cmd = "clear" THEN Keys ELSE {req.key} \cap Keys

\* What a request makes of a key that it is about.
Effect(req) == IF req.cmd = "add" THEN req.multi_ip ELSE NoGroup

TypeInv ==
  /\ group \in [Keys -> Groups \cup {NoGroup}]
  /\ running \in [array : BOOLEAN, group : [Keys -> Groups \cup {NoGroup, ZeroAddress}]]
  /\ ~running.array => Entries = {}
  /\ Cardinality(Entries) <= GrpMax
  /\ tool \in [Tools -> ToolStates] /\ \A t \in Tools : ToolOK(tool[t])
  /\ stale \subseteq Keys

\* The order names each tool that has changed the file and is not through once.
OrderInv ==
  /\ order \in Seq(Tools)
  /\ Distinct(order)
  /\ Members(order) = Pending

LEMMA RequestFields ==
  ASSUME NEW req \in Requests
  PROVE  /\ req.cmd \in {"add", "del", "clear", "read"}
         /\ req.cmd \in {"add", "del"} => req.key \in Keys /\ KeySet(req) = {req.key}
         /\ req.cmd = "add" => req.multi_ip \in Groups
         /\ req.cmd = "del" => req.multi_ip = ZeroAddress
         /\ req.cmd = "clear" => KeySet(req) = Keys
         /\ KeySet(req) \subseteq Keys
         /\ Effect(req) \in Groups \cup {NoGroup}
  <1>1. CASE req \in [cmd : {"add"}, key : Keys, multi_ip : Groups]
    BY <1>1 DEF KeySet, Effect
  <1>2. CASE req \in [cmd : {"del"}, key : Keys, multi_ip : {ZeroAddress}]
    BY <1>2 DEF KeySet, Effect
  <1>3. CASE req \in [cmd : {"clear", "read"}, key : {NoKey}, multi_ip : {ZeroAddress}]
    BY <1>3, ClientAdminAssumption DEF KeySet, Effect
  <1>4. QED
    BY <1>1, <1>2, <1>3 DEF Requests

LEMMA IdleOK == ToolOK(Idle) /\ Idle \in ToolStates /\ Idle.pc = "idle"
  BY DEF Idle, ToolOK, ToolStates, Pcs, Requests

LEMMA KeySets ==
  ASSUME NEW S \in SUBSET Keys
  PROVE  IsFiniteSet(S) /\ Cardinality(S) \in Nat
  BY ClientAdminAssumption, FS_Subset, FS_CardinalityType

LEMMA ToolFacts ==
  ASSUME TypeInv, NEW t \in Tools
  PROVE  /\ ToolOK(tool[t]) /\ tool[t].req \in Requests /\ tool[t].pc \in Pcs
         /\ About(t) = KeySet(tool[t].req) /\ About(t) \subseteq Keys
         /\ Pending \subseteq Tools /\ PendingKeys \subseteq Keys
         /\ SharedBefore(t) \subseteq Keys /\ SharedAfter(t) \subseteq Keys
  <1>1. \A u \in Tools : About(u) \subseteq Keys
    BY DEF About
  <1>2. Pending \subseteq Tools
    BY DEF Pending
  <1>3. PendingKeys \subseteq Keys /\ SharedBefore(t) \subseteq Keys /\ SharedAfter(t) \subseteq Keys
    BY <1>1, <1>2 DEF PendingKeys, SharedBefore, SharedAfter
  <1>4. QED
    BY <1>1, <1>2, <1>3 DEF TypeInv, ToolStates, About, KeySet

\* The tool t goes to the state s, and the others stay where they are.
LEMMA ToolStep ==
  ASSUME TypeInv, NEW t \in Tools, NEW s, ToolOK(s), tool' = [tool EXCEPT ![t] = s]
  PROVE  /\ tool' \in [Tools -> ToolStates] /\ \A u \in Tools : ToolOK(tool'[u])
         /\ tool'[t] = s /\ \A u \in Tools \ {t} : tool'[u] = tool[u]
         /\ Pending' = (Pending \ {t}) \cup (IF s.pc \in PendingPcs THEN {t} ELSE {})
  <1>1. /\ tool' \in [Tools -> ToolStates] /\ \A u \in Tools : ToolOK(tool'[u])
        /\ tool'[t] = s /\ \A u \in Tools \ {t} : tool'[u] = tool[u]
    BY DEF TypeInv, ToolOK
  <1>2. QED
    BY <1>1 DEF Pending, PendingPcs

-----------------------------------------------------------------------------
(* Types                                                                   *)

\* A configuration with one entry more, which has room, or with one entry less.
LEMMA EntryChanged ==
  ASSUME TypeInv, NEW k \in Keys, NEW g \in Groups \cup {NoGroup, ZeroAddress},
         running.array, g # NoGroup => Cardinality(Entries) + 1 <= GrpMax,
         running' = Entry(k, g)
  PROVE  /\ running' \in [array : BOOLEAN, group : [Keys -> Groups \cup {NoGroup, ZeroAddress}]]
         /\ running'.array /\ Cardinality(Entries') <= GrpMax
         /\ running'.group = [running.group EXCEPT ![k] = g]
  <1>1. /\ running \in [array : BOOLEAN, group : [Keys -> Groups \cup {NoGroup, ZeroAddress}]]
        /\ Cardinality(Entries) <= GrpMax /\ Entries \in SUBSET Keys /\ GrpMax \in Nat
    BY ClientAdminAssumption DEF TypeInv, Entries
  <1>2. /\ running' \in [array : BOOLEAN, group : [Keys -> Groups \cup {NoGroup, ZeroAddress}]]
        /\ running'.array /\ running'.group = [running.group EXCEPT ![k] = g]
    BY <1>1 DEF Entry
  <1>3. CASE g # NoGroup
    <2>1. Entries' \in SUBSET (Entries \cup {k}) /\ Entries \cup {k} \in SUBSET Keys
      BY <1>1, <1>2 DEF Entries
    <2>2. Cardinality(Entries') <= Cardinality(Entries \cup {k})
      BY <2>1, KeySets, FS_Subset
    <2>3. Cardinality(Entries \cup {k}) <= Cardinality(Entries) + 1
      BY <1>1, KeySets, FS_AddElement
    <2>4. Entries' \in SUBSET Keys
      BY <2>1
    <2>5. QED
      BY <1>1, <1>2, <1>3, <2>1, <2>2, <2>3, <2>4, KeySets
  <1>4. CASE g = NoGroup
    <2>1. Entries' \in SUBSET Entries
      BY <1>1, <1>2, <1>4 DEF Entries
    <2>2. Cardinality(Entries') <= Cardinality(Entries)
      BY <1>1, <2>1, KeySets, FS_Subset
    <2>3. Entries' \in SUBSET Keys
      BY <1>1, <2>1
    <2>4. QED
      BY <1>1, <1>2, <2>2, <2>3, KeySets
  <1>5. QED
    BY <1>3, <1>4

LEMMA FileCut ==
  ASSUME running' = [array |-> FALSE, group |-> NoEntries]
  PROVE  /\ running' \in [array : BOOLEAN, group : [Keys -> Groups \cup {NoGroup, ZeroAddress}]]
         /\ Entries' = {} /\ Cardinality(Entries') <= GrpMax
         /\ \A k \in Keys : running'.group[k] = NoGroup
  <1>1. /\ running' \in [array : BOOLEAN, group : [Keys -> Groups \cup {NoGroup, ZeroAddress}]]
        /\ \A k \in Keys : running'.group[k] = NoGroup
    BY DEF NoEntries
  <1>2. Entries' = {}
    BY <1>1 DEF Entries
  <1>3. QED
    BY <1>1, <1>2, FS_EmptySet, ClientAdminAssumption

\* What a step of t leaves of the types when it keeps them for itself, file and kernel.
LEMMA TypesOfStep ==
  ASSUME TypeInv, NEW t \in Tools, NEW s, ToolOK(s), tool' = [tool EXCEPT ![t] = s],
         group' \in [Keys -> Groups \cup {NoGroup}],
         running' = running
           \/ /\ running' \in [array : BOOLEAN, group : [Keys -> Groups \cup {NoGroup, ZeroAddress}]]
              /\ ~running'.array => Entries' = {}
              /\ Cardinality(Entries') <= GrpMax,
         stale' \subseteq Keys
  PROVE  TypeInv'
  <1>1. tool' \in [Tools -> ToolStates] /\ \A u \in Tools : ToolOK(tool'[u])
    BY ToolStep
  <1>2. CASE running' = running
    <2>1. Entries' = Entries
      BY <1>2 DEF Entries
    <2>2. QED
      BY <1>1, <1>2, <2>1 DEF TypeInv
  <1>3. CASE running' # running
    BY <1>1, <1>3 DEF TypeInv
  <1>4. QED
    BY <1>2, <1>3

\* The state of a tool that goes on to pc with its request.
LEMMA GoesOn ==
  ASSUME TypeInv, NEW t \in Tools, NEW pc \in {"kernel", "room", "undo"},
         tool[t].pc # "idle", pc = "room" => tool[t].req.cmd = "add",
         pc = "undo" => tool[t].req.cmd # "clear",
         tool' = [tool EXCEPT ![t].pc = pc]
  PROVE  LET s == [tool[t] EXCEPT !.pc = pc] IN
         ToolOK(s) /\ tool' = [tool EXCEPT ![t] = s] /\ s.pc = pc /\ s.req = tool[t].req
  <1> DEFINE s == [tool[t] EXCEPT !.pc = pc]
  <1>1. tool[t] \in ToolStates /\ ToolOK(tool[t]) /\ pc \in Pcs
    BY DEF TypeInv, Pcs, PendingPcs
  <1>2. s \in ToolStates /\ s.pc = pc /\ s.req = tool[t].req
    BY <1>1 DEF ToolStates
  <1>3. ToolOK(s)
    BY <1>1, <1>2 DEF ToolOK
  <1>4. tool' = [tool EXCEPT ![t] = s]
    BY DEF TypeInv
  <1>5. QED
    BY <1>2, <1>3, <1>4

LEMMA TypesFile ==
  ASSUME TypeInv, NEW t \in Tools,
         \/ \E req \in Requests : Begins(t, req)
         \/ ConfigAdds(t) \/ ConfigDeletes(t) \/ ConfigClears(t) \/ ConfigRefuses(t)
  PROVE  TypeInv'
  <1>1. /\ group \in [Keys -> Groups \cup {NoGroup}] /\ stale \subseteq Keys
        /\ running \in [array : BOOLEAN, group : [Keys -> Groups \cup {NoGroup, ZeroAddress}]]
        /\ tool[t].req \in Requests /\ ToolOK(tool[t]) /\ ToolOK(Idle)
    BY ToolFacts, IdleOK DEF TypeInv
  <1>2. ASSUME NEW req \in Requests, Begins(t, req) PROVE TypeInv'
    <2> DEFINE s == IF req.cmd = "read" THEN Idle ELSE [pc |-> "config", req |-> req]
    <2>1. ToolOK(s)
      BY <1>1 DEF ToolOK, ToolStates, Pcs
    <2>2. tool' = [tool EXCEPT ![t] = s]
      BY <1>2 DEF Begins
    <2> HIDE DEF s
    <2>3. /\ running' \in [array : BOOLEAN, group : [Keys -> Groups \cup {NoGroup, ZeroAddress}]]
          /\ running'.array /\ running'.group = running.group
      BY <1>1, <1>2 DEF Begins
    <2>4. Entries' = Entries
      BY <2>3 DEF Entries
    <2>5. Cardinality(Entries') <= GrpMax
      BY <2>4 DEF TypeInv
    <2>6. QED
      BY <1>1, <1>2, <2>1, <2>2, <2>3, <2>5, TypesOfStep DEF Begins, kernelVars
  <1>3. ASSUME ToKernel(t),
               /\ running' \in [array : BOOLEAN, group : [Keys -> Groups \cup {NoGroup, ZeroAddress}]]
               /\ ~running'.array => Entries' = {}
               /\ Cardinality(Entries') <= GrpMax
        PROVE  TypeInv'
    <2> DEFINE s == [tool[t] EXCEPT !.pc = "kernel"]
    <2>1. tool[t].pc = "config" /\ tool' = [tool EXCEPT ![t].pc = "kernel"]
      BY <1>3 DEF ToKernel
    <2>2. ToolOK(s) /\ tool' = [tool EXCEPT ![t] = s]
      BY <2>1, GoesOn
    <2>3. stale' \subseteq Keys /\ group' = group
      BY <1>1, <1>3 DEF ToKernel, kernelVars
    <2> HIDE DEF s
    <2>4. QED
      BY <1>1, <1>3, <2>2, <2>3, TypesOfStep
  <1>4. ASSUME ConfigAdds(t) PROVE TypeInv'
    <2>1. tool[t].req.key \in Keys /\ tool[t].req.multi_ip \in Groups
      BY <1>1, <1>4, RequestFields DEF ConfigAdds
    <2>2. running.array /\ Cardinality(Entries) + 1 <= GrpMax
      <3>1. Cardinality(Entries) \in Nat
        <4>1. Entries \in SUBSET Keys
          BY DEF Entries
        <4>2. QED
          BY <4>1, KeySets
      <3>2. QED
        BY <1>4, <3>1, ClientAdminAssumption DEF ConfigAdds, AddRefused
    <2>3. QED
      BY <1>3, <1>4, <2>1, <2>2, EntryChanged DEF ConfigAdds
  <1>5. ASSUME ConfigDeletes(t) PROVE TypeInv'
    <2>1. tool[t].req.key \in Keys /\ running.array
      BY <1>1, <1>5, RequestFields DEF ConfigDeletes, DelRefused
    <2>2. QED
      BY <1>3, <1>5, <2>1, EntryChanged DEF ConfigDeletes
  <1>6. ASSUME ConfigClears(t) PROVE TypeInv'
    BY <1>3, <1>6, FileCut DEF ConfigClears
  <1>7. ASSUME ConfigRefuses(t) PROVE TypeInv'
    BY <1>1, <1>7, TypesOfStep DEF ConfigRefuses, kernelVars
  <1>8. QED
    BY <1>2, <1>4, <1>5, <1>6, <1>7

TellsKernel(t) ==
  KernelHasRoom(t) \/ KernelFull(t) \/ KernelBinds(t) \/ KernelExists(t) \/ KernelUnbinds(t)
    \/ KernelMissing(t) \/ KernelClears(t)

LEMMA TypesKernel ==
  ASSUME TypeInv, NEW t \in Tools, TellsKernel(t)
  PROVE  TypeInv'
  <1>1. /\ group \in [Keys -> Groups \cup {NoGroup}] /\ stale \subseteq Keys
        /\ tool[t].req \in Requests /\ ToolOK(tool[t]) /\ ToolOK(Idle)
        /\ About(t) \subseteq Keys /\ SharedBefore(t) \subseteq Keys
    BY ToolFacts, IdleOK DEF TypeInv
  <1>2. ASSUME Done(t), group' \in [Keys -> Groups \cup {NoGroup}] PROVE TypeInv'
    BY <1>1, <1>2, TypesOfStep DEF Done, Ends
  <1>3. ASSUME Failed(t), tool[t].pc \in {"kernel", "room"}, tool[t].req.cmd \in {"add", "del"},
               group' = group, stale' \subseteq Keys
        PROVE  TypeInv'
    <2> DEFINE s == [tool[t] EXCEPT !.pc = "undo"]
    <2>1. ToolOK(s) /\ tool' = [tool EXCEPT ![t] = s]
      BY <1>3, GoesOn DEF Failed
    <2> HIDE DEF s
    <2>2. QED
      BY <1>1, <1>3, <2>1, TypesOfStep DEF Failed
  <1>4. ASSUME KernelHasRoom(t) PROVE TypeInv'
    <2> DEFINE s == [tool[t] EXCEPT !.pc = "room"]
    <2>1. ToolOK(s) /\ tool' = [tool EXCEPT ![t] = s]
      BY <1>4, GoesOn DEF KernelHasRoom, At
    <2> HIDE DEF s
    <2>2. QED
      BY <1>1, <1>4, <2>1, TypesOfStep DEF KernelHasRoom, kernelVars
  <1>5. ASSUME KernelFull(t) PROVE TypeInv'
    <2>1. stale' \subseteq Keys
      BY <1>1, <1>5 DEF KernelFull
    <2>2. QED
      BY <1>3, <1>5, <2>1 DEF KernelFull, At, AbsNoRoom
  <1>6. ASSUME KernelBinds(t) PROVE TypeInv'
    <2>1. tool[t].req.key \in Keys /\ tool[t].req.multi_ip \in Groups
      BY <1>1, <1>6, RequestFields DEF KernelBinds, At
    <2>2. group' \in [Keys -> Groups \cup {NoGroup}]
      BY <1>1, <1>6, <2>1 DEF KernelBinds, AbsBind
    <2>3. QED
      BY <1>2, <1>6, <2>2 DEF KernelBinds
  <1>7. ASSUME KernelExists(t) PROVE TypeInv'
    <2>1. stale' \subseteq Keys
      BY <1>1, <1>7 DEF KernelExists
    <2>2. QED
      BY <1>3, <1>7, <2>1 DEF KernelExists, At, AbsBoundAlready
  <1>8. ASSUME KernelUnbinds(t) PROVE TypeInv'
    <2>1. group' \in [Keys -> Groups \cup {NoGroup}]
      BY <1>1, <1>8 DEF KernelUnbinds, AbsUnbind
    <2>2. QED
      BY <1>2, <1>8, <2>1 DEF KernelUnbinds
  <1>9. ASSUME KernelMissing(t) PROVE TypeInv'
    <2>1. stale' \subseteq Keys
      BY <1>1, <1>9 DEF KernelMissing
    <2>2. QED
      BY <1>3, <1>9, <2>1 DEF KernelMissing, At, AbsMissing
  <1>10. ASSUME KernelClears(t) PROVE TypeInv'
    <2>1. group' \in [Keys -> Groups \cup {NoGroup}]
      BY <1>10 DEF KernelClears, AbsClear
    <2>2. QED
      BY <1>2, <1>10, <2>1 DEF KernelClears
  <1>11. QED
    BY <1>4, <1>5, <1>6, <1>7, <1>8, <1>9, <1>10 DEF TellsKernel

LEMMA TypesUndo ==
  ASSUME TypeInv, NEW t \in Tools,
         UndoesAdd(t) \/ UndoesDelete(t) \/ Unreachable(t) \/ Killed(t)
  PROVE  TypeInv'
  <1>1. /\ group \in [Keys -> Groups \cup {NoGroup}] /\ stale \subseteq Keys
        /\ tool[t].req \in Requests /\ ToolOK(tool[t]) /\ ToolOK(Idle)
        /\ About(t) \subseteq Keys /\ SharedAfter(t) \subseteq Keys
    BY ToolFacts, IdleOK DEF TypeInv
  <1>2. group' = group
    BY DEF UndoesAdd, UndoesDelete, Unreachable, Killed, kernelVars
  <1>3. stale' \subseteq Keys
    BY <1>1 DEF UndoesAdd, UndoesDelete, Unreachable, Killed
  <1>4. CASE UndoesAdd(t)
    <2> DEFINE k == tool[t].req.key
    <2>1. k \in Keys
      BY <1>1, <1>4, RequestFields DEF UndoesAdd, At
    <2>2. CASE DelRefused(k)
      BY <1>1, <1>2, <1>3, <1>4, <2>2, TypesOfStep DEF UndoesAdd, Ends
    <2>3. CASE ~DelRefused(k)
      <3>1. running.array /\ running' = Entry(k, NoGroup)
        BY <1>4, <2>3 DEF UndoesAdd, DelRefused
      <3>2. QED
        BY <1>1, <1>2, <1>3, <1>4, <2>1, <3>1, EntryChanged, TypesOfStep DEF UndoesAdd, Ends
    <2>4. QED
      BY <2>2, <2>3
  <1>5. CASE UndoesDelete(t)
    <2> DEFINE k == tool[t].req.key
               g == tool[t].req.multi_ip
    <2>1. k \in Keys /\ g = ZeroAddress
      BY <1>1, <1>5, RequestFields DEF UndoesDelete, At
    <2>2. CASE AddRefused(k, g)
      BY <1>1, <1>2, <1>3, <1>5, <2>2, TypesOfStep DEF UndoesDelete, Ends
    <2>3. CASE ~AddRefused(k, g)
      <3>1. Cardinality(Entries) \in Nat
        <4>1. Entries \in SUBSET Keys
          BY DEF Entries
        <4>2. QED
          BY <4>1, KeySets
      <3>2. running.array /\ Cardinality(Entries) + 1 <= GrpMax /\ running' = Entry(k, g)
        BY <1>5, <2>3, <3>1, ClientAdminAssumption DEF UndoesDelete, AddRefused
      <3>3. QED
        BY <1>1, <1>2, <1>3, <1>5, <2>1, <3>2, EntryChanged, TypesOfStep DEF UndoesDelete, Ends
    <2>4. QED
      BY <2>2, <2>3
  <1>6. CASE Unreachable(t)
    <2>1. CASE tool[t].req.cmd = "clear"
      BY <1>1, <1>2, <1>3, <1>6, <2>1, TypesOfStep DEF Unreachable, Ends
    <2>2. CASE tool[t].req.cmd # "clear"
      <3> DEFINE s == [tool[t] EXCEPT !.pc = "undo"]
      <3>1. ToolOK(s) /\ tool' = [tool EXCEPT ![t] = s] /\ running' = running
        BY <1>6, <2>2, GoesOn DEF Unreachable, Failed
      <3> HIDE DEF s
      <3>2. QED
        BY <1>1, <1>2, <1>3, <3>1, TypesOfStep
    <2>3. QED
      BY <2>1, <2>2
  <1>7. CASE Killed(t)
    <2>1. \/ running' = running
          \/ running' = [array |-> FALSE, group |-> NoEntries]
      BY <1>7 DEF Killed
    <2>2. QED
      BY <1>1, <1>2, <1>3, <1>7, <2>1, FileCut, TypesOfStep DEF Killed, Ends
  <1>8. QED
    BY <1>4, <1>5, <1>6, <1>7

-----------------------------------------------------------------------------
(* File and kernel                                                         *)

(***************************************************************************)
(* For every key that no accident has parted: the file has what the last   *)
(* of the tools under way makes of it, or, when no tool is, what the       *)
(* kernel has.  A tool that will take its change back is the first of      *)
(* those under way, has added the key, and the kernel has nothing of it:   *)
(* so taking the change back, with no other tool after it, is right.       *)
(***************************************************************************)
SyncInv ==
  \A k \in Keys \ stale :
    /\ k \notin PendingKeys => running.group[k] = group[k]
    /\ \A t \in Pending : k \in About(t) =>
         /\ (\A u \in Pending : k \in About(u) => Position(u) <= Position(t)) =>
              running.group[k] = Effect(tool[t].req)
         /\ tool[t].pc = "undo" =>
              /\ tool[t].req.cmd = "add" /\ group[k] = NoGroup
              /\ \A u \in Pending : k \in About(u) => Position(t) <= Position(u)

IInv == TypeInv /\ OrderInv /\ SyncInv

LEMMA Positions ==
  ASSUME OrderInv, NEW t \in Pending
  PROVE  Position(t) = Pos(order, t) /\ Position(t) \in 1 .. Len(order) /\ Len(order) \in Nat
         /\ \A u \in Pending : Position(u) = Position(t) => u = t
  <1>1. \A u \in Pending : /\ Position(u) = Pos(order, u) /\ Pos(order, u) \in 1 .. Len(order)
                           /\ order[Pos(order, u)] = u
    BY PosOf DEF OrderInv, Position, Pos
  <1>2. QED
    BY <1>1 DEF OrderInv

\* Keys that t shares with a tool that wrote the file before, or after it.
LEMMA Sharing ==
  ASSUME TypeInv, NEW t \in Tools, NEW k \in About(t), NEW u \in Pending, k \in About(u)
  PROVE  /\ Position(u) < Position(t) => k \in SharedBefore(t)
         /\ Position(t) < Position(u) => k \in SharedAfter(t)
  BY DEF SharedBefore, SharedAfter

\* No tool enters or leaves, file and kernel stay on the keys that count, and a tool that now
\* has to take its change back was the first of those about its keys.
LEMMA SyncStays ==
  ASSUME IInv, order' = order, Pending' = Pending,
         \A u \in Pending : tool'[u].req = tool[u].req,
         \A k \in Keys \ stale' : k \notin stale /\ running'.group[k] = running.group[k]
                                                 /\ group'[k] = group[k],
         \A u \in Pending : tool'[u].pc = "undo" /\ tool[u].pc # "undo" =>
           \A k \in About(u) \ stale' : /\ tool[u].req.cmd = "add" /\ group[k] = NoGroup
                                        /\ k \notin SharedBefore(u)
  PROVE  OrderInv' /\ SyncInv'
  <1>1. OrderInv'
    BY DEF IInv, OrderInv
  <1>2. /\ \A u \in Pending : About(u)' = About(u) /\ Position(u)' = Position(u)
        /\ PendingKeys' = PendingKeys
    <2>1. \A u \in Pending : About(u)' = About(u) /\ Position(u)' = Position(u)
      BY DEF About, Position
    <2>2. QED
      BY <2>1 DEF PendingKeys
  <1> SUFFICES ASSUME NEW k \in Keys \ stale' PROVE
        /\ k \notin PendingKeys' => running'.group[k] = group'[k]
        /\ \A t \in Pending' : k \in About(t)' =>
             /\ (\A u \in Pending' : k \in About(u)' => Position(u)' <= Position(t)') =>
                  running'.group[k] = Effect(tool'[t].req)
             /\ tool'[t].pc = "undo" =>
                  /\ tool'[t].req.cmd = "add" /\ group'[k] = NoGroup
                  /\ \A u \in Pending' : k \in About(u)' => Position(t)' <= Position(u)'
    BY <1>1 DEF SyncInv
  <1>3. k \in Keys \ stale /\ running'.group[k] = running.group[k] /\ group'[k] = group[k]
    OBVIOUS
  <1>4. k \notin PendingKeys' => running'.group[k] = group'[k]
    BY <1>2, <1>3 DEF IInv, SyncInv
  <1>5. ASSUME NEW t \in Pending, k \in About(t),
               \A u \in Pending : k \in About(u) => Position(u) <= Position(t)
        PROVE  running'.group[k] = Effect(tool'[t].req)
    BY <1>3, <1>5 DEF IInv, SyncInv
  <1>6. ASSUME NEW t \in Pending, k \in About(t), tool'[t].pc = "undo"
        PROVE  /\ tool'[t].req.cmd = "add" /\ group'[k] = NoGroup
               /\ \A u \in Pending : k \in About(u) => Position(t) <= Position(u)
    <2>1. CASE tool[t].pc = "undo"
      BY <1>3, <1>6, <2>1 DEF IInv, SyncInv
    <2>2. CASE tool[t].pc # "undo"
      <3>1. tool[t].req.cmd = "add" /\ group[k] = NoGroup /\ k \notin SharedBefore(t)
        BY <1>6, <2>2
      <3>2. t \in Tools
        BY DEF Pending
      <3>3. ASSUME NEW u \in Pending, k \in About(u) PROVE Position(t) <= Position(u)
        <4>1. ~(Position(u) < Position(t))
          BY <1>6, <3>1, <3>2, <3>3, Sharing DEF IInv
        <4>2. Position(u) \in Nat /\ Position(t) \in Nat
          BY Positions DEF IInv
        <4>3. QED
          BY <4>1, <4>2
      <3>4. QED
        BY <1>3, <1>6, <3>1, <3>3
    <2>3. QED
      BY <2>1, <2>2
  <1>7. QED
    BY <1>2, <1>4, <1>5, <1>6

\* t writes the file and has yet to tell the kernel.
LEMMA SyncAppends ==
  ASSUME IInv, NEW t \in Tools, ToKernel(t),
         \A k \in Keys : running'.group[k] = IF k \in About(t) THEN Effect(tool[t].req)
                                             ELSE running.group[k]
  PROVE  OrderInv' /\ SyncInv'
  <1> DEFINE s == [tool[t] EXCEPT !.pc = "kernel"]
  <1>1. tool[t].pc = "config" /\ order' = Append(order, t) /\ group' = group
    BY DEF ToKernel, kernelVars
  <1>2. ToolOK(s) /\ tool' = [tool EXCEPT ![t] = s] /\ s.pc = "kernel" /\ s.req = tool[t].req
    BY <1>1, GoesOn DEF IInv, ToKernel
  <1> HIDE DEF s
  <1>3. /\ Pending' = Pending \cup {t} /\ t \notin Pending
        /\ tool'[t].req = tool[t].req /\ tool'[t].pc = "kernel"
        /\ \A u \in Pending : tool'[u] = tool[u]
    <2>1. /\ tool'[t] = s /\ \A u \in Tools \ {t} : tool'[u] = tool[u]
          /\ Pending' = (Pending \ {t}) \cup (IF s.pc \in PendingPcs THEN {t} ELSE {})
      BY <1>2, ToolStep DEF IInv
    <2>2. t \notin Pending
      BY <1>1 DEF Pending
    <2>3. Pending \subseteq Tools /\ s.pc \in PendingPcs
      BY <1>2 DEF Pending, PendingPcs
    <2>4. QED
      BY <1>2, <2>1, <2>2, <2>3
  <1>4. /\ order' \in Seq(Tools) /\ Distinct(order') /\ Members(order') = Members(order) \cup {t}
        /\ \A u \in Members(order) : Pos(order', u) = Pos(order, u) /\ Pos(order', u) < Pos(order', t)
    BY <1>1, <1>3, Appended DEF IInv, OrderInv
  <1>5. OrderInv'
    BY <1>3, <1>4 DEF IInv, OrderInv
  <1>6. /\ About(t)' = About(t) /\ \A u \in Pending : About(u)' = About(u)
        /\ PendingKeys' = PendingKeys \cup About(t)
    <2>1. About(t)' = About(t) /\ \A u \in Pending : About(u)' = About(u)
      BY <1>3 DEF About
    <2>2. QED
      BY <1>3, <2>1 DEF PendingKeys
  <1>7. /\ \A u \in Pending : Position(u)' = Position(u) /\ Position(u)' < Position(t)'
        /\ \A u \in Pending : Position(u) \in Nat
    <2>1. \A u : Position(u)' = Pos(order', u)
      BY DEF Position, Pos
    <2>2. \A u \in Pending : u \in Members(order) /\ Position(u) = Pos(order, u) /\ Position(u) \in Nat
      BY Positions DEF IInv, OrderInv
    <2>3. QED
      BY <1>4, <2>1, <2>2
  <1>8. \A k \in Keys \ stale' : k \notin stale \/ (k \in About(t) /\ k \notin PendingKeys
                                                    /\ Effect(tool[t].req) = NoGroup)
    BY DEF ToKernel, Effect
  <1> SUFFICES ASSUME NEW k \in Keys \ stale' PROVE
        /\ k \notin PendingKeys' => running'.group[k] = group'[k]
        /\ \A v \in Pending' : k \in About(v)' =>
             /\ (\A u \in Pending' : k \in About(u)' => Position(u)' <= Position(v)') =>
                  running'.group[k] = Effect(tool'[v].req)
             /\ tool'[v].pc = "undo" =>
                  /\ tool'[v].req.cmd = "add" /\ group'[k] = NoGroup
                  /\ \A u \in Pending' : k \in About(u)' => Position(v)' <= Position(u)'
    BY <1>5 DEF SyncInv
  <1>9. ASSUME k \notin PendingKeys' PROVE running'.group[k] = group'[k]
    BY <1>1, <1>6, <1>8, <1>9 DEF IInv, SyncInv
  <1>10. ASSUME NEW v \in Pending', k \in About(v)',
                \A u \in Pending' : k \in About(u)' => Position(u)' <= Position(v)'
         PROVE  running'.group[k] = Effect(tool'[v].req)
    <2>1. CASE v = t
      BY <1>3, <1>6, <1>10, <2>1
    <2>2. CASE v # t
      <3>1. v \in Pending /\ k \in About(v) /\ k \in PendingKeys /\ k \notin stale
        BY <1>3, <1>6, <1>8, <1>10, <2>2 DEF PendingKeys
      <3>2. k \notin About(t)
        <4>1. Position(v)' < Position(t)' /\ Position(v)' \in Nat /\ t \in Pending'
          BY <1>3, <1>7, <3>1
        <4>2. Position(t)' \in Nat
          <5>1. Pos(order', t) \in 1 .. Len(order')
            BY <1>4, PosOf
          <5>2. QED
            BY <1>4, <5>1 DEF Position, Pos
        <4>3. QED
          BY <1>6, <1>10, <4>1, <4>2
      <3>3. \A u \in Pending : k \in About(u) => Position(u) <= Position(v)
        BY <1>3, <1>6, <1>7, <1>10, <3>1
      <3>4. QED
        BY <1>3, <3>1, <3>2, <3>3 DEF IInv, SyncInv
    <2>3. QED
      BY <2>1, <2>2
  <1>11. ASSUME NEW v \in Pending', k \in About(v)', tool'[v].pc = "undo"
         PROVE  /\ tool'[v].req.cmd = "add" /\ group'[k] = NoGroup
                /\ \A u \in Pending' : k \in About(u)' => Position(v)' <= Position(u)'
    <2>1. v \in Pending /\ k \in About(v) /\ tool[v].pc = "undo" /\ tool'[v] = tool[v]
      BY <1>3, <1>6, <1>11
    <2>2. k \in PendingKeys /\ k \notin stale
      BY <1>8, <2>1 DEF PendingKeys
    <2>3. /\ tool[v].req.cmd = "add" /\ group[k] = NoGroup
          /\ \A u \in Pending : k \in About(u) => Position(v) <= Position(u)
      BY <2>1, <2>2 DEF IInv, SyncInv
    <2>4. ASSUME NEW u \in Pending', k \in About(u)' PROVE Position(v)' <= Position(u)'
      <3>1. CASE u = t
        <4>1. Position(t)' \in Nat
          <5>1. Pos(order', t) \in 1 .. Len(order')
            BY <1>4, PosOf
          <5>2. QED
            BY <1>4, <5>1 DEF Position, Pos
        <4>2. QED
          BY <1>7, <2>1, <3>1, <4>1
      <3>2. CASE u # t
        BY <1>3, <1>6, <1>7, <2>1, <2>3, <2>4, <3>2
      <3>3. QED
        BY <3>1, <3>2
    <2>5. QED
      BY <1>1, <2>1, <2>3, <2>4
  <1>12. QED
    BY <1>9, <1>10, <1>11

\* t is through: it leaves the order, and on each key it was about
\*   either its request has become true in the kernel, with no tool before it,
\*   or its change has been taken back, with no tool after it.
LEMMA SyncEnds ==
  ASSUME IInv, NEW t \in Pending, Ends(t), stale \subseteq stale',
         \A k \in Keys \ stale' :
           \/ k \notin About(t) /\ running'.group[k] = running.group[k] /\ group'[k] = group[k]
           \/ /\ k \in About(t) /\ tool[t].pc # "undo" /\ k \notin SharedBefore(t)
              /\ running'.group[k] = running.group[k] /\ group'[k] = Effect(tool[t].req)
           \/ /\ k \in About(t) /\ tool[t].pc = "undo" /\ k \notin SharedAfter(t)
              /\ running'.group[k] = NoGroup /\ group'[k] = group[k]
  PROVE  OrderInv' /\ SyncInv'
  <1>1. t \in Tools /\ tool' = [tool EXCEPT ![t] = Idle] /\ order' = RemoveAt(order, Pos(order, t))
    BY DEF Ends, Pending, Position, Pos
  <1>2. Pending' = Pending \ {t} /\ \A u \in Pending \ {t} : tool'[u] = tool[u]
    <2>1. /\ \A u \in Tools \ {t} : tool'[u] = tool[u]
          /\ Pending' = (Pending \ {t}) \cup (IF Idle.pc \in PendingPcs THEN {t} ELSE {})
      BY <1>1, IdleOK, ToolStep DEF IInv
    <2>2. Idle.pc \notin PendingPcs /\ Pending \subseteq Tools
      BY IdleOK DEF Pending, PendingPcs
    <2>3. QED
      BY <2>1, <2>2
  <1>3. /\ order' \in Seq(Tools) /\ Distinct(order') /\ Members(order') = Members(order) \ {t}
        /\ \A u, v \in Members(order') :
             Pos(order', u) < Pos(order', v) <=> Pos(order, u) < Pos(order, v)
    BY <1>1, Removed DEF IInv, OrderInv
  <1>4. OrderInv'
    BY <1>2, <1>3 DEF IInv, OrderInv
  <1>5. \A u \in Pending' : About(u)' = About(u) /\ tool'[u] = tool[u]
    BY <1>2 DEF About
  <1>6. \A u, v \in Pending' : Position(u)' <= Position(v)' <=> Position(u) <= Position(v)
    <2>1. \A u : Position(u)' = Pos(order', u) /\ Position(u) = Pos(order, u)
      BY DEF Position, Pos
    <2>2. \A u \in Pending' : /\ u \in Members(order') /\ Pos(order', u) \in 1 .. Len(order')
                              /\ u \in Members(order) /\ Pos(order, u) \in 1 .. Len(order)
      BY <1>2, <1>3, PosOf DEF IInv, OrderInv
    <2>3. Len(order) \in Nat /\ Len(order') \in Nat
      BY <1>3 DEF IInv, OrderInv
    <2>4. ASSUME NEW u \in Pending', NEW v \in Pending'
          PROVE  Position(u)' <= Position(v)' <=> Position(u) <= Position(v)
      <3>1. Pos(order', v) < Pos(order', u) <=> Pos(order, v) < Pos(order, u)
        BY <1>3, <2>2
      <3>2. QED
        BY <2>1, <2>2, <2>3, <3>1
    <2>5. QED
      BY <2>4
  <1>7. \A u, v \in Pending : /\ Position(u) \in Nat
                              /\ Position(u) = Position(v) => u = v
    BY Positions DEF IInv
  <1> SUFFICES ASSUME NEW k \in Keys \ stale' PROVE
        /\ k \notin PendingKeys' => running'.group[k] = group'[k]
        /\ \A v \in Pending' : k \in About(v)' =>
             /\ (\A u \in Pending' : k \in About(u)' => Position(u)' <= Position(v)') =>
                  running'.group[k] = Effect(tool'[v].req)
             /\ tool'[v].pc = "undo" =>
                  /\ tool'[v].req.cmd = "add" /\ group'[k] = NoGroup
                  /\ \A u \in Pending' : k \in About(u)' => Position(v)' <= Position(u)'
    BY <1>4 DEF SyncInv
  <1>8. k \in Keys \ stale
    OBVIOUS
  \* What SyncInv says of k before the step.
  <1>9. /\ k \notin PendingKeys => running.group[k] = group[k]
        /\ \A v \in Pending : k \in About(v) =>
             /\ (\A u \in Pending : k \in About(u) => Position(u) <= Position(v)) =>
                  running.group[k] = Effect(tool[v].req)
             /\ tool[v].pc = "undo" =>
                  /\ tool[v].req.cmd = "add" /\ group[k] = NoGroup
                  /\ \A u \in Pending : k \in About(u) => Position(v) <= Position(u)
    BY <1>8 DEF IInv, SyncInv
  <1>10. PendingKeys' = UNION {About(u) : u \in Pending \ {t}}
    BY <1>2, <1>5 DEF PendingKeys
  <1>11. CASE k \notin About(t) /\ running'.group[k] = running.group[k] /\ group'[k] = group[k]
    <2>1. k \in PendingKeys <=> k \in PendingKeys'
      BY <1>10, <1>11 DEF PendingKeys
    <2>2. ASSUME NEW v \in Pending', k \in About(v)',
                 \A u \in Pending' : k \in About(u)' => Position(u)' <= Position(v)'
          PROVE  running'.group[k] = Effect(tool'[v].req)
      <3>1. v \in Pending /\ k \in About(v) /\ tool'[v] = tool[v]
        BY <1>2, <1>5, <2>2
      <3>2. \A u \in Pending : k \in About(u) => Position(u) <= Position(v)
        BY <1>2, <1>5, <1>6, <1>11, <2>2
      <3>3. QED
        BY <1>9, <1>11, <3>1, <3>2
    <2>3. ASSUME NEW v \in Pending', k \in About(v)', tool'[v].pc = "undo"
          PROVE  /\ tool'[v].req.cmd = "add" /\ group'[k] = NoGroup
                 /\ \A u \in Pending' : k \in About(u)' => Position(v)' <= Position(u)'
      <3>1. v \in Pending /\ k \in About(v) /\ tool'[v] = tool[v]
        BY <1>2, <1>5, <2>3
      <3>2. QED
        BY <1>2, <1>5, <1>6, <1>9, <1>11, <2>3, <3>1
    <2>4. QED
      BY <1>9, <1>11, <2>1, <2>2, <2>3
  <1>12. CASE /\ k \in About(t) /\ tool[t].pc # "undo" /\ k \notin SharedBefore(t)
              /\ running'.group[k] = running.group[k] /\ group'[k] = Effect(tool[t].req)
    <2>1. \A u \in Pending : k \in About(u) => Position(t) <= Position(u)
      BY <1>1, <1>7, <1>12, Sharing DEF IInv
    <2>2. ASSUME k \notin PendingKeys' PROVE running'.group[k] = group'[k]
      <3>1. \A u \in Pending : k \in About(u) => u = t
        BY <1>10, <2>2
      <3>2. \A u \in Pending : k \in About(u) => Position(u) <= Position(t)
        BY <1>7, <3>1
      <3>3. QED
        BY <1>9, <1>12, <3>2
    <2>3. ASSUME NEW v \in Pending', k \in About(v)',
                 \A u \in Pending' : k \in About(u)' => Position(u)' <= Position(v)'
          PROVE  running'.group[k] = Effect(tool'[v].req)
      <3>1. v \in Pending /\ k \in About(v) /\ tool'[v] = tool[v]
        BY <1>2, <1>5, <2>3
      <3>2. \A u \in Pending : k \in About(u) => Position(u) <= Position(v)
        BY <1>2, <1>5, <1>6, <2>1, <2>3, <3>1
      <3>3. QED
        BY <1>9, <1>12, <3>1, <3>2
    <2>4. ASSUME NEW v \in Pending', k \in About(v)', tool'[v].pc = "undo"
          PROVE  FALSE
      <3>1. v \in Pending /\ k \in About(v) /\ tool[v].pc = "undo" /\ v # t
        BY <1>2, <1>5, <2>4
      <3>2. Position(v) <= Position(t) /\ Position(t) <= Position(v)
        BY <1>9, <1>12, <2>1, <3>1
      <3>3. QED
        BY <1>7, <3>1, <3>2
    <2>5. QED
      BY <2>2, <2>3, <2>4
  <1>13. CASE /\ k \in About(t) /\ tool[t].pc = "undo" /\ k \notin SharedAfter(t)
              /\ running'.group[k] = NoGroup /\ group'[k] = group[k]
    <2>1. group[k] = NoGroup /\ \A u \in Pending : k \in About(u) => Position(t) <= Position(u)
      BY <1>9, <1>13
    <2>2. \A u \in Pending : k \in About(u) => Position(u) <= Position(t)
      BY <1>1, <1>7, <1>13, Sharing DEF IInv
    <2>3. \A u \in Pending : k \in About(u) => u = t
      BY <1>7, <2>1, <2>2
    <2>4. k \notin PendingKeys' /\ \A u \in Pending' : k \notin About(u)'
      BY <1>2, <1>5, <1>10, <2>3
    <2>5. QED
      BY <1>13, <2>1, <2>4
  <1>14. QED
    BY <1>11, <1>12, <1>13

\* t goes to the state s and stays in, or out of, the order.
LEMMA SamePending ==
  ASSUME TypeInv, NEW t \in Tools, NEW s, ToolOK(s), tool' = [tool EXCEPT ![t] = s],
         t \in Pending <=> s.pc \in PendingPcs,
         t \in Pending => s.req = tool[t].req
  PROVE  /\ Pending' = Pending /\ \A u \in Pending : tool'[u].req = tool[u].req
         /\ \A u \in Pending : tool'[u].pc = "undo" /\ tool[u].pc # "undo" => u = t /\ s.pc = "undo"
  <1>1. /\ tool'[t] = s /\ \A u \in Tools \ {t} : tool'[u] = tool[u]
        /\ Pending' = (Pending \ {t}) \cup (IF s.pc \in PendingPcs THEN {t} ELSE {})
    BY ToolStep
  <1>2. Pending \subseteq Tools
    BY DEF Pending
  <1>3. QED
    BY <1>1, <1>2

LEMMA SyncFile ==
  ASSUME IInv, NEW t \in Tools,
         \/ \E req \in Requests : Begins(t, req)
         \/ ConfigAdds(t) \/ ConfigDeletes(t) \/ ConfigClears(t) \/ ConfigRefuses(t)
  PROVE  OrderInv' /\ SyncInv'
  <1>1. /\ TypeInv /\ ToolOK(Idle) /\ Idle.pc = "idle" /\ tool[t].req \in Requests
        /\ running \in [array : BOOLEAN, group : [Keys -> Groups \cup {NoGroup, ZeroAddress}]]
        /\ About(t) = KeySet(tool[t].req)
    BY ToolFacts, IdleOK DEF IInv, TypeInv
  <1>2. ASSUME NEW req \in Requests, Begins(t, req) PROVE OrderInv' /\ SyncInv'
    <2> DEFINE s == IF req.cmd = "read" THEN Idle ELSE [pc |-> "config", req |-> req]
    <2>1. ToolOK(s) /\ s.pc \notin PendingPcs
      BY <1>1 DEF ToolOK, ToolStates, Pcs, PendingPcs
    <2>2. tool' = [tool EXCEPT ![t] = s] /\ tool[t].pc = "idle"
      BY <1>2 DEF Begins
    <2>3. t \notin Pending
      BY <2>2 DEF Pending
    <2> HIDE DEF s
    <2>4. running'.group = running.group /\ UNCHANGED <<group, order, stale>>
      BY <1>1, <1>2 DEF Begins, kernelVars
    <2>5. s.pc # "undo"
      BY <2>1 DEF PendingPcs
    <2>6. QED
      BY <1>1, <2>1, <2>2, <2>3, <2>4, <2>5, SamePending, SyncStays
  <1>3. ASSUME ConfigAdds(t) PROVE OrderInv' /\ SyncInv'
    <2> DEFINE k == tool[t].req.key
    <2>1. About(t) = {k} /\ k \in Keys /\ Effect(tool[t].req) = tool[t].req.multi_ip
      BY <1>1, <1>3, RequestFields DEF ConfigAdds, Effect
    <2>2. running'.group = [running.group EXCEPT ![k] = tool[t].req.multi_ip]
      BY <1>1, <1>3 DEF ConfigAdds, Entry
    <2> HIDE DEF k
    <2>3. \A j \in Keys : running'.group[j] = IF j \in About(t) THEN Effect(tool[t].req)
                                               ELSE running.group[j]
      BY <1>1, <2>1, <2>2
    <2>4. QED
      BY <1>3, <2>3, SyncAppends DEF ConfigAdds
  <1>4. ASSUME ConfigDeletes(t) PROVE OrderInv' /\ SyncInv'
    <2> DEFINE k == tool[t].req.key
    <2>1. About(t) = {k} /\ k \in Keys /\ Effect(tool[t].req) = NoGroup
      BY <1>1, <1>4, RequestFields DEF ConfigDeletes, Effect
    <2>2. running'.group = [running.group EXCEPT ![k] = NoGroup]
      BY <1>1, <1>4 DEF ConfigDeletes, Entry
    <2> HIDE DEF k
    <2>3. \A j \in Keys : running'.group[j] = IF j \in About(t) THEN Effect(tool[t].req)
                                               ELSE running.group[j]
      BY <1>1, <2>1, <2>2
    <2>4. QED
      BY <1>4, <2>3, SyncAppends DEF ConfigDeletes
  <1>5. ASSUME ConfigClears(t) PROVE OrderInv' /\ SyncInv'
    <2>1. About(t) = Keys /\ Effect(tool[t].req) = NoGroup
      BY <1>1, <1>5, RequestFields DEF ConfigClears, Effect
    <2>2. \A j \in Keys : running'.group[j] = NoGroup
      BY <1>5, FileCut DEF ConfigClears
    <2>3. QED
      BY <1>5, <2>1, <2>2, SyncAppends DEF ConfigClears
  <1>6. ASSUME ConfigRefuses(t) PROVE OrderInv' /\ SyncInv'
    <2>1. tool' = [tool EXCEPT ![t] = Idle] /\ UNCHANGED <<group, running, order, stale>>
      BY <1>6 DEF ConfigRefuses, kernelVars
    <2>2. t \notin Pending /\ Idle.pc \notin PendingPcs /\ Idle.pc # "undo"
      BY <1>1, <1>6 DEF ConfigRefuses, Pending, PendingPcs
    <2>3. QED
      BY <1>1, <2>1, <2>2, SamePending, SyncStays
  <1>7. QED
    BY <1>2, <1>3, <1>4, <1>5, <1>6

\* t has to take its change back.
LEMMA SyncFails ==
  ASSUME IInv, NEW t \in Pending, tool[t].req.cmd # "clear", Failed(t), group' = group,
         stale \subseteq stale',
         \A k \in About(t) \ stale' : /\ tool[t].req.cmd = "add" /\ group[k] = NoGroup
                                      /\ k \notin SharedBefore(t)
  PROVE  OrderInv' /\ SyncInv'
  <1> DEFINE s == [tool[t] EXCEPT !.pc = "undo"]
  <1>1. t \in Tools /\ tool[t].pc # "idle" /\ TypeInv
    BY DEF Pending, IInv
  <1>2. ToolOK(s) /\ tool' = [tool EXCEPT ![t] = s] /\ s.pc = "undo" /\ s.req = tool[t].req
    BY <1>1, GoesOn DEF Failed
  <1> HIDE DEF s
  <1>3. /\ Pending' = Pending /\ \A u \in Pending : tool'[u].req = tool[u].req
        /\ \A u \in Pending : tool'[u].pc = "undo" /\ tool[u].pc # "undo" => u = t
    BY <1>1, <1>2, SamePending DEF PendingPcs
  <1>4. order' = order /\ running' = running
    BY DEF Failed
  <1>5. QED
    BY <1>3, <1>4, SyncStays

LEMMA SyncKernel ==
  ASSUME IInv, NEW t \in Tools, TellsKernel(t)
  PROVE  OrderInv' /\ SyncInv'
  <1>1. /\ TypeInv /\ tool[t].req \in Requests /\ About(t) = KeySet(tool[t].req)
        /\ group \in [Keys -> Groups \cup {NoGroup}]
    BY ToolFacts DEF IInv, TypeInv
  <1>2. t \in Pending /\ tool[t].pc # "undo"
    BY DEF TellsKernel, KernelHasRoom, KernelFull, KernelBinds, KernelExists, KernelUnbinds,
           KernelMissing, KernelClears, At, Pending
  <1>3. CASE KernelHasRoom(t)
    <2> DEFINE s == [tool[t] EXCEPT !.pc = "room"]
    <2>1. ToolOK(s) /\ tool' = [tool EXCEPT ![t] = s] /\ s.pc = "room" /\ s.req = tool[t].req
      BY <1>1, <1>3, GoesOn DEF KernelHasRoom, At
    <2> HIDE DEF s
    <2>2. UNCHANGED <<group, running, order, stale>>
      BY <1>3 DEF KernelHasRoom, kernelVars
    <2>3. /\ Pending' = Pending /\ \A u \in Pending : tool'[u].req = tool[u].req
          /\ \A u \in Pending : ~(tool'[u].pc = "undo" /\ tool[u].pc # "undo")
      BY <1>1, <1>2, <2>1, SamePending DEF PendingPcs
    <2>4. QED
      BY <2>2, <2>3, SyncStays
  <1>4. CASE KernelFull(t)
    <2>1. /\ Failed(t) /\ group' = group /\ tool[t].req.cmd = "add"
          /\ stale' = stale \cup SharedBefore(t) \cup (About(t) \cap BoundKeys)
      BY <1>4 DEF KernelFull, AbsNoRoom, At
    <2>2. \A k \in About(t) \ stale' : group[k] = NoGroup /\ k \notin SharedBefore(t)
      BY <1>1, <2>1, RequestFields DEF BoundKeys
    <2>3. QED
      BY <1>2, <2>1, <2>2, SyncFails
  <1>5. CASE KernelExists(t)
    BY <1>2, <1>5, SyncFails DEF KernelExists, AbsBoundAlready, At
  <1>6. CASE KernelMissing(t)
    BY <1>2, <1>6, SyncFails DEF KernelMissing, AbsMissing, At
  <1>7. ASSUME Done(t), \A k \in Keys : group'[k] = IF k \in About(t) THEN Effect(tool[t].req)
                                                     ELSE group[k]
        PROVE  OrderInv' /\ SyncInv'
    BY <1>2, <1>7, SyncEnds DEF Done
  <1>8. CASE KernelBinds(t)
    <2> DEFINE k == tool[t].req.key
    <2>1. About(t) = {k} /\ k \in Keys /\ Effect(tool[t].req) = tool[t].req.multi_ip
      BY <1>1, <1>8, RequestFields DEF KernelBinds, At, Effect
    <2>2. group' = [group EXCEPT ![k] = tool[t].req.multi_ip] /\ Done(t)
      BY <1>8 DEF KernelBinds, AbsBind
    <2> HIDE DEF k
    <2>3. QED
      BY <1>1, <1>7, <2>1, <2>2
  <1>9. CASE KernelUnbinds(t)
    <2> DEFINE k == tool[t].req.key
    <2>1. About(t) = {k} /\ k \in Keys /\ Effect(tool[t].req) = NoGroup
      BY <1>1, <1>9, RequestFields DEF KernelUnbinds, At, Effect
    <2>2. group' = [group EXCEPT ![k] = NoGroup] /\ Done(t)
      BY <1>9 DEF KernelUnbinds, AbsUnbind
    <2> HIDE DEF k
    <2>3. QED
      BY <1>1, <1>7, <2>1, <2>2
  <1>10. CASE KernelClears(t)
    <2>1. About(t) = Keys /\ Effect(tool[t].req) = NoGroup
      BY <1>1, <1>10, RequestFields DEF KernelClears, At, Effect
    <2>2. group' = [k \in Keys |-> NoGroup] /\ Done(t)
      BY <1>10 DEF KernelClears, AbsClear
    <2>3. QED
      BY <1>7, <2>1, <2>2
  <1>11. QED
    BY <1>3, <1>4, <1>5, <1>6, <1>8, <1>9, <1>10 DEF TellsKernel

LEMMA SyncUndo ==
  ASSUME IInv, NEW t \in Tools,
         UndoesAdd(t) \/ UndoesDelete(t) \/ Unreachable(t) \/ Killed(t)
  PROVE  OrderInv' /\ SyncInv'
  <1>1. /\ TypeInv /\ tool[t].req \in Requests /\ About(t) = KeySet(tool[t].req)
        /\ running \in [array : BOOLEAN, group : [Keys -> Groups \cup {NoGroup, ZeroAddress}]]
        /\ ~running.array => Entries = {}
        /\ ToolOK(Idle) /\ ToolOK(tool[t])
    BY ToolFacts, IdleOK DEF IInv, TypeInv
  <1>2. group' = group
    BY DEF UndoesAdd, UndoesDelete, Unreachable, Killed, kernelVars
  <1>3. CASE UndoesAdd(t)
    <2> DEFINE k == tool[t].req.key
    <2>1. /\ About(t) = {k} /\ k \in Keys /\ t \in Pending /\ tool[t].pc = "undo"
          /\ Ends(t) /\ stale' = stale \cup SharedAfter(t)
      BY <1>1, <1>3, RequestFields DEF UndoesAdd, At, Pending
    <2>2. running'.group[k] = NoGroup /\ \A j \in Keys \ {k} : running'.group[j] = running.group[j]
      <3>1. CASE DelRefused(k)
        <4>1. running' = running /\ k \notin Entries
          BY <1>1, <1>3, <3>1 DEF UndoesAdd, DelRefused
        <4>2. QED
          BY <2>1, <4>1 DEF Entries
      <3>2. CASE ~DelRefused(k)
        <4>1. running' = [running EXCEPT !.group[k] = NoGroup]
          BY <1>3, <3>2 DEF UndoesAdd, Entry
        <4> HIDE DEF k
        <4>2. running'.group = [running.group EXCEPT ![k] = NoGroup]
          BY <1>1, <4>1
        <4>3. QED
          BY <1>1, <2>1, <4>2
      <3>3. QED
        BY <3>1, <3>2
    <2> HIDE DEF k
    <2>3. QED
      BY <1>2, <2>1, <2>2, SyncEnds
  <1>4. CASE UndoesDelete(t)
    <2> DEFINE k == tool[t].req.key
               g == tool[t].req.multi_ip
    <2>1. /\ About(t) = {k} /\ k \in Keys /\ t \in Pending
          /\ Ends(t) /\ stale' = stale \cup About(t)
      BY <1>1, <1>4, RequestFields DEF UndoesDelete, At, Pending
    <2>2. running' = running \/ running' = [running EXCEPT !.group[k] = g]
      BY <1>4 DEF UndoesDelete, Entry
    <2> HIDE DEF k, g
    <2>3. \A j \in Keys \ {k} : running'.group[j] = running.group[j]
      <3>1. CASE running' = [running EXCEPT !.group[k] = g]
        <4>1. running'.group = [running.group EXCEPT ![k] = g]
          BY <1>1, <3>1
        <4>2. QED
          BY <1>1, <4>1
      <3>2. QED
        BY <2>2, <3>1
    <2>4. QED
      BY <1>2, <2>1, <2>3, SyncEnds
  <1>5. CASE Unreachable(t)
    <2>1. t \in Pending /\ stale' = stale \cup About(t)
      BY <1>5 DEF Unreachable, Pending
    <2>2. CASE tool[t].req.cmd = "clear"
      <3>1. Ends(t) /\ \A k \in Keys \ stale' : FALSE
        BY <1>1, <1>5, <2>1, <2>2, RequestFields DEF Unreachable
      <3>2. QED
        BY <2>1, <3>1, SyncEnds
    <2>3. CASE tool[t].req.cmd # "clear"
      BY <1>2, <1>5, <2>1, <2>3, SyncFails DEF Unreachable
    <2>4. QED
      BY <2>2, <2>3
  <1>6. CASE Killed(t)
    <2>1. CASE t \in Pending
      <3>1. Ends(t) /\ \/ stale' = stale \cup About(t) /\ running' = running
                       \/ stale' = Keys
        BY <1>6, <2>1 DEF Killed
      <3>2. stale \subseteq Keys
        BY <1>1 DEF TypeInv
      <3>3. QED
        BY <1>2, <2>1, <3>1, <3>2, SyncEnds
    <2>2. CASE t \notin Pending
      <3>1. tool' = [tool EXCEPT ![t] = Idle] /\ order' = order
            /\ \/ stale' = stale /\ running' = running
               \/ stale' = Keys
        BY <1>6, <2>2 DEF Killed, Ends
      <3>2. Idle.pc \notin PendingPcs /\ Idle.pc # "undo"
        BY IdleOK DEF PendingPcs
      <3>3. /\ Pending' = Pending /\ \A u \in Pending : tool'[u].req = tool[u].req
            /\ \A u \in Pending : tool'[u].pc = "undo" /\ tool[u].pc # "undo" =>
                                    u = t /\ Idle.pc = "undo"
        <4>1. /\ tool' = [tool EXCEPT ![t] = Idle] /\ TypeInv /\ ToolOK(Idle)
              /\ t \in Pending <=> Idle.pc \in PendingPcs
              /\ t \in Pending => Idle.req = tool[t].req
          BY <1>1, <2>2, <3>1, <3>2
        <4>2. QED
          BY <4>1, SamePending
      <3>4. \A k \in Keys \ stale' : k \notin stale /\ running' = running
        BY <3>1
      <3>5. QED
        BY <1>2, <3>1, <3>2, <3>3, <3>4, SyncStays
    <2>3. QED
      BY <2>1, <2>2
  <1>7. QED
    BY <1>3, <1>4, <1>5, <1>6

-----------------------------------------------------------------------------
(* The theorems                                                            *)

LEMMA InitIInv == AdminInit => IInv
  <1> SUFFICES ASSUME AdminInit PROVE IInv
    OBVIOUS
  <1>1. Pending = {} /\ PendingKeys = {} /\ Members(order) = {}
    BY IdleOK DEF AdminInit, Pending, PendingKeys, Members
  <1>2. Entries = {} /\ Cardinality(Entries) <= GrpMax
    <2>1. Entries = {}
      BY DEF AdminInit, Entries, NoEntries
    <2>2. QED
      BY <2>1, FS_EmptySet, ClientAdminAssumption
  <1>3. TypeInv
    BY <1>2, IdleOK DEF AdminInit, AbsInit, TypeInv, NoEntries
  <1>4. OrderInv
    BY <1>1 DEF AdminInit, OrderInv, Distinct
  <1>5. SyncInv
    BY <1>1 DEF AdminInit, AbsInit, NoEntries, SyncInv
  <1>6. QED
    BY <1>3, <1>4, <1>5 DEF IInv

LEMMA NextIInv == IInv /\ [AdminNext]_adminVars => IInv'
  <1> SUFFICES ASSUME IInv, [AdminNext]_adminVars PROVE IInv'
    OBVIOUS
  <1>1. CASE AdminNext
    <2>1. PICK t \in Tools :
            \/ \/ \E req \in Requests : Begins(t, req)
               \/ ConfigAdds(t) \/ ConfigDeletes(t) \/ ConfigClears(t) \/ ConfigRefuses(t)
            \/ TellsKernel(t)
            \/ UndoesAdd(t) \/ UndoesDelete(t) \/ Unreachable(t) \/ Killed(t)
      BY <1>1 DEF AdminNext, TellsKernel
    <2>2. TypeInv'
      BY <2>1, TypesFile, TypesKernel, TypesUndo DEF IInv
    <2>3. OrderInv' /\ SyncInv'
      BY <2>1, SyncFile, SyncKernel, SyncUndo
    <2>4. QED
      BY <2>2, <2>3 DEF IInv
  <1>2. CASE UNCHANGED adminVars
    <2>1. UNCHANGED <<group, running, tool, order, stale>>
      BY <1>2 DEF adminVars, kernelVars
    <2>2. TypeInv' /\ OrderInv'
      BY <2>1 DEF IInv, TypeInv, OrderInv, Entries, Pending
    <2>3. SyncInv'
      BY <2>1 DEF IInv, SyncInv, Pending, PendingKeys, About, Position
    <2>4. QED
      BY <2>2, <2>3 DEF IInv
  <1>3. QED
    BY <1>1, <1>2

LEMMA InvariantIInv == AdminSpec => []IInv
  BY InitIInv, NextIInv, PTL DEF AdminSpec

\* File, kernel and tools keep their shapes; a file without the array has no entry and none
\* has more than GrpMax; and the order of multic_admin processes names each process between
\* the file and its end exactly once.
THEOREM ClientAdminTypes == AdminSpec => []AdminTypeOK
  <1>1. IInv => AdminTypeOK
    <2> SUFFICES ASSUME IInv PROVE AdminTypeOK
      OBVIOUS
    <2> DEFINE n == Len(order)
               f == [i \in 1 .. n |-> order[i]]
    <2>1. order \in Seq(Tools) /\ n \in Nat /\ Distinct(order) /\ Members(order) = Pending
      BY DEF IInv, OrderInv
    <2>2. f \in Bijection(1 .. n, Pending)
      <3>1. f \in Injection(1 .. n, Pending)
        BY <2>1 DEF Injection, IsInjective, Members, Distinct
      <3>2. f \in Surjection(1 .. n, Pending)
        BY <2>1 DEF Surjection, Members
      <3>3. QED
        BY <3>1, <3>2 DEF Bijection
    <2>3. IsFiniteSet(1 .. n) /\ Cardinality(1 .. n) = n
      BY <2>1, FS_Interval, SMTT(30)
    <2>4. Len(order) = Cardinality(Pending)
      BY <2>2, <2>3, FS_Bijection DEF ExistsBijection
    <2>5. \A i \in 1 .. Len(order) : order[i] \in Pending
      BY <2>1 DEF Members
    <2>6. \A t \in Tools : /\ tool[t].pc \in {"idle", "config", "kernel", "room", "undo"}
                           /\ tool[t].req \in Requests
      BY DEF IInv, TypeInv, ToolStates, Pcs, PendingPcs
    <2>7. QED
      BY <2>4, <2>5, <2>6 DEF AdminTypeOK, IInv, TypeInv
  <1>2. QED
    BY <1>1, InvariantIInv, PTL

\* multi_client_running_config and the kernel's table agree on every pair of a server and a
\* port that no multic_admin is between the two for, save those that an accident, a tool
\* overtaken by another, or a change wrongly taken back has parted since the last -D or -C.
THEOREM ClientFileInSync == AdminSpec => []InSyncUnlessStale
  <1>1. IInv => InSyncUnlessStale
    BY DEF IInv, SyncInv, InSyncUnlessStale
  <1>2. QED
    BY <1>1, InvariantIInv, PTL
=============================================================================
