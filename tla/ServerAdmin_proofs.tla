------------------------- MODULE ServerAdmin_proofs -------------------------
(***************************************************************************)
(* Proofs about the administration of the server (module ServerAdmin), for *)
(* any number of tools, groups and members and any sequence of commands,   *)
(* accidents, starts and stops.                                            *)
(***************************************************************************)
EXTENDS ServerAdmin, FiniteSetTheorems, TLAPS

-----------------------------------------------------------------------------
(* What a request does to one group                                        *)

\* What a file or a table has of group g.
Entry(c, g) == <<c.groups \cap {g}, c.members[g]>>
None == <<{}, {}>>

Concerns(req) == IF req.cmd = "clear" THEN Groups ELSE {req.g} \cap Groups

\* What becomes of the entry e of a group that the request concerns.
Effect(req, g, e) ==
  IF req.cmd = "join" THEN <<{g}, e[2] \cup req.R>>
  ELSE IF req.cmd = "quit" THEN <<e[1], e[2] \ req.R>>
  ELSE None

\* The file accepts the request when this is the entry of its group.
Allowed(req, e) ==
  /\ req.cmd = "join" /\ e[1] # {} => Cardinality(req.R) + Cardinality(e[2]) <= VmMax
  /\ req.cmd = "quit" => e[1] # {}

(***************************************************************************)
(* The requests q[1], ..., q[n] lead from a to b: there are entries ch[0]  *)
(* to ch[n] from the one to the other, and each request that concerns g    *)
(* was accepted on, and has its effect on, the entry before it.            *)
(***************************************************************************)
Links(ch, g, q, n) ==
  /\ \A i \in 1 .. n : g \in Concerns(q[i]) =>
       Allowed(q[i], ch[i - 1]) /\ ch[i] = Effect(q[i], g, ch[i - 1])
  /\ \A i, j \in 0 .. n : i <= j /\ (\A k \in i + 1 .. j : g \notin Concerns(q[k])) => ch[i] = ch[j]

Leads(a, b, g, q, n) == \E ch : ch[0] = a /\ ch[n] = b /\ Links(ch, g, q, n)

\* Requests about other groups lead nowhere.
LEMMA LeadsQuiet ==
  ASSUME NEW a, NEW b, NEW g, NEW q, NEW n \in Nat,
         \A i \in 1 .. n : g \notin Concerns(q[i])
  PROVE  Leads(a, b, g, q, n) <=> a = b
  <1>1. ASSUME a = b PROVE Leads(a, b, g, q, n)
    <2> DEFINE ch == [i \in 0 .. n |-> a]
    <2>1. ch[0] = a /\ ch[n] = b /\ Links(ch, g, q, n)
      BY <1>1 DEF Links
    <2>2. QED
      BY <2>1 DEF Leads
  <1>2. ASSUME Leads(a, b, g, q, n) PROVE a = b
    <2>1. PICK ch : ch[0] = a /\ ch[n] = b /\ Links(ch, g, q, n)
      BY <1>2 DEF Leads
    <2>2. 0 \in 0 .. n /\ n \in 0 .. n /\ \A k \in 0 + 1 .. n : g \notin Concerns(q[k])
      OBVIOUS
    <2>3. ch[0] = ch[n]
      BY <2>1, <2>2 DEF Links
    <2>4. QED
      BY <2>1, <2>3
  <1>3. QED
    BY <1>1, <1>2

\* One more request, at the end.
LEMMA LeadsAppend ==
  ASSUME NEW a, NEW b, NEW c, NEW g, NEW q, NEW r, NEW n \in Nat, Leads(a, b, g, q, n),
         \A i \in 1 .. n : r[i] = q[i],
         g \in Concerns(r[n + 1]) => Allowed(r[n + 1], b) /\ c = Effect(r[n + 1], g, b),
         g \notin Concerns(r[n + 1]) => c = b
  PROVE  Leads(a, c, g, r, n + 1)
  <1>1. PICK ch : ch[0] = a /\ ch[n] = b /\ Links(ch, g, q, n)
    BY DEF Leads
  <1> DEFINE new == [i \in 0 .. n + 1 |-> IF i <= n THEN ch[i] ELSE c]
  <1>2. new[0] = a /\ new[n + 1] = c
    BY <1>1
  <1>3. ASSUME NEW i \in 1 .. n + 1, g \in Concerns(r[i])
        PROVE  Allowed(r[i], new[i - 1]) /\ new[i] = Effect(r[i], g, new[i - 1])
    <2>1. CASE i = n + 1
      <3>1. new[i - 1] = b /\ new[i] = c
        BY <1>1, <2>1
      <3>2. QED
        BY <1>3, <2>1, <3>1
    <2>2. CASE i # n + 1
      <3>1. i \in 1 .. n /\ i - 1 \in 0 .. n /\ r[i] = q[i]
        BY <2>2
      <3>2. new[i - 1] = ch[i - 1] /\ new[i] = ch[i]
        BY <3>1
      <3>3. Allowed(q[i], ch[i - 1]) /\ ch[i] = Effect(q[i], g, ch[i - 1])
        BY <1>1, <1>3, <3>1 DEF Links
      <3>4. QED
        BY <3>1, <3>2, <3>3
    <2>3. QED
      BY <2>1, <2>2
  <1>4. ASSUME NEW i \in 0 .. n + 1, NEW j \in 0 .. n + 1, i <= j,
               \A k \in i + 1 .. j : g \notin Concerns(r[k])
        PROVE  new[i] = new[j]
    <2>1. \A m \in 0 .. n : i <= m /\ m <= j => new[i] = new[m]
      <3> SUFFICES ASSUME NEW m \in 0 .. n, i <= m, m <= j PROVE new[i] = new[m]
        OBVIOUS
      <3>1. i \in 0 .. n /\ \A k \in i + 1 .. m : k \in i + 1 .. j /\ k \in 1 .. n
        OBVIOUS
      <3>2. \A k \in i + 1 .. m : g \notin Concerns(q[k])
        BY <1>4, <3>1
      <3>3. ch[i] = ch[m]
        BY <1>1, <3>1, <3>2 DEF Links
      <3>4. QED
        BY <3>1, <3>3
    <2>2. CASE j = n + 1 /\ i # j
      <3>1. n + 1 \in i + 1 .. j /\ i <= n /\ n \in 0 .. n /\ n <= j
        BY <2>2
      <3>2. c = b
        BY <1>4, <3>1
      <3>3. new[i] = new[n]
        BY <2>1, <3>1
      <3>4. new[n] = b /\ new[j] = c
        BY <1>1, <2>2
      <3>5. QED
        BY <3>2, <3>3, <3>4
    <2>3. CASE j # n + 1
      <3>1. j \in 0 .. n /\ j <= j /\ i <= j
        BY <1>4, <2>3
      <3> HIDE DEF new
      <3>2. QED
        BY <2>1, <3>1
    <2>4. QED
      BY <2>2, <2>3
  <1>5. Links(new, g, r, n + 1)
    BY <1>3, <1>4 DEF Links
  <1>6. QED
    BY <1>2, <1>5 DEF Leads

\* A request about other groups taken out anywhere.
LEMMA LeadsWithout ==
  ASSUME NEW a, NEW b, NEW g, NEW q, NEW r, NEW n \in Nat, NEW p \in 1 .. n,
         Leads(a, b, g, q, n), g \notin Concerns(q[p]),
         \A i \in 1 .. n - 1 : r[i] = IF i < p THEN q[i] ELSE q[i + 1]
  PROVE  Leads(a, b, g, r, n - 1)
  <1>1. PICK ch : ch[0] = a /\ ch[n] = b /\ Links(ch, g, q, n)
    BY DEF Leads
  <1> DEFINE new == [i \in 0 .. n - 1 |-> IF i < p THEN ch[i] ELSE ch[i + 1]]
  <1>2. ch[p - 1] = ch[p]
    <2>1. p - 1 \in 0 .. n /\ p \in 0 .. n /\ p - 1 <= p /\ \A k \in (p - 1) + 1 .. p : k = p
      OBVIOUS
    <2>2. \A k \in (p - 1) + 1 .. p : g \notin Concerns(q[k])
      BY <2>1
    <2>3. QED
      BY <1>1, <2>1, <2>2 DEF Links
  <1>3. new[0] = a /\ new[n - 1] = b
    <2>1. new[0] = ch[0]
      OBVIOUS
    <2>2. new[n - 1] = ch[n]
      <3>1. CASE p = n
        BY <1>2, <3>1
      <3>2. CASE p # n
        BY <3>2
      <3>3. QED
        BY <3>1, <3>2
    <2>3. QED
      BY <1>1, <2>1, <2>2
  \* Where an index of the new chain comes from.
  <1> DEFINE Old(i) == IF i < p THEN i ELSE i + 1
  <1>4. ASSUME NEW i \in 1 .. n - 1, g \in Concerns(r[i])
        PROVE  Allowed(r[i], new[i - 1]) /\ new[i] = Effect(r[i], g, new[i - 1])
    <2>1. Old(i) \in 1 .. n /\ r[i] = q[Old(i)] /\ new[i] = ch[Old(i)]
      OBVIOUS
    <2>2. new[i - 1] = ch[Old(i) - 1]
      <3>1. CASE i = p
        <4>1. new[i - 1] = ch[p - 1] /\ Old(i) - 1 = p
          BY <3>1
        <4>2. QED
          BY <1>2, <4>1
      <3>2. CASE i # p
        BY <3>2
      <3>3. QED
        BY <3>1, <3>2
    <2>3. Allowed(q[Old(i)], ch[Old(i) - 1]) /\ ch[Old(i)] = Effect(q[Old(i)], g, ch[Old(i) - 1])
      <3> HIDE DEF Old
      <3>1. QED
        BY <1>1, <1>4, <2>1 DEF Links
    <2>4. QED
      BY <2>1, <2>2, <2>3
  <1>5. ASSUME NEW i \in 0 .. n - 1, NEW j \in 0 .. n - 1, i <= j,
               \A k \in i + 1 .. j : g \notin Concerns(r[k])
        PROVE  new[i] = new[j]
    <2>1. Old(i) \in 0 .. n /\ Old(j) \in 0 .. n /\ Old(i) <= Old(j)
      BY <1>5
    <2>2. ASSUME NEW k \in Old(i) + 1 .. Old(j), g \in Concerns(q[k]) PROVE FALSE
      <3>1. k # p
        BY <2>2
      <3>2. CASE k < p
        <4>1. k \in i + 1 .. j /\ k \in 1 .. n - 1 /\ r[k] = q[k]
          BY <1>5, <3>2
        <4>2. QED
          BY <1>5, <2>2, <4>1
      <3>3. CASE k > p
        <4>1. k - 1 \in i + 1 .. j /\ k - 1 \in 1 .. n - 1 /\ ~(k - 1 < p) /\ (k - 1) + 1 = k
          BY <1>5, <3>3
        <4>2. r[k - 1] = q[k]
          BY <4>1
        <4>3. QED
          BY <1>5, <2>2, <4>1, <4>2
      <3>4. QED
        BY <3>1, <3>2, <3>3
    <2>3. new[i] = ch[Old(i)] /\ new[j] = ch[Old(j)]
      OBVIOUS
    <2> HIDE DEF Old
    <2>4. ch[Old(i)] = ch[Old(j)]
      BY <1>1, <2>1, <2>2 DEF Links
    <2>5. QED
      BY <2>3, <2>4
  <1>6. Links(new, g, r, n - 1)
    BY <1>4, <1>5 DEF Links
  <1>7. QED
    BY <1>3, <1>6 DEF Leads

\* The first request that concerns g: it was accepted on what g is now, and when it has had
\* its effect the others lead on from there.
LEMMA LeadsFirst ==
  ASSUME NEW a, NEW b, NEW g, NEW q, NEW r, NEW n \in Nat, NEW p \in 1 .. n,
         Leads(a, b, g, q, n), g \in Concerns(q[p]),
         \A i \in 1 .. p - 1 : g \notin Concerns(q[i]),
         \A i \in 1 .. n - 1 : r[i] = IF i < p THEN q[i] ELSE q[i + 1]
  PROVE  Allowed(q[p], a) /\ Leads(Effect(q[p], g, a), b, g, r, n - 1)
  <1>1. PICK ch : ch[0] = a /\ ch[n] = b /\ Links(ch, g, q, n)
    BY DEF Leads
  <1>2. ch[p - 1] = a
    <2>1. 0 \in 0 .. n /\ p - 1 \in 0 .. n /\ 0 <= p - 1 /\ 0 + 1 = 1
      OBVIOUS
    <2>2. ch[0] = ch[p - 1]
      BY <1>1, <2>1 DEF Links
    <2>3. QED
      BY <1>1, <2>2
  <1>3. Allowed(q[p], a) /\ ch[p] = Effect(q[p], g, a)
    BY <1>1, <1>2 DEF Links
  <1> DEFINE new == [i \in 0 .. n - 1 |-> IF i < p THEN ch[p] ELSE ch[i + 1]]
  <1>4. new[0] = Effect(q[p], g, a) /\ new[n - 1] = b
    <2>1. new[0] = ch[p]
      OBVIOUS
    <2>2. new[n - 1] = ch[n]
      <3>1. CASE p = n
        BY <3>1
      <3>2. CASE p # n
        BY <3>2
      <3>3. QED
        BY <3>1, <3>2
    <2>3. QED
      BY <1>1, <1>3, <2>1, <2>2
  <1> DEFINE Old(i) == IF i < p THEN p ELSE i + 1
  <1>5. ASSUME NEW i \in 1 .. n - 1, g \in Concerns(r[i])
        PROVE  Allowed(r[i], new[i - 1]) /\ new[i] = Effect(r[i], g, new[i - 1])
    <2>1. ~(i < p)
      <3>1. i < p => i \in 1 .. p - 1 /\ r[i] = q[i]
        OBVIOUS
      <3>2. QED
        BY <1>5, <3>1
    <2>2. i + 1 \in 1 .. n /\ r[i] = q[i + 1] /\ new[i] = ch[i + 1] /\ (i + 1) - 1 = i
      BY <2>1
    <2>3. new[i - 1] = ch[i]
      BY <2>1
    <2>4. Allowed(q[i + 1], ch[(i + 1) - 1]) /\ ch[i + 1] = Effect(q[i + 1], g, ch[(i + 1) - 1])
      BY <1>1, <1>5, <2>2 DEF Links
    <2>5. QED
      BY <2>2, <2>3, <2>4
  <1>6. ASSUME NEW i \in 0 .. n - 1, NEW j \in 0 .. n - 1, i <= j,
               \A k \in i + 1 .. j : g \notin Concerns(r[k])
        PROVE  new[i] = new[j]
    <2>1. Old(i) \in 0 .. n /\ Old(j) \in 0 .. n /\ Old(i) <= Old(j)
      BY <1>6
    <2>2. ASSUME NEW k \in Old(i) + 1 .. Old(j), g \in Concerns(q[k]) PROVE FALSE
      <3>1. k > p
        BY <1>6
      <3>2. k - 1 \in i + 1 .. j /\ k - 1 \in 1 .. n - 1 /\ ~(k - 1 < p) /\ (k - 1) + 1 = k
        BY <1>6, <3>1
      <3>3. r[k - 1] = q[k]
        BY <3>2
      <3>4. QED
        BY <1>6, <2>2, <3>2, <3>3
    <2>3. new[i] = ch[Old(i)] /\ new[j] = ch[Old(j)]
      OBVIOUS
    <2> HIDE DEF Old
    <2>4. ch[Old(i)] = ch[Old(j)]
      BY <1>1, <2>1, <2>2 DEF Links
    <2>5. QED
      BY <2>3, <2>4
  <1>7. Links(new, g, r, n - 1)
    BY <1>5, <1>6 DEF Links
  <1>8. QED
    BY <1>3, <1>4, <1>7 DEF Leads

-----------------------------------------------------------------------------
(* Files, tools, and the order in which tools tell the kernel              *)

\* A configuration within its limits.
FileOK(c) ==
  /\ WellFormed(c)
  /\ Cardinality(c.groups) <= GrpMax
  /\ \A g \in Groups : c.members[g] \in Requests

Between == {"idle", "config", "kernel"}
Copying == {"init", "initfill", "edit", "editfill"}
Writing == {"initfill", "editfill"}

ToolStates == [pc : Between \cup Copying \cup {"open", "locked", "reopen"}, req : Commands,
               copy : Config, accepted : BOOLEAN, child : BOOLEAN, fd : Inodes \cup {NoFile},
               out : {"running", "startup", "gone"}]

ToolOK(s) ==
  /\ s \in ToolStates /\ FileOK(s.copy)
  /\ s.pc \in {"config", "reopen", "edit", "editfill", "kernel"} => s.req.cmd # "read"
  /\ s.pc \in Copying => s.copy.file # "absent"
  /\ s.pc \in {"edit", "editfill"} /\ s.accepted /\ s.req.cmd \in {"del", "clear"} =>
       \A g \in Concerns(s.req) : Entry(s.copy, g) = None
  /\ s.fd = NoFile <=> s.pc \in Between
  /\ s.out # "running" => s.pc \in Writing

\* Tools that have a copy of the configuration.
Writers == {t \in Tools : tool[t].pc \in Copying}

TypeInv ==
  /\ AbsTypeOK
  /\ FileOK(running) /\ FileOK(startup) /\ FileOK(saved) /\ FileOK(written) /\ at \in Inodes
  /\ tool \in [Tools -> ToolStates] /\ \A t \in Tools : ToolOK(tool[t])
  /\ loaded \in BOOLEAN /\ script \in {"idle", "load", "recover", "save", "clean"}
  /\ todo \subseteq Groups /\ stale \subseteq Groups /\ touched \subseteq Groups
  /\ served \in [groups : SUBSET Groups, members : [Groups -> SUBSET VMs], orderly : BOOLEAN]
  /\ ~loaded => groups = {} /\ members = [g \in Groups |-> {}]

\* The order names each tool that has yet to tell the kernel once.
OrderInv ==
  /\ order \in Seq(Tools)
  /\ \A i \in 1 .. Len(order) : order[i] \in Pending
  /\ \A i, j \in 1 .. Len(order) : order[i] = order[j] => i = j
  /\ \A t \in Pending : \E i \in 1 .. Len(order) : order[i] = t

\* A file has one holder of its lock; who writes another file than the running one has that
\* open no more; who has the running one open sees to it that it is there; and unless it is
\* being rewritten, the running configuration is what was written last.
LockInv == \A t, u \in Holders : tool[t].fd = tool[u].fd => t = u
OutInv ==
  \A t \in Tools : /\ tool[t].out # "running" => tool[t].fd # at
                   /\ tool[t].fd = at => running.file # "absent"
FileInv ==
  /\ Rewritten => running.file # "absent"
  /\ ~Rewritten => running = written

LEMMA VmSets ==
  ASSUME NEW S \in SUBSET VMs
  PROVE  IsFiniteSet(S) /\ Cardinality(S) \in Nat
  BY AdminAssumption, FS_Subset, FS_CardinalityType

LEMMA GroupSets ==
  ASSUME NEW S \in SUBSET Groups
  PROVE  IsFiniteSet(S) /\ Cardinality(S) \in Nat
  BY AdminAssumption, FS_Subset, FS_CardinalityType

LEMMA EmptyRequest == {} \in Requests /\ Cardinality({}) = 0
  BY FS_EmptySet, AdminAssumption DEF Requests

LEMMA CommandFields ==
  ASSUME NEW req \in Commands
  PROVE  /\ req.cmd \in {"join", "quit", "del", "clear", "read"}
         /\ req.g \in Groups \cup {NoGroup} /\ req.R \in Requests
         /\ req.cmd \in {"join", "quit", "del"} => req.g \in Groups
         /\ req.cmd \in {"join", "quit", "del"} => Concerns(req) = {req.g}
         /\ req.cmd = "clear" => Concerns(req) = Groups
         /\ req.cmd = "read" => Concerns(req) = {}
         /\ Concerns(req) \subseteq Groups
  <1>1. CASE req \in [cmd : {"join", "quit"}, g : Groups, R : Requests]
    BY <1>1 DEF Concerns
  <1>2. CASE req \in [cmd : {"del"}, g : Groups, R : {{}}]
    BY <1>2, EmptyRequest DEF Concerns
  <1>3. CASE req \in [cmd : {"clear", "read"}, g : {NoGroup}, R : {{}}]
    BY <1>3, EmptyRequest, AdminAssumption DEF Concerns
  <1>4. QED
    BY <1>1, <1>2, <1>3 DEF Commands

LEMMA IdleIsCommand == Idle.req \in Commands /\ Idle.req.cmd = "read" /\ Idle.pc = "idle"
  BY DEF Idle, Commands

LEMMA EmptyIsFile ==
  ASSUME NEW f \in {"absent", "noarray", "array"}
  PROVE  FileOK(Empty(f)) /\ Empty(f) \in Config /\ Empty(f).file = f
  <1>1. Empty(f) \in Config /\ Empty(f).groups = {} /\ \A g \in Groups : Empty(f).members[g] = {}
    BY DEF Empty, Config
  <1>2. QED
    BY <1>1, EmptyRequest, AdminAssumption DEF FileOK, WellFormed, Empty

LEMMA IdleOK ==
  /\ ToolOK(Idle) /\ Idle \in ToolStates /\ Idle.pc = "idle" /\ Idle.fd = NoFile
  /\ Idle.out = "running" /\ ~Idle.child
  <1>1. FileOK(Empty("absent")) /\ Empty("absent") \in Config
    BY EmptyIsFile
  <1>2. Idle \in ToolStates
    BY <1>1, IdleIsCommand DEF Idle, ToolStates, Between
  <1>3. QED
    BY <1>1, <1>2 DEF Idle, ToolOK, Between, Copying, Writing

\* A request accepted by the file leaves it within the limits, and does to each group what
\* Effect says; on the others it does nothing.
LEMMA EditedFile ==
  ASSUME NEW c, FileOK(c), c.file = "array", NEW req \in Commands, req.cmd # "read",
         ~Refused(c, req)
  PROVE  /\ FileOK(Edited(c, req)) /\ Edited(c, req).file # "absent"
         /\ \A g \in Groups :
              IF g \in Concerns(req)
              THEN Allowed(req, Entry(c, g)) /\ Entry(Edited(c, req), g) = Effect(req, g, Entry(c, g))
              ELSE Entry(Edited(c, req), g) = Entry(c, g)
  <1> DEFINE e == Edited(c, req)
  <1>1. /\ c \in Config /\ c.groups \in SUBSET Groups /\ c.members \in [Groups -> SUBSET VMs]
        /\ \A g \in Groups : c.members[g] \in Requests
        /\ \A g \in Groups : g \notin c.groups => c.members[g] = {}
        /\ Cardinality(c.groups) <= GrpMax /\ Cardinality(c.groups) \in Nat
    BY GroupSets DEF FileOK, WellFormed, Config
  <1>2. req.R \in Requests /\ req.R \in SUBSET VMs
    BY CommandFields DEF Requests
  <1>3. CASE req.cmd = "join"
    <2>1. req.g \in Groups /\ Concerns(req) = {req.g}
      BY <1>3, CommandFields
    <2>2. e = [c EXCEPT !.groups = @ \cup {req.g}, !.members[req.g] = @ \cup req.R]
      BY <1>3 DEF Edited
    <2>3. /\ e \in Config /\ e.file = "array" /\ e.groups = c.groups \cup {req.g}
          /\ e.members = [c.members EXCEPT ![req.g] = @ \cup req.R]
      <3>1. /\ e.file = "array" /\ e.groups = c.groups \cup {req.g}
            /\ e.members = [c.members EXCEPT ![req.g] = @ \cup req.R]
            /\ e = [file |-> e.file, groups |-> e.groups, members |-> e.members]
        BY <1>1, <2>2 DEF Config
      <3>2. e.members \in [Groups -> SUBSET VMs] /\ e.groups \in SUBSET Groups
        BY <1>1, <1>2, <2>1, <3>1
      <3>3. QED
        BY <3>1, <3>2 DEF Config
    <2>4. Cardinality(e.groups) <= GrpMax
      <3>1. CASE req.g \in c.groups
        <4>1. e.groups = c.groups
          BY <2>3, <3>1
        <4>2. QED
          BY <1>1, <4>1
      <3>2. CASE req.g \notin c.groups
        <4>1. Cardinality(c.groups) + 1 <= GrpMax
          BY <1>1, <1>3, <3>2, AdminAssumption DEF Refused
        <4>2. Cardinality(c.groups \cup {req.g}) = Cardinality(c.groups) + 1
          BY <1>1, <3>2, GroupSets, FS_AddElement
        <4>3. QED
          BY <2>3, <4>1, <4>2
      <3>3. QED
        BY <3>1, <3>2
    <2>5. req.g \in c.groups =>
            Cardinality(req.R) + Cardinality(c.members[req.g]) <= VmMax
      BY <1>1, <1>2, <1>3, <2>1, VmSets, AdminAssumption DEF Refused
    <2>6. c.members[req.g] \cup req.R \in Requests
      <3> DEFINE M == c.members[req.g]
      <3>1. M \in SUBSET VMs /\ M \cup req.R \in SUBSET VMs
        BY <1>1, <1>2, <2>1
      <3>2. CASE req.g \in c.groups
        <4>1. Cardinality(M \cup req.R) <= Cardinality(M) + Cardinality(req.R)
          <5>1. Cardinality(M \cup req.R)
                  = Cardinality(M) + Cardinality(req.R) - Cardinality(M \cap req.R)
            BY <1>2, <3>1, VmSets, FS_Union
          <5>2. M \cap req.R \in SUBSET VMs
            BY <3>1
          <5>3. QED
            BY <1>2, <3>1, <5>1, <5>2, VmSets
        <4>2. Cardinality(M) \in Nat /\ Cardinality(req.R) \in Nat /\ Cardinality(M \cup req.R) \in Nat
          BY <1>2, <3>1, VmSets
        <4>3. Cardinality(M \cup req.R) <= VmMax
          BY <2>5, <3>2, <4>1, <4>2, AdminAssumption
        <4>4. QED
          BY <3>1, <4>3 DEF Requests
      <3>3. CASE req.g \notin c.groups
        <4>1. M \cup req.R = req.R
          BY <1>1, <2>1, <3>3
        <4>2. QED
          BY <1>2, <4>1
      <3>4. QED
        BY <3>2, <3>3
    <2>7. FileOK(e)
      <3>1. \A g \in Groups : e.members[g] \in Requests
        BY <1>1, <2>1, <2>3, <2>6
      <3>2. WellFormed(e)
        BY <1>1, <2>1, <2>3 DEF WellFormed
      <3>3. QED
        BY <2>4, <3>1, <3>2 DEF FileOK
    <2>8. ASSUME NEW g \in Groups
          PROVE  IF g \in Concerns(req)
                 THEN Allowed(req, Entry(c, g)) /\ Entry(e, g) = Effect(req, g, Entry(c, g))
                 ELSE Entry(e, g) = Entry(c, g)
      <3>1. CASE g = req.g
        <4>1. e.groups \cap {g} = {g} /\ e.members[g] = c.members[g] \cup req.R
          BY <1>1, <2>1, <2>3, <3>1
        <4>2. Effect(req, g, Entry(c, g)) = <<{g}, c.members[g] \cup req.R>>
          BY <1>3 DEF Effect, Entry
        <4>3. Allowed(req, Entry(c, g))
          BY <1>3, <2>5, <3>1 DEF Allowed, Entry
        <4>4. QED
          BY <2>1, <3>1, <4>1, <4>2, <4>3 DEF Entry
      <3>2. CASE g # req.g
        <4>1. e.groups \cap {g} = c.groups \cap {g} /\ e.members[g] = c.members[g]
          BY <1>1, <2>1, <2>3, <3>2
        <4>2. QED
          BY <2>1, <3>2, <4>1 DEF Entry
      <3>3. QED
        BY <3>1, <3>2
    <2>9. QED
      BY <2>3, <2>7, <2>8
  <1>4. CASE req.cmd = "quit"
    <2>1. req.g \in Groups /\ Concerns(req) = {req.g} /\ req.g \in c.groups
      BY <1>4, CommandFields DEF Refused
    <2>2. e = [c EXCEPT !.members[req.g] = @ \ req.R]
      BY <1>4 DEF Edited
    <2>3. /\ e \in Config /\ e.file = "array" /\ e.groups = c.groups
          /\ e.members = [c.members EXCEPT ![req.g] = @ \ req.R]
      BY <1>1, <1>2, <2>1, <2>2 DEF Config
    <2>4. c.members[req.g] \ req.R \in Requests
      <3>1. c.members[req.g] \in SUBSET VMs /\ c.members[req.g] \ req.R \in SUBSET c.members[req.g]
        BY <1>1, <2>1
      <3>2. Cardinality(c.members[req.g] \ req.R) <= Cardinality(c.members[req.g])
        BY <3>1, VmSets, FS_Subset
      <3>3. Cardinality(c.members[req.g]) <= VmMax
        BY <1>1, <2>1 DEF Requests
      <3>4. c.members[req.g] \ req.R \in SUBSET VMs
        BY <3>1
      <3>5. QED
        BY <3>1, <3>2, <3>3, <3>4, VmSets, AdminAssumption DEF Requests
    <2>5. FileOK(e)
      BY <1>1, <2>1, <2>3, <2>4 DEF FileOK, WellFormed
    <2>6. ASSUME NEW g \in Groups
          PROVE  IF g \in Concerns(req)
                 THEN Allowed(req, Entry(c, g)) /\ Entry(e, g) = Effect(req, g, Entry(c, g))
                 ELSE Entry(e, g) = Entry(c, g)
      BY <1>1, <1>4, <2>1, <2>3 DEF Entry, Allowed, Effect
    <2>7. QED
      BY <2>3, <2>5, <2>6
  <1>5. CASE req.cmd = "del"
    <2>1. req.g \in Groups /\ Concerns(req) = {req.g}
      BY <1>5, CommandFields
    <2>2. e = [c EXCEPT !.groups = @ \ {req.g}, !.members[req.g] = {}]
      BY <1>5 DEF Edited
    <2>3. /\ e \in Config /\ e.file = "array" /\ e.groups = c.groups \ {req.g}
          /\ e.members = [c.members EXCEPT ![req.g] = {}]
      <3>1. /\ e.file = "array" /\ e.groups = c.groups \ {req.g}
            /\ e.members = [c.members EXCEPT ![req.g] = {}]
            /\ e = [file |-> e.file, groups |-> e.groups, members |-> e.members]
        BY <1>1, <2>2 DEF Config
      <3>2. e.members \in [Groups -> SUBSET VMs] /\ e.groups \in SUBSET Groups
        BY <1>1, <2>1, <3>1
      <3>3. QED
        BY <3>1, <3>2 DEF Config
    <2>4. Cardinality(e.groups) <= GrpMax
      <3>1. Cardinality(c.groups \ {req.g}) <= Cardinality(c.groups)
        BY <1>1, GroupSets, FS_RemoveElement
      <3>2. e.groups \in SUBSET Groups
        BY <1>1, <2>3
      <3>3. QED
        BY <1>1, <2>3, <3>1, <3>2, GroupSets, AdminAssumption
    <2>5. FileOK(e)
      BY <1>1, <2>1, <2>3, <2>4, EmptyRequest DEF FileOK, WellFormed
    <2>6. ASSUME NEW g \in Groups
          PROVE  IF g \in Concerns(req)
                 THEN Allowed(req, Entry(c, g)) /\ Entry(e, g) = Effect(req, g, Entry(c, g))
                 ELSE Entry(e, g) = Entry(c, g)
      BY <1>1, <1>5, <2>1, <2>3 DEF Entry, Allowed, Effect, None
    <2>7. QED
      BY <2>3, <2>5, <2>6
  <1>6. CASE req.cmd = "clear"
    <2>1. Concerns(req) = Groups
      BY <1>6, CommandFields
    <2>2. e = Empty("noarray")
      BY <1>6 DEF Edited
    <2>3. FileOK(e) /\ e.file # "absent"
      BY <2>2, EmptyIsFile
    <2>4. ASSUME NEW g \in Groups
          PROVE  Allowed(req, Entry(c, g)) /\ Entry(e, g) = Effect(req, g, Entry(c, g))
      BY <1>6, <2>2 DEF Entry, Allowed, Effect, None, Empty
    <2>5. QED
      BY <2>1, <2>3, <2>4
  <1>7. QED
    BY <1>3, <1>4, <1>5, <1>6, CommandFields

-----------------------------------------------------------------------------
(* What a tool is after each of its steps                                  *)

\* s is what it was before.
Opening(req, child, f) ==
  [Idle EXCEPT !.pc = "open", !.req = req, !.child = child, !.fd = f]
Moving(s, pc) == [s EXCEPT !.pc = pc]
Reading(s, c) == [s EXCEPT !.pc = "init", !.copy = Inited(c)]
Configuring(s) ==
  IF s.req.cmd = "read" THEN Idle
  ELSE [Idle EXCEPT !.pc = "config", !.req = s.req, !.child = s.child]
Reopening(s, f) == [s EXCEPT !.pc = "reopen", !.fd = f]
Editing(s, c) ==
  [s EXCEPT !.pc = "edit", !.accepted = ~Refused(c, s.req),
            !.copy = IF ~Refused(c, s.req) THEN Edited(c, s.req) ELSE c]
Telling(s) ==
  [Idle EXCEPT !.pc = "kernel", !.req = s.req, !.accepted = s.accepted, !.child = s.child]

LEMMA OpeningTool ==
  ASSUME NEW req \in Commands, NEW child \in BOOLEAN, NEW f \in Inodes
  PROVE  LET x == Opening(req, child, f) IN
         ToolOK(x) /\ x.pc = "open" /\ x.req = req /\ x.child = child /\ x.fd = f /\ x.out = "running"
  <1> DEFINE x == Opening(req, child, f)
  <1>1. /\ x.pc = "open" /\ x.req = req /\ x.child = child /\ x.fd = f /\ x.out = "running"
        /\ x.copy = Empty("absent") /\ x.accepted = FALSE /\ x \in ToolStates
    BY IdleOK DEF Opening, Idle, ToolStates
  <1> HIDE DEF x
  <1>2. ToolOK(x)
    BY <1>1, EmptyIsFile, AdminAssumption DEF ToolOK, Between, Copying, Writing
  <1>3. QED
    BY <1>1, <1>2 DEF x

LEMMA MovingTool ==
  ASSUME NEW s, ToolOK(s), NEW pc,
         \/ s.pc = "open" /\ pc = "locked"
         \/ s.pc = "init" /\ pc = "initfill"
         \/ s.pc = "edit" /\ pc = "editfill"
  PROVE  LET x == Moving(s, pc) IN
         /\ ToolOK(x) /\ x.pc = pc /\ x.req = s.req /\ x.child = s.child /\ x.fd = s.fd
         /\ x.out = s.out /\ x.out = "running" /\ x.copy = s.copy /\ x.accepted = s.accepted
  <1> DEFINE x == Moving(s, pc)
  <1>1. /\ x.pc = pc /\ x.req = s.req /\ x.child = s.child /\ x.fd = s.fd
        /\ x.out = s.out /\ x.copy = s.copy /\ x.accepted = s.accepted /\ x \in ToolStates
    BY DEF Moving, ToolOK, ToolStates, Between, Copying
  <1> HIDE DEF x
  <1>2. s.out = "running"
    BY DEF ToolOK, Writing
  <1>3. ToolOK(x)
    BY <1>1, <1>2 DEF ToolOK, Between, Copying, Writing
  <1>4. QED
    BY <1>1, <1>2, <1>3 DEF x

LEMMA InitedFile ==
  ASSUME NEW c, FileOK(c)
  PROVE  /\ FileOK(Inited(c)) /\ Inited(c).file = "array"
         /\ \A g \in Groups : Entry(Inited(c), g) = Entry(c, g)
         /\ c.file # "array" => \A g \in Groups : Entry(c, g) = None
  <1>1. FileOK(Inited(c)) /\ Inited(c).file = "array"
    BY EmptyIsFile DEF Inited
  <1>2. ASSUME c.file # "array", NEW g \in Groups
        PROVE  Entry(c, g) = None /\ Entry(Empty("array"), g) = None
    <2>1. c.groups = {} /\ c.members[g] = {}
      BY <1>2 DEF FileOK, WellFormed
    <2>2. QED
      BY <2>1 DEF Entry, Empty, None
  <1>3. QED
    BY <1>1, <1>2 DEF Inited

LEMMA ReadingTool ==
  ASSUME NEW s, ToolOK(s), s.pc = "locked", NEW c, FileOK(c)
  PROVE  LET x == Reading(s, c) IN
         /\ ToolOK(x) /\ x.pc = "init" /\ x.req = s.req /\ x.child = s.child /\ x.fd = s.fd
         /\ x.out = "running" /\ x.copy = Inited(c)
  <1> DEFINE copy == Inited(c)
             x == [s EXCEPT !.pc = "init", !.copy = copy]
  <1>1. FileOK(copy) /\ copy.file = "array" /\ copy \in Config
    BY InitedFile DEF FileOK, WellFormed
  <1> HIDE DEF copy
  <1>2. /\ x.pc = "init" /\ x.req = s.req /\ x.child = s.child /\ x.fd = s.fd
        /\ x.out = s.out /\ x.copy = copy /\ x \in ToolStates
    BY <1>1 DEF ToolOK, ToolStates, Between, Copying
  <1> HIDE DEF x
  <1>3. s.out = "running"
    BY DEF ToolOK, Writing
  <1>4. ToolOK(x)
    BY <1>1, <1>2, <1>3 DEF ToolOK, Between, Copying, Writing
  <1>5. QED
    BY <1>2, <1>3, <1>4 DEF Reading, x, copy

LEMMA ConfiguringTool ==
  ASSUME NEW s, ToolOK(s)
  PROVE  LET x == Configuring(s) IN
         /\ ToolOK(x) /\ x.pc \in {"idle", "config"} /\ x.fd = NoFile /\ x.out = "running"
         /\ x.child => s.child /\ x.req = s.req /\ x.pc = "config"
         /\ s.req.cmd # "read" => x.child = s.child
  <1>1. CASE s.req.cmd = "read"
    BY <1>1, IdleOK DEF Configuring
  <1>2. CASE s.req.cmd # "read"
    <2> DEFINE x == [Idle EXCEPT !.pc = "config", !.req = s.req, !.child = s.child]
    <2>1. /\ x.pc = "config" /\ x.req = s.req /\ x.child = s.child /\ x.fd = NoFile
          /\ x.out = "running" /\ x.copy = Empty("absent") /\ x \in ToolStates
      BY IdleOK DEF Idle, ToolStates, ToolOK, Between
    <2> HIDE DEF x
    <2>2. ToolOK(x)
      BY <1>2, <2>1, EmptyIsFile DEF ToolOK, Between, Copying, Writing
    <2>3. Configuring(s) = x
      BY <1>2 DEF Configuring, x
    <2>4. QED
      BY <1>2, <2>1, <2>2, <2>3
  <1>3. QED
    BY <1>1, <1>2

LEMMA ReopeningTool ==
  ASSUME NEW s, ToolOK(s), s.pc = "config", NEW f \in Inodes
  PROVE  LET x == Reopening(s, f) IN
         /\ ToolOK(x) /\ x.pc = "reopen" /\ x.req = s.req /\ x.child = s.child /\ x.fd = f
         /\ x.out = "running"
  <1> DEFINE x == Reopening(s, f)
  <1>1. /\ x.pc = "reopen" /\ x.req = s.req /\ x.child = s.child /\ x.fd = f
        /\ x.out = s.out /\ x.copy = s.copy /\ x \in ToolStates
    BY DEF Reopening, ToolOK, ToolStates
  <1> HIDE DEF x
  <1>2. s.out = "running"
    BY DEF ToolOK, Writing
  <1>3. ToolOK(x)
    BY <1>1, <1>2, AdminAssumption DEF ToolOK, Between, Copying, Writing
  <1>4. QED
    BY <1>1, <1>2, <1>3 DEF x

LEMMA EditingTool ==
  ASSUME NEW s, ToolOK(s), s.pc = "reopen", NEW c, FileOK(c), c.file = "array"
  PROVE  LET x == Editing(s, c) IN
         /\ ToolOK(x) /\ x.pc = "edit" /\ x.req = s.req /\ x.child = s.child /\ x.fd = s.fd
         /\ x.out = "running"
         /\ x.accepted <=> ~Refused(c, s.req)
         /\ x.copy = IF x.accepted THEN Edited(c, s.req) ELSE c
         /\ x.copy.file = "array" \/ (x.accepted /\ s.req.cmd = "clear")
  <1> DEFINE ok == ~Refused(c, s.req)
             copy == IF ok THEN Edited(c, s.req) ELSE c
             x == [s EXCEPT !.pc = "edit", !.accepted = ok, !.copy = copy]
  <1>1. s \in ToolStates /\ s.req \in Commands /\ s.req.cmd # "read" /\ s.out = "running"
    BY DEF ToolOK, ToolStates, Writing
  <1>2. FileOK(copy) /\ copy.file # "absent"
    BY <1>1, EditedFile
  <1>3. copy \in Config /\ ok \in BOOLEAN
    BY <1>2 DEF FileOK, WellFormed, Refused
  <1>4. copy.file = "array" \/ (ok /\ s.req.cmd = "clear")
    <2>1. CASE ok /\ s.req.cmd # "clear"
      <3>1. s.req.cmd \in {"join", "quit", "del"}
        BY <1>1, <2>1, CommandFields
      <3>2. Edited(c, s.req).file = c.file
        BY <3>1 DEF Edited, FileOK, WellFormed, Config
      <3>3. QED
        BY <2>1, <3>2
    <2>2. QED
      BY <2>1
  <1>5. ASSUME ok, s.req.cmd \in {"del", "clear"}, NEW g \in Concerns(s.req)
        PROVE  Entry(copy, g) = None
    <2>1. g \in Groups
      BY <1>1, CommandFields
    <2>2. Entry(copy, g) = Effect(s.req, g, Entry(c, g))
      BY <1>1, <1>5, <2>1, EditedFile
    <2>3. QED
      BY <1>5, <2>2 DEF Effect
  <1>6. /\ x.pc = "edit" /\ x.req = s.req /\ x.child = s.child /\ x.fd = s.fd
        /\ x.out = s.out /\ x.accepted = ok /\ x.copy = copy /\ x \in ToolStates
    <2> HIDE DEF ok, copy
    <2>1. QED
      BY <1>1, <1>3 DEF ToolStates, Between, Copying
  <1>7. ToolOK(x)
    <2> HIDE DEF ok, copy, x
    <2>1. s.fd # NoFile
      BY DEF ToolOK, Between
    <2>2. QED
      BY <1>1, <1>2, <1>5, <1>6, <2>1 DEF ToolOK, Between, Copying, Writing
  <1>8. Editing(s, c) = x
    BY DEF Editing
  <1> HIDE DEF x
  <1>9. copy = IF x.accepted THEN Edited(c, s.req) ELSE c
    BY <1>6
  <1> HIDE DEF copy
  <1>10. QED
    BY <1>1, <1>4, <1>6, <1>7, <1>8, <1>9

LEMMA TellingTool ==
  ASSUME NEW s, ToolOK(s), s.pc \in {"reopen", "editfill"}
  PROVE  LET x == Telling(s) IN
         /\ ToolOK(x) /\ x.pc = "kernel" /\ x.req = s.req /\ x.child = s.child /\ x.fd = NoFile
         /\ x.out = "running"
  <1> DEFINE x == Telling(s)
  <1>1. s \in ToolStates /\ s.req \in Commands /\ s.req.cmd # "read"
    BY DEF ToolOK, ToolStates
  <1>2. /\ x.pc = "kernel" /\ x.req = s.req /\ x.child = s.child /\ x.fd = NoFile
        /\ x.out = "running" /\ x.copy = Empty("absent") /\ x \in ToolStates
    BY <1>1, IdleOK DEF Telling, Idle, ToolStates, Between
  <1> HIDE DEF x
  <1>3. ToolOK(x)
    BY <1>1, <1>2, EmptyIsFile DEF ToolOK, Between, Copying, Writing
  <1>4. QED
    BY <1>2, <1>3 DEF x

-----------------------------------------------------------------------------
(* Steps, one by one: types                                                *)

LEMMA ToolStep ==
  ASSUME TypeInv, NEW t \in Tools, NEW s, ToolOK(s), tool' = [tool EXCEPT ![t] = s]
  PROVE  /\ tool' \in [Tools -> ToolStates] /\ \A u \in Tools : ToolOK(tool'[u])
         /\ tool'[t] = s /\ \A u \in Tools \ {t} : tool'[u] = tool[u]
  BY DEF TypeInv, ToolOK

LEMMA RecoveryRequest ==
  ASSUME TypeInv, NEW g \in Groups
  PROVE  [cmd |-> "join", g |-> g, R |-> saved.members[g]] \in Commands
  BY DEF TypeInv, FileOK, Commands

LEMMA AboutGroups ==
  ASSUME TypeInv
  PROVE  /\ \A t \in Tools : About(t) = Concerns(tool[t].req) /\ About(t) \subseteq Groups
                             /\ tool[t].req \in Commands
         /\ PendingGroups \subseteq Groups /\ Pending \subseteq Tools
  BY DEF TypeInv, ToolStates, About, Concerns, PendingGroups, Pending

\* Opening the file creates it if need be, and leaves every group as it is.
LEMMA CreatesFile ==
  ASSUME TypeInv, FileInv, Creates
  PROVE  /\ FileOK(running') /\ FileOK(written') /\ UNCHANGED <<startup, at>>
         /\ running'.file # "absent" /\ (~Rewritten => running' = written')
         /\ \A g \in Groups : Entry(written, g)' = Entry(written, g)
         /\ written'.groups = written.groups
         /\ written.file = "array" => written'.file = "array"
  <1>1. /\ running' = Opened /\ UNCHANGED <<startup, at>> /\ FileOK(running) /\ FileOK(written)
        /\ written' = IF running.file = "absent" THEN Opened ELSE written
    BY DEF Creates, TypeInv
  <1>2. CASE running.file = "absent"
    <2>1. /\ running' = Empty("noarray") /\ written' = Empty("noarray") /\ running = written
          /\ FileOK(Empty("noarray")) /\ Empty("noarray").file = "noarray"
      BY <1>1, <1>2, EmptyIsFile DEF Opened, FileInv
    <2>2. written.groups = {} /\ \A g \in Groups : written.members[g] = {}
      BY <1>1, <1>2, <2>1 DEF FileOK, WellFormed
    <2>3. Empty("noarray").groups = {} /\ \A g \in Groups : Empty("noarray").members[g] = {}
      BY DEF Empty
    <2>4. \A g \in Groups : Entry(written, g)' = Entry(written, g)
      BY <2>1, <2>2, <2>3 DEF Entry
    <2>5. QED
      BY <1>1, <1>2, <2>1, <2>2, <2>3, <2>4
  <1>3. CASE running.file # "absent"
    <2>1. running' = running /\ written' = written
      BY <1>1, <1>3 DEF Opened
    <2>2. \A g \in Groups : Entry(written, g)' = Entry(written, g)
      BY <2>1 DEF Entry
    <2>3. QED
      BY <1>1, <1>3, <2>1, <2>2 DEF FileInv
  <1>4. QED
    BY <1>2, <1>3

LEMMA FillsFile ==
  ASSUME TypeInv, NEW t \in Tools, tool[t].pc \in Writing, Fills(t)
  PROVE  /\ FileOK(running') /\ FileOK(written') /\ FileOK(startup') /\ at' = at
         /\ IF Filling(t) THEN /\ running' = tool[t].copy /\ written' = tool[t].copy
                               /\ startup' = startup /\ running'.file # "absent"
            ELSE UNCHANGED <<running, written>>
  <1>1. /\ FileOK(tool[t].copy) /\ tool[t].copy.file # "absent"
        /\ FileOK(running) /\ FileOK(written) /\ FileOK(startup)
        /\ (Filling(t) <=> tool[t].out = "running")
    BY DEF TypeInv, ToolOK, Copying, Writing, Filling
  <1>2. QED
    BY <1>1 DEF Fills

\* Who is not writing the running configuration before or after its step changes nothing in
\* whether it is being rewritten.
LEMMA RewrittenSame ==
  ASSUME TypeInv, NEW t \in Tools, NEW s, tool' = [tool EXCEPT ![t] = s],
         ~Filling(t), s.pc \notin Writing
  PROVE  Rewritten' <=> Rewritten
  <1>1. tool'[t] = s /\ \A u \in Tools \ {t} : tool'[u] = tool[u]
    BY DEF TypeInv
  <1>2. \A u \in Tools : Filling(u)' <=> Filling(u)
    BY <1>1 DEF Filling, Writing
  <1>3. QED
    BY <1>2 DEF Rewritten

\* A step of t that changes its own state, the files and the history.
LEMMA TypesOfStep ==
  ASSUME TypeInv, NEW t \in Tools, NEW s, ToolOK(s), tool' = [tool EXCEPT ![t] = s],
         FileOK(running'), FileOK(startup'), FileOK(written'), at' = at,
         UNCHANGED <<saved, served, loaded, script>>, todo' \subseteq Groups,
         stale' \subseteq Groups, touched' \subseteq Groups,
         AbsTypeOK', ~loaded => UNCHANGED <<groups, members>>
  PROVE  TypeInv'
  <1>1. tool' \in [Tools -> ToolStates] /\ \A u \in Tools : ToolOK(tool'[u])
    BY ToolStep
  <1>2. QED
    BY <1>1 DEF TypeInv

\* What InitOpens leaves.
LEMMA OpensStep ==
  ASSUME TypeInv, FileInv, NEW t \in Tools, NEW req \in Commands, NEW child \in BOOLEAN,
         InitOpens(t, req, child), todo' \subseteq Groups
  PROVE  LET s == Opening(req, child, at) IN
         /\ tool[t].pc = "idle" /\ tool' = [tool EXCEPT ![t] = s] /\ ToolOK(s)
         /\ s.pc = "open" /\ s.req = req /\ s.child = child /\ s.fd = at /\ s.out = "running"
         /\ UNCHANGED <<groups, members, startup, at, loaded, script, saved, order, stale, touched,
                        served>>
         /\ Creates /\ TypeInv' /\ FileInv'
  <1> DEFINE s == Opening(req, child, at)
  <1>1. /\ tool[t].pc = "idle" /\ tool' = [tool EXCEPT ![t] = s] /\ Creates
        /\ UNCHANGED <<groups, members, ret, startup, at, loaded, script, saved, order, stale, touched,
                       served>>
    BY DEF InitOpens, Opening, kernelVars, historyVars, Creates
  <1>2. /\ ToolOK(s) /\ s.pc = "open" /\ s.req = req /\ s.child = child /\ s.fd = at
        /\ s.out = "running"
    BY OpeningTool DEF TypeInv
  <1> HIDE DEF s
  <1>3. FileOK(running') /\ FileOK(written') /\ running'.file # "absent"
        /\ (~Rewritten => running' = written')
    BY <1>1, CreatesFile
  <1>4. FileOK(startup') /\ AbsTypeOK' /\ stale' \subseteq Groups /\ touched' \subseteq Groups
    BY <1>1 DEF TypeInv, AbsTypeOK
  <1>5. TypeInv'
    BY <1>1, <1>2, <1>3, <1>4, TypesOfStep
  <1>6. Rewritten' <=> Rewritten
    BY <1>1, <1>2, RewrittenSame DEF Filling, Writing
  <1>7. FileInv'
    BY <1>3, <1>6 DEF FileInv
  <1>8. QED
    BY <1>1, <1>2, <1>5, <1>7 DEF s

\* What a step within the two passes leaves alone.
SameTable == UNCHANGED <<groups, members, ret, loaded, script, saved, served, at>>
SameHistory == UNCHANGED <<todo, order, stale, touched>>

\* Such a step of t, with the files in order after it.
LEMMA PassTypes ==
  ASSUME TypeInv, NEW t \in Tools, NEW s, ToolOK(s), tool' = [tool EXCEPT ![t] = s],
         SameTable, SameHistory, FileOK(running'), FileOK(startup'), FileOK(written')
  PROVE  TypeInv'
  <1>1. AbsTypeOK' /\ todo' \subseteq Groups /\ stale' \subseteq Groups /\ touched' \subseteq Groups
    BY DEF SameTable, SameHistory, TypeInv, AbsTypeOK
  <1>2. at' = at /\ UNCHANGED <<saved, served, loaded, script>> /\ UNCHANGED <<groups, members>>
    BY DEF SameTable
  <1>3. QED
    BY <1>1, <1>2, TypesOfStep

LEMMA LocksStep ==
  ASSUME TypeInv, FileInv, NEW t \in Tools, InitLocks(t)
  PROVE  LET s == Moving(tool[t], "locked") IN
         /\ tool[t].pc = "open" /\ tool' = [tool EXCEPT ![t] = s] /\ ToolOK(s)
         /\ s.pc = "locked" /\ s.req = tool[t].req /\ s.child = tool[t].child
         /\ s.fd = tool[t].fd /\ s.out = "running"
         /\ Locks(t) /\ Creates /\ SameTable /\ SameHistory /\ TypeInv' /\ FileInv'
  <1> DEFINE s == Moving(tool[t], "locked")
  <1>1. /\ tool[t].pc = "open" /\ Locks(t) /\ Creates /\ SameTable /\ SameHistory
        /\ ToolOK(tool[t]) /\ tool \in [Tools -> ToolStates]
    BY DEF InitLocks, SameTable, SameHistory, kernelVars, scriptVars, recoveryVars, historyVars,
           Creates, TypeInv
  <1>2. tool' = [tool EXCEPT ![t] = s]
    BY DEF InitLocks, Moving
  <1>3. /\ ToolOK(s) /\ s.pc = "locked" /\ s.req = tool[t].req /\ s.child = tool[t].child
        /\ s.fd = tool[t].fd /\ s.out = "running"
    BY <1>1, MovingTool
  <1> HIDE DEF s
  <1>4. /\ FileOK(running') /\ FileOK(written') /\ FileOK(startup') /\ running'.file # "absent"
        /\ (~Rewritten => running' = written')
    BY <1>1, CreatesFile DEF TypeInv
  <1>5. TypeInv'
    BY <1>1, <1>2, <1>3, <1>4, PassTypes
  <1>6. Rewritten' <=> Rewritten
    BY <1>1, <1>2, <1>3, RewrittenSame DEF Filling, Writing
  <1>7. FileInv'
    BY <1>4, <1>6 DEF FileInv
  <1>8. QED
    BY <1>1, <1>2, <1>3, <1>5, <1>7 DEF s

LEMMA ReadsStep ==
  ASSUME TypeInv, FileInv, NEW t \in Tools, InitReads(t)
  PROVE  LET s == Reading(tool[t], running) IN
         /\ tool[t].pc = "locked" /\ tool' = [tool EXCEPT ![t] = s] /\ ToolOK(s)
         /\ s.pc = "init" /\ s.req = tool[t].req /\ s.child = tool[t].child
         /\ s.fd = tool[t].fd /\ s.out = "running" /\ s.copy = Inited(running)
         /\ UNCHANGED <<running, startup, written>> /\ SameTable /\ SameHistory
         /\ TypeInv' /\ FileInv'
  <1> DEFINE s == Reading(tool[t], running)
  <1>1. /\ tool[t].pc = "locked" /\ UNCHANGED <<running, startup, written>>
        /\ SameTable /\ SameHistory /\ ToolOK(tool[t]) /\ tool \in [Tools -> ToolStates]
        /\ FileOK(running) /\ FileOK(startup) /\ FileOK(written)
    BY DEF InitReads, SameTable, SameHistory, kernelVars, scriptVars, recoveryVars, historyVars,
           fileVars, TypeInv
  <1>2. tool' = [tool EXCEPT ![t] = s]
    BY DEF InitReads, Reading
  <1>3. /\ ToolOK(s) /\ s.pc = "init" /\ s.req = tool[t].req /\ s.child = tool[t].child
        /\ s.fd = tool[t].fd /\ s.out = "running" /\ s.copy = Inited(running)
    BY <1>1, ReadingTool
  <1> HIDE DEF s
  <1>4. TypeInv'
    BY <1>1, <1>2, <1>3, PassTypes
  <1>5. Rewritten' <=> Rewritten
    BY <1>1, <1>2, <1>3, RewrittenSame DEF Filling, Writing
  <1>6. FileInv'
    BY <1>1, <1>5 DEF FileInv
  <1>7. QED
    BY <1>1, <1>2, <1>3, <1>4, <1>6 DEF s

LEMMA TruncatesStep ==
  ASSUME TypeInv, FileInv, NEW t \in Tools, NEW pc, NEW next, Truncates(t, pc, next),
         \/ pc = "init" /\ next = "initfill"
         \/ pc = "edit" /\ next = "editfill"
  PROVE  LET s == Moving(tool[t], next) IN
         /\ tool[t].pc = pc /\ tool' = [tool EXCEPT ![t] = s] /\ ToolOK(s)
         /\ s.pc = next /\ s.req = tool[t].req /\ s.child = tool[t].child
         /\ s.fd = tool[t].fd /\ s.out = "running" /\ s.copy = tool[t].copy
         /\ s.accepted = tool[t].accepted
         /\ UNCHANGED <<startup, written>> /\ running'.file = "noarray"
         /\ SameTable /\ SameHistory /\ TypeInv' /\ FileInv'
  <1> DEFINE s == Moving(tool[t], next)
  <1>1. /\ tool[t].pc = pc /\ UNCHANGED <<startup, written>> /\ running' = Empty("noarray")
        /\ SameTable /\ SameHistory /\ ToolOK(tool[t]) /\ tool \in [Tools -> ToolStates]
        /\ FileOK(startup) /\ FileOK(written)
    BY DEF Truncates, SameTable, SameHistory, kernelVars, scriptVars, recoveryVars, historyVars,
           TypeInv
  <1>2. tool' = [tool EXCEPT ![t] = s]
    BY DEF Truncates, Moving
  <1>3. /\ ToolOK(s) /\ s.pc = next /\ s.req = tool[t].req /\ s.child = tool[t].child
        /\ s.fd = tool[t].fd /\ s.out = "running" /\ s.copy = tool[t].copy
        /\ s.accepted = tool[t].accepted
    BY <1>1, MovingTool
  <1> HIDE DEF s
  <1>4. FileOK(running') /\ running'.file = "noarray"
    BY <1>1, EmptyIsFile
  <1>5. TypeInv'
    BY <1>1, <1>2, <1>3, <1>4, PassTypes
  <1>6. Filling(t)'
    BY <1>1, <1>2, <1>3 DEF Filling
  <1>7. FileInv'
    BY <1>4, <1>6 DEF FileInv, Rewritten
  <1>8. QED
    BY <1>1, <1>2, <1>3, <1>4, <1>5, <1>7 DEF s

\* Filling the file: it is as t had it, unless others are rewriting it too.
LEMMA FilledInv ==
  ASSUME TypeInv, FileInv, NEW t \in Tools, tool[t].pc \in Writing, Fills(t),
         NEW s, s.pc \notin Writing, tool' = [tool EXCEPT ![t] = s]
  PROVE  FileInv'
  <1>1. /\ IF Filling(t) THEN /\ running' = tool[t].copy /\ written' = tool[t].copy
                              /\ running'.file # "absent"
           ELSE UNCHANGED <<running, written>>
    BY FillsFile
  <1>2. CASE Filling(t)
    BY <1>1, <1>2 DEF FileInv
  <1>3. CASE ~Filling(t)
    <2>1. Rewritten' <=> Rewritten
      BY <1>3, RewrittenSame
    <2>2. QED
      BY <1>1, <1>3, <2>1 DEF FileInv
  <1>4. QED
    BY <1>2, <1>3

LEMMA InitFillsStep ==
  ASSUME TypeInv, FileInv, NEW t \in Tools, InitFills(t)
  PROVE  LET s == Configuring(tool[t]) IN
         /\ tool[t].pc = "initfill" /\ tool' = [tool EXCEPT ![t] = s] /\ ToolOK(s)
         /\ s.pc \in {"idle", "config"} /\ s.fd = NoFile /\ s.out = "running"
         /\ s.child => tool[t].child /\ s.req = tool[t].req /\ s.pc = "config"
         /\ tool[t].req.cmd # "read" => s.child = tool[t].child
         /\ Fills(t) /\ SameTable /\ SameHistory /\ TypeInv' /\ FileInv'
  <1> DEFINE s == Configuring(tool[t])
  <1>1. /\ tool[t].pc = "initfill" /\ Fills(t) /\ SameTable /\ SameHistory
        /\ ToolOK(tool[t]) /\ tool \in [Tools -> ToolStates]
    BY DEF InitFills, SameTable, SameHistory, kernelVars, scriptVars, recoveryVars, historyVars,
           Fills, TypeInv
  <1>2. tool' = [tool EXCEPT ![t] = s]
    BY <1>1 DEF InitFills, Configuring
  <1>3. /\ ToolOK(s) /\ s.pc \in {"idle", "config"} /\ s.fd = NoFile /\ s.out = "running"
        /\ s.child => tool[t].child /\ s.req = tool[t].req /\ s.pc = "config"
        /\ tool[t].req.cmd # "read" => s.child = tool[t].child
    BY <1>1, ConfiguringTool
  <1> HIDE DEF s
  <1>4. FileOK(running') /\ FileOK(startup') /\ FileOK(written') /\ tool[t].pc \in Writing
    BY <1>1, FillsFile DEF Writing
  <1>5. TypeInv'
    BY <1>1, <1>2, <1>3, <1>4, PassTypes
  <1>6. s.pc \notin Writing
    BY <1>3 DEF Writing
  <1>7. FileInv'
    BY <1>1, <1>2, <1>4, <1>6, FilledInv
  <1>8. QED
    BY <1>1, <1>2, <1>3, <1>5, <1>7 DEF s

LEMMA EditOpensStep ==
  ASSUME TypeInv, FileInv, NEW t \in Tools, EditOpens(t)
  PROVE  LET s == Reopening(tool[t], at) IN
         /\ tool[t].pc = "config" /\ tool' = [tool EXCEPT ![t] = s] /\ ToolOK(s)
         /\ s.pc = "reopen" /\ s.req = tool[t].req /\ s.child = tool[t].child
         /\ s.fd = at /\ s.out = "running"
         /\ Creates /\ SameTable /\ SameHistory /\ TypeInv' /\ FileInv'
  <1> DEFINE s == Reopening(tool[t], at)
  <1>1. /\ tool[t].pc = "config" /\ Creates /\ SameTable /\ SameHistory
        /\ ToolOK(tool[t]) /\ tool \in [Tools -> ToolStates] /\ at \in Inodes
    BY DEF EditOpens, SameTable, SameHistory, kernelVars, scriptVars, recoveryVars, historyVars,
           Creates, TypeInv
  <1>2. tool' = [tool EXCEPT ![t] = s]
    BY DEF EditOpens, Reopening
  <1>3. /\ ToolOK(s) /\ s.pc = "reopen" /\ s.req = tool[t].req /\ s.child = tool[t].child
        /\ s.fd = at /\ s.out = "running"
    BY <1>1, ReopeningTool
  <1> HIDE DEF s
  <1>4. /\ FileOK(running') /\ FileOK(written') /\ FileOK(startup') /\ running'.file # "absent"
        /\ (~Rewritten => running' = written')
    BY <1>1, CreatesFile DEF TypeInv
  <1>5. TypeInv'
    BY <1>1, <1>2, <1>3, <1>4, PassTypes
  <1>6. Rewritten' <=> Rewritten
    BY <1>1, <1>2, <1>3, RewrittenSame DEF Filling, Writing
  <1>7. FileInv'
    BY <1>4, <1>6 DEF FileInv
  <1>8. QED
    BY <1>1, <1>2, <1>3, <1>5, <1>7 DEF s

LEMMA EditReadsStep ==
  ASSUME TypeInv, FileInv, NEW t \in Tools, EditReads(t)
  PROVE  LET s == Editing(tool[t], running) IN
         /\ tool[t].pc = "reopen" /\ tool' = [tool EXCEPT ![t] = s] /\ ToolOK(s)
         /\ s.pc = "edit" /\ s.req = tool[t].req /\ s.child = tool[t].child
         /\ s.fd = tool[t].fd /\ s.out = "running"
         /\ s.accepted <=> ~Refused(running, s.req)
         /\ s.copy = IF s.accepted THEN Edited(running, s.req) ELSE running
         /\ s.copy.file = "array" \/ (s.accepted /\ s.req.cmd = "clear")
         /\ running.file = "array" /\ Locks(t)
         /\ UNCHANGED <<running, startup, written>> /\ SameTable /\ SameHistory
         /\ TypeInv' /\ FileInv'
  <1> DEFINE s == Editing(tool[t], running)
  <1>1. /\ tool[t].pc = "reopen" /\ UNCHANGED <<running, startup, written>>
        /\ running.file = "array" /\ Locks(t)
        /\ SameTable /\ SameHistory /\ ToolOK(tool[t]) /\ tool \in [Tools -> ToolStates]
        /\ FileOK(running) /\ FileOK(startup) /\ FileOK(written)
    BY DEF EditReads, SameTable, SameHistory, kernelVars, scriptVars, recoveryVars, historyVars,
           fileVars, TypeInv
  <1>2. tool' = [tool EXCEPT ![t] = s]
    BY DEF EditReads, Editing
  <1>3. /\ ToolOK(s) /\ s.pc = "edit" /\ s.req = tool[t].req /\ s.child = tool[t].child
        /\ s.fd = tool[t].fd /\ s.out = "running"
        /\ s.accepted <=> ~Refused(running, tool[t].req)
        /\ s.copy = IF s.accepted THEN Edited(running, tool[t].req) ELSE running
        /\ s.copy.file = "array" \/ (s.accepted /\ tool[t].req.cmd = "clear")
    BY <1>1, EditingTool
  <1> HIDE DEF s
  <1>4. TypeInv'
    BY <1>1, <1>2, <1>3, PassTypes
  <1>5. Rewritten' <=> Rewritten
    BY <1>1, <1>2, <1>3, RewrittenSame DEF Filling, Writing
  <1>6. FileInv'
    BY <1>1, <1>5 DEF FileInv
  <1>7. QED
    BY <1>1, <1>2, <1>3, <1>4, <1>6 DEF s

\* The configuration is written and the kernel is to be told, or nothing has changed.
LEMMA ToKernelTool ==
  ASSUME TypeInv, NEW t \in Tools, tool[t].pc \in {"reopen", "editfill"}, ToKernel(t)
  PROVE  /\ tool' = [tool EXCEPT ![t] = Telling(tool[t])] /\ ToolOK(Telling(tool[t]))
         /\ stale' \subseteq stale /\ stale' \subseteq Groups /\ touched' \subseteq Groups
  <1>1. ToolOK(tool[t]) /\ tool \in [Tools -> ToolStates] /\ stale \subseteq Groups
        /\ touched \subseteq Groups
    BY DEF TypeInv
  <1>2. tool' = [tool EXCEPT ![t] = Telling(tool[t])]
    BY <1>1 DEF ToKernel, Telling
  <1>3. ToolOK(Telling(tool[t]))
    BY <1>1, TellingTool
  <1>4. stale' \subseteq stale /\ touched' \subseteq Groups
    BY <1>1, AboutGroups DEF ToKernel, StaleAfterWrite, Touches
  <1>5. QED
    BY <1>1, <1>2, <1>3, <1>4

LEMMA EndsStep ==
  ASSUME TypeInv, FileInv, NEW t \in Tools, EditFindsNoArray(t) \/ EditFills(t)
  PROVE  /\ tool[t].pc \in {"reopen", "editfill"} /\ SameTable /\ todo' = todo
         /\ ToKernel(t) \/ EndsUnchanged(t)
         /\ TypeInv' /\ FileInv'
  <1>1. tool[t].pc \in {"reopen", "editfill"} /\ SameTable /\ todo' = todo
        /\ (ToKernel(t) \/ EndsUnchanged(t))
    BY DEF EditFindsNoArray, EditFills, SameTable, kernelVars, scriptVars, recoveryVars, fileVars,
           Fills
  <1>2. stale' \subseteq Groups /\ touched' \subseteq Groups
    BY <1>1, ToKernelTool DEF TypeInv, EndsUnchanged
  <1>3. PICK s : /\ s = (IF ToKernel(t) THEN Telling(tool[t]) ELSE Idle)
    OBVIOUS
  <1>4. tool' = [tool EXCEPT ![t] = s] /\ ToolOK(s) /\ s.pc \in {"kernel", "idle"}
    <2>1. CASE ToKernel(t)
      <3>1. ToolOK(tool[t])
        BY DEF TypeInv
      <3>2. QED
        BY <1>1, <1>3, <2>1, <3>1, ToKernelTool, TellingTool
    <2>2. CASE ~ToKernel(t)
      BY <1>1, <1>3, <2>2, IdleOK DEF EndsUnchanged
    <2>3. QED
      BY <2>1, <2>2
  <1>5. /\ FileOK(running') /\ FileOK(startup') /\ FileOK(written') /\ FileInv'
    <2>1. CASE EditFindsNoArray(t)
      <3>1. UNCHANGED <<running, startup, written>> /\ tool[t].pc = "reopen"
        BY <2>1 DEF EditFindsNoArray, fileVars
      <3>2. Rewritten' <=> Rewritten
        BY <1>4, <3>1, RewrittenSame DEF Filling, Writing
      <3>3. QED
        BY <3>1, <3>2 DEF TypeInv, FileInv
    <2>2. CASE EditFills(t)
      <3>1. Fills(t) /\ tool[t].pc \in Writing
        BY <2>2 DEF EditFills, Writing
      <3>2. s.pc \notin Writing
        BY <1>4 DEF Writing
      <3>3. QED
        BY <1>4, <3>1, <3>2, FillsFile, FilledInv
    <2>3. QED
      BY <2>1, <2>2
  <1>6. /\ UNCHANGED <<saved, served, loaded, script>> /\ todo' \subseteq Groups /\ at' = at
        /\ UNCHANGED <<groups, members, ret>>
    BY <1>1 DEF SameTable, TypeInv
  <1>7. AbsTypeOK'
    BY <1>6 DEF TypeInv, AbsTypeOK
  <1>8. TypeInv'
    BY <1>2, <1>4, <1>5, <1>6, <1>7, TypesOfStep
  <1>9. QED
    BY <1>1, <1>5, <1>8

TellsKernel(t) ==
  KernelJoins(t) \/ KernelRefuses(t) \/ KernelQuits(t) \/ KernelMissing(t) \/ KernelDeletes(t)
    \/ KernelClears(t)

LEMMA TypesKernel ==
  ASSUME TypeInv, NEW t \in Tools, TellsKernel(t) \/ NoKernel(t)
  PROVE  TypeInv'
  <1>1. /\ tool[t].req \in Commands /\ About(t) \subseteq Groups
        /\ stale \subseteq Groups /\ touched \subseteq Groups
        /\ FileOK(running) /\ FileOK(startup) /\ FileOK(written) /\ ToolOK(Idle)
        /\ Overtaken(t) \subseteq Tools
    BY AboutGroups, IdleOK DEF TypeInv, Overtaken
  <1>2. /\ tool' = [tool EXCEPT ![t] = Idle] /\ touched' \subseteq Groups
        /\ UNCHANGED <<running, startup, at, written, served, loaded, script, saved, todo>>
    <2>1. CASE \E cmd : Tells(t, cmd)
      BY <1>1, <2>1 DEF Tells, fileVars, scriptVars, recoveryVars, Touches
    <2>2. CASE NoKernel(t)
      BY <1>1, <2>2 DEF NoKernel, fileVars, scriptVars, recoveryVars
    <2>3. QED
      BY <2>1, <2>2
         DEF TellsKernel, KernelJoins, KernelRefuses, KernelQuits, KernelMissing, KernelDeletes,
             KernelClears
  <1>3. stale' \subseteq Groups
    <2>1. CASE Overtakes(t)
      BY <1>1, <2>1 DEF Overtakes
    <2>2. CASE ~Overtakes(t)
      BY <1>1, <2>2, CommandFields
         DEF NoKernel, TellsKernel, KernelJoins, KernelRefuses, KernelQuits, KernelMissing,
             KernelDeletes, KernelClears, Tells
    <2>3. QED
      BY <2>1, <2>2
  <1>4. AbsTypeOK' /\ (~loaded => UNCHANGED <<groups, members>>)
    <2>1. AbsTypeOK /\ tool[t].req.R \subseteq VMs
      BY <1>1, CommandFields DEF TypeInv, Requests
    <2>2. tool[t].req.cmd \in {"join", "quit", "del"} => tool[t].req.g \in Groups
      BY <1>1, CommandFields
    <2>3. CASE NoKernel(t)
      BY <2>1, <2>3 DEF NoKernel, kernelVars, AbsTypeOK
    <2>4. CASE KernelJoins(t)
      BY <2>1, <2>2, <2>4 DEF KernelJoins, Tells, ExactJoin, AbsJoin, AbsTypeOK, Answers
    <2>5. CASE KernelRefuses(t)
      BY <2>1, <2>5 DEF KernelRefuses, Tells, ExactJoinRefused, AbsJoinRefused, AbsTypeOK, Answers
    <2>6. CASE KernelQuits(t)
      BY <2>1, <2>2, <2>6 DEF KernelQuits, Tells, AbsQuit, AbsTypeOK, Answers
    <2>7. CASE KernelMissing(t)
      BY <2>1, <2>7 DEF KernelMissing, Tells, AbsMissing, AbsTypeOK, Answers
    <2>8. CASE KernelDeletes(t)
      BY <2>1, <2>2, <2>8 DEF KernelDeletes, Tells, AbsDelete, AbsTypeOK, Answers
    <2>9. CASE KernelClears(t)
      BY <2>1, <2>9 DEF KernelClears, Tells, AbsClear, AbsTypeOK, Answers
    <2>10. QED
      BY <2>3, <2>4, <2>5, <2>6, <2>7, <2>8, <2>9 DEF TellsKernel
  <1>5. FileOK(running') /\ FileOK(startup') /\ FileOK(written') /\ todo' \subseteq Groups
    BY <1>1, <1>2 DEF TypeInv
  <1>6. QED
    BY <1>1, <1>2, <1>3, <1>4, <1>5, TypesOfStep

\* A kill leaves the running configuration as it is, or everything is stale.
LEMMA KilledStep ==
  ASSUME TypeInv, FileInv, NEW t \in Tools, Killed(t)
  PROVE  /\ tool' = [tool EXCEPT ![t] = Idle] /\ order' = Without(t) /\ tool[t].pc # "idle"
         /\ UNCHANGED <<groups, members, loaded, script, saved, todo, served, at>>
         /\ touched' = IF Starting THEN touched \cup About(t) ELSE touched
         /\ tool[t].out = "running" => startup' = startup
         /\ IF Filling(t) THEN stale' = Groups
            ELSE /\ UNCHANGED <<running, written>>
                 /\ stale' = IF t \in Pending THEN stale \cup About(t) ELSE stale
         /\ TypeInv' /\ FileInv'
  <1>1. /\ About(t) \subseteq Groups /\ stale \subseteq Groups /\ touched \subseteq Groups
        /\ FileOK(running) /\ FileOK(startup) /\ FileOK(written) /\ FileOK(Empty("noarray"))
        /\ Empty("noarray").file = "noarray" /\ ToolOK(Idle) /\ Idle.pc = "idle"
    BY AboutGroups, IdleOK, EmptyIsFile DEF TypeInv
  <1>2. /\ tool' = [tool EXCEPT ![t] = Idle] /\ order' = Without(t) /\ tool[t].pc # "idle"
        /\ UNCHANGED <<groups, members, ret, loaded, script, saved, todo, served, at>>
        /\ touched' = (IF Starting THEN touched \cup About(t) ELSE touched)
        /\ CutShort({t})
        /\ stale' = (IF Filling(t) THEN Groups
                     ELSE IF t \in Pending THEN stale \cup About(t) ELSE stale)
    BY DEF Killed, scriptVars, recoveryVars, kernelVars, CutShort
  <1>3. /\ startup' \in {startup, Empty("noarray")}
        /\ tool[t].out = "running" => startup' = startup
    BY DEF Killed, Saving
  <1>4. /\ running' \in {running, Empty("noarray")}
        /\ written' = (IF Filling(t) THEN running' ELSE written)
        /\ ~Filling(t) => running' = running
    BY <1>2 DEF CutShort
  <1>5. FileOK(running') /\ FileOK(startup') /\ FileOK(written')
    BY <1>1, <1>3, <1>4
  <1>6. stale' \subseteq Groups /\ touched' \subseteq Groups /\ todo' \subseteq Groups
    BY <1>1, <1>2 DEF TypeInv
  <1>7. AbsTypeOK'
    BY <1>2 DEF TypeInv, AbsTypeOK
  <1>8. TypeInv'
    BY <1>1, <1>2, <1>5, <1>6, <1>7, TypesOfStep
  <1>9. FileInv'
    <2>1. CASE Filling(t)
      <3>1. Rewritten
        BY <2>1 DEF Rewritten
      <3>2. running'.file # "absent" /\ running' = written'
        BY <1>1, <1>4, <2>1, <3>1 DEF FileInv
      <3>3. QED
        BY <3>2 DEF FileInv
    <2>2. CASE ~Filling(t)
      <3>1. Idle.pc \notin Writing
        BY <1>1 DEF Writing
      <3>2. Rewritten' <=> Rewritten
        BY <1>2, <2>2, <3>1, RewrittenSame
      <3>3. QED
        BY <1>4, <2>2, <3>2 DEF FileInv
    <2>3. QED
      BY <2>1, <2>2
  <1>10. QED
    BY <1>2, <1>3, <1>4, <1>8, <1>9

\* The file loses its name.
LEMMA UnlinksStep ==
  ASSUME TypeInv, FileInv, NEW to \in {"startup", "gone"}, Unlinks(to)
  PROVE  /\ tool' \in [Tools -> ToolStates]
         /\ \A t \in Tools :
              /\ ToolOK(tool'[t]) /\ tool'[t].pc = tool[t].pc /\ tool'[t].req = tool[t].req
              /\ tool'[t].copy = tool[t].copy /\ tool'[t].accepted = tool[t].accepted
              /\ tool'[t].child = tool[t].child /\ tool'[t].fd = tool[t].fd
              /\ tool[t].fd # at' /\ ~Filling(t)'
         /\ at' \in Inodes /\ running' = Empty("absent") /\ written' = Empty("absent")
         /\ FileOK(running') /\ FileOK(written') /\ FileInv'
         /\ Pending' = Pending /\ Writers' = Writers
         /\ \A t \in Tools : About(t)' = About(t)
  <1>1. /\ at' \in Inodes /\ running' = Empty("absent") /\ written' = Empty("absent")
        /\ \A t \in Tools : tool[t].fd # at'
        /\ FileOK(Empty("absent")) /\ Empty("absent").file = "absent"
    BY EmptyIsFile DEF Unlinks
  <1>2. ASSUME NEW t \in Tools
        PROVE  /\ ToolOK(tool'[t]) /\ tool'[t] \in ToolStates
               /\ tool'[t].pc = tool[t].pc /\ tool'[t].req = tool[t].req
               /\ tool'[t].copy = tool[t].copy /\ tool'[t].accepted = tool[t].accepted
               /\ tool'[t].child = tool[t].child /\ tool'[t].fd = tool[t].fd
               /\ ~Filling(t)'
    <2> DEFINE o == CASE Filling(t) -> to [] t \in Saving /\ to = "startup" -> "gone"
                      [] OTHER -> tool[t].out
    <2>1. tool'[t] = [tool[t] EXCEPT !.out = o] /\ tool[t] \in ToolStates /\ ToolOK(tool[t])
      BY DEF Unlinks, TypeInv
    <2>2. /\ o \in {"running", "startup", "gone"}
          /\ o # "running" => tool[t].pc \in Writing
          /\ tool[t].pc \in Writing => o # "running"
      BY <2>1 DEF Filling, Saving, ToolOK, ToolStates, Writing
    <2> HIDE DEF o
    <2>3. /\ tool'[t].pc = tool[t].pc /\ tool'[t].req = tool[t].req
          /\ tool'[t].copy = tool[t].copy /\ tool'[t].accepted = tool[t].accepted
          /\ tool'[t].child = tool[t].child /\ tool'[t].fd = tool[t].fd /\ tool'[t].out = o
          /\ tool'[t] \in ToolStates
      BY <2>1, <2>2 DEF ToolStates
    <2>4. ToolOK(tool'[t])
      BY <2>1, <2>2, <2>3 DEF ToolOK
    <2>5. ~Filling(t)'
      BY <2>2, <2>3 DEF Filling, Writing
    <2>6. QED
      BY <2>3, <2>4, <2>5
  <1>3. tool' \in [Tools -> ToolStates]
    <2>1. \E f : tool' = [t \in Tools |-> f[t]]
      <3>1. tool' = [t \in Tools |-> tool'[t]]
        BY DEF Unlinks
      <3>2. QED
        BY <3>1
    <2>2. QED
      BY <1>2, <2>1
  <1>4. ~Rewritten'
    BY <1>2 DEF Rewritten
  <1>5. FileInv'
    BY <1>1, <1>4 DEF FileInv
  <1>6. Pending' = Pending /\ Writers' = Writers
    BY <1>2 DEF Pending, Writers
  <1>7. \A t \in Tools : About(t)' = About(t)
    BY <1>2 DEF About
  <1>8. QED
    BY <1>1, <1>2, <1>3, <1>5, <1>6, <1>7

ScriptSteps ==
  \/ StartRemoves \/ StartLoads \/ StartFails \/ RecoveryEnds
  \/ StopUnloads \/ StopFindsBusy \/ StopSaves \/ StopRemoves

\* The script takes the file's name away, or changes no tool and no file but the startup's.
LEMMA ScriptFiles ==
  ASSUME TypeInv, FileInv, ScriptSteps
  PROVE  \/ /\ \E to \in {"startup", "gone"} : Unlinks(to)
            /\ StartRemoves \/ StopSaves \/ StopRemoves
         \/ /\ UNCHANGED <<tool, running, at, written>>
            /\ ~StartRemoves /\ ~StopRemoves
  <1>1. CASE StartRemoves
    BY <1>1 DEF StartRemoves
  <1>2. CASE StopRemoves
    BY <1>2 DEF StopRemoves
  <1>3. CASE StopSaves
    <2>1. CASE running.file = "absent"
      BY <1>1, <1>2, <1>3, <2>1 DEF StopSaves, fileVars
    <2>2. CASE running.file # "absent"
      BY <1>3, <2>2 DEF StopSaves
    <2>3. QED
      BY <2>1, <2>2
  <1>4. CASE /\ StartLoads \/ StartFails \/ RecoveryEnds \/ StopUnloads \/ StopFindsBusy
             /\ ~StartRemoves /\ ~StopRemoves
    BY <1>4 DEF StartLoads, StartFails, RecoveryEnds, StopUnloads, StopFindsBusy, fileVars
  <1>5. QED
    BY <1>1, <1>2, <1>3, <1>4 DEF ScriptSteps

LEMMA TypesScript ==
  ASSUME TypeInv, FileInv, ScriptSteps
  PROVE  TypeInv' /\ FileInv'
  <1>1. /\ tool' \in [Tools -> ToolStates] /\ \A t \in Tools : ToolOK(tool'[t])
        /\ FileOK(running') /\ FileOK(written') /\ at' \in Inodes /\ FileInv'
    <2>1. CASE \E to \in {"startup", "gone"} : Unlinks(to)
      BY <2>1, UnlinksStep
    <2>2. CASE UNCHANGED <<tool, running, at, written>>
      <3>1. FileInv'
        BY <2>2 DEF FileInv, Rewritten, Filling
      <3>2. QED
        BY <2>2, <3>1 DEF TypeInv
    <2>3. QED
      BY <2>1, <2>2, ScriptFiles
  <1>2. /\ FileOK(Empty("absent")) /\ FileOK(running) /\ FileOK(startup) /\ FileOK(saved)
        /\ PendingGroups \subseteq Groups /\ startup.groups \subseteq Groups /\ AbsTypeOK
        /\ todo \subseteq Groups /\ stale \subseteq Groups /\ touched \subseteq Groups
        /\ served \in [groups : SUBSET Groups, members : [Groups -> SUBSET VMs], orderly : BOOLEAN]
        /\ loaded \in BOOLEAN
    BY EmptyIsFile, AboutGroups DEF TypeInv, FileOK, WellFormed, Config
  <1>3. NotServed \in [groups : SUBSET Groups, members : [Groups -> SUBSET VMs], orderly : BOOLEAN]
    BY DEF NotServed
  <1>4. FileOK(startup') /\ FileOK(saved')
    BY <1>2 DEF ScriptSteps, StartRemoves, StartLoads, StartFails, RecoveryEnds, StopUnloads,
                StopFindsBusy, StopSaves, StopRemoves, fileVars, recoveryVars
  <1>5. todo' \subseteq Groups /\ stale' \subseteq Groups /\ touched' \subseteq Groups
    BY <1>2 DEF ScriptSteps, StartRemoves, StartLoads, StartFails, RecoveryEnds, StopUnloads,
                StopFindsBusy, StopSaves, StopRemoves, recoveryVars
  <1>6. loaded' \in BOOLEAN /\ script' \in {"idle", "load", "recover", "save", "clean"}
    BY <1>2 DEF ScriptSteps, StartRemoves, StartLoads, StartFails, RecoveryEnds, StopUnloads,
                StopFindsBusy, StopSaves, StopRemoves
  <1>7. served' \in [groups : SUBSET Groups, members : [Groups -> SUBSET VMs], orderly : BOOLEAN]
    <2>1. \/ served' = served \/ served' = NotServed
          \/ \E b \in BOOLEAN : served' = [groups |-> groups, members |-> members, orderly |-> b]
      BY DEF ScriptSteps, StartRemoves, StartLoads, StartFails, RecoveryEnds, StopUnloads,
             StopFindsBusy, StopSaves, StopRemoves
    <2>2. QED
      BY <1>2, <1>3, <2>1 DEF AbsTypeOK
  <1>8. AbsTypeOK' /\ (~loaded' => groups' = {} /\ members' = [g \in Groups |-> {}])
    <2>1. CASE StopUnloads
      BY <1>2, <2>1 DEF StopUnloads, AbsTypeOK
    <2>2. CASE ~StopUnloads
      <3>1. UNCHANGED <<groups, members, ret>> /\ (~loaded' => ~loaded)
        BY <2>2 DEF ScriptSteps, StartRemoves, StartLoads, StartFails, RecoveryEnds, StopFindsBusy,
                    StopSaves, StopRemoves, kernelVars
      <3>2. QED
        BY <1>2, <3>1 DEF TypeInv, AbsTypeOK
    <2>3. QED
      BY <2>1, <2>2
  <1>9. QED
    BY <1>1, <1>4, <1>5, <1>6, <1>7, <1>8 DEF TypeInv

LEMMA TypesPowerLoss ==
  ASSUME TypeInv, FileInv, PowerLoss
  PROVE  TypeInv' /\ FileInv'
  <1>1. /\ FileOK(Empty("noarray")) /\ FileOK(Empty("absent")) /\ ToolOK(Idle)
        /\ Idle \in ToolStates /\ Idle.pc = "idle"
    BY EmptyIsFile, IdleOK
  <1>2. /\ running' \in {running, Empty("noarray")} /\ at' = at
        /\ written' = (IF Rewritten THEN running' ELSE written)
        /\ ~Rewritten => running' = running
    BY DEF PowerLoss, CutShort, Rewritten
  <1>3. startup' \in {startup, Empty("noarray")}
    BY DEF PowerLoss
  <1>4. FileOK(running') /\ FileOK(written') /\ FileOK(startup') /\ at' \in Inodes
    BY <1>1, <1>2, <1>3 DEF TypeInv
  <1>5. \A t \in Tools : tool'[t] = Idle
    BY DEF PowerLoss
  <1>6. tool' \in [Tools -> ToolStates] /\ \A t \in Tools : ToolOK(tool'[t])
    BY <1>1, <1>5 DEF PowerLoss
  <1>7. served' \in [groups : SUBSET Groups, members : [Groups -> SUBSET VMs], orderly : BOOLEAN]
    BY DEF PowerLoss, NotServed
  <1>8. TypeInv'
    BY <1>1, <1>4, <1>6, <1>7 DEF PowerLoss, TypeInv, AbsTypeOK
  <1>9. ~Rewritten'
    BY <1>1, <1>5 DEF Rewritten, Filling
  <1>10. running' = written'
    BY <1>2 DEF FileInv
  <1>11. QED
    BY <1>8, <1>9, <1>10 DEF FileInv

-----------------------------------------------------------------------------
(* The order in which tools have to tell the kernel                        *)

LEMMA PositionOf ==
  ASSUME OrderInv, NEW t \in Pending
  PROVE  Position(t) \in 1 .. Len(order) /\ order[Position(t)] = t
  BY DEF OrderInv, Position

LEMMA WithoutOne ==
  ASSUME OrderInv, NEW t \in Pending
  PROVE  /\ Without(t) \in Seq(Tools) /\ Len(order) \in Nat /\ Len(order) > 0
         /\ Len(Without(t)) = Len(order) - 1
         /\ \A i \in 1 .. Len(order) - 1 :
              Without(t)[i] = IF i < Position(t) THEN order[i] ELSE order[i + 1]
  <1> DEFINE n == Len(order)
             p == Position(t)
  <1>1. order \in Seq(Tools) /\ n \in Nat /\ p \in 1 .. n
    BY PositionOf DEF OrderInv
  <1>2. Without(t) = SubSeq(order, 1, p - 1) \o SubSeq(order, p + 1, n)
    BY DEF Without, RemoveAt
  <1> HIDE DEF n, p
  <1> DEFINE a == SubSeq(order, 1, p - 1)
             b == SubSeq(order, p + 1, n)
  <1>3. a \in Seq(Tools) /\ Len(a) = p - 1 /\ \A i \in 1 .. p - 1 : a[i] = order[i]
    BY <1>1 DEF n
  <1>4. b \in Seq(Tools) /\ Len(b) = n - p /\ \A i \in 1 .. n - p : b[i] = order[p + i]
    BY <1>1 DEF n
  <1> HIDE DEF a, b
  <1>5. a \o b \in Seq(Tools) /\ Len(a \o b) = n - 1
    <2>1. a \in Seq(Tools) /\ b \in Seq(Tools)
      BY <1>3, <1>4
    <2>2. a \o b \in Seq(Tools) /\ Len(a \o b) = Len(a) + Len(b)
      BY <2>1
    <2>3. QED
      BY <1>1, <1>3, <1>4, <2>2
  <1>6. ASSUME NEW i \in 1 .. n - 1
        PROVE  (a \o b)[i] = IF i < p THEN order[i] ELSE order[i + 1]
    <2>1. CASE i < p
      BY <1>1, <1>3, <1>4, <2>1
    <2>2. CASE ~(i < p)
      <3>1. (a \o b)[i] = b[i - (p - 1)] /\ i - (p - 1) \in 1 .. n - p
        BY <1>1, <1>3, <1>4, <2>2
      <3>2. p + (i - (p - 1)) = i + 1
        BY <1>1
      <3>3. QED
        BY <1>4, <2>2, <3>1, <3>2
    <2>3. QED
      BY <2>1, <2>2
  <1>7. Without(t) = a \o b /\ n > 0
    BY <1>1, <1>2 DEF a, b
  <1>8. QED
    BY <1>1, <1>5, <1>6, <1>7 DEF n, p

\* Steps that leave the order alone change no pending tool.
LEMMA OrderSame ==
  ASSUME OrderInv, order' = order, Pending' = Pending
  PROVE  OrderInv'
  BY DEF OrderInv

LEMMA OrderAppends ==
  ASSUME TypeInv, OrderInv, NEW t \in Tools, t \notin Pending, order' = Append(order, t),
         Pending' = Pending \cup {t}
  PROVE  OrderInv'
  <1> DEFINE n == Len(order)
  <1>1. order \in Seq(Tools) /\ n \in Nat
    BY DEF OrderInv
  <1>2. /\ order' \in Seq(Tools) /\ Len(order') = n + 1 /\ order'[n + 1] = t
        /\ \A i \in 1 .. n : order'[i] = order[i]
    BY <1>1
  <1>3. \A i \in 1 .. n + 1 : order'[i] \in Pending'
    BY <1>1, <1>2 DEF OrderInv
  <1>4. ASSUME NEW i \in 1 .. n + 1, NEW j \in 1 .. n + 1, order'[i] = order'[j]
        PROVE  i = j
    <2>1. CASE i \in 1 .. n /\ j \in 1 .. n
      BY <1>2, <1>4, <2>1 DEF OrderInv
    <2>2. CASE i = n + 1 \/ j = n + 1
      <3>1. \A k \in 1 .. n : order'[k] # t
        BY <1>2 DEF OrderInv
      <3>2. QED
        BY <1>1, <1>2, <1>4, <2>2, <3>1
    <2>3. QED
      BY <1>1, <2>1, <2>2
  <1>5. ASSUME NEW u \in Pending' PROVE \E i \in 1 .. n + 1 : order'[i] = u
    <2>1. CASE u = t
      BY <1>1, <1>2, <2>1
    <2>2. CASE u \in Pending
      <3>1. PICK i \in 1 .. n : order[i] = u
        BY <2>2 DEF OrderInv
      <3>2. i \in 1 .. n + 1 /\ order'[i] = u
        BY <1>1, <1>2, <3>1
      <3>3. QED
        BY <3>2
    <2>3. QED
      BY <2>1, <2>2
  <1>6. QED
    BY <1>2, <1>3, <1>4, <1>5 DEF OrderInv

LEMMA OrderRemoves ==
  ASSUME TypeInv, OrderInv, NEW t \in Pending, order' = Without(t), Pending' = Pending \ {t}
  PROVE  OrderInv'
  <1> DEFINE n == Len(order)
             p == Position(t)
  <1>1. p \in 1 .. n /\ order[p] = t
    BY PositionOf
  <1>2. /\ order' \in Seq(Tools) /\ n \in Nat /\ Len(order') = n - 1
        /\ \A i \in 1 .. n - 1 : order'[i] = IF i < p THEN order[i] ELSE order[i + 1]
    BY WithoutOne
  <1>3. /\ \A i \in 1 .. n : order[i] \in Pending
        /\ \A i, j \in 1 .. n : order[i] = order[j] => i = j
    BY DEF OrderInv
  <1> HIDE DEF n, p
  <1>4. ASSUME NEW i \in 1 .. n - 1 PROVE order'[i] \in Pending'
    <2>1. CASE i < p
      BY <1>1, <1>2, <1>3, <2>1
    <2>2. CASE ~(i < p)
      <3>1. i + 1 \in 1 .. n /\ i + 1 # p
        BY <1>1, <1>2, <2>2
      <3>2. QED
        BY <1>1, <1>2, <1>3, <2>2, <3>1
    <2>3. QED
      BY <2>1, <2>2
  <1>5. ASSUME NEW i \in 1 .. n - 1, NEW j \in 1 .. n - 1, order'[i] = order'[j]
        PROVE  i = j
    <2> DEFINE Old(k) == IF k < p THEN k ELSE k + 1
    <2>1. Old(i) \in 1 .. n /\ Old(j) \in 1 .. n /\ (Old(i) = Old(j) => i = j)
      BY <1>1, <1>2
    <2>2. order'[i] = order[Old(i)] /\ order'[j] = order[Old(j)]
      BY <1>2
    <2> HIDE DEF Old
    <2>3. QED
      BY <1>3, <1>5, <2>1, <2>2
  <1>6. ASSUME NEW u \in Pending' PROVE \E i \in 1 .. n - 1 : order'[i] = u
    <2>1. PICK k \in 1 .. n : order[k] = u
      BY DEF OrderInv, n
    <2>2. k # p
      BY <1>1, <2>1
    <2>3. CASE k < p
      <3>1. k \in 1 .. n - 1 /\ order'[k] = u
        BY <1>1, <1>2, <2>1, <2>3
      <3>2. QED
        BY <3>1
    <2>4. CASE k > p
      <3>1. k - 1 \in 1 .. n - 1 /\ ~(k - 1 < p) /\ (k - 1) + 1 = k
        BY <1>1, <1>2, <2>4
      <3>2. order'[k - 1] = u
        BY <1>2, <2>1, <3>1
      <3>3. QED
        BY <3>1, <3>2
    <2>5. QED
      BY <1>1, <2>2, <2>3, <2>4
  <1>7. QED
    BY <1>2, <1>4, <1>5, <1>6 DEF OrderInv

-----------------------------------------------------------------------------
(* The configuration and the kernel                                        *)

Asked == [i \in 1 .. Len(order) |-> tool[order[i]].req]

\* While the module runs, and while it is being loaded, the configuration is held against
\* the kernel's table; after an orderly rmmod, against the table as it was.
Unloaded == script = "save" /\ served.orderly
Active == loaded \/ script = "load" \/ Unloaded
Base == IF Unloaded THEN served ELSE Table

(***************************************************************************)
(* The requests that tools have yet to tell the kernel, in the order in    *)
(* which they wrote the configuration, lead from the kernel's table to the *)
(* configuration as it was written last.                                   *)
(***************************************************************************)
Following(g) == Leads(Entry(Base, g), Entry(written, g), g, Asked, Len(order))
SyncInv == Active => \A g \in Groups \ stale : Following(g)

(***************************************************************************)
(* s has the configuration c in its copy, edited if it is to be.           *)
(***************************************************************************)
CopyOf(s, c) ==
  \A g \in Groups :
    IF s.pc \in {"edit", "editfill"} /\ s.accepted /\ g \in Concerns(s.req)
    THEN /\ Allowed(s.req, Entry(c, g))
         /\ Entry(s.copy, g) = Effect(s.req, g, Entry(c, g))
    ELSE Entry(s.copy, g) = Entry(c, g)

\* Unless everything is stale, no tool has a file open that is gone, and who has a copy has
\* one of the configuration.
StrayInv == Active /\ stale # Groups => Strays = {}
WriterInv == Active /\ stale # Groups => \A t \in Writers : CopyOf(tool[t], written)

\* The module is away after an orderly rmmod; before the first command the configuration is
\* absent, and agrees with the kernel all the same.
ScriptInv ==
  /\ Unloaded => ~loaded
  /\ script = "recover" => loaded
  /\ Active /\ running.file = "absent" /\ stale # Groups =>
       \/ script = "load" /\ ~loaded
       \/ script = "recover" /\ todo = saved.groups
       \/ script # "recover" /\ startup.groups = {}

IInv ==
  /\ TypeInv /\ OrderInv /\ LockInv /\ OutInv /\ FileInv
  /\ SyncInv /\ StrayInv /\ WriterInv /\ ScriptInv

LEMMA AskedFacts ==
  ASSUME TypeInv, OrderInv
  PROVE  /\ Len(order) \in Nat
         /\ \A i \in 1 .. Len(order) : /\ order[i] \in Pending /\ Asked[i] = tool[order[i]].req
                                       /\ Concerns(Asked[i]) = About(order[i])
  BY AboutGroups DEF OrderInv, Asked

\* A group that no pending tool is about.
LEMMA NobodyAsks ==
  ASSUME TypeInv, OrderInv, NEW g \in Groups, g \notin PendingGroups
  PROVE  \A i \in 1 .. Len(order) : g \notin Concerns(Asked[i])
  BY AskedFacts DEF PendingGroups

LEMMA SyncKeeps ==
  ASSUME TypeInv, OrderInv, SyncInv, order' = order,
         \A t \in Pending : tool'[t].req = tool[t].req,
         Active' => Active,
         Active' => \A g \in Groups \ stale' :
           /\ g \notin stale
           /\ Entry(Base, g)' = Entry(Base, g) /\ Entry(written, g)' = Entry(written, g)
  PROVE  SyncInv'
  <1>1. Asked' = Asked
    BY AskedFacts DEF Asked
  <1>2. SUFFICES ASSUME Active', NEW g \in Groups \ stale'
                 PROVE  Leads(Entry(Base, g)', Entry(written, g)', g, Asked', Len(order'))
    BY DEF SyncInv, Following
  <1>3. Leads(Entry(Base, g), Entry(written, g), g, Asked, Len(order))
    BY <1>2 DEF SyncInv, Following
  <1>4. Entry(Base, g)' = Entry(Base, g) /\ Entry(written, g)' = Entry(written, g)
    BY <1>2
  <1>5. QED
    BY <1>1, <1>3, <1>4

\* t has written its request into the configuration.
LEMMA SyncAppends ==
  ASSUME TypeInv, OrderInv, SyncInv, NEW t \in Tools, tool[t].pc \in {"reopen", "editfill"}, ToKernel(t),
         Active' => Active,
         Active => \A g \in Groups : Entry(Base, g)' = Entry(Base, g),
         Active /\ stale # Groups => \A g \in Groups :
           IF g \in About(t)
           THEN /\ Allowed(tool[t].req, Entry(written, g))
                /\ Entry(written, g)' = Effect(tool[t].req, g, Entry(written, g))
           ELSE Entry(written, g)' = Entry(written, g),
         tool[t].req.cmd \in {"del", "clear"} /\ Strays = {} =>
           \A g \in About(t) : Entry(written, g)' = None
  PROVE  SyncInv'
  <1> DEFINE n == Len(order)
             req == tool[t].req
  <1>1. /\ n \in Nat /\ order' = Append(order, t) /\ Len(order') = n + 1 /\ order'[n + 1] = t
        /\ \A i \in 1 .. n : order'[i] = order[i] /\ order[i] \in Pending
    BY DEF ToKernel, OrderInv
  <1>2. /\ tool' = [tool EXCEPT ![t] = Telling(tool[t])] /\ tool \in [Tools -> ToolStates]
        /\ ToolOK(tool[t])
    BY ToKernelTool DEF TypeInv
  <1>3. \A u \in Tools : tool'[u].req = tool[u].req
    <2>1. Telling(tool[t]).req = tool[t].req
      BY <1>2, TellingTool
    <2>2. QED
      BY <1>2, <2>1
  <1>4. /\ \A i \in 1 .. n : Asked'[i] = Asked[i]
        /\ Asked'[n + 1] = req
    <2>1. Pending \subseteq Tools
      BY DEF Pending
    <2>2. QED
      BY <1>1, <1>3, <2>1 DEF Asked
  <1>5. Concerns(req) = About(t)
    BY AboutGroups
  <1>6. SUFFICES ASSUME Active', NEW g \in Groups \ stale'
                 PROVE  Leads(Entry(Base, g)', Entry(written, g)', g, Asked', n + 1)
    BY <1>1 DEF SyncInv, Following
  <1>7. Active /\ Entry(Base, g)' = Entry(Base, g)
    BY <1>6
  <1>8. CASE g \notin stale
    <2>1. Leads(Entry(Base, g), Entry(written, g), g, Asked, n) /\ stale # Groups
      BY <1>6, <1>7, <1>8 DEF SyncInv, Following
    <2>2. IF g \in Concerns(Asked'[n + 1])
          THEN /\ Allowed(Asked'[n + 1], Entry(written, g))
               /\ Entry(written, g)' = Effect(Asked'[n + 1], g, Entry(written, g))
          ELSE Entry(written, g)' = Entry(written, g)
      BY <1>4, <1>5, <1>7, <2>1
    <2> HIDE DEF n
    <2>3. Leads(Entry(Base, g), Entry(written, g)', g, Asked', n + 1)
      BY <1>1, <1>4, <2>1, <2>2, LeadsAppend
    <2>4. QED
      BY <1>7, <2>3
  <1>9. CASE g \in stale
    <2>1. /\ req.cmd \in {"del", "clear"} /\ g \in About(t) /\ g \notin PendingGroups
          /\ Strays = {}
      BY <1>6, <1>9 DEF ToKernel, StaleAfterWrite
    <2>2. \A i \in 1 .. n : g \notin Concerns(Asked[i])
      BY <2>1, NobodyAsks
    <2>3. Leads(Entry(Base, g), Entry(Base, g), g, Asked, n)
      BY <1>1, <2>2, LeadsQuiet
    <2>4. /\ Allowed(Asked'[n + 1], Entry(Base, g))
          /\ Entry(written, g)' = Effect(Asked'[n + 1], g, Entry(Base, g))
          /\ g \in Concerns(Asked'[n + 1])
      BY <1>4, <1>5, <2>1 DEF Allowed, Effect
    <2> HIDE DEF n
    <2>5. Leads(Entry(Base, g), Entry(written, g)', g, Asked', n + 1)
      BY <1>1, <1>4, <2>3, <2>4, LeadsAppend
    <2>6. QED
      BY <1>7, <2>5
  <1>10. QED
    BY <1>8, <1>9

\* t is through with the kernel: a group that is not stale afterwards has taken t's request
\* before any other, or t was not about it.
LEMMA SyncRemoves ==
  ASSUME TypeInv, OrderInv, SyncInv, NEW t \in Pending, order' = Without(t),
         \A u \in Pending \ {t} : tool'[u] = tool[u],
         Active' => Active,
         Active => \A g \in Groups \ stale' :
           /\ g \notin stale /\ Entry(written, g)' = Entry(written, g)
           /\ g \notin About(t) => Entry(Base, g)' = Entry(Base, g)
           /\ g \in About(t) => /\ \A u \in Overtaken(t) : g \notin About(u)
                                /\ Entry(Base, g)' = Effect(tool[t].req, g, Entry(Base, g))
  PROVE  SyncInv'
  <1> DEFINE n == Len(order)
             p == Position(t)
  <1>1. p \in 1 .. n /\ order[p] = t /\ n \in Nat
    BY PositionOf DEF OrderInv
  <1>2. Len(order') = n - 1 /\ \A i \in 1 .. n - 1 : order'[i] = IF i < p THEN order[i] ELSE order[i + 1]
    BY WithoutOne
  <1>3. /\ \A i \in 1 .. n : order[i] \in Pending
        /\ \A i, j \in 1 .. n : order[i] = order[j] => i = j
    BY DEF OrderInv
  <1>4. Asked[p] = tool[t].req /\ Concerns(Asked[p]) = About(t) /\ t \in Tools
    BY <1>1, AskedFacts DEF Pending
  <1>5. ASSUME NEW i \in 1 .. n - 1
        PROVE  Asked'[i] = IF i < p THEN Asked[i] ELSE Asked[i + 1]
    <2>1. Asked'[i] = tool'[order'[i]].req
      BY <1>2 DEF Asked
    <2>2. CASE i < p
      <3>1. i \in 1 .. n /\ order[i] \in Pending \ {t} /\ order'[i] = order[i]
        BY <1>1, <1>2, <1>3, <2>2
      <3>2. QED
        BY <2>1, <2>2, <3>1, AskedFacts
    <2>3. CASE ~(i < p)
      <3>1. i + 1 \in 1 .. n /\ i + 1 # p
        BY <1>1, <2>3
      <3>2. order[i + 1] \in Pending \ {t} /\ order'[i] = order[i + 1]
        BY <1>1, <1>2, <1>3, <2>3, <3>1
      <3>3. QED
        BY <2>1, <2>3, <3>1, <3>2, AskedFacts
    <2>4. QED
      BY <2>2, <2>3
  <1>6. SUFFICES ASSUME Active', NEW g \in Groups \ stale'
                 PROVE  Leads(Entry(Base, g)', Entry(written, g)', g, Asked', n - 1)
    BY <1>2 DEF SyncInv, Following
  <1>7. Active /\ g \notin stale /\ Entry(written, g)' = Entry(written, g)
    BY <1>6
  <1>8. Leads(Entry(Base, g), Entry(written, g), g, Asked, n)
    BY <1>6, <1>7 DEF SyncInv, Following
  <1>9. CASE g \notin About(t)
    <2>1. Entry(Base, g)' = Entry(Base, g)
      BY <1>6, <1>7, <1>9
    <2> HIDE DEF n, p
    <2>2. Leads(Entry(Base, g), Entry(written, g), g, Asked', n - 1)
      BY <1>1, <1>4, <1>5, <1>8, <1>9, LeadsWithout
    <2>3. QED
      BY <1>7, <2>1, <2>2
  <1>10. CASE g \in About(t)
    <2>1. /\ \A u \in Overtaken(t) : g \notin About(u)
          /\ Entry(Base, g)' = Effect(tool[t].req, g, Entry(Base, g))
      BY <1>6, <1>7, <1>10
    <2>2. ASSUME NEW i \in 1 .. p - 1 PROVE g \notin Concerns(Asked[i])
      <3>1. i \in 1 .. n /\ order[i] \in Pending \ {t} /\ i < p
        BY <1>1, <1>3
      <3>2. Position(order[i]) = i
        BY <1>3, <3>1, PositionOf
      <3>3. About(order[i]) \cap About(t) # {} => order[i] \in Overtaken(t)
        BY <3>1, <3>2 DEF Overtaken
      <3>4. QED
        BY <1>10, <2>1, <3>1, <3>3, AskedFacts
    <2> HIDE DEF n, p
    <2>3. Leads(Effect(Asked[p], g, Entry(Base, g)), Entry(written, g), g, Asked', n - 1)
      BY <1>1, <1>4, <1>5, <1>8, <1>10, <2>2, LeadsFirst
    <2>4. QED
      BY <1>4, <1>7, <2>1, <2>3
  <1>11. QED
    BY <1>9, <1>10

-----------------------------------------------------------------------------
(* Steps, one by one: the invariant                                        *)

LEMMA SameService ==
  ASSUME UNCHANGED <<loaded, script, served>>
  PROVE  /\ Active' = Active /\ Unloaded' = Unloaded
         /\ UNCHANGED <<groups, members>> => Base' = Base
  BY DEF Active, Unloaded, Base, Table

\* The steps that change t only, and not whether it has to tell the kernel.
LEMMA OrderOfStep ==
  ASSUME TypeInv, OrderInv, NEW t \in Tools, NEW s, tool' = [tool EXCEPT ![t] = s],
         s.pc = "kernel" <=> tool[t].pc = "kernel", order' = order
  PROVE  OrderInv'
  <1>1. Pending' = Pending
    BY DEF Pending, TypeInv
  <1>2. QED
    BY <1>1, OrderSame

\* When every open file is the running configuration, its lock is everybody's.
LEMMA OneFile ==
  ASSUME TypeInv, LockInv, Strays = {}
  PROVE  /\ \A t \in Tools : tool[t].pc \notin Between => tool[t].fd = at
         /\ \A t, u \in Holders : t = u
         /\ \A t \in Tools : tool[t].pc \notin Between /\ Locks(t) => Holders = {}
  <1>1. ASSUME NEW t \in Tools, tool[t].pc \notin Between PROVE tool[t].fd = at
    <2>1. tool[t].fd # NoFile
      BY <1>1 DEF TypeInv, ToolOK
    <2>2. QED
      BY <2>1 DEF Strays
  <1>2. \A t \in Holders : tool[t].fd = at
    BY <1>1 DEF Holders, Between
  <1>3. QED
    BY <1>1, <1>2 DEF LockInv, Locks

\* ... and who rewrites it holds that.
LEMMA RewritersHold ==
  /\ \A t \in Tools : Filling(t) => t \in Holders /\ t \in Writers
  /\ Writers \subseteq Holders
  /\ Holders = {} => ~Rewritten
  BY DEF Filling, Holders, Writers, Copying, Rewritten

\* A step of t, not about the kernel, that leaves the configuration as it was written.
LEMMA InvOneTool ==
  ASSUME IInv, TypeInv', FileInv', NEW t \in Tools, NEW s, tool' = [tool EXCEPT ![t] = s],
         tool[t].pc # "kernel", s.pc # "kernel",
         UNCHANGED <<groups, members, loaded, script, saved, served, order, stale, at>>,
         s.fd \in {NoFile, at, tool[t].fd}, s.out = "running",
         running'.file # "absent" \/ (running' = running /\ s.fd \in {NoFile, tool[t].fd}),
         s.pc \in Copying \cup {"locked"} => s.fd = tool[t].fd /\ (t \in Holders \/ Locks(t)),
         Active /\ stale # Groups =>
           /\ startup' = startup
           /\ running'.file # "absent" \/ todo' = todo
           /\ \A g \in Groups : Entry(written, g)' = Entry(written, g)
           /\ s.pc \in Copying => CopyOf(s, written')
  PROVE  IInv'
  <1>1. /\ TypeInv /\ OrderInv /\ LockInv /\ OutInv /\ FileInv /\ SyncInv /\ StrayInv /\ WriterInv
        /\ ScriptInv /\ tool \in [Tools -> ToolStates] /\ stale \subseteq Groups
    BY DEF IInv, TypeInv
  <1>2. tool'[t] = s /\ \A u \in Tools \ {t} : tool'[u] = tool[u]
    BY <1>1
  <1>3. Active' = Active /\ Unloaded' = Unloaded /\ \A g : Entry(Base, g)' = Entry(Base, g)
    BY SameService DEF Entry
  <1>4. OrderInv'
    BY <1>1, OrderOfStep
  <1>5. LockInv'
    <2> SUFFICES ASSUME NEW u \in Holders', NEW v \in Holders', tool'[u].fd = tool'[v].fd
                 PROVE  u = v
      BY DEF LockInv
    <2>1. \A w \in Holders' : w # t => w \in Holders /\ tool'[w] = tool[w]
      BY <1>2 DEF Holders
    <2>2. t \in Holders' => /\ tool'[t].fd = tool[t].fd
                            /\ t \in Holders \/ Locks(t)
      BY <1>2 DEF Holders, Copying
    <2>3. ASSUME NEW w \in Holders, t \in Holders', tool[w].fd = tool[t].fd PROVE w = t
      BY <1>1, <2>2, <2>3 DEF LockInv, Locks
    <2>4. QED
      BY <1>1, <2>1, <2>2, <2>3 DEF LockInv
  <1>6. OutInv'
    <2> SUFFICES ASSUME NEW u \in Tools
                 PROVE  /\ tool'[u].out # "running" => tool'[u].fd # at
                        /\ tool'[u].fd = at => running'.file # "absent"
      BY DEF OutInv
    <2>1. NoFile # at
      BY <1>1, AdminAssumption DEF TypeInv
    <2>2. QED
      BY <1>1, <1>2, <2>1 DEF OutInv
  <1>7. SyncInv'
    <2>1. \A u \in Pending : tool'[u].req = tool[u].req
      BY <1>2 DEF Pending
    <2>2. \A g \in Groups \ stale : Active => Entry(written, g)' = Entry(written, g)
      BY <1>1
    <2>3. QED
      BY <1>1, <1>3, <2>1, <2>2, SyncKeeps
  <1>8. StrayInv'
    <2> SUFFICES ASSUME Active, stale # Groups PROVE Strays' = {}
      BY <1>3 DEF StrayInv
    <2>1. Strays = {}
      BY <1>1 DEF StrayInv
    <2>2. QED
      BY <1>2, <2>1 DEF Strays
  <1>9. WriterInv'
    <2> SUFFICES ASSUME Active, stale # Groups, NEW u \in Writers' PROVE CopyOf(tool'[u], written')
      BY <1>3 DEF WriterInv
    <2>1. CASE u = t
      BY <1>2, <2>1 DEF Writers
    <2>2. CASE u # t
      <3>1. tool'[u] = tool[u] /\ CopyOf(tool[u], written)
        BY <1>1, <1>2, <2>2 DEF WriterInv, Writers
      <3>2. \A g \in Groups : Entry(written', g) = Entry(written, g)
        BY DEF Entry
      <3>3. QED
        BY <3>1, <3>2 DEF CopyOf
    <2>3. QED
      BY <2>1, <2>2
  <1>10. ScriptInv'
    <2>1. ASSUME Active', running'.file = "absent", stale' # Groups
          PROVE  Active /\ running.file = "absent" /\ stale # Groups /\ UNCHANGED <<todo, startup>>
      BY <1>3, <2>1
    <2>2. QED
      BY <1>1, <1>3, <2>1 DEF ScriptInv
  <1>11. QED
    BY <1>4, <1>5, <1>6, <1>7, <1>8, <1>9, <1>10 DEF IInv

LEMMA InvOpens ==
  ASSUME IInv, NEW t \in Tools, NEW req \in Commands, NEW child \in BOOLEAN,
         InitOpens(t, req, child), todo' \subseteq Groups
  PROVE  IInv'
  <1> DEFINE s == Opening(req, child, at)
  <1>1. /\ tool[t].pc = "idle" /\ tool' = [tool EXCEPT ![t] = s]
        /\ s.pc = "open" /\ s.fd = at /\ s.out = "running"
        /\ UNCHANGED <<groups, members, startup, at, loaded, script, saved, order, stale, served>>
        /\ Creates /\ TypeInv' /\ FileInv'
    BY OpensStep DEF IInv
  <1> HIDE DEF s
  <1>2. running'.file # "absent" /\ \A g \in Groups : Entry(written, g)' = Entry(written, g)
    BY <1>1, CreatesFile DEF IInv
  <1>3. s.pc \notin Copying \cup {"locked"}
    BY <1>1 DEF Copying
  <1>4. QED
    BY <1>1, <1>2, <1>3, InvOneTool

LEMMA InvLocks ==
  ASSUME IInv, NEW t \in Tools, InitLocks(t)
  PROVE  IInv'
  <1> DEFINE s == Moving(tool[t], "locked")
  <1>1. /\ tool[t].pc = "open" /\ tool' = [tool EXCEPT ![t] = s]
        /\ s.pc = "locked" /\ s.fd = tool[t].fd /\ s.out = "running"
        /\ Locks(t) /\ Creates /\ SameTable /\ SameHistory /\ TypeInv' /\ FileInv'
    BY LocksStep DEF IInv
  <1> HIDE DEF s
  <1>2. /\ running'.file # "absent" /\ startup' = startup
        /\ \A g \in Groups : Entry(written, g)' = Entry(written, g)
    BY <1>1, CreatesFile DEF IInv
  <1>3. s.pc \notin Copying
    BY <1>1 DEF Copying
  <1>4. QED
    BY <1>1, <1>2, <1>3, InvOneTool DEF SameTable, SameHistory

LEMMA InvReads ==
  ASSUME IInv, NEW t \in Tools, InitReads(t)
  PROVE  IInv'
  <1> DEFINE s == Reading(tool[t], running)
  <1>1. /\ tool[t].pc = "locked" /\ tool' = [tool EXCEPT ![t] = s]
        /\ s.pc = "init" /\ s.fd = tool[t].fd /\ s.out = "running" /\ s.copy = Inited(running)
        /\ UNCHANGED <<running, startup, written>>
        /\ SameTable /\ SameHistory /\ TypeInv' /\ FileInv'
    BY ReadsStep DEF IInv
  <1> HIDE DEF s
  <1>2. t \in Holders
    BY <1>1 DEF Holders
  <1>3. ASSUME Active, stale # Groups PROVE CopyOf(s, written')
    <2>1. Strays = {} /\ TypeInv /\ LockInv /\ FileInv
      BY <1>3 DEF IInv, StrayInv
    <2>2. ASSUME Rewritten PROVE FALSE
      <3>1. PICK u \in Tools : Filling(u)
        BY <2>2 DEF Rewritten
      <3>2. u = t
        BY <1>2, <2>1, <3>1, RewritersHold, OneFile
      <3>3. QED
        BY <1>1, <3>1, <3>2 DEF Filling
    <2>3. running = written /\ FileOK(running)
      BY <2>1, <2>2 DEF FileInv, TypeInv
    <2>4. \A g \in Groups : Entry(s.copy, g) = Entry(running, g)
      BY <1>1, <2>3, InitedFile
    <2>5. QED
      BY <1>1, <2>3, <2>4 DEF CopyOf
  <1>4. \A g \in Groups : Entry(written, g)' = Entry(written, g)
    BY <1>1 DEF Entry
  <1>5. QED
    BY <1>1, <1>2, <1>3, <1>4, InvOneTool DEF SameTable, SameHistory

LEMMA InvTruncates ==
  ASSUME IInv, NEW t \in Tools, NEW pc, NEW next, Truncates(t, pc, next),
         \/ pc = "init" /\ next = "initfill"
         \/ pc = "edit" /\ next = "editfill"
  PROVE  IInv'
  <1> DEFINE s == Moving(tool[t], next)
  <1>1. /\ tool[t].pc = pc /\ tool' = [tool EXCEPT ![t] = s]
        /\ s.pc = next /\ s.req = tool[t].req /\ s.copy = tool[t].copy
        /\ s.accepted = tool[t].accepted /\ s.fd = tool[t].fd /\ s.out = "running"
        /\ UNCHANGED <<startup, written>> /\ running'.file = "noarray"
        /\ SameTable /\ SameHistory /\ TypeInv' /\ FileInv'
    BY TruncatesStep DEF IInv
  <1> HIDE DEF s
  <1>2. t \in Holders /\ t \in Writers
    BY <1>1 DEF Holders, Writers, Copying
  <1>3. ASSUME Active, stale # Groups PROVE CopyOf(s, written')
    <2>1. CopyOf(tool[t], written)
      BY <1>2, <1>3 DEF IInv, WriterInv
    <2>2. s.pc \in {"edit", "editfill"} <=> tool[t].pc \in {"edit", "editfill"}
      BY <1>1
    <2>3. QED
      BY <1>1, <2>1, <2>2 DEF CopyOf
  <1>4. \A g \in Groups : Entry(written, g)' = Entry(written, g)
    BY <1>1 DEF Entry
  <1>5. QED
    BY <1>1, <1>2, <1>3, <1>4, InvOneTool DEF SameTable, SameHistory

\* Unless everything is stale, who fills a file fills the running configuration.
LEMMA FillsInPlace ==
  ASSUME IInv, NEW t \in Tools, tool[t].pc \in Writing, Strays = {}
  PROVE  Filling(t)
  <1>1. tool[t].fd = at
    BY OneFile DEF IInv, Writing, Between
  <1>2. QED
    BY <1>1 DEF IInv, OutInv, Filling, Writing

LEMMA InvInitFills ==
  ASSUME IInv, NEW t \in Tools, InitFills(t)
  PROVE  IInv'
  <1> DEFINE s == Configuring(tool[t])
  <1>1. /\ tool[t].pc = "initfill" /\ tool' = [tool EXCEPT ![t] = s]
        /\ s.pc \in {"idle", "config"} /\ s.fd = NoFile /\ s.out = "running"
        /\ Fills(t) /\ SameTable /\ SameHistory /\ TypeInv' /\ FileInv'
    BY InitFillsStep DEF IInv
  <1> HIDE DEF s
  <1>2. s.pc \notin Copying \cup {"locked"} /\ t \in Writers /\ tool[t].pc \in Writing
    BY <1>1 DEF Copying, Writers, Writing
  <1>3. ASSUME Active, stale # Groups
        PROVE  /\ startup' = startup
               /\ \A g \in Groups : Entry(written, g)' = Entry(written, g)
    <2>1. Filling(t) /\ CopyOf(tool[t], written)
      BY <1>2, <1>3, FillsInPlace DEF IInv, StrayInv, WriterInv
    <2>2. written' = tool[t].copy /\ startup' = startup
      BY <1>1, <1>2, <2>1, FillsFile DEF IInv
    <2>3. QED
      BY <1>1, <2>1, <2>2 DEF CopyOf, Entry
  <1>4. running'.file # "absent" \/ running' = running
    BY <1>1, <1>2, FillsFile DEF IInv
  <1>5. QED
    BY <1>1, <1>2, <1>3, <1>4, InvOneTool DEF SameTable, SameHistory

LEMMA InvEditOpens ==
  ASSUME IInv, NEW t \in Tools, EditOpens(t)
  PROVE  IInv'
  <1> DEFINE s == Reopening(tool[t], at)
  <1>1. /\ tool[t].pc = "config" /\ tool' = [tool EXCEPT ![t] = s]
        /\ s.pc = "reopen" /\ s.fd = at /\ s.out = "running"
        /\ Creates /\ SameTable /\ SameHistory /\ TypeInv' /\ FileInv'
    BY EditOpensStep DEF IInv
  <1> HIDE DEF s
  <1>2. /\ running'.file # "absent" /\ startup' = startup
        /\ \A g \in Groups : Entry(written, g)' = Entry(written, g)
    BY <1>1, CreatesFile DEF IInv
  <1>3. s.pc \notin Copying \cup {"locked"}
    BY <1>1 DEF Copying
  <1>4. QED
    BY <1>1, <1>2, <1>3, InvOneTool DEF SameTable, SameHistory

\* Who gets the lock while every open file is the running configuration reads what was
\* written last.
LEMMA LockedReadsWritten ==
  ASSUME IInv, NEW t \in Tools, tool[t].pc = "reopen", Locks(t), Strays = {}
  PROVE  Holders = {} /\ running = written
  <1>1. Holders = {}
    BY OneFile DEF IInv, Between
  <1>2. QED
    BY <1>1, RewritersHold DEF IInv, FileInv

LEMMA InvEditReads ==
  ASSUME IInv, NEW t \in Tools, EditReads(t)
  PROVE  IInv'
  <1> DEFINE s == Editing(tool[t], running)
  <1>1. /\ tool[t].pc = "reopen" /\ tool' = [tool EXCEPT ![t] = s]
        /\ s.pc = "edit" /\ s.req = tool[t].req /\ s.fd = tool[t].fd /\ s.out = "running"
        /\ s.accepted <=> ~Refused(running, s.req)
        /\ s.copy = IF s.accepted THEN Edited(running, s.req) ELSE running
        /\ running.file = "array" /\ Locks(t)
        /\ UNCHANGED <<running, startup, written>>
        /\ SameTable /\ SameHistory /\ TypeInv' /\ FileInv'
    BY EditReadsStep DEF IInv
  <1> HIDE DEF s
  <1>2. /\ tool[t].req \in Commands /\ tool[t].req.cmd # "read" /\ FileOK(running)
    BY <1>1, AboutGroups DEF IInv, TypeInv, ToolOK
  <1>3. ASSUME Active, stale # Groups PROVE CopyOf(s, written')
    <2>1. running = written
      BY <1>1, <1>3, LockedReadsWritten DEF IInv, StrayInv
    <2>2. ASSUME NEW g \in Groups
          PROVE  IF s.accepted /\ g \in Concerns(s.req)
                 THEN /\ Allowed(s.req, Entry(running, g))
                      /\ Entry(s.copy, g) = Effect(s.req, g, Entry(running, g))
                 ELSE Entry(s.copy, g) = Entry(running, g)
      <3>1. CASE s.accepted
        BY <1>1, <1>2, <3>1, EditedFile
      <3>2. CASE ~s.accepted
        BY <1>1, <3>2
      <3>3. QED
        BY <3>1, <3>2
    <2>3. QED
      BY <1>1, <2>1, <2>2 DEF CopyOf
  <1>4. \A g \in Groups : Entry(written, g)' = Entry(written, g)
    BY <1>1 DEF Entry
  <1>5. QED
    BY <1>1, <1>3, <1>4, InvOneTool DEF SameTable, SameHistory

\* Telling the kernel: the order, and the tool.
LEMMA OrderOfToKernel ==
  ASSUME TypeInv, OrderInv, NEW t \in Tools, tool[t].pc \in {"reopen", "editfill"}, ToKernel(t)
  PROVE  OrderInv'
  <1>1. /\ tool' = [tool EXCEPT ![t] = Telling(tool[t])] /\ tool \in [Tools -> ToolStates]
        /\ ToolOK(tool[t])
    BY ToKernelTool DEF TypeInv
  <1>2. Telling(tool[t]).pc = "kernel"
    BY <1>1, TellingTool
  <1>3. Pending' = Pending \cup {t} /\ t \notin Pending
    BY <1>1, <1>2 DEF Pending
  <1>4. QED
    BY <1>1, <1>2, <1>3, OrderAppends DEF ToKernel

\* t has written its request, or found nothing left to clear.
LEMMA InvToKernel ==
  ASSUME IInv, TypeInv', FileInv', NEW t \in Tools, tool[t].pc \in {"reopen", "editfill"},
         ToKernel(t), SameTable, todo' = todo,
         t \in Holders \/ Locks(t),
         running'.file # "absent" \/ running' = running,
         Active /\ stale # Groups =>
           /\ startup' = startup
           /\ \A g \in Groups :
                IF g \in About(t)
                THEN /\ Allowed(tool[t].req, Entry(written, g))
                     /\ Entry(written, g)' = Effect(tool[t].req, g, Entry(written, g))
                ELSE Entry(written, g)' = Entry(written, g),
         tool[t].req.cmd \in {"del", "clear"} /\ Strays = {} =>
           startup' = startup /\ \A g \in About(t) : Entry(written, g)' = None
  PROVE  IInv'
  <1>1. /\ TypeInv /\ OrderInv /\ LockInv /\ OutInv /\ FileInv /\ SyncInv /\ StrayInv /\ WriterInv
        /\ ScriptInv /\ tool \in [Tools -> ToolStates] /\ stale \subseteq Groups
        /\ ToolOK(tool[t])
    BY DEF IInv, TypeInv
  <1>2. PICK s : s = Telling(tool[t])
    OBVIOUS
  <1>3. /\ tool' = [tool EXCEPT ![t] = s] /\ s.pc = "kernel" /\ s.fd = NoFile /\ s.out = "running"
        /\ stale' \subseteq stale
    BY <1>1, <1>2, ToKernelTool, TellingTool
  <1>4. tool'[t] = s /\ \A u \in Tools \ {t} : tool'[u] = tool[u]
    BY <1>1, <1>3
  <1>5. UNCHANGED <<groups, members, loaded, script, saved, served, at>>
    BY DEF SameTable
  <1>6. Active' = Active /\ Unloaded' = Unloaded /\ \A g : Entry(Base, g)' = Entry(Base, g)
    BY <1>5, SameService DEF Entry
  <1>7. OrderInv'
    BY <1>1, OrderOfToKernel
  <1>8. Holders' = Holders \ {t} /\ Writers' \subseteq Holders'
    BY <1>3, <1>4, RewritersHold DEF Holders, Writers, Copying
  <1>9. LockInv'
    BY <1>1, <1>4, <1>8 DEF LockInv, Holders
  <1>10. OutInv'
    <2>1. NoFile # at
      BY <1>1, AdminAssumption DEF TypeInv
    <2>2. QED
      BY <1>1, <1>3, <1>4, <1>5, <2>1 DEF OutInv
  <1>11. SyncInv'
    BY <1>1, <1>6, SyncAppends
  \* stale shrinks only when no file is open that is gone.
  <1>12. ASSUME Active, stale' # Groups PROVE Strays = {}
    <2>1. CASE stale # Groups
      BY <1>1, <1>12, <2>1 DEF StrayInv
    <2>2. CASE stale = Groups
      BY <1>12, <2>2 DEF ToKernel, StaleAfterWrite
    <2>3. QED
      BY <2>1, <2>2
  <1>13. StrayInv'
    <2> SUFFICES ASSUME Active, stale' # Groups PROVE Strays' = {}
      BY <1>6 DEF StrayInv
    <2>1. Strays = {}
      BY <1>12
    <2>2. QED
      BY <1>3, <1>4, <1>5, <2>1 DEF Strays
  <1>14. WriterInv'
    <2> SUFFICES ASSUME Active, stale' # Groups PROVE Writers' = {}
      BY <1>6 DEF WriterInv
    <2>1. Strays = {} /\ tool[t].pc \notin Between
      BY <1>12 DEF Between
    <2>2. Holders \subseteq {t}
      BY <1>1, <2>1, OneFile
    <2>3. QED
      BY <1>8, <2>2
  <1>15. ScriptInv'
    <2>1. ASSUME Active', running'.file = "absent", stale' # Groups
          PROVE  Active /\ running.file = "absent" /\ stale # Groups /\ startup' = startup
      <3>1. Active /\ running' = running /\ Strays = {}
        BY <1>6, <1>12, <2>1
      <3>3. tool[t].fd = at
        BY <1>1, <3>1, OneFile DEF Between
      <3>4. QED
        BY <1>1, <2>1, <3>1, <3>3 DEF OutInv
    <2>2. QED
      BY <1>1, <1>5, <1>6, <2>1 DEF ScriptInv
  <1>16. QED
    BY <1>7, <1>9, <1>10, <1>11, <1>13, <1>14, <1>15 DEF IInv

\* t ends, and has changed nothing.
LEMMA InvEnds ==
  ASSUME IInv, TypeInv', FileInv', NEW t \in Tools, tool[t].pc \in {"reopen", "editfill"},
         EndsUnchanged(t), SameTable, todo' = todo,
         running'.file # "absent" \/ running' = running,
         Active /\ stale # Groups =>
           /\ startup' = startup
           /\ \A g \in Groups : Entry(written, g)' = Entry(written, g)
  PROVE  IInv'
  <1>1. tool' = [tool EXCEPT ![t] = Idle] /\ UNCHANGED <<order, stale>>
    BY DEF EndsUnchanged
  <1>2. /\ Idle.pc = "idle" /\ Idle.fd = NoFile /\ Idle.out = "running"
        /\ Idle.pc \notin Copying \cup {"locked"}
    BY IdleOK DEF Copying
  <1>3. QED
    BY <1>1, <1>2, InvOneTool DEF SameTable

LEMMA InvEditFindsNoArray ==
  ASSUME IInv, NEW t \in Tools, EditFindsNoArray(t)
  PROVE  IInv'
  <1>1. /\ tool[t].pc = "reopen" /\ Locks(t) /\ running.file # "array"
        /\ UNCHANGED <<running, startup, written>>
        /\ IF tool[t].req.cmd = "clear" THEN ToKernel(t) ELSE EndsUnchanged(t)
    BY DEF EditFindsNoArray, fileVars
  <1>2. SameTable /\ todo' = todo /\ TypeInv' /\ FileInv'
    BY EndsStep DEF IInv
  <1>3. \A g : Entry(written, g)' = Entry(written, g)
    BY <1>1 DEF Entry
  <1>4. CASE tool[t].req.cmd # "clear"
    BY <1>1, <1>2, <1>3, <1>4, InvEnds
  <1>5. CASE tool[t].req.cmd = "clear"
    <2>1. About(t) = Groups
      BY <1>5 DEF About
    <2>2. ASSUME Strays = {}
          PROVE  \A g \in Groups : Entry(written, g) = None
      <3>1. running = written /\ FileOK(written)
        BY <1>1, <2>2, LockedReadsWritten DEF IInv, TypeInv
      <3>2. \A g \in Groups : Entry(written, g) = None
        BY <1>1, <3>1, InitedFile
      <3>3. QED
        BY <3>2
    <2>3. ASSUME Active, stale # Groups, NEW g \in Groups
          PROVE  /\ Allowed(tool[t].req, Entry(written, g))
                 /\ Entry(written, g)' = Effect(tool[t].req, g, Entry(written, g))
      <3>1. Entry(written, g) = None
        BY <2>2, <2>3 DEF IInv, StrayInv
      <3>2. QED
        BY <1>3, <1>5, <3>1 DEF Allowed, Effect
    <2>4. QED
      BY <1>1, <1>2, <1>3, <1>5, <2>1, <2>2, <2>3, InvToKernel
  <1>6. QED
    BY <1>4, <1>5

LEMMA InvEditFills ==
  ASSUME IInv, NEW t \in Tools, EditFills(t)
  PROVE  IInv'
  <1>1. /\ tool[t].pc = "editfill" /\ Fills(t)
        /\ IF tool[t].accepted THEN ToKernel(t) ELSE EndsUnchanged(t)
    BY DEF EditFills
  <1>2. SameTable /\ todo' = todo /\ TypeInv' /\ FileInv'
    BY EndsStep DEF IInv
  <1>3. t \in Holders /\ t \in Writers /\ tool[t].pc \in Writing
    BY <1>1 DEF Holders, Writers, Copying, Writing
  <1>4. ASSUME Strays = {}
        PROVE  written' = tool[t].copy /\ startup' = startup
    <2>1. Filling(t)
      BY <1>3, <1>4, FillsInPlace
    <2>2. QED
      BY <1>1, <1>3, <2>1, FillsFile DEF IInv
  <1>5. running'.file # "absent" \/ running' = running
    BY <1>1, <1>3, FillsFile DEF IInv
  <1>6. ASSUME Active, stale # Groups
        PROVE  startup' = startup /\ written' = tool[t].copy /\ CopyOf(tool[t], written)
    BY <1>3, <1>4, <1>6 DEF IInv, StrayInv, WriterInv
  <1>7. ToolOK(tool[t]) /\ About(t) = Concerns(tool[t].req) /\ About(t) \subseteq Groups
    BY AboutGroups DEF IInv, TypeInv
  <1>8. CASE tool[t].accepted
    <2>1. ASSUME Active, stale # Groups, NEW g \in Groups
          PROVE  IF g \in About(t)
                 THEN /\ Allowed(tool[t].req, Entry(written, g))
                      /\ Entry(written, g)' = Effect(tool[t].req, g, Entry(written, g))
                 ELSE Entry(written, g)' = Entry(written, g)
      <3>1. Entry(written, g)' = Entry(tool[t].copy, g)
        BY <1>6, <2>1 DEF Entry
      <3>2. QED
        BY <1>1, <1>6, <1>7, <1>8, <2>1, <3>1 DEF CopyOf
    <2>2. ASSUME tool[t].req.cmd \in {"del", "clear"}, Strays = {}, NEW g \in About(t)
          PROVE  Entry(written, g)' = None
      <3>1. Entry(tool[t].copy, g) = None
        BY <1>1, <1>7, <1>8, <2>2 DEF ToolOK
      <3>2. QED
        BY <1>4, <2>2, <3>1 DEF Entry
    <2>3. QED
      BY <1>1, <1>2, <1>3, <1>4, <1>5, <1>6, <1>8, <2>1, <2>2, InvToKernel
  <1>9. CASE ~tool[t].accepted
    <2>1. ASSUME Active, stale # Groups, NEW g \in Groups
          PROVE  Entry(written, g)' = Entry(written, g)
      BY <1>6, <1>9, <2>1 DEF CopyOf, Entry
    <2>2. QED
      BY <1>1, <1>2, <1>5, <1>6, <1>9, <2>1, InvEnds
  <1>10. QED
    BY <1>8, <1>9

\* t is through with the kernel, or dies before it has told it.
LEMMA InvRemoves ==
  ASSUME IInv, TypeInv', FileInv', NEW t \in Pending, tool' = [tool EXCEPT ![t] = Idle],
         order' = Without(t),
         UNCHANGED <<running, written, startup, at, saved, todo, loaded, script, served>>,
         stale \subseteq stale',
         Active => \A g \in Groups \ stale' :
           /\ g \notin About(t) => Entry(Base, g)' = Entry(Base, g)
           /\ g \in About(t) => /\ \A u \in Overtaken(t) : g \notin About(u)
                                /\ Entry(Base, g)' = Effect(tool[t].req, g, Entry(Base, g))
  PROVE  IInv'
  <1>1. /\ TypeInv /\ OrderInv /\ LockInv /\ OutInv /\ SyncInv /\ StrayInv /\ WriterInv /\ ScriptInv
        /\ tool \in [Tools -> ToolStates] /\ stale' \subseteq Groups /\ t \in Tools
    BY DEF IInv, TypeInv, Pending
  <1>2. tool'[t] = Idle /\ \A u \in Tools \ {t} : tool'[u] = tool[u]
    BY <1>1
  <1>3. Idle.pc = "idle" /\ Idle.fd = NoFile /\ Idle.out = "running" /\ NoFile # at
    BY <1>1, IdleOK, AdminAssumption DEF TypeInv
  <1>4. Active' = Active /\ Unloaded' = Unloaded
    BY SameService
  <1>5. /\ Pending' = Pending \ {t} /\ Writers' = Writers /\ t \notin Writers
        /\ Holders' = Holders /\ t \notin Holders
    BY <1>1, <1>2, <1>3 DEF Pending, Writers, Holders, Copying
  <1>6. OrderInv'
    BY <1>1, <1>5, OrderRemoves
  <1>7. LockInv'
    BY <1>1, <1>2, <1>5 DEF LockInv, Holders
  <1>8. OutInv'
    BY <1>1, <1>2, <1>3 DEF OutInv
  <1>9. SyncInv'
    <2>1. \A u \in Pending \ {t} : tool'[u] = tool[u]
      BY <1>2 DEF Pending
    <2>2. \A g : Entry(written, g)' = Entry(written, g)
      BY DEF Entry
    <2>3. QED
      BY <1>1, <1>4, <2>1, <2>2, SyncRemoves
  <1>10. stale' # Groups => stale # Groups
    BY <1>1
  <1>11. StrayInv'
    <2> SUFFICES ASSUME Active, stale' # Groups PROVE Strays' = {}
      BY <1>4 DEF StrayInv
    <2>1. Strays = {}
      BY <1>1, <1>10 DEF StrayInv
    <2>2. QED
      BY <1>2, <1>3, <2>1 DEF Strays
  <1>12. WriterInv'
    <2> SUFFICES ASSUME Active, stale' # Groups, NEW u \in Writers PROVE CopyOf(tool'[u], written)
      BY <1>4, <1>5 DEF WriterInv
    <2>1. CopyOf(tool[u], written) /\ u \in Tools \ {t}
      BY <1>1, <1>5, <1>10 DEF WriterInv, Writers
    <2>2. QED
      BY <1>2, <2>1
  <1>13. ScriptInv'
    BY <1>1, <1>4, <1>10 DEF ScriptInv
  <1>14. QED
    BY <1>6, <1>7, <1>8, <1>9, <1>11, <1>12, <1>13 DEF IInv

\* What the kernel does to a group is what the request says.
LEMMA KernelEffect ==
  ASSUME TypeInv, NEW t \in Tools,
         KernelJoins(t) \/ KernelQuits(t) \/ KernelDeletes(t) \/ KernelClears(t)
  PROVE  /\ Overtakes(t)
         /\ \A g \in Groups :
              IF g \in About(t) THEN Entry(Table, g)' = Effect(tool[t].req, g, Entry(Table, g))
              ELSE Entry(Table, g)' = Entry(Table, g)
  <1> DEFINE req == tool[t].req
  <1>1. req \in Commands /\ About(t) = Concerns(req) /\ members \in [Groups -> SUBSET VMs]
    BY AboutGroups DEF TypeInv, AbsTypeOK
  <1>2. /\ \A g : Entry(Table, g) = <<groups \cap {g}, members[g]>>
        /\ \A g : Entry(Table, g)' = <<groups' \cap {g}, members'[g]>>
    BY DEF Entry, Table
  <1>3. CASE KernelJoins(t)
    <2>1. /\ req.cmd = "join" /\ Overtakes(t) /\ req.g \in Groups /\ About(t) = {req.g}
          /\ groups' = groups \cup {req.g} /\ members' = [members EXCEPT ![req.g] = @ \cup req.R]
      BY <1>1, <1>3, CommandFields DEF KernelJoins, Tells, ExactJoin, AbsJoin
    <2>2. ASSUME NEW g \in Groups
          PROVE  IF g = req.g THEN Entry(Table, g)' = Effect(req, g, Entry(Table, g))
                 ELSE Entry(Table, g)' = Entry(Table, g)
      <3>1. CASE g = req.g
        <4>1. Effect(req, g, Entry(Table, g)) = <<{g}, members[g] \cup req.R>>
          BY <1>2, <2>1 DEF Effect
        <4>2. groups' \cap {g} = {g} /\ members'[g] = members[g] \cup req.R
          BY <1>1, <2>1, <3>1
        <4>3. QED
          BY <1>2, <3>1, <4>1, <4>2
      <3>2. CASE g # req.g
        <4>1. groups' \cap {g} = groups \cap {g} /\ members'[g] = members[g]
          BY <1>1, <2>1, <3>2
        <4>2. QED
          BY <1>2, <3>2, <4>1
      <3>3. QED
        BY <3>1, <3>2
    <2>3. QED
      BY <2>1, <2>2
  <1>4. CASE KernelQuits(t)
    <2>1. /\ req.cmd = "quit" /\ Overtakes(t) /\ req.g \in Groups /\ About(t) = {req.g}
          /\ groups' = groups /\ members' = [members EXCEPT ![req.g] = @ \ req.R]
      BY <1>1, <1>4, CommandFields DEF KernelQuits, Tells, AbsQuit
    <2>2. ASSUME NEW g \in Groups
          PROVE  IF g = req.g THEN Entry(Table, g)' = Effect(req, g, Entry(Table, g))
                 ELSE Entry(Table, g)' = Entry(Table, g)
      <3>1. CASE g = req.g
        <4>1. Effect(req, g, Entry(Table, g)) = <<groups \cap {g}, members[g] \ req.R>>
          BY <1>2, <2>1 DEF Effect
        <4>2. groups' \cap {g} = groups \cap {g} /\ members'[g] = members[g] \ req.R
          BY <1>1, <2>1, <3>1
        <4>3. QED
          BY <1>2, <3>1, <4>1, <4>2
      <3>2. CASE g # req.g
        <4>1. groups' \cap {g} = groups \cap {g} /\ members'[g] = members[g]
          BY <1>1, <2>1, <3>2
        <4>2. QED
          BY <1>2, <3>2, <4>1
      <3>3. QED
        BY <3>1, <3>2
    <2>3. QED
      BY <2>1, <2>2
  <1>5. CASE KernelDeletes(t)
    <2>1. /\ req.cmd = "del" /\ Overtakes(t) /\ req.g \in Groups /\ About(t) = {req.g}
          /\ groups' = groups \ {req.g} /\ members' = [members EXCEPT ![req.g] = {}]
      BY <1>1, <1>5, CommandFields DEF KernelDeletes, Tells, AbsDelete
    <2>2. ASSUME NEW g \in Groups
          PROVE  IF g = req.g THEN Entry(Table, g)' = Effect(req, g, Entry(Table, g))
                 ELSE Entry(Table, g)' = Entry(Table, g)
      <3>1. CASE g = req.g
        <4>1. Effect(req, g, Entry(Table, g)) = <<{}, {}>>
          BY <1>2, <2>1 DEF Effect, None
        <4>2. groups' \cap {g} = {} /\ members'[g] = {}
          BY <1>1, <2>1, <3>1
        <4>3. QED
          BY <1>2, <3>1, <4>1, <4>2
      <3>2. CASE g # req.g
        <4>1. groups' \cap {g} = groups \cap {g} /\ members'[g] = members[g]
          BY <1>1, <2>1, <3>2
        <4>2. QED
          BY <1>2, <3>2, <4>1
      <3>3. QED
        BY <3>1, <3>2
    <2>3. QED
      BY <2>1, <2>2
  <1>6. CASE KernelClears(t)
    <2>1. /\ req.cmd = "clear" /\ Overtakes(t) /\ About(t) = Groups
          /\ groups' = {} /\ members' = [g \in Groups |-> {}]
      BY <1>1, <1>6, CommandFields DEF KernelClears, Tells, AbsClear
    <2>2. QED
      BY <1>2, <2>1 DEF Effect, None
  <1>7. QED
    BY <1>3, <1>4, <1>5, <1>6

\* A tool that has yet to tell the kernel is not writing: its end leaves the file as it is.
LEMMA PendingQuiet ==
  ASSUME TypeInv, FileInv, NEW t \in Pending, tool' = [tool EXCEPT ![t] = Idle],
         UNCHANGED <<running, written>>
  PROVE  FileInv'
  <1>1. t \in Tools /\ ~Filling(t) /\ Idle.pc \notin Writing
    BY IdleOK DEF Pending, Filling, Writing
  <1>2. Rewritten' <=> Rewritten
    BY <1>1, RewrittenSame
  <1>3. QED
    BY <1>2 DEF FileInv

LEMMA InvTellsKernel ==
  ASSUME IInv, NEW t \in Tools, TellsKernel(t)
  PROVE  IInv'
  <1>1. TypeInv /\ OrderInv /\ ScriptInv /\ stale \subseteq Groups
    BY DEF IInv, TypeInv
  <1>2. TypeInv'
    BY <1>1, TypesKernel
  <1>3. PICK cmd : Tells(t, cmd)
    BY DEF TellsKernel, KernelJoins, KernelRefuses, KernelQuits, KernelMissing, KernelDeletes,
           KernelClears
  <1>4. /\ t \in Pending /\ loaded /\ tool' = [tool EXCEPT ![t] = Idle] /\ order' = Without(t)
        /\ UNCHANGED <<running, written, startup, at, saved, todo, loaded, script, served>>
    BY <1>3 DEF Tells, Pending, fileVars, scriptVars, recoveryVars
  <1>5. FileInv'
    BY <1>4, PendingQuiet DEF IInv
  <1>6. ~Unloaded /\ ~Unloaded' /\ Base = Table /\ Base' = Table'
    BY <1>1, <1>4, SameService DEF ScriptInv, Base
  <1>7. CASE KernelRefuses(t) \/ KernelMissing(t)
    <2>1. /\ stale' = stale \cup {tool[t].req.g} /\ UNCHANGED <<groups, members>>
          /\ tool[t].req.cmd \in {"join", "quit"}
      BY <1>7 DEF KernelRefuses, KernelMissing, Tells, ExactJoinRefused, AbsJoinRefused, AbsMissing
    <2>2. About(t) = {tool[t].req.g}
      BY <1>1, <2>1, AboutGroups, CommandFields
    <2>3. \A g : Entry(Base, g)' = Entry(Base, g)
      BY <1>6, <2>1 DEF Entry, Table
    <2>4. QED
      BY <1>2, <1>4, <1>5, <2>1, <2>2, <2>3, InvRemoves
  <1>8. CASE KernelJoins(t) \/ KernelQuits(t) \/ KernelDeletes(t) \/ KernelClears(t)
    <2>1. /\ Overtakes(t)
          /\ \A g \in Groups :
               IF g \in About(t) THEN Entry(Table, g)' = Effect(tool[t].req, g, Entry(Table, g))
               ELSE Entry(Table, g)' = Entry(Table, g)
      BY <1>1, <1>8, KernelEffect
    <2>2. \A g \in Groups :
            IF g \in About(t) THEN Entry(Base, g)' = Effect(tool[t].req, g, Entry(Base, g))
            ELSE Entry(Base, g)' = Entry(Base, g)
      BY <1>6, <2>1 DEF Entry
    <2>3. stale \subseteq stale'
          /\ \A g \in About(t) \ stale' : \A u \in Overtaken(t) : g \notin About(u)
      BY <2>1 DEF Overtakes
    <2>4. QED
      BY <1>2, <1>4, <1>5, <2>2, <2>3, InvRemoves
  <1>9. QED
    BY <1>7, <1>8 DEF TellsKernel

LEMMA InvNoKernel ==
  ASSUME IInv, NEW t \in Tools, NoKernel(t)
  PROVE  IInv'
  <1>1. TypeInv'
    BY TypesKernel DEF IInv
  <1>2. /\ t \in Pending /\ tool' = [tool EXCEPT ![t] = Idle] /\ order' = Without(t)
        /\ UNCHANGED <<running, written, startup, at, saved, todo, loaded, script, served>>
        /\ UNCHANGED <<groups, members>> /\ stale' = stale \cup About(t)
    BY DEF NoKernel, Pending, fileVars, scriptVars, recoveryVars, kernelVars
  <1>3. FileInv'
    BY <1>2, PendingQuiet DEF IInv
  <1>4. \A g : Entry(Base, g)' = Entry(Base, g)
    BY <1>2, SameService DEF Entry
  <1>5. QED
    BY <1>1, <1>2, <1>3, <1>4, InvRemoves

\* What a kill can leave: the configuration whole, or everything stale.
LEMMA InvKilled ==
  ASSUME IInv, NEW t \in Tools, Killed(t)
  PROVE  IInv'
  <1>1. /\ tool' = [tool EXCEPT ![t] = Idle] /\ order' = Without(t)
        /\ UNCHANGED <<groups, members, loaded, script, saved, todo, served, at>>
        /\ tool[t].out = "running" => startup' = startup
        /\ IF Filling(t) THEN stale' = Groups
           ELSE /\ UNCHANGED <<running, written>>
                /\ stale' = IF t \in Pending THEN stale \cup About(t) ELSE stale
        /\ TypeInv' /\ FileInv'
    BY KilledStep DEF IInv
  <1>2. /\ TypeInv /\ OrderInv /\ LockInv /\ OutInv /\ FileInv /\ StrayInv /\ ScriptInv
        /\ tool \in [Tools -> ToolStates] /\ stale \subseteq Groups /\ ToolOK(tool[t])
    BY DEF IInv, TypeInv
  <1>3. /\ Idle.pc = "idle" /\ Idle.fd = NoFile /\ Idle.out = "running" /\ NoFile # at
        /\ Idle.pc \notin Copying \cup {"locked"}
    BY <1>2, IdleOK, AdminAssumption DEF TypeInv, Copying
  <1>4. \A g : Entry(Base, g)' = Entry(Base, g)
    BY <1>1, SameService DEF Entry
  <1>5. CASE t \in Pending
    <2>1. tool[t].pc = "kernel" /\ ~Filling(t)
      BY <1>5 DEF Pending, Filling
    <2>2. tool[t].out = "running"
      BY <1>2, <2>1 DEF ToolOK, Writing
    <2>3. QED
      BY <1>1, <1>4, <1>5, <2>1, <2>2, InvRemoves
  <1>6. CASE t \notin Pending /\ ~Filling(t)
    <2>1. order' = order /\ tool[t].pc # "kernel" /\ stale' = stale
      BY <1>1, <1>6 DEF Without, Pending
    <2>2. ASSUME Active, stale # Groups PROVE startup' = startup
      <3>1. Strays = {}
        BY <1>2, <2>2 DEF StrayInv
      <3>2. tool[t].out # "running" => tool[t].fd \notin {at, NoFile}
        BY <1>2 DEF OutInv, ToolOK, Writing, Between
      <3>3. tool[t].out = "running"
        BY <3>1, <3>2 DEF Strays
      <3>4. QED
        BY <1>1, <3>3
    <2>3. \A g \in Groups : Entry(written, g)' = Entry(written, g)
      BY <1>1, <1>6 DEF Entry
    <2>4. running' = running /\ todo' = todo
      BY <1>1, <1>6
    <2>5. QED
      BY <1>1, <1>3, <2>1, <2>2, <2>3, <2>4, InvOneTool
  <1>7. CASE Filling(t)
    <2>1. order' = order /\ tool[t].pc # "kernel" /\ stale' = Groups
      BY <1>1, <1>7 DEF Without, Pending, Filling
    <2>2. tool'[t] = Idle /\ \A u \in Tools \ {t} : tool'[u] = tool[u]
      BY <1>1, <1>2
    <2>3. OrderInv'
      BY <1>1, <1>2, <1>3, <2>1, OrderOfStep
    <2>4. LockInv'
      BY <1>2, <1>3, <2>2 DEF LockInv, Holders
    <2>5. OutInv'
      <3>1. Rewritten /\ running.file # "absent"
        BY <1>2, <1>7 DEF Rewritten, FileInv
      <3>2. running'.file # "absent"
        BY <3>1, EmptyIsFile DEF Killed, CutShort
      <3>3. QED
        BY <1>1, <1>2, <1>3, <2>2, <3>2 DEF OutInv
    <2>6. SyncInv' /\ StrayInv' /\ WriterInv'
      BY <2>1 DEF SyncInv, StrayInv, WriterInv
    <2>7. ScriptInv'
      BY <1>1, <1>2, <2>1, SameService DEF ScriptInv
    <2>8. QED
      BY <1>1, <2>3, <2>4, <2>5, <2>6, <2>7 DEF IInv
  <1>8. QED
    BY <1>5, <1>6, <1>7

LEMMA InvPowerLoss ==
  ASSUME IInv, PowerLoss
  PROVE  IInv'
  <1>1. TypeInv' /\ FileInv'
    BY TypesPowerLoss DEF IInv
  <1>2. ~Active' /\ order' = <<>> /\ script' = "idle"
    BY DEF PowerLoss, Active, Unloaded
  <1>3. \A t \in Tools : tool'[t].pc = "idle" /\ tool'[t].fd = NoFile /\ tool'[t].out = "running"
    BY IdleOK DEF PowerLoss
  <1>4. NoFile # at'
    BY <1>1, AdminAssumption DEF TypeInv
  <1>5. Pending' = {} /\ Holders' = {}
    BY <1>3 DEF Pending, Holders
  <1>6. OrderInv' /\ LockInv'
    BY <1>2, <1>5 DEF OrderInv, LockInv
  <1>7. OutInv'
    BY <1>3, <1>4 DEF OutInv
  <1>8. SyncInv' /\ StrayInv' /\ WriterInv' /\ ScriptInv'
    BY <1>2 DEF SyncInv, StrayInv, WriterInv, ScriptInv, Unloaded
  <1>9. QED
    BY <1>1, <1>6, <1>7, <1>8 DEF IInv

\* The script changes no request, and takes no lock away.
LEMMA ScriptQuiet ==
  ASSUME IInv, ScriptSteps
  PROVE  /\ TypeInv' /\ FileInv' /\ OrderInv' /\ LockInv' /\ OutInv'
         /\ Pending' = Pending /\ Writers' = Writers /\ Asked' = Asked /\ order' = order
         /\ \A t \in Tools : tool'[t].req = tool[t].req /\ tool'[t].fd = tool[t].fd
  <1>1. TypeInv /\ OrderInv /\ LockInv /\ OutInv /\ FileInv
    BY DEF IInv
  <1>2. TypeInv' /\ FileInv'
    BY <1>1, TypesScript
  <1>3. order' = order
    BY DEF ScriptSteps, StartRemoves, StartLoads, StartFails, RecoveryEnds, StopUnloads,
           StopFindsBusy, StopSaves, StopRemoves
  <1>4. /\ \A t \in Tools : /\ tool'[t].pc = tool[t].pc /\ tool'[t].req = tool[t].req
                            /\ tool'[t].fd = tool[t].fd
        /\ OutInv'
    <2>1. CASE \E to \in {"startup", "gone"} : Unlinks(to)
      <3>1. \A t \in Tools : /\ tool'[t].pc = tool[t].pc /\ tool'[t].req = tool[t].req
                             /\ tool'[t].fd = tool[t].fd /\ tool[t].fd # at'
        BY <1>1, <2>1, UnlinksStep
      <3>2. QED
        BY <3>1 DEF OutInv
    <2>2. CASE UNCHANGED <<tool, running, at, written>>
      BY <1>1, <2>2 DEF OutInv
    <2>3. QED
      BY <1>1, <2>1, <2>2, ScriptFiles
  <1>5. Pending' = Pending /\ Writers' = Writers /\ Holders' = Holders
    BY <1>4 DEF Pending, Writers, Holders
  <1>6. OrderInv'
    BY <1>1, <1>3, <1>5, OrderSame
  <1>7. LockInv'
    BY <1>1, <1>4, <1>5 DEF LockInv, Holders
  <1>8. Asked' = Asked
    <2>1. \A i \in 1 .. Len(order) : order[i] \in Tools
      BY <1>1 DEF OrderInv, Pending
    <2>2. QED
      BY <1>3, <1>4, <2>1 DEF Asked
  <1>9. QED
    BY <1>2, <1>3, <1>4, <1>5, <1>6, <1>7, <1>8

\* What was held against the kernel still is, and is the same.
LEMMA ServiceKept ==
  ASSUME IInv, ScriptSteps, UNCHANGED <<tool, at, written, stale>>, Active' => Active,
         Active' => \A g \in Groups : Entry(Base, g)' = Entry(Base, g)
  PROVE  SyncInv' /\ StrayInv' /\ WriterInv'
  <1>1. TypeInv /\ OrderInv /\ SyncInv /\ StrayInv /\ WriterInv /\ order' = order
    BY ScriptQuiet DEF IInv
  <1>2. SyncInv'
    <2>1. \A g : Entry(written, g)' = Entry(written, g)
      BY DEF Entry
    <2>2. QED
      BY <1>1, <2>1, SyncKeeps
  <1>3. StrayInv'
    BY <1>1 DEF StrayInv, Strays
  <1>4. WriterInv'
    BY <1>1 DEF WriterInv, Writers
  <1>5. QED
    BY <1>2, <1>3, <1>4

\* start
LEMMA InvStart ==
  ASSUME IInv, StartRemoves \/ StartLoads \/ StartFails \/ RecoveryEnds
  PROVE  IInv'
  <1>1. TypeInv /\ OrderInv /\ ScriptInv /\ FileInv /\ ScriptSteps
    BY DEF IInv, ScriptSteps
  <1>2. /\ TypeInv' /\ FileInv' /\ OrderInv' /\ LockInv' /\ OutInv'
        /\ Writers' = Writers /\ Asked' = Asked /\ order' = order
        /\ \A t \in Tools : tool'[t].fd = tool[t].fd
    BY <1>1, ScriptQuiet
  <1>3. CASE StartRemoves
    <2>1. /\ script' = "load" /\ script = "idle" /\ written' = Empty("absent")
          /\ UNCHANGED <<groups, members, loaded, served>>
      BY <1>3 DEF StartRemoves, kernelVars, Unlinks
    <2>2. CASE loaded \/ \E t \in Tools : tool[t].fd # NoFile
      <3>1. stale' = Groups
        BY <1>3, <2>2 DEF StartRemoves
      <3>2. QED
        BY <1>2, <2>1, <3>1 DEF IInv, SyncInv, StrayInv, WriterInv, ScriptInv, Unloaded
    <2>3. CASE ~loaded /\ \A t \in Tools : tool[t].fd = NoFile
      <3>1. stale' = PendingGroups
        BY <1>3, <2>3 DEF StartRemoves
      <3>2. ASSUME NEW g \in Groups \ stale' PROVE Following(g)'
        <4>1. Entry(Base, g)' = None
          BY <1>1, <2>1, <2>3 DEF Base, Unloaded, Table, Entry, None, TypeInv
        <4>2. Entry(written, g)' = None
          BY <2>1 DEF Entry, Empty, None
        <4>3. \A i \in 1 .. Len(order) : g \notin Concerns(Asked[i])
          BY <1>1, <3>1, <3>2, NobodyAsks
        <4>4. Len(order) \in Nat
          BY <1>1 DEF OrderInv
        <4>5. Leads(None, None, g, Asked, Len(order))
          BY <4>3, <4>4, LeadsQuiet
        <4>6. QED
          BY <1>2, <4>1, <4>2, <4>5 DEF Following
      <3>3. Strays' = {}
        BY <1>2, <2>3 DEF Strays
      <3>4. Writers = {}
        BY <1>1, <2>3 DEF Writers, TypeInv, ToolOK, Between, Copying
      <3>5. ScriptInv'
        BY <2>1, <2>3 DEF ScriptInv, Unloaded
      <3>6. QED
        BY <1>2, <3>2, <3>3, <3>4, <3>5 DEF IInv, SyncInv, StrayInv, WriterInv
    <2>4. QED
      BY <2>2, <2>3
  <1>4. CASE StartLoads
    <2>1. /\ script = "load" /\ ~loaded /\ loaded' /\ script' \in {"recover", "idle"}
          /\ script' = "recover" => todo' = saved'.groups
          /\ script' = "idle" => startup.file # "array"
          /\ UNCHANGED <<groups, members, running, written, startup, at, tool, stale, served>>
      BY <1>4 DEF StartLoads, kernelVars, fileVars
    <2>2. \A g : Entry(Base, g)' = Entry(Base, g)
      BY <2>1 DEF Base, Unloaded, Table, Entry
    <2>3. SyncInv' /\ StrayInv' /\ WriterInv'
      BY <1>1, <2>1, <2>2, ServiceKept DEF Active
    <2>4. script' = "idle" => startup.groups = {}
      BY <1>1, <2>1 DEF TypeInv, FileOK, WellFormed
    <2>5. ScriptInv'
      BY <2>1, <2>4 DEF ScriptInv, Unloaded
    <2>6. QED
      BY <1>2, <2>3, <2>5 DEF IInv
  <1>5. CASE StartFails
    <2>1. /\ script = "load" /\ script' = "idle"
          /\ UNCHANGED <<groups, members, loaded, saved, todo, served>>
          /\ UNCHANGED <<running, written, startup, at, tool, stale>>
      BY <1>5 DEF StartFails, kernelVars, fileVars, recoveryVars
    <2>2. \A g : Entry(Base, g)' = Entry(Base, g)
      BY <2>1 DEF Base, Unloaded, Table, Entry
    <2>3. SyncInv' /\ StrayInv' /\ WriterInv'
      BY <1>1, <2>1, <2>2, ServiceKept DEF Active, Unloaded
    <2>4. ScriptInv'
      BY <1>1, <2>1 DEF ScriptInv, Unloaded, Active
    <2>5. QED
      BY <1>2, <2>3, <2>4 DEF IInv
  <1>6. CASE RecoveryEnds
    <2>1. /\ script = "recover" /\ script' = "idle" /\ todo = {} /\ startup' = saved
          /\ UNCHANGED <<groups, members, loaded, served>>
          /\ UNCHANGED <<running, written, at, tool, stale>>
      BY <1>6 DEF RecoveryEnds, kernelVars
    <2>2. \A g : Entry(Base, g)' = Entry(Base, g)
      BY <2>1 DEF Base, Unloaded, Table, Entry
    <2>3. SyncInv' /\ StrayInv' /\ WriterInv'
      BY <1>1, <2>1, <2>2, ServiceKept DEF Active, Unloaded
    <2>4. ScriptInv'
      BY <1>1, <2>1 DEF ScriptInv, Unloaded, Active
    <2>5. QED
      BY <1>2, <2>3, <2>4 DEF IInv
  <1>7. QED
    BY <1>3, <1>4, <1>5, <1>6

\* stop
LEMMA InvStop ==
  ASSUME IInv, StopUnloads \/ StopFindsBusy \/ StopSaves \/ StopRemoves
  PROVE  IInv'
  <1>1. TypeInv /\ OrderInv /\ ScriptInv /\ ScriptSteps
    BY DEF IInv, ScriptSteps
  <1>2. TypeInv' /\ FileInv' /\ OrderInv' /\ LockInv' /\ OutInv'
    BY <1>1, ScriptQuiet
  <1>3. CASE StopUnloads
    <2>1. /\ script = "idle" /\ script' = "save" /\ loaded' = FALSE
          /\ served' = IF loaded THEN [groups |-> groups, members |-> members, orderly |-> TRUE]
                                 ELSE NotServed
          /\ UNCHANGED <<running, written, startup, at, tool, stale>>
      BY <1>3 DEF StopUnloads, fileVars
    <2>2. Unloaded' <=> loaded
      BY <1>1, <2>1 DEF Unloaded, NotServed, TypeInv
    <2>3. Active' <=> loaded
      BY <2>1, <2>2 DEF Active
    <2>4. ASSUME loaded PROVE \A g : Entry(Base, g)' = Entry(Base, g)
      BY <2>1, <2>2, <2>4 DEF Base, Unloaded, Table, Entry
    <2>5. SyncInv' /\ StrayInv' /\ WriterInv'
      BY <1>1, <2>1, <2>3, <2>4, ServiceKept DEF Active
    <2>6. ScriptInv'
      BY <1>1, <2>1, <2>3 DEF ScriptInv, Active
    <2>7. QED
      BY <1>2, <2>5, <2>6 DEF IInv
  <1>4. CASE StopFindsBusy
    <2>1. /\ script = "idle" /\ script' = "save" /\ loaded
          /\ served' = [groups |-> groups, members |-> members, orderly |-> FALSE]
          /\ UNCHANGED <<groups, members, loaded, saved, todo>>
          /\ UNCHANGED <<running, written, startup, at, tool, stale>>
      BY <1>4 DEF StopFindsBusy, kernelVars, fileVars, recoveryVars
    <2>2. ~Unloaded' /\ \A g : Entry(Base, g)' = Entry(Base, g)
      BY <2>1 DEF Base, Unloaded, Table, Entry
    <2>3. SyncInv' /\ StrayInv' /\ WriterInv'
      BY <1>1, <2>1, <2>2, ServiceKept DEF Active
    <2>4. ScriptInv'
      BY <1>1, <2>1, <2>2 DEF ScriptInv, Active
    <2>5. QED
      BY <1>2, <2>3, <2>4 DEF IInv
  <1>5. CASE StopSaves \/ StopRemoves
    <2>1. /\ script' \in {"idle", "clean"} /\ loaded' = loaded
          /\ stale' = IF loaded THEN Groups ELSE stale
      BY <1>5 DEF StopSaves, StopRemoves
    <2>2. ~Unloaded' /\ (Active' => stale' = Groups) /\ script' # "recover"
      BY <2>1 DEF Unloaded, Active
    <2>3. QED
      BY <1>2, <2>2 DEF IInv, SyncInv, StrayInv, WriterInv, ScriptInv
  <1>6. QED
    BY <1>3, <1>4, <1>5

-----------------------------------------------------------------------------
(* Theorems                                                                *)

LEMMA InvInit == AdminInit => IInv
  <1> SUFFICES ASSUME AdminInit PROVE IInv
    OBVIOUS
  <1>1. /\ FileOK(Empty("absent")) /\ ToolOK(Idle) /\ Idle \in ToolStates
        /\ Idle.pc = "idle" /\ Idle.fd = NoFile /\ Idle.out = "running"
    BY EmptyIsFile, IdleOK
  <1>2. NotServed \in [groups : SUBSET Groups, members : [Groups -> SUBSET VMs], orderly : BOOLEAN]
    BY DEF NotServed
  <1>3. TypeInv
    BY <1>1, <1>2 DEF AdminInit, AbsInit, TypeInv, AbsTypeOK, Answers
  <1>4. Pending = {} /\ Holders = {} /\ ~Active /\ script = "idle" /\ ~Rewritten
    BY <1>1 DEF AdminInit, Pending, Holders, Active, Unloaded, Rewritten, Filling
  <1>5. OrderInv /\ LockInv
    BY <1>4 DEF AdminInit, OrderInv, LockInv
  <1>6. NoFile # at
    BY AdminAssumption DEF AdminInit
  <1>7. OutInv /\ FileInv
    BY <1>1, <1>4, <1>6 DEF AdminInit, OutInv, FileInv
  <1>8. QED
    BY <1>3, <1>4, <1>5, <1>7 DEF IInv, SyncInv, StrayInv, WriterInv, ScriptInv, Unloaded

LEMMA InvStutter ==
  ASSUME IInv, UNCHANGED adminVars
  PROVE  IInv'
  <1>1. /\ UNCHANGED <<groups, members, ret, running, startup, at, written, tool, loaded, script>>
        /\ UNCHANGED <<saved, todo, order, stale, touched, served>>
    BY DEF adminVars, kernelVars, fileVars, scriptVars, recoveryVars, historyVars
  <1>2. TypeInv'
    BY <1>1 DEF IInv, TypeInv, AbsTypeOK
  <1>3. OrderInv' /\ LockInv' /\ OutInv' /\ FileInv'
    BY <1>1 DEF IInv, OrderInv, Pending, LockInv, Holders, OutInv, FileInv, Rewritten, Filling
  <1>4. Active' = Active /\ Unloaded' = Unloaded /\ Base' = Base
    BY <1>1, SameService
  <1>5. SyncInv'
    <2>1. \A u \in Pending : tool'[u].req = tool[u].req
      BY <1>1
    <2>2. \A g : Entry(Base, g)' = Entry(Base, g) /\ Entry(written, g)' = Entry(written, g)
      BY <1>1, <1>4 DEF Entry
    <2>3. QED
      BY <1>1, <1>4, <2>1, <2>2, SyncKeeps DEF IInv
  <1>6. StrayInv' /\ WriterInv'
    BY <1>1, <1>4 DEF IInv, StrayInv, Strays, WriterInv, Writers
  <1>7. ScriptInv'
    BY <1>1, <1>4 DEF IInv, ScriptInv
  <1>8. QED
    BY <1>2, <1>3, <1>5, <1>6, <1>7 DEF IInv

LEMMA InvStep == IInv /\ [AdminNext]_adminVars => IInv'
  <1> SUFFICES ASSUME IInv, [AdminNext]_adminVars PROVE IInv'
    OBVIOUS
  <1>1. ASSUME NEW t \in Tools, Begins(t) PROVE IInv'
    <2>1. PICK req \in Commands : InitOpens(t, req, FALSE) /\ UNCHANGED todo
      BY <1>1 DEF Begins
    <2>2. todo' \subseteq Groups
      BY <2>1 DEF IInv, TypeInv
    <2>3. QED
      BY <2>1, <2>2, InvOpens
  <1>2. ASSUME NEW t \in Tools, NEW g \in Groups, Recovers(t, g) PROVE IInv'
    <2> DEFINE req == [cmd |-> "join", g |-> g, R |-> saved.members[g]]
    <2>1. req \in Commands
      BY RecoveryRequest DEF IInv
    <2>2. InitOpens(t, req, TRUE) /\ todo' \subseteq Groups
      BY <1>2 DEF Recovers, IInv, TypeInv
    <2> HIDE DEF req
    <2>3. QED
      BY <2>1, <2>2, InvOpens
  <1>3. ASSUME NEW t \in Tools, InitLocks(t) \/ InitReads(t) \/ InitTruncates(t) \/ InitFills(t)
        PROVE  IInv'
    BY <1>3, InvLocks, InvReads, InvTruncates, InvInitFills DEF InitTruncates
  <1>4. ASSUME NEW t \in Tools,
               \/ EditOpens(t) \/ EditFindsNoArray(t) \/ EditReads(t)
               \/ EditTruncates(t) \/ EditFills(t)
        PROVE  IInv'
    BY <1>4, InvEditOpens, InvEditFindsNoArray, InvEditReads, InvTruncates, InvEditFills
       DEF EditTruncates
  <1>5. ASSUME NEW t \in Tools, TellsKernel(t) \/ NoKernel(t) \/ Killed(t) PROVE IInv'
    BY <1>5, InvTellsKernel, InvNoKernel, InvKilled
  <1>6. CASE PowerLoss
    BY <1>6, InvPowerLoss
  <1>7. CASE ScriptSteps
    BY <1>7, InvStart, InvStop DEF ScriptSteps
  <1>8. CASE UNCHANGED adminVars
    BY <1>8, InvStutter
  <1>9. QED
    BY <1>1, <1>2, <1>3, <1>4, <1>5, <1>6, <1>7, <1>8 DEF AdminNext, TellsKernel, ScriptSteps

\* The invariant of the configuration and the kernel, under any commands and accidents.
THEOREM AdminInvariant == AdminSpec => []IInv
  <1>1. QED
    BY InvInit, InvStep, PTL DEF AdminSpec

\* The order is as long as there are tools yet to tell the kernel.
LEMMA OrderCounts ==
  ASSUME OrderInv
  PROVE  Len(order) = Cardinality(Pending)
  <1> DEFINE n == Len(order)
             f == [i \in 1 .. n |-> order[i]]
  <1>1. n \in Nat
    BY DEF OrderInv
  <1>2. IsFiniteSet(1 .. n) /\ Cardinality(1 .. n) = n
    BY <1>1, FS_Interval, SMTT(30)
  <1>3. f \in Bijection(1 .. n, Pending)
    <2>1. f \in [1 .. n -> Pending]
      BY DEF OrderInv
    <2>2. \A i, j \in 1 .. n : f[i] = f[j] => i = j
      BY DEF OrderInv
    <2>3. \A t \in Pending : \E i \in 1 .. n : f[i] = t
      BY DEF OrderInv
    <2> HIDE DEF f, n
    <2>4. QED
      BY <2>1, <2>2, <2>3 DEF Bijection, Injection, IsInjective, Surjection
  <1>4. QED
    BY <1>2, <1>3, FS_Bijection DEF ExistsBijection

\* Requests, files, locks and the order of tools are what they are declared to be, whatever
\* commands, accidents, starts and stops come together: property AdminTypeOK.
THEOREM AdminTypeCorrect == AdminSpec => []AdminTypeOK
  <1>1. IInv => AdminTypeOK
    BY OrderCounts DEF IInv, TypeInv, OrderInv, AdminTypeOK, FileOK, ToolOK, ToolStates, Between,
                       Copying
  <1>2. QED
    BY <1>1, AdminInvariant, PTL

LEMMA EntryIsSame ==
  ASSUME NEW a, NEW b, NEW g, Entry(a, g) = Entry(b, g)
  PROVE  SameEntry(a, b, g)
  BY DEF Entry, SameEntry

\* A group that nobody is about to tell the kernel of, and that is not stale.
LEMMA SettledAgrees ==
  ASSUME IInv, Active, NEW g \in Groups \ (stale \cup PendingGroups)
  PROVE  Entry(written, g) = Entry(Base, g)
  <1>1. Leads(Entry(Base, g), Entry(written, g), g, Asked, Len(order))
    BY DEF IInv, SyncInv, Following
  <1>2. \A i \in 1 .. Len(order) : g \notin Concerns(Asked[i])
    BY NobodyAsks DEF IInv
  <1>3. Len(order) \in Nat
    BY DEF IInv, OrderInv
  <1>4. QED
    BY <1>1, <1>2, <1>3, LeadsQuiet

\* Whatever commands, kills, power losses, starts and stops come together, and whatever file
\* a tool has locked, file and kernel agree on every group that is not stale or being told of,
\* unless the file is just being rewritten: property InSyncUnlessStale.
THEOREM FileAndKernelAgree == AdminSpec => []InSyncUnlessStale
  <1>1. IInv => InSyncUnlessStale
    <2> SUFFICES ASSUME IInv, loaded, ~Rewritten, NEW g \in Groups \ (stale \cup PendingGroups)
                 PROVE  SameEntry(running, Table, g)
      BY DEF InSyncUnlessStale
    <2>1. Active /\ Base = Table /\ running = written
      BY DEF IInv, ScriptInv, FileInv, Active, Base
    <2>2. Entry(running, g) = Entry(Table, g)
      BY <2>1, SettledAgrees
    <2>3. QED
      BY <2>2, EntryIsSame
  <1>2. QED
    BY <1>1, AdminInvariant, PTL

LEMMA StopStep ==
  ASSUME IInv, StopSaves, served.orderly, ~Rewritten,
         NEW g \in Groups \ (stale \cup PendingGroups)
  PROVE  SameEntry(startup', served, g)
  <1>1. Active /\ Base = served /\ stale # Groups /\ script = "save" /\ running = written
    BY DEF StopSaves, Active, Unloaded, Base, IInv, FileInv
  <1>2. Entry(running, g) = Entry(served, g)
    BY <1>1, SettledAgrees
  <1>3. CASE running.file # "absent"
    BY <1>2, <1>3, EntryIsSame DEF StopSaves
  <1>4. CASE running.file = "absent"
    <2>1. startup' = startup /\ startup.groups = {} /\ running.groups = {}
      BY <1>1, <1>4 DEF StopSaves, fileVars, IInv, ScriptInv, TypeInv, FileOK, WellFormed
    <2>2. startup.members[g] = {} /\ running.members[g] = {}
      BY <2>1 DEF IInv, TypeInv, FileOK, WellFormed
    <2>3. Entry(startup, g) = Entry(running, g)
      BY <2>1, <2>2 DEF Entry
    <2>4. QED
      BY <1>2, <2>1, <2>3, EntryIsSame
  <1>5. QED
    BY <1>3, <1>4

\* What an orderly stop saves is what the module served, for every group that is not stale
\* or being told of: property StopSavesServed.
THEOREM StopSavesTable == AdminSpec => StopSavesServed
  <1> DEFINE A == StopSaves /\ served.orderly /\ ~Rewritten =>
                    \A g \in Groups \ (stale \cup PendingGroups) : SameEntry(startup', served, g)
  <1>1. IInv => A
    BY StopStep
  <1>2. IInv /\ [AdminNext]_adminVars => [A]_adminVars
    BY <1>1
  <1>3. QED
    BY <1>2, AdminInvariant, PTL DEF AdminSpec, StopSavesServed

\* A request that overtakes no other about g was accepted on what the kernel has of g.
LEMMA NextAllowed ==
  ASSUME IInv, loaded, NEW t \in Pending, NEW g \in About(t), g \notin stale, Overtaken(t) = {}
  PROVE  /\ Allowed(tool[t].req, Entry(Table, g))
         /\ Len(order) = 1 =>
              Entry(written, g) = Effect(tool[t].req, g, Entry(Table, g))
  <1> DEFINE n == Len(order)
             p == Position(t)
             q == Asked
             r == [i \in 1 .. n - 1 |-> IF i < p THEN q[i] ELSE q[i + 1]]
  <1>1. TypeInv /\ OrderInv /\ Base = Table /\ Active
    BY DEF IInv, ScriptInv, Active, Base
  <1>2. t \in Tools /\ g \in Groups
    BY <1>1, AboutGroups DEF Pending
  <1>3. p \in 1 .. n /\ order[p] = t /\ n \in Nat
    BY <1>1, PositionOf DEF OrderInv
  <1>4. q[p] = tool[t].req /\ g \in Concerns(q[p])
    BY <1>1, <1>3, AskedFacts
  <1>5. Leads(Entry(Table, g), Entry(written, g), g, q, n)
    BY <1>1, <1>2 DEF IInv, SyncInv, Following
  <1>6. ASSUME NEW i \in 1 .. p - 1 PROVE g \notin Concerns(q[i])
    <2>1. /\ \A k \in 1 .. n : order[k] \in Pending
          /\ \A k, m \in 1 .. n : order[k] = order[m] => k = m
      BY <1>1 DEF OrderInv
    <2>2. i \in 1 .. n /\ order[i] \in Pending \ {t} /\ i < p
      BY <1>3, <2>1
    <2>3. Position(order[i]) = i
      BY <1>1, <2>1, <2>2, PositionOf
    <2>4. About(order[i]) \cap About(t) = {}
      BY <2>2, <2>3 DEF Overtaken
    <2>5. QED
      BY <1>1, <2>2, <2>4, AskedFacts
  <1> HIDE DEF n, p, q
  <1>7. \A i \in 1 .. n - 1 : r[i] = IF i < p THEN q[i] ELSE q[i + 1]
    OBVIOUS
  <1> HIDE DEF r
  <1>8. /\ Allowed(q[p], Entry(Table, g))
        /\ Leads(Effect(q[p], g, Entry(Table, g)), Entry(written, g), g, r, n - 1)
    BY <1>3, <1>4, <1>5, <1>6, <1>7, LeadsFirst
  <1>9. ASSUME n = 1 PROVE Entry(written, g) = Effect(tool[t].req, g, Entry(Table, g))
    <2>1. n - 1 = 0 /\ \A i \in 1 .. 0 : g \notin Concerns(r[i])
      BY <1>9
    <2>2. QED
      BY <1>4, <1>8, <2>1, LeadsQuiet
  <1>10. QED
    BY <1>4, <1>8, <1>9 DEF n

\* The only request under way, with nothing stale: the file is the kernel's table with it.
LEMMA LastHasRoom ==
  ASSUME IInv, loaded, NEW t \in Tools, Pending = {t}, stale = {}, Overtaken(t) = {},
         tool[t].req.cmd = "join", tool[t].req.g \notin groups
  PROVE  Cardinality(groups) < GrpMax
  <1> DEFINE g == tool[t].req.g
  <1>1. TypeInv /\ OrderInv /\ Base = Table /\ Active
    BY DEF IInv, ScriptInv, Active, Base
  <1>2. g \in Groups /\ About(t) = {g}
    BY <1>1, AboutGroups, CommandFields
  <1>3. Len(order) = 1
    <2>1. PICK i \in 1 .. Len(order) : order[i] = t
      BY <1>1 DEF OrderInv
    <2>2. Len(order) \in Nat /\ \A k \in 1 .. Len(order) : order[k] = t
      BY <1>1 DEF OrderInv
    <2>3. \A k \in 1 .. Len(order) : k = i
      BY <1>1, <2>1, <2>2 DEF OrderInv
    <2>4. i \in Nat /\ 1 <= i /\ i <= Len(order)
      BY <2>1, <2>2
    <2>5. 1 \in 1 .. Len(order) /\ Len(order) \in 1 .. Len(order)
      BY <2>2, <2>4
    <2>6. QED
      BY <2>3, <2>5
  <1>4. Entry(written, g) = Effect(tool[t].req, g, Entry(Table, g))
    BY <1>2, <1>3, NextAllowed
  <1>5. g \in written.groups
    BY <1>4 DEF Entry, Effect
  <1>6. ASSUME NEW h \in Groups, h # g PROVE h \in written.groups <=> h \in groups
    <2>1. h \notin PendingGroups
      BY <1>2, <1>6 DEF PendingGroups
    <2>2. Entry(written, h) = Entry(Table, h)
      BY <1>1, <2>1, SettledAgrees
    <2>3. QED
      BY <2>2 DEF Entry, Table
  <1>7. groups \subseteq Groups /\ written.groups \subseteq Groups /\ Cardinality(written.groups) <= GrpMax
    BY <1>1 DEF TypeInv, AbsTypeOK, FileOK, WellFormed, Config
  <1>8. written.groups = groups \cup {g}
    BY <1>2, <1>5, <1>6, <1>7
  <1>9. Cardinality(written.groups) = Cardinality(groups) + 1 /\ Cardinality(groups) \in Nat
    BY <1>7, <1>8, GroupSets, FS_AddElement
  <1>10. QED
    BY <1>7, <1>9, AdminAssumption

LEMMA RefusedStep ==
  ASSUME IInv, NEW t \in Tools, KernelRefuses(t) \/ KernelMissing(t)
  PROVE  LET g == tool[t].req.g IN
         \/ g \in stale \/ Overtaken(t) # {}
         \/ KernelRefuses(t) /\ g \notin groups /\ (stale # {} \/ Pending # {t})
  <1> DEFINE req == tool[t].req
             g == req.g
  <1> SUFFICES ASSUME g \notin stale, Overtaken(t) = {},
                      ~(KernelRefuses(t) /\ g \notin groups /\ (stale # {} \/ Pending # {t}))
               PROVE  FALSE
    OBVIOUS
  <1>1. loaded /\ t \in Pending /\ req.cmd \in {"join", "quit"} /\ req \in Commands
    BY AboutGroups DEF KernelRefuses, KernelMissing, Tells, Pending, IInv
  <1>2. g \in Groups /\ About(t) = {g}
    BY <1>1, CommandFields, AboutGroups DEF IInv
  <1>3. Allowed(req, Entry(Table, g))
    BY <1>1, <1>2, NextAllowed
  <1>4. CASE KernelMissing(t)
    <2>1. req.cmd = "quit" /\ g \notin groups
      BY <1>4 DEF KernelMissing, Tells, AbsMissing
    <2>2. QED
      BY <1>3, <2>1 DEF Allowed, Entry, Table
  <1>5. CASE KernelRefuses(t)
    <2>1. req.cmd = "join" /\ ~HasRoom(g, req.R)
      BY <1>5 DEF KernelRefuses, Tells, ExactJoinRefused
    <2>2. CASE g \in groups
      <3>1. Cardinality(req.R) + Cardinality(members[g]) <= VmMax
        BY <1>3, <2>1, <2>2 DEF Allowed, Entry, Table
      <3>2. QED
        BY <2>1, <2>2, <3>1 DEF HasRoom, Fits
    <2>3. CASE g \notin groups
      <3>1. Cardinality(groups) < GrpMax
        BY <1>1, <1>5, <2>1, <2>3, LastHasRoom
      <3>2. QED
        BY <2>1, <2>3, <3>1 DEF HasRoom
    <2>4. QED
      BY <2>2, <2>3
  <1>6. QED
    BY <1>4, <1>5

\* What the file has accepted the kernel refuses only where the two have parted or requests
\* overtake each other: property RefusedByFileFirst.
THEOREM FileRefusesFirst == AdminSpec => RefusedByFileFirst
  <1> DEFINE A == \A t \in Tools :
                    LET g == tool[t].req.g IN
                    KernelRefuses(t) \/ KernelMissing(t) =>
                      \/ g \in stale \/ Overtaken(t) # {}
                      \/ KernelRefuses(t) /\ g \notin groups /\ (stale # {} \/ Pending # {t})
  <1>1. IInv => A
    BY RefusedStep
  <1>2. IInv /\ [AdminNext]_adminVars => [A]_adminVars
    BY <1>1
  <1>3. QED
    BY <1>2, AdminInvariant, PTL DEF AdminSpec, RefusedByFileFirst

-----------------------------------------------------------------------------
(* The recovery of the configuration: the invariant                        *)

\* Every group has met an accident, or another tool than the recovery's.
Covered == Groups \subseteq stale \cup touched

\* The saved groups and those of other tools fit together.
Room == Cardinality(saved.groups \cup touched) <= GrpMax

\* The recovery has yet to add g, or a child of it is about to.
Recovering(g) == g \in todo \/ \E t \in Tools : tool[t].child /\ tool[t].req.g = g

\* The recovery runs one command at a time, and that adds a group as it was saved.
ChildInv ==
  /\ \A t \in Tools : tool[t].child =>
       /\ script = "recover" /\ tool[t].pc # "idle"
       /\ tool[t].req.cmd = "join" /\ tool[t].req.g \in saved.groups \ todo
       /\ tool[t].req.R = saved.members[tool[t].req.g]
  /\ \A t, u \in Tools : tool[t].child /\ tool[u].child => t = u
  /\ script = "recover" => todo \subseteq saved.groups
  /\ script # "recover" => saved.groups = {}

\* Only -C writes a file without the array.
ArrayKept(s) ==
  \/ s.copy.file = "array"
  \/ s.pc \in {"edit", "editfill"} /\ s.accepted /\ s.req.cmd = "clear"
CopyInv == \A t \in Writers : ArrayKept(tool[t])

\* What other tools than the recovery's do during a start is in touched.
StartInv ==
  Starting =>
    /\ \A t \in Pending : tool[t].child \/ About(t) \subseteq touched
    /\ ~Covered => /\ written.groups \subseteq saved.groups \cup touched
                   /\ \A t \in Tools : tool[t].child /\ tool[t].pc \in {"config", "reopen"} =>
                        written.file = "array"

(***************************************************************************)
(* The kernel has what was saved of the groups that the recovery has       *)
(* added, and nothing of those that it has not, and the file refuses none. *)
(***************************************************************************)
RecoverInv ==
  script = "recover" /\ Room => \A g \in Groups \ (stale \cup touched) :
    /\ Entry(Table, g) = IF Recovering(g) THEN None ELSE Entry(saved, g)
    /\ \A t \in Tools : tool[t].child /\ tool[t].req.g = g /\ tool[t].pc \in {"edit", "editfill"} =>
         tool[t].accepted

RInv == ChildInv /\ CopyInv /\ StartInv /\ RecoverInv

\* During a start, as long as any group is spared, every open file is the running
\* configuration, and a copy is one of it.
LEMMA StartSpares ==
  ASSUME IInv, Starting, ~Covered
  PROVE  Active /\ stale # Groups /\ Strays = {} /\ \A t \in Writers : CopyOf(tool[t], written)
  <1>1. Active /\ stale # Groups
    BY DEF IInv, ScriptInv, Starting, Active, Covered
  <1>2. QED
    BY <1>1 DEF IInv, StrayInv, WriterInv

LEMMA ChildRequest ==
  ASSUME IInv, RInv, NEW t \in Tools, tool[t].child
  PROVE  /\ script = "recover" /\ Starting /\ tool[t].req.cmd = "join"
         /\ tool[t].req.g \in Groups /\ About(t) = {tool[t].req.g}
  BY AboutGroups, CommandFields DEF RInv, ChildInv, Starting, IInv

\* The parts of the invariant after a step of t that leaves it in s.
LEMMA ToolStepKeeps ==
  ASSUME IInv, RInv, NEW t \in Tools, NEW s, tool' = [tool EXCEPT ![t] = s],
         UNCHANGED <<saved, script, todo>>,
         s.child => tool[t].child /\ s.req = tool[t].req /\ s.pc # "idle",
         s.pc \in Copying => ArrayKept(s),
         Starting =>
           /\ stale \cup touched \subseteq stale' \cup touched' /\ touched \subseteq touched'
           /\ touched' \subseteq Groups
           /\ s.pc = "kernel" => s.child \/ Concerns(s.req) \subseteq touched'
           /\ ~Covered' => /\ written'.groups \subseteq saved.groups \cup touched'
                           /\ written.file = "array" => written'.file = "array"
                           /\ s.child /\ s.pc \in {"config", "reopen"} => written'.file = "array",
         \A g \in Groups \ (stale' \cup touched') : script = "recover" /\ Room =>
           /\ Entry(Table, g)' = IF tool[t].child /\ tool[t].req.g = g /\ ~s.child
                                 THEN Entry(saved, g) ELSE Entry(Table, g)
           /\ s.child /\ s.req.g = g /\ s.pc \in {"edit", "editfill"} => s.accepted
  PROVE  RInv'
  <1>1. /\ tool \in [Tools -> ToolStates] /\ touched \subseteq Groups
        /\ saved.groups \subseteq Groups
    BY DEF IInv, TypeInv, FileOK, WellFormed, Config
  <1>2. tool'[t] = s /\ \A u \in Tools \ {t} : tool'[u] = tool[u]
    BY <1>1
  <1>3. Starting' = Starting /\ (script = "recover" => Starting)
    BY DEF Starting
  <1>4. ChildInv'
    BY <1>2 DEF RInv, ChildInv
  <1>5. CopyInv'
    BY <1>2 DEF RInv, CopyInv, Writers
  <1>6. StartInv'
    <2> SUFFICES ASSUME Starting
                 PROVE  /\ \A u \in Pending' : tool'[u].child \/ About(u)' \subseteq touched'
                        /\ ~Covered' =>
                             /\ written'.groups \subseteq saved'.groups \cup touched'
                             /\ \A u \in Tools : tool'[u].child /\ tool'[u].pc \in {"config", "reopen"} =>
                                  written'.file = "array"
      BY <1>3 DEF StartInv
    <2>1. ASSUME NEW u \in Pending' PROVE tool'[u].child \/ About(u)' \subseteq touched'
      <3>1. CASE u = t
        BY <1>2, <2>1, <3>1 DEF Pending, About, Concerns
      <3>2. CASE u # t
        <4>1. u \in Pending /\ tool'[u] = tool[u] /\ About(u)' = About(u)
          BY <1>2, <2>1, <3>2 DEF Pending, About
        <4>2. QED
          BY <4>1 DEF RInv, StartInv
      <3>3. QED
        BY <3>1, <3>2
    <2>2. ~Covered' => ~Covered
      BY DEF Covered
    <2>3. ASSUME ~Covered', NEW u \in Tools, tool'[u].child, tool'[u].pc \in {"config", "reopen"}
          PROVE  written'.file = "array"
      BY <1>2, <2>2, <2>3 DEF RInv, StartInv
    <2>4. QED
      BY <2>1, <2>3
  <1>7. RecoverInv'
    <2> SUFFICES ASSUME script = "recover", Room', NEW g \in Groups \ (stale' \cup touched')
                 PROVE  /\ Entry(Table, g)' = IF Recovering(g)' THEN None ELSE Entry(saved, g)'
                        /\ \A u \in Tools : tool'[u].child /\ tool'[u].req.g = g
                                            /\ tool'[u].pc \in {"edit", "editfill"} => tool'[u].accepted
      BY DEF RecoverInv
    <2>1. Starting /\ g \notin stale \cup touched
      BY <1>3
    <2>2. Room
      <3>1. /\ saved.groups \cup touched \subseteq saved.groups \cup touched'
            /\ IsFiniteSet(saved.groups \cup touched')
            /\ Cardinality(saved.groups \cup touched) \in Nat
            /\ Cardinality(saved.groups \cup touched') \in Nat
        BY <1>1, <2>1, GroupSets
      <3>2. Cardinality(saved.groups \cup touched) <= Cardinality(saved.groups \cup touched')
        BY <3>1, FS_Subset
      <3>3. QED
        BY <3>1, <3>2, AdminAssumption DEF Room
    <2>3. /\ Entry(Table, g) = IF Recovering(g) THEN None ELSE Entry(saved, g)
          /\ \A u \in Tools : tool[u].child /\ tool[u].req.g = g
                              /\ tool[u].pc \in {"edit", "editfill"} => tool[u].accepted
      BY <2>1, <2>2 DEF RInv, RecoverInv
    <2>4. Entry(saved, g)' = Entry(saved, g)
      BY DEF Entry
    <2>5. CASE tool[t].child /\ tool[t].req.g = g /\ ~s.child
      <3>1. ~Recovering(g)'
        BY <1>2, <2>5 DEF Recovering, RInv, ChildInv
      <3>2. QED
        BY <1>2, <2>2, <2>3, <2>4, <2>5, <3>1
    <2>6. CASE ~(tool[t].child /\ tool[t].req.g = g /\ ~s.child)
      <3>1. Recovering(g)' <=> Recovering(g)
        BY <1>2, <2>6 DEF Recovering
      <3>2. QED
        BY <1>2, <2>2, <2>3, <2>4, <2>6, <3>1
    <2>7. QED
      BY <2>5, <2>6
  <1>8. QED
    BY <1>4, <1>5, <1>6, <1>7 DEF RInv

\* ... for the steps within the two passes.
LEMMA PassKeeps ==
  ASSUME IInv, RInv, NEW t \in Tools, NEW s, tool' = [tool EXCEPT ![t] = s],
         SameTable, SameHistory,
         tool[t].child => s.child,
         s.child => tool[t].child /\ s.req = tool[t].req /\ s.pc # "idle",
         s.pc # "kernel", s.pc \in Copying => ArrayKept(s),
         Starting /\ ~Covered =>
           /\ written'.groups \subseteq saved.groups \cup touched
           /\ written.file = "array" => written'.file = "array"
           /\ s.child /\ s.pc \in {"config", "reopen"} => written'.file = "array",
         \A g \in Groups \ (stale \cup touched) :
           script = "recover" /\ Room /\ s.child /\ s.req.g = g /\ s.pc \in {"edit", "editfill"} =>
             s.accepted
  PROVE  RInv'
  <1>1. /\ UNCHANGED <<groups, members, saved, script, todo, stale, touched>>
        /\ touched \subseteq Groups
    BY DEF SameTable, SameHistory, IInv, TypeInv
  <1>2. Covered' <=> Covered
    BY <1>1 DEF Covered
  <1>3. \A g : Entry(Table, g)' = Entry(Table, g)
    BY <1>1 DEF Entry, Table
  <1>4. QED
    BY <1>1, <1>2, <1>3, ToolStepKeeps

LEMMA RInvInit == AdminInit => RInv
  <1> SUFFICES ASSUME AdminInit PROVE RInv
    OBVIOUS
  <1>1. \A t \in Tools : ~tool[t].child /\ tool[t].pc = "idle"
    BY DEF AdminInit, Idle
  <1>2. script = "idle" /\ saved.groups = {}
    BY DEF AdminInit, Empty
  <1>3. QED
    BY <1>1, <1>2 DEF RInv, ChildInv, CopyInv, Writers, Copying, StartInv, RecoverInv, Starting

LEMMA RInvStutter ==
  ASSUME RInv, UNCHANGED adminVars
  PROVE  RInv'
  <1>1. UNCHANGED <<groups, members, written, saved, tool, script, todo, stale, touched>>
    BY DEF adminVars, kernelVars, fileVars, scriptVars, recoveryVars, historyVars
  <1>2. ChildInv' /\ CopyInv'
    BY <1>1 DEF RInv, ChildInv, CopyInv, Writers
  <1>3. StartInv'
    BY <1>1 DEF RInv, StartInv, Starting, Pending, About, Covered
  <1>4. RecoverInv'
    BY <1>1, ZenonT(60) DEF RInv, RecoverInv, Room, Recovering, Entry, Table
  <1>5. QED
    BY <1>2, <1>3, <1>4 DEF RInv

-----------------------------------------------------------------------------
(* Steps, one by one: the recovery                                         *)

\* Opening the file leaves its groups as they are.
LEMMA CreatesKeeps ==
  ASSUME IInv, RInv, Creates
  PROVE  /\ Starting /\ ~Covered => written'.groups \subseteq saved.groups \cup touched
         /\ written.file = "array" => written'.file = "array"
  BY CreatesFile DEF IInv, RInv, StartInv

LEMMA RInvBegins ==
  ASSUME IInv, RInv, NEW t \in Tools, NEW req \in Commands, InitOpens(t, req, FALSE), todo' = todo
  PROVE  RInv'
  <1>1. PICK child \in BOOLEAN : child = FALSE
    OBVIOUS
  <1> DEFINE s == Opening(req, child, at)
  <1>2. InitOpens(t, req, child) /\ todo' \subseteq Groups
    BY <1>1 DEF IInv, TypeInv
  <1>3. /\ tool[t].pc = "idle" /\ tool' = [tool EXCEPT ![t] = s]
        /\ s.pc = "open" /\ s.child = child /\ Creates
        /\ UNCHANGED <<groups, members, saved, script, stale, touched>>
    BY <1>2, OpensStep DEF IInv
  <1> HIDE DEF s
  <1>4. ~tool[t].child /\ ~s.child /\ s.pc \notin Copying
    BY <1>1, <1>3 DEF RInv, ChildInv, Copying
  <1>5. touched \subseteq Groups /\ (Covered' <=> Covered)
    BY <1>3 DEF Covered, IInv, TypeInv
  <1>6. /\ Starting /\ ~Covered => written'.groups \subseteq saved.groups \cup touched
        /\ written.file = "array" => written'.file = "array"
    BY <1>3, CreatesKeeps
  <1>7. \A g : Entry(Table, g)' = Entry(Table, g)
    BY <1>3 DEF Entry, Table
  <1>8. QED
    BY <1>3, <1>4, <1>5, <1>6, <1>7, ToolStepKeeps

\* The recovery starts its next command.
LEMMA RInvRecovers ==
  ASSUME IInv, RInv, NEW t \in Tools, NEW g \in Groups, Recovers(t, g)
  PROVE  RInv'
  <1> DEFINE req == [cmd |-> "join", g |-> g, R |-> saved.members[g]]
  <1>0. PICK child \in BOOLEAN : child = TRUE
    OBVIOUS
  <1> DEFINE s == Opening(req, child, at)
  <1>1. /\ script = "recover" /\ NoChild /\ g \in todo /\ todo' = todo \ {g}
        /\ InitOpens(t, req, child) /\ todo' \subseteq Groups
        /\ req.cmd = "join" /\ req.g = g /\ req.R = saved.members[g]
    BY <1>0 DEF Recovers, IInv, TypeInv
  <1>2. req \in Commands
    BY RecoveryRequest DEF IInv
  <1> HIDE DEF req
  <1>3. /\ tool[t].pc = "idle" /\ tool' = [tool EXCEPT ![t] = s]
        /\ s.pc = "open" /\ s.child = child /\ s.req = req /\ Creates
        /\ UNCHANGED <<groups, members, saved, loaded, script, stale, touched>>
    BY <1>1, <1>2, OpensStep DEF IInv
  <1> HIDE DEF s
  <1>4. tool \in [Tools -> ToolStates] /\ s.child
    BY <1>0, <1>3 DEF IInv, TypeInv
  <1>5. tool'[t] = s /\ \A u \in Tools \ {t} : tool'[u] = tool[u] /\ ~tool[u].child
    BY <1>1, <1>3, <1>4 DEF NoChild
  <1>6. ChildInv'
    BY <1>1, <1>3, <1>4, <1>5 DEF RInv, ChildInv
  <1>7. CopyInv'
    BY <1>3, <1>5 DEF RInv, CopyInv, Writers, Copying
  <1>8. StartInv'
    <2>1. Starting /\ (Covered' <=> Covered)
      BY <1>1, <1>3 DEF Starting, Covered
    <2>2. ASSUME NEW u \in Pending' PROVE tool'[u].child \/ About(u)' \subseteq touched'
      <3>1. u # t /\ u \in Pending /\ tool'[u] = tool[u]
        BY <1>3, <1>5, <2>2 DEF Pending
      <3>2. About(u)' = About(u)
        BY <3>1 DEF About
      <3>3. QED
        BY <1>3, <2>1, <3>1, <3>2 DEF RInv, StartInv
    <2>3. ASSUME ~Covered
          PROVE  /\ written'.groups \subseteq saved'.groups \cup touched'
                 /\ \A u \in Tools : ~(tool'[u].child /\ tool'[u].pc \in {"config", "reopen"})
      BY <1>3, <1>5, <2>1, <2>3, CreatesKeeps
    <2>4. QED
      BY <2>1, <2>2, <2>3 DEF StartInv
  <1>9. RecoverInv'
    <2> SUFFICES ASSUME Room, NEW h \in Groups \ (stale \cup touched)
                 PROVE  /\ Entry(Table, h)' = IF Recovering(h)' THEN None ELSE Entry(saved, h)'
                        /\ \A u \in Tools : ~(tool'[u].child /\ tool'[u].pc \in {"edit", "editfill"})
      BY <1>3 DEF RecoverInv, Room
    <2>1. Entry(Table, h) = IF Recovering(h) THEN None ELSE Entry(saved, h)
      BY <1>1 DEF RInv, RecoverInv
    <2>2. Entry(saved, h)' = Entry(saved, h) /\ Entry(Table, h)' = Entry(Table, h)
      BY <1>3 DEF Entry, Table
    <2>3. Recovering(h)' <=> Recovering(h)
      BY <1>1, <1>3, <1>4, <1>5 DEF Recovering, NoChild
    <2>4. \A u \in Tools : ~(tool'[u].child /\ tool'[u].pc \in {"edit", "editfill"})
      BY <1>3, <1>5
    <2>5. QED
      BY <2>1, <2>2, <2>3, <2>4
  <1>10. QED
    BY <1>6, <1>7, <1>8, <1>9 DEF RInv

LEMMA RInvLocks ==
  ASSUME IInv, RInv, NEW t \in Tools, InitLocks(t)
  PROVE  RInv'
  <1> DEFINE s == Moving(tool[t], "locked")
  <1>1. /\ tool' = [tool EXCEPT ![t] = s]
        /\ s.pc = "locked" /\ s.req = tool[t].req /\ s.child = tool[t].child
        /\ Creates /\ SameTable /\ SameHistory
    BY LocksStep DEF IInv
  <1> HIDE DEF s
  <1>2. s.pc \notin Copying
    BY <1>1 DEF Copying
  <1>3. QED
    BY <1>1, <1>2, CreatesKeeps, PassKeeps

LEMMA RInvReads ==
  ASSUME IInv, RInv, NEW t \in Tools, InitReads(t)
  PROVE  RInv'
  <1> DEFINE s == Reading(tool[t], running)
  <1>1. /\ tool' = [tool EXCEPT ![t] = s]
        /\ s.pc = "init" /\ s.req = tool[t].req /\ s.child = tool[t].child
        /\ s.copy = Inited(running) /\ written' = written /\ SameTable /\ SameHistory
    BY ReadsStep DEF IInv
  <1> HIDE DEF s
  <1>2. ArrayKept(s)
    BY <1>1, InitedFile DEF ArrayKept, IInv, TypeInv
  <1>3. QED
    BY <1>1, <1>2, PassKeeps DEF RInv, StartInv

LEMMA RInvTruncates ==
  ASSUME IInv, RInv, NEW t \in Tools, NEW pc, NEW next, Truncates(t, pc, next),
         \/ pc = "init" /\ next = "initfill"
         \/ pc = "edit" /\ next = "editfill"
  PROVE  RInv'
  <1> DEFINE s == Moving(tool[t], next)
  <1>1. /\ tool[t].pc = pc /\ tool' = [tool EXCEPT ![t] = s]
        /\ s.pc = next /\ s.req = tool[t].req /\ s.child = tool[t].child
        /\ s.copy = tool[t].copy /\ s.accepted = tool[t].accepted
        /\ written' = written /\ SameTable /\ SameHistory
    BY TruncatesStep DEF IInv
  <1> HIDE DEF s
  <1>2. ArrayKept(s)
    <2>1. t \in Writers
      BY <1>1 DEF Writers, Copying
    <2>2. ArrayKept(tool[t])
      BY <2>1 DEF RInv, CopyInv
    <2>3. QED
      BY <1>1, <2>2 DEF ArrayKept
  <1>3. ASSUME NEW g \in Groups \ (stale \cup touched), script = "recover", Room, s.child,
               s.req.g = g, s.pc \in {"edit", "editfill"}
        PROVE  s.accepted
    <2>1. tool[t].pc = "edit" /\ tool[t].child /\ tool[t].req.g = g
      BY <1>1, <1>3
    <2>2. QED
      BY <1>1, <1>3, <2>1 DEF RInv, RecoverInv
  <1>4. QED
    BY <1>1, <1>2, <1>3, PassKeeps DEF RInv, StartInv

\* As long as any group is spared, a file is filled with what was read from it.
LEMMA FillsSpared ==
  ASSUME IInv, Starting, ~Covered, NEW t \in Tools, tool[t].pc \in Writing, Fills(t)
  PROVE  /\ written' = tool[t].copy /\ CopyOf(tool[t], written)
         /\ tool[t].copy.groups \subseteq Groups
  <1>1. t \in Writers /\ Filling(t)
    BY StartSpares, FillsInPlace DEF Writers, Copying, Writing
  <1>2. written' = tool[t].copy /\ CopyOf(tool[t], written)
    BY <1>1, StartSpares, FillsFile DEF IInv
  <1>3. QED
    BY <1>2 DEF IInv, TypeInv, ToolOK, FileOK, WellFormed, Config

LEMMA RInvInitFills ==
  ASSUME IInv, RInv, NEW t \in Tools, InitFills(t)
  PROVE  RInv'
  <1> DEFINE s == Configuring(tool[t])
  <1>1. /\ tool[t].pc = "initfill" /\ tool' = [tool EXCEPT ![t] = s]
        /\ s.pc \in {"idle", "config"}
        /\ s.child => tool[t].child /\ s.req = tool[t].req /\ s.pc = "config"
        /\ tool[t].req.cmd # "read" => s.child = tool[t].child
        /\ Fills(t) /\ SameTable /\ SameHistory
    BY InitFillsStep DEF IInv
  <1> HIDE DEF s
  <1>2. tool[t].child => s.child
    BY <1>1, ChildRequest
  <1>3. s.pc \notin Copying /\ t \in Writers /\ tool[t].pc \in Writing
    BY <1>1 DEF Copying, Writers, Writing
  <1>4. tool[t].copy.file = "array"
    BY <1>1, <1>3 DEF RInv, CopyInv, ArrayKept
  <1>5. ASSUME Starting, ~Covered
        PROVE  /\ written'.groups \subseteq saved.groups \cup touched
               /\ written'.file = "array"
    <2>1. /\ written' = tool[t].copy /\ CopyOf(tool[t], written)
          /\ tool[t].copy.groups \subseteq Groups
      BY <1>1, <1>3, <1>5, FillsSpared
    <2>2. \A g \in Groups : Entry(tool[t].copy, g) = Entry(written, g)
      BY <1>1, <2>1 DEF CopyOf
    <2>3. tool[t].copy.groups \subseteq written.groups
      BY <2>1, <2>2 DEF Entry
    <2>4. QED
      BY <1>4, <1>5, <2>1, <2>3 DEF RInv, StartInv
  <1>6. QED
    BY <1>1, <1>2, <1>3, <1>5, PassKeeps

LEMMA RInvEditOpens ==
  ASSUME IInv, RInv, NEW t \in Tools, EditOpens(t)
  PROVE  RInv'
  <1> DEFINE s == Reopening(tool[t], at)
  <1>1. /\ tool[t].pc = "config" /\ tool' = [tool EXCEPT ![t] = s]
        /\ s.pc = "reopen" /\ s.req = tool[t].req /\ s.child = tool[t].child
        /\ Creates /\ SameTable /\ SameHistory
    BY EditOpensStep DEF IInv
  <1> HIDE DEF s
  <1>2. s.pc \notin Copying
    BY <1>1 DEF Copying
  <1>3. Starting /\ ~Covered /\ s.child => written.file = "array"
    BY <1>1 DEF RInv, StartInv
  <1>4. QED
    BY <1>1, <1>2, <1>3, CreatesKeeps, PassKeeps

\* The file accepts what the recovery adds.
LEMMA ChildAccepted ==
  ASSUME IInv, RInv, NEW t \in Tools, tool[t].child, tool[t].pc = "reopen", Locks(t), Room,
         tool[t].req.g \in Groups \ (stale \cup touched)
  PROVE  ~Refused(running, tool[t].req)
  <1> DEFINE g == tool[t].req.g
  <1>1. script = "recover" /\ Starting /\ tool[t].req.cmd = "join" /\ g \in saved.groups
    BY ChildRequest DEF RInv, ChildInv
  <1>2. Entry(Table, g) = None
    <2>1. Recovering(g)
      BY DEF Recovering
    <2>2. QED
      BY <1>1, <2>1 DEF RInv, RecoverInv
  <1>3. g \notin PendingGroups
    <2> SUFFICES ASSUME NEW u \in Pending, g \in About(u) PROVE FALSE
      BY DEF PendingGroups
    <2>1. tool[u].child /\ u \in Tools /\ tool[u].pc = "kernel"
      BY <1>1 DEF RInv, StartInv, Pending
    <2>2. u = t
      BY <2>1 DEF RInv, ChildInv
    <2>3. QED
      BY <2>1, <2>2
  <1>4. ~Covered
    BY DEF Covered
  <1>5. running = written
    BY <1>1, <1>4, StartSpares, LockedReadsWritten
  <1>6. g \notin running.groups
    <2>1. loaded /\ Active /\ Base = Table
      BY <1>1 DEF IInv, ScriptInv, Active, Base
    <2>2. Entry(running, g) = None
      BY <1>2, <1>3, <1>5, <2>1, SettledAgrees
    <2>3. QED
      BY <2>2 DEF Entry, None
  <1>7. running.groups \cup {g} \subseteq saved.groups \cup touched
    BY <1>1, <1>4, <1>5 DEF RInv, StartInv
  <1>8. saved.groups \cup touched \subseteq Groups
    BY DEF IInv, TypeInv, FileOK, WellFormed, Config
  <1>9. /\ Cardinality(running.groups) \in Nat
        /\ Cardinality(running.groups \cup {g}) = Cardinality(running.groups) + 1
        /\ Cardinality(running.groups \cup {g}) <= Cardinality(saved.groups \cup touched)
        /\ Cardinality(saved.groups \cup touched) \in Nat
    BY <1>6, <1>7, <1>8, GroupSets, FS_AddElement, FS_Subset
  <1>10. Cardinality(running.groups) + 1 <= GrpMax
    BY <1>9, AdminAssumption DEF Room
  <1>11. ~(Cardinality(running.groups) + 1 > GrpMax)
    BY <1>9, <1>10, AdminAssumption
  <1>12. QED
    BY <1>1, <1>6, <1>11 DEF Refused

LEMMA RInvEditReads ==
  ASSUME IInv, RInv, NEW t \in Tools, EditReads(t)
  PROVE  RInv'
  <1> DEFINE s == Editing(tool[t], running)
  <1>1. /\ tool[t].pc = "reopen" /\ tool' = [tool EXCEPT ![t] = s]
        /\ s.pc = "edit" /\ s.req = tool[t].req /\ s.child = tool[t].child
        /\ s.accepted <=> ~Refused(running, s.req)
        /\ s.copy.file = "array" \/ (s.accepted /\ s.req.cmd = "clear")
        /\ Locks(t) /\ written' = written /\ SameTable /\ SameHistory
    BY EditReadsStep DEF IInv
  <1> HIDE DEF s
  <1>2. ArrayKept(s)
    BY <1>1 DEF ArrayKept
  <1>3. \A g \in Groups \ (stale \cup touched) : Room /\ s.child /\ s.req.g = g => s.accepted
    BY <1>1, ChildAccepted
  <1>4. QED
    BY <1>1, <1>2, <1>3, PassKeeps DEF RInv, StartInv

\* t has written its request: a group that it makes stale no more it has touched.
LEMMA ToKernelGrows ==
  ASSUME IInv, RInv, NEW t \in Tools, tool[t].pc \in {"reopen", "editfill"}, ToKernel(t)
  PROVE  LET s == Telling(tool[t]) IN
         /\ tool' = [tool EXCEPT ![t] = s]
         /\ s.pc = "kernel" /\ s.child = tool[t].child /\ s.req = tool[t].req
         /\ Starting => /\ stale \cup touched \subseteq stale' \cup touched'
                        /\ touched \subseteq touched' /\ touched' \subseteq Groups
                        /\ tool[t].child \/ About(t) \subseteq touched'
  <1>1. TypeInv /\ tool \in [Tools -> ToolStates] /\ touched \subseteq Groups
        /\ About(t) \subseteq Groups
    BY AboutGroups DEF IInv, TypeInv
  <1>2. tool' = [tool EXCEPT ![t] = Telling(tool[t])]
    BY <1>1, ToKernelTool
  <1>3. /\ Telling(tool[t]).pc = "kernel" /\ Telling(tool[t]).child = tool[t].child
        /\ Telling(tool[t]).req = tool[t].req
    BY <1>1 DEF Telling, ToolStates
  <1>4. ASSUME Starting
        PROVE  /\ touched' = IF tool[t].child THEN touched ELSE touched \cup About(t)
               /\ stale \subseteq stale' \cup About(t)
               /\ tool[t].child => stale' = stale
    BY <1>4, ChildRequest DEF ToKernel, Touches, StaleAfterWrite
  <1>5. QED
    BY <1>1, <1>2, <1>3, <1>4

LEMMA RInvEditFindsNoArray ==
  ASSUME IInv, RInv, NEW t \in Tools, EditFindsNoArray(t)
  PROVE  RInv'
  <1>1. /\ tool[t].pc = "reopen" /\ Locks(t) /\ running.file # "array"
        /\ UNCHANGED <<groups, members, script, written, saved, todo>>
    BY DEF EditFindsNoArray, kernelVars, fileVars, scriptVars, recoveryVars
  <1>2. \A g : Entry(Table, g)' = Entry(Table, g)
    BY <1>1 DEF Entry, Table
  <1>3. Starting /\ ~Covered => written.groups \subseteq saved.groups \cup touched
    BY DEF RInv, StartInv
  <1>4. CASE tool[t].req.cmd = "clear"
    <2> DEFINE s == Telling(tool[t])
    <2>1. ToKernel(t)
      BY <1>4 DEF EditFindsNoArray
    <2>2. /\ tool' = [tool EXCEPT ![t] = s]
          /\ s.pc = "kernel" /\ s.child = tool[t].child /\ s.req = tool[t].req
          /\ Starting => /\ stale \cup touched \subseteq stale' \cup touched'
                         /\ touched \subseteq touched' /\ touched' \subseteq Groups
                         /\ tool[t].child \/ About(t) \subseteq touched'
      BY <1>1, <2>1, ToKernelGrows
    <2> HIDE DEF s
    <2>3. ~tool[t].child /\ About(t) = Groups /\ Concerns(s.req) = Groups
      BY <1>4, <2>2, ChildRequest DEF About, Concerns
    <2>4. Starting => Covered'
      BY <2>2, <2>3 DEF Covered
    <2>5. s.pc \notin Copying
      BY <2>2 DEF Copying
    <2>6. QED
      BY <1>1, <1>2, <2>2, <2>3, <2>4, <2>5, ToolStepKeeps
  <1>5. CASE tool[t].req.cmd # "clear"
    <2>1. tool' = [tool EXCEPT ![t] = Idle] /\ UNCHANGED <<stale, touched>>
      BY <1>5 DEF EditFindsNoArray, EndsUnchanged
    <2>2. Covered' <=> Covered
      BY <2>1 DEF Covered
    <2>3. Idle.pc = "idle" /\ ~Idle.child /\ Idle.pc \notin Copying
      BY DEF Idle, Copying
    <2>4. ASSUME tool[t].child, ~Covered PROVE FALSE
      <3>1. Starting /\ running = written
        BY <1>1, <2>4, ChildRequest, StartSpares, LockedReadsWritten
      <3>2. QED
        BY <1>1, <2>4, <3>1 DEF RInv, StartInv
    <2>5. tool[t].child => Groups \ (stale \cup touched) = {}
      BY <2>4 DEF Covered
    <2>6. touched \subseteq Groups
      BY DEF IInv, TypeInv
    <2>7. QED
      BY <1>1, <1>2, <1>3, <2>1, <2>2, <2>3, <2>5, <2>6, ToolStepKeeps
  <1>6. QED
    BY <1>4, <1>5

LEMMA RInvEditFills ==
  ASSUME IInv, RInv, NEW t \in Tools, EditFills(t)
  PROVE  RInv'
  <1>1. /\ tool[t].pc = "editfill" /\ Fills(t) /\ t \in Writers /\ tool[t].pc \in Writing
        /\ UNCHANGED <<groups, members, script, saved, todo>>
    BY DEF EditFills, kernelVars, scriptVars, recoveryVars, Writers, Copying, Writing
  <1>2. \A g : Entry(Table, g)' = Entry(Table, g)
    BY <1>1 DEF Entry, Table
  <1>3. touched \subseteq Groups /\ ArrayKept(tool[t])
    BY <1>1 DEF IInv, TypeInv, RInv, CopyInv
  <1>4. ASSUME Starting, ~Covered
        PROVE  /\ written' = tool[t].copy
               /\ written.groups \subseteq saved.groups \cup touched
               /\ tool[t].copy.groups \subseteq
                    written.groups \cup (IF tool[t].accepted THEN About(t) ELSE {})
    <2>1. /\ written' = tool[t].copy /\ CopyOf(tool[t], written)
          /\ tool[t].copy.groups \subseteq Groups
      BY <1>1, <1>4, FillsSpared
    <2>2. About(t) = Concerns(tool[t].req)
      BY AboutGroups DEF IInv
    <2>3. \A g \in Groups : ~(tool[t].accepted /\ g \in About(t)) =>
            Entry(tool[t].copy, g) = Entry(written, g)
      BY <2>1, <2>2 DEF CopyOf
    <2>4. \A g \in Groups : ~(tool[t].accepted /\ g \in About(t)) =>
            (g \in tool[t].copy.groups => g \in written.groups)
      BY <2>3 DEF Entry
    <2>5. QED
      BY <1>4, <2>1, <2>4 DEF RInv, StartInv
  <1>5. CASE tool[t].accepted
    <2> DEFINE s == Telling(tool[t])
    <2>1. ToKernel(t)
      BY <1>5 DEF EditFills
    <2>2. /\ tool' = [tool EXCEPT ![t] = s]
          /\ s.pc = "kernel" /\ s.child = tool[t].child /\ s.req = tool[t].req
          /\ Starting => /\ stale \cup touched \subseteq stale' \cup touched'
                         /\ touched \subseteq touched' /\ touched' \subseteq Groups
                         /\ tool[t].child \/ About(t) \subseteq touched'
      BY <1>1, <2>1, ToKernelGrows
    <2> HIDE DEF s
    <2>3. Concerns(s.req) = About(t) /\ s.pc \notin Copying
      BY <2>2 DEF About, Concerns, Copying
    <2>4. Starting /\ ~Covered' => ~Covered
      BY <2>2 DEF Covered
    <2>5. Starting => About(t) \subseteq saved.groups \cup touched'
      BY <2>2, ChildRequest DEF RInv, ChildInv
    <2>6. ASSUME Starting, ~Covered' PROVE tool[t].copy.file = "array"
      <3>1. CASE tool[t].req.cmd = "clear"
        <4>1. ~tool[t].child /\ About(t) = Groups
          BY <3>1, ChildRequest DEF About
        <4>2. QED
          BY <2>2, <2>6, <4>1 DEF Covered
      <3>2. CASE tool[t].req.cmd # "clear"
        BY <1>3, <3>2 DEF ArrayKept
      <3>3. QED
        BY <3>1, <3>2
    <2>7. Starting /\ ~Covered' =>
            /\ written' = tool[t].copy /\ written'.groups \subseteq saved.groups \cup touched'
      BY <1>4, <2>2, <2>4, <2>5
    <2>8. QED
      BY <1>1, <1>2, <2>2, <2>3, <2>6, <2>7, ToolStepKeeps
  <1>6. CASE ~tool[t].accepted
    <2>1. tool' = [tool EXCEPT ![t] = Idle] /\ UNCHANGED <<stale, touched>>
      BY <1>6 DEF EditFills, EndsUnchanged
    <2>2. Covered' <=> Covered
      BY <2>1 DEF Covered
    <2>3. Idle.pc = "idle" /\ ~Idle.child /\ Idle.pc \notin Copying
      BY DEF Idle, Copying
    <2>4. tool[t].copy.file = "array"
      BY <1>3, <1>6 DEF ArrayKept
    <2>5. \A g \in Groups \ (stale \cup touched) : script = "recover" /\ Room =>
            ~(tool[t].child /\ tool[t].req.g = g)
      BY <1>1, <1>6 DEF RInv, RecoverInv
    <2>6. Starting /\ ~Covered =>
            /\ written' = tool[t].copy /\ written'.groups \subseteq saved.groups \cup touched
      BY <1>4, <1>6
    <2>7. QED
      BY <1>1, <1>2, <1>3, <2>1, <2>2, <2>3, <2>4, <2>5, <2>6, ToolStepKeeps
  <1>7. QED
    BY <1>5, <1>6

\* The kernel answers a tool: only the recovery's may touch a group unseen, and that is then
\* as it was saved, or stale.
LEMMA RInvTellsKernel ==
  ASSUME IInv, RInv, NEW t \in Tools, TellsKernel(t)
  PROVE  RInv'
  <1>1. PICK cmd : Tells(t, cmd)
    BY DEF TellsKernel, KernelJoins, KernelRefuses, KernelQuits, KernelMissing, KernelDeletes,
           KernelClears
  <1>2. /\ tool[t].pc = "kernel" /\ t \in Pending /\ tool' = [tool EXCEPT ![t] = Idle]
        /\ touched' = IF Starting /\ ~tool[t].child THEN touched \cup About(t) ELSE touched
        /\ UNCHANGED <<written, saved, script, todo>>
    BY <1>1 DEF Tells, Touches, Pending, fileVars, scriptVars, recoveryVars
  <1>3. TypeInv /\ touched \subseteq Groups /\ About(t) \subseteq Groups
    BY AboutGroups DEF IInv, TypeInv
  <1>4. Idle.pc = "idle" /\ ~Idle.child /\ Idle.pc \notin Copying
    BY DEF Idle, Copying
  <1>5. /\ stale \subseteq stale'
        /\ \A g \in Groups \ stale' :
             IF g \in About(t) THEN Entry(Table, g)' = Effect(tool[t].req, g, Entry(Table, g))
             ELSE Entry(Table, g)' = Entry(Table, g)
    <2>1. CASE KernelRefuses(t) \/ KernelMissing(t)
      <3>1. /\ stale' = stale \cup {tool[t].req.g} /\ UNCHANGED <<groups, members>>
            /\ tool[t].req.cmd \in {"join", "quit"}
        BY <2>1 DEF KernelRefuses, KernelMissing, Tells, ExactJoinRefused, AbsJoinRefused, AbsMissing
      <3>2. About(t) = {tool[t].req.g}
        BY <1>3, <3>1, AboutGroups, CommandFields
      <3>3. QED
        BY <3>1, <3>2 DEF Entry, Table
    <2>2. CASE KernelJoins(t) \/ KernelQuits(t) \/ KernelDeletes(t) \/ KernelClears(t)
      BY <1>3, <2>2, KernelEffect DEF Overtakes
    <2>3. QED
      BY <2>1, <2>2 DEF TellsKernel
  <1>6. Starting /\ ~tool[t].child => About(t) \subseteq touched
    BY <1>2 DEF RInv, StartInv
  <1>7. ASSUME script = "recover", Room, NEW g \in Groups \ (stale' \cup touched')
        PROVE  Entry(Table, g)' = IF tool[t].child /\ tool[t].req.g = g
                                  THEN Entry(saved, g) ELSE Entry(Table, g)
    <2>1. Starting /\ g \notin stale \cup touched
      BY <1>2, <1>5, <1>7 DEF Starting
    <2>2. CASE tool[t].child /\ tool[t].req.g = g
      <3>1. Entry(Table, g) = None
        <4>1. Recovering(g)
          BY <2>2 DEF Recovering
        <4>2. QED
          BY <1>7, <2>1, <4>1 DEF RInv, RecoverInv
      <3>2. /\ tool[t].req.cmd = "join" /\ tool[t].req.R = saved.members[g]
            /\ g \in saved.groups /\ About(t) = {g}
        BY <2>2, ChildRequest DEF RInv, ChildInv
      <3>3. Entry(Table, g)' = <<{g}, saved.members[g]>>
        <4>1. Effect(tool[t].req, g, None) = <<{g}, {} \cup saved.members[g]>>
          BY <3>2 DEF Effect, None
        <4>2. Entry(Table, g)' = Effect(tool[t].req, g, None)
          BY <1>5, <1>7, <3>1, <3>2
        <4>3. QED
          BY <4>1, <4>2
      <3>4. Entry(saved, g) = <<{g}, saved.members[g]>>
        BY <3>2 DEF Entry
      <3>5. QED
        BY <2>2, <3>3, <3>4
    <2>3. CASE ~(tool[t].child /\ tool[t].req.g = g)
      <3>1. g \notin About(t)
        BY <1>6, <2>1, <2>3, ChildRequest
      <3>2. QED
        BY <1>5, <1>7, <2>3, <3>1
    <2>4. QED
      BY <2>2, <2>3
  <1>8. ASSUME Starting
        PROVE  /\ stale \cup touched \subseteq stale' \cup touched' /\ touched \subseteq touched'
               /\ touched' \subseteq Groups
               /\ ~Covered' => written'.groups \subseteq saved.groups \cup touched'
    <2>1. stale \cup touched \subseteq stale' \cup touched' /\ touched \subseteq touched'
          /\ touched' \subseteq Groups
      BY <1>2, <1>3, <1>5
    <2>2. ~Covered' => ~Covered
      BY <2>1 DEF Covered
    <2>3. QED
      BY <1>2, <1>8, <2>1, <2>2 DEF RInv, StartInv
  <1>9. QED
    BY <1>2, <1>4, <1>7, <1>8, ToolStepKeeps

\* No module: that is not during a recovery.
LEMMA RInvNoKernel ==
  ASSUME IInv, RInv, NEW t \in Tools, NoKernel(t)
  PROVE  RInv'
  <1>1. /\ tool' = [tool EXCEPT ![t] = Idle] /\ ~loaded /\ stale' = stale \cup About(t)
        /\ UNCHANGED <<written, saved, script, todo, touched>>
    BY DEF NoKernel, fileVars, scriptVars, recoveryVars
  <1>2. script # "recover" /\ touched \subseteq Groups /\ Idle.pc = "idle" /\ ~Idle.child
        /\ Idle.pc \notin Copying
    BY <1>1 DEF IInv, ScriptInv, TypeInv, Idle, Copying
  <1>3. ~Covered' => ~Covered
    BY <1>1 DEF Covered
  <1>4. Starting /\ ~Covered' => written'.groups \subseteq saved.groups \cup touched'
    BY <1>1, <1>3 DEF RInv, StartInv
  <1>5. QED
    BY <1>1, <1>2, <1>4, ToolStepKeeps

LEMMA RInvKilled ==
  ASSUME IInv, RInv, NEW t \in Tools, Killed(t)
  PROVE  RInv'
  <1>1. /\ tool' = [tool EXCEPT ![t] = Idle]
        /\ touched' = IF Starting THEN touched \cup About(t) ELSE touched
        /\ UNCHANGED <<groups, members, saved, script, todo>>
        /\ IF Filling(t) THEN stale' = Groups
           ELSE /\ written' = written
                /\ stale' = IF t \in Pending THEN stale \cup About(t) ELSE stale
    BY KilledStep DEF IInv
  <1>2. touched \subseteq Groups /\ About(t) \subseteq Groups /\ stale \subseteq Groups
    BY AboutGroups DEF IInv, TypeInv
  <1>3. Idle.pc = "idle" /\ ~Idle.child /\ Idle.pc \notin Copying
    BY DEF Idle, Copying
  <1>4. stale \subseteq stale' /\ (written' = written \/ stale' = Groups)
    BY <1>1, <1>2
  <1>5. \A g : Entry(Table, g)' = Entry(Table, g)
    BY <1>1 DEF Entry, Table
  <1>6. ASSUME script = "recover", tool[t].child PROVE tool[t].req.g \in touched'
    BY <1>1, <1>6, ChildRequest
  <1>7. ASSUME Starting
        PROVE  /\ stale \cup touched \subseteq stale' \cup touched' /\ touched \subseteq touched'
               /\ touched' \subseteq Groups
               /\ ~Covered' => /\ written' = written
                               /\ written.groups \subseteq saved.groups \cup touched'
    <2>1. stale \cup touched \subseteq stale' \cup touched' /\ touched \subseteq touched'
          /\ touched' \subseteq Groups
      BY <1>1, <1>2, <1>4
    <2>2. ~Covered' => ~Covered /\ stale' # Groups
      BY <2>1 DEF Covered
    <2>3. QED
      BY <1>4, <1>7, <2>1, <2>2 DEF RInv, StartInv
  <1>8. \A g \in Groups \ (stale' \cup touched') : script = "recover" /\ Room =>
          Entry(Table, g)' = IF tool[t].child /\ tool[t].req.g = g
                             THEN Entry(saved, g) ELSE Entry(Table, g)
    BY <1>5, <1>6
  <1>9. QED
    BY <1>1, <1>3, <1>7, <1>8, ToolStepKeeps

LEMMA RInvPowerLoss ==
  ASSUME PowerLoss
  PROVE  RInv'
  <1>1. script' = "idle" /\ saved'.groups = {} /\ \A t \in Tools : tool'[t] = Idle
    BY DEF PowerLoss, Empty
  <1>2. Idle.pc = "idle" /\ ~Idle.child
    BY DEF Idle
  <1>3. QED
    BY <1>1, <1>2 DEF RInv, ChildInv, CopyInv, Writers, Copying, StartInv, RecoverInv, Starting

\* The script: a start, its end, and a stop.
LEMMA RInvScript ==
  ASSUME IInv, RInv, ScriptSteps
  PROVE  RInv'
  <1>1. \A t \in Tools :
          /\ tool'[t].pc = tool[t].pc /\ tool'[t].req = tool[t].req
          /\ tool'[t].copy = tool[t].copy /\ tool'[t].accepted = tool[t].accepted
          /\ tool'[t].child = tool[t].child
    <2>1. CASE \E to \in {"startup", "gone"} : Unlinks(to)
      BY <2>1, UnlinksStep DEF IInv
    <2>2. CASE tool' = tool
      BY <2>2
    <2>3. QED
      BY <2>1, <2>2, ScriptFiles DEF IInv
  <1>2. CopyInv'
    BY <1>1 DEF RInv, CopyInv, Writers, ArrayKept
  <1>3. Pending' = Pending /\ \A t \in Tools : About(t)' = About(t)
    BY <1>1 DEF Pending, About
  <1>4. script # "recover" => saved.groups = {} /\ \A t \in Tools : ~tool[t].child
    BY DEF RInv, ChildInv
  <1>5. Pending \subseteq Tools
    BY DEF Pending
  <1>6. CASE StartRemoves
    <2>1. /\ script = "idle" /\ script' = "load" /\ touched' = PendingGroups /\ saved' = saved
          /\ written' = Empty("absent")
      BY <1>6 DEF StartRemoves, recoveryVars, Unlinks
    <2>2. \A t \in Pending : About(t) \subseteq PendingGroups
      BY DEF PendingGroups
    <2>3. written'.groups = {}
      BY <2>1 DEF Empty
    <2>4. QED
      BY <1>1, <1>2, <1>3, <1>4, <1>5, <2>1, <2>2, <2>3 DEF RInv, ChildInv, StartInv, RecoverInv
  <1>7. CASE StartLoads
    <2>1. /\ script = "load" /\ ~loaded /\ script' \in {"recover", "idle"}
          /\ script' = "recover" =>
               saved' = startup /\ todo' = startup.groups /\ touched' = touched
          /\ script' = "idle" => saved' = saved
          /\ UNCHANGED <<groups, members, written, stale>>
      BY <1>7 DEF StartLoads, kernelVars, fileVars, recoveryVars
    <2>2. ChildInv'
      BY <1>1, <1>4, <2>1 DEF RInv, ChildInv
    <2>3. StartInv'
      <3> SUFFICES ASSUME script' = "recover" PROVE StartInv'
        BY <2>1 DEF StartInv, Starting
      <3>1. Starting /\ (Covered' <=> Covered) /\ saved.groups = {}
        BY <1>4, <2>1 DEF Starting, Covered
      <3>2. \A t \in Pending' : tool'[t].child \/ About(t)' \subseteq touched'
        BY <1>1, <1>3, <1>5, <2>1, <3>1 DEF RInv, StartInv
      <3>3. ~Covered' => written'.groups \subseteq saved'.groups \cup touched'
        BY <2>1, <3>1 DEF RInv, StartInv
      <3>4. QED
        BY <1>1, <1>4, <2>1, <3>2, <3>3 DEF StartInv
    <2>4. RecoverInv'
      <3> SUFFICES ASSUME script' = "recover", NEW g \in Groups
                   PROVE  Entry(Table, g)' = IF Recovering(g)' THEN None ELSE Entry(saved, g)'
        BY <1>1, <1>4, <2>1 DEF RecoverInv
      <3>1. groups = {} /\ members = [h \in Groups |-> {}]
        BY <2>1 DEF IInv, TypeInv
      <3>2. Entry(Table, g)' = None
        BY <2>1, <3>1 DEF Entry, Table, None
      <3>3. CASE g \in startup.groups
        BY <2>1, <3>2, <3>3 DEF Recovering
      <3>4. CASE g \notin startup.groups
        <4>1. startup.members[g] = {}
          BY <3>4 DEF IInv, TypeInv, FileOK, WellFormed
        <4>2. Entry(saved, g)' = None
          BY <2>1, <3>4, <4>1 DEF Entry, None
        <4>3. QED
          BY <3>2, <4>2
      <3>5. QED
        BY <3>3, <3>4
    <2>5. QED
      BY <1>2, <2>2, <2>3, <2>4 DEF RInv
  <1>8. CASE RecoveryEnds
    <2>1. script' = "idle" /\ saved'.groups = {} /\ \A t \in Tools : ~tool[t].child
      BY <1>8 DEF RecoveryEnds, NoChild, Empty
    <2>2. QED
      BY <1>1, <1>2, <2>1 DEF RInv, ChildInv, StartInv, RecoverInv, Starting
  <1>9. CASE StartFails \/ StopUnloads \/ StopFindsBusy \/ StopSaves \/ StopRemoves
    <2>1. script # "recover" /\ script' \in {"idle", "save", "clean"} /\ saved' = saved
      BY <1>9 DEF StartFails, StopUnloads, StopFindsBusy, StopSaves, StopRemoves, recoveryVars
    <2>2. QED
      BY <1>1, <1>2, <1>4, <2>1 DEF RInv, ChildInv, StartInv, RecoverInv, Starting
  <1>10. QED
    BY <1>6, <1>7, <1>8, <1>9 DEF ScriptSteps

LEMMA RInvStep == IInv /\ RInv /\ [AdminNext]_adminVars => RInv'
  <1> SUFFICES ASSUME IInv, RInv, [AdminNext]_adminVars PROVE RInv'
    OBVIOUS
  <1>1. ASSUME NEW t \in Tools, Begins(t) PROVE RInv'
    BY <1>1, RInvBegins DEF Begins
  <1>2. ASSUME NEW t \in Tools, NEW g \in Groups, Recovers(t, g) PROVE RInv'
    BY <1>2, RInvRecovers
  <1>3. ASSUME NEW t \in Tools, InitLocks(t) \/ InitReads(t) \/ InitTruncates(t) \/ InitFills(t)
        PROVE  RInv'
    BY <1>3, RInvLocks, RInvReads, RInvTruncates, RInvInitFills DEF InitTruncates
  <1>4. ASSUME NEW t \in Tools,
               \/ EditOpens(t) \/ EditFindsNoArray(t) \/ EditReads(t)
               \/ EditTruncates(t) \/ EditFills(t)
        PROVE  RInv'
    BY <1>4, RInvEditOpens, RInvEditFindsNoArray, RInvEditReads, RInvTruncates, RInvEditFills
       DEF EditTruncates
  <1>5. ASSUME NEW t \in Tools, TellsKernel(t) \/ NoKernel(t) \/ Killed(t) PROVE RInv'
    BY <1>5, RInvTellsKernel, RInvNoKernel, RInvKilled
  <1>6. CASE PowerLoss
    BY <1>6, RInvPowerLoss
  <1>7. CASE ScriptSteps
    BY <1>7, RInvScript
  <1>8. CASE UNCHANGED adminVars
    BY <1>8, RInvStutter
  <1>9. QED
    BY <1>1, <1>2, <1>3, <1>4, <1>5, <1>6, <1>7, <1>8 DEF AdminNext, TellsKernel, ScriptSteps

-----------------------------------------------------------------------------
(* Theorems                                                                *)

\* The invariant of the recovery, beside that of configuration and kernel.
THEOREM RecoveryInvariant == AdminSpec => [](IInv /\ RInv)
  <1>1. AdminInit => IInv /\ RInv
    BY InvInit, RInvInit
  <1>2. IInv /\ RInv /\ [AdminNext]_adminVars => (IInv /\ RInv)'
    BY InvStep, RInvStep
  <1>3. QED
    BY <1>1, <1>2, PTL DEF AdminSpec

\* When the recovery is through, the module serves what was saved, for every group that no
\* other tool has been used on and no accident has befallen, if the saved groups and those
\* of other tools fit together: property RecoveryComplete.
THEOREM RecoveryServesSaved == AdminSpec => RecoveryComplete
  <1> DEFINE A == RecoveryEnds /\ Cardinality(saved.groups \cup touched) <= GrpMax =>
                    \A g \in Groups \ (stale \cup touched) : SameEntry(startup', Table, g)
  <1>1. RInv => A
    <2> SUFFICES ASSUME RInv, RecoveryEnds, Cardinality(saved.groups \cup touched) <= GrpMax,
                        NEW g \in Groups \ (stale \cup touched)
                 PROVE  SameEntry(startup', Table, g)
      OBVIOUS
    <2>1. script = "recover" /\ ~Recovering(g) /\ Room /\ startup' = saved
      BY DEF RecoveryEnds, NoChild, Recovering, Room
    <2>2. Entry(Table, g) = Entry(saved, g)
      BY <2>1 DEF RInv, RecoverInv
    <2>3. SameEntry(saved, Table, g)
      BY <2>2, EntryIsSame
    <2>4. QED
      BY <2>1, <2>3 DEF SameEntry
  <1>2. IInv /\ RInv /\ [AdminNext]_adminVars => [A]_adminVars
    BY <1>1
  <1>3. QED
    BY <1>2, RecoveryInvariant, PTL DEF AdminSpec, RecoveryComplete
=============================================================================
