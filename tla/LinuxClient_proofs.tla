-------------------------- MODULE LinuxClient_proofs --------------------------
(***************************************************************************)
(* Proofs about the Linux userland client proxy (module LinuxClient), for  *)
(* any number of commands, tools and workers, any keys and groups and any  *)
(* size of the table.                                                      *)
(***************************************************************************)
EXTENDS LinuxClient, FoldLemmas

-----------------------------------------------------------------------------
(* The file                                                                *)

\* The entries that stay, one after the other.
WithoutTable(ch, s, d) ==
  /\ ch \in [0 .. Len(s) -> Seq(ClientEntries)]
  /\ ch[0] = <<>> /\ Without(s, d) = ch[Len(s)]
  /\ \A i \in 1 .. Len(s) : ch[i] = (IF s[i].server = d.server /\ s[i].gport = d.gport
                                     THEN ch[i - 1] ELSE Append(ch[i - 1], s[i]))

LEMMA WithoutChain ==
  ASSUME NEW d \in Deletions, NEW s \in Seq(ClientEntries)
  PROVE  \E ch : WithoutTable(ch, s, d)
  <1> DEFINE n == Len(s)
             A == Seq(ClientEntries)
             f == [i \in 1 .. n |-> [a \in A |-> (IF s[i].server = d.server /\ s[i].gport = d.gport
                                                  THEN a ELSE Append(a, s[i]))]]
             Chosen == CHOOSE it : it = [S \in SUBSET (DOMAIN s) |->
                         IF S = {}
                         THEN <<>>
                         ELSE (IF s[Max(S)].server = d.server /\ s[Max(S)].gport = d.gport
                               THEN it[S \ {Max(S)}] ELSE Append(it[S \ {Max(S)}], s[Max(S)]))]
  <1>1. n \in Nat /\ DOMAIN s = 1 .. n /\ \A i \in 1 .. n : s[i] \in ClientEntries
    OBVIOUS
  <1>2. \A a \in A, x \in ClientEntries : (IF x.server = d.server /\ x.gport = d.gport
                                           THEN a ELSE Append(a, x)) \in A
    OBVIOUS
  <1>3. <<>> \in A
    OBVIOUS
  <1>4. f \in [1 .. n -> [A -> A]]
    BY <1>1, <1>2
  <1> HIDE DEF A, n
  <1>5. PICK it \in [SUBSET (1 .. n) -> A] :
          \A S \in SUBSET (1 .. n) : it[S] = IF S = {} THEN <<>> ELSE f[Max(S)][it[S \ {Max(S)}]]
    <2> DEFINE b == <<>>
    <2>1. b \in A /\ n \in Nat /\ f \in [1 .. n -> [A -> A]]
      BY <1>1, <1>3, <1>4
    <2> HIDE DEF f, b
    <2>2. \E it : Iteration(n, A, b, f, it)
      BY <2>1, Iterates
    <2>3. QED
      BY <2>2 DEF b, Iteration
  <1>6. it = [S \in SUBSET (1 .. n) |->
                IF S = {}
                THEN <<>>
                ELSE (IF s[Max(S)].server = d.server /\ s[Max(S)].gport = d.gport
                      THEN it[S \ {Max(S)}] ELSE Append(it[S \ {Max(S)}], s[Max(S)]))]
    <2> SUFFICES ASSUME NEW S \in SUBSET (1 .. n), S # {}
                 PROVE  it[S] = (IF s[Max(S)].server = d.server /\ s[Max(S)].gport = d.gport
                                 THEN it[S \ {Max(S)}] ELSE Append(it[S \ {Max(S)}], s[Max(S)]))
      BY <1>5
    <2>1. Max(S) \in 1 .. n
      BY <1>1, MaxOf
    <2>2. it[S \ {Max(S)}] \in A
      OBVIOUS
    <2>3. it[S] = f[Max(S)][it[S \ {Max(S)}]]
      BY <1>5
    <2>4. QED
      BY <2>1, <2>2, <2>3
  <1>7. Chosen = [S \in SUBSET (1 .. n) |->
                    IF S = {}
                    THEN <<>>
                    ELSE (IF s[Max(S)].server = d.server /\ s[Max(S)].gport = d.gport
                          THEN Chosen[S \ {Max(S)}] ELSE Append(Chosen[S \ {Max(S)}], s[Max(S)]))]
    <2>1. \E jt : jt = [S \in SUBSET (DOMAIN s) |->
                          IF S = {}
                          THEN <<>>
                          ELSE (IF s[Max(S)].server = d.server /\ s[Max(S)].gport = d.gport
                                THEN jt[S \ {Max(S)}] ELSE Append(jt[S \ {Max(S)}], s[Max(S)]))]
      BY <1>1, <1>6
    <2>2. QED
      BY <1>1, <2>1
  <1>8. Without(s, d) = Chosen[1 .. n]
    BY <1>1 DEF Without, FoldLeft, MapThenFoldSet
  <1> HIDE DEF Chosen, f
  <1> DEFINE ch == [i \in 0 .. n |-> Chosen[1 .. i]]
  <1>9. ch[0] = <<>> /\ ch[n] = Without(s, d)
    <2>1. 1 .. 0 = {} /\ 1 .. 0 \in SUBSET (1 .. n)
      OBVIOUS
    <2>2. Chosen[1 .. 0] = <<>>
      BY <1>7, <2>1
    <2>3. QED
      BY <1>1, <1>8, <2>2
  <1>10. ASSUME NEW i \in 1 .. n PROVE ch[i] = (IF s[i].server = d.server /\ s[i].gport = d.gport
                                                THEN ch[i - 1] ELSE Append(ch[i - 1], s[i]))
    <2>1. /\ 1 .. i \in SUBSET (1 .. n) /\ 1 .. i # {}
          /\ (1 .. i) \ {i} = 1 .. (i - 1)
      BY <1>1
    <2>2. Max(1 .. i) = i
      BY <1>1, MaxOfInterval
    <2>3. Chosen[1 .. i] = (IF s[i].server = d.server /\ s[i].gport = d.gport
                            THEN Chosen[1 .. (i - 1)] ELSE Append(Chosen[1 .. (i - 1)], s[i]))
      BY <1>7, <2>1, <2>2
    <2>4. i \in 0 .. n /\ i - 1 \in 0 .. n
      BY <1>1
    <2>5. QED
      BY <2>3, <2>4
  <1>11. ch \in [0 .. n -> A]
    <2> DEFINE P == {i \in 0 .. n : ch[i] \in A}
    <2>1. 0 \in P
      BY <1>1, <1>3, <1>9
    <2>2. ASSUME NEW i \in 1 .. n, i - 1 \in P PROVE i \in P
      <3>1. ch[i - 1] \in A /\ s[i] \in ClientEntries /\ i \in 0 .. n
        BY <1>1, <2>2
      <3>2. (IF s[i].server = d.server /\ s[i].gport = d.gport
             THEN ch[i - 1] ELSE Append(ch[i - 1], s[i])) \in A
        <4> HIDE DEF ch
        <4>1. QED
          BY <1>2, <3>1
      <3>3. QED
        BY <1>10, <3>1, <3>2
    <2> HIDE DEF P
    <2>3. \A i \in 0 .. n : i \in P
      <3>1. \A i \in 1 .. n : i - 1 \in P => i \in P
        BY <2>2
      <3>2. QED
        BY <1>1, <2>1, <3>1, Induction
    <2>4. \A i \in 0 .. n : ch[i] \in A
      BY <2>3 DEF P
    <2>5. QED
      BY <2>4
  <1> HIDE DEF ch
  <1>12. WithoutTable(ch, s, d)
    BY <1>1, <1>9, <1>10, <1>11 DEF n, A, WithoutTable
  <1>13. QED
    BY <1>12

LEMMA WithoutType ==
  ASSUME NEW f \in Seq(ClientEntries), NEW d \in Deletions
  PROVE  Without(f, d) \in Seq(ClientEntries)
  <1>1. PICK ch : WithoutTable(ch, f, d)
    BY WithoutChain
  <1>2. QED
    BY <1>1 DEF WithoutTable

-----------------------------------------------------------------------------
(* The inductive invariant                                                 *)

Content == IF client_cfg = Cut THEN <<>> ELSE client_cfg

Buckets == 0 .. NodeBuckets - 1
Rows == 1 .. NodeDepth
NodeTypes == [created : BOOLEAN, key : [server : Servers \cup {NoAddress}, sport : Nat],
              ip : MultiIps \cup {NoAddress}, gport : Nat]
LoaderPcs ==
  {"off", "rows", "file", "node", "port", "spin", "listen", "accept", "ended"}
ReceiverTypes ==
  [pc : {"idle", "created", "server", "sport", "ip", "port", "send"},
   key : [server : Servers \cup {NoAddress}, sport : Nat],
   row : Nat, ip : MultiIps \cup {NoAddress}, gport : Nat, mixed : BOOLEAN, want : SUBSET ClientEntries]
ToolPcs == {"idle", "open", "write", "ask"}

Types ==
  /\ client_cfg = Cut \/ client_cfg \in Seq(ClientEntries)
  /\ tool \in [ClientTools -> [pc : ToolPcs, content : Seq(ClientEntries)]]
  /\ node \in [Buckets -> [Rows -> NodeTypes]]
  /\ loader \in [pc : LoaderPcs, cfg : Seq(ClientEntries), bucket : Buckets, e : Nat, row : Rows]
  /\ listening \in BOOLEAN /\ queued \in Nat /\ receiving \in BOOLEAN /\ missed \in BOOLEAN
  /\ receiver \in [Receivers -> ReceiverTypes]
  /\ \A w \in Receivers : receiver[w].pc # "idle" => receiver[w].key \in Keys

Parsed == loader.pc \in {"node", "port", "spin", "listen", "accept", "ended"}
Loading == loader.pc \in {"node", "port", "spin"}
Loaded == IF Loading THEN loader.e - 1 ELSE Len(loader.cfg)

\* What was read last is what the file says.
Fresh ==
  /\ Parsed /\ ~missed /\ queued = 0 /\ \A t \in ClientTools : ~ToolAt(t, "write") /\ ~ToolAt(t, "ask")
  => loader.cfg = Content

\* A program that does not run.
Stopped ==
  ~Running => /\ loader.cfg = <<>> /\ ~listening /\ ~receiving
              /\ \A w \in Receivers : ReceiverAt(w, "idle")

Intact(b) == Parsed \/ (LoaderAt("rows") /\ b >= loader.bucket)
Created(b, r) == node[b][r].created
Has(k, r) == NodesOf(k)[r].created /\ NodesOf(k)[r].key = k

NoGaps == \A b \in Buckets, r, s \in Rows : r < s /\ Created(b, s) => Created(b, r)
NodesOwned ==
  \A b \in Buckets, r \in Rows : Created(b, r) =>
    Intact(b) /\ node[b][r].key \in Keys /\ ip_port_hash_key[node[b][r].key] = b
NodesDistinct ==
  \A b \in Buckets, r, s \in Rows :
    Created(b, r) /\ Created(b, s) /\ node[b][r].key = node[b][s].key => r = s

Known(k) == \E i \in EntriesOf(loader.cfg, k) : i <= Loaded
NodesComplete ==
  \A k \in Keys : Intact(ip_port_hash_key[k]) => (Known(k) <=> \E r \in Rows : Has(k, r))

\* The first n entries bind k.
BindsFirst(f, n, k, ip, gport) ==
  \E i \in EntriesOf(f, k) :
    /\ i <= n
    /\ f[i].gport = gport
    /\ \A j \in EntriesOf(f, k) :
         j <= n => IF j >= i THEN f[j].ip = ip
                   ELSE \E m \in EntriesOf(f, k) : j <= m /\ m < i /\ f[m].ip # ip

Updating(b, r) == LoaderAt("port") /\ b = ip_port_hash_key[ThisKey] /\ r = loader.row
NodesRight ==
  \A b \in Buckets, r \in Rows : Created(b, r) /\ ~Updating(b, r) =>
    BindsFirst(loader.cfg, Loaded, node[b][r].key, node[b][r].ip, node[b][r].gport)

Position ==
  /\ Loading => loader.e \in 1 .. Len(loader.cfg)
  /\ LoaderAt("port") =>
       /\ Has(ThisKey, loader.row)
       /\ NodesOf(ThisKey)[loader.row].ip = ThisEntry.ip
       /\ \E ip \in MultiIps, gport \in Nat :
            ip # ThisEntry.ip /\ BindsFirst(loader.cfg, Loaded, ThisKey, ip, gport)

TableInv == Running => NoGaps /\ NodesOwned /\ NodesDistinct /\ NodesComplete /\ NodesRight /\ Position

\* What a worker with the locals x has loaded of its row is what the row still has.
AtRow == {"server", "sport", "ip", "port"}
Shows(x) ==
  LET n == NodesOf(x.key)[x.row] IN
  /\ n.created
  /\ ~(LoaderAt("port") /\ ThisKey = x.key)
  /\ x.pc \in {"sport", "ip", "port"} => n.key.server = x.key.server
  /\ x.pc \in {"ip", "port"} => n.key = x.key /\ x.want = Wanted(x.key)
  /\ x.pc = "port" => x.ip = n.ip
Sees(w) == Running /\ Shows(receiver[w])

LookupInv ==
  \A w \in Receivers :
    /\ receiver[w].pc = "created" => receiver[w].row \in Rows
    /\ receiver[w].pc \in AtRow => receiver[w].row \in Rows /\ (receiver[w].mixed \/ Sees(w))
    /\ ReceiverAt(w, "send") /\ ~receiver[w].mixed =>
         \E e \in receiver[w].want : e.ip = receiver[w].ip /\ e.gport = receiver[w].gport

IInv == Types /\ Fresh /\ Stopped /\ TableInv /\ LookupInv

-----------------------------------------------------------------------------
(* What the configuration binds, entry by entry                            *)

LEMMA EntryOf ==
  ASSUME NEW f \in Seq(ClientEntries), NEW i \in 1 .. Len(f)
  PROVE  /\ f[i] \in ClientEntries /\ KeyOf(f[i]) \in Keys
         /\ KeyOf(f[i]).server = f[i].server /\ KeyOf(f[i]).sport = f[i].sport
         /\ f[i].ip \in MultiIps /\ f[i].gport \in Nat /\ f[i].sport \in Nat
         /\ Len(f) \in Nat /\ DOMAIN f = 1 .. Len(f)
  <1>1. Len(f) \in Nat /\ DOMAIN f = 1 .. Len(f) /\ f[i] \in ClientEntries
    OBVIOUS
  <1>2. /\ f[i].server \in Servers /\ f[i].sport \in ServerPorts
        /\ f[i].ip \in MultiIps /\ f[i].gport \in GroupPorts
    BY <1>1 DEF ClientEntries
  <1>3. QED
    BY <1>1, <1>2, ClientAssumption DEF ClientAssumption, Keys, KeyOf

\* An entry of another key changes nothing for k.
LEMMA BindsOther ==
  ASSUME NEW f \in Seq(ClientEntries), NEW n \in 1 .. Len(f), NEW k, NEW ip, NEW gport,
         KeyOf(f[n]) # k, BindsFirst(f, n - 1, k, ip, gport)
  PROVE  BindsFirst(f, n, k, ip, gport)
  <1>1. DOMAIN f = 1 .. Len(f) /\ Len(f) \in Nat /\ n \notin EntriesOf(f, k)
    BY DEF EntriesOf
  <1>2. \A j \in EntriesOf(f, k) : j \in Nat /\ (j <= n <=> j <= n - 1)
    BY <1>1 DEF EntriesOf
  <1>3. QED
    BY <1>2 DEF BindsFirst

\* Nor does one of k with the address it has.
LEMMA BindsSame ==
  ASSUME NEW f \in Seq(ClientEntries), NEW n \in 1 .. Len(f), NEW k, NEW ip, NEW gport,
         f[n].ip = ip, BindsFirst(f, n - 1, k, ip, gport)
  PROVE  BindsFirst(f, n, k, ip, gport)
  <1>1. DOMAIN f = 1 .. Len(f) /\ Len(f) \in Nat
    OBVIOUS
  <1>2. \A j \in EntriesOf(f, k) : j \in Nat /\ (j <= n <=> j <= n - 1 \/ j = n)
    BY <1>1 DEF EntriesOf
  <1>3. QED
    BY <1>2 DEF BindsFirst

\* One with another address takes its place...
LEMMA BindsNext ==
  ASSUME NEW f \in Seq(ClientEntries), NEW n \in 1 .. Len(f), NEW k, NEW ip, NEW gport,
         KeyOf(f[n]) = k, f[n].ip # ip, BindsFirst(f, n - 1, k, ip, gport)
  PROVE  BindsFirst(f, n, k, f[n].ip, f[n].gport)
  <1>1. DOMAIN f = 1 .. Len(f) /\ Len(f) \in Nat /\ n \in EntriesOf(f, k)
    BY DEF EntriesOf
  <1>2. \A j \in EntriesOf(f, k) : j \in Nat /\ (j <= n <=> j <= n - 1 \/ j = n)
    BY <1>1 DEF EntriesOf
  <1>3. PICK i \in EntriesOf(f, k) :
          /\ i <= n - 1
          /\ \A j \in EntriesOf(f, k) : j <= n - 1 /\ j >= i => f[j].ip = ip
    BY DEF BindsFirst
  <1>4. ASSUME NEW j \in EntriesOf(f, k), j < n
        PROVE  \E m \in EntriesOf(f, k) : j <= m /\ m < n /\ f[m].ip # f[n].ip
    <2>1. CASE j >= i
      <3>1. f[j].ip = ip
        BY <1>2, <1>3, <1>4, <2>1
      <3>2. QED
        BY <1>2, <1>4, <3>1
    <2>2. CASE j < i
      <3>1. f[i].ip = ip /\ i < n /\ j <= i
        BY <1>2, <1>3, <2>2
      <3>2. QED
        BY <3>1
    <2>3. QED
      BY <1>2, <2>1, <2>2
  <1>5. QED
    BY <1>1, <1>2, <1>4 DEF BindsFirst

\* ... and the first of k is the one that counts.
LEMMA BindsNew ==
  ASSUME NEW f \in Seq(ClientEntries), NEW n \in 1 .. Len(f), NEW k,
         KeyOf(f[n]) = k, \A i \in EntriesOf(f, k) : ~(i <= n - 1)
  PROVE  BindsFirst(f, n, k, f[n].ip, f[n].gport)
  <1>1. DOMAIN f = 1 .. Len(f) /\ Len(f) \in Nat /\ n \in EntriesOf(f, k)
    BY DEF EntriesOf
  <1>2. \A j \in EntriesOf(f, k) : j \in Nat /\ j >= n
    BY <1>1 DEF EntriesOf
  <1>3. QED
    BY <1>1, <1>2 DEF BindsFirst

LEMMA BindsAll ==
  ASSUME NEW f \in Seq(ClientEntries), NEW k, NEW ip, NEW gport,
         BindsFirst(f, Len(f), k, ip, gport)
  PROVE  Binds(f, k, ip, gport)
  BY DEF BindsFirst, Binds, EntriesOf

LEMMA BindsSome ==
  ASSUME NEW f \in Seq(ClientEntries), NEW n, NEW k, NEW ip, NEW gport,
         BindsFirst(f, n, k, ip, gport)
  PROVE  \E i \in EntriesOf(f, k) : f[i].ip = ip /\ f[i].gport = gport
  <1>1. PICK i \in EntriesOf(f, k) :
          /\ i <= n /\ f[i].gport = gport
          /\ \A j \in EntriesOf(f, k) : j <= n /\ j >= i => f[j].ip = ip
    BY DEF BindsFirst
  <1>2. i >= i
    BY DEF EntriesOf
  <1>3. QED
    BY <1>1, <1>2

-----------------------------------------------------------------------------
(* Types                                                                   *)

LEMMA Sizes == NodeBuckets \in Nat /\ NodeBuckets > 0 /\ NodeDepth \in Nat /\ NodeDepth > 0
  BY ClientAssumption DEF ClientAssumption

LEMMA ThisTypes ==
  ASSUME Types, Loading, loader.e \in 1 .. Len(loader.cfg)
  PROVE  /\ ThisEntry \in ClientEntries /\ ThisKey \in Keys
         /\ ThisEntry.ip \in MultiIps /\ ThisEntry.gport \in Nat
         /\ ip_port_hash_key[ThisKey] \in Buckets
         /\ ThisEntry = loader.cfg[loader.e] /\ KeyOf(loader.cfg[loader.e]) = ThisKey
  BY EntryOf, ClientAssumption DEF ClientAssumption, Types, ThisEntry, ThisKey, Buckets

LEMMA ZeroTypes ==
  /\ ZeroNode \in NodeTypes /\ ~ZeroNode.created
  /\ ZeroNodes \in [Rows -> NodeTypes] /\ \A r \in Rows : ZeroNodes[r] = ZeroNode
  /\ Still \in ReceiverTypes /\ Still.pc = "idle"
  <1>1. ZeroNode \in NodeTypes /\ ~ZeroNode.created
    BY DEF ZeroNode, NodeTypes
  <1>2. Still \in ReceiverTypes /\ Still.pc = "idle"
    BY DEF Still, ReceiverTypes
  <1>3. QED
    BY <1>1, <1>2 DEF ZeroNodes, Rows

\* A key's row, if it has one.
LEMMA RowAtFinds ==
  ASSUME Types, NoGaps, NEW k \in Keys
  PROVE  /\ RowAt(k) # 0 => RowAt(k) \in Rows /\ Has(k, RowAt(k))
         /\ RowAt(k) = 0 => \A r \in Rows : ~Has(k, r)
  <1> DEFINE at == {r \in RowsOf(k) : \A s \in 1 .. r : NodesOf(k)[s].created}
  <1>1. ip_port_hash_key[k] \in Buckets
    BY ClientAssumption DEF ClientAssumption, Buckets
  <1>2. \A r \in at : r \in Rows /\ Has(k, r) /\ r # 0
    BY Sizes DEF RowsOf, Has, Rows
  <1>3. ASSUME NEW r \in Rows, Has(k, r) PROVE r \in at
    <2>1. \A s \in 1 .. r : s \in Rows /\ (s < r \/ s = r)
      BY Sizes DEF Rows
    <2>2. \A s \in 1 .. r : NodesOf(k)[s].created
      BY <1>1, <1>3, <2>1 DEF NoGaps, Has, Created, NodesOf
    <2>3. QED
      BY <1>3, <2>2 DEF RowsOf, Has, Rows
  <1>4. RowAt(k) = IF at = {} THEN 0 ELSE Min(at)
    BY DEF RowAt
  <1>5. at # {} => Min(at) \in at
    <2>1. at \in SUBSET Nat
      BY <1>2 DEF Rows
    <2> HIDE DEF at
    <2>2. QED
      BY <2>1, MinOf
  <1> HIDE DEF at
  <1>6. QED
    BY <1>2, <1>3, <1>4, <1>5

LEMMA ToolCases ==
  ASSUME Types, NEW t \in ClientTools, ClientToolSteps(t)
  PROVE  \/ \E content \in Seq(ClientEntries) : Rewrites(t, content)
         \/ LeavesFile(t) \/ Opens(t) \/ Writes(t) \/ Asks(t) \/ ClientToolDies(t)
  <1>1. ASSUME NEW e \in Additions, Adds(t, e)
        PROVE  (\E content \in Seq(ClientEntries) : Rewrites(t, content)) \/ LeavesFile(t)
    <2>1. e \in ClientEntries
      BY ClientAssumption DEF ClientAssumption
    <2>2. Append(IF client_cfg = Cut THEN <<>> ELSE client_cfg, e) \in Seq(ClientEntries)
      BY <2>1 DEF Types
    <2>3. QED
      BY <1>1, <2>2 DEF Adds
  <1>2. ASSUME NEW d \in Deletions, Deletes(t, d)
        PROVE  (\E content \in Seq(ClientEntries) : Rewrites(t, content)) \/ LeavesFile(t)
    BY <1>2, WithoutType DEF Deletes, Types
  <1>3. ASSUME Clears(t)
        PROVE  (\E content \in Seq(ClientEntries) : Rewrites(t, content)) \/ LeavesFile(t)
    <2>1. <<>> \in Seq(ClientEntries)
      OBVIOUS
    <2>2. QED
      BY <1>3, <2>1 DEF Clears
  <1>4. QED
    BY <1>1, <1>2, <1>3 DEF ClientToolSteps

LEMMA TypesTool ==
  ASSUME Types, NEW t \in ClientTools, ClientToolSteps(t)
  PROVE  Types'
  <1>1. ASSUME NEW content \in Seq(ClientEntries), Rewrites(t, content) PROVE Types'
    <2>1. [pc |-> "open", content |-> content] \in [pc : ToolPcs, content : Seq(ClientEntries)]
      BY DEF ToolPcs
    <2>2. QED
      BY <1>1, <2>1 DEF Types, Rewrites, proxyVars
  <1>2. ASSUME NEW pc \in ToolPcs, ToolGoes(t, pc)
        PROVE  tool' \in [ClientTools -> [pc : ToolPcs, content : Seq(ClientEntries)]]
    BY <1>2 DEF Types, ToolGoes
  <1>3. ASSUME LeavesFile(t) \/ Asks(t) \/ ClientToolDies(t) PROVE Types'
    <2>1. tool' \in [ClientTools -> [pc : ToolPcs, content : Seq(ClientEntries)]]
      BY <1>2, <1>3 DEF LeavesFile, Asks, ClientToolDies, ToolPcs
    <2>2. UNCHANGED <<client_cfg, node, loader, listening, receiving, receiver>>
      BY <1>3 DEF LeavesFile, Asks, ClientToolDies, proxyVars
    <2>3. queued' \in Nat
      BY <1>3 DEF Types, LeavesFile, Asks, ClientToolDies, proxyVars
    <2>4. missed' \in BOOLEAN
      BY <1>3 DEF Types, LeavesFile, Asks, ClientToolDies, proxyVars
    <2>5. QED
      BY <2>1, <2>2, <2>3, <2>4 DEF Types
  <1>4. ASSUME Opens(t) PROVE Types'
    <2>1. tool' \in [ClientTools -> [pc : ToolPcs, content : Seq(ClientEntries)]]
      BY <1>2, <1>4 DEF Opens, ToolPcs
    <2>2. QED
      BY <1>4, <2>1 DEF Types, Opens, proxyVars
  <1>5. ASSUME Writes(t) PROVE Types'
    <2>1. tool' \in [ClientTools -> [pc : ToolPcs, content : Seq(ClientEntries)]]
      BY <1>2, <1>5 DEF Writes, ToolPcs
    <2>2. client_cfg' \in Seq(ClientEntries)
      BY <1>5 DEF Types, Writes
    <2>3. QED
      BY <1>5, <2>1, <2>2 DEF Types, Writes, proxyVars
  <1>6. QED
    BY <1>1, <1>3, <1>4, <1>5, ToolCases

\* A receiver that a step leaves, marks, or moves.
LEMMA MixesReceivers ==
  ASSUME Types, Mixes
  PROVE  /\ receiver' \in [Receivers -> ReceiverTypes]
         /\ \A w \in Receivers :
              /\ receiver'[w].mixed = (receiver[w].pc # "idle")
              /\ receiver'[w].pc = receiver[w].pc /\ receiver'[w].key = receiver[w].key
              /\ receiver'[w].row = receiver[w].row
  <1>1. \A w \in Receivers : receiver[w] \in ReceiverTypes
    BY DEF Types
  <1>2. \A w \in Receivers : [receiver[w] EXCEPT !.mixed = receiver[w].pc # "idle"] \in ReceiverTypes
    BY <1>1 DEF ReceiverTypes
  <1>3. QED
    BY <1>1, <1>2 DEF Mixes, ReceiverTypes

LoaderTypes == [pc : LoaderPcs, cfg : Seq(ClientEntries), bucket : Buckets, e : Nat, row : Rows]

LEMMA OffTypes ==
  ASSUME Types, Off
  PROVE  Types' /\ loader'.pc = "off" /\ \A w \in Receivers : receiver'[w].pc = "idle"
  <1>1. <<>> \in Seq(ClientEntries) /\ "off" \in LoaderPcs /\ 0 \in Buckets /\ 1 \in Rows
    BY Sizes DEF LoaderPcs, Buckets, Rows
  <1>2. [pc |-> "off", cfg |-> <<>>, bucket |-> 0, e |-> 1, row |-> 1] \in LoaderTypes
    BY <1>1 DEF LoaderTypes
  <1>3. loader' \in LoaderTypes /\ loader'.pc = "off"
    BY <1>2 DEF Off
  <1>4. /\ receiver' \in [Receivers -> ReceiverTypes]
        /\ \A w \in Receivers : receiver'[w].pc = "idle"
    BY ZeroTypes DEF Off
  <1>5. QED
    BY <1>3, <1>4 DEF Types, Off, fileVars, LoaderTypes

LEMMA EntryTypes ==
  ASSUME Types, NEW c \in Seq(ClientEntries), NEW e \in Nat, ToEntry(c, e)
  PROVE  /\ loader' \in LoaderTypes
         /\ loader'.cfg = c /\ loader'.e = e
         /\ loader'.bucket = loader.bucket /\ loader'.row = loader.row
         /\ loader'.pc = IF e <= Len(c) THEN "node" ELSE IF listening THEN "accept" ELSE "listen"
  <1>1. loader \in LoaderTypes
    BY DEF Types, LoaderTypes
  <1> DEFINE pc == IF e <= Len(c) THEN "node" ELSE IF listening THEN "accept" ELSE "listen"
  <1>2. pc \in LoaderPcs
    BY DEF LoaderPcs
  <1>3. loader' = [loader EXCEPT !.cfg = c, !.e = e, !.pc = pc]
    BY DEF ToEntry
  <1> HIDE DEF pc
  <1>4. /\ loader' \in LoaderTypes
        /\ loader'.cfg = c /\ loader'.e = e /\ loader'.pc = pc
        /\ loader'.bucket = loader.bucket /\ loader'.row = loader.row
    BY <1>1, <1>2, <1>3 DEF LoaderTypes
  <1>5. QED
    BY <1>4 DEF pc

LEMMA GoesTypes ==
  ASSUME Types, NEW pc \in LoaderPcs, LoaderGoes(pc)
  PROVE  /\ loader' \in LoaderTypes /\ loader'.pc = pc
         /\ loader'.cfg = loader.cfg /\ loader'.e = loader.e
         /\ loader'.bucket = loader.bucket /\ loader'.row = loader.row
  BY DEF Types, LoaderTypes, LoaderGoes

LEMMA AtNode ==
  ASSUME Types, TableInv, Loading
  PROVE  /\ loader.e \in 1 .. Len(loader.cfg) /\ Len(loader.cfg) \in Nat
         /\ loader.cfg \in Seq(ClientEntries) /\ loader.e \in Nat
         /\ ThisEntry \in ClientEntries /\ ThisKey \in Keys
         /\ ThisEntry.ip \in MultiIps /\ ThisEntry.gport \in Nat
         /\ ip_port_hash_key[ThisKey] \in Buckets
         /\ ThisEntry = loader.cfg[loader.e] /\ KeyOf(loader.cfg[loader.e]) = ThisKey
         /\ NoGaps /\ NodesOwned /\ NodesDistinct /\ NodesComplete /\ NodesRight /\ Position
         /\ Loaded = loader.e - 1
  <1>1. Running /\ Position
    BY DEF TableInv, Loading, Running
  <1>2. loader.cfg \in Seq(ClientEntries) /\ loader.e \in 1 .. Len(loader.cfg)
    BY <1>1 DEF Position, Types
  <1>3. QED
    BY <1>1, <1>2, ThisTypes DEF TableInv, Loaded

\* The row that a new node takes.
LEMMA UnusedTypes ==
  ASSUME Types, NEW k, UnusedRows(k) # {}
  PROVE  /\ Min(UnusedRows(k)) \in Rows /\ ~NodesOf(k)[Min(UnusedRows(k))].created
         /\ \A r \in Rows : r < Min(UnusedRows(k)) => NodesOf(k)[r].created
  <1>1. UnusedRows(k) \in SUBSET Nat /\ UnusedRows(k) \subseteq Rows
    BY Sizes DEF UnusedRows, Rows
  <1>2. Min(UnusedRows(k)) \in UnusedRows(k) /\ \A i \in UnusedRows(k) : Min(UnusedRows(k)) <= i
    BY <1>1, MinOf
  <1>3. \A r \in Rows : r < Min(UnusedRows(k)) => r \notin UnusedRows(k)
    BY <1>1, <1>2 DEF Rows
  <1>4. QED
    BY <1>1, <1>2, <1>3 DEF UnusedRows, Rows

LEMMA NodeTypesKept ==
  ASSUME Types, NEW b \in Buckets, NEW r \in Rows, NEW x \in NodeTypes,
         node' = [node EXCEPT ![b][r] = x]
  PROVE  /\ node' \in [Buckets -> [Rows -> NodeTypes]]
         /\ node'[b][r] = x
         /\ \A c \in Buckets, s \in Rows : c # b \/ s # r => node'[c][s] = node[c][s]
  BY DEF Types

LEMMA UpdatesTypes ==
  ASSUME Types, TableInv
  PROVE  /\ UpdatesIp => /\ RowAt(ThisKey) \in Rows /\ Has(ThisKey, RowAt(ThisKey))
                         /\ node' = [node EXCEPT ![ip_port_hash_key[ThisKey]][RowAt(ThisKey)] =
                                       [NodesOf(ThisKey)[RowAt(ThisKey)] EXCEPT !.ip = ThisEntry.ip]]
         /\ UpdatesPort => /\ loader.row \in Rows /\ Has(ThisKey, loader.row)
                           /\ node' = [node EXCEPT ![ip_port_hash_key[ThisKey]][loader.row] =
                                         [NodesOf(ThisKey)[loader.row] EXCEPT !.gport = ThisEntry.gport]]
  <1>1. ASSUME UpdatesIp PROVE RowAt(ThisKey) \in Rows /\ Has(ThisKey, RowAt(ThisKey))
    <2>1. Loading
      BY <1>1 DEF UpdatesIp, AtEntry, LoaderAt, Loading
    <2>2. QED
      BY <1>1, <2>1, AtNode, RowAtFinds DEF UpdatesIp
  <1>2. ASSUME UpdatesPort PROVE loader.row \in Rows /\ Has(ThisKey, loader.row)
    <2>1. Loading
      BY <1>2 DEF UpdatesPort, LoaderAt, Loading
    <2>2. QED
      BY <1>2, <2>1, AtNode DEF UpdatesPort, Position, Types
  <1>3. QED
    BY <1>1, <1>2 DEF UpdatesIp, UpdatesPort, NodesOf

LEMMA TypesLoader ==
  ASSUME Types, TableInv, LoaderSteps
  PROVE  Types'
  <1>1. CASE Stops \/ StartFails \/ DividesByZero
    BY <1>1, OffTypes DEF Stops, StartFails, DividesByZero
  <1>2. CASE Starts
    <2>1. loader' = [loader EXCEPT !.pc = "rows", !.bucket = 0] /\ "rows" \in LoaderPcs /\ 0 \in Buckets
      BY <1>2, Sizes DEF Starts, LoaderPcs, Buckets
    <2>2. loader' \in LoaderTypes
      BY <2>1 DEF Types, LoaderTypes
    <2>3. node' \in [Buckets -> [Rows -> NodeTypes]]
      BY <1>2, ZeroTypes DEF Starts, Types
    <2>4. QED
      BY <1>2, <2>2, <2>3 DEF Types, Starts, fileVars, LoaderTypes
  <1>3. CASE ClearsNodes
    <2>1. loader' \in LoaderTypes
      <3>1. CASE loader.bucket + 1 < NodeBuckets
        <4>1. loader.bucket + 1 \in Buckets /\ loader' = [loader EXCEPT !.bucket = @ + 1]
          BY <1>3, <3>1, Sizes DEF ClearsNodes, Buckets, Types
        <4>2. QED
          BY <4>1 DEF Types, LoaderTypes
      <3>2. CASE ~(loader.bucket + 1 < NodeBuckets)
        <4>1. "file" \in LoaderPcs /\ loader' = [loader EXCEPT !.pc = "file"]
          BY <1>3, <3>2 DEF ClearsNodes, LoaderPcs
        <4>2. QED
          BY <4>1 DEF Types, LoaderTypes
      <3>3. QED
        BY <3>1, <3>2
    <2>2. node' \in [Buckets -> [Rows -> NodeTypes]]
      BY <1>3, ZeroTypes DEF ClearsNodes, Types
    <2>3. /\ receiver' \in [Receivers -> ReceiverTypes]
          /\ \A w \in Receivers : receiver'[w].pc # "idle" => receiver'[w].key \in Keys
      BY <1>3, MixesReceivers DEF ClearsNodes, Types
    <2>4. QED
      BY <1>3, <2>1, <2>2, <2>3 DEF Types, ClearsNodes, fileVars, LoaderTypes
  <1>4. CASE ParsesFile
    <2>1. (IF client_cfg = Cut THEN <<>> ELSE client_cfg) \in Seq(ClientEntries)
      BY DEF Types
    <2>2. loader' \in LoaderTypes
      BY <1>4, <2>1, EntryTypes DEF ParsesFile
    <2>3. QED
      BY <1>4, <2>2 DEF Types, ParsesFile, fileVars, LoaderTypes
  <1>5. CASE KnowsNode
    <2>1. loader' \in LoaderTypes
      BY <1>5, EntryTypes DEF KnowsNode, Types
    <2>2. QED
      BY <1>5, <2>1 DEF Types, KnowsNode, fileVars, LoaderTypes
  <1>6. CASE UpdatesIp
    <2>1. Loading
      BY <1>6 DEF UpdatesIp, AtEntry, LoaderAt, Loading
    <2>2. /\ RowAt(ThisKey) \in Rows /\ ThisEntry.ip \in MultiIps
          /\ ip_port_hash_key[ThisKey] \in Buckets
          /\ node' = [node EXCEPT ![ip_port_hash_key[ThisKey]][RowAt(ThisKey)] =
                                       [NodesOf(ThisKey)[RowAt(ThisKey)] EXCEPT !.ip = ThisEntry.ip]]
      BY <1>6, <2>1, AtNode, UpdatesTypes
    <2>3. node' \in [Buckets -> [Rows -> NodeTypes]]
      <3> DEFINE x == [NodesOf(ThisKey)[RowAt(ThisKey)] EXCEPT !.ip = ThisEntry.ip]
      <3>1. x \in NodeTypes
        <4>1. NodesOf(ThisKey)[RowAt(ThisKey)] \in NodeTypes
          BY <2>2 DEF Types, NodesOf
        <4>2. QED
          BY <2>2, <4>1 DEF NodeTypes
      <3> HIDE DEF x
      <3>2. QED
        BY <2>2, <3>1, NodeTypesKept DEF x
    <2>4. loader' \in LoaderTypes
      <3>1. loader' = [loader EXCEPT !.pc = "port", !.row = RowAt(ThisKey)] /\ "port" \in LoaderPcs
        BY <1>6 DEF UpdatesIp, LoaderPcs
      <3>2. QED
        BY <2>2, <3>1 DEF Types, LoaderTypes
    <2>5. /\ receiver' \in [Receivers -> ReceiverTypes]
          /\ \A w \in Receivers : receiver'[w].pc # "idle" => receiver'[w].key \in Keys
      BY <1>6, MixesReceivers DEF UpdatesIp, Types
    <2>6. QED
      BY <1>6, <2>3, <2>4, <2>5 DEF Types, UpdatesIp, fileVars, LoaderTypes
  <1>7. CASE UpdatesPort
    <2>1. Loading
      BY <1>7 DEF UpdatesPort, LoaderAt, Loading
    <2>2. /\ loader.row \in Rows /\ ThisEntry.gport \in Nat
          /\ ip_port_hash_key[ThisKey] \in Buckets
          /\ node' = [node EXCEPT ![ip_port_hash_key[ThisKey]][loader.row] =
                                       [NodesOf(ThisKey)[loader.row] EXCEPT !.gport = ThisEntry.gport]]
      BY <1>7, <2>1, AtNode, UpdatesTypes
    <2>3. node' \in [Buckets -> [Rows -> NodeTypes]]
      <3> DEFINE x == [NodesOf(ThisKey)[loader.row] EXCEPT !.gport = ThisEntry.gport]
      <3>1. x \in NodeTypes
        <4>1. NodesOf(ThisKey)[loader.row] \in NodeTypes
          BY <2>2 DEF Types, NodesOf
        <4>2. QED
          BY <2>2, <4>1 DEF NodeTypes
      <3> HIDE DEF x
      <3>2. QED
        BY <2>2, <3>1, NodeTypesKept DEF x
    <2>4. loader' \in LoaderTypes
      BY <1>7, EntryTypes DEF UpdatesPort, Types
    <2>5. /\ receiver' \in [Receivers -> ReceiverTypes]
          /\ \A w \in Receivers : receiver'[w].pc # "idle" => receiver'[w].key \in Keys
      BY <1>7, MixesReceivers DEF UpdatesPort, Types
    <2>6. QED
      BY <1>7, <2>3, <2>4, <2>5 DEF Types, UpdatesPort, fileVars, LoaderTypes
  <1>8. CASE AddsNode
    <2>1. Loading
      BY <1>8 DEF AddsNode, AtEntry, LoaderAt, Loading
    <2> DEFINE x == [created |-> TRUE, key |-> ThisKey, ip |-> ThisEntry.ip, gport |-> ThisEntry.gport]
               r == Min(UnusedRows(ThisKey))
    <2>2. ThisKey \in Keys /\ ThisEntry.ip \in MultiIps /\ ThisEntry.gport \in Nat
          /\ ip_port_hash_key[ThisKey] \in Buckets
      BY <2>1, AtNode
    <2>3. x \in NodeTypes
      BY <2>2, ClientAssumption DEF ClientAssumption, NodeTypes, Keys
    <2>4. r \in Rows
      BY <1>8, UnusedTypes DEF AddsNode
    <2>5. node' = [node EXCEPT ![ip_port_hash_key[ThisKey]][r] = x]
      BY <1>8 DEF AddsNode
    <2> HIDE DEF x, r
    <2>6. node' \in [Buckets -> [Rows -> NodeTypes]]
      BY <2>2, <2>3, <2>4, <2>5, NodeTypesKept
    <2>7. loader' \in LoaderTypes
      BY <1>8, EntryTypes DEF AddsNode, Types
    <2>8. QED
      BY <1>8, <2>6, <2>7 DEF Types, AddsNode, fileVars, LoaderTypes
  <1>9. CASE AddSpins \/ Listens \/ ListenFails
    <2>1. \E pc \in LoaderPcs : LoaderGoes(pc)
      BY <1>9 DEF AddSpins, Listens, ListenFails, LoaderPcs
    <2>2. loader' \in LoaderTypes
      BY <2>1, GoesTypes
    <2>3. UNCHANGED <<client_cfg, tool, node, queued, receiving, receiver, missed>> /\ listening' \in BOOLEAN
      BY <1>9 DEF Types, AddSpins, Listens, ListenFails, fileVars
    <2>4. QED
      BY <2>2, <2>3 DEF Types, LoaderTypes
  <1>10. CASE Accepted
    <2>1. loader' = [loader EXCEPT !.pc = "rows", !.bucket = 0] /\ "rows" \in LoaderPcs /\ 0 \in Buckets
      BY <1>10, Sizes DEF Accepted, LoaderPcs, Buckets
    <2>2. loader' \in LoaderTypes
      BY <2>1 DEF Types, LoaderTypes
    <2>3. queued' \in Nat
      BY <1>10 DEF Accepted, Types
    <2>4. QED
      BY <1>10, <2>2, <2>3 DEF Types, Accepted, fileVars, LoaderTypes
  <1>11. CASE CreatesWorkers
    BY <1>11 DEF Types, CreatesWorkers, fileVars
  <1>12. QED
    BY <1>1, <1>2, <1>3, <1>4, <1>5, <1>6, <1>7, <1>8, <1>9, <1>10, <1>11 DEF LoaderSteps

-----------------------------------------------------------------------------
(* The table                                                               *)

LEMMA TableStays ==
  ASSUME TableInv, UNCHANGED <<node, loader>>
  PROVE  TableInv'
  <1>1. /\ NoGaps => NoGaps'
        /\ NodesDistinct => NodesDistinct'
    BY DEF NoGaps, NodesDistinct, Created
  <1>2. NodesOwned => NodesOwned'
    BY DEF NodesOwned, Created, Intact, Parsed, LoaderAt
  <1>3. NodesComplete => NodesComplete'
    BY DEF NodesComplete, Intact, Parsed, LoaderAt, Known, Loaded, Loading, Has, NodesOf
  <1>4. NodesRight => NodesRight'
    BY DEF NodesRight, Created, Updating, LoaderAt, ThisKey, ThisEntry, Loaded, Loading
  <1>5. Position => Position'
    BY DEF Position, Loading, Loaded, LoaderAt, Has, NodesOf, ThisKey, ThisEntry
  <1>6. QED
    BY <1>1, <1>2, <1>3, <1>4, <1>5 DEF TableInv, Running

LEMMA InBuckets ==
  ASSUME NEW k \in Keys
  PROVE  ip_port_hash_key[k] \in Buckets
  BY ClientAssumption DEF ClientAssumption, Buckets

LEMMA OffTable == ASSUME Off PROVE TableInv'
  BY DEF Off, TableInv, Running

LEMMA StartsTable ==
  ASSUME Types, Stopped, Starts
  PROVE  TableInv'
  <1>1. /\ loader'.pc = "rows" /\ loader'.bucket = 0 /\ loader'.cfg = <<>>
        /\ \A b \in Buckets, r \in Rows : ~node'[b][r].created
    BY ZeroTypes DEF Starts, Types, Stopped, Running, LoaderAt
  <1>2. NoGaps' /\ NodesOwned' /\ NodesDistinct' /\ NodesRight'
    BY <1>1 DEF NoGaps, NodesOwned, NodesDistinct, NodesRight, Created
  <1>3. NodesComplete'
    BY <1>1, InBuckets DEF NodesComplete, Known, EntriesOf, Has, NodesOf
  <1>4. Position'
    BY <1>1 DEF Position, Loading, LoaderAt
  <1>5. QED
    BY <1>2, <1>3, <1>4 DEF TableInv

LEMMA ClearsNodesTable ==
  ASSUME Types, TableInv, ClearsNodes
  PROVE  TableInv'
  <1> DEFINE x == loader.bucket
  <1>1. /\ LoaderAt("rows") /\ Running /\ ~Parsed /\ ~Loading /\ x \in Buckets
        /\ NoGaps /\ NodesOwned /\ NodesDistinct /\ NodesComplete /\ NodesRight
    BY DEF ClearsNodes, LoaderAt, Running, Parsed, Loading, TableInv, Types
  <1>2. /\ loader'.cfg = loader.cfg
        /\ IF x + 1 < NodeBuckets THEN loader'.pc = "rows" /\ loader'.bucket = x + 1
                                  ELSE loader'.pc = "file"
    BY <1>1 DEF ClearsNodes, LoaderAt, Types
  <1>3. /\ \A r \in Rows : ~node'[x][r].created
        /\ \A b \in Buckets \ {x} : node'[b] = node[b]
    BY <1>1, ZeroTypes DEF ClearsNodes, Types
  <1>4. \A b \in Buckets : Intact(b)' <=> (Intact(b) /\ b # x)
    BY <1>1, <1>2, Sizes DEF Intact, Parsed, LoaderAt, Buckets
  <1>5. ~Loading' /\ ~LoaderAt("port")' /\ Loaded' = Loaded
    BY <1>1, <1>2 DEF Loading, Loaded, LoaderAt
  <1> HIDE DEF x
  <1>6. \A b \in Buckets, r \in Rows : Created(b, r)' => b # x /\ Created(b, r) /\ node'[b] = node[b]
    BY <1>3 DEF Created
  <1>7. NoGaps'
    BY <1>1, <1>3, <1>6 DEF NoGaps, Created
  <1>8. NodesOwned' /\ NodesDistinct'
    BY <1>1, <1>4, <1>6 DEF NodesOwned, NodesDistinct
  <1>9. NodesComplete'
    <2> SUFFICES ASSUME NEW k \in Keys, Intact(ip_port_hash_key[k])'
                 PROVE  (Known(k) <=> \E r \in Rows : Has(k, r))'
      BY DEF NodesComplete
    <2>1. Intact(ip_port_hash_key[k]) /\ node'[ip_port_hash_key[k]] = node[ip_port_hash_key[k]]
      BY <1>3, <1>4, InBuckets
    <2>2. Known(k)' <=> Known(k)
      BY <1>2, <1>5 DEF Known
    <2>3. QED
      BY <1>1, <2>1, <2>2 DEF NodesComplete, Has, NodesOf
  <1>10. NodesRight'
    BY <1>1, <1>2, <1>5, <1>6 DEF NodesRight, Updating, LoaderAt
  <1>11. QED
    BY <1>5, <1>7, <1>8, <1>9, <1>10 DEF TableInv, Position

LEMMA ParsesFileTable ==
  ASSUME Types, TableInv, ParsesFile
  PROVE  TableInv'
  <1> DEFINE c == Content
  <1>1. LoaderAt("file") /\ Running /\ NodesOwned /\ \A b \in Buckets : ~Intact(b)
    BY DEF ParsesFile, LoaderAt, Running, Intact, Parsed, TableInv
  <1>2. c \in Seq(ClientEntries) /\ Len(c) \in Nat
    BY DEF Types, Content
  <1>3. /\ loader'.cfg = c /\ loader'.e = 1
        /\ loader'.pc = IF 1 <= Len(c) THEN "node" ELSE IF listening THEN "accept" ELSE "listen"
    BY <1>2, EntryTypes DEF ParsesFile, Content
  <1>4. \A b \in Buckets, r \in Rows : ~Created(b, r)'
    BY <1>1 DEF NodesOwned, ParsesFile, Created
  <1>5. Loaded' = 0
    BY <1>2, <1>3 DEF Loaded, Loading
  <1>6. NoGaps' /\ NodesOwned' /\ NodesDistinct' /\ NodesRight'
    BY <1>4 DEF NoGaps, NodesOwned, NodesDistinct, NodesRight
  <1>7. NodesComplete'
    <2>1. ASSUME NEW k \in Keys PROVE ~Known(k)'
      BY <1>2, <1>3, <1>5 DEF Known, EntriesOf
    <2>2. ASSUME NEW k \in Keys, NEW r \in Rows PROVE ~Has(k, r)'
      BY <1>4, InBuckets DEF Created, Has, NodesOf
    <2>3. QED
      BY <2>1, <2>2 DEF NodesComplete
  <1>8. Position'
    BY <1>2, <1>3 DEF Position, Loading, LoaderAt
  <1>9. QED
    BY <1>6, <1>7, <1>8 DEF TableInv

\* An entry has been loaded.
LEMMA Advance ==
  ASSUME Types, TableInv, Loading, ToEntry(loader.cfg, loader.e + 1)
  PROVE  /\ loader'.cfg = loader.cfg /\ Loaded' = loader.e /\ Loaded = loader.e - 1
         /\ Parsed /\ Parsed' /\ Running' /\ Position' /\ ~LoaderAt("port")'
         /\ \A b : Intact(b) /\ Intact(b)'
         /\ \A k : Known(k)' <=> Known(k) \/ k = ThisKey
  <1> DEFINE e == loader.e
  <1>1. /\ e \in 1 .. Len(loader.cfg) /\ Len(loader.cfg) \in Nat /\ e \in Nat
        /\ loader.cfg \in Seq(ClientEntries)
        /\ KeyOf(loader.cfg[e]) = ThisKey /\ Loaded = e - 1
    BY AtNode
  <1>2. /\ loader'.cfg = loader.cfg /\ loader'.e = e + 1
        /\ loader'.pc = IF e + 1 <= Len(loader.cfg) THEN "node"
                        ELSE IF listening THEN "accept" ELSE "listen"
    BY <1>1, EntryTypes
  <1>3. Loaded' = e /\ Parsed' /\ Running' /\ ~LoaderAt("port")'
    BY <1>1, <1>2 DEF Loaded, Loading, Parsed, Running, LoaderAt
  <1>4. Parsed /\ \A b : Intact(b) /\ Intact(b)'
    BY <1>3 DEF Loading, Parsed, Intact
  <1>5. Position'
    BY <1>1, <1>2, <1>3 DEF Position, Loading, LoaderAt
  <1>6. ASSUME NEW k PROVE Known(k)' <=> Known(k) \/ k = ThisKey
    <2>1. EntriesOf(loader.cfg, k)' = EntriesOf(loader.cfg, k)
      BY <1>2 DEF EntriesOf
    <2>2. \A i \in EntriesOf(loader.cfg, k) : i \in Nat /\ (i <= e <=> i <= e - 1 \/ i = e)
      BY <1>1 DEF EntriesOf
    <2>3. e \in EntriesOf(loader.cfg, k) <=> k = ThisKey
      BY <1>1 DEF EntriesOf
    <2>4. QED
      BY <1>1, <1>3, <2>1, <2>2, <2>3 DEF Known
  <1>7. QED
    BY <1>1, <1>2, <1>3, <1>4, <1>5, <1>6

\* Two rows of one key are one row.
LEMMA OneRow ==
  ASSUME TableInv, Running, NEW b \in Buckets, NEW r \in Rows, Created(b, r),
         NEW k \in Keys, NEW s \in Rows, Has(k, s), node[b][r].key = k
  PROVE  b = ip_port_hash_key[k] /\ r = s
  <1>1. b = ip_port_hash_key[k]
    BY DEF TableInv, NodesOwned
  <1>2. Created(b, s) /\ node[b][s].key = k
    BY <1>1 DEF Has, NodesOf, Created
  <1>3. QED
    BY <1>1, <1>2 DEF TableInv, NodesDistinct

LEMMA KnowsNodeTable ==
  ASSUME Types, TableInv, KnowsNode
  PROVE  TableInv'
  <1> DEFINE f == loader.cfg
             e == loader.e
  <1>1. LoaderAt("node") /\ Loading /\ Running /\ ToEntry(f, e + 1) /\ node' = node
        /\ ~LoaderAt("port")
    BY DEF KnowsNode, AtEntry, LoaderAt, Loading, Running
  <1>2. /\ f \in Seq(ClientEntries) /\ e \in 1 .. Len(f) /\ KeyOf(f[e]) = ThisKey /\ ThisKey \in Keys
        /\ f[e].ip = ThisEntry.ip
        /\ NoGaps /\ NodesOwned /\ NodesDistinct /\ NodesComplete /\ NodesRight
    BY <1>1, AtNode
  <1>3. PICK r \in Rows : Has(ThisKey, r) /\ NodesOf(ThisKey)[r].ip = ThisEntry.ip
    BY <1>2, RowAtFinds DEF KnowsNode
  <1>4. /\ loader'.cfg = f /\ Loaded' = e /\ Loaded = e - 1 /\ Running' /\ Position'
        /\ \A b : Intact(b) /\ Intact(b)'
        /\ \A k : Known(k)' <=> Known(k) \/ k = ThisKey
    BY <1>1, Advance
  <1> HIDE DEF f, e
  <1>5. NoGaps' /\ NodesOwned' /\ NodesDistinct'
    BY <1>1, <1>2, <1>4 DEF NoGaps, NodesOwned, NodesDistinct, Created
  <1>6. NodesComplete'
    <2>1. Known(ThisKey)
      BY <1>2, <1>3, <1>4, InBuckets DEF NodesComplete
    <2>2. \A k \in Keys, s \in Rows : Has(k, s)' <=> Has(k, s)
      BY <1>1 DEF Has, NodesOf
    <2>3. QED
      BY <1>2, <1>4, <2>1, <2>2 DEF NodesComplete
  <1>7. NodesRight'
    <2> SUFFICES ASSUME NEW b \in Buckets, NEW s \in Rows, Created(b, s)
                 PROVE  BindsFirst(f, e, node[b][s].key, node[b][s].ip, node[b][s].gport)
      BY <1>1, <1>4 DEF NodesRight, Created
    <2>1. BindsFirst(f, e - 1, node[b][s].key, node[b][s].ip, node[b][s].gport)
      BY <1>1, <1>2, <1>4 DEF NodesRight, Updating, f
    <2>2. CASE node[b][s].key # ThisKey
      BY <1>2, <2>1, <2>2, BindsOther
    <2>3. CASE node[b][s].key = ThisKey
      <3>1. b = ip_port_hash_key[ThisKey] /\ s = r
        BY <1>1, <1>2, <1>3, <2>3, OneRow
      <3>2. f[e].ip = node[b][s].ip
        BY <1>2, <1>3, <3>1 DEF NodesOf
      <3>3. QED
        BY <1>2, <2>1, <3>2, BindsSame
    <2>4. QED
      BY <2>2, <2>3
  <1>8. QED
    BY <1>4, <1>5, <1>6, <1>7 DEF TableInv

\* A step that changes one row of a key that has it.
LEMMA RowChanges ==
  ASSUME Types, TableInv, Running, NEW k \in Keys, NEW r \in Rows, Has(k, r), NEW x,
         x.created, x.key = k, node' = [node EXCEPT ![ip_port_hash_key[k]][r] = x],
         Running', \A b : Intact(b) /\ Intact(b)'
  PROVE  /\ NoGaps' /\ NodesOwned' /\ NodesDistinct'
         /\ \A j \in Keys, s \in Rows : Has(j, s)' <=> Has(j, s)
         /\ node'[ip_port_hash_key[k]][r] = x
         /\ \A b \in Buckets, s \in Rows :
              /\ Created(b, s)' <=> Created(b, s)
              /\ b # ip_port_hash_key[k] \/ s # r => node'[b][s] = node[b][s]
              /\ node'[b][s].key = node[b][s].key
  <1> DEFINE h == ip_port_hash_key[k]
  <1>1. h \in Buckets
    BY InBuckets
  <1>2. node[h][r].created /\ node[h][r].key = k
    BY DEF Has, NodesOf
  <1>3. /\ node'[h][r] = x
        /\ \A b \in Buckets, s \in Rows : b # h \/ s # r => node'[b][s] = node[b][s]
    BY <1>1 DEF Types
  <1> HIDE DEF h
  <1>4. \A b \in Buckets, s \in Rows : /\ Created(b, s)' <=> Created(b, s)
                                       /\ node'[b][s].key = node[b][s].key
    BY <1>2, <1>3 DEF Created
  <1>5. NoGaps' /\ NodesOwned' /\ NodesDistinct'
    <2>1. NoGaps /\ NodesOwned /\ NodesDistinct
      BY DEF TableInv
    <2>2. NoGaps'
      BY <1>4, <2>1 DEF NoGaps
    <2>3. NodesOwned'
      BY <1>4, <2>1 DEF NodesOwned
    <2>4. NodesDistinct'
      BY <1>4, <2>1 DEF NodesDistinct
    <2>5. QED
      BY <2>2, <2>3, <2>4
  <1>6. ASSUME NEW j \in Keys, NEW s \in Rows PROVE Has(j, s)' <=> Has(j, s)
    BY <1>4, InBuckets DEF Has, NodesOf, Created
  <1>7. QED
    BY <1>3, <1>4, <1>5, <1>6 DEF h

LEMMA UpdatesIpTable ==
  ASSUME Types, TableInv, UpdatesIp
  PROVE  TableInv'
  <1> DEFINE f == loader.cfg
             e == loader.e
  <1>k. PICK k : k = ThisKey
    OBVIOUS
  <1>r. PICK r : r = RowAt(k)
    OBVIOUS
  <1>x. PICK x : x = [NodesOf(k)[r] EXCEPT !.ip = ThisEntry.ip]
    OBVIOUS
  <1> DEFINE h == ip_port_hash_key[k]
  <1>1. LoaderAt("node") /\ Loading /\ Parsed /\ Running /\ ~LoaderAt("port")
    BY DEF UpdatesIp, AtEntry, LoaderAt, Loading, Running, Parsed
  <1>2. /\ f \in Seq(ClientEntries) /\ e \in 1 .. Len(f) /\ k \in Keys /\ h \in Buckets
        /\ ThisEntry = f[e] /\ Loaded = e - 1
        /\ NoGaps /\ NodesOwned /\ NodesDistinct /\ NodesComplete /\ NodesRight
    BY <1>1, <1>k, AtNode
  <1>3. r \in Rows /\ Has(k, r) /\ node' = [node EXCEPT ![h][r] = x]
    BY <1>k, <1>r, <1>x, UpdatesTypes
  <1>4. node[h][r] \in NodeTypes /\ node[h][r].key = k /\ node[h][r].created /\ NodesOf(k)[r] = node[h][r]
    BY <1>2, <1>3 DEF Types, Has, NodesOf
  <1>5. x.created /\ x.key = k /\ x.ip = ThisEntry.ip
    BY <1>4, <1>x DEF NodeTypes
  <1>6. /\ loader'.cfg = f /\ loader'.e = e /\ loader'.pc = "port" /\ loader'.row = r
    BY <1>k, <1>r DEF UpdatesIp, Types
  <1>7. /\ Running' /\ Loading' /\ Loaded' = Loaded /\ LoaderAt("port")'
        /\ \A b : Intact(b) /\ Intact(b)'
    BY <1>1, <1>6 DEF Running, Loading, Loaded, Intact, Parsed, LoaderAt
  <1>8. ThisKey' = k /\ ThisEntry' = ThisEntry
    BY <1>6, <1>k DEF ThisKey, ThisEntry
  <1>9. /\ NoGaps' /\ NodesOwned' /\ NodesDistinct'
        /\ \A j \in Keys, s \in Rows : Has(j, s)' <=> Has(j, s)
        /\ node'[h][r] = x
        /\ \A b \in Buckets, s \in Rows :
             /\ Created(b, s)' <=> Created(b, s)
             /\ b # h \/ s # r => node'[b][s] = node[b][s]
             /\ node'[b][s].key = node[b][s].key
    BY <1>1, <1>2, <1>3, <1>5, <1>7, RowChanges, ZenonT(60)
  <1>10. \A j \in Keys : Known(j)' <=> Known(j)
    BY <1>6, <1>7 DEF Known
  <1>11. NodesComplete'
    BY <1>2, <1>7, <1>9, <1>10 DEF NodesComplete
  <1>12. NodesRight'
    <2> SUFFICES ASSUME NEW b \in Buckets, NEW s \in Rows, Created(b, s)', ~Updating(b, s)'
                 PROVE  BindsFirst(loader.cfg, Loaded, node[b][s].key, node[b][s].ip, node[b][s].gport)'
      BY DEF NodesRight
    <2>1. b # h \/ s # r
      BY <1>6, <1>7, <1>8 DEF Updating
    <2>2. Created(b, s) /\ node'[b][s] = node[b][s]
      BY <1>9, <2>1
    <2>3. BindsFirst(f, Loaded, node[b][s].key, node[b][s].ip, node[b][s].gport)
      BY <1>1, <1>2, <2>2 DEF NodesRight, Updating
    <2>4. QED
      BY <1>6, <1>7, <2>2, <2>3
  <1>13. Position'
    <2>1. /\ BindsFirst(f, Loaded, k, node[h][r].ip, node[h][r].gport)
          /\ node[h][r].ip # ThisEntry.ip
      <3>1. Created(h, r)
        BY <1>4 DEF Created
      <3>2. QED
        BY <1>1, <1>2, <1>3, <1>4, <1>k, <1>r, <3>1 DEF NodesRight, Updating, UpdatesIp
    <2>2. node[h][r].gport \in Nat /\ node[h][r].ip \in MultiIps
      <3>1. node[h][r].gport \in Nat
        BY <1>4 DEF NodeTypes
      <3>2. PICK i \in EntriesOf(f, k) : f[i].ip = node[h][r].ip
        BY <1>2, <2>1, BindsSome
      <3>3. i \in 1 .. Len(f)
        BY <1>2 DEF EntriesOf
      <3>4. QED
        BY <1>2, <3>1, <3>2, <3>3, EntryOf
    <2>3. Has(ThisKey, loader.row)' /\ (NodesOf(ThisKey)[loader.row].ip)' = ThisEntry'.ip
      <3>1. Has(k, r)'
        BY <1>2, <1>3, <1>9
      <3>2. QED
        BY <1>5, <1>6, <1>8, <1>9, <3>1 DEF Has, NodesOf
    <2>4. QED
      BY <1>2, <1>6, <1>7, <1>8, <2>1, <2>2, <2>3 DEF Position
  <1>14. QED
    BY <1>9, <1>11, <1>12, <1>13 DEF TableInv

LEMMA UpdatesPortTable ==
  ASSUME Types, TableInv, UpdatesPort
  PROVE  TableInv'
  <1> DEFINE f == loader.cfg
             e == loader.e
  <1>k. PICK k : k = ThisKey
    OBVIOUS
  <1>r. PICK r : r = loader.row
    OBVIOUS
  <1>x. PICK x : x = [NodesOf(k)[r] EXCEPT !.gport = ThisEntry.gport]
    OBVIOUS
  <1> DEFINE h == ip_port_hash_key[k]
  <1>1. LoaderAt("port") /\ Loading /\ Running /\ ToEntry(f, e + 1)
    BY DEF UpdatesPort, LoaderAt, Loading, Running
  <1>2. /\ f \in Seq(ClientEntries) /\ e \in 1 .. Len(f) /\ k \in Keys /\ h \in Buckets
        /\ ThisEntry = f[e] /\ KeyOf(f[e]) = k
        /\ NoGaps /\ NodesOwned /\ NodesDistinct /\ NodesComplete /\ NodesRight /\ Position
    BY <1>1, <1>k, AtNode
  <1>3. r \in Rows /\ Has(k, r) /\ node' = [node EXCEPT ![h][r] = x]
    BY <1>k, <1>r, <1>x, UpdatesTypes
  <1>4. node[h][r] \in NodeTypes /\ node[h][r].key = k /\ node[h][r].created /\ NodesOf(k)[r] = node[h][r]
    BY <1>2, <1>3 DEF Types, Has, NodesOf
  <1>5. /\ x.created /\ x.key = k /\ x.ip = f[e].ip /\ x.gport = f[e].gport
    <2>1. node[h][r].ip = ThisEntry.ip
      BY <1>1, <1>2, <1>4, <1>k, <1>r DEF Position
    <2>2. QED
      BY <1>2, <1>4, <1>x, <2>1 DEF NodeTypes
  <1>6. /\ loader'.cfg = f /\ Loaded' = e /\ Loaded = e - 1 /\ Running' /\ Position'
        /\ ~LoaderAt("port")'
        /\ \A b : Intact(b) /\ Intact(b)'
        /\ \A j : Known(j)' <=> Known(j) \/ j = k
    BY <1>1, <1>k, Advance
  <1>7. /\ NoGaps' /\ NodesOwned' /\ NodesDistinct'
        /\ \A j \in Keys, s \in Rows : Has(j, s)' <=> Has(j, s)
        /\ node'[h][r] = x
        /\ \A b \in Buckets, s \in Rows :
             /\ Created(b, s)' <=> Created(b, s)
             /\ b # h \/ s # r => node'[b][s] = node[b][s]
             /\ node'[b][s].key = node[b][s].key
    BY <1>1, <1>2, <1>3, <1>5, <1>6, RowChanges
  <1>8. NodesComplete'
    <2>1. Known(k)
      BY <1>2, <1>3, <1>6 DEF NodesComplete
    <2>2. QED
      BY <1>2, <1>6, <1>7, <2>1 DEF NodesComplete
  <1>9. PICK ip \in MultiIps, gport \in Nat :
          ip # f[e].ip /\ BindsFirst(f, e - 1, k, ip, gport)
    BY <1>1, <1>2, <1>6, <1>k DEF Position
  <1> HIDE DEF f, e
  <1>10. NodesRight'
    <2> SUFFICES ASSUME NEW b \in Buckets, NEW s \in Rows, Created(b, s)'
                 PROVE  BindsFirst(f, e, node'[b][s].key, node'[b][s].ip, node'[b][s].gport)
      BY <1>6 DEF NodesRight
    <2>1. CASE b = h /\ s = r
      <3>1. BindsFirst(f, e, k, f[e].ip, f[e].gport)
        BY <1>2, <1>9, BindsNext
      <3>2. QED
        BY <1>5, <1>7, <2>1, <3>1
    <2>2. CASE ~(b = h /\ s = r)
      <3>1. Created(b, s) /\ node'[b][s] = node[b][s]
        BY <1>7, <2>2
      <3>2. ~Updating(b, s)
        BY <1>k, <1>r, <2>2 DEF Updating
      <3>3. BindsFirst(f, e - 1, node[b][s].key, node[b][s].ip, node[b][s].gport)
        BY <1>2, <1>6, <3>1, <3>2 DEF NodesRight, f
      <3>4. node[b][s].key # k
        BY <1>1, <1>2, <1>3, <2>2, <3>1, OneRow
      <3>5. QED
        BY <1>2, <3>1, <3>3, <3>4, BindsOther
    <2>3. QED
      BY <2>1, <2>2
  <1>11. QED
    BY <1>6, <1>7, <1>8, <1>10 DEF TableInv

LEMMA AddsNodeTable ==
  ASSUME Types, TableInv, AddsNode
  PROVE  TableInv'
  <1> DEFINE f == loader.cfg
             e == loader.e
  <1>k. PICK k : k = ThisKey
    OBVIOUS
  <1>r. PICK r : r = Min(UnusedRows(k))
    OBVIOUS
  <1>x. PICK x : x = [created |-> TRUE, key |-> k, ip |-> ThisEntry.ip, gport |-> ThisEntry.gport]
    OBVIOUS
  <1> DEFINE h == ip_port_hash_key[k]
  <1>1. LoaderAt("node") /\ Loading /\ Running /\ ToEntry(f, e + 1) /\ ~LoaderAt("port")
    BY DEF AddsNode, AtEntry, LoaderAt, Loading, Running
  <1>2. /\ f \in Seq(ClientEntries) /\ e \in 1 .. Len(f) /\ k \in Keys /\ h \in Buckets
        /\ ThisEntry = f[e] /\ KeyOf(f[e]) = k
        /\ NoGaps /\ NodesOwned /\ NodesDistinct /\ NodesComplete /\ NodesRight /\ Position
    BY <1>1, <1>k, AtNode
  <1>3. \A s \in Rows : ~Has(k, s)
    BY <1>2, <1>k, RowAtFinds DEF AddsNode
  <1>4. r \in Rows /\ ~node[h][r].created /\ \A s \in Rows : s < r => node[h][s].created
    BY <1>k, <1>r, UnusedTypes DEF AddsNode, NodesOf
  <1>5. node' = [node EXCEPT ![h][r] = x]
    BY <1>k, <1>r, <1>x DEF AddsNode
  <1>6. /\ loader'.cfg = f /\ Loaded' = e /\ Loaded = e - 1 /\ Running' /\ Position'
        /\ ~LoaderAt("port")'
        /\ \A b : Intact(b) /\ Intact(b)'
        /\ \A j : Known(j)' <=> Known(j) \/ j = k
    BY <1>1, <1>k, Advance
  <1>7. /\ node'[h][r] = x
        /\ \A b \in Buckets, s \in Rows : b # h \/ s # r => node'[b][s] = node[b][s]
    BY <1>2, <1>4, <1>5 DEF Types
  <1>8. \A b \in Buckets, s \in Rows : Created(b, s)' <=> Created(b, s) \/ (b = h /\ s = r)
    BY <1>7, <1>x DEF Created
  <1>9. \A s \in Rows : Created(h, s) <=> s < r
    BY <1>2, <1>4 DEF NoGaps, Created, Rows
  <1> HIDE DEF f, e, h
  <1>10. NoGaps'
    BY <1>2, <1>8, <1>9 DEF NoGaps, Rows
  <1>11. NodesOwned'
    BY <1>2, <1>6, <1>7, <1>8, <1>x DEF NodesOwned, h
  <1>12. ASSUME NEW b \in Buckets, NEW s \in Rows, Created(b, s) PROVE node[b][s].key # k
    <2>1. node[b][s].key = k => b = h
      BY <1>2, <1>12 DEF NodesOwned, h
    <2>2. QED
      BY <1>3, <1>12, <2>1 DEF Has, NodesOf, Created, h
  <1>13. NodesDistinct'
    <2> SUFFICES ASSUME NEW b \in Buckets, NEW s \in Rows, NEW t \in Rows, Created(b, s)', Created(b, t)',
                        node'[b][s].key = node'[b][t].key
                 PROVE  s = t
      BY DEF NodesDistinct
    <2>1. CASE b = h /\ s = r
      BY <1>7, <1>8, <1>12, <1>x, <2>1
    <2>2. CASE b = h /\ t = r
      BY <1>7, <1>8, <1>12, <1>x, <2>2
    <2>3. CASE ~(b = h /\ s = r) /\ ~(b = h /\ t = r)
      BY <1>2, <1>7, <1>8, <2>3 DEF NodesDistinct
    <2>4. QED
      BY <2>1, <2>2, <2>3
  <1>14. NodesComplete'
    <2>1. Has(k, r)'
      BY <1>7, <1>x DEF Has, NodesOf, h
    <2>2. ASSUME NEW j \in Keys, j # k, NEW s \in Rows PROVE Has(j, s)' <=> Has(j, s)
      <3>1. ip_port_hash_key[j] \in Buckets
        BY InBuckets
      <3>2. CASE ip_port_hash_key[j] = h /\ s = r
        BY <1>4, <1>7, <1>x, <2>2, <3>2 DEF Has, NodesOf
      <3>3. CASE ~(ip_port_hash_key[j] = h /\ s = r)
        BY <1>7, <3>1, <3>3 DEF Has, NodesOf
      <3>4. QED
        BY <3>2, <3>3
    <2>3. QED
      BY <1>2, <1>4, <1>6, <2>1, <2>2 DEF NodesComplete
  <1>15. NodesRight'
    <2> SUFFICES ASSUME NEW b \in Buckets, NEW s \in Rows, Created(b, s)'
                 PROVE  BindsFirst(f, e, node'[b][s].key, node'[b][s].ip, node'[b][s].gport)
      BY <1>6 DEF NodesRight
    <2>1. CASE b = h /\ s = r
      <3>1. \A i \in EntriesOf(f, k) : ~(i <= e - 1)
        BY <1>2, <1>3, <1>6 DEF NodesComplete, Known, f
      <3>2. BindsFirst(f, e, k, f[e].ip, f[e].gport)
        BY <1>2, <3>1, BindsNew
      <3>3. QED
        BY <1>2, <1>7, <1>x, <2>1, <3>2
    <2>2. CASE ~(b = h /\ s = r)
      <3>1. Created(b, s) /\ node'[b][s] = node[b][s]
        BY <1>7, <1>8, <2>2
      <3>2. BindsFirst(f, e - 1, node[b][s].key, node[b][s].ip, node[b][s].gport)
        BY <1>1, <1>2, <1>6, <3>1 DEF NodesRight, Updating, f
      <3>3. node[b][s].key # k
        BY <1>12, <3>1
      <3>4. QED
        BY <1>2, <3>1, <3>2, <3>3, BindsOther
    <2>3. QED
      BY <2>1, <2>2
  <1>16. QED
    BY <1>6, <1>10, <1>11, <1>13, <1>14, <1>15 DEF TableInv

LEMMA AddSpinsTable ==
  ASSUME Types, TableInv, AddSpins
  PROVE  TableInv'
  <1>1. LoaderAt("node") /\ Loading /\ Running /\ Parsed /\ ~LoaderAt("port") /\ Position
    BY DEF AddSpins, AtEntry, LoaderAt, Loading, Running, Parsed, TableInv
  <1>2. /\ loader'.pc = "spin" /\ loader'.cfg = loader.cfg /\ loader'.e = loader.e
        /\ UNCHANGED node
    BY GoesTypes DEF AddSpins, LoaderPcs
  <1>3. /\ Running' /\ Parsed' /\ Loading' /\ Loaded' = Loaded /\ ~LoaderAt("port")'
    BY <1>1, <1>2 DEF Running, Parsed, Loading, Loaded, LoaderAt
  <1>4. QED
    BY <1>1, <1>2, <1>3 DEF TableInv, NoGaps, NodesOwned, NodesDistinct, NodesComplete, NodesRight,
         Position, Created, Intact, Known, Has, NodesOf, Updating

\* Listening, waiting and the beginning of another reload leave the table as it is.
LEMMA RestsTable ==
  ASSUME Types, TableInv, Listens \/ ListenFails \/ Accepted
  PROVE  TableInv'
  <1>1. Running /\ Parsed /\ ~Loading /\ ~LoaderAt("port") /\ UNCHANGED node
    BY DEF Listens, ListenFails, Accepted, LoaderAt, Loading, Running, Parsed
  <1>2. /\ loader'.cfg = loader.cfg
        /\ loader'.pc \in {"accept", "ended"} \/ (loader'.pc = "rows" /\ loader'.bucket = 0)
    BY DEF Listens, ListenFails, Accepted, LoaderGoes, Types
  <1>3. /\ Running' /\ ~Loading' /\ Loaded' = Loaded /\ ~LoaderAt("port")'
        /\ \A b \in Buckets : Intact(b) /\ Intact(b)'
    BY <1>1, <1>2, Sizes DEF Running, Parsed, Loading, Loaded, LoaderAt, Intact, Buckets
  <1>4. NoGaps' /\ NodesOwned' /\ NodesDistinct'
    BY <1>1, <1>3 DEF TableInv, NoGaps, NodesOwned, NodesDistinct, Created
  <1>5. NodesComplete'
    BY <1>1, <1>2, <1>3, InBuckets DEF TableInv, NodesComplete, Known, Has, NodesOf
  <1>6. NodesRight'
    BY <1>1, <1>2, <1>3 DEF TableInv, NodesRight, Created, Updating
  <1>7. QED
    BY <1>3, <1>4, <1>5, <1>6 DEF TableInv, Position

LEMMA LoaderTable ==
  ASSUME Types, Stopped, TableInv, LoaderSteps
  PROVE  TableInv'
  <1>1. ASSUME Stops \/ StartFails \/ DividesByZero PROVE TableInv'
    BY <1>1, OffTable DEF Stops, StartFails, DividesByZero
  <1>2. ASSUME CreatesWorkers PROVE TableInv'
    BY <1>2, TableStays DEF CreatesWorkers
  <1>3. QED
    BY <1>1, <1>2, StartsTable, ClearsNodesTable, ParsesFileTable, KnowsNodeTable, UpdatesIpTable,
       UpdatesPortTable, AddsNodeTable, AddSpinsTable, RestsTable DEF LoaderSteps

-----------------------------------------------------------------------------
(* The file that was read, and programs that do not run                    *)

LEMMA FreshTool ==
  ASSUME Types, Fresh, NEW t \in ClientTools, ClientToolSteps(t)
  PROVE  Fresh'
  <1> USE DEF Fresh, Parsed, Content
  <1>1. ASSUME NEW content, Rewrites(t, content) PROVE Fresh'
    <2>1. \A u \in ClientTools : tool'[u].pc \in {"write", "ask"} <=> tool[u].pc \in {"write", "ask"}
      BY <1>1 DEF Rewrites, ToolAt, Types
    <2>2. QED
      BY <1>1, <2>1 DEF Rewrites, ToolAt, proxyVars
  <1>2. ASSUME LeavesFile(t) \/ Writes(t) PROVE Fresh'
    <2>1. ToolAt(t, "ask")'
      BY <1>2 DEF LeavesFile, Writes, ToolGoes, ToolAt, Types
    <2>2. QED
      BY <2>1
  <1>3. ASSUME Opens(t) PROVE Fresh'
    <2>1. ToolAt(t, "write")'
      BY <1>3 DEF Opens, ToolGoes, ToolAt, Types
    <2>2. QED
      BY <2>1
  <1>4. ASSUME Asks(t) PROVE Fresh'
    <2>1. CASE listening
      BY <1>4, <2>1 DEF Asks, Types
    <2>2. CASE ~listening
      BY <1>4, <2>2 DEF Asks, Running
    <2>3. QED
      BY <2>1, <2>2
  <1>5. ASSUME ClientToolDies(t) PROVE Fresh'
    BY <1>5 DEF ClientToolDies
  <1>6. QED
    BY <1>1, <1>2, <1>3, <1>4, <1>5, ToolCases

LEMMA FreshLoader ==
  ASSUME Types, Fresh, TableInv, LoaderSteps
  PROVE  Fresh'
  <1> USE DEF Fresh, Parsed
  <1>1. CASE Stops \/ StartFails \/ DividesByZero
    BY <1>1, OffTypes DEF Stops, StartFails, DividesByZero
  <1>2. CASE Starts \/ ClearsNodes \/ Accepted
    <2>1. loader'.pc \in {"rows", "file"}
      BY <1>2 DEF Starts, ClearsNodes, Accepted, LoaderAt, Types
    <2>2. QED
      BY <2>1
  <1>3. CASE ParsesFile
    <2>1. Content \in Seq(ClientEntries)
      BY DEF Types, Content
    <2>2. loader'.cfg = Content /\ client_cfg' = client_cfg
      BY <1>3, <2>1, EntryTypes DEF ParsesFile, Content, fileVars
    <2>3. QED
      BY <2>2 DEF Content
  <1>4. CASE KnowsNode \/ UpdatesIp \/ UpdatesPort \/ AddsNode \/ AddSpins \/ Listens \/ ListenFails
             \/ CreatesWorkers
    <2>1. loader'.cfg = loader.cfg
      <3>1. ASSUME ToEntry(loader.cfg, loader.e + 1), Loading PROVE loader'.cfg = loader.cfg
        BY <3>1, Advance
      <3>2. CASE KnowsNode \/ UpdatesPort \/ AddsNode
        BY <3>1, <3>2 DEF KnowsNode, UpdatesPort, AddsNode, AtEntry, LoaderAt, Loading
      <3>3. CASE UpdatesIp \/ CreatesWorkers
        BY <3>3 DEF UpdatesIp, CreatesWorkers, Types
      <3>4. CASE AddSpins \/ Listens \/ ListenFails
        BY <3>4 DEF AddSpins, Listens, ListenFails, LoaderGoes, Types
      <3>5. QED
        BY <1>4, <3>2, <3>3, <3>4
    <2>2. (Parsed /\ UNCHANGED <<client_cfg, tool, queued, missed>>) \/ (CreatesWorkers /\ Fresh')
      <3>1. CASE CreatesWorkers
        BY <3>1 DEF CreatesWorkers, Content, fileVars, ToolAt
      <3>2. CASE ~CreatesWorkers
        BY <1>4, <3>2 DEF KnowsNode, UpdatesIp, UpdatesPort, AddsNode, AddSpins, Listens,
           ListenFails, AtEntry, LoaderAt, fileVars
      <3>3. QED
        BY <3>1, <3>2
    <2>3. QED
      BY <2>1, <2>2 DEF Content, ToolAt
  <1>5. QED
    BY <1>1, <1>2, <1>3, <1>4 DEF LoaderSteps

LEMMA StoppedTool ==
  ASSUME Types, Stopped, NEW t \in ClientTools, ClientToolSteps(t)
  PROVE  Stopped'
  <1>1. UNCHANGED <<loader, listening, receiving, receiver>>
    BY ToolCases DEF Rewrites, LeavesFile, Opens, Writes, Asks, ClientToolDies, proxyVars
  <1>2. QED
    BY <1>1 DEF Stopped, Running, ReceiverAt

LEMMA StoppedOff ==
  ASSUME Types, Off
  PROVE  Stopped'
  BY OffTypes DEF Off, Stopped, ReceiverAt

LEMMA StoppedLoader ==
  ASSUME Types, Stopped, TableInv, LoaderSteps
  PROVE  Stopped'
  <1>1. CASE Stops \/ StartFails \/ DividesByZero
    BY <1>1, StoppedOff DEF Stops, StartFails, DividesByZero
  <1>2. CASE Starts \/ ClearsNodes \/ Accepted \/ UpdatesIp \/ AddSpins \/ Listens \/ ListenFails
    <2>1. loader'.pc \in {"rows", "file", "port", "spin", "accept", "ended"}
      BY <1>2 DEF Starts, ClearsNodes, Accepted, UpdatesIp, AddSpins, Listens, ListenFails,
         LoaderAt, LoaderGoes, Types
    <2>2. QED
      BY <2>1 DEF Stopped, Running
  <1>3. CASE ParsesFile
    <2>1. Content \in Seq(ClientEntries)
      BY DEF Types, Content
    <2>2. Running'
      BY <1>3, <2>1, EntryTypes DEF ParsesFile, Content, Running
    <2>3. QED
      BY <2>2 DEF Stopped
  <1>4. CASE KnowsNode \/ UpdatesPort \/ AddsNode
    <2>1. Loading /\ ToEntry(loader.cfg, loader.e + 1)
      BY <1>4 DEF KnowsNode, UpdatesPort, AddsNode, AtEntry, LoaderAt, Loading
    <2>2. Running'
      BY <2>1, Advance
    <2>3. QED
      BY <2>2 DEF Stopped
  <1>5. CASE CreatesWorkers
    <2>1. Running /\ loader' = loader
      BY <1>5 DEF CreatesWorkers, Stopped, Running
    <2>2. QED
      BY <2>1 DEF Stopped, Running
  <1>6. QED
    BY <1>1, <1>2, <1>3, <1>4, <1>5 DEF LoaderSteps

-----------------------------------------------------------------------------
(* Lookups                                                                 *)

LEMMA LookupSame ==
  ASSUME LookupInv, UNCHANGED <<node, loader, receiver>>
  PROVE  LookupInv'
  <1>1. ASSUME NEW v \in Receivers, Sees(v) PROVE Sees(v)'
    <2>1. PICK x : x = receiver[v] /\ x = receiver'[v]
      OBVIOUS
    <2>2. Running' = Running /\ Shows(x)' = Shows(x)
      BY DEF Running, Shows, NodesOf, LoaderAt, ThisKey, ThisEntry, Wanted, EntriesOf
    <2>3. QED
      BY <1>1, <2>1, <2>2 DEF Sees
  <1>2. QED
    BY <1>1 DEF LookupInv, ReceiverAt

\* The rows that workers have found stay as they are.
LEMMA LookupKept ==
  ASSUME Types, LookupInv, receiver' = receiver, Running', loader'.cfg = loader.cfg, ~LoaderAt("port")',
         \A b \in Buckets, r \in Rows : Created(b, r) => node'[b][r] = node[b][r]
  PROVE  LookupInv'
  <1>1. ASSUME NEW w \in Receivers, Sees(w), receiver[w].pc \in AtRow PROVE Sees(w)'
    <2>x. PICK x : x = receiver[w] /\ x = receiver'[w]
      OBVIOUS
    <2>1. x.key \in Keys /\ ip_port_hash_key[x.key] \in Buckets /\ x.row \in Rows
      BY <1>1, <2>x, InBuckets DEF Types, LookupInv, AtRow
    <2>2. NodesOf(x.key)[x.row]' = NodesOf(x.key)[x.row]
      BY <1>1, <2>1, <2>x DEF Sees, Shows, NodesOf, Created
    <2>3. Wanted(x.key)' = Wanted(x.key)
      BY DEF Wanted, EntriesOf
    <2>4. Shows(x)'
      BY <1>1, <2>2, <2>3, <2>x DEF Sees, Shows
    <2>5. QED
      BY <2>4, <2>x DEF Sees
  <1>2. QED
    BY <1>1 DEF LookupInv, ReceiverAt

LEMMA LookupMixed ==
  ASSUME Types, LookupInv, Mixes
  PROVE  LookupInv'
  <1>1. \A w \in Receivers :
              /\ receiver'[w].mixed = (receiver[w].pc # "idle")
              /\ receiver'[w].pc = receiver[w].pc /\ receiver'[w].row = receiver[w].row
    BY MixesReceivers
  <1>2. QED
    BY <1>1 DEF LookupInv, ReceiverAt, AtRow

LEMMA LookupOff ==
  ASSUME Types, Off
  PROVE  LookupInv'
  BY OffTypes DEF LookupInv, ReceiverAt, AtRow

LEMMA LookupLoader ==
  ASSUME Types, Stopped, TableInv, LookupInv, LoaderSteps
  PROVE  LookupInv'
  <1>1. CASE Stops \/ StartFails \/ DividesByZero
    BY <1>1, LookupOff DEF Stops, StartFails, DividesByZero
  <1>2. CASE Starts
    BY <1>2 DEF Starts, Stopped, Running, LoaderAt, LookupInv, ReceiverAt, AtRow
  <1>3. CASE ClearsNodes \/ UpdatesIp \/ UpdatesPort
    BY <1>3, LookupMixed DEF ClearsNodes, UpdatesIp, UpdatesPort
  <1>4. CASE ParsesFile
    <2>1. \A b \in Buckets, r \in Rows : ~Created(b, r)
      BY <1>4 DEF ParsesFile, LoaderAt, Running, Intact, Parsed, TableInv, NodesOwned
    <2>2. ASSUME NEW w \in Receivers, receiver[w].pc \in AtRow PROVE ~Sees(w)
      <3>1. receiver[w].row \in Rows /\ ip_port_hash_key[receiver[w].key] \in Buckets
        BY <2>2, InBuckets DEF LookupInv, Types, AtRow
      <3>2. QED
        BY <2>1, <3>1 DEF Sees, Shows, NodesOf, Created
    <2>3. QED
      BY <1>4, <2>2 DEF ParsesFile, LookupInv, ReceiverAt
  <1>5. CASE KnowsNode
    <2>1. Loading /\ ToEntry(loader.cfg, loader.e + 1)
      BY <1>5 DEF KnowsNode, AtEntry, LoaderAt, Loading
    <2>2. QED
      BY <1>5, <2>1, Advance, LookupKept DEF KnowsNode
  <1>6. CASE AddsNode
    <2>1. Loading /\ ToEntry(loader.cfg, loader.e + 1)
      BY <1>6 DEF AddsNode, AtEntry, LoaderAt, Loading
    <2>2. \A b \in Buckets, r \in Rows : Created(b, r) => node'[b][r] = node[b][r]
      <3> DEFINE r == Min(UnusedRows(ThisKey))
                 x == [created |-> TRUE, key |-> ThisKey, ip |-> ThisEntry.ip, gport |-> ThisEntry.gport]
                 h == ip_port_hash_key[ThisKey]
      <3>1. r \in Rows /\ ~node[h][r].created /\ h \in Buckets
        BY <1>6, <2>1, UnusedTypes, AtNode DEF AddsNode, NodesOf
      <3>2. node' = [node EXCEPT ![h][r] = x]
        BY <1>6 DEF AddsNode
      <3> HIDE DEF r, x, h
      <3>3. QED
        BY <3>1, <3>2 DEF Types, Created
    <2>3. QED
      BY <1>6, <2>1, <2>2, Advance, LookupKept DEF AddsNode
  <1>7. CASE AddSpins \/ Listens \/ ListenFails \/ Accepted
    <2>1. loader'.cfg = loader.cfg /\ loader'.pc \in {"spin", "accept", "ended", "rows"}
      BY <1>7 DEF AddSpins, Listens, ListenFails, Accepted, LoaderGoes, Types
    <2>2. receiver' = receiver /\ node' = node
      BY <1>7 DEF AddSpins, Listens, ListenFails, Accepted
    <2>3. QED
      BY <2>1, <2>2, LookupKept DEF Running, LoaderAt
  <1>8. CASE CreatesWorkers
    BY <1>8, LookupSame DEF CreatesWorkers
  <1>9. QED
    BY <1>1, <1>2, <1>3, <1>4, <1>5, <1>6, <1>7, <1>8 DEF LoaderSteps

\* What a step of worker w does: w is somewhere else, and nothing else is.
LEMMA ReceiverSteps1 ==
  ASSUME Types, Stopped, NEW w \in Receivers, ReceiverSteps(w)
  PROVE  /\ Running
         /\ UNCHANGED <<client_cfg, tool, node, loader, listening, queued, receiving, missed>>
         /\ \A v \in Receivers \ {w} : receiver'[v] = receiver[v]
         /\ \E x : receiver' = [receiver EXCEPT ![w] = x]
  <1>1. Running
    BY DEF Stopped, Running, ReceiverSteps, Hears, ReadsCreated, ReadsServer, ReadsServerPort,
       ReadsIp, ReadsGroupPort, Remulticasts, ReceiverAt
  <1>2. UNCHANGED <<client_cfg, tool, node, loader, listening, queued, receiving, missed>>
    BY DEF ReceiverSteps, Hears, ReadsCreated, ReadsServer, ReadsServerPort, ReadsIp,
       ReadsGroupPort, Remulticasts, LocalVars, fileVars
  <1>3. PICK x : receiver' = [receiver EXCEPT ![w] = x]
    BY DEF ReceiverSteps, Hears, ReadsCreated, ReadsServer, ReadsServerPort, PassesRow, ReadsIp,
       ReadsGroupPort, Remulticasts
  <1>4. \A v \in Receivers \ {w} : receiver'[v] = receiver[v]
    BY <1>3 DEF Types
  <1>5. QED
    BY <1>1, <1>2, <1>3, <1>4

LEMMA ReceiverMoves ==
  ASSUME Types, NEW w \in Receivers, NEW x \in ReceiverTypes,
         receiver' = [receiver EXCEPT ![w] = x],
         x.pc # "idle" => x.key \in Keys,
         UNCHANGED <<client_cfg, tool, node, loader, listening, queued, receiving, missed>>
  PROVE  Types' /\ receiver'[w] = x
  <1>1. /\ receiver' \in [Receivers -> ReceiverTypes] /\ receiver'[w] = x
        /\ \A v \in Receivers \ {w} : receiver'[v] = receiver[v]
    BY DEF Types
  <1>2. \A v \in Receivers : receiver'[v].pc # "idle" => receiver'[v].key \in Keys
    BY <1>1 DEF Types
  <1>3. QED
    BY <1>1, <1>2 DEF Types

\* Others see what they saw.
LEMMA LookupMoves ==
  ASSUME Types, LookupInv, NEW w \in Receivers, UNCHANGED <<node, loader>>,
         \A v \in Receivers \ {w} : receiver'[v] = receiver[v],
         /\ receiver'[w].pc = "created" => receiver'[w].row \in Rows
         /\ receiver'[w].pc \in AtRow =>
              receiver'[w].row \in Rows /\ (receiver'[w].mixed \/ Sees(w)')
         /\ receiver'[w].pc = "send" /\ ~receiver'[w].mixed =>
              \E e \in receiver'[w].want : e.ip = receiver'[w].ip /\ e.gport = receiver'[w].gport
  PROVE  LookupInv'
  <1>1. ASSUME NEW v \in Receivers \ {w}, Sees(v) PROVE Sees(v)'
    <2>1. PICK x : x = receiver[v] /\ x = receiver'[v]
      OBVIOUS
    <2>2. Running' = Running /\ Shows(x)' = Shows(x)
      BY DEF Running, Shows, NodesOf, LoaderAt, ThisKey, ThisEntry, Wanted, EntriesOf
    <2>3. QED
      BY <1>1, <2>1, <2>2 DEF Sees
  <1>2. QED
    BY <1>1 DEF LookupInv, ReceiverAt

\* Worker w goes on with x, which has come to a row, or to none.
LEMMA WalkLookup ==
  ASSUME Types, LookupInv, NEW w \in Receivers, NEW x \in ReceiverTypes,
         receiver' = [receiver EXCEPT ![w] = x], LocalVars' = LocalVars,
         x.pc \in {"idle", "created"},
         x.pc = "created" => x.key \in Keys /\ x.row \in Rows
  PROVE  Types' /\ LookupInv'
  <1>1. UNCHANGED <<client_cfg, tool, node, loader, listening, queued, receiving, missed>>
    BY DEF LocalVars, fileVars
  <1>2. Types' /\ receiver'[w] = x
    BY <1>1, ReceiverMoves
  <1>3. \A v \in Receivers \ {w} : receiver'[v] = receiver[v]
    BY DEF Types
  <1>4. QED
    BY <1>1, <1>2, <1>3, LookupMoves DEF AtRow

\* What w has when it has come to a row.
LEMMA WalkerTypes ==
  ASSUME Types, LookupInv, NEW w \in Receivers, receiver[w].pc \in AtRow \cup {"created"}
  PROVE  /\ receiver[w] \in ReceiverTypes /\ receiver[w].key \in Keys /\ receiver[w].row \in Rows
         /\ ip_port_hash_key[receiver[w].key] \in Buckets /\ NodeAt(w) \in NodeTypes
         /\ receiver[w].pc \in AtRow => receiver[w].mixed \/ Sees(w)
  <1>1. receiver[w] \in ReceiverTypes /\ receiver[w].key \in Keys
    BY DEF Types, AtRow
  <1>2. receiver[w].row \in Rows /\ (receiver[w].pc \in AtRow => receiver[w].mixed \/ Sees(w))
    BY DEF LookupInv
  <1>3. ip_port_hash_key[receiver[w].key] \in Buckets
    BY <1>1, InBuckets
  <1>4. NodeAt(w) \in NodeTypes
    BY <1>2, <1>3 DEF Types, NodeAt, NodesOf
  <1>5. QED
    BY <1>1, <1>2, <1>3, <1>4

LEMMA PassesLookup ==
  ASSUME Types, LookupInv, NEW w \in Receivers, receiver[w].pc \in AtRow, PassesRow(w),
         LocalVars' = LocalVars
  PROVE  Types' /\ LookupInv'
  <1>1. receiver[w] \in ReceiverTypes /\ receiver[w].key \in Keys /\ receiver[w].row \in Rows
    BY WalkerTypes
  <1>2. CASE receiver[w].row < NodeDepth
    <2>x. PICK x : x = [receiver[w] EXCEPT !.pc = "created", !.row = @ + 1]
      OBVIOUS
    <2>1. receiver' = [receiver EXCEPT ![w] = x]
      BY <1>2, <2>x DEF PassesRow, Types
    <2>2. receiver[w].row + 1 \in Rows /\ receiver[w].row + 1 \in Nat
      BY <1>1, <1>2, Sizes DEF Rows
    <2>3. x \in ReceiverTypes /\ x.pc = "created" /\ x.key \in Keys /\ x.row \in Rows
      BY <1>1, <2>2, <2>x DEF ReceiverTypes
    <2>4. QED
      BY <2>1, <2>3, WalkLookup
  <1>3. CASE ~(receiver[w].row < NodeDepth)
    <2>1. receiver' = [receiver EXCEPT ![w] = Still]
      BY <1>3 DEF PassesRow
    <2>2. QED
      BY <2>1, WalkLookup, ZeroTypes
  <1>4. QED
    BY <1>2, <1>3

\* Worker w stays at its row with x, and what it has seen of it is there.
LEMMA StaysLookup ==
  ASSUME Types, LookupInv, NEW w \in Receivers, NEW x \in ReceiverTypes, Running,
         receiver' = [receiver EXCEPT ![w] = x], LocalVars' = LocalVars,
         x.pc \in AtRow, x.key \in Keys, x.row \in Rows, x.mixed \/ Shows(x)
  PROVE  Types' /\ LookupInv'
  <1>1. UNCHANGED <<client_cfg, tool, node, loader, listening, queued, receiving, missed>>
    BY DEF LocalVars, fileVars
  <1>2. Types' /\ receiver'[w] = x
    BY <1>1, ReceiverMoves
  <1>3. \A v \in Receivers \ {w} : receiver'[v] = receiver[v]
    BY DEF Types
  <1>4. x.mixed \/ Sees(w)'
    <2>1. Shows(x)' = Shows(x)
      BY <1>1 DEF Shows, NodesOf, LoaderAt, ThisKey, ThisEntry, Wanted, EntriesOf
    <2>2. Running'
      BY <1>1 DEF Running
    <2>3. QED
      BY <1>2, <2>1, <2>2 DEF Sees
  <1>5. QED
    BY <1>1, <1>2, <1>3, <1>4, LookupMoves DEF AtRow

LEMMA CreatedLookup ==
  ASSUME Types, Running, LookupInv, NEW w \in Receivers, ReadsCreated(w)
  PROVE  Types' /\ LookupInv'
  <1>1. /\ receiver[w].pc = "created" /\ LocalVars' = LocalVars
        /\ receiver[w] \in ReceiverTypes /\ receiver[w].key \in Keys /\ receiver[w].row \in Rows
    <2>1. receiver[w].pc = "created" /\ LocalVars' = LocalVars
      BY DEF ReadsCreated, ReceiverAt, LocalVars
    <2>2. QED
      BY <2>1, WalkerTypes
  <1>2. CASE ~NodeAt(w).created
    <2>1. receiver' = [receiver EXCEPT ![w] = Still]
      BY <1>2 DEF ReadsCreated
    <2>2. QED
      BY <1>1, <2>1, WalkLookup, ZeroTypes
  <1>3. CASE NodeAt(w).created
    <2>m. PICK m \in BOOLEAN : m = (LoaderAt("rows") \/ (LoaderAt("port") /\ ThisKey = receiver[w].key))
      OBVIOUS
    <2>x. PICK x : x = [receiver[w] EXCEPT !.pc = "server", !.mixed = m]
      OBVIOUS
    <2>1. receiver' = [receiver EXCEPT ![w] = x]
      BY <1>3, <2>m, <2>x DEF ReadsCreated, Types
    <2>2. /\ x \in ReceiverTypes /\ x.pc = "server" /\ x.mixed = m
          /\ x.key = receiver[w].key /\ x.row = receiver[w].row
      BY <1>1, <2>x DEF ReceiverTypes
    <2>3. m \/ Shows(x)
      BY <1>3, <2>m, <2>2 DEF Shows, NodeAt
    <2>4. QED
      BY <1>1, <2>1, <2>2, <2>3, StaysLookup DEF AtRow
  <1>4. QED
    BY <1>2, <1>3

LEMMA ServerLookup ==
  ASSUME Types, Running, LookupInv, NEW w \in Receivers, ReadsServer(w)
  PROVE  Types' /\ LookupInv'
  <1>1. receiver[w].pc = "server" /\ LocalVars' = LocalVars
    BY DEF ReadsServer, ReceiverAt, LocalVars
  <1>2. /\ receiver[w] \in ReceiverTypes /\ receiver[w].key \in Keys /\ receiver[w].row \in Rows
        /\ receiver[w].mixed \/ Sees(w)
    BY <1>1, WalkerTypes DEF AtRow
  <1>3. CASE NodeAt(w).key.server # receiver[w].key.server
    BY <1>1, <1>3, PassesLookup DEF ReadsServer, AtRow
  <1>4. CASE NodeAt(w).key.server = receiver[w].key.server
    <2>x. PICK x : x = [receiver[w] EXCEPT !.pc = "sport"]
      OBVIOUS
    <2>1. receiver' = [receiver EXCEPT ![w] = x]
      BY <1>4, <2>x DEF ReadsServer, Types
    <2>2. /\ x \in ReceiverTypes /\ x.pc = "sport" /\ x.mixed = receiver[w].mixed
          /\ x.key = receiver[w].key /\ x.row = receiver[w].row
      BY <1>2, <2>x DEF ReceiverTypes
    <2>3. x.mixed \/ Shows(x)
      BY <1>1, <1>2, <1>4, <2>2 DEF Sees, Shows, NodeAt
    <2>4. QED
      BY <1>1, <1>2, <2>1, <2>2, <2>3, StaysLookup DEF AtRow
  <1>5. QED
    BY <1>3, <1>4

LEMMA ServerPortLookup ==
  ASSUME Types, Running, LookupInv, NEW w \in Receivers, ReadsServerPort(w)
  PROVE  Types' /\ LookupInv'
  <1>k. PICK k : k = receiver[w].key
    OBVIOUS
  <1>1. receiver[w].pc = "sport" /\ LocalVars' = LocalVars
    BY DEF ReadsServerPort, ReceiverAt, LocalVars
  <1>2. /\ receiver[w] \in ReceiverTypes /\ k \in Keys /\ receiver[w].row \in Rows
        /\ receiver[w].mixed \/ Sees(w)
        /\ NodeAt(w) \in NodeTypes
    BY <1>1, <1>k, WalkerTypes DEF AtRow
  <1>3. CASE NodeAt(w).key.sport # k.sport
    BY <1>1, <1>3, <1>k, PassesLookup DEF ReadsServerPort, AtRow
  <1>4. CASE NodeAt(w).key.sport = k.sport
    <2>s. PICK s : s = Wanted(k)
      OBVIOUS
    <2>x. PICK x : x = [receiver[w] EXCEPT !.pc = "ip", !.want = s]
      OBVIOUS
    <2>1. receiver' = [receiver EXCEPT ![w] = x]
      BY <1>4, <1>k, <2>s, <2>x DEF ReadsServerPort, Types
    <2>2. s \in SUBSET ClientEntries
      BY <2>s DEF Types, EntriesOf, Wanted
    <2>3. /\ x \in ReceiverTypes /\ x.pc = "ip" /\ x.mixed = receiver[w].mixed
          /\ x.key = k /\ x.row = receiver[w].row /\ x.want = s
      BY <1>2, <1>k, <2>2, <2>x DEF ReceiverTypes
    <2>4. ASSUME Sees(w) PROVE NodeAt(w).key = k
      <3>1. NodeAt(w).key.server = k.server
        BY <1>1, <1>k, <2>4 DEF Sees, Shows, NodeAt
      <3>2. NodeAt(w).key \in [server : Servers \cup {NoAddress}, sport : Nat]
        BY <1>2 DEF NodeTypes
      <3>3. k \in [server : Servers, sport : ServerPorts]
        BY <1>2 DEF Keys
      <3>4. QED
        BY <1>4, <3>1, <3>2, <3>3
    <2>5. x.mixed \/ Shows(x)
      BY <1>1, <1>2, <1>k, <2>3, <2>4, <2>s DEF Sees, Shows, NodeAt
    <2>6. QED
      BY <1>1, <1>2, <2>1, <2>3, <2>5, StaysLookup DEF AtRow
  <1>5. QED
    BY <1>3, <1>4

LEMMA IpLookup ==
  ASSUME Types, Running, LookupInv, NEW w \in Receivers, ReadsIp(w)
  PROVE  Types' /\ LookupInv'
  <1>1. receiver[w].pc = "ip" /\ LocalVars' = LocalVars
    BY DEF ReadsIp, ReceiverAt, LocalVars
  <1>2. /\ receiver[w] \in ReceiverTypes /\ receiver[w].key \in Keys /\ receiver[w].row \in Rows
        /\ receiver[w].mixed \/ Sees(w)
        /\ NodeAt(w) \in NodeTypes
    BY <1>1, WalkerTypes DEF AtRow
  <1>x. PICK x : x = [receiver[w] EXCEPT !.pc = "port", !.ip = NodeAt(w).ip]
    OBVIOUS
  <1>3. receiver' = [receiver EXCEPT ![w] = x]
    BY <1>x DEF ReadsIp, Types
  <1>4. NodeAt(w).ip \in MultiIps \cup {NoAddress}
    BY <1>2 DEF NodeTypes
  <1>5. /\ x \in ReceiverTypes /\ x.pc = "port" /\ x.mixed = receiver[w].mixed
        /\ x.key = receiver[w].key /\ x.row = receiver[w].row /\ x.want = receiver[w].want
        /\ x.ip = NodeAt(w).ip
    BY <1>2, <1>4, <1>x DEF ReceiverTypes
  <1>6. x.mixed \/ Shows(x)
    BY <1>1, <1>2, <1>5 DEF Sees, Shows, NodeAt
  <1>7. QED
    BY <1>1, <1>2, <1>3, <1>5, <1>6, StaysLookup DEF AtRow

\* The row that w has seen is not between the two halves of an update.
LEMMA GroupPortLookup ==
  ASSUME Types, TableInv, Running, LookupInv, NEW w \in Receivers, ReadsGroupPort(w)
  PROVE  Types' /\ LookupInv'
  <1>k. PICK k : k = receiver[w].key
    OBVIOUS
  <1>r. PICK r : r = receiver[w].row
    OBVIOUS
  <1>y. PICK y : y = NodeAt(w)
    OBVIOUS
  <1>1. receiver[w].pc = "port" /\ LocalVars' = LocalVars
    BY DEF ReadsGroupPort, ReceiverAt, LocalVars
  <1>2. /\ receiver[w] \in ReceiverTypes /\ k \in Keys /\ r \in Rows
        /\ ip_port_hash_key[k] \in Buckets
        /\ receiver[w].mixed \/ Sees(w)
        /\ y \in NodeTypes
    BY <1>1, <1>k, <1>r, <1>y, WalkerTypes DEF AtRow
  <1>x. PICK x : x = [receiver[w] EXCEPT !.pc = "send", !.gport = y.gport]
    OBVIOUS
  <1>3. receiver' = [receiver EXCEPT ![w] = x]
    BY <1>x, <1>y DEF ReadsGroupPort, Types
  <1>4. /\ x \in ReceiverTypes /\ x.pc = "send" /\ x.key = k /\ x.gport = y.gport
        /\ x.ip = receiver[w].ip /\ x.want = receiver[w].want /\ x.mixed = receiver[w].mixed
    <2>1. y.gport \in Nat
      BY <1>2 DEF NodeTypes
    <2>2. QED
      BY <1>2, <1>k, <1>x, <2>1 DEF ReceiverTypes
  <1>5. UNCHANGED <<client_cfg, tool, node, loader, listening, queued, receiving, missed>>
    BY <1>1 DEF LocalVars, fileVars
  <1>6. Types' /\ receiver'[w] = x
    BY <1>2, <1>3, <1>4, <1>5, ReceiverMoves
  <1>7. ASSUME ~x.mixed PROVE \E e \in x.want : e.ip = x.ip /\ e.gport = x.gport
    <2>1. Sees(w)
      BY <1>2, <1>4, <1>7
    <2>2. /\ y.created /\ y.key = k /\ x.ip = y.ip /\ x.want = Wanted(k)
          /\ ~(LoaderAt("port") /\ ThisKey = k)
      BY <1>1, <1>k, <1>r, <1>y, <1>4, <2>1 DEF Sees, Shows, NodeAt
    <2>3. ~Updating(ip_port_hash_key[k], r)
      <3> SUFFICES ASSUME LoaderAt("port"), ip_port_hash_key[k] = ip_port_hash_key[ThisKey],
                          r = loader.row
                   PROVE  FALSE
        BY DEF Updating
      <3>1. Has(ThisKey, r)
        BY DEF TableInv, Position
      <3>2. ThisKey = k
        BY <1>k, <1>r, <1>y, <2>2, <3>1 DEF Has, NodesOf, NodeAt
      <3>3. QED
        BY <2>2, <3>2
    <2>4. BindsFirst(loader.cfg, Loaded, k, y.ip, y.gport)
      BY <1>2, <1>k, <1>r, <1>y, <2>2, <2>3 DEF TableInv, NodesRight, Created, NodesOf, NodeAt
    <2>5. loader.cfg \in Seq(ClientEntries)
      BY DEF Types
    <2>6. PICK i \in EntriesOf(loader.cfg, k) : loader.cfg[i].ip = y.ip /\ loader.cfg[i].gport = y.gport
      BY <2>4, <2>5, BindsSome
    <2>7. QED
      BY <1>4, <2>2, <2>6 DEF Wanted
  <1>8. \A v \in Receivers \ {w} : receiver'[v] = receiver[v]
    BY <1>3 DEF Types
  <1>9. /\ receiver'[w].pc \notin AtRow \cup {"created"} /\ receiver'[w].ip = x.ip
        /\ receiver'[w].gport = x.gport /\ receiver'[w].want = x.want /\ receiver'[w].mixed = x.mixed
    BY <1>4, <1>6 DEF AtRow
  <1>10. ~receiver'[w].mixed =>
           \E e \in receiver'[w].want : e.ip = receiver'[w].ip /\ e.gport = receiver'[w].gport
    BY <1>7, <1>9
  <1>11. UNCHANGED <<node, loader>>
    BY <1>5
  <1>12. LookupInv'
    BY <1>8, <1>9, <1>10, <1>11, LookupMoves
  <1>13. QED
    BY <1>6, <1>12

LEMMA HearsLookup ==
  ASSUME Types, NEW w \in Receivers, LookupInv, (\E k \in Keys : Hears(w, k)) \/ Remulticasts(w)
  PROVE  Types' /\ LookupInv'
  <1>1. CASE Remulticasts(w)
    BY <1>1, ZeroTypes, WalkLookup DEF Remulticasts, LocalVars
  <1>2. ASSUME NEW k \in Keys, Hears(w, k) PROVE Types' /\ LookupInv'
    <2>x. PICK x : x = [Still EXCEPT !.pc = "created", !.key = k, !.row = 1]
      OBVIOUS
    <2>1. k \in [server : Servers \cup {NoAddress}, sport : Nat] /\ 1 \in Rows
      <3>1. ServerPorts \subseteq Nat
        BY ClientAssumption DEF ClientAssumption
      <3>2. k \in [server : Servers \cup {NoAddress}, sport : Nat]
        BY <3>1 DEF Keys
      <3>3. QED
        BY <3>2, Sizes DEF Rows
    <2>2. x \in ReceiverTypes /\ x.pc = "created" /\ x.key = k /\ x.row = 1
      BY <2>1, <2>x, ZeroTypes DEF ReceiverTypes
    <2>3. receiver' = [receiver EXCEPT ![w] = x] /\ LocalVars' = LocalVars
      BY <1>2, <2>x DEF Hears, LocalVars
    <2>4. QED
      BY <2>1, <2>2, <2>3, WalkLookup
  <1>3. QED
    BY <1>1, <1>2

-----------------------------------------------------------------------------
(* Theorems                                                                *)

LEMMA InitIInv == ClientInit => IInv
  <1> SUFFICES ASSUME ClientInit PROVE IInv
    OBVIOUS
  <1>1. /\ loader.pc = "off" /\ loader.cfg = <<>>
        /\ \A w \in Receivers : receiver[w] = Still
    BY DEF ClientInit
  <1>2. loader \in LoaderTypes
    <2>1. <<>> \in Seq(ClientEntries) /\ "off" \in LoaderPcs /\ 0 \in Buckets /\ 1 \in Rows /\ 1 \in Nat
      BY Sizes DEF LoaderPcs, Buckets, Rows
    <2>2. QED
      BY <2>1 DEF ClientInit, LoaderTypes
  <1>3. client_cfg = Cut \/ client_cfg \in Seq(ClientEntries)
    BY ClientAssumption DEF ClientInit, ClientAssumption
  <1>4. tool \in [ClientTools -> [pc : ToolPcs, content : Seq(ClientEntries)]]
    <2>1. <<>> \in Seq(ClientEntries)
      OBVIOUS
    <2>2. QED
      BY <2>1 DEF ClientInit, ToolPcs
  <1>5. node \in [Buckets -> [Rows -> NodeTypes]]
    BY ZeroTypes DEF ClientInit, Buckets
  <1>6. Types
    BY <1>1, <1>2, <1>3, <1>4, <1>5, ZeroTypes DEF ClientInit, Types, LoaderTypes
  <1>7. Fresh /\ Stopped /\ TableInv /\ LookupInv
    BY <1>1, ZeroTypes
       DEF ClientInit, Fresh, Parsed, Stopped, TableInv, Running, LookupInv, ReceiverAt, AtRow
  <1>8. QED
    BY <1>6, <1>7 DEF IInv

LEMMA NextIInv == IInv /\ [ClientNext]_clientVars => IInv'
  <1> SUFFICES ASSUME IInv, [ClientNext]_clientVars PROVE IInv'
    OBVIOUS
  <1>0. Types /\ Fresh /\ Stopped /\ TableInv /\ LookupInv
    BY DEF IInv
  <1>1. ASSUME NEW t \in ClientTools, ClientToolSteps(t) PROVE IInv'
    <2>1. UNCHANGED <<node, loader, receiver>>
      BY <1>0, <1>1, ToolCases
         DEF Rewrites, LeavesFile, Opens, Writes, Asks, ClientToolDies, proxyVars
    <2>2. Types' /\ Fresh' /\ Stopped'
      BY <1>0, <1>1, TypesTool, FreshTool, StoppedTool
    <2>3. TableInv' /\ LookupInv'
      BY <1>0, <2>1, TableStays, LookupSame
    <2>4. QED
      BY <2>2, <2>3 DEF IInv
  <1>2. ASSUME LoaderSteps PROVE IInv'
    BY <1>0, <1>2, TypesLoader, FreshLoader, StoppedLoader, LoaderTable, LookupLoader DEF IInv
  <1>3. ASSUME HearsPortZero PROVE IInv'
    <2>1. Off
      BY <1>3 DEF HearsPortZero
    <2>2. Fresh'
      BY <1>0, <2>1, OffTypes DEF Fresh, Parsed
    <2>3. QED
      BY <1>0, <2>1, <2>2, OffTypes, StoppedOff, OffTable, LookupOff DEF IInv
  <1>4. ASSUME NEW w \in Receivers, ReceiverSteps(w) PROVE IInv'
    <2>1. Running /\ UNCHANGED <<client_cfg, tool, node, loader, listening, queued, receiving, missed>>
      BY <1>0, <1>4, ReceiverSteps1
    <2>2. Types' /\ LookupInv'
      BY <1>0, <1>4, <2>1, HearsLookup, CreatedLookup, ServerLookup, ServerPortLookup, IpLookup,
         GroupPortLookup DEF ReceiverSteps
    <2>3. Fresh'
      BY <1>0, <2>1 DEF Fresh, Parsed, Content, ToolAt
    <2>4. Stopped'
      BY <2>1 DEF Stopped, Running
    <2>5. TableInv'
      BY <1>0, <2>1, TableStays
    <2>6. QED
      BY <2>2, <2>3, <2>4, <2>5 DEF IInv
  <1>5. CASE UNCHANGED clientVars
    <2>1. UNCHANGED <<client_cfg, tool, node, loader, listening, queued, receiving, receiver, missed>>
      BY <1>5 DEF clientVars, fileVars, proxyVars
    <2>2. Types' /\ Fresh' /\ Stopped'
      BY <1>0, <2>1 DEF Types, Fresh, Stopped, Parsed, Running, Content, ToolAt, ReceiverAt
    <2>3. QED
      BY <1>0, <2>1, <2>2, TableStays, LookupSame DEF IInv
  <1>6. QED
    BY <1>1, <1>2, <1>3, <1>4, <1>5 DEF ClientNext

LEMMA InvariantIInv == ClientSpec => []IInv
  BY InitIInv, NextIInv, PTL DEF ClientSpec

\* However commands, their kills and the reloads they ask for overlap, a proxy that rests,
\* was told of every change or has read it, serves exactly what the file says.
THEOREM ClientServesTheFile == ClientSpec => []ServesTheFile
  <1>1. ASSUME IInv PROVE ServesTheFile
    <2> SUFFICES ASSUME AllTold, NEW k \in Keys
                 PROVE  IF EntriesOf(Content, k) # {}
                        THEN /\ RowAt(k) # 0
                             /\ Binds(Content, k, NodesOf(k)[RowAt(k)].ip, NodesOf(k)[RowAt(k)].gport)
                        ELSE RowAt(k) = 0
      BY DEF ServesTheFile, Content
    <2>1. Types /\ Fresh /\ TableInv
      BY <1>1 DEF IInv
    <2>2. Parsed /\ ~Loading /\ Running /\ ~LoaderAt("port")
      BY DEF AllTold, LoaderAt, Parsed, Loading, Running
    <2>3. loader.cfg = Content
      BY <2>1, <2>2 DEF Fresh, AllTold, ToolAt
    <2>4. Content \in Seq(ClientEntries) /\ Loaded = Len(Content) /\ ip_port_hash_key[k] \in Buckets
      BY <2>1, <2>2, <2>3, InBuckets DEF Types, Loaded
    <2>5. NoGaps /\ NodesComplete /\ NodesRight
      BY <2>1, <2>2 DEF TableInv
    <2>6. Known(k) <=> EntriesOf(Content, k) # {}
      BY <2>3, <2>4 DEF Known, EntriesOf
    <2>7. Known(k) <=> \E r \in Rows : Has(k, r)
      BY <2>2, <2>4, <2>5 DEF NodesComplete, Intact
    <2>8. /\ RowAt(k) # 0 => RowAt(k) \in Rows /\ Has(k, RowAt(k))
          /\ RowAt(k) = 0 => \A r \in Rows : ~Has(k, r)
      BY <2>1, <2>5, RowAtFinds
    <2>9. ASSUME RowAt(k) # 0
          PROVE  Binds(Content, k, NodesOf(k)[RowAt(k)].ip, NodesOf(k)[RowAt(k)].gport)
      <3>1. BindsFirst(Content, Len(Content), k, NodesOf(k)[RowAt(k)].ip, NodesOf(k)[RowAt(k)].gport)
        BY <2>2, <2>3, <2>4, <2>5, <2>8, <2>9 DEF NodesRight, Updating, Created, Has, NodesOf
      <3>2. QED
        BY <2>4, <3>1, BindsAll
    <2>10. QED
      BY <2>6, <2>7, <2>8, <2>9
  <1>2. QED
    BY <1>1, InvariantIInv, PTL

\* The group and the port to which a worker sends a packet on, read one after the other from
\* an unlocked table, are those of one entry, unless the row was being changed or cleared.
THEOREM ClientSendsAsConfigured == ClientSpec => []SentAsConfigured
  <1>1. IInv => SentAsConfigured
    BY DEF IInv, LookupInv, SentAsConfigured
  <1>2. QED
    BY <1>1, InvariantIInv, PTL

=============================================================================
