------------------------ MODULE LinuxServerForward ------------------------
(***************************************************************************)
(* The data path of the Linux userland server proxy: worker threads look a *)
(* multicast packet's group up in the hash table and send a copy to each   *)
(* member, while the reload thread clears the table and fills it again.    *)
(* The locks around the table are commented out in multi_grp.c.            *)
(*                                                                         *)
(* Memory is read and written in the order of the program, one step for    *)
(* each field that both sides touch.  A walk along a bucket is one step:   *)
(* a row that it stops at is in the table at that moment, and a group that *)
(* a slower walk could miss can be missed at once after the memset.        *)
(*                                                                         *)
(* A raw socket of IPPROTO_UDP receives nothing but UDP packets: the       *)
(* branch for VRRP in HandleIncomingData is never taken and is left out.   *)
(***************************************************************************)
EXTENDS Integers, SequencesExt

CONSTANTS
  Groups, VMs,
  GroupBuckets,  \* MULTI_GRP_BUCKET
  GroupHash,     \* mulit_hash_key: the bucket of each group
  GrpMax,        \* MULTI_GRP_MAX; MULTI_GRP_DEPTH is larger, and no bucket fills up
  VmMax,         \* MULTI_VM_MAX
  Zero,          \* the address in zeroed memory
  Configs,       \* contents of SERVER_CFG: sequences of entries
  Packets,       \* packets that arrive
  Workers,
  FdMax,         \* sockets that can be leaked before socket fails
  MaxReloads, MaxPackets  \* bounds

ASSUME ForwardAssumption ==
  /\ Zero \notin VMs \cup Groups
  /\ GroupBuckets \in Nat \ {0} /\ GroupHash \in [Groups -> 0 .. GroupBuckets - 1]
  /\ GrpMax \in Nat \ {0} /\ VmMax \in Nat
  \* What cfg_init reads without overrunning groupIp and ip_list_int.
  /\ Configs \subseteq Seq([ip : Groups, port : Nat, members : Seq(VMs)])
  /\ \A c \in Configs :
       /\ Len(c) <= GrpMax
       /\ \A i \in DOMAIN c : Len(c[i].members) <= VmMax
  /\ Packets \subseteq [to : Groups, rebuilt : BOOLEAN]
  /\ IsFiniteSet(Workers)
  /\ FdMax \in Nat /\ MaxReloads \in Nat /\ MaxPackets \in Nat

VARIABLES
  multi_grp,   \* the rows of each bucket
  multi_vm,    \* the member list of each index
  g_bitmap,    \* the indices in use
  reload,      \* where cfg_init or the reload thread is, and its locals
  cfg,         \* the configuration it loads, or has loaded
  serving,     \* the workers have been created
  worker,      \* where each worker is, and its locals
  count,       \* grecv_pkt, gdrop_pkt, gforward_pkt, gforward_point_pkt
  leaked,      \* sockets left open
  reloads,
  real,        \* history: what there was to count
  raced        \* history: an increment was lost

tableVars == <<multi_grp, multi_vm, g_bitmap>>
reloadVars == <<tableVars, reload, cfg, serving, reloads>>
countVars == <<count, leaked, real, raced>>
forwardVars == <<reloadVars, worker, countVars>>

Depth == GrpMax + 1
ZeroRow == [created |-> FALSE, ip |-> Zero, idx |-> 0, cnt |-> 0, port |-> 0]
ZeroRows == [i \in 1 .. Depth |-> ZeroRow]
ZeroList == [i \in 1 .. VmMax |-> Zero]
Counters == {"recv", "drop", "forward", "point"}

At(w, pc) == worker[w].pc = pc
Goes(w, pc) == worker' = [worker EXCEPT ![w].pc = pc]

\* The worker has not got its copy of the list yet.
LooksUp(w) ==
  worker[w].pc \in {"find", "cnt", "idx", "port", "copy"} \/ worker[w].next = "find"

-----------------------------------------------------------------------------
(* multi_grp.c                                                             *)

\* __lookup_multi_node: the row of g, or 0; no group is looked for behind an unused row.
RowOf(g) ==
  LET rows == multi_grp[GroupHash[g]]
      used(i) == \A j \in 1 .. i : rows[j].created
      at == {i \in 1 .. Depth : used(i) /\ rows[i].ip = g}
  IN  IF at = {} THEN 0 ELSE Min(at)

FirstUnused(b) == Min({i \in 1 .. Depth : ~multi_grp[b][i].created})

\* get_idx
FreeIndex == Min((0 .. GrpMax - 1) \ g_bitmap)

-----------------------------------------------------------------------------
(* cfg_init, and the reload thread                                         *)

ReloadAt(pc) == reload.pc = pc

ReloadRequested ==
  /\ ReloadAt("rest")
  /\ reloads < MaxReloads /\ reloads' = reloads + 1
  /\ reload' = [reload EXCEPT !.pc = "rows", !.bucket = 0]
  /\ worker' = [w \in Workers |-> [worker[w] EXCEPT !.during = @ \/ LooksUp(w)]]
  /\ UNCHANGED <<tableVars, cfg, serving, countVars>>

\* multi_node_init: memset of multi_grp, bucket by bucket...
ClearsRows ==
  /\ ReloadAt("rows")
  /\ multi_grp' = [multi_grp EXCEPT ![reload.bucket] = ZeroRows]
  /\ reload' = IF reload.bucket + 1 < GroupBuckets
               THEN [reload EXCEPT !.bucket = @ + 1] ELSE [reload EXCEPT !.pc = "lists"]
  /\ worker' = [w \in Workers |-> [worker[w] EXCEPT !.mixed = @ \/ LooksUp(w)]]
  /\ UNCHANGED <<multi_vm, g_bitmap, cfg, serving, reloads, countVars>>

\* ... of multi_vm, and of g_bitmap, which no worker reads.
ClearsLists ==
  /\ ReloadAt("lists")
  /\ multi_vm' = [i \in DOMAIN multi_vm |-> ZeroList]
  /\ g_bitmap' = {}
  /\ reload' = [reload EXCEPT !.pc = "file"]
  /\ UNCHANGED <<multi_grp, cfg, serving, reloads, worker, countVars>>

\* On to entry e of c, or done; the workers are created after the first time.
Entry(c, e) ==
  IF e <= Len(c)
  THEN reload' = [reload EXCEPT !.pc = "node", !.e = e] /\ UNCHANGED serving
  ELSE reload' = [reload EXCEPT !.pc = "rest"] /\ serving' = TRUE

\* cfg_init reads the file; an unreadable one leaves a running proxy with an empty table.
ReadsFile ==
  /\ ReloadAt("file")
  /\ \E c \in Configs \cup (IF serving THEN {<<>>} ELSE {}) : cfg' = c /\ Entry(c, 1)
  /\ UNCHANGED <<tableVars, reloads, worker, countVars>>

Row == multi_grp[reload.bucket][reload.row]
SetRow(row) == multi_grp' = [multi_grp EXCEPT ![reload.bucket][reload.row] = row]

\* add_multi_node: a group that the file repeats gets more members...
AppendsTo ==
  LET g == cfg[reload.e].ip IN
  /\ ReloadAt("node")
  /\ RowOf(g) # 0
  /\ reload' = [reload EXCEPT !.pc = "limit", !.bucket = GroupHash[g], !.row = RowOf(g)]
  /\ UNCHANGED <<tableVars, cfg, serving, reloads, worker, countVars>>

\* ... a new one an index and an unused row, which is in use from here on...
TakesRow ==
  LET g == cfg[reload.e].ip
      b == GroupHash[g]
      i == FirstUnused(b)
  IN  /\ ReloadAt("node")
      /\ RowOf(g) = 0
      /\ g_bitmap' = g_bitmap \cup {FreeIndex}
      /\ multi_grp' = [multi_grp EXCEPT ![b][i] =
           [created |-> TRUE, ip |-> g, idx |-> FreeIndex, cnt |-> 0, port |-> @.port]]
      /\ reload' = [reload EXCEPT !.pc = "port", !.bucket = b, !.row = i]
      /\ UNCHANGED <<multi_vm, cfg, serving, reloads, worker, countVars>>

\* Mutant: the number of members before the members.
SetsPort_CountFirst ==
  /\ ReloadAt("port")
  /\ SetRow([Row EXCEPT !.port = cfg[reload.e].port, !.cnt = Len(cfg[reload.e].members)])
  /\ reload' = [reload EXCEPT !.pc = "limit"]
  /\ UNCHANGED <<multi_vm, g_bitmap, cfg, serving, reloads, worker, countVars>>

\* ... and its port.
SetsPort ==
  /\ ReloadAt("port")
  /\ SetRow([Row EXCEPT !.port = cfg[reload.e].port])
  /\ reload' = [reload EXCEPT !.pc = "limit"]
  /\ UNCHANGED <<multi_vm, g_bitmap, cfg, serving, reloads, worker, countVars>>

\* add_vm_ip_list: too many members are refused...
ChecksLimit ==
  /\ ReloadAt("limit")
  /\ IF Len(cfg[reload.e].members) + Row.cnt > VmMax
     THEN Entry(cfg, reload.e + 1)
     ELSE reload' = [reload EXCEPT !.pc = "list", !.m = 1, !.k = Row.cnt] /\ UNCHANGED serving
  /\ UNCHANGED <<tableVars, cfg, reloads, worker, countVars>>

\* ... those that the group had before are passed over, the others appended...
AddsMember ==
  LET v == cfg[reload.e].members[reload.m]
      old == \E j \in 1 .. Row.cnt : multi_vm[Row.idx][j] = v
  IN  /\ ReloadAt("list")
      /\ reload.m <= Len(cfg[reload.e].members)
      /\ multi_vm' = IF old THEN multi_vm ELSE [multi_vm EXCEPT ![Row.idx][reload.k + 1] = v]
      /\ reload' = [reload EXCEPT !.m = @ + 1, !.k = IF old THEN @ ELSE @ + 1]
      /\ UNCHANGED <<multi_grp, g_bitmap, cfg, serving, reloads, worker, countVars>>

\* Mutant: those passed over are counted too.
SetsCount_All ==
  /\ ReloadAt("list")
  /\ reload.m > Len(cfg[reload.e].members)
  /\ SetRow([Row EXCEPT !.cnt = @ + Len(cfg[reload.e].members)])
  /\ Entry(cfg, reload.e + 1)
  /\ UNCHANGED <<multi_vm, g_bitmap, cfg, reloads, worker, countVars>>

\* ... and only then counted.
SetsCount ==
  /\ ReloadAt("list")
  /\ reload.m > Len(cfg[reload.e].members)
  /\ SetRow([Row EXCEPT !.cnt = reload.k])
  /\ Entry(cfg, reload.e + 1)
  /\ UNCHANGED <<multi_vm, g_bitmap, cfg, reloads, worker, countVars>>

-----------------------------------------------------------------------------
(* WorkerThread, HandleIncomingData                                        *)

Idle == [pc |-> "idle", pkt |-> CHOOSE p \in Packets : TRUE, row |-> 0, cnt |-> 0, idx |-> 0,
         port |-> 0, list |-> <<>>, ctr |-> "recv", reg |-> 0, next |-> "idle",
         mixed |-> FALSE, during |-> FALSE, want |-> <<>>]

\* x is the worker's state as its next step is to store counter c, which it has read.
Counting(x, c, next) == [x EXCEPT !.pc = "store", !.ctr = c, !.reg = count[c], !.next = next]

\* c++ is a load and a store.
Stores(w) ==
  LET c == worker[w].ctr IN
  /\ At(w, "store")
  /\ count' = [count EXCEPT ![c] = worker[w].reg + 1]
  /\ raced' = (raced \/ count[c] # worker[w].reg)
  /\ worker' = [worker EXCEPT ![w] =
       CASE worker[w].next = "idle" -> Idle
         [] worker[w].next = "find" ->
              [Idle EXCEPT !.pc = "find", !.pkt = worker[w].pkt, !.during = worker[w].during]
         \* What the lookup needed is no longer used.
         [] OTHER -> [Idle EXCEPT !.pc = worker[w].next, !.pkt = worker[w].pkt, !.list = worker[w].list]]
  /\ UNCHANGED <<reloadVars, leaked, real>>

\* recvfrom
Receives(w, p) ==
  /\ serving /\ At(w, "idle")
  /\ real.received < MaxPackets
  /\ real' = [real EXCEPT !.received = @ + 1]
  /\ LET x == [worker[w] EXCEPT !.pkt = p, !.during = ~ReloadAt("rest")] IN
     worker' = [worker EXCEPT ![w] = Counting(x, "recv", "find")]
  /\ UNCHANGED <<reloadVars, count, leaked, raced>>

\* What the configuration has for g: no entry, or its members and port.
EntriesIn(c, g) == FoldLeft(LAMBDA es, e : IF e.ip = g THEN Append(es, e) ELSE es, <<>>, c)
EntryOf(g) == EntriesIn(cfg, g)

FindsNone(w) ==
  LET g == worker[w].pkt.to IN
  /\ At(w, "find")
  /\ RowOf(g) = 0
  /\ real' = [real EXCEPT !.dropped = @ + 1]
  /\ LET x == [worker[w] EXCEPT !.want = EntryOf(g)] IN
     worker' = [worker EXCEPT ![w] = Counting(x, "drop", "idle")]
  /\ UNCHANGED <<reloadVars, count, leaked, raced>>

FindsRow(w) ==
  LET g == worker[w].pkt.to IN
  /\ At(w, "find")
  /\ RowOf(g) # 0
  /\ worker' = [worker EXCEPT ![w].pc = "cnt", ![w].row = RowOf(g), ![w].mixed = FALSE,
                              ![w].want = EntryOf(g)]
  /\ UNCHANGED <<reloadVars, countVars>>

NodeOf(w) == multi_grp[GroupHash[worker[w].pkt.to]][worker[w].row]

\* lookup_multi_node, through the pointer to the row.
ReadsCount(w) ==
  /\ At(w, "cnt")
  /\ worker' = [worker EXCEPT ![w].pc = "idx", ![w].cnt = NodeOf(w).cnt]
  /\ UNCHANGED <<reloadVars, countVars>>

ReadsIndex(w) ==
  /\ At(w, "idx")
  /\ worker' = [worker EXCEPT ![w].pc = "port", ![w].idx = NodeOf(w).idx]
  /\ UNCHANGED <<reloadVars, countVars>>

ReadsPort(w) ==
  /\ At(w, "port")
  /\ worker' = [worker EXCEPT ![w].pc = "copy", ![w].port = NodeOf(w).port]
  /\ UNCHANGED <<reloadVars, countVars>>

\* get_vm_ip_list
Copies(w) ==
  LET x == worker[w] IN
  /\ At(w, "copy")
  /\ worker' = [worker EXCEPT ![w] =
       IF Len(x.list) < x.cnt
       THEN [x EXCEPT !.list = Append(x.list, multi_vm[x.idx][Len(x.list) + 1])]
       ELSE Counting(x, "forward", "send")]
  /\ UNCHANGED <<reloadVars, countVars>>

\* The worker is done with its packet.
Done(w) == worker' = [worker EXCEPT ![w] = Idle]

\* No member is left, or the packet is one that a proxy has rebuilt.
Ends(w) ==
  /\ At(w, "send")
  /\ worker[w].list = <<>> \/ worker[w].pkt.rebuilt
  /\ Done(w)
  /\ UNCHANGED <<reloadVars, countVars>>

\* Mutant: counted before the packet is known to be another one's.
CountsFirst_Rebuilt(w) ==
  /\ At(w, "send")
  /\ worker[w].list # <<>>
  /\ worker' = [worker EXCEPT ![w] =
       Counting(worker[w], "point", IF worker[w].pkt.rebuilt THEN "send" ELSE "socket")]
  /\ UNCHANGED <<reloadVars, countVars>>

\* A copy is counted before it is sent.
CountsFirst(w) ==
  /\ At(w, "send")
  /\ worker[w].list # <<>> /\ ~worker[w].pkt.rebuilt
  /\ worker' = [worker EXCEPT ![w] = Counting(worker[w], "point", "socket")]
  /\ UNCHANGED <<reloadVars, countVars>>

\* sendto, close
Sends(w) ==
  /\ At(w, "socket")
  /\ leaked < FdMax
  /\ worker' = [worker EXCEPT ![w].list = Tail(@), ![w].pc = "send"]
  /\ real' = [real EXCEPT !.sent = @ + 1]
  /\ UNCHANGED <<reloadVars, count, leaked, raced>>

\* Mutant: socket's failure is not looked at.
SendFails_Unchecked(w) ==
  /\ At(w, "socket")
  /\ leaked' = leaked + 1
  /\ real' = [real EXCEPT !.failed = @ + 1]
  /\ Done(w)
  /\ UNCHANGED <<reloadVars, count, raced>>

\* setsockopt or sendto fails: the other members get nothing and the socket stays open.
SendFails(w) ==
  /\ At(w, "socket")
  /\ leaked < FdMax
  /\ leaked' = leaked + 1
  /\ real' = [real EXCEPT !.failed = @ + 1]
  /\ Done(w)
  /\ UNCHANGED <<reloadVars, count, raced>>

\* socket fails once too many have been left open.
NoSocket(w) ==
  /\ At(w, "socket")
  /\ leaked = FdMax
  /\ real' = [real EXCEPT !.failed = @ + 1]
  /\ Done(w)
  /\ UNCHANGED <<reloadVars, count, leaked, raced>>
-----------------------------------------------------------------------------

ForwardInit ==
  /\ multi_grp = [b \in 0 .. GroupBuckets - 1 |-> ZeroRows]
  /\ multi_vm = [i \in 0 .. GrpMax - 1 |-> ZeroList]
  /\ g_bitmap = {}
  /\ reload = [pc |-> "file", bucket |-> 0, e |-> 1, row |-> 1, m |-> 1, k |-> 0]
  /\ cfg = <<>> /\ serving = FALSE
  /\ worker = [w \in Workers |-> Idle]
  /\ count = [c \in Counters |-> 0]
  /\ leaked = 0 /\ reloads = 0
  /\ real = [received |-> 0, dropped |-> 0, sent |-> 0, failed |-> 0]
  /\ raced = FALSE

ReloadSteps ==
  \/ ReloadRequested \/ ClearsRows \/ ClearsLists \/ ReadsFile
  \/ AppendsTo \/ TakesRow \/ SetsPort \/ ChecksLimit \/ AddsMember \/ SetsCount

WorkerSteps(w) ==
  \/ \E p \in Packets : Receives(w, p)
  \/ Stores(w)
  \/ FindsNone(w) \/ FindsRow(w)
  \/ ReadsCount(w) \/ ReadsIndex(w) \/ ReadsPort(w) \/ Copies(w)
  \/ Ends(w) \/ CountsFirst(w) \/ Sends(w) \/ SendFails(w) \/ NoSocket(w)

ForwardNext == ReloadSteps \/ \E w \in Workers : WorkerSteps(w)

ForwardSpec == ForwardInit /\ [][ForwardNext]_forwardVars

-----------------------------------------------------------------------------
(* Properties                                                              *)

ForwardTypeOK ==
  /\ \A b \in DOMAIN multi_grp, i \in 1 .. Depth :
       LET row == multi_grp[b][i] IN
       /\ row.ip \in Groups \cup {Zero} /\ row.idx \in 0 .. GrpMax - 1
       /\ row.cnt \in 0 .. VmMax /\ row.created \in BOOLEAN /\ row.port \in Nat
  /\ multi_vm \in [0 .. GrpMax - 1 -> [1 .. VmMax -> VMs \cup {Zero}]]
  /\ g_bitmap \subseteq 0 .. GrpMax - 1
  /\ reload.row \in 1 .. Depth /\ reload.k \in 0 .. VmMax
  /\ \A w \in Workers :
       /\ worker[w].list \in Seq(VMs \cup {Zero}) /\ Len(worker[w].list) <= VmMax
       /\ worker[w].cnt \in 0 .. VmMax /\ worker[w].idx \in 0 .. GrpMax - 1
  /\ count \in [Counters -> Nat]
  /\ leaked \in 0 .. FdMax

\* A list that a worker has just copied.
Copied(w) == At(w, "store") /\ worker[w].ctr = "forward"

\* The members of a group after its first k entries, of which no later one may make them
\* too many, and the port of the first.
Joined(old, entry) ==
  IF Len(old) + Len(entry.members) > VmMax THEN old
  ELSE FoldLeft(LAMBDA list, v : IF v \in ToSet(old) THEN list ELSE Append(list, v),
                old, entry.members)
HasEntries(w, k) ==
  LET es == worker[w].want IN
  /\ worker[w].list = FoldLeft(Joined, <<>>, SubSeq(es, 1, k))
  /\ worker[w].port = es[1].port

\* A packet that no reload overlaps is dropped only if its group is not configured, and
\* otherwise goes to the group's members at the group's port.
ExactAtRest ==
  \A w \in Workers :
    ~worker[w].during =>
      /\ At(w, "store") /\ worker[w].ctr = "drop" => worker[w].want = <<>>
      /\ Copied(w) => worker[w].want # <<>> /\ HasEntries(w, Len(worker[w].want))

\* A packet that overlaps the filling of the table but not its clearing goes to no member or
\* to all those of the group's first entries, at the right port: rows are published before
\* they are complete, and yet a worker sees no entry's list before it is whole.  Only a
\* clearing between the walk and the end of the copy can send a packet to another group's
\* members, or to 0.0.0.0.
WholeOrNothing ==
  \A w \in Workers :
    Copied(w) /\ ~worker[w].mixed =>
      worker[w].list = <<>> \/ \E k \in DOMAIN worker[w].want : HasEntries(w, k)

\* The statistics add up: while no increment has been lost, every packet is counted as
\* received and then as dropped or forwarded, and every copy sent or failed as transmitted.
\* Lost increments make received and dropped fall behind, never run ahead.
CountersExact ==
  /\ count["recv"] <= real.received /\ count["drop"] <= real.dropped
  /\ (\A w \in Workers : At(w, "idle")) /\ ~raced =>
       /\ count["recv"] = real.received
       /\ count["drop"] = real.dropped
       /\ count["forward"] = real.received - real.dropped
       /\ count["point"] = real.sent + real.failed
=============================================================================
