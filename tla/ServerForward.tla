--------------------------- MODULE ServerForward ---------------------------
(***************************************************************************)
(* Packets through the multicast server: the netfilter hook                *)
(* tmcs_hook_local_out of multis_nf.c on several CPUs, beside the requests *)
(* of module ServerTable.                                                  *)
(*                                                                         *)
(* The hook takes multi_lock only in lookup_multi_node.  It goes on with a *)
(* copy of the member list and of the node's index, while requests change  *)
(* the table, and it counts with plain `x++' on shared words: a load and a *)
(* store, with other CPUs in between.  ip_local_out sends each copy        *)
(* through the same hook once more.  Bytes are counted with packets and    *)
(* left out; so are the header fields that the hook rewrites.              *)
(***************************************************************************)
EXTENDS ServerTable

CONSTANTS
  CPUs,        \* CPUs that send packets
  MaxPackets   \* bound: packets sent in a behaviour

ASSUME ForwardAssumption ==
  /\ IsFiniteSet(CPUs) /\ MaxPackets \in Nat
  /\ Groups \cap VMs = {}  \* a copy's address is no group's: see README

VARIABLES
  counter,     \* the module's global counters
  cpu,         \* cpu[c]: where c is in the hook, and the hook's local variables
  arrived,     \* packets the hook has been called for
  outputs,     \* history: copies handed to ip_local_out
  outputsOf,   \* history: outputsOf[i], those for the group that now owns index i
  strayed,     \* history: strayed[i], a packet of an earlier owner was counted under i
  overlapped   \* history: two CPUs have been between a load and a store at once

forwardVars == <<tableVars, counter, cpu, arrived, outputs, outputsOf, strayed, overlapped>>

Counters == {"no_multi_grp_pkt_drop_count", "no_vm_ip_list_pkt_drop_count",
             "route_fail_drop_count", "no_mem_drop_count", "tx_packets"}

\* A packet at c: the node's index and the copy of its member list, not yet served;
\* the count under way (the counter, the value loaded, and what comes after the store);
\* stale, once the index has been given back.
Idle == [pc |-> "idle", idx |-> 0, left |-> {}, what |-> "", reg |-> 0, then |-> "idle",
         stale |-> FALSE]

\* p between the load and the store of `x++' on a global counter.
Counting(p, name, then) ==
  [p EXCEPT !.pc = "count", !.what = name, !.reg = counter[name], !.then = then]

Busy(p) == p.pc \in {"count", "stats"}

\* p has found a group, and holds its index.
HoldsIndex(p) == p.pc \in {"copy", "stats"} \/ (p.pc = "count" /\ p.then # "idle")

At(c, p) ==
  /\ cpu' = [cpu EXCEPT ![c] = p]
  /\ overlapped' = (overlapped \/ (Busy(p) /\ \E d \in CPUs \ {c} : Busy(cpu[d])))

-----------------------------------------------------------------------------
(* The hook                                                                *)

\* The hook is called for a UDP packet, and takes the lock to look it up.
Arrives(c) ==
  /\ cpu[c].pc = "idle"
  /\ arrived < MaxPackets
  /\ Lock
  /\ arrived' = arrived + 1
  /\ UNCHANGED <<tableVars, counter, outputs, outputsOf, strayed>>

\* lookup_multi_node does not find g.
NoGroupFor(c, g) ==
  /\ Arrives(c)
  /\ ~Exists(g)
  /\ At(c, Counting(Idle, "no_multi_grp_pkt_drop_count", "idle"))

\* lookup_multi_node finds g in row r, and copies the index and the list.
MembersFor(c, g) ==
  \E r \in Rows :
    LET node == multi_grp[mulit_hash_key[g]][r] IN
    /\ Arrives(c)
    /\ FoundAt(g, r)
    /\ At(c, IF node.multi_member_cnt = 0
             THEN Counting(Idle, "no_vm_ip_list_pkt_drop_count", "idle")
             ELSE [Idle EXCEPT !.pc = "copy", !.idx = node.multi_grp_idx,
                               !.left = multi_vm[node.multi_grp_idx]])

\* One turn of the loop takes the next member v; the rest is left.
Turn(c, v) == /\ cpu[c].pc = "copy" /\ v \in cpu[c].left

Rest(c, v) == [cpu[c] EXCEPT !.left = @ \ {v}]

\* skb_copy fails.
NoMemory(c, v) ==
  /\ Turn(c, v)
  /\ At(c, Counting(Rest(c, v), "no_mem_drop_count", "copy"))
  /\ UNCHANGED <<tableVars, counter, arrived, outputs, outputsOf, strayed>>

\* skb_header_pointer finds no UDP header: the copy is forgotten, counted nowhere.
NoHeader(c, v) ==
  /\ Turn(c, v)
  /\ At(c, Rest(c, v))
  /\ UNCHANGED <<tableVars, counter, arrived, outputs, outputsOf, strayed>>

\* Mutants: the failure is retried without end; it goes on to count the copy as sent.
NoRoute_Retry(c, v) ==
  /\ Turn(c, v)
  /\ At(c, Counting(cpu[c], "route_fail_drop_count", "copy"))
  /\ UNCHANGED <<tableVars, counter, arrived, outputs, outputsOf, strayed>>
NoRoute_Counted(c, v) ==
  /\ Turn(c, v)
  /\ At(c, Counting(Rest(c, v), "route_fail_drop_count", "tx"))
  /\ UNCHANGED <<tableVars, counter, arrived, outputs, outputsOf, strayed>>

\* ip_route_me_harder fails.
NoRoute(c, v) ==
  /\ Turn(c, v)
  /\ At(c, Counting(Rest(c, v), "route_fail_drop_count", "copy"))
  /\ UNCHANGED <<tableVars, counter, arrived, outputs, outputsOf, strayed>>

\* ip_local_out calls the hook for the copy, which looks the member's address up, finds
\* no group and counts that; the copy leaves.
Output(c, v) ==
  /\ Turn(c, v)
  /\ Lock
  /\ At(c, Counting(Rest(c, v), "no_multi_grp_pkt_drop_count", "tx"))
  /\ outputs' = outputs + 1
  /\ outputsOf' = IF cpu[c].stale THEN outputsOf
                  ELSE [outputsOf EXCEPT ![cpu[c].idx] = @ + 1]
  /\ UNCHANGED <<tableVars, counter, arrived, strayed>>

\* What follows a count, with the load of the next one.
AfterCount(c, p) ==
  CASE p.then = "idle"  -> Idle
    [] p.then = "copy"  -> [p EXCEPT !.pc = "copy", !.what = "", !.reg = 0, !.then = "idle"]
    [] p.then = "tx"    -> Counting(p, "tx_packets", "stats")
    [] p.then = "stats" -> [p EXCEPT !.pc = "stats", !.what = "", !.reg = multi_stats[p.idx],
                                     !.then = "copy"]

\* The store of `x++' on a global counter.
StoreCounter(c) ==
  /\ cpu[c].pc = "count"
  /\ counter' = [counter EXCEPT ![cpu[c].what] = cpu[c].reg + 1]
  /\ At(c, AfterCount(c, cpu[c]))
  /\ UNCHANGED <<tableVars, arrived, outputs, outputsOf, strayed>>

\* The store of multi_grp_stats, taken without the lock, by an index that may have a new
\* owner.
StoreStats(c) ==
  /\ cpu[c].pc = "stats"
  /\ multi_stats' = [multi_stats EXCEPT ![cpu[c].idx] = cpu[c].reg + 1]
  /\ At(c, AfterCount(c, cpu[c]))
  /\ strayed' = IF cpu[c].stale THEN [strayed EXCEPT ![cpu[c].idx] = TRUE] ELSE strayed
  /\ UNCHANGED <<multi_grp, bitmap, multi_vm, spinning, ret, counter, arrived, outputs, outputsOf>>

\* Every member has been served: NF_ACCEPT.
HookReturns(c) ==
  /\ cpu[c].pc = "copy" /\ cpu[c].left = {}
  /\ At(c, Idle)
  /\ UNCHANGED <<tableVars, counter, arrived, outputs, outputsOf, strayed>>

\* A step of the hook on c, once the packet has been looked up.
HookStep(c) ==
  \/ \E v \in VMs :
       \/ NoMemory(c, v)
       \/ NoHeader(c, v)
       \/ NoRoute(c, v)
       \/ Output(c, v)
  \/ StoreCounter(c)
  \/ StoreStats(c)
  \/ HookReturns(c)

\* A netlink request, with the history of the indexes it gives back or hands out.
Request ==
  /\ Next
  /\ cpu' = [c \in CPUs |->
               [cpu[c] EXCEPT !.stale = @ \/ (HoldsIndex(cpu[c]) /\ cpu[c].idx \in bitmap \ bitmap')]]
  /\ outputsOf' = [i \in Indexes |-> IF i \in bitmap' \ bitmap THEN 0 ELSE outputsOf[i]]
  /\ strayed' = [i \in Indexes |-> IF i \in bitmap' \ bitmap THEN FALSE ELSE strayed[i]]
  /\ UNCHANGED <<counter, arrived, outputs, overlapped>>

-----------------------------------------------------------------------------
ForwardInit ==
  /\ Init
  /\ counter = [name \in Counters |-> 0]
  /\ cpu = [c \in CPUs |-> Idle]
  /\ arrived = 0
  /\ outputs = 0
  /\ outputsOf = [i \in Indexes |-> 0]
  /\ strayed = [i \in Indexes |-> FALSE]
  /\ overlapped = FALSE

ForwardNext ==
  \/ Request
  \/ \E c \in CPUs :
       \/ \E g \in Groups : NoGroupFor(c, g) \/ MembersFor(c, g)
       \/ HookStep(c)

ForwardSpec == ForwardInit /\ [][ForwardNext]_forwardVars

-----------------------------------------------------------------------------
(* Properties                                                              *)

\* At most one count per member and one per packet and per copy: a packet is served once.
ForwardTypeOK ==
  /\ counter \in [Counters -> 0 .. arrived * (VmMax + 1)]
  /\ cpu \in [CPUs -> [pc : {"idle", "copy", "count", "stats"}, idx : Indexes,
                       left : SUBSET VMs, what : Counters \cup {""}, reg : Nat,
                       then : {"idle", "copy", "tx", "stats"}, stale : BOOLEAN]]
  /\ arrived \in 0 .. MaxPackets
  /\ outputs \in 0 .. arrived * VmMax
  /\ outputsOf \in [Indexes -> 0 .. outputs]
  /\ strayed \in [Indexes -> BOOLEAN]
  /\ overlapped \in BOOLEAN

\* However the loads and stores of the CPUs interleave, tx_packets never exceeds the
\* copies handed to ip_local_out: counts get lost, none is invented.  They get lost only
\* when two CPUs count at once: otherwise, when no packet is under way, tx_packets is exact,
\* whatever failed and whatever the requests did.
ExactUnlessOverlapped ==
  /\ counter["tx_packets"] <= outputs
  /\ ~overlapped /\ (\A c \in CPUs : cpu[c].pc = "idle") => counter["tx_packets"] = outputs

\* multi_grp_stats counts under an index, without the lock, for packets looked up before:
\* a group's count is never more than its own copies since it was created, unless a packet
\* of the index's former owner was still under way.  A new group does not inherit a count.
CountsOwnCopies ==
  \A b \in Buckets, r \in Rows :
    Created(b, r) /\ ~strayed[IdxAt(b, r)] => multi_stats[IdxAt(b, r)] <= outputsOf[IdxAt(b, r)]
=============================================================================
