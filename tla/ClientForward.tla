--------------------------- MODULE ClientForward ---------------------------
(***************************************************************************)
(* Packets through the multicast client: the netfilter hook                *)
(* tmcc_hook_local_in of multic_nf.c on several CPUs, beside the requests  *)
(* of module ClientTable.                                                  *)
(*                                                                         *)
(* The hook takes multi_lock up to three times: to look up the packet's    *)
(* key, to look up the server's key with port 0 if that is not found, and  *)
(* to count the packet in the row where the key was found, if the row      *)
(* still holds the same group.  It counts in the module's rx_packets with  *)
(* a plain `x++' before that.  Bytes are counted with packets and left     *)
(* out, and so is the checksum.                                            *)
(***************************************************************************)
EXTENDS ClientTable, FiniteSetsExt

CONSTANTS
  CPUs,        \* CPUs that receive packets
  AnyPort,     \* AnyPort[k]: the key of k's server with port 0
  MaxPackets   \* bound: packets received in a behaviour

ASSUME ForwardAssumption ==
  /\ IsFiniteSet(CPUs) /\ MaxPackets \in Nat
  /\ AnyPort \in [Keys -> Keys]

VARIABLES
  rx_packets,  \* the module's counter of packets received
  cpu,         \* cpu[c]: where c is in the hook, and the hook's local variables
  arrived,     \* packets the hook has been called for
  rewritten,   \* history: packets given a group's address
  own,         \* history: own[k], those for k's node since it was created
  mixed,       \* history: the keys whose node has taken over another node's counter,
               \* or has been counted a packet looked up before it was created
  overlapped   \* history: two CPUs have been between a load and a store at once

forwardVars == <<clientVars, rx_packets, cpu, arrived, rewritten, own, mixed, overlapped>>

\* A packet at c: its key, then where it was found (key, group, row of the key's bucket);
\* reg, the value of rx_packets loaded; stale, once the node found has been deleted.
NoPacket == [pc |-> "idle", key |-> NoKey, multi_ip |-> NoGroup, depth |-> 0, reg |-> 0,
             stale |-> FALSE]

At(c, p) == cpu' = [cpu EXCEPT ![c] = p]

-----------------------------------------------------------------------------
(* The hook                                                                *)

\* lookup_ip_port_node of k, for a packet that comes to c: the next state of c's packet
\* is Miss, or "found" with the node's group and row.
LookupAt(c, k, Miss) ==
  /\ Lock
  /\ IF Exists(k)
     THEN \E r \in Rows :
            /\ FoundAt(k, r)
            /\ At(c, [NoPacket EXCEPT !.pc = "found", !.key = k, !.depth = r,
                        !.multi_ip = multi_grp[ip_port_hash_key[k]][r].multi_ip])
     ELSE At(c, Miss)

\* A UDP packet from k's server to k's port.
LookupKey(c, k) ==
  /\ cpu[c].pc = "idle"
  /\ arrived < MaxPackets
  /\ LookupAt(c, k, [NoPacket EXCEPT !.pc = "any", !.key = AnyPort[k]])
  /\ arrived' = arrived + 1
  /\ UNCHANGED <<clientVars, rx_packets, rewritten, own, mixed, overlapped>>

\* The second lookup, with port 0; NF_ACCEPT if that fails too.
LookupAnyPort(c) ==
  /\ cpu[c].pc = "any"
  /\ LookupAt(c, cpu[c].key, NoPacket)
  /\ UNCHANGED <<clientVars, rx_packets, arrived, rewritten, own, mixed, overlapped>>

\* The packet's tos is not 0xE0, so no multicast server sent it: NF_ACCEPT.
NotProxied(c) ==
  /\ cpu[c].pc = "found"
  /\ At(c, NoPacket)
  /\ UNCHANGED <<clientVars, rx_packets, arrived, rewritten, own, mixed, overlapped>>

\* Mutant: NF_REPEAT, the hook is called again for the packet.
Rewrite_Repeat(c) ==
  /\ cpu[c].pc = "found"
  /\ At(c, cpu[c])
  /\ rewritten' = rewritten + 1
  /\ UNCHANGED <<clientVars, rx_packets, arrived, own, mixed, overlapped>>

\* The packet gets the group's address, and the load of rx_packets++.
Rewrite(c) ==
  /\ cpu[c].pc = "found"
  /\ At(c, [cpu[c] EXCEPT !.pc = "count", !.reg = rx_packets])
  /\ rewritten' = rewritten + 1
  /\ own' = IF cpu[c].stale THEN own ELSE [own EXCEPT ![cpu[c].key] = @ + 1]
  /\ overlapped' = (overlapped \/ \E d \in CPUs \ {c} : cpu[d].pc = "count")
  /\ UNCHANGED <<clientVars, rx_packets, arrived, mixed>>

\* Mutant: the packet is counted in its row only.
StoreCounter_RowOnly(c) ==
  /\ cpu[c].pc = "count"
  /\ At(c, [cpu[c] EXCEPT !.pc = "stats", !.reg = 0])
  /\ UNCHANGED <<clientVars, rx_packets, arrived, rewritten, own, mixed, overlapped>>

\* The store of rx_packets++.
StoreCounter(c) ==
  /\ cpu[c].pc = "count"
  /\ rx_packets' = cpu[c].reg + 1
  /\ At(c, [cpu[c] EXCEPT !.pc = "stats", !.reg = 0])
  /\ UNCHANGED <<clientVars, arrived, rewritten, own, mixed, overlapped>>

\* multi_client_stats: the row may hold another node by now, or none.
CountInRow(c) ==
  LET p == cpu[c]
      b == ip_port_hash_key[p.key]
      node == multi_grp[b][p.depth]
  IN  /\ p.pc = "stats"
      /\ Lock
      /\ IF node.multi_ip = p.multi_ip
         THEN /\ multi_grp' = [multi_grp EXCEPT ![b][p.depth].rx_packets = @ + 1]
              /\ mixed' = IF p.stale \/ node.key # p.key THEN mixed \cup {node.key} ELSE mixed
         ELSE UNCHANGED <<multi_grp, mixed>>
      /\ At(c, NoPacket)
      /\ UNCHANGED <<node_cnt, adding, spinning, ret, rx_packets, arrived, rewritten, own,
                     overlapped>>

HookStep(c) ==
  \/ \E k \in Keys : LookupKey(c, k)
  \/ LookupAnyPort(c)
  \/ NotProxied(c)
  \/ Rewrite(c)
  \/ StoreCounter(c)
  \/ CountInRow(c)

-----------------------------------------------------------------------------
(* The requests                                                            *)

KeyAt(b, r) == multi_grp[b][r].key
KeysIn(table) == {k \in Keys : \E b \in Buckets, r \in Rows : table[b][r].key = k}

\* The keys that del_multi_node moves to another row.
MovedKeys ==
  {k \in Keys : \E b \in Buckets, q, r \in Rows :
                  q # r /\ multi_grp[b][q].key = k /\ multi_grp'[b][r].key = k}

\* A netlink request, with the history of the nodes it creates, moves and deletes.
Request ==
  /\ ClientNext
  /\ LET new == KeysIn(multi_grp') \ KeysIn(multi_grp)
         gone == KeysIn(multi_grp) \ KeysIn(multi_grp')
     IN  /\ own' = [k \in Keys |-> IF k \in new THEN 0 ELSE own[k]]
         /\ mixed' = (mixed \ new) \cup MovedKeys
         /\ cpu' = [c \in CPUs |-> [cpu[c] EXCEPT !.stale =
                       @ \/ (cpu[c].pc \in {"found", "count", "stats"} /\ cpu[c].key \in gone)]]
  /\ UNCHANGED <<rx_packets, arrived, rewritten, overlapped>>

-----------------------------------------------------------------------------
ForwardInit ==
  /\ ClientInit
  /\ rx_packets = 0
  /\ cpu = [c \in CPUs |-> NoPacket]
  /\ arrived = 0
  /\ rewritten = 0
  /\ own = [k \in Keys |-> 0]
  /\ mixed = {}
  /\ overlapped = FALSE

ForwardNext ==
  \/ Request
  \/ \E c \in CPUs : HookStep(c)

ForwardSpec == ForwardInit /\ [][ForwardNext]_forwardVars

-----------------------------------------------------------------------------
(* Properties                                                              *)

ForwardTypeOK ==
  /\ rx_packets \in 0 .. arrived
  /\ cpu \in [CPUs -> [pc : {"idle", "any", "found", "count", "stats"},
                       key : Keys \cup {NoKey}, multi_ip : Groups \cup {NoGroup},
                       depth : Rows, reg : Nat, stale : BOOLEAN]]
  /\ arrived \in 0 .. MaxPackets
  /\ rewritten \in 0 .. arrived
  /\ own \in [Keys -> 0 .. rewritten]
  /\ mixed \subseteq Keys
  /\ overlapped \in BOOLEAN

\* Packets counted for the nodes that exist.
NodePackets ==
  MapThenSumSet(LAMBDA br : multi_grp[br[1]][br[2]].rx_packets, CreatedRows)

\* The nodes' counters never add up to more than the module's own, which `multic_admin -P'
\* prints as the total, however requests move and delete nodes under the packets on their
\* way; unless two CPUs have counted at once and lost a packet of the total.  The total
\* itself never exceeds the packets rewritten.
TotalCoversNodes ==
  /\ rx_packets <= rewritten
  /\ ~overlapped => NodePackets <= rx_packets

\* What get_multi_packets_stats answers for k.
PacketsOf(k) ==
  multi_grp[ip_port_hash_key[k]][CHOOSE r \in Rows : FoundAt(k, r)].rx_packets

\* While a node exists, the count of its packets does not go down.  The comment of
\* del_multi_node, "if node exsit, need move to this delete node position", says that the
\* node is moved; its counters stay behind.
CountersNeverDrop ==
  [][\A k \in KeysIn(multi_grp) \cap KeysIn(multi_grp') :
       PacketsOf(k) <= PacketsOf(k)']_forwardVars

\* A node counts its own packets only, those of its key since it was created, unless it
\* was moved, or took a packet that had been looked up for another node with the same
\* group in the same row.  A node created in a row that was used before starts from zero.
CountsOwnUnlessMixed ==
  \A br \in CreatedRows :
    LET node == multi_grp[br[1]][br[2]] IN
    node.key \notin mixed => node.rx_packets <= own[node.key]
=============================================================================
