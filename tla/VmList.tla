------------------------------- MODULE VmList -------------------------------
(***************************************************************************)
(* The loops of multi_server/kmod/multis_grp.c over one member list: an    *)
(* array of which the first cnt entries are in use.  ServerTable keeps a   *)
(* list as the set of these entries; MCServerTable has TLC compare the two *)
(* on every list and request of a small size.                              *)
(***************************************************************************)
EXTENDS Naturals, Sequences, FiniteSets, SequencesExt

CONSTANTS
  Addresses,  \* of members
  NoAddress,  \* 0, in an entry not in use
  MaxLen      \* MULTI_VM_MAX

Entries == 0 .. MaxLen - 1

\* A list: its array and multi_member_cnt.
Lists == [ips : [Entries -> Addresses \cup {NoAddress}], cnt : 0 .. MaxLen]

\* clear_vm_ip_list, and multi_member_cnt = 0
EmptyList == [ips |-> [j \in Entries |-> NoAddress], cnt |-> 0]

\* The lists parse_service can send: nothing twice, no more than MULTI_VM_MAX.
IpLists == UNION {Injection(1 .. n, Addresses) : n \in 0 .. MaxLen}

Accepts(L, ip_list) == Len(ip_list) + L.cnt <= MaxLen

\* add_vm_ip_list: what the list held at the start is not added again; cnt is stored
\* once, at the end.
AddLoop(L, ip_list) ==
  LET Visit(acc, ip) ==
        IF \E j \in Entries : j < L.cnt /\ acc.ips[j] = ip
        THEN acc
        ELSE [ips |-> [acc.ips EXCEPT ![acc.cnt] = ip], cnt |-> acc.cnt + 1]
  IN  FoldLeft(Visit, L, ip_list)

\* del_quit_vm_ip: the last entry moves into the place of one that quits.
QuitLoop(L, ip_list) ==
  LET Visit(acc, ip) ==
        LET found == {j \in Entries : j < acc.cnt /\ acc.ips[j] = ip} IN
        IF found = {}
        THEN acc
        ELSE LET j == Min(found)
                 last == acc.cnt - 1
             IN  [ips |-> [acc.ips EXCEPT ![j] = acc.ips[last], ![last] = NoAddress],
                  cnt |-> last]
  IN  FoldLeft(Visit, L, ip_list)

\* get_vm_ip_list copies the first cnt entries.
MembersOf(L) == {L.ips[j] : j \in {k \in Entries : k < L.cnt}}

-----------------------------------------------------------------------------
(* Against sets                                                            *)

\* A list as requests leave it: nothing twice in the entries in use, nothing after them.
WellFormed(L) ==
  /\ Cardinality(MembersOf(L)) = L.cnt
  /\ NoAddress \notin MembersOf(L)
  /\ \A j \in Entries : L.cnt <= j => L.ips[j] = NoAddress

\* The loops compute unions and differences of sets and count them rightly, whatever the
\* order of the entries and of the request, and leave nothing after the last entry.
LoopsComputeSets ==
  \A L \in {K \in Lists : WellFormed(K)}, ip_list \in IpLists :
    /\ Accepts(L, ip_list) =>
         /\ WellFormed(AddLoop(L, ip_list))
         /\ MembersOf(AddLoop(L, ip_list)) = MembersOf(L) \cup Range(ip_list)
    /\ WellFormed(QuitLoop(L, ip_list))
    /\ MembersOf(QuitLoop(L, ip_list)) = MembersOf(L) \ Range(ip_list)
=============================================================================
