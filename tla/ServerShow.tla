----------------------------- MODULE ServerShow -----------------------------
(***************************************************************************)
(* LIST and SHOW beside the other requests of ServerTable.  Both fill one  *)
(* static reply, k_service of multis_nl.c, and copy it to their sender     *)
(* afterwards.  LIST fills it under multi_lock; SHOW (get_all_multi_grp)   *)
(* walks the buckets without the lock.                                     *)
(*                                                                         *)
(* Requests that change the table are one step, although SHOW can see them *)
(* half done: a deletion writes the moved row before it frees the old one. *)
(* What SHOW finds in a bucket that loses a row meanwhile is left open; an *)
(* addition takes effect for SHOW with its one store to `created'.         *)
(***************************************************************************)
EXTENDS ServerTable, SequencesExt

CONSTANTS
  Readers,   \* senders of LIST and SHOW
  MaxBeside  \* bound: requests that change the table beside one of theirs

ASSUME ShowAssumption ==
  /\ IsFiniteSet(Buckets) /\ Buckets # {} /\ Buckets = 0 .. Cardinality(Buckets) - 1
  /\ MaxBeside \in Nat

VARIABLES
  k_service,  \* the reply: ret, multi_ip, ip_num and ip_list
  reader      \* where each reader is, and its locals, answer and history

showVars == <<tableVars, k_service, reader>>

Listed == {g \in Groups : Exists(g)}

\* k is what ip_num becomes.  History of a request: `want', the members when it had the
\* lock; `there', the groups when it began, and `seen', those there since; `lost', the
\* buckets that have lost a row; whose answers are `mixed' into its own.
Absent == [pc |-> "idle", cmd |-> "show", g |-> NoGroup, b |-> 0, j |-> 0, k |-> 0, ret |-> "ok",
           want |-> {}, there |-> {}, seen |-> {}, lost |-> {}, changes |-> 0, mixed |-> "none"]

ReaderAt(p, pc) == reader[p].pc = pc
Active == {p \in Readers : ~ReaderAt(p, "idle")}

\* What mixes with what: SHOWs of an unchanged table, or anything else.
Mixture(r) ==
  IF r.cmd = "show" /\ \A q \in Active :
       reader[q].cmd = "show" /\ reader[q].changes = 0 /\ reader[q].mixed # "any"
  THEN "shows" ELSE "any"

\* p begins as r, and uses k_service like the others that are active.
Begins(p, r) ==
  LET mixture == Mixture(r) IN
  /\ ReaderAt(p, "idle")
  /\ k_service' = [k_service EXCEPT !.ip_num = 0]
  /\ reader' = [q \in Readers |->
       IF q = p THEN [r EXCEPT !.mixed = IF Active = {} THEN "none" ELSE mixture]
       ELSE IF q \in Active THEN [reader[q] EXCEPT !.mixed = mixture] ELSE reader[q]]
  /\ UNCHANGED tableVars

-----------------------------------------------------------------------------
(* multi_nl_grp_show, get_all_multi_grp                                    *)

ShowBegins(p) == Begins(p, [Absent EXCEPT !.pc = "row", !.there = Listed, !.seen = Listed])

\* Mutant: the first bucket without a group ends the walk.
NextBucket_Breaks(p) ==
  IF reader[p].b + 1 \in Buckets /\ reader[p].j > 0
  THEN reader' = [reader EXCEPT ![p].b = @ + 1, ![p].j = 0]
  ELSE reader' = [reader EXCEPT ![p].pc = "num"]

NextBucket(p) ==
  IF reader[p].b + 1 \in Buckets
  THEN reader' = [reader EXCEPT ![p].b = @ + 1, ![p].j = 0]
  ELSE reader' = [reader EXCEPT ![p].pc = "num"]

\* A created row is listed, ip_list[k++]: behind ip_list, which has MULTI_VM_MAX entries,
\* memory is overwritten.  At the first row that is not created the walk leaves the bucket.
ReadsRow(p) ==
  LET r == reader[p]
      listing == r.j \in Rows /\ multi_grp[r.b][r.j].created = 1
  IN  /\ ReaderAt(p, "row")
      /\ IF listing
         THEN reader' = [reader EXCEPT ![p].j = @ + 1, ![p].k = @ + 1] ELSE NextBucket(p)
      /\ k_service' = IF listing /\ r.k < VmMax
                      THEN [k_service EXCEPT !.ip_list[r.k] = multi_grp[r.b][r.j].multi_ip]
                      ELSE k_service
      /\ UNCHANGED tableVars

SetsIpNum(p) ==
  /\ ReaderAt(p, "num")
  /\ k_service' = [k_service EXCEPT !.ip_num = reader[p].k]
  /\ reader' = [reader EXCEPT ![p].pc = "ret", ![p].b = 0, ![p].j = 0]
  /\ UNCHANGED tableVars

-----------------------------------------------------------------------------
(* multi_nl_vm_list_get, list_multi_node_and_vm_ip                         *)

ListBegins(p, g) == Begins(p, [Absent EXCEPT !.pc = "list", !.cmd = "list", !.g = g])

ListsGroup(p) ==
  LET g == reader[p].g
      list == SetToSeq(Members(g))
  IN  /\ ReaderAt(p, "list") /\ Lock
      /\ Exists(g)
      /\ k_service' = [k_service EXCEPT !.ip_num = Len(list), !.multi_ip = g,
                         !.ip_list = [i \in DOMAIN @ |-> IF i < Len(list) THEN list[i + 1] ELSE @[i]]]
      /\ reader' = [reader EXCEPT ![p].pc = "ret", ![p].want = Members(g)]
      /\ UNCHANGED tableVars

ListMissing(p) ==
  /\ ReaderAt(p, "list") /\ Lock
  /\ ~Exists(reader[p].g)
  /\ reader' = [reader EXCEPT ![p].pc = "ret", ![p].ret = "MULTI_NODE_NOT_EXSIT"]
  /\ UNCHANGED <<tableVars, k_service>>

-----------------------------------------------------------------------------
(* Both: k_service.ret, copy_to_user                                       *)

SetsRet(p) ==
  /\ ReaderAt(p, "ret")
  /\ k_service' = [k_service EXCEPT !.ret = reader[p].ret]
  /\ reader' = [reader EXCEPT ![p].pc = "copy"]
  /\ UNCHANGED tableVars

\* What p's sender prints: ip_num entries of the list.
Printed == [i \in 1 .. (IF k_service.ip_num < VmMax THEN k_service.ip_num ELSE VmMax) |->
              k_service.ip_list[i - 1]]

\* A copy cut in two by another reader is mixed with its answer like any other.
Copies(p) ==
  /\ ReaderAt(p, "copy")
  /\ reader' = [reader EXCEPT ![p] = Absent]
  /\ UNCHANGED <<tableVars, k_service>>

-----------------------------------------------------------------------------
(* Another request, and what the readers under way make of it              *)

LosesRow(b) == \E r \in Rows : Created(b, r) /\ multi_grp'[b][r].multi_ip # multi_grp[b][r].multi_ip

Watched(r) ==
  LET lost == {b \in Buckets : LosesRow(b)} IN
  IF UNCHANGED <<multi_grp, multi_vm>> THEN r ELSE
  [r EXCEPT !.changes = @ + 1, !.lost = @ \cup lost,
            !.seen = IF r.cmd = "show" THEN @ \cup Listed' ELSE @,
            !.mixed = IF @ = "none" THEN "none" ELSE "any"]

\* Once answers are mixed it no longer matters what requests do beside them.
OtherRequest ==
  /\ \A p \in Active : reader[p].changes < MaxBeside /\ reader[p].mixed # "any"
  /\ Next
  /\ reader' = [p \in Readers |-> IF p \in Active THEN Watched(reader[p]) ELSE reader[p]]
  /\ UNCHANGED k_service
-----------------------------------------------------------------------------

ShowInit ==
  /\ Init
  /\ k_service = [ret |-> "ok", multi_ip |-> NoGroup, ip_num |-> 0,
                  ip_list |-> [i \in 0 .. VmMax - 1 |-> NoGroup]]
  /\ reader = [p \in Readers |-> Absent]

ReaderSteps(p) ==
  \/ ShowBegins(p) \/ ReadsRow(p) \/ SetsIpNum(p)
  \/ \E g \in Groups : ListBegins(p, g)
  \/ ListsGroup(p) \/ ListMissing(p)
  \/ SetsRet(p) \/ Copies(p)

ShowNext == OtherRequest \/ \E p \in Readers : ReaderSteps(p)

ShowSpec == ShowInit /\ [][ShowNext]_showVars

-----------------------------------------------------------------------------
(* Properties                                                              *)

Times(x, s) == Cardinality({i \in DOMAIN s : s[i] = x})

\* A SHOW that no other reader overlaps lists, once each, the groups that are there all the
\* time, and never one that is not there at any moment, whatever requests do beside it,
\* except in buckets that lose a row and where the list overruns.  SHOWs that overlap on an
\* unchanged table get all groups or, when the other has just set ip_num to 0, none.  A LIST
\* on its own gets the members of the moment when it had the lock.
AnswersTrue ==
  \A p \in Readers :
    LET r == reader[p] IN
    ReaderAt(p, "copy") =>
      /\ r.cmd = "show" /\ r.mixed = "none" /\ k_service.ip_num <= VmMax =>
           \A g \in Groups :
             mulit_hash_key[g] \notin r.lost =>
               /\ Times(g, Printed) <= 1
               /\ g \in r.there => Times(g, Printed) = 1
               /\ g \notin r.seen => Times(g, Printed) = 0
      /\ r.cmd = "show" /\ r.mixed = "shows" /\ k_service.ip_num > 0 =>
           ToSet(Printed) = r.there /\ Len(Printed) = Cardinality(r.there)
      /\ r.cmd = "list" /\ r.mixed = "none" =>
           /\ ToSet(Printed) = r.want /\ Len(Printed) = Cardinality(r.want)
           /\ k_service.ret = "ok" => k_service.multi_ip = r.g
=============================================================================
