---------------------------- MODULE LinuxClient ----------------------------
(***************************************************************************)
(* The Linux userland client proxy: multic_admin and the reload tool, the  *)
(* configuration file, the thread that loads the table from it, and the    *)
(* worker threads that find in the table the group to which they send a    *)
(* packet on.  Nothing is locked, neither the file nor the table.          *)
(*                                                                         *)
(* A worker only reads the table.  What it does with a packet after the    *)
(* lookup, and the counters, are left out: no other thread acts on them.   *)
(***************************************************************************)
EXTENDS Integers, SequencesExt

CONSTANTS
  Servers, GroupPorts, ServerPorts, MultiIps,
  NodeBuckets,     \* MULTI_GRP_BUCKET
  NodeDepth,       \* MULTI_GRP_DEPTH, which the uint8_t row counter never reaches
  ip_port_hash_key,
  NoAddress,       \* the address in zeroed memory
  Cut,             \* a file that is missing or cut off
  ClientFiles,     \* contents of CLIENT_CFG to begin with
  Additions, Deletions,  \* arguments of -A and -D
  ClientTools, Receivers,
  MaxCommands      \* bound

ClientEntries == [server : Servers, gport : GroupPorts, sport : ServerPorts, ip : MultiIps]
Keys == [server : Servers, sport : ServerPorts]

ASSUME ClientAssumption ==
  /\ ServerPorts \subseteq Nat /\ GroupPorts \subseteq Nat
  /\ NodeBuckets \in Nat \ {0} /\ NodeDepth \in Nat \ {0}
  /\ ip_port_hash_key \in [Keys -> 0 .. NodeBuckets - 1]
  /\ NoAddress \notin Servers \cup MultiIps
  /\ Cut \notin ClientFiles
  /\ \A f \in ClientFiles : f \in Seq(ClientEntries)
  /\ Additions \subseteq ClientEntries
  /\ Deletions \subseteq [server : Servers, gport : GroupPorts]
  /\ MaxCommands \in Nat

VARIABLES
  client_cfg,  \* CLIENT_CFG
  tool,        \* where each command is, and what it will write
  commands,
  node,        \* multi_grp: the rows of each bucket
  loader,      \* where entry() or the reload thread is, and its locals
  listening,   \* the reload thread takes connections
  queued,      \* connections it has not accepted yet
  receiving,   \* the workers have been created
  receiver,    \* where each worker is, and its locals
  missed       \* history: the proxy was not told of a change, and has not read it since

fileVars == <<client_cfg, tool, commands>>
proxyVars == <<node, loader, listening, queued, receiving, receiver>>
clientVars == <<fileVars, proxyVars, missed>>

KeyOf(e) == [server |-> e.server, sport |-> e.sport]
ZeroNode == [created |-> FALSE, key |-> [server |-> NoAddress, sport |-> 0],
             ip |-> NoAddress, gport |-> 0]
ZeroNodes == [r \in 1 .. NodeDepth |-> ZeroNode]

-----------------------------------------------------------------------------
(* multic_admin                                                            *)

ToolAt(t, pc) == tool[t].pc = pc
ToolGoes(t, pc) == tool' = [tool EXCEPT ![t].pc = pc]

\* The tool has read the file, and what it will write is in memory.
Rewrites(t, content) ==
  /\ ToolAt(t, "idle")
  /\ commands < MaxCommands /\ commands' = commands + 1
  /\ tool' = [tool EXCEPT ![t] = [pc |-> "open", content |-> content]]
  /\ UNCHANGED <<client_cfg, proxyVars, missed>>

\* The command leaves the file alone, and has the proxy reload it all the same.
LeavesFile(t) ==
  /\ ToolAt(t, "idle")
  /\ commands < MaxCommands /\ commands' = commands + 1
  /\ ToolGoes(t, "ask")
  /\ UNCHANGED <<client_cfg, proxyVars, missed>>

\* json_add_grp_node appends unless ALL the entries are of the same server and group port.
Adds(t, e) ==
  LET f == IF client_cfg = Cut THEN <<>> ELSE client_cfg
      other(i) == f[i].server # e.server \/ f[i].gport # e.gport
  IN  IF f = <<>> \/ \E i \in DOMAIN f : other(i)
      THEN Rewrites(t, Append(f, e)) ELSE LeavesFile(t)

\* json_del_grp_node copies the entries that stay into a new array.
Without(f, d) ==
  FoldLeft(LAMBDA kept, e : IF e.server = d.server /\ e.gport = d.gport
                            THEN kept ELSE Append(kept, e), <<>>, f)

Deletes(t, d) ==
  IF client_cfg = Cut THEN LeavesFile(t) ELSE Rewrites(t, Without(client_cfg, d))

\* json_clear_grp_node
Clears(t) == IF client_cfg = Cut THEN LeavesFile(t) ELSE Rewrites(t, <<>>)

\* json_object_to_file: O_TRUNC...
Opens(t) ==
  /\ ToolAt(t, "open") /\ ToolGoes(t, "write")
  /\ client_cfg' = Cut
  /\ UNCHANGED <<commands, proxyVars, missed>>

\* ... and write.
Writes(t) ==
  /\ ToolAt(t, "write") /\ ToolGoes(t, "ask")
  /\ client_cfg' = tool[t].content
  /\ UNCHANGED <<commands, proxyVars, missed>>

Running == loader.pc # "off"

\* reload_json_file, and the reload tool: connect fails where nobody listens.
Asks(t) ==
  /\ ToolAt(t, "ask") /\ ToolGoes(t, "idle")
  /\ IF listening THEN queued' = queued + 1 /\ UNCHANGED missed
     ELSE missed' = (missed \/ Running) /\ UNCHANGED queued
  /\ UNCHANGED <<client_cfg, commands, node, loader, listening, receiving, receiver>>

\* The command is killed.
ClientToolDies(t) ==
  /\ ~ToolAt(t, "idle") /\ ToolGoes(t, "idle")
  /\ missed' = TRUE
  /\ UNCHANGED <<client_cfg, commands, proxyVars>>

-----------------------------------------------------------------------------
(* entry, cfg_init and the reload thread                                   *)

LoaderAt(pc) == loader.pc = pc
LoaderGoes(pc) == loader' = [loader EXCEPT !.pc = pc]
Still == [pc |-> "idle", key |-> [server |-> NoAddress, sport |-> 0], row |-> 0,
          ip |-> NoAddress, gport |-> 0, mixed |-> FALSE, want |-> {}]

\* multic_admin -R
Starts ==
  /\ LoaderAt("off")
  /\ loader' = [loader EXCEPT !.pc = "rows", !.bucket = 0]
  /\ node' = [b \in DOMAIN node |-> ZeroNodes]
  /\ UNCHANGED <<fileVars, listening, queued, receiving, receiver, missed>>

\* The process ends; connections that were waiting are reset.
Off ==
  /\ loader' = [pc |-> "off", cfg |-> <<>>, bucket |-> 0, e |-> 1, row |-> 1]
  /\ listening' = FALSE /\ queued' = 0
  /\ receiving' = FALSE /\ receiver' = [w \in Receivers |-> Still]
  /\ UNCHANGED <<fileVars, node, missed>>

\* shutClient.sh, or entry finds no socket, no device or no tun device.
Stops == Running /\ Off

\* Rows that a worker is at change under it.
Mixes == receiver' = [w \in Receivers |-> [receiver[w] EXCEPT !.mixed = receiver[w].pc # "idle"]]

\* Mutant: the reload does not clear the table.
ClearsNodes_None ==
  /\ LoaderAt("rows")
  /\ LoaderGoes("file")
  /\ UNCHANGED <<fileVars, node, listening, queued, receiving, receiver, missed>>

\* multi_node_init, bucket by bucket
ClearsNodes ==
  /\ LoaderAt("rows")
  /\ node' = [node EXCEPT ![loader.bucket] = ZeroNodes]
  /\ loader' = IF loader.bucket + 1 < NodeBuckets
               THEN [loader EXCEPT !.bucket = @ + 1] ELSE [loader EXCEPT !.pc = "file"]
  /\ Mixes
  /\ UNCHANGED <<fileVars, listening, queued, receiving, missed>>

\* On to entry e of c; after the last, the reload thread is started or goes on.
ToEntry(c, e) ==
  loader' = [loader EXCEPT !.cfg = c, !.e = e,
    !.pc = IF e <= Len(c) THEN "node" ELSE IF listening THEN "accept" ELSE "listen"]

\* cfg_init: a file that cannot be parsed ends a proxy that starts, and empties a running one.
ParsesFile ==
  /\ LoaderAt("file")
  /\ client_cfg # Cut \/ listening
  /\ ToEntry(IF client_cfg = Cut THEN <<>> ELSE client_cfg, 1)
  /\ missed' = FALSE
  /\ UNCHANGED <<fileVars, node, listening, queued, receiving, receiver>>

StartFails == LoaderAt("file") /\ client_cfg = Cut /\ ~listening /\ Off

NodesOf(k) == node[ip_port_hash_key[k]]

RowsOf(k) == {r \in 1 .. NodeDepth : NodesOf(k)[r].key = k}

\* What __lookup_ip_port_node finds for the loader, who alone writes: the row of k, or 0.
RowAt(k) ==
  LET at == {r \in RowsOf(k) : \A s \in 1 .. r : NodesOf(k)[s].created}
  IN  IF at = {} THEN 0 ELSE Min(at)

EntriesOf(f, k) == {i \in DOMAIN f : KeyOf(f[i]) = k}
ThisEntry == loader.cfg[loader.e]
ThisKey == KeyOf(ThisEntry)

\* ip_port_hash_key divides by the port.
DividesByZero == LoaderAt("node") /\ ThisEntry.sport = 0 /\ Off

AtEntry == LoaderAt("node") /\ ThisEntry.sport # 0

\* add_multi_node, MULTI_NODE_EXSIT: the group is the same, and the port stays as it is...
KnowsNode ==
  /\ AtEntry /\ RowAt(ThisKey) # 0
  /\ NodesOf(ThisKey)[RowAt(ThisKey)].ip = ThisEntry.ip
  /\ ToEntry(loader.cfg, loader.e + 1)
  /\ UNCHANGED <<fileVars, node, listening, queued, receiving, receiver, missed>>

\* ... another group replaces it...
UpdatesIp ==
  LET r == RowAt(ThisKey) IN
  /\ AtEntry /\ r # 0
  /\ NodesOf(ThisKey)[r].ip # ThisEntry.ip
  /\ node' = [node EXCEPT ![ip_port_hash_key[ThisKey]][r].ip = ThisEntry.ip]
  /\ loader' = [loader EXCEPT !.pc = "port", !.row = r]
  /\ Mixes
  /\ UNCHANGED <<fileVars, listening, queued, receiving, missed>>

\* ... and then its port...
UpdatesPort ==
  /\ LoaderAt("port")
  /\ node' = [node EXCEPT ![ip_port_hash_key[ThisKey]][loader.row].gport = ThisEntry.gport]
  /\ ToEntry(loader.cfg, loader.e + 1)
  /\ Mixes
  /\ UNCHANGED <<fileVars, listening, queued, receiving, missed>>

UnusedRows(k) == {r \in 1 .. NodeDepth : ~NodesOf(k)[r].created}

\* ... a new key takes a row, which nobody reads before created = 1, unless he has read created
\* before the row was cleared...
AddsNode ==
  /\ AtEntry /\ RowAt(ThisKey) = 0
  /\ UnusedRows(ThisKey) # {}
  /\ node' = [node EXCEPT ![ip_port_hash_key[ThisKey]][Min(UnusedRows(ThisKey))] =
       [created |-> TRUE, key |-> ThisKey, ip |-> ThisEntry.ip, gport |-> ThisEntry.gport]]
  /\ ToEntry(loader.cfg, loader.e + 1)
  /\ UNCHANGED <<fileVars, listening, queued, receiving, receiver, missed>>

\* ... and where there is none the loop over the rows never ends.
AddSpins ==
  /\ AtEntry /\ RowAt(ThisKey) = 0
  /\ UnusedRows(ThisKey) = {}
  /\ LoaderGoes("spin")
  /\ UNCHANGED <<fileVars, node, listening, queued, receiving, receiver, missed>>

\* cfg_reload
Listens ==
  /\ LoaderAt("listen") /\ LoaderGoes("accept")
  /\ listening' = TRUE
  /\ UNCHANGED <<fileVars, node, queued, receiving, receiver, missed>>

\* The port is taken: the proxy serves what it has loaded, and never reloads.
ListenFails ==
  /\ LoaderAt("listen") /\ LoaderGoes("ended")
  /\ UNCHANGED <<fileVars, node, listening, queued, receiving, receiver, missed>>

\* accept, recv
Accepted ==
  /\ LoaderAt("accept")
  /\ queued > 0 /\ queued' = queued - 1
  /\ loader' = [loader EXCEPT !.pc = "rows", !.bucket = 0]
  /\ UNCHANGED <<fileVars, node, listening, receiving, receiver, missed>>

\* The main thread: CreateNetConnections, CreateWorkers, once the reload thread exists.
CreatesWorkers ==
  /\ ~receiving /\ (listening \/ loader.pc \in {"listen", "ended"})
  /\ receiving' = TRUE
  /\ UNCHANGED <<fileVars, node, loader, listening, queued, receiver, missed>>

-----------------------------------------------------------------------------
(* WorkerThread, HandleIncomingData                                        *)

ReceiverAt(w, pc) == receiver[w].pc = pc
LocalVars == <<fileVars, node, loader, listening, queued, receiving, missed>>

\* A datagram from a server to a port.  One of more than BUFSIZE - 15 bytes is not copied:
\* k is then whatever the stack held, and every key is possible.
Hears(w, k) ==
  /\ receiving /\ ReceiverAt(w, "idle") /\ k.sport # 0
  /\ receiver' = [receiver EXCEPT ![w] = [Still EXCEPT !.pc = "created", !.key = k, !.row = 1]]
  /\ UNCHANGED LocalVars

\* The hash divides by the destination port.
HearsPortZero == receiving /\ (\E k \in Keys : k.sport = 0) /\ Off

NodeAt(w) == NodesOf(receiver[w].key)[receiver[w].row]

\* __lookup_ip_port_node loads what it compares field by field.  At a row that was never created
\* it gives up.  From here on all loads are of this row: nothing is mixed yet, unless the loader
\* is clearing the table or is between the two halves of an update.
ReadsCreated(w) ==
  /\ ReceiverAt(w, "created")
  /\ receiver' = [receiver EXCEPT ![w] =
       IF NodeAt(w).created
       THEN [@ EXCEPT !.pc = "server",
               !.mixed = LoaderAt("rows") \/ (LoaderAt("port") /\ ThisKey = receiver[w].key)]
       ELSE Still]
  /\ UNCHANGED LocalVars

\* The row is another key's: on to the next, or the bucket has none.
PassesRow(w) ==
  receiver' = IF receiver[w].row < NodeDepth
              THEN [receiver EXCEPT ![w].pc = "created", ![w].row = @ + 1]
              ELSE [receiver EXCEPT ![w] = Still]

ReadsServer(w) ==
  /\ ReceiverAt(w, "server")
  /\ IF NodeAt(w).key.server = receiver[w].key.server
     THEN receiver' = [receiver EXCEPT ![w].pc = "sport"] ELSE PassesRow(w)
  /\ UNCHANGED LocalVars

Wanted(k) == {loader.cfg[i] : i \in EntriesOf(loader.cfg, k)}

\* Mutant: the port is not compared.
ReadsServerPort_Any(w) ==
  /\ ReceiverAt(w, "sport")
  /\ receiver' = [receiver EXCEPT ![w].pc = "ip", ![w].want = Wanted(receiver[w].key)]
  /\ UNCHANGED LocalVars

ReadsServerPort(w) ==
  /\ ReceiverAt(w, "sport")
  /\ IF NodeAt(w).key.sport = receiver[w].key.sport
     THEN receiver' = [receiver EXCEPT ![w].pc = "ip", ![w].want = Wanted(receiver[w].key)]
     ELSE PassesRow(w)
  /\ UNCHANGED LocalVars

\* lookup_ip_port_node: multi_ip...
ReadsIp(w) ==
  /\ ReceiverAt(w, "ip")
  /\ receiver' = [receiver EXCEPT ![w].pc = "port", ![w].ip = NodeAt(w).ip]
  /\ UNCHANGED LocalVars

\* ... and multi_port.
ReadsGroupPort(w) ==
  /\ ReceiverAt(w, "port")
  /\ receiver' = [receiver EXCEPT ![w].pc = "send", ![w].gport = NodeAt(w).gport]
  /\ UNCHANGED LocalVars

\* restruct_pkt
Remulticasts(w) ==
  /\ ReceiverAt(w, "send")
  /\ receiver' = [receiver EXCEPT ![w] = Still]
  /\ UNCHANGED LocalVars
-----------------------------------------------------------------------------

ClientInit ==
  /\ client_cfg \in ClientFiles \cup {Cut}
  /\ tool = [t \in ClientTools |-> [pc |-> "idle", content |-> <<>>]]
  /\ commands = 0
  /\ node = [b \in 0 .. NodeBuckets - 1 |-> ZeroNodes]
  /\ loader = [pc |-> "off", cfg |-> <<>>, bucket |-> 0, e |-> 1, row |-> 1]
  /\ listening = FALSE /\ queued = 0
  /\ receiving = FALSE /\ receiver = [w \in Receivers |-> Still]
  /\ missed = FALSE

ClientToolSteps(t) ==
  \/ \E e \in Additions : Adds(t, e)
  \/ \E d \in Deletions : Deletes(t, d)
  \/ Clears(t) \/ LeavesFile(t)
  \/ Opens(t) \/ Writes(t) \/ Asks(t) \/ ClientToolDies(t)

LoaderSteps ==
  \/ Starts \/ Stops \/ ClearsNodes \/ ParsesFile \/ StartFails \/ DividesByZero
  \/ KnowsNode \/ UpdatesIp \/ UpdatesPort \/ AddsNode \/ AddSpins
  \/ Listens \/ ListenFails \/ Accepted \/ CreatesWorkers

ReceiverSteps(w) ==
  \/ \E k \in Keys : Hears(w, k)
  \/ ReadsCreated(w) \/ ReadsServer(w) \/ ReadsServerPort(w)
  \/ ReadsIp(w) \/ ReadsGroupPort(w) \/ Remulticasts(w)

ClientNext ==
  \/ \E t \in ClientTools : ClientToolSteps(t)
  \/ LoaderSteps
  \/ HearsPortZero
  \/ \E w \in Receivers : ReceiverSteps(w)

ClientSpec == ClientInit /\ [][ClientNext]_clientVars

-----------------------------------------------------------------------------
(* Properties                                                              *)

\* The configuration binds key k to group address ip and port gport: no entry of k comes
\* after with another address, and the port is that of the first of the entries that have
\* this address, one after the other.
Binds(f, k, ip, gport) ==
  \E i \in EntriesOf(f, k) :
    /\ f[i].gport = gport
    /\ \A j \in EntriesOf(f, k) :
         IF j >= i THEN f[j].ip = ip
         ELSE \E m \in EntriesOf(f, k) : j <= m /\ m < i /\ f[m].ip # ip

\* No change is under way, and the proxy was told of every one or has read it.
AllTold ==
  /\ LoaderAt("accept") /\ queued = 0 /\ ~missed
  /\ \A t \in ClientTools : ToolAt(t, "idle")

\* A proxy at rest serves what the file says, neither more nor less, however the commands
\* and the reloads overlapped: whoever read a file that a command had cut off reads it again.
ServesTheFile ==
  AllTold =>
    \A k \in Keys :
      LET f == IF client_cfg = Cut THEN <<>> ELSE client_cfg
          r == RowAt(k)
      IN  IF EntriesOf(f, k) # {}
          THEN r # 0 /\ Binds(f, k, NodesOf(k)[r].ip, NodesOf(k)[r].gport)
          ELSE r = 0

\* A packet is sent on to the group and port of one entry for its server and port, although
\* row after row is compared field by field and the group read after that, all without a lock,
\* unless the table is cleared or the node updated after the worker has come to the row.
SentAsConfigured ==
  \A w \in Receivers :
    ReceiverAt(w, "send") /\ ~receiver[w].mixed =>
      \E e \in receiver[w].want : e.ip = receiver[w].ip /\ e.gport = receiver[w].gport
============================================================================
