-------------------------- MODULE LinuxServerAdmin --------------------------
(***************************************************************************)
(* Administration of the Linux userland server proxy                       *)
(* (multicast_linux/server_proxy): multis_admin's commands, which rewrite  *)
(* the configuration file and ask the proxy over TCP to reload it, the     *)
(* proxy's main and reload threads, and the scripts that watch and restart *)
(* it.                                                                     *)
(*                                                                         *)
(* Nothing here is locked: commands rewrite the file at the same time, the *)
(* reload thread reads it while it is being written, and it rewrites       *)
(* groupIp and groupNum while the main thread still joins the groups they  *)
(* name.  What the worker threads do meanwhile is in LinuxServerForward.   *)
(***************************************************************************)
EXTENDS Integers, SequencesExt, FiniteSets

CONSTANTS
  Groups, VMs,
  Ports,        \* values of -p
  DefaultPort,  \* 7126
  Tools,        \* multis_admin commands that can run at once
  Requests,     \* the requests they are run with
  NoFile,       \* the file is not there, or is not JSON: empty or cut short
  Shipped,      \* conf/server_cfg.json.txt
  NoGroup,      \* an entry of groupIp that was never set
  Backlog,      \* MAX_CONN
  MaxCommands,  \* bound: commands in a behaviour
  MaxFaults     \* bound: kills, failed binds and stops of the service

Entries == [ip : Groups, port : Ports, members : Seq(VMs)]
NoRequest == [cmd |-> "show", g |-> NoGroup, R |-> <<>>, port |-> DefaultPort]

ASSUME LinuxAssumption ==
  /\ IsFiniteSet(Groups) /\ NoGroup \notin Groups
  /\ NoFile \notin Seq(Entries)
  /\ Shipped \in Seq(Entries)
  /\ \A i, j \in DOMAIN Shipped : Shipped[i].ip = Shipped[j].ip => i = j
  /\ DefaultPort \in Ports
  /\ \A r \in Requests :
       \/ r.cmd \in {"join", "quit"} /\ r.g \in Groups /\ r.R \in Seq(VMs) /\ r.port \in Ports
       \/ r.cmd = "del" /\ r.g \in Groups
       \/ r.cmd \in {"clear", "show"}
  /\ Backlog \in Nat \ {0} /\ MaxCommands \in Nat /\ MaxFaults \in Nat

VARIABLES
  file,       \* SERVER_CFG: a sequence of entries, or NoFile
  tool,       \* tool[t]: where t is, its request, and its copy of the configuration
  main,       \* where the proxy's main thread is, "down" without a proxy
  thread,     \* where terminal_command is
  groupIp, groupNum,
  numParam,   \* CreateNetConnections' parameter groupNum
  mi, ti,     \* the loop indices of the main and of the reload thread
  sock,       \* g_hSocket is open
  joined,     \* groups that g_hSocket is a member of
  table,      \* what cfg_init has put into the hash table: a sequence of entries
  pending,    \* reload requests that wait to be accepted
  monitor,    \* where multis_monitor is, "off" without one
  commands, faults,
  asked,      \* history: the entry each group should have
  spoiled,    \* history: groups whose entry an accident has changed
  parted,     \* history: the file has been written and the proxy not told
  crossed,    \* history: a reload has run before the startup had joined its groups
  refused     \* history: groups whose membership the kernel last refused to change

toolVars == <<file, tool, commands>>
listVars == <<groupIp, groupNum>>
mainVars == <<main, numParam, mi, sock>>
threadVars == <<thread, ti, pending>>
groupVars == <<joined, refused>>
adminVars == <<toolVars, mainVars, threadVars, listVars, groupVars, table, monitor, faults,
               asked, spoiled, parted, crossed>>

proxyVars == <<mainVars, threadVars, listVars, groupVars, table, crossed>>

Named(c, g) == SelectInSeq(c, LAMBDA e : e.ip = g)   \* g's place in c, or 0
NamesOf(c) == {e.ip : e \in ToSet(c)}

Idle == [pc |-> "idle", req |-> NoRequest, copy |-> <<>>, missed |-> {}]

-----------------------------------------------------------------------------
(* multis_admin: the file                                                  *)

\* The members of an existing group: those of R that it does not have, each once.
Joining(ms, R) == FoldLeft(LAMBDA acc, v : IF v \in ToSet(acc) THEN acc ELSE Append(acc, v), ms, R)

\* Mutant: the list of an existing group is replaced.
Added_Replaces(c, r) ==
  LET i == Named(c, r.g) IN
  IF i > 0
  THEN [c EXCEPT ![i].port = r.port, ![i].members = r.R]
  ELSE Append(c, [ip |-> r.g, port |-> r.port, members |-> r.R])

\* json_add_list; a new group takes the list as it comes.
Added(c, r) ==
  LET i == Named(c, r.g) IN
  IF i > 0
  THEN [c EXCEPT ![i].port = r.port, ![i].members = Joining(@, r.R)]
  ELSE Append(c, [ip |-> r.g, port |-> r.port, members |-> r.R])

\* The members that json_del_list copies into a new array.
Staying(ms, R) ==
  FoldLeft(LAMBDA kept, v : IF v \in ToSet(R) THEN kept ELSE Append(kept, v), <<>>, ms)

\* json_del_list
Removed(c, r) == [c EXCEPT ![Named(c, r.g)].members = Staying(@, r.R)]

\* json_del_multicast writes every other entry anew, with the default port.
Others(c, g) ==
  FoldLeft(LAMBDA kept, e : IF e.ip = g THEN kept
                            ELSE Append(kept, [e EXCEPT !.port = DefaultPort]), <<>>, c)
Deleted(c, r) == Others(c, r.g)

Edited(c, r) ==
  CASE r.cmd = "join"  -> Added(IF c = NoFile THEN <<>> ELSE c, r)
    [] r.cmd = "quit"  -> Removed(c, r)
    [] r.cmd = "del"   -> Deleted(c, r)
    [] r.cmd = "clear" -> <<>>

\* The early returns: the file is left alone.
Refused(c, r) ==
  \/ c = NoFile /\ r.cmd # "join"
  \/ r.cmd = "quit" /\ Named(c, r.g) = 0

Writing == {t \in Tools : tool[t].pc = "fill"}

\* json_object_from_file, and the edit of what it returns.
Reads(t, r) ==
  /\ tool[t].pc = "idle"
  /\ commands < MaxCommands
  /\ commands' = commands + 1
  /\ tool' = [tool EXCEPT ![t] =
       [pc |-> CASE r.cmd = "show" -> "exit"
                 [] r.cmd # "show" /\ Refused(file, r) -> "reload"
                 [] OTHER -> "write",
        req |-> r,
        copy |-> IF r.cmd = "show" \/ Refused(file, r) THEN <<>> ELSE Edited(file, r),
        missed |-> IF Writing # {} THEN Groups ELSE {}]]
  /\ UNCHANGED <<file, proxyVars, monitor, faults, asked, spoiled, parted>>

\* json_object_to_file opens the file with O_TRUNC...
Truncates(t) ==
  /\ tool[t].pc = "write"
  /\ tool' = [tool EXCEPT ![t].pc = "fill"]
  /\ file' = NoFile
  /\ UNCHANGED <<commands, proxyVars, monitor, faults, asked, spoiled, parted>>

\* The groups whose entry r changes, -D's change of the other groups' ports left aside.
About(r) == IF r.cmd = "clear" THEN Groups ELSE {r.g}

\* What r's user expects of the entries, having expected a before.
Expected(a, r) ==
  [g \in Groups |->
     IF g \notin About(r) THEN a[g] ELSE
     CASE r.cmd = "join" -> [in |-> TRUE, port |-> r.port, vms |-> a[g].vms \cup ToSet(r.R)]
       [] r.cmd = "quit" -> [a[g] EXCEPT !.vms = @ \ ToSet(r.R)]
       [] OTHER          -> [in |-> FALSE, port |-> DefaultPort, vms |-> {}]]

\* What -D changes besides.
PortsReset(a, r) == IF r.cmd = "del" THEN {g \in Groups : a[g].in /\ a[g].port # DefaultPort}
                    ELSE {}

\* Mutant: -C does not reload.
Fills_ClearUntold(t) ==
  LET r == tool[t].req IN
  /\ tool[t].pc = "fill"
  /\ file' = tool[t].copy
  /\ tool' = [u \in Tools |->
       IF u = t THEN [tool[t] EXCEPT !.pc = IF r.cmd = "clear" THEN "exit" ELSE "reload",
                                     !.copy = <<>>, !.missed = {}]
       ELSE IF tool[u].pc \in {"write", "fill"}
            THEN [tool[u] EXCEPT !.missed = @ \cup About(r)]
            ELSE tool[u]]
  /\ asked' = Expected(asked, r)
  /\ spoiled' = (spoiled \cup tool[t].missed \cup PortsReset(asked, r))
                  \ (IF r.cmd \in {"del", "clear"} THEN About(r) ELSE {})
  /\ UNCHANGED <<commands, proxyVars, monitor, faults, parted>>

\* ... and writes it.  What others wrote since t read the file is lost.
Fills(t) ==
  LET r == tool[t].req IN
  /\ tool[t].pc = "fill"
  /\ file' = tool[t].copy
  /\ tool' = [u \in Tools |->
       IF u = t THEN [tool[t] EXCEPT !.pc = "reload", !.copy = <<>>, !.missed = {}]
       ELSE IF tool[u].pc \in {"write", "fill"}
            THEN [tool[u] EXCEPT !.missed = @ \cup About(r)]
            ELSE tool[u]]
  /\ asked' = Expected(asked, r)
  /\ spoiled' = (spoiled \cup tool[t].missed \cup PortsReset(asked, r))
                  \ (IF r.cmd \in {"del", "clear"} THEN About(r) ELSE {})
  /\ UNCHANGED <<commands, proxyVars, monitor, faults, parted>>

Listening == thread \notin {"none", "bind", "dead"}

\* A proxy has loaded the file and will not read it again unless it is told.
HasLoaded == main \notin {"down", "start"}

\* reload_json_file.  A refused connection goes unnoticed.
Reloads(t) ==
  /\ tool[t].pc = "reload"
  /\ IF Listening
     THEN pending < Backlog /\ pending' = pending + 1 /\ UNCHANGED parted
     ELSE parted' = (parted \/ HasLoaded) /\ UNCHANGED pending
  /\ tool' = [tool EXCEPT ![t] = Idle]
  /\ UNCHANGED <<file, commands, mainVars, thread, ti, listVars, groupVars, table, crossed,
                 monitor, faults, asked, spoiled>>

\* -L, -S: only reads.
Exits(t) ==
  /\ tool[t].pc = "exit"
  /\ tool' = [tool EXCEPT ![t] = Idle]
  /\ UNCHANGED <<file, commands, proxyVars, monitor, faults, asked, spoiled, parted>>

-----------------------------------------------------------------------------
(* multis_admin -R: the main thread                                        *)

\* cfg_init has read c into groupIp, groupNum and the table.
Loaded(c) ==
  /\ groupNum' = Len(c)
  /\ groupIp' = [i \in DOMAIN groupIp |-> IF i <= Len(c) THEN c[i].ip ELSE groupIp[i]]
  /\ table' = c
  /\ parted' = FALSE

\* A process, or none: its globals are gone.
Process(pc) ==
  /\ main' = pc /\ numParam' = 0 /\ mi' = 1 /\ sock' = FALSE
  /\ thread' = "none" /\ ti' = 1 /\ pending' = 0
  /\ groupIp' = [i \in DOMAIN groupIp |-> NoGroup] /\ groupNum' = 0
  /\ joined' = {} /\ refused' = {} /\ table' = <<>> /\ crossed' = FALSE

\* entry returns when it cannot load the file.
StartFails ==
  /\ main = "start"
  /\ file = NoFile
  /\ main' = "down"
  /\ UNCHANGED <<toolVars, numParam, mi, sock, threadVars, listVars, groupVars, table, monitor,
                 faults, asked, spoiled, parted, crossed>>

\* The reload thread is created before the socket.
StartLoads ==
  /\ main = "start"
  /\ file # NoFile
  /\ Loaded(file)
  /\ main' = "call" /\ thread' = "bind"
  /\ UNCHANGED <<toolVars, numParam, mi, sock, ti, pending, groupVars, monitor, faults, asked,
                 spoiled, crossed>>

CallsConnections ==
  /\ main = "call"
  /\ main' = "open" /\ numParam' = groupNum
  /\ UNCHANGED <<toolVars, mi, sock, threadVars, listVars, groupVars, table, monitor, faults,
                 asked, spoiled, parted, crossed>>

OpensSocket ==
  /\ main = "open"
  /\ main' = "join" /\ mi' = 1 /\ sock' = TRUE
  /\ UNCHANGED <<toolVars, numParam, threadVars, listVars, groupVars, table, monitor, faults,
                 asked, spoiled, parted, crossed>>

\* IP_ADD_MEMBERSHIP of g, which the kernel can refuse: for want of a route or of room
\* (igmp_max_memberships).  The caller logs that and goes on.
AddsMembership(g) ==
  \/ joined' = joined \cup {g} /\ refused' = refused \ {g}
  \/ g \notin joined /\ refused' = refused \cup {g} /\ UNCHANGED joined

\* IP_DROP_MEMBERSHIP of g, which can fail as well.
DropsMembership(g) ==
  \/ joined' = joined \ {g} /\ refused' = refused \ {g}
  \/ g \in joined /\ refused' = refused \cup {g} /\ UNCHANGED joined

\* Mutant: one group too many.
JoinsGroup_OneMore ==
  /\ main = "join"
  /\ IF mi <= numParam + 1
     THEN AddsMembership(groupIp[mi]) /\ mi' = mi + 1 /\ UNCHANGED main
     ELSE main' = "work" /\ mi' = 1 /\ UNCHANGED groupVars
  /\ UNCHANGED <<toolVars, numParam, sock, threadVars, listVars, table, monitor, faults,
                 asked, spoiled, parted, crossed>>

\* The next group, or on to CreateWorkers.
JoinsGroup ==
  /\ main = "join"
  /\ IF mi <= numParam
     THEN AddsMembership(groupIp[mi]) /\ mi' = mi + 1 /\ UNCHANGED main
     ELSE main' = "work" /\ mi' = 1 /\ UNCHANGED groupVars
  /\ UNCHANGED <<toolVars, numParam, sock, threadVars, listVars, table, monitor, faults,
                 asked, spoiled, parted, crossed>>

-----------------------------------------------------------------------------
(* terminal_command: the reload thread                                     *)

\* Listens, or returns for good because the port is taken.
Binds ==
  /\ thread = "bind"
  /\ \/ thread' = "accept" /\ UNCHANGED faults
     \/ thread' = "dead" /\ faults < MaxFaults /\ faults' = faults + 1
  /\ UNCHANGED <<toolVars, mainVars, ti, pending, listVars, groupVars, table, monitor, asked,
                 spoiled, parted, crossed>>

Accepts ==
  /\ thread = "accept"
  /\ pending > 0
  /\ pending' = pending - 1
  /\ thread' = "drop" /\ ti' = 1
  /\ crossed' = (crossed \/ main # "work")
  /\ UNCHANGED <<toolVars, mainVars, listVars, groupVars, table, monitor, faults, asked,
                 spoiled, parted>>

\* Mutant: no memberships are dropped.
DropsGroup_None ==
  /\ thread = "drop"
  /\ IF ti <= groupNum
     THEN ti' = ti + 1 /\ UNCHANGED <<thread, table, groupVars>>
     ELSE thread' = "load" /\ ti' = 1 /\ table' = <<>> /\ UNCHANGED groupVars
  /\ UNCHANGED <<toolVars, mainVars, pending, listVars, monitor, faults, asked, spoiled,
                 parted, crossed>>

\* The groups listed, one by one, then multi_node_init.  Without a socket g_hSocket is 0 and
\* setsockopt fails.
DropsGroup ==
  /\ thread = "drop"
  /\ IF ti <= groupNum
     THEN /\ IF sock THEN DropsMembership(groupIp[ti]) ELSE UNCHANGED groupVars
          /\ ti' = ti + 1
          /\ UNCHANGED <<thread, table>>
     ELSE thread' = "load" /\ ti' = 1 /\ table' = <<>> /\ UNCHANGED groupVars
  /\ UNCHANGED <<toolVars, mainVars, pending, listVars, monitor, faults, asked, spoiled,
                 parted, crossed>>

\* cfg_init; the old list is kept when the file cannot be read.
LoadsFile ==
  /\ thread = "load"
  /\ thread' = "rejoin"
  /\ IF file = NoFile THEN parted' = FALSE /\ UNCHANGED <<listVars, table>> ELSE Loaded(file)
  /\ UNCHANGED <<toolVars, mainVars, ti, pending, groupVars, monitor, faults, asked, spoiled,
                 crossed>>

RejoinsGroup ==
  /\ thread = "rejoin"
  /\ IF ti <= groupNum
     THEN /\ IF sock THEN AddsMembership(groupIp[ti]) ELSE UNCHANGED groupVars
          /\ ti' = ti + 1
          /\ UNCHANGED thread
     ELSE thread' = "accept" /\ ti' = 1 /\ UNCHANGED groupVars
  /\ UNCHANGED <<toolVars, mainVars, pending, listVars, table, monitor, faults, asked,
                 spoiled, parted, crossed>>

-----------------------------------------------------------------------------
(* script/multis_monitor and script/multis_monitord                        *)

\* pgrep -x multis_admin finds commands as well as the proxy.
Found == main # "down" \/ \E t \in Tools : tool[t].pc # "idle"

\* check_prog_status looks, and once more a second later; then prog_restart.
MonitorLooks ==
  /\ monitor = "look"
  /\ ~Found
  /\ monitor' = "again"
  /\ UNCHANGED <<toolVars, proxyVars, faults, asked, spoiled, parted>>

\* Mutant: the second check the wrong way round.
MonitorLooksAgain_Inverted ==
  /\ monitor = "again"
  /\ monitor' = "look"
  /\ IF ~Found THEN UNCHANGED proxyVars ELSE Process("start")
  /\ UNCHANGED <<toolVars, faults, asked, spoiled, parted>>

MonitorLooksAgain ==
  /\ monitor = "again"
  /\ monitor' = "look"
  /\ IF Found THEN UNCHANGED proxyVars ELSE Process("start")
  /\ UNCHANGED <<toolVars, faults, asked, spoiled, parted>>

ServiceStarts ==
  /\ monitor = "off"
  /\ monitor' = "look"
  /\ UNCHANGED <<toolVars, proxyVars, faults, asked, spoiled, parted>>

\* pkill -9 of the monitor and of everything called multis_admin.
ServiceStops ==
  /\ faults < MaxFaults /\ faults' = faults + 1
  /\ monitor # "off"
  /\ monitor' = "off"
  /\ Process("down")
  /\ tool' = [t \in Tools |-> Idle]
  /\ spoiled' = IF Writing # {} THEN Groups ELSE spoiled
  /\ parted' = FALSE
  /\ UNCHANGED <<file, commands, asked>>

-----------------------------------------------------------------------------
(* Accidents                                                               *)

ProxyDies ==
  /\ faults < MaxFaults /\ faults' = faults + 1
  /\ main # "down"
  /\ Process("down")
  /\ parted' = FALSE
  /\ UNCHANGED <<toolVars, monitor, asked, spoiled>>

\* A command is killed; the configuration is lost with it when it had emptied the file.
ToolDies(t) ==
  /\ faults < MaxFaults /\ faults' = faults + 1
  /\ tool[t].pc \in {"write", "fill", "reload"}
  /\ tool' = [tool EXCEPT ![t] = Idle]
  /\ spoiled' = IF tool[t].pc = "fill" THEN Groups ELSE spoiled
  /\ parted' = (parted \/ (tool[t].pc # "write" /\ HasLoaded))
  /\ UNCHANGED <<file, commands, proxyVars, monitor, asked>>
-----------------------------------------------------------------------------

AdminInit ==
  /\ file \in {NoFile, Shipped}
  /\ tool = [t \in Tools |-> Idle]
  /\ main = "down" /\ thread = "none" /\ numParam = 0 /\ mi = 1 /\ ti = 1 /\ sock = FALSE
  /\ groupIp = [i \in 1 .. Cardinality(Groups) |-> NoGroup] /\ groupNum = 0
  /\ joined = {} /\ refused = {} /\ table = <<>> /\ pending = 0
  /\ monitor = "off"
  /\ commands = 0 /\ faults = 0
  /\ asked = [g \in Groups |->
       LET i == IF file = NoFile THEN 0 ELSE Named(file, g) IN
       IF i = 0 THEN [in |-> FALSE, port |-> DefaultPort, vms |-> {}]
       ELSE [in |-> TRUE, port |-> file[i].port, vms |-> ToSet(file[i].members)]]
  /\ spoiled = {} /\ parted = FALSE /\ crossed = FALSE

ToolSteps(t) == Truncates(t) \/ Fills(t) \/ Reloads(t) \/ Exits(t)
MainSteps == StartFails \/ StartLoads \/ CallsConnections \/ OpensSocket \/ JoinsGroup
ThreadSteps == Binds \/ Accepts \/ DropsGroup \/ LoadsFile \/ RejoinsGroup
MonitorSteps == MonitorLooks \/ MonitorLooksAgain

AdminNext ==
  \/ \E t \in Tools, r \in Requests : Reads(t, r)
  \/ \E t \in Tools : ToolSteps(t) \/ ToolDies(t)
  \/ MainSteps
  \/ ThreadSteps
  \/ MonitorSteps
  \/ ServiceStarts
  \/ ServiceStops
  \/ ProxyDies

\* Processes and threads that can run do run.  Nobody has to give a command, and nothing
\* has to start the service or to fail.
Fairness ==
  /\ \A t \in Tools : WF_adminVars(ToolSteps(t))
  /\ WF_adminVars(MainSteps)
  /\ WF_adminVars(ThreadSteps)
  /\ WF_adminVars(MonitorSteps)

AdminSpec == AdminInit /\ [][AdminNext]_adminVars /\ Fairness

-----------------------------------------------------------------------------
(* Properties                                                              *)

AdminTypeOK ==
  /\ file = NoFile \/ file \in Seq(Entries)
  /\ \A t \in Tools :
       /\ tool[t].pc \in {"idle", "exit", "write", "fill", "reload"}
       /\ tool[t].req \in Requests \cup {NoRequest}
       /\ tool[t].copy \in Seq(Entries) /\ tool[t].missed \subseteq Groups
  /\ main \in {"down", "start", "call", "open", "join", "work"}
  /\ thread \in {"none", "bind", "accept", "drop", "load", "rejoin", "dead"}
  /\ groupIp \in [1 .. Cardinality(Groups) -> Groups \cup {NoGroup}]
  /\ groupNum \in 0 .. Cardinality(Groups) /\ numParam \in 0 .. Cardinality(Groups)
  /\ mi \in 1 .. Cardinality(Groups) + 1 /\ ti \in 1 .. Cardinality(Groups) + 1
  /\ sock \in BOOLEAN /\ joined \subseteq Groups /\ refused \subseteq Groups
  /\ table \in Seq(Entries) /\ pending \in 0 .. Backlog
  /\ monitor \in {"off", "look", "again"}
  /\ asked \in [Groups -> [in : BOOLEAN, port : Ports, vms : SUBSET VMs]]
  /\ spoiled \subseteq Groups /\ parted \in BOOLEAN /\ crossed \in BOOLEAN

\* A group is in the file, with its port and members, as the commands about it asked in the
\* order in which they wrote it.  That ends only where two commands overlapped and the one
\* overwrote the other, where a command was killed in its write, and where -D of another
\* group has set the port back.
AskedIsKept ==
  file # NoFile =>
    \A g \in Groups \ spoiled :
      LET i == Named(file, g) IN
      IF asked[g].in
      THEN i > 0 /\ file[i].port = asked[g].port /\ ToSet(file[i].members) = asked[g].vms
      ELSE i = 0

\* Whenever the reload thread rests, the socket is a member of the groups listed, and of
\* the groups in the table if there is a table: a reload drops every membership it does not
\* renew.  The exceptions are a proxy told to reload before its startup had joined its groups,
\* and a group whose joining or leaving the kernel has refused: that is logged and forgotten,
\* and only a later reload that finds the group listed tries again.
JoinedIsServed ==
  main = "work" /\ thread \in {"bind", "accept", "dead"} /\ ~crossed =>
    \A g \in Groups \ refused :
      /\ g \in joined <=> \E i \in 1 .. groupNum : groupIp[i] = g
      /\ table # <<>> => (g \in joined <=> g \in NamesOf(table))

Serves == IF file = NoFile THEN table = <<>> ELSE table = file

\* A proxy that keeps running with a reload thread ends up with the file in its table,
\* however commands and reloads overlap: unless the file was written while the proxy was
\* between its first look at it and listen, or the command was killed before it told the proxy.
LoadedInTheEnd ==
  <>[](main = "work" /\ Listening) => <>[](Serves \/ parted)

\* A proxy that is gone comes back to work for as long as the monitor runs, whatever commands
\* pgrep takes for it, unless its file is unreadable: then it exits at every start.
RestartedInTheEnd ==
  <>[](monitor # "off" /\ file # NoFile) => []<>(main = "work")
=============================================================================
