---------------------------- MODULE ServerAdmin ----------------------------
(***************************************************************************)
(* Administration of the multicast server: multis_admin                    *)
(* (multi_server_control), the running configuration it keeps beside the   *)
(* kernel's table, the start/stop script scripts/multis, and               *)
(* multis_config_admin -R (multi_config_control), which feeds the startup  *)
(* configuration back through multis_admin.                                *)
(*                                                                         *)
(* A tool reads and rewrites the running configuration under flock, twice: *)
(* once in multi_grp_config_init, once for its request.  It releases the   *)
(* lock before it talks to the kernel module, which is taken here for what *)
(* ServerTable is shown to implement, the service of MulticastGroups.      *)
(*                                                                         *)
(* What a tool locks is the file it has opened; what it reads and writes   *)
(* is whatever file has the name when it gets there.  The script removes   *)
(* and renames the file without the lock: a tool that has it open goes on  *)
(* with the lock of a file that is gone, beside tools with the lock of the *)
(* new one.                                                                *)
(***************************************************************************)
EXTENDS MulticastGroups, SequencesExt

CONSTANTS
  Tools,       \* multis_admin processes that can run at once
  Inodes,      \* what the running configuration's name can stand for, one at a time
  NoFile,
  NoGroup,     \* the group of a request that names none
  MaxCommands, \* bound: commands given in a behaviour
  MaxKills     \* bound: tools killed and power losses in a behaviour

ASSUME AdminAssumption ==
  /\ NoFile \notin Inodes
  /\ NoGroup \notin Groups
  /\ IsFiniteSet(Groups) /\ IsFiniteSet(VMs)
  /\ GrpMax \in Nat /\ VmMax \in Nat
  /\ MaxCommands \in Nat /\ MaxKills \in Nat

VARIABLES
  running,    \* multi_server_running_config
  startup,    \* multi_server_startup_config
  at,         \* the inode that has running's name, or that the next file created there will have
  tool,       \* tool[t]: where t is, its request, its copy of the configuration, the file it has
              \* open, and where the file that it is writing has gone
  loaded,     \* the kernel module is loaded
  script,     \* where scripts/multis is
  saved,      \* multis_config_admin -R: the startup configuration it has read...
  todo,       \* ... and the groups of it that it has still to add
  commands,
  kills,
  order,      \* history: the tools that have yet to tell the kernel, in the order
              \* in which they wrote the configuration
  stale,      \* history: groups for which an accident has parted the two
  written,    \* history: the running configuration before the rewriting that is under way
  touched,    \* history, during a start: groups that others than the recovery changed
  served      \* history, during a stop: the table as it was before rmmod

kernelVars == <<groups, members, ret>>
fileVars == <<running, startup, at, written>>
recoveryVars == <<saved, todo>>
scriptVars == <<loaded, script, recoveryVars>>
bounds == <<commands, kills>>
historyVars == <<order, stale, touched, served>>
adminVars == <<kernelVars, fileVars, tool, scriptVars, bounds, historyVars>>

\* A file that is not there; one without a multi_group_array (new, cut short, or after
\* -C); or the array.
Empty(file) == [file |-> file, groups |-> {}, members |-> [g \in Groups |-> {}]]

\* The options of multis_admin that change something.  -L, -S, -P and -H do not get past
\* multi_grp_config_init.
Commands ==
  [cmd : {"join", "quit"}, g : Groups, R : Requests]
    \cup [cmd : {"del"}, g : Groups, R : {{}}]
    \cup [cmd : {"clear", "read"}, g : {NoGroup}, R : {{}}]

Idle == [pc |-> "idle", req |-> [cmd |-> "read", g |-> NoGroup, R |-> {}],
         copy |-> Empty("absent"), accepted |-> FALSE, child |-> FALSE,
         fd |-> NoFile, out |-> "running"]

NotServed == [groups |-> {}, members |-> [g \in Groups |-> {}], orderly |-> FALSE]

\* The groups a request is about.
About(t) == IF tool[t].req.cmd = "clear" THEN Groups ELSE {tool[t].req.g} \cap Groups

Pending == {t \in Tools : tool[t].pc = "kernel"}
PendingGroups == UNION {About(t) : t \in Pending}

\* Tools that hold a lock.
Holders == {t \in Tools : tool[t].pc \in {"locked", "init", "initfill", "edit", "editfill"}}

\* Tools that have opened a file with running's name which has it no more.
Strays == {t \in Tools : tool[t].fd \notin {at, NoFile}}

\* Tools that have truncated the file now at running's path, and have yet to fill it.
Filling(t) == tool[t].pc \in {"initfill", "editfill"} /\ tool[t].out = "running"
Rewritten == \E t \in Tools : Filling(t)

\* ... and those whose file has been renamed since.
Saving == {t \in Tools : tool[t].out = "startup"}

Position(t) == CHOOSE i \in 1 .. Len(order) : order[i] = t

\* Pending tools that wrote the configuration before t and share a group with it.
Overtaken(t) ==
  {u \in Pending \ {t} : Position(u) < Position(t) /\ About(u) \cap About(t) # {}}

Without(t) == IF t \in Pending THEN RemoveAt(order, Position(t)) ELSE order

\* What the history of a written request leaves stale: once -D or -C is in the file, the
\* kernel will agree as soon as it is told, unless other requests are under way or somebody's
\* lock is worth nothing.
StaleAfterWrite(t) ==
  IF tool[t].req.cmd \in {"del", "clear"} /\ Strays = {}
  THEN stale \ (About(t) \ PendingGroups) ELSE stale

Starting == script \in {"load", "recover"}
Touches(t) == touched' = IF Starting /\ ~tool[t].child THEN touched \cup About(t) ELSE touched

\* t has changed the configuration for its request and will tell the kernel.
ToKernel(t) ==
  /\ tool' = [tool EXCEPT ![t] = [Idle EXCEPT !.pc = "kernel", !.req = tool[t].req,
                                              !.accepted = tool[t].accepted,
                                              !.child = tool[t].child]]
  /\ order' = Append(order, t)
  /\ stale' = StaleAfterWrite(t)
  /\ Touches(t)

\* t ends where its request changes nothing.
EndsUnchanged(t) == tool' = [tool EXCEPT ![t] = Idle] /\ UNCHANGED <<order, stale, touched>>

-----------------------------------------------------------------------------
(* multis_admin: the configuration                                         *)

\* nf_file_lock opens the file and creates it if need be...
Opened == IF running.file = "absent" THEN Empty("noarray") ELSE running
Creates ==
  /\ running' = Opened
  /\ written' = IF running.file = "absent" THEN Opened ELSE written
  /\ UNCHANGED <<startup, at>>

\* ... and waits for the lock of what it has opened.
Locks(t) == \A u \in Holders : tool[u].fd # tool[t].fd

\* json_object_to_file_ext opens the file by its name and truncates it...
Truncates(t, pc, next) ==
  /\ tool[t].pc = pc
  /\ running' = Empty("noarray")
  /\ tool' = [tool EXCEPT ![t].pc = next]
  /\ UNCHANGED <<kernelVars, startup, at, written, scriptVars, bounds, historyVars>>

\* ... and fills the file it has opened, wherever that is by now; nf_file_unlock.
Fills(t) ==
  /\ IF tool[t].out = "running"
     THEN running' = tool[t].copy /\ written' = tool[t].copy ELSE UNCHANGED <<running, written>>
  /\ startup' = IF tool[t].out = "startup" THEN tool[t].copy ELSE startup
  /\ UNCHANGED at

\* __multi_grp_config_init
Inited(c) == IF c.file = "array" THEN c ELSE Empty("array")

\* A tool starts.
InitOpens(t, req, child) ==
  /\ tool[t].pc = "idle"
  /\ Creates
  /\ tool' = [tool EXCEPT ![t] = [Idle EXCEPT !.pc = "open", !.req = req, !.child = child,
                                              !.fd = at]]
  /\ UNCHANGED <<kernelVars, loaded, script, saved, kills, historyVars>>

\* flock, and fopen "a+", which creates the file again if it is gone
InitLocks(t) ==
  /\ tool[t].pc = "open"
  /\ Locks(t)
  /\ Creates
  /\ tool' = [tool EXCEPT ![t].pc = "locked"]
  /\ UNCHANGED <<kernelVars, scriptVars, bounds, historyVars>>

InitReads(t) ==
  /\ tool[t].pc = "locked"
  /\ tool' = [tool EXCEPT ![t].pc = "init", ![t].copy = Inited(running)]
  /\ UNCHANGED <<kernelVars, fileVars, scriptVars, bounds, historyVars>>

InitTruncates(t) == Truncates(t, "init", "initfill")

InitFills(t) ==
  /\ tool[t].pc = "initfill"
  /\ Fills(t)
  /\ tool' = [tool EXCEPT ![t] =
                IF @.req.cmd = "read" THEN Idle
                ELSE [Idle EXCEPT !.pc = "config", !.req = tool[t].req, !.child = tool[t].child]]
  /\ UNCHANGED <<kernelVars, scriptVars, bounds, historyVars>>

\* Mutant: only the number of groups is limited.
Refused_GroupsOnly(c, req) ==
  \/ req.cmd = "join" /\ req.g \notin c.groups /\ Cardinality(c.groups) + 1 > GrpMax
  \/ req.cmd \in {"quit", "del"} /\ req.g \notin c.groups

\* What __multi_grp_add_to_config and __multi_grp_del_from_config refuse.
Refused(c, req) ==
  \/ /\ req.cmd = "join"
     /\ IF req.g \in c.groups
        THEN Cardinality(req.R) + Cardinality(c.members[req.g]) > VmMax
        ELSE Cardinality(c.groups) + 1 > GrpMax
  \/ req.cmd \in {"quit", "del"} /\ req.g \notin c.groups

\* Mutant: a deleted group's members stay.
Edited_KeepsMembers(c, req) ==
  CASE req.cmd = "join" -> [c EXCEPT !.groups = @ \cup {req.g}, !.members[req.g] = @ \cup req.R]
    [] req.cmd = "quit" -> [c EXCEPT !.members[req.g] = @ \ req.R]
    [] req.cmd = "del" -> [c EXCEPT !.groups = @ \ {req.g}]
    [] req.cmd = "clear" -> Empty("noarray")

\* The edit that a request stands for.
Edited(c, req) ==
  CASE req.cmd = "join" -> [c EXCEPT !.groups = @ \cup {req.g}, !.members[req.g] = @ \cup req.R]
    [] req.cmd = "quit" -> [c EXCEPT !.members[req.g] = @ \ req.R]
    [] req.cmd = "del" -> [c EXCEPT !.groups = @ \ {req.g}, !.members[req.g] = {}]
    [] req.cmd = "clear" -> Empty("noarray")

EditOpens(t) ==
  /\ tool[t].pc = "config"
  /\ Creates
  /\ tool' = [tool EXCEPT ![t].pc = "reopen", ![t].fd = at]
  /\ UNCHANGED <<kernelVars, scriptVars, bounds, historyVars>>

\* Another -C has taken the array away since multi_grp_config_init, or somebody is rewriting
\* the file: -A and -D give up, -C goes on to the kernel.
EditFindsNoArray(t) ==
  /\ tool[t].pc = "reopen"
  /\ Locks(t)
  /\ running.file # "array"
  /\ IF tool[t].req.cmd = "clear" THEN ToKernel(t) ELSE EndsUnchanged(t)
  /\ UNCHANGED <<kernelVars, fileVars, scriptVars, bounds, served>>

\* Mutant: the file is read without the lock.
EditReads_NoLock(t) ==
  /\ tool[t].pc = "reopen"
  /\ running.file = "array"
  /\ LET ok == ~Refused(running, tool[t].req) IN
     tool' = [tool EXCEPT ![t].pc = "edit", ![t].accepted = ok,
                          ![t].copy = IF ok THEN Edited(running, tool[t].req) ELSE running]
  /\ UNCHANGED <<kernelVars, fileVars, scriptVars, bounds, historyVars>>

\* The request is checked against the file; a refused one writes the file back as it was.
EditReads(t) ==
  /\ tool[t].pc = "reopen"
  /\ Locks(t)
  /\ running.file = "array"
  /\ LET ok == ~Refused(running, tool[t].req) IN
     tool' = [tool EXCEPT ![t].pc = "edit", ![t].accepted = ok,
                          ![t].copy = IF ok THEN Edited(running, tool[t].req) ELSE running]
  /\ UNCHANGED <<kernelVars, fileVars, scriptVars, bounds, historyVars>>

EditTruncates(t) == Truncates(t, "edit", "editfill")

EditFills(t) ==
  /\ tool[t].pc = "editfill"
  /\ Fills(t)
  /\ IF tool[t].accepted THEN ToKernel(t) ELSE EndsUnchanged(t)
  /\ UNCHANGED <<kernelVars, scriptVars, bounds, served>>

-----------------------------------------------------------------------------
(* multis_admin: the kernel module                                         *)

\* t's message reaches the module, and t ends with its answer: whatever that is, the
\* configuration stays as it has been written.
Tells(t, cmd) ==
  /\ tool[t].pc = "kernel"
  /\ tool[t].req.cmd = cmd
  /\ loaded
  /\ tool' = [tool EXCEPT ![t] = Idle]
  /\ order' = Without(t)
  /\ Touches(t)
  /\ UNCHANGED <<fileVars, scriptVars, bounds, served>>

\* Other tools wrote the configuration before t but have not told the kernel yet.
Overtakes(t) == stale' = stale \cup UNION {About(u) \cap About(t) : u \in Overtaken(t)}

KernelJoins(t) ==
  LET g == tool[t].req.g
      R == tool[t].req.R
  IN  /\ Tells(t, "join")
      /\ ExactJoin(g, R)
      /\ Overtakes(t)

KernelRefuses(t) ==
  LET g == tool[t].req.g
      R == tool[t].req.R
  IN  /\ Tells(t, "join")
      /\ ExactJoinRefused(g, R)
      /\ stale' = stale \cup {g}

KernelQuits(t) ==
  /\ Tells(t, "quit")
  /\ AbsQuit(tool[t].req.g, tool[t].req.R)
  /\ Overtakes(t)

KernelMissing(t) ==
  /\ Tells(t, "quit")
  /\ AbsMissing(tool[t].req.g)
  /\ stale' = stale \cup {tool[t].req.g}

KernelDeletes(t) ==
  /\ Tells(t, "del")
  /\ AbsDelete(tool[t].req.g)
  /\ Overtakes(t)

KernelClears(t) ==
  /\ Tells(t, "clear")
  /\ AbsClear
  /\ Overtakes(t)

\* No module answers on the netlink socket.
NoKernel(t) ==
  /\ tool[t].pc = "kernel"
  /\ ~loaded
  /\ tool' = [tool EXCEPT ![t] = Idle]
  /\ order' = Without(t)
  /\ stale' = stale \cup About(t)
  /\ UNCHANGED <<kernelVars, fileVars, scriptVars, bounds, touched, served>>

-----------------------------------------------------------------------------
(* Accidents                                                               *)

Kills == kills < MaxKills /\ kills' = kills + 1 /\ UNCHANGED commands

\* A file that tools in T are writing may be cut short.
CutShort(T) ==
  /\ running' \in {running} \cup {Empty("noarray") : t \in {u \in T : Filling(u)}}
  /\ written' = IF \E t \in T : Filling(t) THEN running' ELSE written
  /\ UNCHANGED at

\* A tool is killed, anywhere; its lock goes with it.
Killed(t) ==
  /\ Kills
  /\ tool[t].pc # "idle"
  /\ CutShort({t})
  /\ startup' \in {startup} \cup {Empty("noarray") : u \in {t} \cap Saving}
  /\ tool' = [tool EXCEPT ![t] = Idle]
  /\ order' = Without(t)
  /\ stale' = IF Filling(t) THEN Groups
               ELSE IF t \in Pending THEN stale \cup About(t) ELSE stale
  /\ touched' = IF Starting THEN touched \cup About(t) ELSE touched
  /\ UNCHANGED <<kernelVars, scriptVars, served>>

\* The machine goes down: a file being written may be cut short, and the recovery writes
\* the startup configuration back at its end.
PowerLoss ==
  /\ Kills
  /\ CutShort(Tools)
  /\ \/ startup' = startup
     \/ (Saving # {} \/ (script = "recover" /\ todo = {})) /\ startup' = Empty("noarray")
  /\ tool' = [t \in Tools |-> Idle]
  /\ order' = <<>>
  /\ groups' = {} /\ members' = [g \in Groups |-> {}]
  /\ loaded' = FALSE
  /\ script' = "idle" /\ saved' = Empty("absent") /\ todo' = {}
  /\ touched' = {} /\ served' = NotServed
  /\ UNCHANGED <<ret, stale>>

-----------------------------------------------------------------------------
(* scripts/multis and multis_config_admin -R                               *)

\* The running configuration loses its name, to none or to another.  Who has it open keeps it,
\* who is writing it goes on, and the next file of this name is another one.
Unlinks(to) ==
  /\ running' = Empty("absent") /\ written' = Empty("absent")
  /\ at' \in Inodes \ {tool[t].fd : t \in Tools}
  /\ tool' = [t \in Tools |-> [tool[t] EXCEPT !.out =
       CASE Filling(t) -> to [] t \in Saving /\ to = "startup" -> "gone" [] OTHER -> @]]

\* start, first: rm -f of the running configuration, whether or not the service runs.
StartRemoves ==
  /\ script = "idle"
  /\ script' = "load"
  /\ Unlinks("gone")
  /\ stale' = IF loaded \/ (\E t \in Tools : tool[t].fd # NoFile) THEN Groups ELSE PendingGroups
  /\ touched' = PendingGroups
  /\ UNCHANGED <<kernelVars, startup, loaded, recoveryVars, bounds, order, served>>

\* insmod; the recovery reads the startup configuration.
StartLoads ==
  /\ script = "load"
  /\ ~loaded
  /\ loaded' = TRUE
  /\ IF startup.file = "array"
     THEN script' = "recover" /\ saved' = startup /\ todo' = startup.groups /\ UNCHANGED touched
     ELSE script' = "idle" /\ touched' = {} /\ UNCHANGED recoveryVars
  /\ UNCHANGED <<kernelVars, fileVars, tool, bounds, order, stale, served>>

\* exit 1: the module is there already, or cannot be loaded.
StartFails ==
  /\ script = "load"
  /\ script' = "idle"
  /\ touched' = {}
  /\ UNCHANGED <<kernelVars, fileVars, tool, loaded, recoveryVars, bounds, order, stale, served>>

NoChild == \A t \in Tools : ~tool[t].child

\* Mutant: the command ends before -j.
Recovers_GroupOnly(t, g) ==
  /\ script = "recover"
  /\ NoChild
  /\ g \in todo
  /\ todo' = todo \ {g}
  /\ InitOpens(t, [cmd |-> "join", g |-> g, R |-> {}], TRUE)

\* system("multis_admin -A -m g -j ..."), one group after the other
Recovers(t, g) ==
  /\ script = "recover"
  /\ NoChild
  /\ g \in todo
  /\ todo' = todo \ {g}
  /\ InitOpens(t, [cmd |-> "join", g |-> g, R |-> saved.members[g]], TRUE)

\* What has been read is written back.
RecoveryEnds ==
  /\ script = "recover"
  /\ NoChild
  /\ todo = {}
  /\ script' = "idle"
  /\ startup' = saved /\ saved' = Empty("absent")
  /\ touched' = {}
  /\ UNCHANGED <<kernelVars, running, at, written, tool, loaded, todo, bounds, order, stale, served>>

\* stop, first: rmmod.  The module is busy while a tool's socket is open.
StopUnloads ==
  /\ script = "idle"
  /\ script' = "save"
  /\ loaded' = FALSE
  /\ groups' = {} /\ members' = [g \in Groups |-> {}]
  /\ served' = IF loaded THEN [groups |-> groups, members |-> members, orderly |-> TRUE]
                         ELSE NotServed
  /\ UNCHANGED <<ret, fileVars, tool, recoveryVars, bounds, order, stale, touched>>

StopFindsBusy ==
  /\ script = "idle"
  /\ loaded
  /\ Pending # {}
  /\ script' = "save"
  /\ served' = [groups |-> groups, members |-> members, orderly |-> FALSE]
  /\ UNCHANGED <<kernelVars, fileVars, tool, loaded, recoveryVars, bounds, order, stale, touched>>

\* Mutant: rm -f before mv.
StopSaves_Removed ==
  /\ script = "save"
  /\ script' = "idle"
  /\ Unlinks("gone")
  /\ stale' = IF loaded THEN Groups ELSE stale
  /\ served' = NotServed
  /\ UNCHANGED <<kernelVars, startup, loaded, recoveryVars, bounds, order, touched>>

\* Then the running configuration, if there is one, becomes the startup configuration...
StopSaves ==
  /\ script = "save"
  /\ IF running.file = "absent"
     THEN script' = "idle" /\ UNCHANGED <<fileVars, tool>>
     ELSE script' = "clean" /\ startup' = running /\ Unlinks("startup")
  /\ stale' = IF loaded THEN Groups ELSE stale
  /\ served' = NotServed
  /\ UNCHANGED <<kernelVars, loaded, recoveryVars, bounds, order, touched>>

\* ... and what a tool may have put in its place is removed.
StopRemoves ==
  /\ script = "clean"
  /\ script' = "idle"
  /\ Unlinks("gone")
  /\ stale' = IF loaded THEN Groups ELSE stale
  /\ UNCHANGED <<kernelVars, startup, loaded, recoveryVars, bounds, order, touched, served>>

-----------------------------------------------------------------------------

AdminInit ==
  /\ AbsInit
  /\ running = Empty("absent") /\ startup = Empty("absent")
  /\ written = Empty("absent") /\ at \in Inodes
  /\ tool = [t \in Tools |-> Idle]
  /\ loaded = FALSE
  /\ script = "idle" /\ saved = Empty("absent") /\ todo = {}
  /\ commands = 0 /\ kills = 0
  /\ order = <<>> /\ stale = {} /\ touched = {}
  /\ served = NotServed

Begins(t) ==
  /\ commands < MaxCommands
  /\ commands' = commands + 1
  /\ \E req \in Commands : InitOpens(t, req, FALSE) /\ UNCHANGED todo

AdminNext ==
  \/ \E t \in Tools :
       \/ Begins(t)
       \/ InitLocks(t)
       \/ InitReads(t)
       \/ InitTruncates(t)
       \/ InitFills(t)
       \/ EditOpens(t)
       \/ EditFindsNoArray(t)
       \/ EditReads(t)
       \/ EditTruncates(t)
       \/ EditFills(t)
       \/ KernelJoins(t)
       \/ KernelRefuses(t)
       \/ KernelQuits(t)
       \/ KernelMissing(t)
       \/ KernelDeletes(t)
       \/ KernelClears(t)
       \/ NoKernel(t)
       \/ Killed(t)
       \/ \E g \in Groups : Recovers(t, g) /\ UNCHANGED commands
  \/ PowerLoss
  \/ StartRemoves
  \/ StartLoads
  \/ StartFails
  \/ RecoveryEnds
  \/ StopUnloads
  \/ StopFindsBusy
  \/ StopSaves
  \/ StopRemoves

AdminSpec == AdminInit /\ [][AdminNext]_adminVars

-----------------------------------------------------------------------------
(* Properties                                                              *)

Config == [file : {"absent", "noarray", "array"}, groups : SUBSET Groups,
           members : [Groups -> SUBSET VMs]]

WellFormed(c) ==
  /\ c \in Config
  /\ c.file # "array" => c.groups = {}
  /\ \A g \in Groups : g \notin c.groups => c.members[g] = {}

AdminTypeOK ==
  /\ AbsTypeOK
  /\ WellFormed(running) /\ WellFormed(startup) /\ WellFormed(saved) /\ WellFormed(written)
  /\ at \in Inodes
  /\ \A t \in Tools :
       /\ tool[t].pc \in {"idle", "open", "locked", "init", "initfill", "config", "reopen",
                         "edit", "editfill", "kernel"}
       /\ tool[t].req \in Commands
       /\ WellFormed(tool[t].copy)
       /\ tool[t].fd \in Inodes \cup {NoFile} /\ tool[t].out \in {"running", "startup", "gone"}
  /\ loaded \in BOOLEAN /\ script \in {"idle", "load", "recover", "save", "clean"}
  /\ todo \subseteq Groups /\ stale \subseteq Groups /\ touched \subseteq Groups
  /\ Len(order) = Cardinality(Pending) /\ \A i \in 1 .. Len(order) : order[i] \in Pending

SameEntry(a, b, g) == (g \in a.groups <=> g \in b.groups) /\ a.members[g] = b.members[g]

Table == [groups |-> groups, members |-> members]

\* While the module runs, the file and the kernel's table agree on every group that no
\* tool is between the two for, unless the file is just being rewritten.  They part only where
\* a tool overtook another, was killed half-way, or found no module, or where the script took
\* the file away under a tool that had it open or under the running module; and -D or -C of
\* the group brings them together again, once no tool holds on to a file that is gone.
InSyncUnlessStale ==
  loaded /\ ~Rewritten =>
    \A g \in Groups \ (stale \cup PendingGroups) : SameEntry(running, Table, g)

\* "save configure": what an orderly stop leaves for the next start is what the module
\* served, for every group that is not stale or asked for at that moment, unless a tool has
\* emptied the file at that moment to write it.
StopSavesServed ==
  [][StopSaves /\ served.orderly /\ ~Rewritten =>
       \A g \in Groups \ (stale \cup PendingGroups) :
         SameEntry(startup', served, g)]_adminVars

\* "load configure": when the recovery is through, the module serves what was saved, for
\* every group that no other tool has been used on and no accident has befallen, unless
\* other tools' groups have taken the room.
RecoveryComplete ==
  [][RecoveryEnds /\ Cardinality(saved.groups \cup touched) <= GrpMax =>
       \A g \in Groups \ (stale \cup touched) : SameEntry(startup', Table, g)]_adminVars

\* The file's limits are the kernel's.  A request that the file has accepted the kernel
\* refuses only if the two have parted on its group, or it overtakes another request about
\* it; and for the number of groups, only if they have parted on some group or other tools
\* have yet to tell the kernel.
RefusedByFileFirst ==
  [][\A t \in Tools :
       LET g == tool[t].req.g IN
       KernelRefuses(t) \/ KernelMissing(t) =>
         \/ g \in stale \/ Overtaken(t) # {}
         \/ KernelRefuses(t) /\ g \notin groups /\ (stale # {} \/ Pending # {t})]_adminVars
=============================================================================
