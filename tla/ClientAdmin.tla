---------------------------- MODULE ClientAdmin ----------------------------
(***************************************************************************)
(* Administration of the multicast client: multic_admin                    *)
(* (multi_client_control) and the running configuration it keeps beside    *)
(* the kernel's table.  The kernel module is taken for what ClientTable is *)
(* shown to implement, the service of ClientBindings.                      *)
(*                                                                         *)
(* Unlike multis_admin this tool takes its change of the configuration     *)
(* back when the kernel module refuses: after -A with the code of -D, and  *)
(* after -D with the code of -A, which finds no -m on the command line.    *)
(* The script that starts and stops the service is the server's (module    *)
(* ServerAdmin); here the service runs.  Between two tools flock makes     *)
(* each pass over the file one step.                                       *)
(***************************************************************************)
EXTENDS ClientBindings, SequencesExt

CONSTANTS
  Tools,        \* multic_admin processes that can run at once
  NoKey,        \* the key of a request that names none
  ZeroAddress,  \* 0.0.0.0, the multi_ip of a request without -m
  MaxAccidents  \* bound: tools killed and messages that fail in a behaviour

ASSUME ClientAdminAssumption ==
  /\ IsFiniteSet(Keys)
  /\ NoKey \notin Keys
  /\ NoGroup \notin Groups
  /\ ZeroAddress \notin Groups \cup {NoGroup}
  /\ GrpMax \in Nat
  /\ MaxAccidents \in Nat

VARIABLES
  running,    \* multi_client_running_config: the array is there, and its entries
  tool,       \* tool[t]: where t is, and its request
  accidents,
  order,      \* history: the tools under way, in the order they wrote the configuration
  stale       \* history: keys on which an accident has parted file and kernel

kernelVars == <<group, ret>>
adminVars == <<kernelVars, running, tool, accidents, order, stale>>

NoEntries == [k \in Keys |-> NoGroup]

Requests ==
  [cmd : {"add"}, key : Keys, multi_ip : Groups]
    \cup [cmd : {"del"}, key : Keys, multi_ip : {ZeroAddress}]
    \cup [cmd : {"clear", "read"}, key : {NoKey}, multi_ip : {ZeroAddress}]

Idle == [pc |-> "idle", req |-> [cmd |-> "read", key |-> NoKey, multi_ip |-> ZeroAddress]]

About(t) == IF tool[t].req.cmd = "clear" THEN Keys ELSE {tool[t].req.key} \cap Keys

\* Tools that have changed the configuration and are not through.
Pending == {t \in Tools : tool[t].pc \in {"kernel", "room", "undo"}}
PendingKeys == UNION {About(t) : t \in Pending}

Position(t) == CHOOSE i \in 1 .. Len(order) : order[i] = t

\* Keys that t shares with pending tools that wrote the configuration before, or after, t.
SharedBefore(t) ==
  UNION {About(u) \cap About(t) : u \in {v \in Pending : Position(v) < Position(t)}}
SharedAfter(t) ==
  UNION {About(u) \cap About(t) : u \in {v \in Pending : Position(t) < Position(v)}}

-----------------------------------------------------------------------------
(* The configuration                                                       *)

Entries == {k \in Keys : running.group[k] # NoGroup}

\* Mutant: a full file still takes one more.
AddRefused_OffByOne(k, g) ==
  \/ ~running.array
  \/ Cardinality(Entries) > GrpMax
  \/ running.group[k] = g

\* What __multi_grp_add_to_config refuses; a full file refuses to change an entry, too.
AddRefused(k, g) ==
  \/ ~running.array
  \/ Cardinality(Entries) + 1 > GrpMax
  \/ running.group[k] = g

\* __multi_grp_del_from_config
DelRefused(k) == ~running.array \/ k \notin Entries

Entry(k, g) == [running EXCEPT !.group[k] = g]

\* multi_grp_config_init; -L, -P and -H get no further.
Begins(t, req) ==
  /\ tool[t].pc = "idle"
  /\ running' = [running EXCEPT !.array = TRUE]
  /\ tool' = [tool EXCEPT ![t] = IF req.cmd = "read" THEN Idle
                                 ELSE [pc |-> "config", req |-> req]]
  /\ UNCHANGED <<kernelVars, accidents, order, stale>>

\* The request has changed the file; -D and -C make up for what parted file and kernel.
ToKernel(t) ==
  /\ tool[t].pc = "config"
  /\ tool' = [tool EXCEPT ![t].pc = "kernel"]
  /\ order' = Append(order, t)
  /\ stale' = IF tool[t].req.cmd \in {"del", "clear"}
              THEN stale \ (About(t) \ PendingKeys) ELSE stale
  /\ UNCHANGED <<kernelVars, accidents>>

ConfigAdds(t) ==
  LET req == tool[t].req IN
  /\ req.cmd = "add"
  /\ ~AddRefused(req.key, req.multi_ip)
  /\ running' = Entry(req.key, req.multi_ip)
  /\ ToKernel(t)

ConfigDeletes(t) ==
  LET req == tool[t].req IN
  /\ req.cmd = "del"
  /\ ~DelRefused(req.key)
  /\ running' = Entry(req.key, NoGroup)
  /\ ToKernel(t)

\* __multi_client_clear_config takes the whole array away.
ConfigClears(t) ==
  /\ tool[t].req.cmd = "clear"
  /\ running' = [array |-> FALSE, group |-> NoEntries]
  /\ ToKernel(t)

ConfigRefuses(t) ==
  LET req == tool[t].req IN
  /\ tool[t].pc = "config"
  /\ \/ req.cmd = "add" /\ AddRefused(req.key, req.multi_ip)
     \/ req.cmd = "del" /\ DelRefused(req.key)
  /\ tool' = [tool EXCEPT ![t] = Idle]
  /\ UNCHANGED <<kernelVars, running, accidents, order, stale>>

-----------------------------------------------------------------------------
(* The kernel module                                                       *)

Ends(t) ==
  /\ tool' = [tool EXCEPT ![t] = Idle]
  /\ order' = IF t \in Pending THEN RemoveAt(order, Position(t)) ELSE order

\* The request is done in the kernel, perhaps before those of other tools.
Done(t) ==
  /\ Ends(t)
  /\ stale' = stale \cup SharedBefore(t)
  /\ UNCHANGED <<running, accidents>>

\* An answer other than 0 to -A or -D sends the tool back to the configuration.
Failed(t) ==
  /\ tool' = [tool EXCEPT ![t].pc = "undo"]
  /\ UNCHANGED <<running, order>>

At(t, pc, cmd) == tool[t].pc = pc /\ tool[t].req.cmd = cmd

\* add_multi_node looks at node_cnt before it takes the lock.
KernelHasRoom(t) ==
  /\ At(t, "kernel", "add")
  /\ Cardinality(BoundKeys) < GrpMax
  /\ tool' = [tool EXCEPT ![t].pc = "room"]
  /\ UNCHANGED <<kernelVars, running, accidents, order, stale>>

\* Taking the change back is right if the key was not bound, wrong if it was.
KernelFull(t) ==
  /\ At(t, "kernel", "add")
  /\ AbsNoRoom
  /\ Failed(t)
  /\ stale' = stale \cup SharedBefore(t) \cup (About(t) \cap BoundKeys)
  /\ UNCHANGED accidents

KernelBinds(t) ==
  /\ At(t, "room", "add")
  /\ AbsBind(tool[t].req.key, tool[t].req.multi_ip)
  /\ Done(t)

KernelExists(t) ==
  /\ At(t, "room", "add")
  /\ AbsBoundAlready(tool[t].req.key, tool[t].req.multi_ip)
  /\ Failed(t)
  /\ stale' = stale \cup About(t)
  /\ UNCHANGED accidents

KernelUnbinds(t) ==
  /\ At(t, "kernel", "del")
  /\ AbsUnbind(tool[t].req.key)
  /\ Done(t)

KernelMissing(t) ==
  /\ At(t, "kernel", "del")
  /\ AbsMissing(tool[t].req.key)
  /\ Failed(t)
  /\ stale' = stale \cup About(t)
  /\ UNCHANGED accidents

KernelClears(t) ==
  /\ At(t, "kernel", "clear")
  /\ AbsClear
  /\ Done(t)

-----------------------------------------------------------------------------
(* Taking a change back, and accidents                                     *)

\* Mutant: what failed is left in the file.
UndoesAdd_Not(t) ==
  /\ At(t, "undo", "add")
  /\ Ends(t)
  /\ stale' = stale \cup SharedAfter(t)
  /\ UNCHANGED <<kernelVars, running, accidents>>

\* After -A: multi_grp_del_from_config, of an entry that may be another tool's by now.
UndoesAdd(t) ==
  /\ At(t, "undo", "add")
  /\ running' = IF DelRefused(tool[t].req.key) THEN running ELSE Entry(tool[t].req.key, NoGroup)
  /\ Ends(t)
  /\ stale' = stale \cup SharedAfter(t)
  /\ UNCHANGED <<kernelVars, accidents>>

\* After -D: multi_grp_add_to_config, with the address 0 of a request without -m.
UndoesDelete(t) ==
  LET req == tool[t].req IN
  /\ At(t, "undo", "del")
  /\ running' = IF AddRefused(req.key, req.multi_ip) THEN running
                ELSE Entry(req.key, req.multi_ip)
  /\ Ends(t)
  /\ stale' = stale \cup About(t)
  /\ UNCHANGED <<kernelVars, accidents>>

Accident == accidents < MaxAccidents /\ accidents' = accidents + 1

\* The tool gets no message through: no socket, no memory.
Unreachable(t) ==
  /\ Accident
  /\ tool[t].pc = "kernel"
  /\ IF tool[t].req.cmd = "clear" THEN Ends(t) /\ UNCHANGED running ELSE Failed(t)
  /\ stale' = stale \cup About(t)
  /\ UNCHANGED kernelVars

\* The tool is killed, or the machine stops in json_object_to_file_ext and cuts the file.
Killed(t) ==
  /\ Accident
  /\ tool[t].pc # "idle"
  /\ Ends(t)
  /\ \/ /\ stale' = IF t \in Pending THEN stale \cup About(t) ELSE stale
        /\ UNCHANGED running
     \/ /\ tool[t].pc \in {"config", "undo"}
        /\ running' = [array |-> FALSE, group |-> NoEntries]
        /\ stale' = Keys
  /\ UNCHANGED kernelVars

-----------------------------------------------------------------------------

AdminInit ==
  /\ AbsInit
  /\ running = [array |-> FALSE, group |-> NoEntries]
  /\ tool = [t \in Tools |-> Idle]
  /\ accidents = 0
  /\ order = <<>>
  /\ stale = {}

AdminNext ==
  \E t \in Tools :
    \/ \E req \in Requests : Begins(t, req)
    \/ ConfigAdds(t)
    \/ ConfigDeletes(t)
    \/ ConfigClears(t)
    \/ ConfigRefuses(t)
    \/ KernelHasRoom(t)
    \/ KernelFull(t)
    \/ KernelBinds(t)
    \/ KernelExists(t)
    \/ KernelUnbinds(t)
    \/ KernelMissing(t)
    \/ KernelClears(t)
    \/ UndoesAdd(t)
    \/ UndoesDelete(t)
    \/ Unreachable(t)
    \/ Killed(t)

AdminSpec == AdminInit /\ [][AdminNext]_adminVars

-----------------------------------------------------------------------------
(* Properties                                                              *)

AdminTypeOK ==
  /\ group \in [Keys -> Groups \cup {NoGroup}]
  /\ running \in [array : BOOLEAN, group : [Keys -> Groups \cup {NoGroup, ZeroAddress}]]
  /\ ~running.array => Entries = {}
  /\ Cardinality(Entries) <= GrpMax
  /\ \A t \in Tools : /\ tool[t].pc \in {"idle", "config", "kernel", "room", "undo"}
                      /\ tool[t].req \in Requests
  /\ Len(order) = Cardinality(Pending) /\ \A i \in 1 .. Len(order) : order[i] \in Pending
  /\ stale \subseteq Keys

\* File and kernel agree on every key that no tool is between the two for.  They part only
\* where a tool overtook another, was killed, reached no module, or took back a change to
\* an entry that had been there before; and -D and -C bring them together again.
InSyncUnlessStale ==
  \A k \in Keys \ (stale \cup PendingKeys) : running.group[k] = group[k]
=============================================================================
