# Verification of multicast_proxy

`multicast_proxy` carries UDP multicast over networks that forward only unicast. A *server*
intercepts packets that a machine sends to a multicast group and sends one unicast copy to
each member of the group; a *client* on the member intercepts the copies and puts the
multicast address back. There are three implementations: Linux kernel modules with control
tools (`src/multicast_kernel`), Linux userland proxies (`src/multicast_linux`) and a Windows
proxy (`src/multicast_win`).

This directory holds TLA+ models of the three implementations, the TLC runs that check them,
and proofs checked by TLAPS. `PROJECT.json` has the index: components, runs, the lines each
definition translates, the hazards, the findings and the theorems. Paths below are relative
to `src/multicast_kernel` unless they start with `src/`.

## 1. The system

| Part | State it keeps | Operations | Talks to |
|---|---|---|---|
| Server table, `multi_server/kmod/multis_grp.c` | `multi_grp[bucket][row]`, `bitmap`, `multi_vm`, `multi_stats` under `multi_lock` | add, append, quit, delete, clear, list, show, lookup | called by the netlink channel and the hook |
| Server netlink, `kmod/multis_nl.c` | a static reply buffer | one handler per message type, in the sender's context | control tool |
| Server hook, `kmod/multis_nf.c` | global counters without a lock | `tmcs_hook_local_out`, on every CPU | table (lookup, statistics), IP stack |
| Client table, `multi_client/kmod/multic_grp.c` | `multi_grp`, `node_cnt` (atomic), under `multi_lock` | add/update, delete, clear, list, lookup, statistics | netlink, hook |
| Client hook, `kmod/multic_nf.c` | global counters | `tmcc_hook_local_in`, on every CPU | table |
| Control tools, `tools/multi_{server,client}_control` | the running configuration, a JSON file under `flock` | `-A -D -C -L -S -P` | file, then kernel by netlink |
| Script and recovery, `scripts/multis`, `tools/multi_config_control` | the startup configuration | start, stop, `-R` | file, module, control tool |
| Linux userland server, `src/multicast_linux/server_proxy` | the same table without a lock, `groupIp`, memberships of `g_hSocket`, four counters, a JSON file without a lock | workers, main and reload thread, `-A -j -q -D -C -L -S -R` | raw sockets, TCP reload port |
| Linux userland client, `src/multicast_linux/client_proxy` | a table of server and port without a lock, a JSON file | workers, reload thread, `-A -D -C -L -R` | raw sockets, tun device, TCP |
| Monitor, `src/multicast_linux/server_proxy/script` | none | looks for the process, restarts it | `pgrep`, `pkill`, the proxy |
| Windows server, `src/multicast_win/proxy_server` | a packet ring per processor without locks, the device list, a table as on Linux | `entry`, capture threads, handlers, reload thread | WinPcap, raw sockets, TCP |

What is hard in it:

* **Index and row bookkeeping.** A server group is a row in a bucket plus an index, from a
  bitmap, into two other arrays. Deleting moves the last row of the bucket into the hole.
  Correct means: a lookup finds exactly the groups created, an index has one owner, counts
  match lists, nothing leaks.
* **Integer widths.** Indexes go to 1024, are kept in a `uint8_t`, and are allocated from a
  64-bit word; rows go to 512 and are counted with a `uint8_t`.
* **Interleaving of packets and requests.** The hooks hold the lock only to look up, then use
  an index (server) or a bucket and row (client) that requests may have reassigned, and count
  with unlocked `x++`.
* **A check before the lock.** The client compares `node_cnt` with its limit, then locks.
* **No locks at all.** The userland servers' reload clears and refills a table that workers are
  reading; publishing a row before its list is complete is safe only because the count is
  written last. The Windows rings have two writers of `element_count`.
* **Check, then truncate, then write.** A userland command reads the file, truncates it and
  writes it without a lock, beside other commands and beside the proxy that reads it.
* **Two copies of the truth.** A tool changes the file, lets go of it, then tells the kernel:
  other tools, kills, power losses, start and stop come in between; the client's tool also
  takes changes back.

The full list, each with its line and the properties that cover it, is under `hazards`.

## 2. Plan

Ordered by what matters most; all of it is done but for what section 6 names.

1. `MulticastGroups` (what the server promises), `ServerTable` (the table), `VmList` (the
   member list's loops), refinement.
2. `ServerForward` = `ServerTable` + the hook on several CPUs; `ServerShow` = `ServerTable` +
   LIST and SHOW with their one static reply; `ServerKernel_proofs` about all three.
3. `ClientBindings`, `ClientTable`, refinement; `ClientForward`; `ClientKernel_proofs` about both.
4. `ServerAdmin` = `MulticastGroups` as the kernel + files, tools, script, recovery;
   `ServerAdmin_proofs`.
5. `ClientAdmin` = `ClientBindings` as the kernel + file, tools, rollback;
   `ClientAdmin_proofs`.
6. `LinuxServerAdmin`: commands, file, main and reload thread, memberships, monitor, with
   liveness, and `LinuxAdmin_proofs`; `LinuxServerForward`: workers beside a reload, field by
   field; `FoldLemmas`, what proofs about configurations of any length need.
7. `LinuxClient`: commands, file, reload and lookups, and `LinuxClient_proofs`. `WinQueues`:
   start, device list, rings; `UserlandServers_proofs` about it and `LinuxServerForward`.

## 3. The modules

### MulticastGroups
The server's promise: `groups`, `members`, the last answer `ret`. A request answered with an
error has changed nothing; one answered `ok` has had exactly its effect. `AbsNext` leaves the
server free to refuse a new group; `ExactNext` has it refused when `GrpMax` groups exist, and
only then. `ServerAdmin` takes the exact service for the kernel. The steps carry no request: that a
module implements them bounds how its state may change and which answers go with which changes,
not which request a step belongs to.

### ServerTable
One action per outcome of a request. All of a request lies between `spin_lock_bh` and
`spin_unlock_bh` on `multi_lock`, so it is one step. `Lock` is `~spinning`: when a request
loops for ever inside the critical section (`CreateSpins`) everything that needs the lock
stops, which is why runs that reach it do not check for deadlock.

| Code (`multis_grp.c`, `multis_nl.c`) | Model |
|---|---|
| `multi_grp`, `bitmap`, `multi_vm`, `multi_stats` | the variables of those names |
| `__lookup_multi_node` | `FoundAt`, `Exists` |
| `get_idx`, `put_idx` | `GetIdx`, `SetBit`, `PutIdx` |
| `add_multi_node` | `AppendToGroup`, `AppendRefused`, `CreateGroup`, `CreateNoIndex`, `CreateBucketFull`, `CreateSpins` |
| `vm_quit_from_multi_grp` | `Quit`, `GroupMissing` |
| `append_vm_ip_list` | `AppendToGroup`, `AppendRefused`, `GroupMissing` |
| `del_multi_node` | `DeleteFound`, `DeleteMissing` |
| `clear_multi_group` | `Clear` |
| LIST, statistics of a group | `ReadGroup`, `GroupMissing` |
| `tmcc_rcv_skb` | `Next` |

Abstractions. A member list is the set of its first `multi_member_cnt` entries, exact as long
as indexes have one owner; the array loops themselves are in `VmList`, and `MCServerTable`
assumes `LoopsComputeSets`, which TLC evaluates over every list of three entries and four
addresses; `LoopsAreSetOperations` proves it for every length. Beyond the word `bitmap`, `get_idx` tests and sets memory the program does not
own: `GetIdx` lets such a bit test either way, and nothing is said of what is overwritten.
The hash is any function from groups to buckets.

The constants of the code are `BitmapBits` = 64 < `IdxMod` = `RowMod` = 256 < `GrpDepth` = 512
< `GrpMax` = `VmMax` = 1024. With them `CreateBucketFull` is dead code (the loop cannot end);
`server_show` keeps it alive with a shallower bucket. `IndexesFit` and `RowsFit` state the
deployments for which the widths suffice: with the real constants, 64 groups at most, fewer than
a bucket has rows (`RoomInBuckets`).

### ServerForward
Extends `ServerTable` with `tmcs_hook_local_out` on each CPU: `cpu[c]` holds the hook's local
variables (index, members left, the counter being incremented and the value loaded). Steps:
lookup under the lock, one turn per member with each way to lose the copy, and each `x++` as
a load and a store. A store and the load of the next counter are one step. Each property is
about one counter, and on one counter nothing is lost by this: in a behaviour where the two
come apart, the one on another counter can be moved to the other without changing a value
loaded from or stored to the counter in question. `overlapped` accordingly takes a CPU to be
counting from the first load for a copy to the last store.
`ip_local_out` runs the hook again for the copy, whose address is no
group's; that a member's address is no group's is the assumption `Groups \cap VMs = {}`: the
tool skips multicast addresses among members (`parse_arg.h`) but no longer requires the group's
to be one. Members are served in any order. Bytes go with packets and are left out.
History variables (`outputs`, `outputsOf`, `strayed`, `overlapped`, `stale`) record what the
properties compare the counters with.

### ClientBindings, ClientTable, ClientForward
The same three layers for the client. A key is a server address and a port, bound to one
group. `add_multi_node` is two steps, because `node_cnt` is compared before the lock:
`AddStarts` remembers the request in `adding[c]`; `AddExists`, `AddUpdates`, `AddCreates` and
`AddSpins` are its outcomes under the lock. `Callers` are the processes that send requests.
`ClientForward` adds the hook: the lookups for the port and for port 0 each take the lock, and
the packet is counted later in the bucket and row found, if the row then holds the same group.

### ServerAdmin
`multis_admin` processes (`tool`), the running and startup configurations, the module's presence
(`loaded`), the script and the recovery. The kernel is the exact service of `MulticastGroups`, which
`ServerTable` implements within `IndexesFit` and `RoomInBuckets`. A tool makes two passes over the
file, then sends one message to the kernel. `nf_file_lock` opens the file and then waits for the lock
of what it has opened, while the JSON code opens the file again, by its name, to read it and to write
it. The script's `rm` and `mv` take no lock. Files therefore have inodes: `at` is the one that has
the name, `tool[t].fd` the one that `t` has opened and will lock, `tool[t].out` where a file that `t`
has truncated has gone since. A tool that has a file open which the script takes away (`Unlinks`) is
a stray (`Strays`): its lock excludes nobody who has opened the new file, it reads, truncates and
fills the new one beside those, and if it was writing, its write lands in the renamed file or nowhere.

| Code | Model |
|---|---|
| `base_config.c`: `open` of `nf_file_lock` | `InitOpens`, `EditOpens`, with `Creates` |
| `flock` | `Locks`, in `InitLocks`, `EditReads` and `EditFindsNoArray` |
| `json_config.c`: `multi_grp_config_init` | `InitLocks` (`flock`, `fopen "a+"`), `InitReads`, `InitTruncates`, `InitFills` |
| `__multi_grp_add_to_config`, `__multi_grp_del_from_config`, `__multi_server_config_clear` | `EditReads` or `EditFindsNoArray`, `EditTruncates`, `EditFills`; `Refused`, `Edited` |
| `app_control.c`, `comm_kernel.c` | `KernelJoins` to `KernelClears`, `NoKernel` |
| `scripts/multis`: `start` | `StartRemoves`, `StartLoads`, `StartFails` |
| `stop` | `StopUnloads`, `StopFindsBusy`, `StopSaves` (`mv`), `StopRemoves` (`rm -f`) |
| `multi_server_config_recover` | `StartLoads` (reads), `Recovers`, `RecoveryEnds` (writes back) |

In the second pass `flock` and the read are one step: between the two a tool changes nothing, and
what it would read later it reads as well by getting its lock later, since a lock that may be taken
stays free until another tool takes it, and one that takes it instead is another behaviour of the
model. The first pass has `fopen "a+"` between, which can create the file, so there they are two
steps. `insmod` and the recovery's read are one step, as nobody changes the
startup configuration in between but the end of a write whose file a stop has renamed, and that may
as well come before `insmod`. A read or a fill is one step: a
reader that comes between truncation and fill finds no array, as `json-c` does in a file that is
incomplete. If two tools are filling one file, which takes a stray, the last fill stays. Accidents: a
tool killed anywhere (`Killed`, which may cut short what it was writing), a power loss, `insmod`
that fails, `rmmod` that finds the module busy. The recovery's order of groups is left open.

What the properties except. A group is in `stale` from an accident on, until `-D` or `-C` of it is
written with nobody else under way for it and no stray about. Accidents are: a tool that
tells the kernel before one that wrote earlier, a kill before the kernel was told or while the file was
being written, no module, a refusal by the kernel; and, for every group, `rm` or `mv` while the module
is loaded or, in `start`, while some tool has a file open. That last one is `scripts/multis:69` at its
worst: a stray whose first pass found the new file missing or half-written writes it back empty, over
what others have added. A `mv` after an orderly `rmmod` parts nothing by itself: the module is gone, and
the next `start` asks again whether a tool has a file open. While a tool is between truncation and fill (`Rewritten`) the file has nothing, and a `mv` at that
moment saves just that. `RecoveryComplete` compares with the configuration as `-R` read it (`saved`),
and claims nothing of a start in which other groups have taken the room.

### ClientAdmin
`multic_admin` with its rollback: after an answer other than 0 `-A` calls the code of `-D`
(`UndoesAdd`) and `-D` the code of `-A` without an address (`UndoesDelete`, which stores
`ZeroAddress`). Each pass over the file is one step here, as `flock` makes it and no script
interferes; start, stop and recovery are the server's, line for line.

### ServerShow
Extends `ServerTable` with the readers of the static `k_service` (`multis_nl.c`). A reader sets
`ip_num` to 0, fills the reply (LIST in one step under the lock; SHOW row by row without it),
sets `ret` and copies the reply out, one step for each access that another reader can come
between. Requests stay one step although SHOW may see a deletion half done: what a SHOW finds
in a bucket that loses a row is left open (`lost`), which is more than the half-done deletion
can do to it. `mixed` records which readers' accesses met in the buffer. Found while writing the
property: of two SHOWs of an unchanged table at once the one may print nothing, because the
other has just set `ip_num` to 0, and never anything else.

### LinuxServerAdmin
The userland server as its administrator sees it. A command (`tool[t]`) reads and edits
(`Reads`), truncates (`Truncates`), writes (`Fills`) and asks for a reload over TCP
(`Reloads`); no step is locked. The proxy is its main thread (`StartLoads` to `JoinsGroup`) and
the reload thread (`Binds` to `RejoinsGroup`), which share `groupIp`, `groupNum` and
`g_hSocket`; `CreateNetConnections` has its own copy of `groupNum` (`numParam`). The monitor
looks twice with `pgrep -x multis_admin`, which takes a running command for the proxy. What the
reload does to the table is one step here.

The kernel may refuse any change of a membership (`AddsMembership`, `DropsMembership`): there is
no route yet, or the socket has its `igmp_max_memberships`, 20 unless it is raised and far fewer
than the table holds. The code logs that and goes on, so a group of the table may stay unjoined,
or one that has left the table joined. `refused` names the groups whose last change was refused;
`JoinedIsServed` claims nothing of them. A failing `socket` ends `entry` and is a `ProxyDies`
while main is at "open". The range test before each `setsockopt` skips no group that the
commands accept (`main.c:154`), and `Groups` has no other.

| Code (`src/multicast_linux/server_proxy`) | Model |
|---|---|
| `config.c`: `json_add_list`, `json_del_list`, `json_del_multicast`, `-C` | `Added`, `Removed`, `Deleted`, `Edited` |
| `json_object_to_file` | `Truncates`, `Fills` |
| `reload_json_file` | `Reloads` |
| `main.c`: `entry`, `CreateNetConnections` | `StartLoads`, `StartFails`, `CallsConnections`, `OpensSocket`, `JoinsGroup`, `AddsMembership` |
| `config.c`: `terminal_command` | `Binds`, `Accepts`, `DropsGroup`, `DropsMembership`, `LoadsFile`, `RejoinsGroup` |
| `script/multis_monitor`, `script/multis_monitord` | `MonitorLooks`, `MonitorLooksAgain`, `ServiceStarts`, `ServiceStops` |

### LinuxServerForward
The same server's data path. The reload is taken apart into the stores that a worker can see in
between (`ClearsRows`, `ClearsLists`, `TakesRow`, `SetsPort`, `AddsMember`, `SetsCount`), the
worker into its loads (`FindsRow`, `ReadsCount`, `ReadsIndex`, `ReadsPort`, `Copies`), each
counter into a load and a store. A walk along a bucket is one step: a row at which the walk
stops is in the table at that moment, and what a slower walk could miss can be missed right
after the `memset`. Memory is taken to be ordered as in the program. `want` is what the loaded
configuration had for the group when it was looked up; `during`, `mixed` and `raced` say what
overlapped. A copy that fails leaves its socket open (`leaked`), until `socket` fails too.

### LinuxClient
`multic_admin`, the reload tool, the file, the thread that loads the table, and workers that
look a packet's server and port up. Workers only read, so they cannot disturb one another, and
one is enough for TLC. `__lookup_ip_port_node` compares a key of two fields, so the walk is taken
apart into its loads: `created` (`ReadsCreated`), `server_ip` (`ReadsServer`), `server_port`
(`ReadsServerPort`), row after row, and then `multi_ip` and `multi_port`. A worker that comes to a
row before a reload and compares the port after it can match a key that is in neither row, and
send to another key's group; the run contains this. `mixed` records it: it is set when the loader
clears a bucket or stores half of an update while a worker is at a row, and when a worker comes to
a row while the table is being cleared, which `memset` does in no promised order. Nothing else is
excused: a row passed before does not matter for the one that matches. `AddsNode` is one step,
since it fills a row with `created` 0, whose stores only a worker that was there before the row
was cleared can see, and that one is mixed already. Ends of the process are modelled where the code has them: a division by
port 0 in the hash (`DividesByZero`, from a file; `HearsPortZero`, from a packet), a start
without a readable file, `shutClient.sh`. A full bucket makes `add_multi_node` loop for ever
(`AddSpins`), as in the kernel.

### WinQueues
`entry()` and the threads it starts. The order of its parts matters: capture threads run before
`gqueue_num` is lowered from the number of processors to `QUEUE_COUNT` (`WritesOutside`), and
the device list is freed by whoever counts `finish_flag` up to the number of devices, or by any
thread whose `pcap_open` fails. In the rings `element_count++` and `element_count--` are a load
and a store; `overlapped` names the queues in which two updates met. A packet is a number that
fits into an element of a ring.

`MCUserland` joins the last three for TLC. The programs run on different machines and share no
variable, so one of them, chosen at the start, runs while the others rest: the state spaces
add up and are not multiplied.

## 4. The runs

| Run | Question | Result |
|---|---|---|
| `server_table` | Does any sequence of requests break the table, in the shape of the real constants? | pass: `TypeOK`, `EveryGroupFound`, `IndexesDistinct`, `BitmapExact`, `ListsMatch`, `NeverSpins`, refinement `ImplementsGroups` |
| `server_show` | What do LIST and SHOW print beside requests, refused ones among them? | pass: `AnswersTrue`, `RefusedOnlyWhenFull` |
| `server_add_spins` | Does the row loop always end, as its comment says? | violated: with `RowMod` rows taken it runs for ever under the lock |
| `server_index_shared` | Do groups below the announced limit keep their own lists? | violated: index `IdxMod` is stored as 0 |
| `server_forward` | What do packets under way do to the counters while requests change the table? | pass: `ForwardTypeOK`, `ExactUnlessOverlapped`, `CountsOwnCopies` |
| `client_table` | What does the check outside the lock cost? | pass: the limit is exceeded by the senders less one (`OvershootBounded`), the table stays sound and implements `ClientBindings` |
| `client_forward` | Are the client's counters right beside requests? | pass: `ForwardTypeOK`, `TotalCoversNodes`, `CountsOwnUnlessMixed` |
| `client_move_counts` | Does a node keep its counters when a deletion moves it? | violated: a group nobody touched loses its count |
| `server_admin` | When do file and kernel part, and do stop and start preserve the service? | pass: `AdminTypeOK`, `InSyncUnlessStale`, `StopSavesServed`, `RecoveryComplete`, `RefusedByFileFirst` |
| `client_admin` | When do file and kernel part with rollbacks? | pass: `AdminTypeOK`, `InSyncUnlessStale` |
| `linux_server` | Do unlocked commands, reloads and restarts of the userland server end where they should? | pass: `AdminTypeOK`, `AskedIsKept`, `JoinedIsServed`, and under fairness `LoadedInTheEnd`, `RestartedInTheEnd` |
| `userland` | What do threads without locks make of table, counters, file and rings? | pass: `ForwardTypeOK`, `ExactAtRest`, `WholeOrNothing`, `CountersExact` (Linux server); `ServesTheFile`, `SentAsConfigured` (Linux client); `QueueIsFifo`, `ListOutlivesReaders` (Windows) |

Every property has a mutant, a plausible bug in a definition (`..._Hole`, `..._Leak`), under
which its run fails.

Behaviour met while modelling `ServerAdmin` and `ClientAdmin` that the histories name rather
than forbid: `multis start` on a running service removes its configuration before it finds the
module loaded; stop, any command, stop again leaves an empty startup configuration; a client
`-A` that the kernel answers with "exists" deletes the entry it should have kept; a client `-D`
that the kernel refuses stores the address 0.0.0.0; a `-D` killed between file and kernel
cannot be repeated, as the file no longer has the group.

Likewise of the userland programs: a command killed between truncation and write loses the
configuration, and the monitor then restarts for ever a proxy that exits at once; `-D` of one
group sets the `server_port` of all others to 7126; a reload before the startup has joined its
groups leaves memberships that the table does not have; so does a refused
`IP_DROP_MEMBERSHIP`, and a refused `IP_ADD_MEMBERSHIP` a group of the table that hears nothing
until the next reload; the client's `-A` does nothing when all
entries of the file have the same server and group port; an existing node keeps its old port
(`MULTI_NODE_EXSIT`); a failed send leaks its socket and skips the remaining members; a worker
that overlaps the clearing may send a packet to another group's members or to 0.0.0.0; the
Windows threads may write behind the array of rings while `gqueue_num` exceeds `QUEUE_COUNT`,
and packets put into a queue above the final `gqueue_num` are never handled.

**Bounds.** Three groups, two of them in one bucket or all in one, are the fewest that make a
deletion move a row past another and leave one behind; three addresses with lists of two make
both a duplicate and an overflow. Two CPUs and two packets give every overlap of two
increments and an index that changes hands under a packet; more packets repeat it. Five client
keys, three colliding, with a limit of two give the overshoot and the row that cannot be
reached. In `server_admin` requests on different groups meet only in the file's lock, `-C`
and the number of groups, so there are two groups of which the limit lets one exist, lists of one
entry, two tools (or one and the recovery's), two commands and one accident: one command can save a
group and the next take its room while the recovery adds it, or meet another stray. There is an inode
more than tools, so that a new file can always have one that nobody has open, and inodes are used
again. That a request the file accepts is refused because of one on the other group that the kernel
has not heard of needs a third command (TLC finds it among nine million states): it is an exception
of `RefusedByFileFirst` that this run does not need and the proof does. What lies beyond these bounds is proved (section 5).
`client_admin`, where the limit interacts with the rollback, has three keys, a limit of two and
two accidents. In `server_show` three groups contend for the two rows of one bucket, two share the other, and
three indexes serve four rows, so that both refusals occur; two readers overlap, and beside one
reader's request the table changes up to twice. In `linux_server` two commands of six kinds,
with duplicate members, on a shipped and a new group, and two faults: a third command only adds
another overwriting of the kind that two make. In `userland` two groups collide in one bucket and
the second file repeats a group, once with members to join and once with too many; two workers
and two packets race on every counter; three client keys collide in a bucket of two rows; two
devices, two rings of two elements, machines with fewer and with more processors than rings, and
three packets fill a ring and wrap it. `MaxPackets`, `MaxKills`, `MaxAccidents`, `MaxBeside`,
`MaxCommands`, `MaxFaults`, `MaxReloads` and `MaxCaptured` are the only bounds that are not
parameters of the code (`Backlog` is `MAX_CONN`, `FdMax` the process's limit of descriptors).
Symmetry is over interchangeable model values and used only where no liveness is checked; the views of the two kernel administration runs drop `ret`, which no step
reads, and the view of `server_show` drops which index a group has, entries of the reply that
nobody will read, and the history of readers of which no property asks anything any more.

**Fairness.** Safety properties assume none; that a kernel request ends is stated as
`NeverSpins`, since the only way not to end is the loop. `linux_server` assumes weak fairness of
each command's steps once it has begun, of the main thread, of the reload thread and of the
monitor: they are processes and threads of one machine, each step a system call or a stretch of
code that the scheduler gets to, and none is disabled by another in between. Nothing is assumed
to begin: no command has to be given, no service started, nothing has to fail, and faults are
bounded. `LoadedInTheEnd` and `RestartedInTheEnd` have the form `<>[]P => ...`, because the
code promises nothing while the proxy or the monitor keeps being stopped.

## 5. What is proved

Seven modules, `..._proofs` each, prove what follows for every value of the constants that
satisfies the assumptions of the module they extend (`ServerAssumption`, `ClientAssumption`,
`ForwardAssumption`, `ShowAssumption`, `AdminAssumption`, `ClientAdminAssumption`,
`LinuxAssumption`, `WinAssumption`), hence for the real ones; `FoldLemmas` holds lemmas that five of them share:

* **Server** (`ServerKernel_proofs`), under `IndexesFit` (no more groups at once than bits in
  the word and values of `multi_grp_idx`). The inductive invariant `IInv` is `TypeOK`, `EveryGroupFound`,
  `IndexesDistinct`, `BitmapExact` and `ListsMatch` together; none is inductive alone: an
  index from the bitmap is unowned only because the bitmap is exact, a count is right after a
  deletion only because the index had one owner, a decrement stays above 0 only because the
  count is the length of the list, and the row that moves is found again only because buckets
  have no holes. `TableTypeCorrect`, `TableFindsEveryGroup`, `TableIndexesOwned`,
  `TableBitmapExact` and `TableListsMatch` follow. `TableNeverSpins` needs `RowsFit` too, and
  counts: a full scan of rows would need more groups than can exist. `TableRefusesOnlyWhenFull` and
  `TableImplementsGroups` (initial state and every step map to the abstract service) use `IInv`
  before and after the step. Within `RoomInBuckets` the service is the exact one: as many groups
  exist as indexes are in use (`GroupsHaveIndexes`, a bijection), so a free index means room and
  no free index a full table, and a full bucket would hold more groups than can exist. The
  modules of the kernel and of its administration are thus joined by proof: `ServerAdmin` assumes
  of the kernel what `ServerTable` is proved to do.
* **Member lists** (`ServerKernel_proofs`), for any set of members and any length:
  `LoopsAreSetOperations` justifies that the table keeps sets. The invariant of
  both loops is `InOrder` (the entries in use are different members, the others free), which is
  what a count equal to the number of members comes to (`OrderIs`); `add_vm_ip_list` needs
  besides that a request names nobody twice, since it looks only at what the list held at the
  start, and that there is room for all.
* **Client** (`ClientKernel_proofs`), for any sizes with `RowMod` at most `GrpDepth` (256 and 512 in the code: the row
  loop cannot end on a full bucket). `IInv` is `ClientTypeOK`, `EveryNodeFound`,
  `NodeCntExact` and `OvershootBounded`; the theorems are `ClientTypeCorrect`,
  `ClientFindsEveryNode`, `ClientCountsNodes`, `ClientOvershoot` and
  `ClientImplementsBindings`. They hold for any number of senders let in together.
* **Server hook** (`ServerKernel_proofs`), under `IndexesFit` and for finitely many CPUs. The
  invariant is the table's `IInv` with `HookTypes`, `TotalInv` and `StatsInv`. For the total:
  what has been counted, or loaded to be counted, and the packets that still owe a count never
  exceed the copies handed out; while nobody has overlapped, one CPU at most counts and holds
  the current value. For a group's counter: a packet that is not stale holds an index in use,
  so a request can only free it and mark the packet stale (`RequestIndexes`: a request gives
  indexes back or hands them out exactly as the bitmap does, and with a count of 0).
  `CountsNeverInvented` and `GroupsCountOwnCopies` follow. The bounds of the type invariant are
  not inductive either, since a CPU may store what it loaded long ago plus one: `BoundInv` says
  that each counter, and each value of it that somebody still holds, leaves room for the packets
  it waits for (`ToCount`) and for every member not yet served (`Unserved`), for whom it may be
  incremented once. A list taken over has at most `VmMax` members, because its count is its
  length. `HookTypeCorrect` follows.
* **Server's replies** (`ServerKernel_proofs`), under `IndexesFit` and for a reply with room for
  every group (`GrpMax <= VmMax`; both are 1024 in the code), for any number of readers and
  requests beside them. `ShowInv` adds to the table's `IInv` what a reader holds at each step.
  `Walked` follows a lone SHOW through a table that changes: in the bucket it is at, a group is
  listed exactly when its row has been passed, beyond that bucket not at all, and behind it if
  it has been there since the beginning. Additions keep this because they take the first free
  row, which is never behind the reader; only the loss of a row can break it, and `lost` names
  the bucket. `Steady` is about SHOWs that overlap on an unchanged table: each writes the
  same entries at the same places (`Place`), so that none overwrites another's with anything else.
  `MixInv`: who is not mixed is alone. `ShowAnswersTrue` follows; that the places are filled
  without a gap is a matter of cardinalities (`OnePlace`, `PlacesFilled`).
* **Client hook** (`ClientKernel_proofs`), for finitely many CPUs. `OwnInv` says that the count
  of a row that was not mixed, with the packets found for its key and still to be counted, is at
  most the packets rewritten for that key. It is kept because of `RowsFollow`: after a request
  each row keeps node and count, or is new with a count of 0, or was moved, which marks it
  mixed. `NodesCountOwnPackets` follows. For the total, `TotalInv`: nobody, not even a CPU that
  loaded `rx_packets` long ago, is ahead of the packets rewritten (`NeverAhead`); and while nobody
  has overlapped, one CPU at most counts, on the current value, and the rows' counts together with
  the packets still to be counted in a row are at most `rx_packets` (`RowsCovered`). A request
  never adds to the sum over the rows: it takes the counts of deleted nodes away, and a node
  that moves takes over the count of the row it comes to (`RequestInherits`). `HookTypeCorrect`
  and `NodesWithinTotal` follow.
* **Server administration** (`ServerAdmin_proofs`), for any number of tools, commands and
  accidents, and any finite sets of groups and members. The agreement of file and kernel is not
  inductive: while tools are between the two, it says nothing of their groups. The invariant says
  what then holds. `SyncInv`: the requests that tools have yet to tell the kernel, in the order
  in which they wrote the file, lead from the kernel's entry of a group to the file's (`Leads`: a
  chain of entries, each request allowed on the one before it and turning it into the next), for
  every group that is not stale; after an orderly `rmmod` the chain starts from the table as it
  was. The file's entry is that of `written`, what the file had before the rewriting that is under
  way, which is what it has otherwise (`FileInv`). `LockInv`: an inode has one holder of its lock.
  `StrayInv`: unless everything is stale, no tool has a file open that is gone; with `LockInv` only one
  tool then writes at a time, and `WriterInv`, that it has a current copy, is inductive. `OutInv`:
  who writes a file that was renamed or removed has it open no more under its name, and a tool that has
  the running file open sees to it that there is one. `ScriptInv`: an absent file agrees with the kernel all the same. A request leaves
  the front of its group's chain when the kernel is told in order, and joins at its end when it is
  written; what breaks the chain is an accident that the history names. `AdminTypeCorrect`,
  `FileAndKernelAgree`, `StopSavesTable` and `FileRefusesFirst` follow.
* **Recovery** (the second half of `ServerAdmin_proofs`), on top of that invariant. `RecoverInv`: the kernel has
  what was saved of each group that the recovery has added, nothing of those it has not, and the
  file refuses none, as long as accidents and other tools leave the group alone; `ChildInv`,
  `CopyInv` and `StartInv`: the recovery runs one command at a time, only `-C` takes the array
  away, and what other tools do during a start is in `touched`, so that the groups in the file are
  at most the saved ones and theirs. `RecoveryServesSaved` follows.
* **Client administration** (`ClientAdmin_proofs`), for any number of tools, commands and
  accidents and any finite set of keys. Agreement of file and kernel is not inductive: while
  tools are between the two, it says nothing of their keys. `OrderInv`: the order names each
  tool that has changed the file and is not through exactly once. `SyncInv` then says, for
  every key that no accident has parted, that the file has what the last of the tools under way
  makes of it, or, when there is none, what the kernel has; and that a tool about to take an
  addition back is the first of those under way, with nothing of its key in the kernel, which is
  why deleting the key from the file restores the agreement. `ClientAdminTypes` and
  `ClientFileInSync` follow.
* **Linux server's administration** (`LinuxAdmin_proofs`), for any number of tools, commands and
  accidents, any finite set of groups and any requests within it, and any shipped file that names
  a group once; all three safety properties of the component are proved. `ToolTypeInv` and
  `ProxyTypeInv` say more than the types: file, copies and table name a group once, which
  `json_add_list` keeps because it looks first. `ListInv`: every index with which startup or
  reload reads `groupIp` lies in the list it has read, and the list names no group twice, so that
  dropping one membership drops no other. `JoinInv` says at each step of startup and reload how
  far the memberships have got, up to the groups in `refused`, which is what makes them those of
  the list at its end, unless the two have crossed. `AskedIsKept` is not inductive, since it says nothing of commands between
  reading and writing: `AskedInv` adds `CopyOK`, that what a command is going to write is what
  its user expects, but for the groups written since it read. Its steps need what the loops of
  `json_add_list`, `json_del_list` and `json_del_multicast` compute for lists of any length.
  `LinuxAdminTypes`, `LinuxAskedIsKept` and `LinuxJoinedIsServed` follow.
* **Linux server's data path** (`UserlandServers_proofs`), for any finite number of workers, any
  set of files within the arrays that `cfg_init` fills, and any limits; all four properties of
  the component are proved. `TableInv` describes the table in every state of a reload: which
  buckets have not been cleared (`Intact`), that these have no holes, one row for each group an
  entry of which has been seen, one owner for each index, and in each row the members of the
  entries loaded so far (`RowsRight`, `Listing`), with the port of the group's first entry;
  `BitmapFits` bounds the indexes by the entries, so that one is always free. `ShapeInv` says what
  a worker holds at each of its steps. They give `ForwardTypes` and `ExactWhenAtRest`.
  `WalkInv` follows a lookup through a table that changes underneath it: unless something has
  been cleared, the row it stopped at stays its group's and the number it read is that of the
  members which the row had at some time (`Sees`); `WholeListOrNothing` follows. `LedgerInv`: a
  counter is never ahead of what happened, not even when a worker puts back a value it read
  long ago plus one (`NeverAhead`), and without a race counters and what workers still owe make
  up what happened (`Balance`); `StatisticsAddUp` follows.
* **Windows server** (`UserlandServers_proofs`), for any numbers of devices, processors and queues and
  any size of the rings. `ThreadsInv`: `entry` creates every thread once and in order, and none
  outlives the process. `DevicesInv`: `finish_flag` is the number of capture threads that have
  got past it; `DeviceListOutlivesReaders` follows by cardinality. `QueueInv`: in a queue not
  overlapped one capture thread at most is inside `EnQueue`, and head, tail and count tell which
  packets the ring holds; with `PrefixInv`, `QueuesAreFifo`.
* **Linux client** (`LinuxClient_proofs`), for any number of tools, commands, starts and workers,
  any finite set of keys and any table. `Fresh` is what a file read without a lock comes to:
  unless a request to reload was missed or waits, or a tool has yet to write or to ask, what was
  read last is what the file says. `TableInv` is the table in every state of a load: no gaps, one
  row for each key an entry of which has been seen, and in each row the group and port of
  one of the entries that `add_multi_node` has taken for the key, the row it is at between its
  two stores excepted. `ClientServesTheFile` follows from both. `LookupInv` follows a worker through
  a table that changes underneath it: unless the table was being cleared or its node updated, what
  it has loaded of its row is what the row still has (`Shows`, `Sees`), so that the fields it has
  compared, the group and the port are of one row; `ClientSendsAsConfigured` follows.

Both violations of the server's table show that `IndexesFit` and `RowsFit` cannot be dropped.

The library's induction theorems cannot be used here, since they take an operator as a parameter.
The proofs about the Linux programs, and about the loops over a member list, need what folds
compute for a sequence of any length, and `FoldLemmas` obtains induction otherwise: strict inclusion on the subsets
of a finite set is well-founded, so a non-empty set of naturals has a least element
(`LeastNatural`), and the set of lengths for which a statement fails is empty (`Induction`). A
second lemma (`Iterates`) gives the function that a fold chooses, and with the two each fold is
characterised by its values on a sequence and on the sequence with one entry more. The client
hook's total needs a sum over all rows, whose value does not depend on the order in which the fold
takes them: from a smallest set for which it did, `FoldLemmas` derives that a sum loses the
value of an entry that is taken away (`SumRemoves`) and does not grow when each entry that is
left is 0 or no more than it was (`SumAtMost`).

Every invariant and every action property of the passing runs is stated by a theorem. Only
model-checked are the liveness properties `LoadedInTheEnd` and `RestartedInTheEnd` of
`linux_server`: liveness under fairness, and `ENABLED`, are out of the prover's reach.

## 6. What is not modelled

* The kernel client's start, stop and recovery: script and recovery are the server's line for
  line (`ServerAdmin`), with a key and a port where the server has a list.
* The Windows server's table, reload and counters: they are the Linux server's
  (`LinuxServerForward`) but for the hash and the key, which take the port too, and a bitmap of
  32 bits, which wraps at 32 groups as the kernel's does at 64 (`ServerTable`, `BitmapBits`).
* The VRRP patch, and the VRRP branches of the Linux proxies, which are dead code: a raw socket
  of `IPPROTO_UDP` receives nothing else.
* Header rewriting, checksums, `ttl`, `tos`: pure functions of a packet.
* Lengths of messages and of the recovery's command line. The Linux client's copy of datagrams
  too long for its buffer is modelled as a packet with any key (`Hears`).
* Registration and removal of hooks and sockets (`multis.c`, `multic.c`), packaging, the Windows
  reload tool, list connections of the userland proxies (they print counters), `json-c`
  (external).

Assumed of the userland programs: a file within the arrays that `cfg_init` fills, no second `-R`
beside a running proxy, and packets of at most 2048 bytes in the Windows rings.
