----------------------------- MODULE MCUserland -----------------------------
(***************************************************************************)
(* The programs that forward packets in user space: the Linux server       *)
(* proxy, the Linux client proxy and the queues of the Windows server      *)
(* proxy.  They run on different machines and share no variable, so one of *)
(* them runs at a time: `runs' is chosen at the beginning.                 *)
(***************************************************************************)
EXTENDS LinuxServerForward, LinuxClient, WinQueues, TLC

CONSTANTS g1, g2, v1, v2, v3, w1, w2, s1, s2, m1, m2

VARIABLE runs

\* The Linux server.  Two groups collide; in the second file one of them has more entries:
\* one that is joined to the first and one that is too long.
MCHash == [g \in Groups |-> 0]
E1 == [ip |-> g1, port |-> 1, members |-> <<v1, v2>>]
E2 == [ip |-> g2, port |-> 2, members |-> <<v3>>]
E3 == [ip |-> g2, port |-> 3, members |-> <<v3, v1>>]
MCConfigs == {<<E1, E2>>, <<E2, E3, E3>>}
MCPackets ==
  {[to |-> g1, rebuilt |-> FALSE], [to |-> g2, rebuilt |-> FALSE], [to |-> g2, rebuilt |-> TRUE]}
WorkerSymmetry == Permutations(Workers)

\* The Linux client.  Three keys collide in a bucket of two rows; one key has two entries;
\* one file has port 0.
MCKeyHash == [k \in Keys |-> IF k.server = s2 /\ k.sport = 2 THEN 1 ELSE 0]
F(s, g, p, m) == [server |-> s, gport |-> g, sport |-> p, ip |-> m]
MCFiles == {<<F(s1, 2, 0, m1)>>, <<F(s1, 1, 1, m1), F(s2, 1, 1, m1), F(s1, 2, 1, m2)>>}
MCAdditions == {F(s1, 1, 2, m2), F(s1, 3, 1, m1)}
MCDeletions == {[server |-> s1, gport |-> 1]}

UserlandInit ==
  /\ ForwardInit /\ ClientInit /\ WinInit
  /\ runs \in {"linux server", "linux client", "windows server"}
  \* The others stay as they are, in one of their initial states.
  /\ runs = "linux client" \/ client_cfg = Cut
  /\ runs = "windows server" \/ winmain.cpus = CHOOSE n \in Processors : TRUE

UserlandNext ==
  /\ UNCHANGED runs
  /\ \/ runs = "linux server" /\ ForwardNext /\ UNCHANGED <<clientVars, winVars>>
     \/ runs = "linux client" /\ ClientNext /\ UNCHANGED <<forwardVars, winVars>>
     \/ runs = "windows server" /\ WinNext /\ UNCHANGED <<forwardVars, clientVars>>

UserlandSpec == UserlandInit /\ [][UserlandNext]_<<runs, forwardVars, clientVars, winVars>>
=============================================================================
