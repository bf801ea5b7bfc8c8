------------------------- MODULE MCLinuxServerAdmin -------------------------
(***************************************************************************)
(* Instance of LinuxServerAdmin for TLC: g1 is the group of the shipped    *)
(* configuration.                                                          *)
(***************************************************************************)
EXTENDS LinuxServerAdmin, TLC

CONSTANTS g1, g2, v1, v2, NoG

MCShipped == <<[ip |-> g1, port |-> 1, members |-> <<v1>>]>>

MCRequests ==
  {[cmd |-> "join", g |-> g1, R |-> <<v2, v2>>, port |-> 1],
   [cmd |-> "join", g |-> g2, R |-> <<v1, v1>>, port |-> 0],
   [cmd |-> "quit", g |-> g1, R |-> <<v1>>, port |-> 0],
   [cmd |-> "del", g |-> g2, R |-> <<>>, port |-> 0],
   [cmd |-> "clear", g |-> NoG, R |-> <<>>, port |-> 0],
   [cmd |-> "show", g |-> NoG, R |-> <<>>, port |-> 0]}
=============================================================================
