------------------------------ MODULE MCServer ------------------------------
(* Instances of Server for TLC: a client that enables a wormhole beside one *)
(* that asks for anything, in the daemon and in a foreground wormhole       *)
(* (cli/src/commands/wormhole.rs:260-262).                                  *)
EXTENDS Server

CONSTANTS c1, c2, s1

MCWorkload ==
  {[op |-> "enable", persistent |-> FALSE, from |-> c1],
   [op |-> "enable", persistent |-> TRUE, from |-> c2]}
    \cup [op : {"disable", "status", "shutdown"}, from : {c2}]

MCModes == {[ipc |-> TRUE, once |-> FALSE], [ipc |-> FALSE, once |-> TRUE]}
=============================================================================
