----------------------------- MODULE MCConnect -----------------------------
(* Instances of Connect, and with it of Rendezvous, for TLC. *)
EXTENDS Connect

CONSTANTS a, host, other, alias, k1, k2

\* Bound: a second wormhole is enabled only beside a process that has not begun,
\* with nothing saved and nothing pinned, and then only the rendezvous moves.  A
\* poll looks at the kind of one record, which one wormhole makes take all its
\* values.
Apart ==
  Len(codes') > 1 =>
    /\ cl' = Idle
    /\ book' = [m \in Names |-> NoNode] /\ pins' = [n \in Nodes |-> NoKey]

MCSpec == ConnectInit /\ [][ConnectNext /\ Apart]_allvars /\ ConnectFairness
=============================================================================
