----------------------------- MODULE Connection -----------------------------
(***************************************************************************)
(* One connection of the server as a whole: side streams that pass the     *)
(* authentication gate (SideStreams) and the content-addressed transfers   *)
(* that the dispatched ones carry (Blobs).  The task of a stream calls the *)
(* transfer handler and ends when it has returned, so a transfer moves     *)
(* only on a stream that is served, and such a stream is over only when    *)
(* its transfer is.                                                        *)
(***************************************************************************)
EXTENDS SideStreams, Blobs

\* the streams that may carry a transfer are side streams
ASSUME ConnectionAssumption == Streams \subseteq Sides

connVars == <<sideVars, vars>>

ConnInit == SideInit /\ Init

\* handle_transfer_stream runs on s
Carries(s) == kind[s] = "transfer" /\ stream[s] = "serving"

\* no transfer handler is at work on s
Idle(s) == s \in Streams => tx[s].pc \in {"new", "done"}

\* the dispatch returns: the transfer, if there was one, is over
Returns(s) == Served(s) /\ Idle(s)

SideMoves == (Around \/ \E s \in Sides : Arrives(s) \/ Returns(s)) /\ UNCHANGED vars

BlobMoves(s) == Carries(s) /\ (Begins(s) \/ Works(s) \/ Lose(s)) /\ UNCHANGED sideVars

ConnNext == SideMoves \/ \E s \in Streams : BlobMoves(s)

ConnSpec == ConnInit /\ [][ConnNext]_connVars

(***************************************************************************)
(* Fairness: as in the two parts.  The runtime polls a task that can go    *)
(* on; once the connection is closed every read fails.                     *)
(***************************************************************************)
ConnFairness ==
  /\ WF_connVars(ListenerEnds /\ UNCHANGED vars)
  /\ WF_connVars(Closed /\ SessionEnds /\ UNCHANGED vars)
  /\ \A s \in Sides :
       /\ WF_connVars((Accept(s) \/ PassGate(s) \/ GateFails(s)) /\ UNCHANGED vars)
       /\ WF_connVars(Closed /\ (MagicFails(s) \/ Returns(s)) /\ UNCHANGED vars)
  /\ \A s \in Streams :
       /\ WF_connVars(Carries(s) /\ Proceeds(s) /\ UNCHANGED sideVars)
       /\ WF_connVars(Closed /\ Carries(s) /\ Lose(s) /\ UNCHANGED sideVars)

FairConnSpec == ConnSpec /\ ConnFairness

-----------------------------------------------------------------------------
(***************************************************************************)
(* Properties                                                              *)
(***************************************************************************)

\* Until the session's handler has accepted the client, and as long as it
\* lives, its side streams do nothing: none is served, and the budget, the
\* store and every destination are as the connection found them, whatever
\* the peer has opened and sent meanwhile (side_streams.rs:63-76,
\* handler/mod.rs:90-103, transfer/state.rs:44).
Untouched == GateHolds /\ (ssh = "up" /\ ~gate => Init)
=============================================================================
