---------------------------- MODULE SideStreams ----------------------------
(***************************************************************************)
(* The side streams of one connection (src/src/server/side_streams.rs):    *)
(* the listener that accepts them, the task of each that reads its magic,  *)
(* waits at the authentication gate and dispatches it, and the SSH session *)
(* whose handler owns the sender of the gate.                              *)
(***************************************************************************)
EXTENDS FiniteSets

CONSTANTS
  Sides,      \* side streams the peer may open
  Kinds         \* what their magic says: metadata, transfer or unknown

ASSUME SideStreamsAssumption == Kinds \subseteq {"metadata", "transfer", "unknown"}

VARIABLES
  conn,      \* the connection: open or closed
  ssh,       \* the handler of the SSH session, owner of the gate's sender
  gate,      \* the gate's value: authentication has succeeded
  listener,  \* whether the listener runs
  kind,      \* the magic of each stream, once read
  stream,    \* how far each stream is
  early      \* history: streams dispatched before authentication succeeded

sideVars == <<conn, ssh, gate, listener, kind, stream, early>>

SideInit ==
  /\ conn = "open" /\ ssh = "up" /\ gate = FALSE /\ listener = TRUE
  /\ kind = [s \in Sides |-> "unknown"]
  /\ stream = [s \in Sides |-> "none"]
  /\ early = {}

(***************************************************************************)
(* The gate                                                                *)
(***************************************************************************)

\* mutants: a gate nobody looks at, a waiter nobody wakes, a listener deaf to
\* the end of the connection
MayPass_Always == TRUE
Wakes_OnDropOnly == ssh = "ended"
Closed_Never == FALSE

\* borrow: passes at once if the gate is open
MayPass == gate

\* wait_for returns when the value turns true, or with an error when the
\* sender is dropped; either result is ignored
Wakes == gate \/ ssh = "ended"

\* connection.closed()
Closed == conn = "closed"

(***************************************************************************)
(* The peer and the SSH session                                            *)
(***************************************************************************)
ConnCloses ==
  /\ conn = "open"
  /\ conn' = "closed"
  /\ UNCHANGED <<ssh, gate, listener, kind, stream, early>>

\* auth_publickey or auth_password accepts
AuthSucceeds ==
  /\ ssh = "up" /\ ~gate
  /\ gate' = TRUE
  /\ UNCHANGED <<conn, ssh, listener, kind, stream, early>>

\* accept() returns: the session is over, or there was no wormhole to pair by;
\* the listener keeps its own handle on the connection
SessionEnds ==
  /\ ssh = "up"
  /\ ssh' = "ended"
  /\ UNCHANGED <<conn, gate, listener, kind, stream, early>>

PeerOpens(s) ==
  /\ conn = "open" /\ stream[s] = "none"
  /\ stream' = [stream EXCEPT ![s] = "opened"]
  /\ UNCHANGED <<conn, ssh, gate, listener, kind, early>>

(***************************************************************************)
(* The listener and the tasks it spawns                                    *)
(***************************************************************************)
Accept(s) ==
  /\ listener /\ ~Closed /\ stream[s] = "opened"
  /\ stream' = [stream EXCEPT ![s] = "reading"]
  /\ UNCHANGED <<conn, ssh, gate, listener, kind, early>>

ListenerEnds ==
  /\ listener /\ Closed
  /\ listener' = FALSE
  /\ UNCHANGED <<conn, ssh, gate, kind, stream, early>>

Dispatch(s, k) ==
  /\ stream' = [stream EXCEPT ![s] = IF k = "unknown" THEN "done" ELSE "serving"]
  /\ early' = IF gate \/ k = "unknown" THEN early ELSE early \cup {s}

\* the magic is complete: on to the gate, and through it if it is open
ReadMagic(s, k) ==
  /\ stream[s] = "reading" /\ ~Closed
  /\ kind' = [kind EXCEPT ![s] = k]
  /\ IF MayPass
       THEN Dispatch(s, k)
       ELSE stream' = [stream EXCEPT ![s] = "gate"] /\ UNCHANGED early
  /\ UNCHANGED <<conn, ssh, gate, listener>>

\* the peer ends the stream before four bytes, or the connection ends
MagicFails(s) ==
  /\ stream[s] = "reading"
  /\ stream' = [stream EXCEPT ![s] = "done"]
  /\ UNCHANGED <<conn, ssh, gate, listener, kind, early>>

\* the select at the gate is not biased: if both are ready, either may win
PassGate(s) ==
  /\ stream[s] = "gate" /\ Wakes
  /\ Dispatch(s, kind[s])
  /\ UNCHANGED <<conn, ssh, gate, listener, kind>>

GateFails(s) ==
  /\ stream[s] = "gate" /\ Closed
  /\ stream' = [stream EXCEPT ![s] = "done"]
  /\ UNCHANGED <<conn, ssh, gate, listener, kind, early>>

\* the metadata is written or the transfer is over, or either fails
Served(s) ==
  /\ stream[s] = "serving"
  /\ stream' = [stream EXCEPT ![s] = "done"]
  /\ UNCHANGED <<conn, ssh, gate, listener, kind, early>>

\* the connection, its session and its listener
Around == ConnCloses \/ AuthSucceeds \/ SessionEnds \/ ListenerEnds

\* a stream on its way to its handler
Arrives(s) ==
  \/ PeerOpens(s) \/ Accept(s) \/ \E k \in Kinds : ReadMagic(s, k)
  \/ MagicFails(s) \/ PassGate(s) \/ GateFails(s)

SideNext == Around \/ \E s \in Sides : Arrives(s) \/ Served(s)

SideSpec == SideInit /\ [][SideNext]_sideVars

-----------------------------------------------------------------------------
(***************************************************************************)
(* Properties                                                              *)
(***************************************************************************)

\* The type of every variable; only streams of a known kind are served.
SideTypeOK ==
  /\ conn \in {"open", "closed"} /\ ssh \in {"up", "ended"}
  /\ gate \in BOOLEAN /\ listener \in BOOLEAN
  /\ kind \in [Sides -> {"metadata", "transfer", "unknown"}]
  /\ stream \in [Sides -> {"none", "opened", "reading", "gate", "serving", "done"}]
  /\ early \in SUBSET Sides
  /\ \A s \in Sides : stream[s] = "serving" => kind[s] # "unknown"

\* As long as the session's handler lives, no stream is served before it has
\* accepted the client, whatever order the magic, the gate and the client's
\* authentication come in (side_streams.rs:66-76, handler/mod.rs:90-103).
GateHolds == ssh = "up" /\ ~gate => \A s \in Sides : stream[s] # "serving"

\* A stream that waits at the gate when authentication succeeds is woken: the
\* watch does not lose the change (side_streams.rs:66-76).
GateOpens ==
  \A s \in Sides : stream[s] = "gate" /\ gate ~> stream[s] # "gate"

\* After the connection nothing of it is left: the listener and the task of
\* every accepted stream end (side_streams.rs:20-25, 67-72).
TasksEnd ==
  conn = "closed" ~> /\ ~listener
                     /\ \A s \in Sides : stream[s] \in {"none", "opened", "done"}

\* "Never dispatch side streams before SSH authentication succeeds."
\* (side_streams.rs:63), over the whole life of the connection.
NeverEarly == early = {}
=============================================================================
