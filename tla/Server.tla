------------------------------- MODULE Server -------------------------------
(***************************************************************************)
(* The daemon's main loop, Server::run (src/src/server/mod.rs): one task   *)
(* that selects over explicit shutdown, control commands, pairing          *)
(* successes and pairing failures, owns the wormhole slot and decides when *)
(* the server stops.  Around it run the IPC listener, the accepted         *)
(* sessions (server/protocol.rs) and the broadcast and expiry tasks of     *)
(* each wormhole.  What the broadcast and the unpublish tasks make of the  *)
(* rendezvous is the subject of Rendezvous.                                *)
(***************************************************************************)
EXTENDS Integers, Sequences, FiniteSets

CONSTANTS
  Clients,           \* control connections, one command each
  Sessions,          \* P2P connections
  Pairing,           \* the ones on the pairing ALPN
  Workload,          \* the commands clients may ask for
  Handles,           \* bound: shutdown handles, each of which closes once
  NoClient,          \* nobody waits for an answer
  ControlCap,        \* capacity of the control channel (32 in the code)
  FailureLimit,      \* failures that exhaust a wormhole (3 in the code)
  Modes              \* how a server may be built: with the IPC listener or
                     \* without (ipc), to stop after a pairing or not (once)

\* a wormhole is named by its number (each client enables at most one); 0 is
\* the empty slot
Wormholes == 1 .. Cardinality(Clients)
NoWormhole == 0

Commands ==
  [op : {"enable"}, persistent : BOOLEAN, from : Clients]
    \cup [op : {"disable"}, from : Clients \cup {NoClient}]
    \cup [op : {"status", "shutdown"}, from : Clients]

ASSUME ServerAssumption ==
  /\ IsFiniteSet(Sessions) /\ Pairing \subseteq Sessions
  /\ NoClient \notin Clients
  /\ IsFiniteSet(Clients) /\ ControlCap \in Nat \ {0}
  /\ FailureLimit \in Nat \ {0}
  /\ Workload \subseteq Commands
  /\ Handles \in Nat
  /\ Modes \subseteq [ipc : BOOLEAN, once : BOOLEAN]

VARIABLES
  mode,         \* ipc_enabled and shutdown_on_wormhole_success, fixed when it is built
  loop,         \* where the main loop is
  replyTo,      \* who is answered once ipc_shutdown_tx.send returns
  requested,    \* shutdown_requested
  handles,      \* shutdown handles not used yet
  endpoint,     \* the endpoint: open, or about to be closed by a handle
  shutdownQ,    \* messages in the shutdown channel (capacity 1)
  control,      \* the control channel
  ipcUp,        \* the IPC listener runs (and holds its shutdown receiver)
  ipcQ,         \* messages in the IPC shutdown channel (capacity 1)
  successQ,     \* messages in the success channel (capacity 1)
  failureQ,     \* messages in the failure channel (capacity 1)
  senders,      \* spawned tasks still to send a success
  slot,         \* the active wormhole
  enabled,      \* whether each wormhole enabled so far is persistent
  failed,       \* failed_attempts of each wormhole
  broadcasting, \* wormholes whose broadcast task runs
  expiring,     \* wormholes whose expiry task sleeps
  client,       \* each control connection: done is answered, refused or given up
  session,      \* the state of each P2P connection
  seen,         \* the wormhole a pairing session read from the slot
  tracker,      \* the sessions the protocol's SessionTracker holds
  erred,        \* sessions with a failure of their own (last_failure is set)
  paired        \* history: sessions that put a key in the vault, and where

wormholeVars == <<slot, broadcasting, expiring>>
channels == <<shutdownQ, control, ipcQ, successQ, failureQ, senders>>
stopVars == <<handles, endpoint, mode>>
peers == <<session, seen, tracker, paired, failed, erred>>
vars == <<loop, replyTo, requested, channels, ipcUp, wormholeVars, enabled,
          client, peers, stopVars>>

Live == {"counted", "open", "pairing", "in"}
Active == {s \in Sessions : session[s] \in Live}
Persistent(g) == enabled[g]

Init ==
  /\ loop = "check" /\ replyTo = NoClient /\ requested = FALSE
  /\ shutdownQ = 0 /\ control = <<>> /\ ipcQ = 0
  /\ successQ = 0 /\ failureQ = 0 /\ senders = 0
  /\ mode \in Modes
  /\ ipcUp \in IF mode.ipc THEN BOOLEAN ELSE {FALSE}  \* bind may fail
  /\ slot = NoWormhole /\ enabled = <<>>
  /\ failed = [g \in Wormholes |-> 0]
  /\ broadcasting = {} /\ expiring = {}
  /\ client = [c \in Clients |-> "new"]
  /\ session = [s \in Sessions |-> "new"]
  /\ seen = [s \in Sessions |-> NoWormhole]
  /\ tracker = {} /\ erred = {} /\ paired = {}
  /\ handles = Handles /\ endpoint = "open"

(***************************************************************************)
(* Control connections.  The task of an accepted connection outlives the   *)
(* listener.  Its command goes into the control channel and it waits at    *)
(* most ten seconds for the answer; giving up leaves the command in the    *)
(* channel.  Without the listener the program that embeds the server uses  *)
(* the channel itself (control_handle).                                    *)
(***************************************************************************)
Connect(c) ==
  /\ client[c] = "new" /\ (ipcUp \/ ~mode.ipc)
  /\ client' = [client EXCEPT ![c] = "connected"]
  /\ UNCHANGED <<loop, replyTo, requested, channels, ipcUp, wormholeVars,
                 enabled, peers, stopVars>>

Submit(c, cmd) ==
  /\ client[c] = "connected"
  /\ loop # "closed" /\ Len(control) < ControlCap
  /\ control' = Append(control, cmd)
  /\ client' = [client EXCEPT ![c] = "waiting"]
  /\ UNCHANGED <<loop, replyTo, requested, shutdownQ, ipcQ, successQ,
                 failureQ, senders, ipcUp, wormholeVars, enabled, peers,
                 stopVars>>

Request(c) ==
  \E cmd \in Workload :
    /\ cmd.from = c
    /\ Submit(c, cmd)

\* the receiver of the control channel went with run
Refuse(c) ==
  /\ client[c] = "connected" /\ loop = "closed"
  /\ client' = [client EXCEPT ![c] = "done"]
  /\ UNCHANGED <<loop, replyTo, requested, channels, ipcUp, wormholeVars,
                 enabled, peers, stopVars>>

GiveUp(c) ==
  /\ client[c] = "waiting"
  /\ client' = [client EXCEPT ![c] = "done"]
  /\ UNCHANGED <<loop, replyTo, requested, channels, ipcUp, wormholeVars,
                 enabled, peers, stopVars>>

\* the answer is lost when its receiver has given up
Answer(c) ==
  client' = IF c \in Clients /\ client[c] = "waiting"
              THEN [client EXCEPT ![c] = "done"] ELSE client

\* ServerShutdown::close: the message, then the endpoint
Close ==
  /\ handles > 0 /\ shutdownQ = 0 /\ loop # "closed"
  /\ handles' = handles - 1
  /\ shutdownQ' = 1
  /\ endpoint' = IF endpoint = "open" THEN "closing" ELSE endpoint
  /\ UNCHANGED <<mode, loop, replyTo, requested, control, ipcQ, successQ, failureQ,
                 senders, ipcUp, wormholeVars, enabled, client, peers>>

CloseEndpoint ==
  /\ endpoint = "closing"
  /\ endpoint' = "closed"
  /\ UNCHANGED <<handles, mode, loop, replyTo, requested, channels, ipcUp,
                 wormholeVars, enabled, client, peers>>

\* the IPC listener stops on the message of the main loop
ListenerExit ==
  /\ ipcUp /\ ipcQ = 1
  /\ ipcUp' = FALSE /\ ipcQ' = 0
  /\ UNCHANGED <<loop, replyTo, requested, shutdownQ, control, successQ,
                 failureQ, senders, wormholeVars, enabled, client, peers,
                 stopVars>>

(***************************************************************************)
(* Sessions (SshProtocol::accept).  The router accepts until it is shut    *)
(* down.  A session is counted, then registered in the tracker of the      *)
(* protocol; a pairing session reads the slot and keeps what it read.      *)
(***************************************************************************)
Accept(s) ==
  /\ session[s] = "new" /\ endpoint # "closed"
  /\ session' = [session EXCEPT ![s] = "counted"]
  /\ UNCHANGED <<loop, replyTo, requested, channels, ipcUp, wormholeVars,
                 enabled, client, seen, tracker, paired, failed, erred,
                 stopVars>>

Register(s) ==
  /\ session[s] = "counted"
  /\ session' = [session EXCEPT ![s] = "open"]
  /\ tracker' = tracker \cup {s}
  /\ UNCHANGED <<loop, replyTo, requested, channels, ipcUp, wormholeVars,
                 enabled, client, seen, paired, failed, erred, stopVars>>

StartPairing(s) ==
  /\ session[s] = "open" /\ s \in Pairing
  /\ seen' = [seen EXCEPT ![s] = slot]
  /\ session' = [session EXCEPT ![s] =
                   IF slot = NoWormhole THEN "ended" ELSE "pairing"]
  /\ UNCHANGED <<loop, replyTo, requested, channels, ipcUp, wormholeVars,
                 enabled, client, tracker, paired, failed, erred, stopVars>>

\* mutant: a limit noticed one failure late
LimitReached_Late(n) == n > FailureLimit

\* is_locked_out; the counter is that of the wormhole the session read.  The
\* check and the count are one step here: UnifiedAuth takes them apart
MayAttempt(s) == session[s] = "pairing" /\ failed[seen[s]] < FailureLimit
LimitReached(n) == n >= FailureLimit

\* the key is vaulted, the monitor is told by a task of its own
PairingSucceeds(s) ==
  /\ MayAttempt(s)
  /\ session' = [session EXCEPT ![s] = "in"]
  /\ paired' = paired \cup {<<s, seen[s]>>}
  /\ failed' = [failed EXCEPT ![seen[s]] = 0]
  /\ senders' = senders + 1
  /\ UNCHANGED <<loop, replyTo, requested, shutdownQ, control, ipcQ, successQ,
                 failureQ, ipcUp, wormholeVars, enabled, client, seen,
                 tracker, erred, stopVars>>

\* a key of the vault or the node password: nothing new to tell
PairingKnown(s) ==
  /\ MayAttempt(s)
  /\ session' = [session EXCEPT ![s] = "in"]
  /\ failed' = [failed EXCEPT ![seen[s]] = 0]
  /\ UNCHANGED <<loop, replyTo, requested, channels, ipcUp, wormholeVars,
                 enabled, client, seen, tracker, paired, erred, stopVars>>

\* record_failure: try_send, which a full channel drops
PairingFails(s) ==
  /\ MayAttempt(s)
  /\ failed' = [failed EXCEPT ![seen[s]] = @ + 1]
  /\ erred' = erred \cup {s}
  /\ failureQ' = IF LimitReached(failed'[seen[s]]) /\ loop # "closed"
                   THEN 1 ELSE failureQ
  /\ UNCHANGED <<loop, replyTo, requested, shutdownQ, control, ipcQ, successQ,
                 senders, ipcUp, wormholeVars, enabled, client, session, seen,
                 tracker, paired, stopVars>>

\* a lockout window after its own failure, the session's next attempt clears the
\* counter, which the sessions of a wormhole share
LockoutDecays(s) ==
  /\ session[s] = "pairing" /\ s \in erred /\ failed[seen[s]] >= FailureLimit
  /\ failed' = [failed EXCEPT ![seen[s]] = 0]
  /\ UNCHANGED <<loop, replyTo, requested, channels, ipcUp, wormholeVars,
                 enabled, client, session, seen, tracker, paired, erred,
                 stopVars>>

SendSuccess ==
  /\ senders > 0 /\ successQ = 0 /\ loop # "closed"
  /\ senders' = senders - 1 /\ successQ' = 1
  /\ UNCHANGED <<loop, replyTo, requested, shutdownQ, control, ipcQ, failureQ,
                 ipcUp, wormholeVars, enabled, client, peers, stopVars>>

\* SessionGuard::drop: the count at once, the tracker by a task of its own
EndSession(s) ==
  /\ session[s] \in Live \ {"counted"}
  /\ session' = [session EXCEPT ![s] = "ended"]
  /\ UNCHANGED <<loop, replyTo, requested, channels, ipcUp, wormholeVars,
                 enabled, client, seen, tracker, paired, failed, erred,
                 stopVars>>

Unregister(s) ==
  /\ session[s] = "ended" /\ s \in tracker
  /\ tracker' = tracker \ {s}
  /\ UNCHANGED <<loop, replyTo, requested, channels, ipcUp, wormholeVars,
                 enabled, client, session, seen, paired, failed, erred,
                 stopVars>>

\* after 24 hours the expiry task sends a DisableWormhole nobody waits for
Expire(g) ==
  /\ g \in expiring /\ Len(control) < ControlCap /\ loop # "closed"
  /\ expiring' = expiring \ {g}
  /\ control' = Append(control, [op |-> "disable", from |-> NoClient])
  /\ UNCHANGED <<loop, replyTo, requested, shutdownQ, ipcQ, successQ,
                 failureQ, senders, ipcUp, slot, broadcasting, enabled,
                 client, peers, stopVars>>

\* the task cannot build its client or sign its record: it ends with a
\* warning, and the slot keeps a wormhole that nobody can find
BroadcastFails(g) ==
  /\ g \in broadcasting
  /\ broadcasting' = broadcasting \ {g}
  /\ UNCHANGED <<loop, replyTo, requested, channels, ipcUp, slot, expiring,
                 enabled, client, peers, stopVars>>

(***************************************************************************)
(* The main loop                                                           *)
(***************************************************************************)

\* mutants: a burn that forgets the broadcast task, an exit check on the
\* tracker instead of the count, a success burn of the wrong kind, a send that
\* waits for a listener, a shutdown that forgets who asked
Burn_KeepsTask ==
  IF slot = NoWormhole
    THEN UNCHANGED wormholeVars
    ELSE /\ expiring' = expiring \ {slot}
         /\ slot' = NoWormhole
         /\ UNCHANGED broadcasting
MayExit_Tracked == requested /\ tracker = {}
BurnsOnSuccess_Swapped == slot # NoWormhole /\ Persistent(slot)
CanSend_OnlyUp == ipcUp /\ ipcQ = 0
BeginShutdown_Forgets(c) ==
  requested' = TRUE /\ loop' = "notify_ipc" /\ replyTo' = NoClient

\* abort both tasks and empty the slot
Burn ==
  IF slot = NoWormhole
    THEN UNCHANGED wormholeVars
    ELSE /\ broadcasting' = broadcasting \ {slot}
         /\ expiring' = expiring \ {slot}
         /\ slot' = NoWormhole

MayExit == requested /\ Active = {}

Check ==
  /\ loop = "check"
  /\ loop' = IF MayExit THEN "drain" ELSE "select"
  /\ UNCHANGED <<replyTo, requested, channels, ipcUp, wormholeVars, enabled,
                 client, peers, stopVars>>

\* shutdown_requested is set and the loop awaits ipc_shutdown_tx.send
BeginShutdown(c) ==
  /\ requested' = TRUE
  /\ loop' = "notify_ipc"
  /\ replyTo' = c

RecvShutdown ==
  /\ loop = "select" /\ shutdownQ = 1
  /\ shutdownQ' = 0
  /\ BeginShutdown(NoClient)
  /\ UNCHANGED <<control, ipcQ, successQ, failureQ, senders, ipcUp,
                 wormholeVars, enabled, client, peers, stopVars>>

\* the send fails when the listener has dropped its receiver; without a
\* listener the receiver lives, unread, until run returns
ReceiverDropped == mode.ipc /\ ~ipcUp
CanSend == ReceiverDropped \/ ipcQ = 0

NotifyIpc ==
  /\ loop = "notify_ipc" /\ CanSend
  /\ ipcQ' = IF ReceiverDropped THEN ipcQ ELSE 1
  /\ Answer(replyTo)
  /\ replyTo' = NoClient
  /\ loop' = "check"
  /\ UNCHANGED <<requested, shutdownQ, control, successQ, failureQ, senders,
                 ipcUp, wormholeVars, enabled, peers, stopVars>>

Receive(op) ==
  /\ loop = "select" /\ control # <<>> /\ Head(control).op = op
  /\ control' = Tail(control)

EnableWormhole ==
  /\ Receive("enable")
  /\ LET cmd == Head(control)
         g   == Len(enabled) + 1
     IN /\ enabled' = Append(enabled, cmd.persistent)
        /\ slot' = g
        /\ broadcasting' = (broadcasting \ {slot}) \cup {g}
        /\ expiring' = (expiring \ {slot}) \cup {g}
        /\ Answer(cmd.from)
  /\ loop' = "check"
  /\ UNCHANGED <<replyTo, requested, shutdownQ, ipcQ, successQ, failureQ,
                 senders, ipcUp, peers, stopVars>>

DisableWormhole ==
  /\ Receive("disable")
  /\ Burn
  /\ Answer(Head(control).from)
  /\ loop' = "check"
  /\ UNCHANGED <<replyTo, requested, shutdownQ, ipcQ, successQ, failureQ,
                 senders, ipcUp, enabled, peers, stopVars>>

\* the loop only reads
GetStatus ==
  /\ Receive("status")
  /\ Answer(Head(control).from)
  /\ loop' = "check"
  /\ UNCHANGED <<replyTo, requested, shutdownQ, ipcQ, successQ, failureQ,
                 senders, ipcUp, wormholeVars, enabled, peers, stopVars>>

Shutdown ==
  /\ Receive("shutdown")
  /\ BeginShutdown(Head(control).from)
  /\ UNCHANGED <<shutdownQ, ipcQ, successQ, failureQ, senders, ipcUp,
                 wormholeVars, enabled, client, peers, stopVars>>

BurnsOnSuccess == slot # NoWormhole /\ ~Persistent(slot)

RecvSuccess ==
  /\ loop = "select" /\ successQ = 1
  /\ successQ' = 0
  /\ IF BurnsOnSuccess
       THEN /\ Burn
            /\ IF mode.once
                 THEN BeginShutdown(NoClient)
                 ELSE loop' = "check" /\ UNCHANGED <<replyTo, requested>>
       ELSE loop' = "check" /\ UNCHANGED <<wormholeVars, replyTo, requested>>
  /\ UNCHANGED <<shutdownQ, control, ipcQ, failureQ, senders, ipcUp, enabled,
                 client, peers, stopVars>>

RecvFailure ==
  /\ loop = "select" /\ failureQ = 1
  /\ failureQ' = 0
  /\ Burn
  /\ loop' = "check"
  /\ UNCHANGED <<replyTo, requested, shutdownQ, control, ipcQ, successQ,
                 senders, ipcUp, enabled, client, peers, stopVars>>

\* the loop is left: wait for the sessions, burn what is left, shut the
\* router and the endpoint down; whoever still waits gets an error
Drain ==
  /\ loop = "drain" /\ Active = {}
  /\ loop' = "cleanup"
  /\ UNCHANGED <<replyTo, requested, channels, ipcUp, wormholeVars, enabled,
                 client, peers, stopVars>>

Cleanup ==
  /\ loop = "cleanup"
  /\ Burn
  /\ loop' = "closed" /\ endpoint' = "closed"
  /\ session' = [s \in Sessions |-> IF s \in Active THEN "ended" ELSE session[s]]
  /\ client' = [c \in Clients |->
                  IF client[c] = "waiting" THEN "done" ELSE client[c]]
  /\ control' = <<>>
  /\ UNCHANGED <<replyTo, requested, shutdownQ, ipcQ, successQ, failureQ,
                 senders, ipcUp, enabled, seen, tracker, paired, failed,
                 erred, handles, mode>>

Loop ==
  \/ Check \/ RecvShutdown \/ NotifyIpc
  \/ EnableWormhole \/ DisableWormhole \/ GetStatus \/ Shutdown
  \/ RecvSuccess \/ RecvFailure
  \/ Drain \/ Cleanup

Next ==
  \/ \E c \in Clients : Connect(c) \/ Request(c) \/ Refuse(c) \/ GiveUp(c)
  \/ Close \/ CloseEndpoint \/ ListenerExit
  \/ \E s \in Sessions :
       \/ Accept(s) \/ Register(s) \/ StartPairing(s)
       \/ PairingSucceeds(s) \/ PairingKnown(s)
       \/ PairingFails(s) \/ LockoutDecays(s)
       \/ EndSession(s) \/ Unregister(s)
  \/ SendSuccess
  \/ \E g \in Wormholes : Expire(g) \/ BroadcastFails(g)
  \/ Loop

Spec == Init /\ [][Next]_vars

(***************************************************************************)
(* Fairness: the runtime polls every task that can run, select! serves     *)
(* every channel that stays ready (it picks a ready branch at random).     *)
(* Clients, peers, sessions and the 24 hours owe nothing.                  *)
(***************************************************************************)
Fairness ==
  /\ WF_vars(Check) /\ WF_vars(NotifyIpc) /\ WF_vars(Drain) /\ WF_vars(Cleanup)
  /\ SF_vars(EnableWormhole \/ DisableWormhole \/ GetStatus \/ Shutdown)
  /\ SF_vars(RecvShutdown) /\ SF_vars(RecvSuccess) /\ SF_vars(RecvFailure)
  /\ WF_vars(ListenerExit) /\ WF_vars(SendSuccess) /\ WF_vars(CloseEndpoint)
  /\ \A s \in Sessions : WF_vars(Register(s)) /\ WF_vars(Unregister(s))

FairSpec == Spec /\ Fairness

-----------------------------------------------------------------------------
(***************************************************************************)
(* Properties                                                              *)
(***************************************************************************)

\* The type of every variable.
TypeOK ==
  /\ mode \in Modes
  /\ loop \in {"check", "select", "notify_ipc", "drain", "cleanup", "closed"}
  /\ replyTo \in Clients \cup {NoClient}
  /\ requested \in BOOLEAN
  /\ handles \in 0 .. Handles
  /\ endpoint \in {"open", "closing", "closed"}
  /\ shutdownQ \in 0 .. 1 /\ ipcQ \in 0 .. 1
  /\ successQ \in 0 .. 1 /\ failureQ \in 0 .. 1
  /\ senders \in Nat
  /\ control \in Seq(Commands) /\ Len(control) <= ControlCap
  /\ ipcUp \in BOOLEAN
  /\ enabled \in Seq(BOOLEAN)
  /\ slot \in 0 .. Len(enabled) /\ Len(enabled) <= Cardinality(Clients)
  /\ failed \in [Wormholes -> 0 .. FailureLimit]
  /\ broadcasting \in SUBSET (1 .. Len(enabled))
  /\ expiring \in SUBSET (1 .. Len(enabled))
  /\ client \in [Clients -> {"new", "connected", "waiting", "done"}]
  /\ session \in [Sessions -> Live \cup {"new", "ended"}]
  /\ seen \in [Sessions -> 0 .. Len(enabled)]
  /\ tracker \in SUBSET Sessions
  /\ paired \in SUBSET (Sessions \X Wormholes)
  /\ erred \in SUBSET Sessions

\* Only the active wormhole is broadcast, and only its 24 hours run: whichever
\* of the five places empties or refills the slot (mod.rs:485-526, 532-539,
\* 578-589, 601-609, 628-639), no task outlives it.
NoOrphanTasks ==
  /\ broadcasting \subseteq {slot} \ {NoWormhole}
  /\ expiring \subseteq {slot} \ {NoWormhole}

\* Together, with the type of every variable.
TasksSound == TypeOK /\ NoOrphanTasks

\* the loop has been left, and a session accepted on the way out holds it
HeldBySession == loop = "drain" /\ Active # {}

\* Without a listener nobody reads what the first shutdown request sent, so
\* the loop waits for ever at the second: it is the one way to wedge it.
Wedged == loop = "notify_ipc" /\ ~mode.ipc /\ ipcQ = 1

\* nothing more is promised
Stalled == HeldBySession \/ Wedged

\* FailureLimit failures burn the wormhole they were counted on, although the notice
\* is a try_send on a channel of capacity one and names no wormhole
\* (mod.rs:599-610, unified.rs:186-192).
ExhaustedBurns ==
  \A g \in Wormholes : failed[g] >= FailureLimit ~> slot # g \/ Stalled

\* A pairing on a wormhole that is not persistent burns it (mod.rs:573-598).
PairedBurns ==
  \A g \in Wormholes :
    (\E s \in Sessions : <<s, g>> \in paired /\ ~Persistent(g))
      ~> slot # g \/ Stalled

\* Every command that reaches the control channel is answered by the loop or
\* by its end, without its client having to give up, unless the loop is wedged,
\* or has been left and a session keeps it from ending (ipc.rs:450-459,
\* mod.rs:620-623).
CommandsAnswered ==
  \A c \in Clients :
    client[c] = "waiting" ~> client[c] # "waiting" \/ Stalled

\* The loop never waits for ever to tell the IPC listener to stop, be it up,
\* stopped or not able to bind; in a server that was built without one, the
\* first of its shutdown requests goes through as well, and only a second
\* wedges it (mod.rs:468, 565, 596).
LoopNotStuck == []<>(loop # "notify_ipc" \/ Wedged)

EventPending ==
  \/ shutdownQ = 1 \/ successQ = 1 \/ failureQ = 1 \/ control # <<>>

\* After a shutdown request, once the sessions are gone, any further event
\* lets the server stop, unless a new session is accepted first or that event
\* is itself a request that wedges the loop (mod.rs:459, 613).
ShutdownOnNextEvent ==
  requested /\ Active = {} /\ EventPending
    ~> loop = "closed" \/ Active # {} \/ Wedged
=============================================================================
