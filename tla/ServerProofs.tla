---------------------------- MODULE ServerProofs ----------------------------
(***************************************************************************)
(* The wormhole slot and its tasks stay in step (Server!NoOrphanTasks),    *)
(* every channel stays within its capacity and every variable within its   *)
(* type (Server!TasksSound), for every number of clients and sessions.     *)
(***************************************************************************)
EXTENDS Server, SequenceTheorems, FiniteSetTheorems, TLAPS

\* What the argument needs of the types: the slot's number is a number, and
\* the queue holds commands.
SlotType ==
  /\ slot \in Nat
  /\ enabled \in Seq(BOOLEAN)
  /\ control \in Seq(Commands)

\* The inductive invariant.  NoOrphanTasks alone is not inductive: that a
\* refilled slot is not the empty one rests on the type of enabled.
SlotInv == SlotType /\ NoOrphanTasks

\* Server::run starts with an empty slot and no task (mod.rs:412).
LEMMA InitSlotInv == Init => SlotInv
  BY DEF Init, SlotInv, SlotType, NoOrphanTasks, NoWormhole

\* Emptying the slot stops exactly the tasks of the wormhole in it
\* (mod.rs:532-539, 578-589, 601-609, 628-639).
LEMMA BurnKeepsInStep ==
  ASSUME SlotInv, Burn
  PROVE  NoOrphanTasks' /\ slot' \in Nat
<1> USE DEF SlotInv, SlotType, NoOrphanTasks, Burn, NoWormhole
<1>1. CASE slot = NoWormhole
  BY <1>1 DEF wormholeVars
<1>2. CASE slot # NoWormhole
  <2>1. broadcasting' = {} /\ expiring' = {} /\ slot' = 0
    BY <1>2
  <2> QED
    BY <2>1
<1> QED
  BY <1>1, <1>2

\* Every step of the loop and of what runs around it keeps the invariant.
LEMMA NextSlotInv == SlotInv /\ [Next]_vars => SlotInv'
<1> SUFFICES ASSUME SlotInv, [Next]_vars PROVE SlotInv'
  OBVIOUS
<1> USE DEF SlotInv, SlotType
<1>1. ASSUME NEW c \in Clients, NEW cmd \in Commands, Submit(c, cmd) PROVE SlotInv'
  BY <1>1 DEF Submit, NoOrphanTasks, wormholeVars
<1>2. ASSUME NEW g \in Wormholes, Expire(g) PROVE SlotInv'
  <2>1. [op |-> "disable", from |-> NoClient] \in Commands
    BY DEF Commands
  <2> QED
    BY <1>2, <2>1 DEF Expire, NoOrphanTasks
<1>17. ASSUME NEW g \in Wormholes, BroadcastFails(g) PROVE SlotInv'
  BY <1>17 DEF BroadcastFails, NoOrphanTasks, channels
<1>3. ASSUME NEW op, Receive(op) PROVE control' \in Seq(Commands)
  BY <1>3 DEF Receive
<1>4. CASE EnableWormhole
  <2> DEFINE cmd == Head(control)
  <2>1. cmd \in Commands /\ cmd.op = "enable"
    BY <1>4 DEF EnableWormhole, Receive
  <2>2. cmd.persistent \in BOOLEAN
    BY <2>1 DEF Commands
  <2>3. enabled' \in Seq(BOOLEAN)
    BY <1>4, <2>2 DEF EnableWormhole
  <2>4. slot' = Len(enabled) + 1 /\ Len(enabled) \in Nat
    BY <1>4 DEF EnableWormhole
  <2>5. /\ broadcasting' = (broadcasting \ {slot}) \cup {slot'}
        /\ expiring' = (expiring \ {slot}) \cup {slot'}
    BY <1>4 DEF EnableWormhole
  <2>6. slot' # NoWormhole
    BY <2>4 DEF NoWormhole
  <2>7. broadcasting' = {slot'} /\ expiring' = {slot'}
    BY <2>5 DEF NoOrphanTasks
  <2> QED
    BY <1>3, <1>4, <2>3, <2>4, <2>6, <2>7 DEF EnableWormhole, NoOrphanTasks
<1>5. CASE DisableWormhole
  BY <1>3, <1>5, BurnKeepsInStep DEF DisableWormhole
<1>6. CASE GetStatus
  BY <1>3, <1>6 DEF GetStatus, NoOrphanTasks, wormholeVars
<1>7. CASE Shutdown
  BY <1>3, <1>7 DEF Shutdown, NoOrphanTasks, wormholeVars
<1>8. CASE RecvSuccess
  BY <1>8, BurnKeepsInStep DEF RecvSuccess, BurnsOnSuccess, BeginShutdown, NoOrphanTasks, wormholeVars
<1>9. CASE RecvFailure
  BY <1>9, BurnKeepsInStep DEF RecvFailure
<1>10. CASE Cleanup
  BY <1>10, BurnKeepsInStep DEF Cleanup
<1>11. ASSUME NEW c \in Clients, Connect(c) \/ Refuse(c) \/ GiveUp(c) PROVE SlotInv'
  BY <1>11 DEF Connect, Refuse, GiveUp, NoOrphanTasks, wormholeVars, channels
<1>12. CASE Close \/ CloseEndpoint \/ ListenerExit \/ SendSuccess
  BY <1>12 DEF Close, CloseEndpoint, ListenerExit, SendSuccess, NoOrphanTasks, wormholeVars, channels
<1>13. ASSUME NEW s \in Sessions,
              \/ Accept(s) \/ Register(s) \/ StartPairing(s)
              \/ EndSession(s) \/ Unregister(s)
       PROVE  SlotInv'
  BY <1>13 DEF Accept, Register, StartPairing, EndSession, Unregister, NoOrphanTasks, wormholeVars, channels
<1>14. ASSUME NEW s \in Sessions,
              \/ PairingSucceeds(s) \/ PairingKnown(s)
              \/ PairingFails(s) \/ LockoutDecays(s)
       PROVE  SlotInv'
  BY <1>14 DEF PairingSucceeds, PairingKnown, PairingFails, LockoutDecays, NoOrphanTasks, wormholeVars, channels
<1>15. CASE Check \/ RecvShutdown \/ NotifyIpc \/ Drain
  BY <1>15 DEF Check, RecvShutdown, NotifyIpc, Drain, NoOrphanTasks, wormholeVars, channels
<1>16. CASE UNCHANGED vars
  BY <1>16 DEF vars, NoOrphanTasks, wormholeVars, channels
<1> QED
  BY <1>1, <1>2, <1>4, <1>5, <1>6, <1>7, <1>8, <1>9, <1>10, <1>11,
     <1>12, <1>13, <1>14, <1>15, <1>16, <1>17, ServerAssumption DEF Next, Loop, Request

\* No wormhole but the active one is broadcast, and no other one's 24 hours run,
\* in every behaviour of Server::run with its clients and sessions.
THEOREM TasksFollowSlot == Spec => []NoOrphanTasks
<1>1. SlotInv => NoOrphanTasks
  BY DEF SlotInv
<1> QED
  BY InitSlotInv, NextSlotInv, <1>1, PTL DEF Spec

-----------------------------------------------------------------------------
(* How many wormholes there can be.  That a client asks at most once bounds *)
(* them; the argument counts the clients whose command has left the queue.  *)

\* clients whose command the loop has taken, or that went without one
Served == {c \in Clients : /\ client[c] \notin {"new", "connected"}
                           /\ \A i \in 1 .. Len(control) : control[i].from # c}

\* Each client has at most one command in the queue, sent by itself, and each
\* wormhole used up the command of a client of its own.
CountInv ==
  /\ \A i, j \in 1 .. Len(control) :
       control[i].from = control[j].from /\ control[i].from \in Clients => i = j
  /\ \A i \in 1 .. Len(control) :
       control[i].from \in Clients => client[control[i].from] \notin {"new", "connected"}
  /\ Len(enabled) <= Cardinality(Served)

ClientType == client \in [Clients -> {"new", "connected", "waiting", "done"}]

LEMMA ServedFinite ==
  /\ IsFiniteSet(Served) /\ Cardinality(Served) \in Nat
  /\ Cardinality(Clients) \in Nat /\ Cardinality(Served) <= Cardinality(Clients)
<1>1. Served \subseteq Clients /\ IsFiniteSet(Clients)
  BY ServerAssumption DEF Served
<1> QED
  BY <1>1, FS_Subset, FS_CardinalityType

\* Whoever has been served stays so; the count of wormholes does not move.
LEMMA ServedGrows ==
  ASSUME CountInv, enabled' = enabled, enabled \in Seq(BOOLEAN), Served \subseteq Served'
  PROVE  Len(enabled') <= Cardinality(Served')
<1>1. IsFiniteSet(Served') /\ Cardinality(Served') \in Nat
  <2>1. Served' \subseteq Clients /\ IsFiniteSet(Clients)
    BY ServerAssumption DEF Served
  <2> QED
    BY <2>1, FS_Subset, FS_CardinalityType
<1>2. Cardinality(Served) <= Cardinality(Served')
  BY <1>1, FS_Subset
<1>3. Len(enabled) \in Nat /\ Cardinality(Served) \in Nat
  BY ServedFinite
<1> QED
  BY <1>1, <1>2, <1>3 DEF CountInv

LEMMA CommandsFrom ==
  ASSUME NEW cmd \in Commands
  PROVE  /\ cmd.from \in Clients \cup {NoClient}
         /\ cmd.op = "enable" => cmd.from \in Clients /\ cmd.persistent \in BOOLEAN
  BY DEF Commands

\* An answer turns a waiting client into one that is done.
LEMMA AnswerKeeps ==
  ASSUME ClientType, NEW to, Answer(to)
  PROVE  /\ ClientType'
         /\ \A c \in Clients : client[c] \notin {"new", "connected"}
                               => client'[c] \notin {"new", "connected"}
  BY DEF ClientType, Answer

\* Taking the first command serves its client; when nothing else changes the
\* other commands are still their clients' only ones.
LEMMA ReceiveServes ==
  ASSUME CountInv, control \in Seq(Commands), ClientType, NEW op, Receive(op),
         \A c \in Clients : client[c] \notin {"new", "connected"}
                           => client'[c] \notin {"new", "connected"}
  PROVE  /\ \A i, j \in 1 .. Len(control') :
              control'[i].from = control'[j].from /\ control'[i].from \in Clients => i = j
         /\ \A i \in 1 .. Len(control') :
              control'[i].from \in Clients => client'[control'[i].from] \notin {"new", "connected"}
         /\ Served \subseteq Served'
         /\ Head(control).from \in Clients
              => Head(control).from \notin Served /\ Head(control).from \in Served'
<1>1. /\ control # <<>> /\ control' = Tail(control) /\ Len(control) \in Nat \ {0}
      /\ Head(control) = control[1] /\ Len(control') = Len(control) - 1
      /\ \A i \in 1 .. Len(control') : control'[i] = control[i + 1] /\ i + 1 \in 1 .. Len(control)
  BY DEF Receive
<1>2. \A i, j \in 1 .. Len(control') :
         control'[i].from = control'[j].from /\ control'[i].from \in Clients => i = j
  BY <1>1 DEF CountInv
<1>3. \A i \in 1 .. Len(control') :
         control'[i].from \in Clients => client'[control'[i].from] \notin {"new", "connected"}
  BY <1>1 DEF CountInv
<1>4. Served \subseteq Served'
  BY <1>1 DEF Served
<1>5. ASSUME Head(control).from \in Clients
      PROVE  Head(control).from \notin Served /\ Head(control).from \in Served'
  <2> DEFINE c == Head(control).from
  <2>1. 1 \in 1 .. Len(control) /\ control[1].from = c
    BY <1>1
  <2>2. c \notin Served
    BY <2>1 DEF Served
  <2>3. client'[c] \notin {"new", "connected"}
    BY <1>5, <2>1 DEF CountInv
  <2>4. ASSUME NEW i \in 1 .. Len(control'), control'[i].from = c PROVE FALSE
    <3>1. control[i + 1].from = control[1].from /\ i + 1 \in 1 .. Len(control) /\ i + 1 # 1
      BY <1>1, <2>1, <2>4
    <3> QED
      BY <1>5, <2>1, <3>1 DEF CountInv
  <2> QED
    BY <1>5, <2>2, <2>3, <2>4 DEF Served
<1> QED
  BY <1>2, <1>3, <1>4, <1>5

\* Appending a command of a client that had none, or of nobody.
LEMMA AppendCounts ==
  ASSUME CountInv, control \in Seq(Commands), ClientType, enabled \in Seq(BOOLEAN),
         NEW cmd \in Commands, control' = Append(control, cmd), enabled' = enabled,
         cmd.from \in Clients => client[cmd.from] \in {"new", "connected"}
                                /\ client'[cmd.from] \notin {"new", "connected"},
         \A c \in Clients : client[c] \notin {"new", "connected"}
                           => client'[c] \notin {"new", "connected"}
  PROVE  CountInv'
<1>1. /\ Len(control) \in Nat /\ Len(control') = Len(control) + 1
      /\ control'[Len(control) + 1] = cmd
      /\ \A i \in 1 .. Len(control) : control'[i] = control[i]
  OBVIOUS
<1>2. \A i \in 1 .. Len(control) : control[i].from \in Clients => control[i].from # cmd.from
  BY DEF CountInv
<1>3. \A i, j \in 1 .. Len(control') :
         control'[i].from = control'[j].from /\ control'[i].from \in Clients => i = j
  BY <1>1, <1>2 DEF CountInv
<1>4. \A i \in 1 .. Len(control') :
         control'[i].from \in Clients => client'[control'[i].from] \notin {"new", "connected"}
  BY <1>1 DEF CountInv
<1>5. Served \subseteq Served'
  BY <1>1 DEF Served
<1>6. Len(enabled') <= Cardinality(Served')
  BY <1>5, ServedGrows
<1> QED
  BY <1>3, <1>4, <1>6 DEF CountInv

\* Clients that give up, are answered or refused leave the queue alone.
LEMMA ClientsMove ==
  ASSUME CountInv, enabled \in Seq(BOOLEAN), UNCHANGED <<control, enabled>>,
         \A c \in Clients : client[c] \notin {"new", "connected"}
                           => client'[c] \notin {"new", "connected"}
  PROVE  CountInv'
<1>1. Served \subseteq Served'
  BY DEF Served
<1>2. Len(enabled') <= Cardinality(Served')
  BY <1>1, ServedGrows
<1> QED
  BY <1>2 DEF CountInv

LEMMA NextCountInv ==
  ASSUME SlotType, ClientType, CountInv, [Next]_vars
  PROVE  CountInv' /\ ClientType'
<1> USE DEF SlotType
<1> DEFINE Onward == \A c \in Clients : client[c] \notin {"new", "connected"}
                                       => client'[c] \notin {"new", "connected"}
<1>1. ASSUME NEW c \in Clients, Connect(c) \/ Refuse(c) \/ GiveUp(c)
      PROVE  CountInv' /\ ClientType'
  <2>1. Onward /\ ClientType' /\ UNCHANGED <<control, enabled>>
    BY <1>1 DEF Connect, Refuse, GiveUp, ClientType, channels
  <2> QED
    BY <2>1, ClientsMove
<1>2. ASSUME NEW c \in Clients, Request(c) PROVE CountInv' /\ ClientType'
  <2>1. PICK cmd \in Workload : cmd.from = c /\ Submit(c, cmd)
    BY <1>2 DEF Request
  <2>2. cmd \in Commands /\ control' = Append(control, cmd) /\ enabled' = enabled
    BY <2>1, ServerAssumption DEF Submit
  <2>3. /\ client[c] = "connected" /\ client'[c] = "waiting"
        /\ Onward /\ ClientType'
    BY <2>1 DEF Submit, ClientType
  <2> QED
    BY <2>1, <2>2, <2>3, AppendCounts
<1>3. ASSUME NEW g \in Wormholes, Expire(g) PROVE CountInv' /\ ClientType'
  <2> DEFINE cmd == [op |-> "disable", from |-> NoClient]
  <2>1. cmd \in Commands /\ cmd.from = NoClient /\ NoClient \notin Clients
    BY ServerAssumption DEF Commands
  <2>2. control' = Append(control, cmd) /\ UNCHANGED <<enabled, client>>
    BY <1>3 DEF Expire
  <2> HIDE DEF cmd
  <2>3. CountInv'
    BY <2>1, <2>2, AppendCounts
  <2> QED
    BY <2>2, <2>3 DEF ClientType
<1>4. CASE EnableWormhole
  <2> DEFINE c == Head(control).from
  <2>1. Head(control) \in Commands /\ Head(control).op = "enable" /\ Receive("enable")
    BY <1>4 DEF EnableWormhole, Receive
  <2>2. c \in Clients /\ Head(control).persistent \in BOOLEAN
    BY <2>1, CommandsFrom
  <2>3. /\ enabled' = Append(enabled, Head(control).persistent) /\ Answer(c)
        /\ Len(enabled') = Len(enabled) + 1 /\ Len(enabled) \in Nat
    BY <1>4, <2>2 DEF EnableWormhole
  <2>4. ClientType' /\ Onward
    BY <2>3, AnswerKeeps
  <2>5. /\ \A i, j \in 1 .. Len(control') :
              control'[i].from = control'[j].from /\ control'[i].from \in Clients => i = j
        /\ \A i \in 1 .. Len(control') :
              control'[i].from \in Clients => client'[control'[i].from] \notin {"new", "connected"}
        /\ Served \subseteq Served' /\ c \notin Served /\ c \in Served'
    BY <2>1, <2>2, <2>4, ReceiveServes
  <2>6. Len(enabled') <= Cardinality(Served')
    <3>1. Served' \subseteq Clients /\ IsFiniteSet(Clients)
      BY ServerAssumption DEF Served
    <3>2. IsFiniteSet(Served') /\ Cardinality(Served') \in Nat
      BY <3>1, FS_Subset, FS_CardinalityType
    <3>3. /\ IsFiniteSet(Served) /\ Cardinality(Served) \in Nat
          /\ Cardinality(Served \cup {c}) = Cardinality(Served) + 1
      BY <2>5, ServedFinite, FS_AddElement
    <3>4. Cardinality(Served \cup {c}) <= Cardinality(Served')
      <4>1. Served \cup {c} \in SUBSET Served'
        BY <2>5
      <4> QED
        BY <3>2, <4>1, FS_Subset
    <3> QED
      BY <2>3, <3>2, <3>3, <3>4 DEF CountInv
  <2> QED
    BY <2>4, <2>5, <2>6 DEF CountInv
<1>5. CASE DisableWormhole \/ GetStatus \/ Shutdown
  <2>1. \E op : Receive(op)
    BY <1>5 DEF DisableWormhole, GetStatus, Shutdown
  <2>2. UNCHANGED client \/ Answer(Head(control).from)
    BY <1>5 DEF DisableWormhole, GetStatus, Shutdown
  <2>3. ClientType' /\ Onward
    BY <2>2, AnswerKeeps DEF ClientType
  <2>4. enabled' = enabled
    BY <1>5 DEF DisableWormhole, GetStatus, Shutdown
  <2>5. /\ \A i, j \in 1 .. Len(control') :
              control'[i].from = control'[j].from /\ control'[i].from \in Clients => i = j
        /\ \A i \in 1 .. Len(control') :
              control'[i].from \in Clients => client'[control'[i].from] \notin {"new", "connected"}
        /\ Served \subseteq Served'
    BY <2>1, <2>3, ReceiveServes
  <2>6. Len(enabled') <= Cardinality(Served')
    BY <2>4, <2>5, ServedGrows
  <2> QED
    BY <2>3, <2>5, <2>6 DEF CountInv
<1>6. CASE NotifyIpc
  <2>1. Answer(replyTo) /\ UNCHANGED <<control, enabled>>
    BY <1>6 DEF NotifyIpc
  <2>2. ClientType' /\ Onward
    BY <2>1, AnswerKeeps
  <2> QED
    BY <2>1, <2>2, ClientsMove
<1>7. CASE Cleanup
  <2>1. /\ control' = <<>> /\ enabled' = enabled
        /\ client' = [c \in Clients |-> IF client[c] = "waiting" THEN "done" ELSE client[c]]
    BY <1>7 DEF Cleanup
  <2>2. ClientType' /\ Onward
    BY <2>1 DEF ClientType
  <2>3. Served \subseteq Served'
    BY <2>1, <2>2 DEF Served
  <2>4. Len(enabled') <= Cardinality(Served')
    BY <2>1, <2>3, ServedGrows
  <2> QED
    BY <2>1, <2>2, <2>4 DEF CountInv
<1>8. ASSUME UNCHANGED <<control, enabled, client>> PROVE CountInv' /\ ClientType'
  BY <1>8, ClientsMove DEF ClientType
<1>14. ASSUME NEW g \in Wormholes, BroadcastFails(g) PROVE CountInv' /\ ClientType'
  BY <1>8, <1>14 DEF BroadcastFails, channels
<1>9. CASE Close \/ CloseEndpoint \/ ListenerExit \/ SendSuccess
  BY <1>8, <1>9 DEF Close, CloseEndpoint, ListenerExit, SendSuccess, channels
<1>10. ASSUME NEW s \in Sessions,
              \/ Accept(s) \/ Register(s) \/ StartPairing(s)
              \/ EndSession(s) \/ Unregister(s)
       PROVE  CountInv' /\ ClientType'
  BY <1>8, <1>10 DEF Accept, Register, StartPairing, EndSession, Unregister, channels
<1>11. ASSUME NEW s \in Sessions,
              \/ PairingSucceeds(s) \/ PairingKnown(s)
              \/ PairingFails(s) \/ LockoutDecays(s)
       PROVE  CountInv' /\ ClientType'
  BY <1>8, <1>11 DEF PairingSucceeds, PairingKnown, PairingFails, LockoutDecays, channels
<1>12. CASE Check \/ RecvShutdown \/ Drain \/ RecvSuccess \/ RecvFailure
  BY <1>8, <1>12 DEF Check, RecvShutdown, Drain, RecvSuccess, RecvFailure, channels
<1>13. CASE UNCHANGED vars
  BY <1>8, <1>13 DEF vars, channels
<1> QED
  BY <1>1, <1>2, <1>3, <1>4, <1>5, <1>6, <1>7, <1>9, <1>10, <1>11, <1>12, <1>13, <1>14 DEF Next, Loop

-----------------------------------------------------------------------------
(* The types.  The parts fall to different actions, so each is kept apart.  *)

\* the loop, its channels and the listener
LoopType ==
  /\ mode \in Modes
  /\ loop \in {"check", "select", "notify_ipc", "drain", "cleanup", "closed"}
  /\ replyTo \in Clients \cup {NoClient}
  /\ requested \in BOOLEAN
  /\ handles \in 0 .. Handles
  /\ endpoint \in {"open", "closing", "closed"}
  /\ shutdownQ \in 0 .. 1 /\ ipcQ \in 0 .. 1
  /\ successQ \in 0 .. 1 /\ failureQ \in 0 .. 1
  /\ senders \in Nat
  /\ Len(control) <= ControlCap
  /\ ipcUp \in BOOLEAN

\* the sessions; a session that pairs has read a wormhole
SessionType ==
  /\ slot \in 0 .. Len(enabled) /\ Len(enabled) <= Cardinality(Clients)
  /\ failed \in [Wormholes -> 0 .. FailureLimit]
  /\ session \in [Sessions -> Live \cup {"new", "ended"}]
  /\ seen \in [Sessions -> 0 .. Len(enabled)]
  /\ tracker \in SUBSET Sessions
  /\ paired \in SUBSET (Sessions \X Wormholes)
  /\ erred \in SUBSET Sessions
  /\ \A s \in Sessions : session[s] = "pairing" => seen[s] # NoWormhole

TasksInv == SlotInv /\ ClientType /\ CountInv /\ LoopType /\ SessionType

LEMMA NextLoopType ==
  ASSUME SlotType, LoopType, [Next]_vars
  PROVE  LoopType'
<1> USE ServerAssumption DEF SlotType, LoopType, stopVars
<1>1. ASSUME NEW c \in Clients, Connect(c) \/ Refuse(c) \/ GiveUp(c) PROVE LoopType'
  BY <1>1 DEF Connect, Refuse, GiveUp, channels
<1>2. ASSUME NEW c \in Clients, Request(c) PROVE LoopType'
  BY <1>2 DEF Request, Submit
<1>3. ASSUME NEW g \in Wormholes, Expire(g) PROVE LoopType'
  BY <1>3 DEF Expire
<1>14. ASSUME NEW g \in Wormholes, BroadcastFails(g) PROVE LoopType'
  BY <1>14 DEF BroadcastFails, channels
<1>4. ASSUME NEW op, Receive(op) PROVE Len(control') <= ControlCap
  <2>1. Len(control') = Len(control) - 1 /\ Len(control) \in Nat
    BY <1>4 DEF Receive
  <2> QED
    BY <2>1
<1>5. CASE EnableWormhole \/ DisableWormhole \/ GetStatus
  BY <1>4, <1>5 DEF EnableWormhole, DisableWormhole, GetStatus
<1>6. CASE Shutdown
  <2>1. Head(control) \in Commands
    BY <1>6 DEF Shutdown, Receive
  <2>2. replyTo' \in Clients \cup {NoClient}
    BY <1>6, <2>1, CommandsFrom DEF Shutdown, BeginShutdown
  <2> QED
    BY <1>4, <1>6, <2>2 DEF Shutdown, BeginShutdown
<1>7. CASE RecvShutdown \/ RecvSuccess \/ RecvFailure
  <2>1. CASE RecvShutdown
    BY <2>1 DEF RecvShutdown, BeginShutdown
  <2>2. CASE RecvSuccess
    <3>1. CASE BeginShutdown(NoClient)
      BY <2>2, <3>1 DEF RecvSuccess, BeginShutdown
    <3>2. CASE loop' = "check" /\ UNCHANGED <<replyTo, requested>>
      BY <2>2, <3>2 DEF RecvSuccess
    <3> QED
      BY <2>2, <3>1, <3>2 DEF RecvSuccess
  <2>3. CASE RecvFailure
    BY <2>3 DEF RecvFailure
  <2> QED
    BY <1>7, <2>1, <2>2, <2>3
<1>8. CASE Check \/ NotifyIpc \/ Drain
  BY <1>8 DEF Check, NotifyIpc, Drain, channels
<1>9. CASE Cleanup
  <2>1. Len(control') = 0
    BY <1>9 DEF Cleanup
  <2> QED
    BY <1>9, <2>1 DEF Cleanup
<1>10. CASE Close \/ CloseEndpoint \/ ListenerExit \/ SendSuccess
  <2>1. CASE Close
    BY <2>1 DEF Close
  <2>2. CASE CloseEndpoint
    BY <2>2 DEF CloseEndpoint, channels
  <2>4. CASE ListenerExit
    <3>1. ipcUp' \in BOOLEAN
      BY <2>4, Zenon DEF ListenerExit
    <3>2. /\ ipcQ' = 0
          /\ UNCHANGED <<loop, replyTo, requested, shutdownQ, control, successQ, failureQ,
                         senders, handles, endpoint, mode>>
      BY <2>4 DEF ListenerExit
    <3> QED
      BY <3>1, <3>2
  <2>3. CASE SendSuccess
    BY <2>3 DEF SendSuccess
  <2> QED
    BY <1>10, <2>1, <2>2, <2>3, <2>4
<1>11. ASSUME NEW s \in Sessions,
              \/ Accept(s) \/ Register(s) \/ StartPairing(s)
              \/ EndSession(s) \/ Unregister(s)
       PROVE  LoopType'
  BY <1>11 DEF Accept, Register, StartPairing, EndSession, Unregister, channels
<1>12. ASSUME NEW s \in Sessions,
              \/ PairingSucceeds(s) \/ PairingKnown(s)
              \/ PairingFails(s) \/ LockoutDecays(s)
       PROVE  LoopType'
  BY <1>12 DEF PairingSucceeds, PairingKnown, PairingFails, LockoutDecays, channels
<1>13. CASE UNCHANGED vars
  BY <1>13 DEF vars, channels
<1> QED
  BY <1>1, <1>2, <1>3, <1>5, <1>6, <1>7, <1>8, <1>9, <1>10, <1>11, <1>12, <1>13, <1>14
  DEF Next, Loop

\* Burning empties the slot.
LEMMA BurnSlot ==
  ASSUME Burn, slot \in 0 .. Len(enabled), enabled \in Seq(BOOLEAN)
  PROVE  slot' \in 0 .. Len(enabled)
  BY DEF Burn, wormholeVars, NoWormhole

LEMMA NextSessionType ==
  ASSUME SlotType, ClientType, CountInv, SessionType, [Next]_vars
  PROVE  SessionType'
<1> USE DEF SlotType
<1>0. /\ Cardinality(Clients) \in Nat /\ Len(enabled') <= Cardinality(Clients)
      /\ Len(enabled) \in Nat
  <2>1. CountInv' /\ enabled' \in Seq(BOOLEAN)
    <3>1. CountInv'
      BY NextCountInv
    <3>2. CASE EnableWormhole
      <4>1. Head(control) \in Commands /\ Head(control).op = "enable"
        BY <3>2 DEF EnableWormhole, Receive
      <4>2. Head(control).persistent \in BOOLEAN
        BY <4>1, CommandsFrom
      <4> QED
        BY <3>1, <3>2, <4>2 DEF EnableWormhole
    <3>3. CASE ~EnableWormhole
      <4>1. enabled' = enabled
        BY <3>3 DEF Next, Loop, Connect, Request, Submit, Refuse, GiveUp, Close, CloseEndpoint,
          ListenerExit, Accept, Register, StartPairing, PairingSucceeds, PairingKnown,
          PairingFails, LockoutDecays, EndSession, Unregister, SendSuccess, Expire, BroadcastFails, Check,
          RecvShutdown, NotifyIpc, DisableWormhole, GetStatus, Shutdown, RecvSuccess,
          RecvFailure, Drain, Cleanup, vars
      <4> QED
        BY <3>1, <4>1
    <3> QED
      BY <3>2, <3>3
  <2>2. Cardinality(Served') <= Cardinality(Clients) /\ Cardinality(Served') \in Nat
    <3>1. Served' \subseteq Clients /\ IsFiniteSet(Clients)
      BY ServerAssumption DEF Served
    <3> QED
      BY <3>1, FS_Subset, FS_CardinalityType
  <2>3. Cardinality(Clients) \in Nat
    BY ServedFinite
  <2>4. Len(enabled') \in Nat /\ Len(enabled') <= Cardinality(Served')
    BY <2>1 DEF CountInv
  <2> QED
    BY <2>2, <2>3, <2>4
<1>s. ASSUME SessionType, UNCHANGED <<failed, session, seen, tracker, paired, erred, enabled>>,
             slot' \in 0 .. Len(enabled)
      PROVE  SessionType'
  BY <1>s DEF SessionType
<1>l. "ended" \notin {"pairing"} /\ {"counted", "open", "pairing", "in"} = Live
  BY DEF Live
<1>1. ASSUME NEW c \in Clients, Connect(c) \/ Refuse(c) \/ GiveUp(c) \/ Request(c)
      PROVE  SessionType'
  BY <1>1, <1>s DEF Connect, Refuse, GiveUp, Request, Submit, SessionType, peers, wormholeVars
<1>2. ASSUME NEW g \in Wormholes, Expire(g) \/ BroadcastFails(g) PROVE SessionType'
  BY <1>2, <1>s DEF Expire, BroadcastFails, SessionType, peers
<1>3. CASE EnableWormhole
  <2>1. Head(control) \in Commands /\ Head(control).op = "enable"
    BY <1>3 DEF EnableWormhole, Receive
  <2>2. Head(control).persistent \in BOOLEAN
    BY <2>1, CommandsFrom
  <2>3. slot' = Len(enabled) + 1 /\ Len(enabled') = Len(enabled) + 1
        /\ UNCHANGED <<failed, session, seen, tracker, paired, erred>>
    BY <1>3, <2>2 DEF EnableWormhole, peers
  <2>4. 0 .. Len(enabled) \subseteq 0 .. Len(enabled')
    BY <1>0, <2>3
  <2> QED
    BY <1>0, <2>3, <2>4 DEF SessionType
<1>4. CASE DisableWormhole \/ RecvFailure
  BY <1>4, <1>s, BurnSlot DEF DisableWormhole, RecvFailure, SessionType, peers
<1>5. CASE RecvSuccess
  BY <1>5, <1>s, BurnSlot DEF RecvSuccess, SessionType, peers, wormholeVars
<1>6. CASE GetStatus \/ Shutdown \/ Check \/ RecvShutdown \/ NotifyIpc \/ Drain
  BY <1>6, <1>s DEF GetStatus, Shutdown, Check, RecvShutdown, NotifyIpc, Drain, SessionType,
    peers, wormholeVars
<1>7. CASE Close \/ CloseEndpoint \/ ListenerExit \/ SendSuccess
  BY <1>7, <1>s DEF Close, CloseEndpoint, ListenerExit, SendSuccess, SessionType, peers,
    wormholeVars
<1>8. CASE Cleanup
  <2>1. slot' \in 0 .. Len(enabled)
    BY <1>8, BurnSlot DEF Cleanup, SessionType
  <2>2. /\ session' \in [Sessions -> Live \cup {"new", "ended"}]
        /\ \A s \in Sessions : session'[s] = "pairing" => session[s] = "pairing"
    BY <1>8 DEF Cleanup, SessionType
  <2> QED
    BY <1>8, <2>1, <2>2 DEF Cleanup, SessionType
<1>9. ASSUME NEW s \in Sessions, Accept(s) \/ Register(s) \/ EndSession(s) \/ Unregister(s)
      PROVE  SessionType'
  BY <1>9, <1>l DEF Accept, Register, EndSession, Unregister, SessionType, wormholeVars
<1>10. ASSUME NEW s \in Sessions, StartPairing(s) PROVE SessionType'
  <2>1. /\ seen' = [seen EXCEPT ![s] = slot]
        /\ session' = [session EXCEPT ![s] = IF slot = NoWormhole THEN "ended" ELSE "pairing"]
        /\ UNCHANGED <<failed, tracker, paired, erred, enabled, slot>>
    BY <1>10 DEF StartPairing, wormholeVars
  <2> QED
    BY <2>1, <1>l DEF SessionType
<1>11. ASSUME NEW s \in Sessions, session[s] = "pairing"
       PROVE  seen[s] \in Wormholes
  BY <1>0, <1>11 DEF SessionType, Wormholes, NoWormhole
<1>12. ASSUME NEW s \in Sessions, PairingSucceeds(s) \/ PairingKnown(s) PROVE SessionType'
  <2>1. session[s] = "pairing" /\ seen[s] \in Wormholes
    BY <1>11, <1>12 DEF PairingSucceeds, PairingKnown, MayAttempt
  <2>2. /\ session' = [session EXCEPT ![s] = "in"]
        /\ failed' = [failed EXCEPT ![seen[s]] = 0]
        /\ paired' \subseteq paired \cup {<<s, seen[s]>>}
        /\ UNCHANGED <<seen, tracker, erred, enabled, slot>>
    BY <1>12 DEF PairingSucceeds, PairingKnown, wormholeVars
  <2>3. failed' \in [Wormholes -> 0 .. FailureLimit]
    BY <2>1, <2>2, ServerAssumption DEF SessionType
  <2>4. paired' \in SUBSET (Sessions \X Wormholes)
    BY <2>1, <2>2 DEF SessionType
  <2> QED
    BY <2>2, <2>3, <2>4, <1>l DEF SessionType
<1>13. ASSUME NEW s \in Sessions, PairingFails(s) \/ LockoutDecays(s) PROVE SessionType'
  <2>1. /\ session[s] = "pairing" /\ seen[s] \in Wormholes
        /\ UNCHANGED <<session, seen, tracker, paired, enabled, slot>>
        /\ erred' \in SUBSET Sessions
    BY <1>11, <1>13 DEF PairingFails, LockoutDecays, MayAttempt, wormholeVars, SessionType
  <2>2. failed' \in [Wormholes -> 0 .. FailureLimit]
    BY <1>13, <2>1, ServerAssumption DEF PairingFails, LockoutDecays, MayAttempt, SessionType
  <2> QED
    BY <2>1, <2>2 DEF SessionType
<1>14. CASE UNCHANGED vars
  BY <1>14, <1>s DEF vars, SessionType, peers, wormholeVars
<1> QED
  BY <1>1, <1>2, <1>3, <1>4, <1>5, <1>6, <1>7, <1>8, <1>9, <1>10, <1>12, <1>13, <1>14
  DEF Next, Loop

\* No broadcast and no expiry task outlives its wormhole, no channel exceeds
\* its capacity, the counter of a wormhole stays within its limit and there
\* are never more wormholes than clients that asked, however clients, peers
\* and timers meet the loop (mod.rs:450-640, ipc.rs:430-470).
THEOREM TasksStaySound == Spec => []TasksSound
<1>1. Init => TasksInv
  <2> SUFFICES ASSUME Init PROVE TasksInv
    OBVIOUS
  <2>1. Len(enabled) = 0 /\ Len(control) = 0
    BY DEF Init
  <2>2. CountInv
    BY <2>1, ServedFinite DEF CountInv
  <2>3. ClientType /\ SessionType
    BY <2>1, ServedFinite, ServerAssumption DEF Init, ClientType, SessionType, NoWormhole
  <2>4. LoopType
    <3>1. ipcUp \in BOOLEAN /\ requested \in BOOLEAN
      BY Zenon DEF Init
    <3>2. /\ loop = "check" /\ replyTo = NoClient
          /\ shutdownQ = 0 /\ ipcQ = 0 /\ successQ = 0 /\ failureQ = 0 /\ senders = 0
          /\ handles = Handles /\ endpoint = "open" /\ mode \in Modes
      BY DEF Init
    <3>3. Handles \in Nat /\ ControlCap \in Nat
      BY ServerAssumption
    <3> QED
      BY <2>1, <3>1, <3>2, <3>3 DEF LoopType
  <2> QED
    BY <2>2, <2>3, <2>4, InitSlotInv DEF TasksInv
<1>2. TasksInv /\ [Next]_vars => TasksInv'
  BY NextSlotInv, NextCountInv, NextLoopType, NextSessionType DEF TasksInv, SlotInv
<1>3. TasksInv => TasksSound
  <2> SUFFICES ASSUME TasksInv PROVE TasksSound
    OBVIOUS
  <2>1. {slot} \ {NoWormhole} \subseteq 1 .. Len(enabled)
    BY DEF TasksInv, SessionType, SlotInv, SlotType, NoWormhole
  <2>2. broadcasting \subseteq 1 .. Len(enabled) /\ expiring \subseteq 1 .. Len(enabled)
    BY <2>1 DEF TasksInv, SlotInv, NoOrphanTasks
  <2>3. TypeOK
    BY <2>2 DEF TasksInv, SlotInv, SlotType, ClientType, LoopType, SessionType, TypeOK
  <2> QED
    BY <2>3 DEF TasksInv, SlotInv, TasksSound
<1> QED
  BY <1>1, <1>2, <1>3, PTL DEF Spec
=============================================================================
