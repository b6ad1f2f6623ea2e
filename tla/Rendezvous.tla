----------------------------- MODULE Rendezvous -----------------------------
(***************************************************************************)
(* What the tasks of the wormholes make of the Pkarr rendezvous            *)
(* (src/src/transport/wormhole.rs).  Server::run fills and empties the     *)
(* slot (module Server); here the loop is reduced to the two things it     *)
(* does to the rendezvous, Enable and Burn.                                *)
(*                                                                         *)
(* A code may be enabled again, as the codes users choose are.  Aborting a *)
(* task stops it where it waits: one that runs at that moment goes on to   *)
(* its next wait.                                                          *)
(*                                                                         *)
(* The directory is external: a code resolves to the accepted record with  *)
(* the latest signing time, and a ticket nobody republishes expires.       *)
(***************************************************************************)
EXTENDS Integers, Sequences

CONSTANTS
  Codes,        \* wormhole codes
  MaxEnables    \* bound: wormholes enabled in a behaviour

ASSUME RendezvousAssumption == MaxEnables \in Nat

\* a wormhole is named by its number; 0 is the empty slot
Wormholes == 1 .. MaxEnables
NoWormhole == 0

VARIABLES
  active,        \* the wormhole in the slot
  codes,         \* the code of each wormhole enabled so far
  broadcasting,  \* wormholes whose broadcast task lives
  stopping,      \* wormholes whose task was aborted while it was running
  late,          \* wormholes whose task signed its record after its abort
  unpublishing,  \* wormholes whose unpublish task has not sent yet
  stamp,         \* signing time of each wormhole's ticket record, 0: unsigned
  sent,          \* records on their way to the directory
  clock,         \* the last signing time used
  directory      \* what each code resolves to

tasks == <<broadcasting, stopping, late, unpublishing>>
vars == <<active, codes, tasks, stamp, sent, clock, directory>>

Kinds == {"ticket", "empty"}
Nothing == [kind |-> "none", at |-> 0, by |-> NoWormhole]
Record(g, kind, at) == [code |-> codes[g], kind |-> kind, at |-> at, by |-> g]
Records == [code : Codes, kind : Kinds, at : Nat, by : Wormholes]

Init ==
  /\ active = NoWormhole /\ codes = <<>>
  /\ broadcasting = {} /\ stopping = {} /\ late = {} /\ unpublishing = {}
  /\ stamp = [g \in Wormholes |-> 0] /\ sent = {} /\ clock = 0
  /\ directory = [c \in Codes |-> Nothing]

CodeActive(c) == active # NoWormhole /\ codes[active] = c

\* mutants: a burn that forgets to abort the task, a task that publishes once
Stopped_Kept == {NoWormhole}
AfterRound_Once(g) == broadcasting \ {g}

\* the task of the wormhole that leaves the slot is aborted
Stopped == {active}
Replaced == {active} \ {NoWormhole}

\* a task that waits is gone at once, one that runs goes on to its next wait
Abort ==
  /\ stopping' \in {stopping, stopping \cup (Stopped \cap broadcasting)}
  /\ unpublishing' = unpublishing \cup Replaced
  /\ UNCHANGED late

\* replace the wormhole in the slot, if any, and start the new one's task
Enable(c) ==
  /\ Len(codes) < MaxEnables
  /\ LET g == Len(codes) + 1
     IN /\ codes' = Append(codes, c)
        /\ active' = g
        /\ broadcasting' = (broadcasting \ Stopped) \cup {g}
  /\ Abort
  /\ UNCHANGED <<stamp, sent, clock, directory>>

\* disabled, expired, paired, exhausted or shut down: unpublish in a new task
Burn ==
  /\ active # NoWormhole
  /\ active' = NoWormhole
  /\ broadcasting' = broadcasting \ Stopped
  /\ Abort
  /\ UNCHANGED <<codes, stamp, sent, clock, directory>>

\* the ticket record is signed once, when the task starts
SignTicket(g) ==
  /\ g \in broadcasting \cup stopping /\ stamp[g] = 0
  /\ clock' = clock + 1
  /\ stamp' = [stamp EXCEPT ![g] = clock']
  /\ late' = late \cup ({g} \cap stopping)
  /\ UNCHANGED <<active, codes, broadcasting, stopping, unpublishing, sent, directory>>

\* without a client or a signed record there is no broadcast, and the slot
\* stays as it is
SignFails(g) ==
  /\ g \in broadcasting \cup stopping /\ stamp[g] = 0
  /\ broadcasting' = broadcasting \ {g} /\ stopping' = stopping \ {g}
  /\ UNCHANGED <<active, codes, late, unpublishing, stamp, sent, clock, directory>>

\* the task goes on after a round, whatever became of it
AfterRound(g) == broadcasting

\* every 60 seconds the same record is published again; aborting the task
\* does not call back what it has sent
Broadcast(g) ==
  /\ g \in broadcasting \cup stopping /\ stamp[g] # 0
  /\ sent' = sent \cup {Record(g, "ticket", stamp[g])}
  /\ broadcasting' = AfterRound(g) /\ stopping' = stopping \ {g}
  /\ UNCHANGED <<active, codes, late, unpublishing, stamp, clock, directory>>

\* an empty record, signed now, sent once
Unpublish(g) ==
  /\ g \in unpublishing
  /\ unpublishing' = unpublishing \ {g}
  /\ clock' = clock + 1
  /\ sent' = sent \cup {Record(g, "empty", clock')}
  /\ UNCHANGED <<active, codes, broadcasting, stopping, late, stamp, directory>>

\* the directory keeps the record that was signed last
Arrive(r) ==
  /\ r \in sent
  /\ sent' = sent \ {r}
  /\ directory' =
       IF r.at > directory[r.code].at
         THEN [directory EXCEPT ![r.code] = [kind |-> r.kind, at |-> r.at, by |-> r.by]]
         ELSE directory
  /\ UNCHANGED <<active, codes, tasks, stamp, clock>>

Lose(r) ==
  /\ r \in sent
  /\ sent' = sent \ {r}
  /\ UNCHANGED <<active, codes, tasks, stamp, clock, directory>>

\* records expire long after everything that was on its way has arrived
InFlight(c) == {r \in sent : r.code = c}

RecordExpires(c) ==
  /\ directory[c] # Nothing /\ InFlight(c) = {}
  /\ directory[c].kind = "ticket" => directory[c].by \notin broadcasting
  /\ directory' = [directory EXCEPT ![c] = Nothing]
  /\ UNCHANGED <<active, codes, tasks, stamp, sent, clock>>

Next ==
  \/ \E c \in Codes : Enable(c) \/ RecordExpires(c)
  \/ Burn
  \/ \E g \in Wormholes : SignTicket(g) \/ SignFails(g) \/ Broadcast(g) \/ Unpublish(g)
  \/ \E r \in sent : Arrive(r) \/ Lose(r)

Spec == Init /\ [][Next]_vars

(***************************************************************************)
(* Fairness: spawned tasks run, a record published again and again arrives *)
(* now and then, nothing stays on its way, and a ticket nobody republishes *)
(* expires, which a tombstone need not.  Nobody has to enable or burn      *)
(* anything.                                                               *)
(***************************************************************************)
TicketExpires(c) == directory[c].kind = "ticket" /\ RecordExpires(c)

Fairness ==
  /\ \A g \in Wormholes :
       /\ WF_vars(SignTicket(g) \/ SignFails(g)) /\ WF_vars(Broadcast(g)) /\ WF_vars(Unpublish(g))
       /\ SF_vars(\E r \in sent : r.by = g /\ r.kind = "ticket" /\ Arrive(r))
  /\ \A c \in Codes : /\ WF_vars(\E r \in InFlight(c) : Arrive(r) \/ Lose(r))
                      /\ SF_vars(TicketExpires(c))

FairSpec == Spec /\ Fairness

-----------------------------------------------------------------------------
(***************************************************************************)
(* Properties                                                              *)
(***************************************************************************)

\* The type of every variable.
TypeOK ==
  /\ active \in 0 .. Len(codes)
  /\ codes \in Seq(Codes) /\ Len(codes) <= MaxEnables
  /\ \A set \in {broadcasting, stopping, late, unpublishing} : set \in SUBSET (1 .. Len(codes))
  /\ stamp \in [Wormholes -> Nat] /\ clock \in Nat
  /\ sent \in SUBSET Records
  /\ directory \in [Codes -> [kind : Kinds \cup {"none"}, at : Nat, by : Nat]]

\* A tombstone that has been accepted gives way only to the ticket of a wormhole
\* that was enabled later: rounds that the abort of the broadcast task overtook
\* do not bring a code back, however records are lost, late and reordered.  The
\* one exception is a task whose abort found it running and that signed its
\* record after it (server/mod.rs:485-493, wormhole.rs:101-126, 152-155).
NoResurrection ==
  [][ \A c \in Codes :
        directory[c].kind = "empty" /\ directory'[c].kind = "ticket"
          => directory'[c].by > directory[c].by \/ directory'[c].by \in late ]_vars

\* A code that is given up for good stops resolving for good, although the
\* one attempt to unpublish it may be lost: "If it fails, the TTL will
\* naturally expire it anyway" (wormhole.rs:154).
BurnedCodeDies ==
  \A c \in Codes :
    <>[](~CodeActive(c)) => <>[](directory[c].kind # "ticket")

\* the directory has a tombstone of the same code, of an earlier wormhole, that
\* was signed after the ticket of g
Overtaken(g) ==
  LET d == directory[codes[g]]
  IN d.kind = "empty" /\ d.by < g /\ d.at > stamp[g]

\* A wormhole that stays active comes to resolve and goes on resolving,
\* whatever gets lost: records are "republished every 60 seconds while
\* active" (docs/README.md:279-280, wormhole.rs:117-126).  It may not when its
\* task could not sign the record, which nobody is told of, and when its code
\* had been in use before and the unpublish task, which runs beside the new
\* broadcast, signed last (server/mod.rs:485-505).
ActiveCodeResolves ==
  \A g \in Wormholes :
    <>[](active = g) =>
      \/ <>[](active = g /\ directory[codes[g]].kind = "ticket")
      \/ <>[](active = g /\ stamp[g] = 0)
      \/ <>[](active = g /\ Overtaken(g))
=============================================================================
