--------------------------- MODULE ConnectProofs ---------------------------
(***************************************************************************)
(* What one connecting process and the rendezvous it polls keep true, for  *)
(* any number of codes, wormholes, nodes, names and keys and any limits on *)
(* polls, attempts and prompts.  The two parts of a step of ConnectNext    *)
(* share no variable, so each has an inductive invariant of its own.       *)
(***************************************************************************)
EXTENDS Connect, SequenceTheorems, TLAPS

-----------------------------------------------------------------------------
(* The rendezvous *)

\* Only the wormhole in the slot is broadcast, and it is the last one; the tasks
\* that were aborted and those that unpublish are of wormholes that left it.
SlotInv ==
  /\ active \in {NoWormhole, Len(codes)}
  /\ broadcasting \subseteq {active} \ {NoWormhole}
  /\ active \notin stopping \cup unpublishing

\* A tombstone is later than the ticket of its wormhole and of all before it,
\* but for those signed after an abort: none of them can sign in time any more.
Buried(g, t) == g # active /\ \A h \in 1 .. g : h \notin late => stamp[h] < t

StampInv ==
  /\ \A g \in Wormholes : stamp[g] <= clock
  /\ \A r \in sent : /\ r.by \in 1 .. Len(codes)
                     /\ r.kind = "ticket" => r.at = stamp[r.by] /\ r.at # 0
                     /\ r.kind = "empty" => Buried(r.by, r.at)
  /\ \A c \in Codes : directory[c].kind = "empty" =>
       directory[c].by \in 1 .. Len(codes) /\ Buried(directory[c].by, directory[c].at)

RendezvousInv == TypeOK /\ SlotInv /\ StampInv

LEMMA RendezvousInit == Init => RendezvousInv
<1> SUFFICES ASSUME Init PROVE RendezvousInv
  OBVIOUS
<1> USE RendezvousAssumption DEF Init
<1>1. TypeOK
  BY DEF TypeOK, NoWormhole, Wormholes, Nothing, Kinds
<1>2. SlotInv
  BY DEF SlotInv, NoWormhole
<1>3. StampInv
  BY DEF StampInv, Nothing
<1> QED
  BY <1>1, <1>2, <1>3 DEF RendezvousInv

\* What a step that signs no ticket and moves the slot only forward buries stays
\* buried.
LEMMA BuriedStays ==
  ASSUME RendezvousInv, stamp' = stamp, late' = late, active' \in {NoWormhole, active, Len(codes) + 1},
         NEW g \in 1 .. Len(codes), NEW t, Buried(g, t)
  PROVE  Buried(g, t)'
<1>1. g # active'
  BY DEF Buried, RendezvousInv, TypeOK, NoWormhole
<1> QED
  BY <1>1 DEF Buried

\* A step that moves the slot and aborts a task.
LEMMA SlotStep ==
  ASSUME RendezvousInv, Abort, UNCHANGED <<stamp, sent, clock, directory>>,
         codes' \in Seq(Codes), Len(codes) <= Len(codes'), Len(codes') <= MaxEnables,
         active' \in {NoWormhole, Len(codes')}, active' \in {NoWormhole, Len(codes) + 1},
         broadcasting' \subseteq {active'} \ {NoWormhole}
  PROVE  RendezvousInv'
<1> USE RendezvousAssumption DEF RendezvousInv
<1>0. /\ Len(codes) \in Nat /\ Len(codes') \in Nat /\ active \in 0 .. Len(codes)
      /\ broadcasting \subseteq 1 .. Len(codes) /\ stopping \subseteq 1 .. Len(codes)
      /\ late \subseteq 1 .. Len(codes) /\ unpublishing \subseteq 1 .. Len(codes)
  <2>1. Len(codes') \in Nat
    OBVIOUS
  <2>2. Len(codes) \in Nat /\ active \in 0 .. Len(codes)
    BY DEF TypeOK
  <2>3. \A set \in {broadcasting, stopping, late, unpublishing} : set \in SUBSET (1 .. Len(codes))
    BY DEF TypeOK
  <2> QED
    BY <2>1, <2>2, <2>3
<1>1. 1 .. Len(codes) \subseteq 1 .. Len(codes')
  BY <1>0
<1>2. /\ stopping' \subseteq 1 .. Len(codes) /\ unpublishing' \subseteq 1 .. Len(codes)
      /\ late' \subseteq 1 .. Len(codes)
  <2>1. {active} \ {0} \subseteq 1 .. Len(codes)
    BY <1>0
  <2> QED
    BY <1>0, <2>1 DEF Abort, Stopped, Replaced, NoWormhole
<1>3. broadcasting' \subseteq 1 .. Len(codes') /\ active' \in 0 .. Len(codes')
  BY <1>0 DEF NoWormhole
<1>4. TypeOK'
  <2>1. \A set \in {broadcasting', stopping', late', unpublishing'} : set \in SUBSET (1 .. Len(codes'))
    BY <1>1, <1>2, <1>3
  <2>2. /\ stamp' \in [Wormholes -> Nat] /\ clock' \in Nat /\ sent' \in SUBSET Records
        /\ directory' \in [Codes -> [kind : Kinds \cup {"none"}, at : Nat, by : Nat]]
    BY DEF TypeOK
  <2> QED
    BY <1>3, <2>1, <2>2 DEF TypeOK
<1>5. SlotInv'
  BY <1>0, <1>2 DEF SlotInv, NoWormhole
<1>6. /\ late' = late /\ active' \in {NoWormhole, active, Len(codes) + 1}
  BY DEF Abort
<1>7. StampInv'
  <2>1. \A r \in sent' : /\ r.by \in 1 .. Len(codes')
                         /\ r.kind = "ticket" => r.at = stamp'[r.by] /\ r.at # 0
                         /\ r.kind = "empty" => Buried(r.by, r.at)'
    <3> SUFFICES ASSUME NEW r \in sent
                 PROVE  /\ r.by \in 1 .. Len(codes')
                        /\ r.kind = "ticket" => r.at = stamp'[r.by] /\ r.at # 0
                        /\ r.kind = "empty" => Buried(r.by, r.at)'
      OBVIOUS
    <3>1. /\ r.by \in 1 .. Len(codes)
          /\ r.kind = "ticket" => r.at = stamp[r.by] /\ r.at # 0
          /\ r.kind = "empty" => Buried(r.by, r.at)
      BY DEF StampInv
    <3>2. r.kind = "empty" => Buried(r.by, r.at)'
      BY <1>6, <3>1, BuriedStays
    <3> QED
      BY <1>1, <3>1, <3>2
  <2>2. \A c \in Codes : directory'[c].kind = "empty" =>
          directory'[c].by \in 1 .. Len(codes') /\ Buried(directory[c].by, directory[c].at)'
    <3> SUFFICES ASSUME NEW c \in Codes, directory[c].kind = "empty"
                 PROVE  directory[c].by \in 1 .. Len(codes') /\ Buried(directory[c].by, directory[c].at)'
      OBVIOUS
    <3> DEFINE b == directory[c].by
               t == directory[c].at
    <3>1. b \in 1 .. Len(codes) /\ Buried(b, t) /\ b' = b /\ t' = t
      BY DEF StampInv
    <3> HIDE DEF b, t
    <3>2. ASSUME NEW u, NEW v, u = b, v = t PROVE Buried(u, v)'
      BY <1>6, <3>1, <3>2, BuriedStays
    <3>3. Buried(b, t)'
      BY <3>1, <3>2 DEF Buried
    <3> QED
      BY <1>1, <3>1, <3>3 DEF b, t
  <2>3. \A g \in Wormholes : stamp'[g] <= clock'
    BY DEF StampInv
  <2> QED
    BY <2>1, <2>2, <2>3 DEF StampInv, Buried
<1> QED
  BY <1>4, <1>5, <1>7

LEMMA RendezvousStep == RendezvousInv /\ [Next]_vars => RendezvousInv'
<1> SUFFICES ASSUME RendezvousInv, [Next]_vars PROVE RendezvousInv'
  OBVIOUS
<1> USE RendezvousAssumption DEF RendezvousInv
<1>0. /\ Len(codes) \in Nat /\ active \in 0 .. Len(codes) /\ clock \in Nat
      /\ broadcasting \subseteq 1 .. Len(codes) /\ stopping \subseteq 1 .. Len(codes)
      /\ late \subseteq 1 .. Len(codes) /\ unpublishing \subseteq 1 .. Len(codes)
      /\ Len(codes) <= MaxEnables /\ 1 .. Len(codes) \subseteq Wormholes
  BY DEF TypeOK, Wormholes
<1>1. CASE UNCHANGED vars
  BY <1>1 DEF vars, tasks, TypeOK, SlotInv, StampInv, Buried
<1>2. ASSUME NEW c \in Codes, Enable(c) PROVE RendezvousInv'
  <2>1. /\ codes' = Append(codes, c) /\ active' = Len(codes) + 1 /\ Len(codes) < MaxEnables
        /\ broadcasting' = (broadcasting \ {active}) \cup {active'}
        /\ Abort /\ UNCHANGED <<stamp, sent, clock, directory>>
    BY <1>2 DEF Enable, Stopped
  <2>2. codes' \in Seq(Codes) /\ Len(codes') = Len(codes) + 1
    BY <2>1 DEF TypeOK
  <2>3. broadcasting' \subseteq {active'} \ {NoWormhole}
    <3>1. broadcasting \ {active} = {} /\ active' # NoWormhole
      BY <1>0, <2>1 DEF SlotInv, NoWormhole
    <3> QED
      BY <2>1, <3>1
  <2> QED
    BY <1>0, <2>1, <2>2, <2>3, SlotStep
<1>3. CASE Burn
  <2>1. /\ active' = NoWormhole /\ codes' = codes /\ broadcasting' = {}
        /\ Abort /\ UNCHANGED <<stamp, sent, clock, directory>>
    BY <1>3 DEF Burn, Stopped, SlotInv
  <2>2. codes' \in Seq(Codes) /\ Len(codes) <= Len(codes') /\ Len(codes') <= MaxEnables
    BY <1>0, <2>1 DEF TypeOK
  <2>3. broadcasting' \subseteq {active'} \ {NoWormhole}
    BY <2>1
  <2> QED
    BY <2>1, <2>2, <2>3, SlotStep
<1>4. ASSUME NEW g \in Wormholes, SignTicket(g) PROVE RendezvousInv'
  <2>1. /\ g \in broadcasting \cup stopping /\ stamp[g] = 0 /\ clock' = clock + 1
        /\ late' = late \cup ({g} \cap stopping)
        /\ UNCHANGED <<active, codes, broadcasting, stopping, unpublishing, sent, directory>>
    BY <1>4 DEF SignTicket
  <2>2. \A h \in Wormholes : stamp'[h] = IF h = g THEN clock' ELSE stamp[h]
    BY <1>4 DEF SignTicket, TypeOK
  <2>3. TypeOK'
    <3>1. late' \subseteq 1 .. Len(codes)
      BY <1>0, <2>1
    <3>2. stamp' \in [Wormholes -> Nat] /\ clock' \in Nat
      BY <1>0, <1>4 DEF SignTicket, TypeOK
    <3>3. \A set \in {broadcasting', stopping', late', unpublishing'} : set \in SUBSET (1 .. Len(codes'))
      BY <1>0, <2>1, <3>1
    <3> QED
      BY <2>1, <3>2, <3>3 DEF TypeOK
  <2>4. SlotInv'
    BY <2>1 DEF SlotInv
  <2>5. ASSUME NEW b \in 1 .. Len(codes), NEW t, Buried(b, t) PROVE Buried(b, t)'
    <3>1. b # active' /\ \A h \in 1 .. b : h \in Wormholes
      BY <1>0, <2>1, <2>5 DEF Buried
    <3>2. ASSUME NEW h \in 1 .. b, h \notin late' PROVE stamp'[h] < t
      <4>1. h # g
        <5>1. CASE g \in stopping
          BY <2>1, <3>2, <5>1
        <5>2. CASE g \in broadcasting
          <6>1. g = Len(codes) /\ g = active
            BY <5>2 DEF SlotInv, NoWormhole
          <6>2. h # g
            BY <1>0, <2>1, <3>1, <6>1
          <6> QED
            BY <6>2
        <5> QED
          BY <2>1, <5>1, <5>2
      <4>2. stamp[h] < t
        BY <2>1, <2>5, <3>2 DEF Buried
      <4> QED
        BY <2>2, <3>1, <4>1, <4>2
    <3> QED
      BY <3>1, <3>2 DEF Buried
  <2>6. ASSUME NEW r \in sent, r.kind = "ticket" PROVE r.at = stamp'[r.by]
    <3>1. r.at = stamp[r.by] /\ r.by \in Wormholes
      BY <1>0, <2>6 DEF StampInv
    <3>2. r.at # 0
      BY <2>6 DEF StampInv
    <3> QED
      BY <2>1, <2>2, <3>1, <3>2
  <2>7. \A h \in Wormholes : stamp'[h] <= clock'
    BY <1>0, <2>1, <2>2 DEF StampInv, TypeOK
  <2>8. \A r \in sent : /\ r.by \in 1 .. Len(codes) /\ (r.kind = "empty" => Buried(r.by, r.at)')
                        /\ (r.kind = "ticket" => r.at # 0)
    BY <2>5 DEF StampInv
  <2>9. \A c \in Codes : directory[c].kind = "empty" =>
          directory[c].by \in 1 .. Len(codes) /\ Buried(directory[c].by, directory[c].at)'
    <3> SUFFICES ASSUME NEW c \in Codes, directory[c].kind = "empty"
                 PROVE  directory[c].by \in 1 .. Len(codes) /\ Buried(directory[c].by, directory[c].at)'
      OBVIOUS
    <3>1. directory[c].by \in 1 .. Len(codes) /\ Buried(directory[c].by, directory[c].at)
      BY DEF StampInv
    <3>2. ASSUME NEW u, NEW v, u = directory[c].by, v = directory[c].at PROVE Buried(u, v)'
      BY <2>5, <3>1, <3>2
    <3> QED
      BY <2>1, <3>1, <3>2 DEF Buried
  <2>10. StampInv'
    BY <2>1, <2>6, <2>7, <2>8, <2>9 DEF StampInv, Buried
  <2> QED
    BY <2>3, <2>4, <2>10
<1>5. ASSUME NEW g \in Wormholes, SignFails(g) PROVE RendezvousInv'
  <2>1. /\ broadcasting' \subseteq broadcasting /\ stopping' \subseteq stopping
        /\ UNCHANGED <<active, codes, late, unpublishing, stamp, sent, clock, directory>>
    BY <1>5 DEF SignFails
  <2>2. TypeOK'
    BY <1>0, <2>1 DEF TypeOK
  <2>3. SlotInv'
    BY <2>1 DEF SlotInv
  <2>4. StampInv'
    BY <2>1 DEF StampInv, Buried
  <2> QED
    BY <2>2, <2>3, <2>4
<1>6. ASSUME NEW g \in Wormholes, Broadcast(g) PROVE RendezvousInv'
  <2> DEFINE r == Record(g, "ticket", stamp[g])
  <2>1. g \in 1 .. Len(codes) /\ codes[g] \in Codes /\ stamp[g] \in Nat \ {0}
    BY <1>0, <1>6 DEF Broadcast, TypeOK
  <2>2. r \in Records /\ r.kind = "ticket" /\ r.at = stamp[g] /\ r.by = g
    BY <2>1 DEF Record, Records, Kinds
  <2>3. /\ sent' = sent \cup {r} /\ broadcasting' = broadcasting /\ stopping' = stopping \ {g}
        /\ UNCHANGED <<active, codes, late, unpublishing, stamp, clock, directory>>
    BY <1>6 DEF Broadcast, AfterRound
  <2> HIDE DEF r
  <2>4. TypeOK'
    <3>1. \A set \in {broadcasting', stopping', late', unpublishing'} : set \in SUBSET (1 .. Len(codes'))
      BY <1>0, <2>3
    <3>2. sent' \in SUBSET Records
      BY <2>2, <2>3 DEF TypeOK
    <3> QED
      BY <2>3, <3>1, <3>2 DEF TypeOK
  <2>5. SlotInv'
    BY <2>3 DEF SlotInv
  <2>6. StampInv'
    BY <2>1, <2>2, <2>3 DEF StampInv, Buried
  <2> QED
    BY <2>4, <2>5, <2>6
<1>7. ASSUME NEW g \in Wormholes, Unpublish(g) PROVE RendezvousInv'
  <2> DEFINE r == Record(g, "empty", clock')
  <2>1. /\ g \in 1 .. Len(codes) /\ codes[g] \in Codes /\ g # active /\ clock' = clock + 1
    BY <1>0, <1>7 DEF Unpublish, TypeOK, SlotInv
  <2>2. r \in Records /\ r.kind = "empty" /\ r.at = clock + 1 /\ r.by = g
    BY <1>0, <2>1 DEF Record, Records, Kinds
  <2>3. /\ sent' = sent \cup {r} /\ unpublishing' = unpublishing \ {g}
        /\ UNCHANGED <<active, codes, broadcasting, stopping, late, stamp, directory>>
    BY <1>7 DEF Unpublish
  <2> HIDE DEF r
  <2>4. TypeOK'
    <3>1. \A set \in {broadcasting', stopping', late', unpublishing'} : set \in SUBSET (1 .. Len(codes'))
      BY <1>0, <2>3
    <3>2. sent' \in SUBSET Records /\ clock' \in Nat
      BY <1>0, <2>1, <2>2, <2>3 DEF TypeOK
    <3> QED
      BY <2>3, <3>1, <3>2 DEF TypeOK
  <2>5. SlotInv'
    BY <2>3 DEF SlotInv
  <2>6. Buried(r.by, r.at)
    <3>1. \A h \in 1 .. g : h \in Wormholes
      BY <1>0, <2>1
    <3>2. \A h \in Wormholes : stamp[h] < clock + 1
      BY <1>0 DEF StampInv, TypeOK
    <3> QED
      BY <2>1, <2>2, <3>1, <3>2 DEF Buried
  <2>7. \A h \in Wormholes : stamp'[h] <= clock'
    BY <1>0, <2>1, <2>3 DEF StampInv, TypeOK
  <2>8. \A b, t : Buried(b, t)' <=> Buried(b, t)
    BY <2>3 DEF Buried
  <2>9. StampInv'
    BY <2>1, <2>2, <2>3, <2>6, <2>7, <2>8 DEF StampInv
  <2> QED
    BY <2>4, <2>5, <2>9
<1>8. ASSUME NEW r \in sent, Arrive(r) PROVE RendezvousInv'
  <2>1. /\ r.code \in Codes /\ r.at \in Nat /\ r.kind \in Kinds /\ r.by \in Nat
        /\ sent' \subseteq sent /\ UNCHANGED <<active, codes, tasks, stamp, clock>>
    BY <1>8 DEF Arrive, TypeOK, Records, Wormholes
  <2> DEFINE d == [kind |-> r.kind, at |-> r.at, by |-> r.by]
  <2>2. \A c \in Codes : directory'[c] \in {directory[c], d}
    BY <1>8, <2>1 DEF Arrive, TypeOK
  <2>3. directory' \in [Codes -> [kind : Kinds \cup {"none"}, at : Nat, by : Nat]]
    BY <1>8, <2>1 DEF Arrive, TypeOK
  <2>4. d.kind = r.kind /\ d.at = r.at /\ d.by = r.by
    OBVIOUS
  <2> HIDE DEF d
  <2>5. TypeOK'
    BY <1>0, <2>1, <2>3 DEF TypeOK, tasks
  <2>6. SlotInv'
    BY <2>1 DEF SlotInv, tasks
  <2>7. \A b, t : Buried(b, t)' <=> Buried(b, t)
    BY <2>1 DEF Buried, tasks
  <2>8. ASSUME NEW c \in Codes, directory'[c].kind = "empty"
        PROVE  directory'[c].by \in 1 .. Len(codes) /\ Buried(directory'[c].by, directory'[c].at)
    <3>1. CASE directory'[c] = directory[c]
      BY <2>8, <3>1 DEF StampInv
    <3>2. CASE directory'[c] = d
      BY <2>4, <2>8, <3>2 DEF StampInv
    <3> QED
      BY <2>2, <3>1, <3>2
  <2>9. StampInv'
    BY <2>1, <2>7, <2>8 DEF StampInv
  <2> QED
    BY <2>5, <2>6, <2>9
<1>9. ASSUME NEW r \in sent, Lose(r) PROVE RendezvousInv'
  BY <1>9 DEF Lose, tasks, TypeOK, SlotInv, StampInv, Buried
<1>10. ASSUME NEW c \in Codes, RecordExpires(c) PROVE RendezvousInv'
  <2>1. /\ \A d \in Codes : directory'[d] = IF d = c THEN Nothing ELSE directory[d]
        /\ UNCHANGED <<active, codes, tasks, stamp, sent, clock>>
    BY <1>10 DEF RecordExpires, TypeOK
  <2>2. directory' \in [Codes -> [kind : Kinds \cup {"none"}, at : Nat, by : Nat]]
    BY <1>10 DEF RecordExpires, TypeOK, Nothing, NoWormhole
  <2>3. TypeOK'
    BY <1>0, <2>1, <2>2 DEF TypeOK, tasks
  <2>4. SlotInv'
    BY <2>1 DEF SlotInv, tasks
  <2>5. \A b, t : Buried(b, t)' <=> Buried(b, t)
    BY <2>1 DEF Buried, tasks
  <2>6. StampInv'
    BY <2>1, <2>5 DEF StampInv, Nothing
  <2> QED
    BY <2>3, <2>4, <2>6
<1> QED
  BY <1>1, <1>2, <1>3, <1>4, <1>5, <1>6, <1>7, <1>8, <1>9, <1>10 DEF Next

\* A record that replaces a tombstone is the ticket of a later wormhole: the
\* tickets of its own and of those before are older, unless their abort was late.
LEMMA TombstonesStay ==
  ASSUME RendezvousInv, Next, NEW c \in Codes,
         directory[c].kind = "empty", directory'[c].kind = "ticket"
  PROVE  directory'[c].by > directory[c].by \/ directory'[c].by \in late
<1>1. PICK r \in sent : Arrive(r)
  <2>1. ASSUME NEW d \in Codes, RecordExpires(d) PROVE FALSE
    <3>1. directory'[c] \in {directory[c], Nothing}
      BY <2>1 DEF RecordExpires, RendezvousInv, TypeOK
    <3> QED
      BY <3>1 DEF Nothing
  <2> QED
    BY <2>1 DEF Next, Enable, Burn, SignTicket, SignFails, Broadcast, Unpublish, Lose
<1>2. /\ r.code = c /\ r.kind = "ticket" /\ r.at > directory[c].at /\ directory'[c].by = r.by
      /\ r.at \in Nat /\ directory[c].at \in Nat /\ directory[c].by \in Nat
  BY <1>1 DEF Arrive, RendezvousInv, TypeOK, Records
<1>3. r.by \in 1 .. Len(codes) /\ r.at = stamp[r.by] /\ r.by \in Nat
  BY <1>2 DEF RendezvousInv, StampInv, TypeOK
<1>4. Buried(directory[c].by, directory[c].at)
  BY DEF RendezvousInv, StampInv
<1>5. CASE r.by <= directory[c].by /\ r.by \notin late
  <2>1. r.by \in 1 .. directory[c].by
    BY <1>2, <1>3, <1>5
  <2>2. stamp[r.by] < directory[c].at
    BY <1>4, <1>5, <2>1 DEF Buried
  <2> QED
    BY <1>2, <1>3, <2>2
<1> QED
  BY <1>2, <1>3, <1>5

-----------------------------------------------------------------------------
(* The connecting process *)

\* the steps that have both connections, and those between a session and its end
Connected == {"trust", "stream", "handshake", "auth", "asking", "metadata"}
Setups == {"setup", "captured", "naming", "saving", "opening", "starting", "shell"}
Phases == {"idle", "search", "polling", "closing", "ended"} \cup Dials \cup Setups

\* What is open in a phase, and how far its count goes.
Opened(pc) ==
  CASE pc \in {"polling", "closing"}    -> {"discovery"}
    [] pc = "dial"                      -> {"endpoint"}
    [] pc = "blobs"                     -> {"endpoint", "connection"}
    [] pc \in Connected \cup Setups     -> {"endpoint", "connection", "blobs"}
    [] OTHER                            -> {}

Limit(pc) ==
  CASE pc = "polling"            -> MaxPolls - 1
    [] pc = "dial"               -> MaxDials - 1
    [] pc \in {"auth", "asking"} -> MaxPrompts
    [] OTHER                     -> 0

Whys == {"none", "notfound", "unreachable", "refused", "closed", "local", "cancelled", "failed",
         "gone"}

Process ==
  [pc : Phases, code : Codes \cup {NoCode, "nobody"}, node : Nodes \cup {NoNode}, n : Nat,
   policy : Policies \cup {"none"}, pin : Keys \cup {NoKey}, key : Keys \cup {NoKey},
   name : Names \cup {NoNode}, gone : BOOLEAN, open : SUBSET Resources,
   at : Phases \cup {"none"}, why : Whys, unsaved : BOOLEAN]

\* Nothing is left that the phase did not open, and nothing at all unless the
\* end is one of those that leave it to the exit of the process.
Released(at, why, left) ==
  /\ ~Leaky(at, why) => left = {}
  /\ "discovery" \in left => left = {"discovery"}

ProcessInv(r) ==
  /\ r \in Process
  /\ r.n <= Limit(r.pc)
  /\ r.pc = "ended" => Released(r.at, r.why, r.open)
  /\ r.pc = "blocked" => r.why \in {"refused", "cancelled"} /\ Released(r.pc, r.why, r.open)
  /\ r.pc \notin {"ended", "blocked"} => r.open = Opened(r.pc) /\ r.why = "none"
  /\ r.pc \in Dials \cup Setups => r.node \in Nodes
  /\ r.pc \in {"setup", "naming", "saving"} => r.name \in Names

ClientInv ==
  /\ ProcessInv(cl)
  /\ book \in Books
  /\ pins \in [Nodes -> Keys \cup {NoKey}]

LEMMA IdleInv == ProcessInv(Idle)
<1>1. Idle \in Process
  BY DEF Idle, Process, Phases, Whys
<1> QED
  BY <1>1 DEF Idle, ProcessInv, Limit, Opened, Setups, Connected, Dials

LEMMA EndsInv ==
  ASSUME ClientInv, NEW why \in Whys, NEW left \in SUBSET Resources, NEW lost \in BOOLEAN,
         Released(cl.pc, why, left), cl' = Ended(why, left, lost)
  PROVE  ProcessInv(cl')
<1>0. cl.pc \in Phases
  BY DEF ClientInv, ProcessInv, Process
<1>1. /\ cl'.pc = "ended" /\ cl'.at = cl.pc /\ cl'.why = why /\ cl'.open = left /\ cl'.n = 0
  BY DEF Ended, Idle
<1>2. cl' \in Process
  BY <1>0 DEF Ended, Idle, Process, Phases
<1> QED
  BY <1>1, <1>2 DEF ProcessInv, Limit, Setups, Dials

LEMMA DialingInv ==
  ASSUME NEW n \in Nodes, NEW c \in Codes \cup {NoCode, "nobody"}
  PROVE  ProcessInv(Dialing(n, c))
<1> DEFINE r == Dialing(n, c)
<1>1. /\ r.pc = "bind" /\ r.why = "none" /\ r.open = {} /\ r.n = 0 /\ r.node = n
      /\ r \in Process
  BY DEF Dialing, Idle, Process, Phases, Dials, Whys
<1> HIDE DEF r
<1>2. ProcessInv(r)
  BY <1>1 DEF ProcessInv, Limit, Opened, Setups, Connected
<1> QED
  BY <1>2 DEF r

LEMMA SearchingInv ==
  ASSUME NEW c \in Codes \cup {NoCode, "nobody"}
  PROVE  ProcessInv(Searching(c))
<1> DEFINE r == Searching(c)
<1>1. /\ r.pc = "search" /\ r.why = "none" /\ r.open = {} /\ r.n = 0
      /\ r \in Process
  BY DEF Searching, Idle, Process, Phases, Whys
<1> HIDE DEF r
<1>2. ProcessInv(r)
  BY <1>1 DEF ProcessInv, Limit, Opened, Setups, Connected, Dials
<1> QED
  BY <1>2 DEF r

\* auto_save_temp_peer writes a profile under a name of the book, and leads to
\* the node it was called for.
LEMMA SaveTempSaves ==
  ASSUME NEW b \in Books, NEW n \in Nodes
  PROVE  SaveTemp(b, n) \in Books /\ Known(SaveTemp(b, n), n)
<1>1. TempName(n) \in Names
  BY DEF Names
<1> QED
  BY <1>1 DEF SaveTemp, Books, Known

LEMMA GiveUpInv ==
  ASSUME ClientInv, cl.node \in Nodes, NEW why \in Whys, NEW left \in SUBSET Resources,
         Released(cl.pc, why, left), GiveUp(why, left)
  PROVE  ProcessInv(cl') /\ book' \in Books
<1>1. SaveTemp(book, cl.node) \in Books
  BY SaveTempSaves DEF ClientInv
<1>2. CASE End(why, left) /\ book' = IF Pairing THEN SaveTemp(book, cl.node) ELSE book
  BY <1>1, <1>2, EndsInv DEF ClientInv, End
<1>3. CASE book' = book /\ cl' = Ended(why, left, TRUE)
  BY <1>3, EndsInv DEF ClientInv
<1> QED
  BY <1>2, <1>3 DEF GiveUp

\* Each step of the process keeps its invariant.
LEMMA SearchStep ==
  ASSUME ClientInv,
         \/ \E n \in Nodes : ResolveTicket(n)
         \/ \E t \in Names \cup Codes : ResolveText(t)
         \/ SearchBegins \/ Poll \/ SearchTimeout \/ SearchCloses \/ SearchCancelled
  PROVE  ClientInv'
<1> USE ConnectAssumption DEF ClientInv
<1>0. UNCHANGED <<book, pins>>
  BY DEF ResolveTicket, ResolveText, SearchBegins, Poll, SearchTimeout, SearchCloses,
         SearchCancelled
<1>c. /\ cl \in Process /\ cl.n \in Nat /\ cl.code \in Codes \cup {NoCode, "nobody"}
      /\ cl.node \in Nodes \cup {NoNode} /\ cl.open \in SUBSET Resources
  BY DEF ProcessInv, Process
<1>s. ASSUME cl.pc \in {"polling", "closing"}
      PROVE  cl.open = {"discovery"} /\ cl.why = "none"
  BY <1>s DEF ProcessInv, Opened, Setups, Connected
<1>l. ASSUME End("local", {}) PROVE ClientInv'
  <2>1. Released(cl.pc, "local", {}) /\ "local" \in Whys
    BY DEF Released, Whys
  <2> QED
    BY <1>0, <1>l, <2>1, EndsInv DEF End
<1>o. ASSUME cl.pc = "polling", NEW n \in Nodes \cup {NoNode}, SearchOver(n) PROVE ClientInv'
  <2>1. /\ cl'.pc = "closing" /\ cl'.open = cl.open /\ cl'.n = 0 /\ cl'.why = cl.why
    BY <1>c, <1>o DEF SearchOver, Process
  <2>2. cl' \in Process
    BY <1>c, <1>o DEF SearchOver, Process, Phases
  <2>3. 0 <= Limit("closing") /\ Opened("closing") = {"discovery"}
    BY DEF Limit, Opened, Setups, Connected
  <2> QED
    BY <1>0, <1>o, <1>s, <2>1, <2>2, <2>3 DEF ProcessInv, Setups, Dials
<1>1. ASSUME NEW n \in Nodes, ResolveTicket(n) PROVE ClientInv'
  BY <1>1, DialingInv DEF ResolveTicket
<1>2. ASSUME NEW t \in Names \cup Codes, ResolveText(t) PROVE ClientInv'
  <2>1. CASE t \in Names /\ book[t] # NoNode
    <3>1. book[t] \in Nodes
      BY <1>2, <2>1 DEF ResolveText, Books
    <3> QED
      BY <1>2, <2>1, <3>1, DialingInv DEF ResolveText
  <2>2. CASE cl' = Searching(IF t \in Codes THEN t ELSE "nobody")
    BY <1>2, <2>2, SearchingInv DEF ResolveText
  <2> QED
    BY <1>2, <1>l, <2>1, <2>2 DEF ResolveText
<1>3. CASE SearchBegins
  <2>1. CASE cl' = [cl EXCEPT !.pc = "polling", !.open = {"discovery"}]
    <3>1. /\ cl'.pc = "polling" /\ cl'.open = {"discovery"} /\ cl'.n = cl.n
          /\ cl'.why = cl.why /\ cl.pc = "search"
      BY <1>3, <1>c, <2>1 DEF SearchBegins, Process
    <3>2. cl' \in Process
      BY <1>c, <2>1 DEF Process, Phases, Resources
    <3>3. cl.n = 0 /\ cl.why = "none"
      BY <1>c, <3>1 DEF ProcessInv, Limit
    <3> QED
      BY <1>0, <3>1, <3>2, <3>3 DEF ProcessInv, Limit, Opened, Connected, Setups, Dials
  <2> QED
    BY <1>3, <1>l, <2>1 DEF SearchBegins
<1>4. CASE Poll
  <2>0. cl.pc = "polling"
    BY <1>4 DEF Poll
  <2>1. CASE cl.n + 1 < MaxPolls /\ cl' = [cl EXCEPT !.n = @ + 1]
    <3>1. /\ cl'.pc = "polling" /\ cl'.open = cl.open /\ cl'.n = cl.n + 1 /\ cl'.why = cl.why
      BY <1>c, <2>0, <2>1 DEF Process
    <3>2. cl' \in Process
      BY <1>c, <2>1 DEF Process
    <3>3. cl'.n <= Limit("polling") /\ Opened("polling") = {"discovery"}
      BY <1>c, <2>1, <3>1 DEF Limit, Opened, Setups, Connected
    <3> QED
      BY <1>0, <1>s, <2>0, <3>1, <3>2, <3>3 DEF ProcessInv, Setups, Dials
  <2> QED
    BY <1>4, <1>o, <2>0, <2>1 DEF Poll
<1>5. CASE SearchTimeout
  BY <1>5, <1>o DEF SearchTimeout
<1>6. CASE SearchCloses
  <2>0. cl.pc = "closing"
    BY <1>6 DEF SearchCloses
  <2>1. CASE cl.node # NoNode /\ cl' = Dialing(cl.node, cl.code)
    BY <1>0, <1>c, <2>1, DialingInv
  <2>2. CASE End("notfound", cl.open \ {"discovery"})
    <3>1. cl.open \ {"discovery"} = {} /\ "notfound" \in Whys /\ Released(cl.pc, "notfound", {})
      BY <1>s, <2>0 DEF Whys, Released
    <3> QED
      BY <1>0, <2>2, <3>1, EndsInv DEF End
  <2> QED
    BY <1>6, <2>1, <2>2 DEF SearchCloses
<1>7. CASE SearchCancelled
  <2>1. Released(cl.pc, "cancelled", cl.open) /\ "cancelled" \in Whys
    BY <1>7 DEF SearchCancelled, ProcessInv, Opened, Setups, Connected, Released, Leaky, Whys
  <2> QED
    BY <1>0, <1>7, <1>c, <2>1, EndsInv DEF SearchCancelled, End
<1> QED
  BY <1>1, <1>2, <1>3, <1>4, <1>5, <1>6, <1>7

\* What an attempt has open while it dials: never the endpoint of the search.
LEMMA DialsOpen ==
  ASSUME ClientInv, cl.pc \in (Dials \ {"blocked"}) \cup Setups
  PROVE  /\ cl.open = Opened(cl.pc) /\ cl.open \in SUBSET Resources
         /\ cl.why = "none" /\ cl.node \in Nodes
         /\ cl \in Process /\ cl.n \in Nat /\ cl.n <= Limit(cl.pc)
         /\ "discovery" \notin cl.open
         /\ cl.pc = "bind" => cl.open = {}
         /\ cl.pc = "dial" => cl.open \ {"endpoint"} = {}
         /\ cl.pc = "blobs" => BlobsFailed = {}
         /\ cl.pc \in Connected \cup Setups => AllClosed = {}
<1>1. cl.pc \notin {"ended", "blocked", "polling", "closing"} /\ cl.pc \in Dials \cup Setups
  BY DEF Dials, Setups
<1>2. /\ cl.open = Opened(cl.pc) /\ cl.why = "none" /\ cl.node \in Nodes
      /\ cl \in Process /\ cl.n <= Limit(cl.pc)
  BY <1>1 DEF ClientInv, ProcessInv
<1>3. cl.n \in Nat /\ cl.open \in SUBSET Resources
  BY <1>2 DEF Process
<1>4. "discovery" \notin Opened(cl.pc)
  BY <1>1 DEF Opened, Setups, Connected
<1>5. /\ cl.pc = "bind" => Opened(cl.pc) = {}
      /\ cl.pc = "dial" => Opened(cl.pc) = {"endpoint"}
      /\ cl.pc = "blobs" => Opened(cl.pc) = {"endpoint", "connection"}
  BY DEF Opened, Setups, Connected
<1>6. cl.pc \in Connected \cup Setups => Opened(cl.pc) = {"endpoint", "connection", "blobs"}
  BY DEF Opened, Setups, Connected
<1> QED
  BY <1>2, <1>3, <1>4, <1>5, <1>6 DEF BlobsFailed, AllClosed

LEMMA GiveUpReleased ==
  ASSUME ClientInv, cl.pc \in Dials \ {"blocked"}, UNCHANGED pins,
         \/ cl.pc \in {"bind", "trust"} /\ GiveUp("local", cl.open)
         \/ GiveUp("cancelled", cl.open)
         \/ GiveUp("refused", {}) \/ GiveUp("unreachable", {})
  PROVE  ClientInv'
<1>1. /\ cl.pc \in {"bind", "trust"} => Released(cl.pc, "local", cl.open)
      /\ Released(cl.pc, "cancelled", cl.open)
      /\ Released(cl.pc, "refused", {}) /\ Released(cl.pc, "unreachable", {})
      /\ cl.open \in SUBSET Resources /\ cl.node \in Nodes
  BY DialsOpen DEF Released, Leaky
<1>2. {"local", "cancelled", "refused", "unreachable"} \subseteq Whys
  BY DEF Whys
<1>3. ProcessInv(cl') /\ book' \in Books
  BY <1>1, <1>2, GiveUpInv
<1> QED
  BY <1>3 DEF ClientInv

\* The failure waits for the prompt.
LEMMA BlockedInv ==
  ASSUME ClientInv, cl.pc = "asking", UNCHANGED pins,
         Blocked("refused", {}) \/ Blocked("cancelled", cl.open)
  PROVE  ClientInv'
<1>0. /\ cl.open \in SUBSET Resources /\ cl.node \in Nodes /\ cl \in Process
      /\ "discovery" \notin cl.open
  BY DialsOpen DEF Dials
<1>1. PICK why \in {"refused", "cancelled"}, left \in SUBSET Resources :
        /\ Released("blocked", why, left) /\ UNCHANGED book
        /\ cl' = [cl EXCEPT !.pc = "blocked", !.n = 0, !.why = why, !.open = left]
  BY <1>0 DEF Blocked, Released, Leaky
<1>2. /\ cl'.pc = "blocked" /\ cl'.n = 0 /\ cl'.why = why /\ cl'.open = left /\ cl'.node = cl.node
  BY <1>0, <1>1 DEF Process
<1>3. cl' \in Process
  <2>1. why \in Whys /\ "blocked" \in Phases
    BY DEF Whys, Phases, Dials
  <2> QED
    BY <1>0, <1>1, <2>1 DEF Process
<1>4. ProcessInv(cl')
  BY <1>0, <1>1, <1>2, <1>3 DEF ProcessInv, Limit
<1> QED
  BY <1>1, <1>4 DEF ClientInv

LEMMA UnblockedInv ==
  ASSUME ClientInv, Unblocked
  PROVE  ClientInv'
<1>1. /\ cl.pc = "blocked" /\ UNCHANGED pins /\ GiveUp(cl.why, cl.open)
  BY DEF Unblocked
<1>2. /\ Released(cl.pc, cl.why, cl.open) /\ cl.why \in Whys /\ cl.open \in SUBSET Resources
      /\ cl.node \in Nodes
  BY <1>1 DEF ClientInv, ProcessInv, Process, Dials
<1>3. ProcessInv(cl') /\ book' \in Books
  BY <1>1, <1>2, GiveUpInv
<1> QED
  BY <1>1, <1>3 DEF ClientInv

LEMMA DialStep ==
  ASSUME ClientInv,
         \/ Bind \/ DialAttempt \/ DialBlobs \/ LoadTrust \/ OpenBi
         \/ \E k \in Keys : CheckServerKey(k)
         \/ Authenticate \/ AnswerPrompt \/ HandshakeTimeout \/ Metadata \/ DialCancelled
  PROVE  ClientInv'
<1> USE ConnectAssumption
<1>0. cl.pc \in Dials \ {"blocked"}
  BY DEF Bind, DialAttempt, DialBlobs, LoadTrust, OpenBi, CheckServerKey, Authenticate,
         AnswerPrompt, HandshakeTimeout, Metadata, DialCancelled, Dials
<1>o. /\ cl.open = Opened(cl.pc) /\ cl.open \in SUBSET Resources
      /\ cl.why = "none" /\ cl.node \in Nodes
      /\ cl \in Process /\ cl.n \in Nat /\ cl.n <= Limit(cl.pc)
      /\ cl.pc = "dial" => cl.open \ {"endpoint"} = {}
      /\ cl.pc = "blobs" => BlobsFailed = {}
      /\ cl.pc \in Connected => AllClosed = {}
  BY <1>0, DialsOpen
<1>m. ASSUME NEW pc \in Dials \ {"blocked"}, cl' \in Process, cl'.pc = pc, cl'.open = Opened(pc),
             cl'.n <= Limit(pc), cl'.why = cl.why, cl'.node = cl.node, UNCHANGED <<book, pins>>
      PROVE  ClientInv'
  <2>1. pc \notin {"ended", "blocked", "setup", "naming", "saving"}
    BY DEF Dials
  <2>2. ProcessInv(cl')
    BY <1>m, <1>o, <2>1 DEF ProcessInv
  <2> QED
    BY <1>m, <2>2 DEF ClientInv
<1>b. book \in Books /\ pins \in [Nodes -> Keys \cup {NoKey}]
  BY DEF ClientInv
<1>1. CASE Bind
  <2>0. cl.pc = "bind" /\ UNCHANGED pins /\ cl.open = {} /\ cl.n = 0
    BY <1>1, <1>o DEF Bind, Opened, Setups, Connected, Limit
  <2>1. CASE cl' = [cl EXCEPT !.pc = "dial", !.open = @ \cup {"endpoint"}] /\ UNCHANGED book
    <3>1. /\ cl'.pc = "dial" /\ cl'.open = {"endpoint"} /\ cl'.n = 0
          /\ cl'.why = cl.why /\ cl'.node = cl.node
      BY <1>o, <2>0, <2>1 DEF Process
    <3>2. cl' \in Process
      BY <1>o, <2>1 DEF Process, Phases, Dials, Resources
    <3>3. 0 <= Limit("dial") /\ Opened("dial") = {"endpoint"} /\ "dial" \in Dials \ {"blocked"}
      BY DEF Limit, Opened, Setups, Connected, Dials
    <3> QED
      BY <1>m, <2>0, <2>1, <3>1, <3>2, <3>3
  <2> QED
    BY <1>1, <1>0, <2>0, <2>1, GiveUpReleased DEF Bind
<1>2. CASE DialAttempt
  <2>0. cl.pc = "dial" /\ UNCHANGED pins /\ cl.open = {"endpoint"}
    BY <1>2, <1>o DEF DialAttempt, Opened
  <2>1. CASE /\ cl' = [cl EXCEPT !.pc = "blobs", !.n = 0, !.open = @ \cup {"connection"}]
             /\ UNCHANGED book
    <3>1. /\ cl'.pc = "blobs" /\ cl'.open = {"endpoint", "connection"} /\ cl'.n = 0
          /\ cl'.why = cl.why /\ cl'.node = cl.node
      BY <1>o, <2>0, <2>1 DEF Process
    <3>2. cl' \in Process
      BY <1>o, <2>1 DEF Process, Phases, Dials, Resources
    <3>3. /\ 0 <= Limit("blobs") /\ Opened("blobs") = {"endpoint", "connection"}
          /\ "blobs" \in Dials \ {"blocked"}
      BY DEF Limit, Opened, Setups, Connected, Dials
    <3> QED
      BY <1>m, <2>0, <2>1, <3>1, <3>2, <3>3
  <2>2. CASE cl.n + 1 < MaxDials /\ cl' = DialAgain /\ UNCHANGED book
    <3>1. /\ cl'.pc = "dial" /\ cl'.open = cl.open /\ cl'.n = cl.n + 1
          /\ cl'.why = cl.why /\ cl'.node = cl.node /\ cl' \in Process
      BY <1>o, <2>0, <2>2 DEF Process, DialAgain
    <3>2. cl'.n <= Limit("dial") /\ "dial" \in Dials \ {"blocked"}
      BY <1>o, <2>2, <3>1 DEF Limit, Dials
    <3> QED
      BY <1>m, <1>o, <2>0, <2>2, <3>1, <3>2
  <2>3. CASE GiveUp("unreachable", cl.open \ {"endpoint"})
    BY <1>0, <1>o, <2>0, <2>3, GiveUpReleased
  <2> QED
    BY <1>2, <2>1, <2>2, <2>3 DEF DialAttempt
<1>a. \A pc \in Connected : /\ Opened(pc) = {"endpoint", "connection", "blobs"}
                             /\ pc \in Dials \ {"blocked"}
  BY DEF Opened, Connected, Dials
<1>z. ASSUME NEW pc \in Connected \ {"auth", "asking"} PROVE Limit(pc) = 0
  BY DEF Limit, Connected
<1>3. CASE DialBlobs
  <2>0. cl.pc = "blobs" /\ UNCHANGED pins /\ cl.open = {"endpoint", "connection"} /\ cl.n = 0
    BY <1>3, <1>o DEF DialBlobs, Opened, Setups, Connected, Limit
  <2>1. CASE cl' = [cl EXCEPT !.pc = "trust", !.open = @ \cup {"blobs"}] /\ UNCHANGED book
    <3>1. /\ cl'.pc = "trust" /\ cl'.open = {"endpoint", "connection", "blobs"} /\ cl'.n = 0
          /\ cl'.why = cl.why /\ cl'.node = cl.node
      BY <1>o, <2>0, <2>1 DEF Process
    <3>2. cl' \in Process
      BY <1>o, <2>1 DEF Process, Phases, Dials, Resources
    <3>3. "trust" \in Connected \ {"auth", "asking"}
      BY DEF Connected
    <3> QED
      BY <1>a, <1>m, <1>z, <2>0, <2>1, <3>1, <3>2, <3>3
  <2>2. CASE GiveUp("unreachable", BlobsFailed)
    BY <1>0, <1>o, <2>0, <2>2, GiveUpReleased
  <2> QED
    BY <1>3, <2>1, <2>2 DEF DialBlobs
<1>4. CASE LoadTrust
  <2>0. cl.pc = "trust" /\ UNCHANGED pins /\ "trust" \in Connected /\ cl.n = 0
    <3>1. cl.pc = "trust" /\ UNCHANGED pins
      BY <1>4 DEF LoadTrust
    <3> QED
      BY <1>o, <3>1 DEF Connected, Limit
  <2>1. ASSUME NEW p \in Policies, UNCHANGED book,
               cl' = [cl EXCEPT !.pc = "stream", !.policy = p,
                                !.pin = IF p = "AcceptAll" THEN NoKey ELSE pins[cl.node]]
        PROVE  ClientInv'
    <3> DEFINE pin == IF p = "AcceptAll" THEN NoKey ELSE pins[cl.node]
    <3>1. pin \in Keys \cup {NoKey} /\ p \in Policies \cup {"none"}
      BY <1>o, <1>b
    <3>2. cl' = [cl EXCEPT !.pc = "stream", !.policy = p, !.pin = pin]
      BY <2>1
    <3> HIDE DEF pin
    <3>3. cl' \in Process
      BY <1>o, <3>1, <3>2 DEF Process, Phases, Dials
    <3>4. /\ cl'.pc = "stream" /\ cl'.open = cl.open /\ cl'.n = cl.n
          /\ cl'.why = cl.why /\ cl'.node = cl.node
      BY <1>o, <3>2 DEF Process
    <3>5. "stream" \in Connected \ {"auth", "asking"}
      BY DEF Connected
    <3> QED
      BY <1>a, <1>m, <1>o, <1>z, <2>0, <2>1, <3>3, <3>4, <3>5
  <2>2. CASE GiveUp("local", cl.open)
    BY <1>0, <2>0, <2>2, GiveUpReleased
  <2> QED
    BY <1>4, <2>1, <2>2 DEF LoadTrust
<1>5. CASE OpenBi
  <2>0. cl.pc = "stream" /\ UNCHANGED pins /\ "stream" \in Connected /\ cl.n = 0
    BY <1>5, <1>o DEF OpenBi, Connected, Limit
  <2>1. CASE cl' = [cl EXCEPT !.pc = "handshake"] /\ UNCHANGED book
    <3>1. /\ cl'.pc = "handshake" /\ cl'.open = cl.open /\ cl'.n = cl.n
          /\ cl'.why = cl.why /\ cl'.node = cl.node
      BY <1>o, <2>1 DEF Process
    <3>2. cl' \in Process
      BY <1>o, <2>1 DEF Process, Phases, Dials
    <3>3. "handshake" \in Connected \ {"auth", "asking"}
      BY DEF Connected
    <3>4. cl'.open = Opened("handshake") /\ cl'.n <= Limit("handshake")
      BY <1>a, <1>o, <1>z, <2>0, <3>1, <3>3
    <3> QED
      BY <1>a, <1>m, <2>0, <2>1, <3>1, <3>2, <3>3, <3>4
  <2>2. CASE GiveUp("refused", AllClosed)
    BY <1>0, <1>o, <2>0, <2>2, GiveUpReleased
  <2> QED
    BY <1>5, <2>1, <2>2 DEF OpenBi
<1>6. ASSUME NEW k \in Keys, CheckServerKey(k) PROVE ClientInv'
  <2>0. cl.pc = "handshake" /\ "handshake" \in Connected /\ cl.n = 0
    BY <1>6, <1>o DEF CheckServerKey, Connected, Limit
  <2>1. CASE KeyAccepted(k)
    <3>1. /\ cl'.pc = "auth" /\ cl'.open = cl.open /\ cl'.n = cl.n
          /\ cl'.why = cl.why /\ cl'.node = cl.node
      BY <1>o, <2>1 DEF Process, KeyAccepted
    <3>2. cl' \in Process
      BY <1>o, <2>1 DEF Process, Phases, Dials, KeyAccepted
    <3>3. 0 <= Limit("auth") /\ "auth" \in Connected
      BY DEF Limit, Connected
    <3>4. ProcessInv(cl')
      BY <1>a, <1>o, <2>0, <3>1, <3>2, <3>3 DEF ProcessInv
    <3>5. /\ book' \in Books
          /\ pins' \in [Nodes -> Keys \cup {NoKey}]
      <4>1. CASE GiveUp("refused", AllClosed)
        <5>1. cl'.pc = "ended"
          <6>1. \E lost \in BOOLEAN : cl' = Ended("refused", AllClosed, lost)
            BY <4>1 DEF GiveUp, End
          <6> QED
            BY <6>1 DEF Ended, Idle
        <5> QED
          BY <3>1, <5>1
      <4>2. CASE UNCHANGED book /\ (pins' = pins \/ pins' = [pins EXCEPT ![cl.node] = k])
        BY <1>b, <1>o, <4>2
      <4> QED
        BY <1>6, <4>1, <4>2 DEF CheckServerKey
    <3> QED
      BY <3>4, <3>5 DEF ClientInv
  <2>2. CASE GiveUp("refused", AllClosed) /\ UNCHANGED pins
    BY <1>0, <1>o, <2>0, <2>2, GiveUpReleased
  <2> QED
    BY <1>6, <2>1, <2>2 DEF CheckServerKey
<1>7. CASE Authenticate
  <2>0. cl.pc = "auth" /\ UNCHANGED pins /\ "auth" \in Connected
    BY <1>7 DEF Authenticate, Connected
  <2>1. CASE /\ cl' = [cl EXCEPT !.pc = "metadata", !.n = 0, !.policy = "none",
                                 !.pin = NoKey, !.key = NoKey]
             /\ UNCHANGED book
    <3>1. /\ cl'.pc = "metadata" /\ cl'.open = cl.open /\ cl'.n = 0
          /\ cl'.why = cl.why /\ cl'.node = cl.node
      BY <1>o, <2>1 DEF Process
    <3>2. cl' \in Process
      BY <1>o, <2>1 DEF Process, Phases, Dials
    <3>3. "metadata" \in Connected \ {"auth", "asking"}
      BY DEF Connected
    <3> QED
      BY <1>a, <1>m, <1>o, <1>z, <2>0, <2>1, <3>1, <3>2, <3>3
  <2>2. CASE cl.n < MaxPrompts /\ cl' = [cl EXCEPT !.pc = "asking", !.n = @ + 1] /\ UNCHANGED book
    <3>1. /\ cl'.pc = "asking" /\ cl'.open = cl.open /\ cl'.n = cl.n + 1
          /\ cl'.why = cl.why /\ cl'.node = cl.node
      BY <1>o, <2>2 DEF Process
    <3>2. cl' \in Process
      <4>1. cl.n + 1 \in Nat /\ "asking" \in Phases
        BY <1>o DEF Phases, Dials
      <4> QED
        BY <1>o, <2>2, <4>1 DEF Process
    <3>3. cl'.n <= Limit("asking") /\ "asking" \in Connected
      BY <1>o, <2>2, <3>1 DEF Limit, Connected
    <3> QED
      BY <1>a, <1>m, <1>o, <2>0, <2>2, <3>1, <3>2, <3>3
  <2>3. CASE GiveUp("refused", AllClosed)
    BY <1>0, <1>o, <2>0, <2>3, GiveUpReleased
  <2> QED
    BY <1>7, <2>1, <2>2, <2>3 DEF Authenticate
<1>8. CASE AnswerPrompt
  <2>0. cl.pc = "asking" /\ UNCHANGED pins /\ "asking" \in Connected
    BY <1>8 DEF AnswerPrompt, Connected
  <2>1. CASE cl' = [cl EXCEPT !.pc = "auth"] /\ UNCHANGED book
    <3>1. /\ cl'.pc = "auth" /\ cl'.open = cl.open /\ cl'.n = cl.n
          /\ cl'.why = cl.why /\ cl'.node = cl.node
      BY <1>o, <2>1 DEF Process
    <3>2. cl' \in Process
      BY <1>o, <2>1 DEF Process, Phases, Dials
    <3>3. Limit("auth") = Limit("asking") /\ "auth" \in Connected
      BY DEF Limit, Connected
    <3>4. cl'.open = Opened("auth") /\ cl'.n <= Limit("auth")
      BY <1>a, <1>o, <2>0, <3>1, <3>3
    <3> QED
      BY <1>a, <1>m, <2>0, <2>1, <3>1, <3>2, <3>3, <3>4
  <2>2. CASE GiveUp("refused", AllClosed)
    BY <1>0, <1>o, <2>0, <2>2, GiveUpReleased
  <2> QED
    BY <1>8, <2>1, <2>2 DEF AnswerPrompt
<1>9. CASE HandshakeTimeout
  <2>1. cl.pc \in Connected /\ UNCHANGED pins
    BY <1>9 DEF HandshakeTimeout, Connected
  <2> QED
    BY <1>9, <1>0, <1>o, <2>1, GiveUpReleased, BlockedInv DEF HandshakeTimeout
<1>10. CASE Metadata
  <2>1. PICK m \in Aliases \cup {TempName(cl.node)} :
          cl' = [cl EXCEPT !.pc = "setup", !.name = m]
    BY <1>10 DEF Metadata
  <2>2. m \in Names
    BY <1>o DEF Names
  <2>3. /\ cl'.pc = "setup" /\ cl'.open = cl.open /\ cl'.n = cl.n /\ cl'.name = m
        /\ cl'.why = cl.why /\ cl'.node = cl.node /\ cl.pc = "metadata"
    BY <1>10, <1>o, <2>1 DEF Metadata, Process
  <2>4. cl' \in Process
    BY <1>o, <2>1, <2>2 DEF Process, Phases, Setups
  <2>5. Limit("setup") = Limit("metadata") /\ Opened("setup") = Opened("metadata")
    BY DEF Limit, Opened, Setups, Connected
  <2> QED
    BY <1>10, <1>b, <1>o, <2>2, <2>3, <2>4, <2>5 DEF Metadata, ClientInv, ProcessInv
<1>11. CASE DialCancelled
  BY <1>11, <1>0, GiveUpReleased, BlockedInv DEF DialCancelled
<1> QED
  BY <1>1, <1>2, <1>3, <1>4, <1>5, <1>6, <1>7, <1>8, <1>9, <1>10, <1>11

LEMMA SetupMove ==
  ASSUME ClientInv, cl.pc \in Setups, cl' \in Process, cl'.pc \in Setups,
         cl'.open = cl.open, cl'.n = cl.n, cl'.why = cl.why, cl'.node = cl.node,
         cl'.pc \in {"setup", "naming", "saving"} => cl'.name \in Names
  PROVE  ProcessInv(cl')
<1>1. \A pc \in Setups : /\ Opened(pc) = {"endpoint", "connection", "blobs"}
                          /\ Limit(pc) = 0 /\ pc \notin {"ended", "blocked"}
  BY DEF Opened, Limit, Setups
<1> QED
  BY <1>1, DialsOpen DEF ProcessInv

\* The two ends of a session that leave what is open, and the one that does not.
LEMMA SetupEnds ==
  ASSUME ClientInv, cl.pc \in Setups,
         \/ cl.pc \in {"setup", "captured", "opening", "starting", "shell"} /\ End("failed", cl.open)
         \/ cl.pc \in {"captured", "shell"} /\ \E knows \in BOOLEAN : Disconnect(knows)
  PROVE  ProcessInv(cl')
<1>1. /\ cl.pc \in {"setup", "captured", "opening", "starting", "shell"}
           => Released(cl.pc, "failed", cl.open)
      /\ cl.pc \in {"captured", "shell"} => Released(cl.pc, "gone", cl.open)
      /\ Released(cl.pc, "closed", AllClosed)
      /\ cl.open \in SUBSET Resources /\ AllClosed \in SUBSET Resources
  BY DialsOpen DEF Released, Leaky
<1>2. {"failed", "gone", "closed"} \subseteq Whys
  BY DEF Whys
<1> QED
  BY <1>1, <1>2, EndsInv DEF Disconnect, End

LEMMA SetupStep ==
  ASSUME ClientInv,
         \/ CaptureExec \/ ExecDone \/ AutoSave \/ NamePeer \/ SavePeer
         \/ RequestPty \/ StartShell
         \/ RemoteGone \/ StreamEnds \/ ShellEnds \/ ShellFails
  PROVE  ClientInv'
<1>0. cl.pc \in Setups
  BY DEF CaptureExec, ExecDone, AutoSave, NamePeer, SavePeer, RequestPty, StartShell,
         RemoteGone, StreamEnds, ShellEnds, ShellFails, Setups
<1>b. book \in Books /\ pins \in [Nodes -> Keys \cup {NoKey}] /\ cl \in Process
      /\ cl.node \in Nodes
  BY <1>0, DialsOpen DEF ClientInv
<1>n. cl.pc \in {"setup", "naming", "saving"} => cl.name \in Names
  BY DEF ClientInv, ProcessInv
<1>p. UNCHANGED pins
  BY DEF CaptureExec, ExecDone, AutoSave, NamePeer, SavePeer, RequestPty, StartShell,
         RemoteGone, StreamEnds, ShellEnds, ShellFails
<1>1. book' \in Books
  <2>1. CASE SavePeer
    BY <1>b, <1>n, <2>1 DEF SavePeer, Books
  <2>2. CASE ~SavePeer
    BY <1>b, <2>2 DEF CaptureExec, ExecDone, AutoSave, NamePeer, RequestPty, StartShell,
         RemoteGone, StreamEnds, ShellEnds, ShellFails
  <2> QED
    BY <2>1, <2>2
<1>2. CASE CaptureExec \/ RequestPty \/ StartShell
  <2>1. CASE End("failed", cl.open)
    <3>1. ProcessInv(cl')
      BY <1>0, <1>2, <2>1, SetupEnds DEF CaptureExec, RequestPty, StartShell
    <3> QED
      BY <1>1, <1>b, <1>p, <3>1 DEF ClientInv
  <2>2. CASE ~End("failed", cl.open)
    <3>1. /\ cl'.pc \in {"captured", "starting", "shell"} /\ cl'.open = cl.open /\ cl'.n = cl.n
          /\ cl'.why = cl.why /\ cl'.node = cl.node /\ cl' \in Process
      <4>1. CASE cl' = [cl EXCEPT !.pc = "captured", !.name = NoNode]
        BY <1>b, <4>1 DEF Process, Phases, Setups
      <4>2. CASE cl' = [cl EXCEPT !.pc = "starting", !.name = NoNode]
        BY <1>b, <4>2 DEF Process, Phases, Setups
      <4>3. CASE cl' = [cl EXCEPT !.pc = "shell"]
        BY <1>b, <4>3 DEF Process, Phases, Setups
      <4> QED
        BY <1>2, <2>2, <4>1, <4>2, <4>3 DEF CaptureExec, RequestPty, StartShell
    <3>2. ProcessInv(cl')
      BY <1>0, <3>1, SetupMove DEF Setups
    <3> QED
      BY <1>1, <1>b, <1>p, <3>2 DEF ClientInv
  <2> QED
    BY <2>1, <2>2
<1>3. CASE ExecDone \/ StreamEnds \/ ShellEnds \/ ShellFails
  <2>1. /\ cl.pc \in {"captured", "shell"}
        /\ End("failed", cl.open) \/ \E knows \in BOOLEAN : Disconnect(knows)
    BY <1>3 DEF ExecDone, StreamEnds, ShellEnds, ShellFails
  <2>2. ProcessInv(cl')
    BY <1>0, <2>1, SetupEnds
  <2> QED
    BY <1>1, <1>b, <1>p, <2>2 DEF ClientInv
<1>4. CASE AutoSave
  <2>1. /\ cl'.pc \in {"opening", "naming", "saving"} /\ cl'.open = cl.open /\ cl'.n = cl.n
        /\ cl'.why = cl.why /\ cl'.node = cl.node /\ cl'.name = cl.name /\ cl' \in Process
    BY <1>4, <1>b DEF AutoSave, Process, Phases, Setups
  <2>2. cl.name \in Names
    BY <1>4, <1>n DEF AutoSave
  <2>3. ProcessInv(cl')
    BY <1>0, <2>1, <2>2, SetupMove DEF Setups
  <2> QED
    BY <1>1, <1>b, <1>p, <2>3 DEF ClientInv
<1>5. CASE NamePeer \/ SavePeer
  <2>1. CASE cl' = [cl EXCEPT !.pc = "opening", !.name = NoNode]
    <3>1. /\ cl'.pc = "opening" /\ cl'.open = cl.open /\ cl'.n = cl.n
          /\ cl'.why = cl.why /\ cl'.node = cl.node /\ cl' \in Process
      BY <2>1, <1>b DEF Process, Phases, Setups
    <3>2. ProcessInv(cl')
      BY <1>0, <3>1, SetupMove DEF Setups
    <3> QED
      BY <1>1, <1>b, <1>p, <3>2 DEF ClientInv
  <2>2. ASSUME NEW m \in Names, cl' = [cl EXCEPT !.pc = "saving", !.name = m] PROVE ClientInv'
    <3>1. /\ cl'.pc = "saving" /\ cl'.open = cl.open /\ cl'.n = cl.n /\ cl'.name = m
          /\ cl'.why = cl.why /\ cl'.node = cl.node /\ cl' \in Process
      BY <2>2, <1>b DEF Process, Phases, Setups
    <3>2. ProcessInv(cl')
      BY <1>0, <3>1, SetupMove DEF Setups
    <3> QED
      BY <1>1, <1>b, <1>p, <3>2 DEF ClientInv
  <2> QED
    BY <1>5, <2>1, <2>2 DEF NamePeer, SavePeer
<1>6. CASE RemoteGone
  <2>1. /\ cl'.pc = cl.pc /\ cl'.open = cl.open /\ cl'.n = cl.n /\ cl'.name = cl.name
        /\ cl'.why = cl.why /\ cl'.node = cl.node /\ cl' \in Process
    BY <1>6, <1>b DEF RemoteGone, Process
  <2>2. ProcessInv(cl')
    BY <1>0, <1>n, <2>1, SetupMove
  <2> QED
    BY <1>1, <1>b, <1>p, <2>2 DEF ClientInv
<1> QED
  BY <1>2, <1>3, <1>4, <1>5, <1>6

\* A step of the process or of another command of the user.
LEMMA ClientStep ==
  ASSUME ClientInv, Client \/ Elsewhere
  PROVE  ClientInv'
<1>1. CASE Again
  BY <1>1, IdleInv DEF Again, ClientInv
<1>2. CASE Elsewhere
  <2>1. book' \in Books /\ pins' \in [Nodes -> Keys \cup {NoKey}] /\ cl' = cl
    BY <1>2 DEF Elsewhere, BookElsewhere, PinsElsewhere, ClientInv, Books
  <2> QED
    BY <2>1 DEF ClientInv
<1> QED
  BY <1>1, <1>2, SearchStep, DialStep, UnblockedInv, SetupStep DEF Client

-----------------------------------------------------------------------------
(* The two together *)

ConnectInv == RendezvousInv /\ ClientInv

LEMMA ConnectInvInit == ConnectInit => ConnectInv
  BY RendezvousInit, IdleInv DEF ConnectInit, ConnectInv, ClientInv

LEMMA ConnectInvStep == ConnectInv /\ [ConnectNext]_allvars => ConnectInv'
<1> SUFFICES ASSUME ConnectInv, [ConnectNext]_allvars PROVE ConnectInv'
  OBVIOUS
<1>1. ASSUME UNCHANGED cvars PROVE ClientInv'
  BY <1>1 DEF cvars, ClientInv, ConnectInv
<1>2. ASSUME UNCHANGED vars PROVE RendezvousInv'
  BY <1>2, RendezvousStep DEF ConnectInv
<1>3. CASE Next /\ UNCHANGED cvars
  BY <1>1, <1>3, RendezvousStep DEF ConnectInv
<1>4. CASE (Client \/ Elsewhere) /\ UNCHANGED vars
  BY <1>2, <1>4, ClientStep DEF ConnectInv
<1>5. CASE UNCHANGED allvars
  BY <1>1, <1>2, <1>5 DEF allvars, ConnectInv
<1> QED
  BY <1>3, <1>4, <1>5 DEF ConnectNext

LEMMA ConnectInvariant == ConnectSpec => []ConnectInv
  BY ConnectInvInit, ConnectInvStep, PTL DEF ConnectSpec

\* However an attempt or a session ends, no endpoint and no connection is left
\* to the exit of the process, but for Ctrl-C, an unreadable identity or pin once
\* the connections are up, the `?` returns between the session and its end, and
\* a disconnect after the SSH task is gone; and what those leave is the search or
\* the connection, never both (connect.rs:186-189, 263-278, 295, 320, 332, 340,
\* 510-514, mod.rs:245, 264, 287, 315, 348, 351, 354, session.rs:445-467).
THEOREM Releases == ConnectSpec => []ResourcesReleased
<1>1. ConnectInv => ResourcesReleased
  <2> SUFFICES ASSUME ConnectInv PROVE ResourcesReleased
    OBVIOUS
  <2> USE ConnectAssumption
  <2>1. ProcessInv(cl) /\ cl \in Process /\ cl.n \in Nat
    BY DEF ConnectInv, ClientInv, ProcessInv, Process
  <2>2. Limit(cl.pc) \in 0 .. MaxPolls + MaxDials + MaxPrompts
    <3>1. Limit(cl.pc) \in {MaxPolls - 1, MaxDials - 1, MaxPrompts, 0}
      BY DEF Limit
    <3> QED
      BY <3>1
  <2>3. cl.n \in 0 .. MaxPolls + MaxDials + MaxPrompts
    BY <2>1, <2>2 DEF ProcessInv
  <2>4. ConnectTypeOK
    BY <2>1, <2>3 DEF ConnectTypeOK, ConnectInv, ClientInv, RendezvousInv, Process
  <2>5. "discovery" \in cl.open => cl.open = {"discovery"}
    <3>1. CASE cl.pc \in {"ended", "blocked"}
      BY <2>1, <3>1 DEF ProcessInv, Released
    <3>2. CASE cl.pc \notin {"ended", "blocked"}
      <4>1. cl.open = Opened(cl.pc)
        BY <2>1, <3>2 DEF ProcessInv
      <4>2. "discovery" \in Opened(cl.pc) => Opened(cl.pc) = {"discovery"}
        BY DEF Opened
      <4> QED
        BY <4>1, <4>2
    <3> QED
      BY <3>1, <3>2
  <2>6. cl.pc = "ended" /\ ~Leaky(cl.at, cl.why) => cl.open = {}
    BY <2>1 DEF ProcessInv, Released
  <2> QED
    BY <2>4, <2>5, <2>6 DEF ResourcesReleased
<1> QED
  BY <1>1, ConnectInvariant, PTL

\* A tombstone that the directory has accepted gives way only to the ticket of a
\* wormhole enabled later, or to one signed after the abort of its task, however
\* often a code is used again (server/mod.rs:485-493, wormhole.rs:101-126, 152-155).
THEOREM TombstonesHold == ConnectSpec => NoResurrection
<1> DEFINE Later ==
      \A c \in Codes : directory[c].kind = "empty" /\ directory'[c].kind = "ticket"
        => directory'[c].by > directory[c].by \/ directory'[c].by \in late
<1>1. ConnectInv /\ [ConnectNext]_allvars => [Later]_vars
  <2> SUFFICES ASSUME ConnectInv, [ConnectNext]_allvars, ~UNCHANGED vars PROVE Later
    OBVIOUS
  <2>1. Next
    BY DEF ConnectNext, allvars
  <2> QED
    BY <2>1, TombstonesStay DEF ConnectInv
<1> QED
  BY <1>1, ConnectInvariant, PTL DEF ConnectSpec, NoResurrection

\* A host key other than the trusted one is never accepted, and a pin is
\* replaced only by a client that found none when it asked, whatever others
\* made of the pins since (handler.rs:84-148, connect.rs:323-334).
THEOREM HostKeysKept == ConnectSpec => HostKeysHold
<1> DEFINE Held == cl.pc = "handshake" /\ cl.policy # "AcceptAll" =>
        /\ cl'.pc = "auth" => \/ cl'.key = cl.pin
                              \/ cl.pin = NoKey /\ pins'[cl.node] = cl'.key
        /\ cl' # cl /\ pins' # pins => cl.pin = NoKey /\ cl.policy = "Tofu"
<1>1. ConnectInv /\ [ConnectNext]_allvars => [Held]_cvars
  <2> SUFFICES ASSUME ConnectInv, [ConnectNext]_allvars,
                      cl.pc = "handshake", cl.policy # "AcceptAll", cl' # cl
               PROVE  Held
    BY DEF cvars
  <2>0. /\ cl \in Process /\ cl.node \in Nodes
        /\ pins \in [Nodes -> Keys \cup {NoKey}]
    BY DialsOpen DEF ConnectInv, ClientInv, Dials
  <2>1. Client
    BY DEF ConnectNext, allvars, cvars, Elsewhere, BookElsewhere, PinsElsewhere
  <2>2. \/ \E k \in Keys : CheckServerKey(k)
        \/ HandshakeTimeout \/ DialCancelled
    BY <2>1 DEF Client, ResolveTicket, ResolveText, SearchBegins, Poll, SearchTimeout,
      SearchCloses, SearchCancelled, Bind, DialAttempt, DialBlobs, LoadTrust, OpenBi,
      Authenticate, AnswerPrompt, Unblocked, Metadata, CaptureExec, ExecDone, AutoSave, NamePeer, SavePeer, RequestPty, StartShell,
      RemoteGone, StreamEnds, ShellEnds, ShellFails, Again
  <2>3. ASSUME NEW why, NEW left, GiveUp(why, left) PROVE cl'.pc = "ended"
    BY <2>3 DEF GiveUp, End, Ended, Idle
  <2>4. CASE HandshakeTimeout \/ DialCancelled
    BY <2>3, <2>4 DEF HandshakeTimeout, DialCancelled
  <2>5. ASSUME NEW k \in Keys, CheckServerKey(k) PROVE Held
    <3>1. CASE cl.pin = k /\ KeyAccepted(k) /\ UNCHANGED pins
      <4>1. cl'.key = k
        BY <2>0, <3>1 DEF KeyAccepted, Process
      <4> QED
        BY <3>1, <4>1
    <3>2. CASE FirstUse(k) /\ KeyAccepted(k) /\ pins' = [pins EXCEPT ![cl.node] = k]
      <4>1. cl'.key = k /\ pins'[cl.node] = k
        BY <2>0, <3>2 DEF KeyAccepted, Process
      <4> QED
        BY <3>2, <4>1 DEF FirstUse
    <3>3. CASE GiveUp("refused", AllClosed) /\ UNCHANGED pins
      BY <2>3, <3>3
    <3> QED
      BY <2>5, <3>1, <3>2, <3>3 DEF CheckServerKey
  <2> QED
    BY <2>2, <2>4, <2>5
<1> QED
  BY <1>1, ConnectInvariant, PTL DEF ConnectSpec, HostKeysHold

\* A pairing that found its ticket and did not get as far as a session leaves
\* the node in the address book, whatever is in the book, unless the profile
\* cannot be written or Ctrl-C comes while the search is being closed
\* (connect.rs:189, mod.rs:245, 251-294, 452-473).
THEOREM TicketsRecovered == ConnectSpec => TicketRecovered
<1> DEFINE Kept ==
      Pairing /\ cl.pc \in Dials \cup {"closing"} /\ cl.node # NoNode /\ cl'.pc = "ended"
        => \/ Known(book', cl.node) \/ cl'.unsaved
           \/ cl.pc = "closing" /\ cl'.why = "cancelled"
<1>1. ConnectInv /\ [ConnectNext]_allvars => [Kept]_cvars
  <2> SUFFICES ASSUME ConnectInv, [ConnectNext]_allvars, Pairing, cl.node # NoNode,
                      cl.pc \in Dials \cup {"closing"}, cl'.pc = "ended"
               PROVE  \/ Known(book', cl.node) \/ cl'.unsaved
                      \/ cl.pc = "closing" /\ cl'.why = "cancelled"
    OBVIOUS
  <2>0. cl \in Process /\ cl.node \in Nodes /\ book \in Books /\ cl.pc # "ended"
    BY DEF ConnectInv, ClientInv, ProcessInv, Process, Dials
  <2>1. Client
    BY <2>0 DEF ConnectNext, allvars, cvars, Elsewhere, BookElsewhere, PinsElsewhere
  <2>2. CASE cl.pc = "closing"
    <3>1. SearchCloses \/ SearchCancelled
      BY <2>1, <2>2 DEF Client, ResolveTicket, ResolveText, SearchBegins, Poll, SearchTimeout,
        Bind, DialAttempt, DialBlobs, LoadTrust, OpenBi, CheckServerKey, Authenticate,
        AnswerPrompt, HandshakeTimeout, Unblocked, Metadata, DialCancelled, Dials, CaptureExec,
        ExecDone, AutoSave, NamePeer, SavePeer, RequestPty, StartShell, RemoteGone, StreamEnds,
        ShellEnds, ShellFails, Again
    <3>2. CASE SearchCloses
      BY <3>2 DEF SearchCloses, Dialing, Idle
    <3>3. CASE SearchCancelled
      BY <2>2, <3>3 DEF SearchCancelled, End, Ended, Idle
    <3> QED
      BY <3>1, <3>2, <3>3
  <2>3. CASE cl.pc \in Dials
    <3>1. \/ Bind \/ DialAttempt \/ DialBlobs \/ LoadTrust \/ OpenBi
          \/ \E k \in Keys : CheckServerKey(k)
          \/ Authenticate \/ AnswerPrompt \/ HandshakeTimeout \/ Unblocked \/ Metadata
          \/ DialCancelled
      BY <2>1, <2>3 DEF Client, ResolveTicket, ResolveText, SearchBegins, Poll, SearchTimeout,
        SearchCloses, SearchCancelled, CaptureExec, ExecDone, AutoSave, NamePeer, SavePeer,
        RequestPty, StartShell, RemoteGone, StreamEnds, ShellEnds, ShellFails, Again, Dials
    <3>2. \E why, left : GiveUp(why, left)
      <4>1. ASSUME NEW why, NEW left, Blocked(why, left) PROVE FALSE
        BY <2>0, <4>1 DEF Blocked, Process
      <4> QED
        BY <2>0, <3>1, <4>1 DEF Bind, DialAttempt, DialBlobs, LoadTrust, OpenBi, CheckServerKey,
          Authenticate, AnswerPrompt, HandshakeTimeout, Unblocked, Metadata, DialCancelled,
          DialAgain, KeyAccepted, Process
    <3>3. PICK why, left : GiveUp(why, left)
      BY <3>2
    <3>4. CASE book' = SaveTemp(book, cl.node)
      BY <2>0, <3>4, SaveTempSaves
    <3>5. CASE cl' = Ended(why, left, TRUE)
      BY <3>5 DEF Ended, Idle
    <3> QED
      BY <3>3, <3>4, <3>5 DEF GiveUp
  <2> QED
    BY <2>2, <2>3
<1> QED
  BY <1>1, ConnectInvariant, PTL DEF ConnectSpec, TicketRecovered
=============================================================================
