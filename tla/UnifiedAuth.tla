----------------------------- MODULE UnifiedAuth -----------------------------
(***************************************************************************)
(* The unified authentication policy of an irosh node                      *)
(* (src/src/auth/unified.rs), as it runs: every SSH session calls          *)
(* check_public_key and check_password on a blocking thread of its own, so *)
(* the steps of two calls interleave at every access to shared state.      *)
(*                                                                         *)
(* Direct sessions are views of ONE authenticator (for_new_session): they  *)
(* share the cached vault, the failure counter and the time of the last    *)
(* failure.  A pairing session has an authenticator of its own             *)
(* (with_tracking): its own cached vault and failure time, and the         *)
(* wormhole's failure counter.  All of them share the files on disk, which *)
(* the command line of the node changes as well.                           *)
(***************************************************************************)
EXTENDS Integers, FiniteSets

CONSTANTS
  Keys,         \* public keys
  NoKey,        \* the empty key cache
  Sessions,     \* SSH connections
  Pairing,      \* the ones that arrived over the pairing ALPN
  Base,         \* the authenticator all direct sessions share
  KeysOf,       \* KeysOf[s]: keys whose private half the peer of s holds
  Knows,        \* Knows[s]: passwords the peer of s has been told
  TempPassword, \* whether the active wormhole has a passcode
  Policies,     \* the values of HostKeyPolicy a node may be started with
  Window,       \* LOCKOUT_WINDOW, in clock ticks
  ReadFaults,   \* whether reading the state directory may fail
  CliOps,       \* the commands run on the node while it serves
  Serial        \* TRUE: at most one authentication call at a time

Passwords == {"node", "temp", "wrong"}
Counters == {"direct", "wormhole"}
NoFailure == -1
MaxFailures == 3

ASSUME KeysAssumption ==
  /\ NoKey \notin Keys
  /\ Keys \cap Passwords = {}
  /\ NoKey \notin Passwords
ASSUME SessionsAssumption ==
  /\ IsFiniteSet(Sessions)
  /\ Pairing \subseteq Sessions
  /\ Base \notin Sessions
  /\ KeysOf \in [Sessions -> SUBSET Keys]
  /\ Knows \in [Sessions -> SUBSET {"node", "temp"}]
ASSUME SettingsAssumption ==
  /\ TempPassword \in BOOLEAN
  /\ Policies \subseteq {"Strict", "Tofu", "AcceptAll"}
  /\ Window \in Nat
  /\ ReadFaults \in BOOLEAN
  /\ CliOps \subseteq {"authorize", "revoke", "passwd"}
  /\ Serial \in BOOLEAN

Authenticators == Pairing \cup {Base}
Inst(s) == IF s \in Pairing THEN s ELSE Base
Counter(s) == IF s \in Pairing THEN "wormhole" ELSE "direct"
HasTemp(s) == s \in Pairing /\ TempPassword

VARIABLES
  disk,        \* the vault: keys with a file under trust/clients
  shadow,      \* whether the shadow file (the node password) exists
  policy,      \* HostKeyPolicy, fixed when the node starts
  authorized,  \* authorized_keys of each authenticator, a cache of the vault
  lock,        \* the holder of that cache's mutex, or Base when it is free
  failed,      \* failed_attempts
  age,         \* ticks since last_failure, saturating; NoFailure is None
  cached,      \* cached_key of each session
  pc,          \* where each session's current call is
  req,         \* the key or the password that call checks
  snap,        \* the vault as refresh_keys read it, before it is stored
  notices,     \* what is in the channels success_tx and failure_tx, of one place each
  burned,      \* the main loop has burnt the wormhole for its failures
  granted,     \* history: keys the node's owner put in the vault
  owners,      \* history: keys adopted by trust on first use
  settled      \* history: sessions checking a key whose trust is not in doubt

files == <<disk, shadow, policy>>
throttle == <<failed, age>>
calls == <<cached, pc, req, snap>>
monitor == <<notices, burned>>
history == <<granted, owners, settled>>
vars == <<disk, shadow, policy, authorized, lock, failed, age, cached, pc, req,
          snap, notices, burned, granted, owners, settled>>

(***************************************************************************)
(* Program counters.  Checked: the call has passed is_locked_out.          *)
(* Holding: it owns the mutex of its authenticator's key cache.            *)
(***************************************************************************)
Checked == {"fast", "read", "assign", "decide", "shadow", "tofu", "match",
            "vault", "reset", "fail_time", "fail_count"}
Calling == Checked \cup {"count", "age", "decay", "notify"}
PC == Calling \cup {"closed", "idle", "in", "err"}
Challenged == {"shadow", "tofu", "fail_time", "fail_count", "notify"}

Free(i) == lock[i] = Base
Goto(s, label) == pc' = [pc EXCEPT ![s] = label]
\* the call answers, or the session ends: the call's locals are gone
Return(s, label) ==
  /\ Goto(s, label)
  /\ req' = [req EXCEPT ![s] = "wrong"]
  /\ settled' = settled \ {s}
Release(s) ==
  lock' = IF lock[Inst(s)] = s THEN [lock EXCEPT ![Inst(s)] = Base] ELSE lock

Init ==
  /\ disk \in SUBSET Keys
  /\ shadow \in BOOLEAN
  /\ policy \in Policies
  /\ authorized = [i \in Authenticators |-> IF i = Base THEN disk ELSE {}]
  /\ lock = [i \in Authenticators |-> Base]
  /\ failed = [c \in Counters |-> 0]
  /\ age = [i \in Authenticators |-> NoFailure]
  /\ cached = [s \in Sessions |-> NoKey]
  /\ pc = [s \in Sessions |-> "closed"]
  /\ req = [s \in Sessions |-> "wrong"]
  /\ snap = [s \in Sessions |-> {}]
  /\ notices = {} /\ burned = FALSE
  /\ granted = disk
  /\ owners = {}
  /\ settled = {}

\* load_all_authorized_clients skips every record it cannot read
Readable == IF ReadFaults THEN SUBSET disk ELSE {disk}

(***************************************************************************)
(* Connections.  A pairing session loads the vault into an authenticator   *)
(* of its own.  A client may leave between two calls; one that leaves      *)
(* during a call is a session whose answer nobody reads: the blocking      *)
(* thread runs to its end.                                                 *)
(***************************************************************************)
Connect(s) ==
  /\ pc[s] = "closed"
  /\ Goto(s, "idle")
  /\ IF s \in Pairing
       THEN \E vault \in Readable :
              authorized' = [authorized EXCEPT ![s] = vault]
       ELSE UNCHANGED authorized
  /\ UNCHANGED <<files, lock, throttle, cached, req, snap, monitor, history>>

Disconnect(s) ==
  /\ pc[s] \in {"idle", "in", "err"}
  /\ Goto(s, "closed")
  /\ cached' = [cached EXCEPT ![s] = NoKey]
  /\ IF s \in Pairing
       THEN /\ authorized' = [authorized EXCEPT ![s] = {}]
            /\ age' = [age EXCEPT ![s] = NoFailure]
       ELSE UNCHANGED <<authorized, age>>
  /\ UNCHANGED <<files, lock, failed, req, snap, monitor, history>>

(***************************************************************************)
(* A call begins.  Its key is settled when it is in the vault and no       *)
(* refresh under way on the same authenticator read the vault without it.  *)
(***************************************************************************)
Begin(s, what) ==
  /\ pc[s] = "idle"
  /\ Serial => \A t \in Sessions : pc[t] \notin Calling
  /\ Goto(s, "count")
  /\ req' = [req EXCEPT ![s] = what]
  /\ settled' = IF /\ what \in disk
                   /\ \A t \in Sessions : pc[t] = "assign" /\ Inst(t) = Inst(s)
                                            => what \in snap[t]
                  THEN settled \cup {s} ELSE settled \ {s}
  /\ UNCHANGED <<files, authorized, lock, throttle, cached, snap, monitor,
                 granted, owners>>

AuthPublicKey(s) == \E k \in KeysOf[s] : Begin(s, k)
AuthPassword(s) == \E p \in Knows[s] \cup {"wrong"} : Begin(s, p)

\* mutants of is_locked_out
LockedAt_OffByOne(s) == failed[Counter(s)] > MaxFailures
Expired_Never(s) == age[Inst(s)] > Window + 1

LockedAt(s) == failed[Counter(s)] >= MaxFailures
Expired(s) == age[Inst(s)] > Window
Enter(s) == IF req[s] \in Keys THEN "fast" ELSE "match"

(***************************************************************************)
(* is_locked_out: the counter, then the failure time, then the decay are   *)
(* separate accesses.                                                      *)
(***************************************************************************)
LoadCount(s) ==
  /\ pc[s] = "count"
  /\ Goto(s, IF LockedAt(s) THEN "age" ELSE Enter(s))
  /\ UNCHANGED <<files, authorized, lock, throttle, cached, req, snap,
                 monitor, history>>

CheckAge(s) ==
  /\ pc[s] = "age"
  /\ IF Expired(s)
       THEN Goto(s, "decay") /\ UNCHANGED <<req, settled>>
       ELSE Return(s, "idle")
  /\ UNCHANGED <<files, authorized, lock, throttle, cached, snap, monitor,
                 granted, owners>>

Decay(s) ==
  /\ pc[s] = "decay"
  /\ failed' = [failed EXCEPT ![Counter(s)] = 0]
  /\ Goto(s, Enter(s))
  /\ UNCHANGED <<files, authorized, lock, age, cached, req, snap, monitor,
                 history>>

(***************************************************************************)
(* check_public_key                                                        *)
(***************************************************************************)
\* mutants: a guard dropped before the decision, a cache shared by all sessions
Kept_Dropped(s) == lock
CacheKey_Shared(s) == [t \in Sessions |-> req[s]]

AcceptsAll == policy = "AcceptAll"
Refreshed(s) == snap[s]
Kept(s) == [lock EXCEPT ![Inst(s)] = s]
AfterMiss == IF policy = "Strict" THEN "fail_time" ELSE "shadow"
CacheKey(s) == [cached EXCEPT ![s] = req[s]]
MayAdopt(s) == authorized[Inst(s)] = {}

Admit(s) ==
  /\ failed' = [failed EXCEPT ![Counter(s)] = 0]
  /\ Return(s, "in")

FastPath(s) ==
  /\ pc[s] = "fast"
  /\ \/ /\ AcceptsAll
        /\ Return(s, "in")
        /\ UNCHANGED failed
     \/ /\ ~AcceptsAll
        /\ Free(Inst(s))
        /\ IF req[s] \in authorized[Inst(s)]
             THEN Admit(s)
             ELSE Goto(s, "read") /\ UNCHANGED <<failed, req, settled>>
  /\ UNCHANGED <<files, authorized, lock, age, cached, snap, monitor,
                 granted, owners>>

\* refresh_keys reads the vault before it takes the mutex
RefreshRead(s) ==
  /\ pc[s] = "read"
  /\ \/ /\ \E vault \in Readable :
             /\ snap' = [snap EXCEPT ![s] = vault]
             /\ settled' = {t \in settled :
                               Inst(t) = Inst(s) => req[t] \in vault}
        /\ Goto(s, "assign")
     \/ /\ ReadFaults      \* the directory is unreadable: the error is ignored
        /\ Goto(s, "decide")
        /\ settled' = settled \ {s}
        /\ UNCHANGED snap
  /\ UNCHANGED <<files, authorized, lock, throttle, cached, req, monitor,
                 granted, owners>>

RefreshAssign(s) ==
  /\ pc[s] = "assign"
  /\ Free(Inst(s))
  /\ authorized' = [authorized EXCEPT ![Inst(s)] = Refreshed(s)]
  /\ snap' = [snap EXCEPT ![s] = {}]
  /\ Goto(s, "decide")
  /\ UNCHANGED <<files, lock, throttle, cached, req, monitor, history>>

\* the second look, and the mutex kept until the call returns
Decide(s) ==
  /\ pc[s] = "decide"
  /\ Free(Inst(s))
  /\ IF req[s] \in authorized[Inst(s)]
       THEN Admit(s) /\ UNCHANGED lock
       ELSE /\ lock' = Kept(s)
            /\ Goto(s, AfterMiss)
            /\ UNCHANGED <<failed, req, settled>>
  /\ UNCHANGED <<files, authorized, age, cached, snap, monitor, granted,
                 owners>>

\* a shadow file that exists but cannot be read counts as a password
Challenge(s) ==
  /\ cached' = CacheKey(s)
  /\ Return(s, "idle")
  /\ Release(s)

ReadShadow(s) ==
  /\ pc[s] = "shadow"
  /\ \/ /\ shadow \/ HasTemp(s)
        /\ Challenge(s)
     \/ /\ ~shadow /\ ~HasTemp(s)
        /\ Goto(s, IF MayAdopt(s) THEN "tofu" ELSE "fail_time")
        /\ UNCHANGED <<cached, lock, req, settled>>
  /\ UNCHANGED <<files, authorized, throttle, snap, monitor, granted, owners>>

\* trust on first use; a failed write is an error that ends the session
AdoptOwner(s) ==
  /\ pc[s] = "tofu"
  /\ \/ /\ disk' = disk \cup {req[s]}
        /\ authorized' = [authorized EXCEPT ![Inst(s)] = @ \cup {req[s]}]
        /\ owners' = owners \cup {req[s]}
        /\ notices' = notices \cup (IF s \in Pairing THEN {"success"} ELSE {})
        /\ Goto(s, "reset")
        /\ UNCHANGED <<lock, req, settled>>
     \/ /\ Release(s)
        /\ Return(s, "err")
        /\ UNCHANGED <<disk, authorized, owners, notices>>
  /\ UNCHANGED <<shadow, policy, throttle, cached, snap, burned, granted>>

(***************************************************************************)
(* check_password                                                          *)
(***************************************************************************)
AfterPasscode(s) == IF cached[s] = NoKey THEN "reset" ELSE "vault"

MatchPassword(s) ==
  /\ pc[s] = "match"
  /\ \/ /\ req[s] = "node" /\ shadow
        /\ cached' = [cached EXCEPT ![s] = NoKey]
        /\ Goto(s, "reset")
     \/ /\ req[s] = "temp" /\ HasTemp(s)
        /\ Goto(s, AfterPasscode(s))
        /\ UNCHANGED cached
     \/ /\ \/ req[s] = "wrong"
           \/ req[s] = "node" /\ ~shadow
           \/ req[s] = "temp" /\ ~HasTemp(s)
           \/ shadow /\ ReadFaults     \* fails closed
        /\ cached' = [cached EXCEPT ![s] = NoKey]
        /\ Goto(s, "fail_time")
  /\ UNCHANGED <<files, authorized, lock, throttle, req, snap, monitor,
                 history>>

VaultKey(s) ==
  /\ pc[s] = "vault"
  /\ Free(Inst(s))
  /\ cached' = [cached EXCEPT ![s] = NoKey]
  /\ \/ /\ cached[s] \in authorized[Inst(s)]
        /\ Goto(s, "reset")
        /\ UNCHANGED <<disk, authorized, notices, req, settled>>
     \/ /\ cached[s] \notin authorized[Inst(s)]
        /\ disk' = disk \cup {cached[s]}
        /\ authorized' = [authorized EXCEPT ![Inst(s)] = @ \cup {cached[s]}]
        /\ notices' = notices \cup {"success"}
        /\ Goto(s, "reset")
        /\ UNCHANGED <<req, settled>>
     \/ /\ cached[s] \notin authorized[Inst(s)]   \* the write fails
        /\ Return(s, "err")
        /\ UNCHANGED <<disk, authorized, notices>>
  /\ UNCHANGED <<shadow, policy, lock, throttle, snap, burned, granted, owners>>

ResetFailures(s) ==
  /\ pc[s] = "reset"
  /\ Admit(s)
  /\ Release(s)
  /\ UNCHANGED <<files, authorized, age, cached, snap, monitor, granted,
                 owners>>

(***************************************************************************)
(* record_failure: the time first, then the counter, then the notice.      *)
(***************************************************************************)
\* mutant: the notice comes one failure late
LimitReached_Late(n) == n > MaxFailures
LimitReached(n) == n >= MaxFailures

RecordTime(s) ==
  /\ pc[s] = "fail_time"
  /\ age' = [age EXCEPT ![Inst(s)] = 0]
  /\ Goto(s, "fail_count")
  /\ UNCHANGED <<files, authorized, lock, failed, cached, req, snap, monitor,
                 history>>

RecordCount(s) ==
  /\ pc[s] = "fail_count"
  /\ failed' = [failed EXCEPT ![Counter(s)] = @ + 1]
  /\ IF LimitReached(failed[Counter(s)] + 1) /\ s \in Pairing
       THEN Goto(s, "notify") /\ UNCHANGED <<lock, req, settled>>
       ELSE Release(s) /\ Return(s, "idle")
  /\ UNCHANGED <<files, authorized, age, cached, snap, monitor, granted, owners>>

\* try_send: a notice is dropped when the channel still holds one
TrySend(s) ==
  /\ pc[s] = "notify"
  /\ notices' = notices \cup {"failure"}
  /\ Release(s)
  /\ Return(s, "idle")
  /\ UNCHANGED <<files, authorized, throttle, cached, snap, burned, granted,
                 owners>>

\* the main loop takes a failure notice and burns the wormhole
TakeFailure ==
  /\ "failure" \in notices
  /\ notices' = notices \ {"failure"}
  /\ burned' = TRUE
  /\ UNCHANGED <<files, authorized, lock, throttle, calls, history>>

(***************************************************************************)
(* The clock, and the commands the owner runs in another process.          *)
(***************************************************************************)
Tick ==
  /\ \E i \in Authenticators : age[i] \in 0 .. Window
  /\ age' = [i \in Authenticators |->
               IF age[i] \in 0 .. Window THEN age[i] + 1 ELSE age[i]]
  /\ UNCHANGED <<files, authorized, lock, failed, calls, monitor, history>>

CliAuthorize(k) ==
  /\ "authorize" \in CliOps
  /\ k \notin disk
  /\ disk' = disk \cup {k}
  /\ granted' = granted \cup {k}
  /\ UNCHANGED <<shadow, policy, authorized, lock, throttle, calls, monitor,
                 owners, settled>>

CliRevoke(k) ==
  /\ "revoke" \in CliOps
  /\ k \in disk
  /\ disk' = disk \ {k}
  /\ settled' = {s \in settled : req[s] # k}
  /\ UNCHANGED <<shadow, policy, authorized, lock, throttle, calls, monitor,
                 granted, owners>>

CliPasswd ==
  /\ "passwd" \in CliOps
  /\ shadow' = ~shadow
  /\ UNCHANGED <<disk, policy, authorized, lock, throttle, calls, monitor,
                 history>>

Step(s) ==
  \/ LoadCount(s) \/ CheckAge(s) \/ Decay(s)
  \/ FastPath(s) \/ RefreshRead(s) \/ RefreshAssign(s) \/ Decide(s)
  \/ ReadShadow(s) \/ AdoptOwner(s)
  \/ MatchPassword(s) \/ VaultKey(s) \/ ResetFailures(s)
  \/ RecordTime(s) \/ RecordCount(s) \/ TrySend(s)

Next ==
  \/ \E s \in Sessions : \/ Connect(s) \/ Disconnect(s)
                         \/ AuthPublicKey(s) \/ AuthPassword(s)
                         \/ Step(s)
  \/ \E k \in Keys : CliAuthorize(k) \/ CliRevoke(k)
  \/ CliPasswd
  \/ Tick
  \/ TakeFailure

Spec == Init /\ [][Next]_vars

(***************************************************************************)
(* Fairness: the runtime runs a blocking call it has started to its end,   *)
(* and time passes.  Nothing is assumed of the clients.                    *)
(***************************************************************************)
Fairness == WF_vars(Tick) /\ \A s \in Sessions : WF_vars(Step(s))

FairSpec == Spec /\ Fairness

-----------------------------------------------------------------------------
(***************************************************************************)
(* Properties                                                              *)
(***************************************************************************)

\* The type of every variable.
TypeOK ==
  /\ disk \in SUBSET Keys
  /\ shadow \in BOOLEAN
  /\ policy \in Policies
  /\ authorized \in [Authenticators -> SUBSET Keys]
  /\ lock \in [Authenticators -> Sessions \cup {Base}]
  /\ failed \in [Counters -> Nat]
  /\ age \in [Authenticators -> {NoFailure} \cup (0 .. Window + 1)]
  /\ cached \in [Sessions -> Keys \cup {NoKey}]
  /\ pc \in [Sessions -> PC]
  /\ req \in [Sessions -> Keys \cup Passwords]
  /\ snap \in [Sessions -> SUBSET Keys]
  /\ notices \in SUBSET {"success", "failure"} /\ burned \in BOOLEAN
  /\ granted \in SUBSET Keys
  /\ owners \in SUBSET Keys
  /\ settled \in SUBSET Sessions

SessionsOf(c) == {s \in Sessions : Counter(s) = c}

\* However the calls of concurrent sessions interleave, the failure counter
\* of record_failure never passes 2 + the number of sessions that share it:
\* is_locked_out lets no more guesses through than those already under way
\* when the third failure is counted (unified.rs:157-193).
GuessBudget ==
  \A c \in Counters : failed[c] <= MaxFailures - 1 + Cardinality(SessionsOf(c))

\* A key is in the vault only because the owner put it there, because it was
\* adopted on first use, or because a peer that holds its private half also
\* knows the wormhole's passcode.  No interleaving of two handshakes stores
\* the key of one under the password of the other, and the node password
\* stores no key (for_new_session, check_password).
NoStrangerVaulted ==
  \A k \in disk :
    \/ k \in granted \cup owners
    \/ \E s \in Pairing : k \in KeysOf[s] /\ "temp" \in Knows[s]

\* A key that was in the vault when its check began, with no older refresh
\* still to be stored, and was not revoked since, is never challenged for a
\* password nor counted as a failure: refresh_keys of concurrent calls never
\* takes it out of the cache (unified.rs:306-324).
TrustedKeyNotChallenged ==
  \A s \in settled : pc[s] \notin Challenged

\* Trust on first use acts on what it checked: from the check that the cached
\* vault is empty to the adoption, no other call on the same authenticator
\* puts a key in it (the mutex guard of unified.rs:318 lives to the end).
TofuStillEmpty ==
  \A s \in Sessions : pc[s] = "tofu" => authorized[Inst(s)] = {}

\* Only Tofu adopts: under Strict and AcceptAll no interleaving of key checks
\* and password checks adds a key to the vault, not even through a wormhole,
\* whose passcode stores the key the key check cached (unified.rs:301-334).
OnlyTofuAdopts == policy # "Tofu" => disk \subseteq granted

\* What every check of a key may rest on, together with the type of every
\* variable.
TrustSound ==
  TypeOK /\ TrustedKeyNotChallenged /\ TofuStillEmpty /\ OnlyTofuAdopts

\* A wormhole whose counter has reached the limit is burnt, or will be: the
\* notice is sent some time after the failure is counted, and a try_send into
\* a full channel drops it, but the burn is never lost with it, however the
\* counting, the sending and the main loop's receiving interleave
\* (unified.rs:186-192, server/mod.rs:414, 599-610).
ExhaustedWormholeNotified ==
  failed["wormhole"] >= MaxFailures =>
    \/ burned
    \/ "failure" \in notices
    \/ \E s \in Pairing : pc[s] = "notify"

\* At most one key is adopted on first use: "the first device to connect
\* becomes the permanent owner" (docs/README.md:318-319).
SingleOwner == Cardinality(owners) <= 1

\* The direct lockout is never permanent: as long as somebody keeps trying,
\* the counter keeps falling below the limit (unified.rs:19-22, 157-173).
LockoutDecays ==
  []<>(\E s \in Sessions : pc[s] = "count")
    => []<>(failed["direct"] < MaxFailures)
=============================================================================
