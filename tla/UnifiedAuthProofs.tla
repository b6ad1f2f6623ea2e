-------------------------- MODULE UnifiedAuthProofs --------------------------
(***************************************************************************)
(* Machine-checked proofs about UnifiedAuth, for every set of keys and     *)
(* sessions, every policy and every lockout window.                        *)
(***************************************************************************)
EXTENDS UnifiedAuth, FiniteSetTheorems, TLAPS

\* Every step is one of the actions, or leaves all variables alone.
LEMMA StepCases ==
  ASSUME [Next]_vars
  PROVE  \/ \E s \in Sessions :
              \/ Connect(s) \/ Disconnect(s)
              \/ AuthPublicKey(s) \/ AuthPassword(s)
              \/ LoadCount(s) \/ CheckAge(s) \/ Decay(s)
              \/ FastPath(s) \/ RefreshRead(s) \/ RefreshAssign(s)
              \/ Decide(s) \/ ReadShadow(s) \/ AdoptOwner(s)
              \/ MatchPassword(s) \/ VaultKey(s) \/ ResetFailures(s)
              \/ RecordTime(s) \/ RecordCount(s) \/ TrySend(s)
         \/ \E k \in Keys : CliAuthorize(k) \/ CliRevoke(k)
         \/ CliPasswd
         \/ Tick
         \/ TakeFailure
         \/ UNCHANGED vars
  BY DEF Next, Step

\* The authenticator of a session is one, and only the pairing session itself
\* uses its own.
LEMMA InstType ==
  ASSUME NEW s \in Sessions
  PROVE  /\ Inst(s) \in Authenticators
         /\ Inst(s) \in Sessions \cup {Base}
         /\ Counter(s) \in Counters
         /\ \A t \in Sessions : t \in Pairing /\ Inst(s) = t => s = t
  BY SessionsAssumption DEF Inst, Authenticators, Counter, Counters

-----------------------------------------------------------------------------
(***************************************************************************)
(* Type correctness.  It rests on what a call knows at each point: a key   *)
(* check checks a key its peer holds, and only a pairing session that gave *)
(* the passcode and has a cached key is about to store one.                *)
(***************************************************************************)
CheckingKey == {"fast", "read", "assign", "decide", "shadow", "tofu"}

CallOK ==
  \A s \in Sessions :
    /\ pc[s] \in CheckingKey => req[s] \in Keys
    /\ pc[s] = "vault" => cached[s] \in Keys /\ req[s] = "temp" /\ s \in Pairing
    /\ pc[s] = "match" => req[s] \in Passwords
    /\ req[s] \in KeysOf[s] \cup Knows[s] \cup {"wrong"}
    /\ cached[s] \in KeysOf[s] \cup {NoKey}

TypeInv == TypeOK /\ CallOK

\* A new daemon, with no handshake begun, is well typed (unified.rs:71-116).
LEMMA InitTypeInv == Init => TypeInv
<1> SUFFICES ASSUME Init PROVE TypeInv
  OBVIOUS
<1>1. burned \in BOOLEAN /\ shadow \in BOOLEAN
  BY Zenon DEF Init
<1> QED
  BY <1>1, SettingsAssumption, SessionsAssumption
  DEF Init, TypeInv, TypeOK, CallOK, Authenticators, PC, Calling, Checked,
      Passwords, NoFailure, CheckingKey

\* Every call, mutex step, vault write and command-line change keeps the types,
\* and each call its own request and cached key.
LEMMA NextTypeInv == TypeInv /\ [Next]_vars => TypeInv'
<1> SUFFICES ASSUME TypeInv, [Next]_vars PROVE TypeInv'
  OBVIOUS
<1> USE DEF TypeInv, TypeOK, CallOK, PC, Calling, Checked, CheckingKey, Goto, monitor
<1>1. ASSUME NEW s \in Sessions, Connect(s) PROVE TypeInv'
  <2> Inst(s) \in Authenticators /\ Counter(s) \in Counters
    BY InstType
  <2> QED
    BY <1>1, KeysAssumption, SessionsAssumption, SettingsAssumption
    DEF Connect, Readable, files, throttle, history
<1>2. ASSUME NEW s \in Sessions, Disconnect(s) PROVE TypeInv'
  <2> Inst(s) \in Authenticators /\ Counter(s) \in Counters
    BY InstType
  <2> QED
    BY <1>2, KeysAssumption, SessionsAssumption, SettingsAssumption
    DEF Disconnect, files, history
<1>3. ASSUME NEW s \in Sessions, AuthPublicKey(s) PROVE TypeInv'
  <2>1. PICK what \in KeysOf[s] : Begin(s, what)
    BY <1>3 DEF AuthPublicKey
  <2>2. what \in Keys \cup Passwords
    BY SessionsAssumption DEF Passwords
  <2>3. settled' \in SUBSET Sessions
    BY <2>1 DEF Begin
  <2> QED
    BY <2>1, <2>2, <2>3 DEF Begin, files, throttle
<1>4. ASSUME NEW s \in Sessions, AuthPassword(s) PROVE TypeInv'
  <2>1. PICK what \in Knows[s] \cup {"wrong"} : Begin(s, what)
    BY <1>4 DEF AuthPassword
  <2>2. what \in Keys \cup Passwords
    BY SessionsAssumption DEF Passwords
  <2>3. settled' \in SUBSET Sessions
    BY <2>1 DEF Begin
  <2> QED
    BY <2>1, <2>2, <2>3 DEF Begin, files, throttle
<1>5. ASSUME NEW s \in Sessions, LoadCount(s) PROVE TypeInv'
  <2> Inst(s) \in Authenticators /\ Counter(s) \in Counters
    BY InstType
  <2> QED
    BY <1>5, KeysAssumption, SessionsAssumption, SettingsAssumption
    DEF LoadCount, LockedAt, Enter, files, throttle, history, Passwords
<1>6. ASSUME NEW s \in Sessions, CheckAge(s) PROVE TypeInv'
  <2> Inst(s) \in Authenticators /\ Counter(s) \in Counters
    BY InstType
  <2> QED
    BY <1>6, KeysAssumption, SessionsAssumption, SettingsAssumption
    DEF CheckAge, Expired, Return, files, throttle, Passwords
<1>7. ASSUME NEW s \in Sessions, Decay(s) PROVE TypeInv'
  <2> Inst(s) \in Authenticators /\ Counter(s) \in Counters
    BY InstType
  <2> QED
    BY <1>7, KeysAssumption, SessionsAssumption, SettingsAssumption
    DEF Decay, Enter, files, history, Passwords, Counters
<1>8. ASSUME NEW s \in Sessions, FastPath(s) PROVE TypeInv'
  <2> Inst(s) \in Authenticators /\ Counter(s) \in Counters
    BY InstType
  <2> QED
    BY <1>8, KeysAssumption, SessionsAssumption, SettingsAssumption
    DEF FastPath, AcceptsAll, Admit, Return, files, Passwords, Counters
<1>9. ASSUME NEW s \in Sessions, RefreshRead(s) PROVE TypeInv'
  <2> Inst(s) \in Authenticators /\ Counter(s) \in Counters
    BY InstType
  <2> QED
    BY <1>9, KeysAssumption, SessionsAssumption, SettingsAssumption
    DEF RefreshRead, Readable, files, throttle
<1>10. ASSUME NEW s \in Sessions, RefreshAssign(s) PROVE TypeInv'
  <2> Inst(s) \in Authenticators /\ Counter(s) \in Counters
    BY InstType
  <2> QED
    BY <1>10, KeysAssumption, SessionsAssumption, SettingsAssumption
    DEF RefreshAssign, Refreshed, files, throttle, history
<1>11. ASSUME NEW s \in Sessions, Decide(s) PROVE TypeInv'
  <2> Inst(s) \in Authenticators /\ Counter(s) \in Counters
    BY InstType
  <2> QED
    BY <1>11, KeysAssumption, SessionsAssumption, SettingsAssumption
    DEF Decide, Kept, AfterMiss, Admit, Return, files, Passwords
<1>12. ASSUME NEW s \in Sessions, ReadShadow(s) PROVE TypeInv'
  <2> Inst(s) \in Authenticators /\ Counter(s) \in Counters
    BY InstType
  <2> QED
    BY <1>12, KeysAssumption, SessionsAssumption, SettingsAssumption
    DEF ReadShadow, MayAdopt, CacheKey, Challenge, Return, Release, files, throttle, Passwords
<1>13. ASSUME NEW s \in Sessions, AdoptOwner(s) PROVE TypeInv'
  <2> Inst(s) \in Authenticators /\ Counter(s) \in Counters
    BY InstType
  <2>1. CASE Goto(s, "reset")
    <3>1. UNCHANGED <<lock, req, settled, cached, snap, granted, shadow, failed, age>>
      BY <1>13, <2>1 DEF AdoptOwner, Return, throttle
    <3>2. /\ disk' = disk \cup {req[s]}
          /\ authorized' = [authorized EXCEPT ![Inst(s)] = @ \cup {req[s]}]
          /\ owners' = owners \cup {req[s]}
          /\ notices' \in SUBSET {"success", "failure"}
      BY <1>13, <2>1 DEF AdoptOwner, Return
    <3> QED
      BY <1>13, <2>1, <3>1, <3>2 DEF AdoptOwner
  <2>2. CASE Return(s, "err")
    BY <1>13, <2>2, SessionsAssumption DEF AdoptOwner, Return, Release, throttle, Passwords
  <2> QED
    BY <1>13, <2>1, <2>2 DEF AdoptOwner
<1>14. ASSUME NEW s \in Sessions, MatchPassword(s) PROVE TypeInv'
  <2> UNCHANGED <<files, authorized, lock, throttle, req, snap, notices, history>>
    BY <1>14 DEF MatchPassword, AfterPasscode
  <2> USE DEF files, throttle, history
  <2>1. CASE Goto(s, "vault")
    BY <1>14, <2>1 DEF MatchPassword, AfterPasscode, HasTemp
  <2>2. CASE Goto(s, "reset") \/ Goto(s, "fail_time")
    BY <1>14, <2>2, KeysAssumption DEF MatchPassword, AfterPasscode
  <2> QED
    BY <1>14, <2>1, <2>2 DEF MatchPassword, AfterPasscode
<1>15. ASSUME NEW s \in Sessions, VaultKey(s) PROVE TypeInv'
  <2> Inst(s) \in Authenticators /\ Counter(s) \in Counters
    BY InstType
  <2> UNCHANGED <<shadow, policy, lock, throttle, snap, burned, granted, owners>>
    BY <1>15 DEF VaultKey
  <2> cached' = [cached EXCEPT ![s] = NoKey] /\ cached[s] \in Keys
    BY <1>15 DEF VaultKey
  <2> USE DEF throttle
  <2>1. CASE Goto(s, "reset") /\ UNCHANGED <<disk, authorized, notices, req, settled>>
    BY <2>1
  <2>2. CASE /\ disk' = disk \cup {cached[s]}
             /\ authorized' = [authorized EXCEPT ![Inst(s)] = @ \cup {cached[s]}]
             /\ notices' = notices \cup {"success"}
             /\ Goto(s, "reset")
             /\ UNCHANGED <<req, settled>>
    BY <2>2
  <2>3. CASE Return(s, "err") /\ UNCHANGED <<disk, authorized, notices>>
    BY <2>3 DEF Return, Passwords
  <2> QED
    BY <1>15, <2>1, <2>2, <2>3 DEF VaultKey
<1>16. ASSUME NEW s \in Sessions, ResetFailures(s) PROVE TypeInv'
  <2> Inst(s) \in Authenticators /\ Counter(s) \in Counters
    BY InstType
  <2> QED
    BY <1>16, KeysAssumption, SessionsAssumption, SettingsAssumption
    DEF ResetFailures, Admit, Return, Release, files, Passwords
<1>17. ASSUME NEW s \in Sessions, RecordTime(s) PROVE TypeInv'
  <2> Inst(s) \in Authenticators /\ Counter(s) \in Counters
    BY InstType
  <2> QED
    BY <1>17, KeysAssumption, SessionsAssumption, SettingsAssumption
    DEF RecordTime, files, history, NoFailure
<1>18. ASSUME NEW s \in Sessions, RecordCount(s) PROVE TypeInv'
  <2> Inst(s) \in Authenticators /\ Counter(s) \in Counters
    BY InstType
  <2> QED
    BY <1>18, KeysAssumption, SessionsAssumption, SettingsAssumption
    DEF RecordCount, LimitReached, Return, Release, files, monitor, Passwords
<1>18a. ASSUME NEW s \in Sessions, TrySend(s) PROVE TypeInv'
  <2> Inst(s) \in Authenticators /\ Counter(s) \in Counters
    BY InstType
  <2> QED
    BY <1>18a, KeysAssumption, SessionsAssumption, SettingsAssumption
    DEF TrySend, Return, Release, files, throttle, Passwords
<1>19. ASSUME NEW k \in Keys, CliAuthorize(k) \/ CliRevoke(k)
      PROVE  TypeInv'
  BY <1>19 DEF CliAuthorize, CliRevoke, throttle, calls
<1>20. CASE CliPasswd \/ TakeFailure \/ UNCHANGED vars
  BY <1>20 DEF CliPasswd, TakeFailure, files, throttle, calls, history, monitor, vars
<1>21. CASE Tick
  BY <1>21, SettingsAssumption DEF Tick, files, calls, history, NoFailure
<1> QED
  BY <1>1, <1>2, <1>3, <1>4, <1>5, <1>6, <1>7, <1>8, <1>9, <1>10, <1>11,
     <1>12, <1>13, <1>14, <1>15, <1>16, <1>17, <1>18, <1>18a, <1>19, <1>20, <1>21,
     StepCases

-----------------------------------------------------------------------------
(***************************************************************************)
(* The mutex of the key cache: a call that decides about trust on first    *)
(* use holds it, so the cache it found empty is still empty.               *)
(***************************************************************************)
MutexInv ==
  /\ \A s \in Sessions : pc[s] \in {"shadow", "tofu"} => lock[Inst(s)] = s
  /\ TofuStillEmpty

\* The guard taken at unified.rs:318 is held until the adoption: nobody else
\* fills the cache that was found empty.
LEMMA NextMutexInv == TypeInv /\ MutexInv /\ [Next]_vars => MutexInv'
<1> SUFFICES ASSUME TypeInv, MutexInv, [Next]_vars PROVE MutexInv'
  OBVIOUS
<1> USE SessionsAssumption
    DEF TypeInv, TypeOK, MutexInv, TofuStillEmpty, Goto, files, throttle, calls,
        history, monitor
<1>1. ASSUME NEW s \in Sessions, Connect(s) PROVE MutexInv'
  BY <1>1, InstType DEF Connect, Readable
<1>2. ASSUME NEW s \in Sessions, Disconnect(s) PROVE MutexInv'
  BY <1>2, InstType DEF Disconnect
<1>3. ASSUME NEW s \in Sessions, AuthPublicKey(s) PROVE MutexInv'
  BY <1>3, InstType DEF AuthPublicKey, Begin
<1>4. ASSUME NEW s \in Sessions, AuthPassword(s) PROVE MutexInv'
  BY <1>4, InstType DEF AuthPassword, Begin
<1>5. ASSUME NEW s \in Sessions, LoadCount(s) PROVE MutexInv'
  BY <1>5, InstType DEF LoadCount, LockedAt, Enter
<1>6. ASSUME NEW s \in Sessions, CheckAge(s) PROVE MutexInv'
  BY <1>6, InstType DEF CheckAge, Expired, Return
<1>7. ASSUME NEW s \in Sessions, Decay(s) PROVE MutexInv'
  BY <1>7, InstType DEF Decay, Enter
<1>8. ASSUME NEW s \in Sessions, FastPath(s) PROVE MutexInv'
  BY <1>8, InstType DEF FastPath, AcceptsAll, Admit, Return, Free
<1>9. ASSUME NEW s \in Sessions, RefreshRead(s) PROVE MutexInv'
  BY <1>9, InstType DEF RefreshRead, Readable
<1>10. ASSUME NEW s \in Sessions, RefreshAssign(s) PROVE MutexInv'
  BY <1>10, InstType DEF RefreshAssign, Refreshed, Free
<1>11. ASSUME NEW s \in Sessions, Decide(s) PROVE MutexInv'
  BY <1>11, InstType DEF Decide, Kept, AfterMiss, Admit, Return, Free
<1>12. ASSUME NEW s \in Sessions, ReadShadow(s) PROVE MutexInv'
  BY <1>12, InstType DEF ReadShadow, MayAdopt, CacheKey, Challenge, Return, Release
<1>13. ASSUME NEW s \in Sessions, AdoptOwner(s) PROVE MutexInv'
  BY <1>13, InstType DEF AdoptOwner, Return, Release
<1>14. ASSUME NEW s \in Sessions, MatchPassword(s) PROVE MutexInv'
  BY <1>14, InstType DEF MatchPassword, AfterPasscode
<1>15. ASSUME NEW s \in Sessions, VaultKey(s) PROVE MutexInv'
  BY <1>15, InstType DEF VaultKey, Return, Free
<1>16. ASSUME NEW s \in Sessions, ResetFailures(s) PROVE MutexInv'
  BY <1>16, InstType DEF ResetFailures, Admit, Return, Release
<1>17. ASSUME NEW s \in Sessions, RecordTime(s) PROVE MutexInv'
  BY <1>17, InstType DEF RecordTime
<1>18. ASSUME NEW s \in Sessions, RecordCount(s) PROVE MutexInv'
  BY <1>18, InstType DEF RecordCount, LimitReached, Return, Release
<1>18a. ASSUME NEW s \in Sessions, TrySend(s) PROVE MutexInv'
  BY <1>18a, InstType DEF TrySend, Return, Release
<1>19. ASSUME NEW k \in Keys, CliAuthorize(k) \/ CliRevoke(k) PROVE MutexInv'
  BY <1>19 DEF CliAuthorize, CliRevoke
<1>20. CASE CliPasswd \/ Tick \/ TakeFailure \/ UNCHANGED vars
  BY <1>20 DEF CliPasswd, Tick, TakeFailure, vars
<1> QED
  BY <1>1, <1>2, <1>3, <1>4, <1>5, <1>6, <1>7, <1>8, <1>9, <1>10, <1>11,
     <1>12, <1>13, <1>14, <1>15, <1>16, <1>17, <1>18, <1>18a, <1>19, <1>20, StepCases

-----------------------------------------------------------------------------
(***************************************************************************)
(* The vault: where its keys come from.                                    *)
(***************************************************************************)
\* Each step that writes the vault (unified.rs:261-289, 351-361) writes a key the
\* owner, trust on first use or the passcode's holder vouches for.
LEMMA NextNoStrangerVaulted ==
  TypeInv /\ NoStrangerVaulted /\ [Next]_vars => NoStrangerVaulted'
<1> SUFFICES ASSUME TypeInv, NoStrangerVaulted, [Next]_vars
             PROVE  NoStrangerVaulted'
  OBVIOUS
<1> USE SessionsAssumption DEF NoStrangerVaulted, files, throttle, calls, history, monitor
<1>1. ASSUME NEW s \in Sessions, Connect(s) PROVE NoStrangerVaulted'
  BY <1>1, InstType DEF Connect, Readable
<1>2. ASSUME NEW s \in Sessions, Disconnect(s) PROVE NoStrangerVaulted'
  BY <1>2, InstType DEF Disconnect
<1>3. ASSUME NEW s \in Sessions, AuthPublicKey(s) PROVE NoStrangerVaulted'
  BY <1>3, InstType DEF AuthPublicKey, Begin
<1>4. ASSUME NEW s \in Sessions, AuthPassword(s) PROVE NoStrangerVaulted'
  BY <1>4, InstType DEF AuthPassword, Begin
<1>5. ASSUME NEW s \in Sessions, LoadCount(s) PROVE NoStrangerVaulted'
  BY <1>5, InstType DEF LoadCount, LockedAt, Enter
<1>6. ASSUME NEW s \in Sessions, CheckAge(s) PROVE NoStrangerVaulted'
  BY <1>6, InstType DEF CheckAge, Expired, Return
<1>7. ASSUME NEW s \in Sessions, Decay(s) PROVE NoStrangerVaulted'
  BY <1>7, InstType DEF Decay, Enter
<1>8. ASSUME NEW s \in Sessions, FastPath(s) PROVE NoStrangerVaulted'
  BY <1>8, InstType DEF FastPath, AcceptsAll, Admit, Return, Free
<1>9. ASSUME NEW s \in Sessions, RefreshRead(s) PROVE NoStrangerVaulted'
  BY <1>9, InstType DEF RefreshRead, Readable
<1>10. ASSUME NEW s \in Sessions, RefreshAssign(s) PROVE NoStrangerVaulted'
  BY <1>10, InstType DEF RefreshAssign, Refreshed, Free
<1>11. ASSUME NEW s \in Sessions, Decide(s) PROVE NoStrangerVaulted'
  BY <1>11, InstType DEF Decide, Kept, AfterMiss, Admit, Return, Free
<1>12. ASSUME NEW s \in Sessions, ReadShadow(s) PROVE NoStrangerVaulted'
  BY <1>12, InstType DEF ReadShadow, MayAdopt, CacheKey, Challenge, Return, Release
<1>13. ASSUME NEW s \in Sessions, AdoptOwner(s) PROVE NoStrangerVaulted'
  BY <1>13, InstType DEF AdoptOwner, Return, Release
<1>14. ASSUME NEW s \in Sessions, MatchPassword(s) PROVE NoStrangerVaulted'
  BY <1>14, InstType DEF MatchPassword, AfterPasscode
<1>15. ASSUME NEW s \in Sessions, VaultKey(s) PROVE NoStrangerVaulted'
  <2>1. cached[s] \in KeysOf[s] /\ "temp" \in Knows[s] /\ s \in Pairing
    BY <1>15, KeysAssumption DEF VaultKey, TypeInv, TypeOK, CallOK, Passwords
  <2> QED
    BY <1>15, <2>1 DEF VaultKey
<1>16. ASSUME NEW s \in Sessions, ResetFailures(s) PROVE NoStrangerVaulted'
  BY <1>16, InstType DEF ResetFailures, Admit, Return, Release
<1>17. ASSUME NEW s \in Sessions, RecordTime(s) PROVE NoStrangerVaulted'
  BY <1>17, InstType DEF RecordTime
<1>18. ASSUME NEW s \in Sessions, RecordCount(s) PROVE NoStrangerVaulted'
  BY <1>18, InstType DEF RecordCount, LimitReached, Return, Release
<1>18a. ASSUME NEW s \in Sessions, TrySend(s) PROVE NoStrangerVaulted'
  BY <1>18a, InstType DEF TrySend, Return, Release
<1>19. ASSUME NEW k \in Keys, CliAuthorize(k) \/ CliRevoke(k) PROVE NoStrangerVaulted'
  BY <1>19 DEF CliAuthorize, CliRevoke
<1>20. CASE CliPasswd \/ Tick \/ TakeFailure \/ UNCHANGED vars
  BY <1>20 DEF CliPasswd, Tick, TakeFailure, vars
<1> QED
  BY <1>1, <1>2, <1>3, <1>4, <1>5, <1>6, <1>7, <1>8, <1>9, <1>10, <1>11,
     <1>12, <1>13, <1>14, <1>15, <1>16, <1>17, <1>18, <1>18a, <1>19, <1>20, StepCases

\* Without Tofu a key check never reaches the point where it caches a key, so
\* the passcode has no key to store.
NoAdoption ==
  policy # "Tofu" =>
    /\ disk \subseteq granted
    /\ \A s \in Sessions : /\ cached[s] = NoKey
                           /\ pc[s] \notin {"shadow", "tofu", "vault"}
                           /\ policy = "AcceptAll" =>
                                pc[s] \notin {"read", "assign", "decide"}

\* Outside Tofu no call gets as far as the adoption (unified.rs:301-334).
LEMMA NextNoAdoption == TypeInv /\ NoAdoption /\ [Next]_vars => NoAdoption'
<1> SUFFICES ASSUME TypeInv, NoAdoption, [Next]_vars PROVE NoAdoption'
  OBVIOUS
<1> USE SettingsAssumption
    DEF TypeInv, TypeOK, NoAdoption, Goto, files, throttle, calls, history, monitor
<1>1. ASSUME NEW s \in Sessions, Connect(s) PROVE NoAdoption'
  BY <1>1, InstType DEF Connect, Readable
<1>2. ASSUME NEW s \in Sessions, Disconnect(s) PROVE NoAdoption'
  BY <1>2, InstType DEF Disconnect
<1>3. ASSUME NEW s \in Sessions, AuthPublicKey(s) PROVE NoAdoption'
  BY <1>3, InstType DEF AuthPublicKey, Begin
<1>4. ASSUME NEW s \in Sessions, AuthPassword(s) PROVE NoAdoption'
  BY <1>4, InstType DEF AuthPassword, Begin
<1>5. ASSUME NEW s \in Sessions, LoadCount(s) PROVE NoAdoption'
  BY <1>5, InstType DEF LoadCount, LockedAt, Enter
<1>6. ASSUME NEW s \in Sessions, CheckAge(s) PROVE NoAdoption'
  BY <1>6, InstType DEF CheckAge, Expired, Return
<1>7. ASSUME NEW s \in Sessions, Decay(s) PROVE NoAdoption'
  BY <1>7, InstType DEF Decay, Enter
<1>8. ASSUME NEW s \in Sessions, FastPath(s) PROVE NoAdoption'
  BY <1>8, InstType DEF FastPath, AcceptsAll, Admit, Return, Free
<1>9. ASSUME NEW s \in Sessions, RefreshRead(s) PROVE NoAdoption'
  BY <1>9, InstType DEF RefreshRead, Readable
<1>10. ASSUME NEW s \in Sessions, RefreshAssign(s) PROVE NoAdoption'
  BY <1>10, InstType DEF RefreshAssign, Refreshed, Free
<1>11. ASSUME NEW s \in Sessions, Decide(s) PROVE NoAdoption'
  BY <1>11, InstType DEF Decide, Kept, AfterMiss, Admit, Return, Free
<1>12. ASSUME NEW s \in Sessions, ReadShadow(s) PROVE NoAdoption'
  BY <1>12, InstType DEF ReadShadow, MayAdopt, CacheKey, Challenge, Return, Release
<1>13. ASSUME NEW s \in Sessions, AdoptOwner(s) PROVE NoAdoption'
  BY <1>13, InstType DEF AdoptOwner, Return, Release
<1>14. ASSUME NEW s \in Sessions, MatchPassword(s) PROVE NoAdoption'
  BY <1>14, InstType DEF MatchPassword, AfterPasscode
<1>15. ASSUME NEW s \in Sessions, VaultKey(s) PROVE NoAdoption'
  BY <1>15, InstType DEF VaultKey, Return, Free
<1>16. ASSUME NEW s \in Sessions, ResetFailures(s) PROVE NoAdoption'
  BY <1>16, InstType DEF ResetFailures, Admit, Return, Release
<1>17. ASSUME NEW s \in Sessions, RecordTime(s) PROVE NoAdoption'
  BY <1>17, InstType DEF RecordTime
<1>18. ASSUME NEW s \in Sessions, RecordCount(s) PROVE NoAdoption'
  BY <1>18, InstType DEF RecordCount, LimitReached, Return, Release
<1>18a. ASSUME NEW s \in Sessions, TrySend(s) PROVE NoAdoption'
  BY <1>18a, InstType DEF TrySend, Return, Release
<1>19. ASSUME NEW k \in Keys, CliAuthorize(k) \/ CliRevoke(k) PROVE NoAdoption'
  BY <1>19 DEF CliAuthorize, CliRevoke
<1>20. CASE CliPasswd \/ Tick \/ TakeFailure \/ UNCHANGED vars
  BY <1>20 DEF CliPasswd, Tick, TakeFailure, vars
<1> QED
  BY <1>1, <1>2, <1>3, <1>4, <1>5, <1>6, <1>7, <1>8, <1>9, <1>10, <1>11,
     <1>12, <1>13, <1>14, <1>15, <1>16, <1>17, <1>18, <1>18a, <1>19, <1>20, StepCases

-----------------------------------------------------------------------------
(***************************************************************************)
(* The rate limiter: a call that has passed is_locked_out can add at most one   *)
(* failure, and none of its peers passes once three are counted.           *)
(***************************************************************************)
InFlight(c) == {s \in SessionsOf(c) : pc[s] \in Checked}

BudgetInv ==
  \A c \in Counters :
    failed[c] + Cardinality(InFlight(c))
      <= MaxFailures - 1 + Cardinality(SessionsOf(c))

\* What a step does to one counter and to the calls it counts.
CounterStep(c) ==
  \/ failed'[c] < MaxFailures
  \/ failed'[c] = failed[c] /\ InFlight(c)' \subseteq InFlight(c)
  \/ /\ failed'[c] = failed[c] + 1
     /\ \E s \in InFlight(c) : InFlight(c)' \subseteq InFlight(c) \ {s}

\* A step clears a failure counter, leaves it, or adds one for a call that had
\* already passed is_locked_out (unified.rs:157-193).
LEMMA CounterSteps ==
  ASSUME TypeInv, [Next]_vars, NEW c \in Counters
  PROVE  CounterStep(c)
<1> USE DEF TypeInv, TypeOK, CounterStep, InFlight, SessionsOf, Checked, MaxFailures, Goto,
        files, throttle, calls, history, monitor
<1>1. ASSUME NEW s \in Sessions, Connect(s) PROVE CounterStep(c)
  BY <1>1, InstType DEF Connect, Readable
<1>2. ASSUME NEW s \in Sessions, Disconnect(s) PROVE CounterStep(c)
  BY <1>2, InstType DEF Disconnect
<1>3. ASSUME NEW s \in Sessions, AuthPublicKey(s) PROVE CounterStep(c)
  BY <1>3, InstType DEF AuthPublicKey, Begin
<1>4. ASSUME NEW s \in Sessions, AuthPassword(s) PROVE CounterStep(c)
  BY <1>4, InstType DEF AuthPassword, Begin
<1>5. ASSUME NEW s \in Sessions, LoadCount(s) PROVE CounterStep(c)
  BY <1>5, InstType DEF LoadCount, LockedAt, Enter
<1>6. ASSUME NEW s \in Sessions, CheckAge(s) PROVE CounterStep(c)
  BY <1>6, InstType DEF CheckAge, Expired, Return
<1>7. ASSUME NEW s \in Sessions, Decay(s) PROVE CounterStep(c)
  BY <1>7, InstType DEF Decay, Enter
<1>8. ASSUME NEW s \in Sessions, FastPath(s) PROVE CounterStep(c)
  BY <1>8, InstType DEF FastPath, AcceptsAll, Admit, Return, Free
<1>9. ASSUME NEW s \in Sessions, RefreshRead(s) PROVE CounterStep(c)
  BY <1>9, InstType DEF RefreshRead, Readable
<1>10. ASSUME NEW s \in Sessions, RefreshAssign(s) PROVE CounterStep(c)
  BY <1>10, InstType DEF RefreshAssign, Refreshed, Free
<1>11. ASSUME NEW s \in Sessions, Decide(s) PROVE CounterStep(c)
  BY <1>11, InstType DEF Decide, Kept, AfterMiss, Admit, Return, Free
<1>12. ASSUME NEW s \in Sessions, ReadShadow(s) PROVE CounterStep(c)
  BY <1>12, InstType DEF ReadShadow, MayAdopt, CacheKey, Challenge, Return, Release
<1>13. ASSUME NEW s \in Sessions, AdoptOwner(s) PROVE CounterStep(c)
  BY <1>13, InstType DEF AdoptOwner, Return, Release
<1>14. ASSUME NEW s \in Sessions, MatchPassword(s) PROVE CounterStep(c)
  BY <1>14, InstType DEF MatchPassword, AfterPasscode
<1>15. ASSUME NEW s \in Sessions, VaultKey(s) PROVE CounterStep(c)
  BY <1>15, InstType DEF VaultKey, Return, Free
<1>16. ASSUME NEW s \in Sessions, ResetFailures(s) PROVE CounterStep(c)
  BY <1>16, InstType DEF ResetFailures, Admit, Return, Release
<1>17. ASSUME NEW s \in Sessions, RecordTime(s) PROVE CounterStep(c)
  BY <1>17, InstType DEF RecordTime
<1>18. ASSUME NEW s \in Sessions, RecordCount(s) PROVE CounterStep(c)
  BY <1>18, InstType DEF RecordCount, LimitReached, Return, Release
<1>18a. ASSUME NEW s \in Sessions, TrySend(s) PROVE CounterStep(c)
  BY <1>18a, InstType DEF TrySend, Return, Release
<1>19. ASSUME NEW k \in Keys, CliAuthorize(k) \/ CliRevoke(k) PROVE CounterStep(c)
  BY <1>19 DEF CliAuthorize, CliRevoke
<1>20. CASE CliPasswd \/ Tick \/ TakeFailure \/ UNCHANGED vars
  BY <1>20 DEF CliPasswd, Tick, TakeFailure, vars
<1> QED
  BY <1>1, <1>2, <1>3, <1>4, <1>5, <1>6, <1>7, <1>8, <1>9, <1>10, <1>11,
     <1>12, <1>13, <1>14, <1>15, <1>16, <1>17, <1>18, <1>18a, <1>19, <1>20, StepCases

\* The calls past the limiter are among the sessions that share the counter.
LEMMA InFlightFinite ==
  ASSUME NEW c \in Counters
  PROVE  /\ IsFiniteSet(SessionsOf(c)) /\ IsFiniteSet(InFlight(c))
         /\ Cardinality(SessionsOf(c)) \in Nat
         /\ Cardinality(InFlight(c)) \in Nat
         /\ Cardinality(InFlight(c)) <= Cardinality(SessionsOf(c))
  BY FS_Subset, FS_CardinalityType, SessionsAssumption DEF SessionsOf, InFlight

\* Counter plus calls in flight stays within the budget: a new call passes
\* is_locked_out only below three failures (unified.rs:157-171).
LEMMA NextBudgetInv == TypeInv /\ BudgetInv /\ [Next]_vars => BudgetInv'
<1> SUFFICES ASSUME TypeInv, BudgetInv, [Next]_vars, NEW c \in Counters
             PROVE  failed'[c] + Cardinality(InFlight(c)')
                      <= MaxFailures - 1 + Cardinality(SessionsOf(c))
  BY DEF BudgetInv, SessionsOf
<1> DEFINE F == InFlight(c)
           G == InFlight(c)'
           N == Cardinality(SessionsOf(c))
<1>1. /\ IsFiniteSet(F) /\ Cardinality(F) \in Nat
      /\ N \in Nat /\ IsFiniteSet(SessionsOf(c))
  BY InFlightFinite
<1>2. /\ IsFiniteSet(G) /\ Cardinality(G) \in Nat /\ Cardinality(G) <= N
  <2>1. G \subseteq SessionsOf(c)
    BY DEF InFlight, SessionsOf
  <2> QED
    BY <2>1, <1>1, FS_Subset, FS_CardinalityType
<1>3. failed[c] \in Nat /\ failed'[c] \in Nat
  BY NextTypeInv DEF TypeInv, TypeOK
<1>4. failed[c] + Cardinality(F) <= MaxFailures - 1 + N
  BY DEF BudgetInv
<1>5. CASE failed'[c] < MaxFailures
  BY <1>1, <1>2, <1>3, <1>5 DEF MaxFailures
<1>6. CASE failed'[c] = failed[c] /\ G \subseteq F
  <2>1. Cardinality(G) <= Cardinality(F)
    BY <1>1, <1>6, FS_Subset
  <2> QED
    BY <1>1, <1>2, <1>3, <1>4, <1>6, <2>1 DEF MaxFailures
<1>7. ASSUME failed'[c] = failed[c] + 1, NEW s \in F, G \subseteq F \ {s}
      PROVE  failed'[c] + Cardinality(G) <= MaxFailures - 1 + N
  <2>1. Cardinality(F \ {s}) = Cardinality(F) - 1 /\ IsFiniteSet(F \ {s})
    BY <1>1, <1>7, FS_RemoveElement
  <2>2. Cardinality(G) <= Cardinality(F \ {s})
    BY <2>1, <1>7, FS_Subset
  <2> QED
    BY <1>1, <1>2, <1>3, <1>4, <1>7, <2>1, <2>2 DEF MaxFailures
<1> QED
  BY <1>5, <1>6, <1>7, CounterSteps DEF CounterStep

\* The failure that reaches the limit is the one that notifies the server
\* (unified.rs:176-193).
LEMMA NextNotified ==
  TypeInv /\ ExhaustedWormholeNotified /\ [Next]_vars => ExhaustedWormholeNotified'
<1> SUFFICES ASSUME TypeInv, ExhaustedWormholeNotified, [Next]_vars
             PROVE  ExhaustedWormholeNotified'
  OBVIOUS
<1> USE SessionsAssumption
    DEF TypeInv, TypeOK, ExhaustedWormholeNotified, MaxFailures, Counter, Goto,
        Counters, files, throttle, calls, history, monitor
<1>1. ASSUME NEW s \in Sessions, Connect(s) PROVE ExhaustedWormholeNotified'
  BY <1>1, InstType DEF Connect, Readable
<1>2. ASSUME NEW s \in Sessions, Disconnect(s) PROVE ExhaustedWormholeNotified'
  BY <1>2, InstType DEF Disconnect
<1>3. ASSUME NEW s \in Sessions, AuthPublicKey(s) PROVE ExhaustedWormholeNotified'
  BY <1>3, InstType DEF AuthPublicKey, Begin
<1>4. ASSUME NEW s \in Sessions, AuthPassword(s) PROVE ExhaustedWormholeNotified'
  BY <1>4, InstType DEF AuthPassword, Begin
<1>5. ASSUME NEW s \in Sessions, LoadCount(s) PROVE ExhaustedWormholeNotified'
  BY <1>5, InstType DEF LoadCount, LockedAt, Enter
<1>6. ASSUME NEW s \in Sessions, CheckAge(s) PROVE ExhaustedWormholeNotified'
  BY <1>6, InstType DEF CheckAge, Expired, Return
<1>7. ASSUME NEW s \in Sessions, Decay(s) PROVE ExhaustedWormholeNotified'
  BY <1>7, InstType DEF Decay, Enter
<1>8. ASSUME NEW s \in Sessions, FastPath(s) PROVE ExhaustedWormholeNotified'
  BY <1>8, InstType DEF FastPath, AcceptsAll, Admit, Return, Free
<1>9. ASSUME NEW s \in Sessions, RefreshRead(s) PROVE ExhaustedWormholeNotified'
  BY <1>9, InstType DEF RefreshRead, Readable
<1>10. ASSUME NEW s \in Sessions, RefreshAssign(s) PROVE ExhaustedWormholeNotified'
  BY <1>10, InstType DEF RefreshAssign, Refreshed, Free
<1>11. ASSUME NEW s \in Sessions, Decide(s) PROVE ExhaustedWormholeNotified'
  BY <1>11, InstType DEF Decide, Kept, AfterMiss, Admit, Return, Free
<1>12. ASSUME NEW s \in Sessions, ReadShadow(s) PROVE ExhaustedWormholeNotified'
  BY <1>12, InstType DEF ReadShadow, MayAdopt, CacheKey, Challenge, Return, Release
<1>13. ASSUME NEW s \in Sessions, AdoptOwner(s) PROVE ExhaustedWormholeNotified'
  BY <1>13, InstType DEF AdoptOwner, Return, Release
<1>14. ASSUME NEW s \in Sessions, MatchPassword(s) PROVE ExhaustedWormholeNotified'
  BY <1>14, InstType DEF MatchPassword, AfterPasscode
<1>15. ASSUME NEW s \in Sessions, VaultKey(s) PROVE ExhaustedWormholeNotified'
  BY <1>15, InstType DEF VaultKey, Return, Free
<1>16. ASSUME NEW s \in Sessions, ResetFailures(s) PROVE ExhaustedWormholeNotified'
  BY <1>16, InstType DEF ResetFailures, Admit, Return, Release
<1>17. ASSUME NEW s \in Sessions, RecordTime(s) PROVE ExhaustedWormholeNotified'
  BY <1>17, InstType DEF RecordTime
<1>18. ASSUME NEW s \in Sessions, RecordCount(s) PROVE ExhaustedWormholeNotified'
  BY <1>18, InstType DEF RecordCount, LimitReached, Return, Release
<1>18a. ASSUME NEW s \in Sessions, TrySend(s) PROVE ExhaustedWormholeNotified'
  BY <1>18a, InstType DEF TrySend, Return, Release
<1>19. ASSUME NEW k \in Keys, CliAuthorize(k) \/ CliRevoke(k) PROVE ExhaustedWormholeNotified'
  BY <1>19 DEF CliAuthorize, CliRevoke
<1>20. CASE CliPasswd \/ Tick \/ TakeFailure \/ UNCHANGED vars
  BY <1>20 DEF CliPasswd, Tick, TakeFailure, vars
<1> QED
  BY <1>1, <1>2, <1>3, <1>4, <1>5, <1>6, <1>7, <1>8, <1>9, <1>10, <1>11,
     <1>12, <1>13, <1>14, <1>15, <1>16, <1>17, <1>18, <1>18a, <1>19, <1>20, StepCases

-----------------------------------------------------------------------------
(***************************************************************************)
(* Settled trust: as long as a key stays in the vault, every refresh that  *)
(* can still be stored contains it, and so does the cache once the call    *)
(* has refreshed it.                                                       *)
(***************************************************************************)
Looking == {"count", "age", "decay", "fast", "read", "assign", "decide"}

SettledInv ==
  \A s \in settled :
    /\ pc[s] \in Looking
    /\ req[s] \in disk
    /\ \A t \in Sessions :
         pc[t] = "assign" /\ Inst(t) = Inst(s) => req[s] \in snap[t]
    /\ pc[s] = "decide" => req[s] \in authorized[Inst(s)]

\* A settled key stays in the vault, the caches and every read under way
\* (unified.rs:197-213).
LEMMA NextSettledInv == TypeInv /\ SettledInv /\ [Next]_vars => SettledInv'
<1> SUFFICES ASSUME TypeInv, SettledInv, [Next]_vars PROVE SettledInv'
  OBVIOUS
<1> USE DEF TypeInv, TypeOK, SettledInv, Looking, Goto, files, throttle, calls,
            history, monitor
<1>1. ASSUME NEW s \in Sessions, Connect(s) PROVE SettledInv'
  BY <1>1, InstType DEF Connect, Readable
<1>2. ASSUME NEW s \in Sessions, Disconnect(s) PROVE SettledInv'
  BY <1>2, InstType DEF Disconnect
<1>3. ASSUME NEW s \in Sessions, AuthPublicKey(s) PROVE SettledInv'
  BY <1>3, InstType DEF AuthPublicKey, Begin
<1>4. ASSUME NEW s \in Sessions, AuthPassword(s) PROVE SettledInv'
  BY <1>4, InstType DEF AuthPassword, Begin
<1>5. ASSUME NEW s \in Sessions, LoadCount(s) PROVE SettledInv'
  BY <1>5, InstType DEF LoadCount, LockedAt, Enter
<1>6. ASSUME NEW s \in Sessions, CheckAge(s) PROVE SettledInv'
  BY <1>6, InstType DEF CheckAge, Expired, Return
<1>7. ASSUME NEW s \in Sessions, Decay(s) PROVE SettledInv'
  BY <1>7, InstType DEF Decay, Enter
<1>8. ASSUME NEW s \in Sessions, FastPath(s) PROVE SettledInv'
  BY <1>8, InstType DEF FastPath, AcceptsAll, Admit, Return, Free
<1>9. ASSUME NEW s \in Sessions, RefreshRead(s) PROVE SettledInv'
  BY <1>9, InstType DEF RefreshRead, Readable
<1>10. ASSUME NEW s \in Sessions, RefreshAssign(s) PROVE SettledInv'
  BY <1>10, InstType DEF RefreshAssign, Refreshed, Free
<1>11. ASSUME NEW s \in Sessions, Decide(s) PROVE SettledInv'
  BY <1>11, InstType DEF Decide, Kept, AfterMiss, Admit, Return, Free
<1>12. ASSUME NEW s \in Sessions, ReadShadow(s) PROVE SettledInv'
  BY <1>12, InstType DEF ReadShadow, MayAdopt, CacheKey, Challenge, Return, Release
<1>13. ASSUME NEW s \in Sessions, AdoptOwner(s) PROVE SettledInv'
  BY <1>13, InstType DEF AdoptOwner, Return, Release
<1>14. ASSUME NEW s \in Sessions, MatchPassword(s) PROVE SettledInv'
  BY <1>14, InstType DEF MatchPassword, AfterPasscode
<1>15. ASSUME NEW s \in Sessions, VaultKey(s) PROVE SettledInv'
  BY <1>15, InstType DEF VaultKey, Return, Free
<1>16. ASSUME NEW s \in Sessions, ResetFailures(s) PROVE SettledInv'
  BY <1>16, InstType DEF ResetFailures, Admit, Return, Release
<1>17. ASSUME NEW s \in Sessions, RecordTime(s) PROVE SettledInv'
  BY <1>17, InstType DEF RecordTime
<1>18. ASSUME NEW s \in Sessions, RecordCount(s) PROVE SettledInv'
  BY <1>18, InstType DEF RecordCount, LimitReached, Return, Release
<1>18a. ASSUME NEW s \in Sessions, TrySend(s) PROVE SettledInv'
  BY <1>18a, InstType DEF TrySend, Return, Release
<1>19. ASSUME NEW k \in Keys, CliAuthorize(k) \/ CliRevoke(k) PROVE SettledInv'
  BY <1>19 DEF CliAuthorize, CliRevoke
<1>20. CASE CliPasswd \/ Tick \/ TakeFailure \/ UNCHANGED vars
  BY <1>20 DEF CliPasswd, Tick, TakeFailure, vars
<1> QED
  BY <1>1, <1>2, <1>3, <1>4, <1>5, <1>6, <1>7, <1>8, <1>9, <1>10, <1>11,
     <1>12, <1>13, <1>14, <1>15, <1>16, <1>17, <1>18, <1>18a, <1>19, <1>20, StepCases

-----------------------------------------------------------------------------
(***************************************************************************)
(* One call at a time: when no other call can store an older refresh, a call *)
(* that decides about trust on first use has seen every earlier owner.     *)
(***************************************************************************)
OneAtATime == Serial /\ ~ReadFaults /\ "revoke" \notin CliOps

OwnerInv ==
  OneAtATime =>
    /\ owners \subseteq disk
    /\ \A k, l \in owners : k = l
    /\ \A s, t \in Sessions : pc[s] \in Calling /\ pc[t] \in Calling => s = t
    /\ \A s \in Sessions : pc[s] = "assign" => owners \subseteq snap[s]
    /\ \A s \in Sessions :
         pc[s] \in {"decide", "shadow", "tofu"} => owners \subseteq authorized[Inst(s)]

\* With one check at a time every later check sees the first owner's key
\* (unified.rs:306-361).
LEMMA NextOwnerInv ==
  TypeInv /\ MutexInv /\ OwnerInv /\ [Next]_vars => OwnerInv'
<1> SUFFICES ASSUME TypeInv, MutexInv, OwnerInv, [Next]_vars, OneAtATime
             PROVE  OwnerInv'
  BY DEF OwnerInv, OneAtATime
<1> USE SettingsAssumption
    DEF TypeInv, TypeOK, OwnerInv, OneAtATime, Calling, Checked, Goto, files,
        throttle, calls, history, monitor
<1>1. ASSUME NEW s \in Sessions, Connect(s) PROVE OwnerInv'
  BY <1>1, InstType DEF Connect, Readable
<1>2. ASSUME NEW s \in Sessions, Disconnect(s) PROVE OwnerInv'
  BY <1>2, InstType DEF Disconnect
<1>3. ASSUME NEW s \in Sessions, AuthPublicKey(s) PROVE OwnerInv'
  BY <1>3, InstType DEF AuthPublicKey, Begin
<1>4. ASSUME NEW s \in Sessions, AuthPassword(s) PROVE OwnerInv'
  BY <1>4, InstType DEF AuthPassword, Begin
<1>5. ASSUME NEW s \in Sessions, LoadCount(s) PROVE OwnerInv'
  BY <1>5, InstType DEF LoadCount, LockedAt, Enter
<1>6. ASSUME NEW s \in Sessions, CheckAge(s) PROVE OwnerInv'
  BY <1>6, InstType DEF CheckAge, Expired, Return
<1>7. ASSUME NEW s \in Sessions, Decay(s) PROVE OwnerInv'
  BY <1>7, InstType DEF Decay, Enter
<1>8. ASSUME NEW s \in Sessions, FastPath(s) PROVE OwnerInv'
  BY <1>8, InstType DEF FastPath, AcceptsAll, Admit, Return, Free
<1>9. ASSUME NEW s \in Sessions, RefreshRead(s) PROVE OwnerInv'
  BY <1>9, InstType DEF RefreshRead, Readable
<1>10. ASSUME NEW s \in Sessions, RefreshAssign(s) PROVE OwnerInv'
  BY <1>10, InstType DEF RefreshAssign, Refreshed, Free
<1>11. ASSUME NEW s \in Sessions, Decide(s) PROVE OwnerInv'
  BY <1>11, InstType DEF Decide, Kept, AfterMiss, Admit, Return, Free
<1>12. ASSUME NEW s \in Sessions, ReadShadow(s) PROVE OwnerInv'
  BY <1>12, InstType DEF ReadShadow, MayAdopt, CacheKey, Challenge, Return, Release
<1>13. ASSUME NEW s \in Sessions, AdoptOwner(s) PROVE OwnerInv'
  <2>1. owners = {}
    BY <1>13 DEF AdoptOwner, MutexInv, TofuStillEmpty
  <2> QED
    BY <1>13, <2>1, InstType DEF AdoptOwner, Return, Release
<1>14. ASSUME NEW s \in Sessions, MatchPassword(s) PROVE OwnerInv'
  BY <1>14, InstType DEF MatchPassword, AfterPasscode
<1>15. ASSUME NEW s \in Sessions, VaultKey(s) PROVE OwnerInv'
  BY <1>15, InstType DEF VaultKey, Return, Free
<1>16. ASSUME NEW s \in Sessions, ResetFailures(s) PROVE OwnerInv'
  BY <1>16, InstType DEF ResetFailures, Admit, Return, Release
<1>17. ASSUME NEW s \in Sessions, RecordTime(s) PROVE OwnerInv'
  BY <1>17, InstType DEF RecordTime
<1>18. ASSUME NEW s \in Sessions, RecordCount(s) PROVE OwnerInv'
  BY <1>18, InstType DEF RecordCount, LimitReached, Return, Release
<1>18a. ASSUME NEW s \in Sessions, TrySend(s) PROVE OwnerInv'
  BY <1>18a, InstType DEF TrySend, Return, Release
<1>19. ASSUME NEW k \in Keys, CliAuthorize(k) \/ CliRevoke(k) PROVE OwnerInv'
  BY <1>19 DEF CliAuthorize, CliRevoke
<1>20. CASE CliPasswd \/ Tick \/ TakeFailure \/ UNCHANGED vars
  BY <1>20 DEF CliPasswd, Tick, TakeFailure, vars
<1> QED
  BY <1>1, <1>2, <1>3, <1>4, <1>5, <1>6, <1>7, <1>8, <1>9, <1>10, <1>11,
     <1>12, <1>13, <1>14, <1>15, <1>16, <1>17, <1>18, <1>18a, <1>19, <1>20, StepCases

-----------------------------------------------------------------------------
(***************************************************************************)
(* The inductive invariant and what follows from it.                       *)
(***************************************************************************)
Inv ==
  /\ TypeInv /\ MutexInv /\ NoStrangerVaulted /\ NoAdoption /\ BudgetInv
  /\ ExhaustedWormholeNotified /\ SettledInv /\ OwnerInv

\* A new daemon satisfies the inductive invariant.
LEMMA InitInv == Init => Inv
<1> SUFFICES ASSUME Init PROVE Inv
  OBVIOUS
<1>1. TypeInv
  BY InitTypeInv
<1>2. MutexInv /\ NoStrangerVaulted /\ NoAdoption /\ SettledInv /\ OwnerInv
  BY DEF Init, MutexInv, TofuStillEmpty, NoStrangerVaulted, NoAdoption,
         SettledInv, OwnerInv, Calling, Checked
<1>3. BudgetInv
  <2> SUFFICES ASSUME NEW c \in Counters
               PROVE  failed[c] + Cardinality(InFlight(c))
                        <= MaxFailures - 1 + Cardinality(SessionsOf(c))
    BY DEF BudgetInv
  <2>1. failed[c] = 0
    BY DEF Init
  <2> QED
    BY <2>1, InFlightFinite DEF MaxFailures
<1>4. ExhaustedWormholeNotified
  BY DEF Init, ExhaustedWormholeNotified, Counters, MaxFailures
<1> QED
  BY <1>1, <1>2, <1>3, <1>4 DEF Inv

\* Every step of the sessions and of the command line keeps it.
LEMMA NextInv == Inv /\ [Next]_vars => Inv'
  BY NextTypeInv, NextMutexInv, NextNoStrangerVaulted, NextNoAdoption,
     NextBudgetInv, NextNotified, NextSettledInv, NextOwnerInv
  DEF Inv

\* It holds in every reachable state.
LEMMA SpecInv == Spec => []Inv
  BY InitInv, NextInv, PTL DEF Spec

\* Every variable keeps its type, whatever the sessions and the command line
\* do.
THEOREM TypeCorrect == Spec => []TypeOK
<1>1. Inv => TypeOK
  BY DEF Inv, TypeInv
<1> QED
  BY <1>1, SpecInv, PTL

\* No number of concurrent sessions gets more guesses past is_locked_out than
\* two plus their number (unified.rs:157-193).
THEOREM RateLimit == Spec => []GuessBudget
<1>1. Inv => GuessBudget
  <2> SUFFICES ASSUME Inv, NEW c \in Counters
               PROVE  failed[c] <= MaxFailures - 1 + Cardinality(SessionsOf(c))
    BY DEF GuessBudget
  <2>1. failed[c] + Cardinality(InFlight(c))
          <= MaxFailures - 1 + Cardinality(SessionsOf(c))
    BY DEF Inv, BudgetInv
  <2>2. failed[c] \in Nat
    BY DEF Inv, TypeInv, TypeOK
  <2> QED
    BY <2>1, <2>2, InFlightFinite DEF MaxFailures
<1> QED
  BY <1>1, SpecInv, PTL

\* Keys enter the vault only by the owner's hand, by trust on first use, or
\* with the passcode given by the peer that holds the key.
THEOREM VaultProvenance == Spec => []NoStrangerVaulted
<1>1. Inv => NoStrangerVaulted
  BY DEF Inv
<1> QED
  BY <1>1, SpecInv, PTL

\* A key whose trust is settled is accepted by every check that the rate
\* limiter lets begin (unified.rs:306-324).
LEMMA SettledTrust == Spec => []TrustedKeyNotChallenged
<1>1. Inv => TrustedKeyNotChallenged
  BY DEF Inv, SettledInv, Looking, TrustedKeyNotChallenged, Challenged
<1> QED
  BY <1>1, SpecInv, PTL

\* The cache found empty is still empty when the first key is adopted
\* (unified.rs:318-361).
LEMMA CheckThenAdopt == Spec => []TofuStillEmpty
<1>1. Inv => TofuStillEmpty
  BY DEF Inv, MutexInv
<1> QED
  BY <1>1, SpecInv, PTL

\* Strict and AcceptAll add no key to the vault (unified.rs:301-334).
LEMMA AdoptionNeedsTofu == Spec => []OnlyTofuAdopts
<1>1. Inv => OnlyTofuAdopts
  BY DEF Inv, NoAdoption, OnlyTofuAdopts
<1> QED
  BY <1>1, SpecInv, PTL

\* What every check of a key may rest on holds for all keys, sessions, policies
\* and interleavings (unified.rs:295-361).
THEOREM TrustSoundness == Spec => []TrustSound
  BY TypeCorrect, SettledTrust, CheckThenAdopt, AdoptionNeedsTofu, PTL DEF TrustSound

\* A wormhole at its limit has been told to burn (unified.rs:186-192).
THEOREM ExhaustionNotified == Spec => []ExhaustedWormholeNotified
<1>1. Inv => ExhaustedWormholeNotified
  BY DEF Inv
<1> QED
  BY <1>1, SpecInv, PTL

\* With one check at a time, a readable vault and no revocation, at most one
\* device becomes the owner by trust on first use (unified.rs:351-361): the
\* three assumptions are what the code does not establish by itself.
THEOREM SingleOwnerWhenSerial ==
  ASSUME Serial, ~ReadFaults, "revoke" \notin CliOps
  PROVE  Spec => []SingleOwner
<1>1. Inv => SingleOwner
  <2> SUFFICES ASSUME Inv PROVE Cardinality(owners) <= 1
    BY DEF SingleOwner
  <2>1. \A k, l \in owners : k = l
    BY DEF Inv, OwnerInv, OneAtATime
  <2>2. CASE owners = {}
    BY <2>2, FS_EmptySet
  <2>3. ASSUME NEW k \in owners PROVE Cardinality(owners) <= 1
    <3>1. owners = {k}
      BY <2>1
    <3> QED
      BY <3>1, FS_Singleton
  <2> QED
    BY <2>2, <2>3
<1> QED
  BY <1>1, SpecInv, PTL
=============================================================================
