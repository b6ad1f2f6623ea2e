------------------------------ MODULE Storage ------------------------------
(***************************************************************************)
(* The state directory: src/storage and the commands that change it.       *)
(* The daemon and any number of command lines run at once, without a lock, *)
(* on the same files.  A process runs one command at a time; every system  *)
(* call of the command is a step of its own, so commands interleave.       *)
(* A process may die between two steps, and the power may fail.            *)
(*                                                                         *)
(* The file system is external.  It is taken to order the changes of the   *)
(* directory (renames and removals reach the disk in the order they were   *)
(* made, the journal), and to say nothing of the data of a file that was   *)
(* not synced before its rename: after a power loss it may be Torn.        *)
(***************************************************************************)
EXTENDS Integers, Sequences, FiniteSets

CONSTANTS
    Proc,        \* processes: the daemon and command lines
    Name,        \* names of peers
    Ticket,      \* what a peer profile holds
    Key,         \* identities SecretKey::generate may draw
    Client,      \* node identities with a key in the vault
    Field,       \* settings of the configuration
    PubKey,      \* the content of a trust record
    Hash,        \* the content of the shadow file
    NoFile,      \* no such file
    Torn,        \* part of a content
    MaxJournal   \* bound: changes the disk may lag behind

PeerFile(n)   == <<"peers", n>>
ClientFile(c) == <<"clients", c>>
Secret        == <<"keys", "endpoint.secret">>
Shadow        == <<"shadow", "">>
ConfigFile    == <<"irosh.json", "">>
Export        == <<"export", "">>

PeerFiles  == {PeerFile(n) : n \in Name}
TrustFiles == {ClientFile(c) : c \in Client}
File  == PeerFiles \cup TrustFiles \cup {Secret, Shadow, ConfigFile, Export}
Value == Ticket \cup Key \cup {c : c \in SUBSET Field} \cup {PubKey, Hash}

ASSUME StorageAssumption ==
    /\ MaxJournal \in Nat
    /\ \A v \in Value : v # NoFile /\ v # Torn
    /\ NoFile # Torn
    /\ \A f \in File : f # NoFile

VARIABLES
    area,      \* the part of the directory the commands are about: parts share no file
    files,     \* File -> content, as every process sees it
    disk,      \* File -> content, as a power loss would leave it
    journal,   \* changes of the directory not yet on the disk
    loose,     \* files whose content was not synced before it got its name
    trustDir,  \* the trust directory exists
    tmp,       \* Proc -> the temporary file it has open
    proc,      \* Proc -> the command it runs
    gone       \* tickets somebody removed or wrote over (history)

vars == <<area, files, disk, journal, loose, trustDir, tmp, proc, gone>>

Content == Value \cup {NoFile}
NoTmp   == [named |-> FALSE, data |-> NoFile, synced |-> FALSE, strict |-> FALSE]
Idle    == [op |-> "none", pc |-> "idle", file |-> NoFile, from |-> NoFile,
            to |-> NoFile, data |-> NoFile, todo |-> {}, seen |-> {}, met |-> {}]

Writing == {"ensure", "create", "perms", "write", "sync", "rename"}

Init ==
    /\ area \in {"identity", "peers", "vault", "config"}
    /\ files = [f \in File |-> NoFile]
    /\ disk = files
    /\ journal = <<>>
    /\ loose = {}
    /\ trustDir = FALSE
    /\ tmp = [p \in Proc |-> NoTmp]
    /\ proc = [p \in Proc |-> Idle]
    /\ gone = {}

-----------------------------------------------------------------------------
(* The directory *)

(* A change of the directory, seen by all at once and by the disk later.
   met remembers, for a command that spans several changes, what others
   changed meanwhile: for a rename whether they did, for a reset the files,
   counted afresh once the directory is removed. *)
Change(p, f, v, r) ==
    /\ files' = [files EXCEPT ![f] = v]
    /\ journal' = Append(journal, [file |-> f, to |-> v])
    /\ Len(journal) < MaxJournal
    /\ proc' = [q \in Proc |->
                  IF q = p THEN r
                  ELSE CASE proc[q].op = "Reset"  -> [proc[q] EXCEPT !.met = @ \cup {f}]
                         [] proc[q].op = "Rename" -> [proc[q] EXCEPT !.met = {proc[q].to}]
                         [] OTHER                 -> proc[q]]

Become(p, r) == proc' = [proc EXCEPT ![p] = r]

(* The file system writes back the oldest change. *)
Persist ==
    /\ journal # <<>>
    /\ disk' = [disk EXCEPT ![Head(journal).file] = Head(journal).to]
    /\ journal' = Tail(journal)
    /\ UNCHANGED <<area, files, loose, trustDir, tmp, proc, gone>>

(* All processes die and the directory is what the disk holds; a file that
   was named before its data was synced may hold part of it. *)
PowerLoss ==
    /\ \E torn \in SUBSET {f \in loose : disk[f] # NoFile} :
          disk' = [f \in File |-> IF f \in torn THEN Torn ELSE disk[f]]
    /\ files' = disk'
    /\ journal' = <<>>
    /\ loose' = {}
    /\ trustDir' \in {b \in BOOLEAN : (\E f \in TrustFiles : disk[f] # NoFile) => b}
    /\ tmp' = [p \in Proc |-> NoTmp]
    /\ proc' = [p \in Proc |-> Idle]
    /\ UNCHANGED <<area, gone>>

(* A process dies; its temporary file stays, under a name nobody lists. *)
Crash(p) ==
    /\ proc[p] # Idle
    /\ Become(p, Idle)
    /\ tmp' = [tmp EXCEPT ![p] = NoTmp]
    /\ UNCHANGED <<area, files, disk, journal, loose, trustDir, gone>>

-----------------------------------------------------------------------------
(* atomic_write_secure *)

(* Only the trust directory is ever removed, by reset_vault: for the others
   to ensure it exists changes nothing after the first time. *)
Write(r, f, v) ==
    [r EXCEPT !.pc = IF f \in TrustFiles THEN "ensure" ELSE "create", !.file = f, !.data = v]

(* What the command does once its file is written: a rotation reads the
   identity back, a rename goes on to remove the old profile. *)
Written(r) ==
    CASE r.op = "Rotate" -> [Idle EXCEPT !.op = "Start", !.pc = "exists", !.file = Secret]
      [] r.op = "Rename" -> [r EXCEPT !.pc = "remove", !.file = r.from]
      [] OTHER           -> Idle

EnsureDir(p) ==
    /\ proc[p].pc = "ensure"
    /\ trustDir' = TRUE
    /\ Become(p, [proc[p] EXCEPT !.pc = "create"])
    /\ UNCHANGED <<area, files, disk, journal, loose, tmp, gone>>

CreateTmp(p) ==
    /\ proc[p].pc = "create"
    /\ proc[p].file \in TrustFiles => trustDir
    /\ tmp' = [tmp EXCEPT ![p] = [NoTmp EXCEPT !.named = TRUE]]
    /\ Become(p, [proc[p] EXCEPT !.pc = "perms"])
    /\ UNCHANGED <<area, files, disk, journal, loose, trustDir, gone>>

ApplyPermissions(p) ==
    /\ proc[p].pc = "perms"
    /\ tmp[p].named
    /\ tmp' = [tmp EXCEPT ![p].strict = TRUE]
    /\ Become(p, [proc[p] EXCEPT !.pc = "write"])
    /\ UNCHANGED <<area, files, disk, journal, loose, trustDir, gone>>

\* mutant: the data is renamed into place unsynced
WriteData_NoSync(p) ==
    /\ proc[p].pc = "write"
    /\ tmp' = [tmp EXCEPT ![p].data = proc[p].data]
    /\ Become(p, [proc[p] EXCEPT !.pc = "rename"])
    /\ UNCHANGED <<area, files, disk, journal, loose, trustDir, gone>>

WriteData(p) ==
    /\ proc[p].pc = "write"
    /\ tmp' = [tmp EXCEPT ![p].data = proc[p].data]
    /\ Become(p, [proc[p] EXCEPT !.pc = "sync"])
    /\ UNCHANGED <<area, files, disk, journal, loose, trustDir, gone>>

SyncData(p) ==
    /\ proc[p].pc = "sync"
    /\ tmp' = [tmp EXCEPT ![p].synced = TRUE]
    /\ Become(p, [proc[p] EXCEPT !.pc = "rename"])
    /\ UNCHANGED <<area, files, disk, journal, loose, trustDir, gone>>

\* mutant: writers of one file share the name of the temporary file
RenameTmp_SharedName(p) ==
    /\ proc[p].pc = "rename"
    /\ \E q \in Proc :
          /\ tmp[q].named /\ proc[q].file = proc[p].file
          /\ Change(p, proc[p].file, tmp[q].data, Written(proc[p]))
    /\ tmp' = [tmp EXCEPT ![p] = NoTmp]
    /\ UNCHANGED <<area, disk, trustDir, loose, gone>>

RenameTmp(p) ==
    /\ proc[p].pc = "rename"
    /\ tmp[p].named
    /\ Change(p, proc[p].file, tmp[p].data, Written(proc[p]))
    /\ loose' = IF tmp[p].synced THEN loose \ {proc[p].file} ELSE loose \cup {proc[p].file}
    /\ gone' = gone \cup ({files[proc[p].file]} \cap (Ticket \ {tmp[p].data}))
    /\ tmp' = [tmp EXCEPT ![p] = NoTmp]
    /\ UNCHANGED <<area, disk, trustDir>>

\* mutant: nobody looks whether the save failed
WriteFails_Ignored(p) ==
    /\ proc[p].pc \in Writing
    /\ tmp' = [tmp EXCEPT ![p] = NoTmp]
    /\ Become(p, Written(proc[p]))
    /\ UNCHANGED <<area, files, disk, journal, loose, trustDir, gone>>

(* Any call of the write may fail (the disk is full, the directory or the
   temporary file is no longer there): the temporary file is removed and the
   command ends with the error. *)
WriteFails(p) ==
    /\ proc[p].pc \in Writing
    /\ tmp' = [tmp EXCEPT ![p] = NoTmp]
    /\ Become(p, Idle)
    /\ UNCHANGED <<area, files, disk, journal, loose, trustDir, gone>>

-----------------------------------------------------------------------------
(* What a command does with the content v it loaded, NoFile if there is none:
   the record it goes on with.  Several where it draws a value. *)

FreshKey ==
    {k \in Key : /\ k \notin {files[Secret], disk[Secret]}
                 /\ \A q \in Proc : proc[q].data # k
                 /\ \A i \in 1..Len(journal) : journal[i].to # k}

(* load_or_generate_identity *)
IdentityLoaded(r, v) ==
    IF v = NoFile THEN {Write(r, Secret, k) : k \in FreshKey} ELSE {Idle}

(* save_peer, which also refuses the names validate_peer_name refuses. *)
SavePeer(r, t) == {Write(r, r.to, t), Idle}

(* irosh peer add: a name that is taken ends it. *)
AddLoaded(r, v) == IF v = NoFile THEN SavePeer(r, r.data) ELSE {Idle}

(* irosh peer rename: first the new name is looked up, unless it is the old
   one, and must be free; then the profile is loaded and saved. *)
RenameLoaded(r, v) ==
    IF r.file = r.to /\ r.to # r.from
    THEN {IF v = NoFile THEN [r EXCEPT !.pc = "exists", !.file = r.from] ELSE Idle}
    ELSE IF v = NoFile THEN {Idle} ELSE SavePeer(r, v)

(* load_config gives the default, no setting at all, when there is no file. *)
Config(v) == IF v = NoFile THEN {} ELSE v

(* irosh config set: the whole configuration, with one setting changed. *)
SetLoaded(r, v) ==
    {Write(r, ConfigFile, c) : c \in {Config(v) \cup r.todo, Config(v) \ r.todo}}

(* irosh config export loads the configuration a second time and writes it
   out; import goes on to the file it was given. *)
ExportLoaded(r, v) ==
    {IF r.from = NoFile THEN [r EXCEPT !.pc = "exists", !.from = ConfigFile]
     ELSE Write(r, Export, Config(v))}

ImportLoaded(r, v) == {Write(r, ConfigFile, c) : c \in SUBSET Field} \cup {Idle}

Loaded(r, v) ==
    CASE r.op = "Start"  -> IdentityLoaded(r, v)
      [] r.op = "Add"    -> AddLoaded(r, v)
      [] r.op = "Rename" -> RenameLoaded(r, v)
      [] r.op = "Set"    -> SetLoaded(r, v)
      [] r.op = "Export" -> ExportLoaded(r, v)
      [] r.op = "Import" -> ImportLoaded(r, v)
      [] OTHER           -> {Idle}

(* Every load asks whether the file exists and then reads it: a file removed
   in between is an error, not an absence. *)
Exists(p) ==
    /\ proc[p].pc = "exists"
    /\ IF files[proc[p].file] = NoFile
       THEN \E r \in Loaded(proc[p], NoFile) : Become(p, r)
       ELSE Become(p, [proc[p] EXCEPT !.pc =
                         IF proc[p].op \in {"Unset", "Reset"} THEN "remove" ELSE "read"])
    /\ UNCHANGED <<area, files, disk, journal, loose, trustDir, tmp, gone>>

Read(p) ==
    /\ proc[p].pc = "read"
    /\ IF files[proc[p].file] \in {NoFile, Torn}
       THEN Become(p, Idle)
       ELSE \E r \in Loaded(proc[p], files[proc[p].file]) : Become(p, r)
    /\ UNCHANGED <<area, files, disk, journal, loose, trustDir, tmp, gone>>

(* delete_peer, remove_if_exists, delete_shadow_file: a file that is already
   gone changes nothing.  A rename nobody disturbed removes a name whose
   ticket it has just saved under another. *)
RemoveFile(p) ==
    LET r == proc[p] IN
    /\ r.pc = "remove"
    /\ IF files[r.file] = NoFile
       THEN Become(p, Idle) /\ UNCHANGED <<files, journal>>
       ELSE Change(p, r.file, NoFile, Idle)
    /\ gone' = IF r.op = "Rename" /\ r.from # r.to /\ r.met = {}
               THEN gone ELSE gone \cup ({files[r.file]} \cap Ticket)
    /\ UNCHANGED <<area, disk, loose, trustDir, tmp>>

-----------------------------------------------------------------------------
(* Listings *)

Listed(r) == IF r.op \in {"Revoke", "Devices", "Inspect"} THEN TrustFiles ELSE PeerFiles

ReadDir(p) ==
    /\ proc[p].pc = "list"
    /\ Become(p, [proc[p] EXCEPT !.pc = "each",
                                 !.todo = {f \in Listed(proc[p]) : files[f] # NoFile}])
    /\ UNCHANGED <<area, files, disk, journal, loose, trustDir, tmp, gone>>

(* The next entry.  list_peers and inspect_trust ask whether it is still
   there before they read it, load_all_authorized_clients only reads. *)
NextEntry(p) ==
    /\ proc[p].pc = "each"
    /\ \E f \in proc[p].todo :
          Become(p, IF files[f] = NoFile /\ proc[p].op \notin {"Revoke", "Devices"}
                    THEN [proc[p] EXCEPT !.todo = @ \ {f}]
                    ELSE [proc[p] EXCEPT !.pc = "entry", !.file = f, !.todo = @ \ {f}])
    /\ UNCHANGED <<area, files, disk, journal, loose, trustDir, tmp, gone>>

(* An entry that is gone by now ends list_peers and inspect_trust with an
   error; load_all_authorized_clients skips it. *)
ReadEntry(p) ==
    LET r == proc[p] IN
    /\ r.pc = "entry"
    /\ Become(p, IF files[r.file] # NoFile
                 THEN [r EXCEPT !.pc = "each", !.seen = @ \cup {r.file}]
                 ELSE IF r.op \in {"Revoke", "Devices"} THEN [r EXCEPT !.pc = "each"]
                 ELSE Idle)
    /\ UNCHANGED <<area, files, disk, journal, loose, trustDir, tmp, gone>>

(* The user picks an entry, or nothing.  revoke and remove go on to remove
   it, rename and info to load it. *)
Picked(r, f) ==
    CASE r.op \in {"Revoke", "Remove"} -> [r EXCEPT !.pc = "remove", !.file = f, !.seen = {}]
      [] r.op = "Info"   -> [r EXCEPT !.pc = "exists", !.file = f, !.seen = {}]
      [] r.op = "Rename" -> [r EXCEPT !.pc = "exists", !.from = f, !.file = r.to, !.seen = {}]
      [] OTHER           -> Idle

Pick(p) ==
    /\ proc[p].pc = "each" /\ proc[p].todo = {}
    /\ \/ \E f \in proc[p].seen : Become(p, Picked(proc[p], f))
       \/ Become(p, Idle)
    /\ UNCHANGED <<area, files, disk, journal, loose, trustDir, tmp, gone>>

-----------------------------------------------------------------------------
(* reset_vault: remove_dir_all on the trust directory, then the shadow file *)

InTrust(q) == tmp[q].named /\ proc[q].file \in TrustFiles
TrustEmpty == (\A f \in TrustFiles : files[f] = NoFile) /\ (\A q \in Proc : ~InTrust(q))

(* remove_dir_all unlinks one entry, a temporary file of a writer too. *)
ResetEntry(p) ==
    /\ proc[p].pc = "rmtree"
    /\ \/ \E f \in TrustFiles :
            /\ files[f] # NoFile
            /\ Change(p, f, NoFile, [proc[p] EXCEPT !.todo = @ \ {f}])
            /\ UNCHANGED tmp
       \/ \E q \in Proc :
            /\ InTrust(q)
            /\ tmp' = [tmp EXCEPT ![q].named = FALSE]
            /\ UNCHANGED <<files, journal, proc>>
    /\ UNCHANGED <<area, disk, loose, trustDir, gone>>

\* mutant: the error of remove_dir_all is dropped
ResetDir_Careless(p) ==
    /\ proc[p].pc = "rmtree"
    /\ \A f \in proc[p].todo : files[f] = NoFile
    /\ Become(p, [proc[p] EXCEPT !.pc = "exists", !.file = Shadow, !.todo = {}, !.met = {}])
    /\ trustDir' = (trustDir /\ ~TrustEmpty)
    /\ UNCHANGED <<area, files, disk, journal, loose, tmp, gone>>

(* It removes the directory once the entries it listed are gone, and fails
   if another has appeared.  No directory is no error. *)
ResetDir(p) ==
    /\ proc[p].pc = "rmtree"
    /\ \A f \in proc[p].todo : files[f] = NoFile
    /\ IF TrustEmpty
       THEN Become(p, [proc[p] EXCEPT !.pc = "exists", !.file = Shadow, !.todo = {}, !.met = {}])
       ELSE Become(p, Idle)
    /\ trustDir' = (trustDir /\ ~TrustEmpty)
    /\ UNCHANGED <<area, files, disk, journal, loose, tmp, gone>>

-----------------------------------------------------------------------------
(* Commands *)

(* irosh identity show, and every start of a daemon or a client. *)
StartCommand == {[Idle EXCEPT !.op = "Start", !.pc = "exists", !.file = Secret]}

\* mutant: a rotation removes the key and lets the next load make one
RotateCommand_DeleteFirst ==
    {[Idle EXCEPT !.op = "Rotate", !.pc = "remove", !.file = Secret]}

(* rotate_identity: save_secret_key with a new key over the old one. *)
RotateCommand == {Write([Idle EXCEPT !.op = "Rotate"], Secret, k) : k \in FreshKey}

ListCommand == {[Idle EXCEPT !.op = "List", !.pc = "list"]}

Adding(f, t) == [Idle EXCEPT !.op = "Add", !.pc = "exists", !.file = f, !.to = f, !.data = t]
AddCommand == {Adding(f, t) : f \in PeerFiles, t \in Ticket}

(* The name is given, or picked from a list. *)
RemoveCommand ==
    {[Idle EXCEPT !.op = "Remove", !.pc = "list"]}
    \cup {[Idle EXCEPT !.op = "Remove", !.pc = "remove", !.file = f] : f \in PeerFiles}

InfoCommand ==
    {[Idle EXCEPT !.op = "Info", !.pc = "list"]}
    \cup {[Idle EXCEPT !.op = "Info", !.pc = "exists", !.file = f] : f \in PeerFiles}

RenamingPicked(g) == [Idle EXCEPT !.op = "Rename", !.pc = "list", !.to = g]
Renaming(f, g) ==
    [Idle EXCEPT !.op = "Rename", !.pc = "exists", !.file = g, !.from = f, !.to = g]
RenameCommand ==
    {RenamingPicked(g) : g \in PeerFiles} \cup {Renaming(f, g) : f \in PeerFiles, g \in PeerFiles}

(* write_authorized_client and write_known_server, on behalf of a daemon or
   a client: the two differ in the directory only. *)
AuthorizeCommand == {Write([Idle EXCEPT !.op = "Authorize"], f, PubKey) : f \in TrustFiles}

DevicesCommand == {[Idle EXCEPT !.op = "Devices", !.pc = "list"]}
RevokeCommand  == {[Idle EXCEPT !.op = "Revoke", !.pc = "list"]}
InspectCommand == {[Idle EXCEPT !.op = "Inspect", !.pc = "list"]}

ResetCommand ==
    {[Idle EXCEPT !.op = "Reset", !.pc = "rmtree",
                  !.todo = {f \in TrustFiles : files[f] # NoFile}]}

PasswdCommand == {Write([Idle EXCEPT !.op = "Passwd"], Shadow, Hash)}
UnsetCommand  == {[Idle EXCEPT !.op = "Unset", !.pc = "exists", !.file = Shadow]}
StatusCommand == {[Idle EXCEPT !.op = "Status", !.pc = "exists", !.file = Shadow]}

(* config's exec loads the configuration before it looks at the command. *)
LoadConfig(o)  == [Idle EXCEPT !.op = o, !.pc = "exists", !.file = ConfigFile]
GetCommand     == {LoadConfig("Get")}
SetCommand     == {[LoadConfig("Set") EXCEPT !.todo = {k}] : k \in Field}
ExportCommand  == {LoadConfig("Export")}
ImportCommand  == {LoadConfig("Import")}

Commands ==
    CASE area = "identity" -> StartCommand \cup RotateCommand
      [] area = "peers"    -> ListCommand \cup AddCommand \cup RemoveCommand
                              \cup InfoCommand \cup RenameCommand
      [] area = "vault"    -> AuthorizeCommand \cup DevicesCommand \cup RevokeCommand
                              \cup InspectCommand \cup ResetCommand \cup PasswdCommand
                              \cup UnsetCommand \cup StatusCommand
      [] area = "config"   -> GetCommand \cup SetCommand \cup ExportCommand \cup ImportCommand

Begin(p) ==
    /\ proc[p] = Idle
    /\ \E r \in Commands : Become(p, r)
    /\ UNCHANGED <<area, files, disk, journal, loose, trustDir, tmp, gone>>

Next ==
    \/ Persist \/ PowerLoss
    \/ \E p \in Proc :
          \/ Begin(p) \/ Crash(p)
          \/ EnsureDir(p) \/ CreateTmp(p) \/ ApplyPermissions(p) \/ WriteData(p)
          \/ SyncData(p) \/ RenameTmp(p) \/ WriteFails(p)
          \/ Exists(p) \/ Read(p) \/ RemoveFile(p)
          \/ ReadDir(p) \/ NextEntry(p) \/ ReadEntry(p) \/ Pick(p)
          \/ ResetEntry(p) \/ ResetDir(p)

Spec == Init /\ [][Next]_vars

-----------------------------------------------------------------------------
(* Properties *)

CommandOK(r) ==
    /\ r.file \in File \cup {NoFile}
    /\ r.from \in File \cup {NoFile}
    /\ r.to \in File \cup {NoFile}
    /\ r.data \in Value \cup {NoFile}
    /\ r.seen \subseteq File
    /\ r.met \subseteq File

TypeOK ==
    /\ files \in [File -> Content]
    /\ disk \in [File -> Content]
    /\ journal \in Seq([file : File, to : Content])
    /\ Len(journal) <= MaxJournal
    /\ loose \subseteq File
    /\ trustDir \in BOOLEAN
    /\ \A p \in Proc : CommandOK(proc[p])
    /\ gone \subseteq Ticket

(* The directory as the promise of AtomicFiles sees it: a process waits for
   its replacement from the moment it enters atomic_write_secure until the
   rename. *)
Asked(p) ==
    IF proc[p].pc \in Writing
    THEN [file |-> proc[p].file, data |-> proc[p].data]
    ELSE [file |-> NoFile, data |-> NoFile]

AF == INSTANCE AtomicFiles WITH now <- files, kept <- disk, log <- journal,
                                ask <- [p \in Proc |-> Asked(p)]

(* The commands together keep the promise of AtomicFiles: whatever they
   interleave with and wherever they fail, die or lose power, a file changes
   only by receiving, whole and at once, the content some process is in the
   middle of writing, or by being removed; a power loss restores an earlier
   state of the directory (atomic_write_secure). *)
FilesAtomic == AF!Spec

(* No temporary file holds data while its permissions are still those the
   umask gave it (step 3 before step 4 of atomic_write_secure). *)
PrivateBeforeData == \A p \in Proc : tmp[p].data # NoFile => tmp[p].strict

(* That, and no content is ever other than whole (TypeOK). *)
FilesSound == TypeOK /\ PrivateBeforeData

(* A node that has an identity on its disk never finds itself without one:
   not when a rotation fails, dies or loses power half way, and not when
   several processes start and rotate at once (rotate_identity). *)
NodeKeepsIdentity == [][disk[Secret] # NoFile => disk'[Secret] # NoFile]_vars

OnDisk(d, t) == \E f \in PeerFiles : d[f] = t

(* A profile never drops off the disk because a rename was cut short: it
   goes only when a command removed it or wrote over it, or when a rename
   met another command on its way or was given the same name twice
   (rename_peer). *)
ProfilesKept == [][\A t \in Ticket \ gone' : OnDisk(disk, t) => OnDisk(disk', t)]_vars

(* When a reset goes on to remove the password, every trust record in the
   vault was written after the trust directory was removed: a reset never
   goes on, let alone reports success, over a record it was meant to wipe
   (reset_vault). *)
ResetWipes ==
    \A p \in Proc : proc[p].op = "Reset" /\ proc[p].pc \in {"exists", "remove"} =>
        \A f \in TrustFiles : files[f] # NoFile => f \in proc[p].met
=============================================================================
