--------------------------- MODULE StorageProofs ---------------------------
(***************************************************************************)
(* The state directory, for every number of processes, names, tickets,     *)
(* clients and settings: no content is ever other than whole, the commands *)
(* implement AtomicFiles, a node keeps its identity, an interrupted rename *)
(* loses no profile and a reset never goes on over a record it was to wipe.*)
(***************************************************************************)
EXTENDS Storage, SequenceTheorems, TLAPS

-----------------------------------------------------------------------------
(* The inductive invariant *)

\* What a file holds when it exists: load_config, load_peer and the others
\* rely on reading back the kind of content their own saves wrote.
Holds(f, v) ==
  /\ v \in Value
  /\ f = Secret => v \in Key
  /\ f \in PeerFiles => v \in Ticket
  /\ f \in {ConfigFile, Export} => v \in SUBSET Field

HoldsOrNot(f, v) == v = NoFile \/ Holds(f, v)

\* The files a command opens by name.
OpensFile(o, f) ==
  /\ f \in File
  /\ o \in {"Start", "Rotate"} => f = Secret
  /\ o \in {"List", "Add", "Remove", "Info", "Rename"} => f \in PeerFiles
  /\ o \in {"Authorize", "Devices", "Revoke", "Inspect"} => f \in TrustFiles
  /\ o \in {"Passwd", "Unset", "Status", "Reset"} => f = Shadow
  /\ o \in {"Get", "Set", "Export", "Import"} => f \in {ConfigFile, Export}

Ops == {"none", "Start", "Rotate", "List", "Add", "Remove", "Info", "Rename", "Authorize",
        "Devices", "Revoke", "Inspect", "Passwd", "Unset", "Status", "Reset",
        "Get", "Set", "Export", "Import"}
Listings == {"List", "Remove", "Info", "Rename", "Devices", "Revoke", "Inspect"}
Removals == {"Remove", "Rename", "Revoke", "Unset", "Reset"}
Others   == {"idle", "exists", "read", "remove", "list", "each", "entry", "rmtree"}

Command == [op : Ops, pc : Writing \cup Others, file : File \cup {NoFile},
            from : File \cup {NoFile}, to : File \cup {NoFile}, data : Content,
            todo : SUBSET (File \cup Field), seen : SUBSET File, met : SUBSET File]
Tmp == [named : BOOLEAN, data : Content, synced : BOOLEAN, strict : BOOLEAN]

\* Where a command is tells what it has found out so far.
CommandInv(r) ==
  /\ r \in Command
  /\ r.op = "none" <=> r = Idle
  /\ r.pc = "idle" <=> r = Idle
  /\ r.pc \in Writing \cup {"exists", "read", "remove", "entry"} => OpensFile(r.op, r.file)
  /\ r.pc \in Writing => Holds(r.file, r.data)
  /\ r.pc \in {"list", "each", "entry"} => r.op \in Listings
  /\ r.pc \in {"list", "each", "entry"} => \A f \in r.todo \cup r.seen : OpensFile(r.op, f)
  /\ r.pc = "remove" => r.op \in Removals
  /\ r.pc = "rmtree" => r.op = "Reset"
  /\ r.op = "Reset" => r.pc \notin Writing
  /\ r.op = "Add" => r.to \in PeerFiles /\ r.data \in Ticket
  /\ r.op = "Rename" => r.to \in PeerFiles
  /\ r.op = "Rename" /\ r.pc \notin {"list", "each", "entry"} => r.from \in PeerFiles
  /\ r.op = "Set" => r.todo \subseteq Field

\* The temporary file of a command: private before it holds data, the whole
\* data and synced before it is renamed.
Opened == {"perms", "write", "sync", "rename"}

TmpInv(r, t) ==
  /\ t \in Tmp
  /\ r.pc \notin Opened => t = NoTmp
  /\ r.pc \in {"perms", "write"} => t.data = NoFile
  /\ r.pc \in {"write", "sync", "rename"} => t.strict
  /\ r.pc \in {"sync", "rename"} => t.data = r.data
  /\ r.pc = "rename" => t.synced

\* The directory.  No file is ever loose, so a power loss tears none, and no
\* change removes the identity.
DirInv ==
  /\ area \in {"identity", "peers", "vault", "config"}
  /\ files \in [File -> Content] /\ disk \in [File -> Content]
  /\ \A f \in File : HoldsOrNot(f, files[f]) /\ HoldsOrNot(f, disk[f])
  /\ journal \in Seq([file : File, to : Content]) /\ Len(journal) <= MaxJournal
  /\ \A i \in 1 .. Len(journal) :
       /\ HoldsOrNot(journal[i].file, journal[i].to)
       /\ journal[i].file = Secret => journal[i].to # NoFile
  /\ loose = {}
  /\ trustDir \in BOOLEAN
  /\ gone \subseteq Ticket

StoreInv ==
  /\ DirInv
  /\ proc \in [Proc -> Command] /\ tmp \in [Proc -> Tmp]
  /\ \A p \in Proc : CommandInv(proc[p]) /\ TmpInv(proc[p], tmp[p])

-----------------------------------------------------------------------------
(* Commands *)

\* The kinds of file have different names.
LEMMA FilesDiffer ==
  /\ Secret \in File /\ Shadow \in File /\ ConfigFile \in File /\ Export \in File
  /\ PeerFiles \subseteq File /\ TrustFiles \subseteq File
  /\ Secret \notin PeerFiles \cup TrustFiles \cup {Shadow, ConfigFile, Export}
  /\ Shadow \notin PeerFiles \cup TrustFiles \cup {ConfigFile, Export}
  /\ ConfigFile \notin PeerFiles \cup TrustFiles
  /\ Export \notin PeerFiles \cup TrustFiles
  /\ PeerFiles \cap TrustFiles = {}
<1>1. /\ \A f \in PeerFiles : f[1] = "peers"
      /\ \A f \in TrustFiles : f[1] = "clients"
      /\ Secret[1] = "keys" /\ Shadow[1] = "shadow"
      /\ ConfigFile[1] = "irosh.json" /\ Export[1] = "export"
  BY DEF Secret, Shadow, ConfigFile, Export, PeerFiles, TrustFiles, PeerFile, ClientFile
<1> QED
  BY <1>1 DEF File

\* Contents, and the marks for what is no content.
LEMMA Marks ==
  /\ NoFile \notin Value /\ NoFile \notin File /\ Torn \notin Content
  /\ Ticket \subseteq Value /\ Key \subseteq Value /\ SUBSET Field \subseteq Value
  /\ PubKey \in Value /\ Hash \in Value
  BY StorageAssumption DEF Value, Content

LEMMA IdleInv == CommandInv(Idle) /\ TmpInv(Idle, NoTmp)
  BY Marks
  DEF CommandInv, Command, Idle, TmpInv, Tmp, NoTmp, Content, Ops, Others, Writing, Opened,
      Listings, Removals

\* A command that goes on to write a file of its own, with the content that
\* file is for.
LEMMA WriteInv ==
  ASSUME NEW r, CommandInv(r), r.op # "none", r.op # "Reset",
         NEW f, OpensFile(r.op, f), NEW v, Holds(f, v),
         r.op = "Add" => v \in Ticket,
         r.op = "Rename" => r.from \in PeerFiles
  PROVE  /\ CommandInv(Write(r, f, v)) /\ Write(r, f, v).pc \in {"ensure", "create"}
         /\ Write(r, f, v).op = r.op
<1> DEFINE w == Write(r, f, v)
<1>1. /\ w = [r EXCEPT !.pc = w.pc, !.file = f, !.data = v]
      /\ w.pc \in {"ensure", "create"}
  BY DEF Write, CommandInv, Command
<1>2. w \in Command
  BY <1>1 DEF CommandInv, Command, OpensFile, Holds, Content, Writing
<1>3. w.op = r.op /\ w.file = f /\ w.data = v /\ w.to = r.to /\ w.from = r.from /\ w.todo = r.todo
  BY <1>1 DEF CommandInv, Command
<1>4. w.pc \in Writing /\ w # Idle
  BY <1>1, <1>3 DEF Writing, Idle
<1> HIDE DEF w
<1>5. CommandInv(w)
  BY <1>1, <1>2, <1>3, <1>4, Marks DEF CommandInv, Writing
<1> QED
  BY <1>1, <1>3, <1>5 DEF w

\* What a command goes on with after a load, whatever it loaded.
LEMMA LoadedInv ==
  ASSUME StoreInv, NEW r, CommandInv(r), r.pc \in {"exists", "read"},
         NEW v, HoldsOrNot(r.file, v),
         NEW s \in Loaded(r, v)
  PROVE  /\ CommandInv(s) /\ s.pc \notin Opened
         /\ r.op # "Reset" => s.op # "Reset"
         /\ r.op = "Reset" => s = Idle
<1> DEFINE Good(x) == CommandInv(x) /\ x.pc \notin Opened /\ (r.op # "Reset" => x.op # "Reset")
                      /\ (r.op = "Reset" => x = Idle)
<1>1. Good(Idle)
  BY IdleInv DEF Idle, Opened
<1>2. OpensFile(r.op, r.file) /\ r.op \in Ops /\ r.op # "none"
  BY DEF CommandInv, Command, Idle
<1>3. ASSUME NEW f, OpensFile(r.op, f), NEW w, Holds(f, w), r.op # "Reset",
             r.op = "Add" => w \in Ticket
      PROVE  Good(Write(r, f, w))
  <2>1. r.op = "Rename" => r.from \in PeerFiles
    BY DEF CommandInv
  <2>2. /\ CommandInv(Write(r, f, w)) /\ Write(r, f, w).pc \in {"ensure", "create"}
        /\ Write(r, f, w).op = r.op
    BY <1>2, <1>3, <2>1, WriteInv
  <2> QED
    BY <1>3, <2>2 DEF Opened
<1>4. CASE r.op = "Start"
  <2>1. s \in IdentityLoaded(r, v)
    BY <1>4 DEF Loaded
  <2>2. \A k \in Key : Holds(Secret, k) /\ OpensFile(r.op, Secret)
    BY <1>4, FilesDiffer, Marks DEF Holds, OpensFile
  <2> QED
    BY <1>1, <1>3, <1>4, <2>1, <2>2 DEF IdentityLoaded, FreshKey
<1>5. CASE r.op = "Add"
  <2>1. s \in AddLoaded(r, v)
    BY <1>5 DEF Loaded
  <2>2. Holds(r.to, r.data) /\ OpensFile(r.op, r.to) /\ r.data \in Ticket
    BY <1>5, FilesDiffer, Marks DEF Holds, OpensFile, CommandInv
  <2> QED
    BY <1>1, <1>3, <1>5, <2>1, <2>2 DEF AddLoaded, SavePeer
<1>6. CASE r.op = "Rename"
  <2>1. s \in RenameLoaded(r, v)
    BY <1>6 DEF Loaded
  <2>2. r.file \in PeerFiles /\ r.from \in PeerFiles /\ r.to \in PeerFiles
    BY <1>2, <1>6 DEF CommandInv, OpensFile
  <2>3. ASSUME s = [r EXCEPT !.pc = "exists", !.file = r.from]
        PROVE  Good(s)
    <3>1. s \in Command /\ s.op = r.op /\ s.pc = "exists" /\ s.file = r.from /\ s.to = r.to
          /\ s.from = r.from /\ s # Idle
      BY <2>2, <2>3, <1>6, FilesDiffer DEF CommandInv, Command, Idle, Others
    <3>2. OpensFile(s.op, s.file)
      BY <1>6, <2>2, <3>1, FilesDiffer DEF OpensFile
    <3> QED
      BY <1>6, <2>2, <3>1, <3>2 DEF CommandInv, Writing, Opened
  <2>4. CASE r.file = r.to /\ r.to # r.from
    BY <1>1, <2>1, <2>3, <2>4 DEF RenameLoaded
  <2>5. CASE ~(r.file = r.to /\ r.to # r.from)
    <3>1. v # NoFile => Holds(r.to, v) /\ OpensFile(r.op, r.to)
      BY <1>6, <2>2, FilesDiffer DEF HoldsOrNot, Holds, OpensFile
    <3> QED
      BY <1>1, <1>3, <1>6, <2>1, <2>5, <3>1 DEF RenameLoaded, SavePeer
  <2> QED
    BY <2>4, <2>5
<1>7. CASE r.op = "Set"
  <2>1. s \in SetLoaded(r, v)
    BY <1>7 DEF Loaded
  <2>2. Config(v) \in SUBSET Field /\ r.todo \in SUBSET Field
    BY <1>2, <1>7 DEF Config, HoldsOrNot, Holds, OpensFile, CommandInv
  <2>3. \A c \in SUBSET Field : Holds(ConfigFile, c) /\ OpensFile(r.op, ConfigFile)
    BY <1>7, FilesDiffer, Marks DEF Holds, OpensFile
  <2> QED
    BY <1>3, <1>7, <2>1, <2>2, <2>3 DEF SetLoaded
<1>8. CASE r.op = "Export"
  <2>1. s \in ExportLoaded(r, v)
    BY <1>8 DEF Loaded
  <2>2. Config(v) \in SUBSET Field
    BY <1>2, <1>8 DEF Config, HoldsOrNot, Holds, OpensFile
  <2>3. Holds(Export, Config(v)) /\ OpensFile(r.op, Export)
    BY <1>8, <2>2, FilesDiffer, Marks DEF Holds, OpensFile
  <2>4. ASSUME s = [r EXCEPT !.pc = "exists", !.from = ConfigFile]
        PROVE  Good(s)
    <3>1. s \in Command /\ s.op = r.op /\ s.pc = "exists" /\ s.file = r.file /\ s # Idle
      BY <1>8, <2>4, FilesDiffer DEF CommandInv, Command, Idle, Others
    <3> QED
      BY <1>2, <1>8, <3>1 DEF CommandInv, Writing, Opened
  <2> QED
    BY <1>3, <1>8, <2>1, <2>3, <2>4 DEF ExportLoaded
<1>9. CASE r.op = "Import"
  <2>1. s \in ImportLoaded(r, v)
    BY <1>9 DEF Loaded
  <2>2. \A c \in SUBSET Field : Holds(ConfigFile, c) /\ OpensFile(r.op, ConfigFile)
    BY <1>9, FilesDiffer, Marks DEF Holds, OpensFile
  <2> QED
    BY <1>1, <1>3, <1>9, <2>1, <2>2 DEF ImportLoaded
<1>10. CASE r.op \notin {"Start", "Add", "Rename", "Set", "Export", "Import"}
  BY <1>1, <1>10 DEF Loaded
<1> QED
  BY <1>4, <1>5, <1>6, <1>7, <1>8, <1>9, <1>10

\* Every command starts well formed; a reset starts with the directory and a
\* rename with a lookup.
LEMMA CommandsInv ==
  ASSUME StoreInv, NEW r \in Commands
  PROVE  /\ CommandInv(r) /\ r.pc \notin Opened
         /\ r.op = "Reset" => r.pc = "rmtree"
         /\ r.op = "Rename" => r.pc = "list" \/ (r.pc = "exists" /\ r.file = r.to)
<1> DEFINE Good == /\ CommandInv(r) /\ r.pc \notin Opened
                   /\ r.op = "Reset" => r.pc = "rmtree"
                   /\ r.op = "Rename" => r.pc = "list" \/ (r.pc = "exists" /\ r.file = r.to)
           Plain == Ops \ {"none", "Reset", "Add", "Rename", "Set"}
<1>1. ASSUME r \in Command, r.op \in Plain, r.pc \in {"ensure", "create"},
             OpensFile(r.op, r.file), Holds(r.file, r.data)
      PROVE  Good
  BY <1>1 DEF CommandInv, Idle, Writing, Opened
<1>2. ASSUME r \in Command, r.op \in Plain, OpensFile(r.op, r.file),
             r.pc \in {"exists", "remove"}, r.pc = "remove" => r.op \in Removals
      PROVE  Good
  BY <1>2 DEF CommandInv, Idle, Writing, Opened
<1>3. ASSUME NEW o \in Listings \ {"Rename"}, r = [Idle EXCEPT !.op = o, !.pc = "list"]
      PROVE  Good
  <2>1. r \in Command /\ r.op = o /\ r.pc = "list" /\ r.todo \cup r.seen = {}
    BY <1>3 DEF Idle, Command, Content, Others, Listings, Ops
  <2> QED
    BY <1>3, <2>1 DEF CommandInv, Idle, Writing, Opened, Listings
<1> SUFFICES Good
  OBVIOUS
<1> HIDE DEF Good
<1>4. CASE area = "identity"
  <2>1. \A k \in Key : Holds(Secret, k)
    BY Marks, FilesDiffer DEF Holds
  <2>2. OpensFile("Start", Secret) /\ OpensFile("Rotate", Secret)
    BY FilesDiffer DEF OpensFile
  <2>3. CASE r \in StartCommand
    <3>1. r \in Command /\ r.op = "Start" /\ r.pc = "exists" /\ r.file = Secret
      BY <2>3, FilesDiffer DEF StartCommand, Idle, Command, Content, Others, Ops
    <3> QED
      BY <1>2, <2>2, <3>1 DEF Ops, Removals
  <2>4. CASE r \in RotateCommand
    <3>1. PICK k \in Key : r = Write([Idle EXCEPT !.op = "Rotate"], Secret, k)
      BY <2>4 DEF RotateCommand, FreshKey
    <3>2. r \in Command /\ r.op = "Rotate" /\ r.pc = "create" /\ r.file = Secret /\ r.data = k
      BY <3>1, FilesDiffer, Marks DEF Write, Idle, Command, Content, Writing, Ops
    <3> QED
      BY <1>1, <2>1, <2>2, <3>2 DEF Ops
  <2> QED
    BY <1>4, <2>3, <2>4 DEF Commands
<1>5. CASE area = "peers"
  <2>1. \A f \in PeerFiles : /\ OpensFile("Remove", f) /\ OpensFile("Info", f)
                             /\ OpensFile("Add", f) /\ OpensFile("Rename", f)
    BY FilesDiffer DEF OpensFile
  <2>2. CASE r \in ListCommand
    BY <1>3, <2>2 DEF ListCommand, Listings
  <2>3. CASE r \in AddCommand
    <3>1. PICK f \in PeerFiles, t \in Ticket : r = Adding(f, t)
      BY <2>3 DEF AddCommand
    <3>2. r \in Command /\ r.op = "Add" /\ r.pc = "exists" /\ r.file = f /\ r.to = f /\ r.data = t
      BY <3>1, FilesDiffer, Marks DEF Adding, Idle, Command, Content, Others, Ops
    <3> QED
      BY <2>1, <3>2 DEF CommandInv, Idle, Writing, Opened, Good
  <2>4. CASE r \in RemoveCommand
    <3>1. CASE r = [Idle EXCEPT !.op = "Remove", !.pc = "list"]
      BY <1>3, <3>1 DEF Listings
    <3>2. CASE r \in {[Idle EXCEPT !.op = "Remove", !.pc = "remove", !.file = f] : f \in PeerFiles}
      <4>1. PICK f \in PeerFiles : r = [Idle EXCEPT !.op = "Remove", !.pc = "remove", !.file = f]
        BY <3>2
      <4>2. r \in Command /\ r.op = "Remove" /\ r.pc = "remove" /\ r.file = f
        BY <4>1, FilesDiffer DEF Idle, Command, Content, Others, Ops
      <4> QED
        BY <1>2, <2>1, <4>2 DEF Ops, Removals
    <3> QED
      BY <2>4, <3>1, <3>2 DEF RemoveCommand
  <2>5. CASE r \in InfoCommand
    <3>1. CASE r = [Idle EXCEPT !.op = "Info", !.pc = "list"]
      BY <1>3, <3>1 DEF Listings
    <3>2. CASE r \in {[Idle EXCEPT !.op = "Info", !.pc = "exists", !.file = f] : f \in PeerFiles}
      <4>1. PICK f \in PeerFiles : r = [Idle EXCEPT !.op = "Info", !.pc = "exists", !.file = f]
        BY <3>2
      <4>2. r \in Command /\ r.op = "Info" /\ r.pc = "exists" /\ r.file = f
        BY <4>1, FilesDiffer DEF Idle, Command, Content, Others, Ops
      <4> QED
        BY <1>2, <2>1, <4>2 DEF Ops, Removals
    <3> QED
      BY <2>5, <3>1, <3>2 DEF InfoCommand
  <2>6. CASE r \in RenameCommand
    <3>1. CASE \E g \in PeerFiles : r = RenamingPicked(g)
      <4>1. PICK g \in PeerFiles : r = RenamingPicked(g)
        BY <3>1
      <4>2. r \in Command /\ r.op = "Rename" /\ r.pc = "list" /\ r.to = g /\ r.todo \cup r.seen = {}
        BY <4>1, FilesDiffer DEF RenamingPicked, Idle, Command, Content, Others, Ops
      <4> QED
        BY <4>2 DEF CommandInv, Idle, Writing, Opened, Listings, Good
    <3>2. CASE \E f \in PeerFiles, g \in PeerFiles : r = Renaming(f, g)
      <4>1. PICK f \in PeerFiles, g \in PeerFiles : r = Renaming(f, g)
        BY <3>2
      <4>2. /\ r \in Command /\ r.op = "Rename" /\ r.pc = "exists" /\ r.file = g
            /\ r.from = f /\ r.to = g
        BY <4>1, FilesDiffer DEF Renaming, Idle, Command, Content, Others, Ops
      <4> QED
        BY <2>1, <4>2 DEF CommandInv, Idle, Writing, Opened, Good
    <3> QED
      BY <2>6, <3>1, <3>2 DEF RenameCommand
  <2> QED
    BY <1>5, <2>2, <2>3, <2>4, <2>5, <2>6 DEF Commands
<1>6. CASE area = "vault"
  <2>1. /\ \A f \in TrustFiles : OpensFile("Authorize", f) /\ Holds(f, PubKey)
        /\ OpensFile("Passwd", Shadow) /\ Holds(Shadow, Hash)
        /\ OpensFile("Unset", Shadow) /\ OpensFile("Status", Shadow)
    BY FilesDiffer, Marks DEF Holds, OpensFile
  <2>2. CASE r \in AuthorizeCommand
    <3>1. PICK f \in TrustFiles : r = Write([Idle EXCEPT !.op = "Authorize"], f, PubKey)
      BY <2>2 DEF AuthorizeCommand
    <3>2. r \in Command /\ r.op = "Authorize" /\ r.pc = "ensure" /\ r.file = f /\ r.data = PubKey
      BY <3>1, FilesDiffer, Marks DEF Write, Idle, Command, Content, Writing, Ops
    <3> QED
      BY <1>1, <2>1, <3>2 DEF Ops
  <2>3. CASE r \in DevicesCommand \cup RevokeCommand \cup InspectCommand
    BY <1>3, <2>3 DEF DevicesCommand, RevokeCommand, InspectCommand, Listings
  <2>4. CASE r \in ResetCommand
    <3>1. /\ r \in Command /\ r.op = "Reset" /\ r.pc = "rmtree"
      BY <2>4, FilesDiffer DEF ResetCommand, Idle, Command, Content, Others, Ops
    <3> QED
      BY <3>1 DEF CommandInv, Idle, Writing, Opened, Good
  <2>5. CASE r \in PasswdCommand
    <3>1. r \in Command /\ r.op = "Passwd" /\ r.pc = "create" /\ r.file = Shadow /\ r.data = Hash
      BY <2>5, FilesDiffer, Marks DEF PasswdCommand, Write, Idle, Command, Content, Writing, Ops
    <3> QED
      BY <1>1, <2>1, <3>1 DEF Ops, Removals
  <2>6. CASE r \in UnsetCommand \cup StatusCommand
    <3>1. r \in Command /\ r.op \in {"Unset", "Status"} /\ r.pc = "exists" /\ r.file = Shadow
      BY <2>6, FilesDiffer DEF UnsetCommand, StatusCommand, Idle, Command, Content, Others, Ops
    <3> QED
      BY <1>2, <2>1, <3>1 DEF Ops, Removals
  <2> QED
    BY <1>6, <2>2, <2>3, <2>4, <2>5, <2>6 DEF Commands
<1>7. CASE area = "config"
  <2>1. \A o \in {"Get", "Set", "Export", "Import"} : OpensFile(o, ConfigFile)
    BY FilesDiffer DEF OpensFile
  <2>2. CASE r \in GetCommand \cup ExportCommand \cup ImportCommand
    <3>1. r \in Command /\ r.op \in {"Get", "Export", "Import"} /\ r.pc = "exists"
          /\ r.file = ConfigFile
      <4>1. CASE r \in GetCommand
        BY <4>1, FilesDiffer DEF GetCommand, LoadConfig, Idle, Command, Content, Others, Ops
      <4>2. CASE r \in ExportCommand
        BY <4>2, FilesDiffer DEF ExportCommand, LoadConfig, Idle, Command, Content, Others, Ops
      <4>3. CASE r \in ImportCommand
        BY <4>3, FilesDiffer DEF ImportCommand, LoadConfig, Idle, Command, Content, Others, Ops
      <4> QED
        BY <2>2, <4>1, <4>2, <4>3
    <3> QED
      BY <1>2, <2>1, <3>1 DEF Ops, Removals
  <2>3. CASE r \in SetCommand
    <3>1. PICK k \in Field : r = [LoadConfig("Set") EXCEPT !.todo = {k}]
      BY <2>3 DEF SetCommand
    <3>2. /\ r \in Command /\ r.op = "Set" /\ r.pc = "exists" /\ r.file = ConfigFile
          /\ r.todo = {k}
      BY <3>1, FilesDiffer DEF LoadConfig, Idle, Command, Content, Others, Ops
    <3> QED
      BY <2>1, <3>2 DEF CommandInv, Idle, Writing, Opened, Good
  <2> QED
    BY <1>7, <2>2, <2>3 DEF Commands
<1> QED
  BY <1>4, <1>5, <1>6, <1>7 DEF StoreInv, DirInv

-----------------------------------------------------------------------------
(* Steps *)

\* A step that only moves its own process on.
LEMMA BecomeKeeps ==
  ASSUME StoreInv, NEW p \in Proc, NEW r, CommandInv(r), Become(p, r),
         NEW t, TmpInv(r, t), tmp' = [tmp EXCEPT ![p] = t],
         UNCHANGED <<area, files, disk, journal, loose, gone>>, trustDir' \in BOOLEAN
  PROVE  StoreInv'
<1>1. DirInv'
  BY DEF StoreInv, DirInv
<1>2. proc' \in [Proc -> Command] /\ tmp' \in [Proc -> Tmp]
  BY DEF StoreInv, Become, CommandInv, TmpInv
<1>3. \A q \in Proc : proc'[q] = (IF q = p THEN r ELSE proc[q])
                      /\ tmp'[q] = (IF q = p THEN t ELSE tmp[q])
  BY DEF StoreInv, Become
<1>4. \A q \in Proc : CommandInv(proc'[q]) /\ TmpInv(proc'[q], tmp'[q])
  BY <1>3 DEF StoreInv
<1> QED
  BY <1>1, <1>2, <1>4 DEF StoreInv

\* The same where the process has no temporary file.
LEMMA MoveKeeps ==
  ASSUME StoreInv, NEW p \in Proc, NEW r, CommandInv(r), Become(p, r),
         proc[p].pc \notin Opened, r.pc \notin Opened,
         UNCHANGED <<area, files, disk, journal, loose, gone, tmp>>, trustDir' \in BOOLEAN
  PROVE  StoreInv'
<1>1. tmp[p] = NoTmp /\ tmp \in [Proc -> Tmp] /\ TmpInv(proc[p], tmp[p])
  BY DEF StoreInv, TmpInv
<1>2. tmp' = [tmp EXCEPT ![p] = NoTmp]
  BY <1>1
<1>3. TmpInv(r, NoTmp)
  BY <1>1 DEF TmpInv, Opened
<1> QED
  BY <1>2, <1>3, BecomeKeeps

\* What a change of the directory does to the commands of the others is to
\* note that they met it.
LEMMA ChangeMeets ==
  ASSUME StoreInv, NEW p \in Proc, NEW f \in File, NEW v, NEW r, Change(p, f, v, r)
  PROVE  /\ proc'[p] = r
         /\ \A q \in Proc \ {p} :
              \E m \in SUBSET File :
                /\ proc'[q] = [proc[q] EXCEPT !.met = m]
                /\ proc[q].op = "Reset" => m = proc[q].met \cup {f}
                /\ proc[q].op = "Rename" => m = {proc[q].to}
<1>1. proc'[p] = r
  BY DEF Change
<1>2. ASSUME NEW q \in Proc \ {p}
      PROVE  \E m \in SUBSET File :
               /\ proc'[q] = [proc[q] EXCEPT !.met = m]
               /\ proc[q].op = "Reset" => m = proc[q].met \cup {f}
               /\ proc[q].op = "Rename" => m = {proc[q].to}
  <2>1. proc[q] \in Command /\ CommandInv(proc[q])
    BY DEF StoreInv
  <2>2. CASE proc[q].op = "Reset"
    <3>1. proc'[q] = [proc[q] EXCEPT !.met = proc[q].met \cup {f}]
      BY <2>1, <2>2 DEF Change
    <3>2. proc[q].met \cup {f} \in SUBSET File
      BY <2>1 DEF Command
    <3> QED
      BY <2>2, <3>1, <3>2
  <2>3. CASE proc[q].op = "Rename"
    <3>1. proc'[q] = [proc[q] EXCEPT !.met = {proc[q].to}]
      BY <2>1, <2>3 DEF Change
    <3>2. {proc[q].to} \in SUBSET File
      BY <2>1, <2>3, FilesDiffer DEF CommandInv
    <3> QED
      BY <2>3, <3>1, <3>2
  <2>4. CASE proc[q].op \notin {"Reset", "Rename"}
    <3>1. proc'[q] = proc[q]
      BY <2>4 DEF Change
    <3>2. proc[q] = [proc[q] EXCEPT !.met = proc[q].met] /\ proc[q].met \in SUBSET File
      BY <2>1 DEF Command
    <3> QED
      BY <2>4, <3>1, <3>2
  <2> QED
    BY <2>2, <2>3, <2>4
<1> QED
  BY <1>1, <1>2

\* To have met a change takes nothing from a command.
LEMMA MetKeeps ==
  ASSUME NEW c, CommandInv(c), NEW m \in SUBSET File, NEW t, TmpInv(c, t),
         c.op \in {"Reset", "Rename"} \/ m = c.met
  PROVE  CommandInv([c EXCEPT !.met = m]) /\ TmpInv([c EXCEPT !.met = m], t)
<1> DEFINE d == [c EXCEPT !.met = m]
<1>1. /\ d \in Command /\ d.op = c.op /\ d.pc = c.pc /\ d.file = c.file /\ d.from = c.from
      /\ d.to = c.to /\ d.data = c.data /\ d.todo = c.todo /\ d.seen = c.seen
  BY DEF CommandInv, Command
<1>2. d = c \/ c.op \in {"Reset", "Rename"}
  BY DEF CommandInv, Command
<1> HIDE DEF d
<1>3. d = Idle <=> c = Idle
  BY <1>1, <1>2 DEF Idle
<1>4. CommandInv(d) /\ TmpInv(d, t)
  BY <1>1, <1>2, <1>3 DEF CommandInv, TmpInv
<1> QED
  BY <1>4 DEF d

\* A change of the directory by p, which goes on as r.
LEMMA ChangeKeeps ==
  ASSUME StoreInv, NEW p \in Proc, NEW f \in File, NEW v, HoldsOrNot(f, v),
         f = Secret => v # NoFile, NEW r, CommandInv(r), Change(p, f, v, r),
         TmpInv(r, tmp'[p]), tmp' \in [Proc -> Tmp],
         \A q \in Proc \ {p} : tmp'[q] = tmp[q],
         UNCHANGED <<area, disk, trustDir>>, loose' = {}, gone' \subseteq Ticket
  PROVE  StoreInv'
<1>0. \A o \in Proc \ {p} :
        \E m \in SUBSET File :
          /\ proc'[o] = [proc[o] EXCEPT !.met = m]
          /\ proc[o].op = "Reset" => m = proc[o].met \cup {f}
          /\ proc[o].op = "Rename" => m = {proc[o].to}
  BY ChangeMeets, ZenonT(40)
<1>1. DirInv'
  <2>1. v \in Content
    BY DEF HoldsOrNot, Holds, Content
  <2>2. files' = [files EXCEPT ![f] = v] /\ files \in [File -> Content]
    BY DEF Change, StoreInv, DirInv
  <2>3. files' \in [File -> Content] /\ \A g \in File : HoldsOrNot(g, files'[g])
    BY <2>1, <2>2 DEF StoreInv, DirInv
  <2> DEFINE e == [file |-> f, to |-> v]
             n == Len(journal)
  <2>4. /\ journal \in Seq([file : File, to : Content]) /\ n \in Nat /\ n < MaxJournal
        /\ e \in [file : File, to : Content] /\ journal' = Append(journal, e)
    BY <2>1 DEF Change, StoreInv, DirInv
  <2>5. /\ journal' \in Seq([file : File, to : Content]) /\ Len(journal') = n + 1
        /\ \A i \in 1 .. n : journal'[i] = journal[i]
        /\ journal'[n + 1] = e
    BY <2>4
  <2>6. \A i \in 1 .. Len(journal') :
          /\ HoldsOrNot(journal'[i].file, journal'[i].to)
          /\ journal'[i].file = Secret => journal'[i].to # NoFile
    <3> SUFFICES ASSUME NEW i \in 1 .. n + 1
                 PROVE  /\ HoldsOrNot(journal'[i].file, journal'[i].to)
                        /\ journal'[i].file = Secret => journal'[i].to # NoFile
      BY <2>5
    <3>1. CASE i \in 1 .. n
      BY <2>5, <3>1 DEF StoreInv, DirInv
    <3>2. CASE i = n + 1
      BY <2>5, <3>2
    <3> QED
      BY <2>4, <3>1, <3>2
  <2> QED
    BY <2>3, <2>4, <2>5, <2>6, StorageAssumption DEF StoreInv, DirInv
<1>2. \A q \in Proc : CommandInv(proc'[q]) /\ TmpInv(proc'[q], tmp'[q])
  <2> SUFFICES ASSUME NEW q \in Proc
               PROVE  CommandInv(proc'[q]) /\ TmpInv(proc'[q], tmp'[q])
    OBVIOUS
  <2>1. CASE q = p
    BY <2>1, ChangeMeets
  <2>2. CASE q # p
    <3>1. CommandInv(proc[q]) /\ TmpInv(proc[q], tmp[q]) /\ tmp'[q] = tmp[q]
      BY <2>2 DEF StoreInv
    <3>2. CASE proc[q].op \in {"Reset", "Rename"}
      <4>1. PICK m \in SUBSET File : proc'[q] = [proc[q] EXCEPT !.met = m]
        <5>1. q \in Proc \ {p}
          BY <2>2
        <5> QED
          BY <1>0, <5>1, Zenon
      <4>2. proc[q].op \in {"Reset", "Rename"} \/ m = proc[q].met
        BY <3>2
      <4> QED
        BY <3>1, <4>1, <4>2, MetKeeps
    <3>3. CASE proc[q].op \notin {"Reset", "Rename"}
      <4>1. proc'[q] = proc[q]
        BY <2>2, <3>3 DEF Change
      <4> QED
        BY <3>1, <4>1
    <3> QED
      BY <3>2, <3>3
  <2> QED
    BY <2>1, <2>2
<1>3. proc' \in [Proc -> Command]
  <2>1. proc' = [q \in Proc |-> proc'[q]]
    BY DEF Change
  <2> QED
    BY <1>2, <2>1 DEF CommandInv
<1> QED
  BY <1>1, <1>2, <1>3 DEF StoreInv

\* The oldest change is the first of the journal.
LEMMA FirstOf ==
  ASSUME NEW S, NEW s \in Seq(S), s # <<>>
  PROVE  Len(s) \in Nat \ {0} /\ Head(s) = s[1] /\ s[1] \in S
<1>1. Len(s) \in Nat \ {0}
  BY EmptySeq
<1>2. s[1] \in S
  BY <1>1
<1>3. Head(s) = s[1]
  OBVIOUS
<1> QED
  BY <1>1, <1>2, <1>3

\* The file system writes back the oldest change.
LEMMA PersistKeeps == StoreInv /\ Persist => StoreInv'
<1> SUFFICES ASSUME StoreInv, Persist
             PROVE  StoreInv'
  OBVIOUS
<1> DEFINE n == Len(journal)
<1>1. /\ journal \in Seq([file : File, to : Content]) /\ journal # <<>>
      /\ n \in Nat \ {0} /\ Head(journal) = journal[1] /\ journal[1] \in [file : File, to : Content]
  <2>1. journal \in Seq([file : File, to : Content]) /\ journal # <<>>
    BY DEF StoreInv, DirInv, Persist
  <2> QED
    BY <2>1, FirstOf
<1>2. /\ journal' \in Seq([file : File, to : Content]) /\ Len(journal') = n - 1
      /\ \A i \in 1 .. n - 1 : journal'[i] = journal[i + 1]
  BY <1>1 DEF Persist
<1>3. disk' = [disk EXCEPT ![journal[1].file] = journal[1].to]
  BY <1>1 DEF Persist
<1>4. HoldsOrNot(journal[1].file, journal[1].to)
  BY <1>1 DEF StoreInv, DirInv
<1>5. disk' \in [File -> Content] /\ \A f \in File : HoldsOrNot(f, disk'[f])
  BY <1>1, <1>3, <1>4 DEF StoreInv, DirInv
<1>6. \A i \in 1 .. Len(journal') :
        /\ HoldsOrNot(journal'[i].file, journal'[i].to)
        /\ journal'[i].file = Secret => journal'[i].to # NoFile
  <2> SUFFICES ASSUME NEW i \in 1 .. n - 1
               PROVE  /\ HoldsOrNot(journal'[i].file, journal'[i].to)
                      /\ journal'[i].file = Secret => journal'[i].to # NoFile
    BY <1>2
  <2>1. i + 1 \in 1 .. n /\ journal'[i] = journal[i + 1]
    BY <1>1, <1>2
  <2> QED
    BY <2>1 DEF StoreInv, DirInv
<1>7. UNCHANGED <<area, files, loose, trustDir, tmp, proc, gone>>
  BY DEF Persist
<1>8. Len(journal') <= MaxJournal
  BY <1>1, <1>2, StorageAssumption DEF StoreInv, DirInv
<1>9. DirInv'
  BY <1>2, <1>5, <1>6, <1>7, <1>8 DEF StoreInv, DirInv
<1> QED
  BY <1>7, <1>9 DEF StoreInv

\* No file is loose: a power loss leaves every file on the disk as it is.
LEMMA PowerLossKeeps ==
  ASSUME StoreInv, PowerLoss
  PROVE  StoreInv' /\ disk' = disk /\ files' = disk
<1>1. disk' = disk
  BY DEF PowerLoss, StoreInv, DirInv
<1>2. /\ files' = disk /\ journal' = <<>> /\ loose' = {} /\ trustDir' \in BOOLEAN
      /\ tmp' = [p \in Proc |-> NoTmp] /\ proc' = [p \in Proc |-> Idle]
      /\ UNCHANGED <<area, gone>>
  BY <1>1 DEF PowerLoss
<1>3. /\ journal' \in Seq([file : File, to : Content]) /\ Len(journal') = 0
  BY <1>2
<1>4. Len(journal') <= MaxJournal
  BY <1>3, StorageAssumption
<1>5. DirInv'
  BY <1>1, <1>2, <1>3, <1>4 DEF StoreInv, DirInv
<1>6. Idle \in Command /\ NoTmp \in Tmp
  BY IdleInv DEF CommandInv, TmpInv
<1> QED
  BY <1>1, <1>2, <1>5, <1>6, IdleInv DEF StoreInv

\* The steps of atomic_write_secure.
LEMMA WritingKeeps ==
  ASSUME StoreInv, NEW p \in Proc,
         \/ EnsureDir(p) \/ CreateTmp(p) \/ ApplyPermissions(p) \/ WriteData(p)
         \/ SyncData(p) \/ WriteFails(p)
  PROVE  StoreInv'
<1> DEFINE r == proc[p]
           t == tmp[p]
<1>1. CommandInv(r) /\ TmpInv(r, t) /\ r \in Command /\ t \in Tmp /\ tmp \in [Proc -> Tmp]
  BY DEF StoreInv
<1>2. ASSUME NEW pc \in Writing, r.pc \in Writing, NEW s, s = [r EXCEPT !.pc = pc]
      PROVE  CommandInv(s) /\ s.pc = pc /\ s.data = r.data
  <2>1. /\ s \in Command /\ s.op = r.op /\ s.pc = pc /\ s.file = r.file /\ s.data = r.data
        /\ s.to = r.to /\ s.from = r.from /\ s.todo = r.todo
    BY <1>1, <1>2 DEF Command
  <2>2. r.op # "none" /\ s # Idle
    BY <1>1, <1>2, <2>1 DEF CommandInv, Idle, Writing
  <2> HIDE DEF r
  <2> QED
    BY <1>1, <1>2, <2>1, <2>2 DEF CommandInv, Writing
<1>3. CASE EnsureDir(p)
  <2> DEFINE s == [r EXCEPT !.pc = "create"]
  <2>1. CommandInv(s) /\ s.pc = "create"
    BY <1>2, <1>3 DEF EnsureDir, Writing
  <2> QED
    BY <1>3, <2>1, MoveKeeps DEF EnsureDir, Opened
<1>4. CASE CreateTmp(p)
  <2> DEFINE s == [r EXCEPT !.pc = "perms"]
             u == [NoTmp EXCEPT !.named = TRUE]
  <2>1. CommandInv(s) /\ s.pc = "perms"
    BY <1>2, <1>4 DEF CreateTmp, Writing
  <2>2. TmpInv(s, u)
    BY <2>1 DEF TmpInv, Tmp, NoTmp, Opened, Content
  <2>3. Become(p, s) /\ tmp' = [tmp EXCEPT ![p] = u]
        /\ UNCHANGED <<area, files, disk, journal, loose, gone, trustDir>>
    BY <1>4 DEF CreateTmp
  <2> HIDE DEF s, u
  <2> QED
    BY <2>1, <2>2, <2>3, BecomeKeeps DEF StoreInv, DirInv
<1>5. CASE ApplyPermissions(p)
  <2> DEFINE s == [r EXCEPT !.pc = "write"]
             u == [t EXCEPT !.strict = TRUE]
  <2>1. CommandInv(s) /\ s.pc = "write"
    BY <1>2, <1>5 DEF ApplyPermissions, Writing
  <2>2. TmpInv(s, u)
    BY <1>1, <1>5, <2>1 DEF ApplyPermissions, TmpInv, Tmp, Opened
  <2>3. Become(p, s) /\ tmp' = [tmp EXCEPT ![p] = u]
        /\ UNCHANGED <<area, files, disk, journal, loose, gone, trustDir>>
    BY <1>5 DEF ApplyPermissions
  <2> HIDE DEF s, u
  <2> QED
    BY <2>1, <2>2, <2>3, BecomeKeeps DEF StoreInv, DirInv
<1>6. CASE WriteData(p)
  <2> DEFINE s == [r EXCEPT !.pc = "sync"]
             u == [t EXCEPT !.data = r.data]
  <2>1. CommandInv(s) /\ s.pc = "sync" /\ s.data = r.data
    BY <1>2, <1>6 DEF WriteData, Writing
  <2>2. TmpInv(s, u)
    BY <1>1, <1>6, <2>1 DEF WriteData, TmpInv, Tmp, Opened, Command
  <2>3. Become(p, s) /\ tmp' = [tmp EXCEPT ![p] = u]
        /\ UNCHANGED <<area, files, disk, journal, loose, gone, trustDir>>
    BY <1>6 DEF WriteData
  <2> HIDE DEF s, u
  <2> QED
    BY <2>1, <2>2, <2>3, BecomeKeeps DEF StoreInv, DirInv
<1>7. CASE SyncData(p)
  <2> DEFINE s == [r EXCEPT !.pc = "rename"]
             u == [t EXCEPT !.synced = TRUE]
  <2>1. CommandInv(s) /\ s.pc = "rename" /\ s.data = r.data
    BY <1>2, <1>7 DEF SyncData, Writing
  <2>2. TmpInv(s, u)
    BY <1>1, <1>7, <2>1 DEF SyncData, TmpInv, Tmp, Opened
  <2>3. Become(p, s) /\ tmp' = [tmp EXCEPT ![p] = u]
        /\ UNCHANGED <<area, files, disk, journal, loose, gone, trustDir>>
    BY <1>7 DEF SyncData
  <2> HIDE DEF s, u
  <2> QED
    BY <2>1, <2>2, <2>3, BecomeKeeps DEF StoreInv, DirInv
<1>8. CASE WriteFails(p)
  BY <1>8, IdleInv, BecomeKeeps DEF WriteFails, StoreInv, DirInv
<1> QED
  BY <1>3, <1>4, <1>5, <1>6, <1>7, <1>8

\* The rename at the end of atomic_write_secure: the file holds what the
\* command has asked for, and it was synced.
LEMMA RenameTmpKeeps ==
  ASSUME StoreInv, NEW p \in Proc, RenameTmp(p)
  PROVE  /\ StoreInv'
         /\ tmp[p].data = proc[p].data /\ Holds(proc[p].file, proc[p].data)
         /\ CommandInv(Written(proc[p]))
<1> DEFINE r == proc[p]
           w == Written(r)
<1>1. CommandInv(r) /\ TmpInv(r, tmp[p]) /\ r \in Command /\ tmp \in [Proc -> Tmp]
  BY DEF StoreInv
<1>2. /\ r.pc = "rename" /\ OpensFile(r.op, r.file) /\ Holds(r.file, r.data)
      /\ tmp[p].data = r.data /\ tmp[p].synced /\ r.op # "none"
  BY <1>1 DEF RenameTmp, CommandInv, TmpInv, Writing, Idle
<1>3. CommandInv(w) /\ w.pc \notin Opened
  <2>1. CASE r.op = "Rotate"
    <3>1. w \in Command /\ w.op = "Start" /\ w.pc = "exists" /\ w.file = Secret
      BY <2>1, FilesDiffer DEF Written, Idle, Command, Content, Ops, Others
    <3>2. OpensFile("Start", Secret)
      BY FilesDiffer DEF OpensFile
    <3> QED
      BY <3>1, <3>2 DEF CommandInv, Idle, Writing, Opened
  <2>2. CASE r.op = "Rename"
    <3>1. /\ w \in Command /\ w.op = "Rename" /\ w.pc = "remove" /\ w.file = r.from
          /\ w.from = r.from /\ w.to = r.to
      BY <1>1, <2>2 DEF Written, Command, Others
    <3>2. r.from \in PeerFiles /\ r.to \in PeerFiles
      BY <1>1, <1>2, <2>2 DEF CommandInv
    <3>3. OpensFile("Rename", r.from)
      BY <3>2, FilesDiffer DEF OpensFile
    <3> HIDE DEF w
    <3> QED
      BY <3>1, <3>2, <3>3 DEF CommandInv, Idle, Writing, Opened, Removals
  <2>3. CASE r.op \notin {"Rotate", "Rename"}
    BY <2>3, IdleInv DEF Written, Idle, Opened
  <2> QED
    BY <2>1, <2>2, <2>3
<1>4. r.file \in File /\ HoldsOrNot(r.file, r.data) /\ r.data # NoFile
  BY <1>2, Marks DEF OpensFile, HoldsOrNot, Holds
<1>5. Change(p, r.file, r.data, w)
  BY <1>2 DEF RenameTmp
<1>6. /\ tmp' = [tmp EXCEPT ![p] = NoTmp] /\ NoTmp \in Tmp
      /\ loose' = {} /\ gone' \subseteq Ticket /\ UNCHANGED <<area, disk, trustDir>>
  BY <1>2, IdleInv DEF RenameTmp, StoreInv, DirInv, TmpInv
<1>7. /\ tmp' \in [Proc -> Tmp] /\ tmp'[p] = NoTmp
      /\ \A q \in Proc \ {p} : tmp'[q] = tmp[q]
  BY <1>1, <1>6
<1>8. TmpInv(w, tmp'[p])
  BY <1>3, <1>7, IdleInv DEF TmpInv, Opened
<1> HIDE DEF r, w
<1>9. StoreInv'
  BY <1>3, <1>4, <1>5, <1>6, <1>7, <1>8, ChangeKeeps
<1> QED
  BY <1>2, <1>3, <1>9 DEF r, w

\* The start of a command and its death.
LEMMA BeginCrashKeeps ==
  ASSUME StoreInv, NEW p \in Proc, Begin(p) \/ Crash(p)
  PROVE  StoreInv'
<1>1. CASE Begin(p)
  <2>1. PICK r \in Commands : Become(p, r)
    BY <1>1 DEF Begin
  <2>2. CommandInv(r) /\ r.pc \notin Opened
    BY <2>1, CommandsInv
  <2>3. /\ proc[p].pc \notin Opened
        /\ UNCHANGED <<area, files, disk, journal, loose, trustDir, tmp, gone>>
    BY <1>1 DEF Begin, Idle, Opened
  <2> QED
    BY <2>1, <2>2, <2>3, MoveKeeps DEF StoreInv, DirInv
<1>2. CASE Crash(p)
  BY <1>2, IdleInv, BecomeKeeps DEF Crash, StoreInv, DirInv
<1> QED
  BY <1>1, <1>2

\* Loads.
LEMMA LoadKeeps ==
  ASSUME StoreInv, NEW p \in Proc, Exists(p) \/ Read(p)
  PROVE  /\ StoreInv'
         /\ \E r : Become(p, r) /\ r.pc \notin Opened
<1> DEFINE r == proc[p]
           v == files[r.file]
<1>1. /\ CommandInv(r) /\ r \in Command /\ r.pc \in {"exists", "read"}
      /\ UNCHANGED <<area, files, disk, journal, loose, gone, tmp, trustDir>>
  BY DEF Exists, Read, StoreInv
<1>2. OpensFile(r.op, r.file) /\ r.op # "none" /\ HoldsOrNot(r.file, v) /\ r.pc \notin Opened
  <2>1. OpensFile(r.op, r.file) /\ r.op # "none"
    BY <1>1 DEF CommandInv, Idle
  <2> QED
    BY <1>1, <2>1 DEF OpensFile, StoreInv, DirInv, Opened
<1>3. ASSUME NEW s, CommandInv(s), Become(p, s), s.pc \notin Opened
      PROVE  StoreInv' /\ \E u : Become(p, u) /\ u.pc \notin Opened
  BY <1>1, <1>2, <1>3, MoveKeeps DEF StoreInv, DirInv
<1>4. CASE Exists(p) /\ v # NoFile
  <2> DEFINE s == [r EXCEPT !.pc = IF r.op \in {"Unset", "Reset"} THEN "remove" ELSE "read"]
  <2>1. Become(p, s)
    BY <1>4 DEF Exists
  <2>2. /\ s \in Command /\ s.op = r.op /\ s.pc \in {"remove", "read"} /\ s.file = r.file
        /\ s.data = r.data /\ s.to = r.to /\ s.from = r.from /\ s.todo = r.todo
        /\ s.pc = "remove" => s.op \in Removals
    BY <1>1 DEF Command, Others, Removals
  <2> HIDE DEF s
  <2>3. CommandInv(s) /\ s.pc \notin Opened
    BY <1>1, <1>2, <2>2 DEF CommandInv, Writing, Idle, Opened
  <2> QED
    BY <1>3, <2>1, <2>3
<1>5. CASE Exists(p) /\ v = NoFile
  <2>1. PICK s \in Loaded(r, NoFile) : Become(p, s)
    BY <1>5 DEF Exists
  <2>2. HoldsOrNot(r.file, NoFile)
    BY DEF HoldsOrNot
  <2>3. CommandInv(s) /\ s.pc \notin Opened
    BY <1>1, <2>1, <2>2, LoadedInv
  <2> QED
    BY <1>3, <2>1, <2>3
<1>6. CASE Read(p)
  <2>1. CASE Become(p, Idle)
    BY <1>3, <2>1, IdleInv DEF Idle, Opened
  <2>2. CASE ~Become(p, Idle)
    <3>1. PICK s \in Loaded(r, v) : Become(p, s)
      BY <1>6, <2>2 DEF Read
    <3>2. CommandInv(s) /\ s.pc \notin Opened
      BY <1>1, <1>2, <3>1, LoadedInv
    <3> QED
      BY <1>3, <3>1, <3>2
  <2> QED
    BY <2>1, <2>2
<1> QED
  BY <1>4, <1>5, <1>6

\* Removals of a file: never the identity.
LEMMA RemoveKeeps ==
  ASSUME StoreInv, NEW p \in Proc, RemoveFile(p)
  PROVE  StoreInv'
<1> DEFINE r == proc[p]
<1>1. CommandInv(r) /\ r \in Command /\ tmp \in [Proc -> Tmp] /\ TmpInv(r, tmp[p])
  BY DEF StoreInv
<1>2. /\ r.pc = "remove" /\ OpensFile(r.op, r.file) /\ r.op \in Removals
      /\ UNCHANGED <<area, disk, loose, trustDir, tmp>> /\ gone' \subseteq Ticket
  BY <1>1 DEF RemoveFile, CommandInv, StoreInv, DirInv
<1>3. r.file \in File /\ r.file # Secret /\ tmp[p] = NoTmp /\ r.pc \notin Opened
  BY <1>1, <1>2, FilesDiffer DEF OpensFile, Removals, TmpInv, Opened
<1>4. CASE files[r.file] = NoFile
  <2>1. Become(p, Idle) /\ UNCHANGED <<files, journal>>
    BY <1>4 DEF RemoveFile
  <2>2. gone' = gone
    BY <1>4, Marks DEF RemoveFile
  <2> QED
    BY <1>2, <1>3, <2>1, <2>2, IdleInv, MoveKeeps DEF StoreInv, DirInv, Idle, Opened
<1>5. CASE files[r.file] # NoFile
  <2>1. Change(p, r.file, NoFile, Idle)
    BY <1>5 DEF RemoveFile
  <2>2. HoldsOrNot(r.file, NoFile) /\ loose' = {} /\ TmpInv(Idle, tmp'[p])
    BY <1>2, <1>3, IdleInv DEF HoldsOrNot, StoreInv, DirInv
  <2> HIDE DEF r
  <2> QED
    BY <1>1, <1>2, <1>3, <2>1, <2>2, IdleInv, ChangeKeeps
<1> QED
  BY <1>4, <1>5

\* Listings.
LEMMA ListKeeps ==
  ASSUME StoreInv, NEW p \in Proc, ReadDir(p) \/ NextEntry(p) \/ ReadEntry(p) \/ Pick(p)
  PROVE  /\ StoreInv'
         /\ \E r : Become(p, r) /\ r.pc \notin Opened \cup Writing
<1> DEFINE r == proc[p]
<1>1. /\ CommandInv(r) /\ r \in Command /\ r.pc \in {"list", "each", "entry"}
      /\ UNCHANGED <<area, files, disk, journal, loose, gone, tmp, trustDir>>
  BY DEF ReadDir, NextEntry, ReadEntry, Pick, StoreInv
<1>2. r.op \in Listings /\ r.op # "none" /\ r.pc \notin Opened
  BY <1>1 DEF CommandInv, Listings, Opened
<1>3. ASSUME NEW s, CommandInv(s), Become(p, s), s.pc \notin Opened \cup Writing
      PROVE  StoreInv' /\ \E u : Become(p, u) /\ u.pc \notin Opened \cup Writing
  BY <1>1, <1>2, <1>3, MoveKeeps DEF StoreInv, DirInv
<1>4. ASSUME NEW s \in Command, s.op = r.op, s.pc \in {"each", "entry"}, s.to = r.to,
             \A f \in s.todo \cup s.seen : OpensFile(r.op, f),
             s.pc = "entry" => OpensFile(r.op, s.file)
      PROVE  CommandInv(s) /\ s.pc \notin Opened \cup Writing
  BY <1>1, <1>2, <1>4 DEF CommandInv, Listings, Writing, Idle, Opened
<1>5. CASE ReadDir(p)
  <2> DEFINE s == [r EXCEPT !.pc = "each", !.todo = {f \in Listed(r) : files[f] # NoFile}]
  <2>1. Listed(r) \subseteq File /\ \A f \in Listed(r) : OpensFile(r.op, f)
    BY <1>2, FilesDiffer DEF Listed, OpensFile, Listings
  <2>2. /\ s \in Command /\ s.op = r.op /\ s.pc = "each" /\ s.to = r.to /\ s.seen = r.seen
        /\ \A f \in s.todo : OpensFile(r.op, f)
    BY <1>1, <2>1 DEF Command, Others
  <2>3. CommandInv(s) /\ s.pc \notin Opened \cup Writing
    BY <1>2, <1>1, <1>4, <2>2 DEF CommandInv
  <2> QED
    BY <1>3, <1>5, <2>3 DEF ReadDir
<1>6. CASE NextEntry(p)
  <2>1. PICK f \in r.todo :
          Become(p, IF files[f] = NoFile /\ r.op \notin {"Revoke", "Devices"}
                    THEN [r EXCEPT !.todo = @ \ {f}]
                    ELSE [r EXCEPT !.pc = "entry", !.file = f, !.todo = @ \ {f}])
    BY <1>6 DEF NextEntry
  <2>2. r.pc = "each" /\ OpensFile(r.op, f) /\ f \in File
    BY <1>6, <1>1, <2>1 DEF NextEntry, CommandInv, OpensFile
  <2>3. CASE Become(p, [r EXCEPT !.todo = @ \ {f}])
    <3> DEFINE s == [r EXCEPT !.todo = @ \ {f}]
    <3>1. /\ s \in Command /\ s.op = r.op /\ s.pc = "each" /\ s.to = r.to
          /\ s.todo \cup s.seen \subseteq r.todo \cup r.seen
      BY <1>1, <2>2 DEF Command
    <3>2. CommandInv(s) /\ s.pc \notin Opened \cup Writing
      BY <1>1, <1>4, <3>1 DEF CommandInv
    <3> QED
      BY <1>3, <2>3, <3>2
  <2>4. CASE Become(p, [r EXCEPT !.pc = "entry", !.file = f, !.todo = @ \ {f}])
    <3> DEFINE s == [r EXCEPT !.pc = "entry", !.file = f, !.todo = @ \ {f}]
    <3>1. /\ s \in Command /\ s.op = r.op /\ s.pc = "entry" /\ s.to = r.to /\ s.file = f
          /\ s.todo \cup s.seen \subseteq r.todo \cup r.seen
      BY <1>1, <2>2 DEF Command, Others
    <3>2. CommandInv(s) /\ s.pc \notin Opened \cup Writing
      BY <1>1, <1>4, <2>2, <3>1 DEF CommandInv
    <3> QED
      BY <1>3, <2>4, <3>2
  <2> QED
    BY <2>1, <2>3, <2>4
<1>7. CASE ReadEntry(p)
  <2>1. r.pc = "entry" /\ OpensFile(r.op, r.file) /\ r.file \in File
    BY <1>1, <1>7 DEF ReadEntry, CommandInv, OpensFile
  <2>2. CASE Become(p, [r EXCEPT !.pc = "each", !.seen = @ \cup {r.file}])
    <3> DEFINE s == [r EXCEPT !.pc = "each", !.seen = @ \cup {r.file}]
    <3>1. /\ s \in Command /\ s.op = r.op /\ s.pc = "each" /\ s.to = r.to
          /\ s.todo \cup s.seen \subseteq r.todo \cup r.seen \cup {r.file}
      BY <1>1, <2>1 DEF Command, Others
    <3>2. CommandInv(s) /\ s.pc \notin Opened \cup Writing
      BY <1>1, <1>4, <2>1, <3>1 DEF CommandInv
    <3> QED
      BY <1>3, <2>2, <3>2
  <2>3. CASE Become(p, [r EXCEPT !.pc = "each"])
    <3> DEFINE s == [r EXCEPT !.pc = "each"]
    <3>1. /\ s \in Command /\ s.op = r.op /\ s.pc = "each" /\ s.to = r.to
          /\ s.todo \cup s.seen \subseteq r.todo \cup r.seen
      BY <1>1 DEF Command, Others
    <3>2. CommandInv(s) /\ s.pc \notin Opened \cup Writing
      BY <1>1, <1>4, <3>1 DEF CommandInv
    <3> QED
      BY <1>3, <2>3, <3>2
  <2>4. CASE Become(p, Idle)
    BY <1>3, <2>4, IdleInv DEF Idle, Opened, Writing
  <2> QED
    BY <1>7, <2>2, <2>3, <2>4 DEF ReadEntry
<1>8. CASE Pick(p)
  <2>1. CASE Become(p, Idle)
    BY <1>3, <2>1, IdleInv DEF Idle, Opened, Writing
  <2>2. CASE ~Become(p, Idle)
    <3>1. PICK f \in r.seen : Become(p, Picked(r, f))
      BY <1>8, <2>2 DEF Pick
    <3> DEFINE s == Picked(r, f)
    <3>2. OpensFile(r.op, f) /\ f \in File
      BY <1>1, <3>1 DEF CommandInv, OpensFile
    <3>3. CASE r.op \in {"Revoke", "Remove", "Info"}
      <4>1. /\ s \in Command /\ s.op = r.op /\ s.pc \in {"remove", "exists"} /\ s.file = f
            /\ s.pc = "remove" => s.op \in Removals
        BY <1>1, <3>2, <3>3 DEF Picked, Command, Others, Removals
      <4> HIDE DEF s
      <4>2. CommandInv(s) /\ s.pc \notin Opened \cup Writing
        BY <1>2, <3>2, <3>3, <4>1 DEF CommandInv, Writing, Idle, Opened
      <4> QED
        BY <1>3, <3>1, <4>2 DEF s
    <3>4. CASE r.op = "Rename"
      <4>1. r.to \in PeerFiles /\ r.to \in File /\ f \in PeerFiles /\ OpensFile(r.op, r.to)
        BY <1>1, <3>2, <3>4, FilesDiffer DEF CommandInv, OpensFile
      <4>2. /\ s \in Command /\ s.op = r.op /\ s.pc = "exists" /\ s.file = r.to
            /\ s.from = f /\ s.to = r.to
        BY <1>1, <3>2, <3>4, <4>1 DEF Picked, Command, Others
      <4> HIDE DEF s
      <4>3. CommandInv(s) /\ s.pc \notin Opened \cup Writing
        BY <3>4, <4>1, <4>2 DEF CommandInv, Writing, Idle, Opened
      <4> QED
        BY <1>3, <3>1, <4>3 DEF s
    <3>5. CASE r.op \notin {"Revoke", "Remove", "Info", "Rename"}
      BY <2>2, <3>1, <3>5 DEF Picked
    <3> QED
      BY <3>3, <3>4, <3>5
  <2> QED
    BY <2>1, <2>2
<1> QED
  BY <1>5, <1>6, <1>7, <1>8

\* The steps of reset_vault.
LEMMA ResetKeeps ==
  ASSUME StoreInv, NEW p \in Proc, ResetEntry(p) \/ ResetDir(p)
  PROVE  StoreInv'
<1> DEFINE r == proc[p]
<1>1. /\ CommandInv(r) /\ r \in Command /\ r.pc = "rmtree" /\ r.op = "Reset" /\ r.pc \notin Opened
      /\ TmpInv(r, tmp[p]) /\ tmp \in [Proc -> Tmp]
  BY DEF ResetEntry, ResetDir, StoreInv, CommandInv, Opened
<1>2. ASSUME NEW f \in TrustFiles, Change(p, f, NoFile, [r EXCEPT !.todo = @ \ {f}]),
             UNCHANGED <<tmp, area, disk, loose, trustDir, gone>>
      PROVE  StoreInv'
  <2> DEFINE s == [r EXCEPT !.todo = @ \ {f}]
  <2>1. s \in Command /\ s.op = "Reset" /\ s.pc = "rmtree" /\ f \in File /\ f # Secret
    BY <1>1, FilesDiffer DEF Command
  <2>2. CommandInv(s) /\ TmpInv(s, tmp'[p])
    BY <1>1, <1>2, <2>1 DEF CommandInv, Writing, Idle, Opened, TmpInv
  <2>3. HoldsOrNot(f, NoFile) /\ loose' = {} /\ gone' \subseteq Ticket /\ tmp' \in [Proc -> Tmp]
    BY <1>1, <1>2 DEF HoldsOrNot, StoreInv, DirInv
  <2> HIDE DEF s
  <2> QED
    BY <1>2, <2>1, <2>2, <2>3, ChangeKeeps DEF s
<1>3. ASSUME NEW q \in Proc, InTrust(q), tmp' = [tmp EXCEPT ![q].named = FALSE],
             UNCHANGED <<files, journal, proc, area, disk, loose, trustDir, gone>>
      PROVE  StoreInv'
  <2>1. DirInv'
    BY <1>3 DEF StoreInv, DirInv
  <2>2. tmp[q] \in Tmp /\ TmpInv(proc[q], tmp[q]) /\ tmp[q].named
    BY <1>3 DEF StoreInv, InTrust
  <2>3. tmp'[q] = [tmp[q] EXCEPT !.named = FALSE] /\ tmp' \in [Proc -> Tmp]
    BY <1>1, <1>3, <2>2 DEF Tmp
  <2>4. TmpInv(proc[q], tmp'[q])
    <3>1. tmp[q] # NoTmp
      BY <2>2 DEF NoTmp
    <3>2. /\ tmp'[q] \in Tmp /\ tmp'[q].data = tmp[q].data
          /\ tmp'[q].synced = tmp[q].synced /\ tmp'[q].strict = tmp[q].strict
      BY <2>2, <2>3 DEF Tmp
    <3> QED
      BY <2>2, <3>1, <3>2 DEF TmpInv
  <2>5. \A o \in Proc : o # q => tmp'[o] = tmp[o]
    BY <1>1, <1>3
  <2> QED
    BY <1>3, <2>1, <2>3, <2>4, <2>5 DEF StoreInv
<1>4. CASE ResetEntry(p)
  BY <1>2, <1>3, <1>4 DEF ResetEntry
<1>5. CASE ResetDir(p)
  <2>1. /\ UNCHANGED <<area, files, disk, journal, loose, gone, tmp>>
        /\ trustDir' \in BOOLEAN
    BY <1>5 DEF ResetDir, StoreInv, DirInv
  <2>2. CASE TrustEmpty
    <3> DEFINE s == [r EXCEPT !.pc = "exists", !.file = Shadow, !.todo = {}, !.met = {}]
    <3>1. s \in Command /\ s.op = "Reset" /\ s.pc = "exists" /\ s.file = Shadow
      BY <1>1, FilesDiffer DEF Command, Others
    <3>2. CommandInv(s) /\ s.pc \notin Opened
      BY <3>1, FilesDiffer DEF CommandInv, Writing, Idle, Opened, OpensFile
    <3>3. Become(p, s)
      BY <1>5, <2>2 DEF ResetDir
    <3> HIDE DEF s
    <3> QED
      BY <1>1, <2>1, <3>2, <3>3, MoveKeeps
  <2>3. CASE ~TrustEmpty
    BY <1>1, <1>5, <2>1, <2>3, IdleInv, MoveKeeps DEF ResetDir, Idle, Opened
  <2> QED
    BY <2>2, <2>3
<1> QED
  BY <1>4, <1>5

-----------------------------------------------------------------------------
(* The directory stays sound *)

\* A new state directory is empty.
LEMMA InitStore == Init => StoreInv
<1> SUFFICES ASSUME Init
             PROVE  StoreInv
  OBVIOUS
<1>1. journal \in Seq([file : File, to : Content]) /\ Len(journal) = 0
  BY DEF Init
<1>2. DirInv
  <2>1. files \in [File -> Content] /\ disk \in [File -> Content]
        /\ \A f \in File : HoldsOrNot(f, files[f]) /\ HoldsOrNot(f, disk[f])
    BY DEF Init, Content, HoldsOrNot
  <2>2. Len(journal) <= MaxJournal /\ 1 .. Len(journal) = {}
    BY <1>1, StorageAssumption
  <2> QED
    BY <1>1, <2>1, <2>2 DEF Init, DirInv
<1>3. Idle \in Command /\ NoTmp \in Tmp
  BY IdleInv DEF CommandInv, TmpInv
<1> QED
  BY <1>2, <1>3, IdleInv DEF Init, StoreInv

\* Every step of every command, a crash and a power loss keep it.
LEMMA NextStore == StoreInv /\ [Next]_vars => StoreInv'
<1> SUFFICES ASSUME StoreInv, [Next]_vars
             PROVE  StoreInv'
  OBVIOUS
<1>1. CASE Persist
  BY <1>1, PersistKeeps
<1>2. CASE PowerLoss
  BY <1>2, PowerLossKeeps
<1>3. ASSUME NEW p \in Proc, Begin(p) \/ Crash(p)
      PROVE  StoreInv'
  BY <1>3, BeginCrashKeeps
<1>4. ASSUME NEW p \in Proc,
             \/ EnsureDir(p) \/ CreateTmp(p) \/ ApplyPermissions(p) \/ WriteData(p)
             \/ SyncData(p) \/ WriteFails(p)
      PROVE  StoreInv'
  BY <1>4, WritingKeeps
<1>5. ASSUME NEW p \in Proc, RenameTmp(p)
      PROVE  StoreInv'
  BY <1>5, RenameTmpKeeps
<1>6. ASSUME NEW p \in Proc, Exists(p) \/ Read(p)
      PROVE  StoreInv'
  BY <1>6, LoadKeeps
<1>7. ASSUME NEW p \in Proc, RemoveFile(p)
      PROVE  StoreInv'
  BY <1>7, RemoveKeeps
<1>8. ASSUME NEW p \in Proc, ReadDir(p) \/ NextEntry(p) \/ ReadEntry(p) \/ Pick(p)
      PROVE  StoreInv'
  BY <1>8, ListKeeps
<1>9. ASSUME NEW p \in Proc, ResetEntry(p) \/ ResetDir(p)
      PROVE  StoreInv'
  BY <1>9, ResetKeeps
<1>10. CASE UNCHANGED vars
  BY <1>10 DEF vars, StoreInv, DirInv
<1> QED
  BY <1>1, <1>2, <1>3, <1>4, <1>5, <1>6, <1>7, <1>8, <1>9, <1>10 DEF Next

\* Whatever commands interleave and wherever they fail, die or lose power, a
\* file is absent or whole, and no temporary file holds data before it is
\* private (atomic_write_secure).
THEOREM FilesStaySound == Spec => []FilesSound
<1>1. StoreInv => FilesSound
  BY DEF StoreInv, DirInv, FilesSound, TypeOK, PrivateBeforeData, CommandOK, CommandInv, Command,
         TmpInv, Opened, NoTmp, Content
<1> QED
  BY <1>1, InitStore, NextStore, PTL DEF Spec

-----------------------------------------------------------------------------
(* reset_vault and rotate_identity *)

\* The disk changes only by what the file system writes back.
LEMMA DiskSteps == StoreInv /\ [Next]_vars => Persist \/ disk' = disk
<1> SUFFICES ASSUME StoreInv, [Next]_vars, ~Persist
             PROVE  disk' = disk
  OBVIOUS
<1>1. CASE PowerLoss
  BY <1>1, PowerLossKeeps
<1>2. ASSUME NEW p \in Proc, Begin(p) \/ Crash(p) \/ EnsureDir(p) \/ CreateTmp(p)
                             \/ ApplyPermissions(p) \/ WriteData(p) \/ SyncData(p)
      PROVE  disk' = disk
  BY <1>2 DEF Begin, Crash, EnsureDir, CreateTmp, ApplyPermissions, WriteData, SyncData
<1>3. ASSUME NEW p \in Proc, RenameTmp(p) \/ WriteFails(p) \/ Exists(p) \/ Read(p)
                             \/ RemoveFile(p) \/ ReadDir(p) \/ NextEntry(p)
      PROVE  disk' = disk
  BY <1>3 DEF RenameTmp, WriteFails, Exists, Read, RemoveFile, ReadDir, NextEntry
<1>4. ASSUME NEW p \in Proc, ReadEntry(p) \/ Pick(p) \/ ResetEntry(p) \/ ResetDir(p)
      PROVE  disk' = disk
  BY <1>4 DEF ReadEntry, Pick, ResetEntry, ResetDir
<1>5. CASE UNCHANGED vars
  BY <1>5 DEF vars
<1> QED
  BY <1>1, <1>2, <1>3, <1>4, <1>5 DEF Next

\* No change of the directory removes the identity, so none that reaches the
\* disk does: whatever a rotation runs into, there is a key (rotate_identity).
THEOREM IdentityKept == Spec => NodeKeepsIdentity
<1>1. StoreInv /\ [Next]_vars => [disk[Secret] # NoFile => disk'[Secret] # NoFile]_vars
  <2> SUFFICES ASSUME StoreInv, [Next]_vars, disk[Secret] # NoFile
               PROVE  disk'[Secret] # NoFile
    OBVIOUS
  <2>1. CASE Persist
    <3>1. /\ journal \in Seq([file : File, to : Content]) /\ journal # <<>>
          /\ disk \in [File -> Content]
      BY <2>1 DEF StoreInv, DirInv, Persist
    <3>2. Len(journal) \in Nat \ {0} /\ Head(journal) = journal[1]
      BY <3>1, FirstOf
    <3>3. journal[1].file = Secret => journal[1].to # NoFile
      BY <3>2 DEF StoreInv, DirInv
    <3>4. disk' = [disk EXCEPT ![journal[1].file] = journal[1].to]
      BY <2>1, <3>2 DEF Persist
    <3> QED
      BY <3>1, <3>3, <3>4, FilesDiffer
  <2>2. CASE disk' = disk
    BY <2>2
  <2> QED
    BY <2>1, <2>2, DiskSteps
<1> QED
  BY <1>1, InitStore, NextStore, PTL DEF Spec, NodeKeepsIdentity

\* A record that appears after the trust directory was removed is met by the
\* reset that removed it.
LEMMA NextReset == StoreInv /\ ResetWipes /\ [Next]_vars => ResetWipes'
<1> SUFFICES ASSUME StoreInv, ResetWipes, [Next]_vars,
                    NEW q \in Proc, proc'[q].op = "Reset", proc'[q].pc \in {"exists", "remove"},
                    NEW f \in TrustFiles, files'[f] # NoFile
             PROVE  f \in proc'[q].met
  BY DEF ResetWipes
<1> DEFINE Past == proc[q].op = "Reset" /\ proc[q].pc \in {"exists", "remove"}
<1>1. CommandInv(proc[q]) /\ proc[q] \in Command /\ proc \in [Proc -> Command]
  BY DEF StoreInv
<1>2. ASSUME Past, files' = files, proc'[q].met = proc[q].met
      PROVE  f \in proc'[q].met
  BY <1>2 DEF ResetWipes
<1>3. ASSUME NEW p \in Proc, p # q, NEW g \in File, NEW v, NEW r, Change(p, g, v, r)
      PROVE  f \in proc'[q].met
  <2>1. q \in Proc \ {p}
    BY <1>3
  <2>2. \E m \in SUBSET File :
          /\ proc'[q] = [proc[q] EXCEPT !.met = m]
          /\ proc[q].op = "Reset" => m = proc[q].met \cup {g}
          /\ proc[q].op = "Rename" => m = {proc[q].to}
    BY <1>3, <2>1, ChangeMeets, Zenon
  <2>3. PICK m : /\ proc'[q] = [proc[q] EXCEPT !.met = m]
                 /\ proc[q].op = "Reset" => m = proc[q].met \cup {g}
    BY <2>2, Zenon
  <2>4. Past /\ proc'[q].met = proc[q].met \cup {g}
    BY <1>1, <2>3 DEF Command
  <2>5. files' = [files EXCEPT ![g] = v] /\ files \in [File -> Content]
    BY <1>3 DEF Change, StoreInv, DirInv
  <2> QED
    BY <2>4, <2>5, FilesDiffer DEF ResetWipes
<1>4. ASSUME NEW p \in Proc, p # q, NEW r, Become(p, r), files' = files
      PROVE  f \in proc'[q].met
  BY <1>1, <1>2, <1>4 DEF Become
<1>5. CASE Persist
  BY <1>2, <1>5 DEF Persist
<1>6. CASE PowerLoss
  BY <1>6 DEF PowerLoss, Idle
<1>7. ASSUME NEW p \in Proc, Begin(p)
      PROVE  f \in proc'[q].met
  <2>1. PICK r \in Commands : Become(p, r)
    BY <1>7 DEF Begin
  <2>2. CASE p = q
    BY <1>1, <2>1, <2>2, CommandsInv DEF Become
  <2> QED
    BY <1>4, <1>7, <2>1, <2>2 DEF Begin
<1>8. ASSUME NEW p \in Proc, Crash(p) \/ WriteFails(p)
      PROVE  f \in proc'[q].met
  <2>1. Become(p, Idle) /\ files' = files
    BY <1>8 DEF Crash, WriteFails
  <2>2. p # q
    BY <1>1, <2>1 DEF Become, Idle
  <2> QED
    BY <1>4, <2>1, <2>2
<1>9. ASSUME NEW p \in Proc,
             EnsureDir(p) \/ CreateTmp(p) \/ ApplyPermissions(p) \/ WriteData(p) \/ SyncData(p)
      PROVE  f \in proc'[q].met
  <2>1. /\ proc[p].pc \in Writing /\ files' = files
        /\ \E pc \in Writing : Become(p, [proc[p] EXCEPT !.pc = pc])
    BY <1>9 DEF EnsureDir, CreateTmp, ApplyPermissions, WriteData, SyncData, Writing
  <2>2. PICK pc \in Writing : Become(p, [proc[p] EXCEPT !.pc = pc])
    BY <2>1
  <2>3. p # q
    BY <1>1, <2>2 DEF Become, Command, Writing
  <2> QED
    BY <1>4, <2>1, <2>2, <2>3
<1>10. ASSUME NEW p \in Proc, RenameTmp(p)
       PROVE  f \in proc'[q].met
  <2>1. Change(p, proc[p].file, tmp[p].data, Written(proc[p])) /\ proc[p].file \in File
    <3>1. proc[p].pc = "rename" /\ CommandInv(proc[p])
      BY <1>10 DEF RenameTmp, StoreInv
    <3> QED
      BY <1>10, <3>1 DEF RenameTmp, CommandInv, Writing, OpensFile
  <2>2. p # q
    <3>1. Written(proc[p]).op = "Reset" => proc[p].op = "Reset" /\ proc[p].pc = "rename"
      BY <1>10 DEF Written, Idle, RenameTmp
    <3>2. proc'[p] = Written(proc[p])
      BY <2>1 DEF Change
    <3> QED
      BY <1>1, <3>1, <3>2 DEF CommandInv, Writing
  <2> QED
    BY <1>3, <2>1, <2>2
<1>11. ASSUME NEW p \in Proc, Exists(p) \/ Read(p)
       PROVE  f \in proc'[q].met
  <2>1. /\ files' = files /\ proc[p].pc \in {"exists", "read"}
        /\ \E s : Become(p, s)
    BY <1>11, LoadKeeps DEF Exists, Read
  <2>2. CASE p # q
    BY <1>4, <2>1, <2>2
  <2>3. CASE p = q
    <3> DEFINE r == proc[q]
    <3>1. ASSUME NEW v, HoldsOrNot(r.file, v), NEW s \in Loaded(r, v), Become(p, s)
          PROVE  FALSE
      <4>1. /\ r.op # "Reset" => s.op # "Reset"
            /\ r.op = "Reset" => s = Idle
        BY <1>1, <2>1, <2>3, <3>1, LoadedInv
      <4>2. proc'[q] = s
        BY <1>1, <2>3, <3>1 DEF Become
      <4> QED
        BY <4>1, <4>2 DEF Idle
    <3>2. ~Become(p, Idle)
      BY <1>1, <2>3 DEF Become, Idle
    <3>3. HoldsOrNot(r.file, NoFile) /\ HoldsOrNot(r.file, files[r.file])
      <4>1. r.file \in File
        BY <1>1, <2>1, <2>3 DEF CommandInv, OpensFile
      <4> QED
        BY <4>1 DEF HoldsOrNot, StoreInv, DirInv
    <3>4. Exists(p) /\ Become(p, [r EXCEPT !.pc =
                                    IF r.op \in {"Unset", "Reset"} THEN "remove" ELSE "read"])
      BY <1>11, <2>3, <3>1, <3>2, <3>3 DEF Exists, Read
    <3>5. r.pc = "exists" /\ proc'[q].met = r.met /\ proc'[q].op = r.op
      BY <1>1, <2>3, <3>4 DEF Become, Command, Exists
    <3> QED
      BY <1>2, <2>1, <3>5
  <2> QED
    BY <2>2, <2>3
<1>12. ASSUME NEW p \in Proc, RemoveFile(p)
       PROVE  f \in proc'[q].met
  <2>1. \/ Become(p, Idle) /\ files' = files
        \/ Change(p, proc[p].file, NoFile, Idle)
    BY <1>12 DEF RemoveFile
  <2>2. p # q
    BY <1>1, <2>1 DEF Become, Change, Idle
  <2>3. proc[p].file \in File
    <3>1. proc[p].pc = "remove" /\ CommandInv(proc[p])
      BY <1>12 DEF RemoveFile, StoreInv
    <3> QED
      BY <3>1 DEF CommandInv, OpensFile
  <2> QED
    BY <1>3, <1>4, <2>1, <2>2, <2>3
<1>13. ASSUME NEW p \in Proc, ReadDir(p) \/ NextEntry(p) \/ ReadEntry(p) \/ Pick(p)
       PROVE  f \in proc'[q].met
  <2>1. files' = files /\ proc[p].pc \in {"list", "each", "entry"} /\ CommandInv(proc[p])
        /\ \E s : Become(p, s)
    BY <1>13, ListKeeps DEF ReadDir, NextEntry, ReadEntry, Pick, StoreInv
  <2>2. proc[p].op \in Listings /\ proc[p] \in Command
    BY <2>1 DEF CommandInv
  <2>3. proc'[p].op \in {"none", proc[p].op}
    <3>1. ASSUME NEW s, Become(p, s)
          PROVE  proc'[p] = s
      BY <1>1, <3>1 DEF Become
    <3>2. CASE ReadDir(p)
      BY <2>2, <3>1, <3>2 DEF ReadDir, Command
    <3>3. CASE NextEntry(p)
      BY <2>2, <3>1, <3>3 DEF NextEntry, Command
    <3>4. CASE ReadEntry(p)
      <4>1. proc'[p] \in {[proc[p] EXCEPT !.pc = "each", !.seen = @ \cup {proc[p].file}],
                          [proc[p] EXCEPT !.pc = "each"], Idle}
        BY <1>1, <3>4 DEF ReadEntry, Become
      <4>2. /\ [proc[p] EXCEPT !.pc = "each", !.seen = @ \cup {proc[p].file}].op = proc[p].op
            /\ [proc[p] EXCEPT !.pc = "each"].op = proc[p].op
            /\ Idle.op = "none"
        BY <2>2 DEF Command, Idle
      <4> QED
        BY <4>1, <4>2
    <3>5. CASE Pick(p)
      <4>1. \A g : Picked(proc[p], g).op \in {"none", proc[p].op}
        BY <2>2 DEF Picked, Command, Idle
      <4>2. proc'[p] = Idle \/ \E g : proc'[p] = Picked(proc[p], g)
        BY <3>1, <3>5 DEF Pick
      <4> QED
        BY <4>1, <4>2 DEF Idle
    <3> QED
      BY <1>13, <3>2, <3>3, <3>4, <3>5
  <2>4. p # q
    BY <2>2, <2>3 DEF Listings
  <2> QED
    BY <1>4, <2>1, <2>4
<1>14. ASSUME NEW p \in Proc, ResetEntry(p)
       PROVE  f \in proc'[q].met
  <2>1. CASE UNCHANGED <<files, proc>>
    BY <1>2, <2>1
  <2>2. CASE ~UNCHANGED <<files, proc>>
    <3>1. PICK g \in TrustFiles : Change(p, g, NoFile, [proc[p] EXCEPT !.todo = @ \ {g}])
      BY <1>14, <2>2 DEF ResetEntry
    <3>2. p # q
      BY <1>1, <1>14, <3>1 DEF ResetEntry, Change, Command
    <3> QED
      BY <1>3, <3>1, <3>2, FilesDiffer
  <2> QED
    BY <2>1, <2>2
<1>15. ASSUME NEW p \in Proc, ResetDir(p)
       PROVE  f \in proc'[q].met
  <2>1. CASE p # q
    BY <1>4, <1>15, <2>1 DEF ResetDir
  <2>2. CASE p = q /\ TrustEmpty
    BY <1>15, <2>2 DEF ResetDir, TrustEmpty
  <2>3. CASE p = q /\ ~TrustEmpty
    BY <1>1, <1>15, <2>3 DEF ResetDir, Become, Idle
  <2> QED
    BY <2>1, <2>2, <2>3
<1>16. CASE UNCHANGED vars
  BY <1>2, <1>16 DEF vars
<1> QED
  BY <1>5, <1>6, <1>7, <1>8, <1>9, <1>10, <1>11, <1>12, <1>13, <1>14, <1>15, <1>16 DEF Next

\* A reset that goes on to the password has wiped every record there was:
\* what is in the vault then was written afterwards (reset_vault).
THEOREM ResetComplete == Spec => []ResetWipes
<1>1. Init => ResetWipes
  BY DEF Init, ResetWipes, Idle
<1> QED
  BY <1>1, InitStore, NextStore, NextReset, PTL DEF Spec

-----------------------------------------------------------------------------
(* The refinement of AtomicFiles *)

\* A process that moves on without touching the directory asks, gives up or
\* goes on with what it asked for.
LEMMA BecomeAsks ==
  ASSUME StoreInv, NEW p \in Proc, NEW r, CommandInv(r), Become(p, r),
         UNCHANGED <<files, disk, journal>>,
         proc[p].pc \in Writing /\ r.pc \in Writing
           => r.file = proc[p].file /\ r.data = proc[p].data
  PROVE  [AF!Next]_(AF!vars)
<1> DEFINE ask == [q \in Proc |-> Asked(q)]
           req == [file |-> r.file, data |-> r.data]
<1>1. \A q \in Proc : proc'[q] = IF q = p THEN r ELSE proc[q]
  BY DEF Become, StoreInv
<1>2. \A q \in Proc \ {p} : Asked(q)' = Asked(q)
  BY <1>1 DEF Asked
<1>3. CASE r.pc \notin Writing
  <2>1. Asked(p)' = AF!Nothing
    BY <1>1, <1>3 DEF Asked, AF!Nothing
  <2>2. ask' = [ask EXCEPT ![p] = AF!Nothing]
    BY <1>2, <2>1
  <2>3. AF!Abandon(p)
    BY <2>2 DEF AF!Abandon
  <2> QED
    BY <2>3 DEF AF!Next
<1>4. CASE r.pc \in Writing /\ proc[p].pc \notin Writing
  <2>1. Asked(p)' = req /\ Asked(p) = AF!Nothing
    BY <1>1, <1>4 DEF Asked, AF!Nothing
  <2>2. ask' = [ask EXCEPT ![p] = req] /\ ask'[p] = req /\ ask[p] = AF!Nothing
    BY <1>2, <2>1
  <2>3. req \in [file : File, data : Value]
    BY <1>4 DEF CommandInv, OpensFile, Holds
  <2>4. AF!Ask(p)
    BY <2>2, <2>3 DEF AF!Ask
  <2> QED
    BY <2>4 DEF AF!Next
<1>5. CASE r.pc \in Writing /\ proc[p].pc \in Writing
  <2>1. Asked(p)' = Asked(p)
    BY <1>1, <1>5 DEF Asked
  <2>2. ask' = ask
    BY <1>2, <2>1
  <2> QED
    BY <2>2 DEF AF!vars
<1> QED
  BY <1>3, <1>4, <1>5

\* What a change of the directory notes with the others changes nothing of
\* what they asked for.
LEMMA ChangeAsks ==
  ASSUME StoreInv, NEW p \in Proc, NEW f \in File, NEW v, NEW r, Change(p, f, v, r)
  PROVE  \A q \in Proc \ {p} : Asked(q)' = Asked(q)
<1> SUFFICES ASSUME NEW q \in Proc \ {p}
             PROVE  Asked(q)' = Asked(q)
  OBVIOUS
<1>1. \E m \in SUBSET File :
        /\ proc'[q] = [proc[q] EXCEPT !.met = m]
        /\ proc[q].op = "Reset" => m = proc[q].met \cup {f}
        /\ proc[q].op = "Rename" => m = {proc[q].to}
  BY ChangeMeets, Zenon
<1>2. PICK m : proc'[q] = [proc[q] EXCEPT !.met = m]
  BY <1>1, Zenon
<1>3. proc[q] \in Command
  BY DEF StoreInv
<1>4. proc'[q].pc = proc[q].pc /\ proc'[q].file = proc[q].file /\ proc'[q].data = proc[q].data
  BY <1>2, <1>3 DEF Command
<1> QED
  BY <1>4 DEF Asked

\* A removal by a process that waits for nothing.
LEMMA ChangeRemoves ==
  ASSUME StoreInv, NEW p \in Proc, NEW f \in File, NEW r, Change(p, f, NoFile, r),
         proc[p].pc \notin Writing, r.pc \notin Writing, disk' = disk
  PROVE  [AF!Next]_(AF!vars)
<1>1. proc'[p] = r
  BY DEF Change
<1>2. Asked(p)' = Asked(p)
  BY <1>1 DEF Asked
<1>3. [q \in Proc |-> Asked(q)]' = [q \in Proc |-> Asked(q)]
  BY <1>2, ChangeAsks
<1>4. AF!Remove(f)
  BY <1>3 DEF AF!Remove, Change
<1> QED
  BY <1>4 DEF AF!Next

\* Every step is a step of AtomicFiles or leaves what it speaks of alone.
LEMMA NextAtomic == StoreInv /\ [Next]_vars => [AF!Next]_(AF!vars)
<1> SUFFICES ASSUME StoreInv, [Next]_vars
             PROVE  [AF!Next]_(AF!vars)
  OBVIOUS
<1>0. StoreInv'
  BY NextStore
<1>1. CASE Persist
  <2>1. [q \in Proc |-> Asked(q)]' = [q \in Proc |-> Asked(q)]
    BY <1>1 DEF Persist, Asked
  <2>2. AF!Persist
    BY <1>1, <2>1 DEF Persist, AF!Persist
  <2> QED
    BY <2>2 DEF AF!Next
<1>2. CASE PowerLoss
  <2>1. files' = disk /\ disk' = disk
    BY <1>2, PowerLossKeeps
  <2>2. [q \in Proc |-> Asked(q)]' = [q \in Proc |-> AF!Nothing]
    BY <1>2 DEF PowerLoss, Asked, Idle, Writing, AF!Nothing
  <2>3. AF!PowerLoss
    BY <1>2, <2>1, <2>2 DEF PowerLoss, AF!PowerLoss
  <2> QED
    BY <2>3 DEF AF!Next
<1>3. ASSUME NEW p \in Proc, NEW r, Become(p, r), UNCHANGED <<files, disk, journal>>,
             proc[p].pc \in Writing /\ r.pc \in Writing
               => r.file = proc[p].file /\ r.data = proc[p].data
      PROVE  [AF!Next]_(AF!vars)
  <2>1. CommandInv(r)
    BY <1>0, <1>3 DEF StoreInv, Become
  <2> QED
    BY <1>3, <2>1, BecomeAsks
<1>4. ASSUME NEW p \in Proc, Begin(p)
      PROVE  [AF!Next]_(AF!vars)
  BY <1>3, <1>4 DEF Begin, Idle, Writing
<1>5. ASSUME NEW p \in Proc, Crash(p) \/ WriteFails(p)
      PROVE  [AF!Next]_(AF!vars)
  <2>1. Become(p, Idle) /\ UNCHANGED <<files, disk, journal>>
    BY <1>5 DEF Crash, WriteFails
  <2> QED
    BY <1>3, <2>1 DEF Idle, Writing
<1>6. ASSUME NEW p \in Proc,
             EnsureDir(p) \/ CreateTmp(p) \/ ApplyPermissions(p) \/ WriteData(p) \/ SyncData(p)
      PROVE  [AF!Next]_(AF!vars)
  <2>1. /\ UNCHANGED <<files, disk, journal>>
        /\ \E pc \in Writing : Become(p, [proc[p] EXCEPT !.pc = pc])
    BY <1>6 DEF EnsureDir, CreateTmp, ApplyPermissions, WriteData, SyncData, Writing
  <2>2. PICK pc \in Writing : Become(p, [proc[p] EXCEPT !.pc = pc])
    BY <2>1
  <2>3. proc[p] \in Command
    BY DEF StoreInv
  <2>4. /\ [proc[p] EXCEPT !.pc = pc].file = proc[p].file
        /\ [proc[p] EXCEPT !.pc = pc].data = proc[p].data
    BY <2>3 DEF Command
  <2> QED
    BY <1>3, <2>1, <2>2, <2>4
<1>7. ASSUME NEW p \in Proc, RenameTmp(p)
      PROVE  [AF!Next]_(AF!vars)
  <2> DEFINE r == proc[p]
             ask == [q \in Proc |-> Asked(q)]
  <2>1. /\ tmp[p].data = r.data /\ Holds(r.file, r.data) /\ CommandInv(r) /\ r.pc = "rename"
        /\ disk' = disk
    BY <1>7, RenameTmpKeeps DEF RenameTmp, StoreInv
  <2>2. r.file \in File /\ r.data # NoFile
    BY <2>1, Marks DEF CommandInv, OpensFile, Holds, Writing
  <2>3. Change(p, r.file, r.data, Written(r))
    BY <1>7, <2>1 DEF RenameTmp
  <2>4. ask[p] = [file |-> r.file, data |-> r.data] /\ ask[p] # AF!Nothing
    BY <2>1, <2>2 DEF Asked, AF!Nothing, Writing
  <2>5. Written(r).pc \notin Writing
    <3>1. r \in Command
      BY DEF StoreInv
    <3> QED
      BY <3>1 DEF Written, Idle, Writing, Command
  <2>6. Asked(p)' = AF!Nothing
    BY <2>3, <2>5 DEF Change, Asked, AF!Nothing
  <2>7. ask' = [ask EXCEPT ![p] = AF!Nothing]
    BY <2>2, <2>3, <2>6, ChangeAsks
  <2>8. /\ files' = [files EXCEPT ![ask[p].file] = ask[p].data]
        /\ journal' = Append(journal, [file |-> ask[p].file, to |-> ask[p].data])
    <3>1. ask[p].file = r.file /\ ask[p].data = r.data
      BY <2>4
    <3>2. /\ files' = [files EXCEPT ![r.file] = r.data]
          /\ journal' = Append(journal, [file |-> r.file, to |-> r.data])
      BY <2>3 DEF Change
    <3> HIDE DEF ask, r
    <3> QED
      BY <3>1, <3>2
  <2>9. AF!Apply(p)
    BY <2>1, <2>4, <2>7, <2>8 DEF AF!Apply
  <2> QED
    BY <2>9 DEF AF!Next
<1>8. ASSUME NEW p \in Proc, Exists(p) \/ Read(p)
      PROVE  [AF!Next]_(AF!vars)
  <2>1. /\ UNCHANGED <<files, disk, journal>> /\ proc[p].pc \notin Writing
        /\ \E r : Become(p, r)
    BY <1>8, LoadKeeps DEF Exists, Read, Writing
  <2> QED
    BY <1>3, <2>1
<1>9. ASSUME NEW p \in Proc, ReadDir(p) \/ NextEntry(p) \/ ReadEntry(p) \/ Pick(p)
      PROVE  [AF!Next]_(AF!vars)
  <2>1. /\ UNCHANGED <<files, disk, journal>> /\ proc[p].pc \notin Writing
        /\ \E r : Become(p, r)
    BY <1>9, ListKeeps DEF ReadDir, NextEntry, ReadEntry, Pick, Writing
  <2> QED
    BY <1>3, <2>1
<1>10. ASSUME NEW p \in Proc, RemoveFile(p)
       PROVE  [AF!Next]_(AF!vars)
  <2>1. proc[p].pc = "remove" /\ disk' = disk /\ CommandInv(proc[p])
    BY <1>10 DEF RemoveFile, StoreInv
  <2>2. proc[p].file \in File
    BY <2>1 DEF CommandInv, OpensFile
  <2>3. CASE Become(p, Idle) /\ UNCHANGED <<files, journal>>
    BY <1>3, <2>1, <2>3 DEF Idle, Writing
  <2>4. CASE Change(p, proc[p].file, NoFile, Idle)
    BY <2>1, <2>2, <2>4, ChangeRemoves DEF Idle, Writing
  <2> QED
    BY <1>10, <2>3, <2>4 DEF RemoveFile
<1>11. ASSUME NEW p \in Proc, ResetEntry(p)
       PROVE  [AF!Next]_(AF!vars)
  <2>1. CASE UNCHANGED <<files, journal, proc>>
    BY <1>11, <2>1 DEF ResetEntry, Asked, AF!vars
  <2>2. CASE ~UNCHANGED <<files, journal, proc>>
    <3>1. PICK f \in TrustFiles : Change(p, f, NoFile, [proc[p] EXCEPT !.todo = @ \ {f}])
      BY <1>11, <2>2 DEF ResetEntry
    <3>2. /\ proc[p].pc = "rmtree" /\ disk' = disk /\ f \in File
          /\ [proc[p] EXCEPT !.todo = @ \ {f}].pc = proc[p].pc
      BY <1>11, FilesDiffer DEF ResetEntry, StoreInv, Command
    <3> QED
      BY <3>1, <3>2, ChangeRemoves DEF Writing
  <2> QED
    BY <2>1, <2>2
<1>12. ASSUME NEW p \in Proc, ResetDir(p)
       PROVE  [AF!Next]_(AF!vars)
  BY <1>3, <1>12 DEF ResetDir, Writing
<1>13. CASE UNCHANGED vars
  BY <1>13 DEF vars, AF!vars, Asked
<1> QED
  BY <1>1, <1>2, <1>4, <1>5, <1>6, <1>7, <1>8, <1>9, <1>10, <1>11, <1>12, <1>13 DEF Next

\* The commands implement AtomicFiles: a file changes only by receiving,
\* whole and at once, what some process is in the middle of writing, or by
\* being removed, and a power loss restores an earlier state of the directory
\* (atomic_write_secure).
THEOREM StorageAtomic == Spec => FilesAtomic
<1>1. Init => AF!Init
  BY DEF Init, AF!Init, AF!Content, AF!Nothing, Asked, Idle, Writing
<1> QED
  BY <1>1, InitStore, NextStore, NextAtomic, PTL DEF Spec, FilesAtomic, AF!Spec

-----------------------------------------------------------------------------
(* rename_peer: no profile is lost *)

\* f holds v once the first i changes of log have reached the disk d.
After(log, d, i, f, v) ==
  \/ \E j \in 1 .. i : /\ log[j].file = f /\ log[j].to = v
                       /\ \A k \in j + 1 .. i : log[k].file # f
  \/ v = d[f] /\ \A k \in 1 .. i : log[k].file # f

Present(log, d, i, t) == \E f \in PeerFiles : After(log, d, i, f, t)

\* The journal leads from the disk to what the processes see, and no change
\* of it drops a ticket that nobody removed.
JournalInv ==
  /\ \A f \in File : After(journal, disk, Len(journal), f, files[f])
  /\ \A i \in 1 .. Len(journal), t \in Ticket \ gone :
       Present(journal, disk, i - 1, t) => Present(journal, disk, i, t)

\* A rename nobody disturbed holds the ticket of the old name, and has it
\* under the new one before it removes the old.
RenamingInv(r, fs) ==
  r.op = "Rename" =>
    /\ r.pc \in {"exists", "read"} => r.file \in {r.from, r.to}
    /\ r.pc \in Writing => r.file = r.to
    /\ r.pc = "remove" => r.file = r.from
    /\ r.met = {} /\ r.from # r.to /\ r.pc \in Writing \cup {"remove"}
         => fs[r.from] = r.data /\ (r.pc = "remove" => fs[r.to] = r.data)

RenameInv == \A p \in Proc : RenamingInv(proc[p], files)

KeepInv == StoreInv /\ JournalInv /\ RenameInv

Changes == [file : File, to : Content]

\* After says of every file what it holds, once.
LEMMA AfterUnique ==
  ASSUME NEW log, NEW d, NEW i \in Nat, NEW f, NEW v, NEW w,
         After(log, d, i, f, v), After(log, d, i, f, w)
  PROVE  v = w
<1>1. ASSUME NEW j \in 1 .. i, NEW k \in 1 .. i, log[j].file = f, log[k].file = f,
             \A m \in j + 1 .. i : log[m].file # f,
             \A m \in k + 1 .. i : log[m].file # f
      PROVE  j = k
  BY <1>1
<1> QED
  BY <1>1 DEF After

\* To write back the oldest change is to look one change further.
LEMMA AfterTail ==
  ASSUME NEW log \in Seq(Changes), log # <<>>, NEW d \in [File -> Content],
         NEW i \in 0 .. Len(log) - 1, NEW f \in File, NEW v
  PROVE  After(Tail(log), [d EXCEPT ![Head(log).file] = Head(log).to], i, f, v)
           <=> After(log, d, i + 1, f, v)
<1> DEFINE n == Len(log)
           u == Tail(log)
           e == [d EXCEPT ![log[1].file] = log[1].to]
<1>1. n \in Nat \ {0} /\ Head(log) = log[1] /\ log[1] \in Changes
  BY FirstOf
<1>2. Len(u) = n - 1 /\ \A k \in 1 .. n - 1 : u[k] = log[k + 1]
  BY <1>1
<1>3. e[f] = IF f = log[1].file THEN log[1].to ELSE d[f]
  BY <1>1 DEF Changes
<1>4. (\A k \in 1 .. i : u[k].file # f) <=> (\A k \in 2 .. i + 1 : log[k].file # f)
  <2>1. ASSUME \A k \in 1 .. i : u[k].file # f, NEW k \in 2 .. i + 1
        PROVE  log[k].file # f
    <3>1. k - 1 \in 1 .. i /\ k - 1 \in 1 .. n - 1 /\ (k - 1) + 1 = k
      BY <1>1
    <3> QED
      BY <1>2, <2>1, <3>1
  <2>2. ASSUME \A k \in 2 .. i + 1 : log[k].file # f, NEW k \in 1 .. i
        PROVE  u[k].file # f
    <3>1. k + 1 \in 2 .. i + 1 /\ k \in 1 .. n - 1
      BY <1>1
    <3> QED
      BY <1>2, <2>2, <3>1
  <2> QED
    BY <2>1, <2>2
<1>5. ASSUME After(u, e, i, f, v)
      PROVE  After(log, d, i + 1, f, v)
  <2>1. CASE v = e[f] /\ \A k \in 1 .. i : u[k].file # f
    <3>1. \A k \in 2 .. i + 1 : log[k].file # f
      BY <1>4, <2>1
    <3>2. CASE f = log[1].file
      <4>1. 1 \in 1 .. i + 1 /\ log[1].file = f /\ log[1].to = v
            /\ \A k \in 1 + 1 .. i + 1 : log[k].file # f
        BY <1>3, <2>1, <3>1, <3>2
      <4> QED
        BY <4>1 DEF After
    <3>3. CASE f # log[1].file
      <4>1. v = d[f] /\ \A k \in 1 .. i + 1 : log[k].file # f
        BY <1>3, <2>1, <3>1, <3>3
      <4> QED
        BY <4>1 DEF After
    <3> QED
      BY <3>2, <3>3
  <2>2. ASSUME NEW j \in 1 .. i, u[j].file = f, u[j].to = v,
               \A k \in j + 1 .. i : u[k].file # f
        PROVE  After(log, d, i + 1, f, v)
    <3>1. j + 1 \in 1 .. i + 1 /\ j \in 1 .. n - 1 /\ u[j] = log[j + 1]
      BY <1>1, <1>2
    <3>2. ASSUME NEW k \in (j + 1) + 1 .. i + 1
          PROVE  log[k].file # f
      <4>1. k - 1 \in j + 1 .. i /\ k - 1 \in 1 .. n - 1 /\ (k - 1) + 1 = k
        BY <1>1
      <4> QED
        BY <1>2, <2>2, <4>1
    <3> QED
      BY <2>2, <3>1, <3>2 DEF After
  <2> QED
    BY <1>5, <2>1, <2>2 DEF After
<1>6. ASSUME After(log, d, i + 1, f, v)
      PROVE  After(u, e, i, f, v)
  <2>1. CASE v = d[f] /\ \A k \in 1 .. i + 1 : log[k].file # f
    <3>1. v = e[f] /\ \A k \in 1 .. i : u[k].file # f
      BY <1>3, <1>4, <2>1
    <3> QED
      BY <3>1 DEF After
  <2>2. ASSUME NEW j \in 1 .. i + 1, log[j].file = f, log[j].to = v,
               \A k \in j + 1 .. i + 1 : log[k].file # f
        PROVE  After(u, e, i, f, v)
    <3>1. CASE j = 1
      <4>1. v = e[f] /\ \A k \in 1 .. i : u[k].file # f
        BY <1>3, <1>4, <2>2, <3>1
      <4> QED
        BY <4>1 DEF After
    <3>2. CASE j # 1
      <4>1. j - 1 \in 1 .. i /\ j - 1 \in 1 .. n - 1 /\ (j - 1) + 1 = j
        BY <1>1, <3>2
      <4>2. u[j - 1].file = f /\ u[j - 1].to = v
        BY <1>2, <2>2, <4>1
      <4>3. ASSUME NEW k \in (j - 1) + 1 .. i
            PROVE  u[k].file # f
        <5>1. k + 1 \in j + 1 .. i + 1 /\ k \in 1 .. n - 1
          BY <1>1
        <5> QED
          BY <1>2, <2>2, <5>1
      <4> QED
        BY <4>1, <4>2, <4>3 DEF After
    <3> QED
      BY <3>1, <3>2
  <2> QED
    BY <1>6, <2>1, <2>2 DEF After
<1> QED
  BY <1>1, <1>5, <1>6

\* A new change tells of its own file and of no other, and of nothing before.
LEMMA AfterAppend ==
  ASSUME NEW log \in Seq(Changes), NEW d, NEW e \in Changes, NEW f, NEW v
  PROVE  /\ \A i \in 0 .. Len(log) :
              After(Append(log, e), d, i, f, v) <=> After(log, d, i, f, v)
         /\ After(Append(log, e), d, Len(log) + 1, f, v)
              <=> IF f = e.file THEN v = e.to ELSE After(log, d, Len(log), f, v)
<1> DEFINE n == Len(log)
           u == Append(log, e)
<1>1. n \in Nat /\ u[n + 1] = e /\ \A k \in 1 .. n : u[k] = log[k]
  OBVIOUS
<1> HIDE DEF n, u
<1>2. ASSUME NEW i \in 0 .. n
      PROVE  After(u, d, i, f, v) <=> After(log, d, i, f, v)
  <2>1. i \in Nat /\ \A k \in 1 .. i : u[k] = log[k] /\ \A m \in k + 1 .. i : u[m] = log[m]
    BY <1>1
  <2> QED
    BY <2>1 DEF After
<1>3. ASSUME f = e.file
      PROVE  After(u, d, n + 1, f, v) <=> v = e.to
  <2>1. After(u, d, n + 1, f, v) => v = e.to
    <3>1. ASSUME NEW j \in 1 .. n + 1, u[j].file = f, u[j].to = v,
                 \A k \in j + 1 .. n + 1 : u[k].file # f
          PROVE  v = e.to
      BY <1>1, <1>3, <3>1
    <3>2. ~ \A k \in 1 .. n + 1 : u[k].file # f
      BY <1>1, <1>3
    <3> QED
      BY <3>1, <3>2 DEF After
  <2>2. v = e.to => After(u, d, n + 1, f, v)
    <3>1. n + 1 \in 1 .. n + 1 /\ (n + 1) + 1 .. n + 1 = {}
      BY <1>1
    <3> QED
      BY <1>1, <1>3, <3>1 DEF After
  <2> QED
    BY <1>3, <2>1, <2>2
<1>4. ASSUME f # e.file
      PROVE  After(u, d, n + 1, f, v) <=> After(log, d, n, f, v)
  <2>1. After(u, d, n, f, v) => After(u, d, n + 1, f, v)
    <3>1. ASSUME NEW j \in 1 .. n, u[j].file = f, u[j].to = v,
                 \A k \in j + 1 .. n : u[k].file # f
          PROVE  After(u, d, n + 1, f, v)
      <4>1. j \in 1 .. n + 1 /\ \A k \in j + 1 .. n + 1 : u[k].file # f
        BY <1>1, <1>4, <3>1
      <4> QED
        BY <3>1, <4>1 DEF After
    <3>2. ASSUME v = d[f], \A k \in 1 .. n : u[k].file # f
          PROVE  After(u, d, n + 1, f, v)
      <4>1. \A k \in 1 .. n + 1 : u[k].file # f
        BY <1>1, <1>4, <3>2
      <4> QED
        BY <3>2, <4>1 DEF After
    <3> QED
      BY <3>1, <3>2 DEF After
  <2>2. After(u, d, n + 1, f, v) => After(u, d, n, f, v)
    <3>1. ASSUME NEW j \in 1 .. n + 1, u[j].file = f, u[j].to = v,
                 \A k \in j + 1 .. n + 1 : u[k].file # f
          PROVE  After(u, d, n, f, v)
      <4>1. j \in 1 .. n /\ \A k \in j + 1 .. n : u[k].file # f
        BY <1>1, <1>4, <3>1
      <4> QED
        BY <3>1, <4>1 DEF After
    <3>2. ASSUME v = d[f], \A k \in 1 .. n + 1 : u[k].file # f
          PROVE  After(u, d, n, f, v)
      <4>1. \A k \in 1 .. n : u[k].file # f
        BY <1>1, <3>2
      <4> QED
        BY <3>2, <4>1 DEF After
    <3> QED
      BY <3>1, <3>2 DEF After
  <2>3. n \in 0 .. n
    BY <1>1
  <2> QED
    BY <1>2, <1>4, <2>1, <2>2, <2>3
<1> QED
  BY <1>2, <1>3, <1>4 DEF n, u

\* What removes or writes over nothing keeps the journal as it is.
LEMMA JournalSame ==
  ASSUME JournalInv, UNCHANGED <<files, disk, journal>>, gone \subseteq gone'
  PROVE  JournalInv'
  BY DEF JournalInv

\* A change that drops no ticket but those that are gone.
LEMMA ChangeJournal ==
  ASSUME StoreInv, JournalInv, NEW p, NEW f \in File, NEW v \in Content, NEW r,
         Change(p, f, v, r), disk' = disk, gone \subseteq gone',
         \A t \in Ticket \ gone', g \in PeerFiles :
           files[g] = t => \E h \in PeerFiles : files'[h] = t
  PROVE  JournalInv'
<1> DEFINE n == Len(journal)
           e == [file |-> f, to |-> v]
<1>1. /\ journal \in Seq(Changes) /\ n \in Nat /\ e \in Changes /\ files \in [File -> Content]
      /\ e.file = f /\ e.to = v
  BY DEF StoreInv, DirInv, Changes
<1>2. journal' = Append(journal, e) /\ files' = [files EXCEPT ![f] = v]
  BY DEF Change
<1>3. Len(journal') = n + 1
  BY <1>1, <1>2
<1>4. \A g, w : /\ \A i \in 0 .. n : After(journal', disk, i, g, w) <=> After(journal, disk, i, g, w)
                /\ After(journal', disk, n + 1, g, w)
                     <=> IF g = f THEN w = v ELSE After(journal, disk, n, g, w)
  BY <1>1, <1>2, AfterAppend
<1> HIDE DEF n, e
<1>5. \A g \in File : After(journal, disk, n, g, files[g])
  BY DEF JournalInv, n
<1>6. \A g \in File : After(journal', disk, n + 1, g, files'[g])
  BY <1>1, <1>2, <1>4, <1>5
<1>7. ASSUME NEW i \in 1 .. n + 1, NEW t \in Ticket \ gone', Present(journal', disk, i - 1, t)
      PROVE  Present(journal', disk, i, t)
  <2>1. CASE i \in 1 .. n
    <3>1. i \in 0 .. n /\ i - 1 \in 0 .. n
      BY <1>1, <2>1
    <3>2. Present(journal, disk, i - 1, t)
      BY <1>4, <1>7, <3>1 DEF Present
    <3>3. Present(journal, disk, i, t)
      BY <2>1, <3>2 DEF JournalInv, n
    <3> QED
      BY <1>4, <3>1, <3>3 DEF Present
  <2>2. CASE i = n + 1
    <3>1. i - 1 = n /\ n \in 0 .. n
      BY <1>1, <2>2
    <3>2. PICK g \in PeerFiles : After(journal, disk, n, g, t)
      BY <1>4, <1>7, <3>1 DEF Present
    <3>3. files[g] = t
      BY <1>1, <1>5, <3>2, FilesDiffer, AfterUnique
    <3>4. PICK h \in PeerFiles : files'[h] = t
      BY <3>3
    <3>5. After(journal', disk, n + 1, h, t)
      BY <1>6, <3>4, FilesDiffer
    <3> QED
      BY <2>2, <3>5 DEF Present
  <2> QED
    BY <1>1, <2>1, <2>2
<1> QED
  BY <1>3, <1>6, <1>7 DEF JournalInv

\* The same once the file system has written back the oldest change: the disk
\* has lost no ticket that is not gone.
LEMMA PersistJournal ==
  ASSUME StoreInv, JournalInv, Persist
  PROVE  /\ JournalInv'
         /\ \A t \in Ticket \ gone : OnDisk(disk, t) => OnDisk(disk', t)
<1> DEFINE n == Len(journal)
<1>1. journal \in Seq(Changes) /\ journal # <<>> /\ disk \in [File -> Content]
  BY DEF StoreInv, DirInv, Changes, Persist
<1>2. n \in Nat \ {0}
  BY <1>1, FirstOf
<1>3. /\ journal' = Tail(journal) /\ Len(journal') = n - 1
      /\ disk' = [disk EXCEPT ![Head(journal).file] = Head(journal).to]
      /\ UNCHANGED <<files, gone>>
  BY <1>1, <1>2 DEF Persist
<1>4. \A i \in 0 .. n - 1, f \in File : \A v :
        After(journal', disk', i, f, v) <=> After(journal, disk, i + 1, f, v)
  BY <1>1, <1>3, AfterTail
<1> HIDE DEF n
<1>5. \A i \in 0 .. n - 1, t \in Ticket :
        Present(journal', disk', i, t) <=> Present(journal, disk, i + 1, t)
  BY <1>4, FilesDiffer DEF Present
<1>6. \A f \in File : After(journal', disk', n - 1, f, files'[f])
  <2>1. n - 1 \in 0 .. n - 1 /\ (n - 1) + 1 = n
    BY <1>2
  <2>2. \A f \in File : After(journal, disk, n, f, files[f])
    BY DEF JournalInv, n
  <2> QED
    BY <1>3, <1>4, <2>1, <2>2
<1>7. ASSUME NEW i \in 1 .. n - 1, NEW t \in Ticket \ gone', Present(journal', disk', i - 1, t)
      PROVE  Present(journal', disk', i, t)
  <2>1. i - 1 \in 0 .. n - 1 /\ i \in 0 .. n - 1 /\ (i - 1) + 1 = i /\ i + 1 \in 1 .. n
        /\ (i + 1) - 1 = i
    BY <1>2
  <2>2. Present(journal, disk, i, t)
    BY <1>5, <1>7, <2>1
  <2>3. Present(journal, disk, i + 1, t)
    BY <1>3, <2>1, <2>2 DEF JournalInv, n
  <2> QED
    BY <1>5, <2>1, <2>3
<1>8. ASSUME NEW t \in Ticket \ gone, OnDisk(disk, t)
      PROVE  OnDisk(disk', t)
  <2>1. \A l, d, f, v : After(l, d, 0, f, v) <=> v = d[f]
    BY DEF After
  <2>2. Present(journal, disk, 0, t)
    BY <1>8, <2>1 DEF Present, OnDisk
  <2>3. 1 \in 1 .. n /\ 1 - 1 = 0 /\ 0 \in 0 .. n - 1 /\ 0 + 1 = 1
    BY <1>2
  <2>4. Present(journal, disk, 1, t)
    BY <2>2, <2>3 DEF JournalInv, n
  <2>5. Present(journal', disk', 0, t)
    BY <1>5, <2>3, <2>4
  <2> QED
    BY <2>1, <2>5 DEF Present, OnDisk
<1> QED
  BY <1>3, <1>6, <1>7, <1>8 DEF JournalInv

\* A command that moves on, or changes the directory, minds its own rename;
\* the others are told that they were disturbed.
LEMMA BecomeRename ==
  ASSUME StoreInv, RenameInv, NEW p \in Proc, NEW r, Become(p, r), files' = files,
         RenamingInv(r, files)
  PROVE  RenameInv'
<1>1. \A q \in Proc : proc'[q] = IF q = p THEN r ELSE proc[q]
  BY DEF Become, StoreInv
<1> QED
  BY <1>1 DEF RenameInv

LEMMA ChangeRename ==
  ASSUME StoreInv, RenameInv, NEW p \in Proc, NEW f \in File, NEW v, NEW r,
         Change(p, f, v, r), RenamingInv(r, files')
  PROVE  RenameInv'
<1> SUFFICES ASSUME NEW q \in Proc
             PROVE  RenamingInv(proc'[q], files')
  BY DEF RenameInv
<1>1. CASE q = p
  BY <1>1 DEF Change
<1>2. CASE q # p /\ proc[q].op = "Rename"
  <2>1. proc'[q] = [proc[q] EXCEPT !.met = {proc[q].to}]
    BY <1>2 DEF Change
  <2>2. proc[q] \in Command
    BY DEF StoreInv
  <2>3. /\ proc'[q].op = "Rename" /\ proc'[q].pc = proc[q].pc /\ proc'[q].file = proc[q].file
        /\ proc'[q].from = proc[q].from /\ proc'[q].to = proc[q].to /\ proc'[q].met # {}
    BY <1>2, <2>1, <2>2 DEF Command
  <2> QED
    BY <1>2, <2>3 DEF RenameInv, RenamingInv
<1>3. CASE q # p /\ proc[q].op # "Rename"
  <2>1. proc[q] \in Command
    BY DEF StoreInv
  <2>2. proc'[q].op = proc[q].op
    BY <1>3, <2>1 DEF Change, Command
  <2> QED
    BY <1>3, <2>2 DEF RenamingInv
<1> QED
  BY <1>1, <1>2, <1>3

\* A load of a rename, and of any other command.
LEMMA LoadedRename ==
  ASSUME StoreInv, NEW r, CommandInv(r), r.pc \in {"exists", "read"}, RenamingInv(r, files),
         NEW v, v # NoFile => v = files[r.file], NEW s \in Loaded(r, v)
  PROVE  RenamingInv(s, files)
<1>1. RenamingInv(Idle, files) /\ r \in Command
  BY DEF RenamingInv, Idle, CommandInv
<1>2. CASE r.op = "Rename"
  <2>1. s \in RenameLoaded(r, v)
    BY <1>2 DEF Loaded
  <2>2. CASE r.file = r.to /\ r.to # r.from
    <3>1. s = Idle \/ s = [r EXCEPT !.pc = "exists", !.file = r.from]
      BY <2>1, <2>2 DEF RenameLoaded
    <3>2. CASE s = [r EXCEPT !.pc = "exists", !.file = r.from]
      <4>1. s.pc = "exists" /\ s.file = r.from /\ s.from = r.from
        BY <1>1, <3>2 DEF Command
      <4> QED
        BY <4>1 DEF RenamingInv, Writing
    <3> QED
      BY <1>1, <3>1, <3>2
  <2>3. CASE ~(r.file = r.to /\ r.to # r.from)
    <3>1. r.from # r.to => r.file = r.from
      BY <1>2, <2>3 DEF RenamingInv
    <3>2. s = Idle \/ (s = Write(r, r.to, v) /\ v # NoFile)
      BY <2>1, <2>3 DEF RenameLoaded, SavePeer
    <3>3. CASE s = Write(r, r.to, v) /\ v # NoFile
      <4>1. /\ s.op = r.op /\ s.pc \in {"ensure", "create"} /\ s.file = r.to /\ s.to = r.to
            /\ s.from = r.from /\ s.data = v /\ v = files[r.file]
        BY <1>1, <3>3 DEF Write, Command
      <4> QED
        BY <3>1, <4>1 DEF RenamingInv, Writing
    <3> QED
      BY <1>1, <3>2, <3>3
  <2> QED
    BY <2>2, <2>3
<1>3. CASE r.op # "Rename"
  <2>1. \A f, w : Write(r, f, w).op = r.op
    BY <1>1 DEF Write, Command
  <2>2. \/ s = Idle
        \/ \E f, w : s = Write(r, f, w)
        \/ s = [r EXCEPT !.pc = "exists", !.from = ConfigFile]
    BY <1>3 DEF Loaded, IdentityLoaded, AddLoaded, SavePeer, SetLoaded, ExportLoaded, ImportLoaded
  <2>3. [r EXCEPT !.pc = "exists", !.from = ConfigFile].op = r.op
    BY <1>1 DEF Command
  <2>4. s.op \in {"none", r.op}
    <3>1. CASE s = Idle
      BY <3>1 DEF Idle
    <3>2. CASE \E f, w : s = Write(r, f, w)
      BY <2>1, <3>2
    <3>3. CASE s = [r EXCEPT !.pc = "exists", !.from = ConfigFile]
      BY <2>3, <3>3
    <3> QED
      BY <2>2, <3>1, <3>2, <3>3
  <2> QED
    BY <1>3, <2>4 DEF RenamingInv
<1> QED
  BY <1>2, <1>3

\* Every step keeps the invariant, and no step takes a ticket off the disk
\* that is not gone by then.
LEMMA NextKeep ==
  KeepInv /\ [Next]_vars
    => KeepInv' /\ \A t \in Ticket \ gone' : OnDisk(disk, t) => OnDisk(disk', t)
<1> SUFFICES ASSUME KeepInv, [Next]_vars
             PROVE  KeepInv' /\ \A t \in Ticket \ gone' : OnDisk(disk, t) => OnDisk(disk', t)
  OBVIOUS
<1> DEFINE Kept == JournalInv' /\ RenameInv'
<1>1. StoreInv /\ JournalInv /\ RenameInv /\ StoreInv' /\ proc \in [Proc -> Command]
  BY NextStore DEF KeepInv, StoreInv
<1>2. RenamingInv(Idle, files)
  BY DEF RenamingInv, Idle
<1>3. ASSUME NEW p \in Proc, NEW r, Become(p, r), RenamingInv(r, files),
             UNCHANGED <<files, disk, journal>>, gone \subseteq gone'
      PROVE  Kept
  BY <1>1, <1>3, JournalSame, BecomeRename
<1>4. CASE Persist
  <2>1. RenameInv'
    BY <1>1, <1>4 DEF Persist, RenameInv
  <2>2. gone' = gone
    BY <1>4 DEF Persist
  <2> QED
    BY <1>1, <1>4, <2>1, <2>2, PersistJournal DEF KeepInv
<1>5. CASE PowerLoss
  <2>1. /\ disk' = disk /\ files' = disk /\ journal' = <<>> /\ Len(journal') = 0
        /\ proc' = [p \in Proc |-> Idle]
    BY <1>1, <1>5, PowerLossKeeps DEF PowerLoss
  <2>2. \A f \in File : After(journal', disk', 0, f, files'[f])
    BY <2>1 DEF After
  <2>3. JournalInv'
    BY <2>1, <2>2 DEF JournalInv
  <2>4. RenameInv'
    BY <2>1 DEF RenameInv, RenamingInv, Idle
  <2> QED
    BY <1>1, <2>1, <2>3, <2>4 DEF KeepInv
<1>6. ASSUME NEW p \in Proc, Begin(p)
      PROVE  Kept
  <2>1. PICK r \in Commands : Become(p, r)
    BY <1>6 DEF Begin
  <2>2. r.op = "Rename" => r.pc = "list" \/ (r.pc = "exists" /\ r.file = r.to)
    BY <1>1, <2>1, CommandsInv
  <2>3. RenamingInv(r, files)
    BY <2>2 DEF RenamingInv, Writing
  <2> QED
    BY <1>3, <1>6, <2>1, <2>3 DEF Begin
<1>7. ASSUME NEW p \in Proc, Crash(p) \/ WriteFails(p)
      PROVE  Kept
  <2>1. Become(p, Idle) /\ UNCHANGED <<files, disk, journal, gone>>
    BY <1>7 DEF Crash, WriteFails
  <2> QED
    BY <1>2, <1>3, <2>1
<1>8. ASSUME NEW p \in Proc,
             EnsureDir(p) \/ CreateTmp(p) \/ ApplyPermissions(p) \/ WriteData(p) \/ SyncData(p)
      PROVE  Kept
  <2>1. /\ UNCHANGED <<files, disk, journal, gone>> /\ proc[p].pc \in Writing
        /\ \E pc \in Writing : Become(p, [proc[p] EXCEPT !.pc = pc])
    BY <1>8 DEF EnsureDir, CreateTmp, ApplyPermissions, WriteData, SyncData, Writing
  <2>2. PICK pc \in Writing : Become(p, [proc[p] EXCEPT !.pc = pc])
    BY <2>1
  <2> DEFINE s == [proc[p] EXCEPT !.pc = pc]
  <2>3. proc[p] \in Command
    BY <1>1
  <2>4. /\ s.op = proc[p].op /\ s.pc \in Writing /\ s.file = proc[p].file /\ s.to = proc[p].to
        /\ s.from = proc[p].from /\ s.met = proc[p].met /\ s.data = proc[p].data
    BY <2>3 DEF Command
  <2> HIDE DEF s
  <2>5. RenamingInv(s, files)
    BY <1>1, <2>1, <2>4 DEF RenameInv, RenamingInv, Writing
  <2> QED
    BY <1>3, <2>1, <2>2, <2>5 DEF s
<1>9. ASSUME NEW p \in Proc, RenameTmp(p)
      PROVE  Kept
  <2> DEFINE r == proc[p]
             w == Written(r)
  <2>1. /\ tmp[p].data = r.data /\ Holds(r.file, r.data) /\ CommandInv(r) /\ r.pc = "rename"
        /\ disk' = disk /\ r \in Command
    BY <1>1, <1>9, RenameTmpKeeps DEF RenameTmp, StoreInv
  <2>2. r.file \in File /\ r.data \in Content
    BY <2>1 DEF CommandInv, OpensFile, Writing, Holds, Content
  <2>3. /\ Change(p, r.file, r.data, w) /\ gone \subseteq gone'
        /\ gone' = gone \cup ({files[r.file]} \cap (Ticket \ {r.data}))
    BY <1>9, <2>1 DEF RenameTmp
  <2>4. files' = [files EXCEPT ![r.file] = r.data] /\ files \in [File -> Content]
    BY <1>1, <2>3 DEF Change, StoreInv, DirInv
  <2>5. ASSUME NEW t \in Ticket \ gone', NEW g \in PeerFiles, files[g] = t
        PROVE  \E h \in PeerFiles : files'[h] = t
    BY <2>2, <2>3, <2>4, <2>5, FilesDiffer
  <2>6. RenamingInv(w, files')
    <3>1. CASE r.op = "Rename"
      <4>1. /\ w.pc = "remove" /\ w.file = r.from /\ w.from = r.from /\ w.to = r.to
            /\ w.data = r.data
        BY <2>1, <3>1 DEF Written, Command
      <4>2. /\ r.file = r.to /\ r.to \in File /\ r.from \in File
            /\ w.met = {} /\ r.from # r.to => files[r.from] = r.data
        <5>1. w.met = r.met
          BY <2>1, <3>1 DEF Written, Command
        <5>2. RenamingInv(r, files)
          BY <1>1 DEF RenameInv
        <5>3. r.to \in File /\ r.from \in File
          BY <2>1, <3>1, FilesDiffer DEF CommandInv
        <5> QED
          BY <2>1, <3>1, <5>1, <5>2, <5>3 DEF RenamingInv, Writing
      <4> HIDE DEF w
      <4> QED
        BY <2>4, <4>1, <4>2 DEF RenamingInv, Writing
    <3>2. CASE r.op # "Rename"
      BY <3>2 DEF RenamingInv, Written, Idle
    <3> QED
      BY <3>1, <3>2
  <2>7. JournalInv'
    BY <1>1, <2>1, <2>2, <2>3, <2>5, ChangeJournal
  <2>8. RenameInv'
    BY <1>1, <2>2, <2>3, <2>6, ChangeRename
  <2> QED
    BY <2>7, <2>8
<1>10. ASSUME NEW p \in Proc, Exists(p) \/ Read(p)
       PROVE  Kept
  <2> DEFINE r == proc[p]
  <2>1. /\ UNCHANGED <<files, disk, journal, gone>> /\ r.pc \in {"exists", "read"}
        /\ CommandInv(r) /\ r \in Command /\ RenamingInv(r, files)
    BY <1>1, <1>10 DEF Exists, Read, StoreInv, RenameInv
  <2>2. ASSUME NEW v, v # NoFile => v = files[r.file], NEW s \in Loaded(r, v), Become(p, s)
        PROVE  Kept
    <3>1. RenamingInv(s, files)
      BY <1>1, <2>1, <2>2, LoadedRename
    <3> QED
      BY <1>3, <2>1, <2>2, <3>1
  <2>3. ASSUME NEW s, s = [r EXCEPT !.pc = IF r.op \in {"Unset", "Reset"} THEN "remove" ELSE "read"],
               Become(p, s)
        PROVE  Kept
    <3>1. /\ s.op = r.op /\ s.file = r.file /\ s.from = r.from /\ s.to = r.to
          /\ s.op = "Rename" => s.pc = "read"
      BY <2>1, <2>3 DEF Command
    <3>2. RenamingInv(s, files)
      BY <2>1, <3>1 DEF RenamingInv, Writing
    <3> QED
      BY <1>3, <2>1, <2>3, <3>2
  <2>4. CASE Become(p, Idle)
    BY <1>2, <1>3, <2>1, <2>4
  <2> QED
    BY <1>10, <2>2, <2>3, <2>4 DEF Exists, Read
<1>11. ASSUME NEW p \in Proc, RemoveFile(p)
       PROVE  Kept
  <2> DEFINE r == proc[p]
  <2>1. /\ r.pc = "remove" /\ disk' = disk /\ CommandInv(r) /\ gone \subseteq gone'
        /\ RenamingInv(r, files)
    BY <1>1, <1>11 DEF RemoveFile, StoreInv, RenameInv
  <2>2. r.file \in File /\ NoFile \in Content
    BY <2>1 DEF CommandInv, OpensFile, Content
  <2>3. CASE Become(p, Idle) /\ UNCHANGED <<files, journal>>
    BY <1>2, <1>3, <2>1, <2>3
  <2>4. CASE Change(p, r.file, NoFile, Idle)
    <3>1. files' = [files EXCEPT ![r.file] = NoFile] /\ files \in [File -> Content]
      BY <1>1, <2>4 DEF Change, StoreInv, DirInv
    <3>2. ASSUME NEW t \in Ticket \ gone', NEW g \in PeerFiles, files[g] = t
          PROVE  \E h \in PeerFiles : files'[h] = t
      <4>1. CASE g # r.file
        BY <3>1, <3>2, <4>1, FilesDiffer
      <4>2. CASE g = r.file
        <5>1. r.op = "Rename" /\ r.from # r.to /\ r.met = {}
          BY <1>11, <3>2, <4>2 DEF RemoveFile
        <5>2. r.file = r.from /\ files[r.from] = r.data /\ files[r.to] = r.data
          BY <2>1, <5>1 DEF RenamingInv
        <5>3. r.to \in PeerFiles
          BY <2>1, <5>1 DEF CommandInv
        <5>4. files'[r.to] = t
          BY <3>1, <3>2, <4>2, <5>1, <5>2, <5>3, FilesDiffer
        <5> QED
          BY <5>3, <5>4
      <4> QED
        BY <4>1, <4>2
    <3>3. RenamingInv(Idle, files')
      BY DEF RenamingInv, Idle
    <3>4. JournalInv'
      BY <1>1, <2>1, <2>2, <2>4, <3>2, ChangeJournal
    <3>5. RenameInv'
      BY <1>1, <2>2, <2>4, <3>3, ChangeRename
    <3> QED
      BY <3>4, <3>5
  <2> QED
    BY <1>11, <2>3, <2>4 DEF RemoveFile
<1>12. ASSUME NEW p \in Proc, ReadDir(p) \/ NextEntry(p) \/ ReadEntry(p) \/ Pick(p)
       PROVE  Kept
  <2> DEFINE r == proc[p]
  <2>1. UNCHANGED <<files, disk, journal, gone>> /\ r \in Command
    BY <1>1, <1>12 DEF ReadDir, NextEntry, ReadEntry, Pick
  <2>2. ASSUME NEW s, Become(p, s), s.pc \in {"each", "entry"}
        PROVE  Kept
    <3>1. RenamingInv(s, files)
      BY <2>2 DEF RenamingInv, Writing
    <3> QED
      BY <1>3, <2>1, <2>2, <3>1
  <2>3. CASE Become(p, Idle)
    BY <1>2, <1>3, <2>1, <2>3
  <2>4. CASE ReadDir(p)
    <3>1. \A x : [r EXCEPT !.pc = "each", !.todo = x].pc = "each"
      BY <2>1 DEF Command
    <3> QED
      BY <2>2, <2>4, <3>1 DEF ReadDir
  <2>5. CASE NextEntry(p)
    <3>1. PICK f \in r.todo :
            Become(p, IF files[f] = NoFile /\ r.op \notin {"Revoke", "Devices"}
                      THEN [r EXCEPT !.todo = @ \ {f}]
                      ELSE [r EXCEPT !.pc = "entry", !.file = f, !.todo = @ \ {f}])
      BY <2>5 DEF NextEntry
    <3>2. /\ [r EXCEPT !.todo = @ \ {f}].pc = "each"
          /\ [r EXCEPT !.pc = "entry", !.file = f, !.todo = @ \ {f}].pc = "entry"
      BY <2>1, <2>5 DEF Command, NextEntry
    <3> QED
      BY <2>2, <3>1, <3>2
  <2>6. CASE ReadEntry(p)
    <3>1. /\ [r EXCEPT !.pc = "each", !.seen = @ \cup {r.file}].pc = "each"
          /\ [r EXCEPT !.pc = "each"].pc = "each"
      BY <2>1 DEF Command
    <3> QED
      BY <2>2, <2>3, <2>6, <3>1 DEF ReadEntry
  <2>7. CASE Pick(p) /\ ~Become(p, Idle)
    <3>1. PICK f \in r.seen : Become(p, Picked(r, f))
      BY <2>7 DEF Pick
    <3> DEFINE s == Picked(r, f)
    <3>2. s.op = "Rename" => s.pc = "exists" /\ s.file = s.to
      BY <2>1 DEF Picked, Command, Idle
    <3> HIDE DEF s
    <3>3. RenamingInv(s, files)
      BY <3>2 DEF RenamingInv, Writing
    <3> QED
      BY <1>3, <2>1, <3>1, <3>3 DEF s
  <2> QED
    BY <1>12, <2>3, <2>4, <2>5, <2>6, <2>7
<1>13. ASSUME NEW p \in Proc, ResetEntry(p)
       PROVE  Kept
  <2>1. disk' = disk /\ gone' = gone /\ proc[p].op = "Reset" /\ proc[p] \in Command
    BY <1>1, <1>13 DEF ResetEntry, StoreInv, CommandInv
  <2>2. CASE UNCHANGED <<files, journal, proc>>
    BY <1>1, <2>1, <2>2, JournalSame DEF RenameInv
  <2>3. CASE ~UNCHANGED <<files, journal, proc>>
    <3>1. PICK f \in TrustFiles : Change(p, f, NoFile, [proc[p] EXCEPT !.todo = @ \ {f}])
      BY <1>13, <2>3 DEF ResetEntry
    <3> DEFINE s == [proc[p] EXCEPT !.todo = @ \ {f}]
    <3>2. s.op = "Reset" /\ f \in File /\ NoFile \in Content
      BY <2>1, FilesDiffer DEF Command, Content
    <3> HIDE DEF s
    <3>3. RenamingInv(s, files')
      BY <3>2 DEF RenamingInv
    <3>4. files' = [files EXCEPT ![f] = NoFile] /\ files \in [File -> Content]
      BY <1>1, <3>1 DEF Change, StoreInv, DirInv
    <3>5. \A t \in Ticket \ gone', g \in PeerFiles :
            files[g] = t => \E h \in PeerFiles : files'[h] = t
      BY <3>4, FilesDiffer
    <3>6. JournalInv'
      BY <1>1, <2>1, <3>1, <3>2, <3>5, ChangeJournal
    <3>7. RenameInv'
      BY <1>1, <3>1, <3>2, <3>3, ChangeRename DEF s
    <3> QED
      BY <3>6, <3>7
  <2> QED
    BY <2>2, <2>3
<1>14. ASSUME NEW p \in Proc, ResetDir(p)
       PROVE  Kept
  <2>1. /\ UNCHANGED <<files, disk, journal, gone>>
        /\ proc[p].op = "Reset" /\ proc[p] \in Command
    BY <1>1, <1>14 DEF ResetDir, StoreInv, CommandInv
  <2> DEFINE s == [proc[p] EXCEPT !.pc = "exists", !.file = Shadow, !.todo = {}, !.met = {}]
  <2>2. s.op = "Reset"
    BY <2>1 DEF Command
  <2>3. Become(p, s) \/ Become(p, Idle)
    BY <1>14 DEF ResetDir
  <2> HIDE DEF s
  <2>4. RenamingInv(s, files)
    BY <2>2 DEF RenamingInv
  <2> QED
    BY <1>2, <1>3, <2>1, <2>3, <2>4
<1>15. CASE UNCHANGED vars
  BY <1>1, <1>15, JournalSame DEF vars, RenameInv, KeepInv
<1>16. ASSUME Kept, disk' = disk
       PROVE  KeepInv' /\ \A t \in Ticket \ gone' : OnDisk(disk, t) => OnDisk(disk', t)
  BY <1>1, <1>16 DEF KeepInv
<1>17. Persist \/ disk' = disk
  BY <1>1, DiskSteps
<1> HIDE DEF Kept
<1> QED
  BY <1>4, <1>5, <1>6, <1>7, <1>8, <1>9, <1>10, <1>11, <1>12, <1>13, <1>14, <1>15, <1>16, <1>17
  DEF Next

\* A profile leaves the disk only if somebody removed it or wrote over it:
\* never because a rename died, failed or lost power half way (rename_peer).
THEOREM ProfilesStay == Spec => ProfilesKept
<1>1. Init => KeepInv
  <2> SUFFICES ASSUME Init
               PROVE  JournalInv /\ RenameInv
    BY InitStore DEF KeepInv
  <2>1. Len(journal) = 0 /\ disk = files
    BY DEF Init
  <2>2. JournalInv
    BY <2>1 DEF JournalInv, After
  <2>3. RenameInv
    BY DEF Init, RenameInv, RenamingInv, Idle
  <2> QED
    BY <2>2, <2>3
<1>2. KeepInv /\ [Next]_vars
        => [\A t \in Ticket \ gone' : OnDisk(disk, t) => OnDisk(disk', t)]_vars
  BY NextKeep
<1>3. KeepInv /\ [Next]_vars => KeepInv'
  BY NextKeep
<1> QED
  BY <1>1, <1>2, <1>3, PTL DEF Spec, ProfilesKept
=============================================================================
