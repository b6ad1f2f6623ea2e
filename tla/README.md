# A TLA+ model of irosh

irosh is SSH between devices that know each other by public key instead of by
address: a node runs a daemon, a client dials it over iroh (QUIC, relays, hole
punching), and an ordinary SSH session runs on the first stream of the
connection.  Further streams of the same connection carry file transfers and
metadata.  A device is added either by hand (`irosh trust`), on first use, or
by a short *wormhole* code under which the node publishes its ticket in a
public directory.

This directory models the daemon (who is let in, what happens to the wormhole,
to the processes behind a connection and to the files that are transferred),
the client (how it finds, checks and leaves a node, and the terminal it puts
around a remote shell) and the state directory both share.  Paths below are
relative to `src/src` of the repository; those that begin with `cli` or `docs`
are relative to `src`.

## 1. Inventory

| Component | State | Operations | Interacts with |
|---|---|---|---|
| Authentication (`auth/unified.rs`) | cached vault behind a mutex, failure counter, time of the last failure, cached key of the handshake | `check_public_key`, `check_password` | vault and shadow file on disk, success and failure channels of the main loop |
| Main loop (`server/mod.rs`) | wormhole slot, `shutdown_requested` | enable, disable, status, shutdown, success, failure, drain, cleanup | control channel, sessions, broadcast and expiry tasks |
| IPC listener (`server/ipc.rs`) | one task per connection | forward a command, wait ten seconds | control channel |
| Protocol handler (`server/protocol.rs`) | session count, tracker, the pairing session's copy of the slot | `accept` | main loop (slot), authentication, channels, side streams |
| Rendezvous (`transport/wormhole.rs`) | one signed record per code | publish every 60 s, unpublish | the directory (external) |
| Channels (`server/handler`) | channel map, idle map, shell pid, tokens, queues | the SSH callbacks; reader task, writer thread, waiter, idle reaper, sweep | child processes, transfers (shell pid) |
| Side streams (`server/side_streams.rs`) | gate | accept, read the magic, wait, dispatch | handler (owner of the gate), transfers |
| Transfers (`server/transfer`, `client/transfer`, codecs) | partial files | put and get of files and directories | shell context, storage |
| Blob transfers (`server/transfer/files/blob.rs`, the client's counterparts) | memory budget of the connection, blob store, destination | put a file or a collection, get a hash | semaphore shared by the streams |
| Client (`client/`, `cli/src/commands/connect`) | endpoints and connections that are open, pinned host keys, address book | resolve, search, dial, handshake, authenticate, save, shell, exec, disconnect | rendezvous, storage, user |
| Terminal (`cli/src/commands/connect/input`, `session.rs`) | edited line, history, queue of actions, held output | type, submit, complete, resize, run an action | remote shell, transfers |
| Storage (`storage/`, the commands that edit it) | vault, peers, identity, shadow file, configuration | atomic write, load, list, delete, rotate, reset | everything above, several processes |

What is hard here:

* **Concurrency.**  Every SSH session calls the authenticator on a blocking
  thread of its own, so two calls interleave at every mutex and atomic.  The
  main loop owns the wormhole but sessions copy it.  Each command runs five
  concurrent parties over one map.
* **Notices that name nothing.**  Success, failure and expiry reach the main
  loop as unit messages on channels of capacity one, some by `try_send`.
* **Time.**  Lockout window, 24 hours of a wormhole, republishing, ten seconds
  of an IPC client, 500 ms and 30 s of a reader task, idle timeout.
* **Failure.**  Unreadable vault records, lost, late and reordered directory
  records, peers that vanish, children that detach, processes that die and
  power that fails between two system calls.
* **Shared files without a lock.**  The daemon and any number of command lines
  read and replace the same files.
* **Chunks.**  A terminal delivers bytes cut anywhere, through keys and escape
  sequences, while output arrives that must not be lost.

What makes each part correct, in short: only keys with a reason get into the
vault, guesses are bounded, and trust is not lost to a race; the slot and its
tasks stay in step, used-up wormholes burn, commands are answered, the daemon
stops when asked; a code that was given up stops resolving and one that is
active resolves; nothing of a channel outlives it; side streams wait for
authentication; a target is a whole file or what it was; memory stays within its
budget and nobody waits for it forever; a file of the state directory is
replaced whole or not at all and an identity is not lost; a client refuses a
changed host key, says which of its ends leave something open, and ends; the
terminal loses no output and notices the end.  `PROJECT.json` lists the hazards
one by one with the properties aimed at them.

## 2. Modules

| Module | Models | Proofs |
|---|---|---|
| `UnifiedAuth` | the authentication policy under concurrent sessions | `UnifiedAuthProofs` |
| `Server` | the main loop, control channel, sessions, wormhole slot | `ServerProofs` |
| `Rendezvous` | the records of wormhole codes in the directory | `ConnectProofs` |
| `Channels` | the channels of one connection and their processes | `ChannelsProofs` |
| `SideStreams` | the side streams of one connection and the gate | `ConnectionProofs` |
| `Transfers` | uploads and downloads of files and directories, and questions about the remote shell's directory, both sides | `TransfersProofs` |
| `Blobs` | content-addressed transfers and their memory budget | `ConnectionProofs` |
| `Connection` | side streams behind the gate and the content-addressed transfers they carry, composed | `ConnectionProofs` |
| `AtomicFiles` | abstract: what the storage promises of its files | `StorageProofs` |
| `Storage` | the state directory and the commands that change it, call by call | `StorageProofs` |
| `Connect` | `irosh connect`, composed with `Rendezvous` | `ConnectProofs` |
| `Terminal` | the interactive client: input engine and session loop | `TerminalProofs` |

`MC*` modules give TLC model values, symmetry sets and the functions the
configurations name.

`Connect` extends `Rendezvous`: one behaviour holds the daemon that publishes,
the directory and the client that polls it, each step moving one of them.
`Connection` extends `SideStreams` and `Blobs`: a step is one of the side
streams or one of a transfer, and each is restricted by the other, as a transfer
moves only on a stream that is served and the task of a stream ends only when
its transfer has.
`Storage` implements `AtomicFiles` (`FilesAtomic`): a process
asks for a replacement when it enters `atomic_write_secure`, the rename applies
it, the journal of the file system is the log the disk has yet to hear of.  The
other specifications share no variables; they meet at narrow interfaces, each
modelled on both sides: `UnifiedAuth` sends the notices (`notices`) that
`Server` receives (`successQ`, `failureQ`), `Server` decides which wormhole is
active and `Rendezvous` what that does to the directory, `Channels` owns the
shell pid that transfers use, `SideStreams` holds them back until the session
is in, `Transfers` is, like `Blobs`, what one of them then does, `Connect` ends
where `Terminal` begins, and `Storage` has the steps of the files that
`UnifiedAuth` and `Connect` read in one.

### UnifiedAuth

A call is a program counter per session; a label is a point where another call
can get in between: the load of the counter, the read of the failure time, the
decay, the first look into the cache, the read of the vault, the store of what
was read, the second look (which keeps the mutex), the shadow file, the
adoption, the two halves of `record_failure`, and the `try_send` that follows
the count.  The channel of that notice has one place, so a notice that finds an
unread one is lost; the main loop takes notices at any time (`TakeFailure`).
Direct sessions share the authenticator `Base`; a pairing session has its own
cache and failure time but counts on the wormhole's counter.  The command line
is a third party that changes vault and shadow file under the daemon.

Abstractions: a password is *node*, *temp* (the passcode) or *wrong*; a vault
read is one step whose result may miss records when `ReadFaults`; the clock is
the age of the last failure, saturating just beyond the window; `Serial`
restricts behaviours to one call at a time, to separate what the policy
guarantees from what concurrency takes away (it is used by a theorem).  The
host-key policy is chosen from `Policies` at the start and never changes.

### Server

`loop` says where `Server::run` is.  The loop checks, selects, handles one
message whole, and checks again; the only place where it waits in the middle of
a handler is the send to the IPC listener (`notify_ipc`).  Each channel is a
sequence or, if it carries unit messages, a count.  Wormholes are numbered in
the order they are enabled, so that a stale notice can be told from a fresh one.
The failure limit is checked and counted in one step here; `UnifiedAuth` takes
that apart.  One run of the daemon is modelled: nothing of the wormhole is on
disk.

A server is built in one of `Modes`: with the IPC listener or without, stopping
after a pairing or not.  A broadcast task may end with an error
(`BroadcastFails`), which leaves the slot filled and nothing published.  In a
server without the listener the channel that stops it is never read, so that the
loop blocks for good at the second shutdown request (`Wedged`); the properties
name that state, and promise nothing in it.

### Rendezvous

The directory keeps, per code, the record signed last; that is the contract of
the external service as `wormhole.rs` uses it.  A wormhole's task signs its
record once and publishes it again and again; each publication and each
tombstone can be lost, late or reordered, and aborting the task does not call
back what it has sent.  Tickets that nobody refreshes expire.  A code may be
enabled again.  An abort takes effect where the task next waits, so a task that
runs at that moment may still sign or send once (`stopping`, `late`); building
the client or signing the record may fail, which ends the broadcast
(`SignFails`).

### Channels

One connection on Unix.  The SSH session runs the handler's callbacks one at a
time; beside it run, per command, the child and whoever else has its PTY open,
the thread that waits for it, the task that reads the PTY (`task`: waiting for
both reader and child, for one of them within its timeout, closing, done) and
the thread that writes to it, and once per connection the idle reaper.  A
channel runs one command at a time, and is used again, which `or_default()` in
`start_command` allows, once nothing of the earlier command is left (`Settled`, a
bound).  A start may also fail after the child was spawned and the shell's pid
registered (`StartBreaks`, the `?` returns of `exec.rs:281-324`): the session
ends, nobody waits for the child (`orphan`), and nobody kills it unless its entry
was already filled.  Its PTY is hung up as the master is dropped; whether it dies
of that is up to it.  The process group is taken to be the processes that
have the PTY open.  `quiet` names the channels silent for longer than the timeout.

### SideStreams

The listener, one task per accepted stream and the session whose handler owns
the gate's sender.  Serving a stream is one state; `Connection` says what is
done in it when the stream is a transfer.

### Transfers

Uploads and downloads, of a file and of a directory, each on a stream of its
own.  In both directions one side sends and one receives, so the module has a
`Sender` and a `Receiver`, each a program counter per transfer (`snd`, `rcv`),
and sets of transfers (`Puts`, `Gets`, `Recursive`) that say which of the four
pairs of functions an action stands for.  A stream is a queue of frames per
direction with room for `Window`; a side that has ended can still be read from
but no longer written to.  A file's content is the sequence of who wrote each
chunk, which is what mixing two uploads would spoil.  The size a sender looked
at and the size it then finds are different variables (`looked`, `source`).
Every open, read, write, flush, helper, rename and copy may fail; the
connection may be lost; a client's call may be dropped.

A write to a `tokio::fs::File` reports its failure at the next write or flush
(`Torn` stands for the chunk that is missing, `Written` for no such failure
pending).  The client of a get flushes and looks at the result; the server of a
put drops it (`server/transfer/files/upload.rs:151, 314`), and the flush that
follows in `helpers.rs:135-146` has nothing left to report, so that an upload
whose last write failed is saved and confirmed (`Flushed`).  A put writes either
to such a file or to a helper process, which reports by the way it ends; the
model leaves open which.  A helper that was started and is not waited for may
make its part file after the removal (`OpenFails`).  The removal of a part file
itself is taken to succeed.

Abstractions: entries that are directories, modes and paths are left out; the
two ways of walking a remote directory are one; unexpected frames do not occur,
as both sides run this code.  A copy that replaces a failed rename is one step.

A question (`Asks`: cwd, exists, completion) has the server as its sender.  The
`ShellContext` is taken when the stream is dispatched, before the question is
read; then come the directory and the helpers, one step each, while shells are
started, move, exit and are replaced.  A pid is not reused.  What the client
keeps of an answer is the place it is about: a directory, or `Fixed` for a path
that does not depend on one.

### Blobs

One connection's streams over the shared semaphore: an upload of one blob or of
a directory's blobs behind length prefixes, and a download by hash.  The
server's handler is a record per stream (`tx`): what it reads, how much it has
accumulated and reserved, and what it will answer.  `queue` is the semaphore's
first-come order.  A stream in `Strangers` belongs to a peer that sends any
frame at any time, as the handler must cope with it; the others run the client's
code, which does not wait between frames, so that sending and reading a frame
are one step.  Adding to the store, looking into it and reserving memory may
fail (`StoreFails`).  A collection that is built or exported is in memory whole
and takes no permit (`Collection`); `BudgetHolds` counts these bytes apart.
Sizes are numbers, `Unit` bytes to a permit, because rounding, empty blobs,
chunk and cap boundaries are what can go wrong.

### Connection

One connection of the server: `Carries` is the call of `handle_transfer_stream`
at the end of `handle_side_stream_dispatch`, and `Returns` is that call's
return, which waits for the handler.  Stream by stream, a side stream in
`Streams` may turn out to carry a content-addressed transfer; the others carry
metadata or nothing.  The budget, like the gate, belongs to the connection.
The end of the connection and the loss of a single transfer stay separate steps,
so that a handler may go on for a while with frames it was already given.

### AtomicFiles and Storage

`Storage` has every system call of a command as a step: create a temporary
file, restrict it, write, sync, rename, read, list, remove.  A process may die
between two of them, and a power loss takes the directory back to the disk.
The file system is external: it is taken to keep the order of changes of the
directory and to promise nothing of data that was not synced before its rename
(`Torn`).  Commands of one part of the directory (`area`) run at once; parts
share no file, so running two of them together shows nothing new.  `AtomicFiles`
knows whole replacements only, and that a power loss leads back to a state the
directory was in.

### Connect

One run of `irosh connect`, from the target (ticket, alias or code) through
search, attempts, second connection, handshake and passwords to the shell or
command and its end, with each timeout and early return.  `cl` is the process,
`cl.open` the endpoints and connections it has not closed.  Other commands of
the user change the address book and the pins at any time.  An option is chosen
at the step that first reads it.  Two waits have no timeout and are places of
their own: for the SSH stream (`stream`, `connect.rs:337`) and for the user at the
password prompt, which holds the lock of the progress bar: a timeout or Ctrl-C
that comes meanwhile goes on only after the answer (`blocked`,
`cli/src/commands/connect/mod.rs:27, 279`).  The endpoint of the search is closed
before its outcome is looked at (`closing`).

### Terminal

The engine processes a chunk byte by byte in one call and returns actions; the
loop handles them one by one, while output arrives and the remote side may end.
A byte is a symbol, and a command with its arguments is one symbol, so that
chunks cut keys, commands and line ends.  Output is numbered in the order it
arrives; the standard error of the shell is shown at once, even while a line is
edited.  Any write to the terminal may fail, which ends the session with an error
(`FailsHard`); `result` says how `drive_session` returned.  What a disconnect
closes is in `Connect`.  Drawing is left out.

## 3. Runs

Passing runs:

| Run | Instance | Checks |
|---|---|---|
| `auth_pairing` | two pairing sessions, one told the passcode; revocation and password changes | `NoStrangerVaulted`, `GuessBudget`, `ExhaustedWormholeNotified` |
| `auth_trust` | two direct sessions under each of the three policies, vault edited and read with faults, fairness | `TrustSound`, `LockoutDecays` |
| `server` | the daemon and a foreground wormhole; a client that enables a wormhole beside one with every command, a pairing session, broadcasts that fail, a shutdown handle, fairness | `TasksSound`, `ExhaustedBurns`, `PairedBurns`, `CommandsAnswered`, `LoopNotStuck`, `ShutdownOnNextEvent` |
| `channels` | one channel with an idle timeout, starts that fail before and after the spawn, fairness | `ShellPidTracked`, `ChannelsSound`, `IdleInputCloses`, `NothingLeaks` |
| `connection` | two streams of every kind, each able to carry an upload of a file or of a tree to one destination; authentication, the end of the session and of the connection at any time; fairness | `Untouched`, `GateOpens`, `TasksEnd` |
| `transfers` | an upload of a file beside one of a directory with the same file; an upload of a directory of two files; each kind of download; writes whose failure shows late; a question while two shells come and go; fairness | `WholeFiles`, `TransfersSound`, `PutsKeepOld`, `TransfersEnd` |
| `blobs` | a stream of a client beside one of a peer that sends anything; contents empty, small, full and too large; fairness | `BudgetHolds`, `HonestServed`, `TransfersSettle` |
| `storage` | two processes with any commands, deaths, failures, power loss | `FilesSound`, `ResetWipes`, `FilesAtomic`, `NodeKeepsIdentity`, `ProfilesKept` |
| `connect` | a client, the daemon's code enabled twice and given up, signing that fails, aborts that come late, records lost, late and reordered, every policy, pins and peers changed by others; fairness | `ResourcesReleased`, `HostKeysHold`, `TicketRecovered`, `ConnectSettles`, `NoResurrection`, `BurnedCodeDies`, `ActiveCodeResolves` |
| `terminal` | any four of nineteen chunks, two pieces of output or errors, writes that fail, the session ended at any point; fairness | `EditorSound`, `OutputKept`, `CloseEndsSession` |

What they say, in short.  *Authentication:* every vaulted key was granted,
adopted on first use or paired by the peer told the passcode; the number of
guesses is bounded by the limit and the sessions at work; a used-up counter has
its notice taken, unread or about to be sent, although a full channel loses one;
a key that stays in the vault is not challenged and first use adopts only into a
vault still empty (`TrustSound`); lockouts end.  *Server:* only the wormhole in
the slot has tasks; a used-up or successful wormhole burns; commands are
answered; the loop does not block on the listener but in the one state that is
named, and stops at the next event.  *Channels:* the shell pid names a tracked
shell, or one whose start failed and ended the session; no child outlives its
channel but one that outlived the 30 seconds of its reader, and the one of such
a start; the idle map forgets closed channels (`ChannelsSound`), silent channels
close, threads and tasks end.  *Connection:* ahead of authentication, while the
handler lives, no side stream is served and budget, store and destinations are
as they were found (`Untouched`); one that waits goes on once the client is in;
every task ends after the connection, its transfer with it.  *Transfers:* a
target is whole, or what it was, or lacks just the last chunk of an upload whose
last write failed; part files go, success means saved, and an answer is about a
place where the shell was (`TransfersSound`); old files stay, and both sides
end.  *Blobs:* what a connection holds in memory stays within the budget, but
for what files grow by and for collections, which take no share; an honest
transfer gets what it deserves; a transfer ends unless a peer that keeps its
connection falls silent, its own or one that holds a share.  *Storage:* the
files implement `AtomicFiles`, are private before they hold data; the identity
and an undisturbed profile stay on the disk; a reset that succeeds has wiped the
vault.  *Connect:* only the ends listed below leave something open
(`ResourcesReleased`), a changed host key is refused, the ticket of a pairing
that failed later is kept, connecting ends but for the two waits without a
timeout; a code given up stops resolving, is not brought back by rounds under
way, and an active one comes to resolve unless it could not be signed or an
older tombstone of it was signed last.  *Terminal:* line and cursor, history and
queue stay consistent, output is shown once or still held, but for a piece whose
writing failed and ended the session, and the client notices the end.

`ExhaustedBurns`, `PairedBurns` and `CommandsAnswered` except two situations:
the loop has been left and a session accepted on the way out keeps `drain`
waiting (the drain has no timeout, so nothing is promised until it ends), and the
loop is `Wedged`.  `PairedBurns` says that the wormhole of a pairing burns, not
that no other one does.

`ResourcesReleased` lists the ends that leave endpoint and connections to the
exit of the process (`Leaky`): an identity or a pin that cannot be read once the
connections are up (`client/connect.rs:320, 332`); the `?` returns between the
session and its end, for a server that refuses the channel, the PTY, the shell or
the command, or a terminal that fails
(`cli/src/commands/connect/mod.rs:315, 348, 351, 354`); Ctrl-C (`:245, 264, 287`);
and a disconnect after the SSH task is gone (`client/session.rs:451-455`).
`TicketRecovered` excepts a profile that cannot be written, and Ctrl-C while the
endpoint of the search is being closed.

`TrustSound` speaks of keys whose addition no older read of the vault was
under way at; for the others see `auth_tofu_race`.

Runs that end in a violation compare the code with something the repository
says of it; `PROJECT.json` quotes the line under `findings`:

| Run | What it shows |
|---|---|
| `auth_tofu_race` | two first devices at once may both be adopted: an older read of the vault is stored over a newer cache |
| `side_early` | with two side streams: when the session ends unauthenticated, a waiting stream is let through |

### Further differences seen while modelling

Read off the code while it was translated.  Each is a statement of the
repository that the code does not meet; no run states them.

* A vault record that cannot be read is skipped (`storage/trust.rs:170`), so a
  claimed vault can pass for an empty one and a second owner be adopted.
  `auth_trust` covers such reads (`ReadFaults`).
* The rate limiter is asked before the vault (`auth/unified.rs:295`), so a
  vaulted key can be turned away; the comment on line 41 says that established
  trust always wins.
* `is_locked_out` clears the counter on a failure time it read earlier
  (`auth/unified.rs:161-169`): a counter filled again in between is cleared,
  against the comment on lines 46-48.
* Sessions pair on a copy of the wormhole (`server/protocol.rs:126`), so two of
  them can pair before the burn; `cli/src/commands/wormhole.rs:111` of the
  repository says the password is destroyed after first use.
* Notices name no wormhole (`server/mod.rs:573-610`): one about an older
  wormhole burns the newer one, for which `docs/README.md:357` names no cause.
* The handlers get a new session tracker (`server/mod.rs:431`) while the status
  reads another (line 552), so the list described at `server/ipc.rs:171` stays
  empty.
* The slot is empty after every start (`server/mod.rs:412`); `docs/README.md:460`
  and `server/ipc.rs:75` say that a persistent wormhole survives a reboot.
* Without an IPC listener nobody reads the channel that stops it, so the second
  send to it (`server/mod.rs:468`, `:565`, `:596`) blocks the loop for ever: a
  foreground wormhole that has paired and then gets Ctrl+C, which
  `cli/src/commands/wormhole.rs:307` of the repository says cancels it.  This is
  `Wedged`, which the run `server` reaches and its properties except.
* A broadcast that cannot be set up ends with a warning (`server/mod.rs:497-504`)
  while the slot stays active; the status goes on naming the wormhole, although
  nobody can find it.
* A recursive download compares neither an entry's size nor the total
  (`client/transfer/files/download.rs:501`, `:559`), and `stream_file_content`
  (`server/transfer/files/download.rs:331`) does not ask how its helper ended: a
  truncated file is saved and success reported.  A copy that replaces a failed
  rename (`client/transfer/store.rs:95`) can also leave part of a file, and so
  can an upload whose last write fails, as both flushes after it
  (`server/transfer/files/upload.rs:151`, `:314`, `helpers.rs:135-146`) let that
  pass.  `docs/README.md:178` says that interrupted transfers don't corrupt
  targets.
* The two probes of an exists request run one after the other
  (`server/transfer/control.rs:21-22`), so its two answers may disagree; a
  stream dispatched before the shell's pid is registered is answered from home
  although the shell runs by then (`server/transfer/mod.rs:26`).
* Two uploads to one path both find it free and the later rename replaces the
  earlier file (`server/transfer/helpers.rs:25`); only what was there before
  either is safe (`PutsKeepOld`).
* A part file is left when an error frame cannot be written
  (`server/transfer/files/upload.rs:92`, `:115`), when the rename of a recursive
  upload or of a download fails, when the client's call is dropped, or when the
  ready frame cannot be written and the helper makes the file after its removal
  (`:54-64`); the comment at `client/transfer/files/download.rs:311` says it
  must never linger.
* Enabling the active code again unpublishes it by code in a task of its own
  (`server/mod.rs:485-493`): signed after the new ticket, that tombstone wins,
  and the ticket is only sent again, never signed again, against
  `docs/README.md:279-280`.  `ActiveCodeResolves` excepts it (`Overtaken`); it
  lasts for as long as the directory remembers the tombstone, which is taken to
  be for ever.  A task whose abort comes late may likewise sign a ticket after
  the tombstone (`late` in `NoResurrection`).
* The end of the last session is no event of the loop, so a shutdown requested
  while it ran waits for the next one (`server/mod.rs:459, 613`; line 151: the
  server "automatically shutdowns" after a pairing).  `ShutdownOnNextEvent` is
  what the code does keep.
* EOF takes a channel out of the idle map (`server/handler/mod.rs:453`), so a
  silent command whose input has ended never times out; `server/mod.rs:157-159`
  promises it for any channel without traffic.
* The child's pid stays in its entry after it has been reaped
  (`server/handler/exec.rs:91, 103, 735`); the comment on lines 89-90 takes it
  to name the child still.
* A start that fails after the spawn (`server/handler/exec.rs:281-324`) leaves
  the child unwatched and the pid of a shell registered; it ends the session.
* Blobs: a collection is built and exported in memory without a permit
  (`server/transfer/files/blob.rs:757-778`), and no read of a frame has a
  timeout (`:177`, `:385`), so a silent peer keeps its share; a download checks
  the path as it was requested, not as the shell's directory resolves it
  (`server/transfer/files/blob.rs:524, 534`); a file that grows between the look
  and the read exceeds what was reserved for it (`state.rs:16-21` says the sum
  is bounded; `MaxGrowth` covers it); two uploads both find the destination free
  (`blob.rs:129-140`); an export that fails half way leaves a tree that makes
  the retry fail.
* Storage: `irosh peer rename a a` writes the profile and then deletes it
  (`cli/src/commands/peer.rs:281`, `storage/peers.rs:208-223`).
* Connect: the failure of the second connection, called non-fatal, ends the
  attempt (`client/connect.rs:264`); `Session::disconnect` returns early when
  the SSH task is gone, against "regardless" (`client/session.rs:432, 451-455`);
  the stream is opened outside the 60 seconds of the handshake (`connect.rs:337`
  against 361), so a server that grants none keeps the command for ever; Ctrl-C
  while the endpoint of the search is closed loses the ticket; two
  first connections at once can both pin, the later key staying; `--exec` with a
  code, or a cancelled question for a name, does not save the paired peer; a
  name that is typed may replace another profile; a peer list that cannot be
  read passes for an empty one; an unknown alias is searched for as a code.
* Terminal: held output is written only after help or a local command, so
  leaving the line in another way lets later output overtake it, and at the end
  of the session it is lost (`OutputKept` promises neither); bytes after an
  Enter or Ctrl-C in one chunk are dropped; a bare `~` with Enter sends
  `\r~~\r`; a resize while a line is edited leaves the display cursor beyond the
  line; Delete or Page Up on an empty line opens the escape line (`ESC [ 3 ~`
  ends in a tilde; `engine.rs:93` against 379-381); a newline in remote output
  makes the engine take the middle of the user's line for its start.

### Hazards without a property

Listed here because no run states anything about them, most of them the
differences above seen from the other side: the decay on a stale failure time
(`auth/unified.rs:168`), a revoked key in a running server's cache (`:309`), the
burn of another wormhole by a late notice (`server/mod.rs:573`), a stream that
never sends its magic (`server/side_streams.rs:61`), a command whose input has
ended and that falls silent (`server/handler/mod.rs:453`), a reaped pid, a writer
that ends on a full PTY and a reused descriptor (`server/handler/exec.rs:91,
312, 685`), part files left and truncated recursive downloads
(`server/transfer/files/upload.rs:92`, `download.rs:338`), an identity created
twice at first start (`storage/keys.rs:110`), settings and profiles overwritten
by a concurrent command (`storage/config.rs:154`, `cli/src/commands/peer.rs:111`,
`connect/mod.rs:438`), a profile that vanishes while it is listed
(`storage/peers.rs:129`), the overwrite check of a blob
(`server/transfer/files/blob.rs:132`), held output and the tilde of a key
(`cli/src/commands/connect/session.rs:163`, `input/engine.rs:93`).

### Bounds

Two sessions, keys, processes or uploads are enough for every race between two
parties, which is what the properties are about.  A queue that shares a
capacity with others shrinks (32 and 256 to one or two) so that *full* is
reached.  `MaxEnables`, `Handles` and the number of clients bound what users do;
every other counter is bounded by the code itself or by saturation (`age`).

* `server`: two commands, one of them any, meet a pairing session, expiry and
  shutdown: a wormhole is replaced, disabled or burnt while the session still
  works on it, so that notices about it come late.  `FailureLimit` is two instead
  of three: one failure below the limit, one that reaches it and one beyond all
  occur.
* `channels` has one channel.  Channels share only the shell pid and the maps
  that the sweep and the idle reaper walk; that the shell pid is right for any
  number of them is proved (`ShellPidSound`).
* `transfers`: a file has no or two chunks, a stream holds one frame and a file
  changes once: enough for too few and too many chunks, a write whose failure
  shows at the next one and one whose failure nothing follows, a writer that
  waits and two uploads that mix.  The recursive upload of two files runs alone.
* `blobs`: three permits of three bytes, chunks of two: a blob that rounds up,
  one that fills the budget and one that exceeds it all occur, and two streams
  want more than there is.
* `connection`: two streams, both to one destination, a budget of four permits
  of a byte that two uploads of the file do not fit into together: one waits for
  the other's share while the gate, the session and the connection change around
  both.  Strangers and downloads stay with `blobs`, as the gate treats every
  transfer alike.
* `storage`: the disk lags up to two changes behind (`MaxJournal`), two names
  for a rename, three identities for a creation and two rotations.
* `connect`: `MaxPolls` is two instead of sixty (found at once, later, never) and
  `MaxPrompts` two instead of three (a wrong password that is not the last, and
  the last); the three attempts of the code are kept.  One code is enabled up to
  twice: records of different codes do not meet in the directory.  The second
  wormhole is enabled only beside a client that has not begun (`Apart` in
  `MCConnect`): a poll looks at the kind of one record, which one wormhole makes
  take all its values.  `ConnectProofs` has no such bound.
* `terminal`: four chunks suffice to open a line, edit it, submit it and type
  during the action; the history of two entries overflows.

In `UnifiedAuth` the failure limit of three is kept.  `Window` is 0: a failure
is within it until time passes, and an age beyond it occurs.  Deadlock is not
checked where the system really stops (a daemon that has shut down, a connection
that is over, a directory with nothing left to do); `UnifiedAuth` and `Storage`
have no final state and are checked for deadlock.  Symmetry is used by `storage`
alone, whose properties are safety properties.

### Fairness

* `UnifiedAuth`: a blocking call that was started goes on; time passes.
* `Server`: the runtime polls a task that can run, hence weak fairness;
  `select!` picks a ready branch at random, hence strong fairness per channel.
* `Rendezvous`: tasks run, to a signed record or to an error; a record that is
  published again and again arrives now and then (strong); a ticket nobody
  refreshes expires, a tombstone need not.
* `Channels`: tasks, threads and timeouts run, a dead child can be reaped, the
  sweep goes on.
* `Connection`: tasks that can go on do, the handler of a transfer included
  unless it waits for its peer; once the connection is closed, reads fail, the
  session ends and a dispatch with no transfer under way returns.
* `Transfers`: a side that can go on does, on failure as on success; a client
  need not start and may give up.
* `Blobs`: what the handler of a stream can do next without its peer it does
  (`Proceeds`); that a frame arrives is assumed of nobody, an honest client
  included; a lost connection ends its reads, and the semaphore serves in order.
* `Terminal`: the loop and the calls it makes go on; nobody has to type.
* `Connect`: what is under a timeout comes to an end, and so do the process's own
  steps; the user owes no answer, nor does a server asked for a stream or a
  channel.
* `Storage` states no fairness: its promises are safety.

Strangers, users and the processes of a shell owe nothing in any of them.  What
is owed by a peer is owed where both ends are this program: in `Transfers` a side
that can go on does.

## 4. Proofs

All theorems hold for every value of the constants that satisfies the named
assumptions of the modules.

* `UnifiedAuthProofs`: `TypeCorrect`, `RateLimit`, `VaultProvenance`,
  `TrustSoundness`, `ExhaustionNotified`, `SingleOwnerWhenSerial`.  They follow
  from one inductive invariant `Inv`, whose parts are proved step by step:
  `TypeInv` (types, and that a call holds what its label says), `MutexInv` (a
  call between the second look and its end owns the mutex; this is why the
  emptiness it saw still holds), `NoStrangerVaulted`, `NoAdoption` (outside Tofu
  no call reaches the adoption), `BudgetInv` (counter plus calls that have
  passed the limiter stays within the budget; the counter alone is not
  inductive, since a call that passed may still fail), the notice (inductive as
  it stands, as it speaks of the sessions between count and `try_send` too),
  `SettledInv` (a settled key is in the vault, in the cache once decided and in
  every read under way) and `OwnerInv` (with one call at a time an owner is in
  every later read).  The cardinality argument of `BudgetInv` uses that the
  sessions are finite.  `SingleOwnerWhenSerial` assumes serial calls, a readable
  vault and no revocation; `auth_tofu_race` shows that the first cannot be
  dropped.
* `ServerProofs`: `TasksFollowSlot`, `TasksStaySound`.  `NoOrphanTasks` alone
  needs only that slot numbers are positive and that the queue holds commands
  (`SlotType`).  The types need more (`TasksInv`): a number that is given to a
  wormhole is one of the wormholes there can be, because each was asked for by a
  client whose command has left the queue (`CountInv`, a cardinality argument
  over the clients).
* `ChannelsProofs`: `ShellPidSound`, `ChannelsStaySound`.  `ShellPidTracked`
  needs that a new channel has no entry, so that opening one overwrites nothing,
  and that a start which fails after the spawn ends the session, so that there
  is one such child (`orphan`) at most.  `NoChildLeft` needs to know what the
  task of every command is waiting for and which channels still have one
  (`ChildInv`).
* `ConnectionProofs`: `GateHeld` (from the types and the property itself),
  `BudgetKept`, `HonestAreServed`, and of the two composed `ConnectionImplements`,
  `ConnectionServes` and `UntouchedBefore`, for any number of streams and of
  strangers among them, any contents, budget and sequence of frames.

  *Sums.*  The budget is about sums over the streams, and an induction over a set
  is out of the provers' reach.  `SumOver` is therefore the size of a disjoint
  union, a column of cells per stream: what it becomes when one term changes
  (`SumChange`) follows from the sizes of unions and products in the library.

  *The budget.*  `BudgetHolds` is not inductive.  `BudgetInv` gives every stream
  an *allowance*, the bytes its permits stand for and what a file grew by while it
  was read, and bounds the sum of the allowances; `HoldOK` says of each handler
  that what it has, together with what was announced and is still to come, is
  within its share, where a share that is waited for counts already.  This is
  what makes it safe to read on after the permits are granted; collections, which
  have no share, are a sum of their own; that a handler
  waits with none in hand (`w` in `HoldOK`) is what keeps the sum exact.

  *Honest clients.*  Nothing of `HonestServed` can be seen from a single state of
  the handler: that its last byte was the last one sent is a fact about all
  frames before.  `Upto` counts the bytes a client has sent up to a blob, its
  prefixes included; `HonestOK` says that the handler is where the client is, and
  that what is complete is in the store; `PlaceOK` follows the export of a
  collection item by item, for a destination no other upload is aimed at, and
  `PlaceInv` adds that a destination nobody aimed at is vacant.  Every action has
  a lemma that it keeps `Inv`; `StepKeeps` and its kin reduce it to the one
  handler that moved.

  *The connection.*  `PartSteps` maps each step of `ConnNext` to a step or a
  stutter of both parts, whence `ConnectionImplements`; `UntouchedBefore` then
  needs that a step of a transfer takes a served stream (`Carries`), which the
  gate excludes.

  The assumptions are those of `Blobs`: finitely many streams, a budget that is a
  whole number of units, as in `state.rs` (512 MiB of 1 MiB), that every job has a
  blob and a raw one just one; and that transfers are carried by side streams.
* `TransfersProofs`: `FilesStayWhole`, `TransfersStaySound`, `OldFilesStay`, for
  any number of transfers side by side, any sizes and any room in the streams.
  None of the three is inductive: a receiver counts what arrives and compares it
  with a size that was announced, so the invariant has to tie what is under way
  to what the sender has seen.  A transfer's stream is therefore given *places*
  (before everything, in front of a file, after so many chunks of a file), each
  kind of frame *leads* from one to another (`Leads`), and `Path` says that the
  frames under way lead from where the receiver is to where the sender is.  A
  write makes the path longer at one end (`PathAppend`), a read shorter at the
  other (`PathTail`), and a side that has ended is anywhere.  To this come what
  each side has counted (`SndOK`, `RcvOK`), that the part file holds just that
  (`PartOK`: all of it written, but perhaps the last chunk), that nothing is
  received before the sender has looked at its files (`LookOK`: the size a
  receiver was told is the size that `WholeFiles` speaks of), that the files
  before the one at hand are in place, and all of them once anyone was told so
  (`SavedOK`), and, for a question, that the directory of its shell is one of
  those it was in since the question was taken up (`AskOK`).  `SenderMoves`,
  `ReceiverMoves` and `AskMoves` reduce a step of one side to its own transfer;
  each action has a lemma that it keeps the invariant.  The assumptions are that
  sizes have a bound, and that transfers that run side by side write on one
  machine, as `Paths` is one file system: all of them uploads, or all of them
  downloads, beside any questions.
* `StorageProofs`: `FilesStaySound`, `IdentityKept`, `ResetComplete`,
  `ProfilesStay` and the refinement `StorageAtomic`, for any number of processes
  and names.  `StoreInv` says for each process what its command has done up to
  the call it is at (`CommandInv`) and what its temporary file holds (`TmpInv`);
  `KeepInv` adds what the journal may still hold back (`JournalInv`) and how far
  a rename has come (`RenameInv`).  Without the journal `NodeKeepsIdentity` is
  not inductive: a power loss undoes steps, so that the invariant has to speak of
  every state the disk may fall back to.
* `ConnectProofs`: `Releases`, `HostKeysKept`, `TicketsRecovered` and, through
  the rendezvous it is composed with, `TombstonesHold`.  `ClientInv` says for
  each place of the client what is open there, at each end what it left, and how
  far its counter has come (`ProcessInv`, `Released`);
  `RendezvousInv` that only the last wormhole is in the slot and no task of it has
  been aborted (`SlotInv`), that every ticket of a wormhole bears the one stamp it
  was signed with (`StampInv`), and that a tombstone is later than the tickets of
  its wormhole and of all before it, but for those signed after an abort
  (`Buried`): this orders the records whatever the network does to them.
* `TerminalProofs`: `EditorStaysSound`, `OutputStays`.  Each operation of the
  line editor, the history and the engine has a lemma that it keeps a sound
  editor sound (`IsLine`, `IsHistory`, `IsEngine`), and `SessionInv` puts them
  together; in the middle of a call one more fact is needed, that a line which is
  edited is edited by the editing loop (`InCall`, while input is left).
  `OutputInv` says that until the end every piece is in exactly one place, and
  that an error of the terminal ends the session with at most one missing.
  The one assumption on what is typed is that a chunk is a finite sequence.

Only model-checked:

* Everything that must eventually happen (`LockoutDecays`, `ExhaustedBurns`,
  `PairedBurns`, `CommandsAnswered`, `LoopNotStuck`, `IdleInputCloses`,
  `NothingLeaks`, `GateOpens`, `TasksEnd`, `TransfersEnd`, `TransfersSettle`,
  `ConnectSettles`, `BurnedCodeDies`, `ActiveCodeResolves`, `CloseEndsSession`,
  `ShutdownOnNextEvent`):
  fairness is out of the prover's reach.

Every invariant that a passing run checks is stated by a theorem.  What the
proofs assume of the constants is evaluated by TLC in the runs.

## 5. Not modelled, and the plan

`PROJECT.json` gives the reason per component.  In short: bytes on the wire and
the framing of transfers and metadata (readers and writers without shared state,
tested against each other in the repository), cryptography and the derivation of
keys from codes, the iroh endpoint and its relays (external), service files,
terminal modes and Windows job objects (calls to the operating system), the
client's side of the IPC socket (one request, one answer), the authenticators
that only embedders use, output, argument handling and installers.  Partly
modelled components leave out: environment and window size, the echo filter and
port forwarding of a channel, history files and the choice of completions of the
terminal.

Planned, in this order:

1. **Composition**: an abstract wormhole (a code admits its device, burns, stops
   resolving) implemented by `Server` with `Rendezvous`; the
   plain transfers of `Transfers` beside those of `Blobs` in `Connection`.
2. **Channels**: direct-tcpip, remote tunnels, descriptor numbers of PTY masters.
3. **Codecs**: frames read against frames written, `filter_echo_bytes` against a
   reference definition.

To check: `tlc -config <run>.cfg <module>` for a run, `tlapm <Module>Proofs.tla`
for the proofs (`ConnectionProofs` for `SideStreams`, `Blobs` and `Connection`).
