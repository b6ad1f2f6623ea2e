------------------------------ MODULE Channels ------------------------------
(***************************************************************************)
(* The SSH channels of one connection (src/src/server/handler): the        *)
(* handler's callbacks, and per command a PTY child, a waiter thread, a    *)
(* task that reads the PTY, a thread that writes it, and the connection's  *)
(* idle reaper.  Modelled for Unix.                                        *)
(*                                                                         *)
(* A channel runs one command at a time: start_command rejects a second    *)
(* one while the first is in the map, and creates the entry anew for a     *)
(* request that its close has crossed.                                     *)
(***************************************************************************)
EXTENDS Integers, FiniteSets

CONSTANTS
  Chans,        \* channel ids
  NoChan,       \* nobody's
  QueueCap,     \* capacity of the queue to a PTY writer (256 in the code)
  IdleTimeout   \* whether an inactivity timeout is configured

ASSUME ChannelsAssumption ==
  NoChan \notin Chans /\ QueueCap \in Nat \ {0} /\ IdleTimeout \in BOOLEAN

VARIABLES
  ssh,       \* the SSH session: up, ended, or ended and swept
  chan,      \* each channel as the handler knows it
  entry,     \* its entry in the channel map: none, bare, or with a process
  tx,        \* channels whose entry holds the sender to the writer
  writer,    \* the writer thread
  queue,     \* chunks on their way to the writer
  child,     \* the child process
  tty,       \* channels whose PTY some process still has open
  orphan,    \* channels whose child was spawned by a start that then failed
  cancelled, \* channels whose shutdown token is cancelled
  task,      \* the reader task: what it waits for
  sending,   \* reader tasks that await the send of a chunk
  shellPid,  \* shell_pid of the connection: the channel of the primary shell
  idle,      \* the idle map: no entry, recent, or older than the timeout
  reaper,    \* the idle reaper: whether it runs, the channels it is closing
  closeSent, \* channels the server has closed (handle.close)
  quiet      \* history: channels without traffic for longer than the timeout

session == <<ssh, chan>>
io == <<tx, writer, queue>>
process == <<child, tty, orphan>>
idling == <<idle, reaper, quiet>>
vars == <<session, entry, io, process, cancelled, task, shellPid, idling,
          closeSent, sending>>

Init ==
  /\ ssh = "up" /\ chan = [c \in Chans |-> "new"]
  /\ entry = [c \in Chans |-> "none"]
  /\ tx = {} /\ writer = [c \in Chans |-> "none"] /\ queue = [c \in Chans |-> 0]
  /\ child = [c \in Chans |-> "none"] /\ tty = {} /\ orphan = {}
  /\ cancelled = {}
  /\ task = [c \in Chans |-> "none"]
  /\ shellPid = NoChan
  /\ idle = [c \in Chans |-> "none"]
  /\ reaper = [on |-> FALSE, todo |-> {}] /\ quiet = {}
  /\ closeSent = {} /\ sending = {}

(***************************************************************************)
(* Small steps shared by several handlers                                  *)
(***************************************************************************)

\* mutants: cleanups that forget something, a reaper that exec_request does not
\* start
ClearPid_Never(c) == shellPid
DropSender_Never(c) == tx
Killed_None(c) == child
ReaperStarts_Shell(shell) == IdleTimeout /\ shell

\* mark_channel_active and touch_idle
Touch(c) == /\ idle' = IF IdleTimeout THEN [idle EXCEPT ![c] = "recent"] ELSE idle
            /\ quiet' = quiet \ {c}

\* forget_channel
Forget(c) == [idle EXCEPT ![c] = "none"]

\* clear_shell_pid_if_matches
ClearPid(c) == IF shellPid = c THEN NoChan ELSE shellPid

\* the entry's sender to the writer thread goes
DropSender(c) == tx \ {c}

\* SIGKILL to the child; to its group, whose processes are taken to be those
\* that hold the PTY
Killed(c) == [child EXCEPT ![c] = IF @ = "alive" THEN "zombie" ELSE @]

HasRoom(c) == queue[c] < QueueCap

\* ensure_reaper, for a shell and for a command alike
ReaperStarts(shell) == IdleTimeout

(***************************************************************************)
(* The handler's callbacks, run one at a time by the SSH session           *)
(***************************************************************************)
OpenSession(c) ==
  /\ ssh = "up" /\ chan[c] = "new"
  /\ chan' = [chan EXCEPT ![c] = "open"]
  /\ entry' = [entry EXCEPT ![c] = "bare"]
  /\ UNCHANGED <<ssh, io, process, cancelled, task, shellPid, idling, closeSent, sending>>

\* bound: a channel is used again once nothing of its earlier command is left
Settled(c) == /\ task[c] \in {"none", "done"} /\ writer[c] # "running"
              /\ child[c] \in {"none", "reaped"} /\ c \notin tty

MayStart(c) ==
  ssh = "up" /\ chan[c] = "open" /\ entry[c] # "process" /\ Settled(c)

\* shell_request (shell) or exec_request: spawn everything, start the reaper
StartCommand(c, shell) ==
  /\ MayStart(c)
  /\ entry' = [entry EXCEPT ![c] = "process"]
  /\ child' = [child EXCEPT ![c] = "alive"] /\ tty' = tty \cup {c}
  /\ tx' = tx \cup {c} /\ writer' = [writer EXCEPT ![c] = "running"]
  /\ task' = [task EXCEPT ![c] = "both"] /\ sending' = sending \ {c}
  /\ shellPid' = IF shell THEN c ELSE shellPid
  /\ Touch(c)
  /\ reaper' = [reaper EXCEPT !.on = @ \/ ReaperStarts(shell)]
  /\ UNCHANGED <<session, queue, orphan, cancelled, closeSent>>

\* a second request while the command runs is refused, yet counts as traffic
StartRejected(c) ==
  /\ ssh = "up" /\ chan[c] = "open" /\ entry[c] = "process"
  /\ Touch(c)
  /\ UNCHANGED <<session, entry, io, process, cancelled, task, shellPid, reaper,
                 closeSent, sending>>

\* no PTY, or no process: the error ends the session
StartFails(c) ==
  /\ MayStart(c)
  /\ ssh' = "ended"
  /\ entry' = [entry EXCEPT ![c] = "bare"]
  /\ UNCHANGED <<chan, io, process, cancelled, task, shellPid, idling,
                 closeSent, sending>>

\* the child runs and the pid of a shell is registered when a later step
\* fails: nobody will wait for the child, and only if its entry was filled, the
\* confirmation being what failed, will the sweep kill it and clear the pid
StartBreaks(c, shell) ==
  /\ MayStart(c)
  /\ ssh' = "ended"
  /\ child' = [child EXCEPT ![c] = "alive"] /\ orphan' = orphan \cup {c}
  /\ shellPid' = IF shell THEN c ELSE shellPid
  /\ \/ entry' = [entry EXCEPT ![c] = "bare"] /\ UNCHANGED <<tx, writer, tty>>
     \/ /\ entry' = [entry EXCEPT ![c] = "process"] /\ tty' = tty \cup {c}
        /\ tx' = tx \cup {c} /\ writer' = [writer EXCEPT ![c] = "running"]
  /\ UNCHANGED <<chan, queue, cancelled, task, idling, closeSent, sending>>

\* the handler waits for room in the queue; without a sender, or with the
\* writer gone, the data is dropped
Data(c) ==
  /\ ssh = "up" /\ chan[c] = "open"
  /\ c \in tx /\ writer[c] = "running" => HasRoom(c)
  /\ queue' = IF c \in tx /\ writer[c] = "running"
                THEN [queue EXCEPT ![c] = @ + 1] ELSE queue
  /\ Touch(c)
  /\ UNCHANGED <<session, entry, tx, writer, process, cancelled, task, shellPid,
                 reaper, closeSent, sending>>

Eof(c) ==
  /\ ssh = "up" /\ chan[c] = "open"
  /\ idle' = Forget(c)
  /\ tx' = DropSender(c)
  /\ UNCHANGED <<session, entry, writer, queue, process, cancelled, task,
                 shellPid, reaper, quiet, closeSent, sending>>

\* forward_signal: the signal may or may not end the process
Signal(c) ==
  /\ ssh = "up" /\ chan[c] = "open" /\ entry[c] = "process"
  /\ \/ child' = Killed(c) /\ tty' = tty \ {c}
     \/ UNCHANGED <<child, tty>>
  /\ UNCHANGED <<session, entry, io, orphan, cancelled, task, shellPid, idling,
                 closeSent, sending>>

\* close_channel: remove the entry, cancel the reader, kill the process group
CloseChannel(c) ==
  /\ entry' = [entry EXCEPT ![c] = "none"]
  /\ IF entry[c] = "process"
       THEN /\ cancelled' = cancelled \cup {c}
            /\ shellPid' = ClearPid(c)
            /\ tx' = DropSender(c)
            /\ child' = Killed(c)
            /\ tty' = tty \ {c}
            /\ UNCHANGED orphan
       ELSE UNCHANGED <<cancelled, shellPid, tx, process>>

ClientClose(c) ==
  /\ ssh = "up" /\ chan[c] = "open"
  /\ chan' = [chan EXCEPT ![c] = "closed"]
  /\ idle' = Forget(c)
  /\ CloseChannel(c)
  /\ UNCHANGED <<ssh, writer, queue, task, reaper, quiet, closeSent, sending>>

\* run_stream returns, whatever ended the session
SessionEnds ==
  /\ ssh = "up"
  /\ ssh' = "ended"
  /\ UNCHANGED <<chan, entry, io, process, cancelled, task, shellPid, idling,
                 closeSent, sending>>

\* terminate_all_channels closes the channels still in the map, one by one
SweepOne(c) ==
  /\ ssh = "ended" /\ entry[c] # "none"
  /\ CloseChannel(c)
  /\ UNCHANGED <<session, writer, queue, task, idling, closeSent, sending>>

\* the handler is dropped
Swept ==
  /\ ssh = "ended" /\ \A c \in Chans : entry[c] = "none"
  /\ ssh' = "swept"
  /\ chan' = [c \in Chans |-> "closed"]
  /\ UNCHANGED <<entry, io, process, cancelled, task, shellPid, idling,
                 closeSent, sending>>

(***************************************************************************)
(* The processes (external), the waiter, the writer and the reader task    *)
(***************************************************************************)

\* the child exits; a grandchild may keep the PTY open
ChildExits(c) ==
  /\ child[c] = "alive"
  /\ child' = [child EXCEPT ![c] = "zombie"]
  /\ tty' \in {tty, tty \ {c}}
  /\ UNCHANGED <<session, entry, io, orphan, cancelled, task, shellPid, idling,
                 closeSent, sending>>

\* the last process on the PTY lets go of it, the child may run on
Detach(c) ==
  /\ c \in tty
  /\ tty' = tty \ {c}
  /\ UNCHANGED <<session, entry, io, child, orphan, cancelled, task, shellPid, idling,
                 closeSent, sending>>

\* child.wait returns in its own thread: from here on the pid is free
Reap(c) ==
  /\ child[c] = "zombie" /\ c \notin orphan
  /\ child' = [child EXCEPT ![c] = "reaped"]
  /\ UNCHANGED <<session, entry, io, tty, orphan, cancelled, task, shellPid, idling,
                 closeSent, sending>>

\* one chunk; a failed write (the PTY's buffer is full, nobody has the PTY
\* open) ends the thread and drops what is queued
WriteChunk(c) ==
  /\ writer[c] = "running" /\ queue[c] > 0
  /\ \/ queue' = [queue EXCEPT ![c] = @ - 1] /\ UNCHANGED writer
     \/ queue' = [queue EXCEPT ![c] = 0] /\ writer' = [writer EXCEPT ![c] = "ended"]
  /\ UNCHANGED <<session, entry, tx, process, cancelled, task, shellPid, idling,
                 closeSent, sending>>

WriterEnds(c) ==
  /\ writer[c] = "running" /\ queue[c] = 0 /\ c \notin tx
  /\ writer' = [writer EXCEPT ![c] = "ended"]
  /\ UNCHANGED <<session, entry, tx, queue, process, cancelled, task, shellPid,
                 idling, closeSent, sending>>

Reading(c) == task[c] \in {"both", "reader"}

\* a chunk is read and its send to the session awaited; afterwards the idle
\* map is told, whatever has happened to the channel since
Output(c) ==
  /\ Reading(c) /\ c \notin sending /\ c \in tty /\ c \notin cancelled
  /\ sending' = sending \cup {c}
  /\ UNCHANGED <<session, entry, io, process, cancelled, task, shellPid, idling,
                 closeSent>>

OutputSent(c) ==
  /\ Reading(c) /\ c \in sending /\ ssh = "up"
  /\ sending' = sending \ {c}
  /\ Touch(c)
  /\ UNCHANGED <<session, entry, io, process, cancelled, task, shellPid, reaper,
                 closeSent>>

\* EOF, cancelled, or a failed send to a session that is gone: the child has
\* 30 seconds left to exit
ReaderEnds(c) ==
  /\ task[c] = "both"
  /\ IF c \in sending THEN ssh # "up" ELSE c \notin tty \/ c \in cancelled
  /\ task' = [task EXCEPT ![c] = "child"]
  /\ UNCHANGED <<session, entry, io, process, cancelled, shellPid, idling, closeSent, sending>>

\* the child has exited first: the reader has 500 milliseconds left
ChildNoticed(c) ==
  /\ task[c] = "both" /\ child[c] = "reaped"
  /\ task' = [task EXCEPT ![c] = "reader"]
  /\ UNCHANGED <<session, entry, io, process, cancelled, shellPid, idling, closeSent, sending>>

\* EOF, exit, or the timeout of either wait
WaitOver(c) ==
  /\ task[c] \in {"reader", "child"}
  /\ task' = [task EXCEPT ![c] = "closing"]
  /\ UNCHANGED <<session, entry, io, process, cancelled, shellPid, idling, closeSent, sending>>

\* exit status, EOF and close are sent, then CleanupGuard is dropped, which
\* removes the entry and with it the sender
Finish(c) ==
  /\ task[c] = "closing"
  /\ task' = [task EXCEPT ![c] = "done"]
  /\ closeSent' = IF ssh = "up" THEN closeSent \cup {c} ELSE closeSent
  /\ shellPid' = ClearPid(c)
  /\ entry' = [entry EXCEPT ![c] = "none"]
  /\ tx' = DropSender(c)
  /\ idle' = Forget(c)
  /\ UNCHANGED <<session, writer, queue, process, cancelled, reaper, quiet, sending>>

(***************************************************************************)
(* The idle reaper                                                         *)
(***************************************************************************)

\* a timeout's worth of time passes on a channel without traffic
Silence(c) ==
  /\ IdleTimeout /\ chan[c] = "open" /\ c \notin quiet
  /\ quiet' = quiet \cup {c}
  /\ idle' = IF idle[c] = "recent" THEN [idle EXCEPT ![c] = "old"] ELSE idle
  /\ UNCHANGED <<session, entry, io, process, cancelled, task, shellPid, reaper,
                 closeSent, sending>>

Tick ==
  /\ reaper.on /\ reaper.todo = {}
  /\ reaper' = [reaper EXCEPT !.todo = {c \in Chans : idle[c] = "old"}]
  /\ UNCHANGED <<session, entry, io, process, cancelled, task, shellPid, idle,
                 quiet, closeSent, sending>>

\* a failed close, the session being gone, ends the round
ReapIdle(c) ==
  /\ c \in reaper.todo
  /\ idle' = Forget(c)
  /\ reaper' = [reaper EXCEPT !.todo = IF ssh = "up" THEN @ \ {c} ELSE {}]
  /\ closeSent' = IF ssh = "up" THEN closeSent \cup {c} ELSE closeSent
  /\ UNCHANGED <<session, entry, io, process, cancelled, task, shellPid, quiet, sending>>

\* the reader tasks and the handler held the idle map; the reaper does not
ReaperExits ==
  /\ reaper.on /\ ssh = "swept" /\ \A c \in Chans : task[c] \in {"none", "done"}
  /\ reaper' = [on |-> FALSE, todo |-> {}]
  /\ UNCHANGED <<session, entry, io, process, cancelled, task, shellPid, idle,
                 quiet, closeSent, sending>>

Next ==
  \/ SessionEnds \/ Swept \/ Tick \/ ReaperExits
  \/ \E c \in Chans :
       \/ OpenSession(c) \/ \E shell \in BOOLEAN : StartCommand(c, shell)
       \/ StartRejected(c) \/ StartFails(c) \/ \E shell \in BOOLEAN : StartBreaks(c, shell)
       \/ Data(c) \/ Eof(c) \/ Signal(c)
       \/ ClientClose(c) \/ SweepOne(c)
       \/ ChildExits(c) \/ Detach(c) \/ Reap(c)
       \/ WriteChunk(c) \/ WriterEnds(c)
       \/ Output(c) \/ OutputSent(c) \/ ReaderEnds(c) \/ ChildNoticed(c) \/ WaitOver(c) \/ Finish(c)
       \/ Silence(c) \/ ReapIdle(c)

Spec == Init /\ [][Next]_vars

(***************************************************************************)
(* Fairness: tasks and threads run, timeouts fire, a killed child can be   *)
(* reaped, and the sweep goes on.  Peers and processes owe nothing.        *)
(***************************************************************************)
Fairness ==
  /\ WF_vars(Swept) /\ WF_vars(Tick) /\ WF_vars(ReaperExits)
  /\ \A c \in Chans :
       /\ WF_vars(SweepOne(c)) /\ WF_vars(Reap(c))
       /\ WF_vars(WriteChunk(c)) /\ WF_vars(WriterEnds(c))
       /\ WF_vars(OutputSent(c)) /\ WF_vars(ReaderEnds(c)) /\ WF_vars(ChildNoticed(c))
       /\ WF_vars(WaitOver(c)) /\ WF_vars(Finish(c))
       /\ WF_vars(ReapIdle(c))

FairSpec == Spec /\ Fairness

-----------------------------------------------------------------------------
(***************************************************************************)
(* Properties                                                              *)
(***************************************************************************)

\* The type of every variable.
TypeOK ==
  /\ ssh \in {"up", "ended", "swept"}
  /\ chan \in [Chans -> {"new", "open", "closed"}]
  /\ entry \in [Chans -> {"none", "bare", "process"}]
  /\ tx \in SUBSET Chans /\ tty \in SUBSET Chans /\ cancelled \in SUBSET Chans
  /\ writer \in [Chans -> {"none", "running", "ended"}]
  /\ queue \in [Chans -> 0 .. QueueCap]
  /\ child \in [Chans -> {"none", "alive", "zombie", "reaped"}]
  /\ task \in [Chans -> {"none", "both", "reader", "child", "closing", "done"}]
  /\ shellPid \in Chans \cup {NoChan}
  /\ idle \in [Chans -> {"none", "recent", "old"}]
  /\ reaper \in [on : BOOLEAN, todo : SUBSET Chans]
  /\ closeSent \in SUBSET Chans /\ quiet \in SUBSET Chans
  /\ sending \in SUBSET Chans /\ orphan \in SUBSET Chans

\* The pid that file transfers resolve paths against is that of a shell the
\* connection still tracks: whichever of close_channel and CleanupGuard comes
\* first, and whatever other shells were started since, it does not outlive
\* its channel.  A shell whose start failed after the pid was registered keeps
\* it, but its session is over (exec.rs:121, 268-324, 679,
\* transfer/state.rs:72-84).
ShellPidTracked ==
  shellPid # NoChan =>
    \/ entry[shellPid] = "process"
    \/ ssh # "up" /\ shellPid \in orphan

\* No child outlives its channel, but for one that let go of its PTY and
\* outlived the 30 seconds its reader waits for it, and at most one, of a
\* start that failed after the spawn and ended the session (exec.rs:246-324,
\* 634-654, 673-688, protocol.rs:213-217).
NoChildLeft ==
  \A c \in Chans :
    chan[c] = "closed" /\ child[c] = "alive"
      => task[c] = "done" \/ (orphan = {c} /\ ssh # "up")

\* A closed channel does not stay in the idle map, although the send of a
\* chunk that the close overtook puts it there again (mod.rs:117-137,
\* exec.rs:131-133, 433-439).
IdleMapClean ==
  \A c \in Chans :
    chan[c] = "closed" /\ ssh = "up" /\ task[c] \in {"none", "done"}
      => idle[c] = "none"

\* Together, with the type of every variable.
ChannelsSound == TypeOK /\ NoChildLeft /\ IdleMapClean

\* After the session, or after its channel was closed, every reader task and
\* every writer thread ends, however the peer disappeared and whoever still
\* has the PTY open (protocol.rs:213-217).
NothingLeaks ==
  \A c \in Chans :
    ssh = "ended" \/ chan[c] = "closed"
      ~> task[c] \in {"none", "done"} /\ writer[c] # "running"

Running(c) == task[c] = "both" /\ chan[c] = "open" /\ ssh = "up"

\* A channel without traffic is closed while its input is open
\* (server/mod.rs:157-159, handler/mod.rs:161-191).
IdleInputCloses ==
  \A c \in Chans :
    c \in quiet /\ Running(c)
      ~> c \notin quiet \/ ~Running(c) \/ c \in closeSent \/ c \notin tx
=============================================================================
