--------------------------- MODULE ChannelsProofs ---------------------------
(***************************************************************************)
(* For every number of channels: the shell pid that file transfers rely on *)
(* belongs to a shell that is still tracked (Channels!ShellPidTracked),    *)
(* and closed channels leave no child and no idle entry behind             *)
(* (Channels!ChannelsSound).                                               *)
(***************************************************************************)
EXTENDS Channels, TLAPS

\* The inductive invariant.  ShellPidTracked alone is not inductive: that
\* channel_open_session overwrites no entry rests on a new channel having none.
PidInv ==
  /\ chan \in [Chans -> {"new", "open", "closed"}]
  /\ entry \in [Chans -> {"none", "bare", "process"}]
  /\ shellPid \in Chans \cup {NoChan}
  /\ \A c \in Chans : chan[c] = "new" => entry[c] = "none"
  /\ ShellPidTracked

\* A new connection has no channel and no shell (handler/mod.rs:62-80).
LEMMA InitPidInv == Init => PidInv
  BY DEF Init, PidInv, ShellPidTracked

\* Removing a channel's entry clears the pid if it is that channel's and
\* leaves a younger shell's alone (exec.rs:673-688, transfer/state.rs:72-84).
LEMMA ClosePidInv ==
  ASSUME PidInv, NEW c \in Chans, CloseChannel(c), ssh' = ssh,
         chan' = chan \/ chan' = [chan EXCEPT ![c] = "closed"]
  PROVE  PidInv'
<1> USE ChannelsAssumption DEF PidInv, ShellPidTracked, CloseChannel
<1>1. CASE entry[c] = "process"
  BY <1>1 DEF ClearPid
<1>2. CASE entry[c] # "process"
  BY <1>2 DEF process
<1> QED
  BY <1>1, <1>2

\* Threads, tasks and handlers that neither remove an entry nor start a
\* command touch none of the four; a session may end, but never comes back.
LEMMA OtherPidInv ==
  ASSUME PidInv, UNCHANGED <<chan, entry, shellPid, orphan>>,
         ssh' = ssh \/ ssh' # "up"
  PROVE  PidInv'
  BY DEF PidInv, ShellPidTracked

\* Every step of the handler, the processes, the reader tasks, the sweep and
\* the reaper keeps the invariant.
LEMMA NextPidInv == PidInv /\ [Next]_vars => PidInv'
<1> SUFFICES ASSUME PidInv, [Next]_vars
             PROVE  PidInv'
  OBVIOUS
<1>1. CASE SessionEnds \/ Tick \/ ReaperExits
  BY <1>1, OtherPidInv DEF SessionEnds, Tick, ReaperExits, session, process
<1>2. CASE Swept
  BY <1>2 DEF Swept, process, PidInv, ShellPidTracked
<1>3. ASSUME NEW c \in Chans, OpenSession(c)
      PROVE  PidInv'
  <2>1. shellPid # c
    BY <1>3, ChannelsAssumption DEF OpenSession, PidInv, ShellPidTracked
  <2> QED
    BY <1>3, <2>1 DEF OpenSession, PidInv, ShellPidTracked, process
<1>4. ASSUME NEW c \in Chans, NEW shell \in BOOLEAN, StartCommand(c, shell)
      PROVE  PidInv'
  <2>1. /\ chan[c] = "open" /\ ssh = "up"
        /\ chan' = chan /\ entry' = [entry EXCEPT ![c] = "process"]
    BY <1>4 DEF StartCommand, MayStart, session
  <2>2. shellPid' = c \/ shellPid' = shellPid
    BY <1>4 DEF StartCommand
  <2> QED
    BY <2>1, <2>2 DEF PidInv, ShellPidTracked
<1>12. ASSUME NEW c \in Chans, NEW shell \in BOOLEAN, StartBreaks(c, shell)
       PROVE  PidInv'
  <2>1. /\ chan[c] = "open" /\ ssh = "up" /\ entry[c] # "process" /\ ssh' = "ended"
        /\ chan' = chan /\ orphan' = orphan \cup {c}
    BY <1>12 DEF StartBreaks, MayStart
  <2>2. /\ shellPid' = c \/ shellPid' = shellPid
        /\ \/ entry' = [entry EXCEPT ![c] = "bare"]
           \/ entry' = [entry EXCEPT ![c] = "process"]
    BY <1>12 DEF StartBreaks
  <2> QED
    BY <2>1, <2>2 DEF PidInv, ShellPidTracked
<1>13. ASSUME NEW c \in Chans, StartFails(c)
       PROVE  PidInv'
  BY <1>13 DEF StartFails, MayStart, process, PidInv, ShellPidTracked
<1>5. ASSUME NEW c \in Chans, ClientClose(c) \/ SweepOne(c)
      PROVE  PidInv'
  BY <1>5, ClosePidInv DEF ClientClose, SweepOne, session
<1>6. ASSUME NEW c \in Chans, Finish(c)
      PROVE  PidInv'
  BY <1>6, ChannelsAssumption
  DEF Finish, ClearPid, PidInv, ShellPidTracked, session, process
<1>7. ASSUME NEW c \in Chans,
             StartRejected(c) \/ Data(c) \/ Eof(c) \/ Signal(c)
      PROVE  PidInv'
  BY <1>7, OtherPidInv
  DEF StartRejected, Data, Eof, Signal, session, process
<1>8. ASSUME NEW c \in Chans,
             ChildExits(c) \/ Detach(c) \/ Reap(c) \/ WriteChunk(c)
             \/ WriterEnds(c)
      PROVE  PidInv'
  BY <1>8, OtherPidInv
  DEF ChildExits, Detach, Reap, WriteChunk, WriterEnds, session, process
<1>9. ASSUME NEW c \in Chans,
             Output(c) \/ OutputSent(c) \/ ReaderEnds(c) \/ ChildNoticed(c)
             \/ WaitOver(c)
      PROVE  PidInv'
  BY <1>9, OtherPidInv
  DEF Output, OutputSent, ReaderEnds, ChildNoticed, WaitOver, session, process
<1>10. ASSUME NEW c \in Chans,
             Silence(c) \/ ReapIdle(c)
      PROVE  PidInv'
  BY <1>10, OtherPidInv
  DEF Silence, ReapIdle, session, process
<1>11. CASE UNCHANGED vars
  BY <1>11, OtherPidInv DEF vars, session, process
<1> QED
  BY <1>1, <1>2, <1>3, <1>4, <1>5, <1>6, <1>7, <1>8, <1>9, <1>10, <1>11,
     <1>12, <1>13 DEF Next

\* The pid that transfers resolve paths against never outlives its channel,
\* whichever of close_channel, the sweep and CleanupGuard comes first, unless
\* the start of its shell failed half-way and ended the session
\* (exec.rs:118-135, 268-324, 673-710).
THEOREM ShellPidSound == Spec => []ShellPidTracked
<1>1. PidInv => ShellPidTracked
  BY DEF PidInv
<1> QED
  BY <1>1, InitPidInv, NextPidInv, PTL DEF Spec

-----------------------------------------------------------------------------
\* NoChildLeft is not inductive: what makes a closed channel's child dead is
\* that the channel's entry goes when it closes, and that whoever removes the
\* entry of a running command kills the child or is the command's own task.
ChildInv ==
  \A c \in Chans :
    /\ chan[c] = "new" => child[c] # "alive"
    /\ chan[c] = "closed" => entry[c] = "none"
    /\ child[c] = "alive" /\ task[c] # "done" => entry[c] = "process" \/ c \in orphan
    /\ c \in orphan => ssh # "up" /\ orphan = {c}

SoundInv == TypeOK /\ ChildInv /\ IdleMapClean

LEMMA InitSoundInv == Init => SoundInv
  BY ChannelsAssumption DEF Init, SoundInv, TypeOK, ChildInv, IdleMapClean

\* Every handler, thread and task keeps the types: above all, the queue to a
\* writer within its capacity.
LEMMA NextTypeOK == TypeOK /\ [Next]_vars => TypeOK'
<1> SUFFICES ASSUME TypeOK, [Next]_vars PROVE TypeOK'
  OBVIOUS
<1> USE ChannelsAssumption DEF TypeOK
<1>1. CASE SessionEnds \/ Swept
  BY <1>1 DEF SessionEnds, Swept, session, io, process, idling
<1>2. CASE Tick \/ ReaperExits
  <2>1. reaper' \in [on : BOOLEAN, todo : SUBSET Chans]
    <3>1. CASE Tick
      <4>1. {c \in Chans : idle[c] = "old"} \in SUBSET Chans
        OBVIOUS
      <4> DEFINE old == {c \in Chans : idle[c] = "old"}
      <4>2. reaper' = [reaper EXCEPT !.todo = old] /\ old \in SUBSET Chans
        BY <3>1, <4>1 DEF Tick
      <4> HIDE DEF old
      <4> QED
        BY <4>2
    <3>2. CASE ReaperExits
      BY <3>2 DEF ReaperExits
    <3> QED
      BY <1>2, <3>1, <3>2
  <2> QED
    BY <1>2, <2>1 DEF Tick, ReaperExits, session, io, process, idling
<1>3. ASSUME NEW c \in Chans, OpenSession(c) PROVE TypeOK'
  BY <1>3 DEF OpenSession, session, io, process, idling
<1>4. ASSUME NEW c \in Chans, NEW shell \in BOOLEAN, StartCommand(c, shell) PROVE TypeOK'
  <2>1. reaper' \in [on : BOOLEAN, todo : SUBSET Chans]
    BY <1>4 DEF StartCommand, ReaperStarts
  <2>2. idle' \in [Chans -> {"none", "recent", "old"}] /\ quiet' \in SUBSET Chans
    BY <1>4 DEF StartCommand, Touch
  <2>3. shellPid' \in Chans \cup {NoChan}
    BY <1>4 DEF StartCommand
  <2>4. /\ entry' = [entry EXCEPT ![c] = "process"] /\ child' = [child EXCEPT ![c] = "alive"]
        /\ tty' = tty \cup {c} /\ tx' = tx \cup {c}
        /\ writer' = [writer EXCEPT ![c] = "running"] /\ task' = [task EXCEPT ![c] = "both"]
        /\ sending' = sending \ {c}
        /\ UNCHANGED <<session, queue, orphan, cancelled, closeSent>>
    BY <1>4 DEF StartCommand
  <2> QED
    BY <2>1, <2>2, <2>3, <2>4 DEF session
<1>5. ASSUME NEW c \in Chans, StartRejected(c) \/ StartFails(c) PROVE TypeOK'
  BY <1>5 DEF StartRejected, StartFails, Touch, session, io, process, idling
<1>19. ASSUME NEW c \in Chans, NEW shell \in BOOLEAN, StartBreaks(c, shell) PROVE TypeOK'
  <2>1. /\ entry' \in [Chans -> {"none", "bare", "process"}]
        /\ tx' \in SUBSET Chans /\ tty' \in SUBSET Chans
        /\ writer' \in [Chans -> {"none", "running", "ended"}]
    BY <1>19 DEF StartBreaks
  <2>2. shellPid' \in Chans \cup {NoChan}
    BY <1>19 DEF StartBreaks
  <2> QED
    BY <1>19, <2>1, <2>2 DEF StartBreaks, session, idling
<1>6. ASSUME NEW c \in Chans, Data(c) PROVE TypeOK'
  <2>1. queue' \in [Chans -> 0 .. QueueCap]
    BY <1>6 DEF Data, HasRoom
  <2>2. idle' \in [Chans -> {"none", "recent", "old"}] /\ quiet' \in SUBSET Chans
    BY <1>6 DEF Data, Touch
  <2> QED
    BY <1>6, <2>1, <2>2 DEF Data, session, process
<1>7. ASSUME NEW c \in Chans, Eof(c) PROVE TypeOK'
  BY <1>7 DEF Eof, Forget, DropSender, session, process
<1>8. ASSUME NEW c \in Chans, Signal(c) PROVE TypeOK'
  BY <1>8 DEF Signal, Killed, session, io, process, idling
<1>9. ASSUME NEW c \in Chans, CloseChannel(c)
      PROVE  /\ entry' \in [Chans -> {"none", "bare", "process"}]
             /\ cancelled' \in SUBSET Chans /\ tx' \in SUBSET Chans /\ tty' \in SUBSET Chans
             /\ shellPid' \in Chans \cup {NoChan}
             /\ child' \in [Chans -> {"none", "alive", "zombie", "reaped"}]
             /\ orphan' = orphan
  BY <1>9 DEF CloseChannel, Killed, DropSender, ClearPid, process
<1>10. ASSUME NEW c \in Chans, ClientClose(c) \/ SweepOne(c) PROVE TypeOK'
  BY <1>9, <1>10 DEF ClientClose, SweepOne, Forget, session, idling
<1>11. ASSUME NEW c \in Chans, ChildExits(c) \/ Detach(c) \/ Reap(c) PROVE TypeOK'
  BY <1>11 DEF ChildExits, Detach, Reap, session, io, process, idling
<1>12. ASSUME NEW c \in Chans, WriteChunk(c) \/ WriterEnds(c) PROVE TypeOK'
  <2>1. queue' \in [Chans -> 0 .. QueueCap]
    BY <1>12 DEF WriteChunk, WriterEnds
  <2> QED
    BY <1>12, <2>1 DEF WriteChunk, WriterEnds, session, process, idling
<1>13. ASSUME NEW c \in Chans, Output(c) \/ OutputSent(c) PROVE TypeOK'
  BY <1>13 DEF Output, OutputSent, Touch, session, io, process, idling
<1>14. ASSUME NEW c \in Chans, ReaderEnds(c) \/ ChildNoticed(c) \/ WaitOver(c) PROVE TypeOK'
  BY <1>14 DEF ReaderEnds, ChildNoticed, WaitOver, session, io, process, idling
<1>15. ASSUME NEW c \in Chans, Finish(c) PROVE TypeOK'
  BY <1>15 DEF Finish, ClearPid, DropSender, Forget, session, process
<1>16. ASSUME NEW c \in Chans, Silence(c) PROVE TypeOK'
  BY <1>16 DEF Silence, session, io, process
<1>17. ASSUME NEW c \in Chans, ReapIdle(c) PROVE TypeOK'
  <2>1. reaper' \in [on : BOOLEAN, todo : SUBSET Chans]
    BY <1>17 DEF ReapIdle
  <2> QED
    BY <1>17, <2>1 DEF ReapIdle, Forget, session, io, process
<1>18. CASE UNCHANGED vars
  BY <1>18 DEF vars, session, io, process, idling
<1> QED
  BY <1>1, <1>2, <1>3, <1>4, <1>5, <1>6, <1>7, <1>8, <1>10, <1>11, <1>12, <1>13,
     <1>14, <1>15, <1>16, <1>17, <1>18, <1>19 DEF Next

\* Closing a channel, by its client or by the sweep, removes its entry and
\* kills the child it finds in it (exec.rs:673-688).
LEMMA CloseChildInv ==
  ASSUME TypeOK, ChildInv, NEW c \in Chans, CloseChannel(c), UNCHANGED <<ssh, task>>,
         chan' = chan \/ chan' = [chan EXCEPT ![c] = "closed"]
  PROVE  ChildInv'
<1> USE DEF TypeOK, ChildInv, CloseChannel, Killed, process
<1>1. CASE entry[c] = "process"
  BY <1>1
<1>2. CASE entry[c] # "process"
  BY <1>2
<1> QED
  BY <1>1, <1>2

LEMMA NextChildInv == TypeOK /\ ChildInv /\ [Next]_vars => ChildInv'
<1> SUFFICES ASSUME TypeOK, ChildInv, [Next]_vars PROVE ChildInv'
  OBVIOUS
<1>1. ASSUME UNCHANGED <<chan, entry, child, task, orphan>>, ssh' = ssh \/ ssh' # "up"
      PROVE  ChildInv'
  BY <1>1 DEF ChildInv
<1>2. CASE SessionEnds \/ Tick \/ ReaperExits
  BY <1>1, <1>2 DEF SessionEnds, Tick, ReaperExits, session, process
<1>3. CASE Swept
  BY <1>3 DEF Swept, ChildInv, TypeOK, process
<1>4. ASSUME NEW c \in Chans, OpenSession(c) PROVE ChildInv'
  BY <1>4 DEF OpenSession, ChildInv, TypeOK, process
<1>5. ASSUME NEW c \in Chans, NEW shell \in BOOLEAN, StartCommand(c, shell) PROVE ChildInv'
  BY <1>5 DEF StartCommand, MayStart, ChildInv, TypeOK, session
<1>11. ASSUME NEW c \in Chans, NEW shell \in BOOLEAN, StartBreaks(c, shell) PROVE ChildInv'
  <2>1. orphan = {} /\ chan[c] = "open"
    BY <1>11 DEF StartBreaks, MayStart, ChildInv, TypeOK
  <2> QED
    BY <1>11, <2>1 DEF StartBreaks, MayStart, ChildInv, TypeOK
<1>12. ASSUME NEW c \in Chans, StartFails(c) PROVE ChildInv'
  BY <1>12 DEF StartFails, MayStart, ChildInv, TypeOK, process
<1>6. ASSUME NEW c \in Chans,
             \/ StartRejected(c) \/ Data(c) \/ Eof(c)
             \/ Detach(c) \/ WriteChunk(c) \/ WriterEnds(c)
             \/ Output(c) \/ OutputSent(c) \/ Silence(c) \/ ReapIdle(c)
      PROVE  ChildInv'
  BY <1>1, <1>6 DEF StartRejected, Data, Eof, Detach, WriteChunk, WriterEnds,
    Output, OutputSent, Silence, ReapIdle, session, process
<1>7. ASSUME NEW c \in Chans, Signal(c) \/ ChildExits(c) \/ Reap(c) PROVE ChildInv'
  BY <1>7 DEF Signal, Killed, ChildExits, Reap, ChildInv, TypeOK, session, process
<1>8. ASSUME NEW c \in Chans, ClientClose(c) \/ SweepOne(c) PROVE ChildInv'
  BY <1>8, CloseChildInv DEF ClientClose, SweepOne, session
<1>9. ASSUME NEW c \in Chans,
             ReaderEnds(c) \/ ChildNoticed(c) \/ WaitOver(c) \/ Finish(c)
      PROVE  ChildInv'
  BY <1>9 DEF ReaderEnds, ChildNoticed, WaitOver, Finish, ChildInv, TypeOK, session, process
<1>10. CASE UNCHANGED vars
  BY <1>1, <1>10 DEF vars, session, process
<1> QED
  BY <1>2, <1>3, <1>4, <1>5, <1>6, <1>7, <1>8, <1>9, <1>10, <1>11, <1>12 DEF Next

\* A channel enters the idle map again only on traffic of an open channel or
\* after a send of a reader task that has yet to forget it.
LEMMA NextIdleMapClean == TypeOK /\ IdleMapClean /\ [Next]_vars => IdleMapClean'
<1> SUFFICES ASSUME TypeOK, IdleMapClean, [Next]_vars PROVE IdleMapClean'
  OBVIOUS
<1>1. ASSUME UNCHANGED <<chan, ssh, task, idle>> PROVE IdleMapClean'
  BY <1>1 DEF IdleMapClean
<1>2. CASE SessionEnds \/ Swept
  BY <1>2 DEF SessionEnds, Swept, IdleMapClean
<1>3. CASE Tick \/ ReaperExits
  BY <1>1, <1>3 DEF Tick, ReaperExits, session
<1>4. ASSUME NEW c \in Chans, OpenSession(c) PROVE IdleMapClean'
  BY <1>4 DEF OpenSession, IdleMapClean, TypeOK, idling
<1>5. ASSUME NEW c \in Chans, NEW shell \in BOOLEAN, StartCommand(c, shell) PROVE IdleMapClean'
  BY <1>5 DEF StartCommand, MayStart, Touch, IdleMapClean, TypeOK, session
<1>6. ASSUME NEW c \in Chans, StartRejected(c) \/ Data(c) \/ Silence(c) PROVE IdleMapClean'
  BY <1>6 DEF StartRejected, Data, Silence, Touch, IdleMapClean, TypeOK, session
<1>7. ASSUME NEW c \in Chans, Eof(c) \/ ReapIdle(c) PROVE IdleMapClean'
  BY <1>7 DEF Eof, ReapIdle, Forget, IdleMapClean, TypeOK, session
<1>8. ASSUME NEW c \in Chans,
             \/ Signal(c) \/ ChildExits(c) \/ Detach(c) \/ Reap(c)
             \/ WriteChunk(c) \/ WriterEnds(c) \/ Output(c) \/ SweepOne(c)
      PROVE  IdleMapClean'
  BY <1>1, <1>8 DEF Signal, ChildExits, Detach, Reap, WriteChunk, WriterEnds, Output,
    SweepOne, session, idling
<1>9. ASSUME NEW c \in Chans, ClientClose(c) PROVE IdleMapClean'
  BY <1>9 DEF ClientClose, Forget, IdleMapClean, TypeOK
<1>10. ASSUME NEW c \in Chans, OutputSent(c) PROVE IdleMapClean'
  BY <1>10 DEF OutputSent, Reading, Touch, IdleMapClean, TypeOK, session
<1>11. ASSUME NEW c \in Chans, ReaderEnds(c) \/ ChildNoticed(c) \/ WaitOver(c)
       PROVE  IdleMapClean'
  BY <1>11 DEF ReaderEnds, ChildNoticed, WaitOver, IdleMapClean, TypeOK, session, idling
<1>12. ASSUME NEW c \in Chans, Finish(c) PROVE IdleMapClean'
  BY <1>12 DEF Finish, Forget, IdleMapClean, TypeOK, session
<1>13. ASSUME NEW c \in Chans, StartFails(c) PROVE IdleMapClean'
  BY <1>13 DEF StartFails, IdleMapClean
<1>15. ASSUME NEW c \in Chans, NEW shell \in BOOLEAN, StartBreaks(c, shell)
       PROVE  IdleMapClean'
  BY <1>15 DEF StartBreaks, IdleMapClean
<1>14. CASE UNCHANGED vars
  BY <1>1, <1>14 DEF vars, session, idling
<1> QED
  BY <1>2, <1>3, <1>4, <1>5, <1>6, <1>7, <1>8, <1>9, <1>10, <1>11, <1>12, <1>13,
     <1>14, <1>15 DEF Next

\* No child outlives its channel but one that let go of its PTY and outlived
\* its reader's patience, or the one of a start that failed after the spawn and
\* ended the session, and no closed channel stays in the idle map, however
\* the close, the sweep, the reader task and the reaper interleave
\* (exec.rs:246-324, 634-654, 673-710, protocol.rs:213-217, handler/mod.rs:117-137).
THEOREM ChannelsStaySound == Spec => []ChannelsSound
<1>1. SoundInv /\ [Next]_vars => SoundInv'
  BY NextTypeOK, NextChildInv, NextIdleMapClean DEF SoundInv
<1>2. SoundInv => ChannelsSound
  BY DEF SoundInv, ChannelsSound, NoChildLeft, ChildInv
<1> QED
  BY <1>1, <1>2, InitSoundInv, PTL DEF Spec
=============================================================================
