----------------------------- MODULE Transfers -----------------------------
(***************************************************************************)
(* File transfers between a client and a server over one connection, each  *)
(* on a stream of its own: put (client/transfer/files/upload.rs against    *)
(* server/transfer/files/upload.rs) and get (the two download.rs), of one  *)
(* file or recursively of several.                                         *)
(*                                                                         *)
(* Either way one side sends: it looks at the size of a file and reads it  *)
(* chunk by chunk to its end.  The other receives: it writes a part file   *)
(* beside the destination and renames it once the file is complete.  The   *)
(* file may change while it is read, a disk or a helper process may fail,  *)
(* the connection may be lost, and the client may give up.                 *)
(*                                                                         *)
(* A client may also ask a question: for the directory the remote shell is *)
(* in, whether a path exists, or for the completions of one.  The server   *)
(* answers in the context of that shell, which moves and ends meanwhile.   *)
(***************************************************************************)
EXTENDS Integers, Sequences, FiniteSets

CONSTANTS
  Puts, Gets,   \* transfers, by direction
  Asks,         \* questions
  Recursive,    \* those of a directory
  Paths,        \* destinations
  Dest,         \* destinations of the files of each transfer, in order
  Sizes,        \* sizes of files, in chunks
  Together,     \* sets of transfers that may run side by side and receive their
                \* files on one machine, the server's or the client's
  MaxShells,    \* bound: shells the connection runs, one after the other
  Window,       \* frames a stream holds before a writer has to wait
  Absent,       \* no file
  Nobody,       \* who wrote what was there before
  Torn          \* in place of a chunk whose write has failed: the file lacks it

Transfers == Puts \cup Gets \cup Asks
Entries(t) == 1 .. Len(Dest[t])

ASSUME TransfersAssumption ==
  /\ Puts \cap Gets = {} /\ Asks \cap (Puts \cup Gets) = {}
  /\ Recursive \subseteq Puts \cup Gets
  /\ Dest \in [Transfers -> Seq(Paths)]
  /\ \A t \in Transfers : Len(Dest[t]) > 0
  /\ \A t \in Transfers \ Recursive : Len(Dest[t]) = 1
  /\ Sizes \subseteq Nat /\ \E n \in Sizes : \A m \in Sizes : m <= n
  /\ Together \subseteq SUBSET Transfers
  /\ \A T \in Together : T \cap Puts = {} \/ T \cap Gets = {}
  /\ Window \in Nat \ {0} /\ MaxShells \in Nat
  /\ Nobody \notin Transfers /\ Torn \notin Transfers \cup {Nobody}
  /\ Absent \notin Seq(Transfers \cup {Nobody, Torn})

VARIABLES
  active,    \* the transfers that are made
  source,    \* size of each file to be sent, now
  looked,    \* size of each file when the sender looked at it
  changed,   \* transfers with a file that has changed
  snd, rcv,  \* the sending and the receiving side of each transfer
  fwd, bwd,  \* frames under way to the receiver and to the sender
  part,      \* part files: who wrote each chunk
  file,      \* destinations: who wrote each chunk
  conn,      \* the connection, "up" or "lost"
  shells,    \* the directory of each shell, by its pid, or Unborn or Gone
  pid,       \* shell_pid of the connection
  ctx,       \* the ShellContext of each question: a pid or NoShell
  was        \* where a question may be answered from: the directories its
             \* context has been in since it was taken (history)

sizes == <<active, source, looked, changed>>
files == <<part, file>>
context == <<shells, pid, ctx, was>>
env == <<conn, context>>
vars == <<sizes, snd, rcv, fwd, bwd, files, env>>

Ended == {"ok", "failed", "dropped"}
Old == <<Nobody>>

\* directories, the place of a path that does not depend on one, and shells
\* that do not run
Home == 0
Dirs == {Home, 1}
Fixed == 2
Unborn == 3
Gone == 4
Pids == 1 .. MaxShells
NoShell == 0

\* where a side is, the file it is at, the chunks it has sent or received of
\* it and of all files, and the size a receiver was told
Fresh == [pc |-> "new", entry |-> 1, count |-> 0, total |-> 0, size |-> 0]

Init ==
  /\ active \in Together
  /\ \E n \in Sizes : source = [t \in Transfers |-> [e \in Entries(t) |-> n]]
  /\ looked = source /\ changed = {}
  /\ snd = [t \in Transfers |-> Fresh] /\ rcv = [t \in Transfers |-> Fresh]
  /\ fwd = [t \in Transfers |-> <<>>] /\ bwd = [t \in Transfers |-> <<>>]
  /\ part = [t \in Transfers |-> Absent]
  /\ file \in [Paths -> {Absent, Old}]
  /\ conn = "up"
  /\ shells = [i \in Pids |-> Unborn] /\ pid = NoShell
  /\ ctx = [t \in Asks |-> NoShell] /\ was = [t \in Asks |-> {}]

-----------------------------------------------------------------------------
(***************************************************************************)
(* A stream: frames in both directions.  A side that has ended has dropped *)
(* its stream: what it has written can still be read, what is written to   *)
(* it fails sooner or later.                                               *)
(***************************************************************************)
Frame(kind, n) == [kind |-> kind, n |-> n]

HasRoom(q) == conn = "up" /\ Len(q) < Window

SndWrite(t, f) == HasRoom(fwd[t]) /\ fwd' = [fwd EXCEPT ![t] = Append(@, f)]
RcvWrite(t, f) == HasRoom(bwd[t]) /\ bwd' = [bwd EXCEPT ![t] = Append(@, f)]

SndRead(t) == bwd[t] # <<>> /\ bwd' = [bwd EXCEPT ![t] = Tail(@)]
RcvRead(t) == fwd[t] # <<>> /\ fwd' = [fwd EXCEPT ![t] = Tail(@)]

SndWriteFails(t) == (conn = "lost" \/ rcv[t].pc \in Ended) /\ UNCHANGED fwd
RcvWriteFails(t) == (conn = "lost" \/ snd[t].pc \in Ended) /\ UNCHANGED bwd

SndReadFails(t) ==
  (conn = "lost" \/ (bwd[t] = <<>> /\ rcv[t].pc \in Ended)) /\ UNCHANGED bwd
\* mutant: the end of the stream goes unnoticed
RcvReadFails_LostOnly(t) == conn = "lost" /\ UNCHANGED fwd

RcvReadFails(t) ==
  (conn = "lost" \/ (fwd[t] = <<>> /\ snd[t].pc \in Ended)) /\ UNCHANGED fwd

\* an error frame, if it can be written
SndError(t) == SndWrite(t, Frame("error", 0)) \/ SndWriteFails(t)
RcvError(t) == RcvWrite(t, Frame("error", 0)) \/ RcvWriteFails(t)

\* on to pc; a side that has ended keeps nothing else
To(s, pc) == IF pc \in Ended THEN [Fresh EXCEPT !.pc = pc] ELSE [s EXCEPT !.pc = pc]
SndTo(t, pc) == snd' = [snd EXCEPT ![t] = To(@, pc)]
RcvTo(t, pc) == rcv' = [rcv EXCEPT ![t] = To(@, pc)]

\* the next frame is one of kinds, or not, in which case the side gives up
SndGets(t, kind) == SndRead(t) /\ Head(bwd[t]).kind = kind
SndGetsOther(t, kinds) ==
  \/ SndRead(t) /\ Head(bwd[t]).kind \notin kinds
  \/ SndReadFails(t)
RcvGets(t, kind) == RcvRead(t) /\ Head(fwd[t]).kind = kind
RcvGetsOther(t, kinds) ==
  \/ RcvRead(t) /\ Head(fwd[t]).kind \notin kinds
  \/ RcvReadFails(t)

-----------------------------------------------------------------------------
(***************************************************************************)
(* The sender: the client of a put, the server of a get.                   *)
(***************************************************************************)
Look(t) ==
  /\ looked' = [looked EXCEPT ![t] = source[t]]
  /\ UNCHANGED <<active, source, changed>>

\* upload_file_with_progress: look at the file, announce its size
PutFile(t) ==
  /\ t \in (Puts \cap active) \ Recursive /\ snd[t].pc = "new"
  /\ Look(t)
  /\ SndWrite(t, Frame("request", source[t][1]))
  /\ SndTo(t, "request")
  /\ UNCHANGED <<rcv, bwd, files, env>>

\* upload_dir_with_progress
PutDir(t) ==
  /\ t \in Puts \cap active \cap Recursive /\ snd[t].pc = "new"
  /\ SndWrite(t, Frame("request", 0))
  /\ SndTo(t, "request")
  /\ UNCHANGED <<sizes, rcv, bwd, files, env>>

PutFileReady(t) ==
  /\ t \in Puts \ Recursive /\ snd[t].pc = "request"
  /\ SndGets(t, "ready")
  /\ SndTo(t, IF Head(bwd[t]).n = looked[t][1] THEN "sending" ELSE "failed")
  /\ UNCHANGED <<sizes, rcv, fwd, files, env>>

\* the walk over the directory looks at all its files before the first is sent
PutDirReady(t) ==
  /\ t \in Puts \cap Recursive /\ snd[t].pc = "request"
  /\ SndGets(t, "ready")
  /\ Look(t)
  /\ SndTo(t, "header")
  /\ UNCHANGED <<rcv, fwd, files, env>>

\* handle_get_request: probe the size, open the file, announce it; or report
\* that it cannot be had
GetFile(t) ==
  /\ t \in Gets \ Recursive /\ snd[t].pc = "new"
  /\ SndGets(t, "request")
  /\ Look(t)
  /\ \/ SndWrite(t, Frame("ready", source[t][1])) /\ SndTo(t, "sending")
     \/ SndError(t) /\ SndTo(t, "failed")
  /\ UNCHANGED <<rcv, files, env>>

\* handle_recursive_get_request
GetDir(t) ==
  /\ t \in Gets \cap Recursive /\ snd[t].pc = "new"
  /\ SndGets(t, "request")
  /\ Look(t)
  /\ \/ SndWrite(t, Frame("ready", 0)) /\ SndTo(t, "header")
     \/ SndError(t) /\ SndTo(t, "failed")
  /\ UNCHANGED <<rcv, files, env>>

\* a file of a directory is announced with its size
NewEntry(t) ==
  /\ snd[t].pc = "header" /\ snd[t].entry \in Entries(t)
  /\ SndWrite(t, Frame("entry", looked[t][snd[t].entry]))
  /\ snd' = [snd EXCEPT ![t].pc = "sending", ![t].count = 0]
  /\ UNCHANGED <<sizes, rcv, bwd, files, env>>

\* what is read is what the file holds now, whatever it held when looked at
AtEnd(t) == snd[t].count >= source[t][snd[t].entry]

SendChunk(t) ==
  /\ snd[t].pc = "sending" /\ ~AtEnd(t)
  /\ SndWrite(t, Frame("chunk", 0))
  /\ snd' = [snd EXCEPT ![t].count = @ + 1, ![t].total = @ + 1]
  /\ UNCHANGED <<sizes, rcv, bwd, files, env>>

\* stream_file_content does not ask how its helper process ended, so that a
\* helper that fails looks like the end of the file
EntryEnds(t) == AtEnd(t) \/ t \in Gets

EntryComplete(t) ==
  /\ t \in Recursive /\ snd[t].pc = "sending" /\ EntryEnds(t)
  /\ SndWrite(t, Frame("entry_end", 0))
  /\ snd' = [snd EXCEPT ![t].pc = "header", ![t].entry = @ + 1]
  /\ UNCHANGED <<sizes, rcv, bwd, files, env>>

\* the client of a put reports what it has sent, and waits for the answer
PutComplete(t) ==
  /\ t \in Puts
  /\ IF t \in Recursive THEN snd[t].pc = "header" /\ snd[t].entry \notin Entries(t)
                        ELSE snd[t].pc = "sending" /\ AtEnd(t)
  /\ SndWrite(t, Frame("complete", snd[t].total))
  /\ SndTo(t, "confirm")
  /\ UNCHANGED <<sizes, rcv, bwd, files, env>>

\* the server of a get reports what it had announced
GetFileComplete(t) ==
  /\ t \in Gets \ Recursive /\ snd[t].pc = "sending" /\ AtEnd(t)
  /\ SndWrite(t, Frame("complete", looked[t][1]))
  /\ SndTo(t, "ok")
  /\ UNCHANGED <<sizes, rcv, bwd, files, env>>

GetDirComplete(t) ==
  /\ t \in Gets \cap Recursive
  /\ snd[t].pc = "header" /\ snd[t].entry \notin Entries(t)
  /\ SndWrite(t, Frame("complete", snd[t].total))
  /\ SndTo(t, "ok")
  /\ UNCHANGED <<sizes, rcv, bwd, files, env>>

\* the file or its helper fails: a server says so, a client drops the stream
SourceFails(t) ==
  /\ snd[t].pc \in {"header", "sending"}
  /\ IF t \in Gets THEN SndError(t) ELSE UNCHANGED fwd
  /\ SndTo(t, "failed")
  /\ UNCHANGED <<sizes, rcv, bwd, files, env>>

SendFails(t) ==
  /\ snd[t].pc \in {"header", "sending"} /\ SndWriteFails(t)
  /\ SndTo(t, "failed")
  /\ UNCHANGED <<sizes, rcv, bwd, files, env>>

\* the server has confirmed as much as was sent
Confirmed(t) == Head(bwd[t]).n = snd[t].total

PutConfirmed(t) ==
  /\ snd[t].pc = "confirm" /\ SndGets(t, "complete")
  /\ SndTo(t, IF Confirmed(t) THEN "ok" ELSE "failed")
  /\ UNCHANGED <<sizes, rcv, fwd, files, env>>

\* an error frame, an unexpected one or the end of the stream
SndRefused(t) ==
  /\ \/ t \in Puts /\ snd[t].pc = "request" /\ SndGetsOther(t, {"ready"})
     \/ t \in Puts /\ snd[t].pc = "confirm" /\ SndGetsOther(t, {"complete"})
     \/ t \in Gets /\ snd[t].pc = "new" /\ rcv[t].pc # "new"
          /\ SndGetsOther(t, {"request"})
  /\ SndTo(t, "failed")
  /\ UNCHANGED <<sizes, rcv, fwd, files, env>>

Sender(t) == t \in active /\
  \/ PutFileReady(t) \/ PutDirReady(t) \/ GetFile(t) \/ GetDir(t)
  \/ NewEntry(t) \/ SendChunk(t) \/ EntryComplete(t)
  \/ PutComplete(t) \/ GetFileComplete(t) \/ GetDirComplete(t)
  \/ SourceFails(t) \/ SendFails(t) \/ PutConfirmed(t) \/ SndRefused(t)

-----------------------------------------------------------------------------
(***************************************************************************)
(* The receiver: the server of a put, the client of a get.                 *)
(***************************************************************************)
\* mutant: the part file is named after the destination alone
PartOf_Shared(t) == CHOOSE u \in Transfers : Dest[u][1] = Dest[t][1]

\* the part file's name is unique to the transfer
PartOf(t) == t

DestOf(t) == Dest[t][rcv[t].entry]

Remove(t) == part' = [part EXCEPT ![PartOf(t)] = Absent]

\* a server reports a failure, a client returns it
Report(t) == IF t \in Puts THEN RcvError(t) ELSE UNCHANGED bwd

\* handle_put_request, up to where the destination is prepared
HandlePut(t) ==
  /\ t \in Puts \ Recursive /\ rcv[t].pc = "new"
  /\ RcvGets(t, "request")
  /\ rcv' = [rcv EXCEPT ![t].pc = "check", ![t].size = Head(fwd[t]).n]
  /\ UNCHANGED <<sizes, snd, bwd, files, env>>

\* handle_recursive_put_request: make the directory and answer
HandlePutDir(t) ==
  /\ t \in Puts \cap Recursive /\ rcv[t].pc = "new"
  /\ RcvGets(t, "request")
  /\ \/ RcvWrite(t, Frame("ready", 0)) /\ RcvTo(t, "top")
     \/ RcvError(t) /\ RcvTo(t, "failed")
  /\ UNCHANGED <<sizes, snd, files, env>>

\* download_file_with_progress and download_dir_with_progress
GetRequest(t) ==
  /\ t \in Gets \cap active /\ rcv[t].pc = "new"
  /\ RcvWrite(t, Frame("request", 0))
  /\ RcvTo(t, "request")
  /\ UNCHANGED <<sizes, snd, fwd, files, env>>

GetReady(t) ==
  /\ t \in Gets /\ rcv[t].pc = "request"
  /\ RcvGets(t, "ready")
  /\ rcv' = [rcv EXCEPT ![t].pc = IF t \in Recursive THEN "top" ELSE "open",
                        ![t].size = Head(fwd[t]).n]
  /\ UNCHANGED <<sizes, snd, bwd, files, env>>

\* no request or no answer to it
RcvRefused(t) ==
  /\ \/ t \in Puts /\ rcv[t].pc = "new" /\ snd[t].pc # "new"
          /\ RcvGetsOther(t, {"request"})
     \/ t \in Gets /\ rcv[t].pc = "request" /\ RcvGetsOther(t, {"ready"})
  /\ RcvTo(t, "failed")
  /\ UNCHANGED <<sizes, snd, bwd, files, env>>

\* mutant: whatever is there is replaced
Vacant_Always(t) == TRUE

\* a put never goes to a path that exists
Vacant(t) == file[DestOf(t)] = Absent

\* prepare_put_destination: the path is free, or exists, or cannot be had
Prepare(t) ==
  /\ rcv[t].pc = "check"
  /\ \/ Vacant(t) /\ RcvTo(t, "open") /\ UNCHANGED bwd
     \/ RcvError(t) /\ RcvTo(t, "failed")
  /\ UNCHANGED <<sizes, snd, fwd, files, env>>

\* the part file is made, and the client of a single put told to go on
OpenPart(t) ==
  /\ rcv[t].pc = "open"
  /\ part' = [part EXCEPT ![PartOf(t)] = <<>>]
  /\ IF t \in Puts \ Recursive THEN RcvWrite(t, Frame("ready", rcv[t].size))
                               ELSE UNCHANGED bwd
  /\ RcvTo(t, "receive")
  /\ UNCHANGED <<sizes, snd, fwd, file, env>>

\* it cannot be made, or the client cannot be told and it is removed; but the
\* helper that makes it is not waited for then, and may do so after the removal
OpenFails(t) ==
  /\ rcv[t].pc = "open"
  /\ \/ Remove(t) /\ Report(t) /\ RcvTo(t, "failed")
     \/ /\ t \in Puts \ Recursive /\ RcvWriteFails(t)
        /\ part' = [part EXCEPT ![PartOf(t)] = <<>>] /\ RcvTo(t, "dropped")
  /\ UNCHANGED <<sizes, snd, fwd, file, env>>

\* a chunk more than was declared; the client of a get does not count
Exceeds(t) == t \in Puts /\ rcv[t].count + 1 > rcv[t].size

\* a single put reports a wrong size at once, and leaves its part file behind
\* when the report cannot be written; the others clean up first
WrongSize(t) ==
  IF t \in Puts \ Recursive
  THEN \/ RcvWrite(t, Frame("error", 0)) /\ RcvTo(t, "cleanup")
       \/ RcvWriteFails(t) /\ RcvTo(t, "dropped")
  ELSE RcvTo(t, "cleanup") /\ UNCHANGED bwd

\* no write to the part file has failed
Written(t) ==
  part[PartOf(t)] # Absent /\ \A i \in DOMAIN part[PartOf(t)] : part[PartOf(t)][i] # Torn

\* a write is handed to another thread (tokio::fs::File): whether it fails shows
\* when the next one is made
ReceiveChunk(t) ==
  /\ rcv[t].pc = "receive" /\ RcvGets(t, "chunk") /\ ~Exceeds(t)
  /\ Written(t)
  /\ \E c \in {t, Torn} : part' = [part EXCEPT ![PartOf(t)] = Append(@, c)]
  /\ rcv' = [rcv EXCEPT ![t].count = @ + 1]
  /\ UNCHANGED <<sizes, snd, bwd, file, env>>

ReceiveExcess(t) ==
  /\ rcv[t].pc = "receive" /\ RcvGets(t, "chunk") /\ Exceeds(t)
  /\ WrongSize(t)
  /\ UNCHANGED <<sizes, snd, files, env>>

\* the write before has failed, the helper refuses the chunk, or the next frame
\* is neither a chunk nor the end of the file
ReceiveFails(t) ==
  /\ rcv[t].pc = "receive"
  /\ \/ RcvGets(t, "chunk") /\ ~Exceeds(t) /\ (Written(t) => t \in Puts)
     \/ RcvGetsOther(t, {"chunk", "entry_end", "complete"})
  /\ RcvTo(t, "cleanup")
  /\ UNCHANGED <<sizes, snd, bwd, files, env>>

EndKind(t) == IF t \in Recursive THEN "entry_end" ELSE "complete"

\* as many chunks as were declared and, if it says so, as the sender counted;
\* the client of a recursive get compares nothing
Whole(t) ==
  \/ t \in Gets \cap Recursive
  \/ /\ rcv[t].count = rcv[t].size
     /\ t \notin Recursive => Head(fwd[t]).n = rcv[t].count

EndOfFile(t) ==
  /\ rcv[t].pc = "receive" /\ RcvGets(t, EndKind(t))
  /\ IF Whole(t) THEN RcvTo(t, "commit") /\ UNCHANGED bwd ELSE WrongSize(t)
  /\ UNCHANGED <<sizes, snd, files, env>>

\* the part file goes; a recursive put reports only now
Cleanup(t) ==
  /\ rcv[t].pc = "cleanup"
  /\ Remove(t)
  /\ IF t \in Recursive THEN Report(t) ELSE UNCHANGED bwd
  /\ RcvTo(t, "failed")
  /\ UNCHANGED <<sizes, snd, fwd, file, env>>

\* flush reports that the last write has failed.  A put drops that result, and
\* the second flush, in wait, has nothing left to report; only a helper process
\* tells by the way it ends
Flushed(t) == part[PartOf(t)] # Absent /\ (t \in Puts \/ Written(t))

\* the part file takes the destination's name
Save(t) ==
  /\ rcv[t].pc = "commit" /\ Flushed(t)
  /\ file' = [file EXCEPT ![DestOf(t)] = part[PartOf(t)]]
  /\ Remove(t)
  /\ rcv' = [rcv EXCEPT ![t] =
       IF t \in Gets \ Recursive THEN To(rcv[t], "ok")
       ELSE [rcv[t] EXCEPT !.pc = IF t \in Recursive THEN "top" ELSE "reply",
                           !.entry = rcv[t].entry + 1,
                           !.total = rcv[t].total + rcv[t].count]]
  /\ UNCHANGED <<sizes, snd, fwd, bwd, env>>

\* the helper or the flush failed, or a single put's rename
SaveRefused(t) ==
  /\ rcv[t].pc = "commit"
  /\ Remove(t) /\ Report(t)
  /\ RcvTo(t, "failed")
  /\ UNCHANGED <<sizes, snd, fwd, file, env>>

\* any other rename fails with the part file left where it is; a get has then
\* tried to copy it, and may have written some of it to the destination
SaveFails(t) ==
  /\ rcv[t].pc = "commit" /\ t \in Gets \cup Recursive /\ Flushed(t)
  /\ \/ UNCHANGED file
     \/ /\ t \in Gets
        /\ \E n \in 0 .. Len(part[PartOf(t)]) :
             file' = [file EXCEPT ![DestOf(t)] = SubSeq(part[PartOf(t)], 1, n)]
  /\ Report(t)
  /\ RcvTo(t, "dropped")
  /\ UNCHANGED <<sizes, snd, fwd, part, env>>

NextFile(t) ==
  /\ rcv[t].pc = "top" /\ RcvGets(t, "entry")
  /\ rcv' = [rcv EXCEPT ![t].pc = IF t \in Puts THEN "check" ELSE "open",
                        ![t].size = Head(fwd[t]).n, ![t].count = 0]
  /\ UNCHANGED <<sizes, snd, bwd, files, env>>

\* mutant: an error of the sender is taken for the end
LastKinds_Error == {"complete", "error"}

\* what ends a recursive transfer
LastKinds == {"complete"}

LastFile(t) ==
  /\ rcv[t].pc = "top" /\ RcvRead(t) /\ Head(fwd[t]).kind \in LastKinds
  /\ RcvTo(t, IF t \in Puts THEN "reply" ELSE "ok")
  /\ UNCHANGED <<sizes, snd, bwd, files, env>>

\* a path that is refused, an error of the sender or the end of the stream
NextFileFails(t) ==
  /\ rcv[t].pc = "top" /\ RcvGetsOther(t, LastKinds)
  /\ Report(t)
  /\ RcvTo(t, "failed")
  /\ UNCHANGED <<sizes, snd, files, env>>

Reply(t) ==
  /\ rcv[t].pc = "reply"
  /\ \/ RcvWrite(t, Frame("complete", rcv[t].total)) /\ RcvTo(t, "ok")
     \/ RcvWriteFails(t) /\ RcvTo(t, "failed")
  /\ UNCHANGED <<sizes, snd, fwd, files, env>>

Receiver(t) == t \in active /\
  \/ HandlePut(t) \/ HandlePutDir(t) \/ GetReady(t) \/ RcvRefused(t)
  \/ Prepare(t) \/ OpenPart(t) \/ OpenFails(t)
  \/ ReceiveChunk(t) \/ ReceiveExcess(t) \/ ReceiveFails(t) \/ EndOfFile(t)
  \/ Cleanup(t) \/ Save(t) \/ SaveRefused(t) \/ SaveFails(t)
  \/ NextFile(t) \/ LastFile(t) \/ NextFileFails(t) \/ Reply(t)

-----------------------------------------------------------------------------
(***************************************************************************)
(* Questions.  The server is the sender, as it is for a get.               *)
(***************************************************************************)
AskKinds == {"cwd", "exists", "completion"}

\* remote_cwd, remote_exists: the stream is opened and the question written
Ask(t) ==
  /\ t \in Asks \cap active /\ rcv[t].pc = "new"
  /\ \E k \in AskKinds : RcvWrite(t, Frame(k, 0))
  /\ RcvTo(t, "request")
  /\ UNCHANGED <<sizes, snd, fwd, files, env>>

\* ShellContext::from_state: taken before the question is read
FromState(t) ==
  /\ t \in Asks /\ snd[t].pc = "new" /\ rcv[t].pc # "new"
  /\ ctx' = [ctx EXCEPT ![t] = pid]
  /\ was' = [was EXCEPT ![t] = (IF pid = NoShell THEN {Home} ELSE {shells[pid]}) \cap Dirs]
  /\ SndTo(t, "dispatched")
  /\ UNCHANGED <<sizes, rcv, fwd, bwd, files, conn, shells, pid>>

ReadAsk(t) ==
  /\ snd[t].pc = "dispatched"
  /\ SndRead(t) /\ SndTo(t, Head(bwd[t]).kind)
  /\ UNCHANGED <<sizes, rcv, fwd, files, env>>

\* mutant: without the shell, home will do
Cwd_Fallback(t) ==
  {IF ctx[t] = NoShell \/ shells[ctx[t]] = Gone THEN Home ELSE shells[ctx[t]]}

\* ShellContext::cwd: where the shell is now, nothing once it is gone
Cwd(t) == IF ctx[t] = NoShell THEN {Home} ELSE {shells[ctx[t]]} \ {Gone}

\* the process of a live context still runs: a helper can join its namespaces
ContextUp(t) == Cwd(t) # {}

\* where a path leads: relative to the directory, or somewhere of its own
ResolvePath(t) == Cwd(t) \cup {Fixed}

\* handle_cwd_request, and the paths of the other two
Resolve(t) ==
  /\ snd[t].pc \in AskKinds
  /\ \E d \in IF snd[t].pc = "cwd" THEN Cwd(t) ELSE ResolvePath(t) :
       snd' = [snd EXCEPT ![t].size = d,
                          ![t].pc = CASE @ = "cwd" -> "answer"
                                      [] @ = "exists" -> "path_exists"
                                      [] @ = "completion" -> "find"]
  /\ UNCHANGED <<sizes, rcv, fwd, bwd, files, env>>

\* handle_exists_request: one helper after the other
PathExists(t) ==
  /\ snd[t].pc = "path_exists" /\ ContextUp(t)
  /\ SndTo(t, "is_dir")
  /\ UNCHANGED <<sizes, rcv, fwd, bwd, files, env>>

IsDir(t) ==
  /\ snd[t].pc = "is_dir" /\ ContextUp(t)
  /\ SndTo(t, "answer")
  /\ UNCHANGED <<sizes, rcv, fwd, bwd, files, env>>

\* handle_completion_request: a listing that fails is an empty one
Find(t) ==
  /\ snd[t].pc = "find"
  /\ SndTo(t, "answer")
  /\ UNCHANGED <<sizes, rcv, fwd, bwd, files, env>>

\* no directory, a path that is refused, a helper that fails
AskFails(t) ==
  /\ snd[t].pc \in AskKinds \cup {"path_exists", "is_dir"}
  /\ SndError(t)
  /\ SndTo(t, "failed")
  /\ UNCHANGED <<sizes, rcv, bwd, files, env>>

Answer(t) ==
  /\ snd[t].pc = "answer"
  /\ \/ SndWrite(t, Frame("answer", snd[t].size)) /\ SndTo(t, "ok")
     \/ SndWriteFails(t) /\ SndTo(t, "failed")
  /\ UNCHANGED <<sizes, rcv, bwd, files, env>>

AskUnread(t) ==
  /\ snd[t].pc = "dispatched" /\ SndReadFails(t)
  /\ SndTo(t, "failed")
  /\ UNCHANGED <<sizes, rcv, fwd, files, env>>

Answers(t) == t \in active /\
  \/ FromState(t) \/ ReadAsk(t) \/ Resolve(t) \/ PathExists(t) \/ IsDir(t)
  \/ Find(t) \/ AskFails(t) \/ Answer(t) \/ AskUnread(t)

\* the client keeps what it was told
Answered(t) ==
  /\ t \in Asks \cap active /\ rcv[t].pc = "request"
  /\ \/ /\ RcvGets(t, "answer")
        /\ rcv' = [rcv EXCEPT ![t].pc = "ok", ![t].size = Head(fwd[t]).n]
     \/ RcvGetsOther(t, {"answer"}) /\ RcvTo(t, "failed")
  /\ UNCHANGED <<sizes, snd, bwd, files, env>>

(***************************************************************************)
(* The shell of the connection (Channels has its life).  Only questions    *)
(* look at it, so it is let move only if there are any.                    *)
(***************************************************************************)
\* set_shell_pid, for a shell that has just been started
SetShellPid ==
  /\ active \cap Asks # {}
  /\ \E i \in Pids :
       /\ shells[i] = Unborn /\ \A j \in 1 .. i - 1 : shells[j] # Unborn
       /\ \E d \in Dirs : shells' = [shells EXCEPT ![i] = d]
       /\ pid' = i
  /\ UNCHANGED <<sizes, snd, rcv, fwd, bwd, files, conn, ctx, was>>

\* clear_shell_pid_if_matches, when its channel closes
ClearShellPid ==
  /\ pid # NoShell /\ pid' = NoShell
  /\ UNCHANGED <<sizes, snd, rcv, fwd, bwd, files, conn, shells, ctx, was>>

\* cd in a shell
Cd(i) ==
  /\ shells[i] \in Dirs
  /\ \E d \in Dirs \ {shells[i]} :
       /\ shells' = [shells EXCEPT ![i] = d]
       /\ was' = [t \in Asks |-> IF ctx[t] = i THEN was[t] \cup {d} ELSE was[t]]
  /\ UNCHANGED <<sizes, snd, rcv, fwd, bwd, files, conn, pid, ctx>>

ShellExits(i) ==
  /\ shells[i] \in Dirs /\ shells' = [shells EXCEPT ![i] = Gone]
  /\ UNCHANGED <<sizes, snd, rcv, fwd, bwd, files, conn, pid, ctx, was>>

-----------------------------------------------------------------------------
(***************************************************************************)
(* Everything else.                                                        *)
(***************************************************************************)
\* a file being sent grows or shrinks, once for each transfer
SourceChanges(t) ==
  /\ t \in active \ (changed \cup Asks) /\ snd[t].pc \notin Ended
  /\ \E e \in Entries(t), n \in Sizes :
       n # source[t][e] /\ source' = [source EXCEPT ![t][e] = n]
  /\ changed' = changed \cup {t}
  /\ UNCHANGED <<active, looked, snd, rcv, fwd, bwd, files, env>>

ConnLost ==
  /\ conn = "up" /\ conn' = "lost"
  /\ UNCHANGED <<sizes, snd, rcv, fwd, bwd, files, context>>

\* the client's call is dropped where it waits, nothing is cleaned up
Cancel(t) ==
  /\ \/ /\ t \in Puts /\ snd[t].pc \notin Ended \cup {"new"}
        /\ SndTo(t, "failed") /\ UNCHANGED rcv
     \/ /\ t \in Gets \cup Asks /\ rcv[t].pc \notin Ended \cup {"new"}
        /\ RcvTo(t, "dropped") /\ UNCHANGED snd
  /\ UNCHANGED <<sizes, fwd, bwd, files, env>>

Next ==
  \/ ConnLost
  \/ \E t \in Transfers :
       \/ PutFile(t) \/ PutDir(t) \/ GetRequest(t) \/ Ask(t)
       \/ Sender(t) \/ Receiver(t) \/ Answers(t) \/ Answered(t)
       \/ SourceChanges(t) \/ Cancel(t)
  \/ SetShellPid \/ ClearShellPid
  \/ \E i \in Pids : Cd(i) \/ ShellExits(i)

Spec == Init /\ [][Next]_vars

\* both sides are tasks that run whenever they can
FairSpec ==
  /\ Spec
  /\ \A t \in Transfers : WF_vars(Sender(t)) /\ WF_vars(Receiver(t))
  /\ \A t \in Asks : WF_vars(Answers(t)) /\ WF_vars(Answered(t))

-----------------------------------------------------------------------------
(***************************************************************************)
(* Properties.                                                             *)
(***************************************************************************)
MaxSize == CHOOSE n \in Sizes : \A m \in Sizes : m <= n

Frames == [kind : {"request", "ready", "entry", "chunk", "entry_end",
                   "complete", "error", "answer"} \cup AskKinds, n : Nat]
Contents == Seq(Transfers \cup {Nobody, Torn}) \cup {Absent}

\* no side is beyond the files of its transfer, or counts more chunks of one
\* than a file can have
SideOK(s, t) ==
  /\ s.entry \in 1 .. Len(Dest[t]) + 1
  /\ s.count \in 0 .. MaxSize
  /\ s.total \in 0 .. MaxSize * Len(Dest[t])
  /\ s.size \in IF t \in Asks THEN Dirs \cup {Fixed} ELSE Sizes \cup {0}

TypeOK ==
  /\ active \in Together /\ changed \subseteq active
  /\ \A t \in Transfers :
       /\ source[t] \in [Entries(t) -> Sizes] /\ looked[t] \in [Entries(t) -> Sizes]
       /\ snd[t].pc \in {"new", "request", "header", "sending", "confirm"} \cup Ended
                        \cup AskKinds
                        \cup {"dispatched", "path_exists", "is_dir", "find", "answer"}
       /\ rcv[t].pc \in {"new", "request", "check", "open", "receive", "cleanup",
                         "commit", "top", "reply"} \cup Ended
       /\ SideOK(snd[t], t) /\ SideOK(rcv[t], t)
       /\ \A q \in {fwd[t], bwd[t]} : q \in Seq(Frames) /\ Len(q) <= Window
       /\ part[t] \in Contents
  /\ \A d \in Paths : file[d] \in Contents
  /\ conn \in {"up", "lost"}
  /\ shells \in [Pids -> Dirs \cup {Unborn, Gone}]
  /\ pid \in Pids \cup {NoShell}
  /\ ctx \in [Asks -> Pids \cup {NoShell}] /\ was \in [Asks -> SUBSET Dirs]

\* The file at d is the one t was to bring there, as large as it was when
\* looked at, and of nobody else's chunks.
Brought(t, d) ==
  \E e \in Entries(t) :
    Dest[t][e] = d /\ file[d] = [i \in 1 .. looked[t][e] |-> t]

\* The same but for the last chunk, whose write failed on the server.
BroughtCut(t, d) ==
  t \in Puts /\ \E e \in Entries(t) :
    Dest[t][e] = d /\ file[d] = [i \in 1 .. looked[t][e] |-> IF i = looked[t][e] THEN Torn ELSE t]

\* What a destination holds is what it held before or a whole file of one
\* transfer, whatever fails and whoever else writes there.  Three cases are left
\* out in which the code does not see to it: an upload whose very last write to
\* the disk failed, which lacks that chunk and no more (upload.rs:151, 314); a
\* recursive get, whose client compares no sizes; and a get whose rename failed
\* and which is then copied.
WholeFiles ==
  \A d \in Paths :
    file[d] \notin {Absent, Old} =>
      \E t \in active :
        \/ Brought(t, d) \/ BroughtCut(t, d)
        \/ t \in Gets /\ (t \in Recursive \/ rcv[t].pc = "dropped")

\* A part file is some receiver's that is still at it: one that ends removes
\* it, unless its call was dropped, its rename failed or (handle_put_request)
\* its answer or its error frame could not be written.
PartsCleaned ==
  \A u \in Transfers :
    part[u] # Absent =>
      \E t \in active :
        PartOf(t) = u /\ rcv[t].pc \in {"receive", "cleanup", "commit", "dropped"}

ClientOk(t) == IF t \in Puts THEN snd[t].pc = "ok" ELSE rcv[t].pc = "ok"

\* When the client reports success, every file of the transfer is in place.
OkMeansSaved ==
  \A t \in active \ Asks : ClientOk(t) =>
    \A e \in Entries(t) : file[Dest[t][e]] \notin {Absent, Old}

\* An answer is about a directory in which the shell was while the question was
\* at work, about home only if there was no shell then: a shell that ends, moves
\* or is replaced in the middle gives an error or its last directory, never a
\* place of the server's own choosing ("It never invents a fallback path",
\* shell_access.rs:12-15, state.rs:130-161).
AnswersTrue ==
  \A t \in active \cap Asks : rcv[t].pc = "ok" => rcv[t].size \in was[t] \cup {Fixed}

\* Together, with the type of every variable.
TransfersSound == TypeOK /\ PartsCleaned /\ OkMeansSaved /\ AnswersTrue

\* A put never takes the place of a file that was there before it began.
PutsKeepOld ==
  [][\A d \in Paths :
       file[d] = Old /\ file'[d] # Old => active \cap Puts = {}]_vars

Started(t) == IF t \in Puts THEN snd[t].pc # "new" ELSE rcv[t].pc # "new"

\* Both sides of every transfer that is started end, with whatever result.
TransfersEnd ==
  []<>(\A t \in Transfers :
         Started(t) => snd[t].pc \in Ended /\ rcv[t].pc \in Ended)
=============================================================================
