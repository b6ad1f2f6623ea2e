------------------------------- MODULE Blobs -------------------------------
(***************************************************************************)
(* Content-addressed transfers over the streams of one connection          *)
(* (server/transfer/files/blob.rs against client/transfer/files/protocol.rs *)
(* and download_blob): an upload sends one blob as it is ("raw") or the    *)
(* blobs of a directory, each behind a length prefix, the last of them the *)
(* collection that names the others ("hashseq"); a download asks for the   *)
(* hash of a file or a directory and fetches it beside the stream.         *)
(*                                                                         *)
(* The server accumulates blobs in memory.  The streams of the connection  *)
(* share a budget of permits, one for every Unit bytes, through a fair     *)
(* semaphore: a stream asks for what a blob declares before it takes it.   *)
(*                                                                         *)
(* A client sends without waiting between PutReady and PutComplete, so     *)
(* sending a frame and reading it are one step.  A peer of another kind    *)
(* may send any frame at any time.                                         *)
(***************************************************************************)
EXTENDS Integers, Sequences, FiniteSets, FiniteSetsExt

CONSTANTS
  Streams,    \* transfer streams of the connection
  Jobs,       \* contents that are transferred
  Format,     \* the format of each job
  Sizes,      \* the sizes of the blobs of each job, in the order they are sent
  Paths,      \* destinations on the server
  Strangers,  \* streams of a peer that does not follow the protocol
  Downloads,  \* jobs that may be asked for
  Unit,       \* bytes that one permit stands for
  Cap,        \* MAX_IN_MEMORY_TRANSFER_BYTES, also the budget in bytes
  Prefix,     \* bytes of a length prefix
  Chunk,      \* MAX_CHUNK_BYTES
  MaxGrowth   \* bound: bytes by which files grow while they are sent

ASSUME BlobsAssumption ==
  /\ Format \in [Jobs -> {"raw", "hashseq"}]
  /\ Sizes \in [Jobs -> Seq(Nat)]
  /\ \A j \in Jobs : Len(Sizes[j]) > 0 /\ (Format[j] = "raw" => Len(Sizes[j]) = 1)
  /\ IsFiniteSet(Streams) /\ Strangers \subseteq Streams /\ Downloads \subseteq Jobs
  /\ Unit \in Nat \ {0} /\ Prefix \in Nat \ {0} /\ Chunk \in Nat \ {0}
  /\ Cap \in Nat /\ Cap % Unit = 0 /\ MaxGrowth \in Nat

VARIABLES
  tx,       \* the handler of each stream
  free,     \* permits nobody holds
  queue,    \* streams that wait for permits, first come first served
  store,    \* blobs in the server's store
  target,   \* what is at each destination
  lost,     \* streams whose connection is gone
  grown     \* bytes by which files have grown since they were measured

vars == <<tx, free, queue, store, target, lost, grown>>

Budget == Cap \div Unit

\* the sum of f over S, as the size of a set in which every x has f[x] elements
SumOver(f, S) == Cardinality(UNION {{x} \X (1 .. f[x]) : x \in S})

\* mutant: a share is rounded down
Permits_Down(bytes) == IF bytes > Cap THEN Budget ELSE bytes \div Unit

\* blob_memory_permits
Permits(bytes) == IF bytes > Cap THEN Budget ELSE (bytes + Unit - 1) \div Unit

Blobs(j) == 1 .. Len(Sizes[j])
Root(j) == <<j, Len(Sizes[j])>>
\* the blobs a destination is made of: the files, without the collection's own
Items(j) == IF Format[j] = "raw" THEN {<<j, 1>>} ELSE {<<j, b>> : b \in 1 .. Len(Sizes[j]) - 1}

NoJob == "none"
Frame(kind, len, decl, good) == [kind |-> kind, len |-> len, decl |-> decl, good |-> good]
NoFrame == Frame("none", 0, 0, TRUE)
Vacant == [kind |-> "none", items |-> {}]

\* where a handler is, its job and destination, the blob its client is at and
\* how much of it was sent, the bytes it asks permits for, the permits it
\* holds, the bytes it has in memory, what the current blob still lacks,
\* whether its prefix was read and in which frame, the blobs and bytes
\* received, whether the blob is the job's, whether something failed, and what
\* the client was told
Fresh == [pc |-> "new", op |-> "none", job |-> NoJob, path |-> NoJob,
          blob |-> 1, off |-> 0, need |-> 0, held |-> 0, mem |-> 0, left |-> 0,
          begun |-> FALSE, frame |-> NoFrame, count |-> 0, received |-> 0, good |-> TRUE,
          fault |-> FALSE, told |-> "none"]

Init ==
  /\ tx = [s \in Streams |-> Fresh]
  /\ free = Budget /\ queue = <<>> /\ store = {}
  /\ target = [p \in Paths |-> Vacant]
  /\ lost = {} /\ grown = 0

-----------------------------------------------------------------------------
(***************************************************************************)
(* The budget.  Dropping a guard gives its permits back; waiting for more  *)
(* is a place in the queue of the semaphore, and asking for none is none.  *)
(***************************************************************************)
Waits(s) == \E i \in 1 .. Len(queue) : queue[i] = s
At(s, pc) == tx[s].pc = pc /\ ~Waits(s)

\* mutant: the guard of the previous blob lives on while the next is acquired
Release_Kept(r) == [r EXCEPT !.mem = 0]

\* declared_memory.take()
Release(r) == [r EXCEPT !.held = 0, !.mem = 0]

\* the handler of s goes on as r; what it held and holds no more is free
Goes(s, r) ==
  /\ tx' = [tx EXCEPT ![s] = r]
  /\ free' = free + tx[s].held - r.held

\* the handler has returned and its guards are dropped
Ends(s, r, answer) ==
  Goes(s, [Fresh EXCEPT !.pc = "done", !.op = r.op, !.job = r.job, !.path = r.path,
             !.fault = r.fault, !.told = IF s \in lost THEN "nothing" ELSE answer])

\* BlobMemoryGuard::acquire
Acquires(s, r, bytes) ==
  /\ Goes(s, [r EXCEPT !.need = Permits(bytes)])
  /\ queue' = IF Permits(bytes) = 0 THEN queue ELSE Append(queue, s)

\* the semaphore serves its first waiter, and no other before it
Granted(s) ==
  /\ queue # <<>> /\ Head(queue) = s /\ tx[s].need <= free
  /\ queue' = Tail(queue)
  /\ Goes(s, [tx[s] EXCEPT !.held = @ + tx[s].need, !.need = 0])
  /\ UNCHANGED <<store, target, lost, grown>>

\* an early return; the caller answers with an error frame
Fails(s, r) ==
  Ends(s, r, "error") /\ UNCHANGED <<queue, store, target, lost, grown>>

-----------------------------------------------------------------------------
(***************************************************************************)
(* Uploads: the request.                                                   *)
(***************************************************************************)
\* a hash or a path that cannot be parsed, a shell whose directory is unknown
PutRejected(s, j, p) ==
  /\ At(s, "new")
  /\ Fails(s, [Fresh EXCEPT !.op = "put", !.job = j, !.path = p, !.fault = TRUE])

\* the destination must be vacant; a raw blob asks for its whole size at once
PutRequest(s, j, p) ==
  LET r == [Fresh EXCEPT !.op = "put", !.job = j, !.path = p]
  IN /\ At(s, "new")
     /\ \/ /\ target[p] # Vacant
           /\ Ends(s, r, "exists") /\ UNCHANGED queue
        \/ /\ target[p] = Vacant /\ Format[j] = "hashseq"
           /\ Goes(s, [r EXCEPT !.pc = "recv"]) /\ UNCHANGED queue
        \/ /\ target[p] = Vacant /\ Format[j] = "raw" /\ Sizes[j][1] > Cap
           /\ Ends(s, r, "error") /\ UNCHANGED queue
        \/ /\ target[p] = Vacant /\ Format[j] = "raw" /\ Sizes[j][1] <= Cap
           /\ Acquires(s, [r EXCEPT !.pc = "recv"], Sizes[j][1])
     /\ UNCHANGED <<store, target, lost, grown>>

-----------------------------------------------------------------------------
(***************************************************************************)
(* Uploads: the frames.                                                    *)
(***************************************************************************)
\* what the client of irosh sends next
Whole(r) == Sizes[r.job][r.blob] + (IF Format[r.job] = "raw" THEN 0 ELSE Prefix)
AllSent(r) ==
  IF Format[r.job] = "raw" THEN r.off = Whole(r) ELSE r.blob > Len(Sizes[r.job])
NextFrame(r) ==
  IF AllSent(r) THEN Frame("complete", 0, 0, TRUE)
  ELSE IF Format[r.job] = "hashseq" /\ r.off = 0
    THEN Frame("chunk", Prefix, Sizes[r.job][r.blob], TRUE)
    ELSE Frame("chunk", Min({Chunk, Whole(r) - r.off}), 0, TRUE)
Sent(r, f) ==
  IF ~f.good THEN r
  ELSE IF Format[r.job] = "hashseq" /\ r.off + f.len = Whole(r)
    THEN [r EXCEPT !.blob = @ + 1, !.off = 0]
    ELSE [r EXCEPT !.off = @ + f.len]

\* what another peer may send as well
AnyFrame ==
  [kind : {"complete", "error", "other"}, len : {0}, decl : {0}, good : {FALSE}]
    \cup [kind : {"chunk"}, len : {0, Prefix, Prefix + Chunk}, decl : {0, 1, Cap + 1}, good : {FALSE}]

Frames(s) ==
  IF tx[s].pc # "recv" THEN {}
  ELSE {NextFrame(tx[s])} \cup (IF s \in Strangers THEN AnyFrame ELSE {})

\* a chunk of a raw blob, within the cap and the declared size
RawChunk(s, r, f) ==
  LET got == r.received + f.len
  IN IF got > Cap \/ got > Sizes[r.job][1]
       THEN Fails(s, r)
       ELSE /\ Goes(s, [Sent(r, f) EXCEPT !.received = got, !.mem = got,
                          !.good = @ /\ (f.good \/ f.len = 0)])
            /\ UNCHANGED <<queue, store, target, lost, grown>>

\* a length prefix: give back the previous share, ask for the next
PrefixChunk(s, r, f) ==
  IF f.len < Prefix \/ f.decl > Cap \/ r.received + f.decl > Cap
    THEN Fails(s, r)
    ELSE /\ Acquires(s, [Release(r) EXCEPT !.pc = "chunk", !.begun = TRUE, !.left = f.decl,
                           !.frame = f, !.good = f.good], f.decl)
         /\ UNCHANGED <<store, target, lost, grown>>

\* mutant: a blob without a byte does not count as received
Complete_NonEmpty(r) == r.left = 0 /\ r.mem > 0

\* nothing is missing of a blob whose prefix was read
Complete(r) == r.left = 0 /\ r.begun

\* data of the blob in frame f; a blob that is complete goes to the store
BlobData(s, r, f, data) ==
  LET q == [r EXCEPT !.mem = @ + data, !.left = @ - data, !.frame = NoFrame,
              !.received = @ + f.len, !.good = @ /\ (f.good \/ data = 0)]
  IN \/ /\ data > r.left \/ q.received > Cap
        /\ Fails(s, r)
     \/ /\ data <= r.left /\ q.received <= Cap
        /\ IF Complete(q)
             THEN /\ Goes(s, [Sent(Release(q), f) EXCEPT !.pc = "recv", !.begun = FALSE,
                                !.count = @ + 1])
                  /\ store' = IF q.good THEN store \cup {<<r.job, r.blob>>} ELSE store
             ELSE Goes(s, [Sent(q, f) EXCEPT !.pc = "recv"]) /\ UNCHANGED store
        /\ UNCHANGED <<queue, target, lost, grown>>

\* the share has come: the rest of the frame that held the prefix
Prefixed(s) ==
  /\ At(s, "chunk")
  /\ BlobData(s, tx[s], tx[s].frame, tx[s].frame.len - Prefix)

ReadChunk(s, f) ==
  LET r == tx[s]
  IN \/ Format[r.job] = "raw" /\ RawChunk(s, r, f)
     \/ Format[r.job] = "hashseq" /\ r.left = 0 /\ PrefixChunk(s, r, f)
     \/ Format[r.job] = "hashseq" /\ r.left > 0 /\ BlobData(s, r, f, f.len)

\* the hash of what was received is the one that was promised
RawVerified(r) == r.good /\ r.received = Sizes[r.job][1]
\* some blob came, and the promised collection is in the store
CollectionFound(r) == r.count > 0 /\ Root(r.job) \in store

\* PutComplete
Received(s) ==
  LET r == tx[s]
      raw == Format[r.job] = "raw"
  IN IF (raw /\ RawVerified(r)) \/ (~raw /\ CollectionFound(r))
       THEN /\ Goes(s, [r EXCEPT !.pc = "export", !.blob = 1])
            /\ store' = store \cup (IF raw THEN {Root(r.job)} ELSE {})
            /\ UNCHANGED <<queue, target, lost, grown>>
       ELSE Fails(s, r)

ReadFrame(s, f) ==
  /\ At(s, "recv") /\ s \notin lost /\ f \in Frames(s)
  /\ \/ f.kind = "chunk" /\ ReadChunk(s, f)
     \/ f.kind = "complete" /\ Received(s)
     \/ f.kind \in {"error", "other"} /\ Fails(s, tx[s])

\* the frame after which the handler turns to the store
Stores(r, f) ==
  \/ f.kind = "complete"
  \/ f.kind = "chunk" /\ Format[r.job] = "hashseq" /\ r.left > 0 /\ f.len = r.left

\* no memory for the declared blob, or the store fails to add it or to look for
\* the collection
StoreFails(s) ==
  /\ \/ At(s, "chunk")
     \/ At(s, "recv") /\ s \notin lost /\ \E f \in Frames(s) : Stores(tx[s], f)
  /\ Fails(s, [tx[s] EXCEPT !.fault = TRUE])

\* the stream ends before PutComplete
ReadFails(s) == At(s, "recv") /\ s \in lost /\ Fails(s, tx[s])

-----------------------------------------------------------------------------
(***************************************************************************)
(* Uploads: the export, straight to the destination.                       *)
(***************************************************************************)
Put(p, kind, items) ==
  target' = [target EXCEPT ![p] = [kind |-> kind, items |-> items]]

\* a file replaces a file; where a directory has come to be it cannot go
ExportFile(s) ==
  LET r == tx[s]
  IN /\ At(s, "export") /\ Format[r.job] = "raw"
     /\ IF target[r.path].kind = "dir"
          THEN Fails(s, r)
          ELSE /\ Goes(s, [r EXCEPT !.pc = "reply"]) /\ Put(r.path, "file", Items(r.job))
               /\ UNCHANGED <<queue, store, lost, grown>>

\* the collection names a blob that the store has
CanExport(r) == <<r.job, r.blob>> \in store

\* export_collection: the directory, then one file after the other
ExportItem(s) ==
  LET r == tx[s]
      last == Len(Sizes[r.job]) - 1
  IN /\ At(s, "export") /\ Format[r.job] = "hashseq"
     /\ \/ /\ target[r.path].kind = "file"
           /\ Fails(s, r)
        \/ /\ target[r.path] = Vacant
           /\ Put(r.path, "dir", {}) /\ UNCHANGED <<tx, free, queue, store, lost, grown>>
        \/ /\ target[r.path].kind = "dir" /\ r.blob <= last /\ ~CanExport(r)
           /\ Fails(s, r)
        \/ /\ target[r.path].kind = "dir" /\ r.blob <= last /\ CanExport(r)
           /\ Put(r.path, "dir", target[r.path].items \cup {<<r.job, r.blob>>})
           /\ Goes(s, [r EXCEPT !.blob = @ + 1])
           /\ UNCHANGED <<queue, store, lost, grown>>
        \/ /\ target[r.path].kind = "dir" /\ r.blob > last
           /\ Goes(s, [r EXCEPT !.pc = "reply"])
           /\ UNCHANGED <<queue, store, target, lost, grown>>

\* the disk fails; what was exported so far stays
ExportFails(s) ==
  /\ At(s, "export")
  /\ Ends(s, [tx[s] EXCEPT !.fault = TRUE], "error")
  /\ \/ UNCHANGED target
     \/ /\ Format[tx[s].job] = "raw" /\ target[tx[s].path].kind # "dir"
        /\ Put(tx[s].path, "file", {})
  /\ UNCHANGED <<queue, store, lost, grown>>

\* what the client counted while it sent
Total(j) == SumOver(Sizes[j], Blobs(j))
              + (IF Format[j] = "raw" THEN 0 ELSE Prefix * Len(Sizes[j]))

\* PutComplete with the bytes received; the client compares
PutReply(s) ==
  LET r == tx[s]
  IN /\ At(s, "reply") /\ r.op = "put"
     /\ Ends(s, r, IF s \in Strangers \/ r.received = Total(r.job) THEN "ok" ELSE "mismatch")
     /\ UNCHANGED <<queue, store, target, lost, grown>>

-----------------------------------------------------------------------------
(***************************************************************************)
(* Downloads.                                                              *)
(***************************************************************************)
GetRequest(s, j) ==
  /\ At(s, "new") /\ j \in Downloads
  /\ Goes(s, [Fresh EXCEPT !.op = "get", !.job = j,
                !.pc = IF Format[j] = "raw" THEN "add" ELSE "stat"])
  /\ UNCHANGED <<queue, store, target, lost, grown>>

\* no such path, or one that cannot be resolved or walked
GetRejected(s, j) ==
  /\ At(s, "new") /\ j \in Downloads
  /\ Fails(s, [Fresh EXCEPT !.op = "get", !.job = j, !.fault = TRUE])

\* add_directory_to_store: measure a file and ask for a share of its size
StatFile(s) ==
  LET r == tx[s]
      last == Len(Sizes[r.job]) - 1
  IN /\ At(s, "stat")
     /\ \/ r.blob > last /\ Goes(s, [r EXCEPT !.pc = "add"]) /\ UNCHANGED queue
        \/ r.blob <= last /\ Sizes[r.job][r.blob] > Cap /\ Ends(s, r, "error") /\ UNCHANGED queue
        \/ /\ r.blob <= last /\ Sizes[r.job][r.blob] <= Cap
           /\ Acquires(s, [r EXCEPT !.pc = "read"], Sizes[r.job][r.blob])
     /\ UNCHANGED <<store, target, lost, grown>>

\* read it, however large it is by now
ReadFile(s, more) ==
  /\ At(s, "read") /\ grown + more <= MaxGrowth
  /\ Goes(s, [tx[s] EXCEPT !.pc = "keep", !.mem = Sizes[tx[s].job][tx[s].blob] + more])
  /\ grown' = grown + more
  /\ UNCHANGED <<queue, store, target, lost>>

KeepFile(s) ==
  LET r == tx[s]
  IN /\ At(s, "keep")
     /\ store' = store \cup {<<r.job, r.blob>>}
     /\ Goes(s, [Release(r) EXCEPT !.pc = "stat", !.blob = @ + 1])
     /\ UNCHANGED <<queue, target, lost, grown>>

\* a file that cannot be measured, read or stored
GetFails(s) ==
  /\ At(s, "stat") \/ At(s, "read") \/ At(s, "keep") \/ At(s, "add")
  /\ Fails(s, [tx[s] EXCEPT !.fault = TRUE])

\* the collection itself, or the single file, which is copied without a share
AddRoot(s) ==
  /\ At(s, "add")
  /\ store' = store \cup {Root(tx[s].job)}
  /\ Goes(s, [tx[s] EXCEPT !.pc = "reply"])
  /\ UNCHANGED <<queue, target, lost, grown>>

\* BlobGetReady; the client fetches the blobs and exports them
GetReply(s, fetched) ==
  /\ At(s, "reply") /\ tx[s].op = "get"
  /\ Ends(s, [tx[s] EXCEPT !.fault = ~fetched],
          IF fetched /\ Items(tx[s].job) \subseteq store THEN "ok" ELSE "error")
  /\ UNCHANGED <<queue, store, target, lost, grown>>

-----------------------------------------------------------------------------
\* the connection of a stream goes away while its handler is at work
Lose(s) ==
  /\ tx[s].pc \notin {"new", "done"} /\ s \notin lost
  /\ lost' = lost \cup {s}
  /\ UNCHANGED <<tx, free, queue, store, target, grown>>

\* what the handler does once its peer has sent what it waits for
Proceeds(s) ==
  \/ Granted(s) \/ ReadFails(s) \/ Prefixed(s)
  \/ ExportFile(s) \/ ExportItem(s) \/ ExportFails(s) \/ PutReply(s)
  \/ StatFile(s) \/ (\E more \in 0 .. MaxGrowth : ReadFile(s, more)) \/ KeepFile(s) \/ AddRoot(s)
  \/ GetFails(s) \/ (\E fetched \in BOOLEAN : GetReply(s, fetched))

Works(s) == Proceeds(s) \/ StoreFails(s) \/ \E f \in Frames(s) : ReadFrame(s, f)

Begins(s) ==
  \/ \E j \in Jobs, p \in Paths : PutRequest(s, j, p) \/ PutRejected(s, j, p)
  \/ \E j \in Downloads : GetRequest(s, j) \/ GetRejected(s, j)

Next == \E s \in Streams : Begins(s) \/ Works(s) \/ Lose(s)

Spec == Init /\ [][Next]_vars

(***************************************************************************)
(* A handler that can go on does.  A peer owes nothing: it may fall silent *)
(* for ever, and no read has a timeout.                                    *)
(***************************************************************************)
FairSpec == Spec /\ \A s \in Streams : WF_vars(Proceeds(s))
-----------------------------------------------------------------------------
(***************************************************************************)
(* What is checked.                                                        *)
(***************************************************************************)
Held == SumOver([s \in Streams |-> tx[s].held], Streams)

\* the collection of a directory, which export_collection reads back from the
\* store and add_directory_to_store builds: neither takes a share for it
Collection(r) ==
  IF r.job # NoJob /\ r.pc \in {"export", "add"} /\ Format[r.job] = "hashseq"
    THEN Sizes[r.job][Len(Sizes[r.job])] ELSE 0

Collections == SumOver([s \in Streams |-> Collection(tx[s])], Streams)
Memory == SumOver([s \in Streams |-> tx[s].mem + Collection(tx[s])], Streams)

TypeOK ==
  /\ free \in 0 .. Budget
  /\ \A i, k \in 1 .. Len(queue) : queue[i] \in Streams /\ (queue[i] = queue[k] => i = k)
  /\ lost \subseteq Streams /\ grown \in 0 .. MaxGrowth
  /\ \A s \in Streams :
       /\ tx[s].pc \in {"new", "recv", "chunk", "export", "stat", "read", "keep", "add",
                        "reply", "done"}
       /\ tx[s].told \in {"none", "nothing", "ok", "exists", "error", "mismatch"}
       /\ tx[s].held \in 0 .. Budget /\ tx[s].need \in 0 .. Budget

\* The budget of the connection bounds what its streams hold in memory
\* together, however their blobs interleave and whatever a peer sends
\* (BlobMemoryGuard, TransferState.blob_memory): permits are neither lost nor
\* made, the blobs of an upload never have more bytes than its share stands
\* for, and the sum exceeds the budget by what files grew between being
\* measured and read and by the collections under way, and by nothing else.
BudgetHolds ==
  /\ TypeOK
  /\ free + Held = Budget
  /\ \A s \in Streams : tx[s].op = "put" => tx[s].mem <= tx[s].held * Unit
  /\ Memory <= Cap + grown + Collections

\* another upload went to the same place, or may still
Contended(s) ==
  \E o \in Streams \ {s} : tx[o].op = "put" /\ tx[o].path = tx[s].path

\* A client of irosh that follows the protocol is served for what it sends:
\* when it is told that an upload is in place the destination has every file of
\* it, and it is refused only for a fault on the server, for a size past the
\* limit or for a place that is taken.  Empty files, single files and the
\* bytes of the prefixes count on both sides alike (handle_put_blob_body,
\* upload_blob_file_inner, BlobHash of the collection).
HonestServed ==
  \A s \in Streams \ Strangers :
    LET r == tx[s]
    IN r.pc = "done" /\ r.op = "put" /\ ~Contended(s) =>
         /\ r.told = "ok" => target[r.path].items = Items(r.job)
         /\ r.told \in {"error", "mismatch"} => r.fault \/ Total(r.job) > Cap

\* the handler waits for a frame on a connection that is alive
Awaits(s) == At(s, "recv") /\ s \notin lost

\* it waits for a share, and another, which waits for its peer, has one
Starved(s) == Waits(s) /\ \E o \in Streams : Awaits(o) /\ tx[o].held > 0

\* Every transfer that begins comes to an end, unless a peer that keeps its
\* connection falls silent, its own or one that holds a share it needs: streams
\* that wait for each other's share never wait for ever, because a handler
\* gives its share back before it asks for the next (declared_memory.take(),
\* blob.rs:225, 303; read_next_frame_into, 177, 385, has no timeout).
TransfersSettle ==
  \A s \in Streams :
    []<>(tx[s].pc \in {"new", "done"}) \/ <>[]Awaits(s) \/ <>[]Starved(s)
=============================================================================
