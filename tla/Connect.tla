------------------------------ MODULE Connect ------------------------------
(***************************************************************************)
(* One `irosh connect`: the phases of cli/src/commands/connect/mod.rs over *)
(* Client::connect_wormhole, dial_p2p and establish_session, the host key  *)
(* check of ClientHandler and the end of the Session.  It is composed with *)
(* Rendezvous: the search polls the directory the daemon publishes to.     *)
(*                                                                         *)
(* Other processes of the same user change the address book and the pinned *)
(* host keys meanwhile (module Storage has their steps).  What happens     *)
(* inside the shell is module Terminal; here it only ends.                 *)
(* An option is chosen at the step that first reads it.                    *)
(***************************************************************************)
EXTENDS Rendezvous

CONSTANTS
  Nodes,      \* nodes this process connects to
  Host,       \* the one whose wormholes Rendezvous publishes
  Others,     \* nodes that are only in the address book
  Aliases,    \* names users and metadata give to peers
  Keys,       \* SSH host keys
  Policies,   \* host key policies in use
  NoNode, NoKey, NoCode,
  MaxPolls,   \* bound: polls of one search (60 in the code)
  MaxDials,   \* attempts of dial_p2p (3)
  MaxPrompts  \* passwords asked for (3)

ASSUME ConnectAssumption ==
  /\ Host \in Nodes /\ NoNode \notin Nodes \cup Others
  /\ NoKey \notin Keys /\ NoCode \notin Codes
  /\ Policies \subseteq {"Strict", "Tofu", "AcceptAll"}
  /\ MaxPolls \in Nat \ {0} /\ MaxDials \in Nat \ {0} /\ MaxPrompts \in Nat

\* the name peer-<id> that a node gets when nothing better is known
TempName(n) == <<"peer", n>>
Names == Aliases \cup {TempName(n) : n \in Nodes}
Books == [Names -> Nodes \cup Others \cup {NoNode}]

VARIABLES
  cl,     \* the connecting process
  book,   \* Names -> the node its profile leads to
  pins    \* Nodes -> the host key trusted for it

cvars == <<cl, book, pins>>

\* Endpoints and connections of the process that are not closed.
Resources == {"discovery", "endpoint", "connection", "blobs"}

\* pc, target code and node, what the current phase counts, pin and policy of
\* the handshake, name to save under, whether the SSH task of the session is
\* gone, what is open, where and how it ended and whether saving the peer failed
Idle == [pc |-> "idle", code |-> NoCode, node |-> NoNode, n |-> 0,
         policy |-> "none", pin |-> NoKey, key |-> NoKey, name |-> NoNode,
         gone |-> FALSE, open |-> {}, at |-> "none", why |-> "none", unsaved |-> FALSE]

ConnectInit ==
  /\ Init
  /\ cl = Idle
  /\ book \in Books
  /\ pins \in [Nodes -> Keys \cup {NoKey}]

Known(b, n) == \E m \in Names : b[m] = n
Pairing == cl.code # NoCode

\* The process is done, with these resources left to its exit.
Ended(why, left, unsaved) ==
  [Idle EXCEPT !.pc = "ended", !.at = cl.pc, !.why = why, !.open = left, !.unsaved = unsaved]
End(why, left) == cl' = Ended(why, left, FALSE)

-----------------------------------------------------------------------------
(* Resolve *)

Dialing(n, code) == [Idle EXCEPT !.pc = "bind", !.node = n, !.code = code]
Searching(code) == [Idle EXCEPT !.pc = "search", !.code = code]

\* A ticket, else a saved name, else it is taken for a wormhole code, unless
\* it looks like a damaged ticket.  A name nobody saved is searched for in
\* vain: "nobody" stands for a code that is not one of the daemon's.
ResolveTicket(n) ==
  /\ cl.pc = "idle"
  /\ cl' = Dialing(n, NoCode)
  /\ UNCHANGED <<book, pins>>

ResolveText(t) ==
  /\ cl.pc = "idle"
  /\ t \in Names => book[t] \notin Others
  /\ IF t \in Names /\ book[t] # NoNode THEN cl' = Dialing(book[t], NoCode)
     ELSE \/ cl' = Searching(IF t \in Codes THEN t ELSE "nobody")
          \/ t \notin Codes /\ End("local", {})
  /\ UNCHANGED <<book, pins>>

-----------------------------------------------------------------------------
(* Dial: the search *)

\* identity and discovery endpoint
SearchBegins ==
  /\ cl.pc = "search"
  /\ \/ cl' = [cl EXCEPT !.pc = "polling", !.open = {"discovery"}]
     \/ End("local", {})
  /\ UNCHANGED <<book, pins>>

\* the search is over: with the ticket of a node, or without
SearchOver(n) == cl' = [cl EXCEPT !.pc = "closing", !.node = n, !.n = 0]

\* a poll that fails, or finds no ticket in the record, is one poll less
Poll ==
  /\ cl.pc = "polling"
  /\ \/ /\ cl.code \in Codes /\ directory[cl.code].kind = "ticket"
        /\ SearchOver(Host)
     \/ /\ cl.n + 1 < MaxPolls
        /\ cl' = [cl EXCEPT !.n = @ + 1]
     \/ /\ cl.n + 1 >= MaxPolls
        /\ SearchOver(NoNode)
  /\ UNCHANGED <<book, pins>>

\* the five minutes are over although polls are left
SearchTimeout ==
  /\ cl.pc = "polling"
  /\ SearchOver(NoNode)
  /\ UNCHANGED <<book, pins>>

\* the discovery endpoint is closed before the outcome is looked at
SearchCloses ==
  /\ cl.pc = "closing"
  /\ \/ cl.node # NoNode /\ cl' = Dialing(cl.node, cl.code)
     \/ cl.node = NoNode /\ End("notfound", cl.open \ {"discovery"})
  /\ UNCHANGED <<book, pins>>

\* a ticket that was found already goes with the future
SearchCancelled ==
  /\ cl.pc \in {"search", "polling", "closing"}
  /\ End("cancelled", cl.open)
  /\ UNCHANGED <<book, pins>>

-----------------------------------------------------------------------------
(* Dial: the connection *)

\* mutant: the ticket is saved only if the name is free
SaveTemp_FreeName(b, n) ==
  IF b[TempName(n)] # NoNode THEN b ELSE [b EXCEPT ![TempName(n)] = n]

\* auto_save_temp_peer, where the profile can be written
SaveTemp(b, n) == IF Known(b, n) THEN b ELSE [b EXCEPT ![TempName(n)] = n]

\* A failed pairing keeps the ticket it found: the code may be used up.
GiveUp(why, left) ==
  \/ /\ book' = IF Pairing THEN SaveTemp(book, cl.node) ELSE book
     /\ End(why, left)
  \/ /\ Pairing /\ ~Known(book, cl.node)
     /\ book' = book
     /\ cl' = Ended(why, left, TRUE)

\* blob store, identity, endpoint
Bind ==
  /\ cl.pc = "bind"
  /\ \/ cl' = [cl EXCEPT !.pc = "dial", !.open = @ \cup {"endpoint"}] /\ UNCHANGED book
     \/ GiveUp("local", cl.open)
  /\ UNCHANGED pins

\* mutant: the count starts over before it reaches the limit
DialAgain_Uncounted == [cl EXCEPT !.n = (@ + 1) % 2]

DialAgain == [cl EXCEPT !.n = @ + 1]

\* every attempt ends within CONNECT_TIMEOUT
DialAttempt ==
  /\ cl.pc = "dial"
  /\ \/ /\ cl' = [cl EXCEPT !.pc = "blobs", !.n = 0, !.open = @ \cup {"connection"}]
        /\ UNCHANGED book
     \/ /\ cl.n + 1 < MaxDials
        /\ cl' = DialAgain /\ UNCHANGED book
     \/ /\ cl.n + 1 >= MaxDials
        /\ GiveUp("unreachable", cl.open \ {"endpoint"})
  /\ UNCHANGED pins

\* mutant: the first connection and its endpoint are forgotten
BlobsFailed_Kept == cl.open

\* closing the endpoint closes its connections
BlobsFailed == cl.open \ {"endpoint", "connection"}

\* without the second connection there is no session
DialBlobs ==
  /\ cl.pc = "blobs"
  /\ \/ /\ cl' = [cl EXCEPT !.pc = "trust", !.open = @ \cup {"blobs"}]
        /\ UNCHANGED book
     \/ GiveUp("unreachable", BlobsFailed)
  /\ UNCHANGED pins

-----------------------------------------------------------------------------
(* Dial: the session *)

\* connections and endpoint are closed
AllClosed == cl.open \ {"endpoint", "connection", "blobs"}

\* identity, then the pinned key unless all are accepted.  One that cannot be
\* read returns past the closing of the endpoint.
LoadTrust ==
  /\ cl.pc = "trust"
  /\ \/ /\ \E p \in Policies :
             cl' = [cl EXCEPT !.pc = "stream", !.policy = p,
                              !.pin = IF p = "AcceptAll" THEN NoKey ELSE pins[cl.node]]
        /\ UNCHANGED book
     \/ GiveUp("local", cl.open)
  /\ UNCHANGED pins

\* under no timeout: a server may leave the client waiting for a stream
OpenBi ==
  /\ cl.pc = "stream"
  /\ \/ cl' = [cl EXCEPT !.pc = "handshake"] /\ UNCHANGED book
     \/ GiveUp("refused", AllClosed)
  /\ UNCHANGED pins

KeyAccepted(k) == cl' = [cl EXCEPT !.pc = "auth", !.key = k]

\* mutant: on first use also means on change
FirstUse_AlsoChanged(k) == cl.policy = "Tofu" /\ cl.pin # k

FirstUse(k) == cl.policy = "Tofu" /\ cl.pin = NoKey

\* check_server_key, with the pin that was read before the stream was opened
CheckServerKey(k) ==
  /\ cl.pc = "handshake"
  /\ \/ /\ cl.policy = "AcceptAll" \/ cl.pin = k
        /\ KeyAccepted(k) /\ UNCHANGED <<book, pins>>
     \/ /\ FirstUse(k)
        /\ pins' = [pins EXCEPT ![cl.node] = k]
        /\ KeyAccepted(k) /\ UNCHANGED book
     \/ /\ cl.policy # "AcceptAll" /\ cl.pin # k
        /\ GiveUp("refused", AllClosed) /\ UNCHANGED pins

\* The public key, then up to three passwords.  A server that ends the
\* negotiation and the last wrong password fail the session.
Authenticate ==
  /\ cl.pc = "auth"
  /\ \/ /\ cl' = [cl EXCEPT !.pc = "metadata", !.n = 0, !.policy = "none",
                            !.pin = NoKey, !.key = NoKey]
        /\ UNCHANGED book
     \/ /\ cl.n < MaxPrompts
        /\ cl' = [cl EXCEPT !.pc = "asking", !.n = @ + 1] /\ UNCHANGED book
     \/ GiveUp("refused", AllClosed)
  /\ UNCHANGED pins

\* the user types a password, or none
AnswerPrompt ==
  /\ cl.pc = "asking"
  /\ \/ cl' = [cl EXCEPT !.pc = "auth"] /\ UNCHANGED book
     \/ GiveUp("refused", AllClosed)
  /\ UNCHANGED pins

\* the progress bar is locked while the prompt is shown, and the failure has
\* to be shown on it before anything else happens
Blocked(why, left) ==
  /\ cl' = [cl EXCEPT !.pc = "blocked", !.n = 0, !.why = why, !.open = left]
  /\ UNCHANGED book

Unblocked ==
  /\ cl.pc = "blocked"
  /\ GiveUp(cl.why, cl.open)
  /\ UNCHANGED pins

\* 60 seconds for all of it, the user's typing included
HandshakeTimeout ==
  /\ \/ cl.pc \in {"handshake", "auth"} /\ GiveUp("refused", AllClosed)
     \/ cl.pc = "asking" /\ Blocked("refused", AllClosed)
  /\ UNCHANGED pins

\* optional, and bounded by its own timeouts: it only names the peer
Metadata ==
  /\ cl.pc = "metadata"
  /\ \E m \in Aliases \cup {TempName(cl.node)} :
       cl' = [cl EXCEPT !.pc = "setup", !.name = m]
  /\ UNCHANGED <<book, pins>>

Dials == {"bind", "dial", "blobs", "trust", "stream", "handshake", "auth", "asking", "blocked",
          "metadata"}

\* Ctrl-C drops the future, and with it what it had open
DialCancelled ==
  /\ \/ cl.pc \in Dials \ {"asking", "blocked"} /\ GiveUp("cancelled", cl.open)
     \/ cl.pc = "asking" /\ Blocked("cancelled", cl.open)
  /\ UNCHANGED pins

-----------------------------------------------------------------------------
(* Setup *)

\* Session::disconnect: if the SSH task is gone the message cannot be sent, and
\* the error returns past the closing, unless the session knows it is closed
Disconnect(knows) ==
  IF cl.gone /\ ~knows THEN End("gone", cl.open) ELSE End("closed", AllClosed)

\* a command instead of a shell, on a channel of its own; nothing is saved.  A
\* connection that breaks in the middle ends the output like a close does
CaptureExec ==
  /\ cl.pc = "setup"
  /\ \/ cl' = [cl EXCEPT !.pc = "captured", !.name = NoNode]
     \/ End("failed", cl.open)
  /\ UNCHANGED <<book, pins>>

\* the output is printed, if it can be, and the session left
ExecDone ==
  /\ cl.pc = "captured"
  /\ Disconnect(FALSE) \/ End("failed", cl.open)
  /\ UNCHANGED <<book, pins>>

\* auto_save_peer reads the book (an unreadable one counts as empty)
AutoSave ==
  /\ cl.pc = "setup"
  /\ cl' = [cl EXCEPT !.pc = IF Known(book, cl.node) THEN "opening" ELSE
                             IF book[cl.name] # NoNode THEN "naming" ELSE "saving"]
     \/ cl' = [cl EXCEPT !.pc = "saving"]
  /\ UNCHANGED <<book, pins>>

\* the user answers with any name, or with none
NamePeer ==
  /\ cl.pc = "naming"
  /\ \/ \E m \in Names : cl' = [cl EXCEPT !.pc = "saving", !.name = m]
     \/ cl' = [cl EXCEPT !.pc = "opening", !.name = NoNode]
  /\ UNCHANGED <<book, pins>>

\* the name is not looked up again
SavePeer ==
  /\ cl.pc = "saving"
  /\ book' \in {[book EXCEPT ![cl.name] = cl.node], book}
  /\ cl' = [cl EXCEPT !.pc = "opening", !.name = NoNode]
  /\ UNCHANGED pins

\* raw terminal, channel and PTY, if there is a terminal: an error drops the
\* session as it is
RequestPty ==
  /\ cl.pc = "opening"
  /\ \/ cl' = [cl EXCEPT !.pc = "starting", !.name = NoNode]
     \/ End("failed", cl.open)
  /\ UNCHANGED <<book, pins>>

\* the channel, if there is none yet, and the shell; forwarding only fails on
\* a port that is no number
StartShell ==
  /\ cl.pc = "starting"
  /\ \/ cl' = [cl EXCEPT !.pc = "shell"]
     \/ End("failed", cl.open)
  /\ UNCHANGED <<book, pins>>

-----------------------------------------------------------------------------
(* Shell and close *)

\* the connection breaks, or the server ends it
RemoteGone ==
  /\ cl.pc \in {"setup", "captured", "naming", "saving", "opening", "starting", "shell"}
  /\ ~cl.gone
  /\ cl' = [cl EXCEPT !.gone = TRUE]
  /\ UNCHANGED <<book, pins>>

\* next_event returns None and marks the session closed
StreamEnds ==
  /\ cl.pc = "shell"
  /\ Disconnect(TRUE)
  /\ UNCHANGED <<book, pins>>

\* the user leaves, the channel is closed, or a write fails
ShellEnds ==
  /\ cl.pc = "shell"
  /\ Disconnect(FALSE)
  /\ UNCHANGED <<book, pins>>

\* an error of the terminal or of a local command ends drive_session
ShellFails ==
  /\ cl.pc = "shell"
  /\ End("failed", cl.open)
  /\ UNCHANGED <<book, pins>>

\* the process is over; the user runs it again
Again ==
  /\ cl.pc = "ended"
  /\ cl' = Idle
  /\ UNCHANGED <<book, pins>>

-----------------------------------------------------------------------------
\* other commands of the user: peers are saved, removed and written over, host
\* keys are pinned and forgotten
BookElsewhere(m, n) ==
  /\ book' = [book EXCEPT ![m] = n]
  /\ UNCHANGED <<cl, pins>>

PinsElsewhere(n, k) ==
  /\ pins' = [pins EXCEPT ![n] = k]
  /\ UNCHANGED <<cl, book>>

Client ==
  \/ \E n \in Nodes : ResolveTicket(n)
  \/ \E t \in Names \cup Codes : ResolveText(t)
  \/ SearchBegins \/ Poll \/ SearchTimeout \/ SearchCloses \/ SearchCancelled
  \/ Bind \/ DialAttempt \/ DialBlobs \/ LoadTrust \/ OpenBi
  \/ \E k \in Keys : CheckServerKey(k)
  \/ Authenticate \/ AnswerPrompt \/ HandshakeTimeout \/ Unblocked \/ Metadata \/ DialCancelled
  \/ CaptureExec \/ ExecDone \/ AutoSave \/ NamePeer \/ SavePeer
  \/ RequestPty \/ StartShell
  \/ RemoteGone \/ StreamEnds \/ ShellEnds \/ ShellFails \/ Again

Elsewhere ==
  \/ \E m \in Names, n \in Nodes \cup Others \cup {NoNode} : BookElsewhere(m, n)
  \/ \E n \in Nodes, k \in Keys \cup {NoKey} : PinsElsewhere(n, k)

ConnectNext ==
  \/ Next /\ UNCHANGED cvars
  \/ (Client \/ Elsewhere) /\ UNCHANGED vars

allvars == <<vars, cvars>>

ConnectSpec == ConnectInit /\ [][ConnectNext]_allvars

(***************************************************************************)
(* Fairness: what is under a timeout comes to an end, and so does what is  *)
(* the process's own.  Nothing obliges the user, or a server that was      *)
(* asked for a stream or a channel, to answer.                             *)
(***************************************************************************)
ConnectFairness ==
  /\ Fairness
  /\ WF_cvars(SearchBegins) /\ WF_cvars(Poll) /\ WF_cvars(SearchCloses) /\ WF_cvars(Bind)
  /\ WF_cvars(DialAttempt) /\ WF_cvars(DialBlobs) /\ WF_cvars(LoadTrust)
  /\ WF_cvars(HandshakeTimeout) /\ WF_cvars(Metadata)

ConnectFairSpec == ConnectSpec /\ ConnectFairness

-----------------------------------------------------------------------------
(***************************************************************************)
(* Properties                                                              *)
(***************************************************************************)

ConnectTypeOK ==
  /\ TypeOK
  /\ book \in Books
  /\ pins \in [Nodes -> Keys \cup {NoKey}]
  /\ cl.open \in SUBSET Resources
  /\ cl.n \in 0 .. MaxPolls + MaxDials + MaxPrompts

\* the ends that leave what was open to the exit of the process: Ctrl-C, a
\* trust record or identity that cannot be read once the connections are up, a
\* `?` between the session and its end, and a disconnect after the SSH task
Leaky(at, why) ==
  \/ why = "cancelled"
  \/ why = "local" /\ at = "trust"
  \/ why = "failed" /\ at \in {"setup", "captured", "opening", "starting", "shell"}
  \/ why = "gone" /\ at \in {"captured", "shell"}

\* An attempt that fails while it searches or dials, whatever the network, the
\* server, the files and the timeouts make of it, leaves no endpoint and no
\* connection behind, "so its background tasks and relay connection do not
\* leak" (connect.rs:186-189, 263-278, 295, 340, 510-514), and so does a session
\* that is disconnected.  The exceptions are those of Leaky and no others
\* (connect.rs:320, 332, mod.rs:245, 264, 287, 315, 348, 351, 354,
\* session.rs:451-455), and what they leave is the search or the connection as
\* it was, never both.
ResourcesReleased ==
  /\ ConnectTypeOK
  /\ cl.pc = "ended" /\ ~Leaky(cl.at, cl.why) => cl.open = {}
  /\ "discovery" \in cl.open => cl.open = {"discovery"}

\* A host key other than the trusted one is never accepted, and the pin is
\* replaced only by a client that found none when it asked, even if others
\* changed it since (handler.rs:84-148, connect.rs:323-334).
HostKeysHold ==
  [][ cl.pc = "handshake" /\ cl.policy # "AcceptAll" =>
        /\ cl'.pc = "auth" => \/ cl'.key = cl.pin
                              \/ cl.pin = NoKey /\ pins'[cl.node] = cl'.key
        /\ cl' # cl /\ pins' # pins => cl.pin = NoKey /\ cl.policy = "Tofu" ]_cvars

\* A pairing that found its ticket and failed, or was cancelled, leaves the node
\* in the address book, whatever is in the book: the code may be spent, and
\* "peer ticket was recovered!" (mod.rs:251-294, 452-473).  It does not when the
\* profile cannot be written, and when Ctrl-C comes while the endpoint of the
\* search is being closed, which drops the ticket (connect.rs:189, mod.rs:245).
TicketRecovered ==
  [][ Pairing /\ cl.pc \in Dials \cup {"closing"} /\ cl.node # NoNode /\ cl'.pc = "ended"
        => \/ Known(book', cl.node) \/ cl'.unsaved
           \/ cl.pc = "closing" /\ cl'.why = "cancelled" ]_cvars

\* Connecting comes to an end, to a session or to an error, whatever the
\* directory, the server and the user do (connect.rs:180-184, 241-301, 361), but
\* for two waits that have no timeout: for a server that keeps the connection
\* and grants no stream (connect.rs:337), and for the password prompt, which
\* holds the lock that showing the failure needs (mod.rs:27, 279).
ConnectSettles ==
  \/ []<>(cl.pc \notin Dials \cup {"search", "polling", "closing"})
  \/ <>[](cl.pc = "stream")
  \/ <>[](cl.pc = "blocked")
=============================================================================
