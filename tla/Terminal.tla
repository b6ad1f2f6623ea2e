------------------------------ MODULE Terminal ------------------------------
(***************************************************************************)
(* The interactive client (cli/commands/connect): the input engine, which  *)
(* watches what is typed for `~` at the start of a line and then edits a   *)
(* line of its own, an escape or a command of the irosh> prompt; and       *)
(* drive_session, which waits for the terminal and the remote shell at     *)
(* once, runs the actions the engine asks for and holds back the remote    *)
(* output while a line is edited.                                          *)
(*                                                                         *)
(* A byte is a symbol, and a command with its arguments is one symbol; what *)
(* is drawn on the screen besides the remote output is left out, and so is *)
(* at_start_of_line, which the engine sets and never reads.  Output is     *)
(* numbered in the order in which it arrives.  Any write to the terminal   *)
(* may fail.  What a disconnect closes is in module Connect.               *)
(***************************************************************************)
EXTENDS Integers, Sequences, SequencesExt

CONSTANTS
  Chunks,      \* what the terminal may deliver at once, as sequences of bytes
  MaxChunks,   \* bound: chunks that are typed
  MaxOutput,   \* bound: pieces of output that arrive
  MaxHistory,  \* MAX_HISTORY_ENTRIES
  Windows      \* whether the remote peer runs Windows

ASSUME TerminalAssumption ==
  /\ \A chunk \in Chunks : chunk \in Seq(ToSet(chunk))
  /\ MaxChunks \in Nat /\ MaxOutput \in Nat /\ MaxHistory \in Nat \ {0}
  /\ Windows \in BOOLEAN

VARIABLES
  engine,    \* the InputEngine, and what its current call has come to
  input,     \* bytes that call has still to process
  extra,     \* what query_cpr read besides the answer it waited for
  queue,     \* actions still to be handled
  pc,        \* where drive_session is
  leaving,   \* whether it ends after this call
  held,      \* remote_buffer
  shown,     \* output written to the terminal
  arrived,   \* pieces of output that have arrived
  closed,    \* whether the remote side has ended the session
  typed,     \* chunks typed so far
  result     \* how drive_session ended

local == <<engine, input, extra, queue, pc, leaving, result>>
output == <<held, shown, arrived>>
vars == <<local, output, closed, typed>>

-----------------------------------------------------------------------------
(***************************************************************************)
(* History and the line editor.                                            *)
(***************************************************************************)
NoLine == [kind |-> "none", text |-> <<>>, cursor |-> 0, ctl |-> "none"]
NewEscape == [kind |-> "escape", text |-> <<"~">>, cursor |-> 1, ctl |-> "none"]
NewPrompt == [kind |-> "prompt", text |-> <<>>, cursor |-> 0, ctl |-> "none"]

\* index 0 is none
NewHistory == [entries |-> <<>>, index |-> 0, pending |-> <<>>]

\* CommandHistory::add
Add(h, text) ==
  LET all == Append(h.entries, text)
      repeated == h.entries # <<>> /\ Last(h.entries) = text
  IN IF text = <<>> THEN h
     ELSE [entries |-> IF repeated THEN h.entries
                       ELSE IF Len(all) > MaxHistory THEN Tail(all) ELSE all,
           index |-> 0, pending |-> <<>>]

Up(h, text) ==
  IF h.index = 0
    THEN [h EXCEPT !.pending = text, !.index = Len(h.entries)]
    ELSE [h EXCEPT !.index = IF @ > 1 THEN @ - 1 ELSE 1]

Down(h) == [h EXCEPT !.index = IF @ >= Len(h.entries) THEN 0 ELSE @ + 1]

\* the entry the pointer is at, or the line that navigation started from
Current(h) == IF h.index = 0 THEN h.pending ELSE h.entries[h.index]

Abandon(h, text) == [h EXCEPT !.index = 0, !.pending = text]

Put(l, text, cursor) == [l EXCEPT !.text = text, !.cursor = cursor]

\* LineEditor::apply for the events that change the line, with the history
Edit(l, h, event, b) ==
  LET same == <<l, h>>
      away(m) == <<m, Abandon(h, l.text)>>
  IN CASE event = "insert" -> away(Put(l, InsertAt(l.text, l.cursor + 1, b), l.cursor + 1))
       [] event = "backspace" ->
            IF l.cursor = 0 THEN same ELSE away(Put(l, RemoveAt(l.text, l.cursor), l.cursor - 1))
       [] event = "delete" ->
            IF l.cursor >= Len(l.text) THEN same
            ELSE away(Put(l, RemoveAt(l.text, l.cursor + 1), l.cursor))
       [] event = "left" -> <<Put(l, l.text, IF l.cursor > 0 THEN l.cursor - 1 ELSE 0), h>>
       [] event = "right" -> <<Put(l, l.text, Min({l.cursor + 1, Len(l.text)})), h>>
       [] event = "home" -> <<Put(l, l.text, 0), h>>
       [] event = "end" -> <<Put(l, l.text, Len(l.text)), h>>
       [] event = "up" ->
            IF h.entries = <<>> THEN same
            ELSE LET g == Up(h, l.text) IN <<Put(l, Current(g), Len(Current(g))), g>>
       [] event = "down" ->
            IF h.index = 0 THEN same
            ELSE LET g == Down(h) IN <<Put(l, Current(g), Len(Current(g))), g>>
       [] OTHER -> same

-----------------------------------------------------------------------------
(***************************************************************************)
(* The engine: mode, active_line, local_line_len, swallow_next_enter_pair, *)
(* remote_ansi and the histories; for the call of process_local under way, *)
(* whether it has something to send, the actions it asks for, and whether  *)
(* it is in the editing loop, which drops what is left of a chunk once the *)
(* line is gone.                                                           *)
(***************************************************************************)
NewEngine ==
  [mode |-> "remote", line |-> NoLine, len |-> 0, swallow |-> "none", ansi |-> "none",
   history |-> [k \in {"escape", "prompt"} |-> NewHistory],
   sends |-> FALSE, acts |-> <<>>, edits |-> FALSE]

\* parse_local_command: what a command does to the session
LocalCommand(text) ==
  CASE text = <<>> -> "none"
    [] text \in {<<"exit">>, <<"~", "exit">>} -> "exit"
    [] text \in {<<"quit">>, <<"~", "quit">>} -> "quit"
    [] text \in {<<"put">>, <<"~", "put">>} -> "put"
    [] text \in {<<"get">>, <<"~", "get">>} -> "get"
    [] OTHER -> "print"

\* parse_escape
ParseEscape(text) ==
  LET cmd == IF text # <<>> /\ Head(text) = "~" THEN Tail(text) ELSE text
  IN CASE cmd = <<".">> -> "disconnect"
       [] cmd = <<"?">> -> "help"
       [] cmd = <<"C">> -> "prompt"
       [] cmd = <<"~">> -> "literal"
       [] OTHER -> LocalCommand(cmd)

\* mutant: the mode is left as it is
ExitLocalPrompt_InMode(r) ==
  [r EXCEPT !.line = NoLine, !.len = 0, !.sends = TRUE]

\* exit_local_prompt, which wakes the remote shell
ExitLocalPrompt(r) ==
  [r EXCEPT !.mode = "remote", !.line = NoLine, !.len = 0, !.sends = TRUE]

Asks(r, action) == [r EXCEPT !.acts = Append(@, action)]

SubmitEscape(r) ==
  LET text == r.line.text
      q == [r EXCEPT !.history["escape"] = Add(@, text)]
      action == ParseEscape(text)
  IN CASE action = "prompt" -> Asks([q EXCEPT !.line = NewPrompt, !.len = 0], action)
       [] action = "literal" ->
            Asks([q EXCEPT !.mode = "remote", !.line = NoLine, !.len = 1], action)
       [] action = "none" -> ExitLocalPrompt(q)
       [] OTHER -> Asks(ExitLocalPrompt(q), action)

SubmitPrompt(r) ==
  LET q == [r EXCEPT !.history["prompt"] = Add(@, r.line.text)]
      action == LocalCommand(r.line.text)
  IN CASE action = "none" -> [q EXCEPT !.line = NewPrompt]
       [] action \in {"exit", "quit"} -> Asks(ExitLocalPrompt(q), action)
       [] OTHER -> Asks([q EXCEPT !.line = NewPrompt], action)

\* apply_editor_event
ApplyEvent(r, event, b) ==
  LET k == r.line.kind
      done == Edit(r.line, r.history[k], event, b)
      q == [r EXCEPT !.line = done[1], !.history[k] = done[2]]
  IN CASE event = "none" -> r
       [] event = "submit" /\ k = "escape" -> SubmitEscape(r)
       [] event = "submit" /\ k = "prompt" -> SubmitPrompt(r)
       [] event = "tab" -> Asks(r, "complete")
       [] event = "backspace" /\ k = "escape" /\ q.line.text = <<>> /\ q # r -> ExitLocalPrompt(q)
       [] OTHER -> q

Params == {"3", ".", "?"}
Control == {"cr", "nl", "bs", "esc", "bel", "tab", "^C"}

\* the event of the last byte of a key
Finals(b) ==
  CASE b = "A" -> "up" [] b = "B" -> "down" [] b = "C" -> "right" [] b = "D" -> "left"
    [] b = "H" -> "home" [] b = "F" -> "end" [] b = "~" -> "delete" [] OTHER -> "none"

\* consume_local_ansi
KeyByte(r, b) ==
  CASE r.line.ctl = "esc" -> [r EXCEPT !.line.ctl = IF b = "[" THEN "csi" ELSE "none"]
    [] r.line.ctl = "csi" /\ b \in Params -> r
    [] OTHER -> ApplyEvent([r EXCEPT !.line.ctl = "none"], Finals(b), b)

Enter(r, b) == [r EXCEPT !.swallow = IF b = "cr" THEN "nl" ELSE "cr", !.len = 0]

\* a byte while a line is edited
EditByte(r, b) ==
  CASE r.line.ctl # "none" -> KeyByte(r, b)
    [] r.line.ctl = "none" /\ b = "esc" -> [r EXCEPT !.line.ctl = "esc"]
    [] r.line.ctl = "none" /\ b = "bs" -> ApplyEvent(r, "backspace", b)
    [] r.line.ctl = "none" /\ b \in {"cr", "nl"} -> ApplyEvent(Enter(r, b), "submit", b)
    [] r.line.ctl = "none" /\ b = "tab" -> ApplyEvent(r, "tab", b)
    [] r.line.ctl = "none" /\ b = "^C" -> ExitLocalPrompt(r)
    [] r.line.ctl = "none" /\ b \notin Control -> ApplyEvent(r, "insert", b)
    [] OTHER -> r

\* handle_remote_byte: count the characters of the line, without the keys
Count(r, b) ==
  CASE r.ansi = "none" ->
         (CASE b \in {"cr", "nl"} -> [r EXCEPT !.len = 0]
            [] b = "esc" -> [r EXCEPT !.ansi = "esc"]
            [] b = "bs" -> [r EXCEPT !.len = IF @ > 0 THEN @ - 1 ELSE 0]
            [] OTHER -> [r EXCEPT !.len = @ + 1])
    [] r.ansi = "esc" ->
         [r EXCEPT !.ansi = IF b = "[" THEN "csi" ELSE IF b = "]" THEN "osc" ELSE "none"]
    [] r.ansi = "csi" -> [r EXCEPT !.ansi = IF b \in Params THEN "csi" ELSE "none"]
    [] r.ansi = "osc" ->
         [r EXCEPT !.ansi = IF b = "bel" THEN "none" ELSE IF b = "esc" THEN "oscesc" ELSE "osc"]
    [] r.ansi = "oscesc" -> [r EXCEPT !.ansi = "none"]

\* a byte that is for the remote shell, unless it opens an escape line
RemoteByte(r, b) ==
  LET q == [r EXCEPT !.swallow = "none"]
  IN IF r.swallow = b THEN q
     ELSE IF r.len = 0 /\ b = "~" THEN [q EXCEPT !.mode = "edit", !.line = NewEscape, !.edits = TRUE]
     ELSE Count([q EXCEPT !.sends = TRUE], b)

ProcessByte(r, b) ==
  IF ~r.edits THEN RemoteByte(r, b)
  ELSE IF r.line = NoLine THEN [r EXCEPT !.mode = "remote"]
  ELSE EditByte(r, b)

-----------------------------------------------------------------------------
(***************************************************************************)
(* drive_session.                                                          *)
(***************************************************************************)
Init ==
  /\ engine = NewEngine /\ input = <<>> /\ extra = <<>> /\ queue = <<>>
  /\ pc = "select" /\ leaving = FALSE
  /\ held = <<>> /\ shown = <<>> /\ arrived = 0
  /\ closed = FALSE /\ typed = 0
  /\ result = "none"

\* drive_session returns, after a disconnect whose outcome it drops, or with an
\* error; the engine and the queue go with it
Ends(end) ==
  /\ pc' = "ended" /\ result' = end
  /\ engine' = NewEngine /\ input' = <<>> /\ extra' = <<>> /\ queue' = <<>> /\ leaving' = FALSE

\* the engine, changed to e, is called with chunk
Calls(e, chunk) ==
  /\ engine' = [e EXCEPT !.sends = FALSE, !.acts = <<>>, !.edits = chunk # <<>> /\ e.mode = "edit"]
  /\ input' = chunk /\ pc' = "typing" /\ extra' = <<>>
  /\ UNCHANGED result

\* TerminalEvent::Data
StdinData(chunk) ==
  /\ pc = "select" /\ typed < MaxChunks
  /\ Calls(engine, chunk) /\ typed' = typed + 1
  /\ UNCHANGED <<queue, leaving, output, closed>>

\* the call goes on with the next byte; nothing else happens meanwhile
ProcessLocal ==
  /\ pc = "typing" /\ input # <<>>
  /\ engine' = ProcessByte(engine, Head(input)) /\ input' = Tail(input)
  /\ UNCHANGED <<extra, queue, pc, leaving, result, output, closed, typed>>

\* a write to the terminal, or a step of an action, fails: drive_session returns
\* the error as it is
FailsHard == Ends("error") /\ UNCHANGED <<held, shown>>

\* what the call has for the remote side is sent, which may fail once that has
\* ended the session, and what it drew is written; then its actions follow those
\* already queued
Processed ==
  /\ pc = "typing" /\ input = <<>>
  /\ \/ closed /\ engine.sends /\ Ends("remote")
     \/ engine.edits /\ FailsHard
     \/ leaving /\ Ends("user")
     \/ /\ ~leaving
        /\ queue' = queue \o engine.acts
        /\ pc' = IF queue' = <<>> THEN "select" ELSE "action"
        /\ engine' = [engine EXCEPT !.sends = FALSE, !.acts = <<>>, !.edits = FALSE]
        /\ UNCHANGED <<input, extra, leaving, result>>
  /\ UNCHANGED <<output, closed, typed>>

\* stdin has ended
StdinEnds ==
  /\ pc = "select"
  /\ Ends("user")
  /\ UNCHANGED <<output, closed, typed>>

\* SessionEvent::Data: a line of output is a new line for the engine as well
RemoteData(newline) ==
  /\ pc = "select" /\ ~closed /\ arrived < MaxOutput
  /\ arrived' = arrived + 1
  /\ \/ /\ engine' = IF newline THEN [engine EXCEPT !.len = 0] ELSE engine
        /\ IF engine.mode = "edit"
             THEN held' = Append(held, arrived') /\ UNCHANGED shown
             ELSE shown' = Append(shown, arrived') /\ UNCHANGED held
        /\ UNCHANGED <<input, extra, queue, pc, leaving, result>>
     \/ engine.mode = "remote" /\ FailsHard
  /\ UNCHANGED <<closed, typed>>

\* SessionEvent::ExtendedData: the standard error of the shell is shown at once,
\* whether a line is edited or not
RemoteStderr ==
  /\ pc = "select" /\ ~closed /\ arrived < MaxOutput
  /\ arrived' = arrived + 1
  /\ \/ shown' = Append(shown, arrived') /\ UNCHANGED <<local, held>>
     \/ FailsHard
  /\ UNCHANGED <<closed, typed>>

\* the shell or the connection ends; drive_session learns of it when it looks
RemoteCloses ==
  /\ pc # "ended" /\ ~closed /\ closed' = TRUE
  /\ UNCHANGED <<local, output, typed>>

\* mutant: the end is held back with the output while a line is edited
RemoteClosed_NotEditing ==
  /\ pc = "select" /\ closed /\ engine.mode = "remote"
  /\ Ends("remote")
  /\ UNCHANGED <<output, closed, typed>>

\* SessionEvent::Closed, no event, or an error
RemoteClosed ==
  /\ pc = "select" /\ closed
  /\ Ends("remote")
  /\ UNCHANGED <<output, closed, typed>>

-----------------------------------------------------------------------------
(***************************************************************************)
(* handle_action.  On Windows it first asks the terminal for the position  *)
(* of the cursor, and what else it reads meanwhile goes to the engine once *)
(* the action is done, even when the action was to leave.                  *)
(***************************************************************************)
QueryCpr(chunk) ==
  /\ pc = "action"
  /\ \/ chunk = <<>> /\ UNCHANGED typed
     \/ Windows /\ chunk # <<>> /\ typed < MaxChunks /\ typed' = typed + 1
  /\ extra' = chunk /\ pc' = "handle"
  /\ UNCHANGED <<engine, input, queue, leaving, result, output, closed>>

\* the action is done; what was swallowed is processed, then the next follows
Finishes(e, leave) ==
  /\ Calls(e, extra)
  /\ queue' = Tail(queue) /\ leaving' = leave

\* mutant: what was held back stays held as well
Flush_Kept ==
  /\ shown' = IF engine.mode = "remote" THEN shown \o held ELSE shown
  /\ UNCHANGED held

\* the output held back follows, unless another line is edited by now
Flush ==
  IF engine.mode = "remote"
    THEN shown' = shown \o held /\ held' = <<>>
    ELSE UNCHANGED <<held, shown>>

Act(actions) == pc = "handle" /\ Head(queue) \in actions

\* help and the commands that print, which may fail; on Windows the remote shell
\* may have to be told to redraw, and that send may fail as well
PrintAction ==
  /\ Act({"help", "print", "exit"})
  /\ \/ Finishes(engine, FALSE) /\ Flush
     \/ (Head(queue) = "exit" => engine.mode = "remote" /\ held # <<>>) /\ FailsHard
  /\ UNCHANGED <<arrived, closed, typed>>

\* the prompt is open already; the literal tilde is sent on its own
SendAction ==
  /\ Act({"prompt", "literal"})
  /\ \/ Finishes(engine, FALSE) /\ UNCHANGED <<held, shown>>
     \/ Head(queue) = "literal" /\ closed /\ FailsHard
  /\ UNCHANGED <<arrived, closed, typed>>

\* ~. and disconnect
LeaveAction ==
  /\ Act({"disconnect", "quit"})
  /\ (Finishes(engine, TRUE) /\ UNCHANGED <<held, shown>>) \/ FailsHard
  /\ UNCHANGED <<arrived, closed, typed>>

\* a command that is typed in part, and the same typed out with its arguments
Partial(l) == IF l.kind = "escape" THEN <<"~", "pu">> ELSE <<"pu">>
Keyword(l) == IF l.kind = "escape" THEN <<"~", "put">> ELSE <<"put">>

\* the one command that begins like that, in its place
CompleteKeyword(l) == {Put(l, Keyword(l), Len(Keyword(l)))}

\* of the paths, local or remote, none, several or one may match, or nobody answers
CompletePath(l) == {l, Put(l, l.text, Len(l.text))}

\* complete_line: what the line may be afterwards
CompleteLine(l) ==
  CASE l.text = Partial(l) -> CompleteKeyword(l)
    [] l.text = Keyword(l) -> CompletePath(l)
    [] OTHER -> {l}

\* complete_active_line, if there is still one
CompleteAction ==
  /\ Act({"complete"})
  /\ \/ /\ \E l \in CompleteLine(engine.line) : Finishes([engine EXCEPT !.line = l], FALSE)
        /\ UNCHANGED <<held, shown>>
     \/ engine.line # NoLine /\ FailsHard
  /\ UNCHANGED <<arrived, closed, typed>>

\* resolve_remote_path asks the remote side where its shell is; an error there
\* ends the session
Resolves ==
  \/ pc' = "transfer" /\ UNCHANGED <<engine, input, extra, queue, leaving, result, held, shown>>
  \/ FailsHard

\* a local file that is not there is the end of a put
PutAction ==
  /\ Act({"put"})
  /\ Resolves \/ (Finishes(engine, FALSE) /\ Flush)
  /\ UNCHANGED <<arrived, closed, typed>>

GetAction ==
  /\ Act({"get"}) /\ Resolves
  /\ UNCHANGED <<arrived, closed, typed>>

\* the transfer is over, well or not, and says so
TransferEnds ==
  /\ pc = "transfer"
  /\ (Finishes(engine, FALSE) /\ Flush) \/ FailsHard
  /\ UNCHANGED <<arrived, closed, typed>>

\* meanwhile what is typed is dropped, but ^C ends the transfer and the session
TransferTyped(chunk) ==
  /\ pc = "transfer" /\ typed < MaxChunks /\ typed' = typed + 1
  /\ IF "^C" \in ToSet(chunk) THEN FailsHard ELSE UNCHANGED <<local, held, shown>>
  /\ UNCHANGED <<arrived, closed>>

-----------------------------------------------------------------------------
Step ==
  \/ ProcessLocal \/ Processed \/ RemoteClosed \/ QueryCpr(<<>>) \/ PrintAction \/ SendAction
  \/ LeaveAction \/ CompleteAction
  \/ PutAction \/ GetAction \/ TransferEnds

Next ==
  \/ Step
  \/ \E chunk \in Chunks : StdinData(chunk) \/ QueryCpr(chunk) \/ TransferTyped(chunk)
  \/ StdinEnds \/ RemoteCloses \/ RemoteStderr
  \/ \E newline \in BOOLEAN : RemoteData(newline)

Spec == Init /\ [][Next]_vars

(***************************************************************************)
(* drive_session goes on with what it was asked for and with what the      *)
(* remote side sends; every wait of an action ends when the connection is  *)
(* gone.  Nobody has to type.                                              *)
(***************************************************************************)
FairSpec == Spec /\ WF_vars(Step)

-----------------------------------------------------------------------------
TypeOK ==
  /\ engine.mode \in {"remote", "edit"} /\ engine.len \in Nat
  /\ engine.line.kind \in {"none", "escape", "prompt"}
  /\ engine.swallow \in {"none", "cr", "nl"}
  /\ engine.ansi \in {"none", "esc", "csi", "osc", "oscesc"}
  /\ pc \in {"select", "typing", "action", "handle", "transfer", "ended"}
  /\ pc \in {"action", "handle", "transfer"} => queue # <<>>

\* Whatever is typed, however it is cut into chunks and whatever arrives while
\* actions wait: the engine edits a line exactly in its editing mode, the
\* cursor stays inside the line and the history pointer inside the history
\* (InputEngine::process_local, LineEditor::apply, CommandHistory).
EditorSound ==
  /\ TypeOK
  /\ (engine.mode = "edit") <=> (engine.line # NoLine)
  /\ engine.line.cursor \in 0 .. Len(engine.line.text)
  /\ \A k \in {"escape", "prompt"} :
       /\ engine.history[k].index \in 0 .. Len(engine.history[k].entries)
       /\ Len(engine.history[k].entries) <= MaxHistory

\* Remote output is neither lost nor shown twice while lines are edited, actions
\* run and transfers block the loop: it is on the screen or held back, as long
\* as the session lasts and after it, but for the one piece whose writing failed
\* and ended it (remote_buffer in drive_session and handle_action,
\* session.rs:98-114, 163-167, 188-192).
OutputKept ==
  \E n \in {arrived, arrived - 1} :
    /\ n # arrived => result = "error"
    /\ ToSet(shown) \cup ToSet(held) = 1 .. n
    /\ Len(shown) + Len(held) = n

\* When the remote side ends the session the client notices, wherever it is: at
\* rest, in a prompt, in a transfer, in the middle of the queued actions
\* (drive_session, finish_remote_closed).
CloseEndsSession == []<>(closed => pc = "ended")
=============================================================================
