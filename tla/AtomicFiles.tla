---------------------------- MODULE AtomicFiles ----------------------------
(***************************************************************************)
(* What src/storage promises of the files of a state directory: a process  *)
(* asks for a file to be replaced, and the replacement happens as a whole, *)
(* once, or not at all.  Nobody sees half of it, and a power loss takes    *)
(* the directory back to a state it was in, never to one it was not.       *)
(***************************************************************************)
EXTENDS Sequences

CONSTANTS
    Proc,    \* the processes that use the directory
    File,    \* the files they name
    Value,   \* the whole contents a caller may ask for
    NoFile   \* the content of a file that does not exist

VARIABLES
    now,     \* File -> content, as every process sees it
    kept,    \* File -> content, as a power loss would leave it
    log,     \* the changes of the directory the disk has yet to hear of
    ask      \* Proc -> the replacement it waits for

vars == <<now, kept, log, ask>>

Content == Value \cup {NoFile}
Change  == [file : File, to : Content]
Nothing == [file |-> NoFile, data |-> NoFile]

Init ==
    /\ now \in [File -> Content]
    /\ kept = now
    /\ log = <<>>
    /\ ask = [p \in Proc |-> Nothing]

(* A process asks for a file to be replaced. *)
Ask(p) ==
    /\ ask[p] = Nothing
    /\ ask'[p] \in [file : File, data : Value]
    /\ ask' = [ask EXCEPT ![p] = ask'[p]]
    /\ UNCHANGED <<now, kept, log>>

(* The file holds what was asked for, all of it. *)
Apply(p) ==
    /\ ask[p] # Nothing
    /\ now' = [now EXCEPT ![ask[p].file] = ask[p].data]
    /\ log' = Append(log, [file |-> ask[p].file, to |-> ask[p].data])
    /\ ask' = [ask EXCEPT ![p] = Nothing]
    /\ UNCHANGED kept

(* The replacement failed, or its process died: nothing happened. *)
Abandon(p) ==
    /\ ask' = [ask EXCEPT ![p] = Nothing]
    /\ UNCHANGED <<now, kept, log>>

Remove(f) ==
    /\ now' = [now EXCEPT ![f] = NoFile]
    /\ log' = Append(log, [file |-> f, to |-> NoFile])
    /\ UNCHANGED <<kept, ask>>

(* The disk catches up with the oldest change. *)
Persist ==
    /\ log # <<>>
    /\ kept' = [kept EXCEPT ![Head(log).file] = Head(log).to]
    /\ log' = Tail(log)
    /\ UNCHANGED <<now, ask>>

PowerLoss ==
    /\ now' = kept
    /\ log' = <<>>
    /\ ask' = [p \in Proc |-> Nothing]
    /\ UNCHANGED kept

Next ==
    \/ \E p \in Proc :
          \/ Ask(p)
          \/ Apply(p)
          \/ Abandon(p)
    \/ \E f \in File : Remove(f)
    \/ Persist
    \/ PowerLoss

Spec == Init /\ [][Next]_vars
=============================================================================
