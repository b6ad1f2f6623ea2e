--------------------------- MODULE TerminalProofs ---------------------------
(***************************************************************************)
(* What the interactive client keeps, whatever is typed and whatever comes *)
(* from the remote side: the state of its line editor (EditorSound) and    *)
(* the output it holds back (OutputKept).                                  *)
(***************************************************************************)
EXTENDS Terminal, SequenceTheorems, TLAPS

-----------------------------------------------------------------------------
(***************************************************************************)
(* Sequences.                                                              *)
(***************************************************************************)

\* A byte put into a text makes it one longer.
LEMMA InsertedText ==
  ASSUME NEW S, NEW s \in Seq(S), NEW i \in 1 .. Len(s) + 1, NEW b \in S
  PROVE  InsertAt(s, i, b) \in Seq(S) /\ Len(InsertAt(s, i, b)) = Len(s) + 1
<1> DEFINE before == SubSeq(s, 1, i - 1)
           after == SubSeq(s, i, Len(s))
<1>1. before \in Seq(S) /\ Len(before) = i - 1
  BY SubSeqProperties, ElementOfSeq
<1>2. after \in Seq(S) /\ Len(after) = Len(s) - i + 1
  BY SubSeqProperties, ElementOfSeq
<1> HIDE DEF before, after
<1>3. <<b>> \in Seq(S) /\ Len(<<b>>) = 1
  OBVIOUS
<1> DEFINE front == before \o <<b>>
<1>4. front \in Seq(S) /\ Len(front) = i
  BY <1>1, <1>3, ConcatProperties
<1> HIDE DEF front
<1>5. front \o after \in Seq(S) /\ Len(front \o after) = Len(front) + Len(after)
  BY <1>2, <1>4, ConcatProperties
<1>6. Len(front \o after) = Len(s) + 1
  BY <1>2, <1>4, <1>5
<1> QED
  BY <1>5, <1>6 DEF InsertAt, front, before, after

\* A byte taken from a text makes it one shorter.
LEMMA RemovedText ==
  ASSUME NEW S, NEW s \in Seq(S), NEW i \in 1 .. Len(s)
  PROVE  RemoveAt(s, i) \in Seq(S) /\ Len(RemoveAt(s, i)) = Len(s) - 1
<1> DEFINE before == SubSeq(s, 1, i - 1)
           after == SubSeq(s, i + 1, Len(s))
<1>1. before \in Seq(S) /\ Len(before) = i - 1
  BY SubSeqProperties, ElementOfSeq
<1>2. after \in Seq(S) /\ Len(after) = Len(s) - i
  BY SubSeqProperties, ElementOfSeq
<1> HIDE DEF before, after
<1>3. before \o after \in Seq(S) /\ Len(before \o after) = Len(s) - 1
  BY <1>1, <1>2, ConcatProperties
<1> QED
  BY <1>3 DEF RemoveAt, before, after

LEMMA AppendedSet ==
  ASSUME NEW S, NEW s \in Seq(S), NEW x \in S
  PROVE  ToSet(Append(s, x)) = ToSet(s) \cup {x}
<1>1. /\ Append(s, x) \in Seq(S) /\ Len(Append(s, x)) = Len(s) + 1
      /\ \A i \in 1 .. Len(s) : Append(s, x)[i] = s[i]
      /\ Append(s, x)[Len(s) + 1] = x
  OBVIOUS
<1>2. DOMAIN Append(s, x) = DOMAIN s \cup {Len(s) + 1} /\ DOMAIN s = 1 .. Len(s)
  BY <1>1, LenProperties
<1> QED
  BY <1>1, <1>2, Zenon DEF ToSet

LEMMA JoinedSet ==
  ASSUME NEW S, NEW s \in Seq(S), NEW t \in Seq(S)
  PROVE  ToSet(s \o t) = ToSet(s) \cup ToSet(t)
<1>1. /\ s \o t \in Seq(S) /\ Len(s \o t) = Len(s) + Len(t)
      /\ \A i \in 1 .. Len(s) + Len(t) :
           (s \o t)[i] = IF i <= Len(s) THEN s[i] ELSE t[i - Len(s)]
  BY ConcatProperties
<1>2. /\ DOMAIN (s \o t) = 1 .. Len(s) + Len(t)
      /\ DOMAIN s = 1 .. Len(s) /\ DOMAIN t = 1 .. Len(t)
      /\ Len(s) \in Nat /\ Len(t) \in Nat
  BY <1>1, LenProperties
<1> DEFINE all == s \o t
<1>3. \A i \in DOMAIN all : all[i] = IF i <= Len(s) THEN s[i] ELSE t[i - Len(s)]
  BY <1>1, <1>2
<1>4. \A i \in DOMAIN s : i \in DOMAIN all /\ all[i] = s[i]
  BY <1>1, <1>2
<1>5. \A i \in DOMAIN t : i + Len(s) \in DOMAIN all /\ all[i + Len(s)] = t[i]
  BY <1>1, <1>2
<1>6. \A i \in DOMAIN all : i \in DOMAIN s \/ i - Len(s) \in DOMAIN t
  BY <1>2
<1>7. \A i \in DOMAIN all : i \in DOMAIN s => all[i] = s[i]
  BY <1>4
<1>8. \A i \in DOMAIN all : i \notin DOMAIN s => all[i] = t[i - Len(s)]
  BY <1>2, <1>3
<1> HIDE DEF all
<1>9. ToSet(all) \subseteq ToSet(s) \cup ToSet(t)
  BY <1>6, <1>7, <1>8, Zenon DEF ToSet
<1>10. ToSet(s) \subseteq ToSet(all) /\ ToSet(t) \subseteq ToSet(all)
  BY <1>4, <1>5, Zenon DEF ToSet
<1> QED
  BY <1>9, <1>10 DEF all

-----------------------------------------------------------------------------
(***************************************************************************)
(* The line editor: a line whose cursor is inside it and a history whose   *)
(* pointer is inside it stay so under every event.                         *)
(***************************************************************************)
Typed == UNION {ToSet(chunk) : chunk \in Chunks}
Bytes == Typed \cup {"~", "pu", "put"}
Texts == Seq(Bytes)
Actions == {"none", "exit", "quit", "put", "get", "print", "disconnect", "help", "prompt",
            "literal", "complete"}
Kinds == {"escape", "prompt"}

LineRecords == [kind : Kinds, text : Texts, cursor : Nat, ctl : {"none", "esc", "csi"}]
HistoryRecords == [entries : Seq(Texts), index : Nat, pending : Texts]

IsLine(l) == l \in LineRecords /\ l.cursor <= Len(l.text)

IsHistory(h) ==
  /\ h \in HistoryRecords
  /\ h.index <= Len(h.entries) /\ Len(h.entries) <= MaxHistory

\* A line that is edited is not the absence of one.
LEMMA LineIsSome ==
  ASSUME NEW l, IsLine(l)
  PROVE  l # NoLine
BY DEF IsLine, LineRecords, Kinds, NoLine

\* A line stays one when it gets a text and a cursor inside it.
LEMMA PutLine ==
  ASSUME NEW l, IsLine(l), NEW text \in Texts, NEW c \in Nat, c <= Len(text)
  PROVE  IsLine(Put(l, text, c))
<1>1. Put(l, text, c) \in LineRecords
  BY DEF IsLine, LineRecords, Put
<1>2. Put(l, text, c).text = text /\ Put(l, text, c).cursor = c
  BY DEF IsLine, LineRecords, Put
<1> QED
  BY <1>1, <1>2 DEF IsLine

\* CommandHistory::add keeps the bound, whatever it drops or skips.
LEMMA AddHistory ==
  ASSUME NEW h, IsHistory(h), NEW text \in Texts
  PROVE  IsHistory(Add(h, text))
<1> DEFINE all == Append(h.entries, text)
<1>1. h.entries \in Seq(Texts) /\ Len(h.entries) \in Nat /\ Len(h.entries) <= MaxHistory
  BY LenProperties DEF IsHistory, HistoryRecords
<1>2. all \in Seq(Texts) /\ Len(all) = Len(h.entries) + 1
  BY <1>1, AppendProperties
<1>3. all # <<>>
  BY <1>1, <1>2
<1> HIDE DEF all
<1>4. Tail(all) \in Seq(Texts) /\ Len(Tail(all)) = Len(h.entries)
  BY <1>1, <1>2, <1>3, HeadTailProperties
<1> DEFINE kept == IF h.entries # <<>> /\ Last(h.entries) = text THEN h.entries
                   ELSE IF Len(all) > MaxHistory THEN Tail(all) ELSE all
<1>5. kept \in Seq(Texts) /\ Len(kept) \in Nat /\ Len(kept) <= MaxHistory
  BY <1>1, <1>2, <1>4, TerminalAssumption
<1> HIDE DEF kept
<1>6. IsHistory([entries |-> kept, index |-> 0, pending |-> <<>>])
  BY <1>5 DEF IsHistory, HistoryRecords, Texts
<1> QED
  BY <1>6, Zenon DEF Add, kept, all

\* Going up, the pointer is at an entry as soon as there is one.
LEMMA UpHistory ==
  ASSUME NEW h, IsHistory(h), h.entries # <<>>, NEW text \in Texts
  PROVE  IsHistory(Up(h, text))
<1>1. Len(h.entries) \in Nat /\ Len(h.entries) > 0 /\ h \in HistoryRecords /\ h.index \in Nat
  BY EmptySeq, LenProperties DEF IsHistory, HistoryRecords
<1> DEFINE g == Up(h, text)
<1>2. g \in HistoryRecords /\ g.entries = h.entries /\ g.index <= Len(h.entries)
  <2>1. CASE h.index = 0
    <3>1. g = [h EXCEPT !.pending = text, !.index = Len(h.entries)]
      BY <2>1 DEF Up
    <3>2. g = [entries |-> h.entries, index |-> Len(h.entries), pending |-> text]
      BY <1>1, <3>1 DEF HistoryRecords
    <3> HIDE DEF g
    <3>3. h.entries \in Seq(Texts)
      BY <1>1 DEF HistoryRecords
    <3> QED
      BY <1>1, <3>2, <3>3 DEF HistoryRecords
  <2>2. CASE h.index # 0
    <3> DEFINE i == IF h.index > 1 THEN h.index - 1 ELSE 1
    <3>1. g = [h EXCEPT !.index = i]
      BY <2>2 DEF Up
    <3>2. i \in Nat /\ i <= Len(h.entries)
      BY <1>1, <2>2 DEF IsHistory
    <3> HIDE DEF i, g
    <3> QED
      BY <1>1, <3>1, <3>2 DEF HistoryRecords
  <2> QED
    BY <2>1, <2>2
<1> QED
  BY <1>1, <1>2 DEF IsHistory

LEMMA DownHistory ==
  ASSUME NEW h, IsHistory(h)
  PROVE  IsHistory(Down(h))
<1>1. Len(h.entries) \in Nat /\ h \in HistoryRecords /\ h.index \in Nat
  BY LenProperties DEF IsHistory, HistoryRecords
<1>2. /\ Down(h) \in HistoryRecords /\ Down(h).entries = h.entries
      /\ Down(h).index <= Len(h.entries)
  BY <1>1 DEF IsHistory, HistoryRecords, Down
<1> QED
  BY <1>1, <1>2 DEF IsHistory

LEMMA AbandonHistory ==
  ASSUME NEW h, IsHistory(h), NEW text \in Texts
  PROVE  IsHistory(Abandon(h, text))
<1>1. Len(h.entries) \in Nat /\ h \in HistoryRecords
  BY LenProperties DEF IsHistory, HistoryRecords
<1>2. /\ Abandon(h, text) \in HistoryRecords /\ Abandon(h, text).entries = h.entries
      /\ Abandon(h, text).index = 0
  BY <1>1 DEF HistoryRecords, Abandon
<1> QED
  BY <1>1, <1>2 DEF IsHistory

LEMMA CurrentText ==
  ASSUME NEW h, IsHistory(h)
  PROVE  Current(h) \in Texts /\ Len(Current(h)) \in Nat
<1>1. h.entries \in Seq(Texts) /\ h.pending \in Texts /\ h.index \in 0 .. Len(h.entries)
  BY LenProperties DEF IsHistory, HistoryRecords
<1>2. Current(h) \in Texts
  BY <1>1, ElementOfSeq DEF Current
<1> QED
  BY <1>2, LenProperties DEF Texts

\* LineEditor::apply keeps the cursor inside the line and the pointer inside
\* the history, for every event.
LEMMA EditSound ==
  ASSUME NEW l, IsLine(l), NEW h, IsHistory(h), NEW event, NEW b \in Bytes
  PROVE  IsLine(Edit(l, h, event, b)[1]) /\ IsHistory(Edit(l, h, event, b)[2])
<1>1. l.text \in Texts /\ Len(l.text) \in Nat /\ l.cursor \in 0 .. Len(l.text)
  BY LenProperties DEF IsLine, LineRecords, Texts
<1>2. IsHistory(Abandon(h, l.text))
  BY <1>1, AbandonHistory
<1>3. CASE event = "insert"
  <2> DEFINE text == InsertAt(l.text, l.cursor + 1, b)
  <2>1. text \in Texts /\ Len(text) = Len(l.text) + 1
    <3>1. l.cursor + 1 \in 1 .. Len(l.text) + 1
      BY <1>1
    <3>2. l.text \in Seq(Bytes)
      BY <1>1 DEF Texts
    <3> QED
      BY <3>1, <3>2, InsertedText DEF Texts
  <2> HIDE DEF text
  <2>2. IsLine(Put(l, text, l.cursor + 1))
    BY <1>1, <2>1, PutLine
  <2> QED
    BY <1>2, <1>3, <2>2 DEF Edit, text
<1>4. CASE event = "backspace" /\ l.cursor # 0
  <2> DEFINE text == RemoveAt(l.text, l.cursor)
  <2>1. text \in Texts /\ Len(text) = Len(l.text) - 1
    BY <1>1, <1>4, RemovedText DEF Texts
  <2> HIDE DEF text
  <2>2. IsLine(Put(l, text, l.cursor - 1))
    BY <1>1, <1>4, <2>1, PutLine
  <2> QED
    BY <1>2, <1>4, <2>2 DEF Edit, text
<1>5. CASE event = "delete" /\ ~(l.cursor >= Len(l.text))
  <2> DEFINE text == RemoveAt(l.text, l.cursor + 1)
  <2>1. text \in Texts /\ Len(text) = Len(l.text) - 1
    BY <1>1, <1>5, RemovedText DEF Texts
  <2> HIDE DEF text
  <2>2. IsLine(Put(l, text, l.cursor))
    BY <1>1, <1>5, <2>1, PutLine
  <2> QED
    BY <1>2, <1>5, <2>2 DEF Edit, text
<1>6. CASE event = "left"
  <2>1. IsLine(Put(l, l.text, IF l.cursor > 0 THEN l.cursor - 1 ELSE 0))
    BY <1>1, PutLine
  <2> QED
    BY <1>6, <2>1 DEF Edit
<1>7. CASE event = "right"
  <2> DEFINE c == Min({l.cursor + 1, Len(l.text)})
  <2>1. \E x \in {l.cursor + 1, Len(l.text)} : \A y \in {l.cursor + 1, Len(l.text)} : x <= y
    BY <1>1
  <2>2. c \in {l.cursor + 1, Len(l.text)} /\ \A y \in {l.cursor + 1, Len(l.text)} : c <= y
    BY <2>1, Zenon DEF Min
  <2> HIDE DEF c
  <2>3. IsLine(Put(l, l.text, c))
    BY <1>1, <2>2, PutLine
  <2> QED
    BY <1>7, <2>3 DEF Edit, c
<1>8. CASE event = "home"
  <2>1. IsLine(Put(l, l.text, 0))
    BY <1>1, PutLine
  <2> QED
    BY <1>8, <2>1 DEF Edit
<1>9. CASE event = "end"
  <2>1. IsLine(Put(l, l.text, Len(l.text)))
    BY <1>1, PutLine
  <2> QED
    BY <1>9, <2>1 DEF Edit
<1>10. CASE event = "up" /\ h.entries # <<>>
  <2> DEFINE g == Up(h, l.text)
  <2>1. IsHistory(g)
    BY <1>1, <1>10, UpHistory
  <2> HIDE DEF g
  <2>2. IsLine(Put(l, Current(g), Len(Current(g))))
    BY <2>1, CurrentText, PutLine
  <2> QED
    BY <1>10, <2>1, <2>2 DEF Edit, g
<1>11. CASE event = "down" /\ h.index # 0
  <2> DEFINE g == Down(h)
  <2>1. IsHistory(g)
    BY DownHistory
  <2> HIDE DEF g
  <2>2. IsLine(Put(l, Current(g), Len(Current(g))))
    BY <2>1, CurrentText, PutLine
  <2> QED
    BY <1>11, <2>1, <2>2 DEF Edit, g
<1>12. CASE \/ event = "backspace" /\ l.cursor = 0
            \/ event = "delete" /\ l.cursor >= Len(l.text)
            \/ event = "up" /\ h.entries = <<>>
            \/ event = "down" /\ h.index = 0
            \/ event \notin {"insert", "backspace", "delete", "left", "right", "home", "end",
                             "up", "down"}
  BY <1>12 DEF Edit
<1> QED
  BY <1>3, <1>4, <1>5, <1>6, <1>7, <1>8, <1>9, <1>10, <1>11, <1>12

-----------------------------------------------------------------------------
(***************************************************************************)
(* The engine.                                                             *)
(***************************************************************************)
EngineRecords ==
  [mode : {"remote", "edit"}, line : LineRecords \cup {NoLine}, len : Nat,
   swallow : {"none", "cr", "nl"}, ansi : {"none", "esc", "csi", "osc", "oscesc"},
   history : [Kinds -> HistoryRecords], sends : BOOLEAN, acts : Seq(Actions), edits : BOOLEAN]

\* The engine edits a line exactly in its editing mode, and its line and its
\* histories are sound.
IsEngine(r) ==
  /\ r \in EngineRecords
  /\ (r.mode = "edit" /\ IsLine(r.line)) \/ (r.mode = "remote" /\ r.line = NoLine)
  /\ \A k \in Kinds : IsHistory(r.history[k])

\* In the middle of a call the mode was read when it began, or a byte of this
\* chunk has opened the line since: a line that is edited is edited by the
\* editing loop.
InCall(r) == IsEngine(r) /\ (r.mode = "edit" => r.edits)

LEMMA NewLines == IsLine(NewEscape) /\ IsLine(NewPrompt)
<1>1. <<"~">> \in Seq(Bytes) /\ Len(<<"~">>) = 1
  <2>1. "~" \in Bytes
    BY DEF Bytes
  <2> QED
    BY <2>1
<1>2. <<>> \in Seq(Bytes) /\ Len(<<>>) = 0
  BY EmptySeq
<1> QED
  BY <1>1, <1>2 DEF IsLine, LineRecords, NewEscape, NewPrompt, Texts, Kinds

LEMMA LineSet ==
  ASSUME NEW r, IsEngine(r), NEW l, IsLine(l)
  PROVE  /\ IsEngine([r EXCEPT !.mode = "edit", !.line = l])
         /\ r.mode = "edit" => IsEngine([r EXCEPT !.line = l])
<1>1. /\ [r EXCEPT !.mode = "edit", !.line = l] \in EngineRecords
      /\ [r EXCEPT !.line = l] \in EngineRecords
  BY DEF IsEngine, EngineRecords, IsLine
<1>2. /\ [r EXCEPT !.mode = "edit", !.line = l].mode = "edit"
      /\ [r EXCEPT !.mode = "edit", !.line = l].line = l
      /\ [r EXCEPT !.mode = "edit", !.line = l].history = r.history
      /\ [r EXCEPT !.line = l].mode = r.mode
      /\ [r EXCEPT !.line = l].line = l
      /\ [r EXCEPT !.line = l].history = r.history
  BY DEF IsEngine, EngineRecords
<1> QED
  BY <1>1, <1>2, Zenon DEF IsEngine

LEMMA LenSet ==
  ASSUME NEW r, IsEngine(r), NEW n \in Nat
  PROVE  IsEngine([r EXCEPT !.len = n])
<1>1. [r EXCEPT !.len = n] \in EngineRecords
  BY DEF IsEngine, EngineRecords
<1>2. /\ [r EXCEPT !.len = n].mode = r.mode
      /\ [r EXCEPT !.len = n].line = r.line
      /\ [r EXCEPT !.len = n].history = r.history
  BY DEF IsEngine, EngineRecords
<1> QED
  BY <1>1, <1>2, Zenon DEF IsEngine

LEMMA HistorySet ==
  ASSUME NEW r, IsEngine(r), NEW k \in Kinds, NEW h, IsHistory(h)
  PROVE  /\ IsEngine([r EXCEPT !.history[k] = h])
         /\ [r EXCEPT !.history[k] = h].mode = r.mode
         /\ [r EXCEPT !.history[k] = h].line = r.line
         /\ [r EXCEPT !.history[k] = h].edits = r.edits
<1> DEFINE q == [r EXCEPT !.history[k] = h]
           hs == [r.history EXCEPT ![k] = h]
<1>1. hs \in [Kinds -> HistoryRecords] /\ \A j \in Kinds : IsHistory(hs[j])
  BY DEF IsEngine, EngineRecords, IsHistory
<1> HIDE DEF hs
<1>2. q = [r EXCEPT !.history = hs]
  BY DEF IsEngine, EngineRecords, hs
<1> HIDE DEF q
<1>3. /\ q \in EngineRecords /\ q.mode = r.mode /\ q.line = r.line /\ q.history = hs
      /\ q.edits = r.edits
  BY <1>1, <1>2 DEF IsEngine, EngineRecords
<1>4. IsEngine(q)
  BY <1>1, <1>3, Zenon DEF IsEngine
<1> QED
  BY <1>3, <1>4 DEF q

\* The mode goes with the line, so a line that is left is left for good.
LEMMA ExitSound ==
  ASSUME NEW r, IsEngine(r)
  PROVE  /\ IsEngine(ExitLocalPrompt(r)) /\ ExitLocalPrompt(r).edits = r.edits
         /\ ExitLocalPrompt(r).mode = "remote"
<1> DEFINE q == ExitLocalPrompt(r)
<1>1. /\ q \in EngineRecords /\ q.mode = "remote" /\ q.line = NoLine
      /\ q.history = r.history /\ q.edits = r.edits
  BY DEF IsEngine, EngineRecords, ExitLocalPrompt
<1> QED
  BY <1>1, Zenon DEF IsEngine

LEMMA AsksSound ==
  ASSUME NEW r, IsEngine(r), NEW a \in Actions
  PROVE  /\ IsEngine(Asks(r, a)) /\ Asks(r, a).edits = r.edits
         /\ Asks(r, a).mode = r.mode
<1> DEFINE q == Asks(r, a)
           acts == Append(r.acts, a)
<1>1. acts \in Seq(Actions) /\ r \in EngineRecords
  BY AppendProperties DEF IsEngine, EngineRecords
<1>2. q = [r EXCEPT !.acts = acts]
  BY DEF Asks
<1> HIDE DEF q, acts
<1>3. /\ q \in EngineRecords /\ q.mode = r.mode /\ q.line = r.line
      /\ q.history = r.history /\ q.edits = r.edits
  BY <1>1, <1>2 DEF EngineRecords
<1>4. IsEngine(q)
  BY <1>3, Zenon DEF IsEngine
<1> QED
  BY <1>3, <1>4 DEF q


LEMMA CommandWords ==
  ASSUME NEW text
  PROVE  LocalCommand(text) \in Actions /\ ParseEscape(text) \in Actions
<1>1. \A t : LocalCommand(t) \in Actions
  BY DEF LocalCommand, Actions
<1> QED
  BY <1>1 DEF ParseEscape, Actions

LEMMA SubmitSound ==
  ASSUME NEW r, IsEngine(r), r.mode = "edit"
  PROVE  /\ IsEngine(SubmitEscape(r)) /\ SubmitEscape(r).edits = r.edits
         /\ IsEngine(SubmitPrompt(r)) /\ SubmitPrompt(r).edits = r.edits
<1> DEFINE text == r.line.text
<1>1. text \in Texts
  BY DEF IsEngine, IsLine, LineRecords
<1>2. ASSUME NEW k \in Kinds
      PROVE  LET q == [r EXCEPT !.history[k] = Add(@, text)]
             IN  IsEngine(q) /\ q.mode = "edit" /\ q.edits = r.edits
  <2> DEFINE q == [r EXCEPT !.history[k] = Add(@, text)]
             h == Add(r.history[k], text)
  <2>1. IsHistory(h)
    BY <1>1, AddHistory DEF IsEngine
  <2>2. q = [r EXCEPT !.history[k] = h]
    BY DEF IsEngine, EngineRecords
  <2> HIDE DEF h, q
  <2>3. IsEngine(q) /\ q.mode = "edit" /\ q.edits = r.edits
    BY <2>1, <2>2, HistorySet
  <2> QED
    BY <2>3 DEF q
<1>3. ASSUME NEW q, IsEngine(q), q.mode = "edit"
      PROVE  /\ IsEngine([q EXCEPT !.line = NewPrompt])
             /\ [q EXCEPT !.line = NewPrompt].edits = q.edits
             /\ IsEngine([q EXCEPT !.line = NewPrompt, !.len = 0])
             /\ [q EXCEPT !.line = NewPrompt, !.len = 0].edits = q.edits
  <2> DEFINE p == [q EXCEPT !.line = NewPrompt]
  <2>1. IsEngine(p)
    BY <1>3, LineSet, NewLines
  <2>2. p.edits = q.edits
    BY <1>3 DEF IsEngine, EngineRecords
  <2>3. [q EXCEPT !.line = NewPrompt, !.len = 0] = [p EXCEPT !.len = 0]
    BY <1>3 DEF IsEngine, EngineRecords
  <2> HIDE DEF p
  <2>4. IsEngine([p EXCEPT !.len = 0]) /\ [p EXCEPT !.len = 0].edits = p.edits
    BY <2>1, LenSet DEF IsEngine, EngineRecords
  <2> QED
    BY <2>1, <2>2, <2>3, <2>4 DEF p
<1>4. IsEngine(SubmitEscape(r)) /\ SubmitEscape(r).edits = r.edits
  <2> DEFINE q == [r EXCEPT !.history["escape"] = Add(@, text)]
             action == ParseEscape(text)
  <2>1. IsEngine(q) /\ q.mode = "edit" /\ q.edits = r.edits
    BY <1>2 DEF Kinds
  <2>2. action \in Actions
    BY CommandWords
  <2> HIDE DEF q, action
  <2>3. CASE action = "prompt"
    <3> DEFINE p == [q EXCEPT !.line = NewPrompt, !.len = 0]
    <3>1. IsEngine(p) /\ p.edits = q.edits
      BY <1>3, <2>1
    <3>2. SubmitEscape(r) = Asks(p, action)
      BY <2>3 DEF SubmitEscape, q, action
    <3> HIDE DEF p
    <3> QED
      BY <2>1, <2>2, <3>1, <3>2, AsksSound
  <2>4. CASE action = "literal"
    <3> DEFINE p == [q EXCEPT !.mode = "remote", !.line = NoLine, !.len = 1]
    <3>1. /\ p \in EngineRecords /\ p.mode = "remote" /\ p.line = NoLine
          /\ p.history = q.history /\ p.edits = q.edits
      BY <2>1 DEF IsEngine, EngineRecords
    <3>2. IsEngine(p)
      BY <2>1, <3>1, Zenon DEF IsEngine
    <3>3. SubmitEscape(r) = Asks(p, action)
      BY <2>4 DEF SubmitEscape, q, action
    <3> HIDE DEF p
    <3> QED
      BY <2>1, <2>2, <3>1, <3>2, <3>3, AsksSound
  <2>5. CASE action = "none"
    <3>1. SubmitEscape(r) = ExitLocalPrompt(q)
      BY <2>5 DEF SubmitEscape, q, action
    <3> QED
      BY <2>1, <3>1, ExitSound
  <2>6. CASE action \notin {"prompt", "literal", "none"}
    <3>1. SubmitEscape(r) = Asks(ExitLocalPrompt(q), action)
      BY <2>6 DEF SubmitEscape, q, action
    <3> QED
      BY <2>1, <2>2, <3>1, ExitSound, AsksSound
  <2> QED
    BY <2>3, <2>4, <2>5, <2>6
<1>5. IsEngine(SubmitPrompt(r)) /\ SubmitPrompt(r).edits = r.edits
  <2> DEFINE q == [r EXCEPT !.history["prompt"] = Add(@, text)]
             action == LocalCommand(text)
             p == [q EXCEPT !.line = NewPrompt]
  <2>1. IsEngine(q) /\ q.mode = "edit" /\ q.edits = r.edits
    BY <1>2 DEF Kinds
  <2>2. action \in Actions
    BY CommandWords
  <2>3. SubmitPrompt(r) = IF action = "none" THEN p
                          ELSE IF action \in {"exit", "quit"} THEN Asks(ExitLocalPrompt(q), action)
                          ELSE Asks(p, action)
    BY DEF SubmitPrompt
  <2> HIDE DEF q, action
  <2>4. IsEngine(p) /\ p.edits = q.edits
    BY <1>3, <2>1
  <2> HIDE DEF p
  <2> QED
    BY <2>1, <2>2, <2>3, <2>4, ExitSound, AsksSound
<1> QED
  BY <1>4, <1>5

\* apply_editor_event, for a line that is there.
LEMMA ApplySound ==
  ASSUME NEW r, IsEngine(r), r.mode = "edit", NEW event, NEW b \in Bytes
  PROVE  IsEngine(ApplyEvent(r, event, b)) /\ ApplyEvent(r, event, b).edits = r.edits
<1> DEFINE k == r.line.kind
           done == Edit(r.line, r.history[k], event, b)
           q == [r EXCEPT !.line = done[1], !.history[k] = done[2]]
<1>1. IsLine(r.line) /\ k \in Kinds /\ IsHistory(r.history[k])
  BY DEF IsEngine, IsLine, LineRecords
<1>2. IsLine(done[1]) /\ IsHistory(done[2])
  BY <1>1, EditSound
<1> HIDE DEF done, k
<1>3. IsEngine(q) /\ q.edits = r.edits
  <2> DEFINE p == [r EXCEPT !.line = done[1]]
  <2>1. IsEngine(p)
    BY <1>2, LineSet
  <2>2. p.edits = r.edits
    BY DEF IsEngine, EngineRecords
  <2>3. q = [p EXCEPT !.history[k] = done[2]]
    BY DEF IsEngine, EngineRecords
  <2> HIDE DEF p, q
  <2> QED
    BY <1>1, <1>2, <2>1, <2>2, <2>3, HistorySet
<1> HIDE DEF q
<1>4. ApplyEvent(r, event, b) \in
        {r, SubmitEscape(r), SubmitPrompt(r), Asks(r, "complete"), ExitLocalPrompt(q), q}
  BY <1>1 DEF ApplyEvent, q, done, k
<1>5. /\ IsEngine(SubmitEscape(r)) /\ SubmitEscape(r).edits = r.edits
      /\ IsEngine(SubmitPrompt(r)) /\ SubmitPrompt(r).edits = r.edits
  BY SubmitSound
<1>6. IsEngine(Asks(r, "complete")) /\ Asks(r, "complete").edits = r.edits
  BY AsksSound DEF Actions
<1>7. IsEngine(ExitLocalPrompt(q)) /\ ExitLocalPrompt(q).edits = r.edits
  BY <1>3, ExitSound
<1> QED
  BY <1>3, <1>4, <1>5, <1>6, <1>7, Zenon

\* The keys of the editor, which may come in parts.
LEMMA CtlSet ==
  ASSUME NEW r, IsEngine(r), r.mode = "edit", NEW c \in {"none", "esc", "csi"}
  PROVE  /\ IsEngine([r EXCEPT !.line.ctl = c]) /\ [r EXCEPT !.line.ctl = c].mode = "edit"
         /\ [r EXCEPT !.line.ctl = c].edits = r.edits
<1> DEFINE l == [r.line EXCEPT !.ctl = c]
<1>1. IsLine(r.line)
  BY DEF IsEngine
<1>2. l \in LineRecords /\ l.cursor = r.line.cursor /\ l.text = r.line.text
  BY <1>1 DEF IsLine, LineRecords
<1>3. IsLine(l)
  BY <1>1, <1>2, Zenon DEF IsLine
<1>4. [r EXCEPT !.line.ctl = c] = [r EXCEPT !.line = l]
  BY DEF IsEngine, EngineRecords
<1> HIDE DEF l
<1>5. IsEngine([r EXCEPT !.line = l])
  BY <1>3, LineSet
<1>6. [r EXCEPT !.line = l].mode = r.mode /\ [r EXCEPT !.line = l].edits = r.edits
  BY DEF IsEngine, EngineRecords
<1> QED
  BY <1>4, <1>5, <1>6

LEMMA KeySound ==
  ASSUME NEW r, IsEngine(r), r.mode = "edit", NEW b \in Bytes
  PROVE  IsEngine(KeyByte(r, b)) /\ KeyByte(r, b).edits = r.edits
<1> DEFINE q == [r EXCEPT !.line.ctl = "none"]
           c == IF b = "[" THEN "csi" ELSE "none"
<1>1. IsEngine(q) /\ q.mode = "edit" /\ q.edits = r.edits
  BY CtlSet
<1>2. c \in {"none", "esc", "csi"}
  OBVIOUS
<1>3. KeyByte(r, b) \in {[r EXCEPT !.line.ctl = c], r, ApplyEvent(q, Finals(b), b)}
  BY DEF KeyByte
<1> HIDE DEF q, c
<1>4. IsEngine([r EXCEPT !.line.ctl = c]) /\ [r EXCEPT !.line.ctl = c].edits = r.edits
  BY <1>2, CtlSet
<1>5. IsEngine(ApplyEvent(q, Finals(b), b)) /\ ApplyEvent(q, Finals(b), b).edits = r.edits
  BY <1>1, ApplySound
<1> QED
  BY <1>3, <1>4, <1>5, Zenon

LEMMA EnterSound ==
  ASSUME NEW r, IsEngine(r), NEW b
  PROVE  /\ IsEngine(Enter(r, b)) /\ Enter(r, b).mode = r.mode
         /\ Enter(r, b).edits = r.edits
<1> DEFINE q == Enter(r, b)
           s == IF b = "cr" THEN "nl" ELSE "cr"
<1>1. s \in {"none", "cr", "nl"}
  OBVIOUS
<1>2. q = [r EXCEPT !.swallow = s, !.len = 0]
  BY DEF Enter
<1> HIDE DEF s, q
<1>3. /\ q \in EngineRecords /\ q.mode = r.mode /\ q.line = r.line
      /\ q.history = r.history /\ q.edits = r.edits
  BY <1>1, <1>2 DEF IsEngine, EngineRecords
<1>4. IsEngine(q)
  BY <1>3, Zenon DEF IsEngine
<1> QED
  BY <1>3, <1>4 DEF q

\* A byte of a line that is there.
LEMMA EditByteSound ==
  ASSUME NEW r, IsEngine(r), r.mode = "edit", NEW b \in Bytes
  PROVE  IsEngine(EditByte(r, b)) /\ EditByte(r, b).edits = r.edits
<1> DEFINE q == Enter(r, b)
<1>1. IsEngine(q) /\ q.mode = "edit" /\ q.edits = r.edits
  BY EnterSound
<1>2. EditByte(r, b) \in
        {KeyByte(r, b), [r EXCEPT !.line.ctl = "esc"], ApplyEvent(r, "backspace", b),
         ApplyEvent(q, "submit", b), ApplyEvent(r, "tab", b), ExitLocalPrompt(r),
         ApplyEvent(r, "insert", b), r}
  BY DEF EditByte
<1> HIDE DEF q
<1>3. IsEngine(KeyByte(r, b)) /\ KeyByte(r, b).edits = r.edits
  BY KeySound
<1>4. IsEngine([r EXCEPT !.line.ctl = "esc"]) /\ [r EXCEPT !.line.ctl = "esc"].edits = r.edits
  BY CtlSet
<1>5. \A e : IsEngine(ApplyEvent(r, e, b)) /\ ApplyEvent(r, e, b).edits = r.edits
  BY ApplySound
<1>6. IsEngine(ApplyEvent(q, "submit", b)) /\ ApplyEvent(q, "submit", b).edits = r.edits
  BY <1>1, ApplySound
<1>7. IsEngine(ExitLocalPrompt(r)) /\ ExitLocalPrompt(r).edits = r.edits
  BY ExitSound
<1> QED
  BY <1>2, <1>3, <1>4, <1>5, <1>6, <1>7, Zenon

\* handle_remote_byte leaves the mode and the line alone.
LEMMA CountSound ==
  ASSUME NEW r, IsEngine(r), NEW b
  PROVE  /\ IsEngine(Count(r, b)) /\ Count(r, b).mode = r.mode
         /\ Count(r, b).edits = r.edits
<1> DEFINE Lens == {0, r.len + 1, IF r.len > 0 THEN r.len - 1 ELSE 0}
           Ansi == {"none", "esc", "csi", "osc", "oscesc"}
<1>1. Lens \subseteq Nat
  BY DEF IsEngine, EngineRecords
<1>2. \/ \E n \in Lens : Count(r, b) = [r EXCEPT !.len = n]
      \/ \E a \in Ansi : Count(r, b) = [r EXCEPT !.ansi = a]
  <2>1. r.ansi \in Ansi
    BY DEF IsEngine, EngineRecords
  <2>2. CASE r.ansi = "none"
    BY <2>2 DEF Count
  <2>3. CASE r.ansi = "esc"
    BY <2>3 DEF Count
  <2>4. CASE r.ansi = "csi"
    BY <2>4 DEF Count
  <2>5. CASE r.ansi = "osc"
    BY <2>5 DEF Count
  <2>6. CASE r.ansi = "oscesc"
    BY <2>6 DEF Count
  <2> QED
    BY <2>1, <2>2, <2>3, <2>4, <2>5, <2>6
<1>3. /\ Count(r, b) \in EngineRecords /\ Count(r, b).mode = r.mode
      /\ Count(r, b).line = r.line /\ Count(r, b).history = r.history
      /\ Count(r, b).edits = r.edits
  <2>1. CASE \E n \in Lens : Count(r, b) = [r EXCEPT !.len = n]
    BY <1>1, <2>1 DEF IsEngine, EngineRecords
  <2>2. CASE \E a \in Ansi : Count(r, b) = [r EXCEPT !.ansi = a]
    BY <2>2 DEF IsEngine, EngineRecords
  <2> QED
    BY <1>2, <2>1, <2>2
<1> QED
  BY <1>3, Zenon DEF IsEngine

LEMMA RemoteByteSound ==
  ASSUME NEW r, InCall(r), ~r.edits, NEW b
  PROVE  InCall(RemoteByte(r, b))
<1> DEFINE q == [r EXCEPT !.swallow = "none"]
           p == [q EXCEPT !.sends = TRUE]
           o == [q EXCEPT !.mode = "edit", !.line = NewEscape, !.edits = TRUE]
<1>1. r.mode = "remote" /\ IsEngine(r)
  BY DEF InCall, IsEngine
<1>2. /\ q \in EngineRecords /\ q.mode = "remote" /\ q.line = NoLine
      /\ q.history = r.history
  BY <1>1 DEF IsEngine, EngineRecords
<1>3. IsEngine(q)
  BY <1>1, <1>2, Zenon DEF IsEngine
<1>4. RemoteByte(r, b) \in {q, o, Count(p, b)}
  BY DEF RemoteByte
<1> HIDE DEF q
<1>5. /\ p \in EngineRecords /\ p.mode = "remote" /\ p.line = NoLine
      /\ p.history = q.history
  BY <1>2, <1>3 DEF IsEngine, EngineRecords
<1>6. IsEngine(p)
  BY <1>3, <1>5, Zenon DEF IsEngine
<1>7. /\ o \in EngineRecords /\ o.mode = "edit" /\ o.line = NewEscape
      /\ o.history = q.history /\ o.edits
  BY <1>2, <1>3, NewLines DEF IsEngine, EngineRecords, IsLine
<1>8. IsEngine(o)
  BY <1>3, <1>7, NewLines, Zenon DEF IsEngine
<1> HIDE DEF p, o
<1>9. IsEngine(Count(p, b)) /\ Count(p, b).mode = "remote"
  BY <1>5, <1>6, CountSound
<1> QED
  BY <1>2, <1>3, <1>4, <1>7, <1>8, <1>9 DEF InCall

\* A byte, whichever loop of process_local it falls to.
LEMMA ByteSound ==
  ASSUME NEW r, InCall(r), NEW b \in Bytes
  PROVE  InCall(ProcessByte(r, b))
<1>1. CASE ~r.edits
  BY <1>1, RemoteByteSound DEF ProcessByte
<1>2. CASE r.edits /\ r.line = NoLine
  <2> DEFINE q == [r EXCEPT !.mode = "remote"]
  <2>1. /\ q \in EngineRecords /\ q.mode = "remote" /\ q.line = NoLine
        /\ q.history = r.history
    BY <1>2 DEF InCall, IsEngine, EngineRecords
  <2>2. InCall(q)
    BY <2>1 DEF InCall, IsEngine
  <2> QED
    BY <1>2, <2>2 DEF ProcessByte
<1>3. CASE r.edits /\ r.line # NoLine
  <2>1. IsEngine(r) /\ r.mode = "edit"
    BY <1>3 DEF InCall, IsEngine
  <2>2. IsEngine(EditByte(r, b)) /\ EditByte(r, b).edits = r.edits
    BY <2>1, EditByteSound
  <2> QED
    BY <1>3, <2>2 DEF ProcessByte, InCall
<1> QED
  BY <1>1, <1>2, <1>3

-----------------------------------------------------------------------------
(***************************************************************************)
(* drive_session.  The actions that wait are there while one is handled,   *)
(* and the engine is sound between two bytes of a call as well.            *)
(***************************************************************************)
Waiting == {"action", "handle", "transfer"}
Places == {"select", "typing", "ended"} \cup Waiting

SessionInv ==
  /\ IsEngine(engine)
  /\ input \in Texts /\ extra \in Texts /\ queue \in Seq(Actions)
  /\ pc \in Places
  /\ pc = "typing" /\ input # <<>> => InCall(engine)
  /\ pc \in Waiting => queue # <<>>

LEMMA ChunkTexts ==
  ASSUME NEW chunk \in Chunks
  PROVE  chunk \in Texts
<1>1. chunk \in Seq(ToSet(chunk))
  BY TerminalAssumption
<1>2. ToSet(chunk) \subseteq Bytes
  BY DEF Bytes, Typed
<1> QED
  BY <1>1, <1>2, SeqMonotonic DEF Texts

LEMMA NewEngineSound == IsEngine(NewEngine)
<1>1. <<>> \in Texts /\ <<>> \in Seq(Texts) /\ <<>> \in Seq(Actions) /\ Len(<<>>) = 0
  BY EmptySeq DEF Texts
<1>2. IsHistory(NewHistory)
  BY <1>1, TerminalAssumption DEF IsHistory, HistoryRecords, NewHistory
<1>3. NewEngine \in EngineRecords
  BY <1>1, <1>2 DEF NewEngine, EngineRecords, Kinds, IsHistory
<1>4. /\ NewEngine.mode = "remote" /\ NewEngine.line = NoLine
      /\ \A k \in Kinds : NewEngine.history[k] = NewHistory
  BY DEF NewEngine, Kinds
<1> QED
  BY <1>2, <1>3, <1>4 DEF IsEngine

\* A call that begins: the engine is as sound as the one it is called on.
LEMMA CallsSound ==
  ASSUME NEW e, IsEngine(e), NEW chunk \in Texts, Calls(e, chunk)
  PROVE  /\ IsEngine(engine') /\ (input' # <<>> => InCall(engine'))
         /\ input' \in Texts /\ extra' \in Texts /\ pc' = "typing"
<1> DEFINE editing == chunk # <<>> /\ e.mode = "edit"
<1>1. editing \in BOOLEAN
  OBVIOUS
<1>2. engine' = [e EXCEPT !.sends = FALSE, !.acts = <<>>, !.edits = editing]
  BY DEF Calls
<1>3. <<>> \in Texts /\ <<>> \in Seq(Actions)
  BY EmptySeq DEF Texts
<1> HIDE DEF editing
<1>4. /\ engine' \in EngineRecords /\ engine'.mode = e.mode /\ engine'.line = e.line
      /\ engine'.history = e.history /\ engine'.edits = editing
  BY <1>1, <1>2, <1>3 DEF IsEngine, EngineRecords
<1>5. IsEngine(engine')
  BY <1>4, Zenon DEF IsEngine
<1>6. input' # <<>> => InCall(engine')
  BY <1>4, <1>5 DEF InCall, editing, Calls
<1> QED
  BY <1>3, <1>5, <1>6 DEF Calls

LEMMA EndsSound ==
  ASSUME NEW end, Ends(end)
  PROVE  SessionInv'
<1>1. IsEngine(engine')
  BY NewEngineSound DEF Ends
<1>2. input' \in Texts /\ extra' \in Texts /\ queue' \in Seq(Actions) /\ pc' = "ended"
  BY EmptySeq DEF Ends, Texts
<1> QED
  BY <1>1, <1>2 DEF SessionInv, Places, Waiting

LEMMA FinishesSound ==
  ASSUME SessionInv, pc \in Waiting, NEW e, IsEngine(e), NEW leave, Finishes(e, leave)
  PROVE  SessionInv'
<1>1. /\ IsEngine(engine') /\ (input' # <<>> => InCall(engine'))
      /\ input' \in Texts /\ extra' \in Texts /\ pc' = "typing"
  BY CallsSound DEF Finishes, SessionInv
<1>2. queue' \in Seq(Actions)
  BY HeadTailProperties DEF Finishes, SessionInv
<1> QED
  BY <1>1, <1>2 DEF SessionInv, Places, Waiting

\* Completion leaves a line with its cursor inside it, or no line at all.
LEMMA CompletedLine ==
  ASSUME NEW r, IsEngine(r), NEW l \in CompleteLine(r.line)
  PROVE  IsEngine([r EXCEPT !.line = l])
<1>1. CASE r.mode = "remote"
  <2>1. r.line = NoLine
    BY <1>1 DEF IsEngine
  <2>2. Partial(NoLine) # NoLine.text /\ Keyword(NoLine) # NoLine.text
    <3>1. Len(<<"pu">>) # Len(<<>>) /\ Len(<<"put">>) # Len(<<>>)
      OBVIOUS
    <3> QED
      BY <3>1 DEF Partial, Keyword, NoLine
  <2>3. l = r.line
    BY <2>1, <2>2 DEF CompleteLine
  <2>4. [r EXCEPT !.line = l] = r
    BY <2>3 DEF IsEngine, EngineRecords
  <2> QED
    BY <2>4
<1>2. CASE r.mode = "edit"
  <2>1. IsLine(r.line) /\ r.line.text \in Texts /\ Len(r.line.text) \in Nat
    BY <1>2, LenProperties DEF IsEngine, IsLine, LineRecords, Texts
  <2>2. Keyword(r.line) \in Texts /\ Len(Keyword(r.line)) \in Nat
    <3>1. "~" \in Bytes /\ "put" \in Bytes
      BY DEF Bytes
    <3>2. <<"~", "put">> \in Seq(Bytes) /\ <<"put">> \in Seq(Bytes)
      BY <3>1
    <3>3. Keyword(r.line) \in Seq(Bytes)
      BY <3>2 DEF Keyword
    <3> QED
      BY <3>3, LenProperties DEF Texts
  <2>3. /\ IsLine(Put(r.line, Keyword(r.line), Len(Keyword(r.line))))
        /\ IsLine(Put(r.line, r.line.text, Len(r.line.text)))
    BY <2>1, <2>2, PutLine
  <2>4. l \in {Put(r.line, Keyword(r.line), Len(Keyword(r.line))), r.line,
               Put(r.line, r.line.text, Len(r.line.text))}
    BY DEF CompleteLine, CompleteKeyword, CompletePath
  <2>5. IsLine(l)
    BY <2>1, <2>3, <2>4, Zenon
  <2> QED
    BY <1>2, <2>5, LineSet
<1> QED
  BY <1>1, <1>2 DEF IsEngine

LEMMA SessionInit == Init => SessionInv
<1>1. <<>> \in Texts /\ <<>> \in Seq(Actions)
  BY EmptySeq DEF Texts
<1> QED
  BY <1>1, NewEngineSound DEF Init, SessionInv, Places, Waiting

LEMMA SessionStep == SessionInv /\ [Next]_vars => SessionInv'
<1> SUFFICES ASSUME SessionInv, [Next]_vars PROVE SessionInv'
  OBVIOUS
<1>1. ASSUME NEW chunk \in Chunks, StdinData(chunk) PROVE SessionInv'
  <2>1. /\ IsEngine(engine') /\ (input' # <<>> => InCall(engine'))
        /\ input' \in Texts /\ extra' \in Texts /\ pc' = "typing"
    BY <1>1, CallsSound, ChunkTexts DEF StdinData, SessionInv
  <2>2. queue' \in Seq(Actions)
    BY <1>1 DEF StdinData, SessionInv
  <2> QED
    BY <2>1, <2>2 DEF SessionInv, Places, Waiting
<1>2. CASE ProcessLocal
  <2>1. Head(input) \in Bytes /\ Tail(input) \in Texts
    BY <1>2, HeadTailProperties DEF ProcessLocal, SessionInv, Texts
  <2>2. InCall(engine)
    BY <1>2 DEF ProcessLocal, SessionInv
  <2>3. InCall(ProcessByte(engine, Head(input)))
    BY <2>1, <2>2, ByteSound
  <2>4. InCall(engine') /\ IsEngine(engine') /\ input' \in Texts
    BY <1>2, <2>1, <2>3 DEF ProcessLocal, InCall
  <2> QED
    BY <1>2, <2>4 DEF ProcessLocal, SessionInv
<1>3. CASE Processed
  <2>1. CASE \E end : Ends(end)
    BY <2>1, EndsSound
  <2>2. CASE /\ ~leaving
             /\ queue' = queue \o engine.acts
             /\ pc' = IF queue' = <<>> THEN "select" ELSE "action"
             /\ engine' = [engine EXCEPT !.sends = FALSE, !.acts = <<>>, !.edits = FALSE]
             /\ UNCHANGED <<input, extra, leaving, result>>
    <3>1. <<>> \in Seq(Actions)
      BY EmptySeq
    <3>2. /\ engine' \in EngineRecords /\ engine'.mode = engine.mode /\ engine'.line = engine.line
          /\ engine'.history = engine.history
      BY <2>2, <3>1 DEF SessionInv, IsEngine, EngineRecords
    <3>3. IsEngine(engine')
      BY <3>2, Zenon DEF SessionInv, IsEngine
    <3>4. engine.acts \in Seq(Actions)
      BY DEF SessionInv, IsEngine, EngineRecords
    <3>5. queue' \in Seq(Actions)
      BY <2>2, <3>4, ConcatProperties DEF SessionInv
    <3>6. input' \in Texts /\ extra' \in Texts
      BY <2>2 DEF SessionInv
    <3>7. pc' \in {"select", "action"} /\ (pc' = "action" => queue' # <<>>)
      BY <2>2
    <3> QED
      BY <3>3, <3>5, <3>6, <3>7 DEF SessionInv, Places, Waiting
  <2> QED
    BY <1>3, <2>1, <2>2 DEF Processed, FailsHard
<1>4. CASE StdinEnds \/ RemoteClosed
  BY <1>4, EndsSound DEF StdinEnds, RemoteClosed
<1>5. ASSUME FailsHard PROVE SessionInv'
  BY <1>5, EndsSound DEF FailsHard
<1>6. CASE RemoteCloses
  BY <1>6 DEF RemoteCloses, SessionInv, local
<1>7. ASSUME NEW chunk \in Texts, QueryCpr(chunk) PROVE SessionInv'
  BY <1>7 DEF QueryCpr, SessionInv, Places, Waiting
<1>8. ASSUME NEW newline \in BOOLEAN, RemoteData(newline) PROVE SessionInv'
  <2>1. CASE /\ engine' \in {engine, [engine EXCEPT !.len = 0]}
             /\ UNCHANGED <<input, extra, queue, pc, leaving, result>>
    <3>1. IsEngine(engine) /\ 0 \in Nat
      BY DEF SessionInv
    <3>2. IsEngine([engine EXCEPT !.len = 0])
      BY <3>1, LenSet
    <3>3. IsEngine(engine')
      BY <2>1, <3>1, <3>2, Zenon
    <3>4. pc = "select"
      BY <1>8 DEF RemoteData
    <3> QED
      BY <2>1, <3>3, <3>4 DEF SessionInv, Places, Waiting
  <2> QED
    BY <1>5, <1>8, <2>1 DEF RemoteData
<1>9. ASSUME pc \in Waiting, \E leave \in BOOLEAN : Finishes(engine, leave) PROVE SessionInv'
  BY <1>9, FinishesSound DEF SessionInv
<1>10. CASE PrintAction \/ SendAction \/ LeaveAction
  BY <1>5, <1>9, <1>10, Zenon DEF PrintAction, SendAction, LeaveAction, Act, Waiting
<1>11. CASE CompleteAction
  <2>1. ASSUME NEW l \in CompleteLine(engine.line), Finishes([engine EXCEPT !.line = l], FALSE)
        PROVE  SessionInv'
    <3>1. IsEngine([engine EXCEPT !.line = l])
      BY CompletedLine DEF SessionInv
    <3>2. pc \in Waiting
      BY <1>11 DEF CompleteAction, Act, Waiting
    <3> QED
      BY <2>1, <3>1, <3>2, FinishesSound
  <2> QED
    BY <1>5, <1>11, <2>1 DEF CompleteAction
<1>12. ASSUME pc = "handle", Resolves PROVE SessionInv'
  <2>1. CASE pc' = "transfer" /\ UNCHANGED <<engine, input, extra, queue, leaving, result, held, shown>>
    BY <1>12, <2>1 DEF SessionInv, Places, Waiting
  <2> QED
    BY <1>5, <1>12, <2>1 DEF Resolves
<1>13. CASE PutAction \/ GetAction
  BY <1>9, <1>12, <1>13, Zenon DEF PutAction, GetAction, Act, Waiting
<1>14. CASE TransferEnds
  BY <1>5, <1>9, <1>14, Zenon DEF TransferEnds, Waiting
<1>15. ASSUME NEW chunk \in Chunks, TransferTyped(chunk) PROVE SessionInv'
  <2>1. CASE UNCHANGED <<local, held, shown>>
    BY <2>1 DEF SessionInv, local
  <2> QED
    BY <1>5, <1>15, <2>1 DEF TransferTyped
<1>16. CASE UNCHANGED vars
  BY <1>16 DEF vars, local, SessionInv
<1>17. <<>> \in Texts
  BY EmptySeq DEF Texts
<1>18. CASE RemoteStderr
  <2>1. CASE UNCHANGED <<local, held>>
    BY <2>1 DEF SessionInv, local
  <2> QED
    BY <1>5, <1>18, <2>1 DEF RemoteStderr
<1> QED
  BY <1>1, <1>2, <1>3, <1>4, <1>6, <1>7, <1>8, <1>10, <1>11, <1>13, <1>14, <1>15, <1>16, <1>17,
     <1>18, ChunkTexts DEF Next, Step

LEMMA SessionSound == SessionInv => EditorSound
<1> SUFFICES ASSUME SessionInv PROVE EditorSound
  OBVIOUS
<1>1. /\ engine \in EngineRecords /\ \A k \in Kinds : IsHistory(engine.history[k])
      /\ (engine.mode = "edit" /\ IsLine(engine.line)) \/ (engine.mode = "remote" /\ engine.line = NoLine)
  BY DEF SessionInv, IsEngine
<1>2. TypeOK
  <2>1. engine.line.kind \in {"none", "escape", "prompt"}
    BY <1>1 DEF IsLine, LineRecords, Kinds, NoLine
  <2> QED
    BY <1>1, <2>1 DEF TypeOK, EngineRecords, SessionInv, Places, Waiting
<1>3. (engine.mode = "edit") <=> (engine.line # NoLine)
  BY <1>1, LineIsSome
<1>4. engine.line.cursor \in 0 .. Len(engine.line.text)
  <2>1. CASE IsLine(engine.line)
    BY <2>1, LenProperties DEF IsLine, LineRecords, Texts
  <2>2. CASE engine.line = NoLine
    <3>1. NoLine.cursor = 0 /\ NoLine.text = <<>> /\ Len(<<>>) = 0
      BY EmptySeq DEF NoLine
    <3> QED
      BY <2>2, <3>1
  <2> QED
    BY <1>1, <2>1, <2>2
<1>5. \A k \in {"escape", "prompt"} :
        /\ engine.history[k].index \in 0 .. Len(engine.history[k].entries)
        /\ Len(engine.history[k].entries) <= MaxHistory
  <2> SUFFICES ASSUME NEW k \in Kinds
               PROVE  /\ engine.history[k].index \in 0 .. Len(engine.history[k].entries)
                      /\ Len(engine.history[k].entries) <= MaxHistory
    BY DEF Kinds
  <2> DEFINE h == engine.history[k]
  <2>1. IsHistory(h)
    BY <1>1
  <2> HIDE DEF h
  <2>2. h.index \in 0 .. Len(h.entries) /\ Len(h.entries) <= MaxHistory
    BY <2>1, LenProperties DEF IsHistory, HistoryRecords
  <2> QED
    BY <2>2 DEF h
<1> QED
  BY <1>2, <1>3, <1>4, <1>5 DEF EditorSound

\* EditorSound for every chunking of every input: process_local, LineEditor and
\* CommandHistory keep mode, line, cursor and history pointer together.
THEOREM EditorStaysSound == Spec => []EditorSound
BY SessionInit, SessionStep, SessionSound, PTL DEF Spec

-----------------------------------------------------------------------------
(***************************************************************************)
(* The output.  Until an error ends it a session has every piece of output *)
(* in one place, whichever way an action ends; nothing arrives afterwards. *)
(***************************************************************************)
Exact(n) == ToSet(shown) \cup ToSet(held) = 1 .. n /\ Len(shown) + Len(held) = n

OutputInv ==
  /\ shown \in Seq(Nat) /\ held \in Seq(Nat) /\ arrived \in Nat
  /\ pc # "ended" => Exact(arrived)
  /\ OutputKept

\* Writing what is held back moves it, and loses or repeats nothing.
LEMMA ShownSound ==
  ASSUME shown \in Seq(Nat), held \in Seq(Nat), NEW n \in Nat, Exact(n),
         \/ shown' = shown \o held /\ held' = <<>>
         \/ UNCHANGED <<held, shown>>
  PROVE  /\ shown' \in Seq(Nat) /\ held' \in Seq(Nat)
         /\ ToSet(shown') \cup ToSet(held') = 1 .. n
         /\ Len(shown') + Len(held') = n
<1>1. CASE shown' = shown \o held /\ held' = <<>>
  <2>1. shown' \in Seq(Nat) /\ Len(shown') = Len(shown) + Len(held)
    BY <1>1, ConcatProperties
  <2>2. held' \in Seq(Nat) /\ Len(held') = 0
    BY <1>1, EmptySeq
  <2>3. ToSet(shown') = ToSet(shown) \cup ToSet(held)
    BY <1>1, JoinedSet
  <2>4. ToSet(held') = {}
    <3>1. DOMAIN held' = {}
      BY <1>1
    <3> QED
      BY <3>1 DEF ToSet
  <2>5. Len(shown') \in Nat /\ Len(shown) \in Nat /\ Len(held) \in Nat
    BY <2>1, LenProperties
  <2>6. Len(shown') + Len(held') = n
    BY <2>1, <2>2, <2>5 DEF Exact
  <2>7. ToSet(shown') \cup ToSet(held') = 1 .. n
    BY <2>3, <2>4 DEF Exact
  <2> QED
    BY <2>1, <2>2, <2>6, <2>7
<1>2. CASE UNCHANGED <<held, shown>>
  BY <1>2 DEF Exact
<1> QED
  BY <1>1, <1>2

\* One more piece, at the end of either place.
LEMMA PieceSound ==
  ASSUME shown \in Seq(Nat), held \in Seq(Nat), arrived \in Nat, Exact(arrived),
         arrived' = arrived + 1,
         \/ held' = Append(held, arrived') /\ UNCHANGED shown
         \/ shown' = Append(shown, arrived') /\ UNCHANGED held
  PROVE  shown' \in Seq(Nat) /\ held' \in Seq(Nat) /\ arrived' \in Nat /\ Exact(arrived)'
<1> DEFINE n == arrived + 1
<1>1. n \in Nat /\ arrived' = n /\ 1 .. n = (1 .. arrived) \cup {n}
  OBVIOUS
<1>2. Len(shown) \in Nat /\ Len(held) \in Nat /\ Len(shown) + Len(held) = arrived
  BY LenProperties DEF Exact
<1> HIDE DEF n
<1>3. CASE held' = Append(held, n) /\ UNCHANGED shown
  <2>1. held' \in Seq(Nat) /\ Len(held') = Len(held) + 1
    BY <1>1, <1>3, AppendProperties
  <2>2. ToSet(held') = ToSet(held) \cup {n}
    BY <1>1, <1>3, AppendedSet
  <2>3. ToSet(shown') \cup ToSet(held') = 1 .. arrived'
    BY <1>1, <1>3, <2>2 DEF Exact
  <2>4. Len(shown') = Len(shown)
    BY <1>3
  <2>5. Len(shown') + Len(held') = arrived'
    <3>1. Len(shown') + Len(held') = Len(shown) + Len(held) + 1
      BY <1>2, <2>1, <2>4
    <3> QED
      BY <1>1, <1>2, <3>1 DEF n
  <2> QED
    BY <1>1, <1>3, <2>1, <2>3, <2>5 DEF Exact
<1>4. CASE shown' = Append(shown, n) /\ UNCHANGED held
  <2>1. shown' \in Seq(Nat) /\ Len(shown') = Len(shown) + 1
    BY <1>1, <1>4, AppendProperties
  <2>2. ToSet(shown') = ToSet(shown) \cup {n}
    BY <1>1, <1>4, AppendedSet
  <2>3. ToSet(shown') \cup ToSet(held') = 1 .. arrived'
    BY <1>1, <1>4, <2>2 DEF Exact
  <2>4. Len(held') = Len(held)
    BY <1>4
  <2>5. Len(shown') + Len(held') = arrived'
    <3>1. Len(shown') + Len(held') = Len(shown) + Len(held) + 1
      BY <1>2, <2>1, <2>4
    <3> QED
      BY <1>1, <1>2, <3>1 DEF n
  <2> QED
    BY <1>1, <1>4, <2>1, <2>3, <2>5 DEF Exact
<1> QED
  BY <1>1, <1>3, <1>4

LEMMA OutputStep == OutputInv /\ [Next]_vars => OutputInv'
<1> SUFFICES ASSUME OutputInv, [Next]_vars PROVE OutputInv'
  OBVIOUS
<1> DEFINE Moved == \/ shown' = shown \o held /\ held' = <<>>
                    \/ UNCHANGED <<held, shown>>
<1>1. ASSUME pc # "ended", UNCHANGED arrived, Moved PROVE OutputInv'
  <2>1. shown \in Seq(Nat) /\ held \in Seq(Nat) /\ arrived \in Nat /\ Exact(arrived)
    BY <1>1 DEF OutputInv
  <2>2. /\ shown' \in Seq(Nat) /\ held' \in Seq(Nat)
        /\ ToSet(shown') \cup ToSet(held') = 1 .. arrived
        /\ Len(shown') + Len(held') = arrived
    BY <1>1, <2>1, ShownSound
  <2> QED
    BY <1>1, <2>1, <2>2 DEF OutputInv, OutputKept, Exact
<1>2. ASSUME pc # "ended", arrived' = arrived + 1,
             \/ held' = Append(held, arrived') /\ UNCHANGED shown
             \/ shown' = Append(shown, arrived') /\ UNCHANGED held
      PROVE  OutputInv'
  <2>1. shown' \in Seq(Nat) /\ held' \in Seq(Nat) /\ arrived' \in Nat /\ Exact(arrived)'
    BY <1>2, PieceSound DEF OutputInv
  <2> QED
    BY <2>1 DEF OutputInv, OutputKept, Exact
<1>3. ASSUME pc # "ended", arrived' = arrived + 1, FailsHard PROVE OutputInv'
  <2>1. UNCHANGED <<held, shown>> /\ pc' = "ended" /\ result' = "error"
    BY <1>3 DEF FailsHard, Ends
  <2>2. arrived \in Nat /\ arrived' \in Nat /\ arrived = arrived' - 1 /\ Exact(arrived)
    BY <1>3 DEF OutputInv
  <2>3. /\ arrived' - 1 \in {arrived', arrived' - 1}
        /\ ToSet(shown') \cup ToSet(held') = 1 .. (arrived' - 1)
        /\ Len(shown') + Len(held') = arrived' - 1
    BY <2>1, <2>2 DEF Exact
  <2>4. OutputKept'
    BY <2>1, <2>3 DEF OutputKept
  <2> QED
    BY <2>1, <2>2, <2>4 DEF OutputInv
<1>4. ASSUME FailsHard PROVE Moved
  BY <1>4 DEF FailsHard
<1>5. ASSUME Flush PROVE Moved
  BY <1>5 DEF Flush
<1>6. ASSUME NEW newline \in BOOLEAN, RemoteData(newline) PROVE OutputInv'
  BY <1>2, <1>3, <1>6 DEF RemoteData
<1>7. CASE RemoteStderr
  BY <1>2, <1>3, <1>7 DEF RemoteStderr
<1>8. ASSUME NEW chunk \in Chunks, StdinData(chunk) PROVE OutputInv'
  BY <1>1, <1>8 DEF StdinData, output
<1>9. CASE ProcessLocal
  BY <1>1, <1>9 DEF ProcessLocal, output
<1>10. CASE Processed
  BY <1>1, <1>10 DEF Processed, output
<1>11. CASE StdinEnds \/ RemoteClosed
  BY <1>1, <1>11 DEF StdinEnds, RemoteClosed, output
<1>12. CASE RemoteCloses
  BY <1>1, <1>12 DEF RemoteCloses, output
<1>13. ASSUME NEW chunk, QueryCpr(chunk) PROVE OutputInv'
  BY <1>1, <1>13 DEF QueryCpr, output
<1>14. UNCHANGED <<held, shown>> => Moved
  OBVIOUS
<1>15. "handle" # "ended" /\ "transfer" # "ended"
  OBVIOUS
<1> HIDE DEF Moved
<1>16. CASE PrintAction
  BY <1>1, <1>4, <1>5, <1>15, <1>16, Zenon DEF PrintAction, Act
<1>17. CASE SendAction \/ LeaveAction
  BY <1>1, <1>4, <1>14, <1>15, <1>17, Zenon DEF SendAction, LeaveAction, Act
<1>18. CASE CompleteAction
  BY <1>1, <1>4, <1>14, <1>15, <1>18, Zenon DEF CompleteAction, Act
<1>19. ASSUME Resolves PROVE Moved
  <2>1. CASE UNCHANGED <<engine, input, extra, queue, leaving, result, held, shown>>
    BY <1>14, <2>1
  <2> QED
    BY <1>4, <1>19, <2>1 DEF Resolves
<1>20. CASE PutAction \/ GetAction
  BY <1>1, <1>5, <1>15, <1>19, <1>20, Zenon DEF PutAction, GetAction, Act
<1>21. CASE TransferEnds
  BY <1>1, <1>4, <1>5, <1>15, <1>21, Zenon DEF TransferEnds
<1>22. ASSUME NEW chunk \in Chunks, TransferTyped(chunk) PROVE OutputInv'
  <2>1. Moved
    BY <1>4, <1>14, <1>22 DEF TransferTyped
  <2> QED
    BY <1>1, <1>15, <1>22, <2>1 DEF TransferTyped
<1>23. CASE UNCHANGED vars
  BY <1>23 DEF vars, local, output, OutputInv, OutputKept, Exact
<1> QED
  BY <1>6, <1>7, <1>8, <1>9, <1>10, <1>11, <1>12, <1>13, <1>16, <1>17, <1>18, <1>20, <1>21,
     <1>22, <1>23 DEF Next, Step

\* OutputKept for every amount of output and every way the session goes:
\* drive_session and handle_action neither lose nor repeat remote output, but
\* for the piece whose writing failed and ended the session.
THEOREM OutputStays == Spec => []OutputKept
<1>1. Init => OutputInv
  <2> SUFFICES ASSUME Init PROVE OutputInv
    OBVIOUS
  <2>1. shown \in Seq(Nat) /\ held \in Seq(Nat) /\ Len(shown) = 0 /\ Len(held) = 0
    BY EmptySeq DEF Init
  <2>2. ToSet(shown) = {} /\ ToSet(held) = {}
    <3>1. DOMAIN shown = {} /\ DOMAIN held = {}
      BY DEF Init
    <3> QED
      BY <3>1 DEF ToSet
  <2>3. arrived = 0 /\ Exact(0)
    BY <2>1, <2>2 DEF Init, Exact
  <2> QED
    BY <2>1, <2>3 DEF OutputInv, OutputKept, Exact
<1>2. OutputInv => OutputKept
  BY DEF OutputInv
<1> QED
  BY <1>1, <1>2, OutputStep, PTL DEF Spec
=============================================================================
