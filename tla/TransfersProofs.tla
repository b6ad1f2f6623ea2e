-------------------------- MODULE TransfersProofs --------------------------
(***************************************************************************)
(* What transfers leave behind, for any number of them, any sizes and any  *)
(* room in the streams: whole files or what was there (WholeFiles), part   *)
(* files only where a receiver is at work, success only when everything is *)
(* saved, answers only about places the shell was in (TransfersSound), and *)
(* old files untouched by puts (PutsKeepOld).                              *)
(***************************************************************************)
EXTENDS Transfers, SequenceTheorems, TLAPS

-----------------------------------------------------------------------------
(***************************************************************************)
(* The protocol between the two sides of a transfer, as places in its      *)
(* stream of frames: before everything, in front of a file of a directory, *)
(* or after c chunks of file e.  The sender is at the place where the next *)
(* frame goes, the receiver where the next one comes from, and the frames  *)
(* under way lead from one to the other.                                   *)
(***************************************************************************)
Places == [ph : {"start", "top", "body"}, e : Nat, c : Nat]
AtTop(a, e) == a.ph = "top" /\ a.e = e
AtBody(a, e, c) == a.ph = "body" /\ a.e = e /\ a.c = c
AtFirst(t, a) == IF t \in Recursive THEN AtTop(a, 1) ELSE AtBody(a, 1, 0)

Opening(t) == IF t \in Puts THEN "request" ELSE "ready"

\* frame f leads from a to b, if the sender of t saw the sizes l
Leads(t, l, a, f, b) ==
  \/ /\ f.kind = Opening(t) /\ a.ph = "start" /\ AtFirst(t, b)
     /\ f.n = IF t \in Recursive THEN 0 ELSE l[1]
  \/ /\ f.kind = "entry" /\ t \in Recursive /\ a.ph = "top" /\ a.e \in Entries(t)
     /\ f.n = l[a.e] /\ AtBody(b, a.e, 0)
  \/ f.kind = "chunk" /\ a.ph = "body" /\ a.c < MaxSize /\ AtBody(b, a.e, a.c + 1)
  \/ /\ f.kind = "entry_end" /\ t \in Recursive /\ a.ph = "body" /\ a.e \in Entries(t)
     /\ AtTop(b, a.e + 1)
  \/ f.kind = "complete" /\ (t \in Recursive => AtTop(a, Len(Dest[t]) + 1))
  \/ f.kind = "error"

\* a is where sender s is; one that sends no more may be anywhere
SndAt(t, s, a) ==
  /\ s.pc = "new" => a.ph = "start"
  /\ s.pc = "request" => AtFirst(t, a)
  /\ s.pc = "header" => AtTop(a, s.entry)
  /\ s.pc = "sending" => AtBody(a, s.entry, s.count)

\* a is where receiver r is; one that reads no more may be anywhere
RcvAt(t, r, a) ==
  /\ r.pc \in {"new", "request"} => a.ph = "start"
  /\ r.pc \in {"check", "open", "receive"} => AtBody(a, r.entry, r.count)
  /\ r.pc = "top" => AtTop(a, r.entry)
  /\ r.pc = "commit" /\ t \in Recursive => AtTop(a, r.entry + 1)

Path(t, s, r, q, l) ==
  \E p \in [0 .. Len(q) -> Places] :
    /\ RcvAt(t, r, p[0]) /\ SndAt(t, s, p[Len(q)])
    /\ \A i \in 1 .. Len(q) : Leads(t, l, p[i - 1], q[i], p[i])

\* A frame more: the path goes on to where the sender is then.
LEMMA PathAppend ==
  ASSUME NEW t, NEW s, NEW s2, NEW r, NEW q \in Seq(Frames), NEW l, NEW f \in Frames,
         Path(t, s, r, q, l),
         \A a \in Places : SndAt(t, s, a) =>
           \E b \in Places : Leads(t, l, a, f, b) /\ SndAt(t, s2, b)
  PROVE  Path(t, s2, r, Append(q, f), l)
<1> DEFINE n == Len(q)
           q2 == Append(q, f)
<1>1. PICK p \in [0 .. n -> Places] :
        /\ RcvAt(t, r, p[0]) /\ SndAt(t, s, p[n])
        /\ \A i \in 1 .. n : Leads(t, l, p[i - 1], q[i], p[i])
  BY Zenon DEF Path
<1>2. n \in Nat
  BY LenProperties
<1>3. p[n] \in Places
  BY <1>1, <1>2
<1>4. PICK b \in Places : Leads(t, l, p[n], f, b) /\ SndAt(t, s2, b)
  BY <1>1, <1>3, Zenon
<1> DEFINE p2 == [i \in 0 .. n + 1 |-> IF i = n + 1 THEN b ELSE p[i]]
<1>5. /\ Len(q2) = n + 1 /\ q2[n + 1] = f
      /\ \A i \in 1 .. n : q2[i] = q[i]
  BY AppendProperties
<1>6. p2 \in [0 .. n + 1 -> Places]
  BY <1>2
<1>7. p2[0] = p[0] /\ p2[n + 1] = b /\ \A i \in 0 .. n : p2[i] = p[i]
  BY <1>2
<1> HIDE DEF p2, q2, n
<1>8. \A i \in 1 .. n + 1 : Leads(t, l, p2[i - 1], q2[i], p2[i])
  <2> SUFFICES ASSUME NEW i \in 1 .. n + 1 PROVE Leads(t, l, p2[i - 1], q2[i], p2[i])
    OBVIOUS
  <2>1. CASE i = n + 1
    <3>1. p2[i - 1] = p[n] /\ p2[i] = b /\ q2[i] = f
      BY <1>2, <1>5, <1>7, <2>1
    <3> QED
      BY <1>4, <3>1
  <2>2. CASE i # n + 1
    <3>1. i \in 1 .. n /\ p2[i - 1] = p[i - 1] /\ p2[i] = p[i] /\ q2[i] = q[i]
      BY <1>2, <1>5, <1>7, <2>2
    <3> QED
      BY <1>1, <3>1
  <2> QED
    BY <2>1, <2>2
<1>9. RcvAt(t, r, p2[0]) /\ SndAt(t, s2, p2[n + 1])
  BY <1>1, <1>4, <1>7
<1>10. \E x \in [0 .. Len(q2) -> Places] :
         /\ RcvAt(t, r, x[0]) /\ SndAt(t, s2, x[Len(q2)])
         /\ \A i \in 1 .. Len(q2) : Leads(t, l, x[i - 1], q2[i], x[i])
  BY <1>5, <1>6, <1>8, <1>9, Zenon
<1> QED
  BY <1>10 DEF Path, q2

\* The frame the receiver reads leads on from where it is.
LEMMA PathHead ==
  ASSUME NEW t, NEW s, NEW r, NEW q \in Seq(Frames), q # <<>>, NEW l, Path(t, s, r, q, l)
  PROVE  \E a, b \in Places : RcvAt(t, r, a) /\ Leads(t, l, a, Head(q), b)
<1> DEFINE n == Len(q)
<1>1. PICK p \in [0 .. n -> Places] :
        /\ RcvAt(t, r, p[0]) /\ SndAt(t, s, p[n])
        /\ \A i \in 1 .. n : Leads(t, l, p[i - 1], q[i], p[i])
  BY Zenon DEF Path
<1>2. n \in Nat /\ n >= 1 /\ Head(q) = q[1]
  BY EmptySeq, LenProperties
<1> HIDE DEF n
<1>3. p[0] \in Places /\ p[1] \in Places /\ 1 \in 1 .. n /\ 1 - 1 = 0
  BY <1>2
<1>4. RcvAt(t, r, p[0]) /\ Leads(t, l, p[0], Head(q), p[1])
  BY <1>1, <1>2, <1>3
<1> QED
  BY <1>3, <1>4, Zenon

\* A frame less: the path begins where the receiver is then.
LEMMA PathTail ==
  ASSUME NEW t, NEW s, NEW r, NEW r2, NEW q \in Seq(Frames), q # <<>>, NEW l,
         Path(t, s, r, q, l),
         \A a, b \in Places : RcvAt(t, r, a) /\ Leads(t, l, a, Head(q), b) => RcvAt(t, r2, b)
  PROVE  Path(t, s, r2, Tail(q), l)
<1> DEFINE n == Len(q)
           q2 == Tail(q)
<1>1. PICK p \in [0 .. n -> Places] :
        /\ RcvAt(t, r, p[0]) /\ SndAt(t, s, p[n])
        /\ \A i \in 1 .. n : Leads(t, l, p[i - 1], q[i], p[i])
  BY Zenon DEF Path
<1>2. n \in Nat /\ n >= 1 /\ Head(q) = q[1]
  BY EmptySeq, LenProperties
<1>3. Len(q2) = n - 1 /\ \A i \in 1 .. n - 1 : q2[i] = q[i + 1]
  BY <1>2, HeadTailProperties
<1> DEFINE p2 == [i \in 0 .. n - 1 |-> p[i + 1]]
<1>4. p2 \in [0 .. n - 1 -> Places]
  BY <1>2
<1>5. p2[0] = p[1] /\ p2[n - 1] = p[n] /\ \A i \in 0 .. n - 1 : p2[i] = p[i + 1]
  BY <1>2
<1> HIDE DEF p2, q2, n
<1>6. \A i \in 1 .. n - 1 : Leads(t, l, p2[i - 1], q2[i], p2[i])
  <2> SUFFICES ASSUME NEW i \in 1 .. n - 1 PROVE Leads(t, l, p2[i - 1], q2[i], p2[i])
    OBVIOUS
  <2>1. /\ p2[i - 1] = p[i] /\ p2[i] = p[i + 1] /\ q2[i] = q[i + 1]
        /\ i + 1 \in 1 .. n /\ (i + 1) - 1 = i
    BY <1>2, <1>3, <1>5
  <2> QED
    BY <1>1, <2>1
<1>7. RcvAt(t, r2, p2[0])
  <2>1. p[0] \in Places /\ p[1] \in Places /\ 1 \in 1 .. n /\ 1 - 1 = 0
    BY <1>2
  <2>2. RcvAt(t, r, p[0]) /\ Leads(t, l, p[0], Head(q), p[1])
    BY <1>1, <1>2, <2>1
  <2>3. RcvAt(t, r2, p[1])
    BY <2>1, <2>2, Zenon
  <2> QED
    BY <1>5, <2>3
<1>8. SndAt(t, s, p2[n - 1])
  BY <1>1, <1>5
<1>9. \E x \in [0 .. Len(q2) -> Places] :
         /\ RcvAt(t, r2, x[0]) /\ SndAt(t, s, x[Len(q2)])
         /\ \A i \in 1 .. Len(q2) : Leads(t, l, x[i - 1], q2[i], x[i])
  BY <1>3, <1>4, <1>6, <1>7, <1>8, Zenon
<1> QED
  BY <1>9 DEF Path, q2

\* The sides may move without a frame as long as their places stay.
LEMMA PathMove ==
  ASSUME NEW t, NEW s, NEW s2, NEW r, NEW r2, NEW q \in Seq(Frames), NEW l, NEW l2,
         Path(t, s, r, q, l),
         \A a \in Places : SndAt(t, s, a) => SndAt(t, s2, a),
         \A a \in Places : RcvAt(t, r, a) => RcvAt(t, r2, a),
         \A i \in 1 .. Len(q), a, b \in Places : Leads(t, l, a, q[i], b) => Leads(t, l2, a, q[i], b)
  PROVE  Path(t, s2, r2, q, l2)
<1> DEFINE n == Len(q)
<1>1. PICK p \in [0 .. n -> Places] :
        /\ RcvAt(t, r, p[0]) /\ SndAt(t, s, p[n])
        /\ \A i \in 1 .. n : Leads(t, l, p[i - 1], q[i], p[i])
  BY Zenon DEF Path
<1>2. n \in Nat
  BY LenProperties
<1>3. 0 \in 0 .. n /\ n \in 0 .. n /\ \A i \in 1 .. n : i \in 0 .. n /\ i - 1 \in 0 .. n
  BY <1>2
<1>4. p[0] \in Places /\ p[n] \in Places /\ \A i \in 1 .. n : p[i] \in Places /\ p[i - 1] \in Places
  BY <1>3
<1>5. RcvAt(t, r2, p[0]) /\ SndAt(t, s2, p[n])
  BY <1>1, <1>4, Zenon
<1>6. \A i \in 1 .. n : Leads(t, l2, p[i - 1], q[i], p[i])
  BY <1>1, <1>4, Zenon
<1> QED
  BY <1>5, <1>6, Zenon DEF Path

-----------------------------------------------------------------------------
(***************************************************************************)
(* The inductive invariant.                                                *)
(***************************************************************************)
AskPlaces == {"dispatched", "path_exists", "is_dir", "find", "answer"} \cup AskKinds
SndPlaces == {"new", "request", "header", "sending", "confirm"} \cup Ended
RcvPlaces == {"new", "request", "check", "open", "receive", "cleanup", "commit", "top",
              "reply"} \cup Ended
Sides == [pc : SndPlaces \cup RcvPlaces \cup AskPlaces,
          entry : Nat, count : Nat, total : Nat, size : Nat]
SizeMaps == UNION {[Entries(t) -> Sizes] : t \in Transfers}

TypeInv ==
  /\ active \in Together /\ changed \subseteq active
  /\ source \in [Transfers -> SizeMaps] /\ looked \in [Transfers -> SizeMaps]
  /\ \A t \in Transfers : source[t] \in [Entries(t) -> Sizes] /\ looked[t] \in [Entries(t) -> Sizes]
  /\ snd \in [Transfers -> Sides] /\ rcv \in [Transfers -> Sides]
  /\ fwd \in [Transfers -> Seq(Frames)] /\ bwd \in [Transfers -> Seq(Frames)]
  /\ \A t \in Transfers : Len(fwd[t]) <= Window /\ Len(bwd[t]) <= Window
  /\ part \in [Transfers -> Contents] /\ file \in [Paths -> Contents]
  /\ \A t \in Asks : part[t] = Absent
  /\ conn \in {"up", "lost"}

ShellInv ==
  /\ shells \in [Pids -> Dirs \cup {Unborn, Gone}]
  /\ pid \in Pids \cup {NoShell} /\ (pid # NoShell => shells[pid] # Unborn)
  /\ ctx \in [Asks -> Pids \cup {NoShell}] /\ was \in [Asks -> SUBSET Dirs]

\* what a sender has sent, in total and of the file it is at
SndOK(t, s) ==
  /\ s.pc \in SndPlaces
  /\ s.pc \in {"request", "confirm"} => t \in Puts
  /\ s.pc = "header" => t \in Recursive
  /\ s.entry \in 1 .. Len(Dest[t]) + 1 /\ s.count <= MaxSize /\ s.size = 0
  /\ s.pc \in {"new", "request"} \cup Ended => s.entry = 1 /\ s.count = 0 /\ s.total = 0
  /\ s.pc = "sending" => s.entry \in Entries(t) /\ s.total <= MaxSize * (s.entry - 1) + s.count
  /\ s.pc = "header" => s.total <= MaxSize * (s.entry - 1)
  /\ s.total <= MaxSize * Len(Dest[t])

Handling == {"check", "open", "receive", "commit"}

\* what a receiver has received, of a file that the sender saw with sizes l
RcvOK(t, r, l) ==
  /\ r.pc \in RcvPlaces
  /\ r.pc \in {"check", "reply"} => t \in Puts
  /\ r.pc = "request" => t \in Gets
  /\ r.pc = "top" => t \in Recursive
  /\ r.entry \in 1 .. Len(Dest[t]) + 1 /\ r.count <= MaxSize /\ r.size \in Sizes \cup {0}
  /\ r.total <= MaxSize * (r.entry - 1)
  /\ r.pc \in {"new", "request"} => r.entry = 1 /\ r.count = 0
  /\ r.pc \in Handling => r.entry \in Entries(t) /\ r.size = l[r.entry]
  /\ r.pc \in {"check", "open"} => r.count = 0
  /\ r.pc = "commit" => r.count = r.size \/ t \in Gets \cap Recursive
  /\ r.pc = "reply" => r.entry = Len(Dest[t]) + 1

\* a part file holds what its receiver has counted, or all but the last of it
Copies(t, n) == [i \in 1 .. n |-> t]
Cut(t, n) == [i \in 1 .. n |-> IF i = n THEN Torn ELSE t]

PartOK(t, r, P) ==
  /\ P \in Seq({t, Torn}) \cup {Absent}
  /\ P # Absent => t \in active /\ r.pc \in {"receive", "cleanup", "commit", "dropped"}
  /\ r.pc \in {"receive", "commit"} => P \in {Copies(t, r.count), Cut(t, r.count)}

\* the sender has looked at its files, or never will
Looked(t, s) == s.pc # "new" /\ (t \in Puts \cap Recursive => s.pc # "request")

\* before it has, it has announced no file and none is received
LookOK(t, s, r, q) ==
  ~Looked(t, s) =>
    /\ r.pc \notin Handling
    /\ \A i \in 1 .. Len(q) : q[i].kind = "request"
    /\ s.pc = "new" => q = <<>>

InPlace(F, d) == F[d] \notin {Absent, Old}
AllIn(t, F) == \A e \in Entries(t) : InPlace(F, Dest[t][e])

\* the files before the one at hand are in place, and all of them once the
\* receiver has said so
SavedOK(t, s, r, b, F) ==
  /\ r.pc \notin Ended => \A e \in Entries(t) : e < r.entry => InPlace(F, Dest[t][e])
  /\ r.pc = "ok" \/ (t \in Puts /\ s.pc = "ok") => AllIn(t, F)
  /\ (\E i \in 1 .. Len(b) : b[i].kind = "complete") => AllIn(t, F)
  /\ t \in Puts /\ r.pc \in {"open", "receive", "commit"} => F[Dest[t][r.entry]] # Old

TransferOK(t, s, r, q, b, l, P, F) ==
  /\ SndOK(t, s) /\ RcvOK(t, r, l) /\ PartOK(t, r, P)
  /\ LookOK(t, s, r, q) /\ Path(t, s, r, q, l) /\ SavedOK(t, s, r, b, F)

\* a question whose context is c is answered from w, the directories c has been
\* in, of which the present one is one if the shell still runs
AskOK(t, s, r, q, b, c, w, sh) ==
  /\ s.pc \in {"new"} \cup AskPlaces \cup Ended /\ r.pc \in {"new", "request"} \cup Ended
  /\ s.entry = 1 /\ s.count = 0 /\ s.total = 0 /\ s.size \in Dirs \cup {Fixed}
  /\ r.entry = 1 /\ r.count = 0 /\ r.total = 0 /\ r.size \in Dirs \cup {Fixed}
  /\ \A i \in 1 .. Len(b) : b[i].kind \in AskKinds
  /\ \A i \in 1 .. Len(q) : q[i].kind = "answer" => q[i].n \in w \cup {Fixed}
  /\ s.pc = "new" => q = <<>> /\ r.pc # "ok"
  /\ s.pc \in {"path_exists", "is_dir", "find", "answer"} => s.size \in w \cup {Fixed}
  /\ r.pc = "ok" => r.size \in w \cup {Fixed}
  /\ s.pc \in AskPlaces => IF c = NoShell THEN Home \in w ELSE sh[c] \in w \cup {Gone}

\* u has brought content x to d, from a file it will not look at again
Brings(u, s, l, x, d) ==
  Looked(u, s) /\ \E e \in Entries(u) :
    Dest[u][e] = d /\ (x = Copies(u, l[e]) \/ (u \in Puts /\ x = Cut(u, l[e])))
Excused(u, r) == u \in Gets /\ (u \in Recursive \/ r.pc = "dropped")

WholeInv ==
  \A d \in Paths : InPlace(file, d) =>
    \E u \in active : Brings(u, snd[u], looked[u], file[d], d) \/ Excused(u, rcv[u])

TransferInv(t) ==
  TransferOK(t, snd[t], rcv[t], fwd[t], bwd[t], looked[t], part[t], file)

AskInv(t) == AskOK(t, snd[t], rcv[t], fwd[t], bwd[t], ctx[t], was[t], shells)

Inv ==
  /\ TypeInv /\ ShellInv /\ WholeInv
  /\ \A t \in Puts \cup Gets : TransferInv(t)
  /\ \A t \in Asks : AskInv(t)

-----------------------------------------------------------------------------
(***************************************************************************)
(* Constants and sizes.                                                    *)
(***************************************************************************)
LEMMA SizeFacts ==
  /\ MaxSize \in Sizes /\ MaxSize \in Nat /\ Sizes \subseteq Nat
  /\ \A m \in Sizes : m <= MaxSize
<1>1. \E n \in Sizes : \A m \in Sizes : m <= n
  BY TransfersAssumption
<1>2. MaxSize \in Sizes /\ \A m \in Sizes : m <= MaxSize
  BY <1>1, Zenon DEF MaxSize
<1> QED
  BY <1>2, TransfersAssumption

\* The bounds on a total, one file after another.
LEMMA Products ==
  /\ \A n \in Nat : MaxSize * n \in Nat /\ MaxSize * (n + 1) = MaxSize * n + MaxSize
  /\ \A n, m \in Nat : n <= m => MaxSize * n <= MaxSize * m
  /\ MaxSize * 0 = 0 /\ MaxSize * 1 = MaxSize
<1>1. \A k, n, m \in Nat : n <= m => k * n <= k * m
  OBVIOUS
<1>2. \A k, n \in Nat : k * n \in Nat /\ k * (n + 1) = k * n + k
  OBVIOUS
<1>3. \A k \in Nat : k * 0 = 0 /\ k * 1 = k
  OBVIOUS
<1> QED
  BY <1>1, <1>2, <1>3, SizeFacts

\* Every transfer has a first file, and each of its files a destination.
LEMMA DestFacts ==
  ASSUME NEW t \in Transfers
  PROVE  /\ Dest[t] \in Seq(Paths) /\ Len(Dest[t]) \in Nat /\ Len(Dest[t]) >= 1
         /\ 1 \in Entries(t) /\ \A e \in Entries(t) : Dest[t][e] \in Paths /\ e \in Nat
         /\ t \notin Recursive => Len(Dest[t]) = 1
<1>1. Dest[t] \in Seq(Paths) /\ Len(Dest[t]) > 0 /\ (t \notin Recursive => Len(Dest[t]) = 1)
  BY TransfersAssumption
<1>2. Len(Dest[t]) \in Nat /\ \A e \in 1 .. Len(Dest[t]) : Dest[t][e] \in Paths
  BY <1>1, ElementOfSeq, LenProperties
<1> QED
  BY <1>1, <1>2 DEF Entries

\* Whatever a transfer writes is a sequence of its own chunks, written or not,
\* hence neither nothing nor what was there before.
LEMMA OwnChunks ==
  ASSUME NEW t \in Transfers, NEW P \in Seq({t, Torn})
  PROVE  P \in Contents /\ P # Absent /\ P # Old
<1>1. P \in Seq(Transfers \cup {Nobody, Torn})
  BY SeqMonotonic
<1>2. P # Absent
  BY <1>1, TransfersAssumption
<1>3. P # Old
  <2> SUFFICES ASSUME P = Old PROVE FALSE
    OBVIOUS
  <2>1. Len(P) = 1 /\ P[1] = Nobody
    BY DEF Old
  <2>2. P[1] \in {t, Torn}
    BY <2>1, ElementOfSeq
  <2> QED
    BY <2>1, <2>2, TransfersAssumption
<1> QED
  BY <1>1, <1>2, <1>3 DEF Contents

\* A part file holds as many chunks as were counted, and one more when one is
\* added, whether that one is written or not.
LEMMA CopiesSeq ==
  ASSUME NEW t, NEW n \in Nat
  PROVE  /\ Copies(t, n) \in Seq({t, Torn}) /\ Len(Copies(t, n)) = n
         /\ Cut(t, n) \in Seq({t, Torn}) /\ Len(Cut(t, n)) = n
<1>1. Copies(t, n) \in [1 .. n -> {t, Torn}] /\ Cut(t, n) \in [1 .. n -> {t, Torn}]
  BY DEF Copies, Cut
<1> QED
  BY <1>1

LEMMA CopiesAppend ==
  ASSUME NEW t, NEW n \in Nat, NEW c \in {t, Torn}
  PROVE  Append(Copies(t, n), c) \in {Copies(t, n + 1), Cut(t, n + 1)}
<1> DEFINE x == Append(Copies(t, n), c)
           y == Copies(t, n + 1)
           z == Cut(t, n + 1)
<1>1. /\ Copies(t, n) \in Seq({t, Torn}) /\ Len(Copies(t, n)) = n
      /\ \A i \in 1 .. n : Copies(t, n)[i] = t
  BY CopiesSeq DEF Copies
<1>2. /\ y \in Seq({t, Torn}) /\ Len(y) = n + 1 /\ z \in Seq({t, Torn}) /\ Len(z) = n + 1
  BY CopiesSeq
<1>3. /\ x \in Seq({t, Torn}) /\ Len(x) = n + 1 /\ x[n + 1] = c
      /\ \A i \in 1 .. n : x[i] = t
  BY <1>1, AppendProperties
<1>4. \A i \in 1 .. n + 1 : y[i] = t /\ z[i] = IF i = n + 1 THEN Torn ELSE t
  BY DEF Copies, Cut
<1> HIDE DEF x, y, z
<1>5. CASE c = t
  <2>1. \A i \in 1 .. n + 1 : x[i] = y[i]
    BY <1>3, <1>4, <1>5
  <2>2. x = y
    BY <1>2, <1>3, <2>1, SeqEqual
  <2> QED
    BY <2>2 DEF x, y
<1>6. CASE c = Torn
  <2>1. \A i \in 1 .. n + 1 : x[i] = z[i]
    BY <1>3, <1>4, <1>6
  <2>2. x = z
    BY <1>2, <1>3, <2>1, SeqEqual
  <2> QED
    BY <2>2 DEF x, z
<1> QED
  BY <1>5, <1>6

\* A part file to which every write succeeded lacks nothing.
LEMMA WrittenWhole ==
  ASSUME NEW t \in Transfers, NEW n \in Nat, NEW x \in {Copies(t, n), Cut(t, n)},
         \A i \in DOMAIN x : x[i] # Torn
  PROVE  x = Copies(t, n)
<1>1. CASE n = 0
  <2>1. Copies(t, 0) = Cut(t, 0)
    BY DEF Copies, Cut
  <2> QED
    BY <1>1, <2>1
<1>2. CASE n # 0
  <2>1. n \in DOMAIN Cut(t, n) /\ Cut(t, n)[n] = Torn
    BY <1>2 DEF Cut
  <2> QED
    BY <2>1
<1> QED
  BY <1>1, <1>2

-----------------------------------------------------------------------------
(***************************************************************************)
(* A step of one side of one transfer leaves the others as they are.       *)
(***************************************************************************)

\* files come and are replaced, none goes and none is the old one again
Grows(F, G) ==
  \A d \in Paths : (InPlace(F, d) => InPlace(G, d)) /\ (G[d] = Old => F[d] = Old)

\* What is said of saved files stays true when more files are saved.
LEMMA SavedGrows ==
  ASSUME NEW t \in Transfers, NEW s, NEW r, NEW b, NEW F, NEW G, Grows(F, G),
         r.pc \in {"open", "receive", "commit"} => r.entry \in Entries(t),
         SavedOK(t, s, r, b, F)
  PROVE  SavedOK(t, s, r, b, G)
<1>1. \A e \in Entries(t) : /\ InPlace(F, Dest[t][e]) => InPlace(G, Dest[t][e])
                            /\ G[Dest[t][e]] = Old => F[Dest[t][e]] = Old
  BY DestFacts DEF Grows
<1>2. AllIn(t, F) => AllIn(t, G)
  BY <1>1, Zenon DEF AllIn
<1> QED
  BY <1>1, <1>2, Zenon DEF SavedOK

\* A step of one transfer's sender keeps the invariant of the whole when what it
\* leaves is right for that transfer.
LEMMA SenderMoves ==
  ASSUME Inv, NEW t \in Puts \cup Gets, NEW s \in Sides, NEW q \in Seq(Frames),
         NEW b \in Seq(Frames), NEW l \in [Entries(t) -> Sizes],
         Len(q) <= Window, Len(b) <= Window,
         snd' = [snd EXCEPT ![t] = s], fwd' = [fwd EXCEPT ![t] = q],
         bwd' = [bwd EXCEPT ![t] = b], looked' = [looked EXCEPT ![t] = l],
         UNCHANGED <<active, source, changed, rcv, files, env>>,
         Looked(t, snd[t]) => l = looked[t] /\ Looked(t, s),
         TransferOK(t, s, rcv[t], q, b, l, part[t], file)
  PROVE  Inv'
<1> USE DEF Inv
<1>1. t \in Transfers
  BY DEF Transfers
<1>2. TypeInv'
  <2>1. l \in SizeMaps
    BY <1>1 DEF SizeMaps
  <2>2. /\ looked' \in [Transfers -> SizeMaps]
        /\ \A u \in Transfers : looked'[u] = IF u = t THEN l ELSE looked[u]
    BY <1>1, <2>1 DEF TypeInv
  <2>3. /\ fwd' \in [Transfers -> Seq(Frames)] /\ bwd' \in [Transfers -> Seq(Frames)]
        /\ \A u \in Transfers : Len(fwd'[u]) <= Window /\ Len(bwd'[u]) <= Window
    BY <1>1 DEF TypeInv
  <2>4. snd' \in [Transfers -> Sides]
    BY <1>1 DEF TypeInv
  <2> QED
    BY <1>1, <2>2, <2>3, <2>4 DEF TypeInv, files, env
<1>3. ShellInv'
  BY DEF ShellInv, env, context
<1>4. \A u \in Transfers : u # t =>
        snd'[u] = snd[u] /\ fwd'[u] = fwd[u] /\ bwd'[u] = bwd[u] /\ looked'[u] = looked[u]
  BY DEF TypeInv
<1>5. snd'[t] = s /\ fwd'[t] = q /\ bwd'[t] = b /\ looked'[t] = l
  BY <1>1 DEF TypeInv
<1>6. /\ rcv' = rcv /\ part' = part /\ file' = file /\ ctx' = ctx /\ was' = was
      /\ shells' = shells /\ active' = active
  BY DEF files, env, context
<1>7. WholeInv'
  <2> SUFFICES ASSUME NEW d \in Paths, InPlace(file, d)
               PROVE  \E u \in active : \/ Brings(u, snd'[u], looked'[u], file[d], d)
                                        \/ Excused(u, rcv[u])
    BY <1>6, Zenon DEF WholeInv
  <2>1. PICK u \in active : Brings(u, snd[u], looked[u], file[d], d) \/ Excused(u, rcv[u])
    BY Zenon DEF WholeInv
  <2>2. u \in Transfers
    BY TransfersAssumption DEF TypeInv
  <2>3. CASE u # t
    <3>1. snd'[u] = snd[u] /\ looked'[u] = looked[u]
      BY <1>4, <2>2, <2>3
    <3> QED
      BY <2>1, <3>1, Zenon
  <2>4. CASE u = t
    <3>1. Brings(t, snd[t], looked[t], file[d], d) => Brings(t, s, l, file[d], d)
      BY Zenon DEF Brings
    <3> QED
      BY <1>5, <2>1, <2>4, <3>1, Zenon
  <2> QED
    BY <2>3, <2>4
<1>8. ASSUME NEW u \in Puts \cup Gets PROVE TransferInv(u)'
  <2>1. CASE u = t
    BY <1>5, <1>6, <2>1, Zenon DEF TransferInv, TransferOK, PartOK
  <2>2. CASE u # t
    <3>1. /\ snd'[u] = snd[u] /\ fwd'[u] = fwd[u] /\ bwd'[u] = bwd[u] /\ looked'[u] = looked[u]
      BY <1>4, <2>2 DEF Transfers
    <3> QED
      BY <1>6, <3>1, Zenon DEF TransferInv, TransferOK, PartOK
  <2> QED
    BY <2>1, <2>2
<1>9. ASSUME NEW u \in Asks PROVE AskInv(u)'
  <2>1. u # t /\ u \in Transfers
    BY TransfersAssumption DEF Transfers
  <2>2. /\ snd'[u] = snd[u] /\ fwd'[u] = fwd[u] /\ bwd'[u] = bwd[u]
    BY <1>4, <2>1
  <2> QED
    BY <1>6, <2>2, Zenon DEF AskInv
<1> QED
  BY <1>2, <1>3, <1>7, <1>8, <1>9

\* The same for a step of one transfer's receiver, which alone may write files.
LEMMA ReceiverMoves ==
  ASSUME Inv, NEW t \in Puts \cup Gets, NEW r \in Sides, NEW q \in Seq(Frames),
         NEW b \in Seq(Frames), NEW P \in Contents, NEW F \in [Paths -> Contents],
         Len(q) <= Window, Len(b) <= Window,
         rcv' = [rcv EXCEPT ![t] = r], fwd' = [fwd EXCEPT ![t] = q],
         bwd' = [bwd EXCEPT ![t] = b], part' = [part EXCEPT ![t] = P], file' = F,
         UNCHANGED <<sizes, snd, env>>,
         Grows(file, F),
         \A d \in Paths : F[d] # file[d] =>
           t \in active /\ (Brings(t, snd[t], looked[t], F[d], d) \/ Excused(t, r)),
         rcv[t].pc = "dropped" => r.pc = "dropped",
         TransferOK(t, snd[t], r, q, b, looked[t], P, F)
  PROVE  Inv'
<1> USE DEF Inv
<1>1. t \in Transfers
  BY DEF Transfers
<1>2. TypeInv'
  <2>1. /\ fwd' \in [Transfers -> Seq(Frames)] /\ bwd' \in [Transfers -> Seq(Frames)]
        /\ \A u \in Transfers : Len(fwd'[u]) <= Window /\ Len(bwd'[u]) <= Window
    BY <1>1 DEF TypeInv
  <2>2. rcv' \in [Transfers -> Sides] /\ part' \in [Transfers -> Contents]
    BY <1>1 DEF TypeInv
  <2>3. \A u \in Asks : part'[u] = part[u]
    BY TransfersAssumption DEF TypeInv, Transfers
  <2> QED
    BY <2>1, <2>2, <2>3 DEF TypeInv, sizes, env
<1>3. ShellInv'
  BY DEF ShellInv, env, context
<1>4. \A u \in Transfers : u # t =>
        rcv'[u] = rcv[u] /\ fwd'[u] = fwd[u] /\ bwd'[u] = bwd[u] /\ part'[u] = part[u]
  BY DEF TypeInv
<1>5. rcv'[t] = r /\ fwd'[t] = q /\ bwd'[t] = b /\ part'[t] = P
  BY <1>1 DEF TypeInv
<1>6. /\ snd' = snd /\ looked' = looked /\ ctx' = ctx /\ was' = was
      /\ shells' = shells /\ active' = active
  BY DEF sizes, env, context
<1>7. WholeInv'
  <2> SUFFICES ASSUME NEW d \in Paths, InPlace(F, d)
               PROVE  \E u \in active : \/ Brings(u, snd[u], looked[u], F[d], d)
                                        \/ Excused(u, rcv'[u])
    BY <1>6, Zenon DEF WholeInv
  <2>1. CASE F[d] # file[d]
    BY <1>5, <2>1, Zenon
  <2>2. CASE F[d] = file[d]
    <3>1. InPlace(file, d)
      BY <2>2, Zenon DEF InPlace
    <3>2. PICK u \in active : Brings(u, snd[u], looked[u], file[d], d) \/ Excused(u, rcv[u])
      BY <3>1, Zenon DEF WholeInv
    <3>3. u \in Transfers
      BY TransfersAssumption DEF TypeInv
    <3>4. Excused(u, rcv[u]) => Excused(u, rcv'[u])
      <4>1. CASE u = t
        BY <1>5, <4>1 DEF Excused
      <4>2. CASE u # t
        BY <1>4, <3>3, <4>2
      <4> QED
        BY <4>1, <4>2
    <3> QED
      BY <2>2, <3>2, <3>4, Zenon
  <2> QED
    BY <2>1, <2>2
<1>8. ASSUME NEW u \in Puts \cup Gets PROVE TransferInv(u)'
  <2>1. CASE u = t
    BY <1>5, <1>6, <2>1, Zenon DEF TransferInv, TransferOK, PartOK
  <2>2. CASE u # t
    <3>1. rcv'[u] = rcv[u] /\ fwd'[u] = fwd[u] /\ bwd'[u] = bwd[u] /\ part'[u] = part[u]
      BY <1>4, <2>2 DEF Transfers
    <3>2. TransferInv(u) /\ u \in Transfers
      BY DEF Transfers
    <3>3. SavedOK(u, snd[u], rcv[u], bwd[u], F)
      <4>1. rcv[u].pc \in {"open", "receive", "commit"} => rcv[u].entry \in Entries(u)
        BY <3>2 DEF TransferInv, TransferOK, RcvOK, Handling
      <4> QED
        BY <3>2, <4>1, SavedGrows DEF TransferInv, TransferOK
    <3> QED
      BY <1>6, <3>1, <3>2, <3>3, Zenon DEF TransferInv, TransferOK, PartOK
  <2> QED
    BY <2>1, <2>2
<1>9. ASSUME NEW u \in Asks PROVE AskInv(u)'
  <2>1. u # t /\ u \in Transfers
    BY TransfersAssumption DEF Transfers
  <2>2. rcv'[u] = rcv[u] /\ fwd'[u] = fwd[u] /\ bwd'[u] = bwd[u]
    BY <1>4, <2>1
  <2> QED
    BY <1>6, <2>2, Zenon DEF AskInv
<1> QED
  BY <1>2, <1>3, <1>7, <1>8, <1>9

\* The same for a step at either end of a question.
LEMMA AskMoves ==
  ASSUME Inv, NEW t \in Asks, NEW s \in Sides, NEW r \in Sides, NEW q \in Seq(Frames),
         NEW b \in Seq(Frames), NEW c \in Pids \cup {NoShell}, NEW w \in SUBSET Dirs,
         Len(q) <= Window, Len(b) <= Window,
         snd' = [snd EXCEPT ![t] = s], rcv' = [rcv EXCEPT ![t] = r],
         fwd' = [fwd EXCEPT ![t] = q], bwd' = [bwd EXCEPT ![t] = b],
         ctx' = [ctx EXCEPT ![t] = c], was' = [was EXCEPT ![t] = w],
         UNCHANGED <<sizes, files, conn, shells, pid>>,
         s.pc = "new" => snd[t].pc = "new", AskOK(t, s, r, q, b, c, w, shells)
  PROVE  Inv'
<1> USE DEF Inv
<1>1. t \in Transfers
  BY DEF Transfers
<1>2. TypeInv'
  <2>1. /\ fwd' \in [Transfers -> Seq(Frames)] /\ bwd' \in [Transfers -> Seq(Frames)]
        /\ \A u \in Transfers : Len(fwd'[u]) <= Window /\ Len(bwd'[u]) <= Window
    BY <1>1 DEF TypeInv
  <2>2. snd' \in [Transfers -> Sides] /\ rcv' \in [Transfers -> Sides]
    BY <1>1 DEF TypeInv
  <2> QED
    BY <2>1, <2>2 DEF TypeInv, sizes, files
<1>3. ShellInv'
  BY DEF ShellInv
<1>4. \A u \in Transfers : u # t =>
        snd'[u] = snd[u] /\ rcv'[u] = rcv[u] /\ fwd'[u] = fwd[u] /\ bwd'[u] = bwd[u]
  BY DEF TypeInv
<1>5. /\ snd'[t] = s /\ rcv'[t] = r /\ fwd'[t] = q /\ bwd'[t] = b /\ ctx'[t] = c /\ was'[t] = w
  BY <1>1 DEF TypeInv, ShellInv
<1>6. /\ part' = part /\ file' = file /\ looked' = looked /\ active' = active /\ shells' = shells
  BY DEF sizes, files
<1>7. WholeInv'
  <2> SUFFICES ASSUME NEW d \in Paths, InPlace(file, d)
               PROVE  \E u \in active : \/ Brings(u, snd'[u], looked[u], file[d], d)
                                        \/ Excused(u, rcv'[u])
    BY <1>6, Zenon DEF WholeInv
  <2>1. PICK u \in active : Brings(u, snd[u], looked[u], file[d], d) \/ Excused(u, rcv[u])
    BY Zenon DEF WholeInv
  <2>2. u \in Transfers
    BY TransfersAssumption DEF TypeInv
  <2>3. Excused(u, rcv[u]) => Excused(u, rcv'[u])
    <3>1. u \in Gets => u # t
      BY TransfersAssumption
    <3> QED
      BY <1>4, <2>2, <3>1 DEF Excused
  <2>4. CASE u = t
    <3>1. Looked(t, snd[t]) => Looked(t, s)
      <4>1. t \notin Puts
        BY TransfersAssumption
      <4> QED
        BY <4>1 DEF Looked
    <3> QED
      BY <1>5, <2>1, <2>3, <2>4, <3>1, Zenon DEF Brings
  <2>5. CASE u # t
    BY <1>4, <2>1, <2>2, <2>3, <2>5, Zenon
  <2> QED
    BY <2>4, <2>5
<1>8. ASSUME NEW u \in Puts \cup Gets PROVE TransferInv(u)'
  <2>1. u # t /\ u \in Transfers
    BY TransfersAssumption DEF Transfers
  <2>2. snd'[u] = snd[u] /\ rcv'[u] = rcv[u] /\ fwd'[u] = fwd[u] /\ bwd'[u] = bwd[u]
    BY <1>4, <2>1
  <2> QED
    BY <1>6, <2>2, Zenon DEF TransferInv, TransferOK, PartOK
<1>9. ASSUME NEW u \in Asks PROVE AskInv(u)'
  <2>1. CASE u = t
    BY <1>5, <1>6, <2>1, Zenon DEF AskInv
  <2>2. CASE u # t
    <3>1. /\ snd'[u] = snd[u] /\ rcv'[u] = rcv[u] /\ fwd'[u] = fwd[u] /\ bwd'[u] = bwd[u]
          /\ ctx'[u] = ctx[u] /\ was'[u] = was[u]
      BY <1>4, <2>2 DEF Transfers, ShellInv
    <3> QED
      BY <1>6, <3>1, Zenon DEF AskInv
  <2> QED
    BY <2>1, <2>2
<1> QED
  BY <1>2, <1>3, <1>7, <1>8, <1>9

-----------------------------------------------------------------------------
(***************************************************************************)
(* Sides and frames, field by field.                                       *)
(***************************************************************************)
Kinds == {"request", "ready", "entry", "chunk", "entry_end", "complete", "error", "answer"}
           \cup AskKinds

\* A frame is what it was made of.
LEMMA FrameFacts ==
  ASSUME NEW k \in Kinds, NEW n \in Nat
  PROVE  Frame(k, n) \in Frames /\ Frame(k, n).kind = k /\ Frame(k, n).n = n
BY DEF Frame, Frames, Kinds

\* A side that has ended is anywhere, and has nothing left to be right about.
LEMMA EndedSide ==
  ASSUME NEW t \in Transfers, NEW x, NEW pc \in Ended
  PROVE  /\ To(x, pc) \in Sides /\ To(x, pc).pc = pc
         /\ To(x, pc).entry = 1 /\ To(x, pc).count = 0 /\ To(x, pc).total = 0 /\ To(x, pc).size = 0
         /\ SndOK(t, To(x, pc)) /\ Looked(t, To(x, pc))
         /\ \A l : RcvOK(t, To(x, pc), l)
         /\ \A a : SndAt(t, To(x, pc), a) /\ RcvAt(t, To(x, pc), a)
<1> DEFINE s == To(x, pc)
<1>1. /\ s \in Sides /\ s.pc = pc
      /\ s.entry = 1 /\ s.count = 0 /\ s.total = 0 /\ s.size = 0
  BY DEF To, Fresh, Sides, SndPlaces
<1> HIDE DEF s
<1>2. pc \notin {"new", "request", "header", "sending", "confirm", "check", "open", "receive",
                 "cleanup", "commit", "top", "reply"}
  BY DEF Ended
<1>3. /\ 1 \in 1 .. Len(Dest[t]) + 1 /\ 0 <= MaxSize * Len(Dest[t]) /\ 0 <= MaxSize * (1 - 1)
      /\ 0 <= MaxSize
  <2>1. Len(Dest[t]) \in Nat /\ Len(Dest[t]) >= 1 /\ MaxSize \in Nat
    BY DestFacts, SizeFacts
  <2>2. MaxSize * Len(Dest[t]) \in Nat /\ MaxSize * 0 = 0
    BY <2>1, Products
  <2> QED
    BY <2>1, <2>2
<1>4. SndOK(t, s)
  BY <1>1, <1>2, <1>3 DEF SndOK, SndPlaces
<1>5. \A l : RcvOK(t, s, l)
  BY <1>1, <1>2, <1>3 DEF RcvOK, RcvPlaces, Handling
<1>6. Looked(t, s) /\ \A a : SndAt(t, s, a) /\ RcvAt(t, s, a)
  BY <1>1, <1>2 DEF Looked, SndAt, RcvAt
<1> QED
  BY <1>1, <1>4, <1>5, <1>6 DEF s

\* One that goes on keeps what it has counted.
LEMMA StayedSide ==
  ASSUME NEW x \in Sides, NEW pc \in (SndPlaces \cup RcvPlaces \cup AskPlaces) \ Ended
  PROVE  /\ To(x, pc) \in Sides /\ To(x, pc).pc = pc
         /\ To(x, pc).entry = x.entry /\ To(x, pc).count = x.count
         /\ To(x, pc).total = x.total /\ To(x, pc).size = x.size
BY DEF To, Sides

-----------------------------------------------------------------------------
(***************************************************************************)
(* The sender's steps.                                                     *)
(***************************************************************************)

\* as it was, or without the frame that was read
Shorter(q, q2) == q2 = q \/ (q # <<>> /\ q2 = Tail(q))

\* every frame of the second was in the first
OnlyOf(q, q2) == \A i \in 1 .. Len(q2) : \E j \in 1 .. Len(q) : q2[i] = q[j]

\* A stream read from holds no frame it did not hold before.
LEMMA ShorterFacts ==
  ASSUME NEW q \in Seq(Frames), NEW q2, Shorter(q, q2)
  PROVE  q2 \in Seq(Frames) /\ Len(q2) <= Len(q) /\ (q = <<>> => q2 = <<>>) /\ OnlyOf(q, q2)
<1>1. CASE q2 = q
  BY <1>1, LenProperties DEF OnlyOf
<1>2. CASE q # <<>> /\ q2 = Tail(q)
  <2>1. /\ q2 \in Seq(Frames) /\ Len(q2) = Len(q) - 1 /\ Len(q) \in Nat
        /\ \A i \in 1 .. Len(q2) : q2[i] = q[i + 1]
    BY <1>2, HeadTailProperties, LenProperties
  <2>2. ASSUME NEW i \in 1 .. Len(q2) PROVE i + 1 \in 1 .. Len(q)
    BY <2>1
  <2>3. Len(q2) <= Len(q)
    BY <2>1
  <2> QED
    BY <1>2, <2>1, <2>2, <2>3 DEF OnlyOf
<1> QED
  BY <1>1, <1>2 DEF Shorter

\* What a sender does not touch stays right when it moves.
LEMMA SenderKeeps ==
  ASSUME Inv, NEW t \in Puts \cup Gets, NEW s \in Sides, NEW q \in Seq(Frames),
         NEW b, NEW l \in [Entries(t) -> Sizes],
         Len(q) <= Window, Shorter(bwd[t], b),
         snd' = [snd EXCEPT ![t] = s], fwd' = [fwd EXCEPT ![t] = q],
         bwd' = [bwd EXCEPT ![t] = b], looked' = [looked EXCEPT ![t] = l],
         UNCHANGED <<active, source, changed, rcv, files, env>>,
         Looked(t, snd[t]) => l = looked[t] /\ Looked(t, s),
         t \in Puts /\ s.pc = "ok" => AllIn(t, file),
         SndOK(t, s), LookOK(t, s, rcv[t], q), Path(t, s, rcv[t], q, l)
  PROVE  Inv'
<1>1. t \in Transfers /\ TransferInv(t)
  BY DEF Inv, Transfers
<1>2. bwd[t] \in Seq(Frames) /\ Len(bwd[t]) <= Window /\ Len(bwd[t]) \in Nat /\ Window \in Nat
  BY <1>1, LenProperties, TransfersAssumption DEF Inv, TypeInv
<1>3. /\ b \in Seq(Frames) /\ Len(b) <= Window
      /\ \A i \in 1 .. Len(b) : \E j \in 1 .. Len(bwd[t]) : b[i] = bwd[t][j]
  <2>1. /\ b \in Seq(Frames) /\ Len(b) <= Len(bwd[t])
        /\ \A i \in 1 .. Len(b) : \E j \in 1 .. Len(bwd[t]) : b[i] = bwd[t][j]
    <3>1. bwd[t] \in Seq(Frames) /\ Shorter(bwd[t], b)
      BY <1>2
    <3>2. b \in Seq(Frames) /\ Len(b) <= Len(bwd[t]) /\ OnlyOf(bwd[t], b)
      BY ONLY <3>1, ShorterFacts
    <3> QED
      BY <3>2 DEF OnlyOf
  <2> QED
    BY <1>2, <2>1, LenProperties
<1>4. RcvOK(t, rcv[t], l)
  <2>1. RcvOK(t, rcv[t], looked[t]) /\ LookOK(t, snd[t], rcv[t], fwd[t])
    BY <1>1 DEF TransferInv, TransferOK
  <2>2. CASE Looked(t, snd[t])
    BY <2>1, <2>2
  <2>3. CASE ~Looked(t, snd[t])
    <3>1. rcv[t].pc \notin Handling
      BY <2>1, <2>3 DEF LookOK
    <3> QED
      BY <2>1, <3>1 DEF RcvOK
  <2> QED
    BY <2>2, <2>3
<1>5. SavedOK(t, s, rcv[t], b, file)
  <2>1. SavedOK(t, snd[t], rcv[t], bwd[t], file)
    BY <1>1 DEF TransferInv, TransferOK
  <2>2. (\E i \in 1 .. Len(b) : b[i].kind = "complete") => AllIn(t, file)
    BY <1>3, <2>1, Zenon DEF SavedOK
  <2> QED
    BY <2>1, <2>2, Zenon DEF SavedOK
<1>6. TransferOK(t, s, rcv[t], q, b, l, part[t], file)
  BY <1>1, <1>4, <1>5 DEF TransferInv, TransferOK
<1> QED
  BY <1>3, <1>6, SenderMoves

\* What it sees when it looks makes no difference to the frames sent before.
LEMMA PathLook ==
  ASSUME Inv, NEW t \in Puts \cup Gets, NEW l, Looked(t, snd[t]) => l = looked[t]
  PROVE  Path(t, snd[t], rcv[t], fwd[t], l)
<1> DEFINE q == fwd[t]
<1>1. t \in Transfers /\ TransferInv(t)
  BY DEF Inv, Transfers
<1>2. q \in Seq(Frames)
  BY <1>1 DEF Inv, TypeInv
<1>3. Path(t, snd[t], rcv[t], q, looked[t]) /\ LookOK(t, snd[t], rcv[t], q)
  BY <1>1 DEF TransferInv, TransferOK
<1> HIDE DEF q
<1>4. CASE Looked(t, snd[t])
  BY <1>3, <1>4 DEF q
<1>5. CASE ~Looked(t, snd[t])
  <2>1. /\ \A i \in 1 .. Len(q) : q[i].kind = "request"
        /\ snd[t].pc = "new" => q = <<>>
    BY <1>3, <1>5 DEF LookOK
  <2>2. \A i \in 1 .. Len(q), a, b \in Places :
          Leads(t, looked[t], a, q[i], b) => Leads(t, l, a, q[i], b)
    <3>1. CASE snd[t].pc = "new"
      <4>1. Len(q) = 0
        BY <2>1, <3>1
      <4> QED
        BY <4>1
    <3>2. CASE snd[t].pc # "new"
      <4>1. t \in Recursive
        BY <1>5, <3>2 DEF Looked
      <4> QED
        BY <2>1, <4>1 DEF Leads
    <3> QED
      BY <3>1, <3>2
  <2>3. Path(t, snd[t], rcv[t], q, l)
    BY <1>2, <1>3, <2>2, PathMove
  <2> QED
    BY <2>3 DEF q
<1> QED
  BY <1>4, <1>5

\* The sender writes frame f and is s then.
LEMMA SenderSends ==
  ASSUME Inv, NEW t \in Puts \cup Gets, NEW s \in Sides, NEW f \in Frames,
         NEW b, NEW l \in [Entries(t) -> Sizes],
         SndWrite(t, f), Shorter(bwd[t], b),
         snd' = [snd EXCEPT ![t] = s],
         bwd' = [bwd EXCEPT ![t] = b], looked' = [looked EXCEPT ![t] = l],
         UNCHANGED <<active, source, changed, rcv, files, env>>,
         Looked(t, snd[t]) => l = looked[t] /\ Looked(t, s),
         t \in Puts => s.pc # "ok",
         SndOK(t, s), LookOK(t, s, rcv[t], Append(fwd[t], f)),
         \A a \in Places : SndAt(t, snd[t], a) =>
           \E c \in Places : Leads(t, l, a, f, c) /\ SndAt(t, s, c)
  PROVE  Inv'
<1>1. t \in Transfers
  BY DEF Transfers
<1>2. fwd[t] \in Seq(Frames) /\ Len(fwd[t]) < Window
  BY <1>1 DEF Inv, TypeInv, SndWrite, HasRoom
<1>3. /\ Append(fwd[t], f) \in Seq(Frames) /\ Len(Append(fwd[t], f)) <= Window
      /\ fwd' = [fwd EXCEPT ![t] = Append(fwd[t], f)]
  <2>1. Len(Append(fwd[t], f)) = Len(fwd[t]) + 1 /\ Append(fwd[t], f) \in Seq(Frames)
    BY <1>2, AppendProperties
  <2>2. Len(fwd[t]) + 1 <= Window
    BY <1>2, LenProperties, TransfersAssumption
  <2> QED
    BY <2>1, <2>2 DEF SndWrite
<1>4. Path(t, snd[t], rcv[t], fwd[t], l)
  BY PathLook
<1>5. Path(t, s, rcv[t], Append(fwd[t], f), l)
  BY <1>2, <1>4, PathAppend
<1> QED
  BY <1>3, <1>5, SenderKeeps

\* The sender writes nothing.
LEMMA SenderTurns ==
  ASSUME Inv, NEW t \in Puts \cup Gets, NEW s \in Sides,
         NEW b, NEW l \in [Entries(t) -> Sizes],
         UNCHANGED fwd, Shorter(bwd[t], b),
         snd' = [snd EXCEPT ![t] = s],
         bwd' = [bwd EXCEPT ![t] = b], looked' = [looked EXCEPT ![t] = l],
         UNCHANGED <<active, source, changed, rcv, files, env>>,
         Looked(t, snd[t]) => l = looked[t], Looked(t, s),
         t \in Puts /\ s.pc = "ok" => AllIn(t, file),
         SndOK(t, s),
         \A a \in Places : SndAt(t, snd[t], a) => SndAt(t, s, a)
  PROVE  Inv'
<1>1. t \in Transfers
  BY DEF Transfers
<1>2. /\ fwd[t] \in Seq(Frames) /\ Len(fwd[t]) <= Window
      /\ fwd' = [fwd EXCEPT ![t] = fwd[t]]
  BY <1>1 DEF Inv, TypeInv
<1>3. Path(t, snd[t], rcv[t], fwd[t], l)
  BY PathLook
<1>4. Path(t, s, rcv[t], fwd[t], l)
  BY <1>2, <1>3, PathMove
<1>5. LookOK(t, s, rcv[t], fwd[t])
  BY DEF LookOK
<1> QED
  BY <1>2, <1>4, <1>5, SenderKeeps

\* The sender gives up, and may say so.
LEMMA SenderFails ==
  ASSUME Inv, NEW t \in Puts \cup Gets, NEW b, NEW l \in [Entries(t) -> Sizes],
         SndError(t) \/ UNCHANGED fwd, Shorter(bwd[t], b), SndTo(t, "failed"),
         bwd' = [bwd EXCEPT ![t] = b], looked' = [looked EXCEPT ![t] = l],
         UNCHANGED <<active, source, changed, rcv, files, env>>,
         Looked(t, snd[t]) => l = looked[t]
  PROVE  Inv'
<1> DEFINE s == To(snd[t], "failed")
<1>1. t \in Transfers /\ "failed" \in Ended
  BY DEF Transfers, Ended
<1>2. /\ s \in Sides /\ s.pc = "failed" /\ SndOK(t, s) /\ Looked(t, s)
      /\ \A a : SndAt(t, s, a)
  BY <1>1, EndedSide
<1>3. snd' = [snd EXCEPT ![t] = s]
  BY DEF SndTo
<1> HIDE DEF s
<1>4. CASE UNCHANGED fwd
  BY <1>2, <1>3, <1>4, SenderTurns
<1>5. CASE SndWrite(t, Frame("error", 0))
  <2>1. Frame("error", 0) \in Frames /\ Frame("error", 0).kind = "error"
    BY FrameFacts DEF Kinds
  <2>2. \A a \in Places : SndAt(t, snd[t], a) =>
          \E c \in Places : Leads(t, l, a, Frame("error", 0), c) /\ SndAt(t, s, c)
    BY <1>2, <2>1 DEF Leads
  <2>3. LookOK(t, s, rcv[t], Append(fwd[t], Frame("error", 0)))
    BY <1>2 DEF LookOK
  <2> QED
    BY <1>2, <1>3, <1>5, <2>1, <2>2, <2>3, SenderSends
<1> QED
  BY <1>4, <1>5 DEF SndError, SndWriteFails

\* Every point of the protocol is a place.
LEMMA PlaceFacts ==
  /\ \A e, c \in Nat : \E a \in Places : AtBody(a, e, c)
  /\ \A e \in Nat : \E a \in Places : AtTop(a, e)
  /\ \A t : \E a \in Places : AtFirst(t, a)
<1>1. ASSUME NEW e \in Nat, NEW c \in Nat PROVE \E a \in Places : AtBody(a, e, c)
  <2> DEFINE a == [ph |-> "body", e |-> e, c |-> c]
  <2>1. a \in Places /\ AtBody(a, e, c)
    BY DEF Places, AtBody
  <2> QED
    BY <2>1
<1>2. ASSUME NEW e \in Nat PROVE \E a \in Places : AtTop(a, e)
  <2> DEFINE a == [ph |-> "top", e |-> e, c |-> 0]
  <2>1. a \in Places /\ AtTop(a, e)
    BY DEF Places, AtTop
  <2> QED
    BY <2>1
<1>3. ASSUME NEW t PROVE \E a \in Places : AtFirst(t, a)
  <2>1. CASE t \in Recursive
    BY <1>2, <2>1 DEF AtFirst
  <2>2. CASE t \notin Recursive
    BY <1>1, <2>2 DEF AtFirst
  <2> QED
    BY <2>1, <2>2
<1> QED
  BY <1>1, <1>2, <1>3

\* what is known of a sender, and of the frames that come back to it
LEMMA SenderKnown ==
  ASSUME Inv, NEW t \in Puts \cup Gets
  PROVE  /\ t \in Transfers /\ snd[t] \in Sides /\ SndOK(t, snd[t])
         /\ source[t] \in [Entries(t) -> Sizes] /\ looked[t] \in [Entries(t) -> Sizes]
         /\ source[t][1] \in Nat /\ looked[t][1] \in Nat
         /\ bwd' = bwd => Shorter(bwd[t], bwd[t]) /\ bwd' = [bwd EXCEPT ![t] = bwd[t]]
         /\ SndRead(t) => Shorter(bwd[t], Tail(bwd[t])) /\ bwd' = [bwd EXCEPT ![t] = Tail(bwd[t])]
         /\ looked' = looked => looked' = [looked EXCEPT ![t] = looked[t]]
         /\ Look(t) => /\ UNCHANGED <<active, source, changed>>
                       /\ looked' = [looked EXCEPT ![t] = source[t]]
         /\ UNCHANGED sizes => UNCHANGED <<active, source, changed, looked>>
<1>1. t \in Transfers
  BY DEF Transfers
<1>2. /\ snd[t] \in Sides /\ SndOK(t, snd[t])
      /\ source[t] \in [Entries(t) -> Sizes] /\ looked[t] \in [Entries(t) -> Sizes]
  BY <1>1 DEF Inv, TypeInv, TransferInv, TransferOK
<1>3. source[t][1] \in Nat /\ looked[t][1] \in Nat
  BY <1>1, <1>2, DestFacts, SizeFacts
<1>4. /\ bwd' = bwd => bwd' = [bwd EXCEPT ![t] = bwd[t]]
      /\ looked' = looked => looked' = [looked EXCEPT ![t] = looked[t]]
  BY <1>1 DEF Inv, TypeInv
<1> QED
  BY <1>1, <1>2, <1>3, <1>4 DEF Shorter, SndRead, Look, sizes

\* put_file looks at its file and writes the request.
LEMMA PutFileKeeps ==
  ASSUME Inv, NEW t \in Puts \cup Gets, PutFile(t)
  PROVE  Inv'
<1> DEFINE s == To(snd[t], "request")
           f == Frame("request", source[t][1])
<1>1. /\ t \in Transfers /\ t \in Puts \ Recursive /\ snd[t].pc = "new"
      /\ snd[t] \in Sides /\ SndOK(t, snd[t]) /\ source[t] \in [Entries(t) -> Sizes]
      /\ source[t][1] \in Nat
  BY SenderKnown DEF PutFile
<1>2. /\ Shorter(bwd[t], bwd[t]) /\ bwd' = [bwd EXCEPT ![t] = bwd[t]]
      /\ UNCHANGED <<active, source, changed>> /\ looked' = [looked EXCEPT ![t] = source[t]]
  BY SenderKnown DEF PutFile
<1>3. /\ s \in Sides /\ s.pc = "request"
      /\ s.entry = snd[t].entry /\ s.count = snd[t].count /\ s.total = snd[t].total
      /\ s.size = snd[t].size
  BY <1>1, StayedSide DEF SndPlaces, Ended
<1>4. f \in Frames /\ f.kind = "request" /\ f.n = source[t][1]
  BY <1>1, FrameFacts DEF Kinds
<1>5. snd' = [snd EXCEPT ![t] = s] /\ SndWrite(t, f) /\ UNCHANGED <<rcv, files, env>>
  BY DEF PutFile, SndTo
<1> HIDE DEF s, f
<1>6. SndOK(t, s)
  BY <1>1, <1>3 DEF SndOK, SndPlaces
<1>7. ~Looked(t, snd[t]) /\ Looked(t, s)
  BY <1>1, <1>3 DEF Looked
<1>8. \A a \in Places : SndAt(t, snd[t], a) =>
        \E c \in Places : Leads(t, source[t], a, f, c) /\ SndAt(t, s, c)
  <2>1. PICK c \in Places : AtFirst(t, c)
    BY PlaceFacts
  <2> QED
    BY <1>1, <1>3, <1>4, <2>1 DEF SndAt, Leads, Opening
<1>9. LookOK(t, s, rcv[t], Append(fwd[t], f)) /\ s.pc # "ok"
  BY <1>3, <1>7 DEF LookOK
<1> QED
  BY <1>1, <1>2, <1>3, <1>4, <1>5, <1>6, <1>7, <1>8, <1>9, SenderSends

\* The same for put_dir, which looks at every file of the tree.
LEMMA PutDirKeeps ==
  ASSUME Inv, NEW t \in Puts \cup Gets, PutDir(t)
  PROVE  Inv'
<1> DEFINE s == To(snd[t], "request")
           f == Frame("request", 0)
<1>1. /\ t \in Transfers /\ t \in Puts /\ t \in Recursive /\ snd[t].pc = "new"
      /\ snd[t] \in Sides /\ SndOK(t, snd[t]) /\ looked[t] \in [Entries(t) -> Sizes]
  BY SenderKnown DEF PutDir
<1>2. /\ Shorter(bwd[t], bwd[t]) /\ bwd' = [bwd EXCEPT ![t] = bwd[t]]
      /\ UNCHANGED <<active, source, changed>> /\ looked' = [looked EXCEPT ![t] = looked[t]]
  BY SenderKnown DEF PutDir
<1>3. /\ s \in Sides /\ s.pc = "request"
      /\ s.entry = snd[t].entry /\ s.count = snd[t].count /\ s.total = snd[t].total
      /\ s.size = snd[t].size
  BY <1>1, StayedSide DEF SndPlaces, Ended
<1>4. f \in Frames /\ f.kind = "request" /\ f.n = 0
  BY FrameFacts DEF Kinds
<1>5. snd' = [snd EXCEPT ![t] = s] /\ SndWrite(t, f) /\ UNCHANGED <<rcv, files, env>>
  BY DEF PutDir, SndTo
<1> HIDE DEF s, f
<1>6. SndOK(t, s) /\ s.pc # "ok"
  BY <1>1, <1>3 DEF SndOK, SndPlaces
<1>7. ~Looked(t, snd[t])
  BY <1>1 DEF Looked
<1>8. \A a \in Places : SndAt(t, snd[t], a) =>
        \E c \in Places : Leads(t, looked[t], a, f, c) /\ SndAt(t, s, c)
  <2>1. PICK c \in Places : AtFirst(t, c)
    BY PlaceFacts
  <2> QED
    BY <1>1, <1>3, <1>4, <2>1 DEF SndAt, Leads, Opening
<1>9. LookOK(t, s, rcv[t], Append(fwd[t], f))
  <2>1. LookOK(t, snd[t], rcv[t], fwd[t])
    BY DEF Inv, TransferInv, TransferOK
  <2>2. fwd[t] = <<>> /\ rcv[t].pc \notin Handling
    BY <1>1, <1>7, <2>1 DEF LookOK
  <2>3. Append(fwd[t], f) = <<f>>
    BY <2>2
  <2>4. \A i \in 1 .. Len(<<f>>) : <<f>>[i].kind = "request"
    BY <1>4
  <2> QED
    BY <1>3, <2>2, <2>3, <2>4 DEF LookOK
<1> QED
  BY <1>1, <1>2, <1>3, <1>4, <1>5, <1>6, <1>7, <1>8, <1>9, SenderSends

\* put_file reads Ready and starts on its only file.
LEMMA PutFileReadyKeeps ==
  ASSUME Inv, NEW t \in Puts \cup Gets, PutFileReady(t)
  PROVE  Inv'
<1> DEFINE s == To(snd[t], "sending")
           b == Tail(bwd[t])
<1>1. /\ t \in Transfers /\ t \in Puts \ Recursive /\ snd[t].pc = "request"
      /\ snd[t] \in Sides /\ SndOK(t, snd[t]) /\ looked[t] \in [Entries(t) -> Sizes]
  BY SenderKnown DEF PutFileReady
<1>2. /\ Shorter(bwd[t], b) /\ bwd' = [bwd EXCEPT ![t] = b]
      /\ UNCHANGED <<active, source, changed>> /\ looked' = [looked EXCEPT ![t] = looked[t]]
      /\ UNCHANGED <<fwd, rcv, files, env>>
  BY SenderKnown DEF PutFileReady, SndGets
<1> HIDE DEF b
<1>3. CASE SndTo(t, "failed")
  BY <1>1, <1>2, <1>3, SenderFails
<1>4. CASE SndTo(t, "sending")
  <2>1. /\ s \in Sides /\ s.pc = "sending"
        /\ s.entry = snd[t].entry /\ s.count = snd[t].count /\ s.total = snd[t].total
        /\ s.size = snd[t].size
    BY <1>1, StayedSide DEF SndPlaces, Ended
  <2>2. snd' = [snd EXCEPT ![t] = s]
    BY <1>4 DEF SndTo
  <2> HIDE DEF s
  <2>3. SndOK(t, s) /\ Looked(t, s) /\ s.pc # "ok"
    <3>1. s.entry = 1 /\ s.count = 0 /\ s.total = 0 /\ MaxSize * (1 - 1) + 0 = 0
      BY <1>1, <2>1, Products DEF SndOK
    <3>2. s.total <= MaxSize * (s.entry - 1) + s.count
      BY <3>1
    <3> QED
      BY <1>1, <2>1, <3>1, <3>2, DestFacts DEF SndOK, SndPlaces, Looked
  <2>4. \A a \in Places : SndAt(t, snd[t], a) => SndAt(t, s, a)
    BY <1>1, <2>1 DEF SndAt, AtFirst, SndOK
  <2> QED
    BY <1>1, <1>2, <2>1, <2>2, <2>3, <2>4, SenderTurns
<1> QED
  BY <1>3, <1>4 DEF PutFileReady

\* put_dir reads Ready and starts on the tree.
LEMMA PutDirReadyKeeps ==
  ASSUME Inv, NEW t \in Puts \cup Gets, PutDirReady(t)
  PROVE  Inv'
<1> DEFINE s == To(snd[t], "header")
           b == Tail(bwd[t])
<1>1. /\ t \in Transfers /\ t \in Puts /\ t \in Recursive /\ snd[t].pc = "request"
      /\ snd[t] \in Sides /\ SndOK(t, snd[t]) /\ source[t] \in [Entries(t) -> Sizes]
  BY SenderKnown DEF PutDirReady
<1>2. /\ Shorter(bwd[t], b) /\ bwd' = [bwd EXCEPT ![t] = b]
      /\ UNCHANGED <<active, source, changed>> /\ looked' = [looked EXCEPT ![t] = source[t]]
      /\ UNCHANGED <<fwd, rcv, files, env>>
  BY SenderKnown DEF PutDirReady, SndGets
<1>3. /\ s \in Sides /\ s.pc = "header"
      /\ s.entry = snd[t].entry /\ s.count = snd[t].count /\ s.total = snd[t].total
      /\ s.size = snd[t].size
  BY <1>1, StayedSide DEF SndPlaces, Ended
<1>4. snd' = [snd EXCEPT ![t] = s]
  BY DEF PutDirReady, SndTo
<1> HIDE DEF s, b
<1>5. SndOK(t, s) /\ Looked(t, s) /\ ~Looked(t, snd[t]) /\ s.pc # "ok"
  <2>1. s.entry = 1 /\ s.count = 0 /\ s.total = 0 /\ MaxSize * (1 - 1) = 0
    BY <1>1, <1>3, Products DEF SndOK
  <2> QED
    BY <1>1, <1>3, <2>1 DEF SndOK, SndPlaces, Looked
<1>6. \A a \in Places : SndAt(t, snd[t], a) => SndAt(t, s, a)
  BY <1>1, <1>3 DEF SndAt, AtFirst, SndOK
<1> QED
  BY <1>1, <1>2, <1>3, <1>4, <1>5, <1>6, SenderTurns

\* The server answers a download with Ready, or with an error.
LEMMA GetFileKeeps ==
  ASSUME Inv, NEW t \in Puts \cup Gets, GetFile(t) \/ GetDir(t)
  PROVE  Inv'
<1> DEFINE s == To(snd[t], IF t \in Recursive THEN "header" ELSE "sending")
           f == Frame("ready", IF t \in Recursive THEN 0 ELSE source[t][1])
           b == Tail(bwd[t])
<1>1. /\ t \in Transfers /\ t \in Gets /\ t \notin Puts /\ snd[t].pc = "new"
      /\ snd[t] \in Sides /\ SndOK(t, snd[t]) /\ source[t] \in [Entries(t) -> Sizes]
      /\ source[t][1] \in Nat
  BY SenderKnown, TransfersAssumption DEF GetFile, GetDir
<1>2. /\ Shorter(bwd[t], b) /\ bwd' = [bwd EXCEPT ![t] = b]
      /\ UNCHANGED <<active, source, changed>> /\ looked' = [looked EXCEPT ![t] = source[t]]
      /\ UNCHANGED <<rcv, files, env>>
  BY SenderKnown DEF GetFile, GetDir, SndGets
<1>3. ~Looked(t, snd[t])
  BY <1>1 DEF Looked
<1>4. CASE SndError(t) /\ SndTo(t, "failed")
  <2> HIDE DEF b
  <2> QED
    BY <1>1, <1>2, <1>3, <1>4, SenderFails
<1>5. CASE SndWrite(t, f) /\ snd' = [snd EXCEPT ![t] = s]
  <2>1. /\ s \in Sides /\ s.pc = IF t \in Recursive THEN "header" ELSE "sending"
        /\ s.entry = snd[t].entry /\ s.count = snd[t].count /\ s.total = snd[t].total
        /\ s.size = snd[t].size
    BY <1>1, StayedSide DEF SndPlaces, Ended
  <2>2. f \in Frames /\ f.kind = "ready" /\ f.n = IF t \in Recursive THEN 0 ELSE source[t][1]
    BY <1>1, FrameFacts DEF Kinds
  <2> HIDE DEF s, b, f
  <2>3. s.entry = 1 /\ s.count = 0 /\ s.total = 0 /\ s.size = 0
    BY <1>1, <2>1 DEF SndOK
  <2>4. SndOK(t, s) /\ Looked(t, s)
    <3>1. MaxSize * (1 - 1) = 0 /\ MaxSize * (1 - 1) + 0 = 0
      BY Products
    <3>2. s.total <= MaxSize * (s.entry - 1) + s.count /\ s.total <= MaxSize * (s.entry - 1)
      BY <2>3, <3>1
    <3> QED
      BY <1>1, <2>1, <2>3, <3>2, DestFacts DEF SndOK, SndPlaces, Looked
  <2>5. \A a \in Places : SndAt(t, snd[t], a) =>
          \E c \in Places : Leads(t, source[t], a, f, c) /\ SndAt(t, s, c)
    <3>1. PICK c \in Places : AtFirst(t, c)
      BY PlaceFacts
    <3>2. SndAt(t, s, c)
      BY <2>1, <2>3, <3>1 DEF SndAt, AtFirst
    <3> QED
      BY <1>1, <2>2, <3>1, <3>2 DEF SndAt, Leads, Opening
  <2>6. LookOK(t, s, rcv[t], Append(fwd[t], f))
    BY <2>4 DEF LookOK
  <2> QED
    BY <1>1, <1>2, <1>3, <1>5, <2>1, <2>2, <2>4, <2>5, <2>6, SenderSends
<1> QED
  BY <1>4, <1>5 DEF GetFile, GetDir, SndTo

\* A total that one file more may have been added to.
LEMMA TotalBound ==
  ASSUME NEW total \in Nat, NEW count \in Nat, NEW m \in Nat, NEW k \in Nat, NEW max \in Nat,
         total <= m + count, count <= max, m + max = k
  PROVE  total <= k
OBVIOUS

\* the bounds of what is sent of one file and of all
LEMMA SentBounds ==
  ASSUME NEW t \in Transfers, NEW e \in Entries(t)
  PROVE  /\ e \in Nat /\ e >= 1 /\ e <= Len(Dest[t]) /\ Len(Dest[t]) \in Nat /\ MaxSize \in Nat
         /\ MaxSize * (e - 1) \in Nat /\ MaxSize * (e - 1) + MaxSize = MaxSize * e
         /\ MaxSize * e \in Nat /\ MaxSize * e <= MaxSize * Len(Dest[t])
         /\ MaxSize * Len(Dest[t]) \in Nat
<1>1. e \in Nat /\ e >= 1 /\ e <= Len(Dest[t]) /\ Len(Dest[t]) \in Nat /\ MaxSize \in Nat
  BY DestFacts, SizeFacts DEF Entries
<1>2. e - 1 \in Nat /\ (e - 1) + 1 = e
  BY <1>1
<1>3. MaxSize * (e - 1) \in Nat /\ MaxSize * ((e - 1) + 1) = MaxSize * (e - 1) + MaxSize
  BY <1>2, Products
<1>4. MaxSize * e \in Nat /\ MaxSize * Len(Dest[t]) \in Nat /\ MaxSize * e <= MaxSize * Len(Dest[t])
  BY <1>1, Products
<1> QED
  BY <1>1, <1>2, <1>3, <1>4

\* The sender of a tree writes the next file's header.
LEMMA NewEntryKeeps ==
  ASSUME Inv, NEW t \in Puts \cup Gets, NewEntry(t)
  PROVE  Inv'
<1> DEFINE s == [snd[t] EXCEPT !.pc = "sending", !.count = 0]
           f == Frame("entry", looked[t][snd[t].entry])
<1>1. /\ t \in Transfers /\ snd[t].pc = "header" /\ snd[t].entry \in Entries(t)
      /\ snd[t] \in Sides /\ SndOK(t, snd[t]) /\ looked[t] \in [Entries(t) -> Sizes]
      /\ t \in Recursive
  BY SenderKnown DEF NewEntry, SndOK
<1>2. /\ Shorter(bwd[t], bwd[t]) /\ bwd' = [bwd EXCEPT ![t] = bwd[t]]
      /\ UNCHANGED <<active, source, changed>> /\ looked' = [looked EXCEPT ![t] = looked[t]]
      /\ UNCHANGED <<rcv, files, env>> /\ SndWrite(t, f)
  BY SenderKnown DEF NewEntry
<1>3. looked[t][snd[t].entry] \in Nat
  BY <1>1, SizeFacts
<1>4. f \in Frames /\ f.kind = "entry" /\ f.n = looked[t][snd[t].entry]
  BY <1>3, FrameFacts DEF Kinds
<1>5. /\ s \in Sides /\ s.pc = "sending" /\ s.count = 0
      /\ s.entry = snd[t].entry /\ s.total = snd[t].total /\ s.size = snd[t].size
  BY <1>1 DEF Sides, SndPlaces
<1>6. snd' = [snd EXCEPT ![t] = s]
  BY <1>1 DEF NewEntry, Inv, TypeInv
<1> HIDE DEF s, f
<1>7. SndOK(t, s) /\ Looked(t, s) /\ s.pc # "ok"
  <2>1. s.total <= MaxSize * (s.entry - 1) + s.count
    <3>1. s.total <= MaxSize * (s.entry - 1)
      BY <1>1, <1>5 DEF SndOK
    <3>2. MaxSize * (s.entry - 1) \in Nat
      BY <1>1, <1>5, SentBounds
    <3> QED
      BY <1>5, <3>1, <3>2
  <2>2. s.count <= MaxSize
    BY <1>5, SizeFacts
  <2>3. s.entry \in 1 .. Len(Dest[t]) + 1 /\ s.size = 0 /\ s.total <= MaxSize * Len(Dest[t])
    BY <1>1, <1>5 DEF SndOK
  <2> QED
    BY <1>1, <1>5, <2>1, <2>2, <2>3 DEF SndOK, SndPlaces, Ended, Looked
<1>8. \A a \in Places : SndAt(t, snd[t], a) =>
        \E c \in Places : Leads(t, looked[t], a, f, c) /\ SndAt(t, s, c)
  <2>1. s.entry \in Nat
    BY <1>1, <1>5, DestFacts
  <2>2. PICK c \in Places : AtBody(c, s.entry, 0)
    BY <2>1, PlaceFacts
  <2>3. SndAt(t, s, c)
    BY <1>5, <2>2 DEF SndAt
  <2> QED
    BY <1>1, <1>4, <1>5, <2>2, <2>3 DEF SndAt, Leads, AtTop
<1>9. LookOK(t, s, rcv[t], Append(fwd[t], f))
  BY <1>7 DEF LookOK
<1> QED
  BY <1>1, <1>2, <1>4, <1>5, <1>6, <1>7, <1>8, <1>9, SenderSends

\* The sender writes one more block of the file it has open.
LEMMA SendChunkKeeps ==
  ASSUME Inv, NEW t \in Puts \cup Gets, SendChunk(t)
  PROVE  Inv'
<1> DEFINE s == [snd[t] EXCEPT !.count = @ + 1, !.total = @ + 1]
           f == Frame("chunk", 0)
<1>1. /\ t \in Transfers /\ snd[t].pc = "sending" /\ snd[t].entry \in Entries(t)
      /\ snd[t] \in Sides /\ SndOK(t, snd[t]) /\ looked[t] \in [Entries(t) -> Sizes]
      /\ source[t] \in [Entries(t) -> Sizes]
  BY SenderKnown DEF SendChunk, SndOK
<1>2. /\ Shorter(bwd[t], bwd[t]) /\ bwd' = [bwd EXCEPT ![t] = bwd[t]]
      /\ UNCHANGED <<active, source, changed>> /\ looked' = [looked EXCEPT ![t] = looked[t]]
      /\ UNCHANGED <<rcv, files, env>> /\ SndWrite(t, f)
  BY SenderKnown DEF SendChunk
<1>3. f \in Frames /\ f.kind = "chunk"
  BY FrameFacts DEF Kinds
<1>4. /\ s \in Sides /\ s.pc = "sending" /\ s.count = snd[t].count + 1
      /\ s.entry = snd[t].entry /\ s.total = snd[t].total + 1 /\ s.size = snd[t].size
      /\ snd[t].count \in Nat /\ snd[t].total \in Nat /\ snd[t].entry \in Nat
  <2>1. /\ snd[t].count \in Nat /\ snd[t].total \in Nat /\ snd[t].entry \in Nat
        /\ snd[t].count + 1 \in Nat /\ snd[t].total + 1 \in Nat
    BY <1>1 DEF Sides
  <2>2. s \in Sides
    BY <1>1, <2>1 DEF Sides
  <2>3. /\ s.pc = "sending" /\ s.count = snd[t].count + 1
        /\ s.entry = snd[t].entry /\ s.total = snd[t].total + 1 /\ s.size = snd[t].size
    BY <1>1 DEF Sides
  <2> QED
    BY <2>1, <2>2, <2>3
<1>5. snd' = [snd EXCEPT ![t] = s]
  BY <1>1 DEF SendChunk, Inv, TypeInv
<1> HIDE DEF s, f
<1>6. snd[t].count < MaxSize
  <2> DEFINE z == source[t][snd[t].entry]
  <2>1. z \in Sizes /\ ~(snd[t].count >= z)
    BY <1>1 DEF SendChunk, AtEnd
  <2> HIDE DEF z
  <2>2. z \in Nat /\ z <= MaxSize /\ MaxSize \in Nat
    BY <2>1, SizeFacts
  <2> QED
    BY <1>4, <2>1, <2>2
<1>7. SndOK(t, s) /\ Looked(t, s) /\ s.pc # "ok"
  <2>1. snd[t].total <= MaxSize * (snd[t].entry - 1) + snd[t].count
    BY <1>1 DEF SndOK
  <2>2. /\ s.total <= MaxSize * (s.entry - 1) + s.count /\ s.total <= MaxSize * Len(Dest[t])
        /\ s.count <= MaxSize
    <3> DEFINE m == MaxSize * (snd[t].entry - 1)
               k == MaxSize * Len(Dest[t])
    <3>1. m \in Nat /\ k \in Nat /\ m + MaxSize <= k
      BY <1>1, SentBounds
    <3>2. m = MaxSize * (s.entry - 1)
      BY <1>4
    <3>3. snd[t].total <= m + snd[t].count
      BY <2>1
    <3> HIDE DEF m, k
    <3>4. snd[t].total + 1 <= m + (snd[t].count + 1) /\ snd[t].total + 1 <= k
      BY <1>4, <1>6, <3>1, <3>3, SizeFacts
    <3> QED
      BY <1>4, <1>6, <3>2, <3>4, SizeFacts DEF k
  <2>3. s.entry \in 1 .. Len(Dest[t]) + 1 /\ s.entry \in Entries(t) /\ s.size = 0
    BY <1>1, <1>4 DEF SndOK
  <2> QED
    BY <1>4, <2>2, <2>3 DEF SndOK, SndPlaces, Ended, Looked
<1>8. \A a \in Places : SndAt(t, snd[t], a) =>
        \E c \in Places : Leads(t, looked[t], a, f, c) /\ SndAt(t, s, c)
  <2>1. PICK c \in Places : AtBody(c, s.entry, s.count)
    BY <1>4, PlaceFacts
  <2>2. SndAt(t, s, c)
    BY <1>4, <2>1 DEF SndAt
  <2> QED
    BY <1>1, <1>3, <1>4, <1>6, <2>1, <2>2 DEF SndAt, Leads, AtBody
<1>9. LookOK(t, s, rcv[t], Append(fwd[t], f))
  BY <1>7 DEF LookOK
<1> QED
  BY <1>1, <1>2, <1>3, <1>4, <1>5, <1>7, <1>8, <1>9, SenderSends

\* The sender of a tree writes the end of a file.
LEMMA EntryCompleteKeeps ==
  ASSUME Inv, NEW t \in Puts \cup Gets, EntryComplete(t)
  PROVE  Inv'
<1> DEFINE s == [snd[t] EXCEPT !.pc = "header", !.entry = @ + 1]
           f == Frame("entry_end", 0)
<1>1. /\ t \in Transfers /\ snd[t].pc = "sending" /\ snd[t].entry \in Entries(t)
      /\ snd[t] \in Sides /\ SndOK(t, snd[t]) /\ looked[t] \in [Entries(t) -> Sizes]
      /\ t \in Recursive
  BY SenderKnown DEF EntryComplete, SndOK
<1>2. /\ Shorter(bwd[t], bwd[t]) /\ bwd' = [bwd EXCEPT ![t] = bwd[t]]
      /\ UNCHANGED <<active, source, changed>> /\ looked' = [looked EXCEPT ![t] = looked[t]]
      /\ UNCHANGED <<rcv, files, env>> /\ SndWrite(t, f)
  BY SenderKnown DEF EntryComplete
<1>3. f \in Frames /\ f.kind = "entry_end"
  BY FrameFacts DEF Kinds
<1>4. /\ s \in Sides /\ s.pc = "header" /\ s.count = snd[t].count
      /\ s.entry = snd[t].entry + 1 /\ s.total = snd[t].total /\ s.size = snd[t].size
      /\ snd[t].count \in Nat /\ snd[t].total \in Nat /\ snd[t].entry \in Nat
  <2>1. /\ snd[t].count \in Nat /\ snd[t].total \in Nat /\ snd[t].entry \in Nat
        /\ snd[t].entry + 1 \in Nat
    BY <1>1 DEF Sides
  <2>2. s \in Sides
    BY <1>1, <2>1 DEF Sides, SndPlaces
  <2>3. /\ s.pc = "header" /\ s.count = snd[t].count
        /\ s.entry = snd[t].entry + 1 /\ s.total = snd[t].total /\ s.size = snd[t].size
    BY <1>1 DEF Sides
  <2> QED
    BY <2>1, <2>2, <2>3
<1>5. snd' = [snd EXCEPT ![t] = s]
  BY <1>1 DEF EntryComplete, Inv, TypeInv
<1> HIDE DEF s, f
<1>6. SndOK(t, s) /\ Looked(t, s) /\ s.pc # "ok"
  <2>1. /\ snd[t].total <= MaxSize * (snd[t].entry - 1) + snd[t].count
        /\ snd[t].count <= MaxSize
    BY <1>1 DEF SndOK
  <2>2. s.total <= MaxSize * snd[t].entry /\ s.entry \in 1 .. Len(Dest[t]) + 1
    <3> DEFINE m == MaxSize * (snd[t].entry - 1)
               k == MaxSize * snd[t].entry
    <3>1. /\ m \in Nat /\ k \in Nat /\ m + MaxSize = k
          /\ snd[t].entry >= 1 /\ snd[t].entry <= Len(Dest[t]) /\ Len(Dest[t]) \in Nat
      BY <1>1, SentBounds
    <3>2. snd[t].total <= m + snd[t].count /\ snd[t].count <= MaxSize
      BY <2>1
    <3> HIDE DEF m, k
    <3>3. snd[t].total <= k /\ snd[t].entry + 1 \in 1 .. Len(Dest[t]) + 1
      <4>1. MaxSize \in Nat /\ snd[t].total \in Nat /\ snd[t].count \in Nat /\ snd[t].entry \in Nat
        BY <1>4, SizeFacts
      <4>2. snd[t].total <= k
        BY ONLY <3>1, <3>2, <4>1, TotalBound
      <4> QED
        BY <3>1, <4>1, <4>2
    <3> QED
      BY <1>4, <3>3 DEF k
  <2>3. s.entry - 1 = snd[t].entry
    BY <1>4
  <2>4. s.total <= MaxSize * (s.entry - 1)
    BY <2>2, <2>3
  <2>5. s.count <= MaxSize /\ s.size = 0 /\ s.total <= MaxSize * Len(Dest[t])
    BY <1>1, <1>4 DEF SndOK
  <2> QED
    BY <1>1, <1>4, <2>2, <2>4, <2>5 DEF SndOK, SndPlaces, Ended, Looked
<1>7. \A a \in Places : SndAt(t, snd[t], a) =>
        \E c \in Places : Leads(t, looked[t], a, f, c) /\ SndAt(t, s, c)
  <2>1. PICK c \in Places : AtTop(c, snd[t].entry + 1)
    BY <1>4, PlaceFacts
  <2>2. SndAt(t, s, c)
    BY <1>4, <2>1 DEF SndAt
  <2> QED
    BY <1>1, <1>3, <2>1, <2>2 DEF SndAt, Leads, AtBody
<1>8. LookOK(t, s, rcv[t], Append(fwd[t], f))
  BY <1>6 DEF LookOK
<1> QED
  BY <1>1, <1>2, <1>3, <1>4, <1>5, <1>6, <1>7, <1>8, SenderSends

\* all that was announced is sent, whether an answer is awaited or not
LEMMA CompleteKeeps ==
  ASSUME Inv, NEW t \in Puts \cup Gets,
         PutComplete(t) \/ GetFileComplete(t) \/ GetDirComplete(t)
  PROVE  Inv'
<1> DEFINE s == To(snd[t], IF t \in Puts THEN "confirm" ELSE "ok")
           n == IF t \in Gets \ Recursive THEN looked[t][1] ELSE snd[t].total
           f == Frame("complete", n)
<1>1. /\ t \in Transfers /\ snd[t] \in Sides /\ SndOK(t, snd[t])
      /\ looked[t] \in [Entries(t) -> Sizes] /\ looked[t][1] \in Nat
      /\ t \in Gets => t \notin Puts
  BY SenderKnown, TransfersAssumption
<1>2. /\ Shorter(bwd[t], bwd[t]) /\ bwd' = [bwd EXCEPT ![t] = bwd[t]]
      /\ UNCHANGED <<active, source, changed>> /\ looked' = [looked EXCEPT ![t] = looked[t]]
      /\ UNCHANGED <<rcv, files, env>>
  BY SenderKnown DEF PutComplete, GetFileComplete, GetDirComplete
<1>3. SndWrite(t, f) /\ snd' = [snd EXCEPT ![t] = s]
  BY <1>1 DEF PutComplete, GetFileComplete, GetDirComplete, SndTo
<1>4. n \in Nat
  BY <1>1 DEF Sides
<1>5. f \in Frames /\ f.kind = "complete"
  BY <1>4, FrameFacts DEF Kinds
<1>6. t \in Recursive => snd[t].pc = "header" /\ snd[t].entry = Len(Dest[t]) + 1
  <2>1. t \in Recursive => snd[t].pc = "header" /\ snd[t].entry \notin Entries(t)
    BY DEF PutComplete, GetFileComplete, GetDirComplete
  <2>2. snd[t].entry \in 1 .. Len(Dest[t]) + 1 /\ Len(Dest[t]) \in Nat
    BY <1>1, DestFacts DEF SndOK
  <2> QED
    BY <2>1, <2>2 DEF Entries
<1>7. s \in Sides /\ SndOK(t, s) /\ Looked(t, s) /\ (t \in Puts => s.pc # "ok")
      /\ \A a : SndAt(t, s, a)
  <2>1. CASE t \in Puts
    <3>1. /\ s \in Sides /\ s.pc = "confirm"
          /\ s.entry = snd[t].entry /\ s.count = snd[t].count /\ s.total = snd[t].total
          /\ s.size = snd[t].size
      BY <1>1, <2>1, StayedSide DEF SndPlaces, Ended
    <3> HIDE DEF s
    <3>2. SndOK(t, s) /\ Looked(t, s) /\ \A a : SndAt(t, s, a)
      BY <1>1, <2>1, <3>1 DEF SndOK, SndPlaces, Ended, Looked, SndAt
    <3> QED
      BY <3>1, <3>2
  <2>2. CASE t \notin Puts
    <3>1. "ok" \in Ended /\ s = To(snd[t], "ok")
      BY <2>2 DEF Ended
    <3> HIDE DEF s
    <3> QED
      BY <1>1, <2>2, <3>1, EndedSide
  <2> QED
    BY <2>1, <2>2
<1> HIDE DEF s, f
<1>8. \A a \in Places : SndAt(t, snd[t], a) =>
        \E c \in Places : Leads(t, looked[t], a, f, c) /\ SndAt(t, s, c)
  BY <1>5, <1>6, <1>7 DEF SndAt, Leads
<1>9. LookOK(t, s, rcv[t], Append(fwd[t], f))
  BY <1>7 DEF LookOK
<1> QED
  BY <1>1, <1>2, <1>3, <1>5, <1>7, <1>8, <1>9, SenderSends

\* the sender gives up, for any of its reasons
LEMMA GivingUpKeeps ==
  ASSUME Inv, NEW t \in Puts \cup Gets,
         \/ SourceFails(t) \/ SendFails(t) \/ SndRefused(t)
         \/ t \in Puts /\ Cancel(t)
  PROVE  Inv'
<1> DEFINE b == IF bwd' = bwd THEN bwd[t] ELSE Tail(bwd[t])
<1>1. /\ t \in Transfers /\ looked[t] \in [Entries(t) -> Sizes]
      /\ t \in Puts => t \notin Gets \cup Asks
  BY SenderKnown, TransfersAssumption
<1>2. UNCHANGED <<sizes, rcv, files, env>> /\ SndTo(t, "failed")
  BY <1>1 DEF SourceFails, SendFails, SndRefused, Cancel
<1>3. UNCHANGED bwd \/ SndRead(t)
  BY DEF SourceFails, SendFails, SndRefused, Cancel, SndGetsOther, SndReadFails
<1>4. Shorter(bwd[t], b) /\ bwd' = [bwd EXCEPT ![t] = b]
  BY <1>3, SenderKnown
<1>5. UNCHANGED <<active, source, changed>> /\ looked' = [looked EXCEPT ![t] = looked[t]]
  BY <1>2, SenderKnown
<1>6. SndError(t) \/ UNCHANGED fwd
  BY DEF SourceFails, SendFails, SndRefused, Cancel, SndWriteFails
<1> HIDE DEF b
<1> QED
  BY <1>1, <1>2, <1>4, <1>5, <1>6, SenderFails

\* The client reads the server's Complete: the upload succeeded.
LEMMA PutConfirmedKeeps ==
  ASSUME Inv, NEW t \in Puts \cup Gets, PutConfirmed(t)
  PROVE  Inv'
<1> DEFINE s == To(snd[t], "ok")
           b == Tail(bwd[t])
<1>1. /\ t \in Transfers /\ looked[t] \in [Entries(t) -> Sizes]
  BY SenderKnown
<1>2. /\ Shorter(bwd[t], b) /\ bwd' = [bwd EXCEPT ![t] = b]
      /\ UNCHANGED <<active, source, changed>> /\ looked' = [looked EXCEPT ![t] = looked[t]]
      /\ UNCHANGED <<fwd, rcv, files, env>>
  BY SenderKnown DEF PutConfirmed, SndGets
<1>3. CASE SndTo(t, "failed")
  <2> HIDE DEF b
  <2> QED
    BY <1>1, <1>2, <1>3, SenderFails
<1>4. CASE SndTo(t, "ok")
  <2>1. "ok" \in Ended
    BY DEF Ended
  <2>2. s \in Sides /\ SndOK(t, s) /\ Looked(t, s) /\ \A a : SndAt(t, s, a)
    BY <1>1, <2>1, EndedSide
  <2>3. AllIn(t, file)
    <3>1. SavedOK(t, snd[t], rcv[t], bwd[t], file)
      BY DEF Inv, TransferInv, TransferOK
    <3>2. bwd[t] \in Seq(Frames) /\ bwd[t] # <<>> /\ Head(bwd[t]).kind = "complete"
      BY <1>1 DEF PutConfirmed, SndGets, SndRead, Inv, TypeInv
    <3>3. 1 \in 1 .. Len(bwd[t]) /\ bwd[t][1].kind = "complete"
      BY <3>2, EmptySeq, LenProperties
    <3> QED
      BY <3>1, <3>3, Zenon DEF SavedOK
  <2>4. snd' = [snd EXCEPT ![t] = s]
    BY <1>4 DEF SndTo
  <2> HIDE DEF s, b
  <2> QED
    BY <1>1, <1>2, <2>2, <2>3, <2>4, SenderTurns
<1> QED
  BY <1>3, <1>4 DEF PutConfirmed

\* Every step of a sender keeps the invariant.
LEMMA SenderStep ==
  ASSUME Inv, NEW t \in Puts \cup Gets, PutFile(t) \/ PutDir(t) \/ Sender(t)
  PROVE  Inv'
BY PutFileKeeps, PutDirKeeps, PutFileReadyKeeps, PutDirReadyKeeps, GetFileKeeps, NewEntryKeeps,
   SendChunkKeeps, EntryCompleteKeeps, CompleteKeeps, GivingUpKeeps, PutConfirmedKeeps
   DEF Sender

-----------------------------------------------------------------------------
(***************************************************************************)
(* The receiver's steps.                                                   *)
(***************************************************************************)

\* as it was, or with a frame of one of kinds more
Longer(q, q2, kinds) ==
  q2 = q \/ \E f \in Frames : f.kind \in kinds /\ Len(q) < Window /\ q2 = Append(q, f)

\* every frame of it is one of these or was there
Adds(q, q2, kinds) ==
  \A i \in 1 .. Len(q2) : q2[i].kind \in kinds \/ \E j \in 1 .. Len(q) : q2[i] = q[j]

\* A stream written to holds what it held and the frame written.
LEMMA LongerFacts ==
  ASSUME NEW q \in Seq(Frames), Len(q) <= Window, NEW q2, NEW kinds, Longer(q, q2, kinds)
  PROVE  q2 \in Seq(Frames) /\ Len(q2) <= Window /\ Adds(q, q2, kinds)
<1>1. CASE q2 = q
  BY <1>1 DEF Adds
<1>2. ASSUME NEW f \in Frames, f.kind \in kinds, Len(q) < Window, q2 = Append(q, f)
      PROVE  q2 \in Seq(Frames) /\ Len(q2) <= Window /\ Adds(q, q2, kinds)
  <2>1. /\ q2 \in Seq(Frames) /\ Len(q2) = Len(q) + 1 /\ q2[Len(q) + 1] = f
        /\ \A i \in 1 .. Len(q) : q2[i] = q[i]
    BY <1>2, AppendProperties
  <2>2. Len(q) \in Nat /\ Window \in Nat
    BY LenProperties, TransfersAssumption
  <2>3. Len(q2) <= Window
    BY <1>2, <2>1, <2>2
  <2>4. ASSUME NEW i \in 1 .. Len(q2)
        PROVE  q2[i].kind \in kinds \/ \E j \in 1 .. Len(q) : q2[i] = q[j]
    <3>1. i \in 1 .. Len(q) \/ i = Len(q) + 1
      BY <2>1, <2>2
    <3> QED
      BY <1>2, <2>1, <3>1
  <2> QED
    BY <2>1, <2>3, <2>4 DEF Adds
<1> QED
  BY <1>1, <1>2, Zenon DEF Longer

\* what is known of a receiver
LEMMA ReceiverKnown ==
  ASSUME Inv, NEW t \in Puts \cup Gets
  PROVE  /\ t \in Transfers /\ rcv[t] \in Sides /\ RcvOK(t, rcv[t], looked[t])
         /\ looked[t] \in [Entries(t) -> Sizes]
         /\ PartOK(t, rcv[t], part[t]) /\ part[t] \in Contents /\ file \in [Paths -> Contents]
         /\ SavedOK(t, snd[t], rcv[t], bwd[t], file)
         /\ fwd[t] \in Seq(Frames) /\ bwd[t] \in Seq(Frames) /\ Len(bwd[t]) <= Window
         /\ part' = part => part' = [part EXCEPT ![t] = part[t]]
<1>1. t \in Transfers
  BY DEF Transfers
<1> QED
  BY <1>1 DEF Inv, TypeInv, TransferInv, TransferOK

\* what a receiver has read and written
LEMMA ReadFacts ==
  ASSUME Inv, NEW t \in Puts \cup Gets, RcvRead(t) \/ UNCHANGED fwd
  PROVE  Shorter(fwd[t], fwd'[t]) /\ fwd' = [fwd EXCEPT ![t] = fwd'[t]]
<1>1. t \in Transfers /\ fwd \in [Transfers -> Seq(Frames)]
  BY DEF Inv, TypeInv, Transfers
<1> QED
  BY <1>1 DEF RcvRead, Shorter

\* A receiver's write is one frame more on the stream back.
LEMMA WriteFacts ==
  ASSUME Inv, NEW t \in Puts \cup Gets, NEW k \in Kinds, NEW n \in Nat,
         RcvWrite(t, Frame(k, n)) \/ UNCHANGED bwd
  PROVE  Longer(bwd[t], bwd'[t], {k}) /\ bwd' = [bwd EXCEPT ![t] = bwd'[t]]
<1>1. t \in Transfers /\ bwd \in [Transfers -> Seq(Frames)]
  BY DEF Inv, TypeInv, Transfers
<1>2. CASE UNCHANGED bwd
  BY <1>1, <1>2 DEF Longer
<1>3. CASE RcvWrite(t, Frame(k, n))
  <2>1. Frame(k, n) \in Frames /\ Frame(k, n).kind \in {k}
    BY FrameFacts
  <2>2. /\ Len(bwd[t]) < Window /\ bwd'[t] = Append(bwd[t], Frame(k, n))
        /\ bwd' = [bwd EXCEPT ![t] = bwd'[t]]
    BY <1>1, <1>3 DEF RcvWrite, HasRoom
  <2> QED
    BY <2>1, <2>2, Zenon DEF Longer
<1> QED
  BY <1>2, <1>3

\* A receiver that reports an error writes nothing else.
LEMMA ReportFacts ==
  ASSUME Inv, NEW t \in Puts \cup Gets, Report(t) \/ RcvError(t) \/ UNCHANGED bwd
  PROVE  Longer(bwd[t], bwd'[t], {"error"}) /\ bwd' = [bwd EXCEPT ![t] = bwd'[t]]
<1>1. RcvWrite(t, Frame("error", 0)) \/ UNCHANGED bwd
  BY DEF Report, RcvError, RcvWriteFails
<1>2. "error" \in Kinds /\ 0 \in Nat
  BY DEF Kinds
<1> QED
  BY <1>1, <1>2, WriteFacts

\* The frame that is read leads on from where the receiver is, and unless it is
\* a request for a directory it was sent after the sender had looked.
LEMMA ReadLeads ==
  ASSUME Inv, NEW t \in Puts \cup Gets, fwd[t] # <<>>
  PROVE  /\ \E a, b \in Places : RcvAt(t, rcv[t], a) /\ Leads(t, looked[t], a, Head(fwd[t]), b)
         /\ Head(fwd[t]).kind # "request" \/ t \notin Recursive => Looked(t, snd[t])
         /\ Head(fwd[t]) \in Frames
<1>1. fwd[t] \in Seq(Frames)
  BY ReceiverKnown
<1>2. Path(t, snd[t], rcv[t], fwd[t], looked[t]) /\ LookOK(t, snd[t], rcv[t], fwd[t])
  BY DEF Inv, TransferInv, TransferOK
<1>3. \E a, b \in Places : RcvAt(t, rcv[t], a) /\ Leads(t, looked[t], a, Head(fwd[t]), b)
  BY <1>1, <1>2, PathHead, Zenon
<1>4. 1 \in 1 .. Len(fwd[t]) /\ Head(fwd[t]) = fwd[t][1] /\ Head(fwd[t]) \in Frames
  BY <1>1, EmptySeq, LenProperties
<1>5. Head(fwd[t]).kind # "request" \/ t \notin Recursive => Looked(t, snd[t])
  BY <1>2, <1>4 DEF LookOK, Looked
<1> QED
  BY <1>3, <1>4, <1>5

\* The path after a step of the receiver that reads nothing, and one that reads.
LEMMA PathStays ==
  ASSUME Inv, NEW t \in Puts \cup Gets, NEW r, UNCHANGED fwd,
         \A a \in Places : RcvAt(t, rcv[t], a) => RcvAt(t, r, a)
  PROVE  Path(t, snd[t], r, fwd'[t], looked[t])
<1>1. fwd[t] \in Seq(Frames)
  BY ReceiverKnown
<1>2. Path(t, snd[t], rcv[t], fwd[t], looked[t])
  BY DEF Inv, TransferInv, TransferOK
<1>3. Path(t, snd[t], r, fwd[t], looked[t])
  BY <1>1, <1>2, PathMove
<1> QED
  BY <1>3

\* A receiver that has read a frame is one place further on the path.
LEMMA PathReads ==
  ASSUME Inv, NEW t \in Puts \cup Gets, NEW r, RcvRead(t),
         \A a, b \in Places :
           RcvAt(t, rcv[t], a) /\ Leads(t, looked[t], a, Head(fwd[t]), b) => RcvAt(t, r, b)
  PROVE  Path(t, snd[t], r, fwd'[t], looked[t])
<1>1. fwd[t] \in Seq(Frames) /\ fwd[t] # <<>> /\ fwd'[t] = Tail(fwd[t])
  BY ReceiverKnown DEF RcvRead, Inv, TypeInv
<1>2. Path(t, snd[t], rcv[t], fwd[t], looked[t])
  BY DEF Inv, TransferInv, TransferOK
<1>3. Path(t, snd[t], r, Tail(fwd[t]), looked[t])
  BY <1>1, <1>2, PathTail
<1> QED
  BY <1>1, <1>3

\* What a receiver does not touch stays right when it moves.
LEMMA ReceiverKeeps ==
  ASSUME Inv, NEW t \in Puts \cup Gets, NEW r \in Sides, NEW K,
         NEW P \in Contents, NEW F \in [Paths -> Contents],
         Shorter(fwd[t], fwd'[t]), fwd' = [fwd EXCEPT ![t] = fwd'[t]],
         Longer(bwd[t], bwd'[t], K), bwd' = [bwd EXCEPT ![t] = bwd'[t]],
         rcv' = [rcv EXCEPT ![t] = r], part' = [part EXCEPT ![t] = P], file' = F,
         UNCHANGED <<sizes, snd, env>>,
         Grows(file, F),
         \A d \in Paths : F[d] # file[d] =>
           t \in active /\ (Brings(t, snd[t], looked[t], F[d], d) \/ Excused(t, r)),
         rcv[t].pc # "dropped",
         RcvOK(t, r, looked[t]), PartOK(t, r, P),
         Path(t, snd[t], r, fwd'[t], looked[t]),
         r.pc \in Handling => Looked(t, snd[t]),
         r.pc \notin Ended => \A e \in Entries(t) : e < r.entry => InPlace(F, Dest[t][e]),
         r.pc = "ok" \/ "complete" \in K => AllIn(t, F),
         t \in Puts /\ r.pc \in {"open", "receive", "commit"} => F[Dest[t][r.entry]] # Old
  PROVE  Inv'
<1> DEFINE q == fwd'[t]
           b == bwd'[t]
<1>1. /\ t \in Transfers /\ TransferInv(t)
      /\ fwd[t] \in Seq(Frames) /\ bwd[t] \in Seq(Frames)
      /\ Len(fwd[t]) <= Window /\ Len(bwd[t]) <= Window
  BY ReceiverKnown DEF Inv, TypeInv
<1>0. Shorter(fwd[t], q) /\ Longer(bwd[t], b, K)
  OBVIOUS
<1> HIDE DEF q, b
<1>2. /\ q \in Seq(Frames) /\ Len(q) <= Len(fwd[t]) /\ (fwd[t] = <<>> => q = <<>>)
      /\ \A i \in 1 .. Len(q) : \E j \in 1 .. Len(fwd[t]) : q[i] = fwd[t][j]
  <2>1. q \in Seq(Frames) /\ Len(q) <= Len(fwd[t]) /\ (fwd[t] = <<>> => q = <<>>) /\ OnlyOf(fwd[t], q)
    BY ONLY <1>0, <1>1, ShorterFacts
  <2> QED
    BY <2>1 DEF OnlyOf
<1>3. /\ b \in Seq(Frames) /\ Len(b) <= Window
      /\ \A i \in 1 .. Len(b) : b[i].kind \in K \/ \E j \in 1 .. Len(bwd[t]) : b[i] = bwd[t][j]
  <2>1. b \in Seq(Frames) /\ Len(b) <= Window /\ Adds(bwd[t], b, K)
    BY <1>0, <1>1, LongerFacts
  <2> QED
    BY <2>1 DEF Adds
<1>4. Len(q) <= Window
  BY <1>1, <1>2, LenProperties, TransfersAssumption
<1>5. LookOK(t, snd[t], r, q)
  <2>1. LookOK(t, snd[t], rcv[t], fwd[t])
    BY <1>1 DEF TransferInv, TransferOK
  <2> QED
    BY ONLY <1>2, <2>1, r.pc \in Handling => Looked(t, snd[t]) DEF LookOK
<1>6. SavedOK(t, snd[t], r, b, F)
  <2>1. SavedOK(t, snd[t], rcv[t], bwd[t], file)
    BY <1>1 DEF TransferInv, TransferOK
  <2>2. AllIn(t, file) => AllIn(t, F)
    BY <1>1, DestFacts DEF AllIn, Grows
  <2>3. (\E i \in 1 .. Len(b) : b[i].kind = "complete") => AllIn(t, F)
    <3> SUFFICES ASSUME NEW i \in 1 .. Len(b), b[i].kind = "complete" PROVE AllIn(t, F)
      OBVIOUS
    <3>1. CASE b[i].kind \in K
      BY <3>1
    <3>2. CASE \E j \in 1 .. Len(bwd[t]) : b[i] = bwd[t][j]
      BY <2>1, <2>2, <3>2 DEF SavedOK
    <3> QED
      BY <1>3, <3>1, <3>2
  <2>4. t \in Puts /\ snd[t].pc = "ok" => AllIn(t, F)
    BY <2>1, <2>2 DEF SavedOK
  <2> QED
    BY <2>3, <2>4, Zenon DEF SavedOK
<1>7. TransferOK(t, snd[t], r, q, b, looked[t], P, F)
  BY <1>1, <1>5, <1>6 DEF TransferInv, TransferOK, q
<1>8. fwd' = [fwd EXCEPT ![t] = q] /\ bwd' = [bwd EXCEPT ![t] = b]
  BY DEF q, b
<1> QED
  BY <1>2, <1>3, <1>4, <1>7, <1>8, ReceiverMoves

\* A receiver that has ended is at the start of whatever path is left.
LEMMA PathAnywhere ==
  ASSUME Inv, NEW t \in Puts \cup Gets, NEW r, RcvRead(t) \/ UNCHANGED fwd,
         \A a : RcvAt(t, r, a)
  PROVE  Path(t, snd[t], r, fwd'[t], looked[t])
BY PathStays, PathReads

\* The receiver ends without success; its part file is gone, or was never made,
\* or is left behind.
LEMMA ReceiverEnds ==
  ASSUME Inv, NEW t \in Puts \cup Gets, NEW pc \in {"failed", "dropped"},
         RcvRead(t) \/ UNCHANGED fwd, Report(t) \/ RcvError(t) \/ UNCHANGED bwd,
         RcvTo(t, pc), rcv[t].pc \notin Ended,
         NEW P, part' = [part EXCEPT ![t] = P],
         \/ P = Absent
         \/ P = part[t] /\ (pc = "dropped" \/ rcv[t].pc \notin {"receive", "cleanup", "commit"})
         \/ P = <<>> /\ pc = "dropped" /\ t \in active,
         NEW F \in [Paths -> Contents], file' = F, Grows(file, F),
         \A d \in Paths : F[d] # file[d] => t \in active \cap Gets /\ pc = "dropped",
         UNCHANGED <<sizes, snd, env>>
  PROVE  Inv'
<1> DEFINE r == To(rcv[t], pc)
<1>1. /\ t \in Transfers /\ PartOK(t, rcv[t], part[t]) /\ part[t] \in Contents
      /\ pc \in Ended
  BY ReceiverKnown DEF Ended
<1>2. r \in Sides /\ r.pc = pc /\ RcvOK(t, r, looked[t]) /\ \A a : RcvAt(t, r, a)
  BY <1>1, EndedSide
<1>3. rcv' = [rcv EXCEPT ![t] = r]
  BY DEF RcvTo
<1> HIDE DEF r
<1>4. P \in Contents /\ PartOK(t, r, P)
  <2>1. <<>> \in Seq({t, Torn}) /\ <<>> \in Contents
    BY <1>1, EmptySeq, OwnChunks
  <2> QED
    BY <1>1, <1>2, <2>1 DEF PartOK, Contents, Ended
<1>5. Path(t, snd[t], r, fwd'[t], looked[t])
  BY <1>2, PathAnywhere
<1>6. Shorter(fwd[t], fwd'[t]) /\ fwd' = [fwd EXCEPT ![t] = fwd'[t]]
  BY ReadFacts
<1>7. Longer(bwd[t], bwd'[t], {"error"}) /\ bwd' = [bwd EXCEPT ![t] = bwd'[t]]
  BY ReportFacts
<1>8. \A d \in Paths : F[d] # file[d] => t \in active /\ Excused(t, r)
  BY <1>2 DEF Excused
<1>9. /\ rcv[t].pc # "dropped" /\ r.pc \notin Handling /\ r.pc # "ok" /\ "complete" \notin {"error"}
      /\ r.pc \in Ended /\ r.pc \notin {"open", "receive", "commit"}
  BY <1>1, <1>2 DEF Ended, Handling
<1> QED
  BY <1>2, <1>3, <1>4, <1>5, <1>6, <1>7, <1>8, <1>9, ReceiverKeeps

\* A step that touches no file leaves them as they were.
LEMMA SameFiles ==
  ASSUME Inv, NEW t \in Transfers
  PROVE  /\ file \in [Paths -> Contents] /\ Grows(file, file)
         /\ UNCHANGED files => part' = [part EXCEPT ![t] = part[t]] /\ file' = file
BY DEF Inv, TypeInv, Grows, files

\* The receiver is done with a file that went wrong, but for its part file.
LEMMA ReceiverCleans ==
  ASSUME Inv, NEW t \in Puts \cup Gets, rcv[t].pc = "receive",
         RcvRead(t) \/ UNCHANGED fwd, Report(t) \/ RcvError(t) \/ UNCHANGED bwd,
         RcvTo(t, "cleanup"), UNCHANGED <<sizes, snd, files, env>>
  PROVE  Inv'
<1> DEFINE r == To(rcv[t], "cleanup")
<1>1. /\ t \in Transfers /\ rcv[t] \in Sides /\ RcvOK(t, rcv[t], looked[t])
      /\ PartOK(t, rcv[t], part[t]) /\ part[t] \in Contents
      /\ SavedOK(t, snd[t], rcv[t], bwd[t], file)
  BY ReceiverKnown
<1>2. /\ r \in Sides /\ r.pc = "cleanup"
      /\ r.entry = rcv[t].entry /\ r.count = rcv[t].count /\ r.total = rcv[t].total
      /\ r.size = rcv[t].size
  BY <1>1, StayedSide DEF RcvPlaces, Ended
<1>3. rcv' = [rcv EXCEPT ![t] = r]
  BY DEF RcvTo
<1> HIDE DEF r
<1>4. RcvOK(t, r, looked[t]) /\ PartOK(t, r, part[t]) /\ \A a : RcvAt(t, r, a)
  BY <1>1, <1>2 DEF RcvOK, RcvPlaces, Handling, PartOK, RcvAt
<1>5. Path(t, snd[t], r, fwd'[t], looked[t])
  BY <1>4, PathAnywhere
<1>6. Shorter(fwd[t], fwd'[t]) /\ fwd' = [fwd EXCEPT ![t] = fwd'[t]]
  BY ReadFacts
<1>7. Longer(bwd[t], bwd'[t], {"error"}) /\ bwd' = [bwd EXCEPT ![t] = bwd'[t]]
  BY ReportFacts
<1>8. \A e \in Entries(t) : e < r.entry => InPlace(file, Dest[t][e])
  BY <1>1, <1>2 DEF SavedOK, Ended
<1>9. /\ file \in [Paths -> Contents] /\ Grows(file, file)
      /\ part' = [part EXCEPT ![t] = part[t]] /\ file' = file
  BY <1>1, SameFiles
<1>10. /\ rcv[t].pc # "dropped" /\ r.pc \notin Handling /\ r.pc # "ok" /\ "complete" \notin {"error"}
       /\ r.pc \notin {"open", "receive", "commit"}
  BY <1>2 DEF Handling
<1> QED
  BY <1>1, <1>2, <1>3, <1>4, <1>5, <1>6, <1>7, <1>8, <1>9, <1>10, ReceiverKeeps

\* the receiver gives up, for any of its reasons
LEMMA RcvGivingUpKeeps ==
  ASSUME Inv, NEW t \in Puts \cup Gets,
         \/ RcvRefused(t) \/ Cleanup(t) \/ SaveRefused(t) \/ NextFileFails(t)
         \/ t \in active /\ OpenFails(t)
         \/ t \in Gets /\ Cancel(t)
  PROVE  Inv'
<1>1. /\ t \in Transfers /\ file \in [Paths -> Contents] /\ Grows(file, file)
      /\ t \in Gets => t \notin Puts
  BY SameFiles, TransfersAssumption DEF Transfers
<1>2. RcvRead(t) \/ UNCHANGED fwd
  BY DEF RcvRefused, OpenFails, Cleanup, SaveRefused, NextFileFails, Cancel, RcvGetsOther,
         RcvReadFails
<1>3. Report(t) \/ RcvError(t) \/ UNCHANGED bwd
  BY DEF RcvRefused, OpenFails, Cleanup, SaveRefused, NextFileFails, Cancel, RcvWriteFails
<1>4. UNCHANGED <<sizes, snd, env, file>>
  BY <1>1 DEF RcvRefused, OpenFails, Cleanup, SaveRefused, NextFileFails, Cancel, files
<1>5. CASE (t \in active /\ OpenFails(t)) \/ Cleanup(t) \/ SaveRefused(t)
  <2>1. rcv[t].pc \notin Ended
    BY <1>5 DEF OpenFails, Cleanup, SaveRefused, Ended
  <2>2. \/ RcvTo(t, "failed") /\ part' = [part EXCEPT ![t] = Absent]
        \/ t \in active /\ RcvTo(t, "dropped") /\ part' = [part EXCEPT ![t] = <<>>]
    BY <1>5 DEF OpenFails, Cleanup, SaveRefused, Remove, PartOf
  <2>3. CASE RcvTo(t, "failed") /\ part' = [part EXCEPT ![t] = Absent]
    BY <1>1, <1>2, <1>3, <1>4, <2>1, <2>3, ReceiverEnds
  <2>4. CASE t \in active /\ RcvTo(t, "dropped") /\ part' = [part EXCEPT ![t] = <<>>]
    BY <1>1, <1>2, <1>3, <1>4, <2>1, <2>4, ReceiverEnds
  <2> QED
    BY <2>2, <2>3, <2>4
<1>6. CASE RcvRefused(t) \/ NextFileFails(t)
  <2>1. /\ rcv[t].pc \notin Ended /\ RcvTo(t, "failed") /\ UNCHANGED files
        /\ rcv[t].pc \notin {"receive", "cleanup", "commit"}
    BY <1>6 DEF RcvRefused, NextFileFails, Ended
  <2>2. part' = [part EXCEPT ![t] = part[t]]
    BY <1>1, <2>1, SameFiles
  <2> QED
    BY <1>1, <1>2, <1>3, <1>4, <2>1, <2>2, ReceiverEnds
<1>7. CASE t \in Gets /\ Cancel(t)
  <2>1. rcv[t].pc \notin Ended /\ RcvTo(t, "dropped") /\ UNCHANGED files
    BY <1>1, <1>7 DEF Cancel
  <2>2. part' = [part EXCEPT ![t] = part[t]]
    BY <1>1, <2>1, SameFiles
  <2> QED
    BY <1>1, <1>2, <1>3, <1>4, <2>1, <2>2, ReceiverEnds
<1> QED
  BY <1>5, <1>6, <1>7

\* The receiver goes on at the same file, or ends well, and saves nothing.
LEMMA ReceiverGoes ==
  ASSUME Inv, NEW t \in Puts \cup Gets, NEW r \in Sides, NEW K, NEW P \in Contents,
         RcvRead(t) \/ UNCHANGED fwd,
         Longer(bwd[t], bwd'[t], K), bwd' = [bwd EXCEPT ![t] = bwd'[t]],
         rcv' = [rcv EXCEPT ![t] = r], part' = [part EXCEPT ![t] = P],
         UNCHANGED <<sizes, snd, file, env>>,
         rcv[t].pc \notin Ended, r.pc \in Ended \/ r.entry = rcv[t].entry,
         RcvOK(t, r, looked[t]), PartOK(t, r, P),
         Path(t, snd[t], r, fwd'[t], looked[t]),
         r.pc \in Handling => Looked(t, snd[t]),
         r.pc = "ok" \/ "complete" \in K => AllIn(t, file),
         t \in Puts /\ r.pc \in {"open", "receive", "commit"} => file[Dest[t][r.entry]] # Old
  PROVE  Inv'
<1>1. t \in Transfers /\ SavedOK(t, snd[t], rcv[t], bwd[t], file)
  BY ReceiverKnown
<1>2. file \in [Paths -> Contents] /\ Grows(file, file) /\ file' = file
  BY <1>1, SameFiles
<1>3. Shorter(fwd[t], fwd'[t]) /\ fwd' = [fwd EXCEPT ![t] = fwd'[t]]
  BY ReadFacts
<1>4. r.pc \notin Ended => \A e \in Entries(t) : e < r.entry => InPlace(file, Dest[t][e])
  BY <1>1 DEF SavedOK
<1>5. rcv[t].pc # "dropped"
  BY DEF Ended
<1> QED
  BY <1>2, <1>3, <1>4, <1>5, ReceiverKeeps

\* a receiver that has not begun a file has no part file
LEMMA NoPart ==
  ASSUME Inv, NEW t \in Puts \cup Gets, NEW r,
         rcv[t].pc \notin {"receive", "cleanup", "commit", "dropped"},
         r.pc \notin {"receive", "commit"}
  PROVE  PartOK(t, r, part[t])
BY ReceiverKnown DEF PartOK

\* The server accepts an upload of one file, or refuses it.
LEMMA HandlePutKeeps ==
  ASSUME Inv, NEW t \in Puts \cup Gets, HandlePut(t)
  PROVE  Inv'
<1> DEFINE r == [rcv[t] EXCEPT !.pc = "check", !.size = Head(fwd[t]).n]
<1>1. /\ t \in Transfers /\ rcv[t] \in Sides /\ RcvOK(t, rcv[t], looked[t])
      /\ looked[t] \in [Entries(t) -> Sizes] /\ part[t] \in Contents
      /\ t \in Puts /\ t \notin Recursive /\ rcv[t].pc = "new"
  BY ReceiverKnown DEF HandlePut
<1>2. /\ RcvRead(t) /\ fwd[t] # <<>> /\ Head(fwd[t]).kind = "request"
      /\ UNCHANGED <<sizes, snd, file, env, bwd, files>>
  BY DEF HandlePut, RcvGets, RcvRead, files
<1>3. /\ \E a, b \in Places : RcvAt(t, rcv[t], a) /\ Leads(t, looked[t], a, Head(fwd[t]), b)
      /\ Looked(t, snd[t]) /\ Head(fwd[t]) \in Frames
  BY <1>1, <1>2, ReadLeads
<1>4. Head(fwd[t]).n = looked[t][1] /\ Head(fwd[t]).n \in Nat
  BY <1>1, <1>2, <1>3 DEF Leads, Frames
<1>5. /\ r \in Sides /\ r.pc = "check" /\ r.size = looked[t][1]
      /\ r.entry = rcv[t].entry /\ r.count = rcv[t].count /\ r.total = rcv[t].total
  BY <1>1, <1>4 DEF Sides, RcvPlaces
<1>6. rcv' = [rcv EXCEPT ![t] = r]
  BY <1>1 DEF HandlePut, Inv, TypeInv
<1> HIDE DEF r
<1>7. r.entry = 1 /\ r.count = 0 /\ 1 \in Entries(t) /\ looked[t][1] \in Sizes
  BY <1>1, <1>5, DestFacts DEF RcvOK
<1>8. RcvOK(t, r, looked[t])
  BY <1>1, <1>5, <1>7 DEF RcvOK, RcvPlaces, Handling
<1>9. PartOK(t, r, part[t]) /\ part' = [part EXCEPT ![t] = part[t]]
  BY <1>1, <1>2, <1>5, NoPart, SameFiles
<1>10. Path(t, snd[t], r, fwd'[t], looked[t])
  <2>1. \A a, b \in Places :
          RcvAt(t, rcv[t], a) /\ Leads(t, looked[t], a, Head(fwd[t]), b) => RcvAt(t, r, b)
    BY <1>1, <1>2, <1>5, <1>7 DEF RcvAt, Leads, Opening, AtFirst
  <2> QED
    BY <1>2, <2>1, PathReads
<1>11. Longer(bwd[t], bwd'[t], {"error"}) /\ bwd' = [bwd EXCEPT ![t] = bwd'[t]]
  BY <1>2, ReportFacts
<1>12. /\ rcv[t].pc \notin Ended /\ r.pc # "ok" /\ "complete" \notin {"error"}
       /\ r.pc \notin {"open", "receive", "commit"}
  BY <1>1, <1>5 DEF Ended
<1> QED
  BY <1>1, <1>2, <1>3, <1>5, <1>6, <1>8, <1>9, <1>10, <1>11, <1>12, ReceiverGoes

\* The client reads the answer to its download.
LEMMA GetReadyKeeps ==
  ASSUME Inv, NEW t \in Puts \cup Gets, GetReady(t)
  PROVE  Inv'
<1> DEFINE r == [rcv[t] EXCEPT !.pc = IF t \in Recursive THEN "top" ELSE "open",
                               !.size = Head(fwd[t]).n]
<1>1. /\ t \in Transfers /\ rcv[t] \in Sides /\ RcvOK(t, rcv[t], looked[t])
      /\ looked[t] \in [Entries(t) -> Sizes] /\ part[t] \in Contents
      /\ t \in Gets /\ t \notin Puts /\ rcv[t].pc = "request"
  BY ReceiverKnown, TransfersAssumption DEF GetReady
<1>2. /\ RcvRead(t) /\ fwd[t] # <<>> /\ Head(fwd[t]).kind = "ready"
      /\ UNCHANGED <<sizes, snd, file, env, bwd, files>>
  BY DEF GetReady, RcvGets, RcvRead, files
<1>3. /\ \E a, b \in Places : RcvAt(t, rcv[t], a) /\ Leads(t, looked[t], a, Head(fwd[t]), b)
      /\ Looked(t, snd[t]) /\ Head(fwd[t]) \in Frames
  BY <1>2, ReadLeads
<1>4. /\ Head(fwd[t]).n = IF t \in Recursive THEN 0 ELSE looked[t][1]
      /\ Head(fwd[t]).n \in Nat
  BY <1>1, <1>2, <1>3 DEF Leads, Frames
<1>5. /\ r \in Sides /\ r.pc = IF t \in Recursive THEN "top" ELSE "open"
      /\ r.size = IF t \in Recursive THEN 0 ELSE looked[t][1]
      /\ r.entry = rcv[t].entry /\ r.count = rcv[t].count /\ r.total = rcv[t].total
  BY <1>1, <1>4 DEF Sides, RcvPlaces
<1>6. rcv' = [rcv EXCEPT ![t] = r]
  BY <1>1 DEF GetReady, Inv, TypeInv
<1> HIDE DEF r
<1>7. r.entry = 1 /\ r.count = 0 /\ 1 \in Entries(t) /\ looked[t][1] \in Sizes
  BY <1>1, <1>5, DestFacts DEF RcvOK
<1>8. RcvOK(t, r, looked[t])
  BY <1>1, <1>5, <1>7 DEF RcvOK, RcvPlaces, Handling
<1>9. PartOK(t, r, part[t]) /\ part' = [part EXCEPT ![t] = part[t]]
  BY <1>1, <1>2, <1>5, NoPart, SameFiles
<1>10. Path(t, snd[t], r, fwd'[t], looked[t])
  <2>1. \A a, b \in Places :
          RcvAt(t, rcv[t], a) /\ Leads(t, looked[t], a, Head(fwd[t]), b) => RcvAt(t, r, b)
    BY <1>1, <1>2, <1>5, <1>7 DEF RcvAt, Leads, Opening, AtFirst
  <2> QED
    BY <1>2, <2>1, PathReads
<1>11. Longer(bwd[t], bwd'[t], {"error"}) /\ bwd' = [bwd EXCEPT ![t] = bwd'[t]]
  BY <1>2, ReportFacts
<1>12. rcv[t].pc \notin Ended /\ r.pc # "ok" /\ "complete" \notin {"error"}
  BY <1>1, <1>5 DEF Ended
<1> QED
  BY <1>1, <1>2, <1>3, <1>5, <1>6, <1>8, <1>9, <1>10, <1>11, <1>12, ReceiverGoes

\* The receiver of a tree reads the next file's header.
LEMMA NextFileKeeps ==
  ASSUME Inv, NEW t \in Puts \cup Gets, NextFile(t)
  PROVE  Inv'
<1> DEFINE r == [rcv[t] EXCEPT !.pc = IF t \in Puts THEN "check" ELSE "open",
                               !.size = Head(fwd[t]).n, !.count = 0]
<1>1. /\ t \in Transfers /\ rcv[t] \in Sides /\ RcvOK(t, rcv[t], looked[t])
      /\ looked[t] \in [Entries(t) -> Sizes] /\ part[t] \in Contents
      /\ rcv[t].pc = "top" /\ t \in Recursive
  BY ReceiverKnown DEF NextFile, RcvOK
<1>2. /\ RcvRead(t) /\ fwd[t] # <<>> /\ Head(fwd[t]).kind = "entry"
      /\ UNCHANGED <<sizes, snd, file, env, bwd, files>>
  BY DEF NextFile, RcvGets, RcvRead, files
<1>3. /\ \E a, b \in Places : RcvAt(t, rcv[t], a) /\ Leads(t, looked[t], a, Head(fwd[t]), b)
      /\ Looked(t, snd[t]) /\ Head(fwd[t]) \in Frames
  BY <1>2, ReadLeads
<1>4. /\ rcv[t].entry \in Entries(t) /\ Head(fwd[t]).n = looked[t][rcv[t].entry]
      /\ Head(fwd[t]).n \in Nat
  BY <1>1, <1>2, <1>3 DEF Leads, Frames, RcvAt, AtTop, Opening
<1>5. /\ r \in Sides /\ r.pc = (IF t \in Puts THEN "check" ELSE "open")
      /\ r.size = looked[t][rcv[t].entry] /\ r.count = 0
      /\ r.entry = rcv[t].entry /\ r.total = rcv[t].total
  BY <1>1, <1>4 DEF Sides, RcvPlaces
<1>6. rcv' = [rcv EXCEPT ![t] = r]
  BY <1>1 DEF NextFile, Inv, TypeInv
<1> HIDE DEF r
<1>7. r.entry \in Entries(t) /\ looked[t][r.entry] \in Sizes /\ 0 <= MaxSize
  BY <1>1, <1>4, <1>5, SizeFacts
<1>8. RcvOK(t, r, looked[t])
  BY <1>1, <1>5, <1>7 DEF RcvOK, RcvPlaces, Handling
<1>9. PartOK(t, r, part[t]) /\ part' = [part EXCEPT ![t] = part[t]]
  BY <1>1, <1>2, <1>5, NoPart, SameFiles
<1>10. Path(t, snd[t], r, fwd'[t], looked[t])
  <2>1. \A a, b \in Places :
          RcvAt(t, rcv[t], a) /\ Leads(t, looked[t], a, Head(fwd[t]), b) => RcvAt(t, r, b)
    BY <1>1, <1>2, <1>5, <1>7 DEF RcvAt, Leads, Opening, AtTop
  <2> QED
    BY <1>2, <2>1, PathReads
<1>11. Longer(bwd[t], bwd'[t], {"error"}) /\ bwd' = [bwd EXCEPT ![t] = bwd'[t]]
  BY <1>2, ReportFacts
<1>12. /\ rcv[t].pc \notin Ended /\ r.pc # "ok" /\ "complete" \notin {"error"}
       /\ ~(t \in Puts /\ r.pc \in {"open", "receive", "commit"})
  BY <1>1, <1>5 DEF Ended
<1> QED
  BY <1>1, <1>2, <1>3, <1>5, <1>6, <1>8, <1>9, <1>10, <1>11, <1>12, ReceiverGoes

\* the receiver turns to pc, the file at hand the same
LEMMA RcvTurns ==
  ASSUME Inv, NEW t \in Puts \cup Gets, NEW pc \in RcvPlaces \ Ended, RcvTo(t, pc),
         NEW K, NEW P \in Contents, RcvRead(t) \/ UNCHANGED fwd,
         Longer(bwd[t], bwd'[t], K), bwd' = [bwd EXCEPT ![t] = bwd'[t]],
         part' = [part EXCEPT ![t] = P], UNCHANGED <<sizes, snd, file, env>>,
         rcv[t].pc \notin Ended, "complete" \notin K,
         RcvOK(t, To(rcv[t], pc), looked[t]), PartOK(t, To(rcv[t], pc), P),
         Path(t, snd[t], To(rcv[t], pc), fwd'[t], looked[t]),
         pc \in Handling => Looked(t, snd[t]),
         t \in Puts /\ pc \in {"open", "receive", "commit"} => file[Dest[t][rcv[t].entry]] # Old
  PROVE  Inv'
<1> DEFINE r == To(rcv[t], pc)
<1>1. r \in Sides /\ r.pc = pc /\ r.entry = rcv[t].entry
  <2>1. pc \in (SndPlaces \cup RcvPlaces \cup AskPlaces) \ Ended /\ rcv[t] \in Sides
    BY ReceiverKnown
  <2> QED
    BY <2>1, StayedSide
<1>2. rcv' = [rcv EXCEPT ![t] = r]
  BY DEF RcvTo
<1>3. RcvOK(t, r, looked[t]) /\ PartOK(t, r, P) /\ Path(t, snd[t], r, fwd'[t], looked[t])
  OBVIOUS
<1> HIDE DEF r
<1>4. r.pc # "ok"
  BY <1>1 DEF Ended
<1> QED
  BY <1>1, <1>2, <1>3, <1>4, ReceiverGoes

\* The server accepts an upload of a tree; the client asks for a download.
LEMMA RequestsKeep ==
  ASSUME Inv, NEW t \in Puts \cup Gets, HandlePutDir(t) \/ GetRequest(t)
  PROVE  Inv'
<1>1. /\ t \in Transfers /\ rcv[t] \in Sides /\ RcvOK(t, rcv[t], looked[t])
      /\ part[t] \in Contents /\ rcv[t].pc = "new"
      /\ t \in Gets => t \notin Puts
  BY ReceiverKnown, TransfersAssumption DEF HandlePutDir, GetRequest
<1>2. rcv[t].pc \notin Ended /\ UNCHANGED <<sizes, snd, file, env, files>>
  BY <1>1 DEF HandlePutDir, GetRequest, files, Ended
<1>3. part' = [part EXCEPT ![t] = part[t]] /\ file \in [Paths -> Contents] /\ Grows(file, file)
  BY <1>1, <1>2, SameFiles
<1>4. RcvRead(t) \/ UNCHANGED fwd
  BY DEF HandlePutDir, GetRequest, RcvGets
<1>5. CASE RcvError(t) /\ RcvTo(t, "failed")
  BY <1>1, <1>2, <1>3, <1>4, <1>5, ReceiverEnds
<1>6. CASE HandlePutDir(t) /\ RcvWrite(t, Frame("ready", 0)) /\ RcvTo(t, "top")
  <2> DEFINE r == To(rcv[t], "top")
  <2>1. "top" \in RcvPlaces \ Ended
    BY DEF RcvPlaces, Ended
  <2>2. /\ r.pc = "top" /\ r.entry = rcv[t].entry /\ r.count = rcv[t].count
        /\ r.total = rcv[t].total /\ r.size = rcv[t].size
    BY <1>1, <2>1, StayedSide
  <2> HIDE DEF r
  <2>3. t \in Recursive /\ t \in Puts /\ RcvRead(t) /\ Head(fwd[t]).kind = "request"
    BY <1>6 DEF HandlePutDir, RcvGets
  <2>4. RcvOK(t, r, looked[t]) /\ PartOK(t, r, part[t]) /\ "top" \notin Handling
    BY <1>1, <2>2, <2>3, NoPart DEF RcvOK, RcvPlaces, Handling
  <2>5. Path(t, snd[t], r, fwd'[t], looked[t])
    <3>1. \A a, b \in Places :
            RcvAt(t, rcv[t], a) /\ Leads(t, looked[t], a, Head(fwd[t]), b) => RcvAt(t, r, b)
      BY <1>1, <2>2, <2>3 DEF RcvAt, Leads, Opening, AtFirst, RcvOK
    <3> QED
      BY <2>3, <3>1, PathReads
  <2>6. "ready" \in Kinds /\ 0 \in Nat /\ "complete" \notin {"ready"}
    BY DEF Kinds
  <2>7. Longer(bwd[t], bwd'[t], {"ready"}) /\ bwd' = [bwd EXCEPT ![t] = bwd'[t]]
    BY <1>6, <2>6, WriteFacts
  <2> QED
    BY <1>1, <1>2, <1>3, <1>4, <1>6, <2>1, <2>4, <2>5, <2>6, <2>7, RcvTurns DEF r
<1>7. CASE GetRequest(t)
  <2> DEFINE r == To(rcv[t], "request")
  <2>1. "request" \in RcvPlaces \ Ended
    BY DEF RcvPlaces, Ended
  <2>2. /\ r.pc = "request" /\ r.entry = rcv[t].entry /\ r.count = rcv[t].count
        /\ r.total = rcv[t].total /\ r.size = rcv[t].size
    BY <1>1, <2>1, StayedSide
  <2> HIDE DEF r
  <2>3. /\ t \in Gets /\ RcvWrite(t, Frame("request", 0)) /\ RcvTo(t, "request") /\ UNCHANGED fwd
    BY <1>7 DEF GetRequest
  <2>4. RcvOK(t, r, looked[t]) /\ PartOK(t, r, part[t]) /\ "request" \notin Handling
    BY <1>1, <2>2, <2>3, NoPart DEF RcvOK, RcvPlaces, Handling
  <2>5. Path(t, snd[t], r, fwd'[t], looked[t])
    <3>1. \A a \in Places : RcvAt(t, rcv[t], a) => RcvAt(t, r, a)
      BY <1>1, <2>2 DEF RcvAt
    <3> QED
      BY <2>3, <3>1, PathStays
  <2>6. "request" \in Kinds /\ 0 \in Nat /\ "complete" \notin {"request"}
    BY DEF Kinds
  <2>7. Longer(bwd[t], bwd'[t], {"request"}) /\ bwd' = [bwd EXCEPT ![t] = bwd'[t]]
    BY <2>3, <2>6, WriteFacts
  <2> QED
    BY <1>1, <1>2, <1>3, <1>4, <2>1, <2>3, <2>4, <2>5, <2>6, <2>7, RcvTurns DEF r
<1> QED
  BY <1>5, <1>6, <1>7 DEF HandlePutDir

\* A receiver only handles files whose sizes its sender has looked up.
LEMMA HandlingLooked ==
  ASSUME Inv, NEW t \in Puts \cup Gets, rcv[t].pc \in Handling
  PROVE  Looked(t, snd[t])
<1>1. LookOK(t, snd[t], rcv[t], fwd[t])
  BY DEF Inv, TransferInv, TransferOK
<1> QED
  BY <1>1 DEF LookOK

\* The server checks an upload's destination before it makes the part file.
LEMMA PrepareKeeps ==
  ASSUME Inv, NEW t \in Puts \cup Gets, Prepare(t)
  PROVE  Inv'
<1> DEFINE r == To(rcv[t], "open")
<1>1. /\ t \in Transfers /\ rcv[t] \in Sides /\ RcvOK(t, rcv[t], looked[t])
      /\ part[t] \in Contents /\ rcv[t].pc = "check"
  BY ReceiverKnown DEF Prepare
<1>2. rcv[t].pc \notin Ended /\ UNCHANGED <<sizes, snd, file, env, files, fwd>>
  BY <1>1 DEF Prepare, files, Ended
<1>3. part' = [part EXCEPT ![t] = part[t]] /\ file \in [Paths -> Contents] /\ Grows(file, file)
  BY <1>1, <1>2, SameFiles
<1>4. CASE RcvError(t) /\ RcvTo(t, "failed")
  BY <1>1, <1>2, <1>3, <1>4, ReceiverEnds
<1>5. CASE Vacant(t) /\ RcvTo(t, "open") /\ UNCHANGED bwd
  <2>1. "open" \in RcvPlaces \ Ended
    BY DEF RcvPlaces, Ended
  <2>2. /\ r.pc = "open" /\ r.entry = rcv[t].entry /\ r.count = rcv[t].count
        /\ r.total = rcv[t].total /\ r.size = rcv[t].size
    BY <1>1, <2>1, StayedSide
  <2> HIDE DEF r
  <2>3. RcvOK(t, r, looked[t]) /\ PartOK(t, r, part[t])
    BY <1>1, <2>2, NoPart DEF RcvOK, RcvPlaces, Handling
  <2>4. Path(t, snd[t], r, fwd'[t], looked[t])
    <3>1. \A a \in Places : RcvAt(t, rcv[t], a) => RcvAt(t, r, a)
      BY <1>1, <2>2 DEF RcvAt
    <3> QED
      BY <1>2, <3>1, PathStays
  <2>5. Longer(bwd[t], bwd'[t], {"error"}) /\ bwd' = [bwd EXCEPT ![t] = bwd'[t]]
    BY <1>5, ReportFacts
  <2>6. Looked(t, snd[t])
    BY <1>1, HandlingLooked DEF Handling
  <2>7. file[Dest[t][rcv[t].entry]] # Old
    <3>1. Old \in Seq(Transfers \cup {Nobody, Torn})
      BY DEF Old
    <3> QED
      BY <1>5, <3>1, TransfersAssumption DEF Vacant, DestOf
  <2>8. "complete" \notin {"error"}
    OBVIOUS
  <2> QED
    BY <1>1, <1>2, <1>3, <1>5, <2>1, <2>3, <2>4, <2>5, <2>6, <2>7, <2>8, RcvTurns DEF r
<1> QED
  BY <1>4, <1>5 DEF Prepare

\* The receiver makes the part file.
LEMMA OpenPartKeeps ==
  ASSUME Inv, NEW t \in Puts \cup Gets, t \in active, OpenPart(t)
  PROVE  Inv'
<1> DEFINE r == To(rcv[t], "receive")
<1>1. /\ t \in Transfers /\ rcv[t] \in Sides /\ RcvOK(t, rcv[t], looked[t])
      /\ rcv[t].pc = "open" /\ SavedOK(t, snd[t], rcv[t], bwd[t], file)
  BY ReceiverKnown DEF OpenPart
<1>2. rcv[t].pc \notin Ended /\ UNCHANGED <<sizes, snd, file, env, fwd>> /\ RcvTo(t, "receive")
  BY <1>1 DEF OpenPart, Ended
<1>3. "receive" \in RcvPlaces \ Ended
  BY DEF RcvPlaces, Ended
<1>4. /\ r.pc = "receive" /\ r.entry = rcv[t].entry /\ r.count = rcv[t].count
      /\ r.total = rcv[t].total /\ r.size = rcv[t].size
  BY <1>1, <1>3, StayedSide
<1> HIDE DEF r
<1>5. RcvOK(t, r, looked[t]) /\ r.count = 0 /\ rcv[t].size \in Nat
  BY <1>1, <1>4 DEF RcvOK, RcvPlaces, Handling, Sides
<1>6. <<>> = Copies(t, 0) /\ <<>> \in Seq({t, Torn})
  BY DEF Copies
<1>7. PartOK(t, r, <<>>) /\ <<>> \in Contents
  BY <1>1, <1>4, <1>5, <1>6, OwnChunks DEF PartOK
<1>8. part' = [part EXCEPT ![t] = <<>>]
  BY DEF OpenPart, PartOf
<1>9. Path(t, snd[t], r, fwd'[t], looked[t])
  <2>1. \A a \in Places : RcvAt(t, rcv[t], a) => RcvAt(t, r, a)
    BY <1>1, <1>4 DEF RcvAt
  <2> QED
    BY <1>2, <2>1, PathStays
<1>10. "ready" \in Kinds /\ "complete" \notin {"ready"}
  BY DEF Kinds
<1>11. RcvWrite(t, Frame("ready", rcv[t].size)) \/ UNCHANGED bwd
  BY DEF OpenPart
<1>12. Longer(bwd[t], bwd'[t], {"ready"}) /\ bwd' = [bwd EXCEPT ![t] = bwd'[t]]
  BY <1>5, <1>10, <1>11, WriteFacts
<1>13. Looked(t, snd[t])
  BY <1>1, HandlingLooked DEF Handling
<1>14. t \in Puts => file[Dest[t][rcv[t].entry]] # Old
  BY <1>1 DEF SavedOK
<1> QED
  BY <1>2, <1>3, <1>5, <1>7, <1>8, <1>9, <1>10, <1>12, <1>13, <1>14, RcvTurns DEF r

\* The receiver writes one chunk to the part file, or believes it does.
LEMMA ReceiveChunkKeeps ==
  ASSUME Inv, NEW t \in Puts \cup Gets, t \in active, ReceiveChunk(t)
  PROVE  Inv'
<1> DEFINE r == [rcv[t] EXCEPT !.count = @ + 1]
           P == part'[t]
<1>1. /\ t \in Transfers /\ rcv[t] \in Sides /\ RcvOK(t, rcv[t], looked[t])
      /\ rcv[t].pc = "receive" /\ SavedOK(t, snd[t], rcv[t], bwd[t], file)
      /\ PartOK(t, rcv[t], part[t])
  BY ReceiverKnown DEF ReceiveChunk
<1>2. /\ RcvRead(t) /\ fwd[t] # <<>> /\ Head(fwd[t]).kind = "chunk"
      /\ UNCHANGED <<sizes, snd, file, env, bwd>> /\ rcv[t].pc \notin Ended
  BY <1>1 DEF ReceiveChunk, RcvGets, RcvRead, Ended
<1>3. \E a, b \in Places : RcvAt(t, rcv[t], a) /\ Leads(t, looked[t], a, Head(fwd[t]), b)
  BY <1>2, ReadLeads, Zenon
<1>4. rcv[t].count < MaxSize /\ rcv[t].count \in Nat /\ rcv[t].count + 1 \in Nat
  <2>1. rcv[t].count < MaxSize
    BY <1>1, <1>2, <1>3 DEF Leads, RcvAt, AtBody, Opening
  <2> QED
    BY <1>1, <2>1 DEF Sides
<1>5. /\ r \in Sides /\ r.pc = "receive" /\ r.count = rcv[t].count + 1
      /\ r.size = rcv[t].size /\ r.entry = rcv[t].entry /\ r.total = rcv[t].total
  BY <1>1, <1>4 DEF Sides
<1>6. rcv' = [rcv EXCEPT ![t] = r]
  BY <1>1 DEF ReceiveChunk, Inv, TypeInv
<1> HIDE DEF r
<1>7. RcvOK(t, r, looked[t])
  <2>1. r.count <= MaxSize
    BY <1>4, <1>5, SizeFacts
  <2> QED
    BY <1>1, <1>5, <2>1 DEF RcvOK, RcvPlaces, Handling
<1>8. part[t] = Copies(t, rcv[t].count)
  <2>1. \A i \in DOMAIN part[t] : part[t][i] # Torn
    BY DEF ReceiveChunk, Written, PartOf
  <2>2. part[t] \in {Copies(t, rcv[t].count), Cut(t, rcv[t].count)}
    BY <1>1 DEF PartOK
  <2> QED
    BY <1>1, <1>4, <2>1, <2>2, WrittenWhole
<1>9. PICK c \in {t, Torn} : part' = [part EXCEPT ![t] = Append(part[t], c)]
  BY DEF ReceiveChunk, PartOf
<1>10. P = Append(part[t], c) /\ part' = [part EXCEPT ![t] = P]
  BY <1>1, <1>9 DEF Inv, TypeInv
<1>11. PartOK(t, r, P) /\ P \in Contents
  <2>1. P \in {Copies(t, rcv[t].count + 1), Cut(t, rcv[t].count + 1)}
    BY <1>4, <1>8, <1>10, CopiesAppend
  <2>2. P \in {Copies(t, r.count), Cut(t, r.count)}
    BY <1>5, <2>1
  <2>3. P \in Seq({t, Torn})
    BY <1>4, <2>1, CopiesSeq
  <2> HIDE DEF P
  <2>4. P \in Contents
    BY <1>1, <2>3, OwnChunks
  <2> QED
    BY <1>5, <2>2, <2>3, <2>4 DEF PartOK
<1> HIDE DEF P
<1>12. Path(t, snd[t], r, fwd'[t], looked[t])
  <2>1. \A a, b \in Places :
          RcvAt(t, rcv[t], a) /\ Leads(t, looked[t], a, Head(fwd[t]), b) => RcvAt(t, r, b)
    BY <1>1, <1>2, <1>5 DEF RcvAt, Leads, Opening, AtBody
  <2> QED
    BY <1>2, <2>1, PathReads
<1>13. Longer(bwd[t], bwd'[t], {"error"}) /\ bwd' = [bwd EXCEPT ![t] = bwd'[t]]
  BY <1>2, ReportFacts
<1>14. Looked(t, snd[t])
  BY <1>1, HandlingLooked DEF Handling
<1>15. t \in Puts => file[Dest[t][r.entry]] # Old
  BY <1>1, <1>5 DEF SavedOK
<1>16. r.pc # "ok" /\ "complete" \notin {"error"}
  BY <1>5
<1> QED
  BY <1>2, <1>5, <1>6, <1>7, <1>10, <1>11, <1>12, <1>13, <1>14, <1>15, <1>16, ReceiverGoes

\* A file of the wrong size is given up.
LEMMA WrongSizeKeeps ==
  ASSUME Inv, NEW t \in Puts \cup Gets, rcv[t].pc = "receive", RcvRead(t) \/ UNCHANGED fwd,
         WrongSize(t), UNCHANGED <<sizes, snd, files, env>>
  PROVE  Inv'
<1>1. /\ t \in Transfers /\ file \in [Paths -> Contents] /\ Grows(file, file)
      /\ part' = [part EXCEPT ![t] = part[t]] /\ file' = file
  BY SameFiles DEF Transfers
<1>2. CASE RcvTo(t, "cleanup") /\ (RcvWrite(t, Frame("error", 0)) \/ UNCHANGED bwd)
  BY <1>2, ReceiverCleans DEF RcvError
<1>3. CASE RcvWriteFails(t) /\ RcvTo(t, "dropped")
  <2>1. rcv[t].pc \notin Ended /\ RcvError(t) /\ UNCHANGED <<sizes, snd, env>>
    BY <1>3 DEF Ended, RcvError
  <2> QED
    BY <1>1, <1>3, <2>1, ReceiverEnds
<1> QED
  BY <1>2, <1>3 DEF WrongSize

\* So is one that sends too much, or cannot be written.
LEMMA ReceiveWrongKeeps ==
  ASSUME Inv, NEW t \in Puts \cup Gets, ReceiveExcess(t) \/ ReceiveFails(t)
  PROVE  Inv'
<1>1. CASE ReceiveExcess(t)
  BY <1>1, WrongSizeKeeps DEF ReceiveExcess, RcvGets
<1>2. CASE ReceiveFails(t)
  <2>1. RcvRead(t) \/ UNCHANGED fwd
    BY <1>2 DEF ReceiveFails, RcvGets, RcvGetsOther, RcvReadFails
  <2> QED
    BY <1>2, <2>1, ReceiverCleans DEF ReceiveFails
<1> QED
  BY <1>1, <1>2

\* The receiver reads the end of a file and compares its size.
LEMMA EndOfFileKeeps ==
  ASSUME Inv, NEW t \in Puts \cup Gets, EndOfFile(t)
  PROVE  Inv'
<1> DEFINE r == To(rcv[t], "commit")
<1>1. /\ t \in Transfers /\ rcv[t] \in Sides /\ RcvOK(t, rcv[t], looked[t])
      /\ rcv[t].pc = "receive" /\ SavedOK(t, snd[t], rcv[t], bwd[t], file)
      /\ PartOK(t, rcv[t], part[t]) /\ part[t] \in Contents
  BY ReceiverKnown DEF EndOfFile
<1>2. /\ RcvRead(t) /\ fwd[t] # <<>> /\ Head(fwd[t]).kind = EndKind(t)
      /\ UNCHANGED <<sizes, snd, file, env, files>> /\ rcv[t].pc \notin Ended
  BY <1>1 DEF EndOfFile, RcvGets, RcvRead, Ended, files
<1>3. CASE WrongSize(t)
  BY <1>1, <1>2, <1>3, WrongSizeKeeps
<1>4. CASE Whole(t) /\ RcvTo(t, "commit") /\ UNCHANGED bwd
  <2>1. "commit" \in RcvPlaces \ Ended
    BY DEF RcvPlaces, Ended
  <2>2. /\ r.pc = "commit" /\ r.entry = rcv[t].entry /\ r.count = rcv[t].count
        /\ r.total = rcv[t].total /\ r.size = rcv[t].size
    BY <1>1, <2>1, StayedSide
  <2> HIDE DEF r
  <2>3. RcvOK(t, r, looked[t]) /\ PartOK(t, r, part[t])
    <3>1. r.count = r.size \/ t \in Gets \cap Recursive
      BY <1>4, <2>2 DEF Whole
    <3> QED
      BY <1>1, <2>2, <3>1 DEF RcvOK, RcvPlaces, Handling, PartOK
  <2>4. Path(t, snd[t], r, fwd'[t], looked[t])
    <3>1. \A a, b \in Places :
            RcvAt(t, rcv[t], a) /\ Leads(t, looked[t], a, Head(fwd[t]), b) => RcvAt(t, r, b)
      BY <1>1, <1>2, <2>2 DEF RcvAt, Leads, Opening, AtBody, AtTop, EndKind
    <3> QED
      BY <1>2, <3>1, PathReads
  <2>5. Longer(bwd[t], bwd'[t], {"error"}) /\ bwd' = [bwd EXCEPT ![t] = bwd'[t]]
    BY <1>4, ReportFacts
  <2>6. Looked(t, snd[t])
    BY <1>1, HandlingLooked DEF Handling
  <2>7. t \in Puts => file[Dest[t][rcv[t].entry]] # Old
    BY <1>1 DEF SavedOK
  <2>8. "complete" \notin {"error"} /\ part' = [part EXCEPT ![t] = part[t]]
    BY <1>1, <1>2, SameFiles
  <2> QED
    BY <1>1, <1>2, <1>4, <2>1, <2>3, <2>4, <2>5, <2>6, <2>7, <2>8, RcvTurns DEF r
<1> QED
  BY <1>3, <1>4 DEF EndOfFile

\* when the receiver is past its last file, all of them are in place
LEMMA AllSaved ==
  ASSUME Inv, NEW t \in Puts \cup Gets, rcv[t].pc \notin Ended,
         rcv[t].entry = Len(Dest[t]) + 1
  PROVE  AllIn(t, file)
<1>1. t \in Transfers /\ SavedOK(t, snd[t], rcv[t], bwd[t], file) /\ Len(Dest[t]) \in Nat
  BY ReceiverKnown, DestFacts
<1>2. \A e \in Entries(t) : e < rcv[t].entry
  BY <1>1 DEF Entries
<1> QED
  BY <1>1, <1>2 DEF SavedOK, AllIn

\* The receiver of a tree reads the end of the tree.
LEMMA LastFileKeeps ==
  ASSUME Inv, NEW t \in Puts \cup Gets, LastFile(t)
  PROVE  Inv'
<1>1. /\ t \in Transfers /\ rcv[t] \in Sides /\ RcvOK(t, rcv[t], looked[t])
      /\ rcv[t].pc = "top" /\ part[t] \in Contents /\ t \in Recursive
  BY ReceiverKnown DEF LastFile, RcvOK
<1>2. /\ RcvRead(t) /\ fwd[t] # <<>> /\ Head(fwd[t]).kind = "complete"
      /\ UNCHANGED <<sizes, snd, file, env, files, bwd>> /\ rcv[t].pc \notin Ended
  BY <1>1 DEF LastFile, LastKinds, RcvRead, Ended, files
<1>3. \E a, b \in Places : RcvAt(t, rcv[t], a) /\ Leads(t, looked[t], a, Head(fwd[t]), b)
  BY <1>2, ReadLeads, Zenon
<1>4. rcv[t].entry = Len(Dest[t]) + 1
  BY <1>1, <1>2, <1>3 DEF Leads, RcvAt, AtTop, Opening
<1>5. AllIn(t, file)
  BY <1>2, <1>4, AllSaved
<1>6. Longer(bwd[t], bwd'[t], {"error"}) /\ bwd' = [bwd EXCEPT ![t] = bwd'[t]]
  BY <1>2, ReportFacts
<1>7. part' = [part EXCEPT ![t] = part[t]] /\ "complete" \notin {"error"}
  BY <1>1, <1>2, SameFiles
<1>8. CASE t \in Puts
  <2> DEFINE r == To(rcv[t], "reply")
  <2>1. "reply" \in RcvPlaces \ Ended /\ "reply" \notin Handling /\ RcvTo(t, "reply")
    BY <1>8 DEF RcvPlaces, Ended, Handling, LastFile
  <2>2. /\ r.pc = "reply" /\ r.entry = rcv[t].entry /\ r.count = rcv[t].count
        /\ r.total = rcv[t].total /\ r.size = rcv[t].size
    BY <1>1, <2>1, StayedSide
  <2> HIDE DEF r
  <2>3. RcvOK(t, r, looked[t]) /\ PartOK(t, r, part[t]) /\ \A a : RcvAt(t, r, a)
    BY <1>1, <1>4, <1>8, <2>2, NoPart DEF RcvOK, RcvPlaces, Handling, RcvAt
  <2>4. Path(t, snd[t], r, fwd'[t], looked[t])
    BY <1>2, <2>3, PathAnywhere
  <2> QED
    BY <1>1, <1>2, <1>6, <1>7, <2>1, <2>3, <2>4, RcvTurns DEF r
<1>9. CASE t \notin Puts
  <2> DEFINE r == To(rcv[t], "ok")
  <2>1. "ok" \in Ended /\ RcvTo(t, "ok")
    BY <1>9 DEF Ended, LastFile
  <2>2. r \in Sides /\ r.pc = "ok" /\ RcvOK(t, r, looked[t]) /\ \A a : RcvAt(t, r, a)
    BY <1>1, <2>1, EndedSide
  <2>3. rcv' = [rcv EXCEPT ![t] = r]
    BY <2>1 DEF RcvTo
  <2> HIDE DEF r
  <2>4. PartOK(t, r, part[t]) /\ Path(t, snd[t], r, fwd'[t], looked[t])
    BY <1>1, <1>2, <2>2, NoPart, PathAnywhere
  <2>5. r.pc \in Ended /\ r.pc \notin Handling
    BY <2>1, <2>2 DEF Handling
  <2> QED
    BY <1>1, <1>2, <1>5, <1>6, <1>7, <1>9, <2>2, <2>3, <2>4, <2>5, ReceiverGoes
<1> QED
  BY <1>8, <1>9

\* The server writes Complete after all is saved.
LEMMA ReplyKeeps ==
  ASSUME Inv, NEW t \in Puts \cup Gets, Reply(t)
  PROVE  Inv'
<1> DEFINE r == To(rcv[t], "ok")
<1>1. /\ t \in Transfers /\ rcv[t] \in Sides /\ RcvOK(t, rcv[t], looked[t])
      /\ rcv[t].pc = "reply" /\ part[t] \in Contents
  BY ReceiverKnown DEF Reply
<1>2. UNCHANGED <<sizes, snd, file, env, files, fwd>> /\ rcv[t].pc \notin Ended
  BY <1>1 DEF Reply, Ended, files
<1>3. /\ part' = [part EXCEPT ![t] = part[t]]
      /\ file \in [Paths -> Contents] /\ Grows(file, file)
  BY <1>1, <1>2, SameFiles
<1>4. CASE RcvWriteFails(t) /\ RcvTo(t, "failed")
  <2>1. RcvError(t)
    BY <1>4 DEF RcvError
  <2> QED
    BY <1>1, <1>2, <1>3, <1>4, <2>1, ReceiverEnds
<1>5. CASE RcvWrite(t, Frame("complete", rcv[t].total)) /\ RcvTo(t, "ok")
  <2>1. "ok" \in Ended /\ "complete" \in Kinds /\ rcv[t].total \in Nat
    BY <1>1 DEF Ended, Kinds, Sides
  <2>2. r \in Sides /\ r.pc = "ok" /\ RcvOK(t, r, looked[t]) /\ \A a : RcvAt(t, r, a)
    BY <1>1, <2>1, EndedSide
  <2>3. rcv' = [rcv EXCEPT ![t] = r]
    BY <1>5 DEF RcvTo
  <2> HIDE DEF r
  <2>4. PartOK(t, r, part[t]) /\ Path(t, snd[t], r, fwd'[t], looked[t])
    BY <1>1, <1>2, <2>2, NoPart, PathAnywhere
  <2>5. r.pc \in Ended /\ r.pc \notin Handling
    BY <2>1, <2>2 DEF Handling
  <2>6. AllIn(t, file)
    <3>1. rcv[t].entry = Len(Dest[t]) + 1
      BY <1>1 DEF RcvOK
    <3> QED
      BY <1>2, <3>1, AllSaved
  <2>7. Longer(bwd[t], bwd'[t], {"complete"}) /\ bwd' = [bwd EXCEPT ![t] = bwd'[t]]
    BY <1>5, <2>1, WriteFacts
  <2>8. r.pc \notin {"open", "receive", "commit"}
    BY <2>2
  <2> QED
    BY <1>1, <1>2, <1>3, <2>2, <2>3, <2>4, <2>5, <2>6, <2>7, <2>8, ReceiverGoes
<1> QED
  BY <1>4, <1>5 DEF Reply

\* A destination that gets chunks of one transfer is in place then.
LEMMA WrittenFile ==
  ASSUME Inv, NEW t \in Transfers, NEW d \in Paths, NEW x \in Seq({t, Torn}), NEW F,
         F = [file EXCEPT ![d] = x]
  PROVE  F \in [Paths -> Contents] /\ Grows(file, F) /\ F[d] = x /\ InPlace(F, d)
<1>1. file \in [Paths -> Contents]
  BY DEF Inv, TypeInv
<1>2. x \in Contents /\ x # Absent /\ x # Old
  BY OwnChunks
<1>3. F \in [Paths -> Contents] /\ F[d] = x /\ \A c \in Paths : c # d => F[c] = file[c]
  BY <1>1, <1>2
<1>4. InPlace(F, d)
  BY <1>2, <1>3 DEF InPlace
<1>5. Grows(file, F)
  BY <1>2, <1>3, <1>4 DEF Grows, InPlace
<1> QED
  BY <1>3, <1>4, <1>5

\* The receiver renames the part file over the destination: the one step that
\* brings a file into place.
LEMMA SaveKeeps ==
  ASSUME Inv, NEW t \in Puts \cup Gets, t \in active, Save(t)
  PROVE  Inv'
<1> DEFINE e == rcv[t].entry
           d == Dest[t][e]
           F == [file EXCEPT ![d] = part[t]]
           one == t \in Gets \ Recursive
           r == IF one THEN To(rcv[t], "ok")
                ELSE [rcv[t] EXCEPT !.pc = IF t \in Recursive THEN "top" ELSE "reply",
                                    !.entry = rcv[t].entry + 1,
                                    !.total = rcv[t].total + rcv[t].count]
<1>1. /\ t \in Transfers /\ rcv[t] \in Sides /\ RcvOK(t, rcv[t], looked[t])
      /\ rcv[t].pc = "commit" /\ SavedOK(t, snd[t], rcv[t], bwd[t], file)
      /\ PartOK(t, rcv[t], part[t])
  BY ReceiverKnown DEF Save
<1>2. UNCHANGED <<sizes, snd, fwd, bwd, env>> /\ rcv[t].pc \notin Ended
  BY <1>1 DEF Save, Ended
<1>3. /\ e \in Entries(t) /\ d \in Paths /\ e \in Nat /\ rcv[t].size = looked[t][e]
      /\ rcv[t].count \in Nat /\ rcv[t].total \in Nat
  BY <1>1, DestFacts DEF RcvOK, Handling, Sides
<1>4. /\ part[t] \in {Copies(t, rcv[t].count), Cut(t, rcv[t].count)}
      /\ part[t] \in Seq({t, Torn})
      /\ t \in Puts \/ part[t] = Copies(t, rcv[t].count)
  <2>1. part[t] \in {Copies(t, rcv[t].count), Cut(t, rcv[t].count)}
    BY <1>1 DEF PartOK
  <2>2. t \in Puts \/ \A i \in DOMAIN part[t] : part[t][i] # Torn
    BY DEF Save, Flushed, Written, PartOf
  <2>3. t \in Puts \/ part[t] = Copies(t, rcv[t].count)
    BY <1>1, <1>3, <2>1, <2>2, WrittenWhole
  <2> QED
    BY <1>3, <2>1, <2>3, CopiesSeq
<1>5. part' = [part EXCEPT ![t] = Absent] /\ file' = F
  BY DEF Save, Remove, PartOf, DestOf
<1>6. rcv' = [rcv EXCEPT ![t] = r]
  BY DEF Save
<1>7. /\ F \in [Paths -> Contents] /\ Grows(file, F) /\ F[d] = part[t] /\ InPlace(F, d)
      /\ \A c \in Paths : c # d => F[c] = file[c]
  <2> DEFINE x == part[t]
  <2>1. F = [file EXCEPT ![d] = x] /\ x \in Seq({t, Torn}) /\ d \in Paths
    BY <1>3, <1>4
  <2> HIDE DEF F, d, x
  <2>2. F \in [Paths -> Contents] /\ Grows(file, F) /\ F[d] = x /\ InPlace(F, d)
    BY <1>1, <2>1, WrittenFile
  <2>3. \A c \in Paths : c # d => F[c] = file[c]
    BY <1>1, <2>1, SameFiles
  <2> QED
    BY <2>2, <2>3 DEF x
<1>8. CASE one
  <2>1. "ok" \in Ended /\ r = To(rcv[t], "ok")
    BY <1>8 DEF Ended
  <2> HIDE DEF F, r
  <2>2. r \in Sides /\ r.pc = "ok" /\ RcvOK(t, r, looked[t]) /\ \A a : RcvAt(t, r, a)
    BY <1>1, <2>1, EndedSide
  <2>3. PartOK(t, r, Absent) /\ Absent \in Contents
    BY <2>2 DEF PartOK, Contents
  <2>4. Path(t, snd[t], r, fwd'[t], looked[t])
    BY <1>2, <2>2, PathAnywhere
  <2>5. rcv[t].count = looked[t][e] /\ e = 1 /\ Entries(t) = {1}
    BY <1>1, <1>3, <1>8, DestFacts DEF RcvOK, Entries
  <2>6. AllIn(t, F)
    BY <1>7, <2>5 DEF AllIn
  <2>7. \A c \in Paths : F[c] # file[c] =>
          t \in active /\ (Brings(t, snd[t], looked[t], F[c], c) \/ Excused(t, r))
    <3>1. Looked(t, snd[t])
      BY <1>1, HandlingLooked DEF Handling
    <3>2. F[d] = Copies(t, looked[t][e])
      BY <1>4, <1>7, <1>8, <2>5, TransfersAssumption
    <3>3. Brings(t, snd[t], looked[t], F[d], d)
      BY <1>3, <3>1, <3>2 DEF Brings
    <3> QED
      BY <1>7, <3>3
  <2>8. Shorter(fwd[t], fwd'[t]) /\ fwd' = [fwd EXCEPT ![t] = fwd'[t]]
    BY <1>2, ReadFacts
  <2>9. Longer(bwd[t], bwd'[t], {"error"}) /\ bwd' = [bwd EXCEPT ![t] = bwd'[t]]
    BY <1>2, ReportFacts
  <2>10. /\ rcv[t].pc # "dropped" /\ r.pc \notin Handling /\ r.pc \in Ended
         /\ r.pc \notin {"open", "receive", "commit"}
    BY <1>1, <2>1, <2>2 DEF Handling
  <2> QED
    BY <1>2, <1>5, <1>6, <1>7, <2>2, <2>3, <2>4, <2>6, <2>7, <2>8, <2>9, <2>10, ReceiverKeeps
<1>9. CASE ~one
  <2>1. e + 1 \in Nat /\ rcv[t].total + rcv[t].count \in Nat
    BY <1>3
  <2>2. r = [rcv[t] EXCEPT !.pc = IF t \in Recursive THEN "top" ELSE "reply",
                           !.entry = e + 1, !.total = rcv[t].total + rcv[t].count]
    BY <1>1, <1>9 DEF Sides
  <2>3. /\ r \in Sides /\ r.pc = (IF t \in Recursive THEN "top" ELSE "reply")
        /\ r.entry = e + 1 /\ r.total = rcv[t].total + rcv[t].count
        /\ r.count = rcv[t].count /\ r.size = rcv[t].size
    <3> HIDE DEF r
    <3> QED
      BY <1>1, <2>1, <2>2 DEF Sides, RcvPlaces
  <2> HIDE DEF F, r
  <2>4. RcvOK(t, r, looked[t])
    <3>1. r.entry \in 1 .. Len(Dest[t]) + 1
      <4>1. e >= 1 /\ e <= Len(Dest[t]) /\ Len(Dest[t]) \in Nat
        BY <1>1, <1>3, SentBounds
      <4> QED
        BY <1>3, <2>3, <4>1
    <3>2. r.total <= MaxSize * (r.entry - 1)
      <4> DEFINE m == MaxSize * (e - 1)
                 k == MaxSize * e
      <4>1. m \in Nat /\ k \in Nat /\ m + MaxSize = k
        BY <1>1, <1>3, SentBounds
      <4>2. rcv[t].total <= m /\ rcv[t].count <= MaxSize
        BY <1>1 DEF RcvOK
      <4> HIDE DEF m, k
      <4>3. rcv[t].total + rcv[t].count <= k
        BY <1>3, <4>1, <4>2, SizeFacts
      <4>4. r.entry - 1 = e
        BY <1>3, <2>3
      <4> QED
        BY <2>3, <4>3, <4>4 DEF k
    <3>3. t \notin Recursive => t \in Puts /\ r.entry = Len(Dest[t]) + 1
      <4>1. t \notin Recursive => Len(Dest[t]) = 1 /\ e = 1
        BY <1>1, <1>3, DestFacts DEF Entries
      <4> QED
        BY <1>9, <2>3, <4>1
    <3>4. r.count <= MaxSize /\ r.size \in Sizes \cup {0}
      BY <1>1, <2>3 DEF RcvOK
    <3> QED
      BY <2>3, <3>1, <3>2, <3>3, <3>4 DEF RcvOK, RcvPlaces, Handling
  <2>5. PartOK(t, r, Absent) /\ Absent \in Contents
    BY <2>3 DEF PartOK, Contents
  <2>6. Path(t, snd[t], r, fwd'[t], looked[t])
    <3>1. \A a \in Places : RcvAt(t, rcv[t], a) => RcvAt(t, r, a)
      BY <1>1, <2>3 DEF RcvAt
    <3> QED
      BY <1>2, <3>1, PathStays
  <2>7. \A c \in Entries(t) : c < r.entry => InPlace(F, Dest[t][c])
    <3> SUFFICES ASSUME NEW c \in Entries(t), c < r.entry PROVE InPlace(F, Dest[t][c])
      OBVIOUS
    <3>1. c = e \/ c < e
      BY <1>1, <1>3, <2>3, DestFacts
    <3>2. c < e => InPlace(file, Dest[t][c])
      BY <1>1, <1>2 DEF SavedOK
    <3>3. Dest[t][c] \in Paths
      BY <1>1, DestFacts
    <3> QED
      BY <1>7, <3>1, <3>2, <3>3 DEF Grows
  <2>8. \A c \in Paths : F[c] # file[c] =>
          t \in active /\ (Brings(t, snd[t], looked[t], F[c], c) \/ Excused(t, r))
    <3>1. Looked(t, snd[t])
      BY <1>1, HandlingLooked DEF Handling
    <3>2. rcv[t].count = looked[t][e] \/ t \in Gets \cap Recursive
      BY <1>1, <1>3 DEF RcvOK
    <3>3. rcv[t].count = looked[t][e] =>
            F[d] = Copies(t, looked[t][e]) \/ (t \in Puts /\ F[d] = Cut(t, looked[t][e]))
      BY <1>4, <1>7
    <3>4. Brings(t, snd[t], looked[t], F[d], d) \/ Excused(t, r)
      BY <1>3, <3>1, <3>2, <3>3 DEF Brings, Excused
    <3> QED
      BY <1>7, <3>4
  <2>9. Shorter(fwd[t], fwd'[t]) /\ fwd' = [fwd EXCEPT ![t] = fwd'[t]]
    BY <1>2, ReadFacts
  <2>10. Longer(bwd[t], bwd'[t], {"error"}) /\ bwd' = [bwd EXCEPT ![t] = bwd'[t]]
    BY <1>2, ReportFacts
  <2>11. /\ rcv[t].pc # "dropped" /\ r.pc \notin Handling /\ r.pc # "ok"
         /\ r.pc \notin {"open", "receive", "commit"} /\ "complete" \notin {"error"}
    BY <1>1, <2>3 DEF Handling
  <2> QED
    BY <1>2, <1>5, <1>6, <1>7, <2>3, <2>4, <2>5, <2>6, <2>7, <2>8, <2>9, <2>10, <2>11,
       ReceiverKeeps
<1> QED
  BY <1>8, <1>9

\* The rename fails; a download may have copied part of the file into place.
LEMMA SaveFailsKeeps ==
  ASSUME Inv, NEW t \in Puts \cup Gets, t \in active, SaveFails(t)
  PROVE  Inv'
<1> DEFINE d == Dest[t][rcv[t].entry]
<1>1. /\ t \in Transfers /\ rcv[t] \in Sides /\ RcvOK(t, rcv[t], looked[t])
      /\ rcv[t].pc = "commit" /\ PartOK(t, rcv[t], part[t])
  BY ReceiverKnown DEF SaveFails
<1>2. /\ UNCHANGED <<sizes, snd, fwd, env, part>> /\ rcv[t].pc \notin Ended
      /\ Report(t) /\ RcvTo(t, "dropped")
  BY <1>1 DEF SaveFails, Ended
<1>3. part' = [part EXCEPT ![t] = part[t]]
  BY <1>2, ReceiverKnown
<1>4. CASE UNCHANGED file
  <2>1. file \in [Paths -> Contents] /\ Grows(file, file)
    BY <1>1, SameFiles
  <2> QED
    BY <1>2, <1>3, <1>4, <2>1, ReceiverEnds
<1>5. CASE /\ t \in Gets
           /\ \E n \in 0 .. Len(part[t]) : file' = [file EXCEPT ![d] = SubSeq(part[t], 1, n)]
  <2>1. PICK n \in 0 .. Len(part[t]) : file' = [file EXCEPT ![d] = SubSeq(part[t], 1, n)]
    BY <1>5
  <2>2. d \in Paths /\ rcv[t].count \in Nat
    BY <1>1, DestFacts DEF RcvOK, Handling, Sides
  <2>3. part[t] \in Seq({t, Torn})
    BY <1>1, <2>2, CopiesSeq DEF PartOK
  <2>4. SubSeq(part[t], 1, n) \in Seq({t, Torn})
    BY <2>3, SubSeqProperties, LenProperties
  <2> DEFINE x == SubSeq(part[t], 1, n)
             F == [file EXCEPT ![d] = x]
  <2> HIDE DEF d
  <2>5. x \in Seq({t, Torn}) /\ F = [file EXCEPT ![d] = x] /\ file' = F
    BY <2>1, <2>4
  <2> HIDE DEF x, F
  <2>6. F \in [Paths -> Contents] /\ Grows(file, F)
    BY <1>1, <2>2, <2>5, WrittenFile
  <2> QED
    BY <1>2, <1>3, <1>5, <2>5, <2>6, ReceiverEnds
<1> QED
  BY <1>4, <1>5 DEF SaveFails, PartOf, DestOf

\* Every step of a receiver keeps the invariant.
LEMMA ReceiverStep ==
  ASSUME Inv, NEW t \in Puts \cup Gets, GetRequest(t) \/ Receiver(t)
  PROVE  Inv'
<1>1. CASE GetRequest(t)
  BY <1>1, RequestsKeep
<1>2. CASE Receiver(t)
  <2>1. t \in active
    BY <1>2 DEF Receiver
  <2> QED
    BY <1>2, <2>1, HandlePutKeeps, RequestsKeep, GetReadyKeeps, RcvGivingUpKeeps, PrepareKeeps,
       OpenPartKeeps, ReceiveChunkKeeps, ReceiveWrongKeeps, EndOfFileKeeps, SaveKeeps,
       SaveFailsKeeps, NextFileKeeps, LastFileKeeps, ReplyKeeps DEF Receiver
<1> QED
  BY <1>1, <1>2

-----------------------------------------------------------------------------
(***************************************************************************)
(* Questions.                                                              *)
(***************************************************************************)
\* the directories a question may be answered from
Truth(t) == was[t] \cup {Fixed}

\* What is known of a question.
LEMMA AskKnown ==
  ASSUME Inv, NEW t \in Asks
  PROVE  /\ t \in Transfers /\ snd[t] \in Sides /\ rcv[t] \in Sides
         /\ AskOK(t, snd[t], rcv[t], fwd[t], bwd[t], ctx[t], was[t], shells)
         /\ fwd[t] \in Seq(Frames) /\ bwd[t] \in Seq(Frames)
         /\ Len(fwd[t]) <= Window /\ Len(bwd[t]) <= Window
         /\ ctx[t] \in Pids \cup {NoShell} /\ was[t] \in SUBSET Dirs
         /\ snd' = snd => snd' = [snd EXCEPT ![t] = snd[t]]
         /\ rcv' = rcv => rcv' = [rcv EXCEPT ![t] = rcv[t]]
         /\ fwd' = fwd => fwd' = [fwd EXCEPT ![t] = fwd[t]]
         /\ bwd' = bwd => bwd' = [bwd EXCEPT ![t] = bwd[t]]
         /\ UNCHANGED env => /\ ctx' = [ctx EXCEPT ![t] = ctx[t]]
                             /\ was' = [was EXCEPT ![t] = was[t]]
                             /\ UNCHANGED <<conn, shells, pid>>
<1>1. t \in Transfers
  BY DEF Transfers
<1> QED
  BY <1>1 DEF Inv, TypeInv, ShellInv, AskInv, env, context

\* a side of a question counts nothing
Blank(s) == s.entry = 1 /\ s.count = 0 /\ s.total = 0 /\ s.size \in Dirs \cup {Fixed}

\* The server's step at question t, which may write an answer f.
LEMMA ServerMoves ==
  ASSUME Inv, NEW t \in Asks, NEW s \in Sides, snd' = [snd EXCEPT ![t] = s],
         UNCHANGED fwd \/ \E f \in Frames : SndWrite(t, f) /\ (f.kind = "answer" => f.n \in Truth(t)),
         UNCHANGED bwd \/ SndRead(t), UNCHANGED <<sizes, rcv, files, env>>,
         Blank(s), s.pc \in AskPlaces \cup Ended, snd[t].pc \in AskPlaces,
         s.pc \in {"path_exists", "is_dir", "find", "answer"} => s.size \in Truth(t)
  PROVE  Inv'
<1> DEFINE b == bwd'[t]
           q == fwd'[t]
<1>1. /\ t \in Transfers /\ rcv[t] \in Sides
      /\ AskOK(t, snd[t], rcv[t], fwd[t], bwd[t], ctx[t], was[t], shells)
      /\ fwd[t] \in Seq(Frames) /\ bwd[t] \in Seq(Frames)
      /\ Len(fwd[t]) <= Window /\ Len(bwd[t]) <= Window
      /\ ctx[t] \in Pids \cup {NoShell} /\ was[t] \in SUBSET Dirs
      /\ rcv' = [rcv EXCEPT ![t] = rcv[t]]
      /\ ctx' = [ctx EXCEPT ![t] = ctx[t]] /\ was' = [was EXCEPT ![t] = was[t]]
      /\ UNCHANGED <<conn, shells, pid>>
  BY AskKnown
<1>2. Window \in Nat /\ Len(bwd[t]) \in Nat /\ Len(fwd[t]) \in Nat
  BY <1>1, LenProperties, TransfersAssumption
<1>3. /\ b \in Seq(Frames) /\ Len(b) <= Window /\ bwd' = [bwd EXCEPT ![t] = b]
      /\ \A i \in 1 .. Len(b) : b[i].kind \in AskKinds
  <2>1. bwd \in [Transfers -> Seq(Frames)] /\ \A i \in 1 .. Len(bwd[t]) : bwd[t][i].kind \in AskKinds
    BY <1>1 DEF Inv, TypeInv, AskOK
  <2>2. Shorter(bwd[t], b) /\ bwd' = [bwd EXCEPT ![t] = b]
    BY <1>1, <2>1 DEF Shorter, SndRead
  <2> HIDE DEF b
  <2>3. /\ b \in Seq(Frames) /\ Len(b) <= Len(bwd[t])
        /\ \A i \in 1 .. Len(b) : \E j \in 1 .. Len(bwd[t]) : b[i] = bwd[t][j]
    <3>1. bwd[t] \in Seq(Frames) /\ Shorter(bwd[t], b)
      BY <1>1, <2>2
    <3>2. b \in Seq(Frames) /\ Len(b) <= Len(bwd[t]) /\ OnlyOf(bwd[t], b)
      BY ONLY <3>1, ShorterFacts
    <3> QED
      BY <3>2 DEF OnlyOf
  <2>4. Len(b) <= Window
    BY <1>1, <1>2, <2>3, LenProperties
  <2>5. \A i \in 1 .. Len(b) : b[i].kind \in AskKinds
    BY <2>1, <2>3
  <2> QED
    BY <2>2, <2>3, <2>4, <2>5
<1>4. /\ q \in Seq(Frames) /\ Len(q) <= Window /\ fwd' = [fwd EXCEPT ![t] = q]
      /\ \A i \in 1 .. Len(q) : q[i].kind = "answer" => q[i].n \in Truth(t)
  <2>1. /\ fwd \in [Transfers -> Seq(Frames)]
        /\ \A i \in 1 .. Len(fwd[t]) : fwd[t][i].kind = "answer" => fwd[t][i].n \in Truth(t)
    BY <1>1 DEF Inv, TypeInv, AskOK, Truth
  <2>2. CASE UNCHANGED fwd
    BY <1>1, <2>1, <2>2
  <2>3. ASSUME NEW f \in Frames, SndWrite(t, f), f.kind = "answer" => f.n \in Truth(t)
        PROVE  /\ q \in Seq(Frames) /\ Len(q) <= Window /\ fwd' = [fwd EXCEPT ![t] = q]
               /\ \A i \in 1 .. Len(q) : q[i].kind = "answer" => q[i].n \in Truth(t)
    <3>1. /\ q = Append(fwd[t], f) /\ fwd' = [fwd EXCEPT ![t] = q] /\ Len(fwd[t]) < Window
      BY <1>1, <2>1, <2>3 DEF SndWrite, HasRoom
    <3> HIDE DEF q
    <3>2. /\ q \in Seq(Frames) /\ Len(q) = Len(fwd[t]) + 1 /\ q[Len(fwd[t]) + 1] = f
          /\ \A i \in 1 .. Len(fwd[t]) : q[i] = fwd[t][i]
      BY <1>1, <3>1, AppendProperties
    <3>3. Len(q) <= Window
      BY <1>2, <3>1, <3>2
    <3>4. ASSUME NEW i \in 1 .. Len(q), q[i].kind = "answer" PROVE q[i].n \in Truth(t)
      <4>1. i \in 1 .. Len(fwd[t]) \/ i = Len(fwd[t]) + 1
        BY <1>2, <3>2
      <4> QED
        BY <2>1, <2>3, <3>2, <3>4, <4>1
    <3> QED
      BY <3>1, <3>2, <3>3, <3>4
  <2> QED
    BY <2>2, <2>3
<1> HIDE DEF b, q
<1>5. AskOK(t, s, rcv[t], q, b, ctx[t], was[t], shells)
  <2>1. s.pc # "new" /\ (s.pc \in AskPlaces => IF ctx[t] = NoShell THEN Home \in was[t]
                                               ELSE shells[ctx[t]] \in was[t] \cup {Gone})
    BY <1>1 DEF AskOK, AskPlaces, AskKinds, Ended
  <2> QED
    BY <1>1, <1>3, <1>4, <2>1 DEF AskOK, Blank, Truth
<1>6. s.pc # "new"
  BY DEF AskPlaces, AskKinds, Ended
<1> QED
  BY <1>1, <1>3, <1>4, <1>5, <1>6, AskMoves

\* The client's step at question t.
LEMMA ClientMoves ==
  ASSUME Inv, NEW t \in Asks, NEW r \in Sides, rcv' = [rcv EXCEPT ![t] = r],
         UNCHANGED bwd \/ \E f \in Frames : RcvWrite(t, f) /\ f.kind \in AskKinds,
         UNCHANGED fwd \/ RcvRead(t), UNCHANGED <<sizes, snd, files, env>>,
         Blank(r), r.pc \in {"new", "request"} \cup Ended,
         r.pc = "ok" => r.size \in Truth(t) /\ snd[t].pc # "new"
  PROVE  Inv'
<1> DEFINE b == bwd'[t]
           q == fwd'[t]
<1>1. /\ t \in Transfers /\ snd[t] \in Sides
      /\ AskOK(t, snd[t], rcv[t], fwd[t], bwd[t], ctx[t], was[t], shells)
      /\ fwd[t] \in Seq(Frames) /\ bwd[t] \in Seq(Frames)
      /\ Len(fwd[t]) <= Window /\ Len(bwd[t]) <= Window
      /\ ctx[t] \in Pids \cup {NoShell} /\ was[t] \in SUBSET Dirs
      /\ snd' = [snd EXCEPT ![t] = snd[t]]
      /\ ctx' = [ctx EXCEPT ![t] = ctx[t]] /\ was' = [was EXCEPT ![t] = was[t]]
      /\ UNCHANGED <<conn, shells, pid>>
  BY AskKnown
<1>2. Window \in Nat /\ Len(bwd[t]) \in Nat /\ Len(fwd[t]) \in Nat
  BY <1>1, LenProperties, TransfersAssumption
<1>3. /\ q \in Seq(Frames) /\ Len(q) <= Window /\ fwd' = [fwd EXCEPT ![t] = q]
      /\ \A i \in 1 .. Len(q) : q[i].kind = "answer" => q[i].n \in Truth(t)
      /\ fwd[t] = <<>> => q = <<>>
  <2>1. /\ fwd \in [Transfers -> Seq(Frames)]
        /\ \A i \in 1 .. Len(fwd[t]) : fwd[t][i].kind = "answer" => fwd[t][i].n \in Truth(t)
    BY <1>1 DEF Inv, TypeInv, AskOK, Truth
  <2>2. Shorter(fwd[t], q) /\ fwd' = [fwd EXCEPT ![t] = q]
    BY <1>1, <2>1 DEF Shorter, RcvRead
  <2> HIDE DEF q
  <2>3. /\ q \in Seq(Frames) /\ Len(q) <= Len(fwd[t]) /\ (fwd[t] = <<>> => q = <<>>)
        /\ \A i \in 1 .. Len(q) : \E j \in 1 .. Len(fwd[t]) : q[i] = fwd[t][j]
    <3>1. fwd[t] \in Seq(Frames) /\ Shorter(fwd[t], q)
      BY <1>1, <2>2
    <3>2. q \in Seq(Frames) /\ Len(q) <= Len(fwd[t]) /\ (fwd[t] = <<>> => q = <<>>) /\ OnlyOf(fwd[t], q)
      BY ONLY <3>1, ShorterFacts
    <3> QED
      BY <3>2 DEF OnlyOf
  <2>4. Len(q) <= Window
    BY <1>1, <1>2, <2>3, LenProperties
  <2>5. \A i \in 1 .. Len(q) : q[i].kind = "answer" => q[i].n \in Truth(t)
    BY <2>1, <2>3
  <2> QED
    BY <2>2, <2>3, <2>4, <2>5
<1>4. /\ b \in Seq(Frames) /\ Len(b) <= Window /\ bwd' = [bwd EXCEPT ![t] = b]
      /\ \A i \in 1 .. Len(b) : b[i].kind \in AskKinds
  <2>1. bwd \in [Transfers -> Seq(Frames)] /\ \A i \in 1 .. Len(bwd[t]) : bwd[t][i].kind \in AskKinds
    BY <1>1 DEF Inv, TypeInv, AskOK
  <2>2. Longer(bwd[t], b, AskKinds) /\ bwd' = [bwd EXCEPT ![t] = b]
    <3>1. CASE UNCHANGED bwd
      BY <1>1, <2>1, <3>1 DEF Longer
    <3>2. ASSUME NEW f \in Frames, RcvWrite(t, f), f.kind \in AskKinds
          PROVE  Longer(bwd[t], b, AskKinds) /\ bwd' = [bwd EXCEPT ![t] = b]
      <4>1. Len(bwd[t]) < Window /\ b = Append(bwd[t], f) /\ bwd' = [bwd EXCEPT ![t] = b]
        BY <1>1, <2>1, <3>2 DEF RcvWrite, HasRoom
      <4> HIDE DEF b
      <4> QED
        BY <3>2, <4>1, Zenon DEF Longer
    <3> QED
      BY <3>1, <3>2
  <2> HIDE DEF b
  <2>3. b \in Seq(Frames) /\ Len(b) <= Window /\ Adds(bwd[t], b, AskKinds)
    BY <1>1, <2>2, LongerFacts
  <2>4. \A i \in 1 .. Len(b) : b[i].kind \in AskKinds
    BY <2>1, <2>3 DEF Adds
  <2> QED
    BY <2>2, <2>3, <2>4
<1> HIDE DEF b, q
<1>5. AskOK(t, snd[t], r, q, b, ctx[t], was[t], shells)
  BY <1>1, <1>3, <1>4 DEF AskOK, Blank, Truth
<1> QED
  BY <1>1, <1>3, <1>4, <1>5, AskMoves

\* a side of a question that goes on, or ends
LEMMA BlankSide ==
  ASSUME Inv, NEW t \in Asks, NEW x \in {snd[t], rcv[t]},
         NEW pc \in SndPlaces \cup RcvPlaces \cup AskPlaces
  PROVE  /\ To(x, pc) \in Sides /\ Blank(To(x, pc)) /\ To(x, pc).pc = pc
         /\ pc \notin Ended => To(x, pc).size = x.size
<1>1. x \in Sides /\ Blank(x) /\ t \in Transfers
  BY AskKnown DEF AskOK, Blank
<1>2. CASE pc \in Ended
  <2>1. 0 \in Dirs
    BY DEF Dirs, Home
  <2> QED
    BY <1>1, <1>2, <2>1, EndedSide DEF Blank
<1>3. CASE pc \notin Ended
  BY <1>1, <1>3, StayedSide DEF Blank
<1> QED
  BY <1>2, <1>3

\* where the shell of a question is now is one of the places it may be answered from
LEMMA CwdTrue ==
  ASSUME Inv, NEW t \in Asks, snd[t].pc \in AskPlaces
  PROVE  Cwd(t) \subseteq was[t] /\ was[t] \subseteq Dirs
BY AskKnown DEF AskOK, Cwd

\* The server resolves the question in the shell's directory as it is by then.
LEMMA ResolveKeeps ==
  ASSUME Inv, NEW t \in Asks, Resolve(t)
  PROVE  Inv'
<1>1. PICK d \in IF snd[t].pc = "cwd" THEN Cwd(t) ELSE ResolvePath(t) :
        snd' = [snd EXCEPT ![t].size = d,
                           ![t].pc = CASE @ = "cwd" -> "answer"
                                       [] @ = "exists" -> "path_exists"
                                       [] @ = "completion" -> "find"]
  BY DEF Resolve
<1>2. /\ snd[t].pc \in AskKinds /\ snd[t].pc \in AskPlaces
      /\ UNCHANGED <<sizes, rcv, fwd, bwd, files, env>>
  BY DEF Resolve, AskPlaces
<1>3. d \in Truth(t) /\ d \in Dirs \cup {Fixed} /\ d \in Nat
  <2>1. d \in Truth(t) /\ d \in Dirs \cup {Fixed}
    BY <1>2, CwdTrue DEF ResolvePath, Truth
  <2> QED
    BY <2>1 DEF Dirs, Fixed, Home
<1> DEFINE pc == CASE snd[t].pc = "cwd" -> "answer"
                   [] snd[t].pc = "exists" -> "path_exists"
                   [] snd[t].pc = "completion" -> "find"
           s == [snd[t] EXCEPT !.size = d, !.pc = pc]
<1>4. pc \in {"answer", "path_exists", "find"}
  BY <1>2 DEF AskKinds
<1>5. t \in Transfers /\ snd[t] \in Sides /\ Blank(snd[t]) /\ snd \in [Transfers -> Sides]
  BY AskKnown DEF AskOK, Blank, Inv, TypeInv
<1>6. snd' = [snd EXCEPT ![t] = s]
  <2>1. CASE snd[t].pc = "cwd"
    <3>1. pc = "answer" /\ snd' = [snd EXCEPT ![t].size = d, ![t].pc = "answer"]
      BY <1>1, <1>5, <2>1
    <3> HIDE DEF pc
    <3> QED
      BY <1>5, <3>1
  <2>2. CASE snd[t].pc = "exists"
    <3>1. pc = "path_exists" /\ snd' = [snd EXCEPT ![t].size = d, ![t].pc = "path_exists"]
      BY <1>1, <1>5, <2>2
    <3> HIDE DEF pc
    <3> QED
      BY <1>5, <3>1
  <2>3. CASE snd[t].pc = "completion"
    <3>1. pc = "find" /\ snd' = [snd EXCEPT ![t].size = d, ![t].pc = "find"]
      BY <1>1, <1>5, <2>3
    <3> HIDE DEF pc
    <3> QED
      BY <1>5, <3>1
  <2> QED
    BY <1>2, <2>1, <2>2, <2>3 DEF AskKinds
<1> HIDE DEF pc
<1>7. s \in Sides /\ s.pc = pc /\ s.size = d /\ Blank(s)
  BY <1>3, <1>4, <1>5 DEF Sides, AskPlaces, Blank
<1> HIDE DEF s
<1>8. s.pc \in AskPlaces
  BY <1>4, <1>7 DEF AskPlaces
<1> QED
  BY <1>2, <1>3, <1>6, <1>7, <1>8, ServerMoves

\* The server's steps at a question once it has taken the shell's process.
LEMMA AnswersKeep ==
  ASSUME Inv, NEW t \in Asks, Answers(t), ~FromState(t)
  PROVE  Inv'
<1>1. CASE Resolve(t)
  BY <1>1, ResolveKeeps
<1>2. CASE ReadAsk(t)
  <2> DEFINE k == Head(bwd[t]).kind
             s == To(snd[t], k)
  <2>1. /\ snd[t].pc = "dispatched" /\ SndRead(t) /\ snd' = [snd EXCEPT ![t] = s]
        /\ UNCHANGED <<sizes, rcv, fwd, files, env>>
    BY <1>2 DEF ReadAsk, SndTo
  <2>2. k \in AskKinds
    <3>1. bwd[t] \in Seq(Frames) /\ bwd[t] # <<>> /\ \A i \in 1 .. Len(bwd[t]) : bwd[t][i].kind \in AskKinds
      BY <2>1, AskKnown DEF AskOK, SndRead
    <3>2. 1 \in 1 .. Len(bwd[t]) /\ Head(bwd[t]) = bwd[t][1]
      BY <3>1, EmptySeq, LenProperties
    <3> QED
      BY <3>1, <3>2
  <2> HIDE DEF k
  <2>3. k \in AskPlaces /\ k \notin Ended /\ k \notin {"path_exists", "is_dir", "find", "answer"}
    BY <2>2 DEF AskPlaces, AskKinds, Ended
  <2>4. s \in Sides /\ Blank(s) /\ s.pc = k
    BY <2>3, BlankSide
  <2> HIDE DEF s
  <2>5. snd[t].pc \in AskPlaces
    BY <2>1 DEF AskPlaces
  <2> QED
    BY <2>1, <2>3, <2>4, <2>5, ServerMoves
<1>3. CASE PathExists(t) \/ IsDir(t) \/ Find(t)
  <2> DEFINE pc == IF snd[t].pc = "path_exists" THEN "is_dir" ELSE "answer"
             s == To(snd[t], pc)
  <2>1. /\ snd[t].pc \in {"path_exists", "is_dir", "find"} /\ snd' = [snd EXCEPT ![t] = s]
        /\ UNCHANGED <<sizes, rcv, fwd, bwd, files, env>>
    BY <1>3 DEF PathExists, IsDir, Find, SndTo
  <2>2. pc \in {"is_dir", "answer"}
    OBVIOUS
  <2> HIDE DEF pc
  <2>3. pc \in AskPlaces /\ pc \notin Ended /\ snd[t].pc \in AskPlaces
    BY <2>1, <2>2 DEF AskPlaces, Ended
  <2>4. s \in Sides /\ Blank(s) /\ s.pc = pc /\ s.size = snd[t].size
    BY <2>3, BlankSide
  <2> HIDE DEF s
  <2>5. s.size \in Truth(t)
    BY <2>1, <2>4, AskKnown DEF AskOK, Truth
  <2> QED
    BY <2>1, <2>3, <2>4, <2>5, ServerMoves
<1>4. CASE AskFails(t) \/ AskUnread(t) \/ (Answer(t) /\ SndTo(t, "failed"))
  <2> DEFINE s == To(snd[t], "failed")
  <2>1. /\ snd[t].pc \in AskPlaces /\ snd' = [snd EXCEPT ![t] = s]
        /\ UNCHANGED <<sizes, rcv, files, env>> /\ (UNCHANGED bwd \/ SndRead(t))
    BY <1>4 DEF AskFails, AskUnread, Answer, SndTo, SndReadFails, AskPlaces
  <2>2. "failed" \in Ended /\ "failed" \in SndPlaces /\ "failed" \notin {"path_exists", "is_dir", "find", "answer"}
    BY DEF Ended, SndPlaces
  <2>3. s \in Sides /\ Blank(s) /\ s.pc = "failed"
    BY <2>2, BlankSide
  <2> HIDE DEF s
  <2>4. UNCHANGED fwd \/ \E f \in Frames : SndWrite(t, f) /\ (f.kind = "answer" => f.n \in Truth(t))
    <3>1. CASE UNCHANGED fwd
      BY <3>1
    <3>2. CASE SndWrite(t, Frame("error", 0))
      <4>1. Frame("error", 0) \in Frames /\ Frame("error", 0).kind = "error"
        BY FrameFacts DEF Kinds
      <4> QED
        BY <3>2, <4>1
    <3>3. CASE Answer(t) /\ SndWrite(t, Frame("answer", snd[t].size))
      <4>1. snd[t].size \in Nat /\ snd[t].size \in Truth(t)
        BY <3>3, AskKnown DEF Answer, AskOK, Truth, Sides
      <4>2. Frame("answer", snd[t].size) \in Frames /\ Frame("answer", snd[t].size).n = snd[t].size
        BY <4>1, FrameFacts DEF Kinds
      <4> QED
        BY <3>3, <4>1, <4>2
    <3> QED
      BY <1>4, <3>1, <3>2, <3>3 DEF AskFails, AskUnread, Answer, SndError, SndWriteFails
  <2> QED
    BY <2>1, <2>2, <2>3, <2>4, ServerMoves
<1>5. CASE Answer(t) /\ SndWrite(t, Frame("answer", snd[t].size)) /\ SndTo(t, "ok")
  <2> DEFINE s == To(snd[t], "ok")
  <2>1. /\ snd[t].pc = "answer" /\ snd[t].pc \in AskPlaces /\ snd' = [snd EXCEPT ![t] = s]
        /\ UNCHANGED <<sizes, rcv, files, env, bwd>>
    BY <1>5 DEF Answer, SndTo, AskPlaces
  <2>2. "ok" \in Ended /\ "ok" \in SndPlaces /\ "ok" \notin {"path_exists", "is_dir", "find", "answer"}
    BY DEF Ended, SndPlaces
  <2>3. s \in Sides /\ Blank(s) /\ s.pc = "ok"
    BY <2>2, BlankSide
  <2> HIDE DEF s
  <2>4. snd[t].size \in Nat /\ snd[t].size \in Truth(t)
    BY <2>1, AskKnown DEF AskOK, Truth, Sides
  <2>5. Frame("answer", snd[t].size) \in Frames /\ Frame("answer", snd[t].size).n = snd[t].size
    BY <2>4, FrameFacts DEF Kinds
  <2>6. \E f \in Frames : SndWrite(t, f) /\ (f.kind = "answer" => f.n \in Truth(t))
    BY <1>5, <2>4, <2>5
  <2> QED
    BY <2>1, <2>2, <2>3, <2>6, ServerMoves
<1> QED
  BY <1>1, <1>2, <1>3, <1>4, <1>5 DEF Answers, Answer

\* The server takes the shell's process before it has read the question.
LEMMA FromStateKeeps ==
  ASSUME Inv, NEW t \in Asks, FromState(t)
  PROVE  Inv'
<1> DEFINE s == To(snd[t], "dispatched")
           w == (IF pid = NoShell THEN {Home} ELSE {shells[pid]}) \cap Dirs
<1>1. /\ t \in Transfers /\ rcv[t] \in Sides /\ snd[t].pc = "new"
      /\ AskOK(t, snd[t], rcv[t], fwd[t], bwd[t], ctx[t], was[t], shells)
      /\ fwd[t] \in Seq(Frames) /\ bwd[t] \in Seq(Frames)
      /\ Len(fwd[t]) <= Window /\ Len(bwd[t]) <= Window
      /\ rcv' = [rcv EXCEPT ![t] = rcv[t]] /\ fwd' = [fwd EXCEPT ![t] = fwd[t]]
      /\ bwd' = [bwd EXCEPT ![t] = bwd[t]]
  BY AskKnown DEF FromState
<1>2. /\ snd' = [snd EXCEPT ![t] = s] /\ ctx' = [ctx EXCEPT ![t] = pid]
      /\ was' = [was EXCEPT ![t] = w] /\ UNCHANGED <<sizes, files, conn, shells, pid>>
  BY DEF FromState, SndTo
<1>3. /\ "dispatched" \in AskPlaces /\ "dispatched" \notin Ended
      /\ "dispatched" \notin {"path_exists", "is_dir", "find", "answer"}
  BY DEF AskPlaces, Ended
<1>4. s \in Sides /\ Blank(s) /\ s.pc = "dispatched"
  BY <1>3, BlankSide
<1>5. /\ pid \in Pids \cup {NoShell} /\ w \in SUBSET Dirs
      /\ IF pid = NoShell THEN Home \in w ELSE shells[pid] \in w \cup {Gone}
  BY DEF Inv, ShellInv, Home, Dirs
<1> HIDE DEF s, w
<1>6. AskOK(t, s, rcv[t], fwd[t], bwd[t], pid, w, shells)
  <2>1. fwd[t] = <<>> /\ rcv[t].pc # "ok" /\ Len(fwd[t]) = 0
    BY <1>1 DEF AskOK
  <2>2. \A i \in 1 .. Len(fwd[t]) : fwd[t][i].kind = "answer" => fwd[t][i].n \in w \cup {Fixed}
    BY <2>1
  <2> QED
    BY <1>1, <1>3, <1>4, <1>5, <2>1, <2>2 DEF AskOK, Blank
<1>7. s.pc # "new"
  BY <1>4
<1> QED
  BY <1>1, <1>2, <1>4, <1>5, <1>6, <1>7, AskMoves

\* The client asks, reads the answer, or gives the question up.
LEMMA ClientKeeps ==
  ASSUME Inv, NEW t \in Asks, Ask(t) \/ Answered(t) \/ Cancel(t)
  PROVE  Inv'
<1>1. CASE Ask(t)
  <2> DEFINE r == To(rcv[t], "request")
  <2>1. /\ rcv' = [rcv EXCEPT ![t] = r] /\ UNCHANGED <<fwd, sizes, snd, files, env>>
    BY <1>1 DEF Ask, RcvTo
  <2>2. "request" \in RcvPlaces
    BY DEF RcvPlaces
  <2>3. r \in Sides /\ Blank(r) /\ r.pc = "request"
    BY <2>2, BlankSide
  <2> HIDE DEF r
  <2>4. \E f \in Frames : RcvWrite(t, f) /\ f.kind \in AskKinds
    <3>1. PICK k \in AskKinds : RcvWrite(t, Frame(k, 0))
      BY <1>1 DEF Ask
    <3>2. Frame(k, 0) \in Frames /\ Frame(k, 0).kind = k
      BY FrameFacts DEF Kinds
    <3> QED
      BY <3>1, <3>2
  <2> QED
    BY <2>1, <2>3, <2>4, ClientMoves
<1>2. CASE (Answered(t) /\ RcvTo(t, "failed")) \/ (Cancel(t) /\ RcvTo(t, "dropped"))
  <2> DEFINE pc == IF Cancel(t) /\ RcvTo(t, "dropped") THEN "dropped" ELSE "failed"
             r == To(rcv[t], pc)
  <2>1. /\ rcv' = [rcv EXCEPT ![t] = r] /\ UNCHANGED bwd /\ (UNCHANGED fwd \/ RcvRead(t))
        /\ UNCHANGED <<sizes, snd, files, env>>
    <3>1. t \notin Puts
      BY TransfersAssumption
    <3>2. RcvTo(t, pc)
      BY <1>2
    <3>3. rcv' = [rcv EXCEPT ![t] = r]
      BY <3>2 DEF RcvTo
    <3> QED
      BY <1>2, <3>1, <3>3 DEF Answered, Cancel, RcvGets, RcvGetsOther, RcvReadFails
  <2>2. pc \in Ended /\ pc \in RcvPlaces /\ pc # "ok"
    BY DEF Ended, RcvPlaces
  <2> HIDE DEF pc
  <2>3. r \in Sides /\ Blank(r) /\ r.pc = pc
    BY <2>2, BlankSide
  <2> HIDE DEF r
  <2> QED
    BY <2>1, <2>2, <2>3, ClientMoves
<1>3. CASE /\ Answered(t) /\ RcvGets(t, "answer")
           /\ rcv' = [rcv EXCEPT ![t].pc = "ok", ![t].size = Head(fwd[t]).n]
  <2> DEFINE n == Head(fwd[t]).n
             r == [rcv[t] EXCEPT !.pc = "ok", !.size = n]
  <2>1. /\ UNCHANGED bwd /\ RcvRead(t) /\ UNCHANGED <<sizes, snd, files, env>>
        /\ Head(fwd[t]).kind = "answer" /\ fwd[t] # <<>>
    BY <1>3 DEF Answered, RcvGets, RcvRead
  <2>2. /\ t \in Transfers /\ rcv[t] \in Sides /\ Blank(rcv[t]) /\ fwd[t] \in Seq(Frames)
        /\ \A i \in 1 .. Len(fwd[t]) : fwd[t][i].kind = "answer" => fwd[t][i].n \in Truth(t)
        /\ snd[t].pc # "new" /\ rcv \in [Transfers -> Sides]
    BY <2>1, AskKnown DEF AskOK, Blank, Truth, Inv, TypeInv
  <2>3. 1 \in 1 .. Len(fwd[t]) /\ Head(fwd[t]) = fwd[t][1]
    BY <2>1, <2>2, EmptySeq, LenProperties
  <2>4. n \in Truth(t) /\ n \in Nat /\ n \in Dirs \cup {Fixed}
    <3>1. n \in Truth(t)
      BY <2>1, <2>2, <2>3
    <3>2. Truth(t) \subseteq Dirs \cup {Fixed}
      BY AskKnown DEF Truth
    <3> QED
      BY <3>1, <3>2 DEF Dirs, Home, Fixed
  <2>5. rcv' = [rcv EXCEPT ![t] = r]
    BY <1>3, <2>2
  <2> HIDE DEF n
  <2>6. r \in Sides /\ Blank(r) /\ r.pc = "ok" /\ r.size = n
    BY <2>2, <2>4 DEF Sides, RcvPlaces, Ended, Blank
  <2> HIDE DEF r
  <2>7. "ok" \in Ended
    BY DEF Ended
  <2> QED
    BY <2>1, <2>2, <2>4, <2>5, <2>6, <2>7, ClientMoves
<1> QED
  <2>1. t \notin Puts
    BY TransfersAssumption
  <2> QED
    BY <1>1, <1>2, <1>3, <2>1 DEF Answered, Cancel

\* The shell starts, moves, ends or is forgotten.
LEMMA ShellMoves ==
  ASSUME Inv, UNCHANGED <<sizes, snd, rcv, fwd, bwd, files, conn, ctx>>, ShellInv',
         \A t \in Asks : was[t] \subseteq was'[t],
         \A t \in Asks : snd[t].pc \in AskPlaces =>
           IF ctx[t] = NoShell THEN Home \in was'[t] ELSE shells'[ctx[t]] \in was'[t] \cup {Gone}
  PROVE  Inv'
<1>1. /\ active' = active /\ source' = source /\ looked' = looked /\ changed' = changed
      /\ snd' = snd /\ rcv' = rcv /\ fwd' = fwd /\ bwd' = bwd /\ part' = part /\ file' = file
      /\ conn' = conn /\ ctx' = ctx
  BY DEF sizes, files
<1>2. TypeInv' /\ WholeInv'
  BY <1>1 DEF Inv, TypeInv, WholeInv
<1>3. ASSUME NEW t \in Puts \cup Gets PROVE TransferInv(t)'
  <2>1. TransferInv(t)
    BY DEF Inv
  <2> QED
    BY <1>1, <2>1, Zenon DEF TransferInv, TransferOK, PartOK
<1>4. ASSUME NEW t \in Asks PROVE AskInv(t)'
  <2>1. AskOK(t, snd[t], rcv[t], fwd[t], bwd[t], ctx[t], was[t], shells)
    BY AskKnown
  <2>2. \A i \in 1 .. Len(fwd[t]) : fwd[t][i].kind = "answer" => fwd[t][i].n \in was'[t] \cup {Fixed}
    BY <2>1 DEF AskOK
  <2>3. AskOK(t, snd[t], rcv[t], fwd[t], bwd[t], ctx[t], was'[t], shells')
    BY <2>1, <2>2 DEF AskOK
  <2> QED
    BY <1>1, <2>3 DEF AskInv
<1> QED
  BY <1>2, <1>3, <1>4 DEF Inv

\* The shell starts, ends or changes its directory while questions are under way.
LEMMA ShellStep ==
  ASSUME Inv, SetShellPid \/ ClearShellPid \/ \E i \in Pids : Cd(i) \/ ShellExits(i)
  PROVE  Inv'
<1>1. /\ ShellInv
      /\ \A t \in Asks : snd[t].pc \in AskPlaces =>
           IF ctx[t] = NoShell THEN Home \in was[t] ELSE shells[ctx[t]] \in was[t] \cup {Gone}
  BY DEF Inv, AskInv, AskOK
<1>2. 0 \notin Pids
  BY DEF Pids
<1>3. CASE SetShellPid
  <2>1. PICK i \in Pids, d \in Dirs :
          /\ shells[i] = Unborn /\ shells' = [shells EXCEPT ![i] = d] /\ pid' = i
    BY <1>3 DEF SetShellPid
  <2>2. UNCHANGED <<sizes, snd, rcv, fwd, bwd, files, conn, ctx, was>>
    BY <1>3 DEF SetShellPid
  <2>3. d # Unborn /\ d \in Dirs \cup {Unborn, Gone}
    BY DEF Dirs, Unborn, Home
  <2>4. ShellInv'
    BY <1>1, <2>1, <2>2, <2>3 DEF ShellInv
  <2>5. ASSUME NEW t \in Asks, snd[t].pc \in AskPlaces
        PROVE  IF ctx[t] = NoShell THEN Home \in was'[t]
               ELSE shells'[ctx[t]] \in was'[t] \cup {Gone}
    <3>1. ctx[t] # NoShell => shells[ctx[t]] # Unborn /\ ctx[t] \in Pids
      BY <1>1, <2>5 DEF ShellInv, Dirs, Unborn, Gone, Home
    <3>2. ctx[t] # NoShell => ctx[t] # i /\ shells'[ctx[t]] = shells[ctx[t]]
      BY <1>1, <2>1, <3>1 DEF ShellInv
    <3> QED
      BY <1>1, <2>2, <2>5, <3>2
  <2> QED
    BY <2>2, <2>4, <2>5, ShellMoves
<1>4. CASE ClearShellPid
  <2>1. UNCHANGED <<sizes, snd, rcv, fwd, bwd, files, conn, ctx, was, shells>> /\ pid' = NoShell
    BY <1>4 DEF ClearShellPid
  <2>2. ShellInv'
    BY <1>1, <2>1 DEF ShellInv
  <2> QED
    BY <1>1, <2>1, <2>2, ShellMoves
<1>5. ASSUME NEW i \in Pids, Cd(i) PROVE Inv'
  <2>1. PICK d \in Dirs :
          /\ shells' = [shells EXCEPT ![i] = d]
          /\ was' = [t \in Asks |-> IF ctx[t] = i THEN was[t] \cup {d} ELSE was[t]]
    BY <1>5 DEF Cd
  <2>2. UNCHANGED <<sizes, snd, rcv, fwd, bwd, files, conn, ctx, pid>>
    BY <1>5 DEF Cd
  <2>3. d # Unborn /\ d \in Dirs \cup {Unborn, Gone}
    BY DEF Dirs, Unborn, Home
  <2>4. ShellInv'
    <3>1. was' \in [Asks -> SUBSET Dirs]
      BY <1>1, <2>1 DEF ShellInv
    <3> QED
      BY <1>1, <2>1, <2>2, <2>3, <3>1 DEF ShellInv
  <2>5. ASSUME NEW t \in Asks
        PROVE  was[t] \subseteq was'[t] /\ (ctx[t] = i => d \in was'[t])
    BY <2>1
  <2>6. ASSUME NEW t \in Asks, snd[t].pc \in AskPlaces
        PROVE  IF ctx[t] = NoShell THEN Home \in was'[t]
               ELSE shells'[ctx[t]] \in was'[t] \cup {Gone}
    <3>1. CASE ctx[t] = i
      <4>1. shells'[ctx[t]] = d /\ ctx[t] # NoShell
        BY <1>1, <1>2, <2>1, <3>1 DEF ShellInv, NoShell
      <4> QED
        BY <2>5, <3>1, <4>1
    <3>2. CASE ctx[t] # i
      <4>1. ctx[t] # NoShell => shells'[ctx[t]] = shells[ctx[t]]
        BY <1>1, <2>1, <3>2 DEF ShellInv
      <4> QED
        BY <1>1, <2>5, <2>6, <4>1
    <3> QED
      BY <3>1, <3>2
  <2> QED
    BY <2>2, <2>4, <2>5, <2>6, ShellMoves
<1>6. ASSUME NEW i \in Pids, ShellExits(i) PROVE Inv'
  <2>1. /\ shells' = [shells EXCEPT ![i] = Gone]
        /\ UNCHANGED <<sizes, snd, rcv, fwd, bwd, files, conn, ctx, pid, was>>
    BY <1>6 DEF ShellExits
  <2>2. ShellInv'
    <3>1. Gone # Unborn
      BY DEF Gone, Unborn
    <3> QED
      BY <1>1, <2>1, <3>1 DEF ShellInv
  <2>3. ASSUME NEW t \in Asks, snd[t].pc \in AskPlaces
        PROVE  IF ctx[t] = NoShell THEN Home \in was'[t]
               ELSE shells'[ctx[t]] \in was'[t] \cup {Gone}
    <3>1. ctx[t] # NoShell => shells'[ctx[t]] \in {shells[ctx[t]], Gone}
      BY <1>1, <2>1 DEF ShellInv
    <3> QED
      BY <1>1, <2>1, <2>3, <3>1
  <2> QED
    BY <2>1, <2>2, <2>3, ShellMoves
<1> QED
  BY <1>3, <1>4, <1>5, <1>6

\* What is sent may change at any time: only what was seen of it counts.
LEMMA SourceStep ==
  ASSUME Inv, NEW t \in Transfers, SourceChanges(t)
  PROVE  Inv'
<1>1. PICK e \in Entries(t), n \in Sizes : source' = [source EXCEPT ![t][e] = n]
  BY DEF SourceChanges
<1>2. /\ UNCHANGED <<active, looked, snd, rcv, fwd, bwd, part, file, conn, shells, pid, ctx, was>>
      /\ changed' = changed \cup {t} /\ t \in active
  BY DEF SourceChanges, files, env, context
<1>3. source \in [Transfers -> SizeMaps] /\ source[t] \in [Entries(t) -> Sizes]
  BY DEF Inv, TypeInv
<1> DEFINE z == [source[t] EXCEPT ![e] = n]
<1>4. z \in [Entries(t) -> Sizes] /\ source' = [source EXCEPT ![t] = z]
  BY <1>1, <1>3
<1> HIDE DEF z
<1>5. z \in SizeMaps
  BY <1>4 DEF SizeMaps
<1>6. /\ source' \in [Transfers -> SizeMaps]
      /\ \A u \in Transfers : source'[u] = IF u = t THEN z ELSE source[u]
  BY <1>3, <1>4, <1>5
<1>7. TypeInv'
  BY <1>2, <1>4, <1>6 DEF Inv, TypeInv
<1>8. ShellInv' /\ WholeInv'
  BY <1>2 DEF Inv, ShellInv, WholeInv
<1>9. ASSUME NEW u \in Puts \cup Gets PROVE TransferInv(u)'
  <2>1. TransferInv(u)
    BY DEF Inv
  <2> QED
    BY <1>2, <2>1, Zenon DEF TransferInv, TransferOK, PartOK
<1>10. ASSUME NEW u \in Asks PROVE AskInv(u)'
  <2>1. AskInv(u)
    BY DEF Inv
  <2> QED
    BY <1>2, <2>1, Zenon DEF AskInv
<1> QED
  BY <1>7, <1>8, <1>9, <1>10 DEF Inv

\* A lost connection shows in what can be read and written from then on, and
\* in nothing that is already there.
LEMMA LostStep ==
  ASSUME Inv, ConnLost \/ UNCHANGED vars
  PROVE  Inv'
<1>1. /\ UNCHANGED <<active, source, looked, changed, snd, rcv, fwd, bwd, part, file,
                     shells, pid, ctx, was>>
      /\ conn' \in {"up", "lost"}
  BY DEF ConnLost, vars, sizes, files, env, context, Inv, TypeInv
<1>2. TypeInv' /\ ShellInv' /\ WholeInv'
  BY <1>1 DEF Inv, TypeInv, ShellInv, WholeInv
<1>3. ASSUME NEW u \in Puts \cup Gets PROVE TransferInv(u)'
  <2>1. TransferInv(u)
    BY DEF Inv
  <2> QED
    BY <1>1, <2>1, Zenon DEF TransferInv, TransferOK, PartOK
<1>4. ASSUME NEW u \in Asks PROVE AskInv(u)'
  <2>1. AskInv(u)
    BY DEF Inv
  <2> QED
    BY <1>1, <2>1, Zenon DEF AskInv
<1> QED
  BY <1>2, <1>3, <1>4 DEF Inv

-----------------------------------------------------------------------------
(***************************************************************************)
(* The invariant and what follows from it.                                 *)
(***************************************************************************)
LEMMA InitInv == Init => Inv
<1> SUFFICES ASSUME Init PROVE Inv
  OBVIOUS
<1>1. /\ Fresh \in Sides /\ Fresh.pc = "new" /\ Fresh.entry = 1 /\ Fresh.count = 0
      /\ Fresh.total = 0 /\ Fresh.size = 0
  BY DEF Fresh, Sides, SndPlaces
<1>2. /\ snd \in [Transfers -> Sides] /\ rcv \in [Transfers -> Sides]
      /\ fwd \in [Transfers -> Seq(Frames)] /\ bwd \in [Transfers -> Seq(Frames)]
      /\ part \in [Transfers -> Contents]
      /\ \A t \in Transfers : /\ snd[t] = Fresh /\ rcv[t] = Fresh /\ fwd[t] = <<>>
                              /\ bwd[t] = <<>> /\ part[t] = Absent
  BY <1>1 DEF Init, Contents
<1>3. TypeInv
  <2>1. PICK n \in Sizes : source = [t \in Transfers |-> [e \in Entries(t) |-> n]]
    BY DEF Init
  <2>2. \A t \in Transfers : source[t] \in [Entries(t) -> Sizes]
    BY <2>1
  <2>3. source \in [Transfers -> SizeMaps] /\ looked = source
    BY <2>1, <2>2 DEF Init, SizeMaps
  <2>4. file \in [Paths -> Contents]
    <3>1. Old \in Seq(Transfers \cup {Nobody, Torn})
      BY DEF Old
    <3>2. {Absent, Old} \subseteq Contents
      BY <3>1 DEF Contents
    <3> QED
      BY <3>2 DEF Init
  <2>5. \A t \in Transfers : Len(fwd[t]) <= Window /\ Len(bwd[t]) <= Window
    <3>1. Len(<<>>) = 0 /\ 0 <= Window
      BY TransfersAssumption
    <3> QED
      BY <1>2, <3>1
  <2>6. active \in Together /\ changed \subseteq active /\ conn \in {"up", "lost"}
    BY DEF Init
  <2>7. \A t \in Asks : part[t] = Absent
    BY <1>2 DEF Transfers
  <2> QED
    BY <1>2, <2>2, <2>3, <2>4, <2>5, <2>6, <2>7 DEF TypeInv
<1>4. ShellInv
  BY DEF Init, ShellInv
<1>5. WholeInv
  BY DEF Init, WholeInv, InPlace
<1>6. ASSUME NEW t \in Puts \cup Gets PROVE TransferInv(t)
  <2>1. t \in Transfers /\ looked[t] \in [Entries(t) -> Sizes]
    BY <1>3 DEF Transfers, TypeInv
  <2>2. /\ 1 \in 1 .. Len(Dest[t]) + 1 /\ 0 <= MaxSize * Len(Dest[t]) /\ 0 <= MaxSize * (1 - 1)
        /\ 0 <= MaxSize
    <3>1. Len(Dest[t]) \in Nat /\ Len(Dest[t]) >= 1 /\ MaxSize \in Nat
      BY <2>1, DestFacts, SizeFacts
    <3>2. MaxSize * Len(Dest[t]) \in Nat /\ MaxSize * 0 = 0
      BY <3>1, Products
    <3> QED
      BY <3>1, <3>2
  <2>3. SndOK(t, Fresh)
    BY <1>1, <2>2 DEF SndOK, SndPlaces
  <2>4. RcvOK(t, Fresh, looked[t])
    BY <1>1, <2>2 DEF RcvOK, RcvPlaces, Handling
  <2>5. PartOK(t, Fresh, Absent)
    BY <1>1 DEF PartOK
  <2>6. LookOK(t, Fresh, Fresh, <<>>)
    BY <1>1 DEF LookOK, Handling
  <2>7. Path(t, Fresh, Fresh, <<>>, looked[t])
    <3> DEFINE a == [ph |-> "start", e |-> 0, c |-> 0]
               p == [i \in 0 .. 0 |-> a]
    <3>1. a \in Places /\ a.ph = "start" /\ Len(<<>>) = 0
      BY DEF Places
    <3> HIDE DEF a
    <3>2. p \in [0 .. 0 -> Places] /\ p[0] = a
      BY <3>1
    <3> HIDE DEF p
    <3>3. RcvAt(t, Fresh, p[0]) /\ SndAt(t, Fresh, p[0])
      BY <1>1, <3>1, <3>2 DEF RcvAt, SndAt
    <3>4. \A i \in 1 .. 0 : Leads(t, looked[t], p[i - 1], <<>>[i], p[i])
      OBVIOUS
    <3> QED
      BY <3>1, <3>2, <3>3, <3>4 DEF Path
  <2>8. SavedOK(t, Fresh, Fresh, <<>>, file)
    <3>1. \A e \in Entries(t) : ~(e < 1)
      BY <2>1, DestFacts DEF Entries
    <3>2. ~\E i \in 1 .. Len(<<>>) : <<>>[i].kind = "complete"
      OBVIOUS
    <3> QED
      BY <1>1, <3>1, <3>2 DEF SavedOK
  <2>9. /\ snd[t] = Fresh /\ rcv[t] = Fresh /\ fwd[t] = <<>> /\ bwd[t] = <<>> /\ part[t] = Absent
    BY <1>2, <2>1
  <2> QED
    BY <2>3, <2>4, <2>5, <2>6, <2>7, <2>8, <2>9 DEF TransferInv, TransferOK
<1>7. ASSUME NEW t \in Asks PROVE AskInv(t)
  <2>1. /\ snd[t] = Fresh /\ rcv[t] = Fresh /\ fwd[t] = <<>> /\ bwd[t] = <<>>
    BY <1>2 DEF Transfers
  <2>2. AskOK(t, Fresh, Fresh, <<>>, <<>>, ctx[t], was[t], shells)
    <3>1. 0 \in Dirs /\ "new" \notin AskPlaces
      BY DEF Dirs, Home, AskPlaces, AskKinds
    <3> QED
      BY <1>1, <3>1 DEF AskOK
  <2> QED
    BY <2>1, <2>2 DEF AskInv
<1> QED
  BY <1>3, <1>4, <1>5, <1>6, <1>7 DEF Inv

\* Every step keeps the invariant.
LEMMA NextInv == Inv /\ [Next]_vars => Inv'
<1> SUFFICES ASSUME Inv, [Next]_vars PROVE Inv'
  OBVIOUS
<1>1. CASE ConnLost \/ UNCHANGED vars
  BY <1>1, LostStep
<1>2. CASE SetShellPid \/ ClearShellPid \/ \E i \in Pids : Cd(i) \/ ShellExits(i)
  BY <1>2, ShellStep
<1>3. ASSUME NEW t \in Transfers, SourceChanges(t) PROVE Inv'
  BY <1>3, SourceStep
<1>4. ASSUME NEW t \in Transfers,
             PutFile(t) \/ PutDir(t) \/ GetRequest(t) \/ Sender(t) \/ Receiver(t)
      PROVE  Inv'
  <2>1. CASE t \in Puts \cup Gets
    BY <1>4, <2>1, SenderStep, ReceiverStep
  <2>2. CASE t \in Asks
    <3>1. /\ snd[t].pc \in {"new"} \cup AskPlaces \cup Ended
          /\ rcv[t].pc \in {"new", "request"} \cup Ended /\ t \notin Puts \cup Gets
      BY <2>2, AskKnown, TransfersAssumption DEF AskOK
    <3>2. /\ snd[t].pc \notin {"request", "header", "sending", "confirm"}
          /\ rcv[t].pc \notin {"check", "open", "receive", "cleanup", "commit", "top", "reply"}
      BY <3>1 DEF AskPlaces, AskKinds, Ended
    <3>3. ~PutFile(t) /\ ~PutDir(t) /\ ~GetRequest(t)
      BY <3>1 DEF PutFile, PutDir, GetRequest
    <3>4. ~Sender(t)
      BY <3>1, <3>2 DEF Sender, PutFileReady, PutDirReady, GetFile, GetDir, NewEntry, SendChunk,
         EntryComplete, PutComplete, GetFileComplete, GetDirComplete, SourceFails, SendFails,
         PutConfirmed, SndRefused
    <3>5. ~Receiver(t)
      BY <3>1, <3>2 DEF Receiver, HandlePut, HandlePutDir, GetReady, RcvRefused, Prepare, OpenPart,
         OpenFails, ReceiveChunk, ReceiveExcess, ReceiveFails, EndOfFile, Cleanup, Save,
         SaveRefused, SaveFails, NextFile, LastFile, NextFileFails, Reply
    <3> QED
      BY <1>4, <3>3, <3>4, <3>5
  <2> QED
    BY <2>1, <2>2 DEF Transfers
<1>5. ASSUME NEW t \in Transfers, Ask(t) \/ Answers(t) \/ Answered(t) \/ Cancel(t) PROVE Inv'
  <2>1. CASE t \in Asks
    BY <1>5, <2>1, ClientKeeps, AnswersKeep, FromStateKeeps
  <2>2. CASE t \in Puts \cup Gets
    <3>1. snd[t].pc \in SndPlaces /\ t \notin Asks
      BY <2>2, SenderKnown, TransfersAssumption DEF SndOK
    <3>2. snd[t].pc \notin AskPlaces
      BY <3>1 DEF SndPlaces, AskPlaces, AskKinds, Ended
    <3>3. ~Answers(t)
      BY <3>1, <3>2 DEF Answers, FromState, ReadAsk, Resolve, PathExists, IsDir, Find, AskFails,
         Answer, AskUnread, AskPlaces
    <3> QED
      BY <1>5, <2>2, <3>1, <3>3, GivingUpKeeps, RcvGivingUpKeeps DEF Ask, Answered
  <2> QED
    BY <2>1, <2>2 DEF Transfers
<1> QED
  BY <1>1, <1>2, <1>3, <1>4, <1>5 DEF Next

\* The invariant says that a file in place is whole,
LEMMA InvWhole == Inv => WholeFiles
<1> SUFFICES ASSUME Inv, NEW d \in Paths, file[d] \notin {Absent, Old}
             PROVE  \E t \in active : \/ Brought(t, d) \/ BroughtCut(t, d)
                                      \/ t \in Gets /\ (t \in Recursive \/ rcv[t].pc = "dropped")
  BY DEF WholeFiles
<1>1. PICK u \in active : Brings(u, snd[u], looked[u], file[d], d) \/ Excused(u, rcv[u])
  BY Zenon DEF Inv, WholeInv, InPlace
<1>2. CASE Excused(u, rcv[u])
  BY <1>2 DEF Excused
<1>3. CASE Brings(u, snd[u], looked[u], file[d], d)
  <2>1. PICK e \in Entries(u) :
          /\ Dest[u][e] = d
          /\ \/ file[d] = Copies(u, looked[u][e])
             \/ u \in Puts /\ file[d] = Cut(u, looked[u][e])
    BY <1>3, Zenon DEF Brings
  <2>2. file[d] = Copies(u, looked[u][e]) => Brought(u, d)
    BY <2>1, Zenon DEF Copies, Brought
  <2>3. u \in Puts /\ file[d] = Cut(u, looked[u][e]) => BroughtCut(u, d)
    BY <2>1, Zenon DEF Cut, BroughtCut
  <2> QED
    BY <2>1, <2>2, <2>3
<1> QED
  BY <1>1, <1>2, <1>3

\* that every variable has its type,
LEMMA InvTypeOK == Inv => TypeOK
<1> SUFFICES ASSUME Inv PROVE TypeOK
  OBVIOUS
<1>1. ASSUME NEW t \in Transfers
      PROVE  /\ snd[t].pc \in {"new", "request", "header", "sending", "confirm"} \cup Ended
                              \cup AskKinds
                              \cup {"dispatched", "path_exists", "is_dir", "find", "answer"}
             /\ rcv[t].pc \in {"new", "request", "check", "open", "receive", "cleanup",
                               "commit", "top", "reply"} \cup Ended
             /\ SideOK(snd[t], t) /\ SideOK(rcv[t], t)
  <2>1. snd[t] \in Sides /\ rcv[t] \in Sides
    BY DEF Inv, TypeInv
  <2>2. /\ snd[t].count \in Nat /\ snd[t].total \in Nat /\ rcv[t].count \in Nat
        /\ rcv[t].total \in Nat /\ MaxSize \in Nat
    BY <2>1, SizeFacts DEF Sides
  <2>3. Len(Dest[t]) \in Nat /\ Len(Dest[t]) >= 1 /\ MaxSize * Len(Dest[t]) \in Nat
    BY DestFacts, Products
  <2>4. CASE t \in Puts \cup Gets
    <3>1. SndOK(t, snd[t]) /\ RcvOK(t, rcv[t], looked[t]) /\ t \notin Asks
      BY <2>4, SenderKnown, ReceiverKnown, TransfersAssumption
    <3>2. rcv[t].total <= MaxSize * Len(Dest[t])
      <4>1. rcv[t].entry \in 1 .. Len(Dest[t]) + 1 /\ rcv[t].total <= MaxSize * (rcv[t].entry - 1)
        BY <3>1 DEF RcvOK
      <4>2. rcv[t].entry - 1 \in Nat /\ rcv[t].entry - 1 <= Len(Dest[t])
        BY <2>3, <4>1
      <4> DEFINE m == MaxSize * (rcv[t].entry - 1)
                 k == MaxSize * Len(Dest[t])
      <4>3. m \in Nat /\ k \in Nat /\ m <= k
        BY <2>3, <4>2, Products
      <4>4. rcv[t].total <= m
        BY <4>1
      <4> HIDE DEF m, k
      <4>5. rcv[t].total <= k
        BY <2>2, <4>3, <4>4
      <4> QED
        BY <4>5 DEF k
    <3>3. /\ snd[t].entry \in 1 .. Len(Dest[t]) + 1 /\ snd[t].count <= MaxSize
          /\ snd[t].total <= MaxSize * Len(Dest[t]) /\ snd[t].size = 0 /\ snd[t].pc \in SndPlaces
      BY <3>1 DEF SndOK
    <3>4. /\ rcv[t].entry \in 1 .. Len(Dest[t]) + 1 /\ rcv[t].count <= MaxSize
          /\ rcv[t].size \in Sizes \cup {0} /\ rcv[t].pc \in RcvPlaces
      BY <3>1 DEF RcvOK
    <3> DEFINE k == MaxSize * Len(Dest[t])
    <3>5. k \in Nat /\ snd[t].total <= k /\ rcv[t].total <= k
      BY <2>3, <3>2, <3>3
    <3> HIDE DEF k
    <3>6. /\ snd[t].count \in 0 .. MaxSize /\ snd[t].total \in 0 .. k
          /\ rcv[t].count \in 0 .. MaxSize /\ rcv[t].total \in 0 .. k
      BY <2>2, <3>3, <3>4, <3>5
    <3>7. SideOK(snd[t], t) /\ SideOK(rcv[t], t)
      BY <3>1, <3>3, <3>4, <3>6 DEF SideOK, k
    <3> QED
      BY <3>3, <3>4, <3>7 DEF SndPlaces, RcvPlaces
  <2>5. CASE t \in Asks
    <3>1. AskOK(t, snd[t], rcv[t], fwd[t], bwd[t], ctx[t], was[t], shells)
      BY <2>5, AskKnown
    <3>2. Blank(snd[t]) /\ Blank(rcv[t])
      BY <3>1 DEF AskOK, Blank
    <3> DEFINE k == MaxSize * Len(Dest[t])
    <3>3. k \in Nat
      BY <2>3
    <3> HIDE DEF k
    <3>4. 1 \in 1 .. Len(Dest[t]) + 1 /\ 0 \in 0 .. MaxSize /\ 0 \in 0 .. k
      BY <2>2, <2>3, <3>3
    <3>5. SideOK(snd[t], t) /\ SideOK(rcv[t], t)
      BY <2>5, <3>2, <3>4 DEF SideOK, Blank, k
    <3> QED
      BY <3>1, <3>5 DEF AskOK, AskPlaces
  <2> QED
    BY <2>4, <2>5 DEF Transfers
<1>2. ASSUME NEW t \in Transfers
      PROVE  /\ \A q \in {fwd[t], bwd[t]} : q \in Seq(Frames) /\ Len(q) <= Window
             /\ part[t] \in Contents
             /\ source[t] \in [Entries(t) -> Sizes] /\ looked[t] \in [Entries(t) -> Sizes]
  BY DEF Inv, TypeInv
<1>3. /\ active \in Together /\ changed \subseteq active /\ conn \in {"up", "lost"}
      /\ \A d \in Paths : file[d] \in Contents
  BY DEF Inv, TypeInv
<1>4. /\ shells \in [Pids -> Dirs \cup {Unborn, Gone}] /\ pid \in Pids \cup {NoShell}
      /\ ctx \in [Asks -> Pids \cup {NoShell}] /\ was \in [Asks -> SUBSET Dirs]
  BY DEF Inv, ShellInv
<1> QED
  BY <1>1, <1>2, <1>3, <1>4 DEF TypeOK

\* and that transfers are sound.
LEMMA InvSound == Inv => TransfersSound
<1> SUFFICES ASSUME Inv PROVE TransfersSound
  OBVIOUS
<1>1. PartsCleaned
  <2> SUFFICES ASSUME NEW u \in Transfers, part[u] # Absent
               PROVE  u \in active /\ rcv[u].pc \in {"receive", "cleanup", "commit", "dropped"}
    BY DEF PartsCleaned, PartOf
  <2>1. u \in Puts \cup Gets
    BY DEF Inv, TypeInv, Transfers
  <2> QED
    BY <2>1, ReceiverKnown DEF PartOK
<1>2. OkMeansSaved
  <2> SUFFICES ASSUME NEW t \in active \ Asks, ClientOk(t), NEW e \in Entries(t)
               PROVE  file[Dest[t][e]] \notin {Absent, Old}
    BY DEF OkMeansSaved
  <2>1. t \in Puts \cup Gets
    BY TransfersAssumption DEF Inv, TypeInv, Transfers
  <2>2. SavedOK(t, snd[t], rcv[t], bwd[t], file)
    BY <2>1, ReceiverKnown
  <2>3. AllIn(t, file)
    BY <2>2 DEF SavedOK, ClientOk
  <2> QED
    BY <2>3 DEF AllIn, InPlace
<1>3. AnswersTrue
  BY AskKnown DEF AnswersTrue, AskOK
<1> QED
  BY <1>1, <1>2, <1>3, InvTypeOK DEF TransfersSound

\* Only the receiver that saves a file touches a destination.
LEMMA FilesKept ==
  ASSUME Next, ~\E t \in active : Save(t) \/ SaveFails(t)
  PROVE  UNCHANGED file
<1>1. CASE ConnLost \/ SetShellPid \/ ClearShellPid \/ \E i \in Pids : Cd(i) \/ ShellExits(i)
  BY <1>1 DEF ConnLost, SetShellPid, ClearShellPid, Cd, ShellExits, files
<1>2. ASSUME NEW t \in Transfers,
             \/ PutFile(t) \/ PutDir(t) \/ GetRequest(t) \/ Ask(t)
             \/ Answered(t) \/ SourceChanges(t) \/ Cancel(t)
      PROVE  UNCHANGED file
  BY <1>2 DEF PutFile, PutDir, GetRequest, Ask, Answered, SourceChanges, Cancel, files
<1>3. ASSUME NEW t \in Transfers, Sender(t) PROVE UNCHANGED file
  BY <1>3 DEF Sender, PutFileReady, PutDirReady, GetFile, GetDir, NewEntry, SendChunk,
     EntryComplete, PutComplete, GetFileComplete, GetDirComplete, SourceFails, SendFails,
     PutConfirmed, SndRefused, files
<1>4. ASSUME NEW t \in Transfers, Receiver(t) PROVE UNCHANGED file
  BY <1>4 DEF Receiver, HandlePut, HandlePutDir, GetReady, RcvRefused, Prepare, OpenPart,
     OpenFails, ReceiveChunk, ReceiveExcess, ReceiveFails, EndOfFile, Cleanup,
     SaveRefused, NextFile, LastFile, NextFileFails, Reply, files
<1>5. ASSUME NEW t \in Transfers, Answers(t) PROVE UNCHANGED file
  BY <1>5 DEF Answers, FromState, ReadAsk, Resolve, PathExists, IsDir, Find, AskFails,
     Answer, AskUnread, files
<1> QED
  BY <1>1, <1>2, <1>3, <1>4, <1>5 DEF Next

\* No upload is under way when a step replaces a file that was there before.
LEMMA StepKeepsOld ==
  ASSUME Inv, Next, NEW d \in Paths, file[d] = Old, file'[d] # Old
  PROVE  active \cap Puts = {}
<1>1. PICK t \in active : Save(t) \/ SaveFails(t)
  <2>1. ~UNCHANGED file
    OBVIOUS
  <2> QED
    BY <2>1, FilesKept, Zenon
<1>2. t \in Transfers /\ active \in Together
  BY TransfersAssumption DEF Inv, TypeInv
<1>3. t \notin Asks
  <2> SUFFICES ASSUME t \in Asks PROVE FALSE
    OBVIOUS
  <2>1. rcv[t].pc \in {"new", "request"} \cup Ended
    BY AskKnown DEF AskOK
  <2> QED
    BY <1>1, <2>1 DEF Save, SaveFails, Ended
<1>4. CASE t \in Gets
  BY <1>2, <1>4, TransfersAssumption
<1>5. CASE t \in Puts
  <2>1. SavedOK(t, snd[t], rcv[t], bwd[t], file) /\ t \notin Gets /\ rcv[t].pc = "commit"
    BY <1>1, <1>5, ReceiverKnown, TransfersAssumption DEF Save, SaveFails
  <2>2. file[Dest[t][rcv[t].entry]] # Old
    BY <1>5, <2>1 DEF SavedOK
  <2>3. file' = file \/ file' = [file EXCEPT ![Dest[t][rcv[t].entry]] = part[t]]
    BY <1>1, <2>1 DEF Save, SaveFails, DestOf, PartOf
  <2>4. file \in [Paths -> Contents]
    BY DEF Inv, TypeInv
  <2> QED
    BY <2>2, <2>3, <2>4
<1> QED
  BY <1>2, <1>3, <1>4, <1>5 DEF Transfers

\* Whatever fails, is lost, cancelled or changed under way, a destination holds
\* what it held or the file of one transfer as its sender saw it, whole or, after
\* an upload whose last write failed, without its last chunk.
THEOREM FilesStayWhole == Spec => []WholeFiles
<1>1. Spec => []Inv
  BY InitInv, NextInv, PTL DEF Spec
<1> QED
  BY <1>1, InvWhole, PTL

\* Part files are cleaned up, a client that reports success has all its files
\* in place, and an answer is about a place the shell was in.
THEOREM TransfersStaySound == Spec => []TransfersSound
<1>1. Spec => []Inv
  BY InitInv, NextInv, PTL DEF Spec
<1> QED
  BY <1>1, InvSound, PTL

\* While a put is made, a file that was there before stays as it was.
THEOREM OldFilesStay == Spec => PutsKeepOld
<1>1. Spec => []Inv
  BY InitInv, NextInv, PTL DEF Spec
<1>2. Inv /\ [Next]_vars =>
        [\A d \in Paths : file[d] = Old /\ file'[d] # Old => active \cap Puts = {}]_vars
  BY StepKeepsOld
<1> QED
  BY <1>1, <1>2, PTL DEF Spec, PutsKeepOld

=============================================================================
