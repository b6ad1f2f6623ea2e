-------------------------- MODULE ConnectionProofs --------------------------
(***************************************************************************)
(* What holds of one connection, for every number of side streams and      *)
(* transfers, all jobs and all sizes: the authentication gate              *)
(* (SideStreams!GateHolds), the memory budget and what an honest client is *)
(* told (Blobs!BudgetHolds, Blobs!HonestServed), and that nothing moves    *)
(* behind a gate that is shut (Connection!Untouched).                      *)
(***************************************************************************)
EXTENDS Connection, FiniteSetTheorems, FunctionTheorems, SequenceTheorems, TLAPS

-----------------------------------------------------------------------------
(***************************************************************************)
(* The gate.                                                               *)
(***************************************************************************)
\* The inductive invariant: SideTypeOK is needed to know where an update of a
\* stream's state lands, and that a handler that lives is not one that ended.
GateInv == SideTypeOK /\ GateHolds

\* A new connection has no side streams (protocol.rs:101-120).
LEMMA InitGateInv == SideInit => GateInv
  BY DEF SideInit, GateInv, SideTypeOK, GateHolds

\* Every step of the session, the listener and the streams keeps the
\* invariant: a stream passes the gate when it is open or its owner is gone
\* (side_streams.rs:66-76), and the gate never closes again.
LEMMA NextGateInv == GateInv /\ [SideNext]_sideVars => GateInv'
<1> SUFFICES ASSUME GateInv, [SideNext]_sideVars
             PROVE  GateInv'
  OBVIOUS
<1> USE SideStreamsAssumption DEF GateInv, SideTypeOK, GateHolds
<1>1. CASE ConnCloses
  BY <1>1 DEF ConnCloses
<1>2. CASE AuthSucceeds
  BY <1>2 DEF AuthSucceeds
<1>3. CASE SessionEnds
  BY <1>3 DEF SessionEnds
<1>4. CASE ListenerEnds
  BY <1>4 DEF ListenerEnds
<1>5. ASSUME NEW s \in Sides, PeerOpens(s)
      PROVE  GateInv'
  BY <1>5 DEF PeerOpens
<1>6. ASSUME NEW s \in Sides, Accept(s)
      PROVE  GateInv'
  BY <1>6 DEF Accept
<1>7. ASSUME NEW s \in Sides, NEW k \in Kinds, ReadMagic(s, k)
      PROVE  GateInv'
  <2>1. CASE gate
    BY <1>7, <2>1 DEF ReadMagic, MayPass, Dispatch
  <2>2. CASE ~gate
    BY <1>7, <2>2 DEF ReadMagic, MayPass
  <2> QED
    BY <2>1, <2>2
<1>8. ASSUME NEW s \in Sides, MagicFails(s)
      PROVE  GateInv'
  BY <1>8 DEF MagicFails
<1>9. ASSUME NEW s \in Sides, PassGate(s)
      PROVE  GateInv'
  BY <1>9 DEF PassGate, Wakes, Dispatch
<1>10. ASSUME NEW s \in Sides, GateFails(s)
       PROVE  GateInv'
  BY <1>10 DEF GateFails
<1>11. ASSUME NEW s \in Sides, Served(s)
       PROVE  GateInv'
  BY <1>11 DEF Served
<1>12. CASE UNCHANGED sideVars
  BY <1>12 DEF sideVars
<1> QED
  BY <1>1, <1>2, <1>3, <1>4, <1>5, <1>6, <1>7, <1>8, <1>9, <1>10, <1>11, <1>12
  DEF SideNext, Around, Arrives

\* No side stream is served ahead of authentication while the session's
\* handler lives (side_streams.rs:66-76, handler/mod.rs:90-103).
THEOREM GateHeld == SideSpec => []GateHolds
<1>1. GateInv => GateHolds
  BY DEF GateInv
<1> QED
  BY <1>1, InitGateInv, NextGateInv, PTL DEF SideSpec

-----------------------------------------------------------------------------
(***************************************************************************)
(* Sums.  A sum is the size of a disjoint union, so that what happens to   *)
(* it when one of its terms changes follows from the sizes of unions.      *)
(***************************************************************************)
Column(f, x) == {x} \X (1 .. f[x])
Cells(f, S) == UNION {Column(f, x) : x \in S}

\* f has a number for every element of the finite set S
Summable(f, S) == IsFiniteSet(S) /\ \A x \in S : f[x] \in Nat

\* A column has as many cells as it is high.
LEMMA ColumnSize ==
  ASSUME NEW f, NEW x, f[x] \in Nat
  PROVE  IsFiniteSet(Column(f, x)) /\ Cardinality(Column(f, x)) = f[x]
<1>1. IsFiniteSet({x}) /\ Cardinality({x}) = 1
  BY FS_Singleton
<1>2. IsFiniteSet(1 .. f[x]) /\ Cardinality(1 .. f[x]) = f[x]
  BY FS_Interval
<1> DEFINE T == 1 .. f[x]
           one == {x}
<1>3. Column(f, x) = one \X T
  BY DEF Column
<1> HIDE DEF T, one
<1>4. IsFiniteSet(one) /\ Cardinality(one) = 1 /\ IsFiniteSet(T) /\ Cardinality(T) = f[x]
  BY <1>1, <1>2 DEF T, one
<1>5. IsFiniteSet(one \X T) /\ Cardinality(one \X T) = Cardinality(one) * Cardinality(T)
  BY <1>4, FS_Product
<1> QED
  BY <1>3, <1>4, <1>5

\* There are finitely many cells.
LEMMA CellsFinite ==
  ASSUME NEW f, NEW S, Summable(f, S)
  PROVE  IsFiniteSet(Cells(f, S)) /\ SumOver(f, S) = Cardinality(Cells(f, S)) /\ SumOver(f, S) \in Nat
<1> DEFINE g == [x \in S |-> Column(f, x)]
           T == {Column(f, x) : x \in S}
<1>1. g \in Surjection(S, T)
  BY DEF Surjection
<1>2. IsFiniteSet(T)
  BY <1>1, FS_Surjection DEF Summable
<1>3. \A C \in T : IsFiniteSet(C)
  BY ColumnSize DEF Summable
<1>4. IsFiniteSet(UNION T)
  BY <1>2, <1>3, FS_UNION
<1>5. SumOver(f, S) = Cardinality(Cells(f, S))
  BY DEF SumOver, Cells, Column
<1> QED
  BY <1>4, <1>5, FS_CardinalityType DEF Cells

\* One term more.
LEMMA SumAdd ==
  ASSUME NEW f, NEW S, Summable(f, S), NEW x, x \notin S, f[x] \in Nat
  PROVE  SumOver(f, S \cup {x}) = SumOver(f, S) + f[x] /\ Summable(f, S \cup {x})
<1>1. Summable(f, S \cup {x})
  BY FS_AddElement DEF Summable
<1>2. Cells(f, S \cup {x}) = Cells(f, S) \cup Column(f, x)
  BY DEF Cells
<1>3. Cells(f, S) \cap Column(f, x) = {}
  BY DEF Cells, Column
<1>4. IsFiniteSet(Column(f, x)) /\ Cardinality(Column(f, x)) = f[x]
  BY ColumnSize
<1>5. IsFiniteSet(Cells(f, S)) /\ SumOver(f, S) = Cardinality(Cells(f, S)) /\ SumOver(f, S) \in Nat
  BY CellsFinite
<1>6. Cardinality(Cells(f, S) \cup Column(f, x)) =
        Cardinality(Cells(f, S)) + Cardinality(Column(f, x)) - Cardinality({})
  BY <1>3, <1>4, <1>5, FS_Union
<1>7. SumOver(f, S \cup {x}) = Cardinality(Cells(f, S \cup {x}))
  BY <1>1, CellsFinite
<1>8. Cardinality({}) = 0
  BY FS_EmptySet
<1>9. SumOver(f, S \cup {x}) = SumOver(f, S) + f[x]
  <2> DEFINE a == Cardinality(Cells(f, S))
             b == Cardinality(Column(f, x))
  <2>1. SumOver(f, S \cup {x}) = a + b - 0 /\ a \in Nat /\ b \in Nat /\ a = SumOver(f, S) /\ b = f[x]
    BY <1>2, <1>4, <1>5, <1>6, <1>7, <1>8
  <2> HIDE DEF a, b
  <2> QED
    BY <2>1
<1> QED
  BY <1>1, <1>9

\* No terms.
LEMMA SumEmpty ==
  ASSUME NEW f
  PROVE  SumOver(f, {}) = 0 /\ Summable(f, {})
<1>1. Summable(f, {}) /\ Cells(f, {}) = {}
  BY FS_EmptySet DEF Summable, Cells
<1> QED
  BY <1>1, CellsFinite, FS_EmptySet

\* A sum of more terms, or of greater ones, is not less.
LEMMA SumMono ==
  ASSUME NEW f, NEW S, Summable(f, S), NEW g, NEW T, Summable(g, T), S \subseteq T,
         \A x \in S : f[x] <= g[x]
  PROVE  SumOver(f, S) <= SumOver(g, T)
<1>1. ASSUME NEW c \in Cells(f, S) PROVE c \in Cells(g, T)
  <2>1. PICK x \in S : c \in Column(f, x)
    BY DEF Cells
  <2>2. f[x] \in Nat /\ g[x] \in Nat /\ f[x] <= g[x]
    BY DEF Summable
  <2>3. c \in Column(g, x)
    BY <2>1, <2>2 DEF Column
  <2> QED
    BY <2>3 DEF Cells
<1>2. Cells(f, S) \in SUBSET Cells(g, T)
  BY <1>1
<1>3. Cardinality(Cells(f, S)) <= Cardinality(Cells(g, T))
  BY <1>2, CellsFinite, FS_Subset
<1> QED
  BY <1>3, CellsFinite

\* Terms of two sums added one by one.
LEMMA SumPlus ==
  ASSUME NEW S, NEW f, Summable(f, S), NEW g, Summable(g, S), NEW h, Summable(h, S),
         \A x \in S : h[x] = f[x] + g[x]
  PROVE  SumOver(h, S) <= SumOver(f, S) + SumOver(g, S)
<1> DEFINE B == {c \in Cells(h, S) : c[2] > f[c[1]]}
           shift == [c \in B |-> <<c[1], c[2] - f[c[1]]>>]
<1>1. ASSUME NEW c \in Cells(h, S)
      PROVE  /\ c = <<c[1], c[2]>> /\ c[1] \in S /\ c[2] \in Nat /\ 1 <= c[2]
             /\ c[2] <= f[c[1]] + g[c[1]] /\ f[c[1]] \in Nat /\ g[c[1]] \in Nat
  <2>1. PICK x \in S : c \in Column(h, x)
    BY DEF Cells
  <2>2. f[x] \in Nat /\ g[x] \in Nat /\ h[x] = f[x] + g[x]
    BY DEF Summable
  <2> QED
    BY <2>1, <2>2 DEF Column
<1>2. ASSUME NEW c \in Cells(h, S), c \notin B PROVE c \in Cells(f, S)
  <2>1. c[2] \in 1 .. f[c[1]] /\ c = <<c[1], c[2]>> /\ c[1] \in S
    BY <1>1, <1>2
  <2>2. c \in Column(f, c[1])
    BY <2>1 DEF Column
  <2> QED
    BY <2>1, <2>2 DEF Cells
<1>3. ASSUME NEW c \in B PROVE shift[c] \in Cells(g, S)
  <2>1. c[1] \in S /\ c[2] - f[c[1]] \in 1 .. g[c[1]]
    BY <1>1
  <2>2. shift[c] \in Column(g, c[1])
    BY <2>1 DEF Column
  <2> QED
    BY <2>1, <2>2 DEF Cells
<1>4. ASSUME NEW c \in B, NEW d \in B, shift[c] = shift[d] PROVE c = d
  <2>1. c[1] = d[1] /\ c[2] - f[c[1]] = d[2] - f[d[1]]
    BY <1>4
  <2>2. /\ c = <<c[1], c[2]>> /\ d = <<d[1], d[2]>>
        /\ c[2] \in Nat /\ d[2] \in Nat /\ f[c[1]] \in Nat
    BY <1>1
  <2>3. c[2] = d[2]
    BY <2>1, <2>2
  <2> QED
    BY <2>1, <2>2, <2>3
<1>5. shift \in Injection(B, Cells(g, S))
  <2> DEFINE C == Cells(g, S)
  <2>1. shift = [c \in B |-> shift[c]] /\ \A c \in B : shift[c] \in C
    BY <1>3
  <2>2. \A c, d \in B : shift[c] = shift[d] => c = d
    BY <1>4
  <2> HIDE DEF B, shift, C
  <2>3. shift \in [B -> C]
    BY <2>1
  <2> QED
    BY <2>2, <2>3 DEF Injection, IsInjective, C
<1>6. /\ IsFiniteSet(Cells(f, S)) /\ SumOver(f, S) = Cardinality(Cells(f, S)) /\ SumOver(f, S) \in Nat
      /\ IsFiniteSet(Cells(g, S)) /\ SumOver(g, S) = Cardinality(Cells(g, S)) /\ SumOver(g, S) \in Nat
      /\ IsFiniteSet(Cells(h, S)) /\ SumOver(h, S) = Cardinality(Cells(h, S)) /\ SumOver(h, S) \in Nat
  BY CellsFinite
<1>7. IsFiniteSet(B) /\ Cardinality(B) <= Cardinality(Cells(g, S)) /\ Cardinality(B) \in Nat
  BY <1>5, <1>6, FS_Injection, FS_CardinalityType
<1>8. Cells(h, S) \in SUBSET (Cells(f, S) \cup B)
  BY <1>2
<1> HIDE DEF B
<1>9. /\ IsFiniteSet(Cells(f, S) \cup B)
      /\ Cardinality(Cells(f, S) \cup B) =
           Cardinality(Cells(f, S)) + Cardinality(B) - Cardinality(Cells(f, S) \cap B)
      /\ Cardinality(Cells(f, S) \cap B) \in Nat
  <2>1. IsFiniteSet(Cells(f, S) \cap B)
    BY <1>7, FS_Intersection
  <2> QED
    BY <1>6, <1>7, <2>1, FS_Union, FS_CardinalityType
<1>10. Cardinality(Cells(h, S)) <= Cardinality(Cells(f, S) \cup B)
  BY <1>8, <1>9, FS_Subset
<1> QED
  BY <1>6, <1>7, <1>9, <1>10

\* Another term at s.
LEMMA SumChange ==
  ASSUME NEW S, NEW f, Summable(f, S), NEW g, Summable(g, S), NEW s \in S,
         \A x \in S \ {s} : f[x] = g[x]
  PROVE  /\ SumOver(f, S) \in Nat /\ SumOver(g, S) \in Nat /\ f[s] \in Nat /\ g[s] \in Nat
         /\ SumOver(g, S) = SumOver(f, S) - f[s] + g[s] /\ f[s] <= SumOver(f, S)
<1> DEFINE R == S \ {s}
<1>1. Summable(f, R) /\ Summable(g, R)
  BY FS_RemoveElement DEF Summable
<1>2. SumOver(f, R) <= SumOver(g, R) /\ SumOver(g, R) <= SumOver(f, R)
  <2>1. \A x \in R : f[x] <= g[x] /\ g[x] <= f[x]
    BY DEF Summable
  <2> QED
    BY <1>1, <2>1, SumMono
<1>3. s \notin R /\ R \cup {s} = S /\ f[s] \in Nat /\ g[s] \in Nat
  BY DEF Summable
<1>4. SumOver(f, R) \in Nat /\ SumOver(g, R) \in Nat
  BY <1>1, CellsFinite
<1> HIDE DEF R
<1>5. SumOver(f, R \cup {s}) = SumOver(f, R) + f[s] /\ SumOver(g, R \cup {s}) = SumOver(g, R) + g[s]
  BY <1>1, <1>3, SumAdd
<1> QED
  BY <1>2, <1>3, <1>4, <1>5

-----------------------------------------------------------------------------
(***************************************************************************)
(* The budget in permits and in bytes.                                     *)
(***************************************************************************)
\* What is divided is the quotient and a rest.
LEMMA Division ==
  ASSUME NEW a \in Nat, NEW u \in Nat \ {0}
  PROVE  /\ a \div u \in Nat /\ a % u \in 0 .. u - 1
         /\ a = (a \div u) * u + (a % u)
OBVIOUS

\* A greater number of times is more.
LEMMA Multiples ==
  ASSUME NEW a \in Nat, NEW b \in Nat, NEW u \in Nat \ {0}
  PROVE  /\ a * u \in Nat /\ (a + b) * u = a * u + b * u /\ 0 * u = 0 /\ (a + 1) * u = a * u + u
         /\ (a <= b => a * u <= b * u) /\ (a < b => a * u + u <= b * u)
OBVIOUS

\* The permits stand for the whole budget in bytes.
LEMMA BudgetBytes == Budget \in Nat /\ Budget * Unit = Cap
<1>1. Cap \in Nat /\ Unit \in Nat \ {0} /\ Cap % Unit = 0
  BY BlobsAssumption
<1>2. Cap \div Unit \in Nat /\ Cap = (Cap \div Unit) * Unit + (Cap % Unit)
  BY <1>1, Division
<1> QED
  BY <1>1, <1>2, Multiples DEF Budget

\* blob_memory_permits rounds up: the share stands for what was asked for.
LEMMA PermitsCover ==
  ASSUME NEW n \in Nat, n <= Cap
  PROVE  Permits(n) \in Nat /\ Permits(n) <= Budget /\ n <= Permits(n) * Unit
<1> DEFINE q == (n + Unit - 1) \div Unit
           m == (n + Unit - 1) % Unit
<1>1. Cap \in Nat /\ Unit \in Nat \ {0}
  BY BlobsAssumption
<1>2. Permits(n) = q
  BY <1>1 DEF Permits
<1>3. q \in Nat /\ m \in 0 .. Unit - 1 /\ n + Unit - 1 = q * Unit + m
  BY <1>1, n + Unit - 1 \in Nat, Division
<1> HIDE DEF q, m
<1>4. Budget \in Nat /\ Budget * Unit = Cap
  BY BudgetBytes
<1>5. q * Unit \in Nat /\ Budget * Unit \in Nat
  BY <1>1, <1>3, <1>4, Multiples
<1>6. n <= q * Unit
  BY <1>1, <1>3, <1>5
<1>7. q <= Budget
  <2> SUFFICES ASSUME Budget < q PROVE FALSE
    BY <1>3, <1>4
  <2>1. Budget * Unit + Unit <= q * Unit
    BY <1>1, <1>3, <1>4, Multiples
  <2> DEFINE x == q * Unit
  <2> HIDE DEF x
  <2>2. Cap + Unit <= x /\ x \in Nat /\ n + Unit - 1 = x + m
    BY <1>3, <1>4, <1>5, <2>1 DEF x
  <2> QED
    BY <1>1, <1>3, <2>2
<1> QED
  BY <1>2, <1>3, <1>6, <1>7

-----------------------------------------------------------------------------
(***************************************************************************)
(* The inductive invariant.                                                *)
(***************************************************************************)
FrameSet == [kind : {"none", "chunk", "complete", "error", "other"},
             len : Nat, decl : Nat, good : BOOLEAN]
Places == {"new", "recv", "chunk", "export", "stat", "read", "keep", "add", "reply", "done"}
Answers == {"none", "nothing", "ok", "exists", "error", "mismatch"}
Handlers ==
  [pc : Places, op : {"none", "put", "get"}, job : Jobs \cup {NoJob}, path : Paths \cup {NoJob},
   blob : Nat, off : Nat, need : Nat, held : Nat, mem : Nat, left : Nat, begun : BOOLEAN,
   frame : FrameSet, count : Nat, received : Nat, good : BOOLEAN, fault : BOOLEAN,
   told : Answers]
Targets == [kind : {"none", "file", "dir"}, items : SUBSET (Jobs \X Nat)]

TypeInv ==
  /\ tx \in [Streams -> Handlers]
  /\ free \in Nat /\ queue \in Seq(Streams)
  /\ store \in SUBSET (Jobs \X Nat) /\ target \in [Paths -> Targets]
  /\ lost \in SUBSET Streams /\ grown \in 0 .. MaxGrowth

\* nobody waits twice
QueueInv == \A i, k \in 1 .. Len(queue) : queue[i] = queue[k] => i = k

Raw(r) == Format[r.job] = "raw"

\* where a handler is, and where in its job its client is
SentOK(r) ==
  /\ r.pc = "new" => r = Fresh
  /\ r.pc # "new" => r.op # "none" /\ r.job \in Jobs
  /\ r.told # "none" => r.pc = "done"
  /\ r.op = "put" => r.path \in Paths
  /\ r.pc \in {"recv", "chunk", "export"} => r.op = "put"
  /\ r.pc \in {"stat", "read", "keep", "add"} => r.op = "get"
  /\ r.pc \in {"stat", "export"} => r.blob \in Blobs(r.job)
  /\ r.pc \in {"read", "keep"} => r.blob \in 1 .. Len(Sizes[r.job]) - 1
  /\ r.pc = "recv" /\ Raw(r) => r.blob = 1 /\ r.off <= Sizes[r.job][1]
  /\ r.pc \in {"recv", "chunk"} /\ ~Raw(r) =>
       /\ r.blob \in 1 .. Len(Sizes[r.job]) + 1
       /\ IF r.blob = Len(Sizes[r.job]) + 1 THEN r.off = 0 ELSE r.off < Whole(r)
  /\ r.pc = "chunk" =>
       /\ ~Raw(r) /\ r.frame.len >= Prefix
       /\ r.frame.good => r.blob \in Blobs(r.job) /\ r.off + r.frame.len <= Whole(r)

In(s, q) == \E i \in 1 .. Len(q) : q[i] = s

\* what a handler has in memory is covered by the permits it has, or waits for
\* with nothing in memory and no others in its hands
Share(r) == (r.held + r.need) * Unit
HoldOK(r, w) ==
  /\ w => r.held = 0 /\ r.mem = 0 /\ r.pc \in {"recv", "chunk", "read"}
  /\ ~w => r.need = 0
  /\ r.need <= Budget
  /\ r.pc # "keep" => r.mem + r.left <= Share(r)
  /\ r.pc = "recv" /\ Raw(r) =>
       Sizes[r.job][1] <= Share(r) /\ r.mem = r.received /\ r.left = 0
  /\ r.pc = "read" => Sizes[r.job][r.blob] <= Share(r) /\ r.mem = 0
  /\ r.pc = "chunk" => r.mem = 0
  /\ r.pc \in {"read", "keep"} => r.left = 0
  /\ r.pc \in {"new", "stat", "done"} => r.held = 0 /\ r.mem = 0 /\ r.left = 0

\* the bytes a client has sent before blob b of j, and the blobs
Upto(j, b) == SumOver(Sizes[j], 1 .. b - 1) + (IF Format[j] = "raw" THEN 0 ELSE Prefix * (b - 1))
Before(j, b) == {<<j, i>> : i \in 1 .. b - 1}

\* a handler and a client that follows the protocol agree about where they are
HonestOK(s, r, st) ==
  s \notin Strangers /\ r.op = "put" =>
    /\ r.pc \in {"recv", "chunk"} =>
         /\ r.good /\ r.received = Upto(r.job, r.blob) + r.off
         /\ ~Raw(r) => Before(r.job, r.blob) \subseteq st /\ r.count = r.blob - 1
    /\ r.pc = "recv" /\ ~Raw(r) =>
         IF r.off = 0 THEN r.left = 0 /\ ~r.begun ELSE r.left = Whole(r) - r.off /\ r.begun
    /\ r.pc = "chunk" =>
         /\ r.off = 0 /\ r.blob \in Blobs(r.job) /\ r.begun
         /\ r.frame = Frame("chunk", Prefix, Sizes[r.job][r.blob], TRUE)
         /\ r.left = Sizes[r.job][r.blob]
    /\ r.pc \in {"export", "reply"} => r.received = Total(r.job) /\ Items(r.job) \subseteq st

\* what is at the destination t of an upload that has it for itself
PlaceOK(s, r, t) ==
  /\ r.pc \in {"recv", "chunk"} => t = Vacant
  /\ r.pc = "export" /\ Raw(r) => t = Vacant
  /\ r.pc = "export" /\ ~Raw(r) =>
       \/ t = Vacant /\ r.blob = 1
       \/ t.kind = "dir" /\ t.items = Before(r.job, r.blob)
  /\ r.pc = "reply" \/ r.told = "ok" => t.items = Items(r.job)
  /\ s \notin Strangers /\ r.told \in {"error", "mismatch"} => r.fault \/ Total(r.job) > Cap

\* bytes in memory that no permit stands for: a file that grew
Over(r) == IF r.mem > r.held * Unit THEN r.mem - r.held * Unit ELSE 0
Allowance(r) == r.held * Unit + Over(r)
Allowed == SumOver([s \in Streams |-> Allowance(tx[s])], Streams)

BudgetInv == free + Held = Budget /\ Allowed <= Held * Unit + grown

StreamInv(s) == SentOK(tx[s]) /\ HoldOK(tx[s], In(s, queue)) /\ HonestOK(s, tx[s], store)

Taken(p) == \E s \in Streams : tx[s].op = "put" /\ tx[s].path = p
PlaceInv ==
  /\ \A s \in Streams : tx[s].op = "put" /\ ~Contended(s) => PlaceOK(s, tx[s], target[tx[s].path])
  /\ \A p \in Paths : ~Taken(p) => target[p] = Vacant

Inv == TypeInv /\ QueueInv /\ BudgetInv /\ PlaceInv /\ \A s \in Streams : StreamInv(s)

-----------------------------------------------------------------------------
(***************************************************************************)
(* A step of one handler leaves the others as they are.                    *)
(***************************************************************************)
\* The numbers of a handler.
LEMMA Numbers ==
  ASSUME NEW r \in Handlers
  PROVE  /\ r.blob \in Nat /\ r.off \in Nat /\ r.need \in Nat /\ r.held \in Nat /\ r.mem \in Nat
         /\ r.left \in Nat /\ r.count \in Nat /\ r.received \in Nat
BY DEF Handlers

\* What a handler may be allowed.
LEMMA AllowanceFacts ==
  ASSUME NEW r \in Handlers
  PROVE  /\ r.held * Unit \in Nat /\ Over(r) \in Nat /\ Allowance(r) \in Nat
         /\ Allowance(r) = r.held * Unit + Over(r) /\ r.mem <= Allowance(r)
<1>1. r.held \in Nat /\ r.mem \in Nat /\ Unit \in Nat \ {0}
  BY Numbers, BlobsAssumption
<1>2. r.held * Unit \in Nat
  BY <1>1, Multiples
<1> QED
  BY <1>1, <1>2 DEF Over, Allowance

\* The permits given back and taken are the change of the sums.
LEMMA BudgetMoves ==
  ASSUME TypeInv, BudgetInv, NEW s \in Streams, NEW r \in Handlers,
         tx' = [tx EXCEPT ![s] = r], free' = free + tx[s].held - r.held,
         r.held <= tx[s].held + free,
         grown' \in Nat, Over(r) + grown <= Over(tx[s]) + grown'
  PROVE  BudgetInv' /\ free' \in Nat
<1> DEFINE h == [o \in Streams |-> tx[o].held]
           g == [o \in Streams |-> (tx[o].held)']
           a == [o \in Streams |-> Allowance(tx[o])]
           b == [o \in Streams |-> Allowance(tx[o])']
<1>1. tx \in [Streams -> Handlers] /\ tx' \in [Streams -> Handlers] /\ tx'[s] = r
      /\ \A o \in Streams \ {s} : tx'[o] = tx[o]
  BY DEF TypeInv
<1>2. Summable(h, Streams) /\ Summable(g, Streams)
  BY <1>1, Numbers, BlobsAssumption DEF Summable
<1>3. Summable(a, Streams) /\ Summable(b, Streams)
  <2>1. \A o \in Streams : Allowance(tx[o]) \in Nat /\ Allowance(tx'[o]) \in Nat
    BY <1>1, AllowanceFacts
  <2>2. \A o \in Streams : Allowance(tx[o])' = Allowance(tx'[o])
    BY DEF Allowance, Over
  <2> QED
    BY <2>1, <2>2, BlobsAssumption DEF Summable
<1>4. h[s] = tx[s].held /\ g[s] = r.held /\ \A o \in Streams \ {s} : h[o] = g[o]
  BY <1>1
<1>5. a[s] = Allowance(tx[s]) /\ b[s] = Allowance(r) /\ \A o \in Streams \ {s} : a[o] = b[o]
  <2>1. \A o \in Streams : Allowance(tx[o])' = Allowance(tx'[o])
    BY DEF Allowance, Over
  <2> QED
    BY <1>1, <2>1
<1>6. Held = SumOver(h, Streams) /\ Held' = SumOver(g, Streams)
      /\ Allowed = SumOver(a, Streams) /\ Allowed' = SumOver(b, Streams)
  BY DEF Held, Allowed
<1> HIDE DEF h, g, a, b
<1>7. /\ Held \in Nat /\ Held' \in Nat /\ Held' = Held - tx[s].held + r.held /\ tx[s].held <= Held
  BY <1>2, <1>4, <1>6, SumChange
<1>8. /\ Allowed \in Nat /\ Allowed' \in Nat
      /\ Allowed' = Allowed - Allowance(tx[s]) + Allowance(r)
  BY <1>3, <1>5, <1>6, SumChange
<1>9. free \in Nat /\ grown \in Nat /\ tx[s] \in Handlers /\ tx[s].held \in Nat /\ r.held \in Nat
      /\ Unit \in Nat \ {0} /\ Budget \in Nat
  BY <1>1, Numbers, BlobsAssumption, BudgetBytes DEF TypeInv
<1>10. free' \in Nat /\ free' + Held' = Budget
  BY <1>7, <1>9 DEF BudgetInv
<1>11. Allowed' <= Held' * Unit + grown'
  <2> DEFINE x == Held * Unit
             y == Held' * Unit
             c == tx[s].held * Unit
             d == r.held * Unit
  <2>1. x \in Nat /\ y \in Nat /\ c \in Nat /\ d \in Nat /\ y + c = x + d
    <3>1. Held' + tx[s].held = Held + r.held
      BY <1>7, <1>9
    <3>2. (Held' + tx[s].held) * Unit = y + c /\ (Held + r.held) * Unit = x + d
      BY <1>7, <1>9, Multiples
    <3> QED
      BY <1>7, <1>9, <3>1, <3>2, Multiples
  <2>2. /\ Allowance(tx[s]) = c + Over(tx[s]) /\ Over(tx[s]) \in Nat
        /\ Allowance(r) = d + Over(r) /\ Over(r) \in Nat
    BY <1>9, AllowanceFacts
  <2>3. Allowed <= x + grown
    BY DEF BudgetInv
  <2> HIDE DEF x, y, c, d
  <2>4. Allowed' <= y + grown'
    BY <1>8, <1>9, <2>1, <2>2, <2>3
  <2> QED
    BY <2>4 DEF y
<1> QED
  BY <1>10, <1>11 DEF BudgetInv

\* s begins to wait, is served, or neither
QueueStep(s) ==
  \/ queue' = queue
  \/ queue' = Append(queue, s) /\ ~In(s, queue)
  \/ queue # <<>> /\ Head(queue) = s /\ queue' = Tail(queue)

\* The others keep their places.
LEMMA QueueMoves ==
  ASSUME TypeInv, QueueInv, NEW s \in Streams, QueueStep(s)
  PROVE  /\ queue' \in Seq(Streams) /\ QueueInv'
         /\ \A o \in Streams \ {s} : In(o, queue') <=> In(o, queue)
         /\ queue' = Append(queue, s) => In(s, queue')
         /\ queue # <<>> /\ Head(queue) = s /\ queue' = Tail(queue) => ~In(s, queue')
<1>1. queue \in Seq(Streams) /\ Len(queue) \in Nat
  BY LenProperties DEF TypeInv
<1>2. CASE queue' = queue
  <2>1. ~(queue' = Append(queue, s))
    BY <1>1, <1>2, AppendProperties
  <2>2. ~(queue # <<>> /\ queue' = Tail(queue))
    BY <1>1, <1>2, HeadTailProperties
  <2> QED
    BY <1>1, <1>2, <2>1, <2>2 DEF QueueInv
<1>3. CASE queue' = Append(queue, s) /\ ~In(s, queue)
  <2> DEFINE q == queue'
             n == Len(queue)
  <2>1. /\ q \in Seq(Streams) /\ Len(q) = n + 1 /\ q[n + 1] = s /\ n \in Nat
        /\ \A i \in 1 .. n : q[i] = queue[i]
    BY <1>1, <1>3, AppendProperties
  <2>2. ~(queue # <<>> /\ queue' = Tail(queue))
    BY <1>1, <2>1, HeadTailProperties
  <2> HIDE DEF q, n
  <2>3. \A i \in 1 .. n : queue[i] # s
    BY <1>3 DEF In, n
  <2>4. \A i \in 1 .. n + 1 : i \in 1 .. n \/ i = n + 1
    BY <2>1
  <2>5. n + 1 \in 1 .. n + 1 /\ \A i \in 1 .. n : i \in 1 .. n + 1 /\ i # n + 1
    BY <2>1
  <2>6. QueueInv'
    <3> SUFFICES ASSUME NEW i \in 1 .. n + 1, NEW k \in 1 .. n + 1, q[i] = q[k] PROVE i = k
      BY <2>1 DEF QueueInv, q
    <3>1. CASE i \in 1 .. n /\ k \in 1 .. n
      BY <2>1, <3>1 DEF QueueInv, n
    <3> QED
      BY <2>1, <2>3, <2>4, <3>1
  <2>7. \A o \in Streams \ {s} : In(o, q) <=> In(o, queue)
    <3> SUFFICES ASSUME NEW o \in Streams \ {s} PROVE In(o, q) <=> In(o, queue)
      OBVIOUS
    <3>1. ASSUME NEW i \in 1 .. n + 1, q[i] = o PROVE \E k \in 1 .. n : queue[k] = o
      BY <2>1, <2>4, <3>1
    <3>2. ASSUME NEW k \in 1 .. n, queue[k] = o PROVE \E i \in 1 .. n + 1 : q[i] = o
      BY <2>1, <2>5, <3>2
    <3> QED
      BY <2>1, <3>1, <3>2 DEF In, n
  <2>8. In(s, q)
    BY <2>1, <2>5 DEF In
  <2> QED
    BY <2>1, <2>2, <2>6, <2>7, <2>8 DEF q
<1>4. CASE queue # <<>> /\ Head(queue) = s /\ queue' = Tail(queue)
  <2> DEFINE q == queue'
             n == Len(queue)
  <2>1. /\ q \in Seq(Streams) /\ Len(q) = n - 1 /\ n \in Nat /\ n # 0 /\ queue[1] = s
        /\ \A i \in 1 .. n - 1 : q[i] = queue[i + 1]
    BY <1>1, <1>4, HeadTailProperties, EmptySeq
  <2>2. ~(queue' = Append(queue, s))
    BY <1>1, <2>1, AppendProperties
  <2> HIDE DEF q, n
  <2>3. \A i, k \in 1 .. n : queue[i] = queue[k] => i = k
    BY DEF QueueInv, n
  <2>4. \A i \in 1 .. n - 1 : i + 1 \in 1 .. n /\ i + 1 # 1 /\ i \in Nat
    BY <2>1
  <2>5. \A i \in 1 .. n : i = 1 \/ (i - 1 \in 1 .. n - 1 /\ (i - 1) + 1 = i)
    BY <2>1
  <2>6. QueueInv'
    <3> SUFFICES ASSUME NEW i \in 1 .. n - 1, NEW k \in 1 .. n - 1, q[i] = q[k] PROVE i = k
      BY <2>1 DEF QueueInv, q
    <3>1. i + 1 = k + 1
      BY <2>1, <2>3, <2>4
    <3> QED
      BY <2>4, <3>1
  <2>7. \A o \in Streams \ {s} : In(o, q) <=> In(o, queue)
    <3> SUFFICES ASSUME NEW o \in Streams \ {s} PROVE In(o, q) <=> In(o, queue)
      OBVIOUS
    <3>1. ASSUME NEW i \in 1 .. n - 1, q[i] = o PROVE \E k \in 1 .. n : queue[k] = o
      BY <2>1, <2>4, <3>1
    <3>2. ASSUME NEW k \in 1 .. n, queue[k] = o PROVE \E i \in 1 .. n - 1 : q[i] = o
      <4>1. k - 1 \in 1 .. n - 1 /\ (k - 1) + 1 = k
        BY <2>1, <2>5, <3>2
      <4> QED
        BY <2>1, <3>2, <4>1
    <3> QED
      BY <2>1, <3>1, <3>2 DEF In, n
  <2>8. ~In(s, q)
    <3> SUFFICES ASSUME NEW i \in 1 .. n - 1, q[i] = s PROVE FALSE
      BY <2>1 DEF In
    <3>1. queue[i + 1] = queue[1] /\ i + 1 \in 1 .. n /\ 1 \in 1 .. n /\ i + 1 # 1
      BY <2>1, <2>4
    <3> QED
      BY <2>3, <3>1
  <2> QED
    BY <2>1, <2>2, <2>6, <2>7, <2>8 DEF q
<1> QED
  BY <1>2, <1>3, <1>4 DEF QueueStep

\* Who has a destination is only known to be another one's rival, never no more.
LEMMA PlaceMoves ==
  ASSUME Inv, NEW s \in Streams, NEW r \in Handlers, tx' = [tx EXCEPT ![s] = r],
         tx[s].pc # "new" => r.op = tx[s].op /\ r.path = tx[s].path,
         \A p \in Paths : target'[p] # target[p] => r.op = "put" /\ r.path = p,
         r.op = "put" /\ ~Contended(s)' => PlaceOK(s, r, target'[r.path])
  PROVE  PlaceInv'
<1>1. /\ tx'[s] = r /\ \A o \in Streams \ {s} : tx'[o] = tx[o]
      /\ tx[s].op = "put" => r.op = "put" /\ r.path = tx[s].path
  <2>1. tx[s].pc = "new" => tx[s].op = "none"
    BY DEF Inv, StreamInv, SentOK, Fresh
  <2> QED
    BY <2>1 DEF Inv, TypeInv
<1>2. ASSUME NEW o \in Streams, tx'[o].op = "put", ~Contended(o)'
      PROVE  PlaceOK(o, tx'[o], target'[tx'[o].path])
  <2>1. CASE o = s
    BY <1>1, <1>2, <2>1
  <2>2. CASE o # s
    <3>1. tx'[o] = tx[o] /\ o \in Streams \ {s} /\ tx[o].path \in Paths
      BY <1>1, <1>2, <2>2 DEF Inv, StreamInv, SentOK
    <3>2. ~(r.op = "put" /\ r.path = tx[o].path)
      BY <1>1, <1>2, <2>2, <3>1 DEF Contended
    <3>3. ~Contended(o)
      BY <1>1, <1>2, <2>2, <3>1, <3>2 DEF Contended
    <3>4. target'[tx[o].path] = target[tx[o].path]
      BY <3>1, <3>2
    <3> QED
      BY <1>2, <3>1, <3>3, <3>4 DEF Inv, PlaceInv
  <2> QED
    BY <2>1, <2>2
<1>3. ASSUME NEW p \in Paths, ~Taken(p)' PROVE target'[p] = Vacant
  <2>1. ~(r.op = "put" /\ r.path = p)
    BY <1>1, <1>3 DEF Taken
  <2>2. ~Taken(p)
    BY <1>1, <1>3, <2>1 DEF Taken
  <2> QED
    BY <2>1, <2>2 DEF Inv, PlaceInv
<1>4. \A o \in Streams : PlaceOK(o, tx[o], target[tx[o].path])' = PlaceOK(o, tx'[o], target'[tx'[o].path])
  BY DEF PlaceOK, Raw, Total, Items, Before
<1> QED
  BY <1>2, <1>3, <1>4 DEF PlaceInv

\* Nothing a handler knows of the store is lost.
LEMMA HonestGrows ==
  ASSUME NEW s, NEW r, NEW st, NEW st2, st \subseteq st2, HonestOK(s, r, st)
  PROVE  HonestOK(s, r, st2)
BY Zenon DEF HonestOK

\* A step of the handler of s keeps the invariant when what it leaves is right
\* for that stream.
LEMMA StepKeeps ==
  ASSUME Inv, NEW s \in Streams, NEW r \in Handlers,
         tx' = [tx EXCEPT ![s] = r], free' = free + tx[s].held - r.held,
         r.held <= tx[s].held + free, QueueStep(s),
         store \subseteq store', store' \in SUBSET (Jobs \X Nat),
         target' \in [Paths -> Targets], lost' \in SUBSET Streams,
         grown' \in 0 .. MaxGrowth, Over(r) + grown <= Over(tx[s]) + grown',
         tx[s].pc # "new" => r.op = tx[s].op /\ r.path = tx[s].path,
         \A p \in Paths : target'[p] # target[p] => r.op = "put" /\ r.path = p,
         SentOK(r), HoldOK(r, In(s, queue')), HonestOK(s, r, store'),
         r.op = "put" /\ ~Contended(s)' => PlaceOK(s, r, target'[r.path])
  PROVE  Inv'
<1>1. TypeInv /\ QueueInv /\ BudgetInv
  BY DEF Inv
<1>2. BudgetInv' /\ free' \in Nat
  <2>1. grown' \in Nat
    BY BlobsAssumption
  <2> QED
    BY <1>1, <2>1, BudgetMoves
<1>3. /\ queue' \in Seq(Streams) /\ QueueInv'
      /\ \A o \in Streams \ {s} : In(o, queue') <=> In(o, queue)
  BY <1>1, QueueMoves
<1>4. tx' \in [Streams -> Handlers] /\ tx'[s] = r /\ \A o \in Streams \ {s} : tx'[o] = tx[o]
  BY <1>1 DEF TypeInv
<1>5. TypeInv'
  BY <1>2, <1>3, <1>4 DEF TypeInv
<1>6. PlaceInv'
  BY PlaceMoves
<1>7. ASSUME NEW o \in Streams
      PROVE  SentOK(tx'[o]) /\ HoldOK(tx'[o], In(o, queue')) /\ HonestOK(o, tx'[o], store')
  <2>1. CASE o = s
    BY <1>4, <2>1
  <2>2. CASE o # s
    <3>1. SentOK(tx[o]) /\ HoldOK(tx[o], In(o, queue)) /\ HonestOK(o, tx[o], store)
      BY DEF Inv, StreamInv
    <3>2. HonestOK(o, tx[o], store')
      BY <3>1, HonestGrows
    <3>3. HoldOK(tx[o], In(o, queue'))
      BY <1>3, <2>2, <3>1 DEF HoldOK
    <3> QED
      BY <1>4, <2>2, <3>1, <3>2, <3>3
  <2> QED
    BY <2>1, <2>2
<1>8. \A o \in Streams : StreamInv(o)' = /\ SentOK(tx'[o]) /\ HoldOK(tx'[o], In(o, queue'))
                                         /\ HonestOK(o, tx'[o], store')
  BY DEF StreamInv, SentOK, HoldOK, HonestOK, Raw, Share, Whole, Blobs, Upto, Before, Total, Items, In, Frame
<1> QED
  BY <1>1, <1>2, <1>3, <1>5, <1>6, <1>7, <1>8 DEF Inv

-----------------------------------------------------------------------------
(***************************************************************************)
(* How far a client has come.                                              *)
(***************************************************************************)
\* What a blob is on the stream.
Wide(j, b) == Sizes[j][b] + (IF Format[j] = "raw" THEN 0 ELSE Prefix)

\* The blobs of a job.
LEMMA JobFacts ==
  ASSUME NEW j \in Jobs
  PROVE  /\ Len(Sizes[j]) \in Nat \ {0} /\ (Format[j] = "raw" => Len(Sizes[j]) = 1)
         /\ Format[j] \in {"raw", "hashseq"} /\ Prefix \in Nat \ {0} /\ Cap \in Nat /\ Chunk \in Nat \ {0}
         /\ \A b \in Blobs(j) : Sizes[j][b] \in Nat /\ Wide(j, b) \in Nat /\ b \in Nat \ {0}
<1>1. /\ Sizes[j] \in Seq(Nat) /\ Len(Sizes[j]) > 0 /\ (Format[j] = "raw" => Len(Sizes[j]) = 1)
      /\ Format[j] \in {"raw", "hashseq"} /\ Prefix \in Nat \ {0} /\ Cap \in Nat /\ Chunk \in Nat \ {0}
  BY BlobsAssumption
<1>2. Len(Sizes[j]) \in Nat /\ \A b \in 1 .. Len(Sizes[j]) : Sizes[j][b] \in Nat
  BY <1>1, LenProperties, ElementOfSeq
<1> QED
  BY <1>1, <1>2 DEF Blobs, Wide

\* One blob further is its bytes and its prefix more; at the end it is the total.
LEMMA UptoFacts ==
  ASSUME NEW j \in Jobs, NEW b \in Blobs(j)
  PROVE  /\ Upto(j, b) \in Nat /\ Upto(j, b + 1) = Upto(j, b) + Wide(j, b)
         /\ Total(j) \in Nat /\ Upto(j, b + 1) <= Total(j)
<1> DEFINE n == Len(Sizes[j])
           S(k) == SumOver(Sizes[j], 1 .. k)
           P(k) == IF Format[j] = "raw" THEN 0 ELSE Prefix * k
<1>1. /\ n \in Nat \ {0} /\ Prefix \in Nat \ {0} /\ b \in Nat \ {0} /\ b <= n /\ b \in 1 .. n
      /\ Sizes[j][b] \in Nat /\ Wide(j, b) \in Nat
  BY JobFacts DEF Blobs
<1>2. \A k \in 0 .. n : Summable(Sizes[j], 1 .. k)
  <2> SUFFICES ASSUME NEW k \in 0 .. n PROVE Summable(Sizes[j], 1 .. k)
    OBVIOUS
  <2>1. IsFiniteSet(1 .. k)
    BY <1>1, FS_Interval
  <2>2. \A x \in 1 .. k : x \in Blobs(j)
    BY <1>1 DEF Blobs
  <2> QED
    BY <2>1, <2>2, JobFacts DEF Summable
<1>3. \A k \in 0 .. n : S(k) \in Nat
  BY <1>2, CellsFinite
<1>4. S(b) = S(b - 1) + Sizes[j][b]
  <2>1. 1 .. b = (1 .. b - 1) \cup {b} /\ b \notin 1 .. b - 1 /\ b - 1 \in 0 .. n
    BY <1>1
  <2>2. Summable(Sizes[j], 1 .. b - 1)
    BY <1>2, <2>1
  <2> QED
    BY <1>1, <2>1, <2>2, SumAdd
<1>5. S(b) <= S(n)
  <2>1. 1 .. b \subseteq 1 .. n /\ b \in 0 .. n /\ n \in 0 .. n
    BY <1>1
  <2>2. \A x \in 1 .. b : Sizes[j][x] <= Sizes[j][x]
    BY <1>2, <2>1 DEF Summable
  <2> QED
    BY <1>2, <2>1, <2>2, SumMono
<1>6. /\ P(b - 1) \in Nat /\ P(b) \in Nat /\ P(n) \in Nat /\ P(b) <= P(n)
      /\ Wide(j, b) + P(b - 1) = Sizes[j][b] + P(b)
  <2>1. /\ (b - 1) * Prefix \in Nat /\ b * Prefix = (b - 1) * Prefix + Prefix
        /\ b * Prefix \in Nat /\ n * Prefix \in Nat /\ b * Prefix <= n * Prefix
    <3>1. b - 1 \in Nat /\ b \in Nat /\ n \in Nat /\ (b - 1) + 1 = b
      BY <1>1
    <3> QED
      BY <1>1, <3>1, Multiples
  <2>2. /\ Prefix * (b - 1) = (b - 1) * Prefix /\ Prefix * b = b * Prefix /\ Prefix * n = n * Prefix
    BY <1>1
  <2> DEFINE u == (b - 1) * Prefix
             v == b * Prefix
             w == n * Prefix
  <2>3. /\ P(b - 1) = IF Format[j] = "raw" THEN 0 ELSE u
        /\ P(b) = IF Format[j] = "raw" THEN 0 ELSE v
        /\ P(n) = IF Format[j] = "raw" THEN 0 ELSE w
    BY <2>2
  <2>4. u \in Nat /\ v \in Nat /\ w \in Nat /\ v = u + Prefix /\ v <= w
    BY <2>1
  <2> HIDE DEF u, v, w, P, n
  <2> QED
    BY <1>1, <2>3, <2>4 DEF Wide
<1>7. Upto(j, b) = S(b - 1) + P(b - 1)
  BY DEF Upto
<1>8. Upto(j, b + 1) = S(b) + P(b)
  <2>1. (b + 1) - 1 = b
    BY <1>1
  <2> QED
    BY <2>1 DEF Upto
<1>9. Total(j) = S(n) + P(n)
  BY DEF Total, Blobs
<1>10. S(b - 1) \in Nat /\ S(b) \in Nat /\ S(n) \in Nat
  <2>1. b - 1 \in 0 .. n /\ b \in 0 .. n /\ n \in 0 .. n
    BY <1>1
  <2> QED
    BY <1>3, <2>1
<1> HIDE DEF S, P, n
<1> QED
  BY <1>1, <1>4, <1>5, <1>6, <1>7, <1>8, <1>9, <1>10

\* Before the first blob nothing was sent, after the last one everything.
LEMMA UptoEnds ==
  ASSUME NEW j \in Jobs
  PROVE  Upto(j, 1) = 0 /\ Upto(j, Len(Sizes[j]) + 1) = Total(j) /\ Total(j) \in Nat
<1> DEFINE n == Len(Sizes[j])
<1>1. n \in Nat \ {0} /\ Prefix \in Nat \ {0} /\ 1 \in Blobs(j)
  BY JobFacts DEF Blobs
<1>2. 1 .. 1 - 1 = {} /\ (n + 1) - 1 = n /\ Prefix * (1 - 1) = 0
  BY <1>1
<1>3. Upto(j, 1) = 0
  BY <1>2, SumEmpty DEF Upto
<1>4. Upto(j, n + 1) = Total(j)
  BY <1>2 DEF Upto, Total, Blobs
<1> QED
  BY <1>1, <1>3, <1>4, UptoFacts

\* The only blob of a raw job.
LEMMA RawTotal ==
  ASSUME NEW j \in Jobs, Format[j] = "raw"
  PROVE  Total(j) = Sizes[j][1] /\ Sizes[j][1] \in Nat /\ Len(Sizes[j]) = 1 /\ 1 \in Blobs(j)
         /\ Wide(j, 1) = Sizes[j][1]
<1>1. Len(Sizes[j]) = 1 /\ 1 \in Blobs(j) /\ Sizes[j][1] \in Nat
  BY JobFacts DEF Blobs
<1>2. Wide(j, 1) = Sizes[j][1]
  BY <1>1 DEF Wide
<1>3. Upto(j, 1 + 1) = Upto(j, 1) + Wide(j, 1)
  BY <1>1, UptoFacts
<1>4. Upto(j, 1) = 0 /\ Upto(j, 1 + 1) = Total(j)
  BY <1>1, UptoEnds
<1> QED
  BY <1>1, <1>2, <1>3, <1>4

-----------------------------------------------------------------------------
(***************************************************************************)
(* Steps of one kind.                                                      *)
(***************************************************************************)
\* The types of the state around a step.
LEMMA StreamFacts ==
  ASSUME Inv, NEW s \in Streams
  PROVE  /\ tx[s] \in Handlers /\ SentOK(tx[s]) /\ HoldOK(tx[s], In(s, queue))
         /\ HonestOK(s, tx[s], store) /\ free \in Nat /\ store \in SUBSET (Jobs \X Nat)
         /\ target \in [Paths -> Targets] /\ lost \in SUBSET Streams /\ grown \in 0 .. MaxGrowth
         /\ grown \in Nat
BY BlobsAssumption DEF Inv, TypeInv, StreamInv

\* A stream that is at a place does not wait.
LEMMA NotWaiting ==
  ASSUME NEW s, NEW pc, At(s, pc)
  PROVE  tx[s].pc = pc /\ ~In(s, queue)
BY DEF At, Waits, In

\* An upload that goes on has the rivals it had; one that begins without a
\* rival finds its destination vacant.
LEMMA Rivals ==
  ASSUME Inv, NEW s \in Streams, NEW r \in Handlers, tx' = [tx EXCEPT ![s] = r],
         r.op = "put", ~Contended(s)'
  PROVE  /\ tx[s].op = "put" /\ r.path = tx[s].path => PlaceOK(s, tx[s], target[r.path])
         /\ tx[s].pc = "new" /\ r.path \in Paths => target[r.path] = Vacant
<1>1. tx'[s] = r /\ \A o \in Streams \ {s} : tx'[o] = tx[o]
  BY DEF Inv, TypeInv
<1>2. \A o \in Streams \ {s} : ~(tx[o].op = "put" /\ tx[o].path = r.path)
  BY <1>1 DEF Contended
<1>3. ASSUME tx[s].op = "put", r.path = tx[s].path PROVE PlaceOK(s, tx[s], target[r.path])
  BY <1>2, <1>3 DEF Contended, Inv, PlaceInv
<1>4. ASSUME tx[s].pc = "new", r.path \in Paths PROVE target[r.path] = Vacant
  <2>1. tx[s].op = "none"
    BY <1>4 DEF Inv, StreamInv, SentOK, Fresh
  <2>2. ~Taken(r.path)
    BY <1>2, <2>1 DEF Taken
  <2> QED
    BY <1>4, <2>2 DEF Inv, PlaceInv
<1> QED
  BY <1>3, <1>4

\* A handler that has not begun.
LEMMA FreshHandler == Fresh \in Handlers
<1>1. NoFrame \in FrameSet
  BY DEF NoFrame, Frame, FrameSet
<1>2. "new" \in Places /\ "none" \in Answers
  BY DEF Places, Answers
<1> HIDE DEF NoFrame, FrameSet, Places, Answers
<1> QED
  BY <1>1, <1>2 DEF Fresh, Handlers

\* what a handler leaves when it returns
Last(s, r, answer) ==
  [Fresh EXCEPT !.pc = "done", !.op = r.op, !.job = r.job, !.path = r.path,
     !.fault = r.fault, !.told = IF s \in lost THEN "nothing" ELSE answer]

\* It is a handler still.
LEMMA LastHandler ==
  ASSUME NEW s, NEW r \in Handlers, NEW answer \in Answers
  PROVE  /\ Last(s, r, answer) \in Handlers
         /\ Last(s, r, answer).op = r.op /\ Last(s, r, answer).path = r.path
<1>1. /\ r.op \in {"none", "put", "get"} /\ r.job \in Jobs \cup {NoJob} /\ r.path \in Paths \cup {NoJob}
      /\ r.fault \in BOOLEAN /\ "done" \in Places
      /\ (IF s \in lost THEN "nothing" ELSE answer) \in Answers
  BY DEF Handlers, Answers, Places
<1>2. Fresh \in Handlers
  BY FreshHandler
<1>3. Last(s, r, answer) \in Handlers
  BY <1>1, <1>2, Zenon DEF Last, Handlers
<1> QED
  BY <1>3 DEF Last, Fresh

\* A handler that returns keeps the invariant when its answer is right.
LEMMA EndsKeeps ==
  ASSUME Inv, NEW s \in Streams, NEW r \in Handlers, NEW answer \in Answers, Ends(s, r, answer),
         r.op # "none", r.job \in Jobs, r.op = "put" => r.path \in Paths,
         tx[s].pc # "new" => r.op = tx[s].op /\ r.path = tx[s].path,
         ~In(s, queue), UNCHANGED <<queue, store, lost, grown>>,
         target' \in [Paths -> Targets],
         \A p \in Paths : target'[p] # target[p] => r.op = "put" /\ r.path = p,
         r.op = "put" /\ ~Contended(s)' /\ s \notin lost =>
           /\ answer = "ok" => target'[r.path].items = Items(r.job)
           /\ s \notin Strangers /\ answer \in {"error", "mismatch"} => r.fault \/ Total(r.job) > Cap
  PROVE  Inv'
<1> DEFINE q == Last(s, r, answer)
<1>1. tx' = [tx EXCEPT ![s] = q] /\ free' = free + tx[s].held - q.held
  BY DEF Ends, Goes, Last
<1>2. /\ q.pc = "done" /\ q.op = r.op /\ q.job = r.job /\ q.path = r.path /\ q.fault = r.fault
      /\ q.held = 0 /\ q.mem = 0 /\ q.left = 0 /\ q.need = 0
      /\ q.told = IF s \in lost THEN "nothing" ELSE answer
  BY DEF Last, Fresh
<1>3. q \in Handlers
  BY LastHandler
<1> HIDE DEF q
<1>4. SentOK(q)
  BY <1>2 DEF SentOK
<1>5. HoldOK(q, In(s, queue'))
  <2>1. q.held + q.need = 0 /\ 0 * Unit = 0 /\ Budget \in Nat
    BY <1>2, BudgetBytes, BlobsAssumption
  <2>2. Share(q) = 0
    BY <2>1 DEF Share
  <2> QED
    BY <1>2, <2>1, <2>2 DEF HoldOK
<1>6. HonestOK(s, q, store')
  BY <1>2 DEF HonestOK
<1>7. Over(q) + grown <= Over(tx[s]) + grown' /\ q.held <= tx[s].held + free
  <2>1. tx[s] \in Handlers /\ free \in Nat /\ grown \in Nat
    BY StreamFacts
  <2>2. Over(tx[s]) \in Nat /\ tx[s].held \in Nat
    BY <2>1, AllowanceFacts, Numbers
  <2>3. Over(q) = 0
    BY <1>2, BlobsAssumption DEF Over
  <2> QED
    BY <1>2, <2>1, <2>2, <2>3
<1>8. q.op = "put" /\ ~Contended(s)' => PlaceOK(s, q, target'[q.path])
  BY <1>2 DEF PlaceOK
<1>9. QueueStep(s)
  BY DEF QueueStep
<1>10. store \subseteq store' /\ store' \in SUBSET (Jobs \X Nat) /\ lost' \in SUBSET Streams /\ grown' \in 0 .. MaxGrowth
  BY StreamFacts
<1> QED
  BY <1>1, <1>2, <1>3, <1>4, <1>5, <1>6, <1>7, <1>8, <1>9, <1>10, StepKeeps

\* An early return keeps the invariant when the client's own doing, a fault or
\* the size of the job is the reason.
LEMMA FailsKeeps ==
  ASSUME Inv, NEW s \in Streams, NEW r \in Handlers, Fails(s, r),
         r.op # "none", r.job \in Jobs, r.op = "put" => r.path \in Paths,
         tx[s].pc # "new" => r.op = tx[s].op /\ r.path = tx[s].path, ~In(s, queue),
         r.op = "put" /\ ~Contended(s)' /\ s \notin lost /\ s \notin Strangers =>
           r.fault \/ Total(r.job) > Cap
  PROVE  Inv'
<1>1. Ends(s, r, "error") /\ UNCHANGED <<queue, store, target, lost, grown>>
  BY DEF Fails
<1>2. target' \in [Paths -> Targets]
  BY <1>1, StreamFacts
<1>3. "error" \in Answers
  BY DEF Answers
<1> QED
  BY <1>1, <1>2, <1>3, EndsKeeps

\* A step of a handler that takes no permit and neither waits nor touches a
\* destination keeps the invariant when it leaves what is right.
LEMMA GoesKeeps ==
  ASSUME Inv, NEW s \in Streams, NEW r \in Handlers, Goes(s, r), r.held <= tx[s].held,
         ~In(s, queue), UNCHANGED <<queue, target, lost, grown>>,
         store \subseteq store', store' \in SUBSET (Jobs \X Nat), Over(r) = 0,
         tx[s].pc # "new" => r.op = tx[s].op /\ r.path = tx[s].path,
         SentOK(r), HoldOK(r, FALSE), HonestOK(s, r, store'),
         r.op = "put" /\ ~Contended(s)' => PlaceOK(s, r, target[r.path])
  PROVE  Inv'
<1>1. tx' = [tx EXCEPT ![s] = r] /\ free' = free + tx[s].held - r.held
  BY DEF Goes
<1>2. Over(r) + grown <= Over(tx[s]) + grown' /\ r.held <= tx[s].held + free
  <2>1. tx[s] \in Handlers /\ free \in Nat /\ grown \in Nat
    BY StreamFacts
  <2>2. Over(tx[s]) \in Nat /\ tx[s].held \in Nat /\ r.held \in Nat
    BY <2>1, AllowanceFacts, Numbers
  <2> QED
    BY <2>1, <2>2
<1>3. HoldOK(r, In(s, queue')) /\ QueueStep(s)
  <2>1. ~In(s, queue') /\ QueueStep(s)
    BY DEF In, QueueStep
  <2> QED
    BY <2>1 DEF HoldOK
<1>4. target' \in [Paths -> Targets] /\ lost' \in SUBSET Streams /\ grown' \in 0 .. MaxGrowth
  BY StreamFacts
<1> QED
  BY <1>1, <1>2, <1>3, <1>4, StepKeeps

\* handlers that differ in their permits and their memory alone
Alike(q, r) ==
  /\ q.pc = r.pc /\ q.op = r.op /\ q.job = r.job /\ q.path = r.path /\ q.blob = r.blob
  /\ q.off = r.off /\ q.left = r.left /\ q.begun = r.begun /\ q.frame = r.frame
  /\ q.count = r.count /\ q.received = r.received /\ q.good = r.good /\ q.fault = r.fault
  /\ q.told = r.told

\* What is said of the one holds for the other.
LEMMA AlikeOK ==
  ASSUME NEW q, NEW r, Alike(q, r), NEW s, NEW st, NEW t, r.pc # "new"
  PROVE  /\ SentOK(r) => SentOK(q)
         /\ HonestOK(s, r, st) => HonestOK(s, q, st)
         /\ PlaceOK(s, r, t) => PlaceOK(s, q, t)
<1>1. Whole(q) = Whole(r) /\ (Raw(q) <=> Raw(r))
  BY DEF Alike, Whole, Raw
<1>2. SentOK(r) => SentOK(q)
  BY <1>1 DEF Alike, SentOK
<1>3. HonestOK(s, r, st) => HonestOK(s, q, st)
  BY <1>1 DEF Alike, HonestOK
<1>4. PlaceOK(s, r, t) => PlaceOK(s, q, t)
  BY <1>1 DEF Alike, PlaceOK
<1> QED
  BY <1>2, <1>3, <1>4

\* A handler that asks for a share of n bytes keeps the invariant when it has
\* given everything back and will not take more than that.
LEMMA AcquiresKeeps ==
  ASSUME Inv, NEW s \in Streams, NEW r \in Handlers, NEW n \in Nat, n <= Cap, Acquires(s, r, n),
         ~In(s, queue), UNCHANGED <<store, target, lost, grown>>,
         r.held = 0, r.mem = 0, r.left <= n, r.pc \in {"recv", "chunk", "read"},
         r.pc = "recv" /\ Raw(r) => Sizes[r.job][1] <= n /\ r.received = 0 /\ r.left = 0,
         r.pc = "read" => Sizes[r.job][r.blob] <= n /\ r.left = 0,
         r.op # "put" => Sizes[r.job][r.blob] \in Nat, Sizes[r.job][1] \in Nat,
         tx[s].pc # "new" => r.op = tx[s].op /\ r.path = tx[s].path,
         SentOK(r), HonestOK(s, r, store),
         r.op = "put" /\ ~Contended(s)' => PlaceOK(s, r, target[r.path])
  PROVE  Inv'
<1> DEFINE k == Permits(n)
           q == [r EXCEPT !.need = k]
           w == In(s, queue')
<1>1. k \in Nat /\ k <= Budget /\ n <= k * Unit /\ Unit \in Nat \ {0}
  BY PermitsCover, BlobsAssumption
<1>2. tx' = [tx EXCEPT ![s] = q] /\ free' = free + tx[s].held - q.held
  BY DEF Acquires, Goes
<1>3. QueueStep(s) /\ (k = 0 => queue' = queue) /\ (k # 0 => queue' = Append(queue, s))
  BY DEF Acquires, QueueStep
<1>4. k # 0 <=> w
  <2>1. CASE k = 0
    BY <1>3, <2>1 DEF In
  <2>2. CASE k # 0
    BY <1>3, <2>2, QueueMoves DEF Inv
  <2> QED
    BY <2>1, <2>2
<1> HIDE DEF k, w
<1>5. q \in Handlers /\ q.need = k /\ q.held = 0 /\ q.mem = 0 /\ Alike(q, r)
  BY <1>1 DEF Handlers, Alike
<1> HIDE DEF q
<1>6. SentOK(q) /\ HonestOK(s, q, store')
  BY <1>5, AlikeOK
<1>7. q.op = "put" /\ ~Contended(s)' => PlaceOK(s, q, target'[q.path])
  <2>1. q.op = r.op /\ q.path = r.path
    BY <1>5 DEF Alike
  <2> QED
    BY <1>5, <2>1, AlikeOK
<1>8. HoldOK(q, w)
  <2>1. Share(q) = k * Unit
    BY <1>1, <1>5 DEF Share
  <2>2. k * Unit \in Nat
    BY <1>1, Multiples
  <2>3. r.left \in Nat /\ Raw(q) = Raw(r) /\ r.received \in Nat
    BY <1>5, Numbers DEF Alike, Raw
  <2> DEFINE z == k * Unit
  <2>4. n <= z /\ z \in Nat /\ Share(q) = z
    BY <1>1, <2>1, <2>2
  <2> HIDE DEF z
  <2>5. q.mem + q.left <= Share(q)
    BY <1>5, <2>3, <2>4 DEF Alike
  <2>6. q.pc = "recv" /\ Raw(q) => Sizes[q.job][1] <= Share(q) /\ q.mem = q.received /\ q.left = 0
    BY <1>5, <2>3, <2>4 DEF Alike
  <2>7. q.pc = "read" => Sizes[q.job][q.blob] <= Share(q) /\ q.mem = 0
    <3> SUFFICES ASSUME q.pc = "read" PROVE Sizes[q.job][q.blob] <= Share(q)
      BY <1>5
    <3>1. r.pc = "read" /\ Sizes[q.job][q.blob] = Sizes[r.job][r.blob] /\ Sizes[r.job][r.blob] \in Nat
      BY <1>5 DEF Alike, SentOK
    <3> QED
      BY <2>4, <3>1
  <2> QED
    BY <1>1, <1>4, <1>5, <2>5, <2>6, <2>7 DEF HoldOK, Alike
<1>9. Over(q) + grown <= Over(tx[s]) + grown' /\ q.held <= tx[s].held + free
  <2>1. tx[s] \in Handlers /\ free \in Nat /\ grown \in Nat
    BY StreamFacts
  <2>2. Over(tx[s]) \in Nat /\ tx[s].held \in Nat
    BY <2>1, AllowanceFacts, Numbers
  <2>3. Over(q) = 0
    BY <1>1, <1>5 DEF Over
  <2> QED
    BY <1>5, <2>1, <2>2, <2>3
<1>10. /\ store \subseteq store' /\ store' \in SUBSET (Jobs \X Nat)
       /\ target' \in [Paths -> Targets] /\ lost' \in SUBSET Streams /\ grown' \in 0 .. MaxGrowth
  BY StreamFacts
<1>11. tx[s].pc # "new" => q.op = tx[s].op /\ q.path = tx[s].path
  BY <1>5 DEF Alike
<1> QED
  BY <1>2, <1>3, <1>5, <1>6, <1>7, <1>8, <1>9, <1>10, <1>11, StepKeeps DEF w

-----------------------------------------------------------------------------
(***************************************************************************)
(* One lemma for each action.                                              *)
(***************************************************************************)
\* A request that is refused.
LEMMA PutRejectedKeeps ==
  ASSUME Inv, NEW s \in Streams, NEW j \in Jobs, NEW p \in Paths, PutRejected(s, j, p)
  PROVE  Inv'
<1> DEFINE r == [Fresh EXCEPT !.op = "put", !.job = j, !.path = p, !.fault = TRUE]
<1>1. r \in Handlers /\ r.op = "put" /\ r.job = j /\ r.path = p /\ r.fault
  BY FreshHandler DEF Handlers, Fresh
<1>2. tx[s].pc = "new" /\ ~In(s, queue) /\ Fails(s, r)
  BY NotWaiting DEF PutRejected
<1> HIDE DEF r
<1> QED
  BY <1>1, <1>2, FailsKeeps

\* A request for an upload.
LEMMA PutRequestKeeps ==
  ASSUME Inv, NEW s \in Streams, NEW j \in Jobs, NEW p \in Paths, PutRequest(s, j, p)
  PROVE  Inv'
<1> DEFINE r == [Fresh EXCEPT !.op = "put", !.job = j, !.path = p]
           q == [r EXCEPT !.pc = "recv"]
<1>1. r \in Handlers /\ r.op = "put" /\ r.job = j /\ r.path = p
  BY FreshHandler DEF Handlers, Fresh
<1>2. /\ q \in Handlers /\ q.pc = "recv" /\ q.op = "put" /\ q.job = j /\ q.path = p
      /\ q.blob = 1 /\ q.off = 0 /\ q.need = 0 /\ q.held = 0 /\ q.mem = 0 /\ q.left = 0
      /\ q.begun = FALSE /\ q.count = 0 /\ q.received = 0 /\ q.good = TRUE /\ q.told = "none"
  BY FreshHandler DEF Handlers, Fresh, Places
<1>3. tx[s].pc = "new" /\ ~In(s, queue) /\ UNCHANGED <<store, target, lost, grown>>
  BY NotWaiting DEF PutRequest
<1>4. \/ target[p] # Vacant /\ Ends(s, r, "exists") /\ UNCHANGED queue
      \/ target[p] = Vacant /\ Format[j] = "hashseq" /\ Goes(s, q) /\ UNCHANGED queue
      \/ /\ target[p] = Vacant /\ Format[j] = "raw" /\ Sizes[j][1] > Cap
         /\ Ends(s, r, "error") /\ UNCHANGED queue
      \/ /\ target[p] = Vacant /\ Format[j] = "raw" /\ Sizes[j][1] <= Cap
         /\ Acquires(s, q, Sizes[j][1])
  BY DEF PutRequest
<1> HIDE DEF r, q
<1>5. /\ Len(Sizes[j]) \in Nat \ {0} /\ Prefix \in Nat \ {0} /\ 1 \in Blobs(j) /\ Sizes[j][1] \in Nat
      /\ 1 .. 1 - 1 = {} /\ Upto(j, 1) = 0
  BY JobFacts, UptoEnds DEF Blobs
<1>6. SentOK(q)
  BY <1>2, <1>5 DEF SentOK, Raw, Whole
<1>7. HonestOK(s, q, store)
  <2>1. Before(j, 1) = {}
    BY <1>5 DEF Before
  <2> QED
    BY <1>2, <1>5, <2>1 DEF HonestOK
<1>8. q.op = "put" /\ ~Contended(s)' /\ target[p] = Vacant => PlaceOK(s, q, target[q.path])
  BY <1>2 DEF PlaceOK
<1>9. target' \in [Paths -> Targets]
  BY <1>3, StreamFacts
<1>10. CASE target[p] # Vacant /\ Ends(s, r, "exists") /\ UNCHANGED queue
  <2>1. "exists" \in Answers
    BY DEF Answers
  <2> QED
    BY <1>1, <1>3, <1>9, <1>10, <2>1, EndsKeeps
<1>11. CASE target[p] = Vacant /\ Format[j] = "hashseq" /\ Goes(s, q) /\ UNCHANGED queue
  <2>1. HoldOK(q, FALSE) /\ Over(q) = 0 /\ q.held <= tx[s].held
    <3>1. tx[s].held \in Nat /\ Unit \in Nat \ {0} /\ Budget \in Nat
      BY StreamFacts, Numbers, BlobsAssumption, BudgetBytes
    <3>2. Share(q) = 0
      BY <1>2, <3>1 DEF Share
    <3> QED
      BY <1>2, <1>11, <3>1, <3>2 DEF HoldOK, Over, Raw
  <2>2. store \subseteq store' /\ store' \in SUBSET (Jobs \X Nat) /\ HonestOK(s, q, store')
    BY <1>3, <1>7, StreamFacts
  <2> QED
    BY <1>2, <1>3, <1>6, <1>8, <1>11, <2>1, <2>2, GoesKeeps
<1>12. CASE target[p] = Vacant /\ Format[j] = "raw" /\ Sizes[j][1] > Cap /\ Ends(s, r, "error") /\ UNCHANGED queue
  <2>1. "error" \in Answers /\ Total(j) > Cap
    BY <1>12, RawTotal DEF Answers
  <2> QED
    BY <1>1, <1>3, <1>9, <1>12, <2>1, EndsKeeps
<1>13. CASE target[p] = Vacant /\ Format[j] = "raw" /\ Sizes[j][1] <= Cap /\ Acquires(s, q, Sizes[j][1])
  BY <1>2, <1>3, <1>5, <1>6, <1>7, <1>8, <1>13, AcquiresKeeps
<1> QED
  BY <1>4, <1>10, <1>11, <1>12, <1>13

\* The semaphore serves its first waiter.
LEMMA GrantedKeeps ==
  ASSUME Inv, NEW s \in Streams, Granted(s)
  PROVE  Inv'
<1> DEFINE q == [tx[s] EXCEPT !.held = tx[s].held + tx[s].need, !.need = 0]
<1>1. /\ queue # <<>> /\ Head(queue) = s /\ tx[s].need <= free /\ queue' = Tail(queue)
      /\ Goes(s, q) /\ UNCHANGED <<store, target, lost, grown>>
  BY DEF Granted
<1>2. tx[s] \in Handlers /\ SentOK(tx[s]) /\ HonestOK(s, tx[s], store) /\ HoldOK(tx[s], In(s, queue))
      /\ free \in Nat /\ grown \in Nat
  BY StreamFacts
<1>3. In(s, queue)
  <2>1. queue \in Seq(Streams) /\ queue # <<>>
    BY <1>1 DEF Inv, TypeInv
  <2>2. queue[1] = s /\ Len(queue) \in Nat /\ Len(queue) # 0
    BY <1>1, <2>1, HeadTailProperties, LenProperties, EmptySeq
  <2>3. 1 \in 1 .. Len(queue)
    BY <2>2
  <2> QED
    BY <2>2, <2>3 DEF In
<1>4. /\ tx[s].held = 0 /\ tx[s].mem = 0 /\ tx[s].pc \in {"recv", "chunk", "read"}
      /\ tx[s].need \in Nat /\ tx[s].left \in Nat
  BY <1>2, <1>3, Numbers DEF HoldOK
<1>5. q \in Handlers /\ q.held = tx[s].need /\ q.need = 0 /\ q.mem = 0 /\ Alike(q, tx[s])
  <2>1. tx[s].held + tx[s].need = tx[s].need /\ tx[s].need \in Nat /\ 0 \in Nat
    BY <1>4
  <2>2. q = [tx[s] EXCEPT !.held = tx[s].need, !.need = 0]
    BY <2>1
  <2> HIDE DEF q
  <2>3. q \in Handlers
    BY <1>2, <2>1, <2>2 DEF Handlers
  <2> QED
    BY <1>2, <1>4, <2>2 DEF Handlers, Alike
<1> HIDE DEF q
<1>6. SentOK(q) /\ HonestOK(s, q, store')
  BY <1>1, <1>2, <1>4, <1>5, AlikeOK
<1>7. q.op = tx[s].op /\ q.path = tx[s].path
  BY <1>5 DEF Alike
<1>8. ASSUME q.op = "put", ~Contended(s)' PROVE PlaceOK(s, q, target'[q.path])
  <2>1. PlaceOK(s, tx[s], target[q.path])
    BY <1>1, <1>5, <1>7, <1>8, Rivals DEF Goes
  <2> QED
    BY <1>1, <1>4, <1>5, <2>1, AlikeOK
<1>9. QueueStep(s)
  BY <1>1 DEF QueueStep
<1>10. ~In(s, queue')
  BY <1>1, <1>9, QueueMoves DEF Inv
<1>11. HoldOK(q, In(s, queue'))
  <2>1. Share(q) = Share(tx[s]) /\ Budget \in Nat
    BY <1>4, <1>5, BudgetBytes DEF Share
  <2>2. Raw(q) = Raw(tx[s])
    BY <1>5 DEF Alike, Raw
  <2> QED
    BY <1>2, <1>4, <1>5, <1>10, <2>1, <2>2 DEF HoldOK, Alike
<1>12. Over(q) + grown <= Over(tx[s]) + grown' /\ q.held <= tx[s].held + free
  <2>1. Over(q) = 0 /\ Over(tx[s]) = 0
    <3>1. q.held * Unit \in Nat /\ tx[s].held * Unit \in Nat
      BY <1>2, <1>5, AllowanceFacts
    <3> QED
      BY <1>4, <1>5, <3>1 DEF Over
  <2> QED
    BY <1>1, <1>2, <1>4, <1>5, <2>1
<1>13. /\ store \subseteq store' /\ store' \in SUBSET (Jobs \X Nat)
       /\ target' \in [Paths -> Targets] /\ lost' \in SUBSET Streams /\ grown' \in 0 .. MaxGrowth
  BY <1>1, StreamFacts
<1> QED
  BY <1>1, <1>5, <1>6, <1>7, <1>8, <1>9, <1>11, <1>12, <1>13, StepKeeps DEF Goes

\* The stream ends before PutComplete.
LEMMA ReadFailsKeeps ==
  ASSUME Inv, NEW s \in Streams, ReadFails(s)
  PROVE  Inv'
<1>1. tx[s].pc = "recv" /\ ~In(s, queue) /\ s \in lost /\ Fails(s, tx[s])
  BY NotWaiting DEF ReadFails
<1>2. tx[s] \in Handlers /\ SentOK(tx[s])
  BY StreamFacts
<1>3. tx[s].op # "none" /\ tx[s].job \in Jobs /\ (tx[s].op = "put" => tx[s].path \in Paths)
  BY <1>1, <1>2 DEF SentOK
<1> QED
  BY <1>1, <1>2, <1>3, FailsKeeps

\* The answer to an upload.
LEMMA PutReplyKeeps ==
  ASSUME Inv, NEW s \in Streams, PutReply(s)
  PROVE  Inv'
<1> DEFINE r == tx[s]
           answer == IF s \in Strangers \/ r.received = Total(r.job) THEN "ok" ELSE "mismatch"
<1>1. /\ r.pc = "reply" /\ ~In(s, queue) /\ r.op = "put" /\ Ends(s, r, answer)
      /\ UNCHANGED <<queue, store, target, lost, grown>>
  BY NotWaiting DEF PutReply
<1>2. r \in Handlers /\ SentOK(r) /\ HonestOK(s, r, store)
  BY StreamFacts
<1>3. r.job \in Jobs /\ r.path \in Paths
  BY <1>1, <1>2 DEF SentOK
<1>4. answer \in Answers
  BY DEF Answers
<1>5. s \notin Strangers => answer = "ok"
  BY <1>1, <1>2 DEF HonestOK
<1>6. ASSUME ~Contended(s)' PROVE target'[r.path].items = Items(r.job)
  <2>1. tx' = [tx EXCEPT ![s] = Last(s, r, answer)]
    BY <1>1 DEF Ends, Goes, Last
  <2>2. Last(s, r, answer) \in Handlers /\ Last(s, r, answer).op = r.op /\ Last(s, r, answer).path = r.path
    BY <1>2, <1>4, LastHandler
  <2>3. PlaceOK(s, r, target[r.path])
    BY <1>1, <1>6, <2>1, <2>2, Rivals
  <2> QED
    BY <1>1, <2>3 DEF PlaceOK
<1>7. target' \in [Paths -> Targets]
  BY <1>1, StreamFacts
<1> HIDE DEF answer, r
<1>8. r.op # "none" /\ (tx[s].pc # "new" => r.op = tx[s].op /\ r.path = tx[s].path)
  BY <1>1 DEF r
<1> QED
  BY <1>1, <1>2, <1>3, <1>4, <1>5, <1>6, <1>7, <1>8, EndsKeeps

\* What a handler holds that does not wait covers what it has in memory.
LEMMA Covered ==
  ASSUME NEW r \in Handlers, NEW w, HoldOK(r, w), r.pc # "keep"
  PROVE  r.mem <= r.held * Unit /\ Over(r) = 0
<1>1. r.held \in Nat /\ r.need \in Nat /\ r.mem \in Nat /\ r.left \in Nat /\ Unit \in Nat \ {0}
  BY Numbers, BlobsAssumption
<1>2. r.held * Unit \in Nat
  BY <1>1, Multiples
<1>3. CASE w
  <2>1. r.held = 0 /\ r.mem = 0
    BY <1>3 DEF HoldOK
  <2>2. ~(r.mem > r.held * Unit)
    BY <1>1, <1>2, <2>1
  <2> QED
    BY <1>1, <1>2, <2>1, <2>2 DEF Over
<1>4. CASE ~w
  <2>1. r.need = 0 /\ r.mem + r.left <= Share(r)
    BY <1>4 DEF HoldOK
  <2>2. Share(r) = r.held * Unit
    BY <1>1, <2>1 DEF Share
  <2> DEFINE z == r.held * Unit
  <2>3. r.mem + r.left <= z /\ z \in Nat
    BY <1>2, <2>1, <2>2
  <2>4. Over(r) = IF r.mem > z THEN r.mem - z ELSE 0
    BY DEF Over
  <2> HIDE DEF z
  <2>5. r.mem <= z /\ Over(r) = 0
    BY <1>1, <2>3, <2>4
  <2> QED
    BY <2>5 DEF z
<1> QED
  BY <1>3, <1>4

\* A step of an export that writes items at its destination.
LEMMA PutsKeeps ==
  ASSUME Inv, NEW s \in Streams, NEW r \in Handlers, Goes(s, r), r.held = tx[s].held,
         ~In(s, queue), UNCHANGED <<queue, store, lost, grown>>,
         NEW what \in {"none", "file", "dir"}, NEW items \in SUBSET (Jobs \X Nat), Put(r.path, what, items),
         r.op = "put", tx[s].op = "put", r.path = tx[s].path, r.pc # "keep",
         SentOK(r), HoldOK(r, FALSE), HonestOK(s, r, store),
         ~Contended(s)' => PlaceOK(s, r, [kind |-> what, items |-> items])
  PROVE  Inv'
<1> DEFINE t == [kind |-> what, items |-> items]
<1>1. tx' = [tx EXCEPT ![s] = r] /\ free' = free + tx[s].held - r.held
  BY DEF Goes
<1>2. Over(r) + grown <= Over(tx[s]) + grown' /\ r.held <= tx[s].held + free
  <2>1. tx[s] \in Handlers /\ free \in Nat /\ grown \in Nat
    BY StreamFacts
  <2>2. Over(tx[s]) \in Nat /\ tx[s].held \in Nat
    BY <2>1, AllowanceFacts, Numbers
  <2>3. Over(r) = 0
    BY Covered
  <2> QED
    BY <2>1, <2>2, <2>3
<1>3. HoldOK(r, In(s, queue')) /\ QueueStep(s)
  <2>1. ~In(s, queue') /\ QueueStep(s)
    BY DEF In, QueueStep
  <2> QED
    BY <2>1 DEF HoldOK
<1>4. r.path \in Paths /\ t \in Targets
  BY DEF SentOK, Targets
<1>5. target' = [target EXCEPT ![r.path] = t]
  BY DEF Put
<1> HIDE DEF t
<1>6. target' \in [Paths -> Targets] /\ target'[r.path] = t /\ \A p \in Paths : p # r.path => target'[p] = target[p]
  BY <1>4, <1>5, StreamFacts
<1>7. lost' \in SUBSET Streams /\ grown' \in 0 .. MaxGrowth /\ store \subseteq store' /\ store' \in SUBSET (Jobs \X Nat)
  BY StreamFacts
<1>8. /\ HonestOK(s, r, store')
      /\ \A p \in Paths : target'[p] # target[p] => r.op = "put" /\ r.path = p
      /\ r.op = "put" /\ ~Contended(s)' => PlaceOK(s, r, target'[r.path])
  BY <1>6 DEF t
<1> QED
  BY <1>1, <1>2, <1>3, <1>6, <1>7, <1>8, StepKeeps

\* what the files of a job are, and those before the one that is exported
LEMMA ItemsFacts ==
  ASSUME NEW j \in Jobs
  PROVE  /\ Items(j) \in SUBSET (Jobs \X Nat)
         /\ \A b \in Blobs(j) : Before(j, b) \in SUBSET (Jobs \X Nat) /\ <<j, b>> \in Jobs \X Nat
         /\ \A b \in Nat : Before(j, b + 1) = Before(j, b) \cup (IF b = 0 THEN {} ELSE {<<j, b>>})
         /\ Before(j, 1) = {}
         /\ Format[j] = "hashseq" => Items(j) = Before(j, Len(Sizes[j]))
<1>1. Len(Sizes[j]) \in Nat \ {0} /\ (Format[j] = "raw" => Len(Sizes[j]) = 1) /\ Format[j] \in {"raw", "hashseq"}
  BY JobFacts
<1>2. Items(j) \in SUBSET (Jobs \X Nat)
  BY <1>1 DEF Items
<1>3. \A b \in Blobs(j) : Before(j, b) \in SUBSET (Jobs \X Nat) /\ <<j, b>> \in Jobs \X Nat
  BY <1>1 DEF Before, Blobs
<1>4. ASSUME NEW b \in Nat PROVE Before(j, b + 1) = Before(j, b) \cup (IF b = 0 THEN {} ELSE {<<j, b>>})
  <2>1. 1 .. (b + 1) - 1 = (1 .. b - 1) \cup (IF b = 0 THEN {} ELSE {b})
    OBVIOUS
  <2> QED
    BY <2>1 DEF Before
<1>5. Before(j, 1) = {}
  BY DEF Before
<1> QED
  BY <1>1, <1>2, <1>3, <1>4, <1>5 DEF Before, Items

\* A handler that is at its export.
LEMMA ExportFacts ==
  ASSUME Inv, NEW s \in Streams, tx[s].pc = "export"
  PROVE  /\ tx[s] \in Handlers /\ SentOK(tx[s]) /\ HonestOK(s, tx[s], store) /\ tx[s].op = "put"
         /\ tx[s].job \in Jobs /\ tx[s].path \in Paths /\ tx[s].blob \in Blobs(tx[s].job)
         /\ HoldOK(tx[s], In(s, queue)) /\ target[tx[s].path] \in Targets
         /\ s \notin Strangers => tx[s].received = Total(tx[s].job) /\ Items(tx[s].job) \subseteq store
<1>1. /\ tx[s] \in Handlers /\ SentOK(tx[s]) /\ HonestOK(s, tx[s], store) /\ HoldOK(tx[s], In(s, queue))
      /\ target \in [Paths -> Targets]
  BY StreamFacts
<1>2. tx[s].op = "put" /\ tx[s].job \in Jobs /\ tx[s].path \in Paths /\ tx[s].blob \in Blobs(tx[s].job)
  BY <1>1 DEF SentOK
<1> QED
  BY <1>1, <1>2 DEF HonestOK

Ready(r) == [r EXCEPT !.pc = "reply"]

\* The export is over.
LEMMA ReplyOK ==
  ASSUME Inv, NEW s \in Streams, tx[s].pc = "export", ~In(s, queue), NEW t,
         t.items = Items(tx[s].job)
  PROVE  LET r == Ready(tx[s])
         IN  /\ r \in Handlers /\ r.op = "put" /\ r.path = tx[s].path /\ r.held = tx[s].held /\ r.pc = "reply"
             /\ SentOK(r) /\ HoldOK(r, FALSE) /\ HonestOK(s, r, store)
             /\ ~Contended(s) => PlaceOK(s, r, t)
<1> DEFINE r == Ready(tx[s])
<1>1. /\ tx[s] \in Handlers /\ SentOK(tx[s]) /\ HonestOK(s, tx[s], store) /\ tx[s].op = "put"
      /\ HoldOK(tx[s], In(s, queue)) /\ tx[s].job \in Jobs /\ tx[s].path \in Paths
      /\ s \notin Strangers => tx[s].received = Total(tx[s].job) /\ Items(tx[s].job) \subseteq store
  BY ExportFacts
<1>2. /\ r \in Handlers /\ r.op = "put" /\ r.path = tx[s].path /\ r.held = tx[s].held /\ r.pc = "reply"
      /\ r.need = tx[s].need /\ r.mem = tx[s].mem /\ r.left = tx[s].left /\ r.job = tx[s].job
      /\ r.received = tx[s].received /\ r.told = tx[s].told /\ r.fault = tx[s].fault
  BY <1>1 DEF Handlers, Places, Ready
<1>3. SentOK(r)
  BY <1>1, <1>2 DEF SentOK
<1>4. HoldOK(r, FALSE)
  <2>1. Share(r) = Share(tx[s])
    BY <1>2 DEF Share
  <2> QED
    BY <1>1, <1>2, <2>1 DEF HoldOK
<1>5. HonestOK(s, r, store)
  BY <1>1, <1>2 DEF HonestOK
<1>6. ~Contended(s) => PlaceOK(s, r, t)
  <2>1. ~Contended(s) => PlaceOK(s, tx[s], target[tx[s].path])
    BY <1>1 DEF Inv, PlaceInv
  <2> QED
    BY <1>2, <2>1 DEF PlaceOK
<1> QED
  BY <1>2, <1>3, <1>4, <1>5, <1>6

\* Contention is not ended by a handler that goes on.
LEMMA SameRivals ==
  ASSUME Inv, NEW s \in Streams, NEW r \in Handlers, tx' = [tx EXCEPT ![s] = r], r.path = tx[s].path,
         ~Contended(s)'
  PROVE  ~Contended(s)
<1>1. tx'[s] = r /\ \A o \in Streams \ {s} : tx'[o] = tx[o]
  BY DEF Inv, TypeInv
<1> QED
  BY <1>1 DEF Contended

\* An upload that fails without a rival had its destination for itself.
LEMMA FailRivals ==
  ASSUME Inv, NEW s \in Streams, NEW r \in Handlers, Fails(s, r), r.op = "put", tx[s].op = "put",
         r.path = tx[s].path, ~Contended(s)'
  PROVE  PlaceOK(s, tx[s], target[tx[s].path])
<1>1. PICK a \in Answers : tx' = [tx EXCEPT ![s] = Last(s, r, a)]
  BY DEF Fails, Ends, Goes, Last, Answers
<1>2. Last(s, r, a) \in Handlers /\ Last(s, r, a).op = r.op /\ Last(s, r, a).path = r.path
  BY LastHandler
<1> QED
  BY <1>1, <1>2, Rivals

\* A raw blob is exported.
LEMMA ExportFileKeeps ==
  ASSUME Inv, NEW s \in Streams, ExportFile(s)
  PROVE  Inv'
<1> DEFINE r == tx[s]
           q == Ready(r)
<1>1. r.pc = "export" /\ ~In(s, queue) /\ Raw(r)
  BY NotWaiting DEF ExportFile, Raw
<1>2. \/ target[r.path].kind = "dir" /\ Fails(s, r)
      \/ /\ Goes(s, q) /\ Put(r.path, "file", Items(r.job)) /\ UNCHANGED <<queue, store, lost, grown>>
  BY DEF ExportFile, Ready
<1>3. r \in Handlers /\ r.op = "put" /\ r.job \in Jobs /\ r.path \in Paths
  BY <1>1, ExportFacts
<1>4. CASE target[r.path].kind = "dir" /\ Fails(s, r)
  <2>1. Contended(s)'
    <3> SUFFICES ASSUME ~Contended(s)' PROVE FALSE
      OBVIOUS
    <3>1. PlaceOK(s, r, target[r.path])
      BY <1>3, <1>4, FailRivals
    <3> QED
      BY <1>1, <1>4, <3>1 DEF PlaceOK, Vacant
  <2> QED
    BY <1>1, <1>3, <1>4, <2>1, FailsKeeps
<1>5. CASE Goes(s, q) /\ Put(r.path, "file", Items(r.job)) /\ UNCHANGED <<queue, store, lost, grown>>
  <2> DEFINE t == [kind |-> "file", items |-> Items(r.job)]
  <2>1. t.items = Items(r.job) /\ Items(r.job) \in SUBSET (Jobs \X Nat)
    BY <1>3, ItemsFacts
  <2>2. /\ q \in Handlers /\ q.op = "put" /\ q.path = r.path /\ q.held = r.held /\ q.pc = "reply"
        /\ SentOK(q) /\ HoldOK(q, FALSE) /\ HonestOK(s, q, store) /\ (~Contended(s) => PlaceOK(s, q, t))
    BY <1>1, <2>1, ReplyOK
  <2> HIDE DEF q
  <2>3. ~Contended(s)' => PlaceOK(s, q, t)
    BY <1>5, <2>2, SameRivals DEF Goes
  <2> QED
    BY <1>1, <1>3, <1>5, <2>1, <2>2, <2>3, PutsKeeps
<1> QED
  BY <1>2, <1>4, <1>5

\* The destination is made, or a file of the collection is exported.
LEMMA ExportItemKeeps ==
  ASSUME Inv, NEW s \in Streams, ExportItem(s)
  PROVE  Inv'
<1> DEFINE r == tx[s]
           last == Len(Sizes[r.job]) - 1
           more == [r EXCEPT !.blob = r.blob + 1]
           q == [r EXCEPT !.pc = "reply"]
<1>1. r.pc = "export" /\ ~In(s, queue) /\ ~Raw(r)
  BY NotWaiting DEF ExportItem, Raw
<1>2. \/ target[r.path].kind = "file" /\ Fails(s, r)
      \/ target[r.path] = Vacant /\ Put(r.path, "dir", {}) /\ UNCHANGED <<tx, free, queue, store, lost, grown>>
      \/ target[r.path].kind = "dir" /\ r.blob <= last /\ ~CanExport(r) /\ Fails(s, r)
      \/ /\ target[r.path].kind = "dir" /\ r.blob <= last
         /\ Put(r.path, "dir", target[r.path].items \cup {<<r.job, r.blob>>})
         /\ Goes(s, more) /\ UNCHANGED <<queue, store, lost, grown>>
      \/ /\ target[r.path].kind = "dir" /\ r.blob > last /\ Goes(s, q)
         /\ UNCHANGED <<queue, store, target, lost, grown>>
  BY DEF ExportItem
<1>3. /\ r \in Handlers /\ r.op = "put" /\ r.job \in Jobs /\ r.path \in Paths /\ r.blob \in Blobs(r.job)
      /\ SentOK(r) /\ HonestOK(s, r, store) /\ HoldOK(r, FALSE) /\ target[r.path] \in Targets
      /\ s \notin Strangers => Items(r.job) \subseteq store
  <2>1. HoldOK(r, In(s, queue))
    BY <1>1, ExportFacts
  <2>2. HoldOK(r, FALSE)
    BY <1>1, <2>1 DEF HoldOK
  <2> QED
    BY <1>1, <2>2, ExportFacts
<1>4. /\ Len(Sizes[r.job]) \in Nat \ {0} /\ r.blob \in Nat \ {0} /\ r.blob <= Len(Sizes[r.job])
      /\ last \in Nat /\ Format[r.job] = "hashseq"
  BY <1>1, <1>3, JobFacts DEF Blobs, Raw
<1>5. /\ Items(r.job) = Before(r.job, last + 1) /\ Before(r.job, 1) = {}
      /\ Before(r.job, r.blob + 1) = Before(r.job, r.blob) \cup {<<r.job, r.blob>>}
      /\ <<r.job, r.blob>> \in Jobs \X Nat
  <2>1. last + 1 = Len(Sizes[r.job])
    BY <1>4
  <2>2. Items(r.job) = Before(r.job, Len(Sizes[r.job])) /\ Before(r.job, 1) = {}
    BY <1>3, <1>4, ItemsFacts
  <2>3. \A b \in Nat : Before(r.job, b + 1) = Before(r.job, b) \cup (IF b = 0 THEN {} ELSE {<<r.job, b>>})
    BY <1>3, ItemsFacts
  <2>4. r.blob \in Nat /\ r.blob # 0
    BY <1>4
  <2>5. Before(r.job, r.blob + 1) = Before(r.job, r.blob) \cup {<<r.job, r.blob>>}
    BY <2>3, <2>4
  <2>6. <<r.job, r.blob>> \in Jobs \X Nat
    BY <1>3, <2>4
  <2> QED
    BY <2>1, <2>2, <2>5, <2>6
<1>6. ~Contended(s) => PlaceOK(s, r, target[r.path])
  BY <1>3 DEF Inv, PlaceInv
<1> HIDE DEF q, more, last
<1>7. CASE target[r.path].kind = "file" /\ Fails(s, r)
  <2>1. Contended(s)'
    <3> SUFFICES ASSUME ~Contended(s)' PROVE FALSE
      OBVIOUS
    <3>1. PlaceOK(s, r, target[r.path])
      BY <1>3, <1>7, FailRivals
    <3> QED
      BY <1>1, <1>7, <3>1 DEF PlaceOK, Vacant
  <2> QED
    BY <1>1, <1>3, <1>7, <2>1, FailsKeeps
<1>8. CASE target[r.path] = Vacant /\ Put(r.path, "dir", {}) /\ UNCHANGED <<tx, free, queue, store, lost, grown>>
  <2>1. Goes(s, r)
    <3>1. r.held \in Nat /\ free \in Nat /\ tx \in [Streams -> Handlers]
      BY <1>3, Numbers DEF Inv, TypeInv
    <3> QED
      BY <1>8, <3>1 DEF Goes
  <2>2. ASSUME ~Contended(s)' PROVE PlaceOK(s, r, [kind |-> "dir", items |-> {}])
    <3>1. PlaceOK(s, r, target[r.path])
      BY <1>3, <1>6, <2>1, <2>2, SameRivals DEF Goes
    <3>2. r.blob = 1 /\ r.told = "none"
      BY <1>1, <1>3, <1>8, <3>1 DEF PlaceOK, Vacant, SentOK
    <3> QED
      BY <1>1, <1>5, <3>2 DEF PlaceOK
  <2>3. {} \in SUBSET (Jobs \X Nat) /\ "dir" \in {"none", "file", "dir"}
    OBVIOUS
  <2> QED
    BY <1>1, <1>3, <1>8, <2>1, <2>2, <2>3, PutsKeeps
<1>9. CASE target[r.path].kind = "dir" /\ r.blob <= last /\ ~CanExport(r) /\ Fails(s, r)
  <2>1. s \in Strangers
    <3>1. <<r.job, r.blob>> \in Items(r.job)
      BY <1>4, <1>9 DEF Items, last
    <3> QED
      BY <1>3, <1>9, <3>1 DEF CanExport
  <2> QED
    BY <1>1, <1>3, <1>9, <2>1, FailsKeeps
<1>10. CASE /\ target[r.path].kind = "dir" /\ r.blob <= last
            /\ Put(r.path, "dir", target[r.path].items \cup {<<r.job, r.blob>>})
            /\ Goes(s, more) /\ UNCHANGED <<queue, store, lost, grown>>
  <2> DEFINE items == target[r.path].items \cup {<<r.job, r.blob>>}
  <2>1. items \in SUBSET (Jobs \X Nat) /\ "dir" \in {"none", "file", "dir"}
    BY <1>3, <1>5 DEF Targets
  <2>2. /\ more \in Handlers /\ more.blob = r.blob + 1 /\ more.pc = "export" /\ more.op = "put"
        /\ more.path = r.path /\ more.job = r.job /\ more.held = r.held /\ more.mem = r.mem
        /\ more.left = r.left /\ more.need = r.need /\ more.received = r.received
        /\ more.told = r.told /\ more.fault = r.fault
    <3>1. r.blob + 1 \in Nat
      BY <1>4
    <3> QED
      BY <1>1, <1>3, <3>1 DEF Handlers, more
  <2>3. r.blob + 1 \in Blobs(r.job)
    BY <1>4, <1>10 DEF Blobs, last
  <2>4. SentOK(more)
    BY <1>1, <1>3, <2>2, <2>3 DEF SentOK
  <2>5. HoldOK(more, FALSE)
    <3>1. Share(more) = Share(r)
      BY <2>2 DEF Share
    <3> QED
      BY <1>1, <1>3, <2>2, <3>1 DEF HoldOK
  <2>6. HonestOK(s, more, store)
    BY <1>1, <1>3, <2>2 DEF HonestOK
  <2>7. ASSUME ~Contended(s)' PROVE PlaceOK(s, more, [kind |-> "dir", items |-> items])
    <3>1. PlaceOK(s, r, target[r.path])
      BY <1>6, <1>10, <2>2, <2>7, SameRivals DEF Goes
    <3>2. target[r.path].items = Before(r.job, r.blob)
      BY <1>1, <1>10, <3>1 DEF PlaceOK, Vacant
    <3>3. items = Before(more.job, more.blob)
      BY <1>5, <2>2, <3>2
    <3>4. ~Raw(more) /\ more.told = "none"
      BY <1>1, <1>3, <2>2 DEF Raw, SentOK
    <3> HIDE DEF items
    <3> QED
      BY <1>1, <2>2, <3>3, <3>4 DEF PlaceOK
  <2> HIDE DEF items
  <2>8. Put(more.path, "dir", items)
    BY <1>10, <2>2 DEF items
  <2> QED
    BY <1>1, <1>3, <1>10, <2>1, <2>2, <2>4, <2>5, <2>6, <2>7, <2>8, PutsKeeps
<1>11. CASE /\ target[r.path].kind = "dir" /\ r.blob > last /\ Goes(s, q)
            /\ UNCHANGED <<queue, store, target, lost, grown>>
  <2>1. r.blob = last + 1
    BY <1>4, <1>11 DEF last
  <2>0. q = Ready(tx[s])
    BY DEF q, Ready
  <2>2. q \in Handlers /\ q.path = r.path
    BY <1>3 DEF q, Handlers, Places
  <2> DEFINE t == IF Contended(s) THEN [kind |-> "dir", items |-> Items(r.job)] ELSE target[r.path]
  <2>3. t.items = Items(r.job)
    <3>1. CASE Contended(s)
      BY <3>1
    <3>2. CASE ~Contended(s)
      BY <1>1, <1>5, <1>6, <1>11, <2>1, <3>2 DEF PlaceOK, Vacant
    <3> QED
      BY <3>1, <3>2
  <2>4. ~Contended(s) => t = target[r.path]
    OBVIOUS
  <2> HIDE DEF t
  <2>5. /\ q.op = "put" /\ q.held = r.held /\ q.pc = "reply"
        /\ SentOK(q) /\ HoldOK(q, FALSE) /\ HonestOK(s, q, store) /\ (~Contended(s) => PlaceOK(s, q, t))
    <3>1. tx[s].pc = "export" /\ ~In(s, queue) /\ t.items = Items(tx[s].job) /\ q = Ready(tx[s])
      BY <1>1, <2>0, <2>3
    <3> QED
      BY <3>1, ReplyOK
  <2>6. ~Contended(s)' => PlaceOK(s, q, target[q.path])
    BY <1>11, <2>2, <2>4, <2>5, SameRivals DEF Goes
  <2>7. Over(q) = 0 /\ q.held <= r.held
    <3>1. q.held \in Nat /\ q.held <= q.held
      BY <2>2, Numbers
    <3>2. Over(q) = 0
      BY <2>2, <2>5, Covered
    <3> QED
      BY <2>5, <3>1, <3>2
  <2>8. store \subseteq store' /\ store' \in SUBSET (Jobs \X Nat) /\ HonestOK(s, q, store')
    BY <1>11, <2>5, StreamFacts
  <2> QED
    BY <1>1, <1>3, <1>11, <2>2, <2>5, <2>6, <2>7, <2>8, GoesKeeps
<1> QED
  BY <1>2, <1>7, <1>8, <1>9, <1>10, <1>11

\* The disk fails.
LEMMA ExportFailsKeeps ==
  ASSUME Inv, NEW s \in Streams, ExportFails(s)
  PROVE  Inv'
<1> DEFINE r == [tx[s] EXCEPT !.fault = TRUE]
<1>1. tx[s].pc = "export" /\ ~In(s, queue) /\ Ends(s, r, "error") /\ UNCHANGED <<queue, store, lost, grown>>
  BY NotWaiting DEF ExportFails
<1>2. tx[s] \in Handlers /\ tx[s].op = "put" /\ tx[s].job \in Jobs /\ tx[s].path \in Paths
  BY <1>1, ExportFacts
<1>3. r \in Handlers /\ r.op = "put" /\ r.job \in Jobs /\ r.path = tx[s].path /\ r.fault
  BY <1>2 DEF Handlers
<1>4. target' = target \/ Put(r.path, "file", {})
  BY <1>3 DEF ExportFails
<1> HIDE DEF r
<1>5. /\ target' \in [Paths -> Targets]
      /\ \A p \in Paths : target'[p] # target[p] => r.op = "put" /\ r.path = p
  <2>1. target \in [Paths -> Targets] /\ [kind |-> "file", items |-> {}] \in Targets
    BY StreamFacts DEF Targets
  <2> QED
    BY <1>3, <1>4, <2>1 DEF Put
<1>6. "error" \in Answers
  BY DEF Answers
<1> QED
  BY <1>1, <1>2, <1>3, <1>5, <1>6, EndsKeeps

\* A request for a download, accepted or refused.
LEMMA GetBeginsKeeps ==
  ASSUME Inv, NEW s \in Streams, NEW j \in Downloads, GetRequest(s, j) \/ GetRejected(s, j)
  PROVE  Inv'
<1> DEFINE f == [Fresh EXCEPT !.op = "get", !.job = j, !.fault = TRUE]
           r == [Fresh EXCEPT !.op = "get", !.job = j, !.pc = IF Format[j] = "raw" THEN "add" ELSE "stat"]
<1>1. /\ tx[s].pc = "new" /\ ~In(s, queue)
      /\ Fails(s, f) \/ (Goes(s, r) /\ UNCHANGED <<queue, store, target, lost, grown>>)
  BY NotWaiting DEF GetRequest, GetRejected
<1>2. j \in Jobs
  BY BlobsAssumption
<1>3. f \in Handlers /\ f.op = "get" /\ f.job = j /\ f.fault
  BY <1>2, FreshHandler DEF Handlers, Fresh
<1>4. /\ r \in Handlers /\ r.op = "get" /\ r.job = j /\ r.pc \in {"add", "stat"} /\ r.blob = 1
      /\ r.need = 0 /\ r.held = 0 /\ r.mem = 0 /\ r.left = 0 /\ r.told = "none"
  BY <1>2, FreshHandler DEF Handlers, Fresh, Places
<1> HIDE DEF f, r
<1>5. CASE Fails(s, f)
  BY <1>1, <1>2, <1>3, <1>5, FailsKeeps
<1>6. CASE Goes(s, r) /\ UNCHANGED <<queue, store, target, lost, grown>>
  <2>1. 1 \in Blobs(j)
    BY <1>2, JobFacts DEF Blobs
  <2>2. SentOK(r)
    BY <1>2, <1>4, <2>1 DEF SentOK
  <2>3. tx[s].held \in Nat /\ Unit \in Nat \ {0} /\ Budget \in Nat /\ Share(r) = 0
    BY <1>4, StreamFacts, Numbers, BlobsAssumption, BudgetBytes DEF Share
  <2>4. HoldOK(r, FALSE)
    BY <1>4, <2>3 DEF HoldOK
  <2>5. Over(r) = 0 /\ r.held <= tx[s].held
    BY <1>4, <2>3 DEF Over
  <2>6. store \subseteq store' /\ store' \in SUBSET (Jobs \X Nat) /\ HonestOK(s, r, store')
    BY <1>4, <1>6, StreamFacts DEF HonestOK
  <2> QED
    BY <1>1, <1>4, <1>6, <2>2, <2>4, <2>5, <2>6, GoesKeeps
<1> QED
  BY <1>1, <1>5, <1>6

\* A handler of a download.
LEMMA GetFacts ==
  ASSUME Inv, NEW s \in Streams, tx[s].pc \in {"stat", "read", "keep", "add"}, ~In(s, queue)
  PROVE  /\ tx[s] \in Handlers /\ tx[s].op = "get" /\ tx[s].job \in Jobs /\ SentOK(tx[s])
         /\ HoldOK(tx[s], FALSE) /\ tx[s].need = 0 /\ tx[s].told = "none"
<1>1. tx[s] \in Handlers /\ SentOK(tx[s]) /\ HoldOK(tx[s], In(s, queue))
  BY StreamFacts
<1>2. tx[s].op = "get" /\ tx[s].job \in Jobs /\ tx[s].told = "none"
  BY <1>1 DEF SentOK
<1>3. HoldOK(tx[s], FALSE) /\ tx[s].need = 0
  BY <1>1 DEF HoldOK
<1> QED
  BY <1>1, <1>2, <1>3

\* A file that cannot be measured, read or stored.
LEMMA GetFailsKeeps ==
  ASSUME Inv, NEW s \in Streams, GetFails(s)
  PROVE  Inv'
<1> DEFINE r == [tx[s] EXCEPT !.fault = TRUE]
<1>1. tx[s].pc \in {"stat", "read", "keep", "add"} /\ ~In(s, queue) /\ Fails(s, r)
  BY NotWaiting DEF GetFails
<1>2. tx[s] \in Handlers /\ tx[s].op = "get" /\ tx[s].job \in Jobs
  BY <1>1, GetFacts
<1>3. r \in Handlers /\ r.op = "get" /\ r.job \in Jobs /\ r.path = tx[s].path
  BY <1>2 DEF Handlers
<1> HIDE DEF r
<1> QED
  BY <1>1, <1>2, <1>3, FailsKeeps

\* A step of a download that keeps or gives back what it has.
LEMMA GetGoesKeeps ==
  ASSUME Inv, NEW s \in Streams, NEW r \in Handlers, Goes(s, r), ~In(s, queue),
         tx[s].pc \in {"stat", "read", "keep", "add"}, r.op = "get", r.path = tx[s].path,
         r.held <= tx[s].held, r.pc # "keep", SentOK(r), HoldOK(r, FALSE),
         UNCHANGED <<queue, target, lost, grown>>, store \subseteq store',
         store' \in SUBSET (Jobs \X Nat)
  PROVE  Inv'
<1>1. tx[s].op = "get"
  BY GetFacts
<1>2. Over(r) = 0
  BY Covered
<1>3. HonestOK(s, r, store')
  BY DEF HonestOK
<1> QED
  BY <1>1, <1>2, <1>3, GoesKeeps

\* A file is measured.
LEMMA StatFileKeeps ==
  ASSUME Inv, NEW s \in Streams, StatFile(s)
  PROVE  Inv'
<1> DEFINE r == tx[s]
           last == Len(Sizes[r.job]) - 1
           q == [r EXCEPT !.pc = "add"]
           u == [r EXCEPT !.pc = "read"]
           n == Sizes[r.job][r.blob]
<1>1. r.pc = "stat" /\ ~In(s, queue) /\ UNCHANGED <<store, target, lost, grown>>
  BY NotWaiting DEF StatFile
<1>2. \/ Goes(s, q) /\ UNCHANGED queue
      \/ Ends(s, r, "error") /\ UNCHANGED queue
      \/ r.blob <= last /\ n <= Cap /\ Acquires(s, u, n)
  BY DEF StatFile
<1>3. /\ r \in Handlers /\ r.op = "get" /\ r.job \in Jobs /\ SentOK(r) /\ HoldOK(r, FALSE)
      /\ r.need = 0 /\ r.told = "none"
  BY <1>1, GetFacts
<1>4. r.held = 0 /\ r.mem = 0 /\ r.left = 0
  BY <1>1, <1>3 DEF HoldOK
<1>5. r.blob \in Blobs(r.job) /\ n \in Nat /\ Sizes[r.job][1] \in Nat /\ Len(Sizes[r.job]) \in Nat /\ r.blob \in Nat \ {0}
  <2>1. r.blob \in Blobs(r.job) /\ 1 \in Blobs(r.job) /\ Len(Sizes[r.job]) \in Nat
    BY <1>1, <1>3, JobFacts DEF SentOK, Blobs
  <2> QED
    BY <1>3, <2>1, JobFacts
<1>6. /\ q \in Handlers /\ q.pc = "add" /\ q.op = "get" /\ q.job = r.job /\ q.path = r.path
      /\ q.need = 0 /\ q.held = 0 /\ q.mem = 0 /\ q.left = 0 /\ q.told = "none"
  BY <1>3, <1>4 DEF Handlers, Places
<1>7. /\ u \in Handlers /\ u.pc = "read" /\ u.op = "get" /\ u.job = r.job /\ u.path = r.path
      /\ u.need = 0 /\ u.held = 0 /\ u.mem = 0 /\ u.left = 0 /\ u.told = "none" /\ u.blob = r.blob
  BY <1>3, <1>4 DEF Handlers, Places
<1> HIDE DEF q, u
<1>8. CASE Goes(s, q) /\ UNCHANGED queue
  <2>1. SentOK(q)
    BY <1>3, <1>6 DEF SentOK
  <2>2. Budget \in Nat /\ Share(q) = 0
    BY <1>6, BudgetBytes, BlobsAssumption DEF Share
  <2>3. HoldOK(q, FALSE) /\ q.held <= r.held
    BY <1>4, <1>6, <2>2 DEF HoldOK
  <2>4. store \subseteq store' /\ store' \in SUBSET (Jobs \X Nat)
    BY <1>1, StreamFacts
  <2> QED
    BY <1>1, <1>6, <1>8, <2>1, <2>3, <2>4, GetGoesKeeps
<1>9. CASE Ends(s, r, "error") /\ UNCHANGED queue
  <2>1. Fails(s, r)
    BY <1>1, <1>9 DEF Fails
  <2> QED
    BY <1>1, <1>3, <2>1, FailsKeeps
<1>10. CASE r.blob <= last /\ n <= Cap /\ Acquires(s, u, n)
  <2>1. r.blob \in 1 .. Len(Sizes[r.job]) - 1
    BY <1>5, <1>10
  <2>2. SentOK(u)
    BY <1>3, <1>7, <2>1 DEF SentOK
  <2>3. HonestOK(s, u, store)
    BY <1>7 DEF HonestOK
  <2>4. Sizes[u.job][u.blob] = n /\ Sizes[u.job][1] \in Nat /\ n <= n /\ u.left <= n /\ n \in Nat
    BY <1>5, <1>7
  <2> HIDE DEF n
  <2> QED
    BY <1>1, <1>3, <1>7, <1>10, <2>2, <2>3, <2>4, AcquiresKeeps
<1> QED
  BY <1>2, <1>8, <1>9, <1>10

\* The file is read: what it has grown by is not covered.
LEMMA ReadFileKeeps ==
  ASSUME Inv, NEW s \in Streams, NEW more \in 0 .. MaxGrowth, ReadFile(s, more)
  PROVE  Inv'
<1> DEFINE r == tx[s]
           n == Sizes[r.job][r.blob]
           q == [r EXCEPT !.pc = "keep", !.mem = n + more]
<1>1. /\ r.pc = "read" /\ ~In(s, queue) /\ grown + more <= MaxGrowth /\ Goes(s, q)
      /\ grown' = grown + more /\ UNCHANGED <<queue, store, target, lost>>
  BY NotWaiting DEF ReadFile
<1>2. /\ r \in Handlers /\ r.op = "get" /\ r.job \in Jobs /\ SentOK(r) /\ HoldOK(r, FALSE)
      /\ r.need = 0 /\ r.told = "none"
  BY <1>1, GetFacts
<1>3. r.blob \in 1 .. Len(Sizes[r.job]) - 1 /\ r.mem = 0 /\ n <= Share(r) /\ r.left = 0
  BY <1>1, <1>2 DEF SentOK, HoldOK
<1>4. n \in Nat
  <2>1. r.blob \in Blobs(r.job)
    BY <1>2, <1>3, JobFacts DEF Blobs
  <2> QED
    BY <1>2, <2>1, JobFacts
<1>5. more \in Nat /\ grown \in Nat /\ free \in Nat /\ r.held \in Nat /\ Unit \in Nat \ {0} /\ Budget \in Nat
  BY <1>2, Numbers, StreamFacts, BlobsAssumption, BudgetBytes
<1>6. /\ q \in Handlers /\ q.pc = "keep" /\ q.op = "get" /\ q.job = r.job /\ q.path = r.path /\ q.left = 0
      /\ q.need = 0 /\ q.held = r.held /\ q.mem = n + more /\ q.blob = r.blob /\ q.told = "none"
  <2>1. n + more \in Nat
    BY <1>4, <1>5
  <2> HIDE DEF n
  <2> QED
    BY <1>2, <1>3, <2>1 DEF Handlers, Places
<1> HIDE DEF q, n
<1>7. SentOK(q)
  BY <1>2, <1>3, <1>6 DEF SentOK
<1>8. HoldOK(q, In(s, queue')) /\ QueueStep(s)
  <2>1. ~In(s, queue') /\ QueueStep(s)
    BY <1>1 DEF In, QueueStep
  <2> QED
    BY <1>5, <1>6, <2>1 DEF HoldOK
<1>9. HonestOK(s, q, store')
  BY <1>6 DEF HonestOK
<1>10. Over(q) + grown <= Over(r) + grown'
  <2> DEFINE z == r.held * Unit
  <2>1. z \in Nat /\ n <= z
    <3>1. Share(r) = z
      BY <1>2, <1>5 DEF Share
    <3> QED
      BY <1>3, <1>5, <3>1, Multiples
  <2>2. Over(q) = (IF q.mem > z THEN q.mem - z ELSE 0) /\ Over(r) \in Nat
    BY <1>2, <1>6, AllowanceFacts DEF Over
  <2> HIDE DEF z
  <2> QED
    BY <1>1, <1>4, <1>5, <1>6, <2>1, <2>2
<1>11. /\ q.held <= r.held + free /\ store \subseteq store' /\ store' \in SUBSET (Jobs \X Nat)
       /\ target' \in [Paths -> Targets] /\ lost' \in SUBSET Streams /\ grown' \in 0 .. MaxGrowth
  <2>1. grown' \in 0 .. MaxGrowth
    BY <1>1, <1>5, BlobsAssumption
  <2> QED
    BY <1>1, <1>5, <1>6, <2>1, StreamFacts
<1>12. /\ tx' = [tx EXCEPT ![s] = q] /\ free' = free + tx[s].held - q.held
       /\ \A p \in Paths : target'[p] # target[p] => q.op = "put" /\ q.path = p
       /\ q.op = tx[s].op /\ q.path = tx[s].path
  BY <1>1, <1>2, <1>6 DEF Goes
<1> QED
  BY <1>6, <1>7, <1>8, <1>9, <1>10, <1>11, <1>12, StepKeeps

\* It goes to the store, and its share is given back.
LEMMA KeepFileKeeps ==
  ASSUME Inv, NEW s \in Streams, KeepFile(s)
  PROVE  Inv'
<1> DEFINE r == tx[s]
           q == [Release(r) EXCEPT !.pc = "stat", !.blob = r.blob + 1]
<1>1. r.pc = "keep" /\ ~In(s, queue)
  BY NotWaiting DEF KeepFile
<1>2. /\ r \in Handlers /\ r.op = "get" /\ r.job \in Jobs /\ SentOK(r) /\ HoldOK(r, FALSE)
      /\ r.need = 0 /\ r.told = "none"
  BY <1>1, GetFacts
<1>3. r.blob \in 1 .. Len(Sizes[r.job]) - 1 /\ r.left = 0
  BY <1>1, <1>2 DEF SentOK, HoldOK
<1>4. r.blob + 1 \in Blobs(r.job) /\ r.blob + 1 \in Nat /\ <<r.job, r.blob>> \in Jobs \X Nat
  BY <1>2, <1>3, JobFacts DEF Blobs
<1>5. /\ q = [r EXCEPT !.held = 0, !.mem = 0, !.pc = "stat", !.blob = r.blob + 1]
      /\ Goes(s, q) /\ store' = store \cup {<<r.job, r.blob>>} /\ UNCHANGED <<queue, target, lost, grown>>
  <2>1. Release(r).blob = r.blob
    BY <1>2 DEF Release, Handlers
  <2>2. q = [r EXCEPT !.held = 0, !.mem = 0, !.pc = "stat", !.blob = r.blob + 1]
    BY DEF Release
  <2> QED
    BY <2>1, <2>2 DEF KeepFile
<1> HIDE DEF q
<1>6. /\ q \in Handlers /\ q.pc = "stat" /\ q.op = "get" /\ q.job = r.job /\ q.path = r.path /\ q.left = 0
      /\ q.need = 0 /\ q.held = 0 /\ q.mem = 0 /\ q.blob = r.blob + 1 /\ q.told = "none"
  BY <1>2, <1>3, <1>4, <1>5 DEF Handlers, Places
<1>7. SentOK(q)
  BY <1>2, <1>4, <1>6 DEF SentOK
<1>8. HoldOK(q, FALSE) /\ q.held <= r.held
  <2>1. Budget \in Nat /\ Share(q) = 0 /\ r.held \in Nat
    BY <1>2, <1>6, BudgetBytes, BlobsAssumption, Numbers DEF Share
  <2> QED
    BY <1>6, <2>1 DEF HoldOK
<1>9. store \subseteq store' /\ store' \in SUBSET (Jobs \X Nat)
  BY <1>4, <1>5, StreamFacts
<1> QED
  BY <1>1, <1>5, <1>6, <1>7, <1>8, <1>9, GetGoesKeeps

\* The collection, or the single file.
LEMMA AddRootKeeps ==
  ASSUME Inv, NEW s \in Streams, AddRoot(s)
  PROVE  Inv'
<1> DEFINE r == tx[s]
           q == [r EXCEPT !.pc = "reply"]
<1>1. /\ r.pc = "add" /\ ~In(s, queue) /\ Goes(s, q) /\ store' = store \cup {Root(r.job)}
      /\ UNCHANGED <<queue, target, lost, grown>>
  BY NotWaiting DEF AddRoot
<1>2. /\ r \in Handlers /\ r.op = "get" /\ r.job \in Jobs /\ SentOK(r) /\ HoldOK(r, FALSE)
      /\ r.need = 0 /\ r.told = "none"
  BY <1>1, GetFacts
<1>3. /\ q \in Handlers /\ q.pc = "reply" /\ q.op = "get" /\ q.job = r.job /\ q.path = r.path /\ q.left = r.left
      /\ q.need = 0 /\ q.held = r.held /\ q.mem = r.mem /\ q.told = "none"
  BY <1>2 DEF Handlers, Places
<1> HIDE DEF q
<1>4. SentOK(q)
  BY <1>2, <1>3 DEF SentOK
<1>5. HoldOK(q, FALSE) /\ q.held <= r.held
  <2>1. Share(q) = Share(r) /\ r.held \in Nat
    BY <1>2, <1>3, Numbers DEF Share
  <2> QED
    BY <1>1, <1>2, <1>3, <2>1 DEF HoldOK
<1>6. store \subseteq store' /\ store' \in SUBSET (Jobs \X Nat)
  <2>1. Root(r.job) \in Jobs \X Nat
    BY <1>2, JobFacts DEF Root
  <2> QED
    BY <1>1, <2>1, StreamFacts
<1> QED
  BY <1>1, <1>3, <1>4, <1>5, <1>6, GetGoesKeeps

\* The answer to a download.
LEMMA GetReplyKeeps ==
  ASSUME Inv, NEW s \in Streams, NEW fetched \in BOOLEAN, GetReply(s, fetched)
  PROVE  Inv'
<1> DEFINE r == [tx[s] EXCEPT !.fault = ~fetched]
           answer == IF fetched /\ Items(tx[s].job) \subseteq store THEN "ok" ELSE "error"
<1>1. /\ tx[s].pc = "reply" /\ ~In(s, queue) /\ tx[s].op = "get" /\ Ends(s, r, answer)
      /\ UNCHANGED <<queue, store, target, lost, grown>>
  BY NotWaiting DEF GetReply
<1>2. tx[s] \in Handlers /\ SentOK(tx[s]) /\ target' \in [Paths -> Targets]
  BY <1>1, StreamFacts
<1>3. r \in Handlers /\ r.op = "get" /\ r.job = tx[s].job /\ r.path = tx[s].path
  BY <1>1, <1>2 DEF Handlers
<1>4. tx[s].job \in Jobs /\ answer \in Answers
  BY <1>1, <1>2 DEF SentOK, Answers
<1> HIDE DEF r, answer
<1> QED
  BY <1>1, <1>2, <1>3, <1>4, EndsKeeps

\* A connection goes away.
LEMMA LoseKeeps ==
  ASSUME Inv, NEW s \in Streams, Lose(s)
  PROVE  Inv'
<1>1. lost' \in SUBSET Streams /\ UNCHANGED <<tx, free, queue, store, target, grown>>
  BY StreamFacts DEF Lose
<1>2. TypeInv' /\ QueueInv' /\ BudgetInv' /\ PlaceInv'
  BY <1>1 DEF Inv, TypeInv, QueueInv, BudgetInv, Held, Allowed, PlaceInv, Contended, Taken
<1>3. \A o \in Streams : StreamInv(o)'
  BY <1>1 DEF Inv, StreamInv
<1> QED
  BY <1>2, <1>3 DEF Inv

-----------------------------------------------------------------------------
(***************************************************************************)
(* The frames of an upload.                                                *)
(***************************************************************************)
\* The smaller of two numbers.
LEMMA MinPair ==
  ASSUME NEW a \in Nat, NEW b \in Nat
  PROVE  Min({a, b}) \in {a, b} /\ Min({a, b}) <= a /\ Min({a, b}) <= b
<1>1. \E x \in {a, b} : \A y \in {a, b} : x <= y
  <2>1. CASE a <= b
    BY <2>1
  <2>2. CASE b <= a
    BY <2>2
  <2> QED
    BY <2>1, <2>2
<1> QED
  BY <1>1 DEF Min

\* where in its job the client of a collection is
Position(r) ==
  /\ r.blob \in 1 .. Len(Sizes[r.job]) + 1
  /\ IF r.blob = Len(Sizes[r.job]) + 1 THEN r.off = 0 ELSE r.off < Whole(r)

\* A frame of a client that follows the protocol is within the blob it is at.
LEMMA NextFrameFacts ==
  ASSUME NEW r \in Handlers, SentOK(r), r.pc = "recv"
  PROVE  LET f == NextFrame(r)
         IN  /\ f \in FrameSet /\ f.good = TRUE /\ f.kind \in {"chunk", "complete"}
             /\ f.kind = "complete" => AllSent(r)
             /\ f.kind = "chunk" =>
                  /\ ~AllSent(r) /\ r.blob \in Blobs(r.job) /\ Whole(r) \in Nat
                  /\ f.len \in Nat \ {0} /\ r.off + f.len <= Whole(r)
             /\ f.kind = "chunk" /\ ~Raw(r) /\ r.off = 0 =>
                  f = Frame("chunk", Prefix, Sizes[r.job][r.blob], TRUE)
<1> DEFINE f == NextFrame(r)
<1>1. r.op = "put" /\ r.job \in Jobs /\ r.off \in Nat /\ r.blob \in Nat
  BY Numbers DEF SentOK
<1>2. /\ Len(Sizes[r.job]) \in Nat \ {0} /\ (Raw(r) => Len(Sizes[r.job]) = 1) /\ Prefix \in Nat \ {0}
      /\ Chunk \in Nat \ {0} /\ Format[r.job] \in {"raw", "hashseq"}
      /\ \A b \in Blobs(r.job) : Sizes[r.job][b] \in Nat /\ Wide(r.job, b) \in Nat
  BY <1>1, JobFacts DEF Raw
<1>3. Whole(r) = Wide(r.job, r.blob)
  BY DEF Whole, Wide
<1>4. CASE AllSent(r)
  <2>1. f = Frame("complete", 0, 0, TRUE)
    BY <1>4 DEF NextFrame
  <2>2. f \in FrameSet /\ f.good = TRUE /\ f.kind = "complete"
    BY <2>1 DEF Frame, FrameSet
  <2> QED
    BY <1>4, <2>2
<1>5. CASE ~AllSent(r)
  <2>1. r.blob \in Blobs(r.job) /\ r.off < Whole(r)
    <3>1. CASE Raw(r)
      <4>1. r.blob = 1 /\ r.off <= Sizes[r.job][1] /\ 1 \in Blobs(r.job)
        BY <1>2, <3>1 DEF SentOK, Blobs
      <4>2. Whole(r) = Sizes[r.job][1] /\ r.off # Whole(r) /\ Sizes[r.job][1] \in Nat
        BY <1>2, <1>5, <3>1, <4>1 DEF Whole, AllSent, Raw
      <4> QED
        BY <1>1, <4>1, <4>2
    <3>2. CASE ~Raw(r)
      <4>1. Position(r)
        BY <3>2 DEF SentOK, Position
      <4>2. ~(r.blob > Len(Sizes[r.job]))
        BY <1>5, <3>2 DEF AllSent, Raw
      <4>3. r.blob \in 1 .. Len(Sizes[r.job]) /\ r.blob # Len(Sizes[r.job]) + 1
        BY <1>1, <1>2, <4>1, <4>2 DEF Position
      <4> QED
        BY <4>1, <4>3 DEF Position, Blobs
    <3> QED
      BY <3>1, <3>2
  <2>2. Whole(r) \in Nat /\ Sizes[r.job][r.blob] \in Nat
    BY <1>2, <1>3, <2>1
  <2>3. CASE ~Raw(r) /\ r.off = 0
    <3>1. f = Frame("chunk", Prefix, Sizes[r.job][r.blob], TRUE)
      BY <1>2, <1>5, <2>3 DEF NextFrame, Raw
    <3>2. f \in FrameSet /\ f.good = TRUE /\ f.kind = "chunk" /\ f.len = Prefix
      BY <1>2, <2>2, <3>1 DEF Frame, FrameSet
    <3>3. Whole(r) = Sizes[r.job][r.blob] + Prefix
      BY <2>3 DEF Whole, Raw
    <3>4. r.off + f.len <= Whole(r)
      BY <1>2, <2>2, <2>3, <3>2, <3>3
    <3> HIDE DEF f
    <3>5. f.len \in Nat \ {0}
      BY <1>2, <3>2
    <3>6. /\ f \in FrameSet /\ f.good = TRUE /\ f.kind = "chunk" /\ f.len \in Nat \ {0} /\ r.off + f.len <= Whole(r)
          /\ f = Frame("chunk", Prefix, Sizes[r.job][r.blob], TRUE)
      BY <3>1, <3>2, <3>4, <3>5
    <3> QED
      BY <1>5, <2>1, <2>2, <3>6 DEF f
  <2>4. CASE Raw(r) \/ r.off # 0
    <3> DEFINE n == Min({Chunk, Whole(r) - r.off})
    <3>1. Whole(r) - r.off \in Nat \ {0}
      BY <1>1, <2>1, <2>2
    <3>2. n \in {Chunk, Whole(r) - r.off} /\ n <= Whole(r) - r.off
      BY <1>2, <3>1, MinPair
    <3>3. f = Frame("chunk", n, 0, TRUE)
      BY <1>5, <2>4 DEF NextFrame, Raw
    <3> HIDE DEF n
    <3>4. n \in Nat \ {0} /\ r.off + n <= Whole(r)
      BY <1>1, <1>2, <2>2, <3>1, <3>2
    <3>5. f \in FrameSet /\ f.good = TRUE /\ f.kind = "chunk" /\ f.len = n
      BY <3>3, <3>4 DEF Frame, FrameSet
    <3> HIDE DEF f
    <3>6. f.len \in Nat \ {0} /\ r.off + f.len <= Whole(r)
      BY <3>4, <3>5
    <3>7. f \in FrameSet /\ f.good = TRUE /\ f.kind = "chunk" /\ f.len \in Nat \ {0} /\ r.off + f.len <= Whole(r)
      BY <3>5, <3>6
    <3> QED
      BY <1>5, <2>1, <2>2, <2>4, <3>7 DEF f
  <2> QED
    BY <2>3, <2>4
<1> QED
  BY <1>4, <1>5

\* A frame is the one that the protocol says, or one of a stranger's.
LEMMA FrameFacts ==
  ASSUME Inv, NEW s \in Streams, tx[s].pc = "recv", NEW f \in Frames(s)
  PROVE  /\ f \in FrameSet /\ (s \notin Strangers => f.good) /\ (f.good => f = NextFrame(tx[s]))
<1>1. f = NextFrame(tx[s]) \/ (s \in Strangers /\ f \in AnyFrame)
  <2>1. Frames(s) = {NextFrame(tx[s])} \cup (IF s \in Strangers THEN AnyFrame ELSE {})
    BY DEF Frames
  <2> QED
    BY <2>1
<1>2. tx[s] \in Handlers /\ SentOK(tx[s])
  BY StreamFacts
<1>3. CASE f = NextFrame(tx[s])
  BY <1>2, <1>3, NextFrameFacts
<1>4. CASE s \in Strangers /\ f \in AnyFrame
  <2>1. Prefix \in Nat /\ Chunk \in Nat /\ Cap \in Nat
    BY BlobsAssumption
  <2>2. f \in FrameSet /\ f.good = FALSE
    <3>1. Prefix + Chunk \in Nat /\ Cap + 1 \in Nat
      BY <2>1
    <3> DEFINE A == [kind : {"complete", "error", "other"}, len : {0}, decl : {0}, good : {FALSE}]
               n == {0, Prefix, Prefix + Chunk}
               d == {0, 1, Cap + 1}
               B == [kind : {"chunk"}, len : n, decl : d, good : {FALSE}]
    <3>2. n \subseteq Nat /\ d \subseteq Nat
      BY <2>1, <3>1
    <3>3. f \in A \/ f \in B
      BY <1>4 DEF AnyFrame
    <3> HIDE DEF n, d
    <3>4. CASE f \in A
      <4> DEFINE z == {0}
                 k == {"complete", "error", "other"}
                 K == {"none", "chunk", "complete", "error", "other"}
      <4>1. z \subseteq Nat /\ k \subseteq K
        OBVIOUS
      <4>2. f \in [kind : k, len : z, decl : z, good : {FALSE}]
        BY <3>4
      <4> HIDE DEF z, k, K
      <4>3. f \in [kind : K, len : Nat, decl : Nat, good : BOOLEAN] /\ f.good = FALSE
        BY <4>1, <4>2
      <4> QED
        BY <4>3 DEF FrameSet, K
    <3>5. CASE f \in B
      BY <3>2, <3>5 DEF FrameSet
    <3> QED
      BY <3>3, <3>4, <3>5
  <2> QED
    BY <1>4, <2>2
<1> QED
  BY <1>1, <1>3, <1>4

\* An upload that is receiving.
LEMMA RecvFacts ==
  ASSUME Inv, NEW s \in Streams, tx[s].pc \in {"recv", "chunk"}, ~In(s, queue)
  PROVE  /\ tx[s] \in Handlers /\ SentOK(tx[s]) /\ HoldOK(tx[s], FALSE) /\ HonestOK(s, tx[s], store)
         /\ tx[s].op = "put" /\ tx[s].job \in Jobs /\ tx[s].path \in Paths /\ tx[s].told = "none"
         /\ tx[s].need = 0 /\ (~Raw(tx[s]) => Position(tx[s]))
         /\ ~Contended(s) => target[tx[s].path] = Vacant
<1>1. tx[s] \in Handlers /\ SentOK(tx[s]) /\ HoldOK(tx[s], In(s, queue)) /\ HonestOK(s, tx[s], store)
  BY StreamFacts
<1>2. tx[s].op = "put" /\ tx[s].job \in Jobs /\ tx[s].path \in Paths /\ tx[s].told = "none"
      /\ (~Raw(tx[s]) => Position(tx[s]))
  BY <1>1 DEF SentOK, Position
<1>3. HoldOK(tx[s], FALSE) /\ tx[s].need = 0
  BY <1>1 DEF HoldOK
<1>4. ~Contended(s) => PlaceOK(s, tx[s], target[tx[s].path])
  BY <1>2 DEF Inv, PlaceInv
<1>5. ~Contended(s) => target[tx[s].path] = Vacant
  BY <1>4 DEF PlaceOK
<1> QED
  BY <1>1, <1>2, <1>3, <1>5

\* An upload that goes on receiving, or to its export, finds its destination
\* as it was.
LEMMA RecvGoesKeeps ==
  ASSUME Inv, NEW s \in Streams, NEW q \in Handlers, Goes(s, q), ~In(s, queue),
         tx[s].pc \in {"recv", "chunk"}, q.pc = "recv" \/ (q.pc = "export" /\ q.blob = 1),
         q.op = "put", q.path = tx[s].path, q.told = "none", q.held <= tx[s].held,
         SentOK(q), HoldOK(q, FALSE), UNCHANGED <<queue, target, lost, grown>>,
         store \subseteq store', store' \in SUBSET (Jobs \X Nat), HonestOK(s, q, store')
  PROVE  Inv'
<1>1. tx[s].op = "put" /\ (~Contended(s) => target[tx[s].path] = Vacant)
  BY RecvFacts
<1>2. Over(q) = 0
  BY Covered
<1>3. ASSUME ~Contended(s)' PROVE PlaceOK(s, q, target[q.path])
  <2>1. ~Contended(s)
    BY <1>3, SameRivals DEF Goes
  <2>2. target[q.path] = Vacant
    BY <1>1, <2>1
  <2> QED
    BY <2>2 DEF PlaceOK
<1> QED
  BY <1>1, <1>2, <1>3, GoesKeeps

\* An upload that fails while it receives fails for the size of its job, unless
\* its peer does not follow the protocol.
LEMMA RecvFailsKeeps ==
  ASSUME Inv, NEW s \in Streams, tx[s].pc \in {"recv", "chunk"}, ~In(s, queue), Fails(s, tx[s]),
         s \notin Strangers => Total(tx[s].job) > Cap
  PROVE  Inv'
<1>1. tx[s] \in Handlers /\ tx[s].op = "put" /\ tx[s].job \in Jobs /\ tx[s].path \in Paths
  BY RecvFacts
<1> QED
  BY <1>1, FailsKeeps

\* The store fails, or there is no memory: a fault of the server.
LEMMA StoreFailsKeeps ==
  ASSUME Inv, NEW s \in Streams, StoreFails(s)
  PROVE  Inv'
<1> DEFINE r == [tx[s] EXCEPT !.fault = TRUE]
<1>1. tx[s].pc \in {"recv", "chunk"} /\ ~In(s, queue) /\ Fails(s, r)
  BY DEF StoreFails, At, Waits, In
<1>2. tx[s] \in Handlers /\ tx[s].op = "put" /\ tx[s].job \in Jobs /\ tx[s].path \in Paths
  BY <1>1, RecvFacts
<1>3. /\ r \in Handlers /\ r.op = tx[s].op /\ r.job = tx[s].job /\ r.path = tx[s].path
      /\ r.fault = TRUE
  BY <1>2 DEF Handlers
<1> HIDE DEF r
<1>4. r.fault \/ Total(r.job) > Cap
  BY <1>3
<1> QED
  BY <1>1, <1>2, <1>3, <1>4, FailsKeeps

\* A chunk of a raw blob.
LEMMA RawChunkKeeps ==
  ASSUME Inv, NEW s \in Streams, tx[s].pc = "recv", ~In(s, queue), Raw(tx[s]),
         NEW f \in Frames(s), f.kind = "chunk", RawChunk(s, tx[s], f)
  PROVE  Inv'
<1> DEFINE r == tx[s]
           got == r.received + f.len
           size == Sizes[r.job][1]
           v == Sent(r, f)
           q == [v EXCEPT !.received = got, !.mem = got, !.good = v.good /\ (f.good \/ f.len = 0)]
<1>1. /\ r \in Handlers /\ SentOK(r) /\ HoldOK(r, FALSE) /\ HonestOK(s, r, store)
      /\ r.op = "put" /\ r.job \in Jobs /\ r.path \in Paths /\ r.told = "none" /\ r.need = 0
  BY RecvFacts
<1>2. f \in FrameSet /\ f.len \in Nat /\ f.good \in BOOLEAN /\ (s \notin Strangers => f.good)
  BY FrameFacts DEF FrameSet
<1>3. r.off \in Nat /\ r.received \in Nat /\ r.held \in Nat /\ r.mem \in Nat
  BY <1>1, Numbers
<1>4. /\ r.blob = 1 /\ r.off <= size /\ size <= Share(r) /\ r.mem = r.received /\ r.left = 0
      /\ size \in Nat /\ Total(r.job) = size /\ Whole(r) = size /\ Upto(r.job, 1) = 0
      /\ Cap \in Nat /\ Format[r.job] = "raw"
  <2>1. Format[r.job] = "raw" /\ size \in Nat /\ Total(r.job) = size
    BY <1>1, RawTotal DEF Raw
  <2>2. r.blob = 1 /\ r.off <= size /\ size <= Share(r) /\ r.mem = r.received /\ r.left = 0
    BY <1>1 DEF SentOK, HoldOK
  <2>3. Whole(r) = size
    BY <2>1, <2>2 DEF Whole
  <2> QED
    BY <1>1, <2>1, <2>2, <2>3, UptoEnds, BlobsAssumption
<1>5. f.good => r.off + f.len <= size
  BY <1>1, <1>4, FrameFacts, NextFrameFacts
<1>6. s \notin Strangers => r.received = r.off /\ r.good
  BY <1>1, <1>3, <1>4 DEF HonestOK
<1>7. CASE (got > Cap \/ got > size) /\ Fails(s, r)
  <2>1. s \notin Strangers => Total(r.job) > Cap
    BY <1>2, <1>3, <1>4, <1>5, <1>6, <1>7
  <2> QED
    BY <1>7, <2>1, RecvFailsKeeps
<1>8. CASE /\ ~(got > Cap \/ got > size) /\ Goes(s, q)
           /\ UNCHANGED <<queue, store, target, lost, grown>>
  <2>1. /\ v \in Handlers /\ v.pc = "recv" /\ v.op = r.op /\ v.job = r.job /\ v.path = r.path /\ v.blob = r.blob
        /\ v.off = (IF f.good THEN r.off + f.len ELSE r.off) /\ v.held = r.held /\ v.need = r.need
        /\ v.left = r.left /\ v.told = r.told /\ v.good = r.good
    <3>1. CASE f.good
      <4>1. v = [r EXCEPT !.off = r.off + f.len] /\ r.off + f.len \in Nat
        BY <1>2, <1>3, <1>4, <3>1 DEF Sent
      <4> HIDE DEF v
      <4> QED
        BY <1>1, <3>1, <4>1 DEF Handlers
    <3>2. CASE ~f.good
      BY <1>1, <3>2 DEF Sent
    <3> QED
      BY <3>1, <3>2
  <2> HIDE DEF v
  <2>2. /\ q \in Handlers /\ q.pc = "recv" /\ q.op = "put" /\ q.job = r.job /\ q.path = r.path /\ q.blob = 1
        /\ q.off = v.off /\ q.held = r.held /\ q.need = 0 /\ q.left = 0 /\ q.told = "none"
        /\ q.received = got /\ q.mem = got /\ q.good = (r.good /\ (f.good \/ f.len = 0))
    <3> DEFINE clean == v.good /\ (f.good \/ f.len = 0)
    <3>1. got \in Nat /\ clean \in BOOLEAN /\ (clean <=> (r.good /\ (f.good \/ f.len = 0)))
      BY <1>2, <1>3, <2>1
    <3>2. q = [v EXCEPT !.received = got, !.mem = got, !.good = clean]
      OBVIOUS
    <3> HIDE DEF got, clean, q
    <3>3. q \in Handlers
      BY <2>1, <3>1, <3>2 DEF Handlers
    <3>4. /\ q.pc = v.pc /\ q.op = v.op /\ q.job = v.job /\ q.path = v.path /\ q.blob = v.blob
          /\ q.off = v.off /\ q.held = v.held /\ q.need = v.need /\ q.left = v.left /\ q.told = v.told
          /\ q.received = got /\ q.mem = got /\ q.good = clean
      BY <2>1, <3>1, <3>2 DEF Handlers
    <3>5. clean = (r.good /\ (f.good \/ f.len = 0))
      BY <3>1
    <3> QED
      BY <1>1, <1>4, <2>1, <3>3, <3>4, <3>5
  <2>3. Raw(q) /\ size = Sizes[q.job][1]
    BY <1>4, <2>2 DEF Raw
  <2> HIDE DEF q
  <2>4. SentOK(q)
    <3>1. q.off <= size
      BY <1>2, <1>3, <1>4, <1>5, <2>1, <2>2
    <3> HIDE DEF size
    <3> QED
      BY <1>1, <2>2, <2>3, <3>1 DEF SentOK
  <2>5. HoldOK(q, FALSE)
    <3>1. Share(q) = Share(r) /\ Budget \in Nat /\ Share(r) \in Nat
      <4>1. (r.held + r.need) * Unit \in Nat
        BY <1>1, <1>3, Multiples, BlobsAssumption
      <4> QED
        BY <1>1, <2>2, <4>1, BudgetBytes DEF Share
    <3>2. q.mem + q.left <= Share(q) /\ size <= Share(q)
      BY <1>2, <1>3, <1>4, <1>8, <2>2, <3>1
    <3> HIDE DEF size, got
    <3> QED
      BY <2>2, <2>3, <3>1, <3>2 DEF HoldOK
  <2>6. HonestOK(s, q, store')
    <3>1. s \notin Strangers => q.good /\ q.received = Upto(q.job, q.blob) + q.off
      BY <1>2, <1>3, <1>4, <1>6, <2>1, <2>2
    <3> QED
      BY <2>2, <2>3, <3>1 DEF HonestOK
  <2>7. store \subseteq store' /\ store' \in SUBSET (Jobs \X Nat)
    BY <1>8, StreamFacts
  <2>8. q.held <= r.held
    BY <1>3, <2>2
  <2> QED
    BY <1>8, <2>2, <2>4, <2>5, <2>6, <2>7, <2>8, RecvGoesKeeps
<1> QED
  BY <1>7, <1>8 DEF RawChunk

\* PutComplete.
LEMMA ReceivedKeeps ==
  ASSUME Inv, NEW s \in Streams, tx[s].pc = "recv", ~In(s, queue), Received(s),
         s \notin Strangers => AllSent(tx[s])
  PROVE  Inv'
<1> DEFINE r == tx[s]
           n == Len(Sizes[r.job])
           q == [r EXCEPT !.pc = "export", !.blob = 1]
<1>1. /\ r \in Handlers /\ SentOK(r) /\ HoldOK(r, FALSE) /\ HonestOK(s, r, store)
      /\ r.op = "put" /\ r.job \in Jobs /\ r.path \in Paths /\ r.told = "none" /\ r.need = 0
      /\ (~Raw(r) => Position(r))
  BY RecvFacts
<1>2. /\ n \in Nat \ {0} /\ Format[r.job] \in {"raw", "hashseq"} /\ (Raw(r) => n = 1)
      /\ r.off \in Nat /\ r.blob \in Nat /\ r.held \in Nat
  BY <1>1, JobFacts, Numbers DEF Raw
<1>3. \/ /\ (Raw(r) /\ RawVerified(r)) \/ (~Raw(r) /\ CollectionFound(r))
         /\ Goes(s, q) /\ store' = store \cup (IF Raw(r) THEN {Root(r.job)} ELSE {})
         /\ UNCHANGED <<queue, target, lost, grown>>
      \/ /\ ~((Raw(r) /\ RawVerified(r)) \/ (~Raw(r) /\ CollectionFound(r)))
         /\ Fails(s, r)
  BY DEF Received, Raw
<1>4. s \notin Strangers /\ Raw(r) => RawVerified(r) /\ r.received = Total(r.job)
  <2> SUFFICES ASSUME s \notin Strangers, Raw(r) PROVE RawVerified(r) /\ r.received = Total(r.job)
    OBVIOUS
  <2>1. r.blob = 1 /\ Total(r.job) = Sizes[r.job][1] /\ Sizes[r.job][1] \in Nat /\ Upto(r.job, 1) = 0
    BY <1>1, RawTotal, UptoEnds DEF SentOK, Raw
  <2>2. r.off = Sizes[r.job][1]
    BY <2>1 DEF AllSent, Whole, Raw
  <2>3. r.good /\ r.received = r.off
    BY <1>1, <1>2, <2>1, <2>2 DEF HonestOK
  <2> QED
    BY <2>1, <2>2, <2>3 DEF RawVerified
<1>5. s \notin Strangers /\ ~Raw(r) =>
        CollectionFound(r) /\ r.received = Total(r.job) /\ Items(r.job) \subseteq store
  <2> SUFFICES ASSUME s \notin Strangers, ~Raw(r)
               PROVE  CollectionFound(r) /\ r.received = Total(r.job) /\ Items(r.job) \subseteq store
    OBVIOUS
  <2>1. r.blob = n + 1 /\ r.off = 0
    <3>1. r.blob > n /\ r.blob \in 1 .. n + 1
      BY <1>1 DEF AllSent, Raw, Position
    <3>2. r.blob = n + 1
      BY <1>2, <3>1
    <3> QED
      BY <1>1, <3>2 DEF Position
  <2>2. r.received = Upto(r.job, n + 1) + 0 /\ Before(r.job, n + 1) \subseteq store /\ r.count = (n + 1) - 1
    BY <1>1, <2>1 DEF HonestOK
  <2>3. Upto(r.job, n + 1) = Total(r.job) /\ Total(r.job) \in Nat
    BY <1>1, UptoEnds
  <2>4. Root(r.job) \in Before(r.job, n + 1) /\ Items(r.job) \subseteq Before(r.job, n + 1)
    <3>1. n \in 1 .. (n + 1) - 1 /\ 1 .. n - 1 \subseteq 1 .. (n + 1) - 1
      BY <1>2
    <3> QED
      BY <3>1 DEF Root, Before, Items, Raw
  <2> HIDE DEF n
  <2> QED
    BY <1>2, <2>2, <2>3, <2>4 DEF CollectionFound
<1>6. CASE /\ ~((Raw(r) /\ RawVerified(r)) \/ (~Raw(r) /\ CollectionFound(r)))
           /\ Fails(s, r)
  <2>1. s \in Strangers
    BY <1>4, <1>5, <1>6
  <2> QED
    BY <1>6, <2>1, RecvFailsKeeps
<1>7. CASE /\ (Raw(r) /\ RawVerified(r)) \/ (~Raw(r) /\ CollectionFound(r))
           /\ Goes(s, q) /\ store' = store \cup (IF Raw(r) THEN {Root(r.job)} ELSE {})
           /\ UNCHANGED <<queue, target, lost, grown>>
  <2>1. /\ q \in Handlers /\ q.pc = "export" /\ q.blob = 1 /\ q.op = "put" /\ q.job = r.job /\ q.path = r.path
        /\ q.held = r.held /\ q.need = 0 /\ q.mem = r.mem /\ q.left = r.left /\ q.told = "none"
        /\ q.received = r.received
    BY <1>1 DEF Handlers, Places
  <2> HIDE DEF q
  <2>2. SentOK(q)
    <3>1. 1 \in Blobs(r.job)
      BY <1>2 DEF Blobs
    <3> QED
      BY <1>1, <2>1, <3>1 DEF SentOK
  <2>3. HoldOK(q, FALSE) /\ q.held <= r.held
    <3>1. Share(q) = Share(r)
      BY <1>1, <2>1 DEF Share
    <3> QED
      BY <1>1, <1>2, <2>1, <3>1 DEF HoldOK
  <2>4. store \subseteq store' /\ store' \in SUBSET (Jobs \X Nat)
    <3>1. Root(r.job) \in Jobs \X Nat
      BY <1>1, <1>2 DEF Root
    <3> QED
      BY <1>7, <3>1, StreamFacts
  <2>5. HonestOK(s, q, store')
    <3> SUFFICES ASSUME s \notin Strangers
                 PROVE  q.received = Total(q.job) /\ Items(q.job) \subseteq store'
      BY <2>1 DEF HonestOK
    <3>1. CASE Raw(r)
      <4>1. Items(r.job) = {Root(r.job)}
        BY <1>2, <3>1 DEF Items, Root, Raw
      <4> QED
        BY <1>4, <1>7, <2>1, <3>1, <4>1
    <3>2. CASE ~Raw(r)
      BY <1>5, <1>7, <2>1, <3>2
    <3> QED
      BY <3>1, <3>2
  <2> QED
    BY <1>7, <2>1, <2>2, <2>3, <2>4, <2>5, RecvGoesKeeps
<1> QED
  BY <1>3, <1>6, <1>7

\* What a client of a collection has sent with frame f.
LEMMA SentFacts ==
  ASSUME NEW r \in Handlers, NEW f \in FrameSet, r.job \in Jobs, ~Raw(r), Position(r),
         f.good => r.blob \in Blobs(r.job) /\ r.off + f.len <= Whole(r)
  PROVE  LET v == Sent(r, f)
         IN  /\ v \in Handlers /\ v.pc = r.pc /\ v.op = r.op /\ v.job = r.job /\ v.path = r.path
             /\ v.need = r.need /\ v.held = r.held /\ v.mem = r.mem /\ v.left = r.left
             /\ v.begun = r.begun /\ v.frame = r.frame /\ v.count = r.count /\ v.received = r.received
             /\ v.good = r.good /\ v.fault = r.fault /\ v.told = r.told
             /\ Position(v)
             /\ f.good /\ r.off + f.len = Whole(r) => v.blob = r.blob + 1 /\ v.off = 0
             /\ f.good /\ r.off + f.len # Whole(r) => v.blob = r.blob /\ v.off = r.off + f.len
<1> DEFINE v == Sent(r, f)
           n == Len(Sizes[r.job])
<1>1. r.off \in Nat /\ r.blob \in Nat /\ f.len \in Nat /\ r.off + f.len \in Nat /\ r.blob + 1 \in Nat
  <2>1. r.off \in Nat /\ r.blob \in Nat /\ f.len \in Nat
    BY Numbers DEF FrameSet
  <2> QED
    BY <2>1
<1>2. /\ n \in Nat \ {0} /\ Prefix \in Nat \ {0} /\ Format[r.job] = "hashseq"
      /\ \A b \in Blobs(r.job) : Sizes[r.job][b] \in Nat
  BY JobFacts DEF Raw
<1>3. CASE ~f.good
  <2>1. v = r
    BY <1>3 DEF Sent
  <2> QED
    BY <1>3, <2>1
<1>4. CASE f.good /\ r.off + f.len = Whole(r)
  <2>1. v = [r EXCEPT !.blob = r.blob + 1, !.off = 0]
    BY <1>2, <1>4 DEF Sent
  <2> HIDE DEF v
  <2>2. /\ v \in Handlers /\ v.pc = r.pc /\ v.op = r.op /\ v.job = r.job /\ v.path = r.path
        /\ v.need = r.need /\ v.held = r.held /\ v.mem = r.mem /\ v.left = r.left
        /\ v.begun = r.begun /\ v.frame = r.frame /\ v.count = r.count /\ v.received = r.received
        /\ v.good = r.good /\ v.fault = r.fault /\ v.told = r.told /\ v.blob = r.blob + 1 /\ v.off = 0
    BY <1>1, <2>1 DEF Handlers
  <2>3. Position(v)
    <3>1. r.blob \in 1 .. n
      BY <1>4 DEF Blobs
    <3>2. v.blob \in 1 .. n + 1 /\ (v.blob # n + 1 => v.blob \in Blobs(r.job))
      <4> HIDE DEF n
      <4>1. v.blob \in 1 .. n + 1 /\ (v.blob # n + 1 => v.blob \in 1 .. n)
        BY <1>1, <1>2, <2>2, <3>1
      <4> QED
        BY <4>1 DEF Blobs, n
    <3>3. v.blob # n + 1 => v.off < Whole(v)
      <4> SUFFICES ASSUME v.blob # n + 1 PROVE v.off < Whole(v)
        OBVIOUS
      <4>1. Whole(v) = Sizes[r.job][v.blob] + Prefix /\ Sizes[r.job][v.blob] \in Nat
        BY <1>2, <2>2, <3>2 DEF Whole
      <4> QED
        BY <1>2, <2>2, <4>1
    <3> QED
      BY <2>2, <3>2, <3>3 DEF Position
  <2> QED
    BY <1>4, <2>2, <2>3 DEF v
<1>5. CASE f.good /\ r.off + f.len # Whole(r)
  <2>1. v = [r EXCEPT !.off = r.off + f.len]
    BY <1>2, <1>5 DEF Sent
  <2> HIDE DEF v
  <2>2. /\ v \in Handlers /\ v.pc = r.pc /\ v.op = r.op /\ v.job = r.job /\ v.path = r.path
        /\ v.need = r.need /\ v.held = r.held /\ v.mem = r.mem /\ v.left = r.left
        /\ v.begun = r.begun /\ v.frame = r.frame /\ v.count = r.count /\ v.received = r.received
        /\ v.good = r.good /\ v.fault = r.fault /\ v.told = r.told /\ v.blob = r.blob /\ v.off = r.off + f.len
    BY <1>1, <2>1 DEF Handlers
  <2>3. Position(v)
    <3>1. r.blob \in 1 .. n /\ r.off + f.len <= Whole(r)
      BY <1>5 DEF Blobs
    <3>2. Whole(v) = Whole(r) /\ Whole(r) = Sizes[r.job][r.blob] + Prefix /\ Sizes[r.job][r.blob] \in Nat
      BY <1>2, <2>2, <3>1 DEF Whole, Blobs
    <3>3. v.blob # n + 1 /\ v.blob \in 1 .. n + 1
      BY <1>1, <1>2, <2>2, <3>1
    <3>4. v.off < Whole(v)
      <4>1. Whole(r) \in Nat /\ v.off # Whole(r) /\ v.off <= Whole(r) /\ v.off \in Nat
        BY <1>1, <1>2, <1>5, <2>2, <3>1, <3>2
      <4> QED
        BY <3>2, <4>1
    <3> QED
      BY <2>2, <3>3, <3>4 DEF Position
  <2> QED
    BY <1>5, <2>2, <2>3 DEF v
<1> QED
  BY <1>3, <1>4, <1>5

\* The bytes of a client that is within a blob are within the total.
LEMMA WithinTotal ==
  ASSUME NEW r \in Handlers, r.job \in Jobs, r.blob \in Blobs(r.job), NEW n \in Nat, r.off + n <= Whole(r)
  PROVE  /\ Upto(r.job, r.blob) \in Nat /\ Total(r.job) \in Nat /\ Whole(r) \in Nat /\ r.off \in Nat
         /\ Upto(r.job, r.blob) + r.off + n <= Total(r.job)
         /\ Upto(r.job, r.blob + 1) = Upto(r.job, r.blob) + Whole(r)
<1>1. /\ Upto(r.job, r.blob) \in Nat /\ Total(r.job) \in Nat /\ Upto(r.job, r.blob + 1) <= Total(r.job)
      /\ Upto(r.job, r.blob + 1) = Upto(r.job, r.blob) + Wide(r.job, r.blob) /\ Wide(r.job, r.blob) \in Nat
  BY UptoFacts, JobFacts
<1>2. Whole(r) = Wide(r.job, r.blob)
  BY DEF Whole, Wide
<1>3. r.off \in Nat
  BY Numbers
<1> QED
  BY <1>1, <1>2, <1>3

\* A length prefix.
LEMMA PrefixChunkKeeps ==
  ASSUME Inv, NEW s \in Streams, tx[s].pc = "recv", ~In(s, queue), ~Raw(tx[s]), tx[s].left = 0,
         NEW f \in Frames(s), f.kind = "chunk", PrefixChunk(s, tx[s], f)
  PROVE  Inv'
<1> DEFINE r == tx[s]
           q == [Release(r) EXCEPT !.pc = "chunk", !.begun = TRUE, !.left = f.decl,
                   !.frame = f, !.good = f.good]
<1>1. /\ r \in Handlers /\ SentOK(r) /\ HoldOK(r, FALSE) /\ HonestOK(s, r, store)
      /\ r.op = "put" /\ r.job \in Jobs /\ r.path \in Paths /\ r.told = "none" /\ r.need = 0
      /\ Position(r) /\ (~Contended(s) => target[r.path] = Vacant)
  BY RecvFacts
<1>2. /\ f \in FrameSet /\ f.len \in Nat /\ f.decl \in Nat /\ f.good \in BOOLEAN
      /\ (s \notin Strangers => f.good) /\ (f.good => f = NextFrame(r))
  BY FrameFacts DEF FrameSet
<1>3. f.good => /\ r.blob \in Blobs(r.job) /\ Whole(r) \in Nat /\ f.len # 0 /\ r.off + f.len <= Whole(r)
                /\ r.off = 0 => f = Frame("chunk", Prefix, Sizes[r.job][r.blob], TRUE)
  BY <1>1, <1>2, NextFrameFacts
<1>4. Cap \in Nat /\ Prefix \in Nat \ {0} /\ r.received \in Nat /\ r.held \in Nat /\ r.off \in Nat
  BY <1>1, Numbers, BlobsAssumption
<1>5. s \notin Strangers =>
        /\ r.off = 0 /\ r.blob \in Blobs(r.job) /\ f = Frame("chunk", Prefix, Sizes[r.job][r.blob], TRUE)
        /\ f.len = Prefix /\ f.decl = Sizes[r.job][r.blob] /\ r.received = Upto(r.job, r.blob) + r.off
        /\ Before(r.job, r.blob) \subseteq store /\ r.count = r.blob - 1
  <2> SUFFICES ASSUME s \notin Strangers
               PROVE  /\ r.off = 0 /\ r.blob \in Blobs(r.job) /\ f = Frame("chunk", Prefix, Sizes[r.job][r.blob], TRUE)
                      /\ f.len = Prefix /\ f.decl = Sizes[r.job][r.blob] /\ r.received = Upto(r.job, r.blob) + r.off
                      /\ Before(r.job, r.blob) \subseteq store /\ r.count = r.blob - 1
    OBVIOUS
  <2>1. /\ IF r.off = 0 THEN r.left = 0 ELSE r.left = Whole(r) - r.off
        /\ r.received = Upto(r.job, r.blob) + r.off /\ Before(r.job, r.blob) \subseteq store /\ r.count = r.blob - 1
    BY <1>1 DEF HonestOK
  <2>2. r.off = 0
    <3>1. Whole(r) \in Nat /\ f.len # 0 /\ f.len \in Nat /\ r.off + f.len <= Whole(r) /\ r.off \in Nat
      BY <1>2, <1>3, <1>4
    <3>2. r.off # 0 => 0 = Whole(r) - r.off
      BY <2>1
    <3> QED
      BY <3>1, <3>2
  <2>3. f = Frame("chunk", Prefix, Sizes[r.job][r.blob], TRUE) /\ r.blob \in Blobs(r.job)
    BY <1>2, <1>3, <2>2
  <2>4. f.len = Prefix /\ f.decl = Sizes[r.job][r.blob]
    BY <2>3 DEF Frame
  <2> QED
    BY <2>1, <2>2, <2>3, <2>4
<1>6. CASE (f.len < Prefix \/ f.decl > Cap \/ r.received + f.decl > Cap) /\ Fails(s, r)
  <2>1. ASSUME s \notin Strangers PROVE Total(r.job) > Cap
    <3>1. Upto(r.job, r.blob) \in Nat /\ Total(r.job) \in Nat /\ Upto(r.job, r.blob) + r.off + f.len <= Total(r.job)
          /\ Upto(r.job, r.blob + 1) = Upto(r.job, r.blob) + Whole(r)
      BY <1>1, <1>2, <1>3, <2>1, WithinTotal
    <3>2. Upto(r.job, r.blob + 1) <= Total(r.job)
      BY <1>1, <1>2, <1>3, <2>1, UptoFacts
    <3>3. Whole(r) = f.decl + Prefix
      BY <1>5, <2>1 DEF Whole, Raw
    <3>4. r.off = 0 /\ r.received = Upto(r.job, r.blob) + 0 /\ f.len = Prefix
      BY <1>5, <2>1
    <3>5. f.decl > Cap \/ r.received + f.decl > Cap
      BY <1>4, <1>6, <3>4
    <3> QED
      BY <1>2, <1>4, <3>1, <3>2, <3>3, <3>4, <3>5
  <2> QED
    BY <1>6, <2>1, RecvFailsKeeps
<1>7. CASE /\ ~(f.len < Prefix \/ f.decl > Cap \/ r.received + f.decl > Cap)
           /\ Acquires(s, q, f.decl) /\ UNCHANGED <<store, target, lost, grown>>
  <2>1. f.len >= Prefix /\ f.decl <= Cap
    BY <1>2, <1>4, <1>7
  <2>2. /\ q \in Handlers /\ q.pc = "chunk" /\ q.op = "put" /\ q.job = r.job /\ q.path = r.path
        /\ q.blob = r.blob /\ q.off = r.off /\ q.need = 0 /\ q.held = 0 /\ q.mem = 0 /\ q.left = f.decl
        /\ q.begun = TRUE /\ q.frame = f /\ q.count = r.count /\ q.received = r.received
        /\ q.good = f.good /\ q.told = "none"
    <3>1. q = [r EXCEPT !.held = 0, !.mem = 0, !.pc = "chunk", !.begun = TRUE, !.left = f.decl,
                 !.frame = f, !.good = f.good]
      BY DEF Release
    <3> HIDE DEF q
    <3> QED
      BY <1>1, <1>2, <3>1 DEF Handlers, Places
  <2> HIDE DEF q
  <2>3. ~Raw(q) /\ Whole(q) = Whole(r)
    BY <2>2 DEF Raw, Whole
  <2>4. SentOK(q)
    <3>1. q.blob \in 1 .. Len(Sizes[q.job]) + 1
          /\ IF q.blob = Len(Sizes[q.job]) + 1 THEN q.off = 0 ELSE q.off < Whole(q)
      BY <1>1, <2>2, <2>3 DEF Position
    <3>2. q.frame.len >= Prefix /\ (q.frame.good => q.blob \in Blobs(q.job) /\ q.off + q.frame.len <= Whole(q))
      BY <1>3, <2>1, <2>2, <2>3
    <3> QED
      BY <1>1, <2>2, <2>3, <3>1, <3>2 DEF SentOK
  <2>5. HonestOK(s, q, store)
    <3> SUFFICES ASSUME s \notin Strangers
                 PROVE  /\ q.good /\ q.received = Upto(q.job, q.blob) + q.off
                        /\ Before(q.job, q.blob) \subseteq store /\ q.count = q.blob - 1
                        /\ q.off = 0 /\ q.blob \in Blobs(q.job) /\ q.begun
                        /\ q.frame = Frame("chunk", Prefix, Sizes[q.job][q.blob], TRUE)
                        /\ q.left = Sizes[q.job][q.blob]
      BY <2>2, <2>3 DEF HonestOK
    <3> QED
      BY <1>2, <1>5, <2>2
  <2>6. ASSUME ~Contended(s)' PROVE PlaceOK(s, q, target[q.path])
    <3>1. PICK k \in Nat : tx' = [tx EXCEPT ![s] = [q EXCEPT !.need = k]]
      BY <1>2, <1>7, <2>1, PermitsCover DEF Acquires, Goes
    <3>2. [q EXCEPT !.need = k] \in Handlers /\ [q EXCEPT !.need = k].path = r.path
      BY <2>2 DEF Handlers
    <3>3. ~Contended(s)
      BY <2>6, <3>1, <3>2, SameRivals
    <3>4. target[q.path] = Vacant
      BY <1>1, <2>2, <3>3
    <3> QED
      BY <2>2, <3>4 DEF PlaceOK
  <2>7. Sizes[q.job][1] \in Nat
    <3>1. 1 \in Blobs(r.job)
      BY <1>1, JobFacts DEF Blobs
    <3> QED
      BY <1>1, <2>2, <3>1, JobFacts
  <2>8. q.left <= f.decl
    BY <1>2, <2>2
  <2> QED
    BY <1>1, <1>2, <1>7, <2>1, <2>2, <2>4, <2>5, <2>6, <2>7, <2>8, AcquiresKeeps
<1> QED
  BY <1>6, <1>7 DEF PrefixChunk

\* the blob with the data of frame f
Fed(r, f, data) ==
  [r EXCEPT !.mem = r.mem + data, !.left = r.left - data, !.frame = NoFrame,
            !.received = r.received + f.len, !.good = r.good /\ (f.good \/ data = 0)]

\* Data of a blob, which goes to the store when nothing of it is missing.
LEMMA BlobDataKeeps ==
  ASSUME Inv, NEW s \in Streams, tx[s].pc \in {"recv", "chunk"}, ~In(s, queue), ~Raw(tx[s]),
         NEW f \in FrameSet, NEW data \in Nat, BlobData(s, tx[s], f, data),
         f.good => tx[s].blob \in Blobs(tx[s].job) /\ tx[s].off + f.len <= Whole(tx[s]),
         s \notin Strangers =>
           /\ f.good /\ f.len # 0 /\ tx[s].begun /\ data <= tx[s].left
           /\ tx[s].left - data = Whole(tx[s]) - (tx[s].off + f.len)
  PROVE  Inv'
<1> DEFINE r == tx[s]
           q == Fed(r, f, data)
<1>1. /\ r \in Handlers /\ SentOK(r) /\ HoldOK(r, FALSE) /\ HonestOK(s, r, store)
      /\ r.op = "put" /\ r.job \in Jobs /\ r.path \in Paths /\ r.told = "none" /\ r.need = 0
      /\ Position(r)
  BY RecvFacts
<1>2. /\ f.len \in Nat /\ f.good \in BOOLEAN /\ Cap \in Nat /\ Prefix \in Nat \ {0}
      /\ r.received \in Nat /\ r.held \in Nat /\ r.mem \in Nat /\ r.left \in Nat /\ r.off \in Nat
      /\ r.blob \in Nat /\ r.count \in Nat /\ r.good \in BOOLEAN /\ r.begun \in BOOLEAN
  BY <1>1, Numbers, BlobsAssumption DEF FrameSet, Handlers
<1>3. /\ r.mem + r.left <= Share(r) /\ Share(r) = r.held * Unit /\ Share(r) \in Nat
  <2>1. r.mem + r.left <= Share(r)
    BY <1>1 DEF HoldOK
  <2>2. r.held * Unit \in Nat /\ r.held + r.need = r.held
    BY <1>1, <1>2, Multiples, BlobsAssumption
  <2> QED
    BY <2>1, <2>2 DEF Share
<1>4. s \notin Strangers =>
        /\ r.good /\ r.received = Upto(r.job, r.blob) + r.off /\ r.blob \in Blobs(r.job)
        /\ Before(r.job, r.blob) \subseteq store /\ r.count = r.blob - 1
        /\ Upto(r.job, r.blob) \in Nat /\ Total(r.job) \in Nat /\ Whole(r) \in Nat
        /\ Upto(r.job, r.blob) + r.off + f.len <= Total(r.job)
        /\ Upto(r.job, r.blob + 1) = Upto(r.job, r.blob) + Whole(r)
  <2>1. s \notin Strangers =>
          /\ r.good /\ r.received = Upto(r.job, r.blob) + r.off
          /\ Before(r.job, r.blob) \subseteq store /\ r.count = r.blob - 1
    BY <1>1 DEF HonestOK
  <2>2. s \notin Strangers => r.blob \in Blobs(r.job) /\ r.off + f.len <= Whole(r)
    OBVIOUS
  <2> QED
    BY <1>1, <1>2, <2>1, <2>2, WithinTotal
<1>5. /\ q.received = r.received + f.len /\ q.left = r.left - data /\ q.begun = r.begun
      /\ q.good = (r.good /\ (f.good \/ data = 0)) /\ q.mem = r.mem + data
  BY <1>1 DEF Fed, Handlers
<1>6. \/ (data > r.left \/ q.received > Cap) /\ Fails(s, r)
      \/ /\ data <= r.left /\ Complete(q)
         /\ Goes(s, [Sent(Release(q), f) EXCEPT !.pc = "recv", !.begun = FALSE,
                       !.count = Sent(Release(q), f).count + 1])
         /\ store' = (IF q.good THEN store \cup {<<r.job, r.blob>>} ELSE store)
         /\ UNCHANGED <<queue, target, lost, grown>>
      \/ /\ data <= r.left /\ ~Complete(q)
         /\ Goes(s, [Sent(q, f) EXCEPT !.pc = "recv"]) /\ UNCHANGED store
         /\ UNCHANGED <<queue, target, lost, grown>>
  BY DEF BlobData, Fed
<1>7. CASE (data > r.left \/ q.received > Cap) /\ Fails(s, r)
  <2>1. s \notin Strangers => Total(r.job) > Cap
    BY <1>2, <1>4, <1>5, <1>7
  <2> QED
    BY <1>7, <2>1, RecvFailsKeeps
<1>8. CASE data <= r.left
  <2>1. /\ q \in Handlers /\ q.op = r.op /\ q.job = r.job /\ q.path = r.path /\ q.blob = r.blob
        /\ q.off = r.off /\ q.need = 0 /\ q.held = r.held /\ q.count = r.count /\ q.told = "none"
        /\ q.left \in Nat
    <3>1. /\ r.mem + data \in Nat /\ r.left - data \in Nat /\ r.received + f.len \in Nat
          /\ (r.good /\ (f.good \/ data = 0)) \in BOOLEAN /\ NoFrame \in FrameSet
      BY <1>2, <1>8 DEF NoFrame, Frame, FrameSet
    <3> QED
      BY <1>1, <3>1 DEF Fed, Handlers
  <2> HIDE DEF q
  <2>2. CASE /\ Complete(q)
             /\ Goes(s, [Sent(Release(q), f) EXCEPT !.pc = "recv", !.begun = FALSE,
                           !.count = Sent(Release(q), f).count + 1])
             /\ store' = (IF q.good THEN store \cup {<<r.job, r.blob>>} ELSE store)
             /\ UNCHANGED <<queue, target, lost, grown>>
    <3> DEFINE e == Release(q)
               v == Sent(e, f)
               u == [v EXCEPT !.pc = "recv", !.begun = FALSE, !.count = v.count + 1]
    <3>1. /\ e \in Handlers /\ e.op = r.op /\ e.job = r.job /\ e.path = r.path /\ e.blob = r.blob
          /\ e.off = r.off /\ e.need = 0 /\ e.held = 0 /\ e.mem = 0 /\ e.count = r.count /\ e.told = "none"
          /\ e.left = q.left /\ e.received = q.received /\ e.good = q.good
      BY <2>1 DEF Release, Handlers
    <3>2. q.left = 0
      BY <2>2 DEF Complete
    <3> HIDE DEF e
    <3>3. ~Raw(e) /\ Whole(e) = Whole(r) /\ Position(e)
      BY <1>1, <3>1 DEF Raw, Whole, Position
    <3>4. /\ v \in Handlers /\ v.op = "put" /\ v.job = r.job /\ v.path = r.path /\ v.need = 0 /\ v.held = 0
          /\ v.mem = 0 /\ v.left = 0 /\ v.count = r.count /\ v.received = q.received /\ v.good = q.good
          /\ v.told = "none" /\ Position(v)
          /\ f.good /\ r.off + f.len = Whole(r) => v.blob = r.blob + 1 /\ v.off = 0
      BY <1>1, <3>1, <3>2, <3>3, SentFacts
    <3> HIDE DEF v
    <3>5. /\ u \in Handlers /\ u.pc = "recv" /\ u.op = "put" /\ u.job = r.job /\ u.path = r.path /\ u.need = 0
          /\ u.held = 0 /\ u.mem = 0 /\ u.left = 0 /\ u.count = r.count + 1 /\ u.received = q.received
          /\ u.good = q.good /\ u.told = "none" /\ u.begun = FALSE /\ u.blob = v.blob /\ u.off = v.off
      <4>1. v.count + 1 \in Nat
        BY <1>2, <3>4
      <4> QED
        BY <3>4, <4>1 DEF Handlers, Places
    <3>6. Goes(s, u)
      BY <2>2 DEF v, e
    <3> HIDE DEF u
    <3>7. ~Raw(u) /\ Position(u)
      BY <3>4, <3>5 DEF Raw, Whole, Position
    <3>8. SentOK(u)
      BY <1>1, <3>5, <3>7 DEF SentOK, Position
    <3>9. HoldOK(u, FALSE) /\ u.held <= r.held
      <4>1. Budget \in Nat /\ Share(u) = 0
        BY <3>5, BudgetBytes, BlobsAssumption DEF Share
      <4> QED
        BY <1>2, <3>5, <3>7, <4>1 DEF HoldOK
    <3>10. store \subseteq store' /\ store' \in SUBSET (Jobs \X Nat)
      <4>1. <<r.job, r.blob>> \in Jobs \X Nat
        BY <1>1, <1>2
      <4> QED
        BY <2>2, <4>1, StreamFacts
    <3>11. HonestOK(s, u, store')
      <4> SUFFICES ASSUME s \notin Strangers
                   PROVE  /\ u.good /\ u.received = Upto(u.job, u.blob) + u.off
                          /\ Before(u.job, u.blob) \subseteq store' /\ u.count = u.blob - 1
                          /\ u.off = 0 /\ u.left = 0 /\ ~u.begun
        BY <3>5, <3>7 DEF HonestOK
      <4>1. r.off + f.len = Whole(r)
        <5>1. r.left - data = 0 /\ Whole(r) \in Nat /\ r.left - data = Whole(r) - (r.off + f.len)
          BY <1>4, <1>5, <3>2
        <5> QED
          BY <1>2, <5>1
      <4>2. u.blob = r.blob + 1 /\ u.off = 0 /\ u.good
        BY <1>4, <1>5, <3>4, <3>5, <4>1
      <4>3. u.received = Upto(r.job, r.blob + 1) + 0
        BY <1>2, <1>4, <1>5, <3>5, <4>1
      <4>4. Before(r.job, r.blob + 1) \subseteq store'
        <5>1. Before(r.job, r.blob + 1) \subseteq Before(r.job, r.blob) \cup {<<r.job, r.blob>>}
          <6>1. Before(r.job, r.blob + 1) = Before(r.job, r.blob) \cup (IF r.blob = 0 THEN {} ELSE {<<r.job, r.blob>>})
            BY <1>1, <1>2, ItemsFacts
          <6> QED
            BY <6>1
        <5> QED
          BY <1>4, <2>2, <3>5, <4>2, <5>1
      <4>5. u.count = (r.blob + 1) - 1
        BY <1>2, <1>4, <3>5
      <4> QED
        BY <3>5, <4>2, <4>3, <4>4, <4>5
    <3> QED
      BY <2>2, <3>5, <3>6, <3>8, <3>9, <3>10, <3>11, RecvGoesKeeps
  <2>3. CASE /\ ~Complete(q) /\ Goes(s, [Sent(q, f) EXCEPT !.pc = "recv"]) /\ UNCHANGED store
             /\ UNCHANGED <<queue, target, lost, grown>>
    <3> DEFINE v == Sent(q, f)
               u == [v EXCEPT !.pc = "recv"]
    <3>1. ~Raw(q) /\ Whole(q) = Whole(r) /\ Position(q)
      BY <1>1, <2>1 DEF Raw, Whole, Position
    <3>2. /\ v \in Handlers /\ v.op = "put" /\ v.job = r.job /\ v.path = r.path /\ v.need = 0 /\ v.held = r.held
          /\ v.mem = q.mem /\ v.left = q.left /\ v.count = r.count /\ v.received = q.received /\ v.good = q.good
          /\ v.told = "none" /\ v.begun = r.begun /\ Position(v)
          /\ f.good /\ r.off + f.len # Whole(r) => v.blob = r.blob /\ v.off = r.off + f.len
      BY <1>1, <1>5, <2>1, <3>1, SentFacts
    <3> HIDE DEF v
    <3>3. /\ u \in Handlers /\ u.pc = "recv" /\ u.op = "put" /\ u.job = r.job /\ u.path = r.path /\ u.need = 0
          /\ u.held = r.held /\ u.mem = q.mem /\ u.left = q.left /\ u.count = r.count /\ u.received = q.received
          /\ u.good = q.good /\ u.told = "none" /\ u.begun = r.begun /\ u.blob = v.blob /\ u.off = v.off
      BY <3>2 DEF Handlers, Places
    <3>4. Goes(s, u)
      BY <2>3 DEF v
    <3> HIDE DEF u
    <3>5. ~Raw(u) /\ Position(u) /\ Whole(u) = Sizes[u.job][u.blob] + Prefix
      BY <3>2, <3>3 DEF Raw, Whole, Position
    <3>6. SentOK(u)
      BY <1>1, <3>3, <3>5 DEF SentOK, Position
    <3>7. HoldOK(u, FALSE) /\ u.held <= r.held
      <4>1. Budget \in Nat /\ Share(u) = Share(r)
        BY <1>1, <3>3, BudgetBytes DEF Share
      <4>2. u.mem + u.left <= Share(u)
        BY <1>2, <1>3, <1>5, <1>8, <3>3, <4>1
      <4> QED
        BY <1>2, <3>3, <3>5, <4>1, <4>2 DEF HoldOK
    <3>8. store \subseteq store' /\ store' \in SUBSET (Jobs \X Nat)
      BY <2>3, StreamFacts
    <3>9. HonestOK(s, u, store')
      <4> SUFFICES ASSUME s \notin Strangers
                   PROVE  /\ u.good /\ u.received = Upto(u.job, u.blob) + u.off
                          /\ Before(u.job, u.blob) \subseteq store' /\ u.count = u.blob - 1
                          /\ u.off # 0 /\ u.left = Whole(u) - u.off /\ u.begun
        BY <3>3, <3>5 DEF HonestOK
      <4>1. q.left # 0
        BY <1>5, <2>3 DEF Complete
      <4>2. r.off + f.len # Whole(r)
        <5>1. r.left - data # 0 /\ Whole(r) \in Nat /\ r.left - data = Whole(r) - (r.off + f.len)
          BY <1>4, <1>5, <4>1
        <5> QED
          BY <1>2, <5>1
      <4>3. u.blob = r.blob /\ u.off = r.off + f.len /\ u.good
        BY <1>4, <1>5, <3>2, <3>3, <4>2
      <4>4. Whole(u) = Whole(r)
        BY <3>3, <4>3 DEF Whole
      <4>5. u.received = Upto(r.job, r.blob) + u.off
        BY <1>2, <1>4, <1>5, <3>3, <4>3
      <4>6. u.off # 0
        BY <1>2, <4>3
      <4>7. u.left = Whole(u) - u.off
        BY <1>5, <3>3, <4>3, <4>4
      <4> QED
        BY <1>4, <2>3, <3>3, <4>3, <4>5, <4>6, <4>7
    <3> QED
      BY <2>3, <3>3, <3>4, <3>6, <3>7, <3>8, <3>9, RecvGoesKeeps
  <2> QED
    BY <1>6, <1>7, <2>2, <2>3 DEF q
<1> QED
  BY <1>6, <1>7, <1>8

\* The rest of the frame that held the prefix.
LEMMA PrefixedKeeps ==
  ASSUME Inv, NEW s \in Streams, Prefixed(s)
  PROVE  Inv'
<1> DEFINE r == tx[s]
           f == r.frame
           data == f.len - Prefix
<1>1. r.pc = "chunk" /\ ~In(s, queue) /\ BlobData(s, r, f, data)
  BY NotWaiting DEF Prefixed
<1>2. r \in Handlers /\ SentOK(r) /\ HonestOK(s, r, store) /\ r.op = "put" /\ r.job \in Jobs
  BY <1>1, RecvFacts
<1>3. /\ ~Raw(r) /\ f.len >= Prefix /\ f \in FrameSet /\ f.len \in Nat /\ Prefix \in Nat \ {0} /\ data \in Nat
      /\ f.good => r.blob \in Blobs(r.job) /\ r.off + f.len <= Whole(r)
  <2>1. /\ ~Raw(r) /\ f.len >= Prefix
        /\ f.good => r.blob \in Blobs(r.job) /\ r.off + f.len <= Whole(r)
    BY <1>1, <1>2 DEF SentOK
  <2>2. f \in FrameSet
    BY <1>2 DEF Handlers
  <2>3. f.len \in Nat /\ Prefix \in Nat \ {0}
    BY <2>2, BlobsAssumption DEF FrameSet
  <2> QED
    BY <2>1, <2>2, <2>3
<1>4. ASSUME s \notin Strangers
      PROVE  f.good /\ f.len # 0 /\ r.begun /\ data <= r.left /\ r.left - data = Whole(r) - (r.off + f.len)
  <2>1. /\ r.off = 0 /\ r.blob \in Blobs(r.job) /\ r.begun
        /\ f = Frame("chunk", Prefix, Sizes[r.job][r.blob], TRUE) /\ r.left = Sizes[r.job][r.blob]
    BY <1>1, <1>2, <1>4 DEF HonestOK
  <2>2. f.good /\ f.len = Prefix /\ Sizes[r.job][r.blob] \in Nat
    BY <1>2, <2>1, JobFacts DEF Frame
  <2>3. Whole(r) = Sizes[r.job][r.blob] + Prefix
    BY <1>3 DEF Whole, Raw
  <2>4. data = 0
    BY <1>3, <2>2
  <2>5. f.len # 0
    BY <1>3, <2>2
  <2>6. data <= r.left /\ r.left - data = Whole(r) - (r.off + f.len)
    <3> DEFINE m == Sizes[r.job][r.blob]
    <3>1. m \in Nat /\ Prefix \in Nat
      BY <1>3, <2>2
    <3>2. r.left = m /\ data = 0 /\ r.off = 0 /\ f.len = Prefix /\ Whole(r) = m + Prefix
      BY <2>1, <2>2, <2>3, <2>4
    <3> HIDE DEF m, data, f
    <3> QED
      BY <3>1, <3>2
  <2> QED
    BY <2>1, <2>2, <2>5, <2>6
<1> HIDE DEF data, f
<1> QED
  BY <1>1, <1>3, <1>4, BlobDataKeeps

\* A frame of an upload.
LEMMA ReadFrameKeeps ==
  ASSUME Inv, NEW s \in Streams, NEW f \in Frames(s), ReadFrame(s, f)
  PROVE  Inv'
<1> DEFINE r == tx[s]
<1>1. r.pc = "recv" /\ ~In(s, queue)
  BY NotWaiting DEF ReadFrame
<1>2. /\ r \in Handlers /\ SentOK(r) /\ HoldOK(r, FALSE) /\ HonestOK(s, r, store)
      /\ r.op = "put" /\ r.job \in Jobs
  BY <1>1, RecvFacts
<1>3. /\ f \in FrameSet /\ f.len \in Nat /\ (s \notin Strangers => f.good) /\ (f.good => f = NextFrame(r))
  BY <1>1, FrameFacts DEF FrameSet
<1>4. f.good => /\ f.kind \in {"chunk", "complete"} /\ (f.kind = "complete" => AllSent(r))
                /\ f.kind = "chunk" => /\ r.blob \in Blobs(r.job) /\ Whole(r) \in Nat
                                       /\ f.len # 0 /\ r.off + f.len <= Whole(r)
  BY <1>1, <1>2, <1>3, NextFrameFacts
<1>5. \/ f.kind = "chunk" /\ ReadChunk(s, f)
      \/ f.kind = "complete" /\ Received(s)
      \/ f.kind \in {"error", "other"} /\ Fails(s, r)
  BY DEF ReadFrame
<1>6. CASE f.kind = "complete" /\ Received(s)
  BY <1>1, <1>3, <1>4, <1>6, ReceivedKeeps
<1>7. CASE f.kind \in {"error", "other"} /\ Fails(s, r)
  <2>1. s \in Strangers
    BY <1>3, <1>4, <1>7
  <2> QED
    BY <1>1, <1>7, <2>1, RecvFailsKeeps
<1>8. CASE f.kind = "chunk" /\ ReadChunk(s, f)
  <2>1. CASE Raw(r) /\ RawChunk(s, r, f)
    BY <1>1, <1>8, <2>1, RawChunkKeeps
  <2>2. CASE ~Raw(r) /\ r.left = 0 /\ PrefixChunk(s, r, f)
    BY <1>1, <1>8, <2>2, PrefixChunkKeeps
  <2>3. CASE ~Raw(r) /\ r.left > 0 /\ BlobData(s, r, f, f.len)
    <3>1. ASSUME s \notin Strangers
          PROVE  f.good /\ f.len # 0 /\ r.begun /\ f.len <= r.left /\ r.left - f.len = Whole(r) - (r.off + f.len)
      <4>1. f.good /\ f.len # 0 /\ Whole(r) \in Nat /\ r.off + f.len <= Whole(r) /\ r.off \in Nat
        BY <1>2, <1>3, <1>4, <1>8, <3>1, Numbers
      <4>2. r.left # 0
        BY <2>3
      <4>3. r.left = Whole(r) - r.off /\ r.begun
        BY <1>1, <1>2, <2>3, <3>1, <4>2 DEF HonestOK
      <4> QED
        BY <1>3, <4>1, <4>3
    <3> QED
      BY <1>1, <1>3, <1>4, <1>8, <2>3, <3>1, BlobDataKeeps
  <2> QED
    BY <1>8, <2>1, <2>2, <2>3 DEF ReadChunk, Raw
<1> QED
  BY <1>5, <1>6, <1>7, <1>8

-----------------------------------------------------------------------------
(***************************************************************************)
(* The theorems.                                                           *)
(***************************************************************************)
\* A connection begins with the whole budget and vacant destinations.
LEMMA InitInv == Init => Inv
<1> SUFFICES ASSUME Init PROVE Inv
  OBVIOUS
<1>1. /\ tx = [s \in Streams |-> Fresh] /\ free = Budget /\ queue = <<>> /\ store = {}
      /\ target = [p \in Paths |-> Vacant] /\ lost = {} /\ grown = 0
  BY DEF Init
<1>2. Fresh \in Handlers /\ Vacant \in Targets
  BY FreshHandler DEF Vacant, Targets
<1>3. TypeInv
  BY <1>1, <1>2, BudgetBytes, BlobsAssumption, EmptySeq DEF TypeInv
<1>4. QueueInv /\ \A s \in Streams : ~In(s, queue)
  BY <1>1 DEF QueueInv, In
<1>5. /\ Fresh.pc = "new" /\ Fresh.op = "none" /\ Fresh.told = "none" /\ Fresh.held = 0 /\ Fresh.mem = 0
      /\ Fresh.need = 0 /\ Fresh.left = 0
  BY DEF Fresh
<1>6. BudgetInv
  <2> DEFINE h == [s \in Streams |-> tx[s].held]
             a == [s \in Streams |-> Allowance(tx[s])]
             z == [s \in Streams |-> 0]
  <2>1. Unit \in Nat \ {0} /\ Budget \in Nat /\ IsFiniteSet(Streams)
    BY BlobsAssumption, BudgetBytes
  <2>2. Allowance(Fresh) = 0
    BY <1>5, <2>1 DEF Allowance, Over
  <2>3. \A s \in Streams : h[s] = 0 /\ a[s] = 0
    BY <1>1, <1>5, <2>2
  <2>4. Held = SumOver(h, Streams) /\ Allowed = SumOver(a, Streams)
    BY DEF Held, Allowed
  <2> HIDE DEF h, a
  <2>5. Cells(h, Streams) = {} /\ Cells(a, Streams) = {}
    <3>1. \A s \in Streams : 1 .. h[s] = {} /\ 1 .. a[s] = {}
      BY <2>3
    <3> QED
      BY <3>1 DEF Cells, Column
  <2>6. Summable(h, Streams) /\ Summable(a, Streams)
    BY <2>1, <2>3 DEF Summable
  <2>7. Held = 0 /\ Allowed = 0
    BY <2>4, <2>5, <2>6, CellsFinite, FS_EmptySet
  <2> QED
    BY <1>1, <2>1, <2>7 DEF BudgetInv
<1>7. PlaceInv
  BY <1>1, <1>5 DEF PlaceInv
<1>8. ASSUME NEW s \in Streams PROVE StreamInv(s)
  <2>1. tx[s] = Fresh /\ ~In(s, queue)
    BY <1>1, <1>4
  <2>2. SentOK(Fresh)
    BY <1>5 DEF SentOK
  <2>3. HoldOK(Fresh, FALSE)
    <3>1. Share(Fresh) = 0 /\ Budget \in Nat
      BY <1>5, BudgetBytes, BlobsAssumption DEF Share
    <3> QED
      BY <1>5, <3>1 DEF HoldOK
  <2>4. HonestOK(s, Fresh, store)
    BY <1>5 DEF HonestOK
  <2>5. HoldOK(tx[s], In(s, queue))
    BY <2>1, <2>3 DEF HoldOK
  <2> QED
    BY <2>1, <2>2, <2>4, <2>5 DEF StreamInv
<1> QED
  BY <1>3, <1>4, <1>6, <1>7, <1>8 DEF Inv

\* Every step keeps the invariant.
LEMMA NextInv == Inv /\ [Next]_vars => Inv'
<1> SUFFICES ASSUME Inv, [Next]_vars PROVE Inv'
  OBVIOUS
<1>1. CASE UNCHANGED vars
  BY <1>1 DEF vars, Inv, TypeInv, QueueInv, BudgetInv, Held, Allowed, PlaceInv, Contended, Taken, StreamInv
<1>2. ASSUME NEW s \in Streams, Begins(s) PROVE Inv'
  BY <1>2, PutRequestKeeps, PutRejectedKeeps, GetBeginsKeeps DEF Begins
<1>3. ASSUME NEW s \in Streams, Works(s) PROVE Inv'
  <2>1. CASE Granted(s)
    BY <2>1, GrantedKeeps
  <2>2. CASE \E f \in Frames(s) : ReadFrame(s, f)
    BY <2>2, ReadFrameKeeps
  <2>3. CASE ReadFails(s)
    BY <2>3, ReadFailsKeeps
  <2>4. CASE Prefixed(s)
    BY <2>4, PrefixedKeeps
  <2>5. CASE ExportFile(s)
    BY <2>5, ExportFileKeeps
  <2>6. CASE ExportItem(s)
    BY <2>6, ExportItemKeeps
  <2>7. CASE ExportFails(s)
    BY <2>7, ExportFailsKeeps
  <2>8. CASE PutReply(s)
    BY <2>8, PutReplyKeeps
  <2>9. CASE StatFile(s)
    BY <2>9, StatFileKeeps
  <2>10. CASE \E more \in 0 .. MaxGrowth : ReadFile(s, more)
    BY <2>10, ReadFileKeeps
  <2>11. CASE KeepFile(s)
    BY <2>11, KeepFileKeeps
  <2>12. CASE AddRoot(s)
    BY <2>12, AddRootKeeps
  <2>13. CASE GetFails(s)
    BY <2>13, GetFailsKeeps
  <2>14. CASE \E fetched \in BOOLEAN : GetReply(s, fetched)
    BY <2>14, GetReplyKeeps
  <2>15. CASE StoreFails(s)
    BY <2>15, StoreFailsKeeps
  <2> QED
    BY <1>3, <2>1, <2>2, <2>3, <2>4, <2>5, <2>6, <2>7, <2>8, <2>9, <2>10, <2>11, <2>12, <2>13, <2>14,
       <2>15
    DEF Works, Proceeds
<1>4. ASSUME NEW s \in Streams, Lose(s) PROVE Inv'
  BY <1>4, LoseKeeps
<1> QED
  BY <1>1, <1>2, <1>3, <1>4 DEF Next

\* What the handlers hold, and have in memory, follows from what each may have.
LEMMA InvBudget == Inv => BudgetHolds
<1> SUFFICES ASSUME Inv PROVE BudgetHolds
  OBVIOUS
<1> DEFINE h == [s \in Streams |-> tx[s].held]
           a == [s \in Streams |-> Allowance(tx[s])]
           m == [s \in Streams |-> tx[s].mem]
<1>1. /\ free \in Nat /\ grown \in 0 .. MaxGrowth /\ grown \in Nat /\ lost \in SUBSET Streams /\ queue \in Seq(Streams)
      /\ QueueInv /\ free + Held = Budget /\ Allowed <= Held * Unit + grown
      /\ Unit \in Nat \ {0} /\ Budget \in Nat /\ Budget * Unit = Cap /\ Cap \in Nat /\ IsFiniteSet(Streams)
  BY BlobsAssumption, BudgetBytes DEF Inv, TypeInv, BudgetInv
<1>2. \A s \in Streams : /\ tx[s] \in Handlers /\ tx[s].held \in Nat /\ tx[s].mem \in Nat /\ tx[s].need \in Nat
                         /\ Allowance(tx[s]) \in Nat /\ tx[s].mem <= Allowance(tx[s])
  BY StreamFacts, Numbers, AllowanceFacts
<1>3. Summable(h, Streams) /\ Summable(a, Streams) /\ Summable(m, Streams)
  BY <1>1, <1>2 DEF Summable
<1> DEFINE c == [s \in Streams |-> Collection(tx[s])]
           all == [s \in Streams |-> tx[s].mem + Collection(tx[s])]
<1>12. \A s \in Streams : Collection(tx[s]) \in Nat
  <2> SUFFICES ASSUME NEW s \in Streams, tx[s].job # NoJob PROVE Sizes[tx[s].job][Len(Sizes[tx[s].job])] \in Nat
    BY DEF Collection
  <2>1. tx[s].job \in Jobs
    BY <1>2 DEF Handlers
  <2>2. Sizes[tx[s].job] \in Seq(Nat) /\ Len(Sizes[tx[s].job]) > 0
    BY <2>1, BlobsAssumption
  <2> QED
    BY <2>2
<1>13. Summable(c, Streams) /\ Summable(all, Streams)
  <2>1. \A s \in Streams : tx[s].mem + Collection(tx[s]) \in Nat
    BY <1>2, <1>12
  <2> QED
    BY <1>1, <1>12, <2>1 DEF Summable
<1>4. /\ Held = SumOver(h, Streams) /\ Allowed = SumOver(a, Streams) /\ Memory = SumOver(all, Streams)
      /\ Collections = SumOver(c, Streams)
  BY DEF Held, Allowed, Memory, Collections
<1>5. \A s \in Streams : h[s] = tx[s].held /\ m[s] <= a[s] /\ all[s] = m[s] + c[s]
  BY <1>2
<1> DEFINE blobs == SumOver(m, Streams)
<1> HIDE DEF h, a, m, c, all
<1>6. /\ Held \in Nat /\ blobs \in Nat /\ Allowed \in Nat /\ blobs <= Allowed
      /\ Memory \in Nat /\ Collections \in Nat
  BY <1>3, <1>4, <1>5, <1>13, CellsFinite, SumMono
<1>14. Memory <= blobs + Collections
  BY <1>3, <1>4, <1>5, <1>13, SumPlus
<1> HIDE DEF blobs
<1>7. \A s \in Streams : tx[s].held <= Held
  <2> SUFFICES ASSUME NEW s \in Streams PROVE h[s] <= Held
    BY <1>5
  <2> QED
    BY <1>3, <1>4, SumChange
<1>8. Held <= Budget /\ free <= Budget
  BY <1>1, <1>6
<1>9. Memory <= Cap + grown + Collections
  <2> DEFINE x == Held * Unit
  <2>1. x \in Nat /\ x <= Cap
    BY <1>1, <1>6, <1>8, Multiples
  <2>2. Allowed <= x + grown
    BY <1>1
  <2> HIDE DEF x
  <2> QED
    BY <1>1, <1>6, <1>14, <2>1, <2>2
<1>10. TypeOK
  <2>1. \A i, k \in 1 .. Len(queue) : queue[i] \in Streams /\ (queue[i] = queue[k] => i = k)
    BY <1>1, ElementOfSeq DEF QueueInv
  <2>2. ASSUME NEW s \in Streams
        PROVE  /\ tx[s].pc \in Places /\ tx[s].told \in Answers
               /\ tx[s].held \in 0 .. Budget /\ tx[s].need \in 0 .. Budget
    <3>1. tx[s].pc \in Places /\ tx[s].told \in Answers
      BY <1>2 DEF Handlers
    <3>2. tx[s].need <= Budget
      BY StreamFacts DEF HoldOK
    <3> QED
      BY <1>1, <1>2, <1>6, <1>7, <1>8, <3>1, <3>2
  <2> QED
    BY <1>1, <1>8, <2>1, <2>2 DEF TypeOK, Places, Answers
<1>11. ASSUME NEW s \in Streams, tx[s].op = "put" PROVE tx[s].mem <= tx[s].held * Unit
  <2>1. tx[s] \in Handlers /\ HoldOK(tx[s], In(s, queue)) /\ tx[s].pc # "keep"
    BY <1>11, StreamFacts DEF SentOK
  <2> QED
    BY <2>1, Covered
<1> QED
  BY <1>1, <1>9, <1>10, <1>11 DEF BudgetHolds

\* What an honest client is told is what is at its destination.
LEMMA InvHonest == Inv => HonestServed
<1> SUFFICES ASSUME Inv, NEW s \in Streams \ Strangers, tx[s].op = "put", ~Contended(s)
             PROVE  /\ tx[s].told = "ok" => target[tx[s].path].items = Items(tx[s].job)
                    /\ tx[s].told \in {"error", "mismatch"} => tx[s].fault \/ Total(tx[s].job) > Cap
  BY DEF HonestServed
<1>1. PlaceOK(s, tx[s], target[tx[s].path])
  BY DEF Inv, PlaceInv
<1> QED
  BY <1>1 DEF PlaceOK

\* For any number of streams, any jobs and any sizes, the permits of the
\* connection are neither lost nor made, and what the handlers have in memory
\* exceeds the budget only by what files grew and by the collections that are
\* built or exported without a share, however the blobs interleave and whatever
\* a peer sends (BlobMemoryGuard, blob_memory_permits, export_collection).
THEOREM BudgetKept == Spec => []BudgetHolds
<1>1. Init => Inv
  BY InitInv
<1>2. Inv /\ [Next]_vars => Inv'
  BY NextInv
<1>3. Inv => BudgetHolds
  BY InvBudget
<1> QED
  BY <1>1, <1>2, <1>3, PTL DEF Spec

\* For any number of streams, any jobs and any sizes, a client that follows the
\* protocol and is told that its upload is in place finds every file there, and
\* is refused only for a fault, a size past the limit or a place that is taken
\* (handle_put_blob_body against upload_blob_file_inner).
THEOREM HonestAreServed == Spec => []HonestServed
<1>1. Init => Inv
  BY InitInv
<1>2. Inv /\ [Next]_vars => Inv'
  BY NextInv
<1>3. Inv => HonestServed
  BY InvHonest
<1> QED
  BY <1>1, <1>2, <1>3, PTL DEF Spec

-----------------------------------------------------------------------------
(***************************************************************************)
(* The connection.  Each of its steps is a step of one part and leaves the *)
(* other as it is, so that it has what was proved of both.                 *)
(***************************************************************************)
\* A step of the connection, seen from each part.
LEMMA PartSteps ==
  /\ ConnInit => SideInit /\ Init
  /\ [ConnNext]_connVars => [SideNext]_sideVars
  /\ [ConnNext]_connVars => [Next]_vars
<1>1. ConnNext => SideNext \/ UNCHANGED sideVars
  BY DEF ConnNext, SideMoves, BlobMoves, Returns, SideNext
<1>2. ConnNext => Next \/ UNCHANGED vars
  BY DEF ConnNext, SideMoves, BlobMoves, Next
<1>3. UNCHANGED connVars => UNCHANGED sideVars /\ UNCHANGED vars
  BY DEF connVars
<1> QED
  BY <1>1, <1>2, <1>3 DEF ConnInit

\* The connection implements the specification of its side streams and that of
\* its transfers (side_streams.rs:78-95 hands a stream over and waits for it).
THEOREM ConnectionImplements == ConnSpec => SideSpec /\ Spec
  BY PartSteps, PTL DEF ConnSpec, SideSpec, Spec

\* The budget and the answers are right on a connection as a whole, in whatever
\* order its streams pass the gate (side_streams.rs:66-95, transfer/state.rs:44).
THEOREM ConnectionServes == ConnSpec => [](BudgetHolds /\ HonestServed)
  BY ConnectionImplements, BudgetKept, HonestAreServed, PTL

\* While the gate is shut no transfer can move, and a gate that is open or
\* whose owner is gone stays so.
LEMMA NextUntouched == GateInv /\ Untouched /\ [ConnNext]_connVars => Untouched'
<1> SUFFICES ASSUME GateInv, Untouched, [ConnNext]_connVars PROVE Untouched'
  OBVIOUS
<1>1. [SideNext]_sideVars
  BY PartSteps
<1>2. GateHolds'
  BY <1>1, NextGateInv DEF GateInv
<1> SUFFICES ASSUME (ssh = "up" /\ ~gate)' PROVE Init'
  BY <1>2 DEF Untouched
<1>3. ssh = "up" /\ ~gate
  BY <1>1 DEF SideNext, Around, Arrives, ConnCloses, AuthSucceeds, SessionEnds, ListenerEnds,
              PeerOpens, Accept, ReadMagic, MagicFails, PassGate, GateFails, Served, sideVars,
              GateInv, SideTypeOK
<1>4. Init /\ \A s \in Sides : stream[s] # "serving"
  BY <1>3 DEF Untouched, GateHolds
<1>5. ~(\E s \in Streams : BlobMoves(s))
  BY <1>4, ConnectionAssumption DEF BlobMoves, Carries
<1>6. UNCHANGED vars
  BY <1>5 DEF ConnNext, SideMoves, connVars
<1> QED
  BY <1>4, <1>6 DEF Init, vars

\* Until the session's handler has accepted the client nothing is served, taken
\* from the budget, stored or written, for any number of streams and whatever
\* the peer opens and sends (side_streams.rs:63-76, handler/mod.rs:90-103).
THEOREM UntouchedBefore == ConnSpec => []Untouched
<1>1. ConnInit => GateInv /\ Untouched
  <2>1. ConnInit => SideInit /\ Init
    BY PartSteps
  <2> QED
    BY <2>1, InitGateInv DEF Untouched, GateInv
<1>2. GateInv /\ Untouched /\ [ConnNext]_connVars => (GateInv /\ Untouched)'
  BY PartSteps, NextGateInv, NextUntouched
<1> QED
  BY <1>1, <1>2, PTL DEF ConnSpec
=============================================================================
