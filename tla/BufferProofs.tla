----------------------------- MODULE BufferProofs -----------------------------
(***************************************************************************)
(* What is proved of the parts that keep sequences: the ring of events of  *)
(* a run and the stream to its page, the control queue of the live feed,   *)
(* the buffer of bars, the queue of market events and the queue of the     *)
(* Rust scheduler, for any limits.                                         *)
(***************************************************************************)
EXTENDS RunEvents, LiveFeed, BarWrites, MarketEvents, ComputeQueue, FiniteSetTheorems, SequenceTheorems, TLAPS

-----------------------------------------------------------------------------
(* Induction over the natural numbers, as a fact about sets: the theorem of *)
(* the library takes a predicate, which the provers cannot instantiate.     *)

LEMMA LeastOf ==
    ASSUME NEW T, T \subseteq Nat, T # {}
    PROVE  \E n \in T : \A m \in T : n <= m
  <1> DEFINE R == OpToRel(<, Nat)
  <1>1. IsWellFoundedOn(R, Nat)
    BY NatLessThanWellFounded
  <1>2. \A x, y : <<y, x>> \in R <=> y \in Nat /\ x \in Nat /\ y < x
    BY Zenon DEF OpToRel
  <1> HIDE DEF R
  <1>3. PICK n \in T : \A m \in T : ~(<<m, n>> \in R)
    BY <1>1, WFMin
  <1>4. \A m \in T : ~(m < n)
    BY <1>2, <1>3
  <1>5. QED
    BY <1>4

LEMMA GreatestOf ==
    ASSUME NEW n \in Nat, NEW T, T \subseteq 0..n, T # {}
    PROVE  \E m \in T : \A k \in T : k <= m
  <1> DEFINE U == {n - k : k \in T}
  <1>1. U \subseteq Nat /\ U # {}
    <2>1. \A k \in T : n - k \in Nat
      OBVIOUS
    <2>2. QED
      BY <2>1, Zenon
  <1>2. PICK u \in U : \A v \in U : u <= v
    BY <1>1, LeastOf
  <1>3. PICK m \in T : u = n - m
    BY <1>2
  <1>4. ASSUME NEW k \in T PROVE k <= m
    <2>1. u <= n - k
      BY <1>2
    <2>2. k \in 0..n /\ m \in 0..n
      OBVIOUS
    <2>3. QED
      BY <1>3, <2>1, <2>2
  <1>5. QED
    BY <1>4

LEMMA UpTo ==
    ASSUME NEW n \in Nat, NEW S, 0 \in S, \A k \in 0..n - 1 : k \in S => k + 1 \in S
    PROVE  0..n \subseteq S
  <1> SUFFICES ASSUME 0..n \ S # {} PROVE FALSE
    OBVIOUS
  <1> DEFINE R == 0..n \ S
  <1>0. R \subseteq Nat /\ R # {}
    OBVIOUS
  <1> HIDE DEF R
  <1>1. PICK k \in R : \A m \in R : k <= m
    BY <1>0, LeastOf
  <1>2. k \in 0..n /\ k \notin S /\ k # 0
    BY DEF R
  <1>3. k - 1 \in 0..n - 1 /\ k - 1 \notin R
    BY <1>0, <1>1, <1>2
  <1>4. k - 1 \in S
    BY <1>3 DEF R
  <1>5. QED
    BY <1>2, <1>3, <1>4

-----------------------------------------------------------------------------
(* The entries of a sequence at some of its places *)

LEMMA PlacesInOrder ==
    ASSUME NEW n \in Nat, NEW P, P \subseteq 1..n
    PROVE  /\ IsFiniteSet(P) /\ Cardinality(P) \in 0..n
           /\ \A k \in 1..Cardinality(P) : PlaceOf(P, k) \in P
           /\ \A k, l \in 1..Cardinality(P) : k < l => PlaceOf(P, k) < PlaceOf(P, l)
           /\ \A i \in P : \E k \in 1..Cardinality(P) : PlaceOf(P, k) = i
  <1> DEFINE c == Cardinality(P)
             upTo(i) == {j \in P : j <= i}
             rank == [i \in P |-> Cardinality(upTo(i))]
  <1>1. IsFiniteSet(P) /\ c \in Nat /\ c <= n
    <2>1. IsFiniteSet(1..n) /\ Cardinality(1..n) = n
      BY FS_Interval
    <2>2. IsFiniteSet(P) /\ c <= n
      BY <2>1, FS_Subset
    <2>3. QED
      BY <2>2, FS_CardinalityType
  <1>2. ASSUME NEW i \in P
        PROVE  IsFiniteSet(upTo(i)) /\ Cardinality(upTo(i)) \in 1..c
    <2>1. IsFiniteSet(upTo(i)) /\ Cardinality(upTo(i)) <= c /\ Cardinality(upTo(i)) \in Nat
      BY <1>1, FS_Subset, FS_CardinalityType
    <2>2. i \in upTo(i)
      OBVIOUS
    <2>3. Cardinality(upTo(i)) # 0
      BY <2>1, <2>2, FS_EmptySet
    <2> HIDE DEF upTo
    <2>4. QED
      BY <1>1, <2>1, <2>3
  <1>3. ASSUME NEW i \in P, NEW j \in P, i < j
        PROVE  Cardinality(upTo(i)) < Cardinality(upTo(j))
    <2>0. i \in Nat /\ j \in Nat /\ P \subseteq Nat
      OBVIOUS
    <2>1. upTo(i) \subseteq upTo(j) /\ j \in upTo(j) /\ j \notin upTo(i)
      <3>1. \A l \in P : l <= i => l <= j
        BY <1>3, <2>0
      <3>2. j <= j /\ ~(j <= i)
        BY <1>3, <2>0
      <3>3. QED
        BY <3>1, <3>2
    <2>2. IsFiniteSet(upTo(i)) /\ IsFiniteSet(upTo(j))
      BY <1>2
    <2> HIDE DEF upTo
    <2>3. Cardinality(upTo(i)) <= Cardinality(upTo(j)) /\ Cardinality(upTo(i)) # Cardinality(upTo(j))
      BY <2>1, <2>2, FS_Subset
    <2>4. Cardinality(upTo(i)) \in Nat /\ Cardinality(upTo(j)) \in Nat
      BY <2>2, FS_CardinalityType
    <2>5. QED
      BY <2>3, <2>4
  <1> HIDE DEF upTo
  <1>4. rank \in [P -> 1..c]
    BY <1>2
  <1>5. \A i, j \in P : rank[i] = rank[j] => i = j
    <2> SUFFICES ASSUME NEW i \in P, NEW j \in P, rank[i] = rank[j], i # j PROVE FALSE
      OBVIOUS
    <2>1. i < j \/ j < i
      OBVIOUS
    <2>2. rank[i] < rank[j] \/ rank[j] < rank[i]
      BY <2>1, <1>3
    <2>3. QED
      BY <2>2, <1>4
  <1>6. rank \in Surjection(P, 1..c)
    <2>1. rank \in Injection(P, 1..c)
      BY <1>4, <1>5 DEF Injection, IsInjective
    <2>2. IsFiniteSet(1..c) /\ Cardinality(1..c) = c
      BY <1>1, FS_Interval
    <2> HIDE DEF rank
    <2>3. QED
      BY <2>1, <2>2, FS_Injection
  <1>7. \A k \in 1..c : \E i \in P : rank[i] = k
    BY <1>6 DEF Surjection
  <1>8. ASSUME NEW k \in 1..c PROVE PlaceOf(P, k) \in P /\ rank[PlaceOf(P, k)] = k
    <2>1. \E i \in P : Cardinality(upTo(i)) = k
      BY <1>7
    <2>2. PlaceOf(P, k) = CHOOSE i \in P : Cardinality(upTo(i)) = k
      BY DEF PlaceOf, upTo
    <2>3. QED
      BY <2>1, <2>2
  <1>9. ASSUME NEW k \in 1..c, NEW l \in 1..c, k < l PROVE PlaceOf(P, k) < PlaceOf(P, l)
    <2> DEFINE i == PlaceOf(P, k)
               j == PlaceOf(P, l)
    <2>1. i \in P /\ j \in P /\ rank[i] < rank[j]
      BY <1>8, <1>9
    <2> HIDE DEF i, j
    <2>2. ~(j < i) /\ i # j
      BY <2>1, <1>3, <1>4
    <2>3. i < j
      BY <2>1, <2>2
    <2>4. QED
      BY <2>3 DEF i, j
  <1>10. ASSUME NEW i \in P PROVE \E k \in 1..c : PlaceOf(P, k) = i
    <2>1. rank[i] \in 1..c
      BY <1>4
    <2>2. rank[PlaceOf(P, rank[i])] = rank[i] /\ PlaceOf(P, rank[i]) \in P
      BY <1>8, <2>1
    <2>3. PlaceOf(P, rank[i]) = i
      BY <1>5, <2>2
    <2>4. QED
      BY <2>1, <2>3
  <1>11. c \in 0..n
    BY <1>1
  <1>12. /\ \A k \in 1..c : PlaceOf(P, k) \in P
         /\ \A i \in P : \E k \in 1..c : PlaceOf(P, k) = i
    BY <1>8, <1>10
  <1> HIDE DEF c
  <1>13. \A k, l \in 1..c : k < l => PlaceOf(P, k) < PlaceOf(P, l)
    BY <1>9
  <1>14. QED
    BY <1>1, <1>11, <1>12, <1>13 DEF c

(* m tells from which places of s the entries of r are, in the order of s. *)
InOrder(m, r, s, P) ==
    /\ m \in [1..Len(r) -> P]
    /\ \A k \in 1..Len(r) : r[k] = s[m[k]]
    /\ \A k, l \in 1..Len(r) : k < l => m[k] < m[l]
    /\ \A i \in P : \E k \in 1..Len(r) : m[k] = i

LEMMA EntriesInOrder ==
    ASSUME NEW T, NEW s \in Seq(T), NEW P, P \subseteq 1..Len(s)
    PROVE  /\ EntriesAt(s, P) \in Seq(T)
           /\ Len(EntriesAt(s, P)) = Cardinality(P)
           /\ Cardinality(P) \in 0..Len(s)
           /\ \E m : InOrder(m, EntriesAt(s, P), s, P)
  <1> DEFINE c == Cardinality(P)
             m == [k \in 1..c |-> PlaceOf(P, k)]
  <1>1. Len(s) \in Nat
    OBVIOUS
  <1>2. /\ c \in 0..Len(s)
        /\ \A k \in 1..c : PlaceOf(P, k) \in P
        /\ \A k, l \in 1..c : k < l => PlaceOf(P, k) < PlaceOf(P, l)
        /\ \A i \in P : \E k \in 1..c : PlaceOf(P, k) = i
    BY <1>1, PlacesInOrder
  <1>3. EntriesAt(s, P) = [k \in 1..c |-> s[PlaceOf(P, k)]]
    BY DEF EntriesAt
  <1> HIDE DEF c
  <1>4. \A k \in 1..c : s[PlaceOf(P, k)] \in T
    <2>1. \A i \in 1..Len(s) : s[i] \in T
      OBVIOUS
    <2>2. QED
      BY <1>2, <2>1
  <1>5. EntriesAt(s, P) \in Seq(T) /\ Len(EntriesAt(s, P)) = c
    <2>1. c \in Nat
      BY <1>2
    <2>2. QED
      BY <1>3, <1>4, <2>1
  <1>6. InOrder(m, EntriesAt(s, P), s, P)
    BY <1>2, <1>3, <1>5 DEF InOrder
  <1>7. QED
    BY <1>2, <1>5, <1>6 DEF c
-----------------------------------------------------------------------------
(* Folds.  FoldLeft is a CHOOSE of a function on the sets of places that    *)
(* satisfies a recursion; such a function exists where each step keeps the  *)
(* accumulator in a set.                                                    *)

LEMMA MaxOf ==
    ASSUME NEW i \in Nat, NEW s, s \subseteq 1..i, i \in s
    PROVE  Max(s) = i
  <1>1. \E x \in s : \A y \in s : x >= y
    OBVIOUS
  <1>2. Max(s) \in s /\ \A y \in s : Max(s) >= y
    BY <1>1 DEF Max
  <1>3. Max(s) \in 1..i /\ Max(s) >= i
    BY <1>2
  <1>4. \A m \in 1..i : m >= i => m = i
    OBVIOUS
  <1>5. QED
    BY <1>3, <1>4

LEMMA MaxUpTo ==
    ASSUME NEW i \in Nat, i # 0
    PROVE  Max(1..i) = i /\ (1..i) \ {i} = 1..i - 1
  <1>1. Max(1..i) = i
    BY MaxOf
  <1>2. (1..i) \ {i} = 1..i - 1
    <2>1. \A j \in 1..i : j # i <=> j <= i - 1
      OBVIOUS
    <2>2. QED
      BY <2>1
  <1>3. QED
    BY <1>1, <1>2

FoldOf(f, n, S, base, step) ==
    /\ f \in [SUBSET (1..n) -> S]
    /\ \A s \in SUBSET (1..n) : f[s] = IF s = {} THEN base ELSE step[Max(s)][f[s \ {Max(s)}]]

LEMMA FoldSolved ==
    ASSUME NEW n \in Nat, NEW S, NEW base \in S, NEW step \in [1..n -> [S -> S]]
    PROVE  \E f : FoldOf(f, n, S, base, step)
  <1> DEFINE Solves(f, k) ==
               /\ f \in [SUBSET (1..k) -> S]
               /\ \A s \in SUBSET (1..k) :
                    f[s] = IF s = {} THEN base ELSE step[Max(s)][f[s \ {Max(s)}]]
             Solved == {k \in 0..n : \E f : Solves(f, k)}
  <1>1. 0 \in Solved
    <2> DEFINE f == [s \in SUBSET (1..0) |-> base]
    <2>1. f \in [SUBSET (1..0) -> S] /\ \A s \in SUBSET (1..0) : s = {} /\ f[s] = base
      OBVIOUS
    <2>2. Solves(f, 0)
      BY <2>1
    <2>3. 0 \in 0..n
      OBVIOUS
    <2> HIDE DEF Solves, f
    <2>4. QED
      BY <2>2, <2>3
  <1>2. ASSUME NEW k \in 0..n - 1, k \in Solved PROVE k + 1 \in Solved
    <2>1. PICK f : Solves(f, k)
      BY <1>2
    <2> DEFINE m == k + 1
               g == [s \in SUBSET (1..m) |-> IF m \in s THEN step[m][f[s \ {m}]] ELSE f[s]]
    <2>2. m \in 1..n /\ k \in Nat /\ step[m] \in [S -> S]
      OBVIOUS
    <2>3. ASSUME NEW s \in SUBSET (1..m)
          PROVE  IF m \in s THEN s \ {m} \in SUBSET (1..k) ELSE s \in SUBSET (1..k)
      <3>1. \A j \in 1..m : j # m => j \in 1..k
        <4>1. \A j \in Nat : j <= m /\ j # m => j <= k
          BY <2>2
        <4>2. QED
          BY <4>1, <2>2
      <3>2. \A j \in s : j # m => j \in 1..k
        BY <3>1
      <3>3. s \ {m} \subseteq 1..k
        BY <3>2
      <3>4. m \notin s => s \subseteq 1..k
        BY <3>2
      <3>5. QED
        BY <3>3, <3>4
    <2>4. g \in [SUBSET (1..m) -> S]
      <3>1. ASSUME NEW s \in SUBSET (1..m) PROVE g[s] \in S
        BY <2>1, <2>2, <2>3
      <3>2. QED
        BY <3>1
    <2>5. ASSUME NEW s \in SUBSET (1..m)
          PROVE  g[s] = IF s = {} THEN base ELSE step[Max(s)][g[s \ {Max(s)}]]
      <3>1. CASE m \in s
        <4>1. Max(s) = m
          <5>1. m \in Nat /\ s \subseteq 1..m
            BY <2>2
          <5> HIDE DEF m
          <5>2. QED
            BY <3>1, <5>1, MaxOf
        <4>2. s \ {m} \in SUBSET (1..m) /\ m \notin s \ {m} /\ s # {}
          BY <3>1
        <4>3. g[s \ {m}] = f[s \ {m}]
          BY <4>2
        <4>4. g[s] = step[m][f[s \ {m}]]
          BY <3>1
        <4> HIDE DEF g
        <4>5. QED
          BY <4>1, <4>2, <4>3, <4>4
      <3>2. CASE m \notin s
        <4>1. s \in SUBSET (1..k) /\ g[s] = f[s]
          BY <3>2, <2>3
        <4>2. f[s] = IF s = {} THEN base ELSE step[Max(s)][f[s \ {Max(s)}]]
          BY <2>1, <4>1
        <4>3. s \ {Max(s)} \in SUBSET (1..m) /\ m \notin s \ {Max(s)}
          BY <3>2
        <4>4. g[s \ {Max(s)}] = f[s \ {Max(s)}]
          BY <4>3
        <4>5. QED
          BY <4>1, <4>2, <4>4
      <3>3. QED
        BY <3>1, <3>2
    <2>6. Solves(g, m)
      BY <2>4, <2>5
    <2>7. m \in 0..n
      OBVIOUS
    <2> HIDE DEF Solves, g
    <2>8. QED
      BY <2>6, <2>7
  <1>3. n \in Solved
    <2> HIDE DEF Solved
    <2>1. 0..n \subseteq Solved
      BY <1>1, <1>2, UpTo
    <2>2. QED
      BY <2>1
  <1>4. PICK f : Solves(f, n)
    BY <1>3
  <1>5. QED
    BY <1>4 DEF FoldOf

-----------------------------------------------------------------------------
(* BarWrites *)

BarBuffer == [queued : Seq(Entry), best : [Bars -> BarRecord], displaced : SUBSET Bars, lost : SUBSET Bars]

OneEach(q) == \A i, j \in DOMAIN q : q[i].bar = q[j].bar => i = j

(* What is known best is at least as good as what is kept. *)
NoneAbove(entries, known) == \A e \in entries : ~Better(Record(e), known[e.bar])

(* The store has it, or would not take it; or it is among the entries, lost *)
(* with a write, or a forming bar that a final one displaced.               *)
BestKept(entries, known, displ, los, rows) ==
    \A b \in Bars :
      \/ Upsert(rows[b], known[b]) = rows[b]
      \/ \E e \in entries : e.bar = b /\ Record(e) = known[b]
      \/ b \in los
      \/ b \in displ /\ ~known[b].final

BarsInv ==
    /\ BarsTypeOK
    /\ OneEach(queued) /\ OneEach(writing)
    /\ NoneAbove(ToSet(queued) \cup ToSet(writing), best)
    /\ BarsReachTheStore

(* A buffer to which records may be added while w is written and rows are   *)
(* stored                                                                   *)
SoundBuffer(x, w, rows) ==
    /\ Len(x.queued) <= MaximumEntries
    /\ OneEach(x.queued)
    /\ NoneAbove(ToSet(x.queued) \cup w, x.best)
    /\ BestKept(ToSet(x.queued) \cup w, x.best, x.displaced, x.lost, rows)

(* Better is a strict weak order, by what it looks at of a record. *)
LEMMA BetterOrders ==
    ASSUME NEW x \in BarRecord, NEW y \in BarRecord, NEW z \in BarRecord
    PROVE  /\ ~Better(x, y) /\ ~Better(y, z) => ~Better(x, z)
           /\ ~Better(x, x)
  BY BarWritesAssumption DEF Better, BarRecord

LEMMA EntryRecord ==
    ASSUME NEW e \in Entry
    PROVE  /\ e.bar \in Bars /\ Record(e) \in BarRecord
           /\ Record(e).final = e.final /\ Record(e).at = e.at
  BY BarWritesAssumption DEF Entry, Record, BarRecord, SourceRank, QualityRank

LEMMA BetterRecord ==
    ASSUME NEW e \in Entry, NEW f \in Entry, NEW x
    PROVE  /\ Better(x, e) = Better(x, Record(e))
           /\ Better(f, e) = Better(Record(f), Record(e))
  BY EntryRecord DEF Better

(* Preferred keeps the record there is when that one is better, and takes   *)
(* the one that comes otherwise.                                            *)
LEMMA PreferredEntry ==
    ASSUME NEW x \in Entry, NEW y \in Entry
    PROVE  /\ Preferred(x, y) \in {x, y}
           /\ Better(Record(x), Record(y)) => Preferred(x, y) = x
           /\ ~Better(Record(x), Record(y)) => Preferred(x, y) = y
  <1>1. x.final \in BOOLEAN /\ y.final \in BOOLEAN /\ x.at \in Int /\ y.at \in Int
    BY BarWritesAssumption DEF Entry
  <1>2. Better(Record(x), Record(y)) = Better(x, y)
    BY BetterRecord
  <1>3. QED
    BY <1>1, <1>2 DEF Better, Preferred

(* What the database compares of a record says what it is. *)
LEMMA RanksTell ==
    /\ \A u \in DOMAIN QualityRank : QualityRank[u] \in Nat
    /\ \A u, v \in DOMAIN QualityRank : QualityRank[u] = QualityRank[v] => u = v
    /\ \A u \in DOMAIN SourceRank : SourceRank[u] \in Nat
    /\ \A u, v \in DOMAIN SourceRank : SourceRank[u] = SourceRank[v] => u = v
  BY DEF QualityRank, SourceRank

(* The order of the database: a record that outranks the one that outranks  *)
(* a row outranks the row, and two that outrank each other are one.         *)
LEMMA OutranksOrders ==
    ASSUME NEW x \in BarRecord, NEW y \in BarRecord, NEW z \in BarRecord
    PROVE  /\ Outranks(x, y) /\ Outranks(y, z) => Outranks(x, z)
           /\ Outranks(x, y) /\ Outranks(y, x) => x = y
  <1>1. ASSUME NEW u \in BarRecord
        PROVE  /\ u.final \in BOOLEAN /\ u.at \in Int
               /\ u.quality \in DOMAIN QualityRank /\ u.source \in DOMAIN SourceRank
               /\ QualityRank[u.quality] \in Nat /\ SourceRank[u.source] \in Nat
    BY BarWritesAssumption, RanksTell DEF BarRecord
  <1>2. Outranks(x, y) /\ Outranks(y, z) => Outranks(x, z)
    BY <1>1, RanksTell DEF Outranks
  <1>3. ASSUME Outranks(x, y) /\ Outranks(y, x) PROVE x = y
    <2>1. x.final = y.final /\ x.quality = y.quality /\ x.source = y.source /\ x.at = y.at
      BY <1>1, <1>3, RanksTell DEF Outranks
    <2>2. QED
      BY <2>1 DEF BarRecord
  <1>4. QED
    BY <1>2, <1>3

(* A row that would not change for a record does not after it was written   *)
(* again, with whatever record; and it does not after that record was.      *)
LEMMA UpsertKeeps ==
    ASSUME NEW row \in BarRecord, NEW r \in BarRecord, NEW b \in BarRecord
    PROVE  /\ Upsert(row, r) \in BarRecord
           /\ Upsert(row, b) = row => Upsert(Upsert(row, r), b) = Upsert(row, r)
           /\ Upsert(Upsert(row, b), b) = Upsert(row, b)
  <1>1. Upsert(row, b) = row /\ Outranks(r, row) => Upsert(r, b) = r
    <2> SUFFICES ASSUME Upsert(row, b) = row, Outranks(r, row), Outranks(b, r) PROVE b = r
      BY DEF Upsert
    <2>1. Outranks(b, row)
      BY OutranksOrders
    <2>2. b = row
      BY <2>1 DEF Upsert
    <2>3. QED
      BY <2>2, OutranksOrders
  <1>2. QED
    BY <1>1 DEF Upsert

(* A fold of Enqueued stays where every step stays. *)
LEMMA EnqueuedInTurn ==
    ASSUME NEW S, NEW base \in S, NEW T, NEW seq \in Seq(T),
           \A x \in S, e \in T : Enqueued(x, e) \in S
    PROVE  FoldLeft(Enqueued, base, seq) \in S
  <1> DEFINE n == Len(seq)
             Solves(f) == f = [s \in SUBSET (1..n) |->
                                 IF s = {} THEN base
                                 ELSE Enqueued(f[s \ {Max(s)}], seq[Max(s)])]
  <1>1. n \in Nat /\ DOMAIN seq = 1..n /\ \A i \in 1..n : seq[i] \in T
    OBVIOUS
  <1> HIDE DEF n
  <1>2. \E f : Solves(f)
    <2> DEFINE step == [i \in 1..n |-> [x \in S |-> Enqueued(x, seq[i])]]
    <2>1. step \in [1..n -> [S -> S]]
      BY <1>1
    <2> HIDE DEF step
    <2>2. PICK f : FoldOf(f, n, S, base, step)
      BY <1>1, <2>1, FoldSolved
    <2> USE DEF FoldOf, step
    <2>3. ASSUME NEW s \in SUBSET (1..n), s # {}
          PROVE  step[Max(s)][f[s \ {Max(s)}]] = Enqueued(f[s \ {Max(s)}], seq[Max(s)])
      <3>1. PICK m \in s : \A k \in s : k <= m
        <4>1. s \subseteq 0..n
          BY <1>1
        <4>2. QED
          BY <1>1, <2>3, <4>1, GreatestOf
      <3>2. \E x \in s : \A y \in s : x >= y
        <4>1. \A k \in s : k \in Nat
          BY <1>1
        <4>2. QED
          BY <3>1, <4>1
      <3>3. Max(s) \in s
        BY <3>2 DEF Max
      <3>4. Max(s) \in 1..n /\ f[s \ {Max(s)}] \in S
        BY <2>2, <3>3
      <3>5. QED
        BY <3>4
    <2> HIDE DEF step
    <2>4. Solves(f)
      BY <2>2, <2>3 DEF FoldOf
    <2>5. QED
      BY <2>4
  <1> DEFINE iter == CHOOSE f : Solves(f)
  <1>3. Solves(iter)
    BY <1>2
  <1>4. FoldLeft(Enqueued, base, seq) = iter[1..n]
    BY <1>1 DEF FoldLeft, MapThenFoldSet
  <1> HIDE DEF iter
  <1>5. iter[{}] = base
    BY <1>3
  <1>6. ASSUME NEW i \in 1..n PROVE iter[1..i] = Enqueued(iter[1..i - 1], seq[i])
    <2>1. i \in Nat /\ i # 0
      BY <1>1
    <2>2. Max(1..i) = i /\ (1..i) \ {i} = 1..i - 1
      BY <2>1, MaxUpTo
    <2>3. 1..i \in SUBSET (1..n) /\ 1..i # {}
      <3>1. i \in 1..i /\ \A j \in 1..i : j \in 1..n
        BY <1>1, <2>1
      <3>2. QED
        BY <3>1
    <2>4. QED
      BY <1>3, <2>2, <2>3
  <1> DEFINE Kept == {i \in 0..n : iter[1..i] \in S}
  <1>7. 0 \in Kept
    <2>1. 1..0 = {} /\ 0 \in 0..n
      BY <1>1
    <2>2. QED
      BY <1>5, <2>1
  <1>8. ASSUME NEW k \in 0..n - 1, k \in Kept PROVE k + 1 \in Kept
    <2>1. k + 1 \in 1..n /\ (k + 1) - 1 = k /\ k + 1 \in 0..n
      BY <1>1
    <2>2. iter[1..k + 1] = Enqueued(iter[1..k], seq[k + 1])
      BY <1>6, <2>1
    <2>3. iter[1..k] \in S /\ seq[k + 1] \in T
      BY <1>1, <1>8, <2>1
    <2>4. QED
      BY <2>1, <2>2, <2>3
  <1>9. n \in Kept
    <2> HIDE DEF Kept
    <2>1. 0..n \subseteq Kept
      BY <1>1, <1>7, <1>8, UpTo
    <2>2. QED
      BY <1>1, <2>1
  <1>10. QED
    BY <1>4, <1>9

LEMMA EntryRemoved ==
    ASSUME NEW T, NEW q \in Seq(T), NEW i \in DOMAIN q
    PROVE  /\ RemoveAt(q, i) \in Seq(T) /\ Len(RemoveAt(q, i)) = Len(q) - 1
           /\ \A k \in 1..Len(q) - 1 : RemoveAt(q, i)[k] = IF k < i THEN q[k] ELSE q[k + 1]
  <1>1. i \in 1..Len(q) /\ Len(q) \in Nat /\ \A k \in 1..Len(q) : q[k] \in T
    OBVIOUS
  <1> DEFINE a == SubSeq(q, 1, i - 1)
             b == SubSeq(q, i + 1, Len(q))
  <1>2. a \in Seq(T) /\ Len(a) = i - 1 /\ \A k \in 1..i - 1 : a[k] = q[k]
    BY <1>1
  <1>3. b \in Seq(T) /\ Len(b) = Len(q) - i /\ \A k \in 1..Len(q) - i : b[k] = q[i + k]
    BY <1>1
  <1>4. RemoveAt(q, i) = a \o b
    BY DEF RemoveAt
  <1> HIDE DEF a, b
  <1>5. a \o b \in Seq(T) /\ Len(a \o b) = Len(q) - 1
    BY <1>1, <1>2, <1>3
  <1>6. ASSUME NEW k \in 1..Len(q) - 1 PROVE (a \o b)[k] = IF k < i THEN q[k] ELSE q[k + 1]
    <2>1. CASE k < i
      BY <1>1, <1>2, <1>3, <2>1
    <2>2. CASE ~(k < i)
      <3>1. (a \o b)[k] = b[k - (i - 1)] /\ k - (i - 1) \in 1..Len(q) - i
        BY <1>1, <1>2, <1>3, <2>2
      <3>2. i + (k - (i - 1)) = k + 1
        BY <1>1
      <3>3. QED
        BY <1>3, <2>2, <3>1, <3>2
    <2>3. QED
      BY <2>1, <2>2
  <1>7. QED
    BY <1>4, <1>5, <1>6

(* What enqueue remembers of a record it takes *)
Took(x, e) ==
    IF Better(x.best[e.bar], e) THEN x
    ELSE [x EXCEPT !.best[e.bar] = Record(e),
                   !.displaced = @ \ {e.bar}, !.lost = @ \ {e.bar}]

LEMMA BestTaken ==
    ASSUME NEW x \in BarBuffer, NEW e \in Entry, NEW w \in SUBSET Entry, NEW rows \in [Bars -> BarRecord],
           SoundBuffer(x, w, rows)
    PROVE  LET y == Took(x, e)
           IN /\ y \in BarBuffer /\ y.queued = x.queued
              /\ NoneAbove(ToSet(x.queued) \cup w \cup {e}, y.best)
              /\ BestKept(ToSet(x.queued) \cup w \cup {e}, y.best, y.displaced, y.lost, rows)
              /\ y.best[e.bar] = Record(e) \/ Better(y.best[e.bar], Record(e))
  <1>1. /\ x.queued \in Seq(Entry) /\ x.best \in [Bars -> BarRecord]
        /\ x.displaced \subseteq Bars /\ x.lost \subseteq Bars
        /\ e.bar \in Bars /\ Record(e) \in BarRecord
    BY EntryRecord DEF BarBuffer
  <1>2. \A f \in ToSet(x.queued) \cup w : f.bar \in Bars /\ Record(f) \in BarRecord
    <2>1. ToSet(x.queued) \cup w \subseteq Entry
      BY <1>1 DEF ToSet
    <2>2. QED
      BY <2>1, EntryRecord
  <1>3. Better(x.best[e.bar], e) = Better(x.best[e.bar], Record(e))
    BY BetterRecord
  <1>4. CASE ~Better(x.best[e.bar], e)
    <2> DEFINE y == Took(x, e)
    <2>1. y = [x EXCEPT !.best[e.bar] = Record(e), !.displaced = @ \ {e.bar}, !.lost = @ \ {e.bar}]
      BY <1>4 DEF Took
    <2> HIDE DEF y
    <2>2. /\ y \in BarBuffer /\ y.queued = x.queued
          /\ y.displaced = x.displaced \ {e.bar} /\ y.lost = x.lost \ {e.bar}
          /\ y.best = [x.best EXCEPT ![e.bar] = Record(e)]
      <3> DEFINE b == [x.best EXCEPT ![e.bar] = Record(e)]
                 d == x.displaced \ {e.bar}
                 l == x.lost \ {e.bar}
      <3>1. b \in [Bars -> BarRecord] /\ d \in SUBSET Bars /\ l \in SUBSET Bars
        BY <1>1
      <3>2. y = [x EXCEPT !.best = b, !.displaced = d, !.lost = l]
        BY <2>1 DEF BarBuffer
      <3> HIDE DEF b, d, l
      <3>3. y \in BarBuffer /\ y.queued = x.queued /\ y.displaced = d /\ y.lost = l /\ y.best = b
        BY <1>1, <3>1, <3>2 DEF BarBuffer
      <3>4. QED
        BY <3>3 DEF b, d, l
    <2>3. y.best[e.bar] = Record(e) /\ \A b \in Bars : b # e.bar => y.best[b] = x.best[b]
      BY <1>1, <2>2
    <2>4. ASSUME NEW rec \in BarRecord, NEW b \in Bars, ~Better(rec, x.best[b])
          PROVE  ~Better(rec, y.best[b])
      <3>1. CASE b = e.bar
        <4>1. x.best[b] \in BarRecord /\ ~Better(x.best[b], Record(e))
          BY <1>1, <1>3, <1>4, <3>1
        <4>2. ~Better(rec, Record(e))
          BY <1>1, <2>4, <4>1, BetterOrders
        <4>3. QED
          BY <2>3, <3>1, <4>2
      <3>2. CASE b # e.bar
        BY <2>3, <2>4, <3>2
      <3>3. QED
        BY <3>1, <3>2
    <2>5. NoneAbove(ToSet(x.queued) \cup w \cup {e}, y.best)
      <3>1. \A f \in ToSet(x.queued) \cup w : ~Better(Record(f), y.best[f.bar])
        BY <1>2, <2>4 DEF SoundBuffer, NoneAbove
      <3>2. ~Better(Record(e), y.best[e.bar])
        BY <1>1, <2>3, BetterOrders
      <3>3. QED
        BY <3>1, <3>2 DEF NoneAbove
    <2>6. BestKept(ToSet(x.queued) \cup w \cup {e}, y.best, y.displaced, y.lost, rows)
      <3> SUFFICES ASSUME NEW b \in Bars
                   PROVE  \/ Upsert(rows[b], y.best[b]) = rows[b]
                          \/ \E f \in ToSet(x.queued) \cup w \cup {e} : f.bar = b /\ Record(f) = y.best[b]
                          \/ b \in y.lost
                          \/ b \in y.displaced /\ ~y.best[b].final
        BY DEF BestKept
      <3>1. CASE b = e.bar
        BY <2>3, <3>1
      <3>2. CASE b # e.bar
        BY <2>2, <2>3, <3>2 DEF SoundBuffer, BestKept
      <3>3. QED
        BY <3>1, <3>2
    <2>7. QED
      BY <2>2, <2>3, <2>5, <2>6 DEF y
  <1>5. CASE Better(x.best[e.bar], e)
    <2>1. Took(x, e) = x
      BY <1>5 DEF Took
    <2>2. ~Better(Record(e), x.best[e.bar])
      <3>1. Better(x.best[e.bar], Record(e)) /\ x.best[e.bar] \in BarRecord
        BY <1>1, <1>3, <1>5
      <3>2. QED
        BY <1>1, <3>1, BarWritesAssumption DEF Better, BarRecord
    <2>3. NoneAbove(ToSet(x.queued) \cup w \cup {e}, x.best)
      BY <2>2 DEF SoundBuffer, NoneAbove
    <2>4. BestKept(ToSet(x.queued) \cup w \cup {e}, x.best, x.displaced, x.lost, rows)
      BY DEF SoundBuffer, BestKept
    <2>5. QED
      BY <1>3, <1>5, <2>1, <2>3, <2>4
  <1>6. QED
    BY <1>4, <1>5

(* The record takes the place of the one of its bar. *)
LEMMA RecordReplaced ==
    ASSUME NEW x \in BarBuffer, NEW e \in Entry, NEW w \in SUBSET Entry, NEW rows \in [Bars -> BarRecord],
           SoundBuffer(x, w, rows), NEW i \in DOMAIN x.queued, x.queued[i].bar = e.bar
    PROVE  LET z == [Took(x, e) EXCEPT !.queued[i] = Preferred(@, e)]
           IN z \in BarBuffer /\ SoundBuffer(z, w, rows)
  <1> DEFINE q == x.queued
             y == Took(x, e)
             z == [y EXCEPT !.queued[i] = Preferred(@, e)]
             p == Preferred(q[i], e)
  <1>1. /\ y \in BarBuffer /\ y.queued = q
        /\ NoneAbove(ToSet(q) \cup w \cup {e}, y.best)
        /\ BestKept(ToSet(q) \cup w \cup {e}, y.best, y.displaced, y.lost, rows)
        /\ y.best[e.bar] = Record(e) \/ Better(y.best[e.bar], Record(e))
    BY BestTaken
  <1>2. q \in Seq(Entry) /\ i \in 1..Len(q) /\ q[i] \in Entry
    BY DEF BarBuffer
  <1> HIDE DEF y, q
  <1>3. /\ p \in {q[i], e} /\ p \in Entry /\ p.bar = e.bar
        /\ Better(Record(q[i]), Record(e)) => p = q[i]
        /\ ~Better(Record(q[i]), Record(e)) => p = e
    BY <1>2, PreferredEntry DEF q
  <1> HIDE DEF p
  <1>4. /\ z \in BarBuffer /\ z.best = y.best /\ z.displaced = y.displaced /\ z.lost = y.lost
        /\ z.queued = [q EXCEPT ![i] = p]
    <2>1. z = [y EXCEPT !.queued = [q EXCEPT ![i] = p]]
      BY <1>1, <1>2 DEF BarBuffer, p
    <2>2. [q EXCEPT ![i] = p] \in Seq(Entry)
      BY <1>2, <1>3
    <2> HIDE DEF z
    <2>3. QED
      BY <1>1, <2>1, <2>2 DEF BarBuffer
  <1> HIDE DEF z
  <1>5. /\ Len(z.queued) = Len(q) /\ z.queued[i] = p
        /\ \A j \in 1..Len(q) : j # i => z.queued[j] = q[j]
    BY <1>2, <1>4
  <1>6. p \in ToSet(z.queued) /\ \A f \in ToSet(z.queued) : f = p \/ f \in ToSet(q)
    BY <1>2, <1>4, <1>5 DEF ToSet
  <1>7. Len(z.queued) <= MaximumEntries /\ OneEach(z.queued)
    <2>1. OneEach(q) /\ Len(q) <= MaximumEntries
      BY DEF SoundBuffer, q
    <2>2. DOMAIN z.queued = 1..Len(q) /\ DOMAIN q = 1..Len(q)
      BY <1>2, <1>4
    <2>3. \A j \in 1..Len(q) : z.queued[j].bar = q[j].bar
      BY <1>3, <1>5 DEF q
    <2>4. QED
      BY <1>5, <2>1, <2>2, <2>3 DEF OneEach
  <1>8. NoneAbove(ToSet(z.queued) \cup w, z.best)
    <2>1. \A f \in ToSet(z.queued) : f = p \/ f \in ToSet(q)
      BY <1>6
    <2>2. p \in ToSet(q) \cup {e}
      BY <1>2, <1>3 DEF ToSet
    <2>3. QED
      BY <1>1, <1>4, <2>1, <2>2 DEF NoneAbove
  <1>9. BestKept(ToSet(z.queued) \cup w, z.best, z.displaced, z.lost, rows)
    <2> SUFFICES ASSUME NEW b \in Bars, Upsert(rows[b], z.best[b]) # rows[b], b \notin z.lost,
                        ~(b \in z.displaced /\ ~z.best[b].final)
                 PROVE  \E f \in ToSet(z.queued) \cup w : f.bar = b /\ Record(f) = z.best[b]
      BY DEF BestKept
    <2>1. PICK f \in ToSet(q) \cup w \cup {e} : f.bar = b /\ Record(f) = y.best[b]
      BY <1>1, <1>4 DEF BestKept
    <2>2. CASE f = e \/ f = q[i]
      <3>1. b = e.bar /\ p.bar = b
        BY <1>3, <2>1, <2>2 DEF q
      <3>2. Record(q[i]) \in BarRecord /\ Record(e) \in BarRecord
        BY <1>2, EntryRecord
      <3>3. ~Better(Record(q[i]), y.best[b])
        <4>1. q[i] \in ToSet(q) /\ q[i].bar = b
          BY <1>2, <3>1 DEF ToSet, q
        <4>2. QED
          BY <1>1, <4>1 DEF NoneAbove
      <3>4. CASE y.best[b] = Record(e)
        BY <1>3, <1>4, <1>6, <3>1, <3>3, <3>4
      <3>5. CASE Better(y.best[b], Record(e))
        <4>1. f = q[i]
          BY <2>1, <2>2, <3>2, <3>5, BetterOrders
        <4>2. QED
          BY <1>3, <1>4, <1>6, <2>1, <3>1, <3>5, <4>1
      <3>6. QED
        BY <1>1, <3>1, <3>4, <3>5
    <2>3. CASE f \in w
      BY <1>4, <2>1, <2>3
    <2>4. CASE f \in ToSet(q) /\ f # q[i]
      <3>1. PICK j \in 1..Len(q) : f = q[j]
        BY <1>2, <2>4 DEF ToSet
      <3>2. f \in ToSet(z.queued)
        BY <1>2, <1>4, <1>5, <2>4, <3>1 DEF ToSet
      <3>3. QED
        BY <1>4, <2>1, <3>2
    <2>5. QED
      BY <2>2, <2>3, <2>4, <2>1
  <1>10. SoundBuffer(z, w, rows)
    BY <1>1, <1>4, <1>7, <1>8, <1>9 DEF SoundBuffer
  <1>11. QED
    BY <1>4, <1>10 DEF z, y, q

(* The record is added, perhaps in the place of an entry that was removed;  *)
(* what has gone, a forming bar, is displaced if it was the best.           *)
LEMMA RecordAdded ==
    ASSUME NEW x \in BarBuffer, NEW e \in Entry, NEW w \in SUBSET Entry, NEW rows \in [Bars -> BarRecord],
           SoundBuffer(x, w, rows), \A j \in DOMAIN x.queued : x.queued[j].bar # e.bar,
           NEW z \in BarBuffer, NEW r \in Seq(Entry), NEW gone,
           z.queued = Append(r, e), z.best = Took(x, e).best,
           z.displaced = Took(x, e).displaced \cup BestOf(Took(x, e).best, gone),
           z.lost = Took(x, e).lost, \A g \in gone : ~g.final,
           Len(r) < MaximumEntries, OneEach(r),
           ToSet(r) \subseteq ToSet(x.queued), ToSet(x.queued) \subseteq ToSet(r) \cup gone
    PROVE  SoundBuffer(z, w, rows)
  <1> DEFINE y == Took(x, e)
  <1>1. /\ NoneAbove(ToSet(x.queued) \cup w \cup {e}, y.best)
        /\ BestKept(ToSet(x.queued) \cup w \cup {e}, y.best, y.displaced, y.lost, rows)
    BY BestTaken
  <1> HIDE DEF y
  <1>2. /\ Len(z.queued) = Len(r) + 1 /\ DOMAIN z.queued = 1..Len(r) + 1 /\ Len(r) \in Nat
        /\ z.queued[Len(r) + 1] = e /\ \A j \in 1..Len(r) : z.queued[j] = r[j]
        /\ DOMAIN r = 1..Len(r)
    OBVIOUS
  <1>3. \A j \in 1..Len(r) : r[j] \in ToSet(x.queued)
    BY <1>2 DEF ToSet
  <1>4. \A j \in 1..Len(r) : r[j].bar # e.bar
    BY <1>3 DEF ToSet
  <1>5. OneEach(z.queued)
    <2> SUFFICES ASSUME NEW i \in 1..Len(r) + 1, NEW j \in 1..Len(r) + 1,
                        z.queued[i].bar = z.queued[j].bar
                 PROVE  i = j
      BY <1>2 DEF OneEach
    <2>1. CASE i \in 1..Len(r) /\ j \in 1..Len(r)
      BY <1>2, <2>1 DEF OneEach
    <2>2. CASE i = Len(r) + 1 \/ j = Len(r) + 1
      BY <1>2, <1>4, <2>2
    <2>3. QED
      BY <1>2, <2>1, <2>2
  <1>6. ToSet(z.queued) = ToSet(r) \cup {e}
    <2>1. \A f \in ToSet(z.queued) : f \in ToSet(r) \cup {e}
      BY <1>2 DEF ToSet
    <2>2. \A f \in ToSet(r) : f \in ToSet(z.queued)
      BY <1>2 DEF ToSet
    <2>3. e \in ToSet(z.queued)
      BY <1>2 DEF ToSet
    <2>4. QED
      BY <2>1, <2>2, <2>3
  <1>7. NoneAbove(ToSet(z.queued) \cup w, z.best)
    BY <1>1, <1>6 DEF NoneAbove, y
  <1>8. BestKept(ToSet(z.queued) \cup w, z.best, z.displaced, z.lost, rows)
    <2> SUFFICES ASSUME NEW b \in Bars, Upsert(rows[b], z.best[b]) # rows[b], b \notin z.lost,
                        ~(b \in z.displaced /\ ~z.best[b].final)
                 PROVE  \E f \in ToSet(z.queued) \cup w : f.bar = b /\ Record(f) = z.best[b]
      BY DEF BestKept
    <2>1. z.best = y.best /\ z.lost = y.lost /\ z.displaced = y.displaced \cup BestOf(y.best, gone)
      BY DEF y
    <2>2. PICK f \in ToSet(x.queued) \cup w \cup {e} : f.bar = b /\ Record(f) = y.best[b]
      BY <1>1, <2>1 DEF BestKept
    <2>3. f \notin gone
      <3> SUFFICES ASSUME f \in gone PROVE FALSE
        OBVIOUS
      <3>1. b \in BestOf(y.best, gone)
        BY <2>2 DEF BestOf
      <3>2. ~y.best[b].final
        BY <2>2 DEF Record
      <3>3. QED
        BY <2>1, <3>1, <3>2
    <2>4. f \in ToSet(z.queued) \cup w
      BY <1>6, <2>2, <2>3
    <2>5. QED
      BY <2>1, <2>2, <2>4
  <1>9. QED
    BY <1>1, <1>2, <1>5, <1>7, <1>8, BarWritesAssumption DEF SoundBuffer, y

LEMMA EnqueuedSound ==
    ASSUME NEW x \in BarBuffer, NEW e \in Entry, NEW w \in SUBSET Entry, NEW rows \in [Bars -> BarRecord],
           SoundBuffer(x, w, rows)
    PROVE  Enqueued(x, e) \in BarBuffer /\ SoundBuffer(Enqueued(x, e), w, rows)
  <1> DEFINE q == x.queued
             y == Took(x, e)
             same == {i \in DOMAIN q : q[i].bar = e.bar}
             first == CHOOSE i \in Forming(q) : \A j \in Forming(q) : i <= j
  <1>1. y \in BarBuffer /\ y.queued = q /\ q \in Seq(Entry) /\ Len(q) \in Nat
    <2>1. y \in BarBuffer /\ y.queued = q
      BY BestTaken
    <2>2. q \in Seq(Entry)
      BY DEF BarBuffer
    <2>3. QED
      BY <2>1, <2>2
  <1>2. CASE same # {}
    <2> DEFINE i == CHOOSE i \in same : TRUE
    <2>1. i \in DOMAIN q /\ q[i].bar = e.bar
      BY <1>2
    <2>2. Enqueued(x, e) = [y EXCEPT !.queued[i] = Preferred(@, e)]
      BY <1>2 DEF Enqueued, Took
    <2> HIDE DEF i
    <2>3. QED
      BY <2>1, <2>2, RecordReplaced
  <1>3. CASE same = {} /\ Len(q) < MaximumEntries
    <2>1. Enqueued(x, e) = [y EXCEPT !.queued = Append(@, e)]
      BY <1>3 DEF Enqueued, Took
    <2> DEFINE z == Enqueued(x, e)
    <2> HIDE DEF y
    <2>2. /\ z \in BarBuffer /\ z.queued = Append(q, e) /\ z.best = y.best
          /\ z.displaced = y.displaced /\ z.lost = y.lost
      <3>1. z = [y EXCEPT !.queued = Append(q, e)] /\ Append(q, e) \in Seq(Entry)
        BY <1>1, <2>1
      <3> HIDE DEF z
      <3>2. QED
        BY <1>1, <3>1 DEF BarBuffer
    <2>3. z.displaced = y.displaced \cup BestOf(y.best, {}) /\ \A g \in {} : ~g.final
      BY <2>2 DEF BestOf
    <2>4. OneEach(q) /\ ToSet(q) \subseteq ToSet(q) /\ ToSet(q) \subseteq ToSet(q) \cup {}
      BY DEF SoundBuffer
    <2>5. \A j \in DOMAIN x.queued : x.queued[j].bar # e.bar
      BY <1>3
    <2> HIDE DEF z
    <2>6. SoundBuffer(z, w, rows)
      BY <1>1, <1>3, <2>2, <2>3, <2>4, <2>5, RecordAdded DEF y, q
    <2>7. QED
      BY <2>2, <2>6 DEF z
  <1>4. CASE same = {} /\ ~(Len(q) < MaximumEntries) /\ e.final /\ Forming(q) # {}
    <2>1. first \in Forming(q) /\ first \in DOMAIN q
      <3>1. Forming(q) \subseteq Nat
        BY <1>1 DEF Forming
      <3>2. \E i \in Forming(q) : \A j \in Forming(q) : i <= j
        BY <1>4, <3>1, LeastOf
      <3>3. first \in Forming(q)
        BY <3>2
      <3>4. QED
        BY <3>3 DEF Forming
    <2> DEFINE gone == {q[first]}
               r == RemoveAt(q, first)
               z == Enqueued(x, e)
    <2>2. z = [y EXCEPT !.queued = Append(r, e), !.displaced = @ \cup BestOf(y.best, gone)]
      BY <1>4 DEF Enqueued, Took
    <2> HIDE DEF y, first
    <2>3. /\ r \in Seq(Entry) /\ Len(r) = Len(q) - 1
          /\ \A k \in 1..Len(q) - 1 : r[k] = IF k < first THEN q[k] ELSE q[k + 1]
      BY <1>1, <2>1, EntryRemoved
    <2> HIDE DEF r
    <2>4. BestOf(y.best, gone) \subseteq Bars
      <3>1. q[first] \in Entry
        BY <1>1, <2>1
      <3>2. QED
        BY <3>1 DEF BestOf, Entry
    <2>5. /\ z \in BarBuffer /\ z.queued = Append(r, e) /\ z.best = y.best
          /\ z.displaced = y.displaced \cup BestOf(y.best, gone) /\ z.lost = y.lost
      <3>1. Append(r, e) \in Seq(Entry)
        BY <2>3
      <3> HIDE DEF z, q
      <3>2. QED
        BY <1>1, <2>2, <2>4, <3>1 DEF BarBuffer
    <2> HIDE DEF z
    <2>6. first \in 1..Len(q) /\ DOMAIN r = 1..Len(q) - 1 /\ DOMAIN q = 1..Len(q) /\ OneEach(q)
      BY <1>1, <2>1, <2>3 DEF SoundBuffer
    <2>7. OneEach(r)
      <3> SUFFICES ASSUME NEW k \in 1..Len(q) - 1, NEW l \in 1..Len(q) - 1, r[k].bar = r[l].bar
                   PROVE  k = l
        BY <2>6 DEF OneEach
      <3> DEFINE place(n) == IF n < first THEN n ELSE n + 1
      <3>1. place(k) \in 1..Len(q) /\ place(l) \in 1..Len(q) /\ r[k] = q[place(k)] /\ r[l] = q[place(l)]
        BY <1>1, <2>3, <2>6
      <3>2. place(k) = place(l)
        <4> HIDE DEF place
        <4>1. QED
          BY <2>6, <3>1 DEF OneEach
      <3>3. QED
        BY <1>1, <2>6, <3>2
    <2>8. ToSet(r) \subseteq ToSet(q)
      <3>1. \A k \in 1..Len(q) - 1 : \E j \in 1..Len(q) : r[k] = q[j]
        BY <1>1, <2>3
      <3>2. QED
        BY <2>6, <3>1 DEF ToSet
    <2>9. ToSet(q) \subseteq ToSet(r) \cup gone
      <3>1. ASSUME NEW j \in 1..Len(q), j # first PROVE q[j] \in ToSet(r)
        <4>1. CASE j < first
          <5>1. j \in 1..Len(q) - 1
            BY <1>1, <2>6, <4>1
          <5>2. r[j] = q[j]
            BY <2>3, <4>1, <5>1
          <5>3. QED
            BY <2>6, <5>1, <5>2 DEF ToSet
        <4>2. CASE j > first
          <5>1. j - 1 \in 1..Len(q) - 1 /\ ~(j - 1 < first) /\ (j - 1) + 1 = j
            BY <1>1, <2>6, <4>2
          <5>2. r[j - 1] = q[j]
            BY <2>3, <5>1
          <5>3. QED
            BY <2>6, <5>1, <5>2 DEF ToSet
        <4>3. QED
          BY <2>6, <3>1, <4>1, <4>2
      <3>2. QED
        BY <2>6, <3>1 DEF ToSet
    <2>10. Len(r) < MaximumEntries
      BY <1>1, <2>3, BarWritesAssumption DEF SoundBuffer
    <2>11. \A j \in DOMAIN x.queued : x.queued[j].bar # e.bar
      BY <1>4
    <2>12. \A g \in gone : ~g.final
      BY <2>1 DEF Forming
    <2> HIDE DEF gone
    <2>13. SoundBuffer(z, w, rows)
      BY <2>3, <2>5, <2>7, <2>8, <2>9, <2>10, <2>11, <2>12, RecordAdded DEF y, q
    <2>14. QED
      BY <2>5, <2>13 DEF z
  <1>5. CASE same = {} /\ ~(Len(q) < MaximumEntries) /\ ~(e.final /\ Forming(q) # {})
    BY <1>5 DEF Enqueued
  <1>6. QED
    BY <1>2, <1>3, <1>4, <1>5

LEMMA EntriesOf ==
    ASSUME NEW T, NEW s \in Seq(T), NEW P, P \subseteq DOMAIN s
    PROVE  /\ EntriesAt(s, P) \in Seq(T) /\ Len(EntriesAt(s, P)) = Cardinality(P)
           /\ Cardinality(P) \in 0..Len(s)
           /\ ToSet(EntriesAt(s, P)) = {s[i] : i \in P}
  <1> DEFINE r == EntriesAt(s, P)
             c == Cardinality(P)
  <1>1. P \subseteq 1..Len(s)
    OBVIOUS
  <1>2. /\ r \in Seq(T) /\ Len(r) = c /\ c \in 0..Len(s)
        /\ \E m : InOrder(m, r, s, P)
    BY <1>1, EntriesInOrder
  <1> HIDE DEF r, c
  <1>3. PICK m \in [1..c -> P] :
             /\ \A k \in 1..c : r[k] = s[m[k]]
             /\ \A k, l \in 1..c : k < l => m[k] < m[l]
             /\ \A i \in P : \E k \in 1..c : m[k] = i
    BY <1>2 DEF InOrder
  <1>4. DOMAIN r = 1..c
    BY <1>2
  <1>5. \A x \in ToSet(r) : x \in {s[i] : i \in P}
    BY <1>3, <1>4 DEF ToSet
  <1>6. ASSUME NEW i \in P PROVE s[i] \in ToSet(r)
    <2>1. PICK k \in 1..c : m[k] = i
      BY <1>3
    <2>2. r[k] = s[i]
      BY <1>3, <2>1
    <2>3. QED
      BY <1>4, <2>2 DEF ToSet
  <1>7. QED
    BY <1>2, <1>5, <1>6 DEF r, c

(* Entries of several bars remain entries of several bars, in whatever      *)
(* order they are taken.                                                    *)
LEMMA EachOnce ==
    ASSUME NEW q \in Seq(Entry), OneEach(q), NEW P, P \subseteq DOMAIN q
    PROVE  OneEach(EntriesAt(q, P))
  <1> DEFINE r == EntriesAt(q, P)
             c == Cardinality(P)
  <1>1. P \subseteq 1..Len(q)
    OBVIOUS
  <1>2. /\ r \in Seq(Entry) /\ Len(r) = c /\ c \in 0..Len(q)
        /\ \E m : InOrder(m, r, q, P)
    BY <1>1, EntriesInOrder
  <1> HIDE DEF r, c
  <1>3. PICK m \in [1..c -> P] :
             /\ \A k \in 1..c : r[k] = q[m[k]]
             /\ \A k, l \in 1..c : k < l => m[k] < m[l]
    BY <1>2 DEF InOrder
  <1>4. DOMAIN r = 1..c /\ DOMAIN q = 1..Len(q) /\ c \in Nat
    BY <1>2
  <1> SUFFICES ASSUME NEW k \in 1..c, NEW l \in 1..c, r[k].bar = r[l].bar PROVE k = l
    BY <1>4 DEF OneEach, r
  <1>5. m[k] \in DOMAIN q /\ m[l] \in DOMAIN q /\ q[m[k]].bar = q[m[l]].bar
    BY <1>3
  <1>6. m[k] = m[l]
    BY <1>5 DEF OneEach
  <1>7. m[k] \in Nat /\ (k < l \/ k = l \/ l < k)
    BY <1>4, <1>5
  <1>8. QED
    BY <1>3, <1>6, <1>7

LEMMA BatchOf ==
    ASSUME NEW q \in Seq(Entry), OneEach(q)
    PROVE  /\ Batch(q) \in Seq(Entry) /\ Len(Batch(q)) <= BatchSize /\ OneEach(Batch(q))
           /\ ToSet(Batch(q)) \subseteq ToSet(q)
           /\ Batch(q) = <<>> <=> q = <<>>
  <1> DEFINE F == Forming(q)
             D == DOMAIN q
             a == EntriesAt(q, D \ F)
             b == EntriesAt(q, F)
             n == IF Len(q) < BatchSize THEN Len(q) ELSE BatchSize
  <1>1. F \subseteq D /\ D = 1..Len(q) /\ Len(q) \in Nat /\ \A i \in D : q[i] \in Entry
    BY DEF Forming
  <1>2. /\ IsFiniteSet(D) /\ Cardinality(D) = Len(q)
        /\ Cardinality(F) \in Nat /\ Cardinality(D \ F) = Cardinality(D) - Cardinality(F)
    <2>1. IsFiniteSet(D) /\ Cardinality(D) = Len(q)
      <3>1. IsFiniteSet(1..Len(q)) /\ Cardinality(1..Len(q)) = IF 1 > Len(q) THEN 0 ELSE Len(q) - 1 + 1
        BY <1>1, FS_Interval
      <3>2. QED
        BY <1>1, <3>1
    <2>2. IsFiniteSet(F) /\ D \cap F = F
      BY <1>1, <2>1, FS_Subset
    <2>3. Cardinality(D \ F) = Cardinality(D) - Cardinality(D \cap F)
      BY <2>1, FS_Difference
    <2>4. QED
      BY <2>1, <2>2, <2>3, FS_CardinalityType
  <1>3. /\ a \in Seq(Entry) /\ Len(a) = Cardinality(D \ F) /\ ToSet(a) = {q[i] : i \in D \ F}
        /\ b \in Seq(Entry) /\ Len(b) = Cardinality(F) /\ ToSet(b) = {q[i] : i \in F}
        /\ OneEach(a) /\ OneEach(b)
    BY <1>1, EntriesOf, EachOnce
  <1> HIDE DEF F, D, a, b
  <1>4. a \o b \in Seq(Entry) /\ Len(a \o b) = Len(q)
    <2>1. Len(a) \in Nat /\ Len(b) \in Nat /\ Len(a) + Len(b) = Len(q)
      BY <1>1, <1>2, <1>3
    <2>2. QED
      BY <1>3, <2>1
  <1>5. /\ \A k \in 1..Len(a) : (a \o b)[k] = a[k] /\ a[k] \in {q[i] : i \in D \ F}
        /\ \A k \in 1..Len(b) : (a \o b)[Len(a) + k] = b[k] /\ b[k] \in {q[i] : i \in F}
    <2>1. DOMAIN a = 1..Len(a) /\ DOMAIN b = 1..Len(b) /\ Len(a) \in Nat /\ Len(b) \in Nat
      BY <1>3
    <2>2. \A k \in 1..Len(a) : a[k] \in {q[i] : i \in D \ F}
      BY <1>3, <2>1 DEF ToSet
    <2>3. \A k \in 1..Len(b) : b[k] \in {q[i] : i \in F}
      BY <1>3, <2>1 DEF ToSet
    <2>4. \A k \in 1..Len(a) : (a \o b)[k] = a[k]
      BY <1>3, <2>1
    <2>5. \A k \in 1..Len(b) : (a \o b)[Len(a) + k] = b[k]
      BY <1>3, <2>1
    <2>6. QED
      BY <2>2, <2>3, <2>4, <2>5
  <1>6. ASSUME NEW k \in 1..Len(q)
        PROVE  k \in 1..Len(a) \/ (k - Len(a) \in 1..Len(b) /\ Len(a) + (k - Len(a)) = k)
    <2>1. Len(a) \in Nat /\ Len(b) \in Nat /\ Len(a) + Len(b) = Len(q)
      BY <1>1, <1>2, <1>3
    <2>2. QED
      BY <2>1
  <1>7. ASSUME NEW k \in 1..Len(q), NEW l \in 1..Len(q), (a \o b)[k].bar = (a \o b)[l].bar
        PROVE  k = l
    <2>1. CASE k \in 1..Len(a) /\ l \in 1..Len(a)
      <3>1. DOMAIN a = 1..Len(a) /\ a[k].bar = a[l].bar
        BY <1>3, <1>5, <1>7, <2>1
      <3>2. QED
        BY <1>3, <2>1, <3>1 DEF OneEach
    <2>2. CASE k \notin 1..Len(a) /\ l \notin 1..Len(a)
      <3>1. k - Len(a) \in 1..Len(b) /\ l - Len(a) \in 1..Len(b)
            /\ b[k - Len(a)].bar = b[l - Len(a)].bar
        BY <1>5, <1>6, <1>7, <2>2
      <3>2. k - Len(a) = l - Len(a)
        BY <1>3, <3>1 DEF OneEach
      <3>3. QED
        BY <1>3, <3>2
    <2>3. ASSUME NEW u \in 1..Len(a), NEW v \in 1..Len(b), a[u].bar = b[v].bar PROVE FALSE
      <3>1. PICK i \in D \ F, j \in F : a[u] = q[i] /\ b[v] = q[j]
        BY <1>5
      <3>2. i = j
        BY <1>1, <2>3, <3>1 DEF OneEach
      <3>3. QED
        BY <3>1, <3>2
    <2>4. CASE k \in 1..Len(a) /\ l \notin 1..Len(a)
      <3>1. l - Len(a) \in 1..Len(b) /\ a[k].bar = b[l - Len(a)].bar
        BY <1>5, <1>6, <1>7, <2>4
      <3>2. QED
        BY <2>3, <2>4, <3>1
    <2>5. CASE k \notin 1..Len(a) /\ l \in 1..Len(a)
      <3>1. k - Len(a) \in 1..Len(b) /\ a[l].bar = b[k - Len(a)].bar
        BY <1>5, <1>6, <1>7, <2>5
      <3>2. QED
        BY <2>3, <2>5, <3>1
    <2>6. QED
      BY <2>1, <2>2, <2>4, <2>5
  <1>8. n \in 0..Len(q) /\ n <= BatchSize /\ (n = 0 <=> Len(q) = 0)
    BY <1>1, BarWritesAssumption
  <1>9. Batch(q) = SubSeq(a \o b, 1, n)
    BY DEF Batch, a, b, F, D
  <1> HIDE DEF n
  <1>10. /\ Batch(q) \in Seq(Entry) /\ Len(Batch(q)) = n
         /\ \A k \in 1..n : Batch(q)[k] = (a \o b)[k]
    <2> DEFINE o == a \o b
    <2> HIDE DEF o
    <2>1. SubSeq(o, 1, n) \in Seq(Entry) /\ Len(SubSeq(o, 1, n)) = n
          /\ \A k \in 1..n : SubSeq(o, 1, n)[k] = o[k]
      BY <1>1, <1>4, <1>8 DEF o
    <2>2. QED
      BY <1>9, <2>1 DEF o
  <1>11. DOMAIN Batch(q) = 1..n /\ \A k \in 1..n : k \in 1..Len(q)
    BY <1>1, <1>8, <1>10
  <1>12. OneEach(Batch(q))
    BY <1>7, <1>10, <1>11 DEF OneEach
  <1>13. ASSUME NEW k \in 1..n PROVE Batch(q)[k] \in ToSet(q)
    <2>1. (a \o b)[k] \in {q[i] : i \in D \ F} \cup {q[i] : i \in F}
      BY <1>5, <1>6, <1>11
    <2>2. QED
      BY <1>1, <1>10, <2>1 DEF ToSet, D
  <1>14. ToSet(Batch(q)) \subseteq ToSet(q)
    BY <1>11, <1>13 DEF ToSet
  <1>15. Batch(q) = <<>> <=> q = <<>>
    BY <1>8, <1>10
  <1>16. QED
    BY <1>8, <1>10, <1>12, <1>14, <1>15

-----------------------------------------------------------------------------
LEMMA BarsInitInv == ASSUME BarsInit PROVE BarsInv
  <1>1. queued = <<>> /\ writing = <<>> /\ ToSet(queued) \cup ToSet(writing) = {}
    BY DEF BarsInit, ToSet
  <1>2. BarsTypeOK
    <2>1. queued \in Seq(Entry) /\ writing \in Seq(Entry) /\ Len(queued) = 0 /\ Len(writing) = 0
      BY <1>1
    <2>2. 0 <= MaximumEntries /\ 0 <= BatchSize /\ 0 \in 0..MaxUpdates
      BY BarWritesAssumption
    <2>3. NoBar \in BarRecord
      BY <2>2 DEF NoBar, BarRecord, QualityRank, SourceRank
    <2>4. QED
      BY <2>1, <2>2, <2>3 DEF BarsInit, BarsTypeOK
  <1>3. OneEach(queued) /\ OneEach(writing)
    BY <1>1 DEF OneEach
  <1>4. NoneAbove(ToSet(queued) \cup ToSet(writing), best)
    BY <1>1 DEF NoneAbove
  <1>5. \A b \in Bars : stored[b] = NoBar /\ best[b] = NoBar
    BY DEF BarsInit
  <1>6. BarsReachTheStore
    BY <1>1, <1>5 DEF BarsReachTheStore, BarsInit, Upsert
  <1>7. QED
    BY <1>2, <1>3, <1>4, <1>6 DEF BarsInv

(* Where the drain goes on with q, what it writes and what it leaves are    *)
(* the entries of q.                                                        *)
LEMMA DrainKeeps ==
    ASSUME NEW q \in Seq(Entry), Len(q) <= MaximumEntries, OneEach(q), Drain(q)
    PROVE  /\ queued' \in Seq(Entry) /\ Len(queued') <= MaximumEntries /\ OneEach(queued')
           /\ writing' \in Seq(Entry) /\ Len(writing') <= BatchSize /\ OneEach(writing')
           /\ ToSet(queued)' \cup ToSet(writing)' = ToSet(q)
           /\ draining' \in BOOLEAN /\ (draining' <=> writing' # <<>>) /\ (draining' <=> q # <<>>)
           /\ queued' # <<>> => draining'
  <1> DEFINE P == {i \in DOMAIN q : q[i] \notin ToSet(Batch(q))}
  <1>1. /\ queued' = EntriesAt(q, P) /\ writing' = Batch(q) /\ draining' = (q # <<>>)
        /\ P \subseteq DOMAIN q
    BY DEF Drain
  <1>2. /\ Batch(q) \in Seq(Entry) /\ Len(Batch(q)) <= BatchSize /\ OneEach(Batch(q))
        /\ ToSet(Batch(q)) \subseteq ToSet(q) /\ (Batch(q) = <<>> <=> q = <<>>)
    BY BatchOf
  <1>3. ToSet(q) = {q[i] : i \in P} \cup ToSet(Batch(q))
    BY <1>2 DEF ToSet
  <1> HIDE DEF P
  <1>4. /\ EntriesAt(q, P) \in Seq(Entry) /\ Len(EntriesAt(q, P)) = Cardinality(P)
        /\ Cardinality(P) \in 0..Len(q) /\ ToSet(EntriesAt(q, P)) = {q[i] : i \in P}
    BY <1>1, EntriesOf
  <1>5. OneEach(EntriesAt(q, P))
    BY <1>1, EachOnce
  <1>6. /\ queued' \in Seq(Entry) /\ Len(queued') <= MaximumEntries /\ OneEach(queued')
        /\ ToSet(queued)' = {q[i] : i \in P}
    <2>1. Len(q) \in Nat /\ MaximumEntries \in Nat
      BY BarWritesAssumption
    <2>2. Len(EntriesAt(q, P)) <= MaximumEntries
      BY <1>4, <2>1
    <2>3. ToSet(queued)' = ToSet(EntriesAt(q, P))
      BY <1>1 DEF ToSet
    <2>4. QED
      BY <1>1, <1>4, <1>5, <2>2, <2>3
  <1>7. /\ writing' \in Seq(Entry) /\ Len(writing') <= BatchSize /\ OneEach(writing')
        /\ ToSet(writing)' = ToSet(Batch(q))
    BY <1>1, <1>2 DEF ToSet
  <1>8. queued' # <<>> => q # <<>>
    <2>1. q = <<>> => Len(EntriesAt(q, P)) = 0
      BY <1>4
    <2>2. QED
      BY <1>1, <1>4, <2>1
  <1>9. QED
    BY <1>1, <1>2, <1>3, <1>6, <1>7, <1>8

(* One call of persistUpdates *)
LEMMA BarUpdateInv ==
    ASSUME BarsInv, NEW bars \in Seq(Bars), BarUpdate(bars)
    PROVE  BarsInv'
  <1> DEFINE S == {x \in BarBuffer : SoundBuffer(x, ToSet(writing), stored)}
             buffer == [queued |-> queued, best |-> best, displaced |-> displaced, lost |-> lost]
  <1>1. /\ writing \in Seq(Entry) /\ ToSet(writing) \in SUBSET Entry
        /\ stored \in [Bars -> BarRecord]
    BY DEF BarsInv, BarsTypeOK, ToSet
  <1>2. buffer \in BarBuffer
    BY DEF BarsInv, BarsTypeOK, BarBuffer
  <1>3. SoundBuffer(buffer, ToSet(writing), stored)
    BY DEF BarsInv, BarsTypeOK, BarsReachTheStore, SoundBuffer, BestKept
  <1>4. buffer \in S
    BY <1>2, <1>3
  <1>5. updates < MaxUpdates /\ updates \in Nat /\ updates' = updates + 1
        /\ updates + 1 \in 1..MaxUpdates /\ MaxUpdates \in Nat
    BY BarWritesAssumption DEF BarUpdate, BarsInv, BarsTypeOK
  <1>6. PICK final \in [DOMAIN bars -> BOOLEAN], quality \in [DOMAIN bars -> {"partial", "complete"}] :
          LET after == FoldLeft(Enqueued, buffer,
                                [i \in DOMAIN bars |-> [bar |-> bars[i], final |-> final[i],
                                                        quality |-> quality[i], at |-> updates + 1]])
          IN /\ best' = after.best
             /\ displaced' = after.displaced /\ lost' = after.lost
             /\ IF draining
                THEN queued' = after.queued /\ UNCHANGED <<writing, draining>>
                ELSE Drain(after.queued)
    BY DEF BarUpdate
  <1> DEFINE seq == [i \in DOMAIN bars |-> [bar |-> bars[i], final |-> final[i],
                                             quality |-> quality[i], at |-> updates + 1]]
             after == FoldLeft(Enqueued, buffer, seq)
  <1>7. seq \in Seq(Entry)
    <2>1. \A i \in DOMAIN bars : seq[i] \in Entry
      BY <1>5 DEF Entry
    <2>2. QED
      BY <2>1
  <1> HIDE DEF seq, buffer
  <1>8. after \in S
    <2>1. \A x \in S, e \in Entry : Enqueued(x, e) \in S
      BY <1>1, EnqueuedSound
    <2> HIDE DEF S
    <2>2. QED
      BY <1>4, <1>7, <2>1, EnqueuedInTurn
  <1>9. /\ best' = after.best /\ displaced' = after.displaced /\ lost' = after.lost
        /\ IF draining
           THEN queued' = after.queued /\ UNCHANGED <<writing, draining>>
           ELSE Drain(after.queued)
        /\ UNCHANGED <<idleWait, stored>>
    BY <1>6 DEF BarUpdate, seq, buffer
  <1>10. after \in BarBuffer /\ SoundBuffer(after, ToSet(writing), stored)
    BY <1>8
  <1> HIDE DEF after, S
  <1>11. /\ after.queued \in Seq(Entry) /\ best' \in [Bars -> BarRecord]
         /\ displaced' \subseteq Bars /\ lost' \subseteq Bars
         /\ Len(after.queued) <= MaximumEntries /\ OneEach(after.queued)
    BY <1>9, <1>10 DEF BarBuffer, SoundBuffer
  <1>12. /\ queued' \in Seq(Entry) /\ Len(queued') <= MaximumEntries /\ OneEach(queued')
         /\ writing' \in Seq(Entry) /\ Len(writing') <= BatchSize /\ OneEach(writing')
         /\ ToSet(queued)' \cup ToSet(writing)' = ToSet(after.queued) \cup ToSet(writing)
         /\ draining' \in BOOLEAN /\ (draining' <=> writing' # <<>>)
         /\ (queued' # <<>> \/ idleWait') => draining'
    <2>1. CASE draining
      BY <1>9, <1>11, <2>1 DEF BarsInv, BarsTypeOK, BarsReachTheStore, ToSet
    <2>2. CASE ~draining
      <3>1. Drain(after.queued)
        BY <1>9, <2>2
      <3>2. ToSet(writing) = {} /\ ~idleWait'
        BY <1>9, <2>2 DEF BarsInv, BarsReachTheStore, ToSet
      <3>3. QED
        BY <1>11, <3>1, <3>2, DrainKeeps
    <2>3. QED
      BY <2>1, <2>2
  <1>13. BarsTypeOK'
    BY <1>5, <1>9, <1>11, <1>12 DEF BarsInv, BarsTypeOK
  <1>14. NoneAbove(ToSet(queued)' \cup ToSet(writing)', best')
    BY <1>9, <1>10, <1>12 DEF SoundBuffer
  <1>15. BestKept(ToSet(queued)' \cup ToSet(writing)', best', displaced', lost', stored')
    BY <1>9, <1>10, <1>12 DEF SoundBuffer
  <1>16. BarsReachTheStore'
    BY <1>12, <1>15 DEF BarsReachTheStore, BestKept
  <1>17. QED
    BY <1>12, <1>13, <1>14, <1>16 DEF BarsInv, OneEach, NoneAbove

(* The write has taken place for the bars of w. *)
LEMMA WriteEndsInv == ASSUME BarsInv, WriteEnds PROVE BarsInv'
  <1> DEFINE W == ToSet(writing)
             Q == ToSet(queued)
  <1>1. /\ queued \in Seq(Entry) /\ writing \in Seq(Entry)
        /\ Len(queued) <= MaximumEntries /\ OneEach(queued) /\ OneEach(writing)
        /\ stored \in [Bars -> BarRecord] /\ best \in [Bars -> BarRecord]
        /\ displaced \subseteq Bars /\ lost \subseteq Bars
        /\ updates \in 0..MaxUpdates /\ idleWait \in BOOLEAN
        /\ NoneAbove(Q \cup W, best)
        /\ BestKept(Q \cup W, best, displaced, lost, stored)
    BY DEF BarsInv, BarsTypeOK, BarsReachTheStore, BestKept
  <1>2. \A e \in W : e \in Entry /\ e.bar \in Bars /\ Record(e) \in BarRecord
    <2>1. W \subseteq Entry
      BY <1>1 DEF ToSet
    <2>2. QED
      BY <2>1, EntryRecord
  <1>3. \A e, f \in W : e.bar = f.bar => e = f
    BY <1>1 DEF ToSet, OneEach
  <1>4. /\ queued' \in Seq(Entry) /\ Len(queued') <= MaximumEntries /\ OneEach(queued')
        /\ writing' \in Seq(Entry) /\ Len(writing') <= BatchSize /\ OneEach(writing')
        /\ ToSet(queued)' \cup ToSet(writing)' = Q
        /\ draining' \in BOOLEAN /\ (draining' <=> writing' # <<>>) /\ (draining' <=> queued # <<>>)
        /\ queued' # <<>> => draining'
    <2>1. Drain(queued)
      BY DEF WriteEnds
    <2>2. QED
      BY <1>1, <2>1, DrainKeeps
  <1>5. /\ idleWait' = (idleWait /\ queued # <<>>) /\ updates' = updates
        /\ best' = best /\ displaced' = displaced
    BY DEF WriteEnds
  <1>6. /\ stored' \in [Bars -> BarRecord] /\ lost' \subseteq Bars
        /\ BestKept(Q, best, displaced, lost', stored')
    <2>1. CASE stored' = [b \in Bars |-> Upserted(b)] /\ UNCHANGED lost
      <3>1. ASSUME NEW b \in Bars, NEW e \in W, e.bar = b
            PROVE  Upserted(b) = Upsert(stored[b], Record(e))
        <4> DEFINE mine == {f \in ToSet(writing) : f.bar = b}
        <4>1. mine = {e}
          BY <1>3, <3>1
        <4> HIDE DEF mine
        <4>2. (CHOOSE f \in mine : TRUE) = e
          BY <4>1
        <4>3. mine # {}
          BY <4>1
        <4>4. QED
          BY <4>2, <4>3 DEF Upserted, mine
      <3>2. ASSUME NEW b \in Bars, \A e \in W : e.bar # b
            PROVE  Upserted(b) = stored[b]
        BY <3>2 DEF Upserted
      <3>3. ASSUME NEW b \in Bars
            PROVE  /\ Upserted(b) \in BarRecord
                   /\ Upsert(stored[b], best[b]) = stored[b] => Upsert(Upserted(b), best[b]) = Upserted(b)
                   /\ \A e \in W : e.bar = b /\ Record(e) = best[b] =>
                         Upsert(Upserted(b), best[b]) = Upserted(b)
        <4>1. stored[b] \in BarRecord /\ best[b] \in BarRecord
          BY <1>1
        <4>2. CASE \E e \in W : e.bar = b
          <5>1. PICK e \in W : e.bar = b
            BY <4>2
          <5>2. Record(e) \in BarRecord /\ Upserted(b) = Upsert(stored[b], Record(e))
            BY <1>2, <3>1, <5>1
          <5>3. /\ Upserted(b) \in BarRecord
                /\ Upsert(stored[b], best[b]) = stored[b] => Upsert(Upserted(b), best[b]) = Upserted(b)
            BY <4>1, <5>2, UpsertKeeps
          <5>4. Record(e) = best[b] => Upsert(Upserted(b), best[b]) = Upserted(b)
            BY <4>1, <5>2, UpsertKeeps
          <5>5. \A f \in W : f.bar = b => f = e
            BY <1>3, <5>1
          <5>6. QED
            BY <5>3, <5>4, <5>5
        <4>3. CASE ~\E e \in W : e.bar = b
          BY <3>2, <4>1, <4>3
        <4>4. QED
          BY <4>2, <4>3
      <3>4. stored' \in [Bars -> BarRecord] /\ \A b \in Bars : stored'[b] = Upserted(b)
        BY <2>1, <3>3
      <3>5. BestKept(Q, best, displaced, lost', stored')
        BY <1>1, <2>1, <3>3, <3>4 DEF BestKept
      <3>6. QED
        BY <1>1, <2>1, <3>4, <3>5
    <2>2. CASE lost' = lost \cup BestOf(best, ToSet(writing)) /\ UNCHANGED stored
      <3>1. BestOf(best, W) \subseteq Bars
        BY <1>2 DEF BestOf
      <3>2. \A e \in W : Record(e) = best[e.bar] => e.bar \in lost'
        BY <2>2 DEF BestOf
      <3>3. BestKept(Q, best, displaced, lost', stored')
        BY <1>1, <2>2, <3>2 DEF BestKept
      <3>4. QED
        BY <1>1, <2>2, <3>1, <3>3
    <2>3. QED
      BY <2>1, <2>2 DEF WriteEnds
  <1>7. BarsTypeOK'
    BY <1>1, <1>4, <1>5, <1>6 DEF BarsTypeOK
  <1>8. NoneAbove(ToSet(queued)' \cup ToSet(writing)', best')
    BY <1>1, <1>4, <1>5 DEF NoneAbove
  <1>9. BarsReachTheStore'
    BY <1>4, <1>5, <1>6 DEF BarsReachTheStore, BestKept
  <1>10. QED
    BY <1>4, <1>5, <1>7, <1>8, <1>9 DEF BarsInv, OneEach, NoneAbove

(* The recovery writes a row of its own. *)
LEMMA RecoveryInv == ASSUME BarsInv, NEW b \in Bars, RecoveryStores(b) PROVE BarsInv'
  <1>1. updates < MaxUpdates /\ updates \in Nat /\ updates' = updates + 1 /\ MaxUpdates \in Nat
    BY BarWritesAssumption DEF RecoveryStores, BarsInv, BarsTypeOK
  <1>2. PICK final \in BOOLEAN :
           stored' = [stored EXCEPT ![b] =
                        Upsert(@, [final |-> final, quality |-> IF final THEN "recovered" ELSE "partial",
                                   source |-> "kis_rest", at |-> updates + 1])]
    BY DEF RecoveryStores
  <1> DEFINE rec == [final |-> final, quality |-> IF final THEN "recovered" ELSE "partial",
                     source |-> "kis_rest", at |-> updates + 1]
  <1>3. rec \in BarRecord
    BY <1>1 DEF BarRecord, QualityRank, SourceRank
  <1>4. stored' = [stored EXCEPT ![b] = Upsert(stored[b], rec)]
    BY <1>2
  <1> HIDE DEF rec
  <1>5. stored \in [Bars -> BarRecord] /\ best \in [Bars -> BarRecord]
    BY DEF BarsInv, BarsTypeOK
  <1>6. /\ stored' \in [Bars -> BarRecord]
        /\ \A c \in Bars : Upsert(stored[c], best[c]) = stored[c] => Upsert(stored'[c], best[c]) = stored'[c]
    BY <1>3, <1>4, <1>5, UpsertKeeps
  <1>7. UNCHANGED <<queued, writing, draining, idleWait, best, displaced, lost>>
    BY DEF RecoveryStores
  <1>8. BarsTypeOK'
    BY <1>1, <1>6, <1>7 DEF BarsInv, BarsTypeOK
  <1>9. BarsReachTheStore'
    BY <1>6, <1>7 DEF BarsInv, BarsReachTheStore, ToSet
  <1>10. QED
    BY <1>7, <1>8, <1>9 DEF BarsInv, OneEach, NoneAbove, ToSet

LEMMA BarsNextInv == ASSUME BarsInv, [BarsNext]_barVars PROVE BarsInv'
  <1>1. ASSUME NEW b \in Bars, BarUpdate(<<b>>) PROVE BarsInv'
    <2>1. <<b>> \in Seq(Bars)
      OBVIOUS
    <2>2. QED
      BY ONLY BarsInv, <1>1, <2>1, BarUpdateInv
  <1>2. ASSUME NEW b \in Bars, NEW c \in Bars, BarUpdate(<<b, c>>) PROVE BarsInv'
    <2>1. <<b, c>> \in Seq(Bars)
      OBVIOUS
    <2>2. QED
      BY ONLY BarsInv, <1>2, <2>1, BarUpdateInv
  <1>3. CASE WaitForIdle
    BY <1>3 DEF WaitForIdle, BarsInv, BarsTypeOK, BarsReachTheStore, OneEach, NoneAbove, ToSet
  <1>4. CASE WriteEnds
    BY <1>4, WriteEndsInv
  <1>5. CASE UNCHANGED barVars
    BY <1>5 DEF barVars, BarsInv, BarsTypeOK, BarsReachTheStore, OneEach, NoneAbove, ToSet
  <1>6. ASSUME NEW b \in Bars, RecoveryStores(b) PROVE BarsInv'
    BY <1>6, RecoveryInv
  <1>7. QED
    BY <1>1, <1>2, <1>3, <1>4, <1>5, <1>6 DEF BarsNext

(* What enqueue prefers of a bar gets to the database as far as that takes  *)
(* it, however records are coalesced, displaced, taken in batches and       *)
(* written beside the recovery, for any sizes of the buffer and the batch.  *)
THEOREM BestBarsAreKept == BarsSpec => []BarsReachTheStore
  <1>1. BarsInv => BarsReachTheStore
    BY DEF BarsInv
  <1>2. QED
    BY <1>1, BarsInitInv, BarsNextInv, PTL DEF BarsSpec
-----------------------------------------------------------------------------
(* The live feed.  What drives it is of the generation that counts: a      *)
(* timer, a socket or an attempt of an older one brings nothing.  So the   *)
(* invariant says which generation each of them can have.                  *)

FiniteSubsets == {D \in SUBSET Symbols : IsFiniteSet(D)}

Clients ==
    [state : {"closed", "connecting", "connected"}, generation : Nat, manuallyStopped : BOOLEAN,
     socket : Nat, connectionTimer : Nat, reconnectTimer : Nat, retried : BOOLEAN, inFlight : Nat,
     desired : FiniteSubsets, controlQueue : Seq(Control)]

Attempts == [generation : Nat \ {0}, again : BOOLEAN]

(* A connection is of the current generation, an attempt of it is alone    *)
(* and is the one in flight, and the timer is never of an older one.       *)
LineInv(c, attempts) ==
    /\ \A t, u \in attempts : t.generation = u.generation => t = u
    /\ \A t \in attempts : t.generation <= c.generation
    /\ \A t \in attempts : t.generation = c.generation =>
           c.state = "closed" /\ c.inFlight = c.generation
    /\ c.inFlight # 0 => \E t \in attempts : t.generation = c.inFlight
    /\ c.reconnectTimer \in {0, c.generation}
    /\ c.state # "closed" => c.socket = c.generation /\ ~c.manuallyStopped
    /\ c.state = "connecting" => c.connectionTimer = c.generation

(* Something of the current generation brings the data. *)
Driven(c, attempts) ==
    /\ ~c.manuallyStopped
    /\ \/ c.state # "closed"
       \/ c.reconnectTimer = c.generation
       \/ \E t \in attempts : t.generation = c.generation

FeedInv ==
    /\ client \in Clients
    /\ openings \subseteq Attempts
    /\ LineInv(client, openings)
    /\ DOMAIN references = IF liveClosed THEN {} ELSE client.desired
    /\ client.desired # {} /\ ~liveClosed /\ ~ridden => Driven(client, openings)

(* The fields that say how the client stands to the provider *)
SameLine(c, d) ==
    /\ c.state = d.state /\ c.generation = d.generation
    /\ c.manuallyStopped = d.manuallyStopped /\ c.socket = d.socket
    /\ c.connectionTimer = d.connectionTimer /\ c.reconnectTimer = d.reconnectTimer
    /\ c.inFlight = d.inFlight

(* What is desired and asked for changes, the line does not. *)
LEMMA OtherSymbols ==
  ASSUME NEW c \in Clients, NEW wanted \in FiniteSubsets, NEW q \in Seq(Control)
  PROVE  /\ [c EXCEPT !.desired = wanted, !.controlQueue = q] \in Clients
         /\ SameLine([c EXCEPT !.desired = wanted, !.controlQueue = q], c)
         /\ [c EXCEPT !.desired = wanted, !.controlQueue = q].desired = wanted
  <1> DEFINE Queues == Seq(Control)
             Desires == FiniteSubsets
  <1>1. c \in [state : {"closed", "connecting", "connected"}, generation : Nat,
               manuallyStopped : BOOLEAN, socket : Nat, connectionTimer : Nat,
               reconnectTimer : Nat, retried : BOOLEAN, inFlight : Nat,
               desired : Desires, controlQueue : Queues]
    BY DEF Clients
  <1>2. wanted \in Desires /\ q \in Queues
    OBVIOUS
  <1> DEFINE e == [c EXCEPT !.desired = wanted]
             d == [e EXCEPT !.controlQueue = q]
  <1> HIDE DEF Queues, Desires
  <1>3. e \in [state : {"closed", "connecting", "connected"}, generation : Nat,
               manuallyStopped : BOOLEAN, socket : Nat, connectionTimer : Nat,
               reconnectTimer : Nat, retried : BOOLEAN, inFlight : Nat,
               desired : Desires, controlQueue : Queues]
        /\ SameLine(e, c) /\ e.desired = wanted
    BY <1>1, <1>2 DEF SameLine
  <1> HIDE DEF e
  <1>4. d \in [state : {"closed", "connecting", "connected"}, generation : Nat,
               manuallyStopped : BOOLEAN, socket : Nat, connectionTimer : Nat,
               reconnectTimer : Nat, retried : BOOLEAN, inFlight : Nat,
               desired : Desires, controlQueue : Queues]
        /\ SameLine(d, e) /\ d.desired = wanted
    BY <1>2, <1>3 DEF SameLine
  <1>5. d \in Clients
    BY <1>4 DEF Clients, Desires, Queues
  <1> HIDE DEF d
  <1>6. SameLine(d, c)
    BY <1>3, <1>4 DEF SameLine
  <1>7. QED
    BY <1>4, <1>5, <1>6 DEF d, e

LEMMA SubscribedClient ==
  ASSUME NEW c \in Clients, NEW s \in Symbols
  PROVE  /\ Subscribed(c, s) \in Clients
         /\ SameLine(Subscribed(c, s), c)
         /\ Subscribed(c, s).desired = c.desired \cup {s}
  <1> DEFINE m == [action |-> "subscribe", symbol |-> s]
             q == IF c.state = "connected" THEN Append(c.controlQueue, m) ELSE c.controlQueue
             wanted == c.desired \cup {s}
  <1>1. m \in Control /\ c.controlQueue \in Seq(Control) /\ c.desired \in FiniteSubsets
    BY DEF Clients, Control
  <1>2. q \in Seq(Control)
    BY <1>1
  <1>3. wanted \in FiniteSubsets
    BY <1>1, FS_AddElement, FS_Subset DEF FiniteSubsets
  <1> HIDE DEF q, wanted
  <1>4. Subscribed(c, s) = IF s \in c.desired THEN c
                   ELSE [c EXCEPT !.desired = wanted, !.controlQueue = q]
    BY DEF Subscribed, q, wanted
  <1>5. CASE s \in c.desired
    <2>1. c.desired = c.desired \cup {s}
      BY <1>5
    <2>2. SameLine(c, c)
      BY DEF SameLine
    <2>3. QED
      BY <1>4, <1>5, <2>1, <2>2
  <1>6. CASE ~(s \in c.desired)
    <2> DEFINE d == [c EXCEPT !.desired = wanted, !.controlQueue = q]
    <2>1. d \in Clients /\ SameLine(d, c) /\ d.desired = wanted
      BY <1>2, <1>3, OtherSymbols
    <2>2. Subscribed(c, s) = d
      BY <1>4, <1>6
    <2> HIDE DEF d
    <2>3. QED
      BY <2>1, <2>2 DEF wanted
  <1>7. QED
    BY <1>5, <1>6

LEMMA UnsubscribedClient ==
  ASSUME NEW c \in Clients, NEW s \in Symbols
  PROVE  /\ Unsubscribed(c, s) \in Clients
         /\ SameLine(Unsubscribed(c, s), c)
         /\ Unsubscribed(c, s).desired = c.desired \ {s}
  <1> DEFINE m == [action |-> "unsubscribe", symbol |-> s]
             q == IF c.state = "connected" THEN Append(c.controlQueue, m) ELSE c.controlQueue
             wanted == c.desired \ {s}
  <1>1. m \in Control /\ c.controlQueue \in Seq(Control) /\ c.desired \in FiniteSubsets
    BY DEF Clients, Control
  <1>2. q \in Seq(Control)
    BY <1>1
  <1>3. wanted \in FiniteSubsets
    BY <1>1, FS_AddElement, FS_Subset DEF FiniteSubsets
  <1> HIDE DEF q, wanted
  <1>4. Unsubscribed(c, s) = IF s \notin c.desired THEN c
                   ELSE [c EXCEPT !.desired = wanted, !.controlQueue = q]
    BY DEF Unsubscribed, q, wanted
  <1>5. CASE s \notin c.desired
    <2>1. c.desired = c.desired \ {s}
      BY <1>5
    <2>2. SameLine(c, c)
      BY DEF SameLine
    <2>3. QED
      BY <1>4, <1>5, <2>1, <2>2
  <1>6. CASE ~(s \notin c.desired)
    <2> DEFINE d == [c EXCEPT !.desired = wanted, !.controlQueue = q]
    <2>1. d \in Clients /\ SameLine(d, c) /\ d.desired = wanted
      BY <1>2, <1>3, OtherSymbols
    <2>2. Unsubscribed(c, s) = d
      BY <1>4, <1>6
    <2> HIDE DEF d
    <2>3. QED
      BY <2>1, <2>2 DEF wanted
  <1>7. QED
    BY <1>5, <1>6

LEMMA DisconnectedClient ==
  ASSUME NEW c \in Clients
  PROVE  LET d == Disconnected(c)
         IN /\ d \in Clients
            /\ d.state = "closed" /\ d.generation = c.generation + 1 /\ d.manuallyStopped
            /\ d.reconnectTimer = 0 /\ d.inFlight = c.inFlight /\ d.desired = c.desired
  <1> DEFINE e == [c EXCEPT !.manuallyStopped = TRUE, !.generation = c.generation + 1]
             f == [e EXCEPT !.reconnectTimer = 0, !.connectionTimer = 0]
             g == [f EXCEPT !.controlQueue = <<>>, !.socket = 0]
             d == [g EXCEPT !.state = "closed"]
  <1>1. <<>> \in Seq(Control)
    OBVIOUS
  <1>2. Disconnected(c) = d
    BY DEF Disconnected
  <1>3. c.generation + 1 \in Nat
    BY DEF Clients
  <1>4. /\ e \in Clients /\ e.generation = c.generation + 1 /\ e.manuallyStopped
        /\ e.inFlight = c.inFlight /\ e.desired = c.desired
    BY <1>3 DEF Clients
  <1> HIDE DEF e
  <1>5. /\ f \in Clients /\ f.generation = e.generation /\ f.manuallyStopped = e.manuallyStopped
        /\ f.reconnectTimer = 0 /\ f.inFlight = e.inFlight /\ f.desired = e.desired
    BY <1>4 DEF Clients
  <1> HIDE DEF f
  <1>6. /\ g \in Clients /\ g.generation = f.generation /\ g.manuallyStopped = f.manuallyStopped
        /\ g.reconnectTimer = f.reconnectTimer /\ g.inFlight = f.inFlight /\ g.desired = f.desired
    BY <1>1, <1>5 DEF Clients
  <1> HIDE DEF g
  <1>7. /\ d \in Clients /\ d.generation = g.generation /\ d.manuallyStopped = g.manuallyStopped
        /\ d.reconnectTimer = g.reconnectTimer /\ d.inFlight = g.inFlight /\ d.desired = g.desired
        /\ d.state = "closed"
    BY <1>6 DEF Clients
  <1> HIDE DEF d
  <1>8. QED
    BY <1>2, <1>4, <1>5, <1>6, <1>7

LEMMA RescheduledClient ==
  ASSUME NEW c \in Clients, c.reconnectTimer \in {0, c.generation}, ~c.manuallyStopped
  PROVE  LET d == Rescheduled(c)
         IN /\ d \in Clients
            /\ d.state = "closed" /\ d.generation = c.generation /\ ~d.manuallyStopped
            /\ d.reconnectTimer = c.generation /\ d.inFlight = c.inFlight /\ d.desired = c.desired
  <1>1. CASE c.reconnectTimer # 0
    BY <1>1 DEF Rescheduled, Clients
  <1>2. CASE c.reconnectTimer = 0
    BY <1>2 DEF Rescheduled, Clients
  <1>3. QED
    BY <1>1, <1>2

LEMMA OpeningClient ==
  ASSUME NEW c \in Clients
  PROVE  LET d == Opening(c)
         IN /\ d \in Clients
            /\ d.state = "closed" /\ d.generation = c.generation + 1
            /\ d.manuallyStopped = c.manuallyStopped
            /\ d.reconnectTimer = c.reconnectTimer /\ d.inFlight = c.generation + 1
            /\ d.desired = c.desired
  <1> DEFINE e == [c EXCEPT !.generation = c.generation + 1]
             d == [e EXCEPT !.inFlight = c.generation + 1, !.state = "closed"]
  <1>1. Opening(c) = d
    BY DEF Opening
  <1>2. /\ e \in Clients /\ e.generation = c.generation + 1 /\ c.generation + 1 \in Nat
        /\ e.manuallyStopped = c.manuallyStopped
        /\ e.reconnectTimer = c.reconnectTimer /\ e.desired = c.desired
    BY DEF Clients
  <1> HIDE DEF e
  <1>3. /\ d \in Clients /\ d.generation = e.generation /\ d.inFlight = c.generation + 1
        /\ d.manuallyStopped = e.manuallyStopped /\ d.state = "closed"
        /\ d.reconnectTimer = e.reconnectTimer /\ d.desired = e.desired
    BY <1>2 DEF Clients
  <1> HIDE DEF d
  <1>4. QED
    BY <1>1, <1>2, <1>3

LEMMA LineKept ==
  ASSUME NEW c, NEW d, NEW attempts, SameLine(d, c)
  PROVE  /\ LineInv(c, attempts) => LineInv(d, attempts)
         /\ Driven(c, attempts) => Driven(d, attempts)
  BY DEF SameLine, LineInv, Driven

(* A client that was disconnected waits for nothing. *)
LEMMA LineCut ==
  ASSUME NEW c \in Clients, NEW attempts \in SUBSET Attempts, LineInv(c, attempts)
  PROVE  LineInv(Disconnected(c), attempts)
  <1> DEFINE d == Disconnected(c)
  <1>1. /\ d.state = "closed" /\ d.generation = c.generation + 1
        /\ d.reconnectTimer = 0 /\ d.inFlight = c.inFlight
    BY DisconnectedClient
  <1>2. \A t \in attempts : t.generation \in Nat /\ c.generation \in Nat
    BY DEF Attempts, Clients
  <1> HIDE DEF d
  <1>3. LineInv(d, attempts)
    BY <1>1, <1>2 DEF LineInv
  <1>4. QED
    BY <1>3 DEF d

(* A new attempt is of a generation of its own. *)
LEMMA LineOpens ==
  ASSUME NEW c \in Clients, NEW attempts \in SUBSET Attempts, LineInv(c, attempts),
         c.reconnectTimer = 0, ~c.manuallyStopped, NEW again \in BOOLEAN
  PROVE  LET t == [generation |-> c.generation + 1, again |-> again]
             o == attempts \cup {t}
         IN /\ o \subseteq Attempts
            /\ LineInv(Opening(c), o) /\ Driven(Opening(c), o)
  <1> DEFINE d == Opening(c)
             t == [generation |-> c.generation + 1, again |-> again]
             o == attempts \cup {t}
  <1>1. /\ d.state = "closed" /\ d.generation = c.generation + 1
        /\ d.reconnectTimer = 0 /\ d.inFlight = c.generation + 1 /\ ~d.manuallyStopped
    BY OpeningClient
  <1>2. c.generation \in Nat /\ \A u \in attempts : u.generation \in Nat
    BY DEF Attempts, Clients
  <1>3. t \in Attempts /\ t.generation = c.generation + 1
    BY <1>2 DEF Attempts
  <1>4. \A u \in attempts : u.generation # t.generation /\ u.generation <= c.generation
    BY <1>2, <1>3 DEF LineInv
  <1> HIDE DEF d, t
  <1>5. \A u, v \in o : u.generation = v.generation => u = v
    BY <1>4 DEF LineInv
  <1>6. t \in o /\ \A u \in o : u = t \/ u \in attempts
    OBVIOUS
  <1> HIDE DEF o
  <1>7. LineInv(d, o) /\ Driven(d, o)
    BY <1>1, <1>2, <1>3, <1>4, <1>5, <1>6 DEF LineInv, Driven
  <1>8. o \subseteq Attempts
    BY <1>3 DEF o
  <1>9. QED
    BY <1>7, <1>8 DEF d, t, o

LEMMA FeedInitInv == ASSUME FeedInit PROVE FeedInv
  <1>1. <<>> \in Seq(Control) /\ DOMAIN <<>> = {}
    OBVIOUS
  <1>2. client \in Clients
    <2>1. {} \in FiniteSubsets
      BY FS_EmptySet DEF FiniteSubsets
    <2>2. QED
      BY <1>1, <2>1 DEF FeedInit, Clients
  <1>3. LineInv(client, openings)
    BY DEF FeedInit, LineInv
  <1>4. QED
    BY <1>1, <1>2, <1>3 DEF FeedInit, FeedInv

(* disconnectWhenIdle *)
LEMMA GiveUpInv ==
  ASSUME FeedInv, NEW map, NEW c \in Clients, SameLine(c, client),
         c.desired \subseteq client.desired,
         DOMAIN map = IF liveClosed THEN {} ELSE c.desired,
         GiveUp(map, c)
  PROVE  FeedInv'
  <1>1. UNCHANGED <<openings, liveClosed, ridden>> /\ references' = map
    BY DEF GiveUp
  <1>2. LineInv(c, openings) /\ (Driven(client, openings) => Driven(c, openings))
    BY LineKept DEF FeedInv
  <1>3. CASE DOMAIN map = {}
    <2>1. client' = Disconnected(c)
      BY <1>3 DEF GiveUp
    <2>2. client' \in Clients /\ client'.desired = c.desired
      BY <2>1, DisconnectedClient
    <2>3. LineInv(client', openings)
      BY <1>2, <2>1, LineCut DEF FeedInv
    <2>4. liveClosed \/ client'.desired = {}
      BY <1>3, <2>2
    <2>5. QED
      BY <1>1, <1>3, <2>2, <2>3, <2>4 DEF FeedInv
  <1>4. CASE DOMAIN map # {}
    <2>1. client' = c
      BY <1>4 DEF GiveUp
    <2>2. QED
      BY <1>1, <1>2, <2>1 DEF FeedInv
  <1>5. QED
    BY <1>3, <1>4

LEMMA ReleaseInv == ASSUME FeedInv, NEW h \in Holders, Release(h) PROVE FeedInv'
  <1> DEFINE s == holder[h].symbol
  <1>1. client \in Clients /\ SameLine(client, client)
    BY DEF FeedInv, SameLine
  <1>2. DOMAIN references = IF liveClosed THEN {} ELSE client.desired
    BY DEF FeedInv
  <1> HIDE DEF s
  <1>3. CASE s \notin DOMAIN references /\ GiveUp(references, client)
    BY <1>1, <1>2, <1>3, GiveUpInv
  <1>4. CASE s \in DOMAIN references /\ GiveUp(Deleted(s), Unsubscribed(client, s))
    <2> DEFINE c == Unsubscribed(client, s)
    <2>1. s \in Symbols /\ ~liveClosed
      BY <1>1, <1>2, <1>4 DEF Clients, FiniteSubsets
    <2>2. c \in Clients /\ SameLine(c, client) /\ c.desired = client.desired \ {s}
      BY <1>1, <2>1, UnsubscribedClient
    <2>3. DOMAIN Deleted(s) = DOMAIN references \ {s}
      BY DEF Deleted
    <2> HIDE DEF c
    <2>4. QED
      BY <1>2, <1>4, <2>1, <2>2, <2>3, GiveUpInv DEF c
  <1>5. CASE GiveUp([references EXCEPT ![s] = @ - 1], client)
    <2> DEFINE map == [references EXCEPT ![s] = @ - 1]
    <2>1. DOMAIN map = DOMAIN references
      OBVIOUS
    <2> HIDE DEF map
    <2>2. QED
      BY <1>1, <1>2, <1>5, <2>1, GiveUpInv DEF map
  <1>6. QED
    BY <1>3, <1>4, <1>5 DEF Release, s

LEMMA RejectedInv == ASSUME FeedInv, NEW s \in Symbols, Rejected(s) PROVE FeedInv'
  <1> DEFINE c == Unsubscribed(client, s)
  <1>1. s \in DOMAIN references /\ ~liveClosed /\ GiveUp(Deleted(s), c)
    BY DEF Rejected
  <1>2. c \in Clients /\ SameLine(c, client) /\ c.desired = client.desired \ {s}
    BY UnsubscribedClient DEF FeedInv
  <1>3. DOMAIN Deleted(s) = DOMAIN references \ {s}
    BY DEF Deleted
  <1> HIDE DEF c
  <1>4. DOMAIN Deleted(s) = c.desired /\ c.desired \subseteq client.desired
    BY <1>1, <1>2, <1>3 DEF FeedInv
  <1>5. QED
    BY <1>1, <1>2, <1>4, GiveUpInv

LEMMA CloseRuntimeInv == ASSUME FeedInv, CloseRuntime PROVE FeedInv'
  <1>1. client' \in Clients
    BY DisconnectedClient DEF CloseRuntime, FeedInv
  <1>2. LineInv(client', openings)
    BY LineCut DEF CloseRuntime, FeedInv
  <1>3. DOMAIN <<>> = {}
    OBVIOUS
  <1>4. QED
    BY <1>1, <1>2, <1>3 DEF CloseRuntime, FeedInv

(* connect finds a connection, joins the attempt in flight, or opens one. *)
LEMMA RetainInv ==
  ASSUME FeedInv, NEW h \in Holders, NEW s \in Symbols, Retain(h, s)
  PROVE  FeedInv'
  <1> DEFINE c == Subscribed(client, s)
             go == [c EXCEPT !.manuallyStopped = FALSE]
  <1>1. c \in Clients /\ SameLine(c, client) /\ c.desired = client.desired \cup {s}
    BY SubscribedClient DEF FeedInv
  <1>2. ConnectBy(h, s, c) /\ ~liveClosed /\ ~liveClosed'
    BY DEF Retain
  <1> HIDE DEF c
  <1>3. LineInv(c, openings)
    BY <1>1, LineKept DEF FeedInv
  <1>4. /\ go \in Clients /\ ~go.manuallyStopped /\ go.desired = c.desired
        /\ go.state = c.state /\ go.generation = c.generation /\ go.inFlight = c.inFlight
        /\ go.socket = c.socket /\ go.connectionTimer = c.connectionTimer
        /\ go.reconnectTimer = c.reconnectTimer /\ go.retried = c.retried
    BY <1>1 DEF Clients
  <1> HIDE DEF go
  <1>5. LineInv(go, openings)
    BY <1>3, <1>4 DEF LineInv
  <1>6. DOMAIN references' = DOMAIN references \cup {s}
    BY DEF Retain
  <1>7. DOMAIN references' = c.desired
    BY <1>1, <1>2, <1>6 DEF FeedInv
  <1>8. CASE c.state # "closed"
    <2>1. client' = go /\ openings' = openings
      BY <1>2, <1>8 DEF ConnectBy, go
    <2>2. Driven(go, openings)
      BY <1>4, <1>8 DEF Driven
    <2>3. QED
      BY <1>2, <1>4, <1>5, <1>7, <2>1, <2>2 DEF FeedInv
  <1>9. CASE c.state = "closed" /\ c.inFlight # 0
    <2>1. client' = go /\ openings' = openings /\ (~ridden' => c.inFlight = c.generation)
      BY <1>2, <1>9 DEF ConnectBy, go
    <2>2. ~ridden' => Driven(go, openings)
      BY <1>4, <1>5, <1>9, <2>1 DEF Driven, LineInv
    <2>3. QED
      BY <1>2, <1>4, <1>5, <1>7, <2>1, <2>2 DEF FeedInv
  <1>10. CASE c.state = "closed" /\ c.inFlight = 0
    <2> DEFINE cleared == TimerCleared(go)
    <2>1. /\ cleared \in Clients /\ cleared.desired = go.desired
          /\ cleared.reconnectTimer = 0 /\ ~cleared.manuallyStopped
          /\ cleared.state = go.state /\ cleared.generation = go.generation
          /\ cleared.inFlight = go.inFlight /\ cleared.socket = go.socket
          /\ cleared.connectionTimer = go.connectionTimer
      BY <1>4 DEF TimerCleared, Clients
    <2>2. LineInv(cleared, openings)
      BY <1>5, <2>1 DEF LineInv
    <2> HIDE DEF cleared
    <2> DEFINE t == [generation |-> c.generation + 1, again |-> c.retried]
               o == openings \cup {t}
    <2>3. client' = Opening(cleared) /\ openings' = o
      BY <1>2, <1>10 DEF ConnectBy, go, cleared
    <2>4. cleared.generation = c.generation /\ c.retried \in BOOLEAN
      BY <1>1, <1>4, <2>1 DEF Clients
    <2>5. openings \in SUBSET Attempts
      BY DEF FeedInv
    <2>6. o \subseteq Attempts /\ LineInv(Opening(cleared), o) /\ Driven(Opening(cleared), o)
      BY <2>1, <2>2, <2>4, <2>5, LineOpens
    <2>7. Opening(cleared) \in Clients /\ Opening(cleared).desired = c.desired
      BY <1>4, <2>1, OpeningClient
    <2> HIDE DEF o, t
    <2>8. QED
      BY <1>2, <1>7, <2>3, <2>6, <2>7 DEF FeedInv
  <1>11. QED
    BY <1>8, <1>9, <1>10

(* The attempt t ends: what is not of its doing stays. *)
LEMMA ReturnInv ==
  ASSUME FeedInv, NEW t \in openings, NEW c \in Clients, NEW throws \in BOOLEAN,
         OpeningReturns(t, c, throws),
         c.desired = client.desired,
         LineInv([c EXCEPT !.inFlight = IF c.inFlight = t.generation THEN 0 ELSE c.inFlight],
                 openings \ {t}),
         client.desired # {} /\ ~liveClosed /\ ~ridden => Driven(c, openings \ {t})
  PROVE  FeedInv'
  <1> DEFINE flight == IF c.inFlight = t.generation THEN 0 ELSE c.inFlight
             done == [c EXCEPT !.inFlight = flight]
             o == openings \ {t}
             mine == {h \in Holders : holder[h].at = "waiting" /\ holder[h].on = t.generation}
             gone == {s \in Symbols : \E h \in mine : holder[h].symbol = s /\ holder[h].created}
  <1>1. flight \in Nat
    BY DEF Clients
  <1>2. openings' = o /\ UNCHANGED <<liveClosed, ridden>>
    BY DEF OpeningReturns
  <1>3. o \subseteq Attempts
    BY DEF FeedInv
  <1>4. /\ LineInv(done, o)
        /\ client.desired # {} /\ ~liveClosed /\ ~ridden => Driven(c, o)
    OBVIOUS
  <1>5. /\ IF throws THEN client' = [done EXCEPT !.desired = done.desired \ gone]
                          /\ DOMAIN references' = DOMAIN references \ gone
                     ELSE client' = done /\ references' = references
    BY DEF OpeningReturns
  <1> HIDE DEF flight, o
  <1>6. /\ done \in Clients /\ done.desired = c.desired
        /\ Driven(c, o) => Driven(done, o)
    BY <1>1 DEF Clients, Driven
  <1> HIDE DEF done
  <1>7. CASE throws
    <2> DEFINE wanted == done.desired \ gone
               d == [done EXCEPT !.desired = wanted]
    <2>1. wanted \in FiniteSubsets
      <3>1. done.desired \in FiniteSubsets
        BY <1>6 DEF Clients
      <3>2. QED
        BY <3>1, FS_Subset DEF FiniteSubsets
    <2>2. client' = d /\ DOMAIN references' = DOMAIN references \ gone
      BY <1>5, <1>7
    <2> HIDE DEF wanted
    <2>3. d \in Clients /\ SameLine(d, done) /\ d.desired = wanted
      BY <1>6, <2>1 DEF Clients, SameLine
    <2> HIDE DEF d
    <2>4. LineInv(d, o) /\ (Driven(done, o) => Driven(d, o))
      BY <1>4, <2>3, LineKept
    <2>5. wanted \subseteq client.desired
      BY <1>6 DEF wanted
    <2>6. DOMAIN references' = IF liveClosed THEN {} ELSE wanted
      BY <1>6, <2>2 DEF FeedInv, wanted
    <2>7. wanted # {} /\ ~liveClosed /\ ~ridden => Driven(d, o)
      BY <1>4, <1>6, <2>4, <2>5
    <2>8. QED
      BY <1>2, <1>3, <1>4, <2>2, <2>3, <2>4, <2>6, <2>7 DEF FeedInv
  <1>8. CASE ~throws
    BY <1>2, <1>3, <1>4, <1>5, <1>6, <1>8 DEF FeedInv
  <1>9. QED
    BY <1>7, <1>8

(* An attempt that no longer counts ends without a word. *)
LEMMA StaleReturnInv ==
  ASSUME FeedInv, NEW t \in openings, ~Current(t.generation), OpeningReturns(t, client, FALSE)
  PROVE  FeedInv'
  <1> DEFINE o == openings \ {t}
             flight == IF client.inFlight = t.generation THEN 0 ELSE client.inFlight
             done == [client EXCEPT !.inFlight = flight]
  <1>1. client \in Clients /\ LineInv(client, openings) /\ openings \subseteq Attempts
    BY DEF FeedInv
  <1>2. /\ done.inFlight = flight /\ done.state = client.state
        /\ done.generation = client.generation /\ done.reconnectTimer = client.reconnectTimer
        /\ done.socket = client.socket /\ done.manuallyStopped = client.manuallyStopped
        /\ done.connectionTimer = client.connectionTimer
    BY <1>1 DEF Clients
  <1>3. client.inFlight # 0 /\ client.inFlight # t.generation =>
            \E u \in o : u.generation = client.inFlight
    BY <1>1 DEF LineInv
  <1>4. t.generation = client.generation => client.manuallyStopped
    BY DEF Current
  <1>5. \A u \in o : u \in openings /\ u # t
    OBVIOUS
  <1> HIDE DEF done, o
  <1>6. \A u \in o : u.generation # t.generation
    BY <1>1, <1>5 DEF LineInv
  <1>7. LineInv(done, o)
    BY <1>1, <1>2, <1>3, <1>5, <1>6 DEF LineInv
  <1>8. Driven(client, openings) => Driven(client, o)
    BY <1>4 DEF Driven, o
  <1>9. client.desired # {} /\ ~liveClosed /\ ~ridden => Driven(client, o)
    BY <1>8 DEF FeedInv
  <1>10. QED
    BY <1>1, <1>7, <1>9, ReturnInv DEF done, o

(* The key arrives: the socket is made, unless it came too late. *)
LEMMA ApprovedInv == ASSUME FeedInv, NEW t \in openings, Approved(t) PROVE FeedInv'
  <1>1. CASE ~Current(t.generation)
    BY <1>1, StaleReturnInv DEF Approved
  <1>2. CASE Current(t.generation)
    <2> DEFINE g == t.generation
               c == [client EXCEPT !.socket = g, !.state = "connecting", !.connectionTimer = g]
               flight == IF c.inFlight = g THEN 0 ELSE c.inFlight
               done == [c EXCEPT !.inFlight = flight]
               o == openings \ {t}
    <2>1. client \in Clients /\ LineInv(client, openings) /\ t \in Attempts
      BY DEF FeedInv
    <2>2. g \in Nat /\ g = client.generation /\ ~client.manuallyStopped
      BY <1>2, <2>1 DEF Current, Attempts
    <2>3. OpeningReturns(t, c, FALSE)
      BY <1>2 DEF Approved
    <2> HIDE DEF g
    <2>4. /\ c \in Clients /\ c.state = "connecting" /\ c.socket = g /\ c.connectionTimer = g
          /\ c.generation = client.generation /\ c.reconnectTimer = client.reconnectTimer
          /\ c.manuallyStopped = client.manuallyStopped /\ c.inFlight = client.inFlight
          /\ c.desired = client.desired
      BY <2>1, <2>2 DEF Clients
    <2> HIDE DEF c
    <2>5. flight \in Nat
      BY <2>4 DEF Clients
    <2>6. /\ done.inFlight = flight /\ done.state = "connecting"
          /\ done.generation = g /\ done.reconnectTimer = client.reconnectTimer
          /\ done.socket = g /\ ~done.manuallyStopped /\ done.connectionTimer = g
      BY <2>2, <2>4 DEF Clients
    <2>7. \A u \in o : u \in openings /\ u.generation # g
      BY <2>1 DEF LineInv, g
    <2>8. client.inFlight # 0 /\ client.inFlight # g => \E u \in o : u.generation = client.inFlight
      BY <2>1 DEF LineInv, g
    <2> HIDE DEF o, done
    <2>9. LineInv(done, o)
      BY <2>1, <2>2, <2>4, <2>6, <2>7, <2>8 DEF LineInv
    <2>10. Driven(c, o)
      BY <2>2, <2>4 DEF Driven
    <2>11. QED
      BY <2>3, <2>4, <2>9, <2>10, ReturnInv DEF done, o, g
  <1>3. QED
    BY <1>1, <1>2

(* The request fails: there is a timer for the next one. *)
LEMMA RefusedInv == ASSUME FeedInv, NEW t \in openings, Refused(t) PROVE FeedInv'
  <1>1. CASE ~Current(t.generation)
    BY <1>1, StaleReturnInv DEF Refused
  <1>2. CASE Current(t.generation)
    <2> DEFINE g == t.generation
               c == Rescheduled(client)
               flight == IF c.inFlight = g THEN 0 ELSE c.inFlight
               done == [c EXCEPT !.inFlight = flight]
               o == openings \ {t}
               throws == ~t.again
    <2>1. client \in Clients /\ LineInv(client, openings) /\ t \in Attempts
      BY DEF FeedInv
    <2>2. /\ g \in Nat /\ g = client.generation /\ ~client.manuallyStopped
          /\ client.reconnectTimer \in {0, client.generation}
          /\ throws \in BOOLEAN
      BY <1>2, <2>1 DEF Current, Attempts, LineInv
    <2>3. OpeningReturns(t, c, throws)
      BY <1>2 DEF Refused
    <2> HIDE DEF g, throws
    <2>4. /\ c \in Clients /\ c.state = "closed" /\ c.generation = client.generation
          /\ c.reconnectTimer = client.generation /\ ~c.manuallyStopped
          /\ c.inFlight = client.inFlight /\ c.desired = client.desired
      BY <2>1, <2>2, RescheduledClient
    <2> HIDE DEF c
    <2>5. flight \in Nat
      BY <2>4 DEF Clients
    <2>6. /\ done.inFlight = flight /\ done.state = "closed"
          /\ done.generation = g /\ done.reconnectTimer = g
      BY <2>2, <2>4 DEF Clients
    <2>7. \A u \in o : u \in openings /\ u.generation # g
      BY <2>1 DEF LineInv, g
    <2>8. client.inFlight # 0 /\ client.inFlight # g => \E u \in o : u.generation = client.inFlight
      BY <2>1 DEF LineInv, g
    <2> HIDE DEF o, done
    <2>9. LineInv(done, o)
      BY <2>1, <2>2, <2>4, <2>6, <2>7, <2>8 DEF LineInv
    <2>10. Driven(c, o)
      BY <2>4 DEF Driven
    <2>11. QED
      BY <2>2, <2>3, <2>4, <2>9, <2>10, ReturnInv DEF done, o, g
  <1>3. QED
    BY <1>1, <1>2

(* The timer fires: an attempt, unless disconnect has come before it. *)
LEMMA ReconnectInv == ASSUME FeedInv, ReconnectTimer PROVE FeedInv'
  <1> DEFINE fired == [client EXCEPT !.reconnectTimer = 0]
  <1>1. client \in Clients /\ LineInv(client, openings) /\ openings \in SUBSET Attempts
    BY DEF FeedInv
  <1>2. /\ fired \in Clients /\ fired.reconnectTimer = 0 /\ fired.desired = client.desired
        /\ fired.generation = client.generation /\ fired.state = client.state
        /\ fired.manuallyStopped = client.manuallyStopped /\ fired.inFlight = client.inFlight
        /\ fired.socket = client.socket /\ fired.connectionTimer = client.connectionTimer
    BY <1>1 DEF Clients
  <1>3. LineInv(fired, openings)
    BY <1>1, <1>2 DEF LineInv
  <1>4. UNCHANGED <<references, liveClosed>> /\ client.reconnectTimer = client.generation
    BY <1>1 DEF ReconnectTimer, LineInv
  <1>5. CASE Current(client.reconnectTimer)
    <2> DEFINE t == [generation |-> client.generation + 1, again |-> TRUE]
               o == openings \cup {t}
    <2>1. client' = Opening(fired) /\ openings' = o
      BY <1>5 DEF ReconnectTimer
    <2> HIDE DEF fired
    <2>2. ~fired.manuallyStopped /\ TRUE \in BOOLEAN
      BY <1>2, <1>5 DEF Current
    <2>3. o \subseteq Attempts /\ LineInv(Opening(fired), o) /\ Driven(Opening(fired), o)
      BY <1>1, <1>2, <1>3, <2>2, LineOpens
    <2>4. Opening(fired) \in Clients /\ Opening(fired).desired = client.desired
      BY <1>2, OpeningClient
    <2> HIDE DEF o
    <2>5. QED
      BY <1>4, <2>1, <2>3, <2>4 DEF FeedInv
  <1>6. CASE ~Current(client.reconnectTimer)
    <2>1. client' = fired /\ UNCHANGED <<openings, ridden>>
      BY <1>6 DEF ReconnectTimer
    <2>2. client.manuallyStopped
      BY <1>4, <1>6 DEF Current
    <2> HIDE DEF fired
    <2>3. QED
      BY <1>2, <1>3, <1>4, <2>1, <2>2 DEF FeedInv, Driven
  <1>7. QED
    BY <1>5, <1>6

(* What is asked for again when the socket opens is a queue of messages. *)
LEMMA AskedAgain ==
  ASSUME NEW D \in FiniteSubsets
  PROVE  SetToSeq({[action |-> "subscribe", symbol |-> s] : s \in D}) \in Seq(Control)
  <1> DEFINE A == {[action |-> "subscribe", symbol |-> s] : s \in D}
             f == [s \in D |-> [action |-> "subscribe", symbol |-> s]]
  <1>1. f \in Bijection(D, A)
    BY DEF Bijection, Injection, Surjection, IsInjective
  <1>2. IsFiniteSet(D) /\ ExistsBijection(D, A)
    BY <1>1 DEF FiniteSubsets, ExistsBijection
  <1>3. A \subseteq Control
    BY DEF Control, FiniteSubsets
  <1> HIDE DEF A, f
  <1>4. IsFiniteSet(A)
    BY <1>2, FS_Bijection
  <1>5. Cardinality(A) \in Nat /\ ExistsBijection(1..Cardinality(A), A)
    BY <1>4, FS_CardinalityType
  <1>6. PICK M : M \in Bijection(1..Cardinality(A), A)
    BY <1>5 DEF ExistsBijection
  <1>7. M \in [1..Cardinality(A) -> A] /\ IsInjective(M)
    BY <1>6 DEF Bijection, Injection
  <1>8. SetToSeq(A) \in [1..Cardinality(A) -> A]
    BY <1>7 DEF SetToSeq
  <1>9. SetToSeq(A) \in [1..Cardinality(A) -> Control]
    BY <1>3, <1>8
  <1>10. SetToSeq(A) \in Seq(Control)
    BY <1>5, <1>9
  <1>11. QED
    BY <1>10 DEF A

LEMMA SocketOpensInv == ASSUME FeedInv, SocketOpens PROVE FeedInv'
  <1> DEFINE ask == SetToSeq({[action |-> "subscribe", symbol |-> s] : s \in client.desired})
             c == [client EXCEPT !.state = "connected", !.connectionTimer = 0]
             d == [c EXCEPT !.retried = FALSE, !.controlQueue = ask]
  <1>1. UNCHANGED <<openings, references, liveClosed, ridden>>
    BY DEF SocketOpens
  <1>2. client' = d /\ client.state = "connecting"
    BY DEF SocketOpens
  <1>3. ask \in Seq(Control)
    BY AskedAgain DEF FeedInv, Clients
  <1> HIDE DEF ask
  <1>4. /\ c \in Clients /\ c.state = "connected" /\ c.generation = client.generation
        /\ c.reconnectTimer = client.reconnectTimer /\ c.inFlight = client.inFlight
        /\ c.socket = client.socket /\ c.manuallyStopped = client.manuallyStopped
        /\ c.desired = client.desired
    BY DEF FeedInv, Clients
  <1> HIDE DEF c
  <1>5. /\ d \in Clients /\ d.state = c.state /\ d.generation = c.generation
        /\ d.reconnectTimer = c.reconnectTimer /\ d.inFlight = c.inFlight
        /\ d.socket = c.socket /\ d.manuallyStopped = c.manuallyStopped
        /\ d.desired = c.desired
    BY <1>3, <1>4 DEF Clients
  <1> HIDE DEF d
  <1>6. LineInv(client, openings)
    BY DEF FeedInv
  <1>7. LineInv(d, openings) /\ Driven(d, openings)
    BY <1>2, <1>4, <1>5, <1>6 DEF LineInv, Driven
  <1>8. QED
    BY <1>1, <1>2, <1>4, <1>5, <1>7 DEF FeedInv

(* The socket is gone: there is a timer for the next attempt. *)
LEMMA SocketEndsInv == ASSUME FeedInv, SocketEnds PROVE FeedInv'
  <1> DEFINE c == [client EXCEPT !.connectionTimer = 0, !.controlQueue = <<>>, !.socket = 0]
             d == Rescheduled(c)
  <1>1. UNCHANGED <<openings, references, liveClosed, ridden>> /\ client' = d
    BY DEF SocketEnds
  <1>2. client \in Clients /\ LineInv(client, openings) /\ ~client.manuallyStopped
    BY DEF FeedInv, SocketEnds, Current
  <1>3. <<>> \in Seq(Control)
    OBVIOUS
  <1>4. /\ c \in Clients /\ c.generation = client.generation
        /\ c.reconnectTimer = client.reconnectTimer /\ c.inFlight = client.inFlight
        /\ c.manuallyStopped = client.manuallyStopped /\ c.desired = client.desired
    BY <1>2, <1>3 DEF Clients
  <1>5. c.reconnectTimer \in {0, c.generation}
    BY <1>2, <1>4 DEF LineInv
  <1> HIDE DEF c
  <1>6. /\ d \in Clients /\ d.state = "closed" /\ d.generation = c.generation
        /\ ~d.manuallyStopped /\ d.reconnectTimer = c.generation
        /\ d.inFlight = c.inFlight /\ d.desired = c.desired
    BY <1>2, <1>4, <1>5, RescheduledClient
  <1> HIDE DEF d
  <1>7. LineInv(d, openings) /\ Driven(d, openings)
    BY <1>2, <1>4, <1>6 DEF LineInv, Driven
  <1>8. QED
    BY <1>1, <1>4, <1>6, <1>7 DEF FeedInv

LEMMA ControlSentInv == ASSUME FeedInv, ControlSent PROVE FeedInv'
  <1> DEFINE q == Tail(client.controlQueue)
             c == [client EXCEPT !.controlQueue = q]
  <1>1. /\ UNCHANGED <<openings, references, liveClosed, ridden>>
        /\ client' = c /\ client.controlQueue # <<>>
    BY DEF ControlSent
  <1>2. client \in Clients /\ LineInv(client, openings)
    BY DEF FeedInv
  <1>3. q \in Seq(Control)
    BY <1>1, <1>2 DEF Clients
  <1> HIDE DEF q
  <1>4. c \in Clients /\ SameLine(c, client) /\ c.desired = client.desired
    BY <1>2, <1>3 DEF Clients, SameLine
  <1> HIDE DEF c
  <1>5. LineInv(c, openings) /\ (Driven(client, openings) => Driven(c, openings))
    BY <1>2, <1>4, LineKept
  <1>6. QED
    BY <1>1, <1>4, <1>5 DEF FeedInv

LEMMA FeedNextInv == ASSUME FeedInv, [FeedNext]_feedVars PROVE FeedInv'
  <1>1. ASSUME NEW h \in Holders, NEW s \in Symbols, Retain(h, s) PROVE FeedInv'
    BY <1>1, RetainInv
  <1>2. ASSUME NEW h \in Holders, Release(h) PROVE FeedInv'
    BY <1>2, ReleaseInv
  <1>3. ASSUME NEW t \in openings, Approved(t) PROVE FeedInv'
    BY <1>3, ApprovedInv
  <1>4. ASSUME NEW t \in openings, Refused(t) PROVE FeedInv'
    BY <1>4, RefusedInv
  <1>5. ASSUME NEW s \in Symbols, Rejected(s) PROVE FeedInv'
    BY <1>5, RejectedInv
  <1>6. CASE ReconnectTimer \/ SocketOpens \/ SocketEnds \/ ControlSent \/ CloseRuntime
    BY <1>6, ReconnectInv, SocketOpensInv, SocketEndsInv, ControlSentInv, CloseRuntimeInv
  <1>7. CASE UNCHANGED feedVars
    BY <1>7 DEF feedVars, FeedInv
  <1>8. QED
    BY <1>1, <1>2, <1>3, <1>4, <1>5, <1>6, <1>7 DEF FeedNext

LEMMA DrivenByLine == FeedInv => LiveFeedIsDriven
  <1> SUFFICES ASSUME FeedInv, client.desired # {}, ~liveClosed, ~ridden
               PROVE  LiveFeedIsDriven
    BY DEF LiveFeedIsDriven
  <1>1. Driven(client, openings) /\ LineInv(client, openings)
    BY DEF FeedInv
  <1>2. client.state \in {"closed", "connecting", "connected"}
    BY DEF FeedInv, Clients
  <1>3. QED
    BY <1>1, <1>2 DEF Driven, LineInv, LiveFeedIsDriven

(* While a symbol is wanted, something of the current generation brings    *)
(* its data: no release, rejection, refusal, lost socket or late approval  *)
(* leaves the holders waiting for nothing.                                 *)
THEOREM FeedIsDriven == FeedSpec => []LiveFeedIsDriven
  <1>1. FeedInit => FeedInv
    BY FeedInitInv
  <1>2. FeedInv /\ [FeedNext]_feedVars => FeedInv'
    BY FeedNextInv
  <1>3. QED
    BY <1>1, <1>2, DrivenByLine, PTL DEF FeedSpec

-----------------------------------------------------------------------------
(* f is the history of what the provider comes to send. *)
SentInTurn(f, D, p, q) ==
    /\ f \in [0..Len(q) -> SUBSET Symbols]
    /\ f[0] = p
    /\ \A i \in 1..Len(q) : f[i] = Sent(f[i - 1], D, q[i])
    /\ f[Len(q)] = Provides(D, p, q)

LEMMA ProvidesInTurn ==
    ASSUME NEW D, NEW p \in SUBSET Symbols, NEW q \in Seq(Control)
    PROVE  \E f : SentInTurn(f, D, p, q)
  <1> DEFINE n == Len(q)
             S == SUBSET Symbols
             Solves(f) == f = [s \in SUBSET (1..n) |->
                                 IF s = {} THEN p ELSE Sent(f[s \ {Max(s)}], D, q[Max(s)])]
  <1>1. n \in Nat /\ DOMAIN q = 1..n /\ \A i \in 1..n : q[i] \in Control
    OBVIOUS
  <1>2. \A x \in S, m \in Control : Sent(x, D, m) \in S
    BY DEF Sent, Control
  <1> HIDE DEF n, S
  <1>3. \E f : Solves(f)
    <2> DEFINE step == [i \in 1..n |-> [x \in S |-> Sent(x, D, q[i])]]
    <2>1. step \in [1..n -> [S -> S]]
      BY <1>1, <1>2
    <2>2. p \in S
      BY DEF S
    <2> HIDE DEF step
    <2>3. PICK f : FoldOf(f, n, S, p, step)
      BY <1>1, <2>1, <2>2, FoldSolved
    <2>4. ASSUME NEW s \in SUBSET (1..n), s # {}
          PROVE  step[Max(s)][f[s \ {Max(s)}]] = Sent(f[s \ {Max(s)}], D, q[Max(s)])
      <3>1. PICK m \in s : \A k \in s : k <= m
        <4>1. s \subseteq 0..n
          BY <1>1
        <4>2. QED
          BY <1>1, <2>4, <4>1, GreatestOf
      <3>2. \E x \in s : \A y \in s : x >= y
        <4>1. \A k \in s : k \in Nat
          BY <1>1
        <4>2. QED
          BY <3>1, <4>1
      <3>3. Max(s) \in s
        BY <3>2 DEF Max
      <3>4. Max(s) \in 1..n /\ f[s \ {Max(s)}] \in S
        BY <2>3, <3>3 DEF FoldOf
      <3>5. QED
        BY <3>4 DEF step
    <2>5. Solves(f)
      BY <2>3, <2>4 DEF FoldOf
    <2>6. QED
      BY <2>5
  <1> DEFINE iter == CHOOSE f : Solves(f)
  <1>4. Solves(iter)
    BY <1>3
  <1>5. Provides(D, p, q) = iter[1..n]
    BY <1>1 DEF Provides, FoldLeft, MapThenFoldSet
  <1> HIDE DEF iter
  <1> DEFINE f == [i \in 0..n |-> iter[1..i]]
  <1>6. f[0] = p
    <2>1. 1..0 = {} /\ 0 \in 0..n
      BY <1>1
    <2>2. QED
      BY <1>4, <2>1
  <1>7. ASSUME NEW i \in 1..n PROVE f[i] = Sent(f[i - 1], D, q[i])
    <2>1. i \in Nat /\ i # 0 /\ i \in 0..n /\ i - 1 \in 0..n
      BY <1>1
    <2>2. Max(1..i) = i /\ (1..i) \ {i} = 1..i - 1
      BY <2>1, MaxUpTo
    <2>3. 1..i \in SUBSET (1..n) /\ 1..i # {}
      <3>1. i \in 1..i /\ \A j \in 1..i : j \in 1..n
        BY <1>1, <2>1
      <3>2. QED
        BY <3>1
    <2>4. iter[1..i] = Sent(iter[1..i - 1], D, q[i])
      BY <1>4, <2>2, <2>3
    <2>5. QED
      BY <2>1, <2>4
  <1>8. f[n] = Provides(D, p, q) /\ DOMAIN f = 0..n
    BY <1>1, <1>5
  <1> HIDE DEF f
  <1> DEFINE Kept == {i \in 0..n : f[i] \in S}
  <1>9. 0 \in Kept
    BY <1>1, <1>6 DEF S
  <1>10. ASSUME NEW k \in 0..n - 1, k \in Kept PROVE k + 1 \in Kept
    <2>1. k + 1 \in 1..n /\ (k + 1) - 1 = k /\ k + 1 \in 0..n
      BY <1>1
    <2>2. f[k + 1] = Sent(f[k], D, q[k + 1])
      BY <1>7, <2>1
    <2>3. f[k] \in S /\ q[k + 1] \in Control
      BY <1>1, <1>10, <2>1
    <2>4. QED
      BY <1>2, <2>1, <2>2, <2>3
  <1>11. \A i \in 0..n : f[i] \in S
    <2> HIDE DEF Kept
    <2>1. 0..n \subseteq Kept
      BY <1>1, <1>9, <1>10, UpTo
    <2>2. QED
      BY <2>1 DEF Kept
  <1>12. f \in [0..n -> S]
    <2>1. f = [i \in 0..n |-> f[i]]
      BY DEF f
    <2>2. QED
      BY <1>11, <2>1
  <1>13. SentInTurn(f, D, p, q)
    BY <1>6, <1>7, <1>8, <1>12 DEF SentInTurn, n, S
  <1>14. QED
    BY <1>13

(* A message added to the queue is sent last. *)
LEMMA SentLast ==
    ASSUME NEW D, NEW p \in SUBSET Symbols, NEW q \in Seq(Control), NEW m \in Control
    PROVE  Provides(D, p, Append(q, m)) = Sent(Provides(D, p, q), D, m)
  <1> DEFINE r == Append(q, m)
             n == Len(q)
  <1>1. /\ n \in Nat /\ r \in Seq(Control) /\ Len(r) = n + 1 /\ r[n + 1] = m
        /\ \A i \in 1..n : r[i] = q[i]
    OBVIOUS
  <1> HIDE DEF r
  <1>2. PICK f : SentInTurn(f, D, p, q)
    BY ProvidesInTurn
  <1>3. PICK g : SentInTurn(g, D, p, r)
    BY <1>1, ProvidesInTurn
  <1> DEFINE Same == {i \in 0..n : g[i] = f[i]}
  <1>4. 0 \in Same
    BY <1>1, <1>2, <1>3 DEF SentInTurn
  <1>5. ASSUME NEW k \in 0..n - 1, k \in Same PROVE k + 1 \in Same
    <2>1. k + 1 \in 1..n /\ k + 1 \in 1..Len(r) /\ (k + 1) - 1 = k /\ k + 1 \in 0..n
      BY <1>1
    <2>2. f[k + 1] = Sent(f[k], D, q[k + 1]) /\ g[k + 1] = Sent(g[k], D, r[k + 1])
      BY <1>2, <1>3, <2>1 DEF SentInTurn
    <2>3. QED
      BY <1>1, <1>5, <2>1, <2>2
  <1>6. g[n] = f[n]
    <2> HIDE DEF Same
    <2>1. 0..n \subseteq Same
      BY <1>1, <1>4, <1>5, UpTo
    <2>2. QED
      BY <1>1, <2>1 DEF Same
  <1>7. g[n + 1] = Sent(g[n], D, m)
    <2>1. n + 1 \in 1..Len(r) /\ (n + 1) - 1 = n
      BY <1>1
    <2>2. QED
      BY <1>1, <1>3, <2>1 DEF SentInTurn
  <1>8. QED
    BY <1>1, <1>2, <1>3, <1>6, <1>7 DEF SentInTurn, r

(* To send the first message changes nothing of what comes to be sent. *)
LEMMA SentFirst ==
    ASSUME NEW D, NEW p \in SUBSET Symbols, NEW q \in Seq(Control), q # <<>>
    PROVE  /\ Sent(p, D, Head(q)) \in SUBSET Symbols
           /\ Provides(D, Sent(p, D, Head(q)), Tail(q)) = Provides(D, p, q)
  <1> DEFINE r == Tail(q)
             o == Sent(p, D, Head(q))
             n == Len(q) - 1
  <1>1. /\ n \in Nat /\ r \in Seq(Control) /\ Len(r) = n /\ Len(q) = n + 1
        /\ Head(q) = q[1] /\ q[1] \in Control
        /\ \A i \in 1..n : r[i] = q[i + 1]
    OBVIOUS
  <1>2. o \in SUBSET Symbols
    BY <1>1 DEF Sent, Control
  <1> HIDE DEF r, o, n
  <1>3. PICK f : SentInTurn(f, D, p, q)
    BY ProvidesInTurn
  <1>4. PICK g : SentInTurn(g, D, o, r)
    BY <1>1, <1>2, ProvidesInTurn
  <1> DEFINE Same == {i \in 0..n : g[i] = f[i + 1]}
  <1>5. 0 \in Same
    <2>1. f[1] = Sent(f[0], D, q[1]) /\ f[0] = p
      <3>1. 1 \in 1..Len(q) /\ 1 - 1 = 0
        BY <1>1
      <3>2. QED
        BY <1>3, <3>1 DEF SentInTurn
    <2>2. g[0] = o /\ 0 \in 0..n /\ 0 + 1 = 1
      BY <1>1, <1>4 DEF SentInTurn
    <2>3. QED
      BY <1>1, <2>1, <2>2 DEF o
  <1>6. ASSUME NEW k \in 0..n - 1, k \in Same PROVE k + 1 \in Same
    <2>1. /\ k + 1 \in 1..n /\ k + 1 \in 0..n /\ (k + 1) - 1 = k
          /\ (k + 1) + 1 \in 1..Len(q) /\ ((k + 1) + 1) - 1 = k + 1
      BY <1>1
    <2>2. g[k + 1] = Sent(g[k], D, r[k + 1]) /\ f[(k + 1) + 1] = Sent(f[k + 1], D, q[(k + 1) + 1])
      BY <1>1, <1>3, <1>4, <2>1 DEF SentInTurn
    <2>3. r[k + 1] = q[(k + 1) + 1]
      BY <1>1, <2>1
    <2>4. QED
      BY <1>6, <2>1, <2>2, <2>3
  <1>7. g[n] = f[n + 1]
    <2> HIDE DEF Same
    <2>1. 0..n \subseteq Same
      BY <1>1, <1>5, <1>6, UpTo
    <2>2. QED
      BY <1>1, <2>1 DEF Same
  <1>8. Provides(D, o, r) = Provides(D, p, q)
    BY <1>1, <1>3, <1>4, <1>7 DEF SentInTurn
  <1>9. QED
    BY <1>2, <1>8 DEF o, r

SameBut(s, A, B) == A \ {s} = B \ {s}

(* Whether one symbol is desired, or sent already, changes that one only. *)
LEMMA SentOthers ==
    ASSUME NEW s, NEW D, NEW E, SameBut(s, D, E), NEW p \in SUBSET Symbols, NEW o \in SUBSET Symbols,
           SameBut(s, p, o), NEW q \in Seq(Control)
    PROVE  SameBut(s, Provides(D, p, q), Provides(E, o, q))
  <1> DEFINE n == Len(q)
  <1>1. n \in Nat /\ \A i \in 1..n : q[i] \in Control
    OBVIOUS
  <1> HIDE DEF n
  <1>2. PICK f : SentInTurn(f, D, p, q)
    BY ProvidesInTurn
  <1>3. PICK g : SentInTurn(g, E, o, q)
    BY ProvidesInTurn
  <1> DEFINE Same == {i \in 0..n : f[i] \ {s} = g[i] \ {s}}
  <1>4. 0 \in Same
    BY <1>1, <1>2, <1>3 DEF SentInTurn, SameBut
  <1>5. ASSUME NEW k \in 0..n - 1, k \in Same PROVE k + 1 \in Same
    <2>1. k + 1 \in 1..n /\ (k + 1) - 1 = k /\ k + 1 \in 0..n
      BY <1>1
    <2>2. f[k + 1] = Sent(f[k], D, q[k + 1]) /\ g[k + 1] = Sent(g[k], E, q[k + 1])
      BY <1>2, <1>3, <2>1 DEF SentInTurn, n
    <2>3. ASSUME NEW x, NEW y, x \ {s} = y \ {s}, NEW m
          PROVE  Sent(x, D, m) \ {s} = Sent(y, E, m) \ {s}
      BY <2>3 DEF Sent, SameBut
    <2>4. f[k] \ {s} = g[k] \ {s}
      BY <1>5
    <2>5. f[k + 1] \ {s} = g[k + 1] \ {s}
      BY <2>2, <2>3, <2>4
    <2>6. QED
      BY <2>1, <2>5
  <1>6. n \in Same
    <2> HIDE DEF Same
    <2>1. 0..n \subseteq Same
      BY <1>1, <1>4, <1>5, UpTo
    <2>2. QED
      BY <1>1, <2>1
  <1>7. QED
    BY <1>2, <1>3, <1>6 DEF SentInTurn, SameBut, n

(* A provider that sends nothing and is asked for all that is desired comes *)
(* to send just that.                                                       *)
LEMMA SentAll ==
    ASSUME NEW D \in FiniteSubsets
    PROVE  LET ask == SetToSeq({[action |-> "subscribe", symbol |-> s] : s \in D})
           IN Provides(D, {}, ask) = D
  <1> DEFINE A == {[action |-> "subscribe", symbol |-> s] : s \in D}
             h == [s \in D |-> [action |-> "subscribe", symbol |-> s]]
             ask == SetToSeq(A)
             n == Len(ask)
  <1>1. h \in Bijection(D, A)
    BY DEF Bijection, Injection, Surjection, IsInjective
  <1>2. IsFiniteSet(D) /\ ExistsBijection(D, A)
    BY <1>1 DEF FiniteSubsets, ExistsBijection
  <1>3. /\ \A a \in A : a.action = "subscribe" /\ a.symbol \in D
        /\ \A s \in D : \E a \in A : a.symbol = s
    <2>1. \A s \in D : [action |-> "subscribe", symbol |-> s] \in A
      OBVIOUS
    <2>2. \A a \in A : \E s \in D : a = [action |-> "subscribe", symbol |-> s]
      OBVIOUS
    <2>3. \A s \in D : /\ [action |-> "subscribe", symbol |-> s].action = "subscribe"
                      /\ [action |-> "subscribe", symbol |-> s].symbol = s
      OBVIOUS
    <2> HIDE DEF A
    <2>4. QED
      BY <2>1, <2>2, <2>3
  <1>4. ask \in Seq(Control)
    BY AskedAgain
  <1> HIDE DEF A, h
  <1>5. IsFiniteSet(A)
    BY <1>2, FS_Bijection
  <1>6. Cardinality(A) \in Nat /\ ExistsBijection(1..Cardinality(A), A)
    BY <1>5, FS_CardinalityType
  <1>7. PICK M : M \in Bijection(1..Cardinality(A), A)
    BY <1>6 DEF ExistsBijection
  <1>8. M \in [1..Cardinality(A) -> A] /\ IsInjective(M)
    BY <1>7 DEF Bijection, Injection
  <1>9. ask \in [1..Cardinality(A) -> A] /\ IsInjective(ask)
    BY <1>8 DEF SetToSeq
  <1> HIDE DEF ask
  <1>10. ask \in Injection(1..Cardinality(A), A)
    BY <1>9 DEF Injection
  <1>11. IsFiniteSet(1..Cardinality(A)) /\ Cardinality(1..Cardinality(A)) = Cardinality(A)
    <2>1. Cardinality(A) \in Int /\ 1 \in Int
      BY <1>6
    <2>2. /\ IsFiniteSet(1..Cardinality(A))
          /\ Cardinality(1..Cardinality(A)) = IF 1 > Cardinality(A) THEN 0 ELSE Cardinality(A) - 1 + 1
      BY <2>1, FS_Interval
    <2>3. QED
      BY <1>6, <2>2
  <1>12. ask \in Surjection(1..Cardinality(A), A)
    BY <1>5, <1>10, <1>11, FS_Injection
  <1>13. n = Cardinality(A)
    BY <1>4, <1>6, <1>9
  <1> HIDE DEF n
  <1>14. /\ n \in Nat /\ \A i \in 1..n : ask[i].action = "subscribe" /\ ask[i].symbol \in D
         /\ \A s \in D : \E i \in 1..n : ask[i].symbol = s
    <2>1. \A a \in A : \E i \in 1..n : ask[i] = a
      BY <1>12, <1>13 DEF Surjection
    <2>2. QED
      BY <1>3, <1>6, <1>9, <1>13, <2>1
  <1>15. {} \in SUBSET Symbols
    OBVIOUS
  <1>16. PICK f : SentInTurn(f, D, {}, ask)
    BY <1>4, <1>15, ProvidesInTurn
  <1> DEFINE Kept == {i \in 0..n : f[i] = {ask[j].symbol : j \in 1..i}}
  <1>17. 0 \in Kept
    <2>1. 1..0 = {} /\ 0 \in 0..n
      BY <1>14
    <2>2. f[0] = {}
      BY <1>16 DEF SentInTurn
    <2>3. {ask[j].symbol : j \in 1..0} = {}
      BY <2>1
    <2>4. QED
      BY <2>1, <2>2, <2>3
  <1>18. ASSUME NEW k \in 0..n - 1, k \in Kept PROVE k + 1 \in Kept
    <2>1. k + 1 \in 1..n /\ (k + 1) - 1 = k /\ k + 1 \in 0..n
      BY <1>14
    <2>2. f[k + 1] = Sent(f[k], D, ask[k + 1])
      BY <1>16, <2>1 DEF SentInTurn, n
    <2>3. f[k + 1] = f[k] \cup {ask[k + 1].symbol}
      BY <1>14, <2>1, <2>2 DEF Sent
    <2>4. 1..k + 1 = (1..k) \cup {k + 1}
      BY <2>1
    <2>5. f[k] = {ask[j].symbol : j \in 1..k}
      BY <1>18
    <2>6. f[k + 1] = {ask[j].symbol : j \in 1..k + 1}
      BY <2>3, <2>4, <2>5
    <2>7. QED
      BY <2>1, <2>6
  <1>19. n \in Kept
    <2> HIDE DEF Kept
    <2>1. 0..n \subseteq Kept
      BY <1>14, <1>17, <1>18, UpTo
    <2>2. QED
      BY <1>14, <2>1
  <1>20. {ask[j].symbol : j \in 1..n} = D
    <2>1. \A s \in {ask[j].symbol : j \in 1..n} : s \in D
      BY <1>14
    <2>2. \A s \in D : s \in {ask[j].symbol : j \in 1..n}
      BY <1>14
    <2>3. QED
      BY <2>1, <2>2
  <1>21. Provides(D, {}, ask) = D
    BY <1>16, <1>19, <1>20 DEF SentInTurn, n
  <1>22. QED
    BY <1>21 DEF ask, A

(* The provider, when it sends the symbols p, comes to send what the client *)
(* c desires, but for the symbols x.                                        *)
Converges(c, p, x) ==
    c.state = "connected" => c.desired \ x = Provides(c.desired, p, c.controlQueue) \ x

Provider == provided \in SUBSET Symbols /\ muted \in SUBSET Symbols

ConvergeInv == FeedInv /\ Provider /\ Converges(client, provided, muted)

LEMMA ConvergesStated ==
    /\ ControlConverges <=> Converges(client, provided, muted)
    /\ ControlConverges' <=> Converges(client', provided', muted')
  BY DEF ControlConverges, Converges

LEMMA SubscribedConverges ==
    ASSUME NEW c \in Clients, NEW p \in SUBSET Symbols, NEW x, Converges(c, p, x), NEW s \in Symbols
    PROVE  Converges(Subscribed(c, s), p, x) /\ Converges(Unsubscribed(c, s), p, x)
  <1> DEFINE q == c.controlQueue
             D == c.desired
  <1>1. q \in Seq(Control) /\ D \subseteq Symbols
    BY DEF Clients, FiniteSubsets
  <1>2. CASE c.state = "connected"
    <2>1. D \ x = Provides(D, p, q) \ x
      BY <1>2 DEF Converges
    <2>2. ASSUME s \notin D PROVE Converges(Subscribed(c, s), p, x)
      <3> DEFINE m == [action |-> "subscribe", symbol |-> s]
                 E == D \cup {s}
      <3>1. m \in Control /\ m.action = "subscribe" /\ m.symbol = s
        BY DEF Control
      <3>2. Subscribed(c, s) = [c EXCEPT !.desired = E, !.controlQueue = Append(q, m)]
        BY <1>2, <2>2 DEF Subscribed, Clients
      <3>3. Subscribed(c, s).desired = E /\ Subscribed(c, s).controlQueue = Append(q, m)
        BY <3>2 DEF Clients
      <3> HIDE DEF m, q
      <3>4. Provides(E, p, Append(q, m)) = Sent(Provides(E, p, q), E, m)
        BY <1>1, <3>1, SentLast
      <3>5. Provides(E, p, q) \ {s} = Provides(D, p, q) \ {s}
        <4>1. SameBut(s, E, D) /\ SameBut(s, p, p)
          BY DEF SameBut
        <4> HIDE DEF E, D
        <4>2. SameBut(s, Provides(E, p, q), Provides(D, p, q))
          BY <1>1, <4>1, SentOthers
        <4>3. QED
          BY <4>2 DEF SameBut
      <3>6. Sent(Provides(E, p, q), E, m) = Provides(E, p, q) \cup {s}
        BY <3>1 DEF Sent
      <3>7. (Provides(E, p, q) \cup {s}) \ x = E \ x
        BY <2>1, <3>5
      <3>8. QED
        BY <3>3, <3>4, <3>6, <3>7 DEF Converges
    <2>3. ASSUME s \in D PROVE Converges(Unsubscribed(c, s), p, x)
      <3> DEFINE m == [action |-> "unsubscribe", symbol |-> s]
                 E == D \ {s}
      <3>1. m \in Control /\ m.action = "unsubscribe" /\ m.symbol = s
        BY DEF Control
      <3>2. Unsubscribed(c, s) = [c EXCEPT !.desired = E, !.controlQueue = Append(q, m)]
        BY <1>2, <2>3 DEF Unsubscribed, Clients
      <3>3. Unsubscribed(c, s).desired = E /\ Unsubscribed(c, s).controlQueue = Append(q, m)
        BY <3>2 DEF Clients
      <3> HIDE DEF m, q
      <3>4. Provides(E, p, Append(q, m)) = Sent(Provides(E, p, q), E, m)
        BY <1>1, <3>1, SentLast
      <3>5. Provides(E, p, q) \ {s} = Provides(D, p, q) \ {s}
        <4>1. SameBut(s, E, D) /\ SameBut(s, p, p)
          BY DEF SameBut
        <4> HIDE DEF E, D
        <4>2. SameBut(s, Provides(E, p, q), Provides(D, p, q))
          BY <1>1, <4>1, SentOthers
        <4>3. QED
          BY <4>2 DEF SameBut
      <3>6. Sent(Provides(E, p, q), E, m) = Provides(E, p, q) \ {s}
        BY <3>1 DEF Sent
      <3>7. (Provides(E, p, q) \ {s}) \ x = E \ x
        BY <2>1, <3>5
      <3>8. QED
        BY <3>3, <3>4, <3>6, <3>7 DEF Converges
    <2>4. (s \in D => Subscribed(c, s) = c) /\ (s \notin D => Unsubscribed(c, s) = c)
      BY DEF Subscribed, Unsubscribed
    <2>5. QED
      BY <2>2, <2>3, <2>4
  <1>3. CASE c.state # "connected"
    <2>1. Subscribed(c, s).state = c.state /\ Unsubscribed(c, s).state = c.state
      BY DEF Subscribed, Unsubscribed, Clients
    <2>2. QED
      BY <1>3, <2>1 DEF Converges
  <1>4. QED
    BY <1>2, <1>3

(* Giving up a symbol or the whole line *)
LEMMA GiveUpConverges ==
    ASSUME ConvergeInv, NEW map, NEW c \in Clients, Converges(c, provided, muted), GiveUp(map, c)
    PROVE  Provider' /\ Converges(client', provided', muted')
  <1>1. CASE DOMAIN map = {}
    <2>1. client' = Disconnected(c) /\ provided' = {} /\ muted' = {}
      BY <1>1 DEF GiveUp
    <2>2. Disconnected(c).state = "closed"
      BY DEF Disconnected, Clients
    <2>3. QED
      BY <2>1, <2>2 DEF Converges, Provider
  <1>2. CASE DOMAIN map # {}
    BY <1>2 DEF GiveUp, ConvergeInv, Provider
  <1>3. QED
    BY <1>1, <1>2

(* The fields that say what has been asked for *)
SameAsked(c, d) ==
    c.state = d.state /\ c.desired = d.desired /\ c.controlQueue = d.controlQueue

LEMMA AskedConverges ==
    ASSUME NEW c, NEW d, NEW p, NEW x, SameAsked(c, d) \/ d.state # "connected", Converges(c, p, x)
    PROVE  Converges(d, p, x)
  BY DEF SameAsked, Converges

LEMMA RetainConverges ==
    ASSUME ConvergeInv, NEW h \in Holders, NEW s \in Symbols, Retain(h, s)
    PROVE  Provider' /\ Converges(client', provided', muted')
  <1> DEFINE c == Subscribed(client, s)
             go == [c EXCEPT !.manuallyStopped = FALSE]
  <1>1. c \in Clients /\ Converges(c, provided, muted) /\ provided' = provided /\ muted' = muted
    BY SubscribedClient, SubscribedConverges DEF ConvergeInv, Provider, FeedInv, Retain
  <1>2. ConnectBy(h, s, c)
    BY DEF Retain
  <1> HIDE DEF c
  <1>3. go \in Clients /\ SameAsked(c, go)
    BY <1>1 DEF Clients, SameAsked
  <1>4. client' = go \/ client' = Opening(TimerCleared(go))
    BY <1>2 DEF ConnectBy
  <1> HIDE DEF go
  <1>5. TimerCleared(go) \in Clients
    BY <1>3 DEF TimerCleared, Clients
  <1>6. Opening(TimerCleared(go)).state = "closed"
    BY <1>5, OpeningClient
  <1>7. SameAsked(c, client') \/ client'.state # "connected"
    BY <1>3, <1>4, <1>6
  <1>8. Converges(client', provided, muted)
    BY <1>1, <1>7, AskedConverges
  <1>9. QED
    BY <1>1, <1>8 DEF ConvergeInv, Provider

LEMMA ReleaseConverges ==
    ASSUME ConvergeInv, NEW h \in Holders, Release(h)
    PROVE  Provider' /\ Converges(client', provided', muted')
  <1> DEFINE s == holder[h].symbol
  <1>1. client \in Clients /\ Converges(client, provided, muted) /\ provided \in SUBSET Symbols
    BY DEF ConvergeInv, Provider, FeedInv
  <1>2. s \in DOMAIN references => s \in Symbols
    BY <1>1 DEF ConvergeInv, FeedInv, Clients, FiniteSubsets
  <1>3. \/ GiveUp(references, client)
        \/ s \in DOMAIN references /\ GiveUp(Deleted(s), Unsubscribed(client, s))
        \/ GiveUp([references EXCEPT ![s] = @ - 1], client)
    BY DEF Release
  <1> HIDE DEF s
  <1>4. CASE s \in DOMAIN references /\ GiveUp(Deleted(s), Unsubscribed(client, s))
    <2>1. Unsubscribed(client, s) \in Clients /\ Converges(Unsubscribed(client, s), provided, muted)
      BY <1>1, <1>2, <1>4, UnsubscribedClient, SubscribedConverges
    <2>2. QED
      BY <1>4, <2>1, GiveUpConverges
  <1>5. CASE GiveUp(references, client)
    BY <1>1, <1>5, GiveUpConverges
  <1>6. CASE GiveUp([references EXCEPT ![s] = @ - 1], client)
    BY <1>1, <1>6, GiveUpConverges
  <1>7. QED
    BY <1>3, <1>4, <1>5, <1>6

LEMMA ReturnConverges ==
    ASSUME ConvergeInv, NEW t \in openings, Approved(t) \/ Refused(t)
    PROVE  Provider' /\ Converges(client', provided', muted')
  <1> DEFINE g == t.generation
             open == [client EXCEPT !.socket = g, !.state = "connecting", !.connectionTimer = g]
             Done(c) == [c EXCEPT !.inFlight = IF @ = g THEN 0 ELSE @]
  <1>1. /\ client \in Clients /\ Converges(client, provided, muted) /\ Provider
        /\ LineInv(client, openings) /\ g \in Nat
    BY DEF ConvergeInv, FeedInv, Attempts
  <1>2. provided' = provided /\ muted' = muted /\ Provider'
    BY <1>1 DEF Approved, Refused, OpeningReturns, Provider
  <1>3. CASE ~Current(g)
    <2>1. OpeningReturns(t, client, FALSE)
      BY <1>3 DEF Approved, Refused
    <2>2. client' = Done(client)
      BY <2>1 DEF OpeningReturns
    <2>3. SameAsked(client, client')
      BY <1>1, <2>2 DEF Clients, SameAsked
    <2>4. QED
      BY <1>1, <1>2, <2>3, AskedConverges
  <1>4. CASE Current(g) /\ Approved(t)
    <2>1. OpeningReturns(t, open, FALSE)
      BY <1>4 DEF Approved
    <2>2. client' = Done(open)
      BY <2>1 DEF OpeningReturns
    <2>3. client'.state = "connecting"
      BY <1>1, <2>2 DEF Clients
    <2>4. QED
      BY <1>1, <1>2, <2>3, AskedConverges
  <1>5. CASE Current(g) /\ Refused(t)
    <2> DEFINE c == Rescheduled(client)
    <2>1. OpeningReturns(t, c, ~t.again)
      BY <1>5 DEF Refused
    <2>2. c \in Clients /\ c.state = "closed"
      BY <1>1, <1>5, RescheduledClient DEF Current, LineInv
    <2>3. client' = Done(c) \/ \E gone : client' = [Done(c) EXCEPT !.desired = @ \ gone]
      BY <2>1 DEF OpeningReturns
    <2> HIDE DEF c
    <2>4. Done(c).state = "closed" /\ \A gone : [Done(c) EXCEPT !.desired = @ \ gone].state = "closed"
      BY <2>2 DEF Clients
    <2>5. client'.state # "connected"
      BY <2>3, <2>4
    <2>6. QED
      BY <1>1, <1>2, <2>5, AskedConverges
  <1>6. QED
    BY <1>3, <1>4, <1>5

LEMMA LineConverges ==
    ASSUME ConvergeInv, ReconnectTimer \/ SocketOpens \/ SocketEnds \/ ControlSent \/ CloseRuntime
    PROVE  Provider' /\ Converges(client', provided', muted')
  <1>1. /\ client \in Clients /\ Converges(client, provided, muted)
        /\ provided \in SUBSET Symbols /\ muted \in SUBSET Symbols
        /\ LineInv(client, openings)
    BY DEF ConvergeInv, Provider, FeedInv
  <1>2. CASE ReconnectTimer
    <2> DEFINE fired == [client EXCEPT !.reconnectTimer = 0]
    <2>1. (client' = fired \/ client' = Opening(fired)) /\ provided' = provided /\ muted' = muted
      BY <1>2 DEF ReconnectTimer
    <2>2. fired \in Clients /\ SameAsked(client, fired)
      BY <1>1 DEF Clients, SameAsked
    <2> HIDE DEF fired
    <2>3. Opening(fired).state = "closed"
      BY <2>2, OpeningClient
    <2>4. QED
      BY <1>1, <2>1, <2>2, <2>3, AskedConverges DEF Provider
  <1>3. CASE SocketOpens
    <2> DEFINE ask == SetToSeq({[action |-> "subscribe", symbol |-> s] : s \in client.desired})
    <2>1. client.desired \in FiniteSubsets
      BY <1>1 DEF Clients
    <2>2. Provides(client.desired, {}, ask) = client.desired
      BY <2>1, SentAll
    <2>3. /\ client'.controlQueue = ask /\ client'.desired = client.desired
          /\ provided' = {} /\ muted' = {}
      BY <1>1, <1>3 DEF SocketOpens, Clients
    <2> HIDE DEF ask
    <2>4. QED
      BY <2>2, <2>3 DEF Converges, Provider
  <1>4. CASE SocketEnds
    <2> DEFINE c == [client EXCEPT !.connectionTimer = 0, !.controlQueue = <<>>, !.socket = 0]
    <2>1. client' = Rescheduled(c) /\ provided' = {} /\ muted' = {} /\ ~client.manuallyStopped
      BY <1>4 DEF SocketEnds, Current
    <2>2. /\ c \in Clients /\ c.generation = client.generation
          /\ c.reconnectTimer = client.reconnectTimer /\ c.manuallyStopped = client.manuallyStopped
      <3>1. <<>> \in Seq(Control)
        OBVIOUS
      <3>2. QED
        BY <1>1, <3>1 DEF Clients
    <2> HIDE DEF c
    <2>3. Rescheduled(c).state = "closed"
      BY <1>1, <2>1, <2>2, RescheduledClient DEF LineInv
    <2>4. QED
      BY <2>1, <2>3 DEF Converges, Provider
  <1>5. CASE ControlSent
    <2> DEFINE q == client.controlQueue
               D == client.desired
               m == Head(q)
    <2>1. /\ q \in Seq(Control) /\ q # <<>> /\ client.state = "connected"
          /\ client' = [client EXCEPT !.controlQueue = Tail(q)]
          /\ \/ provided' = Sent(provided, D, m) /\ muted' = muted
             \/ provided' = provided /\ muted' = muted \cup {m.symbol}
      BY <1>1, <1>5 DEF ControlSent, Clients
    <2>2. client'.desired = D /\ client'.controlQueue = Tail(q)
      BY <1>1, <2>1 DEF Clients
    <2>3. D \ muted = Provides(D, provided, q) \ muted
      BY <1>1, <2>1 DEF Converges
    <2>4. m \in Control /\ Tail(q) \in Seq(Control)
      BY <2>1
    <2> HIDE DEF q, D
    <2>5. /\ Sent(provided, D, m) \in SUBSET Symbols
          /\ Provides(D, Sent(provided, D, m), Tail(q)) = Provides(D, provided, q)
      BY <1>1, <2>1, SentFirst
    <2> HIDE DEF m
    <2>6. CASE provided' = Sent(provided, D, m) /\ muted' = muted
      BY <1>1, <2>2, <2>3, <2>5, <2>6 DEF Converges, Provider
    <2>7. CASE provided' = provided /\ muted' = muted \cup {m.symbol}
      <3>1. SameBut(m.symbol, D, D) /\ SameBut(m.symbol, Sent(provided, D, m), provided)
        BY DEF SameBut, Sent
      <3>2. SameBut(m.symbol, Provides(D, Sent(provided, D, m), Tail(q)), Provides(D, provided, Tail(q)))
        BY <1>1, <2>4, <2>5, <3>1, SentOthers
      <3>3. Provides(D, provided, q) \ {m.symbol} = Provides(D, provided, Tail(q)) \ {m.symbol}
        BY <2>5, <3>2 DEF SameBut
      <3>4. D \ muted' = Provides(D, provided, Tail(q)) \ muted'
        BY <2>3, <2>7, <3>3
      <3>5. Provider'
        BY <1>1, <2>4, <2>7 DEF Provider, Control
      <3>6. QED
        BY <2>2, <2>7, <3>4, <3>5 DEF Converges
    <2>8. QED
      BY <2>1, <2>6, <2>7
  <1>6. CASE CloseRuntime
    <2>1. client' = Disconnected(client) /\ provided' = {} /\ muted' = {}
      BY <1>6 DEF CloseRuntime
    <2>2. client'.state = "closed"
      BY <1>1, <2>1, DisconnectedClient
    <2>3. QED
      BY <2>1, <2>2 DEF Converges, Provider
  <1>7. QED
    BY <1>2, <1>3, <1>4, <1>5, <1>6

LEMMA ConvergeNext == ASSUME ConvergeInv, [FeedNext]_feedVars PROVE ConvergeInv'
  <1>1. FeedInv'
    BY FeedNextInv DEF ConvergeInv
  <1>2. Provider' /\ Converges(client', provided', muted')
    <2>1. ASSUME NEW h \in Holders, NEW s \in Symbols, Retain(h, s)
          PROVE  Provider' /\ Converges(client', provided', muted')
      BY <2>1, RetainConverges
    <2>2. ASSUME NEW h \in Holders, Release(h)
          PROVE  Provider' /\ Converges(client', provided', muted')
      BY <2>2, ReleaseConverges
    <2>3. ASSUME NEW t \in openings, Approved(t) \/ Refused(t)
          PROVE  Provider' /\ Converges(client', provided', muted')
      BY <2>3, ReturnConverges
    <2>4. ASSUME NEW s \in Symbols, Rejected(s)
          PROVE  Provider' /\ Converges(client', provided', muted')
      <3>1. Unsubscribed(client, s) \in Clients /\ Converges(Unsubscribed(client, s), provided, muted)
        BY UnsubscribedClient, SubscribedConverges DEF ConvergeInv, Provider, FeedInv
      <3>2. QED
        BY <2>4, <3>1, GiveUpConverges DEF Rejected
    <2>5. CASE ReconnectTimer \/ SocketOpens \/ SocketEnds \/ ControlSent \/ CloseRuntime
      BY <2>5, LineConverges
    <2>6. CASE UNCHANGED feedVars
      BY <2>6 DEF feedVars, ConvergeInv, Provider
    <2>7. QED
      BY <2>1, <2>2, <2>3, <2>4, <2>5, <2>6 DEF FeedNext
  <1>3. QED
    BY <1>1, <1>2 DEF ConvergeInv

(* Over a connection the provider comes to send what is desired and nothing *)
(* else, in whatever order symbols are retained, released and rejected      *)
(* while messages wait, and after every new connection; but for the symbols *)
(* that the connection lost a message of.                                   *)
THEOREM ProviderConverges == FeedSpec => []ControlConverges
  <1>1. FeedInit => ConvergeInv
    <2> SUFFICES ASSUME FeedInit PROVE ConvergeInv
      OBVIOUS
    <2>1. FeedInv
      BY FeedInitInv
    <2>2. client.state # "connected" /\ provided = {} /\ muted = {}
      BY DEF FeedInit
    <2>3. QED
      BY <2>1, <2>2 DEF ConvergeInv, Converges, Provider
  <1>2. ConvergeInv => ControlConverges
    BY ConvergesStated DEF ConvergeInv
  <1>3. QED
    BY <1>1, <1>2, ConvergeNext, PTL DEF FeedSpec

-----------------------------------------------------------------------------
(* LiveFeed: the types of its state.  An attempt, a socket, a timer and a  *)
(* holder name a generation that there has been.                           *)

Bounded(c) ==
    /\ c.generation <= MaxGenerations /\ c.socket <= MaxGenerations
    /\ c.connectionTimer <= MaxGenerations /\ c.reconnectTimer <= MaxGenerations
    /\ c.inFlight <= MaxGenerations

Retaining == [at : {"free", "waiting", "holding"}, symbol : Symbols \cup {"none"},
              on : 0..MaxGenerations, created : BOOLEAN]

Waiting == {h \in Holders : holder[h].at = "waiting"}

FeedTypes ==
    /\ Bounded(client)
    /\ holder \in [Holders -> Retaining]
    /\ IsFiniteSet(Waiting)
    /\ \A s \in DOMAIN references : references[s] \in Int
    /\ liveClosed \in BOOLEAN /\ ridden \in BOOLEAN

FeedTypeInv == ConvergeInv /\ FeedTypes

LEMMA FeedTypesStated == ASSUME FeedTypeInv PROVE FeedTypeOK
  <1>1. /\ client \in Clients /\ Bounded(client) /\ MaxGenerations \in Nat
        /\ openings \subseteq Attempts /\ LineInv(client, openings)
    BY LiveFeedAssumption DEF FeedTypeInv, ConvergeInv, FeedInv, FeedTypes
  <1>2. client \in [state : {"closed", "connecting", "connected"}, generation : 0..MaxGenerations,
                    manuallyStopped : BOOLEAN, socket : 0..MaxGenerations,
                    connectionTimer : 0..MaxGenerations, reconnectTimer : 0..MaxGenerations,
                    retried : BOOLEAN, inFlight : 0..MaxGenerations,
                    desired : SUBSET Symbols, controlQueue : Seq(Control)]
    <2>1. client.desired \in SUBSET Symbols /\ client.controlQueue \in Seq(Control)
      BY <1>1 DEF Clients, FiniteSubsets
    <2> DEFINE Desires == FiniteSubsets
               Queues == Seq(Control)
               All == SUBSET Symbols
    <2>2. client \in [state : {"closed", "connecting", "connected"}, generation : Nat,
               manuallyStopped : BOOLEAN, socket : Nat, connectionTimer : Nat,
               reconnectTimer : Nat, retried : BOOLEAN, inFlight : Nat,
               desired : Desires, controlQueue : Queues]
      BY <1>1 DEF Clients
    <2>3. client.desired \in All
      BY <2>1
    <2> HIDE DEF Desires, Queues, All
    <2>4. client \in [state : {"closed", "connecting", "connected"}, generation : 0..MaxGenerations,
                    manuallyStopped : BOOLEAN, socket : 0..MaxGenerations,
                    connectionTimer : 0..MaxGenerations, reconnectTimer : 0..MaxGenerations,
                    retried : BOOLEAN, inFlight : 0..MaxGenerations,
                    desired : All, controlQueue : Queues]
      BY <1>1, <2>2, <2>3 DEF Bounded
    <2>5. QED
      BY <2>4 DEF All, Queues
  <1>3. openings \subseteq [generation : 0..MaxGenerations, again : BOOLEAN]
    <2>1. ASSUME NEW t \in openings PROVE t \in [generation : 0..MaxGenerations, again : BOOLEAN]
      <3>1. t \in Attempts /\ t.generation <= client.generation /\ client.generation \in Nat
        BY <1>1 DEF LineInv, Clients
      <3>2. t.generation \in 0..MaxGenerations
        BY <1>1, <3>1 DEF Bounded, Attempts
      <3>3. QED
        BY <3>1, <3>2 DEF Attempts
    <2>2. QED
      BY <2>1
  <1>4. DOMAIN references \subseteq Symbols
    BY <1>1 DEF FeedTypeInv, ConvergeInv, FeedInv, Clients, FiniteSubsets
  <1>5. provided \subseteq Symbols /\ muted \subseteq Symbols
    BY DEF FeedTypeInv, ConvergeInv, Provider
  <1>6. QED
    BY <1>2, <1>3, <1>4, <1>5 DEF FeedTypeInv, FeedTypes, Retaining, FeedTypeOK

LEMMA BoundedLine == ASSUME NEW c, NEW d, Bounded(c), SameLine(d, c) PROVE Bounded(d)
  BY DEF Bounded, SameLine

LEMMA BoundedChanges ==
  ASSUME NEW c \in Clients, Bounded(c)
  PROVE  /\ c.generation < MaxGenerations => Bounded(Disconnected(c)) /\ Bounded(Opening(c))
         /\ Bounded(Rescheduled(c))
  <1>1. MaxGenerations \in Nat /\ c.generation \in Nat
    BY LiveFeedAssumption DEF Clients
  <1>2. /\ Disconnected(c).generation = c.generation + 1 /\ Disconnected(c).socket = 0
        /\ Disconnected(c).connectionTimer = 0 /\ Disconnected(c).reconnectTimer = 0
        /\ Disconnected(c).inFlight = c.inFlight
    BY DEF Disconnected, Clients
  <1>3. /\ Opening(c).generation = c.generation + 1 /\ Opening(c).socket = c.socket
        /\ Opening(c).connectionTimer = c.connectionTimer
        /\ Opening(c).reconnectTimer = c.reconnectTimer
        /\ Opening(c).inFlight = c.generation + 1
    BY DEF Opening, Clients
  <1>4. /\ Rescheduled(c).generation = c.generation /\ Rescheduled(c).socket = c.socket
        /\ Rescheduled(c).connectionTimer = c.connectionTimer
        /\ Rescheduled(c).reconnectTimer \in {c.reconnectTimer, c.generation}
        /\ Rescheduled(c).inFlight = c.inFlight
    BY DEF Rescheduled, Clients
  <1>5. QED
    BY <1>1, <1>2, <1>3, <1>4 DEF Bounded

LEMMA FeedTypesInit == ASSUME FeedInit PROVE FeedTypeInv
  <1>1. FeedInv
    BY FeedInitInv
  <1>2. ConvergeInv
    BY <1>1 DEF ConvergeInv, FeedInit, Converges, Provider
  <1>3. Bounded(client)
    BY LiveFeedAssumption DEF FeedInit, Bounded
  <1>4. Waiting = {}
    BY DEF Waiting, FeedInit, Free
  <1>5. holder \in [Holders -> Retaining]
    BY LiveFeedAssumption DEF FeedInit, Free, Retaining
  <1>6. DOMAIN references = {}
    BY DEF FeedInit
  <1>7. QED
    BY <1>2, <1>3, <1>4, <1>5, <1>6, FS_EmptySet DEF FeedTypeInv, FeedTypes, FeedInit

(* The calls of retain that wait are one more at most, or fewer. *)
LEMMA WaitingFinite ==
  ASSUME IsFiniteSet(Waiting), NEW more, Waiting' \subseteq Waiting \cup {more}
  PROVE  IsFiniteSet(Waiting)'
  <1>1. IsFiniteSet(Waiting \cup {more})
    BY FS_AddElement
  <1>2. QED
    BY <1>1, FS_Subset

LEMMA HolderMoves ==
  ASSUME FeedTypes, NEW h \in Holders, NEW k \in Retaining, holder' = [holder EXCEPT ![h] = k]
  PROVE  holder' \in [Holders -> Retaining] /\ IsFiniteSet(Waiting)'
  <1>1. holder' \in [Holders -> Retaining]
    BY DEF FeedTypes
  <1>2. Waiting' \subseteq Waiting \cup {h}
    BY DEF FeedTypes, Waiting
  <1>3. QED
    BY <1>1, <1>2, WaitingFinite DEF FeedTypes

LEMMA GiveUpTypes ==
  ASSUME FeedTypeInv, NEW map, NEW c \in Clients, SameLine(c, client),
         client.generation < MaxGenerations, \A s \in DOMAIN map : map[s] \in Int,
         GiveUp(map, c)
  PROVE  /\ Bounded(client')
         /\ \A s \in DOMAIN references' : references'[s] \in Int
         /\ liveClosed' \in BOOLEAN /\ ridden' \in BOOLEAN
  <1>1. Bounded(c) /\ c.generation < MaxGenerations
    BY BoundedLine DEF FeedTypeInv, FeedTypes, SameLine
  <1>2. Bounded(Disconnected(c))
    BY <1>1, BoundedChanges
  <1>3. Bounded(client')
    BY <1>1, <1>2 DEF GiveUp
  <1>4. QED
    BY <1>3 DEF GiveUp, FeedTypeInv, FeedTypes

LEMMA RetainTypes ==
  ASSUME FeedTypeInv, NEW h \in Holders, NEW s \in Symbols, Retain(h, s)
  PROVE  FeedTypes'
  <1> DEFINE c == Subscribed(client, s)
             go == [c EXCEPT !.manuallyStopped = FALSE]
             cleared == TimerCleared(go)
  <1>1. c \in Clients /\ SameLine(c, client) /\ ConnectBy(h, s, c) /\ UNCHANGED liveClosed
        /\ client.generation < MaxGenerations
    BY SubscribedClient DEF Retain, FeedTypeInv, ConvergeInv, FeedInv
  <1>2. Bounded(c) /\ c.generation < MaxGenerations
    BY <1>1, BoundedLine DEF FeedTypeInv, FeedTypes, SameLine
  <1>3. c.generation + 1 \in 0..MaxGenerations /\ c.inFlight \in 0..MaxGenerations
        /\ 0 \in 0..MaxGenerations
    BY <1>1, <1>2, LiveFeedAssumption DEF Clients, Bounded
  <1> HIDE DEF c
  <1>4. go \in Clients /\ Bounded(go) /\ go.generation = c.generation
    BY <1>1, <1>2 DEF Clients, Bounded
  <1>5. client' = go \/ client' = Opening(cleared)
    BY <1>1 DEF ConnectBy
  <1> HIDE DEF go
  <1>6. cleared \in Clients /\ Bounded(cleared) /\ cleared.generation = c.generation
    BY <1>4, LiveFeedAssumption DEF TimerCleared, Clients, Bounded
  <1> HIDE DEF cleared
  <1>7. Bounded(client')
    BY <1>2, <1>4, <1>5, <1>6, BoundedChanges
  <1>8. ridden' \in BOOLEAN
    BY <1>1 DEF ConnectBy, FeedTypeInv, FeedTypes
  <1>9. holder' \in [Holders -> Retaining] /\ IsFiniteSet(Waiting)'
    <2>1. \E at \in {"waiting", "holding"}, on \in {0, c.inFlight, c.generation + 1} :
            holder' = [holder EXCEPT ![h] = [at |-> at, symbol |-> s, on |-> on,
                                             created |-> s \notin DOMAIN references]]
      BY <1>1 DEF ConnectBy
    <2>2. PICK at \in {"waiting", "holding"}, on \in {0, c.inFlight, c.generation + 1} :
            holder' = [holder EXCEPT ![h] = [at |-> at, symbol |-> s, on |-> on,
                                             created |-> s \notin DOMAIN references]]
      BY <2>1
    <2>3. (s \notin DOMAIN references) \in BOOLEAN
      OBVIOUS
    <2>4. on \in 0..MaxGenerations
      BY <1>3
    <2>5. [at |-> at, symbol |-> s, on |-> on, created |-> s \notin DOMAIN references] \in Retaining
      BY <2>3, <2>4 DEF Retaining
    <2>6. QED
      BY <2>2, <2>5, HolderMoves DEF FeedTypeInv
  <1>10. \A k \in DOMAIN references' : references'[k] \in Int
    BY DEF Retain, FeedTypeInv, FeedTypes
  <1>11. QED
    BY <1>1, <1>7, <1>8, <1>9, <1>10 DEF FeedTypeInv, FeedTypes

LEMMA ReleaseTypes ==
  ASSUME FeedTypeInv, NEW h \in Holders, Release(h)
  PROVE  FeedTypes'
  <1> DEFINE s == holder[h].symbol
  <1>1. client \in Clients /\ client.generation < MaxGenerations /\ SameLine(client, client)
        /\ holder' = [holder EXCEPT ![h] = Free]
        /\ \A k \in DOMAIN references : references[k] \in Int
        /\ DOMAIN references \subseteq Symbols
    BY DEF Release, FeedTypeInv, FeedTypes, ConvergeInv, FeedInv, SameLine, Clients, FiniteSubsets
  <1>2. Free \in Retaining
    BY LiveFeedAssumption DEF Free, Retaining
  <1>3. holder' \in [Holders -> Retaining] /\ IsFiniteSet(Waiting)'
    BY <1>1, <1>2, HolderMoves DEF FeedTypeInv
  <1>4. \E map, c : /\ GiveUp(map, c) /\ c \in Clients /\ SameLine(c, client)
                    /\ \A k \in DOMAIN map : map[k] \in Int
    <2>1. CASE s \notin DOMAIN references
      BY <1>1, <2>1 DEF Release
    <2>2. CASE s \in DOMAIN references /\ references[s] <= 1
      <3>1. GiveUp(Deleted(s), Unsubscribed(client, s))
        BY <2>2 DEF Release
      <3>2. Unsubscribed(client, s) \in Clients /\ SameLine(Unsubscribed(client, s), client)
        BY <1>1, <2>2, UnsubscribedClient
      <3>3. \A k \in DOMAIN Deleted(s) : Deleted(s)[k] \in Int
        BY <1>1 DEF Deleted
      <3>4. QED
        BY <3>1, <3>2, <3>3
    <2>3. CASE s \in DOMAIN references /\ ~(references[s] <= 1)
      <3> DEFINE map == [references EXCEPT ![s] = @ - 1]
      <3>1. GiveUp(map, client)
        BY <2>3 DEF Release
      <3>2. \A k \in DOMAIN map : map[k] \in Int
        BY <1>1, <2>3
      <3>3. QED
        BY <1>1, <3>1, <3>2
    <2>4. QED
      BY <2>1, <2>2, <2>3
  <1>5. PICK map, c : /\ GiveUp(map, c) /\ c \in Clients /\ SameLine(c, client)
                      /\ \A k \in DOMAIN map : map[k] \in Int
    BY <1>4
  <1>6. QED
    BY <1>1, <1>3, <1>5, GiveUpTypes DEF FeedTypes

LEMMA RejectedTypes ==
  ASSUME FeedTypeInv, NEW s \in Symbols, Rejected(s)
  PROVE  FeedTypes'
  <1>1. /\ client \in Clients /\ client.generation < MaxGenerations /\ holder' = holder
        /\ \A k \in DOMAIN references : references[k] \in Int
        /\ GiveUp(Deleted(s), Unsubscribed(client, s))
    BY DEF Rejected, FeedTypeInv, FeedTypes, ConvergeInv, FeedInv
  <1>2. Unsubscribed(client, s) \in Clients /\ SameLine(Unsubscribed(client, s), client)
    BY <1>1, UnsubscribedClient
  <1>3. \A k \in DOMAIN Deleted(s) : Deleted(s)[k] \in Int
    BY <1>1 DEF Deleted
  <1>4. Waiting' = Waiting
    BY <1>1 DEF Waiting
  <1>5. QED
    BY <1>1, <1>2, <1>3, <1>4, GiveUpTypes DEF FeedTypeInv, FeedTypes

(* The callers of an attempt are finite in number: each of them waits. *)
LEMMA ReturnTypes ==
  ASSUME FeedTypeInv, NEW t \in openings, NEW c \in Clients, Bounded(c), NEW throws \in BOOLEAN,
         OpeningReturns(t, c, throws)
  PROVE  FeedTypes'
  <1> DEFINE flight == IF c.inFlight = t.generation THEN 0 ELSE c.inFlight
             done == [c EXCEPT !.inFlight = flight]
             mine == {h \in Holders : holder[h].at = "waiting" /\ holder[h].on = t.generation}
             gone == {s \in Symbols : \E h \in mine : holder[h].symbol = s /\ holder[h].created}
             Mine(s) == Cardinality({h \in mine : holder[h].symbol = s})
  <1>1. /\ client' = done \/ client' = [done EXCEPT !.desired = done.desired \ gone]
        /\ UNCHANGED <<liveClosed, ridden>>
        /\ holder' = [h \in Holders |->
                       IF h \notin mine THEN holder[h]
                       ELSE IF throws THEN Free ELSE [holder[h] EXCEPT !.at = "holding", !.on = 0]]
        /\ references' \in {references, [s \in DOMAIN references \ gone |-> references[s] - Mine(s)]}
    BY DEF OpeningReturns
  <1>2. \A s : Mine(s) \in Nat
    <2> TAKE s
    <2>1. {h \in mine : holder[h].symbol = s} \subseteq Waiting
      BY DEF Waiting
    <2>2. QED
      BY <2>1, FS_Subset, FS_CardinalityType DEF FeedTypeInv, FeedTypes
  <1>3. \A s \in DOMAIN references' : references'[s] \in Int
    <2> DEFINE counted == [s \in DOMAIN references \ gone |-> references[s] - Mine(s)]
    <2>1. \A s \in DOMAIN references : references[s] \in Int
      BY DEF FeedTypeInv, FeedTypes
    <2> HIDE DEF Mine, gone
    <2>2. \A s \in DOMAIN references : references[s] - Mine(s) \in Int
      BY <1>2, <2>1
    <2>3. \A s \in DOMAIN counted : counted[s] \in Int
      BY <2>2
    <2>4. references' = references \/ references' = counted
      BY <1>1
    <2> HIDE DEF counted
    <2>5. QED
      BY <2>1, <2>3, <2>4
  <1>4. Bounded(client')
    <2>1. flight \in Nat /\ flight <= MaxGenerations
      BY LiveFeedAssumption DEF Clients, Bounded
    <2> HIDE DEF flight, gone
    <2>2. done \in Clients /\ Bounded(done)
      BY <2>1 DEF Clients, Bounded
    <2> HIDE DEF done
    <2> DEFINE wanted == done.desired \ gone
    <2>3. client' = done \/ client' = [done EXCEPT !.desired = wanted]
      BY <1>1
    <2> HIDE DEF wanted
    <2>4. QED
      BY <2>2, <2>3 DEF Clients, Bounded
  <1>5. holder' \in [Holders -> Retaining] /\ Waiting' \subseteq Waiting
    <2> HIDE DEF mine
    <2>1. \A h \in Holders : holder[h] \in Retaining
      BY DEF FeedTypeInv, FeedTypes
    <2>2. \A h \in Holders : [holder[h] EXCEPT !.at = "holding", !.on = 0] \in Retaining
      <3>1. 0 \in 0..MaxGenerations
        BY LiveFeedAssumption
      <3> DEFINE On == 0..MaxGenerations
      <3>2. \A h \in Holders :
              holder[h] \in [at : {"free", "waiting", "holding"}, symbol : Symbols \cup {"none"},
                            on : On, created : BOOLEAN]
        BY <2>1 DEF Retaining
      <3>3. 0 \in On
        BY <3>1
      <3> HIDE DEF On
      <3>4. \A h \in Holders :
              [holder[h] EXCEPT !.at = "holding", !.on = 0]
                \in [at : {"free", "waiting", "holding"}, symbol : Symbols \cup {"none"},
                    on : On, created : BOOLEAN]
        BY <3>2, <3>3
      <3>5. QED
        BY <3>4 DEF On, Retaining
    <2>3. Free \in Retaining
      BY LiveFeedAssumption DEF Free, Retaining
    <2>4. holder' \in [Holders -> Retaining]
      BY <1>1, <2>1, <2>2, <2>3
    <2>5. \A h \in Holders : holder'[h].at = "waiting" => h \in Waiting
      <3> TAKE h \in Holders
      <3>1. [holder[h] EXCEPT !.at = "holding", !.on = 0].at = "holding" /\ Free.at = "free"
        BY <2>1 DEF Retaining, Free
      <3>2. holder'[h] = holder[h] \/ holder'[h].at \in {"free", "holding"}
        BY <1>1, <3>1
      <3>3. QED
        BY <3>2 DEF Waiting
    <2>6. QED
      BY <2>4, <2>5 DEF Waiting
  <1>6. IsFiniteSet(Waiting)'
    BY <1>5, FS_Subset DEF FeedTypeInv, FeedTypes
  <1>7. QED
    BY <1>1, <1>3, <1>4, <1>5, <1>6 DEF FeedTypeInv, FeedTypes

LEMMA OpeningTypes ==
  ASSUME FeedTypeInv, NEW t \in openings, Approved(t) \/ Refused(t)
  PROVE  FeedTypes'
  <1>1. client \in Clients /\ Bounded(client) /\ t.generation \in Nat
        /\ t.generation <= client.generation
    BY DEF FeedTypeInv, FeedTypes, ConvergeInv, FeedInv, LineInv, Attempts
  <1> DEFINE g == t.generation
             open == [client EXCEPT !.socket = g, !.state = "connecting", !.connectionTimer = g]
  <1>2. g \in Nat /\ g <= MaxGenerations
    BY <1>1, LiveFeedAssumption DEF Clients, Bounded
  <1> HIDE DEF g
  <1>3. open \in Clients /\ Bounded(open)
    BY <1>1, <1>2 DEF Clients, Bounded
  <1>4. CASE ~Current(t.generation)
    <2>1. OpeningReturns(t, client, FALSE)
      BY <1>4 DEF Approved, Refused
    <2>2. QED
      BY <1>1, <2>1, ReturnTypes
  <1>5. CASE Current(t.generation) /\ Approved(t)
    <2>1. OpeningReturns(t, open, FALSE)
      BY <1>5 DEF Approved, g
    <2> HIDE DEF open
    <2>2. QED
      BY <1>3, <2>1, ReturnTypes
  <1>6. CASE Current(t.generation) /\ Refused(t)
    <2> DEFINE c == Rescheduled(client)
               throws == ~t.again
    <2>1. OpeningReturns(t, c, throws)
      BY <1>6 DEF Refused
    <2>2. c \in Clients /\ Bounded(c)
      <3>1. client.reconnectTimer \in {0, client.generation} /\ ~client.manuallyStopped
        BY <1>6 DEF Current, FeedTypeInv, ConvergeInv, FeedInv, LineInv
      <3>2. QED
        BY <1>1, <3>1, RescheduledClient, BoundedChanges
    <2>3. throws \in BOOLEAN
      OBVIOUS
    <2> HIDE DEF c, throws
    <2>4. QED
      BY <2>1, <2>2, <2>3, ReturnTypes
  <1>7. QED
    BY <1>4, <1>5, <1>6

LEMMA LineTypes ==
  ASSUME FeedTypeInv, ReconnectTimer \/ SocketOpens \/ SocketEnds \/ ControlSent \/ CloseRuntime
  PROVE  FeedTypes'
  <1>1. /\ client \in Clients /\ Bounded(client) /\ MaxGenerations \in Nat
        /\ \A s \in DOMAIN references : references[s] \in Int
        /\ liveClosed \in BOOLEAN /\ ridden \in BOOLEAN
    BY LiveFeedAssumption DEF FeedTypeInv, FeedTypes, ConvergeInv, FeedInv
  <1>2. holder' = holder
    BY DEF ReconnectTimer, SocketOpens, SocketEnds, ControlSent, CloseRuntime
  <1>3. holder' \in [Holders -> Retaining] /\ IsFiniteSet(Waiting)'
    BY <1>2 DEF FeedTypeInv, FeedTypes, Waiting
  <1>4. /\ \A s \in DOMAIN references' : references'[s] \in Int
        /\ liveClosed' \in BOOLEAN /\ ridden' \in BOOLEAN
    <2>1. references' = references \/ DOMAIN references' = {}
      BY DEF ReconnectTimer, SocketOpens, SocketEnds, ControlSent, CloseRuntime
    <2>2. liveClosed' \in {liveClosed, TRUE} /\ ridden' \in {ridden, FALSE}
      BY DEF ReconnectTimer, SocketOpens, SocketEnds, ControlSent, CloseRuntime
    <2>3. QED
      BY <1>1, <2>1, <2>2
  <1>5. Bounded(client')
    <2>1. CASE ReconnectTimer
      <3> DEFINE fired == [client EXCEPT !.reconnectTimer = 0]
      <3>1. (client' = fired \/ client' = Opening(fired)) /\ client.generation < MaxGenerations
        BY <2>1 DEF ReconnectTimer
      <3>2. fired \in Clients /\ Bounded(fired) /\ fired.generation = client.generation
        BY <1>1 DEF Clients, Bounded
      <3> HIDE DEF fired
      <3>3. QED
        BY <3>1, <3>2, BoundedChanges
    <2>2. CASE SocketOpens
      <3> DEFINE ask == SetToSeq({[action |-> "subscribe", symbol |-> s] : s \in client.desired})
      <3>1. client' = [client EXCEPT !.state = "connected", !.connectionTimer = 0, !.retried = FALSE,
                                   !.controlQueue = ask]
        BY <2>2 DEF SocketOpens
      <3> HIDE DEF ask
      <3>2. QED
        BY <1>1, <3>1 DEF Clients, Bounded
    <2>3. CASE SocketEnds
      <3> DEFINE e == [client EXCEPT !.connectionTimer = 0, !.socket = 0]
                 c == [e EXCEPT !.controlQueue = <<>>]
      <3>1. client' = Rescheduled(c)
        BY <2>3 DEF SocketEnds
      <3>2. <<>> \in Seq(Control)
        OBVIOUS
      <3>3. e \in Clients /\ Bounded(e)
        <4>1. /\ e \in Clients /\ e.generation = client.generation /\ e.socket = 0
              /\ e.connectionTimer = 0 /\ e.reconnectTimer = client.reconnectTimer
              /\ e.inFlight = client.inFlight
          BY <1>1 DEF Clients
        <4> HIDE DEF e
        <4>2. QED
          BY <1>1, <4>1 DEF Bounded
      <3> HIDE DEF e
      <3>4. c \in Clients /\ Bounded(c)
        BY <3>2, <3>3 DEF Clients, Bounded
      <3> HIDE DEF c
      <3>5. QED
        BY <3>1, <3>4, BoundedChanges
    <2>4. CASE ControlSent
      <3>1. client' = [client EXCEPT !.controlQueue = Tail(@)]
        BY <2>4 DEF ControlSent
      <3>2. QED
        BY <1>1, <3>1 DEF Clients, Bounded
    <2>5. CASE CloseRuntime
      BY <1>1, <2>5, BoundedChanges DEF CloseRuntime
    <2>6. QED
      BY <2>1, <2>2, <2>3, <2>4, <2>5
  <1>6. QED
    BY <1>3, <1>4, <1>5 DEF FeedTypes

LEMMA FeedTypesNext == ASSUME FeedTypeInv, [FeedNext]_feedVars PROVE FeedTypeInv'
  <1>1. ConvergeInv'
    BY ConvergeNext DEF FeedTypeInv
  <1>2. ASSUME NEW h \in Holders, NEW s \in Symbols, Retain(h, s) PROVE FeedTypes'
    BY <1>2, RetainTypes
  <1>3. ASSUME NEW h \in Holders, Release(h) PROVE FeedTypes'
    BY <1>3, ReleaseTypes
  <1>4. ASSUME NEW t \in openings, Approved(t) \/ Refused(t) PROVE FeedTypes'
    BY <1>4, OpeningTypes
  <1>5. ASSUME NEW s \in Symbols, Rejected(s) PROVE FeedTypes'
    BY <1>5, RejectedTypes
  <1>6. CASE ReconnectTimer \/ SocketOpens \/ SocketEnds \/ ControlSent \/ CloseRuntime
    BY <1>1, <1>6, LineTypes DEF FeedTypeInv
  <1>7. CASE UNCHANGED feedVars
    <2>1. Waiting' = Waiting /\ FeedTypes
      BY <1>7 DEF feedVars, Waiting, FeedTypeInv
    <2>2. QED
      BY <1>1, <1>7, <2>1 DEF feedVars, FeedTypeInv, FeedTypes
  <1>8. QED
    BY <1>1, <1>2, <1>3, <1>4, <1>5, <1>6, <1>7 DEF FeedNext, FeedTypeInv

-----------------------------------------------------------------------------
(* RunEvents: the hub, the stream of the page and the page                  *)

Statuses == {"none"} \cup Active \cup Over

(* An event says that the run is over only where it is, and the last event  *)
(* of a run always does.                                                    *)
TrueEvents(over) ==
    {e \in RunEvent : (e.type = "terminal" => e.says \in Over) /\ (e.says \in Over => over)}

(* The ring holds the last revisions without a hole; an end says which.     *)
RingOf(h, G) ==
    /\ h \in [rev : Nat, terminal : BOOLEAN, events : Seq(G)]
    /\ Len(h.events) <= ReplayLimit /\ Len(h.events) <= h.rev
    /\ \A i \in 1..Len(h.events) : h.events[i].rev = (h.rev - Len(h.events)) + i
    /\ h.terminal => Len(h.events) # 0 /\ Last(h.events).says # "none"

ConnIn(G) ==
    [at : {"none", "asked", "read", "open"}, current : Statuses, requested : Nat \cup {None},
     lastSent : Nat, blocked : BOOLEAN, pending : Seq(G)]

LineIn(G) == [conn : ConnIn(G), wire : Seq(G)]

(* What waits follows what was sent, and with it the stream is at r. *)
CurrentAt(c, r) ==
    c.at = "open" =>
        /\ \A i \in 1..Len(c.pending) : c.pending[i].rev = c.lastSent + i
        /\ c.pending # <<>> => c.blocked
        /\ c.lastSent > 0 => r = c.lastSent + Len(c.pending)
        /\ c.lastSent = 0 => c.pending = <<>> /\ ~c.blocked

Unsent(c) == c.lastSent = 0 /\ ~c.blocked /\ c.pending = <<>>

PageIn ==
    [mode : {"none", "stream", "poll", "hidden", "done"}, accepted : Nat \cup {None}, view : Statuses]

(* The hub h and the connection c with the frames w on their way, of a run  *)
(* that is over or not                                                      *)
StreamIs(h, c, w, over) ==
    LET G == TrueEvents(over)
    IN /\ RingOf(h, G)
       /\ c \in ConnIn(G) /\ w \in Seq(G)
       /\ CurrentAt(c, h.rev)
       /\ c.at # "open" => Unsent(c) /\ w = <<>>
       /\ c.current \in Over => over
       /\ c.at \in {"read", "open"} => c.current # "none"

(* What a stream has still to bring *)
On(line) == ToSet(line.wire) \cup ToSet(line.conn.pending)

(* Every event after the revision a and up to r is among the events, or a   *)
(* state that came later is.                                                *)
Covers(C, a, r) == \A m \in 1..r : m > a => \E e \in C : e.rev = m \/ (e.rev > m /\ e.says # "none")

(* The events bring a page that has accepted a, and is at the hub's         *)
(* revisions or not, to where the hub is: if they put it there at all.      *)
Delivers(h, C, a, on) ==
    /\ \A e \in C : e.rev <= h.rev
    /\ on \/ (\E e \in C : e.says # "none" /\ e.rev > a) => Covers(C, a, h.rev)

PageIsAt(h, line, a, on) ==
    /\ on \in BOOLEAN
    /\ on => a \in Nat /\ a <= h.rev
    /\ line.conn.at \in {"asked", "read"} => line.conn.requested = a
    /\ line.conn.at = "open" => Delivers(h, On(line), a, on)

(* The page p with the connection c, of a run with the status s             *)
PageFollows(p, c, s) ==
    /\ p \in PageIn
    /\ p.mode = "stream" <=> c.at # "none"
    /\ p.mode # "none" => s # "none"
    /\ p.mode = "done" => s \in Over /\ p.view \in Over

Line == [conn |-> conn, wire |-> wire]

EventsInv ==
    /\ status \in [Runs -> Statuses] /\ announced \in [Runs -> {"none"} \cup Over]
    /\ StreamIs(hub, conn, wire, status[Watched] \in Over)
    /\ PageFollows(page, conn, status[Watched])
    /\ PageIsAt(hub, Line, page.accepted, joined)
    /\ session \in {"none", "live", "gone"}
    /\ datas \in 0..MaxData /\ hides \in 0..MaxHides

LEMMA Suffix ==
    ASSUME NEW n \in Nat, NEW k \in 0..n
    PROVE  /\ Cardinality(k + 1..n) = n - k
           /\ \A i \in 1..n - k : PlaceOf(k + 1..n, i) = k + i
  <1> DEFINE P == k + 1..n
  <1>1. Cardinality(P) = n - k
    <2>1. k + 1 \in Int /\ n \in Int
      OBVIOUS
    <2>2. Cardinality(P) = IF k + 1 > n THEN 0 ELSE n - (k + 1) + 1
      BY <2>1, FS_Interval
    <2>3. QED
      BY <2>2
  <1>2. ASSUME NEW j \in P PROVE Cardinality({l \in P : l <= j}) = j - k
    <2>1. {l \in P : l <= j} = k + 1..j
      OBVIOUS
    <2>2. k + 1 \in Int /\ j \in Int /\ ~(k + 1 > j)
      OBVIOUS
    <2>3. Cardinality(k + 1..j) = IF k + 1 > j THEN 0 ELSE j - (k + 1) + 1
      BY <2>2, FS_Interval
    <2>4. Cardinality(k + 1..j) = j - k
      BY <2>2, <2>3
    <2>5. QED
      BY <2>1, <2>4
  <1>3. ASSUME NEW i \in 1..n - k PROVE PlaceOf(P, i) = k + i
    <2>1. k + i \in P
      OBVIOUS
    <2>2. \A j \in P : j - k = i <=> j = k + i
      OBVIOUS
    <2> HIDE DEF P
    <2>3. \A j \in P : Cardinality({l \in P : l <= j}) = i <=> j = k + i
      BY <1>2, <2>2
    <2>4. QED
      BY <2>1, <2>3 DEF PlaceOf
  <1>4. QED
    BY <1>1, <1>3

(* What comes after a revision is what the ring still holds after it,       *)
(* without a hole.                                                          *)
After(es, h, r, d) ==
    /\ d \in Nat /\ r <= d /\ d <= h.rev /\ (d # r => d = h.rev - Len(h.events))
    /\ Len(es) = h.rev - d
    /\ \A i \in 1..Len(es) : es[i].rev = d + i

LEMMA AfterRevision ==
    ASSUME NEW G, NEW h, RingOf(h, G), NEW r \in Nat, r <= h.rev
    PROVE  /\ EventsAfter(h, r) \in Seq(G) /\ \E d : After(EventsAfter(h, r), h, r, d)
           /\ EventsAfter(h, r) # <<>> => Last(EventsAfter(h, r)) = Last(h.events)
  <1> DEFINE s == h.events
             m == Len(s)
             b == h.rev - m
             k == IF r > b THEN r - b ELSE 0
             es == EventsAfter(h, r)
             P == {i \in DOMAIN s : s[i].rev > r}
  <1>1. h.rev \in Nat /\ s \in Seq(G) /\ m \in Nat /\ m <= h.rev /\ DOMAIN s = 1..m
    BY DEF RingOf
  <1>2. \A i \in 1..m : s[i].rev = b + i
    BY DEF RingOf
  <1> HIDE DEF s, m
  <1>3. b \in Nat /\ b + m = h.rev /\ k \in 0..m /\ r <= b + k /\ (b + k # r => k = 0)
    <2>1. b \in Nat /\ b + m = h.rev
      BY <1>1
    <2>2. h.rev \in Nat /\ r \in Nat /\ r <= h.rev
      BY <1>1
    <2>3. CASE r > b
      <3>1. k = r - b
        BY <2>3
      <3> HIDE DEF b, k
      <3>2. QED
        BY <1>1, <2>1, <2>2, <2>3, <3>1
    <2>4. CASE ~(r > b)
      <3>1. k = 0
        BY <2>4
      <3> HIDE DEF b, k
      <3>2. QED
        BY <1>1, <2>1, <2>2, <2>4, <3>1
    <2>5. QED
      BY <2>3, <2>4
  <1>4. P = k + 1..m
    <2>1. \A i \in 1..m : b + i > r <=> i >= k + 1
      BY <1>1
    <2> HIDE DEF b, k
    <2>2. \A i \in 1..m : s[i].rev > r <=> i >= k + 1
      BY <1>2, <2>1
    <2>3. k + 1..m \subseteq 1..m /\ \A i \in 1..m : i \in k + 1..m <=> i >= k + 1
      BY <1>1, <1>3
    <2>4. QED
      BY <1>1, <2>2, <2>3
  <1>5. es = EntriesAt(s, P)
    BY DEF EventsAfter, s
  <1> HIDE DEF P, b, k
  <1>6. Cardinality(P) = m - k /\ \A i \in 1..m - k : PlaceOf(P, i) = k + i
    BY <1>1, <1>3, <1>4, Suffix
  <1>7. es = [i \in 1..m - k |-> s[PlaceOf(P, i)]]
    BY <1>5, <1>6 DEF EntriesAt
  <1> HIDE DEF es
  <1>8. \A i \in 1..m - k : PlaceOf(P, i) \in 1..m /\ es[i] = s[k + i] /\ k + i \in 1..m
    BY <1>1, <1>3, <1>6, <1>7
  <1>9. \A i \in 1..m - k : es[i] \in G
    <2>1. \A i \in 1..m : s[i] \in G
      BY <1>1
    <2>2. QED
      BY <1>8, <2>1
  <1>10. es \in Seq(G) /\ Len(es) = m - k
    <2>1. m - k \in Nat
      BY <1>1, <1>3
    <2>2. es = [i \in 1..m - k |-> es[i]]
      BY <1>7
    <2>3. QED
      BY <1>9, <2>1, <2>2
  <1>11. \A i \in 1..Len(es) : es[i].rev = (b + k) + i
    <2>1. \A i \in 1..m - k : es[i].rev = b + (k + i)
      BY <1>2, <1>8
    <2>2. QED
      BY <1>3, <1>10, <2>1
  <1>12. After(es, h, r, b + k)
    <2>1. b + k # r => b + k = h.rev - Len(h.events)
      BY <1>1, <1>3 DEF b, m, s
    <2>2. b + k \in Nat /\ b + k <= h.rev /\ m - k = h.rev - (b + k)
      BY <1>1, <1>3
    <2>3. QED
      BY <1>3, <1>10, <1>11, <2>1, <2>2 DEF After
  <1>13. es # <<>> => Last(es) = Last(s)
    <2>1. es # <<>> => m - k \in 1..m - k /\ k + (m - k) = m
      BY <1>1, <1>3, <1>10
    <2>2. QED
      BY <1>8, <1>10, <2>1 DEF Last, m
  <1>14. QED
    BY <1>10, <1>12, <1>13 DEF es, s

(* Events that follow the revision r without a hole *)
Follow(es, r) == \A i \in 1..Len(es) : es[i].rev = r + i

LEMMA RingReaches ==
    ASSUME NEW G, NEW h, RingOf(h, G), NEW r \in Nat, r <= h.rev, h.rev - Len(h.events) <= r
    PROVE  /\ EventsAfter(h, r) \in Seq(G)
           /\ Follow(EventsAfter(h, r), r) /\ r + Len(EventsAfter(h, r)) = h.rev
           /\ EventsAfter(h, r) # <<>> => Last(EventsAfter(h, r)) = Last(h.events)
  <1> DEFINE es == EventsAfter(h, r)
  <1>1. h.rev \in Nat /\ Len(h.events) \in Nat
    BY DEF RingOf
  <1>2. /\ es \in Seq(G) /\ \E d : After(es, h, r, d)
        /\ es # <<>> => Last(es) = Last(h.events)
    BY AfterRevision
  <1> HIDE DEF es
  <1>3. PICK d : After(es, h, r, d)
    BY <1>2
  <1>4. d = r
    BY <1>1, <1>3 DEF After
  <1>5. Len(es) = h.rev - r
    BY <1>3, <1>4 DEF After
  <1>6. Follow(es, r)
    BY <1>3, <1>4 DEF After, Follow
  <1>7. QED
    BY <1>1, <1>2, <1>5, <1>6 DEF es

(* An event that is published is the last of the ring, which drops its      *)
(* first one when it is full.                                               *)
LEMMA PublishedRing ==
    ASSUME NEW G, NEW h, RingOf(h, G), NEW type \in {"snapshot", "patch", "terminal"}, NEW says,
           type = "terminal" => says # "none",
           \A n \in Nat : [rev |-> n, type |-> type, says |-> says] \in G
    PROVE  LET z == Publish(h, type, says)
           IN /\ RingOf(z, G)
              /\ h.terminal => z = h
              /\ ~h.terminal => /\ z.rev = h.rev + 1 /\ z.terminal = (type = "terminal")
                                /\ Len(z.events) \in {Len(h.events) + 1, ReplayLimit}
                                /\ Last(z.events).says = says
  <1> DEFINE z == Publish(h, type, says)
             n == Len(h.events)
             e == [rev |-> h.rev + 1, type |-> type, says |-> says]
             all == Append(h.events, e)
  <1>1. /\ h.rev \in Nat /\ h.events \in Seq(G) /\ n \in Nat /\ n <= ReplayLimit /\ n <= h.rev
        /\ \A i \in 1..n : h.events[i].rev = (h.rev - n) + i
    BY DEF RingOf
  <1>2. CASE h.terminal
    BY <1>2 DEF Publish
  <1>3. CASE ~h.terminal
    <2>1. z = [rev |-> h.rev + 1, terminal |-> type = "terminal",
               events |-> IF Len(all) > ReplayLimit THEN Tail(all) ELSE all]
      BY <1>3 DEF Publish
    <2>2. e \in G /\ e.rev = h.rev + 1 /\ e.says = says
      BY <1>1
    <2> HIDE DEF z, e
    <2>3. /\ all \in Seq(G) /\ Len(all) = n + 1 /\ all[n + 1] = e
          /\ \A i \in 1..n + 1 : all[i].rev = (h.rev - n) + i
      <3>1. all \in Seq(G) /\ Len(all) = n + 1 /\ all[n + 1] = e /\ \A i \in 1..n : all[i] = h.events[i]
        BY <1>1, <2>2
      <3> HIDE DEF all, n
      <3>2. ASSUME NEW i \in 1..n + 1 PROVE all[i].rev = (h.rev - n) + i
        <4>1. CASE i = n + 1
          BY <1>1, <2>2, <3>1, <4>1
        <4>2. CASE i # n + 1
          <5>1. i \in 1..n
            BY <1>1, <4>2
          <5>2. QED
            BY <1>1, <3>1, <5>1
        <4>3. QED
          BY <4>1, <4>2
      <3>3. QED
        BY <3>1, <3>2
    <2> HIDE DEF all
    <2>4. CASE n + 1 > ReplayLimit
      <3>1. z.events = Tail(all) /\ z.rev = h.rev + 1 /\ z.terminal = (type = "terminal") /\ n = ReplayLimit
        BY <1>1, <2>1, <2>3, <2>4, RunEventsAssumption
      <3>2. Tail(all) \in Seq(G) /\ Len(Tail(all)) = n /\ \A i \in 1..n : Tail(all)[i] = all[i + 1]
        <4>1. all # <<>>
          BY <1>1, <2>3
        <4>2. Len(all) - 1 = n
          BY <1>1, <2>3
        <4>3. QED
          BY <2>3, <4>1, <4>2, HeadTailProperties
      <3> HIDE DEF n
      <3>3. \A i \in 1..n : Tail(all)[i].rev = ((h.rev + 1) - n) + i
        <4>1. \A i \in 1..n : i + 1 \in 1..n + 1
          BY <1>1
        <4>2. \A a, b, i \in Int : (a - b) + (i + 1) = ((a + 1) - b) + i
          OBVIOUS
        <4>3. h.rev \in Int /\ n \in Int
          BY <1>1
        <4>4. \A i \in 1..n : (h.rev - n) + (i + 1) = ((h.rev + 1) - n) + i
          BY <4>2, <4>3
        <4>5. QED
          BY <2>3, <3>2, <4>1, <4>4
      <3>4. z \in [rev : Nat, terminal : BOOLEAN, events : Seq(G)]
        BY <1>1, <2>1, <3>1, <3>2
      <3>5. n <= h.rev + 1 /\ n # 0 /\ n \in 1..n
        BY <1>1, <3>1, RunEventsAssumption
      <3>6. Last(z.events).says = says
        BY <2>2, <2>3, <3>1, <3>2, <3>5 DEF Last
      <3>7. RingOf(z, G)
        BY <1>1, <3>1, <3>2, <3>3, <3>4, <3>5, <3>6 DEF RingOf
      <3>8. QED
        BY <1>3, <3>1, <3>2, <3>6, <3>7 DEF z
    <2>5. CASE ~(n + 1 > ReplayLimit)
      <3>1. z.events = all /\ z.rev = h.rev + 1 /\ z.terminal = (type = "terminal") /\ n + 1 <= ReplayLimit
        BY <1>1, <2>1, <2>3, <2>5, RunEventsAssumption
      <3> HIDE DEF n
      <3>2. z \in [rev : Nat, terminal : BOOLEAN, events : Seq(G)]
        BY <1>1, <2>1, <2>3, <3>1
      <3>3. n + 1 # 0 /\ n + 1 <= h.rev + 1 /\ (h.rev + 1) - (n + 1) = h.rev - n
        BY <1>1
      <3>4. Last(z.events).says = says
        BY <2>2, <2>3, <3>1 DEF Last
      <3>5. RingOf(z, G)
        BY <2>3, <3>1, <3>2, <3>3, <3>4 DEF RingOf
      <3>6. QED
        BY <1>3, <2>3, <3>1, <3>4, <3>5 DEF z, n
    <2>6. QED
      BY <2>4, <2>5
  <1>4. QED
    BY <1>2, <1>3

LEMMA TrueEvent ==
    ASSUME NEW over \in BOOLEAN, NEW says \in Statuses, says \in Over => over,
           NEW type \in {"snapshot", "patch", "terminal"}, type = "terminal" => says \in Over
    PROVE  \A n \in Nat : [rev |-> n, type |-> type, says |-> says] \in TrueEvents(over)
  BY DEF TrueEvents, RunEvent, Statuses

(* The snapshot, and the end with it: both are still in the ring.           *)
LEMMA CurrentPublished ==
    ASSUME NEW over \in BOOLEAN, NEW h, RingOf(h, TrueEvents(over)),
           NEW current \in Active \cup Over, current \in Over => over
    PROVE  LET z == PublishCurrent(h, current)
           IN /\ RingOf(z, TrueEvents(over))
              /\ h.rev <= z.rev /\ z.rev - Len(z.events) <= h.rev
              /\ ~h.terminal => Len(z.events) # 0
              /\ z.rev > h.rev => Last(z.events).says = current
  <1> DEFINE G == TrueEvents(over)
             x == Publish(h, "snapshot", current)
             y == Publish(x, "terminal", current)
  <1>1. RingOf(h, G) /\ h.rev \in Nat /\ Len(h.events) \in Nat
    BY DEF RingOf
  <1>2. \A n \in Nat : [rev |-> n, type |-> "snapshot", says |-> current] \in G
    BY TrueEvent DEF Statuses
  <1> HIDE DEF G
  <1>3. /\ RingOf(x, G)
        /\ h.terminal => x = h
        /\ ~h.terminal => /\ x.rev = h.rev + 1 /\ ~x.terminal
                          /\ Len(x.events) \in {Len(h.events) + 1, ReplayLimit}
                          /\ Last(x.events).says = current
    <2>1. "snapshot" \in {"snapshot", "patch", "terminal"} /\ "snapshot" # "terminal"
      OBVIOUS
    <2>2. /\ RingOf(x, G)
          /\ h.terminal => x = h
          /\ ~h.terminal => /\ x.rev = h.rev + 1 /\ x.terminal = ("snapshot" = "terminal")
                            /\ Len(x.events) \in {Len(h.events) + 1, ReplayLimit}
                            /\ Last(x.events).says = current
      BY <1>1, <1>2, <2>1, PublishedRing
    <2>3. QED
      BY <2>1, <2>2
  <1> HIDE DEF x
  <1>4. x.rev \in Nat /\ Len(x.events) \in Nat
    BY <1>3 DEF RingOf
  <1>5. h.rev <= x.rev /\ x.rev - Len(x.events) <= h.rev /\ (~h.terminal => Len(x.events) # 0)
    BY <1>1, <1>3, <1>4, RunEventsAssumption
  <1>6. x.rev > h.rev => Last(x.events).says = current
    BY <1>1, <1>3
  <1>7. CASE current \notin Over
    <2>1. PublishCurrent(h, current) = x
      BY <1>7 DEF PublishCurrent, x
    <2>2. QED
      BY <1>3, <1>5, <1>6, <2>1 DEF G
  <1>8. CASE current \in Over
    <2>1. PublishCurrent(h, current) = y
      BY <1>8 DEF PublishCurrent, x
    <2>2. \A n \in Nat : [rev |-> n, type |-> "terminal", says |-> current] \in G
      BY <1>8, TrueEvent DEF G, Statuses
    <2>3. /\ RingOf(y, G)
          /\ x.terminal => y = x
          /\ ~x.terminal => /\ y.rev = x.rev + 1
                            /\ Len(y.events) \in {Len(x.events) + 1, ReplayLimit}
                            /\ Last(y.events).says = current
      <3>1. current # "none"
        BY <1>8 DEF Over
      <3>2. QED
        BY <1>3, <2>2, <3>1, PublishedRing
    <2> HIDE DEF y
    <2>4. y.rev \in Nat /\ Len(y.events) \in Nat
      BY <2>3 DEF RingOf
    <2>5. h.rev <= y.rev /\ y.rev - Len(y.events) <= h.rev /\ (~h.terminal => Len(y.events) # 0)
      <3>1. CASE x.terminal
        BY <1>5, <2>3, <3>1
      <3>2. CASE ~x.terminal
        <4>1. y.rev = x.rev + 1 /\ Len(y.events) \in {Len(x.events) + 1, ReplayLimit}
          BY <2>3, <3>2
        <4>2. x.rev <= h.rev + 1 /\ ReplayLimit >= 2 /\ ReplayLimit \in Nat
          BY <1>1, <1>3, RunEventsAssumption
        <4>3. QED
          BY <1>1, <1>4, <1>5, <2>4, <4>1, <4>2
      <3>3. QED
        BY <3>1, <3>2
    <2>6. y.rev > h.rev => Last(y.events).says = current
      BY <1>6, <2>3
    <2>7. QED
      BY <2>1, <2>3, <2>5, <2>6 DEF G
  <1>9. QED
    BY <1>7, <1>8

(* Sending events: f is the history of the line. *)
LEMMA SendKeeps ==
    ASSUME NEW G, G \subseteq RunEvent, NEW line \in LineIn(G), NEW e \in G
    PROVE  LET z == Send(line, e)
           IN /\ z \in LineIn(G)
              /\ z.conn.at \in {line.conn.at, "none"}
              /\ z.conn.current = line.conn.current
              /\ line.conn.at # "open" => z = line
              /\ \A r \in Nat : e.rev = r + 1 /\ CurrentAt(line.conn, r) => CurrentAt(z.conn, e.rev)
  <1> DEFINE z == Send(line, e)
             c == line.conn
             n == Len(c.pending)
  <1>1. /\ c \in ConnIn(G) /\ line.wire \in Seq(G) /\ e.rev \in Nat
        /\ c.pending \in Seq(G) /\ n \in Nat /\ c.lastSent \in Nat /\ c.blocked \in BOOLEAN
    BY DEF LineIn, ConnIn, RunEvent
  <1>2. CASE c.at # "open" \/ e.rev <= c.lastSent
    <2>1. z = line
      BY <1>2 DEF Send
    <2>2. ASSUME NEW r \in Nat, e.rev = r + 1, CurrentAt(c, r) PROVE CurrentAt(c, e.rev)
      <3>1. CASE c.at # "open"
        BY <3>1 DEF CurrentAt
      <3>2. CASE c.at = "open"
        <4>1. c.lastSent > 0 => r = c.lastSent + n
          BY <2>2, <3>2 DEF CurrentAt
        <4>2. e.rev <= c.lastSent
          BY <1>2, <3>2
        <4>3. QED
          BY <1>1, <2>2, <4>1, <4>2
      <3>3. QED
        BY <3>1, <3>2
    <2>3. QED
      BY <2>1, <2>2
  <1>3. CASE c.at = "open" /\ ~(e.rev <= c.lastSent) /\ c.blocked /\ n >= PendingLimit - 1
    <2>1. z = [line EXCEPT !.conn = [c EXCEPT !.at = "none"]]
      BY <1>3 DEF Send
    <2>2. [c EXCEPT !.at = "none"] \in ConnIn(G)
      BY <1>1 DEF ConnIn
    <2>3. z \in LineIn(G) /\ z.conn = [c EXCEPT !.at = "none"]
      BY <2>1, <2>2 DEF LineIn
    <2>4. z.conn.at = "none" /\ z.conn.current = c.current
      BY <1>1, <2>3 DEF ConnIn
    <2>5. QED
      BY <1>3, <2>3, <2>4 DEF CurrentAt
  <1>4. CASE c.at = "open" /\ ~(e.rev <= c.lastSent) /\ c.blocked /\ ~(n >= PendingLimit - 1)
    <2> DEFINE q == Append(c.pending, e)
               d == [c EXCEPT !.pending = q]
    <2>1. z = [line EXCEPT !.conn = d]
      BY <1>4 DEF Send, LineIn, ConnIn
    <2>2. q \in Seq(G) /\ Len(q) = n + 1 /\ q[n + 1] = e /\ \A i \in 1..n : q[i] = c.pending[i]
      BY <1>1
    <2> HIDE DEF q
    <2>3. /\ d \in ConnIn(G) /\ d.pending = q /\ d.at = c.at /\ d.current = c.current
          /\ d.lastSent = c.lastSent /\ d.blocked = c.blocked
      BY <1>1, <2>2 DEF ConnIn
    <2> HIDE DEF d
    <2>4. z \in LineIn(G) /\ z.conn = d
      BY <2>1, <2>3 DEF LineIn
    <2>5. ASSUME NEW r \in Nat, e.rev = r + 1, CurrentAt(c, r) PROVE CurrentAt(d, e.rev)
      <3>1. /\ \A i \in 1..n : c.pending[i].rev = c.lastSent + i
            /\ c.lastSent > 0 => r = c.lastSent + n
            /\ c.lastSent # 0
        BY <1>4, <2>5 DEF CurrentAt
      <3> HIDE DEF n
      <3>2. r = c.lastSent + n
        BY <1>1, <3>1
      <3>3. ASSUME NEW i \in 1..n + 1 PROVE q[i].rev = c.lastSent + i
        <4>1. CASE i = n + 1
          <5>1. q[i].rev = r + 1
            BY <2>2, <2>5, <4>1
          <5>2. r + 1 = c.lastSent + (n + 1)
            <6>1. c.lastSent \in Int /\ n \in Int
              BY <1>1
            <6>2. QED
              BY <3>2, <6>1
          <5>3. QED
            BY <4>1, <5>1, <5>2
        <4>2. CASE i # n + 1
          <5>1. i \in 1..n
            BY <1>1, <4>2
          <5>2. QED
            BY <2>2, <3>1, <5>1
        <4>3. QED
          BY <4>1, <4>2
      <3>4. e.rev = c.lastSent + (n + 1)
        BY <1>1, <2>5, <3>2
      <3>5. QED
        BY <1>4, <2>2, <2>3, <3>1, <3>3, <3>4 DEF CurrentAt
    <2>6. QED
      BY <1>4, <2>3, <2>4, <2>5
  <1>5. CASE c.at = "open" /\ ~(e.rev <= c.lastSent) /\ ~c.blocked
    <2> DEFINE b == Len(line.wire) + 1 >= HighWater
               d == [c EXCEPT !.lastSent = e.rev, !.blocked = b]
               w == Append(line.wire, e)
    <2>1. z = [conn |-> d, wire |-> w]
      BY <1>5 DEF Send
    <2>2. w \in Seq(G)
      BY <1>1
    <2>3. b \in BOOLEAN
      OBVIOUS
    <2> HIDE DEF w, b
    <2>4. /\ d \in ConnIn(G) /\ d.pending = c.pending /\ d.at = c.at /\ d.current = c.current
          /\ d.lastSent = e.rev
      BY <1>1, <2>3 DEF ConnIn
    <2> HIDE DEF d
    <2>5. z \in LineIn(G) /\ z.conn = d
      BY <2>1, <2>2, <2>4 DEF LineIn
    <2>6. ASSUME NEW r \in Nat, e.rev = r + 1, CurrentAt(c, r) PROVE CurrentAt(d, e.rev)
      <3>1. c.pending = <<>>
        BY <1>5, <2>6 DEF CurrentAt
      <3>2. d.pending = <<>> /\ Len(d.pending) = 0 /\ d.lastSent # 0 /\ e.rev = d.lastSent + 0
        BY <1>1, <2>4, <2>6, <3>1
      <3>3. QED
        BY <3>2 DEF CurrentAt
    <2>7. QED
      BY <1>5, <2>4, <2>5, <2>6
  <1>6. QED
    BY <1>2, <1>3, <1>4, <1>5

(* The events are on a stream that they have not ended. *)
Brought(line, es, z) == z.conn.at = "open" => On(z) = On(line) \cup ToSet(es)

(* What waited is all that is on the stream. *)
OnlyOn(z, pending) == On(z) = ToSet(pending)

LEMMA OneMoreIn ==
    ASSUME NEW G, NEW s \in Seq(G), NEW e
    PROVE  ToSet(Append(s, e)) = ToSet(s) \cup {e}
  <1> DEFINE n == Len(s)
  <1>1. /\ n \in Nat /\ DOMAIN s = 1..n /\ DOMAIN Append(s, e) = 1..n + 1
        /\ Append(s, e)[n + 1] = e /\ \A i \in 1..n : Append(s, e)[i] = s[i]
    OBVIOUS
  <1> HIDE DEF n
  <1>2. 1..n + 1 = (1..n) \cup {n + 1}
    BY <1>1
  <1>3. QED
    BY <1>1, <1>2 DEF ToSet

LEMMA SendBrings ==
    ASSUME NEW G, G \subseteq RunEvent, NEW line \in LineIn(G), NEW e \in G,
           e.rev > line.conn.lastSent, Send(line, e).conn.at = "open"
    PROVE  On(Send(line, e)) = On(line) \cup {e} /\ Send(line, e).conn.lastSent <= e.rev
  <1> DEFINE c == line.conn
             z == Send(line, e)
  <1>1. /\ c \in ConnIn(G) /\ line.wire \in Seq(G) /\ e.rev \in Nat
        /\ c.pending \in Seq(G) /\ c.lastSent \in Nat
    BY DEF LineIn, ConnIn, RunEvent
  <1>2. c.at = "open" /\ ~(e.rev <= c.lastSent)
    <2>1. c.at # "open" => z = line
      BY DEF Send
    <2>2. QED
      BY <1>1, <2>1
  <1>3. CASE c.blocked
    <2>1. ~(Len(c.pending) >= PendingLimit - 1)
      <3>1. CASE Len(c.pending) >= PendingLimit - 1
        <4>1. z = [line EXCEPT !.conn = [c EXCEPT !.at = "none"]]
          BY <1>2, <1>3, <3>1 DEF Send
        <4>2. z.conn.at = "none"
          BY <1>1, <4>1 DEF LineIn, ConnIn
        <4>3. QED
          BY <4>2
      <3>2. QED
        BY <3>1
    <2>2. z = [line EXCEPT !.conn = [c EXCEPT !.pending = Append(c.pending, e)]]
      BY <1>2, <1>3, <2>1 DEF Send, LineIn, ConnIn
    <2>3. z.wire = line.wire /\ z.conn.pending = Append(c.pending, e) /\ z.conn.lastSent = c.lastSent
      BY <1>1, <2>2 DEF LineIn, ConnIn
    <2>4. ToSet(Append(c.pending, e)) = ToSet(c.pending) \cup {e}
      BY <1>1, OneMoreIn
    <2> HIDE DEF z
    <2>5. On(z) = On(line) \cup {e}
      BY <2>3, <2>4 DEF On
    <2>6. QED
      BY <1>1, <2>3, <2>5 DEF z
  <1>4. CASE ~c.blocked
    <2>1. z = [conn |-> [c EXCEPT !.lastSent = e.rev, !.blocked = Len(line.wire) + 1 >= HighWater],
               wire |-> Append(line.wire, e)]
      BY <1>2, <1>4 DEF Send
    <2>2. z.wire = Append(line.wire, e) /\ z.conn.pending = c.pending /\ z.conn.lastSent = e.rev
      <3> DEFINE b == Len(line.wire) + 1 >= HighWater
                 d == [c EXCEPT !.lastSent = e.rev, !.blocked = b]
                 w == Append(line.wire, e)
      <3>1. z = [conn |-> d, wire |-> w]
        BY <2>1
      <3> HIDE DEF b, w, z
      <3>2. d.pending = c.pending /\ d.lastSent = e.rev
        BY <1>1 DEF ConnIn
      <3> HIDE DEF d
      <3>3. z.wire = w /\ z.conn = d
        BY <3>1
      <3>4. QED
        BY <3>2, <3>3 DEF w
    <2>3. ToSet(Append(line.wire, e)) = ToSet(line.wire) \cup {e}
      BY <1>1, OneMoreIn
    <2> HIDE DEF z
    <2>4. On(z) = On(line) \cup {e}
      BY <2>2, <2>3 DEF On
    <2>5. QED
      BY <1>1, <2>2, <2>4 DEF z
  <1>5. QED
    BY <1>3, <1>4

SendInTurn(f, S, line, es) ==
    /\ f \in [0..Len(es) -> S]
    /\ f[0] = line
    /\ \A i \in 1..Len(es) : f[i] = Send(f[i - 1], es[i])
    /\ f[Len(es)] = SendAll(line, es)

LEMMA SentInOrder ==
    ASSUME NEW G, G \subseteq RunEvent, NEW line \in LineIn(G), NEW es \in Seq(G)
    PROVE  \E f : SendInTurn(f, LineIn(G), line, es)
  <1> DEFINE n == Len(es)
             S == LineIn(G)
             Solves(f) == f = [s \in SUBSET (1..n) |->
                                 IF s = {} THEN line ELSE Send(f[s \ {Max(s)}], es[Max(s)])]
  <1>1. n \in Nat /\ DOMAIN es = 1..n /\ \A i \in 1..n : es[i] \in G
    OBVIOUS
  <1>2. \A x \in S, e \in G : Send(x, e) \in S
    BY SendKeeps
  <1>3. line \in S
    OBVIOUS
  <1> HIDE DEF n, S
  <1>4. \E f : Solves(f)
    <2> DEFINE step == [i \in 1..n |-> [x \in S |-> Send(x, es[i])]]
    <2>1. step \in [1..n -> [S -> S]]
      BY <1>1, <1>2
    <2> HIDE DEF step
    <2>2. PICK f : FoldOf(f, n, S, line, step)
      BY <1>1, <1>3, <2>1, FoldSolved
    <2>3. ASSUME NEW s \in SUBSET (1..n), s # {}
          PROVE  step[Max(s)][f[s \ {Max(s)}]] = Send(f[s \ {Max(s)}], es[Max(s)])
      <3>1. PICK m \in s : \A k \in s : k <= m
        <4>1. s \subseteq 0..n
          BY <1>1
        <4>2. QED
          BY <1>1, <2>3, <4>1, GreatestOf
      <3>2. \E x \in s : \A y \in s : x >= y
        <4>1. \A k \in s : k \in Nat
          BY <1>1
        <4>2. QED
          BY <3>1, <4>1
      <3>3. Max(s) \in s
        BY <3>2 DEF Max
      <3>4. Max(s) \in 1..n /\ f[s \ {Max(s)}] \in S
        BY <2>2, <3>3 DEF FoldOf
      <3>5. QED
        BY <3>4 DEF step
    <2>4. Solves(f)
      BY <2>2, <2>3 DEF FoldOf
    <2>5. QED
      BY <2>4
  <1> DEFINE iter == CHOOSE f : Solves(f)
  <1>5. Solves(iter)
    BY <1>4
  <1>6. SendAll(line, es) = iter[1..n]
    BY <1>1 DEF SendAll, FoldLeft, MapThenFoldSet
  <1> HIDE DEF iter
  <1> DEFINE f == [i \in 0..n |-> iter[1..i]]
  <1>7. f[0] = line
    <2>1. 1..0 = {} /\ 0 \in 0..n
      BY <1>1
    <2>2. QED
      BY <1>5, <2>1
  <1>8. ASSUME NEW i \in 1..n PROVE f[i] = Send(f[i - 1], es[i])
    <2>1. i \in Nat /\ i # 0 /\ i \in 0..n /\ i - 1 \in 0..n
      BY <1>1
    <2>2. Max(1..i) = i /\ (1..i) \ {i} = 1..i - 1
      BY <2>1, MaxUpTo
    <2>3. 1..i \in SUBSET (1..n) /\ 1..i # {}
      <3>1. i \in 1..i /\ \A j \in 1..i : j \in 1..n
        BY <1>1, <2>1
      <3>2. QED
        BY <3>1
    <2>4. iter[1..i] = Send(iter[1..i - 1], es[i])
      BY <1>5, <2>2, <2>3
    <2>5. QED
      BY <2>1, <2>4
  <1>9. f[n] = SendAll(line, es) /\ DOMAIN f = 0..n
    BY <1>1, <1>6
  <1> HIDE DEF f
  <1> DEFINE Kept == {i \in 0..n : f[i] \in S}
  <1>10. 0 \in Kept
    BY <1>1, <1>3, <1>7
  <1>11. ASSUME NEW k \in 0..n - 1, k \in Kept PROVE k + 1 \in Kept
    <2>1. k + 1 \in 1..n /\ (k + 1) - 1 = k /\ k + 1 \in 0..n
      BY <1>1
    <2>2. f[k + 1] = Send(f[k], es[k + 1])
      BY <1>8, <2>1
    <2>3. f[k] \in S /\ es[k + 1] \in G
      BY <1>1, <1>11, <2>1
    <2>4. QED
      BY <1>2, <2>1, <2>2, <2>3
  <1>12. \A i \in 0..n : f[i] \in S
    <2> HIDE DEF Kept
    <2>1. 0..n \subseteq Kept
      BY <1>1, <1>10, <1>11, UpTo
    <2>2. QED
      BY <2>1 DEF Kept
  <1>13. f \in [0..n -> S]
    <2>1. f = [i \in 0..n |-> f[i]]
      BY DEF f
    <2>2. QED
      BY <1>12, <2>1
  <1>14. SendInTurn(f, LineIn(G), line, es)
    BY <1>7, <1>8, <1>9, <1>13 DEF SendInTurn, n, S
  <1>15. QED
    BY <1>14

(* Events that follow without a hole leave the stream current, and are on   *)
(* it unless it was ended.                                                  *)
LEMMA SendAllKeeps ==
    ASSUME NEW G, G \subseteq RunEvent, NEW line \in LineIn(G), NEW es \in Seq(G),
           NEW r \in Nat, Follow(es, r), CurrentAt(line.conn, r)
    PROVE  LET z == SendAll(line, es)
           IN /\ z \in LineIn(G)
              /\ z.conn.at \in {line.conn.at, "none"} /\ z.conn.current = line.conn.current
              /\ line.conn.at # "open" => z = line
              /\ CurrentAt(z.conn, r + Len(es))
              /\ Brought(line, es, z)
  <1> DEFINE n == Len(es)
             BroughtTo(z, i) == z.conn.at = "open" => /\ On(z) = On(line) \cup {es[j] : j \in 1..i}
                                                    /\ z.conn.lastSent <= r + i
             Keeps(z, i) == /\ z.conn.at \in {line.conn.at, "none"}
                            /\ z.conn.current = line.conn.current
                            /\ line.conn.at # "open" => z = line
                            /\ CurrentAt(z.conn, r + i)
                            /\ BroughtTo(z, i)
  <1>1. n \in Nat /\ DOMAIN es = 1..n /\ \A i \in 1..n : es[i] \in G /\ es[i].rev = r + i
    BY DEF Follow
  <1>2. PICK f : SendInTurn(f, LineIn(G), line, es)
    BY SentInOrder
  <1>3. /\ f \in [0..n -> LineIn(G)] /\ f[0] = line /\ f[n] = SendAll(line, es)
        /\ \A i \in 1..n : f[i] = Send(f[i - 1], es[i])
    BY <1>2 DEF SendInTurn
  <1> HIDE DEF n
  <1> DEFINE Kept == {i \in 0..n : Keeps(f[i], i)}
  <1>4. 0 \in Kept
    <2>1. 0 \in 0..n /\ r + 0 = r /\ {es[j] : j \in 1..0} = {}
      BY <1>1
    <2>2. line.conn.at = "open" => line.conn.lastSent <= r
      <3>1. line.conn.lastSent \in Nat /\ Len(line.conn.pending) \in Nat
        BY DEF LineIn, ConnIn
      <3>2. QED
        BY <3>1 DEF CurrentAt
    <2>3. BroughtTo(line, 0)
      BY <2>1, <2>2
    <2> HIDE DEF BroughtTo
    <2>4. QED
      BY <1>3, <2>1, <2>3
  <1>5. ASSUME NEW k \in 0..n - 1, k \in Kept PROVE k + 1 \in Kept
    <2>1. k + 1 \in 1..n /\ (k + 1) - 1 = k /\ k + 1 \in 0..n /\ k \in 0..n /\ r + k \in Nat
      BY <1>1
    <2>2. f[k + 1] = Send(f[k], es[k + 1]) /\ f[k] \in LineIn(G) /\ es[k + 1] \in G
      BY <1>1, <1>3, <2>1
    <2>3. es[k + 1].rev = (r + k) + 1 /\ es[k + 1].rev = r + (k + 1)
      <3>1. es[k + 1].rev = r + (k + 1)
        BY <1>1, <2>1
      <3>2. k \in Int
        BY <1>1
      <3>3. QED
        BY <3>1, <3>2
    <2>4. Keeps(f[k], k)
      BY <1>5
    <2>5. BroughtTo(f[k + 1], k + 1)
      <3> DEFINE x == f[k]
                 y == f[k + 1]
                 e == es[k + 1]
                 B == {es[j] : j \in 1..k}
      <3>1. y = Send(x, e) /\ x \in LineIn(G) /\ e \in G /\ e.rev = (r + k) + 1
        BY <2>2, <2>3
      <3>2. x.conn.at = "open" => On(x) = On(line) \cup B /\ x.conn.lastSent <= r + k
        BY <2>4
      <3>3. {es[j] : j \in 1..k + 1} = B \cup {e}
        <4>1. 1..k + 1 = (1..k) \cup {k + 1}
          BY <2>1
        <4>2. QED
          BY <4>1
      <3> HIDE DEF x, y, e, B
      <3>4. SUFFICES ASSUME y.conn.at = "open"
                     PROVE  On(y) = On(line) \cup B \cup {e} /\ y.conn.lastSent <= r + (k + 1)
        BY <3>3 DEF y
      <3>5. x.conn.at = "open"
        <4>1. y.conn.at \in {x.conn.at, "none"}
          BY <3>1, SendKeeps
        <4>2. QED
          BY <3>4, <4>1
      <3>6. x.conn.lastSent \in Nat /\ x.conn.lastSent <= r + k
        <4>1. x.conn.lastSent \in Nat
          BY <3>1 DEF LineIn, ConnIn
        <4>2. QED
          BY <3>2, <3>5, <4>1
      <3>7. e.rev > x.conn.lastSent
        <4>1. \A a, b \in Nat : a <= b => b + 1 > a
          OBVIOUS
        <4>2. QED
          BY <2>1, <3>1, <3>6, <4>1
      <3>8. On(y) = On(x) \cup {e} /\ y.conn.lastSent <= e.rev
        BY <3>1, <3>4, <3>7, SendBrings
      <3>9. e.rev = r + (k + 1)
        BY <2>3 DEF e
      <3>10. QED
        BY <3>2, <3>5, <3>8, <3>9
    <2> HIDE DEF BroughtTo
    <2> DEFINE z == Send(f[k], es[k + 1])
    <2>6. /\ z.conn.at \in {f[k].conn.at, "none"} /\ z.conn.current = f[k].conn.current
          /\ f[k].conn.at # "open" => z = f[k]
          /\ CurrentAt(z.conn, es[k + 1].rev)
      <3>1. /\ z.conn.at \in {f[k].conn.at, "none"} /\ z.conn.current = f[k].conn.current
            /\ f[k].conn.at # "open" => z = f[k]
            /\ \A m \in Nat : es[k + 1].rev = m + 1 /\ CurrentAt(f[k].conn, m)
                              => CurrentAt(z.conn, es[k + 1].rev)
        <4> DEFINE x == f[k]
                   e == es[k + 1]
        <4>1. x \in LineIn(G) /\ e \in G
          BY <2>2
        <4> HIDE DEF x, e
        <4>2. /\ Send(x, e).conn.at \in {x.conn.at, "none"} /\ Send(x, e).conn.current = x.conn.current
              /\ x.conn.at # "open" => Send(x, e) = x
              /\ \A m \in Nat : e.rev = m + 1 /\ CurrentAt(x.conn, m)
                                => CurrentAt(Send(x, e).conn, e.rev)
          BY <4>1, SendKeeps
        <4>3. QED
          BY <4>2 DEF x, e
      <3>2. CurrentAt(f[k].conn, r + k)
        BY <2>4
      <3> HIDE DEF z
      <3>3. QED
        BY <2>1, <2>3, <3>1, <3>2
    <2>7. Keeps(z, k + 1)
      <3>1. BroughtTo(z, k + 1)
        BY <2>2, <2>5
      <3> HIDE DEF z
      <3>2. QED
        BY <2>3, <2>4, <2>6, <3>1
    <2> HIDE DEF z
    <2>8. QED
      BY <2>1, <2>2, <2>7 DEF z
  <1>6. n \in Kept
    <2> HIDE DEF Kept
    <2>1. 0..n \subseteq Kept
      BY <1>1, <1>4, <1>5, UpTo
    <2>2. QED
      BY <1>1, <2>1
  <1>7. n \in 0..n /\ {es[j] : j \in 1..n} = ToSet(es)
    BY <1>1 DEF ToSet
  <1>8. Brought(line, es, SendAll(line, es))
    <2>1. BroughtTo(f[n], n)
      BY <1>6
    <2>2. QED
      BY <1>3, <1>7, <2>1 DEF Brought
  <1>9. QED
    BY <1>3, <1>6, <1>8 DEF n

(* What the drain of the response makes of the connection *)
DrainedLine(c) ==
    LET m == Len(c.pending)
        n == IF m < HighWater THEN m ELSE HighWater
        line == SendAll([conn |-> [c EXCEPT !.blocked = FALSE, !.pending = <<>>], wire |-> <<>>],
                        SubSeq(c.pending, 1, n))
    IN [line EXCEPT !.conn.pending = SubSeq(c.pending, n + 1, m)]

(* What waited is written as far as the response takes it, and the rest     *)
(* goes on waiting: with nothing left, the stream is no longer blocked.     *)
LEMMA StreamDrains ==
    ASSUME NEW G, G \subseteq RunEvent, NEW c \in ConnIn(G), NEW r, CurrentAt(c, r),
           c.at = "open", c.blocked
    PROVE  LET z == DrainedLine(c)
           IN /\ z \in LineIn(G) /\ z.conn.at = "open" /\ z.conn.current = c.current
              /\ CurrentAt(z.conn, r) /\ OnlyOn(z, c.pending)
  <1> DEFINE p == c.pending
             m == Len(p)
             L == c.lastSent
             n == IF m < HighWater THEN m ELSE HighWater
             open == [c EXCEPT !.blocked = FALSE, !.pending = <<>>]
             base == [conn |-> open, wire |-> <<>>]
             es == SubSeq(p, 1, n)
             rest == SubSeq(p, n + 1, m)
             line == SendAll(base, es)
             z == [line EXCEPT !.conn.pending = rest]
             Taken(k) == {p[i] : i \in 1..k}
             DrainedTo(x, k) ==
               /\ x.conn.at = "open" /\ x.conn.current = c.current
               /\ x.conn.lastSent = L + k /\ (x.conn.blocked <=> k >= HighWater)
               /\ x.conn.pending = <<>> /\ Len(x.wire) = k
               /\ ToSet(x.wire) = Taken(k)
  <1>1. /\ p \in Seq(G) /\ m \in Nat /\ L \in Nat /\ L # 0 /\ r = L + m
        /\ \A i \in 1..m : p[i] \in G /\ p[i].rev = L + i
    <2>1. p \in Seq(G) /\ L \in Nat
      BY DEF ConnIn
    <2>2. L # 0
      BY DEF CurrentAt
    <2>3. QED
      BY <2>1, <2>2 DEF CurrentAt
  <1> HIDE DEF p, L
  <1>2. n \in Nat /\ n <= m /\ n <= HighWater /\ HighWater \in Nat /\ HighWater # 0 /\ (n < HighWater => n = m)
    BY <1>1, RunEventsAssumption
  <1>3. /\ open \in ConnIn(G) /\ open.at = "open" /\ open.current = c.current
        /\ open.lastSent = L /\ open.blocked = FALSE /\ open.pending = <<>>
    <2>1. <<>> \in Seq(G)
      OBVIOUS
    <2>2. QED
      BY <2>1 DEF ConnIn, L
  <1>4. Taken(0) = {} /\ \A k \in Nat : Taken(k + 1) = Taken(k) \cup {p[k + 1]}
    <2>1. \A k \in Nat : 1..k + 1 = (1..k) \cup {k + 1}
      OBVIOUS
    <2>2. QED
      BY <2>1
  <1> HIDE DEF m, n, open, Taken
  <1>5. es \in Seq(G) /\ Len(es) = n /\ \A i \in 1..n : es[i] = p[i]
    BY <1>1, <1>2
  <1>6. rest \in Seq(G) /\ Len(rest) = m - n /\ \A i \in 1..m - n : rest[i] = p[n + i]
    <2>1. n + 1 \in 1..m + 1 /\ m \in n..m /\ m - (n + 1) + 1 = m - n
      BY <1>1, <1>2
    <2>2. QED
      BY <1>1, <1>2, <2>1
  <1> HIDE DEF es, rest
  <1>7. base \in LineIn(G) /\ base.conn = open /\ base.wire = <<>>
    BY <1>3 DEF LineIn
  <1> HIDE DEF base
  <1>8. PICK f : SendInTurn(f, LineIn(G), base, es)
    BY <1>5, <1>7, SentInOrder
  <1>9. /\ f \in [0..n -> LineIn(G)] /\ f[0] = base /\ f[n] = line
        /\ \A i \in 1..n : f[i] = Send(f[i - 1], es[i])
    BY <1>5, <1>8 DEF SendInTurn
  <1> HIDE DEF line
  <1> DEFINE Kept == {k \in 0..n : DrainedTo(f[k], k)}
  <1>10. 0 \in Kept
    <2>1. 0 \in 0..n /\ L + 0 = L /\ ~(0 >= HighWater)
      BY <1>1, <1>2
    <2>2. ToSet(base.wire) = Taken(0) /\ Len(base.wire) = 0
      BY <1>7, <1>4 DEF ToSet
    <2>3. QED
      BY <1>3, <1>7, <1>9, <2>1, <2>2
  <1>11. ASSUME NEW k \in 0..n - 1, k \in Kept PROVE k + 1 \in Kept
    <2> DEFINE x == f[k]
               e == es[k + 1]
               y == f[k + 1]
    <2>1. k + 1 \in 1..n /\ (k + 1) - 1 = k /\ k + 1 \in 0..n /\ k \in 0..n
          /\ ~(k >= HighWater) /\ k + 1 \in 1..m
      <3>1. k \in Nat /\ k < n
        BY <1>2
      <3>2. k < HighWater /\ k < m
        BY <1>1, <1>2, <3>1
      <3>3. QED
        BY <1>1, <1>2, <3>1, <3>2
    <2>2. y = Send(x, e) /\ x \in LineIn(G)
      BY <1>9, <2>1
    <2>3. e.rev = L + (k + 1) /\ L + k \in Nat /\ ~(e.rev <= L + k)
      <3>1. e.rev = L + (k + 1)
        BY <1>1, <1>5, <2>1
      <3>2. k \in Nat
        BY <2>1
      <3>3. QED
        BY <1>1, <3>1, <3>2
    <2>4. DrainedTo(x, k)
      BY <1>11
    <2> HIDE DEF x, e, y
    <2>5. y = [conn |-> [x.conn EXCEPT !.lastSent = e.rev, !.blocked = Len(x.wire) + 1 >= HighWater],
               wire |-> Append(x.wire, e)]
      <3>1. ~(x.conn.at # "open" \/ e.rev <= x.conn.lastSent)
        BY <2>3, <2>4
      <3>2. ~x.conn.blocked
        BY <2>1, <2>4
      <3>3. QED
        BY <2>2, <3>1, <3>2 DEF Send
    <2>6. x.conn \in ConnIn(G) /\ x.wire \in Seq(G)
      BY <2>2 DEF LineIn
    <2>7. y.conn.lastSent = e.rev /\ y.conn.at = x.conn.at /\ y.conn.current = x.conn.current
          /\ y.conn.pending = x.conn.pending
      BY <2>5, <2>6 DEF ConnIn
    <2>8. y.conn.blocked <=> k + 1 >= HighWater
      BY <2>4, <2>5, <2>6 DEF ConnIn
    <2>9. Len(y.wire) = k + 1
      BY <2>4, <2>5, <2>6
    <2>10. ToSet(y.wire) = Taken(k + 1)
      <3>1. ToSet(Append(x.wire, e)) = ToSet(x.wire) \cup {e}
        BY <2>6, OneMoreIn
      <3>2. e = p[k + 1] /\ k \in Nat
        BY <1>5, <2>1 DEF e
      <3>3. y.wire = Append(x.wire, e)
        BY <2>5
      <3>4. QED
        BY <1>4, <2>4, <3>1, <3>2, <3>3
    <2>11. QED
      BY <2>1, <2>3, <2>4, <2>7, <2>8, <2>9, <2>10 DEF y
  <1>12. line \in LineIn(G) /\ DrainedTo(line, n)
    <2> HIDE DEF Kept
    <2>1. 0..n \subseteq Kept /\ n \in 0..n
      BY <1>2, <1>10, <1>11, UpTo
    <2> USE DEF Kept
    <2>2. QED
      BY <1>9, <2>1
  <1>13. /\ z \in LineIn(G) /\ z.conn.at = "open" /\ z.conn.current = c.current
         /\ z.conn.pending = rest /\ z.conn.lastSent = L + n /\ (z.conn.blocked <=> n >= HighWater)
         /\ z.wire = line.wire
    <2>1. line.conn \in ConnIn(G)
      BY <1>12 DEF LineIn
    <2>2. z = [line EXCEPT !.conn = [line.conn EXCEPT !.pending = rest]]
      BY <1>12 DEF LineIn, ConnIn
    <2>3. [line.conn EXCEPT !.pending = rest] \in ConnIn(G)
      BY <1>6, <2>1 DEF ConnIn
    <2> DEFINE d == [line.conn EXCEPT !.pending = rest]
    <2>4. d.at = line.conn.at /\ d.current = line.conn.current /\ d.pending = rest
          /\ d.lastSent = line.conn.lastSent /\ d.blocked = line.conn.blocked
      BY <2>1 DEF ConnIn
    <2> HIDE DEF d
    <2>5. z \in LineIn(G) /\ z.conn = d /\ z.wire = line.wire
      BY <1>12, <2>2, <2>3 DEF LineIn, d
    <2> HIDE DEF z
    <2>6. QED
      BY <1>12, <2>4, <2>5
  <1>14. CurrentAt(z.conn, r)
    <2>1. ASSUME NEW i \in 1..m - n PROVE rest[i].rev = (L + n) + i
      <3>1. n + i \in 1..m
        BY <1>1, <1>2
      <3>2. rest[i].rev = L + (n + i)
        BY <1>1, <1>6, <3>1
      <3>3. n \in Int /\ L \in Int /\ i \in Int
        BY <1>1, <1>2
      <3>4. QED
        BY <3>2, <3>3
    <2>2. r = (L + n) + (m - n)
      BY <1>1, <1>2
    <2>3. rest # <<>> => z.conn.blocked
      <3>1. CASE n < HighWater
        <4>1. Len(rest) = 0
          BY <1>1, <1>2, <1>6, <3>1
        <4>2. QED
          BY <1>6, <4>1
      <3>2. CASE ~(n < HighWater)
        <4>1. n >= HighWater
          BY <1>2, <3>2
        <4>2. QED
          BY <1>13, <4>1
      <3>3. QED
        BY <3>1, <3>2
    <2>4. L + n # 0
      BY <1>1, <1>2
    <2> HIDE DEF z
    <2>5. QED
      BY <1>6, <1>13, <2>1, <2>2, <2>3, <2>4 DEF CurrentAt
  <1>15. OnlyOn(z, p)
    <2>1. ToSet(rest) = {p[i] : i \in n + 1..m}
      <3>1. \A j \in n + 1..m : j - n \in 1..m - n /\ n + (j - n) = j
        BY <1>1, <1>2
      <3>2. \A i \in 1..m - n : n + i \in n + 1..m
        BY <1>1, <1>2
      <3>3. DOMAIN rest = 1..m - n
        BY <1>6
      <3>4. \A j \in n + 1..m : \E i \in DOMAIN rest : rest[i] = p[j]
        BY <1>6, <3>1, <3>3
      <3>5. \A i \in DOMAIN rest : \E j \in n + 1..m : rest[i] = p[j]
        BY <1>6, <3>2, <3>3
      <3>6. QED
        BY <3>4, <3>5 DEF ToSet
    <2>2. ToSet(p) = Taken(n) \cup {p[i] : i \in n + 1..m}
      <3>1. DOMAIN p = 1..m /\ 1..m = (1..n) \cup (n + 1..m)
        BY <1>1, <1>2 DEF m
      <3>2. QED
        BY <3>1 DEF ToSet, Taken
    <2> HIDE DEF z
    <2>3. QED
      BY <1>12, <1>13, <2>1, <2>2 DEF On, OnlyOn
  <1>16. QED
    BY <1>13, <1>14, <1>15 DEF DrainedLine, z, line, base, open, es, rest, n, m, p

(* A single event over a connection with nothing waiting                    *)
LEMMA SendOne ==
    ASSUME NEW G, G \subseteq RunEvent, NEW line \in LineIn(G), NEW e \in G,
           line.conn.at = "open", line.conn.pending = <<>>, ~line.conn.blocked,
           e.rev > line.conn.lastSent
    PROVE  LET z == SendAll(line, <<e>>)
           IN /\ z \in LineIn(G) /\ z.conn.at = "open" /\ z.conn.current = line.conn.current
              /\ CurrentAt(z.conn, e.rev) /\ Brought(line, <<e>>, z)
  <1> DEFINE c == line.conn
             es == <<e>>
             b == Len(line.wire) + 1 >= HighWater
             d == [c EXCEPT !.lastSent = e.rev, !.blocked = b]
             w == Append(line.wire, e)
  <1>1. /\ c \in ConnIn(G) /\ line.wire \in Seq(G) /\ e.rev \in Nat /\ c.lastSent \in Nat
        /\ es \in Seq(G) /\ Len(es) = 1 /\ es[1] = e
    BY DEF LineIn, ConnIn, RunEvent
  <1> HIDE DEF es
  <1>2. PICK f : SendInTurn(f, LineIn(G), line, es)
    BY <1>1, SentInOrder
  <1>3. f[0] = line /\ f[1] = Send(line, e) /\ f[1] = SendAll(line, es)
    <2>1. 1 \in 1..Len(es) /\ 1 - 1 = 0
      BY <1>1
    <2>2. f[1] = Send(f[0], es[1])
      BY <1>2, <2>1 DEF SendInTurn
    <2>3. QED
      BY <1>1, <1>2, <2>2 DEF SendInTurn
  <1>4. Send(line, e) = [conn |-> d, wire |-> w]
    <2>1. ~(e.rev <= c.lastSent)
      BY <1>1
    <2>2. QED
      BY <2>1 DEF Send
  <1>5. b \in BOOLEAN /\ w \in Seq(G)
    BY <1>1
  <1> HIDE DEF b, w
  <1>6. /\ d \in ConnIn(G) /\ d.at = "open" /\ d.current = c.current
        /\ d.pending = <<>> /\ d.lastSent = e.rev
    BY <1>1, <1>5 DEF ConnIn
  <1> HIDE DEF d
  <1>7. CurrentAt(d, e.rev)
    <2>1. Len(d.pending) = 0 /\ d.lastSent # 0 /\ e.rev = d.lastSent + 0
      BY <1>1, <1>6
    <2>2. QED
      BY <1>6, <2>1 DEF CurrentAt
  <1>8. [conn |-> d, wire |-> w] \in LineIn(G)
    BY <1>5, <1>6 DEF LineIn
  <1>9. SendAll(line, es) = [conn |-> d, wire |-> w]
    BY <1>3, <1>4
  <1>10. Brought(line, es, SendAll(line, es))
    <2>1. SendAll(line, es) = Send(line, e) /\ Send(line, e).conn.at = "open"
      BY <1>3, <1>6, <1>9
    <2>2. On(SendAll(line, es)) = On(line) \cup {e}
      BY <2>1, SendBrings
    <2>3. ToSet(es) = {e}
      BY <1>1 DEF ToSet
    <2>4. QED
      BY <2>2, <2>3 DEF Brought
  <1>11. QED
    BY <1>6, <1>7, <1>8, <1>9, <1>10 DEF es

LEMMA TrueEventsGrow ==
    ASSUME NEW h, NEW c, NEW w, NEW over \in BOOLEAN, NEW later \in BOOLEAN, over => later,
           StreamIs(h, c, w, over)
    PROVE  StreamIs(h, c, w, later)
  <1>1. TrueEvents(over) \subseteq TrueEvents(later)
    BY DEF TrueEvents
  <1>2. Seq(TrueEvents(over)) \subseteq Seq(TrueEvents(later))
    <2> SUFFICES ASSUME NEW q \in Seq(TrueEvents(over)) PROVE q \in Seq(TrueEvents(later))
      OBVIOUS
    <2>1. Len(q) \in Nat /\ q = [i \in 1..Len(q) |-> q[i]] /\ \A i \in 1..Len(q) : q[i] \in TrueEvents(later)
      BY <1>1
    <2>2. QED
      BY <2>1
  <1> DEFINE A == TrueEvents(over)
             B == TrueEvents(later)
  <1> HIDE DEF A, B
  <1>3. RingOf(h, A) /\ c \in ConnIn(A) /\ w \in Seq(A)
    BY DEF StreamIs, A
  <1>4. RingOf(h, B)
    BY <1>2, <1>3 DEF RingOf, A, B
  <1>5. c \in ConnIn(B)
    BY <1>2, <1>3 DEF ConnIn, A, B
  <1>6. w \in Seq(B)
    BY <1>2, <1>3 DEF A, B
  <1>7. QED
    BY <1>4, <1>5, <1>6 DEF StreamIs, B

LEMMA NoConnection ==
    ASSUME NEW h, NEW over \in BOOLEAN, RingOf(h, TrueEvents(over))
    PROVE  StreamIs(h, NoConn, <<>>, over)
  <1>1. NoConn \in ConnIn(TrueEvents(over)) /\ <<>> \in Seq(TrueEvents(over))
    BY DEF NoConn, ConnIn, Statuses, None
  <1>2. QED
    BY <1>1 DEF StreamIs, NoConn, CurrentAt, Unsent, Over

(* A page without a stream is owed nothing.                                 *)
LEMMA NothingOwed ==
    ASSUME NEW h, NEW a, NEW on \in BOOLEAN, on => a \in Nat /\ a <= h.rev, NEW line,
           line.conn.at = "none"
    PROVE  PageIsAt(h, line, a, on)
  BY DEF PageIsAt

(* What becomes of the connection becomes of the page.                      *)
LEMMA LinesKeep ==
    ASSUME NEW line, NEW over \in BOOLEAN, NEW s, Lines(line),
           PageFollows(page, conn, s), RingOf(hub', TrueEvents(over)),
           joined' \in BOOLEAN, joined' => page.accepted \in Nat /\ page.accepted <= hub'.rev,
           line.conn.at # "none" => /\ conn.at # "none" /\ StreamIs(hub', line.conn, line.wire, over)
                                    /\ PageIsAt(hub', line, page.accepted, joined')
    PROVE  /\ StreamIs(hub', conn', wire', over) /\ PageFollows(page', conn', s)
           /\ PageIsAt(hub', Line', page'.accepted, joined')
  <1>1. CASE line.conn.at = "none"
    <2>1. conn' = NoConn /\ wire' = <<>> /\ NoConn.at = "none"
      BY <1>1 DEF Lines, NoConn
    <2>2. StreamIs(hub', conn', wire', over)
      BY <2>1, NoConnection
    <2>3. PageFollows(page', conn', s) /\ page'.accepted = page.accepted
      <3>1. CASE conn.at = "none"
        BY <1>1, <2>1, <3>1 DEF Lines, PageFollows
      <3>2. CASE conn.at # "none"
        <4>1. page' = [page EXCEPT !.mode = "poll"] /\ page.mode = "stream"
          BY <1>1, <3>2 DEF Lines, PageFollows
        <4>2. page' \in PageIn /\ page'.mode = "poll" /\ page'.accepted = page.accepted
          BY <4>1 DEF PageFollows, PageIn
        <4>3. QED
          BY <2>1, <4>1, <4>2 DEF PageFollows
      <3>3. QED
        BY <3>1, <3>2
    <2>4. PageIsAt(hub', Line', page'.accepted, joined')
      <3>1. Line'.conn.at = "none"
        BY <2>1 DEF Line
      <3>2. QED
        BY <2>3, <3>1, NothingOwed
    <2>5. QED
      BY <2>2, <2>3, <2>4
  <1>2. CASE line.conn.at # "none"
    <2>1. conn' = line.conn /\ wire' = line.wire /\ page' = page /\ conn.at # "none"
      BY <1>2 DEF Lines
    <2>2. StreamIs(hub', line.conn, line.wire, over)
      BY <1>2
    <2>3. PageIsAt(hub', Line', page.accepted, joined')
      <3>1. Line'.conn = line.conn /\ Line'.wire = line.wire
        BY <2>1 DEF Line
      <3>2. QED
        BY <1>2, <3>1 DEF PageIsAt, On
    <2>4. QED
      BY <1>2, <2>1, <2>2, <2>3 DEF PageFollows
  <1>3. QED
    BY <1>1, <1>2

LEMMA OnIn ==
    ASSUME NEW G, NEW line \in LineIn(G)
    PROVE  On(line) \subseteq G
  <1>1. line.wire \in Seq(G) /\ line.conn.pending \in Seq(G)
    BY DEF LineIn, ConnIn
  <1>2. QED
    BY <1>1 DEF On, ToSet

(* What is published next keeps what the events before it brought, and puts *)
(* a page where the hub is on its own if it is a state.                     *)
LEMMA DeliversMore ==
    ASSUME NEW line, On(line) \subseteq RunEvent, NEW h, NEW z, h.rev \in Nat, z.rev \in Nat,
           NEW a \in Nat \cup {None}, NEW on \in BOOLEAN, Delivers(h, On(line), a, on),
           NEW es \in Seq(RunEvent), Follow(es, h.rev), h.rev + Len(es) = z.rev,
           NEW after, Brought(line, es, after), after.conn.at = "open"
    PROVE  Delivers(z, On(after), a, on)
  <1> DEFINE C == On(line)
             D == ToSet(es)
  <1>0. On(after) = C \cup D
    BY DEF Brought
  <1>1. \A e \in D : \E i \in 1..Len(es) : e = es[i] /\ e.rev = h.rev + i
    BY DEF ToSet, Follow
  <1>2. \A e \in D : e.rev \in Nat /\ e.rev > h.rev /\ e.rev <= z.rev
    BY <1>1
  <1>3. \A m \in 1..z.rev : m > h.rev => \E e \in D : e.rev = m
    <2> SUFFICES ASSUME NEW m \in 1..z.rev, m > h.rev PROVE \E e \in D : e.rev = m
      OBVIOUS
    <2>1. m - h.rev \in 1..Len(es) /\ h.rev + (m - h.rev) = m
      OBVIOUS
    <2>2. es[m - h.rev] \in D /\ es[m - h.rev].rev = m
      BY <2>1 DEF ToSet, Follow
    <2>3. QED
      BY <2>2
  <1> HIDE DEF C, D
  <1>4. \A e \in C \cup D : e.rev <= z.rev
    <2>1. \A e \in C : e.rev \in Nat /\ e.rev <= h.rev
      BY DEF Delivers, RunEvent, C
    <2>2. h.rev <= z.rev
      OBVIOUS
    <2>3. \A e \in C : e.rev <= z.rev
      BY <2>1, <2>2
    <2>4. QED
      BY <1>2, <2>3
  <1>5. ASSUME on \/ \E e \in C \cup D : e.says # "none" /\ e.rev > a,
               NEW m \in 1..z.rev, m > a
        PROVE  \E e \in C \cup D : e.rev = m \/ (e.rev > m /\ e.says # "none")
    <2>1. CASE m > h.rev
      BY <1>3, <2>1
    <2>2. CASE ~(m > h.rev)
      <3>1. m \in 1..h.rev
        BY <2>2
      <3>2. CASE on \/ \E e \in C : e.says # "none" /\ e.rev > a
        BY <1>5, <3>1, <3>2 DEF Delivers, Covers, C
      <3>3. CASE \E e \in D : e.says # "none" /\ e.rev > a
        <4>1. PICK e \in D : e.says # "none"
          BY <3>3
        <4>2. e.rev > m
          BY <1>2, <3>1, <4>1
        <4>3. QED
          BY <4>1, <4>2
      <3>4. QED
        BY <1>5, <3>2, <3>3
    <2>3. QED
      BY <2>1, <2>2
  <1>6. QED
    BY <1>0, <1>4, <1>5 DEF Delivers, Covers

-----------------------------------------------------------------------------
(* What a connection is first sent                                          *)

LEMMA LastOfRing ==
    ASSUME NEW G, NEW h, RingOf(h, G), Len(h.events) # 0
    PROVE  Last(h.events) \in G /\ Last(h.events).rev = h.rev /\ h.rev > 0
  <1> DEFINE n == Len(h.events)
  <1>1. h.events \in Seq(G) /\ n \in 1..n /\ h.rev \in Nat /\ n <= h.rev
    BY DEF RingOf
  <1>2. h.events[n].rev = (h.rev - n) + n /\ h.events[n] \in G
    BY <1>1 DEF RingOf
  <1> HIDE DEF n
  <1>3. h.rev > 0 /\ (h.rev - n) + n = h.rev
    BY <1>1
  <1>4. QED
    BY <1>2, <1>3 DEF Last, n

(* The replay ends at the revision of the hub: it has what comes after the  *)
(* revision it starts from, or the last event alone.                        *)
Replays(x, G) ==
    /\ RingOf(x.hub, G) /\ x.from \in Nat /\ x.events \in Seq(G)
    /\ \/ \E r \in Nat : x.from \in {0, r} /\ Follow(x.events, r) /\ r + Len(x.events) = x.hub.rev
       \/ \E e \in G : x.events = <<e>> /\ e.rev = x.hub.rev /\ e.rev > x.from

LEMMA LastCovers ==
    ASSUME NEW C, NEW e \in C, e.rev \in Nat, e.says # "none", NEW a
    PROVE  Covers(C, a, e.rev)
  <1>1. \A m \in 1..e.rev : e.rev = m \/ e.rev > m
    OBVIOUS
  <1>2. QED
    BY <1>1 DEF Covers

LEMMA SaysCurrent ==
    ASSUME NEW over \in BOOLEAN, NEW e \in TrueEvents(over), NEW current \in Over, over
    PROVE  /\ [e EXCEPT !.says = current] \in TrueEvents(over)
           /\ [e EXCEPT !.says = current].rev = e.rev
           /\ [e EXCEPT !.says = current].says = current
  BY DEF TrueEvents, RunEvent

LEMMA FirstReplays ==
    ASSUME NEW over \in BOOLEAN, NEW h, RingOf(h, TrueEvents(over)),
           NEW current \in Active \cup Over, current \in Over => over
    PROVE  LET x == FirstReplay(h, current)
           IN /\ Replays(x, TrueEvents(over)) /\ h.rev <= x.hub.rev
              /\ x.events = <<>> \/ Covers(ToSet(x.events), 0, x.hub.rev)
  <1> DEFINE G == TrueEvents(over)
             x == FirstReplay(h, current)
  <1>1. RingOf(h, G) /\ h.rev \in Nat /\ current # "none"
    BY DEF RingOf, Active, Over
  <1>2. CASE current \in Over /\ h.terminal
    <2> DEFINE e == [Last(h.events) EXCEPT !.says = current]
    <2>1. Len(h.events) # 0
      BY <1>2 DEF RingOf
    <2>2. e \in G /\ e.rev = h.rev /\ h.rev > 0 /\ e.says = current
      <3>1. Last(h.events) \in G /\ Last(h.events).rev = h.rev /\ h.rev > 0
        BY <2>1, LastOfRing
      <3>2. QED
        BY <1>2, <3>1, SaysCurrent
    <2>3. x = [hub |-> h, from |-> 0, events |-> <<e>>]
      BY <1>2 DEF FirstReplay
    <2> HIDE DEF e, x, G
    <2>4. <<e>> \in Seq(G)
      BY <2>2
    <2>5. x.hub = h /\ x.from = 0 /\ x.events = <<e>>
      BY <2>3
    <2>6. Covers(ToSet(<<e>>), 0, h.rev)
      <3>1. e \in ToSet(<<e>>)
        BY DEF ToSet
      <3>2. QED
        BY <1>1, <2>2, <3>1, LastCovers
    <2>7. QED
      BY <1>1, <2>2, <2>4, <2>5, <2>6 DEF Replays, G, x
  <1>3. CASE ~(current \in Over /\ h.terminal)
    <2> DEFINE z == PublishCurrent(h, current)
               es == EventsAfter(z, h.rev)
    <2>1. /\ RingOf(z, G) /\ h.rev <= z.rev /\ z.rev - Len(z.events) <= h.rev
          /\ z.rev > h.rev => Last(z.events).says = current
      BY CurrentPublished
    <2>2. x = [hub |-> z, from |-> 0, events |-> es]
      BY <1>3 DEF FirstReplay
    <2> HIDE DEF z, x, G
    <2>3. /\ es \in Seq(G) /\ Follow(es, h.rev) /\ h.rev + Len(es) = z.rev
          /\ es # <<>> => Last(es) = Last(z.events)
      BY <1>1, <2>1, RingReaches
    <2> HIDE DEF es
    <2>4. x.hub = z /\ x.from = 0 /\ x.events = es
      BY <2>2
    <2>5. es = <<>> \/ Covers(ToSet(es), 0, z.rev)
      <3> SUFFICES ASSUME es # <<>> PROVE Covers(ToSet(es), 0, z.rev)
        OBVIOUS
      <3>1. Len(es) \in 1..Len(es) /\ Last(es) = es[Len(es)] /\ Len(es) \in DOMAIN es
        BY <2>3 DEF Last
      <3>2. Last(es).rev = z.rev /\ Last(es) \in ToSet(es)
        BY <2>3, <3>1 DEF Follow, ToSet
      <3>3. z.rev \in Nat /\ Last(es).says = current
        BY <1>1, <2>1, <2>3, <3>1
      <3>4. QED
        BY <1>1, <3>2, <3>3, LastCovers
    <2>6. QED
      BY <1>1, <2>1, <2>3, <2>4, <2>5 DEF Replays, G, x
  <1>4. QED
    BY <1>2, <1>3

LEMMA ResumedReplays ==
    ASSUME NEW over \in BOOLEAN, NEW h, RingOf(h, TrueEvents(over)),
           NEW current \in Active \cup Over, current \in Over => over, NEW requested \in Nat
    PROVE  LET x == ResumedReplay(h, current, requested)
           IN /\ Replays(x, TrueEvents(over)) /\ h.rev <= x.hub.rev
              /\ Covers(ToSet(x.events), requested, x.hub.rev)
  <1> DEFINE G == TrueEvents(over)
             known == IF h.events = <<>> THEN PublishCurrent(h, current) ELSE h
             from == IF requested > known.rev THEN 0 ELSE requested
             held == EventsAfter(known, from)
             shown == Publish(known, "snapshot", current)
             gap == held # <<>> /\ held[1].rev > from + 1
             e == [Last(known.events) EXCEPT !.says = current]
             x == ResumedReplay(h, current, requested)
  <1>1. RingOf(known, G) /\ Len(known.events) # 0 /\ h.rev <= known.rev /\ current # "none"
    <2>0. h.rev \in Nat /\ current # "none"
      BY DEF RingOf, Active, Over
    <2>1. CASE h.events = <<>>
      <3>1. ~h.terminal
        BY <2>1 DEF RingOf
      <3>2. QED
        BY <2>0, <2>1, <3>1, CurrentPublished
    <2>2. CASE h.events # <<>>
      <3>1. h.events \in Seq(G)
        BY DEF RingOf
      <3>2. QED
        BY <2>0, <2>2, <3>1
    <2>3. QED
      BY <2>1, <2>2
  <1>2. x = CASE ~gap -> [hub |-> known, from |-> from, events |-> held]
              [] gap /\ current \in Over -> [hub |-> known, from |-> from, events |-> <<e>>]
              [] OTHER -> [hub |-> shown, from |-> from, events |-> <<Last(shown.events)>>]
    BY DEF ResumedReplay
  <1> HIDE DEF known, x
  <1>3. known.rev \in Nat /\ known.events \in Seq(G) /\ Len(known.events) \in Nat
    BY <1>1 DEF RingOf
  <1>4. from \in Nat /\ from <= known.rev /\ (from # requested => requested > known.rev)
    BY <1>3
  <1> HIDE DEF from
  <1>5. held \in Seq(G) /\ \E d : After(held, known, from, d)
    BY <1>1, <1>4, AfterRevision
  <1> HIDE DEF held
  <1>6. PICK d : After(held, known, from, d)
    BY <1>5
  <1>7. /\ d \in Nat /\ from <= d /\ d <= known.rev
        /\ d # from => d = known.rev - Len(known.events)
        /\ Len(held) = known.rev - d
        /\ \A i \in 1..Len(held) : held[i].rev = d + i
    BY <1>6 DEF After
  <1>8. held # <<>> => held[1].rev = d + 1
    <2>1. held # <<>> => 1 \in 1..Len(held)
      BY <1>5
    <2>2. QED
      BY <1>7, <2>1
  <1>9. CASE ~gap
    <2>1. d = from
      <3>1. CASE held = <<>>
        <4>1. d = known.rev
          BY <1>3, <1>7, <3>1
        <4>2. QED
          BY <1>1, <1>3, <1>7, <4>1
      <3>2. CASE held # <<>>
        BY <1>4, <1>7, <1>8, <1>9, <3>2
      <3>3. QED
        BY <3>1, <3>2
    <2>2. Follow(held, from) /\ from + Len(held) = known.rev
      BY <1>3, <1>7, <2>1 DEF Follow
    <2>3. x.hub = known /\ x.from = from /\ x.events = held
      BY <1>2, <1>9
    <2>4. Covers(ToSet(held), requested, known.rev)
      <3> SUFFICES ASSUME NEW m \in 1..known.rev, m > requested
                   PROVE  \E f \in ToSet(held) : f.rev = m
        BY DEF Covers
      <3>1. from = requested
        BY <1>3, <1>4
      <3>2. m - from \in 1..Len(held) /\ from + (m - from) = m
        BY <1>3, <1>4, <2>2, <3>1
      <3>3. held[m - from] \in ToSet(held) /\ held[m - from].rev = m
        BY <1>5, <2>2, <3>2 DEF Follow, ToSet
      <3>4. QED
        BY <3>3
    <2> HIDE DEF G, gap
    <2>5. QED
      BY <1>1, <1>4, <1>5, <2>2, <2>3, <2>4 DEF Replays, G, x
  <1>10. CASE gap
    <2>1. known.rev > from
      BY <1>3, <1>4, <1>7, <1>8, <1>10
    <2>2. CASE current \in Over
      <3>1. e \in G /\ e.rev = known.rev /\ e.says = current
        <4>1. Last(known.events) \in G /\ Last(known.events).rev = known.rev
          BY <1>1, LastOfRing
        <4>2. QED
          BY <2>2, <4>1, SaysCurrent
      <3>2. x.hub = known /\ x.from = from /\ x.events = <<e>>
        BY <1>2, <1>10, <2>2
      <3> HIDE DEF G, gap, e
      <3>3. <<e>> \in Seq(G) /\ e \in ToSet(<<e>>)
        BY <3>1 DEF ToSet
      <3>4. Covers(ToSet(<<e>>), requested, known.rev)
        BY <1>1, <1>3, <3>1, <3>3, LastCovers
      <3>5. QED
        BY <1>1, <1>4, <2>1, <3>1, <3>2, <3>3, <3>4 DEF Replays, G, x
    <2>3. CASE current \notin Over
      <3>1. \A n \in Nat : [rev |-> n, type |-> "snapshot", says |-> current] \in G
        BY TrueEvent DEF Statuses
      <3>2. x.hub = shown /\ x.from = from /\ x.events = <<Last(shown.events)>>
        BY <1>2, <1>10, <2>3
      <3> HIDE DEF G, gap
      <3>3. /\ RingOf(shown, G)
            /\ known.terminal => shown = known
            /\ ~known.terminal => /\ shown.rev = known.rev + 1
                                  /\ Len(shown.events) \in {Len(known.events) + 1, ReplayLimit}
                                  /\ Last(shown.events).says = current
        <4>1. "snapshot" \in {"snapshot", "patch", "terminal"} /\ "snapshot" # "terminal"
          OBVIOUS
        <4>2. QED
          BY <1>1, <3>1, <4>1, PublishedRing
      <3> HIDE DEF shown
      <3>4. Len(shown.events) # 0 /\ shown.rev > from /\ known.rev <= shown.rev /\ shown.rev \in Nat
        BY <1>1, <1>3, <1>4, <2>1, <3>3, RunEventsAssumption
      <3>5. Last(shown.events) \in G /\ Last(shown.events).rev = shown.rev
        BY <3>3, <3>4, LastOfRing
      <3>6. Last(shown.events).says # "none"
        BY <1>1, <3>3 DEF RingOf
      <3>7. <<Last(shown.events)>> \in Seq(G) /\ Last(shown.events) \in ToSet(<<Last(shown.events)>>)
        BY <3>5 DEF ToSet
      <3>8. Covers(ToSet(<<Last(shown.events)>>), requested, shown.rev)
        BY <3>4, <3>5, <3>6, <3>7, LastCovers
      <3>9. h.rev <= shown.rev
        <4>1. h.rev \in Nat
          BY DEF RingOf
        <4>2. QED
          BY <1>1, <1>3, <3>4, <4>1
      <3>10. QED
        BY <1>4, <3>2, <3>3, <3>4, <3>5, <3>7, <3>8, <3>9 DEF Replays, G, x
    <2>4. QED
      BY <2>2, <2>3
  <1>11. QED
    BY <1>9, <1>10

-----------------------------------------------------------------------------
(* The steps *)

(* The run goes on: what is over stays as it is.                            *)
SourceGoesOn ==
    /\ status' \in [Runs -> Statuses] /\ announced' \in [Runs -> {"none"} \cup Over]
    /\ status[Watched] \in Over => status'[Watched] = status[Watched]
    /\ status[Watched] # "none" => status'[Watched] # "none"

LEMMA RunGoesOn ==
    ASSUME EventsInv,
           \/ Move(Watched) \/ End(Watched) \/ SourceRestart \/ UNCHANGED sourceVars
           \/ \E s \in Over : Announce(Watched, s)
    PROVE  SourceGoesOn
  <1>0. /\ status \in [Runs -> Statuses] /\ announced \in [Runs -> {"none"} \cup Over]
        /\ Watched \in Runs
    BY RunEventsAssumption DEF EventsInv
  <1>1. \A s \in Statuses : MayBecome(s) \subseteq Statuses \ {"none"} /\ (s \in Over => MayBecome(s) = {})
    BY DEF MayBecome, Statuses, Active, Over
  <1>2. CASE Move(Watched)
    <2>1. PICK s \in MayBecome(status[Watched]) : status' = [status EXCEPT ![Watched] = s]
      BY <1>2 DEF Move
    <2>2. s \in Statuses /\ s # "none" /\ status[Watched] \notin Over
      BY <1>0, <1>1, <2>1
    <2>3. announced' = announced
      BY <1>2 DEF Move
    <2>4. QED
      BY <1>0, <2>1, <2>2, <2>3 DEF SourceGoesOn
  <1>3. CASE End(Watched)
    <2>1. PICK s \in MayBecome(status[Watched]) \cap Over :
             /\ status' = [status EXCEPT ![Watched] = s]
             /\ announced' = [announced EXCEPT ![Watched] = IF @ = "none" THEN s ELSE @]
      BY <1>3 DEF End
    <2>2. s \in Statuses /\ s # "none" /\ s \in Over /\ status[Watched] \notin Over
      BY <1>0, <1>1, <2>1
    <2>3. QED
      BY <1>0, <2>1, <2>2 DEF SourceGoesOn
  <1>4. CASE SourceRestart
    <2>1. /\ status' = [r \in Runs |-> IF status[r] \in Active THEN "failed" ELSE status[r]]
          /\ announced' = [r \in Runs |-> "none"]
      BY <1>4 DEF SourceRestart
    <2>2. "failed" \in Statuses /\ "failed" # "none" /\ Active \cap Over = {}
      BY DEF Statuses, Active, Over
    <2>3. QED
      BY <1>0, <2>1, <2>2 DEF SourceGoesOn
  <1>5. CASE UNCHANGED sourceVars
    BY <1>0, <1>5 DEF sourceVars, SourceGoesOn
  <1>6. ASSUME NEW s \in Over, Announce(Watched, s) PROVE SourceGoesOn
    <2>1. status' = status /\ announced' = [announced EXCEPT ![Watched] = s]
      BY <1>6 DEF Announce
    <2>2. QED
      BY <1>0, <2>1 DEF SourceGoesOn
  <1>7. QED
    BY <1>2, <1>3, <1>4, <1>5, <1>6

LEMMA RunGoneOn ==
    ASSUME EventsInv, SourceGoesOn
    PROVE  LET over == status'[Watched] \in Over
           IN /\ over \in BOOLEAN
              /\ StreamIs(hub, conn, wire, over)
              /\ PageFollows(page, conn, status'[Watched])
  <1> DEFINE before == status[Watched] \in Over
             over == status'[Watched] \in Over
  <1>1. StreamIs(hub, conn, wire, before) /\ before \in BOOLEAN /\ over \in BOOLEAN /\ (before => over)
    BY DEF EventsInv, SourceGoesOn
  <1>2. PageFollows(page, conn, status'[Watched])
    BY DEF EventsInv, SourceGoesOn, PageFollows
  <1> HIDE DEF before, over
  <1>3. StreamIs(hub, conn, wire, over)
    BY <1>1, TrueEventsGrow
  <1>4. QED
    BY <1>1, <1>2, <1>3 DEF over

(* An event is published, or none where the run has had its end.            *)
LEMMA PublishedInv ==
    ASSUME EventsInv, SourceGoesOn, joined' = joined,
           NEW type \in {"snapshot", "patch", "terminal"}, NEW says \in Statuses,
           says \in Over => status'[Watched] \in Over, type = "terminal" => says \in Over,
           Published(Publish(hub, type, says))
    PROVE  LET over == status'[Watched] \in Over
           IN /\ StreamIs(hub', conn', wire', over) /\ PageFollows(page', conn', status'[Watched])
              /\ PageIsAt(hub', Line', page'.accepted, joined')
  <1> DEFINE over == status'[Watched] \in Over
             G == TrueEvents(over)
             h == Publish(hub, type, says)
             es == EventsAfter(h, hub.rev)
             base == [conn |-> conn, wire |-> wire]
             line == SendAll(base, es)
  <1>1. over \in BOOLEAN /\ StreamIs(hub, conn, wire, over) /\ PageFollows(page, conn, status'[Watched])
    BY RunGoneOn
  <1>2. hub' = h /\ Lines(line)
    BY DEF Published
  <1> HIDE DEF over
  <1>3. \A n \in Nat : [rev |-> n, type |-> type, says |-> says] \in G
    BY <1>1, TrueEvent DEF over
  <1>4. RingOf(hub, G) /\ conn \in ConnIn(G) /\ wire \in Seq(G) /\ CurrentAt(conn, hub.rev)
    BY <1>1 DEF StreamIs
  <1>5. hub.rev \in Nat /\ Len(hub.events) \in Nat /\ Len(hub.events) <= hub.rev
    BY <1>4 DEF RingOf
  <1>6. G \subseteq RunEvent
    BY DEF TrueEvents
  <1> HIDE DEF G, h
  <1>7. /\ RingOf(h, G)
        /\ hub.terminal => h = hub
        /\ ~hub.terminal => h.rev = hub.rev + 1 /\ Len(h.events) \in {Len(hub.events) + 1, ReplayLimit}
    <2>1. type = "terminal" => says # "none"
      BY DEF Over
    <2>2. QED
      BY <1>3, <1>4, <2>1, PublishedRing DEF h
  <1>8. hub.rev <= h.rev /\ h.rev - Len(h.events) <= hub.rev
    BY <1>5, <1>7, RunEventsAssumption
  <1>9. es \in Seq(G) /\ Follow(es, hub.rev) /\ hub.rev + Len(es) = h.rev
    BY <1>5, <1>7, <1>8, RingReaches
  <1> HIDE DEF es
  <1>10. base \in LineIn(G) /\ base.conn = conn /\ base.wire = wire
    BY <1>4 DEF LineIn
  <1> HIDE DEF base
  <1>11. /\ line \in LineIn(G)
         /\ line.conn.at \in {conn.at, "none"} /\ line.conn.current = conn.current
         /\ conn.at # "open" => line = base
         /\ CurrentAt(line.conn, h.rev)
         /\ Brought(base, es, line)
    BY <1>4, <1>5, <1>6, <1>9, <1>10, SendAllKeeps
  <1>12. PageIsAt(hub, base, page.accepted, joined) /\ page.accepted \in Nat \cup {None}
    BY DEF EventsInv, Line, PageFollows, PageIn, base
  <1> HIDE DEF line
  <1>13. line.conn.at # "none" => PageIsAt(h, line, page.accepted, joined)
    <2> SUFFICES ASSUME line.conn.at # "none" PROVE PageIsAt(h, line, page.accepted, joined)
      OBVIOUS
    <2>1. line.conn.at = conn.at /\ h.rev \in Nat
      BY <1>7, <1>11 DEF RingOf
    <2>2. joined \in BOOLEAN /\ (joined => page.accepted \in Nat /\ page.accepted <= h.rev)
      BY <1>5, <1>8, <1>12, <2>1 DEF PageIsAt
    <2>3. CASE conn.at = "open"
      <3>1. On(base) \subseteq RunEvent
        BY <1>6, <1>10, OnIn
      <3>2. Delivers(hub, On(base), page.accepted, joined)
        BY <1>10, <1>12, <2>3 DEF PageIsAt
      <3>3. es \in Seq(RunEvent)
        BY <1>6, <1>9
      <3>4. Delivers(h, On(line), page.accepted, joined)
        BY <1>5, <1>9, <1>11, <1>12, <2>1, <2>2, <2>3, <3>1, <3>2, <3>3, DeliversMore
      <3>5. QED
        BY <1>11, <2>1, <2>2, <2>3, <3>4 DEF PageIsAt
    <2>4. CASE conn.at # "open"
      <3>1. line.conn = conn
        BY <1>10, <1>11, <2>4
      <3>2. QED
        BY <1>10, <1>12, <2>2, <2>4, <3>1 DEF PageIsAt
    <2>5. QED
      BY <2>3, <2>4
  <1>14. line.conn.at # "none" => StreamIs(h, line.conn, line.wire, over)
    <2> SUFFICES ASSUME line.conn.at # "none" PROVE StreamIs(h, line.conn, line.wire, over)
      OBVIOUS
    <2>1. line.conn \in ConnIn(G) /\ line.wire \in Seq(G) /\ line.conn.at = conn.at
      BY <1>11 DEF LineIn
    <2>2. line.conn.at # "open" => Unsent(line.conn) /\ line.wire = <<>>
      BY <1>1, <1>10, <1>11, <2>1 DEF StreamIs
    <2>3. /\ line.conn.current \in Over => over
          /\ line.conn.at \in {"read", "open"} => line.conn.current # "none"
      BY <1>1, <1>11, <2>1 DEF StreamIs
    <2>4. QED
      BY <1>7, <1>11, <2>1, <2>2, <2>3 DEF StreamIs, G
  <1>15. QED
    <2>1. RingOf(hub', TrueEvents(over))
      BY <1>2, <1>7 DEF G
    <2>2. line.conn.at # "none" => /\ conn.at # "none" /\ StreamIs(hub', line.conn, line.wire, over)
                                   /\ PageIsAt(hub', line, page.accepted, joined')
      BY <1>2, <1>11, <1>13, <1>14
    <2>3. joined' \in BOOLEAN /\ (joined' => page.accepted \in Nat /\ page.accepted <= hub'.rev)
      <3>1. hub'.rev \in Nat
        BY <1>2, <1>7 DEF RingOf
      <3>2. QED
        BY <1>2, <1>5, <1>8, <1>12, <3>1 DEF PageIsAt
    <2>4. QED
      BY <1>1, <1>2, <2>1, <2>2, <2>3, LinesKeep DEF over

(* What a step leaves to be shown, where the source keeps its promise       *)
StepKeeps ==
    /\ StreamIs(hub', conn', wire', status'[Watched] \in Over)
    /\ PageFollows(page', conn', status'[Watched])
    /\ PageIsAt(hub', Line', page'.accepted, joined')
    /\ datas' \in 0..MaxData /\ hides' \in 0..MaxHides

LEMMA ReadRunKeeps == ASSUME EventsInv, ReadRun PROVE StepKeeps
  <1> DEFINE over == status[Watched] \in Over
             G == TrueEvents(over)
  <1>1. /\ conn.at = "asked" /\ conn' = [conn EXCEPT !.at = "read", !.current = status[Watched]]
        /\ status' = status /\ UNCHANGED <<hub, wire, page, datas, hides, joined>>
    BY DEF ReadRun, sourceVars
  <1>2. /\ RingOf(hub, G) /\ conn \in ConnIn(G) /\ wire \in Seq(G) /\ Unsent(conn) /\ wire = <<>>
        /\ page.mode = "stream" /\ status[Watched] \in Statuses /\ status[Watched] # "none"
    BY <1>1, RunEventsAssumption DEF EventsInv, StreamIs, PageFollows
  <1> HIDE DEF G
  <1>3. conn' \in ConnIn(G) /\ conn'.at = "read" /\ conn'.current = status[Watched] /\ Unsent(conn')
    BY <1>1, <1>2 DEF ConnIn, Unsent
  <1>4. StreamIs(hub', conn', wire', over)
    BY <1>1, <1>2, <1>3 DEF StreamIs, CurrentAt, G
  <1>5. PageFollows(page', conn', status'[Watched])
    BY <1>1, <1>3 DEF EventsInv, PageFollows
  <1>6. PageIsAt(hub', Line', page'.accepted, joined')
    <2>1. conn'.requested = conn.requested
      BY <1>1, <1>2 DEF ConnIn
    <2>2. QED
      BY <1>1, <1>3, <2>1 DEF EventsInv, PageIsAt, Line
  <1>7. QED
    BY <1>1, <1>4, <1>5, <1>6 DEF StepKeeps, EventsInv

(* What a replay brings: to a page that has accepted nothing, and to one    *)
(* that has accepted a revision.                                            *)
LEMMA ReplayDelivers ==
    ASSUME NEW G, G \subseteq RunEvent, NEW x, Replays(x, G), NEW a \in Nat \cup {None}, NEW on \in BOOLEAN,
           \/ a = None /\ ~on /\ (x.events = <<>> \/ Covers(ToSet(x.events), 0, x.hub.rev))
           \/ a \in Nat /\ Covers(ToSet(x.events), a, x.hub.rev)
    PROVE  Delivers(x.hub, ToSet(x.events), a, on)
  <1>1. x.hub.rev \in Nat /\ x.events \in Seq(G)
    BY DEF Replays, RingOf
  <1>2. \A e \in ToSet(x.events) : e.rev <= x.hub.rev
    <2>1. CASE \E r \in Nat : Follow(x.events, r) /\ r + Len(x.events) = x.hub.rev
      <3>1. PICK r \in Nat : Follow(x.events, r) /\ r + Len(x.events) = x.hub.rev
        BY <2>1
      <3>2. \A i \in 1..Len(x.events) : x.events[i].rev = r + i /\ r + i <= x.hub.rev
        BY <1>1, <3>1 DEF Follow
      <3>3. QED
        BY <1>1, <3>2 DEF ToSet
    <2>2. CASE \E e \in G : x.events = <<e>> /\ e.rev = x.hub.rev
      BY <1>1, <2>2 DEF ToSet
    <2>3. QED
      BY <2>1, <2>2 DEF Replays
  <1>3. CASE x.events = <<>> /\ ~on
    BY <1>2, <1>3 DEF Delivers, ToSet
  <1>4. CASE a = None /\ Covers(ToSet(x.events), 0, x.hub.rev)
    <2>1. \A m \in 1..x.hub.rev : m > 0
      BY <1>1
    <2>2. Covers(ToSet(x.events), a, x.hub.rev)
      BY <1>4, <2>1 DEF Covers
    <2>3. QED
      BY <1>2, <2>2 DEF Delivers
  <1>5. CASE Covers(ToSet(x.events), a, x.hub.rev)
    BY <1>2, <1>5 DEF Delivers
  <1>6. QED
    BY <1>3, <1>4, <1>5

LEMMA SubscribeKeeps == ASSUME EventsInv, Subscribe PROVE StepKeeps
  <1> DEFINE over == status[Watched] \in Over
             G == TrueEvents(over)
             x == IF conn.requested = None THEN FirstReplay(hub, conn.current)
                  ELSE ResumedReplay(hub, conn.current, conn.requested)
             open == [conn EXCEPT !.at = "open", !.lastSent = x.from]
             base == [conn |-> open, wire |-> wire]
             line == SendAll(base, x.events)
  <1>1. /\ conn.at = "read" /\ hub' = x.hub /\ Lines(line)
        /\ status' = status /\ UNCHANGED <<datas, hides, joined>>
    BY DEF Subscribe, sourceVars
  <1>2. over \in BOOLEAN /\ StreamIs(hub, conn, wire, over) /\ PageFollows(page, conn, status[Watched])
    BY DEF EventsInv
  <1> HIDE DEF over
  <1>3. /\ RingOf(hub, G) /\ conn \in ConnIn(G) /\ Unsent(conn) /\ wire = <<>>
        /\ conn.current \in Over => over
        /\ conn.current # "none"
    BY <1>1, <1>2 DEF StreamIs
  <1>4. conn.current \in Active \cup Over /\ conn.requested \in Nat \cup {None}
    BY <1>3 DEF ConnIn, Statuses
  <1>5. /\ joined \in BOOLEAN /\ (joined => page.accepted \in Nat /\ page.accepted <= hub.rev)
        /\ conn.requested = page.accepted /\ page.accepted \in Nat \cup {None}
    BY <1>1, <1>4 DEF EventsInv, PageIsAt, Line
  <1>6. /\ Replays(x, G) /\ hub.rev <= x.hub.rev
        /\ \/ conn.requested = None /\ (x.events = <<>> \/ Covers(ToSet(x.events), 0, x.hub.rev))
           \/ conn.requested \in Nat /\ Covers(ToSet(x.events), conn.requested, x.hub.rev)
    <2>1. CASE conn.requested = None
      BY <1>2, <1>3, <1>4, <2>1, FirstReplays
    <2>2. CASE conn.requested # None
      BY <1>2, <1>3, <1>4, <2>2, ResumedReplays
    <2>3. QED
      BY <2>1, <2>2
  <1> HIDE DEF x
  <1>7. G \subseteq RunEvent
    BY DEF TrueEvents
  <1> HIDE DEF G
  <1>8. Delivers(x.hub, ToSet(x.events), page.accepted, joined)
    <2>1. None \notin Nat
      BY DEF None
    <2>2. conn.requested = None => ~joined
      BY <1>5, <2>1
    <2>3. QED
      BY <1>5, <1>6, <1>7, <2>2, ReplayDelivers
  <1>9. RingOf(x.hub, G) /\ x.from \in Nat /\ x.events \in Seq(G)
    BY <1>6 DEF Replays
  <1>10. /\ open \in ConnIn(G) /\ open.at = "open" /\ open.current = conn.current
        /\ open.lastSent = x.from /\ ~open.blocked /\ open.pending = <<>>
    BY <1>3, <1>9 DEF ConnIn, Unsent
  <1> HIDE DEF open
  <1>11. base \in LineIn(G) /\ base.conn = open /\ On(base) = {}
    <2>1. <<>> \in Seq(G)
      OBVIOUS
    <2>2. base \in LineIn(G) /\ base.conn = open
      BY <1>3, <1>10, <2>1 DEF LineIn
    <2>3. On(base) = {}
      BY <1>3, <1>10 DEF On, ToSet
    <2>4. QED
      BY <2>2, <2>3
  <1> HIDE DEF base
  <1>12. /\ line \in LineIn(G) /\ line.conn.at \in {"open", "none"}
         /\ line.conn.current = conn.current /\ CurrentAt(line.conn, x.hub.rev)
         /\ Brought(base, x.events, line)
    <2>1. CASE \E r \in Nat : /\ x.from \in {0, r} /\ Follow(x.events, r)
                              /\ r + Len(x.events) = x.hub.rev
      <3>1. PICK r \in Nat : /\ x.from \in {0, r} /\ Follow(x.events, r)
                             /\ r + Len(x.events) = x.hub.rev
        BY <2>1
      <3>2. CurrentAt(open, r)
        <4>1. Len(open.pending) = 0 /\ (open.lastSent > 0 => r = open.lastSent + 0)
          BY <1>9, <1>10, <3>1
        <4>2. QED
          BY <1>10, <4>1 DEF CurrentAt
      <3>3. CurrentAt(base.conn, r)
        BY <1>11, <3>2
      <3> DEFINE es == x.events
      <3>4. es \in Seq(G) /\ Follow(es, r)
        BY <1>9, <3>1
      <3> HIDE DEF es
      <3>5. /\ SendAll(base, es) \in LineIn(G) /\ SendAll(base, es).conn.at \in {base.conn.at, "none"}
            /\ SendAll(base, es).conn.current = base.conn.current
            /\ CurrentAt(SendAll(base, es).conn, r + Len(es))
            /\ Brought(base, es, SendAll(base, es))
        BY <1>7, <1>11, <3>3, <3>4, SendAllKeeps
      <3>6. QED
        BY <1>10, <1>11, <3>1, <3>5 DEF es
    <2>2. CASE \E e \in G : x.events = <<e>> /\ e.rev = x.hub.rev /\ e.rev > x.from
      <3>1. PICK e \in G : x.events = <<e>> /\ e.rev = x.hub.rev /\ e.rev > x.from
        BY <2>2
      <3>2. QED
        BY <1>7, <1>10, <1>11, <3>1, SendOne
    <2>3. QED
      BY <1>6, <2>1, <2>2 DEF Replays
  <1> HIDE DEF line
  <1>13. line.conn.at # "none" => StreamIs(x.hub, line.conn, line.wire, over)
    <2>1. line.conn \in ConnIn(G) /\ line.wire \in Seq(G)
      BY <1>12 DEF LineIn
    <2>2. QED
      BY <1>3, <1>9, <1>12, <2>1 DEF StreamIs, G
  <1>14. /\ StreamIs(hub', conn', wire', over) /\ PageFollows(page', conn', status[Watched])
         /\ PageIsAt(hub', Line', page'.accepted, joined')
    <2>1. RingOf(hub', TrueEvents(over))
      BY <1>1, <1>9 DEF G
    <2>2. joined' \in BOOLEAN /\ (joined' => page.accepted \in Nat /\ page.accepted <= hub'.rev)
      <3>1. hub'.rev \in Nat /\ hub.rev \in Nat /\ hub.rev <= hub'.rev
        BY <1>1, <1>3, <1>6, <1>9 DEF RingOf
      <3>2. QED
        BY <1>1, <1>5, <3>1
    <2>3. line.conn.at # "none" => /\ conn.at # "none" /\ StreamIs(hub', line.conn, line.wire, over)
                                   /\ PageIsAt(hub', line, page.accepted, joined')
      <3>1. line.conn.at = "open" => On(line) = ToSet(x.events)
        BY <1>11, <1>12 DEF Brought
      <3>2. line.conn.at # "none" => PageIsAt(hub', line, page.accepted, joined')
        BY <1>1, <1>8, <1>12, <2>2, <3>1 DEF PageIsAt
      <3>3. QED
        BY <1>1, <1>13, <3>2
    <2>4. QED
      BY <1>1, <1>2, <2>1, <2>2, <2>3, LinesKeep
  <1>15. QED
    BY <1>1, <1>14 DEF StepKeeps, EventsInv, over

LEMMA DrainEventKeeps == ASSUME EventsInv, DrainEvent PROVE StepKeeps
  <1> DEFINE over == status[Watched] \in Over
             G == TrueEvents(over)
             z == DrainedLine(conn)
  <1>1. /\ conn.at = "open" /\ conn.blocked /\ Lines(z)
        /\ status' = status /\ UNCHANGED <<hub, datas, hides, joined>> /\ wire = <<>>
    BY DEF DrainEvent, DrainedLine, sourceVars
  <1>2. over \in BOOLEAN /\ StreamIs(hub, conn, wire, over) /\ PageFollows(page, conn, status[Watched])
    BY DEF EventsInv
  <1> HIDE DEF over
  <1>3. G \subseteq RunEvent /\ RingOf(hub, G) /\ conn \in ConnIn(G) /\ CurrentAt(conn, hub.rev)
    BY <1>2 DEF StreamIs, TrueEvents
  <1> HIDE DEF G
  <1>4. /\ z \in LineIn(G) /\ z.conn.at = "open" /\ z.conn.current = conn.current
        /\ CurrentAt(z.conn, hub.rev) /\ OnlyOn(z, conn.pending)
    BY <1>1, <1>3, StreamDrains
  <1> HIDE DEF z
  <1>5. StreamIs(hub, z.conn, z.wire, over)
    <2>1. z.conn \in ConnIn(G) /\ z.wire \in Seq(G)
      BY <1>4 DEF LineIn
    <2>2. QED
      BY <1>1, <1>2, <1>3, <1>4, <2>1 DEF StreamIs, G
  <1>6. /\ StreamIs(hub', conn', wire', over) /\ PageFollows(page', conn', status[Watched])
        /\ PageIsAt(hub', Line', page'.accepted, joined')
    <2>1. RingOf(hub', TrueEvents(over))
      BY <1>1, <1>3 DEF G
    <2>2. conn.at # "none" /\ StreamIs(hub', z.conn, z.wire, over)
      BY <1>1, <1>5
    <2>3. PageIsAt(hub, Line, page.accepted, joined) /\ Line.conn = conn /\ OnlyOn(Line, conn.pending)
      BY <1>1 DEF EventsInv, Line, On, OnlyOn, ToSet
    <2>4. /\ joined' \in BOOLEAN /\ (joined' => page.accepted \in Nat /\ page.accepted <= hub'.rev)
          /\ PageIsAt(hub', z, page.accepted, joined')
      BY <1>1, <1>4, <2>3 DEF PageIsAt, OnlyOn
    <2>5. QED
      BY <1>1, <1>2, <2>1, <2>2, <2>4, LinesKeep
  <1>7. QED
    BY <1>1, <1>6 DEF StepKeeps, EventsInv, over

LEMMA NoStateRing == ASSUME NEW G PROVE RingOf(NoState, G)
  <1>1. <<>> \in Seq(G) /\ Len(<<>>) = 0
    OBVIOUS
  <1>2. QED
    BY <1>1, RunEventsAssumption DEF RingOf, NoState

LEMMA BrokenKeeps ==
    ASSUME EventsInv, SourceGoesOn, Lines(Broken), hub' \in {hub, NoState},
           joined' \in BOOLEAN, joined' => joined /\ hub' = hub
    PROVE  /\ StreamIs(hub', conn', wire', status'[Watched] \in Over)
           /\ PageFollows(page', conn', status'[Watched])
           /\ PageIsAt(hub', Line', page'.accepted, joined')
  <1> DEFINE over == status'[Watched] \in Over
  <1>1. over \in BOOLEAN /\ StreamIs(hub, conn, wire, over) /\ PageFollows(page, conn, status'[Watched])
    BY RunGoneOn
  <1> HIDE DEF over
  <1>2. RingOf(hub', TrueEvents(over))
    BY <1>1, NoStateRing DEF StreamIs
  <1>3. Broken.conn.at = "none"
    BY DEF Broken, NoConn
  <1>4. joined' => page.accepted \in Nat /\ page.accepted <= hub'.rev
    BY DEF EventsInv, PageIsAt
  <1>5. QED
    BY <1>1, <1>2, <1>3, <1>4, LinesKeep DEF over

LEMMA SourceStepKeeps ==
    ASSUME EventsInv, RunMoves \/ SessionStarts \/ DataPublished \/ EndPublished \/ EventServerRestart
    PROVE  StepKeeps
  <1>0. /\ status \in [Runs -> Statuses] /\ announced \in [Runs -> {"none"} \cup Over]
        /\ Watched \in Runs
    BY RunEventsAssumption DEF EventsInv
  <1>1. CASE RunMoves
    <2>1. UNCHANGED <<hub, conn, wire, page, datas, hides, joined>> /\ SourceGoesOn
      BY <1>1, RunGoesOn DEF RunMoves
    <2>2. PageIsAt(hub', Line', page'.accepted, joined')
      BY <2>1 DEF EventsInv, PageIsAt, Line, On
    <2>3. QED
      BY <2>1, <2>2, RunGoneOn DEF StepKeeps, EventsInv
  <1>2. CASE DataPublished \/ SessionStarts
    <2> DEFINE type == IF DataPublished THEN "patch" ELSE "snapshot"
               says == IF DataPublished THEN "none" ELSE "running"
    <2>1. /\ Published(Publish(hub, type, says)) /\ joined' = joined
          /\ UNCHANGED sourceVars /\ hides' = hides
          /\ datas' \in {datas, datas + 1} /\ (datas' = datas \/ datas < MaxData)
      BY <1>2 DEF DataPublished, SessionStarts, sourceVars
    <2>2. /\ SourceGoesOn /\ type \in {"snapshot", "patch", "terminal"} /\ type # "terminal"
          /\ says \in Statuses /\ says \notin Over
      BY <2>1, RunGoesOn DEF Statuses, Active, Over
    <2> HIDE DEF type, says
    <2>3. /\ StreamIs(hub', conn', wire', status'[Watched] \in Over)
          /\ PageFollows(page', conn', status'[Watched]) /\ PageIsAt(hub', Line', page'.accepted, joined')
      BY <2>1, <2>2, PublishedInv
    <2>4. datas' \in 0..MaxData /\ hides' \in 0..MaxHides
      BY <2>1, RunEventsAssumption DEF EventsInv
    <2>5. QED
      BY <2>3, <2>4 DEF StepKeeps
  <1>3. CASE EndPublished
    <2>1. /\ announced[Watched] = "none" /\ Published(Publish(hub, "terminal", announced'[Watched]))
          /\ UNCHANGED <<datas, hides, joined>>
          /\ End(Watched) \/ \E s \in Over : Announce(Watched, s)
      BY <1>3 DEF EndPublished
    <2>2. SourceGoesOn
      BY <2>1, RunGoesOn
    <2>3. announced'[Watched] \in Over /\ status'[Watched] \in Over
      <3>1. CASE End(Watched)
        <4>1. PICK s \in MayBecome(status[Watched]) \cap Over :
                 /\ status' = [status EXCEPT ![Watched] = s]
                 /\ announced' = [announced EXCEPT ![Watched] = IF @ = "none" THEN s ELSE @]
          BY <3>1 DEF End
        <4>2. QED
          BY <1>0, <2>1, <4>1
      <3>2. ASSUME NEW s \in Over, Announce(Watched, s)
            PROVE  announced'[Watched] \in Over /\ status'[Watched] \in Over
        <4>1. /\ status' = status /\ status[Watched] \in Over
              /\ announced' = [announced EXCEPT ![Watched] = s]
          BY <3>2 DEF Announce
        <4>2. QED
          BY <1>0, <4>1
      <3>3. QED
        BY <2>1, <3>1, <3>2
    <2> DEFINE says == announced'[Watched]
    <2> HIDE DEF says
    <2>4. says \in Over /\ says \in Statuses /\ Published(Publish(hub, "terminal", says))
      BY <2>1, <2>3 DEF says, Statuses
    <2>5. /\ StreamIs(hub', conn', wire', status'[Watched] \in Over)
          /\ PageFollows(page', conn', status'[Watched]) /\ PageIsAt(hub', Line', page'.accepted, joined')
      BY <2>1, <2>2, <2>3, <2>4, PublishedInv
    <2>6. QED
      BY <2>1, <2>5 DEF StepKeeps, EventsInv
  <1>4. CASE EventServerRestart
    <2>1. SourceGoesOn /\ hub' = NoState /\ Lines(Broken) /\ UNCHANGED <<datas, hides>> /\ joined' = FALSE
      BY <1>4, RunGoesOn DEF EventServerRestart
    <2>2. QED
      BY <2>1, BrokenKeeps DEF StepKeeps, EventsInv
  <1>5. QED
    BY <1>1, <1>2, <1>3, <1>4

LEMMA EvictedKeeps == ASSUME EventsInv, Evicted PROVE StepKeeps
  <1> DEFINE over == status[Watched] \in Over
             G == TrueEvents(over)
  <1>1. /\ conn.at # "open" /\ hub' = NoState /\ status' = status
        /\ UNCHANGED <<conn, wire, page, datas, hides>> /\ joined' = FALSE
    BY DEF Evicted, sourceVars
  <1>2. StreamIs(hub, conn, wire, over)
    BY DEF EventsInv
  <1> HIDE DEF over
  <1>3. RingOf(NoState, G) /\ CurrentAt(conn, NoState.rev)
    BY <1>1, NoStateRing DEF CurrentAt
  <1>4. StreamIs(hub', conn', wire', over)
    BY <1>1, <1>2, <1>3 DEF StreamIs
  <1>5. PageIsAt(hub', Line', page'.accepted, joined')
    BY <1>1 DEF EventsInv, PageIsAt, Line
  <1>6. QED
    BY <1>1, <1>4, <1>5 DEF StepKeeps, EventsInv, over

(* A page without a connection asks for one. *)
LEMMA AsksKeep ==
    ASSUME EventsInv, status' = status, UNCHANGED <<hub, wire, joined>>, page'.accepted = page.accepted,
           conn.at = "none", Connect(page.accepted)
    PROVE  /\ StreamIs(hub', conn', wire', status'[Watched] \in Over) /\ conn'.at = "asked"
           /\ PageIsAt(hub', Line', page'.accepted, joined')
  <1> DEFINE over == status[Watched] \in Over
             G == TrueEvents(over)
  <1>1. StreamIs(hub, conn, wire, over) /\ page \in PageIn
    BY DEF EventsInv, PageFollows
  <1> HIDE DEF over
  <1>2. conn' = [NoConn EXCEPT !.at = "asked", !.requested = page.accepted]
    BY DEF Connect
  <1>3. conn' \in ConnIn(G) /\ conn'.at = "asked" /\ conn'.current = "none" /\ Unsent(conn')
        /\ conn'.requested = page.accepted
    <2>1. <<>> \in Seq(G)
      OBVIOUS
    <2> HIDE DEF G
    <2>2. QED
      BY <1>1, <1>2, <2>1 DEF NoConn, ConnIn, Statuses, PageIn, Unsent
  <1>4. wire' = <<>>
    BY <1>1 DEF StreamIs
  <1>5. StreamIs(hub', conn', wire', over)
    BY <1>1, <1>3, <1>4 DEF StreamIs, CurrentAt, Over
  <1>6. PageIsAt(hub', Line', page'.accepted, joined')
    BY <1>3 DEF EventsInv, PageIsAt, Line
  <1>7. QED
    BY <1>3, <1>5, <1>6 DEF over

LEMMA PageStepKeeps == ASSUME EventsInv, OpenPage \/ Poll \/ HidePage \/ ShowPage PROVE StepKeeps
  <1>0. /\ status \in [Runs -> Statuses] /\ Watched \in Runs /\ page \in PageIn
        /\ page.mode = "stream" <=> conn.at # "none"
        /\ page.mode = "done" => status[Watched] \in Over /\ page.view \in Over
        /\ page.mode # "none" => status[Watched] # "none"
        /\ StreamIs(hub, conn, wire, status[Watched] \in Over)
        /\ PageIsAt(hub, Line, page.accepted, joined)
        /\ datas \in 0..MaxData /\ hides \in 0..MaxHides
    BY RunEventsAssumption DEF EventsInv, PageFollows
  <1>1. CASE OpenPage
    <2>1. /\ page.mode = "none" /\ status[Watched] \in Active /\ Connect(page.accepted)
          /\ page' = [page EXCEPT !.mode = "stream", !.view = status[Watched]]
          /\ status' = status /\ UNCHANGED <<hub, wire, datas, hides, joined>>
          /\ page'.accepted = page.accepted
      BY <1>0, <1>1 DEF OpenPage, sourceVars, PageIn
    <2>2. /\ StreamIs(hub', conn', wire', status'[Watched] \in Over) /\ conn'.at = "asked"
          /\ PageIsAt(hub', Line', page'.accepted, joined')
      BY <1>0, <2>1, AsksKeep
    <2>3. page' \in PageIn /\ page'.mode = "stream" /\ status[Watched] # "none"
      BY <1>0, <2>1 DEF PageIn, Statuses, Active
    <2>4. PageFollows(page', conn', status'[Watched])
      BY <2>1, <2>2, <2>3 DEF PageFollows
    <2>5. QED
      BY <1>0, <2>1, <2>2, <2>4 DEF StepKeeps
  <1>2. CASE ShowPage
    <2>1. /\ page.mode = "hidden" /\ Connect(page.accepted)
          /\ page' = [page EXCEPT !.mode = "stream"]
          /\ status' = status /\ UNCHANGED <<hub, wire, datas, hides, joined>>
          /\ page'.accepted = page.accepted
      BY <1>0, <1>2 DEF ShowPage, sourceVars, PageIn
    <2>2. /\ StreamIs(hub', conn', wire', status'[Watched] \in Over) /\ conn'.at = "asked"
          /\ PageIsAt(hub', Line', page'.accepted, joined')
      BY <1>0, <2>1, AsksKeep
    <2>3. page' \in PageIn /\ page'.mode = "stream" /\ status[Watched] # "none"
      BY <1>0, <2>1 DEF PageIn
    <2>4. PageFollows(page', conn', status'[Watched])
      BY <2>1, <2>2, <2>3 DEF PageFollows
    <2>5. QED
      BY <1>0, <2>1, <2>2, <2>4 DEF StepKeeps
  <1>3. CASE Poll
    <2>1. /\ page.mode = "poll" /\ status' = status /\ UNCHANGED <<hub, conn, wire, datas, hides, joined>>
          /\ page' = [page EXCEPT !.view = status[Watched],
                                  !.mode = IF status[Watched] \in Over THEN "done" ELSE @]
      BY <1>3 DEF Poll, sourceVars
    <2> DEFINE v == status[Watched]
               ended == v \in Over
               m == IF ended THEN "done" ELSE page.mode
    <2>2. /\ v \in Statuses /\ m \in {"poll", "done"} /\ (m = "done" <=> ended)
          /\ page' = [page EXCEPT !.view = v, !.mode = m]
      BY <1>0, <2>1
    <2>3. v # "none"
      BY <1>0, <2>1
    <2> HIDE DEF m, v
    <2>4. /\ page' \in PageIn /\ page'.view = v /\ page'.mode = m
          /\ page'.accepted = page.accepted
      BY <1>0, <2>2 DEF PageIn, Statuses
    <2>5. conn.at = "none" /\ (m = "done" => v \in Over) /\ m # "stream"
      BY <1>0, <2>1, <2>2
    <2>6. conn' = conn /\ status'[Watched] = v
      BY <2>1 DEF v
    <2>7. PageFollows(page', conn', status'[Watched])
      BY <2>3, <2>4, <2>5, <2>6 DEF PageFollows
    <2>8. /\ Line' = Line /\ hub' = hub /\ joined' = joined /\ wire' = wire
      BY <2>1 DEF Line
    <2>9. PageIsAt(hub', Line', page'.accepted, joined')
      BY <1>0, <2>4, <2>8
    <2>10. StreamIs(hub', conn', wire', status'[Watched] \in Over)
      BY <1>0, <2>1
    <2>11. QED
      BY <1>0, <2>1, <2>7, <2>9, <2>10 DEF StepKeeps
  <1>4. CASE HidePage
    <2>1. /\ page.mode \in {"stream", "poll"} /\ hides < MaxHides /\ hides' = hides + 1
          /\ page' = [page EXCEPT !.mode = "hidden"] /\ conn' = NoConn /\ wire' = <<>>
          /\ status' = status /\ UNCHANGED <<hub, datas, joined>>
      BY <1>4 DEF HidePage, sourceVars
    <2>2. page' \in PageIn /\ page'.mode = "hidden" /\ NoConn.at = "none" /\ page'.accepted = page.accepted
      BY <1>0, <2>1 DEF PageIn, NoConn
    <2>3. PageFollows(page', conn', status'[Watched])
      BY <1>0, <2>1, <2>2 DEF PageFollows
    <2> DEFINE over == status[Watched] \in Over
    <2>4. over \in BOOLEAN /\ RingOf(hub, TrueEvents(over))
      BY <1>0 DEF StreamIs
    <2> HIDE DEF over
    <2>5. StreamIs(hub, NoConn, <<>>, over)
      BY <2>4, NoConnection
    <2>6. hides' \in 0..MaxHides
      BY <1>0, <2>1, RunEventsAssumption
    <2>7. PageIsAt(hub', Line', page'.accepted, joined')
      BY <1>0, <2>1, <2>2 DEF PageIsAt, Line
    <2>8. QED
      BY <1>0, <2>1, <2>3, <2>5, <2>6, <2>7 DEF StepKeeps, over
  <1>5. QED
    BY <1>1, <1>2, <1>3, <1>4

(* A page that accepts an event is owed what it was, less the event.        *)
LEMMA OwedLess ==
    ASSUME NEW C, C \subseteq RunEvent, NEW D, D \subseteq C, NEW e \in C, C \subseteq D \cup {e},
           NEW h, h.rev \in Nat, NEW a \in Nat \cup {None}, NEW b \in Nat \cup {None}, NEW on \in BOOLEAN,
           Delivers(h, C, a, on), e.rev <= b, a <= b
    PROVE  Delivers(h, D, b, on \/ (e.says # "none" /\ e.rev > a))
  <1>1. \A x \in C : x.rev \in Nat /\ x.rev <= h.rev
    BY DEF Delivers, RunEvent
  <1>2. a \in Int /\ b \in Int
    BY DEF None
  <1>3. ASSUME on \/ (e.says # "none" /\ e.rev > a) \/ \E x \in D : x.says # "none" /\ x.rev > b,
               NEW m \in 1..h.rev, m > b
        PROVE  \E x \in D : x.rev = m \/ (x.rev > m /\ x.says # "none")
    <2>1. on \/ \E x \in C : x.says # "none" /\ x.rev > a
      <3>1. CASE \E x \in D : x.says # "none" /\ x.rev > b
        <4>1. PICK x \in D : x.says # "none" /\ x.rev > b
          BY <3>1
        <4>2. x \in C /\ x.rev \in Nat
          BY <1>1
        <4>3. x.rev > a
          BY <1>2, <4>1, <4>2
        <4>4. QED
          BY <4>1, <4>2, <4>3
      <3>2. QED
        BY <1>3, <3>1
    <2>2. m > a
      BY <1>2, <1>3
    <2>3. PICK x \in C : x.rev = m \/ (x.rev > m /\ x.says # "none")
      BY <2>1, <2>2 DEF Delivers, Covers
    <2>4. x # e
      BY <1>1, <1>2, <1>3, <2>3
    <2>5. QED
      BY <2>3, <2>4
  <1>4. QED
    BY <1>1, <1>3 DEF Delivers, Covers

LEMMA ReceivedKeeps == ASSUME EventsInv, Received PROVE StepKeeps
  <1> DEFINE over == status[Watched] \in Over
             G == TrueEvents(over)
             e == Head(wire)
             ends == e.type = "terminal" \/ e.says \in Over
             view == IF e.says = "none" THEN page.view ELSE e.says
             a == page.accepted
             rest == [conn |-> conn, wire |-> Tail(wire)]
  <1>1. wire # <<>> /\ status' = status /\ UNCHANGED <<hub, datas, hides>>
    BY DEF Received, sourceVars
  <1>2. /\ over \in BOOLEAN /\ StreamIs(hub, conn, wire, over) /\ PageFollows(page, conn, status[Watched])
        /\ PageIsAt(hub, Line, a, joined)
        /\ datas \in 0..MaxData /\ hides \in 0..MaxHides
    BY DEF EventsInv
  <1>3. \/ /\ wire' = Tail(wire) /\ conn' = conn /\ page' = page /\ joined' = joined
           /\ e.rev <= a
        \/ /\ ~(e.rev <= a)
           /\ page' = [mode |-> IF ends THEN "done" ELSE page.mode, accepted |-> e.rev, view |-> view]
           /\ conn' = IF ends THEN NoConn ELSE conn
           /\ wire' = IF ends THEN <<>> ELSE Tail(wire)
           /\ joined' = (joined \/ e.says # "none")
    BY DEF Received
  <1>4. /\ e \in G /\ Tail(wire) \in Seq(G) /\ RingOf(hub, G) /\ conn.at = "open"
        /\ ToSet(wire) = ToSet(Tail(wire)) \cup {e}
    <2>1. wire \in Seq(G) /\ RingOf(hub, G) /\ conn.at = "open"
      BY <1>1, <1>2 DEF StreamIs
    <2> HIDE DEF G
    <2>2. e \in G /\ Tail(wire) \in Seq(G)
      BY <1>1, <2>1
    <2>3. ToSet(wire) = ToSet(Tail(wire)) \cup {e}
      <3> DEFINE n == Len(wire)
                 w == Tail(wire)
      <3>1. /\ n \in Nat /\ n # 0 /\ DOMAIN wire = 1..n /\ DOMAIN w = 1..n - 1
            /\ \A i \in 1..n - 1 : w[i] = wire[i + 1]
        BY <1>1, <2>1, HeadTailProperties
      <3>2. e = wire[1]
        BY <1>1, <2>1
      <3> HIDE DEF n, w, e
      <3>3. \A i \in 1..n : i = 1 \/ (i - 1 \in 1..n - 1 /\ (i - 1) + 1 = i)
        BY <3>1
      <3>4. \A i \in 1..n : wire[i] = e \/ \E k \in 1..n - 1 : w[k] = wire[i]
        BY <3>1, <3>2, <3>3
      <3>5. \A k \in 1..n - 1 : k + 1 \in 1..n
        BY <3>1
      <3>6. 1 \in 1..n
        BY <3>1
      <3>7. ToSet(wire) = {wire[i] : i \in 1..n} /\ ToSet(w) = {w[i] : i \in 1..n - 1}
        BY <3>1 DEF ToSet
      <3>8. ASSUME NEW x PROVE x \in ToSet(wire) <=> x \in ToSet(w) \cup {e}
        <4>1. ASSUME NEW i \in 1..n, x = wire[i] PROVE x = e \/ \E k \in 1..n - 1 : x = w[k]
          BY <3>4, <4>1
        <4>2. ASSUME NEW k \in 1..n - 1, x = w[k] PROVE \E i \in 1..n : x = wire[i]
          BY <3>1, <3>5, <4>2
        <4>3. \E i \in 1..n : e = wire[i]
          BY <3>2, <3>6
        <4>4. QED
          BY <3>7, <4>1, <4>2, <4>3
      <3>9. ToSet(wire) = ToSet(w) \cup {e}
        BY <3>8
      <3>10. QED
        BY <3>9 DEF w
    <2>4. QED
      BY <2>1, <2>2, <2>3
  <1>5. /\ e.rev \in Nat /\ e.says \in Statuses
        /\ e.type = "terminal" => e.says \in Over
        /\ e.says \in Over => over
    BY <1>4 DEF TrueEvents, RunEvent, Statuses
  <1>6. over <=> status[Watched] \in Over
    OBVIOUS
  <1>7. G \subseteq RunEvent /\ conn \in ConnIn(G) /\ wire \in Seq(G)
    BY <1>2 DEF StreamIs, TrueEvents
  <1> HIDE DEF over, G, e
  <1>8. StreamIs(hub, conn, Tail(wire), over) /\ StreamIs(hub, NoConn, <<>>, over)
    <2>1. StreamIs(hub, conn, Tail(wire), over)
      BY <1>2, <1>4 DEF StreamIs, G
    <2>2. RingOf(hub, TrueEvents(over))
      BY <1>4 DEF G
    <2>3. QED
      BY <1>2, <2>1, <2>2, NoConnection
  <1>9. /\ hub.rev \in Nat /\ a \in Nat \cup {None} /\ joined \in BOOLEAN
        /\ joined => a \in Nat /\ a <= hub.rev
        /\ Delivers(hub, On(Line), a, joined) /\ e.rev <= hub.rev
    <2>1. hub.rev \in Nat /\ a \in Nat \cup {None}
      BY <1>2, <1>4 DEF RingOf, PageFollows, PageIn
    <2>2. joined \in BOOLEAN /\ (joined => a \in Nat /\ a <= hub.rev) /\ Delivers(hub, On(Line), a, joined)
      BY <1>2, <1>4 DEF PageIsAt, Line
    <2>3. e \in On(Line)
      BY <1>4 DEF On, Line
    <2>4. QED
      BY <2>1, <2>2, <2>3 DEF Delivers
  <1>10. ASSUME NEW b \in Nat \cup {None}, e.rev <= b, a <= b
         PROVE  Delivers(hub, On(rest), b, joined \/ (e.says # "none" /\ e.rev > a))
    <2> DEFINE C == On(Line)
               D == On(rest)
    <2>1. C = D \cup {e}
      BY <1>4 DEF On, Line
    <2>2. C \subseteq RunEvent
      <3>1. Line \in LineIn(G)
        BY <1>7 DEF Line, LineIn
      <3>2. QED
        BY <1>7, <3>1, OnIn
    <2> HIDE DEF C, D, a
    <2>3. D \subseteq C /\ e \in C /\ C \subseteq D \cup {e}
      BY <2>1
    <2>4. Delivers(hub, C, a, joined)
      BY <1>9 DEF C
    <2>5. Delivers(hub, D, b, joined \/ (e.says # "none" /\ e.rev > a))
      BY <1>9, <1>10, <2>2, <2>3, <2>4, OwedLess
    <2>6. QED
      BY <2>5 DEF D, a
  <1> HIDE DEF ends, view, rest
  <1>11. rest.conn = conn /\ rest.wire = Tail(wire)
    BY DEF rest
  <1>12. CASE /\ wire' = Tail(wire) /\ conn' = conn /\ page' = page /\ joined' = joined
              /\ e.rev <= a
    <2>1. a <= a /\ ~(e.rev > a)
      BY <1>5, <1>9, <1>12 DEF None
    <2>2. Delivers(hub, On(rest), a, joined)
      BY <1>9, <1>10, <1>12, <2>1
    <2>3. PageIsAt(hub', Line', page'.accepted, joined')
      <3>1. Line'.conn = conn /\ On(Line') = On(rest)
        BY <1>11, <1>12 DEF Line, On
      <3>2. QED
        BY <1>1, <1>4, <1>9, <1>12, <2>2, <3>1 DEF PageIsAt
    <2>4. QED
      BY <1>1, <1>2, <1>8, <1>12, <2>3 DEF StepKeeps, over
  <1>13. CASE /\ ~ends /\ page' = [mode |-> page.mode, accepted |-> e.rev, view |-> view]
              /\ conn' = conn /\ wire' = Tail(wire)
              /\ ~(e.rev <= a) /\ joined' = (joined \/ e.says # "none")
    <2>1. page' \in PageIn /\ page'.mode = page.mode /\ page.mode = "stream" /\ page'.accepted = e.rev
      BY <1>2, <1>4, <1>5, <1>13 DEF PageFollows, PageIn, Statuses, view
    <2>2. PageFollows(page', conn', status[Watched])
      BY <1>2, <1>13, <2>1 DEF PageFollows
    <2>3. a <= e.rev /\ e.rev > a /\ e.rev <= e.rev
      BY <1>5, <1>9, <1>13 DEF None
    <2>4. Delivers(hub, On(rest), e.rev, joined')
      <3>1. Delivers(hub, On(rest), e.rev, joined \/ (e.says # "none" /\ e.rev > a))
        BY <1>5, <1>10, <2>3
      <3>2. (joined \/ (e.says # "none" /\ e.rev > a)) = joined'
        BY <1>9, <1>13, <2>3
      <3>3. QED
        BY <3>1, <3>2
    <2>5. PageIsAt(hub', Line', page'.accepted, joined')
      <3>1. Line'.conn = conn /\ On(Line') = On(rest)
        BY <1>11, <1>13 DEF Line, On
      <3>2. joined' \in BOOLEAN
        BY <1>9, <1>13
      <3>3. QED
        BY <1>1, <1>4, <1>5, <1>9, <2>1, <2>4, <3>1, <3>2 DEF PageIsAt
    <2>6. QED
      BY <1>1, <1>2, <1>8, <1>13, <2>2, <2>5 DEF StepKeeps, over
  <1>14. CASE /\ ends /\ page' = [mode |-> "done", accepted |-> e.rev, view |-> view]
              /\ conn' = NoConn /\ wire' = <<>> /\ joined' = (joined \/ e.says # "none")
    <2>1. e.says \in Over /\ status[Watched] \in Over /\ view = e.says
      BY <1>5, <1>6, <1>14 DEF ends, view, Over
    <2>2. page' \in PageIn /\ page'.mode = "done" /\ page'.view \in Over /\ page.mode = "stream"
          /\ page'.accepted = e.rev
      BY <1>2, <1>4, <1>5, <1>14, <2>1 DEF PageFollows, PageIn, Statuses
    <2>3. PageFollows(page', conn', status[Watched])
      BY <1>2, <1>14, <2>1, <2>2 DEF PageFollows, NoConn
    <2>4. PageIsAt(hub', Line', page'.accepted, joined')
      <3>1. Line'.conn.at = "none"
        BY <1>14 DEF Line, NoConn
      <3>2. joined' \in BOOLEAN
        BY <1>9, <1>14
      <3>3. QED
        BY <1>1, <1>5, <1>9, <2>2, <3>1, <3>2 DEF PageIsAt
    <2>5. QED
      BY <1>1, <1>2, <1>8, <1>14, <2>3, <2>4 DEF StepKeeps, over
  <1>15. QED
    BY <1>3, <1>12, <1>13, <1>14

LEMMA StreamFailsKeeps == ASSUME EventsInv, StreamFails PROVE StepKeeps
  <1>1. /\ SourceGoesOn /\ Lines(Broken) /\ hub' = hub
        /\ UNCHANGED <<datas, hides, joined>>
    BY RunGoesOn DEF StreamFails
  <1>2. joined' \in BOOLEAN
    BY <1>1 DEF EventsInv, PageIsAt
  <1>3. QED
    BY <1>1, <1>2, BrokenKeeps DEF StepKeeps, EventsInv

LEMMA EventsInitInv == ASSUME EventsInit PROVE EventsInv
  <1>1. /\ status = [r \in Runs |-> "none"] /\ announced = [r \in Runs |-> "none"]
        /\ hub = NoState /\ conn = NoConn /\ wire = <<>>
        /\ page = [mode |-> "none", accepted |-> None, view |-> "none"]
        /\ datas = 0 /\ hides = 0 /\ session = "none" /\ joined = FALSE /\ Watched \in Runs
    BY RunEventsAssumption DEF EventsInit, SourceInit
  <1>2. /\ status \in [Runs -> Statuses] /\ announced \in [Runs -> {"none"} \cup Over]
        /\ status[Watched] = "none"
    BY <1>1 DEF Statuses
  <1> DEFINE over == status[Watched] \in Over
  <1>3. over \in BOOLEAN
    OBVIOUS
  <1> HIDE DEF over
  <1>4. StreamIs(NoState, NoConn, <<>>, over)
    BY <1>3, NoStateRing, NoConnection
  <1>5. PageFollows(page, conn, status[Watched])
    BY <1>1, <1>2 DEF PageFollows, PageIn, Statuses, NoConn
  <1>6. datas \in 0..MaxData /\ hides \in 0..MaxHides
    BY <1>1, RunEventsAssumption
  <1>7. PageIsAt(hub, Line, page.accepted, joined)
    BY <1>1 DEF PageIsAt, Line, NoConn
  <1>8. QED
    BY <1>1, <1>2, <1>4, <1>5, <1>6, <1>7 DEF EventsInv, over

LEMMA EventsNextInv == ASSUME EventsInv, [EventsNext]_eventVars PROVE EventsInv'
  <1>1. CASE UNCHANGED eventVars
    BY <1>1 DEF eventVars, sourceVars, EventsInv, Line
  <1>2. CASE EventsNext
    <2>1. SourceGoesOn
      <3>1. CASE RunMoves \/ EndPublished \/ EventServerRestart
        BY <3>1, RunGoesOn DEF RunMoves, EndPublished, EventServerRestart
      <3>2. CASE \/ ReadRun \/ Subscribe \/ DrainEvent \/ SessionStarts \/ DataPublished \/ Evicted \/ OpenPage
                 \/ Received \/ StreamFails \/ Poll \/ HidePage \/ ShowPage
        <4>1. UNCHANGED sourceVars
          BY <3>2 DEF ReadRun, Subscribe, DrainEvent, SessionStarts, DataPublished, Evicted, OpenPage, Received,
                      StreamFails, Poll, HidePage, ShowPage, sourceVars
        <4>2. QED
          BY <4>1, RunGoesOn
      <3>3. QED
        BY <1>2, <3>1, <3>2 DEF EventsNext
    <2>2. StepKeeps
      <3>1. CASE ReadRun \/ Subscribe \/ DrainEvent
        BY <3>1, ReadRunKeeps, SubscribeKeeps, DrainEventKeeps
      <3>2. CASE RunMoves \/ SessionStarts \/ DataPublished \/ EndPublished \/ EventServerRestart
        BY <3>2, SourceStepKeeps
      <3>3. CASE Evicted \/ Received \/ StreamFails
        BY <3>3, EvictedKeeps, ReceivedKeeps, StreamFailsKeeps
      <3>4. CASE OpenPage \/ Poll \/ HidePage \/ ShowPage
        BY <3>4, PageStepKeeps
      <3>5. QED
        BY <1>2, <3>1, <3>2, <3>3, <3>4 DEF EventsNext
    <2>3. session' \in {"none", "live", "gone"}
      <3>1. session \in {"none", "live", "gone"}
        BY DEF EventsInv
      <3>2. CASE SessionStarts \/ EventServerRestart
        BY <3>1, <3>2 DEF SessionStarts, EventServerRestart
      <3>3. CASE ~(SessionStarts \/ EventServerRestart)
        <4>1. session' = session
          BY <1>2, <3>3 DEF EventsNext, ReadRun, Subscribe, DrainEvent, RunMoves, DataPublished, EndPublished,
                            Evicted, OpenPage, Received, StreamFails, Poll, HidePage, ShowPage
        <4>2. QED
          BY <3>1, <4>1
      <3>4. QED
        BY <3>2, <3>3
    <2>4. QED
      BY <2>1, <2>2, <2>3 DEF StepKeeps, SourceGoesOn, EventsInv
  <1>3. QED
    BY <1>1, <1>2

LEMMA StreamFollowsHub == EventsInv => OpenStreamIsCurrent
  <1> SUFFICES ASSUME EventsInv, conn.at = "open", OnTheHub
               PROVE  Covers(Coming, page.accepted, hub.rev)
    BY DEF OpenStreamIsCurrent, Covers
  <1>1. PageIsAt(hub, Line, page.accepted, joined) /\ Line.conn = conn /\ On(Line) = Coming
    BY DEF EventsInv, Line, On, Coming
  <1>2. Delivers(hub, Coming, page.accepted, joined)
    BY <1>1 DEF PageIsAt
  <1>3. QED
    BY <1>2 DEF Delivers, OnTheHub

(* A page at the hub's revisions is owed nothing: whatever the hub has      *)
(* published since the event it accepted last is on its stream, or a later  *)
(* state is; for any size of the ring, of the pending list and of the       *)
(* buffer of the response, over replays, gaps, breaks and reconnections.    *)
(* After an eviction or a restart it holds from the first state that the    *)
(* page is sent of the hub that follows.                                    *)
THEOREM StreamsAreCurrent == EventsSpec => []OpenStreamIsCurrent
  BY StreamFollowsHub, EventsInitInv, EventsNextInv, PTL DEF EventsSpec

LEMMA PageKnowsEnd == EventsInv => PageStopsOnlyAtEnd
  BY DEF EventsInv, PageFollows, PageStopsOnlyAtEnd

(* Whatever the page is told, late, twice or not at all, it stops following *)
(* the run only when the run is over.                                       *)
THEOREM PageFollowsToTheEnd == EventsSpec => []PageStopsOnlyAtEnd
  BY PageKnowsEnd, EventsInitInv, EventsNextInv, PTL DEF EventsSpec

-----------------------------------------------------------------------------
(* MarketEvents: the queue of market events                                 *)

Pushed ==
    [kind : {"direct", "disconnect"}] \cup [kind : Quotes, at : Levels]
        \cup [kind : {"trade"}, at : Levels, fill : FillKeys \cup {0}]
MarketToken == [kind : {"direct", "trade"} \cup Quotes, id : Nat, seg : Nat]

(* The barriers of a history, and two events of a kind between the same     *)
(* two barriers                                                             *)
BarrierAt(H, i) ==
    \/ H[i].kind \in {"direct", "disconnect"}
    \/ /\ H[i].kind = "trade" /\ H[i].fill # 0
       /\ ~\E j \in 1..i - 1 :
             /\ H[j].kind = "trade" /\ H[j].fill = H[i].fill
             /\ \A k \in j + 1..i - 1 : H[k].kind = "trade" => H[k].fill \in {0, H[i].fill}

Alike(H, i, j) ==
    (\A b \in DOMAIN H : BarrierAt(H, b) => (b <= i <=> b <= j)) /\ H[j].kind = H[i].kind

LastBarrier(H, i) == \A b \in DOMAIN H : BarrierAt(H, b) => b <= i

(* What is delivered later is not from before a barrier that the other one  *)
(* is not from before.                                                      *)
InTime(H, i, j) == \A b \in DOMAIN H : BarrierAt(H, b) => ~(j < b /\ b <= i)

(* What the outputs X keep of the event i                                   *)
NewerQuote(H, i, j) == H[j].at > H[i].at \/ (H[j].at = H[i].at /\ j >= i)

KeptOne(X, H, i) ==
    IF H[i].kind \in Quotes THEN \E j \in X : Alike(H, i, j) /\ NewerQuote(H, i, j)
    ELSE IF H[i].kind = "trade"
    THEN /\ BarrierAt(H, i) => i \in X
         /\ \E j \in X : Alike(H, i, j) /\ H[j].at <= H[i].at
         /\ \E j \in X : Alike(H, i, j) /\ H[j].at >= H[i].at
         /\ \E j \in X : Alike(H, i, j) /\ j <= i
         /\ \E j \in X : Alike(H, i, j) /\ j >= i
         /\ H[i].fill # 0 => \E j \in X : Alike(H, i, j) /\ j <= i /\ H[j].fill # 0
    ELSE i \in X

(* The event of a token, with the map c; a token of the segment s is of an  *)
(* event after the last barrier.                                            *)
OutOf(t, c) == IF t.id # 0 THEN t.id ELSE c[<<t.kind, t.seg>>]

TokenIn(t, c, H, s) ==
    /\ t.seg <= s
    /\ OutOf(t, c) \in DOMAIN H
    /\ t.kind = "direct" => t.id # 0
    /\ t.kind = "trade" => t.id # 0 /\ H[t.id].kind = "trade"
    /\ t.kind \in Quotes =>
         t.id = 0 /\ <<t.kind, t.seg>> \in DOMAIN c /\ H[c[<<t.kind, t.seg>>]].kind = t.kind
    /\ t.kind # "direct" /\ t.seg = s => LastBarrier(H, OutOf(t, c))

Tokens(ev, c, H, s) ==
    /\ ev \in Seq(MarketToken) /\ Len(ev) <= QueueDepth
    /\ \A i \in DOMAIN ev : TokenIn(ev[i], c, H, s)
    /\ \A i, j \in DOMAIN ev : ev[i].id = 0 /\ ev[i] = ev[j] => i = j
    /\ \A key \in DOMAIN c : /\ key \in Quotes \X Nat /\ c[key] \in DOMAIN H
                             /\ \E i \in DOMAIN ev : ev[i] = QuoteToken(key[1], key[2])

Outs(ev, c, d) == ToSet(d) \cup {OutOf(ev[i], c) : i \in DOMAIN ev}

OutsInTime(ev, c, d, H) ==
    /\ \A i, j \in DOMAIN d : i < j => InTime(H, d[i], d[j])
    /\ \A i \in DOMAIN d, j \in DOMAIN ev : InTime(H, d[i], OutOf(ev[j], c))
    /\ \A i, j \in DOMAIN ev : i < j => InTime(H, OutOf(ev[i], c), OutOf(ev[j], c))

OutsKeep(ev, c, d, H, f) == \A i \in DOMAIN H : i > f => KeptOne(Outs(ev, c, d), H, i)

(* The key is that of the last trade that may fill a decision.              *)
LastFill(H, key) ==
    key # 0 => \E j \in DOMAIN H :
                  /\ H[j].kind = "trade" /\ H[j].fill = key
                  /\ \A k \in j + 1..Len(H) : H[k].kind = "trade" => H[k].fill \in {0, key}

(* The queue as its tokens ev, its map c, the history H of what was pushed, *)
(* the segment s, and d, what was delivered; after f nothing has failed.    *)
QueueIs(ev, c, H, s, d, f) ==
    /\ Tokens(ev, c, H, s)
    /\ d \in Seq(DOMAIN H)
    /\ OutsInTime(ev, c, d, H)
    /\ OutsKeep(ev, c, d, H, f)

MarketInv ==
    /\ pushed \in Seq(Pushed) /\ Len(pushed) <= MaxPushes + 1
    /\ waiter \in BOOLEAN /\ (waiter => events = <<>>)
    /\ segment \in Nat /\ fillKey \in FillKeys \cup {0} /\ LastFill(pushed, fillKey)
    /\ lastFail \in 0..Len(pushed)
    /\ QueueIs(events, coalesced, pushed, segment, delivered, lastFail)

-----------------------------------------------------------------------------
(* An event more: what held of the earlier ones still holds.                *)

LEMMA OneMore ==
    ASSUME NEW H \in Seq(Pushed), NEW e \in Pushed
    PROVE  LET K == Append(H, e)
           IN /\ K \in Seq(Pushed) /\ Len(K) = Len(H) + 1 /\ Len(H) \in Nat
              /\ DOMAIN H = 1..Len(H) /\ DOMAIN K = 1..Len(H) + 1
              /\ K[Len(H) + 1] = e
              /\ \A i \in 1..Len(H) : K[i] = H[i] /\ H[i] \in Pushed
  OBVIOUS

LEMMA BarriersKept ==
    ASSUME NEW H \in Seq(Pushed), NEW e \in Pushed, NEW i \in DOMAIN H
    PROVE  BarrierAt(Append(H, e), i) <=> BarrierAt(H, i)
  <1> DEFINE K == Append(H, e)
             n == Len(H)
  <1>1. /\ n \in Nat /\ DOMAIN H = 1..n /\ i \in 1..n
        /\ \A j \in 1..n : K[j] = H[j]
    BY OneMore
  <1> HIDE DEF K, n
  <1>2. \A j \in 1..i - 1 : j \in 1..n /\ \A k \in j + 1..i - 1 : k \in 1..n
    BY <1>1
  <1>3. QED
    BY <1>1, <1>2 DEF BarrierAt, K

LEMMA AlikeKept ==
    ASSUME NEW H \in Seq(Pushed), NEW e \in Pushed, NEW i \in DOMAIN H, NEW j \in DOMAIN H, Alike(H, i, j)
    PROVE  Alike(Append(H, e), i, j)
  <1> DEFINE K == Append(H, e)
             n == Len(H)
  <1>1. /\ n \in Nat /\ DOMAIN H = 1..n /\ DOMAIN K = 1..n + 1
        /\ \A l \in 1..n : K[l] = H[l]
    BY OneMore
  <1>2. \A b \in 1..n : BarrierAt(K, b) <=> BarrierAt(H, b)
    BY <1>1, BarriersKept
  <1> HIDE DEF K, n
  <1>3. ASSUME NEW b \in 1..n + 1, BarrierAt(K, b) PROVE b <= i <=> b <= j
    <2>1. CASE b = n + 1
      BY <1>1, <2>1
    <2>2. CASE b # n + 1
      <3>1. b \in 1..n
        BY <1>1, <2>2
      <3>2. QED
        BY <1>1, <1>2, <1>3, <3>1 DEF Alike
    <2>3. QED
      BY <2>1, <2>2
  <1>4. QED
    BY <1>1, <1>3 DEF Alike, K

LEMMA InTimeKept ==
    ASSUME NEW H \in Seq(Pushed), NEW e \in Pushed, NEW i \in DOMAIN H
    PROVE  /\ \A j \in DOMAIN H : InTime(H, i, j) => InTime(Append(H, e), i, j)
           /\ InTime(Append(H, e), i, Len(H) + 1)
  <1> DEFINE K == Append(H, e)
             n == Len(H)
  <1>1. n \in Nat /\ DOMAIN H = 1..n /\ DOMAIN K = 1..n + 1
    BY OneMore
  <1>2. \A b \in 1..n : BarrierAt(K, b) <=> BarrierAt(H, b)
    BY <1>1, BarriersKept
  <1> HIDE DEF K, n
  <1>3. ASSUME NEW j \in DOMAIN H, InTime(H, i, j), NEW b \in 1..n + 1, BarrierAt(K, b)
        PROVE  ~(j < b /\ b <= i)
    <2>1. CASE b = n + 1
      BY <1>1, <2>1
    <2>2. CASE b # n + 1
      <3>1. b \in 1..n
        BY <1>1, <2>2
      <3>2. QED
        BY <1>1, <1>2, <1>3, <3>1 DEF InTime
    <2>3. QED
      BY <2>1, <2>2
  <1>4. \A b \in 1..n + 1 : ~(n + 1 < b)
    BY <1>1
  <1>5. QED
    BY <1>1, <1>3, <1>4 DEF InTime, K, n

LEMMA KeptGrows ==
    ASSUME NEW H \in Seq(Pushed), NEW e \in Pushed, NEW X, X \subseteq DOMAIN H,
           NEW i \in DOMAIN H, KeptOne(X, H, i)
    PROVE  KeptOne(X, Append(H, e), i)
  <1> DEFINE K == Append(H, e)
  <1>1. \A l \in DOMAIN H : K[l] = H[l]
    BY OneMore
  <1>2. \A j \in X : Alike(H, i, j) => Alike(K, i, j)
    BY AlikeKept
  <1>3. BarrierAt(K, i) <=> BarrierAt(H, i)
    BY BarriersKept
  <1> HIDE DEF K
  <1>4. \A j \in X : K[j] = H[j] /\ K[i] = H[i]
    BY <1>1
  <1>5. QED
    BY <1>1, <1>2, <1>3, <1>4 DEF KeptOne, NewerQuote, K

LEMMA KeptItself ==
    ASSUME NEW H \in Seq(Pushed), NEW i \in DOMAIN H, NEW X, i \in X
    PROVE  KeptOne(X, H, i)
  <1>1. H[i] \in Pushed /\ i \in Nat
    OBVIOUS
  <1>2. Alike(H, i, i)
    BY DEF Alike
  <1>3. CASE H[i].kind \in Quotes \/ H[i].kind = "trade"
    <2>1. H[i].at \in Nat
      BY <1>1, <1>3, MarketEventsAssumption DEF Pushed
    <2>2. H[i].at <= H[i].at /\ H[i].at >= H[i].at /\ i <= i /\ i >= i
      BY <1>1, <2>1
    <2>3. QED
      BY <1>2, <2>2 DEF KeptOne, NewerQuote
  <1>4. CASE ~(H[i].kind \in Quotes \/ H[i].kind = "trade")
    BY <1>4 DEF KeptOne
  <1>5. QED
    BY <1>3, <1>4

(* What is kept of what keeps an event keeps the event.                     *)
LEMMA KeptThrough ==
    ASSUME NEW H \in Seq(Pushed), NEW X, X \subseteq DOMAIN H, NEW Y, Y \subseteq DOMAIN H,
           \A x \in X : KeptOne(Y, H, x),
           NEW i \in DOMAIN H, KeptOne(X, H, i)
    PROVE  KeptOne(Y, H, i)
  <1>1. \A j \in DOMAIN H : H[j] \in Pushed /\ j \in Nat
    OBVIOUS
  <1>2. \A j \in DOMAIN H : H[j].kind \in Quotes \/ H[j].kind = "trade" => H[j].at \in Nat
    BY <1>1, MarketEventsAssumption DEF Pushed
  <1>3. \A j, k : Alike(H, i, j) /\ Alike(H, j, k) => Alike(H, i, k)
    BY DEF Alike
  <1>4. \A j : Alike(H, i, j) => H[j].kind = H[i].kind
    BY DEF Alike
  <1>5. CASE H[i].kind \in Quotes
    <2>1. PICK j \in X : Alike(H, i, j) /\ NewerQuote(H, i, j)
      BY <1>5 DEF KeptOne
    <2>2. PICK k \in Y : Alike(H, j, k) /\ NewerQuote(H, j, k)
      BY <1>4, <1>5, <2>1 DEF KeptOne
    <2>3. /\ H[i].at \in Nat /\ H[j].at \in Nat /\ H[k].at \in Nat
          /\ i \in Nat /\ j \in Nat /\ k \in Nat
      BY <1>1, <1>2, <1>5, <2>1, <2>2 DEF Alike
    <2>4. NewerQuote(H, i, k)
      BY <2>1, <2>2, <2>3 DEF NewerQuote
    <2>5. QED
      BY <1>3, <1>5, <2>1, <2>2, <2>4 DEF KeptOne
  <1>6. CASE H[i].kind = "trade"
    <2>1. "trade" \notin Quotes
      BY MarketEventsAssumption
    <2>2. \A j \in X : Alike(H, i, j) =>
             /\ H[j].kind = "trade"
             /\ \E k \in Y : Alike(H, j, k) /\ H[k].at <= H[j].at
             /\ \E k \in Y : Alike(H, j, k) /\ H[k].at >= H[j].at
             /\ \E k \in Y : Alike(H, j, k) /\ k <= j
             /\ \E k \in Y : Alike(H, j, k) /\ k >= j
             /\ H[j].fill # 0 => \E k \in Y : Alike(H, j, k) /\ k <= j /\ H[k].fill # 0
      BY <1>4, <1>6, <2>1 DEF KeptOne
    <2>3. \A j \in DOMAIN H : H[j].kind = "trade" => H[j].at \in Nat
      BY <1>2
    <2>4. \A j, k \in DOMAIN H : Alike(H, i, j) /\ Alike(H, j, k) =>
             /\ Alike(H, i, k) /\ j \in Nat /\ k \in Nat
             /\ H[i].at \in Nat /\ H[j].at \in Nat /\ H[k].at \in Nat
      BY <1>1, <1>3, <1>4, <1>6, <2>3
    <2>5. BarrierAt(H, i) => i \in Y
      BY <1>6, <2>1 DEF KeptOne
    <2>6. \E j \in Y : Alike(H, i, j) /\ H[j].at <= H[i].at
      <3>1. PICK j \in X : Alike(H, i, j) /\ H[j].at <= H[i].at
        BY <1>6, <2>1 DEF KeptOne
      <3>2. PICK k \in Y : Alike(H, j, k) /\ H[k].at <= H[j].at
        BY <2>2, <3>1
      <3>3. QED
        BY <2>4, <3>1, <3>2
    <2>7. \E j \in Y : Alike(H, i, j) /\ H[j].at >= H[i].at
      <3>1. PICK j \in X : Alike(H, i, j) /\ H[j].at >= H[i].at
        BY <1>6, <2>1 DEF KeptOne
      <3>2. PICK k \in Y : Alike(H, j, k) /\ H[k].at >= H[j].at
        BY <2>2, <3>1
      <3>3. QED
        BY <2>4, <3>1, <3>2
    <2>8. \E j \in Y : Alike(H, i, j) /\ j <= i
      <3>1. PICK j \in X : Alike(H, i, j) /\ j <= i
        BY <1>6, <2>1 DEF KeptOne
      <3>2. PICK k \in Y : Alike(H, j, k) /\ k <= j
        BY <2>2, <3>1
      <3>3. QED
        BY <1>1, <2>4, <3>1, <3>2
    <2>9. \E j \in Y : Alike(H, i, j) /\ j >= i
      <3>1. PICK j \in X : Alike(H, i, j) /\ j >= i
        BY <1>6, <2>1 DEF KeptOne
      <3>2. PICK k \in Y : Alike(H, j, k) /\ k >= j
        BY <2>2, <3>1
      <3>3. QED
        BY <1>1, <2>4, <3>1, <3>2
    <2>10. H[i].fill # 0 => \E j \in Y : Alike(H, i, j) /\ j <= i /\ H[j].fill # 0
      <3> SUFFICES ASSUME H[i].fill # 0 PROVE \E j \in Y : Alike(H, i, j) /\ j <= i /\ H[j].fill # 0
        OBVIOUS
      <3>1. PICK j \in X : Alike(H, i, j) /\ j <= i /\ H[j].fill # 0
        BY <1>6, <2>1 DEF KeptOne
      <3>2. PICK k \in Y : Alike(H, j, k) /\ k <= j /\ H[k].fill # 0
        BY <2>2, <3>1
      <3>3. QED
        BY <1>1, <2>4, <3>1, <3>2
    <2>11. QED
      BY <1>6, <2>1, <2>5, <2>6, <2>7, <2>8, <2>9, <2>10 DEF KeptOne
  <1>7. CASE ~(H[i].kind \in Quotes \/ H[i].kind = "trade")
    BY <1>7 DEF KeptOne
  <1>8. QED
    BY <1>5, <1>6, <1>7

(* An event that is not a barrier leaves the segment, a barrier opens one.  *)
Opens(K, s, s2) == s2 = s + 1 \/ (s2 = s /\ ~BarrierAt(K, Len(K)))

LEMMA TokenKept ==
    ASSUME NEW H \in Seq(Pushed), NEW e \in Pushed, NEW s \in Nat, NEW s2, Opens(Append(H, e), s, s2),
           NEW t \in MarketToken, NEW c, TokenIn(t, c, H, s)
    PROVE  TokenIn(t, c, Append(H, e), s2)
  <1> DEFINE K == Append(H, e)
             n == Len(H)
             o == OutOf(t, c)
  <1>1. /\ n \in Nat /\ DOMAIN H = 1..n /\ DOMAIN K = 1..n + 1 /\ Len(K) = n + 1
        /\ \A l \in 1..n : K[l] = H[l]
    BY OneMore
  <1>2. \A b \in 1..n : BarrierAt(K, b) <=> BarrierAt(H, b)
    BY <1>1, BarriersKept
  <1>3. t.seg \in Nat /\ t.seg <= s /\ s2 \in {s, s + 1} /\ (s2 = s => ~BarrierAt(K, n + 1))
    BY <1>1 DEF MarketToken, TokenIn, Opens
  <1> HIDE DEF K, n
  <1>4. o \in 1..n /\ o \in 1..n + 1 /\ K[o] = H[o]
    BY <1>1 DEF TokenIn
  <1>5. t.id # 0 => o = t.id
    BY DEF OutOf
  <1>6. t.id = 0 => o = c[<<t.kind, t.seg>>]
    BY DEF OutOf
  <1> HIDE DEF o
  <1>7. t.kind = "trade" => K[t.id] = H[t.id]
    BY <1>4, <1>5 DEF TokenIn
  <1>8. t.kind \in Quotes => K[c[<<t.kind, t.seg>>]] = H[c[<<t.kind, t.seg>>]]
    BY <1>4, <1>6 DEF TokenIn
  <1>9. t.kind # "direct" /\ t.seg = s2 => LastBarrier(K, o)
    <2> SUFFICES ASSUME t.kind # "direct", t.seg = s2, NEW b \in 1..n + 1, BarrierAt(K, b) PROVE b <= o
      BY <1>1 DEF LastBarrier
    <2>1. s2 = s
      BY <1>3
    <2>2. b # n + 1
      BY <1>3, <2>1
    <2>3. b \in 1..n
      BY <1>1, <2>2
    <2>4. LastBarrier(H, o)
      BY <2>1 DEF TokenIn, o
    <2>5. QED
      BY <1>1, <1>2, <2>3, <2>4 DEF LastBarrier
  <1>10. t.seg <= s2
    BY <1>3
  <1>11. QED
    BY <1>1, <1>4, <1>7, <1>8, <1>9, <1>10 DEF TokenIn, o, K

LEMMA OutsFound ==
    ASSUME NEW H, NEW ev, NEW c, NEW s, NEW d \in Seq(DOMAIN H), Tokens(ev, c, H, s)
    PROVE  Outs(ev, c, d) \subseteq DOMAIN H
  <1>1. \A i \in DOMAIN ev : OutOf(ev[i], c) \in DOMAIN H
    BY DEF Tokens, TokenIn
  <1>2. ToSet(d) \subseteq DOMAIN H
    BY DEF ToSet
  <1>3. QED
    BY <1>1, <1>2 DEF Outs

(* With one event more, the outputs keep what they kept if they keep the    *)
(* outputs there were and the event.                                        *)
LEMMA OutsKeepMore ==
    ASSUME NEW H \in Seq(Pushed), NEW e \in Pushed, NEW f,
           NEW ev, NEW c, NEW s, NEW d, QueueIs(ev, c, H, s, d, f),
           NEW Y, Y \subseteq DOMAIN Append(H, e),
           \A x \in Outs(ev, c, d) : KeptOne(Y, Append(H, e), x),
           KeptOne(Y, Append(H, e), Len(H) + 1)
    PROVE  \A i \in DOMAIN Append(H, e) : i > f => KeptOne(Y, Append(H, e), i)
  <1> DEFINE K == Append(H, e)
             n == Len(H)
             X == Outs(ev, c, d)
  <1>1. K \in Seq(Pushed) /\ n \in Nat /\ DOMAIN H = 1..n /\ DOMAIN K = 1..n + 1
    BY OneMore
  <1>2. X \subseteq DOMAIN H
    BY OutsFound DEF QueueIs
  <1> HIDE DEF X
  <1>3. ASSUME NEW i \in DOMAIN K, i > f PROVE KeptOne(Y, K, i)
    <2>1. CASE i = n + 1
      BY <2>1
    <2>2. CASE i # n + 1
      <3>1. i \in DOMAIN H
        <4> HIDE DEF n, K
        <4>1. QED
          BY <1>1, <2>2
      <3>2. KeptOne(X, H, i)
        BY <1>3, <3>1 DEF QueueIs, OutsKeep, X
      <3>3. KeptOne(X, K, i)
        BY <1>2, <3>1, <3>2, KeptGrows
      <3>4. X \subseteq DOMAIN K
        <4> HIDE DEF n, K
        <4>1. QED
          BY <1>1, <1>2
      <3>5. \A x \in X : KeptOne(Y, K, x)
        BY DEF X
      <3> HIDE DEF K
      <3>6. QED
        BY <1>1, <1>3, <3>3, <3>4, <3>5, KeptThrough DEF K
    <2>3. QED
      BY <2>1, <2>2
  <1>4. QED
    BY <1>3

(* Some of the tokens stay, in their order                                  *)
Rest(r, m, ev) ==
    /\ r \in Seq(MarketToken) /\ m \in [1..Len(r) -> DOMAIN ev]
    /\ \A k \in 1..Len(r) : r[k] = ev[m[k]]
    /\ \A k, l \in 1..Len(r) : k < l => m[k] < m[l]

(* The token of the new event comes behind tokens that stay.                *)
LEMMA TokenAppended ==
    ASSUME NEW H \in Seq(Pushed), NEW e \in Pushed, NEW s \in Nat, NEW s2, NEW f,
           NEW ev, NEW c, NEW d, QueueIs(ev, c, H, s, d, f), Opens(Append(H, e), s, s2),
           NEW r, NEW m, Rest(r, m, ev), Len(r) < QueueDepth, NEW c2,
           \A k \in 1..Len(r) : OutOf(r[k], c2) = OutOf(r[k], c) /\ TokenIn(r[k], c2, Append(H, e), s2),
           NEW t \in MarketToken, TokenIn(t, c2, Append(H, e), s2), OutOf(t, c2) = Len(H) + 1,
           t.id = 0 => \A k \in 1..Len(r) : r[k] # t,
           \A key \in DOMAIN c2 :
              /\ key \in Quotes \X Nat /\ c2[key] \in DOMAIN Append(H, e)
              /\ \/ \E k \in 1..Len(r) : r[k] = QuoteToken(key[1], key[2])
                 \/ t = QuoteToken(key[1], key[2]),
           \A x \in Outs(ev, c, d) : KeptOne(Outs(Append(r, t), c2, d), Append(H, e), x)
    PROVE  QueueIs(Append(r, t), c2, Append(H, e), s2, d, f)
  <1> DEFINE K == Append(H, e)
             n == Len(H)
             q == Append(r, t)
             z == Len(r)
             Y == Outs(q, c2, d)
  <1>1. /\ K \in Seq(Pushed) /\ n \in Nat /\ DOMAIN H = 1..n /\ DOMAIN K = 1..n + 1
        /\ n + 1 \in DOMAIN K /\ DOMAIN H \subseteq DOMAIN K
    BY OneMore
  <1>2. /\ q \in Seq(MarketToken) /\ Len(q) = z + 1 /\ z \in Nat /\ DOMAIN q = 1..z + 1
        /\ q[z + 1] = t /\ \A k \in 1..z : q[k] = r[k]
    BY DEF Rest
  <1>3. d \in Seq(DOMAIN H) /\ OutsInTime(ev, c, d, H) /\ Tokens(ev, c, H, s)
    BY DEF QueueIs
  <1>4. \A k \in 1..z : r[k] = ev[m[k]] /\ m[k] \in DOMAIN ev
    BY DEF Rest
  <1>5. \A k, l \in 1..z : k < l => m[k] < m[l]
    BY DEF Rest
  <1> HIDE DEF q, z, K, n
  <1>6. \A k \in 1..z + 1 : k = z + 1 \/ k \in 1..z
    BY <1>2
  <1>7. Tokens(q, c2, K, s2)
    <2>1. Len(q) <= QueueDepth
      BY <1>2, MarketEventsAssumption DEF z
    <2>2. \A k \in 1..z + 1 : TokenIn(q[k], c2, K, s2)
      BY <1>2, <1>6 DEF K, z
    <2>3. ASSUME NEW k \in 1..z + 1, NEW l \in 1..z + 1, q[k].id = 0, q[k] = q[l] PROVE k = l
      <3>1. CASE k = z + 1 /\ l = z + 1
        BY <3>1
      <3>2. CASE k = z + 1 /\ l \in 1..z
        BY <1>2, <2>3, <3>2 DEF z
      <3>3. CASE k \in 1..z /\ l = z + 1
        BY <1>2, <2>3, <3>3 DEF z
      <3>4. CASE k \in 1..z /\ l \in 1..z
        <4>1. m[k] = m[l]
          BY <1>2, <1>3, <1>4, <2>3, <3>4 DEF Tokens
        <4>2. ev \in Seq(MarketToken)
          BY <1>3 DEF Tokens
        <4>3. m[k] \in Nat /\ (k < l \/ k = l \/ l < k)
          BY <1>2, <1>4, <3>4, <4>2
        <4>4. QED
          BY <1>5, <3>4, <4>1, <4>3
      <3>5. QED
        BY <1>6, <3>1, <3>2, <3>3, <3>4
    <2>4. ASSUME NEW key \in DOMAIN c2
          PROVE  /\ key \in Quotes \X Nat /\ c2[key] \in DOMAIN K
                 /\ \E k \in 1..z + 1 : q[k] = QuoteToken(key[1], key[2])
      <3>1. /\ key \in Quotes \X Nat /\ c2[key] \in DOMAIN K
            /\ \/ \E k \in 1..z : r[k] = QuoteToken(key[1], key[2])
               \/ t = QuoteToken(key[1], key[2])
        BY DEF K, z
      <3>2. \A k \in 1..z : k \in 1..z + 1
        BY <1>2
      <3>3. z + 1 \in 1..z + 1
        BY <1>2
      <3>4. QED
        BY <1>2, <3>1, <3>2, <3>3
    <2>5. QED
      BY <1>2, <2>1, <2>2, <2>3, <2>4 DEF Tokens
  <1>8. d \in Seq(DOMAIN K)
    <2>1. Len(d) \in Nat /\ d = [i \in 1..Len(d) |-> d[i]] /\ \A i \in 1..Len(d) : d[i] \in DOMAIN K
      BY <1>1, <1>3
    <2>2. QED
      BY <2>1
  <1>9. OutsInTime(q, c2, d, K)
    <2>1. \A i \in DOMAIN d : d[i] \in DOMAIN H
      BY <1>3
    <2>2. \A i \in DOMAIN ev : OutOf(ev[i], c) \in DOMAIN H
      BY <1>3 DEF Tokens, TokenIn
    <2>3. \A x, y \in DOMAIN H : InTime(H, x, y) => InTime(K, x, y)
      BY InTimeKept DEF K
    <2>4. \A x \in DOMAIN H : InTime(K, x, n + 1)
      BY InTimeKept DEF K, n
    <2>5. \A k \in 1..z : OutOf(q[k], c2) = OutOf(ev[m[k]], c) /\ m[k] \in DOMAIN ev
      BY <1>2, <1>4 DEF z
    <2>6. OutOf(q[z + 1], c2) = n + 1
      BY <1>2 DEF n
    <2>7. ASSUME NEW i \in DOMAIN d, NEW j \in DOMAIN d, i < j PROVE InTime(K, d[i], d[j])
      BY <1>3, <2>1, <2>3, <2>7 DEF OutsInTime
    <2>8. ASSUME NEW i \in DOMAIN d, NEW k \in 1..z + 1 PROVE InTime(K, d[i], OutOf(q[k], c2))
      <3>1. CASE k = z + 1
        BY <2>1, <2>4, <2>6, <3>1
      <3>2. CASE k \in 1..z
        BY <1>3, <2>1, <2>2, <2>3, <2>5, <3>2 DEF OutsInTime
      <3>3. QED
        BY <1>6, <3>1, <3>2
    <2>9. ASSUME NEW k \in 1..z + 1, NEW l \in 1..z + 1, k < l
          PROVE  InTime(K, OutOf(q[k], c2), OutOf(q[l], c2))
      <3>1. k \in 1..z
        BY <1>2, <2>9
      <3>2. CASE l = z + 1
        BY <2>2, <2>4, <2>5, <2>6, <3>1, <3>2
      <3>3. CASE l \in 1..z
        <4>1. m[k] < m[l]
          BY <1>5, <2>9, <3>1, <3>3
        <4>2. InTime(H, OutOf(ev[m[k]], c), OutOf(ev[m[l]], c))
          BY <1>3, <2>5, <3>1, <3>3, <4>1 DEF OutsInTime
        <4>3. QED
          BY <2>2, <2>3, <2>5, <3>1, <3>3, <4>2
      <3>4. QED
        BY <1>6, <3>2, <3>3
    <2>10. QED
      BY <1>2, <2>7, <2>8, <2>9 DEF OutsInTime
  <1>10. OutsKeep(q, c2, d, K, f)
    <2>1. Y \subseteq DOMAIN K
      BY <1>7, <1>8, OutsFound
    <2>2. n + 1 \in Y
      <3>1. z + 1 \in DOMAIN q /\ OutOf(q[z + 1], c2) = n + 1
        BY <1>2 DEF n
      <3>2. QED
        BY <3>1 DEF Outs
    <2>3. \A x \in Outs(ev, c, d) : KeptOne(Y, K, x)
      BY DEF q, K
    <2> HIDE DEF Y
    <2>4. KeptOne(Y, K, n + 1)
      BY <1>1, <2>2, KeptItself
    <2>5. \A i \in DOMAIN K : i > f => KeptOne(Y, K, i)
      BY <2>1, <2>3, <2>4, OutsKeepMore DEF K, n
    <2>6. QED
      BY <2>5 DEF OutsKeep, Y
  <1>11. QED
    BY <1>7, <1>8, <1>9, <1>10 DEF QueueIs, K, q

DeliveredIn(d, H) == d \in Seq(DOMAIN H) /\ \A i, j \in DOMAIN d : i < j => InTime(H, d[i], d[j])

LEMMA DeliveredKept ==
    ASSUME NEW H \in Seq(Pushed), NEW e \in Pushed, NEW d, DeliveredIn(d, H)
    PROVE  /\ DeliveredIn(d, Append(H, e)) /\ DeliveredIn(Append(d, Len(H) + 1), Append(H, e))
           /\ ToSet(Append(d, Len(H) + 1)) = ToSet(d) \cup {Len(H) + 1}
           /\ ToSet(d) \subseteq DOMAIN H
  <1> DEFINE K == Append(H, e)
             n == Len(H)
             a == Append(d, n + 1)
             z == Len(d)
  <1>1. /\ K \in Seq(Pushed) /\ n \in Nat /\ DOMAIN H = 1..n /\ DOMAIN K = 1..n + 1
        /\ n + 1 \in DOMAIN K /\ DOMAIN H \subseteq DOMAIN K
    BY OneMore
  <1>2. d \in Seq(DOMAIN H) /\ \A i, j \in DOMAIN d : i < j => InTime(H, d[i], d[j])
    BY DEF DeliveredIn
  <1>3. /\ \A x, y \in DOMAIN H : InTime(H, x, y) => InTime(K, x, y)
        /\ \A x \in DOMAIN H : InTime(K, x, n + 1)
    BY InTimeKept
  <1> HIDE DEF K, n
  <1>4. z \in Nat /\ DOMAIN d = 1..z /\ d = [i \in 1..z |-> d[i]] /\ \A i \in 1..z : d[i] \in DOMAIN H
    BY <1>2
  <1>5. d \in Seq(DOMAIN K)
    BY <1>1, <1>4
  <1>6. /\ a \in Seq(DOMAIN K) /\ DOMAIN a = 1..z + 1 /\ a[z + 1] = n + 1
        /\ \A i \in 1..z : a[i] = d[i]
    BY <1>1, <1>5
  <1> HIDE DEF a, z
  <1>7. DeliveredIn(d, K)
    BY <1>2, <1>3, <1>4, <1>5 DEF DeliveredIn
  <1>8. DeliveredIn(a, K)
    <2> SUFFICES ASSUME NEW i \in 1..z + 1, NEW j \in 1..z + 1, i < j PROVE InTime(K, a[i], a[j])
      BY <1>6 DEF DeliveredIn
    <2>1. i \in 1..z
      BY <1>4
    <2>2. CASE j = z + 1
      BY <1>3, <1>4, <1>6, <2>1, <2>2
    <2>3. CASE j # z + 1
      <3>1. j \in 1..z
        BY <1>4, <2>3
      <3>2. QED
        BY <1>2, <1>3, <1>4, <1>6, <2>1, <3>1
    <2>4. QED
      BY <2>2, <2>3
  <1>9. ToSet(a) = ToSet(d) \cup {n + 1}
    <2>1. \A i \in 1..z + 1 : i = z + 1 \/ i \in 1..z
      BY <1>4
    <2>2. \A i \in 1..z : i \in 1..z + 1
      BY <1>4
    <2>3. z + 1 \in 1..z + 1
      BY <1>4
    <2>4. \A x \in ToSet(a) : x \in ToSet(d) \cup {n + 1}
      BY <1>4, <1>6, <2>1 DEF ToSet
    <2>5. \A x \in ToSet(d) : x \in ToSet(a)
      BY <1>4, <1>6, <2>2 DEF ToSet
    <2>6. n + 1 \in ToSet(a)
      BY <1>6, <2>3 DEF ToSet
    <2>7. QED
      BY <2>4, <2>5, <2>6
  <1>10. ToSet(d) \subseteq DOMAIN H
    BY <1>4 DEF ToSet
  <1>11. QED
    BY <1>7, <1>8, <1>9, <1>10 DEF K, n, a

LEMMA NoTokens ==
    ASSUME NEW c, DOMAIN c = {}, NEW H, NEW s
    PROVE  Tokens(<<>>, c, H, s)
  <1>1. <<>> \in Seq(MarketToken) /\ Len(<<>>) = 0 /\ DOMAIN <<>> = {}
    OBVIOUS
  <1>2. QED
    BY <1>1, MarketEventsAssumption DEF Tokens

(* An event that is handed to the waiting consumer                          *)
LEMMA HandedOver ==
    ASSUME NEW H \in Seq(Pushed), NEW e \in Pushed, NEW s, NEW s2, NEW f, NEW c, NEW d,
           QueueIs(<<>>, c, H, s, d, f), NEW c2, DOMAIN c2 = {}
    PROVE  QueueIs(<<>>, c2, Append(H, e), s2, Append(d, Len(H) + 1), f)
  <1> DEFINE K == Append(H, e)
             n == Len(H)
             a == Append(d, n + 1)
             Y == Outs(<<>>, c2, a)
  <1>1. /\ K \in Seq(Pushed) /\ n \in Nat /\ n + 1 \in DOMAIN K /\ DOMAIN H \subseteq DOMAIN K
    BY OneMore
  <1>2. DeliveredIn(d, H)
    BY DEF QueueIs, OutsInTime, DeliveredIn
  <1>3. DeliveredIn(a, K) /\ ToSet(a) = ToSet(d) \cup {n + 1} /\ ToSet(d) \subseteq DOMAIN H
    BY <1>2, DeliveredKept
  <1>4. DOMAIN <<>> = {}
    OBVIOUS
  <1>5. Y = ToSet(d) \cup {n + 1} /\ Outs(<<>>, c, d) = ToSet(d)
    BY <1>3, <1>4 DEF Outs
  <1> HIDE DEF K, n, a, Y
  <1>6. OutsInTime(<<>>, c2, a, K)
    BY <1>3, <1>4 DEF OutsInTime, DeliveredIn
  <1>7. Y \subseteq DOMAIN K
    BY <1>1, <1>3, <1>5
  <1>8. \A x \in Outs(<<>>, c, d) : KeptOne(Y, K, x)
    BY <1>1, <1>3, <1>5, KeptItself
  <1>9. KeptOne(Y, K, n + 1)
    BY <1>1, <1>5, KeptItself
  <1>10. \A i \in DOMAIN K : i > f => KeptOne(Y, K, i)
    BY <1>7, <1>8, <1>9, OutsKeepMore DEF K, n
  <1>11. QED
    BY <1>3, <1>6, <1>10, NoTokens DEF QueueIs, OutsKeep, DeliveredIn, Y, K, n, a

(* The queue fails: the disconnect is all there is.                         *)
LEMMA QueueFails ==
    ASSUME NEW H \in Seq(Pushed), NEW e \in Pushed, NEW d, DeliveredIn(d, H),
           NEW s \in Nat
    PROVE  LET K == Append(H, e)
               m == Len(H) + 1
           IN /\ QueueIs(<<Direct(m)>>, <<>>, K, s, d, m)
              /\ QueueIs(<<>>, <<>>, K, s, Append(d, m), m)
  <1> DEFINE K == Append(H, e)
             n == Len(H)
             m == n + 1
             a == Append(d, m)
             t == Direct(m)
             ev == <<t>>
  <1>1. /\ K \in Seq(Pushed) /\ n \in Nat /\ DOMAIN K = 1..n + 1 /\ m \in DOMAIN K
        /\ m \in Nat /\ m # 0 /\ \A i \in DOMAIN K : ~(i > m)
    BY OneMore
  <1>2. DeliveredIn(d, K) /\ DeliveredIn(a, K) /\ ToSet(d) \subseteq DOMAIN H
    BY DeliveredKept
  <1>3. \A i \in DOMAIN d : InTime(K, d[i], m)
    <2>1. \A i \in DOMAIN d : d[i] \in DOMAIN H
      BY <1>2 DEF ToSet
    <2>2. QED
      BY <2>1, InTimeKept
  <1> HIDE DEF K, n, m, a
  <1>4. t \in MarketToken /\ t.kind = "direct" /\ t.id = m /\ t.seg = 0
    BY <1>1 DEF Direct, MarketToken
  <1>5. "direct" \notin Quotes
    BY MarketEventsAssumption
  <1> HIDE DEF t
  <1>6. ev \in Seq(MarketToken) /\ Len(ev) = 1 /\ DOMAIN ev = {1} /\ ev[1] = t
    BY <1>4
  <1> HIDE DEF ev
  <1>7. OutOf(t, <<>>) = m
    BY <1>1, <1>4 DEF OutOf
  <1>8. TokenIn(t, <<>>, K, s)
    BY <1>1, <1>4, <1>5, <1>7 DEF TokenIn
  <1>9. Tokens(ev, <<>>, K, s)
    <2>1. DOMAIN <<>> = {}
      OBVIOUS
    <2>2. QED
      BY <1>1, <1>4, <1>6, <1>8, <2>1, MarketEventsAssumption DEF Tokens
  <1>10. OutsInTime(ev, <<>>, d, K)
    BY <1>2, <1>3, <1>6, <1>7 DEF OutsInTime, DeliveredIn
  <1>11. OutsInTime(<<>>, <<>>, a, K) /\ Tokens(<<>>, <<>>, K, s)
    <2>1. DOMAIN <<>> = {}
      OBVIOUS
    <2>2. QED
      BY <1>2, <2>1, NoTokens DEF OutsInTime, DeliveredIn
  <1>12. /\ QueueIs(ev, <<>>, K, s, d, m) /\ QueueIs(<<>>, <<>>, K, s, a, m)
    BY <1>1, <1>2, <1>9, <1>10, <1>11 DEF QueueIs, OutsKeep, DeliveredIn
  <1>13. QED
    BY <1>12 DEF K, a, m, n, ev, t

LEMMA OneDelivered ==
    ASSUME NEW T, NEW d \in Seq(T), NEW o \in T
    PROVE  LET a == Append(d, o)
           IN /\ a \in Seq(T) /\ Len(d) \in Nat /\ DOMAIN d = 1..Len(d) /\ DOMAIN a = 1..Len(d) + 1
              /\ a[Len(d) + 1] = o /\ \A i \in 1..Len(d) : a[i] = d[i] /\ d[i] \in T
              /\ ToSet(a) = ToSet(d) \cup {o}
  <1> DEFINE a == Append(d, o)
             z == Len(d)
  <1>1. /\ a \in Seq(T) /\ z \in Nat /\ DOMAIN d = 1..z /\ DOMAIN a = 1..z + 1
        /\ a[z + 1] = o /\ \A i \in 1..z : a[i] = d[i] /\ d[i] \in T
    OBVIOUS
  <1> HIDE DEF a, z
  <1>2. (\A i \in 1..z + 1 : i = z + 1 \/ i \in 1..z) /\ (\A i \in 1..z : i \in 1..z + 1) /\ z + 1 \in 1..z + 1
    BY <1>1
  <1>3. \A x \in ToSet(a) : x \in ToSet(d) \cup {o}
    BY <1>1, <1>2 DEF ToSet
  <1>4. \A x \in ToSet(d) \cup {o} : x \in ToSet(a)
    BY <1>1, <1>2 DEF ToSet
  <1>5. QED
    BY <1>1, <1>3, <1>4 DEF a, z

LEMMA TokenTaken ==
    ASSUME NEW H \in Seq(Pushed), NEW s, NEW f, NEW ev, ev # <<>>, NEW c, NEW d,
           QueueIs(ev, c, H, s, d, f)
    PROVE  LET t == Head(ev)
           IN /\ QueueIs(Tail(ev), Without(c, <<t.kind, t.seg>>), H, s, Append(d, OutOf(t, c)), f)
              /\ OutOf(t, c) \in DOMAIN H
  <1> DEFINE t == Head(ev)
             r == Tail(ev)
             z == Len(r)
             o == OutOf(t, c)
             a == Append(d, o)
             l == Len(d)
             key == <<t.kind, t.seg>>
             c2 == Without(c, key)
             X == Outs(ev, c, d)
             Y == Outs(r, c2, a)
  <1>1. ev \in Seq(MarketToken) /\ Len(ev) <= QueueDepth /\ d \in Seq(DOMAIN H)
        /\ OutsInTime(ev, c, d, H) /\ Tokens(ev, c, H, s)
    BY DEF QueueIs, Tokens
  <1>2. /\ t \in MarketToken /\ r \in Seq(MarketToken) /\ z \in Nat /\ Len(ev) = z + 1
        /\ DOMAIN r = 1..z /\ DOMAIN ev = 1..z + 1 /\ 1 \in 1..z + 1 /\ ev[1] = t
        /\ \A i \in 1..z : r[i] = ev[i + 1] /\ i + 1 \in 1..z + 1
    BY <1>1, HeadTailProperties
  <1> HIDE DEF t, r, z
  <1>3. \A i \in 1..z : r[i] \in MarketToken
    BY <1>2
  <1>4. \A i \in DOMAIN ev : TokenIn(ev[i], c, H, s)
    BY <1>1 DEF Tokens
  <1>5. \A i, j \in DOMAIN ev : ev[i].id = 0 /\ ev[i] = ev[j] => i = j
    BY <1>1 DEF Tokens
  <1>6. /\ {"direct", "trade"} \cap Quotes = {}
        /\ \A u \in MarketToken : u.kind \in {"direct", "trade"} \cup Quotes
        /\ \A u, v \in MarketToken : u.kind = v.kind /\ u.id = v.id /\ u.seg = v.seg => u = v
    BY MarketEventsAssumption DEF MarketToken
  <1>7. \A i \in 1..z : i + 1 # 1
    BY <1>2
  <1>8. ASSUME NEW i \in 1..z PROVE r[i].kind \in Quotes => <<r[i].kind, r[i].seg>> # key
    <2> SUFFICES ASSUME r[i].kind \in Quotes, <<r[i].kind, r[i].seg>> = key PROVE FALSE
      OBVIOUS
    <2>1. r[i].kind = t.kind /\ r[i].seg = t.seg
      OBVIOUS
    <2>2. TokenIn(r[i], c, H, s) /\ TokenIn(t, c, H, s)
      BY <1>2, <1>4
    <2>3. r[i].id = 0 /\ t.id = 0
      BY <2>1, <2>2 DEF TokenIn
    <2>4. ev[i + 1] = ev[1] /\ ev[1].id = 0
      BY <1>2, <1>3, <1>6, <2>1, <2>3
    <2>5. QED
      BY <1>2, <1>5, <1>7, <2>4
  <1> HIDE DEF key
  <1>9. \A k \in DOMAIN c : k # key => k \in DOMAIN c2 /\ c2[k] = c[k]
    BY DEF Without
  <1>10. \A k \in DOMAIN c2 : k \in DOMAIN c /\ k # key /\ c2[k] = c[k]
    BY DEF Without
  <1> HIDE DEF c2
  <1>11. ASSUME NEW i \in 1..z
         PROVE  OutOf(r[i], c2) = OutOf(ev[i + 1], c) /\ TokenIn(r[i], c2, H, s)
    <2>1. TokenIn(r[i], c, H, s) /\ r[i] \in MarketToken /\ r[i] = ev[i + 1]
      BY <1>2, <1>3, <1>4
    <2>2. CASE r[i].kind \in Quotes
      <3>1. /\ r[i].id = 0 /\ <<r[i].kind, r[i].seg>> \in DOMAIN c2
            /\ c2[<<r[i].kind, r[i].seg>>] = c[<<r[i].kind, r[i].seg>>]
        BY <1>8, <1>9, <2>1, <2>2 DEF TokenIn
      <3>2. OutOf(r[i], c2) = OutOf(r[i], c)
        BY <3>1 DEF OutOf
      <3>3. QED
        BY <2>1, <3>1, <3>2 DEF TokenIn
    <2>3. CASE r[i].kind \notin Quotes
      <3>1. r[i].id # 0
        BY <1>6, <2>1, <2>3 DEF TokenIn
      <3>2. OutOf(r[i], c2) = OutOf(r[i], c)
        BY <3>1 DEF OutOf
      <3>3. QED
        BY <2>1, <2>3, <3>2 DEF TokenIn
    <2>4. QED
      BY <2>2, <2>3
  <1>12. Tokens(r, c2, H, s)
    <2>1. z <= QueueDepth
      BY <1>1, <1>2, MarketEventsAssumption
    <2>2. ASSUME NEW i \in 1..z, NEW j \in 1..z, r[i].id = 0, r[i] = r[j] PROVE i = j
      <3>1. i + 1 = j + 1
        <4>1. ev[i + 1] = ev[j + 1] /\ ev[i + 1].id = 0 /\ i + 1 \in DOMAIN ev /\ j + 1 \in DOMAIN ev
          BY <1>2, <2>2
        <4>2. QED
          BY <1>5, <4>1
      <3>2. QED
        BY <1>2, <3>1
    <2>3. ASSUME NEW k \in DOMAIN c2
          PROVE  /\ k \in Quotes \X Nat /\ c2[k] \in DOMAIN H
                 /\ \E i \in 1..z : r[i] = QuoteToken(k[1], k[2])
      <3>1. k \in DOMAIN c /\ k # key /\ c2[k] = c[k]
        BY <1>10
      <3>2. k \in Quotes \X Nat /\ c[k] \in DOMAIN H
        BY <1>1, <3>1 DEF Tokens
      <3>3. PICK i \in DOMAIN ev : ev[i] = QuoteToken(k[1], k[2])
        BY <1>1, <3>1 DEF Tokens
      <3>4. i # 1
        <4>1. ASSUME i = 1 PROVE FALSE
          <5>1. t = QuoteToken(k[1], k[2])
            BY <1>2, <3>3, <4>1
          <5>2. t.kind = k[1] /\ t.seg = k[2]
            BY <5>1 DEF QuoteToken
          <5>3. k = <<k[1], k[2]>>
            BY <3>2
          <5>4. QED
            BY <3>1, <5>2, <5>3 DEF key
        <4>2. QED
          BY <4>1
      <3>5. i - 1 \in 1..z /\ (i - 1) + 1 = i
        BY <1>2, <3>4
      <3>6. r[i - 1] = QuoteToken(k[1], k[2])
        BY <1>2, <3>3, <3>5
      <3>7. QED
        BY <3>1, <3>2, <3>5, <3>6
    <2>4. QED
      BY <1>2, <1>11, <2>1, <2>2, <2>3 DEF Tokens, z
  <1>13. o \in DOMAIN H
    BY <1>2, <1>4 DEF TokenIn, o
  <1>14. /\ a \in Seq(DOMAIN H) /\ l \in Nat /\ DOMAIN d = 1..l /\ DOMAIN a = 1..l + 1
         /\ a[l + 1] = o /\ \A i \in 1..l : a[i] = d[i] /\ d[i] \in DOMAIN H
         /\ ToSet(a) = ToSet(d) \cup {o}
    BY <1>1, <1>13, OneDelivered
  <1> HIDE DEF a, l
  <1>15. o = OutOf(ev[1], c)
    BY <1>2 DEF o
  <1> HIDE DEF o
  <1>16. OutsInTime(r, c2, a, H)
    <2>0. /\ \A i \in 1..l : InTime(H, d[i], o)
          /\ \A j \in 1..z + 1 : 1 < j => InTime(H, o, OutOf(ev[j], c))
      <3>1. 1 \in DOMAIN ev /\ DOMAIN ev = 1..z + 1 /\ DOMAIN d = 1..l
        BY <1>2, <1>14
      <3>2. \A i \in DOMAIN d : InTime(H, d[i], OutOf(ev[1], c))
        BY <1>1, <3>1 DEF OutsInTime
      <3>3. \A j \in DOMAIN ev : 1 < j => InTime(H, OutOf(ev[1], c), OutOf(ev[j], c))
        BY <1>1, <3>1 DEF OutsInTime
      <3>4. QED
        BY <1>15, <3>1, <3>2, <3>3
    <2>1. \A i \in 1..l + 1 : i = l + 1 \/ i \in 1..l
      BY <1>14
    <2>2. ASSUME NEW i \in 1..l + 1, NEW j \in 1..l + 1, i < j PROVE InTime(H, a[i], a[j])
      <3>1. i \in 1..l
        BY <1>14, <2>2
      <3>2. CASE j = l + 1
        BY <1>14, <2>0, <3>1, <3>2
      <3>3. CASE j \in 1..l
        BY <1>1, <1>14, <2>2, <3>1, <3>3 DEF OutsInTime
      <3>4. QED
        BY <2>1, <3>2, <3>3
    <2>3. ASSUME NEW i \in 1..l + 1, NEW j \in 1..z PROVE InTime(H, a[i], OutOf(r[j], c2))
      <3>1. OutOf(r[j], c2) = OutOf(ev[j + 1], c) /\ j + 1 \in DOMAIN ev /\ 1 < j + 1
        BY <1>2, <1>11
      <3>2. CASE i = l + 1
        BY <1>2, <1>14, <2>0, <3>1, <3>2
      <3>3. CASE i \in 1..l
        BY <1>1, <1>14, <3>1, <3>3 DEF OutsInTime
      <3>4. QED
        BY <2>1, <3>2, <3>3
    <2>4. ASSUME NEW i \in 1..z, NEW j \in 1..z, i < j
          PROVE  InTime(H, OutOf(r[i], c2), OutOf(r[j], c2))
      <3>1. /\ OutOf(r[i], c2) = OutOf(ev[i + 1], c) /\ i + 1 \in DOMAIN ev
            /\ OutOf(r[j], c2) = OutOf(ev[j + 1], c) /\ j + 1 \in DOMAIN ev
        BY <1>2, <1>11
      <3>2. i + 1 < j + 1
        BY <1>2, <2>4
      <3>3. QED
        BY <1>1, <3>1, <3>2 DEF OutsInTime
    <2>5. QED
      BY <1>2, <1>14, <2>2, <2>3, <2>4 DEF OutsInTime
  <1>17. X \subseteq Y
    <2>1. ASSUME NEW i \in DOMAIN ev PROVE OutOf(ev[i], c) \in Y
      <3>1. CASE i = 1
        BY <1>14, <1>15, <3>1 DEF Outs
      <3>2. CASE i # 1
        <4>1. i - 1 \in 1..z /\ (i - 1) + 1 = i
          BY <1>2, <3>2
        <4>2. OutOf(ev[i], c) = OutOf(r[i - 1], c2) /\ i - 1 \in DOMAIN r
          BY <1>2, <1>11, <4>1
        <4>3. QED
          BY <4>2 DEF Outs
      <3>3. QED
        BY <3>1, <3>2
    <2>2. ToSet(d) \subseteq Y
      BY <1>14 DEF Outs
    <2> HIDE DEF Y
    <2>3. QED
      BY <2>1, <2>2 DEF Outs
  <1>18. X \subseteq DOMAIN H /\ Y \subseteq DOMAIN H
    BY <1>1, <1>12, <1>14, OutsFound
  <1> HIDE DEF X, Y
  <1>19. \A x \in X : KeptOne(Y, H, x)
    BY <1>17, <1>18, KeptItself
  <1>20. OutsKeep(r, c2, a, H, f)
    <2> SUFFICES ASSUME NEW i \in DOMAIN H, i > f PROVE KeptOne(Y, H, i)
      BY DEF OutsKeep, Y
    <2>1. KeptOne(X, H, i)
      BY DEF QueueIs, OutsKeep, X
    <2>2. QED
      BY <1>18, <1>19, <2>1, KeptThrough
  <1>21. QED
    BY <1>12, <1>13, <1>14, <1>16, <1>20 DEF QueueIs, r, c2, a, key, t, o

(* A new token behind the ones there are                                    *)
LEMMA TokenAdded ==
    ASSUME NEW H \in Seq(Pushed), NEW e \in Pushed, NEW s \in Nat, NEW s2, NEW f,
           NEW ev, NEW c, NEW d, QueueIs(ev, c, H, s, d, f), Opens(Append(H, e), s, s2),
           Len(ev) < QueueDepth, NEW c2,
           \A i \in DOMAIN ev : ev[i].id = 0 =>
              LET key == <<ev[i].kind, ev[i].seg>>
              IN key \in DOMAIN c => key \in DOMAIN c2 /\ c2[key] = c[key],
           NEW t \in MarketToken, TokenIn(t, c2, Append(H, e), s2), OutOf(t, c2) = Len(H) + 1,
           t.id = 0 => <<t.kind, t.seg>> \notin DOMAIN c,
           t.id = 0 => t.kind \in Quotes,
           \A key \in DOMAIN c2 :
              \/ key \in DOMAIN c /\ c2[key] = c[key]
              \/ key \in Quotes \X Nat /\ c2[key] \in DOMAIN Append(H, e) /\ t = QuoteToken(key[1], key[2])
    PROVE  QueueIs(Append(ev, t), c2, Append(H, e), s2, d, f)
  <1> DEFINE K == Append(H, e)
             m == [k \in 1..Len(ev) |-> k]
             z == Len(ev)
             Y == Outs(Append(ev, t), c2, d)
  <1>1. /\ K \in Seq(Pushed) /\ Len(H) \in Nat /\ DOMAIN H \subseteq DOMAIN K
    BY OneMore
  <1>2. ev \in Seq(MarketToken) /\ Tokens(ev, c, H, s) /\ d \in Seq(DOMAIN H)
    BY DEF QueueIs, Tokens
  <1>3. z \in Nat /\ DOMAIN ev = 1..z /\ \A k \in 1..z : ev[k] \in MarketToken /\ TokenIn(ev[k], c, H, s)
    BY <1>2 DEF Tokens
  <1>4. Rest(ev, m, ev)
    BY <1>2 DEF Rest
  <1>5. ASSUME NEW k \in 1..z
        PROVE  OutOf(ev[k], c2) = OutOf(ev[k], c) /\ TokenIn(ev[k], c2, K, s2)
    <2>1. ev[k] \in MarketToken /\ TokenIn(ev[k], c, K, s2) /\ TokenIn(ev[k], c, H, s)
      BY <1>3, TokenKept
    <2>2. CASE ev[k].id # 0
      <3>1. OutOf(ev[k], c2) = OutOf(ev[k], c) /\ ev[k].kind \notin Quotes
        BY <2>1, <2>2 DEF OutOf, TokenIn
      <3>2. QED
        BY <2>1, <3>1 DEF TokenIn
    <2>3. CASE ev[k].id = 0
      <3>1. ev[k].kind \in Quotes
        BY <2>1, <2>3 DEF MarketToken, TokenIn
      <3>2. <<ev[k].kind, ev[k].seg>> \in DOMAIN c
        BY <2>1, <3>1 DEF TokenIn
      <3>3. <<ev[k].kind, ev[k].seg>> \in DOMAIN c2
            /\ c2[<<ev[k].kind, ev[k].seg>>] = c[<<ev[k].kind, ev[k].seg>>]
        BY <1>3, <2>3, <3>2
      <3>4. OutOf(ev[k], c2) = OutOf(ev[k], c)
        BY <2>3, <3>3 DEF OutOf
      <3>5. QED
        BY <2>1, <3>3, <3>4 DEF TokenIn
    <2>4. QED
      BY <2>2, <2>3
  <1>6. ASSUME t.id = 0, NEW k \in 1..z PROVE ev[k] # t
    <2>1. TokenIn(ev[k], c, H, s)
      BY <1>3
    <2>2. QED
      BY <1>6, <2>1 DEF TokenIn
  <1>7. ASSUME NEW key \in DOMAIN c2
        PROVE  /\ key \in Quotes \X Nat /\ c2[key] \in DOMAIN K
               /\ \/ \E k \in 1..z : ev[k] = QuoteToken(key[1], key[2])
                  \/ t = QuoteToken(key[1], key[2])
    <2>1. CASE key \in DOMAIN c /\ c2[key] = c[key]
      <3>1. key \in Quotes \X Nat /\ c[key] \in DOMAIN H /\ \E k \in 1..z : ev[k] = QuoteToken(key[1], key[2])
        BY <1>2, <1>3, <2>1 DEF Tokens
      <3>2. QED
        BY <1>1, <2>1, <3>1
    <2>2. QED
      BY <2>1
  <1>8. Outs(ev, c, d) \subseteq Y
    <2>1. /\ Append(ev, t) \in Seq(MarketToken) /\ \A k \in 1..z : k \in DOMAIN Append(ev, t) /\ Append(ev, t)[k] = ev[k]
      BY <1>2, <1>3
    <2>2. \A k \in 1..z : OutOf(ev[k], c) = OutOf(Append(ev, t)[k], c2)
      BY <1>5, <2>1
    <2>3. QED
      BY <1>3, <2>1, <2>2 DEF Outs
  <1>9. Outs(ev, c, d) \subseteq DOMAIN H
    BY <1>2, OutsFound
  <1> HIDE DEF Y
  <1>10. \A x \in Outs(ev, c, d) : KeptOne(Y, K, x)
    BY <1>1, <1>8, <1>9, KeptItself
  <1> HIDE DEF z, m
  <1>11. QED
    BY <1>4, <1>5, <1>6, <1>7, <1>10, TokenAppended DEF Y, K, z

-----------------------------------------------------------------------------
(* Fills *)

LEMMA FillKept ==
    ASSUME NEW H \in Seq(Pushed), NEW e \in Pushed, NEW key
    PROVE  /\ LastFill(H, key) /\ (e.kind = "trade" => e.fill \in {0, key}) => LastFill(Append(H, e), key)
           /\ e.kind = "trade" /\ e.fill = key => LastFill(Append(H, e), key)
  <1> DEFINE K == Append(H, e)
             n == Len(H)
  <1>1. /\ n \in Nat /\ DOMAIN H = 1..n /\ DOMAIN K = 1..n + 1 /\ Len(K) = n + 1 /\ K[n + 1] = e
        /\ \A l \in 1..n : K[l] = H[l]
    BY OneMore
  <1> HIDE DEF K, n
  <1>2. ASSUME LastFill(H, key), e.kind = "trade" => e.fill \in {0, key}, key # 0
        PROVE  LastFill(K, key)
    <2>1. PICK j \in 1..n : /\ H[j].kind = "trade" /\ H[j].fill = key
                            /\ \A k \in j + 1..n : H[k].kind = "trade" => H[k].fill \in {0, key}
      BY <1>1, <1>2 DEF LastFill, n
    <2>2. ASSUME NEW k \in j + 1..n + 1, K[k].kind = "trade" PROVE K[k].fill \in {0, key}
      <3>1. CASE k = n + 1
        BY <1>1, <1>2, <2>2, <3>1
      <3>2. CASE k # n + 1
        <4>1. k \in 1..n /\ k \in j + 1..n
          BY <1>1, <3>2
        <4>2. QED
          BY <1>1, <2>1, <2>2, <4>1
      <3>3. QED
        BY <3>1, <3>2
    <2>3. j \in 1..n + 1
      BY <1>1
    <2>4. QED
      BY <1>1, <2>1, <2>2, <2>3 DEF LastFill
  <1>3. ASSUME e.kind = "trade", e.fill = key PROVE LastFill(K, key)
    <2>1. n + 1 \in 1..n + 1 /\ (n + 1) + 1..n + 1 = {}
      BY <1>1
    <2>2. QED
      BY <1>1, <1>3, <2>1 DEF LastFill
  <1>4. key = 0 => LastFill(K, key)
    BY DEF LastFill
  <1>5. QED
    BY <1>2, <1>3, <1>4 DEF K

(* What the code does not take for a barrier is none.                       *)
LEMMA NoBarrier ==
    ASSUME NEW H \in Seq(Pushed), NEW e \in Pushed, NEW key, LastFill(H, key),
           e.kind \in Quotes \/ (e.kind = "trade" /\ e.fill \in {0, key})
    PROVE  ~BarrierAt(Append(H, e), Len(Append(H, e)))
  <1> DEFINE K == Append(H, e)
             n == Len(H)
  <1>1. /\ n \in Nat /\ DOMAIN H = 1..n /\ DOMAIN K = 1..n + 1 /\ Len(K) = n + 1 /\ K[n + 1] = e
        /\ \A l \in 1..n : K[l] = H[l]
    BY OneMore
  <1>2. e.kind \notin {"direct", "disconnect"}
    BY MarketEventsAssumption
  <1>3. "trade" \notin Quotes
    BY MarketEventsAssumption
  <1> HIDE DEF K, n
  <1>4. CASE e.kind = "trade" /\ e.fill = key /\ key # 0
    <2>1. PICK j \in 1..n : /\ H[j].kind = "trade" /\ H[j].fill = key
                            /\ \A k \in j + 1..n : H[k].kind = "trade" => H[k].fill \in {0, key}
      BY <1>1, <1>4 DEF LastFill, n
    <2>2. (n + 1) - 1 = n /\ \A k \in j + 1..n : k \in 1..n
      BY <1>1
    <2>3. /\ j \in 1..(n + 1) - 1 /\ K[j].kind = "trade" /\ K[j].fill = K[n + 1].fill
          /\ \A k \in j + 1..(n + 1) - 1 : K[k].kind = "trade" => K[k].fill \in {0, K[n + 1].fill}
      BY <1>1, <1>4, <2>1, <2>2
    <2>4. QED
      BY <1>1, <1>2, <2>3 DEF BarrierAt, K
  <1>5. CASE ~(e.kind = "trade" /\ e.fill = key /\ key # 0)
    BY <1>1, <1>2, <1>3, <1>5 DEF BarrierAt, K
  <1>6. QED
    BY <1>4, <1>5

-----------------------------------------------------------------------------
(* The steps *)

Disconnect == [kind |-> "disconnect"]

(* After the push that makes the history K, with the segment s2             *)
Pushes(K, s2) ==
    /\ pushed' \in {K, Append(K, Disconnect)}
    /\ waiter' \in BOOLEAN /\ (waiter' => events' = <<>>)
    /\ lastFail' \in 0..Len(pushed')
    /\ QueueIs(events', coalesced', pushed', s2, delivered', lastFail')

LEMMA FailedKeeps ==
    ASSUME MarketInv, NEW e \in Pushed, Failed(Append(pushed, e)), NEW s2 \in Nat
    PROVE  Pushes(Append(pushed, e), s2)
  <1> DEFINE K == Append(pushed, e)
             d == delivered
  <1>1. pushed \in Seq(Pushed) /\ DeliveredIn(d, pushed) /\ waiter \in BOOLEAN
    BY DEF MarketInv, QueueIs, OutsInTime, DeliveredIn
  <1>2. DeliveredIn(d, K) /\ K \in Seq(Pushed) /\ Len(K) \in Nat
    BY <1>1, DeliveredKept, OneMore
  <1>3. /\ coalesced' = <<>> /\ pushed' = Append(K, Disconnect) /\ lastFail' = Len(K) + 1 /\ waiter' = FALSE
        /\ IF waiter THEN events' = <<>> /\ delivered' = Append(d, Len(K) + 1)
           ELSE events' = <<Direct(Len(K) + 1)>> /\ delivered' = d
    BY DEF Failed, Disconnect
  <1>4. Disconnect \in Pushed
    BY DEF Disconnect, Pushed
  <1> HIDE DEF K, d
  <1>5. /\ QueueIs(<<Direct(Len(K) + 1)>>, <<>>, Append(K, Disconnect), s2, d, Len(K) + 1)
        /\ QueueIs(<<>>, <<>>, Append(K, Disconnect), s2, Append(d, Len(K) + 1), Len(K) + 1)
    BY <1>2, <1>4, QueueFails
  <1>6. Len(K) + 1 \in 0..Len(Append(K, Disconnect))
    BY <1>2, <1>4
  <1>7. QueueIs(events', coalesced', pushed', s2, delivered', lastFail')
    BY <1>3, <1>5
  <1>8. QED
    BY <1>3, <1>6, <1>7 DEF Pushes, K

LEMMA EnqueueKeeps ==
    ASSUME MarketInv, NEW e \in Pushed, NEW s2, Opens(Append(pushed, e), segment, s2),
           NEW t \in MarketToken, NEW map, Enqueue(t, map, Append(pushed, e)),
           TokenIn(t, map, Append(pushed, e), s2), OutOf(t, map) = Len(pushed) + 1,
           t.id = 0 => <<t.kind, t.seg>> \notin DOMAIN coalesced,
           t.id = 0 => t.kind \in Quotes,
           \A key \in DOMAIN coalesced : key \in DOMAIN map /\ map[key] = coalesced[key],
           \A key \in DOMAIN map :
              \/ key \in DOMAIN coalesced /\ map[key] = coalesced[key]
              \/ /\ key \in Quotes \X Nat /\ map[key] \in DOMAIN Append(pushed, e)
                 /\ t = QuoteToken(key[1], key[2])
    PROVE  Pushes(Append(pushed, e), s2)
  <1> DEFINE K == Append(pushed, e)
             n == Len(pushed)
  <1>1. /\ pushed \in Seq(Pushed) /\ waiter \in BOOLEAN /\ (waiter => events = <<>>) /\ segment \in Nat
        /\ lastFail \in 0..n
        /\ QueueIs(events, coalesced, pushed, segment, delivered, lastFail)
    BY DEF MarketInv
  <1>2. K \in Seq(Pushed) /\ n \in Nat /\ Len(K) = n + 1
    BY <1>1, OneMore
  <1>3. CASE Len(events) >= QueueDepth
    <2>1. s2 \in Nat
      BY <1>1 DEF Opens
    <2>2. QED
      BY <1>3, <2>1, FailedKeeps DEF Enqueue
  <1>4. CASE ~(Len(events) >= QueueDepth) /\ waiter
    <2>1. /\ pushed' = K /\ lastFail' = lastFail /\ waiter' = FALSE /\ events' = events
          /\ delivered' = Append(delivered, OutOf(t, map))
          /\ coalesced' = Without(map, <<t.kind, t.seg>>)
      BY <1>4 DEF Enqueue, OutOf
    <2>2. events = <<>> /\ DOMAIN events = {}
      BY <1>1, <1>4
    <2>3. DOMAIN coalesced = {}
      BY <1>1, <2>2 DEF QueueIs, Tokens
    <2>4. DOMAIN coalesced' = {}
      <3>1. \A key \in DOMAIN map : key = <<t.kind, t.seg>>
        <4>1. ASSUME NEW key \in DOMAIN map PROVE key = <<t.kind, t.seg>>
          <5>1. key \in Quotes \X Nat /\ t = QuoteToken(key[1], key[2])
            BY <2>3
          <5>2. key = <<key[1], key[2]>> /\ t.kind = key[1] /\ t.seg = key[2]
            BY <5>1 DEF QuoteToken
          <5>3. QED
            BY <5>2
        <4>2. QED
          BY <4>1
      <3>2. QED
        BY <2>1, <3>1 DEF Without
    <2>5. QueueIs(<<>>, coalesced', K, s2, Append(delivered, n + 1), lastFail)
      BY <1>1, <2>2, <2>4, HandedOver
    <2>6. QueueIs(events', coalesced', pushed', s2, delivered', lastFail')
      BY <2>1, <2>2, <2>5
    <2>7. lastFail' \in 0..Len(pushed')
      BY <1>1, <1>2, <2>1
    <2> HIDE DEF K
    <2>8. QED
      BY <2>1, <2>6, <2>7 DEF Pushes, K
  <1>5. CASE ~(Len(events) >= QueueDepth) /\ ~waiter
    <2>1. /\ pushed' = K /\ lastFail' = lastFail /\ waiter' = waiter /\ events' = Append(events, t)
          /\ delivered' = delivered /\ coalesced' = map
      BY <1>5 DEF Enqueue
    <2>2. Len(events) < QueueDepth
      <3>1. Len(events) \in Nat
        BY <1>1 DEF QueueIs, Tokens
      <3>2. QED
        BY <1>5, <3>1, MarketEventsAssumption
    <2>3. QueueIs(Append(events, t), map, K, s2, delivered, lastFail)
      BY <1>1, <2>2, TokenAdded
    <2>4. QueueIs(events', coalesced', pushed', s2, delivered', lastFail')
      BY <2>1, <2>3
    <2>5. lastFail' \in 0..Len(pushed')
      BY <1>1, <1>2, <2>1
    <2> HIDE DEF K
    <2>6. QED
      BY <1>1, <1>5, <2>1, <2>4, <2>5 DEF Pushes, K
  <1>6. QED
    BY <1>1, <1>3, <1>4, <1>5
LEMMA PushesInv ==
    ASSUME MarketInv, NEW e \in Pushed, Len(pushed) < MaxPushes,
           segment' \in Nat, fillKey' \in FillKeys \cup {0}, LastFill(Append(pushed, e), fillKey'),
           Pushes(Append(pushed, e), segment')
    PROVE  MarketInv'
  <1> DEFINE K == Append(pushed, e)
             n == Len(pushed)
  <1>1. /\ pushed \in Seq(Pushed) /\ n \in Nat /\ K \in Seq(Pushed) /\ Len(K) = n + 1
    BY OneMore DEF MarketInv
  <1>2. Disconnect \in Pushed /\ Disconnect.kind = "disconnect"
    BY DEF Disconnect, Pushed
  <1>3. LastFill(K, fillKey')
    OBVIOUS
  <1>4. n < MaxPushes
    OBVIOUS
  <1>5. Pushes(K, segment')
    OBVIOUS
  <1> HIDE DEF K, n
  <1>6. LastFill(Append(K, Disconnect), fillKey')
    BY <1>1, <1>2, <1>3, FillKept
  <1>7. Append(K, Disconnect) \in Seq(Pushed) /\ Len(Append(K, Disconnect)) = n + 2
    BY <1>1, <1>2
  <1>8. pushed' \in Seq(Pushed) /\ Len(pushed') <= MaxPushes + 1 /\ LastFill(pushed', fillKey')
    <2>1. CASE pushed' = K
      BY <1>1, <1>3, <1>4, <2>1, MarketEventsAssumption
    <2>2. CASE pushed' = Append(K, Disconnect)
      BY <1>1, <1>4, <1>6, <1>7, <2>2, MarketEventsAssumption
    <2>3. QED
      BY <1>5, <2>1, <2>2 DEF Pushes
  <1>9. QED
    BY <1>5, <1>8 DEF Pushes, MarketInv

LEMMA PushDirectInv == ASSUME MarketInv, PushDirect PROVE MarketInv'
  <1> DEFINE e == [kind |-> "direct"]
             K == Append(pushed, e)
             n == Len(pushed)
             t == Direct(n + 1)
  <1>1. /\ Len(pushed) < MaxPushes /\ segment' = segment + 1 /\ fillKey' = fillKey
        /\ Enqueue(t, coalesced, K)
    BY DEF PushDirect
  <1>2. e \in Pushed /\ e.kind = "direct"
    BY DEF Pushed
  <1>3. pushed \in Seq(Pushed) /\ segment \in Nat /\ fillKey \in FillKeys \cup {0} /\ LastFill(pushed, fillKey)
    BY DEF MarketInv
  <1> HIDE DEF e
  <1>4. n \in Nat /\ DOMAIN K = 1..n + 1
    BY <1>2, <1>3, OneMore
  <1>5. LastFill(K, fillKey')
    BY <1>1, <1>2, <1>3, FillKept
  <1> HIDE DEF n, K
  <1>6. t \in MarketToken /\ t.kind = "direct" /\ t.id = n + 1 /\ t.seg = 0 /\ t.id # 0
    BY <1>4 DEF Direct, MarketToken
  <1> HIDE DEF t
  <1>7. OutOf(t, coalesced) = n + 1
    BY <1>6 DEF OutOf
  <1>8. TokenIn(t, coalesced, K, segment + 1)
    <2>1. "direct" \notin Quotes
      BY MarketEventsAssumption
    <2>2. t.seg <= segment + 1 /\ n + 1 \in DOMAIN K
      BY <1>3, <1>4, <1>6
    <2>3. QED
      BY <1>6, <1>7, <2>1, <2>2 DEF TokenIn
  <1>9. Opens(K, segment, segment')
    BY <1>1 DEF Opens
  <1>10. Pushes(K, segment')
    BY <1>1, <1>2, <1>6, <1>7, <1>8, <1>9, EnqueueKeeps DEF K, n
  <1>11. segment' \in Nat
    BY <1>1, <1>3
  <1>12. QED
    BY <1>1, <1>2, <1>3, <1>5, <1>10, <1>11, PushesInv DEF K

(* A quote that comes after the last barrier is alike to what has come for  *)
(* the key of the current segment.                                          *)
LEMMA QuotesAlike ==
    ASSUME MarketInv, NEW e \in Pushed, ~BarrierAt(Append(pushed, e), Len(pushed) + 1),
           <<e.kind, segment>> \in DOMAIN coalesced
    PROVE  LET c == coalesced[<<e.kind, segment>>]
               K == Append(pushed, e)
           IN /\ c \in DOMAIN pushed /\ pushed[c].kind = e.kind /\ pushed[c].at \in Nat
              /\ QuoteToken(e.kind, segment) \in ToSet(events)
              /\ Alike(K, c, Len(pushed) + 1) /\ Alike(K, Len(pushed) + 1, c)
  <1> DEFINE K == Append(pushed, e)
             n == Len(pushed)
             key == <<e.kind, segment>>
             c == coalesced[key]
             t == QuoteToken(e.kind, segment)
  <1>1. pushed \in Seq(Pushed) /\ segment \in Nat /\ Tokens(events, coalesced, pushed, segment)
    BY DEF MarketInv, QueueIs
  <1>2. /\ n \in Nat /\ DOMAIN pushed = 1..n /\ DOMAIN K = 1..n + 1 /\ K[n + 1] = e
        /\ \A l \in 1..n : K[l] = pushed[l] /\ pushed[l] \in Pushed
    BY <1>1, OneMore
  <1>3. \A b \in 1..n : BarrierAt(K, b) <=> BarrierAt(pushed, b)
    BY <1>1, <1>2, BarriersKept
  <1>4. ~BarrierAt(K, n + 1)
    OBVIOUS
  <1>5. key \in DOMAIN coalesced /\ key[1] = e.kind /\ key[2] = segment
    OBVIOUS
  <1> HIDE DEF K, n, key
  <1>6. key \in Quotes \X Nat /\ c \in DOMAIN pushed /\ \E i \in DOMAIN events : events[i] = QuoteToken(key[1], key[2])
    BY <1>1, <1>5 DEF Tokens
  <1>7. PICK i \in DOMAIN events : events[i] = t
    BY <1>5, <1>6
  <1>8. t.kind = e.kind /\ t.id = 0 /\ t.seg = segment /\ e.kind \in Quotes /\ <<t.kind, t.seg>> = key
    BY <1>5, <1>6 DEF QuoteToken, key
  <1>9. "direct" \notin Quotes
    BY MarketEventsAssumption
  <1> HIDE DEF t
  <1>10. TokenIn(t, coalesced, pushed, segment) /\ OutOf(t, coalesced) = c
    BY <1>1, <1>7, <1>8 DEF Tokens, OutOf
  <1>11. pushed[c].kind = e.kind /\ LastBarrier(pushed, c)
    BY <1>8, <1>9, <1>10 DEF TokenIn
  <1>12. pushed[c].at \in Nat
    <2>1. pushed[c] \in Pushed /\ pushed[c].kind \notin {"direct", "disconnect"}
      BY <1>2, <1>6, <1>8, <1>11, MarketEventsAssumption
    <2>2. QED
      BY <2>1, MarketEventsAssumption DEF Pushed
  <1>13. t \in ToSet(events)
    BY <1>7 DEF ToSet
  <1>14. \A b \in 1..n + 1 : BarrierAt(K, b) => b <= c /\ b <= n + 1
    <2> SUFFICES ASSUME NEW b \in 1..n + 1, BarrierAt(K, b) PROVE b <= c /\ b <= n + 1
      OBVIOUS
    <2>1. b # n + 1
      BY <1>4
    <2>2. b \in 1..n /\ b <= n + 1
      BY <1>2, <2>1
    <2>3. QED
      BY <1>2, <1>3, <1>11, <2>2 DEF LastBarrier
  <1>15. K[c].kind = e.kind /\ K[n + 1].kind = e.kind
    BY <1>2, <1>6, <1>11
  <1>16. Alike(K, c, n + 1) /\ Alike(K, n + 1, c)
    BY <1>2, <1>14, <1>15 DEF Alike
  <1>17. QED
    BY <1>6, <1>11, <1>12, <1>13, <1>16 DEF K, n, key, t

(* The quote is older than the one it would replace.                        *)
LEMMA QuoteDropped ==
    ASSUME MarketInv, NEW e \in Pushed, e.kind \in Quotes,
           ~BarrierAt(Append(pushed, e), Len(pushed) + 1),
           <<e.kind, segment>> \in DOMAIN coalesced,
           e.at < pushed[coalesced[<<e.kind, segment>>]].at
    PROVE  QueueIs(events, coalesced, Append(pushed, e), segment, delivered, lastFail)
  <1> DEFINE K == Append(pushed, e)
             n == Len(pushed)
             key == <<e.kind, segment>>
             c == coalesced[key]
             X == Outs(events, coalesced, delivered)
  <1>1. /\ pushed \in Seq(Pushed) /\ segment \in Nat /\ Tokens(events, coalesced, pushed, segment)
        /\ QueueIs(events, coalesced, pushed, segment, delivered, lastFail)
        /\ OutsInTime(events, coalesced, delivered, pushed) /\ delivered \in Seq(DOMAIN pushed)
    BY DEF MarketInv, QueueIs
  <1>2. /\ n \in Nat /\ DOMAIN pushed = 1..n /\ DOMAIN K = 1..n + 1 /\ K[n + 1] = e /\ Len(K) = n + 1
        /\ K \in Seq(Pushed)
        /\ \A l \in 1..n : K[l] = pushed[l]
    BY <1>1, OneMore
  <1>3. /\ c \in DOMAIN pushed /\ pushed[c].kind = e.kind /\ pushed[c].at \in Nat
        /\ QuoteToken(e.kind, segment) \in ToSet(events)
        /\ Alike(K, n + 1, c)
    BY QuotesAlike
  <1>4. \A x, y \in DOMAIN pushed : InTime(pushed, x, y) => InTime(K, x, y)
    BY <1>1, InTimeKept
  <1>5. Opens(K, segment, segment)
    BY <1>2 DEF Opens
  <1>6. \A i \in DOMAIN events : events[i] \in MarketToken /\ TokenIn(events[i], coalesced, pushed, segment)
    BY <1>1 DEF Tokens
  <1>7. \A i \in DOMAIN events : TokenIn(events[i], coalesced, K, segment)
    BY <1>1, <1>5, <1>6, TokenKept
  <1>8. key \in DOMAIN coalesced
    OBVIOUS
  <1>9. X \subseteq DOMAIN pushed
    BY <1>1, OutsFound
  <1>10. c \in X
    <2>1. PICK i \in DOMAIN events : events[i] = QuoteToken(e.kind, segment)
      BY <1>3 DEF ToSet
    <2>2. OutOf(events[i], coalesced) = c
      BY <2>1 DEF OutOf, QuoteToken
    <2>3. QED
      BY <2>2 DEF Outs
  <1>11. e.at < pushed[c].at /\ e.at \in Nat
    BY MarketEventsAssumption DEF Pushed
  <1> HIDE DEF K, n, key, X, c
  <1>12. Tokens(events, coalesced, K, segment)
    <2>1. \A k \in DOMAIN coalesced : coalesced[k] \in DOMAIN K
      <3>1. \A k \in DOMAIN coalesced : coalesced[k] \in DOMAIN pushed
        BY <1>1 DEF Tokens
      <3>2. QED
        BY <1>2, <3>1
    <2>2. QED
      BY <1>1, <1>7, <2>1 DEF Tokens
  <1>13. delivered \in Seq(DOMAIN K)
    <2>1. Len(delivered) \in Nat /\ DOMAIN delivered = 1..Len(delivered)
          /\ delivered = [i \in 1..Len(delivered) |-> delivered[i]]
          /\ \A i \in 1..Len(delivered) : delivered[i] \in DOMAIN K
      BY <1>1, <1>2
    <2>2. QED
      BY <2>1
  <1>14. OutsInTime(events, coalesced, delivered, K)
    <2>1. \A i \in DOMAIN delivered : delivered[i] \in DOMAIN pushed
      BY <1>1
    <2>2. \A i \in DOMAIN events : OutOf(events[i], coalesced) \in DOMAIN pushed
      BY <1>6 DEF TokenIn
    <2>3. QED
      BY <1>1, <1>4, <2>1, <2>2 DEF OutsInTime
  <1>15. OutsKeep(events, coalesced, delivered, K, lastFail)
    <2>1. X \subseteq DOMAIN K
      BY <1>2, <1>9
    <2>2. \A x \in X : KeptOne(X, K, x)
      BY <1>2, <2>1, KeptItself
    <2>3. NewerQuote(K, n + 1, c)
      BY <1>2, <1>3, <1>11 DEF NewerQuote
    <2>4. KeptOne(X, K, n + 1)
      BY <1>2, <1>3, <1>10, <2>3 DEF KeptOne
    <2>5. \A i \in DOMAIN K : i > lastFail => KeptOne(X, K, i)
      BY <1>1, <2>1, <2>2, <2>4, OutsKeepMore DEF K, n, X
    <2>6. QED
      BY <2>5 DEF OutsKeep, X
  <1>16. QED
    BY <1>12, <1>13, <1>14, <1>15 DEF QueueIs, K

(* The entries at the places P are some of the tokens, in their order.      *)
LEMMA RestOf ==
    ASSUME NEW ev \in Seq(MarketToken), NEW P, P \subseteq DOMAIN ev
    PROVE  /\ \E m : InOrder(m, EntriesAt(ev, P), ev, P)
           /\ \A m : InOrder(m, EntriesAt(ev, P), ev, P) => Rest(EntriesAt(ev, P), m, ev)
           /\ P # DOMAIN ev => Len(EntriesAt(ev, P)) < Len(ev)
  <1> DEFINE r == EntriesAt(ev, P)
             z == Len(ev)
  <1>1. z \in Nat /\ DOMAIN ev = 1..z /\ P \subseteq 1..z
    OBVIOUS
  <1>2. /\ r \in Seq(MarketToken) /\ Len(r) = Cardinality(P) /\ Cardinality(P) \in 0..z
        /\ \E m : InOrder(m, r, ev, P)
    BY <1>1, EntriesInOrder
  <1>3. IsFiniteSet(1..z) /\ Cardinality(1..z) = z
    <2> HIDE DEF z
    <2>1. 1 \in Int /\ z \in Int
      BY <1>1
    <2>2. IsFiniteSet(1..z) /\ Cardinality(1..z) = IF 1 > z THEN 0 ELSE z - 1 + 1
      BY <2>1, FS_Interval
    <2>3. QED
      BY <1>1, <2>2
  <1>4. Cardinality(P) = z => P = 1..z
    BY <1>1, <1>3, FS_Subset
  <1> HIDE DEF r, z
  <1>5. P # DOMAIN ev => Len(r) < z
    BY <1>1, <1>2, <1>4
  <1>6. ASSUME NEW m, InOrder(m, r, ev, P) PROVE Rest(r, m, ev)
    <2>1. m \in [1..Len(r) -> P]
      BY <1>6 DEF InOrder
    <2>2. m \in [1..Len(r) -> DOMAIN ev]
      BY <2>1
    <2>3. QED
      BY <1>2, <1>6, <2>2 DEF InOrder, Rest
  <1>7. QED
    BY <1>2, <1>5, <1>6 DEF r, z

(* The quote replaces the one of its key; the token moves to the end.       *)
LEMMA QuoteReplaced ==
    ASSUME MarketInv, NEW e \in Pushed, e.kind \in Quotes,
           ~BarrierAt(Append(pushed, e), Len(pushed) + 1),
           <<e.kind, segment>> \in DOMAIN coalesced,
           ~(e.at < pushed[coalesced[<<e.kind, segment>>]].at),
           NEW map, DOMAIN map = DOMAIN coalesced,
           \A k \in DOMAIN coalesced : map[k] = IF k = <<e.kind, segment>> THEN Len(pushed) + 1 ELSE coalesced[k],
           NEW r, r = EntriesAt(events, {i \in DOMAIN events : events[i] # QuoteToken(e.kind, segment)})
    PROVE  QueueIs(Append(r, QuoteToken(e.kind, segment)), map, Append(pushed, e), segment, delivered, lastFail)
  <1> DEFINE K == Append(pushed, e)
             n == Len(pushed)
             key == <<e.kind, segment>>
             c == coalesced[key]
             t == QuoteToken(e.kind, segment)
             P == {i \in DOMAIN events : events[i] # t}
             X == Outs(events, coalesced, delivered)
             q == Append(r, t)
             Y == Outs(q, map, delivered)
             z == Len(r)
  <1>1. /\ pushed \in Seq(Pushed) /\ segment \in Nat /\ Tokens(events, coalesced, pushed, segment)
        /\ QueueIs(events, coalesced, pushed, segment, delivered, lastFail)
        /\ delivered \in Seq(DOMAIN pushed)
    BY DEF MarketInv, QueueIs
  <1>2. /\ n \in Nat /\ DOMAIN pushed = 1..n /\ DOMAIN K = 1..n + 1 /\ K[n + 1] = e /\ Len(K) = n + 1
        /\ K \in Seq(Pushed) /\ n + 1 \in DOMAIN K /\ n + 1 # 0 /\ DOMAIN pushed \subseteq DOMAIN K
        /\ \A l \in 1..n : K[l] = pushed[l]
    BY <1>1, OneMore
  <1>3. /\ c \in DOMAIN pushed /\ pushed[c].kind = e.kind /\ pushed[c].at \in Nat
        /\ t \in ToSet(events) /\ Alike(K, c, n + 1)
    BY QuotesAlike
  <1>4. Opens(K, segment, segment)
    BY <1>2 DEF Opens
  <1>5. events \in Seq(MarketToken) /\ Len(events) <= QueueDepth
        /\ \A i \in DOMAIN events : events[i] \in MarketToken /\ TokenIn(events[i], coalesced, pushed, segment)
    BY <1>1 DEF Tokens
  <1>6. \A i \in DOMAIN events : TokenIn(events[i], coalesced, K, segment)
    BY <1>1, <1>4, <1>5, TokenKept
  <1>7. key \in DOMAIN coalesced /\ r = EntriesAt(events, P)
    OBVIOUS
  <1>8. X \subseteq DOMAIN pushed
    BY <1>1, OutsFound
  <1>9. ~(e.at < pushed[c].at) /\ e.at \in Nat
    BY MarketEventsAssumption DEF Pushed
  <1>10. /\ t \in MarketToken /\ t.kind = e.kind /\ t.id = 0 /\ t.seg = segment /\ <<t.kind, t.seg>> = key
         /\ t = QuoteToken(key[1], key[2])
    BY <1>1 DEF MarketToken, QuoteToken
  <1>11. /\ DOMAIN map = DOMAIN coalesced /\ map[key] = n + 1
         /\ \A k \in DOMAIN coalesced : k # key => map[k] = coalesced[k]
    BY <1>7
  <1>12. P \subseteq DOMAIN events /\ P # DOMAIN events
    BY <1>3 DEF ToSet
  <1>13. e.kind \in Quotes
    OBVIOUS
  <1>14. /\ {"direct", "trade"} \cap Quotes = {}
         /\ \A u, v \in MarketToken : u.kind = v.kind /\ u.id = v.id /\ u.seg = v.seg => u = v
    BY MarketEventsAssumption DEF MarketToken
  <1>15. (\E m : InOrder(m, r, events, P)) /\ \A m : InOrder(m, r, events, P) => Rest(r, m, events)
         /\ Len(r) < Len(events)
    BY <1>5, <1>7, <1>12, RestOf
  <1>16. \A i \in DOMAIN events : i \in P <=> events[i] # t
    OBVIOUS
  <1>17. /\ coalesced[key] = c
         /\ \A k \in DOMAIN coalesced : k \in Quotes \X Nat /\ coalesced[k] \in DOMAIN pushed
                                        /\ \E i \in DOMAIN events : events[i] = QuoteToken(k[1], k[2])
    BY <1>1 DEF Tokens
  <1> HIDE DEF K, n, key, c, t, P, X
  <1>18. PICK m : InOrder(m, r, events, P) /\ Rest(r, m, events)
    BY <1>15
  <1>19. /\ r \in Seq(MarketToken) /\ z < QueueDepth /\ z \in Nat /\ DOMAIN r = 1..z
         /\ q \in Seq(MarketToken) /\ Len(q) = z + 1 /\ DOMAIN q = 1..z + 1
         /\ q[z + 1] = t /\ \A k \in 1..z : q[k] = r[k]
    <2>1. r \in Seq(MarketToken) /\ Len(events) \in Nat
      BY <1>5, <1>18 DEF Rest
    <2>2. q \in Seq(MarketToken) /\ Len(q) = Len(r) + 1 /\ Len(r) \in Nat /\ q[Len(r) + 1] = t
          /\ \A k \in 1..Len(r) : q[k] = r[k]
      BY <1>10, <2>1
    <2>3. QED
      BY <1>5, <1>15, <2>1, <2>2, MarketEventsAssumption
  <1>20. ASSUME NEW i \in P
         PROVE  OutOf(events[i], map) = OutOf(events[i], coalesced) /\ TokenIn(events[i], map, K, segment)
    <2> DEFINE u == events[i]
    <2>1. u \in MarketToken /\ TokenIn(u, coalesced, K, segment) /\ u # t /\ TokenIn(u, coalesced, pushed, segment)
      BY <1>5, <1>6, <1>12, <1>16
    <2>2. CASE u.id # 0
      <3>1. OutOf(u, map) = OutOf(u, coalesced) /\ u.kind \notin Quotes
        BY <2>1, <2>2 DEF OutOf, TokenIn
      <3>2. QED
        BY <2>1, <3>1 DEF TokenIn
    <2>3. CASE u.id = 0
      <3>1. u.kind \in Quotes
        BY <2>1, <2>3 DEF MarketToken, TokenIn
      <3>2. <<u.kind, u.seg>> \in DOMAIN coalesced
        BY <2>1, <3>1 DEF TokenIn
      <3>3. <<u.kind, u.seg>> # key
        <4>1. ~(u.kind = t.kind /\ u.seg = t.seg)
          BY <1>10, <1>14, <2>1, <2>3
        <4> HIDE DEF u
        <4>2. QED
          BY <1>10, <4>1
      <3>4. <<u.kind, u.seg>> \in DOMAIN map /\ map[<<u.kind, u.seg>>] = coalesced[<<u.kind, u.seg>>]
        BY <1>11, <3>2, <3>3
      <3>5. OutOf(u, map) = OutOf(u, coalesced)
        BY <2>3, <3>4 DEF OutOf
      <3>6. QED
        BY <2>1, <3>4, <3>5 DEF TokenIn
    <2>4. QED
      BY <2>2, <2>3
  <1>21. \A k \in 1..z : m[k] \in P /\ r[k] = events[m[k]]
    BY <1>18 DEF InOrder
  <1>22. \A i \in P : \E k \in 1..z : r[k] = events[i]
    <2> SUFFICES ASSUME NEW i \in P PROVE \E k \in 1..z : r[k] = events[i]
      OBVIOUS
    <2>1. PICK k \in 1..z : m[k] = i
      BY <1>18 DEF InOrder
    <2>2. r[k] = events[i]
      BY <1>21, <2>1
    <2>3. QED
      BY <2>2
  <1>23. OutOf(t, map) = n + 1
    BY <1>10, <1>11 DEF OutOf
  <1>24. TokenIn(t, map, K, segment)
    <2>1. LastBarrier(K, n + 1)
      BY <1>2 DEF LastBarrier
    <2>2. QED
      BY <1>1, <1>2, <1>7, <1>10, <1>11, <1>13, <1>14, <1>23, <2>1 DEF TokenIn
  <1>25. \A k \in 1..z : r[k] # t
    BY <1>12, <1>16, <1>21
  <1>26. ASSUME NEW k \in DOMAIN map
         PROVE  /\ k \in Quotes \X Nat /\ map[k] \in DOMAIN K
                /\ \/ \E l \in 1..z : r[l] = QuoteToken(k[1], k[2])
                   \/ t = QuoteToken(k[1], k[2])
    <2>1. k \in DOMAIN coalesced /\ k \in Quotes \X Nat /\ coalesced[k] \in DOMAIN pushed
      BY <1>11, <1>17
    <2>2. CASE k = key
      BY <1>2, <1>10, <1>11, <2>1, <2>2
    <2>3. CASE k # key
      <3>1. PICK i \in DOMAIN events : events[i] = QuoteToken(k[1], k[2])
        BY <1>17, <2>1
      <3>2. CASE events[i] = t
        BY <1>2, <1>11, <2>1, <2>3, <3>1, <3>2
      <3>3. CASE events[i] # t
        <4>1. i \in P
          BY <1>16, <3>3
        <4>2. PICK l \in 1..z : r[l] = events[i]
          BY <1>22, <4>1
        <4>3. r[l] = QuoteToken(k[1], k[2])
          BY <3>1, <4>2
        <4>4. map[k] \in DOMAIN K
          BY <1>2, <1>11, <2>1, <2>3
        <4>5. QED
          BY <2>1, <4>3, <4>4
      <3>4. QED
        BY <3>2, <3>3
    <2>4. QED
      BY <2>2, <2>3
  <1>27. n + 1 \in Y
    <2>1. z + 1 \in DOMAIN q /\ OutOf(q[z + 1], map) = n + 1
      BY <1>19, <1>23
    <2> HIDE DEF q
    <2>2. QED
      BY <2>1 DEF Outs
  <1>28. \A i \in P : OutOf(events[i], coalesced) \in Y
    <2> SUFFICES ASSUME NEW i \in P PROVE OutOf(events[i], coalesced) \in Y
      OBVIOUS
    <2>1. PICK k \in 1..z : r[k] = events[i]
      BY <1>22
    <2>2. k \in DOMAIN q /\ OutOf(q[k], map) = OutOf(events[i], coalesced)
      BY <1>19, <1>20, <2>1
    <2> HIDE DEF q
    <2>3. QED
      BY <2>2 DEF Outs
  <1>29. KeptOne(Y, K, c)
    <2>1. K[c].kind \in Quotes /\ K[c].at = pushed[c].at /\ c \in 1..n
      BY <1>2, <1>3, <1>13
    <2>2. NewerQuote(K, c, n + 1)
      <3>1. c <= n + 1 /\ (e.at > pushed[c].at \/ e.at = pushed[c].at)
        BY <1>2, <1>3, <1>9, <2>1
      <3>2. QED
        BY <1>2, <2>1, <3>1 DEF NewerQuote
    <2> HIDE DEF Y
    <2>3. QED
      BY <1>3, <1>27, <2>1, <2>2 DEF KeptOne
  <1>30. ASSUME NEW x \in X PROVE KeptOne(Y, K, x)
    <2>1. x \in DOMAIN K
      BY <1>2, <1>8
    <2>2. CASE x \in ToSet(delivered)
      <3>1. x \in Y
        BY <2>2 DEF Outs
      <3> HIDE DEF Y
      <3>2. QED
        BY <1>2, <2>1, <3>1, KeptItself
    <2>3. CASE x \notin ToSet(delivered)
      <3>1. PICK i \in DOMAIN events : x = OutOf(events[i], coalesced)
        BY <2>3 DEF Outs, X
      <3>2. CASE i \in P
        <4>1. x \in Y
          BY <1>28, <3>1, <3>2
        <4> HIDE DEF Y
        <4>2. QED
          BY <1>2, <2>1, <4>1, KeptItself
      <3>3. CASE i \notin P
        <4>1. events[i] = t
          BY <1>16, <3>3
        <4>2. x = c
          BY <1>10, <1>17, <3>1, <4>1 DEF OutOf
        <4>3. QED
          BY <1>29, <4>2
      <3>4. QED
        BY <3>2, <3>3
    <2>4. QED
      BY <2>2, <2>3
  <1>31. /\ \A k \in 1..Len(r) : OutOf(r[k], map) = OutOf(r[k], coalesced) /\ TokenIn(r[k], map, Append(pushed, e), segment)
         /\ Len(r) < QueueDepth /\ Rest(r, m, events)
         /\ \A k \in 1..Len(r) : r[k] # t
    BY <1>18, <1>19, <1>20, <1>21, <1>25 DEF K
  <1>32. /\ pushed \in Seq(Pushed) /\ segment \in Nat /\ t \in MarketToken
         /\ QueueIs(events, coalesced, pushed, segment, delivered, lastFail)
         /\ Opens(Append(pushed, e), segment, segment)
         /\ TokenIn(t, map, Append(pushed, e), segment) /\ OutOf(t, map) = Len(pushed) + 1
    BY <1>1, <1>4, <1>10, <1>23, <1>24 DEF K, n
  <1>33. \A k \in DOMAIN map : /\ k \in Quotes \X Nat /\ map[k] \in DOMAIN Append(pushed, e)
                               /\ \/ \E l \in 1..Len(r) : r[l] = QuoteToken(k[1], k[2])
                                  \/ t = QuoteToken(k[1], k[2])
    BY <1>26 DEF K
  <1>34. \A x \in Outs(events, coalesced, delivered) :
            KeptOne(Outs(Append(r, t), map, delivered), Append(pushed, e), x)
    BY <1>30 DEF K, X
  <1>35. QueueIs(Append(r, t), map, Append(pushed, e), segment, delivered, lastFail)
    BY <1>31, <1>32, <1>33, <1>34, TokenAppended
  <1>36. QED
    BY <1>35 DEF t

LEMMA PushQuoteInv ==
    ASSUME MarketInv, NEW kind \in Quotes, NEW at \in Levels, PushQuote(kind, at)
    PROVE  MarketInv'
  <1> DEFINE e == [kind |-> kind, at |-> at]
             K == Append(pushed, e)
             n == Len(pushed)
             key == <<kind, segment>>
             map == [k \in DOMAIN coalesced \cup {key} |-> IF k = key THEN n + 1 ELSE coalesced[k]]
             t == QuoteToken(kind, segment)
             r == EntriesAt(events, {i \in DOMAIN events : events[i] # t})
  <1>1. n + 1 <= MaxPushes /\ segment' = segment /\ fillKey' = fillKey
    BY DEF PushQuote
  <1>2. \/ key \notin DOMAIN coalesced /\ Enqueue(t, map, K)
        \/ /\ key \in DOMAIN coalesced /\ at < pushed[coalesced[key]].at
           /\ pushed' = K /\ UNCHANGED <<events, coalesced, delivered, waiter, lastFail>>
        \/ /\ key \in DOMAIN coalesced /\ ~(at < pushed[coalesced[key]].at)
           /\ pushed' = K /\ coalesced' = map /\ events' = Append(r, t)
           /\ UNCHANGED <<delivered, waiter, lastFail>>
    BY DEF PushQuote
  <1>3. e \in Pushed /\ e.kind = kind /\ e.at = at
    BY DEF Pushed
  <1>4. /\ pushed \in Seq(Pushed) /\ segment \in Nat /\ fillKey \in FillKeys \cup {0}
        /\ LastFill(pushed, fillKey) /\ lastFail \in 0..n /\ waiter \in BOOLEAN /\ (waiter => events = <<>>)
        /\ Tokens(events, coalesced, pushed, segment)
    BY DEF MarketInv, QueueIs
  <1>5. {"direct", "trade", "disconnect"} \cap Quotes = {}
    BY MarketEventsAssumption
  <1>6. /\ DOMAIN map = DOMAIN coalesced \cup {key} /\ map[key] = n + 1
        /\ \A k \in DOMAIN coalesced : k # key => map[k] = coalesced[k]
        /\ \A k \in DOMAIN coalesced : map[k] = IF k = key THEN n + 1 ELSE coalesced[k]
    OBVIOUS
  <1> HIDE DEF map, e, r
  <1>7. n \in Nat /\ DOMAIN K = 1..n + 1 /\ Len(K) = n + 1 /\ K[n + 1] = e /\ n + 1 \in DOMAIN K
    BY <1>3, <1>4, OneMore
  <1>8. ~BarrierAt(K, Len(K)) /\ LastFill(K, fillKey)
    BY <1>3, <1>4, <1>5, NoBarrier, FillKept
  <1> HIDE DEF K, n
  <1>9. Opens(K, segment, segment) /\ ~BarrierAt(K, n + 1)
    BY <1>7, <1>8 DEF Opens
  <1>10. /\ t \in MarketToken /\ t.kind = kind /\ t.id = 0 /\ t.seg = segment /\ <<t.kind, t.seg>> = key
         /\ t = QuoteToken(key[1], key[2]) /\ key \in Quotes \X Nat
    BY <1>4 DEF MarketToken, QuoteToken
  <1>11. Pushes(K, segment)
    <2>1. CASE key \notin DOMAIN coalesced /\ Enqueue(t, map, K)
      <3>1. OutOf(t, map) = n + 1
        BY <1>6, <1>10 DEF OutOf
      <3> HIDE DEF t, key
      <3>2. TokenIn(t, map, K, segment)
        <4>1. LastBarrier(K, n + 1)
          BY <1>7 DEF LastBarrier
        <4>2. key \in DOMAIN map
          BY <1>6
        <4>3. QED
          BY <1>3, <1>4, <1>5, <1>6, <1>7, <1>10, <3>1, <4>1, <4>2 DEF TokenIn
      <3>3. /\ \A k \in DOMAIN coalesced : k \in DOMAIN map /\ map[k] = coalesced[k]
            /\ \A k \in DOMAIN map :
                 \/ k \in DOMAIN coalesced /\ map[k] = coalesced[k]
                 \/ /\ k \in Quotes \X Nat /\ map[k] \in DOMAIN K /\ t = QuoteToken(k[1], k[2])
        BY <1>6, <1>7, <1>10, <2>1
      <3>4. t.id = 0 => <<t.kind, t.seg>> \notin DOMAIN coalesced
        BY <1>10, <2>1
      <3>5. QED
        BY <1>3, <1>9, <1>10, <2>1, <3>1, <3>2, <3>3, <3>4, EnqueueKeeps DEF K, n
    <2>2. CASE /\ key \in DOMAIN coalesced /\ at < pushed[coalesced[key]].at
               /\ pushed' = K /\ UNCHANGED <<events, coalesced, delivered, waiter, lastFail>>
      <3>1. QueueIs(events, coalesced, K, segment, delivered, lastFail)
        BY <1>3, <1>9, <2>2, QuoteDropped DEF K, n
      <3>2. lastFail \in 0..Len(K)
        BY <1>4, <1>7
      <3>3. QED
        BY <1>4, <2>2, <3>1, <3>2 DEF Pushes
    <2>3. CASE /\ key \in DOMAIN coalesced /\ ~(at < pushed[coalesced[key]].at)
               /\ pushed' = K /\ coalesced' = map /\ events' = Append(r, t)
               /\ UNCHANGED <<delivered, waiter, lastFail>>
      <3>1. DOMAIN map = DOMAIN coalesced
        BY <1>6, <2>3
      <3>2. QueueIs(Append(r, t), map, K, segment, delivered, lastFail)
        BY <1>3, <1>6, <1>9, <2>3, <3>1, QuoteReplaced DEF K, n, r
      <3>3. lastFail \in 0..Len(K)
        BY <1>4, <1>7
      <3>4. ~waiter
        <4>1. events # <<>>
          <5>1. \E i \in DOMAIN events : TRUE
            BY <1>4, <2>3 DEF Tokens
          <5>2. DOMAIN <<>> = {}
            OBVIOUS
          <5>3. QED
            BY <5>1, <5>2
        <4>2. QED
          BY <1>4, <4>1
      <3>5. QueueIs(events', coalesced', pushed', segment, delivered', lastFail')
        BY <2>3, <3>2
      <3>6. QED
        BY <1>4, <2>3, <3>3, <3>4, <3>5 DEF Pushes
    <2>4. QED
      BY <1>2, <2>1, <2>2, <2>3
  <1>12. n < MaxPushes
    BY <1>1, <1>7, MarketEventsAssumption
  <1>13. QED
    BY <1>1, <1>3, <1>4, <1>8, <1>11, <1>12, PushesInv DEF K, n

(* What a selection S of the trades of a segment keeps of the trade j       *)
KeepsTrade(S, H, j) ==
    /\ \E k \in S : k <= j
    /\ \E k \in S : k >= j
    /\ \E k \in S : H[k].at <= H[j].at
    /\ \E k \in S : H[k].at >= H[j].at
    /\ H[j].fill # 0 => \E k \in S : k <= j /\ H[k].fill # 0

LEMMA SelectKeeps ==
    ASSUME NEW N \in Nat, NEW ids, ids \subseteq 1..N, NEW H, \A i \in ids : H[i].at \in Nat,
           NEW j \in ids
    PROVE  Select(ids, H) \subseteq ids /\ KeepsTrade(Select(ids, H), H, j)
  <1> DEFINE S == Select(ids, H)
             P == [i \in ids |-> H[i].at]
             F == {i \in ids : H[i].fill # 0}
  <1>1. ids \subseteq Nat /\ ids \subseteq 0..N /\ ids # {} /\ \A i \in ids : P[i] \in Nat /\ P[i] = H[i].at
    <2>1. \A i \in ids : i \in 1..N
      OBVIOUS
    <2>2. \A i \in 1..N : i \in Nat /\ i \in 0..N
      OBVIOUS
    <2>3. ids \subseteq Nat /\ ids \subseteq 0..N
      BY <2>1, <2>2, Zenon
    <2>4. \A i \in ids : P[i] = H[i].at
      OBVIOUS
    <2> HIDE DEF P
    <2>5. QED
      BY <2>3, <2>4
  <1>2. \A i \in ids :
           i \in S <=> \/ \A k \in ids : i <= k
                       \/ \A k \in ids : k <= i
                       \/ i \in F /\ \A k \in F : i <= k
                       \/ \A k \in ids : P[i] < P[k] \/ (P[i] = P[k] /\ i <= k)
                       \/ \A k \in ids : P[i] > P[k] \/ (P[i] = P[k] /\ i <= k)
    BY DEF Select
  <1>3. S \subseteq ids
    BY DEF Select
  <1> HIDE DEF S, P
  <1>4. \E k \in S : k <= j
    <2>1. PICK k \in ids : \A l \in ids : k <= l
      BY <1>1, LeastOf
    <2>2. QED
      BY <1>2, <2>1
  <1>5. \E k \in S : k >= j
    <2>1. PICK k \in ids : \A l \in ids : l <= k
      BY <1>1, GreatestOf
    <2>2. k >= j
      BY <1>1, <2>1
    <2>3. QED
      BY <1>2, <2>1, <2>2
  <1>6. ASSUME H[j].fill # 0 PROVE \E k \in S : k <= j /\ H[k].fill # 0
    <2>1. F \subseteq Nat /\ j \in F
      BY <1>1, <1>6
    <2>2. PICK k \in F : \A l \in F : k <= l
      BY <2>1, LeastOf
    <2>3. k \in ids /\ H[k].fill # 0 /\ k <= j
      BY <2>1, <2>2
    <2>4. QED
      BY <1>2, <2>2, <2>3
  <1>7. \E k \in S : P[k] <= P[j]
    <2> DEFINE V == {P[i] : i \in ids}
    <2>1. V \subseteq Nat /\ V # {}
      BY <1>1
    <2>2. PICK v \in V : \A w \in V : v <= w
      BY <2>1, LeastOf
    <2> DEFINE I == {i \in ids : P[i] = v}
    <2>3. I \subseteq Nat /\ I # {}
      BY <1>1
    <2>4. PICK k \in I : \A l \in I : k <= l
      BY <2>3, LeastOf
    <2>5. k \in ids /\ P[k] = v /\ v \in Nat
      BY <2>1
    <2>6. ASSUME NEW l \in ids PROVE P[k] < P[l] \/ (P[k] = P[l] /\ k <= l)
      <3>1. P[k] <= P[l] /\ P[l] \in Nat /\ P[k] \in Nat
        BY <1>1, <2>2, <2>5
      <3>2. CASE P[l] = v
        BY <2>4, <2>5, <3>2
      <3>3. CASE P[l] # v
        BY <2>5, <3>1, <3>3
      <3>4. QED
        BY <3>2, <3>3
    <2>7. k \in S
      BY <1>2, <2>5, <2>6
    <2>8. P[k] <= P[j]
      BY <2>2, <2>5
    <2>9. QED
      BY <2>7, <2>8
  <1>8. \E k \in S : P[k] >= P[j]
    <2> DEFINE B == {m \in 0..N : \E b \in Nat : \A i \in ids : i <= m => P[i] <= b}
    <2>1. 0 \in B
      <3>1. \A i \in ids : ~(i <= 0)
        OBVIOUS
      <3>2. QED
        BY <3>1
    <2>2. ASSUME NEW m \in 0..N - 1, m \in B PROVE m + 1 \in B
      <3>1. PICK b \in Nat : \A i \in ids : i <= m => P[i] <= b
        BY <2>2
      <3> DEFINE top == IF m + 1 \in ids THEN P[m + 1] ELSE 0
      <3>2. top \in Nat
        BY <1>1
      <3>3. b + top \in Nat
        BY <3>2
      <3>4. ASSUME NEW i \in ids, i <= m + 1 PROVE P[i] <= b + top
        <4>1. CASE i = m + 1
          <5>1. top = P[i] /\ P[i] \in Nat
            BY <1>1, <4>1
          <5>2. QED
            BY <5>1
        <4>2. CASE i # m + 1
          <5>1. i <= m
            BY <1>1, <3>4, <4>2
          <5>2. P[i] <= b /\ P[i] \in Nat
            BY <1>1, <3>1, <5>1
          <5> HIDE DEF top
          <5>3. QED
            BY <3>2, <5>2
        <4>3. QED
          BY <4>1, <4>2
      <3> HIDE DEF top
      <3>5. m + 1 \in 0..N
        OBVIOUS
      <3>6. QED
        BY <3>3, <3>4, <3>5
    <2> HIDE DEF B
    <2>3. 0..N \subseteq B
      BY <2>1, <2>2, UpTo
    <2>4. N \in B
      BY <2>3
    <2>5. PICK b \in Nat : \A i \in ids : i <= N => P[i] <= b
      BY <2>4 DEF B
    <2> DEFINE V == {P[i] : i \in ids}
    <2>6. V \subseteq 0..b /\ V # {}
      <3>1. \A i \in ids : i <= N
        OBVIOUS
      <3>2. \A i \in ids : P[i] \in 0..b
        BY <1>1, <2>5, <3>1
      <3>3. QED
        BY <3>2, Zenon
    <2>7. PICK v \in V : \A w \in V : w <= v
      BY <2>6, GreatestOf
    <2> DEFINE I == {i \in ids : P[i] = v}
    <2>8. I \subseteq Nat /\ I # {}
      BY <1>1
    <2>9. PICK k \in I : \A l \in I : k <= l
      BY <2>8, LeastOf
    <2>10. k \in ids /\ P[k] = v /\ v \in Nat
      BY <2>6
    <2>11. ASSUME NEW l \in ids PROVE P[k] > P[l] \/ (P[k] = P[l] /\ k <= l)
      <3>1. P[k] >= P[l] /\ P[l] \in Nat /\ P[k] \in Nat
        BY <1>1, <2>7, <2>10
      <3>2. CASE P[l] = v
        BY <2>9, <2>10, <3>2
      <3>3. CASE P[l] # v
        BY <2>10, <3>1, <3>3
      <3>4. QED
        BY <3>2, <3>3
    <2>12. k \in S
      BY <1>2, <2>10, <2>11
    <2>13. P[k] >= P[j]
      BY <1>1, <2>7, <2>10
    <2>14. QED
      BY <2>12, <2>13
  <1>9. QED
    BY <1>1, <1>3, <1>4, <1>5, <1>6, <1>7, <1>8 DEF KeepsTrade, S

(* A trade is behind those of its segment that are selected.                *)
LEMMA TradeKept ==
    ASSUME MarketInv, NEW e \in Pushed, e.kind = "trade", NEW s2, Opens(Append(pushed, e), segment, s2),
           NEW before, before = {u.id : u \in {v \in ToSet(events) : v.kind = "trade" /\ v.seg = s2}},
           NEW kept, kept = Select(before \cup {Len(pushed) + 1}, Append(pushed, e)),
           NEW r, r = EntriesAt(events, {i \in DOMAIN events :
                                           ~(events[i].kind = "trade" /\ events[i].seg = s2) \/ events[i].id \in kept}),
           Len(r) < QueueDepth
    PROVE  QueueIs(Append(r, Trade(Len(pushed) + 1, s2)), coalesced, Append(pushed, e), s2, delivered, lastFail)
  <1> DEFINE K == Append(pushed, e)
             n == Len(pushed)
             t == Trade(n + 1, s2)
             ids == before \cup {n + 1}
             P == {i \in DOMAIN events :
                     ~(events[i].kind = "trade" /\ events[i].seg = s2) \/ events[i].id \in kept}
             X == Outs(events, coalesced, delivered)
             q == Append(r, t)
             Y == Outs(q, coalesced, delivered)
             z == Len(r)
  <1>1. /\ pushed \in Seq(Pushed) /\ segment \in Nat /\ Tokens(events, coalesced, pushed, segment)
        /\ QueueIs(events, coalesced, pushed, segment, delivered, lastFail)
        /\ delivered \in Seq(DOMAIN pushed)
    BY DEF MarketInv, QueueIs
  <1>2. /\ n \in Nat /\ DOMAIN pushed = 1..n /\ DOMAIN K = 1..n + 1 /\ K[n + 1] = e /\ Len(K) = n + 1
        /\ K \in Seq(Pushed) /\ n + 1 \in DOMAIN K /\ n + 1 # 0 /\ DOMAIN pushed \subseteq DOMAIN K
        /\ n + 1 \in Nat
        /\ \A l \in 1..n : K[l] = pushed[l]
    BY <1>1, OneMore
  <1>3. events \in Seq(MarketToken) /\ Len(events) <= QueueDepth
        /\ \A i \in DOMAIN events : events[i] \in MarketToken /\ TokenIn(events[i], coalesced, pushed, segment)
    BY <1>1 DEF Tokens
  <1>4. \A i \in DOMAIN events : TokenIn(events[i], coalesced, K, s2)
    BY <1>1, <1>3, TokenKept
  <1>5. X \subseteq DOMAIN pushed
    BY <1>1, OutsFound
  <1>6. s2 \in Nat
    BY <1>1 DEF Opens
  <1>7. {"direct", "trade"} \cap Quotes = {}
    BY MarketEventsAssumption
  <1>8. P \subseteq DOMAIN events
    OBVIOUS
  <1>9. (\E m : InOrder(m, r, events, P)) /\ \A m : InOrder(m, r, events, P) => Rest(r, m, events)
    BY <1>3, <1>8, RestOf
  <1>10. /\ kept = Select(ids, K) /\ e.kind = "trade"
         /\ before = {u.id : u \in {v \in ToSet(events) : v.kind = "trade" /\ v.seg = s2}}
    OBVIOUS
  <1>11. \A i \in DOMAIN events :
            i \in P <=> ~(events[i].kind = "trade" /\ events[i].seg = s2) \/ events[i].id \in kept
    OBVIOUS
  <1>12. t \in MarketToken /\ t.kind = "trade" /\ t.id = n + 1 /\ t.seg = s2
    BY <1>2, <1>6 DEF Trade, MarketToken
  <1>13. \A k \in DOMAIN coalesced : k \in Quotes \X Nat /\ coalesced[k] \in DOMAIN pushed
                                     /\ \E i \in DOMAIN events : events[i] = QuoteToken(k[1], k[2])
    BY <1>1 DEF Tokens
  <1> HIDE DEF K, n, P, X, t
  <1>14. ids = before \cup {n + 1}
    OBVIOUS
  <1> HIDE DEF ids
  <1>15. PICK m : InOrder(m, r, events, P) /\ Rest(r, m, events)
    BY <1>9
  <1>16. /\ r \in Seq(MarketToken) /\ z < QueueDepth /\ z \in Nat
         /\ q \in Seq(MarketToken) /\ Len(q) = z + 1 /\ DOMAIN q = 1..z + 1
         /\ q[z + 1] = t /\ \A k \in 1..z : q[k] = r[k]
    <2>1. r \in Seq(MarketToken)
      BY <1>15 DEF Rest
    <2>2. QED
      BY <1>12, <2>1
  <1>17. \A k \in 1..z : m[k] \in P /\ r[k] = events[m[k]]
    BY <1>15 DEF InOrder
  <1>18. ASSUME NEW i \in P PROVE \E k \in 1..z : r[k] = events[i]
    <2>1. PICK k \in 1..z : m[k] = i
      BY <1>15 DEF InOrder
    <2>2. r[k] = events[i]
      BY <1>17, <2>1
    <2>3. QED
      BY <2>2
  <1>19. OutOf(t, coalesced) = n + 1
    BY <1>2, <1>12 DEF OutOf
  <1>20. TokenIn(t, coalesced, K, s2)
    <2>1. LastBarrier(K, n + 1)
      BY <1>2 DEF LastBarrier
    <2>2. QED
      BY <1>2, <1>6, <1>7, <1>10, <1>12, <1>19, <2>1 DEF TokenIn
  <1>21. \A k \in 1..z : TokenIn(r[k], coalesced, K, s2)
    BY <1>4, <1>8, <1>17
  <1>22. ASSUME NEW k \in DOMAIN coalesced
         PROVE  /\ k \in Quotes \X Nat /\ coalesced[k] \in DOMAIN K
                /\ \E l \in 1..z : r[l] = QuoteToken(k[1], k[2])
    <2>1. k \in Quotes \X Nat /\ coalesced[k] \in DOMAIN pushed
      BY <1>13
    <2>2. PICK i \in DOMAIN events : events[i] = QuoteToken(k[1], k[2])
      BY <1>13
    <2>3. k[1] \in Quotes
      BY <2>1
    <2>4. events[i].kind # "trade"
      BY <1>7, <2>2, <2>3 DEF QuoteToken
    <2>5. i \in P
      BY <1>11, <2>4
    <2>6. PICK l \in 1..z : r[l] = events[i]
      BY <1>18, <2>5
    <2>7. r[l] = QuoteToken(k[1], k[2])
      BY <2>2, <2>6
    <2>8. coalesced[k] \in DOMAIN K
      BY <1>2, <2>1
    <2>9. QED
      BY <2>1, <2>7, <2>8
  <1>23. n + 1 \in Y
    <2>1. z + 1 \in DOMAIN q /\ OutOf(q[z + 1], coalesced) = n + 1
      BY <1>16, <1>19
    <2> HIDE DEF q
    <2>2. QED
      BY <2>1 DEF Outs
  <1>24. ASSUME NEW i \in P PROVE OutOf(events[i], coalesced) \in Y
    <2>1. PICK k \in 1..z : r[k] = events[i]
      BY <1>18
    <2>2. k \in DOMAIN q /\ OutOf(q[k], coalesced) = OutOf(events[i], coalesced)
      BY <1>16, <2>1
    <2> HIDE DEF q
    <2>3. QED
      BY <2>2 DEF Outs
  <1>25. \A x \in ToSet(delivered) : x \in Y
    BY DEF Outs
  <1> HIDE DEF Y, q
  <1>26. ASSUME NEW x \in before
         PROVE  \E i \in DOMAIN events : /\ events[i].kind = "trade" /\ events[i].seg = s2
                                         /\ events[i].id = x /\ OutOf(events[i], coalesced) = x
    <2>1. PICK i \in DOMAIN events : events[i].kind = "trade" /\ events[i].seg = s2 /\ events[i].id = x
      BY <1>10 DEF ToSet
    <2>2. events[i].id # 0
      BY <1>4, <2>1 DEF TokenIn
    <2>3. OutOf(events[i], coalesced) = x
      BY <2>1, <2>2 DEF OutOf
    <2>4. QED
      BY <2>1, <2>3
  <1>27. ASSUME NEW x \in ids
         PROVE  x \in DOMAIN K /\ K[x].kind = "trade" /\ LastBarrier(K, x)
    <2>1. CASE x = n + 1
      BY <1>2, <1>10, <2>1 DEF LastBarrier
    <2>2. CASE x # n + 1
      <3>1. x \in before
        BY <1>14, <2>2
      <3>2. PICK i \in DOMAIN events : /\ events[i].kind = "trade" /\ events[i].seg = s2
                                       /\ events[i].id = x /\ OutOf(events[i], coalesced) = x
        BY <1>26, <3>1
      <3>3. QED
        BY <1>4, <3>2 DEF TokenIn
    <2>3. QED
      BY <2>1, <2>2
  <1>28. \A x \in ids : K[x].at \in Nat
    <2>1. \A x \in DOMAIN K : K[x] \in Pushed
      BY <1>2
    <2>2. \A x \in ids : K[x] \in Pushed /\ K[x].kind = "trade"
      BY <1>27, <2>1
    <2>3. QED
      BY <1>7, <2>2, MarketEventsAssumption DEF Pushed
  <1>29. n + 1 \in ids /\ ids \subseteq 1..n + 1
    BY <1>2, <1>14, <1>27
  <1>30. \A x \in ids : kept \subseteq ids /\ KeepsTrade(kept, K, x)
    <2> SUFFICES ASSUME NEW x \in ids PROVE kept \subseteq ids /\ KeepsTrade(kept, K, x)
      OBVIOUS
    <2> DEFINE N == n + 1
    <2>1. N \in Nat /\ ids \subseteq 1..N
      BY <1>2, <1>29
    <2> HIDE DEF N
    <2>2. Select(ids, K) \subseteq ids /\ KeepsTrade(Select(ids, K), K, x)
      BY <1>28, <2>1, SelectKeeps
    <2>3. QED
      BY <1>10, <2>2
  <1>31. ASSUME NEW x \in kept PROVE x \in Y /\ x \in ids
    <2>1. x \in ids
      BY <1>29, <1>30
    <2>2. CASE x = n + 1
      BY <1>23, <2>1, <2>2
    <2>3. CASE x # n + 1
      <3>1. x \in before
        BY <1>14, <2>1, <2>3
      <3>2. PICK i \in DOMAIN events : /\ events[i].kind = "trade" /\ events[i].seg = s2
                                       /\ events[i].id = x /\ OutOf(events[i], coalesced) = x
        BY <1>26, <3>1
      <3>3. i \in P
        BY <1>11, <3>2
      <3>4. QED
        BY <1>24, <2>1, <3>2, <3>3
    <2>4. QED
      BY <2>2, <2>3
  <1>32. \A x, y \in ids : Alike(K, x, y)
    BY <1>27 DEF Alike, LastBarrier
  <1>33. ASSUME NEW x \in ids PROVE KeptOne(Y, K, x)
    <2>1. BarrierAt(K, x) => x \in Y
      <3> SUFFICES ASSUME BarrierAt(K, x) PROVE x \in Y
        OBVIOUS
      <3>1. \A y \in ids : x <= y
        BY <1>27 DEF LastBarrier
      <3>2. x \in kept
        BY <1>10, <3>1 DEF Select
      <3>3. QED
        BY <1>31, <3>2
    <2>2. KeepsTrade(kept, K, x)
      BY <1>30
    <2>3. \A y \in kept : y \in Y /\ Alike(K, x, y)
      BY <1>31, <1>32
    <2>4. K[x].kind = "trade" /\ "trade" \notin Quotes
      BY <1>7, <1>27
    <2>5. QED
      BY <2>1, <2>2, <2>3, <2>4 DEF KeptOne, KeepsTrade
  <1>34. ASSUME NEW x \in X PROVE KeptOne(Y, K, x)
    <2>1. x \in DOMAIN K
      BY <1>2, <1>5
    <2>2. CASE x \in Y
      BY <1>2, <2>1, <2>2, KeptItself
    <2>3. CASE x \notin Y
      <3>1. PICK i \in DOMAIN events : x = OutOf(events[i], coalesced)
        BY <1>25, <2>3 DEF Outs, X
      <3>2. i \notin P
        BY <1>24, <2>3, <3>1
      <3>3. events[i].kind = "trade" /\ events[i].seg = s2
        BY <1>11, <3>2
      <3>4. events[i].id # 0
        BY <1>4, <3>3 DEF TokenIn
      <3>5. x = events[i].id
        BY <3>1, <3>4 DEF OutOf
      <3>6. events[i] \in ToSet(events)
        BY DEF ToSet
      <3>7. x \in before
        BY <1>10, <3>3, <3>5, <3>6
      <3>8. QED
        BY <1>14, <1>33, <3>7
    <2>4. QED
      BY <2>2, <2>3
  <1>35. /\ pushed \in Seq(Pushed) /\ segment \in Nat /\ t \in MarketToken
         /\ QueueIs(events, coalesced, pushed, segment, delivered, lastFail)
         /\ TokenIn(t, coalesced, Append(pushed, e), s2) /\ OutOf(t, coalesced) = Len(pushed) + 1
         /\ t.id # 0
    BY <1>1, <1>2, <1>12, <1>19, <1>20 DEF K, n
  <1>36. /\ \A k \in 1..Len(r) : OutOf(r[k], coalesced) = OutOf(r[k], coalesced)
                                 /\ TokenIn(r[k], coalesced, Append(pushed, e), s2)
         /\ Rest(r, m, events)
         /\ \A k \in DOMAIN coalesced :
              /\ k \in Quotes \X Nat /\ coalesced[k] \in DOMAIN Append(pushed, e)
              /\ \/ \E l \in 1..Len(r) : r[l] = QuoteToken(k[1], k[2])
                 \/ t = QuoteToken(k[1], k[2])
    BY <1>15, <1>21, <1>22 DEF K
  <1>37. \A x \in Outs(events, coalesced, delivered) :
            KeptOne(Outs(Append(r, t), coalesced, delivered), Append(pushed, e), x)
    BY <1>34 DEF K, X, Y, q
  <1>38. QueueIs(Append(r, t), coalesced, Append(pushed, e), s2, delivered, lastFail)
    BY <1>35, <1>36, <1>37, TokenAppended
  <1>39. QED
    BY <1>38 DEF t, n

LEMMA PushTradeInv ==
    ASSUME MarketInv, NEW price \in Levels, NEW fill \in FillKeys \cup {0}, PushTrade(price, fill)
    PROVE  MarketInv'
  <1> DEFINE e == [kind |-> "trade", at |-> price, fill |-> fill]
             K == Append(pushed, e)
             n == Len(pushed)
             barrier == fill # 0 /\ fill # fillKey
             s2 == IF barrier THEN segment + 1 ELSE segment
             before == {u.id : u \in {v \in ToSet(events) : v.kind = "trade" /\ v.seg = s2}}
             kept == Select(before \cup {n + 1}, K)
             r == EntriesAt(events, {i \in DOMAIN events :
                                       ~(events[i].kind = "trade" /\ events[i].seg = s2) \/ events[i].id \in kept})
             t == Trade(n + 1, s2)
             tokens == r \o IF n + 1 \in kept THEN <<t>> ELSE <<>>
  <1>1. n + 1 <= MaxPushes /\ segment' = s2 /\ fillKey' = IF barrier THEN fill ELSE fillKey
    BY DEF PushTrade
  <1>2. \/ waiter /\ Enqueue(t, coalesced, K)
        \/ ~waiter /\ Len(tokens) > QueueDepth /\ Failed(K)
        \/ /\ ~waiter /\ ~(Len(tokens) > QueueDepth)
           /\ pushed' = K /\ events' = tokens /\ UNCHANGED <<coalesced, delivered, waiter, lastFail>>
    BY DEF PushTrade
  <1>3. e \in Pushed /\ e.kind = "trade" /\ e.fill = fill
    BY DEF Pushed
  <1>4. /\ pushed \in Seq(Pushed) /\ segment \in Nat /\ fillKey \in FillKeys \cup {0}
        /\ LastFill(pushed, fillKey) /\ lastFail \in 0..n /\ waiter \in BOOLEAN /\ (waiter => events = <<>>)
        /\ Tokens(events, coalesced, pushed, segment)
    BY DEF MarketInv, QueueIs
  <1> HIDE DEF e
  <1>5. n \in Nat /\ DOMAIN K = 1..n + 1 /\ Len(K) = n + 1 /\ K[n + 1] = e /\ n + 1 \in DOMAIN K
        /\ n + 1 \in Nat /\ n + 1 # 0 /\ \A l \in 1..n : K[l] = pushed[l]
    BY <1>3, <1>4, OneMore
  <1>6. LastFill(K, fillKey')
    <2>1. CASE barrier
      BY <1>1, <1>3, <1>4, <2>1, FillKept
    <2>2. CASE ~barrier
      <3>1. fill \in {0, fillKey} /\ fillKey' = fillKey
        BY <1>1, <2>2
      <3>2. QED
        BY <1>3, <1>4, <3>1, FillKept
    <2>3. QED
      BY <2>1, <2>2
  <1>7. Opens(K, segment, s2)
    <2>1. CASE barrier
      BY <2>1 DEF Opens
    <2>2. CASE ~barrier
      <3>1. fill \in {0, fillKey} /\ s2 = segment
        BY <2>2
      <3>2. ~BarrierAt(K, Len(K))
        BY <1>3, <1>4, <3>1, NoBarrier
      <3>3. QED
        BY <3>1, <3>2 DEF Opens
    <2>3. QED
      BY <2>1, <2>2
  <1>8. s2 \in Nat /\ fillKey' \in FillKeys \cup {0}
    BY <1>1, <1>4
  <1> HIDE DEF K, n, barrier, s2
  <1>9. t \in MarketToken /\ t.kind = "trade" /\ t.id = n + 1 /\ t.seg = s2 /\ t.id # 0
    BY <1>5, <1>8 DEF Trade, MarketToken
  <1>10. Pushes(K, s2)
    <2>1. CASE waiter /\ Enqueue(t, coalesced, K)
      <3> HIDE DEF t
      <3>1. OutOf(t, coalesced) = n + 1
        BY <1>9 DEF OutOf
      <3>2. TokenIn(t, coalesced, K, s2)
        <4>1. LastBarrier(K, n + 1)
          BY <1>5 DEF LastBarrier
        <4>2. "trade" \notin Quotes
          BY MarketEventsAssumption
        <4>3. QED
          BY <1>3, <1>5, <1>8, <1>9, <3>1, <4>1, <4>2 DEF TokenIn
      <3>3. QED
        BY <1>3, <1>7, <1>9, <2>1, <3>1, <3>2, EnqueueKeeps DEF K, n
    <2>2. CASE ~waiter /\ Len(tokens) > QueueDepth /\ Failed(K)
      <3>1. Failed(Append(pushed, e))
        BY <2>2 DEF K
      <3>2. QED
        BY <1>3, <1>8, <3>1, FailedKeeps DEF K
    <2>3. CASE /\ ~waiter /\ ~(Len(tokens) > QueueDepth)
               /\ pushed' = K /\ events' = tokens /\ UNCHANGED <<coalesced, delivered, waiter, lastFail>>
      <3>1. n + 1 \in kept
        <4>1. events \in Seq(MarketToken) /\ \A i \in DOMAIN events : TokenIn(events[i], coalesced, pushed, segment)
          BY <1>4 DEF Tokens
        <4>2. \A x \in before : x \in DOMAIN pushed
          <5> SUFFICES ASSUME NEW x \in before PROVE x \in DOMAIN pushed
            OBVIOUS
          <5>1. PICK i \in DOMAIN events : events[i].kind = "trade" /\ events[i].id = x
            BY DEF ToSet
          <5>2. OutOf(events[i], coalesced) \in DOMAIN pushed /\ events[i].id # 0
            BY <4>1, <5>1 DEF TokenIn
          <5>3. QED
            BY <5>1, <5>2 DEF OutOf
        <4> HIDE DEF before
        <4>3. \A x \in before \cup {n + 1} : x <= n + 1
          BY <1>4, <1>5, <4>2 DEF n
        <4>4. QED
          BY <4>3 DEF Select
      <3>2. r \in Seq(MarketToken)
        <4>1. events \in Seq(MarketToken)
          BY <1>4 DEF Tokens
        <4>2. QED
          BY <4>1, EntriesOf
      <3>3. tokens = r \o <<t>>
        BY <3>1
      <3> DEFINE b == before
                 k == kept
      <3>4. r = EntriesAt(events, {i \in DOMAIN events :
                                     ~(events[i].kind = "trade" /\ events[i].seg = s2) \/ events[i].id \in k})
        OBVIOUS
      <3>5. k = Select(b \cup {Len(pushed) + 1}, Append(pushed, e))
        BY DEF K, n
      <3>6. b = {u.id : u \in {v \in ToSet(events) : v.kind = "trade" /\ v.seg = s2}}
        OBVIOUS
      <3> HIDE DEF r, t, kept, k, b, before, tokens
      <3>7. /\ tokens = Append(r, t) /\ Len(tokens) = Len(r) + 1 /\ Len(r) \in Nat
        <4>1. r \o <<t>> = Append(r, t) /\ Len(Append(r, t)) = Len(r) + 1 /\ Len(r) \in Nat
          BY <1>9, <3>2
        <4>2. QED
          BY <3>3, <4>1
      <3>8. Len(r) < QueueDepth
        BY <2>3, <3>7, MarketEventsAssumption
      <3>9. QueueIs(Append(r, Trade(Len(pushed) + 1, s2)), coalesced, Append(pushed, e), s2, delivered, lastFail)
        BY <1>3, <1>7, <3>4, <3>5, <3>6, <3>8, TradeKept DEF K
      <3>10. QueueIs(events', coalesced', pushed', s2, delivered', lastFail')
        BY <2>3, <3>7, <3>9 DEF K, t, n
      <3>11. lastFail \in 0..Len(K)
        BY <1>4, <1>5
      <3>12. QED
        BY <1>4, <2>3, <3>10, <3>11 DEF Pushes
    <2>4. QED
      BY <1>2, <2>1, <2>2, <2>3
  <1>11. n < MaxPushes
    BY <1>1, <1>5, MarketEventsAssumption
  <1>12. QED
    BY <1>1, <1>3, <1>4, <1>6, <1>8, <1>10, <1>11, PushesInv DEF K, n

LEMMA NextEventInv == ASSUME MarketInv, NextEvent PROVE MarketInv'
  <1>1. /\ UNCHANGED <<segment, fillKey, pushed, lastFail>> /\ ~waiter
        /\ \/ events = <<>> /\ waiter' = TRUE /\ UNCHANGED <<events, coalesced, delivered>>
           \/ /\ events # <<>> /\ events' = Tail(events)
              /\ delivered' = Append(delivered, OutOf(Head(events), coalesced))
              /\ coalesced' = Without(coalesced, <<Head(events).kind, Head(events).seg>>)
              /\ UNCHANGED waiter
    BY DEF NextEvent, OutOf
  <1>2. /\ pushed \in Seq(Pushed) /\ QueueIs(events, coalesced, pushed, segment, delivered, lastFail)
    BY DEF MarketInv
  <1>3. CASE events = <<>> /\ waiter' = TRUE /\ UNCHANGED <<events, coalesced, delivered>>
    BY <1>1, <1>3 DEF MarketInv
  <1>4. CASE /\ events # <<>> /\ events' = Tail(events)
             /\ delivered' = Append(delivered, OutOf(Head(events), coalesced))
             /\ coalesced' = Without(coalesced, <<Head(events).kind, Head(events).seg>>)
             /\ UNCHANGED waiter
    <2>1. QueueIs(Tail(events), Without(coalesced, <<Head(events).kind, Head(events).seg>>), pushed, segment,
                  Append(delivered, OutOf(Head(events), coalesced)), lastFail)
      BY <1>2, <1>4, TokenTaken
    <2>2. QueueIs(events', coalesced', pushed', segment', delivered', lastFail')
      BY <1>1, <1>4, <2>1
    <2>3. QED
      BY <1>1, <1>4, <2>2 DEF MarketInv
  <1>5. QED
    BY <1>1, <1>3, <1>4

LEMMA MarketInitInv == ASSUME MarketInit PROVE MarketInv
  <1>1. /\ events = <<>> /\ coalesced = <<>> /\ waiter = FALSE /\ segment = 0 /\ fillKey = 0
        /\ pushed = <<>> /\ delivered = <<>> /\ lastFail = 0
    BY DEF MarketInit
  <1>2. pushed \in Seq(Pushed) /\ Len(pushed) = 0 /\ DOMAIN pushed = {} /\ DOMAIN coalesced = {}
        /\ delivered \in Seq(DOMAIN pushed) /\ DOMAIN delivered = {} /\ DOMAIN events = {}
    BY <1>1
  <1>3. Tokens(events, coalesced, pushed, segment)
    BY <1>1, <1>2, NoTokens
  <1>4. OutsInTime(events, coalesced, delivered, pushed)
    BY <1>2 DEF OutsInTime
  <1>5. OutsKeep(events, coalesced, delivered, pushed, lastFail)
    BY <1>2 DEF OutsKeep
  <1>6. LastFill(pushed, fillKey)
    BY <1>1 DEF LastFill
  <1>7. Len(pushed) <= MaxPushes + 1 /\ lastFail \in 0..Len(pushed)
    BY <1>1, <1>2, MarketEventsAssumption
  <1>8. QED
    BY <1>1, <1>2, <1>3, <1>4, <1>5, <1>6, <1>7 DEF MarketInv, QueueIs

LEMMA MarketNextInv == ASSUME MarketInv, [MarketNext]_marketVars PROVE MarketInv'
  <1>1. CASE PushDirect
    BY <1>1, PushDirectInv
  <1>2. ASSUME NEW kind \in Quotes, NEW at \in Levels, PushQuote(kind, at) PROVE MarketInv'
    BY <1>2, PushQuoteInv
  <1>3. ASSUME NEW price \in Levels, NEW fill \in FillKeys \cup {0}, PushTrade(price, fill) PROVE MarketInv'
    BY <1>3, PushTradeInv
  <1>4. CASE NextEvent
    BY <1>4, NextEventInv
  <1>5. CASE WaitEnds
    BY <1>5 DEF WaitEnds, MarketInv
  <1>6. CASE UNCHANGED marketVars
    BY <1>6 DEF marketVars, MarketInv
  <1>7. QED
    BY <1>1, <1>2, <1>3, <1>4, <1>5, <1>6 DEF MarketNext

LEMMA Joined ==
    ASSUME NEW T, NEW d \in Seq(T), NEW o \in Seq(T)
    PROVE  /\ d \o o \in Seq(T) /\ DOMAIN (d \o o) = 1..Len(d) + Len(o)
           /\ \A i \in 1..Len(d) + Len(o) : (d \o o)[i] = IF i <= Len(d) THEN d[i] ELSE o[i - Len(d)]
  <1>1. d \o o \in Seq(T) /\ Len(d \o o) = Len(d) + Len(o)
    OBVIOUS
  <1>2. DOMAIN (d \o o) = 1..Len(d) + Len(o)
    BY <1>1
  <1>3. QED
    BY <1>1, <1>2

LEMMA OutputIs ==
    ASSUME MarketInv
    PROVE  /\ ToSet(Output) = Outs(events, coalesced, delivered)
           /\ \A i, j \in DOMAIN Output : i < j => InTime(pushed, Output[i], Output[j])
  <1> DEFINE o == [i \in DOMAIN events |-> OutOf(events[i], coalesced)]
             l == Len(delivered)
             z == Len(events)
  <1>1. /\ events \in Seq(MarketToken) /\ delivered \in Seq(DOMAIN pushed)
        /\ \A i \in DOMAIN events : OutOf(events[i], coalesced) \in DOMAIN pushed
        /\ OutsInTime(events, coalesced, delivered, pushed)
    BY DEF MarketInv, QueueIs, Tokens, TokenIn
  <1>2. Output = delivered \o o
    BY DEF Output, OutOf
  <1>3. /\ l \in Nat /\ z \in Nat /\ DOMAIN delivered = 1..l /\ DOMAIN events = 1..z
        /\ o \in Seq(DOMAIN pushed) /\ Len(o) = z
    BY <1>1
  <1>4. \A i \in 1..z : o[i] = OutOf(events[i], coalesced)
    BY <1>3
  <1> HIDE DEF o, l, z
  <1>5. /\ Output \in Seq(DOMAIN pushed) /\ DOMAIN Output = 1..l + z
        /\ \A i \in 1..l + z : Output[i] = IF i <= l THEN delivered[i] ELSE o[i - l]
    BY <1>1, <1>2, <1>3, Joined DEF l
  <1>6. \A i \in 1..l + z : (i <= l /\ i \in 1..l) \/ (~(i <= l) /\ i - l \in 1..z)
    BY <1>3
  <1>7. ASSUME NEW i \in 1..l + z, NEW j \in 1..l + z, i < j PROVE InTime(pushed, Output[i], Output[j])
    <2>1. CASE i <= l /\ j <= l
      <3>1. Output[i] = delivered[i] /\ Output[j] = delivered[j] /\ i \in 1..l /\ j \in 1..l
        BY <1>5, <1>6, <2>1
      <3>2. QED
        BY <1>1, <1>3, <1>7, <3>1 DEF OutsInTime
    <2>2. CASE i <= l /\ ~(j <= l)
      <3>1. Output[i] = delivered[i] /\ Output[j] = OutOf(events[j - l], coalesced) /\ i \in 1..l /\ j - l \in 1..z
        BY <1>4, <1>5, <1>6, <2>2
      <3>2. QED
        BY <1>1, <1>3, <3>1 DEF OutsInTime
    <2>3. CASE ~(i <= l) /\ ~(j <= l)
      <3>1. /\ Output[i] = OutOf(events[i - l], coalesced) /\ Output[j] = OutOf(events[j - l], coalesced)
            /\ i - l \in 1..z /\ j - l \in 1..z /\ i - l < j - l
        BY <1>3, <1>4, <1>5, <1>6, <1>7, <2>3
      <3>2. QED
        BY <1>1, <1>3, <3>1 DEF OutsInTime
    <2>4. QED
      BY <1>3, <1>7, <2>1, <2>2, <2>3
  <1>8. ASSUME NEW i \in 1..l + z PROVE Output[i] \in Outs(events, coalesced, delivered)
    <2>1. CASE i <= l
      <3>1. Output[i] = delivered[i] /\ i \in DOMAIN delivered
        BY <1>3, <1>5, <1>6, <2>1
      <3>2. QED
        BY <3>1 DEF Outs, ToSet
    <2>2. CASE ~(i <= l)
      <3>1. Output[i] = OutOf(events[i - l], coalesced) /\ i - l \in DOMAIN events
        BY <1>3, <1>4, <1>5, <1>6, <2>2
      <3>2. QED
        BY <3>1 DEF Outs
    <2>3. QED
      BY <2>1, <2>2
  <1>9. ASSUME NEW i \in 1..l PROVE delivered[i] \in ToSet(Output)
    <2>1. i \in 1..l + z /\ i <= l
      BY <1>3
    <2>2. Output[i] = delivered[i] /\ i \in DOMAIN Output
      BY <1>5, <2>1
    <2>3. QED
      BY <2>2 DEF ToSet
  <1>10. ASSUME NEW i \in 1..z PROVE OutOf(events[i], coalesced) \in ToSet(Output)
    <2>1. l + i \in 1..l + z /\ ~(l + i <= l) /\ (l + i) - l = i
      BY <1>3
    <2>2. Output[l + i] = OutOf(events[i], coalesced) /\ l + i \in DOMAIN Output
      BY <1>4, <1>5, <2>1
    <2>3. QED
      BY <2>2 DEF ToSet
  <1>11. \A x \in ToSet(Output) : x \in Outs(events, coalesced, delivered)
    BY <1>5, <1>8 DEF ToSet
  <1>12. \A x \in ToSet(delivered) : x \in ToSet(Output)
    BY <1>3, <1>9 DEF ToSet
  <1>13. \A x \in Outs(events, coalesced, delivered) : x \in ToSet(Output)
    BY <1>3, <1>10, <1>12 DEF Outs
  <1>14. QED
    BY <1>5, <1>7, <1>11, <1>13

LEMMA NothingCrosses == ASSUME MarketInv PROVE NothingCrossesABarrier
  <1> DEFINE o == Output
             X == ToSet(o)
  <1>1. \A i \in DOMAIN pushed : IsBarrier(i) <=> BarrierAt(pushed, i)
    BY DEF IsBarrier, BarrierAt
  <1>2. \A i, j : Together(i, j) /\ pushed[j].kind = pushed[i].kind <=> Alike(pushed, i, j)
    BY <1>1 DEF Together, Alike
  <1>3. \A i \in DOMAIN pushed : i > lastFail => KeptOne(X, pushed, i)
    <2>1. X = Outs(events, coalesced, delivered)
      BY OutputIs
    <2>2. OutsKeep(events, coalesced, delivered, pushed, lastFail)
      BY DEF MarketInv, QueueIs
    <2> HIDE DEF X
    <2>3. QED
      BY <2>1, <2>2 DEF OutsKeep
  <1>4. \A i, j \in DOMAIN o : i < j => InTime(pushed, o[i], o[j])
    BY OutputIs
  <1> HIDE DEF X, o
  <1>5. \A i \in DOMAIN pushed : i > lastFail =>
            IF pushed[i].kind \in Quotes
            THEN \E j \in X : Together(i, j) /\ pushed[j].kind = pushed[i].kind
                              /\ (pushed[j].at > pushed[i].at \/ (pushed[j].at = pushed[i].at /\ j >= i))
            ELSE IF pushed[i].kind = "trade"
            THEN /\ IsBarrier(i) => i \in X
                 /\ \E j \in X : Together(i, j) /\ pushed[j].kind = pushed[i].kind /\ pushed[j].at <= pushed[i].at
                 /\ \E j \in X : Together(i, j) /\ pushed[j].kind = pushed[i].kind /\ pushed[j].at >= pushed[i].at
                 /\ \E j \in X : Together(i, j) /\ pushed[j].kind = pushed[i].kind /\ j <= i
                 /\ \E j \in X : Together(i, j) /\ pushed[j].kind = pushed[i].kind /\ j >= i
                 /\ pushed[i].fill # 0 =>
                      \E j \in X : Together(i, j) /\ pushed[j].kind = pushed[i].kind /\ (j <= i /\ pushed[j].fill # 0)
            ELSE i \in X
    BY <1>1, <1>2, <1>3 DEF KeptOne, NewerQuote
  <1>6. \A i, j \in DOMAIN o : i < j => \A b \in DOMAIN pushed : IsBarrier(b) => ~(o[j] < b /\ b <= o[i])
    BY <1>1, <1>4 DEF InTime
  <1>7. QED
    BY <1>5, <1>6 DEF NothingCrossesABarrier, X, o

(* However the pushes and the consumer interleave, whatever the depth of    *)
(* the queue: nothing is delivered across a barrier, and of each segment    *)
(* the newest quotes and the trades that decide are delivered or still in   *)
(* the queue.                                                               *)
THEOREM MarketKeepsOrder == MarketSpec => []NothingCrossesABarrier
  <1>1. QED
    BY MarketInitInv, MarketNextInv, NothingCrosses, PTL DEF MarketSpec

-----------------------------------------------------------------------------
(* ComputeQueue: what the scheduler of the compute client promises, for any *)
(* operations and any bounds                                                *)

(* The invariants of the queue hold one another up: a slot that is handed   *)
(* on changes the number of running operations by nothing only because the  *)
(* operation that takes it was not running (WaitsOnce).                      *)
QueueInv ==
    /\ TypeOK
    /\ IsFiniteSet(running)
    /\ WorkConserving
    /\ WaitsOnce

(* A slot that an ended operation hands on leaves their number as it was. *)
LEMMA SlotHandedOn ==
    ASSUME NEW S, IsFiniteSet(S), NEW a, a \in S, NEW b, b \notin S
    PROVE  Cardinality((S \ {a}) \cup {b}) = Cardinality(S)
  <1> DEFINE rest == S \ {a}
  <1>1. IsFiniteSet(rest) /\ Cardinality(rest) = Cardinality(S) - 1 /\ b \notin rest
    BY FS_RemoveElement
  <1>2. Cardinality(S) \in Nat
    BY FS_CardinalityType
  <1> HIDE DEF rest
  <1>3. Cardinality(rest \cup {b}) = Cardinality(rest) + 1
    BY <1>1, FS_AddElement
  <1>4. QED
    BY <1>1, <1>2, <1>3 DEF rest

(* A started operation takes one slot more, an ended one gives one back, and *)
(* one that ends and hands its slot on leaves the number as it was.          *)
LEMMA SlotCounts ==
    ASSUME NEW S, IsFiniteSet(S), NEW a, NEW b
    PROVE  /\ IsFiniteSet(S \cup {a}) /\ IsFiniteSet(S \ {a}) /\ IsFiniteSet((S \ {a}) \cup {b})
           /\ Cardinality(S) \in Nat
           /\ a \notin S => Cardinality(S \cup {a}) = Cardinality(S) + 1
           /\ a \in S => Cardinality(S \ {a}) = Cardinality(S) - 1
           /\ a \in S /\ b \notin S => Cardinality((S \ {a}) \cup {b}) = Cardinality(S)
  <1>1. IsFiniteSet(S \cup {a}) /\ IsFiniteSet(S \ {a})
    BY FS_AddElement, FS_RemoveElement
  <1>2. /\ Cardinality(S) \in Nat
        /\ a \notin S => Cardinality(S \cup {a}) = Cardinality(S) + 1
        /\ a \in S => Cardinality(S \ {a}) = Cardinality(S) - 1
    BY FS_AddElement, FS_RemoveElement, FS_CardinalityType
  <1>3. IsFiniteSet((S \ {a}) \cup {b})
    BY <1>1, FS_AddElement
  <1>4. a \in S /\ b \notin S => Cardinality((S \ {a}) \cup {b}) = Cardinality(S)
    BY SlotHandedOn
  <1>5. QED
    BY <1>1, <1>2, <1>3, <1>4

(* Taking out the entry at a place keeps the others, in their order. *)
LEMMA PlaceTakenOut ==
    ASSUME NEW T, NEW s \in Seq(T), NEW i \in 1..Len(s)
    PROVE  LET w == SubSeq(s, 1, i - 1) \o SubSeq(s, i + 1, Len(s))
           IN /\ w \in Seq(T)
              /\ Len(w) = Len(s) - 1
              /\ \A j \in 1..Len(w) : w[j] = IF j < i THEN s[j] ELSE s[j + 1]
  <1> DEFINE front == SubSeq(s, 1, i - 1)
             back  == SubSeq(s, i + 1, Len(s))
  <1>1. front \in Seq(T) /\ Len(front) = i - 1 /\ \A j \in 1..(i - 1) : front[j] = s[j]
    OBVIOUS
  <1>2. /\ back \in Seq(T)
        /\ Len(back) = Len(s) - i
        /\ \A j \in 1..(Len(s) - i) : back[j] = s[i + j]
    OBVIOUS
  <1> HIDE DEF front, back
  <1>3. front \o back \in Seq(T) /\ Len(front \o back) = Len(s) - 1
    BY <1>1, <1>2
  <1>4. ASSUME NEW j \in 1..(Len(s) - 1)
        PROVE  (front \o back)[j] = IF j < i THEN s[j] ELSE s[j + 1]
    <2>1. CASE j < i
      BY <1>1, <1>2, <2>1
    <2>2. CASE ~(j < i)
      <3>1. (front \o back)[j] = back[j - (i - 1)]
        BY <1>1, <1>2, <2>2
      <3>2. back[j - (i - 1)] = s[i + (j - (i - 1))]
        BY <1>2, <2>2
      <3>3. QED
        BY <2>2, <3>1, <3>2
    <2>3. QED
      BY <2>1, <2>2
  <1>5. QED
    BY <1>3, <1>4 DEF front, back

LEMMA QueueInitInv == Init => QueueInv
  <1> SUFFICES ASSUME Init PROVE QueueInv
    OBVIOUS
  <1>1. TypeOK
    <2>1. waiting \in Seq(Ops) /\ Len(waiting) = 0
      BY DEF Init
    <2>2. Len(waiting) <= MaxQueued
      BY <2>1, ComputeBoundsAssumption
    <2>3. running \in SUBSET Ops /\ closed \in BOOLEAN
      BY DEF Init
    <2>4. QED
      BY <2>1, <2>2, <2>3 DEF TypeOK
  <1>2. IsFiniteSet(running) /\ Cardinality(running) = 0
    BY FS_EmptySet DEF Init
  <1>3. WorkConserving
    BY <1>2, ComputeBoundsAssumption DEF Init, WorkConserving
  <1>4. WaitsOnce
    <2>1. DOMAIN waiting = {} /\ running = {}
      BY DEF Init
    <2>2. QED
      BY <2>1 DEF WaitsOnce
  <1>5. QED
    BY <1>1, <1>2, <1>3, <1>4 DEF QueueInv

LEMMA QueueStartInv ==
    ASSUME QueueInv, NEW o \in Ops, Start(o)
    PROVE  QueueInv'
  <1> USE DEF QueueInv
  <1>1. TypeOK'
    BY DEF Start, TypeOK
  <1>2. IsFiniteSet(running') /\ Cardinality(running') = Cardinality(running) + 1
    BY SlotCounts DEF Start
  <1>3. waiting = <<>>
    BY SlotCounts, ComputeBoundsAssumption DEF Start, WorkConserving
  <1>4. WorkConserving'
    BY <1>2, <1>3, SlotCounts, ComputeBoundsAssumption DEF Start, WorkConserving
  <1>5. WaitsOnce'
    BY <1>3 DEF Start, WaitsOnce, Waiters
  <1>6. QED
    BY <1>1, <1>2, <1>4, <1>5

LEMMA QueueWaitInv ==
    ASSUME QueueInv, NEW o \in Ops, Wait(o)
    PROVE  QueueInv'
  <1> USE DEF QueueInv
  <1>1. TypeOK' /\ IsFiniteSet(running')
    BY ComputeBoundsAssumption DEF Wait, TypeOK
  <1>2. WorkConserving'
    <2>1. Cardinality(running) \in Nat
      BY FS_CardinalityType
    <2>2. Cardinality(running) = Capacity
      BY <2>1, ComputeBoundsAssumption DEF Wait, WorkConserving
    <2>3. QED
      BY <2>2 DEF Wait, WorkConserving
  <1>3. waiting \in Seq(Ops) /\ waiting' = Append(waiting, o) /\ o \notin Waiters /\ o \notin running
    BY DEF Wait, TypeOK
  <1>4. Waiters' = Waiters \cup {o}
    BY <1>3 DEF Waiters
  <1>5. ASSUME NEW i \in DOMAIN waiting', NEW j \in DOMAIN waiting', waiting'[i] = waiting'[j]
        PROVE  i = j
    BY <1>3, <1>5 DEF Waiters, WaitsOnce
  <1>6. running' = running
    BY DEF Wait
  <1>7. WaitsOnce'
    BY <1>3, <1>4, <1>5, <1>6 DEF WaitsOnce
  <1>8. QED
    BY <1>1, <1>2, <1>7

LEMMA QueueWithdrawInv ==
    ASSUME QueueInv, NEW i \in DOMAIN waiting, Withdraw(i)
    PROVE  QueueInv'
  <1> USE DEF QueueInv
  <1>1. waiting \in Seq(Ops) /\ i \in 1..Len(waiting) /\ running' = running /\ closed' = closed
    BY DEF Withdraw, TypeOK
  <1>2. /\ waiting' \in Seq(Ops)
        /\ Len(waiting') = Len(waiting) - 1
        /\ \A j \in 1..Len(waiting') : waiting'[j] = IF j < i THEN waiting[j] ELSE waiting[j + 1]
    BY <1>1, PlaceTakenOut DEF Withdraw
  <1>3. TypeOK' /\ IsFiniteSet(running')
    BY <1>1, <1>2, ComputeBoundsAssumption DEF TypeOK
  <1>4. WorkConserving'
    BY <1>1, <1>2 DEF WorkConserving
  <1>5. Waiters' \subseteq Waiters
    BY <1>1, <1>2 DEF Waiters
  <1>6. ASSUME NEW j \in DOMAIN waiting', NEW k \in DOMAIN waiting', waiting'[j] = waiting'[k]
        PROVE  j = k
    <2> DEFINE was(n) == IF n < i THEN n ELSE n + 1
    <2>1. /\ j \in 1..(Len(waiting) - 1) /\ k \in 1..(Len(waiting) - 1)
          /\ DOMAIN waiting = 1..Len(waiting) /\ Len(waiting) \in Nat
      BY <1>1, <1>2
    <2>2. was(j) \in DOMAIN waiting /\ was(k) \in DOMAIN waiting
      BY <1>1, <2>1
    <2>3. waiting'[j] = waiting[was(j)] /\ waiting'[k] = waiting[was(k)]
      BY <1>2, <2>1
    <2>4. waiting[was(j)] = waiting[was(k)]
      BY <1>6, <2>3
    <2>5. was(j) = was(k)
      <3> HIDE DEF was
      <3>1. QED
        BY <2>2, <2>4 DEF WaitsOnce
    <2>6. QED
      BY <1>1, <2>1, <2>5
  <1>7. WaitsOnce'
    BY <1>1, <1>5, <1>6 DEF WaitsOnce
  <1>8. QED
    BY <1>3, <1>4, <1>7

LEMMA QueueFinishInv ==
    ASSUME QueueInv, NEW o \in Ops, EndAndDrain(o)
    PROVE  QueueInv'
  <1> USE DEF QueueInv
  <1>1. o \in running /\ closed' = closed /\ waiting \in Seq(Ops)
    BY DEF EndAndDrain, TypeOK
  <1>2. CASE waiting = <<>>
    <2>1. running' = running \ {o} /\ waiting' = waiting
      BY <1>2 DEF EndAndDrain
    <2>2. IsFiniteSet(running') /\ Cardinality(running') = Cardinality(running) - 1
      BY <1>1, <2>1, SlotCounts
    <2>3. TypeOK' /\ WorkConserving'
      BY <1>1, <1>2, <2>1, <2>2, SlotCounts, ComputeBoundsAssumption DEF TypeOK, WorkConserving
    <2>4. WaitsOnce'
      <3>1. Waiters' = {} /\ DOMAIN waiting' = {}
        BY <1>2, <2>1 DEF Waiters
      <3>2. QED
        BY <3>1 DEF WaitsOnce
    <2>5. QED
      BY <2>2, <2>3, <2>4
  <1>3. CASE waiting # <<>>
    <2> DEFINE next == Head(waiting)
    <2>1. running' = (running \ {o}) \cup {next} /\ waiting' = Tail(waiting)
      BY <1>3 DEF EndAndDrain
    <2>2. /\ Len(waiting) > 0 /\ next \in Ops /\ next = waiting[1]
          /\ waiting' \in Seq(Ops) /\ Len(waiting') = Len(waiting) - 1
          /\ \A j \in 1..Len(waiting') : waiting'[j] = waiting[j + 1]
      BY <1>1, <1>3, <2>1
    <2>3. next \in Waiters /\ next \notin running
      BY <1>1, <2>2 DEF Waiters, WaitsOnce
    <2>4. IsFiniteSet(running') /\ Cardinality(running') = Cardinality(running)
      <3>1. IsFiniteSet((running \ {o}) \cup {next})
        BY SlotCounts
      <3>2. Cardinality((running \ {o}) \cup {next}) = Cardinality(running)
        <4> HIDE DEF next
        <4>1. IsFiniteSet(running) /\ o \in running /\ next \notin running
          BY <1>1, <2>3
        <4>2. QED
          BY <4>1, SlotHandedOn
      <3>3. QED
        BY <2>1, <3>1, <3>2
    <2>5. TypeOK' /\ WorkConserving'
      BY <1>1, <1>3, <2>1, <2>2, <2>4, ComputeBoundsAssumption DEF TypeOK, WorkConserving
    <2>6. \A j \in DOMAIN waiting' : waiting'[j] \in Waiters /\ waiting'[j] # next
      BY <1>1, <2>2 DEF Waiters, WaitsOnce
    <2>7. running' \cap Waiters' = {}
      BY <2>1, <2>6 DEF Waiters, WaitsOnce
    <2>8. ASSUME NEW j \in DOMAIN waiting', NEW k \in DOMAIN waiting', waiting'[j] = waiting'[k]
          PROVE  j = k
      <3>1. DOMAIN waiting = 1..Len(waiting) /\ DOMAIN waiting' = 1..Len(waiting')
        BY <1>1, <2>2
      <3>2. waiting[j + 1] = waiting[k + 1] /\ {j + 1, k + 1} \subseteq DOMAIN waiting
        BY <2>2, <2>8, <3>1
      <3>3. j + 1 = k + 1 /\ j \in Nat /\ k \in Nat
        BY <3>1, <3>2 DEF WaitsOnce
      <3>4. QED
        BY <3>3
    <2>9. QED
      BY <2>4, <2>5, <2>7, <2>8 DEF WaitsOnce
  <1>4. QED
    BY <1>2, <1>3

LEMMA QueueCloseInv ==
    ASSUME QueueInv, Close
    PROVE  QueueInv'
  <1>1. waiting' = <<>> /\ running' = running /\ closed' = TRUE
    BY DEF Close
  <1>2. waiting' \in Seq(Ops) /\ Len(waiting') = 0 /\ DOMAIN waiting' = {}
    BY <1>1
  <1>3. TypeOK' /\ WorkConserving' /\ WaitsOnce'
    BY <1>1, <1>2, ComputeBoundsAssumption
    DEF QueueInv, TypeOK, WorkConserving, WaitsOnce, Waiters
  <1>4. QED
    BY <1>1, <1>3 DEF QueueInv

(* Every reachable state of the queue satisfies its invariants. *)
THEOREM QueueInvariance == Spec => []QueueInv
  <1>1. QueueInv /\ [Next]_queueVars => QueueInv'
    <2> SUFFICES ASSUME QueueInv, [Next]_queueVars PROVE QueueInv'
      OBVIOUS
    <2>1. CASE \E o \in Ops : Start(o)
      BY <2>1, QueueStartInv
    <2>2. CASE \E o \in Ops : Wait(o)
      BY <2>2, QueueWaitInv
    <2>3. CASE \E o \in Ops : EndAndDrain(o)
      BY <2>3, QueueFinishInv
    <2>4. CASE \E i \in DOMAIN waiting : Withdraw(i)
      BY <2>4, QueueWithdrawInv
    <2>5. CASE Close
      BY <2>5, QueueCloseInv
    <2>6. CASE UNCHANGED queueVars
      BY <2>6 DEF queueVars, QueueInv, TypeOK, WorkConserving, WaitsOnce, Waiters
    <2>7. QED
      BY <2>1, <2>2, <2>3, <2>4, <2>5, <2>6 DEF Next
  <1>2. QED
    BY QueueInitInv, <1>1, PTL DEF Spec

(* No capacity is idle while an operation waits, for any capacity and any   *)
(* length of the queue: what RustComputeScheduler's drain and finally owe   *)
(* to the callers of schedule.                                               *)
THEOREM CapacityUsed == Spec => []WorkConserving
  <1>1. QueueInv => WorkConserving
    BY DEF QueueInv
  <1>2. QED
    BY <1>1, QueueInvariance, PTL

(* An operation is never started while it still waits, nor queued twice. *)
THEOREM StartedOnce == Spec => []WaitsOnce
  <1>1. QueueInv => WaitsOnce
    BY DEF QueueInv
  <1>2. QED
    BY <1>1, QueueInvariance, PTL
=============================================================================
