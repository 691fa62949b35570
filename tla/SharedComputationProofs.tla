------------------------ MODULE SharedComputationProofs ------------------------
(***************************************************************************)
(* What the registry of shared computations, the compute client and the    *)
(* socket server promise together, for any numbers of callers, calls,      *)
(* channels and connections; and, first, that the doubly linked list of    *)
(* RustComputeScheduler implements ComputeQueue, for any operations, any   *)
(* capacity and any length of the queue.                                   *)
(***************************************************************************)
EXTENDS SharedComputation, FiniteSetTheorems, TLAPS

-----------------------------------------------------------------------------
(* The scheduler's list *)

Before(q, i)   == IF i = 1 THEN NoOp ELSE q[i - 1]
After(q, i, n) == IF i = n THEN NoOp ELSE q[i + 1]

Queued(before, after) == [previous |-> before, next |-> after, queued |-> TRUE]

(* The entries q are linked, in this order, from first to last; no other    *)
(* entry is marked as queued.                                               *)
IsList(q, links, first, last, n) ==
    /\ q \in Seq(Ops) /\ Len(q) = n
    /\ \A i, j \in 1..n : q[i] = q[j] => i = j
    /\ first = IF n = 0 THEN NoOp ELSE q[1]
    /\ last = IF n = 0 THEN NoOp ELSE q[n]
    /\ \A i \in 1..n : links[q[i]] = Queued(Before(q, i), After(q, i, n))
    /\ \A o \in Ops : links[o].queued => \E i \in 1..n : q[i] = o

Waiting == [i \in 1..count |-> Place[i]]
Running == {o \in Ops : op[o] = "active"}

(* The refinement needs to know that the list is one, that its entries are  *)
(* the waiting operations, and that the counter of the active ones counts.  *)
SchedulerInv ==
    /\ TypeOK
    /\ IsFiniteSet(Running) /\ Cardinality(Running) = active
    /\ count > 0 => active = Capacity
    /\ closed => count = 0
    /\ \A o \in Ops : node[o].queued <=> op[o] = "waiting"
    /\ IsList(Waiting, node, head, tail, count)

-----------------------------------------------------------------------------
(* Induction over the natural numbers, as a fact about sets: the theorem of *)
(* the library takes a predicate, which the provers cannot instantiate.     *)

LEMMA Least ==
    ASSUME NEW T, T \subseteq Nat, T # {}
    PROVE  \E n \in T : \A m \in T : n <= m
  <1> DEFINE R == OpToRel(<, Nat)
  <1>1. IsWellFoundedOn(R, Nat)
    BY NatLessThanWellFounded
  <1>2. \A x, y : <<y, x>> \in R <=> y \in Nat /\ x \in Nat /\ y < x
    BY Zenon DEF OpToRel
  <1> HIDE DEF R
  <1>3. PICK n \in T : \A m \in T : ~(<<m, n>> \in R)
    BY <1>1, WFMin
  <1>4. \A m \in T : ~(m < n)
    BY <1>2, <1>3
  <1>5. QED
    BY <1>4

LEMMA SetInduction ==
    ASSUME NEW S, 0 \in S, \A n \in Nat : n \in S => n + 1 \in S
    PROVE  Nat \subseteq S
  <1> SUFFICES ASSUME Nat \ S # {} PROVE FALSE
    OBVIOUS
  <1>1. PICK n \in Nat \ S : \A m \in Nat \ S : n <= m
    BY Least
  <1>2. n # 0 /\ n - 1 \in Nat /\ n - 1 \notin Nat \ S
    BY <1>1
  <1>3. QED
    BY <1>1, <1>2

-----------------------------------------------------------------------------
(* What each entry of a list knows of the others *)
LEMMA EntryFacts ==
    ASSUME NEW q, NEW links, NEW first, NEW last, NEW n \in Nat,
           IsList(q, links, first, last, n), NEW i \in 1..n
    PROVE  /\ q[i] \in Ops
           /\ links[q[i]].previous = IF i = 1 THEN NoOp ELSE q[i - 1]
           /\ links[q[i]].next = IF i = n THEN NoOp ELSE q[i + 1]
           /\ links[q[i]].queued
  <1>1. q \in Seq(Ops) /\ Len(q) = n
    BY DEF IsList
  <1>2. links[q[i]] = Queued(Before(q, i), After(q, i, n))
    BY DEF IsList
  <1>3. q[i] \in Ops
    BY <1>1
  <1>4. QED
    BY <1>2, <1>3 DEF Queued, Before, After

LEMMA NextSet ==
    ASSUME NEW a, NEW b, NEW c
    PROVE  [Queued(a, b) EXCEPT !.next = c] = Queued(a, c)
  <1> DEFINE e == Queued(a, b)
             f == [e EXCEPT !.next = c]
             Type == [previous : {a, b, c}, next : {a, b, c}, queued : BOOLEAN]
  <1>1. e \in Type /\ e.previous = a /\ e.next = b /\ e.queued = TRUE
    BY DEF Queued
  <1> HIDE DEF e
  <1>2. f \in Type /\ f.previous = a /\ f.next = c /\ f.queued = TRUE
    BY <1>1
  <1> HIDE DEF f
  <1>3. f = Queued(a, c)
    BY <1>2 DEF Queued
  <1>4. QED
    BY <1>3 DEF e, f

LEMMA PreviousSet ==
    ASSUME NEW a, NEW b, NEW c
    PROVE  [Queued(a, b) EXCEPT !.previous = c] = Queued(c, b)
  <1> DEFINE e == Queued(a, b)
             f == [e EXCEPT !.previous = c]
             Type == [previous : {a, b, c}, next : {a, b, c}, queued : BOOLEAN]
  <1>1. e \in Type /\ e.previous = a /\ e.next = b /\ e.queued = TRUE
    BY DEF Queued
  <1> HIDE DEF e
  <1>2. f \in Type /\ f.previous = c /\ f.next = b /\ f.queued = TRUE
    BY <1>1
  <1> HIDE DEF f
  <1>3. f = Queued(c, b)
    BY <1>2 DEF Queued
  <1>4. QED
    BY <1>3 DEF e, f

-----------------------------------------------------------------------------
(* Following the links from the head gives the entries one after another. *)

(* The recursion of Place, of any links from any first entry: whatever      *)
(* solves it gives the entries of the list ...                              *)
Follows(f, N, links, first) ==
    f = [i \in 1..N |-> IF i = 1 THEN first
                        ELSE IF f[i - 1] = NoOp THEN NoOp ELSE links[f[i - 1]].next]

LEMMA LinksFollowed ==
    ASSUME NEW N \in Nat, NEW q, NEW links, NEW first, NEW last, NEW n \in 0..N, NoOp \notin Ops,
           IsList(q, links, first, last, n),
           NEW f, Follows(f, N, links, first)
    PROVE  \A i \in 1..n : f[i] = q[i]
  <1> DEFINE S == {i \in Nat : i \in 1..n => f[i] = q[i]}
  <1>1. 0 \in S
    OBVIOUS
  <1>2. ASSUME NEW i \in Nat, i \in S PROVE i + 1 \in S
    <2>1. CASE i = 0
      <3>1. 1 \in 1..n => f[1] = first
        BY DEF Follows
      <3>2. 1 \in 1..n => first = q[1]
        BY DEF IsList
      <3>3. QED
        BY <2>1, <3>1, <3>2
    <2>2. CASE i # 0 /\ i + 1 \in 1..n
      <3>1. i \in 1..n /\ i # n /\ f[i] = q[i]
        BY <1>2, <2>2
      <3>2. q[i] \in Ops /\ links[q[i]].next = IF i = n THEN NoOp ELSE q[i + 1]
        BY <3>1, EntryFacts
      <3>3. i + 1 \in 1..N /\ i + 1 # 1 /\ (i + 1) - 1 = i
        BY <2>2
      <3>4. f[i + 1] = IF f[i] = NoOp THEN NoOp ELSE links[f[i]].next
        BY <3>3 DEF Follows
      <3>5. QED
        BY <2>2, <3>1, <3>2, <3>4
    <2>3. CASE i + 1 \notin 1..n
      BY <2>3
    <2>4. QED
      BY <2>1, <2>2, <2>3
  <1> HIDE DEF S
  <1>3. Nat \subseteq S
    BY <1>1, <1>2, SetInduction
  <1>4. ASSUME NEW i \in 1..n PROVE f[i] = q[i]
    <2>1. i \in S
      BY <1>3
    <2>2. QED
      BY <2>1 DEF S
  <1>5. QED
    BY <1>4

(* ... and the entries, with nothing after them, solve it. *)
LEMMA LinksSolved ==
    ASSUME NEW N \in Nat, NEW q, NEW links, NEW first, NEW last, NEW n \in 0..N, NoOp \notin Ops,
           IsList(q, links, first, last, n)
    PROVE  \E f : Follows(f, N, links, first)
  <1> DEFINE f == [i \in 1..N |-> IF i <= n THEN q[i] ELSE NoOp]
  <1> DEFINE step(i) == IF i = 1 THEN first
                        ELSE IF f[i - 1] = NoOp THEN NoOp ELSE links[f[i - 1]].next
  <1>1. ASSUME NEW i \in 1..N PROVE f[i] = step(i)
    <2>1. CASE i = 1
      BY <2>1 DEF IsList
    <2>2. CASE i # 1 /\ i - 1 <= n
      <3>1. f[i - 1] = q[i - 1] /\ i - 1 \in 1..n
        BY <2>2
      <3>2. q[i - 1] \in Ops /\ links[q[i - 1]].next = IF i - 1 = n THEN NoOp ELSE q[i]
        BY <3>1, EntryFacts
      <3>3. QED
        BY <2>2, <3>1, <3>2
    <2>3. CASE i # 1 /\ ~(i - 1 <= n)
      BY <2>3
    <2>4. QED
      BY <2>1, <2>2, <2>3
  <1>2. f = [i \in 1..N |-> step(i)]
    BY <1>1
  <1>3. QED
    BY <1>2 DEF Follows

(* So Place, wherever the entries are linked, is the entries. *)
LEMMA WaitingIs ==
    ASSUME NEW q, count \in 0..MaxQueued, IsList(q, node, head, tail, count)
    PROVE  Waiting = q
  <1>1. PICK f : Follows(f, MaxQueued, node, head)
    BY LinksSolved, ComputeSchedulerAssumption, ComputeBoundsAssumption
  <1>2. Follows(Place, MaxQueued, node, head)
    BY <1>1 DEF Place, Follows
  <1>3. \A i \in 1..count : Place[i] = q[i]
    BY <1>2, LinksFollowed, ComputeSchedulerAssumption, ComputeBoundsAssumption
  <1>4. q \in Seq(Ops) /\ Len(q) = count
    BY DEF IsList
  <1>5. QED
    BY <1>3, <1>4 DEF Waiting

LEMMA NextWaitingIs ==
    ASSUME NEW q, count' \in 0..MaxQueued, IsList(q, node', head', tail', count')
    PROVE  Waiting' = q
  <1>1. PICK f : Follows(f, MaxQueued, node', head')
    BY LinksSolved, ComputeSchedulerAssumption, ComputeBoundsAssumption
  <1>2. Follows(Place', MaxQueued, node', head')
    BY <1>1 DEF Place, Follows
  <1>3. \A i \in 1..count' : Place'[i] = q[i]
    BY <1>2, LinksFollowed, ComputeSchedulerAssumption, ComputeBoundsAssumption
  <1>4. q \in Seq(Ops) /\ Len(q) = count'
    BY DEF IsList
  <1>5. QED
    BY <1>3, <1>4 DEF Waiting

-----------------------------------------------------------------------------
(* The operations on the list *)

LEMMA Enqueued ==
    ASSUME NEW q, NEW links \in [Ops -> [previous : Link, next : Link, queued : BOOLEAN]],
           NEW first, NEW last, NEW n \in Nat,
           IsList(q, links, first, last, n), NEW o \in Ops, ~links[o].queued,
           NEW after,
           after = [p \in Ops |->
                      CASE p = o -> [previous |-> last, next |-> NoOp, queued |-> TRUE]
                        [] p # o /\ p = last -> [links[p] EXCEPT !.next = o]
                        [] OTHER -> links[p]]
    PROVE  IsList(Append(q, o), after, IF last = NoOp THEN o ELSE first, o, n + 1)
  <1> DEFINE r == Append(q, o)
  <1>1. q \in Seq(Ops) /\ Len(q) = n
    BY DEF IsList
  <1>2. /\ r \in Seq(Ops) /\ Len(r) = n + 1 /\ r[n + 1] = o
        /\ \A i \in 1..n : r[i] = q[i]
    BY <1>1
  <1>3. \A i \in 1..n : q[i] # o
    BY EntryFacts
  <1> HIDE DEF r
  <1>4. \A i, j \in 1..(n + 1) : r[i] = r[j] => i = j
    <2>1. \A i, j \in 1..n : q[i] = q[j] => i = j
      BY DEF IsList
    <2>2. QED
      BY <1>2, <1>3, <2>1
  <1>5. last = IF n = 0 THEN NoOp ELSE q[n]
    BY DEF IsList
  <1>6. (IF last = NoOp THEN o ELSE first) = r[1]
    <2>1. first = IF n = 0 THEN NoOp ELSE q[1]
      BY DEF IsList
    <2>2. n # 0 => last # NoOp
      BY <1>1, <1>5, ComputeSchedulerAssumption
    <2>3. QED
      BY <1>2, <1>5, <2>1, <2>2
  <1>7. ASSUME NEW i \in 1..(n + 1)
        PROVE  after[r[i]] = Queued(Before(r, i), After(r, i, n + 1))
    <2>1. CASE i = n + 1
      <3>1. last = Before(r, i) /\ NoOp = After(r, i, n + 1)
        BY <1>2, <1>5, <2>1 DEF Before, After
      <3>2. after[o] = Queued(last, NoOp)
        BY DEF Queued
      <3>3. QED
        BY <1>2, <2>1, <3>1, <3>2
    <2>2. CASE i # n + 1
      <3>1. /\ i \in 1..n /\ r[i] = q[i] /\ q[i] \in Ops /\ q[i] # o
            /\ i # 1 => r[i - 1] = q[i - 1]
            /\ r[i + 1] = IF i = n THEN o ELSE q[i + 1]
        BY <1>1, <1>2, <1>3, <2>2
      <3>2. links[q[i]] = Queued(Before(q, i), After(q, i, n))
        BY <3>1 DEF IsList
      <3>3. q[i] = last <=> i = n
        <4>1. \A j \in 1..n : q[i] = q[j] => i = j
          BY <3>1 DEF IsList
        <4>2. QED
          BY <1>5, <3>1, <4>1
      <3>4. after[q[i]] = IF i = n THEN [links[q[i]] EXCEPT !.next = o] ELSE links[q[i]]
        BY <3>1, <3>3
      <3>5. /\ Before(r, i) = Before(q, i)
            /\ After(r, i, n + 1) = IF i = n THEN o ELSE After(q, i, n)
        BY <2>2, <3>1 DEF Before, After
      <3>6. after[q[i]] = Queued(Before(q, i), IF i = n THEN o ELSE After(q, i, n))
        BY <3>2, <3>4, NextSet
      <3>7. QED
        BY <3>1, <3>5, <3>6
    <2>3. QED
      BY <2>1, <2>2
  <1>8. \A p \in Ops : after[p].queued => \E i \in 1..(n + 1) : r[i] = p
    <2> SUFFICES ASSUME NEW p \in Ops, after[p].queued, p # o
                 PROVE  \E i \in 1..(n + 1) : r[i] = p
      BY <1>2
    <2>1. links[p].queued
      OBVIOUS
    <2>2. PICK i \in 1..n : q[i] = p
      BY <2>1 DEF IsList
    <2>3. QED
      BY <1>2, <2>2
  <1>9. o = IF n + 1 = 0 THEN NoOp ELSE r[n + 1]
    BY <1>2
  <1> DEFINE start == IF last = NoOp THEN o ELSE first
  <1>10. start = IF n + 1 = 0 THEN NoOp ELSE r[1]
    BY <1>6
  <1> HIDE DEF start
  <1>11. IsList(r, after, start, o, n + 1)
    BY <1>2, <1>4, <1>7, <1>8, <1>9, <1>10 DEF IsList
  <1>12. QED
    BY <1>11 DEF r, start

(* Taking out the entry at a place keeps the others, in their order. *)
WithoutEntry(q, k) == SubSeq(q, 1, k - 1) \o SubSeq(q, k + 1, Len(q))

LEMMA WithoutFacts ==
    ASSUME NEW q \in Seq(Ops), NEW k \in 1..Len(q)
    PROVE  /\ WithoutEntry(q, k) \in Seq(Ops)
           /\ Len(WithoutEntry(q, k)) = Len(q) - 1
           /\ \A j \in 1..(Len(q) - 1) :
                WithoutEntry(q, k)[j] = IF j < k THEN q[j] ELSE q[j + 1]
  <1> DEFINE front == SubSeq(q, 1, k - 1)
             back  == SubSeq(q, k + 1, Len(q))
  <1>1. front \in Seq(Ops) /\ Len(front) = k - 1 /\ \A j \in 1..(k - 1) : front[j] = q[j]
    OBVIOUS
  <1>2. /\ back \in Seq(Ops)
        /\ Len(back) = Len(q) - k
        /\ \A j \in 1..(Len(q) - k) : back[j] = q[k + j]
    OBVIOUS
  <1> HIDE DEF front, back
  <1>3. front \o back \in Seq(Ops) /\ Len(front \o back) = Len(q) - 1
    BY <1>1, <1>2
  <1>4. ASSUME NEW j \in 1..(Len(q) - 1)
        PROVE  (front \o back)[j] = IF j < k THEN q[j] ELSE q[j + 1]
    <2>1. CASE j < k
      BY <1>1, <1>2, <2>1
    <2>2. CASE ~(j < k)
      <3>1. (front \o back)[j] = back[j - (k - 1)]
        BY <1>1, <1>2, <2>2
      <3>2. back[j - (k - 1)] = q[k + (j - (k - 1))]
        BY <1>2, <2>2
      <3>3. QED
        BY <2>2, <3>1, <3>2
    <2>3. QED
      BY <2>1, <2>2
  <1>5. QED
    BY <1>3, <1>4 DEF WithoutEntry, front, back

LEMMA Removed ==
    ASSUME NEW q, NEW links \in [Ops -> [previous : Link, next : Link, queued : BOOLEAN]],
           NEW first, NEW last, NEW n \in Nat, NEW k \in 1..n,
           IsList(q, links, first, last, n),
           NEW o, o = q[k],
           NEW prev, prev = links[o].previous, NEW succ, succ = links[o].next,
           NEW after,
           after = [p \in Ops |->
                      CASE p = o -> Unlinked
                        [] p # o /\ p = prev -> [links[p] EXCEPT !.next = succ]
                        [] p \notin {o, prev} /\ p = succ -> [links[p] EXCEPT !.previous = prev]
                        [] OTHER -> links[p]]
    PROVE  IsList(WithoutEntry(q, k), after, IF prev = NoOp THEN succ ELSE first,
                  IF succ = NoOp THEN prev ELSE last, n - 1)
  <1> DEFINE r == WithoutEntry(q, k)
             start == IF prev = NoOp THEN succ ELSE first
             end == IF succ = NoOp THEN prev ELSE last
  <1>1. q \in Seq(Ops) /\ Len(q) = n /\ (\A i, j \in 1..n : q[i] = q[j] => i = j)
    BY DEF IsList
  <1>2. /\ r \in Seq(Ops) /\ Len(r) = n - 1
        /\ \A j \in 1..(n - 1) : r[j] = IF j < k THEN q[j] ELSE q[j + 1]
    BY <1>1, WithoutFacts
  <1>3. /\ o \in Ops
        /\ prev = IF k = 1 THEN NoOp ELSE q[k - 1]
        /\ succ = IF k = n THEN NoOp ELSE q[k + 1]
    BY EntryFacts
  <1>4. \A i \in 1..n : q[i] \in Ops /\ q[i] # NoOp
    BY <1>1, ComputeSchedulerAssumption
  <1>5. /\ first = IF n = 0 THEN NoOp ELSE q[1]
        /\ last = IF n = 0 THEN NoOp ELSE q[n]
    BY DEF IsList
  <1> HIDE DEF r
  <1>6. start = IF n - 1 = 0 THEN NoOp ELSE r[1]
    BY <1>2, <1>3, <1>4, <1>5
  <1>7. end = IF n - 1 = 0 THEN NoOp ELSE r[n - 1]
    <2>1. CASE k = n
      BY <1>2, <1>3, <2>1
    <2>2. CASE k # n
      <3>1. n - 1 \in 1..(n - 1) /\ ~(n - 1 < k) /\ k + 1 \in 1..n
        BY <2>2
      <3>2. succ = q[k + 1] /\ succ # NoOp
        BY <1>3, <1>4, <2>2, <3>1
      <3>3. r[n - 1] = q[n]
        BY <1>2, <3>1
      <3>4. QED
        BY <1>5, <3>1, <3>2, <3>3
    <2>3. QED
      BY <2>1, <2>2
  <1> HIDE DEF start, end
  <1>8. ASSUME NEW i \in 1..(n - 1), NEW j \in 1..(n - 1), r[i] = r[j] PROVE i = j
    <2> DEFINE at(m) == IF m < k THEN m ELSE m + 1
    <2>1. at(i) \in 1..n /\ at(j) \in 1..n /\ q[at(i)] = q[at(j)]
      BY <1>2, <1>8
    <2>2. at(i) = at(j)
      BY <1>1, <2>1
    <2>3. QED
      BY <2>2
  <1>9. ASSUME NEW i \in 1..(n - 1)
        PROVE  after[r[i]] = Queued(Before(r, i), After(r, i, n - 1))
    <2> DEFINE at == IF i < k THEN i ELSE i + 1
    <2>1. at \in 1..n /\ at # k /\ r[i] = q[at]
      BY <1>2
    <2>2. q[at] # o /\ q[at] \in Ops
      BY <1>1, <1>4, <2>1
    <2>3. links[q[at]] = Queued(Before(q, at), After(q, at, n))
      BY <2>1 DEF IsList
    <2>4. q[at] = prev <=> at = k - 1
      BY <1>1, <1>3, <1>4, <2>1
    <2>5. q[at] = succ <=> at = k + 1
      BY <1>1, <1>3, <1>4, <2>1
    <2>6. after[q[at]] = IF at = k - 1 THEN [links[q[at]] EXCEPT !.next = succ]
                         ELSE IF at = k + 1 THEN [links[q[at]] EXCEPT !.previous = prev]
                         ELSE links[q[at]]
      BY <2>2, <2>4, <2>5
    <2>7. CASE at = k - 1
      <3>1. after[q[at]] = Queued(Before(q, at), succ)
        <4>1. after[q[at]] = [links[q[at]] EXCEPT !.next = succ]
          BY <2>6, <2>7
        <4>2. [Queued(Before(q, at), After(q, at, n)) EXCEPT !.next = succ]
                = Queued(Before(q, at), succ)
          BY NextSet
        <4>3. QED
          BY <2>3, <4>1, <4>2
      <3> HIDE DEF at
      <3>2. i = at /\ Before(r, i) = Before(q, at)
        BY <1>2, <2>1, <2>7 DEF Before, at
      <3>3. After(r, i, n - 1) = succ
        BY <1>2, <1>3, <2>1, <2>7 DEF After, at
      <3>4. QED
        BY <2>1, <3>1, <3>2, <3>3
    <2>8. CASE at = k + 1
      <3>1. after[q[at]] = Queued(prev, After(q, at, n))
        <4>1. at # k - 1
          BY <2>8
        <4>2. after[q[at]] = [links[q[at]] EXCEPT !.previous = prev]
          BY <2>6, <2>8, <4>1
        <4>3. [Queued(Before(q, at), After(q, at, n)) EXCEPT !.previous = prev]
                = Queued(prev, After(q, at, n))
          BY PreviousSet
        <4>4. QED
          BY <2>3, <4>2, <4>3
      <3> HIDE DEF at
      <3>2. i = k /\ Before(r, i) = prev
        BY <1>2, <1>3, <2>1, <2>8 DEF Before, at
      <3>3. After(r, i, n - 1) = After(q, at, n)
        BY <1>2, <2>1, <2>8 DEF After, at
      <3>4. QED
        BY <2>1, <3>1, <3>2, <3>3
    <2>9. CASE at \notin {k - 1, k + 1}
      <3>1. after[q[at]] = Queued(Before(q, at), After(q, at, n))
        BY <2>3, <2>6, <2>9
      <3>2. Before(r, i) = Before(q, at)
        BY <1>2, <2>1, <2>9 DEF Before
      <3>3. After(r, i, n - 1) = After(q, at, n)
        <4>1. at = n <=> i = n - 1
          BY <2>1, <2>9
        <4>2. i # n - 1 => r[i + 1] = q[at + 1]
          BY <1>2, <2>1, <2>9
        <4>3. QED
          BY <4>1, <4>2 DEF After
      <3>4. QED
        BY <2>1, <3>1, <3>2, <3>3
    <2>10. QED
      BY <2>7, <2>8, <2>9
  <1>10. \A p \in Ops : after[p].queued => \E i \in 1..(n - 1) : r[i] = p
    <2> SUFFICES ASSUME NEW p \in Ops, after[p].queued
                 PROVE  \E i \in 1..(n - 1) : r[i] = p
      OBVIOUS
    <2>1. p # o /\ links[p].queued
      BY <1>3 DEF Unlinked
    <2>2. PICK j \in 1..n : q[j] = p
      BY <2>1 DEF IsList
    <2>3. j # k
      BY <2>1, <2>2
    <2>4. CASE j < k
      BY <1>2, <2>2, <2>4
    <2>5. CASE j > k
      <3>1. j - 1 \in 1..(n - 1) /\ r[j - 1] = q[j]
        BY <1>2, <2>5
      <3>2. QED
        BY <2>2, <3>1
    <2>6. QED
      BY <2>3, <2>4, <2>5
  <1>11. n - 1 \in Nat
    OBVIOUS
  <1>12. IsList(r, after, start, end, n - 1)
    BY <1>2, <1>6, <1>7, <1>8, <1>9, <1>10 DEF IsList
  <1>13. QED
    BY <1>12 DEF r, start, end

-----------------------------------------------------------------------------
(* The steps of the scheduler *)

LEMMA ListFacts ==
    ASSUME SchedulerInv
    PROVE  /\ Waiting \in Seq(Ops) /\ Len(Waiting) = count /\ count \in Nat
           /\ \A i \in 1..count : Waiting[i] \in Ops /\ op[Waiting[i]] = "waiting"
           /\ \A o \in Ops : op[o] = "waiting" => \E i \in 1..count : Waiting[i] = o
  <1>1. count \in Nat /\ IsList(Waiting, node, head, tail, count)
    BY ComputeBoundsAssumption DEF SchedulerInv, TypeOK
  <1>2. Waiting \in Seq(Ops) /\ Len(Waiting) = count
    BY <1>1 DEF IsList
  <1>3. \A i \in 1..count : Waiting[i] \in Ops /\ node[Waiting[i]].queued
    BY <1>1, EntryFacts
  <1>4. \A o \in Ops : node[o].queued => \E i \in 1..count : Waiting[i] = o
    BY <1>1 DEF IsList
  <1>5. QED
    BY <1>1, <1>2, <1>3, <1>4 DEF SchedulerInv

LEMMA EnqueueMoves ==
    ASSUME SchedulerInv, NEW o \in Ops, ~node[o].queued, count < MaxQueued, Enqueue(o)
    PROVE  /\ Waiting' = Append(Waiting, o)
           /\ IsList(Waiting', node', head', tail', count')
           /\ node' \in [Ops -> [previous : Link, next : Link, queued : BOOLEAN]]
           /\ head' \in Link /\ tail' \in Link /\ count' \in 0..MaxQueued
           /\ \A p \in Ops : node'[p].queued <=> p = o \/ node[p].queued
  <1>1. /\ node \in [Ops -> [previous : Link, next : Link, queued : BOOLEAN]]
        /\ head \in Link /\ tail \in Link /\ count \in 0..MaxQueued
        /\ count \in Nat /\ count + 1 \in 0..MaxQueued
    BY ComputeBoundsAssumption DEF SchedulerInv, TypeOK
  <1> DEFINE q == Append(Waiting, o)
  <1>2. IsList(q, node', head', tail', count')
    BY <1>1, Enqueued DEF Enqueue, SchedulerInv
  <1>3. Waiting' = q
    BY <1>1, <1>2, NextWaitingIs DEF Enqueue
  <1>4. ASSUME NEW p \in Ops
        PROVE  /\ node'[p] \in [previous : Link, next : Link, queued : BOOLEAN]
               /\ node'[p].queued <=> p = o \/ node[p].queued
    <2>1. NoOp \in Link /\ o \in Link
      BY DEF Link
    <2>2. CASE p = o
      BY <1>1, <2>1, <2>2 DEF Enqueue
    <2>3. CASE p # o /\ p = tail
      BY <1>1, <2>1, <2>3 DEF Enqueue
    <2>4. CASE p # o /\ p # tail
      BY <1>1, <2>4 DEF Enqueue
    <2>5. QED
      BY <2>2, <2>3, <2>4
  <1>5. node' \in [Ops -> [previous : Link, next : Link, queued : BOOLEAN]]
    BY <1>4 DEF Enqueue
  <1>6. QED
    BY <1>1, <1>2, <1>3, <1>4, <1>5 DEF Enqueue, Link

LEMMA RemoveMoves ==
    ASSUME SchedulerInv, NEW k \in 1..count, NEW o, o = Waiting[k], Remove(o)
    PROVE  /\ Waiting' = WithoutEntry(Waiting, k)
           /\ IsList(Waiting', node', head', tail', count')
           /\ node' \in [Ops -> [previous : Link, next : Link, queued : BOOLEAN]]
           /\ head' \in Link /\ tail' \in Link /\ count' \in 0..MaxQueued
           /\ \A p \in Ops : node'[p].queued <=> p # o /\ node[p].queued
  <1>1. /\ node \in [Ops -> [previous : Link, next : Link, queued : BOOLEAN]]
        /\ head \in Link /\ tail \in Link /\ count \in 0..MaxQueued
        /\ count \in Nat /\ count - 1 \in 0..MaxQueued /\ o \in Ops
    BY ComputeBoundsAssumption, ListFacts DEF SchedulerInv, TypeOK
  <1> DEFINE q == WithoutEntry(Waiting, k)
             before == node[o].previous
             after == node[o].next
  <1>2. IsList(q, node', head', tail', count')
    BY <1>1, Removed DEF Remove, SchedulerInv
  <1>3. Waiting' = q
    BY <1>1, <1>2, NextWaitingIs DEF Remove
  <1>4. before \in Link /\ after \in Link
    BY <1>1
  <1>5. ASSUME NEW p \in Ops
        PROVE  /\ node'[p] \in [previous : Link, next : Link, queued : BOOLEAN]
               /\ node'[p].queued <=> p # o /\ node[p].queued
    <2>1. NoOp \in Link
      BY DEF Link
    <2>2. CASE p = o
      BY <1>1, <2>1, <2>2 DEF Remove, Unlinked
    <2>3. CASE p # o /\ p = before
      <3>1. node'[p] = [node[p] EXCEPT !.next = after]
        BY <2>3 DEF Remove
      <3>2. QED
        BY <1>1, <1>4, <2>3, <3>1
    <2>4. CASE p \notin {o, before} /\ p = after
      <3>1. node'[p] = [node[p] EXCEPT !.previous = before]
        BY <2>4 DEF Remove
      <3>2. QED
        BY <1>1, <1>4, <2>4, <3>1
    <2>5. CASE p \notin {o, before, after}
      BY <1>1, <2>5 DEF Remove
    <2>6. QED
      BY <2>2, <2>3, <2>4, <2>5
  <1>6. node' \in [Ops -> [previous : Link, next : Link, queued : BOOLEAN]]
    BY <1>5 DEF Remove
  <1>7. head' \in Link /\ tail' \in Link
    BY <1>1, <1>4 DEF Remove
  <1>8. QED
    BY <1>1, <1>2, <1>3, <1>5, <1>6, <1>7 DEF Remove

AbstractStep == Queue!Next \/ UNCHANGED Queue!queueVars

LEMMA SameCardinality == ASSUME NEW S PROVE Queue!Cardinality(S) = Cardinality(S)
  BY DEF Queue!Cardinality, Cardinality

(* The abstract queue and its steps, seen through Waiting and Running. *)
LEMMA Seen ==
    /\ Queue!Waiters = {Waiting[i] : i \in DOMAIN Waiting}
    /\ Queue!queueVars = <<Waiting, Running, closed>>
  BY DEF Queue!Waiters, Queue!queueVars, Waiting, Running

LEMMA StartSeen ==
    ASSUME NEW o, ~closed, o \notin Running \cup Queue!Waiters, Cardinality(Running) < Capacity,
           Running' = Running \cup {o}, Waiting' = Waiting, closed' = closed
    PROVE  Queue!Start(o)
  BY SameCardinality DEF Queue!Start, Waiting, Running

LEMMA WaitSeen ==
    ASSUME NEW o, ~closed, o \notin Running \cup Queue!Waiters, Cardinality(Running) >= Capacity,
           Len(Waiting) < MaxQueued, Waiting' = Append(Waiting, o),
           Running' = Running, closed' = closed
    PROVE  Queue!Wait(o)
  BY SameCardinality DEF Queue!Wait, Waiting, Running

(* An operation that is idle is neither running nor waiting. *)
LEMMA IdleIsNew ==
    ASSUME SchedulerInv, NEW o \in Ops, op[o] = "idle"
    PROVE  o \notin Running /\ ~node[o].queued /\ o \notin Running \cup Queue!Waiters
  <1>1. DOMAIN Waiting = 1..count
    BY ListFacts
  <1>2. \A i \in 1..count : Waiting[i] # o
    BY ListFacts
  <1>3. QED
    BY <1>1, <1>2, Seen DEF Running, SchedulerInv

LEMMA ListKept ==
    ASSUME SchedulerInv, UNCHANGED <<node, head, tail, count>>
    PROVE  /\ Waiting' = Waiting
           /\ IsList(Waiting', node', head', tail', count')
  <1>1. IsList(Waiting, node', head', tail', count') /\ count' \in 0..MaxQueued
    BY DEF SchedulerInv, TypeOK
  <1>2. Waiting' = Waiting
    BY <1>1, NextWaitingIs
  <1>3. QED
    BY <1>1, <1>2

LEMMA ScheduleMoves ==
    ASSUME SchedulerInv, NEW o \in Ops, Schedule(o)
    PROVE  SchedulerInv' /\ AbstractStep
  <1>1. /\ op[o] = "idle" /\ ~closed
        /\ o \notin Running /\ ~node[o].queued /\ o \notin Running \cup Queue!Waiters
    BY IdleIsNew DEF Schedule
  <1>2. /\ op \in [Ops -> {"idle", "waiting", "active"}] /\ active \in 0..Capacity
        /\ active = Cardinality(Running) /\ IsFiniteSet(Running)
        /\ Capacity \in Nat \ {0} /\ MaxQueued \in Nat /\ count \in 0..MaxQueued
    BY ComputeBoundsAssumption DEF SchedulerInv, TypeOK
  <1>3. CASE /\ active < Capacity
             /\ active' = active + 1
             /\ op' = [op EXCEPT ![o] = "active"]
             /\ UNCHANGED <<node, head, tail, count, closed>>
    <2>1. Running' = Running \cup {o}
      BY <1>2, <1>3 DEF Running
    <2>2. IsFiniteSet(Running') /\ Cardinality(Running') = active'
      BY <1>1, <1>2, <1>3, <2>1, FS_AddElement
    <2>3. Waiting' = Waiting /\ IsList(Waiting', node', head', tail', count')
      BY <1>3, ListKept
    <2>4. TypeOK'
      BY <1>2, <1>3 DEF SchedulerInv, TypeOK
    <2>5. \A p \in Ops : node'[p].queued <=> op'[p] = "waiting"
      BY <1>1, <1>2, <1>3 DEF SchedulerInv
    <2>6. count' = 0
      BY <1>2, <1>3 DEF SchedulerInv
    <2>7. SchedulerInv'
      BY <2>2, <2>3, <2>4, <2>5, <2>6 DEF SchedulerInv
    <2>8. Queue!Start(o)
      BY <1>1, <1>2, <1>3, <2>1, <2>3, StartSeen
    <2>9. QED
      BY <2>7, <2>8 DEF AbstractStep, Queue!Next
  <1>4. CASE /\ active >= Capacity
             /\ count < MaxQueued
             /\ Enqueue(o)
             /\ op' = [op EXCEPT ![o] = "waiting"]
             /\ UNCHANGED <<active, closed>>
    <2>1. /\ Waiting' = Append(Waiting, o)
          /\ IsList(Waiting', node', head', tail', count')
          /\ node' \in [Ops -> [previous : Link, next : Link, queued : BOOLEAN]]
          /\ head' \in Link /\ tail' \in Link /\ count' \in 0..MaxQueued
          /\ \A p \in Ops : node'[p].queued <=> p = o \/ node[p].queued
      BY <1>1, <1>4, EnqueueMoves
    <2>2. Running' = Running
      BY <1>1, <1>2, <1>4 DEF Running
    <2>3. TypeOK'
      BY <1>2, <1>4, <2>1 DEF SchedulerInv, TypeOK
    <2>4. \A p \in Ops : node'[p].queued <=> op'[p] = "waiting"
      BY <1>1, <1>2, <1>4, <2>1 DEF SchedulerInv
    <2>5. active' = Capacity /\ ~closed'
      BY <1>1, <1>2, <1>4
    <2>6. IsFiniteSet(Running') /\ Cardinality(Running') = active'
      BY <1>2, <1>4, <2>2
    <2>7. SchedulerInv'
      BY <2>1, <2>3, <2>4, <2>5, <2>6 DEF SchedulerInv
    <2>8. Queue!Wait(o)
      <3>1. Len(Waiting) < MaxQueued
        BY <1>4, ListFacts
      <3>2. QED
        BY <1>1, <1>2, <1>4, <2>1, <2>2, <3>1, WaitSeen
    <2>9. QED
      BY <2>7, <2>8 DEF AbstractStep, Queue!Next
  <1>5. QED
    BY <1>3, <1>4 DEF Schedule

LEMMA GiveUpMoves ==
    ASSUME SchedulerInv, NEW o \in Ops, GiveUp(o)
    PROVE  SchedulerInv' /\ AbstractStep
  <1>1. /\ op \in [Ops -> {"idle", "waiting", "active"}] /\ active \in 0..Capacity
        /\ active = Cardinality(Running) /\ IsFiniteSet(Running)
        /\ Capacity \in Nat \ {0} /\ MaxQueued \in Nat /\ count \in 0..MaxQueued
    BY ComputeBoundsAssumption DEF SchedulerInv, TypeOK
  <1>2. op[o] = "waiting"
    BY DEF GiveUp, SchedulerInv
  <1>3. PICK k \in 1..count : Waiting[k] = o
    BY <1>2, ListFacts
  <1>4. /\ Waiting' = WithoutEntry(Waiting, k)
        /\ IsList(Waiting', node', head', tail', count')
        /\ node' \in [Ops -> [previous : Link, next : Link, queued : BOOLEAN]]
        /\ head' \in Link /\ tail' \in Link /\ count' \in 0..MaxQueued
        /\ \A p \in Ops : node'[p].queued <=> p # o /\ node[p].queued
    BY <1>3, RemoveMoves DEF GiveUp
  <1>5. op' = [op EXCEPT ![o] = "idle"] /\ active' = active /\ closed' = closed
    BY DEF GiveUp
  <1>6. Running' = Running
    BY <1>1, <1>2, <1>5 DEF Running
  <1>7. TypeOK'
    BY <1>1, <1>4, <1>5 DEF SchedulerInv, TypeOK
  <1>8. \A p \in Ops : node'[p].queued <=> op'[p] = "waiting"
    BY <1>1, <1>4, <1>5 DEF SchedulerInv
  <1>9. active' = Capacity /\ ~closed'
    BY <1>1, <1>3, <1>5 DEF SchedulerInv
  <1>10. SchedulerInv'
    BY <1>1, <1>4, <1>5, <1>6, <1>7, <1>8, <1>9 DEF SchedulerInv
  <1>11. k \in DOMAIN Waiting
    BY <1>3, ListFacts
  <1>12. Queue!Withdraw(k)
    BY <1>4, <1>5, <1>6 DEF Queue!Withdraw, Waiting, Running, WithoutEntry
  <1>13. Queue!Next
    BY <1>11, <1>12 DEF Queue!Next, Waiting
  <1>14. QED
    BY <1>10, <1>13 DEF AbstractStep

LEMMA SlotGivenOn ==
    ASSUME NEW S, IsFiniteSet(S), NEW a \in S, NEW b, b \notin S
    PROVE  IsFiniteSet((S \ {a}) \cup {b}) /\ Cardinality((S \ {a}) \cup {b}) = Cardinality(S)
  <1> DEFINE rest == S \ {a}
  <1>1. IsFiniteSet(rest) /\ Cardinality(rest) = Cardinality(S) - 1 /\ b \notin rest
    BY FS_RemoveElement
  <1>2. Cardinality(S) \in Nat
    BY FS_CardinalityType
  <1> HIDE DEF rest
  <1>3. IsFiniteSet(rest \cup {b}) /\ Cardinality(rest \cup {b}) = Cardinality(rest) + 1
    BY <1>1, FS_AddElement
  <1>4. QED
    BY <1>1, <1>2, <1>3 DEF rest

LEMMA FinishSeen ==
    ASSUME NEW o, o \in Running, closed' = closed,
           IF Waiting = <<>> THEN Running' = Running \ {o} /\ Waiting' = Waiting
           ELSE Running' = (Running \ {o}) \cup {Head(Waiting)} /\ Waiting' = Tail(Waiting)
    PROVE  Queue!EndAndDrain(o)
  BY DEF Queue!EndAndDrain, Waiting, Running

LEMMA OperationEndsMoves ==
    ASSUME SchedulerInv, NEW o \in Ops, OperationEnds(o)
    PROVE  SchedulerInv' /\ AbstractStep
  <1>1. /\ op \in [Ops -> {"idle", "waiting", "active"}] /\ active \in 0..Capacity
        /\ active = Cardinality(Running) /\ IsFiniteSet(Running)
        /\ Capacity \in Nat \ {0} /\ MaxQueued \in Nat /\ count \in 0..MaxQueued
    BY ComputeBoundsAssumption DEF SchedulerInv, TypeOK
  <1>2. op[o] = "active" /\ o \in Running /\ closed' = closed
    BY DEF OperationEnds, Running
  <1>3. Waiting \in Seq(Ops) /\ Len(Waiting) = count
    BY ListFacts
  <1>4. CASE ~closed /\ count > 0
    <2>1. /\ Remove(head) /\ active' = active
          /\ op' = [op EXCEPT ![o] = "idle", ![head] = "active"]
      BY <1>4 DEF OperationEnds
    <2>2. 1 \in 1..count /\ head = Waiting[1]
      BY <1>1, <1>4 DEF SchedulerInv, IsList
    <2>3. /\ Waiting' = WithoutEntry(Waiting, 1)
          /\ IsList(Waiting', node', head', tail', count')
          /\ node' \in [Ops -> [previous : Link, next : Link, queued : BOOLEAN]]
          /\ head' \in Link /\ tail' \in Link /\ count' \in 0..MaxQueued
          /\ \A p \in Ops : node'[p].queued <=> p # head /\ node[p].queued
      BY <2>1, <2>2, RemoveMoves
    <2>4. head \in Ops /\ op[head] = "waiting" /\ head # o /\ head \notin Running
      BY <1>2, <2>2, ListFacts DEF Running
    <2>5. /\ op'[o] = "idle" /\ op'[head] = "active"
          /\ \A p \in Ops \ {o, head} : op'[p] = op[p]
      BY <1>1, <2>1, <2>4
    <2>6. Running' = (Running \ {o}) \cup {head}
      BY <1>2, <2>4, <2>5 DEF Running
    <2>7. IsFiniteSet(Running') /\ Cardinality(Running') = active'
      BY <1>1, <1>2, <2>1, <2>4, <2>6, SlotGivenOn
    <2>8. TypeOK'
      BY <1>1, <1>2, <2>1, <2>3 DEF SchedulerInv, TypeOK
    <2>9. \A p \in Ops : node'[p].queued <=> op'[p] = "waiting"
      BY <1>2, <2>3, <2>5 DEF SchedulerInv
    <2>10. active' = Capacity /\ ~closed'
      BY <1>2, <1>4, <2>1 DEF SchedulerInv
    <2>11. SchedulerInv'
      BY <2>3, <2>7, <2>8, <2>9, <2>10 DEF SchedulerInv
    <2>12. WithoutEntry(Waiting, 1) = Tail(Waiting)
      <3>1. /\ WithoutEntry(Waiting, 1) \in Seq(Ops)
            /\ Len(WithoutEntry(Waiting, 1)) = count - 1
            /\ \A j \in 1..(count - 1) : WithoutEntry(Waiting, 1)[j] = Waiting[j + 1]
        BY <1>3, <2>2, WithoutFacts
      <3>2. /\ Tail(Waiting) \in Seq(Ops)
            /\ Len(Tail(Waiting)) = count - 1
            /\ \A j \in 1..(count - 1) : Tail(Waiting)[j] = Waiting[j + 1]
        BY <1>3, <2>2
      <3>3. QED
        BY <3>1, <3>2
    <2>13. Head(Waiting) = head /\ Waiting # <<>>
      BY <1>3, <2>2
    <2>14. Queue!EndAndDrain(o)
      BY <1>2, <2>3, <2>6, <2>12, <2>13, FinishSeen
    <2>15. QED
      BY <2>11, <2>14 DEF AbstractStep, Queue!Next
  <1>5. CASE ~(~closed /\ count > 0)
    <2>1. /\ active' = active - 1
          /\ op' = [op EXCEPT ![o] = "idle"]
          /\ UNCHANGED <<node, head, tail, count>>
      BY <1>5 DEF OperationEnds
    <2>2. count = 0
      BY <1>1, <1>5 DEF SchedulerInv
    <2>3. Waiting' = Waiting /\ IsList(Waiting', node', head', tail', count')
      BY <2>1, ListKept
    <2>4. Running' = Running \ {o}
      BY <1>1, <1>2, <2>1 DEF Running
    <2>5. IsFiniteSet(Running') /\ Cardinality(Running') = active'
      BY <1>1, <1>2, <2>1, <2>4, FS_RemoveElement
    <2>6. Cardinality(Running') \in Nat
      BY <2>5, FS_CardinalityType
    <2>7. TypeOK'
      BY <1>1, <1>2, <2>1, <2>5, <2>6 DEF SchedulerInv, TypeOK
    <2>8. \A p \in Ops : node'[p].queued <=> op'[p] = "waiting"
      BY <1>1, <1>2, <2>1 DEF SchedulerInv
    <2>9. count' = 0
      BY <2>1, <2>2
    <2>10. SchedulerInv'
      BY <2>3, <2>5, <2>7, <2>8, <2>9 DEF SchedulerInv
    <2>11. Waiting = <<>>
      BY <1>3, <2>2
    <2>12. Queue!EndAndDrain(o)
      BY <1>2, <2>3, <2>4, <2>11, FinishSeen
    <2>13. QED
      BY <2>10, <2>12 DEF AbstractStep, Queue!Next
  <1>6. QED
    BY <1>4, <1>5

LEMMA EmptyList ==
    ASSUME NEW links, \A o \in Ops : ~links[o].queued
    PROVE  IsList(<<>>, links, NoOp, NoOp, 0)
  <1>1. <<>> \in Seq(Ops) /\ Len(<<>>) = 0
    OBVIOUS
  <1>2. QED
    BY <1>1 DEF IsList

LEMMA CloseMoves == ASSUME SchedulerInv, Close PROVE SchedulerInv' /\ AbstractStep
  <1>1. /\ op \in [Ops -> {"idle", "waiting", "active"}] /\ active \in 0..Capacity
        /\ active = Cardinality(Running) /\ IsFiniteSet(Running) /\ MaxQueued \in Nat
    BY ComputeBoundsAssumption DEF SchedulerInv, TypeOK
  <1>2. /\ node' = [o \in Ops |-> Unlinked]
        /\ head' = NoOp /\ tail' = NoOp /\ count' = 0 /\ active' = active /\ closed' = TRUE
        /\ \A o \in Ops : op'[o] = IF op[o] = "waiting" THEN "idle" ELSE op[o]
    BY DEF Close
  <1>3. \A o \in Ops : ~node'[o].queued /\ op'[o] # "waiting"
    BY <1>1, <1>2 DEF Unlinked
  <1>4. IsList(<<>>, node', head', tail', count') /\ count' \in 0..MaxQueued
    BY <1>1, <1>2, <1>3, EmptyList
  <1>5. Waiting' = <<>>
    BY <1>4, NextWaitingIs
  <1>6. Running' = Running
    BY <1>2 DEF Running
  <1>7. TypeOK'
    BY <1>1, <1>2 DEF Close, SchedulerInv, TypeOK, Unlinked, Link
  <1>8. SchedulerInv'
    BY <1>1, <1>2, <1>3, <1>4, <1>5, <1>6, <1>7 DEF SchedulerInv
  <1>9. Queue!Close
    BY <1>2, <1>5, <1>6 DEF Queue!Close, Waiting, Running
  <1>10. QED
    BY <1>8, <1>9 DEF AbstractStep, Queue!Next

-----------------------------------------------------------------------------
LEMMA SchedulerInitInv == ASSUME Init PROVE SchedulerInv /\ Queue!Init
  <1>1. \A o \in Ops : ~node[o].queued /\ op[o] = "idle"
    BY DEF Init, Unlinked
  <1>2. IsList(<<>>, node, head, tail, count) /\ count = 0 /\ count \in 0..MaxQueued
    BY <1>1, EmptyList, ComputeBoundsAssumption DEF Init
  <1>3. Waiting = <<>>
    BY <1>2, WaitingIs
  <1>4. Running = {}
    BY <1>1 DEF Running
  <1>5. IsFiniteSet(Running) /\ Cardinality(Running) = active
    BY <1>4, FS_EmptySet DEF Init
  <1>6. TypeOK
    <2>1. Unlinked \in [previous : Link, next : Link, queued : BOOLEAN] /\ NoOp \in Link
      BY DEF Unlinked, Link
    <2>2. 0 \in 0..MaxQueued /\ 0 \in 0..Capacity
      BY ComputeBoundsAssumption
    <2>3. QED
      BY <2>1, <2>2 DEF Init, TypeOK
  <1>7. SchedulerInv
    BY <1>1, <1>2, <1>3, <1>5, <1>6 DEF SchedulerInv
  <1>8. Queue!Init
    BY <1>3, <1>4 DEF Queue!Init, Init, Waiting, Running
  <1>9. QED
    BY <1>7, <1>8

LEMMA SchedulerStays == ASSUME SchedulerInv, UNCHANGED vars PROVE SchedulerInv' /\ AbstractStep
  <1>1. UNCHANGED <<node, head, tail, count, active, op, closed>>
    BY DEF vars
  <1>2. Waiting' = Waiting /\ Running' = Running
    BY <1>1, ListKept DEF Running
  <1>3. SchedulerInv'
    BY <1>1, <1>2, ListKept DEF SchedulerInv, TypeOK
  <1>4. UNCHANGED Queue!queueVars
    BY <1>1, <1>2 DEF Queue!queueVars, Waiting, Running
  <1>5. QED
    BY <1>3, <1>4 DEF AbstractStep

LEMMA SchedulerMoves == ASSUME SchedulerInv, [Next]_vars PROVE SchedulerInv' /\ AbstractStep
  BY ScheduleMoves, GiveUpMoves, OperationEndsMoves, CloseMoves, SchedulerStays DEF Next

(* The linked list is the queue it is meant to be: through every mixture of *)
(* arrivals, timeouts, aborts, ends and close it starts the operations in   *)
(* their order, loses none, starts none twice and keeps no capacity idle.   *)
THEOREM ListIsQueue == Spec => ImplementsQueue
  <1>1. Init => SchedulerInv /\ Queue!Init
    BY SchedulerInitInv
  <1>2. SchedulerInv /\ [Next]_vars => SchedulerInv' /\ [Queue!Next]_(Queue!queueVars)
    BY SchedulerMoves DEF AbstractStep
  <1>3. QED
    BY <1>1, <1>2, PTL DEF Spec, ImplementsQueue, Queue!Spec

-----------------------------------------------------------------------------
(* The registry, the wake-ups, the channels and the connections *)

(* A key leads to a computation that has not settled, a computation that    *)
(* has settled is as if it had never been, and the registry never counts    *)
(* more of them than its limit.                                             *)
EntriesLive == \A k \in Keys : entry[k] # NoOp => phase[entry[k]] # "absent"

SettledIsGone == \A o \in Signalled : phase[o] = "absent" => subscribers[o] = {} /\ ~aborted[o]

RegistryInv ==
    /\ RegistryTypeOK
    /\ EntriesLive
    /\ SettledIsGone
    /\ CancellationIsPrivate
    /\ IsFiniteSet(Unsettled)
    /\ ComputationsBounded

(* The threads that compute or are about to test the counter: enough of     *)
(* them to use every computation slot, whenever a thread waits for one.     *)
Contending == {s \in Sockets : thread[s] \in {"acquiring", "computing"}}

Threads == {"none", "backlog", "reading", "acquiring", "waiting", "computing", "replied"}

WakeInv ==
    /\ thread \in [Sockets -> Threads]
    /\ IsFiniteSet(Contending)
    /\ (\E s \in Sockets : thread[s] = "waiting") => Cardinality(Contending) >= MaxActive

(* The state of the client's channels, as the calls and the server share it *)
ChannelTypes ==
    /\ stage \in [Ops -> {"none", "sent", "settled", "refused"}]
    /\ channel \in [Ops -> Channels \cup {NoOp}]
    /\ available \in Seq(Shared)
    /\ socket \in [Channels -> Sockets \cup {NoSocket}]
    /\ peer \in [Sockets -> BOOLEAN]
    /\ frames \in [Sockets -> Seq(Ops)]

(* A call with a signal has its own channel or none, any other a shared one, *)
(* and a call that has written or settled has one.                          *)
CallsHaveChannels ==
    /\ \A o \in Signalled : channel[o] \in {o, NoOp} /\ stage[o] # "refused"
    /\ \A o \in Ops \ Signalled : channel[o] \in Shared \cup {NoOp}
    /\ \A o \in Ops : stage[o] \in {"sent", "settled"} => channel[o] # NoOp

(* No two calls hold one channel, and none that is held is available. *)
ChannelsExclusive ==
    /\ \A o, p \in Ops : channel[o] = channel[p] /\ channel[o] # NoOp => o = p
    /\ \A i, j \in DOMAIN available : available[i] = available[j] => i = j
    /\ \A i \in DOMAIN available, o \in Ops : available[i] # channel[o]

(* The open connections are those of the channels, one each. *)
ConnectionsMatch ==
    /\ \A c \in Channels : socket[c] # NoSocket => peer[socket[c]]
    /\ \A c, d \in Channels : socket[c] = socket[d] /\ socket[c] # NoSocket => c = d
    /\ \A s \in Sockets : peer[s] => \E c \in Channels : socket[c] = s
    /\ \A c \in Signalled : socket[c] # NoSocket => channel[c] = c

(* On the connection of a channel is the request of the call that waits for *)
(* its answer, and nothing when no call does.                               *)
Pending(c) == \E o \in Ops : stage[o] = "sent" /\ channel[o] = c

FramesMatch ==
    /\ AnswersItsRequest
    /\ \A c \in Channels : socket[c] # NoSocket /\ ~Pending(c) => frames[socket[c]] = <<>>

PoolInv ==
    /\ ChannelTypes
    /\ CallsHaveChannels
    /\ ChannelsExclusive
    /\ ConnectionsMatch
    /\ FramesMatch

-----------------------------------------------------------------------------
(* The registry *)

LEMMA RegistryInitInv == ASSUME RegistryInit PROVE RegistryInv
  <1>1. RegistryTypeOK /\ EntriesLive /\ SettledIsGone /\ CancellationIsPrivate
    BY DEF RegistryInit, RegistryTypeOK, EntriesLive, SettledIsGone, CancellationIsPrivate
  <1>2. Unsettled = {}
    BY DEF RegistryInit, Unsettled
  <1>3. IsFiniteSet(Unsettled) /\ ComputationsBounded
    BY <1>2, FS_EmptySet, SharedComputationAssumption DEF ComputationsBounded
  <1>4. QED
    BY <1>1, <1>3 DEF RegistryInv

(* What leaves the registry alone keeps its invariant. *)
LEMMA RegistryStays == ASSUME RegistryInv, UNCHANGED registryVars PROVE RegistryInv'
  <1>1. Unsettled' = Unsettled
    BY DEF registryVars, Unsettled
  <1>2. QED
    BY <1>1 DEF registryVars, RegistryInv, RegistryTypeOK, EntriesLive, SettledIsGone,
                CancellationIsPrivate, ComputationsBounded

(* What changes no phase from or to absent leaves the count as it is. *)
LEMMA CountStays ==
    ASSUME RegistryInv, \A o \in Signalled : phase'[o] = "absent" <=> phase[o] = "absent"
    PROVE  IsFiniteSet(Unsettled)' /\ ComputationsBounded'
  <1>1. Unsettled' = Unsettled
    BY DEF Unsettled
  <1>2. QED
    BY <1>1 DEF RegistryInv, ComputationsBounded

LEMMA RunInv ==
    ASSUME RegistryInv, NEW c \in Callers, NEW k \in Keys, Run(c, k)
    PROVE  RegistryInv'
  <1> USE DEF RegistryTypeOK, EntriesLive, SettledIsGone, CancellationIsPrivate
  <1>1. CASE /\ entry[k] # NoOp
             /\ subscribers' = [subscribers EXCEPT ![entry[k]] = @ \cup {c}]
             /\ UNCHANGED <<entry, phase, aborted>>
    <2>1. entry[k] \in Signalled /\ ~aborted[entry[k]] /\ phase[entry[k]] # "absent"
      BY <1>1 DEF RegistryInv
    <2>2. RegistryTypeOK'
      BY <1>1, <2>1 DEF RegistryInv
    <2>3. EntriesLive' /\ SettledIsGone' /\ CancellationIsPrivate'
      BY <1>1, <2>1 DEF RegistryInv
    <2>4. QED
      BY <1>1, <2>2, <2>3, CountStays DEF RegistryInv
  <1>2. ASSUME entry[k] = NoOp, Cardinality(Unsettled) < MaximumEntries,
               NEW o \in Signalled,
               phase[o] = "absent",
               entry' = [entry EXCEPT ![k] = o],
               phase' = [phase EXCEPT ![o] = "preparing"],
               subscribers' = [subscribers EXCEPT ![o] = {c}],
               aborted' = [aborted EXCEPT ![o] = FALSE]
        PROVE  RegistryInv'
    <2>1. o # NoOp
      BY ComputeSchedulerAssumption, ComputePoolAssumption
    <2>2. RegistryTypeOK'
      BY <1>2 DEF RegistryInv
    <2>3. EntriesLive' /\ SettledIsGone'
      BY <1>2, <2>1 DEF RegistryInv
    <2>4. CancellationIsPrivate'
      BY <1>2 DEF RegistryInv
    <2>5. Unsettled' = Unsettled \cup {o} /\ o \notin Unsettled
      BY <1>2 DEF Unsettled, RegistryInv
    <2>6. IsFiniteSet(Unsettled)' /\ Cardinality(Unsettled') = Cardinality(Unsettled) + 1
      BY <2>5, FS_AddElement DEF RegistryInv
    <2>7. Cardinality(Unsettled) \in Nat
      BY FS_CardinalityType DEF RegistryInv
    <2>8. QED
      BY <1>2, <2>2, <2>3, <2>4, <2>6, <2>7, SharedComputationAssumption
      DEF RegistryInv, ComputationsBounded
  <1>3. QED
    BY <1>1, <1>2 DEF Run

LEMMA LeaveInv ==
    ASSUME RegistryInv, NEW c \in Callers, NEW o \in Signalled, Leave(c, o)
    PROVE  RegistryInv'
  <1> USE DEF RegistryTypeOK, EntriesLive, SettledIsGone, CancellationIsPrivate
  <1>1. /\ c \in subscribers[o] /\ phase' = phase
        /\ subscribers' = [subscribers EXCEPT ![o] = @ \ {c}]
    BY DEF Leave
  <1>2. CASE subscribers[o] = {c}
    <2>1. entry' = Forgotten(o) /\ aborted' = [aborted EXCEPT ![o] = TRUE]
      BY <1>2 DEF Leave
    <2>2. RegistryTypeOK'
      BY <1>1, <2>1 DEF RegistryInv, Forgotten
    <2>3. phase[o] # "absent"
      BY <1>1 DEF RegistryInv
    <2>4. EntriesLive' /\ SettledIsGone'
      BY <1>1, <2>1, <2>3 DEF RegistryInv, Forgotten
    <2>5. CancellationIsPrivate'
      BY <1>1, <1>2, <2>1, ComputeSchedulerAssumption, ComputePoolAssumption
      DEF RegistryInv, Forgotten
    <2>6. QED
      BY <1>1, <2>2, <2>4, <2>5, CountStays DEF RegistryInv
  <1>3. CASE subscribers[o] # {c}
    <2>1. UNCHANGED <<entry, aborted>>
      BY <1>3 DEF Leave
    <2>2. RegistryTypeOK' /\ EntriesLive' /\ SettledIsGone' /\ CancellationIsPrivate'
      BY <1>1, <2>1 DEF RegistryInv
    <2>3. QED
      BY <1>1, <2>2, CountStays DEF RegistryInv
  <1>4. QED
    BY <1>2, <1>3

LEMMA SettledInv ==
    ASSUME RegistryInv, NEW o \in Signalled, Settled(o)
    PROVE  RegistryInv'
  <1> USE DEF RegistryTypeOK, EntriesLive, SettledIsGone, CancellationIsPrivate
  <1>1. RegistryTypeOK'
    BY DEF RegistryInv, Settled, Forgotten
  <1>2. EntriesLive' /\ SettledIsGone' /\ CancellationIsPrivate'
    BY ComputeSchedulerAssumption, ComputePoolAssumption DEF RegistryInv, Settled, Forgotten
  <1>3. Unsettled' = Unsettled \ {o}
    BY DEF RegistryInv, Settled, Unsettled
  <1>4. /\ IsFiniteSet(Unsettled)' /\ Cardinality(Unsettled') <= Cardinality(Unsettled)
        /\ Cardinality(Unsettled) \in Nat /\ Cardinality(Unsettled') \in Nat
    <2>1. IsFiniteSet(Unsettled)
      BY DEF RegistryInv
    <2>2. IsFiniteSet(Unsettled \ {o}) /\ Cardinality(Unsettled \ {o}) <= Cardinality(Unsettled)
      BY <2>1, FS_Subset
    <2>3. Cardinality(Unsettled) \in Nat /\ Cardinality(Unsettled \ {o}) \in Nat
      BY <2>1, <2>2, FS_CardinalityType
    <2>4. QED
      BY <1>3, <2>2, <2>3
  <1>5. QED
    BY <1>1, <1>2, <1>4, SharedComputationAssumption DEF RegistryInv, ComputationsBounded

LEMMA RegistryNextInv == ASSUME RegistryInv, [AllNext]_allVars PROVE RegistryInv'
  <1>1. ASSUME NEW c \in Callers, NEW k \in Keys, Run(c, k) PROVE RegistryInv'
    BY <1>1, RunInv
  <1>2. ASSUME NEW c \in Callers, NEW o \in Signalled, Leave(c, o) PROVE RegistryInv'
    BY <1>2, LeaveInv
  <1>3. ASSUME NEW o \in Signalled, FactoryCalls(o) PROVE RegistryInv'
    <2>1. /\ phase[o] = "preparing" /\ phase' = [phase EXCEPT ![o] = "scheduled"]
          /\ UNCHANGED <<entry, subscribers, aborted>>
      BY <1>3 DEF FactoryCalls
    <2>2. RegistryTypeOK' /\ EntriesLive' /\ SettledIsGone' /\ CancellationIsPrivate'
      BY <2>1 DEF RegistryInv, RegistryTypeOK, EntriesLive, SettledIsGone, CancellationIsPrivate
    <2>3. \A p \in Signalled : phase'[p] = "absent" <=> phase[p] = "absent"
      BY <2>1 DEF RegistryInv, RegistryTypeOK
    <2>4. QED
      BY <2>2, <2>3, CountStays DEF RegistryInv
  <1>4. ASSUME NEW o \in Signalled, FactoryFails(o) \/ ComputationSettles(o) PROVE RegistryInv'
    BY <1>4, SettledInv DEF FactoryFails, ComputationSettles
  <1>5. ASSUME NEW o \in Ops, DirectCall(o) \/ QueueTimeout(o) \/ CallStep(o) PROVE RegistryInv'
    BY <1>5, RegistryStays DEF DirectCall, QueueTimeout, CallStep
  <1>6. ASSUME NEW s \in Sockets, ConnectionStep(s) PROVE RegistryInv'
    BY <1>6, RegistryStays DEF ConnectionStep
  <1>7. CASE Shutdown \/ UNCHANGED allVars
    BY <1>7, RegistryStays DEF Shutdown, allVars
  <1>8. QED
    BY <1>1, <1>2, <1>3, <1>4, <1>5, <1>6, <1>7 DEF AllNext

(* The computations that hold their inputs never exceed the limit of        *)
(* SharedComputationRegistry, those among them that were aborted and have   *)
(* not settled included.                                                    *)
THEOREM BoundedComputations == AllSpec => []ComputationsBounded
  <1>1. AllInit => RegistryInv
    BY RegistryInitInv DEF AllInit
  <1>2. RegistryInv /\ [AllNext]_allVars => RegistryInv'
    BY RegistryNextInv
  <1>3. RegistryInv => ComputationsBounded
    BY DEF RegistryInv
  <1>4. QED
    BY <1>1, <1>2, <1>3, PTL DEF AllSpec

(* A caller that leaves a shared computation aborts it for nobody else: no  *)
(* subscriber is left on an aborted one, and none can join it.              *)
THEOREM PrivateCancellation == AllSpec => []CancellationIsPrivate
  <1>1. AllInit => RegistryInv
    BY RegistryInitInv DEF AllInit
  <1>2. RegistryInv /\ [AllNext]_allVars => RegistryInv'
    BY RegistryNextInv
  <1>3. RegistryInv => CancellationIsPrivate
    BY DEF RegistryInv
  <1>4. QED
    BY <1>1, <1>2, <1>3, PTL DEF AllSpec

-----------------------------------------------------------------------------
(* The admission of the server *)

LEMMA WakeInitInv == ASSUME PoolInit PROVE WakeInv
  <1>1. Contending = {} /\ ~\E s \in Sockets : thread[s] = "waiting"
    BY DEF PoolInit, Contending
  <1>2. QED
    BY <1>1, FS_EmptySet DEF PoolInit, WakeInv, Threads

(* A thread that neither waits nor leaves the contest nor enters it *)
LEMMA WakeStays ==
    ASSUME WakeInv, thread' \in [Sockets -> Threads],
           \A s \in Sockets : thread'[s] \in {"acquiring", "computing"}
                                <=> thread[s] \in {"acquiring", "computing"},
           \A s \in Sockets : thread'[s] = "waiting" => thread[s] = "waiting"
    PROVE  WakeInv'
  <1>1. Contending' = Contending
    BY DEF Contending
  <1>2. QED
    BY <1>1 DEF WakeInv

(* One more thread in the contest keeps the invariant as well. *)
LEMMA ContenderAdded ==
    ASSUME WakeInv, NEW s \in Sockets, thread[s] \notin {"acquiring", "computing"},
           thread' = [thread EXCEPT ![s] = "acquiring"]
    PROVE  WakeInv'
  <1>1. Contending' = Contending \cup {s} /\ s \notin Contending
    BY DEF WakeInv, Contending, Threads
  <1>2. IsFiniteSet(Contending) /\ Cardinality(Contending) \in Nat
    BY FS_CardinalityType DEF WakeInv
  <1>3. IsFiniteSet(Contending') /\ Cardinality(Contending') = Cardinality(Contending) + 1
    BY <1>1, <1>2, FS_AddElement
  <1>4. thread' \in [Sockets -> Threads]
    BY DEF WakeInv, Threads
  <1>5. \A t \in Sockets : thread'[t] = "waiting" => thread[t] = "waiting"
    BY DEF WakeInv
  <1>6. QED
    BY <1>2, <1>3, <1>4, <1>5, ComputePoolAssumption DEF WakeInv

(* A thread waits only when others take every slot. *)
LEMMA AcquireWake ==
    ASSUME WakeInv, NEW s \in Sockets, Acquire(s)
    PROVE  WakeInv'
  <1>1. CASE Cardinality(Computing) < MaxActive
    BY <1>1, WakeStays DEF Acquire, WakeInv, Threads
  <1>2. CASE ~(Cardinality(Computing) < MaxActive)
    <2>1. thread[s] = "acquiring" /\ thread' = [thread EXCEPT ![s] = "waiting"]
      BY <1>2 DEF Acquire
    <2>2. Contending' = Contending \ {s}
      BY <2>1 DEF WakeInv, Contending, Threads
    <2>3. IsFiniteSet(Contending')
      BY <2>2, FS_RemoveElement DEF WakeInv
    <2>4. Computing \in SUBSET Contending'
      BY <2>1, <2>2 DEF Computing, Contending
    <2>5. Cardinality(Computing) <= Cardinality(Contending')
      BY <2>3, <2>4, FS_Subset
    <2>6. Cardinality(Computing) \in Nat /\ Cardinality(Contending') \in Nat
      BY <2>3, <2>4, FS_Subset, FS_CardinalityType
    <2>7. Cardinality(Contending') >= MaxActive
      BY <1>2, <2>5, <2>6, ComputePoolAssumption
    <2>8. thread' \in [Sockets -> Threads]
      BY <2>1 DEF WakeInv, Threads
    <2>9. QED
      BY <2>3, <2>7, <2>8 DEF WakeInv
  <1>3. QED
    BY <1>1, <1>2

(* The slot that comes free is contended for by the thread that is woken. *)
LEMMA ComputationEndsWake ==
    ASSUME WakeInv, NEW s \in Sockets, ComputationEnds(s)
    PROVE  WakeInv'
  <1> DEFINE t == [thread EXCEPT ![s] = IF peer[s] THEN "replied" ELSE "none"]
  <1>1. thread[s] = "computing" /\ thread' \in Woken(t)
    BY DEF ComputationEnds
  <1>2. /\ t \in [Sockets -> Threads]
        /\ t[s] \in {"replied", "none"}
        /\ \A u \in Sockets \ {s} : t[u] = thread[u]
    BY DEF WakeInv, Threads
  <1> HIDE DEF t
  <1>3. IsFiniteSet(Contending) /\ s \in Contending
    BY <1>1 DEF WakeInv, Contending
  <1>4. CASE \E w \in Sockets : t[w] = "waiting"
    <2>1. PICK w \in Sockets : t[w] = "waiting" /\ thread' = [t EXCEPT ![w] = "acquiring"]
      BY <1>1, <1>4 DEF Woken
    <2>2. w # s /\ thread[w] = "waiting"
      BY <1>2, <2>1
    <2>3. thread' \in [Sockets -> Threads]
      BY <1>2, <2>1 DEF Threads
    <2>4. Contending' = (Contending \ {s}) \cup {w} /\ w \notin Contending
      BY <1>2, <2>1, <2>2 DEF Contending
    <2>5. IsFiniteSet(Contending') /\ Cardinality(Contending') = Cardinality(Contending)
      BY <1>3, <2>4, SlotGivenOn
    <2>6. QED
      BY <2>2, <2>3, <2>5 DEF WakeInv
  <1>5. CASE ~\E w \in Sockets : t[w] = "waiting"
    <2>1. thread' = t
      BY <1>1, <1>5 DEF Woken
    <2>2. Contending' = Contending \ {s}
      BY <1>2, <2>1 DEF Contending
    <2>3. IsFiniteSet(Contending')
      BY <1>3, <2>2, FS_RemoveElement
    <2>4. QED
      BY <1>2, <1>5, <2>1, <2>3 DEF WakeInv
  <1>6. QED
    BY <1>4, <1>5

LEMMA ServerStepWake ==
    ASSUME WakeInv, NEW s \in Sockets, ServerStep(s)
    PROVE  WakeInv'
  <1>1. CASE Accept(s) \/ AnswerLost(s)
    BY <1>1, WakeStays DEF Accept, AnswerLost, WakeInv, Threads
  <1>2. CASE ReadFrame(s)
    <2>1. CASE frames[s] # <<>>
      BY <1>2, <2>1, ContenderAdded DEF ReadFrame
    <2>2. CASE frames[s] = <<>>
      BY <1>2, <2>2, WakeStays DEF ReadFrame, WakeInv, Threads
    <2>3. QED
      BY <2>1, <2>2
  <1>3. QED
    BY <1>1, <1>2, AcquireWake, ComputationEndsWake DEF ServerStep

(* The client touches a thread only to open a connection or to read an answer. *)
LEMMA CallWake ==
    ASSUME WakeInv, NEW o \in Ops, CallStep(o)
    PROVE  WakeInv'
  <1>1. CASE Send(o)
    <2>1. \/ thread' = thread
          \/ \E s \in Sockets : thread[s] = "none" /\ thread' = [thread EXCEPT ![s] = "backlog"]
      BY <1>1 DEF Send
    <2>2. QED
      BY <2>1, WakeStays DEF WakeInv, Threads
  <1>2. CASE Answer(o)
    <2>1. \/ thread' = thread
          \/ \E s \in Sockets : thread[s] = "replied" /\ thread' = [thread EXCEPT ![s] = "reading"]
      BY <1>2 DEF Answer, WakeInv
    <2>2. QED
      BY <2>1, WakeStays DEF WakeInv, Threads
  <1>3. ASSUME UNCHANGED thread PROVE WakeInv'
    BY <1>3, WakeStays DEF WakeInv
  <1>4. QED
    BY <1>1, <1>2, <1>3 DEF CallStep, TakeChannel, ConnectFails, TimeOut, CallEnds

LEMMA WakeNextInv == ASSUME WakeInv, [AllNext]_allVars PROVE WakeInv'
  <1>1. ASSUME UNCHANGED thread PROVE WakeInv'
    BY <1>1, WakeStays DEF WakeInv
  <1>2. ASSUME NEW c \in Callers, NEW k \in Keys, Run(c, k) PROVE WakeInv'
    BY <1>1, <1>2 DEF Run, poolVars
  <1>3. ASSUME NEW c \in Callers, NEW o \in Signalled, Leave(c, o) PROVE WakeInv'
    BY <1>1, <1>3 DEF Leave, Abort, poolVars
  <1>4. ASSUME NEW o \in Signalled, FactoryCalls(o) \/ FactoryFails(o) \/ ComputationSettles(o)
        PROVE  WakeInv'
    BY <1>1, <1>4 DEF FactoryCalls, FactoryFails, ComputationSettles, poolVars
  <1>5. ASSUME NEW o \in Ops, DirectCall(o) \/ QueueTimeout(o) PROVE WakeInv'
    BY <1>1, <1>5 DEF DirectCall, QueueTimeout, poolVars
  <1>6. ASSUME NEW s \in Sockets, ConnectionStep(s) PROVE WakeInv'
    BY <1>1, <1>6, ServerStepWake DEF ConnectionStep, ConnectionLost
  <1>7. CASE Shutdown \/ UNCHANGED allVars
    BY <1>1, <1>7 DEF Shutdown, ClientClose, allVars, poolVars
  <1>8. QED
    BY <1>2, <1>3, <1>4, <1>5, <1>6, <1>7, CallWake DEF AllNext

(* While a computation slot of the socket server is free, a thread that     *)
(* waits for one is not left asleep alone: Admission wakes one at a time,   *)
(* and whoever ends, fails or finds its client gone wakes the next.         *)
THEOREM WakeupsArrive == AllSpec => []NoLostWakeup
  <1>1. AllInit => WakeInv
    BY WakeInitInv DEF AllInit
  <1>2. WakeInv /\ [AllNext]_allVars => WakeInv'
    BY WakeNextInv
  <1>3. WakeInv => NoLostWakeup
    <2> SUFFICES ASSUME WakeInv, NEW s \in Sockets, thread[s] = "waiting",
                        Cardinality(Computing) < MaxActive,
                        ~\E u \in Sockets : thread[u] = "acquiring"
                 PROVE  FALSE
      BY DEF NoLostWakeup
    <2>1. Contending = Computing
      BY DEF Contending, Computing
    <2>2. Cardinality(Contending) >= MaxActive /\ Cardinality(Contending) \in Nat
      BY FS_CardinalityType DEF WakeInv
    <2>3. QED
      BY <2>1, <2>2, ComputePoolAssumption
  <1>4. QED
    BY <1>1, <1>2, <1>3, PTL DEF AllSpec

-----------------------------------------------------------------------------
(* The channels of the client, and what is on their connections *)

(* The names of channels, connections and calls that the constants keep apart *)
LEMMA NamesApart ==
    /\ Signalled \subseteq Ops /\ Signalled \subseteq Channels /\ Shared \subseteq Channels
    /\ NoOp \notin Ops /\ NoOp \notin Channels /\ NoOp \notin Shared
    /\ \A c \in Shared : c \notin Ops /\ c \notin Signalled
    /\ \A s \in Sockets : s # NoSocket
  BY ComputeSchedulerAssumption, ComputePoolAssumption DEF Channels

(* As many shared channels as slots: none is available twice. *)
LEMMA PoolInitInv == ASSUME PoolInit PROVE PoolInv
  <1>1. Capacity \in Nat /\ IsFiniteSet(1..Capacity) /\ Cardinality(1..Capacity) = Capacity
    BY FS_Interval, ComputeBoundsAssumption
  <1>2. available \in [1..Capacity -> Shared] /\ \A c \in Shared : \E i \in 1..Capacity : available[i] = c
    BY DEF PoolInit, Held
  <1>3. available \in Surjection(1..Capacity, Shared)
    BY <1>2 DEF Surjection
  <1>4. available \in Injection(1..Capacity, Shared)
    BY <1>1, <1>3, FS_SurjSameCardinalityImpliesInj, ComputePoolAssumption
  <1>5. \A i, j \in 1..Capacity : available[i] = available[j] => i = j
    BY <1>2, <1>4 DEF Injection, IsInjective
  <1>6. available \in Seq(Shared) /\ DOMAIN available = 1..Capacity
    BY <1>1, <1>2
  <1>7. ChannelTypes
    BY <1>6 DEF PoolInit, ChannelTypes
  <1>8. CallsHaveChannels
    BY NamesApart DEF PoolInit, CallsHaveChannels
  <1>9. ChannelsExclusive
    BY <1>2, <1>5, <1>6, NamesApart DEF PoolInit, ChannelsExclusive
  <1>10. ConnectionsMatch
    BY NamesApart DEF PoolInit, ConnectionsMatch
  <1>11. FramesMatch
    BY DEF PoolInit, FramesMatch, AnswersItsRequest
  <1>12. QED
    BY <1>7, <1>8, <1>9, <1>10, <1>11 DEF PoolInv

LEMMA PoolStays ==
    ASSUME PoolInv, UNCHANGED <<stage, channel, available, socket, peer, frames>>
    PROVE  PoolInv'
  <1>1. ChannelTypes' /\ CallsHaveChannels' /\ ChannelsExclusive'
    BY DEF PoolInv, ChannelTypes, CallsHaveChannels, ChannelsExclusive
  <1>2. ConnectionsMatch' /\ FramesMatch'
    BY DEF PoolInv, ConnectionsMatch, FramesMatch, AnswersItsRequest, Pending
  <1>3. QED
    BY <1>1, <1>2 DEF PoolInv

(* What changes no connection and neither who waits for an answer nor where *)
LEMMA FramesStay ==
    ASSUME FramesMatch, UNCHANGED <<socket, frames>>,
           \A o \in Ops : stage'[o] = "sent" <=> stage[o] = "sent",
           \A o \in Ops : stage[o] = "sent" => channel'[o] = channel[o]
    PROVE  FramesMatch'
  <1>1. AnswersItsRequest'
    BY DEF FramesMatch, AnswersItsRequest
  <1>2. \A c \in Channels : Pending(c)' <=> Pending(c)
    BY DEF Pending
  <1>3. QED
    BY <1>1, <1>2 DEF FramesMatch

LEMMA TakeChannelInv ==
    ASSUME PoolInv, NEW o \in Ops, NEW b \in BOOLEAN, TakeChannel(o, b)
    PROVE  PoolInv'
  <1>1. stage[o] = "none" /\ channel[o] = NoOp /\ UNCHANGED <<socket, peer, frames>>
    BY DEF TakeChannel
  <1>2. CASE o \notin Signalled /\ available = <<>>
    <2>1. stage' = [stage EXCEPT ![o] = "refused"] /\ UNCHANGED <<channel, available>>
      BY <1>2 DEF TakeChannel
    <2>2. ChannelTypes'
      BY <1>1, <2>1 DEF PoolInv, ChannelTypes
    <2>3. CallsHaveChannels'
      BY <1>2, <2>1 DEF PoolInv, ChannelTypes, CallsHaveChannels
    <2>4. ChannelsExclusive' /\ ConnectionsMatch'
      BY <1>1, <2>1 DEF PoolInv, ChannelsExclusive, ConnectionsMatch
    <2>5. FramesMatch'
      BY <1>1, <2>1, FramesStay DEF PoolInv, ChannelTypes
    <2>6. QED
      BY <2>2, <2>3, <2>4, <2>5 DEF PoolInv
  <1>3. CASE ~(o \notin Signalled /\ available = <<>>)
    <2> DEFINE c == IF o \in Signalled THEN o ELSE Head(available)
    <2>1. /\ stage' = IF b THEN [stage EXCEPT ![o] = "settled"] ELSE stage
          /\ channel' = [channel EXCEPT ![o] = c]
          /\ available' = IF o \in Signalled THEN available ELSE Tail(available)
      BY <1>3 DEF TakeChannel
    <2>2. o \notin Signalled => /\ Len(available) > 0 /\ c = available[1] /\ c \in Shared
                                /\ 1 \in DOMAIN available
      BY <1>3 DEF PoolInv, ChannelTypes
    <2>3. /\ available' \in Seq(Shared)
          /\ o \in Signalled => available' = available
          /\ o \notin Signalled =>
               \A i \in DOMAIN available' : i + 1 \in DOMAIN available /\ available'[i] = available[i + 1]
      BY <2>1, <2>2 DEF PoolInv, ChannelTypes
    <2>4. c \in Channels /\ (o \in Signalled => c = o)
      BY <2>2, NamesApart
    <2> HIDE DEF c
    <2>5. ChannelTypes'
      BY <1>1, <2>1, <2>3, <2>4 DEF PoolInv, ChannelTypes
    <2>6. CallsHaveChannels'
      BY <1>1, <2>1, <2>2, <2>4, NamesApart DEF PoolInv, ChannelTypes, CallsHaveChannels
    <2>7. \A p \in Ops \ {o} : channel[p] # c
      BY <2>2, <2>4, NamesApart DEF PoolInv, CallsHaveChannels, ChannelsExclusive
    <2>8. \A p, q \in Ops : channel'[p] = channel'[q] /\ channel'[p] # NoOp => p = q
      BY <2>1, <2>7 DEF PoolInv, ChannelTypes, ChannelsExclusive
    <2>9. \A i, j \in DOMAIN available' : available'[i] = available'[j] => i = j
      <3>1. CASE o \in Signalled
        BY <2>3, <3>1 DEF PoolInv, ChannelsExclusive
      <3>2. CASE o \notin Signalled
        <4>1. \A i \in DOMAIN available' : i \in Nat
          BY <2>3
        <4>2. ASSUME NEW i \in DOMAIN available', NEW j \in DOMAIN available', available'[i] = available'[j]
              PROVE  i + 1 = j + 1
          BY <2>3, <3>2, <4>2 DEF PoolInv, ChannelsExclusive
        <4>3. QED
          BY <4>1, <4>2
      <3>3. QED
        BY <3>1, <3>2
    <2>10. \A i \in DOMAIN available' : available'[i] # c
      <3>1. CASE o \in Signalled
        <4>1. \A i \in DOMAIN available : available[i] \in Shared
          BY DEF PoolInv, ChannelTypes
        <4>2. QED
          BY <2>3, <2>4, <3>1, <4>1, NamesApart
      <3>2. CASE o \notin Signalled
        <4>1. \A i \in DOMAIN available' : i + 1 # 1
          BY <2>3
        <4>2. QED
          BY <2>2, <2>3, <3>2, <4>1 DEF PoolInv, ChannelsExclusive
      <3>3. QED
        BY <3>1, <3>2
    <2>11. \A i \in DOMAIN available', p \in Ops : available'[i] # channel'[p]
      <3>1. \A i \in DOMAIN available' : \E j \in DOMAIN available : available'[i] = available[j]
        BY <2>3
      <3>2. channel'[o] = c /\ \A p \in Ops \ {o} : channel'[p] = channel[p]
        BY <2>1 DEF PoolInv, ChannelTypes
      <3>3. \A i \in DOMAIN available, p \in Ops : available[i] # channel[p]
        BY DEF PoolInv, ChannelsExclusive
      <3>4. QED
        BY <2>10, <3>1, <3>2, <3>3
    <2>12. ConnectionsMatch'
      BY <1>1, <2>1, <2>4 DEF PoolInv, ChannelTypes, ConnectionsMatch
    <2>13. FramesMatch'
      BY <1>1, <2>1, FramesStay DEF PoolInv, ChannelTypes
    <2>14. QED
      BY <2>5, <2>6, <2>8, <2>9, <2>11, <2>12, <2>13 DEF PoolInv, ChannelsExclusive
  <1>4. QED
    BY <1>2, <1>3

(* connect fails, or an abort comes before the frame is written. *)
LEMMA UnsentSettlesInv ==
    ASSUME PoolInv, NEW o \in Ops, stage[o] = "none", channel[o] # NoOp,
           stage' = [stage EXCEPT ![o] = "settled"],
           UNCHANGED <<channel, available, socket, peer, frames>>
    PROVE  PoolInv'
  <1>1. ChannelTypes'
    BY DEF PoolInv, ChannelTypes
  <1>2. CallsHaveChannels'
    BY DEF PoolInv, ChannelTypes, CallsHaveChannels
  <1>3. ChannelsExclusive' /\ ConnectionsMatch'
    BY DEF PoolInv, ChannelsExclusive, ConnectionsMatch
  <1>4. FramesMatch'
    BY FramesStay DEF PoolInv, ChannelTypes
  <1>5. QED
    BY <1>1, <1>2, <1>3, <1>4 DEF PoolInv

(* What holds of a call that has not settled: its channel is its own, and   *)
(* the only call that can be pending on it is this one.                     *)
LEMMA ChannelOf ==
    ASSUME PoolInv, NEW o \in Ops, channel[o] # NoOp
    PROVE  /\ channel[o] \in Channels
           /\ channel[o] \in Signalled => channel[o] = o
           /\ \A p \in Ops : channel[p] = channel[o] => p = o
           /\ stage[o] # "sent" => ~Pending(channel[o])
  <1>1. channel[o] \in Channels
    BY DEF PoolInv, ChannelTypes
  <1>2. channel[o] \in Signalled => channel[o] = o
    BY NamesApart DEF PoolInv, CallsHaveChannels
  <1>3. \A p \in Ops : channel[p] = channel[o] => p = o
    BY DEF PoolInv, ChannelsExclusive
  <1>4. QED
    BY <1>1, <1>2, <1>3 DEF Pending

LEMMA SendInv ==
    ASSUME PoolInv, NEW o \in Ops, Send(o)
    PROVE  PoolInv'
  <1> DEFINE c == channel[o]
  <1>1. /\ stage[o] = "none" /\ c # NoOp /\ UNCHANGED <<channel, available>>
        /\ stage' = [stage EXCEPT ![o] = "sent"]
    BY DEF Send
  <1>2. /\ c \in Channels /\ ~Pending(c) /\ (c \in Signalled => channel[c] = c)
        /\ \A p \in Ops : channel[p] = c => p = o
    BY <1>1, ChannelOf
  <1>3. stage'[o] = "sent" /\ \A p \in Ops \ {o} : stage'[p] = stage[p]
    BY <1>1 DEF PoolInv, ChannelTypes
  <1>4. PICK s \in Sockets :
           /\ socket' = [socket EXCEPT ![c] = s]
           /\ peer' = [peer EXCEPT ![s] = TRUE]
           /\ frames' = [frames EXCEPT ![s] = <<o>>]
           /\ socket[c] = s \/ (socket[c] = NoSocket /\ ~peer[s])
    <2>1. CASE /\ socket[c] # NoSocket
               /\ frames' = [frames EXCEPT ![socket[c]] = Append(@, o)]
               /\ UNCHANGED <<socket, peer, thread>>
      <3>1. socket[c] \in Sockets /\ peer[socket[c]] = TRUE /\ frames[socket[c]] = <<>>
        BY <1>2, <2>1 DEF PoolInv, ChannelTypes, ConnectionsMatch, FramesMatch
      <3>2. Append(frames[socket[c]], o) = <<o>>
        BY <3>1
      <3>3. frames' = [frames EXCEPT ![socket[c]] = <<o>>]
        BY <2>1, <3>2
      <3>4. socket' = [socket EXCEPT ![c] = socket[c]] /\ peer' = [peer EXCEPT ![socket[c]] = TRUE]
        BY <2>1, <3>1 DEF PoolInv, ChannelTypes
      <3>5. QED
        BY <3>1, <3>3, <3>4
    <2>2. CASE /\ socket[c] = NoSocket
               /\ \E s \in Sockets :
                    /\ ~peer[s] /\ thread[s] = "none"
                    /\ socket' = [socket EXCEPT ![c] = s]
                    /\ peer' = [peer EXCEPT ![s] = TRUE]
                    /\ thread' = [thread EXCEPT ![s] = "backlog"]
                    /\ frames' = [frames EXCEPT ![s] = <<o>>]
      BY <2>2
    <2>3. QED
      BY <2>1, <2>2 DEF Send
  <1> HIDE DEF c
  <1>5. \A d \in Channels \ {c} : socket[d] # s /\ socket'[d] = socket[d]
    BY <1>2, <1>4, NamesApart DEF PoolInv, ChannelTypes, ConnectionsMatch
  <1>6. socket'[c] = s /\ peer'[s] /\ frames'[s] = <<o>>
    BY <1>2, <1>4 DEF PoolInv, ChannelTypes
  <1>7. \A u \in Sockets \ {s} : peer'[u] = peer[u] /\ frames'[u] = frames[u]
    BY <1>4 DEF PoolInv, ChannelTypes
  <1>8. ChannelTypes'
    <2>1. <<o>> \in Seq(Ops)
      OBVIOUS
    <2>2. QED
      BY <1>1, <1>2, <1>4, <2>1 DEF PoolInv, ChannelTypes
  <1>9. CallsHaveChannels' /\ ChannelsExclusive'
    BY <1>1, <1>3, NamesApart DEF PoolInv, CallsHaveChannels, ChannelsExclusive, c
  <1>10. ConnectionsMatch'
    <2>1. ASSUME NEW d \in Channels, socket'[d] # NoSocket PROVE peer'[socket'[d]]
      <3>1. CASE d = c
        BY <1>6, <3>1
      <3>2. CASE d # c
        <4>1. socket'[d] = socket[d] /\ socket[d] \in Sockets \ {s} /\ peer[socket[d]]
          BY <1>5, <2>1, <3>2 DEF PoolInv, ChannelTypes, ConnectionsMatch
        <4>2. QED
          BY <1>7, <4>1
      <3>3. QED
        BY <3>1, <3>2
    <2>2. \A d, e \in Channels : socket'[d] = socket'[e] /\ socket'[d] # NoSocket => d = e
      BY <1>5, <1>6 DEF PoolInv, ConnectionsMatch
    <2>3. \A u \in Sockets : peer'[u] => \E d \in Channels : socket'[d] = u
      <3>1. ASSUME NEW u \in Sockets, u # s, peer'[u] PROVE \E d \in Channels : socket'[d] = u
        <4>1. PICK d \in Channels : socket[d] = u
          BY <1>7, <3>1 DEF PoolInv, ConnectionsMatch
        <4>2. d # c
          BY <1>4, <3>1, <4>1, NamesApart
        <4>3. QED
          BY <1>5, <4>1, <4>2
      <3>2. QED
        BY <1>2, <1>6, <3>1
    <2>4. \A d \in Signalled : socket'[d] # NoSocket => channel'[d] = d
      BY <1>1, <1>2, <1>5, NamesApart DEF PoolInv, ConnectionsMatch
    <2>5. QED
      BY <2>1, <2>2, <2>3, <2>4 DEF ConnectionsMatch
  <1>11. FramesMatch'
    <2>1. \A p \in Ops \ {o} : channel[p] # c
      BY <1>2
    <2>2. ASSUME NEW p \in Ops, stage'[p] = "sent", socket'[channel'[p]] # NoSocket
          PROVE  frames'[socket'[channel'[p]]] = <<p>>
      <3>1. CASE p = o
        BY <1>1, <1>6, <3>1 DEF c
      <3>2. CASE p # o
        <4>1. stage[p] = "sent" /\ channel'[p] = channel[p] /\ channel[p] # c
          BY <1>1, <1>3, <2>1, <2>2, <3>2
        <4>2. channel[p] \in Channels
          BY <4>1 DEF PoolInv, ChannelTypes, CallsHaveChannels
        <4>3. socket'[channel[p]] = socket[channel[p]] /\ socket[channel[p]] # s
          BY <1>5, <4>1, <4>2
        <4>4. socket[channel[p]] \in Sockets
          BY <2>2, <4>1, <4>2, <4>3 DEF PoolInv, ChannelTypes
        <4>5. frames[socket[channel[p]]] = <<p>>
          BY <2>2, <4>1, <4>3 DEF PoolInv, FramesMatch, AnswersItsRequest
        <4>6. QED
          BY <1>7, <4>1, <4>3, <4>4, <4>5
      <3>3. QED
        BY <3>1, <3>2
    <2>3. ASSUME NEW d \in Channels, socket'[d] # NoSocket, ~Pending(d)'
          PROVE  frames'[socket'[d]] = <<>>
      <3>1. d # c
        BY <1>1, <1>3, <2>3 DEF Pending, c
      <3>2. socket'[d] = socket[d] /\ socket[d] # s /\ socket[d] \in Sockets
        BY <1>5, <2>3, <3>1 DEF PoolInv, ChannelTypes
      <3>3. ~Pending(d)
        BY <1>1, <1>3, <2>3 DEF Pending
      <3>4. QED
        BY <1>7, <2>3, <3>2, <3>3 DEF PoolInv, FramesMatch
    <2>4. QED
      BY <2>2, <2>3 DEF FramesMatch, AnswersItsRequest
  <1>12. QED
    BY <1>8, <1>9, <1>10, <1>11 DEF PoolInv

(* The channel of a call is reset, and the call with it.  What the stage of  *)
(* the call and its channel become, the caller of the lemma says.            *)
LEMMA ResetMatches ==
    ASSUME PoolInv, NEW c \in Channels, Reset(c)
    PROVE  /\ socket' \in [Channels -> Sockets \cup {NoSocket}]
           /\ peer' \in [Sockets -> BOOLEAN]
           /\ socket'[c] = NoSocket
           /\ \A d \in Channels \ {c} : socket'[d] = socket[d]
           /\ \A d \in Channels : socket'[d] # NoSocket => peer'[socket'[d]]
           /\ \A d, e \in Channels : socket'[d] = socket'[e] /\ socket'[d] # NoSocket => d = e
           /\ \A s \in Sockets : peer'[s] => \E d \in Channels : socket'[d] = s
  <1>1. /\ socket' = [socket EXCEPT ![c] = NoSocket]
        /\ peer' = [s \in Sockets |-> peer[s] /\ s # socket[c]]
    BY DEF Reset
  <1>2. socket' \in [Channels -> Sockets \cup {NoSocket}] /\ peer' \in [Sockets -> BOOLEAN]
    BY <1>1 DEF PoolInv, ChannelTypes
  <1>3. socket'[c] = NoSocket /\ \A d \in Channels \ {c} : socket'[d] = socket[d]
    BY <1>1 DEF PoolInv, ChannelTypes
  <1>4. \A d, e \in Channels : socket'[d] = socket'[e] /\ socket'[d] # NoSocket => d = e
    BY <1>3 DEF PoolInv, ConnectionsMatch
  <1>5. ASSUME NEW d \in Channels, socket'[d] # NoSocket PROVE peer'[socket'[d]]
    <2>1. d # c /\ socket'[d] = socket[d] /\ socket[d] \in Sockets
      BY <1>3, <1>5 DEF PoolInv, ChannelTypes
    <2>2. peer[socket[d]] /\ socket[d] # socket[c]
      BY <1>5, <2>1 DEF PoolInv, ConnectionsMatch
    <2>3. QED
      BY <1>1, <2>1, <2>2
  <1>6. ASSUME NEW s \in Sockets, peer'[s] PROVE \E d \in Channels : socket'[d] = s
    <2>1. peer[s] /\ s # socket[c]
      BY <1>1, <1>6
    <2>2. PICK d \in Channels : socket[d] = s
      BY <2>1 DEF PoolInv, ConnectionsMatch
    <2>3. QED
      BY <1>3, <2>1, <2>2
  <1>7. QED
    BY <1>2, <1>3, <1>4, <1>5, <1>6

(* ... and the frames, if nobody waits on the channel that was reset any more *)
LEMMA ResetFrames ==
    ASSUME PoolInv, NEW c \in Channels, Reset(c), UNCHANGED frames,
           \A o \in Ops : stage'[o] = "sent" => stage[o] = "sent" /\ channel'[o] = channel[o] /\ channel[o] # c,
           \A o \in Ops : stage[o] = "sent" /\ channel[o] # c => stage'[o] = "sent" /\ channel'[o] = channel[o]
    PROVE  FramesMatch'
  <1>1. socket'[c] = NoSocket /\ \A d \in Channels \ {c} : socket'[d] = socket[d]
    BY ResetMatches
  <1>2. ASSUME NEW o \in Ops, stage'[o] = "sent", socket'[channel'[o]] # NoSocket
        PROVE  frames'[socket'[channel'[o]]] = <<o>>
    <2>1. stage[o] = "sent" /\ channel'[o] = channel[o] /\ channel[o] # c /\ channel[o] \in Channels
      BY <1>2 DEF PoolInv, ChannelTypes, CallsHaveChannels
    <2>2. socket'[channel'[o]] = socket[channel[o]]
      BY <1>1, <2>1
    <2>3. QED
      BY <1>2, <2>1, <2>2 DEF PoolInv, FramesMatch, AnswersItsRequest
  <1>3. ASSUME NEW d \in Channels, socket'[d] # NoSocket, ~Pending(d)'
        PROVE  frames'[socket'[d]] = <<>>
    <2>1. d # c /\ socket'[d] = socket[d]
      BY <1>1, <1>3
    <2>2. ~Pending(d)
      BY <1>3, <2>1 DEF Pending
    <2>3. QED
      BY <1>3, <2>1, <2>2 DEF PoolInv, FramesMatch
  <1>4. QED
    BY <1>2, <1>3 DEF FramesMatch, AnswersItsRequest

(* A timeout, an error of the socket, or an abort while the answer is awaited *)
LEMMA BreakInv ==
    ASSUME PoolInv, NEW o \in Ops, stage[o] = "sent",
           stage' = [stage EXCEPT ![o] = "settled"], Reset(channel[o]),
           UNCHANGED <<channel, available, frames>>
    PROVE  PoolInv'
  <1>1. channel[o] # NoOp
    BY DEF PoolInv, CallsHaveChannels
  <1>2. channel[o] \in Channels /\ \A p \in Ops : channel[p] = channel[o] => p = o
    BY <1>1, ChannelOf
  <1>3. stage'[o] = "settled" /\ \A p \in Ops \ {o} : stage'[p] = stage[p]
    BY DEF PoolInv, ChannelTypes
  <1>4. ChannelTypes'
    BY <1>2, ResetMatches DEF PoolInv, ChannelTypes
  <1>5. CallsHaveChannels' /\ ChannelsExclusive'
    BY <1>1, <1>3, NamesApart DEF PoolInv, CallsHaveChannels, ChannelsExclusive
  <1>6. \A c \in Signalled : socket'[c] # NoSocket => channel'[c] = c
    <2>1. ASSUME NEW c \in Signalled, socket'[c] # NoSocket PROVE channel[c] = c
      <3>1. c \in Channels /\ c # channel[o] /\ socket'[c] = socket[c]
        BY <1>2, <2>1, ResetMatches, NamesApart
      <3>2. QED
        BY <2>1, <3>1 DEF PoolInv, ConnectionsMatch
    <2>2. QED
      BY <2>1
  <1>7. ConnectionsMatch'
    BY <1>2, <1>6, ResetMatches DEF ConnectionsMatch
  <1>8. FramesMatch'
    <2>1. /\ \A p \in Ops : stage'[p] = "sent" => stage[p] = "sent" /\ channel'[p] = channel[p] /\ channel[p] # channel[o]
          /\ \A p \in Ops : stage[p] = "sent" /\ channel[p] # channel[o] => stage'[p] = "sent" /\ channel'[p] = channel[p]
      BY <1>2, <1>3
    <2>2. QED
      BY <1>2, <2>1, ResetFrames
  <1>9. QED
    BY <1>4, <1>5, <1>7, <1>8 DEF PoolInv

(* onData takes the one answer off the connection. *)
LEMMA AnswerInv ==
    ASSUME PoolInv, NEW o \in Ops, Answer(o)
    PROVE  PoolInv'
  <1> DEFINE c == channel[o]
             s == socket[c]
  <1>1. /\ stage[o] = "sent" /\ s # NoSocket /\ stage' = [stage EXCEPT ![o] = "settled"]
        /\ frames' = [frames EXCEPT ![s] = Tail(@)]
        /\ UNCHANGED <<channel, available, socket, peer>>
    BY DEF Answer
  <1>2. c # NoOp
    BY <1>1 DEF PoolInv, CallsHaveChannels
  <1>3. c \in Channels /\ \A p \in Ops : channel[p] = c => p = o
    BY <1>2, ChannelOf
  <1>4. s \in Sockets /\ frames[s] = <<o>>
    BY <1>1, <1>3 DEF PoolInv, ChannelTypes, FramesMatch, AnswersItsRequest
  <1> HIDE DEF c, s
  <1>5. frames' = [frames EXCEPT ![s] = <<>>]
    <2>1. Tail(frames[s]) = <<>>
      BY <1>4
    <2>2. QED
      BY <1>1, <2>1
  <1>6. stage'[o] = "settled" /\ \A p \in Ops \ {o} : stage'[p] = stage[p]
    BY <1>1 DEF PoolInv, ChannelTypes
  <1>7. frames'[s] = <<>> /\ \A u \in Sockets \ {s} : frames'[u] = frames[u]
    BY <1>4, <1>5 DEF PoolInv, ChannelTypes
  <1>8. ChannelTypes'
    <2>1. <<>> \in Seq(Ops)
      OBVIOUS
    <2>2. QED
      BY <1>1, <1>5, <2>1 DEF PoolInv, ChannelTypes
  <1>9. CallsHaveChannels' /\ ChannelsExclusive' /\ ConnectionsMatch'
    BY <1>1, <1>2, <1>6, NamesApart
    DEF PoolInv, CallsHaveChannels, ChannelsExclusive, ConnectionsMatch, c
  <1>10. \A d \in Channels : socket[d] = s => d = c
    BY <1>1, <1>3 DEF PoolInv, ConnectionsMatch, s
  <1>11. ASSUME NEW p \in Ops, stage'[p] = "sent", socket'[channel'[p]] # NoSocket
         PROVE  frames'[socket'[channel'[p]]] = <<p>>
    <2>1. p # o /\ stage[p] = "sent" /\ channel[p] # c
      BY <1>3, <1>6, <1>11
    <2>2. channel[p] \in Channels
      BY <2>1 DEF PoolInv, ChannelTypes, CallsHaveChannels
    <2>3. socket[channel[p]] # s /\ socket[channel[p]] \in Sockets
      BY <1>1, <1>10, <1>11, <2>1, <2>2 DEF PoolInv, ChannelTypes
    <2>4. frames[socket[channel[p]]] = <<p>>
      BY <1>1, <1>11, <2>1 DEF PoolInv, FramesMatch, AnswersItsRequest
    <2>5. QED
      BY <1>1, <1>7, <2>3, <2>4
  <1>12. ASSUME NEW d \in Channels, socket'[d] # NoSocket, ~Pending(d)'
         PROVE  frames'[socket'[d]] = <<>>
    <2>1. CASE d = c
      BY <1>1, <1>7, <2>1 DEF s
    <2>2. CASE d # c
      <3>1. ~Pending(d)
        BY <1>1, <1>6, <1>12, <2>2 DEF Pending, c
      <3>2. socket[d] # s /\ socket[d] \in Sockets
        BY <1>1, <1>10, <1>12, <2>2 DEF PoolInv, ChannelTypes
      <3>3. QED
        BY <1>1, <1>7, <1>12, <3>1, <3>2 DEF PoolInv, FramesMatch
    <2>3. QED
      BY <2>1, <2>2
  <1>13. QED
    BY <1>8, <1>9, <1>11, <1>12 DEF PoolInv, FramesMatch, AnswersItsRequest

(* The server has dropped the connection s: its channel and its call learn it. *)
LEMMA ConnectionLostInv ==
    ASSUME PoolInv, NEW s \in Sockets, ConnectionLost(s)
    PROVE  PoolInv'
  <1>1. /\ peer' = [peer EXCEPT ![s] = FALSE]
        /\ socket' = [c \in Channels |-> IF socket[c] = s THEN NoSocket ELSE socket[c]]
        /\ stage' = [o \in Ops |-> IF stage[o] = "sent" /\ socket[channel[o]] = s
                                   THEN "settled" ELSE stage[o]]
        /\ frames' = [frames EXCEPT ![s] = <<>>]
        /\ UNCHANGED <<channel, available>>
    BY DEF ConnectionLost
  <1>2. ChannelTypes'
    <2>1. <<>> \in Seq(Ops)
      OBVIOUS
    <2>2. QED
      BY <1>1, <2>1 DEF PoolInv, ChannelTypes
  <1>3. CallsHaveChannels' /\ ChannelsExclusive'
    BY <1>1, NamesApart DEF PoolInv, CallsHaveChannels, ChannelsExclusive
  <1>4. \A c \in Channels : socket'[c] # NoSocket => socket'[c] = socket[c] /\ socket[c] \in Sockets \ {s}
    BY <1>1 DEF PoolInv, ChannelTypes
  <1>5. \A u \in Sockets \ {s} : peer'[u] = peer[u] /\ frames'[u] = frames[u]
    BY <1>1 DEF PoolInv, ChannelTypes
  <1>6. ConnectionsMatch'
    <2>1. \A c \in Channels : socket'[c] # NoSocket => peer'[socket'[c]]
      <3>1. ASSUME NEW c \in Channels, socket'[c] # NoSocket PROVE peer'[socket'[c]]
        <4>1. socket'[c] = socket[c] /\ socket[c] \in Sockets \ {s}
          BY <1>4, <3>1
        <4>2. peer[socket[c]]
          BY <3>1, <4>1 DEF PoolInv, ConnectionsMatch
        <4>3. QED
          BY <1>5, <4>1, <4>2
      <3>2. QED
        BY <3>1
    <2>2. \A c, d \in Channels : socket'[c] = socket'[d] /\ socket'[c] # NoSocket => c = d
      BY <1>4 DEF PoolInv, ConnectionsMatch
    <2>3. ASSUME NEW u \in Sockets, peer'[u] PROVE \E c \in Channels : socket'[c] = u
      <3>1. u # s /\ peer[u]
        BY <1>1, <2>3 DEF PoolInv, ChannelTypes
      <3>2. PICK c \in Channels : socket[c] = u
        BY <3>1 DEF PoolInv, ConnectionsMatch
      <3>3. QED
        BY <1>1, <3>1, <3>2
    <2>4. \A c \in Signalled : socket'[c] # NoSocket => channel'[c] = c
      BY <1>1, <1>4, NamesApart DEF PoolInv, ConnectionsMatch
    <2>5. QED
      BY <2>1, <2>2, <2>3, <2>4 DEF ConnectionsMatch
  <1>7. ASSUME NEW o \in Ops, stage'[o] = "sent", socket'[channel'[o]] # NoSocket
        PROVE  frames'[socket'[channel'[o]]] = <<o>>
    <2>1. stage[o] = "sent" /\ channel'[o] = channel[o]
      BY <1>1, <1>7
    <2>2. channel[o] \in Channels
      BY <2>1 DEF PoolInv, ChannelTypes, CallsHaveChannels
    <2>3. socket'[channel[o]] = socket[channel[o]] /\ socket[channel[o]] \in Sockets \ {s}
      BY <1>4, <1>7, <2>1, <2>2
    <2>4. frames[socket[channel[o]]] = <<o>>
      BY <1>7, <2>1, <2>3 DEF PoolInv, FramesMatch, AnswersItsRequest
    <2>5. QED
      BY <1>5, <2>1, <2>3, <2>4
  <1>8. ASSUME NEW d \in Channels, socket'[d] # NoSocket, ~Pending(d)'
        PROVE  frames'[socket'[d]] = <<>>
    <2>1. socket'[d] = socket[d] /\ socket[d] \in Sockets \ {s}
      BY <1>4, <1>8
    <2>2. ASSUME NEW o \in Ops, stage[o] = "sent", channel[o] = d PROVE FALSE
      <3>1. stage'[o] = "sent" /\ channel'[o] = d
        BY <1>1, <2>1, <2>2
      <3>2. QED
        BY <1>8, <3>1 DEF Pending
    <2>3. ~Pending(d)
      BY <2>2 DEF Pending
    <2>4. QED
      BY <1>5, <1>8, <2>1, <2>3 DEF PoolInv, FramesMatch
  <1>9. QED
    BY <1>2, <1>3, <1>6, <1>7, <1>8 DEF PoolInv, FramesMatch, AnswersItsRequest

(* close destroys every connection and settles the calls that wait. *)
LEMMA ClientCloseInv == ASSUME PoolInv, ClientClose PROVE PoolInv'
  <1>1. /\ stage' = [o \in Ops |-> IF stage[o] = "sent" THEN "settled" ELSE stage[o]]
        /\ available' = <<>>
        /\ socket' = [c \in Channels |-> NoSocket]
        /\ peer' = [s \in Sockets |-> FALSE]
        /\ UNCHANGED <<channel, frames>>
    BY DEF ClientClose
  <1>2. ChannelTypes'
    BY <1>1 DEF PoolInv, ChannelTypes
  <1>3. CallsHaveChannels'
    BY <1>1, NamesApart DEF PoolInv, CallsHaveChannels
  <1>4. ChannelsExclusive'
    <2>1. DOMAIN available' = {}
      BY <1>1
    <2>2. QED
      BY <1>1, <2>1 DEF PoolInv, ChannelsExclusive
  <1>5. ConnectionsMatch'
    BY <1>1, NamesApart DEF ConnectionsMatch
  <1>6. \A o \in Ops : stage'[o] # "sent"
    BY <1>1
  <1>7. FramesMatch'
    BY <1>1, <1>6 DEF FramesMatch, AnswersItsRequest
  <1>8. QED
    BY <1>2, <1>3, <1>4, <1>5, <1>7 DEF PoolInv

(* What the server throws away is on no channel's connection any more. *)
LEMMA FramesDropped ==
    ASSUME PoolInv, NEW s \in Sockets, ~peer[s], frames' = [frames EXCEPT ![s] = <<>>],
           UNCHANGED <<stage, channel, available, socket, peer>>
    PROVE  PoolInv'
  <1>1. ChannelTypes'
    <2>1. <<>> \in Seq(Ops)
      OBVIOUS
    <2>2. QED
      BY <2>1 DEF PoolInv, ChannelTypes
  <1>2. CallsHaveChannels' /\ ChannelsExclusive' /\ ConnectionsMatch'
    BY DEF PoolInv, CallsHaveChannels, ChannelsExclusive, ConnectionsMatch
  <1>3. \A c \in Channels : socket[c] # NoSocket =>
                              socket[c] \in Sockets \ {s} /\ frames'[socket[c]] = frames[socket[c]]
    <2>1. ASSUME NEW c \in Channels, socket[c] # NoSocket
          PROVE  socket[c] \in Sockets \ {s}
      BY <2>1 DEF PoolInv, ChannelTypes, ConnectionsMatch
    <2>2. \A u \in Sockets \ {s} : frames'[u] = frames[u]
      BY DEF PoolInv, ChannelTypes
    <2>3. QED
      BY <2>1, <2>2
  <1>4. \A o \in Ops : stage[o] = "sent" => channel[o] \in Channels
    BY DEF PoolInv, ChannelTypes, CallsHaveChannels
  <1>5. AnswersItsRequest'
    BY <1>3, <1>4 DEF PoolInv, FramesMatch, AnswersItsRequest
  <1>6. \A c \in Channels : socket[c] # NoSocket /\ ~Pending(c)' => frames'[socket[c]] = <<>>
    BY <1>3 DEF PoolInv, FramesMatch, Pending
  <1>7. QED
    BY <1>1, <1>2, <1>5, <1>6 DEF PoolInv, FramesMatch

(* The end of a call gives its channel back, or closes it with the call. *)
LEMMA CallEndsInv ==
    ASSUME PoolInv, NEW o \in Ops, CallEnds(o)
    PROVE  PoolInv'
  <1> DEFINE c == channel[o]
  <1>1. /\ stage[o] \in {"settled", "refused"}
        /\ stage' = [stage EXCEPT ![o] = "none"]
        /\ channel' = [channel EXCEPT ![o] = NoOp]
        /\ frames' = frames
    BY DEF CallEnds
  <1>2. /\ stage'[o] = "none" /\ channel'[o] = NoOp
        /\ \A p \in Ops \ {o} : stage'[p] = stage[p] /\ channel'[p] = channel[p]
    BY <1>1 DEF PoolInv, ChannelTypes
  <1>3. /\ stage' \in [Ops -> {"none", "sent", "settled", "refused"}]
        /\ channel' \in [Ops -> Channels \cup {NoOp}]
        /\ frames' \in [Sockets -> Seq(Ops)]
    BY <1>1 DEF PoolInv, ChannelTypes
  <1>4. CallsHaveChannels'
    BY <1>2, NamesApart DEF PoolInv, CallsHaveChannels
  <1>5. \A p, q \in Ops : channel'[p] = channel'[q] /\ channel'[p] # NoOp => p = q
    BY <1>2 DEF PoolInv, ChannelsExclusive
  <1>6. c # NoOp => c \in Channels /\ (c \in Signalled => c = o) /\ \A p \in Ops : channel[p] = c => p = o
    BY ChannelOf
  <1>7. CASE o \in Signalled
    <2>1. Reset(c) /\ available' = available
      BY <1>7 DEF CallEnds
    <2>2. c = o /\ c # NoOp
      BY <1>1, <1>7, NamesApart DEF PoolInv, CallsHaveChannels
    <2>3. c \in Channels /\ \A p \in Ops : channel[p] = c => p = o
      BY <1>6, <2>2
    <2>4. ChannelTypes'
      BY <1>3, <2>1, <2>3, ResetMatches DEF PoolInv, ChannelTypes
    <2>5. ChannelsExclusive'
      <3>1. \A i \in DOMAIN available : available[i] # NoOp
        <4>1. \A i \in DOMAIN available : available[i] \in Shared
          BY DEF PoolInv, ChannelTypes
        <4>2. QED
          BY <4>1, NamesApart
      <3>2. \A i \in DOMAIN available', p \in Ops : available'[i] # channel'[p]
        BY <1>2, <2>1, <3>1 DEF PoolInv, ChannelsExclusive
      <3>3. QED
        BY <1>5, <2>1, <3>2 DEF PoolInv, ChannelsExclusive
    <2>6. \A d \in Signalled : socket'[d] # NoSocket => channel'[d] = d
      <3>1. ASSUME NEW d \in Signalled, socket'[d] # NoSocket PROVE channel'[d] = d
        <4>1. d \in Channels /\ d # c /\ socket'[d] = socket[d]
          BY <2>1, <2>3, <3>1, ResetMatches, NamesApart
        <4>2. channel[d] = d
          BY <3>1, <4>1 DEF PoolInv, ConnectionsMatch
        <4>3. QED
          BY <1>2, <2>2, <4>1, <4>2, NamesApart
      <3>2. QED
        BY <3>1
    <2>7. ConnectionsMatch'
      BY <2>1, <2>3, <2>6, ResetMatches DEF ConnectionsMatch
    <2>8. FramesMatch'
      <3>1. /\ \A p \in Ops : stage'[p] = "sent" => stage[p] = "sent" /\ channel'[p] = channel[p] /\ channel[p] # c
            /\ \A p \in Ops : stage[p] = "sent" /\ channel[p] # c => stage'[p] = "sent" /\ channel'[p] = channel[p]
        BY <1>2, <2>3
      <3>2. QED
        BY <1>1, <2>1, <2>3, <3>1, ResetFrames
    <2>9. QED
      BY <1>4, <2>4, <2>5, <2>7, <2>8 DEF PoolInv
  <1>8. CASE o \notin Signalled
    <2>1. /\ available' = available \/ (c # NoOp /\ available' = Append(available, c))
          /\ UNCHANGED <<socket, peer>>
      BY <1>8 DEF CallEnds
    <2>2. c # NoOp => c \in Shared
      BY <1>8 DEF PoolInv, CallsHaveChannels
    <2>3. /\ available' \in Seq(Shared)
          /\ \A i \in DOMAIN available' :
               \/ i \in DOMAIN available /\ available'[i] = available[i]
               \/ c # NoOp /\ i = Len(available) + 1 /\ available'[i] = c
          /\ \A i \in DOMAIN available : i # Len(available) + 1
      <3>1. CASE available' = available
        BY <3>1 DEF PoolInv, ChannelTypes
      <3>2. CASE c # NoOp /\ available' = Append(available, c)
        BY <2>2, <3>2 DEF PoolInv, ChannelTypes
      <3>3. QED
        BY <2>1, <3>1, <3>2
    <2>4. ChannelTypes'
      BY <1>3, <2>1, <2>3 DEF PoolInv, ChannelTypes
    <2>5. \A i \in DOMAIN available : available[i] # c /\ available[i] # NoOp
      <3>1. \A i \in DOMAIN available : available[i] \in Shared
        BY DEF PoolInv, ChannelTypes
      <3>2. QED
        BY <3>1, NamesApart DEF PoolInv, ChannelsExclusive
    <2> HIDE DEF c
    <2>6. \A i, j \in DOMAIN available' : available'[i] = available'[j] => i = j
      BY <2>3, <2>5 DEF PoolInv, ChannelsExclusive
    <2>7. \A i \in DOMAIN available', p \in Ops : available'[i] # channel'[p]
      <3>1. ASSUME NEW i \in DOMAIN available', NEW p \in Ops, available'[i] = channel'[p]
            PROVE  FALSE
        <4>1. CASE i \in DOMAIN available /\ available'[i] = available[i]
          BY <1>2, <2>5, <3>1, <4>1 DEF PoolInv, ChannelsExclusive
        <4>2. CASE c # NoOp /\ available'[i] = c
          BY <1>2, <1>6, <3>1, <4>2
        <4>3. QED
          BY <2>3, <4>1, <4>2
      <3>2. QED
        BY <3>1
    <2>8. ConnectionsMatch'
      <3>1. \A d \in Signalled : channel'[d] = channel[d]
        BY <1>2, <1>8, NamesApart
      <3>2. QED
        BY <2>1, <3>1 DEF PoolInv, ConnectionsMatch
    <2>9. FramesMatch'
      BY <1>1, <1>2, <2>1, FramesStay DEF PoolInv
    <2>10. QED
      BY <1>4, <1>5, <2>4, <2>6, <2>7, <2>8, <2>9 DEF PoolInv, ChannelsExclusive
  <1>9. QED
    BY <1>7, <1>8

LEMMA CallStepPool ==
    ASSUME PoolInv, NEW o \in Ops, CallStep(o), RegistryInv
    PROVE  PoolInv'
  <1>1. CASE TakeChannel(o, o \in Signalled /\ aborted[o])
    <2>1. (o \in Signalled /\ aborted[o]) \in BOOLEAN
      BY Zenon DEF RegistryInv, RegistryTypeOK
    <2>2. QED
      BY <1>1, <2>1, TakeChannelInv
  <1>2. CASE Send(o) \/ Answer(o) \/ CallEnds(o)
    BY <1>2, SendInv, AnswerInv, CallEndsInv
  <1>3. CASE ConnectFails(o)
    BY <1>3, UnsentSettlesInv DEF ConnectFails
  <1>4. CASE TimeOut(o)
    BY <1>4, BreakInv DEF TimeOut
  <1>5. QED
    BY <1>1, <1>2, <1>3, <1>4 DEF CallStep

LEMMA AbortPool ==
    ASSUME PoolInv, NEW o \in Ops, Abort(o)
    PROVE  PoolInv'
  <1>1. CASE UNCHANGED poolVars
    BY <1>1, PoolStays DEF poolVars
  <1>2. CASE /\ op[o] = "active" /\ stage[o] = "sent"
             /\ stage' = [stage EXCEPT ![o] = "settled"]
             /\ Reset(channel[o])
             /\ UNCHANGED <<vars, channel, available, thread, frames>>
    BY <1>2, BreakInv
  <1>3. CASE /\ op[o] = "active" /\ stage[o] = "none" /\ channel[o] # NoOp
             /\ stage' = [stage EXCEPT ![o] = "settled"]
             /\ UNCHANGED <<vars, channel, available, socket, peer, thread, frames>>
    BY <1>3, UnsentSettlesInv
  <1>4. QED
    BY <1>1, <1>2, <1>3 DEF Abort

LEMMA ConnectionPool ==
    ASSUME PoolInv, NEW s \in Sockets, ConnectionStep(s)
    PROVE  PoolInv'
  <1>1. CASE ConnectionLost(s)
    BY <1>1, ConnectionLostInv
  <1>2. CASE Accept(s) \/ ReadFrame(s) \/ Acquire(s)
    BY <1>2, PoolStays DEF Accept, ReadFrame, Acquire
  <1>3. CASE ComputationEnds(s)
    <2>1. CASE peer[s]
      BY <1>3, <2>1, PoolStays DEF ComputationEnds
    <2>2. CASE ~peer[s]
      BY <1>3, <2>2, FramesDropped DEF ComputationEnds
    <2>3. QED
      BY <2>1, <2>2
  <1>4. CASE AnswerLost(s)
    BY <1>4, FramesDropped DEF AnswerLost
  <1>5. QED
    BY <1>1, <1>2, <1>3, <1>4 DEF ConnectionStep, ServerStep

LEMMA PoolNextInv == ASSUME PoolInv, RegistryInv, [AllNext]_allVars PROVE PoolInv'
  <1>1. ASSUME UNCHANGED poolVars PROVE PoolInv'
    BY <1>1, PoolStays DEF poolVars
  <1>2. ASSUME NEW c \in Callers, NEW k \in Keys, Run(c, k) PROVE PoolInv'
    BY <1>1, <1>2 DEF Run
  <1>3. ASSUME NEW c \in Callers, NEW o \in Signalled, Leave(c, o) PROVE PoolInv'
    BY <1>1, <1>3, AbortPool, NamesApart DEF Leave
  <1>4. ASSUME NEW o \in Signalled, FactoryCalls(o) \/ FactoryFails(o) \/ ComputationSettles(o)
        PROVE  PoolInv'
    BY <1>1, <1>4 DEF FactoryCalls, FactoryFails, ComputationSettles
  <1>5. ASSUME NEW o \in Ops, DirectCall(o) \/ QueueTimeout(o) PROVE PoolInv'
    BY <1>1, <1>5 DEF DirectCall, QueueTimeout
  <1>6. CASE Shutdown \/ UNCHANGED allVars
    BY <1>1, <1>6, ClientCloseInv DEF Shutdown, allVars
  <1>7. QED
    BY <1>2, <1>3, <1>4, <1>5, <1>6, CallStepPool, ConnectionPool DEF AllNext

(* The answer that onData reads is the answer to the request of the call    *)
(* that holds the channel, through timeouts, aborts, lost connections and   *)
(* channels that are borrowed again: no request is left on a connection     *)
(* that another call will use.                                              *)
THEOREM AnswersMatch == AllSpec => []AnswersItsRequest
  <1>1. AllInit => RegistryInv /\ PoolInv
    BY RegistryInitInv, PoolInitInv DEF AllInit
  <1>2. RegistryInv /\ PoolInv /\ [AllNext]_allVars => RegistryInv' /\ PoolInv'
    BY RegistryNextInv, PoolNextInv
  <1>3. PoolInv => AnswersItsRequest
    BY DEF PoolInv, FramesMatch
  <1>4. QED
    BY <1>1, <1>2, <1>3, PTL DEF AllSpec

(* No connection outlives its use: an open one belongs to one channel, and  *)
(* a call with a signal that has ended, or was aborted, has left none.      *)
THEOREM NoConnectionLeaks == AllSpec => []ConnectionsOwned
  <1>1. AllInit => RegistryInv /\ PoolInv
    BY RegistryInitInv, PoolInitInv DEF AllInit
  <1>2. RegistryInv /\ PoolInv /\ [AllNext]_allVars => RegistryInv' /\ PoolInv'
    BY RegistryNextInv, PoolNextInv
  <1>3. PoolInv => ConnectionsOwned
    <2> SUFFICES ASSUME PoolInv, NEW s \in Sockets, peer[s]
                 PROVE  \E c \in Channels : socket[c] = s /\ (c \in Signalled => channel[c] = c)
      BY DEF ConnectionsOwned
    <2>1. PICK c \in Channels : socket[c] = s
      BY DEF PoolInv, ConnectionsMatch
    <2>2. s # NoSocket
      BY NamesApart
    <2>3. c \in Signalled => channel[c] = c
      BY <2>1, <2>2 DEF PoolInv, ConnectionsMatch
    <2>4. QED
      BY <2>1, <2>3
  <1>4. QED
    BY <1>1, <1>2, <1>3, PTL DEF AllSpec

-----------------------------------------------------------------------------
(* The scheduler inside the client *)

LEMMA SchedulerInside == ASSUME [AllNext]_allVars PROVE [Next]_vars
  <1>1. ASSUME NEW c \in Callers, NEW o \in Signalled, Leave(c, o) PROVE [Next]_vars
    BY <1>1, ComputePoolAssumption DEF Leave, Abort, Next
  <1>2. ASSUME NEW o \in Signalled, FactoryCalls(o) \/ FactoryFails(o) \/ ComputationSettles(o)
        PROVE  [Next]_vars
    BY <1>2, ComputePoolAssumption DEF FactoryCalls, FactoryFails, ComputationSettles, Next
  <1>3. ASSUME NEW o \in Ops, DirectCall(o) \/ QueueTimeout(o) PROVE [Next]_vars
    BY <1>3 DEF DirectCall, QueueTimeout, Next
  <1>4. ASSUME NEW o \in Ops, CallStep(o) PROVE [Next]_vars
    BY <1>4 DEF CallStep, TakeChannel, Send, ConnectFails, TimeOut, Answer, CallEnds, Next
  <1>5. ASSUME NEW s \in Sockets, ConnectionStep(s) PROVE [Next]_vars
    BY <1>5 DEF ConnectionStep, ConnectionLost, ServerStep, Accept, ReadFrame, Acquire,
                ComputationEnds, AnswerLost
  <1>6. CASE Shutdown \/ UNCHANGED allVars
    BY <1>6 DEF Shutdown, ClientClose, allVars, Next
  <1>7. ASSUME NEW c \in Callers, NEW k \in Keys, Run(c, k) PROVE [Next]_vars
    BY <1>7 DEF Run
  <1>8. QED
    BY <1>1, <1>2, <1>3, <1>4, <1>5, <1>6, <1>7 DEF AllNext

(* Whatever the registry, the client and the server do, the scheduler's     *)
(* list behaves as the queue that ComputeQueue promises: calls start in     *)
(* their order, none is lost or started twice, and no capacity is idle.     *)
THEOREM ClientKeepsQueue == AllSpec => ImplementsQueue
  <1>1. AllInit => SchedulerInv /\ Queue!Init
    BY SchedulerInitInv DEF AllInit
  <1>2. SchedulerInv /\ [AllNext]_allVars => SchedulerInv' /\ [Queue!Next]_(Queue!queueVars)
    BY SchedulerInside, SchedulerMoves DEF AbstractStep
  <1>3. QED
    BY <1>1, <1>2, PTL DEF AllSpec, ImplementsQueue, Queue!Spec
=============================================================================
