------------------------- MODULE MessageQueue_proofs -------------------------
(***************************************************************************)
(* Proofs about MessageQueue, for any queues, contents and finite heap.    *)
(*                                                                         *)
(* ListExact, HeapExact and the refinement mapping speak of the sequences  *)
(* a walk over the list computes.  The invariant HeapInv speaks of single  *)
(* links instead: the cells 0..size_ - 1 links after head_ are in use, the *)
(* next link is NULL, and no cell is met twice.  After(nx, c, i) is        *)
(* CellAfter with the links as a parameter; what it computes for every i   *)
(* is proved from the least number principle (LeastNatural), as is that    *)
(* the recursive function behind it exists (Iteration).                    *)
(***************************************************************************)
EXTENDS MessageQueue, FiniteSetTheorems, WellFoundedInduction, TLAPS

-----------------------------------------------------------------------------
(* Walks of any length *)

\* Every non-empty set of naturals has a least element.
LEMMA LeastNatural ==
    ASSUME NEW T \in SUBSET Nat, T # {}
    PROVE  \E x \in T : \A y \in T : x <= y
<1> DEFINE R == OpToRel(<, Nat)
<1>1. IsWellFoundedOn(R, Nat)
  BY NatLessThanWellFounded, Zenon
<1>2. \A x, y \in Nat : y < x => <<y, x>> \in R
  BY DEF OpToRel
<1> HIDE DEF R
<1>3. \E x \in T : \A y \in T : ~(<<y, x>> \in R)
  BY <1>1, WFMin
<1>4. PICK x \in T : \A y \in T : ~(<<y, x>> \in R)
  BY <1>3
<1>5. ASSUME NEW y \in T PROVE x <= y
  <2>1. x \in Nat /\ y \in Nat
    OBVIOUS
  <2>2. ~(y < x)
    BY <1>2, <1>4, <2>1
  <2> QED BY <2>1, <2>2
<1> QED BY <1>5

\* f lists what repeated steps from c reach.
Iterates(f, step, c, S) ==
    /\ f \in [Nat -> S]
    /\ f[0] = c
    /\ \A n \in Nat : f[n + 1] = step[f[n]]

\* A function can be applied again and again: what justifies CellAfter.
LEMMA Iteration ==
    ASSUME NEW S, NEW step \in [S -> S], NEW c \in S
    PROVE  \E f : Iterates(f, step, c, S)
<1> DEFINE Upto(g, n) == /\ g \in [0..n -> S]
                         /\ g[0] = c
                         /\ \A k \in 0..(n - 1) : g[k + 1] = step[g[k]]
           Bad == {n \in Nat : ~\E g : Upto(g, n)}
<1>1. Bad = {}
  <2> SUFFICES ASSUME Bad # {} PROVE FALSE
    OBVIOUS
  <2>1. Bad \in SUBSET Nat
    OBVIOUS
  <2> HIDE DEF Bad
  <2>2. PICK m \in Bad : \A y \in Bad : m <= y
    BY <2>1, LeastNatural
  <2>3. m \in Nat /\ ~\E g : Upto(g, m)
    BY DEF Bad
  <2>4. CASE m = 0
    <3>1. Upto([k \in 0..0 |-> c], 0)
      OBVIOUS
    <3> QED BY <2>3, <2>4, <3>1
  <2>5. CASE m # 0
    <3>1. m - 1 \in Nat /\ m - 1 \notin Bad
      BY <2>2, <2>3, <2>5
    <3>2. PICK g : Upto(g, m - 1)
      BY <3>1 DEF Bad
    <3> DEFINE h == [k \in 0..m |-> IF k < m THEN g[k] ELSE step[g[m - 1]]]
    <3>3. h \in [0..m -> S] /\ h[0] = c
      BY <2>3, <2>5, <3>1, <3>2
    <3>4. ASSUME NEW k \in 0..(m - 1) PROVE h[k + 1] = step[h[k]]
      <4>1. h[k] = g[k]
        BY <2>3
      <4>2. CASE k + 1 < m
        BY <2>3, <3>1, <3>2, <4>1, <4>2
      <4>3. CASE k + 1 = m
        <5>1. k = m - 1
          BY <2>3, <4>3
        <5> QED BY <2>3, <4>1, <4>3, <5>1
      <4> QED BY <2>3, <4>2, <4>3
    <3>5. Upto(h, m)
      BY <3>3, <3>4
    <3> QED BY <2>3, <3>5
  <2> QED BY <2>4, <2>5
<1>2. \A n \in Nat : \E g : Upto(g, n)
  BY <1>1
<1>3. ASSUME NEW n \in Nat, NEW m \in 0..n, NEW g, NEW h, Upto(g, m), Upto(h, n)
      PROVE  g[m] = h[m]
  <2> DEFINE Differ == {k \in 0..m : g[k] # h[k]}
  <2>1. Differ = {}
    <3> SUFFICES ASSUME Differ # {} PROVE FALSE
      OBVIOUS
    <3>1. Differ \in SUBSET Nat
      OBVIOUS
    <3> HIDE DEF Differ
    <3>2. PICK k \in Differ : \A y \in Differ : k <= y
      BY <3>1, LeastNatural
    <3>3. k \in 0..m /\ g[k] # h[k]
      BY DEF Differ
    <3>4. k # 0
      BY <1>3, <3>3
    <3>5. k - 1 \in 0..m /\ k - 1 \notin Differ
      BY <3>1, <3>2, <3>3, <3>4
    <3>6. g[k - 1] = h[k - 1]
      BY <3>5 DEF Differ
    <3>7. k - 1 \in 0..(m - 1) /\ k - 1 \in 0..(n - 1) /\ (k - 1) + 1 = k
      BY <3>3, <3>4
    <3> QED BY <1>3, <3>3, <3>6, <3>7
  <2> QED BY <2>1
<1> DEFINE Appr(n) == CHOOSE g : Upto(g, n)
           f == [n \in Nat |-> Appr(n)[n]]
<1>4. \A n \in Nat : Upto(Appr(n), n)
  BY <1>2
<1> HIDE DEF Appr
<1>5. f \in [Nat -> S] /\ f[0] = c
  BY <1>4
<1>6. ASSUME NEW n \in Nat PROVE f[n + 1] = step[f[n]]
  <2>1. n + 1 \in Nat /\ n \in 0..(n + 1) /\ n \in 0..((n + 1) - 1)
    OBVIOUS
  <2>2. Upto(Appr(n), n) /\ Upto(Appr(n + 1), n + 1)
    BY <1>4, <2>1
  <2>3. Appr(n)[n] = Appr(n + 1)[n]
    BY <1>3, <2>1, <2>2
  <2>4. Appr(n + 1)[n + 1] = step[Appr(n + 1)[n]]
    BY <2>1, <2>2
  <2> QED BY <2>1, <2>3, <2>4
<1>7. Iterates(f, step, c, S)
  BY <1>5, <1>6 DEF Iterates
<1> QED BY <1>7

\* What a link can hold.
Link == Cells \cup {NULL}

\* CellAfter with the links given as a function, so that walks before and after a
\* step can be compared.
After(nx, c, i) ==
    LET at[k \in Nat] == IF k = 0 THEN c
                         ELSE IF at[k - 1] = NULL THEN NULL ELSE nx[at[k - 1]]
    IN  at[i]

\* The recursive function in CellAfter exists, and does what its equation says.
LEMMA AfterRec ==
    ASSUME NEW nx \in [Cells -> Link], NEW c \in Link
    PROVE  /\ After(nx, c, 0) = c
           /\ \A i \in Nat : After(nx, c, i) \in Link
           /\ \A i \in Nat : After(nx, c, i) # NULL => After(nx, c, i + 1) = nx[After(nx, c, i)]
           /\ \A i \in Nat : After(nx, c, i) = NULL => After(nx, c, i + 1) = NULL
<1> DEFINE Eqn(at) == at = [k \in Nat |-> IF k = 0 THEN c
                              ELSE IF at[k - 1] = NULL THEN NULL ELSE nx[at[k - 1]]]
           step == [x \in Link |-> IF x = NULL THEN NULL ELSE nx[x]]
           at == CHOOSE at : Eqn(at)
<1>1. step \in [Link -> Link]
  BY DEF Link
<1> HIDE DEF step, at
<1>2. PICK f : Iterates(f, step, c, Link)
  BY <1>1, Iteration
<1>3. /\ f \in [Nat -> Link]
      /\ f[0] = c
      /\ \A n \in Nat : f[n + 1] = step[f[n]]
  BY <1>2 DEF Iterates
<1> USE DEF step, at
<1>4. Eqn(f)
  <2> DEFINE g == [k \in Nat |-> IF k = 0 THEN c
                              ELSE IF f[k - 1] = NULL THEN NULL ELSE nx[f[k - 1]]]
  <2>1. ASSUME NEW k \in Nat PROVE f[k] = g[k]
    <3>1. CASE k = 0
      BY <1>3, <3>1
    <3>2. CASE k # 0
      <4>1. k - 1 \in Nat /\ (k - 1) + 1 = k
        BY <3>2
      <4>2. f[k] = step[f[k - 1]] /\ f[k - 1] \in Link
        BY <1>3, <4>1
      <4> QED BY <3>2, <4>2
    <3> QED BY <3>1, <3>2
  <2>2. f = g
    BY <1>3, <2>1
  <2> QED BY <2>2
<1>5. Eqn(at)
  BY <1>4
<1>6. \A i : After(nx, c, i) = at[i]
  BY DEF After
<1> HIDE DEF at
<1>7. at[0] = c
  BY <1>5
<1>8. \A i \in Nat : at[i + 1] = IF at[i] = NULL THEN NULL ELSE nx[at[i]]
  <2> TAKE i \in Nat
  <2>1. i + 1 \in Nat /\ i + 1 # 0 /\ (i + 1) - 1 = i
    OBVIOUS
  <2> QED BY <1>5, <2>1
<1>9. \A i \in Nat : at[i] \in Link
  <2> DEFINE Bad == {i \in Nat : at[i] \notin Link}
  <2> SUFFICES ASSUME Bad # {} PROVE FALSE
    OBVIOUS
  <2>1. Bad \in SUBSET Nat
    OBVIOUS
  <2> HIDE DEF Bad
  <2>2. PICK k \in Bad : \A y \in Bad : k <= y
    BY <2>1, LeastNatural
  <2>3. k \in Nat /\ at[k] \notin Link
    BY DEF Bad
  <2>4. k # 0
    BY <1>7, <2>3
  <2>5. k - 1 \in Nat /\ (k - 1) + 1 = k /\ k - 1 \notin Bad
    BY <2>2, <2>3, <2>4, <2>1
  <2>6. at[k - 1] \in Link
    BY <2>5 DEF Bad
  <2>7. at[k] = IF at[k - 1] = NULL THEN NULL ELSE nx[at[k - 1]]
    BY <1>8, <2>5
  <2> QED BY <2>3, <2>6, <2>7 DEF Link
<1> QED BY <1>6, <1>7, <1>8, <1>9

\* Past the end of the list a walk stays at NULL.
LEMMA AfterEnd ==
    ASSUME NEW nx \in [Cells -> Link], NEW c \in Link, NEW n \in Nat, NEW i \in Nat,
           After(nx, c, n) = NULL, n <= i
    PROVE  After(nx, c, i) = NULL
<1> DEFINE Bad == {k \in Nat : n <= k /\ After(nx, c, k) # NULL}
<1> SUFFICES ASSUME Bad # {} PROVE FALSE
  OBVIOUS
<1>1. Bad \in SUBSET Nat
  OBVIOUS
<1> HIDE DEF Bad
<1>2. PICK k \in Bad : \A y \in Bad : k <= y
  BY <1>1, LeastNatural
<1>3. k \in Nat /\ n <= k /\ After(nx, c, k) # NULL
  BY DEF Bad
<1>4. k # n
  BY <1>3
<1>5. k - 1 \in Nat /\ n <= k - 1 /\ k - 1 \notin Bad /\ (k - 1) + 1 = k
  BY <1>1, <1>2, <1>3, <1>4
<1>6. After(nx, c, k - 1) = NULL
  BY <1>5 DEF Bad
<1> QED BY <1>3, <1>5, <1>6, AfterRec

\* Walking from the second cell is walking from the first, one link behind.
LEMMA AfterShift ==
    ASSUME NEW nx \in [Cells -> Link], NEW c \in Cells, NEW i \in Nat
    PROVE  After(nx, nx[c], i) = After(nx, c, i + 1)
<1>0. c \in Link /\ nx[c] \in Link /\ c # NULL
  BY NullAssumption DEF Link
<1> DEFINE d == nx[c]
           Bad == {k \in Nat : After(nx, d, k) # After(nx, c, k + 1)}
<1> SUFFICES ASSUME Bad # {} PROVE FALSE
  OBVIOUS
<1>1. Bad \in SUBSET Nat
  OBVIOUS
<1>d. d \in Link
  BY <1>0
<1>r. /\ After(nx, d, 0) = d
      /\ \A k \in Nat : After(nx, d, k) # NULL => After(nx, d, k + 1) = nx[After(nx, d, k)]
      /\ \A k \in Nat : After(nx, d, k) = NULL => After(nx, d, k + 1) = NULL
      /\ After(nx, c, 0) = c
      /\ \A k \in Nat : After(nx, c, k) # NULL => After(nx, c, k + 1) = nx[After(nx, c, k)]
      /\ \A k \in Nat : After(nx, c, k) = NULL => After(nx, c, k + 1) = NULL
  <2> HIDE DEF d
  <2> QED BY <1>0, <1>d, AfterRec
<1> HIDE DEF Bad
<1>2. PICK k \in Bad : \A y \in Bad : k <= y
  BY <1>1, LeastNatural
<1>3. k \in Nat /\ After(nx, d, k) # After(nx, c, k + 1)
  BY DEF Bad
<1>4. k # 0
  <2>1. After(nx, c, 0 + 1) = d
    BY <1>0, <1>r
  <2> QED BY <1>3, <1>r, <2>1
<1>5. k - 1 \in Nat /\ k - 1 \notin Bad /\ (k - 1) + 1 = k
  BY <1>1, <1>2, <1>3, <1>4
<1>6. After(nx, d, k - 1) = After(nx, c, k)
  BY <1>5 DEF Bad
<1>7. CASE After(nx, c, k) = NULL
  BY <1>3, <1>5, <1>6, <1>7, <1>r
<1>8. CASE After(nx, c, k) # NULL
  BY <1>3, <1>5, <1>6, <1>8, <1>r
<1> QED BY <1>7, <1>8

\* A walk does not notice changes of links it does not follow.
LEMMA AfterSame ==
    ASSUME NEW nx \in [Cells -> Link], NEW mx \in [Cells -> Link], NEW c \in Link,
           NEW n \in Nat,
           \A i \in 0..(n - 1) : After(nx, c, i) \in Cells => mx[After(nx, c, i)] = nx[After(nx, c, i)]
    PROVE  \A i \in 0..n : After(mx, c, i) = After(nx, c, i)
<1> DEFINE Bad == {k \in 0..n : After(mx, c, k) # After(nx, c, k)}
<1> SUFFICES ASSUME Bad # {} PROVE FALSE
  OBVIOUS
<1>1. Bad \in SUBSET Nat
  OBVIOUS
<1> HIDE DEF Bad
<1>2. PICK k \in Bad : \A y \in Bad : k <= y
  BY <1>1, LeastNatural
<1>3. k \in 0..n /\ After(mx, c, k) # After(nx, c, k)
  BY DEF Bad
<1>4. k # 0
  BY <1>3, AfterRec
<1>5. k - 1 \in 0..(n - 1) /\ k - 1 \in Nat /\ k - 1 \notin Bad /\ (k - 1) + 1 = k
  BY <1>1, <1>2, <1>3, <1>4
<1>6. After(mx, c, k - 1) = After(nx, c, k - 1) /\ After(nx, c, k - 1) \in Link
  BY <1>5, AfterRec DEF Bad
<1>7. CASE After(nx, c, k - 1) = NULL
  BY <1>3, <1>5, <1>6, <1>7, AfterRec, SMTT(60)
<1>8. CASE After(nx, c, k - 1) # NULL
  <2>1. After(nx, c, k - 1) \in Cells
    BY <1>6, <1>8 DEF Link
  <2>2. mx[After(nx, c, k - 1)] = nx[After(nx, c, k - 1)]
    BY <1>5, <2>1
  <2>3. After(mx, c, (k - 1) + 1) = mx[After(mx, c, k - 1)]
    BY <1>5, <1>6, <1>8, AfterRec
  <2>4. After(nx, c, (k - 1) + 1) = nx[After(nx, c, k - 1)]
    BY <1>5, <1>6, <1>8, AfterRec
  <2> QED BY <1>3, <1>5, <1>6, <2>2, <2>3, <2>4
<1> QED BY <1>7, <1>8

-----------------------------------------------------------------------------
(* The invariant *)

\* The n cells from h on are in use, the walk ends behind them, and t is the last.
IsList(nx, used, h, t, n) ==
    /\ \A i \in 0..(n - 1) : After(nx, h, i) \in used
    /\ After(nx, h, n) = NULL
    /\ t = IF n = 0 THEN NULL ELSE After(nx, h, n - 1)

\* The list of every queue is as long as size_ says.
Lists == \A q \in alive : IsList(next_, allocated, head_[q], tail_[q], size_[q])

\* No cell is twice in the lists.
Separate ==
    \A p, q \in alive : \A i \in 0..(size_[p] - 1), j \in 0..(size_[q] - 1) :
        After(next_, head_[p], i) = After(next_, head_[q], j) => p = q /\ i = j

\* No cell in use is out of reach.
Reached ==
    \A c \in allocated : \E q \in alive : \E i \in 0..(size_[q] - 1) :
        c = After(next_, head_[q], i)

HeapInv == Lists /\ Separate /\ Reached /\ it \in allocated \cup {NULL}

IInv == TypeOK /\ HeapInv

\* The first cell is head_; a queue is empty exactly when head_ is NULL, and
\* exactly when tail_ is.
LEMMA Ends ==
    ASSUME TypeOK, Lists, NEW q \in alive
    PROVE  /\ q \in Queues /\ size_[q] \in Nat
           /\ head_[q] \in Link /\ next_ \in [Cells -> Link]
           /\ head_[q] = NULL <=> size_[q] = 0
           /\ tail_[q] = NULL <=> size_[q] = 0
           /\ size_[q] # 0 => head_[q] \in allocated /\ tail_[q] \in allocated
           /\ After(next_, head_[q], 0) = head_[q]
<1>1. q \in Queues /\ size_[q] \in Nat /\ head_[q] \in Link /\ next_ \in [Cells -> Link]
  BY DEF TypeOK, Link
<1>2. After(next_, head_[q], 0) = head_[q]
  BY <1>1, AfterRec
<1>3. allocated \subseteq Cells /\ NULL \notin allocated
  BY NullAssumption DEF TypeOK
<1>4. IsList(next_, allocated, head_[q], tail_[q], size_[q])
  BY DEF Lists
<1>5. CASE size_[q] = 0
  BY <1>1, <1>2, <1>4, <1>5 DEF IsList
<1>6. CASE size_[q] # 0
  <2>1. 0 \in 0..(size_[q] - 1) /\ size_[q] - 1 \in 0..(size_[q] - 1)
    BY <1>1, <1>6
  <2>2. head_[q] \in allocated /\ tail_[q] \in allocated
    BY <1>2, <1>4, <1>6, <2>1 DEF IsList
  <2> QED BY <1>1, <1>2, <1>3, <1>6, <2>2
<1> QED BY <1>5, <1>6

\* Every operation keeps the variables in their types; pop takes one from size_
\* only when there is a cell to go.
LEMMA TypeStep ==
    ASSUME TypeOK, HeapInv, Next
    PROVE  TypeOK'
<1>1. ASSUME NEW q \in Queues, Construct(q) PROVE TypeOK'
  BY <1>1 DEF TypeOK, Construct
<1>2. ASSUME NEW q \in Queues, NEW o \in Queues, MoveConstruct(q, o) PROVE TypeOK'
  BY <1>2 DEF TypeOK, MoveConstruct
<1>3. ASSUME NEW q \in Queues, NEW o \in Queues, MoveAssign(q, o) PROVE TypeOK'
  BY <1>3 DEF TypeOK, MoveAssign
<1>4. ASSUME NEW q \in Queues, Destroy(q) PROVE TypeOK'
  BY <1>4 DEF TypeOK, Destroy, DestroyMessages
<1>5. ASSUME NEW q \in Queues, NEW msg \in Data, Push(q, msg) PROVE TypeOK'
  <2>1. PICK c \in Cells : 
          /\ CreateMessage(c, msg)
          /\ tail_' = [tail_ EXCEPT ![q] = c]
          /\ \/ /\ tail_[q] = NULL
                /\ head_' = [head_ EXCEPT ![q] = c]
                /\ next_' = [next_ EXCEPT ![c] = NULL]
             \/ /\ tail_[q] # NULL
                /\ next_' = [next_ EXCEPT ![c] = NULL, ![tail_[q]] = c]
                /\ UNCHANGED head_
    BY <1>5 DEF Push
  <2>2. head_' \in [Queues -> Cells \cup {NULL}]
    BY <2>1 DEF TypeOK
  <2>3. next_' \in [Cells -> Cells \cup {NULL}]
    BY <2>1 DEF TypeOK
  <2>4. data_' \in [Cells -> Data \cup {NULL}] /\ allocated' \subseteq Cells
    BY <2>1 DEF TypeOK, CreateMessage
  <2>5. tail_' \in [Queues -> Cells \cup {NULL}]
    BY <2>1 DEF TypeOK
  <2> QED BY <1>5, <2>2, <2>3, <2>4, <2>5 DEF TypeOK, Push
<1>6. ASSUME NEW q \in Queues, Pop(q) PROVE TypeOK'
  <2>1. CASE head_[q] = NULL
    BY <1>6, <2>1 DEF TypeOK, Pop
  <2>2. CASE head_[q] # NULL
    <3>1. q \in alive /\ size_[q] \in Nat /\ size_[q] # 0
      BY <1>6, <2>2, Ends DEF Pop, HeapInv
    <3>2. head_[q] \in Cells /\ next_[head_[q]] \in Cells \cup {NULL}
      BY <2>2 DEF TypeOK
    <3>3. size_' \in [Queues -> Nat]
      BY <1>6, <2>2, <3>1 DEF TypeOK, Pop
    <3>4. head_' \in [Queues -> Cells \cup {NULL}] /\ tail_' \in [Queues -> Cells \cup {NULL}]
      BY <1>6, <2>2, <3>2 DEF TypeOK, Pop
    <3>5. allocated' \subseteq Cells /\ it' \in Cells \cup {NULL}
      BY <1>6, <2>2 DEF TypeOK, Pop, DestroyMessages
    <3> QED BY <1>6, <3>3, <3>4, <3>5 DEF TypeOK, Pop
  <2> QED BY <2>1, <2>2
<1>7. ASSUME NEW q \in Queues, Begin(q) PROVE TypeOK'
  BY <1>7 DEF TypeOK, Begin
<1>8. ASSUME Advance PROVE TypeOK'
  BY <1>8 DEF TypeOK, Advance
<1> QED BY <1>1, <1>2, <1>3, <1>4, <1>5, <1>6, <1>7, <1>8 DEF Next

-----------------------------------------------------------------------------
(* What CellsFrom computes *)

\* CellsFrom with the links given as a function.
Walk(nx, c) ==
    LET ends == {n \in 0..Cardinality(Cells) : After(nx, c, n) = NULL}
        len  == IF ends = {} THEN Cardinality(Cells) + 1 ELSE Min(ends)
    IN  [i \in 1..len |-> After(nx, c, i - 1)]

\* The two agree on the links as they are.
LEMMA CellsFromWalk == \A c : CellsFrom(c) = Walk(next_, c)
BY DEF CellsFrom, CellAfter, Walk, After

\* The cells of a list of length n, one by one.
LEMMA WalkList ==
    ASSUME NEW nx, NEW c, NEW n \in Nat, n <= Cardinality(Cells),
           After(nx, c, n) = NULL,
           \A i \in 0..(n - 1) : After(nx, c, i) # NULL
    PROVE  Walk(nx, c) = [i \in 1..n |-> After(nx, c, i - 1)]
<1> DEFINE ends == {k \in 0..Cardinality(Cells) : After(nx, c, k) = NULL}
<1>1. Cardinality(Cells) \in Nat
  BY HeapAssumption, FS_CardinalityType
<1>2. n \in ends
  BY <1>1
<1>3. \A k \in ends : k \in Nat /\ n <= k
  BY <1>1
<1> HIDE DEF ends
<1>4. Min(ends) = n
  <2>1. \E x \in ends : \A y \in ends : x <= y
    BY <1>2, <1>3
  <2>2. Min(ends) \in ends /\ \A y \in ends : Min(ends) <= y
    BY <2>1 DEF Min
  <2>3. Min(ends) \in Nat /\ Min(ends) <= n /\ n <= Min(ends)
    BY <1>2, <1>3, <2>2
  <2> QED BY <2>3
<1>5. Walk(nx, c) = [i \in 1..(IF ends = {} THEN Cardinality(Cells) + 1 ELSE Min(ends)) |-> After(nx, c, i - 1)]
  BY DEF Walk, ends
<1> QED BY <1>2, <1>4, <1>5

\* A list has at most as many cells as the heap.
LEMMA Room ==
    ASSUME TypeOK, HeapInv, NEW q \in alive
    PROVE  size_[q] <= Cardinality(Cells)
<1> DEFINE n == size_[q]
           f == [i \in 1..n |-> After(next_, head_[q], i - 1)]
<1>1. n \in Nat
  BY Ends DEF HeapInv
<1>2. \A i \in 1..n : After(next_, head_[q], i - 1) \in allocated
  <2> TAKE i \in 1..n
  <2>1. i - 1 \in 0..(n - 1)
    BY <1>1
  <2> QED BY <2>1 DEF HeapInv, Lists, IsList
<1>3. \A i, j \in 1..n :
        After(next_, head_[q], i - 1) = After(next_, head_[q], j - 1) => i = j
  <2> TAKE i, j \in 1..n
  <2>1. i - 1 \in 0..(n - 1) /\ j - 1 \in 0..(n - 1)
    BY <1>1
  <2>2. After(next_, head_[q], i - 1) = After(next_, head_[q], j - 1) => i - 1 = j - 1
    BY <2>1 DEF HeapInv, Separate
  <2> QED BY <1>1, <2>2
<1>4. allocated \subseteq Cells
  BY DEF TypeOK
<1> HIDE DEF n
<1>5. f \in Injection(1..n, Cells)
  BY <1>2, <1>3, <1>4 DEF Injection, IsInjective
<1>6. Cardinality(1..n) <= Cardinality(Cells)
  BY <1>5, FS_Injection, HeapAssumption
<1>7. Cardinality(1..n) = n
  BY <1>1, FS_Interval
<1> QED BY <1>6, <1>7 DEF n
 
\* The walk over a queue's list gives its cells.
LEMMA QueueCells ==
    ASSUME TypeOK, HeapInv, NEW q \in alive
    PROVE  CellsFrom(head_[q]) = [i \in 1..size_[q] |-> After(next_, head_[q], i - 1)]
<1>1. /\ size_[q] \in Nat
      /\ After(next_, head_[q], size_[q]) = NULL
      /\ \A i \in 0..(size_[q] - 1) : After(next_, head_[q], i) \in allocated
  BY Ends DEF HeapInv, Lists, IsList
<1>2. NULL \notin allocated
  BY NullAssumption DEF TypeOK
<1>3. size_[q] <= Cardinality(Cells)
  BY Room
<1> QED BY <1>1, <1>2, <1>3, WalkList, CellsFromWalk

\* The cells of a queue's list are those its links lead to.
LEMMA QueueRange ==
    ASSUME TypeOK, HeapInv, NEW q \in alive
    PROVE  \A c : c \in Range(CellsFrom(head_[q]))
                   <=> \E i \in 0..(size_[q] - 1) : c = After(next_, head_[q], i)
<1> DEFINE f == [i \in 1..size_[q] |-> After(next_, head_[q], i - 1)]
           cells == Range(CellsFrom(head_[q]))
<1>1. cells = {f[i] : i \in 1..size_[q]}
  BY QueueCells DEF Range
<1>2. size_[q] \in Nat
  BY DEF TypeOK
<1>3. ASSUME NEW i \in 0..(size_[q] - 1) PROVE After(next_, head_[q], i) \in cells
  <2>1. i + 1 \in 1..size_[q] /\ (i + 1) - 1 = i
    BY <1>2
  <2> QED BY <1>1, <2>1
<1>4. ASSUME NEW c \in cells PROVE \E i \in 0..(size_[q] - 1) : c = After(next_, head_[q], i)
  <2>1. PICK i \in 1..size_[q] : c = After(next_, head_[q], i - 1)
    BY <1>1
  <2>2. i - 1 \in 0..(size_[q] - 1)
    BY <1>2
  <2> QED BY <2>1, <2>2
<1> QED BY <1>3, <1>4

-----------------------------------------------------------------------------
(* The steps *)

\* Lists that only change hands: x gets the list of r[x] or an empty one, and
\* every list with cells goes to exactly one queue.
LEMMA Renamed ==
    ASSUME TypeOK, TypeOK', HeapInv, next_' = next_, allocated' = allocated, it' = it,
           NEW r \in [Queues -> Queues],
           \A x \in alive' :
               \/ size_'[x] = 0 /\ head_'[x] = NULL /\ tail_'[x] = NULL
               \/ /\ r[x] \in alive
                  /\ size_'[x] = size_[r[x]]
                  /\ head_'[x] = head_[r[x]]
                  /\ tail_'[x] = tail_[r[x]],
           \A x, y \in alive' : size_'[x] # 0 /\ size_'[y] # 0 /\ r[x] = r[y] => x = y,
           \A y \in alive : size_[y] # 0 =>
               \E x \in alive' : r[x] = y /\ size_'[x] = size_[y] /\ head_'[x] = head_[y]
    PROVE  HeapInv'
<1>1. Lists'
  <2> SUFFICES ASSUME NEW x \in alive'
               PROVE  IsList(next_, allocated, head_'[x], tail_'[x], size_'[x])
    BY DEF Lists
  <2>1. CASE size_'[x] = 0 /\ head_'[x] = NULL /\ tail_'[x] = NULL
    <3>1. After(next_, NULL, 0) = NULL
      BY AfterRec DEF TypeOK, Link
    <3> QED BY <2>1, <3>1 DEF IsList
  <2>2. CASE r[x] \in alive /\ size_'[x] = size_[r[x]] /\ head_'[x] = head_[r[x]] /\ tail_'[x] = tail_[r[x]]
    BY <2>2 DEF HeapInv, Lists
  <2> QED BY <2>1, <2>2
<1>2. Separate'
  <2> SUFFICES ASSUME NEW x \in alive', NEW y \in alive',
                      NEW i \in 0..(size_'[x] - 1), NEW j \in 0..(size_'[y] - 1),
                      After(next_, head_'[x], i) = After(next_, head_'[y], j)
               PROVE  x = y /\ i = j
    BY DEF Separate
  <2>1. size_'[x] \in Nat /\ size_'[y] \in Nat
    BY DEF TypeOK
  <2>2. size_'[x] # 0 /\ size_'[y] # 0
    BY <2>1
  <2>3. /\ r[x] \in alive /\ size_'[x] = size_[r[x]] /\ head_'[x] = head_[r[x]]
        /\ r[y] \in alive /\ size_'[y] = size_[r[y]] /\ head_'[y] = head_[r[y]]
    BY <2>2
  <2>4. r[x] = r[y] /\ i = j
    BY <2>3 DEF HeapInv, Separate
  <2> QED BY <2>2, <2>4
<1>3. Reached'
  <2> SUFFICES ASSUME NEW c \in allocated
               PROVE  \E x \in alive' : \E i \in 0..(size_'[x] - 1) : c = After(next_, head_'[x], i)
    BY DEF Reached
  <2>1. PICK y \in alive : \E i \in 0..(size_[y] - 1) : c = After(next_, head_[y], i)
    BY DEF HeapInv, Reached
  <2>2. size_[y] # 0
    BY <2>1 DEF TypeOK
  <2> QED BY <2>1, <2>2
<1> QED BY <1>1, <1>2, <1>3 DEF HeapInv

\* Constructors and assignment pass lists on.
LEMMA MoveStep ==
    ASSUME IInv, TypeOK', NEW q \in Queues, NEW o \in Queues,
           Construct(q) \/ MoveConstruct(q, o) \/ MoveAssign(q, o)
    PROVE  HeapInv'
<1> USE DEF IInv
<1>1. CASE Construct(q)
  <2> DEFINE r == [x \in Queues |-> x]
  <2>1. /\ next_' = next_ /\ allocated' = allocated /\ it' = it
        /\ alive' = alive \cup {q} /\ q \notin alive /\ alive \subseteq Queues
        /\ size_'[q] = 0 /\ head_'[q] = NULL /\ tail_'[q] = NULL
        /\ \A x \in alive : size_'[x] = size_[x] /\ head_'[x] = head_[x] /\ tail_'[x] = tail_[x]
    BY <1>1 DEF Construct, TypeOK
  <2>2. r \in [Queues -> Queues] /\ \A x \in Queues : r[x] = x
    OBVIOUS
  <2> HIDE DEF r
  <2> QED BY <2>1, <2>2, Renamed
<1>2. CASE MoveConstruct(q, o)
  <2> DEFINE r == [x \in Queues |-> IF x = q THEN o ELSE x]
  <2>1. /\ next_' = next_ /\ allocated' = allocated /\ it' = it
        /\ alive' = alive \cup {q} /\ q \notin alive /\ o \in alive /\ alive \subseteq Queues
        /\ size_'[q] = size_[o] /\ head_'[q] = head_[o] /\ tail_'[q] = tail_[o]
        /\ size_'[o] = 0 /\ head_'[o] = NULL /\ tail_'[o] = NULL
        /\ \A x \in alive : x # o => size_'[x] = size_[x] /\ head_'[x] = head_[x] /\ tail_'[x] = tail_[x]
    BY <1>2 DEF MoveConstruct, TypeOK
  <2>2. r \in [Queues -> Queues] /\ r[q] = o /\ \A x \in Queues : x # q => r[x] = x
    OBVIOUS
  <2> HIDE DEF r
  <2>3. \A x, y \in alive' : size_'[x] # 0 /\ size_'[y] # 0 /\ r[x] = r[y] => x = y
    BY <2>1, <2>2
  <2>4. \A y \in alive : size_[y] # 0 =>
           \E x \in alive' : r[x] = y /\ size_'[x] = size_[y] /\ head_'[x] = head_[y]
    BY <2>1, <2>2
  <2>5. \A x \in alive' :
               \/ size_'[x] = 0 /\ head_'[x] = NULL /\ tail_'[x] = NULL
               \/ /\ r[x] \in alive
                  /\ size_'[x] = size_[r[x]]
                  /\ head_'[x] = head_[r[x]]
                  /\ tail_'[x] = tail_[r[x]]
    BY <2>1, <2>2
  <2> QED BY <2>1, <2>2, <2>3, <2>4, <2>5, Renamed
<1>3. CASE MoveAssign(q, o)
  <2> DEFINE r == [x \in Queues |-> IF x = q THEN o ELSE IF x = o THEN q ELSE x]
  <2>1. /\ next_' = next_ /\ allocated' = allocated /\ it' = it
        /\ alive' = alive /\ q \in alive /\ o \in alive /\ alive \subseteq Queues
        /\ size_'[q] = size_[o] /\ head_'[q] = head_[o] /\ tail_'[q] = tail_[o]
        /\ size_'[o] = size_[q] /\ head_'[o] = head_[q] /\ tail_'[o] = tail_[q]
        /\ \A x \in alive : x # o /\ x # q => size_'[x] = size_[x] /\ head_'[x] = head_[x] /\ tail_'[x] = tail_[x]
    BY <1>3 DEF MoveAssign, TypeOK
  <2>2. r \in [Queues -> Queues] /\ r[q] = o /\ r[o] = q
        /\ \A x \in Queues : x # q /\ x # o => r[x] = x
    OBVIOUS
  <2> HIDE DEF r
  <2>3. \A x, y \in alive' : r[x] = r[y] => x = y
    BY <2>1, <2>2
  <2>4. \A y \in alive : \E x \in alive' : r[x] = y /\ size_'[x] = size_[y] /\ head_'[x] = head_[y]
    BY <2>1, <2>2
  <2>5. \A x \in alive' : /\ r[x] \in alive
                          /\ size_'[x] = size_[r[x]]
                          /\ head_'[x] = head_[r[x]]
                          /\ tail_'[x] = tail_[r[x]]
    BY <2>1, <2>2
  <2> QED BY <2>1, <2>2, <2>3, <2>4, <2>5, Renamed
<1> QED BY <1>1, <1>2, <1>3

\* A pop that removes a cell.
LEMMA PopStep ==
    ASSUME IInv, TypeOK', NEW q \in Queues, Pop(q), head_[q] # NULL
    PROVE  /\ HeapInv'
           /\ size_[q] # 0
           /\ \A i \in Nat : After(next_', head_'[q], i) = After(next_, head_[q], i + 1)
<1> DEFINE n == size_[q]
           h == head_[q]
<1> USE DEF IInv
<1>1. /\ q \in alive /\ alive' = alive /\ next_' = next_
      /\ allocated' = allocated \ {h}
      /\ it' = IF it = h THEN NULL ELSE it
      /\ \A x \in alive : x # q => size_'[x] = size_[x] /\ head_'[x] = head_[x] /\ tail_'[x] = tail_[x]
      /\ size_'[q] = n - 1
      /\ head_'[q] = next_[h]
      /\ tail_'[q] = IF next_[h] = NULL THEN NULL ELSE tail_[q]
  BY DEF Pop, DestroyMessages, TypeOK
<1>2. /\ n \in Nat /\ n # 0 /\ h \in allocated /\ h \in Cells
      /\ next_ \in [Cells -> Link] /\ h \in Link
      /\ After(next_, h, 0) = h /\ NULL \notin allocated
  BY <1>1, Ends, NullAssumption DEF HeapInv, TypeOK
<1>3. \A i \in Nat : After(next_, head_'[q], i) = After(next_, h, i + 1)
  BY <1>1, <1>2, AfterShift
<1>4. /\ \A i \in 0..(n - 1) : After(next_, h, i) \in allocated
      /\ After(next_, h, n) = NULL
      /\ tail_[q] = After(next_, h, n - 1)
  BY <1>1, <1>2 DEF HeapInv, Lists, IsList
<1>5. next_[h] = After(next_, h, 1)
  <2>1. After(next_, h, 0 + 1) = next_[h]
    BY <1>2, AfterRec
  <2> QED BY <2>1
<1>6. Lists'
  <2> SUFFICES ASSUME NEW x \in alive
               PROVE  IsList(next_, allocated', head_'[x], tail_'[x], size_'[x])
    BY <1>1 DEF Lists
  <2>1. CASE x # q
    <3>1. IsList(next_, allocated, head_[x], tail_[x], size_[x])
      BY DEF HeapInv, Lists
    <3>2. \A i \in 0..(size_[x] - 1) : After(next_, head_[x], i) # h
      <4> TAKE i \in 0..(size_[x] - 1)
      <4>1. 0 \in 0..(n - 1)
        BY <1>2
      <4> QED BY <1>1, <1>2, <2>1, <4>1 DEF HeapInv, Separate
    <3> QED BY <1>1, <2>1, <3>1, <3>2 DEF IsList
  <2>2. CASE x = q
    <3>1. ASSUME NEW i \in 0..((n - 1) - 1)
          PROVE  After(next_, head_'[q], i) \in allocated'
      <4>1. i \in Nat /\ i + 1 \in 0..(n - 1) /\ 0 \in 0..(n - 1) /\ i + 1 # 0
        BY <1>2
      <4>2. After(next_, h, i + 1) # h
        BY <1>1, <1>2, <4>1 DEF HeapInv, Separate
      <4> QED BY <1>1, <1>3, <1>4, <4>1, <4>2
    <3>2. After(next_, head_'[q], n - 1) = NULL
      <4>1. n - 1 \in Nat /\ (n - 1) + 1 = n
        BY <1>2
      <4> QED BY <1>3, <1>4, <4>1
    <3>3. CASE n = 1
      BY <1>1, <1>4, <1>5, <2>2, <3>1, <3>2, <3>3 DEF IsList
    <3>4. CASE n # 1
      <4>1. 1 \in 0..(n - 1) /\ n - 2 \in Nat /\ (n - 2) + 1 = n - 1 /\ (n - 1) - 1 = n - 2 /\ n - 1 # 0
        BY <1>2, <3>4
      <4>2. next_[h] # NULL
        BY <1>2, <1>4, <1>5, <4>1
      <4>3. tail_'[q] = After(next_, head_'[q], n - 2)
        BY <1>1, <1>3, <1>4, <4>1, <4>2
      <4> QED BY <1>1, <2>2, <3>1, <3>2, <4>1, <4>3 DEF IsList
    <3> QED BY <3>3, <3>4
  <2> QED BY <2>1, <2>2
<1>7. Separate'
  <2> DEFINE up(x, i) == IF x = q THEN i + 1 ELSE i
  <2> SUFFICES ASSUME NEW x \in alive, NEW y \in alive,
                      NEW i \in 0..(size_'[x] - 1), NEW j \in 0..(size_'[y] - 1),
                      After(next_, head_'[x], i) = After(next_, head_'[y], j)
               PROVE  x = y /\ i = j
    BY <1>1 DEF Separate
  <2>1. size_[x] \in Nat /\ size_[y] \in Nat
    BY DEF TypeOK
  <2>2. up(x, i) \in 0..(size_[x] - 1) /\ up(y, j) \in 0..(size_[y] - 1) /\ i \in Nat /\ j \in Nat
    BY <1>1, <1>2, <2>1
  <2>3. /\ After(next_, head_'[x], i) = After(next_, head_[x], up(x, i))
        /\ After(next_, head_'[y], j) = After(next_, head_[y], up(y, j))
    BY <1>1, <1>3, <2>2
  <2>4. PICK a \in 0..(size_[x] - 1), b \in 0..(size_[y] - 1) : a = up(x, i) /\ b = up(y, j)
    BY <2>2
  <2>5. After(next_, head_[x], a) = After(next_, head_[y], b)
    BY <2>3, <2>4
  <2>6. x = y /\ a = b
    BY <2>5 DEF HeapInv, Separate
  <2> QED BY <2>2, <2>4, <2>6
<1>8. Reached'
  <2> SUFFICES ASSUME NEW c \in allocated, c # h
               PROVE  \E x \in alive : \E i \in 0..(size_'[x] - 1) : c = After(next_, head_'[x], i)
    BY <1>1 DEF Reached
  <2>1. PICK y \in alive : \E i \in 0..(size_[y] - 1) : c = After(next_, head_[y], i)
    BY DEF HeapInv, Reached
  <2>2. PICK i \in 0..(size_[y] - 1) : c = After(next_, head_[y], i)
    BY <2>1
  <2>3. CASE y # q
    BY <1>1, <2>2, <2>3
  <2>4. CASE y = q
    <3>1. i # 0
      BY <1>2, <2>2, <2>4
    <3>2. i - 1 \in 0..(size_'[q] - 1) /\ i - 1 \in Nat /\ (i - 1) + 1 = i
      BY <1>1, <1>2, <2>2, <2>4, <3>1
    <3>3. c = After(next_, head_'[q], i - 1)
      BY <1>3, <2>2, <2>4, <3>2
    <3> QED BY <1>1, <3>2, <3>3
  <2> QED BY <2>3, <2>4
<1>9. it' \in allocated' \cup {NULL}
  BY <1>1 DEF HeapInv
<1> QED BY <1>1, <1>2, <1>3, <1>6, <1>7, <1>8, <1>9 DEF HeapInv

\* The destructor frees exactly the cells of its queue.
LEMMA DestroyStep ==
    ASSUME IInv, TypeOK', NEW q \in Queues, Destroy(q)
    PROVE  HeapInv'
<1> USE DEF IInv
<1> DEFINE freed == Range(CellsFrom(head_[q]))
<1>1. /\ q \in alive /\ alive' = alive \ {q} /\ next_' = next_
      /\ allocated' = allocated \ freed
      /\ it' = IF it \in freed THEN NULL ELSE it
      /\ size_' = size_ /\ head_' = head_ /\ tail_' = tail_
  BY DEF Destroy, DestroyMessages
<1>2. size_[q] \in Nat
  BY DEF TypeOK
<1>3. \A c : c \in freed <=> \E i \in 0..(size_[q] - 1) : c = After(next_, head_[q], i)
  BY <1>1, QueueRange
<1> HIDE DEF freed
<1>4. Lists'
  <2> SUFFICES ASSUME NEW x \in alive, x # q
               PROVE  IsList(next_, allocated \ freed, head_[x], tail_[x], size_[x])
    BY <1>1 DEF Lists
  <2>1. \A i \in 0..(size_[x] - 1) : After(next_, head_[x], i) \notin freed
    BY <1>1, <1>3 DEF HeapInv, Separate
  <2> QED BY <2>1 DEF HeapInv, Lists, IsList
<1>5. Separate'
  BY <1>1 DEF HeapInv, Separate
<1>6. Reached'
  <2> SUFFICES ASSUME NEW c \in allocated, c \notin freed
               PROVE  \E x \in alive \ {q} : \E i \in 0..(size_[x] - 1) : c = After(next_, head_[x], i)
    BY <1>1 DEF Reached
  <2> QED BY <1>3 DEF HeapInv, Reached
<1> QED BY <1>1, <1>4, <1>5, <1>6 DEF HeapInv

\* push of msg into the cell c.
PushCell(q, msg, c) ==
    /\ q \in alive
    /\ CreateMessage(c, msg)
    /\ tail_' = [tail_ EXCEPT ![q] = c]
    /\ \/ /\ tail_[q] = NULL
          /\ head_' = [head_ EXCEPT ![q] = c]
          /\ next_' = [next_ EXCEPT ![c] = NULL]
       \/ /\ tail_[q] # NULL
          /\ next_' = [next_ EXCEPT ![c] = NULL, ![tail_[q]] = c]
          /\ UNCHANGED head_
    /\ size_' = [size_ EXCEPT ![q] = @ + 1]
    /\ UNCHANGED <<alive, it>>

\* Every push takes some cell that malloc may return.
LEMMA PushIsPushCell ==
    ASSUME NEW q, NEW msg, Push(q, msg)
    PROVE  \E c \in Cells : PushCell(q, msg, c)
BY DEF Push, PushCell

\* Push adds c behind the cells of q and changes no other walk.
LEMMA PushWalk ==
    ASSUME IInv, TypeOK', NEW q \in Queues, NEW msg \in Data, NEW c \in Cells, PushCell(q, msg, c)
    PROVE  /\ \A x \in alive : x # q =>
                 \A i \in 0..size_[x] : After(next_', head_'[x], i) = After(next_, head_[x], i)
           /\ \A i \in 0..(size_[q] - 1) : After(next_', head_'[q], i) = After(next_, head_[q], i)
           /\ After(next_', head_'[q], size_[q]) = c
           /\ After(next_', head_'[q], size_[q] + 1) = NULL
<1> DEFINE n == size_[q]
<1> USE DEF IInv
<1>1. /\ q \in alive /\ c \notin allocated /\ allocated \subseteq Cells /\ alive \subseteq Queues
      /\ next_ \in [Cells -> Link] /\ next_' \in [Cells -> Link] /\ NULL \notin Cells
  BY NullAssumption DEF PushCell, CreateMessage, TypeOK, Link
<1>2. \A x \in alive : /\ size_[x] \in Nat /\ head_[x] \in Link /\ head_'[x] \in Link
                       /\ \A i \in 0..(size_[x] - 1) : After(next_, head_[x], i) \in allocated
  BY <1>1 DEF TypeOK, Link, HeapInv, Lists, IsList
<1>3. \A d \in allocated : d # tail_[q] => next_'[d] = next_[d]
  BY <1>1 DEF PushCell, TypeOK
<1>4. next_'[c] = NULL
  <2>1. tail_[q] # c
    BY <1>1, Ends DEF HeapInv
  <2> QED BY <1>1, <2>1 DEF PushCell, TypeOK
<1>5. n # 0 => tail_[q] = After(next_, head_[q], n - 1) /\ tail_[q] \in allocated /\ tail_[q] # NULL
  BY <1>1, Ends DEF HeapInv, Lists, IsList
<1>6. n = 0 => tail_[q] = NULL
  BY <1>1, Ends DEF HeapInv
<1>7. ASSUME NEW x \in alive, x # q
      PROVE  \A i \in 0..size_[x] : After(next_', head_'[x], i) = After(next_, head_[x], i)
  <2>1. head_'[x] = head_[x]
    BY <1>1, <1>7 DEF PushCell, TypeOK
  <2>2. ASSUME NEW i \in 0..(size_[x] - 1) PROVE After(next_, head_[x], i) # tail_[q]
    <3>1. CASE n = 0
      BY <1>1, <1>2, <1>6, <3>1
    <3>2. CASE n # 0
      <4>1. n - 1 \in 0..(n - 1)
        BY <1>1, <1>2, <3>2
      <4> QED BY <1>1, <1>5, <1>7, <3>2, <4>1 DEF HeapInv, Separate
    <3> QED BY <3>1, <3>2
  <2>3. \A i \in 0..(size_[x] - 1) : next_'[After(next_, head_[x], i)] = next_[After(next_, head_[x], i)]
    BY <1>2, <1>3, <2>2
  <2>4. head_[x] \in Link /\ size_[x] \in Nat
    BY <1>2
  <2> QED BY <1>1, <2>1, <2>3, <2>4, AfterSame, SMTT(60)
<1>8. CASE n = 0
  <2>1. head_'[q] = c
    BY <1>6, <1>8 DEF PushCell, TypeOK
  <2>2. c \in Link
    BY DEF Link
  <2>3. After(next_', c, 0) = c /\ After(next_', c, 0 + 1) = NULL
    BY <1>1, <1>4, <2>2, AfterRec
  <2> QED BY <1>7, <1>8, <2>1, <2>3
<1>9. CASE n # 0
  <2>0. n \in Nat /\ n - 1 \in Nat /\ n - 1 \in 0..(n - 1) /\ (n - 1) + 1 = n /\ head_[q] \in Link
    BY <1>1, <1>2, <1>9
  <2>1. head_'[q] = head_[q] /\ next_'[tail_[q]] = c
    BY <1>1, <1>5, <1>9 DEF PushCell, TypeOK
  <2>2. ASSUME NEW i \in 0..((n - 1) - 1) PROVE After(next_, head_[q], i) # tail_[q]
    <3>1. i \in 0..(n - 1) /\ i # n - 1
      BY <2>0
    <3> QED BY <1>1, <1>5, <1>9, <2>0, <3>1 DEF HeapInv, Separate
  <2>3. \A i \in 0..((n - 1) - 1) : next_'[After(next_, head_[q], i)] = next_[After(next_, head_[q], i)]
    <3> TAKE i \in 0..((n - 1) - 1)
    <3>1. i \in 0..(n - 1)
      BY <2>0
    <3> QED BY <1>1, <1>2, <1>3, <2>2, <3>1
  <2>4. \A i \in 0..(n - 1) : After(next_', head_[q], i) = After(next_, head_[q], i)
    BY <1>1, <2>0, <2>3, AfterSame, SMTT(60)
  <2>5. After(next_', head_[q], n - 1) = tail_[q]
    BY <1>5, <1>9, <2>0, <2>4
  <2>6. After(next_', head_[q], (n - 1) + 1) = c
    BY <1>1, <1>5, <1>9, <2>0, <2>1, <2>5, AfterRec
  <2>7. After(next_', head_[q], n) = c
    BY <2>0, <2>6
  <2>8. After(next_', head_[q], n + 1) = NULL
    <3>1. c # NULL
      BY <1>1
    <3>2. After(next_', head_[q], n + 1) = next_'[After(next_', head_[q], n)]
      BY <1>1, <2>0, <2>7, <3>1, AfterRec
    <3> QED BY <1>4, <2>7, <3>2
  <2> QED BY <1>7, <2>1, <2>4, <2>7, <2>8
<1> QED BY <1>8, <1>9

\* A push.
LEMMA PushStep ==
    ASSUME IInv, TypeOK', NEW q \in Queues, NEW msg \in Data, Push(q, msg)
    PROVE  HeapInv'
<1> DEFINE n == size_[q]
<1> USE DEF IInv
<1>0. PICK c \in Cells : PushCell(q, msg, c)
  BY PushIsPushCell
<1>1. /\ q \in alive /\ c \notin allocated /\ allocated' = allocated \cup {c}
      /\ alive' = alive /\ alive \subseteq Queues /\ it' = it
      /\ size_'[q] = n + 1 /\ tail_'[q] = c
      /\ \A x \in alive : x # q => size_'[x] = size_[x] /\ tail_'[x] = tail_[x]
  BY <1>0 DEF PushCell, CreateMessage, TypeOK
<1>2. \A x \in alive : /\ size_[x] \in Nat
                       /\ \A i \in 0..(size_[x] - 1) : After(next_, head_[x], i) \in allocated
                       /\ After(next_, head_[x], size_[x]) = NULL
                       /\ tail_[x] = IF size_[x] = 0 THEN NULL ELSE After(next_, head_[x], size_[x] - 1)
  BY <1>1 DEF TypeOK, HeapInv, Lists, IsList
<1>3. /\ \A x \in alive : x # q =>
            \A i \in 0..size_[x] : After(next_', head_'[x], i) = After(next_, head_[x], i)
      /\ \A i \in 0..(n - 1) : After(next_', head_'[q], i) = After(next_, head_[q], i)
      /\ After(next_', head_'[q], n) = c
      /\ After(next_', head_'[q], n + 1) = NULL
  BY <1>0, PushWalk
<1>4. Lists'
  <2> SUFFICES ASSUME NEW x \in alive
               PROVE  IsList(next_', allocated', head_'[x], tail_'[x], size_'[x])
    BY <1>1 DEF Lists
  <2>1. CASE x # q
    <3>1. \A i \in 0..(size_[x] - 1) : After(next_', head_'[x], i) \in allocated'
      BY <1>1, <1>2, <1>3, <2>1
    <3>2. After(next_', head_'[x], size_[x]) = NULL
      BY <1>2, <1>3, <2>1
    <3>3. tail_[x] = IF size_[x] = 0 THEN NULL ELSE After(next_', head_'[x], size_[x] - 1)
      BY <1>2, <1>3, <2>1
    <3> QED BY <1>1, <2>1, <3>1, <3>2, <3>3 DEF IsList
  <2>2. CASE x = q
    <3>1. \A i \in 0..((n + 1) - 1) : After(next_', head_'[q], i) \in allocated'
      BY <1>1, <1>2, <1>3
    <3>2. n + 1 # 0 /\ (n + 1) - 1 = n
      BY <1>1, <1>2
    <3> QED BY <1>1, <1>3, <2>2, <3>1, <3>2 DEF IsList
  <2> QED BY <2>1, <2>2
<1>5. ASSUME NEW x \in alive, NEW i \in 0..(size_'[x] - 1)
      PROVE  \/ i \in 0..(size_[x] - 1) /\ After(next_', head_'[x], i) = After(next_, head_[x], i)
             \/ x = q /\ i = n /\ After(next_', head_'[x], i) = c
  BY <1>1, <1>2, <1>3
<1>6. Separate'
  <2> SUFFICES ASSUME NEW x \in alive, NEW y \in alive,
                      NEW i \in 0..(size_'[x] - 1), NEW j \in 0..(size_'[y] - 1),
                      After(next_', head_'[x], i) = After(next_', head_'[y], j)
               PROVE  x = y /\ i = j
    BY <1>1 DEF Separate
  <2>1. CASE x = q /\ i = n /\ After(next_', head_'[x], i) = c
    BY <1>1, <1>2, <1>5, <2>1
  <2>2. CASE y = q /\ j = n /\ After(next_', head_'[y], j) = c
    BY <1>1, <1>2, <1>5, <2>2
  <2>3. CASE /\ i \in 0..(size_[x] - 1) /\ After(next_', head_'[x], i) = After(next_, head_[x], i)
             /\ j \in 0..(size_[y] - 1) /\ After(next_', head_'[y], j) = After(next_, head_[y], j)
    <3>1. After(next_, head_[x], i) = After(next_, head_[y], j)
      BY <2>3
    <3>2. PICK a \in 0..(size_[x] - 1), b \in 0..(size_[y] - 1) : a = i /\ b = j
      BY <2>3
    <3> QED BY <3>1, <3>2 DEF HeapInv, Separate
  <2> QED BY <1>5, <2>1, <2>2, <2>3
<1>7. Reached'
  <2> SUFFICES ASSUME NEW d \in allocated \cup {c}
               PROVE  \E x \in alive : \E i \in 0..(size_'[x] - 1) : d = After(next_', head_'[x], i)
    BY <1>1 DEF Reached
  <2>1. CASE d = c
    <3>1. n \in 0..(size_'[q] - 1)
      BY <1>1, <1>2
    <3> QED BY <1>1, <1>3, <2>1, <3>1
  <2>2. CASE d \in allocated
    <3>1. PICK x \in alive : \E i \in 0..(size_[x] - 1) : d = After(next_, head_[x], i)
      BY <2>2 DEF HeapInv, Reached
    <3>2. PICK i \in 0..(size_[x] - 1) : d = After(next_, head_[x], i)
      BY <3>1
    <3>3. i \in 0..(size_'[x] - 1) /\ i \in 0..size_[x]
      BY <1>1, <1>2
    <3>4. d = After(next_', head_'[x], i)
      BY <1>3, <3>2, <3>3
    <3> QED BY <3>3, <3>4
  <2> QED BY <2>1, <2>2
<1> QED BY <1>1, <1>4, <1>6, <1>7 DEF HeapInv

\* The iterator steps onto a cell in use or off the end.
LEMMA IteratorStep ==
    ASSUME IInv, Advance \/ \E q \in Queues : Begin(q)
    PROVE  HeapInv'
<1> USE DEF IInv
<1>1. /\ alive' = alive /\ size_' = size_ /\ head_' = head_ /\ tail_' = tail_
      /\ allocated' = allocated /\ next_' = next_
  BY DEF Advance, Begin
<1>2. Lists' /\ Separate' /\ Reached'
  BY <1>1 DEF HeapInv, Lists, Separate, Reached
<1>3. ASSUME NEW q \in Queues, Begin(q) PROVE it' \in allocated \cup {NULL}
  BY <1>3, Ends DEF Begin, HeapInv
<1>4. ASSUME Advance PROVE it' \in allocated \cup {NULL}
  <2>1. it \in allocated /\ it' = next_[it]
    BY <1>4 DEF Advance, HeapInv
  <2>2. PICK q \in alive : \E i \in 0..(size_[q] - 1) : it = After(next_, head_[q], i)
    BY <2>1 DEF HeapInv, Reached
  <2>3. PICK i \in 0..(size_[q] - 1) : it = After(next_, head_[q], i)
    BY <2>2
  <2>4. size_[q] \in Nat /\ head_[q] \in Link /\ next_ \in [Cells -> Link] /\ NULL \notin allocated
    BY Ends, NullAssumption DEF HeapInv, TypeOK
  <2>5. next_[it] = After(next_, head_[q], i + 1)
    <3>1. i \in Nat /\ After(next_, head_[q], i) # NULL
      BY <2>1, <2>3, <2>4
    <3> QED BY <2>3, <2>4, <3>1, AfterRec
  <2>6. CASE i + 1 = size_[q]
    BY <2>1, <2>5, <2>6 DEF HeapInv, Lists, IsList
  <2>7. CASE i + 1 # size_[q]
    <3>1. i + 1 \in 0..(size_[q] - 1)
      BY <2>4, <2>7
    <3> QED BY <2>1, <2>5, <3>1 DEF HeapInv, Lists, IsList
  <2> QED BY <2>6, <2>7
<1> QED BY <1>1, <1>2, <1>3, <1>4 DEF HeapInv

-----------------------------------------------------------------------------
(* The theorems *)

\* The heap is in order after every operation, with any queues and heap.
THEOREM HeapInvariance == Spec => []IInv
<1>1. Init => IInv
  <2> SUFFICES ASSUME Init PROVE IInv
    OBVIOUS
  <2>1. TypeOK
    BY DEF Init, TypeOK
  <2>2. HeapInv
    BY DEF Init, HeapInv, Lists, Separate, Reached
  <2> QED BY <2>1, <2>2 DEF IInv
<1>2. IInv /\ [Next]_vars => IInv'
  <2> SUFFICES ASSUME IInv, [Next]_vars PROVE IInv'
    OBVIOUS
  <2>1. CASE Next
    <3>1. TypeOK'
      BY <2>1, TypeStep DEF IInv
    <3>2. ASSUME NEW q \in Queues, Construct(q) PROVE HeapInv'
      BY <3>1, <3>2, MoveStep
    <3>3. ASSUME NEW q \in Queues, NEW o \in Queues, MoveConstruct(q, o) \/ MoveAssign(q, o)
          PROVE  HeapInv'
      BY <3>1, <3>3, MoveStep
    <3>4. ASSUME NEW q \in Queues, Destroy(q) PROVE HeapInv'
      BY <3>1, <3>4, DestroyStep
    <3>5. ASSUME NEW q \in Queues, NEW msg \in Data, Push(q, msg) PROVE HeapInv'
      BY <3>1, <3>5, PushStep
    <3>6. ASSUME NEW q \in Queues, Pop(q) PROVE HeapInv'
      <4>1. CASE head_[q] # NULL
        BY <3>1, <3>6, <4>1, PopStep
      <4>2. CASE head_[q] = NULL
        <5>1. UNCHANGED vars
          BY <3>6, <4>2 DEF Pop, vars
        <5> QED BY <5>1 DEF IInv, HeapInv, Lists, Separate, Reached, vars
      <4> QED BY <4>1, <4>2
    <3>7. ASSUME NEW q \in Queues, Begin(q) PROVE HeapInv'
      BY <3>7, IteratorStep
    <3>8. ASSUME Advance PROVE HeapInv'
      BY <3>8, IteratorStep
    <3>9. HeapInv'
      BY <2>1, <3>2, <3>3, <3>4, <3>5, <3>6, <3>7, <3>8 DEF Next
    <3> QED BY <3>1, <3>9 DEF IInv
  <2>2. CASE UNCHANGED vars
    BY <2>2 DEF IInv, TypeOK, HeapInv, Lists, Separate, Reached, vars
  <2> QED BY <2>1, <2>2
<1> QED BY <1>1, <1>2, PTL DEF Spec

\* size(), empty() and tail_ agree with the list, whatever was moved, swapped
\* and popped before.
THEOREM ListsAgree == Spec => []ListExact
<1>1. IInv => ListExact
  <2> SUFFICES ASSUME IInv, NEW q \in alive
               PROVE  LET cells == CellsFrom(head_[q])
                      IN  /\ size_[q] = Len(cells)
                          /\ tail_[q] = IF cells = <<>> THEN NULL ELSE cells[Len(cells)]
    BY DEF ListExact
  <2> USE DEF IInv
  <2>1. CellsFrom(head_[q]) = [i \in 1..size_[q] |-> After(next_, head_[q], i - 1)]
    BY QueueCells
  <2>2. size_[q] \in Nat /\ IsList(next_, allocated, head_[q], tail_[q], size_[q])
    BY Ends DEF HeapInv, Lists
  <2>3. Len(CellsFrom(head_[q])) = size_[q]
    BY <2>1, <2>2
  <2>4. CASE size_[q] = 0
    <3>1. CellsFrom(head_[q]) = <<>>
      BY <2>1, <2>4
    <3> QED BY <2>2, <2>3, <2>4, <3>1 DEF IsList
  <2>5. CASE size_[q] # 0
    <3>1. CellsFrom(head_[q]) # <<>>
      BY <2>3, <2>5
    <3>2. size_[q] \in 1..size_[q]
      BY <2>2, <2>5
    <3>3. CellsFrom(head_[q])[size_[q]] = After(next_, head_[q], size_[q] - 1)
      BY <2>1, <3>2
    <3> QED BY <2>2, <2>3, <2>5, <3>1, <3>3 DEF IsList
  <2> QED BY <2>4, <2>5
<1> QED BY <1>1, HeapInvariance, PTL

\* No cell is leaked, freed twice or used after it was freed: every cell in use is
\* in the list of exactly one queue, and the iterator is at one of them or at the end.
THEOREM HeapAgrees == Spec => []HeapExact
<1>1. IInv => HeapExact
  <2> SUFFICES ASSUME IInv PROVE HeapExact
    OBVIOUS
  <2> USE DEF IInv
  <2>1. ASSUME NEW q \in alive, NEW c
        PROVE  c \in Range(CellsFrom(head_[q])) <=> \E i \in 0..(size_[q] - 1) : c = After(next_, head_[q], i)
    BY QueueRange
  <2>2. allocated = UNION {Range(CellsFrom(head_[q])) : q \in alive}
    <3>1. ASSUME NEW c \in allocated PROVE \E q \in alive : c \in Range(CellsFrom(head_[q]))
      BY <2>1 DEF HeapInv, Reached
    <3>2. ASSUME NEW q \in alive, NEW c \in Range(CellsFrom(head_[q])) PROVE c \in allocated
      BY <2>1 DEF HeapInv, Lists, IsList
    <3> QED BY <3>1, <3>2
  <2>3. ASSUME NEW p \in alive, NEW q \in alive, p # q,
               NEW c \in Range(CellsFrom(head_[p])), c \in Range(CellsFrom(head_[q]))
        PROVE  FALSE
    BY <2>1, <2>3 DEF HeapInv, Separate
  <2> QED BY <2>2, <2>3 DEF HeapExact, HeapInv
<1> QED BY <1>1, HeapInvariance, PTL

-----------------------------------------------------------------------------
(* The refinement of FifoQueue: what the list holds *)

\* The messages of an n-cell list from its i-th link on.
Msgs(nx, dt, h, i, n) == [k \in 1..(n - i) |-> dt[After(nx, h, (i + k) - 1)]]

\* A sequence as a function on its positions.
LEMMA SeqIsFunction ==
    ASSUME NEW S, NEW s \in Seq(S)
    PROVE  s \in [1..Len(s) -> S]
OBVIOUS

\* As sequences: their length, and what goes with the first message.
LEMMA MsgsShape ==
    ASSUME NEW nx, NEW dt, NEW h, NEW n \in Nat, NEW i \in 0..n
    PROVE  /\ Len(Msgs(nx, dt, h, i, n)) = n - i
           /\ Msgs(nx, dt, h, i, n) = <<>> <=> i = n
           /\ i # n => Tail(Msgs(nx, dt, h, i, n)) = Msgs(nx, dt, h, i + 1, n)
<1> DEFINE s == Msgs(nx, dt, h, i, n)
           S == {s[k] : k \in 1..(n - i)}
<1>1. n - i \in Nat
  OBVIOUS
<1>2. s = [k \in 1..(n - i) |-> dt[After(nx, h, (i + k) - 1)]]
  BY DEF Msgs
<1>3. s \in [1..(n - i) -> S]
  BY <1>2
<1> HIDE DEF s, S
<1>4. s \in Seq(S) /\ Len(s) = n - i
  BY <1>1, <1>3
<1>5. s = <<>> <=> i = n
  BY <1>1, <1>4
<1>6. ASSUME i # n PROVE Tail(s) = Msgs(nx, dt, h, i + 1, n)
  <2>1. n - i - 1 \in Nat /\ n - (i + 1) = n - i - 1 /\ s # <<>>
    BY <1>1, <1>5, <1>6
  <2>2. Tail(s) = [k \in 1..(n - i - 1) |-> s[k + 1]]
    <3>1. Tail(s) \in Seq(S) /\ Len(Tail(s)) = n - i - 1
      BY <1>4, <2>1
    <3>2. Tail(s) \in [1..(n - i - 1) -> S]
      BY <3>1, SeqIsFunction, Zenon
    <3>3. \A k \in 1..(n - i - 1) : Tail(s)[k] = s[k + 1]
      BY <1>4, <2>1, <3>1
    <3> QED BY <3>2, <3>3
  <2>3. \A k \in 1..(n - i - 1) : s[k + 1] = dt[After(nx, h, ((i + 1) + k) - 1)]
    <3> TAKE k \in 1..(n - i - 1)
    <3>1. k + 1 \in 1..(n - i) /\ (i + (k + 1)) - 1 = ((i + 1) + k) - 1
      BY <1>1
    <3> QED BY <1>2, <3>1
  <2>4. Msgs(nx, dt, h, i + 1, n) = [k \in 1..(n - i - 1) |-> dt[After(nx, h, ((i + 1) + k) - 1)]]
    BY <2>1 DEF Msgs
  <2> QED BY <2>2, <2>3, <2>4
<1> QED BY <1>4, <1>5, <1>6 DEF s

\* The same for the whole list,
LEMMA MsgsWhole ==
    ASSUME NEW nx, NEW dt, NEW h, NEW n \in Nat
    PROVE  /\ Len(Msgs(nx, dt, h, 0, n)) = n
           /\ Msgs(nx, dt, h, 0, n) = <<>> <=> n = 0
           /\ n # 0 => Tail(Msgs(nx, dt, h, 0, n)) = Msgs(nx, dt, h, 1, n)
<1>1. PICK i \in 0..n : i = 0
  OBVIOUS
<1>2. /\ Len(Msgs(nx, dt, h, i, n)) = n - i
      /\ Msgs(nx, dt, h, i, n) = <<>> <=> i = n
      /\ i # n => Tail(Msgs(nx, dt, h, i, n)) = Msgs(nx, dt, h, i + 1, n)
  BY MsgsShape
<1>3. n - i = n /\ i + 1 = 1
  BY <1>1
<1> QED BY <1>1, <1>2, <1>3

\* for a place before the end,
LEMMA MsgsTail ==
    ASSUME NEW nx, NEW dt, NEW h, NEW n \in Nat, NEW i \in 0..(n - 1)
    PROVE  /\ Tail(Msgs(nx, dt, h, i, n)) = Msgs(nx, dt, h, i + 1, n)
           /\ Msgs(nx, dt, h, i, n) # <<>>
<1>1. i \in 0..n /\ i # n
  OBVIOUS
<1> QED BY <1>1, MsgsShape

\* and at the end.
LEMMA MsgsNone ==
    ASSUME NEW nx, NEW dt, NEW h, NEW n \in Nat
    PROVE  Msgs(nx, dt, h, n, n) = <<>>
<1>1. PICK i \in 0..n : i = n
  OBVIOUS
<1> QED BY <1>1, MsgsShape

\* What is left from a later place on is not the whole list: how pop tells an
\* iterator at the message it removes from the others.
LEMMA MsgsShorter ==
    ASSUME NEW nx, NEW dt, NEW h, NEW n \in Nat, NEW i \in 1..n
    PROVE  Msgs(nx, dt, h, i, n) # Msgs(nx, dt, h, 0, n)
<1>1. Len(Msgs(nx, dt, h, i, n)) = n - i
  BY MsgsShape
<1>2. Len(Msgs(nx, dt, h, 0, n)) = n /\ n - i # n
  BY MsgsWhole
<1> QED BY <1>1, <1>2

\* The first n messages of two lists are equal.
Agree(nx, dt, h, mx, et, g, n) ==
    \A j \in 0..(n - 1) : et[After(mx, g, j)] = dt[After(nx, h, j)]

\* Lists with equal messages.
LEMMA MsgsSame ==
    ASSUME NEW nx, NEW dt, NEW h, NEW mx, NEW et, NEW g, NEW n \in Nat, NEW i \in 0..n,
           Agree(nx, dt, h, mx, et, g, n)
    PROVE  Msgs(mx, et, g, i, n) = Msgs(nx, dt, h, i, n)
<1>1. \A k \in 1..(n - i) : et[After(mx, g, (i + k) - 1)] = dt[After(nx, h, (i + k) - 1)]
  <2> TAKE k \in 1..(n - i)
  <2>1. (i + k) - 1 \in 0..(n - 1)
    OBVIOUS
  <2> QED BY <2>1 DEF Agree
<1> QED BY <1>1 DEF Msgs

\* The walk from g follows the walk from h, one link ahead.
Behind(nx, h, g) == \A j \in Nat : After(nx, g, j) = After(nx, h, j + 1)

\* The list without its first cell.
LEMMA MsgsShift ==
    ASSUME NEW nx, NEW dt, NEW h, NEW g, NEW n \in Nat \ {0}, NEW i \in 0..(n - 1),
           Behind(nx, h, g)
    PROVE  Msgs(nx, dt, g, i, n - 1) = Msgs(nx, dt, h, i + 1, n)
<1>1. (n - 1) - i = n - (i + 1)
  OBVIOUS
<1>2. \A k \in 1..(n - (i + 1)) : After(nx, g, (i + k) - 1) = After(nx, h, ((i + 1) + k) - 1)
  <2> TAKE k \in 1..(n - (i + 1))
  <2>1. (i + k) - 1 \in Nat /\ ((i + k) - 1) + 1 = ((i + 1) + k) - 1
    OBVIOUS
  <2> QED BY <2>1 DEF Behind
<1> QED BY <1>1, <1>2 DEF Msgs

\* The list with one more cell at its end.
LEMMA MsgsAppend ==
    ASSUME NEW nx, NEW dt, NEW h, NEW mx, NEW et, NEW g, NEW n \in Nat, NEW i \in 0..n,
           Agree(nx, dt, h, mx, et, g, n)
    PROVE  Msgs(mx, et, g, i, n + 1) = Append(Msgs(nx, dt, h, i, n), et[After(mx, g, n)])
<1> DEFINE msg == et[After(mx, g, n)]
           s == Msgs(nx, dt, h, i, n)
           S == {s[k] : k \in 1..(n - i)} \cup {msg}
           t == Msgs(mx, et, g, i, n + 1)
<1>1. n - i \in Nat /\ (n + 1) - i = (n - i) + 1
  OBVIOUS
<1>2. /\ s = [k \in 1..(n - i) |-> dt[After(nx, h, (i + k) - 1)]]
      /\ t = [k \in 1..((n - i) + 1) |-> et[After(mx, g, (i + k) - 1)]]
  BY <1>1 DEF Msgs
<1>3. s \in [1..(n - i) -> S] /\ msg \in S
  BY <1>2
<1> HIDE DEF s, S, t, msg
<1>4. s \in Seq(S) /\ Len(s) = n - i
  BY <1>1, <1>3
<1>5. Append(s, msg) = [k \in 1..((n - i) + 1) |-> IF k = (n - i) + 1 THEN msg ELSE s[k]]
  <2>1. Append(s, msg) \in Seq(S) /\ Len(Append(s, msg)) = (n - i) + 1
    BY <1>3, <1>4
  <2>2. Append(s, msg) \in [1..((n - i) + 1) -> S]
    BY <2>1, SeqIsFunction, Zenon
  <2>3. \A k \in 1..((n - i) + 1) : Append(s, msg)[k] = IF k = (n - i) + 1 THEN msg ELSE s[k]
    BY <1>1, <1>3, <1>4
  <2> QED BY <2>2, <2>3
<1>6. ASSUME NEW k \in 1..((n - i) + 1)
      PROVE  et[After(mx, g, (i + k) - 1)] = IF k = (n - i) + 1 THEN msg ELSE s[k]
  <2>1. CASE k = (n - i) + 1
    <3>1. (i + k) - 1 = n
      BY <2>1
    <3> QED BY <2>1, <3>1 DEF msg
  <2>2. CASE k # (n - i) + 1
    <3>1. k \in 1..(n - i) /\ (i + k) - 1 \in 0..(n - 1)
      BY <1>1, <2>2
    <3> QED BY <1>2, <2>2, <3>1 DEF Agree
  <2> QED BY <2>1, <2>2
<1> QED BY <1>2, <1>5, <1>6 DEF s, t, msg

\* Walking on from the i-th cell.
LEMMA AfterPlus ==
    ASSUME NEW nx \in [Cells -> Link], NEW h \in Link, NEW i \in Nat, NEW k \in Nat
    PROVE  After(nx, After(nx, h, i), k) = After(nx, h, i + k)
<1> DEFINE c == After(nx, h, i)
           Bad == {j \in Nat : After(nx, c, j) # After(nx, h, i + j)}
<1> SUFFICES ASSUME Bad # {} PROVE FALSE
  OBVIOUS
<1>1. Bad \in SUBSET Nat /\ c \in Link
  BY AfterRec
<1>2. /\ After(nx, c, 0) = c
      /\ \A j \in Nat : After(nx, c, j) # NULL => After(nx, c, j + 1) = nx[After(nx, c, j)]
      /\ \A j \in Nat : After(nx, c, j) = NULL => After(nx, c, j + 1) = NULL
  <2> HIDE DEF c
  <2> QED BY <1>1, AfterRec
<1>3. /\ \A j \in Nat : After(nx, h, j) # NULL => After(nx, h, j + 1) = nx[After(nx, h, j)]
      /\ \A j \in Nat : After(nx, h, j) = NULL => After(nx, h, j + 1) = NULL
  BY AfterRec
<1> HIDE DEF Bad
<1>4. PICK j \in Bad : \A y \in Bad : j <= y
  BY <1>1, LeastNatural
<1>5. j \in Nat /\ After(nx, c, j) # After(nx, h, i + j)
  BY DEF Bad
<1>6. j # 0
  <2>1. i + 0 = i
    OBVIOUS
  <2> QED BY <1>2, <1>5, <2>1
<1>7. /\ j - 1 \in Nat /\ j - 1 \notin Bad /\ (j - 1) + 1 = j
      /\ i + (j - 1) \in Nat /\ (i + (j - 1)) + 1 = i + j
  BY <1>1, <1>4, <1>5, <1>6
<1>8. After(nx, c, j - 1) = After(nx, h, i + (j - 1))
  BY <1>7 DEF Bad
<1>9. CASE After(nx, c, j - 1) = NULL
  BY <1>2, <1>3, <1>5, <1>7, <1>8, <1>9
<1>10. CASE After(nx, c, j - 1) # NULL
  BY <1>2, <1>3, <1>5, <1>7, <1>8, <1>10
<1> QED BY <1>9, <1>10

\* The abstract contents, link by link.
ContentExact ==
    Content = [q \in Queues |-> IF q \in alive THEN Msgs(next_, data_, head_[q], 0, size_[q]) ELSE <<>>]

\* The abstract iterator: at the end, or i links into queue q.
CursorExact ==
    /\ it = NULL => Cursor = Fifo!End
    /\ \A q \in alive : \A i \in 0..(size_[q] - 1) :
          it = After(next_, head_[q], i)
              => Cursor = [queue |-> q, rest |-> Msgs(next_, data_, head_[q], i, size_[q])]

\* What a walk from the i-th cell of a queue reads.
LEMMA DataOfWalk ==
    ASSUME IInv, NEW q \in alive, NEW i \in 0..size_[q]
    PROVE  DataFrom(After(next_, head_[q], i)) = Msgs(next_, data_, head_[q], i, size_[q])
<1> USE DEF IInv
<1> DEFINE n == size_[q]
           c == After(next_, head_[q], i)
<1>1. /\ n \in Nat /\ head_[q] \in Link /\ next_ \in [Cells -> Link]
      /\ After(next_, head_[q], n) = NULL
      /\ \A j \in 0..(n - 1) : After(next_, head_[q], j) \in allocated
      /\ NULL \notin allocated
  BY Ends, NullAssumption DEF HeapInv, Lists, IsList, TypeOK
<1>2. n <= Cardinality(Cells) /\ Cardinality(Cells) \in Nat
  BY Room, HeapAssumption, FS_CardinalityType
<1>3. \A k \in Nat : After(next_, c, k) = After(next_, head_[q], i + k)
  BY <1>1, AfterPlus
<1>4. n - i \in Nat /\ n - i <= Cardinality(Cells) /\ i + (n - i) = n
  BY <1>1, <1>2
<1>5. After(next_, c, n - i) = NULL
  BY <1>1, <1>3, <1>4
<1>6. \A k \in 0..((n - i) - 1) : After(next_, c, k) # NULL
  <2> TAKE k \in 0..((n - i) - 1)
  <2>1. k \in Nat /\ i + k \in 0..(n - 1)
    BY <1>1
  <2> QED BY <1>1, <1>3, <2>1
<1>7. Walk(next_, c) = [k \in 1..(n - i) |-> After(next_, c, k - 1)]
  <2> HIDE DEF c, n
  <2> QED BY <1>4, <1>5, <1>6, WalkList
<1>8. \A k \in 1..(n - i) : After(next_, c, k - 1) = After(next_, head_[q], (i + k) - 1)
  <2> TAKE k \in 1..(n - i)
  <2>1. k - 1 \in Nat /\ i + (k - 1) = (i + k) - 1
    OBVIOUS
  <2> QED BY <1>3, <2>1
<1>9. CellsFrom(c) = [k \in 1..(n - i) |-> After(next_, head_[q], (i + k) - 1)]
  <2>1. CellsFrom(c) = Walk(next_, c)
    BY CellsFromWalk
  <2> HIDE DEF c, n
  <2> QED BY <1>7, <1>8, <2>1
<1> HIDE DEF c, n
<1>10. DataFrom(c) = [k \in 1..(n - i) |-> data_[After(next_, head_[q], (i + k) - 1)]]
  BY <1>9 DEF DataFrom
<1> QED BY <1>10 DEF Msgs, c, n

\* DataFrom reads the messages of every queue in order.
LEMMA ContentIs == IInv => ContentExact
<1> SUFFICES ASSUME IInv PROVE ContentExact
  OBVIOUS
<1>1. ASSUME NEW q \in alive
      PROVE  DataFrom(head_[q]) = Msgs(next_, data_, head_[q], 0, size_[q])
  <2>1. 0 \in 0..size_[q] /\ After(next_, head_[q], 0) = head_[q]
    BY Ends DEF IInv, HeapInv
  <2> QED BY <2>1, DataOfWalk
<1> QED BY <1>1 DEF ContentExact, Content

\* Cursor is the place the iterator is at: exactly one queue has its cell.
LEMMA CursorIs == IInv => CursorExact
<1> SUFFICES ASSUME IInv PROVE CursorExact
  OBVIOUS
<1> USE DEF IInv
<1>1. ASSUME it = NULL PROVE Cursor = Fifo!End
  <2>1. After(next_, NULL, 0) = NULL
    BY AfterRec DEF TypeOK, Link
  <2>2. Walk(next_, NULL) = [i \in 1..0 |-> After(next_, NULL, i - 1)]
    <3>1. 0 <= Cardinality(Cells)
      BY HeapAssumption, FS_CardinalityType
    <3> QED BY <2>1, <3>1, WalkList
  <2>3. CellsFrom(NULL) = [i \in 1..0 |-> After(next_, NULL, i - 1)]
    BY <2>2, CellsFromWalk
  <2>4. DataFrom(NULL) = <<>>
    BY <2>3 DEF DataFrom
  <2> QED BY <1>1, <2>4 DEF Cursor, Fifo!End
<1>2. ASSUME NEW q \in alive, NEW i \in 0..(size_[q] - 1), it = After(next_, head_[q], i)
      PROVE  Cursor = [queue |-> q, rest |-> Msgs(next_, data_, head_[q], i, size_[q])]
  <2>1. it # NULL
    BY <1>2, NullAssumption DEF HeapInv, Lists, IsList, TypeOK
  <2>2. q \in alive /\ it \in Range(CellsFrom(head_[q]))
    BY <1>2, QueueRange
  <2>3. \A p \in alive : it \in Range(CellsFrom(head_[p])) => p = q
    BY <1>2, QueueRange DEF HeapInv, Separate
  <2>4. (CHOOSE p \in alive : it \in Range(CellsFrom(head_[p]))) = q
    BY <2>2, <2>3
  <2>5. DataFrom(it) = Msgs(next_, data_, head_[q], i, size_[q])
    <3>1. i \in 0..size_[q]
      BY DEF TypeOK
    <3> QED BY <1>2, <3>1, DataOfWalk
  <2> QED BY <2>1, <2>4, <2>5 DEF Cursor
<1> QED BY <1>1, <1>2 DEF CursorExact

\* The same after a step.
LEMMA ContentIsNext == IInv' => ContentExact'
BY ContentIs, PTL

\* The same after a step.
LEMMA CursorIsNext == IInv' => CursorExact'
BY CursorIs, PTL

-----------------------------------------------------------------------------
(* The refinement of FifoQueue: every step is one of the abstract queues *)

\* What the abstract state is, before and after a step.
LEMMA Abstract ==
    ASSUME IInv
    PROVE  /\ Content \in [Queues -> {Content[x] : x \in Queues}]
           /\ \A x \in alive : Content[x] = Msgs(next_, data_, head_[x], 0, size_[x])
           /\ \A x \in Queues \ alive : Content[x] = <<>>
           /\ it = NULL => Cursor = [queue |-> NoQueue, rest |-> <<>>]
           /\ \A x \in alive : \A i \in 0..(size_[x] - 1) :
                 it = After(next_, head_[x], i)
                     => Cursor = [queue |-> x, rest |-> Msgs(next_, data_, head_[x], i, size_[x])]
           /\ it # NULL => \E x \in alive : \E i \in 0..(size_[x] - 1) : it = After(next_, head_[x], i)
<1>1. ContentExact /\ CursorExact
  BY ContentIs, CursorIs
<1>2. alive \subseteq Queues
  BY DEF IInv, TypeOK
<1>3. it # NULL => \E x \in alive : \E i \in 0..(size_[x] - 1) : it = After(next_, head_[x], i)
  BY DEF IInv, HeapInv, Reached
<1> QED BY <1>1, <1>2, <1>3 DEF ContentExact, CursorExact, Fifo!End

\* The same after a step.
LEMMA AbstractNext ==
    ASSUME IInv'
    PROVE  /\ Content' \in [Queues -> {Content'[x] : x \in Queues}]
           /\ \A x \in alive' : Content'[x] = Msgs(next_', data_', head_'[x], 0, size_'[x])
           /\ \A x \in Queues \ alive' : Content'[x] = <<>>
           /\ it' = NULL => Cursor' = [queue |-> NoQueue, rest |-> <<>>]
           /\ \A x \in alive' : \A i \in 0..(size_'[x] - 1) :
                 it' = After(next_', head_'[x], i)
                     => Cursor' = [queue |-> x, rest |-> Msgs(next_', data_', head_'[x], i, size_'[x])]
<1>1. ContentExact' /\ CursorExact'
  BY ContentIsNext, CursorIsNext
<1>2. alive' \subseteq Queues
  BY DEF IInv, TypeOK
<1> QED BY <1>1, <1>2 DEF ContentExact, CursorExact, Fifo!End

\* push adds its message behind the others, also for an iterator in the queue.
LEMMA PushSimulates ==
    ASSUME IInv, IInv', NEW q \in Queues, NEW msg \in Data, Push(q, msg)
    PROVE  Fifo!Push(q, msg)
<1> DEFINE n == size_[q]
<1>0. PICK c \in Cells : PushCell(q, msg, c)
  BY PushIsPushCell
<1>1. /\ q \in alive /\ c \notin allocated /\ alive' = alive /\ it' = it /\ alive \subseteq Queues
      /\ data_'[c] = msg /\ \A d \in allocated : data_'[d] = data_[d]
      /\ size_'[q] = n + 1 /\ \A x \in alive : x # q => size_'[x] = size_[x]
  BY <1>0 DEF PushCell, CreateMessage, IInv, TypeOK
<1>2. \A x \in alive : size_[x] \in Nat
                       /\ \A i \in 0..(size_[x] - 1) : After(next_, head_[x], i) \in allocated
  BY <1>1 DEF IInv, TypeOK, HeapInv, Lists, IsList
<1>3. /\ \A x \in alive : x # q =>
            \A i \in 0..size_[x] : After(next_', head_'[x], i) = After(next_, head_[x], i)
      /\ \A i \in 0..(n - 1) : After(next_', head_'[q], i) = After(next_, head_[q], i)
      /\ After(next_', head_'[q], n) = c
  BY <1>0, PushWalk DEF IInv
<1>4. ASSUME NEW x \in alive, x # q, NEW i \in 0..size_[x]
      PROVE  Msgs(next_', data_', head_'[x], i, size_'[x]) = Msgs(next_, data_, head_[x], i, size_[x])
  <2>1. Agree(next_, data_, head_[x], next_', data_', head_'[x], size_[x])
    <3>1. \A j \in 0..(size_[x] - 1) : j \in 0..size_[x]
      BY <1>2
    <3> QED BY <1>1, <1>2, <1>3, <1>4, <3>1 DEF Agree
  <2>2. size_[x] \in Nat /\ size_'[x] = size_[x]
    BY <1>1, <1>2, <1>4
  <2> QED BY <2>1, <2>2, MsgsSame
<1>5. ASSUME NEW i \in 0..n
      PROVE  Msgs(next_', data_', head_'[q], i, size_'[q]) = Append(Msgs(next_, data_, head_[q], i, n), msg)
  <2>1. Agree(next_, data_, head_[q], next_', data_', head_'[q], n)
    BY <1>1, <1>2, <1>3 DEF Agree
  <2>2. n \in Nat /\ size_'[q] = n + 1 /\ data_'[After(next_', head_'[q], n)] = msg
    BY <1>1, <1>2, <1>3
  <2>3. i \in 0..n
    OBVIOUS
  <2> HIDE DEF n
  <2>4. Msgs(next_', data_', head_'[q], i, n + 1)
            = Append(Msgs(next_, data_, head_[q], i, n), data_'[After(next_', head_'[q], n)])
    BY ONLY <2>1, <2>2, <2>3, MsgsAppend
  <2> QED BY <2>2, <2>4
<1>6. Content' = [Content EXCEPT ![q] = Append(@, msg)]
  <2>1. \A x \in Queues : Content'[x] = IF x = q THEN Append(Content[q], msg) ELSE Content[x]
    <3> TAKE x \in Queues
    <3>1. CASE x \notin alive
      BY <1>1, <3>1, Abstract, AbstractNext
    <3>2. CASE x \in alive /\ x # q
      <4>1. 0 \in 0..size_[x]
        BY <1>2, <3>2
      <4> QED BY <1>1, <1>4, <3>2, <4>1, Abstract, AbstractNext
    <3>3. CASE x = q
      <4>1. 0 \in 0..n
        BY <1>1, <1>2
      <4> QED BY <1>1, <1>5, <3>3, <4>1, Abstract, AbstractNext
    <3> QED BY <3>1, <3>2, <3>3
  <2>2. /\ Content \in [Queues -> {Content[x] : x \in Queues}]
        /\ Content' \in [Queues -> {Content'[x] : x \in Queues}]
    BY Abstract, AbstractNext
  <2> QED BY <2>1, <2>2
<1>7. Cursor' = IF Cursor.queue = q THEN [Cursor EXCEPT !.rest = Append(@, msg)] ELSE Cursor
  <2>1. CASE it = NULL
    BY <1>1, <2>1, NullAssumption, Abstract, AbstractNext, SMTT(60)
  <2>2. CASE it # NULL
    <3>1. PICK x \in alive : \E i \in 0..(size_[x] - 1) : it = After(next_, head_[x], i)
      BY <2>2, Abstract
    <3>2. PICK i \in 0..(size_[x] - 1) : it = After(next_, head_[x], i)
      BY <3>1
    <3>3. i \in 0..size_[x] /\ i \in 0..(size_'[x] - 1)
      BY <1>1, <1>2
    <3>4. Cursor = [queue |-> x, rest |-> Msgs(next_, data_, head_[x], i, size_[x])]
      BY <3>2, Abstract
    <3>5. it' = After(next_', head_'[x], i)
      BY <1>1, <1>3, <3>2, <3>3
    <3>6. Cursor' = [queue |-> x, rest |-> Msgs(next_', data_', head_'[x], i, size_'[x])]
      BY <1>1, <3>3, <3>5, AbstractNext
    <3>7. CASE x = q
      BY <1>5, <3>3, <3>4, <3>6, <3>7
    <3>8. CASE x # q
      BY <1>4, <3>3, <3>4, <3>6, <3>8
    <3> QED BY <3>7, <3>8
  <2> QED BY <2>1, <2>2
<1> QED BY <1>1, <1>6, <1>7 DEF Fifo!Push

\* pop takes the oldest message, if there is one; an iterator at it is given up.
LEMMA PopSimulates ==
    ASSUME IInv, IInv', NEW q \in Queues, Pop(q)
    PROVE  Fifo!Pop(q)
<1> DEFINE n == size_[q]
<1>1. q \in alive /\ alive' = alive /\ alive \subseteq Queues /\ n \in Nat /\ data_' = data_ /\ next_' = next_
  BY DEF Pop, IInv, TypeOK
<1>2. /\ Content \in [Queues -> {Content[x] : x \in Queues}]
      /\ Content' \in [Queues -> {Content'[x] : x \in Queues}]
      /\ Content[q] = Msgs(next_, data_, head_[q], 0, n)
  BY <1>1, Abstract, AbstractNext
<1>3. CASE head_[q] = NULL
  <2>1. UNCHANGED vars /\ n = 0
    BY <1>1, <1>3, Ends DEF Pop, vars, IInv, HeapInv
  <2>2. Content' = Content
    <3>1. \A x \in Queues : Content'[x] = Content[x]
      BY <1>1, <2>1, Abstract, AbstractNext DEF vars
    <3> QED BY <1>2, <3>1
  <2>3. Cursor' = Cursor /\ Cursor.queue # q
    <3>1. CASE it = NULL
      BY <2>1, <3>1, Abstract, AbstractNext, NullAssumption DEF vars
    <3>2. CASE it # NULL
      <4>1. PICK x \in alive : \E i \in 0..(size_[x] - 1) : it = After(next_, head_[x], i)
        BY <3>2, Abstract
      <4>2. PICK i \in 0..(size_[x] - 1) : it = After(next_, head_[x], i)
        BY <4>1
      <4>3. Cursor = [queue |-> x, rest |-> Msgs(next_, data_, head_[x], i, size_[x])]
        BY <4>2, Abstract
      <4>4. Cursor' = [queue |-> x, rest |-> Msgs(next_, data_, head_[x], i, size_[x])]
        BY <2>1, <4>2, AbstractNext DEF vars
      <4>5. x # q
        BY <2>1, <4>2
      <4> QED BY <4>3, <4>4, <4>5
    <3> QED BY <3>1, <3>2
  <2>4. Content[q] = <<>>
    BY <1>1, <1>2, <2>1, MsgsWhole
  <2>5. Content' = [Content EXCEPT ![q] = IF @ = <<>> THEN @ ELSE Tail(@)]
    BY <1>2, <2>2, <2>4
  <2> QED BY <1>1, <2>3, <2>5 DEF Fifo!Pop
<1>4. CASE head_[q] # NULL
  <2>1. /\ n # 0 /\ Behind(next_, head_[q], head_'[q]) /\ size_'[q] = n - 1
        /\ it' = IF it = head_[q] THEN NULL ELSE it
        /\ \A x \in alive : x # q => size_'[x] = size_[x] /\ head_'[x] = head_[x]
    <3>1. n # 0 /\ \A i \in Nat : After(next_', head_'[q], i) = After(next_, head_[q], i + 1)
      BY <1>4, PopStep DEF IInv
    <3>2. Behind(next_, head_[q], head_'[q])
      BY <1>1, <3>1 DEF Behind
    <3> QED BY <1>1, <1>4, <3>1, <3>2 DEF Pop, DestroyMessages, IInv, TypeOK
  <2>2. \A i \in 0..(n - 1) :
          Msgs(next_, data_, head_'[q], i, n - 1) = Msgs(next_, data_, head_[q], i + 1, n)
    <3>1. n \in Nat \ {0}
      BY <1>1, <2>1
    <3> HIDE DEF n
    <3> QED BY <2>1, <3>1, MsgsShift
  <2>3. head_[q] = After(next_, head_[q], 0) /\ 0 \in 0..(n - 1) /\ 0 \in 0..n /\ n # 0
    BY <1>1, <2>1, Ends DEF IInv, HeapInv
  <2>4. Content[q] # <<>> /\ Tail(Content[q]) = Msgs(next_, data_, head_[q], 1, n)
    BY <1>1, <1>2, <2>3, MsgsWhole
  <2>5. Content' = [Content EXCEPT ![q] = IF @ = <<>> THEN @ ELSE Tail(@)]
    <3>1. Content'[q] = Tail(Content[q])
      <4>1. Msgs(next_, data_, head_'[q], 0, n - 1) = Msgs(next_, data_, head_[q], 0 + 1, n)
        BY <2>2, <2>3
      <4>2. Content'[q] = Msgs(next_, data_, head_'[q], 0, n - 1)
        BY <1>1, <2>1, AbstractNext
      <4>3. 0 + 1 = 1
        OBVIOUS
      <4> HIDE DEF n
      <4> QED BY <2>4, <4>1, <4>2, <4>3
    <3>2. \A x \in Queues : x # q => Content'[x] = Content[x]
      BY <1>1, <2>1, Abstract, AbstractNext
    <3> QED BY <1>2, <2>4, <3>1, <3>2
  <2>6. Cursor' = IF Cursor.queue = q /\ Cursor.rest = Content[q] THEN Fifo!End ELSE Cursor
    <3>1. CASE it = NULL
      <4>1. it' = NULL
        BY <2>1, <3>1
      <4>2. Cursor = [queue |-> NoQueue, rest |-> <<>>] /\ Cursor' = [queue |-> NoQueue, rest |-> <<>>]
        BY <3>1, <4>1, Abstract, AbstractNext
      <4>3. Cursor.queue # q
        BY <4>2, NullAssumption
      <4> QED BY <4>2, <4>3
    <3>2. CASE it # NULL
      <4>1. PICK x \in alive : \E i \in 0..(size_[x] - 1) : it = After(next_, head_[x], i)
        BY <3>2, Abstract
      <4>2. PICK i \in 0..(size_[x] - 1) : it = After(next_, head_[x], i)
        BY <4>1
      <4>3. Cursor = [queue |-> x, rest |-> Msgs(next_, data_, head_[x], i, size_[x])]
        BY <4>2, Abstract
      <4>4. it = head_[q] <=> x = q /\ i = 0
        BY <1>1, <2>3, <4>2 DEF IInv, HeapInv, Separate
      <4>5. CASE x # q
        <5>1. Cursor' = [queue |-> x, rest |-> Msgs(next_, data_, head_[x], i, size_[x])]
          BY <1>1, <2>1, <4>2, <4>4, <4>5, AbstractNext
        <5> QED BY <4>3, <4>5, <5>1
      <4>6. CASE x = q /\ i = 0
        BY <1>2, <2>1, <4>3, <4>4, <4>6, AbstractNext DEF Fifo!End
      <4>7. CASE x = q /\ i # 0
        <5>1. i - 1 \in 0..(n - 1) /\ i - 1 \in Nat /\ (i - 1) + 1 = i /\ i - 1 \in 0..((n - 1) - 1) /\ i \in 0..n
          BY <1>1, <4>2, <4>7
        <5>2. it' = After(next_, head_'[q], i - 1)
          BY <2>1, <4>2, <4>4, <4>7, <5>1 DEF Behind
        <5>3. Cursor' = [queue |-> q, rest |-> Msgs(next_, data_, head_'[q], i - 1, n - 1)]
          BY <1>1, <2>1, <5>1, <5>2, AbstractNext
        <5>4. Cursor' = [queue |-> q, rest |-> Msgs(next_, data_, head_[q], i, n)]
          BY <2>2, <5>1, <5>3
        <5>5. Cursor.rest # Content[q]
          <6>1. n \in Nat /\ i \in 1..n
            BY <1>1, <4>7, <5>1
          <6>2. Msgs(next_, data_, head_[q], i, n) # Msgs(next_, data_, head_[q], 0, n)
            BY <6>1, MsgsShorter
          <6> QED BY <1>2, <4>3, <4>7, <6>2
        <5> QED BY <4>3, <4>7, <5>4, <5>5
      <4> QED BY <4>5, <4>6, <4>7
    <3> QED BY <3>1, <3>2
  <2> QED BY <1>1, <2>5, <2>6 DEF Fifo!Pop
<1> QED BY <1>3, <1>4

\* A new queue is empty.
LEMMA ConstructSimulates ==
    ASSUME IInv, IInv', NEW q \in Queues, Construct(q)
    PROVE  Fifo!Construct(q)
<1>1. /\ q \notin alive /\ alive' = alive \cup {q} /\ alive \subseteq Queues
      /\ data_' = data_ /\ next_' = next_ /\ it' = it /\ size_'[q] = 0
      /\ \A x \in alive : x # q /\ size_'[x] = size_[x] /\ head_'[x] = head_[x]
  BY DEF Construct, IInv, TypeOK
<1>2. Content' = Content
  <2>1. Content'[q] = <<>>
    BY <1>1, AbstractNext, MsgsWhole
  <2>2. \A x \in Queues : Content'[x] = Content[x]
    BY <1>1, <2>1, Abstract, AbstractNext
  <2> QED BY <2>2, Abstract, AbstractNext
<1>3. Cursor' = Cursor
  <2>1. CASE it = NULL
    BY <1>1, <2>1, Abstract, AbstractNext
  <2>2. CASE it # NULL
    <3>1. PICK x \in alive : \E i \in 0..(size_[x] - 1) : it = After(next_, head_[x], i)
      BY <2>2, Abstract
    <3>2. PICK i \in 0..(size_[x] - 1) : it = After(next_, head_[x], i)
      BY <3>1
    <3>3. Cursor = [queue |-> x, rest |-> Msgs(next_, data_, head_[x], i, size_[x])]
      BY <3>2, Abstract
    <3>4. Cursor' = [queue |-> x, rest |-> Msgs(next_, data_, head_[x], i, size_[x])]
      BY <1>1, <3>2, AbstractNext
    <3> QED BY <3>3, <3>4
  <2> QED BY <2>1, <2>2
<1> QED BY <1>1, <1>2, <1>3 DEF Fifo!Construct

\* A queue constructed from another takes its messages, and the iterator goes
\* with them.
LEMMA MoveConstructSimulates ==
    ASSUME IInv, IInv', NEW q \in Queues, NEW o \in Queues, MoveConstruct(q, o)
    PROVE  Fifo!MoveConstruct(q, o)
<1>1. /\ q \notin alive /\ o \in alive /\ alive' = alive \cup {q} /\ alive \subseteq Queues
      /\ data_' = data_ /\ next_' = next_ /\ it' = it
      /\ size_'[q] = size_[o] /\ head_'[q] = head_[o] /\ size_'[o] = 0
      /\ \A x \in alive : x # o => size_'[x] = size_[x] /\ head_'[x] = head_[x]
  BY DEF MoveConstruct, IInv, TypeOK
<1>2. Content' = [Content EXCEPT ![q] = Content[o], ![o] = <<>>]
  <2>1. Content'[o] = <<>>
    BY <1>1, AbstractNext, MsgsWhole
  <2>2. Content'[q] = Content[o]
    BY <1>1, Abstract, AbstractNext
  <2>3. \A x \in Queues : x # q /\ x # o => Content'[x] = Content[x]
    BY <1>1, Abstract, AbstractNext
  <2>4. /\ Content \in [Queues -> {Content[x] : x \in Queues}]
        /\ Content' \in [Queues -> {Content'[x] : x \in Queues}]
    BY Abstract, AbstractNext
  <2> QED BY <1>1, <2>1, <2>2, <2>3, <2>4
<1>3. Cursor' = IF Cursor.queue = o THEN [Cursor EXCEPT !.queue = q] ELSE Cursor
  <2>1. CASE it = NULL
    <3>1. Cursor = [queue |-> NoQueue, rest |-> <<>>] /\ Cursor' = [queue |-> NoQueue, rest |-> <<>>]
      BY <1>1, <2>1, Abstract, AbstractNext
    <3>2. Cursor.queue # o
      BY <3>1, NullAssumption
    <3> QED BY <3>1, <3>2
  <2>2. CASE it # NULL
    <3>1. PICK x \in alive : \E i \in 0..(size_[x] - 1) : it = After(next_, head_[x], i)
      BY <2>2, Abstract
    <3>2. PICK i \in 0..(size_[x] - 1) : it = After(next_, head_[x], i)
      BY <3>1
    <3>3. Cursor = [queue |-> x, rest |-> Msgs(next_, data_, head_[x], i, size_[x])]
      BY <3>2, Abstract
    <3>4. CASE x # o
      <4>1. Cursor' = [queue |-> x, rest |-> Msgs(next_, data_, head_[x], i, size_[x])]
        BY <1>1, <3>2, <3>4, AbstractNext
      <4> QED BY <3>3, <3>4, <4>1
    <3>5. CASE x = o
      <4>1. Cursor' = [queue |-> q, rest |-> Msgs(next_, data_, head_[x], i, size_[x])]
        BY <1>1, <3>2, <3>5, AbstractNext
      <4> QED BY <3>3, <3>5, <4>1
    <3> QED BY <3>4, <3>5
  <2> QED BY <2>1, <2>2
<1> QED BY <1>1, <1>2, <1>3 DEF Fifo!MoveConstruct, Fifo!Follow

\* Assignment exchanges the messages of two queues, and the iterator goes with them.
LEMMA MoveAssignSimulates ==
    ASSUME IInv, IInv', NEW q \in Queues, NEW o \in Queues, MoveAssign(q, o)
    PROVE  Fifo!MoveAssign(q, o)
<1>1. /\ q \in alive /\ o \in alive /\ alive' = alive /\ alive \subseteq Queues
      /\ data_' = data_ /\ next_' = next_ /\ it' = it
      /\ size_'[q] = size_[o] /\ head_'[q] = head_[o] /\ size_'[o] = size_[q] /\ head_'[o] = head_[q]
      /\ \A x \in alive : x # o /\ x # q => size_'[x] = size_[x] /\ head_'[x] = head_[x]
  BY DEF MoveAssign, IInv, TypeOK
<1>2. Content' = [Content EXCEPT ![q] = Content[o], ![o] = Content[q]]
  <2>1. Content'[o] = Content[q] /\ Content'[q] = Content[o]
    BY <1>1, Abstract, AbstractNext
  <2>2. \A x \in Queues : x # q /\ x # o => Content'[x] = Content[x]
    BY <1>1, Abstract, AbstractNext
  <2>3. /\ Content \in [Queues -> {Content[x] : x \in Queues}]
        /\ Content' \in [Queues -> {Content'[x] : x \in Queues}]
    BY Abstract, AbstractNext
  <2> QED BY <1>1, <2>1, <2>2, <2>3
<1>3. /\ Cursor.queue = o => Cursor' = [Cursor EXCEPT !.queue = q]
      /\ Cursor.queue = q => Cursor' = [Cursor EXCEPT !.queue = o]
      /\ Cursor.queue # o /\ Cursor.queue # q => Cursor' = Cursor
  <2>1. CASE it = NULL
    <3>1. Cursor = [queue |-> NoQueue, rest |-> <<>>] /\ Cursor' = [queue |-> NoQueue, rest |-> <<>>]
      BY <1>1, <2>1, Abstract, AbstractNext
    <3>2. Cursor.queue # o /\ Cursor.queue # q
      BY <3>1, NullAssumption
    <3> QED BY <3>1, <3>2
  <2>2. CASE it # NULL
    <3>1. PICK x \in alive : \E i \in 0..(size_[x] - 1) : it = After(next_, head_[x], i)
      BY <2>2, Abstract
    <3>2. PICK i \in 0..(size_[x] - 1) : it = After(next_, head_[x], i)
      BY <3>1
    <3>3. Cursor = [queue |-> x, rest |-> Msgs(next_, data_, head_[x], i, size_[x])]
      BY <3>2, Abstract
    <3>4. CASE x # o /\ x # q
      <4>1. Cursor' = [queue |-> x, rest |-> Msgs(next_, data_, head_[x], i, size_[x])]
        BY <1>1, <3>2, <3>4, AbstractNext
      <4> QED BY <3>3, <3>4, <4>1
    <3>5. CASE x = o
      <4>1. Cursor' = [queue |-> q, rest |-> Msgs(next_, data_, head_[x], i, size_[x])]
        BY <1>1, <3>2, <3>5, AbstractNext
      <4> QED BY <3>3, <3>5, <4>1
    <3>6. CASE x = q
      <4>1. Cursor' = [queue |-> o, rest |-> Msgs(next_, data_, head_[x], i, size_[x])]
        BY <1>1, <3>2, <3>6, AbstractNext
      <4> QED BY <3>3, <3>6, <4>1
    <3> QED BY <3>4, <3>5, <3>6
  <2> QED BY <2>1, <2>2
<1>4. Cursor' = CASE Cursor.queue = o -> [Cursor EXCEPT !.queue = q]
                  [] Cursor.queue = q -> [Cursor EXCEPT !.queue = o]
                  [] OTHER -> Cursor
  BY <1>3
<1> QED BY <1>1, <1>2, <1>4 DEF Fifo!MoveAssign

\* The messages of a destroyed queue are gone, and no others.
LEMMA DestroySimulates ==
    ASSUME IInv, IInv', NEW q \in Queues, Destroy(q)
    PROVE  Fifo!Destroy(q)
<1> DEFINE freed == Range(CellsFrom(head_[q]))
<1>1. /\ q \in alive /\ alive' = alive \ {q} /\ alive \subseteq Queues
      /\ data_' = data_ /\ next_' = next_ /\ size_' = size_ /\ head_' = head_
      /\ it' = IF it \in freed THEN NULL ELSE it
  BY DEF Destroy, DestroyMessages, IInv, TypeOK
<1>2. \A c : c \in freed <=> \E i \in 0..(size_[q] - 1) : c = After(next_, head_[q], i)
  BY <1>1, QueueRange DEF IInv
<1> HIDE DEF freed
<1>3. Content' = [Content EXCEPT ![q] = <<>>]
  <2>1. Content'[q] = <<>>
    BY <1>1, AbstractNext
  <2>2. \A x \in Queues : x # q => Content'[x] = Content[x]
    BY <1>1, Abstract, AbstractNext
  <2>3. /\ Content \in [Queues -> {Content[x] : x \in Queues}]
        /\ Content' \in [Queues -> {Content'[x] : x \in Queues}]
    BY Abstract, AbstractNext
  <2> QED BY <2>1, <2>2, <2>3
<1>4. Cursor' = IF Cursor.queue = q THEN Fifo!End ELSE Cursor
  <2>1. CASE it = NULL
    <3>1. it' = NULL
      BY <1>1, <2>1
    <3>2. Cursor = [queue |-> NoQueue, rest |-> <<>>] /\ Cursor' = [queue |-> NoQueue, rest |-> <<>>]
      BY <2>1, <3>1, Abstract, AbstractNext
    <3>3. Cursor.queue # q
      BY <3>2, NullAssumption
    <3> QED BY <3>2, <3>3
  <2>2. CASE it # NULL
    <3>1. PICK x \in alive : \E i \in 0..(size_[x] - 1) : it = After(next_, head_[x], i)
      BY <2>2, Abstract
    <3>2. PICK i \in 0..(size_[x] - 1) : it = After(next_, head_[x], i)
      BY <3>1
    <3>3. Cursor = [queue |-> x, rest |-> Msgs(next_, data_, head_[x], i, size_[x])]
      BY <3>2, Abstract
    <3>4. CASE x # q
      <4>1. it' = it
        BY <1>1, <1>2, <3>2, <3>4 DEF IInv, HeapInv, Separate
      <4>2. Cursor' = [queue |-> x, rest |-> Msgs(next_, data_, head_[x], i, size_[x])]
        BY <1>1, <3>2, <3>4, <4>1, AbstractNext
      <4> QED BY <3>3, <3>4, <4>2
    <3>5. CASE x = q
      <4>1. it' = NULL
        BY <1>1, <1>2, <3>2, <3>5
      <4> QED BY <3>3, <3>5, <4>1, AbstractNext DEF Fifo!End
    <3> QED BY <3>4, <3>5
  <2> QED BY <2>1, <2>2
<1> QED BY <1>1, <1>3, <1>4 DEF Fifo!Destroy

\* The iterator starts at the oldest message.
LEMMA BeginSimulates ==
    ASSUME IInv, IInv', NEW q \in Queues, Begin(q)
    PROVE  Fifo!Begin(q)
<1>1. /\ q \in alive /\ alive' = alive /\ alive \subseteq Queues /\ size_[q] \in Nat
      /\ data_' = data_ /\ next_' = next_ /\ size_' = size_ /\ head_' = head_
      /\ it' = head_[q]
  BY DEF Begin, IInv, TypeOK
<1>2. Content' = Content
  <2>1. \A x \in Queues : Content'[x] = Content[x]
    BY <1>1, Abstract, AbstractNext
  <2> QED BY <2>1, Abstract, AbstractNext
<1>3. Content[q] = Msgs(next_, data_, head_[q], 0, size_[q])
  BY <1>1, Abstract
<1>4. Cursor' = IF Content[q] = <<>> THEN Fifo!End ELSE [queue |-> q, rest |-> Content[q]]
  <2>1. CASE size_[q] = 0
    <3>1. it' = NULL /\ Content[q] = <<>>
      BY <1>1, <1>3, <2>1, Ends, MsgsWhole DEF IInv, HeapInv
    <3> QED BY <3>1, AbstractNext DEF Fifo!End
  <2>2. CASE size_[q] # 0
    <3>1. Content[q] # <<>>
      BY <1>1, <1>3, <2>2, MsgsWhole
    <3>2. 0 \in 0..(size_[q] - 1) /\ it' = After(next_, head_[q], 0)
      BY <1>1, <2>2, Ends DEF IInv, HeapInv
    <3>3. Cursor' = [queue |-> q, rest |-> Msgs(next_, data_, head_[q], 0, size_[q])]
      BY <1>1, <3>2, AbstractNext
    <3> QED BY <1>3, <3>1, <3>3
  <2> QED BY <2>1, <2>2
<1> QED BY <1>1, <1>2, <1>4 DEF Fifo!Begin, Fifo!AtFront

\* The iterator goes to the next message, or off the end after the last.
LEMMA AdvanceSimulates ==
    ASSUME IInv, IInv', Advance
    PROVE  Fifo!Advance
<1>1. /\ alive' = alive /\ alive \subseteq Queues
      /\ data_' = data_ /\ next_' = next_ /\ size_' = size_ /\ head_' = head_
      /\ it # NULL /\ it' = next_[it]
  BY DEF Advance, IInv, TypeOK
<1>2. Content' = Content
  <2>1. \A x \in Queues : Content'[x] = Content[x]
    BY <1>1, Abstract, AbstractNext
  <2> QED BY <2>1, Abstract, AbstractNext
<1>3. PICK x \in alive : \E i \in 0..(size_[x] - 1) : it = After(next_, head_[x], i)
  BY <1>1, Abstract
<1>4. PICK i \in 0..(size_[x] - 1) : it = After(next_, head_[x], i)
  BY <1>3
<1> DEFINE n == size_[x]
<1>5. /\ n \in Nat /\ i \in Nat /\ i \in 0..n /\ i + 1 \in 0..n /\ i # n
      /\ next_ \in [Cells -> Link] /\ head_[x] \in Link
      /\ After(next_, head_[x], n) = NULL
  BY Ends DEF IInv, HeapInv, Lists, IsList
<1>6. Cursor = [queue |-> x, rest |-> Msgs(next_, data_, head_[x], i, n)]
  BY <1>4, Abstract
<1>7. it' = After(next_, head_[x], i + 1)
  BY <1>1, <1>4, <1>5, AfterRec
<1>8. Cursor # Fifo!End
  <2>1. x # NoQueue
    BY <1>1, NullAssumption
  <2> QED BY <1>6, <2>1 DEF Fifo!End
<1>9. Tail(Msgs(next_, data_, head_[x], i, n)) = Msgs(next_, data_, head_[x], i + 1, n)
  BY <1>5, MsgsTail
<1>10. Tail(Cursor.rest) = Msgs(next_, data_, head_[x], i + 1, n)
  BY <1>6, <1>9
<1>11. Cursor' = IF Tail(Cursor.rest) = <<>> THEN Fifo!End
                 ELSE [queue |-> Cursor.queue, rest |-> Tail(Cursor.rest)]
  <2>1. CASE i + 1 = n
    <3>1. it' = NULL
      BY <1>5, <1>7, <2>1
    <3>2. Cursor' = Fifo!End
      BY <3>1, AbstractNext DEF Fifo!End
    <3>3. Msgs(next_, data_, head_[x], n, n) = <<>>
      BY <1>5, MsgsNone
    <3>4. Tail(Cursor.rest) = <<>>
      BY <1>10, <2>1, <3>3
    <3> QED BY <3>2, <3>4
  <2>2. CASE i + 1 # n
    <3>1. PICK j \in 0..(n - 1) : j = i + 1
      BY <1>5, <2>2
    <3>2. Cursor' = [queue |-> x, rest |-> Msgs(next_, data_, head_[x], j, n)]
      BY <1>1, <1>7, <3>1, AbstractNext
    <3>3. Msgs(next_, data_, head_[x], j, n) # <<>>
      BY <1>5, MsgsTail
    <3>4. Tail(Cursor.rest) = Msgs(next_, data_, head_[x], j, n)
      BY <1>10, <3>1
    <3> QED BY <1>6, <3>2, <3>3, <3>4
  <2> QED BY <2>1, <2>2
<1> QED BY <1>1, <1>2, <1>8, <1>11 DEF Fifo!Advance, Fifo!AtFront

\* The linked list implements the queues of FifoQueue, for any queues, contents
\* and finite heap: messages come out in the order they went in, whatever is moved,
\* swapped or destroyed, and an iterator goes on naming the same messages.
THEOREM ListRefinesQueues == Spec => Refinement
<1>1. Init => Fifo!Init
  <2> SUFFICES ASSUME Init PROVE Fifo!Init
    OBVIOUS
  <2>1. alive = {} /\ it = NULL
    BY DEF Init
  <2>2. Content = [q \in Queues |-> <<>>]
    BY <2>1 DEF Content
  <2>3. IInv
    <3>1. TypeOK
      BY DEF Init, TypeOK
    <3>2. HeapInv
      BY DEF Init, HeapInv, Lists, Separate, Reached
    <3> QED BY <3>1, <3>2 DEF IInv
  <2>4. Cursor = Fifo!End
    BY <2>1, <2>3, CursorIs DEF CursorExact
  <2> QED BY <2>1, <2>2, <2>4 DEF Fifo!Init
<1>2. IInv /\ IInv' /\ [Next]_vars => [Fifo!Next]_(Fifo!vars)
  <2> SUFFICES ASSUME IInv, IInv', [Next]_vars PROVE [Fifo!Next]_(Fifo!vars)
    OBVIOUS
  <2>1. CASE Next
    <3>1. ASSUME NEW q \in Queues,
                 Construct(q) \/ Pop(q) \/ Destroy(q) \/ Begin(q)
          PROVE  Fifo!Next
      BY <3>1, ConstructSimulates, PopSimulates, DestroySimulates, BeginSimulates DEF Fifo!Next
    <3>2. ASSUME NEW q \in Queues, NEW msg \in Data, Push(q, msg) PROVE Fifo!Next
      BY <3>2, PushSimulates DEF Fifo!Next
    <3>3. ASSUME NEW q \in Queues, NEW o \in Queues, MoveConstruct(q, o) \/ MoveAssign(q, o)
          PROVE  Fifo!Next
      BY <3>3, MoveConstructSimulates, MoveAssignSimulates DEF Fifo!Next
    <3>4. ASSUME Advance PROVE Fifo!Next
      BY <3>4, AdvanceSimulates DEF Fifo!Next
    <3> QED BY <2>1, <3>1, <3>2, <3>3, <3>4 DEF Next
  <2>2. CASE UNCHANGED vars
    <3>1. alive' = alive
      BY <2>2 DEF vars
    <3>2. Content' = Content
      <4>1. \A x \in Queues : Content'[x] = Content[x]
        BY <2>2, Abstract, AbstractNext DEF vars, IInv, TypeOK
      <4> QED BY <4>1, Abstract, AbstractNext
    <3>3. Cursor' = Cursor
      <4>1. CASE it = NULL
        BY <2>2, <4>1, Abstract, AbstractNext DEF vars
      <4>2. CASE it # NULL
        <5>1. PICK x \in alive : \E i \in 0..(size_[x] - 1) : it = After(next_, head_[x], i)
          BY <4>2, Abstract
        <5>2. PICK i \in 0..(size_[x] - 1) : it = After(next_, head_[x], i)
          BY <5>1
        <5>3. Cursor = [queue |-> x, rest |-> Msgs(next_, data_, head_[x], i, size_[x])]
          BY <5>2, Abstract
        <5>4. Cursor' = [queue |-> x, rest |-> Msgs(next_, data_, head_[x], i, size_[x])]
          BY <2>2, <5>2, AbstractNext DEF vars
        <5> QED BY <5>3, <5>4
      <4> QED BY <4>1, <4>2
    <3> QED BY <3>1, <3>2, <3>3 DEF Fifo!vars
  <2> QED BY <2>1, <2>2
<1>3. Spec => []IInv
  BY HeapInvariance
<1> QED BY <1>1, <1>2, <1>3, PTL DEF Spec, Refinement, Fifo!Spec
=============================================================================
