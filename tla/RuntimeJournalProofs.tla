-------------------------- MODULE RuntimeJournalProofs --------------------------
(***************************************************************************)
(* Theorems about RuntimeJournal, for every set of threads and turns, all  *)
(* offered events, every page size, retention and poison limit, and every  *)
(* bound: a row is applied once per process and in order, what is          *)
(* acknowledged was applied or given up, the caches of a restarted process *)
(* hold the text of every open turn, the defects the code throws on cannot *)
(* happen, and only rows that failed are given up.                         *)
(***************************************************************************)
EXTENDS RuntimeJournal, TLAPS, FiniteSetTheorems, WellFoundedInduction

-----------------------------------------------------------------------------
(* Sets of sequence numbers, and the operators of the model on them *)

LEMMA Smallest == ASSUME NEW S \in SUBSET Nat, S # {} PROVE \E m \in S : \A e \in S : e >= m
<1>1. PICK m \in S : \A e \in S : <<e, m>> \notin OpToRel(<, Nat)
  BY NatLessThanWellFounded, WFMin
<1>2. ASSUME NEW e \in S PROVE e >= m
  <2>1. e \in Nat /\ m \in Nat
    OBVIOUS
  <2>2. ~(e < m)
    BY <1>1, <2>1 DEF OpToRel
  <2>3. QED
    BY <2>1, <2>2
<1>3. QED
  BY <1>2

\* Max of a set of sequence numbers is its greatest member.
LEMMA MaxFacts ==
  ASSUME NEW top \in Nat, NEW S \in SUBSET (0 .. top), S # {}
  PROVE  Max(S) \in S /\ \A e \in S : e <= Max(S)
<1> DEFINE rest == {top - e : e \in S}
<1>1. \A e \in S : top - e \in Nat
  OBVIOUS
<1>2. rest \in SUBSET Nat /\ rest # {}
  BY <1>1
<1>3. PICK r \in rest : \A q \in rest : q >= r
  BY <1>2, Smallest
<1>4. PICK m \in S : r = top - m
  OBVIOUS
<1>5. ASSUME NEW e \in S PROVE m >= e
  <2>1. top - e \in rest
    OBVIOUS
  <2>2. top - e >= top - m
    BY <1>3, <1>4, <2>1
  <2>3. QED
    BY <2>2
<1>6. QED
  BY <1>5 DEF Max


LEMMA FiniteRows ==
  ASSUME NEW n \in Nat, NEW S \in SUBSET (0 .. n)
  PROVE  IsFiniteSet(S) /\ Cardinality(S) \in Nat
<1>1. IsFiniteSet(0 .. n)
  <2>1. 0 \in Int /\ n \in Int
    OBVIOUS
  <2>2. QED
    BY <2>1, FS_Interval
<1>2. IsFiniteSet(S)
  BY <1>1, FS_Subset
<1>3. QED
  BY <1>2, FS_CardinalityType

\* Counting the rows before each puts the rows of a set in order.
LEMMA OrderExists ==
  ASSUME NEW n \in Nat, NEW S \in SUBSET (0 .. n)
  PROVE  \E seq \in [1 .. Cardinality(S) -> S] : Ascending(seq)
<1> DEFINE c == Cardinality(S)
           below(r) == {q \in S : q < r}
           rank == [r \in S |-> Cardinality(below(r)) + 1]
<1>1. c \in Nat /\ IsFiniteSet(S)
  BY FiniteRows
<1>2. \A r \in S : r \in Nat
  OBVIOUS
<1>3. ASSUME NEW r \in S
      PROVE  IsFiniteSet(below(r)) /\ Cardinality(below(r)) \in Nat /\ Cardinality(below(r)) < c
  <2>1. below(r) \in SUBSET S /\ r \notin below(r)
    BY <1>2
  <2>2. IsFiniteSet(below(r)) /\ Cardinality(below(r)) <= c /\ Cardinality(below(r)) # c
    BY <1>1, <2>1, FS_Subset
  <2>3. Cardinality(below(r)) \in Nat
    BY <2>2, FS_CardinalityType
  <2>4. QED
    BY <1>1, <2>2, <2>3
<1>4. ASSUME NEW r \in S, NEW q \in S, r < q
      PROVE  Cardinality(below(r)) < Cardinality(below(q))
  <2>0. r \in Nat /\ q \in Nat
    BY <1>2
  <2>1. below(r) \in SUBSET below(q) /\ r \in below(q) /\ r \notin below(r)
    <3>1. ASSUME NEW e \in below(r) PROVE e \in below(q)
      <4>1. e \in Nat /\ e < r
        BY <1>2
      <4>2. e < q
        BY <1>4, <2>0, <4>1
      <4>3. QED
        BY <4>2
    <3>2. r \in below(q)
      BY <1>4
    <3>3. ~(r < r)
      BY <2>0
    <3>4. QED
      BY <3>1, <3>2, <3>3
  <2>2. Cardinality(below(r)) <= Cardinality(below(q)) /\ Cardinality(below(r)) # Cardinality(below(q))
    BY <1>3, <2>1, FS_Subset
  <2>3. QED
    BY <1>3, <2>2
<1>5. rank \in [S -> 1 .. c]
  <2>1. ASSUME NEW r \in S PROVE Cardinality(below(r)) + 1 \in 1 .. c
    BY <1>1, <1>3
  <2>2. QED
    BY <2>1
<1>6. \A r, q \in S : r < q => rank[r] < rank[q]
  BY <1>3, <1>4
<1>7. \A r \in S : rank[r] \in Nat
  BY <1>5
<1> HIDE DEF rank
<1>8. \A r, q \in S : rank[r] = rank[q] => r = q
  <2>1. ASSUME NEW r \in S, NEW q \in S, rank[r] = rank[q] PROVE r = q
    <3>1. ~(r < q) /\ ~(q < r)
      BY <1>6, <1>7, <2>1
    <3>2. QED
      BY <1>2, <3>1
  <2>2. QED
    BY <2>1
<1>9. rank \in Injection(S, 1 .. c)
  BY <1>5, <1>8 DEF Injection, IsInjective
<1>10. IsFiniteSet(1 .. c) /\ Cardinality(1 .. c) = c
  BY <1>1, FS_Interval
<1>11. rank \in Surjection(S, 1 .. c)
  BY <1>9, <1>10, FS_Injection
<1>12. \A i \in 1 .. c : \E r \in S : rank[r] = i
  BY <1>11 DEF Surjection
<1> DEFINE w == [i \in 1 .. c |-> CHOOSE r \in S : rank[r] = i]
<1>13. w \in [1 .. c -> S] /\ \A i \in 1 .. c : rank[w[i]] = i
  BY <1>12
<1> HIDE DEF w
<1>14. ASSUME NEW i \in 1 .. c, NEW j \in 1 .. c, i < j PROVE w[i] < w[j]
  <2>1. w[i] \in S /\ w[j] \in S /\ rank[w[i]] = i /\ rank[w[j]] = j
    BY <1>13
  <2>2. PICK a, b \in S : w[i] = a /\ w[j] = b /\ rank[a] = i /\ rank[b] = j
    BY <2>1
  <2>3. ~(b < a) /\ a # b
    <3>1. ~(rank[b] < rank[a]) /\ rank[a] # rank[b]
      BY <1>14, <2>2
    <3>2. QED
      BY <1>6, <3>1
  <2>4. a \in Nat /\ b \in Nat
    BY <1>2
  <2>5. QED
    BY <2>2, <2>3, <2>4
<1>15. DOMAIN w = 1 .. c
  BY <1>13
<1>16. Ascending(w)
  BY <1>14, <1>15 DEF Ascending
<1>17. QED
  BY <1>13, <1>16

LEMMA InOrderFacts ==
  ASSUME NEW n \in Nat, NEW S \in SUBSET (0 .. n)
  PROVE  /\ InOrder(S) \in Seq(S) /\ Len(InOrder(S)) = Cardinality(S)
         /\ Ascending(InOrder(S))
         /\ \A e \in S : \E i \in 1 .. Len(InOrder(S)) : InOrder(S)[i] = e
<1> DEFINE c == Cardinality(S)
           q == InOrder(S)
<1>0. \A e \in S : e \in Nat
  OBVIOUS
<1>1. c \in Nat /\ IsFiniteSet(S)
  BY FiniteRows
<1>2. q \in [1 .. c -> S] /\ Ascending(q)
  BY OrderExists DEF InOrder
<1> HIDE DEF q
<1>3. q \in Seq(S) /\ Len(q) = c
  BY <1>1, <1>2
<1>4. ASSUME NEW i \in 1 .. c, NEW j \in 1 .. c, q[i] = q[j] PROVE i = j
  <2>1. q[i] \in Nat /\ q[j] \in Nat
    <3>1. q[i] \in S /\ q[j] \in S
      BY <1>2
    <3>2. QED
      BY <1>0, <3>1
  <2>2. ~(i < j) /\ ~(j < i)
    BY <1>2, <1>4, <2>1 DEF Ascending
  <2>3. QED
    BY <2>2
<1>5. q \in Injection(1 .. c, S)
  BY <1>2, <1>4 DEF Injection, IsInjective
<1>6. IsFiniteSet(1 .. c) /\ Cardinality(1 .. c) = c
  BY <1>1, FS_Interval
<1>7. q \in Surjection(1 .. c, S)
  BY <1>1, <1>5, <1>6, FS_Injection
<1>8. \A e \in S : \E i \in 1 .. c : q[i] = e
  BY <1>7 DEF Surjection
<1>9. QED
  BY <1>2, <1>3, <1>8 DEF q

-----------------------------------------------------------------------------
(* The fold over the acknowledged rows *)

\* What a turn's first row can become when the rows of a set are acknowledged.
FoldedTurns(rows) == {o \in [Keys -> Nat] : \A k \in Keys : o[k] \in {0, opened[k]} \cup rows}

LEMMA RecordAckedFacts ==
  ASSUME log \in Seq(Events \cup {Gap}), NEW rows \in SUBSET (1 .. Len(log)),
         NEW open \in FoldedTurns(rows), NEW s \in rows
  PROVE  RecordAcked(open, s) \in FoldedTurns(rows)
<1>1. s \in 1 .. Len(log) /\ s \in Nat /\ log[s] \in Events \cup {Gap}
  OBVIOUS
<1>2. open \in [Keys -> Nat] /\ \A k \in Keys : open[k] \in {0, opened[k]} \cup rows
  BY DEF FoldedTurns
<1>3. ASSUME NEW keys PROVE [k \in Keys |-> IF k \in keys THEN 0 ELSE open[k]] \in FoldedTurns(rows)
  BY <1>2 DEF FoldedTurns
<1>4. [open EXCEPT ![KeyOf(s)] = IF @ = 0 \/ s < @ THEN s ELSE @] \in FoldedTurns(rows)
  <2> DEFINE o == [open EXCEPT ![KeyOf(s)] = IF @ = 0 \/ s < @ THEN s ELSE @]
  <2>1. o \in [Keys -> Nat]
    BY <1>1, <1>2
  <2>2. \A k \in Keys : o[k] \in {0, opened[k]} \cup rows
    BY <1>2
  <2>3. QED
    BY <2>1, <2>2 DEF FoldedTurns
<1>5. QED
  BY <1>3, <1>4 DEF RecordAcked

\* The fold has a value: sets of positions up to some size have one, for every size.
LEMMA FoldFacts ==
  ASSUME log \in Seq(Events \cup {Gap}), NEW rows \in SUBSET (1 .. Len(log)),
         opened \in [Keys -> Nat], NEW seq \in Seq(rows)
  PROVE  FoldLeft(RecordAcked, opened, seq) \in FoldedTurns(rows)
<1> DEFINE n == Len(seq)
           D == SUBSET DOMAIN seq
           Step(g, S) == IF S = {} THEN opened ELSE RecordAcked(g[S \ {Max(S)}], seq[Max(S)])
           Upto(m) == {S \in D : Cardinality(S) <= m}
           Good(m) == \E g \in [Upto(m) -> FoldedTurns(rows)] : \A S \in Upto(m) : g[S] = Step(g, S)
<1>1. opened \in FoldedTurns(rows)
  BY DEF FoldedTurns
<1>2. n \in Nat /\ DOMAIN seq = 1 .. n /\ \A i \in 1 .. n : seq[i] \in rows
  OBVIOUS
<1>3. \A S \in D : IsFiniteSet(S) /\ Cardinality(S) \in Nat
  <2>1. ASSUME NEW S \in D PROVE IsFiniteSet(S) /\ Cardinality(S) \in Nat
    <3>1. S \in SUBSET (0 .. n)
      BY <1>2
    <3>2. QED
      BY <1>2, <3>1, FiniteRows
  <2>2. QED
    BY <2>1
<1>4. ASSUME NEW S \in D, S # {}
      PROVE  /\ Max(S) \in S /\ S \ {Max(S)} \in D
             /\ Cardinality(S \ {Max(S)}) = Cardinality(S) - 1
  <2>1. S \in SUBSET (0 .. n)
    BY <1>2
  <2>2. Max(S) \in S
    BY <1>2, <1>4, <2>1, MaxFacts
  <2>3. QED
    BY <1>3, <2>2, FS_RemoveElement
<1>5. ASSUME NEW m \in Nat PROVE Good(m)
  <2> DEFINE Bad == {i \in Nat : ~Good(i)}
  <2>1. ASSUME Bad # {} PROVE FALSE
    <3>1. PICK b \in Bad : \A e \in Bad : e >= b
      <4>1. Bad \in SUBSET Nat
        OBVIOUS
      <4>2. QED
        BY <2>1, <4>1, Smallest
    <3>2. CASE b = 0
      <4>1. \A S \in Upto(0) : S = {}
        <5>1. ASSUME NEW S \in Upto(0) PROVE S = {}
          <6>1. S \in D /\ Cardinality(S) = 0
            BY <1>3
          <6>2. QED
            BY <1>3, <6>1, FS_EmptySet
        <5>2. QED
          BY <5>1
      <4>2. [S \in Upto(0) |-> opened] \in [Upto(0) -> FoldedTurns(rows)]
        BY <1>1
      <4>3. Good(0)
        <5> DEFINE g == [S \in Upto(0) |-> opened]
        <5>1. \A S \in Upto(0) : g[S] = Step(g, S)
          BY <4>1
        <5>2. QED
          BY <4>2, <5>1
      <4>4. QED
        BY <3>2, <4>3
    <3>3. CASE b # 0
      <4>1. b - 1 \in Nat /\ b \in Nat
        BY <3>3
      <4>2. Good(b - 1)
        <5>1. b - 1 \notin Bad
          <6>1. b - 1 \in Bad => b - 1 >= b
            BY <3>1
          <6>2. ~(b - 1 >= b)
            BY ONLY <4>1
          <6>3. QED
            BY <6>1, <6>2
        <5>2. QED
          BY <4>1, <5>1
      <4>3. PICK g \in [Upto(b - 1) -> FoldedTurns(rows)] : \A S \in Upto(b - 1) : g[S] = Step(g, S)
        BY <4>2
      <4> DEFINE h == [S \in Upto(b) |-> IF S \in Upto(b - 1) THEN g[S] ELSE Step(g, S)]
      <4>4. ASSUME NEW S \in Upto(b), S # {}
            PROVE  S \ {Max(S)} \in Upto(b - 1) /\ S \ {Max(S)} \in Upto(b) /\ Max(S) \in 1 .. n
        <5>1. S \in D /\ Cardinality(S) \in Nat /\ Cardinality(S) <= b
          BY <1>3
        <5>2. Max(S) \in S /\ S \ {Max(S)} \in D /\ Cardinality(S \ {Max(S)}) = Cardinality(S) - 1
          BY <1>4, <4>4, <5>1
        <5>3. QED
          BY <1>2, <4>1, <5>1, <5>2
      <4>5. h \in [Upto(b) -> FoldedTurns(rows)]
        <5>1. ASSUME NEW S \in Upto(b), S \notin Upto(b - 1) PROVE Step(g, S) \in FoldedTurns(rows)
          <6>1. CASE S = {}
            BY <1>1, <6>1
          <6>2. CASE S # {}
            <7>1. g[S \ {Max(S)}] \in FoldedTurns(rows) /\ seq[Max(S)] \in rows
              BY <1>2, <4>3, <4>4, <6>2
            <7>2. RecordAcked(g[S \ {Max(S)}], seq[Max(S)]) \in FoldedTurns(rows)
              BY <7>1, RecordAckedFacts
            <7>3. QED
              BY <6>2, <7>2
          <6>3. QED
            BY <6>1, <6>2
        <5>2. \A S \in Upto(b - 1) : g[S] \in FoldedTurns(rows)
          BY <4>3
        <5> HIDE DEF Step, Upto
        <5>3. QED
          BY <5>1, <5>2
      <4>6. \A S \in Upto(b) : h[S] = Step(h, S)
        <5>1. ASSUME NEW S \in Upto(b) PROVE h[S] = Step(g, S) /\ Step(g, S) = Step(h, S)
          <6>1. h[S] = Step(g, S)
            BY <4>3
          <6>2. CASE S = {}
            BY <6>1, <6>2
          <6>3. CASE S # {}
            <7>1. h[S \ {Max(S)}] = g[S \ {Max(S)}]
              BY <4>4, <6>3
            <7>2. QED
              BY <6>1, <6>3, <7>1
          <6>4. QED
            BY <6>2, <6>3
        <5> HIDE DEF Step, Upto, h
        <5>2. QED
          BY <5>1
      <4> HIDE DEF h, Step, Upto
      <4>7. Good(b)
        BY <4>5, <4>6
      <4>8. QED
        BY <4>7
    <3>4. QED
      BY <3>2, <3>3
  <2>2. QED
    BY <2>1
<1> HIDE DEF Good
<1>6. Good(n)
  BY <1>2, <1>5
<1>7. Upto(n) = D
  <2>1. ASSUME NEW S \in D PROVE Cardinality(S) <= n
    <3>1. IsFiniteSet(1 .. n) /\ Cardinality(1 .. n) = n
      <4>1. 1 \in Int /\ n \in Int /\ n - 1 + 1 = n /\ (1 > n => n = 0)
        BY <1>2
      <4>2. QED
        BY <4>1, FS_Interval
    <3>2. S \in SUBSET (1 .. n)
      BY <1>2
    <3>3. QED
      BY <3>1, <3>2, FS_Subset
  <2>2. QED
    BY <2>1
<1>8. PICK g \in [D -> FoldedTurns(rows)] : \A S \in D : g[S] = Step(g, S)
  BY <1>6, <1>7 DEF Good
<1>9. g = [S \in D |-> Step(g, S)]
  BY <1>8
<1> DEFINE Iter == CHOOSE f : f = [S \in SUBSET DOMAIN seq |->
                                     IF S = {} THEN opened
                                     ELSE LET x == Max(S) IN RecordAcked(f[S \ {x}], seq[x])]
<1>10. Iter = [S \in D |-> Step(Iter, S)]
  <2>1. g = [S \in SUBSET DOMAIN seq |->
               IF S = {} THEN opened ELSE LET x == Max(S) IN RecordAcked(g[S \ {x}], seq[x])]
    BY <1>9 DEF Step
  <2> HIDE DEF Step
  <2>2. Iter = [S \in SUBSET DOMAIN seq |->
               IF S = {} THEN opened ELSE LET x == Max(S) IN RecordAcked(Iter[S \ {x}], seq[x])]
    BY <2>1
  <2> HIDE DEF Iter
  <2>3. QED
    BY <2>2 DEF Step
<1>11. FoldLeft(RecordAcked, opened, seq) = Iter[DOMAIN seq]
  BY DEF FoldLeft, MapThenFoldSet
<1> HIDE DEF Iter
<1>12. \A S \in D : Iter[S] \in FoldedTurns(rows)
  <2> DEFINE Sizes == {Cardinality(S) : S \in {R \in D : Iter[R] \notin FoldedTurns(rows)}}
  <2>1. ASSUME Sizes # {} PROVE FALSE
    <3>1. PICK b \in Sizes : \A e \in Sizes : e >= b
      <4>1. Sizes \in SUBSET Nat
        BY <1>3
      <4>2. QED
        BY <2>1, <4>1, Smallest
    <3>2. PICK S \in D : Iter[S] \notin FoldedTurns(rows) /\ Cardinality(S) = b
      OBVIOUS
    <3>3. Iter[S] = Step(Iter, S)
      BY <1>10
    <3>4. S # {}
      BY <1>1, <3>2, <3>3
    <3>5. Max(S) \in S /\ S \ {Max(S)} \in D /\ Cardinality(S \ {Max(S)}) = b - 1 /\ b \in Nat
      BY <1>3, <1>4, <3>2, <3>4
    <3>6. Iter[S \ {Max(S)}] \in FoldedTurns(rows)
      <4>1. b - 1 \notin Sizes
        <5>1. b - 1 \in Sizes => b - 1 >= b
          BY <3>1
        <5>2. QED
          BY <3>5, <5>1
      <4>2. QED
        BY <3>5, <4>1
    <3>7. seq[Max(S)] \in rows
      BY <1>2, <3>5
    <3>8. RecordAcked(Iter[S \ {Max(S)}], seq[Max(S)]) \in FoldedTurns(rows)
      BY <3>6, <3>7, RecordAckedFacts
    <3>9. QED
      BY <3>2, <3>3, <3>4, <3>8
  <2>2. QED
    BY <2>1
<1>13. QED
  BY <1>11, <1>12

-----------------------------------------------------------------------------
(* Pages and queues *)

\* The earliest rows of a set are what is smaller than the rest.
LEMMA EarliestFacts ==
  ASSUME NEW n \in Nat, NEW X \in SUBSET (0 .. n), NEW k \in Nat \ {0}
  PROVE  /\ Earliest(k, X) \subseteq X
         /\ \A s \in Earliest(k, X), r \in X : r <= s => r \in Earliest(k, X)
         /\ X # {} => Earliest(k, X) # {}
         /\ Cardinality(Earliest(k, X)) \in Nat /\ Cardinality(Earliest(k, X)) <= k
         /\ Cardinality(Earliest(k, X)) < k => Earliest(k, X) = X
<1> DEFINE below(s) == {r \in X : r < s}
           E == Earliest(k, X)
<1>1. \A s \in X : s \in Nat
  OBVIOUS
<1>2. \A S \in SUBSET X : IsFiniteSet(S) /\ Cardinality(S) \in Nat
  BY FiniteRows
<1>3. E = {s \in X : Cardinality(below(s)) < k}
  BY DEF Earliest
<1> HIDE DEF E
<1>4. ASSUME NEW s \in X, NEW r \in X, r <= s PROVE Cardinality(below(r)) <= Cardinality(below(s))
  <2>1. ASSUME NEW e \in below(r) PROVE e \in below(s)
    <3>1. e \in Nat /\ r \in Nat /\ s \in Nat /\ e < r
      BY <1>1
    <3>2. e < s
      BY <1>4, <3>1
    <3>3. QED
      BY <3>2
  <2>2. below(r) \in SUBSET below(s)
    BY <2>1
  <2>3. IsFiniteSet(below(s))
    BY <1>2
  <2>4. QED
    BY <2>2, <2>3, FS_Subset
<1>5. ASSUME NEW s \in E, NEW r \in X, r <= s PROVE r \in E
  <2>1. s \in X /\ Cardinality(below(s)) < k
    BY <1>3
  <2>2. Cardinality(below(r)) <= Cardinality(below(s))
    BY <1>4, <1>5, <2>1
  <2>3. Cardinality(below(r)) \in Nat /\ Cardinality(below(s)) \in Nat
    BY <1>2
  <2>4. Cardinality(below(r)) < k
    BY <2>1, <2>2, <2>3
  <2>5. QED
    BY <1>3, <2>4
<1>6. ASSUME X # {} PROVE E # {}
  <2>1. PICK m \in X : \A e \in X : e >= m
    <3>1. X \in SUBSET Nat
      BY <1>1
    <3>2. QED
      BY <1>6, <3>1, Smallest
  <2>2. below(m) = {}
    <3>1. ASSUME NEW e \in below(m) PROVE FALSE
      <4>1. e \in X /\ e < m /\ e >= m
        BY <2>1
      <4>2. e \in Nat /\ m \in Nat
        BY <1>1, <4>1
      <4>3. QED
        BY <4>1, <4>2
    <3>2. QED
      BY <3>1
  <2>3. Cardinality(below(m)) = 0
    BY <2>2, FS_EmptySet
  <2>4. QED
    BY <1>3, <2>3
<1>7. E \in SUBSET X
  BY <1>3
<1>8. IsFiniteSet(E) /\ Cardinality(E) \in Nat
  BY <1>2, <1>7
<1>9. Cardinality(E) <= k
  <2>1. CASE E = {}
    BY <2>1, FS_EmptySet
  <2>2. CASE E # {}
    <3>1. Max(E) \in E /\ \A e \in E : e <= Max(E)
      BY <1>7, <2>2, MaxFacts
    <3>2. Cardinality(below(Max(E))) < k /\ Cardinality(below(Max(E))) \in Nat
      BY <1>2, <1>3, <3>1
    <3>3. E \ {Max(E)} \in SUBSET below(Max(E))
      <4>1. ASSUME NEW e \in E \ {Max(E)} PROVE e \in below(Max(E))
        <5>1. e \in X /\ e \in Nat /\ Max(E) \in Nat /\ e <= Max(E) /\ e # Max(E)
          BY <1>1, <1>7, <3>1
        <5>2. QED
          BY <5>1
      <4>2. QED
        BY <4>1
    <3>4. Cardinality(E \ {Max(E)}) <= Cardinality(below(Max(E)))
      BY <1>2, <3>3, FS_Subset
    <3>5. Cardinality(E \ {Max(E)}) = Cardinality(E) - 1
      BY <1>8, <3>1, FS_RemoveElement
    <3>6. QED
      BY <1>8, <3>2, <3>4, <3>5
  <2>3. QED
    BY <2>1, <2>2
<1>10. ASSUME Cardinality(E) < k PROVE E = X
  <2>1. ASSUME X \ E # {} PROVE FALSE
    <3>1. PICK x \in X \ E : \A e \in X \ E : e >= x
      <4>1. X \ E \in SUBSET Nat
        BY <1>1
      <4>2. QED
        BY <2>1, <4>1, Smallest
    <3>2. below(x) \in SUBSET E
      <4>1. ASSUME NEW e \in below(x), e \notin E PROVE FALSE
        <5>1. e >= x /\ e < x /\ e \in Nat /\ x \in Nat
          BY <1>1, <3>1, <4>1
        <5>2. QED
          BY <5>1
      <4>2. QED
        BY <4>1
    <3>3. Cardinality(below(x)) <= Cardinality(E) /\ Cardinality(below(x)) \in Nat
      BY <1>2, <1>8, <3>2, FS_Subset
    <3>4. Cardinality(below(x)) < k
      BY <1>8, <1>10, <3>3
    <3>5. QED
      BY <1>3, <3>1, <3>4
  <2>2. QED
    BY <1>7, <2>1
<1>11. QED
  BY <1>5, <1>6, <1>7, <1>8, <1>9, <1>10 DEF E

LEMMA EarliestOne ==
  ASSUME NEW n \in Nat, NEW X \in SUBSET (0 .. n), NEW s
  PROVE  s \in Earliest(1, X) <=> s \in X /\ \A r \in X : s <= r
<1> DEFINE below == {r \in X : r < s}
<1>1. s \in Earliest(1, X) <=> s \in X /\ Cardinality(below) < 1
  BY DEF Earliest
<1>2. IsFiniteSet(below) /\ Cardinality(below) \in Nat
  BY FiniteRows
<1>3. Cardinality(below) < 1 <=> Cardinality(below) = 0
  BY <1>2
<1>4. Cardinality(below) = 0 <=> below = {}
  BY <1>2, FS_EmptySet
<1>5. ASSUME s \in X PROVE below = {} <=> \A r \in X : s <= r
  <2>1. s \in Nat /\ \A r \in X : r \in Nat
    BY <1>5
  <2>2. \A r \in X : ~(r < s) <=> s <= r
    BY <2>1
  <2>3. below = {} <=> \A r \in X : ~(r < s)
    OBVIOUS
  <2>4. QED
    BY <2>2, <2>3
<1>6. QED
  BY <1>1, <1>3, <1>4, <1>5

LEMMA SeqWithin ==
  ASSUME NEW S, NEW T, NEW q \in Seq(S), \A i \in 1 .. Len(q) : q[i] \in T
  PROVE  q \in Seq(T) /\ (q # <<>> => Tail(q) \in Seq(T))
<1>1. q \in Seq(T)
  <2>1. q \in [1 .. Len(q) -> T] /\ Len(q) \in Nat
    OBVIOUS
  <2>2. QED
    BY <2>1
<1>2. QED
  BY <1>1

LEMMA Members ==
  ASSUME NEW S, NEW q \in Seq(S)
  PROVE  /\ \A e : e \in ToSet(q) <=> \E i \in 1 .. Len(q) : q[i] = e
         /\ ToSet(q) \subseteq S
BY DEF ToSet

LEMMA AppendMembers ==
  ASSUME NEW S, NEW q \in Seq(S), NEW e \in S
  PROVE  ToSet(Append(q, e)) = ToSet(q) \cup {e}
<1> DEFINE r == Append(q, e)
<1>1. r \in Seq(S) /\ Len(r) = Len(q) + 1 /\ r[Len(r)] = e /\ \A i \in 1 .. Len(q) : r[i] = q[i]
  OBVIOUS
<1>2. Len(q) \in Nat
  OBVIOUS
<1> HIDE DEF r
<1>3. \A i \in 1 .. Len(r) : i = Len(r) \/ i \in 1 .. Len(q)
  BY <1>1, <1>2
<1>4. ASSUME NEW x PROVE x \in ToSet(r) <=> x \in ToSet(q) \cup {e}
  <2>1. x \in ToSet(r) <=> \E i \in 1 .. Len(r) : r[i] = x
    BY <1>1, Members
  <2>2. x \in ToSet(q) <=> \E i \in 1 .. Len(q) : q[i] = x
    BY Members
  <2>3. Len(r) \in 1 .. Len(r) /\ \A i \in 1 .. Len(q) : i \in 1 .. Len(r)
    BY <1>1, <1>2
  <2>4. QED
    BY <1>1, <1>3, <2>1, <2>2, <2>3
<1>5. QED
  BY <1>4 DEF r

LEMMA ConcatMembers ==
  ASSUME NEW S, NEW q \in Seq(S), NEW p \in Seq(S)
  PROVE  /\ q \o p \in Seq(S) /\ ToSet(q \o p) = ToSet(q) \cup ToSet(p)
         /\ Len(q \o p) = Len(q) + Len(p)
         /\ \A i \in 1 .. Len(q) : (q \o p)[i] = q[i]
         /\ \A i \in Len(q) + 1 .. Len(q) + Len(p) : (q \o p)[i] = p[i - Len(q)]
<1> DEFINE r == q \o p
<1>1. /\ r \in Seq(S) /\ Len(r) = Len(q) + Len(p)
      /\ \A i \in 1 .. Len(q) : r[i] = q[i]
      /\ \A i \in Len(q) + 1 .. Len(q) + Len(p) : r[i] = p[i - Len(q)]
  OBVIOUS
<1>2. Len(q) \in Nat /\ Len(p) \in Nat
  OBVIOUS
<1> HIDE DEF r
<1>3. \A i \in 1 .. Len(r) : i \in 1 .. Len(q) \/ (i \in Len(q) + 1 .. Len(q) + Len(p) /\ i - Len(q) \in 1 .. Len(p))
  BY <1>1, <1>2
<1>4. ASSUME NEW x \in ToSet(r) PROVE x \in ToSet(q) \cup ToSet(p)
  <2>1. PICK i \in 1 .. Len(r) : r[i] = x
    BY <1>1, Members
  <2>2. QED
    BY <1>1, <1>3, <2>1, Members
<1>5. ASSUME NEW x \in ToSet(q) \cup ToSet(p) PROVE x \in ToSet(r)
  <2>1. CASE x \in ToSet(q)
    <3>1. PICK i \in 1 .. Len(q) : q[i] = x
      BY <2>1, Members
    <3>2. i \in 1 .. Len(r) /\ r[i] = x
      BY <1>1, <1>2, <3>1
    <3>3. QED
      BY <1>1, <3>2, Members
  <2>2. CASE x \in ToSet(p)
    <3>1. PICK i \in 1 .. Len(p) : p[i] = x
      BY <2>2, Members
    <3> DEFINE j == Len(q) + i
    <3>2. j \in Len(q) + 1 .. Len(q) + Len(p) /\ j \in 1 .. Len(r) /\ j - Len(q) = i
      BY <1>1, <1>2
    <3>3. r[j] = x
      BY <1>1, <3>1, <3>2
    <3>4. QED
      BY <1>1, <3>2, <3>3, Members
  <2>3. QED
    BY <2>1, <2>2
<1>6. QED
  BY <1>1, <1>4, <1>5 DEF r

\* The rest of a line that is in order.
LEMMA TailFacts ==
  ASSUME NEW S \in SUBSET Nat, NEW q \in Seq(S), q # <<>>, Ascending(q)
  PROVE  /\ Head(q) \in ToSet(q) /\ Head(q) \in S
         /\ \A e \in ToSet(q) : e \in Nat /\ Head(q) <= e /\ e <= q[Len(q)]
         /\ Tail(q) \in Seq(S) /\ Ascending(Tail(q)) /\ Len(Tail(q)) = Len(q) - 1
         /\ ToSet(Tail(q)) = ToSet(q) \ {Head(q)}
         /\ Tail(q) # <<>> => Tail(q)[Len(Tail(q))] = q[Len(q)]
<1> DEFINE t == Tail(q)
<1>1. Len(q) \in Nat /\ Len(q) >= 1 /\ 1 \in 1 .. Len(q) /\ Head(q) = q[1] /\ DOMAIN q = 1 .. Len(q)
  OBVIOUS
<1>2. t \in Seq(S) /\ Len(t) = Len(q) - 1 /\ DOMAIN t = 1 .. Len(q) - 1
  OBVIOUS
<1>3. \A i \in 1 .. Len(q) - 1 : t[i] = q[i + 1]
  OBVIOUS
<1>4. \A i \in 1 .. Len(q) : q[i] \in Nat /\ q[i] \in S
  <2>1. \A i \in 1 .. Len(q) : q[i] \in S
    OBVIOUS
  <2>2. \A e \in S : e \in Nat
    OBVIOUS
  <2>3. QED
    BY <2>1, <2>2
<1> HIDE DEF t
<1>5. \A i, j \in 1 .. Len(q) : i < j => q[i] < q[j]
  BY <1>1 DEF Ascending
<1>6. Ascending(t)
  <2>1. ASSUME NEW i \in 1 .. Len(q) - 1, NEW j \in 1 .. Len(q) - 1, i < j PROVE t[i] < t[j]
    <3>1. i + 1 \in 1 .. Len(q) /\ j + 1 \in 1 .. Len(q) /\ i + 1 < j + 1
      BY <1>1, <2>1
    <3>2. QED
      BY <1>3, <1>5, <3>1
  <2>2. QED
    BY <1>2, <2>1 DEF Ascending
<1>7. ASSUME NEW i \in 1 .. Len(q) PROVE q[1] <= q[i] /\ q[i] <= q[Len(q)] /\ (i # 1 => q[i] # q[1])
  <2>1. Len(q) \in 1 .. Len(q) /\ i \in Nat /\ (i = 1 \/ 1 < i) /\ (i = Len(q) \/ i < Len(q))
    <3>1. PICK n \in Nat : n = Len(q) /\ n >= 1
      BY <1>1
    <3>2. i \in 1 .. n
      BY <3>1
    <3>3. n \in 1 .. n /\ i \in Nat /\ (i = 1 \/ 1 < i) /\ (i = n \/ i < n)
      BY ONLY <3>1, <3>2
    <3>4. QED
      BY <3>1, <3>3
  <2>2. (1 < i => q[1] < q[i]) /\ (i < Len(q) => q[i] < q[Len(q)])
    BY <1>1, <1>5, <2>1
  <2>3. q[1] \in Nat /\ q[i] \in Nat /\ q[Len(q)] \in Nat
    BY <1>1, <1>4, <2>1
  <2>4. QED
    BY <2>1, <2>2, <2>3
<1>8. \A e : e \in ToSet(q) <=> \E i \in 1 .. Len(q) : q[i] = e
  BY Members
<1>9. \A e : e \in ToSet(t) <=> \E i \in 1 .. Len(q) - 1 : t[i] = e
  BY <1>2, Members
<1>10. ASSUME NEW e \in ToSet(t) PROVE e \in ToSet(q) \ {q[1]}
  <2>1. PICK i \in 1 .. Len(q) - 1 : t[i] = e
    BY <1>9
  <2>2. i + 1 \in 1 .. Len(q) /\ i + 1 # 1 /\ q[i + 1] = e
    BY <1>1, <1>3, <2>1
  <2>3. QED
    BY <1>7, <1>8, <2>2
<1>11. ASSUME NEW e \in ToSet(q) \ {q[1]} PROVE e \in ToSet(t)
  <2>1. PICK i \in 1 .. Len(q) : q[i] = e
    BY <1>8
  <2>2. i - 1 \in 1 .. Len(q) - 1 /\ t[i - 1] = e
    <3>1. i # 1
      BY <1>11, <2>1
    <3>2. i - 1 \in 1 .. Len(q) - 1 /\ (i - 1) + 1 = i
      BY <1>1, <3>1
    <3>3. QED
      BY <1>3, <2>1, <3>2
  <2>3. QED
    BY <1>9, <2>2
<1>12. t # <<>> => t[Len(t)] = q[Len(q)]
  <2>1. ASSUME t # <<>> PROVE t[Len(t)] = q[Len(q)]
    <3>1. Len(t) # 0
      <4>1. t \in Seq(S)
        BY <1>2
      <4>2. QED
        BY <2>1, <4>1
    <3>2. Len(t) \in 1 .. Len(q) - 1 /\ Len(t) + 1 = Len(q)
      BY <1>1, <1>2, <3>1
    <3>3. QED
      BY <1>3, <3>2
  <2>2. QED
    BY <2>1
<1>13. \A e \in ToSet(q) : e \in Nat /\ q[1] <= e /\ e <= q[Len(q)]
  BY <1>4, <1>7, <1>8
<1>14. QED
  BY <1>1, <1>2, <1>4, <1>6, <1>8, <1>10, <1>11, <1>12, <1>13 DEF t

-----------------------------------------------------------------------------
(* The inductive invariant *)

\* The row up to which this process is done: acknowledged, or about to be.
Base == IF pending > cursor THEN pending ELSE cursor

Row(s) == log[s] # Gap

Ahead(from) == \E s \in stored : from < s

\* The next row after a position.
First(h, from) == h \in stored /\ from < h /\ \A r \in stored : from < r => h <= r

\* The table holds the rows that are not acknowledged and those of open turns.
Table ==
  /\ \A s \in stored : Row(s)
  /\ \A s \in 1 .. Len(log) : Row(s) /\ s > cursor => s \in stored
  /\ \A s \in 1 .. cursor : Row(s) /\ Kept(opened, s) => s \in stored

Past ==
  /\ \A s \in ToSet(done) : s \in handled
  /\ \A s \in 1 .. cursor : Row(s) => s \in handled \cup skipped

\* The worker's queue goes on where the process is, and leaves no row out while it may be
\* applied.  What is done and not yet acknowledged was applied by this process.
Line ==
  /\ Ascending(queue)
  /\ \A s \in ToSet(queue) : s > Base
  /\ queue # <<>> /\ (~blocked \/ quarantine # "no") =>
       \A s \in stored : Base < s /\ s <= queue[Len(queue)] => s \in ToSet(queue)
  /\ \A s \in stored : cursor < s /\ s <= pending => s \in ToSet(done)
  /\ pending > cursor => pending \in stored

Starting == phase \in {"prune", "rebuild"}

\* Where the drain, the worker and the quarantine can be together.
Phases ==
  /\ (drain.pc = "off") <=> (drain = NoDrain)
  /\ queue # <<>> => drain.pc \in {"off", "work"}
  /\ quarantine # "no" => queue # <<>> /\ blocked /\ failures[Head(queue)] >= 1
  /\ quarantine = "advance" => pending = 0
  /\ drain.pc \in {"page", "check", "bury"} => pending = 0
  /\ Starting => /\ drain = NoDrain /\ queue = <<>> /\ quarantine = "no"
                 /\ pending = 0 /\ blocked = FALSE
  /\ drain # NoDrain => phase \in {"replay", "running"}

Applied ==
  /\ Ascending(done)
  /\ \A s \in ToSet(done) : s <= Base
  /\ phase = "prune" => done = <<>> /\ rebuilt = 0
  /\ phase = "rebuild" => rebuilt <= cursor /\ \A s \in ToSet(done) : s <= rebuilt

Fences == \A f \in {drain.fence, live.fence, requested} : f <= cursor \/ f \in stored

\* A drain that goes on has moved the cursor, or has rows ahead of it.
Progress ==
  /\ gate.cursor <= cursor
  /\ drain.pc \in {"work", "check"} => gate.cursor <= drain.from /\ drain.from <= cursor
  /\ drain.pc = "work" /\ ~blocked /\ queue = <<>> => Base > drain.from
  /\ drain.pc = "check" /\ ~blocked => cursor > drain.from
  /\ drain.pc \in {"work", "check"} /\ blocked => cursor > drain.from \/ Ahead(Base)
  /\ drain.pc = "bury" => Ahead(cursor) /\ gate.cursor = cursor /\ gate.count = PoisonLimit

Had(s) == s \in ToSet(done) \cup missed \cup skipped

\* While the rebuild goes on, the caches hold what it has passed.
Caches ==
  /\ CachesHoldOpenTurns
  /\ phase = "rebuild" => \A s \in 1 .. rebuilt : Row(s) /\ Kept(opened, s) => Had(s)

\* The next row failed in n drains, but for faults.
HeadFailed(from, n) ==
  /\ \A h \in stored : First(h, from) => failures[h] >= n - count["faults"]
  /\ ~Ahead(from) => n <= count["faults"]

\* What the gate will count if the drain under way ends blocked.
Seen == IF gate.cursor = Base THEN gate.count + 1 ELSE 1
Counted == IF Seen > PoisonLimit THEN PoisonLimit ELSE Seen

Failures ==
  /\ gate.cursor = cursor => HeadFailed(cursor, gate.count)
  /\ drain.pc \in {"work", "check"} /\ blocked => HeadFailed(Base, Counted)

IInv == /\ TypeOK /\ Table /\ Past /\ Line /\ Phases /\ Applied /\ Fences /\ Progress
        /\ Caches /\ Failures

-----------------------------------------------------------------------------
(* Acknowledgement *)

\* What a transaction does to the tables, and every other step but an append.
Accepts ==
  /\ log' = log
  /\ cursor' \in cursor .. Len(log)
  /\ stored' \subseteq stored
  /\ \A s \in stored : cursor' < s => s \in stored'
  /\ \A s \in stored \ stored' : ~Kept(opened', s)
  /\ opened' \in [Keys -> 0 .. cursor']
  /\ \A k \in Keys : opened'[k] \in {0, opened[k]} \/ opened'[k] > cursor
  /\ garbled' \subseteq stored'
  /\ scanned' \in 0 .. cursor'

LEMMA AcknowledgeDoes ==
  ASSUME TypeOK, NEW through \in 0 .. Len(log), NEW known \in BOOLEAN,
         Acknowledge(through, known), log' = log
  PROVE  Accepts /\ cursor' = IF cursor >= through THEN cursor ELSE through
<1> USE DEF TypeOK
<1>0. Len(log) \in Nat /\ cursor \in Nat /\ cursor <= Len(log) /\ stored \in SUBSET (1 .. Len(log))
      /\ garbled \subseteq stored /\ opened \in [Keys -> 0 .. cursor] /\ scanned \in 0 .. cursor
  OBVIOUS
<1>1. CASE cursor >= through
  <2>1. cursor' = cursor /\ opened' = opened /\ stored' = stored /\ scanned' = scanned /\ garbled' = garbled
    BY <1>1 DEF Acknowledge, ackVars
  <2>2. cursor \in cursor .. Len(log)
    BY <1>0
  <2>3. QED
    BY <1>0, <1>1, <2>1, <2>2 DEF Accepts
<1>2. CASE ~(cursor >= through)
  <2> DEFINE rows == Rows(cursor, through)
             open == FoldLeft(RecordAcked, opened, InOrder(rows))
             scan == ScanDue(rows, through)
  <2>1. /\ cursor' = through /\ opened' = open
        /\ stored' = IF scan THEN stored \ Swept(open, through) ELSE stored
        /\ garbled' = garbled \cap stored'
        /\ scanned' = IF scan /\ known THEN through ELSE scanned
    BY <1>2 DEF Acknowledge
  <2>2. rows \in SUBSET (1 .. Len(log)) /\ \A s \in rows : s \in Nat /\ cursor < s /\ s <= through
    <3>1. rows = {s \in stored : cursor < s /\ s <= through}
      BY DEF Rows
    <3>2. \A s \in stored : s \in 1 .. Len(log) /\ s \in Nat
      BY <1>0
    <3> HIDE DEF rows
    <3>3. QED
      BY <3>1, <3>2
  <2>3. InOrder(rows) \in Seq(rows)
    <3>1. rows \in SUBSET (0 .. Len(log))
      BY <2>2
    <3>2. QED
      BY <1>0, <3>1, InOrderFacts
  <2>4. open \in FoldedTurns(rows)
    <3>1. opened \in [Keys -> Nat]
      BY <1>0
    <3>2. QED
      BY <2>2, <2>3, <3>1, FoldFacts
  <2>5. open \in [Keys -> Nat] /\ \A k \in Keys : open[k] \in {0, opened[k]} \cup rows
    BY <2>4 DEF FoldedTurns
  <2> HIDE DEF open, rows, scan
  <2>6. Swept(open, through) \subseteq {s \in stored : s <= through /\ ~Kept(open, s)}
    BY DEF Swept, Rows
  <2>7. through \in Nat /\ through > cursor /\ through <= Len(log)
    BY <1>0, <1>2
  <2>8. \A k \in Keys : opened'[k] \in 0 .. through /\ (opened'[k] \in {0, opened[k]} \/ opened'[k] > cursor)
    <3>1. ASSUME NEW k \in Keys
          PROVE  open[k] \in 0 .. through /\ (open[k] \in {0, opened[k]} \/ open[k] > cursor)
      <4>1. opened[k] \in 0 .. cursor
        BY <1>0
      <4>2. open[k] \in {0, opened[k]} \cup rows
        BY <2>5
      <4>3. CASE open[k] \in {0, opened[k]}
        BY <1>0, <2>7, <4>1, <4>3
      <4>4. CASE open[k] \in rows
        <5>1. PICK r \in rows : r = open[k]
          BY <4>4
        <5>2. r \in Nat /\ cursor < r /\ r <= through
          BY <2>2
        <5>3. r \in 0 .. through /\ r > cursor
          BY <1>0, <2>7, <5>2
        <5>4. QED
          BY <5>1, <5>3
      <4>5. QED
        BY <4>2, <4>3, <4>4
    <3>2. QED
      BY <2>1, <3>1
  <2>9. opened' \in [Keys -> 0 .. cursor']
    BY <2>1, <2>5, <2>8
  <2>10. stored' \subseteq stored /\ \A s \in stored \ stored' : s <= through /\ ~Kept(opened', s)
    BY <2>1, <2>6
  <2>11. \A s \in stored : cursor' < s => s \in stored'
    <3>1. ASSUME NEW s \in stored, s \notin stored', through < s PROVE FALSE
      <4>1. s \in Nat /\ s <= through
        BY <1>0, <2>10, <3>1
      <4>2. QED
        BY <2>7, <3>1, <4>1
    <3>2. QED
      BY <2>1, <3>1
  <2>12. scanned' \in 0 .. cursor'
    BY <1>0, <2>1, <2>7
  <2>13. cursor' \in cursor .. Len(log)
    BY <1>0, <2>1, <2>7
  <2>14. QED
    BY <1>0, <1>2, <2>1, <2>8, <2>9, <2>10, <2>11, <2>12, <2>13 DEF Accepts
<1>3. QED
  BY <1>1, <1>2

\* The events that are bounded.
LEMMA Occurrences == DOMAIN Bounds = {"faults", "restarts", "prunes", "notices", "upgrades"}
BY DEF Bounds

CountOK == DOMAIN count = DOMAIN Bounds /\ \A what \in DOMAIN Bounds : count[what] \in 0 .. Bounds[what]

LEMMA OccurDoes ==
  ASSUME CountOK, NEW what \in DOMAIN Bounds, Occur(what)
  PROVE  /\ CountOK' /\ count'[what] = count[what] + 1
         /\ \A other \in DOMAIN Bounds : count'[other] >= count[other]
         /\ count["faults"] \in Nat /\ count'["faults"] \in Nat
<1>1. \A w \in DOMAIN Bounds : Bounds[w] \in Nat
  BY BoundAssumption DEF Bounds
<1>2. count' = [count EXCEPT ![what] = count[what] + 1] /\ count[what] < Bounds[what]
  BY DEF Occur
<1>3. \A w \in DOMAIN Bounds : count[w] \in 0 .. Bounds[w]
  BY DEF CountOK
<1>4. DOMAIN count' = DOMAIN Bounds
  BY <1>2 DEF CountOK
<1>5. \A w \in DOMAIN Bounds : count'[w] = IF w = what THEN count[w] + 1 ELSE count[w]
  BY <1>2 DEF CountOK
<1>6. ASSUME NEW w \in DOMAIN Bounds
      PROVE  /\ count'[w] \in 0 .. Bounds[w] /\ count'[w] >= count[w] /\ count[w] \in Nat /\ count'[w] \in Nat
  BY <1>1, <1>2, <1>3, <1>5
<1>7. Bounds' = Bounds
  BY DEF Bounds
<1>8. "faults" \in DOMAIN Bounds
  BY Occurrences
<1>9. QED
  BY <1>4, <1>5, <1>6, <1>7, <1>8 DEF CountOK

\* A transaction that fails may have committed.
LEMMA AcknowledgeFailsDoes ==
  ASSUME TypeOK, NEW through \in 0 .. Len(log), AcknowledgeFails(through), log' = log
  PROVE  /\ Accepts
         /\ cursor' \in {cursor, IF cursor >= through THEN cursor ELSE through}
         /\ CountOK' /\ count'["faults"] = count["faults"] + 1 /\ count["faults"] \in Nat
<1>1. CountOK /\ Occur("faults")
  BY DEF TypeOK, CountOK, AcknowledgeFails
<1>2. CountOK' /\ count'["faults"] = count["faults"] + 1 /\ count["faults"] \in Nat
  BY <1>1, Occurrences, OccurDoes
<1>3. CASE Acknowledge(through, FALSE)
  BY <1>2, <1>3, AcknowledgeDoes
<1>4. CASE UNCHANGED <<ackVars, garbled>>
  <2>1. cursor' = cursor /\ opened' = opened /\ stored' = stored /\ scanned' = scanned /\ garbled' = garbled
    BY <1>4 DEF ackVars
  <2>2. cursor \in cursor .. Len(log)
    BY DEF TypeOK
  <2>3. QED
    BY <1>2, <2>1, <2>2 DEF Accepts, TypeOK
<1>5. QED
  BY <1>3, <1>4 DEF AcknowledgeFails

LEMMA BaseFacts ==
  ASSUME TypeOK
  PROVE  /\ Base \in 0 .. Len(log) /\ Base >= cursor /\ Base >= pending
         /\ Len(log) \in Nat /\ cursor \in Nat /\ pending \in Nat /\ Base \in Nat
         /\ pending = 0 => Base = cursor
         /\ stored \in SUBSET (1 .. Len(log))
BY DEF Base, TypeOK

\* A flush that is seen to commit.
LEMMA FlushSucceedsDoes ==
  ASSUME TypeOK, FlushSucceeds, log' = log
  PROVE  Accepts /\ cursor' = Base /\ pending' = 0 /\ count' = count /\ CountOK'
<1>1. pending' = 0 /\ count' = count
  BY DEF FlushSucceeds
<1>2. CountOK'
  BY <1>1 DEF TypeOK, CountOK, Bounds
<1>3. CASE pending = 0
  <2>1. cursor' = cursor /\ opened' = opened /\ stored' = stored /\ scanned' = scanned /\ garbled' = garbled
    BY <1>3 DEF FlushSucceeds, ackVars
  <2>2. cursor \in cursor .. Len(log)
    BY DEF TypeOK
  <2>3. QED
    BY <1>1, <1>2, <1>3, <2>1, <2>2 DEF Accepts, TypeOK, Base
<1>4. CASE pending # 0
  <2>1. pending \in 0 .. Len(log) /\ Acknowledge(pending, TRUE)
    BY <1>4 DEF FlushSucceeds, TypeOK
  <2>2. Accepts /\ cursor' = IF cursor >= pending THEN cursor ELSE pending
    BY <2>1, AcknowledgeDoes
  <2>3. QED
    BY <1>1, <1>2, <2>2, BaseFacts DEF Base
<1>5. QED
  BY <1>3, <1>4

LEMMA FlushFailsDoes ==
  ASSUME TypeOK, FlushFails, log' = log
  PROVE  /\ Accepts /\ cursor' \in {cursor, Base} /\ pending' = pending /\ Base' = Base
         /\ CountOK' /\ count'["faults"] = count["faults"] + 1 /\ count["faults"] \in Nat
<1>1. pending \in 0 .. Len(log) /\ AcknowledgeFails(pending) /\ pending' = pending
  BY DEF FlushFails, TypeOK
<1>2. /\ Accepts
      /\ cursor' \in {cursor, IF cursor >= pending THEN cursor ELSE pending}
      /\ CountOK' /\ count'["faults"] = count["faults"] + 1 /\ count["faults"] \in Nat
  BY <1>1, AcknowledgeFailsDoes
<1>3. QED
  BY <1>1, <1>2, BaseFacts DEF Base

\* A turn that is open at an acknowledged row was open there before.
LEMMA KeptBefore ==
  ASSUME TypeOK, Accepts, NEW s \in 1 .. cursor, Kept(opened, s)'
  PROVE  Kept(opened, s)
<1>1. s \in 1 .. Len(log) /\ s \in Nat /\ cursor \in Nat /\ log[s] \in Events \cup {Gap}
  BY DEF TypeOK
<1>2. log'[s] = log[s] /\ KeyOf(s)' = KeyOf(s)
  BY DEF Accepts, KeyOf
<1>3. log[s].turn # NoTurn /\ opened'[KeyOf(s)] \in 1 .. s
  BY <1>2 DEF Kept
<1>4. log[s] \in Events
  BY <1>1, <1>3 DEF Gap
<1>5. KeyOf(s) \in Keys
  BY <1>3, <1>4 DEF Events, Keys, KeyOf
<1>6. opened'[KeyOf(s)] \in {0, opened[KeyOf(s)]} \/ opened'[KeyOf(s)] > cursor
  BY <1>5 DEF Accepts
<1>7. opened'[KeyOf(s)] = opened[KeyOf(s)]
  BY <1>1, <1>3, <1>6
<1>8. QED
  BY <1>3, <1>7 DEF Kept

\* Rows that are swept are not of an open turn.
LEMMA TableKept == ASSUME TypeOK, Table, Accepts PROVE Table'
<1>1. log' = log /\ cursor' \in cursor .. Len(log) /\ stored' \subseteq stored
  BY DEF Accepts
<1>2. \A s \in stored' : Row(s)'
  BY <1>1 DEF Table, Row, Gap
<1>3. cursor \in Nat /\ Len(log) \in Nat /\ cursor' \in Nat /\ cursor <= cursor'
  BY <1>1 DEF TypeOK
<1>4. ASSUME NEW s \in 1 .. Len(log)', Row(s)', s > cursor' PROVE s \in stored'
  <2>1. s \in 1 .. Len(log) /\ Row(s) /\ s > cursor
    BY <1>1, <1>3, <1>4 DEF Row, Gap
  <2>2. s \in stored
    BY <2>1 DEF Table
  <2>3. QED
    BY <1>4, <2>2 DEF Accepts
<1>5. ASSUME NEW s \in 1 .. cursor', Row(s)', Kept(opened, s)' PROVE s \in stored'
  <2>1. Row(s) /\ s \in 1 .. Len(log)
    BY <1>1, <1>3, <1>5 DEF Row, Gap
  <2>2. s \in stored
    <3>1. CASE s > cursor
      BY <2>1, <3>1 DEF Table
    <3>2. CASE ~(s > cursor)
      <4>1. s \in 1 .. cursor
        BY <1>3, <3>2
      <4>2. Kept(opened, s)
        BY <1>5, <4>1, KeptBefore
      <4>3. QED
        BY <2>1, <4>1, <4>2 DEF Table
    <3>3. QED
      BY <3>1, <3>2
  <2>3. Kept(opened', s)
    BY <1>1, <1>5 DEF Kept, KeyOf
  <2>4. QED
    BY <2>2, <2>3 DEF Accepts
<1>6. QED
  BY <1>2, <1>4, <1>5 DEF Table

\* Rows ahead of the new cursor stay in the table, so what is in the queue does.
LEMMA QueueStays ==
  ASSUME TypeOK, Line, Accepts, cursor' <= Base
  PROVE  queue \in Seq(stored') /\ (queue # <<>> => Tail(queue) \in Seq(stored'))
<1>1. \A i \in 1 .. Len(queue) : queue[i] \in stored /\ queue[i] > Base
  <2>1. queue \in Seq(stored)
    BY DEF TypeOK
  <2>2. \A i \in 1 .. Len(queue) : queue[i] \in ToSet(queue)
    BY <2>1, Members
  <2>3. QED
    BY <2>1, <2>2 DEF Line
<1>2. \A s \in stored : s > Base => s \in stored'
  <2>1. cursor' \in Nat
    BY BaseFacts DEF Accepts
  <2>2. \A s \in stored : s \in Nat
    BY BaseFacts
  <2>3. \A s \in stored : s > Base => cursor' < s
    BY <2>1, <2>2, BaseFacts
  <2>4. QED
    BY <2>3 DEF Accepts
<1>3. queue \in Seq(stored)
  BY DEF TypeOK
<1>4. QED
  BY <1>1, <1>2, <1>3, SeqWithin

\* Behind the head of the queue, too.
LEMMA RestStays ==
  ASSUME TypeOK, Line, queue # <<>>, Accepts, cursor' <= Head(queue)
  PROVE  Tail(queue) \in Seq(stored')
<1>1. queue \in Seq(stored) /\ stored \in SUBSET Nat
  BY BaseFacts DEF TypeOK
<1>2. /\ Tail(queue) \in Seq(stored) /\ ToSet(Tail(queue)) = ToSet(queue) \ {Head(queue)}
      /\ \A e \in ToSet(queue) : e \in Nat /\ Head(queue) <= e
      /\ Head(queue) \in stored
  BY <1>1, TailFacts DEF Line
<1>3. cursor' \in Nat /\ Head(queue) \in Nat
  <2>1. cursor' \in Nat
    BY BaseFacts DEF Accepts
  <2>2. QED
    BY <1>1, <1>2, <2>1
<1>4. ASSUME NEW i \in 1 .. Len(Tail(queue)) PROVE Tail(queue)[i] \in stored'
  <2>1. PICK e \in ToSet(queue) : e = Tail(queue)[i] /\ e # Head(queue) /\ e \in stored
    <3>1. Tail(queue)[i] \in ToSet(Tail(queue)) /\ Tail(queue)[i] \in stored
      BY <1>2, Members
    <3>2. QED
      BY <1>2, <3>1
  <2>2. cursor' < e
    BY <1>2, <1>3, <2>1
  <2>3. QED
    BY <2>1, <2>2 DEF Accepts
<1>5. QED
  BY <1>2, <1>4, SeqWithin

-----------------------------------------------------------------------------
(* What keeps the parts of the invariant *)

LEMMA AcceptsFacts ==
  ASSUME TypeOK, Accepts
  PROVE  /\ cursor \in Nat /\ cursor' \in Nat /\ cursor <= cursor' /\ cursor' <= Len(log)
         /\ Len(log)' = Len(log) /\ Len(log) \in Nat
         /\ \A s \in stored : s \in Nat /\ s \in 1 .. Len(log)
         /\ stored' \subseteq stored /\ \A s \in stored : cursor' < s => s \in stored'
BY BaseFacts DEF Accepts

\* A fence is behind the cursor or is a row, and stays so.
LEMMA FenceKept ==
  ASSUME TypeOK, Accepts, NEW f \in Nat, f <= cursor \/ f \in stored
  PROVE  f <= cursor' \/ f \in stored'
<1>1. CASE f <= cursor
  BY <1>1, AcceptsFacts
<1>2. CASE f \in stored
  BY <1>2, AcceptsFacts
<1>3. QED
  BY <1>1, <1>2

LEMMA PastKept ==
  ASSUME TypeOK, Table, Past, Accepts, handled \subseteq handled', skipped \subseteq skipped',
         \A s \in ToSet(done') : s \in handled',
         \A s \in stored : cursor < s /\ s <= cursor' => s \in handled' \cup skipped'
  PROVE  Past'
<1>1. ASSUME NEW s \in 1 .. cursor', Row(s)' PROVE s \in handled' \cup skipped'
  <2>1. Row(s) /\ s \in 1 .. Len(log) /\ s \in Nat
    BY <1>1, AcceptsFacts DEF Row, Gap, Accepts
  <2>2. CASE s <= cursor
    <3>1. s \in 1 .. cursor
      BY <2>1, <2>2, AcceptsFacts
    <3>2. QED
      BY <2>1, <3>1 DEF Past
  <2>3. CASE ~(s <= cursor)
    <3>1. s > cursor /\ cursor < s /\ s <= cursor'
      BY <2>1, <2>3, AcceptsFacts
    <3>2. s \in stored
      BY <2>1, <3>1 DEF Table
    <3>3. QED
      BY <3>1, <3>2
  <2>4. QED
    BY <2>2, <2>3
<1>2. QED
  BY <1>1 DEF Past

CachePhases == {"replay", "running", "stopping"}

LEMMA CachesKept ==
  ASSUME TypeOK, Table, Caches, Applied, Accepts,
         phase' \in CachePhases => phase \in CachePhases,
         phase' = "rebuild" => phase = "rebuild" /\ rebuilt' = rebuilt,
         \A s : Had(s) => Had(s)',
         \A s \in stored : cursor < s /\ s <= cursor' => Had(s)'
  PROVE  Caches'
<1>1. ASSUME NEW s \in 1 .. cursor, Row(s)', Kept(opened, s)' PROVE Row(s) /\ Kept(opened, s)
  BY <1>1, KeptBefore DEF Row, Gap, Accepts
<1>2. ASSUME phase \in CachePhases, NEW s \in 1 .. cursor', Row(s)', Kept(opened, s)' PROVE Had(s)'
  <2>1. Row(s) /\ s \in 1 .. Len(log) /\ s \in Nat
    BY <1>2, AcceptsFacts DEF Row, Gap, Accepts
  <2>2. CASE s <= cursor
    <3>1. s \in 1 .. cursor
      BY <2>1, <2>2, AcceptsFacts
    <3>2. Had(s)
      BY <1>1, <1>2, <3>1 DEF Caches, CachesHoldOpenTurns, CachePhases, Had, Row
    <3>3. QED
      BY <3>2
  <2>3. CASE ~(s <= cursor)
    <3>1. s > cursor /\ cursor < s /\ s <= cursor'
      BY <2>1, <2>3, AcceptsFacts
    <3>2. s \in stored
      BY <2>1, <3>1 DEF Table
    <3>3. QED
      BY <3>1, <3>2
  <2>4. QED
    BY <2>2, <2>3
<1>3. ASSUME phase' = "rebuild", NEW s \in 1 .. rebuilt', Row(s)', Kept(opened, s)' PROVE Had(s)'
  <2>1. phase = "rebuild" /\ rebuilt' = rebuilt /\ rebuilt <= cursor /\ rebuilt \in Nat
    BY <1>3 DEF Applied, TypeOK, Sequences0
  <2>2. s \in 1 .. cursor /\ s \in 1 .. rebuilt
    BY <1>3, <2>1, AcceptsFacts
  <2>3. QED
    BY <1>1, <1>3, <2>1, <2>2 DEF Caches
<1>4. CachesHoldOpenTurns'
  BY <1>2 DEF CachesHoldOpenTurns, CachePhases, Had, Row
<1>5. QED
  BY <1>3, <1>4 DEF Caches

\* The queue as it is, with the cursor moved at most to what was done.
LEMMA LineKept ==
  ASSUME TypeOK, Line, Accepts, queue' = queue, Base' = Base, pending' \in {0, pending},
         queue # <<>> /\ (~blocked' \/ quarantine' # "no") => ~blocked \/ quarantine # "no",
         ToSet(done) \subseteq ToSet(done')
  PROVE  Line'
<1>1. Ascending(queue') /\ \A s \in ToSet(queue') : s > Base'
  BY DEF Line
<1>2. ASSUME queue' # <<>>, ~blocked' \/ quarantine' # "no",
             NEW s \in stored', Base' < s, s <= queue'[Len(queue')]
      PROVE  s \in ToSet(queue')
  BY <1>2, AcceptsFacts DEF Line
<1>3. ASSUME NEW s \in stored', cursor' < s, s <= pending' PROVE s \in ToSet(done')
  <2>1. s \in stored /\ s \in Nat /\ cursor < s
    BY <1>3, AcceptsFacts
  <2>2. pending' = pending
    BY <1>3, <2>1, AcceptsFacts
  <2>3. s \in ToSet(done)
    BY <1>3, <2>1, <2>2 DEF Line
  <2>4. QED
    BY <2>3
<1>4. ASSUME pending' > cursor' PROVE pending' \in stored'
  <2>1. pending' = pending /\ pending > cursor
    BY <1>4, BaseFacts, AcceptsFacts
  <2>2. pending \in stored
    BY <2>1 DEF Line
  <2>3. cursor' < pending
    BY <1>4, <2>1, BaseFacts, AcceptsFacts
  <2>4. QED
    BY <2>1, <2>2, <2>3, AcceptsFacts
<1>5. QED
  BY <1>1, <1>2, <1>3, <1>4 DEF Line

LEMMA QueueFacts ==
  ASSUME TypeOK, Line, queue # <<>>
  PROVE  /\ Head(queue) \in ToSet(queue) /\ Head(queue) \in stored /\ Head(queue) \in Nat
         /\ Head(queue) > Base /\ Head(queue) > cursor /\ Head(queue) \in 1 .. Len(log)
         /\ \A e \in ToSet(queue) : e \in Nat /\ Head(queue) <= e /\ e <= queue[Len(queue)]
         /\ Ascending(Tail(queue)) /\ Len(Tail(queue)) = Len(queue) - 1
         /\ ToSet(Tail(queue)) = ToSet(queue) \ {Head(queue)}
         /\ Tail(queue) # <<>> => Tail(queue)[Len(Tail(queue))] = queue[Len(queue)]
<1>1. queue \in Seq(stored) /\ stored \in SUBSET Nat /\ \A s \in stored : s \in 1 .. Len(log)
  BY BaseFacts DEF TypeOK
<1>2. Ascending(queue)
  BY DEF Line
<1>3. /\ Head(queue) \in ToSet(queue) /\ Head(queue) \in stored
      /\ \A e \in ToSet(queue) : e \in Nat /\ Head(queue) <= e /\ e <= queue[Len(queue)]
      /\ Ascending(Tail(queue)) /\ Len(Tail(queue)) = Len(queue) - 1
      /\ ToSet(Tail(queue)) = ToSet(queue) \ {Head(queue)}
      /\ Tail(queue) # <<>> => Tail(queue)[Len(Tail(queue))] = queue[Len(queue)]
  BY <1>1, <1>2, TailFacts
<1>4. PICK h : h = Head(queue)
  OBVIOUS
<1>5. h > Base /\ h \in Nat /\ h \in 1 .. Len(log)
  BY <1>1, <1>3, <1>4 DEF Line
<1>6. h > cursor
  BY <1>5, BaseFacts
<1>7. QED
  BY <1>3, <1>4, <1>5, <1>6

\* The queue without its head, behind a row that blocks it.
LEMMA LineBlocked ==
  ASSUME TypeOK, Line, Accepts, queue # <<>>, queue' = Tail(queue), Base' = Base,
         pending' = pending, blocked', quarantine' = "no", done' = done
  PROVE  Line'
<1>1. Ascending(queue') /\ \A s \in ToSet(queue') : s > Base'
  BY QueueFacts DEF Line
<1>2. ASSUME NEW s \in stored', cursor' < s, s <= pending' PROVE s \in ToSet(done')
  <2>1. s \in stored /\ cursor < s
    BY <1>2, AcceptsFacts
  <2>2. QED
    BY <1>2, <2>1 DEF Line
<1>3. ASSUME pending' > cursor' PROVE pending' \in stored'
  <2>1. pending > cursor /\ cursor' < pending
    BY <1>3, BaseFacts, AcceptsFacts
  <2>2. pending \in stored
    BY <2>1 DEF Line
  <2>3. QED
    BY <2>1, <2>2, AcceptsFacts
<1>4. QED
  BY <1>1, <1>2, <1>3 DEF Line

\* The queue without its head, which is what the process has come to.
LEMMA LineMoves ==
  ASSUME TypeOK, Line, Accepts, queue # <<>>, ~blocked \/ quarantine # "no",
         queue' = Tail(queue), Base' = Head(queue),
         \A s \in stored' : cursor' < s /\ s <= pending' => s \in ToSet(done'),
         pending' > cursor' => pending' \in stored'
  PROVE  Line'
<1> DEFINE h == Head(queue)
<1>1. h \in Nat /\ h > Base /\ Base \in Nat
  BY QueueFacts, BaseFacts
<1>2. Ascending(queue') /\ ToSet(queue') = ToSet(queue) \ {h} /\ \A e \in ToSet(queue) : e \in Nat /\ h <= e
  BY QueueFacts
<1>3. \A s \in ToSet(queue') : s > Base'
  BY <1>1, <1>2
<1>4. ASSUME queue' # <<>>, NEW s \in stored', Base' < s, s <= queue'[Len(queue')]
      PROVE  s \in ToSet(queue')
  <2>1. s \in stored /\ s \in Nat /\ h < s
    BY <1>4, AcceptsFacts
  <2>2. queue'[Len(queue')] = queue[Len(queue)]
    BY <1>4, QueueFacts
  <2>3. Base < s
    BY <1>1, <2>1
  <2>4. s \in ToSet(queue)
    BY <1>4, <2>1, <2>2, <2>3 DEF Line
  <2>5. QED
    BY <1>1, <1>2, <2>1, <2>4
<1>5. QED
  BY <1>2, <1>3, <1>4 DEF Line

LEMMA LineEmpty == ASSUME queue' = <<>>, pending' = 0, cursor' \in Nat, stored' \subseteq Nat PROVE Line'
<1>1. ToSet(queue') = {} /\ Ascending(queue')
  BY DEF ToSet, Ascending
<1>2. ASSUME NEW s \in stored', cursor' < s, s <= pending' PROVE FALSE
  BY <1>2
<1>3. QED
  BY <1>1, <1>2 DEF Line

\* Rows ahead of the cursor stay ahead.
LEMMA AheadKept ==
  ASSUME TypeOK, Accepts, NEW f \in Nat, f >= cursor', Ahead(f)
  PROVE  Ahead(f)'
<1>1. PICK s \in stored : f < s
  BY DEF Ahead
<1>2. s \in stored'
  BY <1>1, AcceptsFacts
<1>3. QED
  BY <1>1, <1>2 DEF Ahead

LEMMA HeadFailedKept ==
  ASSUME TypeOK, Accepts, NEW f \in Nat, f >= cursor', NEW n \in Nat, HeadFailed(f, n),
         \A s \in 1 .. MaxSequence : failures'[s] >= failures[s] /\ failures'[s] \in Nat,
         count["faults"] \in Nat, count'["faults"] \in Nat, count'["faults"] >= count["faults"]
  PROVE  HeadFailed(f, n)'
<1>1. \A s \in stored : f < s => s \in stored'
  BY AcceptsFacts
<1>2. \A s \in stored : s \in 1 .. MaxSequence /\ failures[s] \in Nat
  <2>1. Len(log) <= MaxSequence /\ MaxSequence \in Nat /\ failures \in [1 .. MaxSequence -> 0 .. PoisonLimit]
    BY LimitAssumption DEF TypeOK
  <2>2. \A s \in stored : s \in 1 .. MaxSequence
    BY <2>1, AcceptsFacts
  <2>3. QED
    BY <2>1, <2>2
<1>3. ASSUME NEW h \in stored', First(h, f)' PROVE failures'[h] >= n - count'["faults"]
  <2>1. h \in stored /\ f < h
    BY <1>3, AcceptsFacts DEF First
  <2>2. First(h, f)
    BY <1>1, <1>3, <2>1 DEF First
  <2>3. failures[h] >= n - count["faults"]
    BY <2>1, <2>2 DEF HeadFailed
  <2>4. failures'[h] >= failures[h] /\ failures'[h] \in Nat /\ failures[h] \in Nat
    BY <1>2, <2>1
  <2>5. QED
    BY <2>3, <2>4
<1>4. ASSUME ~Ahead(f)' PROVE n <= count'["faults"]
  <2>1. ~Ahead(f)
    BY <1>4, AheadKept
  <2>2. QED
    BY <2>1 DEF HeadFailed
<1>5. QED
  BY <1>3, <1>4 DEF HeadFailed

Drains == [who : {"none", "start", "live", "poll"}, fence : Sequences0,
           pc : {"off", "flush", "page", "work", "check", "bury"}, from : Sequences0]

Lives == [pc : {"take", "want", "drain", "after", "dead"}, fence : Sequences0, ok : BOOLEAN]

CountGrows == /\ CountOK' /\ count["faults"] \in Nat /\ count'["faults"] \in Nat
              /\ count'["faults"] >= count["faults"]

LEMMA OccurGrows == ASSUME TypeOK, NEW what \in DOMAIN Bounds, Occur(what) PROVE CountGrows
<1>1. CountOK /\ "faults" \in DOMAIN Bounds
  BY Occurrences DEF CountOK, TypeOK
<1>2. CountOK' /\ count["faults"] \in Nat /\ count'["faults"] \in Nat
  BY <1>1, OccurDoes
<1>3. count'["faults"] >= count["faults"]
  BY <1>1, OccurDoes
<1>4. QED
  BY <1>2, <1>3 DEF CountGrows

LEMMA CountSame == ASSUME TypeOK, count' = count PROVE CountGrows
<1>1. "faults" \in DOMAIN Bounds /\ Bounds' = Bounds /\ Bounds["faults"] \in Nat
  BY Occurrences, BoundAssumption DEF Bounds
<1>2. count["faults"] \in Nat
  BY <1>1 DEF TypeOK
<1>3. QED
  BY <1>1, <1>2 DEF CountGrows, CountOK, TypeOK

LEMMA FencesKept ==
  ASSUME TypeOK, Accepts, Fences,
         \A f \in {drain'.fence, live'.fence, requested'} :
            f \in {0, drain.fence, live.fence, requested} \cup stored'
  PROVE  Fences'
<1>1. drain.fence \in Nat /\ live.fence \in Nat /\ requested \in Nat
  BY LimitAssumption, BaseFacts DEF TypeOK, Sequences0
<1>2. \A f \in {drain.fence, live.fence, requested} : f <= cursor' \/ f \in stored'
  BY <1>1, FenceKept DEF Fences
<1>3. 0 <= cursor'
  BY AcceptsFacts
<1>4. QED
  BY <1>2, <1>3 DEF Fences

LEMMA ProgressKept ==
  ASSUME TypeOK, Accepts, Progress, gate' = gate, Base' = Base, cursor' <= Base,
         drain' = drain \/ drain'.pc \in {"off", "flush", "page"},
         drain.pc = "bury" => cursor' = cursor,
         blocked' = blocked, queue' = <<>> /\ ~blocked => queue = <<>>
  PROVE  Progress'
<1>1. cursor \in Nat /\ cursor' \in Nat /\ cursor <= cursor' /\ Base \in Nat /\ Base >= cursor'
      /\ gate.cursor \in Int /\ gate.cursor <= cursor
  <2>1. gate.cursor \in Int
    BY LimitAssumption DEF TypeOK
  <2>2. gate.cursor <= cursor
    BY DEF Progress
  <2>3. QED
    BY <2>1, <2>2, AcceptsFacts, BaseFacts
<1>2. gate'.cursor <= cursor'
  BY <1>1
<1>3. CASE drain'.pc \in {"off", "flush", "page"}
  BY <1>2, <1>3 DEF Progress
<1>4. CASE drain' = drain
  <2>1. drain.from \in Nat
    BY LimitAssumption DEF TypeOK, Sequences0
  <2>2. Ahead(Base) => Ahead(Base)'
    <3>1. PICK b \in Nat : b = Base
      BY <1>1
    <3>2. Ahead(b) => Ahead(b)'
      BY <1>1, <3>1, AheadKept
    <3>3. QED
      BY <3>1, <3>2 DEF Ahead
  <2>3. drain.pc = "bury" => Ahead(cursor)'
    <3>1. ASSUME drain.pc = "bury" PROVE Ahead(cursor)'
      <4>1. cursor' = cursor /\ Ahead(cursor)
        BY <3>1 DEF Progress
      <4>2. PICK c \in Nat : c = cursor
        BY <1>1
      <4>3. Ahead(c)'
        BY <4>1, <4>2, AheadKept DEF Ahead
      <4>4. QED
        BY <4>1, <4>2, <4>3 DEF Ahead
    <3>2. QED
      BY <3>1
  <2>4. drain.pc \in {"work", "check"} => gate'.cursor <= drain.from /\ drain.from <= cursor'
    BY <1>1, <2>1 DEF Progress
  <2>5. drain.pc = "work" /\ ~blocked' /\ queue' = <<>> => Base' > drain.from
    BY DEF Progress
  <2>6. drain.pc = "check" /\ ~blocked' => cursor' > drain.from
    BY <1>1, <2>1 DEF Progress
  <2>7. drain.pc \in {"work", "check"} /\ blocked' => cursor' > drain.from \/ Ahead(Base)'
    BY <1>1, <2>1, <2>2 DEF Progress
  <2>8. drain.pc = "bury" => gate'.cursor = cursor' /\ gate'.count = PoisonLimit
    BY DEF Progress
  <2>9. QED
    BY <1>2, <1>4, <2>3, <2>4, <2>5, <2>6, <2>7, <2>8 DEF Progress
<1>5. QED
  BY <1>3, <1>4

LEMMA CountedFacts ==
  ASSUME TypeOK
  PROVE  /\ Counted \in Nat /\ gate.count \in Nat /\ gate.cursor \in Int
         /\ Counted \in 0 .. PoisonLimit /\ PoisonLimit \in Nat \ {0}
         /\ gate.cursor = Base => Counted = IF gate.count + 1 > PoisonLimit THEN PoisonLimit ELSE gate.count + 1
         /\ gate.cursor # Base => Counted = 1
<1>1. gate.count \in 0 .. PoisonLimit /\ gate.cursor \in -1 .. MaxSequence /\ PoisonLimit \in Nat \ {0}
      /\ MaxSequence \in Nat
  BY LimitAssumption DEF TypeOK
<1>2. Seen = IF gate.cursor = Base THEN gate.count + 1 ELSE 1
  BY DEF Seen
<1>3. Seen \in Nat /\ Counted = IF Seen > PoisonLimit THEN PoisonLimit ELSE Seen
  BY <1>1, <1>2 DEF Counted
<1>4. QED
  BY <1>1, <1>2, <1>3

FailuresGrow == \A s \in 1 .. MaxSequence : failures'[s] >= failures[s] /\ failures'[s] \in Nat

LEMMA FailuresSame == ASSUME TypeOK, failures' = failures PROVE FailuresGrow
<1>1. \A s \in 1 .. MaxSequence : failures[s] \in Nat
  BY LimitAssumption DEF TypeOK
<1>2. QED
  BY <1>1 DEF FailuresGrow

\* The gate counted for the cursor as it is.
LEMMA RestingFailures ==
  ASSUME TypeOK, Accepts, Failures, Progress, gate' = gate, FailuresGrow, CountGrows
  PROVE  gate'.cursor = cursor' => HeadFailed(cursor, gate.count)'
<1>1. ASSUME gate'.cursor = cursor' PROVE HeadFailed(cursor, gate.count)'
  <2>1. cursor' = cursor /\ gate.cursor = cursor
    BY <1>1, AcceptsFacts, CountedFacts DEF Progress
  <2>2. PICK c \in Nat, n \in Nat : c = cursor /\ n = gate.count
    BY AcceptsFacts, CountedFacts
  <2>3. HeadFailed(c, n)
    BY <2>1, <2>2 DEF Failures
  <2>4. c >= cursor'
    BY <2>1, <2>2
  <2>5. HeadFailed(c, n)'
    BY <2>3, <2>4, HeadFailedKept DEF FailuresGrow, CountGrows
  <2>6. c = cursor' /\ n = gate'.count
    BY <2>1, <2>2
  <2>7. QED
    BY <2>5, <2>6 DEF HeadFailed, First, Ahead
<1>2. QED
  BY <1>1

LEMMA FailuresKept ==
  ASSUME TypeOK, Accepts, Failures, Progress, gate' = gate, Base' = Base, cursor' <= Base,
         FailuresGrow, CountGrows,
         drain'.pc \in {"work", "check"} /\ blocked' => drain.pc \in {"work", "check"} /\ blocked
  PROVE  Failures'
<1>1. gate'.cursor = cursor' => HeadFailed(cursor, gate.count)'
  BY RestingFailures
<1>2. ASSUME drain'.pc \in {"work", "check"}, blocked' PROVE HeadFailed(Base, Counted)'
  <2>1. HeadFailed(Base, Counted)
    BY <1>2 DEF Failures
  <2>2. PICK b \in Nat, n \in Nat : b = Base /\ n = Counted
    BY BaseFacts, CountedFacts
  <2>3. HeadFailed(b, n)
    BY <2>1, <2>2
  <2>4. HeadFailed(b, n)'
    BY <2>2, <2>3, HeadFailedKept DEF FailuresGrow, CountGrows
  <2>5. Counted' = Counted
    BY DEF Counted, Seen
  <2>6. b = Base' /\ n = Counted'
    BY <2>2, <2>5
  <2>7. QED
    BY <2>4, <2>6 DEF HeadFailed, First, Ahead
<1>3. QED
  BY <1>1, <1>2 DEF Failures

\* Steps that touch neither the tables nor the worker.
Quiet ==
  /\ UNCHANGED <<log, stored, cursor, opened, scanned, queue, quarantine, pending, blocked,
                 done, missed, failures, handled, skipped, rebuilt>>
  /\ garbled' \subseteq stored
  /\ phase' \in CachePhases => phase \in CachePhases
  /\ Starting' => phase' = phase

LEMMA QuietKeeps ==
  ASSUME IInv, Quiet
  PROVE  Accepts /\ Base' = Base /\ Table' /\ Past' /\ Line' /\ Applied' /\ Caches'
<1>1. Accepts
  <2>1. cursor \in cursor .. Len(log)
    BY DEF IInv, TypeOK
  <2>2. QED
    BY <2>1 DEF IInv, TypeOK, Quiet, Accepts
<1>2. Base' = Base
  BY DEF Base, Quiet
<1>3. Table'
  BY <1>1, TableKept DEF IInv
<1>4. \A s \in stored : ~(cursor < s /\ s <= cursor')
  BY AcceptsFacts, <1>1 DEF IInv, Quiet
<1>5. Past'
  BY <1>1, <1>4, PastKept DEF IInv, Quiet, Past
<1>6. Line'
  BY <1>1, <1>2, LineKept DEF IInv, Quiet
<1>7. Applied'
  BY <1>2 DEF IInv, Quiet, Applied, Starting
<1>8. \A s : Had(s) => Had(s)'
  BY DEF Had, Quiet
<1>9. Caches'
  <2>1. phase' = "rebuild" => phase = "rebuild" /\ rebuilt' = rebuilt
    BY DEF Quiet, Starting
  <2>2. QED
    BY <1>1, <1>4, <1>8, <2>1, CachesKept DEF IInv, Quiet
<1>10. QED
  BY <1>1, <1>2, <1>3, <1>5, <1>6, <1>7, <1>9

PhaseNames == {"prune", "rebuild", "replay", "running", "stopping", "down", "dead"}
Gates == [cursor : -1 .. MaxSequence, count : 0 .. PoisonLimit]

LEMMA QuietTypes ==
  ASSUME IInv, Quiet, phase' \in PhaseNames, drain' \in Drains, gate' \in Gates, aged' \in BOOLEAN,
         live' \in Lives, requested' \in 0 .. Len(log), wake' \in BOOLEAN, CountGrows
  PROVE  TypeOK'
<1>1. Bounds' = Bounds /\ Sequences0' = Sequences0
  BY DEF Bounds, Sequences0
<1>2. DOMAIN count' = DOMAIN Bounds /\ \A what \in DOMAIN Bounds : count'[what] \in 0 .. Bounds[what]
  BY <1>1 DEF CountGrows, CountOK
<1>3. QED
  BY <1>1, <1>2 DEF IInv, TypeOK, Quiet, PhaseNames, Drains, Gates, Lives

LEMMA QuietPhases ==
  ASSUME IInv, Quiet,
         drain' = NoDrain \/ (drain'.pc = "flush" /\ queue = <<>>) \/ drain' = drain,
         drain' # NoDrain => phase' \in {"replay", "running"}
  PROVE  Phases'
<1>1. NoDrain.pc = "off"
  BY DEF NoDrain
<1>2. Starting' => Starting /\ drain' = NoDrain
  BY DEF Quiet, Starting
<1>3. QED
  BY <1>1, <1>2 DEF IInv, Phases, Quiet

LEMMA QuietStep ==
  ASSUME IInv, Quiet, gate' = gate, CountGrows, phase' \in PhaseNames, aged' \in BOOLEAN, wake' \in BOOLEAN,
         live' \in Lives, requested' \in 0 .. Len(log), drain' \in Drains,
         drain' = NoDrain \/ (drain'.pc = "flush" /\ queue = <<>>) \/ drain' = drain,
         drain' # NoDrain => phase' \in {"replay", "running"},
         \A f \in {drain'.fence, live'.fence, requested'} :
            f \in {0, drain.fence, live.fence, requested} \cup stored
  PROVE  IInv'
<1>1. Accepts /\ Base' = Base /\ Table' /\ Past' /\ Line' /\ Applied' /\ Caches'
  BY QuietKeeps
<1>2. Fences'
  BY <1>1, FencesKept DEF IInv, Quiet
<1>3. cursor' = cursor /\ cursor' <= Base /\ blocked' = blocked /\ queue' = queue
  BY BaseFacts DEF IInv, Quiet
<1>4. drain' = drain \/ drain'.pc \in {"off", "flush", "page"}
  BY DEF NoDrain
<1>5. Progress'
  BY <1>1, <1>3, <1>4, ProgressKept DEF IInv
<1>6. FailuresGrow
  BY FailuresSame DEF IInv, Quiet
<1>7. Failures'
  BY <1>1, <1>3, <1>4, <1>6, FailuresKept DEF IInv
<1>8. TypeOK'
  <2>1. gate \in Gates
    BY DEF IInv, TypeOK, Gates
  <2>2. QED
    BY <2>1, QuietTypes
<1>9. Phases'
  BY QuietPhases
<1>10. QED
  BY <1>1, <1>2, <1>5, <1>7, <1>8, <1>9 DEF IInv

LEMMA TopOfTable ==
  ASSUME TypeOK
  PROVE  (IF stored = {} THEN 0 ELSE Max(stored)) \in {0} \cup stored
<1>1. stored \in SUBSET (0 .. Len(log)) /\ Len(log) \in Nat
  BY BaseFacts
<1>2. QED
  BY <1>1, MaxFacts

LEMMA Numbers ==
  ASSUME TypeOK
  PROVE  /\ stored \subseteq Sequences0 /\ cursor \in Sequences0 /\ requested \in Sequences0
         /\ 0 \in Sequences0 /\ \A s \in stored : s \in 1 .. MaxSequence
         /\ 0 .. Len(log) \subseteq Sequences0
<1>1. Len(log) \in Nat /\ MaxSequence \in Nat /\ Len(log) <= MaxSequence
  BY LimitAssumption, BaseFacts DEF TypeOK
<1>2. 0 .. Len(log) \subseteq Sequences0 /\ 1 .. Len(log) \subseteq 1 .. MaxSequence
  BY <1>1 DEF Sequences0
<1>3. stored \subseteq 1 .. Len(log) /\ stored \subseteq 0 .. Len(log)
  BY BaseFacts
<1>4. cursor \in 0 .. Len(log) /\ requested \in 0 .. Len(log) /\ 0 \in 0 .. Len(log)
  BY <1>1 DEF TypeOK
<1>5. QED
  BY <1>2, <1>3, <1>4

LEMMA AcquireDoes ==
  ASSUME TypeOK, NEW who \in {"start", "live", "poll"}, NEW fence \in Sequences0, Acquire(who, fence)
  PROVE  /\ drain = NoDrain /\ queue = <<>> /\ drain' \in Drains /\ drain' # NoDrain
         /\ drain'.pc = "flush" /\ drain'.fence = fence
BY Numbers DEF Acquire, WorkerIdle, Drains, NoDrain

LEMMA ReleaseDoes ==
  ASSUME TypeOK, Phases, drain # NoDrain, NEW how \in {"drained", "blocked", "failed"}, Release(how)
  PROVE  /\ drain' = NoDrain /\ drain' \in Drains /\ live' \in Lives /\ live'.fence = live.fence
         /\ phase' \in {phase, "running", "dead"} /\ phase \in {"replay", "running"}
<1>1. drain' = NoDrain /\ drain' \in Drains
  BY Numbers DEF Release, NoDrain, Drains
<1>2. phase' \in {phase, "running", "dead"} /\ phase \in {"replay", "running"}
  BY DEF Release, Phases
<1>3. live' \in Lives /\ live'.fence = live.fence
  <2>1. live \in Lives
    BY DEF TypeOK, Lives
  <2>2. CASE drain.who # "live"
    BY <2>1, <2>2 DEF Release
  <2>3. CASE drain.who = "live"
    <3>1. live' = [live EXCEPT !.pc = "after", !.ok = (how = "drained")]
      BY <2>3 DEF Release
    <3>2. live' = [pc |-> "after", fence |-> live.fence, ok |-> (how = "drained")]
      BY <2>1, <3>1 DEF Lives
    <3>3. (how = "drained") \in BOOLEAN
      OBVIOUS
    <3>4. QED
      BY <2>1, <3>2, <3>3 DEF Lives
  <2>4. QED
    BY <2>2, <2>3
<1>4. QED
  BY <1>1, <1>2, <1>3

LEMMA GoToDoes ==
  ASSUME TypeOK, NEW pc \in {"flush", "page", "work", "check", "bury"}, GoTo(pc)
  PROVE  /\ drain' \in Drains /\ drain'.pc = pc /\ drain'.fence = drain.fence /\ drain'.from = drain.from
         /\ drain' # NoDrain /\ phase' = phase /\ live' = live
<1>1. drain \in Drains
  BY DEF TypeOK, Drains
<1>2. drain' = [who |-> drain.who, fence |-> drain.fence, pc |-> pc, from |-> drain.from]
  BY <1>1 DEF GoTo, Drains
<1>3. QED
  BY <1>1, <1>2 DEF GoTo, Drains, NoDrain

LEMMA AgainDoes ==
  ASSUME TypeOK, Again
  PROVE  /\ drain' \in Drains /\ drain'.pc = "flush" /\ drain'.fence = drain.fence
         /\ drain' # NoDrain /\ phase' = phase /\ live' = live
<1>1. drain \in Drains
  BY DEF TypeOK, Drains
<1>2. drain' = [who |-> drain.who, fence |-> drain.fence, pc |-> "flush", from |-> 0]
  BY <1>1 DEF Again, Drains
<1>3. QED
  BY <1>1, <1>2, Numbers DEF Again, Drains, NoDrain

-----------------------------------------------------------------------------
(* The actions, first those that touch neither the tables nor the worker *)

LEMMA Typed ==
  ASSUME TypeOK
  PROVE  /\ phase \in PhaseNames /\ drain \in Drains /\ gate \in Gates /\ live \in Lives
         /\ requested \in 0 .. Len(log) /\ wake \in BOOLEAN /\ aged \in BOOLEAN
         /\ drain.fence \in Sequences0 /\ live.fence \in Sequences0 /\ drain.from \in Sequences0
BY DEF TypeOK, PhaseNames, Drains, Gates, Lives

LEMMA DrainReturnsStep == ASSUME IInv, DrainReturns PROVE IInv'
<1> USE DEF IInv
<1>1. drain # NoDrain /\ Release("drained") /\ count' = count /\ gate' = gate
  BY DEF DrainReturns, At, NoDrain, gateVars
<1>2. /\ drain' = NoDrain /\ drain' \in Drains /\ live' \in Lives /\ live'.fence = live.fence
      /\ phase' \in {phase, "running", "dead"} /\ phase \in {"replay", "running"}
  BY <1>1, ReleaseDoes
<1>3. Quiet
  BY <1>2 DEF DrainReturns, Quiet, CachePhases, Starting, ackVars, ownVars, pastVars, TypeOK
<1>4. requested' = requested /\ wake' = wake /\ aged' = aged
  BY DEF DrainReturns, gateVars
<1>5. CountGrows
  BY <1>1, CountSame
<1>6. drain'.fence = 0
  BY <1>2 DEF NoDrain
<1>7. QED
  BY <1>1, <1>2, <1>3, <1>4, <1>5, <1>6, Typed, QuietStep DEF PhaseNames

LEMMA DrainFailsStep == ASSUME IInv, DrainFails PROVE IInv'
<1> USE DEF IInv
<1>1. drain # NoDrain /\ Release("failed") /\ gate' = gate
  BY DEF DrainFails, At, NoDrain, gateVars
<1>2. /\ drain' = NoDrain /\ drain' \in Drains /\ live' \in Lives /\ live'.fence = live.fence
      /\ phase' \in {phase, "running", "dead"} /\ phase \in {"replay", "running"}
  BY <1>1, ReleaseDoes
<1>3. Quiet
  BY <1>2 DEF DrainFails, Quiet, CachePhases, Starting, ackVars, ownVars, pastVars, TypeOK
<1>4. requested' = requested /\ wake' = wake /\ aged' = aged
  BY DEF DrainFails, gateVars
<1>5. CountGrows
  <2>1. count' = count \/ Occur("faults")
    BY DEF DrainFails
  <2>2. QED
    BY <2>1, CountSame, OccurGrows, Occurrences
<1>6. drain'.fence = 0
  BY <1>2 DEF NoDrain
<1>7. QED
  BY <1>1, <1>2, <1>3, <1>4, <1>5, <1>6, Typed, QuietStep DEF PhaseNames

LEMMA DrainNextPageStep == ASSUME IInv, DrainNextPage PROVE IInv'
<1> USE DEF IInv
<1>1. drain.pc = "check" /\ Again /\ count' = count /\ gate' = gate
  BY DEF DrainNextPage, At, gateVars
<1>2. /\ drain' \in Drains /\ drain'.pc = "flush" /\ drain'.fence = drain.fence
      /\ phase' = phase /\ live' = live
  BY <1>1, AgainDoes
<1>3. queue = <<>> /\ phase \in {"replay", "running"}
  BY <1>1 DEF Phases, NoDrain
<1>4. Quiet
  BY <1>2 DEF DrainNextPage, Quiet, CachePhases, Starting, ackVars, ownVars, pastVars, TypeOK
<1>5. requested' = requested /\ wake' = wake /\ aged' = aged
  BY DEF DrainNextPage, gateVars
<1>6. CountGrows
  BY <1>1, CountSame
<1>7. QED
  BY <1>1, <1>2, <1>3, <1>4, <1>5, <1>6, Typed, QuietStep

LEMMA AgeStep == ASSUME IInv, Age PROVE IInv'
<1> USE DEF IInv
<1>1. /\ aged' \in BOOLEAN /\ gate' = gate /\ drain' = drain /\ live' = live /\ phase' = phase
      /\ requested' = requested /\ wake' = wake /\ count' = count
  BY DEF Age, liveVars
<1>2. Quiet
  BY <1>1 DEF Age, Quiet, Starting, ackVars, ownVars, pastVars, TypeOK
<1>3. CountGrows
  BY <1>1, CountSame
<1>4. drain # NoDrain => phase \in {"replay", "running"}
  BY DEF Phases
<1>5. QED
  BY <1>1, <1>2, <1>3, <1>4, Typed, QuietStep

\* A poll, a live drain and the startup's drain begin alike.
LEMMA BeginsDrain ==
  ASSUME IInv, Quiet, NEW who \in {"start", "live", "poll"}, NEW fence \in Sequences0, Acquire(who, fence),
         fence \in {0, live.fence} \cup stored, phase' = phase, phase \in {"replay", "running"},
         live' \in Lives, live'.fence = live.fence, UNCHANGED <<gate, aged, requested, wake, count>>
  PROVE  IInv'
<1> USE DEF IInv
<1>1. drain' \in Drains /\ drain'.pc = "flush" /\ drain'.fence = fence /\ queue = <<>>
  BY AcquireDoes
<1>2. CountGrows
  BY CountSame
<1>3. QED
  BY <1>1, <1>2, Typed, QuietStep

LEMMA PollStep == ASSUME IInv, Poll PROVE IInv'
<1> USE DEF IInv
<1> DEFINE top == IF stored = {} THEN 0 ELSE Max(stored)
<1>1. /\ phase = "running" /\ Acquire("poll", top) /\ phase' = phase /\ live' = live
      /\ UNCHANGED <<gate, aged, requested, wake, count>>
  BY DEF Poll, gateVars, liveVars
<1>2. top \in {0} \cup stored
  BY TopOfTable
<1>3. top \in Sequences0
  BY <1>2, Numbers
<1>4. Quiet
  BY <1>1 DEF Poll, Quiet, Starting, ackVars, ownVars, pastVars, TypeOK
<1> HIDE DEF top
<1>5. QED
  BY <1>1, <1>2, <1>3, <1>4, Typed, BeginsDrain

LEMMA StartDrainStep == ASSUME IInv, StartDrain PROVE IInv'
<1> USE DEF IInv
<1> DEFINE top == IF stored = {} THEN 0 ELSE Max(stored)
<1>1. /\ phase = "replay" /\ Acquire("start", top) /\ phase' = phase /\ live' = live
      /\ UNCHANGED <<gate, aged, requested, wake, count>>
  BY DEF StartDrain, gateVars, liveVars
<1>2. top \in {0} \cup stored
  BY TopOfTable
<1>3. top \in Sequences0
  BY <1>2, Numbers
<1>4. Quiet
  BY <1>1 DEF StartDrain, Quiet, Starting, ackVars, ownVars, pastVars, TypeOK
<1> HIDE DEF top
<1>5. QED
  BY <1>1, <1>2, <1>3, <1>4, Typed, BeginsDrain

LEMMA LiveDrainStep == ASSUME IInv, LiveDrain PROVE IInv'
<1> USE DEF IInv
<1>1. /\ phase = "running" /\ Acquire("live", live.fence) /\ phase' = phase
      /\ UNCHANGED <<gate, aged, requested, wake, count>>
      /\ live' = [live EXCEPT !.pc = "drain"]
  BY DEF LiveDrain, gateVars
<1>2. live \in Lives /\ live.fence \in Sequences0
  BY Typed
<1>3. live' \in Lives /\ live'.fence = live.fence
  BY <1>1, <1>2 DEF Lives
<1>4. Quiet
  BY <1>1 DEF LiveDrain, Quiet, Starting, ackVars, ownVars, pastVars, TypeOK
<1>5. QED
  BY <1>1, <1>2, <1>3, <1>4, BeginsDrain

\* Steps of the live fiber and of notifications.
LEMMA LiveOnly ==
  ASSUME IInv, Quiet, live' \in Lives, live'.fence \in {live.fence, requested}, CountGrows,
         requested' \in {requested} \cup stored, wake' \in BOOLEAN, UNCHANGED <<phase, drain, gate, aged>>
  PROVE  IInv'
<1> USE DEF IInv
<1>1. drain # NoDrain => phase \in {"replay", "running"}
  BY DEF Phases
<1>2. requested' \in 0 .. Len(log)
  <2>1. stored \subseteq 0 .. Len(log)
    BY BaseFacts
  <2>2. QED
    BY <2>1, Typed
<1>3. QED
  BY <1>1, <1>2, Typed, QuietStep

LEMMA NotifyStep == ASSUME IInv, Notify PROVE IInv'
<1> USE DEF IInv
<1>1. /\ Occur("notices") /\ requested' \in stored /\ wake' = TRUE /\ live' = live
      /\ UNCHANGED <<phase, drain, gate, aged>>
  BY DEF Notify, gateVars
<1>2. CountGrows
  BY <1>1, OccurGrows, Occurrences
<1>3. Quiet
  BY <1>1 DEF Notify, Quiet, Starting, ackVars, ownVars, pastVars, TypeOK
<1>4. QED
  BY <1>1, <1>2, <1>3, Typed, LiveOnly

LEMMA LiveTakeStep == ASSUME IInv, LiveTake PROVE IInv'
<1> USE DEF IInv
<1>1. /\ live' = [live EXCEPT !.pc = "want", !.fence = requested] /\ wake' = FALSE
      /\ requested' = requested /\ count' = count
      /\ UNCHANGED <<phase, drain, gate, aged>>
  BY DEF LiveTake, gateVars
<1>2. live \in Lives /\ requested \in Sequences0
  BY Typed, Numbers
<1>3. live' = [pc |-> "want", fence |-> requested, ok |-> live.ok]
  BY <1>1, <1>2 DEF Lives
<1>4. live' \in Lives /\ live'.fence = requested
  BY <1>2, <1>3 DEF Lives
<1>5. CountGrows
  BY <1>1, CountSame
<1>6. Quiet
  BY <1>1 DEF LiveTake, Quiet, Starting, ackVars, ownVars, pastVars, TypeOK
<1>7. QED
  BY <1>1, <1>4, <1>5, <1>6, LiveOnly

LEMMA LiveAfterStep == ASSUME IInv, LiveAfter PROVE IInv'
<1> USE DEF IInv
<1>1. /\ requested' = requested /\ wake' = wake /\ UNCHANGED <<phase, drain, gate, aged>>
      /\ count' = count \/ Occur("faults")
      /\ \/ live' = [live EXCEPT !.pc = "want", !.fence = requested]
         \/ live' = [live EXCEPT !.pc = "take"]
         \/ live' = [live EXCEPT !.pc = "dead"]
  BY DEF LiveAfter, gateVars
<1>2. live \in Lives /\ requested \in Sequences0 /\ wake \in BOOLEAN
  BY Typed, Numbers
<1>3. \/ live' = [pc |-> "want", fence |-> requested, ok |-> live.ok]
      \/ live' = [pc |-> "take", fence |-> live.fence, ok |-> live.ok]
      \/ live' = [pc |-> "dead", fence |-> live.fence, ok |-> live.ok]
  BY <1>1, <1>2 DEF Lives
<1>4. live' \in Lives /\ live'.fence \in {live.fence, requested}
  BY <1>2, <1>3 DEF Lives
<1>5. CountGrows
  BY <1>1, CountSame, OccurGrows, Occurrences
<1>6. Quiet
  BY <1>1 DEF LiveAfter, Quiet, Starting, ackVars, ownVars, pastVars, TypeOK
<1>7. QED
  BY <1>1, <1>2, <1>4, <1>5, <1>6, LiveOnly

LEMMA UpgradeStep == ASSUME IInv, Upgrade PROVE IInv'
<1> USE DEF IInv
<1>1. /\ Occur("upgrades") /\ requested' = requested /\ wake' = wake /\ live' = live
      /\ UNCHANGED <<phase, drain, gate, aged>>
  BY DEF Upgrade, gateVars, liveVars
<1>2. CountGrows
  BY <1>1, OccurGrows, Occurrences
<1>3. garbled' \subseteq stored
  BY DEF Upgrade, TypeOK
<1>4. Quiet
  BY <1>1, <1>3 DEF Upgrade, Quiet, Starting, ackVars, ownVars, pastVars
<1>5. QED
  BY <1>1, <1>2, <1>4, Typed, LiveOnly

LEMMA RebuildFailsStep == ASSUME IInv, RebuildFails PROVE IInv'
<1> USE DEF IInv
<1>1. /\ phase = "rebuild" /\ phase' = "dead" /\ (count' = count \/ Occur("faults"))
      /\ UNCHANGED <<drain, gate, aged, live, requested, wake>>
  BY DEF RebuildFails, gateVars, liveVars
<1>2. CountGrows
  BY <1>1, CountSame, OccurGrows, Occurrences
<1>3. Quiet
  BY <1>1 DEF RebuildFails, Quiet, Starting, CachePhases, ackVars, ownVars, pastVars, TypeOK
<1>4. drain = NoDrain
  BY <1>1 DEF Phases, Starting
<1>5. QED
  BY <1>1, <1>2, <1>3, <1>4, Typed, QuietStep DEF PhaseNames

LEMMA StopStep == ASSUME IInv, Stop PROVE IInv'
<1> USE DEF IInv
<1>1. /\ phase = "running" /\ phase' = "stopping" /\ Occur("restarts") /\ drain' = NoDrain /\ live' = Asleep
      /\ requested' = 0 /\ wake' = FALSE /\ gate' = gate /\ aged' = aged
  BY DEF Stop, gateVars
<1>2. CountGrows
  BY <1>1, OccurGrows, Occurrences
<1>3. Quiet
  BY <1>1 DEF Stop, Quiet, Starting, CachePhases, ackVars, ownVars, pastVars, TypeOK
<1>4. drain' \in Drains /\ live' \in Lives /\ drain'.fence = 0 /\ live'.fence = 0 /\ 0 \in 0 .. Len(log)
  BY <1>1, Numbers, BaseFacts DEF Drains, Lives, NoDrain, Asleep
<1>5. QED
  BY <1>1, <1>2, <1>3, <1>4, Typed, QuietStep DEF PhaseNames

LEMMA HeadFailedSame ==
  ASSUME NEW f \in Nat, NEW n \in Nat, HeadFailed(f, n), UNCHANGED <<stored, failures, count>>
  PROVE  HeadFailed(f, n)'
BY DEF HeadFailed, First, Ahead

LEMMA NoteBlockedStep == ASSUME IInv, NoteBlocked PROVE IInv'
<1> USE DEF IInv
<1>1. /\ drain.pc = "check" /\ blocked /\ gate'.cursor = cursor
      /\ UNCHANGED <<log, garbled, ackVars, rebuilt, queue, quarantine, pending, blocked, requested,
                     wake, count, ownVars, pastVars>>
  BY DEF NoteBlocked, At
<1>2. drain # NoDrain /\ pending = 0 /\ Base = cursor /\ queue = <<>> /\ phase \in {"replay", "running"}
      /\ quarantine = "no"
  BY <1>1, BaseFacts DEF Phases, NoDrain
<1>3. gate' = [cursor |-> cursor, count |-> Counted] /\ aged' \in BOOLEAN
      /\ (aged' => gate.cursor = cursor) /\ Counted = IF Seen > PoisonLimit THEN PoisonLimit ELSE Seen
  BY <1>1, <1>2 DEF NoteBlocked, Counted, Seen, SameHead
<1>4. (GoTo("bury") /\ Seen >= PoisonLimit /\ gate.cursor = cursor) \/ Release("blocked")
  BY <1>2, <1>3 DEF NoteBlocked, SameHead, Seen
<1>5. /\ drain' \in Drains /\ live' \in Lives /\ live'.fence = live.fence
      /\ phase' \in {phase, "running", "dead"}
      /\ \/ drain' = NoDrain
         \/ /\ drain' # NoDrain /\ drain'.pc = "bury" /\ drain'.fence = drain.fence /\ phase' = phase
            /\ Seen >= PoisonLimit /\ gate.cursor = cursor
  <2>1. CASE GoTo("bury") /\ Seen >= PoisonLimit /\ gate.cursor = cursor
    BY <2>1, Typed, GoToDoes
  <2>2. CASE Release("blocked")
    BY <1>2, <2>2, ReleaseDoes
  <2>3. QED
    BY <1>4, <2>1, <2>2
<1>6. Quiet
  BY <1>1, <1>2, <1>5 DEF Quiet, CachePhases, Starting, ackVars, ownVars, pastVars, TypeOK
<1>7. Accepts /\ Base' = Base /\ Table' /\ Past' /\ Line' /\ Applied' /\ Caches'
  BY <1>6, QuietKeeps
<1>8. gate' \in Gates
  BY <1>3, CountedFacts, Numbers, LimitAssumption DEF Gates, Sequences0
<1>9. TypeOK'
  BY <1>1, <1>2, <1>3, <1>5, <1>6, <1>8, Typed, CountSame, QuietTypes DEF PhaseNames
<1>10. Phases'
  BY <1>1, <1>2, <1>5 DEF Phases, NoDrain, Starting
<1>11. Fences'
  <2>1. \A f \in {drain'.fence, live'.fence, requested'} : f \in {0, drain.fence, live.fence, requested}
    BY <1>1, <1>5 DEF NoDrain
  <2>2. QED
    BY <1>7, <2>1, FencesKept
<1>12. HeadFailed(cursor, Counted)
  BY <1>1, <1>2 DEF Failures
<1>13. cursor' = cursor /\ stored' = stored
  BY <1>1 DEF ackVars
<1>14. Failures'
  <2>1. PICK c \in Nat, n \in Nat : c = cursor /\ n = Counted
    BY BaseFacts, CountedFacts
  <2>2. HeadFailed(c, n)'
    BY <1>1, <1>12, <2>1, HeadFailedSame DEF ackVars, ownVars
  <2>3. c = cursor' /\ n = gate'.count
    BY <1>3, <1>13, <2>1
  <2>4. HeadFailed(cursor, gate.count)'
    BY <2>2, <2>3 DEF HeadFailed, First, Ahead
  <2>5. drain'.pc \notin {"work", "check"}
    BY <1>5 DEF NoDrain
  <2>6. QED
    BY <2>4, <2>5 DEF Failures
<1>15. Progress'
  <2>1. gate'.cursor <= cursor'
    BY <1>1, <1>13, BaseFacts
  <2>2. CASE drain' = NoDrain
    BY <2>1, <2>2 DEF Progress, NoDrain
  <2>3. CASE drain'.pc = "bury" /\ Seen >= PoisonLimit /\ gate.cursor = cursor
    <3>1. Ahead(cursor)
      <4>1. gate.cursor <= drain.from /\ drain.from <= cursor /\ (cursor > drain.from \/ Ahead(Base))
        BY <1>1 DEF Progress
      <4>2. drain.from \in Nat /\ cursor \in Nat
        BY Typed, BaseFacts DEF Sequences0
      <4>3. ~(cursor > drain.from)
        BY <2>3, <4>1, <4>2
      <4>4. QED
        BY <1>2, <4>1, <4>3
    <3>2. Ahead(cursor)'
      BY <1>13, <3>1 DEF Ahead
    <3>3. gate'.count = PoisonLimit
      BY <1>3, <2>3, CountedFacts DEF Seen
    <3>4. QED
      BY <1>1, <1>13, <2>1, <2>3, <3>2, <3>3 DEF Progress
  <2>4. QED
    BY <1>5, <2>2, <2>3
<1>16. QED
  BY <1>7, <1>9, <1>10, <1>11, <1>14, <1>15

-----------------------------------------------------------------------------
(* The worker *)

LEMMA TablesSame ==
  ASSUME TypeOK, UNCHANGED <<log, stored, garbled, cursor, opened, scanned>>
  PROVE  Accepts /\ \A s \in stored : ~(cursor < s /\ s <= cursor')
<1>1. cursor \in cursor .. Len(log) /\ cursor \in Nat /\ \A s \in stored : s \in Nat
  BY BaseFacts
<1>2. Accepts
  BY <1>1 DEF TypeOK, Accepts
<1>3. QED
  BY <1>1, <1>2

\* What the steps that change the tables or the worker have to keep.
LEMMA DataTypes ==
  ASSUME TypeOK, Accepts, phase' \in PhaseNames, rebuilt' \in Sequences0, drain' \in Drains,
         queue' \in Seq(stored'), Len(queue') <= PageSize, quarantine' \in {"no", "flush", "advance"},
         pending' \in 0 .. Len(log), blocked' \in BOOLEAN, gate' \in Gates, aged' \in BOOLEAN,
         live' \in Lives, requested' \in 0 .. Len(log), wake' \in BOOLEAN, CountGrows,
         done' \in Seq(1 .. Len(log)), missed' \subseteq 1 .. Len(log),
         failures' \in [1 .. MaxSequence -> 0 .. PoisonLimit], handled' \subseteq 1 .. Len(log),
         skipped' \subseteq 1 .. cursor'
  PROVE  TypeOK'
<1>1. Bounds' = Bounds /\ Sequences0' = Sequences0
  BY DEF Bounds, Sequences0
<1>2. DOMAIN count' = DOMAIN Bounds /\ \A what \in DOMAIN Bounds : count'[what] \in 0 .. Bounds[what]
  BY <1>1 DEF CountGrows, CountOK
<1>3. log' = log /\ log \in Seq(Events \cup {Gap}) /\ Len(log) <= MaxSequence
  BY DEF TypeOK, Accepts
<1>4. stored' \subseteq 1 .. Len(log) /\ garbled' \subseteq stored' /\ cursor' \in 0 .. Len(log)
      /\ opened' \in [Keys -> 0 .. cursor'] /\ scanned' \in 0 .. cursor'
  BY AcceptsFacts DEF Accepts
<1>5. QED
  BY <1>1, <1>2, <1>3, <1>4 DEF TypeOK, PhaseNames, Drains, Gates, Lives

LEMMA SkippedStays == ASSUME TypeOK, Accepts PROVE skipped \subseteq 1 .. cursor' /\ handled \subseteq 1 .. Len(log)
BY AcceptsFacts DEF TypeOK

LEMMA TailLen == ASSUME TypeOK, queue # <<>> PROVE Len(Tail(queue)) <= PageSize /\ Head(queue) \in stored
<1>1. Len(Tail(queue)) = Len(queue) - 1 /\ Len(queue) \in Nat /\ Len(queue) <= PageSize
  BY DEF TypeOK
<1>2. PageSize \in Nat
  BY PageSizeAssumption
<1>3. Head(queue) \in stored
  BY DEF TypeOK
<1>4. QED
  BY <1>1, <1>2, <1>3

LEMMA SkipBlockedStep == ASSUME IInv, SkipBlocked PROVE IInv'
<1> USE DEF IInv
<1>1. /\ queue # <<>> /\ quarantine = "no" /\ blocked /\ queue' = Tail(queue)
      /\ UNCHANGED <<log, stored, garbled, cursor, opened, scanned>>
      /\ UNCHANGED <<phase, rebuilt, drain, quarantine, pending, blocked, gate, aged, live, requested,
                     wake, count, done, missed, failures, handled, skipped>>
  BY DEF SkipBlocked, Processing, ItemDone, ackVars, gateVars, liveVars, ownVars, pastVars
<1>2. Accepts /\ (\A s \in stored : ~(cursor < s /\ s <= cursor')) /\ Base' = Base /\ cursor' <= Base
  BY <1>1, TablesSame, BaseFacts DEF Base
<1>3. CountGrows /\ FailuresGrow
  BY <1>1, CountSame, FailuresSame
<1>4. TypeOK'
  <2>1. Tail(queue) \in Seq(stored') /\ Len(Tail(queue)) <= PageSize
    BY <1>1, <1>2, QueueStays, TailLen
  <2>2. QED
    BY <1>1, <1>2, <1>3, <2>1, Typed, SkippedStays, DataTypes DEF TypeOK
<1>5. Table' /\ Past'
  BY <1>1, <1>2, TableKept, PastKept DEF Past
<1>6. Line'
  BY <1>1, <1>2, LineBlocked
<1>7. Phases'
  BY <1>1 DEF Phases, Starting
<1>8. Applied'
  BY <1>1, <1>2 DEF Applied
<1>9. Fences'
  BY <1>1 DEF Fences
<1>10. Progress'
  BY <1>1, <1>2, ProgressKept
<1>11. Caches'
  <2>1. \A s : Had(s) => Had(s)'
    BY <1>1 DEF Had
  <2>2. QED
    BY <1>1, <1>2, <2>1, CachesKept
<1>12. Failures'
  BY <1>1, <1>2, <1>3, FailuresKept
<1>13. QED
  BY <1>4, <1>5, <1>6, <1>7, <1>8, <1>9, <1>10, <1>11, <1>12

\* What was done is in order, and what comes next follows it.
LEMMA AppendInOrder ==
  ASSUME NEW S \in SUBSET Nat, NEW q \in Seq(S), NEW e \in S, Ascending(q), \A x \in ToSet(q) : x < e
  PROVE  Ascending(Append(q, e))
<1> DEFINE r == Append(q, e)
<1>1. Len(q) \in Nat /\ DOMAIN r = 1 .. Len(q) + 1 /\ r[Len(q) + 1] = e /\ \A i \in 1 .. Len(q) : r[i] = q[i]
  OBVIOUS
<1>2. DOMAIN q = 1 .. Len(q) /\ \A i \in 1 .. Len(q) : q[i] \in ToSet(q)
  BY Members
<1> HIDE DEF r
<1>3. ASSUME NEW i \in 1 .. Len(q) + 1, NEW j \in 1 .. Len(q) + 1, i < j PROVE r[i] < r[j]
  <2>1. i \in 1 .. Len(q)
    BY <1>1, <1>3
  <2>2. CASE j \in 1 .. Len(q)
    BY <1>1, <1>2, <1>3, <2>1, <2>2 DEF Ascending
  <2>3. CASE j = Len(q) + 1
    BY <1>1, <1>2, <2>1, <2>3
  <2>4. QED
    BY <1>1, <2>2, <2>3
<1>4. Ascending(r)
  BY <1>1, <1>3 DEF Ascending
<1>5. QED
  BY <1>4 DEF r

LEMMA CompleteStep == ASSUME IInv, Complete PROVE IInv'
<1> USE DEF IInv
<1> DEFINE h == Head(queue)
<1>1. /\ queue # <<>> /\ quarantine = "no" /\ ~blocked /\ queue' = Tail(queue)
      /\ done' = Append(done, h) /\ handled' = handled \cup {h} /\ pending' = h
      /\ UNCHANGED <<log, stored, garbled, cursor, opened, scanned>>
      /\ UNCHANGED <<phase, rebuilt, drain, quarantine, blocked, gate, aged, live, requested,
                     wake, count, missed, failures, skipped>>
  BY DEF Complete, Processable, Processing, ItemDone, ackVars, gateVars, liveVars, ownVars, pastVars
<1>2. Accepts /\ \A s \in stored : ~(cursor < s /\ s <= cursor')
  BY <1>1, TablesSame
<1>3. CountGrows /\ FailuresGrow
  BY <1>1, CountSame, FailuresSame
<1>4. h \in Nat /\ h > Base /\ h > cursor /\ h \in 1 .. Len(log) /\ h \in stored /\ h \in ToSet(queue)
  BY <1>1, QueueFacts
<1>5. Base' = h
  BY <1>1, <1>4, BaseFacts DEF Base
<1>6. done \in Seq(1 .. Len(log)) /\ (1 .. Len(log)) \in SUBSET Nat
  BY DEF TypeOK
<1>7. done' \in Seq(1 .. Len(log)) /\ ToSet(done') = ToSet(done) \cup {h}
  BY <1>1, <1>4, <1>6, AppendMembers
<1>8. \A s \in ToSet(done) : s \in Nat /\ s <= Base /\ s < h
  <2>1. \A s \in ToSet(done) : s \in Nat /\ s <= Base
    BY <1>6, Members DEF Applied
  <2>2. QED
    BY <1>4, <2>1, BaseFacts
<1>9. ~Starting /\ drain.pc \in {"off", "work"}
  BY <1>1 DEF Phases
<1>10. TypeOK'
  <2>1. Tail(queue) \in Seq(stored') /\ Len(Tail(queue)) <= PageSize
    BY <1>1, <1>2, QueueStays, TailLen, BaseFacts
  <2>2. pending' \in 0 .. Len(log) /\ handled' \subseteq 1 .. Len(log)
    BY <1>1, <1>4, <1>2, SkippedStays
  <2>3. QED
    BY <1>1, <1>2, <1>3, <1>7, <2>1, <2>2, Typed, SkippedStays, DataTypes DEF TypeOK
<1>11. Table'
  BY <1>2, TableKept
<1>12. Past'
  BY <1>1, <1>2, <1>7, PastKept DEF Past
<1>13. Line'
  <2>1. ASSUME NEW s \in stored', cursor' < s, s <= pending' PROVE s \in ToSet(done')
    <3>1. s \in stored /\ s \in Nat /\ cursor < s /\ s <= h
      BY <1>1, <2>1, BaseFacts
    <3>2. CASE s <= pending
      BY <1>7, <3>1, <3>2 DEF Line
    <3>3. CASE ~(s <= pending)
      <4>1. Base < s
        BY <3>1, <3>3, BaseFacts DEF Base
      <4>2. s \in ToSet(queue)
        <5>1. h <= queue[Len(queue)]
          BY <1>1, <1>4, QueueFacts
        <5>2. queue[Len(queue)] \in Nat
          <6>1. queue \in Seq(stored) /\ Len(queue) \in 1 .. Len(queue)
            BY <1>1 DEF TypeOK
          <6>2. queue[Len(queue)] \in stored
            BY <6>1
          <6>3. QED
            BY <6>2, BaseFacts
        <5>3. s <= queue[Len(queue)]
          BY <1>4, <3>1, <5>1, <5>2
        <5>4. QED
          BY <1>1, <3>1, <4>1, <5>3 DEF Line
      <4>3. h <= s
        BY <1>1, <4>2, QueueFacts
      <4>4. s = h
        BY <1>4, <3>1, <4>3
      <4>5. QED
        BY <1>7, <4>4
    <3>4. QED
      BY <3>2, <3>3
  <2>2. QED
    BY <1>1, <1>2, <1>4, <1>5, <2>1, LineMoves
<1>14. Phases'
  BY <1>1, <1>9 DEF Phases, Starting
<1>15. Applied'
  <2>1. Ascending(done')
    BY <1>1, <1>4, <1>6, <1>8, AppendInOrder DEF Applied
  <2>2. \A s \in ToSet(done') : s <= Base'
    BY <1>4, <1>5, <1>7, <1>8
  <2>3. QED
    BY <1>1, <1>9, <2>1, <2>2 DEF Applied, Starting
<1>16. Fences'
  BY <1>1 DEF Fences
<1>17. Progress'
  <2>1. drain.from \in Nat /\ cursor \in Nat
    BY Typed, BaseFacts DEF Sequences0
  <2>2. drain.pc = "work" => Base' > drain.from
    BY <1>4, <1>5, <2>1 DEF Progress
  <2>3. QED
    BY <1>1, <1>9, <2>2 DEF Progress
<1>18. Caches'
  <2>1. \A s : Had(s) => Had(s)'
    BY <1>1, <1>7 DEF Had
  <2>2. QED
    BY <1>1, <1>2, <2>1, CachesKept
<1>19. Failures'
  <2>1. gate'.cursor = cursor' => HeadFailed(cursor, gate.count)'
    BY <1>1, <1>2, <1>3, RestingFailures
  <2>2. QED
    BY <1>1, <2>1 DEF Failures
<1>20. QED
  BY <1>10, <1>11, <1>12, <1>13, <1>14, <1>15, <1>16, <1>17, <1>18, <1>19

\* While the queue may be applied, its head is the next row.
LEMMA HeadIsFirst ==
  ASSUME TypeOK, Line, queue # <<>>, ~blocked \/ quarantine # "no"
  PROVE  First(Head(queue), Base) /\ \A x \in stored : First(x, Base) => x = Head(queue)
<1> DEFINE h == Head(queue)
<1>1. /\ h \in ToSet(queue) /\ h \in stored /\ h \in Nat /\ h > Base
      /\ \A e \in ToSet(queue) : e \in Nat /\ h <= e /\ e <= queue[Len(queue)]
  BY QueueFacts
<1>2. Base \in Nat /\ \A s \in stored : s \in Nat
  BY BaseFacts
<1>3. queue[Len(queue)] \in Nat
  <2>1. queue \in Seq(stored) /\ Len(queue) \in 1 .. Len(queue)
    BY DEF TypeOK
  <2>2. queue[Len(queue)] \in stored
    BY <2>1
  <2>3. QED
    BY <1>2, <2>2
<1>4. ASSUME NEW r \in stored, Base < r PROVE h <= r
  <2>1. CASE r <= queue[Len(queue)]
    <3>1. r \in ToSet(queue)
      BY <1>4, <2>1 DEF Line
    <3>2. QED
      BY <1>1, <3>1
  <2>2. CASE ~(r <= queue[Len(queue)])
    <3>1. h <= queue[Len(queue)] /\ r \in Nat
      BY <1>1, <1>2
    <3>2. QED
      BY <1>1, <1>3, <2>2, <3>1
  <2>3. QED
    BY <2>1, <2>2
<1>5. First(h, Base)
  BY <1>1, <1>2, <1>4 DEF First
<1>6. ASSUME NEW x \in stored, First(x, Base) PROVE x = h
  <2>1. x <= h /\ h <= x /\ x \in Nat
    BY <1>1, <1>2, <1>4, <1>6 DEF First
  <2>2. QED
    BY <1>1, <2>1
<1>7. QED
  BY <1>5, <1>6

\* A row fails: the gate's count, were the drain to end here, is no more than its failures.
LEMMA FailsAtHead ==
  ASSUME IInv, Processable, Failed(Head(queue)), Accepts, stored' = stored,
         UNCHANGED <<cursor, gate, pending, count>>
  PROVE  /\ FailuresGrow /\ failures' \in [1 .. MaxSequence -> 0 .. PoisonLimit]
         /\ failures'[Head(queue)] >= 1
         /\ HeadFailed(Base, Counted)' /\ Ahead(Base)'
         /\ gate'.cursor = cursor' => HeadFailed(cursor, gate.count)'
<1> USE DEF IInv
<1> DEFINE h == Head(queue)
<1>1. queue # <<>> /\ ~blocked
  BY DEF Processable, Processing
<1>2. h \in stored /\ h \in Nat /\ h > Base /\ h \in 1 .. MaxSequence
  BY <1>1, QueueFacts, Numbers
<1>3. PoisonLimit \in Nat \ {0} /\ MaxSequence \in Nat
  BY LimitAssumption
<1>4. failures \in [1 .. MaxSequence -> 0 .. PoisonLimit]
  BY DEF TypeOK
<1>5. failures' = [failures EXCEPT ![h] = IF failures[h] < PoisonLimit THEN failures[h] + 1 ELSE failures[h]]
  BY DEF Failed
<1> HIDE DEF h
<1>6. failures[h] \in 0 .. PoisonLimit /\ \A s \in 1 .. MaxSequence : failures[s] \in 0 .. PoisonLimit
  BY <1>2, <1>4
<1>7. failures'[h] = (IF failures[h] < PoisonLimit THEN failures[h] + 1 ELSE failures[h])
      /\ \A s \in 1 .. MaxSequence \ {h} : failures'[s] = failures[s]
  BY <1>2, <1>4, <1>5
<1>8. failures'[h] \in 0 .. PoisonLimit /\ failures'[h] >= 1 /\ failures'[h] >= failures[h]
  BY <1>3, <1>6, <1>7
<1>9. failures' \in [1 .. MaxSequence -> 0 .. PoisonLimit]
  <2>1. DOMAIN failures' = 1 .. MaxSequence
    BY <1>4, <1>5
  <2>2. \A s \in 1 .. MaxSequence : failures'[s] \in 0 .. PoisonLimit
    BY <1>6, <1>7, <1>8
  <2>3. QED
    BY <1>4, <1>5, <2>1, <2>2
<1>10. FailuresGrow
  BY <1>3, <1>6, <1>7, <1>8 DEF FailuresGrow
<1>11. CountGrows
  BY CountSame
<1>12. gate'.cursor = cursor' => HeadFailed(cursor, gate.count)'
  BY <1>10, <1>11, RestingFailures
<1>13. First(h, Base) /\ \A x \in stored : First(x, Base) => x = h
  BY <1>1, HeadIsFirst DEF h
<1>14. count["faults"] \in Nat /\ count' = count
  BY <1>11 DEF CountGrows
<1>15. failures'[h] >= Counted - count["faults"]
  <2>1. CASE gate.cursor = Base
    <3>1. Base = cursor /\ gate.cursor = cursor
      BY <2>1, BaseFacts DEF Progress
    <3>2. HeadFailed(cursor, gate.count)
      BY <3>1 DEF Failures
    <3>3. failures[h] >= gate.count - count["faults"]
      BY <1>2, <1>13, <3>1, <3>2 DEF HeadFailed
    <3>4. Counted = IF gate.count + 1 > PoisonLimit THEN PoisonLimit ELSE gate.count + 1
      BY <2>1, CountedFacts
    <3>5. gate.count \in Nat
      BY CountedFacts
    <3>6. QED
      BY <1>3, <1>6, <1>7, <1>14, <3>3, <3>4, <3>5
  <2>2. CASE gate.cursor # Base
    <3>1. Counted = 1
      BY <2>2, CountedFacts
    <3>2. QED
      BY <1>8, <1>14, <3>1
  <2>3. QED
    BY <2>1, <2>2
<1>16. Base' = Base /\ Counted' = Counted
  BY DEF Base, Counted, Seen
<1>17. Ahead(Base)'
  BY <1>2, <1>16 DEF Ahead
<1>18. HeadFailed(Base, Counted)'
  <2>1. PICK b, n : b = Base /\ n = Counted
    OBVIOUS
  <2>2. \A x \in stored : First(x, b) => failures'[x] >= n - count["faults"]
    BY <1>13, <1>15, <2>1
  <2>3. b = Base' /\ n = Counted'
    BY <1>16, <2>1
  <2>4. QED
    BY <1>14, <1>17, <2>2, <2>3 DEF HeadFailed, First, Ahead
<1>19. QED
  BY <1>8, <1>9, <1>10, <1>12, <1>17, <1>18 DEF h

LEMMA FailStep == ASSUME IInv, Fail PROVE IInv'
<1> USE DEF IInv
<1>1. /\ queue # <<>> /\ quarantine = "no" /\ queue' = Tail(queue)
      /\ Processable /\ Failed(Head(queue)) /\ blocked' = TRUE
      /\ UNCHANGED <<log, stored, garbled, cursor, opened, scanned>>
      /\ UNCHANGED <<phase, rebuilt, drain, quarantine, pending, gate, aged, live, requested,
                     wake, count, done, missed, handled, skipped>>
  BY DEF Fail, Processable, Processing, ItemDone, ackVars, gateVars, liveVars, ownVars, pastVars
<1>2. Accepts /\ (\A s \in stored : ~(cursor < s /\ s <= cursor')) /\ Base' = Base /\ cursor' <= Base
  BY <1>1, TablesSame, BaseFacts DEF Base
<1>3. /\ FailuresGrow /\ failures' \in [1 .. MaxSequence -> 0 .. PoisonLimit]
      /\ HeadFailed(Base, Counted)' /\ Ahead(Base)'
      /\ gate'.cursor = cursor' => HeadFailed(cursor, gate.count)'
  BY <1>1, <1>2, FailsAtHead
<1>4. TypeOK'
  <2>1. Tail(queue) \in Seq(stored') /\ Len(Tail(queue)) <= PageSize
    BY <1>1, <1>2, QueueStays, TailLen
  <2>2. CountGrows
    BY <1>1, CountSame
  <2>3. QED
    BY <1>1, <1>2, <1>3, <2>1, <2>2, Typed, SkippedStays, DataTypes DEF TypeOK
<1>5. Table' /\ Past'
  BY <1>1, <1>2, TableKept, PastKept DEF Past
<1>6. Line'
  BY <1>1, <1>2, LineBlocked
<1>7. drain.pc \in {"off", "work"} /\ ~Starting
  BY <1>1 DEF Phases
<1>8. Phases'
  BY <1>1, <1>7 DEF Phases, Starting
<1>9. Applied'
  BY <1>1, <1>2 DEF Applied
<1>10. Fences'
  BY <1>1 DEF Fences
<1>11. Progress'
  BY <1>1, <1>3, <1>7 DEF Progress
<1>12. Caches'
  <2>1. \A s : Had(s) => Had(s)'
    BY <1>1 DEF Had
  <2>2. QED
    BY <1>1, <1>2, <2>1, CachesKept
<1>13. Failures'
  BY <1>3 DEF Failures
<1>14. QED
  BY <1>4, <1>5, <1>6, <1>8, <1>9, <1>10, <1>11, <1>12, <1>13

LEMMA CollideStep == ASSUME IInv, Collide PROVE IInv'
<1> USE DEF IInv
<1>1. /\ queue # <<>> /\ quarantine = "no" /\ ~blocked /\ queue' = queue
      /\ Processable /\ Failed(Head(queue)) /\ blocked' = TRUE /\ quarantine' = "flush"
      /\ UNCHANGED <<log, stored, garbled, cursor, opened, scanned>>
      /\ UNCHANGED <<phase, rebuilt, drain, pending, gate, aged, live, requested,
                     wake, count, done, missed, handled, skipped>>
  BY DEF Collide, Processable, Processing, ackVars, gateVars, liveVars, ownVars, pastVars
<1>2. Accepts /\ (\A s \in stored : ~(cursor < s /\ s <= cursor')) /\ Base' = Base /\ cursor' <= Base
  BY <1>1, TablesSame, BaseFacts DEF Base
<1>3. /\ FailuresGrow /\ failures' \in [1 .. MaxSequence -> 0 .. PoisonLimit]
      /\ failures'[Head(queue)] >= 1
      /\ HeadFailed(Base, Counted)' /\ Ahead(Base)'
      /\ gate'.cursor = cursor' => HeadFailed(cursor, gate.count)'
  BY <1>1, <1>2, FailsAtHead
<1>4. TypeOK'
  <2>1. queue' \in Seq(stored')
    BY <1>1 DEF TypeOK
  <2>2. CountGrows
    BY <1>1, CountSame
  <2>3. QED
    BY <1>1, <1>2, <1>3, <2>1, <2>2, Typed, SkippedStays, DataTypes DEF TypeOK
<1>5. Table' /\ Past'
  BY <1>1, <1>2, TableKept, PastKept DEF Past
<1>6. Line'
  BY <1>1, <1>2, LineKept
<1>7. drain.pc \in {"off", "work"} /\ ~Starting
  BY <1>1 DEF Phases
<1>8. Phases'
  BY <1>1, <1>3, <1>7 DEF Phases, Starting
<1>9. Applied'
  BY <1>1, <1>2 DEF Applied
<1>10. Fences'
  BY <1>1 DEF Fences
<1>11. Progress'
  BY <1>1, <1>3, <1>7 DEF Progress
<1>12. Caches'
  <2>1. \A s : Had(s) => Had(s)'
    BY <1>1 DEF Had
  <2>2. QED
    BY <1>1, <1>2, <2>1, CachesKept
<1>13. Failures'
  BY <1>3 DEF Failures
<1>14. QED
  BY <1>4, <1>5, <1>6, <1>8, <1>9, <1>10, <1>11, <1>12, <1>13

-----------------------------------------------------------------------------
(* The cursor moves over rows that were applied or are given up *)

LEMMA PassKeeps ==
  ASSUME IInv, Accepts, ~Starting, phase' \notin {"prune", "rebuild"},
         phase' \in CachePhases => phase \in CachePhases,
         UNCHANGED <<done, missed, handled>>, skipped \subseteq skipped',
         Base' \in Nat, Base' >= Base,
         \A s \in stored : cursor < s /\ s <= cursor' => s \in ToSet(done) \cup skipped'
  PROVE  Table' /\ Past' /\ Applied' /\ Caches'
<1> USE DEF IInv
<1>1. Table'
  BY TableKept
<1>2. Past'
  BY PastKept DEF Past
<1>3. Applied'
  <2>1. \A s \in ToSet(done) : s \in Nat /\ s <= Base'
    <3>1. done \in Seq(1 .. Len(log))
      BY DEF TypeOK
    <3>2. \A s \in ToSet(done) : s \in Nat /\ s <= Base
      BY <3>1, Members DEF Applied
    <3>3. QED
      BY <3>2, BaseFacts
  <2>2. QED
    BY <2>1 DEF Applied
<1>4. \A s : Had(s) => Had(s)'
  BY DEF Had
<1>5. \A s \in stored : cursor < s /\ s <= cursor' => Had(s)'
  BY DEF Had
<1>6. Caches'
  BY <1>4, <1>5, CachesKept
<1>7. QED
  BY <1>1, <1>2, <1>3, <1>6

\* A flush passes only what this process has done.
LEMMA FlushPasses ==
  ASSUME IInv, Accepts, cursor' \in {cursor, Base}
  PROVE  /\ \A s \in stored : cursor < s /\ s <= cursor' => s \in ToSet(done)
         /\ cursor' <= Base
<1> USE DEF IInv
<1>1. cursor' <= Base
  BY BaseFacts
<1>2. ASSUME NEW s \in stored, cursor < s, s <= cursor' PROVE s \in ToSet(done)
  <2>1. s \in Nat /\ s <= pending
    BY <1>2, BaseFacts DEF Base
  <2>2. QED
    BY <1>2, <2>1 DEF Line
<1>3. QED
  BY <1>1, <1>2

LEMMA QuarantineFlushStep == ASSUME IInv, QuarantineFlush PROVE IInv'
<1> USE DEF IInv
<1>1. /\ quarantine = "flush" /\ log' = log
      /\ UNCHANGED <<phase, rebuilt, drain, blocked, gate, aged, live, requested, wake, done, missed,
                     failures, handled, skipped>>
      /\ \/ FlushSucceeds /\ quarantine' = "advance" /\ queue' = queue
         \/ FlushFails /\ quarantine' = "no" /\ queue' = Tail(queue)
  BY DEF QuarantineFlush, ItemDone, gateVars, liveVars, ownVars, pastVars
<1>2. queue # <<>> /\ blocked /\ failures[Head(queue)] >= 1 /\ drain.pc \in {"off", "work"} /\ ~Starting
  BY <1>1 DEF Phases
<1>3. /\ Accepts /\ cursor' \in {cursor, Base} /\ CountGrows /\ pending' \in {0, pending}
      /\ Base' = Base
      /\ \/ queue' = queue /\ quarantine' = "advance" /\ pending' = 0
         \/ queue' = Tail(queue) /\ quarantine' = "no" /\ pending' = pending
  <2>1. CASE FlushSucceeds /\ quarantine' = "advance" /\ queue' = queue
    <3>1. Accepts /\ cursor' = Base /\ pending' = 0 /\ count' = count
      BY <1>1, <2>1, FlushSucceedsDoes
    <3>2. Base' = Base
      BY <3>1, BaseFacts DEF Base
    <3>3. QED
      BY <2>1, <3>1, <3>2, CountSame
  <2>2. CASE FlushFails /\ quarantine' = "no" /\ queue' = Tail(queue)
    <3>1. /\ Accepts /\ cursor' \in {cursor, Base} /\ pending' = pending /\ Base' = Base
          /\ CountOK' /\ count'["faults"] = count["faults"] + 1 /\ count["faults"] \in Nat
      BY <1>1, <2>2, FlushFailsDoes
    <3>2. CountGrows
      BY <3>1 DEF CountGrows
    <3>3. QED
      BY <2>2, <3>1, <3>2
  <2>3. QED
    BY <1>1, <2>1, <2>2
<1>4. /\ \A s \in stored : cursor < s /\ s <= cursor' => s \in ToSet(done)
      /\ cursor' <= Base
  BY <1>3, FlushPasses
<1>5. Table' /\ Past' /\ Applied' /\ Caches'
  BY <1>1, <1>2, <1>3, <1>4, BaseFacts, PassKeeps DEF Starting
<1>6. FailuresGrow
  BY <1>1, FailuresSame
<1>7. TypeOK'
  <2>1. queue' \in Seq(stored') /\ Len(queue') <= PageSize
    BY <1>2, <1>3, <1>4, QueueStays, TailLen DEF TypeOK
  <2>2. pending' \in 0 .. Len(log)
    BY <1>3, BaseFacts DEF TypeOK
  <2>3. QED
    BY <1>1, <1>3, <2>1, <2>2, Typed, SkippedStays, DataTypes DEF TypeOK
<1>8. Line'
  <2>1. CASE queue' = queue
    BY <1>1, <1>2, <1>3, <2>1, LineKept
  <2>2. CASE queue' = Tail(queue) /\ quarantine' = "no" /\ pending' = pending
    BY <1>1, <1>2, <1>3, <2>2, LineBlocked
  <2>3. QED
    BY <1>3, <2>1, <2>2
<1>9. Phases'
  BY <1>1, <1>2, <1>3 DEF Phases, Starting
<1>10. Fences'
  BY <1>1, <1>3, FencesKept
<1>11. Progress'
  BY <1>1, <1>2, <1>3, <1>4, ProgressKept
<1>12. Failures'
  BY <1>1, <1>3, <1>4, <1>6, FailuresKept
<1>13. QED
  BY <1>5, <1>7, <1>8, <1>9, <1>10, <1>11, <1>12

\* The row that could not be processed is passed.
LEMMA QuarantinePasses ==
  ASSUME IInv, QuarantineAdvance, Accepts, cursor' = Head(queue), CountGrows,
         blocked' => blocked /\ count'["faults"] >= 1, blocked' \in BOOLEAN
  PROVE  IInv'
<1> USE DEF IInv
<1> DEFINE h == Head(queue)
<1>1. /\ quarantine = "advance" /\ quarantine' = "no" /\ queue' = Tail(queue)
      /\ skipped' = skipped \cup ({h} \cap 1 .. cursor')
      /\ UNCHANGED <<log, phase, rebuilt, drain, pending, gate, aged, live, requested, wake,
                     done, missed, failures, handled>>
  BY DEF QuarantineAdvance, ItemDone, gateVars, liveVars, ownVars
<1>2. queue # <<>> /\ blocked /\ pending = 0 /\ drain.pc \in {"off", "work"} /\ ~Starting /\ Base = cursor
  BY <1>1, BaseFacts DEF Phases
<1>3. h \in Nat /\ h > cursor /\ h \in 1 .. Len(log) /\ h \in stored
  BY <1>2, QueueFacts
<1>4. Base' = h /\ cursor' = h
  BY <1>1, <1>2, <1>3 DEF Base
<1>5. h \in skipped' /\ skipped \subseteq skipped'
  BY <1>1, <1>3, <1>4
<1>6. \A s \in stored : cursor < s /\ s <= cursor' => s = h
  <2>1. ASSUME NEW s \in stored, cursor < s, s <= cursor' PROVE s = h
    <3>1. First(h, Base) /\ s \in Nat
      BY <1>1, <1>2, HeadIsFirst, BaseFacts
    <3>2. h <= s
      BY <1>2, <2>1, <3>1 DEF First
    <3>3. QED
      BY <1>3, <1>4, <2>1, <3>1, <3>2
  <2>2. QED
    BY <2>1
<1>7. Table' /\ Past' /\ Applied' /\ Caches'
  <2>1. Base' \in Nat /\ Base' >= Base
    BY <1>2, <1>3, <1>4, BaseFacts
  <2>2. \A s \in stored : cursor < s /\ s <= cursor' => s \in ToSet(done) \cup skipped'
    BY <1>5, <1>6
  <2>3. QED
    BY <1>1, <1>2, <1>5, <2>1, <2>2, PassKeeps DEF Starting
<1>8. TypeOK'
  <2>1. queue' \in Seq(stored') /\ Len(queue') <= PageSize
    BY <1>1, <1>2, <1>3, <1>4, RestStays, TailLen
  <2>2. skipped' \subseteq 1 .. cursor'
    BY <1>1, SkippedStays
  <2>3. QED
    BY <1>1, <2>1, <2>2, Typed, SkippedStays, DataTypes DEF TypeOK
<1>9. Line'
  <2>1. \A s \in stored' : ~(cursor' < s /\ s <= pending')
    BY <1>1, <1>2, AcceptsFacts
  <2>2. ~(pending' > cursor')
    BY <1>1, <1>2, AcceptsFacts
  <2>3. QED
    BY <1>1, <1>2, <1>4, <2>1, <2>2, LineMoves
<1>10. Phases'
  BY <1>1, <1>2 DEF Phases, Starting
<1>11. Fences'
  BY <1>1, FencesKept
<1>12. gate.cursor \in Int /\ gate.cursor <= cursor /\ gate.cursor < h
  BY <1>3, CountedFacts, BaseFacts DEF Progress
<1>13. Progress'
  <2>1. drain.from \in Nat /\ (drain.pc = "work" => gate.cursor <= drain.from /\ drain.from <= cursor)
    BY Typed DEF Sequences0, Progress
  <2>2. drain.pc = "work" => drain.from < h
    BY <1>3, <2>1, BaseFacts
  <2>3. QED
    BY <1>1, <1>2, <1>3, <1>4, <1>12, <2>1, <2>2 DEF Progress
<1>14. Failures'
  <2>1. gate'.cursor # cursor' /\ gate'.cursor # Base' /\ gate'.cursor \in Int
    BY <1>1, <1>3, <1>4, <1>12
  <2>2. ASSUME blocked' PROVE HeadFailed(Base, Counted)'
    <3>1. Counted' = 1
      BY <2>1, LimitAssumption DEF Counted, Seen
    <3>2. count'["faults"] \in Nat /\ count'["faults"] >= 1
      BY <2>2 DEF CountGrows
    <3>3. \A x \in stored' : failures'[x] \in Nat
      BY <1>1, AcceptsFacts, Numbers, FailuresSame DEF FailuresGrow
    <3>4. \A x \in stored' : failures'[x] >= 1 - count'["faults"]
      BY <3>2, <3>3
    <3>5. QED
      BY <3>1, <3>2, <3>4 DEF HeadFailed
  <2>3. QED
    BY <2>1, <2>2 DEF Failures
<1>15. QED
  BY <1>7, <1>8, <1>9, <1>10, <1>11, <1>13, <1>14

LEMMA QuarantineAdvanceStep == ASSUME IInv, QuarantineAdvance PROVE IInv'
<1> USE DEF IInv
<1> DEFINE h == Head(queue)
<1>1. /\ quarantine = "advance" /\ quarantine' = "no" /\ queue' = Tail(queue)
      /\ skipped' = skipped \cup ({h} \cap 1 .. cursor')
      /\ UNCHANGED <<log, phase, rebuilt, drain, pending, gate, aged, live, requested, wake,
                     done, missed, failures, handled>>
  BY DEF QuarantineAdvance, ItemDone, gateVars, liveVars, ownVars
<1>2. queue # <<>> /\ blocked /\ pending = 0 /\ drain.pc \in {"off", "work"} /\ ~Starting /\ Base = cursor
  BY <1>1, BaseFacts DEF Phases
<1>3. h \in Nat /\ h > cursor /\ h \in 0 .. Len(log) /\ h \in stored
  <2>1. h \in Nat /\ h > cursor /\ h \in 1 .. Len(log) /\ h \in stored
    BY <1>2, QueueFacts
  <2>2. QED
    BY <2>1
<1>4. CASE Acknowledge(h, TRUE) /\ blocked' = FALSE /\ count' = count
  <2>1. Accepts /\ cursor' = h
    <3>1. Accepts /\ cursor' = IF cursor >= h THEN cursor ELSE h
      BY <1>1, <1>3, <1>4, AcknowledgeDoes
    <3>2. ~(cursor >= h)
      BY <1>3, BaseFacts
    <3>3. QED
      BY <3>1, <3>2
  <2>2. QED
    BY <1>4, <2>1, CountSame, QuarantinePasses
<1>5. CASE AcknowledgeFails(h) /\ blocked' = blocked
  <2>1. /\ Accepts /\ cursor' \in {cursor, h}
        /\ CountOK' /\ count'["faults"] = count["faults"] + 1 /\ count["faults"] \in Nat
    BY <1>1, <1>3, <1>5, AcknowledgeFailsDoes, BaseFacts
  <2>2. CountGrows /\ count'["faults"] >= 1
    BY <2>1 DEF CountGrows
  <2>3. CASE cursor' = h
    BY <1>2, <1>5, <2>1, <2>2, <2>3, QuarantinePasses
  <2>4. CASE cursor' = cursor
    <3>1. Base' = Base /\ cursor' <= Base /\ \A s \in stored : ~(cursor < s /\ s <= cursor')
      BY <1>1, <1>2, <2>4, BaseFacts DEF Base
    <3>2. skipped' = skipped
      <4>1. h \notin 1 .. cursor'
        BY <1>3, <2>4, BaseFacts
      <4>2. QED
        BY <1>1, <4>1
    <3>3. Table' /\ Past' /\ Applied' /\ Caches'
      BY <1>1, <1>2, <2>1, <3>1, <3>2, BaseFacts, PassKeeps DEF Starting
    <3>4. TypeOK'
      <4>1. queue' \in Seq(stored') /\ Len(queue') <= PageSize
        BY <1>1, <1>2, <2>1, <3>1, QueueStays, TailLen
      <4>2. QED
        BY <1>1, <1>5, <2>1, <2>2, <3>2, <4>1, Typed, SkippedStays, DataTypes DEF TypeOK
    <3>5. Line'
      BY <1>1, <1>2, <1>5, <2>1, <3>1, LineBlocked
    <3>6. Phases'
      BY <1>1, <1>2 DEF Phases, Starting
    <3>7. Fences'
      BY <1>1, <2>1, FencesKept
    <3>8. Progress'
      BY <1>1, <1>2, <1>5, <2>1, <2>4, <3>1, ProgressKept
    <3>9. Failures'
      BY <1>1, <1>5, <2>1, <2>2, <3>1, FailuresSame, FailuresKept
    <3>10. QED
      BY <3>3, <3>4, <3>5, <3>6, <3>7, <3>8, <3>9
  <2>5. QED
    BY <2>1, <2>3, <2>4
<1>6. QED
  BY <1>4, <1>5 DEF QuarantineAdvance

-----------------------------------------------------------------------------
(* The drain and the last finalizer *)

\* A flush when the worker is idle, whatever it answers.
LEMMA FlushKeeps ==
  ASSUME IInv, Accepts, queue = <<>>, ~Starting, Base' = Base, cursor' \in {cursor, Base},
         pending' \in {0, pending}, CountGrows,
         phase' \in PhaseNames, phase' \notin {"prune", "rebuild"},
         phase' \in CachePhases => phase \in CachePhases,
         UNCHANGED <<rebuilt, queue, quarantine, blocked, gate, aged, requested, wake, done, missed,
                     failures, handled, skipped>>,
         drain' \in Drains, drain'.fence \in {0, drain.fence}, live' \in Lives, live'.fence = live.fence,
         drain' = NoDrain \/ (drain'.pc \in {"page", "check"} /\ pending' = 0 /\ phase' \in {"replay", "running"}),
         drain'.pc = "check" => drain.pc = "work" /\ drain'.from = drain.from /\ cursor' = Base
  PROVE  IInv'
<1> USE DEF IInv
<1>1. /\ \A s \in stored : cursor < s /\ s <= cursor' => s \in ToSet(done)
      /\ cursor' <= Base
  BY FlushPasses
<1>2. quarantine = "no" /\ NoDrain.pc = "off"
  BY DEF Phases, TypeOK, NoDrain
<1>3. Table' /\ Past' /\ Applied' /\ Caches'
  BY <1>1, BaseFacts, PassKeeps
<1>4. TypeOK'
  <2>1. queue' \in Seq(stored') /\ Len(queue') <= PageSize
    BY <1>1, QueueStays DEF TypeOK
  <2>2. pending' \in 0 .. Len(log)
    BY BaseFacts DEF TypeOK
  <2>3. QED
    BY <2>1, <2>2, Typed, SkippedStays, DataTypes DEF TypeOK
<1>5. Line'
  BY LineKept
<1>6. Phases'
  BY <1>2 DEF Phases, Starting
<1>7. Fences'
  BY FencesKept
<1>8. CASE drain'.pc # "check"
  <2>1. drain'.pc \in {"off", "page"}
    BY <1>2, <1>8
  <2>2. gate.cursor \in Int /\ gate.cursor <= cursor
    BY CountedFacts DEF Progress
  <2>3. gate'.cursor <= cursor'
    BY <2>2, AcceptsFacts
  <2>4. Progress'
    BY <2>1, <2>3 DEF Progress
  <2>5. FailuresGrow
    BY FailuresSame
  <2>6. Failures'
    BY <1>1, <2>1, <2>5, FailuresKept
  <2>7. QED
    BY <1>3, <1>4, <1>5, <1>6, <1>7, <2>4, <2>6
<1>9. CASE drain'.pc = "check"
  <2>1. drain.pc = "work" /\ drain'.from = drain.from /\ cursor' = Base
    BY <1>9
  <2>2. gate.cursor \in Int /\ gate.cursor <= drain.from /\ drain.from <= cursor /\ drain.from \in Nat
    BY <2>1, CountedFacts, Typed DEF Progress, Sequences0
  <2>3. gate'.cursor <= cursor' /\ drain.from <= cursor'
    BY <2>2, AcceptsFacts
  <2>4. ~blocked => Base > drain.from
    BY <2>1 DEF Progress
  <2>5. blocked => cursor' > drain.from \/ Ahead(Base)'
    <3>1. ASSUME blocked, Ahead(Base) PROVE Ahead(Base)'
      <4>1. PICK b \in Nat : b = Base
        BY BaseFacts
      <4>2. Ahead(b)'
        BY <1>1, <3>1, <4>1, AheadKept
      <4>3. QED
        BY <4>1, <4>2 DEF Ahead
    <3>2. ASSUME blocked, cursor > drain.from PROVE cursor' > drain.from
      BY <2>2, <3>2, AcceptsFacts
    <3>3. blocked => cursor > drain.from \/ Ahead(Base)
      BY <2>1 DEF Progress
    <3>4. QED
      BY <3>1, <3>2, <3>3
  <2>6. Progress'
    BY <1>9, <2>1, <2>2, <2>3, <2>4, <2>5 DEF Progress
  <2>7. FailuresGrow
    BY FailuresSame
  <2>8. Failures'
    BY <1>1, <2>1, <2>7, FailuresKept
  <2>9. QED
    BY <1>3, <1>4, <1>5, <1>6, <1>7, <2>6, <2>8
<1>10. QED
  BY <1>8, <1>9

LEMMA DrainFlushStep == ASSUME IInv, DrainFlush PROVE IInv'
<1> USE DEF IInv
<1> DEFINE next == IF At("flush") THEN "page" ELSE "check"
<1>1. /\ drain.pc \in {"flush", "work"} /\ log' = log
      /\ (FlushSucceeds /\ GoTo(next)) \/ (FlushFails /\ Release("failed"))
      /\ UNCHANGED <<rebuilt, queue, quarantine, blocked, gate, aged, requested, wake, done, missed,
                     failures, handled, skipped>>
  BY DEF DrainFlush, At, gateVars, ownVars, pastVars
<1>2. drain # NoDrain /\ queue = <<>> /\ phase \in {"replay", "running"} /\ ~Starting
  BY <1>1 DEF DrainFlush, At, WorkerIdle, Phases, NoDrain, Starting
<1>3. next = (IF drain.pc = "flush" THEN "page" ELSE "check")
  BY DEF At
<1> HIDE DEF next
<1>4. CASE FlushSucceeds /\ GoTo(next)
  <2>1. Accepts /\ cursor' = Base /\ pending' = 0 /\ count' = count
    BY <1>1, <1>4, FlushSucceedsDoes
  <2>2. Base' = Base
    BY <2>1, BaseFacts DEF Base
  <2>3. next \in {"page", "check"} /\ (next = "check" => drain.pc = "work")
    BY <1>1, <1>3
  <2>4. /\ drain' \in Drains /\ drain'.pc = next /\ drain'.fence = drain.fence /\ drain'.from = drain.from
        /\ drain' # NoDrain /\ phase' = phase /\ live' = live
    BY <1>4, <2>3, GoToDoes
  <2>5. CountGrows
    BY <2>1, CountSame
  <2>6. QED
    BY <1>1, <1>2, <2>1, <2>2, <2>3, <2>4, <2>5, Typed, FlushKeeps
<1>5. CASE FlushFails /\ Release("failed")
  <2>1. /\ Accepts /\ cursor' \in {cursor, Base} /\ pending' = pending /\ Base' = Base
        /\ CountOK' /\ count'["faults"] = count["faults"] + 1 /\ count["faults"] \in Nat
    BY <1>1, <1>5, FlushFailsDoes
  <2>2. CountGrows
    BY <2>1 DEF CountGrows
  <2>3. /\ drain' = NoDrain /\ drain' \in Drains /\ live' \in Lives /\ live'.fence = live.fence
        /\ phase' \in {phase, "running", "dead"}
    BY <1>2, <1>5, ReleaseDoes
  <2>4. drain'.fence = 0 /\ drain'.pc = "off"
    BY <2>3 DEF NoDrain
  <2>5. phase \in CachePhases /\ phase' \in PhaseNames /\ phase' \notin {"prune", "rebuild"}
    BY <1>2, <2>3 DEF CachePhases, PhaseNames
  <2>6. QED
    BY <1>1, <1>2, <2>1, <2>2, <2>3, <2>4, <2>5, FlushKeeps
<1>6. QED
  BY <1>1, <1>4, <1>5

LEMMA StopFlushStep == ASSUME IInv, StopFlush PROVE IInv'
<1> USE DEF IInv
<1>1. /\ phase = "stopping" /\ phase' = "down" /\ queue = <<>> /\ log' = log
      /\ FlushSucceeds \/ FlushFails
      /\ UNCHANGED <<rebuilt, queue, quarantine, blocked, gate, aged, requested, wake, done, missed,
                     failures, handled, skipped>>
      /\ drain' = drain /\ live' = live
  BY DEF StopFlush, WorkerIdle, gateVars, liveVars, ownVars, pastVars
<1>2. drain = NoDrain /\ drain'.pc = "off" /\ ~Starting
  BY <1>1 DEF Phases, NoDrain, Starting
<1>3. /\ Accepts /\ cursor' \in {cursor, Base} /\ CountGrows /\ pending' \in {0, pending}
      /\ Base' = Base
  <2>1. CASE FlushSucceeds
    <3>1. Accepts /\ cursor' = Base /\ pending' = 0 /\ count' = count
      BY <1>1, <2>1, FlushSucceedsDoes
    <3>2. Base' = Base
      BY <3>1, BaseFacts DEF Base
    <3>3. QED
      BY <3>1, <3>2, CountSame
  <2>2. CASE FlushFails
    <3>1. /\ Accepts /\ cursor' \in {cursor, Base} /\ pending' = pending /\ Base' = Base
          /\ CountOK' /\ count'["faults"] = count["faults"] + 1 /\ count["faults"] \in Nat
      BY <1>1, <2>2, FlushFailsDoes
    <3>2. CountGrows
      BY <3>1 DEF CountGrows
    <3>3. QED
      BY <3>1, <3>2
  <2>3. QED
    BY <1>1, <2>1, <2>2
<1>4. drain' \in Drains /\ live' \in Lives /\ phase' \in PhaseNames /\ phase' \notin CachePhases
  BY <1>1, Typed DEF PhaseNames, CachePhases
<1>5. QED
  BY <1>1, <1>2, <1>3, <1>4, FlushKeeps DEF CachePhases

\* The page that a drain reads is not empty, and leaves no row out.
LEMMA PageFacts ==
  ASSUME TypeOK, Fences, cursor < drain.fence
  PROVE  /\ Page # {} /\ Page \subseteq stored /\ Page \in SUBSET (0 .. Len(log))
         /\ \A p \in Page : p > cursor /\ p \in Nat
         /\ \A p \in Page, s \in stored : cursor < s /\ s <= p => s \in Page
         /\ InOrder(Page) \in Seq(Page) /\ Ascending(InOrder(Page)) /\ InOrder(Page) # <<>>
         /\ ToSet(InOrder(Page)) = Page /\ Len(InOrder(Page)) <= PageSize
<1> DEFINE X == Rows(cursor, drain.fence)
<1>1. cursor \in Nat /\ Len(log) \in Nat /\ stored \subseteq 1 .. Len(log) /\ \A s \in stored : s \in Nat
  BY BaseFacts
<1>2. drain.fence \in Nat /\ drain.fence \in stored
  <2>1. drain.fence \in Nat
    BY Typed, LimitAssumption DEF Sequences0
  <2>2. QED
    BY <1>1, <2>1 DEF Fences
<1>3. X = {s \in stored : cursor < s /\ s <= drain.fence}
  BY DEF Rows
<1>4. drain.fence \in X /\ X \in SUBSET (0 .. Len(log))
  <2>1. stored \subseteq 0 .. Len(log) /\ X \subseteq stored
    BY <1>1, <1>3
  <2>2. drain.fence \in X
    BY <1>2, <1>3
  <2>3. QED
    BY <2>1, <2>2
<1>5. PageSize \in Nat \ {0}
  BY PageSizeAssumption
<1>6. Page = Earliest(PageSize, X)
  BY DEF Page
<1> HIDE DEF X
<1>7. /\ Page \subseteq X /\ Page # {}
      /\ \A p \in Page, r \in X : r <= p => r \in Page
      /\ Cardinality(Page) \in Nat /\ Cardinality(Page) <= PageSize
  BY <1>1, <1>4, <1>5, <1>6, EarliestFacts
<1>8. Page \subseteq stored /\ Page \in SUBSET (0 .. Len(log)) /\ \A p \in Page : p > cursor /\ p \in Nat
  BY <1>1, <1>3, <1>4, <1>7
<1>9. ASSUME NEW p \in Page, NEW s \in stored, cursor < s, s <= p PROVE s \in Page
  <2>1. p \in Nat /\ s \in Nat /\ p <= drain.fence
    BY <1>1, <1>3, <1>7, <1>9
  <2>2. s <= drain.fence
    BY <1>2, <1>9, <2>1
  <2>3. s \in X
    BY <1>3, <1>9, <2>2
  <2>4. QED
    BY <1>7, <1>9, <2>3
<1>10. /\ InOrder(Page) \in Seq(Page) /\ Len(InOrder(Page)) = Cardinality(Page)
       /\ Ascending(InOrder(Page))
       /\ \A e \in Page : \E i \in 1 .. Len(InOrder(Page)) : InOrder(Page)[i] = e
  BY <1>1, <1>8, InOrderFacts
<1>11. ToSet(InOrder(Page)) = Page
  <2>1. PICK q \in Seq(Page) : q = InOrder(Page)
    BY <1>10
  <2>2. (\A e : e \in ToSet(q) <=> \E i \in 1 .. Len(q) : q[i] = e) /\ ToSet(q) \subseteq Page
    BY Members
  <2>3. QED
    BY <1>10, <2>1, <2>2
<1>12. InOrder(Page) # <<>>
  <2>1. PICK e \in Page : TRUE
    BY <1>7
  <2>2. PICK i \in 1 .. Len(InOrder(Page)) : InOrder(Page)[i] = e
    BY <1>10, <2>1
  <2>3. QED
    BY <2>2
<1>13. QED
  BY <1>7, <1>8, <1>9, <1>10, <1>11, <1>12

LEMMA DrainPageStep == ASSUME IInv, DrainPage PROVE IInv'
<1> USE DEF IInv
<1>1. /\ drain.pc = "page" /\ cursor < drain.fence /\ queue' = InOrder(Page) /\ blocked' = FALSE
      /\ drain' = [drain EXCEPT !.pc = "work", !.from = cursor]
      /\ UNCHANGED <<log, stored, garbled, cursor, opened, scanned>>
      /\ UNCHANGED <<phase, rebuilt, quarantine, pending, gate, aged, live, requested, wake, count,
                     done, missed, failures, handled, skipped>>
  BY DEF DrainPage, At, ackVars, gateVars, liveVars, ownVars, pastVars
<1>2. drain # NoDrain /\ pending = 0 /\ queue = <<>> /\ quarantine = "no" /\ phase \in {"replay", "running"}
      /\ ~Starting /\ Base = cursor
  BY <1>1, BaseFacts DEF Phases, NoDrain, TypeOK, Starting
<1>3. Accepts /\ (\A s \in stored : ~(cursor < s /\ s <= cursor')) /\ Base' = Base
  BY <1>1, TablesSame DEF Base
<1>4. drain' = [who |-> drain.who, fence |-> drain.fence, pc |-> "work", from |-> cursor]
  BY <1>1, Typed DEF Drains
<1>5. drain' \in Drains /\ drain'.fence = drain.fence /\ drain'.pc = "work" /\ drain'.from = cursor
      /\ drain' # NoDrain
  BY <1>4, Typed, Numbers DEF Drains, NoDrain
<1>6. /\ Page # {} /\ Page \subseteq stored /\ Page \in SUBSET (0 .. Len(log))
      /\ \A p \in Page : p > cursor /\ p \in Nat
      /\ \A p \in Page, s \in stored : cursor < s /\ s <= p => s \in Page
      /\ queue' \in Seq(Page) /\ Ascending(queue') /\ queue' # <<>>
      /\ ToSet(queue') = Page /\ Len(queue') <= PageSize
  BY <1>1, PageFacts
<1>7. CountGrows /\ FailuresGrow
  BY <1>1, CountSame, FailuresSame
<1>8. TypeOK'
  <2>1. queue' \in Seq(stored')
    BY <1>1, <1>6
  <2>2. QED
    BY <1>1, <1>3, <1>5, <1>6, <1>7, <2>1, Typed, SkippedStays, DataTypes DEF TypeOK
<1>9. Table' /\ Past'
  BY <1>1, <1>3, TableKept, PastKept DEF Past
<1>10. Line'
  <2>1. queue'[Len(queue')] \in Page
    <3>1. Len(queue') \in 1 .. Len(queue')
      BY <1>6
    <3>2. QED
      BY <1>6, <3>1
  <2>2. \A s \in stored' : Base' < s /\ s <= queue'[Len(queue')] => s \in ToSet(queue')
    BY <1>1, <1>2, <1>3, <1>6, <2>1
  <2>3. \A s \in ToSet(queue') : s > Base'
    BY <1>2, <1>3, <1>6
  <2>4. \A s \in stored' : ~(cursor' < s /\ s <= pending')
    BY <1>1, <1>2, BaseFacts
  <2>5. ~(pending' > cursor')
    BY <1>1, <1>2, BaseFacts
  <2>6. QED
    BY <1>6, <2>2, <2>3, <2>4, <2>5 DEF Line
<1>11. Phases'
  BY <1>1, <1>2, <1>5 DEF Phases, Starting
<1>12. Applied'
  BY <1>1, <1>3 DEF Applied
<1>13. Fences'
  BY <1>1, <1>5 DEF Fences
<1>14. Progress'
  <2>1. gate.cursor <= cursor /\ cursor <= cursor
    BY BaseFacts DEF Progress
  <2>2. QED
    BY <1>1, <1>5, <1>6, <2>1 DEF Progress
<1>15. Caches'
  <2>1. \A s : Had(s) => Had(s)'
    BY <1>1 DEF Had
  <2>2. QED
    BY <1>1, <1>3, <2>1, CachesKept
<1>16. Failures'
  <2>1. gate'.cursor = cursor' => HeadFailed(cursor, gate.count)'
    BY <1>1, <1>3, <1>7, RestingFailures
  <2>2. QED
    BY <1>1, <2>1 DEF Failures
<1>17. QED
  BY <1>8, <1>9, <1>10, <1>11, <1>12, <1>13, <1>14, <1>15, <1>16

\* The row that is dead-lettered is the next one.
LEMMA EarliestIsFirst ==
  ASSUME TypeOK, NEW s \in Earliest(1, Rows(cursor, Len(log)))
  PROVE  First(s, cursor) /\ s \in stored /\ s \in Nat /\ s > cursor /\ s \in 1 .. Len(log)
<1> DEFINE X == Rows(cursor, Len(log))
<1>1. cursor \in Nat /\ Len(log) \in Nat /\ stored \subseteq 1 .. Len(log) /\ \A r \in stored : r \in Nat
  BY BaseFacts
<1>2. X = {r \in stored : cursor < r /\ r <= Len(log)}
  BY DEF Rows
<1>3. X \in SUBSET (0 .. Len(log))
  <2>1. stored \subseteq 0 .. Len(log) /\ X \subseteq stored
    BY <1>1, <1>2
  <2>2. QED
    BY <2>1
<1>4. s \in X /\ \A r \in X : s <= r
  BY <1>1, <1>3, EarliestOne
<1>5. \A r \in stored : cursor < r => r \in X
  BY <1>1, <1>2
<1>6. QED
  BY <1>1, <1>2, <1>4, <1>5 DEF First

LEMMA BuryPasses ==
  ASSUME IInv, drain.pc = "bury", NEW s \in Earliest(1, Rows(cursor, Len(log))), Accepts,
         cursor' \in {cursor, s}, CountGrows, skipped' = skipped \cup ({s} \cap 1 .. cursor'),
         gate' \in {gate, NoGate}, aged' \in BOOLEAN,
         drain' \in Drains, drain' = NoDrain \/ (drain'.pc = "flush" /\ drain' # NoDrain /\ phase' = phase),
         drain'.fence \in {0, drain.fence}, live' \in Lives, live'.fence = live.fence,
         phase' \in {phase, "running", "dead"},
         UNCHANGED <<rebuilt, queue, quarantine, pending, blocked, requested, wake, done, missed,
                     failures, handled>>
  PROVE  IInv'
<1> USE DEF IInv
<1>1. First(s, cursor) /\ s \in stored /\ s \in Nat /\ s > cursor /\ s \in 1 .. Len(log)
  BY EarliestIsFirst
<1>2. drain # NoDrain /\ pending = 0 /\ queue = <<>> /\ quarantine = "no" /\ phase \in {"replay", "running"}
      /\ ~Starting /\ Base = cursor
  BY BaseFacts DEF Phases, NoDrain, TypeOK, Starting
<1>3. cursor' \in Nat /\ cursor' >= cursor /\ cursor \in Nat
  BY AcceptsFacts
<1>4. Base' = cursor'
  BY <1>2, <1>3 DEF Base
<1>5. ASSUME NEW r \in stored, cursor < r, r <= cursor' PROVE r \in skipped'
  <2>1. cursor' = s /\ r \in Nat
    BY <1>5, BaseFacts
  <2>2. s <= r
    BY <1>1, <1>5 DEF First
  <2>3. r = s /\ s \in 1 .. cursor'
    BY <1>1, <1>5, <2>1, <2>2
  <2>4. QED
    BY <2>3
<1>6. phase' \notin {"prune", "rebuild"} /\ (phase' \in CachePhases => phase \in CachePhases)
  BY <1>2 DEF CachePhases
<1>7. Table' /\ Past' /\ Applied' /\ Caches'
  BY <1>2, <1>3, <1>4, <1>5, <1>6, PassKeeps
<1>8. gate' \in Gates /\ gate'.cursor <= cursor' /\ gate'.cursor \in Int
  <2>1. NoGate \in Gates /\ NoGate.cursor = -1
    BY LimitAssumption DEF NoGate, Gates
  <2>2. gate.cursor \in Int /\ gate.cursor <= cursor
    BY CountedFacts DEF Progress
  <2>3. QED
    BY <1>3, <2>1, <2>2, Typed
<1>9. TypeOK'
  <2>1. skipped' \subseteq 1 .. cursor'
    BY SkippedStays
  <2>2. phase' \in PhaseNames /\ <<>> \in Seq(stored')
    BY <1>2 DEF PhaseNames
  <2>3. queue' \in Seq(stored') /\ Len(queue') <= PageSize
    BY <1>2, <2>2 DEF TypeOK
  <2>4. QED
    BY <1>8, <2>1, <2>2, <2>3, Typed, SkippedStays, DataTypes DEF TypeOK
<1>10. Line'
  <2>1. stored' \subseteq Nat
    BY AcceptsFacts
  <2>2. QED
    BY <1>2, <1>3, <2>1, LineEmpty
<1>11. drain'.pc \in {"off", "flush"}
  BY DEF NoDrain
<1>12. Phases'
  <2>1. NoDrain.pc = "off"
    BY DEF NoDrain
  <2>2. QED
    BY <1>2, <1>6, <1>11, <2>1 DEF Phases, Starting
<1>13. Fences'
  BY FencesKept
<1>14. Progress'
  BY <1>8, <1>11 DEF Progress
<1>15. Failures'
  <2>1. gate'.cursor = cursor' => HeadFailed(cursor, gate.count)'
    <3>1. CASE gate' = gate
      BY <3>1, FailuresSame, RestingFailures
    <3>2. CASE gate' = NoGate
      <4>1. gate'.cursor # cursor'
        BY <1>3, <3>2 DEF NoGate
      <4>2. QED
        BY <4>1
    <3>3. QED
      BY <3>1, <3>2
  <2>2. QED
    BY <1>11, <2>1 DEF Failures
<1>16. QED
  BY <1>7, <1>9, <1>10, <1>12, <1>13, <1>14, <1>15

LEMMA BuryStep == ASSUME IInv, Bury PROVE IInv'
<1> USE DEF IInv
<1>1. PICK s \in Earliest(1, Rows(cursor, Len(log))) :
        /\ \/ Acknowledge(s, TRUE) /\ gate' = NoGate /\ aged' = FALSE /\ Again /\ count' = count
           \/ AcknowledgeFails(s) /\ Release("failed") /\ gate' = gate /\ aged' = aged
        /\ skipped' = skipped \cup ({s} \cap 1 .. cursor')
  BY DEF Bury, gateVars
<1>2. /\ drain.pc = "bury" /\ log' = log
      /\ UNCHANGED <<rebuilt, queue, quarantine, pending, blocked, requested, wake, done, missed,
                     failures, handled>>
  BY DEF Bury, At, ownVars
<1>3. s \in Nat /\ s > cursor /\ s \in 0 .. Len(log)
  <2>1. s \in Nat /\ s > cursor /\ s \in 1 .. Len(log)
    BY EarliestIsFirst
  <2>2. QED
    BY <2>1
<1>4. ~(cursor >= s)
  BY <1>3, BaseFacts
<1>5. drain # NoDrain
  BY <1>2 DEF NoDrain
<1>6. CASE Acknowledge(s, TRUE) /\ gate' = NoGate /\ aged' = FALSE /\ Again /\ count' = count
  <2>1. Accepts /\ cursor' = s
    BY <1>2, <1>3, <1>4, <1>6, AcknowledgeDoes
  <2>2. /\ drain' \in Drains /\ drain'.pc = "flush" /\ drain'.fence = drain.fence
        /\ drain' # NoDrain /\ phase' = phase /\ live' = live
    BY <1>6, AgainDoes
  <2>3. CountGrows
    BY <1>6, CountSame
  <2>4. QED
    BY <1>1, <1>2, <1>6, <2>1, <2>2, <2>3, Typed, BuryPasses
<1>7. CASE AcknowledgeFails(s) /\ Release("failed") /\ gate' = gate /\ aged' = aged
  <2>1. /\ Accepts /\ cursor' \in {cursor, s}
        /\ CountOK' /\ count'["faults"] = count["faults"] + 1 /\ count["faults"] \in Nat
    BY <1>2, <1>3, <1>4, <1>7, AcknowledgeFailsDoes
  <2>2. CountGrows
    BY <2>1 DEF CountGrows
  <2>3. /\ drain' = NoDrain /\ drain' \in Drains /\ live' \in Lives /\ live'.fence = live.fence
        /\ phase' \in {phase, "running", "dead"}
    BY <1>5, <1>7, ReleaseDoes
  <2>4. drain'.fence = 0
    BY <2>3 DEF NoDrain
  <2>5. QED
    BY <1>1, <1>2, <1>7, <2>1, <2>2, <2>3, <2>4, Typed, BuryPasses
<1>8. QED
  BY <1>1, <1>6, <1>7

-----------------------------------------------------------------------------
(* Pruning, and the process itself *)

LEMMA PruneDoes ==
  ASSUME TypeOK, NEW keys \in SUBSET Keys, Prune(keys), log' = log
  PROVE  Accepts /\ cursor' = cursor /\ stored' = stored
<1>1. /\ opened' = [k \in Keys |-> IF k \in keys THEN 0 ELSE opened[k]]
      /\ cursor' = cursor /\ stored' = stored /\ scanned' = scanned /\ garbled' = garbled
  BY DEF Prune
<1>2. opened \in [Keys -> 0 .. cursor] /\ cursor \in Nat
  BY BaseFacts DEF TypeOK
<1>3. \A k \in Keys : opened'[k] \in {0, opened[k]} /\ opened'[k] \in 0 .. cursor
  BY <1>1, <1>2
<1>4. opened' \in [Keys -> 0 .. cursor']
  BY <1>1, <1>3
<1>5. cursor \in cursor .. Len(log)
  BY DEF TypeOK
<1>6. QED
  BY <1>1, <1>3, <1>4, <1>5 DEF Accepts, TypeOK

LEMMA PruneKeeps ==
  ASSUME IInv, NEW keys \in SUBSET Keys, Prune(keys), CountGrows,
         phase' = phase \/ (phase = "prune" /\ phase' = "rebuild"),
         UNCHANGED <<log, rebuilt, drain, queue, quarantine, pending, blocked, gate, aged, live,
                     requested, wake, done, missed, failures, handled, skipped>>
  PROVE  IInv'
<1> USE DEF IInv
<1>1. Accepts /\ cursor' = cursor /\ stored' = stored
  BY PruneDoes
<1>2. Base' = Base /\ cursor' <= Base /\ \A s \in stored : ~(cursor < s /\ s <= cursor')
  BY <1>1, BaseFacts DEF Base
<1>3. FailuresGrow
  BY FailuresSame
<1>4. TypeOK'
  <2>1. phase' \in PhaseNames
    BY Typed DEF PhaseNames
  <2>2. QED
    BY <1>1, <2>1, Typed, SkippedStays, DataTypes DEF TypeOK
<1>5. Table' /\ Past'
  BY <1>1, <1>2, TableKept, PastKept DEF Past
<1>6. Line'
  BY <1>1, <1>2, LineKept
<1>7. Phases'
  BY DEF Phases, Starting
<1>8. Applied'
  <2>1. ToSet(<<>>) = {}
    BY DEF ToSet
  <2>2. phase' = "prune" => done' = <<>> /\ rebuilt' = 0
    BY DEF Applied
  <2>3. phase' = "rebuild" => rebuilt' <= cursor' /\ \A s \in ToSet(done') : s <= rebuilt'
    BY <1>1, <2>1, BaseFacts DEF Applied
  <2>4. QED
    BY <1>2, <2>2, <2>3 DEF Applied
<1>9. Fences'
  BY <1>1 DEF Fences
<1>10. Progress'
  BY <1>1, <1>2, ProgressKept
<1>11. Caches'
  <2>1. \A s : Had(s) => Had(s)'
    BY DEF Had
  <2>2. CASE phase' = phase
    BY <1>1, <1>2, <2>1, <2>2, CachesKept
  <2>3. CASE phase = "prune" /\ phase' = "rebuild"
    <3>1. rebuilt' = 0
      BY <2>3 DEF Applied
    <3>2. \A s \in 1 .. rebuilt' : FALSE
      BY <3>1
    <3>3. QED
      BY <2>3, <3>2 DEF Caches, CachesHoldOpenTurns
  <2>4. QED
    BY <2>2, <2>3
<1>12. Failures'
  BY <1>1, <1>2, <1>3, FailuresKept
<1>13. QED
  BY <1>4, <1>5, <1>6, <1>7, <1>8, <1>9, <1>10, <1>11, <1>12

LEMMA ReconcileStep == ASSUME IInv, ReconcileSettled PROVE IInv'
<1> USE DEF IInv
<1>1. PICK keys \in SUBSET {k \in Keys : opened[k] # 0} : Prune(keys)
  BY DEF ReconcileSettled
<1>2. /\ Occur("prunes")
      /\ UNCHANGED <<log, phase, rebuilt, drain, queue, quarantine, pending, blocked, gate, aged, live,
                     requested, wake, done, missed, failures, handled, skipped>>
  BY DEF ReconcileSettled, gateVars, liveVars, ownVars, pastVars
<1>3. CountGrows
  BY <1>2, OccurGrows, Occurrences
<1>4. keys \in SUBSET Keys
  OBVIOUS
<1>5. QED
  BY <1>1, <1>2, <1>3, <1>4, PruneKeeps

LEMMA StartPruneStep == ASSUME IInv, StartPrune PROVE IInv'
<1> USE DEF IInv
<1>1. /\ phase = "prune"
      /\ UNCHANGED <<log, rebuilt, drain, queue, quarantine, pending, blocked, gate, aged, live,
                     requested, wake, done, missed, failures, handled, skipped>>
      /\ \/ /\ phase' = "rebuild" /\ count' = count
            /\ \E keys \in SUBSET {k \in Keys : opened[k] # 0} : Prune(keys)
         \/ phase' = "dead" /\ Occur("faults") /\ UNCHANGED <<cursor, opened, stored, scanned, garbled>>
  BY DEF StartPrune, gateVars, liveVars, ownVars, pastVars, ackVars
<1>2. CASE /\ phase' = "rebuild" /\ count' = count
           /\ \E keys \in SUBSET {k \in Keys : opened[k] # 0} : Prune(keys)
  <2>1. PICK keys \in SUBSET {k \in Keys : opened[k] # 0} : Prune(keys)
    BY <1>2
  <2>2. keys \in SUBSET Keys
    OBVIOUS
  <2>3. CountGrows
    BY <1>2, CountSame
  <2>4. QED
    BY <1>1, <1>2, <2>1, <2>2, <2>3, PruneKeeps
<1>3. CASE phase' = "dead" /\ Occur("faults") /\ UNCHANGED <<cursor, opened, stored, scanned, garbled>>
  <2>1. Quiet
    BY <1>1, <1>3 DEF Quiet, CachePhases, Starting, TypeOK
  <2>2. CountGrows
    BY <1>3, OccurGrows, Occurrences
  <2>3. drain = NoDrain
    BY <1>1 DEF Phases, Starting
  <2>4. QED
    BY <1>1, <1>3, <2>1, <2>2, <2>3, Typed, QuietStep DEF PhaseNames
<1>4. QED
  BY <1>1, <1>2, <1>3

\* What a new process finds, and what a crash leaves.
LEMMA ForgetKeeps ==
  ASSUME IInv, Forget, phase' \in {"prune", "down"}, CountGrows,
         UNCHANGED <<log, stored, garbled, cursor, opened, handled, skipped>>
  PROVE  IInv'
<1> USE DEF IInv
<1>1. /\ scanned' = 0 /\ rebuilt' = 0 /\ drain' = NoDrain /\ queue' = <<>> /\ quarantine' = "no"
      /\ pending' = 0 /\ blocked' = FALSE /\ gate' = NoGate /\ aged' = FALSE
      /\ live' = Asleep /\ requested' = 0 /\ wake' = FALSE
      /\ done' = <<>> /\ missed' = {} /\ failures' = [s \in 1 .. MaxSequence |-> 0]
  BY DEF Forget
<1>2. cursor \in Nat /\ Len(log) \in Nat /\ \A s \in stored : s \in Nat
  BY BaseFacts
<1>3. Accepts /\ \A s \in stored : ~(cursor < s /\ s <= cursor')
  <2>1. cursor \in cursor .. Len(log) /\ 0 \in 0 .. cursor
    BY <1>2 DEF TypeOK
  <2>2. QED
    BY <1>1, <1>2, <2>1 DEF Accepts, TypeOK
<1>4. ToSet(<<>>) = {} /\ Ascending(<<>>)
  BY DEF ToSet, Ascending
<1>5. Base' = cursor
  BY <1>1, <1>2 DEF Base
<1>6. /\ NoDrain \in Drains /\ NoDrain.pc = "off" /\ NoDrain.fence = 0
      /\ NoGate \in Gates /\ NoGate.cursor = -1 /\ Asleep \in Lives /\ Asleep.fence = 0
  BY Numbers, LimitAssumption DEF NoDrain, Drains, NoGate, Gates, Asleep, Lives
<1>7. TypeOK'
  <2>1. 0 \in Sequences0 /\ 0 \in 0 .. Len(log)
    BY <1>2, Numbers
  <2>2. queue' \in Seq(stored') /\ Len(queue') <= PageSize /\ done' \in Seq(1 .. Len(log))
    BY <1>1, PageSizeAssumption
  <2>3. failures' \in [1 .. MaxSequence -> 0 .. PoisonLimit]
    BY <1>1, LimitAssumption
  <2>4. phase' \in PhaseNames
    BY DEF PhaseNames
  <2>5. QED
    BY <1>1, <1>3, <1>6, <2>1, <2>2, <2>3, <2>4, SkippedStays, DataTypes DEF TypeOK
<1>8. Table'
  BY <1>3, TableKept
<1>9. Past'
  BY <1>1, <1>3, <1>4, PastKept
<1>10. Line'
  BY <1>1, <1>2, LineEmpty
<1>11. Phases'
  BY <1>1, <1>6 DEF Phases
<1>12. Applied'
  BY <1>1, <1>4 DEF Applied
<1>13. Fences'
  BY <1>1, <1>2, <1>6 DEF Fences
<1>14. Progress'
  BY <1>1, <1>2, <1>6 DEF Progress
<1>15. Caches'
  BY DEF Caches, CachesHoldOpenTurns
<1>16. Failures'
  BY <1>1, <1>2, <1>6 DEF Failures
<1>17. QED
  BY <1>7, <1>8, <1>9, <1>10, <1>11, <1>12, <1>13, <1>14, <1>15, <1>16

LEMMA BootStep == ASSUME IInv, Boot PROVE IInv'
<1>1. /\ Forget /\ phase' = "prune" /\ count' = count
      /\ UNCHANGED <<log, stored, garbled, cursor, opened, handled, skipped>>
  BY DEF Boot, pastVars
<1>2. CountGrows
  BY <1>1, CountSame DEF IInv
<1>3. QED
  BY <1>1, <1>2, ForgetKeeps

LEMMA CrashStep == ASSUME IInv, Crash PROVE IInv'
<1>1. /\ Forget /\ phase' = "down" /\ Occur("restarts")
      /\ UNCHANGED <<log, stored, garbled, cursor, opened, handled, skipped>>
  BY DEF Crash, pastVars
<1>2. CountGrows
  BY <1>1, OccurGrows, Occurrences DEF IInv
<1>3. QED
  BY <1>1, <1>2, ForgetKeeps

\* Two sequences in order, the second beyond the first.
LEMMA ConcatInOrder ==
  ASSUME NEW S \in SUBSET Nat, NEW q \in Seq(S), NEW p \in Seq(S), Ascending(q), Ascending(p),
         \A x \in ToSet(q), y \in ToSet(p) : x < y
  PROVE  Ascending(q \o p)
<1> DEFINE r == q \o p
<1>1. /\ r \in Seq(S) /\ Len(r) = Len(q) + Len(p)
      /\ \A i \in 1 .. Len(q) : r[i] = q[i]
      /\ \A i \in Len(q) + 1 .. Len(q) + Len(p) : r[i] = p[i - Len(q)]
  BY ConcatMembers
<1>2. Len(q) \in Nat /\ Len(p) \in Nat /\ DOMAIN q = 1 .. Len(q) /\ DOMAIN p = 1 .. Len(p)
  OBVIOUS
<1>3. (\A i \in 1 .. Len(q) : q[i] \in ToSet(q)) /\ (\A i \in 1 .. Len(p) : p[i] \in ToSet(p))
  BY Members
<1> HIDE DEF r
<1>4. DOMAIN r = 1 .. Len(q) + Len(p)
  BY <1>1
<1>5. ASSUME NEW i \in 1 .. Len(q) + Len(p), NEW j \in 1 .. Len(q) + Len(p), i < j PROVE r[i] < r[j]
  <2>1. CASE j <= Len(q)
    <3>1. i \in 1 .. Len(q) /\ j \in 1 .. Len(q)
      BY <1>2, <1>5, <2>1
    <3>2. q[i] < q[j]
      BY <1>2, <1>5, <3>1 DEF Ascending
    <3>3. QED
      BY <1>1, <3>1, <3>2
  <2>2. CASE i <= Len(q) /\ ~(j <= Len(q))
    <3>1. i \in 1 .. Len(q) /\ j \in Len(q) + 1 .. Len(q) + Len(p) /\ j - Len(q) \in 1 .. Len(p)
      BY <1>2, <1>5, <2>2
    <3>2. q[i] < p[j - Len(q)]
      BY <1>3, <3>1
    <3>3. QED
      BY <1>1, <3>1, <3>2
  <2>3. CASE ~(i <= Len(q))
    <3>1. /\ i \in Len(q) + 1 .. Len(q) + Len(p) /\ j \in Len(q) + 1 .. Len(q) + Len(p)
          /\ i - Len(q) \in 1 .. Len(p) /\ j - Len(q) \in 1 .. Len(p) /\ i - Len(q) < j - Len(q)
      BY <1>2, <1>5, <2>3
    <3>2. p[i - Len(q)] < p[j - Len(q)]
      BY <1>2, <3>1 DEF Ascending
    <3>3. QED
      BY <1>1, <3>1, <3>2
  <2>4. QED
    BY <2>1, <2>2, <2>3
<1>6. Ascending(r)
  BY <1>4, <1>5 DEF Ascending
<1>7. QED
  BY <1>6 DEF r

\* A page of the rebuild: acknowledged rows of open turns beyond the last page, none left out.
LEMMA AcceptedFacts ==
  ASSUME TypeOK
  PROVE  /\ Accepted \subseteq stored /\ Accepted \in SUBSET (0 .. Len(log))
         /\ \A s \in Accepted : s \in 1 .. Len(log) /\ s \in Nat /\ rebuilt < s /\ s <= cursor
         /\ \A s \in stored : /\ rebuilt < s /\ s <= cursor /\ Kept(opened, s)
                              /\ Cardinality(Accepted) < PageSize \/ \E a \in Accepted : s <= a
                              => s \in Accepted
         /\ ~(Cardinality(Accepted) < PageSize) => Accepted # {}
<1> DEFINE X == {s \in Rows(rebuilt, cursor) : Kept(opened, s)}
<1>1. cursor \in Nat /\ Len(log) \in Nat /\ stored \subseteq 1 .. Len(log) /\ \A s \in stored : s \in Nat
  BY BaseFacts
<1>2. \A s : s \in X <=> s \in stored /\ rebuilt < s /\ s <= cursor /\ Kept(opened, s)
  BY DEF Rows
<1>3. PageSize \in Nat \ {0}
  BY PageSizeAssumption
<1>4. Accepted = Earliest(PageSize, X)
  BY DEF Accepted
<1> HIDE DEF X
<1>5. X \in SUBSET (0 .. Len(log))
  <2>1. stored \subseteq 0 .. Len(log) /\ X \subseteq stored
    BY <1>1, <1>2
  <2>2. QED
    BY <2>1
<1>6. /\ Accepted \subseteq X
      /\ \A a \in Accepted, r \in X : r <= a => r \in Accepted
      /\ Cardinality(Accepted) \in Nat
      /\ Cardinality(Accepted) < PageSize => Accepted = X
  BY <1>1, <1>3, <1>4, <1>5, EarliestFacts
<1>7. ~(Cardinality(Accepted) < PageSize) => Accepted # {}
  BY <1>3, FS_EmptySet
<1>8. Accepted \subseteq stored /\ Accepted \in SUBSET (0 .. Len(log))
  BY <1>2, <1>5, <1>6
<1>9. \A s \in Accepted : s \in 1 .. Len(log) /\ s \in Nat /\ rebuilt < s /\ s <= cursor
  BY <1>1, <1>2, <1>6
<1>10. QED
  BY <1>2, <1>6, <1>7, <1>8, <1>9

LEMMA RebuildStep == ASSUME IInv, Rebuild PROVE IInv'
<1> USE DEF IInv
<1>1. PICK lost \in SUBSET Accepted : /\ missed' = missed \cup lost
                                      /\ done' = done \o InOrder(Accepted \ lost)
                                      /\ handled' = handled \cup (Accepted \ lost)
  BY DEF Rebuild
<1> DEFINE again == Accepted \ lost
           p == InOrder(again)
<1>2. /\ phase = "rebuild"
      /\ \/ Cardinality(Accepted) < PageSize /\ phase' = "replay" /\ rebuilt' = 0
         \/ ~(Cardinality(Accepted) < PageSize) /\ phase' = "rebuild" /\ rebuilt' = Max(Accepted)
      /\ UNCHANGED <<log, stored, garbled, cursor, opened, scanned>>
      /\ UNCHANGED <<drain, queue, quarantine, pending, blocked, gate, aged, live, requested, wake, count,
                     failures, skipped>>
  BY DEF Rebuild, ackVars, gateVars, liveVars
<1>3. Accepts /\ (\A s \in stored : ~(cursor < s /\ s <= cursor')) /\ Base' = Base
  BY <1>2, TablesSame DEF Base
<1>4. /\ drain = NoDrain /\ queue = <<>> /\ quarantine = "no" /\ pending = 0 /\ blocked = FALSE
      /\ Base = cursor
  BY <1>2, BaseFacts DEF Phases, Starting
<1>5. cursor \in Nat /\ Len(log) \in Nat /\ rebuilt \in Nat /\ rebuilt <= cursor
  BY <1>2, BaseFacts, LimitAssumption DEF Applied, TypeOK, Sequences0
<1>6. /\ Accepted \subseteq stored /\ Accepted \in SUBSET (0 .. Len(log))
      /\ \A s \in Accepted : s \in 1 .. Len(log) /\ s \in Nat /\ rebuilt < s /\ s <= cursor
      /\ \A s \in stored : /\ rebuilt < s /\ s <= cursor /\ Kept(opened, s)
                           /\ Cardinality(Accepted) < PageSize \/ \E a \in Accepted : s <= a
                           => s \in Accepted
      /\ ~(Cardinality(Accepted) < PageSize) => Accepted # {}
  BY AcceptedFacts
<1>7. again \subseteq Accepted /\ again \in SUBSET (0 .. Len(log)) /\ Accepted = again \cup lost
  BY <1>6
<1>8. /\ p \in Seq(again) /\ Ascending(p) /\ ToSet(p) = again
  <2>1. /\ p \in Seq(again) /\ Ascending(p)
        /\ \A e \in again : \E i \in 1 .. Len(p) : p[i] = e
    BY <1>5, <1>7, InOrderFacts
  <2>2. (\A e : e \in ToSet(p) <=> \E i \in 1 .. Len(p) : p[i] = e) /\ ToSet(p) \subseteq again
    BY <2>1, Members
  <2>3. QED
    BY <2>1, <2>2
<1>9. missed' = missed \cup lost /\ done' = done \o p /\ handled' = handled \cup again
  BY <1>1
<1> HIDE DEF again, p
<1>10. done \in Seq(1 .. Len(log)) /\ p \in Seq(1 .. Len(log)) /\ (1 .. Len(log)) \in SUBSET Nat
  <2>1. \A e \in again : e \in 1 .. Len(log)
    BY <1>6, <1>7
  <2>2. \A i \in 1 .. Len(p) : p[i] \in 1 .. Len(log)
    BY <1>8, <2>1
  <2>3. p \in Seq(1 .. Len(log))
    BY <1>8, <2>2, SeqWithin
  <2>4. QED
    BY <2>3 DEF TypeOK
<1>11. done' \in Seq(1 .. Len(log)) /\ ToSet(done') = ToSet(done) \cup again
  BY <1>8, <1>9, <1>10, ConcatMembers
<1>12. \A s \in ToSet(done) : s \in Nat /\ s <= rebuilt /\ s <= cursor
  BY <1>2, <1>4, <1>10, Members DEF Applied
<1>13. Ascending(done')
  <2>1. ASSUME NEW x \in ToSet(done), NEW y \in ToSet(p) PROVE x < y
    <3>1. x \in Nat /\ x <= rebuilt
      BY <1>12
    <3>2. y \in Nat /\ rebuilt < y
      BY <1>6, <1>7, <1>8
    <3>3. QED
      BY <1>5, <3>1, <3>2
  <2>2. Ascending(done)
    BY DEF Applied
  <2>3. QED
    BY <1>8, <1>9, <1>10, <2>1, <2>2, ConcatInOrder
<1>14. Accepted # {} => Max(Accepted) \in Accepted /\ \A e \in Accepted : e <= Max(Accepted)
  BY <1>5, <1>6, MaxFacts
<1>15. CountGrows /\ FailuresGrow
  BY <1>2, CountSame, FailuresSame
<1>16. TypeOK'
  <2>1. phase' \in PhaseNames
    BY <1>2 DEF PhaseNames
  <2>2. rebuilt' \in Sequences0
    <3>1. CASE rebuilt' = 0
      BY <3>1, Numbers
    <3>2. CASE ~(Cardinality(Accepted) < PageSize) /\ rebuilt' = Max(Accepted)
      BY <1>6, <1>14, <3>2, Numbers
    <3>3. QED
      BY <1>2, <3>1, <3>2
  <2>3. missed' \subseteq 1 .. Len(log) /\ handled' \subseteq 1 .. Len(log)
    <3>1. missed \subseteq 1 .. Len(log) /\ handled \subseteq 1 .. Len(log)
      BY DEF TypeOK
    <3>2. lost \subseteq 1 .. Len(log) /\ again \subseteq 1 .. Len(log)
      BY <1>6, <1>7
    <3>3. QED
      BY <1>9, <3>1, <3>2
  <2>4. QED
    BY <1>2, <1>3, <1>11, <1>15, <2>1, <2>2, <2>3, Typed, SkippedStays, DataTypes DEF TypeOK
<1>17. Table' /\ Past'
  <2>1. \A s \in ToSet(done') : s \in handled'
    BY <1>9, <1>11 DEF Past
  <2>2. QED
    BY <1>2, <1>3, <1>9, <2>1, TableKept, PastKept
<1>18. Line'
  BY <1>2, <1>3, <1>11, LineKept
<1>19. Phases'
  BY <1>2, <1>4 DEF Phases, Starting
<1>20. Applied'
  <2>1. \A s \in ToSet(done') : s <= Base'
    BY <1>3, <1>4, <1>6, <1>7, <1>11, <1>12
  <2>2. ASSUME phase' = "rebuild" PROVE rebuilt' <= cursor' /\ \A s \in ToSet(done') : s <= rebuilt'
    <3>1. Accepted # {} /\ rebuilt' = Max(Accepted)
      BY <1>2, <1>6, <2>2
    <3>2. rebuilt' \in Nat /\ rebuilt < rebuilt' /\ rebuilt' <= cursor /\ \A e \in Accepted : e <= rebuilt'
      BY <1>6, <1>14, <3>1
    <3>3. QED
      BY <1>2, <1>5, <1>7, <1>11, <1>12, <3>2
  <2>3. QED
    BY <1>2, <1>13, <2>1, <2>2 DEF Applied
<1>21. Fences'
  BY <1>2 DEF Fences
<1>22. Progress'
  <2>1. cursor' <= Base
    BY <1>2, <1>4, <1>5
  <2>2. QED
    BY <1>2, <1>3, <1>4, <2>1, ProgressKept
<1>23. Caches'
  <2>1. ASSUME NEW s \in 1 .. cursor, Row(s)', Kept(opened, s)',
               phase' = "replay" \/ s <= rebuilt'
        PROVE  Had(s)'
    <3>1. Row(s) /\ Kept(opened, s) /\ s \in Nat
      BY <1>2, <2>1 DEF Row, Gap, Kept, KeyOf
    <3>2. CASE s <= rebuilt
      <4>1. s \in 1 .. rebuilt
        BY <1>5, <3>1, <3>2
      <4>2. Had(s)
        BY <1>2, <3>1, <4>1 DEF Caches
      <4>3. QED
        BY <1>2, <1>9, <1>11, <4>2 DEF Had
    <3>3. CASE ~(s <= rebuilt)
      <4>1. s \in stored /\ rebuilt < s /\ s <= cursor
        BY <1>5, <3>1, <3>3 DEF Table
      <4>2. Cardinality(Accepted) < PageSize \/ \E a \in Accepted : s <= a
        <5>1. CASE phase' = "replay"
          BY <1>2, <5>1
        <5>2. CASE phase' # "replay"
          BY <1>2, <1>6, <1>14, <2>1, <5>2
        <5>3. QED
          BY <5>1, <5>2
      <4>3. s \in Accepted
        BY <1>6, <3>1, <4>1, <4>2
      <4>4. s \in again \/ s \in lost
        BY <1>7, <4>3
      <4>5. QED
        BY <1>9, <1>11, <4>4 DEF Had
    <3>4. QED
      BY <3>2, <3>3
  <2>2. CachesHoldOpenTurns'
    <3>1. ASSUME phase' \in CachePhases, NEW s \in 1 .. cursor', Row(s)', Kept(opened, s)' PROVE Had(s)'
      BY <1>2, <2>1, <3>1 DEF CachePhases
    <3>2. QED
      BY <3>1 DEF CachesHoldOpenTurns, CachePhases, Had, Row
  <2>3. ASSUME phase' = "rebuild", NEW s \in 1 .. rebuilt', Row(s)', Kept(opened, s)' PROVE Had(s)'
    <3>1. rebuilt' \in Nat /\ rebuilt' <= cursor
      BY <1>2, <1>6, <1>14, <2>3
    <3>2. s \in 1 .. cursor /\ s <= rebuilt'
      BY <1>5, <2>3, <3>1
    <3>3. QED
      BY <2>1, <2>3, <3>2
  <2>4. QED
    BY <2>2, <2>3 DEF Caches
<1>24. Failures'
  <2>1. cursor' <= Base
    BY <1>2, <1>4, <1>5
  <2>2. QED
    BY <1>2, <1>3, <1>15, <2>1, FailuresKept
<1>25. QED
  BY <1>16, <1>17, <1>18, <1>19, <1>20, <1>21, <1>22, <1>23, <1>24

-----------------------------------------------------------------------------
(* The journal grows *)

\* A row behind all the others.
LEMMA AppendedFacts ==
  ASSUME TypeOK, NEW e \in Offered, Append1(e)
  PROVE  /\ Len(log) \in Nat /\ Len(log)' = Len(log) + 1 /\ Len(log) + 1 <= MaxSequence
         /\ log' \in Seq(Events \cup {Gap})
         /\ \A s \in 1 .. Len(log) : log'[s] = log[s]
         /\ log'[Len(log) + 1] = e
         /\ stored \subseteq stored' /\ stored' \subseteq stored \cup {Len(log) + 1}
         /\ Len(log) + 1 \in stored' <=> e # Gap
         /\ 1 .. Len(log) \subseteq 1 .. Len(log)' /\ 0 .. Len(log) \subseteq 0 .. Len(log)'
         /\ \A s \in 1 .. Len(log)' : s \in 1 .. Len(log) \/ s = Len(log) + 1
         /\ \A s \in stored : s \in Nat /\ s <= Len(log)
         /\ UNCHANGED <<garbled, cursor, opened, scanned, phase, rebuilt, drain, queue, quarantine,
                        pending, blocked, gate, aged, live, requested, wake, count, done, missed,
                        failures, handled, skipped>>
<1>1. /\ Len(log) < MaxSequence /\ log' = Append(log, e)
      /\ stored' = IF e = Gap THEN stored ELSE stored \cup {Len(log) + 1}
      /\ UNCHANGED <<garbled, cursor, opened, scanned, phase, rebuilt, drain, queue, quarantine,
                     pending, blocked, gate, aged, live, requested, wake, count, done, missed,
                     failures, handled, skipped>>
  BY DEF Append1, gateVars, liveVars, ownVars, pastVars
<1>2. log \in Seq(Events \cup {Gap}) /\ e \in Events \cup {Gap} /\ MaxSequence \in Nat
  BY OfferedAssumption, LimitAssumption DEF TypeOK
<1>3. /\ Len(log) \in Nat /\ Len(log') = Len(log) + 1 /\ log' \in Seq(Events \cup {Gap})
      /\ \A s \in 1 .. Len(log) : log'[s] = log[s]
      /\ log'[Len(log) + 1] = e
  BY <1>1, <1>2
<1>4. Len(log) + 1 <= MaxSequence
  BY <1>1, <1>2, <1>3
<1>5. /\ 1 .. Len(log) \subseteq 1 .. Len(log)' /\ 0 .. Len(log) \subseteq 0 .. Len(log)'
      /\ \A s \in 1 .. Len(log)' : s \in 1 .. Len(log) \/ s = Len(log) + 1
  BY <1>3
<1>6. \A s \in stored : s \in Nat /\ s <= Len(log)
  BY BaseFacts
<1>7. Len(log) + 1 \notin stored
  BY <1>3, <1>6
<1>8. QED
  BY <1>1, <1>3, <1>4, <1>5, <1>6, <1>7

LEMMA HeadFailedGrows ==
  ASSUME TypeOK, NEW e \in Offered, Append1(e), NEW f \in 0 .. Len(log), NEW m \in Nat, HeadFailed(f, m)
  PROVE  HeadFailed(f, m)'
<1>1. count["faults"] \in Nat
  BY CountSame, AppendedFacts DEF CountGrows
<1>2. \A s \in 1 .. MaxSequence : failures[s] \in Nat
  BY FailuresSame, AppendedFacts DEF FailuresGrow
<1>3. stored \subseteq stored' /\ failures' = failures /\ count' = count
  BY AppendedFacts
<1>4. ASSUME NEW h \in stored', First(h, f)' PROVE failures[h] >= m - count["faults"]
  <2>1. f < h /\ \A r \in stored : f < r => h <= r
    BY <1>3, <1>4 DEF First
  <2>2. CASE h \in stored
    BY <2>1, <2>2 DEF HeadFailed, First
  <2>3. CASE h \notin stored
    <3>1. h = Len(log) + 1 /\ Len(log) \in Nat /\ Len(log) + 1 <= MaxSequence
      BY <2>3, AppendedFacts
    <3>2. h \in 1 .. MaxSequence
      BY <3>1, LimitAssumption
    <3>3. ~Ahead(f)
      <4>1. \A r \in stored : r \in Nat /\ r <= Len(log)
        BY AppendedFacts
      <4>2. QED
        BY <2>1, <3>1, <4>1 DEF Ahead
    <3>4. m <= count["faults"]
      BY <3>3 DEF HeadFailed
    <3>5. failures[h] \in Nat
      BY <1>2, <3>2
    <3>6. QED
      BY <1>1, <3>4, <3>5
  <2>4. QED
    BY <2>2, <2>3
<1>5. ASSUME ~Ahead(f)' PROVE m <= count["faults"]
  <2>1. ~Ahead(f)
    BY <1>3, <1>5 DEF Ahead
  <2>2. QED
    BY <2>1 DEF HeadFailed
<1>6. QED
  BY <1>3, <1>4, <1>5 DEF HeadFailed

LEMMA AppendStep == ASSUME IInv, NEW e \in Offered, Append1(e) PROVE IInv'
<1> USE DEF IInv
<1>1. /\ Len(log) \in Nat /\ Len(log)' = Len(log) + 1 /\ Len(log) + 1 <= MaxSequence
      /\ log' \in Seq(Events \cup {Gap})
      /\ \A s \in 1 .. Len(log) : log'[s] = log[s]
      /\ log'[Len(log) + 1] = e
      /\ stored \subseteq stored' /\ stored' \subseteq stored \cup {Len(log) + 1}
      /\ Len(log) + 1 \in stored' <=> e # Gap
      /\ 1 .. Len(log) \subseteq 1 .. Len(log)' /\ 0 .. Len(log) \subseteq 0 .. Len(log)'
      /\ \A s \in 1 .. Len(log)' : s \in 1 .. Len(log) \/ s = Len(log) + 1
      /\ \A s \in stored : s \in Nat /\ s <= Len(log)
  BY AppendedFacts
<1>2. UNCHANGED <<garbled, cursor, opened, scanned, phase, rebuilt, drain, queue, quarantine,
                  pending, blocked, gate, aged, live, requested, wake, count, done, missed,
                  failures, handled, skipped>>
  BY AppendedFacts
<1>3. cursor \in Nat /\ cursor <= Len(log) /\ pending <= Len(log) /\ pending \in Nat /\ Base \in 0 .. Len(log)
      /\ stored \subseteq 1 .. Len(log) /\ Base' = Base
  BY <1>2, BaseFacts DEF Base, TypeOK
<1>4. \A s \in 1 .. cursor : s \in 1 .. Len(log) /\ s \in Nat /\ s # Len(log) + 1
  BY <1>1, <1>3
<1>5. ASSUME NEW s \in 1 .. Len(log) PROVE (Row(s)' <=> Row(s)) /\ (Kept(opened, s)' <=> Kept(opened, s))
  BY <1>1, <1>2, <1>5 DEF Row, Gap, Kept, KeyOf
<1>6. TypeOK'
  <2>1. stored' \subseteq 1 .. Len(log)' /\ garbled' \subseteq stored'
    <3>1. Len(log) + 1 \in 1 .. Len(log)'
      BY <1>1
    <3>2. QED
      BY <1>1, <1>2, <1>3, <3>1 DEF TypeOK
  <2>2. cursor' \in 0 .. Len(log)' /\ pending' \in 0 .. Len(log)' /\ requested' \in 0 .. Len(log)'
    BY <1>1, <1>2 DEF TypeOK
  <2>3. done' \in Seq(1 .. Len(log)') /\ queue' \in Seq(stored')
    <3>1. done \in Seq(1 .. Len(log)) /\ queue \in Seq(stored)
      BY DEF TypeOK
    <3>2. (\A i \in 1 .. Len(done) : done[i] \in 1 .. Len(log)') /\ \A i \in 1 .. Len(queue) : queue[i] \in stored'
      BY <1>1, <3>1
    <3>3. done \in Seq(1 .. Len(log)') /\ queue \in Seq(stored')
      BY <3>1, <3>2, SeqWithin
    <3>4. QED
      BY <1>2, <3>3
  <2>4. missed' \subseteq 1 .. Len(log)' /\ handled' \subseteq 1 .. Len(log)'
    BY <1>1, <1>2 DEF TypeOK
  <2>5. Len(log)' <= MaxSequence
    BY <1>1
  <2>6. Bounds' = Bounds /\ Sequences0' = Sequences0
    BY DEF Bounds, Sequences0
  <2>7. QED
    BY <1>1, <1>2, <2>1, <2>2, <2>3, <2>4, <2>5, <2>6 DEF TypeOK
<1>7. Table'
  <2>1. ASSUME NEW s \in stored' PROVE Row(s)'
    <3>1. CASE s \in stored
      <4>1. s \in 1 .. Len(log)
        BY <1>3, <3>1
      <4>2. QED
        BY <1>5, <3>1, <4>1 DEF Table
    <3>2. CASE s = Len(log) + 1
      BY <1>1, <3>2 DEF Row, Gap
    <3>3. QED
      BY <1>1, <3>1, <3>2
  <2>2. ASSUME NEW s \in 1 .. Len(log)', Row(s)', s > cursor' PROVE s \in stored'
    <3>1. CASE s \in 1 .. Len(log)
      BY <1>1, <1>2, <1>5, <2>2, <3>1 DEF Table
    <3>2. CASE s = Len(log) + 1
      BY <1>1, <2>2, <3>2 DEF Row, Gap
    <3>3. QED
      BY <1>1, <3>1, <3>2
  <2>3. ASSUME NEW s \in 1 .. cursor', Row(s)', Kept(opened, s)' PROVE s \in stored'
    <3>1. s \in 1 .. cursor /\ s \in 1 .. Len(log)
      BY <1>2, <1>4
    <3>2. QED
      BY <1>1, <1>5, <2>3, <3>1 DEF Table
  <2>4. QED
    BY <2>1, <2>2, <2>3 DEF Table
<1>8. Past'
  <2>1. \A s \in 1 .. cursor' : Row(s)' => s \in handled' \cup skipped'
    BY <1>2, <1>4, <1>5 DEF Past
  <2>2. QED
    BY <1>2, <2>1 DEF Past
<1>9. Line'
  <2>1. ASSUME NEW s \in stored', Base' < s, queue' # <<>>, ~blocked' \/ quarantine' # "no",
               s <= queue'[Len(queue')]
        PROVE  s \in ToSet(queue')
    <3>1. queue[Len(queue)] \in stored
      <4>1. queue \in Seq(stored) /\ Len(queue) \in 1 .. Len(queue)
        BY <1>2, <2>1 DEF TypeOK
      <4>2. QED
        BY <4>1
    <3>2. s # Len(log) + 1
      <4>1. PICK q \in stored : q = queue[Len(queue)]
        BY <3>1
      <4>2. q \in Nat /\ q <= Len(log) /\ s <= q
        BY <1>1, <1>2, <2>1, <4>1
      <4>3. QED
        BY <1>1, <4>2
    <3>3. s \in stored
      BY <1>1, <3>2
    <3>4. QED
      BY <1>2, <1>3, <2>1, <3>3 DEF Line
  <2>2. ASSUME NEW s \in stored', cursor' < s, s <= pending' PROVE s \in ToSet(done')
    <3>1. s # Len(log) + 1
      BY <1>1, <1>2, <1>3, <2>2
    <3>2. QED
      BY <1>1, <1>2, <2>2, <3>1 DEF Line
  <2>3. Ascending(queue') /\ (\A s \in ToSet(queue') : s > Base')
    BY <1>2, <1>3 DEF Line
  <2>4. pending' > cursor' => pending' \in stored'
    BY <1>1, <1>2 DEF Line
  <2>5. QED
    BY <2>1, <2>2, <2>3, <2>4 DEF Line
<1>10. Phases'
  BY <1>2 DEF Phases, Starting
<1>11. Applied'
  BY <1>2, <1>3 DEF Applied
<1>12. Fences'
  BY <1>1, <1>2 DEF Fences
<1>13. Progress'
  <2>1. (Ahead(Base) => Ahead(Base)') /\ (Ahead(cursor) => Ahead(cursor)')
    BY <1>1, <1>2, <1>3 DEF Ahead
  <2>2. QED
    BY <1>2, <1>3, <2>1 DEF Progress
<1>14. Caches'
  <2>1. \A s : Had(s) => Had(s)'
    BY <1>2 DEF Had
  <2>2. ASSUME phase' \in CachePhases, NEW s \in 1 .. cursor', Row(s)', Kept(opened, s)' PROVE Had(s)'
    <3>1. s \in 1 .. cursor /\ Row(s) /\ Kept(opened, s)
      BY <1>2, <1>4, <1>5, <2>2
    <3>2. Had(s)
      BY <1>2, <2>2, <3>1 DEF Caches, CachesHoldOpenTurns, CachePhases, Had, Row
    <3>3. QED
      BY <2>1, <3>2
  <2>3. ASSUME phase' = "rebuild", NEW s \in 1 .. rebuilt', Row(s)', Kept(opened, s)' PROVE Had(s)'
    <3>1. rebuilt \in Nat /\ rebuilt <= cursor
      BY <1>2, <2>3, LimitAssumption DEF Applied, TypeOK, Sequences0
    <3>2. s \in 1 .. rebuilt /\ s \in 1 .. cursor
      BY <1>2, <1>3, <2>3, <3>1
    <3>3. Row(s) /\ Kept(opened, s)
      BY <1>4, <1>5, <2>3, <3>2
    <3>4. QED
      BY <1>2, <2>1, <2>3, <3>2, <3>3 DEF Caches
  <2>4. CachesHoldOpenTurns'
    BY <2>2 DEF CachesHoldOpenTurns, CachePhases, Had, Row
  <2>5. QED
    BY <2>3, <2>4 DEF Caches
<1>15. Failures'
  <2>1. ASSUME gate'.cursor = cursor' PROVE HeadFailed(cursor, gate.count)'
    <3>1. PICK c \in 0 .. Len(log), n \in Nat : c = cursor /\ n = gate.count
      BY CountedFacts DEF TypeOK
    <3>2. HeadFailed(c, n)
      BY <1>2, <2>1, <3>1 DEF Failures
    <3>3. HeadFailed(c, n)'
      BY <3>2, HeadFailedGrows
    <3>4. c = cursor' /\ n = gate'.count
      BY <1>2, <3>1
    <3>5. QED
      BY <3>3, <3>4 DEF HeadFailed, First, Ahead
  <2>2. ASSUME drain'.pc \in {"work", "check"}, blocked' PROVE HeadFailed(Base, Counted)'
    <3>1. PICK b \in 0 .. Len(log), n \in Nat : b = Base /\ n = Counted
      BY <1>3, CountedFacts
    <3>2. HeadFailed(b, n)
      BY <1>2, <2>2, <3>1 DEF Failures
    <3>3. HeadFailed(b, n)'
      BY <3>2, HeadFailedGrows
    <3>4. Counted' = Counted
      BY <1>2, <1>3 DEF Counted, Seen
    <3>5. b = Base' /\ n = Counted'
      BY <1>3, <3>1, <3>4
    <3>6. QED
      BY <3>3, <3>5 DEF HeadFailed, First, Ahead
  <2>3. QED
    BY <2>1, <2>2 DEF Failures
<1>16. QED
  BY <1>6, <1>7, <1>8, <1>9, <1>10, <1>11, <1>12, <1>13, <1>14, <1>15

-----------------------------------------------------------------------------
(* The invariant *)

LEMMA InitIInv == Init => IInv
<1> SUFFICES ASSUME Init PROVE IInv
  OBVIOUS
<1>1. /\ log = <<>> /\ stored = {} /\ garbled = {}
      /\ cursor = 0 /\ opened = [k \in Keys |-> 0] /\ scanned = 0
      /\ phase = "prune" /\ rebuilt = 0 /\ drain = NoDrain
      /\ queue = <<>> /\ quarantine = "no" /\ pending = 0 /\ blocked = FALSE
      /\ gate = NoGate /\ aged = FALSE
      /\ live = Asleep /\ requested = 0 /\ wake = FALSE
      /\ count = [what \in DOMAIN Bounds |-> 0]
      /\ done = <<>> /\ missed = {} /\ failures = [s \in 1 .. MaxSequence |-> 0]
      /\ handled = {} /\ skipped = {}
  BY DEF Init
<1>2. Len(log) = 0 /\ log \in Seq(Events \cup {Gap}) /\ ToSet(<<>>) = {} /\ Ascending(<<>>)
  BY <1>1 DEF ToSet, Ascending
<1>3. 0 \in Sequences0 /\ MaxSequence \in Nat /\ PoisonLimit \in Nat /\ PageSize \in Nat
  BY LimitAssumption, PageSizeAssumption DEF Sequences0
<1>4. /\ NoDrain \in Drains /\ NoDrain.pc = "off" /\ NoDrain.fence = 0
      /\ NoGate \in Gates /\ NoGate.cursor = -1 /\ Asleep \in Lives /\ Asleep.fence = 0
  BY <1>3 DEF NoDrain, Drains, NoGate, Gates, Asleep, Lives
<1>5. TypeOK
  <2>1. DOMAIN count = DOMAIN Bounds /\ \A what \in DOMAIN Bounds : count[what] \in 0 .. Bounds[what]
    <3>1. \A what \in DOMAIN Bounds : Bounds[what] \in Nat
      BY BoundAssumption DEF Bounds
    <3>2. QED
      BY <1>1, <3>1
  <2>2. failures \in [1 .. MaxSequence -> 0 .. PoisonLimit] /\ opened \in [Keys -> 0 .. cursor]
    BY <1>1, <1>3
  <2>3. queue \in Seq(stored) /\ Len(queue) <= PageSize /\ done \in Seq(1 .. Len(log))
    BY <1>1, <1>3
  <2>4. cursor \in 0 .. Len(log) /\ scanned \in 0 .. cursor /\ pending \in 0 .. Len(log)
        /\ requested \in 0 .. Len(log) /\ Len(log) <= MaxSequence
    BY <1>1, <1>2, <1>3
  <2>5. QED
    BY <1>1, <1>2, <1>3, <1>4, <2>1, <2>2, <2>3, <2>4 DEF TypeOK, Drains, Gates, Lives
<1>6. Base = 0 /\ \A s \in 1 .. cursor : FALSE
  BY <1>1 DEF Base
<1>7. Table
  BY <1>1, <1>2, <1>6 DEF Table
<1>8. Past
  BY <1>1, <1>2, <1>6 DEF Past
<1>9. Line
  BY <1>1, <1>2 DEF Line
<1>10. Phases
  BY <1>1, <1>4 DEF Phases
<1>11. Applied
  BY <1>1, <1>2 DEF Applied
<1>12. Fences
  BY <1>1, <1>4 DEF Fences
<1>13. Progress
  BY <1>1, <1>4 DEF Progress
<1>14. Caches
  BY <1>1 DEF Caches, CachesHoldOpenTurns
<1>15. Failures
  BY <1>1, <1>4 DEF Failures
<1>16. QED
  BY <1>5, <1>7, <1>8, <1>9, <1>10, <1>11, <1>12, <1>13, <1>14, <1>15 DEF IInv

LEMMA StutterStep == ASSUME IInv, UNCHANGED vars PROVE IInv'
<1> USE DEF IInv
<1>1. UNCHANGED <<log, garbled, cursor, opened, stored, scanned, phase, rebuilt, drain, queue, quarantine,
                  pending, blocked, gate, aged, live, requested, wake, count, done, missed, failures,
                  handled, skipped>>
  BY DEF vars, ackVars, gateVars, liveVars, ownVars, pastVars
<1>2. Quiet
  BY <1>1 DEF Quiet, Starting, TypeOK
<1>3. CountGrows
  BY <1>1, CountSame
<1>4. drain # NoDrain => phase \in {"replay", "running"}
  BY DEF Phases
<1>5. QED
  BY <1>1, <1>2, <1>3, <1>4, Typed, QuietStep

LEMMA NextIInv == IInv /\ [Next]_vars => IInv'
<1> SUFFICES ASSUME IInv, [Next]_vars PROVE IInv'
  OBVIOUS
<1>1. CASE \E e \in Offered : Append1(e)
  BY <1>1, AppendStep
<1>2. CASE ReconcileSettled
  BY <1>2, ReconcileStep
<1>3. CASE Worker
  BY <1>3, SkipBlockedStep, CompleteStep, FailStep, CollideStep, QuarantineFlushStep,
     QuarantineAdvanceStep DEF Worker
<1>4. CASE Drain
  BY <1>4, DrainFlushStep, DrainReturnsStep, DrainPageStep, DrainFailsStep, DrainNextPageStep,
     NoteBlockedStep, BuryStep DEF Drain
<1>5. CASE Age \/ Poll \/ Notify
  BY <1>5, AgeStep, PollStep, NotifyStep
<1>6. CASE Live
  BY <1>6, LiveTakeStep, LiveDrainStep, LiveAfterStep DEF Live
<1>7. CASE Start
  BY <1>7, BootStep, StartPruneStep, RebuildStep, RebuildFailsStep, StartDrainStep, StopFlushStep
     DEF Start
<1>8. CASE Upgrade \/ Crash \/ Stop
  BY <1>8, UpgradeStep, CrashStep, StopStep
<1>9. CASE UNCHANGED vars
  BY <1>9, StutterStep
<1>10. QED
  BY <1>1, <1>2, <1>3, <1>4, <1>5, <1>6, <1>7, <1>8, <1>9 DEF Next

\* The inductive invariant holds in every state.
THEOREM InductiveInvariant == Spec => []IInv
BY InitIInv, NextIInv, PTL DEF Spec

\* Every variable has its type; the counters and the poison gate stay within their limits.
THEOREM TypeCorrect == Spec => []TypeOK
<1>1. IInv => TypeOK
  BY DEF IInv
<1>2. QED
  BY <1>1, InductiveInvariant, PTL

-----------------------------------------------------------------------------
(* The properties *)

\* One process applies a row once, and in the order of the journal, with however many failed
\* flushes, blocked pages and retries between: a drain never reads a page behind what the worker
\* has completed (drainRuntimeJournalThrough, flushRuntimeCursor).
THEOREM AppliedOnceInOrderCorrect == Spec => []AppliedOnceInOrder
<1>1. IInv => AppliedOnceInOrder
  BY DEF IInv, Applied, AppliedOnceInOrder
<1>2. QED
  BY <1>1, InductiveInvariant, PTL

\* The cursor passes only rows that were applied or given up: no crash, failed commit, quarantine
\* or dead letter loses a row (advanceConsumerCursor, advanceConsumerCursorThrough).
THEOREM AcknowledgedMeansHandledCorrect == Spec => []AcknowledgedMeansHandled
<1>1. IInv => AcknowledgedMeansHandled
  BY DEF IInv, Past, Row, AcknowledgedMeansHandled
<1>2. QED
  BY <1>1, InductiveInvariant, PTL

\* Retention keeps what the next process rebuilds, and the rebuild reads all of it: after it, the
\* caches hold every acknowledged row of an open turn (sweepAcceptedHistoryThrough,
\* readAcceptedOpenTurnEvents, rebuildAcceptedOpenTurnState).
THEOREM CachesHoldOpenTurnsCorrect == Spec => []CachesHoldOpenTurns
<1>1. IInv => CachesHoldOpenTurns
  BY DEF IInv, Caches
<1>2. QED
  BY <1>1, InductiveInvariant, PTL

\* What the worker is to quarantine is the row after the cursor.
LEMMA HeadCanBePassed == ASSUME IInv, quarantine = "advance" PROVE CanAdvanceTo(Head(queue))
<1> USE DEF IInv
<1> DEFINE h == Head(queue)
           X == Rows(cursor, Len(log))
<1>1. queue # <<>> /\ pending = 0 /\ Base = cursor
  BY BaseFacts DEF Phases
<1>2. h \in stored /\ h \in Nat /\ h > cursor /\ h \in 1 .. Len(log) /\ First(h, Base)
  BY <1>1, QueueFacts, HeadIsFirst
<1>3. cursor \in Nat /\ Len(log) \in Nat /\ stored \subseteq 1 .. Len(log) /\ \A s \in stored : s \in Nat
  BY BaseFacts
<1>4. X = {s \in stored : cursor < s /\ s <= Len(log)}
  BY DEF Rows
<1>5. X \in SUBSET (0 .. Len(log))
  <2>1. stored \subseteq 0 .. Len(log) /\ X \subseteq stored
    BY <1>3, <1>4
  <2>2. QED
    BY <2>1
<1> HIDE DEF h, X
<1>6. h \in X /\ \A r \in X : h <= r
  BY <1>1, <1>2, <1>3, <1>4 DEF First
<1>7. ASSUME NEW s PROVE s \in Earliest(1, X) <=> s = h
  <2>1. s \in Earliest(1, X) <=> s \in X /\ \A r \in X : s <= r
    BY <1>3, <1>5, EarliestOne
  <2>2. ASSUME s \in X, s <= h PROVE s = h
    BY <1>2, <1>3, <1>4, <1>6, <2>2
  <2>3. QED
    BY <1>6, <2>1, <2>2
<1>8. Earliest(1, X) = {h}
  BY <1>7
<1>9. QED
  BY <1>8 DEF CanAdvanceTo, h, X

\* The defects that flush, quarantine and drain throw on are unreachable: a row can be passed
\* whenever the code asks for it, a page below the fence is not empty, and a page that is not
\* blocked moves the cursor.
THEOREM NoDefectCorrect == Spec => []NoDefect
<1>1. IInv => NoDefect
  <2> SUFFICES ASSUME IInv PROVE NoDefect
    OBVIOUS
  <2>1. pending # 0 => CanAdvanceThrough(pending)
    BY BaseFacts DEF IInv, Line, CanAdvanceThrough
  <2>2. quarantine = "advance" => CanAdvanceTo(Head(queue))
    BY HeadCanBePassed
  <2>3. At("page") /\ cursor < drain.fence => Page # {}
    BY PageFacts DEF IInv
  <2>4. At("check") /\ ~blocked => cursor > drain.from
    BY DEF IInv, Progress, At
  <2>5. At("bury") => Rows(cursor, Len(log)) # {}
    <3>1. ASSUME At("bury") PROVE Rows(cursor, Len(log)) # {}
      <4>1. PICK s \in stored : cursor < s
        BY <3>1 DEF IInv, Progress, At, Ahead
      <4>2. s <= Len(log)
        BY BaseFacts DEF IInv
      <4>3. s \in Rows(cursor, Len(log))
        BY <4>1, <4>2 DEF Rows
      <4>4. QED
        BY <4>3
    <3>2. QED
      BY <3>1
  <2>6. QED
    BY <2>1, <2>2, <2>3, <2>4, <2>5 DEF NoDefect
<1>2. QED
  BY <1>1, InductiveInvariant, PTL

GivesUpFailed ==
  \A s \in skipped' \ skipped :
    failures[s] >= IF At("bury") THEN PoisonLimit - count["faults"] ELSE 1

LEMMA QuarantineGivesUp == ASSUME IInv, QuarantineAdvance PROVE GivesUpFailed
<1> USE DEF IInv
<1>1. quarantine = "advance" /\ skipped' \ skipped \subseteq {Head(queue)}
  BY DEF QuarantineAdvance
<1>2. queue # <<>> /\ failures[Head(queue)] >= 1 /\ drain.pc \in {"off", "work"}
  BY <1>1 DEF Phases
<1>3. ~At("bury")
  BY <1>2 DEF At
<1>4. QED
  BY <1>1, <1>2, <1>3 DEF GivesUpFailed

LEMMA BuryGivesUp == ASSUME IInv, Bury PROVE GivesUpFailed
<1> USE DEF IInv
<1>1. PICK s \in Earliest(1, Rows(cursor, Len(log))) : skipped' = skipped \cup ({s} \cap 1 .. cursor')
  BY DEF Bury
<1>2. drain.pc = "bury" /\ gate.cursor = cursor /\ gate.count = PoisonLimit
  BY DEF Bury, At, Progress
<1>3. First(s, cursor) /\ s \in stored
  BY EarliestIsFirst
<1>4. HeadFailed(cursor, PoisonLimit)
  BY <1>2 DEF Failures
<1>5. failures[s] >= PoisonLimit - count["faults"]
  BY <1>3, <1>4 DEF HeadFailed
<1>6. skipped' \ skipped \subseteq {s}
  BY <1>1
<1>7. QED
  BY <1>2, <1>5, <1>6 DEF GivesUpFailed, At

LEMMA OthersGiveNothingUp ==
  ASSUME [Next]_vars, ~QuarantineAdvance, ~Bury
  PROVE  skipped' = skipped
<1> USE DEF pastVars
<1>1. CASE (\E e \in Offered : Append1(e)) \/ ReconcileSettled
  BY <1>1 DEF Append1, ReconcileSettled
<1>2. CASE Worker
  BY <1>2 DEF Worker, SkipBlocked, Complete, Fail, Collide, QuarantineFlush
<1>3. CASE Drain
  BY <1>3 DEF Drain, DrainFlush, DrainReturns, DrainPage, DrainFails, DrainNextPage, NoteBlocked
<1>4. CASE Age \/ Poll \/ Notify \/ Live
  BY <1>4 DEF Age, Poll, Notify, Live, LiveTake, LiveDrain, LiveAfter
<1>5. CASE Start
  BY <1>5 DEF Start, Boot, StartPrune, Rebuild, RebuildFails, StartDrain, StopFlush
<1>6. CASE Upgrade \/ Crash \/ Stop
  BY <1>6 DEF Upgrade, Crash, Stop
<1>7. CASE UNCHANGED vars
  BY <1>7 DEF vars
<1>8. QED
  BY <1>1, <1>2, <1>3, <1>4, <1>5, <1>6, <1>7 DEF Next

\* No row behind a poison one is given up in its place: what is quarantined failed, and what is
\* dead-lettered failed in as many drains as the gate asks for, less one for each reported fault
\* (noteBlockedDrain, deadLetterPoisonHeadRow, quarantineUnreplayableCommand).
THEOREM GivenUpFailedCorrect == Spec => GivenUpFailed
<1>1. IInv /\ [Next]_vars => GivesUpFailed
  <2>1. ASSUME skipped' = skipped PROVE GivesUpFailed
    BY <2>1 DEF GivesUpFailed
  <2>2. QED
    BY <2>1, QuarantineGivesUp, BuryGivesUp, OthersGiveNothingUp
<1>2. IInv /\ [Next]_vars =>
        [\A s \in skipped' \ skipped :
           failures[s] >= IF At("bury") THEN PoisonLimit - count["faults"] ELSE 1]_vars
  BY <1>1 DEF GivesUpFailed
<1>3. QED
  BY <1>2, InductiveInvariant, PTL DEF Spec, GivenUpFailed
================================================================================
