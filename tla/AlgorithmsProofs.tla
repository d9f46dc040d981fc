--------------------------- MODULE AlgorithmsProofs ---------------------------
(***************************************************************************)
(* What the functions without state promise, for every input.              *)
(*                                                                         *)
(* What the retry loop gets from its array, for any number of credentials, *)
(* whatever their rows hold: orderCandidates has one outcome, the head of  *)
(* the array is the best of what remains, and the keys are taken in the    *)
(* order that the README promises.                                         *)
(*                                                                         *)
(* And what comes out of the translations and of a listing, for messages,  *)
(* choices and pages of any number: facts about lists that are put         *)
(* together (FlattenSeq), proved by induction along the list, carry the    *)
(* conversation through; the answers are a matter of cases.                *)
(***************************************************************************)
EXTENDS Algorithms, KeySelectionProofs, SequenceTheorems

-------------------------------------------------------------------------------
(* The outcome of orderCandidates.                                         *)

Sorted(q, s) == \A i, j \in DOMAIN q : i < j => Precedes(s, Now, q[i], q[j])

Before(pool, s, x) == {y \in pool : Precedes(s, Now, y, x)}

(* What goes before another has fewer before it.                           *)
LEMMA FewerBefore ==
  ASSUME NEW s, NEW pool, IsPool(pool), IsFiniteSet(pool),
         NEW x \in pool, NEW y \in pool, Precedes(s, Now, x, y)
  PROVE  Cardinality(Before(pool, s, x)) < Cardinality(Before(pool, s, y))
<1>1. pool \subseteq Candidate /\ Now \in Nat
  BY PoolAssumption DEF IsPool
<1>2. Before(pool, s, x) \subseteq Before(pool, s, y)
  BY <1>1, PrecedesIsStrictTotalOrder DEF Before
<1>3. x \in Before(pool, s, y) /\ x \notin Before(pool, s, x)
  BY <1>1, PrecedesIsStrictTotalOrder DEF Before
<1>4. IsFiniteSet(Before(pool, s, x)) /\ IsFiniteSet(Before(pool, s, y))
  BY FS_Subset DEF Before
<1>5. /\ Cardinality(Before(pool, s, x)) \in Nat /\ Cardinality(Before(pool, s, y)) \in Nat
      /\ Cardinality(Before(pool, s, x)) <= Cardinality(Before(pool, s, y))
      /\ Cardinality(Before(pool, s, x)) # Cardinality(Before(pool, s, y))
  BY <1>2, <1>3, <1>4, FS_Subset, FS_CardinalityType
<1> QED
  BY <1>5

(* Each candidate has a place of its own, and every place is taken.        *)
LEMMA PlacesAreTaken ==
  ASSUME NEW s, NEW pool, IsPool(pool), IsFiniteSet(pool)
  PROVE  [x \in pool |-> 1 + Cardinality(Before(pool, s, x))] \in
           Bijection(pool, 1..Cardinality(pool))
<1> DEFINE N == Cardinality(pool)
           place == [x \in pool |-> 1 + Cardinality(Before(pool, s, x))]
<1>1. pool \subseteq Candidate /\ Now \in Nat /\ \A a, b \in pool : a.cred = b.cred => a = b
  BY PoolAssumption DEF IsPool
<1>2. ASSUME NEW x \in pool
      PROVE  place[x] \in 1..N
  <2>1. Before(pool, s, x) \subseteq pool /\ x \notin Before(pool, s, x)
    BY <1>1, PrecedesIsStrictTotalOrder DEF Before
  <2>2. /\ Cardinality(Before(pool, s, x)) \in Nat /\ N \in Nat
        /\ Cardinality(Before(pool, s, x)) <= N
        /\ Cardinality(Before(pool, s, x)) # N
    BY <2>1, FS_Subset, FS_CardinalityType
  <2> QED
    BY <2>2
<1>3. ASSUME NEW x \in pool, NEW y \in pool, place[x] = place[y]
      PROVE  x = y
  <2>1. /\ Cardinality(Before(pool, s, x)) \in Nat /\ Cardinality(Before(pool, s, y)) \in Nat
    BY FS_Subset, FS_CardinalityType DEF Before
  <2>2. Cardinality(Before(pool, s, x)) = Cardinality(Before(pool, s, y))
    BY <1>3, <2>1
  <2>3. ~Precedes(s, Now, x, y) /\ ~Precedes(s, Now, y, x)
    BY <2>1, <2>2, FewerBefore
  <2> QED
    BY <1>1, <2>3, PrecedesIsStrictTotalOrder
<1>4. place \in [pool -> 1..N]
  BY <1>2
<1> HIDE DEF place
<1>5. place \in Injection(pool, 1..N)
  BY <1>3, <1>4 DEF Injection, IsInjective
<1>6. IsFiniteSet(1..N) /\ Cardinality(1..N) = N
  BY FS_CardinalityType, FS_Interval
<1>7. place \in Surjection(pool, 1..N)
  BY <1>5, <1>6, FS_Injection
<1> QED
  BY <1>5, <1>7 DEF place, Bijection

(* A pool has a sorted array.                                              *)
LEMMA SortedExists ==
  ASSUME NEW s, NEW pool, IsPool(pool), IsFiniteSet(pool)
  PROVE  \E q \in SetToSeqs(pool) :
           \A i, j \in DOMAIN q : i < j => ~Precedes(s, Now, q[j], q[i])
<1> DEFINE N == Cardinality(pool)
           place == [x \in pool |-> 1 + Cardinality(Before(pool, s, x))]
           q == [i \in 1..N |-> CHOOSE x \in pool : place[x] = i]
<1>1. place \in Bijection(pool, 1..N)
  BY PlacesAreTaken
<1>2. /\ \A x, y \in pool : place[x] = place[y] => x = y
      /\ \A i \in 1..N : \E x \in pool : place[x] = i
  <2> HIDE DEF place
  <2> QED
    BY <1>1 DEF Bijection, Injection, IsInjective, Surjection
<1>3. \A x, y \in pool : Precedes(s, Now, x, y) => place[x] < place[y]
  <2> SUFFICES ASSUME NEW x \in pool, NEW y \in pool, Precedes(s, Now, x, y)
               PROVE  place[x] < place[y]
    OBVIOUS
  <2>1. Cardinality(Before(pool, s, x)) < Cardinality(Before(pool, s, y))
    BY FewerBefore
  <2>2. Cardinality(Before(pool, s, x)) \in Nat /\ Cardinality(Before(pool, s, y)) \in Nat
    BY FS_Subset, FS_CardinalityType DEF Before
  <2> QED
    BY <2>1, <2>2
<1> HIDE DEF place
<1>4. \A i \in 1..N : q[i] \in pool /\ place[q[i]] = i
  BY <1>2
<1>5. q \in [1..N -> pool]
  BY <1>4
<1> HIDE DEF q
<1>6. \A i, j \in 1..N : i # j => q[i] # q[j]
  BY <1>4
<1>7. q \in SetToSeqs(pool)
  BY <1>5, <1>6 DEF SetToSeqs
<1>8. ASSUME NEW i \in DOMAIN q, NEW j \in DOMAIN q, i < j
      PROVE  ~Precedes(s, Now, q[j], q[i])
  <2>1. i \in 1..N /\ j \in 1..N
    BY <1>5
  <2>2. N \in Nat
    BY FS_CardinalityType
  <2> QED
    BY <1>3, <1>4, <1>8, <2>1, <2>2
<1> QED
  BY <1>7, <1>8

(* What sort may return: no entry stands behind one that goes after it.    *)
Outcome(q, pool, s) ==
  /\ q \in SetToSeqs(pool)
  /\ \A i, j \in DOMAIN q : i < j => ~Precedes(s, Now, q[j], q[i])

(* An outcome of sort, as a function on its places.                        *)
LEMMA OutcomeIs ==
  ASSUME NEW s, NEW pool, IsPool(pool), IsFiniteSet(pool), NEW q, Outcome(q, pool, s)
  PROVE  /\ q \in [1..Cardinality(pool) -> pool]
         /\ \A i, j \in DOMAIN q : i # j => q[i] # q[j]
         /\ ToSet(q) = pool
         /\ Sorted(q, s)
<1> DEFINE N == Cardinality(pool)
<1>1. /\ q \in SetToSeqs(pool)
      /\ \A i, j \in DOMAIN q : i < j => ~Precedes(s, Now, q[j], q[i])
  BY DEF Outcome
<1>2. q \in [1..N -> pool] /\ \A i, j \in 1..N : i # j => q[i] # q[j]
  BY <1>1 DEF SetToSeqs
<1>3. Sorted(q, s)
  <2>1. pool \subseteq Candidate /\ Now \in Nat /\ \A a, b \in pool : a.cred = b.cred => a = b
    BY PoolAssumption DEF IsPool
  <2> SUFFICES ASSUME NEW i \in 1..N, NEW j \in 1..N, i < j
               PROVE  Precedes(s, Now, q[i], q[j])
    BY <1>2 DEF Sorted
  <2>2. q[i] \in pool /\ q[j] \in pool /\ q[i] # q[j] /\ ~Precedes(s, Now, q[j], q[i])
    BY <1>1, <1>2
  <2> QED
    BY <2>1, <2>2, PrecedesIsStrictTotalOrder
<1>4. ToSet(q) = pool
  <2>1. q \in Injection(1..N, pool)
    BY <1>2 DEF Injection, IsInjective
  <2>2. N \in Nat /\ Cardinality(1..N) = N /\ IsFiniteSet(1..N)
    BY FS_CardinalityType, FS_Interval
  <2>3. q \in Surjection(1..N, pool)
    BY <2>1, <2>2, FS_Injection
  <2> QED
    BY <1>2, <2>3 DEF Surjection, ToSet
<1> QED
  BY <1>2, <1>3, <1>4

(* An entry's index is one more than the number of those it goes after.    *)
LEMMA OutcomePlaces ==
  ASSUME NEW s, NEW pool, IsPool(pool), IsFiniteSet(pool), NEW q, Outcome(q, pool, s),
         NEW i \in 1..Cardinality(pool)
  PROVE  Cardinality(Before(pool, s, q[i])) = i - 1
<1> DEFINE N == Cardinality(pool)
           B == Before(pool, s, q[i])
           f == [k \in 1..i - 1 |-> q[k]]
<1>1. N \in Nat /\ i \in Nat /\ i - 1 \in Nat /\ \A k \in 1..i - 1 : k \in 1..N /\ k < i
  BY FS_CardinalityType
<1>2. /\ q \in [1..N -> pool] /\ DOMAIN q = 1..N
      /\ \A k, l \in 1..N : k # l => q[k] # q[l]
      /\ ToSet(q) = pool
      /\ \A k, l \in 1..N : k < l => Precedes(s, Now, q[k], q[l])
  BY OutcomeIs DEF Sorted
<1>3. \A k \in 1..i - 1 : f[k] \in B
  BY <1>1, <1>2 DEF Before
<1>4. ASSUME NEW y \in B
      PROVE  \E k \in 1..i - 1 : f[k] = y
  <2>1. y \in pool /\ Precedes(s, Now, y, q[i])
    BY <1>4 DEF Before
  <2>2. PICK k \in 1..N : y = q[k]
    BY <1>2, <2>1 DEF ToSet
  <2>3. ~Precedes(s, Now, q[i], y)
    BY <1>2, <2>1, PoolAssumption, PrecedesIsStrictTotalOrder DEF IsPool
  <2>4. k # i
    BY <2>1, <2>2, <2>3
  <2>5. ~(i < k)
    BY <1>2, <2>2, <2>3
  <2>6. k \in 1..i - 1
    BY <1>1, <2>4, <2>5
  <2> QED
    BY <2>2, <2>6
<1>5. \A k, l \in 1..i - 1 : f[k] = f[l] => k = l
  BY <1>1, <1>2
<1> HIDE DEF B
<1>6. f \in [1..i - 1 -> B]
  BY <1>3
<1> HIDE DEF f
<1>7. f \in Surjection(1..i - 1, B) /\ f \in Injection(1..i - 1, B)
  BY <1>4, <1>5, <1>6 DEF Surjection, Injection, IsInjective
<1>8. IsFiniteSet(1..i - 1) /\ Cardinality(1..i - 1) = i - 1
  <2>1. 1 \in Int /\ i - 1 \in Int /\ ~(1 > i - 1 /\ i - 1 # 0)
    BY <1>1
  <2>2. /\ IsFiniteSet(1..i - 1)
        /\ Cardinality(1..i - 1) = IF 1 > i - 1 THEN 0 ELSE i - 1 - 1 + 1
    BY <2>1, FS_Interval, Zenon
  <2> QED
    BY <1>1, <2>1, <2>2
<1>9. Cardinality(B) = Cardinality(1..i - 1)
  BY <1>7, <1>8, FS_Surjection
<1> QED
  BY <1>8, <1>9 DEF B

(* orderCandidates returns every candidate once, the best first; and       *)
(* however the engine sorts, it can return no other array.                 *)
THEOREM SortHasOneOutcome ==
  ASSUME NEW s, NEW pool, IsPool(pool), IsFiniteSet(pool)
  PROVE  /\ OrderCandidates(pool, s) \in SetToSeqs(pool)
         /\ ToSet(OrderCandidates(pool, s)) = pool
         /\ Sorted(OrderCandidates(pool, s), s)
         /\ \A q : Outcome(q, pool, s) => q = OrderCandidates(pool, s)
<1> DEFINE N == Cardinality(pool)
           o == OrderCandidates(pool, s)
<1>1. Outcome(o, pool, s)
  BY SortedExists, Zenon DEF OrderCandidates, Outcome
<1> HIDE DEF o
<1>2. ASSUME NEW q, Outcome(q, pool, s)
      PROVE  q = o
  <2>1. q \in [1..N -> pool] /\ o \in [1..N -> pool] /\ ToSet(o) = pool
    BY <1>1, <1>2, OutcomeIs
  <2>2. ASSUME NEW i \in 1..N
        PROVE  q[i] = o[i]
    <3>1. PICK k \in 1..N : q[i] = o[k]
      BY <2>1 DEF ToSet
    <3>2. Cardinality(Before(pool, s, q[i])) = i - 1
      BY <1>2, OutcomePlaces
    <3>3. Cardinality(Before(pool, s, o[k])) = k - 1
      BY <1>1, OutcomePlaces
    <3>4. i = k
      BY <3>1, <3>2, <3>3, FS_CardinalityType
    <3> QED
      BY <3>1, <3>4
  <2> HIDE DEF N
  <2>3. q \in [1..N -> pool] /\ o \in [1..N -> pool]
    BY <2>1
  <2>4. q = [i \in 1..N |-> q[i]] /\ o = [i \in 1..N |-> o[i]]
    BY <2>3, Zenon
  <2> QED
    BY <2>2, <2>4, Zenon
<1>3. ToSet(o) = pool /\ Sorted(o, s)
  BY <1>1, OutcomeIs
<1>4. o \in SetToSeqs(pool)
  BY <1>1 DEF Outcome
<1> QED
  BY <1>2, <1>3, <1>4 DEF o

-------------------------------------------------------------------------------
(* The array while it is shifted and sorted again.                         *)

(* b stands no better with its provider than a does.                       *)
NotWorse(a, b) ==
  /\ Rank(a, Now) <= Rank(b, Now)
  /\ Rank(a, Now) = 1 /\ Rank(b, Now) = 1 => a.until <= b.until

PoolTyped ==
  /\ primary \in Strategies /\ fallback \in Strategies \cup {NoFallback}
  /\ queue \in Seq(Candidate) /\ taken \in Seq(Candidate)

EachOnce == \A i, j \in DOMAIN queue : queue[i].cred = queue[j].cred => i = j

SortedByPrimary == taken = <<>> \/ fallback = NoFallback => Sorted(queue, primary)

HealthiestTaken ==
  /\ \A i, j \in DOMAIN taken : i < j => NotWorse(taken[i], taken[j])
  /\ \A i \in DOMAIN taken : \A b \in ToSet(queue) : NotWorse(taken[i], b)

BestWasFirst ==
  taken # <<>> => \A b \in ToSet(queue) : Precedes(primary, Now, taken[1], b)

PoolInv == PoolTyped /\ EachOnce /\ SortedByPrimary /\ HealthiestTaken /\ BestWasFirst

(* All strategies agree on health.                                         *)
LEMMA PrecedesNotWorse ==
  ASSUME NEW s, NEW a \in Candidate, NEW b \in Candidate, Precedes(s, Now, a, b)
  PROVE  NotWorse(a, b)
<1>1. Rank(a, Now) \in 0..2 /\ Rank(b, Now) \in 0..2 /\ a.until \in Nat /\ b.until \in Nat
  BY DEF Rank, Candidate
<1> QED
  BY <1>1 DEF Precedes, NotWorse

(* What an array of distinct credentials holds is a pool.                  *)
LEMMA QueueIsPool ==
  ASSUME PoolInv
  PROVE  IsPool(ToSet(queue)) /\ IsFiniteSet(ToSet(queue))
<1>1. /\ queue \in Seq(Candidate) /\ Len(queue) \in Nat /\ DOMAIN queue = 1..Len(queue)
      /\ \A i \in 1..Len(queue) : queue[i] \in Candidate
      /\ \A i, j \in 1..Len(queue) : queue[i].cred = queue[j].cred => i = j
  BY DEF PoolInv, PoolTyped, EachOnce
<1>2. IsPool(ToSet(queue))
  BY <1>1 DEF IsPool, ToSet
<1>3. queue \in Surjection(1..Len(queue), ToSet(queue))
  <2>1. queue \in [1..Len(queue) -> ToSet(queue)]
    BY <1>1 DEF ToSet
  <2>2. \A x \in ToSet(queue) : \E i \in 1..Len(queue) : queue[i] = x
    BY <1>1 DEF ToSet
  <2> QED
    BY <2>1, <2>2 DEF Surjection
<1>4. IsFiniteSet(1..Len(queue))
  BY <1>1, FS_Interval
<1> QED
  BY <1>2, <1>3, <1>4, FS_Surjection

(* What sort makes of a pool is an array of it.                            *)
LEMMA SortedArray ==
  ASSUME NEW s, NEW pool, IsPool(pool), IsFiniteSet(pool)
  PROVE  /\ OrderCandidates(pool, s) \in Seq(Candidate)
         /\ Len(OrderCandidates(pool, s)) = Cardinality(pool)
         /\ ToSet(OrderCandidates(pool, s)) = pool
         /\ Sorted(OrderCandidates(pool, s), s)
         /\ \A i, j \in DOMAIN OrderCandidates(pool, s) :
              OrderCandidates(pool, s)[i].cred = OrderCandidates(pool, s)[j].cred => i = j
<1> DEFINE o == OrderCandidates(pool, s)
           N == Cardinality(pool)
<1>1. o \in SetToSeqs(pool) /\ ToSet(o) = pool /\ Sorted(o, s)
  BY SortHasOneOutcome
<1> HIDE DEF o
<1>2. o \in [1..N -> pool] /\ \A i, j \in 1..N : i # j => o[i] # o[j]
  BY <1>1 DEF SetToSeqs
<1>3. N \in Nat /\ pool \subseteq Candidate /\ \A a, b \in pool : a.cred = b.cred => a = b
  BY FS_CardinalityType DEF IsPool
<1> HIDE DEF N
<1>4. o \in Seq(Candidate) /\ Len(o) = N
  BY <1>2, <1>3
<1>5. \A i, j \in DOMAIN o : o[i].cred = o[j].cred => i = j
  BY <1>2, <1>3
<1> QED
  BY <1>1, <1>4, <1>5 DEF o, N

LEMMA InitPool == Init => PoolInv
<1> SUFFICES ASSUME Init PROVE PoolInv
  OBVIOUS
<1>1. PICK p \in [Creds -> Profiles] :
        queue = OrderCandidates({Keyed(c, p[c]) : c \in Creds}, primary)
  BY DEF Init
<1> DEFINE pool == {Keyed(c, p[c]) : c \in Creds}
<1>2. \A c \in Creds : Keyed(c, p[c]) \in Candidate /\ Keyed(c, p[c]).cred = c
  BY PoolAssumption DEF Keyed, Candidate
<1>3. IsPool(pool)
  BY <1>2 DEF IsPool
<1>4. IsFiniteSet(pool)
  <2>1. [c \in Creds |-> Keyed(c, p[c])] \in Surjection(Creds, pool)
    BY DEF Surjection
  <2> QED
    BY <2>1, PoolAssumption, FS_Surjection
<1> HIDE DEF pool
<1>5. /\ queue \in Seq(Candidate) /\ Sorted(queue, primary)
      /\ \A i, j \in DOMAIN queue : queue[i].cred = queue[j].cred => i = j
  BY <1>1, <1>3, <1>4, SortedArray DEF pool
<1>6. /\ primary \in Strategies /\ fallback \in Strategies \cup {NoFallback}
      /\ taken = <<>> /\ DOMAIN taken = {}
  BY DEF Init
<1> QED
  BY <1>5, <1>6
     DEF PoolInv, PoolTyped, EachOnce, SortedByPrimary, HealthiestTaken, BestWasFirst

(* The array that the head is shifted from: of the same candidates, each   *)
(* once, in the order of the strategy in force.                            *)
LEMMA ShiftIs ==
  ASSUME PoolInv, Shift
  PROVE  \E pool \in Seq(Candidate) :
           /\ pool # <<>> /\ ToSet(pool) = ToSet(queue) /\ Sorted(pool, StrategyNow)
           /\ \A i, j \in DOMAIN pool : pool[i].cred = pool[j].cred => i = j
           /\ taken = <<>> => pool = queue
           /\ taken' = Append(taken, pool[1]) /\ queue' = Tail(pool)
           /\ UNCHANGED <<primary, fallback>>
<1>1. /\ queue \in Seq(Candidate) /\ queue # <<>>
      /\ \A i, j \in DOMAIN queue : queue[i].cred = queue[j].cred => i = j
      /\ UNCHANGED <<primary, fallback>>
  BY DEF PoolInv, PoolTyped, EachOnce, Shift
<1>2. CASE taken # <<>> /\ fallback # NoFallback
  <2> DEFINE pool == OrderCandidates(ToSet(queue), fallback)
  <2>1. /\ pool \in Seq(Candidate) /\ ToSet(pool) = ToSet(queue) /\ Sorted(pool, fallback)
        /\ \A i, j \in DOMAIN pool : pool[i].cred = pool[j].cred => i = j
    BY QueueIsPool, SortedArray
  <2>2. taken' = Append(taken, Head(pool)) /\ queue' = Tail(pool)
    BY <1>2 DEF Shift
  <2> HIDE DEF pool
  <2>3. pool # <<>>
    <3>1. queue[1] \in ToSet(queue)
      BY <1>1 DEF ToSet
    <3>2. ToSet(<<>>) = {}
      BY DEF ToSet
    <3> QED
      BY <2>1, <3>1, <3>2
  <2>4. Head(pool) = pool[1]
    BY <2>1, <2>3
  <2>5. StrategyNow = fallback
    BY <1>2 DEF StrategyNow
  <2> QED
    BY <1>1, <1>2, <2>1, <2>2, <2>3, <2>4, <2>5
<1>3. CASE ~(taken # <<>> /\ fallback # NoFallback)
  <2>1. taken' = Append(taken, Head(queue)) /\ queue' = Tail(queue)
    BY <1>3 DEF Shift
  <2>2. Head(queue) = queue[1]
    BY <1>1
  <2>3. Sorted(queue, StrategyNow)
    BY <1>3 DEF PoolInv, SortedByPrimary, StrategyNow
  <2> QED
    BY <1>1, <2>1, <2>2, <2>3
<1> QED
  BY <1>2, <1>3

(* The head goes before all that stays in the array.                       *)
LEMMA HeadGoesFirst ==
  ASSUME NEW s, NEW pool \in Seq(Candidate), pool # <<>>, Sorted(pool, s)
  PROVE  /\ pool[1] \in ToSet(pool)
         /\ Tail(pool) \in Seq(Candidate) /\ Len(Tail(pool)) = Len(pool) - 1
         /\ \A i \in DOMAIN Tail(pool) :
              i + 1 \in DOMAIN pool /\ Tail(pool)[i] = pool[i + 1]
         /\ ToSet(Tail(pool)) \subseteq ToSet(pool)
         /\ \A b \in ToSet(Tail(pool)) : Precedes(s, Now, pool[1], b)
         /\ Sorted(Tail(pool), s)
<1> DEFINE tail == Tail(pool)
<1>1. /\ Len(pool) \in Nat /\ DOMAIN pool = 1..Len(pool) /\ Len(pool) > 0
      /\ tail \in Seq(Candidate) /\ Len(tail) = Len(pool) - 1
      /\ DOMAIN tail = 1..Len(pool) - 1
      /\ \A i \in 1..Len(pool) - 1 : tail[i] = pool[i + 1]
  <2>1. Len(pool) \in Nat /\ DOMAIN pool = 1..Len(pool) /\ Len(pool) > 0
    BY EmptySeq
  <2>2. /\ tail \in Seq(Candidate) /\ Len(tail) = Len(pool) - 1
        /\ \A i \in 1..Len(tail) : tail[i] = pool[i + 1]
    BY HeadTailProperties
  <2> HIDE DEF tail
  <2> QED
    BY <2>1, <2>2
<1> HIDE DEF tail
<1>2. \A i \in DOMAIN tail : i + 1 \in DOMAIN pool /\ tail[i] = pool[i + 1] /\ 1 < i + 1
  BY <1>1
<1>3. pool[1] \in ToSet(pool) /\ 1 \in DOMAIN pool
  BY <1>1 DEF ToSet
<1>4. ToSet(tail) \subseteq ToSet(pool)
  BY <1>2 DEF ToSet
<1>5. \A b \in ToSet(tail) : Precedes(s, Now, pool[1], b)
  BY <1>2, <1>3 DEF ToSet, Sorted
<1>6. Sorted(tail, s)
  <2> SUFFICES ASSUME NEW i \in DOMAIN tail, NEW j \in DOMAIN tail, i < j
               PROVE  Precedes(s, Now, tail[i], tail[j])
    BY DEF Sorted
  <2>1. i + 1 < j + 1
    BY <1>1
  <2> QED
    BY <1>2, <2>1 DEF Sorted
<1> QED
  BY <1>1, <1>2, <1>3, <1>4, <1>5, <1>6 DEF tail

LEMMA ShiftPool ==
  ASSUME PoolInv, Shift
  PROVE  PoolInv'
<1>1. PICK pool \in Seq(Candidate) :
        /\ pool # <<>> /\ ToSet(pool) = ToSet(queue) /\ Sorted(pool, StrategyNow)
        /\ \A i, j \in DOMAIN pool : pool[i].cred = pool[j].cred => i = j
        /\ taken = <<>> => pool = queue
        /\ taken' = Append(taken, pool[1]) /\ queue' = Tail(pool)
        /\ UNCHANGED <<primary, fallback>>
  BY ShiftIs
<1>2. /\ pool[1] \in ToSet(queue) /\ queue' \in Seq(Candidate)
      /\ \A i \in DOMAIN queue' : i + 1 \in DOMAIN pool /\ queue'[i] = pool[i + 1]
      /\ ToSet(queue') \subseteq ToSet(queue)
      /\ \A b \in ToSet(queue') : Precedes(StrategyNow, Now, pool[1], b)
      /\ Sorted(queue', StrategyNow)
  BY <1>1, HeadGoesFirst
<1>3. /\ taken \in Seq(Candidate) /\ pool[1] \in Candidate
      /\ DOMAIN queue' \subseteq Nat
      /\ ToSet(queue) \subseteq Candidate
  <2>1. taken \in Seq(Candidate) /\ ToSet(queue) \subseteq Candidate
    BY QueueIsPool DEF PoolInv, PoolTyped, IsPool
  <2>2. DOMAIN queue' = 1..Len(queue') /\ Len(queue') \in Nat
    BY <1>2
  <2> QED
    BY <1>2, <2>1, <2>2
<1> DEFINE n == Len(taken)
<1>4. /\ n \in Nat /\ DOMAIN taken = 1..n
      /\ taken' \in Seq(Candidate) /\ taken' # <<>>
      /\ DOMAIN taken' = 1..n + 1
      /\ \A i \in 1..n : taken'[i] = taken[i]
      /\ taken'[n + 1] = pool[1]
  BY <1>1, <1>3, AppendProperties
<1> HIDE DEF n
<1>5. PoolTyped'
  BY <1>1, <1>2, <1>4 DEF PoolInv, PoolTyped
<1>6. EachOnce'
  <2> SUFFICES ASSUME NEW i \in DOMAIN queue', NEW j \in DOMAIN queue',
                      queue'[i].cred = queue'[j].cred
               PROVE  i = j
    BY DEF EachOnce
  <2>1. i + 1 = j + 1
    BY <1>1, <1>2
  <2> QED
    BY <1>3, <2>1
<1>7. SortedByPrimary'
  BY <1>1, <1>2, <1>4 DEF SortedByPrimary, StrategyNow, Sorted
<1>8. \A b \in ToSet(queue') : NotWorse(pool[1], b)
  BY <1>2, <1>3, PrecedesNotWorse
<1>9. HealthiestTaken'
  <2>1. /\ \A i, j \in 1..n : i < j => NotWorse(taken[i], taken[j])
        /\ \A i \in 1..n : \A b \in ToSet(queue) : NotWorse(taken[i], b)
    BY <1>4 DEF PoolInv, HealthiestTaken
  <2>2. ASSUME NEW i \in 1..n + 1, NEW j \in 1..n + 1, i < j
        PROVE  NotWorse(taken'[i], taken'[j])
    <3>1. i \in 1..n
      BY <1>4, <2>2
    <3>2. CASE j = n + 1
      BY <1>2, <1>4, <2>1, <3>1, <3>2
    <3>3. CASE j # n + 1
      <4>1. j \in 1..n
        BY <1>4, <3>3
      <4> QED
        BY <1>4, <2>1, <2>2, <3>1, <4>1
    <3> QED
      BY <3>2, <3>3
  <2>3. ASSUME NEW i \in 1..n + 1, NEW b \in ToSet(queue')
        PROVE  NotWorse(taken'[i], b)
    <3>1. CASE i = n + 1
      BY <1>4, <1>8, <3>1
    <3>2. CASE i # n + 1
      <4>1. i \in 1..n /\ b \in ToSet(queue)
        BY <1>2, <1>4, <3>2
      <4> QED
        BY <1>4, <2>1, <4>1
    <3> QED
      BY <3>1, <3>2
  <2>4. \A i, j \in DOMAIN taken' : i < j => NotWorse(taken'[i], taken'[j])
    BY <1>4, <2>2
  <2>5. \A i \in DOMAIN taken' : \A b \in ToSet(queue') : NotWorse(taken'[i], b)
    BY <1>4, <2>3
  <2> QED
    BY <2>4, <2>5 DEF HealthiestTaken, NotWorse, ToSet
<1>10. BestWasFirst'
  <2>1. CASE taken = <<>>
    <3>1. n = 0 /\ StrategyNow = primary
      BY <2>1 DEF n, StrategyNow
    <3> QED
      BY <1>1, <1>2, <1>4, <3>1 DEF BestWasFirst, ToSet
  <2>2. CASE taken # <<>>
    <3>1. 1 \in 1..n
      BY <1>3, <1>4, <2>2 DEF n
    <3>2. \A b \in ToSet(queue) : Precedes(primary, Now, taken[1], b)
      BY <2>2 DEF PoolInv, BestWasFirst
    <3> QED
      BY <1>1, <1>2, <1>4, <3>1, <3>2 DEF BestWasFirst, ToSet
  <2> QED
    BY <2>1, <2>2
<1> QED
  BY <1>5, <1>6, <1>7, <1>9, <1>10 DEF PoolInv

(* Also where the pool is idle beside a translation (ASpec).               *)
LEMMA IdlePool == AInit => PoolInv
<1> SUFFICES ASSUME AInit PROVE PoolInv
  OBVIOUS
<1>1. CASE Init
  BY <1>1, InitPool
<1>2. CASE /\ primary = "least_used" /\ fallback = NoFallback
           /\ queue = <<>> /\ taken = <<>>
  <2>1. DOMAIN queue = {} /\ queue \in Seq(Candidate) /\ taken \in Seq(Candidate)
    BY <1>2
  <2> QED
    BY <1>2, <2>1 DEF PoolInv, PoolTyped, EachOnce, SortedByPrimary, HealthiestTaken,
       BestWasFirst, Sorted, Strategies, ToSet
<1> QED
  BY <1>1, <1>2 DEF AInit

LEMMA SpecPoolInv == Spec \/ ASpec => []PoolInv
<1>1. Init => PoolInv
  BY InitPool
<1>2. PoolInv /\ [Next]_vars => PoolInv'
  <2> SUFFICES ASSUME PoolInv, [Next]_vars
               PROVE  PoolInv'
    OBVIOUS
  <2>1. CASE Shift
    BY <2>1, ShiftPool
  <2>2. CASE UNCHANGED vars
    BY <2>2 DEF vars, PoolInv, PoolTyped, EachOnce, SortedByPrimary, HealthiestTaken,
       BestWasFirst, Sorted, NotWorse, ToSet
  <2> QED
    BY <2>1, <2>2 DEF Next
<1>3. [ANext]_allVars => [Next]_vars
  BY DEF ANext, allVars, Next
<1> QED
  BY <1>1, <1>2, <1>3, IdlePool, PTL DEF Spec, ASpec

-------------------------------------------------------------------------------
(* At every attempt the comparator tells any two of the remaining keys     *)
(* apart, so that the outcome of sort is determined: the same snapshot     *)
(* routes the same way.                                                    *)
THEOREM OrderStaysDecided == Spec \/ ASpec => []OrderIsDecided
<1>1. PoolInv => OrderIsDecided
  <2> SUFFICES ASSUME PoolInv, NEW a \in ToSet(queue), NEW b \in ToSet(queue), a # b
               PROVE  Precedes(StrategyNow, Now, a, b) <=> ~Precedes(StrategyNow, Now, b, a)
    BY DEF OrderIsDecided
  <2>1. a \in Candidate /\ b \in Candidate /\ a.cred # b.cred
    BY QueueIsPool DEF IsPool
  <2> QED
    BY <2>1, PoolAssumption, PrecedesIsStrictTotalOrder
<1> QED
  BY <1>1, SpecPoolInv, PTL

(* A key that is not ready is taken only after every ready one, and of the *)
(* keys that cool down the one that recovers first, although the pool is   *)
(* sorted again by another strategy on the way.                            *)
THEOREM HealthGoesFirst == Spec \/ ASpec => []HealthBeforeStrategy
<1>1. PoolInv => HealthBeforeStrategy
  <2> SUFFICES ASSUME PoolInv, NEW i \in DOMAIN taken, NEW j \in DOMAIN taken,
                      i < j, taken[i].state # "ready"
               PROVE  /\ taken[j].state # "ready"
                      /\ taken[j].state = "cooling" /\ taken[j].until > Now =>
                           /\ taken[i].state = "cooling"
                           /\ taken[i].until \in (Now + 1)..taken[j].until
    BY DEF HealthBeforeStrategy
  <2>1. /\ taken[i].until \in Nat /\ taken[j].until \in Nat /\ Now \in Nat
    <3>1. taken[i] \in Candidate /\ taken[j] \in Candidate
      BY DEF PoolInv, PoolTyped
    <3> QED
      BY <3>1, PoolAssumption DEF Candidate
  <2>2. NotWorse(taken[i], taken[j])
    BY DEF PoolInv, HealthiestTaken
  <2> QED
    BY <2>1, <2>2 DEF NotWorse, Rank
<1> QED
  BY <1>1, SpecPoolInv, PTL

(* What a strategy prefers, put in the words of the README.                *)
LEMMA PrefersWhatIsBetter ==
  ASSUME NEW s \in Strategies, NEW a \in Candidate, NEW b \in Candidate, Prefers(s, a, b)
  PROVE  \/ BetterFor(s, a, b)
         \/ ~BetterFor(s, b, a) /\ CreatedAt[a.cred] < CreatedAt[b.cred]
<1>1. /\ a.uses \in Nat /\ b.uses \in Nat /\ a.lastUsed \in Nat /\ b.lastUsed \in Nat
      /\ a.latency \in Nat \cup {-1} /\ b.latency \in Nat \cup {-1}
  BY DEF Candidate, NoLatency
<1>2. CASE s = "least_used"
  BY <1>1, <1>2 DEF Prefers, LessUsed, Older, BetterFor
<1>3. CASE s = "round_robin"
  BY <1>1, <1>3 DEF Prefers, LongerIdle, Older, BetterFor
<1>4. CASE s = "fastest"
  BY <1>1, <1>4 DEF Prefers, Faster, Quicker, LessUsed, Older, BetterFor, NoLatency
<1>5. CASE s = "smartest"
  <2> DEFINE ab == a.errors * Picks(b)
             ba == b.errors * Picks(a)
  <2>1. ab \in Int /\ ba \in Int
    BY DEF Candidate, Picks
  <2>2. ab < ba \/ (ab = ba /\ Faster(a, b))
    BY <1>5 DEF Prefers, Smarter
  <2> DEFINE quicker(x, y) ==
               x.latency # NoLatency /\ (y.latency = NoLatency \/ x.latency < y.latency)
  <2>3. /\ BetterFor(s, a, b) <=>
             \/ ab < ba
             \/ ab = ba /\ quicker(a, b)
             \/ ab = ba /\ a.latency = b.latency /\ a.uses < b.uses
        /\ BetterFor(s, b, a) <=>
             \/ ba < ab
             \/ ba = ab /\ quicker(b, a)
             \/ ba = ab /\ b.latency = a.latency /\ b.uses < a.uses
    BY <1>5 DEF BetterFor, Picks
  <2> HIDE DEF ab, ba
  <2> QED
    BY <1>1, <2>1, <2>2, <2>3 DEF Faster, Quicker, LessUsed, Older, NoLatency
<1> QED
  BY <1>2, <1>3, <1>4, <1>5 DEF Strategies

(* A ready key is tried first only if the primary strategy prefers it to   *)
(* every other ready key, or sees no difference and it is the older one;   *)
(* this stays true of what is left of the array to the end of the call.    *)
THEOREM FirstPickIsPreferred == Spec \/ ASpec => []FirstPickFollowsStrategy
<1>1. PoolInv => FirstPickFollowsStrategy
  <2> SUFFICES ASSUME PoolInv, taken # <<>>, taken[1].state = "ready",
                      NEW b \in ToSet(queue), b.state = "ready"
               PROVE  \/ BetterFor(primary, taken[1], b)
                      \/ /\ ~BetterFor(primary, b, taken[1])
                         /\ CreatedAt[taken[1].cred] < CreatedAt[b.cred]
    BY DEF FirstPickFollowsStrategy
  <2>1. taken[1] \in Candidate /\ b \in Candidate /\ primary \in Strategies
    BY QueueIsPool DEF PoolInv, PoolTyped, IsPool
  <2>2. Precedes(primary, Now, taken[1], b)
    BY DEF PoolInv, BestWasFirst
  <2>3. Prefers(primary, taken[1], b)
    BY <2>2 DEF Precedes, Rank
  <2> QED
    BY <2>1, <2>3, PrefersWhatIsBetter
<1> QED
  BY <1>1, SpecPoolInv, PTL

(* What the loop shifts from the array is the Best of the set of what      *)
(* remains: a model whose pool is a set loses nothing.                     *)
THEOREM ArrayYieldsBest == Spec \/ ASpec => ShiftYieldsBest
<1>1. PoolInv /\ [Next]_vars =>
        [taken'[Len(taken')] = Best(StrategyNow, Now, ToSet(queue))]_vars
  <2> SUFFICES ASSUME PoolInv, Shift
               PROVE  taken'[Len(taken')] = Best(StrategyNow, Now, ToSet(queue))
    BY DEF Next
  <2>1. PICK pool \in Seq(Candidate) :
          /\ pool # <<>> /\ ToSet(pool) = ToSet(queue) /\ Sorted(pool, StrategyNow)
          /\ taken' = Append(taken, pool[1])
    BY ShiftIs
  <2> DEFINE S == ToSet(queue)
             head == pool[1]
             best == Best(StrategyNow, Now, S)
  <2>2. /\ IsPool(S) /\ IsFiniteSet(S) /\ Now \in Nat
        /\ S \subseteq Candidate /\ \A a, b \in S : a.cred = b.cred => a = b
    BY QueueIsPool, PoolAssumption DEF IsPool
  <2>3. head \in S
    BY <2>1, HeadGoesFirst
  <2>4. \A b \in S \ {head} : Precedes(StrategyNow, Now, head, b)
    <3>1. Len(pool) \in Nat /\ Len(pool) > 0 /\ DOMAIN pool = 1..Len(pool)
      BY <2>1, EmptySeq
    <3>2. \A i \in DOMAIN pool : i # 1 => Precedes(StrategyNow, Now, head, pool[i])
      BY <2>1, <3>1 DEF Sorted
    <3> QED
      BY <2>1, <3>2 DEF ToSet
  <2>5. /\ best \in S
        /\ \A b \in S \ {best} : Precedes(StrategyNow, Now, best, b)
    <3> HIDE DEF S
    <3>1. S # {}
      BY <2>3
    <3> QED
      BY <2>2, <3>1, BestIsFirst
  <2> HIDE DEF S, head, best
  <2>6. head = best
    BY <2>2, <2>3, <2>4, <2>5, PrecedesIsStrictTotalOrder
  <2>7. taken'[Len(taken')] = head
    <3>1. taken \in Seq(Candidate) /\ head \in Candidate
      BY <2>2, <2>3 DEF PoolInv, PoolTyped
    <3> QED
      BY <2>1, <3>1, AppendProperties DEF head
  <2> QED
    BY <2>6, <2>7 DEF best, S
<1>2. [ANext]_allVars => [Next]_vars
  BY DEF ANext, allVars, Next
<1> QED
  BY <1>1, <1>2, SpecPoolInv, PTL DEF Spec, ASpec, ShiftYieldsBest

-------------------------------------------------------------------------------
(* Induction along a list, with a set of numbers in the place of a         *)
(* predicate, and the elements of a list.                                  *)

LEMMA LeastNumber ==
  ASSUME NEW T \in SUBSET Nat, T # {}
  PROVE  \E m \in T : \A n \in T : m <= n
<1> DEFINE R == OpToRel(<, Nat)
<1>1. PICK m \in T : \A n \in T : <<n, m>> \notin R
  BY NatLessThanWellFounded, WFMin
<1>2. \A n \in Nat : n < m => <<n, m>> \in R
  BY DEF OpToRel
<1> HIDE DEF R
<1>3. ASSUME NEW n \in T
      PROVE  m <= n
  <2>1. n \in Nat /\ m \in Nat
    OBVIOUS
  <2>2. ~(n < m)
    BY <1>1, <1>2, <2>1
  <2> QED
    BY <2>1, <2>2
<1> QED
  BY <1>3

(* What passes from each number to the next reaches all of them: the form  *)
(* of induction the proofs about sequences use, with a set of numbers in   *)
(* the place of a predicate.                                               *)
LEMMA ReachesAll ==
  ASSUME NEW N \in Nat, NEW J, 0 \in J, \A i \in 1..N : i - 1 \in J => i \in J
  PROVE  0..N \subseteq J
<1> DEFINE missed == {i \in 0..N : i \notin J}
<1> SUFFICES ASSUME missed # {}
             PROVE  FALSE
  OBVIOUS
<1>1. PICK m \in missed : \A i \in missed : m <= i
  <2>1. missed \in SUBSET Nat
    OBVIOUS
  <2> HIDE DEF missed
  <2> QED
    BY <2>1, LeastNumber
<1>2. m \in 1..N /\ m - 1 \in 0..N
  BY <1>1
<1>3. m - 1 \notin missed
  BY <1>1, <1>2
<1> QED
  BY <1>1, <1>2, <1>3

(* The elements of a list.                                                 *)
LEMMA ItemsOf ==
  ASSUME NEW S, NEW s \in Seq(S)
  PROVE  /\ DOMAIN s = 1..Len(s) /\ Len(s) \in Nat
         /\ \A i \in 1..Len(s) : s[i] \in S
OBVIOUS

(* A list is one of whatever its elements are.                             *)
LEMMA SeqOfItems ==
  ASSUME NEW S, NEW T, NEW s \in Seq(S), \A i \in 1..Len(s) : s[i] \in T
  PROVE  s \in Seq(T)
OBVIOUS

-------------------------------------------------------------------------------
(* FlattenSeq, step by step.                                               *)

Flattens(ss, n, F) ==
  /\ F[0] = <<>>
  /\ \A i \in 1..n : F[i] = F[i - 1] \o ss[i]

(* There is one such step function: induction on how far it goes.          *)
LEMMA FlattenExists ==
  ASSUME NEW S, NEW ss \in Seq(Seq(S))
  PROVE  \E F \in [0..Len(ss) -> Seq(S)] : Flattens(ss, Len(ss), F)
<1> DEFINE J == {n \in 0..Len(ss) : \E F \in [0..n -> Seq(S)] : Flattens(ss, n, F)}
<1>1. Len(ss) \in Nat
  OBVIOUS
<1>2. 0 \in J
  <2> DEFINE F == [i \in 0..0 |-> <<>>]
  <2>1. F \in [0..0 -> Seq(S)] /\ F[0] = <<>> /\ 1..0 = {}
    OBVIOUS
  <2>2. Flattens(ss, 0, F)
    BY <2>1 DEF Flattens
  <2> QED
    BY <1>1, <2>1, <2>2
<1>3. ASSUME NEW n \in 1..Len(ss), n - 1 \in J
      PROVE  n \in J
  <2>1. PICK F \in [0..n - 1 -> Seq(S)] : Flattens(ss, n - 1, F)
    BY <1>3
  <2> DEFINE G == [i \in 0..n |-> IF i = n THEN F[n - 1] \o ss[n] ELSE F[i]]
  <2>2. ss[n] \in Seq(S) /\ n - 1 \in 0..n - 1 /\ F[n - 1] \in Seq(S)
    BY <1>1, <2>1
  <2>3. F[n - 1] \o ss[n] \in Seq(S)
    BY <2>2, ConcatProperties
  <2>4. G \in [0..n -> Seq(S)]
    BY <1>1, <2>1, <2>3
  <2>5. G[n] = F[n - 1] \o ss[n] /\ \A i \in 0..n - 1 : G[i] = F[i]
    <3>1. n \in 0..n /\ \A i \in 0..n - 1 : i \in 0..n /\ i # n
      BY <1>1
    <3> QED
      BY <3>1, Zenon
  <2> HIDE DEF G
  <2>6. G[0] = <<>>
    BY <1>1, <2>1, <2>5 DEF Flattens
  <2>7. ASSUME NEW i \in 1..n
        PROVE  G[i] = G[i - 1] \o ss[i]
    <3>1. CASE i = n
      BY <2>2, <2>5, <3>1
    <3>2. CASE i # n
      <4>1. i \in 1..n - 1 /\ i \in 0..n - 1 /\ i - 1 \in 0..n - 1
        BY <1>1, <3>2
      <4> QED
        BY <2>1, <2>5, <4>1 DEF Flattens
    <3> QED
      BY <3>1, <3>2
  <2>8. Flattens(ss, n, G)
    BY <2>6, <2>7 DEF Flattens
  <2>9. n \in 0..Len(ss)
    BY <1>1
  <2> QED
    BY <2>4, <2>8, <2>9
<1>4. 0..Len(ss) \subseteq J
  <2> HIDE DEF J
  <2> QED
    BY <1>1, <1>2, <1>3, ReachesAll
<1>5. Len(ss) \in 0..Len(ss)
  BY <1>1
<1> QED
  BY <1>4, <1>5

(* Any two step-by-step concatenations agree, as far as both go over the   *)
(* same sequences.                                                         *)
LEMMA FlattensAgree ==
  ASSUME NEW n \in Nat, NEW ss, NEW tt, NEW F, NEW G,
         Flattens(ss, n, F), Flattens(tt, n, G),
         \A i \in 1..n : ss[i] = tt[i]
  PROVE  F[n] = G[n]
<1> DEFINE J == {i \in 0..n : F[i] = G[i]}
<1>1. 0 \in J
  BY DEF Flattens
<1>2. ASSUME NEW i \in 1..n, i - 1 \in J
      PROVE  i \in J
  <2>1. F[i] = F[i - 1] \o ss[i] /\ G[i] = G[i - 1] \o tt[i]
    BY DEF Flattens
  <2>2. F[i - 1] = G[i - 1] /\ ss[i] = tt[i] /\ i \in 0..n
    BY <1>2
  <2> QED
    BY <2>1, <2>2
<1>3. 0..n \subseteq J
  <2> HIDE DEF J
  <2> QED
    BY <1>1, <1>2, ReachesAll
<1>4. n \in 0..n
  OBVIOUS
<1> QED
  BY <1>3, <1>4

(* FlattenSeq, defined by a recursive function, is its last step.          *)
LEMMA FlattenIs ==
  ASSUME NEW S, NEW ss \in Seq(Seq(S)), NEW F, Flattens(ss, Len(ss), F)
  PROVE  FlattenSeq(ss) = F[Len(ss)]
<1> DEFINE n == Len(ss)
           Step(g) == [i \in 1..n |-> IF i = 1 THEN ss[i] ELSE g[i - 1] \o ss[i]]
           flatten == CHOOSE g : g = Step(g)
           G == [i \in 1..n |-> F[i]]
<1>1. n \in Nat
  OBVIOUS
<1>2. CASE n = 0
  <2>1. ss = <<>>
    BY <1>2
  <2> QED
    BY <1>2, <2>1 DEF FlattenSeq, Flattens
<1>3. CASE n # 0
  <2>1. FlattenSeq(ss) = flatten[n]
    BY <1>3 DEF FlattenSeq
  <2>2. PICK H \in [0..n -> Seq(S)] : Flattens(ss, n, H)
    BY FlattenExists
  <2>3. H[1] = ss[1]
    <3>1. 1 \in 1..n /\ 1 - 1 = 0 /\ ss[1] \in Seq(S)
      BY <1>1, <1>3
    <3>2. H[1] = H[1 - 1] \o ss[1] /\ H[0] = <<>>
      BY <2>2, <3>1 DEF Flattens
    <3> QED
      BY <3>1, <3>2, ConcatEmptySeq
  <2> DEFINE K == [i \in 1..n |-> H[i]]
  <2>4. ASSUME NEW i \in 1..n
        PROVE  K[i] = IF i = 1 THEN ss[i] ELSE K[i - 1] \o ss[i]
    <3>1. CASE i = 1
      BY <2>3, <3>1
    <3>2. CASE i # 1
      <4>1. i - 1 \in 1..n
        BY <1>1, <3>2
      <4>2. H[i] = H[i - 1] \o ss[i]
        BY <2>2 DEF Flattens
      <4> QED
        BY <3>2, <4>1, <4>2
    <3> QED
      BY <3>1, <3>2
  <2>5. K = Step(K)
    BY <2>4
  <2>6. flatten = Step(flatten)
    <3> HIDE DEF Step, K
    <3> QED
      BY <2>5
  <2> DEFINE E == [i \in 0..n |-> IF i = 0 THEN <<>> ELSE flatten[i]]
  <2>7. ASSUME NEW i \in 1..n
        PROVE  flatten[i] = IF i = 1 THEN ss[i] ELSE flatten[i - 1] \o ss[i]
    <3>1. Step(flatten)[i] = IF i = 1 THEN ss[i] ELSE flatten[i - 1] \o ss[i]
      <4> HIDE DEF flatten
      <4> QED
        OBVIOUS
    <3> HIDE DEF Step, flatten
    <3> QED
      BY <2>6, <3>1
  <2> HIDE DEF flatten
  <2>8. Flattens(ss, n, E)
    <3>1. E[0] = <<>>
      BY <1>1
    <3>2. ASSUME NEW i \in 1..n
          PROVE  E[i] = E[i - 1] \o ss[i]
      <4>0. E[i] = flatten[i] /\ i \in Nat
        BY <1>1
      <4>1. CASE i = 1
        <5>1. E[i - 1] = <<>> /\ ss[i] \in Seq(S) /\ E[i] = ss[i]
          BY <1>1, <2>7, <3>1, <4>0, <4>1
        <5> QED
          BY <5>1, ConcatEmptySeq
      <4>2. CASE i # 1
        <5>1. i - 1 \in 1..n /\ E[i - 1] = flatten[i - 1]
          BY <1>1, <4>2
        <5> QED
          BY <2>7, <4>0, <4>2, <5>1
      <4> QED
        BY <4>1, <4>2
    <3> HIDE DEF E
    <3> QED
      BY <3>1, <3>2 DEF Flattens
  <2>9. E[n] = flatten[n]
    BY <1>1, <1>3
  <2> HIDE DEF E
  <2>10. E[n] = F[n]
    BY <1>1, <2>8, FlattensAgree
  <2> QED
    BY <2>1, <2>9, <2>10
<1> QED
  BY <1>2, <1>3

(* FlattenSeq through its steps: what the lemmas below start from.         *)
LEMMA FlattenSteps ==
  ASSUME NEW S, NEW ss \in Seq(Seq(S))
  PROVE  \E F \in [0..Len(ss) -> Seq(S)] :
           Flattens(ss, Len(ss), F) /\ FlattenSeq(ss) = F[Len(ss)]
BY FlattenExists, FlattenIs

(* A list of sequences over S is put together to a sequence over S.        *)
LEMMA FlattenType ==
  ASSUME NEW S, NEW ss \in Seq(Seq(S))
  PROVE  FlattenSeq(ss) \in Seq(S)
<1>1. Len(ss) \in 0..Len(ss)
  OBVIOUS
<1> QED
  BY <1>1, FlattenSteps

(* Nothing and a single sequence, put together.                            *)
LEMMA FlattenEmpty == FlattenSeq(<<>>) = <<>>
BY DEF FlattenSeq

LEMMA FlattenOne ==
  ASSUME NEW S, NEW s \in Seq(S)
  PROVE  FlattenSeq(<<s>>) = s
<1>1. <<s>> \in Seq(Seq(S)) /\ Len(<<s>>) = 1 /\ <<s>>[1] = s
  OBVIOUS
<1>2. PICK F \in [0..1 -> Seq(S)] : Flattens(<<s>>, 1, F) /\ FlattenSeq(<<s>>) = F[1]
  BY <1>1, FlattenSteps
<1>3. F[1] = F[1 - 1] \o <<s>>[1] /\ F[0] = <<>> /\ 1 - 1 = 0
  BY <1>2 DEF Flattens
<1>4. F[1] = <<>> \o s
  BY <1>1, <1>3
<1> QED
  BY <1>2, <1>4, ConcatEmptySeq

(* Nothing comes of nothing.                                               *)
LEMMA FlattenNothing ==
  ASSUME NEW S, NEW ss \in Seq(Seq(S)), \A i \in 1..Len(ss) : ss[i] = <<>>
  PROVE  FlattenSeq(ss) = <<>>
<1> DEFINE n == Len(ss)
<1>1. n \in Nat
  OBVIOUS
<1>2. PICK F \in [0..n -> Seq(S)] : Flattens(ss, n, F) /\ FlattenSeq(ss) = F[n]
  BY FlattenSteps
<1> HIDE DEF n
<1> DEFINE J == {i \in 0..n : F[i] = <<>>}
<1>3. 0 \in J
  BY <1>1, <1>2 DEF Flattens
<1>4. ASSUME NEW i \in 1..n, i - 1 \in J
      PROVE  i \in J
  <2>1. F[i] = F[i - 1] \o ss[i] /\ ss[i] = <<>> /\ F[i - 1] = <<>>
    BY <1>2, <1>4 DEF Flattens, n
  <2>2. <<>> \in Seq(S)
    OBVIOUS
  <2>3. F[i] = <<>>
    BY <2>1, <2>2, ConcatEmptySeq
  <2> QED
    BY <1>1, <2>3
<1>5. 0..n \subseteq J
  <2> HIDE DEF J
  <2> QED
    BY <1>1, <1>3, <1>4, ReachesAll
<1> QED
  BY <1>1, <1>2, <1>5

(* Sequences of one element each: the sequence of those.                   *)
LEMMA FlattenSingles ==
  ASSUME NEW S, NEW ss \in Seq(Seq(S)), \A i \in 1..Len(ss) : Len(ss[i]) = 1
  PROVE  /\ Len(FlattenSeq(ss)) = Len(ss)
         /\ \A i \in 1..Len(ss) : FlattenSeq(ss)[i] = ss[i][1]
<1> DEFINE n == Len(ss)
<1>1. n \in Nat
  OBVIOUS
<1>2. PICK F \in [0..n -> Seq(S)] : Flattens(ss, n, F) /\ FlattenSeq(ss) = F[n]
  BY FlattenSteps
<1>3. \A i \in 1..n : ss[i] \in Seq(S) /\ Len(ss[i]) = 1
  OBVIOUS
<1> HIDE DEF n
<1> DEFINE J == {i \in 0..n : Len(F[i]) = i /\ \A j \in 1..i : F[i][j] = ss[j][1]}
<1>4. 0 \in J
  BY <1>1, <1>2 DEF Flattens
<1>5. ASSUME NEW i \in 1..n, i - 1 \in J
      PROVE  i \in J
  <2>1. F[i] = F[i - 1] \o ss[i] /\ ss[i] \in Seq(S) /\ Len(ss[i]) = 1
    BY <1>2, <1>3 DEF Flattens
  <2>2. F[i - 1] \in Seq(S) /\ Len(F[i - 1]) = i - 1 /\ \A j \in 1..i - 1 : F[i - 1][j] = ss[j][1]
    BY <1>1, <1>5
  <2>3. /\ Len(F[i]) = (i - 1) + 1
        /\ \A j \in 1..(i - 1) + 1 :
             F[i][j] = IF j <= i - 1 THEN F[i - 1][j] ELSE ss[i][j - (i - 1)]
    <3>1. /\ Len(F[i - 1] \o ss[i]) = Len(F[i - 1]) + Len(ss[i])
          /\ \A j \in 1..Len(F[i - 1]) + Len(ss[i]) :
               (F[i - 1] \o ss[i])[j] =
                 IF j <= Len(F[i - 1]) THEN F[i - 1][j] ELSE ss[i][j - Len(F[i - 1])]
      BY <2>1, <2>2, ConcatProperties
    <3> QED
      BY <2>1, <2>2, <3>1
  <2>4. Len(F[i]) = i /\ \A j \in 1..i : F[i][j] = ss[j][1]
    <3>1. i \in Nat /\ (i - 1) + 1 = i
      BY <1>1
    <3>2. ASSUME NEW j \in 1..i
          PROVE  F[i][j] = ss[j][1]
      <4>1. CASE j <= i - 1
        BY <2>2, <2>3, <3>1, <4>1
      <4>2. CASE ~(j <= i - 1)
        <5>1. j = i /\ j - (i - 1) = 1
          BY <3>1, <4>2
        <5>2. F[i][j] = ss[i][j - (i - 1)]
          BY <2>3, <3>1, <4>2
        <5> QED
          BY <5>1, <5>2
      <4> QED
        BY <4>1, <4>2
    <3> QED
      BY <2>3, <3>1, <3>2
  <2>5. i \in 0..n
    BY <1>1
  <2> QED
    BY <2>4, <2>5
<1>6. 0..n \subseteq J
  <2> HIDE DEF J
  <2> QED
    BY <1>1, <1>4, <1>5, ReachesAll
<1>7. n \in J
  BY <1>1, <1>6
<1> QED
  BY <1>2, <1>7 DEF n

(* A list of lists that ends in another is the one before it, put together, *)
(* and then the other.                                                     *)
LEMMA FlattenConcat ==
  ASSUME NEW S, NEW ss \in Seq(Seq(S)), NEW tt \in Seq(Seq(S))
  PROVE  FlattenSeq(ss \o tt) = FlattenSeq(ss) \o FlattenSeq(tt)
<1> DEFINE m == Len(ss)
           n == Len(tt)
           uu == ss \o tt
<1>1. m \in Nat /\ n \in Nat
  OBVIOUS
<1>2. /\ uu \in Seq(Seq(S)) /\ Len(uu) = m + n
      /\ \A i \in 1..m + n : uu[i] = IF i <= m THEN ss[i] ELSE tt[i - m]
  BY ConcatProperties
<1>3. PICK F \in [0..m -> Seq(S)] : Flattens(ss, m, F) /\ FlattenSeq(ss) = F[m]
  BY FlattenSteps
<1>4. PICK G \in [0..n -> Seq(S)] : Flattens(tt, n, G) /\ FlattenSeq(tt) = G[n]
  BY FlattenSteps
<1> HIDE DEF uu
<1>5. PICK H \in [0..m + n -> Seq(S)] : Flattens(uu, m + n, H) /\ FlattenSeq(uu) = H[m + n]
  BY <1>2, FlattenSteps
<1>6. \A i \in 1..n : tt[i] \in Seq(S)
  OBVIOUS
<1> HIDE DEF m, n
<1>7. H[m] = F[m]
  <2>1. \A i \in 1..m : i \in 1..m + n /\ i <= m
    BY <1>1
  <2>2. Flattens(uu, m, H)
    BY ONLY <1>5, <2>1 DEF Flattens
  <2>3. \A i \in 1..m : uu[i] = ss[i]
    BY ONLY <1>2, <2>1
  <2>4. Flattens(ss, m, F)
    BY <1>3
  <2>5. ASSUME NEW f, NEW g, Flattens(uu, m, f), Flattens(ss, m, g)
        PROVE  f[m] = g[m]
    BY <1>1, <2>3, <2>5, FlattensAgree
  <2> QED
    BY <2>2, <2>3, <2>4, <2>5, Zenon
<1> DEFINE J == {i \in 0..n : H[m + i] = F[m] \o G[i]}
<1>8. F[m] \in Seq(S) /\ \A i \in 0..n : G[i] \in Seq(S)
  BY <1>1
<1>9. 0 \in J
  <2>1. H[m + 0] = F[m] /\ G[0] = <<>>
    BY <1>1, <1>4, <1>7 DEF Flattens
  <2>2. F[m] \o <<>> = F[m]
    BY <1>8, ConcatEmptySeq
  <2>3. H[m + 0] = F[m] \o G[0] /\ 0 \in 0..n
    BY <1>1, <2>1, <2>2
  <2> QED
    BY ONLY <2>3
<1>10. ASSUME NEW i \in 1..n, i - 1 \in J
       PROVE  i \in J
  <2>1. /\ m + i \in 1..m + n /\ (m + i) - 1 = m + (i - 1) /\ ~(m + i <= m)
        /\ (m + i) - m = i /\ i \in 0..n /\ i - 1 \in 0..n
    BY <1>1
  <2>2. uu[m + i] = tt[i]
    BY <1>2, <2>1
  <2>3. H[m + i] = H[m + (i - 1)] \o tt[i]
    <3>1. H[m + i] = H[(m + i) - 1] \o uu[m + i]
      BY <1>5, <2>1 DEF Flattens
    <3> QED
      BY <2>1, <2>2, <3>1
  <2>4. G[i] = G[i - 1] \o tt[i]
    BY <1>4 DEF Flattens
  <2>5. H[m + (i - 1)] = F[m] \o G[i - 1]
    BY <1>10
  <2>6. (F[m] \o G[i - 1]) \o tt[i] = F[m] \o (G[i - 1] \o tt[i])
    <3>1. F[m] \in Seq(S) /\ G[i - 1] \in Seq(S) /\ tt[i] \in Seq(S)
      BY <1>6, <1>8, <2>1
    <3>2. ASSUME NEW a \in Seq(S), NEW b \in Seq(S), NEW c \in Seq(S)
          PROVE  (a \o b) \o c = a \o (b \o c)
      <4>1. a \in Seq(S) /\ b \in Seq(S) /\ c \in Seq(S)
        OBVIOUS
      <4> QED
        BY ONLY <4>1
    <3> QED
      BY <3>1, <3>2, Zenon
  <2>7. H[m + i] = F[m] \o G[i]
    BY <2>3, <2>4, <2>5, <2>6
  <2> QED
    BY <2>1, <2>7
<1>11. 0..n \subseteq J
  <2> HIDE DEF J
  <2> QED
    BY <1>1, <1>9, <1>10, ReachesAll
<1>12. H[m + n] = F[m] \o G[n]
  BY <1>1, <1>11
<1> QED
  BY <1>3, <1>4, <1>5, <1>12 DEF uu

(* Every step of the concatenation only adds to what was there.            *)
LEMMA StepsGrow ==
  ASSUME NEW S, NEW ss \in Seq(Seq(S)), NEW n \in 0..Len(ss),
         NEW F \in [0..Len(ss) -> Seq(S)], Flattens(ss, Len(ss), F)
  PROVE  /\ Len(F[n]) <= Len(F[Len(ss)])
         /\ \A j \in 1..Len(F[n]) : F[Len(ss)][j] = F[n][j]
<1> DEFINE N == Len(ss)
           Extends(i) == /\ Len(F[n]) <= Len(F[i])
                         /\ \A j \in 1..Len(F[n]) : F[i][j] = F[n][j]
           J == {i \in 0..N : n <= i => Extends(i)}
<1>1. N \in Nat /\ n \in Nat /\ n <= N
  OBVIOUS
<1>2. \A i \in 0..N : F[i] \in Seq(S) /\ Len(F[i]) \in Nat
  OBVIOUS
<1>3. \A i \in 1..N : ss[i] \in Seq(S) /\ Len(ss[i]) \in Nat
  OBVIOUS
<1>9. \A i \in 1..N : F[i] = F[i - 1] \o ss[i]
  BY DEF Flattens
<1> HIDE DEF N
<1>4. Extends(n)
  BY <1>1, <1>2
<1>5. 0 \in J
  <2>1. n <= 0 => n = 0
    BY <1>1
  <2> HIDE DEF Extends
  <2> QED
    BY <1>1, <1>4, <2>1
<1>6. ASSUME NEW i \in 1..N, i - 1 \in J
      PROVE  i \in J
  <2>1. i \in 0..N /\ i - 1 \in 0..N
    BY <1>1
  <2>2. CASE n <= i - 1
    <3> DEFINE a == Len(F[i - 1])
               b == Len(ss[i])
               c == Len(F[n])
    <3>0. a \in Nat /\ b \in Nat /\ c \in Nat
      BY <1>1, <1>2, <1>3, <2>1
    <3>1. c <= a /\ \A j \in 1..c : F[i - 1][j] = F[n][j]
      BY <1>6, <2>2
    <3>2. /\ Len(F[i]) = a + b
          /\ \A j \in 1..a + b : F[i][j] = IF j <= a THEN F[i - 1][j] ELSE ss[i][j - a]
      <4>1. F[i - 1] \in Seq(S) /\ ss[i] \in Seq(S) /\ F[i] = F[i - 1] \o ss[i]
        BY <1>2, <1>3, <1>9, <2>1
      <4>2. /\ Len(F[i - 1] \o ss[i]) = a + b
            /\ \A j \in 1..a + b :
                 (F[i - 1] \o ss[i])[j] = IF j <= a THEN F[i - 1][j] ELSE ss[i][j - a]
        BY <4>1, ConcatProperties
      <4> HIDE DEF a, b
      <4> QED
        BY <4>1, <4>2
    <3> HIDE DEF a, b, c
    <3>3. ASSUME NEW j \in 1..c
          PROVE  F[i][j] = F[n][j]
      <4>1. j \in 1..a + b /\ j <= a
        BY <3>0, <3>1
      <4> QED
        BY <3>1, <3>2, <4>1
    <3>4. c <= Len(F[i])
      BY <3>0, <3>1, <3>2
    <3> QED
      BY <2>1, <3>3, <3>4 DEF c
  <2>3. CASE ~(n <= i - 1)
    <3>1. n <= i => n = i
      BY <1>1, <2>3
    <3> HIDE DEF Extends
    <3> QED
      BY <1>4, <2>1, <3>1
  <2> QED
    BY <2>2, <2>3
<1>7. 0..N \subseteq J
  <2> HIDE DEF J
  <2> QED
    BY <1>1, <1>5, <1>6, ReachesAll
<1>8. N \in J
  BY <1>1, <1>7
<1> QED
  BY <1>1, <1>8 DEF N

(* Equal where the first one goes: a prefix.                               *)
LEMMA PrefixIs ==
  ASSUME NEW S, NEW s \in Seq(S), NEW t \in Seq(S),
         Len(s) <= Len(t), \A i \in 1..Len(s) : t[i] = s[i]
  PROVE  IsPrefix(s, t)
<1>1. Len(s) \in Nat /\ Len(t) \in Nat /\ 1 \in Int
  OBVIOUS
<1>2. \A i \in 1..Len(s) : s[i] \in S /\ t[i] \in S
  BY <1>1
<1>3. /\ SubSeq(s, 1, Len(s)) \in Seq(S) /\ SubSeq(t, 1, Len(s)) \in Seq(S)
      /\ Len(SubSeq(s, 1, Len(s))) = Len(s) /\ Len(SubSeq(t, 1, Len(s))) = Len(s)
      /\ \A i \in 1..Len(s) :
           SubSeq(s, 1, Len(s))[i] = s[i] /\ SubSeq(t, 1, Len(s))[i] = t[i]
  BY <1>1, <1>2
<1>4. SubSeq(s, 1, Len(s)) = SubSeq(t, 1, Len(s))
  BY <1>3, SeqEqual
<1> QED
  BY <1>4 DEF IsPrefix

(* The first of some lists, put together, are the beginning of all of them. *)
LEMMA FlattenPrefix ==
  ASSUME NEW S, NEW ss \in Seq(Seq(S)), NEW tt \in Seq(Seq(S)),
         Len(tt) <= Len(ss), \A i \in 1..Len(tt) : tt[i] = ss[i]
  PROVE  IsPrefix(FlattenSeq(tt), FlattenSeq(ss))
<1> DEFINE N == Len(ss)
           n == Len(tt)
<1>1. N \in Nat /\ n \in Nat /\ n \in 0..N
  OBVIOUS
<1>2. PICK F \in [0..N -> Seq(S)] : Flattens(ss, N, F) /\ FlattenSeq(ss) = F[N]
  BY FlattenSteps
<1>3. PICK G \in [0..n -> Seq(S)] : Flattens(tt, n, G) /\ FlattenSeq(tt) = G[n]
  BY FlattenSteps
<1>4. \A i \in 1..n : tt[i] = ss[i] /\ i \in 1..N
  BY <1>1
<1>5. /\ Len(F[n]) <= Len(F[N])
      /\ \A j \in 1..Len(F[n]) : F[N][j] = F[n][j]
  <2>1. ss \in Seq(Seq(S))
    OBVIOUS
  <2> QED
    BY ONLY <1>1, <1>2, <2>1, StepsGrow DEF N
<1> HIDE DEF N, n
<1>6. Flattens(ss, n, F)
  BY <1>2, <1>4 DEF Flattens
<1>7. G[n] = F[n]
  <2>1. ASSUME NEW f, NEW g, Flattens(ss, n, f), Flattens(tt, n, g)
        PROVE  f[n] = g[n]
    BY <1>1, <1>4, <2>1, FlattensAgree
  <2> QED
    BY <1>3, <1>6, <2>1, Zenon
<1>8. F[n] \in Seq(S) /\ F[N] \in Seq(S)
  BY <1>1
<1>9. IsPrefix(F[n], F[N])
  BY <1>5, <1>8, PrefixIs
<1> QED
  BY <1>2, <1>3, <1>7, <1>9

-------------------------------------------------------------------------------
(* Two lists whose elements match, place by place.                         *)
Alike(s, t, R) ==
  /\ Len(s) = Len(t)
  /\ \A j \in 1..Len(s) : <<s[j], t[j]>> \in R

(* Lists that agree place by place still do with agreeing ones behind.     *)
LEMMA ConcatAlike ==
  ASSUME NEW S, NEW T, NEW R, NEW s \in Seq(S), NEW u \in Seq(S),
         NEW t \in Seq(T), NEW v \in Seq(T), Alike(s, t, R), Alike(u, v, R)
  PROVE  Alike(s \o u, t \o v, R)
<1> DEFINE m == Len(s)
           n == Len(u)
<1>1. m \in Nat /\ n \in Nat /\ Len(t) = m /\ Len(v) = n
  BY DEF Alike
<1>2. /\ Len(s \o u) = m + n
      /\ \A i \in 1..m + n : (s \o u)[i] = IF i <= m THEN s[i] ELSE u[i - m]
  BY ConcatProperties
<1>3. /\ Len(t \o v) = m + n
      /\ \A i \in 1..m + n : (t \o v)[i] = IF i <= m THEN t[i] ELSE v[i - m]
  <2>1. /\ Len(t \o v) = Len(t) + Len(v)
        /\ \A i \in 1..Len(t) + Len(v) :
             (t \o v)[i] = IF i <= Len(t) THEN t[i] ELSE v[i - Len(t)]
    BY ConcatProperties
  <2> QED
    BY <1>1, <2>1
<1>4. /\ \A j \in 1..m : <<s[j], t[j]>> \in R
      /\ \A j \in 1..n : <<u[j], v[j]>> \in R
  BY DEF Alike
<1> HIDE DEF m, n
<1>5. ASSUME NEW j \in 1..m + n
      PROVE  <<(s \o u)[j], (t \o v)[j]>> \in R
  <2>1. CASE j <= m
    <3>1. j \in 1..m /\ (s \o u)[j] = s[j] /\ (t \o v)[j] = t[j]
      BY <1>1, <1>2, <1>3, <2>1
    <3> QED
      BY <1>4, <3>1
  <2>2. CASE ~(j <= m)
    <3>1. j - m \in 1..n /\ (s \o u)[j] = u[j - m] /\ (t \o v)[j] = v[j - m]
      BY <1>1, <1>2, <1>3, <2>2
    <3> QED
      BY <1>4, <3>1
  <2> QED
    BY <2>1, <2>2
<1> QED
  BY <1>2, <1>3, <1>5 DEF Alike

(* Put together from lists that match one by one, two lists match.         *)
LEMMA FlattenAlike ==
  ASSUME NEW S, NEW T, NEW R, NEW ss \in Seq(Seq(S)), NEW tt \in Seq(Seq(T)),
         Len(ss) = Len(tt), \A i \in 1..Len(ss) : Alike(ss[i], tt[i], R)
  PROVE  Alike(FlattenSeq(ss), FlattenSeq(tt), R)
<1> DEFINE n == Len(ss)
<1>1. n \in Nat /\ Len(tt) = n
  OBVIOUS
<1>2. PICK F \in [0..n -> Seq(S)] : Flattens(ss, n, F) /\ FlattenSeq(ss) = F[n]
  BY FlattenSteps
<1>3. PICK G \in [0..n -> Seq(T)] : Flattens(tt, n, G) /\ FlattenSeq(tt) = G[n]
  BY <1>1, FlattenSteps
<1>4. \A i \in 1..n : ss[i] \in Seq(S) /\ tt[i] \in Seq(T) /\ Alike(ss[i], tt[i], R)
  BY <1>1
<1> HIDE DEF n
<1> DEFINE J == {i \in 0..n : Alike(F[i], G[i], R)}
<1>5. 0 \in J
  <2>1. F[0] = <<>> /\ G[0] = <<>>
    BY <1>2, <1>3 DEF Flattens
  <2>2. Alike(F[0], G[0], R)
    BY <2>1 DEF Alike
  <2> QED
    BY <1>1, <2>2
<1>6. ASSUME NEW i \in 1..n, i - 1 \in J
      PROVE  i \in J
  <2>1. i \in 0..n /\ i - 1 \in 0..n
    BY <1>1
  <2>2. F[i] = F[i - 1] \o ss[i] /\ G[i] = G[i - 1] \o tt[i]
    BY <1>2, <1>3 DEF Flattens
  <2>3. F[i - 1] \in Seq(S) /\ G[i - 1] \in Seq(T)
    BY <2>1
  <2>4. ss[i] \in Seq(S) /\ tt[i] \in Seq(T) /\ Alike(ss[i], tt[i], R)
    BY <1>4
  <2>5. Alike(F[i - 1], G[i - 1], R)
    BY <1>6
  <2>6. Alike(F[i - 1] \o ss[i], G[i - 1] \o tt[i], R)
    BY <2>3, <2>4, <2>5, ConcatAlike
  <2> QED
    BY <2>1, <2>2, <2>6
<1>7. 0..n \subseteq J
  <2> HIDE DEF J
  <2> QED
    BY <1>1, <1>5, <1>6, ReachesAll
<1>8. n \in J
  BY <1>1, <1>7
<1> QED
  BY <1>2, <1>3, <1>8

-------------------------------------------------------------------------------
(* What the exchange is: one of the inputs, from the beginning to the end. *)

ExchangeInv ==
  exchange \in {Idle} \cup Chats \cup Natives \cup Answers \cup Listings

(* The input of a translation stays the one it was.                        *)
LEMMA SpecExchangeInv == ASpec => []ExchangeInv
<1>1. AInit => ExchangeInv
  BY DEF AInit, ExchangeInv
<1>2. ExchangeInv /\ [ANext]_allVars => ExchangeInv'
  BY DEF ExchangeInv, ANext, allVars
<1> QED
  BY <1>1, <1>2, PTL DEF ASpec

(* What the kind of an exchange says of it.                                *)
LEMMA KindsApart ==
  ASSUME ExchangeInv
  PROVE  /\ exchange.kind = "chat" => exchange \in ChatRequest
         /\ exchange.kind = "native" => exchange \in NativeRequest
         /\ exchange.kind = "answer" => exchange \in UpstreamAnswer
         /\ exchange.kind = "listing" => exchange \in Listing
<1>1. CASE exchange = Idle
  BY <1>1 DEF Idle
<1>2. CASE exchange \in Chats
  <2>1. exchange \in ChatRequest /\ exchange.kind = "chat"
    BY <1>2, ExchangeAssumption DEF ChatRequest
  <2> QED
    BY <2>1
<1>3. CASE exchange \in Natives
  <2>1. exchange \in NativeRequest /\ exchange.kind = "native"
    BY <1>3, ExchangeAssumption DEF NativeRequest
  <2> QED
    BY <2>1
<1>4. CASE exchange \in Answers
  <2>1. exchange \in UpstreamAnswer /\ exchange.kind = "answer"
    BY <1>4, ExchangeAssumption DEF UpstreamAnswer, AnswerOf
  <2> QED
    BY <2>1
<1>5. CASE exchange \in Listings
  <2>1. exchange \in Listing /\ exchange.kind = "listing"
    BY <1>5, ExchangeAssumption DEF Listing
  <2> QED
    BY <2>1
<1> QED
  BY <1>1, <1>2, <1>3, <1>4, <1>5 DEF ExchangeInv

-------------------------------------------------------------------------------
(* The pages that were followed are the first of all of them.              *)
LEMMA ListedModels ==
  ASSUME NEW provider, NEW restricted, NEW pages \in Seq(Page),
         Probe(provider, restricted, pages) # Failed
  PROVE  LET got == Probe(provider, restricted, pages)
             whole == FlattenSeq([i \in DOMAIN pages |-> pages[i].models])
             followed == IF provider = "gemini" THEN MaxPages ELSE 1
         IN /\ ~restricted
            /\ IsPrefix(got, whole)
            /\ got # whole => Len(pages) > followed
<1> DEFINE N == Len(pages)
           followed == IF provider = "gemini" THEN MaxPages ELSE 1
           n == IF N < followed THEN N ELSE followed
           visited == [i \in 1..n |-> pages[i]]
           ss == [i \in DOMAIN pages |-> pages[i].models]
           tt == [i \in DOMAIN visited |-> visited[i].models]
<1>1. ~restricted /\ Probe(provider, restricted, pages) = FlattenSeq(tt)
  BY DEF Probe, ListModels
<1>2. N \in Nat /\ DOMAIN pages = 1..N /\ followed \in Nat /\ \A i \in 1..N : pages[i] \in Page
  BY ExchangeAssumption
<1> HIDE DEF N, followed
<1>3. n \in 0..N /\ DOMAIN visited = 1..n
  BY <1>2
<1>4. ss \in Seq(Seq(ModelIds)) /\ Len(ss) = N
  BY <1>2 DEF Page
<1>5. \A i \in 1..n : i \in 1..N /\ visited[i] = pages[i]
  BY <1>2, <1>3
<1> HIDE DEF n, visited
<1>6. tt \in Seq(Seq(ModelIds)) /\ Len(tt) = n
  <2>1. \A i \in 1..n : visited[i].models \in Seq(ModelIds)
    BY <1>2, <1>5 DEF Page
  <2> QED
    BY <1>2, <1>3, <2>1
<1>7. \A i \in 1..Len(tt) : tt[i] = ss[i]
  <2>1. \A i \in 1..n : tt[i] = visited[i].models /\ ss[i] = pages[i].models
    BY <1>2, <1>3, <1>5
  <2> HIDE DEF tt, ss
  <2> QED
    BY <1>5, <1>6, <2>1
<1>8. Len(tt) <= Len(ss)
  <2> HIDE DEF tt, ss
  <2> QED
    BY <1>2, <1>3, <1>4, <1>6
<1> HIDE DEF tt, ss
<1>9. IsPrefix(FlattenSeq(tt), FlattenSeq(ss))
  BY <1>4, <1>6, <1>7, <1>8, FlattenPrefix
<1>10. ASSUME ~(N > followed)
       PROVE  tt = ss
  <2>1. n = N
    BY <1>2, <1>10 DEF n
  <2> QED
    BY <1>4, <1>6, <1>7, <2>1, SeqEqual
<1>11. FlattenSeq(tt) # FlattenSeq(ss) => N > followed
  BY <1>10
<1> QED
  BY <1>1, <1>9, <1>11 DEF ss, followed, N

(* ListingIsWhole of any listing.                                          *)
LEMMA ListingHolds ==
  ASSUME exchange \in Listing
  PROVE  ListingIsWhole
<1>1. exchange.pages \in Seq(Page)
  BY DEF Listing
<1> QED
  BY <1>1, ListedModels DEF ListingIsWhole

(* ListingIsWhole: the probe fails, or what a form offers is the catalog   *)
(* from its beginning, and all of it unless it has more pages than are     *)
(* followed.                                                               *)
THEOREM ListingsAreWhole == ASpec => []ListingIsWhole
<1>1. ExchangeInv => ListingIsWhole
  <2>1. exchange.kind # "listing" => ListingIsWhole
    BY DEF ListingIsWhole
  <2> QED
    BY <2>1, KindsApart, ListingHolds
<1> QED
  BY <1>1, SpecExchangeInv, PTL

-------------------------------------------------------------------------------
(* Answers.                                                                *)

Failures ==
  {"authentication_error", "invalid_request_error", "rate_limit_error", "api_error"}

Unreadable == [shape : {"empty", "broken", "error"}]

Body == ChatCompletion \cup GenerateCompletion \cup Unreadable

(* An error has a type.                                                    *)
LEMMA ErrorIsSaid == ASSUME NEW status PROVE ErrorType(status) # Absent
<1>1. ErrorType(status) \in Failures
  BY DEF ErrorType, Failures
<1> QED
  BY <1>1, ExchangeAssumption DEF Failures

(* What callUpstream makes of an answer.                                   *)
LEMMA IncomingIs ==
  ASSUME NEW provider, NEW answer \in [status : Nat, json : BOOLEAN, body : Body]
  PROVE  LET result == Incoming(provider, answer)
             translated == /\ provider # "gemini" /\ answer.status \in 200..299
                           /\ answer.json /\ Parses(answer.body)
         IN /\ result.status = answer.status /\ result.json = answer.json
            /\ result.body = IF translated THEN TransformResponse(answer.body) ELSE answer.body
            /\ Parses(result.body) <=> Parses(answer.body)
<1> DEFINE translated == /\ provider # "gemini" /\ answer.status \in 200..299
                         /\ answer.json /\ Parses(answer.body)
<1>1. CASE translated
  <2>1. Incoming(provider, answer) = [answer EXCEPT !.body = TransformResponse(@)]
    BY <1>1 DEF Incoming
  <2>2. Parses(TransformResponse(answer.body))
    BY DEF Parses, TransformResponse
  <2> QED
    BY <1>1, <2>1, <2>2
<1>2. CASE ~translated
  <2>1. Incoming(provider, answer) = answer
    BY <1>2 DEF Incoming
  <2> QED
    BY <1>2, <2>1
<1> QED
  BY <1>1, <1>2

(* The body a completion is made from: Gemini's shape, every count given   *)
(* or absent as the upstream left it, but for those an adapter fills.      *)
LEMMA TranslatedBody ==
  ASSUME NEW body \in ChatCompletion
  PROVE  LET made == TransformResponse(body)
         IN /\ made.shape = "generate"
            /\ DOMAIN made.choices = 1..Len(body.choices)
            /\ \A i \in 1..Len(body.choices) :
                 made.choices[i] = [text |-> Said(body.choices[i].text),
                                    reason |-> CanonicalReason(body.choices[i].reason)]
            /\ body.usage = Absent => made.usage = Absent
            /\ body.usage # Absent =>
                 made.usage = Usage(Given(body.usage.prompt, 0),
                                    Given(body.usage.completion, 0),
                                    Given(body.usage.total, 0))
<1>1. /\ body.shape = "chat"
      /\ body.choices \in Seq([text : {Absent} \cup Text, reason : OwnReasons \cup {Absent}])
  BY DEF ChatCompletion
<1>2. DOMAIN body.choices = 1..Len(body.choices)
  BY <1>1
<1>3. body.usage # Absent => body.usage \in Counted
  BY DEF ChatCompletion
<1>4. ASSUME body.usage # Absent
      PROVE  [f \in DOMAIN body.usage |-> Given(body.usage[f], 0)] =
               Usage(Given(body.usage.prompt, 0), Given(body.usage.completion, 0),
                     Given(body.usage.total, 0))
  <2>1. body.usage = [prompt |-> body.usage.prompt, completion |-> body.usage.completion,
                      total |-> body.usage.total]
    BY <1>3, <1>4 DEF Counted
  <2> HIDE DEF Given
  <2> QED
    BY <2>1 DEF Usage
<1>5. TransformResponse(body) =
        [shape |-> "generate",
         choices |-> [i \in DOMAIN body.choices |->
                        [text |-> Given(body.choices[i].text, <<>>),
                         reason |-> CanonicalReason(body.choices[i].reason)]],
         usage |-> IF body.usage = Absent THEN Absent
                   ELSE [f \in DOMAIN body.usage |-> Given(body.usage[f], 0)]]
  BY <1>1 DEF TransformResponse, CandidatesOf
<1> QED
  BY <1>2, <1>4, <1>5 DEF Said, Given

(* The two lists of reasons, in a row.                                     *)
LEMMA ReasonSurvives ==
  ASSUME NEW reason \in OwnReasons \cup {Absent}
  PROVE  LET told == ChatReason(CanonicalReason(reason))
         IN /\ reason = Absent => told = "stop"
            /\ reason \in Understood => told = reason
            /\ reason \in OwnReasons \ Understood /\ UpperCase[reason] \notin Spoken =>
                 told = Absent
<1>1. CASE reason = Absent
  BY <1>1, ExchangeAssumption DEF ChatReason, CanonicalReason, Understood
<1>2. CASE reason \in Understood
  <2>1. reason # Absent
    BY <1>2, ExchangeAssumption DEF Understood
  <2> QED
    BY <1>2, <2>1 DEF ChatReason, CanonicalReason, Understood
<1>3. CASE reason \in OwnReasons \ Understood
  <2>1. reason # Absent
    BY <1>3, ExchangeAssumption
  <2>2. CanonicalReason(reason) = UpperCase[reason]
    BY <1>3, <2>1 DEF CanonicalReason, Understood
  <2> QED
    BY <1>3, <2>1, <2>2 DEF ChatReason, Spoken
<1> QED
  BY <1>1, <1>2, <1>3

(* What a client is told of a readable completion, and what is recorded.   *)
LEMMA CompletionIs ==
  ASSUME NEW result, result.json, result.body.shape = "generate"
  PROVE  LET body == result.body
             told == GenerateResponseToChat(body)
             recorded == ExtractUsageTokens(result)
         IN /\ DOMAIN told.choices = DOMAIN body.choices
            /\ \A i \in DOMAIN body.choices :
                 /\ told.choices[i].text = body.choices[i].text
                 /\ told.choices[i].reason = ChatReason(body.choices[i].reason)
            /\ body.usage # Absent =>
                 /\ told.usage.prompt = Given(body.usage.prompt, 0)
                 /\ body.usage.completion # Absent => told.usage.completion = body.usage.completion
                 /\ body.usage.total # Absent => told.usage.total = body.usage.total
                 /\ recorded.prompt = Given(body.usage.prompt, 0)
                 /\ recorded.completion = Given(body.usage.completion, 0)
<1>1. ASSUME result.body.usage # Absent
      PROVE  /\ ExtractUsageTokens(result).prompt = Given(result.body.usage.prompt, 0)
             /\ ExtractUsageTokens(result).completion = Given(result.body.usage.completion, 0)
  BY <1>1 DEF ExtractUsageTokens
<1>2. \A i \in DOMAIN result.body.choices :
        /\ GenerateResponseToChat(result.body).choices[i].text = result.body.choices[i].text
        /\ GenerateResponseToChat(result.body).choices[i].reason =
             ChatReason(result.body.choices[i].reason)
  BY DEF GenerateResponseToChat
<1>3. DOMAIN GenerateResponseToChat(result.body).choices = DOMAIN result.body.choices
  BY DEF GenerateResponseToChat
<1>4. ASSUME result.body.usage # Absent
      PROVE  LET told == GenerateResponseToChat(result.body)
                 usage == result.body.usage
             IN /\ told.usage.prompt = Given(usage.prompt, 0)
                /\ usage.completion # Absent => told.usage.completion = usage.completion
                /\ usage.total # Absent => told.usage.total = usage.total
  BY <1>4 DEF GenerateResponseToChat, Usage, Given
<1> QED
  BY <1>1, <1>2, <1>3, <1>4

(* A readable completion of either shape, through both translations.       *)
LEMMA CompletionSurvives ==
  ASSUME NEW provider, NEW answer \in [status : Nat, json : BOOLEAN, body : Body],
         \/ provider = "gemini" /\ answer.body \in GenerateCompletion
         \/ provider = "openai_compatible" /\ answer.body \in ChatCompletion,
         answer.json, answer.status \in 200..299
  PROVE  LET body == answer.body
             result == Incoming(provider, answer)
             told == GenerateResponseToChat(result.body)
         IN /\ Len(told.choices) = Len(body.choices)
            /\ \A i \in DOMAIN body.choices :
                 ChoiceSurvives(told.choices[i], body.choices[i], body.shape)
            /\ UsageSurvives(told.usage, ExtractUsageTokens(result), body.usage)
<1> DEFINE body == answer.body
           result == Incoming(provider, answer)
           told == GenerateResponseToChat(result.body)
           recorded == ExtractUsageTokens(result)
           n == Len(body.choices)
<1>1. result.json /\ result.status = answer.status
  BY IncomingIs
<1>2. Parses(body)
  BY DEF Parses, ChatCompletion, GenerateCompletion
<1>3. CASE provider = "gemini" /\ body \in GenerateCompletion
  <2>1. result.body = body /\ body.shape = "generate"
    BY <1>3, IncomingIs DEF GenerateCompletion
  <2>2. body.choices \in Seq([text : Text, reason : GeminiReasons])
    BY <1>3 DEF GenerateCompletion
  <2>3. DOMAIN body.choices = 1..n /\ n \in Nat /\ \A i \in 1..n : body.choices[i].text \in Text
    <3>1. /\ DOMAIN body.choices = 1..n /\ n \in Nat
          /\ \A i \in 1..n : body.choices[i] \in [text : Text, reason : GeminiReasons]
      BY <2>2, ItemsOf
    <3> QED
      BY <3>1
  <2> HIDE DEF body, result
  <2>4. /\ DOMAIN told.choices = DOMAIN body.choices
        /\ \A i \in DOMAIN body.choices :
             /\ told.choices[i].text = body.choices[i].text
             /\ told.choices[i].reason = ChatReason(body.choices[i].reason)
        /\ body.usage # Absent =>
             /\ told.usage.prompt = Given(body.usage.prompt, 0)
             /\ body.usage.completion # Absent => told.usage.completion = body.usage.completion
             /\ body.usage.total # Absent => told.usage.total = body.usage.total
             /\ recorded.prompt = Given(body.usage.prompt, 0)
             /\ recorded.completion = Given(body.usage.completion, 0)
    BY <1>1, <2>1, CompletionIs
  <2> HIDE DEF told, recorded
  <2>5. Len(told.choices) = n
    BY <2>3, <2>4
  <2>6. ASSUME NEW i \in DOMAIN body.choices
        PROVE  ChoiceSurvives(told.choices[i], body.choices[i], body.shape)
    <3>1. body.choices[i].text \in Text
      BY <2>3
    <3>2. body.choices[i].text # Absent
      BY <3>1, ExchangeAssumption
    <3> QED
      BY <2>1, <2>4, <3>2 DEF ChoiceSurvives, Said
  <2>7. UsageSurvives(told.usage, recorded, body.usage)
    BY <2>4 DEF UsageSurvives, Given
  <2> QED
    BY <2>5, <2>6, <2>7 DEF body, result, told, recorded, n
<1>4. CASE provider = "openai_compatible" /\ body \in ChatCompletion
  <2>1. result.body = TransformResponse(body) /\ body.shape = "chat"
    BY <1>2, <1>4, IncomingIs DEF ChatCompletion
  <2>2. body.choices \in Seq([text : {Absent} \cup Text, reason : OwnReasons \cup {Absent}])
    BY <1>4 DEF ChatCompletion
  <2>3. /\ DOMAIN body.choices = 1..n /\ n \in Nat
        /\ \A i \in 1..n : body.choices[i].reason \in OwnReasons \cup {Absent}
    <3>1. /\ DOMAIN body.choices = 1..n /\ n \in Nat
          /\ \A i \in 1..n :
               body.choices[i] \in [text : {Absent} \cup Text, reason : OwnReasons \cup {Absent}]
      BY <2>2, ItemsOf
    <3> QED
      BY <3>1
  <2>4. body.usage # Absent => body.usage \in Counted
    BY <1>4 DEF ChatCompletion
  <2>5. body \in ChatCompletion
    BY <1>4
  <2> HIDE DEF body, result
  <2> DEFINE made == TransformResponse(body)
  <2>6. /\ made.shape = "generate"
        /\ DOMAIN made.choices = 1..n
        /\ \A i \in 1..n :
             made.choices[i] = [text |-> Said(body.choices[i].text),
                                reason |-> CanonicalReason(body.choices[i].reason)]
        /\ body.usage = Absent => made.usage = Absent
        /\ body.usage # Absent =>
             made.usage = Usage(Given(body.usage.prompt, 0),
                                Given(body.usage.completion, 0),
                                Given(body.usage.total, 0))
    BY <2>5, TranslatedBody
  <2> HIDE DEF made
  <2>7. result.body = made
    BY <2>1 DEF made
  <2>8. /\ DOMAIN told.choices = DOMAIN made.choices
        /\ \A i \in DOMAIN made.choices :
             /\ told.choices[i].text = made.choices[i].text
             /\ told.choices[i].reason = ChatReason(made.choices[i].reason)
        /\ made.usage # Absent =>
             /\ told.usage.prompt = Given(made.usage.prompt, 0)
             /\ made.usage.completion # Absent => told.usage.completion = made.usage.completion
             /\ made.usage.total # Absent => told.usage.total = made.usage.total
             /\ recorded.prompt = Given(made.usage.prompt, 0)
             /\ recorded.completion = Given(made.usage.completion, 0)
    BY <1>1, <2>6, <2>7, CompletionIs
  <2> HIDE DEF told, recorded, n
  <2>9. Len(told.choices) = n
    BY <2>3, <2>6, <2>8
  <2>10. ASSUME NEW i \in 1..n
         PROVE  ChoiceSurvives(told.choices[i], body.choices[i], body.shape)
    <3>1. i \in DOMAIN made.choices
      BY <2>6
    <3>2. body.choices[i].reason \in OwnReasons \cup {Absent}
      BY <2>3
    <3>3. /\ made.choices[i].text = Said(body.choices[i].text)
          /\ made.choices[i].reason = CanonicalReason(body.choices[i].reason)
      <4>1. made.choices[i] = [text |-> Said(body.choices[i].text),
                               reason |-> CanonicalReason(body.choices[i].reason)]
        BY <2>6
      <4> QED
        BY <4>1
    <3>4. /\ told.choices[i].text = Said(body.choices[i].text)
          /\ told.choices[i].reason = ChatReason(CanonicalReason(body.choices[i].reason))
      BY <2>8, <3>1, <3>3
    <3> QED
      BY <3>2, <3>4, ReasonSurvives DEF ChoiceSurvives
  <2>11. UsageSurvives(told.usage, recorded, body.usage)
    <3> SUFFICES ASSUME body.usage # Absent
                 PROVE  /\ recorded.prompt = told.usage.prompt
                        /\ body.usage.completion # Absent =>
                             /\ recorded.completion = told.usage.completion
                             /\ told.usage.completion = body.usage.completion
                        /\ body.usage.total # Absent => told.usage.total = body.usage.total
      BY DEF UsageSurvives
    <3>1. /\ made.usage.completion = Given(body.usage.completion, 0)
          /\ made.usage.total = Given(body.usage.total, 0)
      BY <2>6 DEF Usage
    <3>2. made.usage # Absent
      <4>1. made.usage = Usage(Given(body.usage.prompt, 0), Given(body.usage.completion, 0),
                               Given(body.usage.total, 0))
        BY <2>6
      <4>2. Usage(Given(body.usage.prompt, 0), Given(body.usage.completion, 0),
                  Given(body.usage.total, 0)) # Absent
        <5>1. /\ Given(body.usage.prompt, 0) \in Nat
              /\ Given(body.usage.completion, 0) \in Nat
              /\ Given(body.usage.total, 0) \in Nat
          BY <2>4 DEF Counted, Count, Given
        <5>2. Usage(Given(body.usage.prompt, 0), Given(body.usage.completion, 0),
                    Given(body.usage.total, 0)) \in Counted
          BY <5>1 DEF Usage, Counted, Count
        <5> QED
          BY <5>2, ExchangeAssumption
      <4> QED
        BY <4>1, <4>2
    <3> QED
      BY <2>8, <3>1, <3>2 DEF Given
  <2> QED
    BY <2>3, <2>9, <2>10, <2>11 DEF body, result, told, recorded
<1> QED
  BY <1>3, <1>4

(* AnswerSurvives of any answer, readable or not.                          *)
LEMMA AnswerHolds ==
  ASSUME exchange \in UpstreamAnswer
  PROVE  AnswerSurvives
<1> DEFINE answer == exchange.answer
           body == answer.body
           succeeded == answer.status \in 200..299
           result == Incoming(exchange.provider, answer)
           reply == ResultToChat(result)
           told == reply.completion
<1>1. /\ answer \in [status : Nat, json : BOOLEAN, body : Body]
      /\ \/ exchange.provider = "gemini" /\ body \in GenerateCompletion \cup Unreadable
         \/ exchange.provider = "openai_compatible" /\ body \in ChatCompletion \cup Unreadable
  BY DEF UpstreamAnswer, AnswerOf, Body, Unreadable
<1> HIDE DEF answer
<1>2. /\ result.status = answer.status
      /\ Parses(result.body) <=> Parses(body)
  BY <1>1, IncomingIs
<1> HIDE DEF result
<1>3. (reply.error = Absent) <=> succeeded /\ Parses(body)
  BY <1>2, ErrorIsSaid DEF ResultToChat
<1>4. reply.status = IF reply.error = Absent THEN 200 ELSE answer.status
  BY <1>2, ErrorIsSaid DEF ResultToChat
<1>5. ASSUME answer.json, succeeded, body.shape \in {"chat", "generate"}
      PROVE  /\ Len(told.choices) = Len(body.choices)
             /\ \A i \in DOMAIN body.choices :
                  ChoiceSurvives(told.choices[i], body.choices[i], body.shape)
             /\ UsageSurvives(told.usage, ExtractUsageTokens(result), body.usage)
  <2>1. Parses(body)
    BY <1>5 DEF Parses
  <2>2. told = GenerateResponseToChat(result.body)
    BY <1>2, <1>5, <2>1 DEF ResultToChat
  <2>3. body \notin Unreadable
    BY <1>5 DEF Unreadable
  <2> QED
    BY <1>1, <1>5, <2>2, <2>3, CompletionSurvives DEF result
<1> QED
  BY <1>3, <1>4, <1>5 DEF AnswerSurvives, answer, result

(* AnswerSurvives: the client of the OpenAI endpoint is told what its      *)
(* upstream said, whatever it said, by status, choices and counts.         *)
THEOREM AnswersSurvive == ASpec => []AnswerSurvives
<1>1. ExchangeInv => AnswerSurvives
  <2>1. exchange.kind # "answer" => AnswerSurvives
    BY DEF AnswerSurvives
  <2> QED
    BY <2>1, KindsApart, AnswerHolds
<1> QED
  BY <1>1, SpecExchangeInv, PTL

-------------------------------------------------------------------------------
(* Conversations.                                                          *)

(* What a list yields is what its two halves yield, one after the other.   *)
Yield(p, s) == FlattenSeq([i \in DOMAIN s |-> p[s[i]]])

LEMMA YieldConcat ==
  ASSUME NEW S, NEW T, NEW p \in [S -> Seq(T)], NEW s \in Seq(S), NEW t \in Seq(S)
  PROVE  Yield(p, s \o t) = Yield(p, s) \o Yield(p, t)
<1> DEFINE m == Len(s)
           n == Len(t)
           u == s \o t
           ps == [i \in DOMAIN s |-> p[s[i]]]
           pt == [i \in DOMAIN t |-> p[t[i]]]
           pu == [i \in DOMAIN u |-> p[u[i]]]
<1>1. /\ DOMAIN s = 1..m /\ m \in Nat /\ \A i \in 1..m : s[i] \in S
      /\ DOMAIN t = 1..n /\ n \in Nat /\ \A i \in 1..n : t[i] \in S
  BY ItemsOf
<1>2. /\ u \in Seq(S) /\ Len(u) = m + n
      /\ \A i \in 1..m + n : u[i] = IF i <= m THEN s[i] ELSE t[i - m]
  BY ConcatProperties
<1> HIDE DEF u
<1>3. DOMAIN u = 1..m + n /\ \A i \in 1..m + n : u[i] \in S
  BY <1>2
<1> HIDE DEF m, n
<1>4. ps \in Seq(Seq(T)) /\ Len(ps) = m /\ \A i \in 1..m : ps[i] = p[s[i]]
  BY <1>1
<1>5. pt \in Seq(Seq(T)) /\ Len(pt) = n /\ \A i \in 1..n : pt[i] = p[t[i]]
  BY <1>1
<1>6. pu \in Seq(Seq(T)) /\ Len(pu) = m + n /\ \A i \in 1..m + n : pu[i] = p[u[i]]
  BY <1>1, <1>3
<1> HIDE DEF ps, pt, pu
<1>7. /\ ps \o pt \in Seq(Seq(T)) /\ Len(ps \o pt) = m + n
      /\ \A i \in 1..m + n : (ps \o pt)[i] = IF i <= m THEN ps[i] ELSE pt[i - m]
  <2>1. /\ ps \o pt \in Seq(Seq(T)) /\ Len(ps \o pt) = Len(ps) + Len(pt)
        /\ \A i \in 1..Len(ps) + Len(pt) :
             (ps \o pt)[i] = IF i <= Len(ps) THEN ps[i] ELSE pt[i - Len(ps)]
    BY <1>4, <1>5, ConcatProperties
  <2> QED
    BY <1>4, <1>5, <2>1
<1>8. ASSUME NEW i \in 1..m + n
      PROVE  pu[i] = (ps \o pt)[i]
  <2>1. CASE i <= m
    <3>1. i \in 1..m
      BY <1>1, <2>1
    <3>2. (ps \o pt)[i] = ps[i] /\ u[i] = s[i]
      BY <1>2, <1>7, <2>1
    <3> QED
      BY <1>4, <1>6, <3>1, <3>2
  <2>2. CASE ~(i <= m)
    <3>1. i - m \in 1..n
      BY <1>1, <2>2
    <3>2. (ps \o pt)[i] = pt[i - m] /\ u[i] = t[i - m]
      BY <1>2, <1>7, <2>2
    <3> QED
      BY <1>5, <1>6, <3>1, <3>2
  <2> QED
    BY <2>1, <2>2
<1>9. pu = ps \o pt
  BY <1>1, <1>6, <1>7, <1>8, SeqEqual
<1>10. FlattenSeq(ps \o pt) = FlattenSeq(ps) \o FlattenSeq(pt)
  BY <1>4, <1>5, FlattenConcat
<1> QED
  BY <1>9, <1>10 DEF Yield, ps, pt, pu, u

(* Turns and system texts of two lists, one behind the other.              *)
LEMMA TurnsConcat ==
  ASSUME NEW S, NEW s \in Seq(S), NEW t \in Seq(S)
  PROVE  Turns(s \o t) = Turns(s) \o Turns(t)
<1> DEFINE p == [m \in S |-> IF IsSystem(m) THEN <<>> ELSE <<m>>]
<1>1. p \in [S -> Seq(S)]
  OBVIOUS
<1>2. ASSUME NEW u \in Seq(S)
      PROVE  Turns(u) = Yield(p, u)
  <2>1. \A i \in DOMAIN u : u[i] \in S
    OBVIOUS
  <2>2. [i \in DOMAIN u |-> p[u[i]]] =
          [i \in DOMAIN u |-> IF IsSystem(u[i]) THEN <<>> ELSE <<u[i]>>]
    BY <2>1
  <2> QED
    BY <2>2 DEF Turns, FlatMap, Yield
<1>3. s \o t \in Seq(S)
  OBVIOUS
<1> HIDE DEF p
<1>4. Yield(p, s \o t) = Yield(p, s) \o Yield(p, t)
  BY <1>1, YieldConcat
<1> QED
  BY <1>2, <1>3, <1>4

LEMMA SystemSaidConcat ==
  ASSUME NEW S, NEW s \in Seq(S), NEW t \in Seq(S),
         \A m \in S : Said(m.content) \in Text
  PROVE  SystemSaid(s \o t) = SystemSaid(s) \o SystemSaid(t)
<1> DEFINE p == [m \in S |-> IF IsSystem(m) THEN Said(m.content) ELSE <<>>]
<1>1. p \in [S -> Seq(Words)]
  BY DEF Text
<1>2. ASSUME NEW u \in Seq(S)
      PROVE  SystemSaid(u) = Yield(p, u)
  <2>1. \A i \in DOMAIN u : u[i] \in S
    OBVIOUS
  <2>2. [i \in DOMAIN u |-> p[u[i]]] =
          [i \in DOMAIN u |-> IF IsSystem(u[i]) THEN Said(u[i].content) ELSE <<>>]
    BY <2>1
  <2> QED
    BY <2>2 DEF SystemSaid, FlatMap, Yield
<1>3. s \o t \in Seq(S)
  OBVIOUS
<1> HIDE DEF p
<1>4. Yield(p, s \o t) = Yield(p, s) \o Yield(p, t)
  <2>1. s \in Seq(S) /\ t \in Seq(S)
    OBVIOUS
  <2> QED
    BY ONLY <1>1, <2>1, YieldConcat
<1> QED
  BY <1>2, <1>3, <1>4

(* Turns only: all of them, and no system text.                            *)
LEMMA TurnsOnly ==
  ASSUME NEW S, NEW s \in Seq(S), \A i \in 1..Len(s) : ~IsSystem(s[i])
  PROVE  Turns(s) = s /\ SystemSaid(s) = <<>>
<1>1. DOMAIN s = 1..Len(s) /\ Len(s) \in Nat /\ \A i \in 1..Len(s) : s[i] \in S
  BY ItemsOf
<1> DEFINE ss == [i \in 1..Len(s) |-> <<s[i]>>]
           tt == [i \in 1..Len(s) |-> <<>>]
<1>2. Turns(s) = FlattenSeq(ss)
  <2>1. ss = [i \in DOMAIN s |-> IF IsSystem(s[i]) THEN <<>> ELSE <<s[i]>>]
    BY <1>1
  <2> QED
    BY <2>1 DEF Turns, FlatMap
<1>3. SystemSaid(s) = FlattenSeq(tt)
  <2>1. tt = [i \in DOMAIN s |-> IF IsSystem(s[i]) THEN Said(s[i].content) ELSE <<>>]
    BY <1>1
  <2> QED
    BY <2>1 DEF SystemSaid, FlatMap
<1>4. /\ ss \in Seq(Seq(S)) /\ Len(ss) = Len(s)
      /\ \A i \in 1..Len(s) : Len(ss[i]) = 1 /\ ss[i][1] = s[i]
  BY <1>1
<1>5. tt \in Seq(Seq(S)) /\ Len(tt) = Len(s) /\ \A i \in 1..Len(s) : tt[i] = <<>>
  BY <1>1
<1> HIDE DEF ss, tt
<1>6. FlattenSeq(tt) = <<>>
  BY <1>5, FlattenNothing
<1>7. Len(FlattenSeq(ss)) = Len(s) /\ \A i \in 1..Len(s) : FlattenSeq(ss)[i] = s[i]
  BY <1>4, FlattenSingles
<1>8. FlattenSeq(ss) \in Seq(S)
  BY <1>4, FlattenType
<1>9. FlattenSeq(ss) = s
  BY <1>7, <1>8, SeqEqual
<1> QED
  BY <1>2, <1>3, <1>6, <1>9

(* One system message: no turn, and its text.                              *)
LEMMA SystemOnly ==
  ASSUME NEW m, IsSystem(m), m.content \in Text
  PROVE  Turns(<<m>>) = <<>> /\ SystemSaid(<<m>>) = m.content
<1>1. DOMAIN <<m>> = 1..1 /\ <<m>>[1] = m
  OBVIOUS
<1>2. [i \in DOMAIN <<m>> |-> IF IsSystem(<<m>>[i]) THEN <<>> ELSE <<<<m>>[i]>>] = <<<<>>>>
  BY <1>1
<1>3. m.content # Absent
  BY ExchangeAssumption
<1>4. [i \in DOMAIN <<m>> |-> IF IsSystem(<<m>>[i]) THEN Said(<<m>>[i].content) ELSE <<>>] =
        <<m.content>>
  BY <1>1, <1>3 DEF Said
<1>5. FlattenSeq(<<<<>>>>) = <<>>
  <2>1. <<>> \in Seq({})
    OBVIOUS
  <2> QED
    BY <2>1, FlattenOne
<1>6. FlattenSeq(<<m.content>>) = m.content
  BY FlattenOne DEF Text
<1> QED
  BY <1>2, <1>4, <1>5, <1>6 DEF Turns, SystemSaid, FlatMap

(* An empty list has neither.                                              *)
LEMMA NothingSaid == Turns(<<>>) = <<>> /\ SystemSaid(<<>>) = <<>>
<1>1. <<>> \in Seq({}) /\ Len(<<>>) = 0 /\ 1..0 = {}
  OBVIOUS
<1> QED
  BY <1>1, TurnsOnly

TurnRoles == {"assistant"} \cup (NativeRoles \ {"model"})

(* What the adapter sends, the system message included.                    *)
SentMessage == [role : TurnRoles \cup {"system"}, content : Text]

(* A content that is sent is a turn under its role, with its text.         *)
LEMMA MessageIs ==
  ASSUME NEW c \in NativeContent
  PROVE  /\ MessageOf(c) \in Seq(SentMessage)
         /\ c.text = Absent => MessageOf(c) = <<>>
         /\ c.text # Absent =>
              /\ Len(MessageOf(c)) = 1
              /\ MessageOf(c)[1].content = c.text
              /\ MessageOf(c)[1].role \in TurnRoles
              /\ MessageOf(c)[1].role = "assistant" <=> c.role = "model"
<1>1. c.role \in NativeRoles \cup {Absent} /\ c.text \in {Absent} \cup Text
  BY DEF NativeContent
<1>2. CASE c.text = Absent
  BY <1>2 DEF MessageOf, HasParts
<1>3. CASE c.text # Absent
  <2> DEFINE m == [role |-> IF c.role = "model" THEN "assistant" ELSE Given(c.role, "user"),
                   content |-> c.text]
  <2>1. MessageOf(c) = <<m>>
    BY <1>3 DEF MessageOf, HasParts
  <2>2. m.role \in TurnRoles /\ (m.role = "assistant" <=> c.role = "model")
    BY <1>1, ExchangeAssumption DEF Given, TurnRoles, NativeRoles
  <2>3. m.content = c.text /\ m \in SentMessage
    BY <1>1, <1>3, <2>2 DEF SentMessage
  <2> HIDE DEF m
  <2> QED
    BY <1>3, <2>1, <2>2, <2>3
<1> QED
  BY <1>2, <1>3

(* What each content of a list yields, as a sequence of sequences.         *)
LEMMA MessagesYielded ==
  ASSUME NEW contents \in Seq(NativeContent)
  PROVE  LET ss == [i \in DOMAIN contents |-> MessageOf(contents[i])]
         IN /\ ss \in Seq(Seq(SentMessage)) /\ Len(ss) = Len(contents)
            /\ \A i \in 1..Len(contents) :
                 contents[i] \in NativeContent /\ ss[i] = MessageOf(contents[i])
<1>1. /\ DOMAIN contents = 1..Len(contents) /\ Len(contents) \in Nat
      /\ \A i \in 1..Len(contents) : contents[i] \in NativeContent
  BY ItemsOf
<1>2. \A i \in 1..Len(contents) : MessageOf(contents[i]) \in Seq(SentMessage)
  BY <1>1, MessageIs
<1> QED
  BY <1>1, <1>2

(* None of the contents becomes a system message.                          *)
Spoke == {m \in SentMessage : m.role \in TurnRoles}

LEMMA ContentsAreTurns ==
  ASSUME NEW contents \in Seq(NativeContent)
  PROVE  FlatMap(contents, MessageOf) \in Seq(Spoke)
<1> DEFINE ss == [i \in DOMAIN contents |-> MessageOf(contents[i])]
<1>1. /\ ss \in Seq(Seq(SentMessage)) /\ Len(ss) = Len(contents)
      /\ \A i \in 1..Len(contents) :
           contents[i] \in NativeContent /\ ss[i] = MessageOf(contents[i])
  BY MessagesYielded
<1>2. FlatMap(contents, MessageOf) = FlattenSeq(ss)
  BY DEF FlatMap
<1>3. Len(contents) \in Nat /\ DOMAIN ss = 1..Len(contents)
  BY ItemsOf
<1> HIDE DEF ss
<1>4. ASSUME NEW i \in 1..Len(contents)
      PROVE  ss[i] \in Seq(Spoke)
  <2>1. ss[i] = MessageOf(contents[i]) /\ contents[i] \in NativeContent
    BY <1>1
  <2>2. CASE contents[i].text = Absent
    BY <2>1, <2>2, MessageIs
  <2>3. CASE contents[i].text # Absent
    <3> DEFINE q == MessageOf(contents[i])
    <3>1. q \in Seq(SentMessage) /\ Len(q) = 1 /\ q[1].role \in TurnRoles
      BY <2>1, <2>3, MessageIs
    <3> HIDE DEF q
    <3>2. q[1] \in Spoke
      <4>1. q[1] \in SentMessage
        BY <3>1
      <4> QED
        BY <3>1, <4>1 DEF Spoke
    <3>3. q \in Seq(Spoke)
      <4>1. \A j \in 1..Len(q) : q[j] \in Spoke
        BY <3>1, <3>2
      <4> QED
        BY <3>1, <4>1, SeqOfItems
    <3> QED
      BY <2>1, <3>3 DEF q
  <2> QED
    BY <2>2, <2>3
<1>5. ss \in Seq(Seq(Spoke))
  BY <1>1, <1>3, <1>4
<1> QED
  BY <1>2, <1>5, FlattenType

(* Only the message ahead has a system role.                               *)
LEMMA SystemRoles ==
  /\ \A m \in Spoke : ~IsSystem(m)
  /\ \A m : m.role = "system" => IsSystem(m)
BY DEF Spoke, IsSystem, TurnRoles, NativeRoles

(* Whatever the request, the adapter puts the system text ahead and the    *)
(* contents that have a text after it.                                     *)
LEMMA TransformedIs ==
  ASSUME NEW request, request.contents \in Seq(NativeContent),
         request.system \in {Absent} \cup Text
  PROVE  LET out == TransformRequest(request)
         IN /\ Turns(out.messages) = FlatMap(request.contents, MessageOf)
            /\ SystemFirst(out.messages, Said(request.system))
            /\ out.max_tokens = request.maxTokens
<1> DEFINE turns == FlatMap(request.contents, MessageOf)
           m == [role |-> "system", content |-> request.system]
           out == TransformRequest(request)
<1>1. turns \in Seq(Spoke) /\ turns \in Seq(SentMessage)
  <2>1. turns \in Seq(Spoke)
    BY ContentsAreTurns
  <2>2. Spoke \subseteq SentMessage
    BY DEF Spoke
  <2> HIDE DEF turns
  <2> QED
    BY <2>1, <2>2, SeqMonotonic
<1>2. out.max_tokens = request.maxTokens
  BY DEF TransformRequest
<1> HIDE DEF turns
<1>3. /\ DOMAIN turns = 1..Len(turns) /\ Len(turns) \in Nat
      /\ \A i \in 1..Len(turns) : turns[i] \in Spoke /\ ~IsSystem(turns[i])
  BY <1>1, ItemsOf, SystemRoles
<1>4. Turns(turns) = turns /\ SystemSaid(turns) = <<>>
  BY <1>1, <1>3, TurnsOnly
<1>5. CASE request.system \in {Absent, <<>>}
  <2>1. out.messages = <<>> \o turns
    BY <1>5 DEF TransformRequest, turns
  <2>2. out.messages = turns
    BY <1>1, <2>1, ConcatEmptySeq
  <2>3. Said(request.system) = <<>>
    BY <1>5 DEF Said
  <2> QED
    BY <1>2, <1>3, <1>4, <2>2, <2>3 DEF SystemFirst, turns
<1>6. CASE request.system \notin {Absent, <<>>}
  <2>1. out.messages = <<m>> \o turns
    BY <1>6 DEF TransformRequest, turns
  <2>2. m.content = request.system /\ request.system \in Text /\ m.role = "system"
    BY <1>6
  <2>3. m \in SentMessage
    BY <2>2 DEF SentMessage
  <2>4. IsSystem(m)
    BY <2>2, SystemRoles
  <2> HIDE DEF m
  <2>5. <<m>> \in Seq(SentMessage) /\ Len(<<m>>) = 1
    BY <2>3
  <2>6. Turns(<<m>>) = <<>> /\ SystemSaid(<<m>>) = request.system
    BY <2>2, <2>4, SystemOnly
  <2>7. Turns(<<m>> \o turns) = turns
    <3>1. Turns(<<m>> \o turns) = Turns(<<m>>) \o Turns(turns)
      BY <1>1, <2>5, TurnsConcat
    <3> QED
      BY <1>1, <1>4, <2>6, <3>1, ConcatEmptySeq
  <2>8. SystemSaid(<<m>> \o turns) = request.system
    <3>1. \A e \in SentMessage : Said(e.content) \in Text
      <4>1. <<>> \in Text
        BY DEF Text
      <4> QED
        BY <4>1 DEF SentMessage, Said
    <3>2. SystemSaid(<<m>> \o turns) = SystemSaid(<<m>>) \o SystemSaid(turns)
      BY <1>1, <2>5, <3>1, SystemSaidConcat
    <3>3. request.system \o <<>> = request.system
      BY <2>2, ConcatEmptySeq DEF Text
    <3> QED
      BY <1>4, <2>6, <3>2, <3>3
  <2>9. ASSUME NEW i \in DOMAIN (<<m>> \o turns), i # 1
        PROVE  ~IsSystem((<<m>> \o turns)[i])
    <3>1. /\ <<m>> \o turns \in Seq(SentMessage) /\ Len(<<m>> \o turns) = 1 + Len(turns)
          /\ \A j \in 1..1 + Len(turns) :
               (<<m>> \o turns)[j] = IF j <= 1 THEN <<m>>[j] ELSE turns[j - 1]
      BY <1>1, <2>5, ConcatProperties
    <3>2. i \in 1..1 + Len(turns)
      BY <3>1
    <3>3. i - 1 \in 1..Len(turns) /\ ~(i <= 1)
      BY <1>3, <2>9, <3>2
    <3>4. (<<m>> \o turns)[i] = turns[i - 1]
      BY <3>1, <3>2, <3>3
    <3> QED
      BY <1>3, <3>3, <3>4
  <2>10. Said(request.system) = request.system
    BY <1>6 DEF Said
  <2> QED
    BY <1>2, <2>1, <2>7, <2>8, <2>9, <2>10 DEF SystemFirst, turns
<1> QED
  BY <1>5, <1>6

(* A turn says what its content says, and the model's are the assistant's. *)
SentAs == {p \in NativeContent \X SentMessage :
             p[2].content = p[1].text /\ (p[2].role = "assistant" <=> p[1].role = "model")}

LEMMA ContentsWithText ==
  ASSUME NEW contents \in Seq(NativeContent)
  PROVE  LET asked == FlatMap(contents, LAMBDA c : IF c.text = Absent THEN <<>> ELSE <<c>>)
             sent == FlatMap(contents, MessageOf)
         IN asked \in Seq(NativeContent) /\ Alike(asked, sent, SentAs)
<1> DEFINE ss == [i \in DOMAIN contents |->
                    IF contents[i].text = Absent THEN <<>> ELSE <<contents[i]>>]
           tt == [i \in DOMAIN contents |-> MessageOf(contents[i])]
<1>1. /\ DOMAIN contents = 1..Len(contents) /\ Len(contents) \in Nat
      /\ \A i \in 1..Len(contents) : contents[i] \in NativeContent
  BY ItemsOf
<1>2. /\ tt \in Seq(Seq(SentMessage)) /\ Len(tt) = Len(contents)
      /\ \A i \in 1..Len(contents) : tt[i] = MessageOf(contents[i])
  BY MessagesYielded
<1>3. /\ ss \in Seq(Seq(NativeContent)) /\ Len(ss) = Len(contents)
      /\ \A i \in 1..Len(contents) :
           ss[i] = IF contents[i].text = Absent THEN <<>> ELSE <<contents[i]>>
  BY <1>1
<1>4. /\ FlatMap(contents, LAMBDA c : IF c.text = Absent THEN <<>> ELSE <<c>>) = FlattenSeq(ss)
      /\ FlatMap(contents, MessageOf) = FlattenSeq(tt)
  BY DEF FlatMap
<1> HIDE DEF ss, tt
<1>5. ASSUME NEW i \in 1..Len(contents)
      PROVE  Alike(ss[i], tt[i], SentAs)
  <2> DEFINE c == contents[i]
  <2>1. c \in NativeContent /\ tt[i] = MessageOf(c)
    BY <1>1, <1>2
  <2>2. ss[i] = IF c.text = Absent THEN <<>> ELSE <<c>>
    BY <1>3
  <2> HIDE DEF c
  <2>3. CASE c.text = Absent
    <3>1. ss[i] = <<>> /\ tt[i] = <<>>
      BY <2>1, <2>2, <2>3, MessageIs
    <3> QED
      BY <3>1 DEF Alike
  <2>4. CASE c.text # Absent
    <3> DEFINE q == MessageOf(c)
    <3>1. /\ q \in Seq(SentMessage) /\ Len(q) = 1 /\ q[1].content = c.text
          /\ q[1].role = "assistant" <=> c.role = "model"
      BY <2>1, <2>4, MessageIs
    <3> HIDE DEF q
    <3>2. q[1] \in SentMessage
      <4>1. 1 \in 1..Len(q)
        BY <3>1
      <4> QED
        BY ONLY <3>1, <4>1, ItemsOf
    <3>3. <<c, q[1]>> \in SentAs
      BY <2>1, <3>1, <3>2 DEF SentAs
    <3>4. Len(<<c>>) = 1 /\ <<c>>[1] = c /\ 1..1 = {1}
      OBVIOUS
    <3>5. Alike(<<c>>, q, SentAs)
      BY <3>1, <3>3, <3>4 DEF Alike
    <3> QED
      BY <2>1, <2>2, <2>4, <3>5 DEF q
  <2> QED
    BY <2>3, <2>4
<1>6. FlattenSeq(ss) \in Seq(NativeContent)
  BY <1>3, FlattenType
<1>7. Alike(FlattenSeq(ss), FlattenSeq(tt), SentAs)
  BY <1>2, <1>3, <1>5, FlattenAlike
<1> QED
  BY <1>4, <1>6, <1>7

(* NativeSurvives of any request.                                          *)
LEMMA NativeHolds ==
  ASSUME NEW native \in NativeRequest
  PROVE  NativeSurvives(native)
<1> DEFINE out == TransformRequest(native)
           sent == Turns(out.messages)
           asked == FlatMap(native.contents, LAMBDA c : IF c.text = Absent THEN <<>> ELSE <<c>>)
<1>1. native.contents \in Seq(NativeContent) /\ native.system \in {Absent} \cup Text
  BY DEF NativeRequest
<1>2. Outgoing("openai_compatible", native) = out
  BY DEF Outgoing
<1>3. /\ sent = FlatMap(native.contents, MessageOf)
      /\ SystemFirst(out.messages, Said(native.system))
      /\ out.max_tokens = native.maxTokens
  BY <1>1, TransformedIs
<1>4. asked \in Seq(NativeContent) /\ Alike(asked, sent, SentAs)
  BY <1>1, <1>3, ContentsWithText
<1> HIDE DEF out, sent, asked
<1>5. DOMAIN asked = 1..Len(asked)
  BY <1>4
<1>6. Len(sent) = Len(asked) /\ \A i \in DOMAIN asked : <<asked[i], sent[i]>> \in SentAs
  BY <1>4, <1>5 DEF Alike
<1>7. \A i \in DOMAIN asked :
        /\ sent[i].content = asked[i].text
        /\ sent[i].role = "assistant" <=> asked[i].role = "model"
  BY <1>6 DEF SentAs
<1> QED
  BY <1>2, <1>3, <1>6, <1>7 DEF NativeSurvives, out, sent, asked

-------------------------------------------------------------------------------
ChatContent == [role : {"model", "user"}, text : Text]

AskedAs == {p \in ChatMessage \X ChatContent :
              p[2].text = Said(p[1].content) /\ (p[2].role = "model" <=> p[1].role = "assistant")}

(* The turns of a chat, one content each.                                  *)
LEMMA TurnsBecomeContents ==
  ASSUME NEW messages \in Seq(ChatMessage)
  PROVE  /\ Turns(messages) \in Seq(ChatMessage)
         /\ FlatMap(messages, ContentOf) \in Seq(ChatContent)
         /\ Alike(Turns(messages), FlatMap(messages, ContentOf), AskedAs)
<1> DEFINE ss == [i \in DOMAIN messages |->
                    IF IsSystem(messages[i]) THEN <<>> ELSE <<messages[i]>>]
           tt == [i \in DOMAIN messages |-> ContentOf(messages[i])]
           Content(m) == [role |-> IF m.role = "assistant" THEN "model" ELSE "user",
                          text |-> TextOf(m)]
<1>1. /\ DOMAIN messages = 1..Len(messages) /\ Len(messages) \in Nat
      /\ \A i \in 1..Len(messages) : messages[i] \in ChatMessage
  BY ItemsOf
<1>2. ASSUME NEW m \in ChatMessage
      PROVE  /\ IsSystem(m) => ContentOf(m) = <<>>
             /\ ~IsSystem(m) => ContentOf(m) = <<Content(m)>>
             /\ Content(m) \in ChatContent
             /\ <<m, Content(m)>> \in AskedAs
  <2>1. TextOf(m) = Said(m.content) /\ TextOf(m) \in Text
    BY DEF ChatMessage, TextOf, Given, Said, Text
  <2>2. Content(m) \in ChatContent
    BY <2>1 DEF ChatContent
  <2>3. <<m, Content(m)>> \in AskedAs
    BY <2>1, <2>2 DEF AskedAs
  <2> QED
    BY <2>2, <2>3 DEF ContentOf
<1> HIDE DEF Content
<1>3. /\ tt \in Seq(Seq(ChatContent)) /\ Len(tt) = Len(messages)
      /\ \A i \in 1..Len(messages) : tt[i] = ContentOf(messages[i])
  <2>1. \A i \in 1..Len(messages) : ContentOf(messages[i]) \in Seq(ChatContent)
    <3>1. \A c \in ChatContent : <<c>> \in Seq(ChatContent)
      OBVIOUS
    <3>2. <<>> \in Seq(ChatContent)
      OBVIOUS
    <3> QED
      BY <1>1, <1>2, <3>1, <3>2
  <2> QED
    BY <1>1, <2>1
<1>4. /\ ss \in Seq(Seq(ChatMessage)) /\ Len(ss) = Len(messages)
      /\ \A i \in 1..Len(messages) :
           ss[i] = IF IsSystem(messages[i]) THEN <<>> ELSE <<messages[i]>>
  BY <1>1
<1>5. Turns(messages) = FlattenSeq(ss) /\ FlatMap(messages, ContentOf) = FlattenSeq(tt)
  BY DEF FlatMap, Turns
<1> HIDE DEF ss, tt
<1>6. ASSUME NEW i \in 1..Len(messages)
      PROVE  Alike(ss[i], tt[i], AskedAs)
  <2> DEFINE m == messages[i]
  <2>1. m \in ChatMessage /\ tt[i] = ContentOf(m)
    BY <1>1, <1>3
  <2>2. ss[i] = IF IsSystem(m) THEN <<>> ELSE <<m>>
    BY <1>4
  <2> HIDE DEF m
  <2>3. CASE IsSystem(m)
    <3>1. ss[i] = <<>> /\ tt[i] = <<>>
      BY <1>2, <2>1, <2>2, <2>3
    <3> QED
      BY <3>1 DEF Alike
  <2>4. CASE ~IsSystem(m)
    <3> DEFINE c == Content(m)
    <3>1. ss[i] = <<m>> /\ tt[i] = <<c>> /\ <<m, c>> \in AskedAs
      BY <1>2, <2>1, <2>2, <2>4
    <3> HIDE DEF c
    <3>2. Len(<<m>>) = 1 /\ Len(<<c>>) = 1 /\ <<m>>[1] = m /\ <<c>>[1] = c /\ 1..1 = {1}
      OBVIOUS
    <3> QED
      BY <3>1, <3>2 DEF Alike
  <2> QED
    BY <2>3, <2>4
<1>7. FlattenSeq(ss) \in Seq(ChatMessage) /\ FlattenSeq(tt) \in Seq(ChatContent)
  BY <1>3, <1>4, FlattenType
<1>8. Alike(FlattenSeq(ss), FlattenSeq(tt), AskedAs)
  BY <1>3, <1>4, <1>6, FlattenAlike
<1> QED
  BY <1>5, <1>7, <1>8

(* What the handler makes of a chat goes out turn by turn.                 *)
LEMMA ContentsGoOut ==
  ASSUME NEW contents \in Seq(ChatContent)
  PROVE  LET sent == FlatMap(contents, MessageOf)
         IN /\ contents \in Seq(NativeContent)
            /\ Len(sent) = Len(contents)
            /\ \A i \in 1..Len(contents) :
                 /\ sent[i].content = contents[i].text
                 /\ sent[i].role = "assistant" <=> contents[i].role = "model"
<1> DEFINE tt == [i \in DOMAIN contents |-> MessageOf(contents[i])]
<1>1. contents \in Seq(NativeContent)
  <2>1. ChatContent \subseteq NativeContent
    BY DEF ChatContent, NativeContent, NativeRoles
  <2> QED
    BY <2>1, SeqMonotonic
<1>2. /\ tt \in Seq(Seq(SentMessage)) /\ Len(tt) = Len(contents)
      /\ \A i \in 1..Len(contents) : tt[i] = MessageOf(contents[i])
  BY <1>1, MessagesYielded
<1>3. FlatMap(contents, MessageOf) = FlattenSeq(tt)
  BY DEF FlatMap
<1> HIDE DEF tt
<1>4. ASSUME NEW i \in 1..Len(contents)
      PROVE  /\ Len(tt[i]) = 1
             /\ tt[i][1].content = contents[i].text
             /\ tt[i][1].role = "assistant" <=> contents[i].role = "model"
  <2>1. contents[i] \in ChatContent /\ contents[i] \in NativeContent
    BY <1>1, ItemsOf
  <2>2. contents[i].text # Absent
    BY <2>1, ExchangeAssumption DEF ChatContent
  <2> QED
    BY <1>2, <2>1, <2>2, MessageIs
<1>5. /\ Len(FlattenSeq(tt)) = Len(tt)
      /\ \A i \in 1..Len(tt) : FlattenSeq(tt)[i] = tt[i][1]
  BY <1>2, <1>4, FlattenSingles
<1> QED
  BY <1>1, <1>2, <1>3, <1>4, <1>5

(* The system texts of a client become one text.                           *)
LEMMA SystemIsText ==
  ASSUME NEW messages \in Seq(ChatMessage)
  PROVE  SystemSaid(messages) \in Text /\ FlatMap(messages, SystemText) = SystemSaid(messages)
<1> DEFINE ss == [i \in DOMAIN messages |->
                    IF IsSystem(messages[i]) THEN Said(messages[i].content) ELSE <<>>]
<1>1. /\ DOMAIN messages = 1..Len(messages) /\ Len(messages) \in Nat
      /\ \A i \in 1..Len(messages) : messages[i] \in ChatMessage
  BY ItemsOf
<1>2. \A m \in ChatMessage : Said(m.content) \in Text /\ TextOf(m) = Said(m.content)
  BY DEF ChatMessage, Said, TextOf, Given, Text
<1>3. ss \in Seq(Text)
  <2>1. <<>> \in Text
    BY DEF Text
  <2> QED
    BY <1>1, <1>2, <2>1
<1>4. SystemSaid(messages) = FlattenSeq(ss)
  BY DEF SystemSaid, FlatMap
<1>5. [i \in DOMAIN messages |-> SystemText(messages[i])] = ss
  BY <1>1, <1>2 DEF SystemText
<1>6. FlatMap(messages, SystemText) = FlattenSeq(ss)
  BY <1>5 DEF FlatMap
<1> HIDE DEF ss
<1> QED
  BY <1>3, <1>4, <1>6, FlattenType DEF Text

(* ChatSurvives of any request.                                            *)
LEMMA ChatHolds ==
  ASSUME NEW chat \in ChatRequest
  PROVE  ChatSurvives(chat)
<1> DEFINE request == ChatRequestToGenerate(chat)
           out == TransformRequest(request)
           asked == Turns(chat.messages)
           sent == Turns(out.messages)
           said == SystemSaid(chat.messages)
<1>1. /\ chat.messages \in Seq(ChatMessage)
      /\ chat.max_completion_tokens \in Count
  BY DEF ChatRequest
<1>2. said \in Text /\ request.system = said
  BY <1>1, SystemIsText DEF ChatRequestToGenerate
<1>3. request.contents = FlatMap(chat.messages, ContentOf)
  BY DEF ChatRequestToGenerate
<1>4. request.maxTokens = Given(chat.max_completion_tokens, chat.max_tokens)
  BY DEF ChatRequestToGenerate
<1>5. Outgoing("openai_compatible", request) = out
  BY DEF Outgoing
<1>6. /\ asked \in Seq(ChatMessage) /\ request.contents \in Seq(ChatContent)
      /\ Alike(asked, request.contents, AskedAs)
  BY <1>1, <1>3, TurnsBecomeContents
<1> HIDE DEF request, asked, said
<1>7. LET turns == FlatMap(request.contents, MessageOf)
      IN /\ request.contents \in Seq(NativeContent)
         /\ Len(turns) = Len(request.contents)
         /\ \A i \in 1..Len(request.contents) :
              /\ turns[i].content = request.contents[i].text
              /\ turns[i].role = "assistant" <=> request.contents[i].role = "model"
  BY <1>6, ContentsGoOut
<1>8. /\ sent = FlatMap(request.contents, MessageOf)
      /\ SystemFirst(out.messages, Said(request.system))
      /\ out.max_tokens = request.maxTokens
  BY <1>2, <1>7, TransformedIs
<1>9. Said(request.system) = said
  BY <1>2, ExchangeAssumption DEF Said
<1> HIDE DEF out, sent
<1>10. /\ DOMAIN asked = 1..Len(asked) /\ Len(asked) = Len(request.contents)
       /\ \A i \in 1..Len(asked) : <<asked[i], request.contents[i]>> \in AskedAs
  BY <1>6, ItemsOf DEF Alike
<1>11. Len(sent) = Len(asked)
  BY <1>7, <1>8, <1>10
<1>12. ASSUME NEW i \in DOMAIN asked
       PROVE  /\ sent[i].content = Said(asked[i].content)
              /\ sent[i].role = "assistant" <=> asked[i].role = "assistant"
  <2>1. /\ request.contents[i].text = Said(asked[i].content)
        /\ request.contents[i].role = "model" <=> asked[i].role = "assistant"
    BY <1>10 DEF AskedAs
  <2>2. /\ sent[i].content = request.contents[i].text
        /\ sent[i].role = "assistant" <=> request.contents[i].role = "model"
    BY <1>7, <1>8, <1>10
  <2> QED
    BY <2>1, <2>2
<1>13. /\ chat.max_completion_tokens # Absent => out.max_tokens = chat.max_completion_tokens
       /\ chat.max_completion_tokens = Absent => out.max_tokens = chat.max_tokens
  BY <1>4, <1>8 DEF Given
<1>14. SystemFirst(out.messages, said)
  BY <1>8, <1>9
<1> QED
  BY <1>5, <1>11, <1>12, <1>13, <1>14 DEF ChatSurvives, request, out, asked, sent, said

(* ConversationSurvives: whatever a client of either protocol says reaches *)
(* an OpenAI-compatible upstream as it was said.                           *)
THEOREM ConversationsSurvive == ASpec => []ConversationSurvives
<1>1. ExchangeInv => ConversationSurvives
  BY KindsApart, ChatHolds, NativeHolds DEF ConversationSurvives
<1> QED
  BY <1>1, SpecExchangeInv, PTL
===============================================================================
