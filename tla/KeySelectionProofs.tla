-------------------------- MODULE KeySelectionProofs --------------------------
(***************************************************************************)
(* The comparator of orderCandidates is a strict total order on candidates *)
(* of distinct credentials, for every strategy, every instant and whatever *)
(* the counters are; so every finite pool has one best candidate, and the  *)
(* CHOOSE of Best picks it.                                                *)
(***************************************************************************)
EXTENDS KeySelection, FiniteSets, FiniteSetTheorems, WellFoundedInduction, TLAPS

-------------------------------------------------------------------------------
(* The criteria, one by one: each orders any two distinct credentials one  *)
(* way only, and is transitive.                                            *)

LEMMA OlderOrder ==
  ASSUME NEW a \in Candidate, NEW b \in Candidate, NEW c \in Candidate
  PROVE  /\ ~(Older(a, b) /\ Older(b, a))
         /\ Older(a, b) /\ Older(b, c) => Older(a, c)
         /\ a.cred # b.cred => Older(a, b) \/ Older(b, a)
<1>1. /\ a.cred \in Creds /\ b.cred \in Creds /\ c.cred \in Creds
  BY DEF Candidate
<1>2. /\ CreatedAt[a.cred] \in Nat /\ CreatedAt[b.cred] \in Nat
      /\ CreatedAt[c.cred] \in Nat
      /\ CreatedAt[a.cred] = CreatedAt[b.cred] => a.cred = b.cred
  BY <1>1, CredsAssumption
<1> QED
  BY <1>2 DEF Older

LEMMA LessUsedOrder ==
  ASSUME NEW a \in Candidate, NEW b \in Candidate, NEW c \in Candidate
  PROVE  /\ ~(LessUsed(a, b) /\ LessUsed(b, a))
         /\ LessUsed(a, b) /\ LessUsed(b, c) => LessUsed(a, c)
         /\ a.cred # b.cred => LessUsed(a, b) \/ LessUsed(b, a)
<1>1. a.uses \in Nat /\ b.uses \in Nat /\ c.uses \in Nat
  BY DEF Candidate
<1> QED
  BY <1>1, OlderOrder DEF LessUsed

LEMMA LongerIdleOrder ==
  ASSUME NEW a \in Candidate, NEW b \in Candidate, NEW c \in Candidate
  PROVE  /\ ~(LongerIdle(a, b) /\ LongerIdle(b, a))
         /\ LongerIdle(a, b) /\ LongerIdle(b, c) => LongerIdle(a, c)
         /\ a.cred # b.cred => LongerIdle(a, b) \/ LongerIdle(b, a)
<1>1. a.lastUsed \in Nat /\ b.lastUsed \in Nat /\ c.lastUsed \in Nat
  BY DEF Candidate
<1> QED
  BY <1>1, OlderOrder DEF LongerIdle

LEMMA FasterOrder ==
  ASSUME NEW a \in Candidate, NEW b \in Candidate, NEW c \in Candidate
  PROVE  /\ ~(Faster(a, b) /\ Faster(b, a))
         /\ Faster(a, b) /\ Faster(b, c) => Faster(a, c)
         /\ a.cred # b.cred => Faster(a, b) \/ Faster(b, a)
<1>1. /\ a.latency \in Nat \cup {-1} /\ b.latency \in Nat \cup {-1}
      /\ c.latency \in Nat \cup {-1}
  BY DEF Candidate, NoLatency
<1> QED
  BY <1>1, LessUsedOrder DEF Faster, Quicker, NoLatency

(* Error rates compared by cross product: fractions with positive          *)
(* denominators.                                                           *)
LEMMA CrossProductOrder ==
  ASSUME NEW ea \in Nat, NEW eb \in Nat, NEW ec \in Nat,
         NEW pa \in Nat \ {0}, NEW pb \in Nat \ {0}, NEW pc \in Nat \ {0},
         ea * pb <= eb * pa, eb * pc <= ec * pb
  PROVE  ea * pc <= ec * pa
<1>1. (ea * pb) * pc <= (eb * pa) * pc
  OBVIOUS
<1>2. (eb * pc) * pa <= (ec * pb) * pa
  OBVIOUS
<1>3. (eb * pa) * pc = (eb * pc) * pa
  OBVIOUS
<1>4. (ea * pb) * pc = (ea * pc) * pb /\ (ec * pb) * pa = (ec * pa) * pb
  OBVIOUS
<1>5. (ea * pc) * pb <= (ec * pa) * pb
  BY <1>1, <1>2, <1>3, <1>4
<1> QED
  BY <1>5

(* Two fractions are equal only if the one between them equals both.       *)
LEMMA CrossProductTight ==
  ASSUME NEW ea \in Nat, NEW eb \in Nat, NEW ec \in Nat,
         NEW pa \in Nat \ {0}, NEW pb \in Nat \ {0}, NEW pc \in Nat \ {0},
         ea * pb <= eb * pa, eb * pc <= ec * pb, ec * pa <= ea * pc
  PROVE  eb * pa <= ea * pb /\ ec * pb <= eb * pc
<1>1. eb * pa <= ea * pb
  BY CrossProductOrder, Zenon
<1>2. ec * pb <= eb * pc
  BY CrossProductOrder, Zenon
<1> QED
  BY <1>1, <1>2

LEMMA SmarterOrder ==
  ASSUME NEW a \in Candidate, NEW b \in Candidate, NEW c \in Candidate
  PROVE  /\ ~(Smarter(a, b) /\ Smarter(b, a))
         /\ Smarter(a, b) /\ Smarter(b, c) => Smarter(a, c)
         /\ a.cred # b.cred => Smarter(a, b) \/ Smarter(b, a)
<1> DEFINE pa == Picks(a)
           pb == Picks(b)
           pc == Picks(c)
<1>1. /\ a.errors \in Nat /\ b.errors \in Nat /\ c.errors \in Nat
      /\ pa \in Nat \ {0} /\ pb \in Nat \ {0} /\ pc \in Nat \ {0}
  BY DEF Candidate, Picks
<1>2. /\ a.errors * pb \in Int /\ b.errors * pa \in Int
      /\ b.errors * pc \in Int /\ c.errors * pb \in Int
      /\ a.errors * pc \in Int /\ c.errors * pa \in Int
  BY <1>1
<1>3. ASSUME a.errors * pb <= b.errors * pa, b.errors * pc <= c.errors * pb
      PROVE  a.errors * pc <= c.errors * pa
  BY <1>1, <1>3, CrossProductOrder, Zenon
<1>5. ASSUME a.errors * pb <= b.errors * pa, b.errors * pc <= c.errors * pb,
             c.errors * pa <= a.errors * pc
      PROVE  b.errors * pa <= a.errors * pb /\ c.errors * pb <= b.errors * pc
  BY <1>1, <1>5, CrossProductTight, Zenon
<1>4. ASSUME c.errors * pb <= b.errors * pc, b.errors * pa <= a.errors * pb
      PROVE  c.errors * pa <= a.errors * pc
  BY <1>1, <1>4, CrossProductOrder, Zenon
<1> HIDE DEF pa, pb, pc
<1>6. /\ Smarter(a, b) <=> \/ a.errors * pb < b.errors * pa
                           \/ a.errors * pb = b.errors * pa /\ Faster(a, b)
      /\ Smarter(b, a) <=> \/ b.errors * pa < a.errors * pb
                           \/ b.errors * pa = a.errors * pb /\ Faster(b, a)
      /\ Smarter(b, c) <=> \/ b.errors * pc < c.errors * pb
                           \/ b.errors * pc = c.errors * pb /\ Faster(b, c)
      /\ Smarter(a, c) <=> \/ a.errors * pc < c.errors * pa
                           \/ a.errors * pc = c.errors * pa /\ Faster(a, c)
  BY DEF Smarter, pa, pb, pc
<1> DEFINE ab == a.errors * pb
           ba == b.errors * pa
           bc == b.errors * pc
           cb == c.errors * pb
           ac == a.errors * pc
           ca == c.errors * pa
<1> HIDE DEF ab, ba, bc, cb, ac, ca
<1>7. /\ ab \in Int /\ ba \in Int /\ bc \in Int /\ cb \in Int /\ ac \in Int /\ ca \in Int
      /\ ab <= ba /\ bc <= cb => ac <= ca /\ (ac = ca => ab = ba /\ bc = cb)
      /\ ab = ba /\ bc = cb => ac = ca
      /\ Smarter(a, b) <=> (ab < ba \/ (ab = ba /\ Faster(a, b)))
      /\ Smarter(b, a) <=> (ba < ab \/ (ba = ab /\ Faster(b, a)))
      /\ Smarter(b, c) <=> (bc < cb \/ (bc = cb /\ Faster(b, c)))
      /\ Smarter(a, c) <=> (ac < ca \/ (ac = ca /\ Faster(a, c)))
  BY <1>2, <1>3, <1>4, <1>5, <1>6 DEF ab, ba, bc, cb, ac, ca
<1>8. ~(Smarter(a, b) /\ Smarter(b, a))
  BY <1>7, FasterOrder
<1>9. a.cred # b.cred => Smarter(a, b) \/ Smarter(b, a)
  BY <1>7, FasterOrder
<1>10. ASSUME Smarter(a, b), Smarter(b, c)
      PROVE  Smarter(a, c)
  <2>1. ab <= ba /\ bc <= cb
    BY <1>7, <1>10
  <2>2. CASE ac # ca
    BY <1>7, <2>1, <2>2
  <2>3. CASE ac = ca
    <3>1. Faster(a, b) /\ Faster(b, c)
      BY <1>7, <1>10, <2>1, <2>3
    <3> QED
      BY <1>7, <2>3, <3>1, FasterOrder
  <2> QED
    BY <2>2, <2>3
<1> QED
  BY <1>8, <1>9, <1>10

LEMMA PrefersOrder ==
  ASSUME NEW s, NEW a \in Candidate, NEW b \in Candidate, NEW c \in Candidate
  PROVE  /\ ~(Prefers(s, a, b) /\ Prefers(s, b, a))
         /\ Prefers(s, a, b) /\ Prefers(s, b, c) => Prefers(s, a, c)
         /\ a.cred # b.cred => Prefers(s, a, b) \/ Prefers(s, b, a)
<1>1. CASE s = "round_robin"
  BY <1>1, LongerIdleOrder DEF Prefers
<1>2. CASE s = "fastest"
  BY <1>2, FasterOrder DEF Prefers
<1>3. CASE s = "smartest"
  BY <1>3, SmarterOrder DEF Prefers
<1>4. CASE s \notin {"round_robin", "fastest", "smartest"}
  BY <1>4, LessUsedOrder DEF Prefers
<1> QED
  BY <1>1, <1>2, <1>3, <1>4

-------------------------------------------------------------------------------
(* The comparator of orderCandidates, at any instant: of two candidates of *)
(* distinct credentials exactly one goes first, and the order is           *)
(* transitive, so that the outcome of sort does not depend on how it sorts *)
(* or on the order the rows were read in.                                  *)
THEOREM PrecedesIsStrictTotalOrder ==
  ASSUME NEW s, NEW now \in Nat,
         NEW a \in Candidate, NEW b \in Candidate, NEW c \in Candidate
  PROVE  /\ ~(Precedes(s, now, a, b) /\ Precedes(s, now, b, a))
         /\ Precedes(s, now, a, b) /\ Precedes(s, now, b, c) =>
              Precedes(s, now, a, c)
         /\ a.cred # b.cred => Precedes(s, now, a, b) \/ Precedes(s, now, b, a)
<1>1. /\ Rank(a, now) \in 0..2 /\ Rank(b, now) \in 0..2 /\ Rank(c, now) \in 0..2
  BY DEF Rank
<1>2. a.until \in Nat /\ b.until \in Nat /\ c.until \in Nat
  BY DEF Candidate
<1> QED
  BY <1>1, <1>2, PrefersOrder DEF Precedes

(* A finite set with an asymmetric, transitive relation has an element     *)
(* that nothing in it precedes: the one with the fewest predecessors.      *)
LEMMA FirstExists ==
  ASSUME NEW S, IsFiniteSet(S), S # {}, NEW R,
         \A x, y \in S : ~(<<x, y>> \in R /\ <<y, x>> \in R),
         \A x, y, z \in S : <<x, y>> \in R /\ <<y, z>> \in R => <<x, z>> \in R
  PROVE  \E x \in S : \A y \in S : <<y, x>> \notin R
<1> DEFINE Before(x) == {y \in S : <<y, x>> \in R}
           T == {Before(x) : x \in S}
<1>1. FiniteSubsetsOf(S) = SUBSET S
  BY FS_FiniteSubsetsOfFinite
<1>2. IsWellFoundedOn(StrictSubsetOrdering(S), SUBSET S)
  <2>1. IsWellFoundedOn(StrictSubsetOrdering(S), FiniteSubsetsOf(S))
    BY FS_StrictSubsetOrderingWellFounded
  <2> QED
    BY <1>1, <2>1
<1>3. T \subseteq SUBSET S /\ T # {}
  <2>1. \A x \in S : Before(x) \in T
    OBVIOUS
  <2>2. T # {}
    BY <2>1
  <2>3. T \subseteq SUBSET S
    OBVIOUS
  <2> QED
    BY <2>2, <2>3
<1>4. PICK U \in T : \A V \in T : <<V, U>> \notin StrictSubsetOrdering(S)
  <2> HIDE DEF T
  <2> QED
    BY <1>2, <1>3, WFMin
<1>5. PICK x \in S : U = Before(x)
  OBVIOUS
<1>6. ASSUME NEW y \in S, <<y, x>> \in R
      PROVE  FALSE
  <2>1. Before(y) \subseteq Before(x)
    BY <1>6
  <2>2. y \in Before(x) /\ y \notin Before(y)
    BY <1>6
  <2>3. <<Before(y), Before(x)>> \in StrictSubsetOrdering(S)
    BY <2>1, <2>2 DEF StrictSubsetOrdering
  <2> QED
    BY <1>4, <1>5, <2>3
<1> QED
  BY <1>6

(* A pool is what orderCandidates is given: candidates of distinct         *)
(* credentials.                                                            *)
IsPool(pool) ==
  /\ pool \subseteq Candidate
  /\ \A a, b \in pool : a.cred = b.cred => a = b

(* Best is well defined: whatever the strategy, the instant and the        *)
(* counters, a finite pool has a candidate that goes before every other,   *)
(* and Best is that one.                                                   *)
THEOREM BestIsFirst ==
  ASSUME NEW s, NEW now \in Nat, NEW pool, IsPool(pool), IsFiniteSet(pool),
         pool # {}
  PROVE  /\ Best(s, now, pool) \in pool
         /\ \A b \in pool \ {Best(s, now, pool)} :
              Precedes(s, now, Best(s, now, pool), b)
<1> DEFINE R == {e \in pool \X pool : Precedes(s, now, e[1], e[2])}
<1>1. pool \subseteq Candidate /\ \A a, b \in pool : a.cred = b.cred => a = b
  BY DEF IsPool
<1>2. \A x, y \in pool : <<x, y>> \in R <=> Precedes(s, now, x, y)
  OBVIOUS
<1>3. \A x, y \in pool : ~(<<x, y>> \in R /\ <<y, x>> \in R)
  BY <1>1, <1>2, PrecedesIsStrictTotalOrder
<1>4. \A x, y, z \in pool : <<x, y>> \in R /\ <<y, z>> \in R => <<x, z>> \in R
  BY <1>1, <1>2, PrecedesIsStrictTotalOrder
<1>5. PICK x \in pool : \A y \in pool : <<y, x>> \notin R
  <2> HIDE DEF R
  <2> QED
    BY <1>3, <1>4, FirstExists
<1>6. \A y \in pool \ {x} : Precedes(s, now, x, y)
  BY <1>1, <1>2, <1>5, PrecedesIsStrictTotalOrder
<1> QED
  BY <1>6 DEF Best
===============================================================================
