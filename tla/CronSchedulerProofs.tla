------------------------ MODULE CronSchedulerProofs ------------------------
(***************************************************************************)
(* What holds of CronScheduler for any number of engines, triggers, jobs   *)
(* and fibers, any lease, timeout and limit.  TypeOK alone is not          *)
(* inductive: a release wakes the head of a queue, so the queues must hold *)
(* fibers that wait there, each once.                                      *)
(***************************************************************************)
EXTENDS CronScheduler, SequenceTheorems, FiniteSetTheorems,
        WellFoundedInduction, TLAPS

----------------------------------------------------------------------------
(* The planners: what plan.next and the skip loop return, for every plan. *)

\* A set of instants has a first one.
LEMMA LeastInSet ==
    ASSUME NEW S \in SUBSET Nat, S # {}
    PROVE  Least(S) \in S /\ \A n \in S : Least(S) <= n
<1> DEFINE R == {ss \in Nat \X Nat : ss[1] < ss[2]}
<1>1. IsWellFoundedOn(R, Nat)
  BY NatLessThanWellFounded, Zenon DEF OpToRel
<1> HIDE DEF R
<1>2. PICK m \in S : \A n \in S : ~ (<<n, m>> \in R)
  BY <1>1, WFMin
<1>3. \A n \in S : m <= n
  <2> SUFFICES ASSUME NEW n \in S PROVE m <= n
    OBVIOUS
  <2>1. ~ (<<n, m>> \in R)
    BY <1>2
  <2>2. n < m => <<n, m>> \in R
    BY DEF R
  <2> QED
    BY <2>1, <2>2
<1> QED
  BY <1>3 DEF Least

\* The least element, unless there is none.
LEMMA FirstInType ==
    ASSUME NEW S \in SUBSET Nat
    PROVE  FirstIn(S) \in S \cup {NoTime}
BY LeastInSet DEF FirstIn

\* The instants a search from `after` may answer with.
Within(occ, endAt, after) ==
    {m \in occ : after < m /\ m <= after + SearchLimit /\ m <= endAt}

LEMMA WithinIs ==
    ASSUME NEW occ \in SUBSET Nat, NEW endAt, NEW after
    PROVE  /\ Within(occ, endAt, after) \in SUBSET Nat
           /\ \A m : m \in Within(occ, endAt, after) <=>
                  m \in occ /\ after < m /\ m <= after + SearchLimit /\ m <= endAt
           /\ NextMatch(occ, endAt, after) =
                  IF Within(occ, endAt, after) # {} THEN Least(Within(occ, endAt, after))
                  ELSE IF endAt < after + SearchLimit THEN NoTime
                  ELSE GaveUp
BY DEF Within, NextMatch

\* plan.next yields an occurrence of the plan, or undefined, or throws.
THEOREM PlanNextType ==
    ASSUME NEW kind, NEW occ \in SUBSET Nat, NEW endAt, NEW after
    PROVE  PlanNext(kind, occ, endAt, after) \in occ \cup {NoTime, GaveUp}
<1>1. NextMatch(occ, endAt, after) \in occ \cup {NoTime, GaveUp}
  <2> DEFINE W == Within(occ, endAt, after)
  <2>1. W # {} => Least(W) \in occ
    <3>1. W \in SUBSET Nat /\ W \subseteq occ
      BY WithinIs
    <3> HIDE DEF W
    <3> QED
      BY <3>1, LeastInSet
  <2> QED
    BY <2>1, WithinIs
<1>2. FirstIn({m \in occ : after <= m /\ m <= endAt}) \in occ \cup {NoTime}
  <2> DEFINE S == {m \in occ : after <= m /\ m <= endAt}
  <2>1. S \in SUBSET Nat /\ S \subseteq occ
    OBVIOUS
  <2> HIDE DEF S
  <2>2. FirstIn(S) \in S \cup {NoTime}
    BY <2>1, FirstInType
  <2>3. FirstIn(S) \in occ \cup {NoTime}
    BY <2>1, <2>2
  <2> QED
    BY <2>3 DEF S
<1> QED
  BY <1>1, <1>2 DEF PlanNext

----------------------------------------------------------------------------
(* The search of a cron plan, second after second. *)

\* The values of the search with i turns left.
SearchRun(occ, endAt, after, g) ==
    g = [i \in 0..SearchLimit |->
            LET candidate == after + SearchLimit - i + 1
            IN  IF i = 0 THEN GaveUp
                ELSE IF candidate > endAt THEN NoTime
                ELSE IF candidate \in occ THEN candidate
                ELSE g[i - 1]]

LEMMA SearchLoopIs ==
    ASSUME NEW occ, NEW endAt, NEW after \in Nat,
           NEW h, SearchRun(occ, endAt, after, h)
    PROVE  CronSearch(occ, endAt, after) = h[SearchLimit]
<1>0. SearchLimit \in Nat \ {0}
  BY SearchAssumption
<1> DEFINE g == CHOOSE g : SearchRun(occ, endAt, after, g)
<1>1. CronSearch(occ, endAt, after) = g[SearchLimit]
  BY DEF CronSearch, SearchRun
<1>2. SearchRun(occ, endAt, after, g)
  OBVIOUS
<1> HIDE DEF g
<1> DEFINE Is(f, i) ==
              f[i] = IF i = 0 THEN GaveUp
                     ELSE IF after + SearchLimit - i + 1 > endAt THEN NoTime
                     ELSE IF after + SearchLimit - i + 1 \in occ
                          THEN after + SearchLimit - i + 1
                     ELSE f[i - 1]
<1>3. \A i \in 0..SearchLimit : Is(g, i) /\ Is(h, i)
  BY <1>2 DEF SearchRun
<1> DEFINE S == {i \in 0..SearchLimit : g[i] # h[i]}
<1>4. S = {}
  <2> SUFFICES ASSUME S # {} PROVE FALSE
    OBVIOUS
  <2> DEFINE m == Least(S)
  <2>1. m \in S /\ \A i \in S : m <= i
    <3>1. S \in SUBSET Nat
      OBVIOUS
    <3> HIDE DEF S
    <3> QED
      BY <3>1, LeastInSet
  <2> HIDE DEF m
  <2>2. m \in 0..SearchLimit /\ g[m] # h[m]
    BY <2>1
  <2>3. m # 0
    BY <1>3, <2>2
  <2>4. m - 1 \in 0..SearchLimit /\ ~ (m <= m - 1)
    BY <1>0, <2>2, <2>3
  <2>5. g[m - 1] = h[m - 1]
    BY <2>1, <2>4
  <2> QED
    BY <1>3, <2>2, <2>3, <2>5
<1>5. SearchLimit \in 0..SearchLimit
  BY <1>0
<1> QED
  BY <1>1, <1>4, <1>5

\* The search of cron.ts yields the first occurrence of the next SearchLimit
\* seconds, undefined if endAt is behind before any, and throws otherwise.
THEOREM CronSearchFinds ==
    ASSUME NEW occ \in SUBSET Nat, NEW endAt \in Nat, NEW after \in Nat
    PROVE  CronSearch(occ, endAt, after) = NextMatch(occ, endAt, after)
<1>0. SearchLimit \in Nat \ {0}
  BY SearchAssumption
<1> DEFINE Left(i) == {m \in occ : after + SearchLimit - i < m
                                   /\ m <= after + SearchLimit /\ m <= endAt}
           Val(i) == IF i = 0 THEN GaveUp
                     ELSE IF Left(i) # {} THEN Least(Left(i))
                     ELSE IF endAt < after + SearchLimit THEN NoTime
                     ELSE GaveUp
           h == [i \in 0..SearchLimit |-> Val(i)]
<1>1. ASSUME NEW i \in 0..SearchLimit
      PROVE  Val(i) = IF i = 0 THEN GaveUp
                      ELSE IF after + SearchLimit - i + 1 > endAt THEN NoTime
                      ELSE IF after + SearchLimit - i + 1 \in occ
                           THEN after + SearchLimit - i + 1
                      ELSE Val(i - 1)
  <2> DEFINE c == after + SearchLimit - i + 1
  <2>1. CASE i = 0
    BY <2>1
  <2>2. CASE i # 0 /\ c > endAt
    <3>1. \A m \in Nat : after + SearchLimit - i < m => ~ (m <= endAt)
      BY <1>0, <2>2
    <3>2. Left(i) = {}
      BY <3>1
    <3>3. endAt < after + SearchLimit
      BY <1>0, <2>2
    <3> QED
      BY <2>2, <3>2, <3>3
  <2>3. CASE i # 0 /\ c <= endAt /\ c \in occ
    <3>1. c \in Left(i) /\ c \in Nat /\ \A n \in Left(i) : c <= n
      BY <1>0, <2>3
    <3>2. Left(i) \in SUBSET Nat
      OBVIOUS
    <3> HIDE DEF Left, c
    <3>3. Least(Left(i)) \in Left(i) /\ Least(Left(i)) <= c /\ c <= Least(Left(i))
      BY <3>1, <3>2, LeastInSet
    <3>4. Least(Left(i)) = c
      BY <3>1, <3>2, <3>3
    <3>5. Val(i) = c
      BY <2>3, <3>1, <3>4
    <3> QED
      BY <1>0, <2>3, <3>1, <3>5 DEF c
  <2>4. CASE i # 0 /\ c <= endAt /\ c \notin occ
    <3>1. i - 1 \in 0..SearchLimit
      BY <1>0, <2>4
    <3>2. ASSUME NEW m \in Nat, m # c
          PROVE  after + SearchLimit - i < m <=> after + SearchLimit - (i - 1) < m
      BY <1>0, <3>2
    <3>3. \A m : m \in Left(i) <=> m \in Left(i - 1)
      BY <2>4, <3>2
    <3>4. Left(i) = Left(i - 1)
      <4> HIDE DEF Left
      <4> QED
        BY <3>3
    <3>5. i = 1 => Left(i) = {} /\ ~ (endAt < after + SearchLimit)
      <4> SUFFICES ASSUME i = 1 PROVE Left(1) = {} /\ ~ (endAt < after + SearchLimit)
        OBVIOUS
      <4>1. c = after + SearchLimit
        BY <1>0
      <4>2. \A m \in Nat : after + SearchLimit - 1 < m /\ m <= after + SearchLimit => m = c
        BY <1>0, <4>1
      <4>3. \A m \in occ : m \in Nat
        OBVIOUS
      <4>4. Left(1) = {}
        <5> HIDE DEF c
        <5> QED
          BY <2>4, <4>2, <4>3
      <4>5. ~ (endAt < after + SearchLimit)
        BY <1>0, <2>4, <4>1
      <4> QED
        BY <4>4, <4>5
    <3> HIDE DEF Left
    <3>6. Val(i) = Val(i - 1)
      BY <2>4, <3>1, <3>4, <3>5
    <3> QED
      BY <1>0, <2>4, <3>6
  <2> QED
    <3>1. c \in Int
      BY <1>0
    <3> QED
      BY <2>1, <2>2, <2>3, <2>4, <3>1
<1>2. SearchRun(occ, endAt, after, h)
  <2> HIDE DEF Val
  <2>1. \A i \in 0..SearchLimit : h[i] = Val(i) /\ (i # 0 => h[i - 1] = Val(i - 1))
    BY <1>0
  <2>2. h = [i \in 0..SearchLimit |-> h[i]]
    OBVIOUS
  <2> HIDE DEF h
  <2>3. \A i \in 0..SearchLimit :
            h[i] = IF i = 0 THEN GaveUp
                   ELSE IF after + SearchLimit - i + 1 > endAt THEN NoTime
                   ELSE IF after + SearchLimit - i + 1 \in occ
                        THEN after + SearchLimit - i + 1
                   ELSE h[i - 1]
    BY <1>1, <2>1
  <2> QED
    BY <2>2, <2>3 DEF SearchRun
<1>3. CronSearch(occ, endAt, after) = h[SearchLimit]
  <2> HIDE DEF h
  <2> QED
    BY <1>2, SearchLoopIs
<1>4. h[SearchLimit] = Val(SearchLimit)
  <2> HIDE DEF Val
  <2> QED
    BY <1>0
<1>5. Left(SearchLimit) = Within(occ, endAt, after)
  <2>1. after + SearchLimit - SearchLimit = after
    BY <1>0
  <2> QED
    BY <2>1 DEF Within
<1> HIDE DEF h, Left
<1> QED
  BY <1>0, <1>3, <1>4, <1>5, WithinIs

----------------------------------------------------------------------------
\* A finite set of instants has a last one: the one with the fewest others
\* after it.
LEMMA GreatestInSet ==
    ASSUME NEW S \in SUBSET Nat, IsFiniteSet(S), S # {}
    PROVE  \E m \in S : \A n \in S : n <= m
<1> DEFINE After(m) == {n \in S : m < n}
           Tails == {After(m) : m \in S}
           R == StrictSubsetOrdering(S)
<1>1. IsWellFoundedOn(R, SUBSET S)
  BY FS_StrictSubsetOrderingWellFounded, FS_FiniteSubsetsOfFinite
<1>2. Tails \subseteq SUBSET S /\ Tails # {}
  OBVIOUS
<1>3. PICK T \in Tails : \A U \in Tails : ~ (<<U, T>> \in R)
  <2> HIDE DEF Tails, R
  <2> QED
    BY <1>1, <1>2, WFMin
<1>4. PICK m \in S : T = After(m)
  BY <1>3
<1>5. \A n \in S : n <= m
  <2> SUFFICES ASSUME NEW n \in S, m < n PROVE FALSE
    OBVIOUS
  <2>1. n \in After(m) /\ n \notin After(n)
    OBVIOUS
  <2>a. \A k \in S : n < k => m < k
    OBVIOUS
  <2>b. After(n) \subseteq After(m)
    BY <2>a
  <2>2. <<After(n), T>> \in R
    BY <2>1, <2>b, <1>4 DEF StrictSubsetOrdering
  <2> QED
    BY <2>2, <1>3
<1> QED
  BY <1>5

----------------------------------------------------------------------------
(* The skip loop.  The closed form with a bound of one more is the closed  *)
(* form after one turn more, so that the two agree.                        *)

EarlierIn(L, m) == {n \in L : n < m}
SeenIn(L, i) == {m \in L : Cardinality(EarlierIn(L, m)) < i}
FreshIn(L, i, at, tolerance) == {m \in SeenIn(L, i) : at - m <= tolerance}
Following(L, m) == {x \in L : x > m}

LEMMA SeenIs ==
    /\ \A L, m : \A x : x \in EarlierIn(L, m) <=> x \in L /\ x < m
    /\ \A L, i : \A x : x \in SeenIn(L, i) <=> x \in L /\ Cardinality(EarlierIn(L, x)) < i
BY DEF EarlierIn, SeenIn

\* What the skip of a cron plan finds among the occurrences L after `from`.
SkipAmong(L, at, tolerance, i) ==
    IF FreshIn(L, i, at, tolerance) # {} THEN Least(FreshIn(L, i, at, tolerance))
    ELSE IF Cardinality(L) < i THEN NoTime
    ELSE Greatest(SeenIn(L, i))

\* A later occurrence has more before it, and the next one has one more.
LEMMA RanksGrow ==
    ASSUME NEW L \in SUBSET Nat, IsFiniteSet(L)
    PROVE  /\ \A m \in L : Cardinality(EarlierIn(L, m)) \in Nat
           /\ \A m \in L : Cardinality(EarlierIn(L, m)) < Cardinality(L)
           /\ \A m, n \in L : m < n => Cardinality(EarlierIn(L, m)) < Cardinality(EarlierIn(L, n))
           /\ \A m \in L : \A n \in Nat :
                m < n /\ (\A x \in L : x <= m \/ n <= x)
                    => Cardinality(EarlierIn(L, n)) = Cardinality(EarlierIn(L, m)) + 1
<1>0. \A x \in L : x \in Nat
  OBVIOUS
<1>1. \A n \in Nat : IsFiniteSet(EarlierIn(L, n)) /\ Cardinality(EarlierIn(L, n)) \in Nat
  <2> TAKE n \in Nat
  <2>1. EarlierIn(L, n) \in SUBSET L
    BY DEF EarlierIn
  <2> QED
    BY <2>1, FS_Subset, FS_CardinalityType
<1>2. Cardinality(L) \in Nat
  BY FS_CardinalityType
<1>3. ASSUME NEW m \in L PROVE Cardinality(EarlierIn(L, m)) < Cardinality(L)
  <2>1. EarlierIn(L, m) \in SUBSET L /\ EarlierIn(L, m) # L
    BY DEF EarlierIn
  <2> QED
    BY <1>1, <1>2, <2>1, FS_Subset
<1>4. ASSUME NEW m \in L, NEW n \in L, m < n
      PROVE  Cardinality(EarlierIn(L, m)) < Cardinality(EarlierIn(L, n))
  <2>1. ASSUME NEW x \in EarlierIn(L, m) PROVE x \in EarlierIn(L, n)
    <3>1. x \in L /\ x < m
      BY SeenIs
    <3>2. x < n
      BY <1>0, <1>4, <3>1
    <3> QED
      BY <3>1, <3>2, SeenIs
  <2>2. m \in EarlierIn(L, n) /\ m \notin EarlierIn(L, m)
    BY <1>0, <1>4, SeenIs
  <2>3. EarlierIn(L, m) \in SUBSET EarlierIn(L, n) /\ EarlierIn(L, m) # EarlierIn(L, n)
    BY <2>1, <2>2
  <2>4. IsFiniteSet(EarlierIn(L, n))
    BY <1>1
  <2> QED
    BY <1>1, <2>3, <2>4, FS_Subset
<1>5. ASSUME NEW m \in L, NEW n \in Nat, m < n, \A x \in L : x <= m \/ n <= x
      PROVE  Cardinality(EarlierIn(L, n)) = Cardinality(EarlierIn(L, m)) + 1
  <2>1. EarlierIn(L, n) = EarlierIn(L, m) \cup {m} /\ m \notin EarlierIn(L, m)
    <3>0. \A x \in L : x < n <=> x < m \/ x = m
      BY <1>0, <1>5
    <3>1. \A x : x \in EarlierIn(L, n) <=> x \in EarlierIn(L, m) \/ x = m
      BY <3>0, SeenIs
    <3>2. m \notin EarlierIn(L, m)
      BY <1>0, SeenIs
    <3> QED
      BY <3>1, <3>2
  <2>2. IsFiniteSet(EarlierIn(L, m))
    BY <1>1
  <2> QED
    BY <2>1, <2>2, FS_AddElement
<1> QED
  BY <1>1, <1>3, <1>4, <1>5

\* What is seen in some turns comes before what is not, and is everything if
\* there are more turns than occurrences.
LEMMA SeenIsFirst ==
    ASSUME NEW L \in SUBSET Nat, IsFiniteSet(L), NEW i \in Nat \ {0}
    PROVE  /\ SeenIn(L, i) \subseteq SeenIn(L, i + 1)
           /\ \A m \in SeenIn(L, i), n \in L \ SeenIn(L, i) : m < n
           /\ Cardinality(L) < i => SeenIn(L, i) = L
           /\ ~ (Cardinality(L) < i) => /\ SeenIn(L, i) # {}
                                        /\ Greatest(SeenIn(L, i)) \in SeenIn(L, i)
                                        /\ \A n \in SeenIn(L, i) : n <= Greatest(SeenIn(L, i))
<1>1. \A m \in L : Cardinality(EarlierIn(L, m)) \in Nat
  BY RanksGrow
<1>2. Cardinality(L) \in Nat
  BY FS_CardinalityType
<1>3. SeenIn(L, i) \subseteq SeenIn(L, i + 1)
  <2> SUFFICES ASSUME NEW x \in SeenIn(L, i) PROVE x \in SeenIn(L, i + 1)
    OBVIOUS
  <2>1. x \in L /\ Cardinality(EarlierIn(L, x)) \in Nat /\ Cardinality(EarlierIn(L, x)) < i
    BY <1>1, SeenIs
  <2>2. Cardinality(EarlierIn(L, x)) < i + 1
    BY <2>1
  <2> QED
    BY <2>1, <2>2, SeenIs
<1>4. ASSUME NEW m \in SeenIn(L, i), NEW n \in L \ SeenIn(L, i) PROVE m < n
  <2>1. m \in L /\ n \in L /\ m \in Nat /\ n \in Nat /\ m # n
    BY DEF SeenIn
  <2>2. Cardinality(EarlierIn(L, m)) < i /\ ~ (Cardinality(EarlierIn(L, n)) < i)
    BY DEF SeenIn
  <2>3. n < m => Cardinality(EarlierIn(L, n)) < Cardinality(EarlierIn(L, m))
    BY <2>1, RanksGrow
  <2> QED
    BY <1>1, <2>1, <2>2, <2>3
<1>5. Cardinality(L) < i => SeenIn(L, i) = L
  <2> SUFFICES ASSUME Cardinality(L) < i, NEW m \in L PROVE Cardinality(EarlierIn(L, m)) < i
    BY DEF SeenIn
  <2>1. Cardinality(EarlierIn(L, m)) < Cardinality(L)
    BY RanksGrow
  <2> QED
    BY <1>1, <1>2, <2>1
<1>6. ASSUME ~ (Cardinality(L) < i)
      PROVE  /\ SeenIn(L, i) # {}
             /\ Greatest(SeenIn(L, i)) \in SeenIn(L, i)
             /\ \A n \in SeenIn(L, i) : n <= Greatest(SeenIn(L, i))
  <2>1. L # {}
    BY <1>2, <1>6, FS_EmptySet
  <2>2. Least(L) \in L /\ \A n \in L : Least(L) <= n
    BY <2>1, LeastInSet
  <2>3. EarlierIn(L, Least(L)) = {}
    <3> SUFFICES ASSUME NEW x \in EarlierIn(L, Least(L)) PROVE FALSE
      OBVIOUS
    <3>1. x \in L /\ x < Least(L)
      BY SeenIs
    <3>2. x \in Nat /\ Least(L) \in Nat /\ Least(L) <= x
      BY <2>2, <3>1
    <3> QED
      BY <3>1, <3>2
  <2>4. Least(L) \in SeenIn(L, i)
    BY <2>2, <2>3, FS_EmptySet DEF SeenIn
  <2>5. SeenIn(L, i) \in SUBSET L /\ SeenIn(L, i) \in SUBSET Nat
    BY DEF SeenIn
  <2>6. \E m \in SeenIn(L, i) : \A n \in SeenIn(L, i) : n <= m
    BY <2>4, <2>5, FS_Subset, GreatestInSet
  <2> QED
    BY <2>4, <2>6 DEF Greatest
<1> QED
  BY <1>3, <1>4, <1>5, <1>6

\* The next occurrence after the last one seen is seen with one turn more,
\* and is the last one then.
LEMMA OneMoreSeen ==
    ASSUME NEW L \in SUBSET Nat, IsFiniteSet(L), NEW i \in Nat \ {0}, ~ (Cardinality(L) < i),
           NEW m, m = Greatest(SeenIn(L, i)), NEW A, A = {x \in L : x > m}
    PROVE  /\ A = {} => Cardinality(L) < i + 1
           /\ A # {} => /\ SeenIn(L, i + 1) = SeenIn(L, i) \cup {Least(A)}
                        /\ ~ (Cardinality(L) < i + 1)
                        /\ Greatest(SeenIn(L, i + 1)) = Least(A)
<1>0. (\A x : x \in A <=> x \in L /\ x > m) /\ (\A x \in L : x \in Nat)
  OBVIOUS
<1>1. m \in SeenIn(L, i) /\ \A n \in SeenIn(L, i) : n <= m
  BY SeenIsFirst
<1>2. m \in L /\ m \in Nat /\ Cardinality(EarlierIn(L, m)) \in Nat /\ Cardinality(EarlierIn(L, m)) < i
  BY <1>1, RanksGrow DEF SeenIn
<1>3. Cardinality(L) \in Nat
  BY FS_CardinalityType
<1>4. ASSUME A = {} PROVE Cardinality(L) < i + 1
  <2>1. L = EarlierIn(L, m) \cup {m} /\ m \notin EarlierIn(L, m)
    <3>1. \A x \in L : x = m \/ x < m
      BY <1>0, <1>2, <1>4
    <3>2. \A x : x \in L <=> x \in EarlierIn(L, m) \/ x = m
      BY <1>2, <3>1, SeenIs
    <3>3. m \notin EarlierIn(L, m)
      BY <1>2, SeenIs
    <3> QED
      BY <3>2, <3>3
  <2>2. IsFiniteSet(EarlierIn(L, m))
    BY FS_Subset DEF EarlierIn
  <2>3. Cardinality(L) = Cardinality(EarlierIn(L, m)) + 1
    BY <2>1, <2>2, FS_AddElement
  <2> QED
    BY <1>2, <2>3
<1>5. ASSUME A # {}
      PROVE  /\ SeenIn(L, i + 1) = SeenIn(L, i) \cup {Least(A)}
             /\ ~ (Cardinality(L) < i + 1)
             /\ Greatest(SeenIn(L, i + 1)) = Least(A)
  <2> DEFINE x == Least(A)
  <2>1. x \in A /\ \A n \in A : x <= n
    <3>1. A \in SUBSET Nat
      OBVIOUS
    <3> HIDE DEF x
    <3> QED
      BY <1>5, <3>1, LeastInSet DEF x
  <2> HIDE DEF x
  <2>2. x \in L /\ x \in Nat /\ m < x /\ x \notin SeenIn(L, i)
    <3>1. x \in L /\ x \in Nat /\ x > m
      BY <1>0, <2>1
    <3> QED
      BY <1>1, <1>2, <3>1
  <2>3. \A n \in L : n <= m \/ x <= n
    BY <1>0, <1>2, <2>1
  <2>4. Cardinality(EarlierIn(L, x)) = Cardinality(EarlierIn(L, m)) + 1
    BY <1>2, <2>2, <2>3, RanksGrow
  <2>5. Cardinality(EarlierIn(L, x)) = i
    <3>1. ~ (Cardinality(EarlierIn(L, x)) < i)
      BY <2>2 DEF SeenIn
    <3> QED
      BY <1>2, <2>4, <3>1
  <2>6. ASSUME NEW n \in SeenIn(L, i + 1) PROVE n \in SeenIn(L, i) \/ n = x
    <3>1. n \in L /\ n \in Nat /\ Cardinality(EarlierIn(L, n)) < i + 1
      BY DEF SeenIn
    <3>2. x < n => i < Cardinality(EarlierIn(L, n))
      BY <2>2, <2>5, <3>1, RanksGrow
    <3>3. n <= x
      BY <2>2, <3>1, <3>2, RanksGrow
    <3>4. n # x => n < x /\ Cardinality(EarlierIn(L, n)) < i
      BY <2>2, <2>5, <3>1, <3>3, RanksGrow
    <3> QED
      BY <3>1, <3>4 DEF SeenIn
  <2>7. SeenIn(L, i) \subseteq SeenIn(L, i + 1) /\ x \in SeenIn(L, i + 1)
    <3>1. Cardinality(EarlierIn(L, x)) < i + 1
      BY <2>5
    <3> QED
      BY <2>2, <3>1, SeenIs, SeenIsFirst
  <2>8. SeenIn(L, i + 1) = SeenIn(L, i) \cup {x}
    BY <2>6, <2>7
  <2>9. ~ (Cardinality(L) < i + 1)
    <3>1. Cardinality(EarlierIn(L, x)) < Cardinality(L)
      BY <2>2, RanksGrow
    <3> QED
      BY <1>3, <2>5, <3>1
  <2>10. Greatest(SeenIn(L, i + 1)) = x
    <3>1. \A n \in SeenIn(L, i + 1) : n <= x /\ n \in Nat
      BY <1>1, <1>2, <2>2, <2>8 DEF SeenIn
    <3>2. /\ Greatest(SeenIn(L, i + 1)) \in SeenIn(L, i + 1)
          /\ x <= Greatest(SeenIn(L, i + 1))
      BY <2>7, <2>9, SeenIsFirst
    <3> QED
      BY <2>2, <3>1, <3>2
  <2> QED
    BY <2>8, <2>9, <2>10 DEF x
<1> QED
  BY <1>4, <1>5

\* One turn more.
LEMMA SkipsOneMore ==
    ASSUME NEW L \in SUBSET Nat, IsFiniteSet(L), NEW i \in Nat \ {0},
           NEW at \in Nat, NEW tolerance \in Nat
    PROVE  LET m == SkipAmong(L, at, tolerance, i)
           IN  /\ m \in L \cup {NoTime}
               /\ SkipAmong(L, at, tolerance, i + 1)
                    = IF m = NoTime \/ at - m <= tolerance THEN m
                      ELSE FirstIn(Following(L, m))
<1> DEFINE m == SkipAmong(L, at, tolerance, i)
           F == FreshIn(L, i, at, tolerance)
           G == FreshIn(L, i + 1, at, tolerance)
<1>1. /\ F \subseteq SeenIn(L, i) /\ F \subseteq G /\ SeenIn(L, i) \subseteq L
      /\ F \in SUBSET Nat /\ G \in SUBSET Nat
  BY SeenIsFirst DEF FreshIn, SeenIn
<1>2. \A x \in SeenIn(L, i + 1) : x \in G <=> at - x <= tolerance
  BY DEF FreshIn
<1>3. \A x \in SeenIn(L, i) : x \in F <=> at - x <= tolerance
  BY DEF FreshIn
<1>4. G \subseteq SeenIn(L, i + 1)
  BY DEF FreshIn
<1>5. \A x \in L : x # NoTime /\ x \in Nat
  BY DEF NoTime
<1>6. /\ m = IF F # {} THEN Least(F) ELSE IF Cardinality(L) < i THEN NoTime
             ELSE Greatest(SeenIn(L, i))
      /\ SkipAmong(L, at, tolerance, i + 1)
            = IF G # {} THEN Least(G) ELSE IF Cardinality(L) < i + 1 THEN NoTime
              ELSE Greatest(SeenIn(L, i + 1))
  BY DEF SkipAmong
<1> SUFFICES /\ m \in L \cup {NoTime}
             /\ SkipAmong(L, at, tolerance, i + 1)
                  = IF m = NoTime \/ at - m <= tolerance THEN m
                    ELSE FirstIn(Following(L, m))
  OBVIOUS
<1> HIDE DEF F, G, m
<1>7. CASE F # {}
  <2>1. m \in F /\ \A n \in F : m <= n
    BY <1>1, <1>6, <1>7, LeastInSet
  <2>2. Least(G) \in G /\ \A n \in G : Least(G) <= n
    BY <1>1, <1>7, LeastInSet
  <2>3. Least(G) \in F
    <3> SUFFICES ASSUME Least(G) \notin F PROVE FALSE
      OBVIOUS
    <3>1. Least(G) \in L /\ at - Least(G) <= tolerance
      BY <1>2, <1>4, <2>2 DEF SeenIn
    <3>2. Least(G) \notin SeenIn(L, i)
      BY <1>3, <3>1
    <3>3. m < Least(G)
      BY <1>1, <2>1, <3>1, <3>2, SeenIsFirst
    <3>4. Least(G) <= m
      BY <1>1, <2>1, <2>2
    <3>5. m \in Nat /\ Least(G) \in Nat
      BY <1>1, <2>1, <2>2
    <3> QED
      BY <3>3, <3>4, <3>5
  <2>4. Least(G) = m
    <3>1. m <= Least(G) /\ Least(G) <= m
      BY <1>1, <2>1, <2>2, <2>3
    <3>2. m \in Nat /\ Least(G) \in Nat
      BY <1>1, <2>1, <2>2
    <3> QED
      BY <3>1, <3>2
  <2>5. at - m <= tolerance
    BY <1>1, <1>3, <2>1
  <2> QED
    BY <1>1, <1>6, <1>7, <2>1, <2>4, <2>5
<1>8. CASE F = {} /\ Cardinality(L) < i
  <2>1. SeenIn(L, i) = L /\ SeenIn(L, i + 1) = L
    <3>1. SeenIn(L, i) = L /\ SeenIn(L, i) \subseteq SeenIn(L, i + 1)
      BY <1>8, SeenIsFirst
    <3>2. SeenIn(L, i + 1) \subseteq L
      BY SeenIs
    <3> QED
      BY <3>1, <3>2
  <2>2. G = {}
    BY <1>2, <1>3, <1>4, <1>8, <2>1
  <2>3. Cardinality(L) < i + 1
    BY <1>8, FS_CardinalityType
  <2> QED
    BY <1>6, <1>8, <2>2, <2>3
<1>9. CASE F = {} /\ ~ (Cardinality(L) < i)
  <2> DEFINE A == {x \in L : x > m}
  <2>1. m = Greatest(SeenIn(L, i)) /\ m \in SeenIn(L, i) /\ m \in L
    BY <1>1, <1>6, <1>9, SeenIsFirst
  <2>2. m # NoTime /\ ~ (at - m <= tolerance)
    BY <1>3, <1>5, <1>9, <2>1
  <2>3. /\ A = {} => Cardinality(L) < i + 1
        /\ A # {} => /\ SeenIn(L, i + 1) = SeenIn(L, i) \cup {Least(A)}
                     /\ ~ (Cardinality(L) < i + 1)
                     /\ Greatest(SeenIn(L, i + 1)) = Least(A)
    BY <1>9, <2>1, OneMoreSeen
  <2>4. A = {} => SeenIn(L, i + 1) = L
    BY <2>3, SeenIsFirst
  <2>5. A = {} => SeenIn(L, i) = L
    <3> SUFFICES ASSUME A = {}, NEW n \in L, n \notin SeenIn(L, i) PROVE FALSE
      BY <1>1
    <3>1. m < n
      BY <2>1, SeenIsFirst
    <3> QED
      BY <1>5, <2>1, <3>1
  <2>6. CASE A = {}
    <3>1. G = {}
      BY <1>2, <1>3, <1>4, <1>9, <2>4, <2>5, <2>6
    <3> QED
      BY <1>6, <2>1, <2>2, <2>3, <2>6, <3>1 DEF FirstIn, Following
  <2>7. CASE A # {}
    <3> HIDE DEF A
    <3>1. G \subseteq {Least(A)}
      BY <1>2, <1>3, <1>4, <1>9, <2>3, <2>7
    <3>2. G # {} => Least(G) = Least(A)
      <4> SUFFICES ASSUME G # {} PROVE Least(G) = Least(A)
        OBVIOUS
      <4>1. Least(G) \in G
        BY <1>1, LeastInSet
      <4> QED
        BY <3>1, <4>1
    <3>3. SkipAmong(L, at, tolerance, i + 1) = Least(A)
      BY <1>6, <2>3, <2>7, <3>2
    <3>4. FirstIn(A) = Least(A)
      BY <2>7 DEF FirstIn
    <3> QED
      BY <2>1, <2>2, <3>3, <3>4 DEF A, Following
  <2> QED
    BY <2>6, <2>7
<1> QED
  BY <1>7, <1>8, <1>9

\* In one turn the skip finds the first occurrence.
LEMMA SkipAmongFirst ==
    ASSUME NEW L \in SUBSET Nat, IsFiniteSet(L), NEW at \in Nat, NEW tolerance \in Nat
    PROVE  SkipAmong(L, at, tolerance, 1) = FirstIn(L)
<1>1. Cardinality(L) \in Nat /\ (Cardinality(L) < 1 <=> L = {})
  <2>1. Cardinality(L) \in Nat
    BY FS_CardinalityType
  <2>2. Cardinality(L) = 0 <=> L = {}
    BY FS_EmptySet
  <2> QED
    BY <2>1, <2>2
<1>2. CASE L = {}
  <2>1. FreshIn(L, 1, at, tolerance) = {}
    BY <1>2 DEF FreshIn, SeenIn
  <2> QED
    BY <1>1, <1>2, <2>1 DEF SkipAmong, FirstIn
<1>3. CASE L # {}
  <2>1. Least(L) \in L /\ \A n \in L : Least(L) <= n
    BY <1>3, LeastInSet
  <2>2. SeenIn(L, 1) # {}
    BY <1>1, <1>3, SeenIsFirst
  <2>3. ASSUME NEW n \in SeenIn(L, 1) PROVE n = Least(L)
    <3>1. n \in L /\ n \in Nat /\ Least(L) \in Nat /\ Cardinality(EarlierIn(L, n)) < 1
      BY <2>1, SeenIs
    <3>2. /\ Cardinality(EarlierIn(L, n)) \in Nat /\ Cardinality(EarlierIn(L, Least(L))) \in Nat
          /\ Least(L) < n => Cardinality(EarlierIn(L, Least(L))) < Cardinality(EarlierIn(L, n))
      BY <2>1, <3>1, RanksGrow
    <3>3. Least(L) <= n /\ ~ (Least(L) < n)
      BY <2>1, <3>1, <3>2
    <3> QED
      BY <3>1, <3>3
  <2>4. SeenIn(L, 1) = {Least(L)}
    BY <2>2, <2>3
  <2>5. FreshIn(L, 1, at, tolerance) \subseteq {Least(L)}
    BY <2>4 DEF FreshIn
  <2>6. Greatest({Least(L)}) = Least(L) /\ Least({Least(L)}) = Least(L)
    <3>1. Least(L) \in Nat /\ {Least(L)} \in SUBSET Nat
      BY <2>1
    <3>2. Least({Least(L)}) \in {Least(L)}
      BY <3>1, LeastInSet
    <3>3. \E m \in {Least(L)} : \A n \in {Least(L)} : n <= m
      BY <3>1
    <3> QED
      BY <3>2, <3>3 DEF Greatest
  <2>7. FreshIn(L, 1, at, tolerance) # {} => FreshIn(L, 1, at, tolerance) = {Least(L)}
    BY <2>5
  <2> QED
    BY <1>1, <1>3, <2>4, <2>6, <2>7 DEF SkipAmong, FirstIn
<1> QED
  BY <1>2, <1>3

\* The occurrences a cron plan's searches come to, one after the other: each
\* search yields the next of them, and the one from the last yields none or
\* throws.
LEMMA WayNext ==
    ASSUME NEW occ \in SUBSET Nat, NEW endAt \in Nat, NEW from \in Nat,
           NEW way, way = Reached(occ, endAt, from), NEW y \in way \cup {from}
    PROVE  /\ Following(way, y) # {} =>
                NextMatch(occ, endAt, y) = Least(Following(way, y))
           /\ Following(way, y) = {} =>
                NextMatch(occ, endAt, y) \in {NoTime, GaveUp}
<1> DEFINE Answer(x) == NextMatch(occ, endAt, x)
           W == Within(occ, endAt, y)
           F == Following(way, y)
<1>0. SearchLimit \in Nat
  BY SearchAssumption
<1>1. \A m : m \in way <=>
          /\ m \in occ /\ from < m /\ m <= endAt
          /\ \A x \in occ \cup {from} : from <= x /\ x < m => Answer(x) # GaveUp
  BY DEF Reached
<1>2. \A m : m \in F <=> m \in way /\ y < m
  BY DEF Following
<1>3. \A m : m \in W <=> m \in occ /\ y < m /\ m <= y + SearchLimit /\ m <= endAt
  BY WithinIs
<1>4. Answer(y) = IF W # {} THEN Least(W) ELSE IF endAt < y + SearchLimit THEN NoTime ELSE GaveUp
  BY WithinIs
<1> HIDE DEF Answer, F, W
<1>5. /\ y \in Nat /\ from <= y /\ y \in occ \cup {from}
      /\ F \in SUBSET Nat /\ W \in SUBSET Nat
      /\ \A m \in occ : m \in Nat
  <2>1. \A m \in occ : m \in Nat
    OBVIOUS
  <2>2. y \in Nat /\ from <= y /\ y \in occ \cup {from}
    <3>1. CASE y \in way
      <4>1. y \in occ /\ from < y
        BY <1>1, <3>1, Zenon
      <4> QED
        BY <2>1, <4>1
    <3>2. CASE y = from
      BY <3>2
    <3> QED
      BY <3>1, <3>2
  <2>3. (\A m \in F : m \in Nat) /\ (\A m \in W : m \in Nat)
    BY <1>1, <1>2, <1>3, <2>1
  <2> QED
    BY <2>1, <2>2, <2>3
<1>6. \A x \in occ \cup {from} : from <= x /\ x < y => Answer(x) # GaveUp
  <2>1. CASE y = from
    BY <1>5, <2>1
  <2>2. CASE y \in way
    BY <1>1, <2>2
  <2> QED
    BY <2>1, <2>2
<1>7. ASSUME W # {}, Answer(y) # GaveUp
      PROVE  Least(W) \in F
  <2>1. Least(W) \in W /\ \A n \in W : Least(W) <= n
    BY <1>5, <1>7, LeastInSet
  <2>2. Least(W) \in occ /\ Least(W) \in Nat /\ y < Least(W) /\ Least(W) <= y + SearchLimit
        /\ Least(W) <= endAt
    BY <1>3, <1>5, <2>1
  <2>3. ASSUME NEW x \in occ \cup {from}, from <= x, x < Least(W) PROVE Answer(x) # GaveUp
    <3>1. x \in Nat
      BY <1>5
    <3>2. ~ (y < x)
      <4> SUFFICES ASSUME y < x PROVE FALSE
        OBVIOUS
      <4>1. x \in occ
        BY <1>5
      <4>2. x \in W
        BY <1>0, <1>3, <1>5, <2>2, <2>3, <3>1, <4>1
      <4> QED
        BY <2>1, <2>2, <2>3, <3>1, <4>2
    <3>3. x = y \/ x < y
      BY <1>5, <3>1, <3>2
    <3> QED
      BY <1>6, <1>7, <2>3, <3>3
  <2>4. from < Least(W)
    BY <1>5, <2>2
  <2> QED
    BY <1>1, <1>2, <2>2, <2>3, <2>4
<1>8. ASSUME F # {} PROVE Answer(y) = Least(F)
  <2>1. Least(F) \in F /\ \A n \in F : Least(F) <= n
    BY <1>5, <1>8, LeastInSet
  <2>2. Least(F) \in way /\ y < Least(F) /\ Least(F) \in Nat
    BY <1>2, <1>5, <2>1
  <2>3. Answer(y) # GaveUp
    BY <1>1, <1>5, <2>2
  <2>4. W # {}
    <3> SUFFICES ASSUME W = {} PROVE FALSE
      OBVIOUS
    <3>1. endAt < y + SearchLimit
      BY <1>4, <2>3
    <3>2. Least(F) \in occ /\ Least(F) <= endAt
      BY <1>1, <2>2
    <3>3. Least(F) <= y + SearchLimit
      BY <1>0, <1>5, <2>2, <3>1, <3>2
    <3> QED
      BY <1>3, <2>2, <3>2, <3>3
  <2>5. Least(W) \in F /\ Least(F) <= Least(W)
    BY <1>7, <2>1, <2>3, <2>4
  <2>6. Least(W) \in W /\ \A n \in W : Least(W) <= n
    BY <1>5, <2>4, LeastInSet
  <2>7. Least(W) <= Least(F)
    <3>1. Least(F) \in occ /\ Least(F) <= endAt
      BY <1>1, <2>2
    <3>2. CASE Least(F) <= y + SearchLimit
      BY <1>3, <2>2, <2>6, <3>1, <3>2
    <3>3. CASE ~ (Least(F) <= y + SearchLimit)
      <4>1. Least(W) <= y + SearchLimit /\ Least(W) \in Nat
        BY <1>3, <1>5, <2>6
      <4> QED
        BY <1>0, <1>5, <2>2, <3>3, <4>1
    <3> QED
      BY <3>2, <3>3
  <2>8. Least(W) = Least(F)
    <3>1. Least(W) \in Nat
      BY <1>5, <2>6
    <3> QED
      BY <2>2, <2>5, <2>7, <3>1
  <2> QED
    BY <1>4, <2>4, <2>8
<1>9. ASSUME F = {} PROVE Answer(y) \in {NoTime, GaveUp}
  BY <1>4, <1>7, <1>9
<1> QED
  BY <1>8, <1>9 DEF Answer, F

LEMMA SkipIs ==
    \A occ, endAt, from, at, tolerance, i :
        LET way == Reached(occ, endAt, from)
        IN  SkipTo("cron", occ, endAt, from, at, tolerance, i)
               = IF FreshIn(way, i, at, tolerance) # {}
                 THEN Least(FreshIn(way, i, at, tolerance))
                 ELSE IF Cardinality(way) < i
                      THEN NextMatch(occ, endAt, Greatest(way \cup {from}))
                 ELSE Greatest(SeenIn(way, i))
BY DEF SkipTo, FreshIn, SeenIn, EarlierIn

LEMMA WayType ==
    ASSUME NEW occ \in SUBSET Nat, IsFiniteSet(occ), NEW endAt, NEW from \in Nat,
           NEW way, way = Reached(occ, endAt, from)
    PROVE  /\ way \in SUBSET Nat /\ way \subseteq occ /\ IsFiniteSet(way)
           /\ \A m \in way : from < m
<1>1. way \subseteq occ /\ \A m \in way : from < m
  BY DEF Reached
<1> QED
  BY <1>1, FS_Subset

\* The same in terms of SkipAmong: past the last occurrence the search says
\* whether there are no more or it gives up.
SkipEnd(occ, endAt, from, at, tolerance, i, way) ==
    LET m == SkipAmong(way, at, tolerance, i)
    IN  /\ m \in way \cup {NoTime}
        /\ SkipTo("cron", occ, endAt, from, at, tolerance, i)
              = IF m = NoTime THEN NextMatch(occ, endAt, Greatest(way \cup {from}))
                ELSE m

LEMMA SkipEnds ==
    ASSUME NEW occ \in SUBSET Nat, IsFiniteSet(occ), NEW endAt \in Nat, NEW from \in Nat,
           NEW at \in Nat, NEW tolerance \in Nat, NEW i \in Nat \ {0}
    PROVE  SkipEnd(occ, endAt, from, at, tolerance, i, Reached(occ, endAt, from))
<1> DEFINE way == Reached(occ, endAt, from)
           F == FreshIn(way, i, at, tolerance)
           m == SkipAmong(way, at, tolerance, i)
<1>1. way \in SUBSET Nat /\ IsFiniteSet(way)
  BY WayType
<1>2. m \in way \cup {NoTime}
  BY <1>1, SkipsOneMore
<1>3. F \in SUBSET way /\ F \in SUBSET Nat /\ SeenIn(way, i) \subseteq way
  BY <1>1 DEF FreshIn, SeenIn
<1>4. \A x \in way : x # NoTime
  BY <1>1 DEF NoTime
<1>5. m = IF F # {} THEN Least(F) ELSE IF Cardinality(way) < i THEN NoTime
          ELSE Greatest(SeenIn(way, i))
  BY DEF SkipAmong
<1>6. SkipTo("cron", occ, endAt, from, at, tolerance, i)
        = IF F # {} THEN Least(F)
          ELSE IF Cardinality(way) < i THEN NextMatch(occ, endAt, Greatest(way \cup {from}))
          ELSE Greatest(SeenIn(way, i))
  BY SkipIs
<1> HIDE DEF F, m, way
<1>7. F # {} => Least(F) # NoTime
  BY <1>3, <1>4, LeastInSet
<1>8. ~ (Cardinality(way) < i) => Greatest(SeenIn(way, i)) # NoTime
  <2>1. ~ (Cardinality(way) < i) => Greatest(SeenIn(way, i)) \in SeenIn(way, i)
    BY <1>1, SeenIsFirst
  <2> QED
    BY <1>3, <1>4, <2>1
<1> QED
  BY <1>2, <1>5, <1>6, <1>7, <1>8 DEF m, way, SkipEnd

\* The last of the way, and of `from` if there is no way.
LEMMA LastIs ==
    ASSUME NEW from \in Nat, NEW way \in SUBSET Nat, IsFiniteSet(way),
           \A m \in way : from < m, NEW y \in way \cup {from}, Following(way, y) = {}
    PROVE  Greatest(way \cup {from}) = y
<1>1. y \in Nat /\ \A n \in way \cup {from} : n \in Nat /\ n <= y
  <2>1. \A n \in way : ~ (n > y)
    BY DEF Following
  <2> QED
    BY <2>1
<1>2. ASSUME NEW m \in way \cup {from}, \A n \in way \cup {from} : n <= m PROVE m = y
  BY <1>1, <1>2
<1> QED
  BY <1>1, <1>2 DEF Greatest

\* skipOverdueRuns leaves the trigger at an occurrence of its plan, or finds
\* none, or throws.
THEOREM SkipToType ==
    ASSUME NEW kind \in Kinds, NEW occ \in SUBSET Nat, IsFiniteSet(occ), NEW endAt \in Nat,
           NEW from \in Nat, NEW at \in Nat, NEW tolerance \in Nat,
           NEW maxSkip \in Nat \ {0}
    PROVE  SkipTo(kind, occ, endAt, from, at, tolerance, maxSkip)
                \in occ \cup {NoTime, GaveUp}
<1>1. CASE kind \in {"every", "at"}
  <2>1. SkipTo(kind, occ, endAt, from, at, tolerance, maxSkip) = PlanNext(kind, occ, endAt, from)
    BY <1>1 DEF SkipTo
  <2> QED
    BY <2>1, PlanNextType
<1>2. CASE kind = "cron"
  <2> DEFINE way == Reached(occ, endAt, from)
             last == Greatest(way \cup {from})
             m == SkipAmong(way, at, tolerance, maxSkip)
  <2>1. /\ m \in way \cup {NoTime}
        /\ SkipTo("cron", occ, endAt, from, at, tolerance, maxSkip)
              = IF m = NoTime THEN NextMatch(occ, endAt, last) ELSE m
    <3>1. SkipEnd(occ, endAt, from, at, tolerance, maxSkip, way)
      BY SkipEnds
    <3> QED
      BY <3>1 DEF SkipEnd
  <2>2. way \subseteq occ
    BY WayType
  <2>3. PlanNext("cron", occ, endAt, last) = NextMatch(occ, endAt, last)
    BY DEF PlanNext
  <2>4. PlanNext("cron", occ, endAt, last) \in occ \cup {NoTime, GaveUp}
    BY PlanNextType
  <2> HIDE DEF way, last, m
  <2> QED
    BY <1>2, <2>1, <2>2, <2>3, <2>4
<1> QED
  BY <1>1, <1>2 DEF Kinds

\* The values after each turn of the loop.
Turn(kind, occ, endAt, at, tolerance, v) ==
    IF v \in {NoTime, GaveUp} \/ at - v <= tolerance THEN v
    ELSE PlanNext(kind, occ, endAt, v)

SkipRun(kind, occ, endAt, from, at, tolerance, n, g) ==
    g = [i \in 1..n |-> IF i = 1 THEN PlanNext(kind, occ, endAt, from)
                        ELSE Turn(kind, occ, endAt, at, tolerance, g[i - 1])]

\* The skip throws only where plan.next does.
LEMMA SkipGivesUpAtNext ==
    ASSUME NEW kind \in Kinds, NEW occ \in SUBSET Nat, IsFiniteSet(occ), NEW endAt \in Nat,
           NEW from \in Nat, NEW at \in Nat, NEW tolerance \in Nat,
           NEW maxSkip \in Nat \ {0},
           \A after \in Nat : PlanNext(kind, occ, endAt, after) # GaveUp
    PROVE  SkipTo(kind, occ, endAt, from, at, tolerance, maxSkip) # GaveUp
<1>1. CASE kind \in {"every", "at"}
  BY <1>1 DEF SkipTo
<1>2. CASE kind = "cron"
  <2> DEFINE way == Reached(occ, endAt, from)
             last == Greatest(way \cup {from})
             m == SkipAmong(way, at, tolerance, maxSkip)
  <2>1. /\ m \in way \cup {NoTime}
        /\ SkipTo("cron", occ, endAt, from, at, tolerance, maxSkip)
              = IF m = NoTime THEN NextMatch(occ, endAt, last) ELSE m
    <3>1. SkipEnd(occ, endAt, from, at, tolerance, maxSkip, way)
      BY SkipEnds
    <3> QED
      BY <3>1 DEF SkipEnd
  <2>2. way \in SUBSET Nat /\ IsFiniteSet(way)
    BY WayType
  <2>3. last \in Nat
    <3>1. IsFiniteSet(way \cup {from}) /\ way \cup {from} \in SUBSET Nat
      BY <2>2, FS_AddElement
    <3>2. \E z \in way \cup {from} : \A n \in way \cup {from} : n <= z
      BY <3>1, GreatestInSet
    <3> QED
      BY <3>1, <3>2 DEF Greatest
  <2>4. NextMatch(occ, endAt, last) # GaveUp
    <3> HIDE DEF last
    <3>1. PlanNext("cron", occ, endAt, last) # GaveUp
      BY <1>2, <2>3
    <3> QED
      BY <3>1 DEF PlanNext
  <2> HIDE DEF way, last, m
  <2> QED
    BY <1>2, <2>1, <2>2, <2>4 DEF NoTime, GaveUp
<1> QED
  BY <1>1, <1>2 DEF Kinds

LEMMA SkipLoopIs ==
    ASSUME NEW kind, NEW occ, NEW endAt, NEW from, NEW at, NEW tolerance, NEW n \in Nat \ {0},
           NEW h, SkipRun(kind, occ, endAt, from, at, tolerance, n, h)
    PROVE  SkipLoop(kind, occ, endAt, from, at, tolerance, n) = h[n]
<1> DEFINE g == CHOOSE g : SkipRun(kind, occ, endAt, from, at, tolerance, n, g)
<1>1. SkipLoop(kind, occ, endAt, from, at, tolerance, n) = g[n]
  BY DEF SkipLoop, SkipRun, Turn
<1>2. SkipRun(kind, occ, endAt, from, at, tolerance, n, g)
  OBVIOUS
<1> HIDE DEF g
<1> DEFINE Run(f) == \A i \in 1..n :
              f[i] = IF i = 1 THEN PlanNext(kind, occ, endAt, from)
                     ELSE Turn(kind, occ, endAt, at, tolerance, f[i - 1])
<1>3. Run(g) /\ Run(h)
  BY <1>2 DEF SkipRun
<1> DEFINE S == {i \in 1..n : g[i] # h[i]}
<1>4. S = {}
  <2> SUFFICES ASSUME S # {} PROVE FALSE
    OBVIOUS
  <2> DEFINE m == Least(S)
  <2>1. m \in S /\ \A i \in S : m <= i
    <3>1. S \in SUBSET Nat
      OBVIOUS
    <3> HIDE DEF S
    <3> QED
      BY <3>1, LeastInSet
  <2> HIDE DEF m
  <2>2. m \in 1..n /\ g[m] # h[m]
    BY <2>1
  <2>3. m # 1
    BY <1>3, <2>2
  <2>4. m - 1 \in 1..n /\ ~ (m <= m - 1)
    BY <2>2, <2>3
  <2>5. g[m - 1] = h[m - 1]
    BY <2>1, <2>4
  <2> QED
    BY <1>3, <2>2, <2>3, <2>5
<1>5. n \in 1..n
  OBVIOUS
<1> QED
  BY <1>1, <1>4, <1>5

\* The closed form of a bound of one is the first call of next, and that of a
\* bound of one more is one turn more.
LEMMA SkipsFirst ==
    ASSUME NEW kind \in Kinds, NEW occ \in SUBSET Nat, IsFiniteSet(occ), NEW endAt \in Nat,
           NEW from \in Nat, NEW at \in Nat, NEW tolerance \in Nat
    PROVE  SkipTo(kind, occ, endAt, from, at, tolerance, 1) = PlanNext(kind, occ, endAt, from)
<1>1. CASE kind \in {"every", "at"}
  BY <1>1 DEF SkipTo
<1>2. CASE kind = "cron"
  <2> DEFINE way == Reached(occ, endAt, from)
             m == SkipAmong(way, at, tolerance, 1)
             next == NextMatch(occ, endAt, from)
  <2>1. way \in SUBSET Nat /\ IsFiniteSet(way) /\ \A x \in way : from < x
    BY WayType
  <2>2. /\ m \in way \cup {NoTime}
        /\ SkipTo(kind, occ, endAt, from, at, tolerance, 1)
              = IF m = NoTime THEN NextMatch(occ, endAt, Greatest(way \cup {from})) ELSE m
    <3>1. SkipEnd(occ, endAt, from, at, tolerance, 1, way)
      BY SkipEnds
    <3> QED
      BY <1>2, <3>1 DEF SkipEnd
  <2>3. PlanNext(kind, occ, endAt, from) = next
    BY <1>2 DEF PlanNext
  <2>4. m = FirstIn(way)
    BY <2>1, SkipAmongFirst
  <2>5. /\ Following(way, from) # {} => next = Least(Following(way, from))
        /\ Following(way, from) = {} => Greatest(way \cup {from}) = from
    <3>1. Following(way, from) # {} => next = Least(Following(way, from))
      BY WayNext
    <3>2. Following(way, from) = {} => Greatest(way \cup {from}) = from
      BY <2>1, LastIs
    <3> QED
      BY <3>1, <3>2
  <2>6. Following(way, from) = way
    BY <2>1 DEF Following
  <2>7. \A x \in way : x # NoTime
    BY <2>1 DEF NoTime
  <2> HIDE DEF way, m
  <2>8. way # {} => Least(way) # NoTime
    BY <2>1, <2>7, LeastInSet
  <2> QED
    BY <2>2, <2>3, <2>4, <2>5, <2>6, <2>8 DEF FirstIn
<1> QED
  BY <1>1, <1>2 DEF Kinds

LEMMA SkipsByTurns ==
    ASSUME NEW kind \in Kinds, NEW occ \in SUBSET Nat, IsFiniteSet(occ), NEW endAt \in Nat,
           NEW from \in Nat, NEW at \in Nat, NEW tolerance \in Nat, NEW i \in Nat \ {0}
    PROVE  SkipTo(kind, occ, endAt, from, at, tolerance, i + 1)
               = Turn(kind, occ, endAt, at, tolerance,
                      SkipTo(kind, occ, endAt, from, at, tolerance, i))
<1>1. CASE kind \in {"every", "at"}
  <2> DEFINE v == PlanNext(kind, occ, endAt, from)
             S == {m \in occ : from <= m /\ m <= endAt}
             T == {m \in occ : v <= m /\ m <= endAt}
  <2>1. \A n : SkipTo(kind, occ, endAt, from, at, tolerance, n) = v
    BY <1>1 DEF SkipTo
  <2>2. v = FirstIn(S) /\ PlanNext(kind, occ, endAt, v) = FirstIn(T)
    BY <1>1 DEF PlanNext
  <2>3. v # NoTime => PlanNext(kind, occ, endAt, v) = v
    <3> SUFFICES ASSUME v # NoTime PROVE FirstIn(T) = v
      BY <2>2
    <3>1. v = Least(S) /\ S # {} /\ S \in SUBSET Nat
      BY <2>2 DEF FirstIn
    <3>2. v \in S
      <4> HIDE DEF S, v
      <4> QED
        BY <3>1, LeastInSet
    <3>3. v \in Nat /\ v \in T /\ T \in SUBSET Nat
      <4> HIDE DEF v
      <4>1. v \in occ /\ v \in Nat /\ v <= endAt
        BY <3>2
      <4>2. v \in T
        BY <4>1
      <4> QED
        BY <4>1, <4>2
    <3>4. Least(T) \in T /\ Least(T) <= v
      <4> HIDE DEF T, v
      <4> QED
        BY <3>3, LeastInSet
    <3>5. Least(T) = v
      <4> HIDE DEF v
      <4>1. Least(T) \in Nat /\ v <= Least(T)
        BY <3>3, <3>4
      <4> HIDE DEF T
      <4> QED
        BY <3>3, <3>4, <4>1
    <3> QED
      BY <3>3, <3>5 DEF FirstIn
  <2> HIDE DEF v
  <2> QED
    BY <2>1, <2>3 DEF Turn
<1>2. CASE kind = "cron"
  <2> DEFINE way == Reached(occ, endAt, from)
             m == SkipAmong(way, at, tolerance, i)
             n == SkipAmong(way, at, tolerance, i + 1)
             last == NextMatch(occ, endAt, Greatest(way \cup {from}))
             v == SkipTo(kind, occ, endAt, from, at, tolerance, i)
  <2>1. way \in SUBSET Nat /\ IsFiniteSet(way) /\ (\A x \in way : from < x)
    BY WayType
  <2>2. m \in way \cup {NoTime} /\ v = IF m = NoTime THEN last ELSE m
    <3>1. SkipEnd(occ, endAt, from, at, tolerance, i, way)
      BY SkipEnds
    <3> QED
      BY <1>2, <3>1 DEF SkipEnd
  <2>3. SkipTo(kind, occ, endAt, from, at, tolerance, i + 1) = IF n = NoTime THEN last ELSE n
    <3>1. SkipEnd(occ, endAt, from, at, tolerance, i + 1, way)
      BY SkipEnds
    <3> QED
      BY <1>2, <3>1 DEF SkipEnd
  <2>4. n = IF m = NoTime \/ at - m <= tolerance THEN m ELSE FirstIn(Following(way, m))
    BY <2>1, SkipsOneMore
  <2>5. Turn(kind, occ, endAt, at, tolerance, v)
            = IF v \in {NoTime, GaveUp} \/ at - v <= tolerance THEN v
              ELSE NextMatch(occ, endAt, v)
    BY <1>2 DEF Turn, PlanNext
  <2>6. \A x \in way : x # NoTime /\ x # GaveUp /\ x \in Nat
    BY <2>1 DEF NoTime, GaveUp
  <2>7. \A y \in way \cup {from} :
            /\ Following(way, y) # {} => NextMatch(occ, endAt, y) = Least(Following(way, y))
            /\ Following(way, y) = {} => /\ NextMatch(occ, endAt, y) \in {NoTime, GaveUp}
                                         /\ Greatest(way \cup {from}) = y
    BY <2>1, WayNext, LastIs
  <2>8. last \in {NoTime, GaveUp}
    <3>1. \E y \in way \cup {from} : Following(way, y) = {}
      <4>1. way \cup {from} \in SUBSET Nat /\ IsFiniteSet(way \cup {from}) /\ way \cup {from} # {}
        BY <2>1, FS_AddElement
      <4>2. PICK y \in way \cup {from} : \A x \in way \cup {from} : x <= y
        BY <4>1, GreatestInSet
      <4>3. \A x \in way : ~ (x > y)
        BY <4>1, <4>2
      <4> QED
        BY <4>2, <4>3 DEF Following
    <3> QED
      BY <2>7, <3>1
  <2>9. \A y \in way : Following(way, y) # {} =>
            /\ Least(Following(way, y)) \in Following(way, y)
            /\ Least(Following(way, y)) # NoTime
    <3> SUFFICES ASSUME NEW y \in way, Following(way, y) # {}
                 PROVE  Least(Following(way, y)) \in Following(way, y) /\ Least(Following(way, y)) # NoTime
      OBVIOUS
    <3>1. Following(way, y) \in SUBSET Nat /\ Following(way, y) \subseteq way
      BY <2>1 DEF Following
    <3>2. Least(Following(way, y)) \in Following(way, y)
      BY <3>1, LeastInSet
    <3> QED
      BY <2>6, <3>1, <3>2
  <2> HIDE DEF way, m, n, last, v
  <2>10. CASE m = NoTime
    BY <2>2, <2>3, <2>4, <2>5, <2>8, <2>10 DEF v
  <2>11. CASE m # NoTime /\ at - m <= tolerance
    BY <2>2, <2>3, <2>4, <2>5, <2>11 DEF v
  <2>12. CASE m # NoTime /\ ~ (at - m <= tolerance)
    <3>1. m \in way /\ v = m /\ n = FirstIn(Following(way, m))
      BY <2>2, <2>4, <2>12
    <3>2. Turn(kind, occ, endAt, at, tolerance, v) = NextMatch(occ, endAt, m)
      BY <2>5, <2>6, <2>12, <3>1
    <3>3. CASE Following(way, m) # {}
      BY <2>3, <2>7, <2>9, <3>1, <3>2, <3>3 DEF FirstIn, v
    <3>4. CASE Following(way, m) = {}
      BY <2>3, <2>7, <3>1, <3>2, <3>4 DEF FirstIn, v, last
    <3> QED
      BY <3>3, <3>4
  <2> QED
    BY <2>10, <2>11, <2>12
<1> QED
  BY <1>1, <1>2 DEF Kinds

\* skipOverdueRuns stops where its closed form says, for every plan of the
\* three kinds and any bound on the turns, and throws where it says.
THEOREM SkipToIsItsLoop ==
    ASSUME NEW kind \in Kinds, NEW occ \in SUBSET Nat, IsFiniteSet(occ), NEW endAt \in Nat,
           NEW from \in Nat, NEW at \in Nat, NEW tolerance \in Nat,
           NEW maxSkip \in Nat \ {0}
    PROVE  SkipTo(kind, occ, endAt, from, at, tolerance, maxSkip)
               = SkipLoop(kind, occ, endAt, from, at, tolerance, maxSkip)
<1> DEFINE Val(i) == SkipTo(kind, occ, endAt, from, at, tolerance, i)
           h == [i \in 1..maxSkip |-> Val(i)]
<1>1. ASSUME NEW i \in 1..maxSkip
      PROVE  h[i] = IF i = 1 THEN PlanNext(kind, occ, endAt, from)
                    ELSE Turn(kind, occ, endAt, at, tolerance, h[i - 1])
  <2>1. CASE i = 1
    BY <2>1, SkipsFirst
  <2>2. CASE i # 1
    <3>1. i - 1 \in Nat \ {0} /\ i - 1 \in 1..maxSkip /\ (i - 1) + 1 = i
      BY <2>2
    <3>2. Val((i - 1) + 1) = Turn(kind, occ, endAt, at, tolerance, Val(i - 1))
      BY <3>1, SkipsByTurns
    <3> HIDE DEF Val
    <3> QED
      BY <2>2, <3>1, <3>2
  <2> QED
    BY <2>1, <2>2
<1>2. SkipRun(kind, occ, endAt, from, at, tolerance, maxSkip, h)
  <2>1. h = [i \in 1..maxSkip |-> h[i]]
    OBVIOUS
  <2> HIDE DEF h
  <2> QED
    BY <1>1, <2>1 DEF SkipRun
<1>3. h[maxSkip] = Val(maxSkip)
  <2> HIDE DEF Val
  <2> QED
    OBVIOUS
<1> HIDE DEF h
<1> QED
  BY <1>2, <1>3, SkipLoopIs

\* The least multiple of d that is not below x.
LEMMA CeilingIs ==
    ASSUME NEW x \in Nat, NEW d \in Nat \ {0}
    PROVE  LET q == (x + d - 1) \div d
           IN  q \in Nat /\ x <= q * d /\ \A k \in Nat : x <= k * d => q * d <= k * d
<1> DEFINE q == (x + d - 1) \div d
<1>1. q \in Nat /\ q * d \in Nat /\ q * d <= x + d - 1 /\ x + d - 1 < q * d + d
  OBVIOUS
<1> HIDE DEF q
<1>2. ASSUME NEW k \in Nat, x <= k * d PROVE q * d <= k * d
  <2> SUFFICES ASSUME k < q PROVE FALSE
    <3>1. q <= k => q * d <= k * d
      BY <1>1
    <3> QED
      BY <1>1, <3>1
  <2>1. (k + 1) * d <= q * d
    BY <1>1
  <2>2. (k + 1) * d = k * d + d /\ k * d \in Nat
    OBVIOUS
  <2> QED
    BY <1>1, <1>2, <2>1, <2>2
<1> QED
  BY <1>1, <1>2 DEF q

\* every and at plans compute the first instant of their set that is not
\* before the one they are given: every.ts with a ceiling, at.ts by yielding
\* runAt until it has passed.
THEOREM PlansAreSets ==
    /\ \A anchor, endAt, after \in Nat, interval \in Nat \ {0} :
          NextEvery(anchor, interval, endAt, after)
              = PlanNext("every", Grid(anchor, interval, endAt), endAt, after)
    /\ \A runAt, endAt, after \in Nat :
          NextAt(runAt, endAt, after)
              = PlanNext("at", {runAt}, endAt, after)
<1>1. ASSUME NEW anchor \in Nat, NEW endAt \in Nat, NEW after \in Nat,
             NEW interval \in Nat \ {0}
      PROVE  NextEvery(anchor, interval, endAt, after)
                 = PlanNext("every", Grid(anchor, interval, endAt), endAt, after)
  <2> DEFINE from == IF after > anchor THEN after ELSE anchor
             x == from - anchor
             q == (x + interval - 1) \div interval
             at == anchor + q * interval
             S == {n \in Grid(anchor, interval, endAt) : after <= n /\ n <= endAt}
  <2>1. from \in Nat /\ from >= anchor /\ from >= after /\ x \in Nat /\ from = anchor + x
    OBVIOUS
  <2>2. /\ NextEvery(anchor, interval, endAt, after) = IF at > endAt THEN NoTime ELSE at
        /\ PlanNext("every", Grid(anchor, interval, endAt), endAt, after) = FirstIn(S)
    BY DEF NextEvery, PlanNext
  <2>11. \A n \in Nat : n >= anchor /\ n >= after <=> n >= from
    OBVIOUS
  <2> HIDE DEF from, x
  <2>3. q \in Nat /\ x <= q * interval /\ \A k \in Nat : x <= k * interval => q * interval <= k * interval
    BY <2>1, CeilingIs
  <2> HIDE DEF q
  <2>4. q * interval \in Nat /\ at \in Nat /\ at >= from /\ at - anchor = q * interval
    BY <2>1, <2>3
  <2>5. at <= endAt => q \in 0..endAt
    <3>1. q <= q * interval
      BY <2>3
    <3> QED
      BY <2>3, <2>4, <3>1
  <2>12. at = anchor + q * interval
    OBVIOUS
  <2> HIDE DEF at
  <2>6. ASSUME NEW n \in S PROVE at <= n
    <3>1. n \in Nat /\ n >= after
      BY DEF Grid
    <3>2. PICK k \in Nat : n = anchor + k * interval
      BY DEF Grid
    <3>5. k * interval \in Nat /\ n >= anchor
      BY <3>2
    <3>3. n >= from /\ x <= k * interval
      BY <2>1, <2>11, <3>1, <3>2, <3>5
    <3>4. q * interval <= k * interval
      BY <2>3, <3>2, <3>3
    <3> QED
      BY <2>4, <3>1, <3>2, <3>4, <3>5
  <2>7. at <= endAt => at \in S
    <3>1. at >= anchor /\ at >= after
      BY <2>11, <2>4
    <3> QED
      BY <2>4, <2>5, <2>12, <3>1 DEF Grid
  <2>8. S \in SUBSET Nat /\ \A n \in S : n <= endAt
    BY DEF Grid
  <2> HIDE DEF S
  <2>9. CASE at <= endAt
    <3>1. Least(S) \in S /\ \A n \in S : Least(S) <= n
      BY <2>7, <2>8, <2>9, LeastInSet
    <3>2. Least(S) \in Nat /\ Least(S) <= at /\ at <= Least(S)
      BY <2>6, <2>7, <2>8, <2>9, <3>1
    <3>3. Least(S) = at
      BY <2>4, <3>2
    <3> QED
      BY <2>2, <2>4, <2>7, <2>9, <3>3 DEF FirstIn
  <2>10. CASE at > endAt
    <3>1. S = {}
      BY <2>4, <2>6, <2>8, <2>10
    <3> QED
      BY <2>2, <2>10, <3>1 DEF FirstIn
  <2> QED
    BY <2>4, <2>9, <2>10
<1>2. ASSUME NEW runAt \in Nat, NEW endAt \in Nat, NEW after \in Nat
      PROVE  NextAt(runAt, endAt, after)
                 = PlanNext("at", {runAt}, endAt, after)
  <2> DEFINE S == {n \in {runAt} : after <= n /\ n <= endAt}
  <2>1. PlanNext("at", {runAt}, endAt, after) = FirstIn(S)
    BY DEF PlanNext
  <2>2. CASE runAt > endAt \/ after > runAt
    <3>1. S = {}
      BY <2>2
    <3> QED
      BY <2>1, <2>2, <3>1 DEF NextAt, FirstIn
  <2>3. CASE ~ (runAt > endAt \/ after > runAt)
    <3>1. S = {runAt}
      BY <2>3
    <3>2. Least({runAt}) \in {runAt}
      BY LeastInSet
    <3> QED
      BY <2>1, <2>3, <3>1, <3>2 DEF NextAt, FirstIn
  <2> QED
    BY <2>2, <2>3
<1> QED
  BY <1>1, <1>2

----------------------------------------------------------------------------
(* The inductive invariant *)

IInv == TypeOK /\ QueuesHoldWaiters

----------------------------------------------------------------------------
(* The operators the actions are built from *)

Sem == [cur : Nat, queue : Seq(Fibers)]

\* The fields of a trigger, run, fiber and engine record keep their types
\* through the EXCEPTs of the actions.
LEMMA EngineFields ==
    ASSUME NEW e \in Engine
    PROVE  /\ Arm(e) \in Engine
           /\ \A b \in BOOLEAN : /\ [e EXCEPT !.armed = b] \in Engine
                                 /\ [e EXCEPT !.paused = b] \in Engine
           /\ \A w \in SUBSET Fibers : [e EXCEPT !.wait = w] \in Engine
           /\ \A i \in RunIds, c \in SUBSET Keys :
                [e EXCEPT !.cap[i] = c] \in Engine
           /\ \A h \in SUBSET RunIds : [e EXCEPT !.handled = h] \in Engine
           /\ \A j \in SUBSET Jobs : [e EXCEPT !.jobs = j] \in Engine
BY DEF Engine, Arm

\* Jobs and permits have keys, and keys have limits.
LEMMA KeyTypes ==
    /\ \A t \in Triggers : JobOf[t] \in Keys /\ JobOf[t] \in Jobs
    /\ \A r \in FiberRecord : NextPermit(r) \in Keys /\ Limit[NextPermit(r)] \in Nat
    /\ \A k \in Keys : Limit[k] \in Nat
BY SchedulerAssumption DEF Keys, NextPermit, FiberRecord

\* upsertTrigger keeps the trigger table's type.
LEMMA UpsertType ==
    ASSUME StoreTypeOK, NEW t \in Triggers, NEW r \in TriggerRecord,
           UpsertTrigger(t, r)
    PROVE  trig' \in [Triggers -> TriggerRecord \cup {NoTrigger}]
BY DEF StoreTypeOK, UpsertTrigger

\* deleteTrigger keeps the trigger table's type.
LEMMA DeleteType ==
    ASSUME StoreTypeOK, NEW t \in Triggers, DeleteTrigger(t)
    PROVE  trig' \in [Triggers -> TriggerRecord \cup {NoTrigger}]
BY DEF StoreTypeOK, DeleteTrigger

\* A claim that claimTrigger grants keeps the trigger table's type.
LEMMA ClaimType ==
    ASSUME StoreTypeOK, NEW t \in Triggers, NEW o \in Owners,
           Claimable(t, o), ClaimTrigger(t, o, LeaseMs)
    PROVE  trig' \in [Triggers -> TriggerRecord \cup {NoTrigger}]
<1>1. trig[t] \in TriggerRecord
  BY DEF StoreTypeOK, Claimable, Exists
<1>2. now + LeaseMs \in Nat
  <2>1. LeaseMs \in Nat
    BY SchedulerAssumption
  <2> QED
    BY <2>1 DEF StoreTypeOK
<1> DEFINE r == [trig[t] EXCEPT !.owner = o, !.until = now + LeaseMs]
<1>3. r \in TriggerRecord
  BY <1>1, <1>2 DEF TriggerRecord
<1>4. trig' = [trig EXCEPT ![t] = r]
  BY <1>1 DEF StoreTypeOK, ClaimTrigger, TriggerRecord
<1> QED
  BY <1>3, <1>4 DEF StoreTypeOK

\* releaseTrigger keeps the trigger table's type, whoever calls it.
LEMMA ReleaseType ==
    ASSUME StoreTypeOK, NEW t \in Triggers, NEW o, ReleaseTrigger(t, o)
    PROVE  trig' \in [Triggers -> TriggerRecord \cup {NoTrigger}]
<1>1. CASE Exists(t)
  <2>1. trig[t] \in TriggerRecord
    BY <1>1 DEF StoreTypeOK, Exists
  <2> QED
    BY <2>1 DEF StoreTypeOK, ReleaseTrigger, TriggerRecord
<1> QED
  BY <1>1 DEF StoreTypeOK, ReleaseTrigger

\* generateRunId stays within the bound on run ids.
LEMMA NewIdType ==
    ASSUME ids \in [Triggers -> 0..MaxRuns], NEW t \in Triggers,
           GenerateRunId(t)
    PROVE  /\ ids' \in [Triggers -> 0..MaxRuns]
           /\ NewId(t) \in 1..MaxRuns
BY StoreAssumption DEF GenerateRunId, NewId

\* The markers of plan.next are not instants.
LEMMA MarkersAreNoInstants == NoTime \notin Nat /\ GaveUp \notin Nat /\ NoTime # GaveUp
BY DEF NoTime, GaveUp

----------------------------------------------------------------------------
(* Capacity: queues and wake-ups *)

\* Whoever waits goes on waiting: the queues still hold waiters.
LEMMA QueuesKept ==
    ASSUME IInv,
           \A o \in Owners, k \in Keys : sem'[o][k].queue = sem[o][k].queue,
           \A g \in Fibers : fibers[g].pc = "waiting" => fibers'[g] = fibers[g]
    PROVE  QueuesHoldWaiters'
<1>1. \A o \in Owners, k \in Keys : sem[o][k].queue \in Seq(Fibers)
  BY DEF IInv, TypeOK
<1>2. \A o \in Owners, k \in Keys : \A i \in 1..Len(sem[o][k].queue) :
        sem[o][k].queue[i] \in Fibers
  BY <1>1, ElementOfSeq
<1>3. ASSUME NEW o \in Owners, NEW k \in Keys
      PROVE  LET q == sem'[o][k].queue
             IN  /\ \A i \in 1..Len(q) :
                     /\ fibers'[q[i]].pc = "waiting"
                     /\ fibers'[q[i]].o = o
                     /\ NextPermit(fibers'[q[i]]) = k
                 /\ \A i, j \in 1..Len(q) : q[i] = q[j] => i = j
  <2> DEFINE q == sem[o][k].queue
  <2>1. /\ \A i \in 1..Len(q) : /\ fibers[q[i]].pc = "waiting"
                                /\ fibers[q[i]].o = o
                                /\ NextPermit(fibers[q[i]]) = k
                                /\ q[i] \in Fibers
        /\ \A i, j \in 1..Len(q) : q[i] = q[j] => i = j
    BY <1>2 DEF IInv, QueuesHoldWaiters
  <2>2. sem'[o][k].queue = q
    OBVIOUS
  <2> HIDE DEF q
  <2>3. \A i \in 1..Len(q) : fibers'[q[i]] = fibers[q[i]]
    BY <2>1
  <2> QED
    BY <2>1, <2>2, <2>3
<1> QED
  BY <1>3 DEF QueuesHoldWaiters, NextPermit

\* A queue that gains an entry, or loses its head.
LEMMA AppendOne ==
    ASSUME NEW S, NEW q \in Seq(S), NEW x \in S
    PROVE  /\ Append(q, x) \in Seq(S)
           /\ Len(Append(q, x)) = Len(q) + 1
           /\ \A i \in 1..Len(Append(q, x)) :
                Append(q, x)[i] = IF i <= Len(q) THEN q[i] ELSE x
OBVIOUS

\* A queue stays free of repetitions when a new entry joins it.
LEMMA AppendOnce ==
    ASSUME NEW S, NEW q \in Seq(S), NEW x \in S,
           \A i, j \in 1..Len(q) : q[i] = q[j] => i = j,
           \A i \in 1..Len(q) : q[i] # x
    PROVE  \A i, j \in 1..Len(Append(q, x)) :
                Append(q, x)[i] = Append(q, x)[j] => i = j
OBVIOUS

\* What is left of a queue when its head goes.
LEMMA TailOne ==
    ASSUME NEW S, NEW q \in Seq(S), q # <<>>
    PROVE  /\ Tail(q) \in Seq(S) /\ Head(q) \in S
           /\ Head(q) = q[1] /\ 1 \in 1..Len(q)
           /\ Len(Tail(q)) = Len(q) - 1
           /\ \A i \in 1..Len(Tail(q)) :
                i + 1 \in 1..Len(q) /\ Tail(q)[i] = q[i + 1]
OBVIOUS

\* acquireCapacity's turn keeps types, and a fiber that was not in a queue
\* enters the one of the permit it wants.
LEMMA AcquireEffect ==
    ASSUME IInv, NEW f \in Fibers, NEW r \in FiberRecord,
           fibers[f].pc # "waiting", r.pc = "acquire", Acquire(f, r)
    PROVE  /\ fibers' \in [Fibers -> FiberRecord \cup {Idle}]
           /\ sem' \in [Owners -> [Keys -> Sem]]
           /\ QueuesHoldWaiters'
<1> DEFINE k == NextPermit(r)
<1>t. /\ fibers \in [Fibers -> FiberRecord \cup {Idle}]
      /\ sem \in [Owners -> [Keys -> Sem]]
  BY DEF IInv, TypeOK, Sem
<1>k. k \in Keys /\ r.o \in Owners
  BY KeyTypes DEF FiberRecord
<1>s. /\ sem[r.o][k] \in Sem /\ sem[r.o][k].cur \in Nat
      /\ sem[r.o][k].queue \in Seq(Fibers)
  BY <1>t, <1>k DEF Sem
<1>w. ASSUME NEW g \in Fibers, fibers[g].pc = "waiting" PROVE g # f
  BY <1>w
<1>1. CASE /\ fibers' = [fibers EXCEPT ![f] = r]
           /\ UNCHANGED sem
  <2>1. fibers' \in [Fibers -> FiberRecord \cup {Idle}] /\ sem' \in [Owners -> [Keys -> Sem]]
    BY <1>1, <1>t
  <2>2. QueuesHoldWaiters'
    BY <1>1, <1>t, <1>w, QueuesKept
  <2> QED
    BY <2>1, <2>2
<1>2. CASE /\ sem' = [sem EXCEPT ![r.o][k].cur = @ + 1]
           /\ fibers' = [fibers EXCEPT ![f] = [r EXCEPT !.held = @ \cup {k}]]
  <2>1. fibers' \in [Fibers -> FiberRecord \cup {Idle}]
    <3>1. [r EXCEPT !.held = @ \cup {k}] \in FiberRecord
      BY <1>k DEF FiberRecord
    <3> QED
      BY <3>1, <1>2, <1>t
  <2>2. sem' \in [Owners -> [Keys -> Sem]]
    BY <1>2, <1>t, <1>k, <1>s DEF Sem
  <2>3. \A o \in Owners, j \in Keys : sem'[o][j].queue = sem[o][j].queue
    BY <1>2, <1>t, <1>k, <1>s DEF Sem
  <2>4. \A g \in Fibers : fibers[g].pc = "waiting" => fibers'[g] = fibers[g]
    BY <1>2, <1>t, <1>w
  <2>6. QueuesHoldWaiters'
    BY <2>3, <2>4, QueuesKept
  <2> QED
    BY <2>1, <2>2, <2>6
<1>3. CASE /\ sem' = [sem EXCEPT ![r.o][k].queue = Append(@, f)]
           /\ fibers' = [fibers EXCEPT ![f] = [r EXCEPT !.pc = "waiting"]]
  <2> DEFINE w == [r EXCEPT !.pc = "waiting"]
             q == sem[r.o][k].queue
  <2>a. /\ Append(q, f) \in Seq(Fibers) /\ Len(Append(q, f)) = Len(q) + 1
        /\ \A i \in 1..Len(Append(q, f)) :
              Append(q, f)[i] = IF i <= Len(q) THEN q[i] ELSE f
    BY <1>s, AppendOne
  <2>b. w \in FiberRecord /\ w.pc = "waiting" /\ w.o = r.o /\ NextPermit(w) = k
    BY DEF FiberRecord, NextPermit
  <2>1. fibers' \in [Fibers -> FiberRecord \cup {Idle}]
    BY <1>3, <1>t, <2>b
  <2>2. sem' \in [Owners -> [Keys -> Sem]]
    BY <1>3, <1>t, <1>k, <1>s, <2>a DEF Sem
  <2>3. \A o \in Owners, j \in Keys :
            sem'[o][j].queue = IF o = r.o /\ j = k THEN Append(q, f)
                               ELSE sem[o][j].queue
    BY <1>3, <1>t, <1>k, <1>s DEF Sem
  <2>4. \A g \in Fibers : fibers[g].pc = "waiting" => fibers'[g] = fibers[g]
    BY <1>3, <1>t, <1>w
  <2>5. \A o \in Owners, j \in Keys : \A i \in 1..Len(sem[o][j].queue) :
            sem[o][j].queue[i] \in Fibers /\ sem[o][j].queue[i] # f
    BY <1>t, <1>w, ElementOfSeq DEF Sem, IInv, QueuesHoldWaiters
  <2>6. fibers'[f] = w
    BY <1>3, <1>t
  <2>7. ASSUME NEW o \in Owners, NEW j \in Keys
        PROVE  LET qq == sem'[o][j].queue
               IN  /\ \A i \in 1..Len(qq) :
                       /\ fibers'[qq[i]].pc = "waiting"
                       /\ fibers'[qq[i]].o = o
                       /\ NextPermit(fibers'[qq[i]]) = j
                   /\ \A i, l \in 1..Len(qq) : qq[i] = qq[l] => i = l
    <3>1. CASE o = r.o /\ j = k
      <4> DEFINE qq == Append(q, f)
      <4>1. sem'[o][j].queue = qq
        BY <3>1, <2>3
      <4>2. q = sem[o][j].queue /\ Len(q) \in Nat
        BY <3>1, <1>s
      <4>3. \A i \in 1..Len(q) : /\ fibers'[q[i]].pc = "waiting"
                                 /\ fibers'[q[i]].o = o
                                 /\ NextPermit(fibers'[q[i]]) = j
                                 /\ q[i] # f
        BY <4>2, <2>4, <2>5 DEF IInv, QueuesHoldWaiters
      <4>4. \A i, l \in 1..Len(q) : q[i] = q[l] => i = l
        BY <4>2 DEF IInv, QueuesHoldWaiters
      <4> HIDE DEF q, w, k
      <4>5. ASSUME NEW i \in 1..Len(qq)
            PROVE  /\ fibers'[qq[i]].pc = "waiting"
                   /\ fibers'[qq[i]].o = o
                   /\ NextPermit(fibers'[qq[i]]) = j
        <5>1. CASE i <= Len(q)
          BY <5>1, <4>2, <4>3, <2>a
        <5>2. CASE ~(i <= Len(q))
          <6>1. qq[i] = f
            BY <5>2, <2>a
          <6> HIDE DEF qq
          <6> QED
            BY <6>1, <3>1, <2>b, <2>6
        <5> QED
          BY <5>1, <5>2
      <4>6. \A i, l \in 1..Len(qq) : qq[i] = qq[l] => i = l
        <5>1. q \in Seq(Fibers)
          BY <1>s DEF q
        <5>2. \A i \in 1..Len(q) : q[i] # f
          BY <4>3
        <5> QED
          BY <4>4, <5>1, <5>2, AppendOnce
      <4> QED
        BY <4>1, <4>5, <4>6
    <3>2. CASE ~(o = r.o /\ j = k)
      <4>1. sem'[o][j].queue = sem[o][j].queue
        BY <3>2, <2>3
      <4> QED
        BY <4>1, <2>4, <2>5 DEF IInv, QueuesHoldWaiters
    <3> QED
      BY <3>1, <3>2
  <2>8. QueuesHoldWaiters'
    BY <2>7 DEF QueuesHoldWaiters, NextPermit
  <2> QED
    BY <2>1, <2>2, <2>8
<1> QED
  BY <1>1, <1>2, <1>3 DEF Acquire

\* releaseRunCapacity keeps types; it touches no fiber but the heads of the
\* queues it frees, which wait there.
LEMMA FreedEffect ==
    ASSUME IInv, NEW o \in Owners, NEW id \in RunIds
    PROVE  /\ SemFreed(o, id) \in [Owners -> [Keys -> Sem]]
           /\ FibersWoken(o, id) \in [Fibers -> FiberRecord \cup {Idle}]
           /\ \A g \in Fibers : fibers[g].pc # "waiting"
                => FibersWoken(o, id)[g] = fibers[g]
<1>t. /\ fibers \in [Fibers -> FiberRecord \cup {Idle}]
      /\ sem \in [Owners -> [Keys -> Sem]]
  BY DEF IInv, TypeOK, Sem
<1>c. Freed(o, id) \subseteq Keys
  <2>1. eng[o] \in Engine
    BY DEF IInv, TypeOK
  <2> QED
    BY <2>1 DEF Freed, Engine
<1>q. \A k \in Keys : /\ sem[o][k] \in Sem /\ sem[o][k].cur \in Nat
                      /\ sem[o][k].queue \in Seq(Fibers)
  BY <1>t DEF Sem
<1>1. \A g \in Woken(o, id) : g \in Fibers /\ fibers[g].pc = "waiting"
  <2> SUFFICES ASSUME NEW k \in Freed(o, id), Queued(o, k)
               PROVE  /\ Head(sem[o][k].queue) \in Fibers
                      /\ fibers[Head(sem[o][k].queue)].pc = "waiting"
    BY DEF Woken
  <2>1. /\ Head(sem[o][k].queue) = sem[o][k].queue[1]
        /\ Head(sem[o][k].queue) \in Fibers
        /\ 1 \in 1..Len(sem[o][k].queue)
    BY <1>c, <1>q, TailOne DEF Queued
  <2> QED
    BY <1>c, <2>1 DEF IInv, QueuesHoldWaiters
<1>2. FibersWoken(o, id) \in [Fibers -> FiberRecord \cup {Idle}]
  <2>1. ASSUME NEW g \in Fibers, fibers[g].pc = "waiting"
        PROVE  [fibers[g] EXCEPT !.pc = "woken"] \in FiberRecord
    <3>1. fibers[g] \in FiberRecord
      BY <2>1, <1>t DEF Idle
    <3> QED
      BY <3>1 DEF FiberRecord
  <2> QED
    BY <1>1, <1>t, <2>1 DEF FibersWoken
<1>3. \A g \in Fibers : fibers[g].pc # "waiting"
        => FibersWoken(o, id)[g] = fibers[g]
  BY <1>1 DEF FibersWoken
<1>4. SemFreed(o, id) \in [Owners -> [Keys -> Sem]]
  <2> DEFINE new(k) == IF k \notin Freed(o, id) THEN sem[o][k]
                ELSE [cur |-> IF sem[o][k].cur = 0 THEN 0 ELSE sem[o][k].cur - 1,
                      queue |-> IF Queued(o, k) THEN Tail(sem[o][k].queue)
                                ELSE <<>>]
  <2>1. ASSUME NEW k \in Keys PROVE new(k) \in Sem
    <3>1. (IF Queued(o, k) THEN Tail(sem[o][k].queue) ELSE <<>>) \in Seq(Fibers)
      BY <1>q, TailOne DEF Queued
    <3>2. (IF sem[o][k].cur = 0 THEN 0 ELSE sem[o][k].cur - 1) \in Nat
      BY <1>q
    <3> QED
      BY <1>q, <3>1, <3>2 DEF Sem
  <2>2. SemFreed(o, id) = [sem EXCEPT ![o] = [k \in Keys |-> new(k)]]
    BY DEF SemFreed
  <2> HIDE DEF new
  <2> QED
    BY <1>t, <2>1, <2>2
<1> QED
  BY <1>2, <1>3, <1>4

\* What is left in the queues after a release still waits there.
LEMMA FreedQueues ==
    ASSUME IInv, NEW o \in Owners, NEW id \in RunIds,
           sem' = SemFreed(o, id),
           \A g \in Fibers : fibers[g].pc = "waiting"
                => fibers'[g] = FibersWoken(o, id)[g]
    PROVE  QueuesHoldWaiters'
<1>q. ASSUME NEW p \in Owners, NEW k \in Keys
      PROVE  /\ sem[p][k].queue \in Seq(Fibers)
             /\ \A i \in 1..Len(sem[p][k].queue) :
                    /\ sem[p][k].queue[i] \in Fibers
                    /\ fibers[sem[p][k].queue[i]].pc = "waiting"
                    /\ fibers[sem[p][k].queue[i]].o = p
                    /\ NextPermit(fibers[sem[p][k].queue[i]]) = k
             /\ \A i, j \in 1..Len(sem[p][k].queue) :
                    sem[p][k].queue[i] = sem[p][k].queue[j] => i = j
  <2>1. sem[p][k].queue \in Seq(Fibers)
    BY DEF IInv, TypeOK
  <2>2. \A i \in 1..Len(sem[p][k].queue) : sem[p][k].queue[i] \in Fibers
    BY <2>1, ElementOfSeq
  <2> QED
    BY <2>1, <2>2 DEF IInv, QueuesHoldWaiters
<1>c. Freed(o, id) \subseteq Keys /\ sem \in [Owners -> [Keys -> Sem]]
  <2>1. eng[o] \in Engine
    BY DEF IInv, TypeOK
  <2> QED
    BY <2>1 DEF Freed, Engine, IInv, TypeOK, Sem
<1>1. ASSUME NEW p \in Owners, NEW k \in Keys
      PROVE  sem'[p][k].queue =
                IF p = o /\ k \in Freed(o, id)
                THEN IF Queued(o, k) THEN Tail(sem[p][k].queue) ELSE <<>>
                ELSE sem[p][k].queue
  BY <1>c DEF SemFreed
<1>2. ASSUME NEW g \in Fibers, g \notin Woken(o, id), fibers[g].pc = "waiting"
      PROVE  fibers'[g] = fibers[g]
  BY <1>2 DEF FibersWoken
<1>3. \A g \in Woken(o, id) : \E k \in Freed(o, id) :
            Queued(o, k) /\ g = sem[o][k].queue[1] /\ 1 \in 1..Len(sem[o][k].queue)
  <2> SUFFICES ASSUME NEW k \in Freed(o, id), Queued(o, k)
               PROVE  /\ Head(sem[o][k].queue) = sem[o][k].queue[1]
                      /\ 1 \in 1..Len(sem[o][k].queue)
    BY DEF Woken
  <2> QED
    BY <1>c, <1>q, TailOne DEF Queued
<1>4. ASSUME NEW p \in Owners, NEW k \in Keys
      PROVE  LET q == sem'[p][k].queue
             IN  /\ \A i \in 1..Len(q) :
                     /\ fibers'[q[i]].pc = "waiting"
                     /\ fibers'[q[i]].o = p
                     /\ NextPermit(fibers'[q[i]]) = k
                 /\ \A i, j \in 1..Len(q) : q[i] = q[j] => i = j
  <2> DEFINE q == sem[p][k].queue
             qq == sem'[p][k].queue
  <2>q. /\ q \in Seq(Fibers)
        /\ \A i \in 1..Len(q) : /\ q[i] \in Fibers
                                /\ fibers[q[i]].pc = "waiting"
                                /\ fibers[q[i]].o = p
                                /\ NextPermit(fibers[q[i]]) = k
        /\ \A i, j \in 1..Len(q) : q[i] = q[j] => i = j
    BY <1>q
  <2>w. \A g \in Woken(o, id) : \A i \in 1..Len(q) : g = q[i] =>
            p = o /\ k \in Freed(o, id) /\ Queued(o, k) /\ g = q[1] /\ 1 \in 1..Len(q)
    <3> SUFFICES ASSUME NEW g \in Woken(o, id), NEW i \in 1..Len(q), g = q[i]
                 PROVE  p = o /\ k \in Freed(o, id) /\ Queued(o, k) /\ g = q[1]
                        /\ 1 \in 1..Len(q)
      OBVIOUS
    <3>1. PICK h \in Freed(o, id) :
                Queued(o, h) /\ g = sem[o][h].queue[1]
                /\ 1 \in 1..Len(sem[o][h].queue)
      BY <1>3
    <3>2. fibers[g].o = o /\ NextPermit(fibers[g]) = h
      BY <3>1, <1>c, <1>q
    <3>3. fibers[g].o = p /\ NextPermit(fibers[g]) = k
      BY <2>q
    <3> QED
      BY <3>1, <3>2, <3>3
  <2>1. CASE p = o /\ k \in Freed(o, id) /\ Queued(o, k)
    <3>1. /\ qq = Tail(q) /\ Len(Tail(q)) = Len(q) - 1 /\ 1 \in 1..Len(q)
          /\ \A i \in 1..Len(Tail(q)) :
                i + 1 \in 1..Len(q) /\ Tail(q)[i] = q[i + 1]
      BY <2>1, <1>1, <2>q, TailOne DEF Queued
    <3> HIDE DEF q, qq
    <3>2. ASSUME NEW i \in 1..Len(qq)
          PROVE  qq[i] \in Fibers /\ qq[i] \notin Woken(o, id)
                 /\ i + 1 \in 1..Len(q) /\ qq[i] = q[i + 1]
      <4>1. i + 1 \in 1..Len(q) /\ qq[i] = q[i + 1] /\ i + 1 # 1
        BY <3>1
      <4>2. q[i + 1] # q[1]
        BY <3>1, <4>1, <2>q
      <4> QED
        BY <4>1, <4>2, <2>q, <2>w
    <3>3. \A i \in 1..Len(qq) : /\ fibers'[qq[i]].pc = "waiting"
                                /\ fibers'[qq[i]].o = p
                                /\ NextPermit(fibers'[qq[i]]) = k
      BY <3>2, <1>2, <2>q
    <3>4. \A i, j \in 1..Len(qq) : qq[i] = qq[j] => i = j
      <4> SUFFICES ASSUME NEW i \in 1..Len(qq), NEW j \in 1..Len(qq),
                          qq[i] = qq[j]
                   PROVE  i = j
        OBVIOUS
      <4>1. i + 1 = j + 1
        BY <3>2, <2>q
      <4> QED
        BY <4>1, <3>1, <2>q
    <3> QED
      BY <3>3, <3>4 DEF qq
  <2>2. CASE p = o /\ k \in Freed(o, id) /\ ~Queued(o, k)
    <3>1. qq = <<>>
      BY <2>2, <1>1
    <3> QED
      BY <3>1
  <2>3. CASE ~(p = o /\ k \in Freed(o, id))
    <3>1. qq = q
      BY <2>3, <1>1
    <3>2. \A i \in 1..Len(q) : q[i] \notin Woken(o, id)
      BY <2>3, <2>w
    <3> HIDE DEF q, qq
    <3>3. \A i \in 1..Len(q) : fibers'[q[i]] = fibers[q[i]]
      BY <3>2, <1>2, <2>q
    <3> QED
      BY <3>1, <3>3, <2>q DEF qq
  <2> QED
    BY <2>1, <2>2, <2>3
<1> QED
  BY <1>4 DEF QueuesHoldWaiters, NextPermit

----------------------------------------------------------------------------
(* Drains *)

\* listDueTriggers returns snapshots of triggers that exist.
LEMMA ListDueType ==
    ASSUME StoreTypeOK, NEW at
    PROVE  ListDue(at) \in SUBSET Snapshot
BY DEF StoreTypeOK, ListDue, Snapshots, Available, Exists, Snapshot

\* A drain that is claiming, deciding or releasing has the fields for it.
LEMMA DrainFields ==
    ASSUME IInv, NEW d \in Drains, drains[d].pc # "idle"
    PROVE  /\ drains[d] \in DrainRecord
           /\ drains[d].o \in Owners /\ drains[d].at \in Nat
           /\ drains[d].due \in SUBSET Snapshot /\ drains[d].poll \in BOOLEAN
           /\ drains[d].pc # "claim" => /\ drains[d].cur \in Snapshot
                                       /\ drains[d].cur.t \in Triggers
                                       /\ drains[d].cur.snap \in TriggerRecord
<1>1. drains[d] \in DrainRecord
  BY DEF IInv, TypeOK, Idle
<1> QED
  BY <1>1 DEF DrainRecord, Snapshot

\* The end of a drain's turn, whatever is left to do.
LEMMA GoEffect ==
    ASSUME IInv, NEW d \in Drains, drains[d].pc # "idle",
           NEW due \in SUBSET Snapshot, Go(d, due)
    PROVE  /\ drains' \in [Drains -> DrainRecord \cup {Idle}]
           /\ eng' \in [Owners -> Engine]
<1>1. Claiming(drains[d].o, drains[d].at, due, drains[d].poll) \in DrainRecord
  BY DrainFields DEF DrainRecord, Claiming
<1>2. Arm(eng[drains[d].o]) \in Engine
  BY DrainFields, EngineFields DEF IInv, TypeOK
<1> QED
  BY <1>1, <1>2 DEF Go, IInv, TypeOK

\* tick and listDueTriggers.
LEMMA TickIInv ==
    ASSUME IInv, NEW o \in Owners, Tick(o)
    PROVE  IInv'
<1>1. eng' \in [Owners -> Engine]
  BY EngineFields DEF IInv, TypeOK, Tick
<1>2. drains' \in [Drains -> DrainRecord \cup {Idle}]
  <2>1. Claiming(o, now, ListDue(now), TRUE) \in DrainRecord
    BY ListDueType DEF IInv, TypeOK, StoreTypeOK, DrainRecord, Claiming
  <2> QED
    BY <2>1 DEF IInv, TypeOK, Tick
<1>3. QueuesHoldWaiters'
  BY QueuesKept DEF Tick
<1> QED
  BY <1>1, <1>2, <1>3 DEF IInv, TypeOK, StoreTypeOK, Tick, storeVars

\* The loop of drainDueTriggers, and claimTrigger.
LEMMA DrainClaimIInv ==
    ASSUME IInv, NEW d \in Drains, DrainClaim(d)
    PROVE  IInv'
<1> DEFINE r == drains[d]
<1>1. r \in DrainRecord /\ r.o \in Owners /\ r.at \in Nat
      /\ r.due \in SUBSET Snapshot /\ r.poll \in BOOLEAN /\ r.pc = "claim"
  BY DrainFields DEF DrainClaim
<1>2. PICK s \in r.due :
        \/ /\ Go(d, {})
           /\ UNCHANGED trig
        \/ /\ Claimable(s.t, r.o)
           /\ ClaimTrigger(s.t, r.o, LeaseMs)
           /\ drains' = [drains EXCEPT ![d] =
                [pc |-> "decide", o |-> r.o, at |-> r.at,
                 due |-> r.due \ {s}, poll |-> r.poll, cur |-> s]]
           /\ UNCHANGED eng
        \/ /\ Go(d, r.due \ {s})
           /\ UNCHANGED trig
  BY DEF DrainClaim
<1>3. s \in Snapshot /\ s.t \in Triggers
  BY <1>1 DEF Snapshot
<1>u. UNCHANGED <<now, runs, jobs, ids, sem, fibers, mon, edit, strays, ops>>
  BY DEF DrainClaim
<1> HIDE DEF r
<1>4. /\ drains' \in [Drains -> DrainRecord \cup {Idle}]
      /\ eng' \in [Owners -> Engine]
      /\ trig' \in [Triggers -> TriggerRecord \cup {NoTrigger}]
  <2>t. /\ drains \in [Drains -> DrainRecord \cup {Idle}]
        /\ eng \in [Owners -> Engine] /\ StoreTypeOK
        /\ trig \in [Triggers -> TriggerRecord \cup {NoTrigger}]
    BY DEF IInv, TypeOK, StoreTypeOK
  <2>1. CASE Go(d, {}) /\ UNCHANGED trig
    BY <2>1, <2>t, <1>1, GoEffect DEF r
  <2>2. CASE /\ Claimable(s.t, r.o)
             /\ ClaimTrigger(s.t, r.o, LeaseMs)
             /\ drains' = [drains EXCEPT ![d] =
                   [pc |-> "decide", o |-> r.o, at |-> r.at,
                    due |-> r.due \ {s}, poll |-> r.poll, cur |-> s]]
             /\ UNCHANGED eng
    <3>1. [pc |-> "decide", o |-> r.o, at |-> r.at, due |-> r.due \ {s},
           poll |-> r.poll, cur |-> s] \in DrainRecord
      BY <1>1, <1>3 DEF DrainRecord
    <3>2. trig' \in [Triggers -> TriggerRecord \cup {NoTrigger}]
      BY <2>2, <2>t, <1>1, <1>3, ClaimType
    <3> QED
      BY <2>2, <2>t, <3>1, <3>2
  <2>3. CASE Go(d, r.due \ {s}) /\ UNCHANGED trig
    BY <2>3, <2>t, <1>1, GoEffect DEF r
  <2> QED
    BY <1>2, <2>1, <2>2, <2>3
<1>5. QueuesHoldWaiters'
  BY <1>u, QueuesKept
<1> QED
  BY <1>4, <1>5, <1>u DEF IInv, TypeOK, StoreTypeOK

\* processTrigger for a job that is gone.
LEMMA DrainJobMissingIInv ==
    ASSUME IInv, NEW d \in Drains, DrainJobMissing(d)
    PROVE  IInv'
<1>1. /\ drains' \in [Drains -> DrainRecord \cup {Idle}]
      /\ eng' \in [Owners -> Engine]
  BY DrainFields, GoEffect DEF DrainJobMissing, Deciding
<1>2. trig' \in [Triggers -> TriggerRecord \cup {NoTrigger}]
  BY DrainFields, ReleaseType DEF DrainJobMissing, Deciding, IInv, TypeOK
<1>3. QueuesHoldWaiters'
  BY QueuesKept DEF DrainJobMissing
<1> QED
  BY <1>1, <1>2, <1>3 DEF IInv, TypeOK, StoreTypeOK, DrainJobMissing

\* processTrigger's release after a skip.
LEMMA DrainReleaseIInv ==
    ASSUME IInv, NEW d \in Drains, DrainRelease(d)
    PROVE  IInv'
<1>1. /\ drains' \in [Drains -> DrainRecord \cup {Idle}]
      /\ eng' \in [Owners -> Engine]
  BY DrainFields, GoEffect DEF DrainRelease
<1>2. trig' \in [Triggers -> TriggerRecord \cup {NoTrigger}]
  BY DrainFields, ReleaseType DEF DrainRelease, IInv, TypeOK
<1>3. QueuesHoldWaiters'
  BY QueuesKept DEF DrainRelease
<1> QED
  BY <1>1, <1>2, <1>3 DEF IInv, TypeOK, StoreTypeOK, DrainRelease

\* skipOverdueRuns: the snapshot goes back with an occurrence of the plan.
LEMMA DrainSkipIInv ==
    ASSUME IInv, NEW d \in Drains, DrainSkip(d)
    PROVE  IInv'
<1> DEFINE r == drains[d]
           t == r.cur.t
           m == SkippedTo(r)
           new == [r.cur.snap EXCEPT !.next = m, !.rid = NewId(t), !.fail = 0]
<1>1. /\ r \in DrainRecord /\ r.pc = "decide" /\ r.at \in Nat
      /\ t \in Triggers /\ r.cur.snap \in TriggerRecord
  BY DrainFields DEF DrainSkip, Deciding
<1>3. /\ \/ DeleteTrigger(t) /\ UNCHANGED ids
         \/ m \in Nat /\ GenerateRunId(t) /\ UpsertTrigger(t, new)
      /\ drains' = [drains EXCEPT ![d].pc = "release"]
      /\ UNCHANGED <<now, runs, jobs, eng, sem, fibers, mon, edit, strays, ops>>
  BY DEF DrainSkip
<1> HIDE DEF m
<1>4. /\ trig' \in [Triggers -> TriggerRecord \cup {NoTrigger}]
      /\ ids' \in [Triggers -> 0..MaxRuns]
  <2>1. CASE DeleteTrigger(t) /\ UNCHANGED ids
    BY <2>1, <1>1, DeleteType DEF IInv, TypeOK
  <2>2. CASE m \in Nat /\ GenerateRunId(t) /\ UpsertTrigger(t, new)
    <3>1. ids' \in [Triggers -> 0..MaxRuns] /\ NewId(t) \in 1..MaxRuns
      BY <2>2, <1>1, NewIdType DEF IInv, TypeOK
    <3>2. new \in TriggerRecord
      BY <2>2, <3>1, <1>1 DEF TriggerRecord
    <3> QED
      BY <2>2, <3>1, <3>2, <1>1, UpsertType DEF IInv, TypeOK
  <2> QED
    BY <1>3, <2>1, <2>2
<1>5. drains' \in [Drains -> DrainRecord \cup {Idle}]
  <2>1. [r EXCEPT !.pc = "release"] \in DrainRecord
    BY <1>1 DEF DrainRecord
  <2> QED
    BY <1>3, <2>1 DEF IInv, TypeOK
<1>6. QueuesHoldWaiters'
  BY <1>3, QueuesKept
<1> QED
  BY <1>3, <1>4, <1>5, <1>6 DEF IInv, TypeOK, StoreTypeOK

\* skipOverdueRuns when the plan throws.
LEMMA DrainGivesUpIInv ==
    ASSUME IInv, NEW d \in Drains, DrainGivesUp(d)
    PROVE  IInv'
<1>1. drains' \in [Drains -> DrainRecord \cup {Idle}]
  BY DEF DrainGivesUp, IInv, TypeOK
<1>2. QueuesHoldWaiters'
  BY QueuesKept DEF DrainGivesUp
<1> QED
  BY <1>1, <1>2 DEF IInv, TypeOK, StoreTypeOK, DrainGivesUp, storeVars

\* The call of executeRun.
LEMMA DrainDispatchIInv ==
    ASSUME IInv, NEW d \in Drains, DrainDispatch(d)
    PROVE  IInv'
<1> DEFINE r == drains[d]
           run == [pc |-> "acquire", o |-> r.o, t |-> r.cur.t,
                   snap |-> r.cur.snap, sched |-> r.cur.snap.next,
                   held |-> {}, since |-> 0, ok |-> FALSE]
<1>1. /\ r \in DrainRecord /\ r.pc = "decide" /\ r.o \in Owners
      /\ r.due \in SUBSET Snapshot
      /\ r.cur.t \in Triggers /\ r.cur.snap \in TriggerRecord
  BY DrainFields DEF DrainDispatch, Deciding
<1>2. run \in FiberRecord
  <2>1. r.cur.snap.next \in Nat
    BY <1>1 DEF TriggerRecord
  <2> QED
    BY <1>1, <2>1 DEF FiberRecord
<1>3. PICK f \in Fibers : fibers[f] = Idle /\ Acquire(f, run)
  BY DEF DrainDispatch
<1>4. fibers[f].pc # "waiting" /\ run.pc = "acquire"
  BY <1>3 DEF Idle
<1>5. /\ fibers' \in [Fibers -> FiberRecord \cup {Idle}]
      /\ sem' \in [Owners -> [Keys -> Sem]]
      /\ QueuesHoldWaiters'
  <2> HIDE DEF run
  <2> QED
    BY <1>2, <1>3, <1>4, AcquireEffect
<1>6. /\ drains' \in [Drains -> DrainRecord \cup {Idle}]
      /\ eng' \in [Owners -> Engine]
  BY <1>1, GoEffect DEF DrainDispatch
<1> QED
  BY <1>5, <1>6 DEF IInv, TypeOK, StoreTypeOK, DrainDispatch, storeVars, Sem

----------------------------------------------------------------------------
(* Runs *)

\* A fiber in use has the fields of a run.
LEMMA FiberFields ==
    ASSUME IInv, NEW f \in Fibers, fibers[f].pc # "idle"
    PROVE  /\ fibers[f] \in FiberRecord
           /\ fibers[f].o \in Owners /\ fibers[f].t \in Triggers
           /\ fibers[f].snap \in TriggerRecord /\ fibers[f].held \in SUBSET Keys
           /\ fibers[f].sched \in Nat
           /\ Attempt(fibers[f].snap) \in Nat \ {0}
           /\ RunId(f) \in RunIds /\ RunId(f)[1] = fibers[f].t
<1>1. fibers[f] \in FiberRecord
  BY DEF IInv, TypeOK, Idle
<1>2. fibers[f].t \in Triggers /\ fibers[f].snap \in TriggerRecord
  BY <1>1 DEF FiberRecord
<1>3. fibers[f].snap.fail \in Nat /\ fibers[f].snap.rid \in 1..MaxRuns
  BY <1>2 DEF TriggerRecord
<1> QED
  BY <1>1, <1>2, <1>3 DEF FiberRecord, Attempt, RunId, RunIds

\* Rewriting one trigger's record after a run or a stall: the retry, the
\* plan's next occurrence, or the deletion.
LEMMA SettleType ==
    ASSUME IInv, NEW t \in Triggers, NEW r \in TriggerRecord,
           NEW n,
           \/ /\ GenerateRunId(t)
              /\ UpsertTrigger(t, [r EXCEPT
                    !.next = now + RetryDelay, !.rid = NewId(t), !.fail = @ + 1])
           \/ /\ n \in Nat
              /\ GenerateRunId(t)
              /\ UpsertTrigger(t, [r EXCEPT
                    !.next = n, !.rid = NewId(t), !.fail = 0])
           \/ DeleteTrigger(t) /\ UNCHANGED ids
    PROVE  /\ trig' \in [Triggers -> TriggerRecord \cup {NoTrigger}]
           /\ ids' \in [Triggers -> 0..MaxRuns]
<1>t. /\ StoreTypeOK /\ ids \in [Triggers -> 0..MaxRuns]
      /\ trig \in [Triggers -> TriggerRecord \cup {NoTrigger}]
  BY DEF IInv, TypeOK, StoreTypeOK
<1>1. CASE /\ GenerateRunId(t)
           /\ UpsertTrigger(t, [r EXCEPT
                !.next = now + RetryDelay, !.rid = NewId(t), !.fail = @ + 1])
  <2>1. now + RetryDelay \in Nat
    <3>1. RetryDelay \in Nat
      BY SchedulerAssumption
    <3> QED
      BY <3>1, <1>t DEF StoreTypeOK
  <2>2. ids' \in [Triggers -> 0..MaxRuns] /\ NewId(t) \in 1..MaxRuns
    BY <1>1, <1>t, NewIdType
  <2>3. [r EXCEPT !.next = now + RetryDelay, !.rid = NewId(t), !.fail = @ + 1]
            \in TriggerRecord
    <3> DEFINE later == now + RetryDelay
               more == r.fail + 1
    <3>1. later \in Nat /\ more \in Nat
      BY <2>1 DEF TriggerRecord
    <3> HIDE DEF later, more
    <3>2. [r EXCEPT !.next = later, !.rid = NewId(t), !.fail = more]
              \in TriggerRecord
      BY <2>2, <3>1 DEF TriggerRecord
    <3> QED
      BY <3>2 DEF later, more
  <2> QED
    BY <1>1, <1>t, <2>2, <2>3, UpsertType
<1>2. CASE /\ n \in Nat
           /\ GenerateRunId(t)
           /\ UpsertTrigger(t, [r EXCEPT
                !.next = n, !.rid = NewId(t), !.fail = 0])
  <2>2. ids' \in [Triggers -> 0..MaxRuns] /\ NewId(t) \in 1..MaxRuns
    BY <1>2, <1>t, NewIdType
  <2>3. [r EXCEPT !.next = n, !.rid = NewId(t), !.fail = 0] \in TriggerRecord
    BY <1>2, <2>2 DEF TriggerRecord
  <2> QED
    BY <1>2, <1>t, <2>2, <2>3, UpsertType
<1>3. CASE DeleteTrigger(t) /\ UNCHANGED ids
  BY <1>3, <1>t, DeleteType
<1> QED
  BY <1>1, <1>2, <1>3

\* acquireCapacity's second semaphore.
LEMMA AcquireMoreIInv ==
    ASSUME IInv, NEW f \in Fibers, AcquireMore(f)
    PROVE  IInv'
<1>1. fibers[f].pc = "acquire" /\ fibers[f] \in FiberRecord
  BY FiberFields DEF AcquireMore
<1>2. /\ fibers' \in [Fibers -> FiberRecord \cup {Idle}]
      /\ sem' \in [Owners -> [Keys -> Sem]]
      /\ QueuesHoldWaiters'
  BY <1>1, AcquireEffect DEF AcquireMore
<1> QED
  BY <1>2 DEF IInv, TypeOK, StoreTypeOK, AcquireMore, storeVars, Sem

\* The continuation of a woken waiter.
LEMMA ResumeIInv ==
    ASSUME IInv, NEW f \in Fibers, Resume(f)
    PROVE  IInv'
<1> DEFINE r == fibers[f]
           k == NextPermit(r)
<1>1. r.pc = "woken" /\ r \in FiberRecord /\ r.o \in Owners
      /\ r.held \in SUBSET Keys /\ k \in Keys
  BY FiberFields, KeyTypes DEF Resume
<1>2. /\ sem' = [sem EXCEPT ![r.o][k].cur = @ + 1]
      /\ fibers' = [fibers EXCEPT ![f].pc = "acquire", ![f].held = @ \cup {k}]
      /\ UNCHANGED <<now, storeVars, ids, eng, drains, mon, edit, strays, ops>>
  BY DEF Resume
<1>t. /\ fibers \in [Fibers -> FiberRecord \cup {Idle}]
      /\ sem \in [Owners -> [Keys -> Sem]]
  BY DEF IInv, TypeOK, Sem
<1>s. sem[r.o][k] \in Sem /\ sem[r.o][k].cur \in Nat
  BY <1>1, <1>t DEF Sem
<1> HIDE DEF k
<1>3. fibers' \in [Fibers -> FiberRecord \cup {Idle}]
  <2>1. [r EXCEPT !.pc = "acquire", !.held = @ \cup {k}] \in FiberRecord
    BY <1>1 DEF FiberRecord
  <2>2. fibers' = [fibers EXCEPT
            ![f] = [r EXCEPT !.pc = "acquire", !.held = @ \cup {k}]]
    BY <1>1, <1>2, <1>t DEF FiberRecord
  <2> QED
    BY <2>1, <2>2, <1>t
<1>4. sem' \in [Owners -> [Keys -> Sem]]
  <2> DEFINE one == [sem[r.o][k] EXCEPT !.cur = @ + 1]
  <2>1. one \in Sem
    BY <1>s DEF Sem
  <2>2. sem' = [sem EXCEPT ![r.o] = [@ EXCEPT ![k] = one]]
    BY <1>1, <1>2, <1>t
  <2> HIDE DEF one, r
  <2> QED
    BY <1>1, <2>1, <2>2, <1>t
<1>5. \A o \in Owners, j \in Keys : sem'[o][j].queue = sem[o][j].queue
  BY <1>1, <1>2, <1>t, <1>s DEF Sem
<1>6. \A g \in Fibers : fibers[g].pc = "waiting" => fibers'[g] = fibers[g]
  BY <1>1, <1>2, <1>t
<1>7. QueuesHoldWaiters'
  BY <1>5, <1>6, QueuesKept
<1> QED
  BY <1>2, <1>3, <1>4, <1>7 DEF IInv, TypeOK, StoreTypeOK, storeVars, Sem

\* The type of the runs table through recordRunEnd and touchRun.
LEMMA RunUpdateType ==
    ASSUME StoreTypeOK, NEW id \in RunIds, NEW st \in Statuses,
           RecordRunEnd(id, st) \/ TouchRun(id)
    PROVE  runs' \in [RunIds -> RunRecord \cup {NoRun}]
<1>1. runs[id] # NoRun => runs[id] \in RunRecord
  BY DEF StoreTypeOK
<1>2. runs[id] # NoRun => [runs[id] EXCEPT !.status = st] \in RunRecord
  BY <1>1 DEF RunRecord
<1>3. runs[id] # NoRun => [runs[id] EXCEPT !.beat = now] \in RunRecord
  BY <1>1 DEF RunRecord, StoreTypeOK
<1> QED
  BY <1>2, <1>3 DEF StoreTypeOK, RecordRunEnd, TouchRun

\* recordRunStart and the entry in runCapacity.
LEMMA StartRunIInv ==
    ASSUME IInv, NEW f \in Fibers, StartRun(f)
    PROVE  IInv'
<1> DEFINE r == fibers[f]
<1>1. /\ r.pc = "acquire" /\ r \in FiberRecord /\ r.o \in Owners
      /\ r.held \in SUBSET Keys /\ r.sched \in Nat
      /\ Attempt(r.snap) \in Nat \ {0} /\ RunId(f) \in RunIds
  BY FiberFields DEF StartRun
<1>2. eng' \in [Owners -> Engine]
  <2>1. [eng[r.o] EXCEPT !.cap[RunId(f)] = r.held] \in Engine
    BY <1>1, EngineFields DEF IInv, TypeOK
  <2>2. eng' = [eng EXCEPT ![r.o] = [@ EXCEPT !.cap[RunId(f)] = r.held]]
    BY DEF StartRun
  <2> QED
    BY <2>1, <2>2 DEF IInv, TypeOK
<1>3. runs' \in [RunIds -> RunRecord \cup {NoRun}]
  <2>1. [status |-> "running", attempt |-> Attempt(r.snap), sched |-> r.sched,
         beat |-> now] \in RunRecord
    BY <1>1 DEF RunRecord, Statuses, IInv, TypeOK, StoreTypeOK
  <2> QED
    BY <2>1, <1>1 DEF StartRun, RecordRunStart, IInv, TypeOK, StoreTypeOK
<1>4. /\ fibers' \in [Fibers -> FiberRecord \cup {Idle}]
      /\ \A g \in Fibers : g # f => fibers'[g] = fibers[g]
  <2> DEFINE at == IF TimeoutMs > 0 THEN now ELSE 0
  <2>1. at \in Nat
    BY DEF IInv, TypeOK, StoreTypeOK
  <2>2. fibers' = [fibers EXCEPT ![f].pc = "running", ![f].since = at]
    BY DEF StartRun
  <2> HIDE DEF at
  <2>3. [r EXCEPT !.pc = "running", !.since = at] \in FiberRecord
    BY <1>1, <2>1 DEF FiberRecord
  <2>4. fibers' = [fibers EXCEPT
            ![f] = [r EXCEPT !.pc = "running", !.since = at]]
    BY <1>1, <2>2 DEF FiberRecord, IInv, TypeOK
  <2> QED
    BY <2>3, <2>4 DEF IInv, TypeOK
<1>5. QueuesHoldWaiters'
  BY <1>1, <1>4, QueuesKept DEF StartRun
<1> QED
  BY <1>2, <1>3, <1>4, <1>5 DEF IInv, TypeOK, StoreTypeOK, StartRun

\* A heartbeat.
LEMMA TouchIInv ==
    ASSUME IInv, NEW id \in Executing, Touch(id)
    PROVE  IInv'
<1>1. id \in RunIds
  BY FiberFields DEF Executing, Running, IInv, TypeOK, StrayRecord
<1>2. runs' \in [RunIds -> RunRecord \cup {NoRun}]
  BY <1>1, RunUpdateType DEF Touch, Statuses, IInv, TypeOK
<1>3. QueuesHoldWaiters'
  BY QueuesKept DEF Touch
<1> QED
  BY <1>2, <1>3 DEF IInv, TypeOK, StoreTypeOK, Touch

\* Client calls are counted up to the bound.
LEMMA HappensType ==
    ASSUME IInv, NEW op, Happens(op)
    PROVE  ops' \in 0..MaxOps
BY SchedulerAssumption DEF IInv, TypeOK, Happens

\* recordRunEnd, after the handler's return or the timeout.
LEMMA SettledTypes ==
    ASSUME IInv, NEW f \in Fibers, NEW ok \in BOOLEAN, Settled(f, ok)
    PROVE  /\ runs' \in [RunIds -> RunRecord \cup {NoRun}]
           /\ fibers' \in [Fibers -> FiberRecord \cup {Idle}]
           /\ QueuesHoldWaiters'
           /\ RunId(f) \in RunIds /\ fibers[f].o \in Owners
<1> DEFINE r == fibers[f]
<1>1. /\ r.pc = "running" /\ r \in FiberRecord /\ RunId(f) \in RunIds
      /\ r.o \in Owners
  BY FiberFields DEF Settled, Running
<1>2. runs' \in [RunIds -> RunRecord \cup {NoRun}]
  <2>1. (IF ok THEN "completed" ELSE "failed") \in Statuses
    BY DEF Statuses
  <2> QED
    BY <1>1, <2>1, RunUpdateType DEF Settled, IInv, TypeOK
<1>3. /\ fibers' \in [Fibers -> FiberRecord \cup {Idle}]
      /\ \A g \in Fibers : g # f => fibers'[g] = fibers[g]
  <2>1. [r EXCEPT !.pc = "ended", !.since = 0, !.ok = ok] \in FiberRecord
    BY <1>1 DEF FiberRecord
  <2>2. fibers' = [fibers EXCEPT
            ![f] = [r EXCEPT !.pc = "ended", !.since = 0, !.ok = ok]]
    BY <1>1 DEF Settled, FiberRecord, IInv, TypeOK
  <2> QED
    BY <2>1, <2>2 DEF IInv, TypeOK
<1>4. QueuesHoldWaiters'
  BY <1>1, <1>3, QueuesKept DEF Settled
<1> QED
  BY <1>1, <1>2, <1>3, <1>4

\* The handler's return.
LEMMA FinishIInv ==
    ASSUME IInv, NEW f \in Fibers, NEW ok \in BOOLEAN, Finish(f, ok)
    PROVE  IInv'
<1>1. Settled(f, ok) /\ UNCHANGED <<strays, ops>>
  BY DEF Finish
<1>2. /\ runs' \in [RunIds -> RunRecord \cup {NoRun}]
      /\ fibers' \in [Fibers -> FiberRecord \cup {Idle}]
      /\ QueuesHoldWaiters'
  BY <1>1, SettledTypes
<1> QED
  BY <1>1, <1>2 DEF IInv, TypeOK, StoreTypeOK, Settled

\* The runner's timeout, with a handler that goes on or one that ends.
LEMMA TimesOutIInv ==
    ASSUME IInv, NEW f \in Fibers, TimesOut(f)
    PROVE  IInv'
<1>1. Settled(f, FALSE)
  BY DEF TimesOut
<1>2. /\ runs' \in [RunIds -> RunRecord \cup {NoRun}]
      /\ fibers' \in [Fibers -> FiberRecord \cup {Idle}]
      /\ QueuesHoldWaiters'
      /\ RunId(f) \in RunIds /\ fibers[f].o \in Owners
  BY <1>1, SettledTypes
<1>3. strays' \subseteq StrayRecord /\ ops' \in 0..MaxOps
  <2>1. CASE UNCHANGED <<strays, ops>>
    BY <2>1 DEF IInv, TypeOK
  <2>2. CASE /\ Happens("stray")
             /\ strays' = strays \cup {[o |-> fibers[f].o, id |-> RunId(f)]}
    <3>1. [o |-> fibers[f].o, id |-> RunId(f)] \in StrayRecord
      BY <1>2 DEF StrayRecord
    <3> QED
      BY <2>2, <3>1, HappensType DEF IInv, TypeOK
  <2> QED
    BY <2>1, <2>2 DEF TimesOut
<1> QED
  BY <1>1, <1>2, <1>3 DEF IInv, TypeOK, StoreTypeOK, Settled

\* A stray's end.
LEMMA StrayEndsIInv ==
    ASSUME IInv, NEW x \in strays, StrayEnds(x)
    PROVE  IInv'
BY QueuesKept DEF StrayEnds, IInv, TypeOK, StoreTypeOK, storeVars

\* The end of a run the monitor has dealt with.
LEMMA WrapHandledIInv ==
    ASSUME IInv, NEW f \in Fibers, WrapHandled(f)
    PROVE  IInv'
<1> DEFINE r == fibers[f]
           id == RunId(f)
<1>1. /\ r.pc = "ended" /\ r \in FiberRecord /\ r.o \in Owners
      /\ r.t \in Triggers /\ id \in RunIds
  BY FiberFields DEF WrapHandled
<1>2. /\ sem' = SemFreed(r.o, id)
      /\ fibers' = [FibersWoken(r.o, id) EXCEPT ![f] = Idle]
      /\ eng' = [eng EXCEPT ![r.o].cap[id] = {},
                            ![r.o].handled = @ \ {id},
                            ![r.o].wait = @ \ {f}]
      /\ ReleaseTrigger(r.t, r.o)
      /\ UNCHANGED <<now, runs, jobs, ids, drains, mon, edit, strays, ops>>
  BY DEF WrapHandled
<1> HIDE DEF id
<1>3. /\ sem' \in [Owners -> [Keys -> Sem]]
      /\ fibers' \in [Fibers -> FiberRecord \cup {Idle}]
      /\ \A g \in Fibers : g # f => fibers'[g] = FibersWoken(r.o, id)[g]
  BY <1>1, <1>2, FreedEffect
<1>4. eng' \in [Owners -> Engine]
  <2> DEFINE e == eng[r.o]
  <2>1. e \in Engine /\ eng \in [Owners -> Engine]
    BY <1>1 DEF IInv, TypeOK
  <2>2. e.handled \ {id} \in SUBSET RunIds /\ e.wait \ {f} \in SUBSET Fibers
    BY <2>1 DEF Engine
  <2>3. [[[e EXCEPT !.cap[id] = {}] EXCEPT !.handled = e.handled \ {id}]
            EXCEPT !.wait = e.wait \ {f}] \in Engine
    BY <1>1, <2>1, <2>2, EngineFields
  <2>4. eng' = [eng EXCEPT ![r.o] =
            [[[e EXCEPT !.cap[id] = {}] EXCEPT !.handled = e.handled \ {id}]
                EXCEPT !.wait = e.wait \ {f}]]
    BY <1>1, <1>2, <2>1 DEF Engine
  <2> QED
    BY <2>1, <2>3, <2>4
<1>5. trig' \in [Triggers -> TriggerRecord \cup {NoTrigger}]
  BY <1>1, <1>2, ReleaseType DEF IInv, TypeOK
<1>6. QueuesHoldWaiters'
  BY <1>1, <1>2, <1>3, FreedQueues
<1> QED
  BY <1>2, <1>3, <1>4, <1>5, <1>6 DEF IInv, TypeOK, StoreTypeOK, Sem

\* The end of a run: capacity given back, the trigger written.
LEMMA WrapIInv ==
    ASSUME IInv, NEW f \in Fibers, Wrap(f)
    PROVE  IInv'
<1> DEFINE r == fibers[f]
           id == RunId(f)
           m == NextRun(r.t, r.sched)
<1>1. /\ r.pc = "ended" /\ r \in FiberRecord /\ r.o \in Owners
      /\ r.t \in Triggers /\ r.snap \in TriggerRecord /\ id \in RunIds
  BY FiberFields DEF Wrap
<1>2. /\ sem' = SemFreed(r.o, id)
      /\ fibers' = [FibersWoken(r.o, id) EXCEPT ![f].pc = "release"]
      /\ eng' = [eng EXCEPT ![r.o].cap[id] = {}]
      /\ UNCHANGED <<now, runs, jobs, drains, mon, edit, strays, ops>>
  BY DEF Wrap
<1>3. \/ /\ GenerateRunId(r.t)
         /\ UpsertTrigger(r.t, [r.snap EXCEPT
               !.next = now + RetryDelay, !.rid = NewId(r.t), !.fail = @ + 1])
      \/ /\ m \in Nat
         /\ GenerateRunId(r.t)
         /\ UpsertTrigger(r.t, [r.snap EXCEPT
               !.next = m, !.rid = NewId(r.t), !.fail = 0])
      \/ DeleteTrigger(r.t) /\ UNCHANGED ids
  BY DEF Wrap, Settle
<1>5. /\ trig' \in [Triggers -> TriggerRecord \cup {NoTrigger}]
      /\ ids' \in [Triggers -> 0..MaxRuns]
  <2> HIDE DEF m
  <2> QED
    BY <1>1, <1>3, SettleType
<1> HIDE DEF id
<1>6. /\ sem' \in [Owners -> [Keys -> Sem]]
      /\ FibersWoken(r.o, id) \in [Fibers -> FiberRecord \cup {Idle}]
      /\ FibersWoken(r.o, id)[f] = r
  BY <1>1, <1>2, FreedEffect
<1>7. /\ fibers' \in [Fibers -> FiberRecord \cup {Idle}]
      /\ \A g \in Fibers : g # f => fibers'[g] = FibersWoken(r.o, id)[g]
  <2>1. [r EXCEPT !.pc = "release"] \in FiberRecord
    BY <1>1 DEF FiberRecord
  <2> QED
    BY <1>2, <1>6, <2>1
<1>8. eng' \in [Owners -> Engine]
  <2>1. [eng[r.o] EXCEPT !.cap[id] = {}] \in Engine
    BY <1>1, EngineFields DEF IInv, TypeOK
  <2>2. eng' = [eng EXCEPT ![r.o] = [@ EXCEPT !.cap[id] = {}]]
    BY <1>2
  <2> QED
    BY <2>1, <2>2 DEF IInv, TypeOK
<1>9. QueuesHoldWaiters'
  BY <1>1, <1>2, <1>7, FreedQueues
<1> QED
  BY <1>2, <1>5, <1>6, <1>7, <1>8, <1>9 DEF IInv, TypeOK, StoreTypeOK, Sem

\* The end of a run whose plan gives up.
LEMMA WrapGivesUpIInv ==
    ASSUME IInv, NEW f \in Fibers, WrapGivesUp(f)
    PROVE  IInv'
<1> DEFINE r == fibers[f]
           id == RunId(f)
<1>1. r.pc = "ended" /\ r \in FiberRecord /\ r.o \in Owners /\ id \in RunIds
  BY FiberFields DEF WrapGivesUp
<1>2. /\ sem' = SemFreed(r.o, id)
      /\ fibers' = [FibersWoken(r.o, id) EXCEPT ![f] = Idle]
      /\ eng' = [eng EXCEPT ![r.o].cap[id] = {}, ![r.o].wait = @ \ {f}]
      /\ UNCHANGED <<now, storeVars, ids, drains, mon, edit, strays, ops>>
  BY DEF WrapGivesUp
<1> HIDE DEF id
<1>3. /\ sem' \in [Owners -> [Keys -> Sem]]
      /\ fibers' \in [Fibers -> FiberRecord \cup {Idle}]
      /\ \A g \in Fibers : g # f => fibers'[g] = FibersWoken(r.o, id)[g]
  BY <1>1, <1>2, FreedEffect
<1>4. eng' \in [Owners -> Engine]
  <2> DEFINE e == eng[r.o]
  <2>1. e \in Engine /\ eng \in [Owners -> Engine]
    BY <1>1 DEF IInv, TypeOK
  <2>2. e.wait \ {f} \in SUBSET Fibers
    BY <2>1 DEF Engine
  <2>3. [[e EXCEPT !.cap[id] = {}] EXCEPT !.wait = e.wait \ {f}] \in Engine
    BY <1>1, <2>1, <2>2, EngineFields
  <2>4. eng' = [eng EXCEPT ![r.o] =
            [[e EXCEPT !.cap[id] = {}] EXCEPT !.wait = e.wait \ {f}]]
    BY <1>1, <1>2, <2>1 DEF Engine
  <2> QED
    BY <2>1, <2>3, <2>4
<1>5. QueuesHoldWaiters'
  BY <1>1, <1>2, <1>3, FreedQueues
<1> QED
  BY <1>2, <1>3, <1>4, <1>5 DEF IInv, TypeOK, StoreTypeOK, storeVars, Sem

\* The release after the write.
LEMMA ReleaseLeaseIInv ==
    ASSUME IInv, NEW f \in Fibers, ReleaseLease(f)
    PROVE  IInv'
<1> DEFINE r == fibers[f]
<1>1. r.pc = "release" /\ r \in FiberRecord /\ r.o \in Owners /\ r.t \in Triggers
  BY FiberFields DEF ReleaseLease
<1>2. trig' \in [Triggers -> TriggerRecord \cup {NoTrigger}]
  BY <1>1, ReleaseType DEF IInv, TypeOK, ReleaseLease
<1>3. eng' \in [Owners -> Engine]
  <2>1. eng[r.o] \in Engine /\ eng[r.o].wait \ {f} \in SUBSET Fibers
    BY <1>1 DEF IInv, TypeOK, Engine
  <2>2. [eng[r.o] EXCEPT !.wait = @ \ {f}] \in Engine
    BY <2>1, EngineFields
  <2> QED
    BY <2>2 DEF IInv, TypeOK, ReleaseLease
<1>4. /\ fibers' \in [Fibers -> FiberRecord \cup {Idle}]
      /\ \A g \in Fibers : g # f => fibers'[g] = fibers[g]
  BY DEF IInv, TypeOK, ReleaseLease
<1>5. QueuesHoldWaiters'
  BY <1>1, <1>4, QueuesKept DEF ReleaseLease
<1> QED
  BY <1>2, <1>3, <1>4, <1>5 DEF IInv, TypeOK, StoreTypeOK, ReleaseLease

----------------------------------------------------------------------------
(* The stalled monitor *)

\* findStalledRuns returns runs on record.
LEMMA StalledType ==
    ASSUME StoreTypeOK, NEW timeout
    PROVE  StalledRuns(timeout) \in SUBSET RunSnapshot
<1> SUFFICES ASSUME NEW i \in RunIds, runs[i] # NoRun
             PROVE  [id |-> i, sched |-> runs[i].sched,
                     attempt |-> runs[i].attempt] \in RunSnapshot
  BY DEF StalledRuns
<1>1. runs[i] \in RunRecord
  BY DEF StoreTypeOK
<1> QED
  BY <1>1 DEF RunRecord, RunSnapshot

\* The monitor between two runs of a scan.
LEMMA MonitoringType ==
    ASSUME NEW todo \in SUBSET RunSnapshot
    PROVE  Monitoring(todo) \in MonitorRecord \cup {Idle}
BY DEF Monitoring, MonitorRecord

\* A monitor at work has the fields for it.
LEMMA MonFields ==
    ASSUME IInv, NEW o \in Owners, mon[o].pc # "idle"
    PROVE  /\ mon[o] \in MonitorRecord /\ mon[o].todo \in SUBSET RunSnapshot
           /\ mon[o].pc # "next" =>
                /\ mon[o].run.id \in RunIds /\ mon[o].run.id[1] \in Triggers
                /\ mon[o].run \in RunSnapshot
                /\ mon[o].snap \in TriggerRecord \cup {NoTrigger}
           /\ mon[o].pc \in {"settle", "release"} =>
                mon[o].snap \in TriggerRecord /\ mon[o].run.sched \in Nat
<1>1. mon[o] \in MonitorRecord
  BY DEF IInv, TypeOK, Idle
<1>2. mon[o].pc # "next" => mon[o].run \in RunSnapshot
  BY <1>1 DEF MonitorRecord
<1>3. mon[o].pc # "next" => mon[o].run.id \in RunIds /\ mon[o].run.sched \in Nat
  BY <1>2 DEF RunSnapshot
<1> QED
  BY <1>1, <1>2, <1>3 DEF MonitorRecord, RunIds

\* checkStalledRuns.
LEMMA MonScanIInv ==
    ASSUME IInv, NEW o \in Owners, MonScan(o)
    PROVE  IInv'
<1>1. mon' \in [Owners -> MonitorRecord \cup {Idle}]
  BY StalledType, MonitoringType DEF MonScan, IInv, TypeOK
<1>2. QueuesHoldWaiters'
  BY QueuesKept DEF MonScan
<1> QED
  BY <1>1, <1>2 DEF IInv, TypeOK, StoreTypeOK, MonScan, storeVars

\* handleStalledRun up to getTrigger's answer.
LEMMA MonGetIInv ==
    ASSUME IInv, NEW o \in Owners, MonGet(o)
    PROVE  IInv'
<1>1. mon' \in [Owners -> MonitorRecord \cup {Idle}]
  <2>1. PICK run \in mon[o].todo : mon' = [mon EXCEPT ![o] =
            IF run.id \in eng[o].handled THEN Monitoring(@.todo \ {run})
            ELSE [pc |-> "end", todo |-> @.todo \ {run}, run |-> run,
                  snap |-> trig[run.id[1]]]]
    BY DEF MonGet
  <2>2. mon[o].todo \in SUBSET RunSnapshot /\ run \in RunSnapshot
    BY MonFields DEF MonGet
  <2>3. run.id \in RunIds /\ run.id[1] \in Triggers
    BY <2>2 DEF RunSnapshot, RunIds
  <2>4. trig[run.id[1]] \in TriggerRecord \cup {NoTrigger}
    BY <2>3 DEF IInv, TypeOK, StoreTypeOK
  <2>5. [pc |-> "end", todo |-> mon[o].todo \ {run}, run |-> run,
         snap |-> trig[run.id[1]]] \in MonitorRecord
    BY <2>2, <2>4 DEF MonitorRecord
  <2>6. Monitoring(mon[o].todo \ {run}) \in MonitorRecord \cup {Idle}
    BY <2>2, MonitoringType
  <2> QED
    BY <2>1, <2>5, <2>6 DEF IInv, TypeOK
<1>2. QueuesHoldWaiters'
  BY QueuesKept DEF MonGet
<1> QED
  BY <1>1, <1>2 DEF IInv, TypeOK, StoreTypeOK, MonGet, storeVars

\* noteHandledRun and releaseRunCapacity.
LEMMA GiveUpEffect ==
    ASSUME IInv, NEW o \in Owners, NEW id \in RunIds, GiveUpRun(o, id)
    PROVE  /\ sem' \in [Owners -> [Keys -> Sem]]
           /\ fibers' \in [Fibers -> FiberRecord \cup {Idle}]
           /\ eng' \in [Owners -> Engine]
           /\ QueuesHoldWaiters'
<1>1. eng' \in [Owners -> Engine]
  <2> DEFINE e == eng[o]
  <2>1. e \in Engine /\ eng \in [Owners -> Engine]
    BY DEF IInv, TypeOK
  <2>2. e.handled \cup {id} \in SUBSET RunIds
    BY <2>1 DEF Engine
  <2>3. [[e EXCEPT !.cap[id] = {}] EXCEPT !.handled = e.handled \cup {id}]
            \in Engine
    BY <2>1, <2>2, EngineFields
  <2>4. eng' = [eng EXCEPT ![o] =
            [[e EXCEPT !.cap[id] = {}] EXCEPT !.handled = e.handled \cup {id}]]
    BY <2>1 DEF GiveUpRun, Engine
  <2> QED
    BY <2>1, <2>3, <2>4
<1> QED
  BY <1>1, FreedEffect, FreedQueues DEF GiveUpRun

\* handleStalledRun for a trigger or job that is gone.
LEMMA MonForgetIInv ==
    ASSUME IInv, NEW o \in Owners, MonForget(o)
    PROVE  IInv'
<1>1. /\ mon[o].run.id \in RunIds /\ mon[o].run.id[1] \in Triggers
      /\ mon[o].todo \in SUBSET RunSnapshot
  BY MonFields DEF MonForget
<1>2. /\ sem' \in [Owners -> [Keys -> Sem]]
      /\ fibers' \in [Fibers -> FiberRecord \cup {Idle}]
      /\ eng' \in [Owners -> Engine]
      /\ QueuesHoldWaiters'
  BY <1>1, GiveUpEffect DEF MonForget
<1>3. trig' \in [Triggers -> TriggerRecord \cup {NoTrigger}]
  BY <1>1, ReleaseType DEF MonForget, IInv, TypeOK, StoreTypeOK
<1>4. mon' \in [Owners -> MonitorRecord \cup {Idle}]
  BY <1>1, MonitoringType DEF MonForget, IInv, TypeOK
<1> QED
  BY <1>2, <1>3, <1>4 DEF IInv, TypeOK, StoreTypeOK, MonForget, Sem

\* handleStalledRun's recordRunEnd.
LEMMA MonRecordEndIInv ==
    ASSUME IInv, NEW o \in Owners, MonRecordEnd(o)
    PROVE  IInv'
<1>1. /\ mon[o].run.id \in RunIds /\ mon[o] \in MonitorRecord
      /\ mon[o].pc = "end" /\ mon[o].snap # NoTrigger
  BY MonFields DEF MonRecordEnd
<1>2. runs' \in [RunIds -> RunRecord \cup {NoRun}]
  BY <1>1, RunUpdateType DEF MonRecordEnd, Statuses, IInv, TypeOK
<1>3. mon' \in [Owners -> MonitorRecord \cup {Idle}]
  <2>1. [mon[o] EXCEPT !.pc = "settle"] \in MonitorRecord
    BY <1>1 DEF MonitorRecord
  <2> QED
    BY <2>1 DEF MonRecordEnd, IInv, TypeOK
<1>4. QueuesHoldWaiters'
  BY QueuesKept DEF MonRecordEnd
<1> QED
  BY <1>2, <1>3, <1>4 DEF IInv, TypeOK, StoreTypeOK, MonRecordEnd

\* handleStalledRun's write of the trigger.
LEMMA MonSettleIInv ==
    ASSUME IInv, NEW o \in Owners, MonSettle(o)
    PROVE  IInv'
<1> DEFINE t == mon[o].run.id[1]
           n == NextRun(t, mon[o].run.sched)
           snap == mon[o].snap
<1>1. /\ mon[o].run.id \in RunIds /\ t \in Triggers /\ snap \in TriggerRecord
      /\ mon[o] \in MonitorRecord /\ mon[o].pc = "settle"
  BY MonFields DEF MonSettle
<1>2. /\ sem' \in [Owners -> [Keys -> Sem]]
      /\ fibers' \in [Fibers -> FiberRecord \cup {Idle}]
      /\ eng' \in [Owners -> Engine]
      /\ QueuesHoldWaiters'
  BY <1>1, GiveUpEffect DEF MonSettle
<1>3. \/ /\ GenerateRunId(t)
         /\ UpsertTrigger(t, [snap EXCEPT
               !.next = now + RetryDelay, !.rid = NewId(t), !.fail = @ + 1])
      \/ /\ n \in Nat
         /\ GenerateRunId(t)
         /\ UpsertTrigger(t, [snap EXCEPT
               !.next = n, !.rid = NewId(t), !.fail = 0])
      \/ DeleteTrigger(t) /\ UNCHANGED ids
  BY DEF MonSettle, Settle
<1>5. /\ trig' \in [Triggers -> TriggerRecord \cup {NoTrigger}]
      /\ ids' \in [Triggers -> 0..MaxRuns]
  <2> HIDE DEF t, n, snap
  <2> QED
    BY <1>1, <1>3, SettleType
<1>6. mon' \in [Owners -> MonitorRecord \cup {Idle}]
  <2>1. [mon[o] EXCEPT !.pc = "release"] \in MonitorRecord
    BY <1>1 DEF MonitorRecord
  <2> QED
    BY <2>1 DEF MonSettle, IInv, TypeOK
<1> QED
  BY <1>2, <1>5, <1>6 DEF IInv, TypeOK, StoreTypeOK, MonSettle, Sem

\* handleStalledRun when the plan throws.
LEMMA MonGivesUpIInv ==
    ASSUME IInv, NEW o \in Owners, MonGivesUp(o)
    PROVE  IInv'
<1>1. mon[o].run.id \in RunIds
  BY MonFields DEF MonGivesUp
<1>2. /\ sem' \in [Owners -> [Keys -> Sem]]
      /\ fibers' \in [Fibers -> FiberRecord \cup {Idle}]
      /\ eng' \in [Owners -> Engine]
      /\ QueuesHoldWaiters'
  BY <1>1, GiveUpEffect DEF MonGivesUp
<1>3. mon' \in [Owners -> MonitorRecord \cup {Idle}]
  BY DEF MonGivesUp, IInv, TypeOK
<1> QED
  BY <1>2, <1>3 DEF IInv, TypeOK, StoreTypeOK, MonGivesUp, storeVars, Sem

\* handleStalledRun's release.
LEMMA MonReleaseIInv ==
    ASSUME IInv, NEW o \in Owners, MonRelease(o)
    PROVE  IInv'
<1>1. mon[o].run.id[1] \in Triggers /\ mon[o].todo \in SUBSET RunSnapshot
  BY MonFields DEF MonRelease
<1>2. trig' \in [Triggers -> TriggerRecord \cup {NoTrigger}]
  BY <1>1, ReleaseType DEF MonRelease, IInv, TypeOK
<1>3. mon' \in [Owners -> MonitorRecord \cup {Idle}]
  BY <1>1, MonitoringType DEF MonRelease, IInv, TypeOK
<1>4. QueuesHoldWaiters'
  BY QueuesKept DEF MonRelease
<1> QED
  BY <1>2, <1>3, <1>4 DEF IInv, TypeOK, StoreTypeOK, MonRelease

----------------------------------------------------------------------------
(* The API, failures and the clock *)

\* A trigger that schedule or executeNow creates.
LEMMA NewTriggerType ==
    ASSUME NEW n \in Nat, NEW rid \in 1..MaxRuns
    PROVE  NewTrigger(n, rid) \in TriggerRecord
BY DEF NewTrigger, TriggerRecord

\* schedule.
LEMMA ScheduleIInv ==
    ASSUME IInv, NEW o \in Owners, NEW t \in Triggers, Schedule(o, t)
    PROVE  IInv'
<1> DEFINE m == NextRun(t, now)
<1>1. m \in Nat
  BY DEF Schedule
<1>2. /\ GenerateRunId(t) /\ UpsertTrigger(t, NewTrigger(m, NewId(t)))
      /\ eng' = [eng EXCEPT ![o] = Arm(@)]
      /\ UNCHANGED <<now, runs, jobs, sem, drains, fibers, mon, edit, strays>>
  BY DEF Schedule
<1>3. ops' \in 0..MaxOps
  BY HappensType DEF Schedule, IInv, TypeOK
<1> HIDE DEF m
<1>4. ids' \in [Triggers -> 0..MaxRuns] /\ NewId(t) \in 1..MaxRuns
  BY <1>2, NewIdType DEF IInv, TypeOK
<1>5. trig' \in [Triggers -> TriggerRecord \cup {NoTrigger}]
  BY <1>1, <1>2, <1>4, NewTriggerType, UpsertType DEF IInv, TypeOK
<1>6. eng' \in [Owners -> Engine]
  BY <1>2, EngineFields DEF IInv, TypeOK
<1>7. QueuesHoldWaiters'
  BY <1>2, QueuesKept
<1> QED
  BY <1>2, <1>3, <1>4, <1>5, <1>6, <1>7 DEF IInv, TypeOK, StoreTypeOK

\* executeNow.
LEMMA ExecuteNowIInv ==
    ASSUME IInv, NEW o \in Owners, NEW t \in Triggers, ExecuteNow(o, t)
    PROVE  IInv'
<1> DEFINE m == NextRun(t, now)
           new == NewTrigger(m, NewId(t))
<1>1. m \in Nat
  BY DEF ExecuteNow
<1>2. /\ GenerateRunId(t) /\ UpsertTrigger(t, new)
      /\ UNCHANGED <<now, runs, jobs, eng, sem, fibers, mon, edit, strays>>
      /\ \E d \in Drains : drains' = [drains EXCEPT ![d] =
                Claiming(o, now, {[t |-> t, snap |-> new]}, FALSE)]
  BY DEF ExecuteNow
<1>3. ops' \in 0..MaxOps
  BY HappensType DEF ExecuteNow
<1> HIDE DEF m
<1>4. ids' \in [Triggers -> 0..MaxRuns] /\ NewId(t) \in 1..MaxRuns
  BY <1>2, NewIdType DEF IInv, TypeOK
<1>5. new \in TriggerRecord
  BY <1>1, <1>4, NewTriggerType
<1>6. trig' \in [Triggers -> TriggerRecord \cup {NoTrigger}]
  <2> HIDE DEF new
  <2> QED
    BY <1>2, <1>5, UpsertType DEF IInv, TypeOK
<1>7. drains' \in [Drains -> DrainRecord \cup {Idle}]
  <2> HIDE DEF new
  <2>1. Claiming(o, now, {[t |-> t, snap |-> new]}, FALSE) \in DrainRecord
    BY <1>5 DEF IInv, TypeOK, StoreTypeOK, Claiming, DrainRecord, Snapshot
  <2> QED
    BY <1>2, <2>1 DEF IInv, TypeOK
<1>8. QueuesHoldWaiters'
  BY <1>2, QueuesKept
<1> QED
  BY <1>2, <1>3, <1>4, <1>6, <1>7, <1>8 DEF IInv, TypeOK, StoreTypeOK

\* pauseAll, resumeAll, shutdown and a job's unregister.
LEMMA EngineCallIInv ==
    ASSUME IInv, NEW o \in Owners,
           \/ PauseAll(o) \/ ResumeAll(o) \/ Shutdown(o)
           \/ \E j \in Jobs : UnregisterJob(o, j)
    PROVE  IInv'
<1>e. eng[o] \in Engine /\ eng \in [Owners -> Engine]
  BY DEF IInv, TypeOK
<1>1. CASE PauseAll(o)
  <2>1. eng' \in [Owners -> Engine]
    BY <1>1, <1>e DEF PauseAll, Engine
  <2> QED
    BY <1>1, <2>1, HappensType, QueuesKept
       DEF IInv, TypeOK, StoreTypeOK, PauseAll, storeVars
<1>2. CASE ResumeAll(o)
  <2>1. [eng[o] EXCEPT !.paused = FALSE] \in Engine
    BY <1>e, EngineFields
  <2>2. eng' \in [Owners -> Engine]
    BY <1>2, <1>e, <2>1, EngineFields DEF ResumeAll
  <2> QED
    BY <1>2, <2>2, QueuesKept
       DEF IInv, TypeOK, StoreTypeOK, ResumeAll, storeVars
<1>3. CASE Shutdown(o)
  <2>1. ActiveFibers(o) \in SUBSET Fibers
    BY DEF ActiveFibers
  <2>2. [eng[o] EXCEPT !.stopped = TRUE, !.wait = ActiveFibers(o)] \in Engine
    BY <1>e, <2>1 DEF Engine
  <2>3. eng' = [eng EXCEPT ![o] =
            [eng[o] EXCEPT !.stopped = TRUE, !.wait = ActiveFibers(o)]]
    BY <1>3, <1>e DEF Shutdown, Engine
  <2> QED
    BY <1>3, <1>e, <2>2, <2>3, HappensType, QueuesKept
       DEF IInv, TypeOK, StoreTypeOK, Shutdown, storeVars
<1>4. ASSUME NEW j \in Jobs, UnregisterJob(o, j) PROVE IInv'
  <2>1. eng' \in [Owners -> Engine]
    BY <1>4, <1>e DEF UnregisterJob, Engine
  <2>2. jobs' \in [Jobs -> JobStates]
    BY <1>4 DEF UnregisterJob, RemoveJob, IInv, TypeOK, StoreTypeOK, JobStates
  <2> QED
    BY <1>4, <2>1, <2>2, HappensType, QueuesKept
       DEF IInv, TypeOK, StoreTypeOK, UnregisterJob
<1> QED
  BY <1>1, <1>2, <1>3, <1>4

\* The calls of job and trigger handles.
LEMMA HandleCallIInv ==
    ASSUME IInv,
           \/ \E j \in Jobs, b \in BOOLEAN : PauseJob(j, b)
           \/ \E op \in {"pause", "resume", "cancel"}, t \in Triggers :
                EditGet(op, t)
           \/ EditPut
    PROVE  IInv'
<1>1. ASSUME NEW j \in Jobs, NEW b \in BOOLEAN, PauseJob(j, b) PROVE IInv'
  <2>1. jobs' \in [Jobs -> JobStates]
    BY <1>1 DEF PauseJob, SetJobPaused, IInv, TypeOK, StoreTypeOK, JobStates
  <2> QED
    BY <1>1, <2>1, HappensType, QueuesKept DEF IInv, TypeOK, StoreTypeOK, PauseJob
<1>2. ASSUME NEW op \in {"pause", "resume", "cancel"}, NEW t \in Triggers,
             EditGet(op, t)
      PROVE  IInv'
  <2>1. trig[t] \in TriggerRecord
    BY <1>2 DEF EditGet, Exists, IInv, TypeOK, StoreTypeOK
  <2>2. edit' \in EditRecord \cup {Idle}
    BY <1>2, <2>1 DEF EditGet, EditRecord
  <2> QED
    BY <1>2, <2>2, HappensType, QueuesKept
       DEF IInv, TypeOK, StoreTypeOK, EditGet, storeVars
<1>3. CASE EditPut
  <2>1. edit.t \in Triggers /\ edit.snap \in TriggerRecord
    BY <1>3 DEF EditPut, EditRecord, IInv, TypeOK
  <2>2. [edit.snap EXCEPT !.paused = (edit.op = "pause")] \in TriggerRecord
    BY <2>1 DEF TriggerRecord
  <2>3. trig' \in [Triggers -> TriggerRecord \cup {NoTrigger}]
    BY <1>3, <2>1, <2>2, UpsertType, DeleteType DEF EditPut, IInv, TypeOK
  <2> QED
    BY <1>3, <2>3, QueuesKept DEF IInv, TypeOK, StoreTypeOK, EditPut
<1> QED
  BY <1>1, <1>2, <1>3

\* What bootstrap sets up.
LEMMA StartedType ==
    ASSUME StoreTypeOK
    PROVE  Started \in Engine
BY DEF Started, NoCap, Engine

\* A crash empties what the process held in memory.
LEMMA CrashIInv ==
    ASSUME IInv, NEW o \in Owners, Crash(o)
    PROVE  IInv'
<1> DEFINE none == [k \in Keys |-> [cur |-> 0, queue |-> <<>>]]
<1>t. /\ fibers \in [Fibers -> FiberRecord \cup {Idle}]
      /\ sem \in [Owners -> [Keys -> Sem]]
      /\ eng \in [Owners -> Engine] /\ eng[o] \in Engine
  BY DEF IInv, TypeOK, Sem
<1>1. eng' \in [Owners -> Engine]
  <2> DEFINE e == [eng[o] EXCEPT !.up = FALSE, !.armed = FALSE, !.handled = {},
                                 !.cap = NoCap, !.wait = {}]
  <2>1. NoCap \in [RunIds -> SUBSET Keys]
    BY DEF NoCap
  <2>2. e \in Engine
    BY <1>t, <2>1 DEF Engine
  <2>3. eng' = [eng EXCEPT ![o] = e]
    BY <1>t DEF Crash, Engine
  <2> QED
    BY <1>t, <2>2, <2>3
<1>2. sem' = [sem EXCEPT ![o] = none]
  BY DEF Crash
<1>3. sem' \in [Owners -> [Keys -> Sem]]
  <2>1. none \in [Keys -> Sem]
    BY DEF Sem
  <2> QED
    BY <1>t, <1>2, <2>1
<1>4. drains' \in [Drains -> DrainRecord \cup {Idle}]
  BY DEF Crash, IInv, TypeOK
<1>5. fibers' = [f \in Fibers |->
            IF f \in ActiveFibers(o) THEN Idle ELSE fibers[f]]
  BY DEF Crash
<1>6. fibers' \in [Fibers -> FiberRecord \cup {Idle}]
  BY <1>t, <1>5
<1>7. mon' \in [Owners -> MonitorRecord \cup {Idle}]
  BY DEF Crash, IInv, TypeOK
<1>8. QueuesHoldWaiters'
  <2>1. ASSUME NEW p \in Owners, NEW k \in Keys
        PROVE  LET q == sem'[p][k].queue
               IN  /\ \A i \in 1..Len(q) :
                       /\ fibers'[q[i]].pc = "waiting"
                       /\ fibers'[q[i]].o = p
                       /\ NextPermit(fibers'[q[i]]) = k
                   /\ \A i, j \in 1..Len(q) : q[i] = q[j] => i = j
    <3>1. CASE p = o
      <4>1. sem'[p][k].queue = <<>>
        BY <3>1, <1>2, <1>t
      <4> QED
        BY <4>1
    <3>2. CASE p # o
      <4> DEFINE q == sem[p][k].queue
      <4>1. sem'[p][k].queue = q
        BY <3>2, <1>2, <1>t
      <4>2. q \in Seq(Fibers)
        BY <1>t DEF Sem
      <4>3. \A i \in 1..Len(q) : q[i] \in Fibers
        BY <4>2, ElementOfSeq
      <4>4. /\ \A i \in 1..Len(q) : /\ fibers[q[i]].pc = "waiting"
                                    /\ fibers[q[i]].o = p
                                    /\ NextPermit(fibers[q[i]]) = k
            /\ \A i, j \in 1..Len(q) : q[i] = q[j] => i = j
        BY DEF IInv, QueuesHoldWaiters
      <4> HIDE DEF q
      <4>5. \A i \in 1..Len(q) : fibers'[q[i]] = fibers[q[i]]
        BY <3>2, <4>3, <4>4, <1>5 DEF ActiveFibers
      <4> QED
        BY <4>1, <4>4, <4>5
    <3> QED
      BY <3>1, <3>2
  <2> QED
    BY <2>1 DEF QueuesHoldWaiters, NextPermit
<1>9. ops' \in 0..MaxOps /\ strays' \subseteq StrayRecord
  BY HappensType DEF Crash, IInv, TypeOK
<1> QED
  BY <1>1, <1>3, <1>4, <1>6, <1>7, <1>8, <1>9
     DEF Crash, IInv, TypeOK, StoreTypeOK, storeVars, Sem

\* bootstrap after a crash.
LEMMA RestartIInv ==
    ASSUME IInv, NEW o \in Owners, Restart(o)
    PROVE  IInv'
<1>1. eng' \in [Owners -> Engine]
  BY StartedType DEF Restart, IInv, TypeOK
<1> QED
  BY <1>1, QueuesKept DEF Restart, IInv, TypeOK, StoreTypeOK, storeVars

\* The clock.
LEMMA AdvanceIInv ==
    ASSUME IInv, Advance
    PROVE  IInv'
BY QueuesKept DEF Advance, IInv, TypeOK, StoreTypeOK, storeVars

----------------------------------------------------------------------------
(* The invariant *)

\* The invariant holds of new engines on an empty store.
LEMMA InitIInv == Init => IInv
<1> SUFFICES ASSUME Init PROVE IInv
  OBVIOUS
<1>1. StoreTypeOK
  BY DEF Init, StoreTypeOK, JobStates
<1>2. Started \in Engine
  BY <1>1, StartedType
<1>3. TypeOK
  BY <1>1, <1>2, SchedulerAssumption, StoreAssumption DEF Init, TypeOK
<1>4. \A o \in Owners, k \in Keys : sem[o][k].queue = <<>>
  BY DEF Init
<1>5. QueuesHoldWaiters
  BY <1>4 DEF QueuesHoldWaiters
<1> QED
  BY <1>3, <1>5 DEF IInv

\* Every step keeps the invariant.
LEMMA StepIInv == IInv /\ [Next]_vars => IInv'
<1> SUFFICES ASSUME IInv, [Next]_vars PROVE IInv'
  OBVIOUS
<1>1. ASSUME NEW o \in Owners,
             Tick(o) \/ MonScan(o) \/ MonStep(o) \/ Crash(o) \/ Restart(o)
      PROVE  IInv'
  BY <1>1, TickIInv, MonScanIInv, MonGetIInv, MonForgetIInv, MonRecordEndIInv,
     MonSettleIInv, MonGivesUpIInv, MonReleaseIInv, CrashIInv, RestartIInv
     DEF MonStep
<1>2. ASSUME NEW d \in Drains, DrainStep(d) PROVE IInv'
  BY <1>2, DrainClaimIInv, DrainJobMissingIInv, DrainSkipIInv,
     DrainGivesUpIInv, DrainDispatchIInv, DrainReleaseIInv DEF DrainStep
<1>3. ASSUME NEW f \in Fibers,
             FiberStep(f) \/ TimesOut(f) \/ \E ok \in BOOLEAN : Finish(f, ok)
      PROVE  IInv'
  BY <1>3, AcquireMoreIInv, ResumeIInv, StartRunIInv, WrapHandledIInv,
     WrapIInv, WrapGivesUpIInv, ReleaseLeaseIInv, TimesOutIInv, FinishIInv
     DEF FiberStep
<1>h. ASSUME \/ \E id \in Executing : Touch(id)
             \/ \E x \in strays : StrayEnds(x)
      PROVE  IInv'
  BY <1>h, TouchIInv, StrayEndsIInv
<1>4. CASE Call
  <2>1. ASSUME NEW o \in Owners, NEW t \in Triggers,
               Schedule(o, t) \/ ExecuteNow(o, t)
        PROVE  IInv'
    BY <2>1, ScheduleIInv, ExecuteNowIInv
  <2>2. ASSUME NEW o \in Owners,
               \/ PauseAll(o) \/ ResumeAll(o) \/ Shutdown(o)
               \/ \E j \in Jobs : UnregisterJob(o, j)
        PROVE  IInv'
    BY <2>2, EngineCallIInv
  <2>3. CASE \/ \E j \in Jobs, b \in BOOLEAN : PauseJob(j, b)
             \/ \E op \in {"pause", "resume", "cancel"}, t \in Triggers :
                  EditGet(op, t)
             \/ EditPut
    BY <2>3, HandleCallIInv
  <2> QED
    BY <1>4, <2>1, <2>2, <2>3 DEF Call
<1>5. CASE Advance
  BY <1>5, AdvanceIInv
<1>6. CASE UNCHANGED vars
  BY <1>6, QueuesKept DEF vars, IInv, TypeOK, StoreTypeOK
<1> QED
  BY <1>1, <1>2, <1>3, <1>h, <1>4, <1>5, <1>6 DEF Next

\* The strengthened invariant, over any number of engines, triggers, fibers
\* and drains, with crashes and a slow store.
THEOREM Invariance == Spec => []IInv
BY InitIInv, StepIInv, PTL DEF Spec

\* Every table, lease and continuation of scheduler.ts keeps its shape: in
\* particular a drain never decides, and a run never ends, on a record it
\* does not have, and planners never hand an undefined instant to the store.
THEOREM TypeCorrect == Spec => []TypeOK
<1>1. IInv => TypeOK
  BY DEF IInv
<1> QED
  BY <1>1, Invariance, PTL

\* What a semaphore's queue holds are runs that wait for its permit, each
\* once, so that a release never wakes a run that does not wait for it.
THEOREM WakesWaiters == Spec => []QueuesHoldWaiters
<1>1. IInv => QueuesHoldWaiters
  BY DEF IInv
<1> QED
  BY <1>1, Invariance, PTL

----------------------------------------------------------------------------
(* Attempts.  What bounds them is that no copy of a trigger, in the store,  *)
(* in a drain's list, with a run or in a handle's hands, has as many        *)
(* failures on it as the job has attempts: whichever of them is written     *)
(* back last, the next attempt is within the bound.                         *)

Fits(t, snap) == Attempt(snap) <= MaxAttempts[JobOf[t]]

TableFits == \A t \in Triggers : Exists(t) => Fits(t, trig[t])

DrainsFit ==
    \A d \in Drains : drains[d].pc # "idle" =>
        /\ \A s \in drains[d].due : Fits(s.t, s.snap)
        /\ drains[d].pc # "claim" => Fits(drains[d].cur.t, drains[d].cur.snap)

FibersFit ==
    \A f \in Fibers :
        fibers[f].pc # "idle" => Fits(fibers[f].t, fibers[f].snap)

EditFits == edit # Idle => Fits(edit.t, edit.snap)

MonitorsRest == \A o \in Owners : mon[o] = Idle

AInv ==
    /\ TableFits /\ DrainsFit /\ FibersFit /\ EditFits
    /\ AttemptsWithin(0) /\ MonitorsRest

\* The monitor never finds a run whose heartbeat is overdue.
NoneStalled == StalledRuns(StalledAfter) = {}

\* A record with no failure on it, or one more while a retry is left.
LEMMA FitsSettled ==
    ASSUME NEW t \in Triggers, NEW r \in TriggerRecord, NEW n, NEW rid
    PROVE  /\ Fits(t, [r EXCEPT !.next = n, !.rid = rid, !.fail = 0])
           /\ RetryLeft(JobOf[t], Attempt(r))
                => Fits(t, [r EXCEPT !.next = n, !.rid = rid, !.fail = @ + 1])
           /\ Fits(t, NewTrigger(n, rid))
<1>1. MaxAttempts[JobOf[t]] \in Nat \ {0}
  BY SchedulerAssumption
<1>2. r.fail \in Nat
  BY DEF TriggerRecord
<1>3. /\ [r EXCEPT !.next = n, !.rid = rid, !.fail = 0].fail = 0
      /\ [r EXCEPT !.next = n, !.rid = rid, !.fail = @ + 1].fail = r.fail + 1
      /\ NewTrigger(n, rid).fail = 0
  BY DEF TriggerRecord, NewTrigger
<1> QED
  BY <1>1, <1>2, <1>3 DEF Fits, Attempt, RetryLeft

\* Writing or deleting a trigger whose failures fit.
LEMMA TableUpsert ==
    ASSUME StoreTypeOK, TableFits, NEW t \in Triggers,
           \/ DeleteTrigger(t)
           \/ \E r \in TriggerRecord : Fits(t, r) /\ UpsertTrigger(t, r)
    PROVE  TableFits'
BY DEF StoreTypeOK, TableFits, UpsertTrigger, DeleteTrigger, Exists, Fits, Attempt

\* Claims and releases do not touch the failure count.
LEMMA TableLease ==
    ASSUME StoreTypeOK, TableFits, NEW t \in Triggers, NEW o,
           \/ ReleaseTrigger(t, o)
           \/ Claimable(t, o) /\ ClaimTrigger(t, o, LeaseMs)
    PROVE  TableFits'
<1>1. Exists(t) => trig[t] \in TriggerRecord
  BY DEF StoreTypeOK, Exists
<1>2. ASSUME NEW w, NEW u, Exists(t)
      PROVE  /\ [trig[t] EXCEPT !.owner = w, !.until = u].fail = trig[t].fail
             /\ [trig[t] EXCEPT !.owner = w, !.until = u] # NoTrigger
  BY <1>1, <1>2 DEF TriggerRecord, NoTrigger
<1>3. PICK w, u : \/ trig' = trig
                  \/ /\ Exists(t)
                     /\ trig' = [trig EXCEPT ![t] =
                                    [@ EXCEPT !.owner = w, !.until = u]]
  BY DEF ReleaseTrigger, ClaimTrigger, Claimable
<1>4. ASSUME NEW s \in Triggers, trig'[s] # NoTrigger
      PROVE  trig[s] # NoTrigger /\ trig'[s].fail = trig[s].fail
  <2>1. CASE trig' = trig
    BY <2>1, <1>4
  <2>2. CASE /\ Exists(t)
             /\ trig' = [trig EXCEPT ![t] =
                            [trig[t] EXCEPT !.owner = w, !.until = u]]
    <3> DEFINE r == [trig[t] EXCEPT !.owner = w, !.until = u]
    <3>1. r.fail = trig[t].fail /\ trig[t] # NoTrigger
      BY <2>2, <1>2 DEF Exists
    <3>2. trig' = [trig EXCEPT ![t] = r]
      BY <2>2
    <3> HIDE DEF r
    <3>3. trig'[s] = IF s = t THEN r ELSE trig[s]
      BY <3>2 DEF StoreTypeOK
    <3> QED
      BY <3>1, <3>3, <1>4
  <2> QED
    BY <1>3, <2>1, <2>2
<1> QED
  BY <1>4 DEF TableFits, Exists, Fits, Attempt

\* The due list copies the table.
LEMMA ListDueFits ==
    ASSUME TableFits, NEW at
    PROVE  \A s \in ListDue(at) : Fits(s.t, s.snap)
BY DEF TableFits, ListDue, Snapshots, Available

\* A wake-up leaves a run's trigger and snapshot alone.
LEMMA WokenFit ==
    ASSUME IInv, FibersFit, NEW o \in Owners, NEW id \in RunIds, NEW g \in Fibers,
           FibersWoken(o, id)[g].pc # "idle"
    PROVE  Fits(FibersWoken(o, id)[g].t, FibersWoken(o, id)[g].snap)
<1>1. CASE fibers[g].pc # "waiting"
  BY <1>1, FreedEffect DEF FibersFit
<1>2. CASE fibers[g].pc = "waiting"
  <2>1. fibers[g] \in FiberRecord
    BY <1>2, FiberFields
  <2>2. FibersWoken(o, id)[g].t = fibers[g].t
        /\ FibersWoken(o, id)[g].snap = fibers[g].snap
    BY <2>1 DEF FibersWoken, FiberRecord
  <2> QED
    BY <1>2, <2>2 DEF FibersFit
<1> QED
  BY <1>1, <1>2

\* The end of a drain's turn, with what is left of its list.
LEMMA GoFits ==
    ASSUME IInv, DrainsFit, NEW d \in Drains, NEW due \in SUBSET Snapshot,
           \A s \in due : Fits(s.t, s.snap), Go(d, due)
    PROVE  DrainsFit'
<1> DEFINE c == Claiming(drains[d].o, drains[d].at, due, drains[d].poll)
<1>1. \/ drains' = [drains EXCEPT ![d] = Idle]
      \/ drains' = [drains EXCEPT ![d] = c]
  BY DEF Go
<1>2. c.pc = "claim" /\ c.due = due
  BY DEF Claiming
<1>3. drains \in [Drains -> DrainRecord \cup {Idle}]
  BY DEF IInv, TypeOK
<1> HIDE DEF c
<1> QED
  BY <1>1, <1>2, <1>3 DEF DrainsFit, Idle, Fits, Attempt

\* acquireCapacity leaves a run's snapshot alone.
LEMMA AcquireFits ==
    ASSUME IInv, FibersFit, NEW f \in Fibers, NEW r \in FiberRecord,
           Fits(r.t, r.snap), Acquire(f, r)
    PROVE  FibersFit'
<1>1. fibers \in [Fibers -> FiberRecord \cup {Idle}]
  BY DEF IInv, TypeOK
<1>2. PICK r2 \in FiberRecord : /\ fibers' = [fibers EXCEPT ![f] = r2]
                                /\ r2.t = r.t /\ r2.snap = r.snap
  <2>1. NextPermit(r) \in Keys
    BY KeyTypes
  <2>2. ASSUME NEW x \in {"acquire", "waiting"}
        PROVE  /\ [r EXCEPT !.pc = x] \in FiberRecord
               /\ [r EXCEPT !.pc = x].t = r.t /\ [r EXCEPT !.pc = x].snap = r.snap
    BY DEF FiberRecord
  <2> DEFINE h == r.held \cup {NextPermit(r)}
  <2>3. h \in SUBSET Keys
    BY <2>1 DEF FiberRecord
  <2> HIDE DEF h
  <2>4. /\ [r EXCEPT !.held = h] \in FiberRecord
        /\ [r EXCEPT !.held = h].t = r.t /\ [r EXCEPT !.held = h].snap = r.snap
    BY <2>3 DEF FiberRecord
  <2>5. \/ fibers' = [fibers EXCEPT ![f] = r]
        \/ fibers' = [fibers EXCEPT ![f] = [r EXCEPT !.held = h]]
        \/ fibers' = [fibers EXCEPT ![f] = [r EXCEPT !.pc = "waiting"]]
    BY DEF Acquire, h
  <2> QED
    BY <2>2, <2>4, <2>5
<1> QED
  BY <1>1, <1>2 DEF FibersFit, Fits, Attempt

\* A drain that takes a step is not idle.
LEMMA DrainIsBusy ==
    ASSUME NEW d \in Drains, DrainStep(d)
    PROVE  drains[d].pc # "idle"
BY DEF DrainStep, DrainClaim, DrainJobMissing, DrainSkip, DrainGivesUp,
       DrainDispatch, DrainRelease, Deciding

\* A drain's step on the store and on its own list.
LEMMA DrainStepAInv ==
    ASSUME IInv, AInv, NEW d \in Drains, DrainStep(d)
    PROVE  AInv'
<1> DEFINE r == drains[d]
<1>p. r.pc # "idle"
  BY DrainIsBusy
<1>r. /\ r \in DrainRecord /\ r.o \in Owners /\ r.due \in SUBSET Snapshot
      /\ \A s \in r.due : Fits(s.t, s.snap) /\ s.t \in Triggers
      /\ r.pc # "claim" => /\ r.cur.t \in Triggers /\ r.cur.snap \in TriggerRecord
                           /\ Fits(r.cur.t, r.cur.snap)
  BY <1>p, DrainFields DEF AInv, DrainsFit, Snapshot
<1>t. /\ StoreTypeOK /\ TableFits /\ DrainsFit /\ FibersFit
      /\ drains \in [Drains -> DrainRecord \cup {Idle}]
  BY DEF IInv, TypeOK, AInv
<1>1. CASE DrainClaim(d)
  <2>1. UNCHANGED <<now, runs, jobs, ids, sem, fibers, mon, edit, strays, ops>>
    BY <1>1 DEF DrainClaim
  <2>2. PICK s \in r.due :
        \/ Go(d, {}) /\ UNCHANGED trig
        \/ /\ Claimable(s.t, r.o) /\ ClaimTrigger(s.t, r.o, LeaseMs)
           /\ drains' = [drains EXCEPT ![d] =
                [pc |-> "decide", o |-> r.o, at |-> r.at,
                 due |-> r.due \ {s}, poll |-> r.poll, cur |-> s]]
        \/ Go(d, r.due \ {s}) /\ UNCHANGED trig
    BY <1>1 DEF DrainClaim
  <2> HIDE DEF r
  <2>3. TableFits'
    <3>1. CASE UNCHANGED trig
      BY <3>1, <1>t DEF TableFits, Exists, Fits, Attempt
    <3>2. CASE Claimable(s.t, r.o) /\ ClaimTrigger(s.t, r.o, LeaseMs)
      BY <3>2, <1>t, <1>r, TableLease
    <3> QED
      BY <2>2, <3>1, <3>2
  <2>4. DrainsFit'
    <3>1. CASE Go(d, {})
      BY <3>1, <1>t, GoFits
    <3>2. CASE Go(d, r.due \ {s})
      BY <3>2, <1>t, <1>r, GoFits
    <3>3. CASE drains' = [drains EXCEPT ![d] =
                [pc |-> "decide", o |-> r.o, at |-> r.at,
                 due |-> r.due \ {s}, poll |-> r.poll, cur |-> s]]
      <4> DEFINE n == [pc |-> "decide", o |-> r.o, at |-> r.at,
                       due |-> r.due \ {s}, poll |-> r.poll, cur |-> s]
      <4>1. n.due = r.due \ {s} /\ n.cur = s
        OBVIOUS
      <4>2. \A e \in Drains : drains'[e] = IF e = d THEN n ELSE drains[e]
        BY <3>3, <1>t
      <4> HIDE DEF n
      <4> QED
        BY <4>1, <4>2, <1>t, <1>r DEF DrainsFit, Fits, Attempt
    <3> QED
      BY <2>2, <3>1, <3>2, <3>3
  <2> QED
    BY <2>1, <2>3, <2>4 DEF AInv, FibersFit, EditFits, AttemptsWithin,
        MonitorsRest, Fits, Attempt
<1>2. CASE DrainJobMissing(d) \/ DrainRelease(d)
  <2>1. /\ r.pc # "claim" /\ ReleaseTrigger(r.cur.t, r.o) /\ Go(d, r.due)
        /\ UNCHANGED <<now, runs, jobs, ids, sem, fibers, mon, edit, strays, ops>>
    BY <1>2 DEF DrainJobMissing, DrainRelease, Deciding
  <2>2. TableFits'
    BY <2>1, <1>t, <1>r, TableLease
  <2>3. DrainsFit'
    BY <2>1, <1>t, <1>r, GoFits
  <2> QED
    BY <2>1, <2>2, <2>3 DEF AInv, FibersFit, EditFits, AttemptsWithin,
        MonitorsRest, Fits, Attempt
<1>3. CASE DrainSkip(d)
  <2> DEFINE t == r.cur.t
             m == SkippedTo(r)
             new == [r.cur.snap EXCEPT !.next = m, !.rid = NewId(t), !.fail = 0]
  <2>1. /\ r.pc = "decide"
        /\ DeleteTrigger(t) \/ UpsertTrigger(t, new)
        /\ drains' = [drains EXCEPT ![d].pc = "release"]
        /\ UNCHANGED <<now, runs, jobs, eng, sem, fibers, mon, edit, strays, ops>>
    BY <1>3 DEF DrainSkip, Deciding
  <2>2. IInv'
    BY <1>3, DrainSkipIInv
  <2>3. Fits(t, new)
    BY <1>r, <2>1, FitsSettled
  <2> HIDE DEF m, new
  <2>4. TableFits'
    BY <2>1, <2>2, <2>3, <1>t, <1>r
       DEF TableFits, UpsertTrigger, DeleteTrigger, Exists, Fits, Attempt,
           StoreTypeOK
  <2>5. DrainsFit'
    <3>1. r.pc # "claim" /\ r.due \in SUBSET Snapshot
      BY <2>1, <1>r
    <3>2. PICK n : n = [r EXCEPT !.pc = "release"]
      OBVIOUS
    <3>3. n.due = r.due /\ n.cur = r.cur
      BY <3>2, <2>1, <1>r DEF DrainRecord
    <3>4. \A e \in Drains : drains'[e] = IF e = d THEN n ELSE drains[e]
      BY <3>2, <2>1, <1>t
    <3> QED
      BY <3>1, <3>3, <3>4, <1>t, <1>r DEF DrainsFit, Fits, Attempt
  <2> QED
    BY <2>1, <2>4, <2>5 DEF AInv, FibersFit, EditFits, AttemptsWithin,
        MonitorsRest, Fits, Attempt
<1>4. CASE DrainDispatch(d)
  <2> DEFINE run == [pc |-> "acquire", o |-> r.o, t |-> r.cur.t,
                     snap |-> r.cur.snap, sched |-> r.cur.snap.next,
                     held |-> {}, since |-> 0, ok |-> FALSE]
  <2>1. /\ r.pc = "decide" /\ Go(d, r.due)
        /\ UNCHANGED <<now, storeVars, ids, mon, edit, strays, ops>>
    BY <1>4 DEF DrainDispatch, Deciding
  <2>2. PICK f \in Fibers : Acquire(f, run)
    BY <1>4 DEF DrainDispatch
  <2>3. run \in FiberRecord /\ Fits(run.t, run.snap)
    <3>1. r.cur.snap.next \in Nat
      BY <2>1, <1>r DEF TriggerRecord
    <3> QED
      BY <2>1, <3>1, <1>r DEF FiberRecord
  <2> HIDE DEF run
  <2>4. FibersFit'
    BY <2>2, <2>3, <1>t, AcquireFits
  <2>5. DrainsFit'
    BY <2>1, <1>t, <1>r, GoFits
  <2> QED
    BY <2>1, <2>4, <2>5 DEF AInv, TableFits, Exists, EditFits, AttemptsWithin,
        MonitorsRest, Fits, Attempt, storeVars
<1>5. CASE DrainGivesUp(d)
  <2>1. /\ UNCHANGED <<now, storeVars, ids, eng, sem, fibers, mon, edit, strays,
                         ops>>
        /\ \A e \in Drains : drains'[e] = IF e = d THEN Idle ELSE drains[e]
    BY <1>5, <1>t DEF DrainGivesUp
  <2>2. DrainsFit'
    BY <2>1, <1>t DEF DrainsFit, Idle, Fits, Attempt
  <2> QED
    BY <2>1, <2>2 DEF AInv, TableFits, Exists, FibersFit, EditFits,
        AttemptsWithin, MonitorsRest, Fits, Attempt, storeVars
<1> QED
  BY <1>1, <1>2, <1>3, <1>4, <1>5 DEF DrainStep

\* recordRunEnd and touchRun leave a run's attempt alone.
LEMMA RunKeepsAttempt ==
    ASSUME StoreTypeOK, AttemptsWithin(0), NEW id \in RunIds,
           (\E st : RecordRunEnd(id, st)) \/ TouchRun(id)
    PROVE  AttemptsWithin(0)'
<1> SUFFICES ASSUME NEW i \in RunIds, runs'[i] # NoRun
             PROVE  runs[i] # NoRun /\ runs'[i].attempt = runs[i].attempt
  BY DEF AttemptsWithin
<1>1. runs[i] \in RunRecord \cup {NoRun}
  BY DEF StoreTypeOK
<1> QED
  BY <1>1 DEF RecordRunEnd, TouchRun, StoreTypeOK, RunRecord

\* The steps of a run.
LEMMA FiberStepAInv ==
    ASSUME IInv, AInv, NEW f \in Fibers,
           FiberStep(f) \/ TimesOut(f) \/ \E ok \in BOOLEAN : Finish(f, ok)
    PROVE  AInv'
<1> DEFINE r == fibers[f]
<1>p. r.pc # "idle"
  BY DEF FiberStep, AcquireMore, Resume, StartRun, WrapHandled, Wrap,
         WrapGivesUp, ReleaseLease, TimesOut, Finish, Settled, Running
<1>r. /\ r \in FiberRecord /\ r.o \in Owners /\ r.t \in Triggers
      /\ r.snap \in TriggerRecord /\ RunId(f) \in RunIds /\ RunId(f)[1] = r.t
      /\ Fits(r.t, r.snap)
  BY <1>p, FiberFields DEF AInv, FibersFit
<1>t. /\ StoreTypeOK /\ TableFits /\ FibersFit /\ AttemptsWithin(0)
      /\ fibers \in [Fibers -> FiberRecord \cup {Idle}]
  BY DEF IInv, TypeOK, AInv
<1>1. CASE AcquireMore(f)
  <2>1. FibersFit'
    BY <1>1, <1>r, <1>t, AcquireFits DEF AcquireMore
  <2> QED
    BY <1>1, <2>1 DEF AInv, AcquireMore, storeVars, TableFits, Exists, DrainsFit,
        EditFits, AttemptsWithin, MonitorsRest, Fits, Attempt
<1>2. CASE Resume(f)
  <2> DEFINE h == r.held \cup {NextPermit(r)}
             n == [r EXCEPT !.pc = "acquire", !.held = h]
  <2>1. n.t = r.t /\ n.snap = r.snap
    BY <1>r DEF FiberRecord
  <2>2. \A g \in Fibers : fibers'[g] = IF g = f THEN n ELSE fibers[g]
    BY <1>2, <1>r, <1>t DEF Resume, FiberRecord
  <2> HIDE DEF n
  <2>3. FibersFit'
    BY <2>1, <2>2, <1>r, <1>t DEF FibersFit, Fits, Attempt
  <2> QED
    BY <1>2, <2>3 DEF AInv, Resume, storeVars, TableFits, Exists, DrainsFit,
        EditFits, AttemptsWithin, MonitorsRest, Fits, Attempt
<1>3. CASE StartRun(f)
  <2> DEFINE at == IF TimeoutMs > 0 THEN now ELSE 0
             n == [r EXCEPT !.pc = "running", !.since = at]
  <2>1. n.t = r.t /\ n.snap = r.snap
    BY <1>r DEF FiberRecord
  <2>2. \A g \in Fibers : fibers'[g] = IF g = f THEN n ELSE fibers[g]
    BY <1>3, <1>r, <1>t DEF StartRun, FiberRecord
  <2> HIDE DEF n
  <2>3. FibersFit'
    BY <2>1, <2>2, <1>r, <1>t DEF FibersFit, Fits, Attempt
  <2>4. AttemptsWithin(0)'
    <3> DEFINE run == [status |-> "running", attempt |-> Attempt(r.snap),
                       sched |-> r.sched, beat |-> now]
    <3>1. run.attempt = Attempt(r.snap)
      OBVIOUS
    <3>2. \A i \in RunIds : runs'[i] = IF i = RunId(f) THEN run ELSE runs[i]
      BY <1>3, <1>t DEF StartRun, RecordRunStart, StoreTypeOK
    <3> HIDE DEF run
    <3>3. Attempt(r.snap) <= MaxAttempts[JobOf[r.t]] + 0
      <4>1. MaxAttempts[JobOf[r.t]] \in Nat
        BY <1>r, SchedulerAssumption
      <4> QED
        BY <4>1, <1>r DEF Fits
    <3> QED
      BY <3>1, <3>2, <3>3, <1>r, <1>t DEF AttemptsWithin
  <2> QED
    BY <1>3, <2>3, <2>4 DEF AInv, StartRun, TableFits, Exists, DrainsFit,
        EditFits, MonitorsRest, Fits, Attempt
<1>4. ASSUME NEW ok \in BOOLEAN, Settled(f, ok) PROVE AInv'
  <2>1. PICK st \in Statuses : RecordRunEnd(RunId(f), st)
    BY <1>4 DEF Settled, Statuses
  <2>2. AttemptsWithin(0)'
    BY <2>1, <1>r, <1>t, RunKeepsAttempt
  <2>3. FibersFit'
    <3> DEFINE n == [r EXCEPT !.pc = "ended", !.since = 0, !.ok = ok]
    <3>1. n.t = r.t /\ n.snap = r.snap
      BY <1>r DEF FiberRecord
    <3>2. \A g \in Fibers : fibers'[g] = IF g = f THEN n ELSE fibers[g]
      BY <1>4, <1>r, <1>t DEF Settled, FiberRecord
    <3> HIDE DEF n
    <3> QED
      BY <3>1, <3>2, <1>r, <1>t DEF FibersFit, Fits, Attempt
  <2> QED
    BY <1>4, <2>2, <2>3 DEF AInv, Settled, TableFits, Exists, DrainsFit,
        EditFits, MonitorsRest, Fits, Attempt
<1>5. CASE WrapHandled(f)
  <2>1. ReleaseTrigger(r.t, r.o)
    BY <1>5 DEF WrapHandled
  <2>2. TableFits'
    BY <2>1, <1>r, <1>t, TableLease
  <2>3. \A g \in Fibers :
            fibers'[g] = IF g = f THEN Idle ELSE FibersWoken(r.o, RunId(f))[g]
    BY <1>5, <1>r, FreedEffect DEF WrapHandled
  <2>4. FibersFit'
    BY <2>3, <1>r, <1>t, WokenFit DEF FibersFit, Idle, Fits, Attempt
  <2> QED
    BY <1>5, <2>2, <2>4 DEF AInv, WrapHandled, DrainsFit, EditFits,
        AttemptsWithin, MonitorsRest, Fits, Attempt
<1>6. CASE Wrap(f)
  <2> DEFINE m == NextRun(r.t, r.sched)
             retry == [r.snap EXCEPT
                !.next = now + RetryDelay, !.rid = NewId(r.t), !.fail = @ + 1]
             next == [r.snap EXCEPT !.next = m, !.rid = NewId(r.t), !.fail = 0]
  <2>1. \/ RetryLeft(JobOf[r.t], Attempt(r.snap)) /\ UpsertTrigger(r.t, retry)
        \/ UpsertTrigger(r.t, next)
        \/ DeleteTrigger(r.t)
    BY <1>6 DEF Wrap, Retries, Settle
  <2>2. /\ Fits(r.t, next)
        /\ RetryLeft(JobOf[r.t], Attempt(r.snap)) => Fits(r.t, retry)
    BY <1>r, FitsSettled
  <2>3. TableFits'
    <3> HIDE DEF retry, next
    <3> QED
      BY <2>1, <2>2, <1>r, <1>t DEF TableFits, UpsertTrigger, DeleteTrigger,
          Exists, Fits, Attempt, StoreTypeOK
  <2>5. FibersWoken(r.o, RunId(f)) \in [Fibers -> FiberRecord \cup {Idle}]
        /\ FibersWoken(r.o, RunId(f))[f] = r
    BY <1>6, <1>r, FreedEffect DEF Wrap
  <2> DEFINE n == [r EXCEPT !.pc = "release"]
  <2>6. n.t = r.t /\ n.snap = r.snap
    BY <1>r DEF FiberRecord
  <2>7. \A g \in Fibers :
            fibers'[g] = IF g = f THEN n ELSE FibersWoken(r.o, RunId(f))[g]
    BY <1>6, <2>5 DEF Wrap
  <2> HIDE DEF n
  <2>8. FibersFit'
    BY <2>6, <2>7, <1>r, <1>t, WokenFit DEF FibersFit, Fits, Attempt
  <2> QED
    BY <1>6, <2>3, <2>8 DEF AInv, Wrap, DrainsFit, EditFits,
        AttemptsWithin, MonitorsRest, Fits, Attempt
<1>7. CASE ReleaseLease(f)
  <2>1. ReleaseTrigger(r.t, r.o)
    BY <1>7 DEF ReleaseLease
  <2>2. TableFits'
    BY <2>1, <1>r, <1>t, TableLease
  <2>3. FibersFit'
    BY <1>7, <1>t DEF ReleaseLease, FibersFit, Idle, Fits, Attempt
  <2> QED
    BY <1>7, <2>2, <2>3 DEF AInv, ReleaseLease, DrainsFit, EditFits,
        AttemptsWithin, MonitorsRest, Fits, Attempt
<1>8. CASE WrapGivesUp(f)
  <2>1. \A g \in Fibers :
            fibers'[g] = IF g = f THEN Idle ELSE FibersWoken(r.o, RunId(f))[g]
    BY <1>8, <1>r, FreedEffect DEF WrapGivesUp
  <2>2. FibersFit'
    BY <2>1, <1>r, <1>t, WokenFit DEF FibersFit, Idle, Fits, Attempt
  <2> QED
    BY <1>8, <2>2 DEF AInv, WrapGivesUp, storeVars, TableFits, Exists, DrainsFit,
        EditFits, AttemptsWithin, MonitorsRest, Fits, Attempt
<1> QED
  BY <1>1, <1>2, <1>3, <1>4, <1>5, <1>6, <1>7, <1>8 DEF FiberStep, TimesOut, Finish

\* A heartbeat, and a stray's end.
LEMMA HandlerAInv ==
    ASSUME IInv, AInv,
           \/ \E id \in Executing : Touch(id)
           \/ \E x \in strays : StrayEnds(x)
    PROVE  AInv'
<1>1. ASSUME NEW id \in Executing, Touch(id) PROVE AInv'
  <2>1. id \in RunIds
    BY FiberFields DEF Executing, Running, IInv, TypeOK, StrayRecord
  <2>2. AttemptsWithin(0)'
    BY <1>1, <2>1, RunKeepsAttempt DEF Touch, AInv, IInv, TypeOK
  <2> QED
    BY <1>1, <2>2 DEF AInv, Touch, TableFits, Exists, DrainsFit, FibersFit,
        EditFits, MonitorsRest, Fits, Attempt
<1>2. ASSUME NEW x \in strays, StrayEnds(x) PROVE AInv'
  BY <1>2 DEF AInv, StrayEnds, storeVars, TableFits, Exists, DrainsFit, FibersFit,
      EditFits, AttemptsWithin, MonitorsRest, Fits, Attempt
<1> QED
  BY <1>1, <1>2

\* Client calls, crashes and the clock.
LEMMA CallAInv ==
    ASSUME IInv, AInv, Call
    PROVE  AInv'
<1>t. /\ StoreTypeOK /\ TableFits /\ DrainsFit
      /\ drains \in [Drains -> DrainRecord \cup {Idle}]
  BY DEF IInv, TypeOK, AInv
<1>1. ASSUME NEW o \in Owners, NEW t \in Triggers, Schedule(o, t) PROVE AInv'
  <2> DEFINE n == NewTrigger(NextRun(t, now), NewId(t))
  <2>1. UpsertTrigger(t, n)
    BY <1>1 DEF Schedule
  <2>2. Fits(t, n)
    BY SchedulerAssumption DEF Fits, Attempt, NewTrigger
  <2> HIDE DEF n
  <2>3. TableFits'
    BY <2>1, <2>2, <1>t DEF TableFits, UpsertTrigger, Exists, Fits, Attempt,
        StoreTypeOK
  <2> QED
    BY <1>1, <2>3 DEF AInv, Schedule, DrainsFit, FibersFit, EditFits,
        AttemptsWithin, MonitorsRest, Fits, Attempt
<1>2. ASSUME NEW o \in Owners, NEW t \in Triggers, ExecuteNow(o, t) PROVE AInv'
  <2> DEFINE n == NewTrigger(NextRun(t, now), NewId(t))
             c == Claiming(o, now, {[t |-> t, snap |-> n]}, FALSE)
  <2>1. UpsertTrigger(t, n) /\ \E d \in Drains : drains' = [drains EXCEPT ![d] = c]
    BY <1>2 DEF ExecuteNow
  <2>2. Fits(t, n)
    BY SchedulerAssumption DEF Fits, Attempt, NewTrigger
  <2>3. c.pc = "claim" /\ \A s \in c.due : s.t = t /\ s.snap = n
    BY DEF Claiming
  <2> HIDE DEF n, c
  <2>4. TableFits'
    BY <2>1, <2>2, <1>t DEF TableFits, UpsertTrigger, Exists, Fits, Attempt,
        StoreTypeOK
  <2>5. DrainsFit'
    BY <2>1, <2>2, <2>3, <1>t DEF DrainsFit, Fits, Attempt
  <2> QED
    BY <1>2, <2>4, <2>5 DEF AInv, ExecuteNow, FibersFit, EditFits,
        AttemptsWithin, MonitorsRest, Fits, Attempt
<1>3. ASSUME NEW o \in Owners,
             \/ PauseAll(o) \/ ResumeAll(o) \/ Shutdown(o)
             \/ \E j \in Jobs : UnregisterJob(o, j)
      PROVE  AInv'
  <2>1. UNCHANGED <<trig, runs, drains, fibers, mon, edit>>
    BY <1>3 DEF PauseAll, ResumeAll, Shutdown, UnregisterJob, storeVars
  <2> QED
    BY <2>1 DEF AInv, TableFits, Exists, DrainsFit, FibersFit, EditFits,
        AttemptsWithin, MonitorsRest, Fits, Attempt
<1>4. ASSUME NEW j \in Jobs, NEW b \in BOOLEAN, PauseJob(j, b) PROVE AInv'
  BY <1>4 DEF PauseJob, AInv, TableFits, Exists, DrainsFit, FibersFit,
      EditFits, AttemptsWithin, MonitorsRest, Fits, Attempt
<1>5. ASSUME NEW op \in {"pause", "resume", "cancel"}, NEW t \in Triggers,
             EditGet(op, t)
      PROVE  AInv'
  <2>1. edit'.t = t /\ edit'.snap = trig[t] /\ Exists(t)
    BY <1>5 DEF EditGet
  <2>2. EditFits'
    BY <2>1, <1>t DEF EditFits, TableFits, Fits, Attempt
  <2> QED
    BY <1>5, <2>2 DEF EditGet, storeVars, AInv, TableFits, Exists, DrainsFit,
        FibersFit, AttemptsWithin, MonitorsRest, Fits, Attempt
<1>6. CASE EditPut
  <2> DEFINE n == [edit.snap EXCEPT !.paused = (edit.op = "pause")]
  <2>1. edit.t \in Triggers /\ edit.snap \in TriggerRecord /\ Fits(edit.t, edit.snap)
    BY <1>6 DEF EditPut, EditRecord, IInv, TypeOK, AInv, EditFits
  <2>2. n.fail = edit.snap.fail
    BY <2>1 DEF TriggerRecord
  <2>3. Fits(edit.t, n)
    BY <2>1, <2>2 DEF Fits, Attempt
  <2>4. DeleteTrigger(edit.t) \/ UpsertTrigger(edit.t, n)
    BY <1>6 DEF EditPut
  <2> HIDE DEF n
  <2>5. TableFits'
    BY <2>1, <2>3, <2>4, <1>t DEF TableFits, UpsertTrigger, DeleteTrigger,
        Exists, Fits, Attempt, StoreTypeOK
  <2>6. EditFits'
    BY <1>6 DEF EditPut, EditFits
  <2> QED
    BY <1>6, <2>5, <2>6 DEF EditPut, AInv, DrainsFit, FibersFit,
        AttemptsWithin, MonitorsRest, Fits, Attempt
<1> QED
  BY <1>1, <1>2, <1>3, <1>4, <1>5, <1>6 DEF Call

\* Nothing has failed at the start.
LEMMA InitAInv == Init => AInv
<1> SUFFICES ASSUME Init PROVE AInv
  OBVIOUS
<1>1. \A t \in Triggers : ~Exists(t)
  BY DEF Init, Exists
<1> QED
  BY <1>1 DEF Init, AInv, TableFits, DrainsFit, FibersFit, EditFits,
      AttemptsWithin, MonitorsRest, Idle

\* Every step keeps the failures within the bound.
LEMMA StepAInv == IInv /\ AInv /\ NoneStalled /\ [Next]_vars => AInv'
<1> SUFFICES ASSUME IInv, AInv, NoneStalled, [Next]_vars PROVE AInv'
  OBVIOUS
<1> USE DEF Fits, Attempt
<1>1. ASSUME NEW o \in Owners, Tick(o) PROVE AInv'
  <2>1. drains \in [Drains -> DrainRecord \cup {Idle}]
    BY DEF IInv, TypeOK
  <2> DEFINE c == Claiming(o, now, ListDue(now), TRUE)
  <2>2. UNCHANGED drains \/ \E d \in Drains : drains' = [drains EXCEPT ![d] = c]
    BY <1>1 DEF Tick
  <2>3. c.pc = "claim" /\ \A s \in c.due : Fits(s.t, s.snap)
    BY ListDueFits DEF Claiming, AInv
  <2> HIDE DEF c
  <2>4. DrainsFit'
    BY <2>1, <2>2, <2>3 DEF AInv, DrainsFit
  <2> QED
    BY <1>1, <2>4 DEF Tick, storeVars, AInv, TableFits, Exists, FibersFit,
        EditFits, AttemptsWithin, MonitorsRest
<1>2. ASSUME NEW o \in Owners, MonScan(o) \/ MonStep(o) PROVE AInv'
  <2>1. mon[o].pc = "idle"
    BY DEF AInv, MonitorsRest, Idle
  <2>2. FALSE
    BY <1>2, <2>1 DEF NoneStalled, MonScan, MonStep, MonGet, MonForget,
        MonRecordEnd, MonSettle, MonGivesUp, MonRelease
  <2> QED
    BY <2>2
<1>3. ASSUME NEW o \in Owners, Crash(o) PROVE AInv'
  <2>1. /\ \A d \in Drains : drains'[d] = Idle \/ drains'[d] = drains[d]
        /\ \A f \in Fibers : fibers'[f] = Idle \/ fibers'[f] = fibers[f]
        /\ \A p \in Owners : mon'[p] = Idle
    BY <1>3 DEF Crash, AInv, MonitorsRest, IInv, TypeOK
  <2> QED
    BY <1>3, <2>1 DEF Crash, storeVars, AInv, TableFits, Exists, DrainsFit,
        FibersFit, EditFits, AttemptsWithin, MonitorsRest, Idle
<1>4. ASSUME Advance \/ UNCHANGED vars \/ \E o \in Owners : Restart(o)
      PROVE  AInv'
  <2>1. UNCHANGED <<trig, runs, drains, fibers, mon, edit>>
    BY <1>4 DEF Advance, Restart, vars, storeVars
  <2> QED
    BY <2>1 DEF AInv, TableFits, Exists, DrainsFit, FibersFit, EditFits,
        AttemptsWithin, MonitorsRest
<1> QED
  BY <1>1, <1>2, <1>3, <1>4, DrainStepAInv, FiberStepAInv, HandlerAInv, CallAInv
     DEF Next

\* retries.maxAttempts bounds the attempts for any number of engines over a
\* slow or fast store, whatever leases lapse, processes crash, stale copies
\* are written back and clients call, as long as the stalled monitor finds
\* nothing: the monitor is the only way past evaluateRetry.
THEOREM AttemptsBounded == Spec /\ []NoneStalled => []AttemptsWithin(0)
<1>1. AInv => AttemptsWithin(0)
  BY DEF AInv
<1> QED
  BY <1>1, InitAInv, StepAInv, Invariance, PTL DEF Spec

----------------------------------------------------------------------------
(* The polling loop.  That an engine polls is inductive over the types:     *)
(* whoever takes the timer away is a drain that tick waits for, and its end *)
(* arms again, unless the plan throws.                                      *)

\* Steps that leave the loop's fields and the drains that poll as they are.
LEMMA LoopKept ==
    ASSUME NEW q \in Owners, Polls(q),
           /\ eng'[q].up = eng[q].up /\ eng'[q].stopped = eng[q].stopped
           /\ eng'[q].paused = eng[q].paused /\ eng'[q].armed = eng[q].armed,
           \A d \in Drains : drains[d] # Idle /\ drains[d].o = q =>
              /\ drains'[d] # Idle /\ drains'[d].o = q
              /\ drains'[d].poll = drains[d].poll
    PROVE  Polls(q)'
<1> SUFFICES ASSUME eng[q].up /\ ~eng[q].stopped /\ ~eng[q].paused, ~eng[q].armed
             PROVE  \E d \in Drains : drains'[d] # Idle /\ drains'[d].o = q
                                                       /\ drains'[d].poll
  BY DEF Polls
<1>1. PICK d \in Drains : drains[d] # Idle /\ drains[d].o = q /\ drains[d].poll
  BY DEF Polls
<1> QED
  BY <1>1

\* armTimer leaves an engine armed, unless it is stopped or paused.
LEMMA ArmArms ==
    ASSUME NEW e \in Engine
    PROVE  /\ Arm(e).up = e.up /\ Arm(e).stopped = e.stopped
           /\ Arm(e).paused = e.paused
           /\ ~e.stopped /\ ~e.paused => Arm(e).armed
           /\ e.armed => Arm(e).armed
  BY DEF Arm, Engine

\* An engine whose timer was armed, or to be armed.
LEMMA ArmPolls ==
    ASSUME NEW q \in Owners, NEW e \in Engine, eng'[q] = Arm(e)
    PROVE  Polls(q)'
BY ArmArms DEF Polls

\* The end of a drain's turn: it goes on, or tick arms the timer.
LEMMA GoLives ==
    ASSUME IInv, NEW q \in Owners, Polls(q), NEW d \in Drains,
           drains[d].pc # "idle", NEW due \in SUBSET Snapshot, Go(d, due)
    PROVE  Polls(q)'
<1> DEFINE r == drains[d]
<1>1. /\ r.o \in Owners /\ r.poll \in BOOLEAN
      /\ drains \in [Drains -> DrainRecord \cup {Idle}]
      /\ eng \in [Owners -> Engine]
  BY DrainFields DEF IInv, TypeOK
<1> HIDE DEF r
<1>2. CASE due = {}
  <2>1. /\ drains' = [drains EXCEPT ![d] = Idle]
        /\ eng' = IF r.poll THEN [eng EXCEPT ![r.o] = Arm(@)] ELSE eng
    BY <1>2 DEF Go, r
  <2>2. CASE r.poll /\ r.o = q
    <3>1. eng'[q] = Arm(eng[q]) /\ eng[q] \in Engine
      BY <1>1, <2>1, <2>2
    <3> QED
      BY <3>1, ArmPolls
  <2>3. CASE ~(r.poll /\ r.o = q)
    <3>1. eng'[q] = eng[q]
      BY <1>1, <2>1, <2>3
    <3>2. \A x \in Drains : x # d => drains'[x] = drains[x]
      BY <1>1, <2>1
    <3>3. CASE eng[q].armed
      BY <3>1, <3>3 DEF Polls
    <3>4. CASE ~(eng[q].up /\ ~eng[q].stopped /\ ~eng[q].paused)
      BY <3>1, <3>4 DEF Polls
    <3>5. CASE ~eng[q].armed /\ eng[q].up /\ ~eng[q].stopped /\ ~eng[q].paused
      <4>1. PICK x \in Drains : drains[x] # Idle /\ drains[x].o = q /\ drains[x].poll
        BY <3>5 DEF Polls
      <4>2. x # d
        BY <2>3, <4>1 DEF r
      <4> QED
        BY <3>2, <4>1, <4>2 DEF Polls
    <3> QED
      BY <3>3, <3>4, <3>5
  <2> QED
    BY <2>2, <2>3
<1>3. CASE due # {}
  <2>1. /\ drains' = [drains EXCEPT ![d] = Claiming(r.o, r.at, due, r.poll)]
        /\ eng' = eng
    BY <1>3 DEF Go, r
  <2>2. /\ drains'[d] # Idle /\ drains'[d].o = r.o /\ drains'[d].poll = r.poll
        /\ \A x \in Drains : x # d => drains'[x] = drains[x]
    BY <1>1, <2>1 DEF Claiming, Idle
  <2>3. \A x \in Drains : drains[x] # Idle /\ drains[x].o = q =>
              /\ drains'[x] # Idle /\ drains'[x].o = q
              /\ drains'[x].poll = drains[x].poll
    BY <2>2 DEF r
  <2> QED
    BY <2>1, <2>3, LoopKept
<1> QED
  BY <1>2, <1>3

\* A drain arms its engine's timer again when it is done, unless it throws.
LEMMA DrainStepLives ==
    ASSUME IInv, NEW q \in Owners, Polls(q), NEW d \in Drains, DrainStep(d)
    PROVE  Polls(q)' \/ (DrainGivesUp(d) /\ drains[d].o = q)
<1>p. drains[d].pc # "idle"
  BY DrainIsBusy
<1>r. /\ drains[d].due \in SUBSET Snapshot /\ drains[d] \in DrainRecord
      /\ drains \in [Drains -> DrainRecord \cup {Idle}]
  BY <1>p, DrainFields DEF IInv, TypeOK
<1>g. ASSUME NEW due \in SUBSET Snapshot, Go(d, due) PROVE Polls(q)'
  BY <1>p, <1>g, GoLives
<1>s. ASSUME NEW x, eng' = eng, drains' = [drains EXCEPT ![d] = x],
             x # Idle, x.o = drains[d].o, x.poll = drains[d].poll
      PROVE  Polls(q)'
  <2>1. \A y \in Drains : drains'[y] = IF y = d THEN x ELSE drains[y]
    BY <1>r, <1>s
  <2> QED
    BY <1>s, <2>1, LoopKept
<1>1. CASE DrainClaim(d)
  <2>1. PICK s \in drains[d].due :
           \/ Go(d, {})
           \/ /\ drains' = [drains EXCEPT ![d] =
                  [pc |-> "decide", o |-> drains[d].o, at |-> drains[d].at,
                   due |-> drains[d].due \ {s}, poll |-> drains[d].poll, cur |-> s]]
              /\ UNCHANGED eng
           \/ Go(d, drains[d].due \ {s})
    BY <1>1 DEF DrainClaim
  <2>2. drains[d].due \ {s} \in SUBSET Snapshot /\ {} \in SUBSET Snapshot
    BY <1>r
  <2>3. [pc |-> "decide", o |-> drains[d].o, at |-> drains[d].at,
         due |-> drains[d].due \ {s}, poll |-> drains[d].poll, cur |-> s] # Idle
    BY DEF Idle
  <2> QED
    BY <2>1, <2>2, <2>3, <1>g, <1>s
<1>2. CASE DrainSkip(d)
  <2>1. /\ eng' = eng
        /\ drains' = [drains EXCEPT ![d] = [drains[d] EXCEPT !.pc = "release"]]
    BY <1>2 DEF DrainSkip
  <2>2. /\ [drains[d] EXCEPT !.pc = "release"] # Idle
        /\ [drains[d] EXCEPT !.pc = "release"].o = drains[d].o
        /\ [drains[d] EXCEPT !.pc = "release"].poll = drains[d].poll
    BY <1>r DEF DrainRecord, Idle
  <2> QED
    BY <2>1, <2>2, <1>s
<1>3. CASE DrainJobMissing(d) \/ DrainDispatch(d) \/ DrainRelease(d)
  BY <1>3, <1>r, <1>g DEF DrainJobMissing, DrainDispatch, DrainRelease
<1>4. CASE DrainGivesUp(d) /\ drains[d].o # q
  <2>1. eng' = eng /\ \A x \in Drains : x # d => drains'[x] = drains[x]
    BY <1>4, <1>r DEF DrainGivesUp
  <2> QED
    BY <1>4, <2>1, LoopKept
<1> QED
  BY <1>1, <1>2, <1>3, <1>4 DEF DrainStep

\* tick takes the timer away and leaves a drain, unless polling is paused.
LEMMA TickLives ==
    ASSUME IInv, NEW q \in Owners, Polls(q), NEW o \in Owners, Tick(o)
    PROVE  Polls(q)'
<1>e. eng \in [Owners -> Engine] /\ drains \in [Drains -> DrainRecord \cup {Idle}]
  BY DEF IInv, TypeOK
<1>1. /\ eng' = [eng EXCEPT ![o].armed = FALSE]
      /\ \/ eng[o].paused /\ drains' = drains
         \/ \E d \in Drains :
              /\ drains[d] = Idle
              /\ drains' = [drains EXCEPT ![d] = Claiming(o, now, ListDue(now), TRUE)]
  BY DEF Tick
<1>2. \A x \in Drains : drains[x] # Idle => drains'[x] = drains[x]
  BY <1>e, <1>1
<1>3. CASE q # o
  <2>1. eng'[q] = eng[q]
    BY <1>e, <1>1, <1>3
  <2> QED
    BY <1>2, <2>1, LoopKept
<1>4. CASE q = o /\ eng[o].paused
  <2>1. eng'[q].paused
    BY <1>e, <1>1, <1>4 DEF Engine
  <2> QED
    BY <2>1 DEF Polls
<1>5. ASSUME q = o, NEW d \in Drains,
             drains' = [drains EXCEPT ![d] = Claiming(o, now, ListDue(now), TRUE)]
      PROVE  Polls(q)'
  <2>1. drains'[d] # Idle /\ drains'[d].o = o /\ drains'[d].poll
    BY <1>e, <1>5 DEF Claiming, Idle
  <2> QED
    BY <1>5, <2>1 DEF Polls
<1> QED
  BY <1>1, <1>3, <1>4, <1>5

\* A crash leaves the drains of the other engines alone.
LEMMA CrashLives ==
    ASSUME IInv, NEW q \in Owners, Polls(q), NEW o \in Owners, Crash(o)
    PROVE  Polls(q)'
<1>e. eng \in [Owners -> Engine]
  BY DEF IInv, TypeOK
<1>1. CASE q = o
  <2>1. ~eng'[q].up
    BY <1>e, <1>1 DEF Crash, Engine
  <2> QED
    BY <2>1 DEF Polls
<1>2. CASE q # o
  <2>1. eng'[q] = eng[q]
    BY <1>e, <1>2 DEF Crash
  <2>2. \A x \in Drains : drains[x] # Idle /\ drains[x].o = q => drains'[x] = drains[x]
    BY <1>2 DEF Crash
  <2> QED
    BY <2>1, <2>2, LoopKept
<1> QED
  BY <1>1, <1>2

\* Nor does a call that changes whether the engine polls end its polling.
LEMMA EngineCallLives ==
    ASSUME IInv, NEW q \in Owners, Polls(q), NEW o \in Owners,
           \/ PauseAll(o) \/ ResumeAll(o) \/ Shutdown(o)
           \/ \E j \in Jobs : UnregisterJob(o, j)
    PROVE  Polls(q)'
<1>e. eng \in [Owners -> Engine]
  BY DEF IInv, TypeOK
<1>d. drains' = drains
  BY DEF PauseAll, ResumeAll, Shutdown, UnregisterJob
<1>1. CASE q # o
  <2>1. eng'[q] = eng[q]
    BY <1>e, <1>1 DEF PauseAll, ResumeAll, Shutdown, UnregisterJob
  <2> QED
    BY <1>d, <2>1, LoopKept
<1>2. CASE q = o /\ PauseAll(o)
  <2>1. eng'[q].paused
    BY <1>2, <1>e DEF PauseAll, Engine
  <2> QED
    BY <2>1 DEF Polls
<1>3. CASE q = o /\ ResumeAll(o)
  <2> DEFINE e == [eng[o] EXCEPT !.paused = FALSE]
  <2>1. e \in Engine /\ eng'[q] = Arm(e)
    BY <1>3, <1>e, EngineFields DEF ResumeAll
  <2> HIDE DEF e
  <2> QED
    BY <2>1, ArmPolls
<1>4. CASE q = o /\ Shutdown(o)
  <2>1. eng'[q].stopped
    BY <1>4, <1>e DEF Shutdown, Engine
  <2> QED
    BY <2>1 DEF Polls
<1>5. ASSUME q = o, NEW j \in Jobs, UnregisterJob(o, j) PROVE Polls(q)'
  <2>1. /\ eng'[q].up = eng[q].up /\ eng'[q].stopped = eng[q].stopped
        /\ eng'[q].paused = eng[q].paused /\ eng'[q].armed = eng[q].armed
    BY <1>5, <1>e DEF UnregisterJob, Engine
  <2> QED
    BY <1>d, <2>1, LoopKept
<1> QED
  BY <1>1, <1>2, <1>3, <1>4, <1>5

\* Steps that write the capacity, the notes of the monitor and what shutdown
\* waits for leave the loop's fields alone.
LEMMA NotesAside ==
    ASSUME eng \in [Owners -> Engine], NEW o \in Owners, NEW c, NEW h, NEW w,
           eng' = [eng EXCEPT ![o].cap = c, ![o].handled = h, ![o].wait = w]
    PROVE  \A q \in Owners :
                /\ eng'[q].up = eng[q].up /\ eng'[q].stopped = eng[q].stopped
                /\ eng'[q].paused = eng[q].paused /\ eng'[q].armed = eng[q].armed
<1> DEFINE e == [eng[o] EXCEPT !.cap = c, !.handled = h, !.wait = w]
<1>1. /\ e.up = eng[o].up /\ e.stopped = eng[o].stopped
      /\ e.paused = eng[o].paused /\ e.armed = eng[o].armed
  BY DEF Engine
<1>2. \A q \in Owners : eng'[q] = IF q = o THEN e ELSE eng[q]
  BY DEF Engine
<1> HIDE DEF e
<1> QED
  BY <1>1, <1>2

\* What a run does behind its handler leaves the loop alone.
LEMMA FiberStepLives ==
    ASSUME IInv, NEW q \in Owners, Polls(q), NEW f \in Fibers,
           FiberStep(f) \/ TimesOut(f) \/ \E ok \in BOOLEAN : Finish(f, ok)
    PROVE  Polls(q)'
<1>e. eng \in [Owners -> Engine]
  BY DEF IInv, TypeOK
<1>1. drains' = drains
  BY DEF FiberStep, TimesOut, Finish, Settled, AcquireMore, Resume, StartRun,
         WrapHandled, Wrap, WrapGivesUp, ReleaseLease
<1> DEFINE o == fibers[f].o
<1>2. CASE \/ AcquireMore(f) \/ Resume(f) \/ TimesOut(f)
           \/ \E ok \in BOOLEAN : Finish(f, ok)
  <2>1. eng' = eng
    BY <1>2 DEF AcquireMore, Resume, TimesOut, Finish, Settled
  <2> QED
    BY <1>1, <2>1, LoopKept
<1>3. CASE \/ StartRun(f) \/ Wrap(f) \/ WrapHandled(f) \/ WrapGivesUp(f)
           \/ ReleaseLease(f)
  <2>1. o \in Owners /\ eng[o] \in Engine
    <3>1. fibers[f].pc # "idle"
      BY <1>3 DEF StartRun, Wrap, WrapHandled, WrapGivesUp, ReleaseLease
    <3> QED
      BY <1>e, <3>1, FiberFields
  <2> DEFINE i == RunId(f)
             Writes(c, h, w) ==
                eng' = [eng EXCEPT ![o].cap = c, ![o].handled = h, ![o].wait = w]
  <2>2. ASSUME StartRun(f) PROVE \E c, h, w : Writes(c, h, w)
    <3>1. Writes([eng[o].cap EXCEPT ![i] = fibers[f].held], eng[o].handled, eng[o].wait)
      BY <2>1, <2>2, <1>e DEF StartRun, Engine
    <3> HIDE DEF Writes
    <3> QED
      BY <3>1, Zenon
  <2>3. ASSUME Wrap(f) PROVE \E c, h, w : Writes(c, h, w)
    <3>1. Writes([eng[o].cap EXCEPT ![i] = {}], eng[o].handled, eng[o].wait)
      BY <2>1, <2>3, <1>e DEF Wrap, Engine
    <3> HIDE DEF Writes
    <3> QED
      BY <3>1, Zenon
  <2>4. ASSUME WrapHandled(f) PROVE \E c, h, w : Writes(c, h, w)
    <3>1. Writes([eng[o].cap EXCEPT ![i] = {}], eng[o].handled \ {i}, eng[o].wait \ {f})
      BY <2>1, <2>4, <1>e DEF WrapHandled, Engine
    <3> HIDE DEF Writes
    <3> QED
      BY <3>1, Zenon
  <2>5. ASSUME WrapGivesUp(f) PROVE \E c, h, w : Writes(c, h, w)
    <3>1. Writes([eng[o].cap EXCEPT ![i] = {}], eng[o].handled, eng[o].wait \ {f})
      BY <2>1, <2>5, <1>e DEF WrapGivesUp, Engine
    <3> HIDE DEF Writes
    <3> QED
      BY <3>1, Zenon
  <2>6. ASSUME ReleaseLease(f) PROVE \E c, h, w : Writes(c, h, w)
    <3>1. Writes(eng[o].cap, eng[o].handled, eng[o].wait \ {f})
      BY <2>1, <2>6, <1>e DEF ReleaseLease, Engine
    <3> HIDE DEF Writes
    <3> QED
      BY <3>1, Zenon
  <2>7. \E c, h, w : Writes(c, h, w)
    BY <1>3, <2>2, <2>3, <2>4, <2>5, <2>6
  <2> HIDE DEF o, i
  <2>8. PICK c, h, w :
            eng' = [eng EXCEPT ![o].cap = c, ![o].handled = h, ![o].wait = w]
    BY <2>7
  <2>9. /\ eng'[q].up = eng[q].up /\ eng'[q].stopped = eng[q].stopped
        /\ eng'[q].paused = eng[q].paused /\ eng'[q].armed = eng[q].armed
    BY <1>e, <2>1, <2>8, NotesAside
  <2> QED
    BY <1>1, <2>9, LoopKept
<1> QED
  BY <1>2, <1>3 DEF FiberStep

\* An engine that starts arms its timer.
LEMMA InitLives == Init => \A o \in Owners : Polls(o)
  BY DEF Init, Polls, Started

\* No action ends an engine's polling but a plan's throw.
LEMMA StepLives ==
    ASSUME IInv, [Next]_vars, NEW q \in Owners, Polls(q)
    PROVE  Polls(q)' \/ \E d \in Drains : DrainGivesUp(d) /\ drains[d].o = q
<1>e. eng \in [Owners -> Engine] /\ drains \in [Drains -> DrainRecord \cup {Idle}]
  BY DEF IInv, TypeOK
<1>k. ASSUME eng' = eng, drains' = drains PROVE Polls(q)'
  BY <1>k, LoopKept
<1>1. ASSUME NEW o \in Owners, Tick(o) PROVE Polls(q)'
  BY <1>1, TickLives
<1>2. ASSUME NEW o \in Owners,
             MonScan(o) \/ MonGet(o) \/ MonRecordEnd(o) \/ MonRelease(o)
      PROVE  Polls(q)'
  BY <1>k, <1>2 DEF MonScan, MonGet, MonRecordEnd, MonRelease
<1>3. ASSUME NEW o \in Owners, MonForget(o) \/ MonSettle(o) \/ MonGivesUp(o)
      PROVE  Polls(q)'
  <2>1. PICK id : eng' = [eng EXCEPT ![o].cap[id] = {}, ![o].handled = @ \cup {id}]
    BY <1>3 DEF MonForget, MonSettle, MonGivesUp, GiveUpRun
  <2>2. eng' = [eng EXCEPT ![o].cap = [@ EXCEPT ![id] = {}],
                  ![o].handled = @ \cup {id}, ![o].wait = eng[o].wait]
    BY <1>e, <2>1 DEF Engine
  <2>3. drains' = drains
    BY <1>3 DEF MonForget, MonSettle, MonGivesUp
  <2>4. /\ eng'[q].up = eng[q].up /\ eng'[q].stopped = eng[q].stopped
        /\ eng'[q].paused = eng[q].paused /\ eng'[q].armed = eng[q].armed
    BY <1>e, <2>2, NotesAside
  <2> QED
    BY <2>3, <2>4, LoopKept
<1>4. ASSUME NEW o \in Owners, Crash(o) PROVE Polls(q)'
  BY <1>4, CrashLives
<1>5. ASSUME NEW o \in Owners, Restart(o) PROVE Polls(q)'
  <2>1. eng' = [eng EXCEPT ![o] = Started] /\ drains' = drains
    BY <1>5 DEF Restart
  <2>2. eng'[q] = IF q = o THEN Started ELSE eng[q]
    BY <1>e, <2>1
  <2>3. Started.armed
    BY DEF Started
  <2> QED
    BY <2>1, <2>2, <2>3 DEF Polls
<1>6. ASSUME NEW d \in Drains, DrainStep(d)
      PROVE  Polls(q)' \/ (DrainGivesUp(d) /\ drains[d].o = q)
  BY <1>6, DrainStepLives
<1>7. ASSUME NEW f \in Fibers,
             FiberStep(f) \/ TimesOut(f) \/ \E ok \in BOOLEAN : Finish(f, ok)
      PROVE  Polls(q)'
  BY <1>7, FiberStepLives
<1>h. ASSUME \/ \E id \in Executing : Touch(id)
             \/ \E x \in strays : StrayEnds(x)
      PROVE  Polls(q)'
  BY <1>k, <1>h DEF Touch, StrayEnds
<1>8. ASSUME NEW o \in Owners, NEW t \in Triggers, Schedule(o, t)
      PROVE  Polls(q)'
  <2>1. eng' = [eng EXCEPT ![o] = Arm(eng[o])] /\ drains' = drains
    BY <1>8 DEF Schedule
  <2>2. eng'[q] = IF q = o THEN Arm(eng[q]) ELSE eng[q]
    BY <1>e, <2>1
  <2>3. eng[q] \in Engine
    BY <1>e
  <2> QED
    BY <2>1, <2>2, <2>3, ArmPolls, LoopKept
<1>9. ASSUME NEW o \in Owners, NEW t \in Triggers, ExecuteNow(o, t)
      PROVE  Polls(q)'
  <2>1. PICK d \in Drains : \E x :
            /\ drains[d] = Idle
            /\ drains' = [drains EXCEPT ![d] = x]
            /\ eng' = eng
    BY <1>9 DEF ExecuteNow
  <2>2. \A y \in Drains : drains[y] # Idle => drains'[y] = drains[y]
    BY <2>1, <1>e
  <2> QED
    BY <2>1, <2>2, LoopKept
<1>10. ASSUME NEW o \in Owners,
              \/ PauseAll(o) \/ ResumeAll(o) \/ Shutdown(o)
              \/ \E j \in Jobs : UnregisterJob(o, j)
       PROVE  Polls(q)'
  BY <1>10, EngineCallLives
<1>11. CASE \/ \E j \in Jobs, b \in BOOLEAN : PauseJob(j, b)
            \/ \E op \in {"pause", "resume", "cancel"}, t \in Triggers : EditGet(op, t)
            \/ EditPut \/ Advance
  BY <1>k, <1>11 DEF PauseJob, EditGet, EditPut, Advance
<1>12. CASE UNCHANGED vars
  BY <1>k, <1>12 DEF vars
<1> QED
  BY <1>1, <1>2, <1>3, <1>4, <1>5, <1>6, <1>7, <1>h, <1>8, <1>9, <1>10, <1>11,
     <1>12 DEF Next, MonStep, Call

\* No order of drains, pauseAll, resumeAll, crashes and restarts leaves an
\* engine that is neither paused nor stopped without a timer or a poll that
\* sets it again: what ends the polling is a plan that throws while the overdue
\* runs of its trigger are skipped (scheduler.ts:781 in tick), and nothing else.
THEOREM LoopLives == Spec => LoopAlive
<1> DEFINE Alive == \A o \in Owners : Polls(o)
           Goes == \A o \in Owners :
                    Polls(o) => \/ Polls(o)'
                                \/ \E d \in Drains :
                                        DrainGivesUp(d) /\ drains[d].o = o
<1>1. Init => Alive
  BY InitLives
<1>2. IInv /\ [Next]_vars => Goes
  BY StepLives
<1>3. Spec => Alive /\ [][Goes]_vars
  <2> HIDE DEF Alive, Goes
  <2> QED
    BY <1>1, <1>2, Invariance, PTL DEF Spec
<1> QED
  BY <1>3 DEF LoopAlive

\* Every search of every plan comes to an occurrence, or to endAt, within the
\* limit: there is no gap of 500,000 seconds in what a cron expression matches.
PlansReach == \A t \in Triggers : \A after \in Nat : NextRun(t, after) # GaveUp

\* With such plans the skip of overdue runs does not throw.
LEMMA SkipReaches ==
    ASSUME IInv, PlansReach, NEW d \in Drains, Deciding(d)
    PROVE  SkippedTo(drains[d]) # GaveUp
<1> DEFINE r == drains[d]
           t == r.cur.t
           from == r.cur.snap.next
           way == Reached(Occ[t], EndAt[t], from)
<1>1. /\ t \in Triggers /\ from \in Nat /\ r.at \in Nat
      /\ Occ[t] \in SUBSET Nat /\ IsFiniteSet(Occ[t]) /\ EndAt[t] \in Nat
      /\ Kind[t] \in Kinds /\ Tolerance \in Nat /\ MaxSkip \in Nat \ {0}
  <2>1. r.at \in Nat /\ t \in Triggers /\ r.cur.snap \in TriggerRecord
    BY DrainFields DEF Deciding
  <2> QED
    BY <2>1, SchedulerAssumption DEF TriggerRecord
<1>2. \A after \in Nat : PlanNext(Kind[t], Occ[t], EndAt[t], after) # GaveUp
  BY <1>1 DEF PlansReach, NextRun
<1> QED
  BY <1>1, <1>2, SkipGivesUpAtNext DEF SkippedTo

\* An engine whose plans all reach their next occurrence polls for as long as
\* it is neither paused nor stopped.
THEOREM LoopLivesOn == PlansReach /\ Spec => [](\A o \in Owners : Polls(o))
<1> SUFFICES ASSUME PlansReach PROVE Spec => [](\A o \in Owners : Polls(o))
  OBVIOUS
<1>1. IInv /\ (\A o \in Owners : Polls(o)) /\ [Next]_vars
          => (\A o \in Owners : Polls(o))'
  <2> SUFFICES ASSUME IInv, \A o \in Owners : Polls(o), [Next]_vars, NEW q \in Owners
               PROVE  Polls(q)'
    OBVIOUS
  <2>1. \A d \in Drains : ~DrainGivesUp(d)
    BY SkipReaches DEF DrainGivesUp
  <2> QED
    BY <2>1, StepLives
<1>2. Init => \A o \in Owners : Polls(o)
  BY InitLives
<1> QED
  BY <1>1, <1>2, Invariance, PTL DEF Spec

----------------------------------------------------------------------------
(* Permits.  A semaphore's counter is the number of those who hold one of   *)
(* its permits.  A release subtracts what the run's entry in runCapacity    *)
(* names, so that the entry must be that of one run that holds just these:  *)
(* true as long as no two executions of one engine go by the same run id.   *)

Executes(f) == fibers[f].pc \in {"running", "ended"}

IdsDiffer ==
    \A f, g \in Fibers :
        Executes(f) /\ Executes(g) /\ fibers[f].o = fibers[g].o
            /\ RunId(f) = RunId(g) => f = g

\* The module's words for it.
LEMMA RunsDifferIs == RunsDiffer => IdsDiffer
<1> SUFFICES ASSUME RunsDiffer,
                    NEW f \in Fibers, NEW g \in Fibers, Executes(f), Executes(g),
                    fibers[f].o = fibers[g].o, RunId(f) = RunId(g)
             PROVE  f = g
  BY DEF IdsDiffer
<1>1. /\ f \in {h \in Fibers : fibers[h].pc \in {"running", "ended"}}
      /\ g \in {h \in Fibers : fibers[h].pc \in {"running", "ended"}}
  BY DEF Executes
<1> QED
  BY <1>1, Zenon DEF RunsDiffer

\* A fiber with record r holds permit k of engine o.
Has(r, e, o, k) ==
    /\ r.pc \notin {"idle", "release"} /\ r.o = o
    /\ k \in r.held
    /\ r.pc \in {"running", "ended"} => k \in e[o].cap[<<r.t, r.snap.rid>>]

Holders(o, k) == {f \in Fibers : Has(fibers[f], eng, o, k)}

CountedAt(o, k) ==
    /\ IsFiniteSet(Holders(o, k))
    /\ sem[o][k].cur = Cardinality(Holders(o, k))

Counted == \A o \in Owners, k \in Keys : CountedAt(o, k)

\* What is on file is held by the run it is filed for.
CapacityIsFiled ==
    \A o \in Owners, id \in RunIds : \A k \in eng[o].cap[id] :
        \E f \in Fibers : /\ Executes(f) /\ fibers[f].o = o
                          /\ RunId(f) = id /\ k \in fibers[f].held

\* Who waits, or was woken, has not got the permit yet.
WaitersWant ==
    \A f \in Fibers : fibers[f].pc \in {"waiting", "woken"}
        => NextPermit(fibers[f]) \notin fibers[f].held

\* A process that died has no part of it left.
DownIsEmpty ==
    \A o \in Owners : ~eng[o].up =>
        /\ \A d \in Drains : drains[d].pc # "idle" => drains[d].o # o
        /\ \A f \in Fibers : fibers[f].pc # "idle" => fibers[f].o # o

PInv == Counted /\ CapacityIsFiled /\ WaitersWant /\ DownIsEmpty

\* The property in these terms.
LEMMA CountedIsConserved == IInv /\ Counted => PermitsCounted
<1> SUFFICES ASSUME IInv, Counted, NEW o \in Owners, NEW k \in Keys
             PROVE  sem[o][k].cur =
                        Cardinality({f \in ActiveFibers(o) : Holds(f, k)})
  BY DEF PermitsCounted
<1>1. ASSUME NEW f \in Fibers
      PROVE  f \in ActiveFibers(o) /\ Holds(f, k) <=> Has(fibers[f], eng, o, k)
  <2>1. fibers[f] = Idle <=> fibers[f].pc = "idle"
    <3>1. fibers[f] \in FiberRecord \cup {Idle}
      BY DEF IInv, TypeOK
    <3> QED
      BY <3>1 DEF FiberRecord, Idle
  <2> QED
    BY <2>1 DEF ActiveFibers, Holds, Has, RunId
<1>2. {f \in ActiveFibers(o) : Holds(f, k)} = Holders(o, k)
  BY <1>1 DEF ActiveFibers, Holders
<1> QED
  BY <1>2 DEF Counted, CountedAt

\* The counter follows those who hold a permit: nobody comes or goes,
LEMMA SameHolders ==
    ASSUME Counted, NEW o \in Owners, NEW k \in Keys,
           sem'[o][k].cur = sem[o][k].cur,
           \A f \in Fibers :
              Has(fibers'[f], eng', o, k) <=> Has(fibers[f], eng, o, k)
    PROVE  CountedAt(o, k)'
<1>1. Holders(o, k)' = Holders(o, k)
  BY DEF Holders
<1> QED
  BY <1>1 DEF Counted, CountedAt

\* one comes,
LEMMA OneMoreHolder ==
    ASSUME Counted, NEW o \in Owners, NEW k \in Keys, NEW f \in Fibers,
           sem'[o][k].cur = sem[o][k].cur + 1,
           ~Has(fibers[f], eng, o, k), Has(fibers'[f], eng', o, k),
           \A g \in Fibers : g # f =>
              (Has(fibers'[g], eng', o, k) <=> Has(fibers[g], eng, o, k))
    PROVE  CountedAt(o, k)'
<1>1. Holders(o, k)' = Holders(o, k) \cup {f} /\ f \notin Holders(o, k)
  BY DEF Holders
<1>2. IsFiniteSet(Holders(o, k)) /\ sem[o][k].cur = Cardinality(Holders(o, k))
  BY DEF Counted, CountedAt
<1>3. /\ IsFiniteSet(Holders(o, k) \cup {f})
      /\ Cardinality(Holders(o, k) \cup {f}) = Cardinality(Holders(o, k)) + 1
  BY <1>1, <1>2, FS_AddElement
<1> QED
  BY <1>1, <1>2, <1>3 DEF CountedAt

\* or one goes.
LEMMA OneLessHolder ==
    ASSUME Counted, NEW o \in Owners, NEW k \in Keys, NEW f \in Fibers,
           sem'[o][k].cur = IF sem[o][k].cur = 0 THEN 0 ELSE sem[o][k].cur - 1,
           Has(fibers[f], eng, o, k), ~Has(fibers'[f], eng', o, k),
           \A g \in Fibers : g # f =>
              (Has(fibers'[g], eng', o, k) <=> Has(fibers[g], eng, o, k))
    PROVE  CountedAt(o, k)'
<1>1. Holders(o, k)' = Holders(o, k) \ {f} /\ f \in Holders(o, k)
  BY DEF Holders
<1>2. IsFiniteSet(Holders(o, k)) /\ sem[o][k].cur = Cardinality(Holders(o, k))
  BY DEF Counted, CountedAt
<1>3. /\ IsFiniteSet(Holders(o, k) \ {f})
      /\ Cardinality(Holders(o, k) \ {f}) = Cardinality(Holders(o, k)) - 1
  BY <1>1, <1>2, FS_RemoveElement
<1>4. Cardinality(Holders(o, k)) # 0
  BY <1>1, <1>2, FS_EmptySet
<1> QED
  BY <1>1, <1>2, <1>3, <1>4 DEF CountedAt

\* What a step leaves to each engine and to its parties.
EnginesKept ==
    \A o \in Owners : eng'[o].cap = eng[o].cap /\ eng'[o].up = eng[o].up

PartiesAreUp ==
    /\ \A d \in Drains : drains'[d].pc # "idle" =>
          \/ drains[d].pc # "idle" /\ drains'[d].o = drains[d].o
          \/ eng[drains'[d].o].up
    /\ \A f \in Fibers : fibers'[f].pc # "idle" =>
          \/ fibers[f].pc # "idle" /\ fibers'[f].o = fibers[f].o
          \/ eng[fibers'[f].o].up

\* Nothing begins in a process that is down.
LEMMA DownKept ==
    ASSUME DownIsEmpty, PartiesAreUp,
           \A o \in Owners : eng[o].up => eng'[o].up
    PROVE  DownIsEmpty'
BY DEF DownIsEmpty, PartiesAreUp

\* A fiber keeps its permits: its record stays, it has none, or it goes on
\* and keeps them.
GoesOnHolding(r, s) ==
    \/ s = r
    \/ r.pc \in {"idle", "release"} /\ s.pc \in {"idle", "release"}
    \/ /\ s.o = r.o /\ s.t = r.t /\ s.snap = r.snap /\ s.held = r.held
       /\ \/ r.pc = "waiting" /\ s.pc \in {"waiting", "woken"}
          \/ r.pc = "running" /\ s.pc = "ended"

\* Steps at which nobody takes or gives back a permit.
LEMMA NobodyTakes ==
    ASSUME PInv, EnginesKept, PartiesAreUp,
           \A o \in Owners, k \in Keys : sem'[o][k].cur = sem[o][k].cur,
           \A f \in Fibers : GoesOnHolding(fibers[f], fibers'[f])
    PROVE  PInv'
<1>1. Counted'
  <2> SUFFICES ASSUME NEW o \in Owners, NEW k \in Keys PROVE CountedAt(o, k)'
    BY DEF Counted
  <2>1. ASSUME NEW f \in Fibers
        PROVE  Has(fibers'[f], eng', o, k) <=> Has(fibers[f], eng, o, k)
    <3>1. GoesOnHolding(fibers[f], fibers'[f]) /\ eng'[o].cap = eng[o].cap
      BY DEF EnginesKept
    <3> QED
      BY <3>1 DEF GoesOnHolding, Has
  <2> QED
    BY <2>1, SameHolders DEF PInv
<1>2. CapacityIsFiled'
  <2> SUFFICES ASSUME NEW o \in Owners, NEW id \in RunIds, NEW k \in eng'[o].cap[id]
               PROVE  \E f \in Fibers : /\ Executes(f)' /\ fibers'[f].o = o
                                        /\ RunId(f)' = id /\ k \in fibers'[f].held
    BY DEF CapacityIsFiled
  <2>1. PICK f \in Fibers : /\ Executes(f) /\ fibers[f].o = o
                            /\ RunId(f) = id /\ k \in fibers[f].held
    BY DEF PInv, CapacityIsFiled, EnginesKept
  <2> QED
    BY <2>1 DEF GoesOnHolding, Executes, RunId
<1>3. WaitersWant'
  <2> SUFFICES ASSUME NEW f \in Fibers, fibers'[f].pc \in {"waiting", "woken"}
               PROVE  NextPermit(fibers'[f]) \notin fibers'[f].held
    BY DEF WaitersWant, NextPermit
  <2>1. /\ fibers[f].pc \in {"waiting", "woken"}
        /\ fibers'[f].held = fibers[f].held /\ fibers'[f].t = fibers[f].t
    BY DEF GoesOnHolding
  <2> QED
    BY <2>1 DEF PInv, WaitersWant, NextPermit
<1>4. DownIsEmpty'
  BY DownKept DEF PInv, EnginesKept
<1> QED
  BY <1>1, <1>2, <1>3, <1>4 DEF PInv

\* armTimer touches neither the entries nor the process.
LEMMA ArmKeeps ==
    ASSUME IInv, NEW o \in Owners, eng' = eng \/ eng' = [eng EXCEPT ![o] = Arm(@)]
    PROVE  EnginesKept
<1>1. eng \in [Owners -> Engine] /\ eng[o] \in Engine
  BY DEF IInv, TypeOK
<1>2. Arm(eng[o]).cap = eng[o].cap /\ Arm(eng[o]).up = eng[o].up
  BY <1>1 DEF Arm, Engine
<1> QED
  BY <1>1, <1>2 DEF EnginesKept

\* A drain goes on in its own process.
LEMMA DrainStepStays ==
    ASSUME IInv, NEW d \in Drains, DrainStep(d)
    PROVE  /\ EnginesKept
           /\ drains[d].pc # "idle" /\ drains[d].o \in Owners
           /\ \A x \in Drains : drains'[x].pc # "idle" =>
                 drains[x].pc # "idle" /\ drains'[x].o = drains[x].o
<1>p. drains[d].pc # "idle"
  BY DrainIsBusy
<1>r. /\ drains[d].o \in Owners /\ drains[d] \in DrainRecord
      /\ drains \in [Drains -> DrainRecord \cup {Idle}]
  BY <1>p, DrainFields DEF IInv, TypeOK
<1>i. Idle.pc = "idle"
  BY DEF Idle
<1>1. \/ eng' = eng
      \/ eng' = [eng EXCEPT ![drains[d].o] = Arm(@)]
  BY DEF DrainStep, DrainClaim, DrainJobMissing, DrainSkip, DrainGivesUp,
         DrainDispatch, DrainRelease, Go
<1>2. EnginesKept
  BY <1>1, <1>r, ArmKeeps
<1>s. ASSUME NEW x, drains' = [drains EXCEPT ![d] = x],
             x = Idle \/ x.o = drains[d].o
      PROVE  \A y \in Drains : drains'[y].pc # "idle" =>
                drains[y].pc # "idle" /\ drains'[y].o = drains[y].o
  <2>1. \A y \in Drains : drains'[y] = IF y = d THEN x ELSE drains[y]
    BY <1>r, <1>s
  <2> QED
    BY <1>i, <1>p, <1>s, <2>1
<1>g. ASSUME NEW due, Go(d, due)
      PROVE  \A y \in Drains : drains'[y].pc # "idle" =>
                drains[y].pc # "idle" /\ drains'[y].o = drains[y].o
  <2> DEFINE c == Claiming(drains[d].o, drains[d].at, due, drains[d].poll)
  <2>1. drains' = [drains EXCEPT ![d] = Idle] \/ drains' = [drains EXCEPT ![d] = c]
    BY <1>g DEF Go
  <2>2. c.o = drains[d].o
    BY DEF Claiming
  <2> HIDE DEF c
  <2> QED
    BY <2>1, <2>2, <1>s
<1>3. CASE DrainClaim(d)
  <2>1. PICK s \in drains[d].due :
           \/ Go(d, {})
           \/ /\ drains' = [drains EXCEPT ![d] =
                  [pc |-> "decide", o |-> drains[d].o, at |-> drains[d].at,
                   due |-> drains[d].due \ {s}, poll |-> drains[d].poll, cur |-> s]]
           \/ Go(d, drains[d].due \ {s})
    BY <1>3 DEF DrainClaim
  <2> QED
    BY <2>1, <1>p, <1>r, <1>2, <1>g, <1>s
<1>4. CASE DrainSkip(d)
  <2>1. drains' = [drains EXCEPT ![d] = [drains[d] EXCEPT !.pc = "release"]]
    BY <1>4 DEF DrainSkip
  <2>2. [drains[d] EXCEPT !.pc = "release"].o = drains[d].o
    BY <1>r DEF DrainRecord
  <2> QED
    BY <2>1, <2>2, <1>p, <1>r, <1>2, <1>s
<1>5. CASE DrainJobMissing(d) \/ DrainDispatch(d) \/ DrainRelease(d)
  BY <1>5, <1>p, <1>r, <1>2, <1>g DEF DrainJobMissing, DrainDispatch, DrainRelease
<1>6. CASE DrainGivesUp(d)
  <2>1. drains' = [drains EXCEPT ![d] = Idle]
    BY <1>6 DEF DrainGivesUp
  <2> QED
    BY <2>1, <1>p, <1>r, <1>2, <1>s
<1> QED
  BY <1>3, <1>4, <1>5, <1>6 DEF DrainStep

\* acquireCapacity's turn: a fiber that is new, or has got what it has, takes a
\* permit it lacks and counts itself in, or waits for it.
LEMMA AcquireCounts ==
    ASSUME IInv, PInv, NEW f \in Fibers, NEW r \in FiberRecord,
           r.pc = "acquire", Acquire(f, r),
           fibers[f] = r \/ (fibers[f] = Idle /\ r.held = {}),
           EnginesKept, PartiesAreUp
    PROVE  PInv'
<1> DEFINE k == NextPermit(r)
<1>t. /\ fibers \in [Fibers -> FiberRecord \cup {Idle}]
      /\ sem \in [Owners -> [Keys -> Sem]]
  BY DEF IInv, TypeOK, Sem
<1>k. k \in Keys /\ r.o \in Owners
  BY KeyTypes DEF FiberRecord
<1>s. /\ sem[r.o][k] \in Sem /\ sem[r.o][k].cur \in Nat
  BY <1>t, <1>k DEF Sem
<1>i. Idle.pc = "idle"
  BY DEF Idle
<1>h. \A o \in Owners, j \in Keys :
         Has(fibers[f], eng, o, j) <=> r.o = o /\ j \in r.held
  BY <1>i DEF Has
<1>o. ASSUME NEW s, \A g \in Fibers : fibers'[g] = IF g = f THEN s ELSE fibers[g],
             s.pc \in {"acquire", "waiting"}
      PROVE  /\ CapacityIsFiled'
             /\ (s.pc = "waiting" => NextPermit(s) \notin s.held) => WaitersWant'
  <2>1. CapacityIsFiled'
    <3> SUFFICES ASSUME NEW o \in Owners, NEW id \in RunIds, NEW j \in eng'[o].cap[id]
                 PROVE  \E g \in Fibers : /\ Executes(g)' /\ fibers'[g].o = o
                                          /\ RunId(g)' = id /\ j \in fibers'[g].held
      BY DEF CapacityIsFiled
    <3>1. PICK g \in Fibers : /\ Executes(g) /\ fibers[g].o = o
                              /\ RunId(g) = id /\ j \in fibers[g].held
      BY DEF PInv, CapacityIsFiled, EnginesKept
    <3>2. g # f
      BY <3>1, <1>i DEF Executes
    <3> QED
      BY <1>o, <3>1, <3>2 DEF Executes, RunId
  <2>2. ASSUME s.pc = "waiting" => NextPermit(s) \notin s.held
        PROVE  WaitersWant'
    <3> SUFFICES ASSUME NEW g \in Fibers, fibers'[g].pc \in {"waiting", "woken"}
                 PROVE  NextPermit(fibers'[g]) \notin fibers'[g].held
      BY DEF WaitersWant, NextPermit
    <3> QED
      BY <1>o, <2>2 DEF PInv, WaitersWant
  <2> QED
    BY <2>1, <2>2
<1>d. DownIsEmpty'
  BY DownKept DEF PInv, EnginesKept
<1>g. ASSUME NEW g \in Fibers, fibers'[g] = fibers[g], NEW o \in Owners, NEW j \in Keys
      PROVE  Has(fibers'[g], eng', o, j) <=> Has(fibers[g], eng, o, j)
  BY <1>g DEF Has, EnginesKept
<1>1. CASE fibers' = [fibers EXCEPT ![f] = r] /\ UNCHANGED sem
  <2>1. \A g \in Fibers : fibers'[g] = IF g = f THEN r ELSE fibers[g]
    BY <1>1, <1>t
  <2>2. ASSUME NEW o \in Owners, NEW j \in Keys PROVE CountedAt(o, j)'
    <3>1. Has(fibers'[f], eng', o, j) <=> Has(fibers[f], eng, o, j)
      BY <2>1, <1>h DEF Has
    <3> QED
      BY <1>1, <1>g, <2>1, <3>1, SameHolders DEF PInv
  <2>3. CapacityIsFiled' /\ WaitersWant'
    BY <2>1, <1>o
  <2> QED
    BY <2>2, <2>3, <1>d DEF PInv, Counted
<1>2. CASE /\ MustAcquire(r)
           /\ sem' = [sem EXCEPT ![r.o][k].cur = @ + 1]
           /\ fibers' = [fibers EXCEPT ![f] = [r EXCEPT !.held = @ \cup {k}]]
  <2> DEFINE s == [r EXCEPT !.held = @ \cup {k}]
  <2>1. \A g \in Fibers : fibers'[g] = IF g = f THEN s ELSE fibers[g]
    BY <1>2, <1>t
  <2>2. s.pc = "acquire" /\ s.o = r.o /\ s.held = r.held \cup {k}
    BY DEF FiberRecord
  <2>3. k \notin r.held
    BY <1>2 DEF MustAcquire
  <2> HIDE DEF s, k
  <2>4. \A o \in Owners, j \in Keys :
           sem'[o][j].cur = IF o = r.o /\ j = k THEN sem[o][j].cur + 1
                            ELSE sem[o][j].cur
    BY <1>2, <1>k, <1>s, <1>t DEF Sem
  <2>5. ASSUME NEW o \in Owners, NEW j \in Keys PROVE CountedAt(o, j)'
    <3>1. Has(fibers'[f], eng', o, j) <=> o = r.o /\ j \in r.held \cup {k}
      BY <2>1, <2>2 DEF Has
    <3>2. \A g \in Fibers : g # f =>
             (Has(fibers'[g], eng', o, j) <=> Has(fibers[g], eng, o, j))
      BY <1>g, <2>1
    <3>3. CASE o = r.o /\ j = k
      <4>1. sem'[o][j].cur = sem[o][j].cur + 1
        BY <2>4, <3>3
      <4>2. ~Has(fibers[f], eng, o, j) /\ Has(fibers'[f], eng', o, j)
        BY <1>h, <2>3, <3>1, <3>3
      <4> QED
        BY <3>2, <4>1, <4>2, OneMoreHolder DEF PInv
    <3>4. CASE ~(o = r.o /\ j = k)
      <4>1. sem'[o][j].cur = sem[o][j].cur
        BY <2>4, <3>4
      <4>2. Has(fibers'[f], eng', o, j) <=> Has(fibers[f], eng, o, j)
        BY <1>h, <3>1, <3>4
      <4>3. \A g \in Fibers :
               Has(fibers'[g], eng', o, j) <=> Has(fibers[g], eng, o, j)
        BY <3>2, <4>2
      <4> QED
        BY <4>1, <4>3, SameHolders DEF PInv
    <3> QED
      BY <3>3, <3>4
  <2>6. CapacityIsFiled' /\ WaitersWant'
    BY <2>1, <2>2, <1>o
  <2> QED
    BY <2>5, <2>6, <1>d DEF PInv, Counted
<1>3. CASE /\ MustAcquire(r)
           /\ sem' = [sem EXCEPT ![r.o][k].queue = Append(@, f)]
           /\ fibers' = [fibers EXCEPT ![f] = [r EXCEPT !.pc = "waiting"]]
  <2> DEFINE s == [r EXCEPT !.pc = "waiting"]
  <2>1. \A g \in Fibers : fibers'[g] = IF g = f THEN s ELSE fibers[g]
    BY <1>3, <1>t
  <2>2. /\ s.pc = "waiting" /\ s.o = r.o /\ s.held = r.held
        /\ NextPermit(s) = k
    BY DEF FiberRecord, NextPermit
  <2>3. k \notin r.held
    BY <1>3 DEF MustAcquire
  <2> HIDE DEF s, k
  <2>4. \A o \in Owners, j \in Keys : sem'[o][j].cur = sem[o][j].cur
    BY <1>3, <1>k, <1>s, <1>t DEF Sem
  <2>5. ASSUME NEW o \in Owners, NEW j \in Keys PROVE CountedAt(o, j)'
    <3>1. Has(fibers'[f], eng', o, j) <=> Has(fibers[f], eng, o, j)
      BY <2>1, <2>2, <1>h DEF Has
    <3> QED
      BY <1>g, <2>1, <2>4, <3>1, SameHolders DEF PInv
  <2>6. CapacityIsFiled' /\ WaitersWant'
    BY <2>1, <2>2, <2>3, <1>o
  <2> QED
    BY <2>5, <2>6, <1>d DEF PInv, Counted
<1> QED
  BY <1>1, <1>2, <1>3 DEF Acquire

\* A woken waiter takes the permit it waited for.
LEMMA ResumeCounts ==
    ASSUME IInv, PInv, NEW f \in Fibers, Resume(f)
    PROVE  PInv'
<1> DEFINE r == fibers[f]
           k == NextPermit(r)
           s == [r EXCEPT !.pc = "acquire", !.held = r.held \cup {k}]
<1>1. /\ r.pc = "woken" /\ r \in FiberRecord /\ r.o \in Owners
      /\ r.held \in SUBSET Keys /\ k \in Keys
  BY FiberFields, KeyTypes DEF Resume
<1>t. /\ fibers \in [Fibers -> FiberRecord \cup {Idle}]
      /\ sem \in [Owners -> [Keys -> Sem]]
  BY DEF IInv, TypeOK, Sem
<1>2. \A g \in Fibers : fibers'[g] = IF g = f THEN s ELSE fibers[g]
  <2>1. fibers' = [fibers EXCEPT ![f] = s]
    BY <1>1, <1>t DEF FiberRecord, Resume
  <2> QED
    BY <2>1, <1>t
<1>3. s.pc = "acquire" /\ s.o = r.o /\ s.held = r.held \cup {k} /\ k \notin r.held
  BY <1>1 DEF FiberRecord, PInv, WaitersWant
<1>4. sem' = [sem EXCEPT ![r.o][k].cur = @ + 1] /\ UNCHANGED <<eng, drains>>
  BY DEF Resume
<1> HIDE DEF k, s
<1>5. \A o \in Owners, j \in Keys :
         sem'[o][j].cur = IF o = r.o /\ j = k THEN sem[o][j].cur + 1
                          ELSE sem[o][j].cur
  <2>1. sem[r.o][k] \in Sem
    BY <1>1, <1>t
  <2> QED
    BY <1>1, <1>4, <1>t, <2>1 DEF Sem
<1>6. ASSUME NEW o \in Owners, NEW j \in Keys PROVE CountedAt(o, j)'
  <2>1. /\ Has(fibers[f], eng, o, j) <=> o = r.o /\ j \in r.held
        /\ Has(fibers'[f], eng', o, j) <=> o = r.o /\ j \in r.held \cup {k}
        /\ \A g \in Fibers : g # f =>
             (Has(fibers'[g], eng', o, j) <=> Has(fibers[g], eng, o, j))
    BY <1>1, <1>2, <1>3, <1>4 DEF Has
  <2>2. CASE o = r.o /\ j = k
    <3>1. /\ sem'[o][j].cur = sem[o][j].cur + 1
          /\ ~Has(fibers[f], eng, o, j) /\ Has(fibers'[f], eng', o, j)
      BY <1>3, <1>5, <2>1, <2>2
    <3> QED
      BY <2>1, <3>1, OneMoreHolder DEF PInv
  <2>3. CASE ~(o = r.o /\ j = k)
    <3>1. /\ sem'[o][j].cur = sem[o][j].cur
          /\ \A g \in Fibers :
               Has(fibers'[g], eng', o, j) <=> Has(fibers[g], eng, o, j)
      BY <1>5, <2>1, <2>3
    <3> QED
      BY <3>1, SameHolders DEF PInv
  <2> QED
    BY <2>2, <2>3
<1>7. CapacityIsFiled'
  <2> SUFFICES ASSUME NEW o \in Owners, NEW id \in RunIds, NEW j \in eng[o].cap[id]
               PROVE  \E g \in Fibers : /\ Executes(g)' /\ fibers'[g].o = o
                                        /\ RunId(g)' = id /\ j \in fibers'[g].held
    BY <1>4 DEF CapacityIsFiled
  <2>1. PICK g \in Fibers : /\ Executes(g) /\ fibers[g].o = o
                            /\ RunId(g) = id /\ j \in fibers[g].held
    BY DEF PInv, CapacityIsFiled
  <2>2. g # f
    BY <1>1, <2>1 DEF Executes
  <2> QED
    BY <1>2, <2>1, <2>2 DEF Executes, RunId
<1>8. WaitersWant'
  <2> SUFFICES ASSUME NEW g \in Fibers, fibers'[g].pc \in {"waiting", "woken"}
               PROVE  NextPermit(fibers'[g]) \notin fibers'[g].held
    BY DEF WaitersWant, NextPermit
  <2> QED
    BY <1>2, <1>3 DEF PInv, WaitersWant
<1>9. DownIsEmpty'
  <2>1. \A g \in Fibers : fibers'[g].pc # "idle" =>
            fibers[g].pc # "idle" /\ fibers'[g].o = fibers[g].o
    BY <1>1, <1>2, <1>3
  <2> QED
    BY <1>4, <2>1 DEF PInv, DownIsEmpty
<1> QED
  BY <1>6, <1>7, <1>8, <1>9 DEF PInv, Counted

\* The start of a run files the permits it has.
LEMMA StartRunCounts ==
    ASSUME IInv, IInv', PInv, IdsDiffer', NEW f \in Fibers, StartRun(f)
    PROVE  PInv'
<1> DEFINE r == fibers[f]
           id == RunId(f)
<1>1. /\ r.pc = "acquire" /\ r \in FiberRecord /\ r.o \in Owners
      /\ r.held \in SUBSET Keys /\ id \in RunIds
  BY FiberFields DEF StartRun
<1>t. /\ fibers \in [Fibers -> FiberRecord \cup {Idle}]
      /\ eng \in [Owners -> Engine]
  BY DEF IInv, TypeOK
<1>2. /\ \A g \in Fibers : g # f => fibers'[g] = fibers[g]
      /\ fibers'[f].pc = "running" /\ fibers'[f].o = r.o
      /\ fibers'[f].t = r.t /\ fibers'[f].snap = r.snap /\ fibers'[f].held = r.held
  <2>1. PICK n : fibers' = [fibers EXCEPT ![f] = [r EXCEPT !.pc = "running", !.since = n]]
    BY <1>1, <1>t DEF StartRun
  <2>2. \A g \in Fibers : fibers'[g] = IF g = f
            THEN [r EXCEPT !.pc = "running", !.since = n] ELSE fibers[g]
    BY <1>t, <2>1
  <2> QED
    BY <1>1, <2>2 DEF FiberRecord
<1>3. /\ \A o \in Owners : eng'[o].up = eng[o].up
      /\ \A o \in Owners, i \in RunIds :
           eng'[o].cap[i] = IF o = r.o /\ i = id THEN r.held ELSE eng[o].cap[i]
  <2>1. eng' = [eng EXCEPT ![r.o].cap[id] = r.held]
    BY DEF StartRun
  <2> HIDE DEF id, r
  <2> QED
    BY <1>1, <1>t, <2>1 DEF Engine
<1>4. UNCHANGED <<sem, drains>>
  BY DEF StartRun
<1>5. RunId(f)' = id
  BY <1>2 DEF RunId
<1>6. ASSUME NEW g \in Fibers, g # f, Executes(g), fibers[g].o = r.o
      PROVE  RunId(g) # id
  <2>1. Executes(g)' /\ Executes(f)' /\ fibers'[g].o = fibers'[f].o
        /\ RunId(g)' = RunId(g)
    BY <1>2, <1>6 DEF Executes, RunId
  <2> QED
    BY <1>5, <1>6, <2>1 DEF IdsDiffer
<1> HIDE DEF id
<1>7. ASSUME NEW o \in Owners, NEW k \in Keys PROVE CountedAt(o, k)'
  <2>1. ASSUME NEW g \in Fibers
        PROVE  Has(fibers'[g], eng', o, k) <=> Has(fibers[g], eng, o, k)
    <3>1. CASE g = f
      <4>1. Has(fibers[f], eng, o, k) <=> r.o = o /\ k \in r.held
        BY <1>1 DEF Has
      <4>2. Has(fibers'[f], eng', o, k) <=>
                r.o = o /\ k \in r.held /\ k \in eng'[o].cap[id]
        BY <1>2, <1>5 DEF Has, RunId
      <4> QED
        BY <1>1, <1>3, <3>1, <4>1, <4>2
    <3>2. CASE g # f
      <4>1. fibers'[g] = fibers[g]
        BY <1>2, <3>2
      <4>2. CASE Executes(g) /\ fibers[g].o = o
        <5>1. RunId(g) \in RunIds
          BY <4>2, FiberFields DEF Executes
        <5>2. eng'[o].cap[RunId(g)] = eng[o].cap[RunId(g)]
          BY <1>3, <1>6, <3>2, <4>2, <5>1
        <5> QED
          BY <4>1, <5>2 DEF Has, RunId
      <4>3. CASE ~(Executes(g) /\ fibers[g].o = o)
        BY <4>1, <4>3 DEF Has, Executes
      <4> QED
        BY <4>2, <4>3
    <3> QED
      BY <3>1, <3>2
  <2> QED
    BY <1>4, <2>1, SameHolders DEF PInv
<1>8. CapacityIsFiled'
  <2> SUFFICES ASSUME NEW o \in Owners, NEW i \in RunIds, NEW k \in eng'[o].cap[i]
               PROVE  \E g \in Fibers : /\ Executes(g)' /\ fibers'[g].o = o
                                        /\ RunId(g)' = i /\ k \in fibers'[g].held
    BY DEF CapacityIsFiled
  <2>1. CASE o = r.o /\ i = id
    BY <1>2, <1>3, <1>5, <2>1 DEF Executes
  <2>2. CASE ~(o = r.o /\ i = id)
    <3>1. k \in eng[o].cap[i]
      BY <1>3, <2>2
    <3>2. PICK g \in Fibers : /\ Executes(g) /\ fibers[g].o = o
                              /\ RunId(g) = i /\ k \in fibers[g].held
      BY <3>1 DEF PInv, CapacityIsFiled
    <3>3. g # f
      BY <1>1, <3>2 DEF Executes
    <3> QED
      BY <1>2, <3>2, <3>3 DEF Executes, RunId
  <2> QED
    BY <2>1, <2>2
<1>9. WaitersWant'
  <2> SUFFICES ASSUME NEW g \in Fibers, fibers'[g].pc \in {"waiting", "woken"}
               PROVE  NextPermit(fibers'[g]) \notin fibers'[g].held
    BY DEF WaitersWant, NextPermit
  <2> QED
    BY <1>2 DEF PInv, WaitersWant
<1>10. DownIsEmpty'
  BY <1>1, <1>2, <1>3, <1>4 DEF PInv, DownIsEmpty
<1> QED
  BY <1>7, <1>8, <1>9, <1>10 DEF PInv, Counted

\* A wake-up changes nothing but that.
LEMMA WokenHolds ==
    ASSUME IInv, NEW o \in Owners, NEW id \in RunIds, NEW g \in Fibers
    PROVE  LET s == FibersWoken(o, id)[g]
               r == fibers[g]
           IN  \/ s = r
               \/ /\ r.pc = "waiting" /\ s.pc = "woken"
                  /\ s.o = r.o /\ s.t = r.t /\ s.snap = r.snap /\ s.held = r.held
<1>1. CASE fibers[g].pc # "waiting"
  BY <1>1, FreedEffect
<1>2. CASE fibers[g].pc = "waiting"
  <2>1. fibers[g] \in FiberRecord
    BY <1>2, FiberFields
  <2> QED
    BY <1>2, <2>1 DEF FibersWoken, FiberRecord
<1> QED
  BY <1>1, <1>2

\* releaseRunCapacity gives back the permits of the one run that goes by this
\* id, be it over or given up.
LEMMA FreedCounts ==
    ASSUME IInv, PInv, IdsDiffer, NEW o \in Owners, NEW id \in RunIds,
           sem' = SemFreed(o, id),
           \A p \in Owners : eng'[p].up = eng[p].up,
           \A p \in Owners, i \in RunIds :
              eng'[p].cap[i] = IF p = o /\ i = id THEN {} ELSE eng[p].cap[i],
           \A g \in Fibers :
              \/ fibers'[g] = FibersWoken(o, id)[g]
              \/ /\ Executes(g) /\ fibers[g].o = o /\ RunId(g) = id
                 /\ \/ fibers'[g].pc = "idle"
                    \/ fibers'[g].pc = "release" /\ fibers'[g].o = o,
           UNCHANGED drains
    PROVE  PInv'
<1> DEFINE Over(g) == /\ Executes(g) /\ fibers[g].o = o /\ RunId(g) = id
                      /\ \/ fibers'[g].pc = "idle"
                         \/ fibers'[g].pc = "release" /\ fibers'[g].o = o
           Same(g) == \/ fibers'[g] = fibers[g]
                      \/ /\ fibers[g].pc = "waiting" /\ fibers'[g].pc = "woken"
                         /\ fibers'[g].o = fibers[g].o /\ fibers'[g].t = fibers[g].t
                         /\ fibers'[g].snap = fibers[g].snap
                         /\ fibers'[g].held = fibers[g].held
<1>1. \A g \in Fibers : Over(g) \/ Same(g)
  BY WokenHolds
<1>2. \A g \in Fibers : Executes(g) => RunId(g) \in RunIds
  BY FiberFields DEF Executes
<1>3. \A p \in Owners, k \in Keys :
         sem'[p][k].cur =
            IF p = o /\ k \in eng[o].cap[id]
            THEN IF sem[p][k].cur = 0 THEN 0 ELSE sem[p][k].cur - 1
            ELSE sem[p][k].cur
  <2>1. sem \in [Owners -> [Keys -> Sem]]
    BY DEF IInv, TypeOK, Sem
  <2> QED
    BY <2>1 DEF SemFreed, Freed
\* For a permit that is not given back nothing changes.
<1>4. ASSUME NEW p \in Owners, NEW k \in Keys, NEW g \in Fibers,
             \/ ~(p = o /\ k \in eng[o].cap[id])
             \/ ~(Executes(g) /\ fibers[g].o = o /\ RunId(g) = id)
      PROVE  Has(fibers'[g], eng', p, k) <=> Has(fibers[g], eng, p, k)
  <2>1. CASE Over(g)
    <3>1. ~Has(fibers'[g], eng', p, k)
      BY <2>1 DEF Has
    <3>2. ~Has(fibers[g], eng, p, k)
      BY <1>4, <2>1 DEF Has, Executes, RunId
    <3> QED
      BY <3>1, <3>2
  <2>2. CASE fibers'[g] = fibers[g]
    <3>1. CASE Executes(g) /\ fibers[g].o = p
      <4>1. k \in eng'[p].cap[RunId(g)] <=> k \in eng[p].cap[RunId(g)]
        BY <1>2, <1>4, <3>1
      <4> QED
        BY <2>2, <4>1 DEF Has, RunId
    <3>2. CASE ~(Executes(g) /\ fibers[g].o = p)
      BY <2>2, <3>2 DEF Has, Executes
    <3> QED
      BY <3>1, <3>2
  <2>3. CASE Same(g) /\ fibers'[g] # fibers[g]
    BY <2>3 DEF Has
  <2> HIDE DEF Over, Same
  <2> QED
    BY <1>1, <2>1, <2>2, <2>3
<1>5. ASSUME NEW p \in Owners, NEW k \in Keys PROVE CountedAt(p, k)'
  <2>1. CASE ~(p = o /\ k \in eng[o].cap[id])
    BY <1>3, <1>4, <2>1, SameHolders DEF PInv
  <2>2. CASE p = o /\ k \in eng[o].cap[id]
    <3>1. PICK f \in Fibers : /\ Executes(f) /\ fibers[f].o = o
                              /\ RunId(f) = id /\ k \in fibers[f].held
      BY <2>2 DEF PInv, CapacityIsFiled
    <3>2. Has(fibers[f], eng, p, k)
      BY <2>2, <3>1 DEF Has, Executes, RunId
    <3>3. ~Has(fibers'[f], eng', p, k)
      <4>1. CASE Over(f)
        BY <4>1 DEF Has
      <4>2. CASE Same(f)
        <5>1. fibers'[f] = fibers[f]
          BY <3>1, <4>2 DEF Executes
        <5>2. eng'[p].cap[<<fibers[f].t, fibers[f].snap.rid>>] = {}
          BY <2>2, <3>1 DEF RunId
        <5> QED
          BY <3>1, <5>1, <5>2 DEF Has, Executes
      <4> HIDE DEF Over, Same
      <4> QED
        BY <1>1, <4>1, <4>2
    <3>4. \A g \in Fibers : g # f =>
             (Has(fibers'[g], eng', p, k) <=> Has(fibers[g], eng, p, k))
      BY <1>4, <3>1 DEF IdsDiffer
    <3>5. sem'[p][k].cur = IF sem[p][k].cur = 0 THEN 0 ELSE sem[p][k].cur - 1
      BY <1>3, <2>2
    <3> QED
      BY <3>2, <3>3, <3>4, <3>5, OneLessHolder DEF PInv
  <2> QED
    BY <2>1, <2>2
<1>6. CapacityIsFiled'
  <2> SUFFICES ASSUME NEW p \in Owners, NEW i \in RunIds, NEW k \in eng'[p].cap[i]
               PROVE  \E g \in Fibers : /\ Executes(g)' /\ fibers'[g].o = p
                                        /\ RunId(g)' = i /\ k \in fibers'[g].held
    BY DEF CapacityIsFiled
  <2>1. ~(p = o /\ i = id) /\ k \in eng[p].cap[i]
    OBVIOUS
  <2>2. PICK g \in Fibers : /\ Executes(g) /\ fibers[g].o = p
                            /\ RunId(g) = i /\ k \in fibers[g].held
    BY <2>1 DEF PInv, CapacityIsFiled
  <2>3. fibers'[g] = fibers[g]
    BY <1>1, <2>1, <2>2 DEF Executes
  <2> QED
    BY <2>2, <2>3 DEF Executes, RunId
<1>7. WaitersWant'
  <2> SUFFICES ASSUME NEW g \in Fibers, fibers'[g].pc \in {"waiting", "woken"}
               PROVE  NextPermit(fibers'[g]) \notin fibers'[g].held
    BY DEF WaitersWant, NextPermit
  <2>1. Same(g)
    BY <1>1
  <2>2. /\ fibers[g].pc \in {"waiting", "woken"}
        /\ fibers'[g].held = fibers[g].held /\ fibers'[g].t = fibers[g].t
    BY <2>1
  <2> QED
    BY <2>2 DEF PInv, WaitersWant, NextPermit
<1>8. DownIsEmpty'
  <2>1. \A g \in Fibers : fibers'[g].pc # "idle" =>
            fibers[g].pc # "idle" /\ fibers'[g].o = fibers[g].o
    BY <1>1 DEF Executes
  <2> QED
    BY <2>1 DEF PInv, DownIsEmpty
<1> QED
  BY <1>5, <1>6, <1>7, <1>8 DEF PInv, Counted

\* The end of a run gives its permits back; so does the monitor.
LEMMA GivenBackCounts ==
    ASSUME IInv, PInv, IdsDiffer,
           \/ \E f \in Fibers : Wrap(f) \/ WrapHandled(f) \/ WrapGivesUp(f)
           \/ \E o \in Owners : MonForget(o) \/ MonSettle(o) \/ MonGivesUp(o)
    PROVE  PInv'
<1>e. /\ eng \in [Owners -> Engine]
      /\ fibers \in [Fibers -> FiberRecord \cup {Idle}]
  BY DEF IInv, TypeOK
<1>i. Idle.pc = "idle"
  BY DEF Idle
<1>1. ASSUME NEW f \in Fibers, Wrap(f) \/ WrapHandled(f) \/ WrapGivesUp(f) PROVE PInv'
  <2> DEFINE p == fibers[f].o
             id == RunId(f)
  <2>1. p \in Owners /\ id \in RunIds /\ fibers[f].pc = "ended" /\ fibers[f] \in FiberRecord
    BY <1>1, FiberFields DEF Wrap, WrapHandled, WrapGivesUp
  <2>2. sem' = SemFreed(p, id) /\ UNCHANGED drains
    BY <1>1 DEF Wrap, WrapHandled, WrapGivesUp
  <2>3. /\ FibersWoken(p, id) \in [Fibers -> FiberRecord \cup {Idle}]
        /\ FibersWoken(p, id)[f] = fibers[f]
    BY <2>1, FreedEffect
  <2>4. \/ fibers' = [FibersWoken(p, id) EXCEPT ![f].pc = "release"]
        \/ fibers' = [FibersWoken(p, id) EXCEPT ![f] = Idle]
    BY <1>1 DEF Wrap, WrapHandled, WrapGivesUp
  <2>5. \/ eng' = [eng EXCEPT ![p].cap[id] = {}]
        \/ eng' = [eng EXCEPT ![p].cap[id] = {}, ![p].handled = @ \ {id},
                              ![p].wait = @ \ {f}]
        \/ eng' = [eng EXCEPT ![p].cap[id] = {}, ![p].wait = @ \ {f}]
    BY <1>1 DEF Wrap, WrapHandled, WrapGivesUp
  <2> HIDE DEF id, p
  <2>6. /\ \A g \in Fibers : g # f => fibers'[g] = FibersWoken(p, id)[g]
        /\ \/ fibers'[f].pc = "idle"
           \/ fibers'[f].pc = "release" /\ fibers'[f].o = p
    BY <1>i, <2>1, <2>3, <2>4 DEF FiberRecord, p
  <2>7. /\ \A o \in Owners : eng'[o].up = eng[o].up
        /\ \A o \in Owners, i \in RunIds :
             eng'[o].cap[i] = IF o = p /\ i = id THEN {} ELSE eng[o].cap[i]
    <3>1. CASE eng' = [eng EXCEPT ![p].cap[id] = {}]
      BY <1>e, <2>1, <3>1 DEF Engine
    <3>2. CASE eng' = [eng EXCEPT ![p].cap[id] = {}, ![p].handled = @ \ {id},
                                  ![p].wait = @ \ {f}]
      BY <1>e, <2>1, <3>2 DEF Engine
    <3>3. CASE eng' = [eng EXCEPT ![p].cap[id] = {}, ![p].wait = @ \ {f}]
      BY <1>e, <2>1, <3>3 DEF Engine
    <3> QED
      BY <2>5, <3>1, <3>2, <3>3
  <2>8. \A g \in Fibers :
           \/ fibers'[g] = FibersWoken(p, id)[g]
           \/ /\ Executes(g) /\ fibers[g].o = p /\ RunId(g) = id
              /\ \/ fibers'[g].pc = "idle"
                 \/ fibers'[g].pc = "release" /\ fibers'[g].o = p
    BY <2>1, <2>6 DEF Executes, id, p
  <2> QED
    BY <2>1, <2>2, <2>7, <2>8, FreedCounts
<1>2. ASSUME NEW o \in Owners, MonForget(o) \/ MonSettle(o) \/ MonGivesUp(o) PROVE PInv'
  <2> DEFINE id == mon[o].run.id
  <2>1. id \in RunIds
    BY <1>2, MonFields DEF MonForget, MonSettle, MonGivesUp
  <2>2. GiveUpRun(o, id) /\ UNCHANGED drains
    BY <1>2 DEF MonForget, MonSettle, MonGivesUp
  <2> HIDE DEF id
  <2>3. sem' = SemFreed(o, id) /\ fibers' = FibersWoken(o, id)
    BY <2>2 DEF GiveUpRun
  <2>4. /\ \A p \in Owners : eng'[p].up = eng[p].up
        /\ \A p \in Owners, i \in RunIds :
             eng'[p].cap[i] = IF p = o /\ i = id THEN {} ELSE eng[p].cap[i]
    BY <1>e, <2>1, <2>2 DEF Engine, GiveUpRun
  <2> QED
    BY <2>1, <2>2, <2>3, <2>4, FreedCounts
<1> QED
  BY <1>1, <1>2

\* The handler's end and the last release take and give no permit.
LEMMA RunEndCounts ==
    ASSUME IInv, PInv, NEW f \in Fibers,
           ReleaseLease(f) \/ \E ok \in BOOLEAN : Settled(f, ok)
    PROVE  PInv'
<1>e. /\ eng \in [Owners -> Engine]
      /\ fibers \in [Fibers -> FiberRecord \cup {Idle}]
  BY DEF IInv, TypeOK
<1>f. fibers[f].pc # "idle" /\ fibers[f] \in FiberRecord /\ fibers[f].o \in Owners
  BY FiberFields DEF ReleaseLease, Settled, Running
<1>1. CASE ReleaseLease(f)
  <2>1. \A g \in Fibers : fibers'[g] = IF g = f THEN Idle ELSE fibers[g]
    BY <1>1, <1>e DEF ReleaseLease
  <2>2. \A g \in Fibers : /\ GoesOnHolding(fibers[g], fibers'[g])
                          /\ fibers'[g].pc # "idle" => fibers'[g] = fibers[g]
    BY <1>1, <2>1 DEF GoesOnHolding, ReleaseLease, Idle
  <2>3. EnginesKept
    BY <1>1, <1>e, <1>f DEF EnginesKept, ReleaseLease, Engine
  <2>4. UNCHANGED <<sem, drains>>
    BY <1>1 DEF ReleaseLease
  <2>5. PartiesAreUp
    BY <2>2, <2>4 DEF PartiesAreUp
  <2> QED
    BY <2>2, <2>3, <2>4, <2>5, NobodyTakes
<1>2. ASSUME NEW ok \in BOOLEAN, Settled(f, ok) PROVE PInv'
  <2> DEFINE s == [fibers[f] EXCEPT !.pc = "ended", !.since = 0, !.ok = ok]
  <2>1. fibers[f].pc = "running" /\ UNCHANGED <<eng, sem, drains>>
    BY <1>2 DEF Settled, Running
  <2>2. fibers' = [fibers EXCEPT ![f] = s]
    BY <1>2, <1>e, <1>f DEF Settled, FiberRecord
  <2>3. /\ s.pc = "ended" /\ s.o = fibers[f].o /\ s.t = fibers[f].t
        /\ s.snap = fibers[f].snap /\ s.held = fibers[f].held
    BY <1>f DEF FiberRecord
  <2> HIDE DEF s
  <2>4. \A g \in Fibers : fibers'[g] = IF g = f THEN s ELSE fibers[g]
    BY <1>e, <2>2
  <2>5. \A g \in Fibers : GoesOnHolding(fibers[g], fibers'[g])
    BY <2>1, <2>3, <2>4 DEF GoesOnHolding
  <2>6. EnginesKept /\ PartiesAreUp
    BY <1>f, <2>1, <2>3, <2>4 DEF EnginesKept, PartiesAreUp
  <2> QED
    BY <2>1, <2>5, <2>6, NobodyTakes
<1> QED
  BY <1>1, <1>2

\* What a drain dispatches begins without a permit, in a process that is up.
LEMMA DrainStepCounts ==
    ASSUME IInv, PInv, NEW d \in Drains, DrainStep(d)
    PROVE  PInv'
<1>1. /\ EnginesKept
      /\ drains[d].pc # "idle" /\ drains[d].o \in Owners
      /\ \A x \in Drains : drains'[x].pc # "idle" =>
            drains[x].pc # "idle" /\ drains'[x].o = drains[x].o
  BY DrainStepStays
<1>2. eng[drains[d].o].up
  BY <1>1 DEF PInv, DownIsEmpty
<1>3. CASE DrainDispatch(d)
  <2> DEFINE r == [pc |-> "acquire", o |-> drains[d].o, t |-> drains[d].cur.t,
                   snap |-> drains[d].cur.snap, sched |-> drains[d].cur.snap.next,
                   held |-> {}, since |-> 0, ok |-> FALSE]
  <2>1. PICK f \in Fibers : fibers[f] = Idle /\ Acquire(f, r)
    BY <1>3 DEF DrainDispatch
  <2>2. r \in FiberRecord
    <3>1. /\ drains[d].cur.t \in Triggers /\ drains[d].cur.snap \in TriggerRecord
          /\ drains[d].cur.snap.next \in Nat
      BY <1>3, DrainFields DEF DrainDispatch, Deciding, TriggerRecord, Snapshot
    <3> QED
      BY <1>1, <3>1 DEF FiberRecord
  <2>3. r.pc = "acquire" /\ r.held = {} /\ r.o = drains[d].o
    OBVIOUS
  <2> HIDE DEF r
  <2>4. /\ fibers'[f].o = r.o
        /\ \A g \in Fibers : g # f => fibers'[g] = fibers[g]
    <3>1. fibers \in [Fibers -> FiberRecord \cup {Idle}]
      BY DEF IInv, TypeOK
    <3>2. \E s : /\ s.o = r.o
                 /\ fibers' = [fibers EXCEPT ![f] = s]
      <4>1. [r EXCEPT !.pc = "waiting"].o = r.o
        BY <2>2 DEF FiberRecord
      <4>2. [r EXCEPT !.held = @ \cup {NextPermit(r)}].o = r.o
        BY <2>2 DEF FiberRecord
      <4> QED
        BY <2>1, <4>1, <4>2 DEF Acquire
    <3> QED
      BY <3>1, <3>2
  <2>5. PartiesAreUp
    BY <1>1, <1>2, <2>3, <2>4 DEF PartiesAreUp
  <2> QED
    BY <1>1, <2>1, <2>2, <2>3, <2>5, AcquireCounts
<1>4. CASE \/ DrainClaim(d) \/ DrainJobMissing(d) \/ DrainSkip(d)
           \/ DrainGivesUp(d) \/ DrainRelease(d)
  <2>1. UNCHANGED <<fibers, sem>>
    BY <1>4 DEF DrainClaim, DrainJobMissing, DrainSkip, DrainGivesUp, DrainRelease
  <2>2. PartiesAreUp /\ \A f \in Fibers : GoesOnHolding(fibers[f], fibers'[f])
    BY <1>1, <2>1 DEF PartiesAreUp, GoesOnHolding
  <2> QED
    BY <1>1, <2>1, <2>2, NobodyTakes
<1> QED
  BY <1>3, <1>4 DEF DrainStep

\* acquireCapacity goes on.
LEMMA AcquireMoreCounts ==
    ASSUME IInv, PInv, NEW f \in Fibers, AcquireMore(f)
    PROVE  PInv'
<1>1. /\ fibers[f].pc = "acquire" /\ Acquire(f, fibers[f])
      /\ UNCHANGED <<eng, drains>>
  BY DEF AcquireMore
<1>2. fibers[f] \in FiberRecord
  BY <1>1, FiberFields
<1>3. EnginesKept
  BY <1>1 DEF EnginesKept
<1>4. PartiesAreUp
  <2>1. fibers \in [Fibers -> FiberRecord \cup {Idle}]
    BY DEF IInv, TypeOK
  <2>2. \E s : s.o = fibers[f].o /\ fibers' = [fibers EXCEPT ![f] = s]
    <3>1. [fibers[f] EXCEPT !.pc = "waiting"].o = fibers[f].o
      BY <1>2 DEF FiberRecord
    <3>2. [fibers[f] EXCEPT !.held = @ \cup {NextPermit(fibers[f])}].o = fibers[f].o
      BY <1>2 DEF FiberRecord
    <3> QED
      BY <1>1, <3>1, <3>2 DEF Acquire
  <2>3. \A g \in Fibers : fibers'[g].pc # "idle" =>
            fibers[g].pc # "idle" /\ fibers'[g].o = fibers[g].o
    BY <1>1, <2>1, <2>2
  <2> QED
    BY <1>1, <2>3 DEF PartiesAreUp
<1>5. ASSUME NEW r, r = fibers[f]
      PROVE  PInv'
  <2>1. r \in FiberRecord /\ r.pc = "acquire" /\ Acquire(f, r)
    BY <1>1, <1>2, <1>5
  <2>2. fibers[f] = r \/ (fibers[f] = Idle /\ r.held = {})
    BY <1>5
  <2> QED
    BY <1>3, <1>4, <2>1, <2>2, AcquireCounts
<1> QED
  BY <1>5

\* Where runs, semaphores and entries are left alone, nothing is counted.
LEMMA NothingCounted ==
    ASSUME PInv, EnginesKept, UNCHANGED <<fibers, sem>>,
           \A d \in Drains : drains'[d].pc # "idle" =>
              \/ drains[d].pc # "idle" /\ drains'[d].o = drains[d].o
              \/ eng[drains'[d].o].up
    PROVE  PInv'
<1>1. PartiesAreUp /\ \A f \in Fibers : GoesOnHolding(fibers[f], fibers'[f])
  BY DEF PartiesAreUp, GoesOnHolding
<1> QED
  BY <1>1, NobodyTakes

\* A poll and executeNow begin in a process that is up.
LEMMA PollCounts ==
    ASSUME IInv, PInv, NEW o \in Owners,
           Tick(o) \/ \E t \in Triggers : ExecuteNow(o, t)
    PROVE  PInv'
<1>e. /\ eng \in [Owners -> Engine]
      /\ drains \in [Drains -> DrainRecord \cup {Idle}]
  BY DEF IInv, TypeOK
<1>1. UNCHANGED <<fibers, sem>> /\ eng[o].up
  BY DEF Tick, ExecuteNow
<1>2. EnginesKept
  <2>1. eng' = eng \/ eng' = [eng EXCEPT ![o].armed = FALSE]
    BY DEF Tick, ExecuteNow
  <2> QED
    BY <1>e, <2>1 DEF EnginesKept, Engine
<1>3. \/ drains' = drains
      \/ \E d \in Drains : \E due, b :
            drains' = [drains EXCEPT ![d] = Claiming(o, now, due, b)]
  <2>1. CASE Tick(o)
    BY <2>1 DEF Tick
  <2>2. ASSUME NEW t \in Triggers, ExecuteNow(o, t)
        PROVE  \E d \in Drains : \E due :
                  drains' = [drains EXCEPT ![d] = Claiming(o, now, due, FALSE)]
    <3>1. PICK m : \E d \in Drains :
             drains' = [drains EXCEPT ![d] = Claiming(o, now,
                {[t |-> t, snap |-> NewTrigger(m, NewId(t))]}, FALSE)]
      BY <2>2 DEF ExecuteNow
    <3> QED
      BY <3>1
  <2> QED
    BY <2>1, <2>2
<1>4. \A due, b : Claiming(o, now, due, b).o = o
  BY DEF Claiming
<1>5. ASSUME NEW x \in Drains, drains'[x].pc # "idle"
      PROVE  \/ drains[x].pc # "idle" /\ drains'[x].o = drains[x].o
             \/ eng[drains'[x].o].up
  <2>1. CASE drains' = drains
    BY <1>5, <2>1
  <2>2. CASE drains' # drains
    <3>1. PICK d \in Drains : \E c : drains' = [drains EXCEPT ![d] = c] /\ c.o = o
      BY <1>3, <1>4, <2>2
    <3>2. PICK c : drains' = [drains EXCEPT ![d] = c] /\ c.o = o
      BY <3>1
    <3>3. drains'[x] = IF x = d THEN c ELSE drains[x]
      BY <1>e, <3>2
    <3> QED
      BY <1>1, <1>5, <3>2, <3>3
  <2> QED
    BY <2>1, <2>2
<1> QED
  BY <1>1, <1>2, <1>5, NothingCounted

\* The rest of the API, the monitor's other steps and the clock.
LEMMA CallCounts ==
    ASSUME IInv, PInv,
           \/ \E o \in Owners :
                \/ PauseAll(o) \/ ResumeAll(o) \/ Shutdown(o)
                \/ \E t \in Triggers : Schedule(o, t)
                \/ \E j \in Jobs : UnregisterJob(o, j)
                \/ MonScan(o) \/ MonGet(o) \/ MonRecordEnd(o) \/ MonRelease(o)
           \/ \E id \in Executing : Touch(id)
           \/ \E s \in strays : StrayEnds(s)
           \/ \E j \in Jobs, b \in BOOLEAN : PauseJob(j, b)
           \/ \E op \in {"pause", "resume", "cancel"}, t \in Triggers : EditGet(op, t)
           \/ EditPut \/ Advance
           \/ UNCHANGED vars
    PROVE  PInv'
<1>e. eng \in [Owners -> Engine]
  BY DEF IInv, TypeOK
<1>1. UNCHANGED <<fibers, sem, drains>>
  BY DEF PauseAll, ResumeAll, Shutdown, Schedule, UnregisterJob, MonScan, MonGet,
         MonRecordEnd, MonRelease, Touch, StrayEnds, PauseJob, EditGet, EditPut,
         Advance, vars
<1>q. ASSUME EnginesKept PROVE PInv'
  BY <1>1, <1>q, NothingCounted
<1>2. ASSUME NEW o \in Owners, PauseAll(o) PROVE PInv'
  <2>1. EnginesKept
    BY <1>e, <1>2 DEF PauseAll, EnginesKept, Engine
  <2> QED
    BY <1>q, <2>1
<1>3. ASSUME NEW o \in Owners, ResumeAll(o) PROVE PInv'
  <2> DEFINE x == [eng[o] EXCEPT !.paused = FALSE]
  <2>1. x \in Engine /\ x.cap = eng[o].cap /\ x.up = eng[o].up
    BY <1>e DEF Engine
  <2>2. eng' = [eng EXCEPT ![o] = Arm(x)]
    BY <1>3 DEF ResumeAll
  <2> HIDE DEF x
  <2>3. Arm(x).cap = x.cap /\ Arm(x).up = x.up
    BY <2>1 DEF Arm, Engine
  <2>4. EnginesKept
    BY <1>e, <2>1, <2>2, <2>3 DEF EnginesKept
  <2> QED
    BY <1>q, <2>4
<1>4. ASSUME NEW o \in Owners, Shutdown(o) PROVE PInv'
  <2>1. EnginesKept
    BY <1>e, <1>4 DEF Shutdown, EnginesKept, Engine
  <2> QED
    BY <1>q, <2>1
<1>5. ASSUME NEW o \in Owners, NEW t \in Triggers, Schedule(o, t) PROVE PInv'
  <2>1. eng' = [eng EXCEPT ![o] = Arm(@)]
    BY <1>5 DEF Schedule
  <2> QED
    BY <1>q, <2>1, ArmKeeps
<1>6. ASSUME NEW o \in Owners, NEW j \in Jobs, UnregisterJob(o, j) PROVE PInv'
  <2>1. EnginesKept
    BY <1>e, <1>6 DEF UnregisterJob, EnginesKept, Engine
  <2> QED
    BY <1>q, <2>1
<1>7. CASE \/ \E o \in Owners :
                MonScan(o) \/ MonGet(o) \/ MonRecordEnd(o) \/ MonRelease(o)
           \/ \E id \in Executing : Touch(id)
           \/ \E s \in strays : StrayEnds(s)
           \/ \E j \in Jobs, b \in BOOLEAN : PauseJob(j, b)
           \/ \E op \in {"pause", "resume", "cancel"}, t \in Triggers : EditGet(op, t)
           \/ EditPut \/ Advance
           \/ UNCHANGED vars
  <2>1. eng' = eng
    BY <1>7 DEF MonScan, MonGet, MonRecordEnd, MonRelease, Touch, StrayEnds,
                PauseJob, EditGet, EditPut, Advance, vars
  <2>2. EnginesKept
    BY <2>1 DEF EnginesKept
  <2> QED
    BY <1>q, <2>2
<1> QED
  BY <1>2, <1>3, <1>4, <1>5, <1>6, <1>7

\* A crash takes a process's permits with those who held them.
LEMMA CrashCounts ==
    ASSUME IInv, PInv, NEW o \in Owners, Crash(o)
    PROVE  PInv'
<1>t. /\ fibers \in [Fibers -> FiberRecord \cup {Idle}]
      /\ sem \in [Owners -> [Keys -> Sem]]
      /\ eng \in [Owners -> Engine]
  BY DEF IInv, TypeOK, Sem
<1>i. Idle.pc = "idle"
  BY DEF Idle
<1>1. /\ eng'[o].cap = NoCap
      /\ \A p \in Owners : p # o => eng'[p] = eng[p]
  BY <1>t DEF Crash, Engine
<1>2. /\ \A k \in Keys : sem'[o][k].cur = 0
      /\ \A p \in Owners : p # o => sem'[p] = sem[p]
  <2>1. sem' = [sem EXCEPT ![o] = [k \in Keys |-> [cur |-> 0, queue |-> <<>>]]]
    BY DEF Crash
  <2> QED
    BY <1>t, <2>1
<1>3. \A f \in Fibers :
         fibers'[f] = IF fibers[f] # Idle /\ fibers[f].o = o THEN Idle ELSE fibers[f]
  BY DEF Crash, ActiveFibers
<1>4. ASSUME NEW p \in Owners, NEW k \in Keys PROVE CountedAt(p, k)'
  <2>1. CASE p = o
    <3>1. Holders(p, k)' = {}
      BY <1>3, <1>i, <2>1 DEF Holders, Has
    <3> QED
      BY <1>2, <2>1, <3>1, FS_EmptySet DEF CountedAt
  <2>2. CASE p # o
    <3>1. \A f \in Fibers : Has(fibers'[f], eng', p, k) <=> Has(fibers[f], eng, p, k)
      BY <1>1, <1>3, <1>i, <2>2 DEF Has
    <3> QED
      BY <1>2, <2>2, <3>1, SameHolders DEF PInv
  <2> QED
    BY <2>1, <2>2
<1>5. CapacityIsFiled'
  <2> SUFFICES ASSUME NEW p \in Owners, NEW i \in RunIds, NEW k \in eng'[p].cap[i]
               PROVE  \E g \in Fibers : /\ Executes(g)' /\ fibers'[g].o = p
                                        /\ RunId(g)' = i /\ k \in fibers'[g].held
    BY DEF CapacityIsFiled
  <2>1. p # o
    BY <1>1 DEF NoCap
  <2>2. PICK g \in Fibers : /\ Executes(g) /\ fibers[g].o = p
                            /\ RunId(g) = i /\ k \in fibers[g].held
    BY <1>1, <2>1 DEF PInv, CapacityIsFiled
  <2>3. fibers'[g] = fibers[g]
    BY <1>3, <2>1, <2>2
  <2> QED
    BY <2>2, <2>3 DEF Executes, RunId
<1>6. WaitersWant'
  <2> SUFFICES ASSUME NEW g \in Fibers, fibers'[g].pc \in {"waiting", "woken"}
               PROVE  NextPermit(fibers'[g]) \notin fibers'[g].held
    BY DEF WaitersWant, NextPermit
  <2>1. fibers'[g] = fibers[g]
    BY <1>3, <1>i
  <2> QED
    BY <2>1 DEF PInv, WaitersWant
<1>7. DownIsEmpty'
  <2>1. \A d \in Drains : drains'[d] =
            IF drains[d] # Idle /\ drains[d].o = o THEN Idle ELSE drains[d]
    BY DEF Crash
  <2> QED
    BY <1>1, <1>3, <1>i, <2>1 DEF PInv, DownIsEmpty
<1> QED
  BY <1>4, <1>5, <1>6, <1>7 DEF PInv, Counted

\* A new process finds nobody who holds a permit.
LEMMA RestartCounts ==
    ASSUME IInv, PInv, NEW o \in Owners, Restart(o)
    PROVE  PInv'
<1>1. ~eng[o].up /\ UNCHANGED <<fibers, sem, drains>>
  BY DEF Restart
<1>2. eng'[o] = Started /\ \A p \in Owners : p # o => eng'[p] = eng[p]
  BY DEF Restart, IInv, TypeOK
<1>3. \A f \in Fibers : fibers[f].pc # "idle" => fibers[f].o # o
  BY <1>1 DEF PInv, DownIsEmpty
<1>4. ASSUME NEW p \in Owners, NEW k \in Keys PROVE CountedAt(p, k)'
  <2>1. \A f \in Fibers : Has(fibers'[f], eng', p, k) <=> Has(fibers[f], eng, p, k)
    BY <1>1, <1>2, <1>3 DEF Has
  <2> QED
    BY <1>1, <2>1, SameHolders DEF PInv
<1>5. CapacityIsFiled'
  BY <1>1, <1>2 DEF PInv, CapacityIsFiled, Started, NoCap, Executes, RunId
<1>6. WaitersWant' /\ DownIsEmpty'
  BY <1>1, <1>2 DEF PInv, WaitersWant, DownIsEmpty, Started, NextPermit
<1> QED
  BY <1>4, <1>5, <1>6 DEF PInv, Counted

\* Nobody has a permit at first.
LEMMA InitPInv == Init => PInv
<1> SUFFICES ASSUME Init PROVE PInv
  OBVIOUS
<1>1. ASSUME NEW o \in Owners, NEW k \in Keys PROVE CountedAt(o, k)
  <2>1. Holders(o, k) = {} /\ sem[o][k].cur = 0
    BY DEF Init, Holders, Has, Idle
  <2> QED
    BY <2>1, FS_EmptySet DEF CountedAt
<1>2. CapacityIsFiled /\ WaitersWant /\ DownIsEmpty
  BY DEF Init, CapacityIsFiled, WaitersWant, DownIsEmpty, Started, NoCap, Idle
<1> QED
  BY <1>1, <1>2 DEF PInv, Counted

\* No step loses a permit or gives one back twice.
LEMMA StepPInv ==
    IInv /\ IInv' /\ PInv /\ IdsDiffer /\ IdsDiffer' /\ [Next]_vars => PInv'
<1> SUFFICES ASSUME IInv, IInv', PInv, IdsDiffer, IdsDiffer', [Next]_vars
             PROVE  PInv'
  OBVIOUS
<1>1. ASSUME NEW d \in Drains, DrainStep(d) PROVE PInv'
  BY <1>1, DrainStepCounts
<1>2. ASSUME NEW f \in Fibers, FiberStep(f) PROVE PInv'
  BY <1>2, AcquireMoreCounts, ResumeCounts, StartRunCounts, GivenBackCounts,
     RunEndCounts DEF FiberStep
<1>3. ASSUME NEW f \in Fibers, TimesOut(f) \/ \E ok \in BOOLEAN : Finish(f, ok)
      PROVE  PInv'
  <2>1. \E ok \in BOOLEAN : Settled(f, ok)
    BY <1>3 DEF TimesOut, Finish
  <2> QED
    BY <2>1, RunEndCounts
<1>4. ASSUME NEW o \in Owners, Crash(o) \/ Restart(o) PROVE PInv'
  BY <1>4, CrashCounts, RestartCounts
<1>5. ASSUME NEW o \in Owners, MonForget(o) \/ MonSettle(o) \/ MonGivesUp(o)
      PROVE  PInv'
  BY <1>5, GivenBackCounts
<1>6. ASSUME NEW o \in Owners, Tick(o) \/ \E t \in Triggers : ExecuteNow(o, t)
      PROVE  PInv'
  BY <1>6, PollCounts
<1>7. CASE \/ \E o \in Owners :
                \/ PauseAll(o) \/ ResumeAll(o) \/ Shutdown(o)
                \/ \E t \in Triggers : Schedule(o, t)
                \/ \E j \in Jobs : UnregisterJob(o, j)
                \/ MonScan(o) \/ MonGet(o) \/ MonRecordEnd(o) \/ MonRelease(o)
           \/ \E id \in Executing : Touch(id)
           \/ \E s \in strays : StrayEnds(s)
           \/ \E j \in Jobs, b \in BOOLEAN : PauseJob(j, b)
           \/ \E op \in {"pause", "resume", "cancel"}, t \in Triggers : EditGet(op, t)
           \/ EditPut \/ Advance
           \/ UNCHANGED vars
  BY <1>7, CallCounts
<1> QED
  BY <1>1, <1>2, <1>3, <1>4, <1>5, <1>6, <1>7 DEF Next, MonStep, Call

\* As long as no engine executes two runs by the same id, each of its semaphores
\* counts the runs that hold one of its permits, through wake-ups, stalled runs
\* that are given up and end late, plans that give up, crashes, restarts and
\* every client call.
THEOREM PermitsAreConserved == Spec => PermitsConserved
<1>1. Init => IInv /\ PInv
  BY InitIInv, InitPInv
<1>2. /\ IInv /\ PInv /\ RunsDiffer /\ RunsDiffer' /\ [Next]_vars => IInv' /\ PInv'
  <2>1. RunsDiffer => IdsDiffer
    BY RunsDifferIs
  <2>2. (RunsDiffer => IdsDiffer)'
    BY RunsDifferIs, PTL
  <2>3. RunsDiffer' => IdsDiffer'
    BY <2>2
  <2> QED
    BY <2>1, <2>3, StepIInv, StepPInv
<1>3. IInv /\ PInv => PermitsCounted
  BY CountedIsConserved DEF PInv
<1>4. Spec /\ []RunsDiffer => []PermitsCounted
  BY <1>1, <1>2, <1>3, PTL DEF Spec
<1> QED
  BY <1>4 DEF PermitsConserved
=============================================================================
