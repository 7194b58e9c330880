--------------------------- MODULE CeremonyProofs ---------------------------
(***************************************************************************)
(* Winners and votes stay referentially intact for any number of voters,   *)
(* nominees, administrators and score readers.                             *)
(***************************************************************************)
EXTENDS Ceremony, FiniteSetTheorems, TLAPS

\* Rows refer to nominees that exist, one winner per nominee, one vote per user
\* and category, and a vote is in its nominee's category.
Rows == /\ WinnersStand
        /\ \A v \in votes : v.nominee \in nominees /\ v.category = CategoryOf[v.nominee]
        /\ \A v, w \in votes : v.user = w.user /\ v.category = w.category => v = w

IInv == /\ \A w \in winners : w.id \in spent
        /\ \A w, x \in winners : w.id = x.id => w = x
        /\ Rows

\* A vote matches one winner at most.
MatchOnce == \A v \in votes : \A w, x \in winners : Matches(v, w) /\ Matches(v, x) => w = x

LEMMA InitIInv == Init => IInv
BY DEF Init, IInv, Rows, WinnersStand

LEMMA CastKeeps ==
    ASSUME IInv, NEW u \in Voters, NEW n \in Nominees, Cast(u, n)
    PROVE IInv'
<1> USE DEF Cast
<1>1. Rows'
  <2>1. WinnersStand'
    BY DEF IInv, Rows, WinnersStand
  <2>2. \A v \in votes' : v.nominee \in nominees' /\ v.category = CategoryOf[v.nominee]
    BY DEF IInv, Rows
  <2>3. \A v, w \in votes' : v.user = w.user /\ v.category = w.category => v = w
    BY DEF IInv, Rows
  <2> QED
    BY <2>1, <2>2, <2>3 DEF Rows
<1> QED
  BY <1>1 DEF IInv

LEMMA DeleteKeeps ==
    ASSUME IInv, NEW S \in SUBSET nominees, DeleteNominees(S)
    PROVE IInv'
BY DEF DeleteNominees, IInv, Rows, WinnersStand

\* The one statement that adds a winner looks at the winners that exist then.
LEMMA InsertKeeps ==
    ASSUME IInv, NEW a \in Admins, InsertWinner(a)
    PROVE IInv'
<1> DEFINE n == add[a].nominee
<1>1. CASE UNCHANGED <<winners, spent>>
  BY <1>1 DEF InsertWinner, IInv, Rows, WinnersStand
<1>2. ASSUME NEW id \in WinnerIds \ spent, MayRefer(n), ~Selected(n),
             winners' = winners \cup {WinnerRow(id, n)}, spent' = spent \cup {id},
             UNCHANGED <<nominees, votes>>
      PROVE IInv'
  <2>1. \A w \in winners' : w \in winners \/ (w.id = id /\ w.nominee = n /\ w = WinnerRow(id, n))
    BY <1>2 DEF WinnerRow
  <2>2. n \in nominees /\ \A w \in winners : w.nominee # n /\ w.id # id
    BY <1>2 DEF MayRefer, Selected, IInv
  <2>3. WinnersStand'
    BY <1>2, <2>1, <2>2 DEF IInv, Rows, WinnersStand
  <2> QED
    BY <1>2, <2>1, <2>2, <2>3 DEF IInv, Rows
<1> QED
  BY <1>1, <1>2 DEF InsertWinner

LEMMA IInvStep == IInv /\ [Next]_vars => IInv'
<1> SUFFICES ASSUME IInv, [Next]_vars PROVE IInv'
  OBVIOUS
<1>1. ASSUME NEW u \in Voters, NEW n \in Nominees, Cast(u, n) PROVE IInv'
  BY <1>1, CastKeeps
<1>2. ASSUME NEW S \in SUBSET nominees, DeleteNominees(S) PROVE IInv'
  BY <1>2, DeleteKeeps
<1>3. ASSUME NEW a \in Admins, InsertWinner(a) PROVE IInv'
  BY <1>3, InsertKeeps
<1>4. ASSUME NEW id \in WinnerIds, DeleteWinner(id) PROVE IInv'
  BY <1>4 DEF DeleteWinner, IInv, Rows, WinnersStand
<1>5. ASSUME UNCHANGED <<nominees, votes, winners, spent>> PROVE IInv'
  BY <1>5 DEF IInv, Rows, WinnersStand
<1>6. CASE Freeze
  BY <1>5, <1>6 DEF Freeze
<1>7. ASSUME NEW a \in Admins,
             \/ \E n \in Nominees \cup {None} : AskWinner(a, n)
             \/ GetNominee(a) \/ AdminFails(a)
      PROVE IInv'
  BY <1>5, <1>7 DEF AskWinner, GetNominee, AdminFails
<1>8. ASSUME NEW r \in Readers,
             (\E u \in Voters : ReadMax(r, u)) \/ ReadPoints(r) \/ ReceiveScore(r)
      PROVE IInv'
  BY <1>5, <1>8 DEF ReadMax, ReadPoints, ReceiveScore
<1>9. CASE UNCHANGED vars
  BY <1>5, <1>9 DEF vars
<1> QED
  BY <1>1, <1>2, <1>3, <1>4, <1>6, <1>7, <1>8, <1>9 DEF Next

LEMMA Invariance == Spec => []IInv
BY InitIInv, IInvStep, PTL DEF Spec

\* However administrators race, and whatever is deleted under them, the winners
\* are distinct nominees that exist.
THEOREM WinnersAlwaysStand == Spec => []WinnersStand
<1>1. IInv => WinnersStand
  BY DEF IInv, Rows
<1> QED
  BY <1>1, Invariance, PTL

-----------------------------------------------------------------------------
(* Sums of weights.  A sum over a finite set of rows that are worth 0 to 3 is the   *)
(* number of rows worth at least 1, plus those worth at least 2, plus those worth 3:  *)
(* what the fold of the score queries computes does not depend on its order, and      *)
(* sums compare as sets do.                                                           *)

LEMMA LeastNumber ==
    ASSUME NEW T \in SUBSET Nat, T # {}
    PROVE  \E n \in T : \A m \in T : n <= m
<1>1. PICK n \in T : \A m \in T : <<m, n>> \notin OpToRel(<, Nat)
  BY WFMin, NatLessThanWellFounded
<1>2. \A m \in T : ~ (m < n)
  BY <1>1 DEF OpToRel
<1> QED
  BY <1>2

Worth == 0..3

AtLeast(k, S, w) == {x \in S : w[x] >= k}

Count(S, w) ==
    Cardinality(AtLeast(1, S, w)) + Cardinality(AtLeast(2, S, w)) + Cardinality(AtLeast(3, S, w))

LEMMA AtLeastFinite ==
    ASSUME NEW S, IsFiniteSet(S), NEW w, NEW k
    PROVE  IsFiniteSet(AtLeast(k, S, w)) /\ Cardinality(AtLeast(k, S, w)) \in Nat
BY FS_Subset, FS_CardinalityType DEF AtLeast

LEMMA CountType ==
    ASSUME NEW S, IsFiniteSet(S), NEW w
    PROVE  Count(S, w) \in Nat
BY AtLeastFinite DEF Count

LEMMA CountEmpty == \A w : Count({}, w) = 0
<1> SUFFICES ASSUME NEW w PROVE Count({}, w) = 0
  OBVIOUS
<1>1. \A k : AtLeast(k, {}, w) = {}
  BY DEF AtLeast
<1> QED
  BY <1>1, FS_EmptySet DEF Count

\* Taking a row away takes its worth away.
LEMMA CountRemove ==
    ASSUME NEW S, IsFiniteSet(S), NEW w, NEW x \in S, w[x] \in Worth
    PROVE  Count(S, w) = w[x] + Count(S \ {x}, w)
<1>1. ASSUME NEW k
      PROVE  Cardinality(AtLeast(k, S, w))
                = Cardinality(AtLeast(k, S \ {x}, w))
                    + (IF x \in AtLeast(k, S, w) THEN 1 ELSE 0)
  <2>1. AtLeast(k, S \ {x}, w) = AtLeast(k, S, w) \ {x}
    BY DEF AtLeast
  <2>2. Cardinality(AtLeast(k, S, w) \ {x})
           = IF x \in AtLeast(k, S, w) THEN Cardinality(AtLeast(k, S, w)) - 1
                                       ELSE Cardinality(AtLeast(k, S, w))
    BY AtLeastFinite, FS_RemoveElement
  <2>3. Cardinality(AtLeast(k, S, w)) \in Nat
    BY AtLeastFinite
  <2> QED
    BY <2>1, <2>2, <2>3
<1>2. IsFiniteSet(S \ {x})
  BY FS_RemoveElement
<1>3. w[x] = 0 \/ w[x] = 1 \/ w[x] = 2 \/ w[x] = 3
  BY DEF Worth
<1>4. \A k : Cardinality(AtLeast(k, S \ {x}, w)) \in Nat
  BY <1>2, AtLeastFinite
<1>5. /\ x \in AtLeast(1, S, w) <=> w[x] # 0
      /\ x \in AtLeast(2, S, w) <=> w[x] \in {2, 3}
      /\ x \in AtLeast(3, S, w) <=> w[x] = 3
  BY <1>3 DEF AtLeast
<1>6. /\ Cardinality(AtLeast(1, S, w))
            = Cardinality(AtLeast(1, S \ {x}, w)) + (IF w[x] # 0 THEN 1 ELSE 0)
      /\ Cardinality(AtLeast(2, S, w))
            = Cardinality(AtLeast(2, S \ {x}, w)) + (IF w[x] \in {2, 3} THEN 1 ELSE 0)
      /\ Cardinality(AtLeast(3, S, w))
            = Cardinality(AtLeast(3, S \ {x}, w)) + (IF w[x] = 3 THEN 1 ELSE 0)
  BY <1>1, <1>5
<1> QED
  BY <1>3, <1>4, <1>6 DEF Count

\* The recursion by which a sum over a set is defined, and its only solution.
Sums(h, S, w) ==
    \A s \in SUBSET S :
       h[s] = IF s = {} THEN 0
              ELSE w[CHOOSE x \in s : TRUE] + h[s \ {CHOOSE x \in s : TRUE}]

LEMMA SumIsCount ==
    ASSUME NEW S, IsFiniteSet(S), NEW w \in [S -> Worth], NEW h, Sums(h, S, w)
    PROVE  h[S] = Count(S, w)
<1> DEFINE T == {n \in Nat : \E s \in SUBSET S : Cardinality(s) = n /\ h[s] # Count(s, w)}
<1>1. CASE T = {}
  <2>1. Cardinality(S) \in Nat /\ S \in SUBSET S
    BY FS_CardinalityType
  <2> QED
    BY <1>1, <2>1
<1>2. CASE T # {}
  <2>1. PICK n \in T : \A m \in T : n <= m
    BY <1>2, LeastNumber
  <2>2. PICK s \in SUBSET S : Cardinality(s) = n /\ h[s] # Count(s, w)
    BY <2>1
  <2>3. s # {}
    BY <2>2, CountEmpty DEF Sums
  <2>9. PICK x \in s : x = CHOOSE y \in s : TRUE
    BY <2>3
  <2> DEFINE t == s \ {x}
  <2>4. h[s] = w[x] + h[t] /\ w[x] \in Worth
    BY <2>3, <2>9 DEF Sums
  <2>5. IsFiniteSet(s) /\ IsFiniteSet(t) /\ Cardinality(t) = n - 1 /\ Cardinality(t) \in Nat
    BY <2>2, <2>4, FS_Subset, FS_RemoveElement, FS_CardinalityType
  <2>6. n - 1 \notin T
    BY <2>1
  <2>7. h[t] = Count(t, w)
    BY <2>5, <2>6
  <2>8. Count(s, w) = w[x] + Count(t, w)
    BY <2>4, <2>5, CountRemove
  <2> QED
    BY <2>2, <2>4, <2>7, <2>8
<1> QED
  BY <1>1, <1>2

LEMMA CountSums ==
    ASSUME NEW S, IsFiniteSet(S), NEW w \in [S -> Worth]
    PROVE  Sums([s \in SUBSET S |-> Count(s, w)], S, w)
<1> DEFINE g == [s \in SUBSET S |-> Count(s, w)]
<1> SUFFICES ASSUME NEW s \in SUBSET S
             PROVE  g[s] = IF s = {} THEN 0
                           ELSE w[CHOOSE x \in s : TRUE] + g[s \ {CHOOSE x \in s : TRUE}]
  BY DEF Sums
<1>1. CASE s = {}
  BY <1>1, CountEmpty
<1>2. CASE s # {}
  <2> DEFINE x == CHOOSE x \in s : TRUE
  <2>1. x \in s /\ w[x] \in Worth /\ IsFiniteSet(s)
    BY <1>2, FS_Subset
  <2>2. Count(s, w) = w[x] + Count(s \ {x}, w)
    BY <2>1, CountRemove
  <2> QED
    BY <1>2, <2>2
<1> QED
  BY <1>1, <1>2

\* Rows mapped one to one to rows of the same worth are worth no more, and just as
\* much when none is left out.
LEMMA CountInjection ==
    ASSUME NEW S, NEW T, IsFiniteSet(T), NEW v \in [S -> Worth], NEW w \in [T -> Worth],
           NEW f \in Injection(S, T), \A x \in S : v[x] = w[f[x]]
    PROVE  /\ IsFiniteSet(S)
           /\ Count(S, v) <= Count(T, w)
           /\ f \in Surjection(S, T) => Count(S, v) = Count(T, w)
<1>1. ASSUME NEW k
      PROVE  /\ Cardinality(AtLeast(k, S, v)) <= Cardinality(AtLeast(k, T, w))
             /\ f \in Surjection(S, T) =>
                   Cardinality(AtLeast(k, S, v)) = Cardinality(AtLeast(k, T, w))
  <2> DEFINE A == AtLeast(k, S, v)
             B == AtLeast(k, T, w)
             g == [x \in A |-> f[x]]
  <2>1. g \in Injection(A, B)
    BY DEF AtLeast, Injection, IsInjective
  <2>2. f \in Surjection(S, T) => g \in Surjection(A, B)
    <3> SUFFICES ASSUME f \in Surjection(S, T), NEW y \in B PROVE \E x \in A : g[x] = y
      BY <2>1 DEF Surjection, Injection
    <3>1. PICK x \in S : f[x] = y
      BY DEF Surjection, AtLeast
    <3> QED
      BY <3>1 DEF AtLeast
  <2>3. IsFiniteSet(B)
    BY AtLeastFinite
  <2> HIDE DEF A, B, g
  <2>4. /\ Cardinality(A) <= Cardinality(B)
        /\ Cardinality(A) = Cardinality(B) <=> g \in Surjection(A, B)
    BY <2>1, <2>3, FS_Injection
  <2> QED
    BY <2>2, <2>4 DEF A, B
<1>2. IsFiniteSet(S)
  BY FS_Injection
<1>3. \A k : /\ Cardinality(AtLeast(k, S, v)) \in Nat
             /\ Cardinality(AtLeast(k, T, w)) \in Nat
  BY <1>2, AtLeastFinite
<1> QED
  BY <1>1, <1>2, <1>3 DEF Count

\* What each row of a set of votes, or of joined rows, is worth.
VoteWorth(S) == [v \in S |-> Weight(v.category)]
RowWorth(S) == [row \in S |-> Weight(row[1].category)]
EarnedWorth(S) == [row \in S |-> Earned(row)]

LEMMA WeightType == \A c : Weight(c) \in Worth
BY DEF Weight, Worth

LEMMA MaxPointsIsCount ==
    ASSUME NEW W, IsFiniteSet(W), NEW u
    PROVE  MaxPoints(W, u) = Count(VotesOf(W, u), VoteWorth(VotesOf(W, u)))
<1> DEFINE S == VotesOf(W, u)
           w == VoteWorth(S)
           h == CHOOSE h : h = [s \in SUBSET S |->
                                  IF s = {} THEN 0
                                  ELSE Weight((CHOOSE x \in s : TRUE).category)
                                         + h[s \ {CHOOSE x \in s : TRUE}]]
<1>1. IsFiniteSet(S)
  BY FS_Subset DEF VotesOf
<1>2. w \in [S -> Worth] /\ \A x \in S : w[x] = Weight(x.category)
  BY WeightType DEF VoteWorth
<1>3. MaxPoints(W, u) = h[S]
  BY DEF MaxPoints, MapThenSumSet, MapThenFoldSet
<1> HIDE DEF S, w
<1>4. \E g : g = [s \in SUBSET S |->
                   IF s = {} THEN 0
                   ELSE Weight((CHOOSE x \in s : TRUE).category)
                          + g[s \ {CHOOSE x \in s : TRUE}]]
  <2> DEFINE g == [s \in SUBSET S |-> Count(s, w)]
  <2>1. Sums(g, S, w)
    BY <1>1, <1>2, CountSums
  <2>2. \A s \in SUBSET S :
           g[s] = IF s = {} THEN 0
                  ELSE Weight((CHOOSE x \in s : TRUE).category)
                         + g[s \ {CHOOSE x \in s : TRUE}]
    BY <1>2, <2>1 DEF Sums
  <2> HIDE DEF g
  <2>3. g = [s \in SUBSET S |-> g[s]]
    BY DEF g
  <2>4. g = [s \in SUBSET S |->
               IF s = {} THEN 0
               ELSE Weight((CHOOSE x \in s : TRUE).category)
                      + g[s \ {CHOOSE x \in s : TRUE}]]
    BY <2>2, <2>3
  <2> WITNESS g
  <2> QED
    BY <2>4
<1>5. h = [s \in SUBSET S |->
             IF s = {} THEN 0
             ELSE Weight((CHOOSE x \in s : TRUE).category) + h[s \ {CHOOSE x \in s : TRUE}]]
  BY <1>4
<1> HIDE DEF h
<1>6. Sums(h, S, w)
  BY <1>2, <1>5 DEF Sums
<1> QED
  BY <1>1, <1>2, <1>3, <1>6, SumIsCount DEF S, w

LEMMA RowPointsIsCount ==
    ASSUME NEW S, IsFiniteSet(S)
    PROVE  RowPoints(S) = Count(S, RowWorth(S))
<1> DEFINE w == RowWorth(S)
           h == CHOOSE h : h = [s \in SUBSET S |->
                                  IF s = {} THEN 0
                                  ELSE Weight((CHOOSE x \in s : TRUE)[1].category)
                                         + h[s \ {CHOOSE x \in s : TRUE}]]
<1>1. w \in [S -> Worth] /\ \A x \in S : w[x] = Weight(x[1].category)
  BY WeightType DEF RowWorth
<1>2. RowPoints(S) = h[S]
  BY DEF RowPoints, MapThenSumSet, MapThenFoldSet
<1> HIDE DEF w
<1>3. \E g : g = [s \in SUBSET S |->
                   IF s = {} THEN 0
                   ELSE Weight((CHOOSE x \in s : TRUE)[1].category)
                          + g[s \ {CHOOSE x \in s : TRUE}]]
  <2> DEFINE g == [s \in SUBSET S |-> Count(s, w)]
  <2>1. Sums(g, S, w)
    BY <1>1, CountSums
  <2>2. \A s \in SUBSET S :
           g[s] = IF s = {} THEN 0
                  ELSE Weight((CHOOSE x \in s : TRUE)[1].category)
                         + g[s \ {CHOOSE x \in s : TRUE}]
    BY <1>1, <2>1 DEF Sums
  <2> HIDE DEF g
  <2>3. g = [s \in SUBSET S |-> g[s]]
    BY DEF g
  <2>4. g = [s \in SUBSET S |->
               IF s = {} THEN 0
               ELSE Weight((CHOOSE x \in s : TRUE)[1].category)
                      + g[s \ {CHOOSE x \in s : TRUE}]]
    BY <2>2, <2>3
  <2> WITNESS g
  <2> QED
    BY <2>4
<1>4. h = [s \in SUBSET S |->
             IF s = {} THEN 0
             ELSE Weight((CHOOSE x \in s : TRUE)[1].category) + h[s \ {CHOOSE x \in s : TRUE}]]
  BY <1>3
<1> HIDE DEF h
<1>5. Sums(h, S, w)
  BY <1>1, <1>4 DEF Sums
<1> QED
  BY <1>1, <1>2, <1>5, SumIsCount DEF w

LEMMA EarnedType == \A row : Earned(row) \in Worth
BY WeightType DEF Earned, Worth

LEMMA EarnedIsCount ==
    ASSUME NEW S, IsFiniteSet(S)
    PROVE  EarnedPoints(S) = Count(S, EarnedWorth(S))
<1> DEFINE w == EarnedWorth(S)
           h == CHOOSE h : h = [s \in SUBSET S |->
                                  IF s = {} THEN 0
                                  ELSE Earned(CHOOSE x \in s : TRUE)
                                         + h[s \ {CHOOSE x \in s : TRUE}]]
<1>1. w \in [S -> Worth] /\ \A x \in S : w[x] = Earned(x)
  BY EarnedType DEF EarnedWorth
<1>2. EarnedPoints(S) = h[S]
  BY DEF EarnedPoints, MapThenSumSet, MapThenFoldSet
<1> HIDE DEF w
<1>3. \E g : g = [s \in SUBSET S |->
                   IF s = {} THEN 0
                   ELSE Earned(CHOOSE x \in s : TRUE)
                          + g[s \ {CHOOSE x \in s : TRUE}]]
  <2> DEFINE g == [s \in SUBSET S |-> Count(s, w)]
  <2>1. Sums(g, S, w)
    BY <1>1, CountSums
  <2>2. \A s \in SUBSET S :
           g[s] = IF s = {} THEN 0
                  ELSE Earned(CHOOSE x \in s : TRUE)
                         + g[s \ {CHOOSE x \in s : TRUE}]
    BY <1>1, <2>1 DEF Sums
  <2> HIDE DEF g
  <2>3. g = [s \in SUBSET S |-> g[s]]
    BY DEF g
  <2>4. g = [s \in SUBSET S |->
               IF s = {} THEN 0
               ELSE Earned(CHOOSE x \in s : TRUE)
                      + g[s \ {CHOOSE x \in s : TRUE}]]
    BY <2>2, <2>3
  <2> WITNESS g
  <2> QED
    BY <2>4
<1>4. h = [s \in SUBSET S |->
             IF s = {} THEN 0
             ELSE Earned(CHOOSE x \in s : TRUE) + h[s \ {CHOOSE x \in s : TRUE}]]
  BY <1>3
<1> HIDE DEF h
<1>5. Sums(h, S, w)
  BY <1>1, <1>4 DEF Sums
<1> QED
  BY <1>1, <1>2, <1>5, SumIsCount DEF w

-----------------------------------------------------------------------------
(* The score queries. *)

\* A correct vote is one row of the join, and a joined row is one vote.
LEMMA CorrectIntoVotes ==
    ASSUME MatchOnce, NEW u
    PROVE  [row \in Correct(votes, winners, u) |-> row[1]]
              \in Injection(Correct(votes, winners, u), VotesOf(votes, u))
BY DEF MatchOnce, Correct, VotesOf, Injection, IsInjective

LEMMA JoinedOntoVotes ==
    ASSUME MatchOnce, NEW u
    PROVE  [row \in Joined(votes, winners, u) |-> row[1]]
              \in Bijection(Joined(votes, winners, u), VotesOf(votes, u))
<1> DEFINE J == Joined(votes, winners, u)
           V == VotesOf(votes, u)
           C == Correct(votes, winners, u)
           f == [row \in J |-> row[1]]
<1> HIDE DEF J, V, C
<1>1. ASSUME NEW row \in J
      PROVE  \/ /\ row \in C /\ row = <<row[1], row[2]>>
                /\ row[1] \in V /\ row[2] \in winners /\ Matches(row[1], row[2])
             \/ row = <<row[1]>> /\ row[1] \in V /\ \A w \in winners : ~Matches(row[1], w)
  <2>1. CASE row \in C
    <3>1. row \in V \X winners /\ Matches(row[1], row[2])
      BY <2>1 DEF Correct, V, C
    <3>2. row = <<row[1], row[2]>> /\ row[1] \in V /\ row[2] \in winners
      BY <3>1
    <3> QED
      BY <2>1, <3>1, <3>2
  <2>2. CASE row \notin C
    <3>1. PICK v \in V : (\A w \in winners : ~Matches(v, w)) /\ row = <<v>>
      BY <2>2 DEF Joined, J, V, C
    <3>2. row[1] = v
      BY <3>1
    <3> QED
      BY <3>1, <3>2
  <2> QED
    BY <2>1, <2>2
<1>2. f \in [J -> V]
  BY <1>1
<1>3. ASSUME NEW a \in J, NEW b \in J, a[1] = b[1] PROVE a = b
  <2>1. a[1] \in votes
    BY <1>1 DEF VotesOf, V
  <2>2. CASE /\ a = <<a[1], a[2]>> /\ a[2] \in winners /\ Matches(a[1], a[2])
             /\ b = <<b[1], b[2]>> /\ b[2] \in winners /\ Matches(b[1], b[2])
    <3>1. a[2] = b[2]
      BY <1>3, <2>1, <2>2 DEF MatchOnce
    <3> QED
      BY <1>3, <2>2, <3>1
  <2>3. CASE a = <<a[1]>> /\ b = <<b[1]>>
    BY <1>3, <2>3
  <2> QED
    BY <1>1, <1>3, <2>2, <2>3
<1>4. ASSUME NEW v \in V PROVE \E row \in J : row[1] = v
  <2>1. CASE \E w \in winners : Matches(v, w)
    <3>1. PICK w \in winners : Matches(v, w)
      BY <2>1
    <3>2. <<v, w>> \in J
      BY <3>1 DEF Joined, Correct, J, V, C
    <3> QED
      BY <3>2
  <2>2. CASE \A w \in winners : ~Matches(v, w)
    <3>1. <<v>> \in J
      BY <2>2 DEF Joined, J, V, C
    <3> QED
      BY <3>1
  <2> QED
    BY <2>1, <2>2
<1>5. f \in Bijection(J, V)
  BY <1>2, <1>3, <1>4 DEF Bijection, Injection, IsInjective, Surjection
<1> QED
  BY <1>5 DEF J, V

LEMMA MaxPointsType ==
    ASSUME NEW W, IsFiniteSet(W), NEW u
    PROVE  MaxPoints(W, u) \in Nat
<1>1. IsFiniteSet(VotesOf(W, u))
  BY FS_Subset DEF VotesOf
<1> QED
  BY <1>1, MaxPointsIsCount, CountType

\* Deleting votes lowers what they are worth.
LEMMA MaxPointsShrink ==
    ASSUME NEW W, IsFiniteSet(W), NEW X \in SUBSET W, NEW u
    PROVE  MaxPoints(X, u) <= MaxPoints(W, u)
<1> DEFINE S == VotesOf(X, u)
           T == VotesOf(W, u)
           f == [x \in S |-> x]
<1>1. S \subseteq T
  BY DEF VotesOf
<1>2. IsFiniteSet(X) /\ IsFiniteSet(T)
  BY FS_Subset DEF VotesOf
<1>3. MaxPoints(X, u) = Count(S, VoteWorth(S)) /\ MaxPoints(W, u) = Count(T, VoteWorth(T))
  BY <1>2, MaxPointsIsCount
<1> HIDE DEF S, T
<1>4. f \in Injection(S, T)
  BY <1>1 DEF Injection, IsInjective
<1>5. /\ VoteWorth(S) \in [S -> Worth] /\ VoteWorth(T) \in [T -> Worth]
      /\ \A x \in S : VoteWorth(S)[x] = VoteWorth(T)[f[x]]
  BY <1>1, WeightType DEF VoteWorth
<1> HIDE DEF f
<1> QED
  BY <1>2, <1>3, <1>4, <1>5, CountInjection

\* No user has more points than his votes are worth, whatever the winners are.
LEMMA PointsWithin ==
    ASSUME MatchOnce, IsFiniteSet(votes), NEW u
    PROVE  /\ Points(votes, winners, u) \in Nat
           /\ Points(votes, winners, u) <= MaxPoints(votes, u)
           /\ IsFiniteSet(Correct(votes, winners, u))
<1> DEFINE C == Correct(votes, winners, u)
           V == VotesOf(votes, u)
           f == [row \in C |-> row[1]]
<1>1. IsFiniteSet(V)
  BY FS_Subset DEF VotesOf
<1>2. f \in Injection(C, V)
  BY CorrectIntoVotes
<1>3. MaxPoints(votes, u) = Count(V, VoteWorth(V))
  BY MaxPointsIsCount
<1>4. Points(votes, winners, u) = RowPoints(C)
  BY DEF Points
<1> HIDE DEF C, V
<1>5. /\ RowWorth(C) \in [C -> Worth] /\ VoteWorth(V) \in [V -> Worth]
      /\ \A row \in C : RowWorth(C)[row] = VoteWorth(V)[f[row]]
  BY <1>2, WeightType DEF RowWorth, VoteWorth, Injection
<1> HIDE DEF f
<1>6. IsFiniteSet(C) /\ Count(C, RowWorth(C)) <= Count(V, VoteWorth(V))
  BY <1>1, <1>2, <1>5, CountInjection
<1>7. RowPoints(C) = Count(C, RowWorth(C)) /\ RowPoints(C) \in Nat
  BY <1>6, RowPointsIsCount, CountType
<1> QED
  BY <1>3, <1>4, <1>6, <1>7 DEF C

\* w.id IS NOT NULL picks the rows of the INNER JOIN out of those of the LEFT JOIN, and
\* the others earn nothing.
LEMMA EarnedAgrees ==
    ASSUME NEW u, IsFiniteSet(Joined(votes, winners, u))
    PROVE  /\ {row \in Joined(votes, winners, u) : Won(row)} = Correct(votes, winners, u)
           /\ EarnedPoints(Joined(votes, winners, u)) = Points(votes, winners, u)
<1> DEFINE J == Joined(votes, winners, u)
           C == Correct(votes, winners, u)
<1>1. ASSUME NEW row \in J PROVE Won(row) <=> row \in C
  <2>1. ASSUME row \in C PROVE Len(row) = 2
    <3>1. PICK v \in VotesOf(votes, u), w \in winners : row = <<v, w>>
      BY <2>1 DEF Correct
    <3> QED
      BY <3>1
  <2>2. ASSUME row \notin C PROVE Len(row) = 1
    <3>1. PICK v \in VotesOf(votes, u) : row = <<v>>
      BY <2>2 DEF Joined
    <3> QED
      BY <3>1
  <2> QED
    BY <2>1, <2>2 DEF Won
<1>2. C \subseteq J /\ IsFiniteSet(J)
  BY DEF Joined
<1>3. Points(votes, winners, u) = RowPoints(C)
  BY DEF Points
<1> HIDE DEF J, C
<1>4. IsFiniteSet(C)
  BY <1>2, FS_Subset
<1>5. ASSUME NEW k \in {1, 2, 3}
      PROVE  AtLeast(k, J, EarnedWorth(J)) = AtLeast(k, C, RowWorth(C))
  <2>1. \A row \in C : EarnedWorth(J)[row] = RowWorth(C)[row]
    BY <1>1, <1>2 DEF EarnedWorth, RowWorth, Earned
  <2>2. \A row \in J \ C : EarnedWorth(J)[row] = 0
    BY <1>1 DEF EarnedWorth, Earned
  <2> QED
    BY <1>2, <2>1, <2>2 DEF AtLeast
<1>6. Count(J, EarnedWorth(J)) = Count(C, RowWorth(C))
  BY <1>5 DEF Count
<1>7. EarnedPoints(J) = RowPoints(C)
  BY <1>2, <1>4, <1>6, EarnedIsCount, RowPointsIsCount
<1> QED
  BY <1>1, <1>2, <1>3, <1>7 DEF J, C

\* The leaderboard's LEFT JOIN keeps one row per vote, so its COUNT and SUM are those of
\* the user's votes.
LEMMA RowAgrees ==
    ASSUME MatchOnce, IsFiniteSet(votes), NEW u
    PROVE  LET row == ScoreRow(votes, winners, u)
           IN  /\ row.user = u
               /\ row.total = Cardinality(VotesOf(votes, u))
               /\ row.max = MaxPoints(votes, u)
               /\ row.points = Points(votes, winners, u)
               /\ row.correct <= row.total
               /\ row.points <= row.max
<1> DEFINE J == Joined(votes, winners, u)
           C == Correct(votes, winners, u)
           V == VotesOf(votes, u)
           f == [row \in J |-> row[1]]
<1>1. IsFiniteSet(V)
  BY FS_Subset DEF VotesOf
<1>2. f \in Bijection(J, V)
  BY JoinedOntoVotes
<1>3. MaxPoints(votes, u) = Count(V, VoteWorth(V))
  BY MaxPointsIsCount
<1>4. C \in SUBSET J
  BY DEF Joined
<1>5. Points(votes, winners, u) <= MaxPoints(votes, u)
  BY PointsWithin
<1> HIDE DEF J, C, V
<1>6. f \in Injection(J, V) /\ f \in Surjection(J, V)
  BY <1>2 DEF Bijection
<1>7. /\ RowWorth(J) \in [J -> Worth] /\ VoteWorth(V) \in [V -> Worth]
      /\ \A row \in J : RowWorth(J)[row] = VoteWorth(V)[f[row]]
  BY <1>6, WeightType DEF RowWorth, VoteWorth, Injection
<1> HIDE DEF f
<1>8. IsFiniteSet(J) /\ Count(J, RowWorth(J)) = Count(V, VoteWorth(V))
  BY <1>1, <1>6, <1>7, CountInjection
<1>9. RowPoints(J) = MaxPoints(votes, u)
  BY <1>3, <1>8, RowPointsIsCount
<1>10. Cardinality(J) = Cardinality(V)
  BY <1>1, <1>6, FS_Injection
<1>11. Cardinality(C) <= Cardinality(J)
  BY <1>4, <1>8, FS_Subset
<1>12. {row \in J : Won(row)} = C /\ EarnedPoints(J) = Points(votes, winners, u)
  BY <1>8, EarnedAgrees DEF J, C
<1> QED
  BY <1>5, <1>9, <1>10, <1>11, <1>12 DEF ScoreRow, J, C, V

-----------------------------------------------------------------------------
(* The scores over time. *)

\* A reading that starts after the tally is final reads its points from no more votes
\* than it has already weighed, and they are final still.
ReadingWithin ==
    \A r \in Readers :
       read[r].final /\ read[r].pc # "idle" =>
          /\ final
          /\ read[r].pc = "points" => MaxPoints(votes, read[r].user) <= read[r].max
          /\ read[r].pc = "answered" => read[r].points <= read[r].max

Inv == IInv /\ TypeOK /\ IsFiniteSet(votes) /\ ReadingWithin

LEMMA MatchesOnce == IInv => MatchOnce
BY DEF IInv, Rows, WinnersStand, MatchOnce, Matches

LEMMA InitInv == Init => Inv
<1> SUFFICES ASSUME Init PROVE Inv
  OBVIOUS
<1>1. IInv
  BY InitIInv
<1>2. TypeOK
  BY DEF Init, TypeOK, Quiet, Unread
<1> QED
  BY <1>1, <1>2, FS_EmptySet DEF Init, Inv, ReadingWithin, Unread

\* Steps that leave the readers alone and add no vote to a final tally.
LEMMA ReadingKept ==
    ASSUME Inv, read' = read, final => final' /\ votes' \subseteq votes
    PROVE  ReadingWithin'
<1> SUFFICES ASSUME NEW r \in Readers, read[r].final, read[r].pc # "idle"
             PROVE  /\ final'
                    /\ read[r].pc = "points" => MaxPoints(votes', read[r].user) <= read[r].max
                    /\ read[r].pc = "answered" => read[r].points <= read[r].max
  BY DEF ReadingWithin
<1>1. /\ final /\ read[r].max \in Nat
      /\ read[r].pc = "points" => MaxPoints(votes, read[r].user) <= read[r].max
      /\ read[r].pc = "answered" => read[r].points <= read[r].max
  BY DEF Inv, ReadingWithin, TypeOK
<1>2. final' /\ IsFiniteSet(votes) /\ votes' \in SUBSET votes
  BY <1>1 DEF Inv
<1>3. MaxPoints(votes', read[r].user) <= MaxPoints(votes, read[r].user)
  BY <1>2, MaxPointsShrink
<1>4. MaxPoints(votes', read[r].user) \in Nat /\ MaxPoints(votes, read[r].user) \in Nat
  BY <1>2, MaxPointsType, FS_Subset
<1> QED
  BY <1>1, <1>2, <1>3, <1>4

LEMMA CastInv ==
    ASSUME Inv, NEW u \in Voters, NEW n \in Nominees, Cast(u, n)
    PROVE  TypeOK' /\ IsFiniteSet(votes') /\ ReadingWithin'
<1> DEFINE kept == {v \in votes : v.user # u \/ v.category # CategoryOf[n]}
           cast == [user |-> u, nominee |-> n, category |-> CategoryOf[n]]
<1>1. votes' = kept \cup {cast} /\ kept \in SUBSET votes
  BY DEF Cast
<1>2. cast \in [user : Voters, nominee : Nominees, category : Categories]
  BY ScoringAssumption
<1> HIDE DEF kept, cast
<1>3. IsFiniteSet(votes')
  BY <1>1, FS_Subset, FS_AddElement DEF Inv
<1>4. TypeOK'
  BY <1>1, <1>2 DEF Inv, TypeOK, Cast
<1>5. ReadingWithin'
  BY ReadingKept DEF Cast
<1> QED
  BY <1>3, <1>4, <1>5

LEMMA DeleteInv ==
    ASSUME Inv, NEW S \in SUBSET nominees, DeleteNominees(S)
    PROVE  TypeOK' /\ IsFiniteSet(votes') /\ ReadingWithin'
<1>1. votes' \in SUBSET votes /\ read' = read /\ final' = final
  BY DEF DeleteNominees
<1>2. TypeOK'
  BY <1>1 DEF DeleteNominees, Inv, TypeOK
<1>3. IsFiniteSet(votes')
  BY <1>1, FS_Subset DEF Inv
<1>4. ReadingWithin'
  BY <1>1, ReadingKept
<1> QED
  BY <1>2, <1>3, <1>4

\* What a step of an administrator may change.
LEMMA AdminInv ==
    ASSUME Inv, TypeOK', UNCHANGED <<votes, final, read>>
    PROVE  TypeOK' /\ IsFiniteSet(votes') /\ ReadingWithin'
BY ReadingKept DEF Inv

Requests == [pc : {"idle", "get", "insert"}, nominee : Nominees \cup {None}]

LEMMA AnswerType ==
    ASSUME Inv, NEW a \in Admins, AnswerAdmin(a)
    PROVE  add' \in [Admins -> Requests]
BY DEF Inv, TypeOK, Requests, AnswerAdmin, Quiet

LEMMA AdminSteps ==
    ASSUME Inv, NEW a \in Admins,
           \/ \E n \in Nominees \cup {None} : AskWinner(a, n)
           \/ GetNominee(a) \/ InsertWinner(a) \/ AdminFails(a)
    PROVE  TypeOK' /\ IsFiniteSet(votes') /\ ReadingWithin'
<1>0. /\ add[a] \in Requests /\ add \in [Admins -> Requests]
      /\ winners \subseteq [id : WinnerIds, nominee : Nominees]
      /\ spent \subseteq WinnerIds /\ nominees \subseteq Nominees
  BY DEF Inv, TypeOK, Requests
<1>1. ASSUME NEW n \in Nominees \cup {None}, AskWinner(a, n)
      PROVE  add' \in [Admins -> Requests]
  <2>1. [pc |-> "get", nominee |-> n] \in Requests
    BY DEF Requests
  <2> QED
    BY <1>0, <1>1, <2>1 DEF AskWinner
<1>2. ASSUME GetNominee(a) PROVE add' \in [Admins -> Requests]
  <2>1. [add[a] EXCEPT !.pc = "insert"] \in Requests
    BY <1>0 DEF Requests
  <2>2. CASE add' = [add EXCEPT ![a] = [add[a] EXCEPT !.pc = "insert"]]
    BY <1>0, <2>1, <2>2
  <2> QED
    BY <1>2, <2>2, AnswerType DEF GetNominee
<1>3. ASSUME InsertWinner(a) \/ AdminFails(a) PROVE add' \in [Admins -> Requests]
  BY <1>3, AnswerType DEF InsertWinner, AdminFails
<1>6. add' \in [Admins -> Requests]
  BY <1>1, <1>2, <1>3
<1>7. winners' \subseteq [id : WinnerIds, nominee : Nominees] /\ spent' \subseteq WinnerIds
  <2>1. CASE UNCHANGED <<winners, spent>>
    BY <1>0, <2>1
  <2>2. ASSUME NEW id \in WinnerIds \ spent, MayRefer(add[a].nominee),
               winners' = winners \cup {WinnerRow(id, add[a].nominee)}, spent' = spent \cup {id}
        PROVE  winners' \subseteq [id : WinnerIds, nominee : Nominees] /\ spent' \subseteq WinnerIds
    <3>1. WinnerRow(id, add[a].nominee) \in [id : WinnerIds, nominee : Nominees]
      BY <1>0, <2>2 DEF MayRefer, WinnerRow
    <3> QED
      BY <1>0, <2>2, <3>1
  <2>3. CASE InsertWinner(a)
    <3>1. \/ UNCHANGED <<winners, spent>>
          \/ /\ MayRefer(add[a].nominee)
             /\ \E id \in WinnerIds \ spent :
                   /\ winners' = winners \cup {WinnerRow(id, add[a].nominee)}
                   /\ spent' = spent \cup {id}
      BY <2>3 DEF InsertWinner
    <3> QED
      BY <3>1, <2>1, <2>2
  <2> QED
    BY <2>1, <2>3 DEF AskWinner, GetNominee, AdminFails
<1>8. UNCHANGED <<nominees, votes, final, read>>
  BY DEF AskWinner, GetNominee, InsertWinner, AdminFails
<1>9. TypeOK'
  BY <1>6, <1>7, <1>8 DEF Inv, TypeOK, Requests
<1> QED
  BY <1>8, <1>9, AdminInv

Readings == [pc : {"idle", "points", "answered"}, user : Voters \cup {None},
             max : Nat, points : Nat, final : BOOLEAN]

LEMMA ReaderSteps ==
    ASSUME Inv, NEW r \in Readers,
           (\E u \in Voters : ReadMax(r, u)) \/ ReadPoints(r) \/ ReceiveScore(r)
    PROVE  TypeOK' /\ IsFiniteSet(votes') /\ ReadingWithin'
<1>0. /\ read \in [Readers -> Readings] /\ final \in BOOLEAN /\ IsFiniteSet(votes)
      /\ MatchOnce
  BY MatchesOnce DEF Inv, TypeOK, Readings
<1>1. UNCHANGED <<nominees, votes, winners, spent, final, add>>
  BY DEF ReadMax, ReadPoints, ReceiveScore
<1>2. ASSUME NEW q \in Readings, read' = [read EXCEPT ![r] = q],
             q.final /\ q.pc # "idle" =>
                /\ final
                /\ q.pc = "points" => MaxPoints(votes, q.user) <= q.max
                /\ q.pc = "answered" => q.points <= q.max
      PROVE  TypeOK' /\ IsFiniteSet(votes') /\ ReadingWithin'
  <2>1. read' \in [Readers -> Readings]
    BY <1>0, <1>2
  <2>2. TypeOK'
    BY <1>1, <2>1 DEF Inv, TypeOK, Readings
  <2>3. \A s \in Readers : read'[s] = IF s = r THEN q ELSE read[s]
    BY <1>0, <1>2
  <2>4. ReadingWithin'
    BY <1>1, <1>2, <2>3 DEF Inv, ReadingWithin
  <2> QED
    BY <1>0, <1>1, <2>2, <2>4
<1>3. ASSUME NEW u \in Voters, ReadMax(r, u)
      PROVE  TypeOK' /\ IsFiniteSet(votes') /\ ReadingWithin'
  <2> DEFINE q == [pc |-> "points", user |-> u, points |-> 0,
                   max |-> MaxPoints(votes, u), final |-> final]
  <2>1. MaxPoints(votes, u) \in Nat
    BY <1>0, MaxPointsType
  <2>2. q \in Readings
    BY <1>0, <2>1 DEF Readings
  <2>3. q.pc = "points" /\ q.user = u /\ q.max = MaxPoints(votes, u) /\ q.final = final
    OBVIOUS
  <2>4. read' = [read EXCEPT ![r] = q]
    BY <1>3 DEF ReadMax
  <2> HIDE DEF q
  <2>5. /\ q.final => final
        /\ q.pc # "answered"
        /\ MaxPoints(votes, q.user) <= q.max
    BY <2>1, <2>3
  <2> QED
    BY <1>2, <2>2, <2>4, <2>5
<1>4. CASE ReadPoints(r)
  <2> DEFINE p == Points(votes, winners, read[r].user)
             q == [read[r] EXCEPT !.pc = "answered", !.user = None, !.points = p]
  <2>1. /\ p \in Nat /\ p <= MaxPoints(votes, read[r].user)
        /\ MaxPoints(votes, read[r].user) \in Nat
    BY <1>0, PointsWithin, MaxPointsType
  <2> HIDE DEF p
  <2>2. /\ read[r] \in Readings /\ read[r].max \in Nat
        /\ read[r].final => final /\ MaxPoints(votes, read[r].user) <= read[r].max
    BY <1>0, <1>4 DEF ReadPoints, Inv, ReadingWithin, Readings
  <2>3. q \in Readings /\ q.pc = "answered" /\ q.points = p /\ q.max = read[r].max
        /\ q.final = read[r].final
    BY <2>1, <2>2 DEF Readings
  <2>4. read' = [read EXCEPT ![r] = q]
    BY <1>4 DEF ReadPoints, p
  <2> HIDE DEF q
  <2>5. q.final => q.points <= q.max
    BY <2>1, <2>2, <2>3
  <2> QED
    BY <1>2, <2>2, <2>3, <2>4, <2>5
<1>5. CASE ReceiveScore(r)
  <2>1. Unread \in Readings /\ Unread.pc = "idle"
    BY DEF Unread, Readings
  <2> QED
    BY <1>2, <1>5, <2>1 DEF ReceiveScore
<1> QED
  BY <1>3, <1>4, <1>5

LEMMA InvStep == Inv /\ [Next]_vars => Inv'
<1> SUFFICES ASSUME Inv, [Next]_vars PROVE TypeOK' /\ IsFiniteSet(votes') /\ ReadingWithin'
  BY IInvStep DEF Inv
<1>1. ASSUME NEW u \in Voters, NEW n \in Nominees, Cast(u, n)
      PROVE TypeOK' /\ IsFiniteSet(votes') /\ ReadingWithin'
  BY <1>1, CastInv
<1>2. CASE Freeze
  BY <1>2, ReadingKept DEF Freeze, Inv, TypeOK
<1>3. ASSUME NEW S \in SUBSET nominees, DeleteNominees(S)
      PROVE TypeOK' /\ IsFiniteSet(votes') /\ ReadingWithin'
  BY <1>3, DeleteInv
<1>4. ASSUME NEW a \in Admins,
             \/ \E n \in Nominees \cup {None} : AskWinner(a, n)
             \/ GetNominee(a) \/ InsertWinner(a) \/ AdminFails(a)
      PROVE TypeOK' /\ IsFiniteSet(votes') /\ ReadingWithin'
  BY <1>4, AdminSteps
<1>5. ASSUME NEW id \in WinnerIds, DeleteWinner(id)
      PROVE TypeOK' /\ IsFiniteSet(votes') /\ ReadingWithin'
  BY <1>5, AdminInv DEF DeleteWinner, Inv, TypeOK
<1>6. ASSUME NEW r \in Readers,
             (\E u \in Voters : ReadMax(r, u)) \/ ReadPoints(r) \/ ReceiveScore(r)
      PROVE TypeOK' /\ IsFiniteSet(votes') /\ ReadingWithin'
  BY <1>6, ReaderSteps
<1>7. CASE UNCHANGED vars
  BY <1>7, ReadingKept DEF vars, Inv, TypeOK
<1> QED
  BY <1>1, <1>2, <1>3, <1>4, <1>5, <1>6, <1>7 DEF Next

LEMMA InvInvariance == Spec => []Inv
BY InitInv, InvStep, PTL DEF Spec

-----------------------------------------------------------------------------
(* The ranks of the leaderboard page. *)

\* A board in descending order, as a sequence of rows with points.
Descends(board, n) ==
    /\ n \in Nat /\ DOMAIN board = 1..n /\ Len(board) = n
    /\ \A i \in 1..n : board[i].points \in Nat
    /\ \A i \in 1..(n - 1) : board[i].points >= board[i + 1].points

\* Neighbours in descending order are enough: no row has more points than one above it.
LEMMA DescendsFar ==
    ASSUME NEW board, NEW n, Descends(board, n), NEW i \in 1..n, NEW j \in 1..n, i <= j
    PROVE  board[i].points >= board[j].points
<1> DEFINE T == {k \in Nat : k \in i..n /\ ~ (board[i].points >= board[k].points)}
<1>1. CASE T = {}
  <2>1. j \in Nat /\ j \in i..n
    BY DEF Descends
  <2> QED
    BY <1>1, <2>1
<1>2. CASE T # {}
  <2>1. PICK k \in T : \A m \in T : k <= m
    BY <1>2, LeastNumber
  <2>2. k \in i..n /\ k \in 1..n /\ n \in Nat /\ ~ (board[i].points >= board[k].points)
    BY <2>1 DEF Descends
  <2>3. k # i
    BY <2>2 DEF Descends
  <2>4. k - 1 \in Nat /\ k - 1 \in i..n /\ k - 1 \in 1..(n - 1) /\ k - 1 \notin T
    BY <2>1, <2>2, <2>3
  <2>5. board[i].points >= board[k - 1].points
    BY <2>4
  <2>6. board[k - 1].points >= board[(k - 1) + 1].points /\ (k - 1) + 1 = k
    BY <2>2, <2>4 DEF Descends
  <2>7. board[i].points \in Nat /\ board[k].points \in Nat /\ board[k - 1].points \in Nat
    BY <2>2, <2>4 DEF Descends
  <2> QED
    BY <2>2, <2>5, <2>6, <2>7
<1> QED
  BY <1>1, <1>2

Better(board, n, i) == {j \in 1..n : board[j].points > board[i].points}

\* The recursion of the page's ranks.
IsRank(rank, board, n) ==
    \A i \in 1..n : rank[i] = IF i > 1 /\ board[i].points = board[i - 1].points
                              THEN rank[i - 1] ELSE i

\* A row with fewer points than the one above it has exactly the rows above it before it.
LEMMA BetterCount ==
    ASSUME NEW board, NEW n, Descends(board, n), NEW i \in 1..n
    PROVE  1 + Cardinality(Better(board, n, i))
              = IF i > 1 /\ board[i].points = board[i - 1].points
                THEN 1 + Cardinality(Better(board, n, i - 1)) ELSE i
<1>0. n \in Nat /\ i \in Nat /\ i >= 1
  BY DEF Descends
<1>1. CASE i > 1 /\ board[i].points = board[i - 1].points
  <2>1. Better(board, n, i) = Better(board, n, i - 1)
    BY <1>1 DEF Better
  <2> QED
    BY <1>1, <2>1
<1>2. CASE ~ (i > 1 /\ board[i].points = board[i - 1].points)
  <2>1. ASSUME NEW j \in 1..n, board[j].points > board[i].points PROVE j \in 1..(i - 1)
    <3>1. board[i].points \in Nat /\ board[j].points \in Nat
      BY DEF Descends
    <3>2. i <= j => board[i].points >= board[j].points
      BY DescendsFar
    <3>3. ~ (i <= j)
      BY <2>1, <3>1, <3>2
    <3> QED
      BY <1>0, <3>3
  <2>2. ASSUME NEW j \in 1..(i - 1) PROVE j \in 1..n /\ board[j].points > board[i].points
    <3>1. i > 1 /\ j \in 1..n /\ i - 1 \in 1..n /\ i - 1 \in 1..(n - 1) /\ j <= i - 1
      BY <1>0
    <3>2. board[j].points >= board[i - 1].points
      BY <3>1, DescendsFar
    <3>3. board[i - 1].points >= board[(i - 1) + 1].points /\ (i - 1) + 1 = i
      BY <1>0, <3>1 DEF Descends
    <3>4. board[i].points \in Nat /\ board[i - 1].points \in Nat /\ board[j].points \in Nat
      BY <3>1 DEF Descends
    <3> QED
      BY <1>2, <3>1, <3>2, <3>3, <3>4
  <2>3. Better(board, n, i) = 1..(i - 1)
    BY <1>0, <2>1, <2>2 DEF Better
  <2>4. Cardinality(1..(i - 1)) = i - 1
    BY <1>0, FS_Interval
  <2> QED
    BY <1>0, <1>2, <2>3, <2>4
<1> QED
  BY <1>1, <1>2

LEMMA RankIsCount ==
    ASSUME NEW board, NEW n, Descends(board, n), NEW rank, IsRank(rank, board, n),
           NEW i \in 1..n
    PROVE  rank[i] = 1 + Cardinality(Better(board, n, i))
<1> DEFINE T == {k \in Nat : k \in 1..n /\ rank[k] # 1 + Cardinality(Better(board, n, k))}
<1>1. CASE T = {}
  <2>1. i \in Nat
    BY DEF Descends
  <2> QED
    BY <1>1, <2>1
<1>2. CASE T # {}
  <2>1. PICK k \in T : \A m \in T : k <= m
    BY <1>2, LeastNumber
  <2>2. k \in 1..n /\ rank[k] # 1 + Cardinality(Better(board, n, k)) /\ n \in Nat
    BY <2>1 DEF Descends
  <2>3. CASE k > 1 /\ board[k].points = board[k - 1].points
    <3>1. k - 1 \in Nat /\ k - 1 \in 1..n /\ k - 1 \notin T
      BY <2>1, <2>2, <2>3
    <3>2. rank[k - 1] = 1 + Cardinality(Better(board, n, k - 1))
      BY <3>1
    <3>3. rank[k] = rank[k - 1]
      BY <2>2, <2>3 DEF IsRank
    <3>4. 1 + Cardinality(Better(board, n, k)) = 1 + Cardinality(Better(board, n, k - 1))
      BY <2>2, <2>3, BetterCount
    <3> QED
      BY <2>2, <3>2, <3>3, <3>4
  <2>4. CASE ~ (k > 1 /\ board[k].points = board[k - 1].points)
    <3>1. rank[k] = k
      BY <2>2, <2>4 DEF IsRank
    <3>2. 1 + Cardinality(Better(board, n, k)) = k
      BY <2>2, <2>4, BetterCount
    <3> QED
      BY <2>2, <3>1, <3>2
  <2> QED
    BY <2>3, <2>4
<1> QED
  BY <1>1, <1>2

LEMMA RanksAreCounts ==
    ASSUME NEW board, NEW n, Descends(board, n), NEW i \in 1..n
    PROVE  Ranks(board)[i] = 1 + Cardinality(Better(board, n, i))
<1> DEFINE h == CHOOSE h : h = [k \in 1..n |->
                                  IF k > 1 /\ board[k].points = board[k - 1].points
                                  THEN h[k - 1] ELSE k]
<1>1. Ranks(board) = h
  BY DEF Ranks, Descends
<1>2. \E g : g = [k \in 1..n |-> IF k > 1 /\ board[k].points = board[k - 1].points
                                THEN g[k - 1] ELSE k]
  <2> DEFINE g == [k \in 1..n |-> 1 + Cardinality(Better(board, n, k))]
  <2>1. ASSUME NEW k \in 1..n
        PROVE  g[k] = IF k > 1 /\ board[k].points = board[k - 1].points THEN g[k - 1] ELSE k
    <3>1. k > 1 => k - 1 \in 1..n
      BY DEF Descends
    <3> QED
      BY <3>1, BetterCount
  <2>2. g = [k \in 1..n |-> g[k]]
    OBVIOUS
  <2> HIDE DEF g
  <2>3. g = [k \in 1..n |-> IF k > 1 /\ board[k].points = board[k - 1].points
                            THEN g[k - 1] ELSE k]
    BY <2>1, <2>2
  <2> WITNESS g
  <2> QED
    BY <2>3
<1>3. h = [k \in 1..n |-> IF k > 1 /\ board[k].points = board[k - 1].points
                        THEN h[k - 1] ELSE k]
  BY <1>2
<1> HIDE DEF h
<1>4. IsRank(h, board, n)
  BY <1>3 DEF IsRank
<1> QED
  BY <1>1, <1>4, RankIsCount

\* GROUP BY user: finitely many votes give finitely many rows.
LEMMA ScoresFinite ==
    ASSUME IsFiniteSet(votes)
    PROVE  IsFiniteSet(AllScores(votes, winners))
<1> DEFINE A == AllScores(votes, winners)
           voted == [row \in A |-> CHOOSE v \in votes : v.user = row.user]
<1>1. ASSUME NEW row \in A
      PROVE  row = ScoreRow(votes, winners, row.user) /\ \E v \in votes : v.user = row.user
  <2>1. PICK u \in Voters : VotesOf(votes, u) # {} /\ row = ScoreRow(votes, winners, u)
    BY DEF AllScores
  <2>2. row.user = u
    BY <2>1, Zenon DEF ScoreRow
  <2> QED
    BY <2>1, <2>2 DEF VotesOf
<1>2. \A row \in A : voted[row] \in votes /\ voted[row].user = row.user
  BY <1>1
<1>3. voted \in [A -> votes]
  BY <1>2
<1> HIDE DEF A, voted
<1>4. \A a, b \in A : voted[a] = voted[b] => a = b
  <2> SUFFICES ASSUME NEW a \in A, NEW b \in A, voted[a] = voted[b] PROVE a = b
    OBVIOUS
  <2>1. a.user = b.user
    BY <1>2
  <2>2. a = ScoreRow(votes, winners, a.user) /\ b = ScoreRow(votes, winners, b.user)
    BY <1>1
  <2> QED
    BY <2>1, <2>2
<1>5. voted \in Injection(A, votes)
  BY <1>3, <1>4 DEF Injection, IsInjective
<1> QED
  BY <1>5, FS_Injection DEF A

\* ORDER BY points DESC comes first.
LEMMA BoardsDescend ==
    ASSUME MatchOnce, IsFiniteSet(votes), NEW board \in Leaderboards(votes, winners)
    PROVE  Descends(board, Len(board))
<1> DEFINE rows == AllScores(votes, winners)
           n == Cardinality(rows)
<1>1. n \in Nat
  BY ScoresFinite, FS_CardinalityType
<1>2. board \in [1..n -> rows] /\ \A i \in 1..(n - 1) : NotAfter(board[i], board[i + 1])
  BY DEF Leaderboards
<1>3. \A row \in rows : row.points \in Nat
  <2> SUFFICES ASSUME NEW u \in Voters PROVE ScoreRow(votes, winners, u).points \in Nat
    BY DEF AllScores
  <2>1. ScoreRow(votes, winners, u).points = Points(votes, winners, u)
    BY RowAgrees
  <2> QED
    BY <2>1, PointsWithin
<1> HIDE DEF rows, n
<1>4. Len(board) = n
  BY <1>1, <1>2
<1>5. \A i \in 1..n : board[i].points \in Nat
  BY <1>2, <1>3
<1>6. ASSUME NEW i \in 1..(n - 1) PROVE board[i].points >= board[i + 1].points
  <2>1. i \in 1..n /\ i + 1 \in 1..n
    BY <1>1
  <2>2. board[i].points > board[i + 1].points \/ board[i].points = board[i + 1].points
    BY <1>2 DEF NotAfter
  <2>3. board[i].points \in Nat /\ board[i + 1].points \in Nat
    BY <1>5, <2>1
  <2> QED
    BY <2>2, <2>3
<1> QED
  BY <1>1, <1>2, <1>4, <1>5, <1>6 DEF Descends

-----------------------------------------------------------------------------
\* Every variable keeps its type; that the scores read are numbers needs the sums of
\* the score queries to exist.
THEOREM TypeCorrect == Spec => []TypeOK
<1>1. Inv => TypeOK
  BY DEF Inv
<1> QED
  BY <1>1, InvInvariance, PTL

\* The joins of the score queries never multiply a vote: it matches one winner at
\* most, which is why the leaderboard's COUNT(v.id) counts votes.
THEOREM AlwaysMatchOnce == Spec => []MatchOnce
BY MatchesOnce, Invariance, PTL

\* The leaderboard's one grouped query gives every user what GetUserScore computes for
\* him in two, and never more points than his votes are worth, in all states, for all
\* numbers of votes and winners.
THEOREM BoardAlwaysAgrees == Spec => []BoardAgrees
<1>1. Inv => BoardAgrees
  <2> SUFFICES ASSUME Inv, NEW u \in Voters
               PROVE  LET row == ScoreRow(votes, winners, u)
                      IN  /\ row.total = Cardinality(VotesOf(votes, row.user))
                          /\ row.max = MaxPoints(votes, row.user)
                          /\ row.points = Points(votes, winners, row.user)
                          /\ row.correct <= row.total
                          /\ row.points <= row.max
    BY DEF BoardAgrees, AllScores
  <2>1. MatchOnce /\ IsFiniteSet(votes)
    BY MatchesOnce DEF Inv
  <2> QED
    BY <2>1, RowAgrees
<1> QED
  BY <1>1, InvInvariance, PTL

\* Administrators who select, delete and select again between the two queries of
\* GetMyScore never push a final score over its maximum.
THEOREM FinalScoreAlwaysWithin == Spec => []FinalScoreWithin
<1>1. Inv => FinalScoreWithin
  BY DEF Inv, ReadingWithin, FinalScoreWithin
<1> QED
  BY <1>1, InvInvariance, PTL

\* The page's loop over a board in whatever order the database may return it ranks
\* every user one below the number of users with more points.
THEOREM RanksAlwaysCountBetter == Spec => []RanksCountBetter
<1>1. Inv => RanksCountBetter
  <2> SUFFICES ASSUME Inv, NEW board \in Leaderboards(votes, winners), NEW i \in 1..Len(board)
               PROVE  Ranks(board)[i] = 1 + Cardinality(Better(board, Len(board), i))
    BY DEF RanksCountBetter, Better
  <2>1. Descends(board, Len(board))
    BY MatchesOnce, BoardsDescend DEF Inv
  <2> QED
    BY <2>1, RanksAreCounts
<1> QED
  BY <1>1, InvInvariance, PTL
=============================================================================
