---------------------------- MODULE ScoringProofs ----------------------------
(***************************************************************************)
(* Proofs about Scoring, for every set of integer severities.              *)
(***************************************************************************)
EXTENDS Scoring, TLAPS

-----------------------------------------------------------------------------
(* Type correctness.                                                       *)

\* Each check's result stays a severity, an error, or none.
THEOREM TypeCorrect == Spec => []TypeOK
<1>1. Init => TypeOK
  BY DEF Init, TypeOK, Finding
<1>2. TypeOK /\ [Next]_checks => TypeOK'
  BY DEF TypeOK, Next, Record
<1> QED
  BY <1>1, <1>2, PTL DEF Spec

-----------------------------------------------------------------------------
(* Rounding.                                                               *)

\* Rounding to the nearest integer, in terms of what it is compared with.
LEMMA RoundedAtLeast ==
    ASSUME NEW n \in Nat, NEW d \in 1 .. 9, NEW k \in Int
    PROVE  /\ RoundedQuotient(n, d) \in Int
           /\ RoundedQuotient(n, d) >= k <=> 2 * n >= (2 * k - 1) * d
<1>1. d = 1 \/ d = 2 \/ d = 3 \/ d = 4 \/ d = 5 \/ d = 6 \/ d = 7 \/ d = 8 \/ d = 9
  OBVIOUS
<1> QED
  BY <1>1 DEF RoundedQuotient

\* Clamping keeps the order and ends on the scale.
LEMMA ClampFacts ==
    ASSUME NEW m \in Int, NEW n \in Int
    PROVE  /\ clampToScale(m) \in 0 .. 100
           /\ m <= n => clampToScale(m) <= clampToScale(n)
BY DEF clampToScale

\* What one check adds to the sums: its weight, if it reported, and at most a
\* hundred times that.
LEMMA TermFacts ==
    ASSUME NEW cs \in [CheckId -> Finding], NEW c \in CheckId
    PROVE  /\ weightOf(cs, c) \in {0, checkWeightMap[c]}
           /\ weightedOf(cs, c) \in Int
           /\ 0 <= weightedOf(cs, c) /\ weightedOf(cs, c) <= 100 * weightOf(cs, c)
           /\ weightOf(cs, c) = 0 <=> ~ hasSignal(cs[c])
<1>1. hasSignal(cs[c]) => clampToScale(scoreOf(cs[c])) \in 0 .. 100
  BY ClampFacts, SeverityAssumption DEF hasSignal, scoreOf, Finding
<1>2. ASSUME NEW m \in 1 .. 4, NEW v \in 0 .. 100
      PROVE  m * v \in Int /\ 0 <= m * v /\ m * v <= 100 * m
  <2>1. m = 1 \/ m = 2 \/ m = 3 \/ m = 4
    OBVIOUS
  <2> QED
    BY <2>1
<1>3. checkWeightMap[c] \in 1 .. 4
  BY DEF CheckId, checkWeightMap
<1> QED
  BY <1>1, <1>2, <1>3 DEF weightOf, weightedOf

\* What the two sums are: the weights, at most nine together, of the checks
\* that reported, and their weighted severities on the scale.
LEMMA SumFacts ==
    ASSUME NEW cs \in [CheckId -> Finding]
    PROVE  /\ totalWeightOf(cs) \in 0 .. 9
           /\ weightedTotalOf(cs) \in 0 .. 900
           /\ weightedTotalOf(cs) <= 100 * totalWeightOf(cs)
           /\ totalWeightOf(cs) = 0 <=> \A c \in CheckId : ~ hasSignal(cs[c])
<1>3. ASSUME NEW c \in CheckId
      PROVE  /\ weightOf(cs, c) \in {0, checkWeightMap[c]}
             /\ weightedOf(cs, c) \in Int
             /\ 0 <= weightedOf(cs, c) /\ weightedOf(cs, c) <= 100 * weightOf(cs, c)
             /\ weightOf(cs, c) = 0 <=> ~ hasSignal(cs[c])
  BY TermFacts
<1>4. /\ weightOf(cs, "domain_age") \in {0, 4}
      /\ weightOf(cs, "ssl_certificate") \in {0, 3}
      /\ weightOf(cs, "redirect_chain") \in {0, 2}
  BY <1>3 DEF CheckId, checkWeightMap
<1>5. /\ weightedOf(cs, "domain_age") \in Int
      /\ 0 <= weightedOf(cs, "domain_age")
      /\ weightedOf(cs, "domain_age") <= 100 * weightOf(cs, "domain_age")
  BY <1>3 DEF CheckId
<1>6. /\ weightedOf(cs, "ssl_certificate") \in Int
      /\ 0 <= weightedOf(cs, "ssl_certificate")
      /\ weightedOf(cs, "ssl_certificate") <= 100 * weightOf(cs, "ssl_certificate")
  BY <1>3 DEF CheckId
<1>7. /\ weightedOf(cs, "redirect_chain") \in Int
      /\ 0 <= weightedOf(cs, "redirect_chain")
      /\ weightedOf(cs, "redirect_chain") <= 100 * weightOf(cs, "redirect_chain")
  BY <1>3 DEF CheckId
<1>8. totalWeightOf(cs) \in 0 .. 9
  BY <1>4 DEF totalWeightOf
<1>9. weightedTotalOf(cs) \in 0 .. 900 /\ weightedTotalOf(cs) <= 100 * totalWeightOf(cs)
  <2>1. PICK a, b, c, x, y, z :
           /\ a = weightOf(cs, "domain_age") /\ x = weightedOf(cs, "domain_age")
           /\ b = weightOf(cs, "ssl_certificate") /\ y = weightedOf(cs, "ssl_certificate")
           /\ c = weightOf(cs, "redirect_chain") /\ z = weightedOf(cs, "redirect_chain")
    BY Zenon
  <2>2. totalWeightOf(cs) = a + b + c /\ weightedTotalOf(cs) = x + y + z
    BY <2>1, Zenon DEF totalWeightOf, weightedTotalOf
  <2>3. /\ a \in {0, 4} /\ x \in Int /\ 0 <= x /\ x <= 100 * a
        /\ b \in {0, 3} /\ y \in Int /\ 0 <= y /\ y <= 100 * b
        /\ c \in {0, 2} /\ z \in Int /\ 0 <= z /\ z <= 100 * c
    BY <1>4, <1>5, <1>6, <1>7, <2>1, Zenon
  <2>4. x + y + z \in 0 .. 900 /\ x + y + z <= 100 * (a + b + c)
    BY <2>3
  <2> QED
    BY <2>2, <2>4, Zenon
<1>10. totalWeightOf(cs) = 0 <=> \A c \in CheckId : ~ hasSignal(cs[c])
  BY <1>3, <1>4 DEF totalWeightOf, CheckId
<1> QED
  BY <1>8, <1>9, <1>10

-----------------------------------------------------------------------------
(* The score.                                                              *)

\* The score reaches k, for k on the scale, when the exact mean comes within
\* half a point of it.
LEMMA ScoreAtLeast ==
    ASSUME NEW cs \in [CheckId -> Finding], totalWeightOf(cs) # 0, NEW k \in 1 .. 100
    PROVE  /\ threatScoreOf(cs) \in 0 .. 100
           /\ threatScoreOf(cs) >= k <=> 2 * weightedTotalOf(cs) >= (2 * k - 1) * totalWeightOf(cs)
<1> DEFINE q == RoundedQuotient(weightedTotalOf(cs), totalWeightOf(cs))
<1>1. weightedTotalOf(cs) \in Nat /\ totalWeightOf(cs) \in 1 .. 9 /\ k \in Int
  BY SumFacts
<1>2. /\ q \in Int
      /\ q >= k <=> 2 * weightedTotalOf(cs) >= (2 * k - 1) * totalWeightOf(cs)
  BY <1>1, RoundedAtLeast, Zenon
<1>3. threatScoreOf(cs) = clampToScale(q)
  BY DEF threatScoreOf
<1> HIDE DEF q
<1>4. clampToScale(q) \in 0 .. 100 /\ (clampToScale(q) >= k <=> q >= k)
  BY <1>2 DEF clampToScale
<1> QED
  BY <1>2, <1>3, <1>4

\* The verdict follows the exact weighted mean, and is "unknown" exactly when
\* no check reported anything.
THEOREM ExactVerdict == Spec => []VerdictIsExact
<1>1. ASSUME TypeOK PROVE VerdictIsExact
  <2>1. totalWeightOf(checks) = 0 <=> \A c \in CheckId : checks[c] \in {NotRun, Errored}
    BY <1>1, SumFacts DEF TypeOK, hasSignal
  <2>2. CASE totalWeightOf(checks) = 0
    BY <2>1, <2>2 DEF VerdictIsExact, verdictOf
  <2>3. CASE totalWeightOf(checks) # 0
    <3>1. threatScoreOf(checks) >= 70 <=> Mean(2, 139)
      BY <1>1, <2>3, ScoreAtLeast DEF TypeOK, Mean
    <3>2. threatScoreOf(checks) >= 30 <=> Mean(2, 59)
      BY <1>1, <2>3, ScoreAtLeast DEF TypeOK, Mean
    <3> QED
      BY <2>1, <2>3, <3>1, <3>2 DEF VerdictIsExact, verdictOf, toVerdict, verdictThresholds
  <2> QED
    BY <2>2, <2>3
<1> QED
  BY <1>1, TypeCorrect, PTL

\* Recording an error leaves score and verdict as they are.
THEOREM OutagesNeutral == Spec => OutageIsNeutral
<1> DEFINE Neutral == \A c \in CheckId :
                        Record(c, Errored) =>
                           /\ threatScoreOf(checks') = threatScoreOf(checks)
                           /\ verdictOf(checks') = verdictOf(checks)
<1>1. TypeOK /\ [Next]_checks => [Neutral]_checks
  <2> SUFFICES ASSUME TypeOK, NEW c \in CheckId, Record(c, Errored)
               PROVE  /\ threatScoreOf(checks') = threatScoreOf(checks)
                      /\ verdictOf(checks') = verdictOf(checks)
    OBVIOUS
  <2>1. \A d \in CheckId : /\ hasSignal(checks'[d]) <=> hasSignal(checks[d])
                           /\ hasSignal(checks[d]) => checks'[d] = checks[d]
    BY DEF Record, hasSignal, TypeOK
  <2>2. /\ totalWeightOf(checks') = totalWeightOf(checks)
        /\ weightedTotalOf(checks') = weightedTotalOf(checks)
    <3>1. \A d \in CheckId : /\ weightOf(checks', d) = weightOf(checks, d)
                             /\ weightedOf(checks', d) = weightedOf(checks, d)
      BY <2>1 DEF weightOf, weightedOf
    <3>2. /\ weightOf(checks', "domain_age") = weightOf(checks, "domain_age")
          /\ weightOf(checks', "ssl_certificate") = weightOf(checks, "ssl_certificate")
          /\ weightOf(checks', "redirect_chain") = weightOf(checks, "redirect_chain")
      BY <3>1 DEF CheckId
    <3>3. /\ weightedOf(checks', "domain_age") = weightedOf(checks, "domain_age")
          /\ weightedOf(checks', "ssl_certificate") = weightedOf(checks, "ssl_certificate")
          /\ weightedOf(checks', "redirect_chain") = weightedOf(checks, "redirect_chain")
      BY <3>1 DEF CheckId
    <3> QED
      BY <3>2, <3>3 DEF totalWeightOf, weightedTotalOf
  <2> QED
    BY <2>2 DEF threatScoreOf, verdictOf
<1> QED
  BY <1>1, TypeCorrect, PTL DEF Spec, OutageIsNeutral

\* Of two sets of results with the same checks reporting, the one with the
\* smaller weighted total has no greater score.
LEMMA ScoreMonotone ==
    ASSUME NEW cs \in [CheckId -> Finding], NEW ds \in [CheckId -> Finding],
           totalWeightOf(cs) = totalWeightOf(ds), weightedTotalOf(cs) <= weightedTotalOf(ds)
    PROVE  threatScoreOf(cs) <= threatScoreOf(ds)
<1>1. CASE totalWeightOf(cs) = 0
  BY <1>1 DEF threatScoreOf
<1>2. CASE totalWeightOf(cs) # 0
  <2>1. threatScoreOf(cs) \in 0 .. 100 /\ threatScoreOf(ds) \in 0 .. 100
    BY <1>2, ScoreAtLeast
  <2>2. CASE threatScoreOf(cs) = 0
    BY <2>1, <2>2
  <2>3. ASSUME NEW k \in 1 .. 100, threatScoreOf(cs) = k PROVE threatScoreOf(ds) >= k
    <3>1. 2 * weightedTotalOf(cs) >= (2 * k - 1) * totalWeightOf(cs)
      BY <1>2, <2>1, <2>3, ScoreAtLeast
    <3>2. weightedTotalOf(cs) \in Int /\ weightedTotalOf(ds) \in Int
      BY SumFacts
    <3>3. 2 * weightedTotalOf(ds) >= 2 * weightedTotalOf(cs)
      BY <3>2
    <3>4. (2 * k - 1) * totalWeightOf(ds) = (2 * k - 1) * totalWeightOf(cs)
      OBVIOUS
    <3>5. (2 * k - 1) * totalWeightOf(cs) \in Int
      BY SumFacts
    <3>6. 2 * weightedTotalOf(ds) >= (2 * k - 1) * totalWeightOf(ds)
      BY <3>1, <3>2, <3>3, <3>4, <3>5
    <3> QED
      BY <1>2, <3>6, ScoreAtLeast
  <2> QED
    BY <2>1, <2>2, <2>3
<1> QED
  BY <1>1, <1>2

\* Raising the severity one check reported never lowers the score.
THEOREM Monotone == Spec => []WorseIsNotSafer
<1>1. ASSUME TypeOK, NEW c \in CheckId, NEW v \in Severity, hasSignal(checks[c]), checks[c] <= v
      PROVE  threatScoreOf(checks) <= threatScoreOf([checks EXCEPT ![c] = v])
  <2> DEFINE ds == [checks EXCEPT ![c] = v]
  <2>1. ds \in [CheckId -> Finding] /\ checks \in [CheckId -> Finding]
    BY <1>1 DEF TypeOK, Finding
  <2>2. hasSignal(v) /\ v \in Int /\ checks[c] \in Int /\ scoreOf(v) = v /\ scoreOf(checks[c]) = checks[c]
    BY <1>1, SeverityAssumption, NotRunAssumption, ErroredAssumption
       DEF TypeOK, Finding, hasSignal, scoreOf
  <2>3. clampToScale(checks[c]) <= clampToScale(v) /\ clampToScale(checks[c]) \in Int
        /\ clampToScale(v) \in Int
    BY <1>1, <2>2, ClampFacts
  <2>4. \A d \in CheckId : /\ weightOf(ds, d) = weightOf(checks, d)
                           /\ d # c => weightedOf(ds, d) = weightedOf(checks, d)
    BY <1>1, <2>1, <2>2 DEF weightOf, weightedOf
  <2>5. /\ weightedOf(checks, c) = checkWeightMap[c] * clampToScale(checks[c])
        /\ weightedOf(ds, c) = checkWeightMap[c] * clampToScale(v)
    BY <1>1, <2>1, <2>2 DEF weightedOf
  <2>6. weightedOf(checks, c) <= weightedOf(ds, c)
    <3>1. checkWeightMap[c] \in {2, 3, 4}
      BY DEF CheckId, checkWeightMap
    <3>2. ASSUME NEW m \in {2, 3, 4}, NEW x \in Int, NEW y \in Int, x <= y
          PROVE  m * x <= m * y
      BY <3>2
    <3> QED
      BY <2>3, <2>5, <3>1, <3>2
  <2> HIDE DEF ds
  <2>7. totalWeightOf(ds) = totalWeightOf(checks)
    BY <2>4 DEF totalWeightOf, CheckId
  <2>8. \A d \in CheckId : weightedOf(checks, d) \in Int /\ weightedOf(ds, d) \in Int
    BY <2>1, TermFacts
  <2>9. weightedTotalOf(checks) <= weightedTotalOf(ds)
    BY <2>4, <2>6, <2>8 DEF weightedTotalOf, CheckId
  <2>10. threatScoreOf(checks) <= threatScoreOf(ds)
    BY <2>1, <2>7, <2>9, ScoreMonotone
  <2> QED
    BY <2>10 DEF ds
<1>2. TypeOK => WorseIsNotSafer
  BY <1>1 DEF WorseIsNotSafer
<1> QED
  BY <1>2, TypeCorrect, PTL

-----------------------------------------------------------------------------
(* The score is a mean.                                                    *)

\* A bound on every severity that was reported bounds the weighted total.
LEMMA SumBounds ==
    ASSUME NEW cs \in [CheckId -> Finding], NEW k \in -1 .. 101
    PROVE  /\ (\A c \in CheckId : hasSignal(cs[c]) => k <= clampToScale(cs[c])) =>
                  k * totalWeightOf(cs) <= weightedTotalOf(cs)
           /\ (\A c \in CheckId : hasSignal(cs[c]) => clampToScale(cs[c]) <= k) =>
                  weightedTotalOf(cs) <= k * totalWeightOf(cs)
<1>1. ASSUME NEW c \in CheckId
      PROVE  /\ (hasSignal(cs[c]) => k <= clampToScale(cs[c])) =>
                    k * weightOf(cs, c) <= weightedOf(cs, c)
             /\ (hasSignal(cs[c]) => clampToScale(cs[c]) <= k) =>
                    weightedOf(cs, c) <= k * weightOf(cs, c)
             /\ weightedOf(cs, c) \in Int
             /\ weightOf(cs, c) \in {0, checkWeightMap[c]}
  <2>1. weightedOf(cs, c) \in Int /\ weightOf(cs, c) \in {0, checkWeightMap[c]}
    BY TermFacts
  <2>2. CASE ~ hasSignal(cs[c])
    BY <2>1, <2>2 DEF weightOf, weightedOf
  <2>3. CASE hasSignal(cs[c])
    <3>1. scoreOf(cs[c]) = cs[c] /\ clampToScale(cs[c]) \in 0 .. 100
      BY <2>3, ClampFacts, SeverityAssumption DEF hasSignal, scoreOf, Finding
    <3>2. checkWeightMap[c] \in {2, 3, 4}
      BY DEF CheckId, checkWeightMap
    <3>3. ASSUME NEW m \in {2, 3, 4}, NEW v \in 0 .. 100
          PROVE  (k <= v => k * m <= m * v) /\ (v <= k => m * v <= k * m)
      BY <3>3
    <3>4. /\ weightOf(cs, c) = checkWeightMap[c]
          /\ weightedOf(cs, c) = checkWeightMap[c] * clampToScale(cs[c])
      BY <2>3, <3>1 DEF weightOf, weightedOf
    <3> QED
      BY <2>1, <2>3, <3>1, <3>2, <3>3, <3>4
  <2> QED
    BY <2>2, <2>3
<1>2. PICK a, b, c, x, y, z :
         /\ a = weightOf(cs, "domain_age") /\ x = weightedOf(cs, "domain_age")
         /\ b = weightOf(cs, "ssl_certificate") /\ y = weightedOf(cs, "ssl_certificate")
         /\ c = weightOf(cs, "redirect_chain") /\ z = weightedOf(cs, "redirect_chain")
  BY Zenon
<1>3. totalWeightOf(cs) = a + b + c /\ weightedTotalOf(cs) = x + y + z
  BY <1>2, Zenon DEF totalWeightOf, weightedTotalOf
<1>4. /\ weightOf(cs, "domain_age") \in {0, 4} /\ weightedOf(cs, "domain_age") \in Int
      /\ weightOf(cs, "ssl_certificate") \in {0, 3} /\ weightedOf(cs, "ssl_certificate") \in Int
      /\ weightOf(cs, "redirect_chain") \in {0, 2} /\ weightedOf(cs, "redirect_chain") \in Int
  BY <1>1 DEF CheckId, checkWeightMap
<1>5. /\ a \in {0, 4} /\ x \in Int
      /\ b \in {0, 3} /\ y \in Int
      /\ c \in {0, 2} /\ z \in Int
  BY <1>2, <1>4, Zenon
<1>6. ASSUME \A d \in CheckId : hasSignal(cs[d]) => k <= clampToScale(cs[d])
      PROVE  k * totalWeightOf(cs) <= weightedTotalOf(cs)
  <2>1. \A d \in CheckId : k * weightOf(cs, d) <= weightedOf(cs, d)
    BY <1>1, <1>6
  <2>2. /\ k * weightOf(cs, "domain_age") <= weightedOf(cs, "domain_age")
        /\ k * weightOf(cs, "ssl_certificate") <= weightedOf(cs, "ssl_certificate")
        /\ k * weightOf(cs, "redirect_chain") <= weightedOf(cs, "redirect_chain")
    BY <2>1 DEF CheckId
  <2>3. k * a <= x /\ k * b <= y /\ k * c <= z
    BY <1>2, <2>2, Zenon
  <2>4. k * (a + b + c) <= x + y + z
    BY <1>5, <2>3
  <2> QED
    BY <1>3, <2>4, Zenon
<1>7. ASSUME \A d \in CheckId : hasSignal(cs[d]) => clampToScale(cs[d]) <= k
      PROVE  weightedTotalOf(cs) <= k * totalWeightOf(cs)
  <2>1. \A d \in CheckId : weightedOf(cs, d) <= k * weightOf(cs, d)
    BY <1>1, <1>7
  <2>2. /\ weightedOf(cs, "domain_age") <= k * weightOf(cs, "domain_age")
        /\ weightedOf(cs, "ssl_certificate") <= k * weightOf(cs, "ssl_certificate")
        /\ weightedOf(cs, "redirect_chain") <= k * weightOf(cs, "redirect_chain")
    BY <2>1 DEF CheckId
  <2>3. x <= k * a /\ y <= k * b /\ z <= k * c
    BY <1>2, <2>2, Zenon
  <2>4. x + y + z <= k * (a + b + c)
    BY <1>5, <2>3
  <2> QED
    BY <1>3, <2>4, Zenon
<1> QED
  BY <1>6, <1>7

\* The score lies between the least and the greatest severity reported.
THEOREM MeanOfSeverities == Spec => []ScoreIsMean
<1>1. ASSUME TypeOK PROVE ScoreIsMean
  <2> DEFINE s == threatScoreOf(checks)
             W == totalWeightOf(checks)
             N == weightedTotalOf(checks)
  <2>1. checks \in [CheckId -> Finding]
    BY <1>1 DEF TypeOK
  <2>2. CASE W = 0
    <3>1. \A c \in CheckId : ~ hasSignal(checks[c])
      BY <2>1, <2>2, SumFacts
    <3> QED
      BY <2>2, <3>1 DEF threatScoreOf, ScoreIsMean, Severities
  <2>3. CASE W # 0
    <3>1. s \in 0 .. 100 /\ W \in 1 .. 9 /\ N \in 0 .. 900
      BY <2>1, <2>3, ScoreAtLeast, SumFacts
    <3>2. \A c \in CheckId : hasSignal(checks[c]) => clampToScale(checks[c]) \in 0 .. 100
      BY <2>1, ClampFacts, SeverityAssumption DEF hasSignal, Finding
    <3>3. \A k \in 1 .. 100 : s >= k <=> 2 * N >= (2 * k - 1) * W
      BY <2>1, <2>3, ScoreAtLeast
    <3>4. ASSUME \A c \in CheckId : hasSignal(checks[c]) => s + 1 <= clampToScale(checks[c])
          PROVE  FALSE
      <4>1. \E c \in CheckId : hasSignal(checks[c])
        BY <2>1, <2>3, SumFacts
      <4>2. s + 1 \in 1 .. 100
        BY <3>1, <3>2, <3>4, <4>1
      <4>3. (s + 1) * W <= N
        BY <2>1, <3>4, <4>2, SumBounds
      <4> HIDE DEF s, W, N
      <4>4. 2 * N >= (2 * (s + 1) - 1) * W
        <5>1. W = 1 \/ W = 2 \/ W = 3 \/ W = 4 \/ W = 5 \/ W = 6 \/ W = 7 \/ W = 8 \/ W = 9
          BY <3>1
        <5> QED
          BY <3>1, <4>3, <5>1
      <4> QED
        BY <3>1, <3>3, <4>2, <4>4
    <3>5. ASSUME \A c \in CheckId : hasSignal(checks[c]) => clampToScale(checks[c]) <= s - 1
          PROVE  FALSE
      <4>1. \E c \in CheckId : hasSignal(checks[c])
        BY <2>1, <2>3, SumFacts
      <4>2. s \in 1 .. 100 /\ s - 1 \in -1 .. 101
        BY <3>1, <3>2, <3>5, <4>1
      <4>3. N <= (s - 1) * W
        BY <2>1, <3>5, <4>2, SumBounds
      <4> HIDE DEF s, W, N
      <4>4. ~(2 * N >= (2 * s - 1) * W)
        <5>1. W = 1 \/ W = 2 \/ W = 3 \/ W = 4 \/ W = 5 \/ W = 6 \/ W = 7 \/ W = 8 \/ W = 9
          BY <3>1
        <5> QED
          BY <3>1, <4>3, <5>1
      <4> QED
        BY <3>1, <3>3, <4>2, <4>4
    <3>6. \E c \in CheckId : hasSignal(checks[c]) /\ clampToScale(checks[c]) <= s
      BY <3>1, <3>2, <3>4
    <3>7. \E c \in CheckId : hasSignal(checks[c]) /\ s <= clampToScale(checks[c])
      BY <3>1, <3>2, <3>5
    <3> QED
      BY <3>1, <3>6, <3>7 DEF ScoreIsMean, Severities
  <2> QED
    BY <2>2, <2>3
<1> QED
  BY <1>1, TypeCorrect, PTL
=============================================================================
