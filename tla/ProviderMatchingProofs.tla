----------------------- MODULE ProviderMatchingProofs -----------------------
(***************************************************************************)
(* Theorems about ProviderMatching for every folder, every pair of answers *)
(* and every threshold and delta; the last two for the thresholds and the  *)
(* deltas that make them true, the shipped 0.72 and 0.05 among them.       *)
(***************************************************************************)
EXTENDS ProviderMatching, TLAPS

-----------------------------------------------------------------------------
(* The components of the score *)

LEMMA ResultType ==
    ASSUME NEW r \in Result
    PROVE  /\ r.shape \in Shape
           /\ r.similarity \in 0..100
           /\ r.year \in Nat
           /\ r.popularity \in Nat
           /\ r.rank \in 1..20
<1>1. /\ r.shape \in Shape /\ r.similarity \in Similarity /\ r.year \in Year \cup {0}
      /\ r.popularity \in Popularity /\ r.rank \in 1..PageSize
  BY DEF Result, NoYear
<1>2. r.rank \in 1..20
  BY <1>1, PageAssumption
<1>3. r.similarity \in 0..100
  BY <1>1, DataAssumption
<1>4. r.popularity \in Nat
  BY <1>1, DataAssumption
<1>5. r.year \in Nat
  <2>1. Year \subseteq Nat
    BY DataAssumption
  <2>2. r.year \in Year \/ r.year = 0
    BY <1>1
  <2>3. CASE r.year \in Year
    BY <2>1, <2>3
  <2>4. CASE r.year = 0
    BY <2>4
  <2> QED
    BY <2>2, <2>3, <2>4
<1> QED
  BY <1>1, <1>2, <1>3, <1>4, <1>5

LEMMA ComponentRange ==
    ASSUME NEW c \in Context, NEW r \in Result
    PROVE  /\ YearScore(c.year, r.year) \in 0..100
           /\ ShapeScore(c, r.shape) \in 0..100
           /\ LibraryHint(c.category, r.shape) \in 0..100
           /\ EvidenceScore(c, r.shape) \in 0..100
           /\ RankScore(r.rank) \in 5..100
           /\ PopularityScore(r.popularity) \in 0..100
<1>1. RankScore(r.rank) \in 5..100 /\ PopularityScore(r.popularity) \in 0..100
  BY ResultType DEF RankScore, PopularityScore
<1>2. LibraryHint(c.category, r.shape) \in 0..100
  BY DEF LibraryHint, Context, Category
<1> QED
  BY <1>1, <1>2 DEF YearScore, ShapeScore, EvidenceScore

\* A number in the range of the scores is a score.
LEMMA InScore == \A n \in Int : 0 <= n /\ n <= 10000 => n \in Score
BY SMTT(60) DEF Score

\* A confidence is a number between 0 and 1: the weights add up to 1.
LEMMA ConfidenceRange ==
    ASSUME NEW c \in Context, NEW r \in Result
    PROVE  Confidence(c, r) \in Score
<1> DEFINE y == YearScore(c.year, r.year)   s == ShapeScore(c, r.shape)
           h == LibraryHint(c.category, r.shape)   e == EvidenceScore(c, r.shape)
           k == RankScore(r.rank)   p == PopularityScore(r.popularity)   t == r.similarity
<1>1. /\ y \in 0..100 /\ s \in 0..100 /\ h \in 0..100 /\ e \in 0..100
      /\ k \in 0..100 /\ p \in 0..100 /\ t \in 0..100
  BY ComponentRange, ResultType
<1>2. Confidence(c, r) = 45 * t + 15 * y + 15 * s + 10 * h + 10 * e + 3 * k + 2 * p
  BY DEF Confidence
<1> HIDE DEF y, s, h, e, k, p, t
<1>3. /\ y \in Int /\ s \in Int /\ h \in Int /\ e \in Int /\ k \in Int /\ p \in Int /\ t \in Int
      /\ 0 <= y /\ 0 <= s /\ 0 <= h /\ 0 <= e /\ 0 <= k /\ 0 <= p /\ 0 <= t
      /\ y <= 100 /\ s <= 100 /\ h <= 100 /\ e <= 100 /\ k <= 100 /\ p <= 100 /\ t <= 100
  BY <1>1
<1> DEFINE sum == 45 * t + 15 * y + 15 * s + 10 * h + 10 * e + 3 * k + 2 * p
<1>4. sum \in Int /\ 0 <= sum /\ sum <= 10000
  BY <1>3
<1>5. Confidence(c, r) = sum
  BY <1>2
<1> HIDE DEF sum
<1>6. sum \in Score
  BY <1>4, InScore
<1> QED
  BY <1>5, <1>6

\* Two results that agree in everything but rank and popularity are at most 485
\* units apart: 3 * 95 for ranks 1 and 20, 2 * 100 for the popularity.
LEMMA TieBreakersAreSmall ==
    ASSUME NEW c \in Context, NEW r \in Result, NEW q \in Result,
           r.similarity = q.similarity, r.year = q.year, r.shape = q.shape
    PROVE  Confidence(c, r) - Confidence(c, q) <= 485
<1> DEFINE y == YearScore(c.year, r.year)   s == ShapeScore(c, r.shape)
           h == LibraryHint(c.category, r.shape)   e == EvidenceScore(c, r.shape)   t == r.similarity
           k == RankScore(r.rank)   p == PopularityScore(r.popularity)
           l == RankScore(q.rank)   o == PopularityScore(q.popularity)
<1>1. /\ y \in 0..100 /\ s \in 0..100 /\ h \in 0..100 /\ e \in 0..100 /\ t \in 0..100
      /\ k \in 5..100 /\ p \in 0..100 /\ l \in 5..100 /\ o \in 0..100
  BY ComponentRange, ResultType
<1>2. /\ Confidence(c, r) = 45 * t + 15 * y + 15 * s + 10 * h + 10 * e + 3 * k + 2 * p
      /\ Confidence(c, q) = 45 * t + 15 * y + 15 * s + 10 * h + 10 * e + 3 * l + 2 * o
  BY DEF Confidence
<1> HIDE DEF y, s, h, e, t, k, p, l, o
<1> QED
  BY <1>1, <1>2

\* In a library of series, a film scores at most 6500 for a folder of episodes.
LEMMA FilmForEpisodesIsLow ==
    ASSUME NEW c \in Context, NEW r \in Result,
           c.evidence, c.category = "series", r.shape # "series"
    PROVE  Confidence(c, r) <= 6500
<1> DEFINE y == YearScore(c.year, r.year)   k == RankScore(r.rank)
           p == PopularityScore(r.popularity)   t == r.similarity
<1>1. ShapeScore(c, r.shape) = 0 /\ LibraryHint(c.category, r.shape) = 0 /\ EvidenceScore(c, r.shape) = 0
  BY DEF ShapeScore, ExpectedShape, LibraryHint, EvidenceScore
<1>2. y \in 0..100 /\ k \in 0..100 /\ p \in 0..100 /\ t \in 0..100
  BY ComponentRange, ResultType
<1>3. Confidence(c, r) = 45 * t + 15 * y + 15 * 0 + 10 * 0 + 10 * 0 + 3 * k + 2 * p
  BY <1>1 DEF Confidence
<1> HIDE DEF y, k, p, t
<1> QED
  BY <1>2, <1>3

-----------------------------------------------------------------------------
(* The inductive invariant *)

Scored == outcome \notin {"searching", "ingestion_failed"}

\* Once the search is over, the scores are those of the results.
ScoresAreOfResults ==
    Scored => /\ DOMAIN scores = DOMAIN results
              /\ \A k \in DOMAIN results : scores[k] = Confidence(context, results[k])

MatchInv == MatchTypeOK /\ ScoresAreOfResults /\ SelectionIsClear /\ IssueIsTrue

LEMMA MatchInvInit == MatchInit => MatchInv
BY DEF MatchInit, MatchInv, MatchTypeOK, ScoresAreOfResults, Scored, SelectionIsClear, IssueIsTrue,
       Outcome, Issue, Nothing

\* What a search adds to the results is of their type.
LEMMA AnswerType ==
    ASSUME MatchTypeOK, NEW a \in Answer, SearchAnswered(a)
    PROVE  results' \in Seq(Result)
<1>1. PICK n \in 0..PageSize : a \in [1..n -> Found]
  BY DEF Answer
<1> DEFINE found == [k \in DOMAIN a |-> [shape |-> ShapeSearched, similarity |-> a[k].similarity,
                                        year |-> a[k].year, popularity |-> a[k].popularity, rank |-> k]]
<1>2. ASSUME NEW k \in 1..n
      PROVE  [shape |-> ShapeSearched, similarity |-> a[k].similarity, year |-> a[k].year,
              popularity |-> a[k].popularity, rank |-> k] \in Result
  <2>1. a[k] \in Found /\ k \in 1..PageSize
    BY <1>1, PageAssumption
  <2> QED
    BY <2>1 DEF Found, Result, Shape, ShapeSearched
<1>3. DOMAIN found = 1..n /\ \A k \in 1..n : found[k] \in Result
  BY <1>1, <1>2
<1>4. n \in Nat
  BY PageAssumption
<1>5. found \in [1..n -> Result]
  BY <1>3
<1>6. found \in Seq(Result)
  BY <1>4, <1>5
<1>7. results' = results \o found /\ results \in Seq(Result)
  BY DEF SearchAnswered, MatchTypeOK
<1> HIDE DEF found
<1> QED
  BY <1>6, <1>7

LEMMA MatchInvNext == MatchInv /\ [MatchNext]_matchVars => MatchInv'
<1> SUFFICES ASSUME MatchInv, [MatchNext]_matchVars PROVE MatchInv'
  OBVIOUS
<1> USE DEF MatchInv
<1>1. CASE UNCHANGED matchVars
  BY <1>1 DEF matchVars, MatchTypeOK, ScoresAreOfResults, Scored, SelectionIsClear, IssueIsTrue
<1>2. ASSUME NEW a \in Answer, SearchAnswered(a) PROVE MatchInv'
  <2>1. results' \in Seq(Result)
    BY <1>2, AnswerType
  <2>2. outcome = "searching" /\ UNCHANGED <<context, scores, outcome, chosen>> /\ answered' \in 0..2
    BY <1>2 DEF SearchAnswered, MatchTypeOK
  <2> QED
    BY <2>1, <2>2 DEF MatchTypeOK, ScoresAreOfResults, Scored, SelectionIsClear, IssueIsTrue
<1>3. CASE SearchFails
  BY <1>3 DEF SearchFails, MatchTypeOK, ScoresAreOfResults, Scored, SelectionIsClear, IssueIsTrue,
              Outcome, Issue
<1>4. CASE ScoreCandidates
  <2>1. ASSUME NEW k \in DOMAIN results
        PROVE  Confidence(context, results[k]) \in Score
    <3>1. results[k] \in Result /\ context \in Context
      BY DEF MatchTypeOK
    <3> QED
      BY <3>1, ConfidenceRange
  <2>2. DOMAIN scores' = DOMAIN results /\ \A k \in DOMAIN results : scores'[k] = Confidence(context, results[k])
    BY <1>4 DEF ScoreCandidates
  <2>3. scores' \in Seq(Score)
    <3>1. DOMAIN results = 1..Len(results) /\ Len(results) \in Nat
      BY DEF MatchTypeOK
    <3>2. scores' \in [1..Len(results) -> Score]
      BY <1>4, <2>1, <3>1 DEF ScoreCandidates
    <3> QED
      BY <3>1, <3>2
  <2>4. outcome' = "scored" /\ UNCHANGED <<context, answered, results, chosen>>
    BY <1>4 DEF ScoreCandidates
  <2>5. MatchTypeOK'
    BY <2>3, <2>4 DEF MatchTypeOK, Outcome
  <2>6. ScoresAreOfResults'
    BY <2>2, <2>4 DEF ScoresAreOfResults
  <2> QED
    BY <2>4, <2>5, <2>6 DEF SelectionIsClear, IssueIsTrue
<1>5. ASSUME NEW o \in {"selected"} \cup Issue, NEW k \in Nat, Decide(o, k)
      PROVE  (MatchTypeOK /\ ScoresAreOfResults)' /\ outcome = "scored"
  BY <1>5 DEF Decide, MatchTypeOK, ScoresAreOfResults, Scored, Outcome
<1>6. CASE NoMatch
  <2>1. (MatchTypeOK /\ ScoresAreOfResults)'
    BY <1>5, <1>6 DEF NoMatch, Issue, Nothing
  <2> QED
    BY <1>6, <2>1 DEF NoMatch, Decide, SelectionIsClear, IssueIsTrue
<1>7. ASSUME Scored
      PROVE  DOMAIN scores = DOMAIN results /\ \A n \in DOMAIN results : scores[n] \in Int
  <2>1. DOMAIN scores = DOMAIN results
    BY <1>7 DEF ScoresAreOfResults
  <2>2. \A n \in DOMAIN scores : scores[n] \in Score
    BY DEF MatchTypeOK
  <2>3. Score \subseteq Int
    BY DEF Score
  <2> QED
    BY <2>1, <2>2, <2>3
<1>8. CASE LowConfidence
  <2>1. PICK k \in DOMAIN scores : IsBest(k) /\ IsLow(k) /\ Decide("provider_low_confidence", Nothing)
    BY <1>8 DEF LowConfidence
  <2>2. (MatchTypeOK /\ ScoresAreOfResults)' /\ outcome = "scored"
    BY <1>5, <2>1 DEF Issue, Nothing
  <2>3. DOMAIN scores = DOMAIN results /\ \A n \in DOMAIN results : scores[n] \in Int
    BY <1>7, <2>2 DEF Scored
  <2>4. results # <<>>
    BY <2>1, <2>3
  <2>5. \A n \in DOMAIN results : scores[n] < Threshold
    BY <2>1, <2>3, MatchingAssumption DEF IsBest, Leads, IsLow
  <2> QED
    BY <2>1, <2>2, <2>4, <2>5 DEF Decide, SelectionIsClear, IssueIsTrue
<1>9. CASE Ambiguous
  <2>1. PICK k \in DOMAIN scores, m \in DOMAIN scores :
          /\ IsBest(k) /\ ~IsLow(k) /\ IsSecond(m, k) /\ MayBeTooClose(k, m)
          /\ Decide("provider_ambiguous_match", Nothing)
    BY <1>9 DEF Ambiguous
  <2>2. (MatchTypeOK /\ ScoresAreOfResults)' /\ outcome = "scored"
    BY <1>5, <2>1 DEF Issue, Nothing
  <2>3. DOMAIN scores = DOMAIN results /\ \A n \in DOMAIN results : scores[n] \in Int
    BY <1>7, <2>2 DEF Scored
  <2>4. /\ k # m
        /\ scores[k] >= Threshold /\ scores[k] - scores[m] <= Delta
        /\ \A n \in DOMAIN results : scores[n] <= scores[k]
    BY <2>1, <2>3, MatchingAssumption DEF IsBest, IsSecond, Leads, IsLow, MayBeTooClose
  <2> QED
    BY <2>1, <2>2, <2>3, <2>4 DEF Decide, SelectionIsClear, IssueIsTrue
<1>10. CASE Select
  <2>1. PICK k \in DOMAIN scores :
          /\ IsBest(k) /\ ~IsLow(k)
          /\ Len(scores) = 1 \/ \E m \in DOMAIN scores : IsSecond(m, k) /\ MayBeClear(k, m)
          /\ Decide("selected", k)
    BY <1>10 DEF Select
  <2>2. outcome = "scored"
    BY <2>1 DEF Decide
  <2>3. DOMAIN scores = DOMAIN results /\ \A n \in DOMAIN results : scores[n] \in Int
    BY <1>7, <2>2 DEF Scored
  <2>4. results \in Seq(Result) /\ DOMAIN scores = 1..Len(results) /\ k \in Nat
    BY <2>1, <2>3 DEF MatchTypeOK
  <2>5. (MatchTypeOK /\ ScoresAreOfResults)'
    BY <1>5, <2>1, <2>4
  <2>6. scores[k] >= Threshold
    BY <2>1, <2>3, MatchingAssumption DEF IsLow
  <2>7. ASSUME NEW n \in DOMAIN results \ {k}
        PROVE  scores[k] >= scores[n] + Delta /\ scores[k] # scores[n]
    <3>1. CASE Len(scores) = 1
      <4>1. DOMAIN scores = 1..Len(scores)
        BY DEF MatchTypeOK
      <4>2. k = 1 /\ n = 1
        BY <2>1, <2>3, <3>1, <4>1
      <4> QED
        BY <4>2
    <3>2. CASE \E m \in DOMAIN scores : IsSecond(m, k) /\ MayBeClear(k, m)
      <4>1. PICK m \in DOMAIN scores : IsSecond(m, k) /\ MayBeClear(k, m)
        BY <3>2
      <4>2. scores[n] <= scores[m]
        BY <2>3, <4>1 DEF IsSecond, Leads
      <4>3. scores[k] >= scores[m] + Delta /\ scores[k] # scores[m]
        BY <2>3, <4>1, MatchingAssumption DEF MayBeClear
      <4> QED
        BY <2>3, <4>2, <4>3, MatchingAssumption
    <3> QED
      BY <2>1, <3>1, <3>2
  <2> QED
    BY <2>1, <2>3, <2>5, <2>6, <2>7 DEF Decide, SelectionIsClear, IssueIsTrue, Issue
<1> QED
  BY <1>1, <1>2, <1>3, <1>4, <1>6, <1>8, <1>9, <1>10 DEF MatchNext

-----------------------------------------------------------------------------
(* The theorems *)

\* The inductive invariant holds of every behaviour.
THEOREM MatchInvariant == MatchSpec => []MatchInv
<1> QED
  BY MatchInvInit, MatchInvNext, PTL DEF MatchSpec

\* Type correctness: in particular every score is between 0 and 1.
THEOREM MatchTypeCorrect == MatchSpec => []MatchTypeOK
<1>1. MatchInv => MatchTypeOK
  BY DEF MatchInv
<1> QED
  BY <1>1, MatchInvariant, PTL

\* Whatever is answered, in whatever order, a selected result leads all others.
THEOREM SelectedLeadsAll == MatchSpec => []SelectionIsClear
<1>1. MatchInv => SelectionIsClear
  BY DEF MatchInv
<1> QED
  BY <1>1, MatchInvariant, PTL

\* The issue of a folder without a match is true of all results.
THEOREM IssueTellsTruth == MatchSpec => []IssueIsTrue
<1>1. MatchInv => IssueIsTrue
  BY DEF MatchInv
<1> QED
  BY <1>1, MatchInvariant, PTL

LEMMA ChosenScore ==
    ASSUME MatchInv, outcome = "selected"
    PROVE  /\ chosen \in DOMAIN results /\ context \in Context
           /\ \A n \in DOMAIN results :
                 results[n] \in Result /\ scores[n] = Confidence(context, results[n]) /\ scores[n] \in Int
<1>1. context \in Context /\ \A n \in DOMAIN results : results[n] \in Result
  BY DEF MatchInv, MatchTypeOK
<1>2. DOMAIN scores = DOMAIN results /\ \A n \in DOMAIN results : scores[n] = Confidence(context, results[n])
  BY DEF MatchInv, ScoresAreOfResults, Scored
<1>3. \A n \in DOMAIN scores : scores[n] \in Score
  BY DEF MatchInv, MatchTypeOK
<1>4. chosen \in DOMAIN results
  BY DEF MatchInv, SelectionIsClear
<1>5. Score \subseteq Int
  BY DEF Score
<1> QED
  BY <1>1, <1>2, <1>3, <1>4, <1>5

\* With a threshold above 0.65 no folder of episodes in a library of series is
\* taken for a film.
THEOREM EpisodesMatchSeries ==
    ASSUME Threshold > 6500
    PROVE  MatchSpec => []EpisodesAreSeries
<1>1. MatchInv => EpisodesAreSeries
  <2> SUFFICES ASSUME MatchInv, outcome = "selected", context.evidence, context.category = "series",
                      results[chosen].shape # "series"
               PROVE  FALSE
    BY DEF EpisodesAreSeries
  <2>1. scores[chosen] <= 6500
    BY ChosenScore, FilmForEpisodesIsLow
  <2>2. scores[chosen] >= Threshold /\ scores[chosen] \in Int
    BY ChosenScore DEF MatchInv, SelectionIsClear
  <2> QED
    BY <2>1, <2>2, MatchingAssumption
<1> QED
  BY <1>1, MatchInvariant, PTL

\* The two results agree in all that the score is made of but rank and popularity.
AlikeButForTieBreakers(r, q) ==
    r.similarity = q.similarity /\ r.year = q.year /\ r.shape = q.shape

\* README.md:103-104 speaks of the tie-breakers rank and popularity.  With a delta
\* above 0.0485, as the shipped one, they break no tie, whatever they are: of two
\* results that are alike otherwise none is ever selected over the other.
THEOREM RankAndPopularityNeverDecide ==
    ASSUME Delta > 485
    PROVE  MatchSpec => [](outcome = "selected" =>
              \A m \in DOMAIN results \ {chosen} : ~AlikeButForTieBreakers(results[m], results[chosen]))
<1>1. MatchInv => (outcome = "selected" =>
         \A m \in DOMAIN results \ {chosen} : ~AlikeButForTieBreakers(results[m], results[chosen]))
  <2> SUFFICES ASSUME MatchInv, outcome = "selected", NEW m \in DOMAIN results \ {chosen},
                      AlikeButForTieBreakers(results[m], results[chosen])
               PROVE  FALSE
    OBVIOUS
  <2>1. scores[chosen] - scores[m] <= 485
    BY ChosenScore, TieBreakersAreSmall DEF AlikeButForTieBreakers
  <2>2. scores[chosen] >= scores[m] + Delta /\ scores[chosen] \in Int /\ scores[m] \in Int
    BY ChosenScore DEF MatchInv, SelectionIsClear
  <2> QED
    BY <2>1, <2>2, MatchingAssumption
<1> QED
  BY <1>1, MatchInvariant, PTL
=============================================================================
