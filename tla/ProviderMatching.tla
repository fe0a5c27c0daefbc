-------------------------- MODULE ProviderMatching --------------------------
(***************************************************************************)
(* How an ingest chooses the provider's entry for a media folder: two      *)
(* searches at TMDB, the confidence score of every result, and the choice  *)
(* of one result or of none (app/services/provider_matching.py and the     *)
(* first half of MetadataIngester.ingest).                                 *)
(*                                                                         *)
(* Scores are integers, in units of 1/10000: the code rounds them to four  *)
(* decimals.  A component score is in hundredths, and a weight of 0.45 is  *)
(* the factor 45.                                                          *)
(***************************************************************************)
EXTENDS Integers, Sequences

CONSTANTS
    Similarity,  \* title similarities that occur, in hundredths
    Year,        \* release years that occur
    Popularity,  \* popularities that occur
    PageSize,    \* results in one answer, at most
    Threshold,   \* matching.confidence_threshold
    Delta        \* matching.ambiguity_delta

ASSUME DataAssumption == Similarity \subseteq 0..100 /\ Year \subseteq Nat \ {0} /\ Popularity \subseteq Nat
ASSUME PageAssumption == PageSize \in 0..20
ASSUME MatchingAssumption == Threshold \in Nat /\ Delta \in Nat

VARIABLES
    context,   \* what is known of the folder
    answered,  \* how many of the two searches have been answered
    results,   \* the results, in the order of the answers
    scores,    \* their scores, once the search is over
    outcome,   \* how the choice ended
    chosen     \* the place in "results" of the chosen one, or Nothing

matchVars == <<context, answered, results, scores, outcome, chosen>>

NoYear == 0
Nothing == 0

Category == {"movies", "series", "anime", "documentaries"}
Shape == {"film", "series"}

\* evidence: some file of the folder names a season and an episode.
Context == [category : Category, year : Year \cup {NoYear}, evidence : BOOLEAN]

Result == [shape : Shape, similarity : Similarity, year : Year \cup {NoYear},
           popularity : Popularity, rank : 1..PageSize]

Score == 0..10000

Issue == {"provider_no_match", "provider_low_confidence", "provider_ambiguous_match"}
Outcome == {"searching", "scored", "selected", "ingestion_failed"} \cup Issue

MatchTypeOK ==
    /\ context \in Context
    /\ answered \in 0..2
    /\ results \in Seq(Result)
    /\ scores \in Seq(Score)
    /\ outcome \in Outcome
    /\ chosen \in Nat

-----------------------------------------------------------------------------
(* The score of a result.  TMDB gives every result a rank, of at most 20. *)

ExpectedShape(c) == IF c.evidence \/ c.category = "series" THEN "series" ELSE "film"

YearScore(known, released) ==
    IF known = NoYear \/ released = NoYear THEN 50
    ELSE IF known = released THEN 100
    ELSE IF known = released + 1 \/ released = known + 1 THEN 75
    ELSE 0

ShapeScore(c, shape) == IF shape = ExpectedShape(c) THEN 100 ELSE 0

LibraryHint(category, shape) ==
    CASE category = "series" -> IF shape = "series" THEN 100 ELSE 0
      [] category \in {"movies", "documentaries"} -> IF shape = "film" THEN 100 ELSE 25
      [] OTHER -> 75

\* Mutant of EvidenceScore: the weight is given to every result.
EvidenceIgnored(c, shape) == 100

EvidenceScore(c, shape) == IF ~c.evidence \/ shape = "series" THEN 100 ELSE 0

RankScore(rank) == 100 - 5 * (rank - 1)

\* Mutant of PopularityScore: it has no upper limit.
PopularityUnlimited(popularity) == popularity

PopularityScore(popularity) == IF popularity > 100 THEN 100 ELSE popularity

Confidence(c, r) ==
    45 * r.similarity
    + 15 * YearScore(c.year, r.year)
    + 15 * ShapeScore(c, r.shape)
    + 10 * LibraryHint(c.category, r.shape)
    + 10 * EvidenceScore(c, r.shape)
    + 3 * RankScore(r.rank)
    + 2 * PopularityScore(r.popularity)

-----------------------------------------------------------------------------
(* The choice: score_candidates sorts by score, the sort is stable, and *)
(* select_best_candidate looks at the first two.                        *)

\* Mutant of Leads: the results are left in the order of the answers.
LeadsAsAnswered(k, S) == k \in S /\ \A m \in S : k <= m

\* Of the results in S, k is sorted first.
Leads(k, S) == k \in S /\ \A m \in S : scores[m] < scores[k] \/ (scores[m] = scores[k] /\ k <= m)

IsBest(k) == Leads(k, DOMAIN scores)
IsSecond(m, k) == Leads(m, DOMAIN scores \ {k})

\* Mutant of IsLow: the best score is compared with the margin as well.
IsLowWithMargin(k) == scores[k] < Threshold + Delta

IsLow(k) == scores[k] < Threshold

\* The difference is one of floating-point numbers: when it is exactly the
\* delta, the comparison goes either way (0.85 - 0.80 <= 0.05 < 0.90 - 0.85).
MayBeTooClose(k, m) == scores[k] - scores[m] <= Delta
MayBeClear(k, m) == scores[k] - scores[m] >= Delta /\ scores[k] # scores[m]

-----------------------------------------------------------------------------
MatchInit ==
    /\ context \in Context
    /\ answered = 0
    /\ results = <<>>
    /\ scores = <<>>
    /\ outcome = "searching"
    /\ chosen = Nothing

\* What one search may find, in the provider's order.
Found == [similarity : Similarity, year : Year \cup {NoYear}, popularity : Popularity]
Answer == UNION {[1..n -> Found] : n \in 0..PageSize}

\* Episodes are looked for among the series first.
ShapeSearched == IF context.evidence = (answered = 0) THEN "series" ELSE "film"

SearchAnswered(a) ==
    /\ outcome = "searching" /\ answered < 2
    /\ answered' = answered + 1
    /\ results' = results \o
          [k \in DOMAIN a |-> [shape |-> ShapeSearched, similarity |-> a[k].similarity, year |-> a[k].year,
                               popularity |-> a[k].popularity, rank |-> k]]
    /\ UNCHANGED <<context, scores, outcome, chosen>>

\* A search fails or times out: the results of the other one are dropped.
SearchFails ==
    /\ outcome = "searching" /\ answered < 2
    /\ outcome' = "ingestion_failed"
    /\ UNCHANGED <<context, answered, results, scores, chosen>>

ScoreCandidates ==
    /\ outcome = "searching" /\ answered = 2
    /\ scores' = [k \in DOMAIN results |-> Confidence(context, results[k])]
    /\ outcome' = "scored"
    /\ UNCHANGED <<context, answered, results, chosen>>

\* The end of select_best_candidate.
Decide(o, k) ==
    /\ outcome = "scored"
    /\ outcome' = o
    /\ chosen' = k
    /\ UNCHANGED <<context, answered, results, scores>>

NoMatch == results = <<>> /\ Decide("provider_no_match", Nothing)

LowConfidence ==
    \E k \in DOMAIN scores : IsBest(k) /\ IsLow(k) /\ Decide("provider_low_confidence", Nothing)

Ambiguous ==
    \E k, m \in DOMAIN scores :
        /\ IsBest(k) /\ ~IsLow(k)
        /\ IsSecond(m, k) /\ MayBeTooClose(k, m)
        /\ Decide("provider_ambiguous_match", Nothing)

Select ==
    \E k \in DOMAIN scores :
        /\ IsBest(k) /\ ~IsLow(k)
        /\ Len(scores) = 1 \/ \E m \in DOMAIN scores : IsSecond(m, k) /\ MayBeClear(k, m)
        /\ Decide("selected", k)

MatchNext ==
    \/ \E a \in Answer : SearchAnswered(a)
    \/ SearchFails
    \/ ScoreCandidates
    \/ NoMatch \/ LowConfidence \/ Ambiguous \/ Select

MatchSpec == MatchInit /\ [][MatchNext]_matchVars

-----------------------------------------------------------------------------
(* Properties *)

\* A result is selected only when it is confident enough and leads every other
\* result by the delta, whatever the order of the answers; the code compares it
\* with one other result only.
SelectionIsClear ==
    outcome = "selected" =>
        /\ chosen \in DOMAIN results
        /\ scores[chosen] >= Threshold
        /\ \A m \in DOMAIN results \ {chosen} :
              scores[chosen] >= scores[m] + Delta /\ scores[chosen] # scores[m]

\* The issue that is recorded for the operator is true of the whole answer, of
\* which the code looks at the first two results after sorting.
IssueIsTrue ==
    /\ outcome = "provider_no_match" => results = <<>>
    /\ outcome = "provider_low_confidence" =>
          results # <<>> /\ \A k \in DOMAIN results : scores[k] < Threshold
    /\ outcome = "provider_ambiguous_match" =>
          \E k, m \in DOMAIN results :
              /\ k # m
              /\ scores[k] >= Threshold /\ scores[k] - scores[m] <= Delta
              /\ \A n \in DOMAIN results : scores[n] <= scores[k]

\* In a library of series, a folder whose files name episodes is never taken
\* for a film.  (In the other libraries a film with the right title can be.)
EpisodesAreSeries ==
    outcome = "selected" /\ context.evidence /\ context.category = "series" =>
        results[chosen].shape = "series"
=============================================================================
