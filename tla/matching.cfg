\* Every pair of answers of up to two results, for every kind of folder.
SPECIFICATION MatchSpec
CONSTANTS
    Similarity <- SomeSimilarities
    Year <- SomeYears
    Popularity <- SomePopularities
    PageSize = 2
    Threshold <- ShippedThreshold
    Delta <- ShippedDelta
CHECK_DEADLOCK FALSE
INVARIANTS
    MatchTypeOK
    SelectionIsClear
    IssueIsTrue
    EpisodesAreSeries
