------------------------- MODULE MCProviderMatching -------------------------
(* Instances of ProviderMatching for TLC. *)
EXTENDS ProviderMatching

\* The values of config.py: 0.72 and 0.05.
ShippedThreshold == 7200
ShippedDelta == 500

\* An exact title and one that is a little off, years that agree, are next to
\* each other or unknown, and a popularity beyond the limit of its score.
SomeSimilarities == {90, 100}
SomeYears == {2000, 2001}
SomePopularities == {400}
=============================================================================
