--------------------------- MODULE MCCatalogUpsert ---------------------------
(* Instances of CatalogUpsert for TLC. *)
EXTENDS CatalogUpsert, TLC

CONSTANTS show, film, shelf, season, p1, p2

MCEntry == {show, film}
MCAlias == {"title", "foreign", "folder"}

Says(e, nodes, original) ==
    [entry |-> e, nodes |-> nodes, title |-> "title", original |-> original, images |-> nodes \ {<<1>>}]

\* A show with a season and an episode, and a film with an original title.
MCDetail ==
    {Says(show, {<<>>, <<1>>, <<1, 1>>}, NoAlias),
     Says(film, {<<>>}, "foreign")}

\* For one process also the show before its season, when its original title was
\* its title in other letters.
MCDetails == MCDetail \cup {Says(show, {<<>>}, "title")}

File(path, node) == [path |-> path, node |-> node]
Picture(path, node, slot) == [path |-> path, node |-> node, slot |-> slot]

\* The shelf has a special and the directory of a season, which a scan of the shelf
\* with path= takes for a folder of its own.
MCFolder == {shelf, season}
MCVideo ==
    (shelf :> {File(2, <<1, 1>>), File(1, <<0, 1>>)})
    @@ (season :> {File(2, <<1, 1>>)})
MCArtwork ==
    (shelf :> {Picture(2, <<1>>, "poster")})
    @@ (season :> {Picture(2, <<1>>, "poster")})

\* A folder with two files for one poster.
TwoPosters == [f \in MCFolder |-> {Picture(1, <<>>, "poster"), Picture(2, <<>>, "poster")}]
MCCandidate == [f \in MCFolder |-> "folder"]

MCSeries == {show}
Release(said, files) == [said |-> said, files |-> files]

\* The shelf was taken for the show before its season was there.
MCLegacy ==
    {Release(shelf :> Says(show, {<<>>, <<1>>, <<1, 1>>}, NoAlias), shelf :> {File(1, <<0, 1>>)})}

\* A new database, and one that cannot be migrated.
MCReleases ==
    {Release(<<>>, <<>>), Release(season :> Says(show, {<<>>}, "title"), season :> MCVideo[season])}

ProcessSymmetry == Permutations({p1, p2})
=============================================================================
