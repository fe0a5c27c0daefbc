----------------------------- MODULE MCArtwork -----------------------------
(* Instances of Artwork for TLC. *)
EXTENDS Artwork, TLC

CONSTANTS series, season, episode, specials, shelf, box

Remote(place, role, node) == [place |-> place, path |-> ImagePath(role, node)]
Local(place, folder, role, node) == [place |-> place, folder |-> folder, path |-> LocalPath(role, node, "jpg")]

MCImage == {Remote(1, "poster", series), Remote(2, "poster", season), Remote(3, "still", episode)}

\* The shelf has two posters of the specials, which the provider does not have,
\* stored under one path; the box has none.
MCFile == {Local(place, shelf, "season_poster", specials) : place \in {1, 2}}

\* The provider learns of the series' own poster.
MCDetail ==
    {[nodes |-> {series, season, episode}, images |-> {m \in MCImage : m.place >= first}] : first \in {1, 2}}

MCVideos == (shelf :> {episode}) @@ (box :> {})
=============================================================================
