---------------------------- MODULE CatalogData ----------------------------
(***************************************************************************)
(* The rows that one ingest writes into the catalog, as a function of what *)
(* the provider says of an entry and of what is in the folder              *)
(* (MetadataIngester._upsert_database, app/models.py, ImageStore).         *)
(*                                                                         *)
(* A row is a key and a value.  The key is what a unique constraint of the *)
(* schema makes unique, the value the columns that refer to other rows.    *)
(* Titles, dates, sizes and file names are left out.                       *)
(*                                                                         *)
(* A node is a place in the tree of a film or series: <<>> is the root,    *)
(* <<s>> a season, <<s, n>> an episode.  A film is a root only.            *)
(***************************************************************************)
EXTENDS Integers, Sequences

CONSTANTS
    Entry,       \* entries of the provider: a name, an identifier and a shape
    Alias,       \* normalised aliases
    Detail,      \* what the provider may say of an entry
    Folder,      \* media folders
    Video,       \* the parsed video files of each folder: path is its place in sorted order
    Artwork,     \* the local artwork of each folder, with its place likewise
    Candidate,   \* the normalised candidate title of each folder
    Preference   \* artwork.preference

NoAlias == "none"

\* The numbers of a file may both be missing, or the episode only.
Node == {n \in Seq(Nat) : Len(n) <= 2}

\* original is NoAlias if the code adds none: it is absent or is the title.
DetailType == [entry : Entry, nodes : SUBSET Node, title : Alias,
               original : Alias \cup {NoAlias}, images : SUBSET Node]

\* Every season and episode comes with those above it.
ASSUME DetailAssumption ==
    \A d \in Detail :
        /\ d \in DetailType
        /\ <<>> \in d.nodes /\ d.images \subseteq d.nodes
        /\ \A n \in d.nodes \ {<<>>} : SubSeq(n, 1, Len(n) - 1) \in d.nodes

\* The numbers of a video file are parsed from its name and, unless it is the
\* folder itself, from that of the directory above it.  A folder may lie in
\* another one: they have videos in common.
ASSUME FolderAssumption ==
    /\ \A f \in Folder :
        /\ \A v \in Video[f] : v.node \in Node /\ v.path \in Nat
        /\ \A v, w \in Video[f] : v.path = w.path => v.node = w.node
        /\ \A a \in Artwork[f] : a.node \in Node /\ a.path \in Nat \ {0}
        /\ Candidate[f] \in Alias
    /\ Preference \in {"prefer_local", "prefer_provider", "provider_only", "local_only"}

\* turn tells apart the rows of one ingest that have one key: the last one counts.
RowInTurn(key, value, turn) == [key |-> key, value |-> value, turn |-> turn]
Row(key, value) == RowInTurn(key, value, 0)

Last(rows) == {r \in rows : \A q \in rows : q.key = r.key => q.turn <= r.turn}

\* The table that a set of rows makes.
Table(rows) ==
    LET last == Last(rows)
    IN [k \in {r.key : r \in last} |-> (CHOOSE r \in last : r.key = k).value]

\* What two tables hold together where the rows of the first take precedence.
Over(first, second) ==
    [k \in DOMAIN first \cup DOMAIN second |-> IF k \in DOMAIN first THEN first[k] ELSE second[k]]

\* The entity at node n of the tree with the given root.
EntityAt(root, n) == <<root>> \o n

-----------------------------------------------------------------------------
(* The legacy tables. *)

ItemKey(e) == <<"media_items", e>>
LegacyFileKey(path) == <<"media_files", path>>
ImageKey(stored) == <<"media_images", stored>>

\* Where an image of the entry is stored: ImageStore.
Stored(source, e, n, slot) == <<source, e, n, slot>>

\* Seasons have a poster, episodes a still if the folder has their file.
Images(d, f) ==
    IF Preference = "local_only" THEN {}
    ELSE {n \in d.images : Len(n) < 2 \/ \E v \in Video[f] : v.node = n}

ItemRow(d) == Row(ItemKey(d.entry), "fetched")

LegacyFileRows(d, videos) == {Row(LegacyFileKey(v.path), d.entry) : v \in videos}

LegacyImageRows(d, f) ==
    {Row(ImageKey(Stored("tmdb", d.entry, n, "image")), d.entry) : n \in Images(d, f)}

LegacyRows(d, f) == LegacyFileRows(d, Video[f]) \cup LegacyImageRows(d, f)

-----------------------------------------------------------------------------
(* The canonical tables. *)

EntityKey(x) == <<"media_entity", x>>
IdentityKey(e, n) == <<"provider_identity", e, n>>
AliasKey(x, alias, source) == <<"entity_alias", x, alias, source>>
FileKey(path) == <<"media_file", path>>
AssetKey(stored) == <<"artwork_asset", stored>>
DocumentKey(x) == <<"search_document", x>>

EntityRow(n, root) == Row(EntityKey(EntityAt(root, n)), "fetched")

IdentityRow(d, n, root) == Row(IdentityKey(d.entry, n), EntityAt(root, n))

\* The original title may have the same normalised alias as the title.
AliasRows(d, f, root) ==
    {Row(AliasKey(<<root>>, d.title, "provider"), "primary"),
     Row(AliasKey(<<root>>, Candidate[f], "parser"), "other")}
    \cup {RowInTurn(AliasKey(<<root>>, a, "provider"), "other", 1) : a \in {d.original} \ {NoAlias}}

\* Mutant of PlayableNode: the episode is not looked up.
PlayableNodeUnchecked(d, n) == IF Len(n) = 2 THEN n ELSE <<>>

\* A season or an episode that is missing or 0 is false.
PlayableNode(d, n) ==
    IF Len(n) = 2 /\ 0 \notin {n[1], n[2]} /\ n \in d.nodes THEN n ELSE <<>>

FileRows(d, f, root) ==
    {Row(FileKey(v.path), EntityAt(root, PlayableNode(d, v.node))) : v \in Video[f]}

\* The code of an episode is read back from the path if it has six characters.
ArtworkNode(d, n) ==
    IF n \in d.nodes /\ (Len(n) = 2 => n[1] < 100 /\ n[2] < 100) THEN n ELSE <<>>

ProviderAssetRows(d, f, root) ==
    {Row(AssetKey(Stored("tmdb", d.entry, n, "image")),
         [entity |-> EntityAt(root, ArtworkNode(d, n)), original |-> 0]) : n \in Images(d, f)}

LocalAssetRows(d, f, root) ==
    IF Preference = "provider_only" THEN {}
    ELSE {RowInTurn(AssetKey(Stored("local_file", d.entry, a.node, a.slot)),
                    [entity |-> EntityAt(root, IF a.node \in d.nodes THEN a.node ELSE <<>>),
                     original |-> a.path], a.path) : a \in Artwork[f]}

\* What is added to the session after its last flush: files, and what is known by
\* the entry or its root.
EntryRows(d, f, root) ==
    AliasRows(d, f, root) \cup ProviderAssetRows(d, f, root) \cup LocalAssetRows(d, f, root)

UnflushedRows(d, f, root) == FileRows(d, f, root) \cup EntryRows(d, f, root)

=============================================================================
