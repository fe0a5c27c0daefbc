------------------------------ MODULE Artwork ------------------------------
(***************************************************************************)
(* The artwork of one film or series: the images an ingest downloads, the  *)
(* local artwork it copies, the files of ImageStore they end up in, the    *)
(* rows of metadata.artwork_asset that refer to these files, and what the  *)
(* views of migration 0006 show of them.                                   *)
(*                                                                         *)
(* Files are written before the transaction of the ingest and belong to    *)
(* no transaction: an ingest that fails leaves them, whole or in part.     *)
(* Rows are rewritten by every ingest that lists their file and are never  *)
(* deleted.  Folders of one entry share its files, and people add and      *)
(* withdraw local artwork while the ingest awaits the provider.            *)
(*                                                                         *)
(* An image or a local file is a record: place is its place in the order   *)
(* they are handled in, path where it is stored.                           *)
(***************************************************************************)
EXTENDS Integers, FiniteSets

CONSTANTS
    Node,         \* the root, and seasons and episodes that images may be of
    Root,
    Readable,     \* the nodes that can be read back from where an image is stored
    Image,        \* the provider's images
    File,         \* the local artwork of all folders
    Detail,       \* what the provider may list: [nodes, images]
    Videos,       \* Videos[f]: the episodes of which folder f has a file
    MaxIngests    \* bound: ingests ever committed

\* Stored paths, which give away the source, the role and the node.  A local file
\* keeps its extension but not its name.
ImagePath(role, node) == <<"tmdb", role, node, "jpg">>
LocalPath(role, node, ext) == <<"local_file", role, node, ext>>

LocalRole ==
    {"poster", "backdrop", "landscape", "banner", "logo", "season_poster", "episode_still"}

Source(k) == k[1]
Role(k) == k[2]
NodeOf(k) == k[3]

ASSUME DetailAssumption ==
    \A d \in Detail : Root \in d.nodes /\ d.nodes \subseteq Node /\ d.images \subseteq Image

\* The code of an episode is read back if it has six characters: not S01E100.
ASSUME ImageAssumption ==
    /\ Root \in Readable
    /\ \A m \in Image : \E role \in {"poster", "backdrop", "still"}, n \in Node :
        m.path = ImagePath(role, n) /\ (role # "still" => n \in Readable)

ASSUME FileAssumption ==
    \A a \in File : \E role \in LocalRole, n \in Node, ext \in {"jpg", "jpeg", "png", "webp"} :
        a.path = LocalPath(role, n, ext)

ASSUME BoundAssumption == MaxIngests \in Nat

VARIABLES
    preference,   \* artwork.preference, read when the process starts
    present,      \* the local artwork that is in its folder
    store,        \* what is in each stored file
    rows,         \* artwork_asset: a row for some stored paths
    phase,        \* where the ingest is
    work,         \* its folder, the provider's answer and the artwork it has found
    left,         \* the images it has still to download, or the files to copy
    ingests       \* the ingests that have committed

vars == <<preference, present, store, rows, phase, work, left, ingests>>

Folder == DOMAIN Videos
ArtworkPreference == {"prefer_local", "prefer_provider", "provider_only", "local_only"}

Path == {x.path : x \in Image \cup File}

\* The entities an ingest may have made.
Entity == {Root} \cup UNION {d.nodes : d \in Detail}

Idle == "idle"
NoWork == [folder |-> "none", detail |-> "none", found |-> {}]

ArtworkTypeOK ==
    /\ preference \in ArtworkPreference
    /\ present \subseteq File
    /\ store \in [Path -> {"absent", "torn", "whole"}]
    /\ DOMAIN rows \subseteq Path
    /\ \A k \in DOMAIN rows : rows[k].entity \in Entity /\ rows[k].preferred \in BOOLEAN
    /\ phase \in {Idle, "download", "copy"}
    /\ left \subseteq Image \cup File
    /\ ingests \in 0..MaxIngests

-----------------------------------------------------------------------------
(* What an ingest downloads and copies. *)

\* Stills are downloaded for episodes the folder has.
Listed(d, f) ==
    {m \in d.images : preference # "local_only" /\ (Role(m.path) = "still" => NodeOf(m.path) \in Videos[f])}

Discovered(f) == {a \in present : a.folder = f}

\* What the ingest lists, when it has downloaded and copied it.
Images == Listed(work.detail, work.folder)
Copied == {a \in work.found : preference # "provider_only"}
Written == {x.path : x \in Images \cup Copied}

First == {x \in left : \A y \in left : x.place <= y.place}

Begin ==
    /\ phase = Idle
    /\ ingests < MaxIngests
    /\ \E f \in Folder, d \in Detail :
        /\ work' = [folder |-> f, detail |-> d, found |-> Discovered(f)]
        /\ left' = Listed(d, f)
    /\ phase' = "download"
    /\ UNCHANGED <<preference, present, store, rows, ingests>>

\* Mutant of Download: an image that has a file is not downloaded again.
DownloadMissing(k) == store' = [store EXCEPT ![k] = IF @ = "absent" THEN "whole" ELSE @]

Download(k) == store' = [store EXCEPT ![k] = "whole"]

DownloadImage ==
    /\ phase = "download"
    /\ \E m \in First : Download(m.path) /\ left' = left \ {m}
    /\ UNCHANGED <<preference, present, rows, phase, work, ingests>>

ImagesDownloaded ==
    /\ phase = "download"
    /\ left = {}
    /\ phase' = "copy"
    /\ left' = Copied
    /\ UNCHANGED <<preference, present, store, rows, work, ingests>>

\* Mutant of Copy: a file that is gone is passed over.
CopyIfPresent(a) ==
    store' = [store EXCEPT ![a.path] = IF @ = "absent" /\ a \in present THEN "whole" ELSE @]

\* A file that is stored is left alone, whoever stored it and whatever is in it.
Copy(a) ==
    \/ store[a.path] # "absent" /\ UNCHANGED store
    \/ store[a.path] = "absent" /\ a \in present /\ store' = [store EXCEPT ![a.path] = "whole"]

CopyFile ==
    /\ phase = "copy"
    /\ \E a \in First : Copy(a) /\ left' = left \ {a}
    /\ UNCHANGED <<preference, present, rows, phase, work, ingests>>

-----------------------------------------------------------------------------
(* The rows of an ingest, as its commit leaves them. *)

\* An image is looked up by its path, a local file by its numbers.
NodeFound(k) == IF Source(k) = "tmdb" /\ NodeOf(k) \notin Readable THEN Root ELSE NodeOf(k)

\* Mutant of EntityOf: the entity is looked up without a default.
EntityUnchecked(k) == NodeFound(k)

\* Mutant of EntityOf: a row that exists keeps its entity.
EntityKept(k) == IF k \in DOMAIN rows THEN rows[k].entity ELSE NodeFound(k)

EntityOf(k) == IF NodeFound(k) \in work.detail.nodes THEN NodeFound(k) ELSE Root

\* fallback_rank counts the images, or the files, that come before the last one
\* with the path.
Rank(listed, k) ==
    Cardinality({x \in listed : \E y \in listed : y.path = k /\ x.place < y.place})

ProviderPreferred(k) ==
    /\ preference \in {"prefer_provider", "provider_only"}
    /\ Rank(Images, k) = 0 \/ Role(k) \in {"poster", "backdrop"}

LocalPreferred == preference \in {"prefer_local", "local_only"}

\* Mutant of Preferred: a row that exists keeps its flag.
PreferredOnce(k) ==
    IF k \in DOMAIN rows THEN rows[k].preferred
    ELSE IF Source(k) = "tmdb" THEN ProviderPreferred(k) ELSE LocalPreferred

Preferred(k) == IF Source(k) = "tmdb" THEN ProviderPreferred(k) ELSE LocalPreferred

\* created_at is the time of the transaction that made the row.
Asset(k) ==
    [entity |-> EntityOf(k),
     preferred |-> Preferred(k),
     rank |-> Rank(IF Source(k) = "tmdb" THEN Images ELSE Copied, k),
     created |-> IF k \in DOMAIN rows THEN rows[k].created ELSE ingests + 1]

\* Two new rows for one path: the commit fails.
Collides == \E a, b \in Copied : a # b /\ a.path = b.path /\ a.path \notin DOMAIN rows

EndIngest == phase' = Idle /\ work' = NoWork /\ left' = {}

Commit ==
    /\ phase = "copy"
    /\ left = {}
    /\ ~Collides
    /\ rows' = [k \in Written \cup DOMAIN rows |-> IF k \in Written THEN Asset(k) ELSE rows[k]]
    /\ ingests' = ingests + 1
    /\ EndIngest
    /\ UNCHANGED <<preference, present, store>>

\* The file that is being written may be left in part: a download truncates what
\* there was, a copy makes a new file.
MayBeTorn ==
    {x.path : x \in {x \in First : phase = "download" \/ (store[x.path] = "absent" /\ x \in present)}}

\* The provider, the disk or the database fails, a file to copy is gone, or the
\* process dies.
Interrupt ==
    /\ phase # Idle
    /\ UNCHANGED store \/ \E k \in MayBeTorn : store' = [store EXCEPT ![k] = "torn"]
    /\ EndIngest
    /\ UNCHANGED <<preference, present, rows, ingests>>

-----------------------------------------------------------------------------
(* Outside of the ingest. *)

\* The process is restarted with another configuration.
Reconfigure ==
    /\ phase = Idle
    /\ preference' \in ArtworkPreference \ {preference}
    /\ UNCHANGED <<present, store, rows, phase, work, left, ingests>>

EditFolder ==
    /\ \E a \in File : present' = IF a \in present THEN present \ {a} ELSE present \cup {a}
    /\ UNCHANGED <<preference, store, rows, phase, work, left, ingests>>

\* Migration 0002 gives all images of an entry to its root, alike.
Backfilled(legacy) ==
    [k \in legacy |-> [entity |-> Root, preferred |-> TRUE, rank |-> 0, created |-> 0]]

\* A new database, or one in which every image has a row.
Init ==
    /\ preference \in ArtworkPreference
    /\ present = File
    /\ \E legacy \in {{}, {m.path : m \in Image}} : rows = Backfilled(legacy)
    /\ store = [k \in Path |-> IF k \in DOMAIN rows THEN "whole" ELSE "absent"]
    /\ phase = Idle /\ work = NoWork /\ left = {}
    /\ ingests = 0

Next ==
    \/ Begin \/ DownloadImage \/ ImagesDownloaded \/ CopyFile \/ Commit \/ Interrupt
    \/ Reconfigure \/ EditFolder

Spec == Init /\ [][Next]_vars

-----------------------------------------------------------------------------
(* The views. *)

\* catalog_card_view, media_detail_view and series_episode_view.
Slot == {{"poster", "season_poster"}, {"backdrop", "landscape"}, {"backdrop"}, {"banner"}, {"episode_still"}}

Before(a, b) ==
    \/ a.preferred /\ ~b.preferred
    \/ a.preferred = b.preferred /\ a.rank < b.rank
    \/ a.preferred = b.preferred /\ a.rank = b.rank /\ a.created < b.created

\* Rows that are alike in all three may come in any order.
Candidates(table, n, slot) == {k \in DOMAIN table : table[k].entity = n /\ Role(k) \in slot}

Shown(table, n, slot) ==
    {k \in Candidates(table, n, slot) : \A j \in Candidates(table, n, slot) : ~Before(table[j], table[k])}

-----------------------------------------------------------------------------
(* Properties. *)

Committing == phase = "copy" /\ ingests' # ingests

\* Whatever a view shows is a file of the image store: no interrupted ingest leaves
\* a row without one.
AssetsAreStored == \A k \in DOMAIN rows : store[k] # "absent"

\* The images an ingest commits are whole again, although earlier ingests may have
\* been interrupted in the middle of a file; only a local copy stays torn, since
\* copy_file takes a file that exists for a copy.
CommittedArtworkIsWhole ==
    [][Committing => \A k \in Written : store[k] = "whole" \/ Source(k) = "local_file"]_vars

PreferredSource == IF preference \in {"prefer_local", "local_only"} THEN "local_file" ELSE "tmdb"

\* Where the preferred source has an image for a view, an ingest ends with the view
\* showing one of that source, or one this ingest did not list and left as it was:
\* withdrawn artwork, other folders and other preferences are never cleared away.
PreferenceIsHonoured ==
    [][Committing =>
        \A n \in Node, slot \in Slot :
            (\E k \in Written \cap Candidates(rows', n, slot) : Source(k) = PreferredSource)
                => \A k \in Shown(rows', n, slot) : Source(k) = PreferredSource \/ k \notin Written]_vars

\* After an ingest the posters it lists are shown for what they are posters of, which
\* the migration had mixed up: one of a season that the provider does not know is
\* shown for the series, and for nothing else.
PosterIsOfItsEntity ==
    [][Committing =>
        \A n \in Node : \A k \in Shown(rows', n, {"poster", "season_poster"}) \cap Written :
            NodeOf(k) = n \/ (n = Root /\ NodeOf(k) \notin work.detail.nodes)]_vars
=============================================================================
