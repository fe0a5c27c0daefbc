------------------------------ MODULE Backfill ------------------------------
(***************************************************************************)
(* The databases the service may find when it first starts on the          *)
(* canonical schema: what migration 0002 makes of the legacy tables, which *)
(* an earlier release has filled (src/alembic/versions).                   *)
(*                                                                         *)
(* An earlier release is known by what the provider said at the last       *)
(* ingest of each folder, and by the files whose row that ingest was the   *)
(* last to write.                                                          *)
(***************************************************************************)
EXTENDS CatalogData

CONSTANTS
    Legacy,   \* what earlier releases may have ingested before the migration
    Series    \* the entries that are series

\* Folders of one entry share its row, and the last ingest wrote its titles.  A file
\* that two folders share has one row.
ASSUME LegacyAssumption ==
    /\ Series \subseteq Entry
    /\ \A l \in Legacy :
        /\ DOMAIN l.said \subseteq Folder
        /\ \A f \in DOMAIN l.said : l.said[f] \in Detail /\ l.files[f] \subseteq Video[f]
        /\ \A f, g \in DOMAIN l.said :
            /\ l.said[f].entry = l.said[g].entry =>
                l.said[f].title = l.said[g].title /\ l.said[f].original = l.said[g].original
            /\ f # g => \A v \in l.files[f], w \in l.files[g] : v.path # w.path

\* Two aliases that are one when normalised violate uq_entity_alias: the
\* migration fails, and with it the schema check of every later start.
Migrates(l) == \A f \in DOMAIN l.said : l.said[f].original # l.said[f].title

LegacyTables(l) ==
    UNION {{ItemRow(l.said[f])} \cup LegacyFileRows(l.said[f], l.files[f])
           \cup LegacyImageRows(l.said[f], f) : f \in DOMAIN l.said}

\* A number 0 is not NULL, so specials are episodes here.
BackfilledNode(d, n) == IF d.entry \in Series /\ Len(n) = 2 THEN n ELSE <<>>

\* The root of an item, the seasons and episodes of its files.
BackfilledEntities(d, videos, root) ==
    {Row(EntityKey(EntityAt(root, n)), "backfilled") :
        n \in {<<>>} \cup UNION {{SubSeq(v.node, 1, k) : k \in 1..Len(v.node)} :
                                 v \in {v \in videos : d.entry \in Series}}}

\* Only roots get an identity, and images only belong to roots.
BackfilledRows(d, f, videos, root) ==
    {Row(IdentityKey(d.entry, <<>>), <<root>>),
     Row(AliasKey(<<root>>, d.title, "legacy"), "primary")}
    \cup {Row(AliasKey(<<root>>, a, "legacy"), "other") : a \in {d.original} \ {NoAlias}}
    \cup {Row(FileKey(v.path), EntityAt(root, BackfilledNode(d, v.node))) : v \in videos}
    \cup {Row(AssetKey(Stored("tmdb", d.entry, n, "image")), [entity |-> <<root>>, original |-> 0]) :
            n \in Images(d, f)}

\* The tables after the migration, with the given root for each entry.
Migrated(l, rootOf) ==
    Table(LegacyTables(l) \cup
          UNION {LET d == l.said[f]
                     root == rootOf[l.said[f].entry]
                 IN BackfilledEntities(d, l.files[f], root) \cup BackfilledRows(d, f, l.files[f], root) :
                 f \in DOMAIN l.said})
=============================================================================
