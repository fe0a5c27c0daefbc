------------------------- MODULE CatalogFileProofs -------------------------
(***************************************************************************)
(* Files and images, in the legacy layout and the canonical one, for any   *)
(* number of processes, provider answers, folders and migrated databases.  *)
(*                                                                         *)
(* A transaction flushes its legacy rows with the root and keeps their     *)
(* counterparts to the commit, and does not write a row that it finds as   *)
(* it wants it.  Nobody else writes an image of its entry in between.  A   *)
(* file somebody else may write, if the folders have it in common, and     *)
(* then it is contested (Kept): it still has a row in both layouts.        *)
(***************************************************************************)
EXTENDS CatalogEntityProofs

Filed(key) == key[1] \in {"media_files", "media_images", "media_file", "artwork_asset"}

Holds(table, r) == r.key \in DOMAIN table /\ table[r.key] = r.value

IsFile(key) == key[1] \in {"media_files", "media_file"}

LegacyOf(i) ==
    LegacyFileRows(work[i].detail, Video[work[i].folder])
    \cup LegacyImageRows(work[i].detail, work[i].folder)
UnflushedOf(i) == UnflushedRows(work[i].detail, work[i].folder, root[i])

\* The rows of the two layouts that have to agree.
CanonicalOf(i) ==
    FileRows(work[i].detail, work[i].folder, root[i])
    \cup ProviderAssetRows(work[i].detail, work[i].folder, root[i])

FilesShaped == \A k \in DOMAIN db : Filed(k) => k = <<k[1], k[2]>>

HasRoot(x, e) == IdentityKey(e, <<>>) \in DOMAIN db /\ x[1] = RootOf(e, db)

\* Every row of a file or image has its counterpart and what it refers to, and the
\* counterpart of an image is of the same entry.
DbFiles ==
    \A k \in DOMAIN db :
        /\ k[1] = "media_files" =>
            /\ ItemKey(db[k]) \in DOMAIN db
            /\ FileKey(k[2]) \in DOMAIN db
        /\ k[1] = "media_images" =>
            /\ k[2][1] = "tmdb"
            /\ AssetKey(k[2]) \in DOMAIN db /\ HasRoot(db[AssetKey(k[2])].entity, db[k])
        /\ k[1] = "media_file" => LegacyFileKey(k[2]) \in DOMAIN db /\ HasEntity(db[k], db)
        /\ k[1] = "artwork_asset" =>
            /\ HasEntity(db[k].entity, db)
            /\ k[2][1] = "tmdb" => ImageKey(k[2]) \in DOMAIN db

RootsTyped ==
    /\ \A k \in Identities(db) : RootOf(k[2], db) \in RootId
    /\ \A i \in Process : root[i] \in RootId \cup {NoRoot} /\ (Working(i) => root[i] \in RootId)

FoldersTyped == \A i \in Process : phase[i] # Idle => work[i].folder \in Folder

\* Files are contested in transactions only, and are in the catalog.
ContestedFiles ==
    /\ contested = [i \in Process |-> contested[i]]
    /\ \A i \in Process :
        /\ ~Working(i) => contested[i] = {}
        /\ \A p \in contested[i] : FileKey(p) \in DOMAIN db

\* What has become of a row that transaction i has found as it wants it.
Kept(i, r) ==
    \/ Holds(db, r)
    \/ IsFile(r.key) /\ r.key \in DOMAIN db /\ r.key[2] \in contested[i]

\* A transaction flushes its legacy rows with the root and keeps their
\* counterparts to the end; rows that it does not write it has found as it wants
\* them, or is still to look up.
OwnFiles(i) ==
    /\ \A k \in DOMAIN own[i] : Filed(k) =>
        /\ phase[i] \notin {Idle, "flush_item", "flush_root"}
        /\ \E r \in LegacyOf(i) : r.key = k /\ own[i][k] = r.value
    /\ \A s \in session[i] : Filed(s.row.key) =>
        \/ phase[i] = "flush_root" /\ s.row \in LegacyOf(i)
        \/ phase[i] \in {"search", "commit"} /\ s.row \in UnflushedOf(i)
    /\ phase[i] = "flush_root" =>
        \A r \in LegacyOf(i) : r \in Written(i) \/ Kept(i, r) \/ r \in FilesToSelect(i)
    /\ phase[i] \notin {Idle, "flush_item", "flush_root"} =>
        \A r \in LegacyOf(i) : Holds(own[i], r) \/ Kept(i, r)
    /\ phase[i] \in {"search", "commit"} =>
        \A r \in CanonicalOf(i) : r \in Written(i) \/ Kept(i, r) \/ r \in FilesToSelect(i)

FilesInv ==
    /\ FilesShaped
    /\ DbFiles
    /\ RootsTyped
    /\ FoldersTyped
    /\ ContestedFiles
    /\ \A i \in Process : OwnFiles(i)

LEMMA FiledKeys ==
    ASSUME NEW p
    PROVE  /\ LegacyFileKey(p)[1] = "media_files" /\ LegacyFileKey(p)[2] = p
           /\ ImageKey(p)[1] = "media_images" /\ ImageKey(p)[2] = p
           /\ FileKey(p)[1] = "media_file" /\ FileKey(p)[2] = p
           /\ AssetKey(p)[1] = "artwork_asset" /\ AssetKey(p)[2] = p
  BY DEF LegacyFileKey, ImageKey, FileKey, AssetKey

LEMMA FiledKinds ==
    ASSUME NEW k, Filed(k), k = <<k[1], k[2]>>
    PROVE  \/ k = LegacyFileKey(k[2]) \/ k = ImageKey(k[2]) \/ k = FileKey(k[2]) \/ k = AssetKey(k[2])
  BY DEF Filed, LegacyFileKey, ImageKey, FileKey, AssetKey

\* The invariant says what CatalogTypeOK and FilesAgree say.
LEMMA FilesInvImplies ==
    ASSUME LockInv, TreeInv, EntityInv, FilesInv PROVE CatalogTypeOK /\ FilesAgree
<1>1. /\ \A p \in LegacyFiles(db) : LegacyFileKey(p) \in DOMAIN db
      /\ \A p \in Files(db) : FileKey(p) \in DOMAIN db
      /\ \A p \in LegacyImages(db) : ImageKey(p) \in DOMAIN db
  BY DEF LegacyFiles, Files, LegacyImages, FilesInv, FilesShaped, Filed,
         LegacyFileKey, FileKey, ImageKey
<1>2. ASSUME NEW p \in LegacyFiles(db)
      PROVE  ItemKey(db[LegacyFileKey(p)]) \in DOMAIN db /\ FileKey(p) \in DOMAIN db
  BY <1>1, FiledKeys DEF FilesInv, DbFiles
<1>3. ASSUME NEW p \in LegacyImages(db)
      PROVE  /\ p[1] = "tmdb" /\ AssetKey(p) \in DOMAIN db
             /\ HasRoot(db[AssetKey(p)].entity, db[ImageKey(p)])
  BY <1>1, FiledKeys DEF FilesInv, DbFiles
<1>4. \A x : HasEntity(x, db) => x \in Entities(db)
  BY EntityKeyParts DEF HasEntity, Entities
<1>5. \A p \in Files(db) : LegacyFileKey(p) \in DOMAIN db /\ db[FileKey(p)] \in Entities(db)
  BY <1>1, <1>4, FiledKeys DEF FilesInv, DbFiles
<1>6. \A k \in Assets(db) :
         db[k].entity \in Entities(db) /\ (k[2][1] = "tmdb" => ImageKey(k[2]) \in DOMAIN db)
  BY <1>4 DEF Assets, FilesInv, DbFiles
<1>7. Files(db) = LegacyFiles(db)
  <2>1. \A p \in Files(db) : p \in LegacyFiles(db)
    BY <1>5, FiledKeys DEF LegacyFiles
  <2>2. \A p \in LegacyFiles(db) : p \in Files(db)
    BY <1>2, FiledKeys DEF Files
  <2> QED
    BY <2>1, <2>2
<1>8. LegacyImages(db) = {k[2] : k \in {k \in Assets(db) : k[2][1] = "tmdb"}}
  <2>1. ASSUME NEW p \in LegacyImages(db) PROVE p \in {k[2] : k \in {k \in Assets(db) : k[2][1] = "tmdb"}}
    <3>1. AssetKey(p) \in Assets(db) /\ AssetKey(p)[2] = p /\ p[1] = "tmdb"
      BY <1>3, FiledKeys DEF Assets
    <3> QED
      BY <3>1
  <2>2. ASSUME NEW k \in Assets(db), k[2][1] = "tmdb" PROVE k[2] \in LegacyImages(db)
    <3>1. ImageKey(k[2]) \in DOMAIN db
      BY <1>6, <2>2
    <3> QED
      BY <3>1, FiledKeys DEF LegacyImages
  <2> QED
    BY <2>1, <2>2
<1>9. FilesAgree
  <2>1. \A p \in LegacyImages(db) :
           db[AssetKey(p)].entity[1] = db[IdentityKey(db[ImageKey(p)], <<>>)][1]
    BY <1>3 DEF HasRoot, RootOf
  <2> QED
    BY <1>7, <1>8, <2>1 DEF FilesAgree
<1>10. CatalogTypeOK
  <2>1. phase \in [Process -> Phase] /\ root \in [Process -> RootId \cup {NoRoot}]
    BY DEF LockInv, StateTyped, FilesInv, RootsTyped
  <2>2. done \in [Process -> SUBSET Node]
    BY DEF EntityInv, WorkTyped
  <2>3. \A k \in Identities(db) : db[k] \in Entities(db)
    BY <1>4 DEF EntityInv, DbEntities
  <2>4. ASSUME NEW i \in Process, NEW p \in contested[i] PROVE p \in Files(db)
    <3>1. FileKey(p) \in DOMAIN db
      BY DEF FilesInv, ContestedFiles
    <3> QED
      BY <3>1, FiledKeys DEF Files
  <2> QED
    BY <1>2, <1>5, <1>6, <2>1, <2>2, <2>3, <2>4 DEF CatalogTypeOK
<1> QED
  BY <1>9, <1>10

\* What an ingest adds of files and images.
LEMMA UnfiledRows ==
    ASSUME NEW d, NEW r, NEW n
    PROVE  /\ ~Filed(ItemRow(d).key)
           /\ ~Filed(EntityRow(n, r).key)
           /\ ~Filed(IdentityRow(d, n, r).key)
           /\ ~Filed(DocumentKey(n))
  BY DEF Filed, Row, RowInTurn, ItemRow, ItemKey, EntityRow, EntityKey, IdentityRow, IdentityKey,
         DocumentKey

LEMMA FiledLegacyFiles ==
    ASSUME NEW d, NEW videos, NEW q \in LegacyFileRows(d, videos)
    PROVE  /\ Filed(q.key) /\ q.key = <<q.key[1], q.key[2]>> /\ q.value = d.entry /\ q.turn = 0
           /\ IsFile(q.key) /\ \E v \in videos : q.key = LegacyFileKey(v.path)
  BY DEF LegacyFileRows, Row, RowInTurn, Filed, IsFile, LegacyFileKey

LEMMA FiledLegacyImages ==
    ASSUME NEW d, NEW f, NEW q \in LegacyImageRows(d, f)
    PROVE  /\ Filed(q.key) /\ q.key = <<q.key[1], q.key[2]>> /\ q.value = d.entry /\ q.turn = 0
           /\ ~IsFile(q.key)
           /\ \E n \in Images(d, f) : q.key = ImageKey(Stored("tmdb", d.entry, n, "image"))
  BY DEF LegacyImageRows, Row, RowInTurn, Filed, IsFile, ImageKey

LEMMA LegacyOfRows ==
    ASSUME NEW i, NEW q \in LegacyOf(i)
    PROVE  /\ Filed(q.key) /\ q.key = <<q.key[1], q.key[2]>> /\ q.value = EntryAt(i) /\ q.turn = 0
           /\ \/ \E v \in Video[work[i].folder] : q.key = LegacyFileKey(v.path)
              \/ \E n \in Images(work[i].detail, work[i].folder) :
                    q.key = ImageKey(Stored("tmdb", EntryAt(i), n, "image"))
<1>1. CASE q \in LegacyFileRows(work[i].detail, Video[work[i].folder])
  BY <1>1, FiledLegacyFiles DEF EntryAt
<1>2. CASE q \in LegacyImageRows(work[i].detail, work[i].folder)
  BY <1>2, FiledLegacyImages DEF EntryAt
<1> QED
  BY <1>1, <1>2 DEF LegacyOf

LEMMA FiledFiles ==
    ASSUME NEW d, NEW f, NEW r, NEW q \in FileRows(d, f, r)
    PROVE  /\ Filed(q.key) /\ q.turn = 0
           /\ \E v \in Video[f] : q.key = FileKey(v.path) /\ q.value = EntityAt(r, PlayableNode(d, v.node))
  BY DEF FileRows, Row, RowInTurn, Filed, FileKey

LEMMA FiledAssets ==
    ASSUME NEW d, NEW f, NEW r, NEW q \in ProviderAssetRows(d, f, r)
    PROVE  /\ Filed(q.key) /\ q.turn = 0
           /\ \E n \in Images(d, f) :
                /\ q.key = AssetKey(Stored("tmdb", d.entry, n, "image"))
                /\ q.value.entity = EntityAt(r, ArtworkNode(d, n))
  BY DEF ProviderAssetRows, Row, RowInTurn, Filed, AssetKey

LEMMA FiledLocalAssets ==
    ASSUME NEW d, NEW f, NEW r, NEW q \in LocalAssetRows(d, f, r)
    PROVE  /\ Filed(q.key)
           /\ \E a \in Artwork[f] :
                /\ q.key = AssetKey(Stored("local_file", d.entry, a.node, a.slot))
                /\ q.value.entity = EntityAt(r, IF a.node \in d.nodes THEN a.node ELSE <<>>)
  BY DEF LocalAssetRows, RowInTurn, Filed, AssetKey

LEMMA FiledUnflushed ==
    ASSUME NEW d, NEW f, NEW r, NEW q \in UnflushedRows(d, f, r), Filed(q.key)
    PROVE  q \in FileRows(d, f, r) \cup ProviderAssetRows(d, f, r) \cup LocalAssetRows(d, f, r)
<1>1. q \notin AliasRows(d, f, r)
  BY DEF AliasRows, AliasKey, Row, RowInTurn, Filed
<1> QED
  BY <1>1 DEF UnflushedRows, EntryRows

\* A folder has one row for each of its files.
LEMMA OneRowEach ==
    ASSUME NEW d, NEW f \in Folder, NEW x, NEW q, NEW r, q.key = r.key,
           \/ q \in LegacyFileRows(d, Video[f]) /\ r \in LegacyFileRows(d, Video[f])
           \/ q \in FileRows(d, f, x) /\ r \in FileRows(d, f, x)
    PROVE  q = r
<1>1. CASE q \in LegacyFileRows(d, Video[f]) /\ r \in LegacyFileRows(d, Video[f])
  BY <1>1 DEF LegacyFileRows, Row, RowInTurn
<1>2. CASE q \in FileRows(d, f, x) /\ r \in FileRows(d, f, x)
  <2>1. PICK v \in Video[f] : q = Row(FileKey(v.path), EntityAt(x, PlayableNode(d, v.node)))
    BY <1>2 DEF FileRows
  <2>2. PICK w \in Video[f] : r = Row(FileKey(w.path), EntityAt(x, PlayableNode(d, w.node)))
    BY <1>2 DEF FileRows
  <2>3. q.key = FileKey(v.path) /\ r.key = FileKey(w.path)
    BY <2>1, <2>2 DEF Row, RowInTurn
  <2>4. v.path = w.path
    <3>1. FileKey(v.path) = FileKey(w.path)
      BY <2>3
    <3>2. FileKey(v.path)[2] = v.path /\ FileKey(w.path)[2] = w.path
      BY FiledKeys
    <3> QED
      BY <3>1, <3>2
  <2>5. v.node = w.node
    BY <2>4, FolderAssumption
  <2> QED
    BY <2>1, <2>2, <2>4, <2>5
<1> QED
  BY <1>1, <1>2

\* The files that are still to be looked up.
LEMMA FilesLeft ==
    ASSUME NEW i
    PROVE  /\ phase[i] = "flush_root" =>
                FilesToSelect(i) = LegacyFileRows(work[i].detail, Video[work[i].folder])
                                   \ {s.row : s \in session[i]}
           /\ phase[i] = "search" =>
                FilesToSelect(i) = FileRows(work[i].detail, work[i].folder, root[i])
                                   \ {s.row : s \in session[i]}
           /\ phase[i] \notin {"flush_root", "search"} => FilesToSelect(i) = {}
  BY DEF FilesToSelect, VideosOf, Idle

\* The rows of a folder's files.
LEMMA FileOfFolder ==
    ASSUME NEW i \in Process, phase[i] # Idle, NEW q \in LegacyOf(i) \cup UnflushedOf(i),
           IsFile(q.key)
    PROVE  q.key[2] \in PathsOf(i)
<1>1. VideosOf(i) = Video[work[i].folder]
  BY DEF VideosOf
<1>2. CASE q \in LegacyOf(i)
  <2>1. PICK v \in Video[work[i].folder] : q.key = LegacyFileKey(v.path)
    BY <1>2, LegacyOfRows, FiledKeys DEF IsFile
  <2> QED
    BY <1>1, <2>1, FiledKeys DEF PathsOf
<1>3. CASE q \in UnflushedOf(i)
  <2>1. q \in FileRows(work[i].detail, work[i].folder, root[i])
    BY <1>3, FiledUnflushed, FiledAssets, FiledLocalAssets, FiledKeys DEF UnflushedOf, IsFile, Filed
  <2>2. PICK v \in Video[work[i].folder] : q.key = FileKey(v.path)
    BY <2>1, FiledFiles
  <2> QED
    BY <1>1, <2>2, FiledKeys DEF PathsOf
<1> QED
  BY <1>2, <1>3

\* Two ingests at once are of two entries, and have no image in common.
LEMMA ForeignRows ==
    ASSUME LockInv, FilesInv, NEW i \in Process, NEW k \in Process, i # k, Working(i), Working(k),
           NEW q \in LegacyOf(i) \cup UnflushedOf(i), Filed(q.key),
           NEW r \in LegacyOf(k) \cup UnflushedOf(k), Filed(r.key), ~IsFile(r.key)
    PROVE  q.key # r.key
<1>1. EntryAt(i) # EntryAt(k)
  <2>1. ItemKey(EntryAt(i)) \in DOMAIN own[i] /\ ItemKey(EntryAt(k)) \in DOMAIN own[k]
    BY DEF LockInv, Locked, Working, EntryAt
  <2> QED
    BY <2>1 DEF LockInv, Disjoint
<1>2. ASSUME NEW j \in {i, k}, NEW x \in LegacyOf(j) \cup UnflushedOf(j), Filed(x.key), ~IsFile(x.key)
      PROVE  \E s, n, slot : \/ x.key = ImageKey(Stored(s, EntryAt(j), n, slot))
                             \/ x.key = AssetKey(Stored(s, EntryAt(j), n, slot))
  <2>1. CASE x \in LegacyOf(j)
    BY <1>2, <2>1, LegacyOfRows, FiledKeys DEF EntryAt, IsFile
  <2>2. CASE x \in FileRows(work[j].detail, work[j].folder, root[j])
    BY <1>2, <2>2, FiledFiles, FiledKeys DEF IsFile
  <2>3. CASE x \in ProviderAssetRows(work[j].detail, work[j].folder, root[j])
    BY <2>3, FiledAssets DEF EntryAt
  <2>4. CASE x \in LocalAssetRows(work[j].detail, work[j].folder, root[j])
    BY <2>4, FiledLocalAssets DEF EntryAt
  <2> QED
    BY <1>2, <2>1, <2>2, <2>3, <2>4, FiledUnflushed DEF UnflushedOf
<1>3. SUFFICES ASSUME q.key = r.key PROVE FALSE
  OBVIOUS
<1>4. PICK s, n, slot : \/ r.key = ImageKey(Stored(s, EntryAt(k), n, slot))
                        \/ r.key = AssetKey(Stored(s, EntryAt(k), n, slot))
  BY <1>2
<1>5. PICK t, m, place : \/ q.key = ImageKey(Stored(t, EntryAt(i), m, place))
                         \/ q.key = AssetKey(Stored(t, EntryAt(i), m, place))
  BY <1>2, <1>3
<1>6. Stored(s, EntryAt(k), n, slot) # Stored(t, EntryAt(i), m, place)
  BY <1>1 DEF Stored
<1> QED
  BY <1>3, <1>4, <1>5, <1>6, FiledKeys

\* A step of process i that commits nothing.
LEMMA FilesStep ==
    ASSUME FilesInv, NEW i \in Process, UNCHANGED db, \A k \in Process \ {i} : Same(k),
           root'[i] \in RootId \cup {NoRoot}, Working(i)' => root'[i] \in RootId,
           phase'[i] # Idle => work'[i].folder \in Folder,
           \/ contested' = [contested EXCEPT ![i] = {}]
           \/ UNCHANGED contested /\ (Working(i) => Working(i)'),
           OwnFiles(i)'
    PROVE  FilesInv'
<1>1. FilesShaped' /\ DbFiles'
  BY DEF FilesInv, FilesShaped, DbFiles, HasRoot, HasEntity
<1>2. RootsTyped'
  BY DEF FilesInv, RootsTyped, Same, Working
<1>3. FoldersTyped'
  BY DEF FilesInv, FoldersTyped, Same
<1>4. ASSUME NEW k \in Process \ {i} PROVE OwnFiles(k)'
  <2>1. Same(k) /\ OwnFiles(k) /\ contested'[k] = contested[k]
    BY DEF FilesInv, ContestedFiles
  <2>2. Written(k)' = Written(k) /\ LegacyOf(k)' = LegacyOf(k)
        /\ UnflushedOf(k)' = UnflushedOf(k) /\ CanonicalOf(k)' = CanonicalOf(k)
    BY <2>1 DEF Same, Written, LegacyOf, UnflushedOf, CanonicalOf
  <2>3. FilesToSelect(k)' = FilesToSelect(k)
    BY <2>1 DEF Same, FilesToSelect, VideosOf
  <2>4. \A r : Holds(db, r)' = Holds(db, r) /\ Holds(own[k], r)' = Holds(own[k], r)
               /\ Kept(k, r)' = Kept(k, r)
    BY <2>1 DEF Same, Holds, Kept
  <2> QED
    BY <2>1, <2>2, <2>3, <2>4 DEF Same, OwnFiles
<1>5. ContestedFiles'
  <2>1. contested' = [k \in Process |-> contested'[k]]
    BY DEF FilesInv, ContestedFiles
  <2>2. ~Working(i)' => contested'[i] = {}
    BY DEF FilesInv, ContestedFiles
  <2>3. \A p \in contested'[i] : p \in contested[i]
    BY DEF FilesInv, ContestedFiles
  <2>4. \A k \in Process \ {i} : contested'[k] = contested[k] /\ (Working(k)' <=> Working(k))
    BY DEF FilesInv, ContestedFiles, Same, Working
  <2> QED
    BY <2>1, <2>2, <2>3, <2>4 DEF FilesInv, ContestedFiles
<1> QED
  BY <1>1, <1>2, <1>3, <1>4, <1>5 DEF FilesInv

\* One within its transaction.
LEMMA FilesMove ==
    ASSUME FilesInv, NEW i \in Process, UNCHANGED <<db, work, root, contested>>,
           \A k \in Process \ {i} : Same(k), Working(i), Working(i)', OwnFiles(i)'
    PROVE  FilesInv'
<1>1. root[i] \in RootId /\ work[i].folder \in Folder
  BY DEF FilesInv, RootsTyped, FoldersTyped, Working
<1> QED
  BY <1>1, FilesStep

\* Rows that are neither files nor images leave those that are written alone.
LEMMA FilesKept ==
    ASSUME StateTyped, NEW i \in Process, NEW rows, Writes(i, rows), UNCHANGED <<db, work>>,
           \A r \in rows : ~Filed(r.key), OwnFiles(i),
           phase[i] \notin {Idle, "flush_item", "flush_root"}
    PROVE  /\ \A k \in DOMAIN own'[i] : Filed(k) =>
                \E r \in LegacyOf(i) : r.key = k /\ own'[i][k] = r.value
           /\ \A r \in LegacyOf(i) : Holds(own'[i], r) \/ Kept(i, r)
<1>1. own'[i] = Over(Table(rows), own[i])
  BY DEF Writes, StateTyped
<1>2. \A k \in DOMAIN Table(rows) : ~Filed(k)
  BY TableRows
<1>3. DOMAIN own'[i] = DOMAIN Table(rows) \cup DOMAIN own[i]
  BY WritesKeys
<1>4. \A k : Filed(k) => /\ k \in DOMAIN own'[i] <=> k \in DOMAIN own[i]
                         /\ k \in DOMAIN own[i] => own'[i][k] = own[i][k]
  BY <1>1, <1>2, <1>3 DEF Over
<1>5. \A r \in LegacyOf(i) : Filed(r.key)
  BY LegacyOfRows
<1>6. \A r \in LegacyOf(i) : Holds(own[i], r) => Holds(own'[i], r)
  BY <1>4, <1>5 DEF Holds
<1>7. \A k \in DOMAIN own'[i] : Filed(k) =>
         \E r \in LegacyOf(i) : r.key = k /\ own'[i][k] = r.value
  BY <1>4 DEF OwnFiles
<1> QED
  BY <1>6, <1>7 DEF OwnFiles

LEMMA UnfiledSession ==
    ASSUME NEW i \in Process, OwnFiles(i), phase[i] \notin {"flush_root", "search", "commit"},
           NEW r \in Written(i)
    PROVE  ~Filed(r.key)
  BY WrittenIsInSession DEF OwnFiles

\* Between the flush of the root and that of its identity.
LEMMA ChildFiles ==
    ASSUME NEW i \in Process, UNCHANGED <<db, work, contested>>,
           phase'[i] \in {"children", "flush_child", "flush_child_identity", "flush_root_identity"},
           \A k \in DOMAIN own'[i] : Filed(k) =>
                \E r \in LegacyOf(i) : r.key = k /\ own'[i][k] = r.value,
           \A r \in LegacyOf(i) : Holds(own'[i], r) \/ Kept(i, r),
           \A s \in session'[i] : ~Filed(s.row.key)
    PROVE  OwnFiles(i)'
  BY DEF OwnFiles, Idle, LegacyOf, Holds, Kept

LEMMA FilesBegin ==
    ASSUME LockInv, EntityInv, FilesInv, NEW i \in Process, Begin(i)
    PROVE  FilesInv'
<1>1. PICK f \in Folder, d \in Detail :
         /\ work' = [work EXCEPT ![i] = [folder |-> f, detail |-> d]]
         /\ Add(i, {ItemRow(d)})
  BY DEF Begin
<1>2. /\ phase[i] = Idle /\ phase'[i] = "flush_item" /\ UNCHANGED <<db, own, root, contested>>
      /\ work'[i].folder = f
  BY <1>1 DEF Begin, At, LockInv, StateTyped
<1>3. own'[i] = <<>> /\ DOMAIN own'[i] = {}
  BY <1>2 DEF LockInv, Locked
<1>4. \A s \in session'[i] : s.row = ItemRow(d)
  BY <1>1, Added
<1>5. OwnFiles(i)'
  BY <1>2, <1>3, <1>4, UnfiledRows DEF OwnFiles, Idle
<1>6. root'[i] \in RootId \cup {NoRoot} /\ ~Working(i)' /\ ~Working(i)
  BY <1>2 DEF FilesInv, RootsTyped, Working
<1> QED
  BY <1>1, <1>2, <1>5, <1>6, OthersSame, FilesStep

LEMMA FilesFlushRoot ==
    ASSUME LockInv, EntityInv, FilesInv, NEW i \in Process, FlushRoot(i)
    PROVE  FilesInv'
<1>1. /\ phase[i] = "flush_root" /\ phase'[i] = "children"
      /\ Writes(i, Written(i)) /\ Add(i, {}) /\ UNCHANGED <<db, work, root, contested>>
      /\ FilesToSelect(i) = {}
  BY FlushWrites DEF FlushRoot, At, LockInv, StateTyped
<1>2. OwnFiles(i) /\ StateTyped
  BY DEF FilesInv, LockInv
<1>3. own'[i] = Over(Table(Written(i)), own[i])
  BY <1>1, <1>2 DEF Writes, StateTyped
<1>4. DOMAIN own'[i] = DOMAIN Table(Written(i)) \cup DOMAIN own[i]
  BY <1>1, <1>2, WritesKeys
<1>5. ASSUME NEW k \in DOMAIN own'[i], Filed(k)
      PROVE  \E r \in LegacyOf(i) : r.key = k /\ own'[i][k] = r.value
  <2>1. k \in DOMAIN Table(Written(i))
    BY <1>1, <1>2, <1>4, <1>5 DEF OwnFiles
  <2>2. PICK q \in Written(i) : q.key = k /\ Table(Written(i))[k] = q.value
    BY <2>1, TableRows
  <2>3. q \in LegacyOf(i)
    BY <1>1, <1>2, <1>5, <2>2, WrittenIsInSession DEF OwnFiles
  <2> QED
    BY <1>3, <2>1, <2>2, <2>3 DEF Over
<1>6. ASSUME NEW r \in LegacyOf(i) PROVE Holds(own'[i], r) \/ Kept(i, r)
  <2>1. Filed(r.key) /\ r.turn = 0 /\ \A q \in LegacyOf(i) : q.value = r.value
    BY LegacyOfRows
  <2>2. CASE r \in Written(i)
    <3>1. r.key \in DOMAIN own'[i]
      BY <1>1, <2>1, <2>2, WrittenKey
    <3> QED
      BY <1>5, <2>1, <3>1 DEF Holds
  <2> QED
    BY <1>1, <1>2, <2>2 DEF OwnFiles
<1>7. \A s \in session'[i] : s.row \in {}
  BY <1>1, Added
<1>8. OwnFiles(i)'
  BY <1>1, <1>5, <1>6, <1>7, ChildFiles
<1> QED
  BY <1>1, <1>8, OthersSame, FilesMove DEF Working, Idle

LEMMA FilesFlushChild ==
    ASSUME LockInv, EntityInv, FilesInv, NEW i \in Process, FlushChild(i) \/ FlushChildIdentity(i)
    PROVE  FilesInv'
<1>1. /\ phase[i] \in {"flush_child", "flush_child_identity"}
      /\ phase'[i] \in {"flush_child_identity", "children"}
      /\ Writes(i, Written(i)) /\ UNCHANGED <<db, work, root, contested>>
      /\ Add(i, {IdentityRow(work[i].detail, child[i], root[i])}) \/ Add(i, {})
  BY FlushWrites DEF FlushChild, FlushChildIdentity, At, LockInv, StateTyped
<1>2. OwnFiles(i) /\ StateTyped
  BY DEF FilesInv, LockInv
<1>3. \A r \in Written(i) : ~Filed(r.key)
  BY <1>1, <1>2, UnfiledSession
<1>4. /\ \A k \in DOMAIN own'[i] : Filed(k) =>
           \E r \in LegacyOf(i) : r.key = k /\ own'[i][k] = r.value
      /\ \A r \in LegacyOf(i) : Holds(own'[i], r) \/ Kept(i, r)
  BY <1>1, <1>2, <1>3, FilesKept DEF Idle
<1>5. \A s \in session'[i] : ~Filed(s.row.key)
  <2>1. \A s \in session'[i] : s.row \in {IdentityRow(work[i].detail, child[i], root[i])}
    <3>1. CASE Add(i, {})
      <4>1. \A s \in session'[i] : s.row \in {}
        BY <3>1, Added
      <4> QED
        BY <4>1
    <3>2. CASE Add(i, {IdentityRow(work[i].detail, child[i], root[i])})
      BY <3>2, Added
    <3> QED
      BY <1>1, <3>1, <3>2
  <2>2. ~Filed(IdentityRow(work[i].detail, child[i], root[i]).key)
    BY UnfiledRows
  <2> QED
    BY <2>1, <2>2
<1>6. OwnFiles(i)'
  BY <1>1, <1>4, <1>5, ChildFiles
<1> QED
  BY <1>1, <1>6, OthersSame, FilesMove DEF Working, Idle

LEMMA FilesSelect ==
    ASSUME LockInv, EntityInv, FilesInv, NEW i \in Process,
           (\E n \in work[i].detail.nodes : SelectChild(i, n)) \/ SelectRootIdentity(i)
    PROVE  FilesInv'
<1>1. /\ phase[i] = "children" /\ phase'[i] \in {"flush_child", "flush_root_identity"}
      /\ UNCHANGED <<db, work, own, root, contested>>
  BY DEF SelectChild, SelectRootIdentity, At, LockInv, StateTyped
<1>2. PICK q : Add(i, {q}) /\ ~Filed(q.key)
  <2>1. CASE \E n \in work[i].detail.nodes : SelectChild(i, n)
    <3>1. PICK n \in work[i].detail.nodes : SelectChild(i, n)
      BY <2>1
    <3>2. Add(i, {EntityRow(n, root[i])}) /\ ~Filed(EntityRow(n, root[i]).key)
      BY <3>1, UnfiledRows DEF SelectChild
    <3> QED
      BY <3>2
  <2>2. CASE SelectRootIdentity(i)
    <3>1. ~Filed(IdentityRow(work[i].detail, <<>>, root[i]).key)
      BY UnfiledRows
    <3> QED
      BY <2>2, <3>1 DEF SelectRootIdentity
  <2> QED
    BY <2>1, <2>2
<1>3. \A s \in session'[i] : s.row \in {q}
  BY <1>2, Added
<1>4. OwnFiles(i)'
  BY <1>1, <1>2, <1>3, ChildFiles DEF FilesInv, OwnFiles, Idle
<1> QED
  BY <1>1, <1>4, OthersSame, FilesMove DEF Working, Idle

LEMMA StoredSource ==
    ASSUME NEW source, NEW e, NEW n, NEW slot PROVE Stored(source, e, n, slot)[1] = source
  BY DEF Stored

\* What is selected will be written, or is in the database as it should be.
LEMMA SelectedOrHeld ==
    ASSUME LockInv, NEW i \in Process, NEW rows, Add(i, rows), NEW r \in rows,
           \A q \in rows : q.key = r.key => q.turn <= r.turn, r.key \notin DOMAIN own[i]
    PROVE  r \in Written(i)' \/ Holds(db, r)
<1> DEFINE kept == [row |-> r, found |-> Found(i, r),
                    dirty |-> \/ Rewritten(r)
                              \/ Found(i, r) => Visible(i)[r.key] # r.value]
<1>1. session'[i] = Selected(i, rows) /\ (\A s \in session'[i] : s.row \in rows)
  BY Added
<1>2. kept \in session'[i]
  BY <1>1 DEF Selected
<1>3. CASE kept.dirty
  <2>1. r \in Last({s.row : s \in session'[i]})
    BY <1>1, <1>2 DEF Last
  <2>2. PICK s \in session'[i] : s.row = r /\ s.dirty
    BY <1>2, <1>3
  <2> HIDE DEF kept
  <2> QED
    BY <2>1, <2>2 DEF Written
<1>4. CASE ~kept.dirty
  <2>1. r.key \in DOMAIN Visible(i) /\ Visible(i)[r.key] = r.value
    BY <1>4 DEF Found
  <2>2. DOMAIN Visible(i) = DOMAIN own[i] \cup DOMAIN db
    BY OverKeys DEF Visible
  <2> HIDE DEF kept
  <2>3. r.key \in DOMAIN db
    BY <2>1, <2>2
  <2>4. Visible(i)[r.key] = db[r.key]
    BY <2>3 DEF Visible, Over
  <2> QED
    BY <2>1, <2>3, <2>4 DEF Holds
<1> QED
  BY <1>3, <1>4

\* The rows of a folder that are not of files are selected by the entry.
LEMMA FileOrEntryRow ==
    ASSUME NEW i \in Process, NEW r \in CanonicalOf(i)
    PROVE  /\ Filed(r.key) /\ r.turn = 0 /\ r \in UnflushedOf(i)
           /\ r \in FileRows(work[i].detail, work[i].folder, root[i]) \/ ~IsFile(r.key)
           /\ ~IsFile(r.key) => r \in EntryRows(work[i].detail, work[i].folder, root[i])
<1>1. CASE r \in FileRows(work[i].detail, work[i].folder, root[i])
  BY <1>1, FiledFiles, FiledKeys DEF UnflushedOf, UnflushedRows, IsFile
<1>2. CASE r \in ProviderAssetRows(work[i].detail, work[i].folder, root[i])
  BY <1>2, FiledAssets, FiledKeys DEF UnflushedOf, UnflushedRows, EntryRows, IsFile
<1> QED
  BY <1>1, <1>2 DEF CanonicalOf

\* The select of a file: it is found as it should be, or will be written.
LEMMA FilesSelectFile ==
    ASSUME LockInv, EntityInv, FilesInv, NEW i \in Process, SelectFile(i)
    PROVE  FilesInv'
<1>1. PICK q : FileSelected(i, q)
  BY FileIsSelected
<1>2. /\ phase[i] \in {"flush_root", "search"} /\ q \in FilesToSelect(i)
      /\ UNCHANGED <<db, phase, work, own, root, done, child, contested>>
  BY <1>1 DEF FileSelected
<1>3. session'[i] = session[i] \cup Selected(i, {q})
  BY <1>1 DEF FileSelected, LockInv, StateTyped
<1>4. OwnFiles(i) /\ work[i].folder \in Folder
  BY <1>2 DEF FilesInv, FoldersTyped, Idle
<1>5. /\ phase[i] = "flush_root" => q \in LegacyFileRows(work[i].detail, Video[work[i].folder])
      /\ phase[i] = "search" => q \in FileRows(work[i].detail, work[i].folder, root[i])
      /\ \A s \in session[i] : s.row # q
  BY <1>2, FilesLeft
<1>6. /\ IsFile(q.key) /\ Filed(q.key) /\ q.turn = 0
      /\ phase[i] = "flush_root" => q \in LegacyOf(i)
      /\ phase[i] = "search" => q \in UnflushedOf(i)
  <2>1. CASE phase[i] = "flush_root"
    <3>1. q \in LegacyFileRows(work[i].detail, Video[work[i].folder])
      BY <1>5, <2>1
    <3> QED
      BY <2>1, <3>1, FiledLegacyFiles DEF LegacyOf
  <2>2. CASE phase[i] = "search"
    BY <1>5, <2>2, FiledFiles, FiledKeys DEF UnflushedOf, UnflushedRows, IsFile
  <2> QED
    BY <1>2, <2>1, <2>2
<1>7. \A s \in session'[i] : s \in session[i] \/ s.row = q
  BY <1>3, SelectedRows
\* No row of the session has the key of the file.
<1>8. ASSUME NEW s \in session[i], s.row.key = q.key PROVE FALSE
  <2>1. CASE phase[i] = "flush_root"
    <3>1. s.row \in LegacyOf(i)
      BY <1>4, <1>6, <1>8, <2>1 DEF OwnFiles
    <3>2. s.row \in LegacyFileRows(work[i].detail, Video[work[i].folder])
      BY <1>6, <1>8, <3>1 DEF LegacyOf, LegacyImageRows, ImageKey, Row, RowInTurn, IsFile
    <3> QED
      BY <1>4, <1>5, <1>8, <2>1, <3>2, OneRowEach
  <2>2. CASE phase[i] = "search"
    <3>1. s.row \in UnflushedOf(i)
      BY <1>4, <1>6, <1>8, <2>2 DEF OwnFiles
    <3>2. s.row \in FileRows(work[i].detail, work[i].folder, root[i])
      BY <1>6, <1>8, <3>1, FiledUnflushed, FiledAssets, FiledLocalAssets, FiledKeys
         DEF UnflushedOf, IsFile, Filed
    <3> QED
      BY <1>4, <1>5, <1>8, <2>2, <3>2, OneRowEach
  <2> QED
    BY <1>2, <2>1, <2>2
<1>9. q \in Written(i)' \/ Kept(i, q)
  <2> DEFINE kept == [row |-> q, found |-> Found(i, q),
                      dirty |-> \/ Rewritten(q)
                                \/ Found(i, q) => Visible(i)[q.key] # q.value]
  <2>1. kept \in session'[i]
    BY <1>3 DEF Selected
  <2>2. CASE kept.dirty
    <3>1. \A x \in {s.row : s \in session'[i]} : x.key = q.key => x.turn <= q.turn
      BY <1>6, <1>7, <1>8
    <3>2. q \in Last({s.row : s \in session'[i]})
      BY <2>1, <3>1 DEF Last
    <3>3. PICK s \in session'[i] : s.row = q /\ s.dirty
      BY <2>1, <2>2
    <3> HIDE DEF kept
    <3> QED
      BY <3>2, <3>3 DEF Written
  <2>3. CASE ~kept.dirty
    <3>1. q.key \in DOMAIN Visible(i) /\ Visible(i)[q.key] = q.value
      BY <2>3 DEF Found
    <3> HIDE DEF kept
    <3>2. DOMAIN Visible(i) = DOMAIN own[i] \cup DOMAIN db
      BY OverKeys DEF Visible
    <3>3. q.key \notin DOMAIN own[i]
      <4>1. CASE phase[i] = "flush_root"
        BY <1>4, <1>6, <4>1 DEF OwnFiles
      <4>2. CASE phase[i] = "search"
        <5>1. q.key[1] = "media_file"
          BY <1>5, <4>2, FiledFiles, FiledKeys
        <5>2. \A r \in LegacyOf(i) : r.key # q.key
          BY <5>1, LegacyOfRows, FiledKeys
        <5> QED
          BY <1>4, <1>6, <5>2 DEF OwnFiles
      <4> QED
        BY <1>2, <4>1, <4>2
    <3>4. q.key \in DOMAIN db /\ Visible(i)[q.key] = db[q.key]
      BY <3>1, <3>2, <3>3 DEF Visible, Over
    <3> QED
      BY <3>1, <3>4 DEF Kept, Holds
  <2> QED
    BY <2>2, <2>3
<1>10. ASSUME NEW r, r \in Written(i) \/ Kept(i, r) \/ r \in FilesToSelect(i)
       PROVE  r \in Written(i)' \/ Kept(i, r) \/ r \in FilesToSelect(i)'
  <2>1. CASE r \in Written(i)
    <3>1. PICK s \in session[i] : s.row = r
      BY <2>1, WrittenIsInSession
    <3>2. r.key # q.key
      BY <1>8, <3>1
    <3> QED
      BY <1>3, <2>1, <3>2, WrittenKept
  <2>2. CASE r \in FilesToSelect(i) /\ r # q
    <3>1. r \in FilesToSelect(i) \ {q}
      BY <2>2
    <3>2. \A s \in session[i] : s.row # r
      BY <2>2 DEF FilesToSelect
    <3>3. \A s \in session'[i] : s.row # r
      BY <1>7, <2>2, <3>2
    <3> QED
      BY <1>2, <3>1, <3>3 DEF FilesToSelect, VideosOf
  <2>3. CASE r = q
    BY <1>9, <2>3
  <2>4. CASE Kept(i, r)
    BY <2>4
  <2> QED
    BY <1>10, <2>1, <2>2, <2>3, <2>4
<1>11. OwnFiles(i)'
  <2>1. /\ LegacyOf(i)' = LegacyOf(i) /\ UnflushedOf(i)' = UnflushedOf(i)
        /\ CanonicalOf(i)' = CanonicalOf(i)
        /\ \A r : Holds(own[i], r)' = Holds(own[i], r) /\ Kept(i, r)' = Kept(i, r)
    BY <1>2 DEF LegacyOf, UnflushedOf, CanonicalOf, Holds, Kept
  <2>2. \A s \in session'[i] : Filed(s.row.key) =>
           \/ phase[i] = "flush_root" /\ s.row \in LegacyOf(i)
           \/ phase[i] \in {"search", "commit"} /\ s.row \in UnflushedOf(i)
    BY <1>2, <1>4, <1>6, <1>7 DEF OwnFiles
  <2> QED
    BY <1>2, <1>4, <1>10, <2>1, <2>2 DEF OwnFiles
<1> QED
  BY <1>2, <1>11, OthersSame, FilesMove DEF Working, Idle

LEMMA FilesFlushMediaItem ==
    ASSUME LockInv, TreeInv, EntityInv, FilesInv, NEW i \in Process, FlushMediaItem(i)
    PROVE  FilesInv'
<1>1. PICK r \in IF KnownRoot(i) # {} THEN KnownRoot(i)
                 ELSE {x \in FreshRoots : \A y \in FreshRoots : x <= y} :
         /\ root' = [root EXCEPT ![i] = r]
         /\ Add(i, LegacyImageRows(work[i].detail, work[i].folder) \cup {EntityRow(<<>>, r)})
  BY DEF FlushMediaItem
<1> DEFINE images == LegacyImageRows(work[i].detail, work[i].folder)
           rows == images \cup {EntityRow(<<>>, r)}
<1>2. /\ phase[i] = "flush_item" /\ phase'[i] = "flush_root"
      /\ Writes(i, Written(i)) /\ UNCHANGED <<db, work, contested>> /\ root'[i] = r
  BY <1>1, FlushWrites DEF FlushMediaItem, At, LockInv, StateTyped
<1>3. own[i] = <<>> /\ DOMAIN own[i] = {}
  BY <1>2 DEF LockInv, Locked
<1>4. r \in RootId
  <2>1. \A k \in DOMAIN Visible(i) : k \in DOMAIN db /\ Visible(i)[k] = db[k]
    BY <1>3, OverKeys DEF Visible, Over
  <2>2. ASSUME KnownRoot(i) # {} PROVE r \in RootId
    <3>1. /\ IdentityKey(EntryAt(i), <<>>) \in DOMAIN db
          /\ r = db[IdentityKey(EntryAt(i), <<>>)][1]
      BY <1>1, <2>1, <2>2 DEF KnownRoot, EntryAt
    <3>2. IdentityKey(EntryAt(i), <<>>) \in Identities(db)
      BY <3>1, IdentityKeyParts DEF Identities
    <3> QED
      BY <3>1, <3>2, IdentityKeyParts DEF FilesInv, RootsTyped, RootOf
  <2>3. ASSUME KnownRoot(i) = {} PROVE r \in RootId
    BY <1>1, <2>3 DEF FreshRoots
  <2> QED
    BY <2>2, <2>3
<1>5. \A k \in DOMAIN own'[i] : ~Filed(k)
  <2>1. \A q \in Written(i) : ~Filed(q.key)
    BY <1>2, UnfiledSession DEF FilesInv
  <2>2. \A k \in DOMAIN Table(Written(i)) : ~Filed(k)
    BY <2>1, TableRows
  <2>3. DOMAIN own'[i] = DOMAIN Table(Written(i)) \cup DOMAIN own[i]
    BY <1>2, WritesKeys DEF LockInv
  <2> QED
    BY <1>3, <2>2, <2>3
<1>6. \A s \in session'[i] : ~Filed(s.row.key) \/ s.row \in images
  <2>1. \A s \in session'[i] : s.row \in rows
    BY <1>1, Added
  <2>2. ~Filed(EntityRow(<<>>, r).key)
    BY UnfiledRows
  <2> QED
    BY <2>1, <2>2
<1>7. ASSUME NEW q \in LegacyOf(i)
      PROVE  q \in Written(i)' \/ Kept(i, q)' \/ q \in FilesToSelect(i)'
  <2>1. CASE q \in images
    <3>1. \A x \in rows : x.turn = 0
      BY FiledLegacyImages, EntityRowParts
    <3>2. q \in rows /\ \A x \in rows : x.key = q.key => x.turn <= q.turn
      BY <2>1, <3>1
    <3> HIDE DEF rows
    <3>3. Add(i, rows)
      BY <1>1 DEF rows
    <3>4. q \in Written(i)' \/ Holds(db, q)
      BY <1>3, <3>2, <3>3, SelectedOrHeld
    <3> QED
      BY <1>2, <3>4 DEF Kept, Holds
  <2>2. CASE q \in LegacyFileRows(work[i].detail, Video[work[i].folder])
    <3>1. q.key[1] = "media_files" /\ Filed(q.key)
      BY <2>2 DEF LegacyFileRows, LegacyFileKey, Row, RowInTurn, Filed
    <3>2. q \notin images
      BY <3>1 DEF LegacyImageRows, ImageKey, Row, RowInTurn
    <3>3. \A s \in session'[i] : s.row # q
      BY <1>6, <3>1, <3>2
    <3>4. FilesToSelect(i)' = LegacyFileRows(work[i].detail, Video[work[i].folder])
                              \ {s.row : s \in session'[i]}
      BY <1>2 DEF FilesToSelect, VideosOf, Idle
    <3> QED
      BY <2>2, <3>3, <3>4
  <2> QED
    BY <2>1, <2>2 DEF LegacyOf
<1>8. OwnFiles(i)'
  <2>1. LegacyOf(i)' = LegacyOf(i) /\ images \subseteq LegacyOf(i)
    BY <1>2 DEF LegacyOf
  <2>2. \A q \in LegacyOf(i)' : q \in Written(i)' \/ Kept(i, q)' \/ q \in FilesToSelect(i)'
    BY <1>7, <2>1
  <2> QED
    BY <1>2, <1>5, <1>6, <2>1, <2>2 DEF OwnFiles
<1>9. work'[i].folder \in Folder /\ ~Working(i)
  BY <1>2 DEF FilesInv, FoldersTyped, Working, Idle
<1> QED
  BY <1>2, <1>4, <1>8, <1>9, OthersSame, FilesStep

LEMMA FilesFlushRootIdentity ==
    ASSUME LockInv, EntityInv, FilesInv, NEW i \in Process, FlushRootIdentity(i)
    PROVE  FilesInv'
<1> DEFINE rows == EntryRows(work[i].detail, work[i].folder, root[i])
<1>1. /\ phase[i] = "flush_root_identity" /\ phase'[i] = "search"
      /\ Writes(i, Written(i)) /\ Add(i, rows) /\ UNCHANGED <<db, work, root, contested>>
  BY FlushWrites DEF FlushRootIdentity, At, LockInv, StateTyped
<1>2. OwnFiles(i) /\ StateTyped
  BY DEF FilesInv, LockInv
<1>3. \A r \in Written(i) : ~Filed(r.key)
  BY <1>1, <1>2, UnfiledSession
<1>4. /\ \A k \in DOMAIN own'[i] : Filed(k) =>
           \E r \in LegacyOf(i) : r.key = k /\ own'[i][k] = r.value
      /\ \A r \in LegacyOf(i) : Holds(own'[i], r) \/ Kept(i, r)
  BY <1>1, <1>2, <1>3, FilesKept DEF Idle
<1>5. \A s \in session'[i] : s.row \in rows
  BY <1>1, Added
<1>6. ASSUME NEW r \in CanonicalOf(i), ~IsFile(r.key) PROVE r \in Written(i)' \/ Holds(db, r)
  <2>1. /\ Filed(r.key) /\ r.turn = 0
        /\ \/ \E p : r.key = FileKey(p)
           \/ \E n : r.key = AssetKey(Stored("tmdb", EntryAt(i), n, "image"))
    BY FiledFiles, FiledAssets DEF CanonicalOf, EntryAt
  <2>2. r \in rows
    BY <1>6, FileOrEntryRow
  <2>3. ASSUME NEW q \in rows, q.key = r.key PROVE q.turn <= r.turn
    <3>1. q \notin LocalAssetRows(work[i].detail, work[i].folder, root[i])
      <4> SUFFICES ASSUME q \in LocalAssetRows(work[i].detail, work[i].folder, root[i]) PROVE FALSE
        OBVIOUS
      <4>1. PICK e, n, slot : q.key = AssetKey(Stored("local_file", e, n, slot))
        BY FiledLocalAssets
      <4>2. q.key[1] = "artwork_asset" /\ q.key[2][1] = "local_file"
        BY <4>1, FiledKeys, StoredSource
      <4>3. CASE \E p : r.key = FileKey(p)
        BY <2>3, <4>2, <4>3, FiledKeys
      <4>4. CASE \E m : r.key = AssetKey(Stored("tmdb", EntryAt(i), m, "image"))
        BY <2>3, <4>2, <4>4, FiledKeys, StoredSource
      <4> QED
        BY <2>1, <4>3, <4>4
    <3>2. q \in CanonicalOf(i)
      BY <2>1, <2>3, <3>1, FiledUnflushed DEF UnflushedRows, CanonicalOf
    <3>3. q.turn = 0
      BY <3>2, FiledFiles, FiledAssets DEF CanonicalOf
    <3> QED
      BY <2>1, <3>3
  <2>4. r.key \notin DOMAIN own[i]
    BY <1>2, <2>1, LegacyOfRows, FiledKeys DEF OwnFiles
  <2> HIDE DEF rows
  <2> QED
    BY <1>1, <2>2, <2>3, <2>4, SelectedOrHeld
<1>7. ASSUME NEW r \in FileRows(work[i].detail, work[i].folder, root[i])
      PROVE  r \in FilesToSelect(i)'
  <2>1. r.key[1] = "media_file"
    BY FiledFiles, FiledKeys
  <2>2. r \notin rows
    BY <2>1 DEF EntryRows, AliasRows, AliasKey, ProviderAssetRows, LocalAssetRows, AssetKey, Row, RowInTurn
  <2>3. FilesToSelect(i)' = FileRows(work[i].detail, work[i].folder, root[i]) \ {s.row : s \in session'[i]}
    BY <1>1 DEF FilesToSelect, VideosOf, Idle
  <2> QED
    BY <1>5, <2>2, <2>3
<1>8. OwnFiles(i)'
  <2>1. LegacyOf(i)' = LegacyOf(i) /\ UnflushedOf(i)' = UnflushedOf(i) /\ CanonicalOf(i)' = CanonicalOf(i)
    BY <1>1 DEF LegacyOf, UnflushedOf, CanonicalOf
  <2>2. \A r : Holds(db, r)' = Holds(db, r) /\ Kept(i, r)' = Kept(i, r)
    BY <1>1 DEF Holds, Kept
  <2>3. \A r \in LegacyOf(i)' : Holds(own'[i], r) \/ Kept(i, r)'
    BY <1>4, <2>1, <2>2
  <2>4. \A r \in CanonicalOf(i)' : r \in Written(i)' \/ Kept(i, r)' \/ r \in FilesToSelect(i)'
    BY <1>6, <1>7, <2>1, <2>2, FileOrEntryRow DEF Kept
  <2>5. \A s \in session'[i] : s.row \in UnflushedOf(i)'
    BY <1>5, <2>1 DEF UnflushedOf, UnflushedRows
  <2> QED
    BY <1>1, <1>4, <2>1, <2>3, <2>4, <2>5 DEF OwnFiles, Idle, Holds
<1> QED
  BY <1>1, <1>8, OthersSame, FilesMove DEF Working, Idle

LEMMA FilesRefresh ==
    ASSUME LockInv, EntityInv, FilesInv, NEW i \in Process, RefreshSearchDocuments(i)
    PROVE  FilesInv'
<1> DEFINE rows == {Row(DocumentKey(x), AliasesOf(x, Visible(i))) : x \in Documented(i)}
<1>1. /\ phase[i] = "search" /\ phase'[i] = "commit"
      /\ Writes(i, rows) /\ UNCHANGED <<db, work, session, root, contested>>
      /\ FilesToSelect(i) = {}
  BY DEF RefreshSearchDocuments, Writes, At, LockInv, StateTyped
<1>2. OwnFiles(i) /\ StateTyped
  BY DEF FilesInv, LockInv
<1>3. \A r \in rows : ~Filed(r.key)
  BY DEF Row, RowInTurn, DocumentKey, Filed
<1> HIDE DEF rows
<1>4. /\ \A k \in DOMAIN own'[i] : Filed(k) =>
           \E r \in LegacyOf(i) : r.key = k /\ own'[i][k] = r.value
      /\ \A r \in LegacyOf(i) : Holds(own'[i], r) \/ Kept(i, r)
  BY <1>1, <1>2, <1>3, FilesKept DEF Idle
<1>5. OwnFiles(i)'
  <2>1. LegacyOf(i)' = LegacyOf(i) /\ UnflushedOf(i)' = UnflushedOf(i) /\ CanonicalOf(i)' = CanonicalOf(i)
        /\ Written(i)' = Written(i)
    BY <1>1 DEF LegacyOf, UnflushedOf, CanonicalOf, Written
  <2>2. /\ \A r \in LegacyOf(i)' : Holds(own'[i], r) \/ Kept(i, r)'
        /\ \A r \in CanonicalOf(i)' : r \in Written(i)' \/ Kept(i, r)'
    <3>1. \A r : Kept(i, r)' = Kept(i, r)
      BY <1>1 DEF Kept, Holds
    <3> QED
      BY <1>1, <1>2, <1>4, <2>1, <3>1 DEF OwnFiles
  <2>3. \A s \in session'[i] : Filed(s.row.key) => s.row \in UnflushedOf(i)'
    BY <1>1, <1>2, <2>1 DEF OwnFiles
  <2> QED
    BY <1>1, <1>4, <2>1, <2>2, <2>3 DEF OwnFiles, Idle, Holds
<1> QED
  BY <1>1, <1>5, OthersSame, FilesMove DEF Working, Idle

LEMMA FilesRollBack ==
    ASSUME LockInv, EntityInv, FilesInv, NEW i \in Process, Violate(i) \/ RollBack(i)
    PROVE  FilesInv'
<1>1. Ended(i) /\ UNCHANGED db /\ contested' = [contested EXCEPT ![i] = {}]
  BY DEF Violate, RollBack
<1>2. /\ phase'[i] = Idle /\ own'[i] = <<>> /\ session'[i] = {} /\ root'[i] = NoRoot
      /\ \A k \in Process \ {i} : Same(k)
  BY <1>1 DEF Ended, LockInv, StateTyped, EntityInv, WorkTyped, Same
<1>3. DOMAIN own'[i] = {}
  BY <1>2
<1>4. OwnFiles(i)'
  BY <1>2, <1>3 DEF OwnFiles, Idle
<1> QED
  BY <1>1, <1>2, <1>4, FilesStep DEF Working

\* What a commit leaves of files and images: the rows of the transaction, and the
\* others as before.
LEMMA CommittedFiles ==
    ASSUME LockInv, FilesInv, NEW i \in Process, Commit(i), NEW k \in DOMAIN db', Filed(k)
    PROVE  \/ \E r \in LegacyOf(i) : r.key = k /\ db'[k] = r.value
           \/ \E r \in UnflushedOf(i) : r.key = k /\ db'[k] = r.value
           \/ k \in DOMAIN db /\ db'[k] = db[k]
<1>1. db' = Over(Table(Written(i)), Over(own[i], db)) /\ phase[i] = "commit" /\ OwnFiles(i)
  BY DEF Commit, Visible, FilesInv
<1>2. k \in DOMAIN Table(Written(i)) \cup (DOMAIN own[i] \cup DOMAIN db)
  BY CommittedKeys
<1>3. CASE k \in DOMAIN Table(Written(i))
  <2>1. PICK q \in Written(i) : q.key = k /\ Table(Written(i))[k] = q.value
    BY <1>3, TableRows
  <2>2. q \in UnflushedOf(i)
    BY <1>1, <2>1, WrittenIsInSession DEF OwnFiles
  <2>3. db'[k] = Table(Written(i))[k]
    BY <1>1, <1>3 DEF Over
  <2> QED
    BY <2>1, <2>2, <2>3
<1>4. CASE k \notin DOMAIN Table(Written(i)) /\ k \in DOMAIN own[i]
  <2>1. db'[k] = own[i][k]
    BY <1>1, <1>4 DEF Over
  <2> QED
    BY <1>1, <1>4, <2>1 DEF OwnFiles
<1>5. CASE k \notin DOMAIN Table(Written(i)) /\ k \notin DOMAIN own[i]
  BY <1>1, <1>2, <1>5 DEF Over
<1> QED
  BY <1>3, <1>4, <1>5

\* What another process has found in the database, a commit leaves as it is or makes
\* contested.
LEMMA CommitKeeps ==
    ASSUME LockInv, FilesInv, NEW i \in Process, NEW k \in Process, i # k, Commit(i), Working(k),
           NEW r \in LegacyOf(k) \cup CanonicalOf(k), Kept(k, r)
    PROVE  Kept(k, r)'
<1>1. Filed(r.key) /\ r \in LegacyOf(k) \cup UnflushedOf(k)
  BY FileOrEntryRow, LegacyOfRows
<1>2. r.key \in DOMAIN db'
  BY CommittedKeys DEF Kept, Holds
<1>3. contested'[k] = contested[k] \cup PathsOf(i)
  BY DEF Commit, Active, Working
<1>4. phase[i] = "commit" /\ Working(i)
  BY DEF Commit, Working, Idle
<1>5. CASE \E q \in LegacyOf(i) \cup UnflushedOf(i) : q.key = r.key
  <2>1. IsFile(r.key)
    BY <1>1, <1>4, <1>5, ForeignRows
  <2>2. r.key[2] \in PathsOf(i)
    BY <1>4, <1>5, <2>1, FileOfFolder DEF Idle
  <2> QED
    BY <1>2, <1>3, <2>1, <2>2 DEF Kept
<1>6. CASE \A q \in LegacyOf(i) \cup UnflushedOf(i) : q.key # r.key
  <2>1. db'[r.key] = db[r.key]
    BY <1>1, <1>2, <1>6, CommittedFiles
  <2> QED
    BY <1>2, <1>3, <2>1 DEF Kept, Holds
<1> QED
  BY <1>5, <1>6

\* A row of a contested file that a commit leaves as others have made it.
Left(i, k) == IsFile(k) /\ k \in DOMAIN db /\ db'[k] = db[k] /\ k[2] \in contested[i]

LEMMA CommittedLegacy ==
    ASSUME LockInv, FilesInv, NEW i \in Process, Commit(i), NEW r \in LegacyOf(i)
    PROVE  r.key \in DOMAIN db' /\ (db'[r.key] = EntryAt(i) \/ Left(i, r.key))
<1>1. phase[i] = "commit" /\ OwnFiles(i)
  BY DEF Commit, FilesInv
<1>2. Filed(r.key) /\ r.value = EntryAt(i)
  BY LegacyOfRows DEF EntryAt
<1>3. Holds(own[i], r) \/ Kept(i, r)
  BY <1>1 DEF OwnFiles, Idle
<1>4. r.key \in DOMAIN db'
  BY <1>3, CommittedKeys DEF Holds, Kept
<1>5. \A q \in UnflushedOf(i) : q.key # r.key
  <2>1. ASSUME NEW q \in UnflushedOf(i), q.key = r.key PROVE FALSE
    <3>1. q.key[1] \in {"media_file", "artwork_asset"}
      <4>1. q \in FileRows(work[i].detail, work[i].folder, root[i])
                  \cup ProviderAssetRows(work[i].detail, work[i].folder, root[i])
                  \cup LocalAssetRows(work[i].detail, work[i].folder, root[i])
        BY <1>2, <2>1, FiledUnflushed DEF UnflushedOf
      <4> QED
        BY <4>1, FiledFiles, FiledAssets, FiledLocalAssets, FiledKeys
    <3>2. r.key[1] \in {"media_files", "media_images"}
      BY LegacyOfRows, FiledKeys
    <3> QED
      BY <2>1, <3>1, <3>2
  <2> QED
    BY <2>1
<1>6. \A q \in LegacyOf(i) : q.value = EntryAt(i)
  BY LegacyOfRows DEF EntryAt
<1>7. CASE r.key \in DOMAIN db /\ db'[r.key] = db[r.key]
  <2>1. CASE Kept(i, r)
    BY <1>2, <1>4, <1>7, <2>1 DEF Holds, Kept, Left
  <2>2. CASE Holds(own[i], r)
    <3>1. r.key \notin DOMAIN Table(Written(i))
      <4>1. \A q \in Written(i) : q.key # r.key
        BY <1>1, <1>2, <1>5, WrittenIsInSession DEF OwnFiles
      <4> QED
        BY <4>1, TableRows
    <3>2. db'[r.key] = own[i][r.key]
      BY <2>2, <3>1 DEF Commit, Visible, Over, Holds
    <3> QED
      BY <1>2, <1>4, <2>2, <3>2 DEF Holds
  <2> QED
    BY <1>3, <2>1, <2>2
<1> QED
  BY <1>2, <1>4, <1>5, <1>6, <1>7, CommittedFiles

\* The canonical rows of a transaction are of its tree.
RowRoot(k, value) == IF k[1] = "media_file" THEN value[1] ELSE value.entity[1]

LEMMA CanonicalRoots ==
    ASSUME NEW i \in Process, NEW q \in UnflushedOf(i), Filed(q.key)
    PROVE  /\ q.key[1] \in {"media_file", "artwork_asset"}
           /\ RowRoot(q.key, q.value) = root[i]
<1>1. \A n : EntityAt(root[i], n)[1] = root[i]
  BY DEF EntityAt
<1>2. CASE q \in FileRows(work[i].detail, work[i].folder, root[i])
  <2>1. PICK v : /\ q.key = FileKey(v.path)
                 /\ q.value = EntityAt(root[i], PlayableNode(work[i].detail, v.node))
    BY <1>2, FiledFiles
  <2> QED
    BY <1>1, <2>1, FiledKeys DEF RowRoot
<1>3. CASE q \in ProviderAssetRows(work[i].detail, work[i].folder, root[i])
  <2>1. PICK p, n : q.key = AssetKey(p) /\ q.value.entity = EntityAt(root[i], n)
    BY <1>3, FiledAssets
  <2> QED
    BY <1>1, <2>1, FiledKeys DEF RowRoot
<1>4. CASE q \in LocalAssetRows(work[i].detail, work[i].folder, root[i])
  <2>1. PICK p, n : q.key = AssetKey(p) /\ q.value.entity = EntityAt(root[i], n)
    BY <1>4, FiledLocalAssets
  <2> QED
    BY <1>1, <2>1, FiledKeys DEF RowRoot
<1> QED
  BY <1>2, <1>3, <1>4, FiledUnflushed DEF UnflushedOf

LEMMA CommittedCanonical ==
    ASSUME LockInv, FilesInv, NEW i \in Process, Commit(i), NEW r \in CanonicalOf(i)
    PROVE  r.key \in DOMAIN db' /\ (RowRoot(r.key, db'[r.key]) = root[i] \/ Left(i, r.key))
<1>1. phase[i] = "commit" /\ OwnFiles(i) /\ StateTyped
  BY DEF Commit, FilesInv, LockInv
<1>2. Filed(r.key) /\ r.turn = 0 /\ r \in UnflushedOf(i)
  BY FileOrEntryRow
<1>3. \A q \in LegacyOf(i) : q.key # r.key
  <2>1. r.key[1] \in {"media_file", "artwork_asset"}
    BY <1>2, CanonicalRoots
  <2> QED
    BY <2>1, LegacyOfRows, FiledKeys
<1>4. \A q \in UnflushedOf(i) : q.key = r.key => RowRoot(r.key, q.value) = root[i]
  BY <1>2, CanonicalRoots
<1>5. CASE r \in Written(i)
  <2>1. \A q \in Written(i) : q.key = r.key => q.turn <= r.turn
    BY <1>5 DEF Written, Last
  <2>2. r.key \in DOMAIN Table(Written(i))
    BY <1>5, <2>1, TableOfDistinctRows
  <2>3. PICK q \in Written(i) : q.key = r.key /\ Table(Written(i))[r.key] = q.value
    BY <2>2, TableRows
  <2>4. q \in UnflushedOf(i)
    BY <1>1, <1>2, <2>3, WrittenIsInSession DEF OwnFiles
  <2>5. db'[r.key] = q.value /\ r.key \in DOMAIN db'
    BY <2>2, <2>3, CommittedKeys DEF Commit, Over
  <2> QED
    BY <1>4, <2>3, <2>4, <2>5
<1>6. CASE Kept(i, r)
  <2>1. r.key \in DOMAIN db'
    BY <1>6, CommittedKeys DEF Holds, Kept
  <2>2. RowRoot(r.key, r.value) = root[i]
    BY <1>2, CanonicalRoots
  <2> QED
    BY <1>2, <1>3, <1>4, <1>6, <2>1, <2>2, CommittedFiles DEF Holds, Kept, Left
<1>7. FilesToSelect(i) = {}
  BY <1>1, FilesLeft
<1> QED
  BY <1>1, <1>5, <1>6, <1>7 DEF OwnFiles

\* The counterparts of the rows that an ingest makes.
LEMMA FileCounterparts ==
    ASSUME NEW i \in Process, NEW v \in Video[work[i].folder]
    PROVE  /\ \E r \in LegacyOf(i) : r.key = LegacyFileKey(v.path)
           /\ \E r \in CanonicalOf(i) : r.key = FileKey(v.path)
<1> DEFINE d == work[i].detail
           old == Row(LegacyFileKey(v.path), d.entry)
           new == Row(FileKey(v.path), EntityAt(root[i], PlayableNode(d, v.node)))
<1>1. old \in LegacyOf(i) /\ old.key = LegacyFileKey(v.path)
  BY DEF LegacyOf, LegacyFileRows, Row, RowInTurn
<1>2. new \in CanonicalOf(i) /\ new.key = FileKey(v.path)
  BY DEF CanonicalOf, FileRows, Row, RowInTurn
<1> QED
  BY <1>1, <1>2

LEMMA ImageCounterparts ==
    ASSUME NEW i \in Process, NEW n \in Images(work[i].detail, work[i].folder)
    PROVE  /\ \E r \in LegacyOf(i) : r.key = ImageKey(Stored("tmdb", EntryAt(i), n, "image"))
           /\ \E r \in CanonicalOf(i) : r.key = AssetKey(Stored("tmdb", EntryAt(i), n, "image"))
<1> DEFINE d == work[i].detail
           p == Stored("tmdb", d.entry, n, "image")
           old == Row(ImageKey(p), d.entry)
           new == Row(AssetKey(p), [entity |-> EntityAt(root[i], ArtworkNode(d, n)), original |-> 0])
<1>1. old \in LegacyOf(i) /\ old.key = ImageKey(p)
  BY DEF LegacyOf, LegacyImageRows, Row, RowInTurn
<1>2. new \in CanonicalOf(i) /\ new.key = AssetKey(p)
  BY DEF CanonicalOf, ProviderAssetRows, Row, RowInTurn
<1> QED
  BY <1>1, <1>2 DEF EntryAt

\* Every file and image is attached to an entity that the provider lists.
LEMMA UnflushedEntities ==
    ASSUME EntityInv, NEW i \in Process, phase[i] # Idle, NEW r \in UnflushedOf(i), Filed(r.key)
    PROVE  \E n \in work[i].detail.nodes :
              IF r.key[1] = "media_file"
              THEN r.value = EntityAt(root[i], n)
                   /\ \E v \in Video[work[i].folder] : r.key = FileKey(v.path)
              ELSE r.value.entity = EntityAt(root[i], n)
                   /\ \E p : r.key = AssetKey(p)
                             /\ (p[1] = "tmdb" =>
                                   \E m \in Images(work[i].detail, work[i].folder) :
                                      p = Stored("tmdb", EntryAt(i), m, "image"))
<1> DEFINE d == work[i].detail
           f == work[i].folder
<1>1. <<>> \in d.nodes
  BY DetailAssumption DEF EntityInv, WorkTyped
<1>2. CASE r \in FileRows(d, f, root[i])
  <2>1. PICK v \in Video[f] : r.key = FileKey(v.path) /\ r.value = EntityAt(root[i], PlayableNode(d, v.node))
    BY <1>2, FiledFiles
  <2>2. PlayableNode(d, v.node) \in d.nodes
    BY <1>1 DEF PlayableNode
  <2> QED
    BY <2>1, <2>2, FiledKeys
<1>3. CASE r \in ProviderAssetRows(d, f, root[i])
  <2>1. PICK m \in Images(d, f) : /\ r.key = AssetKey(Stored("tmdb", d.entry, m, "image"))
                                  /\ r.value.entity = EntityAt(root[i], ArtworkNode(d, m))
    BY <1>3, FiledAssets
  <2>2. ArtworkNode(d, m) \in d.nodes
    BY <1>1 DEF ArtworkNode
  <2>3. r.key[1] # "media_file"
    BY <2>1, FiledKeys
  <2> QED
    BY <2>1, <2>2, <2>3 DEF EntryAt
<1>4. CASE r \in LocalAssetRows(d, f, root[i])
  <2>1. PICK a \in Artwork[f] :
           /\ r.key = AssetKey(Stored("local_file", d.entry, a.node, a.slot))
           /\ r.value.entity = EntityAt(root[i], IF a.node \in d.nodes THEN a.node ELSE <<>>)
    BY <1>4, FiledLocalAssets
  <2>2. (IF a.node \in d.nodes THEN a.node ELSE <<>>) \in d.nodes
    BY <1>1
  <2>3. r.key[1] # "media_file" /\ Stored("local_file", d.entry, a.node, a.slot)[1] # "tmdb"
    BY <2>1, FiledKeys, StoredSource
  <2> QED
    BY <2>1, <2>2, <2>3
<1> QED
  BY <1>2, <1>3, <1>4, FiledUnflushed DEF UnflushedOf

LEMMA RootStays ==
    ASSUME LockInv, TreeInv, NEW i \in Process, Commit(i), NEW e, IdentityKey(e, <<>>) \in DOMAIN db
    PROVE  IdentityKey(e, <<>>) \in DOMAIN db' /\ RootOf(e, db') = RootOf(e, db)
<1>1. IdentityKey(e, <<>>) \in Identities(db)
  BY IdentityKeyParts DEF Identities
<1> QED
  BY <1>1, CommitKeepsIdentities DEF RootOf, Identities

\* An image of the legacy layout after a commit: one of the transaction, whose root is
\* that of its counterpart, or one that stays as it was, like its counterpart.
LEMMA LegacyCommit ==
    ASSUME LockInv, TreeInv, EntityInv, FilesInv, NEW i \in Process, Commit(i),
           NEW k \in DOMAIN db', NEW other, Filed(k), Filed(other),
           k[1] = "media_images", other[1] = "artwork_asset",
           (\E r \in LegacyOf(i) : r.key = k) => \E r \in CanonicalOf(i) : r.key = other,
           (\E r \in UnflushedOf(i) : r.key = other) => \E r \in LegacyOf(i) : r.key = k,
           k \in DOMAIN db =>
               /\ other \in DOMAIN db /\ IdentityKey(db[k], <<>>) \in DOMAIN db
               /\ RowRoot(other, db[other]) = RootOf(db[k], db)
    PROVE  /\ other \in DOMAIN db' /\ IdentityKey(db'[k], <<>>) \in DOMAIN db'
           /\ RowRoot(other, db'[other]) = RootOf(db'[k], db')
<1>1. CASE \E r \in LegacyOf(i) : r.key = k
  <2>1. db'[k] = EntryAt(i)
    BY <1>1, CommittedLegacy DEF Left, IsFile
  <2>2. other \in DOMAIN db' /\ RowRoot(other, db'[other]) = root[i]
    BY <1>1, CommittedCanonical DEF Left, IsFile
  <2>3. IdentityKey(EntryAt(i), <<>>) \in DOMAIN db' /\ RootOf(EntryAt(i), db') = root[i]
    BY CommittedRoot DEF RootOf, Identities
  <2>4. IdentityKey(db'[k], <<>>) \in DOMAIN db' /\ RootOf(db'[k], db') = root[i]
    BY <2>1, <2>3
  <2> QED
    BY <2>1, <2>2, <2>4
<1>2. CASE ~\E r \in LegacyOf(i) : r.key = k
  <2>1. \A r \in UnflushedOf(i) : r.key # k /\ r.key # other
    BY <1>2, CanonicalRoots
  <2>2. k \in DOMAIN db /\ db'[k] = db[k]
    BY <1>2, <2>1, CommittedFiles
  <2>3. \A r \in LegacyOf(i) : r.key # other
    BY LegacyOfRows, FiledKeys
  <2>4. other \in DOMAIN db' /\ db'[other] = db[other]
    BY <2>1, <2>2, <2>3, CommittedFiles, CommittedKeys
  <2> QED
    BY <2>2, <2>4, RootStays
<1> QED
  BY <1>1, <1>2

LEMMA FilesCommitRows ==
    ASSUME LockInv, TreeInv, TreeInv', EntityInv, EntityInv', SearchInv, FilesInv,
           NEW i \in Process, Commit(i)
    PROVE  FilesShaped' /\ DbFiles'
<1>1. phase[i] = "commit" /\ FilesShaped /\ DbFiles
  BY DEF Commit, FilesInv
<1>2. DOMAIN own[i] \subseteq DOMAIN db' /\ DOMAIN db \subseteq DOMAIN db'
  BY CommittedKeys
<1>3. FilesShaped'
  <2> SUFFICES ASSUME NEW k \in DOMAIN db', Filed(k) PROVE k = <<k[1], k[2]>>
    BY DEF FilesShaped
  <2>1. CASE \E r \in LegacyOf(i) : r.key = k
    <3>1. PICK r \in LegacyOf(i) : r.key = k
      BY <2>1
    <3>2. r.key = <<r.key[1], r.key[2]>>
      BY LegacyOfRows
    <3> QED
      BY <3>1, <3>2
  <2>2. CASE \E r \in UnflushedOf(i) : r.key = k
    <3>1. \E p : k = FileKey(p) \/ k = AssetKey(p)
      BY <1>1, <2>2, UnflushedEntities DEF Idle
    <3> QED
      BY <3>1 DEF FileKey, AssetKey
  <2>3. CASE k \in DOMAIN db
    BY <1>1, <2>3 DEF FilesShaped
  <2> QED
    BY <2>1, <2>2, <2>3, CommittedFiles
<1>4. ItemKey(EntryAt(i)) \in DOMAIN db'
  BY <1>1, <1>2 DEF LockInv, Locked, EntryAt, Idle
<1>5. \A n \in work[i].detail.nodes : HasEntity(EntityAt(root[i], n), db')
  BY CommittedNodes
<1>6. ASSUME NEW k \in DOMAIN db', k[1] = "media_files"
      PROVE  ItemKey(db'[k]) \in DOMAIN db' /\ FileKey(k[2]) \in DOMAIN db'
  <2>1. Filed(k) /\ \A r \in UnflushedOf(i) : r.key # k
    BY <1>6, CanonicalRoots DEF Filed
  <2>2. CASE \E r \in LegacyOf(i) : r.key = k /\ db'[k] = r.value
    <3>1. PICK v \in Video[work[i].folder] : k = LegacyFileKey(v.path)
      BY <1>6, <2>2, LegacyOfRows, FiledKeys
    <3>2. PICK r \in CanonicalOf(i) : r.key = FileKey(v.path)
      BY FileCounterparts
    <3>3. FileKey(k[2]) \in DOMAIN db'
      BY <3>1, <3>2, CommittedCanonical, FiledKeys
    <3>4. db'[k] = EntryAt(i)
      BY <2>2, LegacyOfRows DEF EntryAt
    <3> QED
      BY <1>4, <3>3, <3>4
  <2>3. CASE k \in DOMAIN db /\ db'[k] = db[k]
    BY <1>1, <1>2, <1>6, <2>3 DEF DbFiles
  <2> QED
    BY <2>1, <2>2, <2>3, CommittedFiles
<1>7. ASSUME NEW k \in DOMAIN db', k[1] = "media_images"
      PROVE  /\ k[2][1] = "tmdb"
             /\ AssetKey(k[2]) \in DOMAIN db' /\ HasRoot(db[AssetKey(k[2])].entity, db[k])'
  <2> DEFINE other == AssetKey(k[2])
  <2>1. Filed(k) /\ Filed(other) /\ other[1] = "artwork_asset" /\ other[2] = k[2]
    BY <1>7, FiledKeys DEF Filed
  <2>2. k = ImageKey(k[2])
    BY <1>3, <1>7, <2>1 DEF FilesShaped, ImageKey
  <2>3. ASSUME NEW r \in LegacyOf(i), r.key = k
        PROVE  \E n \in Images(work[i].detail, work[i].folder) :
                  k = ImageKey(Stored("tmdb", EntryAt(i), n, "image"))
    BY <1>7, <2>3, LegacyOfRows, FiledKeys DEF EntryAt
  <2>4. ASSUME \E r \in LegacyOf(i) : r.key = k PROVE \E r \in CanonicalOf(i) : r.key = other
    <3>1. PICK n \in Images(work[i].detail, work[i].folder) :
             k = ImageKey(Stored("tmdb", EntryAt(i), n, "image"))
      BY <2>3, <2>4
    <3> QED
      BY <3>1, ImageCounterparts, FiledKeys
  <2>5. k[2][1] = "tmdb"
    <3>1. CASE \E r \in LegacyOf(i) : r.key = k
      <4>1. PICK n : k = ImageKey(Stored("tmdb", EntryAt(i), n, "image"))
        BY <2>3, <3>1
      <4> QED
        BY <4>1, FiledKeys, StoredSource
    <3>2. CASE k \in DOMAIN db
      BY <1>1, <1>7, <3>2 DEF DbFiles
    <3>3. CASE \E r \in UnflushedOf(i) : r.key = k
      BY <1>7, <2>1, <3>3, CanonicalRoots
    <3> QED
      BY <2>1, <3>1, <3>2, <3>3, CommittedFiles
  <2>6. ASSUME NEW r \in UnflushedOf(i), r.key = other PROVE \E x \in LegacyOf(i) : x.key = k
    <3>1. PICK p : r.key = AssetKey(p)
                   /\ (p[1] = "tmdb" => \E m \in Images(work[i].detail, work[i].folder) :
                                           p = Stored("tmdb", EntryAt(i), m, "image"))
      BY <1>1, <2>1, <2>6, UnflushedEntities DEF Idle
    <3>2. p = k[2]
      BY <2>1, <2>6, <3>1, FiledKeys
    <3>3. PICK m \in Images(work[i].detail, work[i].folder) :
             k = ImageKey(Stored("tmdb", EntryAt(i), m, "image"))
      BY <2>2, <2>5, <3>1, <3>2
    <3> QED
      BY <3>3, ImageCounterparts
  <2>7. ASSUME k \in DOMAIN db
        PROVE  /\ other \in DOMAIN db /\ IdentityKey(db[k], <<>>) \in DOMAIN db
               /\ RowRoot(other, db[other]) = RootOf(db[k], db)
    BY <1>1, <1>7, <2>1, <2>7 DEF DbFiles, HasRoot, RowRoot
  <2> HIDE DEF other
  <2>8. /\ other \in DOMAIN db' /\ IdentityKey(db'[k], <<>>) \in DOMAIN db'
        /\ RowRoot(other, db'[other]) = RootOf(db'[k], db')
    BY <1>7, <2>1, <2>4, <2>6, <2>7, LegacyCommit
  <2>9. db'[other].entity[1] = RootOf(db'[k], db')
    BY <2>1, <2>8 DEF RowRoot
  <2> QED
    BY <2>5, <2>8, <2>9 DEF HasRoot, other
<1>8. ASSUME NEW k \in DOMAIN db', k[1] = "media_file"
      PROVE  LegacyFileKey(k[2]) \in DOMAIN db' /\ HasEntity(db'[k], db')
  <2>1. Filed(k) /\ \A r \in LegacyOf(i) : r.key # k
    BY <1>8, LegacyOfRows, FiledKeys DEF Filed
  <2>2. CASE \E r \in UnflushedOf(i) : r.key = k /\ db'[k] = r.value
    <3>1. PICK n \in work[i].detail.nodes, v \in Video[work[i].folder] :
             db'[k] = EntityAt(root[i], n) /\ k = FileKey(v.path)
      BY <1>1, <1>8, <2>1, <2>2, UnflushedEntities DEF Idle
    <3>2. LegacyFileKey(v.path) \in DOMAIN db'
      BY FileCounterparts, CommittedLegacy
    <3> QED
      BY <1>5, <3>1, <3>2, FiledKeys
  <2>3. CASE k \in DOMAIN db /\ db'[k] = db[k]
    BY <1>1, <1>2, <1>8, <2>3 DEF DbFiles, HasEntity
  <2> QED
    BY <2>1, <2>2, <2>3, CommittedFiles
<1>9. ASSUME NEW k \in DOMAIN db', k[1] = "artwork_asset"
      PROVE  HasEntity(db'[k].entity, db') /\ (k[2][1] = "tmdb" => ImageKey(k[2]) \in DOMAIN db')
  <2>1. Filed(k) /\ \A r \in LegacyOf(i) : r.key # k
    BY <1>9, LegacyOfRows, FiledKeys DEF Filed
  <2>2. CASE \E r \in UnflushedOf(i) : r.key = k /\ db'[k] = r.value
    <3>1. PICK n \in work[i].detail.nodes :
             /\ db'[k].entity = EntityAt(root[i], n)
             /\ \E p : k = AssetKey(p) /\ (p[1] = "tmdb" =>
                   \E m \in Images(work[i].detail, work[i].folder) :
                      p = Stored("tmdb", EntryAt(i), m, "image"))
      BY <1>1, <1>9, <2>1, <2>2, UnflushedEntities DEF Idle
    <3>2. PICK p : k = AssetKey(p) /\ (p[1] = "tmdb" =>
                      \E m \in Images(work[i].detail, work[i].folder) :
                         p = Stored("tmdb", EntryAt(i), m, "image"))
      BY <3>1
    <3>3. ASSUME p[1] = "tmdb" PROVE ImageKey(p) \in DOMAIN db'
      BY <3>2, <3>3, ImageCounterparts, CommittedLegacy
    <3>4. HasEntity(db'[k].entity, db')
      BY <1>5, <3>1
    <3> QED
      BY <3>2, <3>3, <3>4, FiledKeys
  <2>3. CASE k \in DOMAIN db /\ db'[k] = db[k]
    BY <1>1, <1>2, <1>9, <2>3 DEF DbFiles, HasEntity
  <2> QED
    BY <2>1, <2>2, <2>3, CommittedFiles
<1>10. DbFiles'
  BY <1>6, <1>7, <1>8, <1>9 DEF DbFiles
<1> QED
  BY <1>3, <1>10

\* What is contested is in the catalog: the file of every path that is committed.
LEMMA ContestedCommit ==
    ASSUME LockInv, FilesInv, NEW i \in Process, Commit(i) PROVE ContestedFiles'
<1>1. phase[i] = "commit" /\ Ended(i) /\ StateTyped /\ ContestedFiles
  BY DEF Commit, FilesInv, LockInv
<1>2. contested' = [k \in Process |->
                       IF k \in Active \ {i} THEN contested[k] \cup PathsOf(i) ELSE {}]
  BY DEF Commit
<1>3. ASSUME NEW p \in PathsOf(i) PROVE FileKey(p) \in DOMAIN db'
  <2>1. PICK v \in Video[work[i].folder] : p = v.path
    BY <1>1 DEF PathsOf, VideosOf, Idle
  <2>2. PICK r \in CanonicalOf(i) : r.key = FileKey(v.path)
    BY FileCounterparts
  <2> QED
    BY <2>1, <2>2, CommittedCanonical
<1>4. ASSUME NEW k \in Process, NEW p \in contested'[k] PROVE FileKey(p) \in DOMAIN db'
  <2>1. DOMAIN db \subseteq DOMAIN db'
    BY CommittedKeys
  <2> QED
    BY <1>1, <1>2, <1>3, <1>4, <2>1 DEF ContestedFiles
<1>5. ASSUME NEW k \in Process, ~Working(k)' PROVE contested'[k] = {}
  <2>1. k \notin Active \ {i}
    BY <1>1, <1>5 DEF Active, Working, Ended, StateTyped
  <2> QED
    BY <1>2, <2>1
<1> QED
  BY <1>2, <1>4, <1>5 DEF ContestedFiles

LEMMA FilesCommit ==
    ASSUME LockInv, TreeInv, TreeInv', EntityInv, EntityInv', SearchInv, FilesInv,
           NEW i \in Process, Commit(i)
    PROVE  FilesInv'
<1>1. Ended(i) /\ phase[i] = "commit" /\ Working(i)
  BY DEF Commit, Working, Idle
<1>2. /\ phase'[i] = Idle /\ own'[i] = <<>> /\ session'[i] = {} /\ root'[i] = NoRoot
      /\ \A k \in Process \ {i} : Same(k)
  BY <1>1 DEF Ended, LockInv, StateTyped, EntityInv, WorkTyped, Same
<1>3. RootsTyped'
  <2>1. ASSUME NEW k \in Identities(db') PROVE RootOf(k[2], db') \in RootId
    BY <1>1, <2>1, CommittedRoots DEF FilesInv, RootsTyped
  <2>2. \A k \in Process :
           root'[k] \in RootId \cup {NoRoot} /\ (Working(k)' => root'[k] \in RootId)
    BY <1>2 DEF FilesInv, RootsTyped, Same, Working
  <2> QED
    BY <2>1, <2>2 DEF RootsTyped
<1>4. FoldersTyped'
  BY <1>2 DEF FilesInv, FoldersTyped, Same
<1>5. DOMAIN own'[i] = {}
  BY <1>2
<1>6. OwnFiles(i)'
  BY <1>2, <1>5 DEF OwnFiles, Idle
<1>7. ASSUME NEW k \in Process \ {i} PROVE OwnFiles(k)'
  <2>1. Same(k) /\ OwnFiles(k)
    BY <1>2 DEF FilesInv
  <2>2. /\ Written(k)' = Written(k) /\ LegacyOf(k)' = LegacyOf(k)
        /\ UnflushedOf(k)' = UnflushedOf(k) /\ CanonicalOf(k)' = CanonicalOf(k)
    BY <2>1 DEF Same, Written, LegacyOf, UnflushedOf, CanonicalOf
  <2>3. ASSUME Working(k), NEW r \in LegacyOf(k) \cup CanonicalOf(k), Kept(k, r)
        PROVE  Kept(k, r)'
    BY <2>3, CommitKeeps
  <2>4. FilesToSelect(k)' = FilesToSelect(k) /\ \A r : Holds(own[k], r)' = Holds(own[k], r)
    BY <2>1 DEF Same, FilesToSelect, VideosOf, Holds
  <2>5. /\ phase'[k] = "flush_root" =>
              \A r \in LegacyOf(k)' : r \in Written(k)' \/ Kept(k, r)' \/ r \in FilesToSelect(k)'
        /\ phase'[k] \notin {Idle, "flush_item", "flush_root"} =>
              \A r \in LegacyOf(k)' : Holds(own[k], r)' \/ Kept(k, r)'
        /\ phase'[k] \in {"search", "commit"} =>
              \A r \in CanonicalOf(k)' : r \in Written(k)' \/ Kept(k, r)' \/ r \in FilesToSelect(k)'
    <3>1. CASE Working(k)
      BY <2>1, <2>2, <2>3, <2>4, <3>1 DEF OwnFiles, Same
    <3>2. CASE ~Working(k)
      BY <2>1, <3>2 DEF Working, Same, Idle
    <3> QED
      BY <3>1, <3>2
  <2>6. /\ \A x \in DOMAIN own'[k] : Filed(x) =>
              /\ phase'[k] \notin {Idle, "flush_item", "flush_root"}
              /\ \E r \in LegacyOf(k)' : r.key = x /\ own'[k][x] = r.value
        /\ \A s \in session'[k] : Filed(s.row.key) =>
              \/ phase'[k] = "flush_root" /\ s.row \in LegacyOf(k)'
              \/ phase'[k] \in {"search", "commit"} /\ s.row \in UnflushedOf(k)'
    BY <2>1, <2>2 DEF OwnFiles, Same
  <2> QED
    BY <2>5, <2>6 DEF OwnFiles
<1> QED
  BY <1>3, <1>4, <1>6, <1>7, FilesCommitRows, ContestedCommit DEF FilesInv

-----------------------------------------------------------------------------

\* The files and images that the migration finds, in both layouts.
LEMMA BackfilledFiles ==
    ASSUME NEW l, NEW rootOf, NEW k \in DOMAIN Migrated(l, rootOf), Filed(k)
    PROVE  \E f \in DOMAIN l.said :
              LET value == Migrated(l, rootOf)[k]
                  r == rootOf[l.said[f].entry]
              IN \/ \E v \in l.files[f] : k = LegacyFileKey(v.path) /\ value = l.said[f].entry
                 \/ \E n \in Images(l.said[f], f) :
                       k = ImageKey(Stored("tmdb", l.said[f].entry, n, "image")) /\ value = l.said[f].entry
                 \/ \E v \in l.files[f] :
                       k = FileKey(v.path) /\ value = EntityAt(r, BackfilledNode(l.said[f], v.node))
                 \/ \E n \in Images(l.said[f], f) :
                       k = AssetKey(Stored("tmdb", l.said[f].entry, n, "image")) /\ value.entity = <<r>>
<1>1. PICK q \in BackfilledTable(l, rootOf) : q.key = k /\ Migrated(l, rootOf)[k] = q.value
  BY TableRows DEF Migrated, BackfilledTable
<1>2. PICK f \in DOMAIN l.said :
         q \in ({ItemRow(l.said[f])} \cup LegacyFileRows(l.said[f], l.files[f]) \cup LegacyImageRows(l.said[f], f))
               \cup (BackfilledEntities(l.said[f], l.files[f], rootOf[l.said[f].entry])
                     \cup BackfilledRows(l.said[f], f, l.files[f], rootOf[l.said[f].entry]))
  BY <1>1 DEF BackfilledTable, LegacyTables
<1>3. q # ItemRow(l.said[f])
  BY <1>1, UnfiledRows
<1>4. q \notin BackfilledEntities(l.said[f], l.files[f], rootOf[l.said[f].entry])
  BY <1>1 DEF BackfilledEntities, EntityKey, Row, RowInTurn, Filed
<1>5. CASE q \in LegacyFileRows(l.said[f], l.files[f]) \cup LegacyImageRows(l.said[f], f)
  <2>1. CASE q \in LegacyFileRows(l.said[f], l.files[f])
    BY <1>1, <2>1, FiledLegacyFiles
  <2>2. CASE q \in LegacyImageRows(l.said[f], f)
    BY <1>1, <2>2, FiledLegacyImages
  <2> QED
    BY <1>5, <2>1, <2>2
<1>6. CASE q \in BackfilledRows(l.said[f], f, l.files[f], rootOf[l.said[f].entry])
  <2>1. \/ \E v \in l.files[f] : q = Row(FileKey(v.path),
                                       EntityAt(rootOf[l.said[f].entry], BackfilledNode(l.said[f], v.node)))
        \/ \E n \in Images(l.said[f], f) : q = Row(AssetKey(Stored("tmdb", l.said[f].entry, n, "image")),
                                              [entity |-> <<rootOf[l.said[f].entry]>>, original |-> 0])
    BY <1>1, <1>6 DEF BackfilledRows, IdentityKey, AliasKey, Row, RowInTurn, Filed
  <2> QED
    BY <1>1, <2>1 DEF Row, RowInTurn
<1> QED
  BY <1>2, <1>3, <1>4, <1>5, <1>6

LEMMA BackfilledCounterparts ==
    ASSUME NEW l, NEW rootOf, NEW f \in DOMAIN l.said
    PROVE  /\ ItemKey(l.said[f].entry) \in DOMAIN Migrated(l, rootOf)
           /\ \A v \in l.files[f] :
                LegacyFileKey(v.path) \in DOMAIN Migrated(l, rootOf) /\ FileKey(v.path) \in DOMAIN Migrated(l, rootOf)
           /\ \A n \in Images(l.said[f], f) :
                LET p == Stored("tmdb", l.said[f].entry, n, "image")
                IN ImageKey(p) \in DOMAIN Migrated(l, rootOf) /\ AssetKey(p) \in DOMAIN Migrated(l, rootOf)
<1> DEFINE r == rootOf[l.said[f].entry]
           Image(n) == Stored("tmdb", l.said[f].entry, n, "image")
<1>1. /\ ItemRow(l.said[f]) \in BackfilledTable(l, rootOf)
      /\ LegacyFileRows(l.said[f], l.files[f]) \cup LegacyImageRows(l.said[f], f) \subseteq BackfilledTable(l, rootOf)
      /\ BackfilledRows(l.said[f], f, l.files[f], r) \subseteq BackfilledTable(l, rootOf)
  BY DEF BackfilledTable, LegacyTables
<1>2. ItemRow(l.said[f]).key = ItemKey(l.said[f].entry)
  BY DEF ItemRow, Row, RowInTurn
<1>3. ASSUME NEW v \in l.files[f]
      PROVE  /\ LegacyFileKey(v.path) \in DOMAIN Migrated(l, rootOf)
             /\ FileKey(v.path) \in DOMAIN Migrated(l, rootOf)
  <2> DEFINE old == Row(LegacyFileKey(v.path), l.said[f].entry)
             new == Row(FileKey(v.path), EntityAt(r, BackfilledNode(l.said[f], v.node)))
  <2>1. old \in LegacyFileRows(l.said[f], l.files[f]) /\ new \in BackfilledRows(l.said[f], f, l.files[f], r)
    BY DEF LegacyFileRows, BackfilledRows
  <2>2. old.key = LegacyFileKey(v.path) /\ new.key = FileKey(v.path)
    BY DEF Row, RowInTurn
  <2> QED
    BY <1>1, <2>1, <2>2, BackfilledKeys
<1>4. ASSUME NEW n \in Images(l.said[f], f)
      PROVE  /\ ImageKey(Image(n)) \in DOMAIN Migrated(l, rootOf)
             /\ AssetKey(Image(n)) \in DOMAIN Migrated(l, rootOf)
  <2> DEFINE old == Row(ImageKey(Image(n)), l.said[f].entry)
             new == Row(AssetKey(Image(n)), [entity |-> <<r>>, original |-> 0])
  <2>1. old \in LegacyImageRows(l.said[f], f) /\ new \in BackfilledRows(l.said[f], f, l.files[f], r)
    BY DEF LegacyImageRows, BackfilledRows
  <2>2. old.key = ImageKey(Image(n)) /\ new.key = AssetKey(Image(n))
    BY DEF Row, RowInTurn
  <2> QED
    BY <1>1, <2>1, <2>2, BackfilledKeys
<1> QED
  BY <1>1, <1>2, <1>3, <1>4, BackfilledKeys

\* The entity that the migration attaches a file to.
LEMMA BackfilledOwner ==
    ASSUME NEW l \in Legacy, NEW rootOf, NEW f \in DOMAIN l.said, NEW v \in l.files[f]
    PROVE  EntityKey(EntityAt(rootOf[l.said[f].entry], BackfilledNode(l.said[f], v.node)))
               \in DOMAIN Migrated(l, rootOf)
<1> DEFINE r == rootOf[l.said[f].entry]
           n == BackfilledNode(l.said[f], v.node)
           entity == Row(EntityKey(EntityAt(r, n)), "backfilled")
<1>1. CASE n = <<>>
  <2>1. EntityKey(<<r>>) \in DOMAIN Migrated(l, rootOf)
    BY BackfilledRoot
  <2>2. EntityAt(r, n) = <<r>>
    BY <1>1, EntityAtRoot
  <2> QED
    BY <2>1, <2>2
<1>2. CASE n # <<>>
  <2>1. n = v.node /\ l.said[f].entry \in Series /\ Len(v.node) = 2
    BY <1>2 DEF BackfilledNode
  <2>2. v.node \in Seq(Nat)
    BY LegacyAssumption, FolderAssumption DEF Node
  <2>3. v.node = SubSeq(v.node, 1, 2) /\ 2 \in 1..Len(v.node)
    BY <2>1, <2>2
  <2>4. n \in {SubSeq(v.node, 1, k) : k \in 1..Len(v.node)}
    BY <2>1, <2>3
  <2> HIDE DEF n
  <2>5. n \in UNION {{SubSeq(w.node, 1, k) : k \in 1..Len(w.node)} :
                     w \in {w \in l.files[f] : l.said[f].entry \in Series}}
    BY <2>1, <2>4
  <2> HIDE DEF r
  <2>6. entity \in BackfilledEntities(l.said[f], l.files[f], r)
    BY <2>5 DEF BackfilledEntities
  <2> USE DEF r
  <2>7. entity \in BackfilledTable(l, rootOf) /\ entity.key = EntityKey(EntityAt(r, n))
    BY <2>6 DEF BackfilledTable, Row, RowInTurn
  <2> QED
    BY <2>7, BackfilledKeys DEF n
<1> QED
  BY <1>1, <1>2

LEMMA FilesInit == Init => FilesInv
<1> SUFFICES ASSUME Init PROVE FilesInv
  OBVIOUS
<1>1. PICK l \in Legacy : db = WithDocuments(Migrated(l, LegacyRoot))
  BY DEF Init
<1> DEFINE table == Migrated(l, LegacyRoot)
<1>2. \A k : k[1] # "search_document" =>
         (k \in DOMAIN db <=> k \in DOMAIN table) /\ (k \in DOMAIN table => db[k] = table[k])
  BY <1>1, DocumentsAreAdded
<1>3. ASSUME NEW k \in DOMAIN db, Filed(k)
      PROVE  \E f \in DOMAIN l.said :
                LET r == LegacyRoot[l.said[f].entry]
                IN \/ \E v \in l.files[f] : k = LegacyFileKey(v.path) /\ db[k] = l.said[f].entry
                   \/ \E n \in Images(l.said[f], f) :
                         k = ImageKey(Stored("tmdb", l.said[f].entry, n, "image")) /\ db[k] = l.said[f].entry
                   \/ \E v \in l.files[f] :
                         k = FileKey(v.path) /\ db[k] = EntityAt(r, BackfilledNode(l.said[f], v.node))
                   \/ \E n \in Images(l.said[f], f) :
                         k = AssetKey(Stored("tmdb", l.said[f].entry, n, "image")) /\ db[k].entity = <<r>>
  <2>1. k \in DOMAIN table /\ db[k] = table[k]
    BY <1>2, <1>3 DEF Filed
  <2> QED
    BY <1>3, <2>1, BackfilledFiles
<1>4. ASSUME NEW f \in DOMAIN l.said
      PROVE  /\ ItemKey(l.said[f].entry) \in DOMAIN db
             /\ \A v \in l.files[f] :
                  /\ LegacyFileKey(v.path) \in DOMAIN db /\ FileKey(v.path) \in DOMAIN db
                  /\ HasEntity(EntityAt(LegacyRoot[l.said[f].entry], BackfilledNode(l.said[f], v.node)), db)
             /\ \A n \in Images(l.said[f], f) :
                  /\ ImageKey(Stored("tmdb", l.said[f].entry, n, "image")) \in DOMAIN db
                  /\ AssetKey(Stored("tmdb", l.said[f].entry, n, "image")) \in DOMAIN db
             /\ HasEntity(<<LegacyRoot[l.said[f].entry]>>, db)
             /\ \A x : x[1] = LegacyRoot[l.said[f].entry] => HasRoot(x, l.said[f].entry)
  <2>1. ItemKey(l.said[f].entry) \in DOMAIN db
    BY <1>2, BackfilledCounterparts DEF ItemKey
  <2>2. \A v \in l.files[f] : LegacyFileKey(v.path) \in DOMAIN db /\ FileKey(v.path) \in DOMAIN db
    BY <1>2, BackfilledCounterparts, FiledKeys
  <2>3. \A n \in Images(l.said[f], f) :
           /\ ImageKey(Stored("tmdb", l.said[f].entry, n, "image")) \in DOMAIN db
           /\ AssetKey(Stored("tmdb", l.said[f].entry, n, "image")) \in DOMAIN db
    BY <1>2, BackfilledCounterparts, FiledKeys
  <2>4. \A v \in l.files[f] :
           HasEntity(EntityAt(LegacyRoot[l.said[f].entry], BackfilledNode(l.said[f], v.node)), db)
    BY <1>2, BackfilledOwner, EntityKeyParts DEF HasEntity
  <2>5. HasEntity(<<LegacyRoot[l.said[f].entry]>>, db)
    BY <1>2, BackfilledRoot, EntityKeyParts DEF HasEntity
  <2>6. /\ IdentityKey(l.said[f].entry, <<>>) \in DOMAIN db
        /\ db[IdentityKey(l.said[f].entry, <<>>)] = <<LegacyRoot[l.said[f].entry]>>
    <3>1. /\ IdentityKey(l.said[f].entry, <<>>) \in Identities(table)
          /\ table[IdentityKey(l.said[f].entry, <<>>)] = <<LegacyRoot[l.said[f].entry]>>
      BY BackfilledRoot
    <3>2. IdentityKey(l.said[f].entry, <<>>)[1] # "search_document"
      BY IdentityKeyParts
    <3>3. IdentityKey(l.said[f].entry, <<>>) \in DOMAIN table
      BY <3>1 DEF Identities
    <3> QED
      BY <1>2, <3>1, <3>2, <3>3
  <2>7. \A x : x[1] = LegacyRoot[l.said[f].entry] => HasRoot(x, l.said[f].entry)
    BY <2>6 DEF HasRoot, RootOf
  <2> QED
    BY <2>1, <2>2, <2>3, <2>4, <2>5, <2>7
<1> HIDE DEF table
<1>5. ASSUME NEW k \in DOMAIN db, Filed(k)
      PROVE  \E f \in DOMAIN l.said :
                /\ k[1] = "media_files" =>
                     \E v \in l.files[f] : k = LegacyFileKey(v.path) /\ db[k] = l.said[f].entry
                /\ k[1] = "media_images" =>
                     \E n \in Images(l.said[f], f) :
                        k = ImageKey(Stored("tmdb", l.said[f].entry, n, "image")) /\ db[k] = l.said[f].entry
                /\ k[1] = "media_file" =>
                     \E v \in l.files[f] :
                        /\ k = FileKey(v.path)
                        /\ db[k] = EntityAt(LegacyRoot[l.said[f].entry], BackfilledNode(l.said[f], v.node))
                /\ k[1] = "artwork_asset" =>
                     \E n \in Images(l.said[f], f) :
                        /\ k = AssetKey(Stored("tmdb", l.said[f].entry, n, "image"))
                        /\ db[k].entity = <<LegacyRoot[l.said[f].entry]>>
  <2>1. PICK f \in DOMAIN l.said :
               LET r == LegacyRoot[l.said[f].entry]
               IN \/ \E v \in l.files[f] : k = LegacyFileKey(v.path) /\ db[k] = l.said[f].entry
                  \/ \E n \in Images(l.said[f], f) :
                        k = ImageKey(Stored("tmdb", l.said[f].entry, n, "image")) /\ db[k] = l.said[f].entry
                  \/ \E v \in l.files[f] :
                        k = FileKey(v.path) /\ db[k] = EntityAt(r, BackfilledNode(l.said[f], v.node))
                  \/ \E n \in Images(l.said[f], f) :
                        k = AssetKey(Stored("tmdb", l.said[f].entry, n, "image")) /\ db[k].entity = <<r>>
    BY <1>3, <1>5
  <2>2. CASE k[1] \in {"media_files", "media_images"}
    BY <2>1, <2>2, FiledKeys
  <2>3. CASE k[1] \in {"media_file", "artwork_asset"}
    BY <2>1, <2>3, FiledKeys
  <2> QED
    BY <1>5, <2>2, <2>3 DEF Filed
<1>6. \A e, n, m, f : Stored("tmdb", e, n, "image") = Stored("tmdb", f, m, "image") => e = f
  BY DEF Stored
<1>7. FilesShaped
  BY <1>3 DEF FilesShaped, LegacyFileKey, ImageKey, FileKey, AssetKey
<1>8. DbFiles
  <2>1. ASSUME NEW k \in DOMAIN db, k[1] = "media_files"
        PROVE  ItemKey(db[k]) \in DOMAIN db /\ FileKey(k[2]) \in DOMAIN db
    <3>1. PICK f \in DOMAIN l.said : \E v \in l.files[f] : k = LegacyFileKey(v.path) /\ db[k] = l.said[f].entry
      BY <1>5, <2>1 DEF Filed
    <3>2. PICK v \in l.files[f] : k = LegacyFileKey(v.path) /\ db[k] = l.said[f].entry
      BY <3>1
    <3>3. k[2] = v.path
      BY <3>2, FiledKeys
    <3>4. ItemKey(db[k]) \in DOMAIN db
      BY <1>4, <3>2
    <3>5. FileKey(v.path) \in DOMAIN db
      BY <1>4
    <3> QED
      BY <3>3, <3>4, <3>5
  <2>2. ASSUME NEW k \in DOMAIN db, k[1] = "media_images"
        PROVE  /\ k[2][1] = "tmdb"
               /\ AssetKey(k[2]) \in DOMAIN db /\ HasRoot(db[AssetKey(k[2])].entity, db[k])
    <3>1. PICK f \in DOMAIN l.said : \E n \in Images(l.said[f], f) :
             k = ImageKey(Stored("tmdb", l.said[f].entry, n, "image")) /\ db[k] = l.said[f].entry
      BY <1>5, <2>2 DEF Filed
    <3>2. PICK n \in Images(l.said[f], f) : k = ImageKey(Stored("tmdb", l.said[f].entry, n, "image"))
      BY <3>1
    <3> DEFINE p == Stored("tmdb", l.said[f].entry, n, "image")
    <3>3. AssetKey(p) \in DOMAIN db /\ k[2] = p /\ p[1] = "tmdb"
      <4>1. AssetKey(p) \in DOMAIN db
        BY <1>4
      <4>2. p[1] = "tmdb"
        BY StoredSource
      <4> HIDE DEF p
      <4>3. k[2] = p
        BY <3>2, FiledKeys DEF p
      <4> QED
        BY <4>1, <4>2, <4>3
    <3>4. Filed(AssetKey(p))
      BY FiledKeys DEF Filed
    <3>5. PICK g \in DOMAIN l.said : \E m \in Images(l.said[g], g) :
             /\ AssetKey(p) = AssetKey(Stored("tmdb", l.said[g].entry, m, "image"))
             /\ db[AssetKey(p)].entity = <<LegacyRoot[l.said[g].entry]>>
      BY <1>5, <3>3, <3>4, FiledKeys
    <3>6. l.said[g].entry = l.said[f].entry
      BY <1>6, <3>5, FiledKeys
    <3>7. db[AssetKey(p)].entity[1] = LegacyRoot[l.said[f].entry]
      BY <3>5, <3>6
    <3> QED
      BY <1>4, <3>1, <3>3, <3>7
  <2>3. ASSUME NEW k \in DOMAIN db, k[1] = "media_file"
        PROVE  LegacyFileKey(k[2]) \in DOMAIN db /\ HasEntity(db[k], db)
    <3>1. PICK f \in DOMAIN l.said : \E v \in l.files[f] :
             k = FileKey(v.path) /\ db[k] = EntityAt(LegacyRoot[l.said[f].entry], BackfilledNode(l.said[f], v.node))
      BY <1>5, <2>3 DEF Filed
    <3>2. PICK v \in l.files[f] :
             k = FileKey(v.path) /\ db[k] = EntityAt(LegacyRoot[l.said[f].entry], BackfilledNode(l.said[f], v.node))
      BY <3>1
    <3>3. k[2] = v.path
      BY <3>2, FiledKeys
    <3>4. LegacyFileKey(v.path) \in DOMAIN db /\ HasEntity(db[k], db)
      BY <1>4, <3>2
    <3> QED
      BY <3>3, <3>4
  <2>4. ASSUME NEW k \in DOMAIN db, k[1] = "artwork_asset"
        PROVE  HasEntity(db[k].entity, db) /\ (k[2][1] = "tmdb" => ImageKey(k[2]) \in DOMAIN db)
    <3>1. PICK f \in DOMAIN l.said : \E n \in Images(l.said[f], f) :
             /\ k = AssetKey(Stored("tmdb", l.said[f].entry, n, "image"))
             /\ db[k].entity = <<LegacyRoot[l.said[f].entry]>>
      BY <1>5, <2>4 DEF Filed
    <3>2. PICK n \in Images(l.said[f], f) :
             /\ k = AssetKey(Stored("tmdb", l.said[f].entry, n, "image"))
             /\ db[k].entity = <<LegacyRoot[l.said[f].entry]>>
      BY <3>1
    <3>3. k[2] = Stored("tmdb", l.said[f].entry, n, "image")
      BY <3>2, FiledKeys
    <3>4. HasEntity(db[k].entity, db)
      BY <1>4, <3>2
    <3>5. ImageKey(Stored("tmdb", l.said[f].entry, n, "image")) \in DOMAIN db
      BY <1>4
    <3> QED
      BY <3>3, <3>4, <3>5
  <2> QED
    BY <2>1, <2>2, <2>3, <2>4 DEF DbFiles
<1>9. \A i \in Process : phase[i] = Idle /\ root[i] = NoRoot /\ DOMAIN own[i] = {} /\ session[i] = {}
  BY DEF Init
<1>10. RootsTyped
  <2>1. ASSUME NEW k \in Identities(db) PROVE RootOf(k[2], db) \in RootId
    <3>1. k \in Identities(Migrated(l, LegacyRoot)) /\ db[k] = Migrated(l, LegacyRoot)[k]
      BY <1>1, <2>1, DocumentedIdentities
    <3>2. PICK f \in DOMAIN l.said : k = IdentityKey(l.said[f].entry, <<>>) /\ db[k] = <<LegacyRoot[l.said[f].entry]>>
      BY <3>1, BackfilledIdentities
    <3>3. l.said[f].entry \in Entry
      BY LegacyAssumption, DetailAssumption DEF DetailType
    <3>4. RootOf(k[2], db) = LegacyRoot[l.said[f].entry]
      BY <3>2, IdentityKeyParts DEF RootOf
    <3> QED
      BY <3>3, <3>4, LegacyRootInjective
  <2> QED
    BY <1>9, <2>1 DEF RootsTyped, Working, Idle
<1>11. FoldersTyped /\ ContestedFiles
  BY <1>9 DEF Init, FoldersTyped, ContestedFiles
<1>12. \A i \in Process : OwnFiles(i)
  BY <1>9 DEF OwnFiles, Idle
<1> QED
  BY <1>7, <1>8, <1>10, <1>11, <1>12 DEF FilesInv

LEMMA FilesNext ==
    LockInv /\ TreeInv /\ EntityInv /\ SearchInv /\ FilesInv /\ [Next]_vars => FilesInv'
<1> SUFFICES ASSUME LockInv, TreeInv, EntityInv, SearchInv, FilesInv, [Next]_vars PROVE FilesInv'
  OBVIOUS
<1>1. TreeInv' /\ EntityInv'
  BY TreeStep, EntityNext
<1>2. CASE UNCHANGED vars
  <2>1. UNCHANGED <<db, contested>> /\ \A k \in Process : Same(k)
    BY <1>2 DEF vars, Same
  <2>2. FilesShaped' /\ DbFiles'
    BY <2>1 DEF FilesInv, FilesShaped, DbFiles, HasRoot, HasEntity
  <2>3. RootsTyped' /\ FoldersTyped' /\ ContestedFiles'
    BY <2>1 DEF FilesInv, RootsTyped, FoldersTyped, ContestedFiles, Same, Working
  <2>4. ASSUME NEW k \in Process PROVE OwnFiles(k)'
    <3>1. Same(k) /\ OwnFiles(k)
      BY <2>1 DEF FilesInv
    <3>2. Written(k)' = Written(k) /\ LegacyOf(k)' = LegacyOf(k)
          /\ UnflushedOf(k)' = UnflushedOf(k) /\ CanonicalOf(k)' = CanonicalOf(k)
      BY <3>1 DEF Same, Written, LegacyOf, UnflushedOf, CanonicalOf
    <3>3. FilesToSelect(k)' = FilesToSelect(k)
      BY <3>1 DEF Same, FilesToSelect, VideosOf
    <3>4. \A r : Holds(own[k], r)' = Holds(own[k], r) /\ Kept(k, r)' = Kept(k, r)
      BY <2>1, <3>1 DEF Same, Holds, Kept
    <3> QED
      BY <3>1, <3>2, <3>3, <3>4 DEF Same, OwnFiles
  <2> QED
    BY <2>2, <2>3, <2>4 DEF FilesInv
<1>3. CASE Next
  BY <1>1, <1>3, FilesBegin, FilesFlushMediaItem, FilesSelectFile, FilesFlushRoot, FilesFlushChild, FilesSelect,
     FilesFlushRootIdentity, FilesRefresh, FilesCommit, FilesRollBack DEF Next
<1> QED
  BY <1>2, <1>3

\* Every file and image is in both layouts, with the entity it refers to, and what
\* a transaction does not write of its own is in the database, as it wants it or as
\* an overlapping ingest of the file has made it: the inductive invariant of files.
THEOREM FilesInvariant ==
    Spec => [](LockInv /\ TreeInv /\ EntityInv /\ SearchInv /\ FilesInv)
<1>1. Init => FilesInv
  BY FilesInit
<1>2. LockInv /\ TreeInv /\ EntityInv /\ SearchInv /\ FilesInv /\ [Next]_vars => FilesInv'
  BY FilesNext
<1> QED
  BY <1>1, <1>2, SearchInvariant, PTL DEF Spec

\* No row refers to one that does not exist: no entity is computed for a file or an
\* image that this ingest or an earlier one has not made.
THEOREM CatalogTypeCorrect == Spec => []CatalogTypeOK
  BY FilesInvariant, FilesInvImplies, PTL

\* The legacy and the canonical tables list the same files and images, and each image
\* under the same entry, whatever is ingested, re-matched and rolled back at once, by
\* processes that may be in the same folder.
THEOREM LayoutsAgree == Spec => []FilesAgree
  BY FilesInvariant, FilesInvImplies, PTL
=============================================================================
