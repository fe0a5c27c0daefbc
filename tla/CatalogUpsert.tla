--------------------------- MODULE CatalogUpsert ---------------------------
(***************************************************************************)
(* MetadataIngester._upsert_database, statement by statement: the          *)
(* transactions of the processes of a rolling update on one Postgres, at   *)
(* READ COMMITTED, through SQLAlchemy sessions without autoflush.          *)
(*                                                                         *)
(* A session finds rows with a select, keeps new and changed rows to       *)
(* itself, and writes them when it flushes: a row that was not found is    *)
(* inserted, one that was found and differs is updated.  A write waits for *)
(* a transaction that has written the same key.                            *)
(*                                                                         *)
(* A flush and the selects that follow it are one step where they are      *)
(* selects of rows of the entry, which the flush of the media item has     *)
(* locked.  Files belong to folders, not to entries, and each is a select  *)
(* of its own: two processes may ingest one folder, or one folder and      *)
(* another inside it, for different entries.                               *)
(***************************************************************************)
EXTENDS Backfill, Functions

CONSTANTS
    Process,   \* the processes of the service
    RootId     \* identifiers that new roots may get

ASSUME RootAssumption == \E r \in [Entry -> RootId] : IsInjective(r)

VARIABLES
    db,        \* the committed row of every key that has one
    phase,     \* the next statement of each process
    work,      \* the folder it is ingesting and what the provider said
    own,       \* the rows it has flushed and not yet committed
    session,   \* the rows of its session that wait to be flushed
    root,      \* the root it has found or made
    done,      \* the nodes whose entity and identity it has flushed
    child,     \* the node it is at
    contested  \* history: the files others have committed since it locked its entry

vars == <<db, phase, work, own, session, root, done, child, contested>>

Idle == "idle"
NoWork == [folder |-> "none", detail |-> "none"]
NoRoot == 0

Phase == {Idle, "flush_item", "flush_root", "children", "flush_child",
          "flush_child_identity", "flush_root_identity", "search", "commit"}

\* Entities are named by the root of their tree and their node: the unique
\* indexes on the children of an entity leave one at each.
Entities(table) == {k[2] : k \in {k \in DOMAIN table : k[1] = "media_entity"}}
Identities(table) == {k \in DOMAIN table : k[1] = "provider_identity"}
Files(table) == {k[2] : k \in {k \in DOMAIN table : k[1] = "media_file"}}
LegacyFiles(table) == {k[2] : k \in {k \in DOMAIN table : k[1] = "media_files"}}
LegacyImages(table) == {k[2] : k \in {k \in DOMAIN table : k[1] = "media_images"}}
Assets(table) == {k \in DOMAIN table : k[1] = "artwork_asset"}
Documents(table) == {k[2] : k \in {k \in DOMAIN table : k[1] = "search_document"}}
AliasesOf(x, table) == {k \in DOMAIN table : k[1] = "entity_alias" /\ k[2] = x}

-----------------------------------------------------------------------------
(* The session. *)

Visible(i) == Over(own[i], db)

Found(i, r) == r.key \in DOMAIN Visible(i)

\* Mutant of Rewritten: an item or entity that has not changed is left alone.
RewrittenIfChanged(r) == FALSE

\* metadata_fetched_at is new each time, so these rows are always written.
Rewritten(r) == r.key[1] \in {"media_items", "media_entity"}

\* Mutant of Selected: rows that were found are not updated.
SelectedOnce(i, rows) ==
    {[row |-> r, found |-> Found(i, r), dirty |-> Rewritten(r) \/ ~Found(i, r)] : r \in rows}

\* The rows as the session keeps them, after a select for each.
Selected(i, rows) ==
    {[row |-> r, found |-> Found(i, r),
      dirty |-> Rewritten(r) \/ (Found(i, r) => Visible(i)[r.key] # r.value)] : r \in rows}

Written(i) ==
    LET last == Last({s.row : s \in session[i]})
    IN {s.row : s \in {s \in session[i] : s.dirty /\ s.row \in last}}

MayWrite(i, keys) == \A k \in Process \ {i} : keys \cap DOMAIN own[k] = {}

\* A row that was not found is there by now, or is in the session twice.
Violates(i) ==
    \E s \in session[i] :
        /\ ~s.found
        /\ Found(i, s.row) \/ \E q \in session[i] \ {s} : q.row.key = s.row.key

Ended(i) ==
    /\ phase' = [phase EXCEPT ![i] = Idle]
    /\ work' = [work EXCEPT ![i] = NoWork]
    /\ own' = [own EXCEPT ![i] = <<>>]
    /\ session' = [session EXCEPT ![i] = {}]
    /\ root' = [root EXCEPT ![i] = NoRoot]
    /\ done' = [done EXCEPT ![i] = {}]
    /\ child' = [child EXCEPT ![i] = <<>>]

\* The processes that have locked their entry.
Active == {i \in Process : phase[i] \notin {Idle, "flush_item"}}

VideosOf(i) == IF phase[i] = Idle THEN {} ELSE Video[work[i].folder]
PathsOf(i) == {v.path : v \in VideosOf(i)}

\* Rows that are looked up and added to a session that is otherwise flushed.
Add(i, rows) == session' = [session EXCEPT ![i] = Selected(i, rows)]

Flush(i) ==
    /\ MayWrite(i, {r.key : r \in Written(i)})
    /\ ~Violates(i)
    /\ own' = [own EXCEPT ![i] = Over(Table(Written(i)), @)]

\* The rows of files that are looked up before the next flush, each in its turn.
FilesToSelect(i) ==
    (IF phase[i] = "flush_root" THEN LegacyFileRows(work[i].detail, VideosOf(i))
     ELSE IF phase[i] = "search" THEN FileRows(work[i].detail, work[i].folder, root[i])
     ELSE {})
    \ {s.row : s \in session[i]}

At(i, here, next) == phase[i] = here /\ phase' = [phase EXCEPT ![i] = next]

-----------------------------------------------------------------------------
(* The statements. *)

\* The media item is looked up.
Begin(i) ==
    /\ At(i, Idle, "flush_item")
    /\ \E f \in Folder, d \in Detail :
        /\ work' = [work EXCEPT ![i] = [folder |-> f, detail |-> d]]
        /\ Add(i, {ItemRow(d)})
    /\ UNCHANGED <<db, own, root, done, child, contested>>

\* Mutant of KnownRoot: the provider identity is not looked up.
RootForgotten(i) == {}

KnownRoot(i) ==
    LET key == IdentityKey(work[i].detail.entry, <<>>)
    IN IF key \in DOMAIN Visible(i) THEN {Visible(i)[key][1]} ELSE {}

FreshRoots ==
    {r \in RootId : \A k \in Process : root[k] # r /\ EntityKey(<<r>>) \notin DOMAIN Visible(k)}

\* Then the legacy images, and the root by its identity.
FlushMediaItem(i) ==
    LET d == work[i].detail
    IN /\ At(i, "flush_item", "flush_root")
       /\ Flush(i)
       /\ \E r \in IF KnownRoot(i) # {} THEN KnownRoot(i)
                   ELSE {x \in FreshRoots : \A y \in FreshRoots : x <= y} :
            /\ root' = [root EXCEPT ![i] = r]
            /\ Add(i, LegacyImageRows(d, work[i].folder) \cup {EntityRow(<<>>, r)})
       /\ UNCHANGED <<db, work, done, child, contested>>

\* The next file of the folder, in the order of their paths.
SelectFile(i) ==
    /\ \E r \in FilesToSelect(i) :
        /\ \A q \in FilesToSelect(i) : r.key[2] <= q.key[2]
        /\ session' = [session EXCEPT ![i] = @ \cup Selected(i, {r})]
    /\ UNCHANGED <<db, phase, work, own, root, done, child, contested>>

FlushRoot(i) ==
    /\ At(i, "flush_root", "children")
    /\ FilesToSelect(i) = {}
    /\ Flush(i)
    /\ Add(i, {})
    /\ UNCHANGED <<db, work, root, done, child, contested>>

\* A season after the root, an episode after its season, in any order else.
SelectChild(i, n) ==
    /\ At(i, "children", "flush_child")
    /\ n \in work[i].detail.nodes \ ({<<>>} \cup done[i])
    /\ SubSeq(n, 1, Len(n) - 1) \in {<<>>} \cup done[i]
    /\ child' = [child EXCEPT ![i] = n]
    /\ Add(i, {EntityRow(n, root[i])})
    /\ UNCHANGED <<db, work, own, root, done, contested>>

FlushChild(i) ==
    /\ At(i, "flush_child", "flush_child_identity")
    /\ Flush(i)
    /\ Add(i, {IdentityRow(work[i].detail, child[i], root[i])})
    /\ UNCHANGED <<db, work, root, done, child, contested>>

FlushChildIdentity(i) ==
    /\ At(i, "flush_child_identity", "children")
    /\ Flush(i)
    /\ Add(i, {})
    /\ done' = [done EXCEPT ![i] = @ \cup {child[i]}]
    /\ child' = [child EXCEPT ![i] = <<>>]
    /\ UNCHANGED <<db, work, root, contested>>

SelectRootIdentity(i) ==
    /\ At(i, "children", "flush_root_identity")
    /\ work[i].detail.nodes \subseteq {<<>>} \cup done[i]
    /\ Add(i, {IdentityRow(work[i].detail, <<>>, root[i])})
    /\ UNCHANGED <<db, work, own, root, done, child, contested>>

\* Then aliases, and artwork of the provider and the folder; the canonical files
\* that come between them are next.
FlushRootIdentity(i) ==
    /\ At(i, "flush_root_identity", "search")
    /\ Flush(i)
    /\ Add(i, EntryRows(work[i].detail, work[i].folder, root[i]))
    /\ UNCHANGED <<db, work, root, done, child, contested>>

\* Mutant of Documented: only the root is refreshed.
DocumentedRoot(i) == {<<root[i]>>}

\* Mutant of Documented: an entity that has a document is left alone.
DocumentedOnce(i) ==
    {EntityAt(root[i], n) : n \in {n \in work[i].detail.nodes :
        DocumentKey(EntityAt(root[i], n)) \notin DOMAIN Visible(i)}}

Documented(i) == {EntityAt(root[i], n) : n \in work[i].detail.nodes}

\* One statement of raw SQL: it sees what is flushed and not the session.
RefreshSearchDocuments(i) ==
    LET rows == {Row(DocumentKey(x), AliasesOf(x, Visible(i))) : x \in Documented(i)}
    IN /\ At(i, "search", "commit")
       /\ FilesToSelect(i) = {}
       /\ MayWrite(i, {r.key : r \in rows})
       /\ own' = [own EXCEPT ![i] = Over(Table(rows), @)]
       /\ UNCHANGED <<db, work, session, root, done, child, contested>>

\* The commit flushes the session first.
Commit(i) ==
    /\ phase[i] = "commit"
    /\ MayWrite(i, {r.key : r \in Written(i)})
    /\ ~Violates(i)
    /\ db' = Over(Table(Written(i)), Visible(i))
    /\ contested' = [k \in Process |->
                        IF k \in Active \ {i} THEN contested[k] \cup PathsOf(i) ELSE {}]
    /\ Ended(i)

\* A flush raises IntegrityError, and the ingest fails.
Violate(i) ==
    /\ phase[i] \in {"flush_item", "flush_root", "flush_child", "flush_child_identity",
                     "flush_root_identity", "commit"}
    /\ MayWrite(i, {r.key : r \in Written(i)})
    /\ Violates(i)
    /\ contested' = [contested EXCEPT ![i] = {}]
    /\ Ended(i)
    /\ UNCHANGED db

\* Mutant of RollBack: every flush is committed at once.
RollBackAutocommit(i) ==
    /\ phase[i] # Idle
    /\ contested' = [contested EXCEPT ![i] = {}]
    /\ Ended(i)
    /\ db' = Visible(i)

\* The process dies, or the database refuses a statement.
RollBack(i) ==
    /\ phase[i] # Idle
    /\ contested' = [contested EXCEPT ![i] = {}]
    /\ Ended(i)
    /\ UNCHANGED db

\* Migration 0005 makes a document for every entity.
WithDocuments(table) ==
    Over(Table({Row(DocumentKey(x), AliasesOf(x, table)) : x \in Entities(table)}), table)

LegacyRoot == CHOOSE r \in [Entry -> RootId] : IsInjective(r)

Init ==
    /\ \E l \in Legacy : Migrates(l) /\ db = WithDocuments(Migrated(l, LegacyRoot))
    /\ phase = [i \in Process |-> Idle]
    /\ work = [i \in Process |-> NoWork]
    /\ own = [i \in Process |-> <<>>]
    /\ session = [i \in Process |-> {}]
    /\ root = [i \in Process |-> NoRoot]
    /\ done = [i \in Process |-> {}]
    /\ child = [i \in Process |-> <<>>]
    /\ contested = [i \in Process |-> {}]

Next ==
    \E i \in Process :
        \/ Begin(i) \/ FlushMediaItem(i) \/ SelectFile(i) \/ FlushRoot(i)
        \/ phase[i] = "children" /\ \E n \in work[i].detail.nodes : SelectChild(i, n)
        \/ FlushChild(i) \/ FlushChildIdentity(i)
        \/ SelectRootIdentity(i) \/ FlushRootIdentity(i)
        \/ RefreshSearchDocuments(i) \/ Commit(i) \/ Violate(i) \/ RollBack(i)

Spec == Init /\ [][Next]_vars

-----------------------------------------------------------------------------
(* What must hold of the catalog. *)

\* Every row refers to rows that exist (the foreign keys, and the legacy files
\* to their item): code that computes an entity for a file or an image may not
\* name one that this or an earlier ingest has not made.
CatalogTypeOK ==
    /\ phase \in [Process -> Phase]
    /\ root \in [Process -> RootId \cup {NoRoot}]
    /\ done \in [Process -> SUBSET Node]
    /\ \A p \in LegacyFiles(db) : ItemKey(db[LegacyFileKey(p)]) \in DOMAIN db
    /\ \A p \in Files(db) : db[FileKey(p)] \in Entities(db)
    /\ \A k \in Assets(db) : db[k].entity \in Entities(db)
    /\ \A k \in Identities(db) : db[k] \in Entities(db)
    /\ \A i \in Process : contested[i] \subseteq Files(db)

\* Roots have no unique constraint of their own.  Still every entity has exactly
\* one identity, and the seasons and episodes of an entry hang below its root:
\* no ingest leaves an orphaned tree behind, whatever raced with it.  Only seasons
\* and episodes that the migration made lack one, until an ingest finds them.
EntitiesAreIdentified ==
    /\ \A x \in Entities(db) \ {db[k] : k \in Identities(db)} :
        Len(x) > 1 /\ db[EntityKey(x)] = "backfilled"
    /\ \A k \in Identities(db) : db[k] \in Entities(db)
    /\ \A k, m \in Identities(db) : db[k] = db[m] => k = m
    /\ \A k \in Identities(db) : db[k] = EntityAt(db[IdentityKey(k[2], <<>>)][1], k[3])

\* The legacy and the canonical tables list the same files and images, and each
\* image under the same entry of the provider: _upsert_media_files and
\* _upsert_media_images are flushed with the root, their canonical counterparts
\* with the commit, and another process may ingest the same files in between.
\* Whose file it is they may not agree on: see Catalog!Finish.
FilesAgree ==
    /\ Files(db) = LegacyFiles(db)
    /\ LegacyImages(db) = {k[2] : k \in {k \in Assets(db) : k[2][1] = "tmdb"}}
    /\ \A p \in LegacyImages(db) :
        db[AssetKey(p)].entity[1] = db[IdentityKey(db[ImageKey(p)], <<>>)][1]

\* The flush of the media item, the first of a transaction, serialises the
\* ingests of one entry: no other process writes any row while it is open.
EntryIsLocked ==
    \A i, k \in Process :
        i # k /\ own[i] # <<>> /\ own[k] # <<>> => work[i].detail.entry # work[k].detail.entry

\* Every entity of the catalog can be found: refresh_search_documents has made a
\* document for it, which lists no alias that the entity does not have.
EntitiesAreSearchable ==
    /\ Documents(db) = Entities(db)
    /\ \A x \in Documents(db) : db[DocumentKey(x)] \subseteq AliasesOf(x, db)

\* What an ingest commits can be found by every alias committed before it: no other
\* ingest of its entities slips in between its refresh and its commit.  With
\* DocumentsHaveAliases violated, search is one ingest behind and no more.
AliasesReachSearch ==
    [][\A i \in Process : phase[i] = "commit" /\ phase'[i] = Idle /\ db' # db =>
          \A n \in work[i].detail.nodes :
             LET x == EntityAt(root[i], n) IN AliasesOf(x, db) \subseteq db'[DocumentKey(x)]]_vars

\* The entity of an identity never changes: success markers and other services
\* hold on to its identifier.
IdentityIsStable == [][\A k \in Identities(db) : db'[k] = db[k]]_vars

\* README.md:122-128: search documents include aliases, and the ingester refreshes
\* them after metadata changes.
DocumentsHaveAliases ==
    \A x \in Documents(db) : db[DocumentKey(x)] = AliasesOf(x, db)

\* README.md:80-81: local artwork is stored in artwork_asset.  So what an ingest
\* adds to that table must not collide, or its commit fails whenever it is tried.
LocalArtworkIsStored ==
    \A i \in Process : phase[i] = "commit" =>
        \A s, q \in session[i] :
            s # q /\ s.row.key = q.row.key /\ s.row.key[1] = "artwork_asset" => s.found

-----------------------------------------------------------------------------
(* The catalog as Catalog sees it: trees are known by their entries, the      *)
(* entity at node n of entry e is <<e>> \o n, and search documents are left   *)
(* out, as they lag behind.                                                   *)

EntryOf(r) == CHOOSE e \in Entry : IdentityKey(e, <<>>) \in DOMAIN db /\ db[IdentityKey(e, <<>>)] = <<r>>

Named(x) == [x EXCEPT ![1] = EntryOf(x[1])]
Unnamed(x) == [x EXCEPT ![1] = db[IdentityKey(x[1], <<>>)][1]]

NamesEntity(k) == k[1] \in {"media_entity", "entity_alias"}
NamedKey(k) == IF NamesEntity(k) THEN [k EXCEPT ![2] = Named(k[2])] ELSE k
UnnamedKey(k) == IF NamesEntity(k) THEN [k EXCEPT ![2] = Unnamed(k[2])] ELSE k

NamedValue(k) ==
    CASE k[1] \in {"provider_identity", "media_file"} -> Named(db[k])
      [] k[1] = "artwork_asset" -> [db[k] EXCEPT !.entity = Named(db[k].entity)]
      [] OTHER -> db[k]

Promised == {k \in DOMAIN db : k[1] # "search_document"}

FileKeys(paths) == {LegacyFileKey(p) : p \in paths} \cup {FileKey(p) : p \in paths}

ByEntry == [e \in Entry |-> e]

AllRows(d, f) ==
    {ItemRow(d)} \cup LegacyRows(d, f)
    \cup {EntityRow(n, d.entry) : n \in d.nodes}
    \cup {IdentityRow(d, n, d.entry) : n \in d.nodes}
    \cup UnflushedRows(d, f, d.entry)

InitialTables == {Migrated(l, ByEntry) : l \in {l \in Legacy : Migrates(l)}}
IngestedTables == [ingest \in Detail \X Folder |-> Table(AllRows(ingest[1], ingest[2]))]

Abstract == INSTANCE Catalog WITH
    Ingester <- Process,
    Initial <- InitialTables,
    Ingested <- IngestedTables,
    Shared <- FileKeys(UNION {{v.path : v \in Video[f]} : f \in Folder}),
    catalog <- [k \in {NamedKey(k) : k \in Promised} |-> NamedValue(UnnamedKey(k))],
    open <- Active,
    contested <- [i \in Process |-> FileKeys(contested[i])]

\* Transactions of several processes, statement by statement, amount to ingests
\* that happen one after the other, each as a whole but for files that an
\* overlapping ingest has committed: Abstract!Spec, of which the steps that change
\* db are the ones worth TLC's time.
ImplementsCatalog == Abstract!Init /\ [][db' # db => Abstract!Next]_vars
=============================================================================
