---------------------- MODULE CatalogRefinementProofs ----------------------
(***************************************************************************)
(* Transactions that interleave statement by statement amount to ingests   *)
(* that happen one after the other but for contested files (Catalog), for  *)
(* any number of processes, provider answers, folders and migrated         *)
(* databases.                                                              *)
(*                                                                         *)
(* A transaction lists exactly the rows of its ingest, with the root it    *)
(* has looked up (RowsInv), and commits all of them: those it does not     *)
(* write are in the database as it wants them, unless they are rows of     *)
(* contested files.  Then trees are named by their entries, before and     *)
(* after the commit.                                                       *)
(***************************************************************************)
EXTENDS CatalogFileProofs

\* The rows of an ingest whose tree has root r.
RowsAt(d, f, r) ==
    {ItemRow(d)} \cup LegacyRows(d, f)
    \cup {EntityRow(n, r) : n \in d.nodes}
    \cup {IdentityRow(d, n, r) : n \in d.nodes}
    \cup UnflushedRows(d, f, r)

RowsOf(i) == RowsAt(work[i].detail, work[i].folder, root[i])

-----------------------------------------------------------------------------
(* The invariant. *)

\* Entities and aliases belong to trees whose roots are identified.
EntitiesRooted ==
    \A k \in DOMAIN db : k[1] = "media_entity" =>
        \E m \in Identities(db), n \in Node : k[2] = EntityAt(RootOf(m[2], db), n)

AliasesRooted ==
    \A k \in DOMAIN db : k[1] = "entity_alias" =>
        \E m \in Identities(db) : k = AliasKey(<<RootOf(m[2], db)>>, k[3], k[4])

EntriesTyped == \A k \in Identities(db) : k[2] \in Entry

\* What a transaction holds are rows of its ingest.
RowsListed(i) ==
    phase[i] # Idle =>
        /\ \A s \in session[i] : s.row \in RowsOf(i)
        /\ \A k \in DOMAIN own[i] : k[1] # "search_document" =>
              \E q \in RowsOf(i) : q.key = k /\ own[i][k] = q.value

EntitiesWritten(i) == \A n \in done[i] : HasEntity(EntityAt(root[i], n), own[i])

\* What is kept to the commit is in the session or still to be looked up; what is
\* not of a file is written with the commit, or is in the database.
RowsHeld(i) ==
    phase[i] \in {"search", "commit"} =>
        /\ {s.row : s \in session[i]} \cup FilesToSelect(i) = UnflushedOf(i)
        /\ \A r \in Last(UnflushedOf(i)) : ~IsFile(r.key) => r \in Written(i) \/ Holds(db, r)

RowsInv ==
    /\ EntitiesRooted
    /\ AliasesRooted
    /\ EntriesTyped
    /\ \A i \in Process : RowsListed(i) /\ EntitiesWritten(i) /\ RowsHeld(i)

-----------------------------------------------------------------------------
(* The statements of a transaction. *)

\* The kinds of rows of an ingest.
LEMMA ListedKinds ==
    ASSUME NEW d, NEW f, NEW r
    PROVE  /\ ItemRow(d) \in RowsAt(d, f, r)
           /\ LegacyRows(d, f) \subseteq RowsAt(d, f, r)
           /\ \A n \in d.nodes : EntityRow(n, r) \in RowsAt(d, f, r)
           /\ \A n \in d.nodes : IdentityRow(d, n, r) \in RowsAt(d, f, r)
           /\ UnflushedRows(d, f, r) \subseteq RowsAt(d, f, r)
  BY DEF RowsAt

LEMMA LegacyListed ==
    ASSUME NEW i PROVE LegacyOf(i) = LegacyRows(work[i].detail, work[i].folder)
  BY DEF LegacyOf, LegacyRows

\* The legacy rows of an ingest.
LEMMA FiledLegacyRows ==
    ASSUME NEW d, NEW f, NEW q \in LegacyRows(d, f)
    PROVE  /\ Filed(q.key) /\ q.value = d.entry /\ q.turn = 0
           /\ q.key[1] \in {"media_files", "media_images"}
           /\ q.key[1] = "media_files" => q \in LegacyFileRows(d, Video[f])
<1>1. CASE q \in LegacyFileRows(d, Video[f])
  BY <1>1, FiledLegacyFiles, FiledKeys
<1>2. CASE q \in LegacyImageRows(d, f)
  BY <1>2, FiledLegacyImages, FiledKeys
<1> QED
  BY <1>1, <1>2 DEF LegacyRows

\* The rows of files among those that are kept to the commit.
LEMMA UnflushedFiles ==
    ASSUME NEW d, NEW f, NEW r
    PROVE  /\ FileRows(d, f, r) \subseteq UnflushedRows(d, f, r)
           /\ \A q \in FileRows(d, f, r) : IsFile(q.key) /\ q.key[1] = "media_file" /\ q.turn = 0
           /\ \A q \in UnflushedRows(d, f, r) : IsFile(q.key) => q \in FileRows(d, f, r)
           /\ \A q \in EntryRows(d, f, r) : ~IsFile(q.key)
<1>1. \A q \in FileRows(d, f, r) : IsFile(q.key) /\ q.key[1] = "media_file" /\ q.turn = 0
  BY FiledFiles, FiledKeys DEF IsFile
<1>2. ASSUME NEW q \in EntryRows(d, f, r) PROVE ~IsFile(q.key)
  <2>1. CASE q \in AliasRows(d, f, r)
    BY <2>1 DEF AliasRows, AliasKey, Row, RowInTurn, IsFile
  <2>2. CASE q \in ProviderAssetRows(d, f, r) \cup LocalAssetRows(d, f, r)
    BY <2>2, FiledAssets, FiledLocalAssets, FiledKeys DEF IsFile
  <2> QED
    BY <2>1, <2>2 DEF EntryRows
<1> QED
  BY <1>1, <1>2 DEF UnflushedRows

\* A step of process i that commits nothing.
LEMMA RowsStep ==
    ASSUME RowsInv, NEW i \in Process, UNCHANGED db, \A k \in Process \ {i} : Same(k),
           RowsListed(i)', EntitiesWritten(i)', RowsHeld(i)'
    PROVE  RowsInv'
<1>1. EntitiesRooted' /\ AliasesRooted' /\ EntriesTyped'
  <2>1. EntitiesRooted'
    BY DEF RowsInv, EntitiesRooted
  <2>2. AliasesRooted'
    BY DEF RowsInv, AliasesRooted
  <2>3. EntriesTyped'
    BY DEF RowsInv, EntriesTyped
  <2> QED
    BY <2>1, <2>2, <2>3
<1>2. ASSUME NEW k \in Process \ {i} PROVE RowsListed(k)' /\ EntitiesWritten(k)' /\ RowsHeld(k)'
  <2>1. Same(k) /\ RowsListed(k) /\ EntitiesWritten(k) /\ RowsHeld(k)
    BY DEF RowsInv
  <2>2. /\ RowsOf(k)' = RowsOf(k) /\ UnflushedOf(k)' = UnflushedOf(k) /\ Written(k)' = Written(k)
    BY <2>1 DEF Same, RowsOf, UnflushedOf, Written
  <2>3. RowsListed(k)'
    BY <2>1, <2>2 DEF Same, RowsListed
  <2>4. EntitiesWritten(k)'
    BY <2>1 DEF Same, EntitiesWritten, HasEntity
  <2>5. RowsHeld(k)'
    <3>1. FilesToSelect(k)' = FilesToSelect(k)
      BY <2>1 DEF Same, FilesToSelect, VideosOf
    <3> QED
      BY <2>1, <2>2, <3>1 DEF Same, RowsHeld, Holds
  <2> QED
    BY <2>3, <2>4, <2>5
<1> QED
  BY <1>1, <1>2 DEF RowsInv

\* A table has rows of the list only, documents aside.
Listed(t, listed) ==
    \A k \in DOMAIN t : k[1] # "search_document" => \E q \in listed : q.key = k /\ t[k] = q.value

\* What a flush adds to a transaction, and what it leaves in it.
LEMMA ListedRowsWritten ==
    ASSUME StateTyped, NEW i \in Process, NEW rows, Writes(i, rows), NEW listed,
           \A q \in rows : q.key[1] = "search_document" \/ q \in listed,
           Listed(own[i], listed)
    PROVE  Listed(own'[i], listed)
<1>1. own'[i] = Over(Table(rows), own[i])
  BY DEF Writes, StateTyped
<1>2. DOMAIN own'[i] = DOMAIN Table(rows) \cup DOMAIN own[i]
  BY WritesKeys
<1>3. ASSUME NEW k \in DOMAIN own'[i], k[1] # "search_document"
      PROVE  \E q \in listed : q.key = k /\ own'[i][k] = q.value
  <2>1. CASE k \in DOMAIN Table(rows)
    <3>1. own'[i][k] = Table(rows)[k]
      BY <1>1, <2>1 DEF Over
    <3>2. PICK q \in rows : q.key = k /\ Table(rows)[k] = q.value
      BY <2>1, TableRows
    <3> QED
      BY <1>3, <3>1, <3>2
  <2>2. CASE k \notin DOMAIN Table(rows)
    <3>1. k \in DOMAIN own[i] /\ own'[i][k] = own[i][k]
      BY <1>1, <1>2, <1>3, <2>2 DEF Over
    <3> QED
      BY <1>3, <3>1 DEF Listed
  <2> QED
    BY <2>1, <2>2
<1> QED
  BY <1>3 DEF Listed

\* A flush within a transaction that has its root, and rows that are added then.
LEMMA ListedFlush ==
    ASSUME LockInv, RowsInv, NEW i \in Process, phase[i] # Idle, UNCHANGED <<work, root>>,
           Writes(i, Written(i)), NEW rows, Add(i, rows), rows \subseteq RowsOf(i)
    PROVE  /\ RowsListed(i)'
           /\ DOMAIN own[i] \subseteq DOMAIN own'[i]
<1>1. RowsListed(i) /\ StateTyped
  BY DEF RowsInv, LockInv
<1>2. RowsOf(i)' = RowsOf(i)
  BY DEF RowsOf
<1>3. \A q \in Written(i) : q \in RowsOf(i)
  BY <1>1, WrittenIsInSession DEF RowsListed
<1>4. DOMAIN own[i] \subseteq DOMAIN own'[i]
  BY <1>1, WritesKeys
<1>6. Listed(own'[i], RowsOf(i))
  <2>1. Listed(own[i], RowsOf(i))
    BY <1>1 DEF RowsListed, Listed
  <2> QED
    BY <1>1, <1>3, <2>1, ListedRowsWritten
<1>5. \A s \in session'[i] : s.row \in RowsOf(i)
  BY Added
<1> QED
  BY <1>2, <1>4, <1>5, <1>6 DEF RowsListed, Listed

\* A select of rows without a flush.
LEMMA ListedSelect ==
    ASSUME LockInv, RowsInv, NEW i \in Process, phase[i] # Idle, UNCHANGED <<work, root, own>>,
           NEW rows, Add(i, rows), rows \subseteq RowsOf(i)
    PROVE  RowsListed(i)'
<1>1. RowsListed(i)
  BY DEF RowsInv
<1>2. RowsOf(i)' = RowsOf(i)
  BY DEF RowsOf
<1>3. \A s \in session'[i] : s.row \in RowsOf(i)
  BY Added
<1> QED
  BY <1>1, <1>2, <1>3 DEF RowsListed

\* A flush takes no entity away.
LEMMA EntitiesStayWritten ==
    ASSUME NEW i \in Process, EntitiesWritten(i), DOMAIN own[i] \subseteq DOMAIN own'[i],
           UNCHANGED <<root, done>>
    PROVE  EntitiesWritten(i)'
  BY DEF EntitiesWritten, HasEntity

LEMMA RootListed ==
    ASSUME EntityInv, NEW i \in Process, phase[i] # Idle
    PROVE  <<>> \in work[i].detail.nodes
  BY DetailAssumption DEF EntityInv, WorkTyped

\* One lemma per statement.
LEMMA RowsBegin ==
    ASSUME LockInv, EntityInv, RowsInv, NEW i \in Process, Begin(i)
    PROVE  RowsInv'
<1>1. PICK f \in Folder, d \in Detail :
         work' = [work EXCEPT ![i] = [folder |-> f, detail |-> d]] /\ Add(i, {ItemRow(d)})
  BY DEF Begin
<1>2. /\ phase[i] = Idle /\ phase'[i] = "flush_item" /\ UNCHANGED <<db, own, root, done>>
      /\ work'[i].folder = f /\ work'[i].detail = d
  BY <1>1 DEF Begin, At, LockInv, StateTyped
<1>3. DOMAIN own[i] = {} /\ done[i] = {}
  BY <1>2 DEF LockInv, Locked, EntityInv, ProcessEntities, OwnEntities
<1>4. \A s \in session'[i] : s.row = ItemRow(d)
  BY <1>1, Added
<1>5. RowsOf(i)' = RowsAt(d, f, root[i])
  BY <1>2 DEF RowsOf
<1>6. RowsListed(i)'
  BY <1>2, <1>3, <1>4, <1>5, ListedKinds DEF RowsListed
<1>7. EntitiesWritten(i)' /\ RowsHeld(i)'
  BY <1>2, <1>3 DEF EntitiesWritten, RowsHeld
<1> QED
  BY <1>2, <1>6, <1>7, OthersSame, RowsStep

LEMMA RowsFlushMediaItem ==
    ASSUME LockInv, EntityInv, RowsInv, NEW i \in Process, FlushMediaItem(i)
    PROVE  RowsInv'
<1>1. PICK r : /\ root' = [root EXCEPT ![i] = r]
               /\ Add(i, LegacyImageRows(work[i].detail, work[i].folder) \cup {EntityRow(<<>>, r)})
  BY DEF FlushMediaItem
<1>2. /\ phase[i] = "flush_item" /\ phase'[i] = "flush_root" /\ root'[i] = r
      /\ Writes(i, Written(i)) /\ UNCHANGED <<db, work, done>> /\ StateTyped
  BY <1>1, FlushWrites DEF FlushMediaItem, At, LockInv, StateTyped
<1>3. DOMAIN own[i] = {} /\ done[i] = {}
  BY <1>2 DEF LockInv, Locked, EntityInv, ProcessEntities, OwnEntities
<1>4. RowsOf(i)' = RowsAt(work[i].detail, work[i].folder, r)
  BY <1>2 DEF RowsOf
<1>5. \A q \in Written(i) : q \in RowsAt(work[i].detail, work[i].folder, r)
  BY <1>2, WrittenIsInSession, ListedKinds DEF LockInv, ItemFirst
<1>6. \A k \in DOMAIN own'[i] : k[1] # "search_document" =>
         \E q \in RowsAt(work[i].detail, work[i].folder, r) : q.key = k /\ own'[i][k] = q.value
  <2> DEFINE listed == RowsAt(work[i].detail, work[i].folder, r)
  <2>1. Listed(own[i], listed)
    BY <1>3 DEF Listed
  <2>2. \A q \in Written(i) : q.key[1] = "search_document" \/ q \in listed
    BY <1>5
  <2> HIDE DEF listed
  <2>3. StateTyped /\ Writes(i, Written(i))
    BY <1>2
  <2>4. Listed(own'[i], listed)
    BY <2>1, <2>2, <2>3, ListedRowsWritten
  <2> QED
    BY <2>4 DEF listed, Listed
<1>7. \A s \in session'[i] : s.row \in RowsAt(work[i].detail, work[i].folder, r)
  <2>1. \A s \in session'[i] :
           s.row \in LegacyImageRows(work[i].detail, work[i].folder) \cup {EntityRow(<<>>, r)}
    BY <1>1, Added
  <2>2. <<>> \in work[i].detail.nodes
    BY <1>2, RootListed DEF Idle
  <2> QED
    BY <2>1, <2>2, ListedKinds DEF LegacyRows
<1>8. RowsListed(i)'
  BY <1>4, <1>6, <1>7 DEF RowsListed
<1>9. EntitiesWritten(i)' /\ RowsHeld(i)'
  BY <1>2, <1>3 DEF EntitiesWritten, RowsHeld
<1> QED
  BY <1>2, <1>8, <1>9, OthersSame, RowsStep

LEMMA RowsSelectFile ==
    ASSUME LockInv, EntityInv, RowsInv, NEW i \in Process, SelectFile(i)
    PROVE  RowsInv'
<1>1. PICK q : FileSelected(i, q)
  BY FileIsSelected
<1>2. /\ phase[i] \in {"flush_root", "search"} /\ q \in FilesToSelect(i)
      /\ UNCHANGED <<db, phase, work, own, root, done, child, contested>>
  BY <1>1 DEF FileSelected
<1>3. session'[i] = session[i] \cup Selected(i, {q})
  BY <1>1 DEF FileSelected, LockInv, StateTyped
<1>4. RowsListed(i) /\ EntitiesWritten(i) /\ RowsHeld(i)
  BY DEF RowsInv
<1>5. /\ phase[i] = "flush_root" => q \in LegacyFileRows(work[i].detail, Video[work[i].folder])
      /\ phase[i] = "search" => q \in FileRows(work[i].detail, work[i].folder, root[i])
  BY <1>2, FilesLeft
<1>6. q \in RowsOf(i)
  BY <1>2, <1>5, UnflushedFiles, ListedKinds DEF RowsOf, LegacyRows
<1>7. {s.row : s \in session'[i]} = {s.row : s \in session[i]} \cup {q}
  <2>1. \E s \in Selected(i, {q}) : s.row = q
    BY SelectedRows
  <2>2. \A s \in Selected(i, {q}) : s.row = q
    BY SelectedRows
  <2> QED
    BY <1>3, <2>1, <2>2
<1>8. /\ RowsOf(i)' = RowsOf(i) /\ UnflushedOf(i)' = UnflushedOf(i)
      /\ FilesToSelect(i)' = FilesToSelect(i) \ {q}
  BY <1>2, <1>7 DEF RowsOf, UnflushedOf, FilesToSelect, VideosOf
<1>9. RowsListed(i)'
  <2>1. \A s \in session'[i] : s.row \in RowsOf(i)
    BY <1>2, <1>4, <1>6, <1>7 DEF RowsListed, Idle
  <2> QED
    BY <1>2, <1>4, <1>8, <2>1 DEF RowsListed
<1>10. EntitiesWritten(i)'
  BY <1>2, <1>4 DEF EntitiesWritten, HasEntity
<1>11. RowsHeld(i)'
  <2> SUFFICES ASSUME phase[i] = "search"
               PROVE  /\ {s.row : s \in session'[i]} \cup FilesToSelect(i)' = UnflushedOf(i)
                      /\ \A r \in Last(UnflushedOf(i)) :
                            ~IsFile(r.key) => r \in Written(i)' \/ Holds(db, r)
    BY <1>2, <1>8 DEF RowsHeld, Holds
  <2>1. {s.row : s \in session'[i]} \cup FilesToSelect(i)' = UnflushedOf(i)
    BY <1>2, <1>4, <1>7, <1>8 DEF RowsHeld
  <2>2. IsFile(q.key)
    BY <1>5, UnflushedFiles
  <2>3. ASSUME NEW r \in Last(UnflushedOf(i)), ~IsFile(r.key), r \in Written(i) PROVE r \in Written(i)'
    BY <1>3, <2>2, <2>3, WrittenKept
  <2> QED
    BY <1>4, <2>1, <2>3 DEF RowsHeld
<1> QED
  BY <1>2, <1>9, <1>10, <1>11, OthersSame, RowsStep

LEMMA RowsFlushRoot ==
    ASSUME LockInv, EntityInv, RowsInv, NEW i \in Process, FlushRoot(i)
    PROVE  RowsInv'
<1>1. /\ phase[i] = "flush_root" /\ phase'[i] = "children" /\ UNCHANGED <<db, work, root, done>>
      /\ Writes(i, Written(i)) /\ Add(i, {})
  BY FlushWrites DEF FlushRoot, At, LockInv, StateTyped
<1>2. RowsListed(i)' /\ DOMAIN own[i] \subseteq DOMAIN own'[i]
  BY <1>1, ListedFlush DEF Idle
<1>3. EntitiesWritten(i)' /\ RowsHeld(i)'
  BY <1>1, <1>2, EntitiesStayWritten DEF RowsInv, RowsHeld
<1> QED
  BY <1>1, <1>2, <1>3, OthersSame, RowsStep

LEMMA RowsSelectChild ==
    ASSUME LockInv, EntityInv, RowsInv, NEW i \in Process,
           NEW n \in work[i].detail.nodes, SelectChild(i, n)
    PROVE  RowsInv'
<1>1. /\ phase[i] = "children" /\ phase'[i] = "flush_child" /\ UNCHANGED <<db, work, own, root, done>>
      /\ Add(i, {EntityRow(n, root[i])})
  BY DEF SelectChild, At, LockInv, StateTyped
<1>2. {EntityRow(n, root[i])} \subseteq RowsOf(i)
  BY ListedKinds DEF RowsOf
<1>3. RowsListed(i)'
  BY <1>1, <1>2, ListedSelect DEF Idle
<1>4. EntitiesWritten(i)' /\ RowsHeld(i)'
  BY <1>1, EntitiesStayWritten DEF RowsInv, RowsHeld
<1> QED
  BY <1>1, <1>3, <1>4, OthersSame, RowsStep

LEMMA RowsFlushChild ==
    ASSUME LockInv, EntityInv, SearchInv, RowsInv, NEW i \in Process, FlushChild(i)
    PROVE  RowsInv'
<1> DEFINE row == IdentityRow(work[i].detail, child[i], root[i])
<1>1. /\ phase[i] = "flush_child" /\ phase'[i] = "flush_child_identity"
      /\ Writes(i, Written(i)) /\ Add(i, {row}) /\ UNCHANGED <<db, work, root, done>>
  BY FlushWrites DEF FlushChild, At, LockInv, StateTyped
<1>2. {row} \subseteq RowsOf(i)
  BY <1>1, ListedKinds DEF RowsOf, SearchInv, NodesListed
<1> HIDE DEF row
<1>3. RowsListed(i)' /\ DOMAIN own[i] \subseteq DOMAIN own'[i]
  BY <1>1, <1>2, ListedFlush DEF Idle
<1>4. EntitiesWritten(i)' /\ RowsHeld(i)'
  BY <1>1, <1>3, EntitiesStayWritten DEF RowsInv, RowsHeld
<1> QED
  BY <1>1, <1>3, <1>4, OthersSame, RowsStep

LEMMA RowsFlushChildIdentity ==
    ASSUME LockInv, EntityInv, RowsInv, NEW i \in Process, FlushChildIdentity(i)
    PROVE  RowsInv'
<1>1. /\ phase[i] = "flush_child_identity" /\ phase'[i] = "children"
      /\ Writes(i, Written(i)) /\ Add(i, {}) /\ UNCHANGED <<db, work, root>>
      /\ done'[i] = done[i] \cup {child[i]}
  BY FlushWrites DEF FlushChildIdentity, At, LockInv, StateTyped, EntityInv, WorkTyped
<1>2. RowsListed(i)' /\ DOMAIN own[i] \subseteq DOMAIN own'[i]
  BY <1>1, ListedFlush DEF Idle
<1>3. HasEntity(EntityAt(root[i], child[i]), own[i])
  BY <1>1 DEF EntityInv, ProcessEntities, OwnEntities, Pending, Idle
<1>4. EntitiesWritten(i)'
  BY <1>1, <1>2, <1>3 DEF RowsInv, EntitiesWritten, HasEntity
<1>5. RowsHeld(i)'
  BY <1>1 DEF RowsHeld
<1> QED
  BY <1>1, <1>2, <1>4, <1>5, OthersSame, RowsStep

LEMMA RowsSelectRootIdentity ==
    ASSUME LockInv, EntityInv, RowsInv, NEW i \in Process, SelectRootIdentity(i)
    PROVE  RowsInv'
<1> DEFINE row == IdentityRow(work[i].detail, <<>>, root[i])
<1>1. /\ phase[i] = "children" /\ phase'[i] = "flush_root_identity"
      /\ Add(i, {row}) /\ UNCHANGED <<db, work, own, root, done>>
  BY DEF SelectRootIdentity, At, LockInv, StateTyped
<1>2. {row} \subseteq RowsOf(i)
  BY <1>1, ListedKinds, RootListed DEF RowsOf, Idle
<1> HIDE DEF row
<1>3. RowsListed(i)'
  BY <1>1, <1>2, ListedSelect DEF Idle
<1>4. EntitiesWritten(i)' /\ RowsHeld(i)'
  BY <1>1, EntitiesStayWritten DEF RowsInv, RowsHeld
<1> QED
  BY <1>1, <1>3, <1>4, OthersSame, RowsStep

LEMMA RowsRollBack ==
    ASSUME LockInv, EntityInv, RowsInv, NEW i \in Process, Violate(i) \/ RollBack(i)
    PROVE  RowsInv'
<1>1. Ended(i) /\ UNCHANGED db
  BY DEF Violate, RollBack
<1>2. phase'[i] = Idle /\ done'[i] = {} /\ \A k \in Process \ {i} : Same(k)
  BY <1>1 DEF Ended, LockInv, StateTyped, EntityInv, WorkTyped, Same
<1>3. RowsListed(i)' /\ EntitiesWritten(i)' /\ RowsHeld(i)'
  BY <1>2 DEF RowsListed, EntitiesWritten, RowsHeld, Idle
<1> QED
  BY <1>1, <1>2, <1>3, RowsStep

\* What is kept to the commit are aliases, files and assets.
LEMMA UnflushedKinds ==
    ASSUME NEW d, NEW f, NEW r, NEW q \in UnflushedRows(d, f, r)
    PROVE  q.key[1] \in {"entity_alias", "media_file", "artwork_asset"}
<1>1. CASE q \in AliasRows(d, f, r)
  BY <1>1 DEF AliasRows, AliasKey, Row, RowInTurn
<1>2. CASE q \in FileRows(d, f, r)
  BY <1>2, FiledFiles, FiledKeys
<1>3. CASE q \in ProviderAssetRows(d, f, r)
  BY <1>3, FiledAssets, FiledKeys
<1>4. CASE q \in LocalAssetRows(d, f, r)
  BY <1>4, FiledLocalAssets, FiledKeys
<1> QED
  BY <1>1, <1>2, <1>3, <1>4 DEF UnflushedRows, EntryRows

\* Nothing that is kept to the commit is flushed before.
LEMMA UnflushedIsNotOwn ==
    ASSUME SearchInv, FilesInv, NEW i \in Process, NEW q \in UnflushedOf(i)
    PROVE  q.key \notin DOMAIN own[i]
<1>1. SearchRows(i) /\ OwnFiles(i)
  BY DEF SearchInv, FilesInv
<1>2. q.key[1] \in {"entity_alias", "media_file", "artwork_asset"}
  BY UnflushedKinds DEF UnflushedOf
<1>3. CASE q.key[1] = "entity_alias"
  BY <1>1, <1>3 DEF SearchRows
<1>4. CASE q.key[1] \in {"media_file", "artwork_asset"}
  <2>1. Filed(q.key)
    BY <1>4 DEF Filed
  <2>2. \A r \in LegacyOf(i) : r.key[1] \in {"media_files", "media_images"}
    BY LegacyOfRows, FiledKeys
  <2> QED
    BY <1>1, <1>4, <2>1, <2>2 DEF OwnFiles
<1> QED
  BY <1>2, <1>3, <1>4

LEMMA RowsFlushRootIdentity ==
    ASSUME LockInv, EntityInv, SearchInv, FilesInv, RowsInv, NEW i \in Process, FlushRootIdentity(i)
    PROVE  RowsInv'
<1> DEFINE rows == EntryRows(work[i].detail, work[i].folder, root[i])
           files == FileRows(work[i].detail, work[i].folder, root[i])
<1>1. /\ phase[i] = "flush_root_identity" /\ phase'[i] = "search"
      /\ Writes(i, Written(i)) /\ Add(i, rows) /\ UNCHANGED <<db, work, root, done>>
  BY FlushWrites DEF FlushRootIdentity, At, LockInv, StateTyped
<1>2. UnflushedOf(i) = files \cup rows /\ rows \subseteq RowsOf(i)
  BY ListedKinds DEF RowsOf, UnflushedOf, UnflushedRows
<1>3. RowsListed(i)' /\ DOMAIN own[i] \subseteq DOMAIN own'[i]
  <2> HIDE DEF rows, files
  <2> QED
    BY <1>1, <1>2, ListedFlush DEF Idle
<1>4. {s.row : s \in session'[i]} = rows
  <2>1. session'[i] = Selected(i, rows)
    BY <1>1, Added
  <2> HIDE DEF rows
  <2>2. \A s \in session'[i] : s.row \in rows
    BY <2>1, SelectedRows
  <2>3. \A r \in rows : \E s \in session'[i] : s.row = r
    BY <2>1, SelectedRows
  <2> QED
    BY <2>2, <2>3
<1>5. FilesToSelect(i)' = files
  <2>1. FilesToSelect(i)' = files \ rows
    BY <1>1, <1>4 DEF FilesToSelect, VideosOf, Idle
  <2>2. \A q \in files : q \notin rows
    BY UnflushedFiles
  <2> QED
    BY <2>1, <2>2
<1>6. ASSUME NEW r \in Last(UnflushedOf(i)), ~IsFile(r.key) PROVE r \in Written(i)' \/ Holds(db, r)
  <2>1. r \in UnflushedOf(i) /\ \A q \in UnflushedOf(i) : q.key = r.key => q.turn <= r.turn
    BY DEF Last
  <2>2. r \in rows /\ \A q \in rows : q.key = r.key => q.turn <= r.turn
    BY <1>2, <1>6, <2>1, UnflushedFiles
  <2>3. r.key \notin DOMAIN own[i]
    BY <2>1, UnflushedIsNotOwn
  <2> HIDE DEF rows
  <2> QED
    BY <1>1, <2>2, <2>3, SelectedOrHeld
<1>7. RowsHeld(i)'
  <2>1. UnflushedOf(i)' = UnflushedOf(i)
    BY <1>1 DEF UnflushedOf
  <2> HIDE DEF rows, files
  <2> QED
    BY <1>1, <1>2, <1>4, <1>5, <1>6, <2>1 DEF RowsHeld, Holds
<1>8. EntitiesWritten(i)'
  BY <1>1, <1>3, EntitiesStayWritten DEF RowsInv
<1> QED
  BY <1>1, <1>3, <1>7, <1>8, OthersSame, RowsStep

LEMMA RowsRefresh ==
    ASSUME LockInv, EntityInv, RowsInv, NEW i \in Process, RefreshSearchDocuments(i)
    PROVE  RowsInv'
<1> DEFINE rows == {Row(DocumentKey(x), AliasesOf(x, Visible(i))) : x \in Documented(i)}
<1>1. /\ phase[i] = "search" /\ phase'[i] = "commit"
      /\ Writes(i, rows) /\ UNCHANGED <<db, work, session, root, done>>
      /\ FilesToSelect(i) = {}
  BY DEF RefreshSearchDocuments, Writes, At, LockInv, StateTyped
<1>2. RowsListed(i) /\ EntitiesWritten(i) /\ RowsHeld(i) /\ StateTyped
  BY DEF RowsInv, LockInv
<1>3. \A q \in rows : q.key[1] = "search_document"
  BY DEF Row, RowInTurn, DocumentKey
<1> HIDE DEF rows
<1>4. DOMAIN own[i] \subseteq DOMAIN own'[i] /\ Listed(own'[i], RowsOf(i))
  <2>1. Listed(own[i], RowsOf(i))
    BY <1>1, <1>2 DEF RowsListed, Listed, Idle
  <2>2. StateTyped /\ Writes(i, rows)
    BY <1>1, <1>2
  <2>3. DOMAIN own[i] \subseteq DOMAIN own'[i]
    BY <2>2, WritesKeys
  <2>4. Listed(own'[i], RowsOf(i))
    BY <1>3, <2>1, <2>2, ListedRowsWritten
  <2> QED
    BY <2>3, <2>4
<1>5. /\ RowsOf(i)' = RowsOf(i) /\ UnflushedOf(i)' = UnflushedOf(i) /\ Written(i)' = Written(i)
  BY <1>1 DEF RowsOf, UnflushedOf, Written
<1>6. RowsListed(i)'
  BY <1>1, <1>2, <1>4, <1>5 DEF RowsListed, Listed, Idle
<1>7. RowsHeld(i)'
  <2>1. FilesToSelect(i)' = {}
    BY <1>1 DEF FilesToSelect
  <2> QED
    BY <1>1, <1>2, <1>5, <2>1 DEF RowsHeld, Holds
<1>8. EntitiesWritten(i)'
  BY <1>1, <1>2, <1>4, EntitiesStayWritten
<1> QED
  BY <1>1, <1>6, <1>7, <1>8, OthersSame, RowsStep

-----------------------------------------------------------------------------
(* The commit. *)

LEMMA AliasKeyParts ==
    ASSUME NEW x, NEW a, NEW s
    PROVE  /\ AliasKey(x, a, s)[1] = "entity_alias" /\ AliasKey(x, a, s)[2] = x
           /\ AliasKey(x, a, s)[3] = a /\ AliasKey(x, a, s)[4] = s
  BY DEF AliasKey

\* The aliases of an ingest are those of its root.
LEMMA UnflushedAliasKeys ==
    ASSUME NEW d, NEW f, NEW r, NEW q \in UnflushedRows(d, f, r), q.key[1] = "entity_alias"
    PROVE  q \in AliasRows(d, f, r) /\ q.key = AliasKey(<<r>>, q.key[3], q.key[4])
<1>1. q \in AliasRows(d, f, r)
  <2>1. ASSUME Filed(q.key) PROVE FALSE
    BY <2>1 DEF Filed
  <2> QED
    BY <2>1, FiledFiles, FiledAssets, FiledLocalAssets DEF UnflushedRows, EntryRows
<1>2. \E a, s : q.key = AliasKey(<<r>>, a, s)
  BY <1>1 DEF AliasRows, Row, RowInTurn
<1> QED
  BY <1>1, <1>2, AliasKeyParts

\* What is not kept to the commit has a kind of its own, and no turn.
LEMMA FlushedKinds ==
    ASSUME NEW d, NEW f, NEW r, NEW q \in RowsAt(d, f, r)
    PROVE  \/ q \in UnflushedRows(d, f, r)
           \/ /\ q.key[1] \in {"media_items", "media_files", "media_images",
                               "media_entity", "provider_identity"}
              /\ q.turn = 0
<1>1. CASE q = ItemRow(d)
  BY <1>1 DEF ItemRow, ItemKey, Row, RowInTurn
<1>2. CASE q \in LegacyRows(d, f)
  BY <1>2, FiledLegacyRows
<1>3. CASE \E n \in d.nodes : q = EntityRow(n, r)
  BY <1>3, EntityRowParts DEF IsEntity
<1>4. CASE \E n \in d.nodes : q = IdentityRow(d, n, r)
  BY <1>4, IdentityRowParts DEF IsIdentity
<1> QED
  BY <1>1, <1>2, <1>3, <1>4 DEF RowsAt

\* The rows of one kind.
LEMMA RowsOfKind ==
    ASSUME NEW d, NEW f, NEW r, NEW q \in RowsAt(d, f, r)
    PROVE  /\ q.key[1] = "media_items" => q = ItemRow(d)
           /\ q.key[1] \in {"media_files", "media_images"} => q \in LegacyRows(d, f)
           /\ q.key[1] = "media_entity" => \E n \in d.nodes : q = EntityRow(n, r)
           /\ q.key[1] = "provider_identity" => \E n \in d.nodes : q = IdentityRow(d, n, r)
           /\ q.key[1] \in {"entity_alias", "media_file", "artwork_asset"} =>
                q \in UnflushedRows(d, f, r)
<1>1. q \in UnflushedRows(d, f, r) => q.key[1] \in {"entity_alias", "media_file", "artwork_asset"}
  BY UnflushedKinds
<1>2. q = ItemRow(d) => q.key[1] = "media_items"
  BY DEF ItemRow, ItemKey, Row, RowInTurn
<1>3. q \in LegacyRows(d, f) => q.key[1] \in {"media_files", "media_images"}
  BY FiledLegacyRows
<1>4. \A n \in d.nodes : q = EntityRow(n, r) => q.key[1] = "media_entity"
  BY EntityRowParts DEF IsEntity
<1>5. \A n \in d.nodes : q = IdentityRow(d, n, r) => q.key[1] = "provider_identity"
  BY IdentityRowParts DEF IsIdentity
<1>6. \/ q = ItemRow(d) \/ q \in LegacyRows(d, f)
      \/ (\E n \in d.nodes : q = EntityRow(n, r)) \/ (\E n \in d.nodes : q = IdentityRow(d, n, r))
      \/ q \in UnflushedRows(d, f, r)
  BY DEF RowsAt
<1> QED
  BY <1>1, <1>2, <1>3, <1>4, <1>5, <1>6

\* The rows that the commit flushes are kept to it.
LEMMA CommitWrites ==
    ASSUME FilesInv, RowsInv, NEW i \in Process, Commit(i)
    PROVE  /\ \A q \in Written(i) : q \in Last(UnflushedOf(i))
           /\ \A r \in Last(UnflushedOf(i)) : r \in Written(i) \/ Kept(i, r)
<1>1. phase[i] = "commit" /\ RowsHeld(i) /\ OwnFiles(i)
  BY DEF Commit, RowsInv, FilesInv
<1>2. FilesToSelect(i) = {}
  BY <1>1, FilesLeft
<1>3. ASSUME NEW r \in Last(UnflushedOf(i)), IsFile(r.key) PROVE r \in Written(i) \/ Kept(i, r)
  <2>1. r \in CanonicalOf(i)
    BY <1>3, UnflushedFiles DEF Last, UnflushedOf, CanonicalOf
  <2> QED
    BY <1>1, <1>2, <2>1 DEF OwnFiles
<1> QED
  BY <1>1, <1>2, <1>3 DEF RowsHeld, Written, Kept

\* A row of the database after a commit is one of the ingest or was there before.
LEMMA CommittedRow ==
    ASSUME LockInv, RowsInv, NEW i \in Process, Commit(i),
           NEW k \in DOMAIN db', k[1] # "search_document"
    PROVE  \/ \E q \in RowsOf(i) : q.key = k /\ db'[k] = q.value
           \/ k \in DOMAIN db /\ db'[k] = db[k]
<1>1. phase[i] = "commit" /\ RowsListed(i) /\ db' = Over(Table(Written(i)), Over(own[i], db))
  BY DEF Commit, RowsInv, Visible
<1>2. DOMAIN db' = DOMAIN Table(Written(i)) \cup (DOMAIN own[i] \cup DOMAIN db)
  BY CommittedKeys
<1>3. CASE k \in DOMAIN Table(Written(i))
  <2>1. db'[k] = Table(Written(i))[k]
    BY <1>1, <1>2, <1>3 DEF Over
  <2>2. PICK q \in Written(i) : q.key = k /\ Table(Written(i))[k] = q.value
    BY <1>3, TableRows
  <2>3. q \in RowsOf(i)
    BY <1>1, <2>2, WrittenIsInSession DEF RowsListed, Idle
  <2> QED
    BY <2>1, <2>2, <2>3
<1>4. CASE k \notin DOMAIN Table(Written(i)) /\ k \in DOMAIN own[i]
  <2>1. db'[k] = own[i][k]
    BY <1>1, <1>2, <1>4 DEF Over
  <2> QED
    BY <1>1, <1>4, <2>1 DEF RowsListed, Idle
<1>5. CASE k \notin DOMAIN Table(Written(i)) /\ k \notin DOMAIN own[i]
  BY <1>1, <1>2, <1>5 DEF Over
<1> QED
  BY <1>3, <1>4, <1>5

\* No other transaction keeps a row that the commit writes, but for files.
LEMMA ForeignUnflushed ==
    ASSUME LockInv, EntityInv, FilesInv, NEW i \in Process, NEW k \in Process, i # k,
           Working(i), Working(k), NEW q \in RowsOf(i), NEW r \in UnflushedOf(k), ~IsFile(r.key)
    PROVE  q.key # r.key
<1> SUFFICES ASSUME q.key = r.key PROVE FALSE
  OBVIOUS
<1>1. q.key[1] \in {"entity_alias", "media_file", "artwork_asset"}
  BY UnflushedKinds DEF UnflushedOf
<1>2. q \in UnflushedOf(i)
  BY <1>1, RowsOfKind DEF RowsOf, UnflushedOf
<1>3. CASE q.key[1] = "entity_alias"
  <2>1. q.key[2] = <<root[i]>>
    <3>1. q.key = AliasKey(<<root[i]>>, q.key[3], q.key[4])
      BY <1>2, <1>3, UnflushedAliasKeys DEF UnflushedOf
    <3> QED
      BY <3>1, AliasKeyParts
  <2>2. r.key[2] = <<root[k]>>
    <3>1. r.key[1] = "entity_alias"
      BY <1>3
    <3>2. r.key = AliasKey(<<root[k]>>, r.key[3], r.key[4])
      BY <3>1, UnflushedAliasKeys DEF UnflushedOf
    <3> QED
      BY <3>2, AliasKeyParts
  <2>3. root[i] # root[k]
    BY DEF EntityInv, ProcessEntities, OwnRoot
  <2> QED
    BY <2>1, <2>2, <2>3
<1>4. CASE q.key[1] \in {"media_file", "artwork_asset"}
  <2>1. Filed(q.key) /\ Filed(r.key)
    BY <1>4 DEF Filed
  <2> QED
    BY <1>2, <2>1, ForeignRows
<1> QED
  BY <1>1, <1>3, <1>4

\* The root of the tree that is committed, and the roots there were before.
LEMMA RootsCommit ==
    ASSUME LockInv, TreeInv, NEW i \in Process, Commit(i)
    PROVE  /\ IdentityKey(EntryAt(i), <<>>) \in Identities(db')
           /\ RootOf(EntryAt(i), db') = root[i]
           /\ \A m \in Identities(db) : m \in Identities(db') /\ RootOf(m[2], db') = RootOf(m[2], db)
<1>1. ASSUME NEW m \in Identities(db)
      PROVE  m \in Identities(db') /\ RootOf(m[2], db') = RootOf(m[2], db)
  <2>1. IdentityKey(m[2], <<>>) \in DOMAIN db
    BY DEF TreeInv, DbTree
  <2> QED
    BY <2>1, CommitKeepsIdentities, RootStays
<1> QED
  BY <1>1, CommittedRoot DEF RootOf

LEMMA RootNode == <<>> \in Node
  BY DEF Node

\* A commit leaves entities and aliases in trees with an identified root.
LEMMA RootedCommit ==
    ASSUME LockInv, TreeInv, EntityInv, SearchInv, FilesInv, RowsInv, NEW i \in Process, Commit(i)
    PROVE  EntitiesRooted' /\ AliasesRooted' /\ EntriesTyped'
<1> DEFINE top == IdentityKey(EntryAt(i), <<>>)
<1>1. phase[i] = "commit" /\ top \in Identities(db') /\ top[2] = EntryAt(i) /\ RootOf(EntryAt(i), db') = root[i]
  BY RootsCommit, IdentityKeyParts DEF Commit
<1>2. EntitiesRooted'
  <2> SUFFICES ASSUME NEW k \in DOMAIN db', k[1] = "media_entity"
               PROVE  \E m \in Identities(db'), n \in Node : k[2] = EntityAt(RootOf(m[2], db'), n)
    BY DEF EntitiesRooted
  <2>1. CASE k \in DOMAIN own[i]
    <3>1. PICK n \in Nodes(i) : k[2] = EntityAt(root[i], n)
      BY <2>1 DEF EntityInv, ProcessEntities, OwnEntities
    <3>2. Nodes(i) = {<<>>} \cup done[i] /\ done[i] \subseteq Node
      BY <1>1 DEF Nodes, Pending, EntityInv, WorkTyped
    <3>3. n \in Node
      BY <3>2, RootNode
    <3> QED
      BY <1>1, <3>1, <3>3
  <2>2. CASE k \in DOMAIN db
    <3>1. PICK m \in Identities(db), n \in Node : k[2] = EntityAt(RootOf(m[2], db), n)
      BY <2>2 DEF RowsInv, EntitiesRooted
    <3> QED
      BY <3>1, RootsCommit
  <2> QED
    BY <2>1, <2>2, CommittedEntities
<1>3. AliasesRooted'
  <2> SUFFICES ASSUME NEW k \in DOMAIN db', k[1] = "entity_alias"
               PROVE  \E m \in Identities(db') : k = AliasKey(<<RootOf(m[2], db')>>, k[3], k[4])
    BY DEF AliasesRooted
  <2>1. CASE \E q \in RowsOf(i) : q.key = k
    <3>1. PICK q \in RowsOf(i) : q.key = k
      BY <2>1
    <3>2. q \in UnflushedOf(i)
      BY <3>1, RowsOfKind DEF RowsOf, UnflushedOf
    <3>3. k = AliasKey(<<root[i]>>, k[3], k[4])
      BY <3>1, <3>2, UnflushedAliasKeys DEF UnflushedOf
    <3> QED
      BY <1>1, <3>3
  <2>2. CASE k \in DOMAIN db
    <3>1. PICK m \in Identities(db) : k = AliasKey(<<RootOf(m[2], db)>>, k[3], k[4])
      BY <2>2 DEF RowsInv, AliasesRooted
    <3> QED
      BY <3>1, RootsCommit
  <2> QED
    BY <2>1, <2>2, CommittedRow
<1>4. EntriesTyped'
  <2>1. ASSUME NEW k \in Identities(own[i]) PROVE k[2] \in Entry
    <3>1. k[2] = EntryAt(i)
      BY IdentityKeyParts DEF TreeInv, ProcessTree, OwnTree
    <3> QED
      BY <1>1, <3>1, DetailAssumption DEF EntityInv, WorkTyped, DetailType, EntryAt, Idle
  <2>2. \A k \in Identities(db) : k[2] \in Entry
    BY DEF RowsInv, EntriesTyped
  <2> QED
    BY <2>1, <2>2, CommittedIdentities DEF EntriesTyped
<1> QED
  BY <1>2, <1>3, <1>4

LEMMA RowsCommit ==
    ASSUME LockInv, TreeInv, EntityInv, SearchInv, FilesInv, RowsInv, NEW i \in Process, Commit(i)
    PROVE  RowsInv'
<1>1. phase[i] = "commit" /\ Ended(i) /\ DOMAIN db \subseteq DOMAIN db'
  BY CommittedKeys DEF Commit
<1>2. phase'[i] = Idle /\ done'[i] = {} /\ \A k \in Process \ {i} : Same(k)
  BY <1>1 DEF Ended, LockInv, StateTyped, EntityInv, WorkTyped, Same
<1>3. RowsListed(i)' /\ EntitiesWritten(i)' /\ RowsHeld(i)'
  BY <1>2 DEF RowsListed, EntitiesWritten, RowsHeld, Idle
<1>4. ASSUME NEW k \in Process \ {i} PROVE RowsListed(k)' /\ EntitiesWritten(k)' /\ RowsHeld(k)'
  <2>1. Same(k) /\ RowsListed(k) /\ EntitiesWritten(k) /\ RowsHeld(k)
    BY <1>2 DEF RowsInv
  <2>2. RowsOf(k)' = RowsOf(k) /\ UnflushedOf(k)' = UnflushedOf(k) /\ Written(k)' = Written(k)
    BY <2>1 DEF Same, RowsOf, UnflushedOf, Written
  <2>3. RowsListed(k)'
    BY <2>1, <2>2 DEF Same, RowsListed
  <2>4. EntitiesWritten(k)'
    BY <2>1 DEF Same, EntitiesWritten, HasEntity
  <2>5. ASSUME phase[k] \in {"search", "commit"}, NEW r \in Last(UnflushedOf(k)), ~IsFile(r.key),
               Holds(db, r)
        PROVE  Holds(db', r)
    <3>1. r \in UnflushedOf(k) /\ Working(i) /\ Working(k)
      BY <1>1, <2>5 DEF Last, Working, Idle
    <3>2. r.key[1] # "search_document" /\ r.key \in DOMAIN db /\ r.key \in DOMAIN db'
      BY <1>1, <2>5, <3>1, UnflushedKinds DEF UnflushedOf, Holds
    <3>3. \A q \in RowsOf(i) : q.key # r.key
      BY <2>5, <3>1, ForeignUnflushed
    <3>4. db'[r.key] = db[r.key]
      BY <3>2, <3>3, CommittedRow
    <3> QED
      BY <2>5, <3>2, <3>4 DEF Holds
  <2>6. RowsHeld(k)'
    <3>1. FilesToSelect(k)' = FilesToSelect(k)
      BY <2>1 DEF Same, FilesToSelect, VideosOf
    <3> QED
      BY <2>1, <2>2, <2>5, <3>1 DEF Same, RowsHeld
  <2> QED
    BY <2>3, <2>4, <2>6
<1> QED
  BY <1>3, <1>4, RootedCommit DEF RowsInv

-----------------------------------------------------------------------------
(* The migrated database. *)

LegacyAliases(d, r) ==
    {Row(AliasKey(<<r>>, d.title, "legacy"), "primary")}
    \cup {Row(AliasKey(<<r>>, a, "legacy"), "other") : a \in {d.original} \ {NoAlias}}

\* The rows that the migration makes of a folder and of the files it is the last to
\* have ingested.
MigratedRow(q, d, f, videos, r) ==
    \/ q = ItemRow(d)
    \/ q \in LegacyFileRows(d, videos) \cup LegacyImageRows(d, f)
    \/ \E n \in Node : q = Row(EntityKey(EntityAt(r, n)), "backfilled")
    \/ q = Row(IdentityKey(d.entry, <<>>), <<r>>)
    \/ q \in LegacyAliases(d, r)
    \/ \E v \in videos : q = Row(FileKey(v.path), EntityAt(r, BackfilledNode(d, v.node)))
    \/ \E n \in Images(d, f) : q = Row(AssetKey(Stored("tmdb", d.entry, n, "image")),
                                       [entity |-> <<r>>, original |-> 0])

\* The nodes that the migration finds in the paths of some files.
PathNodes(d, videos) ==
    {<<>>} \cup UNION {{SubSeq(v.node, 1, k) : k \in 1..Len(v.node)} :
                       v \in {v \in videos : d.entry \in Series}}

LEMMA PathNodesTyped ==
    ASSUME NEW d, NEW f \in Folder, NEW videos \in SUBSET Video[f], NEW n \in PathNodes(d, videos)
    PROVE  n \in Node
<1>1. CASE n = <<>>
  BY <1>1, RootNode
<1>2. CASE n # <<>>
  <2>1. PICK v \in videos : \E j \in 1..Len(v.node) : n = SubSeq(v.node, 1, j)
    BY <1>2 DEF PathNodes
  <2>2. v.node \in Seq(Nat) /\ Len(v.node) <= 2
    BY FolderAssumption DEF Node
  <2>3. PICK j \in 1..Len(v.node) : n = SubSeq(v.node, 1, j)
    BY <2>1
  <2>4. n \in Seq(Nat) /\ Len(n) = j
    BY <2>2, <2>3
  <2> QED
    BY <2>2, <2>4 DEF Node
<1> QED
  BY <1>1, <1>2

LEMMA BackfilledNodes ==
    ASSUME NEW d, NEW videos, NEW r
    PROVE  BackfilledEntities(d, videos, r)
             = {Row(EntityKey(EntityAt(r, n)), "backfilled") : n \in PathNodes(d, videos)}
  BY DEF BackfilledEntities, PathNodes

\* A row of the migration is one of some folder.
LEMMA MigratedRows ==
    ASSUME NEW l \in Legacy, NEW rootOf, NEW q \in BackfilledTable(l, rootOf)
    PROVE  \E f \in DOMAIN l.said : MigratedRow(q, l.said[f], f, l.files[f], rootOf[l.said[f].entry])
<1>1. PICK f \in DOMAIN l.said :
         q \in ({ItemRow(l.said[f])} \cup LegacyFileRows(l.said[f], l.files[f]) \cup LegacyImageRows(l.said[f], f))
               \cup (BackfilledEntities(l.said[f], l.files[f], rootOf[l.said[f].entry])
                     \cup BackfilledRows(l.said[f], f, l.files[f], rootOf[l.said[f].entry]))
  BY DEF BackfilledTable, LegacyTables
<1> DEFINE r == rootOf[l.said[f].entry]
<1>2. CASE q \in {ItemRow(l.said[f])} \cup LegacyFileRows(l.said[f], l.files[f]) \cup LegacyImageRows(l.said[f], f)
  BY <1>2 DEF MigratedRow
<1>3. CASE q \in BackfilledEntities(l.said[f], l.files[f], r)
  <2>1. PICK n \in PathNodes(l.said[f], l.files[f]) : q = Row(EntityKey(EntityAt(r, n)), "backfilled")
    BY <1>3, BackfilledNodes
  <2>2. n \in Node
    BY PathNodesTyped, LegacyAssumption
  <2> QED
    BY <2>1, <2>2 DEF MigratedRow
<1>4. CASE q \in BackfilledRows(l.said[f], f, l.files[f], r)
  BY <1>4 DEF BackfilledRows, MigratedRow, LegacyAliases
<1> QED
  BY <1>1, <1>2, <1>3, <1>4

\* The first database: its keys are those of the rows of the migration.
LEMMA MigratedDb ==
    ASSUME NEW l \in Legacy, db = WithDocuments(Migrated(l, LegacyRoot)),
           NEW k \in DOMAIN db, k[1] # "search_document"
    PROVE  \E q \in BackfilledTable(l, LegacyRoot) : q.key = k /\ db[k] = q.value
<1>1. k \in DOMAIN Migrated(l, LegacyRoot) /\ db[k] = Migrated(l, LegacyRoot)[k]
  BY DocumentsAreAdded
<1> DEFINE rows == BackfilledTable(l, LegacyRoot)
<1>2. Migrated(l, LegacyRoot) = Table(rows)
  BY DEF Migrated, BackfilledTable
<1> HIDE DEF rows
<1>3. \E q \in rows : q.key = k /\ Table(rows)[k] = q.value
  BY <1>1, <1>2, TableRows
<1> QED
  BY <1>1, <1>2, <1>3 DEF rows

\* The migrated database satisfies it, and no transaction is open.
LEMMA RowsInit == Init => RowsInv
<1> SUFFICES ASSUME Init PROVE RowsInv
  OBVIOUS
<1>1. PICK l \in Legacy : db = WithDocuments(Migrated(l, LegacyRoot))
  BY DEF Init
<1>2. ASSUME NEW f \in DOMAIN l.said
      PROVE  /\ IdentityKey(l.said[f].entry, <<>>) \in Identities(db)
             /\ IdentityKey(l.said[f].entry, <<>>)[2] = l.said[f].entry
             /\ RootOf(l.said[f].entry, db) = LegacyRoot[l.said[f].entry]
  <2> DEFINE m == IdentityKey(l.said[f].entry, <<>>)
  <2>1. m \in Identities(Migrated(l, LegacyRoot))
        /\ Migrated(l, LegacyRoot)[m] = <<LegacyRoot[l.said[f].entry]>>
    BY BackfilledRoot
  <2>2. m \in Identities(db) /\ db[m] = <<LegacyRoot[l.said[f].entry]>>
    BY <1>1, <2>1, DocumentedIdentities
  <2> QED
    BY <2>2, IdentityKeyParts DEF RootOf
<1>3. \A k \in DOMAIN db : k[1] # "search_document" =>
         \E q \in BackfilledTable(l, LegacyRoot) : q.key = k
  BY <1>1, MigratedDb
<1>4. ASSUME NEW k \in DOMAIN db, k[1] # "search_document"
      PROVE  \E f \in DOMAIN l.said :
                \E q : q.key = k /\ MigratedRow(q, l.said[f], f, l.files[f], LegacyRoot[l.said[f].entry])
  BY <1>3, <1>4, MigratedRows
<1>5. ASSUME NEW k \in DOMAIN db, k[1] \in {"media_entity", "entity_alias"}
      PROVE  \E f \in DOMAIN l.said :
                LET r == LegacyRoot[l.said[f].entry]
                IN \/ k[1] = "media_entity" /\ \E n \in Node : k = EntityKey(EntityAt(r, n))
                   \/ k[1] = "entity_alias" /\ \E a : k = AliasKey(<<r>>, a, "legacy")
  <2>1. PICK f \in DOMAIN l.said :
           \E q : q.key = k /\ MigratedRow(q, l.said[f], f, l.files[f], LegacyRoot[l.said[f].entry])
    BY <1>4, <1>5
  <2>2. PICK q : q.key = k /\ MigratedRow(q, l.said[f], f, l.files[f], LegacyRoot[l.said[f].entry])
    BY <2>1
  <2>3. q # ItemRow(l.said[f]) /\ q \notin LegacyFileRows(l.said[f], l.files[f]) \cup LegacyImageRows(l.said[f], f)
    <3>1. q # ItemRow(l.said[f])
      BY <1>5, <2>2, OtherRowsOfEntities, SearchedRows DEF IsEntity, Searched
    <3>2. q \notin LegacyFileRows(l.said[f], l.files[f])
      BY <1>5, <2>2, FiledLegacyFiles, FiledKeys
    <3>3. q \notin LegacyImageRows(l.said[f], f)
      BY <1>5, <2>2, FiledLegacyImages, FiledKeys
    <3> QED
      BY <3>1, <3>2, <3>3
  <2> DEFINE r == LegacyRoot[l.said[f].entry]
  <2>4. \/ \E n \in Node : q.key = EntityKey(EntityAt(r, n))
        \/ \E a : q.key = AliasKey(<<r>>, a, "legacy")
    <3>1. ASSUME NEW n \in Node, q = Row(EntityKey(EntityAt(r, n)), "backfilled")
          PROVE  q.key = EntityKey(EntityAt(r, n))
      BY <3>1 DEF Row, RowInTurn
    <3>2. ASSUME q \in LegacyAliases(l.said[f], r) PROVE \E a : q.key = AliasKey(<<r>>, a, "legacy")
      BY <3>2 DEF LegacyAliases, Row, RowInTurn
    <3>3. /\ q # Row(IdentityKey(l.said[f].entry, <<>>), <<r>>)
          /\ \A x, y : q # Row(FileKey(x), y) /\ q # Row(AssetKey(x), y)
      BY <1>5, <2>2, IdentityKeyParts, FiledKeys DEF Row, RowInTurn
    <3> HIDE DEF r
    <3> QED
      BY <2>2, <2>3, <3>1, <3>2, <3>3 DEF MigratedRow, r
  <2>5. (\E n \in Node : q.key = EntityKey(EntityAt(r, n))) => k[1] = "media_entity"
    BY <2>2, EntityKeyParts
  <2>6. (\E a : q.key = AliasKey(<<r>>, a, "legacy")) => k[1] = "entity_alias"
    BY <2>2, AliasKeyParts
  <2> HIDE DEF r
  <2>7. \/ k[1] = "media_entity" /\ \E n \in Node : k = EntityKey(EntityAt(r, n))
        \/ k[1] = "entity_alias" /\ \E a : k = AliasKey(<<r>>, a, "legacy")
    BY <2>2, <2>4, <2>5, <2>6
  <2> QED
    BY <2>7 DEF r
<1>6. EntitiesRooted
  <2> SUFFICES ASSUME NEW k \in DOMAIN db, k[1] = "media_entity"
               PROVE  \E m \in Identities(db), n \in Node : k[2] = EntityAt(RootOf(m[2], db), n)
    BY DEF EntitiesRooted
  <2>1. PICK f \in DOMAIN l.said, n \in Node : k = EntityKey(EntityAt(LegacyRoot[l.said[f].entry], n))
    BY <1>5
  <2>2. k[2] = EntityAt(LegacyRoot[l.said[f].entry], n)
    BY <2>1, EntityKeyParts
  <2> QED
    BY <1>2, <2>2
<1>7. AliasesRooted
  <2> SUFFICES ASSUME NEW k \in DOMAIN db, k[1] = "entity_alias"
               PROVE  \E m \in Identities(db) : k = AliasKey(<<RootOf(m[2], db)>>, k[3], k[4])
    BY DEF AliasesRooted
  <2>1. PICK f \in DOMAIN l.said : \E a : k = AliasKey(<<LegacyRoot[l.said[f].entry]>>, a, "legacy")
    BY <1>5
  <2>2. PICK a : k = AliasKey(<<LegacyRoot[l.said[f].entry]>>, a, "legacy")
    BY <2>1
  <2>3. k = AliasKey(<<LegacyRoot[l.said[f].entry]>>, k[3], k[4])
    BY <2>2, AliasKeyParts
  <2> QED
    BY <1>2, <2>3
<1>8. EntriesTyped
  <2>1. ASSUME NEW k \in Identities(db) PROVE \E f \in DOMAIN l.said : k[2] = l.said[f].entry
    BY <1>1, DocumentedIdentities, BackfilledIdentities, IdentityKeyParts
  <2>2. \A f \in DOMAIN l.said : l.said[f].entry \in Entry
    BY LegacyAssumption, DetailAssumption DEF DetailType
  <2> QED
    BY <2>1, <2>2 DEF EntriesTyped
<1>9. \A i \in Process : RowsListed(i) /\ EntitiesWritten(i) /\ RowsHeld(i)
  BY DEF Init, RowsListed, EntitiesWritten, RowsHeld, Idle
<1> QED
  BY <1>6, <1>7, <1>8, <1>9 DEF RowsInv

\* Every step preserves RowsInv.
LEMMA RowsNext ==
    LockInv /\ TreeInv /\ EntityInv /\ SearchInv /\ FilesInv /\ RowsInv /\ [Next]_vars => RowsInv'
<1> SUFFICES ASSUME LockInv, TreeInv, EntityInv, SearchInv, FilesInv, RowsInv, [Next]_vars
             PROVE  RowsInv'
  OBVIOUS
<1>1. CASE UNCHANGED vars
  <2>1. ASSUME NEW k \in Process PROVE RowsListed(k)' /\ EntitiesWritten(k)' /\ RowsHeld(k)'
    <3>1. RowsListed(k) /\ EntitiesWritten(k) /\ RowsHeld(k)
      BY DEF RowsInv
    <3>2. RowsListed(k)'
      BY <1>1, <3>1 DEF vars, RowsListed, RowsOf
    <3>3. EntitiesWritten(k)'
      BY <1>1, <3>1 DEF vars, EntitiesWritten, HasEntity
    <3>4. RowsHeld(k)'
      BY <1>1, <3>1 DEF vars, RowsHeld, UnflushedOf, Written, Holds, FilesToSelect, VideosOf
    <3> QED
      BY <3>2, <3>3, <3>4
  <2>2. EntitiesRooted' /\ AliasesRooted' /\ EntriesTyped'
    BY <1>1 DEF vars, RowsInv, EntitiesRooted, AliasesRooted, EntriesTyped
  <2> QED
    BY <2>1, <2>2 DEF RowsInv
<1>2. ASSUME NEW i \in Process,
             \/ Begin(i) \/ FlushMediaItem(i) \/ SelectFile(i) \/ FlushRoot(i)
             \/ phase[i] = "children" /\ \E n \in work[i].detail.nodes : SelectChild(i, n)
             \/ FlushChild(i) \/ FlushChildIdentity(i)
             \/ SelectRootIdentity(i) \/ FlushRootIdentity(i)
             \/ RefreshSearchDocuments(i) \/ Commit(i) \/ Violate(i) \/ RollBack(i)
      PROVE  RowsInv'
  BY <1>2, RowsBegin, RowsFlushMediaItem, RowsSelectFile, RowsFlushRoot, RowsSelectChild, RowsFlushChild,
     RowsFlushChildIdentity, RowsSelectRootIdentity, RowsFlushRootIdentity, RowsRefresh,
     RowsCommit, RowsRollBack
<1> QED
  BY <1>1, <1>2 DEF Next

\* A transaction holds rows of its ingest only, and before it commits, all that it
\* keeps for the commit will be written or is in the database already; a row of a
\* file is, unless another process has written it since.
THEOREM RowsInvariant ==
    Spec => [](LockInv /\ TreeInv /\ EntityInv /\ SearchInv /\ FilesInv /\ RowsInv)
<1>1. Init => RowsInv
  BY RowsInit
<1>2. LockInv /\ TreeInv /\ EntityInv /\ SearchInv /\ FilesInv /\ RowsInv /\ [Next]_vars => RowsInv'
  BY RowsNext
<1> QED
  BY <1>1, <1>2, FilesInvariant, PTL DEF Spec

-----------------------------------------------------------------------------
(* Rows of one ingest, or of the migration, that count have one value a key. *)

LEMMA FileKeysDiffer == ASSUME NEW p, NEW q, FileKey(p) = FileKey(q) PROVE p = q
  BY DEF FileKey

LEMMA StoredDiffers ==
    ASSUME NEW e, NEW s, NEW n, NEW a, NEW t, NEW m, NEW b,
           AssetKey(Stored(s, e, n, a)) = AssetKey(Stored(t, e, m, b))
    PROVE  s = t /\ n = m /\ a = b
  BY DEF AssetKey, Stored

\* Of the rows kept to the commit, those of one key and turn are one.
LEMMA UnflushedUnique ==
    ASSUME NEW d, NEW f \in Folder, NEW r,
           NEW p \in UnflushedRows(d, f, r), NEW q \in UnflushedRows(d, f, r),
           p.key = q.key, p.turn = q.turn
    PROVE  p.value = q.value
<1>1. CASE p.key[1] = "entity_alias"
  <2>1. p \in AliasRows(d, f, r) /\ q \in AliasRows(d, f, r)
    BY <1>1, UnflushedAliasKeys
  <2>2. ASSUME NEW x \in AliasRows(d, f, r)
        PROVE  x.value = IF x.turn = 0 /\ x.key[4] = "provider" THEN "primary" ELSE "other"
    BY AliasKeyParts DEF AliasRows, Row, RowInTurn
  <2> QED
    BY <2>1, <2>2
<1>2. CASE p.key[1] = "media_file"
  <2>1. ASSUME NEW x \in UnflushedRows(d, f, r), x.key[1] = "media_file"
        PROVE  \E v \in Video[f] : x.key = FileKey(v.path) /\ x.value = EntityAt(r, PlayableNode(d, v.node))
    <3>1. x \in FileRows(d, f, r)
      BY <2>1, FiledUnflushed, FiledAssets, FiledLocalAssets, FiledKeys DEF Filed
    <3> QED
      BY <3>1, FiledFiles
  <2>2. PICK v \in Video[f] : p.key = FileKey(v.path) /\ p.value = EntityAt(r, PlayableNode(d, v.node))
    BY <1>2, <2>1
  <2>3. PICK w \in Video[f] : q.key = FileKey(w.path) /\ q.value = EntityAt(r, PlayableNode(d, w.node))
    BY <1>2, <2>1
  <2>4. v.path = w.path
    <3>1. FileKey(v.path) = FileKey(w.path)
      BY <2>2, <2>3
    <3> QED
      BY <3>1, FileKeysDiffer
  <2>5. v.node = w.node
    BY <2>4, FolderAssumption
  <2> QED
    BY <2>2, <2>3, <2>5
<1>3. CASE p.key[1] = "artwork_asset"
  <2>1. ASSUME NEW x \in UnflushedRows(d, f, r), x.key[1] = "artwork_asset"
        PROVE  x \in ProviderAssetRows(d, f, r) \cup LocalAssetRows(d, f, r)
    BY <2>1, FiledUnflushed, FiledFiles, FiledKeys DEF Filed
  <2>2. ASSUME NEW x \in ProviderAssetRows(d, f, r)
        PROVE  \E n : /\ x.key = AssetKey(Stored("tmdb", d.entry, n, "image"))
                      /\ x.value = [entity |-> EntityAt(r, ArtworkNode(d, n)), original |-> 0]
    BY DEF ProviderAssetRows, Row, RowInTurn
  <2>3. ASSUME NEW x \in LocalAssetRows(d, f, r)
        PROVE  \E n, slot : /\ x.key = AssetKey(Stored("local_file", d.entry, n, slot))
                            /\ x.value = [entity |-> EntityAt(r, IF n \in d.nodes THEN n ELSE <<>>),
                                          original |-> x.turn]
    BY DEF LocalAssetRows, RowInTurn
  <2>4. CASE p \in ProviderAssetRows(d, f, r) /\ q \in ProviderAssetRows(d, f, r)
    <3>1. PICK n : /\ p.key = AssetKey(Stored("tmdb", d.entry, n, "image"))
                   /\ p.value = [entity |-> EntityAt(r, ArtworkNode(d, n)), original |-> 0]
      BY <2>2, <2>4
    <3>2. PICK m : /\ q.key = AssetKey(Stored("tmdb", d.entry, m, "image"))
                   /\ q.value = [entity |-> EntityAt(r, ArtworkNode(d, m)), original |-> 0]
      BY <2>2, <2>4
    <3>3. AssetKey(Stored("tmdb", d.entry, n, "image")) = AssetKey(Stored("tmdb", d.entry, m, "image"))
      BY <3>1, <3>2
    <3>4. n = m
      BY <3>3, StoredDiffers
    <3> QED
      BY <3>1, <3>2, <3>4
  <2>5. CASE p \in LocalAssetRows(d, f, r) /\ q \in LocalAssetRows(d, f, r)
    <3>1. PICK n, slot : /\ p.key = AssetKey(Stored("local_file", d.entry, n, slot))
                         /\ p.value = [entity |-> EntityAt(r, IF n \in d.nodes THEN n ELSE <<>>),
                                       original |-> p.turn]
      BY <2>3, <2>5
    <3>2. PICK m, other : /\ q.key = AssetKey(Stored("local_file", d.entry, m, other))
                          /\ q.value = [entity |-> EntityAt(r, IF m \in d.nodes THEN m ELSE <<>>),
                                        original |-> q.turn]
      BY <2>3, <2>5
    <3>3. AssetKey(Stored("local_file", d.entry, n, slot)) = AssetKey(Stored("local_file", d.entry, m, other))
      BY <3>1, <3>2
    <3>4. n = m
      BY <3>3, StoredDiffers
    <3> QED
      BY <3>1, <3>2, <3>4
  <2>6. ASSUME NEW x \in ProviderAssetRows(d, f, r), NEW y \in LocalAssetRows(d, f, r)
        PROVE  x.key # y.key
    <3>1. PICK n : x.key = AssetKey(Stored("tmdb", d.entry, n, "image"))
      BY <2>2
    <3>2. PICK m, slot : y.key = AssetKey(Stored("local_file", d.entry, m, slot))
      BY <2>3
    <3>3. AssetKey(Stored("tmdb", d.entry, n, "image")) # AssetKey(Stored("local_file", d.entry, m, slot))
      BY StoredDiffers
    <3> QED
      BY <3>1, <3>2, <3>3
  <2> QED
    BY <1>3, <2>1, <2>4, <2>5, <2>6
<1> QED
  BY <1>1, <1>2, <1>3, UnflushedKinds

\* So it is for all rows of an ingest.
LEMMA RowsUnique ==
    ASSUME NEW d \in Detail, NEW f \in Folder, NEW r,
           NEW p \in RowsAt(d, f, r), NEW q \in RowsAt(d, f, r), p.key = q.key, p.turn = q.turn
    PROVE  p.value = q.value
<1>1. CASE p.key[1] = "media_items"
  BY <1>1, RowsOfKind
<1>2. CASE p.key[1] \in {"media_files", "media_images"}
  BY <1>2, RowsOfKind, FiledLegacyRows
<1>3. CASE p.key[1] = "media_entity"
  BY <1>3, RowsOfKind DEF EntityRow, Row, RowInTurn
<1>4. CASE p.key[1] = "provider_identity"
  <2>1. PICK n \in d.nodes : p = IdentityRow(d, n, r)
    BY <1>4, RowsOfKind
  <2>2. PICK m \in d.nodes : q = IdentityRow(d, m, r)
    BY <1>4, RowsOfKind
  <2> QED
    BY <2>1, <2>2, IdentityRowParts, IdentityKeyParts
<1>5. CASE p.key[1] \in {"entity_alias", "media_file", "artwork_asset"}
  BY <1>5, RowsOfKind, UnflushedUnique
<1> QED
  BY <1>1, <1>2, <1>3, <1>4, <1>5, FlushedKinds, UnflushedKinds

\* The kinds of the rows of the migration.
MigratedKind(q, d, f, videos, r) ==
    /\ q.key[1] = "media_items" => q = ItemRow(d)
    /\ q.key[1] = "media_files" => q \in LegacyFileRows(d, videos)
    /\ q.key[1] = "media_images" => q \in LegacyImageRows(d, f)
    /\ q.key[1] = "media_entity" =>
         \E n \in Node : q = Row(EntityKey(EntityAt(r, n)), "backfilled")
    /\ q.key[1] = "provider_identity" => q = Row(IdentityKey(d.entry, <<>>), <<r>>)
    /\ q.key[1] = "entity_alias" => q \in LegacyAliases(d, r)
    /\ q.key[1] = "media_file" =>
         \E v \in videos : q = Row(FileKey(v.path), EntityAt(r, BackfilledNode(d, v.node)))
    /\ q.key[1] = "artwork_asset" =>
         \E n \in Images(d, f) : q = Row(AssetKey(Stored("tmdb", d.entry, n, "image")),
                                         [entity |-> <<r>>, original |-> 0])
    /\ q.key[1] \in {"media_items", "media_files", "media_images", "media_entity",
                     "provider_identity", "entity_alias", "media_file", "artwork_asset"}

LEMMA MigratedKinds ==
    ASSUME NEW d, NEW f, NEW videos, NEW r, NEW q, MigratedRow(q, d, f, videos, r)
    PROVE  MigratedKind(q, d, f, videos, r)
<1>1. q = ItemRow(d) => q.key[1] = "media_items"
  BY DEF ItemRow, ItemKey, Row, RowInTurn
<1>2. /\ q \in LegacyFileRows(d, videos) => q.key[1] = "media_files"
      /\ q \in LegacyImageRows(d, f) => q.key[1] = "media_images"
  BY FiledLegacyFiles, FiledLegacyImages, FiledKeys
<1>3. \A n \in Node : q = Row(EntityKey(EntityAt(r, n)), "backfilled") => q.key[1] = "media_entity"
  BY DEF EntityKey, Row, RowInTurn
<1>4. q = Row(IdentityKey(d.entry, <<>>), <<r>>) => q.key[1] = "provider_identity"
  BY DEF IdentityKey, Row, RowInTurn
<1>5. q \in LegacyAliases(d, r) => q.key[1] = "entity_alias"
  BY DEF LegacyAliases, AliasKey, Row, RowInTurn
<1>6. \A v \in videos : q = Row(FileKey(v.path), EntityAt(r, BackfilledNode(d, v.node))) =>
         q.key[1] = "media_file"
  BY DEF FileKey, Row, RowInTurn
<1>7. \A n \in Images(d, f) : q = Row(AssetKey(Stored("tmdb", d.entry, n, "image")),
                                      [entity |-> <<r>>, original |-> 0]) =>
         q.key[1] = "artwork_asset"
  BY DEF AssetKey, Row, RowInTurn
<1> QED
  BY <1>1, <1>2, <1>3, <1>4, <1>5, <1>6, <1>7 DEF MigratedRow, MigratedKind

LEMMA LegacyAliasKinds ==
    ASSUME NEW d, NEW r, NEW q \in LegacyAliases(d, r)
    PROVE  /\ q.key[2] = <<r>>
           /\ \/ q.key[3] = d.title /\ q.value = "primary"
              \/ q.key[3] = d.original /\ q.value = "other"
  BY AliasKeyParts DEF LegacyAliases, Row, RowInTurn

\* Two rows of the migration with one key: a file is of one entry and node.
LEMMA MigratedPair ==
    ASSUME NEW d, NEW f, NEW vs, NEW r, NEW p, MigratedRow(p, d, f, vs, r),
           NEW c, NEW g, NEW ws, NEW s, NEW q, MigratedRow(q, c, g, ws, s),
           r = s <=> d.entry = c.entry, d.original # d.title,
           d.entry = c.entry => d.title = c.title /\ d.original = c.original,
           \A v \in vs, w \in ws : v.path = w.path => d = c /\ v.node = w.node,
           p.key = q.key
    PROVE  p.value = q.value
<1>1. MigratedKind(p, d, f, vs, r) /\ MigratedKind(q, c, g, ws, s)
  BY MigratedKinds
<1>3. CASE p.key[1] = "media_items"
  <2>1. p = ItemRow(d) /\ q = ItemRow(c)
    BY <1>1, <1>3 DEF MigratedKind
  <2> QED
    BY <2>1 DEF ItemRow, Row, RowInTurn
<1>4. CASE p.key[1] = "media_files"
  <2>1. p \in LegacyFileRows(d, vs) /\ q \in LegacyFileRows(c, ws)
    BY <1>1, <1>4 DEF MigratedKind
  <2>2. p.value = d.entry /\ q.value = c.entry
    BY <2>1, FiledLegacyFiles
  <2>3. PICK v \in vs : p.key = LegacyFileKey(v.path)
    BY <2>1, FiledLegacyFiles
  <2>4. PICK w \in ws : q.key = LegacyFileKey(w.path)
    BY <2>1, FiledLegacyFiles
  <2>5. LegacyFileKey(v.path) = LegacyFileKey(w.path)
    BY <2>3, <2>4
  <2>6. v.path = w.path
    BY <2>5 DEF LegacyFileKey
  <2> QED
    BY <2>2, <2>6
<1>5. CASE p.key[1] = "media_images"
  <2>1. p \in LegacyImageRows(d, f) /\ q \in LegacyImageRows(c, g)
    BY <1>1, <1>5 DEF MigratedKind
  <2>2. p.value = d.entry /\ q.value = c.entry
    BY <2>1, FiledLegacyImages
  <2>3. PICK n : p.key = ImageKey(Stored("tmdb", d.entry, n, "image"))
    BY <2>1, FiledLegacyImages
  <2>4. PICK m : q.key = ImageKey(Stored("tmdb", c.entry, m, "image"))
    BY <2>1, FiledLegacyImages
  <2>5. ImageKey(Stored("tmdb", d.entry, n, "image")) = ImageKey(Stored("tmdb", c.entry, m, "image"))
    BY <2>3, <2>4
  <2>6. d.entry = c.entry
    BY <2>5 DEF ImageKey, Stored
  <2> QED
    BY <2>2, <2>6
<1>6. CASE p.key[1] = "media_entity"
  <2>1. \E n \in Node : p = Row(EntityKey(EntityAt(r, n)), "backfilled")
    BY <1>1, <1>6 DEF MigratedKind
  <2>2. \E n \in Node : q = Row(EntityKey(EntityAt(s, n)), "backfilled")
    BY <1>1, <1>6 DEF MigratedKind
  <2> QED
    BY <2>1, <2>2 DEF Row, RowInTurn
<1>7. CASE p.key[1] = "provider_identity"
  <2>1. /\ p = Row(IdentityKey(d.entry, <<>>), <<r>>)
        /\ q = Row(IdentityKey(c.entry, <<>>), <<s>>)
    BY <1>1, <1>7 DEF MigratedKind
  <2>2. IdentityKey(d.entry, <<>>) = IdentityKey(c.entry, <<>>)
    BY <2>1 DEF Row, RowInTurn
  <2>3. d.entry = c.entry
    BY <2>2, IdentityKeyParts
  <2> QED
    BY <2>1, <2>3 DEF Row, RowInTurn
<1>8. CASE p.key[1] = "entity_alias"
  <2>1. p \in LegacyAliases(d, r) /\ q \in LegacyAliases(c, s)
    BY <1>1, <1>8 DEF MigratedKind
  <2>2. r = s
    BY <2>1, LegacyAliasKinds
  <2>3. d.title = c.title /\ d.original = c.original
    BY <2>2
  <2> QED
    BY <2>1, <2>3, LegacyAliasKinds
<1>9. CASE p.key[1] = "media_file"
  <2>1. PICK v \in vs : p = Row(FileKey(v.path), EntityAt(r, BackfilledNode(d, v.node)))
    BY <1>1, <1>9 DEF MigratedKind
  <2>2. PICK w \in ws : q = Row(FileKey(w.path), EntityAt(s, BackfilledNode(c, w.node)))
    BY <1>1, <1>9 DEF MigratedKind
  <2>3. FileKey(v.path) = FileKey(w.path)
    BY <2>1, <2>2 DEF Row, RowInTurn
  <2>4. v.path = w.path
    BY <2>3, FileKeysDiffer
  <2>5. d = c /\ v.node = w.node
    BY <2>4
  <2> QED
    BY <2>1, <2>2, <2>5 DEF Row, RowInTurn
<1>10. CASE p.key[1] = "artwork_asset"
  <2>1. PICK n \in Images(d, f) : p = Row(AssetKey(Stored("tmdb", d.entry, n, "image")),
                                             [entity |-> <<r>>, original |-> 0])
    BY <1>1, <1>10 DEF MigratedKind
  <2>2. PICK m \in Images(c, g) : q = Row(AssetKey(Stored("tmdb", c.entry, m, "image")),
                                             [entity |-> <<s>>, original |-> 0])
    BY <1>1, <1>10 DEF MigratedKind
  <2>3. AssetKey(Stored("tmdb", d.entry, n, "image")) = AssetKey(Stored("tmdb", c.entry, m, "image"))
    BY <2>1, <2>2 DEF Row, RowInTurn
  <2>4. d.entry = c.entry
    BY <2>3 DEF AssetKey, Stored
  <2> QED
    BY <2>1, <2>2, <2>4 DEF Row, RowInTurn
<1> QED
  BY <1>1, <1>3, <1>4, <1>5, <1>6, <1>7, <1>8, <1>9, <1>10 DEF MigratedKind

\* All rows of the migration that have one key are one, over all folders.
LEMMA MigratedUnique ==
    ASSUME NEW l \in Legacy, Migrates(l), NEW rootOf,
           \A e, g \in Entry : rootOf[e] = rootOf[g] => e = g,
           NEW p \in BackfilledTable(l, rootOf), NEW q \in BackfilledTable(l, rootOf), p.key = q.key
    PROVE  p.value = q.value
<1>1. PICK f \in DOMAIN l.said : MigratedRow(p, l.said[f], f, l.files[f], rootOf[l.said[f].entry])
  BY MigratedRows
<1>2. PICK g \in DOMAIN l.said : MigratedRow(q, l.said[g], g, l.files[g], rootOf[l.said[g].entry])
  BY MigratedRows
<1>3. f \in Folder /\ g \in Folder /\ l.said[f].entry \in Entry /\ l.said[g].entry \in Entry
  BY LegacyAssumption, DetailAssumption DEF DetailType
<1>4. rootOf[l.said[f].entry] = rootOf[l.said[g].entry] <=> l.said[f].entry = l.said[g].entry
  BY <1>3
<1>5. l.said[f].original # l.said[f].title
  BY DEF Migrates
<1>6. l.said[f].entry = l.said[g].entry => l.said[f].title = l.said[g].title /\ l.said[f].original = l.said[g].original
  BY LegacyAssumption
<1>7. ASSUME NEW v \in l.files[f], NEW w \in l.files[g], v.path = w.path
      PROVE  l.said[f] = l.said[g] /\ v.node = w.node
  <2>1. f = g
    BY <1>7, LegacyAssumption
  <2>2. v \in Video[f] /\ w \in Video[f]
    BY <2>1, LegacyAssumption
  <2> QED
    BY <1>3, <1>7, <2>1, <2>2, FolderAssumption
<1> QED
  BY <1>1, <1>2, <1>3, <1>4, <1>5, <1>6, <1>7, MigratedPair

-----------------------------------------------------------------------------
(* Names.  Everything is said of a table, as the names of the database before *)
(* and after a commit are compared.                                           *)

\* The entries that have a root.
Known(t) ==
    {e \in Entry : IdentityKey(e, <<>>) \in DOMAIN t /\ t[IdentityKey(e, <<>>)] = <<RootOf(e, t)>>}

Unambiguous(t) == \A e, g \in Known(t) : RootOf(e, t) = RootOf(g, t) => e = g

NameIn(t, r) ==
    CHOOSE e \in Entry : IdentityKey(e, <<>>) \in DOMAIN t /\ t[IdentityKey(e, <<>>)] = <<r>>

NamedIn(t, x) == [x EXCEPT ![1] = NameIn(t, x[1])]
UnnamedIn(t, x) == [x EXCEPT ![1] = t[IdentityKey(x[1], <<>>)][1]]

KeyIn(t, k) == IF NamesEntity(k) THEN [k EXCEPT ![2] = NamedIn(t, k[2])] ELSE k
UnkeyIn(t, k) == IF NamesEntity(k) THEN [k EXCEPT ![2] = UnnamedIn(t, k[2])] ELSE k

ValueIn(t, k, v) ==
    CASE k[1] \in {"provider_identity", "media_file"} -> NamedIn(t, v)
      [] k[1] = "artwork_asset" -> [v EXCEPT !.entity = NamedIn(t, v.entity)]
      [] OTHER -> v

RowIn(t, q) == RowInTurn(KeyIn(t, q.key), ValueIn(t, q.key, q.value), q.turn)

PromisedIn(t) == {k \in DOMAIN t : k[1] # "search_document"}

\* The catalog that Catalog sees in a table.
ViewOf(t) ==
    [k \in {KeyIn(t, k) : k \in PromisedIn(t)} |-> ValueIn(t, UnkeyIn(t, k), t[UnkeyIn(t, k)])]

IsEntityOf(t, x) == \E e \in Known(t), n \in Node : x = EntityAt(RootOf(e, t), n)

\* A row refers to entities of trees that have a name.
RefersTo(t, k, v) ==
    /\ k[1] = "media_entity" => k = EntityKey(k[2]) /\ IsEntityOf(t, k[2])
    /\ k[1] = "entity_alias" =>
        \E e \in Known(t) : k = AliasKey(<<RootOf(e, t)>>, k[3], k[4])
    /\ k[1] \in {"provider_identity", "media_file"} => IsEntityOf(t, v)
    /\ k[1] = "artwork_asset" => IsEntityOf(t, v.entity)

Legible(t) == Unambiguous(t) /\ \A k \in PromisedIn(t) : RefersTo(t, k, t[k])

\* The mapping of ImplementsCatalog, as a function of the table.
LEMMA ViewIsCatalog ==
    [k \in {NamedKey(k) : k \in Promised} |-> NamedValue(UnnamedKey(k))] = ViewOf(db)
<1>1. \A k : NamedKey(k) = KeyIn(db, k)
  BY DEF NamedKey, KeyIn, Named, NamedIn, EntryOf, NameIn
<1>2. \A k : UnnamedKey(k) = UnkeyIn(db, k)
  BY DEF UnnamedKey, UnkeyIn, Unnamed, UnnamedIn
<1>3. \A k : NamedValue(k) = ValueIn(db, k, db[k])
  BY DEF NamedValue, ValueIn, Named, NamedIn, EntryOf, NameIn
<1>4. Promised = PromisedIn(db)
  BY DEF Promised, PromisedIn
<1> QED
  BY <1>1, <1>2, <1>3, <1>4 DEF ViewOf

\* The name of a root is the entry that has it.
LEMMA NameOfRoot ==
    ASSUME NEW t, Unambiguous(t), NEW e \in Known(t)
    PROVE  NameIn(t, RootOf(e, t)) = e
<1> DEFINE r == RootOf(e, t)
           g == NameIn(t, r)
<1>1. e \in Entry /\ IdentityKey(e, <<>>) \in DOMAIN t /\ t[IdentityKey(e, <<>>)] = <<r>>
  BY DEF Known
<1> HIDE DEF r
<1>2. g \in Entry /\ IdentityKey(g, <<>>) \in DOMAIN t /\ t[IdentityKey(g, <<>>)] = <<r>>
  BY <1>1 DEF NameIn
<1> HIDE DEF g
<1>3. RootOf(g, t) = r
  BY <1>2 DEF RootOf
<1>4. g \in Known(t)
  BY <1>2, <1>3 DEF Known
<1>5. g = e
  BY <1>3, <1>4 DEF Unambiguous, r
<1> QED
  BY <1>5 DEF g, r

LEMMA EntityRenamed ==
    ASSUME NEW r, NEW e, NEW n \in Node
    PROVE  /\ EntityAt(r, n)[1] = r
           /\ [EntityAt(r, n) EXCEPT ![1] = e] = EntityAt(e, n)
<1>1. n \in Seq(Nat)
  BY DEF Node
<1>2. ASSUME NEW x
      PROVE  /\ EntityAt(x, n) = [j \in 1..(1 + Len(n)) |-> IF j = 1 THEN x ELSE n[j - 1]]
  BY <1>1 DEF EntityAt
<1>3. 1 \in 1..(1 + Len(n))
  BY <1>1
<1> QED
  BY <1>2, <1>3

\* Naming an entity keeps its node, and is undone.
LEMMA NamedEntity ==
    ASSUME NEW t, Unambiguous(t), NEW e \in Known(t), NEW n \in Node
    PROVE  /\ NamedIn(t, EntityAt(RootOf(e, t), n)) = EntityAt(e, n)
           /\ UnnamedIn(t, EntityAt(e, n)) = EntityAt(RootOf(e, t), n)
<1>1. EntityAt(RootOf(e, t), n)[1] = RootOf(e, t) /\ EntityAt(e, n)[1] = e
  BY EntityRenamed
<1>2. NamedIn(t, EntityAt(RootOf(e, t), n)) = [EntityAt(RootOf(e, t), n) EXCEPT ![1] = e]
  BY <1>1, NameOfRoot DEF NamedIn
<1>3. UnnamedIn(t, EntityAt(e, n)) = [EntityAt(e, n) EXCEPT ![1] = RootOf(e, t)]
  BY <1>1 DEF UnnamedIn, RootOf
<1> QED
  BY <1>2, <1>3, EntityRenamed

LEMMA NamedRoot ==
    ASSUME NEW t, Unambiguous(t), NEW e \in Known(t)
    PROVE  /\ NamedIn(t, <<RootOf(e, t)>>) = <<e>>
           /\ UnnamedIn(t, <<e>>) = <<RootOf(e, t)>>
  BY NamedEntity, RootNode, EntityAtRoot

\* Keys are named one for one.
LEMMA EntityKeyNamed ==
    ASSUME NEW t, Unambiguous(t), NEW e \in Known(t), NEW n \in Node
    PROVE  /\ KeyIn(t, EntityKey(EntityAt(RootOf(e, t), n))) = EntityKey(EntityAt(e, n))
           /\ UnkeyIn(t, EntityKey(EntityAt(e, n))) = EntityKey(EntityAt(RootOf(e, t), n))
<1>1. ASSUME NEW x, NEW y PROVE [EntityKey(x) EXCEPT ![2] = y] = EntityKey(y)
  BY DEF EntityKey
<1>2. \A x : NamesEntity(EntityKey(x)) /\ EntityKey(x)[2] = x
  BY EntityKeyParts DEF NamesEntity
<1> QED
  BY <1>1, <1>2, NamedEntity DEF KeyIn, UnkeyIn

LEMMA AliasKeyNamed ==
    ASSUME NEW t, Unambiguous(t), NEW e \in Known(t), NEW a, NEW s
    PROVE  /\ KeyIn(t, AliasKey(<<RootOf(e, t)>>, a, s)) = AliasKey(<<e>>, a, s)
           /\ UnkeyIn(t, AliasKey(<<e>>, a, s)) = AliasKey(<<RootOf(e, t)>>, a, s)
<1>1. ASSUME NEW x, NEW y PROVE [AliasKey(x, a, s) EXCEPT ![2] = y] = AliasKey(y, a, s)
  BY DEF AliasKey
<1>2. \A x : NamesEntity(AliasKey(x, a, s)) /\ AliasKey(x, a, s)[2] = x
  BY AliasKeyParts DEF NamesEntity
<1> QED
  BY <1>1, <1>2, NamedRoot DEF KeyIn, UnkeyIn

LEMMA OtherKeyNamed ==
    ASSUME NEW t, NEW k, k[1] \notin {"media_entity", "entity_alias"}
    PROVE  KeyIn(t, k) = k /\ UnkeyIn(t, k) = k
  BY DEF KeyIn, UnkeyIn, NamesEntity

\* No two keys of a legible table get one name.
LEMMA UnnamedKeys ==
    ASSUME NEW t, Unambiguous(t), NEW k, NEW v, RefersTo(t, k, v)
    PROVE  UnkeyIn(t, KeyIn(t, k)) = k
<1>1. CASE k[1] = "media_entity"
  <2>1. PICK e \in Known(t), n \in Node : k[2] = EntityAt(RootOf(e, t), n)
    BY <1>1 DEF RefersTo, IsEntityOf
  <2>2. k = EntityKey(EntityAt(RootOf(e, t), n))
    BY <1>1, <2>1 DEF RefersTo
  <2> QED
    BY <2>2, EntityKeyNamed
<1>2. CASE k[1] = "entity_alias"
  <2>1. PICK e \in Known(t) : k = AliasKey(<<RootOf(e, t)>>, k[3], k[4])
    BY <1>2 DEF RefersTo
  <2> DEFINE a == k[3]
             s == k[4]
  <2>2. k = AliasKey(<<RootOf(e, t)>>, a, s)
    BY <2>1
  <2> HIDE DEF a, s
  <2>3. KeyIn(t, AliasKey(<<RootOf(e, t)>>, a, s)) = AliasKey(<<e>>, a, s)
    BY AliasKeyNamed
  <2>4. UnkeyIn(t, AliasKey(<<e>>, a, s)) = AliasKey(<<RootOf(e, t)>>, a, s)
    BY AliasKeyNamed
  <2> QED
    BY <2>2, <2>3, <2>4
<1>3. CASE k[1] \notin {"media_entity", "entity_alias"}
  BY <1>3, OtherKeyNamed
<1> QED
  BY <1>1, <1>2, <1>3

\* What the view shows of a row.
LEMMA ViewRow ==
    ASSUME NEW t, Legible(t)
    PROVE  /\ DOMAIN ViewOf(t) = {KeyIn(t, k) : k \in PromisedIn(t)}
           /\ \A k \in PromisedIn(t) : ViewOf(t)[KeyIn(t, k)] = ValueIn(t, k, t[k])
<1>1. \A k \in PromisedIn(t) : UnkeyIn(t, KeyIn(t, k)) = k
  BY UnnamedKeys DEF Legible
<1> QED
  BY <1>1 DEF ViewOf

-----------------------------------------------------------------------------
(* Rows under their names. *)

\* One kind of row after the other: named, it is the row of the named tree.
LEMMA EntityRowNamed ==
    ASSUME NEW t, Unambiguous(t), NEW e \in Known(t), NEW n \in Node, NEW v
    PROVE  /\ RowIn(t, Row(EntityKey(EntityAt(RootOf(e, t), n)), v)) = Row(EntityKey(EntityAt(e, n)), v)
           /\ RefersTo(t, EntityKey(EntityAt(RootOf(e, t), n)), v)
<1> DEFINE x == EntityAt(RootOf(e, t), n)
<1>1. EntityKey(x)[1] = "media_entity" /\ EntityKey(x)[2] = x /\ IsEntityOf(t, x)
  BY EntityKeyParts DEF IsEntityOf
<1>2. KeyIn(t, EntityKey(x)) = EntityKey(EntityAt(e, n))
  BY EntityKeyNamed
<1> HIDE DEF x
<1>3. ValueIn(t, EntityKey(x), v) = v
  BY <1>1 DEF ValueIn
<1>4. RefersTo(t, EntityKey(x), v)
  BY <1>1 DEF RefersTo
<1> QED
  BY <1>2, <1>3, <1>4 DEF RowIn, Row, RowInTurn, x

LEMMA AliasRowNamed ==
    ASSUME NEW t, Unambiguous(t), NEW e \in Known(t), NEW a, NEW s, NEW v, NEW turn
    PROVE  /\ RowIn(t, RowInTurn(AliasKey(<<RootOf(e, t)>>, a, s), v, turn))
                = RowInTurn(AliasKey(<<e>>, a, s), v, turn)
           /\ RefersTo(t, AliasKey(<<RootOf(e, t)>>, a, s), v)
<1> DEFINE k == AliasKey(<<RootOf(e, t)>>, a, s)
<1>1. k[1] = "entity_alias" /\ k[3] = a /\ k[4] = s /\ k = AliasKey(<<RootOf(e, t)>>, a, s)
  BY AliasKeyParts
<1>2. KeyIn(t, k) = AliasKey(<<e>>, a, s)
  BY AliasKeyNamed
<1> HIDE DEF k
<1>3. ValueIn(t, k, v) = v
  BY <1>1 DEF ValueIn
<1>4. RefersTo(t, k, v)
  BY <1>1 DEF RefersTo
<1> QED
  BY <1>2, <1>3, <1>4 DEF RowIn, RowInTurn, k

\* An identity or a file.
LEMMA OwnedRowNamed ==
    ASSUME NEW t, Unambiguous(t), NEW e \in Known(t), NEW n \in Node, NEW k,
           k[1] \in {"provider_identity", "media_file"}
    PROVE  /\ RowIn(t, Row(k, EntityAt(RootOf(e, t), n))) = Row(k, EntityAt(e, n))
           /\ RefersTo(t, k, EntityAt(RootOf(e, t), n))
<1> DEFINE x == EntityAt(RootOf(e, t), n)
<1>1. IsEntityOf(t, x)
  BY DEF IsEntityOf
<1>2. NamedIn(t, x) = EntityAt(e, n)
  BY NamedEntity
<1>3. KeyIn(t, k) = k
  BY OtherKeyNamed
<1> HIDE DEF x
<1>4. ValueIn(t, k, x) = EntityAt(e, n)
  BY <1>2 DEF ValueIn
<1>5. RefersTo(t, k, x)
  BY <1>1 DEF RefersTo
<1> QED
  BY <1>3, <1>4, <1>5 DEF RowIn, Row, RowInTurn, x

LEMMA AssetRowNamed ==
    ASSUME NEW t, Unambiguous(t), NEW e \in Known(t), NEW n \in Node, NEW stored, NEW original, NEW turn
    PROVE  /\ RowIn(t, RowInTurn(AssetKey(stored),
                                 [entity |-> EntityAt(RootOf(e, t), n), original |-> original], turn))
                = RowInTurn(AssetKey(stored), [entity |-> EntityAt(e, n), original |-> original], turn)
           /\ RefersTo(t, AssetKey(stored), [entity |-> EntityAt(RootOf(e, t), n), original |-> original])
<1> DEFINE x == EntityAt(RootOf(e, t), n)
           y == EntityAt(e, n)
           k == AssetKey(stored)
<1>1. IsEntityOf(t, x)
  BY DEF IsEntityOf
<1>2. NamedIn(t, x) = y
  BY NamedEntity
<1>3. k[1] = "artwork_asset"
  BY FiledKeys
<1> HIDE DEF x, y, k
<1>4. KeyIn(t, k) = k
  BY <1>3, OtherKeyNamed
<1>5. ValueIn(t, k, [entity |-> x, original |-> original]) = [entity |-> y, original |-> original]
  BY <1>2, <1>3 DEF ValueIn
<1>6. RefersTo(t, k, [entity |-> x, original |-> original])
  BY <1>1, <1>3 DEF RefersTo
<1> QED
  BY <1>4, <1>5, <1>6 DEF RowIn, RowInTurn, x, y, k

LEMMA PlainRowNamed ==
    ASSUME NEW t, NEW q, q = RowInTurn(q.key, q.value, q.turn),
           q.key[1] \in {"media_items", "media_files", "media_images"}
    PROVE  RowIn(t, q) = q /\ RefersTo(t, q.key, q.value)
<1>1. KeyIn(t, q.key) = q.key
  BY OtherKeyNamed
<1>2. ValueIn(t, q.key, q.value) = q.value
  BY DEF ValueIn
<1>3. RefersTo(t, q.key, q.value)
  BY DEF RefersTo
<1> QED
  BY <1>1, <1>2, <1>3 DEF RowIn

\* rows under their names are named.
NamedRows(t, rows, named) ==
    /\ \A q \in rows : RowIn(t, q) \in named /\ RefersTo(t, q.key, q.value)
    /\ \A p \in named : \E q \in rows : RowIn(t, q) = p

\* Sets of rows can be named part by part.
LEMMA NamedUnion ==
    ASSUME NEW t, NEW A, NEW B, NEW C, NEW D, NamedRows(t, A, C), NamedRows(t, B, D)
    PROVE  NamedRows(t, A \cup B, C \cup D)
<1>1. ASSUME NEW p \in C \cup D PROVE \E q \in A \cup B : RowIn(t, q) = p
  BY DEF NamedRows
<1>2. ASSUME NEW q \in A \cup B PROVE RowIn(t, q) \in C \cup D /\ RefersTo(t, q.key, q.value)
  BY DEF NamedRows
<1> QED
  BY <1>1, <1>2 DEF NamedRows

LEMMA NodesTyped ==
    ASSUME NEW d \in Detail PROVE d.entry \in Entry /\ d.nodes \subseteq Node /\ <<>> \in d.nodes
  BY DetailAssumption DEF DetailType

\* The legacy rows of some files and the images of a folder.
PlainRows(d, f, videos) == {ItemRow(d)} \cup LegacyFileRows(d, videos) \cup LegacyImageRows(d, f)

LEMMA PlainRowsNamed ==
    ASSUME NEW t, NEW d, NEW f, NEW videos
    PROVE  NamedRows(t, PlainRows(d, f, videos), PlainRows(d, f, videos))
<1>1. ASSUME NEW q \in PlainRows(d, f, videos)
      PROVE  RowIn(t, q) = q /\ RefersTo(t, q.key, q.value)
  <2>1. q.key[1] \in {"media_items", "media_files", "media_images"}
    BY FiledLegacyFiles, FiledLegacyImages, FiledKeys DEF PlainRows, ItemRow, ItemKey, Row, RowInTurn
  <2>2. q = RowInTurn(q.key, q.value, q.turn)
    BY DEF PlainRows, ItemRow, LegacyFileRows, LegacyImageRows, Row, RowInTurn
  <2> QED
    BY <2>1, <2>2, PlainRowNamed
<1> QED
  BY <1>1 DEF NamedRows

LEMMA EntityRowsNamed ==
    ASSUME NEW t, Unambiguous(t), NEW e \in Known(t), NEW d \in Detail, d.entry = e
    PROVE  NamedRows(t, {EntityRow(n, RootOf(e, t)) : n \in d.nodes}, {EntityRow(n, e) : n \in d.nodes})
<1> DEFINE r == RootOf(e, t)
<1>1. ASSUME NEW n \in d.nodes
      PROVE  /\ RowIn(t, EntityRow(n, r)) = EntityRow(n, e)
             /\ RefersTo(t, EntityRow(n, r).key, EntityRow(n, r).value)
  <2>1. n \in Node /\ EntityRow(n, r).key = EntityKey(EntityAt(r, n))
    BY NodesTyped, EntityRowParts
  <2> QED
    BY <2>1, EntityRowNamed DEF EntityRow
<1> HIDE DEF r
<1>2. NamedRows(t, {EntityRow(n, r) : n \in d.nodes}, {EntityRow(n, e) : n \in d.nodes})
  BY <1>1 DEF NamedRows
<1> QED
  BY <1>2 DEF r

LEMMA IdentityRowsNamed ==
    ASSUME NEW t, Unambiguous(t), NEW e \in Known(t), NEW d \in Detail, d.entry = e
    PROVE  NamedRows(t, {IdentityRow(d, n, RootOf(e, t)) : n \in d.nodes},
                     {IdentityRow(d, n, e) : n \in d.nodes})
<1> DEFINE r == RootOf(e, t)
<1>1. ASSUME NEW n \in d.nodes
      PROVE  /\ RowIn(t, IdentityRow(d, n, r)) = IdentityRow(d, n, e)
             /\ RefersTo(t, IdentityRow(d, n, r).key, IdentityRow(d, n, r).value)
  <2>1. /\ n \in Node /\ IdentityRow(d, n, r).key = IdentityKey(d.entry, n)
        /\ IdentityRow(d, n, r).value = EntityAt(r, n)
    BY NodesTyped, IdentityRowParts
  <2>2. IdentityKey(d.entry, n)[1] = "provider_identity"
    BY IdentityKeyParts
  <2> QED
    BY <2>1, <2>2, OwnedRowNamed DEF IdentityRow
<1> HIDE DEF r
<1>2. NamedRows(t, {IdentityRow(d, n, r) : n \in d.nodes}, {IdentityRow(d, n, e) : n \in d.nodes})
  BY <1>1 DEF NamedRows
<1> QED
  BY <1>2 DEF r


LEMMA AliasRowsNamed ==
    ASSUME NEW t, Unambiguous(t), NEW e \in Known(t), NEW d, NEW f
    PROVE  NamedRows(t, AliasRows(d, f, RootOf(e, t)), AliasRows(d, f, e))
<1> DEFINE Alias1(r) == RowInTurn(AliasKey(<<r>>, d.title, "provider"), "primary", 0)
           Alias2(r) == RowInTurn(AliasKey(<<r>>, Candidate[f], "parser"), "other", 0)
           Alias3(r, a) == RowInTurn(AliasKey(<<r>>, a, "provider"), "other", 1)
           Others(r) == {Alias3(r, a) : a \in {d.original} \ {NoAlias}}
<1>1. ASSUME NEW r PROVE AliasRows(d, f, r) = {Alias1(r), Alias2(r)} \cup Others(r)
  BY DEF AliasRows, Row
<1>2. \A a, s, v, turn :
         /\ RowInTurn(AliasKey(<<RootOf(e, t)>>, a, s), v, turn).key = AliasKey(<<RootOf(e, t)>>, a, s)
         /\ RowInTurn(AliasKey(<<RootOf(e, t)>>, a, s), v, turn).value = v
  BY DEF RowInTurn
<1> DEFINE r0 == RootOf(e, t)
<1>3. /\ RowIn(t, Alias1(r0)) = Alias1(e) /\ RefersTo(t, Alias1(r0).key, Alias1(r0).value)
      /\ RowIn(t, Alias2(r0)) = Alias2(e) /\ RefersTo(t, Alias2(r0).key, Alias2(r0).value)
  BY <1>2, AliasRowNamed
<1>4. ASSUME NEW a
      PROVE  RowIn(t, Alias3(r0, a)) = Alias3(e, a) /\ RefersTo(t, Alias3(r0, a).key, Alias3(r0, a).value)
  BY <1>2, AliasRowNamed
<1> HIDE DEF Alias1, Alias2, Alias3, r0
<1>5. NamedRows(t, {Alias1(r0), Alias2(r0)}, {Alias1(e), Alias2(e)})
  BY <1>3 DEF NamedRows
<1>6. NamedRows(t, Others(r0), Others(e))
  BY <1>4 DEF NamedRows
<1>7. NamedRows(t, AliasRows(d, f, r0), AliasRows(d, f, e))
  BY <1>1, <1>5, <1>6, NamedUnion
<1> QED
  BY <1>7 DEF r0

LEMMA FileRowsNamed ==
    ASSUME NEW t, Unambiguous(t), NEW e \in Known(t), NEW d, NEW f \in Folder
    PROVE  NamedRows(t, FileRows(d, f, RootOf(e, t)), FileRows(d, f, e))
<1> DEFINE File(r, v) == Row(FileKey(v.path), EntityAt(r, PlayableNode(d, v.node)))
           r0 == RootOf(e, t)
<1>1. ASSUME NEW v \in Video[f]
      PROVE  RowIn(t, File(r0, v)) = File(e, v) /\ RefersTo(t, File(r0, v).key, File(r0, v).value)
  <2>1. PlayableNode(d, v.node) \in Node
    BY FolderAssumption, RootNode DEF PlayableNode
  <2>2. FileKey(v.path)[1] \in {"provider_identity", "media_file"}
    BY FiledKeys
  <2>3. File(r0, v).key = FileKey(v.path) /\ File(r0, v).value = EntityAt(r0, PlayableNode(d, v.node))
    BY DEF Row, RowInTurn
  <2> QED
    BY <2>1, <2>2, <2>3, OwnedRowNamed
<1>2. ASSUME NEW r PROVE FileRows(d, f, r) = {File(r, v) : v \in Video[f]}
  BY DEF FileRows
<1> HIDE DEF File, r0
<1>3. NamedRows(t, {File(r0, v) : v \in Video[f]}, {File(e, v) : v \in Video[f]})
  BY <1>1 DEF NamedRows
<1>4. NamedRows(t, FileRows(d, f, r0), FileRows(d, f, e))
  BY <1>2, <1>3
<1> QED
  BY <1>4 DEF r0

LEMMA AssetRowsNamed ==
    ASSUME NEW t, Unambiguous(t), NEW e \in Known(t), NEW d \in Detail, NEW f
    PROVE  NamedRows(t, ProviderAssetRows(d, f, RootOf(e, t)), ProviderAssetRows(d, f, e))
<1> DEFINE Asset(r, n) == RowInTurn(AssetKey(Stored("tmdb", d.entry, n, "image")),
                                    [entity |-> EntityAt(r, ArtworkNode(d, n)), original |-> 0], 0)
           r0 == RootOf(e, t)
<1>1. ASSUME NEW n \in Images(d, f)
      PROVE  RowIn(t, Asset(r0, n)) = Asset(e, n) /\ RefersTo(t, Asset(r0, n).key, Asset(r0, n).value)
  <2>1. ArtworkNode(d, n) \in Node
    BY NodesTyped, RootNode DEF ArtworkNode
  <2>2. /\ Asset(r0, n).key = AssetKey(Stored("tmdb", d.entry, n, "image"))
        /\ Asset(r0, n).value = [entity |-> EntityAt(r0, ArtworkNode(d, n)), original |-> 0]
    BY DEF RowInTurn
  <2> QED
    BY <2>1, <2>2, AssetRowNamed
<1>2. ASSUME NEW r PROVE ProviderAssetRows(d, f, r) = {Asset(r, n) : n \in Images(d, f)}
  BY DEF ProviderAssetRows, Row
<1> HIDE DEF Asset, r0
<1>3. NamedRows(t, {Asset(r0, n) : n \in Images(d, f)}, {Asset(e, n) : n \in Images(d, f)})
  BY <1>1 DEF NamedRows
<1>4. NamedRows(t, ProviderAssetRows(d, f, r0), ProviderAssetRows(d, f, e))
  BY <1>2, <1>3
<1> QED
  BY <1>4 DEF r0

LEMMA LocalRowsNamed ==
    ASSUME NEW t, Unambiguous(t), NEW e \in Known(t), NEW d \in Detail, NEW f
    PROVE  NamedRows(t, LocalAssetRows(d, f, RootOf(e, t)), LocalAssetRows(d, f, e))
<1> DEFINE Owner(a) == IF a.node \in d.nodes THEN a.node ELSE <<>>
           Asset(r, a) == RowInTurn(AssetKey(Stored("local_file", d.entry, a.node, a.slot)),
                                    [entity |-> EntityAt(r, Owner(a)), original |-> a.path], a.path)
           Local == IF Preference = "provider_only" THEN {} ELSE Artwork[f]
           r0 == RootOf(e, t)
<1>1. ASSUME NEW a \in Local
      PROVE  RowIn(t, Asset(r0, a)) = Asset(e, a) /\ RefersTo(t, Asset(r0, a).key, Asset(r0, a).value)
  <2>1. Owner(a) \in Node
    BY NodesTyped, RootNode
  <2>2. /\ Asset(r0, a).key = AssetKey(Stored("local_file", d.entry, a.node, a.slot))
        /\ Asset(r0, a).value = [entity |-> EntityAt(r0, Owner(a)), original |-> a.path]
    BY DEF RowInTurn
  <2> HIDE DEF Owner
  <2> QED
    BY <2>1, <2>2, AssetRowNamed
<1>2. ASSUME NEW r PROVE LocalAssetRows(d, f, r) = {Asset(r, a) : a \in Local}
  BY DEF LocalAssetRows
<1> HIDE DEF Asset, Local, r0
<1>3. NamedRows(t, {Asset(r0, a) : a \in Local}, {Asset(e, a) : a \in Local})
  BY <1>1 DEF NamedRows
<1>4. NamedRows(t, LocalAssetRows(d, f, r0), LocalAssetRows(d, f, e))
  BY <1>2, <1>3
<1> QED
  BY <1>4 DEF r0

\* The rows of an ingest, named, are the rows that Catalog wants of it.
LEMMA IngestNamed ==
    ASSUME NEW t, Unambiguous(t), NEW e \in Known(t), NEW d \in Detail, d.entry = e, NEW f \in Folder
    PROVE  NamedRows(t, RowsAt(d, f, RootOf(e, t)), AllRows(d, f))
<1> DEFINE Plain == PlainRows(d, f, Video[f])
           Entity(r) == {EntityRow(n, r) : n \in d.nodes}
           Identity(r) == {IdentityRow(d, n, r) : n \in d.nodes}
           Tree(r) == Entity(r) \cup Identity(r)
           r0 == RootOf(e, t)
<1>1. NamedRows(t, Plain, Plain)
  BY PlainRowsNamed
<1>2. NamedRows(t, Tree(r0), Tree(e))
  <2>1. NamedRows(t, Entity(r0), Entity(e))
    BY EntityRowsNamed
  <2>2. NamedRows(t, Identity(r0), Identity(e))
    BY IdentityRowsNamed
  <2> HIDE DEF Entity, Identity
  <2> QED
    BY <2>1, <2>2, NamedUnion
<1>3. NamedRows(t, AliasRows(d, f, r0) \cup FileRows(d, f, r0), AliasRows(d, f, e) \cup FileRows(d, f, e))
  BY AliasRowsNamed, FileRowsNamed, NamedUnion
<1>4. NamedRows(t, ProviderAssetRows(d, f, r0) \cup LocalAssetRows(d, f, r0),
                ProviderAssetRows(d, f, e) \cup LocalAssetRows(d, f, e))
  BY AssetRowsNamed, LocalRowsNamed, NamedUnion
<1> HIDE DEF r0
<1>5. ASSUME NEW r PROVE UnflushedRows(d, f, r) = (AliasRows(d, f, r) \cup FileRows(d, f, r))
                                  \cup (ProviderAssetRows(d, f, r) \cup LocalAssetRows(d, f, r))
  BY DEF UnflushedRows, EntryRows
<1>6. NamedRows(t, UnflushedRows(d, f, r0), UnflushedRows(d, f, e))
  BY <1>3, <1>4, <1>5, NamedUnion
<1>7. ASSUME NEW r PROVE RowsAt(d, f, r) = Plain \cup (Tree(r) \cup UnflushedRows(d, f, r))
  BY DEF RowsAt, PlainRows, LegacyRows
<1>8. AllRows(d, f) = RowsAt(d, f, e)
  BY DEF AllRows, RowsAt
<1> HIDE DEF Plain, Tree
<1>9. NamedRows(t, Tree(r0) \cup UnflushedRows(d, f, r0), Tree(e) \cup UnflushedRows(d, f, e))
  BY <1>2, <1>6, NamedUnion
<1>10. NamedRows(t, RowsAt(d, f, r0), AllRows(d, f))
  BY <1>1, <1>7, <1>8, <1>9, NamedUnion
<1> QED
  BY <1>10 DEF r0

\* The rows that the migration makes of one folder.
FolderRows(d, f, videos, r) ==
    PlainRows(d, f, videos) \cup (BackfilledEntities(d, videos, r) \cup BackfilledRows(d, f, videos, r))

\* The rows of one folder, named.
LEMMA FolderNamed ==
    ASSUME NEW t, Unambiguous(t), NEW e \in Known(t), NEW d, d.entry = e,
           NEW f \in Folder, NEW videos \in SUBSET Video[f]
    PROVE  NamedRows(t, FolderRows(d, f, videos, RootOf(e, t)), FolderRows(d, f, videos, e))
<1> DEFINE r0 == RootOf(e, t)
           Entity(r, n) == Row(EntityKey(EntityAt(r, n)), "backfilled")
           Identity(r) == {Row(IdentityKey(d.entry, <<>>), EntityAt(r, <<>>))}
           Alias1(r) == RowInTurn(AliasKey(<<r>>, d.title, "legacy"), "primary", 0)
           Alias2(r, a) == RowInTurn(AliasKey(<<r>>, a, "legacy"), "other", 0)
           Aliases(r) == {Alias1(r)} \cup {Alias2(r, a) : a \in {d.original} \ {NoAlias}}
           File(r, v) == Row(FileKey(v.path), EntityAt(r, BackfilledNode(d, v.node)))
           FilesAt(r) == {File(r, v) : v \in videos}
           Asset(r, n) == RowInTurn(AssetKey(Stored("tmdb", d.entry, n, "image")),
                                    [entity |-> EntityAt(r, <<>>), original |-> 0], 0)
           AssetsAt(r) == {Asset(r, n) : n \in Images(d, f)}
<1>1. NamedRows(t, PlainRows(d, f, videos), PlainRows(d, f, videos))
  BY PlainRowsNamed
<1>2. NamedRows(t, BackfilledEntities(d, videos, r0), BackfilledEntities(d, videos, e))
  <2>1. ASSUME NEW n \in PathNodes(d, videos)
        PROVE  RowIn(t, Entity(r0, n)) = Entity(e, n) /\ RefersTo(t, Entity(r0, n).key, Entity(r0, n).value)
    <3>1. n \in Node
      BY PathNodesTyped
    <3>2. Entity(r0, n).key = EntityKey(EntityAt(r0, n)) /\ Entity(r0, n).value = "backfilled"
      BY DEF Row, RowInTurn
    <3> QED
      BY <3>1, <3>2, EntityRowNamed
  <2>2. ASSUME NEW r PROVE BackfilledEntities(d, videos, r) = {Entity(r, n) : n \in PathNodes(d, videos)}
    BY BackfilledNodes
  <2> HIDE DEF Entity, r0
  <2> QED
    BY <2>1, <2>2 DEF NamedRows
<1>3. NamedRows(t, Identity(r0), Identity(e))
  <2>1. IdentityKey(d.entry, <<>>)[1] \in {"provider_identity", "media_file"}
    BY IdentityKeyParts
  <2> DEFINE row(r) == Row(IdentityKey(d.entry, <<>>), EntityAt(r, <<>>))
  <2>2. row(r0).key = IdentityKey(d.entry, <<>>) /\ row(r0).value = EntityAt(r0, <<>>)
    BY DEF Row, RowInTurn
  <2>3. RowIn(t, row(r0)) = row(e) /\ RefersTo(t, row(r0).key, row(r0).value)
    BY <2>1, <2>2, RootNode, OwnedRowNamed
  <2>4. Identity(r0) = {row(r0)} /\ Identity(e) = {row(e)}
    OBVIOUS
  <2> HIDE DEF row, Identity
  <2> QED
    BY <2>3, <2>4 DEF NamedRows
<1>4. NamedRows(t, Aliases(r0), Aliases(e))
  <2>1. \A a, s, v, turn :
           /\ RowInTurn(AliasKey(<<r0>>, a, s), v, turn).key = AliasKey(<<r0>>, a, s)
           /\ RowInTurn(AliasKey(<<r0>>, a, s), v, turn).value = v
    BY DEF RowInTurn
  <2>2. RowIn(t, Alias1(r0)) = Alias1(e) /\ RefersTo(t, Alias1(r0).key, Alias1(r0).value)
    BY <2>1, AliasRowNamed
  <2>3. ASSUME NEW a
        PROVE  RowIn(t, Alias2(r0, a)) = Alias2(e, a) /\ RefersTo(t, Alias2(r0, a).key, Alias2(r0, a).value)
    BY <2>1, AliasRowNamed
  <2> HIDE DEF Alias1, Alias2, r0
  <2> QED
    BY <2>2, <2>3 DEF NamedRows
<1>5. NamedRows(t, FilesAt(r0), FilesAt(e))
  <2>1. ASSUME NEW v \in videos
        PROVE  RowIn(t, File(r0, v)) = File(e, v) /\ RefersTo(t, File(r0, v).key, File(r0, v).value)
    <3>1. BackfilledNode(d, v.node) \in Node
      BY FolderAssumption, RootNode DEF BackfilledNode
    <3>2. FileKey(v.path)[1] \in {"provider_identity", "media_file"}
      BY FiledKeys
    <3>3. File(r0, v).key = FileKey(v.path) /\ File(r0, v).value = EntityAt(r0, BackfilledNode(d, v.node))
      BY DEF Row, RowInTurn
    <3> QED
      BY <3>1, <3>2, <3>3, OwnedRowNamed
  <2> HIDE DEF File, r0
  <2> QED
    BY <2>1 DEF NamedRows
<1>6. NamedRows(t, AssetsAt(r0), AssetsAt(e))
  <2>1. ASSUME NEW n \in Images(d, f)
        PROVE  RowIn(t, Asset(r0, n)) = Asset(e, n) /\ RefersTo(t, Asset(r0, n).key, Asset(r0, n).value)
    <3>1. /\ Asset(r0, n).key = AssetKey(Stored("tmdb", d.entry, n, "image"))
          /\ Asset(r0, n).value = [entity |-> EntityAt(r0, <<>>), original |-> 0]
      BY DEF RowInTurn
    <3> QED
      BY <3>1, RootNode, AssetRowNamed
  <2> HIDE DEF Asset, r0
  <2> QED
    BY <2>1 DEF NamedRows
<1>7. ASSUME NEW r
      PROVE  BackfilledRows(d, f, videos, r) = (Identity(r) \cup Aliases(r)) \cup (FilesAt(r) \cup AssetsAt(r))
  <2>1. EntityAt(r, <<>>) = <<r>>
    BY EntityAtRoot
  <2> QED
    BY <2>1 DEF BackfilledRows, Row
<1> HIDE DEF Identity, Aliases, FilesAt, AssetsAt, r0
<1>8. NamedRows(t, BackfilledRows(d, f, videos, r0), BackfilledRows(d, f, videos, e))
  <2>1. NamedRows(t, Identity(r0) \cup Aliases(r0), Identity(e) \cup Aliases(e))
    BY <1>3, <1>4, NamedUnion
  <2>2. NamedRows(t, FilesAt(r0) \cup AssetsAt(r0), FilesAt(e) \cup AssetsAt(e))
    BY <1>5, <1>6, NamedUnion
  <2> QED
    BY <1>7, <2>1, <2>2, NamedUnion
<1>9. NamedRows(t, BackfilledEntities(d, videos, r0) \cup BackfilledRows(d, f, videos, r0),
                BackfilledEntities(d, videos, e) \cup BackfilledRows(d, f, videos, e))
  BY <1>2, <1>8, NamedUnion
<1>10. NamedRows(t, FolderRows(d, f, videos, r0), FolderRows(d, f, videos, e))
  BY <1>1, <1>9, NamedUnion DEF FolderRows
<1> QED
  BY <1>10 DEF r0

\* A migration into trees with roots, named, is the migration into trees with names.
LEMMA MigrationNamed ==
    ASSUME NEW t, Unambiguous(t), NEW l \in Legacy, NEW rootOf,
           \A f \in DOMAIN l.said : /\ l.said[f].entry \in Known(t)
                               /\ RootOf(l.said[f].entry, t) = rootOf[l.said[f].entry]
    PROVE  NamedRows(t, BackfilledTable(l, rootOf), BackfilledTable(l, ByEntry))
<1>1. ASSUME NEW f \in DOMAIN l.said
      PROVE  NamedRows(t, FolderRows(l.said[f], f, l.files[f], rootOf[l.said[f].entry]),
                       FolderRows(l.said[f], f, l.files[f], ByEntry[l.said[f].entry]))
  <2>1. /\ f \in Folder /\ l.said[f].entry \in Known(t) /\ l.said[f].entry \in Entry
        /\ l.files[f] \in SUBSET Video[f]
    BY LegacyAssumption DEF Known
  <2>2. ByEntry[l.said[f].entry] = l.said[f].entry
    BY <2>1 DEF ByEntry
  <2>3. rootOf[l.said[f].entry] = RootOf(l.said[f].entry, t)
    OBVIOUS
  <2>4. NamedRows(t, FolderRows(l.said[f], f, l.files[f], RootOf(l.said[f].entry, t)),
                  FolderRows(l.said[f], f, l.files[f], l.said[f].entry))
    BY <2>1, FolderNamed
  <2> QED
    BY <2>2, <2>3, <2>4
<1>2. ASSUME NEW of
      PROVE  /\ \A q \in BackfilledTable(l, of) : \E f \in DOMAIN l.said :
                    q \in FolderRows(l.said[f], f, l.files[f], of[l.said[f].entry])
             /\ \A f \in DOMAIN l.said :
                    FolderRows(l.said[f], f, l.files[f], of[l.said[f].entry]) \subseteq BackfilledTable(l, of)
  BY DEF BackfilledTable, LegacyTables, FolderRows, PlainRows
<1>3. ASSUME NEW q \in BackfilledTable(l, rootOf)
      PROVE  RowIn(t, q) \in BackfilledTable(l, ByEntry) /\ RefersTo(t, q.key, q.value)
  <2>1. PICK f \in DOMAIN l.said : q \in FolderRows(l.said[f], f, l.files[f], rootOf[l.said[f].entry])
    BY <1>2
  <2>2. /\ RowIn(t, q) \in FolderRows(l.said[f], f, l.files[f], ByEntry[l.said[f].entry])
        /\ RefersTo(t, q.key, q.value)
    BY <1>1, <2>1 DEF NamedRows
  <2> QED
    BY <1>2, <2>2
<1>4. ASSUME NEW p \in BackfilledTable(l, ByEntry)
      PROVE  \E q \in BackfilledTable(l, rootOf) : RowIn(t, q) = p
  <2>1. PICK f \in DOMAIN l.said : p \in FolderRows(l.said[f], f, l.files[f], ByEntry[l.said[f].entry])
    BY <1>2
  <2>2. PICK q \in FolderRows(l.said[f], f, l.files[f], rootOf[l.said[f].entry]) : RowIn(t, q) = p
    BY <1>1, <2>1 DEF NamedRows
  <2> QED
    BY <1>2, <2>2
<1> QED
  BY <1>3, <1>4 DEF NamedRows

-----------------------------------------------------------------------------
(* Tables of rows under their names. *)

\* A table has the rows that count.
LEMMA TableLast ==
    ASSUME NEW rows
    PROVE  /\ DOMAIN Table(rows) = {r.key : r \in Last(rows)}
           /\ \A k \in DOMAIN Table(rows) : \E r \in Last(rows) : r.key = k /\ Table(rows)[k] = r.value
<1> DEFINE last == Last(rows)
<1>1. Table(rows) = [k \in {r.key : r \in last} |-> (CHOOSE r \in last : r.key = k).value]
  BY DEF Table
<1> HIDE DEF last
<1>2. ASSUME NEW k \in {r.key : r \in last}
      PROVE  \E r \in last : r.key = k /\ Table(rows)[k] = r.value
  <2>1. \E r \in last : r.key = k
    OBVIOUS
  <2>2. (CHOOSE x \in last : x.key = k) \in last /\ (CHOOSE x \in last : x.key = k).key = k
    BY <2>1
  <2> QED
    BY <1>1, <1>2, <2>2
<1> QED
  BY <1>1, <1>2 DEF last

\* Rows of one key that count have one value.
Settled(rows) ==
    \A p, q \in rows : p.key = q.key /\ p.turn <= q.turn /\ q.turn <= p.turn => p.value = q.value

\* Where rows of one key that count have one value, a table has it.
LEMMA SettledTable ==
    ASSUME NEW rows, Settled(rows), NEW r \in Last(rows)
    PROVE  r.key \in DOMAIN Table(rows) /\ Table(rows)[r.key] = r.value
<1>1. r.key \in DOMAIN Table(rows)
  <2>1. DOMAIN Table(rows) = {q.key : q \in Last(rows)}
    BY TableLast
  <2> QED
    BY <2>1
<1>2. PICK q \in Last(rows) : q.key = r.key /\ Table(rows)[r.key] = q.value
  <2>1. \A k \in DOMAIN Table(rows) : \E q \in Last(rows) : q.key = k /\ Table(rows)[k] = q.value
    BY TableLast
  <2> QED
    BY <1>1, <2>1
<1>3. q.turn <= r.turn /\ r.turn <= q.turn /\ q \in rows /\ r \in rows
  BY <1>2 DEF Last
<1>4. q.value = r.value
  BY <1>2, <1>3 DEF Settled
<1> QED
  BY <1>1, <1>2, <1>4

\* The table of named rows is the table of the rows, named.
LEMMA NamedTable ==
    ASSUME NEW t, Unambiguous(t), NEW rows, NEW named, NamedRows(t, rows, named), Settled(named)
    PROVE  /\ DOMAIN Table(named) = {KeyIn(t, q.key) : q \in Last(rows)}
           /\ \A q \in Last(rows) : Table(named)[KeyIn(t, q.key)] = ValueIn(t, q.key, q.value)
<1>1. \A q : /\ RowIn(t, q).key = KeyIn(t, q.key)
             /\ RowIn(t, q).value = ValueIn(t, q.key, q.value)
             /\ RowIn(t, q).turn = q.turn
  BY DEF RowIn, RowInTurn
<1>2. ASSUME NEW p \in rows, NEW q \in rows PROVE KeyIn(t, p.key) = KeyIn(t, q.key) <=> p.key = q.key
  <2>1. UnkeyIn(t, KeyIn(t, p.key)) = p.key /\ UnkeyIn(t, KeyIn(t, q.key)) = q.key
    BY UnnamedKeys DEF NamedRows
  <2> QED
    BY <2>1
<1>3. ASSUME NEW q \in Last(rows) PROVE RowIn(t, q) \in Last(named)
  <2>1. q \in rows /\ RowIn(t, q) \in named
    BY DEF Last, NamedRows
  <2>2. ASSUME NEW p \in named, p.key = RowIn(t, q).key PROVE p.turn <= RowIn(t, q).turn
    <3>1. PICK o \in rows : RowIn(t, o) = p
      BY DEF NamedRows
    <3>2. o.key = q.key
      BY <1>1, <1>2, <2>1, <2>2, <3>1
    <3>3. o.turn <= q.turn
      BY <3>2 DEF Last
    <3> QED
      BY <1>1, <3>1, <3>3
  <2> QED
    BY <2>1, <2>2 DEF Last
<1>4. ASSUME NEW p \in Last(named) PROVE \E q \in Last(rows) : RowIn(t, q) = p
  <2>1. PICK q \in rows : RowIn(t, q) = p
    BY DEF Last, NamedRows
  <2>2. ASSUME NEW o \in rows, o.key = q.key PROVE o.turn <= q.turn
    <3>1. RowIn(t, o) \in named /\ RowIn(t, o).key = p.key
      BY <1>1, <2>1, <2>2 DEF NamedRows
    <3>2. RowIn(t, o).turn <= p.turn
      BY <3>1 DEF Last
    <3> QED
      BY <1>1, <2>1, <3>2
  <2>3. q \in Last(rows)
    BY <2>2 DEF Last
  <2> QED
    BY <2>1, <2>3
<1>5. ASSUME NEW k \in DOMAIN Table(named) PROVE \E q \in Last(rows) : k = KeyIn(t, q.key)
  <2>1. PICK p \in Last(named) : p.key = k
    BY TableLast
  <2>2. PICK q \in Last(rows) : RowIn(t, q) = p
    BY <1>4
  <2> QED
    BY <1>1, <2>1, <2>2
<1>6. ASSUME NEW q \in Last(rows)
      PROVE  /\ KeyIn(t, q.key) \in DOMAIN Table(named)
             /\ Table(named)[KeyIn(t, q.key)] = ValueIn(t, q.key, q.value)
  <2>1. /\ RowIn(t, q).key \in DOMAIN Table(named)
        /\ Table(named)[RowIn(t, q).key] = RowIn(t, q).value
    BY <1>3, SettledTable
  <2> QED
    BY <1>1, <2>1
<1> QED
  BY <1>5, <1>6

LEMMA RowTurns ==
    ASSUME NEW d, NEW f \in Folder, NEW r, NEW q \in RowsAt(d, f, r)
    PROVE  q.turn \in Nat
<1>1. CASE q \in AliasRows(d, f, r)
  BY <1>1 DEF AliasRows, Row, RowInTurn
<1>2. CASE q \in LocalAssetRows(d, f, r)
  BY <1>2, FolderAssumption DEF LocalAssetRows, RowInTurn
<1>3. CASE q \in FileRows(d, f, r) \cup ProviderAssetRows(d, f, r)
  BY <1>3, FiledFiles, FiledAssets
<1>4. CASE q \notin UnflushedRows(d, f, r)
  BY <1>4, FlushedKinds
<1> QED
  BY <1>1, <1>2, <1>3, <1>4 DEF UnflushedRows, EntryRows

\* The rows of an ingest make a table, whatever order they are written in.
LEMMA IngestSettled ==
    ASSUME NEW d \in Detail, NEW f \in Folder, NEW r
    PROVE  Settled(RowsAt(d, f, r))
<1>1. ASSUME NEW p \in RowsAt(d, f, r), NEW q \in RowsAt(d, f, r), p.key = q.key,
             p.turn <= q.turn, q.turn <= p.turn
      PROVE  p.value = q.value
  <2>1. p.turn = q.turn
    BY <1>1, RowTurns
  <2> QED
    BY <1>1, <2>1, RowsUnique
<1> QED
  BY <1>1 DEF Settled

\* So do those of a migration.
LEMMA MigrationSettled ==
    ASSUME NEW l \in Legacy, Migrates(l)
    PROVE  Settled(BackfilledTable(l, ByEntry))
<1>1. \A e, g \in Entry : ByEntry[e] = ByEntry[g] => e = g
  BY DEF ByEntry
<1> QED
  BY <1>1, MigratedUnique DEF Settled

-----------------------------------------------------------------------------
(* The commit of an ingest is the upsert of its rows. *)

\* Only rows kept to the commit compete with one another.
LEMMA LastRows ==
    ASSUME NEW i \in Process, NEW q \in RowsOf(i)
    PROVE  /\ q \in Last(UnflushedOf(i)) => q \in Last(RowsOf(i))
           /\ q \notin UnflushedOf(i) => q \in Last(RowsOf(i))
           /\ q \in Last(RowsOf(i)) /\ q \in UnflushedOf(i) => q \in Last(UnflushedOf(i))
<1>1. UnflushedOf(i) \subseteq RowsOf(i)
  BY ListedKinds DEF RowsOf, UnflushedOf
<1>2. \A p \in RowsOf(i) :
         \/ p \in UnflushedOf(i) /\ p.key[1] \in {"entity_alias", "media_file", "artwork_asset"}
         \/ p.key[1] \notin {"entity_alias", "media_file", "artwork_asset"} /\ p.turn = 0
  BY FlushedKinds, UnflushedKinds DEF RowsOf, UnflushedOf
<1>3. q \in Last(UnflushedOf(i)) => q \in Last(RowsOf(i))
  BY <1>1, <1>2 DEF Last
<1>4. q \notin UnflushedOf(i) => q \in Last(RowsOf(i))
  BY <1>2 DEF Last
<1>5. q \in Last(RowsOf(i)) /\ q \in UnflushedOf(i) => q \in Last(UnflushedOf(i))
  BY <1>1 DEF Last
<1> QED
  BY <1>3, <1>4, <1>5

\* A flushed row that the commit does not write again.
LEMMA FlushedCommit ==
    ASSUME FilesInv, RowsInv, NEW i \in Process, Commit(i), NEW k,
           k[1] \notin {"entity_alias", "media_file", "artwork_asset"}
    PROVE  /\ k \notin DOMAIN Table(Written(i))
           /\ k \in DOMAIN own[i] => k \in DOMAIN db' /\ db'[k] = own[i][k]
<1>1. db' = Over(Table(Written(i)), Over(own[i], db))
  BY DEF Commit, Visible
<1>2. DOMAIN db' = DOMAIN Table(Written(i)) \cup (DOMAIN own[i] \cup DOMAIN db)
  BY CommittedKeys
<1>3. k \notin DOMAIN Table(Written(i))
  <2>1. ASSUME NEW q \in Written(i) PROVE q.key # k
    <3>1. q \in UnflushedOf(i)
      BY CommitWrites DEF Last
    <3> QED
      BY <3>1, UnflushedKinds DEF UnflushedOf
  <2> QED
    BY <2>1, TableRows
<1> QED
  BY <1>1, <1>2, <1>3 DEF Over

\* After its commit the database has every row of an ingest that counts, or one that
\* an overlapping ingest of its file has committed.
LEMMA CommitHolds ==
    ASSUME LockInv, TreeInv, TreeInv', EntityInv, SearchInv, FilesInv, RowsInv,
           NEW i \in Process, Commit(i), NEW r \in Last(RowsOf(i))
    PROVE  Holds(db', r) \/ Left(i, r.key)
<1>1. /\ phase[i] = "commit" /\ Working(i) /\ RowsListed(i) /\ EntitiesWritten(i) /\ r \in RowsOf(i)
      /\ work[i].detail \in Detail /\ work[i].folder \in Folder
  BY DEF Commit, Working, Idle, RowsInv, Last, EntityInv, WorkTyped, FilesInv, FoldersTyped
<1> DEFINE d == work[i].detail
<1>2. \A k \in DOMAIN own[i] : k[1] # "search_document" =>
         \E q \in RowsOf(i) : q.key = k /\ own[i][k] = q.value
  BY <1>1 DEF RowsListed, Idle
<1>3. CASE r.key[1] = "media_items"
  <2>1. r = ItemRow(d) /\ r.key = ItemKey(EntryAt(i))
    BY <1>1, <1>3, RowsOfKind DEF RowsOf, ItemRow, Row, RowInTurn, EntryAt
  <2>2. r.key \in DOMAIN own[i]
    BY <1>1, <2>1 DEF LockInv, Locked, EntryAt, Idle
  <2>3. own[i][r.key] = r.value
    <3>1. PICK q \in RowsOf(i) : q.key = r.key /\ own[i][r.key] = q.value
      BY <1>2, <1>3, <2>2
    <3>2. q = ItemRow(d)
      BY <1>3, <3>1, RowsOfKind DEF RowsOf
    <3> QED
      BY <2>1, <3>1, <3>2
  <2> QED
    BY <1>3, <2>2, <2>3, FlushedCommit DEF Holds
<1>4. CASE r.key[1] \in {"media_files", "media_images"}
  <2>1. r \in LegacyOf(i)
    BY <1>1, <1>4, RowsOfKind, LegacyListed DEF RowsOf
  <2>2. r.value = EntryAt(i)
    BY <2>1, LegacyOfRows
  <2> QED
    BY <2>1, <2>2, CommittedLegacy DEF Holds
<1>5. CASE r.key[1] = "media_entity"
  <2>1. PICK n \in d.nodes : r = EntityRow(n, root[i])
    BY <1>1, <1>5, RowsOfKind DEF RowsOf
  <2>2. r.key = EntityKey(EntityAt(root[i], n)) /\ r.value = "fetched"
    BY <2>1, EntityRowParts DEF EntityRow, Row, RowInTurn
  <2>3. n \in {<<>>} \cup done[i]
    BY <1>1 DEF SearchInv, NodesListed
  <2>4. HasEntity(EntityAt(root[i], n), own[i])
    BY <1>1, <2>3 DEF EntitiesWritten, EntityInv, ProcessEntities, OwnEntities, Idle
  <2>5. r.key \in DOMAIN own[i]
    BY <2>2, <2>4 DEF HasEntity
  <2>6. own[i][r.key] = "fetched"
    <3>1. PICK q \in RowsOf(i) : q.key = r.key /\ own[i][r.key] = q.value
      BY <1>2, <1>5, <2>5
    <3>2. PICK m \in d.nodes : q = EntityRow(m, root[i])
      BY <1>5, <3>1, RowsOfKind DEF RowsOf
    <3> QED
      BY <3>1, <3>2 DEF EntityRow, Row, RowInTurn
  <2> QED
    BY <1>5, <2>2, <2>5, <2>6, FlushedCommit DEF Holds
<1>6. CASE r.key[1] = "provider_identity"
  <2>1. PICK n \in d.nodes : r = IdentityRow(d, n, root[i])
    BY <1>1, <1>6, RowsOfKind DEF RowsOf
  <2>2. r.key = IdentityKey(EntryAt(i), n) /\ r.value = EntityAt(root[i], n)
    BY <2>1, IdentityRowParts DEF EntryAt
  <2>3. n \in {<<>>} \cup done[i]
    BY <1>1 DEF SearchInv, NodesListed
  <2>4. r.key \in DOMAIN own[i] \cup DOMAIN db
    BY <1>1, <2>2, <2>3
    DEF EntityInv, ProcessEntities, OwnEntities, TreeInv, ProcessTree, RootIdentified
  <2>5. r.key \in DOMAIN db'
    BY <2>4, CommittedKeys
  <2>6. r.key \in Identities(db') /\ r.key[2] = EntryAt(i) /\ r.key[3] = n
    BY <2>2, <2>5, IdentityKeyParts DEF Identities
  <2>7. db'[r.key] = EntityAt(db'[IdentityKey(EntryAt(i), <<>>)][1], n)
    BY <2>6 DEF TreeInv, DbTree
  <2> QED
    BY <2>2, <2>5, <2>7, CommittedRoot DEF Holds
<1>7. CASE r.key[1] \in {"entity_alias", "media_file", "artwork_asset"}
  <2>1. r \in UnflushedOf(i)
    BY <1>1, <1>7, RowsOfKind DEF RowsOf, UnflushedOf
  <2>2. r \in Last(UnflushedOf(i))
    BY <1>1, <2>1, LastRows
  <2>3. r.key \notin DOMAIN own[i]
    BY <2>1, UnflushedIsNotOwn
  <2>4. db' = Over(Table(Written(i)), Over(own[i], db))
    BY DEF Commit, Visible
  <2>5. DOMAIN db' = DOMAIN Table(Written(i)) \cup (DOMAIN own[i] \cup DOMAIN db)
    BY CommittedKeys
  <2>6. CASE r.key \in DOMAIN Table(Written(i))
    <3>1. PICK q \in Written(i) : q.key = r.key /\ Table(Written(i))[r.key] = q.value
      BY <2>6, TableRows
    <3>2. q \in Last(UnflushedOf(i))
      BY <3>1, CommitWrites
    <3>3. q \in RowsOf(i) /\ q.turn <= r.turn /\ r.turn <= q.turn
      BY <2>2, <3>1, <3>2, ListedKinds DEF Last, RowsOf, UnflushedOf
    <3>4. q.value = r.value
      BY <1>1, <3>1, <3>3, IngestSettled DEF RowsOf, Settled
    <3>5. r.key \in DOMAIN db' /\ db'[r.key] = Table(Written(i))[r.key]
      BY <2>4, <2>5, <2>6 DEF Over
    <3> QED
      BY <3>1, <3>4, <3>5 DEF Holds
  <2>7. CASE r.key \notin DOMAIN Table(Written(i))
    <3>1. r \notin Written(i)
      <4> SUFFICES ASSUME r \in Written(i) PROVE FALSE
        OBVIOUS
      <4>1. \A q \in Written(i) : q.key = r.key => q.turn <= r.turn
        BY <2>2, CommitWrites DEF Last
      <4> QED
        BY <2>7, <4>1, TableOfDistinctRows
    <3>2. Kept(i, r)
      BY <2>2, <3>1, CommitWrites
    <3>3. r.key \in DOMAIN db' /\ db'[r.key] = db[r.key]
      BY <2>3, <2>4, <2>5, <2>7, <3>2 DEF Kept, Holds, Over
    <3> QED
      BY <3>2, <3>3 DEF Kept, Holds, Left
  <2> QED
    BY <2>6, <2>7
<1> QED
  BY <1>1, <1>3, <1>4, <1>5, <1>6, <1>7, FlushedKinds, UnflushedKinds DEF RowsOf

\* A commit changes no other row.
LEMMA CommittedLast ==
    ASSUME LockInv, SearchInv, FilesInv, RowsInv, NEW i \in Process, Commit(i),
           NEW k \in DOMAIN db', k[1] # "search_document"
    PROVE  \/ \E q \in Last(RowsOf(i)) : q.key = k
           \/ k \in DOMAIN db /\ db'[k] = db[k]
<1>1. phase[i] = "commit" /\ RowsListed(i) /\ db' = Over(Table(Written(i)), Over(own[i], db))
  BY DEF Commit, RowsInv, Visible
<1>2. DOMAIN db' = DOMAIN Table(Written(i)) \cup (DOMAIN own[i] \cup DOMAIN db)
  BY CommittedKeys
<1>3. CASE k \in DOMAIN Table(Written(i))
  <2>1. PICK q \in Written(i) : q.key = k
    BY <1>3, TableRows
  <2>2. q \in Last(UnflushedOf(i))
    BY <2>1, CommitWrites
  <2>3. q \in RowsOf(i)
    BY <2>2, ListedKinds DEF Last, RowsOf, UnflushedOf
  <2> QED
    BY <2>1, <2>2, <2>3, LastRows
<1>4. CASE k \notin DOMAIN Table(Written(i)) /\ k \in DOMAIN own[i]
  <2>1. PICK q \in RowsOf(i) : q.key = k
    BY <1>1, <1>4 DEF RowsListed, Idle
  <2>2. q \notin UnflushedOf(i)
    BY <1>4, <2>1, UnflushedIsNotOwn
  <2> QED
    BY <2>1, <2>2, LastRows
<1>5. CASE k \notin DOMAIN Table(Written(i)) /\ k \notin DOMAIN own[i]
  BY <1>1, <1>2, <1>5 DEF Over
<1> QED
  BY <1>3, <1>4, <1>5

\* What has a name keeps it when more roots become known.
LEMMA NamesStay ==
    ASSUME NEW t, NEW u, Unambiguous(t), Unambiguous(u),
           \A e \in Known(t) : e \in Known(u) /\ RootOf(e, u) = RootOf(e, t),
           NEW k, NEW v, RefersTo(t, k, v)
    PROVE  KeyIn(u, k) = KeyIn(t, k) /\ ValueIn(u, k, v) = ValueIn(t, k, v)
<1>1. ASSUME NEW x, IsEntityOf(t, x) PROVE NamedIn(u, x) = NamedIn(t, x)
  <2>1. PICK e \in Known(t), n \in Node : x = EntityAt(RootOf(e, t), n)
    BY <1>1 DEF IsEntityOf
  <2>2. NamedIn(t, x) = EntityAt(e, n)
    BY <2>1, NamedEntity
  <2>3. e \in Known(u) /\ x = EntityAt(RootOf(e, u), n)
    BY <2>1
  <2>4. NamedIn(u, EntityAt(RootOf(e, u), n)) = EntityAt(e, n)
    BY <2>3, NamedEntity
  <2> QED
    BY <2>2, <2>3, <2>4
<1>2. ValueIn(u, k, v) = ValueIn(t, k, v)
  BY <1>1 DEF ValueIn, RefersTo
<1>3. ASSUME IsEntityOf(t, k[2]) PROVE KeyIn(u, k) = KeyIn(t, k)
  <2>1. NamedIn(u, k[2]) = NamedIn(t, k[2])
    BY <1>1, <1>3
  <2> QED
    BY <2>1 DEF KeyIn
<1>4. ASSUME k[1] = "entity_alias" PROVE KeyIn(u, k) = KeyIn(t, k)
  <2>1. PICK e \in Known(t) : k = AliasKey(<<RootOf(e, t)>>, k[3], k[4])
    BY <1>4 DEF RefersTo
  <2>2. k[2] = <<RootOf(e, t)>>
    BY <2>1, AliasKeyParts
  <2>3. IsEntityOf(t, k[2])
    BY <2>2, EntityAtRoot, RootNode DEF IsEntityOf
  <2> QED
    BY <1>3, <2>3
<1>5. ASSUME k[1] \notin {"media_entity", "entity_alias"} PROVE KeyIn(u, k) = KeyIn(t, k)
  BY <1>5, OtherKeyNamed
<1>6. ASSUME k[1] = "media_entity" PROVE IsEntityOf(t, k[2])
  BY <1>6 DEF RefersTo
<1>7. KeyIn(u, k) = KeyIn(t, k)
  BY <1>3, <1>4, <1>5, <1>6
<1> QED
  BY <1>2, <1>7

\* A table that has taken in another but for some keys: Catalog!Upsert.
Upserted(table, left, old) ==
    [k \in DOMAIN table \cup DOMAIN old |-> IF k \in DOMAIN table \ left THEN table[k] ELSE old[k]]

\* What a table shows that has taken in some rows and kept everything else: the rows
\* that are left are of files.
LEMMA UpsertView ==
    ASSUME NEW t, NEW u, Legible(t), Legible(u), DOMAIN t \subseteq DOMAIN u,
           \A e \in Known(t) : e \in Known(u) /\ RootOf(e, u) = RootOf(e, t),
           NEW rows, NEW named, NamedRows(u, rows, named), Settled(named),
           NEW left,
           \A q \in Last(rows) : q.key \in PromisedIn(u) /\ (u[q.key] = q.value \/ q.key \in left),
           \A k \in PromisedIn(u) :
               (\E q \in Last(rows) : q.key = k) \/ (k \in PromisedIn(t) /\ u[k] = t[k]),
           \A k \in left : IsFile(k) /\ k \in PromisedIn(t) /\ u[k] = t[k]
    PROVE  ViewOf(u) = Upserted(Table(named), left, ViewOf(t))
<1>1. /\ DOMAIN ViewOf(t) = {KeyIn(t, k) : k \in PromisedIn(t)}
      /\ \A k \in PromisedIn(t) : ViewOf(t)[KeyIn(t, k)] = ValueIn(t, k, t[k])
  BY ViewRow
<1>2. /\ DOMAIN ViewOf(u) = {KeyIn(u, k) : k \in PromisedIn(u)}
      /\ \A k \in PromisedIn(u) : ViewOf(u)[KeyIn(u, k)] = ValueIn(u, k, u[k])
  BY ViewRow
<1>3. /\ DOMAIN Table(named) = {KeyIn(u, q.key) : q \in Last(rows)}
      /\ \A q \in Last(rows) : Table(named)[KeyIn(u, q.key)] = ValueIn(u, q.key, q.value)
  <2>1. Unambiguous(u) /\ NamedRows(u, rows, named) /\ Settled(named)
    BY DEF Legible
  <2>2. /\ DOMAIN Table(named) = {KeyIn(u, q.key) : q \in Last(rows)}
        /\ \A q \in Last(rows) : Table(named)[KeyIn(u, q.key)] = ValueIn(u, q.key, q.value)
    BY ONLY <2>1, NamedTable
  <2> QED
    BY <2>2
<1>4. ASSUME NEW k \in PromisedIn(t)
      PROVE  k \in PromisedIn(u) /\ KeyIn(u, k) = KeyIn(t, k) /\ ValueIn(u, k, t[k]) = ValueIn(t, k, t[k])
  <2>1. k \in PromisedIn(u)
    BY DEF PromisedIn
  <2>2. RefersTo(t, k, t[k]) /\ Unambiguous(t) /\ Unambiguous(u)
    BY DEF Legible
  <2> QED
    BY <2>1, <2>2, NamesStay
<1>5. ASSUME NEW k \in PromisedIn(u), NEW j \in PromisedIn(u), KeyIn(u, k) = KeyIn(u, j) PROVE k = j
  <2>1. UnkeyIn(u, KeyIn(u, k)) = k /\ UnkeyIn(u, KeyIn(u, j)) = j
    BY UnnamedKeys DEF Legible
  <2> QED
    BY <1>5, <2>1
<1> DEFINE table == Table(named)
           old == ViewOf(t)
           new == ViewOf(u)
<1>6. ASSUME NEW k \in DOMAIN new
      PROVE  \/ k \in DOMAIN table \ left /\ new[k] = table[k]
             \/ k \notin DOMAIN table \ left /\ k \in DOMAIN old /\ new[k] = old[k]
  <2>1. PICK j \in PromisedIn(u) : k = KeyIn(u, j)
    BY <1>2
  <2>2. k \in left <=> j \in left
    <3>1. \A g \in left : g \in PromisedIn(u) /\ KeyIn(u, g) = g
      BY <1>4, OtherKeyNamed DEF IsFile
    <3> QED
      BY <1>5, <2>1, <3>1
  <2>3. ASSUME j \in PromisedIn(t), u[j] = t[j] PROVE k \in DOMAIN old /\ new[k] = old[k]
    <3>1. k \in DOMAIN old /\ old[k] = ValueIn(t, j, t[j])
      BY <1>1, <1>4, <2>1, <2>3
    <3>2. new[k] = ValueIn(t, j, t[j])
      BY <1>2, <1>4, <2>1, <2>3
    <3> QED
      BY <3>1, <3>2
  <2>4. CASE j \in left
    BY <2>2, <2>3, <2>4
  <2>5. CASE j \notin left /\ \E q \in Last(rows) : q.key = j
    <3>1. PICK q \in Last(rows) : q.key = j
      BY <2>5
    <3>2. k \in DOMAIN table /\ table[k] = ValueIn(u, j, q.value)
      BY <1>3, <2>1, <3>1
    <3>3. new[k] = ValueIn(u, j, q.value)
      BY <1>2, <2>1, <2>5, <3>1
    <3> QED
      BY <2>2, <2>5, <3>2, <3>3
  <2>6. CASE ~\E q \in Last(rows) : q.key = j
    <3>1. k \notin DOMAIN table
      BY <1>3, <1>5, <2>1, <2>6
    <3> QED
      BY <2>3, <2>6, <3>1
  <2> QED
    BY <2>4, <2>5, <2>6
<1>7. DOMAIN new = DOMAIN table \cup DOMAIN old
  <2>1. DOMAIN table \subseteq DOMAIN new
    BY <1>2, <1>3
  <2>2. DOMAIN old \subseteq DOMAIN new
    BY <1>1, <1>2, <1>4
  <2> QED
    BY <1>6, <2>1, <2>2
<1>8. new = [k \in DOMAIN new |-> new[k]]
  BY DEF ViewOf
<1> HIDE DEF table, old, new
<1>9. new = Upserted(table, left, old)
  BY <1>6, <1>7, <1>8 DEF Upserted
<1> QED
  BY <1>9 DEF table, old, new

-----------------------------------------------------------------------------
(* The database throughout a run, and the theorems. *)

\* The entry of every identity has a root.
LEMMA KnownEntries ==
    ASSUME TreeInv, RowsInv, NEW m \in Identities(db)
    PROVE  m[2] \in Known(db)
<1> DEFINE top == IdentityKey(m[2], <<>>)
<1>1. m[2] \in Entry /\ top \in DOMAIN db
  BY DEF TreeInv, DbTree, RowsInv, EntriesTyped
<1>2. top \in Identities(db) /\ top[2] = m[2] /\ top[3] = <<>>
  BY <1>1, IdentityKeyParts DEF Identities
<1>3. db[top] = EntityAt(db[top][1], <<>>)
  BY <1>2 DEF TreeInv, DbTree
<1> QED
  BY <1>1, <1>3, EntityAtRoot DEF Known, RootOf

\* The invariants make the database legible.
LEMMA LegibleDb ==
    ASSUME TreeInv, EntityInv, FilesInv, RowsInv
    PROVE  Legible(db)
<1>1. Unambiguous(db)
  <2>1. ASSUME NEW e \in Known(db)
        PROVE  IdentityKey(e, <<>>) \in Identities(db) /\ IdentityKey(e, <<>>)[2] = e
    BY IdentityKeyParts DEF Known, Identities
  <2> QED
    BY <2>1 DEF Unambiguous, EntityInv, DbRoots
<1>2. ASSUME NEW k \in DOMAIN db, k[1] = "media_entity" PROVE k = EntityKey(k[2]) /\ IsEntityOf(db, k[2])
  BY <1>2, KnownEntries DEF EntityInv, KeysShaped, RowsInv, EntitiesRooted, IsEntityOf
<1>3. ASSUME NEW x, HasEntity(x, db) PROVE IsEntityOf(db, x)
  BY <1>2, <1>3, EntityKeyParts DEF HasEntity
<1>4. ASSUME NEW k \in DOMAIN db, k[1] = "entity_alias"
      PROVE  \E e \in Known(db) : k = AliasKey(<<RootOf(e, db)>>, k[3], k[4])
  <2>1. PICK m \in Identities(db) : k = AliasKey(<<RootOf(m[2], db)>>, k[3], k[4])
    BY <1>4 DEF RowsInv, AliasesRooted
  <2> QED
    BY <2>1, KnownEntries
<1>5. ASSUME NEW k \in DOMAIN db, k[1] = "provider_identity" PROVE IsEntityOf(db, db[k])
  BY <1>3, <1>5 DEF EntityInv, DbEntities, Identities
<1>6. ASSUME NEW k \in DOMAIN db, k[1] = "media_file" PROVE IsEntityOf(db, db[k])
  BY <1>3, <1>6 DEF FilesInv, DbFiles
<1>7. ASSUME NEW k \in DOMAIN db, k[1] = "artwork_asset" PROVE IsEntityOf(db, db[k].entity)
  BY <1>3, <1>7 DEF FilesInv, DbFiles
<1>8. ASSUME NEW k \in PromisedIn(db) PROVE RefersTo(db, k, db[k])
  BY <1>2, <1>4, <1>5, <1>6, <1>7 DEF PromisedIn, RefersTo
<1> QED
  BY <1>1, <1>8 DEF Legible

\* A commit moves no root.
LEMMA KnownStay ==
    ASSUME LockInv, TreeInv, NEW i \in Process, Commit(i), NEW e \in Known(db)
    PROVE  e \in Known(db') /\ RootOf(e, db') = RootOf(e, db)
<1> DEFINE top == IdentityKey(e, <<>>)
<1>1. e \in Entry /\ top \in Identities(db) /\ db[top] = <<RootOf(e, db)>>
  BY IdentityKeyParts DEF Known, Identities
<1>2. top \in DOMAIN db' /\ db'[top] = db[top]
  BY <1>1, CommitKeepsIdentities DEF Identities
<1> QED
  BY <1>1, <1>2 DEF Known, RootOf

CatalogInv == LockInv /\ TreeInv /\ EntityInv /\ SearchInv /\ FilesInv /\ RowsInv /\ Legible(db)

\* The rows of an ingest that no entry owns are those of the files of its folder.
LEMMA SharedRows ==
    ASSUME NEW d, NEW f \in Folder, NEW paths, paths = {v.path : v \in Video[f]}
    PROVE  DOMAIN Table(AllRows(d, f)) \cap FileKeys(UNION {{v.path : v \in Video[g]} : g \in Folder})
             = FileKeys(paths)
<1> DEFINE rows == RowsAt(d, f, d.entry)
           keys == DOMAIN Table(AllRows(d, f))
           shared == FileKeys(UNION {{v.path : v \in Video[g]} : g \in Folder})
<1>1. AllRows(d, f) = rows
  BY DEF AllRows, RowsAt
<1>2. ASSUME NEW q \in rows, IsFile(q.key)
      PROVE  q.turn = 0 /\ q \in LegacyFileRows(d, Video[f]) \cup FileRows(d, f, d.entry)
  <2>1. CASE q.key[1] = "media_files"
    BY <2>1, RowsOfKind, FiledLegacyRows
  <2>2. CASE q.key[1] = "media_file"
    BY <1>2, <2>2, RowsOfKind, UnflushedFiles
  <2> QED
    BY <1>2, <2>1, <2>2 DEF IsFile
<1>3. keys = {q.key : q \in Last(rows)}
  BY <1>1, TableLast
<1>4. ASSUME NEW k \in keys, k \in shared PROVE k \in FileKeys(paths)
  <2>1. PICK q \in rows : q.key = k
    BY <1>3 DEF Last
  <2>2. IsFile(k)
    BY <1>4, FiledKeys DEF FileKeys, IsFile
  <2>3. \E v \in Video[f] : k = LegacyFileKey(v.path) \/ k = FileKey(v.path)
    BY <1>2, <2>1, <2>2, FiledLegacyFiles, FiledFiles
  <2> QED
    BY <2>3 DEF FileKeys
<1>5. ASSUME NEW k \in FileKeys(paths) PROVE k \in keys /\ k \in shared
  <2>1. PICK v \in Video[f] : k = LegacyFileKey(v.path) \/ k = FileKey(v.path)
    BY DEF FileKeys
  <2>2. k \in shared
    BY <2>1 DEF FileKeys
  <2>3. PICK q \in rows : q.key = k
    <3>1. CASE k = LegacyFileKey(v.path)
      <4>1. Row(k, d.entry) \in LegacyRows(d, f)
        BY <3>1 DEF LegacyRows, LegacyFileRows
      <4> QED
        BY <4>1, ListedKinds DEF Row, RowInTurn
    <3>2. CASE k = FileKey(v.path)
      <4>1. Row(k, EntityAt(d.entry, PlayableNode(d, v.node))) \in FileRows(d, f, d.entry)
        BY <3>2 DEF FileRows
      <4> QED
        BY <4>1, ListedKinds, UnflushedFiles DEF Row, RowInTurn
    <3> QED
      BY <2>1, <3>1, <3>2
  <2>4. IsFile(k)
    BY <2>1, FiledKeys DEF IsFile
  <2>5. q \in Last(rows)
    BY <1>2, <2>3, <2>4 DEF Last
  <2> QED
    BY <1>3, <2>2, <2>3, <2>5
<1> QED
  BY <1>4, <1>5

\* A commit, seen by names, is the upsert of one ingest, which leaves files that have
\* been contested.
LEMMA CommitUpserts ==
    ASSUME CatalogInv, CatalogInv', NEW i \in Process, Commit(i)
    PROVE  /\ work[i].detail \in Detail /\ work[i].folder \in Folder
           /\ \E left \in SUBSET FileKeys(contested[i]) :
                 ViewOf(db') = Upserted(Table(AllRows(work[i].detail, work[i].folder)), left, ViewOf(db))
<1> DEFINE d == work[i].detail
           f == work[i].folder
           named == AllRows(d, f)
           rows == RowsOf(i)
           left == {k \in DOMAIN db : Left(i, k)}
<1>1. /\ LockInv /\ TreeInv /\ EntityInv /\ SearchInv /\ FilesInv /\ RowsInv /\ Legible(db)
      /\ TreeInv' /\ RowsInv' /\ Legible(db')
  BY DEF CatalogInv
<1>2. d \in Detail /\ f \in Folder
  BY <1>1 DEF Commit, Idle, EntityInv, WorkTyped, FilesInv, FoldersTyped
<1>3. EntryAt(i) \in Known(db') /\ RootOf(EntryAt(i), db') = root[i]
  <2> DEFINE top == IdentityKey(EntryAt(i), <<>>)
  <2>1. top \in Identities(db') /\ top[2] = EntryAt(i) /\ top[3] = <<>>
    BY <1>1, RootsCommit, IdentityKeyParts
  <2>2. top \in DOMAIN db' /\ db'[top] = EntityAt(db'[top][1], <<>>)
    BY <1>1, <2>1 DEF TreeInv, DbTree, Identities
  <2>3. EntryAt(i) \in Entry
    BY <1>2, NodesTyped DEF EntryAt
  <2> QED
    BY <1>1, <2>2, <2>3, EntityAtRoot, RootsCommit DEF Known, RootOf
<1>4. NamedRows(db', rows, named)
  <2>1. NamedRows(db', RowsAt(d, f, RootOf(EntryAt(i), db')), AllRows(d, f))
    BY <1>1, <1>2, <1>3, IngestNamed DEF Legible, EntryAt
  <2> QED
    BY <1>3, <2>1 DEF RowsOf
<1>5. Settled(named)
  BY <1>2, IngestSettled DEF AllRows, RowsAt
<1>6. ASSUME NEW q \in Last(rows)
      PROVE  q.key \in PromisedIn(db') /\ (db'[q.key] = q.value \/ q.key \in left)
  <2>1. Holds(db', q) \/ Left(i, q.key)
    BY <1>1, CommitHolds
  <2>2. q.key[1] # "search_document"
    BY FlushedKinds, UnflushedKinds DEF Last, RowsOf
  <2>3. DOMAIN db \subseteq DOMAIN db'
    BY CommittedKeys
  <2> QED
    BY <2>1, <2>2, <2>3 DEF Holds, Left, PromisedIn
<1>7. ASSUME NEW k \in PromisedIn(db')
      PROVE  (\E q \in Last(rows) : q.key = k) \/ (k \in PromisedIn(db) /\ db'[k] = db[k])
  BY <1>1, CommittedLast DEF PromisedIn
<1>8. DOMAIN db \subseteq DOMAIN db'
  BY CommittedKeys
<1>9. \A e \in Known(db) : e \in Known(db') /\ RootOf(e, db') = RootOf(e, db)
  BY <1>1, KnownStay
<1>10. \A k \in left : IsFile(k) /\ k \in PromisedIn(db) /\ db'[k] = db[k]
  BY DEF Left, IsFile, PromisedIn
<1>11. left \subseteq FileKeys(contested[i])
  <2>1. ASSUME NEW k \in left PROVE k \in FileKeys(contested[i])
    <3>1. IsFile(k) /\ k \in DOMAIN db /\ k[2] \in contested[i]
      BY DEF Left
    <3>2. Filed(k) /\ k = <<k[1], k[2]>>
      BY <1>1, <3>1 DEF IsFile, Filed, FilesInv, FilesShaped
    <3>3. k = LegacyFileKey(k[2]) \/ k = FileKey(k[2])
      BY <3>1, <3>2 DEF IsFile, LegacyFileKey, FileKey
    <3> QED
      BY <3>1, <3>3 DEF FileKeys
  <2> QED
    BY <2>1
<1> HIDE DEF rows, named, left
<1>12. ViewOf(db') = Upserted(Table(named), left, ViewOf(db))
  <2> DEFINE u == db'
  <2>1. /\ Legible(u) /\ NamedRows(u, rows, named) /\ DOMAIN db \subseteq DOMAIN u
        /\ \A e \in Known(db) : e \in Known(u) /\ RootOf(e, u) = RootOf(e, db)
        /\ \A q \in Last(rows) : q.key \in PromisedIn(u) /\ (u[q.key] = q.value \/ q.key \in left)
        /\ \A k \in PromisedIn(u) :
              (\E q \in Last(rows) : q.key = k) \/ (k \in PromisedIn(db) /\ u[k] = db[k])
        /\ \A k \in left : IsFile(k) /\ k \in PromisedIn(db) /\ u[k] = db[k]
    BY <1>1, <1>4, <1>6, <1>7, <1>8, <1>9, <1>10
  <2>2. Legible(db) /\ Settled(named)
    BY <1>1, <1>5
  <2> HIDE DEF u
  <2>3. ViewOf(u) = Upserted(Table(named), left, ViewOf(db))
    BY ONLY <2>1, <2>2, UpsertView
  <2> QED
    BY <2>3 DEF u
<1> QED
  BY <1>2, <1>11, <1>12 DEF named

\* The catalog begins as an earlier release has left it.
LEMMA CatalogInitView ==
    ASSUME Init, Legible(db)
    PROVE  ViewOf(db) \in InitialTables
<1>1. PICK l \in Legacy : Migrates(l) /\ db = WithDocuments(Migrated(l, LegacyRoot))
  BY DEF Init
<1> DEFINE rows == BackfilledTable(l, LegacyRoot)
           named == BackfilledTable(l, ByEntry)
<1>2. ASSUME NEW f \in DOMAIN l.said
      PROVE  l.said[f].entry \in Known(db) /\ RootOf(l.said[f].entry, db) = LegacyRoot[l.said[f].entry]
  <2> DEFINE m == IdentityKey(l.said[f].entry, <<>>)
  <2>1. m \in Identities(Migrated(l, LegacyRoot))
        /\ Migrated(l, LegacyRoot)[m] = <<LegacyRoot[l.said[f].entry]>>
    BY BackfilledRoot
  <2>2. m \in Identities(db) /\ db[m] = <<LegacyRoot[l.said[f].entry]>>
    BY <1>1, <2>1, DocumentedIdentities
  <2>3. l.said[f].entry \in Entry
    BY LegacyAssumption, DetailAssumption DEF DetailType
  <2> QED
    BY <2>2, <2>3 DEF Known, RootOf, Identities
<1>3. NamedRows(db, rows, named)
  BY <1>2, MigrationNamed DEF Legible
<1>4. Settled(named)
  BY <1>1, MigrationSettled
<1>5. \A q \in rows : q \in Last(rows)
  BY BackfilledTurns DEF Last
<1>6. ASSUME NEW k \in PromisedIn(db) PROVE \E q \in Last(rows) : q.key = k /\ db[k] = q.value
  BY <1>1, <1>5, MigratedDb DEF PromisedIn
<1>7. ASSUME NEW q \in Last(rows) PROVE q.key \in PromisedIn(db)
  <2>1. q \in rows
    BY DEF Last
  <2>2. q.key \in DOMAIN Migrated(l, LegacyRoot)
    BY <2>1, BackfilledKeys
  <2> QED
    BY <1>1, <2>2, NoDocumentsBackfilled, DocumentsAreAdded DEF PromisedIn
<1>8. Migrated(l, ByEntry) = Table(named)
  BY DEF Migrated, BackfilledTable
<1> HIDE DEF rows, named
<1>10. /\ DOMAIN Table(named) = {KeyIn(db, q.key) : q \in Last(rows)}
       /\ \A q \in Last(rows) : Table(named)[KeyIn(db, q.key)] = ValueIn(db, q.key, q.value)
  <2>1. Unambiguous(db)
    BY DEF Legible
  <2> QED
    BY ONLY <1>3, <1>4, <2>1, NamedTable
<1>11. /\ DOMAIN ViewOf(db) = {KeyIn(db, k) : k \in PromisedIn(db)}
       /\ \A k \in PromisedIn(db) : ViewOf(db)[KeyIn(db, k)] = ValueIn(db, k, db[k])
  BY ViewRow
<1>12. DOMAIN ViewOf(db) = DOMAIN Table(named)
  <2>1. \A k \in DOMAIN ViewOf(db) : k \in DOMAIN Table(named)
    BY <1>6, <1>10, <1>11
  <2>2. \A k \in DOMAIN Table(named) : k \in DOMAIN ViewOf(db)
    BY <1>7, <1>10, <1>11
  <2> QED
    BY <2>1, <2>2
<1>13. ASSUME NEW k \in DOMAIN ViewOf(db) PROVE ViewOf(db)[k] = Table(named)[k]
  <2>1. PICK j \in PromisedIn(db) : k = KeyIn(db, j)
    BY <1>11
  <2>2. PICK q \in Last(rows) : q.key = j /\ db[j] = q.value
    BY <1>6
  <2> QED
    BY <1>10, <1>11, <2>1, <2>2
<1> DEFINE table == Table(named)
           view == ViewOf(db)
<1>14. view = [k \in DOMAIN view |-> view[k]] /\ table = [k \in DOMAIN table |-> table[k]]
  BY DEF ViewOf, Table
<1>15. view = table
  <2> HIDE DEF view, table
  <2>1. DOMAIN view = DOMAIN table /\ \A k \in DOMAIN view : view[k] = table[k]
    BY <1>12, <1>13 DEF view, table
  <2> QED
    BY <1>14, <2>1
<1> QED
  BY <1>1, <1>8, <1>15 DEF InitialTables

\* Only a commit changes the catalog.
LEMMA CatalogChanges ==
    ASSUME [Next]_vars, db' # db
    PROVE  \E i \in Process : Commit(i)
  BY DEF Next, vars, Begin, FlushMediaItem, SelectFile, FlushRoot, SelectChild, FlushChild, FlushChildIdentity,
         SelectRootIdentity, FlushRootIdentity, RefreshSearchDocuments, Violate, RollBack

\* What the invariant of rows promises, with the names it gives: every row of the
\* catalog belongs to a tree that one entry names.
THEOREM CatalogInvariant == Spec => []CatalogInv
<1>1. LockInv /\ TreeInv /\ EntityInv /\ SearchInv /\ FilesInv /\ RowsInv => CatalogInv
  BY LegibleDb DEF CatalogInv
<1> QED
  BY <1>1, RowsInvariant, PTL

-----------------------------------------------------------------------------
(* The steps, as Catalog sees them. *)

\* What ImplementsCatalog puts for the variables of Catalog.
Shown == [k \in {NamedKey(k) : k \in Promised} |-> NamedValue(UnnamedKey(k))]
Disputed == [i \in Process |-> FileKeys(contested[i])]

FilePaths == UNION {{v.path : v \in Video[f]} : f \in Folder}

LEMMA ShownIsView == Shown = ViewOf(db)
  BY ViewIsCatalog DEF Shown

LEMMA FileKeysOf ==
    ASSUME NEW A, NEW B
    PROVE  FileKeys({}) = {} /\ FileKeys(A \cup B) = FileKeys(A) \cup FileKeys(B)
  BY DEF FileKeys

\* A commit finishes an ingest.
LEMMA CommitFinishes ==
    ASSUME CatalogInv, CatalogInv', NEW i \in Process, Commit(i),
           Shown = ViewOf(db), Shown' = ViewOf(db')
    PROVE  Abstract!Next
<1> DEFINE ingest == <<work[i].detail, work[i].folder>>
           rows == IngestedTables[ingest]
<1>1. work[i].detail \in Detail /\ work[i].folder \in Folder
  BY CommitUpserts
<1>2. ingest \in DOMAIN IngestedTables /\ rows = Table(AllRows(work[i].detail, work[i].folder))
  BY <1>1 DEF IngestedTables
<1>3. PICK left \in SUBSET FileKeys(contested[i]) :
         ViewOf(db') = Upserted(Table(AllRows(work[i].detail, work[i].folder)), left, ViewOf(db))
  BY CommitUpserts
<1>4. Shown' = Upserted(rows, left, Shown)
  BY <1>2, <1>3
<1>5. i \in Active /\ Active' = Active \ {i}
  <2>1. phase[i] = "commit" /\ phase' = [phase EXCEPT ![i] = Idle] /\ phase \in [Process -> Phase]
    BY DEF Commit, Ended, CatalogInv, LockInv, StateTyped
  <2> QED
    BY <2>1 DEF Active, Idle
<1>6. DOMAIN rows \cap FileKeys(FilePaths) = FileKeys(PathsOf(i))
  <2>1. PathsOf(i) = {v.path : v \in Video[work[i].folder]}
    BY DEF PathsOf, VideosOf, Commit, Idle
  <2> QED
    BY <1>1, <1>2, <2>1, SharedRows DEF FilePaths
<1>7. Disputed' = [k \in Process |-> IF k \in Active \ {i}
                                     THEN Disputed[k] \cup (DOMAIN rows \cap FileKeys(FilePaths))
                                     ELSE {}]
  <2>1. ASSUME NEW k \in Process
        PROVE  FileKeys(contested'[k]) = IF k \in Active \ {i}
                                         THEN Disputed[k] \cup (DOMAIN rows \cap FileKeys(FilePaths))
                                         ELSE {}
    <3>1. contested'[k] = IF k \in Active \ {i} THEN contested[k] \cup PathsOf(i) ELSE {}
      BY DEF Commit
    <3>2. Disputed[k] = FileKeys(contested[k])
      BY DEF Disputed
    <3>3. CASE k \in Active \ {i}
      <4>1. FileKeys(contested[k] \cup PathsOf(i)) = FileKeys(contested[k]) \cup FileKeys(PathsOf(i))
        BY FileKeysOf
      <4> QED
        BY <1>6, <3>1, <3>2, <3>3, <4>1
    <3>4. CASE k \notin Active \ {i}
      BY <3>1, <3>4, FileKeysOf
    <3> QED
      BY <3>3, <3>4
  <2> QED
    BY <2>1 DEF Disputed
<1>8. left \in SUBSET Disputed[i]
  BY <1>3 DEF Disputed
<1> HIDE DEF ingest
<1>9. Abstract!Finish(i, rows, left)
  BY <1>4, <1>5, <1>7 DEF Abstract!Finish, Abstract!Upsert, Upserted, Shown, Disputed, FilePaths
<1> QED
  BY <1>2, <1>8, <1>9 DEF Abstract!Next, Disputed

\* No other step is one of the catalog, but that an ingest locks its entry or ends
\* without a commit.
LEMMA OtherSteps ==
    ASSUME CatalogInv, [Next]_vars, db' = db, Shown' = Shown,
           \A i \in Process : ~Commit(i)
    PROVE  Abstract!Next \/ UNCHANGED <<Shown, Active, Disputed>>
<1>1. phase \in [Process -> Phase] /\ contested = [i \in Process |-> contested[i]]
  BY DEF CatalogInv, LockInv, StateTyped, FilesInv, ContestedFiles
<1>2. ASSUME UNCHANGED contested PROVE Disputed' = Disputed
  BY <1>2 DEF Disputed
<1>3. ASSUME NEW i \in Process, FlushMediaItem(i) PROVE Abstract!Next
  <2>1. /\ phase[i] = "flush_item" /\ phase' = [phase EXCEPT ![i] = "flush_root"]
        /\ UNCHANGED contested
    BY <1>3 DEF FlushMediaItem, At
  <2>2. Active' = Active \cup {i}
    BY <1>1, <2>1 DEF Active, Idle
  <2>3. Abstract!Begin(i)
    BY <1>2, <2>1, <2>2 DEF Abstract!Begin, Shown, Disputed
  <2> QED
    BY <2>3 DEF Abstract!Next
<1>4. ASSUME NEW i \in Process, Violate(i) \/ RollBack(i) PROVE Abstract!Next
  <2>1. phase' = [phase EXCEPT ![i] = Idle] /\ contested' = [contested EXCEPT ![i] = {}]
    BY <1>4 DEF Violate, RollBack, Ended
  <2>2. Active' = Active \ {i}
    BY <1>1, <2>1 DEF Active, Idle
  <2>3. Disputed' = [Disputed EXCEPT ![i] = {}]
    <3>1. \A k \in Process : contested'[k] = IF k = i THEN {} ELSE contested[k]
      BY <1>1, <2>1
    <3> QED
      BY <3>1, FileKeysOf DEF Disputed
  <2>4. Abstract!Abandon(i)
    BY <2>2, <2>3 DEF Abstract!Abandon, Shown, Disputed
  <2> QED
    BY <2>4 DEF Abstract!Next
<1>5. ASSUME NEW i \in Process, Begin(i) PROVE UNCHANGED <<Active, Disputed>>
  BY <1>1, <1>2, <1>5 DEF Begin, At, Active, Idle
<1>6. ASSUME NEW i \in Process, SelectFile(i) PROVE UNCHANGED <<Active, Disputed>>
  BY <1>1, <1>2, <1>6 DEF SelectFile, Active
<1>7. ASSUME NEW i \in Process, NEW here, NEW next, At(i, here, next), UNCHANGED contested,
             here \notin {Idle, "flush_item"}, next \notin {Idle, "flush_item"}
      PROVE  UNCHANGED <<Active, Disputed>>
  BY <1>1, <1>2, <1>7 DEF At, Active
<1>8. ASSUME NEW i \in Process,
             \/ FlushRoot(i) \/ (\E n \in work[i].detail.nodes : SelectChild(i, n)) \/ FlushChild(i)
             \/ FlushChildIdentity(i) \/ SelectRootIdentity(i) \/ FlushRootIdentity(i)
             \/ RefreshSearchDocuments(i)
      PROVE  UNCHANGED <<Active, Disputed>>
  <2>1. UNCHANGED contested
    BY <1>8 DEF FlushRoot, SelectChild, FlushChild, FlushChildIdentity, SelectRootIdentity,
                FlushRootIdentity, RefreshSearchDocuments
  <2>2. \E here, next \in Phase \ {Idle, "flush_item"} : At(i, here, next)
    BY <1>8 DEF FlushRoot, SelectChild, FlushChild, FlushChildIdentity, SelectRootIdentity,
                FlushRootIdentity, RefreshSearchDocuments, Phase, Idle
  <2> QED
    BY <1>7, <2>1, <2>2
<1>9. CASE UNCHANGED vars
  BY <1>2, <1>9 DEF vars, Active
<1>10. CASE Next
  BY <1>3, <1>4, <1>5, <1>6, <1>8, <1>10 DEF Next
<1> QED
  BY <1>9, <1>10

LEMMA InitShown ==
    ASSUME Init, CatalogInv PROVE Abstract!Init
<1>1. Shown \in InitialTables
  BY CatalogInitView, ShownIsView DEF CatalogInv
<1>2. Active = {}
  BY DEF Init, Active, Idle
<1>3. Disputed = [i \in Process |-> {}]
  <2>1. \A i \in Process : contested[i] = {}
    BY DEF Init
  <2> QED
    BY <2>1, FileKeysOf DEF Disputed
<1> QED
  BY <1>1, <1>2, <1>3 DEF Abstract!Init, Shown, Disputed

\* Whatever the transactions of several processes do in between, every commit puts
\* the rows of one ingest into the catalog, all of them but for those of files that
\* an overlapping ingest has committed, and nothing else.
THEOREM IngestsAreSerial == Spec => ImplementsCatalog
<1>1. Init /\ CatalogInv => Abstract!Init
  BY InitShown
<1>2. CatalogInv /\ CatalogInv' /\ [Next]_vars /\ Shown = ViewOf(db) /\ (Shown = ViewOf(db))'
        => (db' # db => Abstract!Next)
  <2> SUFFICES ASSUME CatalogInv, CatalogInv', [Next]_vars, Shown = ViewOf(db), Shown' = ViewOf(db'),
                      db' # db
               PROVE  Abstract!Next
    BY DEF ViewOf
  <2>1. PICK i \in Process : Commit(i)
    BY CatalogChanges
  <2> QED
    BY <2>1, CommitFinishes
<1> QED
  BY <1>1, <1>2, ShownIsView, CatalogInvariant, PTL DEF Spec, ImplementsCatalog

\* No other step changes it, so the transactions are as ingests that run one after
\* the other: every step is one of Catalog, or one that Catalog does not see.
THEOREM CatalogRefined == Spec => Abstract!Spec
<1>1. Init /\ CatalogInv => Abstract!Init
  BY InitShown
<1>2. CatalogInv /\ CatalogInv' /\ [Next]_vars /\ Shown = ViewOf(db) /\ (Shown = ViewOf(db))'
        => [Abstract!Next]_<<Shown, Active, Disputed>>
  <2> SUFFICES ASSUME CatalogInv, CatalogInv', [Next]_vars, Shown = ViewOf(db), Shown' = ViewOf(db')
               PROVE  Abstract!Next \/ UNCHANGED <<Shown, Active, Disputed>>
    BY DEF ViewOf
  <2>1. ASSUME NEW i \in Process, Commit(i) PROVE Abstract!Next
    BY <2>1, CommitFinishes
  <2>2. ASSUME \A i \in Process : ~Commit(i)
        PROVE  Abstract!Next \/ UNCHANGED <<Shown, Active, Disputed>>
    <3>1. db' = db
      BY <2>2, CatalogChanges
    <3>2. Shown' = Shown
      BY <3>1
    <3> QED
      BY <2>2, <3>1, <3>2, OtherSteps
  <2> QED
    BY <2>1, <2>2
<1> QED
  BY <1>1, <1>2, ShownIsView, CatalogInvariant, PTL DEF Spec, Abstract!Spec, Shown, Disputed
=============================================================================
