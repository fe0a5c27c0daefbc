--------------------------- MODULE CatalogProofs ---------------------------
(***************************************************************************)
(* Proofs about CatalogUpsert for any number of processes, any provider    *)
(* answers, folders and databases.                                         *)
(*                                                                         *)
(* Transactions never hold writes to one row (Disjoint), and the first row *)
(* that a transaction writes is the media item of its entry (Locked):      *)
(* together these make the flush of that item a lock on the entry.         *)
(***************************************************************************)
EXTENDS CatalogUpsert, TLAPS

\* Transactions that are open have no written row in common.
Disjoint ==
    \A i, k \in Process : i # k => DOMAIN own[i] \cap DOMAIN own[k] = {}

\* What a transaction has written at each statement.
Locked ==
    \A i \in Process :
        /\ phase[i] \in {Idle, "flush_item"} => own[i] = <<>>
        /\ phase[i] \notin {Idle, "flush_item"} => ItemKey(work[i].detail.entry) \in DOMAIN own[i]

\* The first thing a transaction writes is its media item.
ItemFirst ==
    \A i \in Process :
        phase[i] = "flush_item" =>
            /\ ItemRow(work[i].detail) \in Written(i)
            /\ \A s \in session[i] : s.row = ItemRow(work[i].detail)

StateTyped ==
    /\ phase \in [Process -> Phase]
    /\ work = [i \in Process |-> work[i]]
    /\ own = [i \in Process |-> own[i]]
    /\ session = [i \in Process |-> session[i]]
    /\ root = [i \in Process |-> root[i]]

LockInv == StateTyped /\ Disjoint /\ Locked /\ ItemFirst

-----------------------------------------------------------------------------
(* Tables. *)

LEMMA TableRows ==
    ASSUME NEW rows
    PROVE  /\ DOMAIN Table(rows) \subseteq {r.key : r \in rows}
           /\ \A k \in DOMAIN Table(rows) : \E r \in rows : r.key = k /\ Table(rows)[k] = r.value
<1> DEFINE last == Last(rows)
<1>1. last \subseteq rows
  BY DEF Last
<1>2. Table(rows) = [k \in {r.key : r \in last} |-> (CHOOSE r \in last : r.key = k).value]
  BY DEF Table
<1>3. ASSUME NEW k \in {r.key : r \in last}
      PROVE  \E r \in rows : r.key = k /\ Table(rows)[k] = r.value
  <2>1. PICK r \in last : r.key = k
    OBVIOUS
  <2>2. (CHOOSE x \in last : x.key = k) \in last /\ (CHOOSE x \in last : x.key = k).key = k
    BY <2>1
  <2> QED
    BY <1>1, <1>2, <2>2
<1>4. DOMAIN Table(rows) = {r.key : r \in last}
  BY <1>2
<1>5. DOMAIN Table(rows) \subseteq {r.key : r \in rows}
  BY <1>1, <1>4
<1>6. \A k \in DOMAIN Table(rows) : \E r \in rows : r.key = k /\ Table(rows)[k] = r.value
  BY <1>3, <1>4
<1> QED
  BY <1>5, <1>6

\* Rows that have no rival for their key are all in the table.
LEMMA TableOfDistinctRows ==
    ASSUME NEW rows, NEW r \in rows, \A q \in rows : q.key = r.key => q.turn <= r.turn
    PROVE  r.key \in DOMAIN Table(rows)
  BY DEF Table, Last

LEMMA OverKeys ==
    ASSUME NEW first, NEW second
    PROVE  DOMAIN Over(first, second) = DOMAIN first \cup DOMAIN second
  BY DEF Over

\* What the writing statements of a transaction have in common.
Writes(i, rows) ==
    /\ MayWrite(i, {r.key : r \in rows})
    /\ own' = [own EXCEPT ![i] = Over(Table(rows), @)]

LEMMA FlushWrites == ASSUME NEW i, Flush(i) PROVE Writes(i, Written(i))
  BY DEF Flush, Writes

LEMMA RefreshWrites ==
    ASSUME NEW i, RefreshSearchDocuments(i) PROVE \E rows : Writes(i, rows)
  BY DEF RefreshSearchDocuments, Writes

LEMMA WritesKeys ==
    ASSUME StateTyped, NEW i \in Process, NEW rows, Writes(i, rows)
    PROVE  /\ own' = [k \in Process |-> own'[k]]
           /\ DOMAIN own'[i] = DOMAIN Table(rows) \cup DOMAIN own[i]
           /\ \A k \in Process \ {i} : own'[k] = own[k] /\ DOMAIN Table(rows) \cap DOMAIN own[k] = {}
<1>1. own' = [own EXCEPT ![i] = Over(Table(rows), own[i])]
  BY DEF Writes
<1>2. own'[i] = Over(Table(rows), own[i])
  BY <1>1 DEF StateTyped
<1>3. \A k \in Process \ {i} : own'[k] = own[k]
  BY <1>1 DEF StateTyped
<1>4. \A k \in Process \ {i} : DOMAIN Table(rows) \cap DOMAIN own[k] = {}
  BY TableRows DEF Writes, MayWrite
<1>5. own' = [k \in Process |-> own'[k]]
  BY <1>1 DEF StateTyped
<1> QED
  BY <1>2, <1>3, <1>4, <1>5, OverKeys

LEMMA WritesDisjoint ==
    ASSUME LockInv, NEW i \in Process, NEW rows, Writes(i, rows)
    PROVE  Disjoint'
<1>1. /\ DOMAIN own'[i] = DOMAIN Table(rows) \cup DOMAIN own[i]
      /\ \A k \in Process \ {i} : own'[k] = own[k] /\ DOMAIN Table(rows) \cap DOMAIN own[k] = {}
  BY WritesKeys DEF LockInv
<1> SUFFICES ASSUME NEW j \in Process, NEW k \in Process, j # k
             PROVE  DOMAIN own'[j] \cap DOMAIN own'[k] = {}
  BY DEF Disjoint
<1>2. DOMAIN own[j] \cap DOMAIN own[k] = {}
  BY DEF LockInv, Disjoint
<1> QED
  BY <1>1, <1>2

\* The media item is written at the first flush.
LEMMA ItemIsWritten ==
    ASSUME LockInv, NEW i \in Process, phase[i] = "flush_item"
    PROVE  ItemKey(work[i].detail.entry) \in DOMAIN Table(Written(i))
<1> DEFINE item == ItemRow(work[i].detail)
<1>1. item \in Written(i) /\ item.key = ItemKey(work[i].detail.entry) /\ item.turn = 0
  BY DEF LockInv, ItemFirst, ItemRow, Row, RowInTurn
<1>2. \A q \in Written(i) : q.key = item.key => q.turn <= item.turn
  BY <1>1 DEF Written, Last
<1> QED
  BY <1>1, <1>2, TableOfDistinctRows

-----------------------------------------------------------------------------
(* The invariant. *)

\* A process that moves from one statement to the next, within its transaction.
Moves(i, next) ==
    /\ phase' = [phase EXCEPT ![i] = next]
    /\ next \in Phase \ {Idle, "flush_item"}
    /\ UNCHANGED work
    /\ session' = [k \in Process |-> session'[k]]
    /\ root' = [k \in Process |-> root'[k]]
    /\ \A k \in Process \ {i} : session'[k] = session[k]

\* The select of one file: it adds a row to the session and moves nothing else.
FileSelected(i, r) ==
    /\ phase[i] \in {"flush_root", "search"}
    /\ r \in FilesToSelect(i)
    /\ r.key[1] = (IF phase[i] = "flush_root" THEN "media_files" ELSE "media_file")
    /\ session' = [session EXCEPT ![i] = @ \cup Selected(i, {r})]
    /\ UNCHANGED <<db, phase, work, own, root, done, child, contested>>

LEMMA FileIsSelected == ASSUME NEW i, SelectFile(i) PROVE \E r : FileSelected(i, r)
<1>1. PICK r \in FilesToSelect(i) : session' = [session EXCEPT ![i] = @ \cup Selected(i, {r})]
  BY DEF SelectFile
<1>2. UNCHANGED <<db, phase, work, own, root, done, child, contested>>
  BY DEF SelectFile
<1>3. ASSUME phase[i] = "flush_root" PROVE FileSelected(i, r)
  <2>1. r \in LegacyFileRows(work[i].detail, VideosOf(i))
    BY <1>3 DEF FilesToSelect
  <2>2. r.key[1] = "media_files"
    BY <2>1 DEF LegacyFileRows, LegacyFileKey, Row, RowInTurn
  <2> QED
    BY <1>1, <1>2, <1>3, <2>2 DEF FileSelected
<1>4. ASSUME phase[i] = "search" PROVE FileSelected(i, r)
  <2>1. r \in FileRows(work[i].detail, work[i].folder, root[i])
    BY <1>4 DEF FilesToSelect
  <2>2. r.key[1] = "media_file"
    BY <2>1 DEF FileRows, FileKey, Row, RowInTurn
  <2> QED
    BY <1>1, <1>2, <1>4, <2>2 DEF FileSelected
<1> QED
  BY <1>1, <1>3, <1>4 DEF FilesToSelect

LEMMA WritingStep ==
    ASSUME LockInv, NEW i \in Process, NEW rows, NEW next, Writes(i, rows), Moves(i, next),
           phase[i] # Idle, phase[i] = "flush_item" => rows = Written(i)
    PROVE  LockInv'
<1>1. Disjoint'
  BY WritesDisjoint
<1>2. /\ own' = [k \in Process |-> own'[k]]
      /\ DOMAIN own'[i] = DOMAIN Table(rows) \cup DOMAIN own[i]
      /\ \A k \in Process \ {i} : own'[k] = own[k]
  BY WritesKeys DEF LockInv
<1>3. StateTyped'
  BY <1>2 DEF LockInv, StateTyped, Moves
<1>4. phase'[i] = next /\ (\A k \in Process \ {i} : phase'[k] = phase[k])
  BY DEF LockInv, StateTyped, Moves
<1>5. ItemKey(work[i].detail.entry) \in DOMAIN own'[i]
  BY <1>2, ItemIsWritten DEF LockInv, Locked
<1>6. Locked'
  BY <1>2, <1>4, <1>5 DEF LockInv, Locked, Moves
<1>7. ItemFirst'
  BY <1>4 DEF LockInv, ItemFirst, Moves, Written
<1> QED
  BY <1>1, <1>3, <1>6, <1>7 DEF LockInv

LEMMA SelectingStep ==
    ASSUME LockInv, NEW i \in Process, NEW next, UNCHANGED own, Moves(i, next),
           phase[i] \notin {Idle, "flush_item"}
    PROVE  LockInv'
<1>1. phase'[i] = next /\ (\A k \in Process \ {i} : phase'[k] = phase[k])
  BY DEF LockInv, StateTyped, Moves
<1>2. StateTyped'
  BY DEF LockInv, StateTyped, Moves
<1>3. Disjoint'
  BY DEF LockInv, Disjoint
<1>4. Locked'
  BY <1>1 DEF LockInv, Locked, Moves
<1>5. ItemFirst'
  BY <1>1 DEF LockInv, ItemFirst, Moves, Written
<1> QED
  BY <1>2, <1>3, <1>4, <1>5 DEF LockInv

LEMMA EndingStep ==
    ASSUME LockInv, NEW i \in Process, Ended(i)
    PROVE  LockInv'
<1>1. /\ phase'[i] = Idle /\ own'[i] = <<>>
      /\ \A k \in Process \ {i} :
            phase'[k] = phase[k] /\ own'[k] = own[k] /\ work'[k] = work[k] /\ session'[k] = session[k]
  BY DEF LockInv, StateTyped, Ended
<1>2. StateTyped'
  BY DEF LockInv, StateTyped, Ended, Phase, Idle
<1>3. Disjoint'
  BY <1>1 DEF LockInv, Disjoint
<1>4. Locked'
  BY <1>1 DEF LockInv, Locked, Idle
<1>5. ItemFirst'
  <2> SUFFICES ASSUME NEW k \in Process, phase'[k] = "flush_item"
               PROVE  /\ ItemRow(work'[k].detail) \in Written(k)'
                      /\ \A s \in session'[k] : s.row = ItemRow(work'[k].detail)
    BY DEF ItemFirst
  <2>1. work'[k] = work[k] /\ session'[k] = session[k] /\ phase[k] = "flush_item"
    BY <1>1 DEF Idle
  <2>2. Written(k)' = Written(k)
    BY <2>1 DEF Written
  <2> QED
    BY <2>1, <2>2 DEF LockInv, ItemFirst
<1> QED
  BY <1>2, <1>3, <1>4, <1>5 DEF LockInv

LEMMA BeginningStep ==
    ASSUME LockInv, NEW i \in Process, Begin(i)
    PROVE  LockInv'
<1>1. PICK f \in Folder, d \in Detail :
         /\ work' = [work EXCEPT ![i] = [folder |-> f, detail |-> d]]
         /\ session' = [session EXCEPT ![i] = Selected(i, {ItemRow(d)})]
  BY DEF Begin, Add
<1>2. phase[i] = Idle /\ phase' = [phase EXCEPT ![i] = "flush_item"] /\ UNCHANGED <<own, root>>
  BY DEF Begin, At
<1>3. /\ phase'[i] = "flush_item" /\ own'[i] = <<>>
      /\ work'[i].detail = d /\ session'[i] = Selected(i, {ItemRow(d)})
      /\ \A k \in Process \ {i} :
            phase'[k] = phase[k] /\ own'[k] = own[k] /\ work'[k] = work[k] /\ session'[k] = session[k]
  BY <1>1, <1>2 DEF LockInv, StateTyped, Locked, Idle
<1>4. StateTyped'
  BY <1>1, <1>2 DEF LockInv, StateTyped, Phase
<1>5. Disjoint'
  BY <1>2 DEF LockInv, Disjoint
<1>6. Locked'
  BY <1>3 DEF LockInv, Locked, Idle
<1>7. ItemRow(d) \in Written(i)'
  <2>1. PICK s \in session'[i] : s.row = ItemRow(d) /\ s.dirty
    <3> DEFINE kept == [row |-> ItemRow(d), found |-> Found(i, ItemRow(d)),
                        dirty |-> \/ Rewritten(ItemRow(d))
                                  \/ Found(i, ItemRow(d)) => Visible(i)[ItemRow(d).key] # ItemRow(d).value]
    <3>1. kept \in session'[i]
      BY <1>3 DEF Selected
    <3>2. Rewritten(ItemRow(d))
      BY DEF Rewritten, ItemRow, Row, RowInTurn, ItemKey
    <3>3. kept.dirty
      BY <3>2
    <3> QED
      BY <3>1, <3>3
  <2>2. \A s1 \in session'[i] : s1.row = ItemRow(d)
    BY <1>3 DEF Selected
  <2>3. Last({s1.row : s1 \in session'[i]}) = {ItemRow(d)}
    BY <2>1, <2>2 DEF Last, ItemRow, Row, RowInTurn
  <2> QED
    BY <2>1, <2>3 DEF Written
<1>8. ItemFirst'
  <2>1. \A s \in session'[i] : s.row = ItemRow(work'[i].detail)
    BY <1>3 DEF Selected
  <2>2. ItemRow(work'[i].detail) \in Written(i)'
    BY <1>3, <1>7
  <2>3. \A k \in Process \ {i} : Written(k)' = Written(k)
    BY <1>3 DEF Written
  <2> QED
    BY <1>3, <2>1, <2>2, <2>3 DEF LockInv, ItemFirst
<1> QED
  BY <1>4, <1>5, <1>6, <1>8 DEF LockInv

LEMMA LockInit == Init => LockInv
<1> SUFFICES ASSUME Init PROVE LockInv
  OBVIOUS
<1>1. \A i \in Process : phase[i] = Idle /\ own[i] = <<>>
  BY DEF Init
<1>2. StateTyped
  BY DEF Init, StateTyped, Phase, Idle
<1>3. Disjoint /\ Locked /\ ItemFirst
  BY <1>1 DEF Disjoint, Locked, ItemFirst, Idle
<1> QED
  BY <1>2, <1>3 DEF LockInv

LEMMA LockStep == LockInv /\ [Next]_vars => LockInv'
<1> SUFFICES ASSUME LockInv, [Next]_vars PROVE LockInv'
  OBVIOUS
<1>1. CASE UNCHANGED vars
  <2>1. UNCHANGED <<phase, work, own, session, root>>
    BY <1>1 DEF vars
  <2>2. StateTyped' /\ Disjoint' /\ Locked'
    BY <2>1 DEF LockInv, StateTyped, Disjoint, Locked
  <2>3. ItemFirst'
    BY <2>1 DEF LockInv, ItemFirst, Written
  <2> QED
    BY <2>2, <2>3 DEF LockInv
<1>2. ASSUME NEW i \in Process, Begin(i) PROVE LockInv'
  BY <1>2, BeginningStep
<1>3. ASSUME NEW i \in Process, FlushMediaItem(i) PROVE LockInv'
  <2>1. Writes(i, Written(i))
    BY <1>3, FlushWrites DEF FlushMediaItem
  <2>2. Moves(i, "flush_root") /\ phase[i] = "flush_item"
    BY <1>3 DEF FlushMediaItem, At, Moves, Add, LockInv, StateTyped, Phase, Idle
  <2> QED
    BY <2>1, <2>2, WritingStep DEF Idle
<1>4. ASSUME NEW i \in Process, FlushRoot(i) PROVE LockInv'
  <2>1. Writes(i, Written(i))
    BY <1>4, FlushWrites DEF FlushRoot
  <2>2. Moves(i, "children") /\ phase[i] = "flush_root"
    BY <1>4 DEF FlushRoot, At, Moves, Add, LockInv, StateTyped, Phase, Idle
  <2> QED
    BY <2>1, <2>2, WritingStep DEF Idle
<1>5. ASSUME NEW i \in Process, NEW n, SelectChild(i, n) PROVE LockInv'
  <2>1. Moves(i, "flush_child") /\ phase[i] = "children" /\ UNCHANGED own
    BY <1>5 DEF SelectChild, At, Moves, Add, LockInv, StateTyped, Phase, Idle
  <2> QED
    BY <2>1, SelectingStep DEF Idle
<1>6. ASSUME NEW i \in Process, FlushChild(i) PROVE LockInv'
  <2>1. Writes(i, Written(i))
    BY <1>6, FlushWrites DEF FlushChild
  <2>2. Moves(i, "flush_child_identity") /\ phase[i] = "flush_child"
    BY <1>6 DEF FlushChild, At, Moves, Add, LockInv, StateTyped, Phase, Idle
  <2> QED
    BY <2>1, <2>2, WritingStep DEF Idle
<1>7. ASSUME NEW i \in Process, FlushChildIdentity(i) PROVE LockInv'
  <2>1. Writes(i, Written(i))
    BY <1>7, FlushWrites DEF FlushChildIdentity
  <2>2. Moves(i, "children") /\ phase[i] = "flush_child_identity"
    BY <1>7 DEF FlushChildIdentity, At, Moves, Add, LockInv, StateTyped, Phase, Idle
  <2> QED
    BY <2>1, <2>2, WritingStep DEF Idle
<1>8. ASSUME NEW i \in Process, SelectRootIdentity(i) PROVE LockInv'
  <2>1. Moves(i, "flush_root_identity") /\ phase[i] = "children" /\ UNCHANGED own
    BY <1>8 DEF SelectRootIdentity, At, Moves, Add, LockInv, StateTyped, Phase, Idle
  <2> QED
    BY <2>1, SelectingStep DEF Idle
<1>9. ASSUME NEW i \in Process, FlushRootIdentity(i) PROVE LockInv'
  <2>1. Writes(i, Written(i))
    BY <1>9, FlushWrites DEF FlushRootIdentity
  <2>2. Moves(i, "search") /\ phase[i] = "flush_root_identity"
    BY <1>9 DEF FlushRootIdentity, At, Moves, Add, LockInv, StateTyped, Phase, Idle
  <2> QED
    BY <2>1, <2>2, WritingStep DEF Idle
<1>10. ASSUME NEW i \in Process, RefreshSearchDocuments(i) PROVE LockInv'
  <2>1. PICK rows : Writes(i, rows)
    BY <1>10, RefreshWrites
  <2>2. Moves(i, "commit") /\ phase[i] = "search"
    BY <1>10 DEF RefreshSearchDocuments, At, Moves, LockInv, StateTyped, Phase, Idle
  <2> QED
    BY <2>1, <2>2, WritingStep DEF Idle
<1>11. ASSUME NEW i \in Process, Commit(i) \/ Violate(i) \/ RollBack(i) PROVE LockInv'
  BY <1>11, EndingStep DEF Commit, Violate, RollBack
<1>12. ASSUME NEW i \in Process, SelectFile(i) PROVE LockInv'
  <2>1. PICK r : FileSelected(i, r)
    BY <1>12, FileIsSelected
  <2>2. Moves(i, phase[i]) /\ phase[i] \notin {Idle, "flush_item"} /\ UNCHANGED own
    BY <2>1 DEF FileSelected, Moves, LockInv, StateTyped, Phase, Idle
  <2> QED
    BY <2>2, SelectingStep
<1> QED
  BY <1>1, <1>2, <1>3, <1>4, <1>5, <1>6, <1>7, <1>8, <1>9, <1>10, <1>11, <1>12 DEF Next

\* No two transactions hold writes to one row, and each that has written holds its
\* media item: the inductive invariant of the lock.
THEOREM LockInvariant == Spec => []LockInv
  BY LockInit, LockStep, PTL DEF Spec

\* No two processes are ever in the middle of writing one entry.
THEOREM EntryLock == Spec => []EntryIsLocked
<1>1. LockInv => EntryIsLocked
  <2> SUFFICES ASSUME LockInv, NEW i \in Process, NEW k \in Process, i # k,
                      own[i] # <<>>, own[k] # <<>>, work[i].detail.entry = work[k].detail.entry
               PROVE  FALSE
    BY DEF EntryIsLocked
  <2>1. /\ ItemKey(work[i].detail.entry) \in DOMAIN own[i]
        /\ ItemKey(work[k].detail.entry) \in DOMAIN own[k]
    BY DEF LockInv, Locked
  <2> QED
    BY <2>1 DEF LockInv, Disjoint
<1> QED
  BY <1>1, LockInvariant, PTL

-----------------------------------------------------------------------------
(* Identities. *)

EntryAt(i) == work[i].detail.entry

\* The identities of an entry are those of one tree, whose root is known.
DbTree ==
    \A k \in Identities(db) :
        /\ k = IdentityKey(k[2], k[3])
        /\ IdentityKey(k[2], <<>>) \in DOMAIN db
        /\ db[k] = EntityAt(db[IdentityKey(k[2], <<>>)][1], k[3])

OwnTree(i) ==
    \A k \in Identities(own[i]) :
        k = IdentityKey(EntryAt(i), k[3]) /\ own[i][k] = EntityAt(root[i], k[3])

IsIdentity(r) == r.key[1] = "provider_identity"

OfItsTree(i, r) == \E n : r = IdentityRow(work[i].detail, n, root[i])

SessionTree(i) ==
    \A s \in session[i] : IsIdentity(s.row) => OfItsTree(i, s.row)

\* The root that is committed is the one the transaction works with: nobody else
\* can have committed another one since it was looked up.
RootKnown(i) ==
    phase[i] \notin {Idle, "flush_item"} /\ IdentityKey(EntryAt(i), <<>>) \in DOMAIN db
        => db[IdentityKey(EntryAt(i), <<>>)][1] = root[i]

RootSelected(i) ==
    phase[i] = "flush_root_identity" =>
        \E s \in session[i] :
            /\ session[i] = {s}
            /\ s.row = IdentityRow(work[i].detail, <<>>, root[i])
            /\ s.dirty \/ s.row.key \in DOMAIN own[i] \cup DOMAIN db

RootIdentified(i) ==
    phase[i] \in {"search", "commit"} =>
        /\ IdentityKey(EntryAt(i), <<>>) \in DOMAIN own[i] \cup DOMAIN db
        /\ \A s \in session[i] : ~IsIdentity(s.row)

ProcessTree(i) ==
    OwnTree(i) /\ SessionTree(i) /\ RootKnown(i) /\ RootSelected(i) /\ RootIdentified(i)

TreeInv == DbTree /\ \A i \in Process : ProcessTree(i)

LEMMA RootEntity == ASSUME NEW r PROVE EntityAt(r, <<>>)[1] = r
  BY DEF EntityAt

\* The rows that are not identities.
LEMMA OtherRows ==
    ASSUME NEW d, NEW f, NEW r, NEW n, NEW videos
    PROVE  /\ ~IsIdentity(ItemRow(d))
           /\ ~IsIdentity(EntityRow(n, r))
           /\ \A q \in LegacyFileRows(d, videos) \cup LegacyImageRows(d, f) : ~IsIdentity(q)
           /\ \A q \in EntryRows(d, f, r) : ~IsIdentity(q)
<1> USE DEF IsIdentity, Row, RowInTurn
<1>1. ~IsIdentity(ItemRow(d)) /\ ~IsIdentity(EntityRow(n, r))
  BY DEF ItemRow, ItemKey, EntityRow, EntityKey
<1>2. \A q \in LegacyFileRows(d, videos) \cup LegacyImageRows(d, f) : ~IsIdentity(q)
  BY DEF LegacyFileRows, LegacyImageRows, LegacyFileKey, ImageKey
<1>3. \A q \in AliasRows(d, f, r) : ~IsIdentity(q)
  BY DEF AliasRows, AliasKey
<1>5. \A q \in ProviderAssetRows(d, f, r) : ~IsIdentity(q)
  BY DEF ProviderAssetRows, AssetKey
<1>6. \A q \in LocalAssetRows(d, f, r) : ~IsIdentity(q)
  BY DEF LocalAssetRows, AssetKey
<1> QED
  BY <1>1, <1>2, <1>3, <1>5, <1>6 DEF EntryRows

LEMMA IdentityKeyParts ==
    ASSUME NEW e, NEW n
    PROVE  /\ IdentityKey(e, n)[1] = "provider_identity"
           /\ IdentityKey(e, n)[2] = e
           /\ IdentityKey(e, n)[3] = n
  BY DEF IdentityKey

LEMMA IdentityRowParts ==
    ASSUME NEW d, NEW n, NEW r
    PROVE  /\ IdentityRow(d, n, r).key = IdentityKey(d.entry, n)
           /\ IdentityRow(d, n, r).value = EntityAt(r, n)
           /\ IdentityRow(d, n, r).turn = 0
           /\ IsIdentity(IdentityRow(d, n, r))
  BY DEF IdentityRow, Row, RowInTurn, IsIdentity, IdentityKey

LEMMA WrittenIsInSession ==
    ASSUME NEW i, NEW r \in Written(i) PROVE \E s \in session[i] : s.row = r
  BY DEF Written

\* What is selected is written, or is there already.
LEMMA SelectedRows ==
    ASSUME NEW i, NEW rows
    PROVE  /\ \A s \in Selected(i, rows) : s.row \in rows
           /\ \A r \in rows : \E s \in Selected(i, rows) :
                 s.row = r /\ (s.dirty \/ r.key \in DOMAIN own[i] \cup DOMAIN db)
<1>1. \A s \in Selected(i, rows) : s.row \in rows
  BY DEF Selected
<1>2. ASSUME NEW r \in rows
      PROVE  \E s \in Selected(i, rows) : s.row = r /\ (s.dirty \/ r.key \in DOMAIN own[i] \cup DOMAIN db)
  <2> DEFINE kept == [row |-> r, found |-> Found(i, r),
                      dirty |-> \/ Rewritten(r)
                                \/ Found(i, r) => Visible(i)[r.key] # r.value]
  <2>1. kept \in Selected(i, rows)
    BY DEF Selected
  <2>2. CASE Found(i, r)
    BY <2>1, <2>2, OverKeys DEF Found, Visible
  <2>3. CASE ~Found(i, r)
    BY <2>1, <2>3
  <2> QED
    BY <2>2, <2>3
<1> QED
  BY <1>1, <1>2

\* Every step but a commit leaves the trees of the other processes alone.
LEMMA OthersKeepTree ==
    ASSUME NEW k \in Process, ProcessTree(k), UNCHANGED db,
           phase'[k] = phase[k], work'[k] = work[k], own'[k] = own[k],
           session'[k] = session[k], root'[k] = root[k]
    PROVE  ProcessTree(k)'
  BY DEF ProcessTree, OwnTree, SessionTree, RootKnown, RootSelected, RootIdentified, EntryAt, OfItsTree

\* The identities that a statement writes belong to the tree of its entry.
LEMMA OwnTreeGrows ==
    ASSUME StateTyped, NEW i \in Process, NEW rows, Writes(i, rows), OwnTree(i),
           UNCHANGED <<work, root>>, \A r \in rows : IsIdentity(r) => OfItsTree(i, r)
    PROVE  OwnTree(i)'
<1>1. own'[i] = Over(Table(rows), own[i])
  BY DEF Writes, StateTyped
<1> SUFFICES ASSUME NEW k \in Identities(own'[i])
             PROVE  k = IdentityKey(EntryAt(i), k[3]) /\ own'[i][k] = EntityAt(root[i], k[3])
  BY DEF OwnTree, EntryAt
<1>2. CASE k \in DOMAIN Table(rows)
  <2>1. PICK r \in rows : r.key = k /\ Table(rows)[k] = r.value
    BY <1>2, TableRows
  <2>2. PICK n : r = IdentityRow(work[i].detail, n, root[i])
    BY <2>1 DEF Identities, IsIdentity, OfItsTree
  <2>3. own'[i][k] = r.value
    BY <1>1, <1>2, <2>1 DEF Over
  <2> QED
    BY <2>1, <2>2, <2>3, IdentityRowParts, IdentityKeyParts DEF EntryAt
<1>3. CASE k \notin DOMAIN Table(rows)
  BY <1>1, <1>3 DEF Over, Identities, OwnTree
<1> QED
  BY <1>2, <1>3

\* A statement of process i that writes rows, commits nothing and keeps its root.
LEMMA TreeWritingStep ==
    ASSUME LockInv, TreeInv, NEW i \in Process, NEW rows, NEW next,
           Writes(i, rows), Moves(i, next), phase[i] \notin {Idle, "flush_item"},
           UNCHANGED <<db, root>>, \A r \in rows : IsIdentity(r) => OfItsTree(i, r),
           SessionTree(i)', RootSelected(i)', RootIdentified(i)'
    PROVE  TreeInv'
<1>1. \A k \in Process \ {i} :
         own'[k] = own[k] /\ phase'[k] = phase[k] /\ session'[k] = session[k]
  BY WritesKeys DEF LockInv, StateTyped, Moves
<1>2. \A k \in Process \ {i} : ProcessTree(k)'
  BY <1>1, OthersKeepTree DEF TreeInv, Moves
<1>3. DbTree'
  BY DEF TreeInv, DbTree
<1>4. OwnTree(i)'
  BY OwnTreeGrows DEF LockInv, TreeInv, ProcessTree, Moves
<1>5. RootKnown(i)'
  BY DEF TreeInv, ProcessTree, RootKnown, Moves, EntryAt
<1>6. ProcessTree(i)'
  BY <1>4, <1>5 DEF ProcessTree
<1> QED
  BY <1>2, <1>3, <1>6 DEF TreeInv

\* A statement of process i that only selects.
LEMMA TreeSelectingStep ==
    ASSUME LockInv, TreeInv, NEW i \in Process, NEW next, Moves(i, next),
           phase[i] \notin {Idle, "flush_item"}, UNCHANGED <<db, own, root>>,
           SessionTree(i)', RootSelected(i)', RootIdentified(i)'
    PROVE  TreeInv'
<1>1. \A k \in Process \ {i} : phase'[k] = phase[k] /\ session'[k] = session[k]
  BY DEF LockInv, StateTyped, Moves
<1>2. \A k \in Process \ {i} : ProcessTree(k)'
  BY <1>1, OthersKeepTree DEF TreeInv, Moves
<1>3. DbTree'
  BY DEF TreeInv, DbTree
<1>4. OwnTree(i)' /\ RootKnown(i)'
  BY DEF TreeInv, ProcessTree, OwnTree, RootKnown, Moves, EntryAt
<1>5. ProcessTree(i)'
  BY <1>4 DEF ProcessTree
<1> QED
  BY <1>2, <1>3, <1>5 DEF TreeInv

\* What a session flushes belongs to its tree.
LEMMA FlushedTree ==
    ASSUME TreeInv, NEW i \in Process
    PROVE  \A r \in Written(i) : IsIdentity(r) => OfItsTree(i, r)
  BY WrittenIsInSession DEF TreeInv, ProcessTree, SessionTree

\* A transaction that has begun knows no root yet and has written nothing.
LEMMA TreeBegin ==
    ASSUME LockInv, TreeInv, NEW i \in Process, Begin(i)
    PROVE  TreeInv'
<1>1. PICK f \in Folder, d \in Detail :
         /\ work' = [work EXCEPT ![i] = [folder |-> f, detail |-> d]]
         /\ session' = [session EXCEPT ![i] = Selected(i, {ItemRow(d)})]
  BY DEF Begin, Add
<1>2. /\ phase[i] = Idle /\ phase' = [phase EXCEPT ![i] = "flush_item"]
      /\ UNCHANGED <<db, own, root>>
  BY DEF Begin, At
<1>3. phase'[i] = "flush_item" /\ own'[i] = <<>> /\ session'[i] = Selected(i, {ItemRow(d)})
  BY <1>1, <1>2 DEF LockInv, StateTyped, Locked
<1>4. \A k \in Process \ {i} :
         phase'[k] = phase[k] /\ work'[k] = work[k] /\ own'[k] = own[k]
         /\ session'[k] = session[k] /\ root'[k] = root[k]
  BY <1>1, <1>2 DEF LockInv, StateTyped
<1>5. \A k \in Process \ {i} : ProcessTree(k)'
  BY <1>2, <1>4, OthersKeepTree DEF TreeInv
<1>6. DbTree'
  BY <1>2 DEF TreeInv, DbTree
<1>7. OwnTree(i)'
  BY <1>3 DEF OwnTree, Identities
<1>8. SessionTree(i)'
  <2>1. \A s \in session'[i] : s.row \in {ItemRow(d)}
    BY <1>3, SelectedRows
  <2>2. ~IsIdentity(ItemRow(d))
    BY OtherRows
  <2> QED
    BY <2>1, <2>2 DEF SessionTree
<1>9. RootKnown(i)' /\ RootSelected(i)' /\ RootIdentified(i)'
  BY <1>3 DEF RootKnown, RootSelected, RootIdentified
<1>10. ProcessTree(i)'
  BY <1>7, <1>8, <1>9 DEF ProcessTree
<1> QED
  BY <1>5, <1>6, <1>10 DEF TreeInv

\* The first flush of a transaction finds the root of its entry, if it has one.
LEMMA TreeFlushMediaItem ==
    ASSUME LockInv, TreeInv, NEW i \in Process, FlushMediaItem(i)
    PROVE  TreeInv'
<1> DEFINE d == work[i].detail
           key == IdentityKey(d.entry, <<>>)
<1>1. PICK r :
         /\ r \in KnownRoot(i) \/ KnownRoot(i) = {}
         /\ root' = [root EXCEPT ![i] = r]
         /\ session' = [session EXCEPT ![i] =
                            Selected(i, LegacyImageRows(d, work[i].folder) \cup {EntityRow(<<>>, r)})]
  BY DEF FlushMediaItem, Add
<1>2. /\ phase[i] = "flush_item" /\ phase' = [phase EXCEPT ![i] = "flush_root"]
      /\ UNCHANGED <<db, work>> /\ Writes(i, Written(i))
  BY FlushWrites DEF FlushMediaItem, At
<1>3. phase'[i] = "flush_root" /\ root'[i] = r
      /\ session'[i] = Selected(i, LegacyImageRows(d, work[i].folder) \cup {EntityRow(<<>>, r)})
  BY <1>1, <1>2 DEF LockInv, StateTyped
<1>4. \A k \in Process \ {i} :
         phase'[k] = phase[k] /\ own'[k] = own[k] /\ session'[k] = session[k] /\ root'[k] = root[k]
  BY <1>1, <1>2, WritesKeys DEF LockInv, StateTyped
<1>5. \A k \in Process \ {i} : ProcessTree(k)'
  BY <1>2, <1>4, OthersKeepTree DEF TreeInv
<1>6. DbTree'
  BY <1>2 DEF TreeInv, DbTree
<1>7. own[i] = <<>>
  BY <1>2 DEF LockInv, Locked
<1>8. OwnTree(i)'
  <2>1. \A q \in Written(i) : ~IsIdentity(q)
    <3>1. ItemRow(d) \in Written(i)
      BY <1>2 DEF LockInv, ItemFirst
    <3>2. \A s \in session[i] : s.row = ItemRow(d)
      BY <1>2 DEF LockInv, ItemFirst
    <3> QED
      BY <3>2, WrittenIsInSession, OtherRows
  <2>2. own'[i] = Over(Table(Written(i)), <<>>)
    BY <1>2, <1>7 DEF Writes, LockInv, StateTyped
  <2>3. \A k \in DOMAIN own'[i] : k[1] # "provider_identity"
    <3>1. DOMAIN own'[i] = DOMAIN Table(Written(i))
      <4>1. own[i] = <<>> => DOMAIN own[i] = {}
        OBVIOUS
      <4>2. own'[i] = Over(Table(Written(i)), own[i])
        BY <1>7, <2>2
      <4>3. DOMAIN own'[i] = DOMAIN Table(Written(i)) \cup DOMAIN own[i]
        BY <4>2, OverKeys
      <4>4. DOMAIN own[i] = {}
        BY <1>7, <4>1
      <4> QED
        BY <4>3, <4>4
    <3>2. \A k \in DOMAIN Table(Written(i)) : \E q \in Written(i) : q.key = k
      BY TableRows
    <3> QED
      BY <2>1, <3>1, <3>2 DEF IsIdentity
  <2> QED
    BY <2>3 DEF OwnTree, Identities
<1>9. SessionTree(i)'
  <2> DEFINE rows == LegacyImageRows(d, work[i].folder) \cup {EntityRow(<<>>, r)}
  <2>2. \A q \in rows : ~IsIdentity(q)
    BY OtherRows
  <2>3. \A s \in Selected(i, rows) : s.row \in rows
    BY SelectedRows
  <2>1. \A s \in session'[i] : ~IsIdentity(s.row)
    BY <1>3, <2>2, <2>3
  <2> QED
    BY <2>1 DEF SessionTree
<1>10. RootKnown(i)'
  <2>1. ASSUME key \in DOMAIN db PROVE db[key][1] = r
    <3>1. Visible(i)[key] = db[key] /\ key \in DOMAIN Visible(i)
      BY <1>7, <2>1 DEF Visible, Over
    <3> QED
      BY <1>1, <3>1 DEF KnownRoot
  <2> QED
    BY <1>2, <1>3, <2>1 DEF RootKnown, EntryAt
<1>11. RootSelected(i)' /\ RootIdentified(i)'
  BY <1>3 DEF RootSelected, RootIdentified
<1>12. ProcessTree(i)'
  BY <1>8, <1>9, <1>10, <1>11 DEF ProcessTree
<1> QED
  BY <1>5, <1>6, <1>12 DEF TreeInv

LEMMA Added ==
    ASSUME LockInv, NEW i \in Process, NEW rows, Add(i, rows)
    PROVE  session'[i] = Selected(i, rows) /\ (\A s \in session'[i] : s.row \in rows)
<1>1. session'[i] = Selected(i, rows)
  BY DEF Add, LockInv, StateTyped
<1> QED
  BY <1>1, SelectedRows

\* A statement that leaves nothing of the tree in the session.
LEMMA NoIdentityAdded ==
    ASSUME LockInv, NEW i \in Process, NEW rows, Add(i, rows), \A r \in rows : ~IsIdentity(r)
    PROVE  SessionTree(i)' /\ (\A s \in session'[i] : ~IsIdentity(s.row))
<1>1. \A s \in session'[i] : ~IsIdentity(s.row)
  BY Added
<1> QED
  BY <1>1 DEF SessionTree

LEMMA IdentityAdded ==
    ASSUME LockInv, NEW i \in Process, NEW n, UNCHANGED <<work, root>>,
           Add(i, {IdentityRow(work[i].detail, n, root[i])})
    PROVE  SessionTree(i)'
<1>1. \A s \in session'[i] : s.row \in {IdentityRow(work[i].detail, n, root[i])}
  BY Added
<1> QED
  BY <1>1 DEF SessionTree, OfItsTree

\* The select of a file concerns no identity.
LEMMA TreeSelectFile ==
    ASSUME LockInv, TreeInv, NEW i \in Process, SelectFile(i)
    PROVE  TreeInv'
<1>1. PICK r : FileSelected(i, r)
  BY FileIsSelected
<1>2. Moves(i, phase[i]) /\ phase[i] \notin {Idle, "flush_item"} /\ UNCHANGED <<db, phase, work, own, root>>
  BY <1>1 DEF FileSelected, Moves, LockInv, StateTyped, Phase, Idle
<1>3. session'[i] = session[i] \cup Selected(i, {r}) /\ ~IsIdentity(r)
  BY <1>1 DEF FileSelected, LockInv, StateTyped, IsIdentity
<1>4. \A s \in session'[i] : s \in session[i] \/ ~IsIdentity(s.row)
  BY <1>3, SelectedRows
<1>5. SessionTree(i)'
  BY <1>2, <1>4 DEF TreeInv, ProcessTree, SessionTree, OfItsTree
<1>6. RootSelected(i)'
  BY <1>1, <1>2 DEF FileSelected, RootSelected
<1>7. RootIdentified(i)'
  BY <1>2, <1>4 DEF TreeInv, ProcessTree, RootIdentified, EntryAt
<1> QED
  BY <1>2, <1>5, <1>6, <1>7, TreeSelectingStep

\* The steps within a transaction, by the statement that follows.
LEMMA TreeFlushRoot ==
    ASSUME LockInv, TreeInv, NEW i \in Process, FlushRoot(i) \/ FlushChildIdentity(i)
    PROVE  TreeInv'
<1>1. Writes(i, Written(i)) /\ UNCHANGED <<db, root>>
  BY FlushWrites DEF FlushRoot, FlushChildIdentity
<1>2. Moves(i, "children") /\ phase[i] \notin {Idle, "flush_item"}
  BY DEF FlushRoot, FlushChildIdentity, At, Moves, Add, LockInv, StateTyped, Phase, Idle
<1>3. phase'[i] = "children"
  BY <1>2 DEF Moves, LockInv, StateTyped
<1>4. Add(i, {})
  BY DEF FlushRoot, FlushChildIdentity
<1>5. SessionTree(i)'
  BY <1>4, NoIdentityAdded
<1>6. RootSelected(i)' /\ RootIdentified(i)'
  BY <1>3 DEF RootSelected, RootIdentified
<1> QED
  BY <1>1, <1>2, <1>5, <1>6, FlushedTree, TreeWritingStep

LEMMA TreeSelectChild ==
    ASSUME LockInv, TreeInv, NEW i \in Process, NEW n, SelectChild(i, n)
    PROVE  TreeInv'
<1>1. Moves(i, "flush_child") /\ phase[i] \notin {Idle, "flush_item"} /\ UNCHANGED <<db, own, root>>
  BY DEF SelectChild, At, Moves, Add, LockInv, StateTyped, Phase, Idle
<1>2. phase'[i] = "flush_child"
  BY <1>1 DEF Moves, LockInv, StateTyped
<1>3. Add(i, {EntityRow(n, root[i])})
  BY DEF SelectChild
<1>4. \A r \in {EntityRow(n, root[i])} : ~IsIdentity(r)
  BY OtherRows
<1>5. SessionTree(i)'
  BY <1>3, <1>4, NoIdentityAdded
<1>6. RootSelected(i)' /\ RootIdentified(i)'
  BY <1>2 DEF RootSelected, RootIdentified
<1> QED
  BY <1>1, <1>5, <1>6, TreeSelectingStep

LEMMA TreeFlushChild ==
    ASSUME LockInv, TreeInv, NEW i \in Process, FlushChild(i)
    PROVE  TreeInv'
<1>1. Writes(i, Written(i)) /\ UNCHANGED <<db, work, root>>
  BY FlushWrites DEF FlushChild
<1>2. Moves(i, "flush_child_identity") /\ phase[i] \notin {Idle, "flush_item"}
  BY DEF FlushChild, At, Moves, Add, LockInv, StateTyped, Phase, Idle
<1>3. phase'[i] = "flush_child_identity"
  BY <1>2 DEF Moves, LockInv, StateTyped
<1>4. Add(i, {IdentityRow(work[i].detail, child[i], root[i])})
  BY DEF FlushChild
<1>5. SessionTree(i)'
  BY <1>1, <1>4, IdentityAdded
<1>6. RootSelected(i)' /\ RootIdentified(i)'
  BY <1>3 DEF RootSelected, RootIdentified
<1> QED
  BY <1>1, <1>2, <1>5, <1>6, FlushedTree, TreeWritingStep

LEMMA TreeSelectRootIdentity ==
    ASSUME LockInv, TreeInv, NEW i \in Process, SelectRootIdentity(i)
    PROVE  TreeInv'
<1> DEFINE row == IdentityRow(work[i].detail, <<>>, root[i])
<1>1. Moves(i, "flush_root_identity") /\ phase[i] \notin {Idle, "flush_item"}
      /\ UNCHANGED <<db, own, work, root>>
  BY DEF SelectRootIdentity, At, Moves, Add, LockInv, StateTyped, Phase, Idle
<1>2. phase'[i] = "flush_root_identity"
  BY <1>1 DEF Moves, LockInv, StateTyped
<1>3. Add(i, {row})
  BY DEF SelectRootIdentity
<1>4. SessionTree(i)'
  BY <1>1, <1>3, IdentityAdded
<1>5. RootSelected(i)'
  <2>1. PICK s \in Selected(i, {row}) :
           s.row = row /\ (s.dirty \/ row.key \in DOMAIN own[i] \cup DOMAIN db)
    BY SelectedRows
  <2>2. Selected(i, {row}) = {s}
    BY <2>1 DEF Selected
  <2>3. session'[i] = {s}
    BY <1>3, <2>2, Added
  <2> QED
    BY <1>1, <2>1, <2>3 DEF RootSelected
<1>6. RootIdentified(i)'
  BY <1>2 DEF RootIdentified
<1> QED
  BY <1>1, <1>4, <1>5, <1>6, TreeSelectingStep

LEMMA TreeFlushRootIdentity ==
    ASSUME LockInv, TreeInv, NEW i \in Process, FlushRootIdentity(i)
    PROVE  TreeInv'
<1> DEFINE rows == EntryRows(work[i].detail, work[i].folder, root[i])
           key == IdentityKey(EntryAt(i), <<>>)
<1>1. Writes(i, Written(i)) /\ UNCHANGED <<db, work, root>>
  BY FlushWrites DEF FlushRootIdentity
<1>2. Moves(i, "search") /\ phase[i] = "flush_root_identity" /\ phase[i] \notin {Idle, "flush_item"}
  BY DEF FlushRootIdentity, At, Moves, Add, LockInv, StateTyped, Phase, Idle
<1>3. phase'[i] = "search"
  BY <1>2 DEF Moves, LockInv, StateTyped
<1>4. Add(i, rows)
  BY DEF FlushRootIdentity
<1>5. SessionTree(i)' /\ (\A s \in session'[i] : ~IsIdentity(s.row))
  BY <1>4, NoIdentityAdded, OtherRows
<1>6. key \in DOMAIN own'[i] \cup DOMAIN db
  <2>1. PICK s \in session[i] :
           /\ session[i] = {s}
           /\ s.row = IdentityRow(work[i].detail, <<>>, root[i])
           /\ s.dirty \/ s.row.key \in DOMAIN own[i] \cup DOMAIN db
    BY <1>2 DEF TreeInv, ProcessTree, RootSelected
  <2>2. s.row.key = key /\ s.row.turn = 0
    BY <2>1, IdentityRowParts DEF EntryAt
  <2>3. DOMAIN own'[i] = DOMAIN Table(Written(i)) \cup DOMAIN own[i]
    BY <1>1, WritesKeys DEF LockInv
  <2>4. CASE s.dirty
    <3>1. Last({q.row : q \in session[i]}) = {s.row}
      BY <2>1, <2>2 DEF Last
    <3>2. Written(i) = {s.row}
      BY <2>1, <2>4, <3>1 DEF Written
    <3>3. s.row.key \in DOMAIN Table(Written(i))
      <4>1. s.row \in Written(i) /\ (\A q \in Written(i) : q.key = s.row.key => q.turn <= s.row.turn)
        BY <2>2, <3>2
      <4> QED
        BY <4>1, TableOfDistinctRows
    <3> QED
      BY <2>2, <2>3, <3>3
  <2> QED
    BY <2>1, <2>2, <2>3, <2>4
<1>7. RootSelected(i)' /\ RootIdentified(i)'
  BY <1>1, <1>3, <1>5, <1>6 DEF RootSelected, RootIdentified, EntryAt
<1> QED
  BY <1>1, <1>2, <1>5, <1>7, FlushedTree, TreeWritingStep

LEMMA TreeRefresh ==
    ASSUME LockInv, TreeInv, NEW i \in Process, RefreshSearchDocuments(i)
    PROVE  TreeInv'
<1> DEFINE rows == {Row(DocumentKey(x), AliasesOf(x, Visible(i))) : x \in Documented(i)}
<1>1. Writes(i, rows) /\ UNCHANGED <<db, work, session, root>>
  BY DEF RefreshSearchDocuments, Writes
<1>2. Moves(i, "commit") /\ phase[i] = "search" /\ phase[i] \notin {Idle, "flush_item"}
  BY DEF RefreshSearchDocuments, At, Moves, LockInv, StateTyped, Phase, Idle
<1>3. phase'[i] = "commit"
  BY <1>2 DEF Moves, LockInv, StateTyped
<1>4. \A r \in rows : ~IsIdentity(r)
  BY DEF IsIdentity, Row, RowInTurn, DocumentKey
<1>5. SessionTree(i)'
  BY <1>1 DEF TreeInv, ProcessTree, SessionTree, OfItsTree
<1>6. DOMAIN own[i] \subseteq DOMAIN own'[i]
  BY <1>1, WritesKeys DEF LockInv
<1>7. RootSelected(i)'
  BY <1>3 DEF RootSelected
<1>8. RootIdentified(i)'
  BY <1>1, <1>2, <1>6 DEF TreeInv, ProcessTree, RootIdentified, EntryAt
<1> QED
  BY <1>1, <1>2, <1>4, <1>5, <1>7, <1>8, TreeWritingStep

\* A transaction that ends leaves nothing behind in its process.
LEMMA EndedTree ==
    ASSUME LockInv, NEW i \in Process, Ended(i)
    PROVE  /\ ProcessTree(i)'
           /\ \A k \in Process \ {i} :
                phase'[k] = phase[k] /\ work'[k] = work[k] /\ own'[k] = own[k]
                /\ session'[k] = session[k] /\ root'[k] = root[k]
<1>1. phase'[i] = Idle /\ own'[i] = <<>> /\ session'[i] = {}
  BY DEF Ended, LockInv, StateTyped
<1>2. OwnTree(i)'
  BY <1>1 DEF OwnTree, Identities
<1>3. SessionTree(i)' /\ RootKnown(i)' /\ RootSelected(i)' /\ RootIdentified(i)'
  BY <1>1 DEF SessionTree, RootKnown, RootSelected, RootIdentified, Idle
<1>4. ProcessTree(i)'
  BY <1>2, <1>3 DEF ProcessTree
<1>5. \A k \in Process \ {i} :
         phase'[k] = phase[k] /\ work'[k] = work[k] /\ own'[k] = own[k]
         /\ session'[k] = session[k] /\ root'[k] = root[k]
  BY DEF Ended, LockInv, StateTyped
<1> QED
  BY <1>4, <1>5

LEMMA TreeRollBack ==
    ASSUME LockInv, TreeInv, NEW i \in Process, Violate(i) \/ RollBack(i)
    PROVE  TreeInv'
<1>1. Ended(i) /\ UNCHANGED db
  BY DEF Violate, RollBack
<1>2. \A k \in Process \ {i} : ProcessTree(k)'
  BY <1>1, EndedTree, OthersKeepTree DEF TreeInv
<1>3. DbTree'
  BY <1>1 DEF TreeInv, DbTree
<1> QED
  BY <1>1, <1>2, <1>3, EndedTree DEF TreeInv

LEMMA CommittedKeys ==
    ASSUME NEW i, Commit(i)
    PROVE  DOMAIN db' = DOMAIN Table(Written(i)) \cup (DOMAIN own[i] \cup DOMAIN db)
<1>1. db' = Over(Table(Written(i)), Visible(i))
  BY DEF Commit
<1>2. DOMAIN Over(Table(Written(i)), Visible(i)) = DOMAIN Table(Written(i)) \cup DOMAIN Visible(i)
  BY OverKeys
<1>3. DOMAIN Visible(i) = DOMAIN own[i] \cup DOMAIN db
  BY OverKeys DEF Visible
<1> QED
  BY <1>1, <1>2, <1>3

\* The identities that a commit leaves: those of the transaction over those before.
LEMMA CommittedIdentities ==
    ASSUME LockInv, TreeInv, NEW i \in Process, Commit(i)
    PROVE  /\ Identities(db') = Identities(own[i]) \cup Identities(db)
           /\ \A k \in Identities(db') : db'[k] = IF k \in DOMAIN own[i] THEN own[i][k] ELSE db[k]
<1>1. db' = Over(Table(Written(i)), Over(own[i], db)) /\ phase[i] = "commit"
  BY DEF Commit, Visible
<1>2. \A k \in DOMAIN Table(Written(i)) : k[1] # "provider_identity"
  <2>1. \A s \in session[i] : ~IsIdentity(s.row)
    BY <1>1 DEF TreeInv, ProcessTree, RootIdentified
  <2>2. \A q \in Written(i) : ~IsIdentity(q)
    BY <2>1, WrittenIsInSession
  <2>3. \A k \in DOMAIN Table(Written(i)) : \E q \in Written(i) : q.key = k
    BY TableRows
  <2> QED
    BY <2>2, <2>3 DEF IsIdentity
<1>3. DOMAIN db' = DOMAIN Table(Written(i)) \cup (DOMAIN own[i] \cup DOMAIN db)
  BY CommittedKeys
<1>4. Identities(db') = Identities(own[i]) \cup Identities(db)
  BY <1>2, <1>3 DEF Identities
<1>5. \A k \in Identities(db') : db'[k] = IF k \in DOMAIN own[i] THEN own[i][k] ELSE db[k]
  BY <1>1, <1>2, <1>3 DEF Over, Identities
<1> QED
  BY <1>4, <1>5

LEMMA CommitKeepsIdentities ==
    ASSUME LockInv, TreeInv, NEW i \in Process, Commit(i), NEW k \in Identities(db)
    PROVE  k \in Identities(db') /\ db'[k] = db[k]
<1>1. k \in Identities(db') /\ db'[k] = IF k \in DOMAIN own[i] THEN own[i][k] ELSE db[k]
  BY CommittedIdentities
<1>2. CASE k \in DOMAIN own[i]
  <2>1. k \in Identities(own[i])
    BY <1>2 DEF Identities
  <2>2. k = IdentityKey(EntryAt(i), k[3]) /\ own[i][k] = EntityAt(root[i], k[3])
    BY <2>1 DEF TreeInv, ProcessTree, OwnTree
  <2>3. k[2] = EntryAt(i)
    BY <2>2, IdentityKeyParts
  <2>4. /\ IdentityKey(EntryAt(i), <<>>) \in DOMAIN db
        /\ db[k] = EntityAt(db[IdentityKey(EntryAt(i), <<>>)][1], k[3])
    BY <2>3 DEF TreeInv, DbTree
  <2>5. phase[i] \notin {Idle, "flush_item"}
    BY DEF Commit, Idle
  <2>6. db[IdentityKey(EntryAt(i), <<>>)][1] = root[i]
    BY <2>4, <2>5 DEF TreeInv, ProcessTree, RootKnown
  <2> QED
    BY <1>1, <1>2, <2>2, <2>4, <2>6
<1> QED
  BY <1>1, <1>2

LEMMA CommittedRoot ==
    ASSUME LockInv, TreeInv, NEW i \in Process, Commit(i)
    PROVE  /\ IdentityKey(EntryAt(i), <<>>) \in Identities(db')
           /\ db'[IdentityKey(EntryAt(i), <<>>)][1] = root[i]
<1> DEFINE rootKey == IdentityKey(EntryAt(i), <<>>)
<1>1. phase[i] = "commit"
  BY DEF Commit
<1>2. /\ Identities(db') = Identities(own[i]) \cup Identities(db)
      /\ \A k \in Identities(db') : db'[k] = IF k \in DOMAIN own[i] THEN own[i][k] ELSE db[k]
  BY CommittedIdentities
<1>3. rootKey \in DOMAIN own[i] \cup DOMAIN db
  BY <1>1 DEF TreeInv, ProcessTree, RootIdentified
<1>4. rootKey[1] = "provider_identity" /\ rootKey[3] = <<>>
  BY IdentityKeyParts
<1>5. rootKey \in Identities(db')
  BY <1>2, <1>3, <1>4 DEF Identities
<1>6. CASE rootKey \in DOMAIN own[i]
  <2>1. own[i][rootKey] = EntityAt(root[i], <<>>)
    BY <1>4, <1>6 DEF TreeInv, ProcessTree, OwnTree, Identities
  <2> QED
    BY <1>2, <1>5, <1>6, <2>1, RootEntity
<1>7. CASE rootKey \notin DOMAIN own[i]
  <2>1. db[rootKey][1] = root[i]
    BY <1>1, <1>3, <1>7 DEF TreeInv, ProcessTree, RootKnown, Idle
  <2> QED
    BY <1>2, <1>5, <1>7, <2>1
<1> QED
  BY <1>5, <1>6, <1>7

LEMMA TreeCommit ==
    ASSUME LockInv, TreeInv, NEW i \in Process, Commit(i)
    PROVE  TreeInv'
<1> DEFINE rootKey == IdentityKey(EntryAt(i), <<>>)
<1>1. Ended(i) /\ phase[i] = "commit"
  BY DEF Commit
<1>2. /\ Identities(db') = Identities(own[i]) \cup Identities(db)
      /\ \A k \in Identities(db') : db'[k] = IF k \in DOMAIN own[i] THEN own[i][k] ELSE db[k]
  BY CommittedIdentities
<1>3. rootKey \in Identities(db') /\ db'[rootKey][1] = root[i]
  BY CommittedRoot
<1>4. DbTree'
  <2> SUFFICES ASSUME NEW k \in Identities(db')
               PROVE  /\ k = IdentityKey(k[2], k[3])
                      /\ IdentityKey(k[2], <<>>) \in DOMAIN db'
                      /\ db'[k] = EntityAt(db'[IdentityKey(k[2], <<>>)][1], k[3])
    BY DEF DbTree
  <2>1. CASE k \in Identities(own[i])
    <3>1. k = IdentityKey(EntryAt(i), k[3]) /\ own[i][k] = EntityAt(root[i], k[3])
      BY <2>1 DEF TreeInv, ProcessTree, OwnTree
    <3>2. k[2] = EntryAt(i)
      BY <3>1, IdentityKeyParts
    <3>3. db'[k] = EntityAt(root[i], k[3])
      BY <1>2, <2>1, <3>1 DEF Identities
    <3>4. rootKey \in DOMAIN db'
      BY <1>3 DEF Identities
    <3> QED
      BY <1>3, <3>1, <3>2, <3>3, <3>4
  <2>2. CASE k \in Identities(db)
    <3>1. /\ k = IdentityKey(k[2], k[3])
          /\ IdentityKey(k[2], <<>>) \in DOMAIN db
          /\ db[k] = EntityAt(db[IdentityKey(k[2], <<>>)][1], k[3])
      BY <2>2 DEF TreeInv, DbTree
    <3>2. IdentityKey(k[2], <<>>) \in Identities(db)
      BY <3>1, IdentityKeyParts DEF Identities
    <3>3. db'[k] = db[k]
      BY <2>2, CommitKeepsIdentities
    <3>4. /\ IdentityKey(k[2], <<>>) \in Identities(db')
          /\ db'[IdentityKey(k[2], <<>>)] = db[IdentityKey(k[2], <<>>)]
      BY <3>2, CommitKeepsIdentities
    <3> QED
      BY <3>1, <3>3, <3>4 DEF Identities
  <2> QED
    BY <1>2, <2>1, <2>2
<1>5. ASSUME NEW k \in Process \ {i} PROVE ProcessTree(k)'
  <2>1. phase'[k] = phase[k] /\ work'[k] = work[k] /\ own'[k] = own[k]
        /\ session'[k] = session[k] /\ root'[k] = root[k]
    BY <1>1, <1>5, EndedTree
  <2>2. ProcessTree(k)
    BY <1>5 DEF TreeInv
  <2>3. OwnTree(k)' /\ SessionTree(k)'
    BY <2>1, <2>2 DEF ProcessTree, OwnTree, SessionTree, EntryAt, OfItsTree
  <2>4. DOMAIN db \subseteq DOMAIN db'
    BY CommittedKeys
  <2>5. RootSelected(k)' /\ RootIdentified(k)'
    BY <2>1, <2>2, <2>4 DEF ProcessTree, RootSelected, RootIdentified, EntryAt
  <2>6. RootKnown(k)'
    <3> DEFINE key == IdentityKey(EntryAt(k), <<>>)
    <3> SUFFICES ASSUME phase[k] \notin {Idle, "flush_item"}, key \in DOMAIN db'
                 PROVE  db'[key][1] = root[k]
      BY <2>1 DEF RootKnown, EntryAt
    <3>1. EntryAt(k) # EntryAt(i)
      <4>1. ItemKey(EntryAt(k)) \in DOMAIN own[k] /\ ItemKey(EntryAt(i)) \in DOMAIN own[i]
        BY <1>1, <1>5 DEF LockInv, Locked, EntryAt, Idle
      <4> QED
        BY <1>5, <4>1 DEF LockInv, Disjoint
    <3>2. key[1] = "provider_identity" /\ key[2] = EntryAt(k)
      BY IdentityKeyParts
    <3>3. key \in Identities(db')
      BY <3>2 DEF Identities
    <3>4. key \notin DOMAIN own[i]
      <4>1. \A q \in Identities(own[i]) : q[2] = EntryAt(i)
        BY IdentityKeyParts DEF TreeInv, ProcessTree, OwnTree
      <4> QED
        BY <3>1, <3>2, <4>1 DEF Identities
    <3>5. key \in Identities(db) /\ db'[key] = db[key]
      BY <1>2, <3>3, <3>4 DEF Identities
    <3> QED
      BY <2>2, <3>5 DEF ProcessTree, RootKnown, Identities
  <2> QED
    BY <2>3, <2>5, <2>6 DEF ProcessTree
<1> QED
  BY <1>1, <1>4, <1>5, EndedTree DEF TreeInv

LegacyOfFolder(l, f) ==
    {ItemRow(l.said[f])} \cup LegacyFileRows(l.said[f], l.files[f]) \cup LegacyImageRows(l.said[f], f)

\* The migration gives an identity to roots only.
LEMMA BackfilledIdentities ==
    ASSUME NEW l, NEW rootOf, NEW k \in Identities(Migrated(l, rootOf))
    PROVE  \E f \in DOMAIN l.said : /\ k = IdentityKey(l.said[f].entry, <<>>)
                              /\ Migrated(l, rootOf)[k] = <<rootOf[l.said[f].entry]>>
<1> DEFINE rows == LegacyTables(l) \cup
                   UNION {BackfilledEntities(l.said[f], l.files[f], rootOf[l.said[f].entry])
                          \cup BackfilledRows(l.said[f], f, l.files[f], rootOf[l.said[f].entry]) : f \in DOMAIN l.said}
<1>1. PICK r \in rows : r.key = k /\ Migrated(l, rootOf)[k] = r.value
  <2>1. k \in DOMAIN Table(rows)
    BY DEF Identities, Migrated
  <2> QED
    BY <2>1, TableRows DEF Migrated
<1>2. IsIdentity(r)
  BY <1>1 DEF IsIdentity, Identities
<1>3. r \notin LegacyTables(l)
  <2>1. ASSUME NEW f \in DOMAIN l.said, r \in LegacyOfFolder(l, f) PROVE FALSE
    BY <1>2, <2>1, OtherRows DEF LegacyOfFolder
  <2> QED
    BY <2>1 DEF LegacyTables, LegacyOfFolder
<1>4. PICK f \in DOMAIN l.said :
         r \in BackfilledEntities(l.said[f], l.files[f], rootOf[l.said[f].entry]) \cup BackfilledRows(l.said[f], f, l.files[f], rootOf[l.said[f].entry])
  BY <1>3
<1> DEFINE e == l.said[f].entry
<1>5. r \notin BackfilledEntities(l.said[f], l.files[f], rootOf[e])
  BY <1>2 DEF BackfilledEntities, IsIdentity, Row, RowInTurn, EntityKey
<1>6. r = Row(IdentityKey(e, <<>>), <<rootOf[e]>>)
  BY <1>2, <1>4, <1>5 DEF BackfilledRows, IsIdentity, Row, RowInTurn, AliasKey, FileKey, AssetKey
<1>7. r.key = IdentityKey(e, <<>>) /\ r.value = <<rootOf[e]>>
  BY <1>6 DEF Row, RowInTurn
<1> QED
  BY <1>1, <1>7

LEMMA DocumentsAreAdded ==
    ASSUME NEW table, NEW k, k[1] # "search_document"
    PROVE  /\ k \in DOMAIN WithDocuments(table) <=> k \in DOMAIN table
           /\ k \in DOMAIN table => WithDocuments(table)[k] = table[k]
<1> DEFINE rows == {Row(DocumentKey(x), AliasesOf(x, table)) : x \in Entities(table)}
<1>1. WithDocuments(table) = Over(Table(rows), table)
  BY DEF WithDocuments
<1>2. k \notin DOMAIN Table(rows)
  <2>1. \A r \in rows : r.key[1] = "search_document"
    BY DEF Row, RowInTurn, DocumentKey
  <2>2. \A m \in DOMAIN Table(rows) : \E r \in rows : r.key = m
    BY TableRows
  <2> QED
    BY <2>1, <2>2
<1>3. DOMAIN WithDocuments(table) = DOMAIN Table(rows) \cup DOMAIN table
  BY <1>1, OverKeys
<1> QED
  BY <1>1, <1>2, <1>3 DEF Over

LEMMA DocumentedIdentities ==
    ASSUME NEW table
    PROVE  /\ Identities(WithDocuments(table)) = Identities(table)
           /\ \A k \in Identities(table) : WithDocuments(table)[k] = table[k]
<1>1. \A k : k[1] = "provider_identity" => k[1] # "search_document"
  OBVIOUS
<1> QED
  BY <1>1, DocumentsAreAdded DEF Identities

LEMMA TreeInit == Init => TreeInv
<1> SUFFICES ASSUME Init PROVE TreeInv
  OBVIOUS
<1>1. PICK l \in Legacy : db = WithDocuments(Migrated(l, LegacyRoot))
  BY DEF Init
<1>2. DbTree
  <2> SUFFICES ASSUME NEW k \in Identities(db)
               PROVE  /\ k = IdentityKey(k[2], k[3])
                      /\ IdentityKey(k[2], <<>>) \in DOMAIN db
                      /\ db[k] = EntityAt(db[IdentityKey(k[2], <<>>)][1], k[3])
    BY DEF DbTree
  <2>1. k \in Identities(Migrated(l, LegacyRoot)) /\ db[k] = Migrated(l, LegacyRoot)[k]
    BY <1>1, DocumentedIdentities
  <2>2. PICK f \in DOMAIN l.said : k = IdentityKey(l.said[f].entry, <<>>) /\ db[k] = <<LegacyRoot[l.said[f].entry]>>
    BY <2>1, BackfilledIdentities
  <2>3. k[2] = l.said[f].entry /\ k[3] = <<>>
    BY <2>2, IdentityKeyParts
  <2>4. k \in DOMAIN db
    BY DEF Identities
  <2>5. db[k] = EntityAt(db[k][1], <<>>)
    BY <2>2 DEF EntityAt
  <2> QED
    BY <2>2, <2>3, <2>4, <2>5
<1>3. \A i \in Process : phase[i] = Idle /\ own[i] = <<>> /\ session[i] = {}
  BY DEF Init
<1>4. ASSUME NEW i \in Process PROVE ProcessTree(i)
  BY <1>3 DEF ProcessTree, OwnTree, Identities, SessionTree, RootKnown, RootSelected, RootIdentified, Idle
<1> QED
  BY <1>2, <1>4 DEF TreeInv

LEMMA TreeStep == LockInv /\ TreeInv /\ [Next]_vars => TreeInv'
<1> SUFFICES ASSUME LockInv, TreeInv, [Next]_vars PROVE TreeInv'
  OBVIOUS
<1>1. CASE UNCHANGED vars
  <2>1. UNCHANGED <<db, phase, work, own, session, root>>
    BY <1>1 DEF vars
  <2>2. \A k \in Process : ProcessTree(k)'
    BY <2>1, OthersKeepTree DEF TreeInv
  <2> QED
    BY <2>1, <2>2 DEF TreeInv, DbTree
<1>2. CASE Next
  BY <1>2, TreeBegin, TreeFlushMediaItem, TreeSelectFile, TreeFlushRoot, TreeSelectChild, TreeFlushChild,
     TreeSelectRootIdentity, TreeFlushRootIdentity, TreeRefresh, TreeCommit, TreeRollBack DEF Next
<1> QED
  BY <1>1, <1>2

\* The identities in the database and in every transaction make one tree for each
\* entry: the inductive invariant of identities.
THEOREM TreeInvariant == Spec => [](LockInv /\ TreeInv)
<1>1. Init => LockInv /\ TreeInv
  BY LockInit, TreeInit
<1>2. LockInv /\ TreeInv /\ [Next]_vars => LockInv' /\ TreeInv'
  BY LockStep, TreeStep
<1> QED
  BY <1>1, <1>2, PTL DEF Spec

\* The entity of an identity never changes, whatever number of processes ingests
\* and whatever the migration has left behind.
THEOREM StableIdentities == Spec => IdentityIsStable
<1>1. LockInv /\ TreeInv /\ [Next]_vars => (\A k \in Identities(db) : db'[k] = db[k])
  <2> SUFFICES ASSUME LockInv, TreeInv, [Next]_vars, NEW k \in Identities(db)
               PROVE  db'[k] = db[k]
    OBVIOUS
  <2>1. CASE UNCHANGED db
    BY <2>1
  <2>2. CASE \E i \in Process : Commit(i)
    BY <2>2, CommitKeepsIdentities
  <2>3. UNCHANGED db \/ (\E i \in Process : Commit(i))
    BY DEF Next, vars, Begin, FlushMediaItem, SelectFile, FlushRoot, SelectChild, FlushChild, FlushChildIdentity,
       SelectRootIdentity, FlushRootIdentity, RefreshSearchDocuments, Violate, RollBack
  <2> QED
    BY <2>1, <2>2, <2>3
<1> QED
  BY <1>1, TreeInvariant, PTL DEF Spec, IdentityIsStable
=============================================================================
