------------------------ MODULE CatalogEntityProofs ------------------------
(***************************************************************************)
(* Entities and their identities, for any number of processes, provider    *)
(* answers, folders and migrated databases.                                *)
(*                                                                         *)
(* Roots have no unique constraint.  That no ingest makes a second tree    *)
(* for an entry, and none leaves an entity without its identity, rests on  *)
(* the lock of the entry (CatalogProofs), on roots that are fresh or known *)
(* (DbRoots, OwnRoot), and on the order of the flushes: an identity is     *)
(* written after its entity, and no entity is committed before its         *)
(* identity (OwnEntities).                                                 *)
(*                                                                         *)
(* Search documents rest on all of it: a transaction that has refreshed    *)
(* its documents is alone with their entities, so no alias of theirs is    *)
(* committed before it commits (SearchRows).                               *)
(***************************************************************************)
EXTENDS CatalogProofs, SequenceTheorems

Working(i) == phase[i] \notin {Idle, "flush_item"}

RootOf(e, table) == table[IdentityKey(e, <<>>)][1]

HasEntity(x, table) == EntityKey(x) \in DOMAIN table

-----------------------------------------------------------------------------
(* The invariant. *)

WorkTyped ==
    /\ done = [i \in Process |-> done[i]]
    /\ child = [i \in Process |-> child[i]]
    /\ \A i \in Process :
        /\ phase[i] # Idle => work[i].detail \in Detail
        /\ done[i] \subseteq Node
        /\ phase[i] \in {"flush_child", "flush_child_identity"} => child[i] \in Node

KeysShaped(table) ==
    /\ \A k \in DOMAIN table : k[1] = "media_entity" => k = EntityKey(k[2])
    /\ \A k \in Identities(table) : k[3] \in Node

\* Entries have roots of their own, in the database and in the transactions.
DbRoots ==
    \A k, m \in Identities(db) : RootOf(k[2], db) = RootOf(m[2], db) => k[2] = m[2]

OwnRoot(i) ==
    Working(i) =>
        /\ \A k \in Identities(db) : RootOf(k[2], db) = root[i] => k[2] = EntryAt(i)
        /\ \A k \in Process : Working(k) /\ root[k] = root[i] => k = i

\* Identities have their entities.
DbEntities == \A k \in Identities(db) : HasEntity(db[k], db)

\* Entities have their identities, except for children that the migration made.
DbIdentified ==
    \A k \in DOMAIN db : k[1] = "media_entity" =>
        \/ \E m \in Identities(db) : db[m] = k[2]
        \/ Len(k[2]) > 1 /\ db[k] = "backfilled"

\* The node whose entity is flushed and whose identity is not.
Pending(i) == IF phase[i] = "flush_child_identity" THEN {child[i]} ELSE {}

Nodes(i) == {<<>>} \cup done[i] \cup Pending(i)

OwnEntities(i) ==
    /\ KeysShaped(own[i])
    /\ \A k \in Identities(own[i]) : HasEntity(own[i][k], own[i])
    /\ \A k \in DOMAIN own[i] :
        k[1] = "media_entity" => \E n \in Nodes(i) : k[2] = EntityAt(root[i], n)
    /\ \A n \in done[i] : IdentityKey(EntryAt(i), n) \in DOMAIN own[i] \cup DOMAIN db
    /\ phase[i] \notin {Idle, "flush_item", "flush_root"} =>
        \A n \in {<<>>} \cup Pending(i) : HasEntity(EntityAt(root[i], n), own[i])
    /\ phase[i] \in {Idle, "flush_item", "flush_root"} => done[i] = {}

IsEntity(r) == r.key[1] = "media_entity"

\* What the session holds at each statement.
SessionRows(i) ==
    /\ \A s \in session[i] : IsIdentity(s.row) =>
        \/ phase[i] = "flush_child_identity" /\ s.row = IdentityRow(work[i].detail, child[i], root[i])
        \/ phase[i] = "flush_root_identity" /\ s.row = IdentityRow(work[i].detail, <<>>, root[i])
    /\ \A s \in session[i] : IsEntity(s.row) =>
        \/ phase[i] = "flush_root" /\ s.row = EntityRow(<<>>, root[i])
        \/ phase[i] = "flush_child" /\ s.row = EntityRow(child[i], root[i])
    /\ phase[i] = "flush_root" => EntityRow(<<>>, root[i]) \in Written(i)
    /\ phase[i] = "flush_child" => EntityRow(child[i], root[i]) \in Written(i)
    /\ phase[i] = "flush_child_identity" =>
        \/ IdentityRow(work[i].detail, child[i], root[i]) \in Written(i)
        \/ IdentityKey(EntryAt(i), child[i]) \in DOMAIN own[i] \cup DOMAIN db

ProcessEntities(i) == OwnRoot(i) /\ OwnEntities(i) /\ SessionRows(i)

EntityInv ==
    /\ WorkTyped
    /\ KeysShaped(db)
    /\ DbRoots
    /\ DbEntities
    /\ DbIdentified
    /\ \A i \in Process : ProcessEntities(i)

-----------------------------------------------------------------------------
(* Names. *)

LEMMA EntityAtRoot == ASSUME NEW r PROVE EntityAt(r, <<>>) = <<r>>
  BY DEF EntityAt

LEMMA EntityAtLen ==
    ASSUME NEW r, NEW n \in Node
    PROVE  Len(EntityAt(r, n)) = 1 + Len(n)
  BY DEF EntityAt, Node

LEMMA EntityAtInjective ==
    ASSUME NEW r, NEW s, NEW n \in Node, NEW m \in Node, EntityAt(r, n) = EntityAt(s, m)
    PROVE  r = s /\ n = m
<1>1. n \in Seq(Nat) /\ m \in Seq(Nat)
  BY DEF Node
<1> DEFINE S == Nat \cup {r, s}
<1>2. <<r>> \in Seq(S) /\ <<s>> \in Seq(S) /\ n \in Seq(S) /\ m \in Seq(S)
  <2>1. r \in S /\ s \in S /\ Nat \subseteq S
    OBVIOUS
  <2> HIDE DEF S
  <2>2. <<r>> \in Seq(S) /\ <<s>> \in Seq(S)
    BY <2>1
  <2>3. n \in Seq(S) /\ m \in Seq(S)
    BY <1>1, <2>1
  <2> QED
    BY <2>2, <2>3
<1>3. Len(<<r>> \o n) = 1 + Len(n) /\ Len(<<s>> \o m) = 1 + Len(m)
  BY <1>2
<1>4. Len(n) = Len(m) /\ Len(n) \in Nat
  BY <1>1, <1>3 DEF EntityAt
<1>5. (<<r>> \o n)[1] = r /\ (<<s>> \o m)[1] = s
  BY <1>2
<1>6. ASSUME NEW j \in 1..Len(n) PROVE n[j] = m[j]
  <2>1. (<<r>> \o n)[j + 1] = n[j]
    BY <1>2, <1>4
  <2>2. (<<s>> \o m)[j + 1] = m[j]
    BY <1>2, <1>4
  <2> QED
    BY <2>1, <2>2 DEF EntityAt
<1>7. n = m
  BY <1>1, <1>4, <1>6, SeqEqual
<1> QED
  BY <1>5, <1>7 DEF EntityAt

LEMMA EntityKeyParts ==
    ASSUME NEW x
    PROVE  EntityKey(x)[1] = "media_entity" /\ EntityKey(x)[2] = x
  BY DEF EntityKey

LEMMA EntityRowParts ==
    ASSUME NEW n, NEW r
    PROVE  /\ EntityRow(n, r).key = EntityKey(EntityAt(r, n))
           /\ EntityRow(n, r).turn = 0
           /\ IsEntity(EntityRow(n, r)) /\ ~IsIdentity(EntityRow(n, r))
  BY DEF EntityRow, Row, RowInTurn, IsEntity, IsIdentity, EntityKey

LEMMA OtherRowsOfEntities ==
    ASSUME NEW d, NEW f, NEW r, NEW n, NEW videos
    PROVE  /\ ~IsEntity(ItemRow(d))
           /\ ~IsEntity(IdentityRow(d, n, r))
           /\ \A q \in LegacyFileRows(d, videos) \cup LegacyImageRows(d, f) : ~IsEntity(q)
           /\ \A q \in EntryRows(d, f, r) : ~IsEntity(q)
<1> USE DEF IsEntity, Row, RowInTurn
<1>1. ~IsEntity(ItemRow(d)) /\ ~IsEntity(IdentityRow(d, n, r))
  BY DEF ItemRow, ItemKey, IdentityRow, IdentityKey
<1>2. \A q \in LegacyFileRows(d, videos) \cup LegacyImageRows(d, f) : ~IsEntity(q)
  BY DEF LegacyFileRows, LegacyImageRows, LegacyFileKey, ImageKey
<1>3. \A q \in AliasRows(d, f, r) : ~IsEntity(q)
  BY DEF AliasRows, AliasKey
<1>5. \A q \in ProviderAssetRows(d, f, r) : ~IsEntity(q)
  BY DEF ProviderAssetRows, AssetKey
<1>6. \A q \in LocalAssetRows(d, f, r) : ~IsEntity(q)
  BY DEF LocalAssetRows, AssetKey
<1> QED
  BY <1>1, <1>2, <1>3, <1>5, <1>6 DEF EntryRows

\* The invariant says what EntitiesAreIdentified says.
LEMMA EntityInvImplies ==
    ASSUME TreeInv, EntityInv PROVE EntitiesAreIdentified
<1>1. \A x \in Entities(db) : EntityKey(x) \in DOMAIN db
  BY DEF Entities, EntityInv, KeysShaped
<1>2. ASSUME NEW x \in Entities(db) \ {db[k] : k \in Identities(db)}
      PROVE  Len(x) > 1 /\ db[EntityKey(x)] = "backfilled"
  BY <1>1, EntityKeyParts DEF EntityInv, DbIdentified
<1>3. \A k \in Identities(db) : db[k] \in Entities(db)
  BY EntityKeyParts DEF EntityInv, DbEntities, HasEntity, Entities
<1>4. \A k \in Identities(db) : db[k] = EntityAt(db[IdentityKey(k[2], <<>>)][1], k[3])
  BY DEF TreeInv, DbTree
<1>5. ASSUME NEW k \in Identities(db), NEW m \in Identities(db), db[k] = db[m]
      PROVE  k = m
  <2>1. k[3] \in Node /\ m[3] \in Node
    BY DEF EntityInv, KeysShaped
  <2>2. k = IdentityKey(k[2], k[3]) /\ m = IdentityKey(m[2], m[3])
    BY DEF TreeInv, DbTree
  <2>3. RootOf(k[2], db) = RootOf(m[2], db) /\ k[3] = m[3]
    BY <1>4, <1>5, <2>1, EntityAtInjective DEF RootOf
  <2>4. k[2] = m[2]
    BY <2>2, <2>3 DEF EntityInv, DbRoots
  <2> QED
    BY <2>2, <2>3, <2>4
<1> QED
  BY <1>2, <1>3, <1>4, <1>5 DEF EntitiesAreIdentified

-----------------------------------------------------------------------------
(* What a step leaves alone. *)

Same(k) ==
    /\ phase'[k] = phase[k] /\ work'[k] = work[k] /\ own'[k] = own[k]
    /\ session'[k] = session[k] /\ root'[k] = root[k] /\ done'[k] = done[k] /\ child'[k] = child[k]

LEMMA OthersKeepEntities ==
    ASSUME NEW k \in Process, Same(k), DOMAIN db \subseteq DOMAIN db', OwnEntities(k), SessionRows(k)
    PROVE  OwnEntities(k)' /\ SessionRows(k)'
<1>1. Written(k)' = Written(k)
  BY DEF Same, Written
<1>2. Nodes(k)' = Nodes(k) /\ Pending(k)' = Pending(k)
  BY DEF Same, Nodes, Pending
<1>3. OwnEntities(k)'
  BY <1>2 DEF Same, OwnEntities, KeysShaped, Identities, HasEntity, EntryAt
<1>4. SessionRows(k)'
  BY <1>1 DEF Same, SessionRows, EntryAt
<1> QED
  BY <1>3, <1>4

LEMMA DatabaseKept ==
    ASSUME EntityInv, UNCHANGED db
    PROVE  KeysShaped(db') /\ DbRoots' /\ DbEntities' /\ DbIdentified'
  BY DEF EntityInv, DbRoots, DbEntities, DbIdentified

\* Roots are chosen at the first flush only.
LEMMA RootsKept ==
    ASSUME EntityInv, UNCHANGED db,
           \A k \in Process : Working(k)' => Working(k) /\ root'[k] = root[k] /\ work'[k] = work[k]
    PROVE  \A k \in Process : OwnRoot(k)'
<1> TAKE k \in Process
<1>1. OwnRoot(k)
  BY DEF EntityInv, ProcessEntities
<1>2. SUFFICES ASSUME Working(k)'
               PROVE  /\ \A m \in Identities(db) : RootOf(m[2], db) = root'[k] => m[2] = EntryAt(k)'
                      /\ \A j \in Process : Working(j)' /\ root'[j] = root'[k] => j = k
  BY DEF OwnRoot
<1>3. Working(k) /\ root'[k] = root[k] /\ EntryAt(k)' = EntryAt(k)
  BY <1>2 DEF EntryAt
<1> QED
  BY <1>1, <1>3 DEF OwnRoot

\* What a transaction has written when it has written some rows more.
LEMMA OwnEntitiesGrow ==
    ASSUME StateTyped, NEW i \in Process, NEW rows, Writes(i, rows), OwnEntities(i),
           root'[i] = root[i], Nodes(i) \subseteq Nodes(i)',
           \A r \in rows : IsEntity(r) =>
                \E n \in Nodes(i)' : r.key = EntityKey(EntityAt(root[i], n)),
           \A r \in rows : IsIdentity(r) =>
                \E n \in Node : r = IdentityRow(work[i].detail, n, root[i])
                                /\ HasEntity(EntityAt(root[i], n), own[i])
    PROVE  /\ KeysShaped(own'[i])
           /\ \A k \in Identities(own'[i]) : HasEntity(own'[i][k], own'[i])
           /\ \A k \in DOMAIN own'[i] :
                k[1] = "media_entity" => \E n \in Nodes(i)' : k[2] = EntityAt(root'[i], n)
           /\ DOMAIN own[i] \subseteq DOMAIN own'[i]
<1>1. own'[i] = Over(Table(rows), own[i])
  BY DEF Writes, StateTyped
<1>2. DOMAIN own'[i] = DOMAIN Table(rows) \cup DOMAIN own[i]
  BY WritesKeys
<1>3. \A k \in DOMAIN Table(rows) : \E r \in rows : r.key = k /\ Table(rows)[k] = r.value
  BY TableRows
<1>4. ASSUME NEW k \in DOMAIN own'[i], k[1] = "media_entity"
      PROVE  k = EntityKey(k[2]) /\ (\E n \in Nodes(i)' : k[2] = EntityAt(root'[i], n))
  <2>1. CASE k \in DOMAIN Table(rows)
    <3>1. PICK r \in rows : r.key = k
      BY <1>3, <2>1
    <3>2. PICK n \in Nodes(i)' : k = EntityKey(EntityAt(root[i], n))
      BY <1>4, <3>1 DEF IsEntity
    <3> QED
      BY <3>2, EntityKeyParts
  <2>2. CASE k \in DOMAIN own[i]
    BY <1>4, <2>2 DEF OwnEntities, KeysShaped
  <2> QED
    BY <1>2, <2>1, <2>2
<1>5. ASSUME NEW k \in Identities(own'[i])
      PROVE  k[3] \in Node /\ HasEntity(own'[i][k], own'[i])
  <2>1. k \in DOMAIN own'[i] /\ k[1] = "provider_identity"
    BY DEF Identities
  <2>2. CASE k \in DOMAIN Table(rows)
    <3>1. PICK r \in rows : r.key = k /\ Table(rows)[k] = r.value
      BY <1>3, <2>2
    <3>2. PICK n \in Node : /\ r = IdentityRow(work[i].detail, n, root[i])
                            /\ HasEntity(EntityAt(root[i], n), own[i])
      BY <2>1, <3>1 DEF IsIdentity
    <3>3. own'[i][k] = EntityAt(root[i], n) /\ k[3] = n
      BY <1>1, <2>2, <3>1, <3>2, IdentityRowParts, IdentityKeyParts DEF Over
    <3> QED
      BY <1>2, <3>2, <3>3 DEF HasEntity
  <2>3. CASE k \notin DOMAIN Table(rows)
    <3>1. k \in Identities(own[i]) /\ own'[i][k] = own[i][k]
      BY <1>1, <1>2, <2>1, <2>3 DEF Over, Identities
    <3>2. k[3] \in Node /\ HasEntity(own[i][k], own[i])
      BY <3>1 DEF OwnEntities, KeysShaped
    <3> QED
      BY <1>2, <3>1, <3>2 DEF HasEntity
  <2> QED
    BY <2>2, <2>3
<1>6. KeysShaped(own'[i])
  BY <1>4, <1>5 DEF KeysShaped
<1> QED
  BY <1>2, <1>4, <1>5, <1>6

\* A session whose rows come in no turns is written as far as it is dirty.
LEMMA SelectedIsWritten ==
    ASSUME LockInv, NEW i \in Process, NEW rows, Add(i, rows), \A r \in rows : r.turn = 0,
           NEW r \in rows, Rewritten(r) \/ r.key \notin DOMAIN own[i] \cup DOMAIN db
    PROVE  r \in Written(i)'
<1>1. session'[i] = Selected(i, rows) /\ (\A s \in session'[i] : s.row \in rows)
  BY Added
<1>2. PICK s \in Selected(i, rows) : s.row = r /\ s.dirty
  <2>1. CASE r.key \notin DOMAIN own[i] \cup DOMAIN db
    BY <2>1, SelectedRows
  <2>2. CASE Rewritten(r)
    <3> DEFINE kept == [row |-> r, found |-> Found(i, r),
                        dirty |-> \/ Rewritten(r)
                                  \/ Found(i, r) => Visible(i)[r.key] # r.value]
    <3>1. kept \in Selected(i, rows)
      BY DEF Selected
    <3> QED
      BY <2>2, <3>1
  <2> QED
    BY <2>1, <2>2
<1>3. r \in Last({q.row : q \in session'[i]})
  BY <1>1, <1>2 DEF Last
<1> QED
  BY <1>1, <1>2, <1>3 DEF Written

LEMMA TurnlessRows ==
    ASSUME NEW d, NEW f, NEW n, NEW r, NEW videos
    PROVE  /\ ItemRow(d).turn = 0 /\ EntityRow(n, r).turn = 0 /\ IdentityRow(d, n, r).turn = 0
           /\ \A q \in LegacyFileRows(d, videos) \cup LegacyImageRows(d, f) : q.turn = 0
  BY DEF ItemRow, EntityRow, IdentityRow, LegacyFileRows, LegacyImageRows, Row, RowInTurn

\* What is written is written still when a row of another key is selected.
LEMMA WrittenKept ==
    ASSUME LockInv, NEW i \in Process, NEW q, session'[i] = session[i] \cup Selected(i, {q}),
           NEW r \in Written(i), r.key # q.key
    PROVE  r \in Written(i)'
<1>1. PICK s \in session[i] : s.dirty /\ s.row = r /\ s.row \in Last({x.row : x \in session[i]})
  BY DEF Written
<1>2. \A x \in session'[i] : x \in session[i] \/ x.row = q
  BY SelectedRows
<1>3. s \in session'[i]
  BY <1>1
<1>4. \A x \in {y.row : y \in session'[i]} : x.key = r.key => x.turn <= r.turn
  BY <1>1, <1>2 DEF Last
<1>5. r \in Last({y.row : y \in session'[i]})
  BY <1>1, <1>3, <1>4 DEF Last
<1> QED
  BY <1>1, <1>3, <1>5 DEF Written

LEMMA EntityIsRewritten == ASSUME NEW n, NEW r PROVE Rewritten(EntityRow(n, r))
  BY DEF Rewritten, EntityRow, Row, RowInTurn, EntityKey

\* What is written is in the table that a transaction writes.
LEMMA WrittenKey ==
    ASSUME LockInv, NEW i \in Process, Writes(i, Written(i)), NEW r \in Written(i), r.turn = 0
    PROVE  r.key \in DOMAIN own'[i]
<1>1. r \in Last({s.row : s \in session[i]}) /\ Written(i) \subseteq {s.row : s \in session[i]}
  BY DEF Written
<1>2. \A q \in Written(i) : q.key = r.key => q.turn <= r.turn
  BY <1>1 DEF Last
<1>3. r.key \in DOMAIN Table(Written(i))
  BY <1>2, TableOfDistinctRows
<1> QED
  BY <1>3, WritesKeys DEF LockInv

-----------------------------------------------------------------------------
(* The statements of a transaction. *)

\* A statement of process i that commits nothing and keeps its root.
LEMMA EntityStep ==
    ASSUME LockInv, EntityInv, NEW i \in Process, NEW next, Moves(i, next),
           phase[i] \notin {Idle, "flush_item"}, UNCHANGED <<db, root>>,
           \A k \in Process \ {i} : own'[k] = own[k] /\ done'[k] = done[k] /\ child'[k] = child[k],
           WorkTyped', OwnEntities(i)', SessionRows(i)'
    PROVE  EntityInv'
<1>1. \A k \in Process \ {i} : Same(k)
  BY DEF Same, Moves, LockInv, StateTyped
<1>2. \A k \in Process \ {i} : OwnEntities(k)' /\ SessionRows(k)'
  BY <1>1, OthersKeepEntities DEF EntityInv, ProcessEntities
<1>3. \A k \in Process : OwnRoot(k)'
  <2>1. \A k \in Process : Working(k)' => Working(k)
    BY <1>1 DEF Working, Same
  <2> QED
    BY <2>1, RootsKept DEF Moves
<1> QED
  BY <1>2, <1>3, DatabaseKept DEF EntityInv, ProcessEntities

\* done and child of the other processes stay, and those of i become as given.
LEMMA Typed ==
    ASSUME LockInv, EntityInv, NEW i \in Process,
           done' = [k \in Process |-> done'[k]], child' = [k \in Process |-> child'[k]],
           done'[i] \subseteq Node,
           phase'[i] \in {"flush_child", "flush_child_identity"} => child'[i] \in Node,
           phase'[i] # Idle => work'[i].detail \in Detail,
           \A k \in Process \ {i} :
               phase'[k] = phase[k] /\ work'[k] = work[k] /\ done'[k] = done[k] /\ child'[k] = child[k]
    PROVE  WorkTyped'
  BY DEF EntityInv, WorkTyped

LEMMA NodesOfDetail ==
    ASSUME EntityInv, NEW i \in Process, phase[i] # Idle
    PROVE  work[i].detail.nodes \subseteq Node
<1>1. work[i].detail \in Detail
  BY DEF EntityInv, WorkTyped
<1>2. work[i].detail \in DetailType
  BY <1>1, DetailAssumption
<1> QED
  BY <1>2 DEF DetailType

\* The select of a file concerns no entity.
LEMMA EntitySelectFile ==
    ASSUME LockInv, EntityInv, NEW i \in Process, SelectFile(i)
    PROVE  EntityInv'
<1>1. PICK q : FileSelected(i, q)
  BY FileIsSelected
<1>2. Moves(i, phase[i]) /\ phase[i] \notin {Idle, "flush_item"}
      /\ UNCHANGED <<db, phase, work, own, root, done, child>>
  BY <1>1 DEF FileSelected, Moves, LockInv, StateTyped, Phase, Idle
<1>3. session'[i] = session[i] \cup Selected(i, {q}) /\ ~IsIdentity(q) /\ ~IsEntity(q)
  BY <1>1 DEF FileSelected, LockInv, StateTyped, IsIdentity, IsEntity
<1>4. OwnEntities(i) /\ SessionRows(i)
  BY DEF EntityInv, ProcessEntities
<1>5. OwnEntities(i)'
  BY <1>2, <1>4 DEF OwnEntities, Nodes, Pending, EntryAt
<1>6. SessionRows(i)'
  <2>1. \A s \in session'[i] : s \in session[i] \/ (~IsIdentity(s.row) /\ ~IsEntity(s.row))
    BY <1>3, SelectedRows
  <2>2. ASSUME phase[i] = "flush_root" PROVE EntityRow(<<>>, root[i]) \in Written(i)'
    <3>1. EntityRow(<<>>, root[i]) \in Written(i) /\ IsEntity(EntityRow(<<>>, root[i]))
      BY <1>4, <2>2, EntityRowParts DEF SessionRows
    <3>2. EntityRow(<<>>, root[i]).key # q.key
      BY <1>3, <3>1 DEF IsEntity
    <3> QED
      BY <1>3, <3>1, <3>2, WrittenKept
  <2>3. phase[i] \in {"flush_root", "search"}
    BY <1>1 DEF FileSelected
  <2> QED
    BY <1>2, <1>4, <2>1, <2>2, <2>3 DEF SessionRows
<1>7. WorkTyped'
  BY <1>2 DEF EntityInv, WorkTyped
<1> QED
  BY <1>2, <1>5, <1>6, <1>7, EntityStep

LEMMA EntityFlushRoot ==
    ASSUME LockInv, EntityInv, NEW i \in Process, FlushRoot(i)
    PROVE  EntityInv'
<1>1. Writes(i, Written(i)) /\ UNCHANGED <<db, work, root, done, child>> /\ Add(i, {})
  BY FlushWrites DEF FlushRoot
<1>2. /\ phase[i] = "flush_root" /\ phase'[i] = "children"
      /\ Moves(i, "children") /\ phase[i] \notin {Idle, "flush_item"}
  BY DEF FlushRoot, At, Moves, Add, LockInv, StateTyped, Phase, Idle
<1>3. \A k \in Process \ {i} : own'[k] = own[k] /\ phase'[k] = phase[k]
  BY <1>1, <1>2, WritesKeys DEF LockInv, StateTyped, Moves
<1>4. OwnEntities(i) /\ SessionRows(i)
  BY DEF EntityInv, ProcessEntities
<1>5. Nodes(i) = {<<>>} /\ Nodes(i)' = {<<>>} /\ Pending(i)' = {} /\ done[i] = {}
  BY <1>1, <1>2, <1>4 DEF Nodes, Pending, OwnEntities
<1>6. \A r \in Written(i) : IsEntity(r) => r = EntityRow(<<>>, root[i])
  BY <1>2, <1>4, WrittenIsInSession DEF SessionRows
<1>7. \A r \in Written(i) : ~IsIdentity(r)
  BY <1>2, <1>4, WrittenIsInSession DEF SessionRows
<1>8. /\ KeysShaped(own'[i])
      /\ \A k \in Identities(own'[i]) : HasEntity(own'[i][k], own'[i])
      /\ \A k \in DOMAIN own'[i] :
            k[1] = "media_entity" => \E n \in Nodes(i)' : k[2] = EntityAt(root'[i], n)
  <2>1. \A r \in Written(i) : IsEntity(r) =>
            \E n \in Nodes(i)' : r.key = EntityKey(EntityAt(root[i], n))
    BY <1>5, <1>6, EntityRowParts
  <2> QED
    BY <1>1, <1>4, <1>5, <1>7, <2>1, OwnEntitiesGrow DEF LockInv
<1>9. HasEntity(EntityAt(root[i], <<>>), own'[i])
  <2>1. EntityRow(<<>>, root[i]) \in Written(i)
    BY <1>2, <1>4 DEF SessionRows
  <2> QED
    BY <1>1, <2>1, WrittenKey, EntityRowParts DEF HasEntity
<1>10. OwnEntities(i)'
  BY <1>1, <1>2, <1>5, <1>8, <1>9 DEF OwnEntities
<1>11. SessionRows(i)'
  <2>1. \A s \in session'[i] : s.row \in {}
    BY <1>1, Added
  <2> QED
    BY <1>2, <2>1 DEF SessionRows
<1>12. WorkTyped'
  BY <1>1, <1>2, <1>3, <1>5 DEF EntityInv, WorkTyped, Idle
<1> QED
  BY <1>1, <1>2, <1>3, <1>10, <1>11, <1>12, EntityStep

LEMMA EntitySelectChild ==
    ASSUME LockInv, EntityInv, NEW i \in Process, NEW n, SelectChild(i, n)
    PROVE  EntityInv'
<1>1. /\ UNCHANGED <<db, work, own, root, done>> /\ child' = [child EXCEPT ![i] = n]
      /\ Add(i, {EntityRow(n, root[i])}) /\ n \in work[i].detail.nodes
  BY DEF SelectChild
<1>2. /\ phase[i] = "children" /\ phase'[i] = "flush_child"
      /\ Moves(i, "flush_child") /\ phase[i] \notin {Idle, "flush_item"}
  BY DEF SelectChild, At, Moves, Add, LockInv, StateTyped, Phase, Idle
<1>3. /\ child'[i] = n /\ child' = [k \in Process |-> child'[k]]
      /\ \A k \in Process \ {i} : child'[k] = child[k] /\ phase'[k] = phase[k]
  BY <1>1, <1>2 DEF EntityInv, WorkTyped, LockInv, StateTyped, Moves
<1>4. OwnEntities(i)
  BY DEF EntityInv, ProcessEntities
<1>5. Nodes(i)' = Nodes(i) /\ Pending(i)' = Pending(i)
  BY <1>1, <1>2 DEF Nodes, Pending
<1>6. OwnEntities(i)'
  BY <1>1, <1>2, <1>4, <1>5 DEF OwnEntities, EntryAt, HasEntity, KeysShaped, Idle
<1>7. EntityRow(n, root[i]) \in Written(i)'
  BY <1>1, SelectedIsWritten, EntityIsRewritten, TurnlessRows
<1>8. SessionRows(i)'
  <2>1. \A s \in session'[i] : s.row = EntityRow(n, root[i])
    BY <1>1, Added
  <2>2. ~IsIdentity(EntityRow(n, root[i]))
    BY EntityRowParts
  <2> QED
    BY <1>1, <1>2, <1>3, <1>7, <2>1, <2>2 DEF SessionRows
<1>9. n \in Node
  BY <1>1, <1>2, NodesOfDetail
<1>10. WorkTyped'
  BY <1>1, <1>2, <1>3, <1>9 DEF EntityInv, WorkTyped, Idle
<1> QED
  BY <1>1, <1>2, <1>3, <1>6, <1>8, <1>10, EntityStep

LEMMA EntityFlushChild ==
    ASSUME LockInv, EntityInv, NEW i \in Process, FlushChild(i)
    PROVE  EntityInv'
<1> DEFINE row == IdentityRow(work[i].detail, child[i], root[i])
<1>1. Writes(i, Written(i)) /\ UNCHANGED <<db, work, root, done, child>> /\ Add(i, {row})
  BY FlushWrites DEF FlushChild
<1>2. /\ phase[i] = "flush_child" /\ phase'[i] = "flush_child_identity"
      /\ Moves(i, "flush_child_identity") /\ phase[i] \notin {Idle, "flush_item"}
  BY DEF FlushChild, At, Moves, Add, LockInv, StateTyped, Phase, Idle
<1>3. \A k \in Process \ {i} : own'[k] = own[k] /\ phase'[k] = phase[k]
  BY <1>1, <1>2, WritesKeys DEF LockInv, StateTyped, Moves
<1>4. OwnEntities(i) /\ SessionRows(i)
  BY DEF EntityInv, ProcessEntities
<1>5. Nodes(i)' = Nodes(i) \cup {child[i]} /\ Pending(i)' = {child[i]}
  BY <1>1, <1>2 DEF Nodes, Pending
<1>6. \A r \in Written(i) : IsEntity(r) => r = EntityRow(child[i], root[i])
  BY <1>2, <1>4, WrittenIsInSession DEF SessionRows
<1>7. \A r \in Written(i) : ~IsIdentity(r)
  BY <1>2, <1>4, WrittenIsInSession DEF SessionRows
<1>8. /\ KeysShaped(own'[i])
      /\ \A k \in Identities(own'[i]) : HasEntity(own'[i][k], own'[i])
      /\ \A k \in DOMAIN own'[i] :
            k[1] = "media_entity" => \E n \in Nodes(i)' : k[2] = EntityAt(root'[i], n)
      /\ DOMAIN own[i] \subseteq DOMAIN own'[i]
  <2>1. \A r \in Written(i) : IsEntity(r) =>
            \E n \in Nodes(i)' : r.key = EntityKey(EntityAt(root[i], n))
    BY <1>5, <1>6, EntityRowParts
  <2> QED
    BY <1>1, <1>4, <1>5, <1>7, <2>1, OwnEntitiesGrow DEF LockInv
<1>9. HasEntity(EntityAt(root[i], child[i]), own'[i])
  <2>1. EntityRow(child[i], root[i]) \in Written(i)
    BY <1>2, <1>4 DEF SessionRows
  <2> QED
    BY <1>1, <2>1, WrittenKey, EntityRowParts DEF HasEntity
<1>10. HasEntity(EntityAt(root[i], <<>>), own'[i])
  BY <1>2, <1>4, <1>8 DEF OwnEntities, HasEntity, Idle
<1>11. \A n \in done[i] : IdentityKey(EntryAt(i), n) \in DOMAIN own'[i] \cup DOMAIN db
  BY <1>4, <1>8 DEF OwnEntities
<1>12. OwnEntities(i)'
  BY <1>1, <1>2, <1>5, <1>8, <1>9, <1>10, <1>11 DEF OwnEntities, EntryAt, Idle
<1>13. SessionRows(i)'
  <2>1. \A s \in session'[i] : s.row = row
    BY <1>1, Added
  <2>5. ~IsEntity(row)
    BY OtherRowsOfEntities
  <2>6. row.turn = 0 /\ row.key = IdentityKey(EntryAt(i), child[i])
    BY IdentityRowParts DEF EntryAt
  <2>2. ~IsEntity(row) /\ row.turn = 0 /\ row.key = IdentityKey(EntryAt(i), child[i])
    BY <2>5, <2>6
  <2>3. row \in Written(i)' \/ row.key \in DOMAIN own[i] \cup DOMAIN db
    BY <1>1, <2>2, SelectedIsWritten
  <2>4. row \in Written(i)' \/ IdentityKey(EntryAt(i), child[i]) \in DOMAIN own'[i] \cup DOMAIN db
    BY <1>8, <2>2, <2>3
  <2> QED
    BY <1>1, <1>2, <2>1, <2>2, <2>4 DEF SessionRows, EntryAt
<1>14. WorkTyped'
  BY <1>1, <1>2, <1>3 DEF EntityInv, WorkTyped, Idle
<1> QED
  BY <1>1, <1>2, <1>3, <1>12, <1>13, <1>14, EntityStep

LEMMA EntityFlushChildIdentity ==
    ASSUME LockInv, EntityInv, NEW i \in Process, FlushChildIdentity(i)
    PROVE  EntityInv'
<1> DEFINE row == IdentityRow(work[i].detail, child[i], root[i])
<1>1. /\ Writes(i, Written(i)) /\ UNCHANGED <<db, work, root>> /\ Add(i, {})
      /\ done' = [done EXCEPT ![i] = @ \cup {child[i]}]
      /\ child' = [child EXCEPT ![i] = <<>>]
  BY FlushWrites DEF FlushChildIdentity
<1>2. /\ phase[i] = "flush_child_identity" /\ phase'[i] = "children"
      /\ Moves(i, "children") /\ phase[i] \notin {Idle, "flush_item"}
  BY DEF FlushChildIdentity, At, Moves, Add, LockInv, StateTyped, Phase, Idle
<1>3. /\ done'[i] = done[i] \cup {child[i]}
      /\ done' = [k \in Process |-> done'[k]] /\ child' = [k \in Process |-> child'[k]]
      /\ \A k \in Process \ {i} :
            own'[k] = own[k] /\ phase'[k] = phase[k] /\ done'[k] = done[k] /\ child'[k] = child[k]
  <2>1. \A k \in Process \ {i} : own'[k] = own[k] /\ phase'[k] = phase[k]
    BY <1>1, <1>2, WritesKeys DEF LockInv, StateTyped, Moves
  <2> QED
    BY <1>1, <2>1 DEF EntityInv, WorkTyped
<1>4. OwnEntities(i) /\ SessionRows(i)
  BY DEF EntityInv, ProcessEntities
<1>5. Nodes(i) = Nodes(i)' /\ Pending(i)' = {} /\ Pending(i) = {child[i]}
  BY <1>2, <1>3 DEF Nodes, Pending
<1>6. \A r \in Written(i) : ~IsEntity(r)
  BY <1>2, <1>4, WrittenIsInSession DEF SessionRows
<1>7. child[i] \in Node /\ HasEntity(EntityAt(root[i], child[i]), own[i])
  BY <1>2, <1>4, <1>5 DEF EntityInv, WorkTyped, OwnEntities, Idle
<1>8. /\ KeysShaped(own'[i])
      /\ \A k \in Identities(own'[i]) : HasEntity(own'[i][k], own'[i])
      /\ \A k \in DOMAIN own'[i] :
            k[1] = "media_entity" => \E n \in Nodes(i)' : k[2] = EntityAt(root'[i], n)
      /\ DOMAIN own[i] \subseteq DOMAIN own'[i]
  <2>1. \A r \in Written(i) : IsIdentity(r) => r = row
    BY <1>2, <1>4, WrittenIsInSession DEF SessionRows
  <2>2. \A r \in Written(i) : IsIdentity(r) =>
            \E n \in Node : r = IdentityRow(work[i].detail, n, root[i])
                            /\ HasEntity(EntityAt(root[i], n), own[i])
    BY <1>7, <2>1
  <2> QED
    BY <1>1, <1>4, <1>5, <1>6, <2>2, OwnEntitiesGrow DEF LockInv
<1>9. HasEntity(EntityAt(root[i], <<>>), own'[i])
  BY <1>2, <1>4, <1>8 DEF OwnEntities, HasEntity, Idle
<1>10. IdentityKey(EntryAt(i), child[i]) \in DOMAIN own'[i] \cup DOMAIN db
  <2>1. row.turn = 0 /\ row.key = IdentityKey(EntryAt(i), child[i])
    BY IdentityRowParts DEF EntryAt
  <2>2. CASE row \in Written(i)
    BY <1>1, <2>1, <2>2, WrittenKey
  <2>3. CASE IdentityKey(EntryAt(i), child[i]) \in DOMAIN own[i] \cup DOMAIN db
    BY <1>8, <2>3
  <2> QED
    BY <1>2, <1>4, <2>2, <2>3 DEF SessionRows
<1>11. \A n \in done'[i] : IdentityKey(EntryAt(i), n) \in DOMAIN own'[i] \cup DOMAIN db
  BY <1>3, <1>4, <1>8, <1>10 DEF OwnEntities
<1>12. OwnEntities(i)'
  BY <1>1, <1>2, <1>5, <1>8, <1>9, <1>11 DEF OwnEntities, EntryAt, Idle
<1>13. SessionRows(i)'
  <2>1. \A s \in session'[i] : s.row \in {}
    BY <1>1, Added
  <2> QED
    BY <1>2, <2>1 DEF SessionRows
<1>14. WorkTyped'
  BY <1>1, <1>2, <1>3, <1>7 DEF EntityInv, WorkTyped, Idle
<1> QED
  BY <1>1, <1>2, <1>3, <1>12, <1>13, <1>14, EntityStep

LEMMA EntitySelectRootIdentity ==
    ASSUME LockInv, EntityInv, NEW i \in Process, SelectRootIdentity(i)
    PROVE  EntityInv'
<1> DEFINE row == IdentityRow(work[i].detail, <<>>, root[i])
<1>1. UNCHANGED <<db, work, own, root, done, child>> /\ Add(i, {row})
  BY DEF SelectRootIdentity
<1>2. /\ phase[i] = "children" /\ phase'[i] = "flush_root_identity"
      /\ Moves(i, "flush_root_identity") /\ phase[i] \notin {Idle, "flush_item"}
  BY DEF SelectRootIdentity, At, Moves, Add, LockInv, StateTyped, Phase, Idle
<1>3. \A k \in Process \ {i} : phase'[k] = phase[k]
  BY <1>2 DEF LockInv, StateTyped, Moves
<1>4. OwnEntities(i)
  BY DEF EntityInv, ProcessEntities
<1>5. Nodes(i)' = Nodes(i) /\ Pending(i)' = Pending(i)
  BY <1>1, <1>2 DEF Nodes, Pending
<1>6. OwnEntities(i)'
  BY <1>1, <1>2, <1>4, <1>5 DEF OwnEntities, EntryAt, HasEntity, KeysShaped, Idle
<1>7. SessionRows(i)'
  <2>1. \A s \in session'[i] : s.row = row
    BY <1>1, Added
  <2>2. ~IsEntity(row)
    BY OtherRowsOfEntities
  <2> QED
    BY <1>1, <1>2, <2>1, <2>2 DEF SessionRows
<1>8. WorkTyped'
  BY <1>1, <1>2, <1>3 DEF EntityInv, WorkTyped, Idle
<1> QED
  BY <1>1, <1>2, <1>3, <1>6, <1>7, <1>8, EntityStep

LEMMA EntityFlushRootIdentity ==
    ASSUME LockInv, EntityInv, NEW i \in Process, FlushRootIdentity(i)
    PROVE  EntityInv'
<1> DEFINE rows == EntryRows(work[i].detail, work[i].folder, root[i])
<1>1. Writes(i, Written(i)) /\ UNCHANGED <<db, work, root, done, child>> /\ Add(i, rows)
  BY FlushWrites DEF FlushRootIdentity
<1>2. /\ phase[i] = "flush_root_identity" /\ phase'[i] = "search"
      /\ Moves(i, "search") /\ phase[i] \notin {Idle, "flush_item"}
  BY DEF FlushRootIdentity, At, Moves, Add, LockInv, StateTyped, Phase, Idle
<1>3. \A k \in Process \ {i} : own'[k] = own[k] /\ phase'[k] = phase[k]
  BY <1>1, <1>2, WritesKeys DEF LockInv, StateTyped, Moves
<1>4. OwnEntities(i) /\ SessionRows(i)
  BY DEF EntityInv, ProcessEntities
<1>5. Nodes(i) = Nodes(i)' /\ Pending(i)' = {}
  BY <1>1, <1>2 DEF Nodes, Pending
<1>6. \A r \in Written(i) : ~IsEntity(r)
  BY <1>2, <1>4, WrittenIsInSession DEF SessionRows
<1>7. <<>> \in Node /\ HasEntity(EntityAt(root[i], <<>>), own[i])
  BY <1>2, <1>4 DEF Node, OwnEntities, Idle
<1>8. /\ KeysShaped(own'[i])
      /\ \A k \in Identities(own'[i]) : HasEntity(own'[i][k], own'[i])
      /\ \A k \in DOMAIN own'[i] :
            k[1] = "media_entity" => \E n \in Nodes(i)' : k[2] = EntityAt(root'[i], n)
      /\ DOMAIN own[i] \subseteq DOMAIN own'[i]
  <2>1. \A r \in Written(i) : IsIdentity(r) => r = IdentityRow(work[i].detail, <<>>, root[i])
    BY <1>2, <1>4, WrittenIsInSession DEF SessionRows
  <2>2. \A r \in Written(i) : IsIdentity(r) =>
            \E n \in Node : r = IdentityRow(work[i].detail, n, root[i])
                            /\ HasEntity(EntityAt(root[i], n), own[i])
    BY <1>7, <2>1
  <2> QED
    BY <1>1, <1>4, <1>5, <1>6, <2>2, OwnEntitiesGrow DEF LockInv
<1>9. HasEntity(EntityAt(root[i], <<>>), own'[i])
  BY <1>7, <1>8 DEF HasEntity
<1>10. \A n \in done[i] : IdentityKey(EntryAt(i), n) \in DOMAIN own'[i] \cup DOMAIN db
  BY <1>4, <1>8 DEF OwnEntities
<1>11. OwnEntities(i)'
  BY <1>1, <1>2, <1>5, <1>8, <1>9, <1>10 DEF OwnEntities, EntryAt, Idle
<1>12. SessionRows(i)'
  <2>1. \A r \in rows : ~IsEntity(r) /\ ~IsIdentity(r)
    BY OtherRowsOfEntities, OtherRows
  <2>2. \A s \in session'[i] : s.row \in rows
    BY <1>1, Added
  <2> QED
    BY <1>2, <2>1, <2>2 DEF SessionRows
<1>13. WorkTyped'
  BY <1>1, <1>2, <1>3 DEF EntityInv, WorkTyped, Idle
<1> QED
  BY <1>1, <1>2, <1>3, <1>11, <1>12, <1>13, EntityStep

LEMMA EntityRefresh ==
    ASSUME LockInv, TreeInv, EntityInv, NEW i \in Process, RefreshSearchDocuments(i)
    PROVE  EntityInv'
<1> DEFINE rows == {Row(DocumentKey(x), AliasesOf(x, Visible(i))) : x \in Documented(i)}
<1>1. Writes(i, rows) /\ UNCHANGED <<db, work, session, root, done, child>>
  BY DEF RefreshSearchDocuments, Writes
<1>2. /\ phase[i] = "search" /\ phase'[i] = "commit"
      /\ Moves(i, "commit") /\ phase[i] \notin {Idle, "flush_item"}
  BY DEF RefreshSearchDocuments, At, Moves, LockInv, StateTyped, Phase, Idle
<1>3. \A k \in Process \ {i} : own'[k] = own[k] /\ phase'[k] = phase[k]
  BY <1>1, <1>2, WritesKeys DEF LockInv, StateTyped, Moves
<1>4. OwnEntities(i) /\ SessionRows(i)
  BY DEF EntityInv, ProcessEntities
<1>5. Nodes(i) = Nodes(i)' /\ Pending(i)' = {}
  BY <1>1, <1>2 DEF Nodes, Pending
<1>6. \A r \in rows : ~IsEntity(r) /\ ~IsIdentity(r)
  BY DEF Row, RowInTurn, DocumentKey, IsEntity, IsIdentity
<1>8. /\ KeysShaped(own'[i])
      /\ \A k \in Identities(own'[i]) : HasEntity(own'[i][k], own'[i])
      /\ \A k \in DOMAIN own'[i] :
            k[1] = "media_entity" => \E n \in Nodes(i)' : k[2] = EntityAt(root'[i], n)
      /\ DOMAIN own[i] \subseteq DOMAIN own'[i]
  <2> HIDE DEF rows
  <2> QED
    BY <1>1, <1>4, <1>5, <1>6, OwnEntitiesGrow DEF LockInv
<1>9. HasEntity(EntityAt(root[i], <<>>), own'[i])
  BY <1>2, <1>4, <1>8 DEF HasEntity, OwnEntities, Idle
<1>10. \A n \in done[i] : IdentityKey(EntryAt(i), n) \in DOMAIN own'[i] \cup DOMAIN db
  BY <1>4, <1>8 DEF OwnEntities
<1>11. OwnEntities(i)'
  BY <1>1, <1>2, <1>5, <1>8, <1>9, <1>10 DEF OwnEntities, EntryAt, Idle
<1>12. SessionRows(i)'
  BY <1>1, <1>2, <1>4 DEF SessionRows
<1>13. WorkTyped'
  BY <1>1, <1>2, <1>3 DEF EntityInv, WorkTyped, Idle
<1> QED
  BY <1>1, <1>2, <1>3, <1>11, <1>12, <1>13, EntityStep

\* A process outside any transaction has nothing to show.
LEMMA IdleEntities ==
    ASSUME NEW i \in Process, phase[i] = Idle, own[i] = <<>>, session[i] = {}, done[i] = {}
    PROVE  OwnEntities(i) /\ SessionRows(i)
<1>1. DOMAIN own[i] = {}
  OBVIOUS
<1>2. OwnEntities(i)
  BY <1>1 DEF OwnEntities, KeysShaped, Identities, Idle
<1>3. SessionRows(i)
  BY DEF SessionRows, Idle
<1> QED
  BY <1>2, <1>3

LEMMA EndedEntities ==
    ASSUME LockInv, EntityInv, NEW i \in Process, Ended(i), DOMAIN db \subseteq DOMAIN db'
    PROVE  /\ phase'[i] = Idle /\ \A k \in Process \ {i} : Same(k)
           /\ WorkTyped'
           /\ \A k \in Process : OwnEntities(k)' /\ SessionRows(k)'
<1>1. /\ phase'[i] = Idle /\ own'[i] = <<>> /\ session'[i] = {} /\ done'[i] = {}
      /\ done' = [k \in Process |-> done'[k]] /\ child' = [k \in Process |-> child'[k]]
      /\ \A k \in Process \ {i} : Same(k)
  BY DEF Ended, LockInv, StateTyped, EntityInv, WorkTyped, Same
<1>2. WorkTyped'
  BY <1>1 DEF EntityInv, WorkTyped, Same, Idle
<1>3. DOMAIN own'[i] = {}
  BY <1>1
<1>4. OwnEntities(i)'
  BY <1>1, <1>3 DEF OwnEntities, KeysShaped, Identities, Idle
<1>5. SessionRows(i)'
  BY <1>1 DEF SessionRows, Idle
<1>6. \A k \in Process \ {i} : OwnEntities(k)' /\ SessionRows(k)'
  BY <1>1, OthersKeepEntities DEF EntityInv, ProcessEntities
<1> QED
  BY <1>1, <1>2, <1>4, <1>5, <1>6

LEMMA EntityRollBack ==
    ASSUME LockInv, EntityInv, NEW i \in Process, Violate(i) \/ RollBack(i)
    PROVE  EntityInv'
<1>1. Ended(i) /\ UNCHANGED db
  BY DEF Violate, RollBack
<1>2. /\ phase'[i] = Idle /\ \A k \in Process \ {i} : Same(k)
      /\ WorkTyped' /\ \A k \in Process : OwnEntities(k)' /\ SessionRows(k)'
  BY <1>1, EndedEntities
<1>3. \A k \in Process : Working(k)' => Working(k) /\ root'[k] = root[k] /\ work'[k] = work[k]
  BY <1>2 DEF Working, Same
<1>4. \A k \in Process : OwnRoot(k)'
  BY <1>1, <1>3, RootsKept
<1> QED
  BY <1>1, <1>2, <1>4, DatabaseKept DEF EntityInv, ProcessEntities

LEMMA EntityBegin ==
    ASSUME LockInv, EntityInv, NEW i \in Process, Begin(i)
    PROVE  EntityInv'
<1>1. PICK f \in Folder, d \in Detail :
         /\ work' = [work EXCEPT ![i] = [folder |-> f, detail |-> d]]
         /\ Add(i, {ItemRow(d)})
  BY DEF Begin
<1>2. /\ phase[i] = Idle /\ phase' = [phase EXCEPT ![i] = "flush_item"]
      /\ UNCHANGED <<db, own, root, done, child>>
  BY DEF Begin, At
<1>3. /\ phase'[i] = "flush_item" /\ work'[i].detail = d /\ own'[i] = own[i]
      /\ \A k \in Process \ {i} : Same(k)
  BY <1>1, <1>2 DEF LockInv, StateTyped, Add, Same
<1>4. OwnEntities(i) /\ own[i] = <<>>
  BY <1>2 DEF EntityInv, ProcessEntities, LockInv, Locked
<1>5. WorkTyped'
  BY <1>2, <1>3 DEF EntityInv, WorkTyped, Same
<1>6. done'[i] = {}
  BY <1>2, <1>4 DEF OwnEntities
<1>7. OwnEntities(i)'
  <2>1. DOMAIN own'[i] = {}
    BY <1>3, <1>4
  <2> QED
    BY <1>3, <1>6, <2>1 DEF OwnEntities, KeysShaped, Identities
<1>8. SessionRows(i)'
  <2>1. \A s \in session'[i] : s.row = ItemRow(d)
    BY <1>1, Added
  <2>2. ~IsIdentity(ItemRow(d))
    BY OtherRows
  <2>3. ~IsEntity(ItemRow(d))
    BY OtherRowsOfEntities
  <2> QED
    BY <1>3, <2>1, <2>2, <2>3 DEF SessionRows
<1>9. \A k \in Process \ {i} : OwnEntities(k)' /\ SessionRows(k)'
  BY <1>2, <1>3, OthersKeepEntities DEF EntityInv, ProcessEntities
<1>10. \A k \in Process : OwnRoot(k)'
  <2>1. \A k \in Process : Working(k)' => Working(k) /\ root'[k] = root[k] /\ work'[k] = work[k]
    BY <1>3 DEF Working, Same, Idle
  <2> QED
    BY <1>2, <2>1, RootsKept
<1> QED
  BY <1>2, <1>5, <1>7, <1>8, <1>9, <1>10, DatabaseKept DEF EntityInv, ProcessEntities

\* The root that a transaction selects belongs to no other entry.
LEMMA SelectedRoot ==
    ASSUME LockInv, LockInv', TreeInv, EntityInv, NEW i \in Process, FlushMediaItem(i)
    PROVE  OwnRoot(i)' /\ \A k \in Process \ {i} : OwnRoot(k)'
<1> DEFINE d == work[i].detail
           key == IdentityKey(d.entry, <<>>)
<1>1. PICK r :
         /\ root' = [root EXCEPT ![i] = r]
         /\ r \in KnownRoot(i) \/ (KnownRoot(i) = {} /\ r \in FreshRoots)
  BY DEF FlushMediaItem
<1>2. /\ phase[i] = "flush_item" /\ phase' = [phase EXCEPT ![i] = "flush_root"]
      /\ UNCHANGED <<db, work>>
  BY DEF FlushMediaItem, At
<1>3. root'[i] = r /\ phase'[i] = "flush_root"
      /\ \A k \in Process \ {i} : phase'[k] = phase[k] /\ root'[k] = root[k]
  BY <1>1, <1>2 DEF LockInv, StateTyped
<1>4. own[i] = <<>> /\ DOMAIN own[i] = {}
  BY <1>2 DEF LockInv, Locked
<1>5. DOMAIN Visible(i) = DOMAIN db /\ (\A k \in DOMAIN db : Visible(i)[k] = db[k])
  BY <1>4 DEF Visible, Over
<1>6. ASSUME NEW k \in Process \ {i}, Working(k)
      PROVE  EntryAt(k) # d.entry /\ root[k] # r
  <2>1. EntryAt(k) # d.entry
    <3>1. ItemKey(EntryAt(k)) \in DOMAIN own'[k] /\ ItemKey(d.entry) \in DOMAIN own'[i]
      BY <1>2, <1>3, <1>6 DEF LockInv, Locked, EntryAt, Working, Idle
    <3> QED
      BY <3>1 DEF LockInv, Disjoint
  <2>2. CASE r \in FreshRoots
    BY <2>2, <2>1 DEF FreshRoots
  <2>3. CASE r \in KnownRoot(i)
    <3>1. key \in DOMAIN db /\ r = db[key][1]
      BY <1>5, <2>3 DEF KnownRoot
    <3>2. key \in Identities(db) /\ RootOf(key[2], db) = r /\ key[2] = d.entry
      BY <3>1, IdentityKeyParts DEF Identities, RootOf
    <3> QED
      BY <1>6, <2>1, <3>2 DEF EntityInv, ProcessEntities, OwnRoot
  <2> QED
    BY <1>1, <2>1, <2>2, <2>3
<1>7. ASSUME NEW k \in Identities(db), RootOf(k[2], db) = r
      PROVE  k[2] = d.entry
  <2> DEFINE top == IdentityKey(k[2], <<>>)
  <2>1. top \in DOMAIN db /\ top \in Identities(db) /\ db[top][1] = r
    BY <1>7, IdentityKeyParts DEF TreeInv, DbTree, RootOf, Identities
  <2>2. db[top] = EntityAt(r, <<>>)
    BY <2>1, IdentityKeyParts DEF TreeInv, DbTree
  <2>3. EntityKey(<<r>>) \in DOMAIN db
    BY <2>1, <2>2, EntityAtRoot DEF EntityInv, DbEntities, HasEntity
  <2>4. r \notin FreshRoots
    BY <1>5, <2>3 DEF FreshRoots
  <2>5. key \in DOMAIN db /\ r = db[key][1]
    BY <1>1, <1>5, <2>4 DEF KnownRoot
  <2>6. key \in Identities(db) /\ RootOf(key[2], db) = r /\ key[2] = d.entry
    BY <2>5, IdentityKeyParts DEF Identities, RootOf
  <2> QED
    BY <1>7, <2>6 DEF EntityInv, DbRoots
<1>8. OwnRoot(i)'
  <2>1. \A k \in Process : Working(k)' /\ root'[k] = r => k = i
    BY <1>3, <1>6 DEF Working
  <2> QED
    BY <1>2, <1>3, <1>7, <2>1 DEF OwnRoot, EntryAt
<1>9. ASSUME NEW k \in Process \ {i} PROVE OwnRoot(k)'
  <2> SUFFICES ASSUME Working(k)'
               PROVE  /\ \A m \in Identities(db) : RootOf(m[2], db) = root'[k] => m[2] = EntryAt(k)'
                      /\ \A j \in Process : Working(j)' /\ root'[j] = root'[k] => j = k
    BY <1>2 DEF OwnRoot
  <2>1. Working(k) /\ root'[k] = root[k] /\ EntryAt(k)' = EntryAt(k)
    BY <1>2, <1>3 DEF Working, EntryAt
  <2>2. OwnRoot(k)
    BY DEF EntityInv, ProcessEntities
  <2>3. \A m \in Identities(db) : RootOf(m[2], db) = root'[k] => m[2] = EntryAt(k)'
    BY <2>1, <2>2 DEF OwnRoot
  <2>4. ASSUME NEW j \in Process, Working(j)', root'[j] = root'[k] PROVE j = k
    <3>1. CASE j = i
      BY <1>3, <1>6, <2>1, <2>4, <3>1
    <3>2. CASE j # i
      BY <1>3, <2>1, <2>2, <2>4, <3>2 DEF OwnRoot, Working
    <3> QED
      BY <3>1, <3>2
  <2> QED
    BY <2>3, <2>4
<1> QED
  BY <1>8, <1>9

LEMMA EntityFlushMediaItem ==
    ASSUME LockInv, LockInv', TreeInv, EntityInv, NEW i \in Process, FlushMediaItem(i)
    PROVE  EntityInv'
<1> DEFINE d == work[i].detail
<1>1. PICK r :
         /\ root' = [root EXCEPT ![i] = r]
         /\ Add(i, LegacyImageRows(d, work[i].folder) \cup {EntityRow(<<>>, r)})
  BY DEF FlushMediaItem
<1> DEFINE rows == LegacyImageRows(d, work[i].folder) \cup {EntityRow(<<>>, r)}
<1>2. /\ phase[i] = "flush_item" /\ phase' = [phase EXCEPT ![i] = "flush_root"]
      /\ UNCHANGED <<db, work, done, child>> /\ Writes(i, Written(i))
  BY FlushWrites DEF FlushMediaItem, At
<1>3. root'[i] = r /\ phase'[i] = "flush_root" /\ done[i] = {}
  BY <1>1, <1>2 DEF LockInv, StateTyped, EntityInv, ProcessEntities, OwnEntities
<1>4. \A k \in Process \ {i} : Same(k)
  BY <1>1, <1>2, WritesKeys DEF LockInv, StateTyped, Same, Add
<1>5. \A k \in Process \ {i} : OwnEntities(k)' /\ SessionRows(k)'
  BY <1>2, <1>4, OthersKeepEntities DEF EntityInv, ProcessEntities
<1>6. WorkTyped'
  BY <1>2, <1>3, <1>4 DEF EntityInv, WorkTyped, Same, Idle
<1>7. \A k \in DOMAIN own'[i] : k[1] \notin {"media_entity", "provider_identity"}
  <2>1. DOMAIN own'[i] = DOMAIN Table(Written(i)) \cup DOMAIN own[i]
    BY <1>2, WritesKeys DEF LockInv
  <2>2. own[i] = <<>> /\ DOMAIN own[i] = {}
    BY <1>2 DEF LockInv, Locked
  <2>3. \A k \in DOMAIN Table(Written(i)) : \E q \in Written(i) : q.key = k
    BY TableRows
  <2>4. \A q \in Written(i) : q = ItemRow(d)
    BY <1>2, WrittenIsInSession DEF LockInv, ItemFirst
  <2>5. ItemRow(d).key[1] = "media_items"
    BY DEF ItemRow, Row, RowInTurn, ItemKey
  <2> QED
    BY <2>1, <2>2, <2>3, <2>4, <2>5
<1>8. OwnEntities(i)'
  BY <1>2, <1>3, <1>7 DEF OwnEntities, KeysShaped, Identities
<1>9. SessionRows(i)'
  <2>1. \A s \in session'[i] : s.row \in rows
    BY <1>1, Added
  <2>2. \A q \in LegacyImageRows(d, work[i].folder) : ~IsIdentity(q)
    BY OtherRows
  <2>3. \A q \in LegacyImageRows(d, work[i].folder) : ~IsEntity(q)
    BY OtherRowsOfEntities
  <2>4. ~IsIdentity(EntityRow(<<>>, r))
    BY EntityRowParts
  <2>5. \A q \in rows : q.turn = 0
    BY TurnlessRows
  <2>6. EntityRow(<<>>, r) \in Written(i)'
    <3> HIDE DEF rows
    <3>1. EntityRow(<<>>, r) \in rows
      BY DEF rows
    <3>2. Add(i, rows)
      BY <1>1 DEF rows
    <3> QED
      BY <2>5, <3>1, <3>2, EntityIsRewritten, SelectedIsWritten
  <2> QED
    BY <1>3, <2>1, <2>2, <2>3, <2>4, <2>6 DEF SessionRows
<1> QED
  BY <1>2, <1>5, <1>6, <1>8, <1>9, SelectedRoot, DatabaseKept DEF EntityInv, ProcessEntities

\* The roots that a commit leaves: that of its entry, and the others as before.
LEMMA CommittedRoots ==
    ASSUME LockInv, TreeInv, NEW i \in Process, Commit(i), NEW k \in Identities(db')
    PROVE  \/ k[2] = EntryAt(i) /\ RootOf(k[2], db') = root[i]
           \/ k[2] # EntryAt(i) /\ k \in Identities(db) /\ RootOf(k[2], db') = RootOf(k[2], db)
<1>1. CASE k[2] = EntryAt(i)
  BY <1>1, CommittedRoot DEF RootOf
<1>2. CASE k[2] # EntryAt(i)
  <2> DEFINE top == IdentityKey(k[2], <<>>)
  <2>1. k \notin Identities(own[i])
    BY <1>2, IdentityKeyParts DEF TreeInv, ProcessTree, OwnTree
  <2>2. k \in Identities(db)
    BY <2>1, CommittedIdentities
  <2>3. top \in Identities(db)
    BY <2>2, IdentityKeyParts DEF TreeInv, DbTree, Identities
  <2>4. db'[top] = db[top]
    BY <2>3, CommitKeepsIdentities
  <2> QED
    BY <1>2, <2>2, <2>4 DEF RootOf
<1> QED
  BY <1>1, <1>2

\* The entities that a commit leaves: those of the transaction over those before.
LEMMA CommittedEntities ==
    ASSUME LockInv, EntityInv, NEW i \in Process, Commit(i),
           NEW k \in DOMAIN db', k[1] = "media_entity"
    PROVE  \/ k \in DOMAIN own[i]
           \/ k \in DOMAIN db /\ db'[k] = db[k]
<1>1. phase[i] = "commit" /\ SessionRows(i) /\ db' = Over(Table(Written(i)), Over(own[i], db))
  BY DEF Commit, EntityInv, ProcessEntities, Visible
<1>2. \A q \in Written(i) : ~IsEntity(q)
  BY <1>1, WrittenIsInSession DEF SessionRows
<1>3. k \notin DOMAIN Table(Written(i))
  <2>1. \A m \in DOMAIN Table(Written(i)) : \E q \in Written(i) : q.key = m
    BY TableRows
  <2> QED
    BY <1>2, <2>1 DEF IsEntity
<1>4. k \in DOMAIN own[i] \cup DOMAIN db
  BY <1>3, CommittedKeys
<1> QED
  BY <1>1, <1>3, <1>4 DEF Over

LEMMA EntityCommit ==
    ASSUME LockInv, TreeInv, TreeInv', EntityInv, NEW i \in Process, Commit(i)
    PROVE  EntityInv'
<1>1. Ended(i) /\ phase[i] = "commit" /\ Working(i)
  BY DEF Commit, Working, Idle
<1>2. DOMAIN own[i] \subseteq DOMAIN db' /\ DOMAIN db \subseteq DOMAIN db'
  BY CommittedKeys
<1>3. /\ phase'[i] = Idle /\ \A k \in Process \ {i} : Same(k)
      /\ WorkTyped' /\ \A k \in Process : OwnEntities(k)' /\ SessionRows(k)'
  BY <1>1, <1>2, EndedEntities
<1>4. OwnEntities(i) /\ OwnRoot(i)
  BY DEF EntityInv, ProcessEntities
<1>5. /\ Identities(db') = Identities(own[i]) \cup Identities(db)
      /\ \A k \in Identities(db') : db'[k] = IF k \in DOMAIN own[i] THEN own[i][k] ELSE db[k]
  BY CommittedIdentities
<1>6. KeysShaped(db')
  <2>1. \A k \in DOMAIN db' : k[1] = "media_entity" => k = EntityKey(k[2])
    BY <1>4, CommittedEntities DEF EntityInv, KeysShaped, OwnEntities
  <2>2. \A k \in Identities(db') : k[3] \in Node
    BY <1>4, <1>5 DEF EntityInv, KeysShaped, OwnEntities
  <2> QED
    BY <2>1, <2>2 DEF KeysShaped
<1>7. DbRoots'
  <2> SUFFICES ASSUME NEW k \in Identities(db'), NEW m \in Identities(db'),
                      RootOf(k[2], db') = RootOf(m[2], db')
               PROVE  k[2] = m[2]
    BY DEF DbRoots
  <2>1. \/ k[2] = EntryAt(i) /\ RootOf(k[2], db') = root[i]
        \/ k[2] # EntryAt(i) /\ k \in Identities(db) /\ RootOf(k[2], db') = RootOf(k[2], db)
    BY CommittedRoots
  <2>2. \/ m[2] = EntryAt(i) /\ RootOf(m[2], db') = root[i]
        \/ m[2] # EntryAt(i) /\ m \in Identities(db) /\ RootOf(m[2], db') = RootOf(m[2], db)
    BY CommittedRoots
  <2>3. \A j \in Identities(db) : RootOf(j[2], db) = root[i] => j[2] = EntryAt(i)
    BY <1>1, <1>4 DEF OwnRoot
  <2>4. \A j, o \in Identities(db) : RootOf(j[2], db) = RootOf(o[2], db) => j[2] = o[2]
    BY DEF EntityInv, DbRoots
  <2> QED
    BY <2>1, <2>2, <2>3, <2>4
<1>8. DbEntities'
  <2> SUFFICES ASSUME NEW k \in Identities(db') PROVE EntityKey(db'[k]) \in DOMAIN db'
    BY DEF DbEntities, HasEntity
  <2>1. CASE k \in DOMAIN own[i]
    <3>1. k \in Identities(own[i])
      BY <2>1 DEF Identities
    <3>2. EntityKey(own[i][k]) \in DOMAIN own[i]
      BY <1>4, <3>1 DEF OwnEntities, HasEntity
    <3> QED
      BY <1>2, <1>5, <2>1, <3>2
  <2>2. CASE k \notin DOMAIN own[i]
    <3>1. k \in Identities(db)
      BY <1>5, <2>2 DEF Identities
    <3>2. EntityKey(db[k]) \in DOMAIN db
      BY <3>1 DEF EntityInv, DbEntities, HasEntity
    <3> QED
      BY <1>2, <1>5, <2>2, <3>2
  <2> QED
    BY <2>1, <2>2
<1>9. DbIdentified'
  <2> SUFFICES ASSUME NEW k \in DOMAIN db', k[1] = "media_entity"
               PROVE  \/ \E m \in Identities(db') : db'[m] = k[2]
                      \/ Len(k[2]) > 1 /\ db'[k] = "backfilled"
    BY DEF DbIdentified
  <2>1. CASE k \in DOMAIN own[i]
    <3>1. PICK n \in Nodes(i) : k[2] = EntityAt(root[i], n)
      BY <1>4, <2>1 DEF OwnEntities
    <3> DEFINE m == IdentityKey(EntryAt(i), n)
    <3>2. n = <<>> \/ n \in done[i]
      BY <1>1 DEF Nodes, Pending
    <3>3. m \in DOMAIN own[i] \cup DOMAIN db
      BY <1>1, <1>4, <3>2 DEF OwnEntities, TreeInv, ProcessTree, RootIdentified
    <3>4. m[1] = "provider_identity" /\ m[2] = EntryAt(i) /\ m[3] = n
      BY IdentityKeyParts
    <3>5. m \in Identities(db')
      BY <1>5, <3>3, <3>4 DEF Identities
    <3>6. db'[m] = EntityAt(db'[IdentityKey(EntryAt(i), <<>>)][1], n)
      BY <3>4, <3>5 DEF TreeInv, DbTree
    <3>7. db'[m] = k[2]
      BY <3>1, <3>6, CommittedRoot
    <3> QED
      BY <3>5, <3>7
  <2>2. CASE k \notin DOMAIN own[i]
    <3>1. k \in DOMAIN db /\ db'[k] = db[k]
      BY <2>2, CommittedEntities
    <3>2. CASE \E m \in Identities(db) : db[m] = k[2]
      BY <3>2, CommitKeepsIdentities
    <3>3. CASE Len(k[2]) > 1 /\ db[k] = "backfilled"
      BY <3>1, <3>3
    <3> QED
      BY <3>1, <3>2, <3>3 DEF EntityInv, DbIdentified
  <2> QED
    BY <2>1, <2>2
<1>10. ASSUME NEW k \in Process PROVE OwnRoot(k)'
  <2> SUFFICES ASSUME Working(k)'
               PROVE  /\ \A m \in Identities(db') : RootOf(m[2], db') = root'[k] => m[2] = EntryAt(k)'
                      /\ \A j \in Process : Working(j)' /\ root'[j] = root'[k] => j = k
    BY DEF OwnRoot
  <2>1. k # i /\ Working(k) /\ root'[k] = root[k] /\ EntryAt(k)' = EntryAt(k)
    BY <1>3 DEF Working, Same, EntryAt
  <2>2. OwnRoot(k) /\ root[i] # root[k]
    BY <1>1, <2>1 DEF EntityInv, ProcessEntities, OwnRoot
  <2>3. ASSUME NEW m \in Identities(db'), RootOf(m[2], db') = root[k] PROVE m[2] = EntryAt(k)
    <3>1. m \in Identities(db) /\ RootOf(m[2], db) = root[k]
      BY <2>2, <2>3, CommittedRoots
    <3> QED
      BY <2>1, <2>2, <3>1 DEF OwnRoot
  <2>4. ASSUME NEW j \in Process, Working(j)', root'[j] = root'[k] PROVE j = k
    <3>1. j # i /\ Working(j) /\ root'[j] = root[j]
      BY <1>3, <2>4 DEF Working, Same
    <3> QED
      BY <2>1, <2>2, <2>4, <3>1 DEF OwnRoot
  <2> QED
    BY <2>1, <2>3, <2>4
<1> QED
  BY <1>3, <1>6, <1>7, <1>8, <1>9, <1>10 DEF EntityInv, ProcessEntities

-----------------------------------------------------------------------------
(* The database that the migrations leave. *)

BackfilledTable(l, rootOf) ==
    LegacyTables(l) \cup
    UNION {BackfilledEntities(l.said[f], l.files[f], rootOf[l.said[f].entry])
           \cup BackfilledRows(l.said[f], f, l.files[f], rootOf[l.said[f].entry]) : f \in DOMAIN l.said}

\* No row of the migration has a rival.
LEMMA BackfilledTurns ==
    ASSUME NEW l, NEW rootOf PROVE \A r \in BackfilledTable(l, rootOf) : r.turn = 0
<1> USE DEF Row, RowInTurn
<1>1. ASSUME NEW f \in DOMAIN l.said, NEW r \in LegacyOfFolder(l, f) PROVE r.turn = 0
  BY <1>1, TurnlessRows DEF LegacyOfFolder
<1>2. ASSUME NEW f \in DOMAIN l.said, NEW r \in BackfilledEntities(l.said[f], l.files[f], rootOf[l.said[f].entry])
      PROVE  r.turn = 0
  BY <1>2 DEF BackfilledEntities
<1>3. ASSUME NEW f \in DOMAIN l.said, NEW r \in BackfilledRows(l.said[f], f, l.files[f], rootOf[l.said[f].entry])
      PROVE  r.turn = 0
  BY <1>3 DEF BackfilledRows
<1> QED
  BY <1>1, <1>2, <1>3 DEF BackfilledTable, LegacyTables, LegacyOfFolder

LEMMA BackfilledKeys ==
    ASSUME NEW l, NEW rootOf, NEW r \in BackfilledTable(l, rootOf)
    PROVE  r.key \in DOMAIN Migrated(l, rootOf)
<1> DEFINE rows == BackfilledTable(l, rootOf)
<1>1. \A q \in rows : q.key = r.key => q.turn <= r.turn
  BY BackfilledTurns
<1>2. Migrated(l, rootOf) = Table(rows)
  BY DEF Migrated, BackfilledTable
<1> HIDE DEF rows
<1>3. r \in rows
  BY DEF rows
<1>4. r.key \in DOMAIN Table(rows)
  BY <1>1, <1>3, TableOfDistinctRows
<1> QED
  BY <1>2, <1>4

\* The root of a folder's item, and its identity.
LEMMA BackfilledRoot ==
    ASSUME NEW l, NEW rootOf, NEW f \in DOMAIN l.said
    PROVE  /\ EntityKey(<<rootOf[l.said[f].entry]>>) \in DOMAIN Migrated(l, rootOf)
           /\ IdentityKey(l.said[f].entry, <<>>) \in Identities(Migrated(l, rootOf))
           /\ Migrated(l, rootOf)[IdentityKey(l.said[f].entry, <<>>)] = <<rootOf[l.said[f].entry]>>
<1> DEFINE r == rootOf[l.said[f].entry]
           entity == Row(EntityKey(EntityAt(r, <<>>)), "backfilled")
           identity == Row(IdentityKey(l.said[f].entry, <<>>), <<r>>)
<1>1. entity \in BackfilledEntities(l.said[f], l.files[f], r) /\ identity \in BackfilledRows(l.said[f], f, l.files[f], r)
  BY DEF BackfilledEntities, BackfilledRows
<1>2. entity \in BackfilledTable(l, rootOf) /\ identity \in BackfilledTable(l, rootOf)
  BY <1>1 DEF BackfilledTable
<1>3. entity.key = EntityKey(<<r>>) /\ identity.key = IdentityKey(l.said[f].entry, <<>>)
  BY EntityAtRoot DEF Row, RowInTurn
<1>4. /\ EntityKey(<<r>>) \in DOMAIN Migrated(l, rootOf)
      /\ IdentityKey(l.said[f].entry, <<>>) \in DOMAIN Migrated(l, rootOf)
  BY <1>2, <1>3, BackfilledKeys
<1>5. IdentityKey(l.said[f].entry, <<>>) \in Identities(Migrated(l, rootOf))
  BY <1>4, IdentityKeyParts DEF Identities
<1>6. PICK g \in DOMAIN l.said :
         /\ IdentityKey(l.said[f].entry, <<>>) = IdentityKey(l.said[g].entry, <<>>)
         /\ Migrated(l, rootOf)[IdentityKey(l.said[f].entry, <<>>)] = <<rootOf[l.said[g].entry]>>
  BY <1>5, BackfilledIdentities
<1>7. l.said[g].entry = l.said[f].entry
  BY <1>6, IdentityKeyParts
<1> QED
  BY <1>4, <1>5, <1>6, <1>7

\* The entities of the migration: a root, or a season or an episode of a file.
LEMMA BackfilledEntity ==
    ASSUME NEW l \in Legacy, NEW rootOf, NEW k \in DOMAIN Migrated(l, rootOf), k[1] = "media_entity"
    PROVE  /\ k = EntityKey(k[2])
           /\ \/ \E f \in DOMAIN l.said : k[2] = <<rootOf[l.said[f].entry]>>
              \/ Len(k[2]) > 1 /\ Migrated(l, rootOf)[k] = "backfilled"
<1>1. PICK r \in BackfilledTable(l, rootOf) : r.key = k /\ Migrated(l, rootOf)[k] = r.value
  <2> DEFINE rows == BackfilledTable(l, rootOf)
  <2>1. Migrated(l, rootOf) = Table(rows)
    BY DEF Migrated, BackfilledTable
  <2> HIDE DEF rows
  <2>2. \E r \in rows : r.key = k /\ Migrated(l, rootOf)[k] = r.value
    BY <2>1, TableRows
  <2> QED
    BY <2>2 DEF rows
<1>2. IsEntity(r)
  BY <1>1 DEF IsEntity
<1>3. r \notin LegacyTables(l)
  <2>1. ASSUME NEW f \in DOMAIN l.said, r \in LegacyOfFolder(l, f) PROVE FALSE
    BY <1>2, <2>1, OtherRowsOfEntities DEF LegacyOfFolder
  <2> QED
    BY <2>1 DEF LegacyTables, LegacyOfFolder
<1>4. PICK f \in DOMAIN l.said :
         r \in BackfilledEntities(l.said[f], l.files[f], rootOf[l.said[f].entry]) \cup BackfilledRows(l.said[f], f, l.files[f], rootOf[l.said[f].entry])
  BY <1>1, <1>3 DEF BackfilledTable
<1> DEFINE root0 == rootOf[l.said[f].entry]
<1>5. r \notin BackfilledRows(l.said[f], f, l.files[f], root0)
  BY <1>2 DEF BackfilledRows, IsEntity, Row, RowInTurn, IdentityKey, AliasKey, FileKey, AssetKey
<1>6. PICK n \in {<<>>} \cup UNION {{SubSeq(v.node, 1, j) : j \in 1..Len(v.node)} :
                                    v \in {v \in l.files[f] : l.said[f].entry \in Series}} :
         r = Row(EntityKey(EntityAt(root0, n)), "backfilled")
  BY <1>4, <1>5 DEF BackfilledEntities
<1>7. k = EntityKey(EntityAt(root0, n)) /\ Migrated(l, rootOf)[k] = "backfilled"
  BY <1>1, <1>6 DEF Row, RowInTurn
<1>8. k[2] = EntityAt(root0, n)
  BY <1>7, EntityKeyParts
<1>9. CASE n = <<>>
  BY <1>7, <1>8, <1>9, EntityAtRoot
<1>10. CASE n # <<>>
  <2>1. PICK v \in l.files[f] : \E j \in 1..Len(v.node) : n = SubSeq(v.node, 1, j)
    BY <1>6, <1>10
  <2>2. f \in Folder /\ v \in Video[f]
    BY LegacyAssumption
  <2>3. v.node \in Seq(Nat) /\ Len(v.node) <= 2
    BY <2>2, FolderAssumption DEF Node
  <2>4. PICK j \in 1..Len(v.node) : n = SubSeq(v.node, 1, j)
    BY <2>1
  <2>5. n \in Seq(Nat) /\ Len(n) = j
    BY <2>3, <2>4
  <2>6. n \in Node /\ Len(n) > 0
    BY <2>3, <2>4, <2>5 DEF Node
  <2>7. Len(k[2]) = 1 + Len(n)
    BY <1>8, <2>6, EntityAtLen
  <2>8. Len(k[2]) > 1
    BY <2>5, <2>6, <2>7
  <2> QED
    BY <1>7, <1>8, <2>8
<1> QED
  BY <1>9, <1>10

LEMMA LegacyRootInjective ==
    /\ LegacyRoot \in [Entry -> RootId]
    /\ \A e, f \in Entry : LegacyRoot[e] = LegacyRoot[f] => e = f
<1>1. LegacyRoot \in [Entry -> RootId] /\ IsInjective(LegacyRoot)
  BY RootAssumption DEF LegacyRoot
<1> QED
  BY <1>1 DEF IsInjective

LEMMA EntityInit == Init => EntityInv
<1> SUFFICES ASSUME Init PROVE EntityInv
  OBVIOUS
<1>1. PICK l \in Legacy : db = WithDocuments(Migrated(l, LegacyRoot))
  BY DEF Init
<1> DEFINE table == Migrated(l, LegacyRoot)
<1>2. Identities(db) = Identities(table) /\ \A k \in Identities(db) : db[k] = table[k]
  BY <1>1, DocumentedIdentities
<1>3. \A k : k[1] = "media_entity" =>
         /\ k \in DOMAIN db <=> k \in DOMAIN table
         /\ k \in DOMAIN table => db[k] = table[k]
  BY <1>1, DocumentsAreAdded
<1>4. \A k \in Identities(db) :
         \E f \in DOMAIN l.said : k = IdentityKey(l.said[f].entry, <<>>) /\ db[k] = <<LegacyRoot[l.said[f].entry]>>
  BY <1>2, BackfilledIdentities
<1>5. \A f \in DOMAIN l.said : l.said[f].entry \in Entry
  BY LegacyAssumption, DetailAssumption DEF DetailType
<1>6. KeysShaped(db)
  <2>1. ASSUME NEW k \in DOMAIN db, k[1] = "media_entity" PROVE k = EntityKey(k[2])
    BY <1>3, <2>1, BackfilledEntity
  <2>2. \A k \in Identities(db) : k[3] = <<>>
    BY <1>4, IdentityKeyParts
  <2>3. <<>> \in Node
    BY DEF Node
  <2> QED
    BY <2>1, <2>2, <2>3 DEF KeysShaped
<1>7. DbRoots
  <2> SUFFICES ASSUME NEW k \in Identities(db), NEW m \in Identities(db),
                      RootOf(k[2], db) = RootOf(m[2], db)
               PROVE  k[2] = m[2]
    BY DEF DbRoots
  <2>1. PICK f \in DOMAIN l.said : k = IdentityKey(l.said[f].entry, <<>>) /\ db[k] = <<LegacyRoot[l.said[f].entry]>>
    BY <1>4
  <2>2. PICK g \in DOMAIN l.said : m = IdentityKey(l.said[g].entry, <<>>) /\ db[m] = <<LegacyRoot[l.said[g].entry]>>
    BY <1>4
  <2>3. k[2] = l.said[f].entry /\ m[2] = l.said[g].entry
    BY <2>1, <2>2, IdentityKeyParts
  <2>4. RootOf(k[2], db) = LegacyRoot[l.said[f].entry] /\ RootOf(m[2], db) = LegacyRoot[l.said[g].entry]
    BY <2>1, <2>2, <2>3 DEF RootOf
  <2> QED
    BY <1>5, <2>3, <2>4, LegacyRootInjective
<1>8. DbEntities
  <2> SUFFICES ASSUME NEW k \in Identities(db) PROVE EntityKey(db[k]) \in DOMAIN db
    BY DEF DbEntities, HasEntity
  <2>1. PICK f \in DOMAIN l.said : db[k] = <<LegacyRoot[l.said[f].entry]>>
    BY <1>4
  <2>2. EntityKey(db[k]) \in DOMAIN table
    BY <2>1, BackfilledRoot
  <2> QED
    BY <1>3, <2>2, EntityKeyParts
<1>9. DbIdentified
  <2> SUFFICES ASSUME NEW k \in DOMAIN db, k[1] = "media_entity"
               PROVE  \/ \E m \in Identities(db) : db[m] = k[2]
                      \/ Len(k[2]) > 1 /\ db[k] = "backfilled"
    BY DEF DbIdentified
  <2>1. k \in DOMAIN table /\ db[k] = table[k]
    BY <1>3
  <2>2. CASE \E f \in DOMAIN l.said : k[2] = <<LegacyRoot[l.said[f].entry]>>
    <3>1. PICK f \in DOMAIN l.said : k[2] = <<LegacyRoot[l.said[f].entry]>>
      BY <2>2
    <3> DEFINE m == IdentityKey(l.said[f].entry, <<>>)
    <3>2. m \in Identities(table) /\ table[m] = k[2]
      BY <3>1, BackfilledRoot
    <3> QED
      BY <1>2, <3>2
  <2>3. CASE Len(k[2]) > 1 /\ table[k] = "backfilled"
    BY <2>1, <2>3
  <2>4. \/ \E f \in DOMAIN l.said : k[2] = <<LegacyRoot[l.said[f].entry]>>
        \/ Len(k[2]) > 1 /\ table[k] = "backfilled"
    BY <2>1, BackfilledEntity
  <2> QED
    BY <2>2, <2>3, <2>4
<1>10. \A i \in Process : phase[i] = Idle /\ own[i] = <<>> /\ session[i] = {} /\ done[i] = {}
  BY DEF Init
<1>11. WorkTyped
  BY DEF Init, WorkTyped, Idle
<1>12. \A i \in Process : OwnRoot(i)
  BY <1>10 DEF OwnRoot, Working
<1>13. \A i \in Process : OwnEntities(i) /\ SessionRows(i)
  BY <1>10, IdleEntities
<1> QED
  BY <1>6, <1>7, <1>8, <1>9, <1>11, <1>12, <1>13 DEF EntityInv, ProcessEntities

LEMMA EntityNext == LockInv /\ TreeInv /\ EntityInv /\ [Next]_vars => EntityInv'
<1> SUFFICES ASSUME LockInv, TreeInv, EntityInv, [Next]_vars PROVE EntityInv'
  OBVIOUS
<1>1. LockInv' /\ TreeInv'
  BY LockStep, TreeStep
<1>2. CASE UNCHANGED vars
  <2>1. \A k \in Process : Same(k)
    BY <1>2 DEF vars, Same
  <2>2. UNCHANGED db /\ WorkTyped'
    BY <1>2 DEF vars, EntityInv, WorkTyped
  <2>3. \A k \in Process : OwnEntities(k)' /\ SessionRows(k)'
    BY <2>1, <2>2, OthersKeepEntities DEF EntityInv, ProcessEntities
  <2>4. \A k \in Process : Working(k)' => Working(k) /\ root'[k] = root[k] /\ work'[k] = work[k]
    BY <2>1 DEF Working, Same
  <2> QED
    BY <2>2, <2>3, <2>4, RootsKept, DatabaseKept DEF EntityInv, ProcessEntities
<1>3. CASE Next
  BY <1>1, <1>3, EntityBegin, EntityFlushMediaItem, EntitySelectFile, EntityFlushRoot, EntitySelectChild,
     EntityFlushChild, EntityFlushChildIdentity, EntitySelectRootIdentity, EntityFlushRootIdentity,
     EntityRefresh, EntityCommit, EntityRollBack DEF Next
<1> QED
  BY <1>2, <1>3

\* Entries have roots of their own, identities have entities and entities identities,
\* in the database and in every transaction: the inductive invariant of entities.
THEOREM EntityInvariant == Spec => [](LockInv /\ TreeInv /\ EntityInv)
<1>1. Init => EntityInv
  BY EntityInit
<1>2. LockInv /\ TreeInv /\ EntityInv /\ [Next]_vars => EntityInv'
  BY EntityNext
<1> QED
  BY <1>1, <1>2, TreeInvariant, PTL DEF Spec

\* No ingest leaves an orphaned tree or an entity without its identity, whatever
\* number of processes ingests and whatever the migration has left behind.
THEOREM IdentifiedEntities == Spec => []EntitiesAreIdentified
  BY EntityInvariant, EntityInvImplies, PTL

-----------------------------------------------------------------------------
(* Search documents. *)

DocumentsShaped == \A k \in DOMAIN db : k[1] = "search_document" => k = DocumentKey(k[2])

\* Aliases stay in the session until the commit, so a transaction sees those of
\* the database, and nobody else can commit any for its entities.
SearchRows(i) ==
    /\ \A s \in session[i] :
        /\ s.row.key[1] # "search_document"
        /\ s.row.key[1] = "entity_alias" =>
              phase[i] \in {"search", "commit"} /\ s.row.key[2] = <<root[i]>>
    /\ \A k \in DOMAIN own[i] :
        /\ k[1] # "entity_alias"
        /\ k[1] = "search_document" => phase[i] = "commit"
    /\ phase[i] = "commit" =>
        /\ \A k \in DOMAIN own[i] : k[1] = "search_document" =>
              \E n \in work[i].detail.nodes : k = DocumentKey(EntityAt(root[i], n))
        /\ \A n \in work[i].detail.nodes :
              LET key == DocumentKey(EntityAt(root[i], n))
              IN key \in DOMAIN own[i] /\ own[i][key] = AliasesOf(EntityAt(root[i], n), db)

\* The nodes a transaction makes entities for are those the provider lists.
NodesListed(i) ==
    /\ phase[i] # Idle => done[i] \subseteq work[i].detail.nodes
    /\ phase[i] \in {"flush_child", "flush_child_identity"} => child[i] \in work[i].detail.nodes
    /\ phase[i] \in {"flush_root_identity", "search", "commit"} =>
        work[i].detail.nodes \subseteq {<<>>} \cup done[i]

SearchInv ==
    /\ DocumentsShaped
    /\ EntitiesAreSearchable
    /\ \A i \in Process : SearchRows(i) /\ NodesListed(i)

Searched(key) == key[1] \in {"entity_alias", "search_document"}

LEMMA DocumentKeyParts ==
    ASSUME NEW x
    PROVE  DocumentKey(x)[1] = "search_document" /\ DocumentKey(x)[2] = x
  BY DEF DocumentKey

LEMMA SearchedRows ==
    ASSUME NEW d, NEW f, NEW r, NEW n
    PROVE  /\ ~Searched(ItemRow(d).key)
           /\ ~Searched(EntityRow(n, r).key)
           /\ ~Searched(IdentityRow(d, n, r).key)
           /\ \A q \in LegacyImageRows(d, f) : ~Searched(q.key)
<1> USE DEF Searched, Row, RowInTurn
<1>1. ~Searched(ItemRow(d).key) /\ ~Searched(EntityRow(n, r).key) /\ ~Searched(IdentityRow(d, n, r).key)
  BY DEF ItemRow, ItemKey, EntityRow, EntityKey, IdentityRow, IdentityKey
<1>2. \A q \in LegacyImageRows(d, f) : ~Searched(q.key)
  BY DEF LegacyImageRows, ImageKey
<1> QED
  BY <1>1, <1>2

LEMMA UnflushedAliases ==
    ASSUME NEW d, NEW f, NEW r, NEW q \in EntryRows(d, f, r)
    PROVE  q.key[1] # "search_document" /\ (q.key[1] = "entity_alias" => q.key[2] = <<r>>)
<1> USE DEF Searched, Row, RowInTurn
<1>1. q \in AliasRows(d, f, r) => q.key[1] = "entity_alias" /\ q.key[2] = <<r>>
  BY DEF AliasRows, AliasKey
<1>3. q \in ProviderAssetRows(d, f, r) => ~Searched(q.key)
  BY DEF ProviderAssetRows, AssetKey
<1>4. q \in LocalAssetRows(d, f, r) => ~Searched(q.key)
  BY DEF LocalAssetRows, AssetKey
<1> QED
  BY <1>1, <1>3, <1>4 DEF EntryRows

\* A step of process i that commits nothing.
LEMMA SearchStep ==
    ASSUME SearchInv, NEW i \in Process, UNCHANGED db, \A k \in Process \ {i} : Same(k),
           SearchRows(i)', NodesListed(i)'
    PROVE  SearchInv'
<1>1. ASSUME NEW k \in Process \ {i} PROVE SearchRows(k)' /\ NodesListed(k)'
  <2>1. Same(k) /\ SearchRows(k) /\ NodesListed(k)
    BY DEF SearchInv
  <2>2. SearchRows(k)'
    BY <2>1 DEF Same, SearchRows, AliasesOf
  <2>3. NodesListed(k)'
    BY <2>1 DEF Same, NodesListed
  <2> QED
    BY <2>2, <2>3
<1>2. DocumentsShaped' /\ EntitiesAreSearchable'
  BY DEF SearchInv, DocumentsShaped, EntitiesAreSearchable, Documents, Entities, AliasesOf
<1> QED
  BY <1>1, <1>2 DEF SearchInv

\* Before the refresh a transaction has neither aliases nor documents.
LEMMA QuietRows ==
    ASSUME NEW i \in Process, phase'[i] # "commit",
           \A k \in DOMAIN own'[i] : ~Searched(k), \A s \in session'[i] : ~Searched(s.row.key)
    PROVE  SearchRows(i)'
  BY DEF SearchRows, Searched

LEMMA QuietlyWritten ==
    ASSUME StateTyped, NEW i \in Process, Writes(i, Written(i)), SearchRows(i),
           phase[i] \notin {"search", "commit"}
    PROVE  \A k \in DOMAIN own'[i] : ~Searched(k)
<1>1. \A q \in Written(i) : ~Searched(q.key)
  BY WrittenIsInSession DEF SearchRows, Searched
<1>2. \A k \in DOMAIN Table(Written(i)) : \E q \in Written(i) : q.key = k
  BY TableRows
<1>3. DOMAIN own'[i] = DOMAIN Table(Written(i)) \cup DOMAIN own[i]
  BY WritesKeys
<1>4. \A k \in DOMAIN own[i] : ~Searched(k)
  BY DEF SearchRows, Searched
<1> QED
  BY <1>1, <1>2, <1>3, <1>4

\* The steps of a process leave the others alone.
LEMMA OthersSame ==
    ASSUME LockInv, EntityInv, NEW i \in Process,
           \/ Begin(i) \/ FlushMediaItem(i) \/ SelectFile(i) \/ FlushRoot(i)
           \/ (\E n \in work[i].detail.nodes : SelectChild(i, n))
           \/ FlushChild(i) \/ FlushChildIdentity(i) \/ SelectRootIdentity(i)
           \/ FlushRootIdentity(i) \/ RefreshSearchDocuments(i)
    PROVE  \A k \in Process \ {i} : Same(k)
<1>1. \A k \in Process \ {i} : own'[k] = own[k]
  <2>1. UNCHANGED own \/ (\E rows : Writes(i, rows))
    BY FlushWrites, RefreshWrites
       DEF Begin, FlushMediaItem, SelectFile, FlushRoot, SelectChild, FlushChild, FlushChildIdentity,
           SelectRootIdentity, FlushRootIdentity
  <2> QED
    BY <2>1, WritesKeys DEF LockInv
<1>2. \A k \in Process \ {i} : phase'[k] = phase[k]
  BY DEF LockInv, StateTyped, At, Begin, FlushMediaItem, SelectFile, FlushRoot, SelectChild, FlushChild,
         FlushChildIdentity, SelectRootIdentity, FlushRootIdentity, RefreshSearchDocuments
<1>3. \A k \in Process \ {i} : work'[k] = work[k] /\ root'[k] = root[k]
  BY DEF LockInv, StateTyped, Begin, FlushMediaItem, SelectFile, FlushRoot, SelectChild, FlushChild,
         FlushChildIdentity, SelectRootIdentity, FlushRootIdentity, RefreshSearchDocuments
<1>4. \A k \in Process \ {i} : session'[k] = session[k]
  BY DEF LockInv, StateTyped, Add, Begin, FlushMediaItem, SelectFile, FlushRoot, SelectChild, FlushChild,
         FlushChildIdentity, SelectRootIdentity, FlushRootIdentity, RefreshSearchDocuments
<1>5. \A k \in Process \ {i} : done'[k] = done[k] /\ child'[k] = child[k]
  BY DEF EntityInv, WorkTyped, Begin, FlushMediaItem, SelectFile, FlushRoot, SelectChild, FlushChild,
         FlushChildIdentity, SelectRootIdentity, FlushRootIdentity, RefreshSearchDocuments
<1> QED
  BY <1>1, <1>2, <1>3, <1>4, <1>5 DEF Same

LEMMA SearchBegin ==
    ASSUME LockInv, EntityInv, SearchInv, NEW i \in Process, Begin(i)
    PROVE  SearchInv'
<1>1. PICK d \in Detail : Add(i, {ItemRow(d)})
  BY DEF Begin
<1>2. phase[i] = Idle /\ phase'[i] = "flush_item" /\ UNCHANGED <<db, own, done>>
  BY DEF Begin, At, LockInv, StateTyped
<1>3. own[i] = <<>> /\ DOMAIN own[i] = {} /\ done[i] = {}
  BY <1>2 DEF LockInv, Locked, EntityInv, ProcessEntities, OwnEntities
<1>4. \A s \in session'[i] : s.row = ItemRow(d)
  BY <1>1, Added
<1>5. SearchRows(i)'
  BY <1>2, <1>3, <1>4, SearchedRows, QuietRows
<1>6. NodesListed(i)'
  BY <1>2, <1>3 DEF NodesListed
<1> QED
  BY <1>2, <1>5, <1>6, OthersSame, SearchStep

LEMMA SearchFlushMediaItem ==
    ASSUME LockInv, EntityInv, SearchInv, NEW i \in Process, FlushMediaItem(i)
    PROVE  SearchInv'
<1>1. PICK r : Add(i, LegacyImageRows(work[i].detail, work[i].folder) \cup {EntityRow(<<>>, r)})
  BY DEF FlushMediaItem
<1>2. /\ phase[i] = "flush_item" /\ phase'[i] = "flush_root"
      /\ Writes(i, Written(i)) /\ UNCHANGED <<db, work, done, child>>
  BY FlushWrites DEF FlushMediaItem, At, LockInv, StateTyped
<1>3. \A k \in DOMAIN own'[i] : ~Searched(k)
  BY <1>2, QuietlyWritten DEF LockInv, SearchInv
<1>4. \A s \in session'[i] : ~Searched(s.row.key)
  <2>1. \A s \in session'[i] :
           s.row \in LegacyImageRows(work[i].detail, work[i].folder) \cup {EntityRow(<<>>, r)}
    BY <1>1, Added
  <2> QED
    BY <2>1, SearchedRows
<1>5. SearchRows(i)'
  BY <1>2, <1>3, <1>4, QuietRows
<1>6. NodesListed(i)'
  BY <1>2 DEF SearchInv, NodesListed, Idle
<1> QED
  BY <1>2, <1>5, <1>6, OthersSame, SearchStep

LEMMA SearchSelectFile ==
    ASSUME LockInv, EntityInv, SearchInv, NEW i \in Process, SelectFile(i)
    PROVE  SearchInv'
<1>1. PICK q : FileSelected(i, q)
  BY FileIsSelected
<1>2. /\ phase[i] \in {"flush_root", "search"} /\ phase'[i] = phase[i]
      /\ UNCHANGED <<db, phase, work, own, root, done, child>>
  BY <1>1 DEF FileSelected
<1>3. session'[i] = session[i] \cup Selected(i, {q}) /\ ~Searched(q.key)
  BY <1>1 DEF FileSelected, LockInv, StateTyped, Searched
<1>4. \A s \in session'[i] : s \in session[i] \/ ~Searched(s.row.key)
  BY <1>3, SelectedRows
<1>5. SearchRows(i)'
  BY <1>2, <1>4 DEF SearchInv, SearchRows, Searched
<1>6. NodesListed(i)'
  BY <1>2 DEF SearchInv, NodesListed
<1> QED
  BY <1>2, <1>5, <1>6, OthersSame, SearchStep

LEMMA SearchFlushRoot ==
    ASSUME LockInv, EntityInv, SearchInv, NEW i \in Process, FlushRoot(i) \/ FlushChildIdentity(i)
    PROVE  SearchInv'
<1>1. /\ phase[i] \in {"flush_root", "flush_child_identity"} /\ phase'[i] = "children"
      /\ Writes(i, Written(i)) /\ Add(i, {}) /\ UNCHANGED <<db, work>>
  BY FlushWrites DEF FlushRoot, FlushChildIdentity, At, LockInv, StateTyped
<1>2. \A k \in DOMAIN own'[i] : ~Searched(k)
  BY <1>1, QuietlyWritten DEF LockInv, SearchInv
<1>3. \A s \in session'[i] : s.row \in {}
  BY <1>1, Added
<1>4. SearchRows(i)'
  BY <1>1, <1>2, <1>3, QuietRows
<1>5. done'[i] \subseteq work[i].detail.nodes
  BY <1>1 DEF FlushRoot, FlushChildIdentity, At, SearchInv, NodesListed, EntityInv, WorkTyped, Idle
<1>6. NodesListed(i)'
  BY <1>1, <1>5 DEF NodesListed
<1> QED
  BY <1>1, <1>4, <1>6, OthersSame, SearchStep

LEMMA SearchSelectChild ==
    ASSUME LockInv, EntityInv, SearchInv, NEW i \in Process,
           NEW n \in work[i].detail.nodes, SelectChild(i, n)
    PROVE  SearchInv'
<1>1. /\ phase[i] = "children" /\ phase'[i] = "flush_child"
      /\ Add(i, {EntityRow(n, root[i])}) /\ UNCHANGED <<db, work, own, done>>
  BY DEF SelectChild, At, LockInv, StateTyped
<1>2. \A k \in DOMAIN own'[i] : ~Searched(k)
  BY <1>1 DEF SearchInv, SearchRows, Searched
<1>3. \A s \in session'[i] : s.row = EntityRow(n, root[i])
  BY <1>1, Added
<1>4. SearchRows(i)'
  BY <1>1, <1>2, <1>3, SearchedRows, QuietRows
<1>5. child'[i] = n
  BY DEF SelectChild, EntityInv, WorkTyped
<1>6. NodesListed(i)'
  BY <1>1, <1>5 DEF SearchInv, NodesListed, Idle
<1> QED
  BY <1>1, <1>4, <1>6, OthersSame, SearchStep

LEMMA SearchFlushChild ==
    ASSUME LockInv, EntityInv, SearchInv, NEW i \in Process, FlushChild(i)
    PROVE  SearchInv'
<1>1. /\ phase[i] = "flush_child" /\ phase'[i] = "flush_child_identity"
      /\ Writes(i, Written(i)) /\ Add(i, {IdentityRow(work[i].detail, child[i], root[i])})
      /\ UNCHANGED <<db, work, done, child>>
  BY FlushWrites DEF FlushChild, At, LockInv, StateTyped
<1>2. \A k \in DOMAIN own'[i] : ~Searched(k)
  BY <1>1, QuietlyWritten DEF LockInv, SearchInv
<1>3. \A s \in session'[i] : ~Searched(s.row.key)
  <2>1. \A s \in session'[i] : s.row = IdentityRow(work[i].detail, child[i], root[i])
    BY <1>1, Added
  <2>2. ~Searched(IdentityRow(work[i].detail, child[i], root[i]).key)
    BY SearchedRows
  <2> QED
    BY <2>1, <2>2
<1>4. SearchRows(i)'
  BY <1>1, <1>2, <1>3, QuietRows
<1>5. NodesListed(i)'
  BY <1>1 DEF SearchInv, NodesListed, Idle
<1> QED
  BY <1>1, <1>4, <1>5, OthersSame, SearchStep

LEMMA SearchSelectRootIdentity ==
    ASSUME LockInv, EntityInv, SearchInv, NEW i \in Process, SelectRootIdentity(i)
    PROVE  SearchInv'
<1>1. /\ phase[i] = "children" /\ phase'[i] = "flush_root_identity"
      /\ Add(i, {IdentityRow(work[i].detail, <<>>, root[i])})
      /\ UNCHANGED <<db, work, own, done, child>>
      /\ work[i].detail.nodes \subseteq {<<>>} \cup done[i]
  BY DEF SelectRootIdentity, At, LockInv, StateTyped
<1>2. \A k \in DOMAIN own'[i] : ~Searched(k)
  BY <1>1 DEF SearchInv, SearchRows, Searched
<1>3. \A s \in session'[i] : s.row = IdentityRow(work[i].detail, <<>>, root[i])
  BY <1>1, Added
<1>4. SearchRows(i)'
  BY <1>1, <1>2, <1>3, SearchedRows, QuietRows
<1>5. NodesListed(i)'
  BY <1>1 DEF SearchInv, NodesListed, Idle
<1> QED
  BY <1>1, <1>4, <1>5, OthersSame, SearchStep

LEMMA SearchFlushRootIdentity ==
    ASSUME LockInv, EntityInv, SearchInv, NEW i \in Process, FlushRootIdentity(i)
    PROVE  SearchInv'
<1> DEFINE rows == EntryRows(work[i].detail, work[i].folder, root[i])
<1>1. /\ phase[i] = "flush_root_identity" /\ phase'[i] = "search"
      /\ Writes(i, Written(i)) /\ Add(i, rows) /\ UNCHANGED <<db, work, root, done, child>>
  BY FlushWrites DEF FlushRootIdentity, At, LockInv, StateTyped
<1>2. \A k \in DOMAIN own'[i] : ~Searched(k)
  BY <1>1, QuietlyWritten DEF LockInv, SearchInv
<1>3. \A s \in session'[i] : s.row \in rows
  BY <1>1, Added
<1>4. \A q \in rows : q.key[1] # "search_document" /\ (q.key[1] = "entity_alias" => q.key[2] = <<root[i]>>)
  BY UnflushedAliases
<1> HIDE DEF rows
<1>5. SearchRows(i)'
  BY <1>1, <1>2, <1>3, <1>4 DEF SearchRows, Searched
<1>6. NodesListed(i)'
  BY <1>1 DEF SearchInv, NodesListed, Idle
<1> QED
  BY <1>1, <1>5, <1>6, OthersSame, SearchStep

LEMMA SearchRefresh ==
    ASSUME LockInv, EntityInv, SearchInv, NEW i \in Process, RefreshSearchDocuments(i)
    PROVE  SearchInv'
<1> DEFINE Doc(x) == Row(DocumentKey(x), AliasesOf(x, Visible(i)))
           rows == {Doc(x) : x \in Documented(i)}
<1>1. /\ phase[i] = "search" /\ phase'[i] = "commit"
      /\ Writes(i, rows) /\ UNCHANGED <<db, work, session, root, done, child>>
  BY DEF RefreshSearchDocuments, Writes, At, LockInv, StateTyped
<1>2. SearchRows(i) /\ \A k \in DOMAIN own[i] : ~Searched(k)
  BY <1>1 DEF SearchInv, SearchRows, Searched
<1>3. \A x : Doc(x).key = DocumentKey(x) /\ Doc(x).value = AliasesOf(x, Visible(i)) /\ Doc(x).turn = 0
  BY DEF Row, RowInTurn
<1>4. \A x : AliasesOf(x, Visible(i)) = AliasesOf(x, db)
  <2>1. DOMAIN Visible(i) = DOMAIN own[i] \cup DOMAIN db
    BY OverKeys DEF Visible
  <2> QED
    BY <1>2, <2>1 DEF AliasesOf, Searched
<1>5. ASSUME NEW k \in DOMAIN Table(rows)
      PROVE  \E x \in Documented(i) : k = DocumentKey(x) /\ Table(rows)[k] = AliasesOf(x, db)
  <2>1. PICK r \in rows : r.key = k /\ Table(rows)[k] = r.value
    BY TableRows
  <2>2. PICK x \in Documented(i) : r = Doc(x)
    BY <2>1
  <2> QED
    BY <1>3, <1>4, <2>1, <2>2
<1>6. ASSUME NEW x \in Documented(i)
      PROVE  DocumentKey(x) \in DOMAIN Table(rows) /\ Table(rows)[DocumentKey(x)] = AliasesOf(x, db)
  <2>1. Doc(x) \in rows /\ Doc(x).key = DocumentKey(x)
    BY <1>3
  <2>2. \A q \in rows : q.key = Doc(x).key => q.turn <= Doc(x).turn
    BY <1>3
  <2>3. DocumentKey(x) \in DOMAIN Table(rows)
    <3> HIDE DEF rows, Doc
    <3> QED
      BY <2>1, <2>2, TableOfDistinctRows
  <2>4. PICK y \in Documented(i) :
           DocumentKey(x) = DocumentKey(y) /\ Table(rows)[DocumentKey(x)] = AliasesOf(y, db)
    BY <1>5, <2>3
  <2>5. x = y
    BY <2>4, DocumentKeyParts
  <2> QED
    BY <2>3, <2>4, <2>5
<1> HIDE DEF rows, Doc
<1>7. own'[i] = Over(Table(rows), own[i]) /\ DOMAIN own'[i] = DOMAIN Table(rows) \cup DOMAIN own[i]
  BY <1>1, WritesKeys DEF LockInv, StateTyped, Writes
<1>8. \A x : x \in Documented(i) <=> \E n \in work[i].detail.nodes : x = EntityAt(root[i], n)
  BY DEF Documented
<1>9. \A k \in DOMAIN own'[i] :
         /\ k[1] # "entity_alias"
         /\ k[1] = "search_document" =>
               \E n \in work[i].detail.nodes : k = DocumentKey(EntityAt(root[i], n))
  BY <1>2, <1>5, <1>7, <1>8, DocumentKeyParts DEF Searched
<1>10. ASSUME NEW n \in work[i].detail.nodes
       PROVE  /\ DocumentKey(EntityAt(root[i], n)) \in DOMAIN own'[i]
              /\ own'[i][DocumentKey(EntityAt(root[i], n))] = AliasesOf(EntityAt(root[i], n), db)
  <2>1. EntityAt(root[i], n) \in Documented(i)
    BY <1>8
  <2> QED
    BY <1>6, <1>7, <2>1 DEF Over
<1>11. SearchRows(i)'
  <2>1. \A s \in session'[i] :
          /\ s.row.key[1] # "search_document"
          /\ s.row.key[1] = "entity_alias" => s.row.key[2] = <<root[i]>>
    BY <1>1, <1>2 DEF SearchRows
  <2> QED
    BY <1>1, <1>9, <1>10, <2>1 DEF SearchRows, AliasesOf
<1>12. NodesListed(i)'
  BY <1>1 DEF SearchInv, NodesListed, Idle
<1> QED
  BY <1>1, <1>11, <1>12, OthersSame, SearchStep

LEMMA SearchRollBack ==
    ASSUME LockInv, EntityInv, SearchInv, NEW i \in Process, Violate(i) \/ RollBack(i)
    PROVE  SearchInv'
<1>1. Ended(i) /\ UNCHANGED db
  BY DEF Violate, RollBack
<1>2. /\ phase'[i] = Idle /\ own'[i] = <<>> /\ session'[i] = {}
      /\ \A k \in Process \ {i} : Same(k)
  BY <1>1 DEF Ended, LockInv, StateTyped, EntityInv, WorkTyped, Same
<1>3. DOMAIN own'[i] = {}
  BY <1>2
<1>4. SearchRows(i)'
  BY <1>2, <1>3, QuietRows DEF Idle
<1>5. NodesListed(i)'
  BY <1>2 DEF NodesListed, Idle
<1> QED
  BY <1>1, <1>2, <1>4, <1>5, SearchStep

\* The documents and aliases that a commit leaves.
LEMMA CommittedDocuments ==
    ASSUME LockInv, SearchInv, NEW i \in Process, Commit(i), NEW k \in DOMAIN db'
    PROVE  /\ k[1] = "search_document" =>
                /\ k \in DOMAIN own[i] \cup DOMAIN db
                /\ db'[k] = IF k \in DOMAIN own[i] THEN own[i][k] ELSE db[k]
           /\ k[1] = "entity_alias" => k \in DOMAIN db \/ k[2] = <<root[i]>>
<1>1. db' = Over(Table(Written(i)), Over(own[i], db)) /\ SearchRows(i)
  BY DEF Commit, Visible, SearchInv
<1>2. k \in DOMAIN Table(Written(i)) =>
         k[1] # "search_document" /\ (k[1] = "entity_alias" => k[2] = <<root[i]>>)
  BY <1>1, TableRows, WrittenIsInSession DEF SearchRows
<1>3. k \in DOMAIN Table(Written(i)) \cup (DOMAIN own[i] \cup DOMAIN db)
  BY CommittedKeys
<1>4. k \in DOMAIN own[i] => k[1] # "entity_alias"
  BY <1>1 DEF SearchRows
<1> QED
  BY <1>1, <1>2, <1>3, <1>4 DEF Over

\* The entities that a commit adds are those that the provider lists.
LEMMA CommittedNodes ==
    ASSUME LockInv, TreeInv, TreeInv', EntityInv, EntityInv', SearchInv, NEW i \in Process, Commit(i)
    PROVE  /\ \A k \in DOMAIN own[i] : k[1] = "media_entity" =>
                \E n \in work[i].detail.nodes : k[2] = EntityAt(root[i], n)
           /\ \A n \in work[i].detail.nodes : HasEntity(EntityAt(root[i], n), db')
<1>1. phase[i] = "commit" /\ OwnEntities(i) /\ NodesListed(i)
  BY DEF Commit, EntityInv, ProcessEntities, SearchInv
<1>2. <<>> \in work[i].detail.nodes
  BY <1>1, DetailAssumption DEF EntityInv, WorkTyped, Idle
<1>3. \A n \in Nodes(i) : n \in work[i].detail.nodes
  BY <1>1, <1>2 DEF Nodes, Pending, NodesListed, Idle
<1>4. DOMAIN own[i] \subseteq DOMAIN db'
  BY CommittedKeys
<1>5. ASSUME NEW n \in work[i].detail.nodes PROVE HasEntity(EntityAt(root[i], n), db')
  <2>1. n = <<>> \/ n \in done[i]
    BY <1>1 DEF NodesListed
  <2>2. CASE n = <<>>
    BY <1>1, <1>4, <2>2 DEF OwnEntities, HasEntity, Idle
  <2>3. CASE n \in done[i]
    <3> DEFINE m == IdentityKey(EntryAt(i), n)
    <3>1. m \in DOMAIN own[i] \cup DOMAIN db
      BY <1>1, <2>3 DEF OwnEntities
    <3>2. m[1] = "provider_identity" /\ m[2] = EntryAt(i) /\ m[3] = n
      BY IdentityKeyParts
    <3> HIDE DEF m
    <3>3. m \in Identities(db')
      BY <3>1, <3>2, CommittedKeys DEF Identities
    <3>4. db'[m] = EntityAt(db'[IdentityKey(EntryAt(i), <<>>)][1], n)
      BY <3>2, <3>3 DEF TreeInv, DbTree
    <3>5. db'[m] = EntityAt(root[i], n)
      BY <3>4, CommittedRoot
    <3> QED
      BY <3>3, <3>5 DEF EntityInv, DbEntities
  <2> QED
    BY <2>1, <2>2, <2>3
<1> QED
  BY <1>1, <1>3, <1>5 DEF OwnEntities

LEMMA AliasesGrow ==
    ASSUME NEW i \in Process, Commit(i), NEW x
    PROVE  AliasesOf(x, db) \subseteq AliasesOf(x, db')
  BY CommittedKeys DEF AliasesOf

\* An ingest that is to commit has its entities to itself, and so their aliases.
LEMMA AliasesOfOthers ==
    ASSUME LockInv, EntityInv, SearchInv, NEW i \in Process, Commit(i),
           NEW k \in Process \ {i}, Working(k), NEW n \in Node
    PROVE  AliasesOf(EntityAt(root[k], n), db') = AliasesOf(EntityAt(root[k], n), db)
<1> DEFINE x == EntityAt(root[k], n)
<1>1. root[i] # root[k]
  BY DEF Commit, EntityInv, ProcessEntities, OwnRoot, Working, Idle
<1>2. <<>> \in Node
  BY DEF Node
<1>3. x # <<root[i]>>
  <2>1. x # EntityAt(root[i], <<>>)
    BY <1>1, <1>2, EntityAtInjective
  <2>2. EntityAt(root[i], <<>>) = <<root[i]>>
    BY EntityAtRoot
  <2> QED
    BY <2>1, <2>2
<1> HIDE DEF x
<1>4. \A a \in AliasesOf(x, db') : a \in AliasesOf(x, db)
  BY <1>3, CommittedDocuments DEF AliasesOf
<1>5. AliasesOf(x, db') = AliasesOf(x, db)
  BY <1>4, AliasesGrow
<1> QED
  BY <1>5 DEF x

LEMMA SearchCommit ==
    ASSUME LockInv, TreeInv, TreeInv', EntityInv, EntityInv', SearchInv, NEW i \in Process, Commit(i)
    PROVE  SearchInv'
<1>1. Ended(i) /\ phase[i] = "commit" /\ SearchRows(i)
  BY DEF Commit, SearchInv
<1>2. DOMAIN own[i] \subseteq DOMAIN db' /\ DOMAIN db \subseteq DOMAIN db'
  BY CommittedKeys
<1>3. /\ phase'[i] = Idle /\ own'[i] = <<>> /\ session'[i] = {}
      /\ \A k \in Process \ {i} : Same(k)
  BY <1>1 DEF Ended, LockInv, StateTyped, EntityInv, WorkTyped, Same
<1>4. DocumentsShaped'
  <2> SUFFICES ASSUME NEW k \in DOMAIN db', k[1] = "search_document" PROVE k = DocumentKey(k[2])
    BY DEF DocumentsShaped
  <2>1. CASE k \in DOMAIN own[i]
    BY <1>1, <2>1, DocumentKeyParts DEF SearchRows
  <2>2. CASE k \notin DOMAIN own[i]
    BY <2>2, CommittedDocuments DEF SearchInv, DocumentsShaped
  <2> QED
    BY <2>1, <2>2
<1>5. ASSUME NEW x \in Documents(db')
      PROVE  x \in Entities(db') /\ db'[DocumentKey(x)] \subseteq AliasesOf(x, db')
  <2>1. DocumentKey(x) \in DOMAIN db'
    BY <1>4 DEF Documents, DocumentsShaped
  <2>2. CASE DocumentKey(x) \in DOMAIN own[i]
    <3>1. PICK n \in work[i].detail.nodes : DocumentKey(x) = DocumentKey(EntityAt(root[i], n))
      BY <1>1, <2>2, DocumentKeyParts DEF SearchRows
    <3>2. x = EntityAt(root[i], n)
      BY <3>1, DocumentKeyParts
    <3>3. EntityKey(x) \in DOMAIN db'
      BY <3>2, CommittedNodes DEF HasEntity
    <3>4. own[i][DocumentKey(x)] = AliasesOf(x, db)
      BY <1>1, <3>2 DEF SearchRows
    <3>5. db'[DocumentKey(x)] = own[i][DocumentKey(x)]
      BY <2>1, <2>2, CommittedDocuments, DocumentKeyParts
    <3> QED
      BY <3>3, <3>4, <3>5, AliasesGrow, EntityKeyParts DEF Entities
  <2>3. CASE DocumentKey(x) \notin DOMAIN own[i]
    <3>1. DocumentKey(x) \in DOMAIN db /\ db'[DocumentKey(x)] = db[DocumentKey(x)]
      BY <2>1, <2>3, CommittedDocuments, DocumentKeyParts
    <3>2. x \in Documents(db)
      BY <3>1, DocumentKeyParts DEF Documents
    <3>3. x \in Entities(db) /\ db[DocumentKey(x)] \subseteq AliasesOf(x, db)
      BY <3>2 DEF SearchInv, EntitiesAreSearchable
    <3> QED
      BY <1>2, <3>1, <3>3, AliasesGrow DEF Entities
  <2> QED
    BY <2>2, <2>3
<1>6. ASSUME NEW x \in Entities(db') PROVE x \in Documents(db')
  <2>1. PICK k \in DOMAIN db' : k[1] = "media_entity" /\ k[2] = x
    BY DEF Entities
  <2>2. CASE k \in DOMAIN own[i]
    <3>1. PICK n \in work[i].detail.nodes : x = EntityAt(root[i], n)
      BY <2>1, <2>2, CommittedNodes
    <3>2. DocumentKey(x) \in DOMAIN db'
      BY <1>1, <1>2, <3>1 DEF SearchRows
    <3> QED
      BY <3>2, DocumentKeyParts DEF Documents
  <2>3. CASE k \in DOMAIN db
    <3>1. x \in Entities(db)
      BY <2>1, <2>3 DEF Entities
    <3>2. x \in Documents(db)
      BY <3>1 DEF SearchInv, EntitiesAreSearchable
    <3> QED
      BY <1>2, <3>2 DEF Documents
  <2> QED
    BY <2>1, <2>2, <2>3, CommittedEntities
<1>7. EntitiesAreSearchable'
  BY <1>5, <1>6 DEF EntitiesAreSearchable
<1>8. ASSUME NEW k \in Process \ {i} PROVE SearchRows(k)' /\ NodesListed(k)'
  <2>1. Same(k) /\ SearchRows(k) /\ NodesListed(k)
    BY <1>3 DEF SearchInv
  <2>2. NodesListed(k)'
    BY <2>1 DEF Same, NodesListed
  <2>3. ASSUME phase[k] = "commit", NEW n \in work[k].detail.nodes
        PROVE  AliasesOf(EntityAt(root[k], n), db') = AliasesOf(EntityAt(root[k], n), db)
    <3>1. Working(k) /\ work[k].detail \in Detail
      BY <2>3 DEF Working, EntityInv, WorkTyped, Idle
    <3>2. n \in Node
      BY <3>1, DetailAssumption DEF DetailType
    <3> QED
      BY <3>1, <3>2, AliasesOfOthers
  <2>4. SearchRows(k)'
    BY <2>1, <2>3 DEF Same, SearchRows
  <2> QED
    BY <2>2, <2>4
<1>9. DOMAIN own'[i] = {}
  BY <1>3
<1>10. SearchRows(i)' /\ NodesListed(i)'
  BY <1>3, <1>9, QuietRows DEF NodesListed, Idle
<1> QED
  BY <1>4, <1>7, <1>8, <1>10 DEF SearchInv

-----------------------------------------------------------------------------

\* The migration of the schema makes no documents.
LEMMA NoDocumentsBackfilled ==
    ASSUME NEW l, NEW rootOf, NEW k \in DOMAIN Migrated(l, rootOf)
    PROVE  k[1] # "search_document"
<1>1. PICK r \in BackfilledTable(l, rootOf) : r.key = k
  BY TableRows DEF Migrated, BackfilledTable
<1> USE DEF Row, RowInTurn
<1>2. ASSUME NEW f \in DOMAIN l.said, r \in LegacyOfFolder(l, f)
      PROVE  r.key[1] # "search_document"
  BY <1>2 DEF LegacyOfFolder, ItemRow, ItemKey, LegacyFileRows, LegacyImageRows, LegacyFileKey, ImageKey
<1>3. ASSUME NEW f \in DOMAIN l.said, r \in BackfilledEntities(l.said[f], l.files[f], rootOf[l.said[f].entry])
      PROVE  r.key[1] # "search_document"
  BY <1>3 DEF BackfilledEntities, EntityKey
<1>4. ASSUME NEW f \in DOMAIN l.said, r \in BackfilledRows(l.said[f], f, l.files[f], rootOf[l.said[f].entry])
      PROVE  r.key[1] # "search_document"
  BY <1>4 DEF BackfilledRows, IdentityKey, AliasKey, FileKey, AssetKey
<1> QED
  BY <1>1, <1>2, <1>3, <1>4 DEF BackfilledTable, LegacyTables, LegacyOfFolder

\* Migration 0005 makes one for every entity, with all its aliases.
LEMMA DocumentsOfEntities ==
    ASSUME NEW table, NEW t, t = WithDocuments(table),
           \A k \in DOMAIN table : k[1] # "search_document"
    PROVE  /\ \A k \in DOMAIN t : k[1] = "search_document" =>
                \E x \in Entities(table) : k = DocumentKey(x) /\ t[k] = AliasesOf(x, table)
           /\ \A x \in Entities(table) : DocumentKey(x) \in DOMAIN t
<1> DEFINE Doc(x) == Row(DocumentKey(x), AliasesOf(x, table))
           rows == {Doc(x) : x \in Entities(table)}
<1>1. t = Over(Table(rows), table)
  BY DEF WithDocuments
<1>2. \A x : Doc(x).key = DocumentKey(x) /\ Doc(x).value = AliasesOf(x, table) /\ Doc(x).turn = 0
  BY DEF Row, RowInTurn
<1>3. ASSUME NEW k \in DOMAIN Table(rows)
      PROVE  \E x \in Entities(table) : k = DocumentKey(x) /\ Table(rows)[k] = AliasesOf(x, table)
  <2>1. PICK r \in rows : r.key = k /\ Table(rows)[k] = r.value
    <3> HIDE DEF rows
    <3> QED
      BY TableRows
  <2> QED
    BY <1>2, <2>1
<1>4. ASSUME NEW x \in Entities(table) PROVE DocumentKey(x) \in DOMAIN Table(rows)
  <2>1. Doc(x) \in rows /\ Doc(x).key = DocumentKey(x)
    BY <1>2
  <2>2. \A q \in rows : q.key = Doc(x).key => q.turn <= Doc(x).turn
    BY <1>2
  <2> HIDE DEF rows, Doc
  <2> QED
    BY <2>1, <2>2, TableOfDistinctRows
<1> HIDE DEF rows, Doc
<1>5. DOMAIN t = DOMAIN Table(rows) \cup DOMAIN table
  BY <1>1, OverKeys
<1> QED
  BY <1>1, <1>3, <1>4, <1>5 DEF Over

LEMMA SearchInit == Init => SearchInv
<1> SUFFICES ASSUME Init PROVE SearchInv
  OBVIOUS
<1>1. PICK l \in Legacy : db = WithDocuments(Migrated(l, LegacyRoot))
  BY DEF Init
<1> DEFINE table == Migrated(l, LegacyRoot)
<1>2. \A k \in DOMAIN table : k[1] # "search_document"
  BY NoDocumentsBackfilled
<1>3. /\ \A k \in DOMAIN db : k[1] = "search_document" =>
           \E x \in Entities(table) : k = DocumentKey(x) /\ db[k] = AliasesOf(x, table)
      /\ \A x \in Entities(table) : DocumentKey(x) \in DOMAIN db
  BY <1>1, <1>2, DocumentsOfEntities
<1>4. \A k : k[1] # "search_document" => (k \in DOMAIN db <=> k \in DOMAIN table)
  BY <1>1, DocumentsAreAdded
<1> HIDE DEF table
<1>5. Entities(db) = Entities(table)
  BY <1>4 DEF Entities
<1>6. \A x : AliasesOf(x, db) = AliasesOf(x, table)
  BY <1>4 DEF AliasesOf
<1>7. DocumentsShaped
  BY <1>3, DocumentKeyParts DEF DocumentsShaped
<1>8. EntitiesAreSearchable
  <2>1. ASSUME NEW x \in Documents(db)
        PROVE  x \in Entities(db) /\ db[DocumentKey(x)] \subseteq AliasesOf(x, db)
    <3>1. DocumentKey(x) \in DOMAIN db
      BY <1>7 DEF Documents, DocumentsShaped
    <3>2. PICK y \in Entities(table) :
             DocumentKey(x) = DocumentKey(y) /\ db[DocumentKey(x)] = AliasesOf(y, table)
      BY <1>3, <3>1, DocumentKeyParts
    <3>3. x = y
      BY <3>2, DocumentKeyParts
    <3> QED
      BY <1>5, <1>6, <3>2, <3>3
  <2>2. ASSUME NEW x \in Entities(db) PROVE x \in Documents(db)
    BY <1>3, <1>5, <2>2, DocumentKeyParts DEF Documents
  <2> QED
    BY <2>1, <2>2 DEF EntitiesAreSearchable
<1>9. ASSUME NEW i \in Process PROVE SearchRows(i) /\ NodesListed(i)
  <2>1. phase[i] = Idle /\ DOMAIN own[i] = {} /\ session[i] = {}
    BY DEF Init
  <2> QED
    BY <2>1 DEF SearchRows, NodesListed, Idle
<1> QED
  BY <1>7, <1>8, <1>9 DEF SearchInv

LEMMA SearchNext ==
    LockInv /\ TreeInv /\ EntityInv /\ SearchInv /\ [Next]_vars => SearchInv'
<1> SUFFICES ASSUME LockInv, TreeInv, EntityInv, SearchInv, [Next]_vars PROVE SearchInv'
  OBVIOUS
<1>1. TreeInv' /\ EntityInv'
  BY TreeStep, EntityNext
<1>2. CASE UNCHANGED vars
  <2>1. UNCHANGED db /\ \A k \in Process : Same(k)
    BY <1>2 DEF vars, Same
  <2>2. DocumentsShaped' /\ EntitiesAreSearchable'
    BY <2>1 DEF SearchInv, DocumentsShaped, EntitiesAreSearchable, Documents, Entities, AliasesOf
  <2>3. \A k \in Process : SearchRows(k)'
    BY <2>1 DEF SearchInv, Same, SearchRows, AliasesOf
  <2>4. \A k \in Process : NodesListed(k)'
    BY <2>1 DEF SearchInv, Same, NodesListed
  <2> QED
    BY <2>2, <2>3, <2>4 DEF SearchInv
<1>3. CASE Next
  BY <1>1, <1>3, SearchBegin, SearchFlushMediaItem, SearchSelectFile, SearchFlushRoot, SearchSelectChild,
     SearchFlushChild, SearchSelectRootIdentity, SearchFlushRootIdentity, SearchRefresh,
     SearchCommit, SearchRollBack DEF Next
<1> QED
  BY <1>2, <1>3

\* What every transaction holds of aliases and documents: the inductive invariant
\* of search.
THEOREM SearchInvariant == Spec => [](LockInv /\ TreeInv /\ EntityInv /\ SearchInv)
<1>1. Init => SearchInv
  BY SearchInit
<1>2. LockInv /\ TreeInv /\ EntityInv /\ SearchInv /\ [Next]_vars => SearchInv'
  BY SearchNext
<1> QED
  BY <1>1, <1>2, EntityInvariant, PTL DEF Spec

\* Every entity of the catalog has a document, and no document lists an alias that
\* its entity does not have: refresh_search_documents misses no entity of an ingest.
THEOREM SearchableEntities == Spec => []EntitiesAreSearchable
<1>1. SearchInv => EntitiesAreSearchable
  BY DEF SearchInv
<1> QED
  BY <1>1, SearchInvariant, PTL

\* A commit leaves the documents of its entities with every alias that was committed
\* before it, whatever number of processes ingests.
THEOREM SearchedAliases == Spec => AliasesReachSearch
<1>1. LockInv /\ TreeInv /\ EntityInv /\ SearchInv /\ [Next]_vars =>
         (\A i \in Process : phase[i] = "commit" /\ phase'[i] = Idle /\ db' # db =>
            \A n \in work[i].detail.nodes :
               LET x == EntityAt(root[i], n) IN AliasesOf(x, db) \subseteq db'[DocumentKey(x)])
  <2> SUFFICES ASSUME LockInv, SearchInv, [Next]_vars, NEW i \in Process,
                      phase[i] = "commit", phase'[i] = Idle, db' # db,
                      NEW n \in work[i].detail.nodes
               PROVE  AliasesOf(EntityAt(root[i], n), db) \subseteq db'[DocumentKey(EntityAt(root[i], n))]
    OBVIOUS
  <2>1. PICK j \in Process : Commit(j)
    BY DEF Next, vars, Begin, FlushMediaItem, SelectFile, FlushRoot, SelectChild, FlushChild, FlushChildIdentity,
       SelectRootIdentity, FlushRootIdentity, RefreshSearchDocuments, Violate, RollBack
  <2>2. j = i
    BY <2>1 DEF Commit, Ended, LockInv, StateTyped, Idle
  <2> DEFINE key == DocumentKey(EntityAt(root[i], n))
  <2>3. key \in DOMAIN own[i] /\ own[i][key] = AliasesOf(EntityAt(root[i], n), db)
    BY DEF SearchInv, SearchRows
  <2>4. key[1] = "search_document"
    BY DocumentKeyParts
  <2>5. key \in DOMAIN db'
    BY <2>1, <2>2, <2>3, CommittedKeys
  <2> HIDE DEF key
  <2>6. db'[key] = own[i][key]
    BY <2>1, <2>2, <2>3, <2>4, <2>5, CommittedDocuments
  <2> QED
    BY <2>3, <2>6 DEF key
<1> QED
  BY <1>1, SearchInvariant, PTL DEF Spec, AliasesReachSearch
=============================================================================
