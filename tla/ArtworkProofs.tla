--------------------------- MODULE ArtworkProofs ---------------------------
(***************************************************************************)
(* Proofs about Artwork for any artwork, any folders and any answers of    *)
(* the provider.                                                           *)
(*                                                                         *)
(* What an ingest has handled is in the store: Downloaded and CopiedSoFar  *)
(* say which files these are while it downloads and while it copies, and   *)
(* make AssetsAreStored inductive.                                         *)
(***************************************************************************)
EXTENDS Artwork, TLAPS

WorkTyped ==
    phase # Idle =>
        /\ work.folder \in Folder
        /\ work.detail \in Detail
        /\ work.found \subseteq File
        /\ ingests < MaxIngests

Downloaded ==
    phase = "download" =>
        /\ left \subseteq Images
        /\ \A m \in Images \ left : store[m.path] = "whole"

CopiedSoFar ==
    phase = "copy" =>
        /\ left \subseteq Copied
        /\ \A m \in Images : store[m.path] = "whole"
        /\ \A a \in Copied \ left : store[a.path] # "absent"

ArtworkInv ==
    /\ ArtworkTypeOK
    /\ WorkTyped
    /\ Downloaded
    /\ CopiedSoFar
    /\ AssetsAreStored

\* What the inputs of an ingest are made of.
LEMMA InputTypes ==
    ASSUME WorkTyped, phase # Idle
    PROVE  /\ Images \subseteq Image
           /\ Copied \subseteq File
           /\ \A x \in Images \cup Copied : x.path \in Path
<1>1. work.detail \in Detail /\ work.found \subseteq File
  BY DEF WorkTyped
<1>2. Images \subseteq Image
  BY <1>1, DetailAssumption DEF Images, Listed
<1>3. Copied \subseteq File
  BY <1>1 DEF Copied
<1> QED
  BY <1>2, <1>3 DEF Path

\* The two sources of artwork are told apart by the stored path.
LEMMA Sources ==
    /\ \A m \in Image : Source(m.path) = "tmdb" /\ Role(m.path) \in {"poster", "backdrop", "still"}
    /\ \A a \in File : Source(a.path) = "local_file"
  BY ImageAssumption, FileAssumption DEF ImagePath, LocalPath, Source, Role

LEMMA RootIsAnEntity == Root \in Entity
  BY DEF Entity

LEMMA EntityForTyped ==
    ASSUME WorkTyped, phase # Idle, NEW k
    PROVE  EntityOf(k) \in Entity
<1>1. work.detail \in Detail
  BY DEF WorkTyped
<1> QED
  BY <1>1 DEF EntityOf, Entity

LEMMA PreferredIsBoolean == ASSUME NEW k PROVE Preferred(k) \in BOOLEAN
<1>1. ProviderPreferred(k) \in BOOLEAN
  BY DEF ProviderPreferred
<1>2. LocalPreferred \in BOOLEAN
  BY DEF LocalPreferred
<1> QED
  BY <1>1, <1>2 DEF Preferred

\* A row that an ingest has written, and one it has left alone.
LEMMA CommittedRows ==
    ASSUME Commit
    PROVE  /\ DOMAIN rows' = Written \cup DOMAIN rows
           /\ \A k \in Written : rows'[k].entity = EntityOf(k) /\ rows'[k].preferred = Preferred(k)
           /\ \A k \in DOMAIN rows \ Written : rows'[k] = rows[k]
<1>1. rows' = [k \in Written \cup DOMAIN rows |-> IF k \in Written THEN Asset(k) ELSE rows[k]]
  BY DEF Commit
<1>2. \A k : Asset(k).entity = EntityOf(k) /\ Asset(k).preferred = Preferred(k)
  BY DEF Asset
<1> QED
  BY <1>1, <1>2

LEMMA InitInv == Init => ArtworkInv
<1> SUFFICES ASSUME Init PROVE ArtworkInv
  OBVIOUS
<1>1. PICK legacy \in {{}, {m.path : m \in Image}} : rows = Backfilled(legacy)
  BY DEF Init
<1>2. DOMAIN rows \subseteq Path
  BY <1>1 DEF Backfilled, Path
<1>3. \A k \in DOMAIN rows : rows[k].entity = Root /\ rows[k].preferred = TRUE
  BY <1>1 DEF Backfilled
<1>4. store = [k \in Path |-> IF k \in DOMAIN rows THEN "whole" ELSE "absent"]
  BY DEF Init
<1>5. ArtworkTypeOK
  <2>1. preference \in ArtworkPreference /\ present = File /\ phase = Idle /\ left = {} /\ ingests = 0
    BY DEF Init
  <2>2. store \in [Path -> {"absent", "torn", "whole"}]
    BY <1>4
  <2>3. \A k \in DOMAIN rows : rows[k].entity \in Entity /\ rows[k].preferred \in BOOLEAN
    BY <1>3, RootIsAnEntity
  <2> QED
    BY <1>2, <2>1, <2>2, <2>3, BoundAssumption DEF ArtworkTypeOK, Idle
<1>6. AssetsAreStored
  BY <1>2, <1>4 DEF AssetsAreStored
<1>7. WorkTyped /\ Downloaded /\ CopiedSoFar
  BY DEF Init, WorkTyped, Downloaded, CopiedSoFar, Idle
<1> QED
  BY <1>5, <1>6, <1>7 DEF ArtworkInv

LEMMA StepInv == ArtworkInv /\ [Next]_vars => ArtworkInv'
<1> SUFFICES ASSUME ArtworkInv, [Next]_vars PROVE ArtworkInv'
  OBVIOUS
<1> USE DEF ArtworkInv
<1>1. CASE Begin
  <2>1. PICK f \in Folder, d \in Detail :
           /\ work' = [folder |-> f, detail |-> d, found |-> Discovered(f)]
           /\ left' = Listed(d, f)
    BY <1>1 DEF Begin
  <2>2. phase' = "download" /\ UNCHANGED <<preference, present, store, rows, ingests>>
    BY <1>1 DEF Begin
  <2>3. WorkTyped'
    BY <1>1, <2>1, <2>2 DEF WorkTyped, Discovered, ArtworkTypeOK, Begin
  <2>4. Images' = left'
    BY <2>1, <2>2 DEF Images, Listed
  <2>5. left' \subseteq Image
    BY <2>1, DetailAssumption DEF Listed
  <2>6. ArtworkTypeOK'
    BY <2>2, <2>5 DEF ArtworkTypeOK, Entity
  <2> QED
    BY <2>2, <2>3, <2>4, <2>6 DEF Downloaded, CopiedSoFar, AssetsAreStored
<1>2. CASE DownloadImage
  <2>1. PICK m \in First : Download(m.path) /\ left' = left \ {m}
    BY <1>2 DEF DownloadImage
  <2>2. phase = "download" /\ UNCHANGED <<preference, present, rows, phase, work, ingests>>
    BY <1>2 DEF DownloadImage
  <2>3. m \in left /\ left \subseteq Images /\ m.path \in Path
    BY <2>1, <2>2, InputTypes DEF First, Downloaded, Idle
  <2>4. store' = [store EXCEPT ![m.path] = "whole"]
    BY <2>1 DEF Download
  <2>5. Images' = Images
    BY <2>2 DEF Images, Listed
  <2>6. ArtworkTypeOK'
    BY <2>1, <2>2, <2>4 DEF ArtworkTypeOK, Entity
  <2>7. \A k \in Path : store'[k] \in {store[k], "whole"}
    BY <2>4 DEF ArtworkTypeOK
  <2>8. \A x \in Images \ left' : store'[x.path] = "whole"
    <3> TAKE x \in Images \ left'
    <3>1. x.path \in Path
      BY <2>2, InputTypes DEF Idle
    <3>2. CASE x = m
      BY <2>3, <2>4, <3>2 DEF ArtworkTypeOK
    <3>3. CASE x # m
      BY <2>1, <2>2, <2>7, <3>1, <3>3 DEF Downloaded
    <3> QED
      BY <3>2, <3>3
  <2>9. Downloaded' /\ CopiedSoFar'
    BY <2>1, <2>2, <2>3, <2>5, <2>8 DEF Downloaded, CopiedSoFar
  <2>10. AssetsAreStored'
    BY <2>2, <2>7 DEF AssetsAreStored, ArtworkTypeOK
  <2> QED
    BY <2>2, <2>6, <2>9, <2>10 DEF WorkTyped
<1>3. CASE ImagesDownloaded
  <2>1. /\ phase = "download" /\ left = {}
        /\ phase' = "copy" /\ left' = Copied
        /\ UNCHANGED <<preference, present, store, rows, work, ingests>>
    BY <1>3 DEF ImagesDownloaded
  <2>2. Images' = Images /\ Copied' = Copied
    BY <2>1 DEF Images, Listed, Copied
  <2>3. Copied \subseteq File
    BY <2>1, InputTypes DEF Idle
  <2>4. ArtworkTypeOK'
    BY <2>1, <2>3 DEF ArtworkTypeOK, Entity
  <2>5. Downloaded' /\ CopiedSoFar'
    BY <2>1, <2>2 DEF Downloaded, CopiedSoFar
  <2> QED
    BY <2>1, <2>4, <2>5 DEF WorkTyped, AssetsAreStored, Idle
<1>4. CASE CopyFile
  <2>1. PICK a \in First : Copy(a) /\ left' = left \ {a}
    BY <1>4 DEF CopyFile
  <2>2. phase = "copy" /\ UNCHANGED <<preference, present, rows, phase, work, ingests>>
    BY <1>4 DEF CopyFile
  <2>3. a \in left /\ left \subseteq Copied /\ a.path \in Path
    BY <2>1, <2>2, InputTypes DEF First, CopiedSoFar, Idle
  <2>4. \/ store[a.path] # "absent" /\ store' = store
        \/ store[a.path] = "absent" /\ store' = [store EXCEPT ![a.path] = "whole"]
    BY <2>1 DEF Copy
  <2>5. ArtworkTypeOK'
    BY <2>1, <2>2, <2>4 DEF ArtworkTypeOK, Entity
  <2>6. \A k \in Path : store'[k] \in {store[k], "whole"}
    BY <2>4 DEF ArtworkTypeOK
  <2>7. store'[a.path] # "absent"
    BY <2>3, <2>4 DEF ArtworkTypeOK
  <2>8. Images' = Images /\ Copied' = Copied
    BY <2>2 DEF Images, Listed, Copied
  <2>9. \A m \in Images : store'[m.path] = "whole"
    BY <2>2, <2>6, InputTypes DEF CopiedSoFar, Idle
  <2>10. \A x \in Copied \ left' : store'[x.path] # "absent"
    <3> TAKE x \in Copied \ left'
    <3>1. x.path \in Path
      BY <2>2, InputTypes DEF Idle
    <3>2. CASE x = a
      BY <2>7, <3>2
    <3>3. CASE x # a
      BY <2>1, <2>2, <2>6, <3>1, <3>3 DEF CopiedSoFar
    <3> QED
      BY <3>2, <3>3
  <2>11. Downloaded' /\ CopiedSoFar'
    BY <2>1, <2>2, <2>3, <2>8, <2>9, <2>10 DEF Downloaded, CopiedSoFar
  <2>12. AssetsAreStored'
    BY <2>2, <2>6 DEF AssetsAreStored, ArtworkTypeOK
  <2> QED
    BY <2>2, <2>5, <2>11, <2>12 DEF WorkTyped
<1>5. CASE Commit
  <2>1. /\ phase = "copy" /\ left = {}
        /\ phase' = Idle /\ left' = {}
        /\ UNCHANGED <<preference, present, store>>
        /\ ingests' = ingests + 1
    BY <1>5 DEF Commit, EndIngest
  <2>2. Written \subseteq Path
    BY <2>1, InputTypes DEF Written, Idle
  <2>3. \A k \in Written : rows'[k].entity \in Entity /\ rows'[k].preferred \in BOOLEAN
    BY <1>5, <2>1, CommittedRows, EntityForTyped, PreferredIsBoolean DEF Idle
  <2>4. \A k \in DOMAIN rows' : rows'[k].entity \in Entity /\ rows'[k].preferred \in BOOLEAN
    BY <1>5, <2>3, CommittedRows DEF ArtworkTypeOK
  <2>5. \A k \in Written : store[k] # "absent"
    BY <2>1 DEF Written, CopiedSoFar
  <2>6. AssetsAreStored'
    BY <1>5, <2>1, <2>5, CommittedRows DEF AssetsAreStored
  <2>7. ArtworkTypeOK'
    <3>1. DOMAIN rows' \subseteq Path
      BY <1>5, <2>2, CommittedRows DEF ArtworkTypeOK
    <3>2. ingests' \in 0..MaxIngests
      BY <2>1, BoundAssumption DEF ArtworkTypeOK, WorkTyped, Idle
    <3> QED
      BY <2>1, <2>4, <3>1, <3>2 DEF ArtworkTypeOK, Entity
  <2> QED
    BY <2>1, <2>6, <2>7 DEF WorkTyped, Downloaded, CopiedSoFar, Idle
<1>6. CASE Interrupt
  <2>1. /\ phase' = Idle /\ left' = {}
        /\ UNCHANGED <<preference, present, rows, ingests>>
    BY <1>6 DEF Interrupt, EndIngest
  <2>2. \/ store' = store
        \/ \E k \in MayBeTorn : store' = [store EXCEPT ![k] = "torn"]
    BY <1>6 DEF Interrupt
  <2>3. \A k \in Path : store'[k] \in {store[k], "torn"}
    BY <2>2 DEF ArtworkTypeOK
  <2>4. ArtworkTypeOK'
    BY <2>1, <2>2 DEF ArtworkTypeOK, Entity
  <2>5. AssetsAreStored'
    BY <2>1, <2>3 DEF AssetsAreStored, ArtworkTypeOK
  <2> QED
    BY <2>1, <2>4, <2>5 DEF WorkTyped, Downloaded, CopiedSoFar, Idle
<1>7. CASE Reconfigure
  BY <1>7 DEF Reconfigure, ArtworkTypeOK, Entity, WorkTyped, Downloaded, CopiedSoFar, AssetsAreStored, Idle
<1>8. CASE EditFolder
  <2>1. present' \subseteq File /\ UNCHANGED <<preference, store, rows, phase, work, left, ingests>>
    BY <1>8 DEF EditFolder, ArtworkTypeOK
  <2>2. Images' = Images /\ Copied' = Copied
    BY <2>1 DEF Images, Listed, Copied
  <2> QED
    BY <2>1, <2>2 DEF ArtworkTypeOK, Entity, WorkTyped, Downloaded, CopiedSoFar, AssetsAreStored
<1>9. CASE UNCHANGED vars
  <2>1. Images' = Images /\ Copied' = Copied
    BY <1>9 DEF vars, Images, Listed, Copied
  <2> QED
    BY <1>9, <2>1 DEF vars, ArtworkTypeOK, Entity, WorkTyped, Downloaded, CopiedSoFar, AssetsAreStored
<1> QED
  BY <1>1, <1>2, <1>3, <1>4, <1>5, <1>6, <1>7, <1>8, <1>9 DEF Next

\* The inductive invariant: what each ingest has handled so far is in the store.
THEOREM ArtworkInvariant == Spec => []ArtworkInv
<1> QED
  BY InitInv, StepInv, PTL DEF Spec

\* Type correctness, for any artwork, folders and answers.
THEOREM ArtworkTypeCorrect == Spec => []ArtworkTypeOK
<1>1. ArtworkInv => ArtworkTypeOK
  BY DEF ArtworkInv
<1> QED
  BY <1>1, ArtworkInvariant, PTL

\* Every row refers to a file that is in the store, however often downloads and
\* copies are interrupted and local artwork is withdrawn.
THEOREM RowsHaveFiles == Spec => []AssetsAreStored
<1>1. ArtworkInv => AssetsAreStored
  BY DEF ArtworkInv
<1> QED
  BY <1>1, ArtworkInvariant, PTL

-----------------------------------------------------------------------------
(* The commit. *)

LEMMA OnlyCommitCommits ==
    ASSUME ArtworkInv, [Next]_vars, Committing
    PROVE  Commit
<1>1. ingests \in Int
  BY BoundAssumption DEF ArtworkInv, ArtworkTypeOK
<1> QED
  BY <1>1 DEF Committing, Next, vars, Begin, DownloadImage, ImagesDownloaded, CopyFile, Interrupt,
     Reconfigure, EditFolder

\* The downloads of an ingest that commits are whole, whatever earlier ingests left.
THEOREM CommittedIsWhole == Spec => CommittedArtworkIsWhole
<1>1. ArtworkInv /\ [Next]_vars =>
        (Committing => \A k \in Written : store[k] = "whole" \/ Source(k) = "local_file")
  <2> SUFFICES ASSUME ArtworkInv, [Next]_vars, Committing, NEW k \in Written
               PROVE  store[k] = "whole" \/ Source(k) = "local_file"
    OBVIOUS
  <2>1. phase = "copy"
    BY DEF Committing
  <2>2. PICK x \in Images \cup Copied : k = x.path
    BY DEF Written
  <2>3. CASE x \in Images
    BY <2>1, <2>2, <2>3 DEF ArtworkInv, CopiedSoFar
  <2>4. CASE x \in Copied
    BY <2>1, <2>2, <2>4, InputTypes, Sources DEF ArtworkInv, Idle
  <2> QED
    BY <2>2, <2>3, <2>4
<1> QED
  BY <1>1, ArtworkInvariant, PTL DEF Spec, CommittedArtworkIsWhole

\* Where the preferred source has an image for a view, the view never shows one of
\* the other source that the same ingest has written.
THEOREM PreferenceDecides == Spec => PreferenceIsHonoured
<1>1. ArtworkInv /\ [Next]_vars =>
        (Committing =>
            \A n \in Node, slot \in Slot :
                (\E k \in Written \cap Candidates(rows', n, slot) : Source(k) = PreferredSource)
                    => \A k \in Shown(rows', n, slot) : Source(k) = PreferredSource \/ k \notin Written)
  <2> SUFFICES ASSUME ArtworkInv, [Next]_vars, Committing,
                      NEW n \in Node, NEW slot \in Slot,
                      NEW w \in Written \cap Candidates(rows', n, slot), Source(w) = PreferredSource,
                      NEW k \in Shown(rows', n, slot), k \in Written, Source(k) # PreferredSource
               PROVE  FALSE
    OBVIOUS
  <2>1. Commit
    BY OnlyCommitCommits
  <2>2. phase # Idle /\ WorkTyped
    BY DEF Committing, Idle, ArtworkInv
  <2>3. ~Before(rows'[w], rows'[k])
    BY DEF Shown
  <2>4. rows'[w].preferred = Preferred(w) /\ rows'[k].preferred = Preferred(k)
    BY <2>1, CommittedRows
  <2>5. Preferred(w) => Preferred(k)
    BY <2>3, <2>4, PreferredIsBoolean DEF Before
  <2>6. /\ Source(w) \in {"tmdb", "local_file"} /\ Source(k) \in {"tmdb", "local_file"}
        /\ Source(w) = "tmdb" => Role(w) \in {"poster", "backdrop", "still"}
    BY <2>2, InputTypes, Sources DEF Written
  <2>7. Role(w) # "still"
    BY DEF Candidates, Slot
  <2>8. preference \in ArtworkPreference
    BY DEF ArtworkInv, ArtworkTypeOK
  <2>9. CASE preference \in {"prefer_local", "local_only"}
    BY <2>5, <2>6, <2>9 DEF PreferredSource, Preferred, LocalPreferred, ProviderPreferred
  <2>10. CASE preference \in {"prefer_provider", "provider_only"}
    BY <2>5, <2>6, <2>7, <2>10 DEF PreferredSource, Preferred, LocalPreferred, ProviderPreferred
  <2> QED
    BY <2>8, <2>9, <2>10 DEF ArtworkPreference
<1> QED
  BY <1>1, ArtworkInvariant, PTL DEF Spec, PreferenceIsHonoured

\* A poster that an ingest has written is shown for its own entity, or, when the
\* provider does not know that, for the root.
THEOREM PosterFindsEntity == Spec => PosterIsOfItsEntity
<1>1. ArtworkInv /\ [Next]_vars =>
        (Committing =>
            \A n \in Node : \A k \in Shown(rows', n, {"poster", "season_poster"}) \cap Written :
                NodeOf(k) = n \/ (n = Root /\ NodeOf(k) \notin work.detail.nodes))
  <2> SUFFICES ASSUME ArtworkInv, [Next]_vars, Committing, NEW n \in Node,
                      NEW k \in Shown(rows', n, {"poster", "season_poster"}) \cap Written
               PROVE  NodeOf(k) = n \/ (n = Root /\ NodeOf(k) \notin work.detail.nodes)
    OBVIOUS
  <2>1. Commit
    BY OnlyCommitCommits
  <2>2. rows'[k].entity = EntityOf(k) /\ rows'[k].entity = n
    BY <2>1, CommittedRows DEF Shown, Candidates
  <2>3. PICK x \in Image \cup File : k = x.path
    <3>1. phase # Idle /\ WorkTyped
      BY DEF Committing, Idle, ArtworkInv
    <3> QED
      BY <3>1, InputTypes DEF Written
  <2>4. NodeFound(k) = NodeOf(k)
    <3>1. Role(k) \in {"poster", "season_poster"}
      BY DEF Shown, Candidates
    <3>2. CASE x \in Image
      <4>1. PICK role \in {"poster", "backdrop", "still"}, m \in Node :
               k = ImagePath(role, m) /\ (role # "still" => m \in Readable)
        BY <2>3, <3>2, ImageAssumption
      <4>2. Role(k) = role /\ NodeOf(k) = m
        BY <4>1 DEF ImagePath, Role, NodeOf
      <4> QED
        BY <3>1, <4>1, <4>2 DEF NodeFound
    <3>3. CASE x \in File
      BY <2>3, <3>3, Sources DEF NodeFound
    <3> QED
      BY <2>3, <3>2, <3>3
  <2> QED
    BY <2>2, <2>4 DEF EntityOf
<1> QED
  BY <1>1, ArtworkInvariant, PTL DEF Spec, PosterIsOfItsEntity
=============================================================================
