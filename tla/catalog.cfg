\* Two processes ingest two folders over and over, and re-match them.
SPECIFICATION Spec
CONSTANTS
    show = show
    film = film
    shelf = shelf
    season = season
    p1 = p1
    p2 = p2
    Entry <- MCEntry
    Alias <- MCAlias
    Detail <- MCDetail
    Folder <- MCFolder
    Video <- MCVideo
    Artwork <- MCArtwork
    Candidate <- MCCandidate
    Preference = "prefer_provider"
    Series <- MCSeries
    Legacy <- MCLegacy
    Process = {p1, p2}
    RootId = {1, 2, 3}
INVARIANTS
    CatalogTypeOK
    EntitiesAreIdentified
    FilesAgree
    EntryIsLocked
    EntitiesAreSearchable
PROPERTIES
    AliasesReachSearch
    IdentityIsStable
    ImplementsCatalog
SYMMETRY ProcessSymmetry
