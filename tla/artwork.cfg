\* Two folders of one series, artwork that comes and goes, and restarts with
\* another preference, on a new database and on a migrated one.
SPECIFICATION Spec
CONSTANTS
    series = series
    season = season
    episode = episode
    specials = specials
    shelf = shelf
    box = box
    Node = {series, season, episode, specials}
    Root = series
    Readable = {series, season, specials}
    Image <- MCImage
    File <- MCFile
    Detail <- MCDetail
    Videos <- MCVideos
    MaxIngests = 2
INVARIANTS
    ArtworkTypeOK
    AssetsAreStored
PROPERTIES
    CommittedArtworkIsWhole
    PreferenceIsHonoured
    PosterIsOfItsEntity
