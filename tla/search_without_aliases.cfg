\* One process, and what search finds after its ingests.
SPECIFICATION Spec
CONSTANTS
    show = show
    film = film
    shelf = shelf
    season = season
    p1 = p1
    p2 = p2
    Entry <- MCEntry
    Alias <- MCAlias
    Detail <- MCDetails
    Folder <- MCFolder
    Video <- MCVideo
    Artwork <- MCArtwork
    Candidate <- MCCandidate
    Preference = "prefer_provider"
    Series <- MCSeries
    Legacy <- MCReleases
    Process = {p1}
    RootId = {1, 2, 3}
INVARIANT DocumentsHaveAliases
