SPECIFICATION Spec
CONSTANTS
    ListHead = ListHead
    None = None
    Duration <- MCDuration
    TimeModulus = 3
    Ranks <- MCRanks
    Comments <- MCComments
    Urls = {}
    NameRank <- MCNameRank
    TrackRank <- MCTrackRank
    HashOrder <- MCHashOrder
    Filters <- MCFilters
    Heights = {1, 2}
INVARIANTS NoBug ViewIsFiltered TreeMatchesView WindowsFollow
