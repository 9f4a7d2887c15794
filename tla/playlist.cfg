SPECIFICATION Spec
CONSTANTS
    ListHead = ListHead
    None = None
    Info <- MCInfo
    Duration <- MCDuration
    Ranks <- MCRanks
    Heights = {1, 2}
    TimeModulus = 3
INVARIANTS SelectionShown ListsAgree
PROPERTIES MovesKeepOrder
