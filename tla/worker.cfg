SPECIFICATION FairSpec
CONSTANTS
    Clients = {"main"}
    Main = "main"
    Types = {"LIB", "PL"}
    Lib = "LIB"
    MaxJobs = 3
INVARIANTS JobsKept ClearedStaysClear SavesWhole
PROPERTIES NobodyWaits
