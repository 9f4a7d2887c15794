SPECIFICATION Spec
CONSTANTS
  Files <- MCFiles
  MaxChanges = 2
  MaxCommands = 4
  MaxInfos = 3
  MaxJobs = 1
  MaxStarts = 2
INVARIANTS RefsExact OneEntryPerFile FreshTags CrashSafe
CHECK_DEADLOCK FALSE
