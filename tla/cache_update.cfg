SPECIFICATION Spec
CONSTANTS
  Files <- MCFiles
  MaxChanges = 1
  MaxCommands = 4
  MaxInfos = 3
  MaxJobs = 1
  MaxStarts = 1
PROPERTIES LibraryUpdated
CHECK_DEADLOCK FALSE
