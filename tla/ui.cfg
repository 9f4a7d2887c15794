SPECIFICATION Spec
CONSTANTS
  CharSize <- MCCharSize
  Commands <- MCCommands
  Names <- MCNames
  History <- MCHistory
  max_lines = 2
  LineSize = 3
  MaxLine = 3
  MaxKeys = 9
  MaxAdds = 1
  MaxRemote = 1
  Contexts <- MCContexts
  BindKeys <- MCKeys
  CommandNames <- MCCommandNames
  Texts <- MCTexts
  FilterNames <- MCFilterNames
  FilterTexts <- MCFilterTexts
  Rc <- MCRc
  MaxSettings = 4
  Threads = {"main", "dbus", "worker", "producer", "consumer"}
INVARIANTS LineConsistent HistoryFaithful HelpExact LockOrder
PROPERTIES FiltersApplied RestartKeeps
CHECK_DEADLOCK FALSE
