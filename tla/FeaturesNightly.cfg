SPECIFICATION Spec
CHECK_DEADLOCK FALSE
CONSTANTS
  Instruments = {"A", "B"}
  Sessions = {1, 2, 3, 4, 5}
  Calendar <- TwoCalendars
  Backfilled <- Stored
  OwnWindow = 3
  UserWindow = 2
  MinContributors = 1
  Passes = {"night"}
  MaxImports = 2
  MaxTouched = 2
  Changing <- Late
  MaxCommands = 1
  Commands = {"full", "composite", "signals"}
  MaxFaults = 1
  Splitting = {"A"}
  MinSessions = 3
  BlockSessions = 4
  Unscorable <- UnknownLabel
INVARIANTS
  OnlyMissedRowsAreStale
  ReadsArePointInTime
  SignalsFollowValues
