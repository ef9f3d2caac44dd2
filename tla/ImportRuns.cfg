SPECIFICATION FairSpec
CONSTANTS
    share = share
    bond = bond
    Instruments = {share}
    LastSession = 2
    Values = {"a", "b"}
    Jumps <- SomeJumps
    FirstAnswers = {"a"}
    Stored = {1}
    Refused = {share}
    Reobserve = 2
    MaxReach = 2
    Workers = 1
    MaxRuns = 3
    MaxChanges = 1
    MaxStops = 1
CHECK_DEADLOCK FALSE
INVARIANTS
    FallbackNeverSplices
    DecisionsRestOnTwoRuns
PROPERTIES
    RunsEnd
