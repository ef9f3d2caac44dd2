SPECIFICATION FairSpec
CONSTANTS
    ann = ann
    tab = tab
    Users = {ann}
    Owners = {}
    Clients = {tab}
    UserOf <- MCUserOf
    Kinds <- MCKinds
    Writers = {1, 2}
    Batch = 2
    MaxEvents = 3
    MaxDrops = 1
CHECK_DEADLOCK FALSE
INVARIANTS
    NothingIsSentAgain
PROPERTIES
    DeliversTheFeed
    CommittedEventsArrive
    RevokedStreamsEnd
