SPECIFICATION FairSpec
CONSTANTS
    alice = alice
    share = share
    buying = buying
    selling = selling
    Scale = 10
    Users = {alice}
    Instruments = {share}
    Intents = {buying, selling}
    Currencies = {"EUR"}
    EUR = "EUR"
    Listing <- EuroListing
    Wrote <- WholeWrote
    StartingCash = {20}
    Opens = {10}
    RateValues = {20}
    CostModel <- MCCosts
    GiveUpSessions = 1
    Slots = {1, 2}
    MaxDay = 3
    MaxObservations = 1
    MaxRestarts = 0
CHECK_DEADLOCK FALSE
INVARIANTS
    TypeOK
    OrdersComeFromActedIntents
    NeverShort
    NoLookahead
PROPERTIES
    HistoryIsPermanent
    DecidableOrdersSettle
