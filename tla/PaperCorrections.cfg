SPECIFICATION Spec
CONSTANTS
    alice = alice
    share = share
    buying = buying
    selling = selling
    Scale = 10
    Users = {alice}
    Instruments = {share}
    Intents = {buying, selling}
    Currencies = {"EUR", "SEK"}
    EUR = "EUR"
    Listing <- KronaListing
    Wrote <- PartialWrote
    StartingCash = {15}
    Opens = {10, 20}
    RateValues = {20}
    CostModel <- MCCosts
    GiveUpSessions = 0
    Slots = {1}
    MaxDay = 2
    MaxObservations = 2
    MaxRestarts = 1
CHECK_DEADLOCK FALSE
INVARIANTS
    OutcomesAreToldOnce
    FillsMatchTheirBars
    AccountReconciles
PROPERTIES
    BuysAreCovered
