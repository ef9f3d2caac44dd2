SPECIFICATION MCSpec
CONSTANTS
    Scale = 100
    Instruments = {1, 2}
    Sessions = {1, 2, 3, 4, 5}
    CurrencyOf <- TwoCurrencies
    Accounting = "EUR"
    PeriodOf <- Periods
    GiveUpSessions = 2
    CostModel <- Costly
    Markets <- StoredMarkets
    Moved <- Half
    Changing <- Touched
    MaxChanges = 1
    MaxOperand = 30
    MaxQuantity = 60
    MaxPrice = 60
    Rates = {100, 73, 250}
CHECK_DEADLOCK FALSE
INVARIANTS
    EverySignalHasOneOutcome
    ResultReconciles
    NoLookahead
    DrawdownIsTheWorstFall
    HalfEvenIsNearest
    PricingIsAccurate
