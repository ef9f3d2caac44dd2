SPECIFICATION Spec
CONSTANTS
    Scale = 10
    Requests = {r1}
    Instruments = {1, 2}
    CurrencyOf <- Listings
    Currencies = {"EUR", "SEK"}
    Entries <- BackDated
    LabelOf <- Labels
    Statements <- Asked
    Stored <- MarketData
    MaxVersions = 3
    MaxSettings = 1
CHECK_DEADLOCK FALSE
INVARIANTS
    SalesTakeWhatIsHeld
