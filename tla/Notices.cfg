SPECIFICATION FairSpec
CONSTANTS
    bob = bob
    phone = phone
    People = {bob}
    Owners = {}
    Consents <- MCConsents
    Switched = {"paper_fill"}
    Subjects = {"monday"}
    Devices = {phone}
    Windows <- MCWindows
    DayLength = 3
    MaximumAttempts = 2
    BackoffCap = 1
    Passes = {1, 2}
    MaxRaises = 1
    MaxChanges = 1
    MaxFaults = 1
INVARIANTS
    NobodyIsToldTwice
PROPERTIES
    NeverSentEarly
    NoticesSettle
