SPECIFICATION Spec
CONSTANTS
    Rates = {1, 2}
    Members = {"m1", "m2"}
    Uids = {"u1", "u2"}
    Billed = {"m1"}
    Dollars = 1
    Refs = {"p"}
    MinRebate = 2
    MaxMonth = 2
    MaxRev = 3
    MaxEntries = 2
    Accounts <- As
    Legacy <- Ls
    Sources = {"referral", "exchange"}
    Fresh = 1
    KeyLife = 2
    CycleLen = 2
    PayoutTime = 2
    MaxBooked = 1
    Invoices = {"in"}
    Checkouts = {"cs"}
    Commissions = {0, 1, 2}
    MaxPromo = 2
    MaxSales = 1
    Builds <- Bs
    Soak = 1
    ReleaseTime = 1
    MaxRuns = 3
    MaxFaults = 2
    Notices = {"m", "n", "o"}
    OutboxRows = 2
    MaxQueue = 2
    MaxAttempts = 2
    Faults = 1
    Contacts = {"c"}
    Keys = {"k", "l"}
    Facts = {"f", "g"}
    Limit = 1
    Success = 2
    Missing = 2
    Failure = 1
    CopyTime = 2
    CopyPasses = 2
    First = 5
    Lead = 5
    Resend = 2
    Forget = 3
    Providers = {"p", "q"}
    Keyed = "p"
    Bodies = {"b", "c"}
    RemindTime = 6
    Launches = {"a", "b"}
    Licences = {"l"}
    NoLicence = "none"
    Lic <- Lics
    Payer <- Payers
    Customers = {"c"}
    Directs = {"d"}
    Hold = 1
    MaxPending = 1
    Ceiling = 1
    CheckoutTime = 1
    Reservations = 2
INVARIANTS
    EarningsHold
    PublicationIsWhole
    CustomersAreServed
    MessagesAreTracked
PROPERTIES
    BooksOnlyGrow
CHECK_DEADLOCK FALSE
