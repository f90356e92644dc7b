\* The auction house: listings, bids, sales, repricing and cancelling; then Tensor,
\* transfers and burns beside it, with repeated calls.
\* Transactions run out, and the market stops.
SPECIFICATION MCSpec
CHECK_DEADLOCK FALSE
CONSTANTS
    w1 = w1  w2 = w2  w3 = w3
    Nobody = Nobody
    Wallets = {w1, w2, w3}
    FirstOwner = w1
    Prices = {1, 2}
    Kinds = {"list", "timedList", "bid", "buy", "sale", "reprice", "cancelBid", "cancelListing",
             "transfer", "burn", "tensorList", "tensorDelist", "tensorBuy"}
    MaxLog = 4
    MaxDeliveries = 2
INVARIANTS
    SaleSettled
    RecordsHappened
    MirrorsChain
PROPERTIES
    HistoryFixed
    MarketLedgerSpec
