\* A timed auction with two bids whose calls come in one batch.
\* Transactions run out, and the market stops.
SPECIFICATION MCSpec
CHECK_DEADLOCK FALSE
CONSTANTS
    w1 = w1  w2 = w2  w3 = w3
    Nobody = Nobody
    Wallets = {w1, w2, w3}
    FirstOwner = w1
    Prices = {1, 2}
    Kinds = {"timedList", "bid"}
    MaxLog = 3
    MaxDeliveries = 1
INVARIANTS
    HighestBidIsHighest
