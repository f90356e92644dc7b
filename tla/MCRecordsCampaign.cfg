\* The requests of a behaviour are served once each, and the system stops.
SPECIFICATION MCSpec
CHECK_DEADLOCK FALSE
SYMMETRY MCSymmetry
CONSTANTS
    r1 = r1  r2 = r2  r3 = r3  a1 = a1  a2 = a2  w1 = w1  w2 = w2
    CouponRequests = {}
    Types = {"public"}
    Tokens = {"sol", "usdc"}
    First = First
    NonceRequests = {}
    Nonces = {nonce}
    NoNonce = NoNonce
    MaxNonceValue = 2
    Subscribers = {}
    MachineAddresses = {machine}
    AssetAddresses = {a1, a2}
    NoAddress = NoAddress
    Editors = {}
    Original = Original
    NoIssue = NoIssue
    NoCollection = NoCollection
    Supplies = {1, 2}
    AccountRequests = {r1, r2, r3}
    MaxUsers = 3
    Names <- MCNames
    Emails <- MCEmails
    Allowance = 1
    Nobody = Nobody
    SyncRequests = {}
    NumComics = 2
    Purses = {w1, w2}
    PageLimit = 1
    MaxMoves = 1
    NoRow = NoRow
    NoReceipt = NoReceipt
    NoPurse = NoPurse
INVARIANTS
    InterestReferred
