\* The requests of a behaviour are served once each, and the system stops.
SPECIFICATION MCSpec
CHECK_DEADLOCK FALSE
SYMMETRY MCSymmetry
CONSTANTS
    r1 = r1  r2 = r2  r3 = r3  a1 = a1  a2 = a2  w1 = w1  w2 = w2
    CouponRequests = {r1, r2, r3}
    Types = {"public"}
    Tokens = {"sol", "usdc"}
    First = First
    NonceRequests = {r1, r2, r3}
    Nonces = {nonce}
    NoNonce = NoNonce
    MaxNonceValue = 2
    Subscribers = {r1, r2, r3}
    MachineAddresses = {machine}
    AssetAddresses = {a1, a2}
    NoAddress = NoAddress
    Editors = {r1, r2, r3}
    Original = Original
    NoIssue = NoIssue
    NoCollection = NoCollection
    Supplies = {1, 2}
    AccountRequests = {r1, r2, r3}
    MaxUsers = 3
    Names <- MCNames
    Emails <- MCEmails
    Allowance = 1
    Nobody = Nobody
    SyncRequests = {r1, r2, r3}
    NumComics = 2
    Purses = {w1, w2}
    PageLimit = 1
    MaxMoves = 1
    NoRow = NoRow
    NoReceipt = NoReceipt
    NoPurse = NoPurse
INVARIANTS
    RecordsTypeOK
    GroupsAgree
    NoncesExclusive
    NoncesFresh
    Listening
    NumbersDistinct
    TitleAgrees
    ItemsSent
    NamesDistinct
    VerifiedProven
    ReferralsCounted
    HoldingsSynced
PROPERTIES
    ReceiptsKept
