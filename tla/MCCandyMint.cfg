\* A limited coupon for whitelisted wallets; one mint is reported twice, the
\* other never.
\* Requests, submissions and deliveries run out, and the system stops.
SPECIFICATION FairSpec
CHECK_DEADLOCK FALSE
CONSTANTS
    m1 = m1  m2 = m2  w1 = w1  u1 = u1  u2 = u2  coupon = coupon
    NoUser = NoUser  NoSend = NoSend  NoLimit = NoLimit
    Mints = {m1, m2}
    Wallets = {w1}
    Users = {}
    Coupons = {coupon}
    WalletOf <- MCWalletOf
    UserOf <- MCNoUserOf
    CouponOf <- MCCouponOf
    ItemsOf <- MCItemsOf
    TypeOf <- MCWalletList
    Limit <- MCLimit
    OwnerOf <- MCNoOwnerOf
    Supply = 2
    MaxSends <- MCOnce
    MaxDeliveries <- MCTwiceOrNever
INVARIANTS
    MintedWasVetted
    CountersNeverAhead
PROPERTIES
    ReceiptsSettle
    MutexReleased
