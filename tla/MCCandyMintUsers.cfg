\* A limited coupon for users; one mint is submitted twice, by either user.
\* Requests, submissions and deliveries run out, and the system stops.
SPECIFICATION Spec
CHECK_DEADLOCK FALSE
CONSTANTS
    m1 = m1  m2 = m2  w1 = w1  u1 = u1  u2 = u2  coupon = coupon
    NoUser = NoUser  NoSend = NoSend  NoLimit = NoLimit
    Mints = {m1, m2}
    Wallets = {w1}
    Users = {u1, u2}
    Coupons = {coupon}
    WalletOf <- MCWalletOf
    UserOf <- MCUserOf
    CouponOf <- MCCouponOf
    ItemsOf <- MCItemsOf
    TypeOf <- MCRegistered
    Limit <- MCLimit
    OwnerOf <- MCOwnerOf
    Supply = 3
    MaxSends <- MCTwice
    MaxDeliveries <- MCOnce
INVARIANTS
    SequentialMintLimit
    ConfirmedInBlock
