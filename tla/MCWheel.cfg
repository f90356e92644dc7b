\* A daily wheel with every kind of drop and two racing spins of one user.
SPECIFICATION FairSpec
CONSTANTS
    u1 = u1
    s1 = s1  s2 = s2
    dNone = dNone  dPhysical = dPhysical  dToken = dToken  dComic = dComic
    iItem = iItem  iToken = iToken  iComic = iComic
    NoDrop = NoDrop  NoSpin = NoSpin  Vault = Vault  Outside = Outside
    Users = {u1}
    HasWallet = {u1}
    Spins = {s1, s2}
    Drops = {dNone, dPhysical, dToken, dComic}
    Offered = {dComic, dToken, dNone}
    Items = {iItem, iToken, iComic}
    KnownItems = {iItem, iToken}
    UserOf <- MCUserOf
    TypeOf <- MCTypeOf
    WeightOf <- MCWeightOf
    ItemOf <- MCItemOf
    WinProbability = 50
    WheelType = "Daily"
    VaultBalance = 1
    MaxTime = 2
INVARIANTS
    AwardedOnce
    ReceiptTellsOutcome
    CooldownBetweenSequentialSpins
    RefusedOnlyBeforeAnnounced
PROPERTIES
    PrizeLedgerSpec
    SpinTerminates
