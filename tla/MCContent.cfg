\* The requests of a behaviour are served once each, and the system stops.
SPECIFICATION MCSpec
CHECK_DEADLOCK FALSE
SYMMETRY MCSymmetry
CONSTANTS
    r1 = r1  r2 = r2  r3 = r3  s1 = s1  s2 = s2
    FileRequests = {r1, r2, r3}
    Seed = Seed
    NoKey = NoKey
    ShelfRequests = {r1, r2, r3}
    NoEntry = NoEntry
    Visits = {r1, r2, r3}
    Members = {1, 2}
    Slugs = {s1, s2}
    MaxComics = 2
    Unknown = Unknown
    Readers = {reader}
    Issues = {episode}
    AudienceRequests = {visitor}
    Takes = {r1, r2, r3}
    Days = 2
    AssetRequests = {r1, r2, r3}
    Holders = {h1, h2}
    MaxEvents = 2
    NoRow = NoRow
    EditionRequests = {r1, r2, r3}
    Prints = {print}
    Buyers = {h1, h2}
    MaxSupply = 1
    MaxNow = 3
    Cooldown = 2
    MaxTold = 3
    NoWork = NoWork
    NoSale = NoSale
    NoRequest = NoRequest
INVARIANTS
    ContentTypeOK
    FilesAgree
    AnswersFresh
    
    DaysCounted
    RowAgrees
    TraitsKept
    EditionsAgree
