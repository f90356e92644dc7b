------------------------------- MODULE Routes -------------------------------
(***************************************************************************)
(* Who may change what: the routes of the controllers, their guards, and   *)
(* the rows the handlers write.                                            *)
(*                                                                         *)
(* A guard reads the user, then the row it is asked about, and the handler *)
(* finds that row again by the key in the url, after more awaits.  An id   *)
(* names one row for ever; a slug goes from a comic to another, a wallet   *)
(* from a user to another.                                                 *)
(***************************************************************************)
EXTENDS Integers, Sequences, FiniteSets, FiniteSetsExt, Functions

CONSTANTS
    Visits,         \* bound: the requests of a behaviour
    Members,        \* ids of users
    Slugs,          \* of comics
    MaxComics,      \* bound: comics ever made
    Unknown         \* no user, no row

ASSUME RoutesAssumption ==
    /\ Members \subseteq Nat \ {0} /\ IsFiniteSet(Members) /\ Unknown \notin Members \cup Slugs
    /\ MaxComics \in Nat /\ MaxComics >= 2

VARIABLES
    roles,      \* column role of the rows User
    owners,     \* rows CreatorChannel: the user of the first channel, of the second ...
    comics,     \* rows Comic: [id, slug, channel, published]
    issues,     \* rows ComicIssue: [id, comic]
    drafts,     \* rows DraftComicIssueSalesData: [id, issue, verified]
    given,      \* the last ids of a comic, of an issue and of a draft
    walletUser, \* column userId of the row Wallet
    subject,    \* bound: the rows the requests of a behaviour are about
    visit,      \* what each request asks, where it is and what it read: see Visit
    changes,    \* history: rows the last step wrote, or answered raw: see Changed
    refusals    \* history: the owner the last step refused, if it did

routeVars == <<roles, owners, comics, issues, drafts, given, walletUser, subject, visit,
               changes, refusals>>
rowsOfRoutes == <<roles, owners, comics, issues, drafts, given, walletUser>>

Roles == {"Superadmin", "Admin", "User", "Creator"}
Subjects == {"comic", "issue", "channel", "campaign", "wallet", "member", "site"}
Channels == DOMAIN owners
ComicIds == 1..MaxComics
RouteKeys == Slugs \cup Members \cup ComicIds

-----------------------------------------------------------------------------
(* The routes, by the method of their controller: the guard and what the   *)
(* handler does.  "raw" answers what readers do not see; "answer" changes  *)
(* no row of another.                                                      *)

On(kind, guard, does) == [kind |-> kind, guard |-> guard, does |-> does]
Open == On("site", "none", "answer")
ForUser == On("site", "user", "answer")
ForAnyone == On("site", "optional", "answer")
ForVerified == On("site", "verified", "answer")
ByAdmin == On("site", "admin", "edit")

ComicReading == LET Raw == On("comic", "comicOwner", "raw") IN
    [create |-> On("comic", "creator", "insert"), findAll |-> Open,
     findAllRaw |-> On("channel", "adminOrChannelOwner", "raw"), searchAll |-> Open,
     findOne |-> ForAnyone, findOneRaw |-> Raw, findOwnedComics |-> Open,
     findFavoriteComics |-> Open]

ComicWriting == LET Edit == On("comic", "comicOwner", "edit") IN
    [update |-> On("comic", "comicOwner", "rename"),
     updateFiles |-> Edit, updateCover |-> Edit, updateBanner |-> Edit, updateLogo |-> Edit,
     rate |-> ForVerified, bookmark |-> ForUser, favouritise |-> ForUser,
     publish |-> On("comic", "admin", "publish"), unpublish |-> On("comic", "admin", "answer"),
     delete |-> On("comic", "comicOwner", "remove"),
     downloadAssets |-> On("comic", "admin", "answer")]

IssueReading == LET Edit == On("issue", "issueOwner", "edit") IN
    [create |-> On("issue", "creator", "insert"), findAll |-> Open,
     findAllRaw |-> On("channel", "adminOrChannelOwner", "raw"), findOwnedComicIssues |-> Open,
     searchAll |-> Open, findOne |-> ForAnyone, findOnePublic |-> Open,
     findOneRaw |-> On("issue", "issueOwner", "raw"), getPages |-> ForAnyone,
     update |-> Edit, updateFiles |-> Edit, updatePdf |-> Edit]

IssueWriting == LET Edit == On("issue", "issueOwner", "edit") IN
    [updatePages |-> Edit, updateStatelessCovers |-> Edit, updateStatefulCovers |-> Edit,
     favouritise |-> ForUser, rate |-> ForVerified, read |-> ForUser,
     publishOnChain |-> On("issue", "admin", "edit"),
     publishOffChain |-> On("issue", "admin", "edit"),
     unpublish |-> On("issue", "admin", "answer"),
     delete |-> On("issue", "issueOwner", "remove"),
     downloadAssets |-> On("issue", "admin", "answer")]

ChannelReading == LET Raw == On("channel", "channelOwner", "raw") IN
    [createChannel |-> On("channel", "user", "insert"), findMe |-> ForUser,
     findAll |-> ForAnyone, searchAll |-> Open, findOne |-> ForAnyone,
     findAllRaw |-> On("channel", "admin", "answer"), findOneRaw |-> Raw,
     findFollowedByUser |-> Open,
     findCreatorActivityFeed |-> On("channel", "adminOrChannelOwner", "raw"),
     findRevenueChart |-> Raw, findAudienceChart |-> Raw,
     findSaleTransactions |-> On("channel", "adminOrChannelOwner", "raw")]

ChannelWriting == LET Edit == On("channel", "channelOwner", "edit") IN
    [update |-> Edit, updateFiles |-> Edit, updateAvatar |-> Edit, updateBanner |-> Edit,
     pseudoDelete |-> Edit, pseudoRecover |-> Edit, takeSnapshot |-> ByAdmin,
     follow |-> ForUser, downloadAssets |-> On("channel", "admin", "answer")]

CampaignReading ==
    [create |-> On("campaign", "creator", "answer"), expressInterest |-> ForUser,
     findAll |-> Open, findOne |-> ForAnyone, findStats |-> ForAnyone,
     findReferredCampaigns |-> ForUser, findCampaignReferrals |-> ForUser, find |-> Open]

\* The cover's guard finds no id among the parameters and admits nobody.
CampaignWriting == LET Edit == On("campaign", "campaignOwner", "edit") IN
    [addRewards |-> Edit, update |-> Edit, updateFiles |-> Edit,
     updateCover |-> On("site", "nobody", "answer"), updateBanner |-> Edit,
     updateInfo |-> Edit, updateVideo |-> Edit, expressGuestInterest |-> ByAdmin]

\* Its own row only, where no id is in the url
MemberRoutes == LET Edit == On("member", "memberOwner", "edit") IN
    [findMe |-> ForUser, findAll |-> On("member", "admin", "answer"),
     findOne |-> On("member", "admin", "answer"), getAssets |-> Open, getWallets |-> Open,
     findReferrals |-> ForUser, update |-> Edit, updatePassword |-> Edit,
     requestPasswordReset |-> Open, resetPassword |-> Open,
     requestEmailChange |-> ForUser, requestEmailVerification |-> ForUser]

MemberUpkeep == LET Edit == On("member", "memberOwner", "edit") IN
    [verifyEmail |-> Open, updateAvatar |-> Edit, removeAvatar |-> Edit,
     syncWallet |-> Edit, pseudoDelete |-> Edit, pseudoRecover |-> Edit,
     insertDeviceToken |-> ForUser, getUserPrivacyConsents |-> ForUser,
     createUserPrivacyConsent |-> ForUser]

WalletRoutes ==
    [findOne |-> Open, getAssets |-> Open,
     update |-> On("wallet", "walletOwner", "edit"), syncWallet |-> Open]

WalletLinks ==
    [requestPassword |-> ForUser,
     connectWalletDeprecated |-> On("wallet", "user", "connect"),
     connectWallet |-> On("wallet", "user", "connect"),
     disconnectWallet |-> On("wallet", "user", "disconnect")]

CarouselRoutes ==
    [create |-> ByAdmin, findAll |-> Open, findAllRaw |-> ByAdmin, findOne |-> Open,
     update |-> ByAdmin, updateImage |-> ByAdmin, expire |-> ByAdmin]
GenreRoutes ==
    [create |-> ByAdmin, findAll |-> Open, findOne |-> Open, update |-> ByAdmin,
     updateIcon |-> ByAdmin, delete |-> ByAdmin]
WheelRoutes ==
    [create |-> ByAdmin, update |-> ByAdmin, findOne |-> ForAnyone, spin |-> ForVerified,
     getWheelRewardHistory |-> Open, addReward |-> ByAdmin, updateReward |-> ByAdmin,
     addDrops |-> ByAdmin]
MachineRoutes ==
    [findByAddress |-> ForAnyone, findLaunchpads |-> Open, whitelistWallets |-> ByAdmin,
     whitelistUsers |-> ByAdmin, addCandyMachineCoupon |-> ByAdmin,
     addCandyMachineCouponCurrency |-> ByAdmin]
CacheRoutes == [resetCache |-> ByAdmin, clearCache |-> ByAdmin, deleteByPattern |-> ByAdmin]
WebhookRoutes ==
    [findAll |-> ByAdmin, findOne |-> ByAdmin, updateWebhook |-> ByAdmin,
     handle |-> On("site", "webhook", "answer"), remove |-> ByAdmin]

\* A draft is asked for by the id of its issue, and then named by its own.
DraftRoutes ==
    [create |-> On("issue", "draftOwner", "draft"),
     findOne |-> On("draft", "draftOwner", "raw"),
     update |-> On("draft", "draftOwner", "amend"),
     delete |-> On("draft", "draftOwner", "discard")]

AssetReading ==
    [findAll |-> Open, findAllCollectibleComics |-> Open,
     findCollectibleComicRarityStats |-> Open, findOne |-> Open,
     getAutographRequests |-> On("channel", "adminOrChannelOwner", "raw")]
AssetWriting ==
    [requestAutograph |-> ForUser, createPrintEditionCollection |-> Open,
     createOneOfOne |-> Open, createOneOfOneCollection |-> Open, syncAllAssets |-> ByAdmin]

\* A transaction is built for whoever signs it; a comic is opened by its owner.
MintTransactions ==
    [constructBlinkMintTransaction |-> Open, constructMintTransaction |-> ForAnyone,
     sendMintTransaction |-> ForAnyone, constructTipCreatorTransaction |-> Open,
     constructUseComicAssetTransaction |-> ForUser]
SaleTransactions ==
    [constructInitializeEditionSaleTransaction |-> Open,
     constructBuyPrintEditionTransaction |-> Open, constructListTransaction |-> Open,
     constructTimedAuctionListTransaction |-> Open,
     constructRepriceListingTransaction |-> Open, constructBidTransaction |-> Open,
     constructDirectBuyTransaction |-> Open, constructCancelBidTransaction |-> Open,
     createCancelListingTransaction |-> Open]
WorkTransactions ==
    [createPrintEditionCollectionTransaction |-> Open, createOneOfOneTransaction |-> Open,
     createOneOfOneCollectionTransaction |-> Open]
SaleReading == [findCollectibleComicListings |-> Open, findCollectionStats |-> Open]

\* Google's token names an email, which may be no member's yet.
ByGoogle == On("site", "google", "answer")
AccountRoutes ==
    [validateUsername |-> Open, googleLogin |-> ByGoogle, registerGoogleUser |-> ByGoogle,
     validateUserEmail |-> Open, registerUser |-> Open, loginUser |-> Open,
     reauthorizeUser |-> Open, validateCreatorHandle |-> Open]

NotificationRoutes ==
    [create |-> Open, findAll |-> Open, findUserNotifications |-> ForUser,
     read |-> ForUser, remove |-> Open, sendMessageToTopic |-> ByAdmin,
     sendMessageToDevices |-> ByAdmin]
SettingsRoutes ==
    [getGlobalStatus |-> Open, createGlobalStatus |-> Open, updateGlobalStatus |-> Open,
     getSupportedSplTokens |-> Open]
TwitterRoutes ==
    [getTwitterIntentComicMinted |-> Open, getTwitterIntentComicIssueSpotlight |-> Open,
     getTwitterIntentExpressedInterest |-> ForUser]
BlinkRoutes == [getMintActionSpec |-> Open, getComicSignActionSpec |-> Open]
AppRoutes == [get |-> Open, getUserAuth |-> ForUser, healthCheck |-> Open]

AllRoutes == UNION {Range(ComicReading), Range(ComicWriting), Range(IssueReading),
    Range(IssueWriting), Range(ChannelReading), Range(ChannelWriting),
    Range(CampaignReading), Range(CampaignWriting), Range(MemberRoutes),
    Range(MemberUpkeep), Range(WalletRoutes), Range(WalletLinks), Range(CarouselRoutes),
    Range(GenreRoutes), Range(WheelRoutes), Range(MachineRoutes), Range(CacheRoutes),
    Range(WebhookRoutes), Range(DraftRoutes), Range(AssetReading), Range(AssetWriting),
    Range(MintTransactions), Range(SaleTransactions), Range(WorkTransactions),
    Range(SaleReading), Range(AccountRoutes), Range(NotificationRoutes),
    Range(SettingsRoutes), Range(TwitterRoutes), Range(BlinkRoutes), Range(AppRoutes)}

OwnerGuards == {"comicOwner", "issueOwner", "channelOwner", "campaignOwner", "memberOwner",
                "walletOwner", "adminOrChannelOwner", "draftOwner"}

-----------------------------------------------------------------------------
(* Rows, and whose they are                                                *)

RowsNamed(kind, key) ==
    CASE kind = "comic" -> {c.id : c \in {x \in comics : x.slug = key}}
      [] kind = "issue" -> {i.id : i \in {x \in issues : x.id = key}}
      [] kind = "draft" -> {d.id : d \in {x \in drafts : x.id = key}}
      [] kind \in {"channel", "campaign"} -> {key} \cap Channels
      [] kind = "member" -> {key} \cap Members
      [] OTHER -> {key}

ComicOwner(id) == owners[(CHOOSE c \in comics : c.id = id).channel]

\* A draft outlives its issue, whose id it only notes.
IssueOwner(id) ==
    IF \E i \in issues : i.id = id THEN ComicOwner((CHOOSE i \in issues : i.id = id).comic)
    ELSE Unknown

OwnerOf(kind, row) ==
    CASE kind = "comic" -> ComicOwner(row)
      [] kind = "issue" -> IssueOwner(row)
      [] kind = "draft" -> IssueOwner((CHOOSE d \in drafts : d.id = row).issue)
      [] kind \in {"channel", "campaign"} -> owners[row]
      [] kind = "member" -> row
      [] kind = "wallet" -> walletUser
      [] OTHER -> Unknown

ChannelsOf(user) == {c \in Channels : owners[c] = user}
Taken(slug) == \E c \in comics : c.slug = slug

\* What a request asks and of which row, who asks, the role and the row the guard
\* read with its owner, and the slug or the issue its body names.
Visit(stage, route, user, key, body) ==
    [stage |-> stage, kind |-> route.kind, guard |-> route.guard, does |-> route.does,
     user |-> user, key |-> key, body |-> body, role |-> "User", approved |-> Unknown,
     owner |-> Unknown]
Ended == Visit("done", Open, Unknown, Unknown, Unknown)

Stages == {"idle", "guard", "lookup", "handle", "write", "role", "done"}

RoutesTypeOK ==
    /\ roles \in [Members -> Roles]
    /\ owners \in Seq(Members) /\ Len(owners) <= Cardinality(Members)
    /\ \A c \in comics : /\ c.id \in ComicIds /\ c.slug \in Slugs
                         /\ c.channel \in Channels /\ c.published \in BOOLEAN
    /\ \A i \in issues : i.id \in ComicIds /\ \E c \in comics : c.id = i.comic
    /\ \A d \in drafts : d.id \in 1..given.draft /\ d.issue \in 1..given.issue
    /\ given \in [comic : 1..MaxComics, issue : 1..MaxComics, draft : 0..MaxComics]
    /\ \A c \in comics : c.id <= given.comic
    /\ walletUser \in Members \cup {Unknown}
    /\ subject \in Subjects
    /\ \A r \in Visits : visit[r].stage \in Stages /\ visit[r].role \in Roles

\* Member m has a channel with a comic and an issue.  Member n has been given some
\* role, and a channel if it is a creator's, with or without as much.
FirstRows(m, n, role, slug, made) ==
    /\ m # n /\ slug[1] # slug[2]
    /\ made = 2 => role = "Creator"
    /\ roles = [x \in Members |-> IF x = m THEN "Creator" ELSE IF x = n THEN role ELSE "User"]
    /\ owners = IF role = "Creator" THEN <<m, n>> ELSE <<m>>
    /\ comics = {[id |-> i, slug |-> slug[i], channel |-> i, published |-> FALSE] : i \in 1..made}
    /\ issues = {[id |-> i, comic |-> i] : i \in 1..made}
    /\ given = [comic |-> made, issue |-> made, draft |-> Cardinality(drafts)]

RoutesInit ==
    /\ subject \in Subjects
    /\ \/ drafts = {}
       \/ \E v \in BOOLEAN : drafts = {[id |-> 1, issue |-> 1, verified |-> v]}
    /\ \E m, n \in Members, role \in Roles, slug \in [{1, 2} -> Slugs], made \in {1, 2} :
         FirstRows(m, n, role, slug, made)
    /\ walletUser \in Members \cup {Unknown}
    /\ visit = [r \in Visits |-> Visit("idle", Open, Unknown, Unknown, Unknown)]
    /\ changes = {} /\ refusals = {}

-----------------------------------------------------------------------------
(* The guards                                                              *)

KeysOf(route) ==
    CASE route.kind = "comic" \/ (route.kind = "issue" /\ route.does = "insert") -> Slugs
      [] route.kind = "draft" -> ComicIds
      [] route.kind \in {"issue", "wallet", "site"} -> {1}
      [] OTHER -> Members

\* What a body may name besides: another slug, or an issue beside a draft's id
BodiesOf(route) ==
    IF route.does = "rename" THEN Slugs ELSE IF route.kind = "draft" THEN ComicIds ELSE {}

\* Nothing to tell of the step
Quietly == changes' = {} /\ refusals' = {}

ask(r) ==
    /\ visit[r].stage = "idle"
    /\ \E route \in AllRoutes, user \in Members :
         /\ route.kind = subject \/ (route.kind = "draft" /\ subject = "issue")
         /\ \E key \in KeysOf(route), body \in BodiesOf(route) \cup {Unknown} :
              visit' = [visit EXCEPT ![r] = Visit("guard", route, user, key, body)]
    /\ UNCHANGED <<rowsOfRoutes, subject>> /\ Quietly

At(r, stage) == visit[r].stage = stage
Goes(r, stage) ==
    visit' = [visit EXCEPT ![r] = IF stage = "done" THEN Ended ELSE [@ EXCEPT !.stage = stage]]

\* A guard looks up the row of the url; but where the body of a request about a
\* draft names an issue, the guard of drafts looks up that issue and not the draft.
NamesIssue(q) == q.kind = "draft" /\ q.body # Unknown
AskedKind(q) == IF NamesIssue(q) THEN "issue" ELSE q.kind
RowsAsked(q) == RowsNamed(AskedKind(q), IF NamesIssue(q) THEN q.body ELSE q.key)

\* The owner of the row the guard looks up is refused, its channel made in full or not.
Refusal(q) ==
    IF q.guard \in OwnerGuards /\ \E row \in RowsAsked(q) : OwnerOf(AskedKind(q), row) = q.user
    THEN {[user |-> q.user, guard |-> q.guard, role |-> roles[q.user],
           making |-> \E s \in Visits : visit[s].stage = "role" /\ visit[s].user = q.user]}
    ELSE {}

refuse(r) == Goes(r, "done") /\ refusals' = Refusal(visit[r]) /\ changes' = {}

\* RolesGuard, CreatorAuthGuard, and what the guards of owners ask of the role first
RoleAdmits(guard, role) ==
    CASE guard = "admin" -> role \in {"Superadmin", "Admin"}
      [] guard \in {"creator", "comicOwner", "channelOwner", "campaignOwner", "draftOwner"} ->
           role = "Creator"
      [] guard \in {"issueOwner", "adminOrChannelOwner"} -> role \in {"Admin", "Creator"}
      [] guard = "nobody" -> FALSE
      [] OTHER -> TRUE

AdminPasses(guard, role) == guard \in {"issueOwner", "adminOrChannelOwner"} /\ role = "Admin"

\* validateJwt reads the user's row, and the guards of roles look at it.
authenticate(r) ==
    LET q == visit[r]
        role == roles[q.user]
    IN  /\ At(r, "guard")
        /\ \/ /\ q.guard \in {"none", "optional", "webhook", "google"}
              /\ Goes(r, "handle") /\ Quietly
           \/ /\ q.guard \notin {"none", "webhook", "google"} /\ RoleAdmits(q.guard, role)
              /\ visit' = [visit EXCEPT ![r].role = role, ![r].stage =
                   IF q.guard \in OwnerGuards \cup {"verified"} /\ ~AdminPasses(q.guard, role)
                   THEN "lookup" ELSE "handle"]
              /\ Quietly
           \/ ~RoleAdmits(q.guard, role) /\ refuse(r)
        /\ UNCHANGED <<rowsOfRoutes, subject>>

\* A mutant of Approves: what is compared is the id of the channel.
ApprovesChannel(q, row) == q.kind # "member" /\ row = q.user

\* The row belongs to the user.  A superadmin may change any wallet and any user,
\* but no one may change a superadmin.
Approves(q, row) ==
    IF q.guard = "memberOwner"
    THEN roles[row] # "Superadmin" /\ (q.role = "Superadmin" \/ row = q.user)
    ELSE \/ OwnerOf(AskedKind(q), row) = q.user
         \/ q.guard = "walletOwner" /\ q.role = "Superadmin"

lookUp(r) ==
    LET q == visit[r] IN
    /\ At(r, "lookup") /\ q.guard # "verified"
    /\ \/ \E row \in RowsAsked(q) :
            /\ Approves(q, row)
            /\ visit' = [visit EXCEPT ![r].stage = "handle", ![r].approved = row,
                                      ![r].owner = OwnerOf(AskedKind(q), row)]
            /\ Quietly
       \/ ~(\E row \in RowsAsked(q) : Approves(q, row)) /\ refuse(r)
    /\ UNCHANGED <<rowsOfRoutes, subject>>

\* emailVerifiedAt may have a date or not.
lookUpVerified(r) ==
    /\ At(r, "lookup") /\ visit[r].guard = "verified"
    /\ \E stage \in {"handle", "done"} : Goes(r, stage)
    /\ UNCHANGED <<rowsOfRoutes, subject>> /\ Quietly

-----------------------------------------------------------------------------
(* The handlers                                                            *)

Handles(r, does) == At(r, "handle") /\ visit[r].does = does
Writes(r, does) == At(r, "write") /\ visit[r].does = does

\* The row a request changes or answers and its owner then, and the owner of the issue
\* that vouched for a draft
Changed(q, row) ==
    [kind |-> q.kind, guard |-> q.guard, does |-> q.does, user |-> q.user, role |-> q.role,
     approved |-> q.approved, seen |-> q.owner, row |-> row, owner |-> OwnerOf(q.kind, row),
     vouched |-> IF NamesIssue(q) THEN {IssueOwner(q.body)} ELSE {}]

Change(q) == changes' = {Changed(q, row) : row \in RowsNamed(q.kind, q.key)}
OnlyChange(r) == Goes(r, "done") /\ Change(visit[r]) /\ UNCHANGED subject /\ refusals' = {}
NoChange == UNCHANGED <<rowsOfRoutes, subject>> /\ Quietly

answer(r) == Handles(r, "answer") /\ Goes(r, "done") /\ NoChange

\* Other columns of the row, or an answer read from it
editOrRead(r) ==
    /\ Handles(r, "edit") \/ Handles(r, "raw")
    /\ OnlyChange(r) /\ UNCHANGED rowsOfRoutes

\* update of a comic and create: throwIfSlugTaken
checkSlug(r) ==
    LET q == visit[r]
        slug == IF q.does = "rename" THEN q.body ELSE q.key
    IN  /\ Handles(r, "rename") \/ (Handles(r, "insert") /\ q.kind = "comic")
        /\ Goes(r, IF Taken(slug) THEN "done" ELSE "write")
        /\ NoChange

\* The unique index of slugs may refuse still; the issues follow their comic.
updateComic(r) ==
    LET q == visit[r] IN
    /\ Writes(r, "rename")
    /\ \/ Taken(q.body) /\ Goes(r, "done") /\ NoChange
       \/ /\ ~Taken(q.body)
          /\ comics' = {IF c.slug = q.key /\ q.body # Unknown THEN [c EXCEPT !.slug = q.body]
                        ELSE c : c \in comics}
          /\ OnlyChange(r) /\ UNCHANGED <<roles, owners, issues, drafts, given, walletUser>>

NextComic == given.comic + 1

\* Of the channel of the user.  Bound: MaxComics
createComic(r) ==
    LET q == visit[r] IN
    /\ Writes(r, "insert") /\ q.kind = "comic"
    /\ \/ (Taken(q.key) \/ ChannelsOf(q.user) = {}) /\ Goes(r, "done") /\ NoChange
       \/ /\ ~Taken(q.key) /\ NextComic \in ComicIds
          /\ \E channel \in ChannelsOf(q.user) :
               comics' = comics \cup {[id |-> NextComic, slug |-> q.key, channel |-> channel,
                                       published |-> FALSE]}
          /\ given' = [given EXCEPT !.comic = NextComic]
          /\ Goes(r, "done")
          /\ UNCHANGED <<roles, owners, issues, drafts, walletUser, subject>> /\ Quietly

publishComic(r) ==
    LET q == visit[r] IN
    /\ Handles(r, "publish")
    /\ comics' = {IF c.slug = q.key THEN [c EXCEPT !.published = TRUE] ELSE c : c \in comics}
    /\ OnlyChange(r) /\ UNCHANGED <<roles, owners, issues, drafts, given, walletUser>>

\* A published row stays; whether an issue is, is not followed here.
checkRemoval(r) ==
    LET q == visit[r] IN
    /\ Handles(r, "remove")
    /\ \/ /\ q.kind = "comic" => \E c \in comics : c.slug = q.key /\ ~c.published
          /\ Goes(r, "write")
       \/ /\ q.kind = "comic" => ~(\E c \in comics : c.slug = q.key /\ ~c.published)
          /\ Goes(r, "done")
    /\ NoChange

\* The issues of a comic go with it.
remove(r) ==
    LET q == visit[r]
        gone == RowsNamed(q.kind, q.key)
    IN  /\ Writes(r, "remove")
        /\ comics' = IF q.kind = "comic" THEN {c \in comics : c.id \notin gone} ELSE comics
        /\ issues' = {i \in issues : (IF q.kind = "comic" THEN i.comic ELSE i.id) \notin gone}
        /\ OnlyChange(r) /\ UNCHANGED <<roles, owners, drafts, given, walletUser>>

\* The comic's channel is compared with the id of the user.
checkParent(r) ==
    LET q == visit[r]
        parents == {c \in comics : c.slug = q.key /\ c.channel = q.user}
    IN  /\ Handles(r, "insert") /\ q.kind = "issue"
        /\ Goes(r, IF parents = {} THEN "done" ELSE "write")
        /\ NoChange

NextIssue == given.issue + 1
createIssue(r) ==
    LET q == visit[r] IN
    /\ Writes(r, "insert") /\ q.kind = "issue"
    /\ \/ (~Taken(q.key) \/ NextIssue \notin ComicIds) /\ Goes(r, "done") /\ NoChange
       \/ /\ NextIssue \in ComicIds
          /\ \E c \in comics : /\ c.slug = q.key
                               /\ issues' = issues \cup {[id |-> NextIssue, comic |-> c.id]}
          /\ given' = [given EXCEPT !.issue = NextIssue]
          /\ Goes(r, "done")
          /\ UNCHANGED <<roles, owners, comics, drafts, walletUser, subject>> /\ Quietly

\* throwIfPendingRequest, and then the row: nothing else keeps an issue from two.
checkDraft(r) ==
    LET q == visit[r] IN
    /\ Handles(r, "draft")
    /\ Goes(r, IF \E d \in drafts : d.issue = q.key THEN "done" ELSE "write")
    /\ NoChange

NextDraft == given.draft + 1
createDraft(r) ==
    LET q == visit[r] IN
    /\ Writes(r, "draft")
    /\ \/ NextDraft \notin ComicIds /\ Goes(r, "done") /\ NoChange
       \/ /\ NextDraft \in ComicIds
          /\ drafts' = drafts \cup {[id |-> NextDraft, issue |-> q.key, verified |-> FALSE]}
          /\ given' = [given EXCEPT !.draft = NextDraft]
          /\ Goes(r, "done")
          /\ UNCHANGED <<roles, owners, comics, issues, walletUser, subject>> /\ Quietly

\* A verified draft is refused.
updateDraft(r) ==
    LET q == visit[r] IN
    /\ Handles(r, "amend")
    /\ \/ /\ \E d \in drafts : d.id = q.key /\ ~d.verified
          /\ OnlyChange(r) /\ UNCHANGED rowsOfRoutes
       \/ /\ ~(\E d \in drafts : d.id = q.key /\ ~d.verified)
          /\ Goes(r, "done") /\ NoChange

deleteDraft(r) ==
    /\ Handles(r, "discard")
    /\ drafts' = {d \in drafts : d.id # visit[r].key}
    /\ OnlyChange(r) /\ UNCHANGED <<roles, owners, comics, issues, given, walletUser>>

\* One channel for a user, and then the role
checkChannel(r) ==
    LET q == visit[r] IN
    /\ Handles(r, "insert") /\ q.kind = "channel"
    /\ Goes(r, IF ChannelsOf(q.user) # {} THEN "done" ELSE "write")
    /\ NoChange

createChannel(r) ==
    LET q == visit[r] IN
    /\ Writes(r, "insert") /\ q.kind = "channel"
    /\ \/ ChannelsOf(q.user) # {} /\ Goes(r, "done") /\ NoChange
       \/ /\ ChannelsOf(q.user) = {}
          /\ owners' = Append(owners, q.user)
          /\ Goes(r, "role")
          /\ UNCHANGED <<roles, comics, issues, drafts, given, walletUser, subject>> /\ Quietly

giveRole(r) ==
    /\ At(r, "role")
    /\ roles' = [roles EXCEPT ![visit[r].user] = "Creator"]
    /\ Goes(r, "done")
    /\ UNCHANGED <<owners, comics, issues, drafts, given, walletUser, subject>> /\ Quietly

\* The wallet signed, and becomes the user's, whoever's it was.
linkWallet(r) ==
    /\ Handles(r, "connect") \/ Handles(r, "disconnect")
    /\ walletUser' = IF visit[r].does = "connect" THEN visit[r].user ELSE Unknown
    /\ Goes(r, "done")
    /\ UNCHANGED <<roles, owners, comics, issues, drafts, given, subject>> /\ Quietly

VisitStep(r) ==
    \/ ask(r) \/ authenticate(r) \/ lookUp(r) \/ lookUpVerified(r)
    \/ answer(r) \/ editOrRead(r) \/ checkSlug(r) \/ updateComic(r) \/ createComic(r)
    \/ publishComic(r) \/ checkRemoval(r) \/ remove(r) \/ checkParent(r) \/ createIssue(r)
    \/ checkDraft(r) \/ createDraft(r) \/ updateDraft(r) \/ deleteDraft(r)
    \/ checkChannel(r) \/ createChannel(r) \/ giveRole(r) \/ linkWallet(r)

RoutesNext == \E r \in Visits : VisitStep(r)

RoutesSpec == RoutesInit /\ [][RoutesNext]_routeVars

-----------------------------------------------------------------------------
\* The roles a guard of owners lets by whoever owns the row
Passes(c) ==
    \/ c.guard \in {"issueOwner", "adminOrChannelOwner"} /\ c.role = "Admin"
    \/ c.guard \in {"walletOwner", "memberOwner"} /\ c.role = "Superadmin"

\* A comic or a wallet may have changed hands between the guard and the handler, and
\* the issue of a draft be gone.
HandedOver(c) ==
    \/ c.kind = "draft" /\ c.owner = Unknown
    \/ c.kind = "comic" /\ c.row # c.approved
    \/ c.kind = "wallet" /\ c.owner # c.seen

\* A draft was vouched for by an issue of the user, which may be gone meanwhile.
Vouched(c) == c.kind = "draft" /\ c.vouched \cap {c.user, Unknown} # {}

\* What a route of owners changes or answers raw is a row of the user who asked,
\* but for administrators, and for a slug or a wallet that went to another between
\* the guard and the handler; with ids, whatever happens meanwhile.  A draft is its
\* issue's owner's or, where the body names an issue, any draft, and then that issue
\* is the user's.  And no owner of what a guard looks up is turned away: only while
\* its channel is being made, or a superadmin.
OwnersOnly ==
    /\ \A c \in changes : c.guard \in OwnerGuards =>
         c.owner = c.user \/ Passes(c) \/ HandedOver(c) \/ Vouched(c)
    /\ \A x \in refusals :
         x.making \/ (x.guard = "memberOwner" /\ x.role = "Superadmin")
=============================================================================
