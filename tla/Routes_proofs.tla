--------------------------- MODULE Routes_proofs ---------------------------
(* Theorems about the routes, for any members, slugs and comics, and any       *)
(* number of requests at once.                                                 *)
EXTENDS Routes, FiniteSetTheorems, TLAPS

Guards == OwnerGuards \cup {"none", "user", "optional", "verified", "admin", "creator",
                            "nobody", "webhook", "google"}
RouteKinds == Subjects \cup {"draft"}
Doings == {"answer", "edit", "raw", "insert", "rename", "publish", "remove", "draft", "amend",
           "discard", "connect", "disconnect"}

\* A guard of owners is put before rows of the kind it looks up.
Coherent(kind, guard) ==
    /\ guard = "memberOwner" => kind = "member"
    /\ guard \in OwnerGuards \ {"memberOwner", "walletOwner"} => kind \notin {"member", "wallet"}

\* A draft is made of an issue.
CoherentRoutes ==
    {x \in [kind : RouteKinds, guard : Guards, does : Doings] :
       Coherent(x.kind, x.guard) /\ (x.does = "draft" => x.kind = "issue")}

LEMMA OnCoherent ==
    ASSUME NEW k \in RouteKinds, NEW g \in Guards, NEW d \in Doings, Coherent(k, g),
           d = "draft" => k = "issue"
    PROVE  On(k, g, d) \in CoherentRoutes
  BY DEF CoherentRoutes, On

LEMMA NamedCoherent ==
    /\ {Open, ForUser, ForAnyone, ForVerified, ByAdmin, ByGoogle} \subseteq CoherentRoutes
    /\ On("site", "webhook", "answer") \in CoherentRoutes
    /\ On("site", "nobody", "answer") \in CoherentRoutes
  BY OnCoherent DEF Open, ForUser, ForAnyone, ForVerified, ByAdmin, ByGoogle, Coherent,
     OwnerGuards, Guards, RouteKinds, Subjects, Doings

LEMMA OwnedCoherent ==
    /\ On("issue", "draftOwner", "draft") \in CoherentRoutes
    /\ \A d \in Doings \ {"draft"} :
        {On("comic", "comicOwner", d), On("issue", "issueOwner", d),
         On("channel", "channelOwner", d), On("channel", "adminOrChannelOwner", d),
         On("campaign", "campaignOwner", d), On("member", "memberOwner", d),
         On("wallet", "walletOwner", d), On("issue", "draftOwner", d),
         On("draft", "draftOwner", d)} \subseteq CoherentRoutes
  BY OnCoherent DEF Coherent, OwnerGuards, Guards, RouteKinds, Subjects, Doings

LEMMA AskedCoherent ==
    \A k \in RouteKinds, d \in Doings \ {"draft"} :
        {On(k, "admin", d), On(k, "creator", d), On(k, "user", d)} \subseteq CoherentRoutes
  BY OnCoherent DEF Coherent, OwnerGuards, Guards

\* Every route of every controller
LEMMA RoutesCoherent == AllRoutes \subseteq CoherentRoutes
  <1> USE NamedCoherent, OwnedCoherent, AskedCoherent DEF Range, Doings, RouteKinds, Subjects
  <1>1. Range(ComicReading) \subseteq CoherentRoutes
    BY DEF ComicReading
  <1>2. Range(ComicWriting) \subseteq CoherentRoutes
    BY DEF ComicWriting
  <1>3. Range(IssueReading) \subseteq CoherentRoutes
    BY DEF IssueReading
  <1>4. Range(IssueWriting) \subseteq CoherentRoutes
    BY DEF IssueWriting
  <1>5. Range(ChannelReading) \subseteq CoherentRoutes
    BY DEF ChannelReading
  <1>6. Range(ChannelWriting) \subseteq CoherentRoutes
    BY DEF ChannelWriting
  <1>7. Range(CampaignReading) \subseteq CoherentRoutes
    BY DEF CampaignReading
  <1>8. Range(CampaignWriting) \subseteq CoherentRoutes
    BY DEF CampaignWriting
  <1>9. Range(MemberRoutes) \subseteq CoherentRoutes
    BY DEF MemberRoutes
  <1>10. Range(MemberUpkeep) \subseteq CoherentRoutes
    BY DEF MemberUpkeep
  <1>11. Range(WalletRoutes) \subseteq CoherentRoutes
    BY DEF WalletRoutes
  <1>12. Range(WalletLinks) \subseteq CoherentRoutes
    BY DEF WalletLinks
  <1>13. Range(CarouselRoutes) \subseteq CoherentRoutes
    BY DEF CarouselRoutes
  <1>14. Range(GenreRoutes) \subseteq CoherentRoutes
    BY DEF GenreRoutes
  <1>15. Range(WheelRoutes) \subseteq CoherentRoutes
    BY DEF WheelRoutes
  <1>16. Range(MachineRoutes) \subseteq CoherentRoutes
    BY DEF MachineRoutes
  <1>17. Range(CacheRoutes) \subseteq CoherentRoutes
    BY DEF CacheRoutes
  <1>18. Range(WebhookRoutes) \subseteq CoherentRoutes
    BY DEF WebhookRoutes
  <1>19. Range(DraftRoutes) \subseteq CoherentRoutes
    BY DEF DraftRoutes
  <1>20. Range(AssetReading) \subseteq CoherentRoutes
    BY DEF AssetReading
  <1>21. Range(AssetWriting) \subseteq CoherentRoutes
    BY DEF AssetWriting
  <1>22. Range(MintTransactions) \subseteq CoherentRoutes
    BY DEF MintTransactions
  <1>23. Range(SaleTransactions) \subseteq CoherentRoutes
    BY DEF SaleTransactions
  <1>24. Range(WorkTransactions) \subseteq CoherentRoutes
    BY DEF WorkTransactions
  <1>25. Range(SaleReading) \subseteq CoherentRoutes
    BY DEF SaleReading
  <1>26. Range(AccountRoutes) \subseteq CoherentRoutes
    BY DEF AccountRoutes
  <1>27. Range(NotificationRoutes) \subseteq CoherentRoutes
    BY DEF NotificationRoutes
  <1>28. Range(SettingsRoutes) \subseteq CoherentRoutes
    BY DEF SettingsRoutes
  <1>29. Range(TwitterRoutes) \subseteq CoherentRoutes
    BY DEF TwitterRoutes
  <1>30. Range(BlinkRoutes) \subseteq CoherentRoutes
    BY DEF BlinkRoutes
  <1>31. Range(AppRoutes) \subseteq CoherentRoutes
    BY DEF AppRoutes
  <1> QED
    BY <1>1, <1>2, <1>3, <1>4, <1>5, <1>6, <1>7, <1>8, <1>9, <1>10, <1>11, <1>12, <1>13,
       <1>14, <1>15, <1>16, <1>17, <1>18, <1>19, <1>20, <1>21, <1>22, <1>23, <1>24, <1>25,
       <1>26, <1>27, <1>28, <1>29, <1>30, <1>31 DEF AllRoutes

-----------------------------------------------------------------------------
(* The rows                                                                *)

Ids == RouteKeys \cup {Unknown}

UsersSound ==
    /\ roles \in [Members -> Roles] /\ owners \in Seq(Members)
    /\ walletUser \in Members \cup {Unknown}
    /\ given \in [comic : Nat, issue : Nat, draft : Nat]

\* Ids are given once, a comic has a channel and an issue a comic.
ComicsSound ==
    /\ comics \subseteq [id : Nat, slug : Ids, channel : Nat, published : BOOLEAN]
    /\ \A c \in comics : c.id <= given.comic /\ c.channel \in Channels
    /\ \A c, d \in comics : c.id = d.id => c = d
IssuesSound ==
    /\ issues \subseteq [id : Nat, comic : Nat]
    /\ \A i \in issues : i.id <= given.issue /\ \E c \in comics : c.id = i.comic
    /\ \A i, j \in issues : i.id = j.id => i = j
DraftsSound ==
    /\ drafts \subseteq [id : Nat, issue : Ids, verified : BOOLEAN]
    /\ \A d \in drafts : d.id <= given.draft
    /\ \A d, e \in drafts : d.id = e.id => d = e
RowsSound == UsersSound /\ ComicsSound /\ IssuesSound /\ DraftsSound

\* What a step does to the rows: channels stay whose they are, and a comic, an issue or
\* a draft that has a row afterwards had the same, but for its slug, or has a new id.
ChannelsMove == \A c \in Channels : c \in Channels' /\ owners'[c] = owners[c]
ComicsMove ==
    /\ given'.comic >= given.comic
    /\ \A c \in comics' : c.id > given.comic
                          \/ \E d \in comics : d.id = c.id /\ d.channel = c.channel
IssuesMove == given'.issue >= given.issue /\ \A i \in issues' : i.id > given.issue \/ i \in issues
DraftsMove == given'.draft >= given.draft /\ \A d \in drafts' : d.id > given.draft \/ d \in drafts
RowsMove == ChannelsMove /\ ComicsMove /\ IssuesMove /\ DraftsMove

Visitors ==
    [stage : Stages, kind : RouteKinds, guard : Guards, does : Doings, user : Members \cup {Unknown},
     key : Ids, body : Ids, role : Roles, approved : Ids \cup Nat,
     owner : Members \cup {Unknown}]

\* Who asks is a member, and asks by a route.
VisitsSound ==
    /\ visit \in [Visits -> Visitors]
    /\ \A r \in Visits : visit[r].stage \notin {"idle", "done"} =>
         visit[r].user \in Members /\ Coherent(visit[r].kind, visit[r].guard)

LEMMA UsersStill ==
    ASSUME UsersSound, UNCHANGED <<roles, owners, walletUser, given>>
    PROVE  UsersSound' /\ ChannelsMove
  BY DEF UsersSound, ChannelsMove, Channels
LEMMA ComicsStill ==
    ASSUME UsersSound, ComicsSound, UNCHANGED comics, given'.comic = given.comic, ChannelsMove
    PROVE  ComicsSound' /\ ComicsMove
  BY DEF UsersSound, ComicsSound, ComicsMove, ChannelsMove
LEMMA IssuesStill ==
    ASSUME UsersSound, IssuesSound, UNCHANGED issues, given'.issue = given.issue,
           \A c \in comics : \E d \in comics' : d.id = c.id
    PROVE  IssuesSound' /\ IssuesMove
  BY DEF UsersSound, IssuesSound, IssuesMove
LEMMA DraftsStill ==
    ASSUME UsersSound, DraftsSound, UNCHANGED drafts, given'.draft = given.draft
    PROVE  DraftsSound' /\ DraftsMove
  BY DEF UsersSound, DraftsSound, DraftsMove

\* Steps that change no row, or only users and wallets
LEMMA RowsStill ==
    ASSUME RowsSound, UsersSound' /\ ChannelsMove, UNCHANGED <<comics, issues, drafts, given>>
    PROVE  RowsSound' /\ RowsMove
  BY ComicsStill, IssuesStill, DraftsStill DEF RowsSound, RowsMove

ComicRow == [id : Nat, slug : Ids, channel : Nat, published : BOOLEAN]

\* A comic may be renamed and be published.
LEMMA ComicsRewritten ==
    ASSUME UsersSound, ComicsSound, UNCHANGED <<owners, given>>,
           NEW f \in [comics -> ComicRow], comics' = {f[c] : c \in comics},
           \A c \in comics : f[c].id = c.id /\ f[c].channel = c.channel
    PROVE  ComicsSound' /\ ComicsMove /\ \A c \in comics : \E d \in comics' : d.id = c.id
  <1>1. comics' \subseteq ComicRow
    OBVIOUS
  <1>2. ASSUME NEW c \in comics'
        PROVE  c.id <= given'.comic /\ c.channel \in Channels'
    BY DEF ComicsSound, Channels
  <1>3. ASSUME NEW c \in comics', NEW d \in comics', c.id = d.id
        PROVE  c = d
    <2>1. PICK a \in comics : c = f[a]
      OBVIOUS
    <2>2. PICK b \in comics : d = f[b]
      OBVIOUS
    <2>3. a.id = b.id
      BY <1>3, <2>1, <2>2
    <2> QED BY <2>1, <2>2, <2>3 DEF ComicsSound
  <1>4. ComicsMove
    BY DEF ComicsMove, UsersSound
  <1>5. \A c \in comics : \E d \in comics' : d.id = c.id
    OBVIOUS
  <1> QED BY <1>1, <1>2, <1>3, <1>4, <1>5 DEF ComicsSound, ComicRow

\* A step writes one table; the others stand as they did.
LEMMA RowsStep ==
    ASSUME RowsSound, VisitsSound, NEW r \in Visits, VisitStep(r)
    PROVE  RowsSound' /\ RowsMove
  <1> USE DEF RowsSound, RowsMove
  <1>0. CASE UNCHANGED rowsOfRoutes
    BY <1>0, UsersStill, RowsStill DEF rowsOfRoutes
  <1>1. CASE updateComic(r) /\ ~UNCHANGED rowsOfRoutes
    <2>1. /\ comics' = {IF c.slug = visit[r].key /\ visit[r].body # Unknown
                          THEN [c EXCEPT !.slug = visit[r].body] ELSE c : c \in comics}
          /\ UNCHANGED <<roles, owners, issues, drafts, given, walletUser>>
      BY <1>1 DEF updateComic, NoChange
    <2> DEFINE f == [c \in comics |-> IF c.slug = visit[r].key /\ visit[r].body # Unknown
                                       THEN [c EXCEPT !.slug = visit[r].body] ELSE c]
    <2>2. visit[r].body \in Ids
      BY DEF VisitsSound, Visitors
    <2>3. \A c \in comics : f[c] \in ComicRow /\ f[c].id = c.id /\ f[c].channel = c.channel
      BY <2>2 DEF ComicsSound, ComicRow
    <2>4. comics' = {f[c] : c \in comics} /\ f \in [comics -> ComicRow]
      BY <2>1, <2>3
    <2>5. UsersSound' /\ ChannelsMove
      BY <2>1, UsersStill
    <2> HIDE DEF f
    <2>6. ComicsSound' /\ ComicsMove /\ \A c \in comics : \E d \in comics' : d.id = c.id
      BY <2>1, <2>3, <2>4, ComicsRewritten
    <2> QED BY <2>1, <2>5, <2>6, IssuesStill, DraftsStill
  <1>2. CASE publishComic(r)
    <2>1. /\ comics' = {IF c.slug = visit[r].key THEN [c EXCEPT !.published = TRUE] ELSE c
                        : c \in comics}
          /\ UNCHANGED <<roles, owners, issues, drafts, given, walletUser>>
      BY <1>2 DEF publishComic
    <2> DEFINE f == [c \in comics |-> IF c.slug = visit[r].key
                                       THEN [c EXCEPT !.published = TRUE] ELSE c]
    <2>2. \A c \in comics : f[c] \in ComicRow /\ f[c].id = c.id /\ f[c].channel = c.channel
      BY DEF ComicsSound, ComicRow
    <2>3. comics' = {f[c] : c \in comics} /\ f \in [comics -> ComicRow]
      BY <2>1, <2>2
    <2>4. UsersSound' /\ ChannelsMove
      BY <2>1, UsersStill
    <2> HIDE DEF f
    <2>5. ComicsSound' /\ ComicsMove /\ \A c \in comics : \E d \in comics' : d.id = c.id
      BY <2>1, <2>2, <2>3, ComicsRewritten
    <2> QED BY <2>1, <2>4, <2>5, IssuesStill, DraftsStill
  <1>3. CASE createComic(r) /\ ~UNCHANGED rowsOfRoutes
    <2>1. PICK channel \in ChannelsOf(visit[r].user) :
            comics' = comics \cup {[id |-> NextComic, slug |-> visit[r].key,
                                    channel |-> channel, published |-> FALSE]}
      BY <1>3 DEF createComic, NoChange
    <2>2. /\ given' = [given EXCEPT !.comic = given.comic + 1]
          /\ UNCHANGED <<roles, owners, issues, drafts, walletUser>>
      BY <1>3 DEF createComic, NextComic, NoChange
    <2>3. channel \in Channels /\ Channels \subseteq Nat /\ visit[r].key \in Ids
      BY DEF ChannelsOf, Channels, UsersSound, VisitsSound, Visitors
    <2>4. UsersSound' /\ ChannelsMove
      BY <2>2 DEF UsersSound, ChannelsMove, Channels
    <2>5. given'.comic = given.comic + 1 /\ given.comic \in Nat
      BY <2>2 DEF UsersSound
    <2> DEFINE new == [id |-> NextComic, slug |-> visit[r].key, channel |-> channel,
                       published |-> FALSE]
    <2>8. new \in ComicRow /\ new.id = given.comic + 1 /\ new.channel \in Channels'
      BY <2>2, <2>3, <2>5 DEF ComicRow, NextComic, Channels
    <2>9. comics' = comics \cup {new}
      BY <2>1
    <2> HIDE DEF new
    <2>10. comics' \subseteq ComicRow
      BY <2>8, <2>9 DEF ComicsSound, ComicRow
    <2>11. \A c \in comics' : c.id <= given'.comic /\ c.channel \in Channels'
      BY <2>2, <2>5, <2>8, <2>9 DEF ComicsSound, ComicRow, Channels
    <2>12. \A c, d \in comics' : c.id = d.id => c = d
      <3>1. \A c \in comics : c.id <= given.comic /\ c.id \in Nat
        BY DEF ComicsSound
      <3> QED BY <2>5, <2>8, <2>9, <3>1 DEF ComicsSound
    <2>13. ComicsMove
      BY <2>5, <2>8, <2>9 DEF ComicsMove
    <2>6. ComicsSound' /\ ComicsMove
      BY <2>10, <2>11, <2>12, <2>13 DEF ComicsSound, ComicRow
    <2>7. given'.issue = given.issue /\ given'.draft = given.draft
      BY <2>2 DEF UsersSound
    <2> QED BY <2>1, <2>2, <2>4, <2>6, <2>7, IssuesStill, DraftsStill
  <1>4. CASE remove(r)
    <2> DEFINE gone == RowsNamed(visit[r].kind, visit[r].key)
    <2>1. /\ comics' = IF visit[r].kind = "comic" THEN {c \in comics : c.id \notin gone} ELSE comics
          /\ issues' = {i \in issues : (IF visit[r].kind = "comic" THEN i.comic ELSE i.id) \notin gone}
          /\ UNCHANGED <<roles, owners, drafts, given, walletUser>>
      BY <1>4 DEF remove
    <2> HIDE DEF gone
    <2>2. UsersSound' /\ ChannelsMove
      BY <2>1, UsersStill
    <2>3. ComicsSound' /\ ComicsMove
      BY <2>1 DEF UsersSound, ComicsSound, ComicsMove, Channels
    <2>4. IssuesSound' /\ IssuesMove
      BY <2>1 DEF UsersSound, IssuesSound, IssuesMove
    <2> QED BY <2>1, <2>2, <2>3, <2>4, DraftsStill
  <1>5. CASE createIssue(r) /\ ~UNCHANGED rowsOfRoutes
    <2>1. PICK c \in comics : issues' = issues \cup {[id |-> NextIssue, comic |-> c.id]}
      BY <1>5 DEF createIssue, NoChange
    <2>2. /\ given' = [given EXCEPT !.issue = given.issue + 1]
          /\ UNCHANGED <<roles, owners, comics, drafts, walletUser>>
      BY <1>5 DEF createIssue, NextIssue, NoChange
    <2>3. UsersSound' /\ ChannelsMove
      BY <2>2 DEF UsersSound, ChannelsMove, Channels
    <2>4. /\ given'.issue = given.issue + 1 /\ given.issue \in Nat
          /\ given'.comic = given.comic /\ given'.draft = given.draft
      BY <2>2 DEF UsersSound
    <2>5. IssuesSound' /\ IssuesMove
      BY <2>1, <2>2, <2>4 DEF ComicsSound, IssuesSound, IssuesMove, NextIssue
    <2> QED BY <2>2, <2>3, <2>4, <2>5, ComicsStill, DraftsStill
  <1>6. CASE createDraft(r) /\ ~UNCHANGED rowsOfRoutes
    <2>1. /\ drafts' = drafts \cup {[id |-> NextDraft, issue |-> visit[r].key, verified |-> FALSE]}
          /\ given' = [given EXCEPT !.draft = given.draft + 1]
          /\ UNCHANGED <<roles, owners, comics, issues, walletUser>>
      BY <1>6 DEF createDraft, NextDraft, NoChange
    <2>2. UsersSound' /\ ChannelsMove
      BY <2>1 DEF UsersSound, ChannelsMove, Channels
    <2>3. /\ given'.draft = given.draft + 1 /\ given.draft \in Nat
          /\ given'.comic = given.comic /\ given'.issue = given.issue
      BY <2>1 DEF UsersSound
    <2>4. visit[r].key \in Ids
      BY DEF VisitsSound, Visitors
    <2> DEFINE new == [id |-> NextDraft, issue |-> visit[r].key, verified |-> FALSE]
    <2>6. new \in [id : Nat, issue : Ids, verified : BOOLEAN] /\ new.id = given.draft + 1
      BY <2>3, <2>4 DEF NextDraft
    <2>7. drafts' = drafts \cup {new}
      BY <2>1
    <2> HIDE DEF new
    <2>8. \A d \in drafts : d.id <= given.draft /\ d.id \in Nat
      BY DEF DraftsSound
    <2>9. \A d, e \in drafts' : d.id = e.id => d = e
      BY <2>3, <2>6, <2>7, <2>8 DEF DraftsSound
    <2>10. \A d \in drafts' : d.id <= given'.draft
      BY <2>3, <2>6, <2>7, <2>8
    <2>11. drafts' \subseteq [id : Nat, issue : Ids, verified : BOOLEAN]
      BY <2>6, <2>7 DEF DraftsSound
    <2>12. DraftsMove
      BY <2>3, <2>6, <2>7 DEF DraftsMove
    <2>5. DraftsSound' /\ DraftsMove
      BY <2>9, <2>10, <2>11, <2>12 DEF DraftsSound
    <2> QED BY <2>1, <2>2, <2>3, <2>5, ComicsStill, IssuesStill
  <1>7. CASE deleteDraft(r)
    <2>1. drafts' \subseteq drafts /\ UNCHANGED <<roles, owners, comics, issues, given, walletUser>>
      BY <1>7 DEF deleteDraft
    <2>2. DraftsSound' /\ DraftsMove
      BY <2>1 DEF UsersSound, DraftsSound, DraftsMove
    <2> QED BY <2>1, <2>2, UsersStill, ComicsStill, IssuesStill
  <1>8. CASE createChannel(r) /\ ~UNCHANGED rowsOfRoutes
    <2>1. /\ owners' = Append(owners, visit[r].user)
          /\ UNCHANGED <<roles, comics, issues, drafts, given, walletUser>>
      BY <1>8 DEF createChannel, NoChange
    <2>2. visit[r].user \in Members
      BY <1>8 DEF createChannel, Writes, At, VisitsSound
    <2>3. UsersSound' /\ ChannelsMove
      BY <2>1, <2>2 DEF UsersSound, ChannelsMove, Channels
    <2> QED BY <2>1, <2>3, RowsStill
  <1>9. CASE giveRole(r)
    <2>1. UsersSound' /\ ChannelsMove
      BY <1>9 DEF giveRole, UsersSound, ChannelsMove, Channels, Roles
    <2> QED BY <1>9, <2>1, RowsStill DEF giveRole
  <1>10. CASE linkWallet(r)
    <2>1. UsersSound' /\ ChannelsMove
      BY <1>10 DEF linkWallet, UsersSound, ChannelsMove, Channels, VisitsSound, Visitors
    <2> QED BY <1>10, <2>1, RowsStill DEF linkWallet
  <1> QED
    BY <1>0, <1>1, <1>2, <1>3, <1>4, <1>5, <1>6, <1>7, <1>8, <1>9, <1>10
       DEF VisitStep, ask, authenticate, lookUp, lookUpVerified, answer, editOrRead, checkSlug,
           checkRemoval, checkParent, checkDraft, updateDraft, checkChannel, NoChange

-----------------------------------------------------------------------------
(* The requests                                                            *)

\* Every step writes the one request it is of: a new one, one a guard lets by, or one
\* that goes on from a handler.
Onward(r) ==
    \E stage \in {"write", "done"} :
        /\ Goes(r, stage) /\ visit[r].stage \in {"handle", "write"}
        /\ stage = "write" => At(r, "handle")

LEMMA StepKinds ==
    ASSUME NEW r \in Visits, VisitStep(r)
    PROVE  \/ ask(r) \/ authenticate(r) \/ lookUp(r) \/ lookUpVerified(r)
           \/ createChannel(r) \/ giveRole(r)
           \/ Onward(r) /\ UNCHANGED <<roles, owners>>
  <1> USE DEF Handles, Writes, At, Onward
  <1>1. ASSUME answer(r) \/ editOrRead(r) \/ checkSlug(r) \/ updateComic(r) \/ publishComic(r)
        PROVE  Onward(r) /\ UNCHANGED <<roles, owners>>
    BY <1>1 DEF answer, editOrRead, checkSlug, updateComic, publishComic, OnlyChange, NoChange,
       rowsOfRoutes
  <1>2. ASSUME createComic(r) \/ checkRemoval(r) \/ remove(r) \/ checkParent(r) \/ createIssue(r)
        PROVE  Onward(r) /\ UNCHANGED <<roles, owners>>
    BY <1>2 DEF createComic, checkRemoval, remove, checkParent, createIssue, OnlyChange, NoChange,
       rowsOfRoutes
  <1>3. ASSUME checkDraft(r) \/ createDraft(r) \/ updateDraft(r) \/ deleteDraft(r)
               \/ checkChannel(r) \/ linkWallet(r)
        PROVE  Onward(r) /\ UNCHANGED <<roles, owners>>
    BY <1>3 DEF checkDraft, createDraft, updateDraft, deleteDraft, checkChannel, linkWallet,
       OnlyChange, NoChange, rowsOfRoutes
  <1> QED BY <1>1, <1>2, <1>3 DEF VisitStep

LEMMA EndedSound == Ended \in Visitors /\ Ended.stage = "done"
  BY DEF Ended, Visit, Visitors, Open, On, Stages, RouteKinds, Subjects, Guards, OwnerGuards, Doings,
     Roles, Ids

\* The fields but the stage stay as they are.
LEMMA GoesSound ==
    ASSUME VisitsSound, NEW r \in Visits, NEW stage \in Stages, Goes(r, stage),
           visit[r].stage \notin {"idle", "done"}
    PROVE  VisitsSound'
  BY EndedSound DEF VisitsSound, Goes, Visitors

-----------------------------------------------------------------------------
(* Whose a row is                                                          *)

LEMMA ComicOwnerIs ==
    ASSUME RowsSound, NEW c \in comics
    PROVE  ComicOwner(c.id) = owners[c.channel] /\ owners[c.channel] \in Members
  <1>1. (CHOOSE x \in comics : x.id = c.id) = c
    BY DEF RowsSound, ComicsSound
  <1>2. owners[c.channel] \in Members
    BY DEF RowsSound, ComicsSound, UsersSound, Channels
  <1> QED BY <1>1, <1>2 DEF ComicOwner

LEMMA IssueOwnerIs ==
    ASSUME RowsSound, NEW i \in issues, NEW c \in comics, c.id = i.comic
    PROVE  IssueOwner(i.id) = owners[c.channel]
  <1>1. (CHOOSE x \in issues : x.id = i.id) = i
    BY DEF RowsSound, IssuesSound
  <1> QED BY <1>1, ComicOwnerIs DEF IssueOwner

LEMMA IssueOwnerTyped ==
    ASSUME RowsSound, NEW id
    PROVE  /\ IssueOwner(id) \in Members \cup {Unknown}
           /\ (\E i \in issues : i.id = id) => IssueOwner(id) \in Members
           /\ ~(\E i \in issues : i.id = id) => IssueOwner(id) = Unknown
  <1>1. ASSUME NEW i \in issues, i.id = id
        PROVE  IssueOwner(id) \in Members
    <2>1. PICK c \in comics : c.id = i.comic
      BY DEF RowsSound, IssuesSound
    <2> QED BY <1>1, <2>1, IssueOwnerIs, ComicOwnerIs
  <1> QED BY <1>1 DEF IssueOwner

LEMMA DraftOwnerIs ==
    ASSUME RowsSound, NEW d \in drafts
    PROVE  OwnerOf("draft", d.id) = IssueOwner(d.issue)
  <1>1. (CHOOSE x \in drafts : x.id = d.id) = d
    BY DEF RowsSound, DraftsSound
  <1> QED BY <1>1 DEF OwnerOf

\* A row has the user of a channel for owner, is itself a user, or is the wallet.
LEMMA OwnerTyped ==
    ASSUME RowsSound, NEW kind \in RouteKinds, NEW key, NEW row \in RowsNamed(kind, key)
    PROVE  /\ OwnerOf(kind, row) \in Members \cup {Unknown}
           /\ kind \notin {"member", "wallet"} /\ OwnerOf(kind, row) # Unknown =>
                \E channel \in Channels : owners[channel] = OwnerOf(kind, row)
  <1>1. CASE kind = "comic"
    <2>1. PICK c \in comics : c.id = row
      BY <1>1 DEF RowsNamed
    <2>2. OwnerOf(kind, row) = owners[c.channel] /\ owners[c.channel] \in Members
      BY <1>1, <2>1, ComicOwnerIs DEF OwnerOf
    <2> QED BY <2>2 DEF RowsSound, ComicsSound
  <1>2. ASSUME NEW id, IssueOwner(id) # Unknown
        PROVE  \E channel \in Channels : owners[channel] = IssueOwner(id)
    <2>1. PICK i \in issues : i.id = id
      BY <1>2, IssueOwnerTyped
    <2>2. PICK c \in comics : c.id = i.comic
      BY DEF RowsSound, IssuesSound
    <2> QED BY <2>1, <2>2, IssueOwnerIs DEF RowsSound, ComicsSound
  <1>3. CASE kind = "issue"
    BY <1>2, <1>3, IssueOwnerTyped DEF OwnerOf
  <1>4. CASE kind = "draft"
    <2>1. PICK d \in drafts : d.id = row
      BY <1>4 DEF RowsNamed
    <2> QED BY <1>2, <1>4, <2>1, DraftOwnerIs, IssueOwnerTyped
  <1>5. CASE kind \in {"channel", "campaign"}
    BY <1>5 DEF RowsNamed, OwnerOf, RowsSound, UsersSound, Channels
  <1>6. CASE kind = "member"
    BY <1>6 DEF RowsNamed, OwnerOf
  <1>7. CASE kind = "wallet"
    BY <1>7 DEF OwnerOf, RowsSound, UsersSound
  <1>8. CASE kind = "site"
    BY <1>8 DEF OwnerOf
  <1> QED BY <1>1, <1>3, <1>4, <1>5, <1>6, <1>7, <1>8 DEF RouteKinds, Subjects

\* What a request asks is one of the routes.
LEMMA AskedSound ==
    ASSUME NEW r \in Visits, ask(r), VisitsSound
    PROVE  VisitsSound' /\ visit'[r].stage = "guard" /\ \A s \in Visits \ {r} : visit'[s] = visit[s]
  <1>1. PICK route \in AllRoutes, user \in Members :
          \E k \in KeysOf(route), b \in BodiesOf(route) \cup {Unknown} :
             visit' = [visit EXCEPT ![r] = Visit("guard", route, user, k, b)]
    BY DEF ask
  <1>5. PICK key \in KeysOf(route), body \in BodiesOf(route) \cup {Unknown} :
          visit' = [visit EXCEPT ![r] = Visit("guard", route, user, key, body)]
    BY <1>1
  <1>6. key \in Ids /\ body \in Ids
    BY RoutesAssumption DEF KeysOf, BodiesOf, Ids, RouteKeys, ComicIds
  <1> DEFINE q == Visit("guard", route, user, key, body)
  <1>2. route \in CoherentRoutes
    BY RoutesCoherent
  <1>3. /\ q \in Visitors /\ q.stage = "guard" /\ q.user \in Members
        /\ Coherent(q.kind, q.guard)
    BY <1>2, <1>6 DEF Visit, Visitors, CoherentRoutes, Ids, Stages, Roles
  <1>4. visit' = [visit EXCEPT ![r] = q]
    BY <1>5
  <1> HIDE DEF q
  <1> QED BY <1>3, <1>4 DEF VisitsSound

LEMMA AdmittedSound ==
    ASSUME NEW r \in Visits, authenticate(r), VisitsSound, RowsSound
    PROVE  VisitsSound'
  <1>1. CASE \E stage \in {"handle", "done"} : Goes(r, stage)
    BY <1>1, GoesSound DEF authenticate, At, Stages
  <1>2. CASE \E stage \in {"lookup", "handle"} :
               visit' = [visit EXCEPT ![r].role = roles[visit[r].user], ![r].stage = stage]
    <2>1. PICK stage \in {"lookup", "handle"} :
            visit' = [visit EXCEPT ![r].role = roles[visit[r].user], ![r].stage = stage]
      BY <1>2
    <2>2. visit[r].user \in Members
      BY DEF VisitsSound, authenticate, At
    <2>3. roles[visit[r].user] \in Roles
      BY <2>2 DEF RowsSound, UsersSound
    <2> QED BY <2>1, <2>3, SMTT(60) DEF VisitsSound, Visitors, Stages, authenticate, At
  <1> QED BY <1>1, <1>2 DEF authenticate, refuse

LEMMA RowsNamedTyped ==
    ASSUME RowsSound, NEW kind \in RouteKinds, NEW key \in Ids, NEW row \in RowsNamed(kind, key)
    PROVE  row \in Ids \cup Nat
  BY DEF RowsNamed, RowsSound, ComicsSound, IssuesSound, DraftsSound, RouteKinds, Subjects

\* What a guard looks up is of one of the kinds, by an id or a slug.
LEMMA AskedTyped ==
    ASSUME NEW q \in Visitors
    PROVE  /\ AskedKind(q) \in RouteKinds
           /\ \E key \in Ids : RowsAsked(q) = RowsNamed(AskedKind(q), key)
  BY DEF Visitors, AskedKind, RowsAsked, RouteKinds, Subjects

LEMMA LookedUpSound ==
    ASSUME NEW r \in Visits, lookUp(r), VisitsSound, RowsSound
    PROVE  VisitsSound'
  <1>1. CASE refuse(r)
    BY <1>1, GoesSound DEF lookUp, At, Stages, refuse
  <1>2. ASSUME NEW row \in RowsAsked(visit[r]),
               visit' = [visit EXCEPT ![r].stage = "handle", ![r].approved = row,
                                      ![r].owner = OwnerOf(AskedKind(visit[r]), row)]
        PROVE  VisitsSound'
    <2>1. visit[r] \in Visitors
      BY DEF VisitsSound
    <2>2. PICK key \in Ids : /\ AskedKind(visit[r]) \in RouteKinds
                             /\ RowsAsked(visit[r]) = RowsNamed(AskedKind(visit[r]), key)
      BY <2>1, AskedTyped
    <2>3. /\ row \in Ids \cup Nat
          /\ OwnerOf(AskedKind(visit[r]), row) \in Members \cup {Unknown}
      BY <2>2, RowsNamedTyped, OwnerTyped
    <2> DEFINE owner == OwnerOf(AskedKind(visit[r]), row)
               q == [visit[r] EXCEPT !.stage = "handle", !.approved = row, !.owner = owner]
    <2>4. /\ visit' = [visit EXCEPT ![r] = q]
          /\ visit[r].user \in Members /\ Coherent(visit[r].kind, visit[r].guard)
      BY <1>2 DEF VisitsSound, lookUp, At
    <2> HIDE DEF owner
    <2>5. q \in Visitors /\ q.user = visit[r].user /\ q.kind = visit[r].kind
          /\ q.guard = visit[r].guard
      BY <2>1, <2>3 DEF Visitors, Stages, owner
    <2> HIDE DEF q
    <2> QED BY <2>4, <2>5 DEF VisitsSound
  <1> QED BY <1>1, <1>2 DEF lookUp

LEMMA VisitsStep ==
    ASSUME RowsSound, VisitsSound, NEW r \in Visits, VisitStep(r)
    PROVE  VisitsSound'
  <1>1. CASE Onward(r)
    BY <1>1, GoesSound DEF Onward, Stages
  <1>2. CASE createChannel(r)
    BY <1>2, GoesSound DEF createChannel, Writes, At, Stages
  <1>3. CASE giveRole(r)
    BY <1>3, GoesSound DEF giveRole, At, Stages
  <1>4. CASE lookUpVerified(r)
    BY <1>4, GoesSound DEF lookUpVerified, At, Stages
  <1> QED BY <1>1, <1>2, <1>3, <1>4, StepKinds, AskedSound, AdmittedSound, LookedUpSound

-----------------------------------------------------------------------------
(* What a guard found out, and whether it still stands when the handler comes *)

\* The row with this id, if it is there still, is the user's: no step gives it to another.
ComicStands(id, user) ==
    id \in Nat /\ id <= given.comic /\ \A c \in comics : c.id = id => owners[c.channel] = user
IssueStands(id, user) ==
    id \in Nat /\ id <= given.issue /\ \A i \in issues : i.id = id => ComicStands(i.comic, user)
DraftStands(id, user) ==
    id \in Nat /\ id <= given.draft /\ \A d \in drafts : d.id = id => IssueStands(d.issue, user)
ChannelStands(id, user) == id \in Channels /\ owners[id] = user

\* A comic is known by its slug, which may be another's later; a wallet changes hands; and
\* a draft is vouched for by the issue the body names.
Stands(q) ==
    \/ q.kind = "comic" /\ ComicStands(q.approved, q.user)
    \/ q.kind = "issue" /\ IssueStands(q.key, q.user)
    \/ q.kind = "draft" /\ ~NamesIssue(q) /\ DraftStands(q.key, q.user)
    \/ NamesIssue(q) /\ IssueStands(q.body, q.user)
    \/ q.kind \in {"channel", "campaign"} /\ ChannelStands(q.key, q.user)
    \/ q.kind = "member" /\ q.key = q.user
    \/ q.kind = "wallet" /\ q.owner = q.user

Guarded(q) == q.guard \in OwnerGuards => Passes(q) \/ Stands(q)
Approved == \A r \in Visits : visit[r].stage \in {"handle", "write"} => Guarded(visit[r])

LEMMA ComicsStand ==
    ASSUME RowsSound, RowsSound', RowsMove, NEW id, NEW user, ComicStands(id, user)
    PROVE  ComicStands(id, user)'
  <1>1. id \in Nat /\ id <= given'.comic
    BY DEF ComicStands, RowsMove, ComicsMove, RowsSound, UsersSound
  <1>2. ASSUME NEW c \in comics', c.id = id
        PROVE  owners'[c.channel] = user
    <2>1. PICK d \in comics : d.id = c.id /\ d.channel = c.channel
      BY <1>2 DEF ComicStands, RowsMove, ComicsMove, RowsSound, UsersSound
    <2>2. owners[d.channel] = user /\ d.channel \in Channels
      BY <1>2, <2>1 DEF ComicStands, RowsSound, ComicsSound
    <2> QED BY <2>1, <2>2 DEF RowsMove, ChannelsMove
  <1> QED BY <1>1, <1>2 DEF ComicStands

LEMMA IssuesStand ==
    ASSUME RowsSound, RowsSound', RowsMove, NEW id, NEW user, IssueStands(id, user)
    PROVE  IssueStands(id, user)'
  <1>1. id \in Nat /\ id <= given'.issue
    BY DEF IssueStands, RowsMove, IssuesMove, RowsSound, UsersSound
  <1>2. ASSUME NEW i \in issues', i.id = id
        PROVE  ComicStands(i.comic, user)'
    <2>1. i \in issues
      BY <1>2 DEF IssueStands, RowsMove, IssuesMove, RowsSound, UsersSound
    <2>2. ComicStands(i.comic, user)
      BY <1>2, <2>1 DEF IssueStands
    <2> QED BY <2>2, ComicsStand
  <1> QED BY <1>1, <1>2 DEF IssueStands

LEMMA DraftsStand ==
    ASSUME RowsSound, RowsSound', RowsMove, NEW id, NEW user, DraftStands(id, user)
    PROVE  DraftStands(id, user)'
  <1>1. id \in Nat /\ id <= given'.draft
    BY DEF DraftStands, RowsMove, DraftsMove, RowsSound, UsersSound
  <1>2. ASSUME NEW d \in drafts', d.id = id
        PROVE  IssueStands(d.issue, user)'
    <2>1. d \in drafts
      BY <1>2 DEF DraftStands, RowsMove, DraftsMove, RowsSound, UsersSound
    <2>2. IssueStands(d.issue, user)
      BY <1>2, <2>1 DEF DraftStands
    <2> QED BY <2>2, IssuesStand
  <1> QED BY <1>1, <1>2 DEF DraftStands

LEMMA StandingKept ==
    ASSUME RowsSound, RowsSound', RowsMove, NEW q, Stands(q)
    PROVE  Stands(q)'
  <1>1. ChannelStands(q.key, q.user) => ChannelStands(q.key, q.user)'
    BY DEF ChannelStands, RowsMove, ChannelsMove
  <1> QED BY <1>1, ComicsStand, IssuesStand, DraftsStand DEF Stands, NamesIssue

\* What the guard approves of belongs to the user, or anyone of the role may pass.
LEMMA ApprovesOwner ==
    ASSUME RowsSound, NEW q \in Visitors, NEW row \in RowsAsked(q),
           Approves(q, row), q.guard \in OwnerGuards, q.user \in Members,
           Coherent(q.kind, q.guard)
    PROVE  Guarded([q EXCEPT !.stage = "handle", !.approved = row,
                             !.owner = OwnerOf(AskedKind(q), row)])
  <1> DEFINE owner == OwnerOf(AskedKind(q), row)
             n == [q EXCEPT !.stage = "handle", !.approved = row, !.owner = owner]
  <1>1. /\ n.guard = q.guard /\ n.role = q.role /\ n.kind = q.kind /\ n.key = q.key
        /\ n.user = q.user /\ n.approved = row /\ n.owner = owner /\ n.body = q.body
        /\ NamesIssue(n) <=> NamesIssue(q)
    BY DEF Visitors, NamesIssue
  <1>5. ~NamesIssue(q) => /\ AskedKind(q) = q.kind
                          /\ row \in RowsNamed(q.kind, q.key) /\ owner = OwnerOf(q.kind, row)
    BY DEF AskedKind, RowsAsked
  <1> HIDE DEF n
  <1>2. CASE Passes(q)
    BY <1>1, <1>2 DEF Passes, Guarded
  <1>3. CASE q.guard = "memberOwner" /\ ~Passes(q)
    <2>1. q.kind = "member" /\ row = q.key
      BY <1>3, <1>5 DEF Coherent, RowsNamed, NamesIssue
    <2>2. q.key = q.user
      BY <1>3, <2>1 DEF Approves, Passes
    <2> QED BY <1>1, <2>1, <2>2 DEF Stands, Guarded
  <1>4. CASE q.guard # "memberOwner" /\ ~Passes(q)
    <2>1. owner = q.user /\ q.user # Unknown
      BY <1>4, RoutesAssumption DEF Approves, Passes
    <2>2. CASE q.kind = "comic"
      <3>1. PICK c \in comics : c.id = row
        BY <1>5, <2>2 DEF RowsNamed, NamesIssue
      <3>2. owners[c.channel] = q.user
        BY <1>5, <2>1, <2>2, <3>1, ComicOwnerIs DEF OwnerOf, NamesIssue
      <3>3. ComicStands(row, q.user)
        BY <3>1, <3>2 DEF RowsSound, ComicsSound, ComicStands
      <3> QED BY <1>1, <2>2, <3>3 DEF Stands, Guarded
    <2>3. ASSUME NEW id, IssueOwner(id) = q.user
          PROVE  IssueStands(id, q.user)
      <3>1. PICK i \in issues : i.id = id
        BY <2>1, <2>3, IssueOwnerTyped
      <3>2. PICK c \in comics : c.id = i.comic
        BY DEF RowsSound, IssuesSound
      <3>3. owners[c.channel] = q.user
        BY <2>3, <3>1, <3>2, IssueOwnerIs
      <3>4. ComicStands(i.comic, q.user)
        BY <3>2, <3>3 DEF RowsSound, ComicsSound, ComicStands
      <3> QED BY <3>1, <3>4 DEF IssueStands, RowsSound, IssuesSound
    <2>4. CASE q.kind = "issue"
      <3>1. row = q.key /\ IssueOwner(row) = q.user
        BY <1>5, <2>1, <2>4 DEF RowsNamed, OwnerOf, NamesIssue
      <3> QED BY <1>1, <2>3, <2>4, <3>1 DEF Stands, Guarded
    <2>9. CASE NamesIssue(q)
      <3>1. row = q.body /\ IssueOwner(row) = q.user
        BY <2>1, <2>9 DEF RowsAsked, AskedKind, RowsNamed, OwnerOf
      <3> QED BY <1>1, <2>3, <2>9, <3>1 DEF Stands, Guarded, NamesIssue
    <2>5. CASE q.kind = "draft" /\ ~NamesIssue(q)
      <3>1. PICK d \in drafts : d.id = q.key /\ row = q.key
        BY <1>5, <2>5 DEF RowsNamed
      <3>2. IssueStands(d.issue, q.user)
        BY <1>5, <2>1, <2>3, <2>5, <3>1, DraftOwnerIs
      <3>3. DraftStands(q.key, q.user)
        BY <3>1, <3>2 DEF DraftStands, RowsSound, DraftsSound
      <3> QED BY <1>1, <2>5, <3>3 DEF Stands, Guarded, NamesIssue
    <2>6. CASE q.kind \in {"channel", "campaign"}
      BY <1>1, <1>5, <2>1, <2>6 DEF RowsNamed, OwnerOf, ChannelStands, Stands, Guarded, NamesIssue
    <2>7. CASE q.kind \in {"member", "wallet"}
      BY <1>1, <1>5, <2>1, <2>7 DEF RowsNamed, OwnerOf, Stands, Guarded, NamesIssue
    <2>8. CASE q.kind = "site"
      BY <1>5, <2>1, <2>8 DEF OwnerOf, NamesIssue
    <2> QED BY <2>2, <2>4, <2>5, <2>6, <2>7, <2>8, <2>9 DEF Visitors, RouteKinds, Subjects
  <1> QED BY <1>2, <1>3, <1>4 DEF n

LEMMA GuardedKept ==
    ASSUME RowsSound, RowsSound', RowsMove, NEW q, Guarded(q)
    PROVE  Guarded(q)'
  BY StandingKept DEF Guarded, Passes

\* The stage says nothing of whose the row is.
LEMMA GuardedOnward ==
    ASSUME NEW q \in Visitors, NEW stage, Guarded(q)
    PROVE  Guarded([q EXCEPT !.stage = stage])
  BY DEF Visitors, Guarded, Passes, Stands, NamesIssue

\* A step is of one request.
LEMMA OthersKept ==
    ASSUME VisitsSound, NEW r \in Visits, VisitStep(r), NEW s \in Visits \ {r}
    PROVE  visit'[s] = visit[s]
  BY StepKinds DEF VisitsSound, ask, authenticate, lookUp, lookUpVerified, createChannel, giveRole,
     Onward, Goes, refuse

\* A request that a step lets by or sends on is guarded, in the rows before the step.
LEMMA GuardedBefore ==
    ASSUME RowsSound, VisitsSound, Approved, NEW r \in Visits, VisitStep(r),
           NEW s \in Visits, visit'[s].stage \in {"handle", "write"}
    PROVE  \E q : q = visit'[s] /\ Guarded(q)
  <1> USE DEF VisitsSound
  <1>1. CASE s # r
    <2>1. visit'[s] = visit[s]
      BY <1>1, OthersKept
    <2> QED BY <2>1 DEF Approved
  <1>2. CASE s = r /\ ask(r)
    BY <1>2, AskedSound
  <1>3. CASE s = r /\ (\E stage \in {"handle", "write", "role", "done"} : Goes(r, stage))
                   /\ (visit[r].stage \in {"handle", "write"} \/ visit[r].guard \notin OwnerGuards)
    <2>1. PICK stage \in {"handle", "write", "role", "done"} : Goes(r, stage)
      BY <1>3
    <2>2. visit'[r] = [visit[r] EXCEPT !.stage = stage] /\ visit[r] \in Visitors
      BY <1>3, <2>1, EndedSound DEF Goes
    <2>3. Guarded(visit[r])
      BY <1>3 DEF Approved, Guarded
    <2> QED BY <1>3, <2>2, <2>3, GuardedOnward
  <1>4. CASE s = r /\ authenticate(r) /\ visit[r].guard \in OwnerGuards
    <2>1. /\ ~refuse(r)
          /\ visit[r].guard \notin {"none", "optional", "webhook", "google"}
      BY <1>4, EndedSound DEF Goes, OwnerGuards, refuse
    <2>2. PICK stage \in Stages :
            /\ visit' = [visit EXCEPT ![r].role = roles[visit[r].user], ![r].stage = stage]
            /\ stage = IF ~AdminPasses(visit[r].guard, roles[visit[r].user])
                       THEN "lookup" ELSE "handle"
      BY <1>4, <2>1 DEF authenticate, Stages
    <2>3. visit'[r].stage = stage
      BY <2>2 DEF Visitors
    <2>4. AdminPasses(visit[r].guard, roles[visit[r].user])
      BY <1>4, <2>2, <2>3
    <2>5. visit' = [visit EXCEPT ![r].role = roles[visit[r].user], ![r].stage = "handle"]
      BY <2>4, <2>2
    <2>6. visit'[r].role = "Admin" /\ visit'[r].guard = visit[r].guard
      BY <2>4, <2>5 DEF AdminPasses, Visitors
    <2> QED BY <1>4, <2>4, <2>6 DEF Guarded, Passes, AdminPasses
  <1>5. CASE s = r /\ lookUp(r)
    <2>1. PICK row \in RowsAsked(visit[r]) :
            /\ Approves(visit[r], row)
            /\ visit' = [visit EXCEPT ![r].stage = "handle", ![r].approved = row,
                                      ![r].owner = OwnerOf(AskedKind(visit[r]), row)]
      BY <1>5, EndedSound DEF lookUp, refuse, Goes
    <2>2. visit[r] \in Visitors /\ visit[r].user \in Members
          /\ Coherent(visit[r].kind, visit[r].guard)
      BY <1>5 DEF lookUp, At
    <2>3. visit'[r] = [visit[r] EXCEPT !.stage = "handle", !.approved = row,
                                       !.owner = OwnerOf(AskedKind(visit[r]), row)]
      BY <2>1, <2>2
    <2>4. CASE visit[r].guard \in OwnerGuards
      BY <1>5, <2>1, <2>2, <2>3, <2>4, ApprovesOwner
    <2>5. CASE visit[r].guard \notin OwnerGuards
      BY <1>5, <2>2, <2>3, <2>5 DEF Visitors, Guarded
    <2> QED BY <2>4, <2>5
  <1>6. CASE s = r /\ authenticate(r) /\ visit[r].guard \notin OwnerGuards
    <2>1. visit'[r].guard = visit[r].guard
      BY <1>6, EndedSound DEF authenticate, Goes, refuse, Visitors
    <2> QED BY <1>6, <2>1 DEF Guarded
  <1>7. CASE s = r /\ (lookUpVerified(r) \/ createChannel(r) \/ Onward(r))
    BY <1>3, <1>7 DEF lookUpVerified, createChannel, Onward, Writes, At, OwnerGuards
  <1>8. CASE s = r /\ giveRole(r)
    BY <1>8, EndedSound DEF giveRole, Goes
  <1> QED BY <1>1, <1>2, <1>4, <1>5, <1>6, <1>7, <1>8, StepKinds

LEMMA ApprovedStep ==
    ASSUME RowsSound, RowsSound', RowsMove, VisitsSound, Approved,
           NEW r \in Visits, VisitStep(r)
    PROVE  Approved'
  <1> SUFFICES ASSUME NEW s \in Visits, visit'[s].stage \in {"handle", "write"}
               PROVE  Guarded(visit[s])'
    BY DEF Approved
  <1>1. PICK q : q = visit'[s] /\ Guarded(q)
    BY GuardedBefore
  <1>2. Guarded(q)'
    BY <1>1, GuardedKept, ZenonT(60)
  <1> QED BY <1>1, <1>2

\* The user of a channel is a creator, but while the channel is being made.
ChannelRoles ==
    \A c \in Channels :
        \/ roles[owners[c]] = "Creator"
        \/ \E s \in Visits : visit[s].stage = "role" /\ visit[s].user = owners[c]

LEMMA ChannelRolesStep ==
    ASSUME RowsSound, VisitsSound, ChannelRoles, NEW r \in Visits, VisitStep(r)
    PROVE  ChannelRoles'
  <1>1. CASE visit[r].stage # "role" /\ UNCHANGED <<roles, owners>>
    BY <1>1, OthersKept DEF ChannelRoles, Channels
  <1>2. CASE giveRole(r)
    <2>1. /\ UNCHANGED owners /\ visit[r].user \in Members
          /\ roles' = [roles EXCEPT ![visit[r].user] = "Creator"]
      BY <1>2 DEF giveRole, At, VisitsSound
    <2> QED BY <1>2, <2>1, OthersKept DEF ChannelRoles, Channels, RowsSound, UsersSound
  <1>3. CASE createChannel(r) /\ visit'[r].stage = "role"
    <2>1. visit'[r] = [visit[r] EXCEPT !.stage = "role"] /\ visit[r] \in Visitors
      BY <1>3, EndedSound DEF createChannel, Goes, VisitsSound
    <2>2. visit'[r].user = visit[r].user /\ visit[r].stage # "role"
      BY <1>3, <2>1 DEF Visitors, createChannel, Writes, At
    <2>3. owners' = Append(owners, visit[r].user) /\ UNCHANGED roles
      BY <1>3, EndedSound DEF createChannel, Goes, VisitsSound
    <2>4. ASSUME NEW c \in Channels'
          PROVE  (c \in Channels /\ owners'[c] = owners[c]) \/ owners'[c] = visit[r].user
      BY <2>3 DEF RowsSound, UsersSound, Channels
    <2> SUFFICES ASSUME NEW c \in Channels', roles'[owners'[c]] # "Creator"
                 PROVE  \E s \in Visits : visit'[s].stage = "role" /\ visit'[s].user = owners'[c]
      BY DEF ChannelRoles
    <2>5. CASE owners'[c] = visit[r].user
      BY <1>3, <2>2, <2>5
    <2>6. CASE c \in Channels /\ owners'[c] = owners[c]
      <3>1. PICK s \in Visits : visit[s].stage = "role" /\ visit[s].user = owners[c]
        BY <2>3, <2>6 DEF ChannelRoles
      <3> QED BY <2>2, <2>6, <3>1, OthersKept
    <2> QED BY <2>4, <2>5, <2>6
  <1>4. CASE createChannel(r) /\ visit'[r].stage # "role"
    <2>1. visit[r].stage # "role" /\ UNCHANGED <<roles, owners>>
      BY <1>4 DEF createChannel, Goes, VisitsSound, Writes, At, NoChange, rowsOfRoutes, Visitors
    <2> QED BY <1>1, <2>1
  <1> QED
    BY <1>1, <1>2, <1>3, <1>4, StepKinds
       DEF ask, authenticate, lookUp, lookUpVerified, Onward, At, rowsOfRoutes

-----------------------------------------------------------------------------
(* Owners only                                                             *)

\* The handler of an approved request meets a row of the user.
LEMMA ChangedOwned ==
    ASSUME RowsSound, NEW q \in Visitors, Guarded(q), q.guard \in OwnerGuards,
           NEW row \in RowsNamed(q.kind, q.key), NEW c, c = Changed(q, row)
    PROVE  c.owner = c.user \/ Passes(c) \/ HandedOver(c) \/ Vouched(c)
  <1>1. /\ c.kind = q.kind /\ c.guard = q.guard /\ c.user = q.user /\ c.role = q.role
        /\ c.approved = q.approved /\ c.seen = q.owner /\ c.row = row
        /\ c.owner = OwnerOf(q.kind, row)
        /\ NamesIssue(q) => c.vouched = {IssueOwner(q.body)}
    BY DEF Changed
  <1>2. CASE Passes(q)
    BY <1>1, <1>2 DEF Passes
  <1>3. ASSUME NEW id, ComicStands(id, q.user), NEW x \in comics, x.id = id
        PROVE  ComicOwner(id) = q.user
    BY <1>3, ComicOwnerIs DEF ComicStands
  <1>4. ASSUME NEW id, IssueStands(id, q.user), IssueOwner(id) # Unknown
        PROVE  IssueOwner(id) = q.user
    <2>1. PICK i \in issues : i.id = id
      BY <1>4, IssueOwnerTyped
    <2>2. PICK x \in comics : x.id = i.comic
      BY DEF RowsSound, IssuesSound
    <2>3. owners[x.channel] = q.user
      BY <1>4, <2>1, <2>2 DEF IssueStands, ComicStands
    <2> QED BY <2>1, <2>2, <2>3, IssueOwnerIs
  <1>5. CASE q.kind = "comic" /\ ComicStands(q.approved, q.user)
    <2>1. PICK x \in comics : x.id = row
      BY <1>5 DEF RowsNamed
    <2> QED BY <1>1, <1>3, <1>5, <2>1 DEF OwnerOf, HandedOver
  <1>6. CASE q.kind = "issue" /\ IssueStands(q.key, q.user)
    <2>1. row = q.key /\ \E i \in issues : i.id = row
      BY <1>6 DEF RowsNamed
    <2>2. IssueOwner(row) # Unknown
      BY <2>1, IssueOwnerTyped, RoutesAssumption
    <2> QED BY <1>1, <1>4, <1>6, <2>1, <2>2 DEF OwnerOf
  <1>7. CASE q.kind = "draft" /\ DraftStands(q.key, q.user)
    <2>1. PICK d \in drafts : d.id = q.key /\ row = d.id
      BY <1>7 DEF RowsNamed
    <2>2. c.owner = IssueOwner(d.issue) /\ IssueStands(d.issue, q.user)
      BY <1>1, <1>7, <2>1, DraftOwnerIs DEF DraftStands
    <2> QED BY <1>1, <1>4, <1>7, <2>2 DEF HandedOver
  <1>11. CASE NamesIssue(q) /\ IssueStands(q.body, q.user)
    BY <1>1, <1>4, <1>11 DEF Vouched, NamesIssue
  <1>8. CASE q.kind \in {"channel", "campaign"} /\ ChannelStands(q.key, q.user)
    BY <1>1, <1>8 DEF RowsNamed, OwnerOf, ChannelStands
  <1>9. CASE q.kind = "member" /\ q.key = q.user
    BY <1>1, <1>9 DEF RowsNamed, OwnerOf
  <1>10. CASE q.kind = "wallet" /\ q.owner = q.user
    BY <1>1, <1>10 DEF HandedOver
  <1> QED BY <1>2, <1>5, <1>6, <1>7, <1>8, <1>9, <1>10, <1>11 DEF Guarded, Stands

\* What a guard does not admit: the role, or every row the key names.
Refused(r) ==
    \/ authenticate(r) /\ ~RoleAdmits(visit[r].guard, roles[visit[r].user])
    \/ lookUp(r) /\ ~\E row \in RowsAsked(visit[r]) : Approves(visit[r], row)

\* An owner whose channel is made has the role its guards ask for.
LEMMA RefusedOwner ==
    ASSUME RowsSound, VisitsSound, ChannelRoles, NEW r \in Visits, NEW x \in Refusal(visit[r]),
           Refused(r)
    PROVE  x.making \/ (x.guard = "memberOwner" /\ x.role = "Superadmin")
  <1> DEFINE q == visit[r]
  <1>1. x.guard = q.guard /\ x.role = roles[q.user] /\ q.guard \in OwnerGuards
    BY DEF Refusal
  <1>2. (\E s \in Visits : visit[s].stage = "role" /\ visit[s].user = q.user) => x.making
    BY DEF Refusal
  <1>3. PICK row \in RowsAsked(q) : OwnerOf(AskedKind(q), row) = q.user
    BY DEF Refusal
  <1>4. q.user \in Members /\ Coherent(q.kind, q.guard) /\ q \in Visitors
    BY DEF Refused, VisitsSound, authenticate, lookUp, At
  <1>7. PICK key \in Ids : AskedKind(q) \in RouteKinds /\ row \in RowsNamed(AskedKind(q), key)
    BY <1>3, <1>4, AskedTyped
  <1>5. CASE authenticate(r) /\ ~RoleAdmits(q.guard, roles[q.user])
    <2>1. q.guard \in OwnerGuards \ {"memberOwner", "walletOwner"} /\ roles[q.user] # "Creator"
      BY <1>1, <1>5 DEF RoleAdmits, OwnerGuards
    <2>2. PICK channel \in Channels : owners[channel] = q.user
      <3>1. AskedKind(q) \notin {"member", "wallet"} /\ OwnerOf(AskedKind(q), row) # Unknown
        BY <1>3, <1>4, <2>1, RoutesAssumption DEF Coherent, AskedKind
      <3> QED BY <1>3, <1>7, <3>1, OwnerTyped
    <2> QED BY <1>2, <2>1, <2>2 DEF ChannelRoles
  <1>6. CASE ~\E n \in RowsAsked(q) : Approves(q, n)
    <2>1. q.guard = "memberOwner"
      BY <1>3, <1>6 DEF Approves
    <2>2. q.kind = "member" /\ AskedKind(q) = "member"
      BY <1>4, <2>1 DEF Coherent, AskedKind, NamesIssue
    <2> QED BY <1>1, <1>3, <1>6, <2>1, <2>2 DEF Approves, OwnerOf
  <1> QED BY <1>5, <1>6 DEF Refused

\* What a step tells of itself
LEMMA StepTold ==
    ASSUME NEW r \in Visits, VisitStep(r)
    PROVE  /\ \/ changes' = {}
              \/ visit[r].stage \in {"handle", "write"} /\ Change(visit[r])
           /\ \/ refusals' = {}
              \/ refusals' = Refusal(visit[r]) /\ Refused(r)
  <1> USE DEF Quietly, NoChange, OnlyChange, Handles, Writes, At
  <1>1. CASE ask(r) \/ lookUpVerified(r) \/ answer(r) \/ editOrRead(r) \/ checkSlug(r)
    BY <1>1 DEF ask, lookUpVerified, answer, editOrRead, checkSlug
  <1>2. CASE updateComic(r) \/ createComic(r) \/ publishComic(r) \/ checkRemoval(r) \/ remove(r)
    BY <1>2 DEF updateComic, createComic, publishComic, checkRemoval, remove
  <1>3. CASE checkParent(r) \/ createIssue(r) \/ checkDraft(r) \/ createDraft(r)
    BY <1>3 DEF checkParent, createIssue, checkDraft, createDraft
  <1>4. CASE updateDraft(r) \/ deleteDraft(r) \/ checkChannel(r) \/ createChannel(r)
             \/ giveRole(r) \/ linkWallet(r)
    BY <1>4 DEF updateDraft, deleteDraft, checkChannel, createChannel, giveRole, linkWallet
  <1>5. CASE authenticate(r)
    BY <1>5 DEF authenticate, refuse, Refused
  <1>6. CASE lookUp(r)
    BY <1>6 DEF lookUp, refuse, Refused
  <1> QED BY <1>1, <1>2, <1>3, <1>4, <1>5, <1>6 DEF VisitStep

LEMMA OwnersOnlyStep ==
    ASSUME RowsSound, VisitsSound, Approved, ChannelRoles, NEW r \in Visits, VisitStep(r)
    PROVE  OwnersOnly'
  <1>1. ASSUME NEW c \in changes', c.guard \in OwnerGuards
        PROVE  c.owner = c.user \/ Passes(c) \/ HandedOver(c) \/ Vouched(c)
    <2>1. visit[r].stage \in {"handle", "write"} /\ Change(visit[r])
      BY <1>1, StepTold
    <2>2. PICK row \in RowsNamed(visit[r].kind, visit[r].key) : c = Changed(visit[r], row)
      BY <2>1 DEF Change
    <2>3. visit[r] \in Visitors /\ Guarded(visit[r])
      BY <2>1 DEF VisitsSound, Approved
    <2>4. visit[r].guard \in OwnerGuards
      BY <1>1, <2>2 DEF Changed
    <2> QED BY <2>2, <2>3, <2>4, ChangedOwned
  <1>2. ASSUME NEW x \in refusals'
        PROVE  x.making \/ (x.guard = "memberOwner" /\ x.role = "Superadmin")
    <2>1. refusals' # {}
      BY <1>2
    <2>2. refusals' = Refusal(visit[r]) /\ Refused(r)
      BY <2>1, StepTold
    <2>3. x \in Refusal(visit[r])
      BY <1>2, <2>2
    <2> QED BY <2>2, <2>3, RefusedOwner
  <1> QED BY <1>1, <1>2 DEF OwnersOnly, Passes, HandedOver, Vouched

\* The inductive invariant.  OwnersOnly itself says what the last step did; what carries
\* over is that the rows are sound, and that what a guard approved of still stands.
RoutesInv == RowsSound /\ VisitsSound /\ Approved /\ ChannelRoles /\ OwnersOnly

LEMMA RoutesInitInv == RoutesInit => RoutesInv
  <1> SUFFICES ASSUME RoutesInit
               PROVE  RoutesInv
    OBVIOUS
  <1>11. PICK m \in Members, n \in Members, role \in Roles, slug \in [{1, 2} -> Slugs],
             made \in {1, 2} : FirstRows(m, n, role, slug, made)
    BY DEF RoutesInit
  <1>1. /\ m # n /\ (made = 2 => role = "Creator")
        /\ roles = [x \in Members |-> IF x = m THEN "Creator" ELSE IF x = n THEN role ELSE "User"]
        /\ owners = IF role = "Creator" THEN <<m, n>> ELSE <<m>>
        /\ comics = {[id |-> i, slug |-> slug[i], channel |-> i, published |-> FALSE]
                     : i \in 1..made}
        /\ issues = {[id |-> i, comic |-> i] : i \in 1..made}
        /\ given = [comic |-> made, issue |-> made, draft |-> Cardinality(drafts)]
    BY <1>11 DEF FirstRows
  <1>10. 1..made \subseteq {1, 2} /\ 1..made \subseteq 1..Len(owners)
    BY <1>1
  <1>2. Cardinality(drafts) \in {0, 1} /\ (\A d \in drafts : d.id <= Cardinality(drafts))
    <2>1. CASE drafts = {}
      BY <2>1, FS_EmptySet
    <2>2. ASSUME NEW v \in BOOLEAN, drafts = {[id |-> 1, issue |-> 1, verified |-> v]}
          PROVE  Cardinality(drafts) = 1 /\ \A d \in drafts : d.id = 1
      <3> DEFINE d == [id |-> 1, issue |-> 1, verified |-> v]
      <3>1. drafts = {d} /\ d.id = 1
        BY <2>2
      <3> HIDE DEF d
      <3> QED BY <3>1, FS_Singleton
    <2> QED BY <2>1, <2>2 DEF RoutesInit
  <1>3. UsersSound
    BY <1>1, <1>2 DEF RoutesInit, UsersSound, Roles
  <1>4. ComicsSound
    <2>1. ASSUME NEW c \in comics
          PROVE  /\ c \in [id : Nat, slug : Ids, channel : Nat, published : BOOLEAN]
                 /\ c.id <= given.comic /\ c.channel \in Channels
                 /\ c = [id |-> c.id, slug |-> slug[c.id], channel |-> c.id, published |-> FALSE]
      <3>1. PICK i \in 1..made :
              c = [id |-> i, slug |-> slug[i], channel |-> i, published |-> FALSE]
        BY <1>1
      <3>2. i \in {1, 2} /\ i \in Channels /\ i <= given.comic /\ slug[i] \in Ids
        BY <1>1, <1>10 DEF Channels, Ids, RouteKeys
      <3> QED BY <3>1, <3>2
    <2>2. \A c, d \in comics : c.id = d.id => c = d
      BY <2>1
    <2> QED BY <2>1, <2>2 DEF ComicsSound
  <1>5. IssuesSound
    <2>1. ASSUME NEW x \in issues
          PROVE  /\ x \in [id : Nat, comic : Nat] /\ x = [id |-> x.id, comic |-> x.id]
                 /\ x.id <= given.issue /\ \E c \in comics : c.id = x.comic
      <3>1. PICK i \in 1..made : x = [id |-> i, comic |-> i]
        BY <1>1
      <3>2. i \in Nat /\ i <= given.issue
        BY <1>1
      <3>3. [id |-> i, slug |-> slug[i], channel |-> i, published |-> FALSE] \in comics
        BY <1>1
      <3> QED BY <3>1, <3>2, <3>3
    <2> QED BY <2>1 DEF IssuesSound
  <1>6. DraftsSound
    BY <1>1, <1>2, RoutesAssumption DEF RoutesInit, DraftsSound, Ids, RouteKeys, ComicIds
  <1>7. VisitsSound /\ Approved
    BY DEF RoutesInit, Visit, Open, On, VisitsSound, Visitors, Stages, RouteKinds, Subjects, Guards,
       OwnerGuards, Doings, Roles, Ids, Approved
  <1>8. ChannelRoles
    BY <1>1 DEF ChannelRoles, Channels
  <1>9. OwnersOnly
    BY DEF RoutesInit, OwnersOnly
  <1> QED BY <1>3, <1>4, <1>5, <1>6, <1>7, <1>8, <1>9 DEF RoutesInv, RowsSound

LEMMA RoutesNextInv == RoutesInv /\ [RoutesNext]_routeVars => RoutesInv'
  <1> SUFFICES ASSUME RoutesInv, [RoutesNext]_routeVars
               PROVE  RoutesInv'
    OBVIOUS
  <1>1. CASE RoutesNext
    <2>1. PICK r \in Visits : VisitStep(r)
      BY <1>1 DEF RoutesNext
    <2>2. RowsSound' /\ RowsMove
      BY <2>1, RowsStep DEF RoutesInv
    <2> QED
      BY <2>1, <2>2, VisitsStep, ApprovedStep, ChannelRolesStep, OwnersOnlyStep DEF RoutesInv
  <1>2. CASE UNCHANGED routeVars
    BY <1>2 DEF routeVars, RoutesInv, RowsSound, UsersSound, ComicsSound, IssuesSound,
       DraftsSound, VisitsSound, Approved, ChannelRoles, OwnersOnly, Channels, Guarded, Stands,
       ComicStands, IssueStands, DraftStands, ChannelStands, Passes, HandedOver,
       Vouched, NamesIssue
  <1> QED BY <1>1, <1>2

\* The rows stay sound, requests are those of the controllers, and a guard's finding stands.
THEOREM RoutesInvariance == RoutesSpec => []RoutesInv
  <1> QED BY RoutesInitInv, RoutesNextInv, PTL DEF RoutesSpec

\* Whoever asks, in whatever order the guards and the handlers of any number of requests
\* come, only owners and administrators change or see raw rows, but for the rows that were
\* handed over meanwhile; and no owner is refused whose channel is made.
THEOREM OwnersOnlyAlways == RoutesSpec => []OwnersOnly
  <1>1. RoutesInv => OwnersOnly
    BY DEF RoutesInv
  <1> QED BY <1>1, RoutesInvariance, PTL

-----------------------------------------------------------------------------
(* Every row in range                                                      *)

\* No user has two channels.
OneChannel == \A c, d \in Channels : owners[c] = owners[d] => c = d

KeySound(q) ==
    q.stage \notin {"idle", "done"} =>
        /\ q.kind = "comic" => q.key \in Slugs
        /\ q.does = "draft" => q.key = 1
        /\ q.does = "rename" => q.body \in Slugs \cup {Unknown}
KeysSound == \A r \in Visits : KeySound(visit[r])

RowsRanged ==
    /\ given.comic \in ComicIds /\ given.issue \in ComicIds /\ given.draft \in 0..MaxComics
    /\ \A c \in comics : c.id >= 1 /\ c.slug \in Slugs
    /\ \A i \in issues : i.id >= 1
    /\ \A d \in drafts : d.id >= 1 /\ d.issue \in 1..given.issue
    /\ OneChannel /\ subject \in Subjects
RoutesRanges == RowsRanged /\ KeysSound

LEMMA KeysKept ==
    ASSUME RowsSound, VisitsSound, KeysSound, NEW r \in Visits, VisitStep(r)
    PROVE  KeysSound'
  <1>1. ASSUME NEW q, KeySound(q), visit' = [visit EXCEPT ![r] = q]
        PROVE  KeysSound'
    BY <1>1 DEF KeysSound, VisitsSound
  <1>2. ASSUME visit[r].stage \notin {"idle", "done"}, NEW stage, Goes(r, stage)
        PROVE  KeysSound'
    <2>1. KeySound(Ended)
      BY EndedSound DEF KeySound
    <2>2. CASE stage = "done"
      BY <1>1, <1>2, <2>1, <2>2 DEF Goes
    <2>3. CASE stage # "done"
      <3>1. PICK q : q = [visit[r] EXCEPT !.stage = stage]
        OBVIOUS
      <3>2. visit[r] \in Visitors
        BY DEF VisitsSound
      <3>3. /\ q.kind = visit[r].kind /\ q.does = visit[r].does
            /\ q.key = visit[r].key /\ q.body = visit[r].body
        BY <3>1, <3>2 DEF Visitors
      <3>4. KeySound(q)
        BY <1>2, <3>3 DEF KeysSound, KeySound
      <3> QED BY <1>1, <1>2, <2>3, <3>1, <3>4 DEF Goes
    <2> QED BY <2>2, <2>3
  <1>3. CASE ask(r)
    <2>6. PICK route \in AllRoutes, user \in Members :
            \E k \in KeysOf(route), b \in BodiesOf(route) \cup {Unknown} :
               visit' = [visit EXCEPT ![r] = Visit("guard", route, user, k, b)]
      BY <1>3 DEF ask
    <2>1. PICK key \in KeysOf(route), body \in BodiesOf(route) \cup {Unknown} :
            visit' = [visit EXCEPT ![r] = Visit("guard", route, user, key, body)]
      BY <2>6
    <2>2. PICK q : q = Visit("guard", route, user, key, body)
      OBVIOUS
    <2>3. q.kind = route.kind /\ q.does = route.does /\ q.key = key /\ q.body = body
      BY <2>2 DEF Visit
    <2>4. route.does = "draft" => route.kind = "issue"
      BY RoutesCoherent DEF CoherentRoutes
    <2>7. q.does = "rename" => q.body \in Slugs \cup {Unknown}
      BY <2>1, <2>3 DEF BodiesOf
    <2>8. (q.kind = "comic" => q.key \in Slugs) /\ (q.does = "draft" => q.key = 1)
      BY <2>1, <2>3, <2>4 DEF KeysOf
    <2>5. KeySound(q)
      BY <2>7, <2>8 DEF KeySound
    <2> QED BY <1>1, <2>1, <2>2, <2>5
  <1>4. CASE authenticate(r)
    <2>1. CASE \E stage \in {"handle", "done"} : Goes(r, stage)
      BY <1>2, <1>4, <2>1 DEF authenticate, At
    <2>2. CASE \E stage \in {"lookup", "handle"} :
                 visit' = [visit EXCEPT ![r].role = roles[visit[r].user], ![r].stage = stage]
      <3>1. PICK stage \in {"lookup", "handle"} :
              visit' = [visit EXCEPT ![r].role = roles[visit[r].user], ![r].stage = stage]
        BY <2>2
      <3>2. PICK q : q = [visit[r] EXCEPT !.role = roles[visit[r].user], !.stage = stage]
        OBVIOUS
      <3>3. visit[r] \in Visitors
        BY DEF VisitsSound
      <3>4. /\ q.kind = visit[r].kind /\ q.does = visit[r].does
            /\ q.key = visit[r].key /\ q.body = visit[r].body
        BY <3>2, <3>3 DEF Visitors
      <3>5. KeySound(q)
        BY <1>4, <3>4 DEF authenticate, At, KeysSound, KeySound
      <3>6. visit' = [visit EXCEPT ![r] = q]
        BY <3>1, <3>2, <3>3 DEF VisitsSound
      <3> QED BY <1>1, <3>5, <3>6
    <2> QED BY <1>4, <2>1, <2>2 DEF authenticate, refuse
  <1>5. CASE lookUp(r)
    <2>1. CASE refuse(r)
      BY <1>2, <1>5, <2>1 DEF lookUp, At, refuse
    <2>2. ASSUME NEW row, NEW owner,
                 visit' = [visit EXCEPT ![r].stage = "handle", ![r].approved = row,
                                        ![r].owner = owner]
          PROVE  KeysSound'
      <3>1. PICK q : q = [visit[r] EXCEPT !.stage = "handle", !.approved = row, !.owner = owner]
        OBVIOUS
      <3>2. visit[r] \in Visitors
        BY DEF VisitsSound
      <3>3. /\ q.kind = visit[r].kind /\ q.does = visit[r].does
            /\ q.key = visit[r].key /\ q.body = visit[r].body
        BY <3>1, <3>2 DEF Visitors
      <3>4. KeySound(q)
        BY <1>5, <3>3 DEF lookUp, At, KeysSound, KeySound
      <3>5. visit' = [visit EXCEPT ![r] = q]
        BY <2>2, <3>1, <3>2 DEF VisitsSound
      <3> QED BY <1>1, <3>4, <3>5
    <2> QED BY <1>5, <2>1, <2>2 DEF lookUp
  <1>6. CASE lookUpVerified(r)
    BY <1>2, <1>6 DEF lookUpVerified, At
  <1>7. CASE createChannel(r) \/ giveRole(r)
    BY <1>2, <1>7 DEF createChannel, giveRole, Writes, At
  <1>8. CASE Onward(r)
    BY <1>2, <1>8 DEF Onward
  <1> QED BY <1>3, <1>4, <1>5, <1>6, <1>7, <1>8, StepKinds

\* What a step writes: a slug or a key of the request, under the next id.
LEMMA RowsRangedStep ==
    ASSUME RowsSound, VisitsSound, RoutesRanges, NEW r \in Visits, VisitStep(r)
    PROVE  RowsRanged'
  <1> USE DEF RoutesRanges
  <1>1. visit[r] \in Visitors /\ KeySound(visit[r])
        /\ (visit[r].stage \notin {"idle", "done"} => visit[r].user \in Members)
    BY DEF VisitsSound, KeysSound
  <1>2. CASE UNCHANGED rowsOfRoutes /\ UNCHANGED subject
    BY <1>2 DEF rowsOfRoutes, RowsRanged, OneChannel, Channels
  <1>3. CASE updateComic(r) /\ ~UNCHANGED rowsOfRoutes
    <2>1. /\ comics' = {IF c.slug = visit[r].key /\ visit[r].body # Unknown
                          THEN [c EXCEPT !.slug = visit[r].body] ELSE c : c \in comics}
          /\ UNCHANGED <<owners, issues, drafts, given, subject>>
      BY <1>3 DEF updateComic, NoChange, OnlyChange
    <2>2. visit[r].body \in Slugs \cup {Unknown}
      BY <1>1, <1>3 DEF KeySound, updateComic, Writes, At
    <2>3. comics \subseteq ComicRow
      BY DEF RowsSound, ComicsSound, ComicRow
    <2>4. \A c \in comics' : c.id >= 1 /\ c.slug \in Slugs
      BY <2>1, <2>2, <2>3 DEF RowsRanged, ComicRow
    <2> QED BY <2>1, <2>4 DEF RowsRanged, OneChannel, Channels
  <1>4. CASE publishComic(r)
    <2>1. /\ comics' = {IF c.slug = visit[r].key THEN [c EXCEPT !.published = TRUE] ELSE c
                        : c \in comics}
          /\ UNCHANGED <<owners, issues, drafts, given, subject>>
      BY <1>4 DEF publishComic, OnlyChange
    <2>2. comics \subseteq ComicRow
      BY DEF RowsSound, ComicsSound, ComicRow
    <2>3. \A c \in comics' : c.id >= 1 /\ c.slug \in Slugs
      BY <2>1, <2>2 DEF RowsRanged, ComicRow
    <2> QED BY <2>1, <2>3 DEF RowsRanged, OneChannel, Channels
  <1>5. CASE createComic(r) /\ ~UNCHANGED rowsOfRoutes
    <2>1. PICK channel : comics' = comics \cup {[id |-> NextComic, slug |-> visit[r].key,
                                                  channel |-> channel, published |-> FALSE]}
      BY <1>5 DEF createComic, NoChange
    <2>2. /\ given' = [given EXCEPT !.comic = NextComic] /\ NextComic \in ComicIds
          /\ UNCHANGED <<owners, issues, drafts, subject>>
          /\ visit[r].kind = "comic" /\ visit[r].stage = "write"
      BY <1>5 DEF createComic, NoChange, Writes, At
    <2>3. visit[r].key \in Slugs
      BY <1>1, <2>2 DEF KeySound
    <2>4. \A c \in comics' : c.id >= 1 /\ c.slug \in Slugs
      BY <2>1, <2>2, <2>3 DEF RowsRanged, ComicIds
    <2>5. given'.comic = NextComic /\ given'.issue = given.issue /\ given'.draft = given.draft
      BY <2>2 DEF RowsSound, UsersSound
    <2> QED BY <2>2, <2>4, <2>5 DEF RowsRanged, OneChannel, Channels
  <1>6. CASE remove(r) \/ deleteDraft(r)
    <2>1. /\ comics' \subseteq comics /\ issues' \subseteq issues /\ drafts' \subseteq drafts
          /\ UNCHANGED <<owners, given, subject>>
      BY <1>6 DEF remove, deleteDraft, OnlyChange
    <2> QED BY <2>1 DEF RowsRanged, OneChannel, Channels
  <1>7. CASE createIssue(r) /\ ~UNCHANGED rowsOfRoutes
    <2>1. PICK c \in comics : issues' = issues \cup {[id |-> NextIssue, comic |-> c.id]}
      BY <1>7 DEF createIssue, NoChange
    <2>2. /\ given' = [given EXCEPT !.issue = NextIssue] /\ NextIssue \in ComicIds
          /\ UNCHANGED <<owners, comics, drafts, subject>>
      BY <1>7 DEF createIssue, NoChange
    <2>3. /\ given'.issue = given.issue + 1 /\ given.issue \in Nat
          /\ given'.comic = given.comic /\ given'.draft = given.draft
      BY <2>2 DEF RowsSound, UsersSound, NextIssue
    <2>4. \A i \in issues' : i.id >= 1
      BY <2>1, <2>2 DEF RowsRanged, ComicIds
    <2>5. \A d \in drafts : d.issue \in 1..(given.issue + 1)
      BY <2>3 DEF RowsRanged
    <2> QED BY <2>2, <2>3, <2>4, <2>5 DEF RowsRanged, OneChannel, Channels, NextIssue
  <1>8. CASE createDraft(r) /\ ~UNCHANGED rowsOfRoutes
    <2>1. /\ drafts' = drafts \cup {[id |-> NextDraft, issue |-> visit[r].key, verified |-> FALSE]}
          /\ given' = [given EXCEPT !.draft = NextDraft] /\ NextDraft \in ComicIds
          /\ UNCHANGED <<owners, comics, issues, subject>>
          /\ visit[r].does = "draft" /\ visit[r].stage = "write"
      BY <1>8 DEF createDraft, NoChange, Writes, At
    <2>2. /\ given'.draft = NextDraft
          /\ given'.comic = given.comic /\ given'.issue = given.issue
      BY <2>1 DEF RowsSound, UsersSound
    <2>3. visit[r].key = 1 /\ 1 \in 1..given.issue
      BY <1>1, <2>1 DEF KeySound, RowsRanged, ComicIds
    <2>4. \A d \in drafts' : d.id >= 1 /\ d.issue \in 1..given.issue
      BY <2>1, <2>3 DEF RowsRanged, ComicIds
    <2>5. NextDraft \in 0..MaxComics
      BY <2>1 DEF ComicIds
    <2> QED BY <2>1, <2>2, <2>4, <2>5 DEF RowsRanged, OneChannel, Channels
  <1>9. CASE createChannel(r) /\ ~UNCHANGED rowsOfRoutes
    <2>1. /\ owners' = Append(owners, visit[r].user) /\ ChannelsOf(visit[r].user) = {}
          /\ UNCHANGED <<comics, issues, drafts, given, subject>>
      BY <1>9 DEF createChannel, NoChange
    <2>2. \A c \in Channels : owners[c] # visit[r].user
      BY <2>1 DEF ChannelsOf
    <2>3. owners \in Seq(Members) /\ visit[r].user \in Members
      BY <1>1, <1>9 DEF createChannel, Writes, At, RowsSound, UsersSound
    <2>4. OneChannel'
      BY <2>1, <2>2, <2>3 DEF RowsRanged, OneChannel, Channels
    <2> QED BY <2>1, <2>4 DEF RowsRanged
  <1>10. CASE giveRole(r) \/ linkWallet(r)
    BY <1>10 DEF giveRole, linkWallet, RowsRanged, OneChannel, Channels
  <1> QED
    BY <1>2, <1>3, <1>4, <1>5, <1>6, <1>7, <1>8, <1>9, <1>10
       DEF VisitStep, ask, authenticate, lookUp, lookUpVerified, answer, editOrRead, checkSlug,
           checkRemoval, checkParent, checkDraft, updateDraft, checkChannel, NoChange, OnlyChange,
           updateComic, createComic, createIssue, createDraft, createChannel

LEMMA RoutesStart == RoutesInit => RoutesRanges
  <1> SUFFICES ASSUME RoutesInit
               PROVE  RoutesRanges
    OBVIOUS
  <1>10. PICK m \in Members, n \in Members, role \in Roles, slug \in [{1, 2} -> Slugs],
             made \in {1, 2} : FirstRows(m, n, role, slug, made)
    BY DEF RoutesInit
  <1>1. /\ m # n
        /\ owners = IF role = "Creator" THEN <<m, n>> ELSE <<m>>
        /\ comics = {[id |-> i, slug |-> slug[i], channel |-> i, published |-> FALSE]
                     : i \in 1..made}
        /\ issues = {[id |-> i, comic |-> i] : i \in 1..made}
        /\ given = [comic |-> made, issue |-> made, draft |-> Cardinality(drafts)]
    BY <1>10 DEF FirstRows
  <1>9. 1..made \subseteq {1, 2}
    BY <1>1
  <1>2. OneChannel
    BY <1>1 DEF OneChannel, Channels
  <1>3. \A c \in comics : c.id >= 1 /\ c.slug \in Slugs
    BY <1>1, <1>9
  <1>4. (\A i \in issues : i.id >= 1) /\ subject \in Subjects
    BY <1>1, <1>9 DEF RoutesInit
  <1>5. /\ Cardinality(drafts) \in {0, 1}
        /\ \A d \in drafts : d.id = 1 /\ d.issue = 1
    <2>1. CASE drafts = {}
      BY <2>1, FS_EmptySet
    <2>2. ASSUME NEW v \in BOOLEAN, drafts = {[id |-> 1, issue |-> 1, verified |-> v]}
          PROVE  Cardinality(drafts) = 1 /\ \A d \in drafts : d.id = 1 /\ d.issue = 1
      <3> DEFINE d == [id |-> 1, issue |-> 1, verified |-> v]
      <3>1. drafts = {d} /\ d.id = 1 /\ d.issue = 1
        BY <2>2
      <3> HIDE DEF d
      <3> QED BY <3>1, FS_Singleton
    <2> QED BY <2>1, <2>2 DEF RoutesInit
  <1>6. /\ given.comic \in ComicIds /\ given.issue \in ComicIds /\ given.draft \in 0..MaxComics
        /\ given.issue \in {1, 2}
    BY <1>1, <1>5, RoutesAssumption DEF ComicIds
  <1>7. KeysSound
    BY DEF RoutesInit, Visit, Open, On, KeysSound, KeySound
  <1>8. \A d \in drafts : d.id >= 1 /\ d.issue \in 1..given.issue
    BY <1>5, <1>6
  <1> QED BY <1>2, <1>3, <1>4, <1>6, <1>7, <1>8 DEF RoutesRanges, RowsRanged

\* There are no more channels than members: each is of one, and of another.
LEMMA ChannelsFewer ==
    ASSUME UsersSound, OneChannel
    PROVE  Len(owners) <= Cardinality(Members)
  <1>1. owners \in [1..Len(owners) -> Members] /\ Len(owners) \in Nat
        /\ Channels = 1..Len(owners)
    BY DEF UsersSound, Channels
  <1>2. owners \in Injection(1..Len(owners), Members)
    BY <1>1 DEF OneChannel, Injection, IsInjective
  <1>3. Cardinality(1..Len(owners)) = Len(owners)
    <2>1. PICK n \in Nat : n = Len(owners)
      BY <1>1
    <2>2. Cardinality(1..n) = IF 1 > n THEN 0 ELSE n - 1 + 1
      BY FS_Interval
    <2> QED BY <2>1, <2>2
  <1>4. Cardinality(1..Len(owners)) <= Cardinality(Members)
    BY <1>2, RoutesAssumption, FS_Injection
  <1> QED BY <1>3, <1>4

\* Every row has an id that was given and belongs to a row that is there, a draft to an issue
\* that once was, and no member has two channels.
THEOREM RoutesTypeOKAlways == RoutesSpec => []RoutesTypeOK
  <1>1. ASSUME RoutesInv, RoutesRanges, [RoutesNext]_routeVars
        PROVE  RoutesRanges'
    <2>1. CASE RoutesNext
      BY <1>1, <2>1, KeysKept, RowsRangedStep DEF RoutesNext, RoutesInv, RoutesRanges
    <2>2. CASE UNCHANGED routeVars
      BY <1>1, <2>2 DEF routeVars, RoutesRanges, RowsRanged, OneChannel, Channels, KeysSound,
         KeySound
    <2> QED BY <1>1, <2>1, <2>2
  <1>2. ASSUME RoutesInv, RoutesRanges
        PROVE  RoutesTypeOK
    <2>1. /\ UsersSound /\ ComicsSound /\ IssuesSound /\ DraftsSound /\ VisitsSound
          /\ RowsRanged
      BY <1>2 DEF RoutesInv, RowsSound, RoutesRanges
    <2>2. Len(owners) <= Cardinality(Members)
      BY <2>1, ChannelsFewer DEF RowsRanged
    <2>3. given \in [comic : 1..MaxComics, issue : 1..MaxComics, draft : 0..MaxComics]
      BY <2>1 DEF UsersSound, RowsRanged, ComicIds
    <2>4. \A c \in comics : /\ c.id \in ComicIds /\ c.slug \in Slugs
                            /\ c.channel \in Channels /\ c.published \in BOOLEAN
                            /\ c.id <= given.comic
      <3> SUFFICES ASSUME NEW c \in comics
                   PROVE  /\ c.id \in ComicIds /\ c.slug \in Slugs
                          /\ c.channel \in Channels /\ c.published \in BOOLEAN
                          /\ c.id <= given.comic
        OBVIOUS
      <3>1. c \in ComicRow /\ c.id <= given.comic /\ c.channel \in Channels
        BY <2>1 DEF ComicsSound, ComicRow
      <3>2. c.id >= 1 /\ c.slug \in Slugs /\ given.comic \in 1..MaxComics
        BY <2>1 DEF RowsRanged, ComicIds
      <3>3. c.id \in Nat /\ c.published \in BOOLEAN
        BY <3>1 DEF ComicRow
      <3> QED BY <3>1, <3>2, <3>3, RoutesAssumption DEF ComicIds
    <2>5. \A i \in issues : i.id \in ComicIds /\ \E c \in comics : c.id = i.comic
      <3> SUFFICES ASSUME NEW i \in issues
                   PROVE  i.id \in ComicIds
        BY <2>1 DEF IssuesSound
      <3>1. i.id \in Nat /\ i.id <= given.issue
        BY <2>1 DEF IssuesSound
      <3>2. i.id >= 1 /\ given.issue \in 1..MaxComics
        BY <2>1 DEF RowsRanged, ComicIds
      <3> QED BY <3>1, <3>2, RoutesAssumption DEF ComicIds
    <2>6. \A d \in drafts : d.id \in 1..given.draft /\ d.issue \in 1..given.issue
      <3> SUFFICES ASSUME NEW d \in drafts
                   PROVE  d.id \in 1..given.draft
        BY <2>1 DEF RowsRanged
      <3>1. d.id \in Nat /\ d.id <= given.draft /\ d.id >= 1 /\ given.draft \in Nat
        BY <2>1 DEF DraftsSound, RowsRanged, UsersSound
      <3> QED BY <3>1
    <2>7. \A r \in Visits : visit[r].stage \in Stages /\ visit[r].role \in Roles
      BY <2>1 DEF VisitsSound, Visitors
    <2> QED BY <2>1, <2>2, <2>3, <2>4, <2>5, <2>6, <2>7 DEF RoutesTypeOK, UsersSound, RowsRanged
  <1> QED BY <1>1, <1>2, RoutesStart, RoutesInvariance, PTL DEF RoutesSpec
=============================================================================
