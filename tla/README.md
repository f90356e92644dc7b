# dReader backend: TLA+ models, checks and proofs

The backend (NestJS, Prisma over PostgreSQL, a cache in memory, Solana RPC) sells and tracks
digital comics. Its handlers keep next to no state of their own: the state is in
the database, on the Solana chain, in S3, at Helius and in a few caches, and every
handler is a row of awaited queries and calls. What is hard about it is therefore not
any single handler but what happens between two awaits: another handler, a webhook that
comes late, twice or never, a transaction that lands after it was given up, a process
that stops. The models here keep exactly that. An action is the code from one await to
the next, an awaited call may throw, and nothing that was done is undone.

All paths below are relative to the repository; `svc` abbreviates `src/src`. The
definitions of the modules and the lines they stand for are listed in `PROJECT.json`
("map"), as are the places where the code is hard to test ("hazards").

## 1. Inventory

| Component | State | Operations | What is hard | Module | What makes it correct |
|---|---|---|---|---|---|
| Spin wheel, `svc/wheel` | drops, receipts | `spin`, `update`, `addDrops` | spins race for the cooldown and for a drop; a won drop is delivered by mail or by a transfer that may fail or expire | `Wheel`, `PrizeLedger` | a drop is awarded once; the receipt says what was paid; sequential spins keep the cooldown; every spin ends |
| Minting, `svc/candy-machine`; the mutex, `svc/mutex` | coupons, whitelists, receipts, locks | `createMintTransaction`, `validateAndSendMintTransaction`, adding to whitelists | the limit is checked when the transaction is requested, the chain mints much later; clients submit twice | `CandyMint` | mints were vetted; sequential mints keep the limit; the mutex is given back |
| Mint webhook and weekly job, `svc/webhooks/helius`, `svc/digital-asset` | receipts, counters | `handleCoreCollectibleComicMintEvent`, `syncCollectibleComicMintReceipts` | duplicated and reordered calls race with the job | `CandyMint` | counters never run ahead; every receipt is settled |
| Market mirror, `svc/webhooks/helius`, `svc/webhooks/tensor`; auction house | listings, bids, sales, owners | a handler per instruction of the auction program, MPL Core and Tensor; transactions built from the rows | calls are lost, repeated, reordered and concurrent; one transaction has two instructions; rows are stale; a buyer has no Wallet row | `Marketplace`, `MarketLedger` | sales are whole, history is final, the mirror is right when calls are in order |
| Durable nonces, `svc/nonce`, `svc/cli` | `DurableNonce` rows, accounts on chain | `getNonce`, `updateNonce`, release by webhook, commands | two holders of one nonce, stale values | `DurableNonces` | a value is signed with once; a free nonce is good |
| Coupons of a candy machine | guard groups on chain, coupon rows | adding coupons and currencies, the price and deletion commands | labels from counts, read-modify-write of the guard, chain and rows not in one transaction | `Coupons` | a buyer is shown what the chain charges |
| Helius subscriptions | the address list at Helius | `subscribeTo`, `removeSubscription`, `sync-webhook` | lost updates of the whole list | `Subscriptions` | what must be watched is watched |
| Publishing, `svc/comic-issue`, `svc/candy-machine` | issue, collection, machines, items | create, edit, publish off and on chain, delete, `insert-items` | a row after each thing made on chain, any of which may fail; published again and again | `Publication` | names of items differ, the title on chain is the issue's, items are sent |
| Users, creators, referrals, campaigns | users, channels, interests | register, names, emails, verification, referrals | check then update; links followed late | `Accounts` | names differ, verified emails are proven, referrals counted |
| Syncs, `svc/wallet`, `svc/digital-asset`, `svc/cli` | assets, receipts | `syncWallet`, collection syncs, commands | pages read while assets move; rows of webhooks and syncs | `WalletSync`, `Collectibles` | a sync reaches every asset; a receipt is kept |
| One collectible, Discord signing, unwrapping | owner and uri, on chain and in a row | transfer, `unwrapComic`, `signComic`, webhooks, jobs | a row written before the transaction is sent; a uri built from a stale one | `Collectibles` | the row agrees at rest; traits are kept |
| Works and prints, autographs, `svc/digital-asset` | works, sale, signature requests | registrations, sale, purchase, webhooks | a registration reads the chain in one step and writes in another | `Editions` | rows say who owns what and on which terms prints are sold |
| Files, `svc/aws`, and every service with images | S3 objects, keys in rows | update of one or many files, covers, pages, deletions | files and rows without a common transaction | `StoredFiles` | every row has its file; orphans are explained |
| Lists and cache, `svc/cache` and every list | rows, entries of the cache | queries, `CacheInterceptor`, `deleteByPattern` | stale fills after a reset | `Shelf` | after a write answers are fresh |
| Guards and controllers, `svc/guards` | roles, owners, slugs, wallets | every route of every controller | a guard finds a row, the handler finds it again later, or another one | `Routes` | only owners and administrators change a row |
| Reader activity and snapshots | dates of readers, snapshots | toggles, readings, ratings, nightly snapshots | a date on the boundary; a snapshot that runs while readers act | `Audience` | what is done counts once, for its day |
| Throttling | counters in the cache | `GlobalThrottlerInterceptor` | read then write | not modelled | see section 8 |
| Websockets, mail, notifications, exports | none | output | little | not modelled | see section 8 |

How they interact: the HTTP handlers write rows and hand transactions to clients;
clients sign and send them to the chain; Helius and Tensor report what the chain did;
the webhook handlers write rows again; nightly and weekly jobs and an operator's commands
repair rows and count them. The same rows are read by the next request.

## 2. Plan

What is done: all the modules of section 1, their runs (section 6) and findings
(section 7), and proofs in eight proof modules (section 8).

`Wheel`, `CandyMint` and `Marketplace` have runs of their own, because their handlers meet
in one state. The other components share no variable: a property of one cannot depend on
the steps of another, and so `MCRecords` (coupons, nonces, addresses, issue, accounts, sync)
and `MCContent` (files, shelf, routes, audience, collectibles, editions, autographs) are one
run each, whose first state chooses a scene and which explores each scene alone.

Every safety property of a run that holds is proved as well, for every value of the constants
(section 8); liveness is left to TLC. Left to do: smaller proofs where several steps repeat the
same argument.

## 3. The three core modules

### The wheel (`Wheel.tla`, abstract specification `PrizeLedger.tla`)

A spin is a process. Its program counter `pc[s]` names the await it is at; the locals it
carries are `since` (`lastEligibleSpinDate`), `pool` (the active drops it read), `pick`
(`randomlySelectedDrop`) and `won` (`winningDrop`). The rows are `drop`, `receipts` and
`dbOwner`; the chain is `holder`, `vault` and the state `tx[s]` of the transfer of spin s.
`Begin`, `ReadWheel`, `CheckCooldown`, `FindDrop`, `UpdateDrop`, then one branch per type
of reward (`DeliverNothing`, `SendClaimEmail`, `CheckFungible` / `FetchAsset`,
`SendTransfer`, `Confirm`), `CreateReceipt` or `CreateReceiptForNoReward`, `SyncOwner`
follow `spin` line by line. `UpdateDrop` re-evaluates its where clause, which is what
PostgreSQL does for an update that waited for a row lock. `Fail` is any awaited call that
throws. `Land` and `Expire` are the chain, `MoveAsset` is the treasury or anybody else
moving an asset, `Tick` the clock in units of 24 hours. A month back (`subMonths`) is any of 28 to
31 days (`Lookbacks`); what a monthly wheel enforces for certain is the shortest (`Cooldown`).

Left out: amounts (a drop is one payment), the text of receipts, the wheel's other
columns. `Wheel.tla` draws the random number as either end of its range, and any drop of
the pool.

Properties, all of the run `wheel`: `AwardedOnce`, `ReceiptTellsOutcome`,
`CooldownBetweenSequentialSpins`, `RefusedOnlyBeforeAnnounced`, the refinement
`PrizeLedgerSpec`, and `SpinTerminates`. The run has one drop of each of four reward types,
a vault with at most one payment (so that a payment may fail), two spins of one user and
three instants, enough for a spin inside, at the end of, and after a cooldown. Two spins
suffice for every race here because each hazard is between two handlers; users only
separate receipts, so spins of two users race for drops exactly as two spins of one user
do when no receipt exists yet.

Two runs show that the code does not do what it says. `wheel_race`: two requests in
flight both pass the cooldown query. `wheel_weekly`: on a weekly wheel the announced 24
hours are too short, and a user who comes back is refused again.

Fairness: the handler's own next step and the chain's answer about a sent transfer are
weakly fair. An await that neither answers nor throws would hang the request; the
database, the mailer and the RPC client time out, and a transaction's blockhash expires.
Nothing is assumed of clients, of the clock or of administrators.

### Minting (`CandyMint.tla`)

One candy machine, mints m of a wallet with a coupon. `pc[m]` is the request for a
transaction (`ValidateCouponDates`, `ValidateMintEligibility`, `ValidateMintLimit`), `spc`
the submissions of it under the wallet's mutex (`BeginSend`, `SendTransaction`,
`CreateReceipt`), `tx`, `minted` and `redeemed` the chain, `hook` the webhook calls
(`Deliver`, `ConfirmReceipt`, `FetchCandyMachine`, `CountItems`) and `job` the weekly job's
look at each receipt (`SyncReceipts`, `LookUp`, `SettleReceipt`). `cached` is the hour-long
cache of whitelist answers. The chain may mint fewer items than asked for, because the bot
tax turns a failing mint instruction into one that succeeds.

Runs. `mint`: a whitelist coupon of two redemptions, two mints of one and two items, the
first of them reported twice and the other never, supply 2 (so that the supply runs out). `MintedWasVetted`,
`CountersNeverAhead`, `ReceiptsSettle` under fairness of the chain and the job (strong
fairness for the job's calls: it runs every week, and a call that fails this week is tried
again next week), and `MutexReleased` under weak fairness of the awaits of a submission (the
RPC client and the database answer or time out): a wallet that waits for the mutex is not
kept out for ever, whichever await of the holder fails. `mint_users`: a coupon for registered
users, one mint submitted twice and by either user: `SequentialMintLimit` and
`ConfirmedInBlock`. `mint_limit` shows that the limit does not hold among mints that overlap,
although a comment says it is centralised.

`SequentialMintLimit` says nothing about the limit query: mints are one after the other when
each of two was over before the other asked for its limit, and a mint is over (`Over`) when the
chain has executed it, no submission of it is at work and none of its receipts is Processing.
`apart` records that at the query. That the query then counts each of them is what has to hold,
and it fails for three kinds of mints, which the handlers put into `misrecorded` when it
happens: the process stops or throws between sending and recording (`FailSend`), the job marks
Failed a transaction that had no status yet (`SettleReceipt`), and the receipt of a coupon for
users belongs to somebody else, who submitted the transaction or owns its wallet (`BeginSend`,
`ConfirmReceipt`). For those the code keeps no limit, and the property does not claim one.

Requests, submissions and deliveries are bounded, so these runs end: `CHECK_DEADLOCK FALSE`.

### The market (`Marketplace.tla`, abstract specification `MarketLedger.tla`)

One asset; rows of different assets never meet. `list`, `bid`, `executeSale`, `instantBuy`,
`cancelBid`, `cancelListing`, `repriceListing` and `timedAuctionList` build transactions
from the rows (`pending`), the chain accepts or rejects them whatever the rows said
(`Accepts`, `Effect`), and appends them to `log`. A delivery <<i, k>> is the k-th call about
the i-th transaction; `todo[d]` holds the instructions its handler still has to handle and
`at[d]` the await it is at. There is one handler action, or one per await, for each handler
of `helius.service.ts` the market needs. A unique index (`closedAt` is 0 while open) makes
creating a second open listing, or a second open bid of a bidder, throw, and a throw ends
the handling of the whole transaction.

`walletRows` are the wallets with a Wallet row, to which `DigitalAsset.ownerAddress` refers. A
transfer and a purchase on Tensor create the row of the new owner; a sale by the auction program
does not, so that for a buyer without a row its transaction rolls back (`SaleFails`): no sale, the
listing and the bid stay open, the asset stays the seller's. `ConnectWallet` makes a row, and a
call about the sale that comes after it goes through. `missed` are the sales refused so.

Properties. `SaleSettled`: a sale is whole. `HistoryFixed` (an action property): closed
rows and sales never change. `RecordsHappened`: owners and buyers in the database really
were. `MirrorsChain`: as long as calls come in the chain's order, possibly repeated, and
are handled one by one, the database says what the chain says, unless a buyer had no Wallet
row: such a sale leaves the owner and the offer as they were before it, and the next call about
it makes up for it when the wallet is known by then. The history variables `started` and `order`
record how calls have come, `missed` which sales the owner's key refused; the property says
nothing once a call was lost, overlapped or failed, or once another transaction followed a
missed sale, and the code has no reconciliation that would let it say more. `MarketLedgerSpec`: whatever calls do, the rows are a ledger of deals
(`MarketLedger`): one listing on offer, one standing bid of each bidder, each ended once and for
ever, and a deal that takes its listing and its bid and hands the asset over in one step.
The mapping is in `Marketplace` (`Ledger`): what is on offer are the open listings, what stands
the open bids, and the holder the owner of the row.

`MirrorsChain` also leaves out a repeated call about an instant buy (`Repeatable`). Such a call
brings a bid and a sale again; the buyer's first bid is closed by then, so the index lets
`handleAssetBid` create it once more, and then it throws because no listing is open: the
database keeps an open bid that the chain does not know. An earlier bound of the run, one call
about each transaction of the auction house, hid this; preparing the proof showed it. Any other
repeated call throws before it writes, or writes what is there.

Runs. `market`: the auction program with three wallets and four transactions (a listing,
two bids and a sale, or two sales in a row), each reported once, and again while calls are
handled one by one; as a second scene, Tensor, transfers and burns, three transactions
of two wallets with every call possibly repeated; and, as a third, listings, sales and transfers
between two wallets of which only the owner has a Wallet row at first (three transactions: a
listing, then a bid and a sale, or an instant buy). `market_bids`: two overlapping bids of a
timed auction leave the lower one as "highest bid".

## 4. The records of the backend (`MCRecords`)

**Coupons (`Coupons.tla`).** One candy machine. Every change fetches all guard groups
(`FetchGroups`), writes all of them back (`updateCoreCandyMachine`, or `UpdateLost` when the
transaction fails, which is only logged), then writes rows (`WriteRows`, `WritePrice`); the
label is a count made before (`CountForLabel`). A price is told apart by the request that set
it. `disturbed` are labels a failed or stale write touched, `orphaned` those left by a failure
between the chain and the rows. `GroupsAgree`: with no change under way the group and the row
of every other label have one price, and no group lacks its row. The price query and the mint
do not look at a coupon in the same way (the query requires an `expiresAt` in the future where
others accept none, and shows a coupon of zero redemptions as eligible though the mint refuses
it); these comparisons are left out.

**Durable nonces (`DurableNonces.tla`).** `getNonce` is a look-up and an update that names the
status it read; the nonce is held through building, signing and sending a transaction, and
returned by the request, the webhook, `insert-items` or an operator (`updateNonce` fetches the
value, then writes it). A transaction signed with a value may land as long as the account has
it, and landing advances it. `early` are accounts returned while somebody might still use
them, or with a value that was spent since it was fetched. `NoncesExclusive`: no two
transactions are signed with one value; `NoncesFresh`: a free nonce has the chain's value;
both but for `early`. `advanceNonce` of the code has no caller and no action.

**Subscriptions (`Subscriptions.tla`).** Reading the list at Helius, writing it back, and the
command that writes the list it collected from the database. `Listening`: with no subscriber at
work Helius calls back about every asset that exists and every machine that sells, except for
`unheard`, the addresses whose own call failed or whose addition a stale write dropped.

**Publication (`Publication.tla`).** One issue: `create`, `update`, `publishOffChain`,
`publishOnChain` (collection, machine, metadata, items, a row after each), the toggle of its
date, `delete`, and the `insert-items` command. An issue's id and title are the request that
set them, an item's name its number; config lines are <<machine, index, number>>, written or
`flying` (sent and not awaited). The items of a machine go out batch by batch, an await before
each (`BatchInsertItems`; `index` is how many are out); a failure between two batches is only
logged (`InsertFails`) and the row keeps `isFullyLoaded`. `ItemsSent` therefore says that such a
machine, recorded in `halted`, lacks its last lines and no other, and that every other one has
had all its lines sent. `overlapped` are publications under way while another made
something, `renumbered` machines the command filled, `faulted` publications whose upload of
metadata failed, `late` edits let in before the collection was made and written after its
title was read. `NumbersDistinct`, `TitleAgrees` and `ItemsSent` hold but for these. Left out:
prices, royalties, covers; `unpublish` is disabled in the code. Issue creation compares the
comic's channel with the id of the user, which `Routes` keeps.

**Accounts (`Accounts.tla`).** Users with a name, an email and a spelling of each (look-ups
ignore case, indexes do not); `register`, `update`, links of verification, Google and Privy,
`redeemReferral`, the channel of a creator, interest in one campaign. `twins` are names given
while another request wanted them, `mistaken` emails that changed under a Google sign-in,
`overdrawn` allowances spent by overlapping referrals. `NamesDistinct`, `VerifiedProven`,
`ReferralsCounted` hold but for these.

**Wallet sync (`WalletSync.tla`).** A wallet or a collection is read page by page while assets
move (`Transfer`), mints are told or not, and each asset gets a row and a receipt. Pages are
cut anew on every read, so a transfer between two pages may skip an asset; a machine without a
public coupon in SOL stops the sync of each page. `HoldingsSynced`: a sync nothing disturbed
(`alone`) that gave up no asset (`missed`) leaves an owner's row and a receipt for every asset
of the wallet. `ReceiptsKept` (an action property): a receipt is not replaced, unless two syncs
ran at once or the webhook of a mint came after a sync (`crossed`), which leaves the receipt of
unknown signature that the sync made beside its own. The command for core collections indexes in parallel; here, one
asset after another.

## 5. What creators publish and readers see (`MCContent`)

**Files (`StoredFiles.tla`).** A slot is a column or a cover or page of a row, a key the
request that uploaded it. Requests upload, rewrite the row, collect what it named, or roll back
what they uploaded; each step may fail. `spoiled` are slots whose cover was kept from a stale
read or whose file went with a rollback; `leaked` are keys a fault, a race or an omission of
the code left (two requests that rewrite a slot, pages uploaded beside one that fails, a
rarity no longer sent, the icon another request gave a genre whose creation fails).
`FilesAgree` is `NamesStored` (each named file is stored) and
`OrphansExplained` (at rest, what nobody names is in `leaked`).

**Shelf (`Shelf.tla`).** What the lists and pages of comics, issues, channels, genres and
slides answer, given the row and what is `around` it, each by its own query; the cache before
some of them (`intercept`, `handle`, `store`, `expire`), and the writers with the keys they
drop (`listKeys`, `deleteKeys`). `AnswersFresh`: once a writer that drops a key has returned,
no answer from before its write is served from that key, unless it was on its way when the row
was written (`late`). Kept because they are in the code: an issue's list does not require its
comic to be shown, and a slide about a paid issue that is not on chain fails the whole list.
Sort orders and pagination are left out.

**Routes (`Routes.tla`).** Every route of every controller with its guard and what it does.
A guard reads the user, then the row (`lookup`); the handler finds it again by the key in the
url (`handle`, `write`). An id names one row for ever; a slug or a wallet may be handed over
meanwhile. The guard of drafts is told apart: when the body names an issue (`NamesIssue`) it
looks up that issue, on every guarded route, while `update`, `delete` and `findOne` act on the
draft whose id is in the url. `OwnersOnly`: what a route of owners changes or answers raw belongs
to who asked, but for administrators, for what was handed over, and for drafts vouched for by an
issue the body names (`Vouched`), of which the property says only that this issue is the user's:
TLC reaches drafts changed by a user who does not own them, and the code promises no more
than its guard checks. No owner of what a guard looks up is refused once its channel is made. Kept: the route of campaign covers admits nobody, `AdminOrChannelOwner` refuses a
Superadmin, a draft may be created twice and outlives its issue. The role Tester is a User's.

**Audience (`Audience.tla`).** Dates of readers, toggled and upserted with the moment the
request looked (a day has two moments, midnight and the rest), and the snapshots that count
them, reader by reader. `DaysCounted`: a date counts for one day only, its own, and everything
of a day that was there in time is counted. What is written later than its day's snapshot is
`tardy`. The activity of users who are not signed in is never stored.

**Collectibles (`Collectibles.tla`).** One comic on chain (owner; used, signed) and its row.
Owners transfer it; `unwrapComic` writes the row and then sends; the creator signs it from
Discord; the webhook tells each change, late, twice or never; the weekly job, commands and
wallet syncs copy what they read. `strayed` is that something went astray since the last
undisturbed copy: a webhook lost or late, a transaction that never lands, two interleaved
requests, a signature in a locked collection (which is written to the row only). `clobbered`
is that a transaction landed on another uri than it was built from. `RowAgrees`: at rest and
not strayed, the row is the asset. `TraitsKept`: used and signed stay, but for `clobbered`.

**Editions (`Editions.tla`).** Folder, single work and collection of prints: put on chain,
registered with an address (the chain is read in one step, the row written in another), sold
as prints between dates, given away; and autographs, whose request is upserted and which
nothing resolves. `EditionsAgree`: with nothing on its way and nothing `adrift`, rows say who
owns each work and print and on which terms prints are sold. Nothing counts `itemsMinted`, so
the check of the supply before a purchase never refuses; the chain does. A sale without an end
cannot be bought. `createBuyPrintEditionTransaction` of the asset service has no caller;
the update authority of a collection is not followed.

## 6. Runs and bounds

| Run | Instance | Expected |
|---|---|---|
| `wheel` | a drop of each reward type, two spins of one user, three instants | holds |
| `wheel_race` | two spins in flight | `OneSpinPerCooldown` refuted |
| `wheel_weekly` | a weekly wheel | `RefusedOnlyBeforeAnnounced` refuted |
| `mint` | two mints with a whitelist coupon, one reported twice, supply 2 | holds |
| `mint_users` | two mints with a coupon for users, one submitted twice | holds |
| `mint_limit` | two transactions requested before either is confirmed | `MintLimitRespected` refuted |
| `market` | three wallets and four transactions; two wallets, Tensor, repeated calls; a buyer without a Wallet row | holds |
| `market_bids` | two overlapping bids | `HighestBidIsHighest` refuted |
| `records` | three requests of each part of section 4 | holds |
| `content` | three requests of each part of section 5 | holds |
| `campaign` | interests with referrals | `InterestReferred` refuted |
| `owners` | a sync after a transfer | `NewOwnersSynced` refuted |

Three requests are one more than any of the races of these parts needs (one that reads, one
that overtakes it) so that a third may begin in the state they leave. They are alike, hence
the symmetry; what is named (rows, wallets, slugs, users) is not permuted. The bounds of
`records`: two assets of which one mint at most was not told, pages of one asset, two syncs
and one event (`FewAssets`, `FewSyncs`); a nonce account of three values; two spellings of a
name and another, of which referrers are asked for by one (`OneSpelling`: they are looked up
whatever the spelling); supplies of one and two, four items in all (`FewItems`). Those of `content`: `TwoOperations`, `TwoTakes`,
`TwoHandlers` let two of the three requests begin where three add only states, of files only
about one row or a comic and its issue; a genre may be missing at first, so that two requests
about it meet without a third that deletes it (`GenreFirst`); a locked collection starts with a
row and no traits; `TwoVisits` lets two visits begin where keys are ids, and of comics one at a
time that leaves the rows as they are; `FewRows` starts the routes with one comic of the
first member, and for requests about issues and drafts, where the second member is no plain user,
with a comic and an issue of its own too when it is a creator; `FewSurroundings` fixes what is
the same for all requests of a list; `OneUncached`
lets one answer that is not cached be made at a time, which the cache cannot tell; `FewWorks`
one sale, of a collection or of single works. Requests are served once each and the system
stops: `CHECK_DEADLOCK FALSE` in every configuration of requests.

`RecordsTypeOK` and `ContentTypeOK` put the type invariants of the parts together. Those of the
wheel, the mint and the market are proved (`TypeCorrect`) and not properties of their runs.

## 7. Findings

Each is a run that TLC refutes, with the line of the code and the sentence it contradicts
in `PROJECT.json`.

* `OneSpinPerCooldown`: two spins in flight both pass the cooldown query.
* `RefusedOnlyBeforeAnnounced` on a weekly wheel: 24 hours are announced, 7 days enforced.
* `MintLimitRespected`: mints requested before one is confirmed exceed the limit.
* `HighestBidIsHighest`: of two overlapping bids the lower may be recorded as the highest.
* `InterestReferred`: the row of an interest is looked up by the id of the user.
* `NewOwnersSynced`: the loop over assets with a new owner runs over an empty page.

## 8. Proofs

The proof modules hold for every value of the constants allowed by the named assumptions:
any number of users, requests, assets, calls and failures. Each safety theorem is
`Spec => []Inv`, by an inductive invariant that holds initially, is kept by every action (one
lemma per action or group of actions) and implies the property. Where a property excuses what
a fault or a race explains, the excuse is a history variable the actions write (`early`,
`unheard`, `overlapped`, ...), never a condition on the property's own state.

* `Wheel_proofs`: `TypeCorrect`; `Invariance` of `IInv`, which adds to `AwardedOnce` and
  `ReceiptTellsOutcome` what is true at each stage of a handler (`Stage`) and that a won
  drop is taken; from it the two properties and `WheelImplementsLedger`, by mapping each
  action to an action of the ledger or to a stutter. `CooldownAlways` has an invariant of
  its own (`CooldownInv`): a spin past the cooldown query is later than every receipt it
  began after. `AnnouncedDaily` proves `RefusedOnlyBeforeAnnounced` when the wheel is daily,
  the assumption the run `wheel_weekly` shows to be needed.
* `CandyMint_proofs`: `TypeCorrect`; `MintedWasVettedAlways` from `VettedInv` (cache entries
  that say yes are on the list, and a request past a check passed it);
  `ConfirmedInBlockAlways` from `BlockInv` (whoever is about to write Confirmed has seen the
  transaction in a block); `CountersNeverAheadAlways` from `CountInv` (what a webhook read
  was minted). `SequentialMintLimitAlways` needs `RecordInv` and `LimitInv` on top of the
  first two. `RecordInv` is what the handlers owe a mint nothing went wrong for: a receipt once
  it is sent, under the right user, and Failed only when its transaction failed. Hence a mint
  that is over has a receipt that the limit query of a like one counts (`OverIsCounted`). Only
  signed mints are ever over, so of signed mints one after the other all the others were over
  before the last, and no induction over their order is needed. What the query counted and
  what was asked for was within the limit (`CountedWithinLimit`: two receipts of one mint count twice, which errs on
  the safe side), and the chain mints no more than was asked for (`MintedAtMostAsked`). Items
  are counted as pairs of a mint and a number, so that the library's theorems on cardinality
  stand in for an induction over a sum. TLC checked both invariants on the instance of
  `mint_users` before they were proved.
* `Marketplace_proofs`: `TypeCorrect` (with `Locals`: the rows a handler holds between two
  awaits exist). The handlers are reduced once and for all to what they can do to each table
  (`ListingsMove`, `BidsMove`, `RecordsMove`): a row is appended, or an open one is changed.
  From these moves follow `HistoryFixedAlways`, an action property of every step;
  `SaleSettledAlways` by `SettledInv`, which adds that a bidder has at most one open bid and
  that, while calls are sequential, the one running handler still holds the buyer's open bid
  (without it the price recorded, read before the transaction, could be another bid's); and
  `RecordsHappenedAlways` by `HappenedInv`, which adds that every instruction still to be
  handled repeats a transaction of the log. None of them assumes an order of deliveries.
  `MirrorsChainAlways` does, as the property says. The history variable `states` keeps the
  states the chain went through, so that the proof can name the one a handler is about without
  a fold over the log. `ChainInv` says that each follows from the one before it by an accepted
  transaction; `MirrorInv` that while calls are sequential the rows say what the chain said
  after the last transaction delivered, but for what its only running handler has left (`Doing`:
  before the instruction, or between two awaits of it); and when that transaction is a sale to a
  buyer without a Wallet row (`missed`), what it said before the sale (`Unsold`; the bid of an
  instant buy is recorded all the same). One lemma shows that the chain's
  acceptance makes the handler of each instruction ready (`AcceptedReady`, `BuyReady`), one
  that a ready handler's step ends where the chain's did (`HandlerShows`; for a sale `SaleShown`,
  or `Refused` when the key refuses it), and one that a repeated call changes nothing, or records
  the missed sale after all (`RepeatShows`). TLC checked both invariants on the instance of
  `market` before they were proved. `MarketImplementsLedger` maps each write of a handler to an
  action of the ledger, or to a stutter: `DealRecorded` for the sale and for a purchase on
  Tensor, which are the steps that write four tables at once. It needs
  `TypeCorrect` and `Locals` only, and assumes nothing of the order or number of calls.
* `DurableNonces_proofs`: `NonceInv` adds to `NoncesExclusive` that whoever needs a nonce
  knows which (`Holding`), that what was sent has the current value or is forgotten
  (`SentCurrent`), and `Free`: a free account has the chain's value and nobody may sign with it
  or land with it. Exclusiveness alone is not inductive: the step that takes an account needs
  `Free`. From it `NoncesExclusiveAlways` and `NoncesFreshAlways`.
* `Subscriptions_proofs`: `ListInv` says that an address nobody hears of is one that a
  request recorded and is about to add (`AddressesHeard`), and that an address a list read earlier
  lacks is finished or is known to that reader as a newcomer (`ListsKnow`), so that what its
  write drops is on record. `ListeningAlways` is `ListInv` with no subscriber at work.
* `Routes_proofs`: `RoutesInv` is that rows stay sound (ids are given once), that a request
  is one of the controllers' (`VisitsSound`), that what a guard approved of still stands when
  the handler comes (`Approved`; of a draft, that the issue the body names, or else the draft's
  own, is the user's or gone) and that the user of a finished channel is a creator
  (`ChannelRoles`). Steps are first reduced to what they can do to each table (`RowsMove`:
  nobody's row becomes another's but by slug or wallet), from which `Approved` follows for
  all handlers at once. `OwnersOnly` speaks of what the last step did, so it is a consequence
  of `Approved` before the step.
* `Records_proofs`: `AccountsInv` (requests know what they were given and read; one request at
  most refers a user, who has no referrer before) gives `NamesDistinctAlways`,
  `VerifiedProvenAlways` and `ReferralsCountedAlways`, the last by cardinalities of the set of
  referees. `CouponsInv` (a group on chain that awaits its row is the only one of its label and
  its row will be the first; a setting's group has its price or the one a command is about to
  write) gives `GroupsAgreeAlways`. Publication has two: `TitleInv` (an issue with a collection
  is not deleted, and a publication about to make the collection has read the title or one is
  late) gives `TitleAgreesAlways`. `PublicationInvariance` rests on `TurnsInv`: publications
  that do not overlap make machines in turn, and who found a machine found all that its
  publication had found, so that a machine's items are numbered after those of every
  machine before it. The number an item is given is the cardinality of the set of items made
  so far (`Items`), which lets `NumbersDistinctAlways` be proved without a sum. A publication
  counts the lines it has sent and nobody but the command sends others (`Counts`), never more
  than its machine has (`CountsFit`), and all of them when it ends well (`SentAll`, for which
  `Uploaded` is needed): these give `ItemsSentAlways`.
  For the syncs, `ReceiptsInv` says that two are not at work at once (`OneSync`), that a receipt
  is about to be made only where none is (`ReceiptWanted`) and that before the first sync a mint
  not told has no row (`UntoldRowless`), each but in a behaviour marked as crossed; it gives
  `SyncTypeOKAlways` and the action property `ReceiptsKeptAlways`. `HoldingsInv` says which
  assets an undisturbed sync is done with (`HoldingJob`: those on the pages it read, but for the
  ones still to do), that it is the only one at work (`AloneOnly`), and that an asset on chain
  marked as verified, which a sync passes over, has its receipt or is at that moment being seen
  to (`VerifiedSound`). `HoldingsSyncedAlways` follows at the empty page, by `LastPage`: a list
  that has nothing on one page has nothing on a later one, from the least element of a finite
  set, since pages are cut by counting the assets before each.
* `Content_proofs`: `AssetInv` says what the row has yet to be told: of the webhooks on their
  way the last tells what the chain says, a webhook that comes again changes nothing, and a
  request that is alone copies the chain's state. It gives `RowAgreesAlways` and
  `TraitsKeptAlways`. `AudienceInv` says what a snapshot has counted of the parts it is done
  with; it gives `DaysCountedAlways`, where the arithmetic is that a moment lies in one day only.
  `EditionsInv` says that of the webhooks still to be told the last one about a work names
  its owner, and that its row does when there is none; it gives `EditionsAgreeAlways`.
  `ShelfInv` says that an answer on its way still answers if no row was written since, and that
  a key a writer's list lacks was stored after that writer's write (`StoredSince`), so that
  deleting the listed keys settles the write; it gives `AnswersFreshAlways`. `FilesInv` says
  that nobody names or has read the files of a request before its write (`Unnamed`), that what
  it uploaded is there when it writes (`Uploaded`), that what it is about to delete is named
  by no unspoiled slot (`Idle`) and that every file is named, known to be left or held by a
  request (`Accounted`); it gives `FilesAgreeAlways`. That invariant failed at first: with a
  third request, or a genre missing at the start, the row of a genre went while it named an
  icon. The model had forgotten the columns of that row (`GenreGone`); it no longer does.

`RecordsTypeOKAlways` and `ContentTypeOKAlways` state the type invariants of twelve parts at
once, over `MCRecords` and `MCContent`. A step of either is a step of one part and leaves the
others as they are (`ScenesApart`), so both follow from a theorem for each part
(`AccountsTypeOKAlways`, `ShelfTypeOKAlways`, ...) in the same module or in one it extends.
Most ranges of variables come with the invariants above. What these proofs add are the numbers,
whose bounds are not in any guard and have to be counted:

* accounts: what is left of an allowance is what was granted less the users referred, and the
  number of a new handle is at most the number of requests. The proof found the lower bound of
  what is left wrong: it had been stated as if every user was granted the whole allowance, and
  overlapping referrals can spend more than a user was granted. `AccountsTypeOK` now says so;
* coupons: an iteration of a coupon is at most one more than the requests that are done;
  publication: a config line's number is at most one supply for each request;
* shelf: the edition of a row is at most the number of requests that have written, counted
  as a finite set; audience: a count is at most one for each reader and part of a subject;
* routes: a member has one channel, so channels are at most members, and no row has an id
  that was not given;
* editions: a sale's `minted` stays 0, since the handler of a purchase never writes it
  (a hazard of `PROJECT.json`: the sold-out check compares it with the supply).

The counts need finite sets of what is counted: `IsFiniteSet` of requests, readers, issues,
editors and members is assumed by name in the modules (`AudienceAssumption`, ...). A behaviour
of the models serves each request once, so this bounds how long a behaviour is, not how many
requests a backend may serve. `ContentTypeOKAlways` also found a slip in `MCContent`: a
quantifier reached over the line that leaves the other parts unchanged, which said nothing for
an instance without requests.

What stays with TLC is liveness (`SpinTerminates`, `ReceiptsSettle`, `MutexReleased`), which
the prover does not do.

## 9. Not modelled

Websockets, mail, notifications, exports and one-off migrations (output); the throttler, whose
only claim is about real time (its read-then-write counter lets more than 500 requests of a
second by); passwords, tokens and signatures; the layout of accounts, metadata and transactions;
statistics, filters, sort orders and pagination; prices other than those of coupons and bids;
`syncTensorListings` and the switching of webhooks, which an operator runs by hand.
