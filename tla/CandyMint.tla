----------------------------- MODULE CandyMint -----------------------------
(***************************************************************************)
(* Minting comics from one candy machine: a client asks for a mint         *)
(* transaction (GET transaction/mint), signs it and submits it once or     *)
(* more (POST transaction/send-mint-transaction).  The chain executes a    *)
(* transaction at most once, Helius reports it through a webhook, more     *)
(* than once and late if it likes, and a weekly job settles the receipts   *)
(* still Processing.                                                       *)
(*                                                                         *)
(* An action is the code between two awaits.  A mint is one request for a  *)
(* transaction and the transaction it returns; a send <<m, k>> is the k-th *)
(* submission of mint m and the receipt it leaves; a delivery <<m, k>> is  *)
(* the k-th webhook call about mint m.                                     *)
(***************************************************************************)
EXTENDS Integers, FiniteSets

CONSTANTS
    Mints, Wallets, Users, Coupons,
    NoUser, NoSend, NoLimit,
    WalletOf, UserOf, CouponOf, ItemsOf,    \* what each mint asks for
    TypeOf,             \* couponType
    Limit,              \* numberOfRedemptions of each coupon, or NoLimit
    OwnerOf,            \* the user of each wallet, or NoUser
    Supply,             \* itemsAvailable of the candy machine
    MaxSends,           \* bound: submissions of each transaction by its client
    MaxDeliveries       \* bound: webhook calls about each transaction

CouponTypes == {"PublicUser", "RegisteredUser", "WhitelistedUser",
                "WhitelistedWallet"}

ASSUME MintAssumption ==
    /\ IsFiniteSet(Mints)
    /\ Wallets \cap Users = {} /\ NoUser \notin Users
    /\ NoSend \notin Mints \X Nat /\ NoLimit \notin Nat
    /\ WalletOf \in [Mints -> Wallets]
    /\ UserOf \in [Mints -> Users \cup {NoUser}]
    /\ CouponOf \in [Mints -> Coupons]
    /\ ItemsOf \in [Mints -> Nat \ {0}]
    /\ TypeOf \in [Coupons -> CouponTypes]
    /\ Limit \in [Coupons -> Nat \cup {NoLimit}]
    /\ OwnerOf \in [Wallets -> Users \cup {NoUser}]
    /\ Supply \in Nat
    /\ MaxSends \in [Mints -> Nat] /\ MaxDeliveries \in [Mints -> Nat]

VARIABLES
    started,    \* coupons whose startsAt has come
    listed,     \* pairs <<coupon, user or wallet>> on a whitelist
    cached,     \* what the whitelist queries' cache answers for each pair
    pc,         \* where the request for each mint is
    apart,      \* history: the mints over before each request's limit query
    spc,        \* where each send's handler is
    lock,       \* the send that holds each wallet's mutex
    status,     \* CandyMachineReceipt.status of each send, or "none"
    buyer,      \* CandyMachineReceipt.userId of each send
    misrecorded,\* history: the mints a receipt went wrong for
    tx,         \* each mint's transaction, as the chain sees it
    minted,     \* items it minted
    redeemed,   \* itemsRedeemed of the candy machine
    hook,       \* where each delivery's handler is
    hookSend,   \* the receipt it found
    hookRead,   \* the itemsRedeemed it read
    itemsMinted,\* CandyMachine.itemsMinted (itemsRemaining is its complement)
    job         \* where the weekly job is with each receipt

requestVars == <<started, listed, cached, pc, apart>>
sendVars == <<spc, lock>>
receiptVars == <<status, buyer, misrecorded>>
chainVars == <<tx, minted, redeemed>>
hookVars == <<hook, hookSend, hookRead, itemsMinted>>
vars == <<requestVars, sendVars, receiptVars, chainVars, hookVars, job>>

Sends == UNION {{m} \X (1..MaxSends[m]) : m \in Mints}
Deliveries == UNION {{m} \X (1..MaxDeliveries[m]) : m \in Mints}

\* A list of users and a list of wallets; the query of a coupon reads one.
Listings == ({c \in Coupons : TypeOf[c] = "WhitelistedUser"} \X Users)
              \cup ({c \in Coupons : TypeOf[c] = "WhitelistedWallet"} \X Wallets)

TypeOK ==
    /\ started \subseteq Coupons
    /\ listed \subseteq Listings
    /\ cached \in [Listings -> {"none", "no", "yes"}]
    /\ pc \in [Mints -> {"idle", "eligibility", "limit", "signed", "refused"}]
    /\ apart \in [Mints -> SUBSET Mints]
    /\ misrecorded \subseteq Mints
    /\ spc \in [Sends -> {"idle", "send", "record", "done"}]
    /\ lock \in [Wallets -> Sends \cup {NoSend}]
    /\ status \in [Sends -> {"none", "Processing", "Confirmed", "Failed"}]
    /\ buyer \in [Sends -> Users \cup {NoUser}]
    /\ tx \in [Mints -> {"none", "sent", "executed", "errored", "expired"}]
    /\ minted \in [Mints -> Nat]
    /\ redeemed \in 0..Supply
    /\ hook \in [Deliveries -> {"idle", "index", "fetch", "count", "done"}]
    /\ hookSend \in [Deliveries -> Sends \cup {NoSend}]
    /\ hookRead \in [Deliveries -> Nat]
    /\ itemsMinted \in Nat
    /\ job \in [Sends -> {"none", "lookup", "fail", "confirm"}]

Init ==
    /\ started = {}
    /\ listed = {}
    /\ cached = [l \in Listings |-> "none"]
    /\ pc = [m \in Mints |-> "idle"]
    /\ apart = [m \in Mints |-> {}]
    /\ misrecorded = {}
    /\ spc = [s \in Sends |-> "idle"]
    /\ lock = [w \in Wallets |-> NoSend]
    /\ status = [s \in Sends |-> "none"]
    /\ buyer = [s \in Sends |-> NoUser]
    /\ tx = [m \in Mints |-> "none"]
    /\ minted = [m \in Mints |-> 0]
    /\ redeemed = 0
    /\ hook = [d \in Deliveries |-> "idle"]
    /\ hookSend = [d \in Deliveries |-> NoSend]
    /\ hookRead = [d \in Deliveries |-> 0]
    /\ itemsMinted = 0
    /\ job = [s \in Sends |-> "none"]

-----------------------------------------------------------------------------
(* Coupons                                                                 *)

\* startsAt comes.
CouponStarts(c) ==
    /\ c \notin started
    /\ started' = started \cup {c}
    /\ UNCHANGED <<listed, cached, pc, apart,
                   sendVars, receiptVars, chainVars, hookVars, job>>

\* addWhitelistedUsersToCoupon, addWhitelistedWalletsToCoupon: rows are added,
\* never removed, and cached answers stay.
AddWhitelisted ==
    /\ \E l \in Listings \ listed : listed' = listed \cup {l}
    /\ UNCHANGED <<started, cached, pc, apart,
                   sendVars, receiptVars, chainVars, hookVars, job>>

\* An answer outlives its hour.
CacheExpires ==
    /\ \E l \in Listings :
         /\ cached[l] # "none"
         /\ cached' = [cached EXCEPT ![l] = "none"]
    /\ UNCHANGED <<started, listed, pc, apart,
                   sendVars, receiptVars, chainVars, hookVars, job>>

PublicMint(c) == TypeOf[c] \in {"PublicUser", "WhitelistedWallet"}

-----------------------------------------------------------------------------
(* createMintTransaction                                                   *)

Goto(m, where) == pc' = [pc EXCEPT ![m] = where]

\* The coupon is read and its dates are checked: it may have expired by now.
\* Its row never changes once created, so the cached copy of it is as good.
ValidateCouponDates(m) ==
    /\ pc[m] = "idle"
    /\ \/ CouponOf[m] \in started /\ Goto(m, "eligibility")
       \/ Goto(m, "refused")
    /\ UNCHANGED <<started, listed, cached, apart,
                   sendVars, receiptVars, chainVars, hookVars, job>>

\* The row a whitelist query of mint m looks for.
Listing(m) ==
    <<CouponOf[m], IF TypeOf[CouponOf[m]] = "WhitelistedUser"
                   THEN UserOf[m] ELSE WalletOf[m]>>

Answer(l) == IF cached[l] # "none" THEN cached[l]
             ELSE IF l \in listed THEN "yes" ELSE "no"

\* Variant with a bug: a public mint skips its whitelist.
EligibleIfPublic(m) ==
    CASE PublicMint(CouponOf[m]) -> TRUE
      [] TypeOf[CouponOf[m]] = "RegisteredUser" -> UserOf[m] # NoUser
      [] OTHER -> UserOf[m] # NoUser /\ Answer(Listing(m)) = "yes"

Eligible(m) ==
    CASE TypeOf[CouponOf[m]] = "PublicUser" -> TRUE
      [] TypeOf[CouponOf[m]] = "RegisteredUser" -> UserOf[m] # NoUser
      [] OTHER -> /\ PublicMint(CouponOf[m]) \/ UserOf[m] # NoUser
                  /\ Answer(Listing(m)) = "yes"

\* The whitelist is looked up, in the cache first, for a coupon that has one.
LooksUp(m) == /\ TypeOf[CouponOf[m]] \in {"WhitelistedUser", "WhitelistedWallet"}
              /\ PublicMint(CouponOf[m]) \/ UserOf[m] # NoUser

ValidateMintEligibility(m) ==
    /\ pc[m] = "eligibility"
    /\ Goto(m, IF Eligible(m) THEN "limit" ELSE "refused")
    /\ cached' = IF LooksUp(m)
                 THEN [cached EXCEPT ![Listing(m)] = Answer(Listing(m))]
                 ELSE cached
    /\ UNCHANGED <<started, listed, apart,
                   sendVars, receiptVars, chainVars, hookVars, job>>

\* The receipts the limit query adds up: by wallet for public coupons, by
\* user for the others.
CountedSends(m) ==
    {s \in Sends :
        /\ status[s] = "Confirmed"
        /\ CouponOf[s[1]] = CouponOf[m]
        /\ IF PublicMint(CouponOf[m]) THEN WalletOf[s[1]] = WalletOf[m]
                                      ELSE buyer[s] = UserOf[m]}

\* Variant with a bug: the receipts are counted, not their items.
NumberOfSends(S) == Cardinality(S)

ItemsOfSends(S) == Cardinality(UNION {{s} \X (1..ItemsOf[s[1]]) : s \in S})

WithinLimit(m) ==
    LET c == CouponOf[m] IN
    Limit[c] = NoLimit
      \/ ItemsOfSends(CountedSends(m)) + ItemsOf[m] <= Limit[c]

\* A mint that has come to its end: it is executed, its client waits for no
\* submission of it, and no receipt of it is Processing any more.
Over(p) ==
    /\ tx[p] = "executed"
    /\ \A s \in Sends : s[1] = p => /\ spc[s] \notin {"send", "record"}
                                   /\ status[s] # "Processing"

\* The count is compared with the limit; then a worker builds the transaction
\* and the authorization signer signs it.
ValidateMintLimit(m) ==
    /\ pc[m] = "limit"
    /\ Goto(m, IF WithinLimit(m) THEN "signed" ELSE "refused")
    /\ apart' = [apart EXCEPT ![m] = {p \in Mints : Over(p)}]
    /\ UNCHANGED <<started, listed, cached,
                   sendVars, receiptVars, chainVars, hookVars, job>>

\* A wallet without the funds, a query or an RPC call that throws.
RefuseMint(m) ==
    /\ pc[m] \in {"eligibility", "limit"}
    /\ Goto(m, "refused")
    /\ UNCHANGED <<started, listed, cached, apart,
                   sendVars, receiptVars, chainVars, hookVars, job>>

-----------------------------------------------------------------------------
(* validateAndSendMintTransaction, under the mutex of the wallet            *)

Step(s, where) == spc' = [spc EXCEPT ![s] = where]
Misrecord(m) == misrecorded' = misrecorded \cup {m}

\* A receipt of mint m under this user is one its limit query looks for.
RightBuyer(m, user) == PublicMint(CouponOf[m]) \/ user = UserOf[m]
Release(s) == lock' = [lock EXCEPT ![WalletOf[s[1]]] = NoSend]

\* A client submits a transaction it was given, logged in as it likes, and
\* may submit it again.  Requests of one wallet wait for its mutex.  The coupon
\* of the transaction's label is read, and its type may want a user.
BeginSend(s) ==
    /\ pc[s[1]] = "signed" /\ spc[s] = "idle"
    /\ s[2] > 1 => spc[<<s[1], s[2] - 1>>] # "idle"
    /\ lock[WalletOf[s[1]]] = NoSend
    /\ \E user \in Users \cup {NoUser} :
         \/ /\ PublicMint(CouponOf[s[1]]) \/ user # NoUser
            /\ lock' = [lock EXCEPT ![WalletOf[s[1]]] = s]
            /\ buyer' = [buyer EXCEPT ![s] = user]
            /\ Step(s, "send")
            /\ IF RightBuyer(s[1], user) THEN UNCHANGED misrecorded
                                        ELSE Misrecord(s[1])
         \/ /\ ~PublicMint(CouponOf[s[1]]) /\ user = NoUser
            /\ Step(s, "done")
            /\ UNCHANGED <<lock, buyer, misrecorded>>
    /\ UNCHANGED <<requestVars, status, chainVars, hookVars, job>>

\* The third party signs and the transaction goes out, preflight skipped.
SendTransaction(s) ==
    /\ spc[s] = "send"
    /\ tx' = [tx EXCEPT ![s[1]] = IF @ = "none" THEN "sent" ELSE @]
    /\ Step(s, "record")
    /\ UNCHANGED <<requestVars, lock, receiptVars, minted, redeemed,
                   hookVars, job>>

\* Variant with a bug: the receipt is created as confirmed.
CreateReceiptConfirmed(s) ==
    /\ spc[s] = "record"
    /\ status' = [status EXCEPT ![s] = "Confirmed"]
    /\ Step(s, "done") /\ Release(s)
    /\ UNCHANGED <<requestVars, buyer, misrecorded, chainVars, hookVars, job>>

CreateReceipt(s) ==
    /\ spc[s] = "record"
    /\ status' = [status EXCEPT ![s] = "Processing"]
    /\ Step(s, "done") /\ Release(s)
    /\ UNCHANGED <<requestVars, buyer, misrecorded, chainVars, hookVars, job>>

\* Variant with a bug: the mutex is released when the handler answers only.
FailSendHolding(s) ==
    /\ spc[s] \in {"send", "record"}
    /\ Step(s, "done")
    /\ UNCHANGED <<requestVars, lock, receiptVars, chainVars, hookVars, job>>

\* An awaited call throws or the process dies: the mutex is released.  After
\* the transaction went out there is no receipt for it.
FailSend(s) ==
    /\ spc[s] \in {"send", "record"}
    /\ Step(s, "done") /\ Release(s)
    /\ IF spc[s] = "record" THEN Misrecord(s[1]) ELSE UNCHANGED misrecorded
    /\ UNCHANGED <<requestVars, status, buyer, chainVars, hookVars, job>>

-----------------------------------------------------------------------------
(* The chain, external                                                     *)

\* The most items a transaction can mint.
Mintable(m) == IF ItemsOf[m] <= Supply - redeemed THEN ItemsOf[m]
               ELSE Supply - redeemed

\* The bot tax turns each mint instruction whose guards fail into one that
\* mints nothing and succeeds, so a transaction may mint fewer items.
Execute(m) ==
    /\ tx[m] = "sent"
    /\ tx' = [tx EXCEPT ![m] = "executed"]
    /\ \E k \in 0..Mintable(m) : /\ minted' = [minted EXCEPT ![m] = k]
                                 /\ redeemed' = redeemed + k
    /\ UNCHANGED <<requestVars, sendVars, receiptVars, hookVars, job>>

\* It fails in a block, or its blockhash expires before it is in one.
Miss(m) ==
    /\ tx[m] = "sent"
    /\ \E end \in {"errored", "expired"} : tx' = [tx EXCEPT ![m] = end]
    /\ UNCHANGED <<requestVars, sendVars, receiptVars, minted, redeemed,
                   hookVars, job>>

InBlock(m) == tx[m] \in {"executed", "errored"}

-----------------------------------------------------------------------------
(* handleCoreCollectibleComicMintEvent                                     *)

Hook(d, where) == hook' = [hook EXCEPT ![d] = where]

\* A call about a transaction in a block.  Any receipt with its signature
\* is found; without one both try blocks throw at receipt.id.
Deliver(d) ==
    /\ InBlock(d[1]) /\ hook[d] = "idle"
    /\ d[2] > 1 => hook[<<d[1], d[2] - 1>>] # "idle"
    /\ LET found == {s \in Sends : s[1] = d[1] /\ status[s] # "none"} IN
       \/ /\ found = {}
          /\ Hook(d, "done")
          /\ UNCHANGED hookSend
       \/ /\ \E s \in found : hookSend' = [hookSend EXCEPT ![d] = s]
          /\ Hook(d, "index")
    /\ UNCHANGED <<requestVars, sendVars, receiptVars, chainVars,
                   hookRead, itemsMinted, job>>

\* indexCoreAssets, whose failure is logged, then the receipt: confirmed, and
\* given to the user of the wallet the first indexed asset belongs to.
ConfirmReceipt(d) ==
    LET owner == OwnerOf[WalletOf[d[1]]] IN
    /\ hook[d] = "index"
    /\ status' = [status EXCEPT ![hookSend[d]] = "Confirmed"]
    /\ \/ UNCHANGED <<buyer, misrecorded>>
       \/ /\ minted[d[1]] > 0 /\ owner # NoUser
          /\ buyer' = [buyer EXCEPT ![hookSend[d]] = owner]
          /\ IF RightBuyer(d[1], owner) THEN UNCHANGED misrecorded
                                        ELSE Misrecord(d[1])
    /\ Hook(d, "fetch") /\ hookSend' = [hookSend EXCEPT ![d] = NoSend]
    /\ UNCHANGED <<requestVars, sendVars, chainVars,
                   hookRead, itemsMinted, job>>

FetchCandyMachine(d) ==
    /\ hook[d] = "fetch"
    /\ hookRead' = [hookRead EXCEPT ![d] = redeemed]
    /\ Hook(d, "count")
    /\ UNCHANGED <<requestVars, sendVars, receiptVars, chainVars,
                   hookSend, itemsMinted, job>>

\* Variant with a bug: increment: numberOfItems.
CountItemsIncrement(d) ==
    /\ hook[d] = "count"
    /\ itemsMinted' = itemsMinted + ItemsOf[d[1]]
    /\ Hook(d, "done") /\ hookRead' = [hookRead EXCEPT ![d] = 0]
    /\ UNCHANGED <<requestVars, sendVars, receiptVars, chainVars, hookSend, job>>

\* candyMachine.update with the counters that were fetched.
CountItems(d) ==
    /\ hook[d] = "count"
    /\ itemsMinted' = hookRead[d]
    /\ Hook(d, "done") /\ hookRead' = [hookRead EXCEPT ![d] = 0]
    /\ UNCHANGED <<requestVars, sendVars, receiptVars, chainVars, hookSend, job>>

\* A throw in either try block is logged, and the call answers 201.
FailHook(d) ==
    /\ hook[d] \in {"index", "fetch", "count"}
    /\ Hook(d, "done") /\ hookRead' = [hookRead EXCEPT ![d] = 0]
    /\ hookSend' = [hookSend EXCEPT ![d] = NoSend]
    /\ UNCHANGED <<requestVars, sendVars, receiptVars, chainVars,
                   itemsMinted, job>>

-----------------------------------------------------------------------------
(* syncCollectibleComicMintReceipts, the weekly job                        *)

Job(s, where) == job' = [job EXCEPT ![s] = where]

\* The receipts still Processing are read; each is then looked up on its own,
\* not awaited.
SyncReceipts ==
    /\ \A s \in Sends : job[s] = "none"
    /\ \E s \in Sends : status[s] = "Processing"
    /\ job' = [s \in Sends |-> IF status[s] = "Processing" THEN "lookup"
                               ELSE "none"]
    /\ UNCHANGED <<requestVars, sendVars, receiptVars, chainVars, hookVars>>

\* Variant with a bug: a signature without a status is left for next week.
LookUpPatiently(s) ==
    /\ job[s] = "lookup"
    /\ Job(s, CASE tx[s[1]] = "executed" -> "confirm"
                [] tx[s[1]] = "errored"  -> "fail"
                [] OTHER                 -> "none")
    /\ UNCHANGED <<requestVars, sendVars, receiptVars, chainVars, hookVars>>

\* getSignatureStatuses.  A signature in no block has no status, and one in a
\* block not yet confirmed is left for next week.
LookUp(s) ==
    /\ job[s] = "lookup"
    /\ \/ ~InBlock(s[1]) /\ Job(s, "fail")
       \/ tx[s[1]] = "sent" /\ Job(s, "none")
       \/ tx[s[1]] = "errored" /\ Job(s, "fail")
       \/ tx[s[1]] = "executed" /\ Job(s, "confirm")
    /\ UNCHANGED <<requestVars, sendVars, receiptVars, chainVars, hookVars>>

\* The receipt is updated by its id, whatever its status has become, and the
\* transaction too, if it had no status when it was looked up.
SettleReceipt(s) ==
    /\ job[s] \in {"fail", "confirm"}
    /\ status' = [status EXCEPT ![s] =
                     IF job[s] = "confirm" THEN "Confirmed" ELSE "Failed"]
    /\ Job(s, "none")
    /\ IF job[s] = "fail" /\ tx[s[1]] # "errored" THEN Misrecord(s[1])
                                               ELSE UNCHANGED misrecorded
    /\ UNCHANGED <<requestVars, sendVars, buyer, chainVars, hookVars>>

\* A call throws, and the error is logged.
FailSync(s) ==
    /\ job[s] # "none"
    /\ Job(s, "none")
    /\ UNCHANGED <<requestVars, sendVars, receiptVars, chainVars, hookVars>>

-----------------------------------------------------------------------------

Request(m) ==
    \/ ValidateCouponDates(m) \/ ValidateMintEligibility(m)
    \/ ValidateMintLimit(m) \/ RefuseMint(m)

Send(s) == \/ BeginSend(s) \/ SendTransaction(s)
           \/ CreateReceipt(s) \/ FailSend(s)

Chain(m) == Execute(m) \/ Miss(m)

Webhook(d) == \/ Deliver(d) \/ ConfirmReceipt(d) \/ FetchCandyMachine(d)
              \/ CountItems(d) \/ FailHook(d)

Sync(s) == LookUp(s) \/ SettleReceipt(s) \/ FailSync(s)

Next ==
    \/ AddWhitelisted \/ CacheExpires \/ SyncReceipts
    \/ \E c \in Coupons : CouponStarts(c)
    \/ \E m \in Mints : Request(m) \/ Chain(m)
    \/ \E s \in Sends : Send(s) \/ Sync(s)
    \/ \E d \in Deliveries : Webhook(d)

Spec == Init /\ [][Next]_vars

\* The chain includes a transaction or lets its blockhash expire; the job runs
\* every week; and a call of the job does not fail for ever.  The awaits of a
\* submission answer or time out.  Nothing is assumed of clients, webhooks or
\* other handlers.
FairSpec ==
    /\ Spec
    /\ \A m \in Mints : WF_vars(Chain(m))
    /\ WF_vars(SyncReceipts)
    /\ \A s \in Sends :
         /\ SF_vars(LookUp(s)) /\ SF_vars(SettleReceipt(s))
         /\ WF_vars(SendTransaction(s) \/ CreateReceipt(s) \/ FailSend(s))

-----------------------------------------------------------------------------
(* Properties                                                              *)

ItemsOfMints(S) == Cardinality(UNION {{m} \X (1..minted[m]) : m \in S})

\* One of each two mints was over when the other asked for its limit.
Sequential(S) == \A p, q \in S : p # q => p \in apart[q] \/ q \in apart[p]

\* Mints a limit adds up: of a coupon and a wallet, or user if it is for users.
Alike(p, q) ==
    /\ CouponOf[p] = CouponOf[q]
    /\ IF PublicMint(CouponOf[p]) THEN WalletOf[p] = WalletOf[q]
                                  ELSE UserOf[p] = UserOf[q]

\* The mint limit holds among mints one after the other: of a wallet's or
\* user's mints of a coupon, each two of which one was over before the other
\* was requested, the chain minted no more items than the coupon allows,
\* whatever repeated submissions, late webhooks and the job did to their
\* receipts.  It is promised to no mint a receipt went wrong for: the process
\* died between sending and recording, the job marked Failed what was
\* executed, or another user submitted it or owns the wallet.
SequentialMintLimit ==
    \A S \in SUBSET {m \in Mints : minted[m] > 0 /\ m \notin misrecorded} :
        Sequential(S) /\ (\A p, q \in S : Alike(p, q)) => \A m \in S :
            Limit[CouponOf[m]] = NoLimit
              \/ ItemsOfMints(S) <= Limit[CouponOf[m]]

\* A coupon with a list has the wallet or user on it, a coupon for users has
\* a user.
Vetted(m) ==
    CASE TypeOf[CouponOf[m]] = "PublicUser" -> TRUE
      [] TypeOf[CouponOf[m]] = "RegisteredUser" -> UserOf[m] # NoUser
      [] OTHER -> Listing(m) \in listed

\* What the chain mints was vetted: when the request was made the coupon had
\* started, and the wallet or user was on its list, if only as a cache entry
\* that may be an hour old remembers it.
MintedWasVetted ==
    \A m \in Mints : minted[m] > 0 => CouponOf[m] \in started /\ Vetted(m)

\* A Confirmed receipt has its transaction in a block, whoever confirmed it
\* and in whatever order the webhook, the job and the handler wrote it.
ConfirmedInBlock ==
    \A s \in Sends : status[s] = "Confirmed" => InBlock(s[1])

\* Duplicated, reordered and interleaved webhooks never make the database
\* announce more minted items than the chain has minted.
CountersNeverAhead == itemsMinted <= redeemed

\* Every receipt is settled, also when no webhook about it ever arrives.
ReceiptsSettle == \A s \in Sends :
    status[s] = "Processing" ~> status[s] # "Processing"

\* No submission keeps the mutex of its wallet, for which the next one waits,
\* whichever of its awaits throws: it is free again and again.
MutexReleased == \A w \in Wallets : []<>(lock[w] = NoSend)

-----------------------------------------------------------------------------
(* The inductive invariants behind MintedWasVetted, ConfirmedInBlock,       *)
(* CountersNeverAhead and SequentialMintLimit.                              *)

VettedInv ==
    /\ \A l \in Listings : cached[l] = "yes" => l \in listed
    /\ \A m \in Mints :
         /\ pc[m] \in {"eligibility", "limit", "signed"}
              => CouponOf[m] \in started
         /\ pc[m] \in {"limit", "signed"} => Vetted(m)
         /\ minted[m] > 0 => tx[m] # "none"
         /\ tx[m] # "none" => pc[m] = "signed"
    /\ \A s \in Sends : spc[s] # "idle" => pc[s[1]] = "signed"

\* Whoever is about to write Confirmed knows the transaction is in a block.
BlockInv ==
    /\ ConfirmedInBlock
    /\ \A d \in Deliveries :
         /\ hook[d] # "idle" => InBlock(d[1])
         /\ hook[d] = "index" => hookSend[d] \in Sends /\ hookSend[d][1] = d[1]
    /\ \A s \in Sends : job[s] = "confirm" => InBlock(s[1])

CountInv ==
    /\ CountersNeverAhead
    /\ \A d \in Deliveries : hookRead[d] <= redeemed

Signed == {m \in Mints : pc[m] = "signed"}
ItemsAsked(S) == Cardinality(UNION {{m} \X (1..ItemsOf[m]) : m \in S})

\* The receipts of a mint as its handlers leave them when nothing goes wrong:
\* there is one once it is sent, under the right user, and Failed only when its
\* transaction failed.
Recorded(m) ==
    /\ tx[m] # "none" => \E s \in Sends :
         s[1] = m /\ (spc[s] = "record" \/ status[s] # "none")
    /\ \A s \in Sends : s[1] = m =>
         /\ status[s] = "Failed" => tx[m] = "errored"
         /\ status[s] # "none" \/ spc[s] \in {"send", "record"}
              => RightBuyer(m, buyer[s])

\* The job and the webhook hold receipts that are there.
RecordInv ==
    /\ \A m \in Mints \ misrecorded : Recorded(m)
    /\ \A s \in Sends : job[s] # "none" => status[s] # "none"
    /\ \A d \in Deliveries : hook[d] = "index" => status[hookSend[d]] # "none"

\* The mints that were over before m and that its limit query had to count.
Earlier(m) == {p \in apart[m] \ misrecorded : Alike(p, m)}

\* What was over before a mint was signed, and had to be counted, fits the
\* limit together with it.  Of signed mints one after the other, all the others
\* were over before the last.
LimitInv ==
    /\ \A m \in Mints : apart[m] \subseteq Signed /\ minted[m] <= ItemsOf[m]
    /\ \A m \in Signed :
         Limit[CouponOf[m]] # NoLimit
           => ItemsAsked(Earlier(m) \cup {m}) <= Limit[CouponOf[m]]
    /\ \A S \in SUBSET Signed :
         S # {} /\ Sequential(S) => \E m \in S : S \ {m} \subseteq apart[m]

\* "Mint limit ... centralized using third party signer" (the comment in
\* addCoreCandyMachineGroupOnChain): no wallet, or user where the coupon is
\* for users, mints more items of a coupon than numberOfRedemptions.
MintLimitRespected ==
    \A m \in Mints : LET c == CouponOf[m] IN
        Limit[c] # NoLimit =>
            ItemsOfMints({p \in Mints :
                /\ CouponOf[p] = c
                /\ IF PublicMint(c) THEN WalletOf[p] = WalletOf[m]
                                    ELSE UserOf[p] = UserOf[m]}) <= Limit[c]
=============================================================================
