----------------------------- MODULE WalletSync -----------------------------
(***************************************************************************)
(* Bringing the rows up to date with the chain: all that a wallet holds, or *)
(* all of a collection, read from the index of the chain page by page while *)
(* assets move, and the receipts of assets whose mint was never told.      *)
(*                                                                         *)
(* An action is the code between two awaits.  Collectibles follows the row *)
(* of one asset through all of its writers; here the assets are several,   *)
(* and the question is which of them a sync reaches.                       *)
(***************************************************************************)
EXTENDS Integers, FiniteSets

CONSTANTS
    SyncRequests,   \* bound: the syncs of a behaviour
    NumComics,      \* assets on chain
    Purses,         \* wallets
    PageLimit,      \* assets of a page, 1000 of a wallet
    MaxMoves,       \* bound: transfers on chain
    NoRow, NoReceipt, NoPurse

\* The index lists assets in one order.
Comics == 1..NumComics

\* By a mint, of its transaction, or by a sync, UNKNOWN
Receipts == [comic : Comics, of : {"mint"} \cup SyncRequests]

ASSUME WalletSyncAssumption ==
    /\ {NumComics, MaxMoves} \subseteq Nat /\ PageLimit \in Nat \ {0}
    /\ NoPurse \notin Purses /\ NoReceipt \notin Receipts
    /\ NoRow \notin [owner : Purses, receipt : Receipts \cup {NoReceipt}]

VARIABLES
    holder,     \* on chain: the wallet of each asset
    standing,   \* what an asset is: see Standings
    verified,   \* on chain: legacy assets with our creator and authority set
    couponed,   \* the machine has a coupon for the public, priced in SOL
    row,        \* rows DigitalAsset and CollectibleComic: [owner, receipt], or NoRow
    receipts,   \* rows CandyMachineReceipt: [comic, of]
    untold,     \* mints whose webhook is still to come
    moves,      \* the transfers so far
    sjob,       \* what each sync does, where it is, and what it read
    crossed     \* history: two handlers ran at once, or a webhook came after a sync

syncVars == <<holder, standing, verified, couponed, row, receipts, untold, moves, sjob,
              crossed>>

\* Of a collection of ours by either standard, or none of ours
Standings == {"core", "legacy", "other"}

SyncKinds == {"wallet", "core collection", "legacy collection"}

\* alone: nothing else happened since it began; missed: an asset was given up
Resting == [stage |-> "idle", kind |-> "wallet", purse |-> NoPurse, complete |-> {},
            page |-> 0, assets |-> {}, owners |-> NoPurse, todo |-> {}, item |-> 0,
            found |-> FALSE, alone |-> TRUE, missed |-> FALSE]

SyncStages == {"idle", "page", "next", "look", "index", "receipt", "moved", "done"}

SyncTypeOK ==
    /\ holder \in [Comics -> Purses] /\ standing \in [Comics -> Standings]
    /\ verified \subseteq Comics /\ couponed \in BOOLEAN /\ crossed \in BOOLEAN
    /\ \A c \in Comics : row[c] # NoRow => /\ row[c].owner \in Purses
                                           /\ row[c].receipt \in receipts \cup {NoReceipt}
    /\ receipts \subseteq Receipts /\ untold \subseteq Comics /\ moves \in 0..MaxMoves
    /\ \A r \in SyncRequests : /\ sjob[r].stage \in SyncStages /\ sjob[r].kind \in SyncKinds
                               /\ sjob[r].todo \subseteq sjob[r].assets
                               /\ sjob[r].assets \subseteq Comics

\* An asset the webhook of the mint told has a row and its receipt; a mint that was not
\* told has the receipt written when it was sent, or none, sent by someone else.
SyncInit ==
    /\ holder \in [Comics -> Purses] /\ standing \in [Comics -> Standings]
    /\ couponed \in BOOLEAN
    /\ \E told \in SUBSET {c \in Comics : standing[c] # "other"}, sent \in SUBSET Comics :
         /\ told \subseteq sent
         /\ sent \subseteq {c \in Comics : standing[c] # "other"}
         /\ receipts = {[comic |-> c, of |-> "mint"] : c \in sent}
         /\ row = [c \in Comics |->
                     IF c \in told
                     THEN [owner |-> holder[c], receipt |-> [comic |-> c, of |-> "mint"]]
                     ELSE NoRow]
         /\ untold = {c \in sent \ told : standing[c] = "core"}
         /\ verified = {c \in told : standing[c] = "legacy"}
    /\ moves = 0 /\ sjob = [r \in SyncRequests |-> Resting] /\ crossed = FALSE

Under(r) == sjob[r].stage \notin {"idle", "done"}

\* What happens outside a sync disturbs every sync.
Outside == sjob' = [r \in SyncRequests |-> [sjob[r] EXCEPT !.alone = FALSE]]

Go(r, job) == sjob' = [sjob EXCEPT ![r] = job]
GoTo(r, stage) == Go(r, [sjob[r] EXCEPT !.stage = stage])

-----------------------------------------------------------------------------
(* The chain and the webhooks                                              *)

Heard(c, w, told) == IF told /\ row[c] # NoRow THEN [row[c] EXCEPT !.owner = w] ELSE row[c]

\* A webhook tells the transfer, or is lost.
Transfer(c, w, told) ==
    /\ moves < MaxMoves /\ w # holder[c]
    /\ moves' = moves + 1
    /\ holder' = [holder EXCEPT ![c] = w]
    /\ row' = [row EXCEPT ![c] = Heard(c, w, told)]
    /\ Outside
    /\ UNCHANGED <<standing, verified, couponed, receipts, untold, crossed>>

\* The receipt of the transaction takes the asset, whatever receipt it had.
TellMint(c) ==
    LET receipt == [comic |-> c, of |-> "mint"] IN
    /\ c \in untold
    /\ untold' = untold \ {c}
    /\ row' = [row EXCEPT ![c] =
                 IF row[c] = NoRow THEN [owner |-> holder[c], receipt |-> receipt]
                 ELSE [row[c] EXCEPT !.receipt = receipt]]
    /\ crossed' = (crossed \/ \E r \in SyncRequests : sjob[r].stage # "idle")
    /\ Outside
    /\ UNCHANGED <<holder, standing, verified, couponed, receipts, moves>>

-----------------------------------------------------------------------------
(* Pages                                                                   *)

\* What a sync lists: the assets of its wallet, or of its collection.
Listed(kind, w) ==
    {c \in Comics : CASE kind = "wallet" -> holder[c] = w
                      [] kind = "core collection" -> standing[c] = "core"
                      [] kind = "legacy collection" -> standing[c] = "legacy"}

\* A mutant of PageOf: pages counted from zero, the first of them skipped.
PageOfSkipping(listed, page) ==
    {c \in listed : Cardinality({d \in listed : d < c}) \div PageLimit = page}

\* Pages are counted from one, and cut anew for every page that is read.
PageOf(listed, page) ==
    {c \in listed : Cardinality({d \in listed : d < c}) \div PageLimit = page - 1}

\* The rows to compare with are read once, before the first page.
Complete(kind, w) ==
    {c \in Comics : row[c] # NoRow /\ (kind = "wallet" => row[c].owner = w)}

syncWallet(r, kind, w) ==
    /\ sjob[r].stage = "idle"
    /\ (kind = "wallet") = (w \in Purses)
    /\ sjob' = [q \in SyncRequests |->
                  IF q = r
                  THEN [Resting EXCEPT !.stage = "page", !.kind = kind, !.purse = w,
                            !.complete = Complete(kind, w), !.page = 1,
                            !.alone = \A p \in SyncRequests : ~Under(p)]
                  ELSE [sjob[q] EXCEPT !.alone = FALSE]]
    /\ crossed' = (crossed \/ \E q \in SyncRequests : Under(q))
    /\ UNCHANGED <<holder, standing, verified, couponed, row, receipts, untold, moves>>

\* doesWalletIndexCorrectly: it had a row, and is verified and delegated.
IndexedCorrectly(job, c) == c \in job.complete /\ c \in verified

\* A legacy asset is left out once its row was there and its creator is verified; the
\* command for a core collection leaves out those whose row agrees.
Unsynced(job, page) ==
    {c \in page :
        \/ standing[c] = "legacy" /\ ~IndexedCorrectly(job, c)
        \/ standing[c] = "core"
           /\ (job.kind = "core collection" =>
                 ~(c \in job.complete /\ row[c] # NoRow /\ row[c].owner = holder[c]))}

getAssets(r) ==
    LET job == sjob[r]
        page == PageOf(Listed(job.kind, job.purse), job.page)
    IN  /\ job.stage = "page"
        /\ Go(r, [job EXCEPT !.assets = page, !.owners = holder, !.todo = Unsynced(job, page),
                      !.page = @ + 1, !.stage = IF page = {} THEN "moved" ELSE "next"])
        /\ UNCHANGED <<holder, standing, verified, couponed, row, receipts, untold, moves,
                       crossed>>

-----------------------------------------------------------------------------
(* One asset                                                               *)

\* A mutant of HasReceipt: the receipts of mints are left out.
HasReceiptUnknown(c) ==
    row[c] # NoRow /\ row[c].receipt # NoReceipt /\ row[c].receipt.of # "mint"

HasReceipt(c) == row[c] # NoRow /\ row[c].receipt # NoReceipt

\* The legacy assets of a page come before its core ones.
Legacy(todo) == {c \in todo : standing[c] = "legacy"}

\* A row is made, or takes the owner the page told; receipts stay.
Indexed(job, c) ==
    [row EXCEPT ![c] = IF @ = NoRow THEN [owner |-> job.owners[c], receipt |-> NoReceipt]
                       ELSE [@ EXCEPT !.owner = job.owners[c]]]

\* An error ends the list the asset was in: the legacy ones of the page, or the core
\* ones.  In the command it is that of all.
GiveUp(r, c) ==
    Go(r, IF sjob[r].kind = "core collection"
          THEN [sjob[r] EXCEPT !.stage = "done", !.todo = {}, !.missed = TRUE]
          ELSE [sjob[r] EXCEPT !.stage = "next", !.item = c, !.missed = TRUE,
                    !.todo = {d \in @ : standing[d] # standing[c]}])

endPage(r) ==
    /\ sjob[r].stage = "next" /\ sjob[r].todo = {}
    /\ GoTo(r, "page")
    /\ UNCHANGED <<holder, standing, verified, couponed, row, receipts, untold, moves,
                   crossed>>

\* syncLegacyAssets: delegated and verified, or not if that fails; indexed; then its
\* receipt is looked up.
indexLegacy(r) ==
    /\ sjob[r].stage = "next"
    /\ \E c \in Legacy(sjob[r].todo) :
         \/ /\ row' = Indexed(sjob[r], c) /\ verified' \in {verified, verified \cup {c}}
            /\ Go(r, [sjob[r] EXCEPT !.item = c, !.todo = @ \ {c}, !.stage = "look"])
         \/ GiveUp(r, c) /\ UNCHANGED <<row, verified>>
    /\ UNCHANGED <<holder, standing, couponed, receipts, untold, moves, crossed>>

findLegacyReceipt(r) ==
    /\ sjob[r].stage = "look"
    /\ GoTo(r, IF HasReceipt(sjob[r].item) THEN "next" ELSE "receipt")
    /\ UNCHANGED <<holder, standing, verified, couponed, row, receipts, untold, moves,
                   crossed>>

\* syncCoreAssets and indexCoreAsset of the command: the receipt is looked up first.
findCoreReceipt(r) ==
    /\ sjob[r].stage = "next" /\ Legacy(sjob[r].todo) = {}
    /\ \E c \in sjob[r].todo :
         Go(r, [sjob[r] EXCEPT !.item = c, !.todo = @ \ {c}, !.found = HasReceipt(c),
                    !.stage = "index"])
    /\ UNCHANGED <<holder, standing, verified, couponed, row, receipts, untold, moves,
                   crossed>>

indexCore(r) ==
    LET job == sjob[r] IN
    /\ job.stage = "index"
    /\ \/ row' = Indexed(job, job.item) /\ GoTo(r, IF job.found THEN "next" ELSE "receipt")
       \/ GiveUp(r, job.item) /\ UNCHANGED row
    /\ UNCHANGED <<holder, standing, verified, couponed, receipts, untold, moves, crossed>>

\* Without a coupon to charge it to there is no receipt: the id of undefined throws,
\* which only the command catches.
createReceipt(r) ==
    LET job == sjob[r]
        receipt == [comic |-> job.item, of |-> r]
    IN  /\ job.stage = "receipt"
        /\ IF couponed
           THEN /\ receipts' = receipts \cup {receipt}
                /\ row' = [row EXCEPT ![job.item].receipt = receipt]
                /\ GoTo(r, "next")
           ELSE /\ IF job.kind = "core collection" THEN GoTo(r, "next") ELSE GiveUp(r, job.item)
                /\ UNCHANGED <<row, receipts>>
        /\ UNCHANGED <<holder, standing, verified, couponed, untold, moves, crossed>>

\* The rows of the wallet that the last page still lists: it is empty, or it would not
\* have been the last.
NftsWithNewOwner(r) == sjob[r].complete \cap sjob[r].assets

updateNewOwners(r) ==
    /\ sjob[r].stage = "moved"
    /\ row' = [c \in Comics |-> IF sjob[r].kind = "wallet" /\ c \in NftsWithNewOwner(r)
                                THEN [row[c] EXCEPT !.owner = holder[c]] ELSE row[c]]
    /\ Go(r, [sjob[r] EXCEPT !.stage = "done", !.complete = {}, !.assets = {}, !.item = 0,
                  !.owners = NoPurse, !.found = FALSE, !.page = 0])
    /\ UNCHANGED <<holder, standing, verified, couponed, receipts, untold, moves, crossed>>

-----------------------------------------------------------------------------
SyncStep(r) ==
    \/ \E kind \in SyncKinds, w \in Purses \cup {NoPurse} : syncWallet(r, kind, w)
    \/ getAssets(r) \/ endPage(r) \/ indexLegacy(r) \/ findLegacyReceipt(r)
    \/ findCoreReceipt(r) \/ indexCore(r) \/ createReceipt(r) \/ updateNewOwners(r)

SyncNext ==
    \/ \E c \in Comics, w \in Purses, told \in BOOLEAN : Transfer(c, w, told)
    \/ \E c \in Comics : TellMint(c)
    \/ \E r \in SyncRequests : SyncStep(r)

SyncSpec == SyncInit /\ [][SyncNext]_syncVars

-----------------------------------------------------------------------------
\* A sync of a wallet that nothing disturbs and that gives up no asset leaves a row
\* with its owner and a receipt for every asset of ours the wallet holds, however
\* many pages they take.  (Until the next change: it is stated of one that has
\* ended and is still alone.)
HoldingsSynced ==
    \A r \in SyncRequests :
        LET job == sjob[r] IN
        job.stage = "done" /\ job.kind = "wallet" /\ job.alone /\ ~job.missed =>
            \A c \in Comics : holder[c] = job.purse /\ standing[c] # "other" =>
                /\ row[c] # NoRow /\ row[c].owner = job.purse
                /\ couponed => row[c].receipt # NoReceipt

\* An asset keeps the receipt it has, whoever syncs and however often, unless two
\* syncs ran at once or its webhook came after a sync: a sale is not counted twice.
ReceiptsKept ==
    [][~crossed' => \A c \in Comics :
           row[c] # NoRow => row[c].receipt \in {NoReceipt, row'[c].receipt}]_syncVars

\* What the last loop of syncWallet is said to do: after a sync that nothing disturbs,
\* no row says that the wallet holds an asset it no longer holds.
NewOwnersSynced ==
    \A r \in SyncRequests :
        LET job == sjob[r] IN
        job.stage = "done" /\ job.kind = "wallet" /\ job.alone =>
            \A c \in Comics : row[c] # NoRow /\ row[c].owner = job.purse => holder[c] = job.purse
=============================================================================
