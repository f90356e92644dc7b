------------------------------ MODULE Editions ------------------------------
(***************************************************************************)
(* Works that are not comics of a machine: collections and single works a  *)
(* creator puts on chain, registers with an address and sells as prints;   *)
(* and the autographs that owners of comics ask for.                       *)
(*                                                                         *)
(* Nothing is stored when a transaction is built: it lands, or not, and    *)
(* the rows follow by a registration or a webhook.  A registration reads   *)
(* the chain in one step and writes in another.                            *)
(***************************************************************************)
EXTENDS Integers, FiniteSets

CONSTANTS
    EditionRequests,    \* bound: the requests of a behaviour
    Prints,             \* addresses of prints
    Buyers,             \* wallets
    MaxSupply,          \* prints of the collection
    MaxNow,             \* bound of the clock
    Cooldown,           \* 24 hours
    MaxTold,            \* bound: happened on chain that webhooks tell
    NoWork, NoSale, NoRequest

\* A folder of single works, a single work in it, a collection of prints
Registered == {"folder", "single", "collection"}
Works == Registered \cup Prints

WorkState == [owner : Buyers, number : 0..MaxSupply]
Terms == [starts : 0..MaxNow, ends : 0..MaxNow]

ASSUME EditionsAssumption ==
    /\ {MaxSupply, MaxNow, Cooldown, MaxTold} \subseteq Nat /\ Cooldown > 0
    /\ IsFiniteSet(Prints) /\ Prints \cap Registered = {}
    /\ NoWork \notin WorkState /\ NoSale \notin Terms \cup [terms : Terms, minted : Nat]

VARIABLES
    now,        \* the hours, or days, passed
    work,       \* on chain: [owner, number] of each work, or NoWork
    workRow,    \* rows DigitalAsset and the like: the same, or NoWork
    vetted,     \* verifiedAt of the collection, which no code writes
    sale,       \* on chain: [starts, ends] of the prints' sale, or NoSale
    saleRow,    \* row PrintEditionSaleConfig: the same and [minted], or NoSale
    told,       \* the webhooks on their way: [id, kind, work, value]
    happened,    \* history: what has happened on chain that is told
    ejob,       \* requests: what each does, where it is, what it read
    signature,  \* row SignatureRequest of a comic: createdAt, or NoRequest
    adrift      \* history: something the code does not order; see EditionsAgree

editionVars == <<now, work, workRow, vetted, sale, saleRow, told, happened, ejob, signature,
                 adrift>>

ToldKinds == {"init", "buy", "transfer"}

Still == [stage |-> "idle", what |-> "none", wallet |-> NoWork, read |-> NoWork]

EditionStages == {"idle", "fetch", "create", "sign", "upsert", "message", "done"}

EditionsTypeOK ==
    /\ now \in 0..MaxNow /\ happened \in 0..MaxTold /\ {vetted, adrift} \subseteq BOOLEAN
    /\ \A w \in Works : work[w] \in WorkState \cup {NoWork} /\ workRow[w] \in WorkState \cup {NoWork}
    /\ sale \in Terms \cup {NoSale}
    /\ saleRow = NoSale \/ (saleRow.terms \in Terms /\ saleRow.minted \in 0..MaxSupply)
    /\ \A e \in told : e.id \in 1..happened /\ e.kind \in ToldKinds
    /\ \A r \in EditionRequests : ejob[r].stage \in EditionStages
    /\ signature \in 0..MaxNow \cup {NoRequest}

EditionsInit ==
    /\ now = 0 /\ happened = 0 /\ told = {}
    /\ work = [w \in Works |-> NoWork] /\ workRow = work
    /\ vetted = FALSE /\ sale = NoSale /\ saleRow = NoSale
    /\ ejob = [r \in EditionRequests |-> Still]
    /\ signature = NoRequest /\ adrift = FALSE

Doing(r, what, stage) == ejob[r].what = what /\ ejob[r].stage = stage
Become(r, job) == ejob' = [ejob EXCEPT ![r] = job]
Leave(r) == Become(r, [Still EXCEPT !.stage = "done"])
BeginRequest(r, what, stage, wallet) ==
    /\ ejob[r].stage = "idle"
    /\ Become(r, [Still EXCEPT !.what = what, !.stage = stage, !.wallet = wallet])

tick == now < MaxNow /\ now' = now + 1
        /\ UNCHANGED <<work, workRow, vetted, sale, saleRow, told, happened, ejob, signature, adrift>>

-----------------------------------------------------------------------------
(* Works on chain, and their registration                                  *)

PutOnChain(w, wallet) ==
    /\ work[w] = NoWork
    /\ work' = [work EXCEPT ![w] = [owner |-> wallet, number |-> 0]]
    /\ UNCHANGED <<now, workRow, vetted, sale, saleRow, told, happened, ejob, signature, adrift>>

createOneOfOneCollectionTransaction(wallet) == PutOnChain("folder", wallet)

\* Of the folder only its authority may make a single work part.
createOneOfOneTransaction(wallet) ==
    /\ work["folder"] # NoWork /\ work["folder"].owner = wallet
    /\ PutOnChain("single", wallet)

createPrintEditionCollectionTransaction(wallet) == PutOnChain("collection", wallet)

\* Anybody may register an address, once.
register(r, w) ==
    /\ BeginRequest(r, w, "fetch", NoWork)
    /\ workRow[w] = NoWork
    /\ UNCHANGED <<now, work, workRow, vetted, sale, saleRow, told, happened, signature, adrift>>

\* What is not on chain cannot be fetched.  The image is stored before the row.
fetchWork(r, w) ==
    /\ Doing(r, w, "fetch")
    /\ IF work[w] = NoWork THEN Leave(r)
       ELSE Become(r, [ejob[r] EXCEPT !.stage = "create", !.read = work[w]])
    /\ UNCHANGED <<now, work, workRow, vetted, sale, saleRow, told, happened, signature, adrift>>

\* The address is subscribed to, then the row written; an error is swallowed: the row
\* is there by now, or that of the folder is not.
CreateRow(r, w, linked) ==
    /\ Doing(r, w, "create")
    /\ Leave(r)
    /\ workRow' = IF linked /\ workRow[w] = NoWork
                  THEN [workRow EXCEPT ![w] = ejob[r].read] ELSE workRow
    /\ UNCHANGED <<now, work, vetted, sale, saleRow, told, happened, signature, adrift>>

createOneOfOneCollection(r) == CreateRow(r, "folder", TRUE)
createOneOfOne(r) == CreateRow(r, "single", workRow["folder"] # NoWork)
createPrintEditionCollection(r) == CreateRow(r, "collection", TRUE)

-----------------------------------------------------------------------------
(* Prints                                                                  *)

\* Someone verifies the collection, outside of the program.
vet ==
    /\ workRow["collection"] # NoWork /\ ~vetted
    /\ vetted' = TRUE
    /\ UNCHANGED <<now, work, workRow, sale, saleRow, told, happened, ejob, signature, adrift>>

Tell(kind, w, value) ==
    /\ happened < MaxTold /\ happened' = happened + 1
    /\ told' = told \cup {[id |-> happened + 1, kind |-> kind, work |-> w, value |-> value]}

\* The dates are in order, the collection is registered and verified.
initializePrintEditionSale(terms) ==
    /\ terms.starts <= terms.ends
    /\ workRow["collection"] # NoWork /\ vetted
    /\ sale = NoSale /\ sale' = terms
    /\ Tell("init", "collection", terms)
    /\ UNCHANGED <<now, work, workRow, vetted, saleRow, ejob, signature, adrift>>

\* assertPrintEditionSaleConfig.  Nothing counts what is minted.
Purchasable ==
    /\ saleRow # NoSale
    /\ saleRow.terms.starts <= now /\ now < saleRow.terms.ends
    /\ saleRow.minted # MaxSupply

buyPrintEdition(r, wallet) ==
    /\ Purchasable
    /\ BeginRequest(r, "buy", "sign", wallet)
    /\ UNCHANGED <<now, work, workRow, vetted, sale, saleRow, told, happened, signature, adrift>>

Printed == {p \in Prints : work[p] # NoWork}

\* On chain the sale is open or the transaction is refused; or it is never signed.
LandPurchase(r, p) ==
    /\ Doing(r, "buy", "sign")
    /\ work[p] = NoWork
    /\ IF sale.starts <= now /\ now < sale.ends /\ Cardinality(Printed) < MaxSupply
       THEN /\ work' = [work EXCEPT ![p] = [owner |-> ejob[r].wallet,
                                            number |-> Cardinality(Printed) + 1]]
            /\ Tell("buy", p, ejob[r].wallet)
       ELSE UNCHANGED <<work, told, happened>>
    /\ Leave(r)
    /\ UNCHANGED <<now, workRow, vetted, sale, saleRow, signature, adrift>>

AbandonPurchase(r) ==
    /\ Doing(r, "buy", "sign")
    /\ Leave(r)
    /\ UNCHANGED <<now, work, workRow, vetted, sale, saleRow, told, happened, signature, adrift>>

\* Single works and prints change hands; a print is told of as part of its collection.
GiveWork(w, wallet) ==
    /\ w \in Prints \cup {"single"} /\ work[w] # NoWork /\ work[w].owner # wallet
    /\ work' = [work EXCEPT ![w].owner = wallet]
    /\ Tell("transfer", w, wallet)
    /\ UNCHANGED <<now, workRow, vetted, sale, saleRow, ejob, signature, adrift>>

-----------------------------------------------------------------------------
(* Webhooks                                                                *)

\* The next change of a work must be the next told, or the rows may be left behind.
InOrder(e) == \A d \in told : d.work = e.work => d.id >= e.id

\* A transfer told before the row is there, that whoever makes the row has not seen
ToldTooSoon(e) ==
    /\ e.kind = "transfer" /\ workRow[e.work] = NoWork
    /\ e.work \in Prints \/ \E r \in EditionRequests : Doing(r, e.work, "create")

\* handleBuyEdition creates: for a print that has a row it throws.
BoughtRow(e) ==
    IF workRow[e.work] = NoWork THEN [owner |-> e.value, number |-> work[e.work].number]
    ELSE workRow[e.work]

\* handleAssetTransfer updates: without a row it throws, and is caught.
TransferredRow(e) ==
    IF workRow[e.work] = NoWork THEN NoWork ELSE [workRow[e.work] EXCEPT !.owner = e.value]

\* A mutant of StartedSale: the two dates are swapped.
StartedSaleSwapped(e) ==
    [terms |-> [starts |-> e.value.ends, ends |-> e.value.starts],
     minted |-> IF saleRow = NoSale THEN 0 ELSE saleRow.minted]

\* handleInitEditionSale: a row that is there keeps what it counts.
StartedSale(e) ==
    [terms |-> e.value, minted |-> IF saleRow = NoSale THEN 0 ELSE saleRow.minted]

\* An event may be told again, whether its handler threw or not.
HandleTold(e, again) ==
    /\ e \in told
    /\ workRow' = [workRow EXCEPT ![e.work] =
                     CASE e.kind = "buy" -> BoughtRow(e)
                       [] e.kind = "transfer" -> TransferredRow(e)
                       [] OTHER -> @]
    /\ saleRow' = IF e.kind = "init" THEN StartedSale(e) ELSE saleRow
    /\ told' = IF again THEN told ELSE told \ {e}
    /\ adrift' = (adrift \/ ~InOrder(e) \/ ToldTooSoon(e))
    /\ UNCHANGED <<now, work, vetted, sale, happened, ejob, signature>>

LoseTold(e) ==
    /\ e \in told
    /\ told' = told \ {e} /\ adrift' = TRUE
    /\ UNCHANGED <<now, work, workRow, vetted, sale, saleRow, happened, ejob, signature>>

-----------------------------------------------------------------------------
(* Autographs                                                              *)

\* Asked for less than a day ago
CoolingDown == signature # NoRequest /\ signature + Cooldown > now

requestCollectibleComicSignature(r) ==
    /\ BeginRequest(r, "autograph", "upsert", NoWork)
    /\ ~CoolingDown
    /\ UNCHANGED <<now, work, workRow, vetted, sale, saleRow, told, happened, signature, adrift>>

\* The row takes the date of the last request, of two that looked at once as well.
\* A comic that does not exist has no row to connect to; that is left out.
upsertRequest(r) ==
    /\ Doing(r, "autograph", "upsert")
    /\ signature' = now
    /\ Become(r, [ejob[r] EXCEPT !.stage = "message"])
    /\ UNCHANGED <<now, work, workRow, vetted, sale, saleRow, told, happened, adrift>>

\* requestAutograph: the message to the channel, or the creator has no account there,
\* or the comic is signed: the row stays all the same.
requestAutograph(r) ==
    /\ Doing(r, "autograph", "message")
    /\ Leave(r)
    /\ UNCHANGED <<now, work, workRow, vetted, sale, saleRow, told, happened, signature, adrift>>

-----------------------------------------------------------------------------
EditionStep(r) ==
    \/ \E w \in Registered : register(r, w) \/ fetchWork(r, w)
    \/ createOneOfOneCollection(r) \/ createOneOfOne(r) \/ createPrintEditionCollection(r)
    \/ \E wallet \in Buyers : buyPrintEdition(r, wallet)
    \/ \E p \in Prints : LandPurchase(r, p)
    \/ AbandonPurchase(r)
    \/ requestCollectibleComicSignature(r) \/ upsertRequest(r) \/ requestAutograph(r)

EditionsNext ==
    \/ \E wallet \in Buyers :
         \/ createOneOfOneCollectionTransaction(wallet) \/ createOneOfOneTransaction(wallet)
         \/ createPrintEditionCollectionTransaction(wallet)
         \/ \E w \in Works : GiveWork(w, wallet)
    \/ vet \/ tick
    \/ \E terms \in Terms : initializePrintEditionSale(terms)
    \/ \E e \in told : LoseTold(e) \/ \E again \in BOOLEAN : HandleTold(e, again)
    \/ \E r \in EditionRequests : EditionStep(r)

EditionsSpec == EditionsInit /\ [][EditionsNext]_editionVars

-----------------------------------------------------------------------------
\* When nothing is on its way and nothing went astray, the rows say who owns each work
\* and print, and on which terms prints are sold, whichever webhooks came twice.  What
\* goes astray: a webhook lost, told before an earlier one of the same work or before
\* its row is there.
EditionsAgree ==
    told = {} /\ ~adrift /\ (\A r \in EditionRequests : ejob[r].stage \in {"idle", "done"}) =>
        /\ \A w \in Works : /\ workRow[w] # NoWork => workRow[w] = work[w]
                            /\ w \in Prints => workRow[w] = work[w]
        /\ sale # NoSale => saleRow # NoSale /\ saleRow.terms = sale
=============================================================================
