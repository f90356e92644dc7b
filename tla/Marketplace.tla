---------------------------- MODULE Marketplace ----------------------------
(***************************************************************************)
(* The secondary market of one asset: the transactions that                *)
(* auction-house.service.ts builds from the database, the chain that       *)
(* executes them, and the handlers of helius.service.ts that mirror the    *)
(* chain back into the database (Helius calls a webhook, Tensor writes to  *)
(* a socket).  Rows of other assets are never touched.                     *)
(*                                                                         *)
(* A delivery <<i, k>> is the k-th call about the i-th transaction of the  *)
(* chain.  Calls come in any order, late, twice or never, and their        *)
(* handlers run concurrently: handleWebhookEvent does not even await one   *)
(* transaction of a batch before the next.  An action is the code from one *)
(* await to the next; Fail(d) is an awaited call that throws.              *)
(***************************************************************************)
EXTENDS Integers, Sequences, FiniteSets

CONSTANTS
    Wallets, FirstOwner, Nobody,
    Prices,             \* amounts of listings and bids
    Kinds,              \* the transactions this instance looks at
    MaxLog,             \* bound: transactions built or executed
    MaxDeliveries       \* bound: calls about each of them

AuctionKinds == {"list", "timedList", "bid", "buy", "sale", "reprice",
                 "cancelBid", "cancelListing"}
TensorKinds == {"tensorList", "tensorDelist", "tensorBuy"}
AllKinds == AuctionKinds \cup TensorKinds \cup {"transfer", "burn"}

ASSUME MarketAssumption ==
    /\ FirstOwner \in Wallets /\ Nobody \notin Wallets
    /\ Prices \subseteq Nat \ {0}
    /\ Kinds \subseteq AllKinds
    /\ MaxLog \in Nat /\ MaxDeliveries \in Nat

VARIABLES
    owner, isBurned,    \* the DigitalAsset row
    listings,           \* Listing rows, with highestBidId of the ListingConfig
    bids,               \* Bid rows
    sales,              \* AuctionSale rows
    walletRows,         \* those with a Wallet row, to which the owner's key refers
    pending,            \* transactions built for a client, not executed yet
    log,                \* transactions the chain executed
    chain,              \* the chain's own state of the asset
    todo,               \* instructions each delivery's handler has to handle
    at,                 \* where in the first of them it is
    bidOf, listingOf,   \* rows it read
    states,             \* history: the states the chain went through
    started,            \* history: transactions delivered in the chain's order
    order,              \* history: how deliveries have come so far
    missed              \* history: sales not recorded for want of the buyer's row

rowVars == <<owner, isBurned, listings, bids, sales, walletRows>>
chainVars == <<pending, log, chain, states>>
handlerVars == <<todo, at, bidOf, listingOf>>
historyVars == <<started, order, missed>>
vars == <<rowVars, chainVars, handlerVars, historyVars>>

Amounts == Prices \cup {0}     \* 0: none
Sources == {"auction", "tensor"}
Transaction == [type : AllKinds, who : Wallets, seller : Wallets, price : Amounts]
Listing == [seller : Wallets, price : Amounts, source : Sources, timed : BOOLEAN]
ListingRow == [seller : Wallets, price : Amounts, source : Sources,
               timed : BOOLEAN, highestBid : Nat, open : BOOLEAN]
Bid == [bidder : Wallets, amount : Amounts, open : BOOLEAN]
Sale == [listing : Nat, bid : Nat, price : Amounts]
NoBid == 0
NoListing == [seller |-> Nobody, price |-> 0, source |-> "none", timed |-> FALSE]
Chain == [owner : Wallets, burned : BOOLEAN, listing : Listing \cup {NoListing},
          bids : [Wallets -> Amounts]]

Deliveries == (1..MaxLog) \X (1..MaxDeliveries)
Stages == {"idle", "start", "sale", "match", "outbid", "close", "done"}

TypeOK ==
    /\ walletRows \subseteq Wallets /\ owner \in walletRows /\ isBurned \in BOOLEAN
    /\ listings \in Seq(ListingRow) /\ bids \in Seq(Bid) /\ sales \subseteq Sale
    /\ pending \subseteq Transaction /\ log \in Seq(Transaction)
    /\ chain \in Chain /\ states \in Seq(Chain)
    /\ todo \in [Deliveries -> Seq(Transaction)]
    /\ at \in [Deliveries -> Stages]
    /\ \A d \in Deliveries : at[d] \notin {"idle", "done"} => todo[d] # <<>>
    /\ bidOf \in [Deliveries -> Nat] /\ listingOf \in [Deliveries -> Nat]
    /\ started \in 0..Len(log) /\ order \in {"sequential", "ordered", "any"}
    /\ missed \subseteq 1..MaxLog

Init ==
    /\ owner = FirstOwner /\ isBurned = FALSE
    /\ walletRows \in SUBSET Wallets /\ owner \in walletRows
    /\ listings = <<>> /\ bids = <<>> /\ sales = {}
    /\ pending = {} /\ log = <<>>
    /\ chain = [owner |-> FirstOwner, burned |-> FALSE, listing |-> NoListing,
                bids |-> [w \in Wallets |-> 0]]
    /\ states = <<chain>>
    /\ todo = [d \in Deliveries |-> <<>>]
    /\ at = [d \in Deliveries |-> "idle"]
    /\ bidOf = [d \in Deliveries |-> 0]
    /\ listingOf = [d \in Deliveries |-> 0]
    /\ started = 0 /\ order = "sequential" /\ missed = {}

\* Rows whose closedAt is 0; a unique index lets an asset have one such
\* listing, and one such bid of each bidder.
OpenListings == {i \in DOMAIN listings : listings[i].open}
OpenBids(w) == {b \in DOMAIN bids : bids[b].open /\ bids[b].bidder = w}

-----------------------------------------------------------------------------
(* auction-house.service.ts: transactions built from what the database says *)

Build(type, who, seller, price) ==
    /\ type \in Kinds
    /\ Len(log) + Cardinality(pending) < MaxLog
    /\ pending' = pending \cup {[type |-> type, who |-> who, seller |-> seller,
                                 price |-> price]}
    /\ UNCHANGED <<rowVars, log, chain, states, handlerVars, historyVars>>

list == \E p \in Prices : Build("list", owner, owner, p)
timedAuctionList == Build("timedList", owner, owner, 0)

\* In a timed auction a bid must beat the highest one.
Outbids(p, i) == LET b == listings[i].highestBid IN
    listings[i].timed /\ b # NoBid => p > bids[b].amount

bid == \E i \in OpenListings, w \in Wallets, p \in Prices :
    /\ Outbids(p, i)
    /\ Build("bid", w, listings[i].seller, p)

\* The listing and the bid are found by id and may be closed.
executeSale == \E i \in DOMAIN listings, b \in DOMAIN bids :
    Build("sale", bids[b].bidder, listings[i].seller, 0)

instantBuy == \E i \in OpenListings, w \in Wallets :
    Build(IF listings[i].source = "tensor" THEN "tensorBuy" ELSE "buy",
          w, listings[i].seller, listings[i].price)

cancelBid == \E b \in DOMAIN bids :
    bids[b].open /\ Build("cancelBid", bids[b].bidder, bids[b].bidder, 0)

cancelListing == \E i \in OpenListings :
    Build("cancelListing", listings[i].seller, listings[i].seller, 0)

repriceListing == \E i \in OpenListings, p \in Prices :
    Build("reprice", listings[i].seller, listings[i].seller, p)

BuildTransaction ==
    \/ list \/ timedAuctionList \/ bid \/ executeSale \/ instantBuy
    \/ cancelBid \/ cancelListing \/ repriceListing

-----------------------------------------------------------------------------
(* The chain, external                                                     *)

Listed(c, source) == c.listing.source = source

\* Whether the chain in state c accepts transaction t.
Accepts(c, t) ==
    LET on == c.listing
        byOwner == t.seller = c.owner /\ ~c.burned
        bySeller == t.seller = on.seller
    IN CASE t.type \in {"list", "timedList", "burn"} -> byOwner /\ Listed(c, "none")
         [] t.type = "tensorList" -> byOwner /\ ~Listed(c, "auction")
         [] t.type = "transfer" -> byOwner /\ t.who # c.owner
         [] t.type \in {"reprice", "cancelListing"} -> bySeller /\ Listed(c, "auction")
         [] t.type = "tensorDelist" -> bySeller /\ Listed(c, "tensor")
         [] t.type = "bid" ->
              Listed(c, "auction") /\ t.who # on.seller /\ c.bids[t.who] = 0
         [] t.type = "cancelBid" -> c.bids[t.who] > 0
         [] t.type = "sale" ->
              bySeller /\ Listed(c, "auction") /\ c.bids[t.who] > 0
         [] t.type = "buy" ->
              /\ bySeller /\ Listed(c, "auction") /\ ~on.timed
              /\ t.who # on.seller /\ c.bids[t.who] = 0 /\ t.price = on.price
         [] OTHER ->
              bySeller /\ Listed(c, "tensor") /\ t.who # on.seller /\ t.price = on.price

\* What it does then.  A transfer leaves no listing that can be executed.
Effect(c, t) ==
    LET offer(source) == [seller |-> t.seller, price |-> t.price, source |-> source,
                          timed |-> t.type = "timedList"]
    IN CASE t.type \in {"list", "timedList"} ->
              [c EXCEPT !.listing = offer("auction")]
         [] t.type = "tensorList" -> [c EXCEPT !.listing = offer("tensor")]
         [] t.type = "reprice" -> [c EXCEPT !.listing.price = t.price]
         [] t.type \in {"cancelListing", "tensorDelist"} ->
              [c EXCEPT !.listing = NoListing]
         [] t.type = "bid" -> [c EXCEPT !.bids[t.who] = t.price]
         [] t.type = "cancelBid" -> [c EXCEPT !.bids[t.who] = 0]
         [] t.type = "burn" -> [c EXCEPT !.burned = TRUE]
         [] OTHER -> [c EXCEPT !.owner = t.who, !.listing = NoListing,
                               !.bids[t.who] = IF t.type = "sale" THEN 0 ELSE @]

Execute(t) ==
    /\ Accepts(chain, t)
    /\ chain' = Effect(chain, t)
    /\ log' = Append(log, t) /\ states' = Append(states, chain')
    /\ UNCHANGED <<rowVars, handlerVars, historyVars>>

\* A client signs what it was given.
ExecuteBuilt == \E t \in pending : Execute(t) /\ pending' = pending \ {t}

\* Transfers, burns and Tensor's listings are made without this program.
Foreign == {[type |-> "transfer", who |-> w, seller |-> chain.owner,
             price |-> 0] : w \in Wallets}
    \cup {[type |-> "tensorList", who |-> chain.owner, seller |-> chain.owner,
           price |-> p] : p \in Prices}
    \cup {[type |-> type, who |-> chain.owner, seller |-> chain.owner,
           price |-> 0] : type \in {"tensorDelist", "burn"}}

ExecuteForeign ==
    /\ Len(log) + Cardinality(pending) < MaxLog
    /\ \E t \in Foreign : t.type \in Kinds /\ Execute(t)
    /\ UNCHANGED pending

-----------------------------------------------------------------------------
(* helius.service.ts: one call about a transaction                          *)

Running(d) == at[d] \notin {"idle", "done"}
Quiet == \A d \in Deliveries : ~Running(d)

\* Variant with a bug: only the last instruction is handled.
InstructionsLast(t) ==
    CASE t.type = "buy" -> {<<[t EXCEPT !.type = "sale"]>>}
      [] t.type = "tensorBuy" -> {<<t>>, <<[t EXCEPT !.type = "transfer"]>>}
      [] OTHER -> {<<t>>}

\* The instructions a call about t brings.  An instant buy is a bid and a
\* sale; the webhook knows a purchase on Tensor by its inner transfer only.
Instructions(t) ==
    CASE t.type = "buy" -> {<<[t EXCEPT !.type = "bid"], [t EXCEPT !.type = "sale"]>>}
      [] t.type = "tensorBuy" -> {<<t>>, <<[t EXCEPT !.type = "transfer"]>>}
      [] OTHER -> {<<t>>}

\* A second call about an instant buy finds the buyer's bid sold, creates it
\* again and throws for want of a listing: the row stays open.
Repeatable(t) == t.type # "buy"

\* Calls stay sequential while each comes in the chain's order, or again if it
\* may be repeated, and after the one before it was handled.
Deliver(d) ==
    /\ d[1] \in DOMAIN log /\ at[d] = "idle"
    /\ d[2] > 1 => at[<<d[1], d[2] - 1>>] # "idle"
    /\ \E is \in Instructions(log[d[1]]) : todo' = [todo EXCEPT ![d] = is]
    /\ at' = [at EXCEPT ![d] = "start"]
    /\ started' = IF d[1] = started + 1 THEN d[1] ELSE started
    /\ order' = IF /\ Quiet
                   /\ \/ d[1] = started + 1
                      \/ d[1] = started /\ Repeatable(log[started])
                THEN order
                ELSE IF d[1] = started + 1 /\ order # "any" THEN "ordered"
                ELSE "any"
    /\ UNCHANGED <<rowVars, chainVars, bidOf, listingOf, missed>>

Handles(d, type) == at[d] = "start" /\ todo[d][1].type = type
Goto(d, stage) == at' = [at EXCEPT ![d] = stage] /\ UNCHANGED todo

\* The instruction is handled: on to the next one.
Handled(d) ==
    /\ todo' = [todo EXCEPT ![d] = Tail(@)]
    /\ at' = [at EXCEPT ![d] = IF Tail(todo[d]) = <<>> THEN "done" ELSE "start"]

\* A throw ends the handling of the whole transaction.
Throw(d) ==
    /\ todo' = [todo EXCEPT ![d] = <<>>]
    /\ at' = [at EXCEPT ![d] = "done"]

Close(i) == [listings EXCEPT ![i].open = FALSE]

NewListing(seller, price, source, timed) ==
    [seller |-> seller, price |-> price, source |-> source, timed |-> timed,
     highestBid |-> NoBid, open |-> TRUE]

\* handleAssetListing, handleAssetTimedListing
HandleAssetListing(d) ==
    LET t == todo[d][1] IN
    /\ Handles(d, "list") \/ Handles(d, "timedList")
    /\ \/ /\ OpenListings = {}
          /\ listings' = Append(listings, NewListing(t.who, t.price, "auction",
                                                     t.type = "timedList"))
          /\ Handled(d)
       \/ OpenListings # {} /\ Throw(d) /\ UNCHANGED listings
    /\ UNCHANGED <<owner, isBurned, bids, sales, walletRows, chainVars, bidOf, listingOf,
                   historyVars>>

\* handleAssetBid, up to the bid's row
HandleAssetBid(d) ==
    LET t == todo[d][1] IN
    /\ Handles(d, "bid")
    /\ \/ /\ OpenBids(t.who) = {}
          /\ bids' = Append(bids, [bidder |-> t.who, amount |-> t.price, open |-> TRUE])
          /\ bidOf' = [bidOf EXCEPT ![d] = Len(bids) + 1]
          /\ Goto(d, "match")
       \/ OpenBids(t.who) # {} /\ Throw(d) /\ UNCHANGED <<bids, bidOf>>
    /\ UNCHANGED <<owner, isBurned, listings, sales, walletRows, chainVars, listingOf,
                   historyVars>>

Highest(i, b) == LET h == listings[i].highestBid IN
    h = NoBid \/ bids[h].amount < bids[b].amount

\* The open listing and its highest bid are read; without one it throws.
MatchListing(d) ==
    /\ at[d] = "match"
    /\ \/ OpenListings = {} /\ Throw(d) /\ UNCHANGED listingOf
       \/ \E i \in OpenListings :
            IF listings[i].timed /\ Highest(i, bidOf[d])
            THEN Goto(d, "outbid") /\ listingOf' = [listingOf EXCEPT ![d] = i]
            ELSE Handled(d) /\ UNCHANGED listingOf
    /\ UNCHANGED <<rowVars, chainVars, bidOf, historyVars>>

UpdateHighestBid(d) ==
    /\ at[d] = "outbid"
    /\ listings' = [listings EXCEPT ![listingOf[d]].highestBid = bidOf[d]]
    /\ Handled(d)
    /\ UNCHANGED <<owner, isBurned, bids, sales, walletRows, chainVars, bidOf, listingOf,
                   historyVars>>

\* handleAssetSale, up to the buyer's bid: without one it throws.
HandleAssetSale(d) ==
    LET w == todo[d][1].who IN
    /\ Handles(d, "sale")
    /\ \/ OpenBids(w) = {} /\ Throw(d) /\ UNCHANGED bidOf
       \/ \E b \in OpenBids(w) : /\ bidOf' = [bidOf EXCEPT ![d] = b]
                                 /\ Goto(d, "sale")
    /\ UNCHANGED <<rowVars, chainVars, listingOf, historyVars>>

\* The transaction of a sale rolls back and throws.  The owner is not connected
\* or created: its key refuses a buyer without a Wallet row.
SaleFails(d, possible) ==
    /\ ~possible \/ todo[d][1].who \notin walletRows
    /\ Throw(d)
    /\ missed' = IF possible THEN missed \cup {d[1]} ELSE missed
    /\ UNCHANGED <<sales, listings, bids, owner>>

\* It commits: the sale is connected to listing i and bid b.
SaleOf(d, i, b) ==
    /\ todo[d][1].who \in walletRows
    /\ sales' = sales \cup {[listing |-> i, bid |-> b, price |-> bids[bidOf[d]].amount]}
    /\ listings' = Close(i)
    /\ Handled(d)
    /\ missed' = missed \ {d[1]}

\* Variant with a bug: the bid is not part of the transaction.
CreateSaleKeepBid(d) ==
    LET w == todo[d][1].who IN
    /\ at[d] = "sale"
    /\ \/ /\ \E i \in OpenListings, b \in OpenBids(w) : SaleOf(d, i, b)
          /\ owner' = w
          /\ UNCHANGED bids
       \/ SaleFails(d, OpenListings # {} /\ OpenBids(w) # {})
    /\ UNCHANGED <<isBurned, walletRows, chainVars, bidOf, listingOf, started, order>>

\* Variant with a bug: any open bid is sold to.
CreateSaleAnyBid(d) ==
    LET w == todo[d][1].who
        Open == {b \in DOMAIN bids : bids[b].open} IN
    /\ at[d] = "sale"
    /\ \/ /\ \E i \in OpenListings, b \in Open :
               SaleOf(d, i, b) /\ bids' = [bids EXCEPT ![b].open = FALSE]
          /\ owner' = w
       \/ SaleFails(d, OpenListings # {} /\ Open # {})
    /\ UNCHANGED <<isBurned, walletRows, chainVars, bidOf, listingOf, started, order>>

\* Variant with a bug: the owner is not part of the transaction.
CreateSaleKeepOwner(d) ==
    LET w == todo[d][1].who IN
    /\ at[d] = "sale"
    /\ \/ /\ \E i \in OpenListings, b \in OpenBids(w) :
               SaleOf(d, i, b) /\ bids' = [bids EXCEPT ![b].open = FALSE]
          /\ UNCHANGED owner
       \/ SaleFails(d, OpenListings # {} /\ OpenBids(w) # {})
    /\ UNCHANGED <<isBurned, walletRows, chainVars, bidOf, listingOf, started, order>>

\* The transaction: whatever listing and bid of the buyer are open by now are
\* sold and closed, and the buyer is the owner.
CreateSale(d) ==
    LET w == todo[d][1].who IN
    /\ at[d] = "sale"
    /\ \/ /\ \E i \in OpenListings, b \in OpenBids(w) :
               SaleOf(d, i, b) /\ bids' = [bids EXCEPT ![b].open = FALSE]
          /\ owner' = w
       \/ SaleFails(d, OpenListings # {} /\ OpenBids(w) # {})
    /\ UNCHANGED <<isBurned, walletRows, chainVars, bidOf, listingOf, started, order>>

HandleCancelBid(d) ==
    LET w == todo[d][1].who IN
    /\ Handles(d, "cancelBid")
    /\ \/ /\ \E b \in OpenBids(w) : bids' = [bids EXCEPT ![b].open = FALSE]
          /\ Handled(d)
       \/ OpenBids(w) = {} /\ Throw(d) /\ UNCHANGED bids
    /\ UNCHANGED <<owner, isBurned, listings, sales, walletRows, chainVars, bidOf, listingOf,
                   historyVars>>

\* handleCancelListing, handleCancelTensorListing
HandleCancelListing(d) ==
    /\ Handles(d, "cancelListing") \/ Handles(d, "tensorDelist")
    /\ \/ (\E i \in OpenListings : listings' = Close(i)) /\ Handled(d)
       \/ OpenListings = {} /\ Throw(d) /\ UNCHANGED listings
    /\ UNCHANGED <<owner, isBurned, bids, sales, walletRows, chainVars, bidOf, listingOf,
                   historyVars>>

\* Variant with a bug: the latest listing, open or not.
HandleListingRepriceLatest(d) ==
    /\ Handles(d, "reprice")
    /\ \/ /\ listings # <<>>
          /\ listings' = [listings EXCEPT ![Len(listings)].price = todo[d][1].price]
          /\ Handled(d)
       \/ listings = <<>> /\ Throw(d) /\ UNCHANGED listings
    /\ UNCHANGED <<owner, isBurned, bids, sales, walletRows, chainVars, bidOf, listingOf,
                   historyVars>>

HandleListingReprice(d) ==
    /\ Handles(d, "reprice")
    /\ \/ /\ \E i \in OpenListings :
               listings' = [listings EXCEPT ![i].price = todo[d][1].price]
          /\ Handled(d)
       \/ OpenListings = {} /\ Throw(d) /\ UNCHANGED listings
    /\ UNCHANGED <<owner, isBurned, bids, sales, walletRows, chainVars, bidOf, listingOf,
                   historyVars>>

\* handleAssetTransfer: the owner is set, its Wallet row created if need be, and
\* the update returns the open listings.
HandleAssetTransfer(d) ==
    /\ Handles(d, "transfer")
    /\ owner' = todo[d][1].who /\ walletRows' = walletRows \cup {owner'}
    /\ IF OpenListings = {} THEN Handled(d) ELSE Goto(d, "close")
    /\ UNCHANGED <<isBurned, listings, bids, sales, chainVars, bidOf, listingOf,
                   historyVars>>

\* Whichever listing is open by now is closed; an error is logged.
CloseListing(d) ==
    /\ at[d] = "close"
    /\ \/ \E i \in OpenListings : listings' = Close(i)
       \/ OpenListings = {} /\ UNCHANGED listings
    /\ Handled(d)
    /\ UNCHANGED <<owner, isBurned, bids, sales, walletRows, chainVars, bidOf, listingOf,
                   historyVars>>

HandleAssetBurn(d) ==
    /\ Handles(d, "burn")
    /\ isBurned' = TRUE
    /\ Handled(d)
    /\ UNCHANGED <<owner, listings, bids, sales, walletRows, chainVars, bidOf, listingOf,
                   historyVars>>

\* handleTensorListing: an open listing, an auction's too, becomes Tensor's
\* and keeps its configuration.
HandleTensorListing(d) ==
    LET t == todo[d][1] IN
    /\ Handles(d, "tensorList")
    /\ \/ \E i \in OpenListings :
            listings' = [listings EXCEPT ![i].price = t.price,
                                         ![i].seller = t.who,
                                         ![i].source = "tensor"]
       \/ /\ OpenListings = {}
          /\ listings' = Append(listings, NewListing(t.who, t.price, "tensor", FALSE))
    /\ Handled(d)
    /\ UNCHANGED <<owner, isBurned, bids, sales, walletRows, chainVars, bidOf, listingOf,
                   historyVars>>

\* handleTensorBuying: one nested update, nothing without an open listing.
HandleTensorBuying(d) ==
    LET t == todo[d][1] IN
    /\ Handles(d, "tensorBuy")
    /\ \/ /\ \E i \in OpenListings :
               /\ listings' = Close(i)
               /\ sales' = sales \cup {[listing |-> i, bid |-> NoBid, price |-> t.price]}
          /\ owner' = t.who /\ walletRows' = walletRows \cup {t.who}
       \/ OpenListings = {} /\ UNCHANGED <<owner, walletRows, listings, sales>>
    /\ Handled(d)
    /\ UNCHANGED <<isBurned, bids, chainVars, bidOf, listingOf, historyVars>>

\* A query throws or the process stops: the webhook answers with an error, or
\* logs it; either way the rest of the transaction is not handled.
Fail(d) ==
    /\ Running(d)
    /\ Throw(d)
    /\ order' = "any"
    /\ UNCHANGED <<rowVars, chainVars, bidOf, listingOf, started, missed>>

Handler(d) ==
    \/ HandleAssetListing(d) \/ HandleAssetBid(d) \/ MatchListing(d)
    \/ UpdateHighestBid(d) \/ HandleAssetSale(d) \/ CreateSale(d)
    \/ HandleCancelBid(d) \/ HandleCancelListing(d) \/ HandleListingReprice(d)
    \/ HandleAssetTransfer(d) \/ CloseListing(d) \/ HandleAssetBurn(d)
    \/ HandleTensorListing(d) \/ HandleTensorBuying(d)

\* connectWallet, or a wallet made by Privy: the row is upserted.
ConnectWallet(w) ==
    /\ w \notin walletRows
    /\ walletRows' = walletRows \cup {w}
    /\ UNCHANGED <<owner, isBurned, listings, bids, sales, chainVars, handlerVars,
                   historyVars>>

Next ==
    \/ \E w \in Wallets : ConnectWallet(w)
    \/ BuildTransaction \/ ExecuteBuilt \/ ExecuteForeign
    \/ \E d \in Deliveries : Deliver(d) \/ Handler(d) \/ Fail(d)

Spec == Init /\ [][Next]_vars
-----------------------------------------------------------------------------
(* Properties                                                              *)

\* However calls race, repeat and fail, a recorded sale is whole: its listing
\* and its bid are closed, and no other sale claims either of them.  While
\* calls are handled one by one it also names the price of that bid.
SaleSettled ==
    /\ \A s \in sales :
         /\ s.listing \in DOMAIN listings /\ ~listings[s.listing].open
         /\ s.bid # NoBid => s.bid \in DOMAIN bids /\ ~bids[s.bid].open
         /\ s.bid # NoBid /\ order = "sequential" => s.price = bids[s.bid].amount
    /\ \A s, r \in sales :
         s.listing = r.listing \/ (s.bid = r.bid /\ s.bid # NoBid) => s = r

\* What the database records did happen, if perhaps long ago: its owner once
\* owned the asset, and a sale's bidder bought it on the chain.  Neither a
\* losing bidder nor a buyer whose purchase only half arrived is taken for an
\* owner.
Bought(w) == \E i \in DOMAIN log :
    log[i].type \in {"sale", "buy", "tensorBuy", "transfer"} /\ log[i].who = w

RecordsHappened ==
    /\ owner = FirstOwner \/ Bought(owner)
    /\ \A s \in sales : s.bid # NoBid =>
         \E i \in DOMAIN log : /\ log[i].type \in {"sale", "buy"}
                               /\ log[i].who = bids[s.bid].bidder

\* The history of prices is final: a closed listing is not repriced, resold,
\* taken over by Tensor or reopened, nor a closed bid, and no sale goes.
Settled(r) == <<r.seller, r.price, r.source, r.timed, r.open>>
HistoryFixed == [][
    /\ \A i \in DOMAIN listings : ~listings[i].open =>
         i \in DOMAIN listings' /\ Settled(listings'[i]) = Settled(listings[i])
    /\ \A b \in DOMAIN bids : ~bids[b].open =>
         b \in DOMAIN bids' /\ bids'[b] = bids[b]
    /\ sales \subseteq sales']_vars

\* Calls that come in the chain's order, each perhaps again at once (but for
\* those about an instant buy), and are handled one by one, leave the database
\* saying what the chain says: who owns the asset, what is on offer where and
\* at which price, and every open bid.  That is unless a buyer had no Wallet
\* row: such a sale leaves the owner and the offer as they were before it, and
\* the next call about it, when the wallet is known by then, makes up for it.
Offer(r) == [seller |-> r.seller, price |-> r.price, source |-> r.source,
             timed |-> r.timed]

MirrorsOffer(c) ==
    /\ owner = c.owner /\ isBurned = c.burned
    /\ {Offer(listings[i]) : i \in OpenListings} = {c.listing} \ {NoListing}

MirrorsChain ==
    order = "sequential" /\ Quiet /\ started = Len(log) =>
        /\ missed = {} =>
             /\ MirrorsOffer(chain)
             /\ \A w \in Wallets :
                  {bids[b].amount : b \in OpenBids(w)} = {chain.bids[w]} \ {0}
        /\ missed = {started} => MirrorsOffer(states[started])

\* "Bid price required to be greater than the highest bid"
\* (assertListingConfig): the bid a bid is compared with is the highest one of
\* the open auction, when calls came in the chain's order.
HighestBidIsHighest ==
    order # "any" /\ Quiet => \A i \in OpenListings :
        listings[i].highestBid # NoBid => \A b \in DOMAIN bids :
            bids[b].open => bids[b].amount <= bids[listings[i].highestBid].amount

\* The market implements the ledger of deals: whatever calls race, repeat and
\* fail, an asset is on offer once at a time, a bidder has one bid, and a sale,
\* the end of its listing and of its bid, and the new owner are one step.
Ledger == INSTANCE MarketLedger WITH
    holder   <- owner,
    listed   <- Len(listings),
    onOffer  <- OpenListings,
    placed   <- Len(bids),
    standing <- {x \in Wallets \X DOMAIN bids : x[2] \in OpenBids(x[1])},
    deals    <- {<<s.listing, s.bid>> : s \in sales}
MarketLedgerSpec == Ledger!Spec

-----------------------------------------------------------------------------
(* The inductive invariants behind the properties.                         *)

\* The rows a handler holds between two awaits exist.
Locals == \A d \in Deliveries :
    /\ at[d] \in {"match", "outbid", "sale"} => bidOf[d] \in DOMAIN bids
    /\ at[d] = "outbid" => listingOf[d] \in DOMAIN listings
    /\ at[d] = "sale" => todo[d][1].type = "sale"

\* What a handler is about to record comes from the log.
SoldTo(w) == \E i \in DOMAIN log :
    log[i].type \in {"sale", "buy"} /\ log[i].who = w

FromLog(t) == /\ t.type = "sale" => SoldTo(t.who)
              /\ t.type \in {"transfer", "tensorBuy"} => Bought(t.who)

HappenedInv ==
    /\ RecordsHappened
    /\ \A d \in Deliveries : \A n \in DOMAIN todo[d] : FromLog(todo[d][n])

\* While calls are sequential one handler runs, and the bid it read for a
\* sale is still the buyer's open one.
PriceInv ==
    /\ \A w \in Wallets : \A b, c \in OpenBids(w) : b = c
    /\ order = "sequential" =>
         /\ \A d, e \in Deliveries : Running(d) /\ Running(e) => d = e
         /\ \A d \in Deliveries :
              at[d] = "sale" => bidOf[d] \in OpenBids(todo[d][1].who)

SettledInv == SaleSettled /\ PriceInv

\* The chain went from state to state by the transactions of its log.
SoundTransaction(t) ==
    /\ t.type \in {"list", "timedList", "tensorList"} => t.who = t.seller
    /\ t.type \in {"list", "bid", "reprice"} => t.price > 0

SoundListing(l) == /\ l.source = "tensor" => ~l.timed
                   /\ l.source = "auction" /\ ~l.timed => l.price > 0

ChainInv ==
    /\ Len(states) = Len(log) + 1 /\ chain = states[Len(states)]
    /\ \A t \in pending : SoundTransaction(t)
    /\ \A i \in DOMAIN log :
         /\ SoundTransaction(log[i]) /\ Accepts(states[i], log[i])
         /\ states[i + 1] = Effect(states[i], log[i])
    /\ \A i \in DOMAIN states : SoundListing(states[i].listing)

\* The rows say what the chain said in state c.
ShowsListing(l) ==
    IF l = NoListing THEN OpenListings = {}
    ELSE \E i \in DOMAIN listings : OpenListings = {i} /\ Offer(listings[i]) = l

ShowsBid(w, amount) ==
    IF amount = 0 THEN OpenBids(w) = {}
    ELSE \E b \in DOMAIN bids : OpenBids(w) = {b} /\ bids[b].amount = amount

Shows(c) ==
    /\ owner = c.owner /\ isBurned = c.burned
    /\ ShowsListing(c.listing)
    /\ \A w \in Wallets : ShowsBid(w, c.bids[w])

\* The handler is at an instruction, before which the rows said what c does.
Doing(d, c) == LET i == todo[d][1] IN
    \/ at[d] = "start" /\ Shows(c)
    \/ at[d] \in {"match", "outbid"} /\ i.type = "bid" /\ Shows(Effect(c, i))
    \/ at[d] = "sale" /\ i.type = "sale" /\ Shows(c)
    \/ at[d] = "close" /\ i.type = "transfer" /\ Shows([c EXCEPT !.owner = i.who])

\* While calls are sequential, the rows say what the chain said after the last
\* transaction delivered in order, but for what its first handler has left.
FirstTime(d) == LET t == log[started]
                    before == states[started] IN
    \/ todo[d] \in Instructions(t) /\ Doing(d, before)
    \/ /\ t.type = "buy" /\ todo[d] = <<[t EXCEPT !.type = "sale"]>>
       /\ Doing(d, Effect(before, [t EXCEPT !.type = "bid"]))

Again(d) ==
    /\ at[d] = "start" /\ todo[d] \in Instructions(log[started])
    /\ Repeatable(log[started])
    /\ Shows(states[started + 1])

\* What the rows say when nothing is handled: what the chain said, but for a
\* sale that is missed, of which a bid made with it may be recorded.
Unsold == LET t == log[started] IN
    IF t.type = "buy" THEN Effect(states[started], [t EXCEPT !.type = "bid"])
    ELSE states[started]

Shown == IF missed = {} THEN states[started + 1] ELSE Unsold

\* What holds when no transaction but the last one delivered is missed.
FollowsChain ==
    /\ missed # {} => log[started].type \in {"sale", "buy"}
    /\ Quiet => Shows(Shown)
    /\ \A d \in Deliveries : Running(d) =>
         \/ FirstTime(d) /\ (missed = {} \/ log[started].type = "sale")
         \/ Again(d) /\ missed = {}

MirrorInv ==
    order = "sequential" =>
        /\ missed \subseteq 1..started
        /\ \A d \in Deliveries : Running(d) => d[1] = started
        /\ missed \subseteq {started} => FollowsChain
=============================================================================
