------------------------- MODULE Marketplace_proofs -------------------------
(* Theorems about the market, for any wallets and prices, any number of      *)
(* transactions and any number of calls about each of them.                  *)
EXTENDS Marketplace, SequenceTheorems, TLAPS

\* Rows of a table are added at its end or changed in place.
LEMMA RowAdded ==
    ASSUME NEW S, NEW s \in Seq(S), NEW r \in S
    PROVE  /\ Append(s, r) \in Seq(S)
           /\ Len(Append(s, r)) = Len(s) + 1
           /\ \A i \in DOMAIN s : i \in DOMAIN Append(s, r) /\ Append(s, r)[i] = s[i]
           /\ Append(s, r)[Len(s) + 1] = r
           /\ \A i \in DOMAIN Append(s, r) : i \in DOMAIN s \/ i = Len(s) + 1
  BY AppendProperties

LEMMA RowChanged ==
    ASSUME NEW S, NEW s \in Seq(S), NEW i \in DOMAIN s, NEW r \in S
    PROVE  /\ [s EXCEPT ![i] = r] \in Seq(S)
           /\ DOMAIN [s EXCEPT ![i] = r] = DOMAIN s
           /\ \A j \in DOMAIN s : [s EXCEPT ![i] = r][j] = IF j = i THEN r ELSE s[j]
  <1>1. i \in 1 .. Len(s)
    OBVIOUS
  <1> QED BY <1>1, ExceptSeq

-----------------------------------------------------------------------------
(* What a handler's step does to its own place, to the listings and to the   *)
(* bids.                                                                     *)

PlaceOK ==
    /\ todo \in [Deliveries -> Seq(Transaction)]
    /\ at \in [Deliveries -> Stages]
    /\ \A d \in Deliveries : Running(d) => todo[d] # <<>>

Advance(d) ==
    \/ Handled(d) \/ Throw(d)
    \/ \E stage \in {"sale", "match", "outbid", "close"} : Goto(d, stage)

\* A handler stays in place, or goes on with what was left to do.
LEMMA AdvanceType ==
    ASSUME PlaceOK, NEW d \in Deliveries, Running(d), Advance(d)
    PROVE  /\ PlaceOK'
           /\ \A e \in Deliveries \ {d} : todo'[e] = todo[e] /\ at'[e] = at[e]
           /\ \A n \in DOMAIN todo'[d] :
                \E k \in DOMAIN todo[d] : todo'[d][n] = todo[d][k]
  <1>1. CASE Throw(d)
    <2>1. <<>> \in Seq(Transaction) /\ DOMAIN <<>> = {}
      OBVIOUS
    <2> QED BY <1>1, <2>1 DEF Throw, PlaceOK, Running, Stages
  <1>2. CASE \E stage \in {"sale", "match", "outbid", "close"} : Goto(d, stage)
    BY <1>2 DEF Goto, PlaceOK, Running, Stages
  <1>3. CASE Handled(d)
    <2> DEFINE rest == Tail(todo[d])
    <2>1. todo[d] \in Seq(Transaction) /\ todo[d] # <<>>
      BY DEF PlaceOK
    <2>2. /\ rest \in Seq(Transaction) /\ Len(rest) = Len(todo[d]) - 1
          /\ \A i \in 1 .. Len(rest) : rest[i] = todo[d][i + 1]
      BY <2>1, HeadTailProperties
    <2>3. \A n \in DOMAIN rest : \E k \in DOMAIN todo[d] : rest[n] = todo[d][k]
      BY <2>1, <2>2
    <2>4. todo' = [todo EXCEPT ![d] = rest]
      BY <1>3 DEF Handled
    <2>5. at' = [at EXCEPT ![d] = IF rest = <<>> THEN "done" ELSE "start"]
      BY <1>3 DEF Handled
    <2> HIDE DEF rest
    <2> QED BY <2>2, <2>3, <2>4, <2>5 DEF PlaceOK, Running, Stages
  <1> QED BY <1>1, <1>2, <1>3 DEF Advance

\* The instruction a running handler is at is a transaction's.
LEMMA AtInstruction ==
    ASSUME PlaceOK, NEW d \in Deliveries, Running(d)
    PROVE  todo[d][1] \in Transaction /\ 1 \in DOMAIN todo[d]
  <1>1. todo[d] \in Seq(Transaction) /\ todo[d] # <<>>
    BY ZenonT(60) DEF PlaceOK
  <1> QED BY <1>1

\* The rows a handler may change, but for the Wallet rows it needs.
tables == <<owner, isBurned, listings, bids, sales>>

\* A wallet that connects adds its own row only.
LEMMA ConnectStep ==
    ASSUME TypeOK, NEW w \in Wallets, ConnectWallet(w)
    PROVE  /\ walletRows' \subseteq Wallets /\ owner' \in walletRows'
           /\ UNCHANGED <<tables, chainVars, handlerVars, historyVars>>
  BY DEF ConnectWallet, TypeOK, tables

\* Every handler's step moves only its own place, and no transaction.
LEMMA HandlerAdvances ==
    ASSUME NEW d \in Deliveries, Handler(d)
    PROVE  /\ Running(d) /\ Advance(d)
           /\ UNCHANGED <<chainVars, started, order>>
  BY DEF Handler, HandleAssetListing, HandleAssetBid, MatchListing,
         UpdateHighestBid, HandleAssetSale, CreateSale, SaleOf, SaleFails,
         historyVars, HandleCancelBid,
         HandleCancelListing, HandleListingReprice, HandleAssetTransfer,
         CloseListing, HandleAssetBurn, HandleTensorListing, HandleTensorBuying,
         Handles, Running, Advance

\* The listings are kept, an open one is added or changed, or the highest bid
\* of one is set.
ListingsMove(d) ==
    \/ listings' = listings
    \/ \E r \in ListingRow : listings' = Append(listings, r)
    \/ \E i \in OpenListings : \E r \in ListingRow :
         listings' = [listings EXCEPT ![i] = r]
    \/ /\ at[d] = "outbid"
       /\ listings' = [listings EXCEPT ![listingOf[d]].highestBid = bidOf[d]]

LEMMA HandlerListings ==
    ASSUME TypeOK, NEW d \in Deliveries, Handler(d)
    PROVE  ListingsMove(d)
  <1>0. PlaceOK
    BY DEF TypeOK, PlaceOK, Running
  <1>1. todo[d][1] \in Transaction
    BY <1>0, AtInstruction, HandlerAdvances
  <1>2. \A i \in OpenListings : listings[i] \in ListingRow
    BY DEF TypeOK, OpenListings
  <1>3. ASSUME NEW i \in OpenListings, listings' = Close(i) PROVE ListingsMove(d)
    <2>1. [listings[i] EXCEPT !.open = FALSE] \in ListingRow
      BY <1>2 DEF ListingRow
    <2>2. listings' = [listings EXCEPT ![i] = [listings[i] EXCEPT !.open = FALSE]]
      BY <1>3 DEF Close
    <2> QED BY <2>1, <2>2 DEF ListingsMove
  <1>4. CASE HandleAssetListing(d)
    <2>1. NewListing(todo[d][1].who, todo[d][1].price, "auction",
                     todo[d][1].type = "timedList") \in ListingRow
      BY <1>1 DEF NewListing, ListingRow, Transaction, NoBid, Sources
    <2> QED BY <1>4, <2>1 DEF HandleAssetListing, ListingsMove
  <1>5. CASE HandleAssetBid(d)
    BY <1>5 DEF HandleAssetBid, ListingsMove
  <1>6. CASE MatchListing(d)
    BY <1>6 DEF MatchListing, rowVars, ListingsMove
  <1>7. CASE UpdateHighestBid(d)
    BY <1>7 DEF UpdateHighestBid, ListingsMove
  <1>8. CASE HandleAssetSale(d)
    BY <1>8 DEF HandleAssetSale, rowVars, ListingsMove
  <1>9. CASE CreateSale(d)
    BY <1>9, <1>3 DEF CreateSale, SaleOf, SaleFails, ListingsMove
  <1>10. CASE HandleCancelBid(d)
    BY <1>10 DEF HandleCancelBid, ListingsMove
  <1>11. CASE HandleCancelListing(d)
    BY <1>11, <1>3 DEF HandleCancelListing, ListingsMove
  <1>12. CASE HandleListingReprice(d)
    <2>1. ASSUME NEW i \in OpenListings,
                 listings' = [listings EXCEPT ![i].price = todo[d][1].price]
          PROVE  ListingsMove(d)
      <3>1. [listings[i] EXCEPT !.price = todo[d][1].price] \in ListingRow
        BY <1>1, <1>2 DEF ListingRow, Transaction, Sources
      <3> QED BY <2>1, <3>1 DEF ListingsMove
    <2> QED BY <1>12, <2>1 DEF HandleListingReprice, ListingsMove
  <1>13. CASE HandleAssetTransfer(d)
    BY <1>13 DEF HandleAssetTransfer, ListingsMove
  <1>14. CASE CloseListing(d)
    BY <1>14, <1>3 DEF CloseListing, ListingsMove
  <1>15. CASE HandleAssetBurn(d)
    BY <1>15 DEF HandleAssetBurn, ListingsMove
  <1>16. CASE HandleTensorListing(d)
    <2> DEFINE t == todo[d][1]
    <2>1. NewListing(t.who, t.price, "tensor", FALSE) \in ListingRow
      BY <1>1 DEF NewListing, ListingRow, Transaction, NoBid, Sources
    <2>2. ASSUME NEW i \in OpenListings,
                 listings' = [listings EXCEPT ![i].price = t.price,
                                              ![i].seller = t.who,
                                              ![i].source = "tensor"]
          PROVE  ListingsMove(d)
      <3> DEFINE r == [listings[i] EXCEPT !.price = t.price, !.seller = t.who,
                                          !.source = "tensor"]
      <3>1. r \in ListingRow
        BY <1>1, <1>2 DEF ListingRow, Transaction, Sources
      <3>2. listings' = [listings EXCEPT ![i] = r]
        BY <2>2, <1>2 DEF OpenListings
      <3> QED BY <3>1, <3>2 DEF ListingsMove
    <2> QED BY <1>16, <2>1, <2>2 DEF HandleTensorListing, ListingsMove
  <1>17. CASE HandleTensorBuying(d)
    BY <1>17, <1>3 DEF HandleTensorBuying, ListingsMove
  <1> QED BY <1>4, <1>5, <1>6, <1>7, <1>8, <1>9, <1>10, <1>11, <1>12, <1>13,
             <1>14, <1>15, <1>16, <1>17 DEF Handler

\* The bids are kept, a new open one is added for a bidder who had none, or an
\* open one is closed.
BidsMove ==
    \/ bids' = bids
    \/ \E r \in Bid : /\ r.open /\ OpenBids(r.bidder) = {}
                      /\ bids' = Append(bids, r)
    \/ \E b \in DOMAIN bids : /\ bids[b].open
                              /\ bids' = [bids EXCEPT ![b].open = FALSE]

LEMMA HandlerBids ==
    ASSUME TypeOK, NEW d \in Deliveries, Handler(d)
    PROVE  BidsMove
  <1>0. PlaceOK
    BY DEF TypeOK, PlaceOK, Running
  <1>1. todo[d][1] \in Transaction
    BY <1>0, AtInstruction, HandlerAdvances
  <1>2. CASE HandleAssetBid(d)
    <2> DEFINE r == [bidder |-> todo[d][1].who, amount |-> todo[d][1].price,
                     open |-> TRUE]
    <2>1. r \in Bid /\ r.bidder = todo[d][1].who /\ r.open
      BY <1>1 DEF Bid, Transaction
    <2> HIDE DEF r
    <2>2. \/ bids' = bids
          \/ OpenBids(todo[d][1].who) = {} /\ bids' = Append(bids, r)
      BY <1>2 DEF HandleAssetBid, r
    <2> QED BY <2>1, <2>2 DEF BidsMove
  <1>3. CASE CreateSale(d)
    BY <1>3, SMTT(60) DEF CreateSale, SaleOf, SaleFails, OpenBids, BidsMove
  <1>4. CASE HandleCancelBid(d)
    BY <1>4, ZenonT(60) DEF HandleCancelBid, OpenBids, BidsMove
  <1>5. CASE ~(HandleAssetBid(d) \/ CreateSale(d) \/ HandleCancelBid(d))
    <2>1. bids' = bids
      BY <1>5 DEF Handler, HandleAssetListing, MatchListing, UpdateHighestBid,
           HandleAssetSale, HandleCancelListing, HandleListingReprice,
           HandleAssetTransfer, CloseListing, HandleAssetBurn,
           HandleTensorListing, HandleTensorBuying, rowVars
    <2> QED BY <2>1, SMTT(60) DEF BidsMove
  <1> QED BY <1>2, <1>3, <1>4, <1>5

-----------------------------------------------------------------------------
(* From the moves: both tables only grow, and their closed rows are final.   *)

LEMMA ListingsGrow ==
    ASSUME TypeOK, Locals, NEW d \in Deliveries, Handler(d)
    PROVE  /\ listings' \in Seq(ListingRow)
           /\ DOMAIN listings \subseteq DOMAIN listings'
           /\ \A i \in DOMAIN listings : ~listings[i].open =>
                Settled(listings'[i]) = Settled(listings[i])
  <1>1. listings \in Seq(ListingRow)
    BY DEF TypeOK
  <1>2. ASSUME NEW r \in ListingRow, listings' = Append(listings, r)
        PROVE  /\ listings' \in Seq(ListingRow)
               /\ \A i \in DOMAIN listings :
                    i \in DOMAIN listings' /\ listings'[i] = listings[i]
    BY <1>1, <1>2, RowAdded
  <1>3. ASSUME NEW i \in DOMAIN listings, NEW r \in ListingRow,
               listings' = [listings EXCEPT ![i] = r]
        PROVE  /\ listings' \in Seq(ListingRow)
               /\ DOMAIN listings' = DOMAIN listings
               /\ \A j \in DOMAIN listings :
                    listings'[j] = IF j = i THEN r ELSE listings[j]
    BY <1>1, <1>3, RowChanged
  <1>4. CASE listings' = listings
    BY <1>1, <1>4
  <1>5. CASE \E r \in ListingRow : listings' = Append(listings, r)
    BY <1>2, <1>5
  <1>6. CASE \E i \in OpenListings : \E r \in ListingRow :
                listings' = [listings EXCEPT ![i] = r]
    BY <1>3, <1>6 DEF OpenListings
  <1>7. CASE /\ at[d] = "outbid"
             /\ listings' = [listings EXCEPT ![listingOf[d]].highestBid = bidOf[d]]
    <2> DEFINE i == listingOf[d]
               r == [listings[i] EXCEPT !.highestBid = bidOf[d]]
    <2>1. i \in DOMAIN listings /\ bidOf[d] \in Nat
      BY <1>7 DEF Locals, TypeOK
    <2>2. listings[i] \in ListingRow
      BY <1>1, <2>1
    <2>3. r \in ListingRow /\ Settled(r) = Settled(listings[i])
      BY <2>1, <2>2 DEF ListingRow, Settled
    <2>4. listings' = [listings EXCEPT ![i] = r]
      BY <1>7
    <2> HIDE DEF r, i
    <2> QED BY <1>3, <2>1, <2>3, <2>4
  <1> QED BY <1>4, <1>5, <1>6, <1>7, HandlerListings DEF ListingsMove

LEMMA BidsGrow ==
    ASSUME TypeOK, NEW d \in Deliveries, Handler(d)
    PROVE  /\ bids' \in Seq(Bid)
           /\ DOMAIN bids \subseteq DOMAIN bids'
           /\ \A b \in DOMAIN bids :
                /\ ~bids[b].open => bids'[b] = bids[b]
                /\ bids'[b].bidder = bids[b].bidder
                /\ bids'[b].amount = bids[b].amount
  <1>1. bids \in Seq(Bid)
    BY DEF TypeOK
  <1>2. CASE bids' = bids
    BY <1>1, <1>2
  <1>3. ASSUME NEW r \in Bid, bids' = Append(bids, r)
        PROVE  /\ bids' \in Seq(Bid)
               /\ \A b \in DOMAIN bids : b \in DOMAIN bids' /\ bids'[b] = bids[b]
    BY <1>1, <1>3, RowAdded
  <1>4. ASSUME NEW b \in DOMAIN bids, bids[b].open,
               bids' = [bids EXCEPT ![b].open = FALSE]
        PROVE  /\ bids' \in Seq(Bid)
               /\ DOMAIN bids' = DOMAIN bids
               /\ \A c \in DOMAIN bids :
                    /\ c # b => bids'[c] = bids[c]
                    /\ bids'[c].bidder = bids[c].bidder
                    /\ bids'[c].amount = bids[c].amount
    <2> DEFINE r == [bids[b] EXCEPT !.open = FALSE]
    <2>1. bids[b] \in Bid
      BY <1>1
    <2>2. r \in Bid /\ r.bidder = bids[b].bidder /\ r.amount = bids[b].amount
      BY <2>1 DEF Bid
    <2>3. bids' = [bids EXCEPT ![b] = r]
      BY <1>4
    <2> HIDE DEF r
    <2>4. /\ bids' \in Seq(Bid) /\ DOMAIN bids' = DOMAIN bids
          /\ \A c \in DOMAIN bids : bids'[c] = IF c = b THEN r ELSE bids[c]
      BY <1>1, <2>2, <2>3, RowChanged
    <2> QED BY <2>2, <2>4
  <1> QED BY <1>2, <1>3, <1>4, HandlerBids DEF BidsMove
-----------------------------------------------------------------------------
(* Type correctness.                                                         *)

\* The sales only grow; a handler touches its own variables only, and the rows
\* they name exist.
LEMMA HandlerRest ==
    ASSUME TypeOK, Locals, NEW d \in Deliveries, Handler(d)
    PROVE  /\ walletRows' \subseteq Wallets /\ owner' \in walletRows'
           /\ isBurned' \in BOOLEAN /\ missed' \subseteq 1 .. MaxLog
           /\ sales' \subseteq Sale /\ sales \subseteq sales'
           /\ bidOf' \in [Deliveries -> Nat] /\ listingOf' \in [Deliveries -> Nat]
           /\ \A e \in Deliveries \ {d} :
                bidOf'[e] = bidOf[e] /\ listingOf'[e] = listingOf[e]
           /\ at'[d] \in {"match", "outbid", "sale"} => bidOf'[d] \in DOMAIN bids'
           /\ at'[d] = "outbid" => listingOf'[d] \in DOMAIN listings'
           /\ at'[d] = "sale" => todo'[d][1].type = "sale"
  <1>0. PlaceOK
    BY DEF TypeOK, PlaceOK, Running
  <1>1. todo[d][1] \in Transaction
    BY <1>0, AtInstruction, HandlerAdvances
  <1>2. todo[d][1].who \in Wallets /\ todo[d][1].price \in Amounts
    BY <1>1 DEF Transaction
  <1>3. /\ listings \in Seq(ListingRow) /\ bids \in Seq(Bid) /\ sales \subseteq Sale
        /\ walletRows \subseteq Wallets /\ owner \in walletRows
        /\ isBurned \in BOOLEAN /\ missed \subseteq 1 .. MaxLog
        /\ bidOf \in [Deliveries -> Nat] /\ listingOf \in [Deliveries -> Nat]
        /\ at \in [Deliveries -> Stages]
    BY DEF TypeOK
  <1>4. \A i \in OpenListings : i \in DOMAIN listings /\ i \in Nat
    BY <1>3 DEF OpenListings
  <1>5. \A w : \A b \in OpenBids(w) : b \in DOMAIN bids /\ b \in Nat
    BY <1>3 DEF OpenBids
  <1>6. ASSUME Handled(d) \/ Throw(d) \/ Goto(d, "close")
        PROVE  at'[d] \notin {"match", "outbid", "sale"}
    BY <1>3, <1>6 DEF Handled, Throw, Goto
  <1>7. CASE HandleAssetBid(d)
    <2> DEFINE r == [bidder |-> todo[d][1].who, amount |-> todo[d][1].price,
                     open |-> TRUE]
    <2>1. r \in Bid
      BY <1>2 DEF Bid
    <2>2. ASSUME Goto(d, "match"), bids' = Append(bids, r),
                 bidOf' = [bidOf EXCEPT ![d] = Len(bids) + 1]
          PROVE  /\ bidOf' \in [Deliveries -> Nat]
                 /\ \A e \in Deliveries \ {d} : bidOf'[e] = bidOf[e]
                 /\ bidOf'[d] \in DOMAIN bids' /\ at'[d] = "match"
      <3> HIDE DEF r
      <3>1. Len(bids) + 1 \in Nat /\ Len(bids) + 1 \in DOMAIN bids'
        BY <1>3, <2>1, <2>2, RowAdded
      <3> QED BY <1>3, <2>2, <3>1 DEF Goto
    <2>3. UNCHANGED <<owner, isBurned, walletRows, listings, sales, listingOf, missed>>
      BY <1>7 DEF HandleAssetBid, historyVars
    <2>4. \/ /\ Goto(d, "match") /\ bids' = Append(bids, r)
             /\ bidOf' = [bidOf EXCEPT ![d] = Len(bids) + 1]
          \/ Throw(d) /\ UNCHANGED <<bids, bidOf>>
      BY <1>7 DEF HandleAssetBid
    <2> HIDE DEF r
    <2> QED BY <1>3, <1>6, <2>2, <2>3, <2>4
  <1>8. CASE MatchListing(d)
    <2>1. UNCHANGED rowVars /\ UNCHANGED <<bidOf, missed>> /\ bidOf[d] \in DOMAIN bids
      BY <1>8 DEF MatchListing, Locals, historyVars
    <2>2. \/ (Handled(d) \/ Throw(d)) /\ UNCHANGED listingOf
          \/ \E i \in OpenListings : /\ Goto(d, "outbid")
                                     /\ listingOf' = [listingOf EXCEPT ![d] = i]
      BY <1>8 DEF MatchListing
    <2>3. Goto(d, "outbid") => at'[d] = "outbid"
      BY <1>3 DEF Goto
    <2> QED BY <1>3, <1>4, <1>6, <2>1, <2>2, <2>3 DEF rowVars
  <1>9. CASE HandleAssetSale(d)
    <2>1. /\ UNCHANGED rowVars /\ UNCHANGED <<listingOf, missed>>
          /\ todo[d][1].type = "sale"
      BY <1>9 DEF HandleAssetSale, Handles, historyVars
    <2>2. \/ Throw(d) /\ UNCHANGED bidOf
          \/ \E b \in OpenBids(todo[d][1].who) :
               bidOf' = [bidOf EXCEPT ![d] = b] /\ Goto(d, "sale")
      BY <1>9 DEF HandleAssetSale
    <2>3. Goto(d, "sale") => at'[d] = "sale" /\ todo' = todo
      BY <1>3 DEF Goto
    <2> QED BY <1>3, <1>5, <1>6, <2>1, <2>2, <2>3 DEF rowVars
  <1>10. CASE CreateSale(d)
    <2> DEFINE w == todo[d][1].who
    <2>1. bids[bidOf[d]].amount \in Amounts
      <3>1. bidOf[d] \in DOMAIN bids
        BY <1>10 DEF CreateSale, Locals
      <3>2. bids[bidOf[d]] \in Bid
        BY <1>3, <3>1
      <3> QED BY <3>2 DEF Bid
    <2>2. \A i \in OpenListings, b \in OpenBids(w) :
            [listing |-> i, bid |-> b, price |-> bids[bidOf[d]].amount] \in Sale
      BY <1>4, <1>5, <2>1 DEF Sale
    <2>3. sales' \subseteq Sale /\ sales \subseteq sales'
      BY <1>3, <1>10, <2>2 DEF CreateSale, SaleOf, SaleFails
    <2>4. /\ owner' \in walletRows /\ UNCHANGED <<isBurned, walletRows, bidOf, listingOf>>
          /\ Handled(d) \/ Throw(d)
      BY <1>2, <1>3, <1>10 DEF CreateSale, SaleOf, SaleFails
    <2>5. missed' \subseteq 1 .. MaxLog
      <3>1. d[1] \in 1 .. MaxLog
        BY DEF Deliveries
      <3> QED BY <1>3, <1>10, <3>1 DEF CreateSale, SaleOf, SaleFails
    <2> QED BY <1>3, <1>6, <2>3, <2>4, <2>5
  <1>11. CASE HandleTensorBuying(d)
    <2>1. \A i \in OpenListings :
            [listing |-> i, bid |-> NoBid, price |-> todo[d][1].price] \in Sale
      BY <1>2, <1>4 DEF Sale, NoBid
    <2>2. sales' \subseteq Sale /\ sales \subseteq sales'
      BY <1>3, <1>11, <2>1 DEF HandleTensorBuying
    <2>3. /\ walletRows' \subseteq Wallets /\ owner' \in walletRows'
          /\ UNCHANGED <<isBurned, bidOf, listingOf, missed>> /\ Handled(d)
      BY <1>2, <1>3, <1>11 DEF HandleTensorBuying, historyVars
    <2> QED BY <1>3, <1>6, <2>2, <2>3
  <1>12. CASE ~(\/ HandleAssetBid(d) \/ MatchListing(d) \/ HandleAssetSale(d)
                \/ CreateSale(d) \/ HandleTensorBuying(d))
    <2>1. /\ UNCHANGED <<sales, bidOf, listingOf, missed>>
          /\ Handled(d) \/ Throw(d) \/ Goto(d, "close")
          /\ \/ UNCHANGED <<owner, walletRows>>
             \/ /\ owner' = todo[d][1].who
                /\ walletRows' = walletRows \cup {owner'}
          /\ isBurned' \in {isBurned, TRUE}
      BY <1>12 DEF Handler, HandleAssetListing, UpdateHighestBid,
           HandleCancelBid, HandleCancelListing, HandleListingReprice,
           HandleAssetTransfer, CloseListing, HandleAssetBurn,
           HandleTensorListing, historyVars
    <2> QED BY <1>2, <1>3, <1>6, <2>1
  <1> QED BY <1>7, <1>8, <1>9, <1>10, <1>11, <1>12
\* Every transaction the services build is one.
LEMMA BuiltType ==
    ASSUME TypeOK, BuildTransaction
    PROVE  /\ pending' \subseteq Transaction
           /\ UNCHANGED <<rowVars, log, chain, states, handlerVars, historyVars>>
  <1>1. ASSUME NEW type, NEW who \in Wallets, NEW seller \in Wallets,
               NEW price \in Amounts, Build(type, who, seller, price)
        PROVE  /\ pending' \subseteq Transaction
               /\ UNCHANGED <<rowVars, log, chain, states, handlerVars, historyVars>>
    BY <1>1, MarketAssumption DEF Build, TypeOK, Transaction
  <1>2. \A i \in DOMAIN listings :
          listings[i].seller \in Wallets /\ listings[i].price \in Amounts
    <2>1. \A i \in DOMAIN listings : listings[i] \in ListingRow
      BY DEF TypeOK
    <2> QED BY <2>1 DEF ListingRow
  <1>3. \A b \in DOMAIN bids : bids[b].bidder \in Wallets
    <2>1. \A b \in DOMAIN bids : bids[b] \in Bid
      BY DEF TypeOK
    <2> QED BY <2>1 DEF Bid
  <1>4. owner \in Wallets /\ Prices \subseteq Amounts /\ 0 \in Amounts
    BY DEF TypeOK, Amounts
  <1>5. \A i \in OpenListings : i \in DOMAIN listings
    BY DEF OpenListings
  <1>6. CASE list
    BY <1>1, <1>4, <1>6 DEF list
  <1>7. CASE timedAuctionList
    BY <1>1, <1>4, <1>7 DEF timedAuctionList
  <1>8. CASE bid
    BY <1>1, <1>2, <1>4, <1>5, <1>8 DEF bid
  <1>9. CASE executeSale
    BY <1>1, <1>2, <1>3, <1>4, <1>9 DEF executeSale
  <1>10. CASE instantBuy
    BY <1>1, <1>2, <1>5, <1>10 DEF instantBuy
  <1>11. CASE cancelBid
    BY <1>1, <1>3, <1>4, <1>11 DEF cancelBid
  <1>12. CASE cancelListing
    BY <1>1, <1>2, <1>4, <1>5, <1>12 DEF cancelListing
  <1>13. CASE repriceListing
    BY <1>1, <1>2, <1>4, <1>5, <1>13 DEF repriceListing
  <1> QED BY <1>6, <1>7, <1>8, <1>9, <1>10, <1>11, <1>12, <1>13
          DEF BuildTransaction

\* What the chain accepts leaves it in one of its states.
LEMMA EffectType ==
    ASSUME NEW c \in Chain, NEW t \in Transaction, Accepts(c, t)
    PROVE  Effect(c, t) \in Chain
  <1>1. /\ t.who \in Wallets /\ t.seller \in Wallets /\ t.price \in Amounts
        /\ t.type \in AllKinds /\ 0 \in Amounts
    BY DEF Transaction, Amounts
  <1>2. \A source \in Sources :
          [seller |-> t.seller, price |-> t.price, source |-> source,
           timed |-> t.type = "timedList"] \in Listing
    BY <1>1 DEF Listing
  <1>3. "auction" \in Sources /\ "tensor" \in Sources
    BY DEF Sources
  <1>4. CASE t.type \in {"list", "timedList", "tensorList"}
    <2>1. \/ Effect(c, t) = [c EXCEPT !.listing =
               [seller |-> t.seller, price |-> t.price, source |-> "auction",
                timed |-> t.type = "timedList"]]
          \/ Effect(c, t) = [c EXCEPT !.listing =
               [seller |-> t.seller, price |-> t.price, source |-> "tensor",
                timed |-> t.type = "timedList"]]
      BY <1>4 DEF Effect
    <2> QED BY <2>1, <1>2, <1>3 DEF Chain
  <1>5. CASE t.type = "reprice"
    <2>1. c.listing \in Listing
      BY <1>5 DEF Accepts, Listed, NoListing, Chain
    <2>2. [c.listing EXCEPT !.price = t.price] \in Listing
      BY <1>1, <2>1 DEF Listing
    <2>3. Effect(c, t) = [c EXCEPT !.listing = [c.listing EXCEPT !.price = t.price]]
      BY <1>5 DEF Effect, Chain
    <2> QED BY <2>2, <2>3 DEF Chain
  <1>6. CASE t.type \in {"cancelListing", "tensorDelist"}
    BY <1>6 DEF Effect, Chain
  <1>7. CASE t.type = "bid"
    <2>1. Effect(c, t) = [c EXCEPT !.bids = [c.bids EXCEPT ![t.who] = t.price]]
      BY <1>7 DEF Effect, Chain
    <2> QED BY <1>1, <2>1 DEF Chain
  <1>8. CASE t.type = "cancelBid"
    <2>1. Effect(c, t) = [c EXCEPT !.bids = [c.bids EXCEPT ![t.who] = 0]]
      BY <1>8 DEF Effect, Chain
    <2> QED BY <1>1, <2>1 DEF Chain
  <1>9. CASE t.type = "burn"
    BY <1>9 DEF Effect, Chain
  <1>10. CASE t.type \in {"sale", "buy", "tensorBuy", "transfer"}
    <2> DEFINE left == IF t.type = "sale" THEN 0 ELSE c.bids[t.who]
    <2>1. Effect(c, t) = [c EXCEPT !.owner = t.who, !.listing = NoListing,
                           !.bids = [c.bids EXCEPT ![t.who] = left]]
      BY <1>10 DEF Effect, Chain
    <2>2. left \in Amounts /\ c.bids \in [Wallets -> Amounts]
      BY <1>1 DEF Chain
    <2>3. [c.bids EXCEPT ![t.who] = left] \in [Wallets -> Amounts]
      BY <1>1, <2>2
    <2> HIDE DEF left
    <2> QED BY <1>1, <2>1, <2>3 DEF Chain
  <1> QED BY <1>1, <1>4, <1>5, <1>6, <1>7, <1>8, <1>9, <1>10
          DEF AllKinds, AuctionKinds, TensorKinds
\* The chain executes a transaction, and the log has one more.
LEMMA ExecuteType ==
    ASSUME TypeOK, NEW t \in Transaction, Execute(t)
    PROVE  /\ chain' \in Chain /\ log' \in Seq(Transaction)
           /\ states' \in Seq(Chain)
           /\ Len(log') = Len(log) + 1
           /\ \A i \in DOMAIN log : i \in DOMAIN log' /\ log'[i] = log[i]
           /\ UNCHANGED <<rowVars, handlerVars, historyVars>>
  <1>1. chain' \in Chain
    BY EffectType DEF TypeOK, Execute
  <1>2. log \in Seq(Transaction) /\ log' = Append(log, t)
    BY DEF TypeOK, Execute
  <1>3. states \in Seq(Chain) /\ states' = Append(states, chain')
    BY DEF TypeOK, Execute
  <1>4. states' \in Seq(Chain)
    BY <1>1, <1>3
  <1> QED BY <1>1, <1>2, <1>4, RowAdded DEF Execute

LEMMA ForeignType ==
    ASSUME TypeOK PROVE Foreign \subseteq Transaction
  <1>1. chain.owner \in Wallets
    BY DEF TypeOK, Chain
  <1> QED BY <1>1 DEF Foreign, Transaction, Amounts, AllKinds, TensorKinds

LEMMA ChainStep ==
    ASSUME TypeOK, ExecuteBuilt \/ ExecuteForeign
    PROVE  \E t \in Transaction : Execute(t) /\ pending' \subseteq pending
  BY ForeignType DEF ExecuteBuilt, ExecuteForeign, TypeOK

\* The instructions of a call are those of the transaction it is about.
LEMMA InstructionsType ==
    ASSUME NEW t \in Transaction, NEW is \in Instructions(t)
    PROVE  /\ is \in Seq(Transaction) /\ is # <<>>
           /\ \A n \in DOMAIN is :
                /\ is[n].who = t.who
                /\ is[n].type = "sale" => t.type \in {"sale", "buy"}
                /\ is[n].type = "transfer" => t.type \in {"transfer", "tensorBuy"}
                /\ is[n].type = "tensorBuy" => t.type = "tensorBuy"
  <1>1. \A type \in AllKinds :
          /\ [t EXCEPT !.type = type] \in Transaction
          /\ [t EXCEPT !.type = type].who = t.who
          /\ [t EXCEPT !.type = type].type = type
    BY DEF Transaction
  <1>2. {"bid", "sale", "transfer"} \subseteq AllKinds
    BY DEF AllKinds, AuctionKinds
  <1>3. CASE t.type = "buy"
    <2>1. is = <<[t EXCEPT !.type = "bid"], [t EXCEPT !.type = "sale"]>>
      BY <1>3 DEF Instructions
    <2> DEFINE a == [t EXCEPT !.type = "bid"]
               b == [t EXCEPT !.type = "sale"]
    <2>2. /\ a \in Transaction /\ a.who = t.who /\ a.type = "bid"
          /\ b \in Transaction /\ b.who = t.who /\ b.type = "sale"
      BY <1>1, <1>2
    <2> HIDE DEF a, b
    <2>3. <<a, b>> \in Seq(Transaction) /\ <<a, b>> # <<>> /\ DOMAIN <<a, b>> = {1, 2}
      BY <2>2
    <2>4. is = <<a, b>>
      BY <2>1 DEF a, b
    <2> QED BY <1>3, <2>2, <2>3, <2>4
  <1>4. CASE t.type = "tensorBuy"
    <2> DEFINE a == [t EXCEPT !.type = "transfer"]
    <2>1. a \in Transaction /\ a.who = t.who /\ a.type = "transfer"
      BY <1>1, <1>2
    <2>2. is = <<t>> \/ is = <<a>>
      BY <1>4 DEF Instructions
    <2> HIDE DEF a
    <2>3. CASE is = <<t>>
      BY <1>4, <2>3
    <2>4. CASE is = <<a>>
      BY <1>4, <2>1, <2>4
    <2> QED BY <2>2, <2>3, <2>4
  <1>5. CASE t.type \notin {"buy", "tensorBuy"}
    <2>1. is = <<t>>
      BY <1>5 DEF Instructions
    <2> QED BY <1>5, <2>1
  <1> QED BY <1>3, <1>4, <1>5

LEMMA DeliverType ==
    ASSUME TypeOK, NEW d \in Deliveries, Deliver(d)
    PROVE  /\ PlaceOK'
           /\ started' \in 0 .. Len(log) /\ order' \in {"sequential", "ordered", "any"}
           /\ at' = [at EXCEPT ![d] = "start"]
           /\ \E is \in Instructions(log[d[1]]) : todo' = [todo EXCEPT ![d] = is]
           /\ log[d[1]] \in Transaction /\ d[1] \in DOMAIN log
           /\ UNCHANGED <<rowVars, chainVars, bidOf, listingOf, missed>>
  <1>1. log[d[1]] \in Transaction /\ d[1] \in 1 .. Len(log) /\ Len(log) \in Nat
    BY DEF TypeOK, Deliver
  <1>2. PICK is \in Instructions(log[d[1]]) : todo' = [todo EXCEPT ![d] = is]
    BY DEF Deliver
  <1>3. is \in Seq(Transaction) /\ is # <<>>
    BY <1>1, InstructionsType
  <1>4. at' = [at EXCEPT ![d] = "start"]
    BY DEF Deliver
  <1>5. PlaceOK'
    BY <1>2, <1>3, <1>4 DEF PlaceOK, TypeOK, Stages, Running
  <1>6. started' \in 0 .. Len(log)
    BY <1>1 DEF Deliver, TypeOK
  <1>7. order' \in {"sequential", "ordered", "any"}
    BY DEF Deliver, TypeOK
  <1> QED BY <1>1, <1>2, <1>4, <1>5, <1>6, <1>7 DEF Deliver
\* Every variable keeps its type and every row a handler holds exists, however
\* calls interleave, repeat and fail.
THEOREM TypeCorrect == Spec => [](TypeOK /\ Locals)
  <1>1. Init => TypeOK /\ Locals
    <2> SUFFICES ASSUME Init PROVE TypeOK /\ Locals
      OBVIOUS
    <2>1. chain \in Chain
      BY MarketAssumption DEF Init, Chain, Amounts
    <2>2. /\ <<>> \in Seq(Transaction) /\ <<>> \in Seq(ListingRow) /\ <<>> \in Seq(Bid)
          /\ Len(<<>>) = 0
      BY MarketAssumption
    <2>3. started \in 0 .. Len(log) /\ log \in Seq(Transaction)
      BY <2>2 DEF Init
    <2>4. \A d \in Deliveries : at[d] = "idle"
      BY DEF Init
    <2>5. TypeOK
      <3>1. states \in Seq(Chain)
        BY <2>1 DEF Init
      <3> QED BY <2>1, <2>2, <2>3, <2>4, <3>1 DEF Init, TypeOK, Stages
    <2>6. Locals
      BY <2>4 DEF Locals
    <2> QED BY <2>5, <2>6
  <1>2. TypeOK /\ Locals /\ [Next]_vars => (TypeOK /\ Locals)'
    <2> SUFFICES ASSUME TypeOK, Locals, [Next]_vars PROVE TypeOK' /\ Locals'
      OBVIOUS
    <2>0. PlaceOK /\ (PlaceOK' => /\ todo' \in [Deliveries -> Seq(Transaction)]
                                  /\ at' \in [Deliveries -> Stages]
                                  /\ \A d \in Deliveries :
                                      at'[d] \notin {"idle", "done"} => todo'[d] # <<>>)
      BY DEF TypeOK, PlaceOK, Running
    <2>1. CASE BuildTransaction
      BY <2>1, BuiltType DEF TypeOK, Locals, rowVars, handlerVars, historyVars
    <2>2. CASE ExecuteBuilt \/ ExecuteForeign
      <3>1. PICK t \in Transaction : Execute(t) /\ pending' \subseteq pending
        BY <2>2, ChainStep
      <3>2. started' \in 0 .. Len(log')
        BY <3>1, ExecuteType DEF TypeOK, historyVars
      <3>3. UNCHANGED <<rowVars, handlerVars, historyVars>>
        BY <3>1, ExecuteType
      <3>4. /\ pending' \subseteq Transaction /\ log' \in Seq(Transaction)
            /\ chain' \in Chain /\ states' \in Seq(Chain)
        BY <3>1, ExecuteType DEF TypeOK
      <3>5. TypeOK'
        BY <3>2, <3>3, <3>4 DEF TypeOK, rowVars, handlerVars, historyVars
      <3>6. Locals'
        BY <3>3 DEF Locals, rowVars, handlerVars
      <3> QED BY <3>5, <3>6
    <2>3. ASSUME NEW d \in Deliveries, Deliver(d) PROVE TypeOK' /\ Locals'
      <3>0. /\ PlaceOK' /\ UNCHANGED <<rowVars, chainVars, bidOf, listingOf, missed>>
            /\ started' \in 0 .. Len(log')
            /\ order' \in {"sequential", "ordered", "any"}
        BY <2>3, DeliverType DEF chainVars
      <3>1. TypeOK'
        BY <2>0, <3>0 DEF TypeOK, rowVars, chainVars
      <3>2. UNCHANGED <<bids, listings, bidOf, listingOf>> /\ at'[d] = "start"
        BY <2>3, DeliverType DEF rowVars, TypeOK
      <3>3. \A e \in Deliveries \ {d} : todo'[e] = todo[e] /\ at'[e] = at[e]
        BY <2>3, DeliverType DEF TypeOK
      <3> QED BY <3>1, <3>2, <3>3 DEF Locals
    <2>4. ASSUME NEW d \in Deliveries, Handler(d) PROVE TypeOK' /\ Locals'
      <3>1. Running(d) /\ Advance(d) /\ UNCHANGED <<chainVars, started, order>>
        BY <2>4, HandlerAdvances
      <3>2. PlaceOK' /\ \A e \in Deliveries \ {d} : todo'[e] = todo[e] /\ at'[e] = at[e]
        BY <2>0, <3>1, AdvanceType
      <3>3. TypeOK'
        BY <2>0, <2>4, <3>1, <3>2, HandlerRest, ListingsGrow, BidsGrow
           DEF TypeOK, chainVars
      <3>4. Locals'
        BY <2>4, <3>2, HandlerRest, ListingsGrow, BidsGrow, ZenonT(60) DEF Locals
      <3> QED BY <3>3, <3>4
    <2>5. ASSUME NEW d \in Deliveries, Fail(d) PROVE TypeOK' /\ Locals'
      <3>1. Running(d) /\ Advance(d) /\ at' = [at EXCEPT ![d] = "done"]
        BY <2>5 DEF Fail, Advance, Throw
      <3>2. PlaceOK' /\ \A e \in Deliveries \ {d} : todo'[e] = todo[e] /\ at'[e] = at[e]
        BY <2>0, <3>1, AdvanceType
      <3>3. TypeOK'
        BY <2>0, <2>5, <3>2 DEF Fail, TypeOK, rowVars, chainVars
      <3>4. Locals'
        BY <2>5, <3>1, <3>2 DEF Fail, Locals, TypeOK, rowVars
      <3> QED BY <3>3, <3>4
    <2>6. CASE UNCHANGED vars
      BY <2>6 DEF TypeOK, Locals, vars, rowVars, chainVars, handlerVars, historyVars
    <2>7. ASSUME NEW w \in Wallets, ConnectWallet(w) PROVE TypeOK' /\ Locals'
      BY <2>7, ConnectStep
         DEF TypeOK, Locals, tables, chainVars, handlerVars, historyVars
    <2> QED BY <2>1, <2>2, <2>3, <2>4, <2>5, <2>6, <2>7 DEF Next
  <1> QED BY <1>1, <1>2, PTL DEF Spec
-----------------------------------------------------------------------------
(* The history of prices is final.                                           *)

\* Every step keeps what is closed or sold: the two lemmas on moves, for all
\* of them.
THEOREM HistoryFixedAlways == Spec => HistoryFixed
  <1> DEFINE Fixed ==
        /\ \A i \in DOMAIN listings : ~listings[i].open =>
             i \in DOMAIN listings' /\ Settled(listings'[i]) = Settled(listings[i])
        /\ \A b \in DOMAIN bids : ~bids[b].open =>
             b \in DOMAIN bids' /\ bids'[b] = bids[b]
        /\ sales \subseteq sales'
  <1>1. TypeOK /\ Locals /\ [Next]_vars => [Fixed]_vars
    <2> SUFFICES ASSUME TypeOK, Locals, Next PROVE Fixed
      OBVIOUS
    <2>1. (UNCHANGED rowVars \/ UNCHANGED tables) => Fixed
      BY DEF rowVars, tables
    <2>2. CASE BuildTransaction
      BY <2>1, <2>2, BuiltType
    <2>3. CASE ExecuteBuilt \/ ExecuteForeign
      BY <2>1, <2>3, ChainStep, ExecuteType
    <2>4. ASSUME NEW d \in Deliveries, Deliver(d) \/ Fail(d) PROVE Fixed
      BY <2>1, <2>4 DEF Deliver, Fail
    <2>5. ASSUME NEW d \in Deliveries, Handler(d) PROVE Fixed
      BY <2>5, ListingsGrow, BidsGrow, HandlerRest
    <2>6. ASSUME NEW w \in Wallets, ConnectWallet(w) PROVE Fixed
      BY <2>1, <2>6, ConnectStep
    <2> HIDE DEF Fixed
    <2> QED BY <2>2, <2>3, <2>4, <2>5, <2>6 DEF Next
  <1> QED BY <1>1, TypeCorrect, PTL DEF Spec, HistoryFixed

-----------------------------------------------------------------------------
(* A recorded sale is whole.                                                 *)

\* A handler adds at most one sale, of what was open and is then closed, and
\* makes an owner only of the one its instruction names.
RecordsMove(d) ==
    LET t == todo[d][1] IN
    /\ \/ owner' = owner
       \/ owner' = t.who /\ t.type \in {"sale", "transfer", "tensorBuy"}
    /\ \/ sales' = sales
       \/ \E i \in OpenListings :
            /\ ~listings'[i].open
            /\ \/ sales' = sales \cup {[listing |-> i, bid |-> NoBid, price |-> t.price]}
               \/ \E b \in OpenBids(t.who) :
                    /\ at[d] = "sale" /\ ~bids'[b].open
                    /\ sales' = sales \cup {[listing |-> i, bid |-> b,
                                             price |-> bids[bidOf[d]].amount]}

LEMMA HandlerRecords ==
    ASSUME TypeOK, Locals, NEW d \in Deliveries, Handler(d)
    PROVE  RecordsMove(d)
  <1>1. \A i \in OpenListings : i \in DOMAIN listings /\ listings[i] \in ListingRow
    BY DEF TypeOK, OpenListings
  <1>2. \A i \in OpenListings : listings' = Close(i) => ~listings'[i].open
    BY <1>1 DEF Close, ListingRow
  <1>3. \A w : \A b \in OpenBids(w) :
          bids' = [bids EXCEPT ![b].open = FALSE] => ~bids'[b].open
    <2>1. \A w : \A b \in OpenBids(w) : b \in DOMAIN bids /\ bids[b] \in Bid
      BY DEF TypeOK, OpenBids
    <2> QED BY <2>1 DEF Bid
  <1>4. CASE CreateSale(d)
    <2>1. todo[d][1].type = "sale"
      BY <1>4 DEF CreateSale, Locals
    <2> QED BY <1>2, <1>3, <1>4, <2>1 DEF CreateSale, SaleOf, SaleFails, RecordsMove
  <1>5. CASE HandleTensorBuying(d)
    BY <1>2, <1>5 DEF HandleTensorBuying, Handles, RecordsMove
  <1>6. CASE HandleAssetTransfer(d)
    BY <1>6 DEF HandleAssetTransfer, Handles, RecordsMove
  <1>7. CASE ~(CreateSale(d) \/ HandleTensorBuying(d) \/ HandleAssetTransfer(d))
    <2>1. UNCHANGED <<owner, sales>>
      BY <1>7 DEF Handler, HandleAssetListing, HandleAssetBid, MatchListing,
           UpdateHighestBid, HandleAssetSale, HandleCancelBid,
           HandleCancelListing, HandleListingReprice, CloseListing,
           HandleAssetBurn, HandleTensorListing, rowVars
    <2> QED BY <2>1, ZenonT(60) DEF RecordsMove
  <1> QED BY <1>4, <1>5, <1>6, <1>7
\* A bidder keeps at most one open bid.
OneOpenBid == \A w \in Wallets : \A b, c \in OpenBids(w) : b = c

LEMMA HandlerOneOpenBid ==
    ASSUME TypeOK, NEW d \in Deliveries, Handler(d), OneOpenBid
    PROVE  OneOpenBid'
  <1>1. bids \in Seq(Bid)
    BY DEF TypeOK
  <1>2. CASE bids' = bids
    BY <1>2 DEF OneOpenBid, OpenBids
  <1>3. ASSUME NEW r \in Bid, r.open, OpenBids(r.bidder) = {}, bids' = Append(bids, r)
        PROVE  OneOpenBid'
    <2> DEFINE next == Append(bids, r)
    <2>0. /\ \A b \in DOMAIN bids : b \in DOMAIN next /\ next[b] = bids[b]
          /\ next[Len(bids) + 1] = r
          /\ \A b \in DOMAIN next : b \in DOMAIN bids \/ b = Len(bids) + 1
      BY <1>1, RowAdded
    <2>3. bids' = next
      BY <1>3
    <2> HIDE DEF next
    <2>1. \A b \in DOMAIN bids' : \/ b \in DOMAIN bids /\ bids'[b] = bids[b]
                                  \/ b = Len(bids) + 1 /\ bids'[b] = r
      BY <2>0, <2>3
    <2>2. ASSUME NEW w \in Wallets, NEW b \in OpenBids(w)', NEW c \in OpenBids(w)'
          PROVE  b = c
      <3>1. /\ b \in DOMAIN bids' /\ bids'[b].open /\ bids'[b].bidder = w
            /\ c \in DOMAIN bids' /\ bids'[c].open /\ bids'[c].bidder = w
        BY <2>2 DEF OpenBids
      <3>2. CASE w = r.bidder
        BY <1>3, <2>1, <3>1, <3>2 DEF OpenBids
      <3>3. CASE w # r.bidder
        <4>1. b \in OpenBids(w) /\ c \in OpenBids(w)
          BY <2>1, <3>1, <3>3 DEF OpenBids
        <4> QED BY <4>1 DEF OneOpenBid
      <3> QED BY <3>2, <3>3
    <2> QED BY <2>2 DEF OneOpenBid
  <1>4. ASSUME NEW b \in DOMAIN bids, bids' = [bids EXCEPT ![b].open = FALSE]
        PROVE  OneOpenBid'
    <2>1. \A c \in DOMAIN bids : bids[c] \in Bid
      BY <1>1
    <2>2. DOMAIN bids' = DOMAIN bids /\ \A c \in DOMAIN bids :
            bids'[c].bidder = bids[c].bidder /\ (bids'[c].open => bids[c].open)
      BY <1>4, <2>1 DEF Bid
    <2> QED BY <2>2 DEF OneOpenBid, OpenBids
  <1> QED BY <1>2, <1>3, <1>4, HandlerBids DEF BidsMove

\* A sale that was whole stays whole.
LEMMA SalesKept ==
    ASSUME TypeOK, Locals, SaleSettled, NEW d \in Deliveries, Handler(d),
           NEW s \in sales
    PROVE  /\ s.listing \in DOMAIN listings' /\ ~listings'[s.listing].open
           /\ s.bid # NoBid => s.bid \in DOMAIN bids' /\ ~bids'[s.bid].open
           /\ s.bid # NoBid /\ order' = "sequential" => s.price = bids'[s.bid].amount
  <1>1. /\ s.listing \in DOMAIN listings /\ ~listings[s.listing].open
        /\ s.bid # NoBid => s.bid \in DOMAIN bids /\ ~bids[s.bid].open
        /\ s.bid # NoBid /\ order = "sequential" => s.price = bids[s.bid].amount
    BY DEF SaleSettled
  <1>2. order' = order
    BY HandlerAdvances
  <1>3. s.listing \in DOMAIN listings' /\ ~listings'[s.listing].open
    BY <1>1, ListingsGrow DEF Settled
  <1> QED BY <1>1, <1>2, <1>3, BidsGrow

\* A sale that a handler adds claims what no other sale does.
LEMMA SalesAdded ==
    ASSUME TypeOK, Locals, SettledInv, NEW d \in Deliveries, Handler(d)
    PROVE  SaleSettled'
  <1>1. CASE sales' = sales
    BY <1>1, SalesKept DEF SettledInv, SaleSettled
  <1>2. ASSUME NEW i \in OpenListings, NEW b, NEW price,
               ~listings'[i].open,
               \/ b = NoBid
               \/ /\ b \in DOMAIN bids /\ bids[b].open /\ ~bids'[b].open
                  /\ order = "sequential" => price = bids[b].amount,
               sales' = sales \cup {[listing |-> i, bid |-> b, price |-> price]}
        PROVE  SaleSettled'
    <2> DEFINE new == [listing |-> i, bid |-> b, price |-> price]
    <2>1. i \in DOMAIN listings' /\ i \in DOMAIN listings /\ listings[i].open
      BY ListingsGrow DEF OpenListings
    <2>2. \A s \in sales : s.listing # i /\ (b # NoBid => s.bid # b)
      BY <1>2, <2>1 DEF SettledInv, SaleSettled
    <2>3. order' = order
      BY HandlerAdvances
    <2>4. b # NoBid => /\ b \in DOMAIN bids' /\ ~bids'[b].open
                       /\ order' = "sequential" => price = bids'[b].amount
      BY <1>2, <2>3, BidsGrow
    <2>5. new.listing = i /\ new.bid = b /\ new.price = price
      OBVIOUS
    <2>6. sales' = sales \cup {new}
      BY <1>2
    <2> HIDE DEF new
    <2>7. \A s \in sales' :
            /\ s.listing \in DOMAIN listings' /\ ~listings'[s.listing].open
            /\ s.bid # NoBid => s.bid \in DOMAIN bids' /\ ~bids'[s.bid].open
            /\ s.bid # NoBid /\ order' = "sequential" => s.price = bids'[s.bid].amount
      BY <1>2, <2>1, <2>4, <2>5, <2>6, SalesKept DEF SettledInv
    <2>8. \A s, r \in sales :
            s.listing = r.listing \/ (s.bid = r.bid /\ s.bid # NoBid) => s = r
      BY DEF SettledInv, SaleSettled
    <2>9. \A s, r \in sales' :
            s.listing = r.listing \/ (s.bid = r.bid /\ s.bid # NoBid) => s = r
      BY <2>2, <2>5, <2>6, <2>8
    <2> QED BY <2>7, <2>9 DEF SaleSettled, NoBid
  <1>3. ASSUME NEW i \in OpenListings, NEW b \in OpenBids(todo[d][1].who),
               ~listings'[i].open, ~bids'[b].open, at[d] = "sale",
               sales' = sales \cup {[listing |-> i, bid |-> b,
                                    price |-> bids[bidOf[d]].amount]}
        PROVE  SaleSettled'
    <2>1. b \in DOMAIN bids /\ bids[b].open
      BY DEF OpenBids
    <2>2. todo[d][1].who \in Wallets
      BY AtInstruction, HandlerAdvances DEF TypeOK, PlaceOK, Running, Transaction
    <2>3. order = "sequential" => bids[bidOf[d]].amount = bids[b].amount
      BY <1>3, <2>2 DEF SettledInv, PriceInv
    <2> QED BY <1>2, <1>3, <2>1, <2>3
  <1>4. ASSUME NEW i \in OpenListings, NEW price, ~listings'[i].open,
               sales' = sales \cup {[listing |-> i, bid |-> NoBid, price |-> price]}
        PROVE  SaleSettled'
    BY <1>2, <1>4
  <1>5. RecordsMove(d)
    BY HandlerRecords
  <1> QED BY <1>1, <1>3, <1>4, <1>5 DEF RecordsMove

\* The sales need that the open bid of a buyer is unique and, for the price,
\* that it is the one the only running handler read: PriceInv.
LEMMA SettledHolds == Spec => []SettledInv
  <1>1. Init => SettledInv
    BY DEF Init, SettledInv, SaleSettled, PriceInv, OpenBids, Running
  <1>2. TypeOK /\ Locals /\ SettledInv /\ [Next]_vars => SettledInv'
    <2> SUFFICES ASSUME TypeOK, Locals, SettledInv, [Next]_vars PROVE SettledInv'
      OBVIOUS
    <2>0. PlaceOK /\ OneOpenBid
      BY DEF TypeOK, PlaceOK, Running, SettledInv, PriceInv, OneOpenBid
    <2>1. ASSUME UNCHANGED <<tables, handlerVars, historyVars>> PROVE SettledInv'
      BY <2>1 DEF SettledInv, SaleSettled, PriceInv, OpenBids, Running, tables,
                  handlerVars, historyVars
    <2>2. CASE BuildTransaction
      BY <2>1, <2>2, BuiltType DEF rowVars, tables
    <2>3. CASE ExecuteBuilt \/ ExecuteForeign
      BY <2>1, <2>3, ChainStep, ExecuteType DEF rowVars, tables
    <2>4. ASSUME NEW d \in Deliveries, Deliver(d) PROVE SettledInv'
      <3>1. UNCHANGED <<rowVars, bidOf>> /\ at' = [at EXCEPT ![d] = "start"]
        BY <2>4 DEF Deliver
      <3>2. order' = "sequential" => order = "sequential" /\ Quiet
        BY <2>4 DEF Deliver
      <3>3. SaleSettled'
        BY <3>1, <3>2 DEF SettledInv, SaleSettled, rowVars
      <3>4. \A e \in Deliveries : at'[e] = IF e = d THEN "start" ELSE at[e]
        BY <3>1 DEF TypeOK
      <3>5. PriceInv'
        BY <3>1, <3>2, <3>4 DEF SettledInv, PriceInv, OpenBids, Running, Quiet, rowVars
      <3> QED BY <3>3, <3>5 DEF SettledInv
    <2>5. ASSUME NEW d \in Deliveries, Handler(d) PROVE SettledInv'
      <3>1. Running(d) /\ Advance(d) /\ order' = order
        BY <2>5, HandlerAdvances
      <3>2. \A e \in Deliveries \ {d} : todo'[e] = todo[e] /\ at'[e] = at[e]
        BY <2>0, <3>1, AdvanceType
      <3>3. OneOpenBid' /\ SaleSettled'
        BY <2>0, <2>5, HandlerOneOpenBid, SalesAdded
      <3>4. ASSUME order' = "sequential", NEW e \in Deliveries, Running(e)'
            PROVE  e = d
        BY <3>1, <3>2, <3>4 DEF Running, SettledInv, PriceInv
      <3>5. at'[d] = "sale" => bidOf'[d] \in OpenBids(todo[d][1].who)'
        <4>1. CASE HandleAssetSale(d)
          <5>1. bids' = bids
            BY <4>1 DEF HandleAssetSale, rowVars
          <5>2. CASE Throw(d)
            BY <5>2 DEF Throw, TypeOK
          <5>3. ASSUME NEW b \in OpenBids(todo[d][1].who), Goto(d, "sale"),
                       bidOf' = [bidOf EXCEPT ![d] = b]
                PROVE  bidOf'[d] \in OpenBids(todo[d][1].who)'
            <6>1. bidOf'[d] = b /\ todo' = todo
              BY <5>3 DEF Goto, TypeOK
            <6> QED BY <5>1, <5>3, <6>1 DEF OpenBids
          <5>4. \/ Throw(d)
                \/ \E b \in OpenBids(todo[d][1].who) :
                     Goto(d, "sale") /\ bidOf' = [bidOf EXCEPT ![d] = b]
            BY <4>1 DEF HandleAssetSale
          <5> QED BY <5>2, <5>3, <5>4
        <4>2. CASE ~HandleAssetSale(d)
          <5>1. \/ Handled(d) \/ Throw(d)
                \/ \E stage \in {"match", "outbid", "close"} : Goto(d, stage)
            BY <2>5, <4>2 DEF Handler, HandleAssetListing, HandleAssetBid,
                 MatchListing, UpdateHighestBid, CreateSale, SaleOf, SaleFails,
                 HandleCancelBid, HandleCancelListing, HandleListingReprice, HandleAssetTransfer,
                 CloseListing, HandleAssetBurn, HandleTensorListing,
                 HandleTensorBuying
          <5> QED BY <5>1, ZenonT(60) DEF Handled, Throw, Goto, TypeOK
        <4> QED BY <4>1, <4>2
      <3>6. PriceInv'
        <4>1. \A e \in Deliveries : at'[e] = "sale" => Running(e)'
          BY DEF Running
        <4>2. order' = "sequential" => \A e \in Deliveries :
                at'[e] = "sale" => bidOf'[e] \in OpenBids(todo[e][1].who)'
          BY <3>4, <3>5, <4>1
        <4>3. order' = "sequential" =>
                \A e, f \in Deliveries : Running(e)' /\ Running(f)' => e = f
          BY <3>4
        <4>4. \A w \in Wallets : \A b, c \in OpenBids(w)' : b = c
          BY <3>3 DEF OneOpenBid
        <4> QED BY <4>2, <4>3, <4>4 DEF PriceInv
      <3> QED BY <3>3, <3>6 DEF SettledInv
    <2>6. ASSUME NEW d \in Deliveries, Fail(d) PROVE SettledInv'
      BY <2>6 DEF Fail, SettledInv, SaleSettled, PriceInv, OpenBids, rowVars
    <2>7. CASE UNCHANGED vars
      BY <2>1, <2>7 DEF vars, rowVars, tables
    <2>8. ASSUME NEW w \in Wallets, ConnectWallet(w) PROVE SettledInv'
      BY <2>1, <2>8, ConnectStep
    <2> QED BY <2>2, <2>3, <2>4, <2>5, <2>6, <2>7, <2>8 DEF Next
  <1> QED BY <1>1, <1>2, TypeCorrect, PTL DEF Spec

\* However calls interleave, repeat and fail, every sale is whole.
THEOREM SaleSettledAlways == Spec => []SaleSettled
  <1>1. SettledInv => SaleSettled
    BY DEF SettledInv
  <1> QED BY <1>1, SettledHolds, PTL

-----------------------------------------------------------------------------
(* What the database records did happen.                                     *)

\* A handler records an owner or a bidder only from an instruction, and an
\* instruction only repeats the log: HappenedInv.  That the bids of old sales
\* exist is SaleSettled.
THEOREM RecordsHappenedAlways == Spec => []RecordsHappened
  <1>1. Init => HappenedInv
    BY DEF Init, HappenedInv, RecordsHappened
  <1>2. TypeOK /\ Locals /\ SaleSettled /\ HappenedInv /\ [Next]_vars => HappenedInv'
    <2> SUFFICES ASSUME TypeOK, Locals, SaleSettled, HappenedInv, [Next]_vars
                 PROVE  HappenedInv'
      OBVIOUS
    <2>1. ASSUME UNCHANGED <<tables, handlerVars>>,
                 \A i \in DOMAIN log : i \in DOMAIN log' /\ log'[i] = log[i]
          PROVE  HappenedInv'
      <3>1. \A w : (Bought(w) => Bought(w)') /\ (SoldTo(w) => SoldTo(w)')
        BY <2>1 DEF Bought, SoldTo
      <3>2. \A t : FromLog(t) => FromLog(t)'
        BY <3>1 DEF FromLog
      <3>3. RecordsHappened'
        BY <2>1, <3>1 DEF HappenedInv, RecordsHappened, SoldTo, tables
      <3> QED BY <2>1, <3>2, <3>3 DEF HappenedInv, handlerVars
    <2>2. CASE BuildTransaction
      BY <2>1, <2>2, BuiltType DEF rowVars, tables
    <2>3. CASE ExecuteBuilt \/ ExecuteForeign
      BY <2>1, <2>3, ChainStep, ExecuteType DEF rowVars, tables
    <2>4. ASSUME UNCHANGED log, RecordsHappened', NEW d \in Deliveries,
                 \A e \in Deliveries \ {d} : todo'[e] = todo[e],
                 \A n \in DOMAIN todo'[d] : FromLog(todo'[d][n])
          PROVE  HappenedInv'
      <3>1. \A t : FromLog(t) => FromLog(t)'
        BY <2>4 DEF FromLog, Bought, SoldTo
      <3> QED BY <2>4, <3>1 DEF HappenedInv
    <2>5. ASSUME NEW d \in Deliveries, Deliver(d) PROVE HappenedInv'
      <3>1. PICK is \in Instructions(log[d[1]]) : todo' = [todo EXCEPT ![d] = is]
        BY <2>5, DeliverType
      <3>2. /\ log[d[1]] \in Transaction /\ d[1] \in DOMAIN log
            /\ UNCHANGED <<rowVars, log>>
        BY <2>5, DeliverType DEF chainVars
      <3>3. \A n \in DOMAIN is : FromLog(is[n])
        BY <3>2, InstructionsType DEF FromLog, Bought, SoldTo
      <3>4. RecordsHappened'
        BY <3>2 DEF HappenedInv, RecordsHappened, Bought, rowVars
      <3>5. todo'[d] = is /\ \A e \in Deliveries \ {d} : todo'[e] = todo[e]
        BY <3>1 DEF TypeOK
      <3> QED BY <2>4, <3>2, <3>3, <3>4, <3>5
    <2>6. ASSUME NEW d \in Deliveries, Handler(d) \/ Fail(d) PROVE HappenedInv'
      <3>0. PlaceOK
        BY DEF TypeOK, PlaceOK, Running
      <3>1. Running(d) /\ Advance(d) /\ UNCHANGED log
        BY <2>6, HandlerAdvances DEF Fail, Advance, chainVars
      <3>2. /\ \A e \in Deliveries \ {d} : todo'[e] = todo[e]
            /\ \A n \in DOMAIN todo'[d] : \E k \in DOMAIN todo[d] :
                 todo'[d][n] = todo[d][k]
        BY <3>0, <3>1, AdvanceType
      <3>3. \A n \in DOMAIN todo'[d] : FromLog(todo'[d][n])
        BY <3>2 DEF HappenedInv
      <3>4. FromLog(todo[d][1])
        BY <3>0, <3>1, AtInstruction DEF HappenedInv
      <3>5. \A w : (Bought(w) <=> Bought(w)') /\ (SoldTo(w) <=> SoldTo(w)')
        BY <3>1 DEF Bought, SoldTo
      <3>6. CASE Fail(d)
        <4>1. RecordsHappened'
          BY <3>1, <3>6 DEF Fail, HappenedInv, RecordsHappened, Bought, rowVars
        <4> QED BY <2>4, <3>1, <3>2, <3>3, <4>1
      <3>7. CASE Handler(d)
        <4>1. owner' = FirstOwner \/ Bought(owner')
          <5>1. \/ owner' = owner
                \/ /\ owner' = todo[d][1].who
                   /\ todo[d][1].type \in {"sale", "transfer", "tensorBuy"}
            BY <3>7, HandlerRecords DEF RecordsMove
          <5>2. Bought(todo[d][1].who) \/ owner' = owner
            BY <3>4, <5>1 DEF FromLog, Bought, SoldTo
          <5> QED BY <3>1, <5>1, <5>2 DEF HappenedInv, RecordsHappened, Bought
        <4>2. ASSUME NEW s \in sales', s.bid # NoBid
              PROVE  SoldTo(bids'[s.bid].bidder)
          <5>1. CASE s \in sales
            <6>1. SoldTo(bids[s.bid].bidder) /\ s.bid \in DOMAIN bids
              BY <4>2, <5>1 DEF HappenedInv, RecordsHappened, SoldTo, SaleSettled
            <6> QED BY <3>7, <6>1, BidsGrow
          <5>2. CASE s \notin sales
            <6>1. PICK b \in OpenBids(todo[d][1].who) : s.bid = b /\ at[d] = "sale"
              BY <3>7, <4>2, <5>2, HandlerRecords DEF RecordsMove
            <6>2. b \in DOMAIN bids /\ bids[b].bidder = todo[d][1].who
              BY DEF OpenBids
            <6>3. bids'[b].bidder = todo[d][1].who
              BY <3>7, <6>2, BidsGrow
            <6>4. SoldTo(todo[d][1].who)
              BY <3>4, <6>1 DEF FromLog, Locals
            <6> QED BY <6>1, <6>3, <6>4
          <5> QED BY <5>1, <5>2
        <4>3. RecordsHappened'
          BY <3>1, <4>1, <4>2 DEF RecordsHappened, Bought, SoldTo
        <4> QED BY <2>4, <3>1, <3>2, <3>3, <4>3
      <3> QED BY <2>6, <3>6, <3>7
    <2>7. CASE UNCHANGED vars
      BY <2>1, <2>7 DEF vars, chainVars, rowVars, tables
    <2>8. ASSUME NEW w \in Wallets, ConnectWallet(w) PROVE HappenedInv'
      BY <2>1, <2>8, ConnectStep DEF chainVars
    <2> QED BY <2>2, <2>3, <2>5, <2>6, <2>7, <2>8 DEF Next
  <1>3. HappenedInv => RecordsHappened
    BY DEF HappenedInv
  <1> QED BY <1>1, <1>2, <1>3, TypeCorrect, SaleSettledAlways, PTL DEF Spec

-----------------------------------------------------------------------------
(* The database says what the chain says.                                    *)

\* What a transaction does to each part of the chain's state.
Moves == {"sale", "buy", "tensorBuy", "transfer"}

ListingAfter(c, t) ==
    IF t.type \in Moves \cup {"cancelListing", "tensorDelist"} THEN NoListing
    ELSE IF t.type = "reprice" THEN [c.listing EXCEPT !.price = t.price]
    ELSE IF t.type \in {"list", "timedList", "tensorList"}
         THEN [seller |-> t.seller, price |-> t.price,
               source |-> IF t.type = "tensorList" THEN "tensor" ELSE "auction",
               timed |-> t.type = "timedList"]
    ELSE c.listing

BidsAfter(c, t) ==
    IF t.type = "bid" THEN [c.bids EXCEPT ![t.who] = t.price]
    ELSE IF t.type \in {"sale", "cancelBid"} THEN [c.bids EXCEPT ![t.who] = 0]
    ELSE c.bids

LEMMA EffectFields ==
    ASSUME NEW c \in Chain, NEW t \in Transaction
    PROVE  /\ Effect(c, t).owner = IF t.type \in Moves THEN t.who ELSE c.owner
           /\ Effect(c, t).burned = IF t.type = "burn" THEN TRUE ELSE c.burned
           /\ Effect(c, t).listing = ListingAfter(c, t)
           /\ Effect(c, t).bids = BidsAfter(c, t)
  <1>0. t.type \in AllKinds /\ t.who \in Wallets /\ c.bids \in [Wallets -> Amounts]
    BY DEF Transaction, Chain
  <1>1. CASE t.type \in {"list", "timedList", "tensorList"}
    BY <1>1 DEF Effect, Chain, Moves, ListingAfter, BidsAfter
  <1>2. CASE t.type = "reprice"
    <2>1. Effect(c, t) = [c EXCEPT !.listing = [c.listing EXCEPT !.price = t.price]]
      BY <1>2 DEF Effect, Chain
    <2> QED BY <1>2, <2>1 DEF Chain, Moves, ListingAfter, BidsAfter
  <1>3. CASE t.type \in {"cancelListing", "tensorDelist"}
    BY <1>3 DEF Effect, Chain, Moves, ListingAfter, BidsAfter
  <1>4. CASE t.type = "bid"
    <2>1. Effect(c, t) = [c EXCEPT !.bids = [c.bids EXCEPT ![t.who] = t.price]]
      BY <1>4 DEF Effect, Chain
    <2> QED BY <1>4, <2>1 DEF Chain, Moves, ListingAfter, BidsAfter
  <1>5. CASE t.type = "cancelBid"
    <2>1. Effect(c, t) = [c EXCEPT !.bids = [c.bids EXCEPT ![t.who] = 0]]
      BY <1>5 DEF Effect, Chain
    <2> QED BY <1>5, <2>1 DEF Chain, Moves, ListingAfter, BidsAfter
  <1>6. CASE t.type = "burn"
    BY <1>6 DEF Effect, Chain, Moves, ListingAfter, BidsAfter
  <1>7. CASE t.type \in Moves
    <2> DEFINE left == IF t.type = "sale" THEN 0 ELSE c.bids[t.who]
    <2>1. Effect(c, t) = [c EXCEPT !.owner = t.who, !.listing = NoListing,
                           !.bids = [c.bids EXCEPT ![t.who] = left]]
      BY <1>7 DEF Effect, Chain, Moves
    <2>2. [c.bids EXCEPT ![t.who] = left] = BidsAfter(c, t)
      BY <1>0, <1>7 DEF BidsAfter, Moves
    <2> HIDE DEF left
    <2> QED BY <1>7, <2>1, <2>2 DEF Chain, Moves, ListingAfter
  <1> QED BY <1>0, <1>1, <1>2, <1>3, <1>4, <1>5, <1>6, <1>7
          DEF AllKinds, AuctionKinds, TensorKinds, Moves

\* A listing is shown by one open row, or by none.
LEMMA ShownListing ==
    ASSUME NEW l, ShowsListing(l)
    PROVE  /\ l = NoListing <=> OpenListings = {}
           /\ \A i \in OpenListings : OpenListings = {i} /\ Offer(listings[i]) = l
  BY DEF ShowsListing

LEMMA OfferIsListing ==
    ASSUME NEW r \in ListingRow
    PROVE  Offer(r) \in Listing /\ Offer(r) # NoListing
  BY DEF Offer, ListingRow, Listing, NoListing, Sources

LEMMA ListingAppended ==
    ASSUME TypeOK, ShowsListing(NoListing), NEW r \in ListingRow, r.open,
           listings' = Append(listings, r)
    PROVE  ShowsListing(Offer(r))'
  <1> DEFINE next == Append(listings, r)
             n == Len(listings) + 1
  <1>1. listings \in Seq(ListingRow)
    BY DEF TypeOK
  <1>2. /\ \A i \in DOMAIN listings : next[i] = listings[i]
        /\ next[n] = r /\ n \in DOMAIN next
        /\ \A i \in DOMAIN next : i \in DOMAIN listings \/ i = n
    BY <1>1, RowAdded, AppendProperties
  <1>3. listings' = next
    OBVIOUS
  <1> HIDE DEF next, n
  <1>4. \A i \in DOMAIN listings : ~listings[i].open
    BY DEF ShowsListing, OpenListings
  <1>5. OpenListings' = {n}
    BY <1>2, <1>3, <1>4 DEF OpenListings
  <1>6. Offer(r) # NoListing
    BY OfferIsListing
  <1> QED BY <1>2, <1>3, <1>5, <1>6 DEF ShowsListing, Offer

LEMMA ListingChanged ==
    ASSUME TypeOK, NEW l, ShowsListing(l), NEW i \in OpenListings,
           NEW r \in ListingRow, r.open, listings' = [listings EXCEPT ![i] = r]
    PROVE  ShowsListing(Offer(r))'
  <1>1. listings \in Seq(ListingRow) /\ i \in DOMAIN listings
    BY DEF TypeOK, OpenListings
  <1>2. /\ DOMAIN listings' = DOMAIN listings
        /\ \A j \in DOMAIN listings : listings'[j] = IF j = i THEN r ELSE listings[j]
    BY <1>1, RowChanged
  <1>3. OpenListings = {i}
    BY ShownListing
  <1>4. OpenListings' = {i}
    BY <1>1, <1>2, <1>3 DEF OpenListings
  <1>5. Offer(r) # NoListing
    BY OfferIsListing
  <1> QED BY <1>1, <1>2, <1>4, <1>5 DEF ShowsListing, Offer

LEMMA ListingClosed ==
    ASSUME TypeOK, NEW l, ShowsListing(l), NEW i \in OpenListings, listings' = Close(i)
    PROVE  ShowsListing(NoListing)'
  <1> DEFINE r == [listings[i] EXCEPT !.open = FALSE]
  <1>1. listings \in Seq(ListingRow) /\ i \in DOMAIN listings
    BY DEF TypeOK, OpenListings
  <1>2. r \in ListingRow /\ ~r.open
    <2>1. listings[i] \in ListingRow
      BY <1>1
    <2> QED BY <2>1 DEF ListingRow
  <1>3. listings' = [listings EXCEPT ![i] = r]
    BY DEF Close
  <1> HIDE DEF r
  <1>4. /\ DOMAIN listings' = DOMAIN listings
        /\ \A j \in DOMAIN listings : listings'[j] = IF j = i THEN r ELSE listings[j]
    BY <1>1, <1>2, <1>3, RowChanged
  <1>5. OpenListings = {i}
    BY ShownListing
  <1>6. OpenListings' = {}
    BY <1>2, <1>4, <1>5 DEF OpenListings
  <1> QED BY <1>6 DEF ShowsListing

\* The highest bid of a listing is no part of the offer.
LEMMA ListingOutbid ==
    ASSUME TypeOK, NEW l, ShowsListing(l), NEW i \in DOMAIN listings, NEW b \in Nat,
           listings' = [listings EXCEPT ![i].highestBid = b]
    PROVE  ShowsListing(l)'
  <1> DEFINE r == [listings[i] EXCEPT !.highestBid = b]
  <1>1. listings \in Seq(ListingRow)
    BY DEF TypeOK
  <1>2. r \in ListingRow /\ r.open = listings[i].open /\ Offer(r) = Offer(listings[i])
    <2>1. listings[i] \in ListingRow
      BY <1>1
    <2> QED BY <2>1 DEF ListingRow, Offer
  <1>3. listings' = [listings EXCEPT ![i] = r]
    OBVIOUS
  <1> HIDE DEF r
  <1>4. /\ DOMAIN listings' = DOMAIN listings
        /\ \A j \in DOMAIN listings : /\ listings'[j].open = listings[j].open
                                      /\ Offer(listings'[j]) = Offer(listings[j])
    BY <1>1, <1>2, <1>3, RowChanged
  <1>5. OpenListings' = OpenListings
    BY <1>4 DEF OpenListings
  <1> QED BY <1>4, <1>5 DEF ShowsListing, Offer

\* A bidder's bid is shown by one open row, or by none.
BidsShown(amounts) == \A w \in Wallets : ShowsBid(w, amounts[w])

LEMMA ShownBid ==
    ASSUME NEW w, NEW amount, ShowsBid(w, amount)
    PROVE  /\ amount = 0 <=> OpenBids(w) = {}
           /\ \A b \in OpenBids(w) : OpenBids(w) = {b} /\ bids[b].amount = amount
  BY DEF ShowsBid

LEMMA BidAppended ==
    ASSUME TypeOK, NEW amounts \in [Wallets -> Amounts], BidsShown(amounts),
           NEW r \in Bid, r.open, r.amount # 0, amounts[r.bidder] = 0,
           bids' = Append(bids, r)
    PROVE  BidsShown([amounts EXCEPT ![r.bidder] = r.amount])'
  <1> DEFINE next == Append(bids, r)
             n == Len(bids) + 1
  <1>1. bids \in Seq(Bid) /\ r.bidder \in Wallets
    BY DEF TypeOK, Bid
  <1>2. /\ \A b \in DOMAIN bids : b \in DOMAIN next /\ next[b] = bids[b]
        /\ next[n] = r /\ n \in DOMAIN next
        /\ \A b \in DOMAIN next : b \in DOMAIN bids \/ b = n
    BY <1>1, RowAdded, AppendProperties
  <1>3. bids' = next
    OBVIOUS
  <1>4. n \notin DOMAIN bids
    BY <1>1
  <1> HIDE DEF next, n
  <1>5. OpenBids(r.bidder) = {}
    BY <1>1, ShownBid DEF BidsShown
  <1>6. ASSUME NEW w \in Wallets
        PROVE  ShowsBid(w, [amounts EXCEPT ![r.bidder] = r.amount][w])'
    <2>1. CASE w = r.bidder
      <3>1. OpenBids(w)' = {n}
        BY <1>2, <1>3, <1>5, <2>1 DEF OpenBids
      <3> QED BY <1>1, <1>2, <1>3, <2>1, <3>1 DEF ShowsBid
    <2>2. CASE w # r.bidder
      <3>1. OpenBids(w)' = OpenBids(w)
        BY <1>2, <1>3, <1>4, <2>2 DEF OpenBids
      <3>2. ShowsBid(w, amounts[w])
        BY DEF BidsShown
      <3>3. ShowsBid(w, amounts[w])'
        BY <1>2, <1>3, <3>1, <3>2 DEF ShowsBid
      <3> QED BY <2>2, <3>3
    <2> QED BY <2>1, <2>2
  <1> QED BY <1>6 DEF BidsShown

LEMMA BidClosed ==
    ASSUME TypeOK, NEW amounts \in [Wallets -> Amounts], BidsShown(amounts),
           NEW w \in Wallets, NEW b \in OpenBids(w),
           bids' = [bids EXCEPT ![b].open = FALSE]
    PROVE  BidsShown([amounts EXCEPT ![w] = 0])'
  <1> DEFINE r == [bids[b] EXCEPT !.open = FALSE]
  <1>1. bids \in Seq(Bid) /\ b \in DOMAIN bids /\ bids[b].bidder = w
    BY DEF TypeOK, OpenBids
  <1>2. r \in Bid /\ ~r.open /\ bids' = [bids EXCEPT ![b] = r]
    <2>1. bids[b] \in Bid
      BY <1>1
    <2> QED BY <2>1 DEF Bid
  <1> HIDE DEF r
  <1>3. /\ DOMAIN bids' = DOMAIN bids
        /\ \A c \in DOMAIN bids : bids'[c] = IF c = b THEN r ELSE bids[c]
    BY <1>1, <1>2, RowChanged
  <1>4. OpenBids(w) = {b}
    BY ShownBid DEF BidsShown
  <1>5. ASSUME NEW v \in Wallets
        PROVE  ShowsBid(v, [amounts EXCEPT ![w] = 0][v])'
    <2>1. CASE v = w
      <3>1. OpenBids(v)' = {}
        BY <1>2, <1>3, <1>4, <2>1 DEF OpenBids
      <3> QED BY <2>1, <3>1 DEF ShowsBid
    <2>2. CASE v # w
      <3>1. OpenBids(v)' = OpenBids(v) /\ b \notin OpenBids(v)
        BY <1>1, <1>2, <1>3, <2>2 DEF OpenBids
      <3>2. ShowsBid(v, amounts[v])
        BY DEF BidsShown
      <3>3. ShowsBid(v, amounts[v])'
        BY <1>3, <3>1, <3>2 DEF ShowsBid
      <3> QED BY <2>2, <3>3
    <2> QED BY <2>1, <2>2
  <1> QED BY <1>5 DEF BidsShown

LEMMA ListingsStay ==
    ASSUME UNCHANGED listings, NEW l
    PROVE  ShowsListing(l)' <=> ShowsListing(l)
  BY DEF ShowsListing, OpenListings

LEMMA BidsStay ==
    ASSUME UNCHANGED bids, NEW amounts
    PROVE  BidsShown(amounts)' <=> BidsShown(amounts)
  BY DEF BidsShown, ShowsBid, OpenBids

\* What the chain said in state c lets the handler of instruction i succeed.
Ready(c, i) ==
    /\ i.type # "buy"
    /\ i.type \in {"list", "timedList"} => c.listing = NoListing
    /\ i.type = "tensorList" => c.listing = NoListing \/ ~c.listing.timed
    /\ i.type \in {"list", "timedList", "tensorList"} => i.who = i.seller
    /\ i.type \in {"bid", "sale", "cancelListing", "tensorDelist", "reprice",
                   "tensorBuy"} => c.listing # NoListing
    /\ i.type = "bid" => c.bids[i.who] = 0 /\ i.price # 0
    /\ i.type \in {"sale", "cancelBid"} => c.bids[i.who] # 0

\* The handler of an instruction has brought the rows where the chain went, or
\* has an await of it before it.
Brought(d, c, i) ==
    \/ Handled(d) /\ Shows(Effect(c, i))'
    \/ todo' = todo /\ Running(d)' /\ Doing(d, c)'

\* Listings and bids shown apart make the whole.
LEMMA ShowsWhole ==
    ASSUME NEW c
    PROVE  Shows(c) <=> /\ owner = c.owner /\ isBurned = c.burned
                        /\ ShowsListing(c.listing) /\ BidsShown(c.bids)
  BY DEF Shows, BidsShown

LEMMA WholeShown ==
    ASSUME NEW c, owner' = c.owner, isBurned' = c.burned,
           ShowsListing(c.listing)', BidsShown(c.bids)'
    PROVE  Shows(c)'
  BY DEF Shows, BidsShown

\* The handlers of listings.
LEMMA ListingsShown ==
    ASSUME TypeOK, NEW d \in Deliveries, NEW c \in Chain, NEW i \in Transaction,
           i = todo[d][1], Ready(c, i), Doing(d, c),
           \/ HandleAssetListing(d) \/ HandleCancelListing(d)
           \/ HandleListingReprice(d) \/ HandleTensorListing(d)
    PROVE  Handled(d) /\ Shows(Effect(c, i))'
  <1>1. /\ owner = c.owner /\ isBurned = c.burned
        /\ ShowsListing(c.listing) /\ BidsShown(c.bids)
    <2>1. HandleAssetListing(d) \/ HandleCancelListing(d) => at[d] = "start"
      BY Zenon DEF HandleAssetListing, HandleCancelListing, Handles
    <2>2. HandleListingReprice(d) \/ HandleTensorListing(d) => at[d] = "start"
      BY Zenon DEF HandleListingReprice, HandleTensorListing, Handles
    <2>3. at[d] = "start"
      BY <2>1, <2>2
    <2>4. Shows(c)
      BY <2>3 DEF Doing
    <2> QED BY <2>4, ShowsWhole
  <1>2. UNCHANGED <<owner, isBurned, bids>>
    BY Zenon DEF HandleAssetListing, HandleCancelListing, HandleListingReprice,
                 HandleTensorListing
  <1>3. BidsShown(c.bids)'
    BY <1>1, <1>2, BidsStay
  <1>4. i.who \in Wallets /\ i.seller \in Wallets /\ i.price \in Amounts
    BY DEF Transaction
  <1>5. \A n \in OpenListings : /\ n \in DOMAIN listings /\ listings[n].open
                                /\ listings[n] \in ListingRow
    BY DEF OpenListings, TypeOK
  <1>6. ASSUME i.type \in {"list", "timedList", "tensorList", "cancelListing",
                          "tensorDelist", "reprice"},
               ShowsListing(ListingAfter(c, i))'
        PROVE  Shows(Effect(c, i))'
    <2>1. /\ Effect(c, i).owner = c.owner /\ Effect(c, i).burned = c.burned
          /\ Effect(c, i).listing = ListingAfter(c, i) /\ Effect(c, i).bids = c.bids
      BY <1>6, EffectFields DEF Moves, BidsAfter
    <2>2. PICK e : e = Effect(c, i)
      OBVIOUS
    <2>3. PICK l : l = ListingAfter(c, i)
      OBVIOUS
    <2>4. ShowsListing(l)'
      BY <1>6, <2>3
    <2>5. Shows(e)'
      BY <1>1, <1>2, <1>3, <2>1, <2>2, <2>3, <2>4, WholeShown
    <2> QED BY <2>2, <2>5
  <1>7. CASE HandleAssetListing(d)
    <2> DEFINE r == NewListing(i.who, i.price, "auction", i.type = "timedList")
    <2>1. i.type \in {"list", "timedList"} /\ c.listing = NoListing /\ i.who = i.seller
      BY <1>7 DEF HandleAssetListing, Handles, Ready
    <2>2. OpenListings = {}
      BY <1>1, <2>1, ShownListing
    <2>3. listings' = Append(listings, r) /\ Handled(d)
      BY <1>7, <2>2 DEF HandleAssetListing
    <2>4. r \in ListingRow /\ r.open
      BY <1>4 DEF NewListing, ListingRow, NoBid, Sources
    <2>5. Offer(r) = ListingAfter(c, i)
      BY <2>1 DEF Offer, NewListing, ListingAfter, Moves
    <2> HIDE DEF r
    <2>6. ShowsListing(Offer(r))'
      BY <1>1, <2>1, <2>3, <2>4, ListingAppended
    <2> QED BY <1>6, <2>1, <2>3, <2>5, <2>6
  <1>8. CASE HandleCancelListing(d)
    <2>1. i.type \in {"cancelListing", "tensorDelist"} /\ c.listing # NoListing
      BY <1>8 DEF HandleCancelListing, Handles, Ready
    <2>2. OpenListings # {}
      BY <1>1, <2>1, ShownListing
    <2>3. Handled(d) /\ \E n \in OpenListings : listings' = Close(n)
      BY <1>8, <2>2 DEF HandleCancelListing
    <2>4. ShowsListing(NoListing)'
      BY <1>1, <2>3, ListingClosed
    <2>5. ListingAfter(c, i) = NoListing
      BY <2>1 DEF ListingAfter
    <2> QED BY <1>6, <2>1, <2>3, <2>4, <2>5
  <1>9. CASE HandleListingReprice(d)
    <2>1. i.type = "reprice" /\ c.listing # NoListing
      BY <1>9 DEF HandleListingReprice, Handles, Ready
    <2>2. OpenListings # {}
      BY <1>1, <2>1, ShownListing
    <2>3. PICK n \in OpenListings : listings' = [listings EXCEPT ![n].price = i.price]
      BY <1>9, <2>2 DEF HandleListingReprice
    <2>4. Handled(d)
      BY <1>9, <2>2 DEF HandleListingReprice
    <2>0. PICK r : r = [listings[n] EXCEPT !.price = i.price]
      OBVIOUS
    <2>5. r \in ListingRow /\ r.open
      BY <1>4, <1>5, <2>0 DEF ListingRow
    <2>6. Offer(r) = [c.listing EXCEPT !.price = i.price]
      <3>1. Offer(listings[n]) = c.listing
        BY <1>1, ShownListing
      <3>2. listings[n] \in ListingRow
        BY <1>5
      <3>3. c.listing = [seller |-> listings[n].seller, price |-> listings[n].price,
                         source |-> listings[n].source, timed |-> listings[n].timed]
        BY <3>1 DEF Offer
      <3>4. Offer(r) = [seller |-> listings[n].seller, price |-> i.price,
                        source |-> listings[n].source, timed |-> listings[n].timed]
        BY <2>0, <3>2 DEF Offer, ListingRow
      <3> QED BY <3>3, <3>4
    <2>7. listings' = [listings EXCEPT ![n] = r]
      BY <2>3, <2>0
    <2>8. Offer(r) = ListingAfter(c, i)
      BY <2>1, <2>6 DEF ListingAfter, Moves
    <2>9. ShowsListing(Offer(r))'
      BY <1>1, <2>5, <2>7, ListingChanged, Zenon
    <2> QED BY <1>6, <2>1, <2>4, <2>8, <2>9
  <1>10. CASE HandleTensorListing(d)
    <2>1. /\ i.type = "tensorList" /\ i.who = i.seller /\ Handled(d)
          /\ c.listing = NoListing \/ ~c.listing.timed
      BY <1>10, Zenon DEF HandleTensorListing, Handles, Ready
    <2>2. ListingAfter(c, i) = [seller |-> i.who, price |-> i.price,
                                source |-> "tensor", timed |-> FALSE]
      BY <2>1 DEF ListingAfter, Moves
    <2>3. CASE OpenListings = {}
      <3> DEFINE r == NewListing(i.who, i.price, "tensor", FALSE)
      <3>1. listings' = Append(listings, r) /\ c.listing = NoListing
        BY <1>1, <1>10, <2>3, ShownListing DEF HandleTensorListing
      <3>2. r \in ListingRow /\ r.open
        BY <1>4 DEF NewListing, ListingRow, NoBid, Sources
      <3>3. Offer(r) = ListingAfter(c, i)
        BY <2>2 DEF Offer, NewListing
      <3> HIDE DEF r
      <3>4. ShowsListing(Offer(r))'
        BY <1>1, <3>1, <3>2, ListingAppended
      <3> QED BY <1>6, <2>1, <3>3, <3>4
    <2>4. CASE OpenListings # {}
      <3>1. PICK n \in OpenListings :
              listings' = [listings EXCEPT ![n].price = i.price, ![n].seller = i.who,
                                           ![n].source = "tensor"]
        BY <1>10, <2>4, Zenon DEF HandleTensorListing
      <3>0. PICK r : r = [listings[n] EXCEPT !.price = i.price, !.seller = i.who,
                                              !.source = "tensor"]
        OBVIOUS
      <3>2. listings[n] \in ListingRow /\ listings[n].open /\ n \in DOMAIN listings
        BY <1>5
      <3>3. r \in ListingRow /\ r.open
        BY <1>4, <3>2, <3>0 DEF ListingRow, Sources
      <3>4. listings' = [listings EXCEPT ![n] = r]
        BY <3>1, <3>2, <3>0
      <3>5. Offer(listings[n]) = c.listing /\ c.listing # NoListing
        BY <1>1, <2>4, ShownListing
      <3>6. ~listings[n].timed
        BY <2>1, <3>5 DEF Offer
      <3>7. listings[n].timed \in BOOLEAN
        BY <3>2 DEF ListingRow
      <3>8. Offer(r) = [seller |-> i.who, price |-> i.price, source |-> "tensor",
                        timed |-> listings[n].timed]
        BY <3>2, <3>0 DEF Offer, ListingRow
      <3>9. Offer(r) = ListingAfter(c, i)
        BY <2>2, <3>6, <3>7, <3>8
      <3>10. ShowsListing(Offer(r))'
        BY <1>1, <3>3, <3>4, ListingChanged, Zenon
      <3> QED BY <1>6, <2>1, <3>9, <3>10
    <2> QED BY <2>3, <2>4
  <1> QED BY <1>7, <1>8, <1>9, <1>10

\* The handlers of bids, up to the sale of one.
LEMMA BidsShownOn ==
    ASSUME TypeOK, Locals, NEW d \in Deliveries, NEW c \in Chain, NEW i \in Transaction,
           i = todo[d][1], Ready(c, i), Doing(d, c),
           \/ HandleAssetBid(d) \/ MatchListing(d) \/ UpdateHighestBid(d)
           \/ HandleCancelBid(d) \/ HandleAssetSale(d)
    PROVE  Brought(d, c, i)
  <1>1. i.who \in Wallets /\ i.price \in Amounts /\ c.bids \in [Wallets -> Amounts]
    BY DEF Transaction, Chain
  <1>2. \A stage \in Stages : Goto(d, stage) => todo' = todo /\ at'[d] = stage
    BY DEF Goto, TypeOK
  <1>3. ASSUME at[d] = "start"
        PROVE  /\ Shows(c) /\ owner = c.owner /\ isBurned = c.burned
               /\ ShowsListing(c.listing) /\ BidsShown(c.bids)
    BY <1>3, ShowsWhole DEF Doing
  <1>4. i.type \in {"bid", "cancelBid"} =>
          /\ Effect(c, i).owner = c.owner /\ Effect(c, i).burned = c.burned
          /\ Effect(c, i).listing = c.listing /\ Effect(c, i).bids = BidsAfter(c, i)
    BY EffectFields DEF Moves, ListingAfter
  <1>5. PICK e : e = Effect(c, i)
    OBVIOUS
  <1>6. PICK amounts : amounts = BidsAfter(c, i)
    OBVIOUS
  <1>7. CASE HandleAssetBid(d)
    <2>1. /\ i.type = "bid" /\ at[d] = "start" /\ c.bids[i.who] = 0 /\ i.price # 0
          /\ UNCHANGED <<owner, isBurned, listings>>
      BY <1>7 DEF HandleAssetBid, Handles, Ready
    <2>2. OpenBids(i.who) = {}
      BY <1>1, <1>3, <2>1, ShownBid DEF BidsShown
    <2>3. PICK r : r = [bidder |-> i.who, amount |-> i.price, open |-> TRUE]
      OBVIOUS
    <2>4. r \in Bid /\ r.open /\ r.bidder = i.who /\ r.amount = i.price
      BY <1>1, <2>3 DEF Bid
    <2>5. bids' = Append(bids, r) /\ Goto(d, "match")
      BY <1>7, <2>2, <2>3 DEF HandleAssetBid
    <2>6. BidsShown([c.bids EXCEPT ![r.bidder] = r.amount])'
      BY <1>1, <1>3, <2>1, <2>4, <2>5, BidAppended
    <2>7. amounts = [c.bids EXCEPT ![r.bidder] = r.amount]
      BY <1>6, <2>1, <2>4 DEF BidsAfter
    <2>8. ShowsListing(c.listing)'
      BY <1>3, <2>1, ListingsStay
    <2>9. Shows(e)'
      BY <1>3, <1>4, <1>5, <1>6, <2>1, <2>6, <2>7, <2>8, WholeShown
    <2>10. todo' = todo /\ at'[d] = "match"
      BY <1>2, <2>5 DEF Stages
    <2>11. Doing(d, c)'
      <3>1. todo'[d][1] = i
        BY <2>10
      <3> QED BY <1>5, <2>1, <2>9, <2>10, <3>1 DEF Doing
    <2> QED BY <2>10, <2>11 DEF Brought, Running
  <1>8. CASE MatchListing(d)
    <2>1. i.type = "bid" /\ Shows(e) /\ UNCHANGED rowVars
      BY <1>5, <1>8 DEF MatchListing, Doing
    <2>2. Shows(e)'
      BY <2>1 DEF Shows, ShowsListing, ShowsBid, OpenListings, OpenBids, rowVars
    <2>3. e.listing # NoListing
      BY <1>4, <1>5, <2>1 DEF Ready
    <2>4. OpenListings # {}
      BY <2>1, <2>3, ShownListing DEF Shows
    <2>5. Handled(d) \/ Goto(d, "outbid")
      BY <1>8, <2>4 DEF MatchListing
    <2>6. CASE Goto(d, "outbid")
      <3>1. todo' = todo /\ at'[d] = "outbid" /\ todo'[d][1] = i
        BY <1>2, <2>6 DEF Stages
      <3>2. Doing(d, c)'
        BY <1>5, <2>1, <2>2, <3>1 DEF Doing
      <3> QED BY <3>1, <3>2 DEF Brought, Running
    <2> QED BY <1>5, <2>2, <2>5, <2>6 DEF Brought
  <1>9. CASE UpdateHighestBid(d)
    <2>1. /\ i.type = "bid" /\ Shows(e) /\ UNCHANGED <<owner, isBurned, bids>>
          /\ listings' = [listings EXCEPT ![listingOf[d]].highestBid = bidOf[d]]
      BY <1>5, <1>9 DEF UpdateHighestBid, Doing
    <2>2. PICK n, b : n = listingOf[d] /\ b = bidOf[d]
      OBVIOUS
    <2>3. n \in DOMAIN listings /\ b \in Nat
      BY <1>9, <2>2 DEF UpdateHighestBid, Locals, TypeOK
    <2>4. ShowsListing(e.listing)'
      BY <2>1, <2>2, <2>3, ListingOutbid DEF Shows
    <2>5. BidsShown(e.bids)'
      BY <2>1, BidsStay, ShowsWhole
    <2>6. Shows(e)'
      BY <2>1, <2>4, <2>5, WholeShown DEF Shows
    <2> QED BY <1>5, <1>9, <2>6 DEF UpdateHighestBid, Brought
  <1>10. CASE HandleCancelBid(d)
    <2>1. /\ i.type = "cancelBid" /\ at[d] = "start" /\ c.bids[i.who] # 0
          /\ UNCHANGED <<owner, isBurned, listings>>
      BY <1>10 DEF HandleCancelBid, Handles, Ready
    <2>2. OpenBids(i.who) # {}
      BY <1>1, <1>3, <2>1, ShownBid DEF BidsShown
    <2>3. PICK b \in OpenBids(i.who) : bids' = [bids EXCEPT ![b].open = FALSE]
      BY <1>10, <2>2 DEF HandleCancelBid
    <2>4. BidsShown([c.bids EXCEPT ![i.who] = 0])'
      BY <1>1, <1>3, <2>1, <2>3, BidClosed
    <2>5. amounts = [c.bids EXCEPT ![i.who] = 0]
      BY <1>6, <2>1 DEF BidsAfter
    <2>6. ShowsListing(c.listing)'
      BY <1>3, <2>1, ListingsStay
    <2>7. Shows(e)'
      BY <1>3, <1>4, <1>5, <1>6, <2>1, <2>4, <2>5, <2>6, WholeShown
    <2>8. Handled(d)
      BY <1>10, <2>2 DEF HandleCancelBid
    <2> QED BY <1>5, <2>7, <2>8 DEF Brought
  <1>11. CASE HandleAssetSale(d)
    <2>1. /\ i.type = "sale" /\ at[d] = "start" /\ c.bids[i.who] # 0
          /\ UNCHANGED rowVars
      BY <1>11 DEF HandleAssetSale, Handles, Ready
    <2>2. OpenBids(i.who) # {}
      BY <1>1, <1>3, <2>1, ShownBid DEF BidsShown
    <2>3. Goto(d, "sale")
      BY <1>11, <2>2 DEF HandleAssetSale
    <2>4. Shows(c)'
      BY <1>3, <2>1 DEF Shows, ShowsListing, ShowsBid, OpenListings, OpenBids, rowVars
    <2>5. todo' = todo /\ at'[d] = "sale" /\ todo'[d][1] = i
      BY <1>2, <2>3 DEF Stages
    <2>6. Doing(d, c)'
      BY <2>1, <2>4, <2>5 DEF Doing
    <2> QED BY <2>5, <2>6 DEF Brought, Running
  <1> QED BY <1>7, <1>8, <1>9, <1>10, <1>11

\* A sale that the foreign key of the owner refuses leaves the rows, and is
\* missed.
Refused(d) ==
    /\ at[d] = "sale" /\ Throw(d)
    /\ UNCHANGED tables /\ missed' = missed \cup {d[1]}

\* The transaction of a sale brings the rows where the chain went, or is refused.
LEMMA SaleShown ==
    ASSUME TypeOK, NEW d \in Deliveries, NEW c \in Chain, NEW i \in Transaction,
           i = todo[d][1], Ready(c, i), Doing(d, c), CreateSale(d)
    PROVE  /\ i.type = "sale" /\ Shows(c)
           /\ \/ Handled(d) /\ Shows(Effect(c, i))' /\ missed' = missed \ {d[1]}
              \/ Refused(d)
  <1>1. i.who \in Wallets /\ c.bids \in [Wallets -> Amounts]
    BY DEF Transaction, Chain
  <1>2. i.type = "sale" /\ Shows(c) /\ c.listing # NoListing /\ c.bids[i.who] # 0
    BY DEF CreateSale, Doing, Ready
  <1>3. /\ owner = c.owner /\ isBurned = c.burned
        /\ ShowsListing(c.listing) /\ BidsShown(c.bids)
    BY <1>2, ShowsWhole
  <1>4. OpenListings # {} /\ OpenBids(i.who) # {}
    BY <1>1, <1>2, <1>3, ShownListing, ShownBid DEF BidsShown
  <1>5. CASE SaleFails(d, OpenListings # {} /\ OpenBids(i.who) # {})
    <2>1. Refused(d)
      BY <1>4, <1>5 DEF CreateSale, SaleFails, Refused, tables
    <2> QED BY <1>2, <2>1
  <1>6. ASSUME NEW n \in OpenListings, NEW b \in OpenBids(i.who), SaleOf(d, n, b),
               bids' = [bids EXCEPT ![b].open = FALSE], owner' = i.who
        PROVE  Handled(d) /\ Shows(Effect(c, i))' /\ missed' = missed \ {d[1]}
    <2>1. PICK e : e = Effect(c, i)
      OBVIOUS
    <2>2. PICK amounts : amounts = BidsAfter(c, i)
      OBVIOUS
    <2>3. /\ e.owner = i.who /\ e.burned = c.burned /\ e.listing = NoListing
          /\ e.bids = amounts
      BY <1>2, <2>1, <2>2, EffectFields DEF Moves, ListingAfter
    <2>4. /\ listings' = Close(n) /\ Handled(d) /\ missed' = missed \ {d[1]}
          /\ UNCHANGED isBurned
      BY <1>6 DEF SaleOf, CreateSale
    <2>5. BidsShown([c.bids EXCEPT ![i.who] = 0])'
      BY <1>1, <1>3, <1>6, BidClosed
    <2>6. amounts = [c.bids EXCEPT ![i.who] = 0]
      BY <1>2, <2>2 DEF BidsAfter
    <2>7. ShowsListing(NoListing)'
      BY <1>3, <2>4, ListingClosed
    <2>8. Shows(e)'
      BY <1>3, <1>6, <2>3, <2>4, <2>5, <2>6, <2>7, WholeShown
    <2> QED BY <2>1, <2>4, <2>8
  <1>7. \/ SaleFails(d, OpenListings # {} /\ OpenBids(i.who) # {})
        \/ \E n \in OpenListings, b \in OpenBids(i.who) :
             /\ SaleOf(d, n, b) /\ bids' = [bids EXCEPT ![b].open = FALSE]
             /\ owner' = i.who
    BY Zenon DEF CreateSale
  <1> QED BY <1>2, <1>5, <1>6, <1>7

\* The handlers of transfers, burns and purchases on Tensor.
LEMMA OwnersShown ==
    ASSUME TypeOK, NEW d \in Deliveries, NEW c \in Chain, NEW i \in Transaction,
           i = todo[d][1], Ready(c, i), Doing(d, c),
           \/ HandleAssetTransfer(d) \/ CloseListing(d)
           \/ HandleAssetBurn(d) \/ HandleTensorBuying(d)
    PROVE  Brought(d, c, i)
  <1>1. i.who \in Wallets /\ c.bids \in [Wallets -> Amounts]
    BY DEF Transaction, Chain
  <1>2. ASSUME Shows(c)
        PROVE  /\ owner = c.owner /\ isBurned = c.burned
               /\ ShowsListing(c.listing) /\ BidsShown(c.bids)
    BY <1>2, ShowsWhole
  <1>3. PICK e : e = Effect(c, i)
    OBVIOUS
  <1>4. PICK amounts : amounts = BidsAfter(c, i)
    OBVIOUS
  <1>5. i.type \in Moves =>
          /\ e.owner = i.who /\ e.burned = c.burned /\ e.listing = NoListing
          /\ e.bids = amounts
    BY <1>3, <1>4, EffectFields DEF Moves, ListingAfter
  <1>6. i.type \in {"transfer", "tensorBuy"} => amounts = c.bids
    BY <1>4 DEF BidsAfter
  <1>8. CASE HandleTensorBuying(d)
    <2>1. /\ i.type = "tensorBuy" /\ Shows(c) /\ c.listing # NoListing
          /\ UNCHANGED <<isBurned, bids>> /\ Handled(d)
      BY <1>8 DEF HandleTensorBuying, Handles, Doing, Ready
    <2>2. OpenListings # {}
      BY <1>2, <2>1, ShownListing
    <2>3. owner' = i.who /\ \E n \in OpenListings : listings' = Close(n)
      BY <1>8, <2>2 DEF HandleTensorBuying
    <2>4. ShowsListing(NoListing)' /\ BidsShown(c.bids)'
      BY <1>2, <2>1, <2>3, ListingClosed, BidsStay
    <2>5. Shows(e)'
      BY <1>2, <1>5, <1>6, <2>1, <2>3, <2>4, WholeShown DEF Moves
    <2> QED BY <1>3, <2>1, <2>5 DEF Brought
  <1>9. CASE HandleAssetTransfer(d)
    <2>1. /\ i.type = "transfer" /\ at[d] = "start" /\ Shows(c) /\ owner' = i.who
          /\ UNCHANGED <<isBurned, listings, bids>>
      BY <1>9 DEF HandleAssetTransfer, Handles, Doing
    <2>2. ShowsListing(c.listing)' /\ BidsShown(c.bids)'
      BY <1>2, <2>1, ListingsStay, BidsStay
    <2>3. CASE OpenListings = {}
      <3>1. Handled(d) /\ c.listing = NoListing
        BY <1>2, <1>9, <2>1, <2>3, ShownListing DEF HandleAssetTransfer
      <3>2. Shows(e)'
        BY <1>2, <1>5, <1>6, <2>1, <2>2, <3>1, WholeShown DEF Moves
      <3> QED BY <1>3, <3>1, <3>2 DEF Brought
    <2>4. CASE OpenListings # {}
      <3>1. Goto(d, "close")
        BY <1>9, <2>4 DEF HandleAssetTransfer
      <3>2. todo' = todo /\ at'[d] = "close" /\ todo'[d][1] = i
        BY <3>1 DEF Goto, TypeOK
      <3>3. PICK m : m = [c EXCEPT !.owner = i.who]
        OBVIOUS
      <3>4. /\ m.owner = i.who /\ m.burned = c.burned /\ m.listing = c.listing
            /\ m.bids = c.bids
        BY <3>3 DEF Chain
      <3>5. Shows(m)'
        BY <1>2, <2>1, <2>2, <3>4, WholeShown
      <3>6. Doing(d, c)'
        BY <2>1, <3>2, <3>3, <3>5 DEF Doing
      <3> QED BY <3>2, <3>6 DEF Brought, Running
    <2> QED BY <2>3, <2>4
  <1>10. CASE CloseListing(d)
    <2>1. PICK m : m = [c EXCEPT !.owner = i.who]
      OBVIOUS
    <2>2. /\ m.owner = i.who /\ m.burned = c.burned /\ m.listing = c.listing
          /\ m.bids = c.bids
      BY <2>1 DEF Chain
    <2>3. i.type = "transfer" /\ Shows(m) /\ UNCHANGED <<owner, isBurned, bids>>
      BY <1>10, <2>1 DEF CloseListing, Doing
    <2>4. /\ owner = i.who /\ isBurned = c.burned /\ ShowsListing(c.listing)
          /\ BidsShown(c.bids)
      BY <2>2, <2>3, ShowsWhole
    <2>5. ShowsListing(NoListing)'
      <3>1. CASE OpenListings = {}
        <4>1. c.listing = NoListing /\ UNCHANGED listings
          BY <1>10, <2>4, <3>1, ShownListing DEF CloseListing
        <4> QED BY <2>4, <4>1, ListingsStay
      <3>2. CASE \E n \in OpenListings : listings' = Close(n)
        BY <2>4, <3>2, ListingClosed
      <3> QED BY <1>10, <3>1, <3>2 DEF CloseListing
    <2>6. BidsShown(c.bids)'
      BY <2>3, <2>4, BidsStay
    <2>7. Shows(e)'
      BY <1>5, <1>6, <2>3, <2>4, <2>5, <2>6, WholeShown DEF Moves
    <2> QED BY <1>3, <1>10, <2>7 DEF CloseListing, Brought
  <1>11. CASE HandleAssetBurn(d)
    <2>1. /\ i.type = "burn" /\ Shows(c) /\ isBurned' = TRUE /\ Handled(d)
          /\ UNCHANGED <<owner, listings, bids>>
      BY <1>11 DEF HandleAssetBurn, Handles, Doing
    <2>2. /\ e.owner = c.owner /\ e.burned = TRUE /\ e.listing = c.listing
          /\ e.bids = c.bids
      BY <1>3, <2>1, EffectFields DEF Moves, ListingAfter, BidsAfter
    <2>3. ShowsListing(c.listing)' /\ BidsShown(c.bids)'
      BY <1>2, <2>1, ListingsStay, BidsStay
    <2>4. Shows(e)'
      BY <1>2, <2>1, <2>2, <2>3, WholeShown
    <2> QED BY <1>3, <2>1, <2>4 DEF Brought
  <1> QED BY <1>8, <1>9, <1>10, <1>11

\* Only the transaction of a sale says that one is missed, or no longer is.
LEMMA HandlerMissed ==
    ASSUME NEW d \in Deliveries, Handler(d)
    PROVE  /\ at[d] = "sale" <=> CreateSale(d)
           /\ at[d] # "sale" => missed' = missed
           /\ missed' \in {missed, missed \ {d[1]}, missed \cup {d[1]}}
  BY DEF Handler, HandleAssetListing, HandleAssetBid, MatchListing,
         UpdateHighestBid, HandleAssetSale, CreateSale, SaleOf, SaleFails,
         HandleCancelBid, HandleCancelListing, HandleListingReprice,
         HandleAssetTransfer, CloseListing, HandleAssetBurn, HandleTensorListing,
         HandleTensorBuying, Handles, historyVars

\* A sale is not recorded before the buyer's bid was read.
LEMMA SaleStarts ==
    ASSUME TypeOK, NEW d \in Deliveries, NEW c \in Chain, NEW i \in Transaction,
           i = todo[d][1], i.type = "sale", Ready(c, i), Shows(c), at[d] = "start",
           Handler(d)
    PROVE  at'[d] = "sale"
  <1>1. HandleAssetSale(d)
    BY DEF Handler, HandleAssetListing, HandleAssetBid, MatchListing,
           UpdateHighestBid, CreateSale, HandleCancelBid, HandleCancelListing,
           HandleListingReprice, HandleAssetTransfer, CloseListing,
           HandleAssetBurn, HandleTensorListing, HandleTensorBuying, Handles
  <1>2. i.who \in Wallets /\ c.bids[i.who] # 0 /\ BidsShown(c.bids)
    BY ShowsWhole DEF Transaction, Ready
  <1>3. OpenBids(i.who) # {}
    BY <1>2, ShownBid DEF BidsShown
  <1> QED BY <1>1, <1>3 DEF HandleAssetSale, Goto, TypeOK

\* What a handler's step comes to, and what becomes of a sale it records.
Outcome(d, c, i) ==
    \/ /\ Handled(d) /\ Shows(Effect(c, i))'
       /\ missed' = IF i.type = "sale" THEN missed \ {d[1]} ELSE missed
    \/ todo' = todo /\ Running(d)' /\ Doing(d, c)' /\ missed' = missed
    \/ Refused(d) /\ i.type = "sale" /\ Shows(c)

\* Every handler's step, at an instruction the chain made it ready for.
LEMMA HandlerShows ==
    ASSUME TypeOK, Locals, NEW d \in Deliveries, NEW c \in Chain, NEW i \in Transaction,
           i = todo[d][1], Ready(c, i), Doing(d, c), Handler(d)
    PROVE  Outcome(d, c, i)
  <1>1. CASE CreateSale(d)
    BY <1>1, SaleShown DEF Outcome
  <1>2. CASE ~CreateSale(d)
    <2>1. at[d] # "sale" /\ missed' = missed
      BY <1>2, HandlerMissed
    <2>2. Brought(d, c, i)
      <3>1. CASE \/ HandleAssetListing(d) \/ HandleCancelListing(d)
                 \/ HandleListingReprice(d) \/ HandleTensorListing(d)
        BY <3>1, ListingsShown DEF Brought
      <3>2. CASE \/ HandleAssetBid(d) \/ MatchListing(d) \/ UpdateHighestBid(d)
                 \/ HandleCancelBid(d) \/ HandleAssetSale(d)
        BY <3>2, BidsShownOn
      <3>3. CASE \/ HandleAssetTransfer(d) \/ CloseListing(d)
                 \/ HandleAssetBurn(d) \/ HandleTensorBuying(d)
        BY <3>3, OwnersShown
      <3> QED BY <1>2, <3>1, <3>2, <3>3 DEF Handler
    <2>3. i.type = "sale" => at[d] = "start" /\ Shows(c)
      BY <2>1 DEF Doing
    <2>4. i.type = "sale" => ~Handled(d)
      <3>1. i.type = "sale" => at'[d] = "sale"
        BY <2>3, SaleStarts
      <3> QED BY <3>1 DEF Handled, TypeOK
    <2> QED BY <2>1, <2>2, <2>4 DEF Brought, Outcome
  <1> QED BY <1>1, <1>2

-----------------------------------------------------------------------------
(* What the chain accepted, its handlers are ready for.                      *)

\* The chain lists the asset, or says that it does not.
LEMMA ListingKinds ==
    ASSUME NEW c \in Chain
    PROVE  /\ c.listing = NoListing <=> Listed(c, "none")
           /\ c.listing = NoListing => ~Listed(c, "auction") /\ ~Listed(c, "tensor")
           /\ c.listing # NoListing => c.listing \in Listing
           /\ Listed(c, "none") \/ Listed(c, "auction") \/ Listed(c, "tensor")
           /\ \A t \in Transaction : t.seller = c.listing.seller => c.listing # NoListing
  BY MarketAssumption DEF Chain, Listing, NoListing, Listed, Sources, Transaction

\* A transaction of one instruction leads where that instruction does.
LEMMA AcceptedReady ==
    ASSUME NEW c \in Chain, NEW t \in Transaction, Accepts(c, t),
           SoundTransaction(t), SoundListing(c.listing), t.type # "buy",
           NEW i, <<i>> \in Instructions(t)
    PROVE  /\ i \in Transaction /\ i.who = t.who /\ i.seller = t.seller
           /\ i.price = t.price
           /\ i.type = t.type \/ (t.type = "tensorBuy" /\ i.type = "transfer")
           /\ Ready(c, i) /\ Effect(c, i) = Effect(c, t)
  <1>0. /\ t.type \in AllKinds /\ t.who \in Wallets /\ t.price \in Amounts
        /\ "transfer" \in AllKinds /\ c.bids[t.who] \in Amounts
    BY DEF Transaction, AllKinds, Chain
  <1>1. Amounts \subseteq Nat
    BY MarketAssumption DEF Amounts
  <1>2. CASE i = t
    <2>1. /\ t.type \in {"list", "timedList"} => c.listing = NoListing
          /\ t.type = "tensorList" => ~Listed(c, "auction")
          /\ t.type \in {"bid", "sale", "cancelListing", "reprice"} =>
               Listed(c, "auction")
          /\ t.type \in {"tensorDelist", "tensorBuy"} => Listed(c, "tensor")
          /\ t.type = "bid" => c.bids[t.who] = 0
          /\ t.type \in {"sale", "cancelBid"} => c.bids[t.who] > 0
      <3>1. CASE t.type \in {"list", "timedList"}
        BY <3>1, ListingKinds DEF Accepts
      <3>2. CASE t.type \in {"tensorList", "bid", "sale", "cancelListing", "reprice"}
        BY <3>2 DEF Accepts
      <3>3. CASE t.type = "tensorDelist"
        BY <3>3 DEF Accepts
      <3>4. CASE t.type = "tensorBuy"
        BY <3>4 DEF Accepts
      <3>5. CASE t.type = "cancelBid"
        BY <3>5 DEF Accepts
      <3> QED BY <3>1, <3>2, <3>3, <3>4, <3>5
    <2>2. t.type = "tensorList" => c.listing = NoListing \/ ~c.listing.timed
      BY <2>1, ListingKinds DEF SoundListing, Listed
    <2>3. Ready(c, t)
      BY <1>0, <1>1, <2>1, <2>2, ListingKinds DEF Ready, SoundTransaction
    <2> QED BY <1>2, <2>3
  <1>3. CASE i # t
    <2>1. t.type = "tensorBuy" /\ i = [t EXCEPT !.type = "transfer"]
      BY <1>3 DEF Instructions
    <2>2. /\ i \in Transaction /\ i.who = t.who /\ i.seller = t.seller
          /\ i.price = t.price /\ i.type = "transfer"
      BY <1>0, <2>1 DEF Transaction
    <2>3. Effect(c, i) = Effect(c, t)
      BY <2>1, <2>2 DEF Effect
    <2>4. Ready(c, i)
      BY <2>2 DEF Ready
    <2> QED BY <2>1, <2>2, <2>3, <2>4
  <1> QED BY <1>2, <1>3

LEMMA SameShown ==
    ASSUME NEW c, NEW e, c.owner = e.owner, c.burned = e.burned,
           c.listing = e.listing, c.bids = e.bids
    PROVE  Shows(c) <=> Shows(e)
  BY DEF Shows

\* An instant buy leads where its bid and its sale do.
LEMMA BuyReady ==
    ASSUME NEW c \in Chain, NEW t \in Transaction, Accepts(c, t),
           SoundListing(c.listing), t.type = "buy",
           NEW b, b = [t EXCEPT !.type = "bid"],
           NEW s, s = [t EXCEPT !.type = "sale"],
           NEW m, m = Effect(c, b), NEW e, e = Effect(m, s),
           NEW f, f = Effect(c, t)
    PROVE  /\ Instructions(t) = {<<b, s>>} /\ b \in Transaction /\ s \in Transaction
           /\ b.type = "bid" /\ m \in Chain /\ Ready(c, b) /\ Ready(m, s)
           /\ e.owner = f.owner /\ e.burned = f.burned /\ e.listing = f.listing
           /\ e.bids = f.bids
  <1>1. /\ t.who \in Wallets /\ t.price \in Amounts
        /\ "bid" \in AllKinds /\ "sale" \in AllKinds
        /\ c.bids \in [Wallets -> Amounts] /\ Amounts \subseteq Nat
    BY MarketAssumption DEF Transaction, AllKinds, AuctionKinds, Chain, Amounts
  <1>2. /\ b \in Transaction /\ b.who = t.who /\ b.price = t.price /\ b.type = "bid"
        /\ b.seller = t.seller
        /\ s \in Transaction /\ s.who = t.who /\ s.price = t.price /\ s.type = "sale"
    BY <1>1 DEF Transaction
  <1>3. /\ Listed(c, "auction") /\ ~c.listing.timed /\ c.bids[t.who] = 0
        /\ t.who # c.listing.seller /\ t.price = c.listing.price
    BY DEF Accepts
  <1>4. c.listing # NoListing /\ t.price > 0
    BY <1>3, ListingKinds DEF SoundListing, Listed
  <1>5. Ready(c, b)
    BY <1>1, <1>2, <1>3, <1>4 DEF Ready
  <1>6. Accepts(c, b)
    BY <1>2, <1>3 DEF Accepts
  <1>7. m \in Chain
    BY <1>2, <1>6, EffectType
  <1>8. /\ m.owner = c.owner /\ m.burned = c.burned /\ m.listing = c.listing
        /\ m.bids = [c.bids EXCEPT ![t.who] = t.price]
    <2>1. /\ m.owner = c.owner /\ m.burned = c.burned
          /\ m.listing = ListingAfter(c, b) /\ m.bids = BidsAfter(c, b)
      BY <1>2, EffectFields DEF Moves
    <2> QED BY <1>2, <2>1 DEF Moves, ListingAfter, BidsAfter
  <1>9. Ready(m, s)
    BY <1>1, <1>2, <1>4, <1>8 DEF Ready
  <1>10. /\ e.owner = t.who /\ e.burned = c.burned /\ e.listing = NoListing
         /\ e.bids = [m.bids EXCEPT ![t.who] = 0]
    <2>1. /\ e.owner = s.who /\ e.burned = m.burned
          /\ e.listing = ListingAfter(m, s) /\ e.bids = BidsAfter(m, s)
      BY <1>2, <1>7, EffectFields DEF Moves
    <2> QED BY <1>2, <1>8, <2>1 DEF Moves, ListingAfter, BidsAfter
  <1>11. /\ f.owner = t.who /\ f.burned = c.burned /\ f.listing = NoListing
         /\ f.bids = c.bids
    BY EffectFields DEF Moves, ListingAfter, BidsAfter
  <1>12. e.bids = c.bids
    <2>1. e.bids = [[c.bids EXCEPT ![t.who] = t.price] EXCEPT ![t.who] = 0]
      BY <1>8, <1>10
    <2>2. c.bids[t.who] = 0
      BY <1>3
    <2> QED BY <1>1, <2>1, <2>2
  <1>13. Instructions(t) = {<<b, s>>}
    BY DEF Instructions
  <1> QED BY <1>2, <1>5, <1>7, <1>9, <1>10, <1>11, <1>12, <1>13

\* A repeated call finds everything done: its handler throws, or writes what
\* the rows say already.
LEMMA RepeatShows ==
    ASSUME TypeOK, NEW d \in Deliveries, NEW c \in Chain, NEW t \in Transaction,
           Accepts(c, t), SoundTransaction(t), SoundListing(c.listing),
           Repeatable(t), NEW i, i = todo[d][1], <<i>> \in Instructions(t),
           NEW e, e = Effect(c, t), at[d] = "start", Shows(e), Handler(d)
    PROVE  (Handled(d) \/ Throw(d)) /\ Shows(e)'
  <1>0. /\ i \in Transaction /\ i.who = t.who /\ i.seller = t.seller /\ Ready(c, i)
        /\ e = Effect(c, i) /\ i.who \in Wallets /\ i.price \in Amounts
    <2>1. t.type # "buy"
      BY DEF Repeatable
    <2>2. /\ i \in Transaction /\ i.who = t.who /\ i.seller = t.seller /\ Ready(c, i)
          /\ e = Effect(c, i)
      BY <2>1, AcceptedReady
    <2> QED BY <2>2 DEF Transaction
  <1>1. /\ owner = e.owner /\ isBurned = e.burned
        /\ ShowsListing(e.listing) /\ BidsShown(e.bids)
    BY ShowsWhole
  <1>2. /\ e.owner = IF i.type \in Moves THEN i.who ELSE c.owner
        /\ e.burned = IF i.type = "burn" THEN TRUE ELSE c.burned
        /\ e.listing = ListingAfter(c, i) /\ e.bids = BidsAfter(c, i)
    <2>1. /\ Effect(c, i).owner = IF i.type \in Moves THEN i.who ELSE c.owner
          /\ Effect(c, i).burned = IF i.type = "burn" THEN TRUE ELSE c.burned
          /\ Effect(c, i).listing = ListingAfter(c, i)
          /\ Effect(c, i).bids = BidsAfter(c, i)
      BY <1>0, EffectFields
    <2> QED BY <1>0, <2>1
  <1>3. e.listing = NoListing <=> OpenListings = {}
    BY <1>1, ShownListing
  <1>4. e.bids[i.who] = 0 <=> OpenBids(i.who) = {}
    BY <1>0, <1>1, ShownBid DEF BidsShown
  <1>5. UNCHANGED <<owner, isBurned, listings, bids>> => Shows(e)'
    <2> SUFFICES ASSUME UNCHANGED <<owner, isBurned, listings, bids>> PROVE Shows(e)'
      OBVIOUS
    <2>1. ShowsListing(e.listing)' /\ BidsShown(e.bids)'
      BY <1>1, ListingsStay, BidsStay
    <2> QED BY <1>1, <2>1, WholeShown
  <1>6. ASSUME NEW n \in OpenListings, NEW r \in ListingRow, r.open,
               Offer(r) = e.listing, listings' = [listings EXCEPT ![n] = r],
               UNCHANGED <<owner, isBurned, bids>>
        PROVE  Shows(e)'
    <2>1. ShowsListing(Offer(r))'
      BY <1>1, <1>6, ListingChanged
    <2>2. BidsShown(e.bids)'
      BY <1>1, <1>6, BidsStay
    <2> QED BY <1>1, <1>6, <2>1, <2>2, WholeShown
  <1>7. \A n \in OpenListings : /\ listings[n] \in ListingRow /\ listings[n].open
                                /\ Offer(listings[n]) = e.listing
    BY <1>1, ShownListing DEF OpenListings, TypeOK
  <1>7a. \A n \in OpenListings : /\ listings[n].price = e.listing.price
                                 /\ listings[n].seller = e.listing.seller
                                 /\ listings[n].source = e.listing.source
    <2>1. \A r : /\ Offer(r).price = r.price /\ Offer(r).seller = r.seller
                 /\ Offer(r).source = r.source
      BY DEF Offer
    <2> QED BY <1>7, <2>1
  <1>8. c.bids \in [Wallets -> Amounts]
    BY DEF Chain
  <1>9. CASE HandleAssetListing(d)
    <2>1. i.type \in {"list", "timedList"}
      BY <1>9 DEF HandleAssetListing, Handles
    <2>2. e.listing # NoListing
      BY <1>0, <1>2, <2>1, MarketAssumption
         DEF ListingAfter, Moves, NoListing, Transaction
    <2> QED BY <1>3, <1>5, <1>9, <2>2 DEF HandleAssetListing
  <1>10. CASE HandleAssetBid(d)
    <2>1. i.type = "bid" /\ e.bids[i.who] # 0
      BY <1>0, <1>2, <1>8, <1>10 DEF HandleAssetBid, Handles, Ready, BidsAfter
    <2> QED BY <1>4, <1>5, <1>10, <2>1 DEF HandleAssetBid
  <1>11. CASE HandleAssetSale(d)
    <2>1. i.type = "sale" /\ e.bids[i.who] = 0
      BY <1>0, <1>2, <1>8, <1>11 DEF HandleAssetSale, Handles, BidsAfter
    <2> QED BY <1>4, <1>5, <1>11, <2>1 DEF HandleAssetSale, rowVars
  <1>12. CASE HandleCancelBid(d)
    <2>1. i.type = "cancelBid" /\ e.bids[i.who] = 0
      BY <1>0, <1>2, <1>8, <1>12 DEF HandleCancelBid, Handles, BidsAfter
    <2> QED BY <1>4, <1>5, <1>12, <2>1 DEF HandleCancelBid
  <1>13. CASE HandleCancelListing(d)
    <2>1. i.type \in {"cancelListing", "tensorDelist"} /\ e.listing = NoListing
      BY <1>2, <1>13 DEF HandleCancelListing, Handles, ListingAfter
    <2> QED BY <1>3, <1>5, <1>13, <2>1 DEF HandleCancelListing
  <1>14. CASE HandleListingReprice(d)
    <2>1. i.type = "reprice" /\ c.listing \in Listing
      BY <1>0, <1>14, ListingKinds DEF HandleListingReprice, Handles, Ready
    <2>2. e.listing = [c.listing EXCEPT !.price = i.price]
      BY <1>2, <2>1 DEF ListingAfter, Moves
    <2>3. e.listing # NoListing /\ e.listing.price = i.price
      BY <2>1, <2>2, MarketAssumption DEF Listing, NoListing
    <2>4. PICK n \in OpenListings : listings' = [listings EXCEPT ![n].price = i.price]
      BY <1>3, <1>14, <2>3 DEF HandleListingReprice
    <2>5. PICK r : r = [listings[n] EXCEPT !.price = i.price]
      OBVIOUS
    <2>6. listings[n].price = i.price
      BY <1>7a, <2>3
    <2>7. r \in ListingRow /\ r.open /\ Offer(r) = Offer(listings[n])
      BY <1>0, <1>7, <2>5, <2>6 DEF ListingRow, Offer
    <2>8. listings' = [listings EXCEPT ![n] = r]
      BY <2>4, <2>5
    <2>9. Shows(e)'
      BY <1>6, <1>7, <1>14, <2>7, <2>8 DEF HandleListingReprice
    <2> QED BY <1>3, <1>14, <2>3, <2>9 DEF HandleListingReprice
  <1>15. CASE HandleAssetTransfer(d)
    <2>1. i.type = "transfer"
      BY <1>15 DEF HandleAssetTransfer, Handles
    <2>2. e.listing = NoListing /\ e.owner = i.who
      BY <1>2, <2>1 DEF ListingAfter, Moves
    <2>3. Handled(d) /\ UNCHANGED <<owner, isBurned, listings, bids>>
      BY <1>1, <1>3, <1>15, <2>2 DEF HandleAssetTransfer
    <2> QED BY <1>5, <2>3
  <1>16. CASE HandleAssetBurn(d)
    <2>1. i.type = "burn" /\ e.burned = TRUE
      BY <1>2, <1>16 DEF HandleAssetBurn, Handles
    <2>2. Handled(d) /\ isBurned' = TRUE /\ UNCHANGED <<owner, listings, bids>>
      BY <1>16, Zenon DEF HandleAssetBurn
    <2> QED BY <1>1, <1>5, <2>1, <2>2
  <1>17. CASE HandleTensorListing(d)
    <2>1. i.type = "tensorList" /\ i.who = i.seller
      BY <1>0, <1>17, Zenon DEF HandleTensorListing, Handles, Ready
    <2>2. e.listing = [seller |-> i.who, price |-> i.price, source |-> "tensor",
                       timed |-> FALSE]
      BY <1>2, <2>1 DEF ListingAfter, Moves
    <2>3. e.listing # NoListing
      BY <1>0, <2>2, MarketAssumption DEF NoListing
    <2>4. PICK n \in OpenListings :
            listings' = [listings EXCEPT ![n].price = i.price, ![n].seller = i.who,
                                         ![n].source = "tensor"]
      BY <1>3, <1>17, <2>3, Zenon DEF HandleTensorListing
    <2>5. PICK r : r = [listings[n] EXCEPT !.price = i.price, !.seller = i.who,
                                           !.source = "tensor"]
      OBVIOUS
    <2>6. /\ listings[n].price = i.price /\ listings[n].seller = i.who
          /\ listings[n].source = "tensor" /\ listings[n] \in ListingRow
      BY <1>7, <1>7a, <2>2
    <2>7. r \in ListingRow /\ r.open /\ Offer(r) = Offer(listings[n])
      <3>1. /\ r.price = listings[n].price /\ r.seller = listings[n].seller
            /\ r.source = listings[n].source /\ r.timed = listings[n].timed
            /\ r.open = listings[n].open
        BY <2>5, <2>6 DEF ListingRow
      <3>2. r \in ListingRow
        BY <1>0, <2>5, <2>6 DEF ListingRow, Sources
      <3> QED BY <1>7, <3>1, <3>2 DEF Offer
    <2>8. listings' = [listings EXCEPT ![n] = r]
      BY <2>4, <2>5, <1>7 DEF OpenListings
    <2>9. Handled(d) /\ UNCHANGED <<owner, isBurned, bids>>
      BY <1>17, Zenon DEF HandleTensorListing
    <2> QED BY <1>6, <1>7, <2>7, <2>8, <2>9
  <1>18. CASE HandleTensorBuying(d)
    <2>1. i.type = "tensorBuy"
      BY <1>18 DEF HandleTensorBuying, Handles
    <2>2. e.listing = NoListing
      BY <1>2, <2>1 DEF ListingAfter, Moves
    <2> QED BY <1>3, <1>5, <1>18, <2>2 DEF HandleTensorBuying
  <1>19. ~(MatchListing(d) \/ UpdateHighestBid(d) \/ CreateSale(d) \/ CloseListing(d))
    BY DEF MatchListing, UpdateHighestBid, CreateSale, CloseListing
  <1> QED BY <1>9, <1>10, <1>11, <1>12, <1>13, <1>14, <1>15, <1>16, <1>17, <1>18,
             <1>19 DEF Handler

-----------------------------------------------------------------------------
(* The chain's history.                                                      *)

LEMMA SoundEffect ==
    ASSUME NEW c \in Chain, NEW t \in Transaction, SoundTransaction(t),
           SoundListing(c.listing)
    PROVE  SoundListing(Effect(c, t).listing)
  <1>1. PICK l : l = Effect(c, t).listing
    OBVIOUS
  <1>2. l = ListingAfter(c, t)
    BY <1>1, EffectFields
  <1>3. SoundListing(NoListing)
    BY DEF SoundListing, NoListing
  <1>4. CASE t.type \in {"list", "timedList", "tensorList"}
    <2>1. /\ l.source = IF t.type = "tensorList" THEN "tensor" ELSE "auction"
          /\ l.timed = (t.type = "timedList") /\ l.price = t.price
      BY <1>2, <1>4 DEF ListingAfter, Moves
    <2> QED BY <1>1, <1>4, <2>1 DEF SoundListing, SoundTransaction
  <1>5. CASE t.type = "reprice"
    <2>1. l = [c.listing EXCEPT !.price = t.price]
      BY <1>2, <1>5 DEF ListingAfter, Moves
    <2>2. /\ l.price = t.price /\ l.source = c.listing.source
          /\ l.timed = c.listing.timed
      BY <2>1 DEF Chain, Listing, NoListing
    <2> QED BY <1>1, <1>5, <2>2 DEF SoundListing, SoundTransaction
  <1>6. CASE t.type \notin {"list", "timedList", "tensorList", "reprice"}
    <2>1. l = NoListing \/ l = c.listing
      BY <1>2, <1>6 DEF ListingAfter
    <2> QED BY <1>1, <1>3, <2>1
  <1> QED BY <1>4, <1>5, <1>6

LEMMA BuiltSound ==
    ASSUME TypeOK, BuildTransaction, \A t \in pending : SoundTransaction(t)
    PROVE  \A t \in pending' : SoundTransaction(t)
  <1>1. \A p \in Prices : p > 0
    BY MarketAssumption
  <1>2. ASSUME NEW type, NEW who, NEW seller, NEW price,
               type \in {"list", "timedList", "tensorList"} => who = seller,
               type \in {"list", "bid", "reprice"} => price > 0,
               Build(type, who, seller, price)
        PROVE  \A t \in pending' : SoundTransaction(t)
    <2>1. PICK new : new = [type |-> type, who |-> who, seller |-> seller,
                            price |-> price]
      OBVIOUS
    <2>2. pending' = pending \cup {new}
      BY <1>2, <2>1 DEF Build
    <2>3. SoundTransaction(new)
      BY <1>2, <2>1 DEF SoundTransaction
    <2> QED BY <2>2, <2>3
  <1>3. CASE list
    BY <1>1, <1>2, <1>3 DEF list
  <1>4. CASE timedAuctionList
    BY <1>2, <1>4 DEF timedAuctionList
  <1>5. CASE bid
    BY <1>1, <1>2, <1>5 DEF bid
  <1>6. CASE executeSale
    BY <1>2, <1>6 DEF executeSale
  <1>7. CASE instantBuy
    BY <1>2, <1>7 DEF instantBuy
  <1>8. CASE cancelBid
    BY <1>2, <1>8 DEF cancelBid
  <1>9. CASE cancelListing
    BY <1>2, <1>9 DEF cancelListing
  <1>10. CASE repriceListing
    BY <1>1, <1>2, <1>10 DEF repriceListing
  <1> QED BY <1>3, <1>4, <1>5, <1>6, <1>7, <1>8, <1>9, <1>10 DEF BuildTransaction

\* The chain executes what was built for it, or is sound by itself.
LEMMA SoundStep ==
    ASSUME TypeOK, ChainInv, ExecuteBuilt \/ ExecuteForeign
    PROVE  \E t \in Transaction : /\ SoundTransaction(t) /\ Execute(t)
                                  /\ pending' \subseteq pending
  <1>1. \A t \in Foreign : SoundTransaction(t)
    BY DEF Foreign, SoundTransaction
  <1> QED BY <1>1, ForeignType DEF ExecuteBuilt, ExecuteForeign, TypeOK, ChainInv

LEMMA Executed ==
    ASSUME TypeOK, ChainInv, NEW t \in Transaction, SoundTransaction(t), Execute(t),
           pending' \subseteq pending
    PROVE  /\ ChainInv'
           /\ \A i \in DOMAIN states : states'[i] = states[i]
           /\ \A i \in DOMAIN log : log'[i] = log[i]
  <1>1. PICK c, e : c = chain /\ e = Effect(c, t)
    OBVIOUS
  <1>2. /\ c \in Chain /\ Accepts(c, t) /\ e \in Chain /\ chain' = e
        /\ log' = Append(log, t) /\ states' = Append(states, e)
    BY <1>1, EffectType DEF TypeOK, Execute
  <1>3. /\ log \in Seq(Transaction) /\ states \in Seq(Chain)
        /\ Len(states) = Len(log) + 1 /\ c = states[Len(states)]
    BY <1>1 DEF TypeOK, ChainInv
  <1>4. /\ Len(log') = Len(log) + 1 /\ log'[Len(log) + 1] = t
        /\ \A i \in DOMAIN log : log'[i] = log[i]
        /\ \A i \in DOMAIN log' : i \in DOMAIN log \/ i = Len(log) + 1
    BY <1>2, <1>3, RowAdded
  <1>5. /\ Len(states') = Len(states) + 1 /\ states'[Len(states) + 1] = e
        /\ \A i \in DOMAIN states : states'[i] = states[i]
        /\ \A i \in DOMAIN states' : i \in DOMAIN states \/ i = Len(states) + 1
    BY <1>2, <1>3, RowAdded
  <1>6. SoundListing(c.listing)
    BY <1>3 DEF ChainInv
  <1>7. SoundListing(e.listing)
    BY <1>1, <1>2, <1>6, SoundEffect
  <1>8. /\ Len(log) \in Nat /\ DOMAIN log = 1 .. Len(log)
        /\ DOMAIN states = 1 .. (Len(log) + 1)
    BY <1>3
  <1>9. ASSUME NEW i \in DOMAIN log'
        PROVE  /\ SoundTransaction(log'[i]) /\ Accepts(states'[i], log'[i])
               /\ states'[i + 1] = Effect(states'[i], log'[i])
    <2>1. CASE i \in DOMAIN log
      <3>1. i \in DOMAIN states /\ i + 1 \in DOMAIN states
        BY <1>8, <2>1
      <3> QED BY <1>4, <1>5, <2>1, <3>1 DEF ChainInv
    <2>2. CASE i = Len(log) + 1
      <3>1. i = Len(states) /\ i \in DOMAIN states /\ i + 1 = Len(states) + 1
        BY <1>3, <1>8, <2>2
      <3> QED BY <1>1, <1>2, <1>3, <1>4, <1>5, <2>2, <3>1
    <2> QED BY <1>4, <2>1, <2>2
  <1>10. \A i \in DOMAIN states' : SoundListing(states'[i].listing)
    BY <1>5, <1>7 DEF ChainInv
  <1>11. Len(states') = Len(log') + 1 /\ chain' = states'[Len(states')]
    BY <1>2, <1>3, <1>4, <1>5
  <1>12. \A u \in pending' : SoundTransaction(u)
    BY DEF ChainInv
  <1> QED BY <1>4, <1>5, <1>9, <1>10, <1>11, <1>12 DEF ChainInv

\* No other step moves the chain.
LEMMA NextChainInv ==
    ASSUME TypeOK, ChainInv, [Next]_vars
    PROVE  ChainInv'
  <1>1. CASE BuildTransaction
    <2>1. UNCHANGED <<log, chain, states>> /\ \A t \in pending' : SoundTransaction(t)
      BY <1>1, BuiltType, BuiltSound DEF ChainInv
    <2> QED BY <2>1 DEF ChainInv
  <1>2. CASE ExecuteBuilt \/ ExecuteForeign
    BY <1>2, SoundStep, Executed
  <1>3. ASSUME UNCHANGED chainVars PROVE ChainInv'
    BY <1>3 DEF ChainInv, chainVars
  <1>4. ASSUME NEW d \in Deliveries, Deliver(d) PROVE ChainInv'
    BY <1>3, <1>4 DEF Deliver
  <1>5. ASSUME NEW d \in Deliveries, Handler(d) PROVE ChainInv'
    BY <1>3, <1>5, HandlerAdvances
  <1>6. ASSUME NEW d \in Deliveries, Fail(d) PROVE ChainInv'
    BY <1>3, <1>6 DEF Fail
  <1>7. CASE UNCHANGED vars
    BY <1>3, <1>7 DEF vars
  <1>8. ASSUME NEW w \in Wallets, ConnectWallet(w) PROVE ChainInv'
    BY <1>3, <1>8, ConnectStep
  <1> QED BY <1>1, <1>2, <1>4, <1>5, <1>6, <1>7, <1>8 DEF Next

-----------------------------------------------------------------------------
(* The rows follow the chain.                                                *)

\* A handler whose rows stay stays where it was.
LEMMA DoingStays ==
    ASSUME UNCHANGED tables, NEW c
    PROVE  /\ Shows(c)' <=> Shows(c)
           /\ UNCHANGED handlerVars =>
                \A d \in Deliveries : Doing(d, c)' <=> Doing(d, c)
  <1>1. \A e : Shows(e)' <=> Shows(e)
    BY DEF Shows, ShowsListing, ShowsBid, OpenListings, OpenBids, tables
  <1> QED BY <1>1 DEF Doing, handlerVars

\* One instruction is all of what is left, or it has one more behind it.
LEMMA LastHandled ==
    ASSUME TypeOK, NEW d \in Deliveries, Handled(d) \/ Throw(d),
           NEW i, todo[d] = <<i>>
    PROVE  at'[d] = "done"
  BY DEF Handled, Throw, TypeOK

LEMMA FirstHandled ==
    ASSUME TypeOK, NEW d \in Deliveries, Handled(d),
           NEW i, NEW j, todo[d] = <<i, j>>
    PROVE  at'[d] = "start" /\ todo'[d] = <<j>>
  <1>1. Tail(todo[d]) = <<j>> /\ <<j>> # <<>>
    OBVIOUS
  <1> QED BY <1>1 DEF Handled, TypeOK

\* A handler's step keeps MirrorInv if what it says of the last transaction
\* delivered is kept.
LEMMA MirrorKept ==
    ASSUME TypeOK, MirrorInv, order = "sequential",
           NEW d \in Deliveries, Handler(d), d[1] = started,
           missed' \subseteq {started} => FollowsChain'
    PROVE  MirrorInv'
  <1>1. Running(d) /\ started' = started /\ \A e \in Deliveries \ {d} : at'[e] = at[e]
    BY HandlerAdvances, AdvanceType DEF TypeOK, PlaceOK, Running
  <1>2. \A e \in Deliveries : Running(e)' => e[1] = started
    BY <1>1 DEF MirrorInv, Running
  <1>3. d[1] \in 1 .. started
    BY DEF Deliveries, TypeOK
  <1>4. missed' \subseteq 1 .. started
    BY <1>3, HandlerMissed DEF MirrorInv
  <1> QED BY <1>1, <1>2, <1>4 DEF MirrorInv

\* The only handler there was is through, and the rows are where it left them.
LEMMA MirrorQuiet ==
    ASSUME TypeOK, NEW d \in Deliveries, Handler(d),
           \A e \in Deliveries : Running(e) => e = d,
           at'[d] = "done", Shows(Shown)',
           missed' # {} => log'[started'].type \in {"sale", "buy"}
    PROVE  FollowsChain'
  <1>1. \A e \in Deliveries \ {d} : at'[e] = at[e]
    BY HandlerAdvances, AdvanceType DEF TypeOK, PlaceOK, Running
  <1>2. \A e \in Deliveries : ~Running(e)'
    BY <1>1 DEF Running
  <1> QED BY <1>2 DEF FollowsChain

LEMMA MirrorFirst ==
    ASSUME TypeOK, NEW d \in Deliveries, Handler(d),
           \A e \in Deliveries : Running(e) => e = d,
           Running(d)', FirstTime(d)', missed' = {} \/ log'[started'].type = "sale"
    PROVE  FollowsChain'
  <1>1. \A e \in Deliveries \ {d} : at'[e] = at[e]
    BY HandlerAdvances, AdvanceType DEF TypeOK, PlaceOK, Running
  <1>2. \A e \in Deliveries : Running(e)' => e = d
    BY <1>1 DEF Running
  <1> QED BY <1>2 DEF FollowsChain, Quiet

LEMMA MirrorHandled ==
    ASSUME TypeOK, TypeOK', Locals, PriceInv, ChainInv, MirrorInv,
           order = "sequential", NEW d \in Deliveries, Handler(d)
    PROVE  MirrorInv'
  <1>1. Running(d) /\ UNCHANGED <<chainVars, started, order>>
    BY HandlerAdvances
  <1>2. \A e \in Deliveries : Running(e) => e = d
    BY <1>1 DEF PriceInv
  <1>3. d[1] = started
    BY <1>1 DEF MirrorInv
  <1> SUFFICES ASSUME missed' \subseteq {started} PROVE FollowsChain'
    BY <1>3, MirrorKept
  <1>4. missed \subseteq {started} /\ FollowsChain
    BY <1>3, HandlerMissed DEF MirrorInv
  <1>5. /\ missed = {} \/ missed = {started}
        /\ \/ FirstTime(d) /\ (missed = {} \/ log[started].type = "sale")
           \/ Again(d) /\ missed = {}
    BY <1>1, <1>4 DEF FollowsChain
  <1>6. started \in DOMAIN log /\ started \in DOMAIN states
    <2>1. started \in 0 .. Len(log) /\ Len(states) = Len(log) + 1
      BY DEF TypeOK, ChainInv
    <2>2. started # 0
      BY <1>3 DEF Deliveries
    <2>3. DOMAIN log = 1 .. Len(log) /\ DOMAIN states = 1 .. Len(states) /\ Len(log) \in Nat
      BY DEF TypeOK
    <2> QED BY <2>1, <2>2, <2>3
  <1>7. PICK t, c, f : t = log[started] /\ c = states[started] /\ f = states[started + 1]
    OBVIOUS
  <1>8. t \in Transaction /\ c \in Chain
    <2>1. log \in Seq(Transaction) /\ states \in Seq(Chain)
      BY DEF TypeOK
    <2> QED BY <1>6, <1>7, <2>1
  <1>9. /\ SoundTransaction(t) /\ Accepts(c, t) /\ f = Effect(c, t)
        /\ SoundListing(c.listing)
    BY <1>6, <1>7 DEF ChainInv
  <1>10. log'[started'] = t /\ states'[started'] = c /\ states'[started' + 1] = f
    BY <1>1, <1>7 DEF chainVars
  <1>11. PICK i : i = todo[d][1]
    OBVIOUS
  <1>12. ASSUME at'[d] = "done", Shows(f)', missed' = {} PROVE FollowsChain'
    <2>1. Shown' = f
      BY <1>10, <1>12 DEF Shown
    <2>2. Shows(Shown)'
      BY <1>12, <2>1 DEF Shows
    <2> QED BY <1>2, <1>12, <2>2, MirrorQuiet
  <1>13. ASSUME Refused(d), NEW u, Shows(u), Unsold' = u, t.type \in {"sale", "buy"}
         PROVE  FollowsChain'
    <2>1. at'[d] = "done" /\ missed' # {}
      BY <1>13 DEF Refused, Throw, TypeOK
    <2>2. Shows(u)'
      BY <1>13, DoingStays DEF Refused
    <2>3. Shown' = u
      BY <1>13, <2>1 DEF Shown
    <2>4. Shows(Shown)'
      BY <2>2, <2>3 DEF Shows
    <2> QED BY <1>2, <1>10, <1>13, <2>1, <2>4, MirrorQuiet
  <1>14. t.type # "buy" => \A is \in Instructions(t) : is = <<is[1]>>
    BY DEF Instructions
  <1>15. CASE Again(d) /\ missed = {}
    <2>1. at[d] = "start" /\ Repeatable(t) /\ Shows(f) /\ todo[d] \in Instructions(t)
      BY <1>7, <1>15 DEF Again
    <2>2. todo[d] = <<i>>
      BY <1>11, <1>14, <2>1 DEF Repeatable
    <2>3. (Handled(d) \/ Throw(d)) /\ Shows(f)'
      BY <1>8, <1>9, <1>11, <2>1, <2>2, RepeatShows
    <2>4. at'[d] = "done" /\ missed' = {}
      BY <1>15, <2>1, <2>2, <2>3, LastHandled, HandlerMissed
    <2> QED BY <1>12, <2>3, <2>4
  <1>16. CASE FirstTime(d) /\ t.type # "buy" /\ (missed = {} \/ t.type = "sale")
    <2>1. todo[d] \in Instructions(t) /\ Doing(d, c)
      BY <1>7, <1>16 DEF FirstTime
    <2>2. todo[d] = <<i>>
      BY <1>11, <1>14, <1>16, <2>1
    <2>3. /\ i \in Transaction /\ Ready(c, i) /\ Effect(c, i) = f
          /\ i.type = "sale" <=> t.type = "sale"
      BY <1>8, <1>9, <1>16, <2>1, <2>2, AcceptedReady
    <2>4. Outcome(d, c, i)
      BY <1>8, <1>11, <2>1, <2>3, HandlerShows
    <2>5. CASE /\ Handled(d) /\ Shows(Effect(c, i))'
               /\ missed' = IF i.type = "sale" THEN missed \ {d[1]} ELSE missed
      <3>1. missed' = {}
        BY <1>3, <1>5, <1>16, <2>3, <2>5
      <3>2. Shows(f)'
        BY <2>3, <2>5
      <3> QED BY <1>12, <2>2, <2>5, <3>1, <3>2, LastHandled
    <2>6. CASE todo' = todo /\ Running(d)' /\ Doing(d, c)' /\ missed' = missed
      <3>1. FirstTime(d)'
        BY <1>10, <2>1, <2>6 DEF FirstTime
      <3> QED BY <1>2, <1>10, <1>16, <2>6, <3>1, MirrorFirst
    <2>7. CASE Refused(d) /\ i.type = "sale" /\ Shows(c)
      <3>1. Unsold' = c
        BY <1>10, <1>16 DEF Unsold
      <3> QED BY <1>13, <2>3, <2>7, <3>1
    <2> QED BY <2>4, <2>5, <2>6, <2>7 DEF Outcome
  <1>17. CASE FirstTime(d) /\ t.type = "buy" /\ missed = {}
    <2>1. PICK b, s : b = [t EXCEPT !.type = "bid"] /\ s = [t EXCEPT !.type = "sale"]
      OBVIOUS
    <2>2. PICK m : m = Effect(c, b)
      OBVIOUS
    <2>3. PICK e : e = Effect(m, s)
      OBVIOUS
    <2>4. /\ Instructions(t) = {<<b, s>>} /\ b \in Transaction /\ s \in Transaction
          /\ b.type = "bid" /\ m \in Chain /\ Ready(c, b) /\ Ready(m, s)
          /\ e.owner = f.owner /\ e.burned = f.burned /\ e.listing = f.listing
          /\ e.bids = f.bids
      BY <1>8, <1>9, <1>17, <2>1, <2>2, <2>3, BuyReady
    <2>5. \/ todo[d] = <<b, s>> /\ Doing(d, c)
          \/ todo[d] = <<s>> /\ Doing(d, m)
      BY <1>7, <1>17, <2>1, <2>2, <2>4 DEF FirstTime
    <2>6. CASE todo[d] = <<b, s>> /\ Doing(d, c)
      <3>1. i = b
        BY <1>11, <2>6
      <3>2. Outcome(d, c, b)
        BY <1>8, <1>11, <2>4, <2>6, <3>1, HandlerShows
      <3>3. CASE Handled(d) /\ Shows(m)' /\ missed' = missed
        <4>1. at'[d] = "start" /\ todo'[d] = <<s>>
          BY <2>6, <3>3, FirstHandled
        <4>2. Doing(d, m)'
          BY <3>3, <4>1 DEF Doing
        <4>3. FirstTime(d)'
          BY <1>10, <1>17, <2>1, <2>2, <4>1, <4>2 DEF FirstTime
        <4> QED BY <1>2, <1>17, <3>3, <4>1, <4>3, MirrorFirst DEF Running
      <3>4. CASE todo' = todo /\ Running(d)' /\ Doing(d, c)' /\ missed' = missed
        <4>1. FirstTime(d)'
          BY <1>10, <2>4, <2>6, <3>4 DEF FirstTime
        <4> QED BY <1>2, <1>17, <3>4, <4>1, MirrorFirst
      <3> QED BY <2>2, <2>4, <3>2, <3>3, <3>4 DEF Outcome
    <2>7. CASE todo[d] = <<s>> /\ Doing(d, m)
      <3>1. i = s
        BY <1>11, <2>7
      <3>2. Outcome(d, m, s)
        BY <1>11, <2>4, <2>7, <3>1, HandlerShows
      <3>3. CASE Handled(d) /\ Shows(e)' /\ missed' \subseteq missed
        <4>1. Shows(f)'
          BY <2>4, <3>3 DEF Shows
        <4> QED BY <1>12, <1>17, <2>7, <3>3, <4>1, LastHandled
      <3>4. CASE todo' = todo /\ Running(d)' /\ Doing(d, m)' /\ missed' = missed
        <4>1. FirstTime(d)'
          BY <1>10, <1>17, <2>1, <2>2, <2>7, <3>4 DEF FirstTime
        <4> QED BY <1>2, <1>17, <3>4, <4>1, MirrorFirst
      <3>5. CASE Refused(d) /\ Shows(m)
        <4>1. Unsold' = m
          BY <1>10, <1>17, <2>1, <2>2 DEF Unsold
        <4> QED BY <1>13, <1>17, <3>5, <4>1
      <3> QED BY <2>3, <3>2, <3>3, <3>4, <3>5 DEF Outcome
    <2> QED BY <2>5, <2>6, <2>7
  <1> QED BY <1>5, <1>7, <1>15, <1>16, <1>17

\* A call that comes in turn, or again, finds the rows where the chain was, and
\* one about a sale that is missed those before it.
LEMMA MirrorDelivered ==
    ASSUME TypeOK, ChainInv, MirrorInv, NEW d \in Deliveries, Deliver(d),
           order' = "sequential"
    PROVE  MirrorInv'
  <1>1. /\ order = "sequential" /\ Quiet /\ missed' = missed
        /\ d[1] = started + 1 \/ (d[1] = started /\ Repeatable(log[started]))
    BY DEF Deliver
  <1>2. missed \subseteq 1 .. started /\ started \in Nat
    BY <1>1 DEF MirrorInv, TypeOK
  <1>3. /\ UNCHANGED <<rowVars, chainVars>> /\ at' = [at EXCEPT ![d] = "start"]
        /\ \E is \in Instructions(log[d[1]]) : todo' = [todo EXCEPT ![d] = is]
    BY DeliverType
  <1>4. \A u : Shows(u) => Shows(u)'
    BY <1>3, DoingStays DEF rowVars, tables
  <1>5. /\ at'[d] = "start" /\ todo'[d] \in Instructions(log[d[1]])
        /\ \A e \in Deliveries : Running(e)' => e = d
    BY <1>1, <1>3 DEF TypeOK, Quiet, Running
  <1>6. Running(d)'
    BY <1>5 DEF Running
  <1>7. CASE d[1] = started + 1
    <2>1. PICK f : f = states[started + 1]
      OBVIOUS
    <2>2. started' = started + 1 /\ states'[started'] = f /\ log' = log
      BY <1>3, <1>7, <2>1 DEF Deliver, chainVars
    <2>3. missed' \subseteq {started'} => missed = {}
      BY <1>1, <1>2, <2>2
    <2>4. missed = {} => Shows(f)
      BY <1>1, <2>1 DEF MirrorInv, FollowsChain, Shown
    <2>5. missed = {} => FirstTime(d)'
      <3>1. missed = {} => Doing(d, f)'
        BY <1>4, <1>5, <2>4 DEF Doing
      <3> QED BY <1>5, <1>7, <2>2, <3>1 DEF FirstTime
    <2>6. missed' \subseteq {started'} => FollowsChain'
      BY <1>1, <1>5, <1>6, <2>3, <2>5 DEF FollowsChain, Quiet
    <2>7. missed' \subseteq 1 .. started'
      BY <1>1, <1>2, <2>2
    <2> QED BY <1>5, <1>7, <2>2, <2>6, <2>7 DEF MirrorInv
  <1>8. CASE d[1] = started /\ Repeatable(log[started])
    <2>1. PICK t, c, f : t = log[started] /\ c = states[started] /\ f = states[started + 1]
      OBVIOUS
    <2>2. /\ started' = started /\ log'[started'] = t
          /\ states'[started'] = c /\ states'[started' + 1] = f
      BY <1>3, <1>8, <2>1 DEF Deliver, chainVars, TypeOK
    <2>3. ASSUME missed = {}, FollowsChain PROVE FollowsChain'
      <3>1. Shows(f)
        BY <1>1, <2>1, <2>3 DEF FollowsChain, Shown
      <3>2. Shows(f)'
        BY <1>4, <3>1
      <3>3. Again(d)'
        BY <1>5, <1>8, <2>1, <2>2, <3>2 DEF Again
      <3> QED BY <1>1, <1>5, <1>6, <2>3, <3>3 DEF FollowsChain, Quiet
    <2>4. ASSUME missed # {}, FollowsChain PROVE FollowsChain'
      <3>1. t.type = "sale"
        BY <1>8, <2>1, <2>4 DEF FollowsChain, Repeatable
      <3>2. Shows(c)
        BY <1>1, <2>1, <2>4, <3>1 DEF FollowsChain, Shown, Unsold
      <3>3. Shows(c)'
        BY <1>4, <3>2
      <3>4. Doing(d, c)'
        BY <1>5, <3>3 DEF Doing
      <3>5. FirstTime(d)'
        BY <1>5, <1>8, <2>1, <2>2, <3>4 DEF FirstTime
      <3> QED BY <1>5, <1>6, <2>2, <3>1, <3>5 DEF FollowsChain, Quiet
    <2>5. missed' \subseteq {started'} => FollowsChain'
      BY <1>1, <2>2, <2>3, <2>4 DEF MirrorInv
    <2> QED BY <1>1, <1>2, <1>5, <1>8, <2>2, <2>5 DEF MirrorInv
  <1> QED BY <1>1, <1>7, <1>8

\* What the chain does next leaves its history where the rows are.
LEMMA MirrorStays ==
    ASSUME TypeOK, ChainInv, MirrorInv, UNCHANGED <<tables, handlerVars, historyVars>>,
           \A n \in DOMAIN states : states'[n] = states[n],
           \A n \in DOMAIN log : log'[n] = log[n]
    PROVE  MirrorInv'
  <1>1. /\ order' = order /\ started' = started /\ missed' = missed
        /\ started \in 0 .. Len(log)
        /\ \A d \in Deliveries : Running(d)' <=> Running(d)
        /\ Quiet' <=> Quiet
    BY DEF TypeOK, historyVars, handlerVars, Running, Quiet
  <1> SUFFICES ASSUME order = "sequential", missed \subseteq {started}
               PROVE  FollowsChain'
    BY <1>1 DEF MirrorInv
  <1>2. FollowsChain /\ missed \subseteq 1 .. started
    BY DEF MirrorInv
  <1>3. /\ started + 1 \in DOMAIN states
        /\ started # 0 => started \in DOMAIN states /\ started \in DOMAIN log
    BY <1>1 DEF ChainInv, TypeOK
  <1>4. PICK t, c, f : t = log[started] /\ c = states[started] /\ f = states[started + 1]
    OBVIOUS
  <1>5. PICK m : m = Effect(c, [t EXCEPT !.type = "bid"])
    OBVIOUS
  <1>6. /\ states'[started' + 1] = f
        /\ started # 0 => states'[started'] = c /\ log'[started'] = t
    BY <1>1, <1>3, <1>4
  <1>7. /\ \A u : Shows(u)' <=> Shows(u)
        /\ \A d \in Deliveries : /\ Doing(d, c)' <=> Doing(d, c)
                                 /\ Doing(d, m)' <=> Doing(d, m)
    BY DoingStays
  <1>8. missed # {} => started # 0
    <2> SUFFICES ASSUME missed # {} PROVE started # 0
      OBVIOUS
    <2>1. PICK n \in missed : n \in 1 .. started
      BY <1>2
    <2>2. started \in Nat
      BY DEF TypeOK
    <2> QED BY <2>1, <2>2
  <1>9. ASSUME NEW d \in Deliveries, started # 0, FirstTime(d) PROVE FirstTime(d)'
    <2>1. \/ todo[d] \in Instructions(t) /\ Doing(d, c)
          \/ /\ t.type = "buy" /\ todo[d] = <<[t EXCEPT !.type = "sale"]>>
             /\ Doing(d, m)
      BY <1>4, <1>5, <1>9 DEF FirstTime
    <2>2. todo' = todo
      BY DEF handlerVars
    <2> QED BY <1>5, <1>6, <1>7, <1>9, <2>1, <2>2 DEF FirstTime
  <1>10. ASSUME NEW d \in Deliveries, started # 0, Again(d) PROVE Again(d)'
    BY <1>4, <1>6, <1>7, <1>10 DEF Again, handlerVars
  <1>11. \A d \in Deliveries : Running(d) => started # 0
    BY DEF MirrorInv, Deliveries
  <1>12. Quiet => Shows(Shown)'
    <2>1. PICK u : u = Shown
      OBVIOUS
    <2>2. Shown' = u
      <3>1. CASE missed = {}
        BY <1>1, <1>4, <1>6, <2>1, <3>1 DEF Shown
      <3>2. CASE missed # {}
        <4>1. Unsold' = Unsold
          BY <1>4, <1>5, <1>6, <1>8, <3>2 DEF Unsold
        <4> QED BY <1>1, <2>1, <3>2, <4>1 DEF Shown
      <3> QED BY <3>1, <3>2
    <2>3. Quiet => Shows(u)'
      BY <1>2, <1>7, <2>1 DEF FollowsChain, Shows
    <2> QED BY <2>2, <2>3 DEF Shows
  <1>13. missed' # {} => log'[started'].type \in {"sale", "buy"}
    BY <1>1, <1>2, <1>4, <1>6, <1>8 DEF FollowsChain
  <1>14. ASSUME NEW d \in Deliveries, Running(d)
         PROVE  \/ FirstTime(d)' /\ (missed' = {} \/ log'[started'].type = "sale")
                \/ Again(d)' /\ missed' = {}
    BY <1>1, <1>2, <1>4, <1>6, <1>9, <1>10, <1>11, <1>14 DEF FollowsChain
  <1> QED BY <1>1, <1>12, <1>13, <1>14 DEF FollowsChain

\* The rows say what the chain says, or, when the last sale is missed, what it
\* said before it of the owner and the offer: MirrorInv keeps them at the state
\* of the last transaction delivered, but for what its only handler has left;
\* ChainInv tells what that handler finds, and PriceInv that it is the only one.
THEOREM MirrorsChainAlways == Spec => []MirrorsChain
  <1>1. Init => ChainInv /\ MirrorInv /\ PriceInv
    <2> SUFFICES ASSUME Init PROVE ChainInv /\ MirrorInv /\ PriceInv
      OBVIOUS
    <2>1. ChainInv
      BY DEF Init, ChainInv, SoundListing, NoListing
    <2>2. Shows(chain) /\ states[started + 1] = chain
      <3>1. OpenListings = {} /\ \A w : OpenBids(w) = {}
        BY DEF Init, OpenListings, OpenBids
      <3>2. /\ chain.listing = NoListing /\ \A w \in Wallets : chain.bids[w] = 0
            /\ chain.owner = owner /\ chain.burned = isBurned
        BY DEF Init
      <3>3. Shows(chain)
        BY <3>1, <3>2 DEF Shows, ShowsListing, ShowsBid
      <3>4. states[1] = chain /\ started = 0
        BY DEF Init
      <3> QED BY <3>3, <3>4
    <2>3. \A d \in Deliveries : at[d] = "idle"
      BY DEF Init
    <2>4. MirrorInv
      <3>1. missed = {}
        BY DEF Init
      <3>2. Shows(Shown)
        BY <2>2, <3>1 DEF Shown
      <3> QED BY <2>3, <3>1, <3>2 DEF MirrorInv, FollowsChain, Running
    <2>5. PriceInv
      BY <2>3 DEF Init, PriceInv, OpenBids, Running
    <2> QED BY <2>1, <2>4, <2>5
  <1>2. /\ TypeOK /\ TypeOK' /\ Locals /\ PriceInv /\ ChainInv /\ MirrorInv
        /\ [Next]_vars
        => ChainInv' /\ MirrorInv'
    <2> SUFFICES ASSUME TypeOK, TypeOK', Locals, PriceInv, ChainInv, MirrorInv,
                        [Next]_vars
                 PROVE  ChainInv' /\ MirrorInv'
      OBVIOUS
    <2>1. ChainInv'
      BY NextChainInv
    <2>2. CASE BuildTransaction
      BY <2>1, <2>2, BuiltType, MirrorStays DEF rowVars, tables
    <2>3. CASE ExecuteBuilt \/ ExecuteForeign
      <3>1. PICK t \in Transaction : /\ SoundTransaction(t) /\ Execute(t)
                                     /\ pending' \subseteq pending
        BY <2>3, SoundStep
      <3> QED BY <2>1, <3>1, Executed, ExecuteType, MirrorStays DEF rowVars, tables
    <2>4. ASSUME NEW d \in Deliveries, Deliver(d) PROVE MirrorInv'
      BY <2>4, MirrorDelivered DEF MirrorInv
    <2>5. ASSUME NEW d \in Deliveries, Handler(d) PROVE MirrorInv'
      <3>1. order' = order
        BY <2>5, HandlerAdvances
      <3> QED BY <2>5, <3>1, MirrorHandled DEF MirrorInv
    <2>6. ASSUME NEW d \in Deliveries, Fail(d) PROVE MirrorInv'
      BY <2>6 DEF Fail, MirrorInv
    <2>7. CASE UNCHANGED vars
      BY <2>1, <2>7, MirrorStays DEF vars, chainVars, rowVars, tables
    <2>8. ASSUME NEW w \in Wallets, ConnectWallet(w) PROVE MirrorInv'
      BY <2>8, ConnectStep, MirrorStays DEF chainVars
    <2> QED BY <2>1, <2>2, <2>3, <2>4, <2>5, <2>6, <2>7, <2>8 DEF Next
  <1>3. TypeOK /\ ChainInv /\ MirrorInv => MirrorsChain
    <2> SUFFICES ASSUME TypeOK, ChainInv, MirrorInv, order = "sequential", Quiet,
                        started = Len(log)
                 PROVE  /\ missed = {} =>
                             /\ MirrorsOffer(chain)
                             /\ \A w \in Wallets :
                                  {bids[b].amount : b \in OpenBids(w)}
                                    = {chain.bids[w]} \ {0}
                        /\ missed = {started} => MirrorsOffer(states[started])
      BY DEF MirrorsChain
    <2>1. ASSUME NEW c, owner = c.owner, isBurned = c.burned, ShowsListing(c.listing)
          PROVE  MirrorsOffer(c)
      <3>1. {Offer(listings[i]) : i \in OpenListings} = {c.listing} \ {NoListing}
        BY <2>1, ShownListing
      <3> QED BY <2>1, <3>1 DEF MirrorsOffer
    <2>2. ASSUME missed = {}
          PROVE  /\ MirrorsOffer(chain)
                 /\ \A w \in Wallets :
                      {bids[b].amount : b \in OpenBids(w)} = {chain.bids[w]} \ {0}
      <3>1. Shows(chain)
        BY <2>2 DEF MirrorInv, FollowsChain, Shown, ChainInv
      <3>2. \A w \in Wallets : ShowsBid(w, chain.bids[w])
        BY <3>1 DEF Shows
      <3>3. MirrorsOffer(chain)
        BY <2>1, <3>1 DEF Shows
      <3> QED BY <3>2, <3>3, ShownBid
    <2>3. ASSUME missed = {started} PROVE MirrorsOffer(states[started])
      <3>1. started \in 1 .. started /\ FollowsChain
        BY <2>3 DEF MirrorInv
      <3>2. started \in DOMAIN log /\ started \in DOMAIN states
        BY <3>1 DEF ChainInv, TypeOK
      <3>3. PICK t, c : t = log[started] /\ c = states[started]
        OBVIOUS
      <3>4. t \in Transaction /\ c \in Chain
        BY <3>2, <3>3 DEF TypeOK
      <3>5. Shows(Unsold)
        BY <2>3, <3>1 DEF FollowsChain, Shown
      <3>6. PICK b : b = [t EXCEPT !.type = "bid"]
        OBVIOUS
      <3>7. Unsold = c \/ Unsold = Effect(c, b)
        BY <3>3, <3>6 DEF Unsold
      <3>8. b \in Transaction /\ b.type = "bid"
        BY <3>4, <3>6 DEF Transaction, AllKinds, AuctionKinds
      <3>9. /\ Effect(c, b).owner = c.owner /\ Effect(c, b).burned = c.burned
            /\ Effect(c, b).listing = c.listing
        BY <3>4, <3>8, EffectFields DEF Moves, ListingAfter
      <3>10. owner = c.owner /\ isBurned = c.burned /\ ShowsListing(c.listing)
        BY <3>5, <3>7, <3>9 DEF Shows
      <3> QED BY <2>1, <3>3, <3>10
    <2> QED BY <2>2, <2>3
  <1>4. Spec => []PriceInv
    <2>1. SettledInv => PriceInv
      BY DEF SettledInv
    <2> QED BY <2>1, SettledHolds, PTL
  <1> QED BY <1>1, <1>2, <1>3, <1>4, TypeCorrect, PTL DEF Spec

-----------------------------------------------------------------------------
(* The market implements the ledger of deals.                               *)

Standing == {x \in Wallets \X DOMAIN bids : x[2] \in OpenBids(x[1])}

\* A listing that is closed is off offer, a new one is on offer, and one that is
\* changed stays as it was.
LEMMA OfferClosed ==
    ASSUME TypeOK, NEW i \in OpenListings, listings' = Close(i)
    PROVE  Len(listings') = Len(listings) /\ OpenListings' = OpenListings \ {i}
  <1> DEFINE r == [listings[i] EXCEPT !.open = FALSE]
  <1>1. listings \in Seq(ListingRow) /\ i \in DOMAIN listings
    BY DEF TypeOK, OpenListings
  <1>2. listings[i] \in ListingRow
    BY <1>1
  <1>3. r \in ListingRow /\ ~r.open
    BY <1>2 DEF ListingRow
  <1>4. listings' = [listings EXCEPT ![i] = r]
    BY DEF Close
  <1> HIDE DEF r
  <1>5. /\ listings' \in Seq(ListingRow) /\ DOMAIN listings' = DOMAIN listings
        /\ \A j \in DOMAIN listings : listings'[j] = IF j = i THEN r ELSE listings[j]
    BY <1>1, <1>3, <1>4, RowChanged
  <1>6. Len(listings') = Len(listings)
    BY <1>1, <1>5, LenProperties
  <1> QED BY <1>3, <1>5, <1>6 DEF OpenListings

LEMMA OfferAdded ==
    ASSUME TypeOK, OpenListings = {}, NEW r \in ListingRow, r.open,
           listings' = Append(listings, r)
    PROVE  Len(listings') = Len(listings) + 1 /\ OpenListings' = {Len(listings) + 1}
  <1>1. listings \in Seq(ListingRow)
    BY DEF TypeOK
  <1> DEFINE next == Append(listings, r)
  <1>2. /\ next \in Seq(ListingRow) /\ Len(next) = Len(listings) + 1
        /\ \A i \in DOMAIN listings : i \in DOMAIN next /\ next[i] = listings[i]
        /\ next[Len(listings) + 1] = r
        /\ \A i \in DOMAIN next : i \in DOMAIN listings \/ i = Len(listings) + 1
    BY <1>1, RowAdded
  <1>3. Len(listings) + 1 \in DOMAIN next
    BY <1>1, <1>2
  <1>4. listings' = next
    OBVIOUS
  <1> HIDE DEF next
  <1> QED BY <1>2, <1>3, <1>4 DEF OpenListings

LEMMA OfferKept ==
    ASSUME TypeOK, NEW i \in DOMAIN listings, NEW r \in ListingRow,
           r.open = listings[i].open, listings' = [listings EXCEPT ![i] = r]
    PROVE  Len(listings') = Len(listings) /\ OpenListings' = OpenListings
  <1>1. listings \in Seq(ListingRow)
    BY DEF TypeOK
  <1>2. /\ listings' \in Seq(ListingRow) /\ DOMAIN listings' = DOMAIN listings
        /\ \A j \in DOMAIN listings : listings'[j] = IF j = i THEN r ELSE listings[j]
    BY <1>1, RowChanged
  <1>3. Len(listings') = Len(listings)
    BY <1>1, <1>2, LenProperties
  <1> QED BY <1>2, <1>3 DEF OpenListings

\* A bid that is closed is no longer its bidder's, and a new one is.
LEMMA StandingClosed ==
    ASSUME TypeOK, NEW w \in Wallets, NEW b \in OpenBids(w),
           bids' = [bids EXCEPT ![b].open = FALSE]
    PROVE  /\ Len(bids') = Len(bids) /\ <<w, b>> \in Standing
           /\ Standing' = Standing \ {<<w, b>>}
  <1> DEFINE r == [bids[b] EXCEPT !.open = FALSE]
  <1>1. bids \in Seq(Bid) /\ b \in DOMAIN bids /\ bids[b].bidder = w
    BY DEF TypeOK, OpenBids
  <1>2. bids[b] \in Bid
    BY <1>1
  <1>3. r \in Bid /\ ~r.open
    BY <1>2 DEF Bid
  <1> DEFINE next == [bids EXCEPT ![b] = r]
  <1>4. bids' = next
    OBVIOUS
  <1> HIDE DEF r
  <1>a. /\ next \in Seq(Bid) /\ DOMAIN next = DOMAIN bids
        /\ \A c \in DOMAIN bids : next[c] = IF c = b THEN r ELSE bids[c]
    BY <1>1, <1>3, RowChanged
  <1> HIDE DEF next
  <1>5. /\ bids' \in Seq(Bid) /\ DOMAIN bids' = DOMAIN bids
        /\ \A c \in DOMAIN bids : bids'[c] = IF c = b THEN r ELSE bids[c]
    BY <1>4, <1>a
  <1>6. Len(bids') = Len(bids)
    BY <1>1, <1>5, LenProperties
  <1>7. \A v \in Wallets : \A c \in DOMAIN bids :
          c \in OpenBids(v)' <=> c \in OpenBids(v) /\ ~(v = w /\ c = b)
    BY <1>1, <1>3, <1>5 DEF OpenBids
  <1>8. <<w, b>> \in Standing
    BY <1>1 DEF Standing
  <1>9. Standing' = {x \in Wallets \X DOMAIN bids : x[2] \in OpenBids(x[1])'}
    BY <1>5 DEF Standing
  <1>10. Standing' = Standing \ {<<w, b>>}
    BY <1>7, <1>9 DEF Standing
  <1> QED BY <1>6, <1>8, <1>10

LEMMA StandingAdded ==
    ASSUME TypeOK, NEW r \in Bid, r.open, OpenBids(r.bidder) = {},
           bids' = Append(bids, r)
    PROVE  /\ r.bidder \in Wallets /\ \A x \in Standing : x[1] # r.bidder
           /\ Len(bids') = Len(bids) + 1
           /\ Standing' = Standing \cup {<<r.bidder, Len(bids) + 1>>}
  <1>1. bids \in Seq(Bid) /\ r.bidder \in Wallets
    BY DEF TypeOK, Bid
  <1> DEFINE next == Append(bids, r)
  <1>2. /\ next \in Seq(Bid) /\ Len(next) = Len(bids) + 1
        /\ \A c \in DOMAIN bids : c \in DOMAIN next /\ next[c] = bids[c]
        /\ next[Len(bids) + 1] = r
        /\ \A c \in DOMAIN next : c \in DOMAIN bids \/ c = Len(bids) + 1
    BY <1>1, RowAdded
  <1>3. Len(bids) + 1 \in DOMAIN next /\ Len(bids) + 1 \notin DOMAIN bids
    BY <1>1, <1>2
  <1>4. bids' = next
    OBVIOUS
  <1> HIDE DEF next
  <1>5. \A v \in Wallets : \A c \in DOMAIN bids' :
          c \in OpenBids(v)' <=> c \in OpenBids(v) \/ (v = r.bidder /\ c = Len(bids) + 1)
    BY <1>2, <1>3, <1>4 DEF OpenBids
  <1>6. DOMAIN bids' = DOMAIN bids \cup {Len(bids) + 1}
    BY <1>2, <1>3, <1>4
  <1>7. Standing' = {x \in Wallets \X (DOMAIN bids \cup {Len(bids) + 1}) :
                       x[2] \in OpenBids(x[1])'}
    BY <1>6 DEF Standing
  <1>8. \A v \in Wallets : Len(bids) + 1 \notin OpenBids(v)
    BY <1>3 DEF OpenBids
  <1>9. Standing' = Standing \cup {<<r.bidder, Len(bids) + 1>>}
    BY <1>1, <1>5, <1>6, <1>7, <1>8 DEF Standing
  <1>10. \A x \in Standing : x[1] # r.bidder
    BY DEF Standing
  <1> QED BY <1>1, <1>2, <1>4, <1>9, <1>10

\* A market without rows is a ledger without deals.
LEMMA InitLedger == Init => Ledger!Init
  <1> SUFFICES ASSUME Init PROVE Ledger!Init
    OBVIOUS
  <1>1. owner \in Wallets /\ Len(listings) = 0 /\ Len(bids) = 0 /\ sales = {}
    BY MarketAssumption DEF Init
  <1>2. OpenListings = {} /\ DOMAIN bids = {}
    BY DEF Init, OpenListings
  <1> QED BY <1>1, <1>2 DEF Ledger!Init

\* A sale that is recorded is a deal.
LEMMA DealRecorded ==
    ASSUME NEW i, NEW b, NEW price,
           sales' = sales \cup {[listing |-> i, bid |-> b, price |-> price]}
    PROVE  {<<s.listing, s.bid>> : s \in sales'}
             = {<<s.listing, s.bid>> : s \in sales} \cup {<<i, b>>}
  <1> DEFINE r == [listing |-> i, bid |-> b, price |-> price]
  <1>1. r.listing = i /\ r.bid = b
    OBVIOUS
  <1>2. sales' = sales \cup {r}
    OBVIOUS
  <1> HIDE DEF r
  <1> QED BY <1>1, <1>2

\* A handler's step opens or ends a listing, places or ends a bid, settles a
\* deal, or moves the asset, but never two of these; the other steps of the
\* market do none of them.
LEMMA HandlerLedger ==
    ASSUME TypeOK, Locals, NEW d \in Deliveries, Handler(d)
    PROVE  [Ledger!Next]_(Ledger!vars)
  <1> DEFINE t == todo[d][1]
  <1>1. t \in Transaction /\ t.who \in Wallets
    BY AtInstruction, HandlerAdvances DEF TypeOK, PlaceOK, Running, Transaction
  <1>2. \A i \in OpenListings : i \in DOMAIN listings /\ listings[i] \in ListingRow
    BY DEF TypeOK, OpenListings
  <1> HIDE DEF t
  <1>3. ASSUME UNCHANGED <<owner, sales, bids>>,
               \/ listings' = listings
               \/ \E i \in OpenListings : listings' = Close(i)
               \/ /\ OpenListings = {}
                  /\ \E r \in ListingRow : r.open /\ listings' = Append(listings, r)
               \/ \E i \in DOMAIN listings : \E r \in ListingRow :
                    r.open = listings[i].open /\ listings' = [listings EXCEPT ![i] = r]
        PROVE  [Ledger!Next]_(Ledger!vars)
    <2>1. UNCHANGED <<Standing, Len(bids), owner, sales>>
      BY <1>3 DEF Standing, OpenBids
    <2>2. ASSUME NEW i \in OpenListings, listings' = Close(i)
          PROVE  [Ledger!Next]_(Ledger!vars)
      <3>1. Ledger!Withdraw(i)
        BY <2>1, <2>2, OfferClosed DEF Ledger!Withdraw, Standing
      <3> QED BY <3>1 DEF Ledger!Next
    <2>3. ASSUME OpenListings = {}, NEW r \in ListingRow, r.open,
                 listings' = Append(listings, r)
          PROVE  [Ledger!Next]_(Ledger!vars)
      <3>1. Ledger!List
        BY <2>1, <2>3, OfferAdded DEF Ledger!List, Standing
      <3> QED BY <3>1 DEF Ledger!Next
    <2>4. ASSUME NEW i \in DOMAIN listings, NEW r \in ListingRow,
                 r.open = listings[i].open, listings' = [listings EXCEPT ![i] = r]
          PROVE  [Ledger!Next]_(Ledger!vars)
      BY <2>1, <2>4, OfferKept DEF Ledger!vars, Standing
    <2>5. CASE listings' = listings
      BY <2>1, <2>5 DEF Ledger!vars, Standing, OpenListings
    <2> QED BY <1>3, <2>2, <2>3, <2>4, <2>5
  <1>4. ASSUME UNCHANGED <<owner, sales, listings>>, BidsMove
        PROVE  [Ledger!Next]_(Ledger!vars)
    <2>1. UNCHANGED <<OpenListings, Len(listings), owner, sales>>
      BY <1>4 DEF OpenListings
    <2>2. ASSUME NEW r \in Bid, r.open, OpenBids(r.bidder) = {},
                 bids' = Append(bids, r)
          PROVE  [Ledger!Next]_(Ledger!vars)
      <3>1. Ledger!Place(r.bidder)
        BY <2>1, <2>2, StandingAdded DEF Ledger!Place, Ledger!Bidders, Standing
      <3> QED BY <2>2, <3>1, StandingAdded DEF Ledger!Next
    <2>3. ASSUME NEW b \in DOMAIN bids, bids[b].open,
                 bids' = [bids EXCEPT ![b].open = FALSE]
          PROVE  [Ledger!Next]_(Ledger!vars)
      <3>0. bids[b] \in Bid
        BY DEF TypeOK
      <3>1. bids[b].bidder \in Wallets /\ b \in OpenBids(bids[b].bidder)
        BY <2>3, <3>0 DEF Bid, OpenBids
      <3>a. PICK x : x = <<bids[b].bidder, b>>
        OBVIOUS
      <3>2. x \in Standing /\ Len(bids') = Len(bids) /\ Standing' = Standing \ {x}
        BY <2>3, <3>1, <3>a, StandingClosed
      <3>3. Ledger!Retract(x)
        BY <2>1, <3>2 DEF Ledger!Retract, Standing
      <3>4. \E y \in Standing : Ledger!Retract(y)
        BY <3>2, <3>3
      <3> QED BY <3>4 DEF Ledger!Next, Standing
    <2>4. CASE bids' = bids
      BY <2>1, <2>4 DEF Ledger!vars, Standing, OpenBids
    <2> QED BY <1>4, <2>2, <2>3, <2>4 DEF BidsMove
  <1>5. ASSUME UNCHANGED <<owner, listings, bids, sales>>
        PROVE  [Ledger!Next]_(Ledger!vars)
    BY <1>5 DEF Ledger!vars, OpenListings, OpenBids
  <1>6. CASE HandleAssetListing(d)
    <2>1. NewListing(t.who, t.price, "auction", t.type = "timedList") \in ListingRow
      BY <1>1 DEF NewListing, ListingRow, Transaction, NoBid, Sources
    <2>2. NewListing(t.who, t.price, "auction", t.type = "timedList").open
      BY DEF NewListing
    <2> QED BY <1>3, <1>6, <2>1, <2>2 DEF HandleAssetListing, t
  <1>7. CASE HandleAssetBid(d) \/ HandleCancelBid(d)
    <2>1. BidsMove /\ UNCHANGED <<owner, sales, listings>>
      BY <1>7, HandlerBids DEF HandleAssetBid, HandleCancelBid
    <2> QED BY <1>4, <2>1
  <1>8. CASE MatchListing(d) \/ HandleAssetSale(d) \/ HandleAssetBurn(d)
    BY <1>5, <1>8 DEF MatchListing, HandleAssetSale, HandleAssetBurn, rowVars
  <1>9. CASE UpdateHighestBid(d)
    <2> DEFINE i == listingOf[d]
               r == [listings[i] EXCEPT !.highestBid = bidOf[d]]
    <2>1. i \in DOMAIN listings /\ bidOf[d] \in Nat
      BY <1>9 DEF UpdateHighestBid, Locals, TypeOK
    <2>2. listings[i] \in ListingRow
      BY <2>1 DEF TypeOK
    <2>3. r \in ListingRow /\ r.open = listings[i].open
      BY <2>1, <2>2 DEF ListingRow
    <2>4. listings' = [listings EXCEPT ![i] = r]
      BY <1>9 DEF UpdateHighestBid
    <2> HIDE DEF i, r
    <2>5. UNCHANGED <<owner, sales, bids>>
      BY <1>9 DEF UpdateHighestBid
    <2> QED BY <1>3, <2>1, <2>3, <2>4, <2>5
  <1>10. CASE HandleCancelListing(d) \/ CloseListing(d)
    BY <1>3, <1>10 DEF HandleCancelListing, CloseListing
  <1>11. CASE HandleListingReprice(d)
    <2>1. ASSUME NEW i \in OpenListings,
                 listings' = [listings EXCEPT ![i].price = t.price]
          PROVE  \E r \in ListingRow :
                   r.open = listings[i].open /\ listings' = [listings EXCEPT ![i] = r]
      <3> DEFINE r == [listings[i] EXCEPT !.price = t.price]
      <3>1. r \in ListingRow /\ r.open = listings[i].open
        BY <1>1, <1>2 DEF ListingRow, Transaction, Sources
      <3>2. listings' = [listings EXCEPT ![i] = r]
        BY <2>1
      <3> QED BY <3>1, <3>2
    <2> QED BY <1>2, <1>3, <1>11, <2>1 DEF HandleListingReprice, t
  <1>12. CASE HandleTensorListing(d)
    <2>1. /\ NewListing(t.who, t.price, "tensor", FALSE) \in ListingRow
          /\ NewListing(t.who, t.price, "tensor", FALSE).open
      BY <1>1 DEF NewListing, ListingRow, Transaction, NoBid, Sources
    <2>2. ASSUME NEW i \in OpenListings,
                 listings' = [listings EXCEPT ![i].price = t.price,
                                              ![i].seller = t.who,
                                              ![i].source = "tensor"]
          PROVE  \E r \in ListingRow :
                   r.open = listings[i].open /\ listings' = [listings EXCEPT ![i] = r]
      <3> DEFINE r == [listings[i] EXCEPT !.price = t.price, !.seller = t.who,
                                          !.source = "tensor"]
      <3>1. r \in ListingRow /\ r.open = listings[i].open
        BY <1>1, <1>2 DEF ListingRow, Transaction, Sources
      <3>2. listings' = [listings EXCEPT ![i] = r]
        BY <2>2, <1>2 DEF OpenListings
      <3> QED BY <3>1, <3>2
    <2> QED BY <1>2, <1>3, <1>12, <2>1, <2>2 DEF HandleTensorListing, t
  <1>13. CASE CreateSale(d)
    <2>1. ASSUME NEW i \in OpenListings, NEW b \in OpenBids(t.who),
                 sales' = sales \cup {[listing |-> i, bid |-> b,
                                       price |-> bids[bidOf[d]].amount]},
                 listings' = Close(i), bids' = [bids EXCEPT ![b].open = FALSE],
                 owner' = t.who
          PROVE  [Ledger!Next]_(Ledger!vars)
      <3>a. PICK x : x = <<t.who, b>>
        OBVIOUS
      <3>1. /\ x \in Standing /\ Len(bids') = Len(bids) /\ Standing' = Standing \ {x}
            /\ x[1] = t.who /\ x[2] = b
        BY <1>1, <2>1, <3>a, StandingClosed
      <3>2. Len(listings') = Len(listings) /\ OpenListings' = OpenListings \ {i}
        BY <2>1, OfferClosed
      <3>3. {<<s.listing, s.bid>> : s \in sales'}
              = {<<s.listing, s.bid>> : s \in sales} \cup {<<i, b>>}
        BY <2>1, DealRecorded
      <3>4. Ledger!SellTo(i, x)
        BY <2>1, <3>1, <3>2, <3>3 DEF Ledger!SellTo, Ledger!Deal, Standing
      <3>5. \E y \in Standing : Ledger!SellTo(i, y)
        BY <3>1, <3>4
      <3> QED BY <3>5 DEF Ledger!Next, Standing
    <2> QED BY <1>5, <1>13, <2>1 DEF CreateSale, SaleOf, SaleFails, t
  <1>14. CASE HandleTensorBuying(d)
    <2>1. ASSUME NEW i \in OpenListings, listings' = Close(i),
                 sales' = sales \cup {[listing |-> i, bid |-> NoBid, price |-> t.price]},
                 owner' = t.who, bids' = bids
          PROVE  [Ledger!Next]_(Ledger!vars)
      <3>1. UNCHANGED <<Standing, Len(bids)>>
        BY <2>1 DEF Standing, OpenBids
      <3>2. Len(listings') = Len(listings) /\ OpenListings' = OpenListings \ {i}
        BY <2>1, OfferClosed
      <3>3. {<<s.listing, s.bid>> : s \in sales'}
              = {<<s.listing, s.bid>> : s \in sales} \cup {<<i, NoBid>>}
        BY <2>1, DealRecorded
      <3>4. Ledger!Buy(i, t.who)
        BY <2>1, <3>1, <3>2, <3>3 DEF Ledger!Buy, Ledger!Deal, Standing
      <3> QED BY <1>1, <3>4 DEF Ledger!Next
    <2> QED BY <1>5, <1>14, <2>1 DEF HandleTensorBuying, t
  <1>15. CASE HandleAssetTransfer(d)
    <2>1. owner' = t.who /\ UNCHANGED <<listings, bids, sales>>
      BY <1>15 DEF HandleAssetTransfer, t
    <2>2. Ledger!HandOver(t.who)
      BY <2>1 DEF Ledger!HandOver, OpenListings, OpenBids
    <2> QED BY <1>1, <2>2 DEF Ledger!Next
  <1> QED BY <1>6, <1>7, <1>8, <1>9, <1>10, <1>11, <1>12, <1>13, <1>14, <1>15
          DEF Handler

\* Every behaviour of the market is one of the ledger: however calls race,
\* repeat and fail, an asset is on offer once at a time, a bidder has one bid,
\* and a sale ends both and hands the asset over in one step.
THEOREM MarketImplementsLedger == Spec => MarketLedgerSpec
  <1>1. TypeOK /\ Locals /\ [Next]_vars => [Ledger!Next]_(Ledger!vars)
    <2> SUFFICES ASSUME TypeOK, Locals, [Next]_vars PROVE [Ledger!Next]_(Ledger!vars)
      OBVIOUS
    <2>1. ASSUME UNCHANGED tables PROVE [Ledger!Next]_(Ledger!vars)
      BY <2>1 DEF tables, Ledger!vars, OpenListings, OpenBids
    <2>2. CASE BuildTransaction
      BY <2>1, <2>2, BuiltType DEF rowVars, tables
    <2>3. CASE ExecuteBuilt \/ ExecuteForeign
      BY <2>1, <2>3, ChainStep, ExecuteType DEF rowVars, tables
    <2>4. ASSUME NEW d \in Deliveries, Deliver(d) \/ Fail(d)
          PROVE  [Ledger!Next]_(Ledger!vars)
      BY <2>1, <2>4 DEF Deliver, Fail, rowVars, tables
    <2>5. ASSUME NEW d \in Deliveries, Handler(d) PROVE [Ledger!Next]_(Ledger!vars)
      BY <2>5, HandlerLedger
    <2>6. CASE UNCHANGED vars
      BY <2>1, <2>6 DEF vars, rowVars, tables
    <2>7. ASSUME NEW w \in Wallets, ConnectWallet(w)
          PROVE  [Ledger!Next]_(Ledger!vars)
      BY <2>1, <2>7, ConnectStep
    <2> QED BY <2>2, <2>3, <2>4, <2>5, <2>6, <2>7 DEF Next
  <1> QED BY <1>1, InitLedger, TypeCorrect, PTL DEF Spec, MarketLedgerSpec, Ledger!Spec
=============================================================================
