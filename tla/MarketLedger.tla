---------------------------- MODULE MarketLedger ----------------------------
(***************************************************************************)
(* What the tables of the market promise, without calls, handlers or a     *)
(* chain: an asset has one listing on offer at a time and a bidder one bid *)
(* standing; each of them ends once, for ever; and a deal takes a listing  *)
(* on offer together with the standing bid of its buyer, or with none when *)
(* it is bought on Tensor, and hands the asset over, all in one step.      *)
(***************************************************************************)
EXTENDS Naturals

CONSTANTS Wallets, NoBid

VARIABLES
    holder,
    listed,     \* listings so far, numbered from 1
    onOffer,    \* those that can be bought or withdrawn
    placed,     \* bids so far, numbered from 1
    standing,   \* pairs <<bidder, bid>> that can be sold to or retracted
    deals       \* pairs <<listing, bid>>

vars == <<holder, listed, onOffer, placed, standing, deals>>

Bidders == {x[1] : x \in standing}

Init ==
    /\ holder \in Wallets
    /\ listed = 0 /\ onOffer = {}
    /\ placed = 0 /\ standing = {}
    /\ deals = {}

List ==
    /\ onOffer = {}
    /\ listed' = listed + 1
    /\ onOffer' = {listed + 1}
    /\ UNCHANGED <<holder, placed, standing, deals>>

Withdraw(i) ==
    /\ onOffer' = onOffer \ {i}
    /\ UNCHANGED <<holder, listed, placed, standing, deals>>

Place(w) ==
    /\ w \notin Bidders
    /\ placed' = placed + 1
    /\ standing' = standing \cup {<<w, placed + 1>>}
    /\ UNCHANGED <<holder, listed, onOffer, deals>>

Retract(x) ==
    /\ standing' = standing \ {x}
    /\ UNCHANGED <<holder, listed, onOffer, placed, deals>>

Deal(i, b, w) ==
    /\ deals' = deals \cup {<<i, b>>}
    /\ onOffer' = onOffer \ {i}
    /\ holder' = w
    /\ UNCHANGED <<listed, placed>>

SellTo(i, x) == Deal(i, x[2], x[1]) /\ standing' = standing \ {x}

Buy(i, w) == Deal(i, NoBid, w) /\ UNCHANGED standing

\* A transfer, which may leave a listing on offer for a while.
HandOver(w) ==
    /\ holder' = w
    /\ UNCHANGED <<listed, onOffer, placed, standing, deals>>

Next ==
    \/ List
    \/ \E w \in Wallets : Place(w) \/ HandOver(w)
    \/ \E x \in standing : Retract(x)
    \/ \E i \in onOffer :
         \/ Withdraw(i)
         \/ \E x \in standing : SellTo(i, x)
         \/ \E w \in Wallets : Buy(i, w)

Spec == Init /\ [][Next]_vars
=============================================================================
