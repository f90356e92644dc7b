--------------------------- MODULE MCMarketplace ---------------------------
(* Three instances of the market for TLC in one run.  In the first, the       *)
(* transactions of the auction house by three wallets, each reported once, or *)
(* twice while calls are sequential; in the second, fewer transactions, of    *)
(* Tensor and others too, by two wallets, each reported up to twice; in the   *)
(* third, sales and transfers to a wallet that has no row at first.           *)
EXTENDS Marketplace, TLC

CONSTANTS w1, w2, w3

VARIABLE scene

InScene(t) ==
    CASE scene = "auction" -> t.type \in AuctionKinds
      [] scene = "tensor" ->
           /\ t.type \in {"list", "bid", "transfer", "burn"} \cup TensorKinds
           /\ t.who # w3 /\ t.seller # w3
      [] OTHER ->
           /\ t.type \in {"list", "bid", "buy", "sale", "transfer"}
           /\ t.who # w3 /\ t.seller # w3 /\ t.price <= 1

\* Bounds of each scene, over those of Marketplace
Bounded ==
    /\ \A t \in pending : InScene(t)
    /\ \A i \in DOMAIN log : InScene(log[i])
    /\ scene # "tensor" => \A d \in Deliveries : d[2] > 1 =>
         at[d] = "idle" \/ order = "sequential"
    /\ scene # "auction" => Len(log) + Cardinality(pending) < MaxLog

MCInit ==
    /\ scene \in {"auction", "tensor", "newcomer"} /\ Init
    /\ walletRows = IF scene = "newcomer" THEN {FirstOwner} ELSE Wallets

MCNext == UNCHANGED scene /\ Next /\ Bounded'
MCSpec == MCInit /\ [][MCNext]_<<scene, vars>>
=============================================================================
