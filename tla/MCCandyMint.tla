---------------------------- MODULE MCCandyMint ----------------------------
(* Instances of the candy machine for TLC: two mints of one wallet race for  *)
(* a coupon of two redemptions, one for 1 item and one for 2.                *)
EXTENDS CandyMint, TLC

CONSTANTS m1, m2, w1, u1, u2, coupon

MCWalletOf == [m \in Mints |-> w1]
MCUserOf == [m \in Mints |-> u1]
MCNoUserOf == [m \in Mints |-> NoUser]
MCCouponOf == [m \in Mints |-> coupon]
MCItemsOf == [m \in Mints |-> IF m = m1 THEN 1 ELSE 2]
MCWalletList == [c \in Coupons |-> "WhitelistedWallet"]
MCRegistered == [c \in Coupons |-> "RegisteredUser"]
MCOwnerOf == [w \in Wallets |-> u2]
MCNoOwnerOf == [w \in Wallets |-> NoUser]
\* Only the mint of one item is submitted again.
MCOnce == [m \in Mints |-> 1]
MCTwice == [m \in Mints |-> IF m = m1 THEN 2 ELSE 1]
\* It is reported twice and the other never.
MCTwiceOrNever == [m \in Mints |-> IF m = m1 THEN 2 ELSE 0]
MCLimit == [c \in Coupons |-> 2]
=============================================================================
