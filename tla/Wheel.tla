------------------------------- MODULE Wheel -------------------------------
(***************************************************************************)
(* The spin wheel of src/wheel/wheel.service.ts.                           *)
(*                                                                         *)
(* A spin is one HTTP request.  Its handler awaits the database, the mail  *)
(* server and a Solana RPC node, and between two awaits the handlers of    *)
(* other spins run: every action below is the code from one await to the   *)
(* next.  No lock covers the handler.  Fail(s) is an awaited call that     *)
(* throws, or the process dying: the request ends and nothing is undone.   *)
(***************************************************************************)
EXTENDS Integers, FiniteSets

CONSTANTS
    Users, Spins, Drops, Items,
    NoDrop, NoSpin,      \* "no drop" and "no spin"
    Vault, Outside,      \* the treasury wallet; any wallet of no user
    UserOf,              \* who sends each spin
    HasWallet,           \* the users with a connected wallet
    TypeOf,              \* the type of each drop's reward
    WeightOf,            \* the weight of each drop's reward
    ItemOf,              \* the itemId of each drop
    KnownItems,          \* items with a PhysicalItem or SplToken row
    Offered,             \* the drops the wheel opens with
    WinProbability,
    WheelType,
    VaultBalance,        \* the most fungible payouts the vault can make
    MaxTime              \* bound of the clock

RewardTypes == {"None", "Physical", "Fungible", "Collectible"}
OnChain == {"Fungible", "Collectible"}
WheelTypes == {"Daily", "Weekly", "Monthly"}

ASSUME WheelAssumption ==
    /\ NoDrop \notin Drops /\ NoSpin \notin Spins
    /\ Vault \notin Users /\ Outside \notin Users
    /\ UserOf \in [Spins -> Users] /\ HasWallet \subseteq Users
    /\ TypeOf \in [Drops -> RewardTypes]
    /\ WeightOf \in [Drops -> Nat]
    /\ ItemOf \in [Drops -> Items] /\ KnownItems \subseteq Items
    /\ Offered \subseteq Drops
    /\ WinProbability \in Int
    /\ WheelType \in WheelTypes
    /\ VaultBalance \in Nat /\ MaxTime \in Nat

\* One unit of the clock is 24 hours, the only cooldown the code announces.
Day == 1
\* Variant with a bug: the break after case Daily is lost.
CooldownFallThrough == IF WheelType = "Monthly" THEN 28 * Day ELSE 7 * Day

\* A monthly wheel's is a calendar month: at least this long.
Cooldown == CASE WheelType = "Daily"  -> Day
              [] WheelType = "Weekly" -> 7 * Day
              [] OTHER                -> 28 * Day

\* How far back from a moment its query looks: subMonths goes back by the days
\* of the month before.
Lookbacks == IF WheelType = "Monthly" THEN (28 * Day)..(31 * Day) ELSE {Cooldown}

VARIABLES
    now,        \* the clock
    open,       \* isActive, and startsAt <= now < expiresAt
    drop,       \* RewardDrop rows: "absent", "active" or "taken"
    receipts,   \* WheelRewardReceipt rows
    pc,         \* where each spin's handler is
    since,      \* lastEligibleSpinDate
    pool,       \* the active drops the handler read
    pick,       \* randomlySelectedDrop
    won,        \* winningDrop, once the transaction committed
    tx,         \* the payout transaction, as the chain sees it
    mailed,     \* spins whose claim e-mail was delivered
    holder,     \* who holds each item on chain
    vault,      \* fungible payouts left in the vault
    dbOwner,    \* digitalAsset.owner of each item
    refusal,    \* the receipt a refused spin was told about
    prior       \* history: spins that had a receipt when this one began

dbVars    == <<drop, receipts, dbOwner>>
chainVars == <<holder, vault>>
spinVars  == <<pc, since, pool, pick, won, tx, mailed, refusal, prior>>
vars == <<now, open, dbVars, chainVars, spinVars>>

Running == {"wheel", "cooldown", "find", "update", "deliver", "send",
            "confirm", "receipt", "syncOwner", "noReward"}
PC == {"idle", "done", "failed"} \cup Running
Receipt == [spin : Spins, drop : Drops \cup {NoDrop}, at : 0..MaxTime]

TypeOK ==
    /\ now \in 0..MaxTime
    /\ open \in BOOLEAN
    /\ drop \in [Drops -> {"absent", "active", "taken"}]
    /\ receipts \subseteq Receipt
    /\ pc \in [Spins -> PC]
    /\ since \in [Spins -> Int]
    /\ pool \in [Spins -> SUBSET Drops]
    /\ pick \in [Spins -> Drops \cup {NoDrop}]
    /\ won \in [Spins -> Drops \cup {NoDrop}]
    /\ tx \in [Spins -> {"none", "sent", "landed", "errored", "expired"}]
    /\ mailed \subseteq Spins
    /\ holder \in [Items -> Users \cup {Vault, Outside}]
    /\ vault \in Nat
    /\ dbOwner \in [Items -> Users \cup {Vault, Outside}]
    /\ refusal \in [Spins -> Spins \cup {NoSpin}]
    /\ prior \in [Spins -> SUBSET Spins]

Init ==
    /\ now = 0
    /\ open = TRUE
    /\ drop = [d \in Drops |-> IF d \in Offered THEN "active" ELSE "absent"]
    /\ receipts = {}
    /\ pc = [s \in Spins |-> "idle"]
    /\ since = [s \in Spins |-> 0]
    /\ pool = [s \in Spins |-> {}]
    /\ pick = [s \in Spins |-> NoDrop]
    /\ won = [s \in Spins |-> NoDrop]
    /\ tx = [s \in Spins |-> "none"]
    /\ mailed = {}
    /\ holder = [i \in Items |-> Vault]
    /\ vault \in 0..VaultBalance
    /\ dbOwner = [i \in Items |-> Vault]
    /\ refusal = [s \in Spins |-> NoSpin]
    /\ prior = [s \in Spins |-> {}]

-----------------------------------------------------------------------------
(* The wheel's administration and the world around it.                     *)

Tick ==
    /\ now < MaxTime
    /\ now' = now + 1
    /\ UNCHANGED <<open, dbVars, chainVars, spinVars>>

\* PATCH update/:id, as far as a spin can tell: the wheel opens or closes.
UpdateWheel ==
    /\ open' = ~open
    /\ UNCHANGED <<now, dbVars, chainVars, spinVars>>

\* Variant with a bug: rows are upserted by item, so a taken one revives.
AddDropsUpsert ==
    /\ \E new \in SUBSET {d \in Drops : drop[d] # "active"} :
        /\ new # {}
        /\ drop' = [d \in Drops |-> IF d \in new THEN "active" ELSE drop[d]]
    /\ UNCHANGED <<now, open, receipts, dbOwner, chainVars, spinVars>>

\* PATCH reward/:id/add-drops: new rows, active by default.
AddDrops ==
    /\ \E new \in SUBSET {d \in Drops : drop[d] = "absent"} :
        /\ new # {}
        /\ drop' = [d \in Drops |-> IF d \in new THEN "active" ELSE drop[d]]
    /\ UNCHANGED <<now, open, receipts, dbOwner, chainVars, spinVars>>

Assets == {ItemOf[d] : d \in {e \in Drops : TypeOf[e] = "Collectible"}}

\* Holders, the treasury among them, may transfer an asset at any time.
MoveAsset ==
    /\ \E i \in Assets, to \in {Vault, Outside} :
        /\ holder[i] # to
        /\ holder' = [holder EXCEPT ![i] = to]
    /\ UNCHANGED <<now, open, dbVars, vault, spinVars>>

-----------------------------------------------------------------------------
(* spin(wheelId, userId)                                                   *)

Goto(s, where) == pc' = [pc EXCEPT ![s] = where]

\* The latest connected wallet is read; a user without one is refused.
Begin(s) ==
    /\ pc[s] = "idle"
    /\ Goto(s, IF UserOf[s] \in HasWallet THEN "wheel" ELSE "failed")
    /\ prior' = [prior EXCEPT ![s] = {r.spin : r \in receipts}]
    /\ UNCHANGED <<now, open, dbVars, chainVars,
                   since, pool, pick, won, tx, mailed, refusal>>

\* Rewards of weight 0, the default, put no copy of their drops in the pool.
DropPool == {d \in Drops : drop[d] = "active" /\ WeightOf[d] > 0}

\* The wheel and its active drops are read, then the clock.
ReadWheel(s) ==
    /\ pc[s] = "wheel"
    /\ \/ /\ ~open
          /\ Goto(s, "failed")
          /\ UNCHANGED <<since, pool>>
       \/ /\ open
          /\ Goto(s, "cooldown")
          /\ pool' = [pool EXCEPT ![s] = DropPool]
          /\ \E back \in Lookbacks : since' = [since EXCEPT ![s] = now - back]
    /\ UNCHANGED <<now, open, dbVars, chainVars,
                   pick, won, tx, mailed, refusal, prior>>

\* Variant with a bug: gt for gte.
CooldownReceiptsGt(s) ==
    {r \in receipts : UserOf[r.spin] = UserOf[s] /\ r.at > since[s]}

\* userLastEligibleReceipt is any one of these.
CooldownReceipts(s) ==
    {r \in receipts : UserOf[r.spin] = UserOf[s] /\ r.at >= since[s]}

\* The cooldown query answers; without a receipt the draw is made at once.
CheckCooldown(s) ==
    /\ pc[s] = "cooldown"
    /\ \/ /\ \E r \in CooldownReceipts(s) :
                refusal' = [refusal EXCEPT ![s] = r.spin]
          /\ Goto(s, "failed")
          /\ UNCHANGED <<since, pick>>
       \/ /\ CooldownReceipts(s) = {}
          /\ \E winningSpin \in {1, 100} :
               \/ /\ winningSpin > WinProbability \/ pool[s] = {}
                  /\ Goto(s, "noReward")
                  /\ UNCHANGED pick
               \/ /\ winningSpin <= WinProbability
                  /\ Goto(s, "find")
                  /\ \E d \in pool[s] : pick' = [pick EXCEPT ![s] = d]
          /\ since' = [since EXCEPT ![s] = 0]
          /\ UNCHANGED refusal
    /\ pool' = [pool EXCEPT ![s] = {}]
    /\ UNCHANGED <<now, open, dbVars, chainVars, won, tx, mailed, prior>>

\* A local the handler reads no more is reset, here and wherever it is dead.
Forget(s) == pick' = [pick EXCEPT ![s] = NoDrop]

\* findUnique, in the transaction that consumes the drop.
FindDrop(s) ==
    /\ pc[s] = "find"
    /\ \/ drop[pick[s]] = "active" /\ Goto(s, "update") /\ UNCHANGED pick
       \/ drop[pick[s]] # "active" /\ Goto(s, "noReward") /\ Forget(s)
    /\ UNCHANGED <<now, open, dbVars, chainVars,
                   since, pool, won, tx, mailed, refusal, prior>>

\* Variant with a bug: where: { id }.
ClaimableById(s) == drop[pick[s]] # "absent"

\* The update's where clause: { id, isActive: true }.
Claimable(s) == drop[pick[s]] = "active"

\* The update.  It waits for the row's lock and evaluates its where clause
\* again: a drop taken meanwhile is a record not found, and prisma throws.
UpdateDrop(s) ==
    /\ pc[s] = "update"
    /\ \/ /\ Claimable(s)
          /\ drop' = [drop EXCEPT ![pick[s]] = "taken"]
          /\ won' = [won EXCEPT ![s] = pick[s]]
          /\ Goto(s, "deliver")
       \/ /\ ~Claimable(s)
          /\ Goto(s, "failed")
          /\ UNCHANGED <<drop, won>>
    /\ Forget(s)
    /\ UNCHANGED <<now, open, receipts, dbOwner, chainVars,
                   since, pool, tx, mailed, refusal, prior>>

-----------------------------------------------------------------------------
(* Delivery of the winning drop, by the type of its reward.                *)

Wins(s, type) == pc[s] = "deliver" /\ TypeOf[won[s]] = type
WonItem(s) == ItemOf[won[s]]

\* The switch's default: an administrator may give the reward None drops.
DeliverNothing(s) ==
    /\ Wins(s, "None")
    /\ Goto(s, "noReward")
    /\ UNCHANGED <<now, open, dbVars, chainVars,
                   since, pool, pick, won, tx, mailed, refusal, prior>>

\* sendPhysicalClaimEmail.  The mail service logs a failed mail and returns.
SendClaimEmail(s) ==
    /\ Wins(s, "Physical")
    /\ IF WonItem(s) \in KnownItems
       THEN /\ mailed' \in {mailed, mailed \cup {s}}
            /\ Goto(s, "receipt")
       ELSE /\ Goto(s, "noReward")
            /\ UNCHANGED mailed
    /\ UNCHANGED <<now, open, dbVars, chainVars,
                   since, pool, pick, won, tx, refusal, prior>>

\* transferFungibleFromVault, up to the transfer.  The balance compared with
\* the amount is that of the winner's wallet, which the model leaves open.
CheckFungible(s) ==
    /\ Wins(s, "Fungible")
    /\ \E isBalanceEnough \in BOOLEAN :
         Goto(s, IF WonItem(s) \in KnownItems /\ isBalanceEnough
                 THEN "send" ELSE "noReward")
    /\ UNCHANGED <<now, open, dbVars, chainVars,
                   since, pool, pick, won, tx, mailed, refusal, prior>>

\* transferCollectibleFromVault, up to the transfer: an asset that left the
\* vault is recorded with the owner the chain names and pays nothing.
FetchAsset(s) ==
    /\ Wins(s, "Collectible")
    /\ \/ /\ holder[WonItem(s)] = Vault
          /\ Goto(s, "send")
          /\ UNCHANGED dbOwner
       \/ /\ holder[WonItem(s)] # Vault
          /\ Goto(s, "noReward")
          /\ dbOwner' = [dbOwner EXCEPT ![WonItem(s)] = holder[WonItem(s)]]
    /\ UNCHANGED <<now, open, drop, receipts, chainVars,
                   since, pool, pick, won, tx, mailed, refusal, prior>>

\* Variant with a bug: the transfer is not awaited.
SendTransferUnconfirmed(s) ==
    /\ pc[s] = "send"
    /\ tx' = [tx EXCEPT ![s] = "sent"]
    /\ Goto(s, "receipt")
    /\ UNCHANGED <<now, open, dbVars, chainVars,
                   since, pool, pick, won, mailed, refusal, prior>>

\* sendTransaction, with preflight skipped.
SendTransfer(s) ==
    /\ pc[s] = "send"
    /\ tx' = [tx EXCEPT ![s] = "sent"]
    /\ Goto(s, "confirm")
    /\ UNCHANGED <<now, open, dbVars, chainVars,
                   since, pool, pick, won, mailed, refusal, prior>>

\* The chain executes a sent transfer if its source still holds the value.
Covered(s) == IF TypeOf[won[s]] = "Collectible"
              THEN holder[WonItem(s)] = Vault
              ELSE vault > 0

Land(s) ==
    /\ tx[s] = "sent"
    /\ tx' = [tx EXCEPT ![s] = IF Covered(s) THEN "landed" ELSE "errored"]
    /\ CASE ~Covered(s) -> UNCHANGED chainVars
         [] Covered(s) /\ TypeOf[won[s]] = "Collectible" ->
              /\ holder' = [holder EXCEPT ![WonItem(s)] = UserOf[s]]
              /\ UNCHANGED vault
         [] OTHER -> vault' = vault - 1 /\ UNCHANGED holder
    /\ UNCHANGED <<now, open, dbVars,
                   pc, since, pool, pick, won, mailed, refusal, prior>>

\* The transaction's blockhash expires before any block includes it.
Expire(s) ==
    /\ tx[s] = "sent"
    /\ tx' = [tx EXCEPT ![s] = "expired"]
    /\ UNCHANGED <<now, open, dbVars, chainVars,
                   pc, since, pool, pick, won, mailed, refusal, prior>>

\* confirmTransaction returns for a transaction in a block, and the error it
\* may carry is not looked at.
Confirmed(s) == tx[s] \in {"landed", "errored"}

\* Variant with a bug: confirmation without the blockhash strategy.
ConfirmForever(s) ==
    /\ pc[s] = "confirm" /\ Confirmed(s) /\ Goto(s, "receipt")
    /\ UNCHANGED <<now, open, dbVars, chainVars,
                   since, pool, pick, won, tx, mailed, refusal, prior>>

\* It throws for one whose blockhash expired.
Confirm(s) ==
    /\ pc[s] = "confirm"
    /\ \/ Confirmed(s) /\ Goto(s, "receipt")
       \/ tx[s] = "expired" /\ Goto(s, "failed")
    /\ UNCHANGED <<now, open, dbVars, chainVars,
                   since, pool, pick, won, tx, mailed, refusal, prior>>

\* The receipt of a won drop.
CreateReceipt(s) ==
    /\ pc[s] = "receipt"
    /\ receipts' = receipts \cup {[spin |-> s, drop |-> won[s], at |-> now]}
    /\ Goto(s, IF TypeOf[won[s]] = "Collectible" THEN "syncOwner" ELSE "done")
    /\ UNCHANGED <<now, open, drop, dbOwner, chainVars,
                   since, pool, pick, won, tx, mailed, refusal, prior>>

\* After the receipt of a collectible, the owner column of its asset.
SyncOwner(s) ==
    /\ pc[s] = "syncOwner"
    /\ dbOwner' = [dbOwner EXCEPT ![WonItem(s)] = UserOf[s]]
    /\ Goto(s, "done")
    /\ UNCHANGED <<now, open, drop, receipts, chainVars,
                   since, pool, pick, won, tx, mailed, refusal, prior>>

\* createReceiptForNoReward, whether or not a drop was consumed.
CreateReceiptForNoReward(s) ==
    /\ pc[s] = "noReward"
    /\ receipts' = receipts \cup {[spin |-> s, drop |-> NoDrop, at |-> now]}
    /\ Goto(s, "done")
    /\ UNCHANGED <<now, open, drop, dbOwner, chainVars,
                   since, pool, pick, won, tx, mailed, refusal, prior>>

\* An awaited call throws, or the process stops.
Fail(s) ==
    /\ pc[s] \in Running
    /\ Goto(s, "failed")
    /\ since' = [since EXCEPT ![s] = 0]
    /\ pool' = [pool EXCEPT ![s] = {}]
    /\ Forget(s)
    /\ UNCHANGED <<now, open, dbVars, chainVars,
                   won, tx, mailed, refusal, prior>>

Deliver(s) == \/ DeliverNothing(s) \/ SendClaimEmail(s)
              \/ CheckFungible(s) \/ FetchAsset(s)

\* The handler's own steps.
Handler(s) ==
    \/ ReadWheel(s) \/ CheckCooldown(s) \/ FindDrop(s) \/ UpdateDrop(s)
    \/ Deliver(s) \/ SendTransfer(s) \/ Confirm(s)
    \/ CreateReceipt(s) \/ SyncOwner(s) \/ CreateReceiptForNoReward(s)

Chain(s) == Land(s) \/ Expire(s)

Next ==
    \/ Tick \/ UpdateWheel \/ AddDrops \/ MoveAsset
    \/ \E s \in Spins : Begin(s) \/ Handler(s) \/ Chain(s) \/ Fail(s)

Spec == Init /\ [][Next]_vars

\* An await that neither answers nor throws would hang the request: the
\* database, the mailer and the RPC client answer or time out, and the chain
\* includes a transaction or lets its blockhash expire.
FairSpec == Spec /\ \A s \in Spins : WF_vars(Handler(s)) /\ WF_vars(Chain(s))

-----------------------------------------------------------------------------
(* Properties                                                              *)

\* A drop is one physical item, one asset or one payment.  However spins
\* interleave between reading the pool and the transaction that consumes the
\* drop, no two of them are awarded the same one, a spin gets one receipt,
\* and a drop appears in one receipt.
AwardedOnce ==
    /\ \A s, t \in Spins : won[s] = won[t] /\ won[s] # NoDrop => s = t
    /\ \A r, q \in receipts :
         r.spin = q.spin \/ (r.drop = q.drop /\ r.drop # NoDrop) => r = q

\* The reward history never contradicts the outcome: a spin recorded as
\* having won nothing was paid nothing, whichever fallback produced that
\* receipt, and a spin recorded with an on-chain drop is the one that won it
\* and had its transfer executed by the chain, if perhaps with an error.
ReceiptTellsOutcome ==
    \A r \in receipts :
        IF r.drop = NoDrop
        THEN tx[r.spin] = "none" /\ r.spin \notin mailed
        ELSE /\ won[r.spin] = r.drop
             /\ TypeOf[r.drop] \in OnChain =>
                    tx[r.spin] \in {"landed", "errored"}

\* The cooldown holds between spins that do not overlap: a spin that began
\* after another spin of the same user left a receipt leaves its own more
\* than a cooldown later, whatever was awaited in between.
CooldownBetweenSequentialSpins ==
    \A r, q \in receipts :
        /\ UserOf[r.spin] = UserOf[q.spin]
        /\ r.spin \in prior[q.spin]
        => q.at > r.at + Cooldown

\* A refusal (NO_SPIN_LEFT) and GET wheel announce the next spin 24 hours
\* after the receipt they found.  A spin refused because of that receipt was
\* not sent later than announced.
RefusedOnlyBeforeAnnounced ==
    \A s \in Spins : \A r \in receipts :
        refusal[s] = r.spin => since[s] + Cooldown <= r.at + Day

\* "You have used all your available spins" (NO_SPIN_LEFT): a user leaves at
\* most one receipt in any cooldown.
OneSpinPerCooldown ==
    \A r, q \in receipts :
        /\ UserOf[r.spin] = UserOf[q.spin]
        /\ r.spin # q.spin
        => q.at > r.at + Cooldown \/ r.at > q.at + Cooldown

-----------------------------------------------------------------------------
(* The inductive invariant behind AwardedOnce and ReceiptTellsOutcome.      *)

HasReceipt(s) == \E r \in receipts : r.spin = s
Unpaid(s) == tx[s] = "none" /\ s \notin mailed

\* What is true of a spin at each point of its handler.
Stage(s) ==
    /\ pc[s] \in {"idle", "wheel", "cooldown", "find", "update"} =>
           won[s] = NoDrop
    /\ won[s] = NoDrop => Unpaid(s)
    /\ pc[s] \in {"find", "update"} => pick[s] \in Drops
    /\ pc[s] \in {"deliver", "send", "confirm", "receipt", "syncOwner"} =>
           won[s] \in Drops
    /\ pc[s] \in {"deliver", "send", "noReward"} => Unpaid(s)
    /\ pc[s] \in {"send", "confirm"} => TypeOf[won[s]] \in OnChain
    /\ pc[s] = "receipt" /\ TypeOf[won[s]] \in OnChain =>
           tx[s] \in {"landed", "errored"}
    /\ HasReceipt(s) => pc[s] \in {"syncOwner", "done", "failed"}
    /\ s \in mailed => TypeOf[won[s]] = "Physical"
    /\ tx[s] # "none" => TypeOf[won[s]] \in OnChain

IInv ==
    /\ \A s \in Spins : Stage(s)
    /\ \A s \in Spins : won[s] # NoDrop => drop[won[s]] = "taken"
    /\ AwardedOnce
    /\ ReceiptTellsOutcome

\* What makes the cooldowns of sequential spins inductive: a spin that passed
\* the query is later than every receipt it began after.
PastCooldown == {"find", "update", "deliver", "send", "confirm", "receipt",
                 "noReward"}

CooldownInv ==
    /\ \A s \in Spins : pc[s] = "cooldown" => since[s] + Cooldown <= now
    /\ \A s \in Spins : \A t \in prior[s] : HasReceipt(t)
    /\ \A s \in Spins : \A r \in receipts :
         /\ pc[s] \in PastCooldown
         /\ UserOf[r.spin] = UserOf[s] /\ r.spin \in prior[s]
         => now > r.at + Cooldown
    /\ CooldownBetweenSequentialSpins

\* A refused spin stays refused because of a receipt inside its window.
RefusalInv ==
    \A s \in Spins : refusal[s] # NoSpin =>
        /\ pc[s] = "failed"
        /\ HasReceipt(refusal[s])
        /\ \A r \in receipts : r.spin = refusal[s] => r.at >= since[s]

\* The wheel implements the ledger of prizes.
Ledger == INSTANCE PrizeLedger WITH
    offered <- {d \in Drops : drop[d] = "active"},
    award   <- {a \in Spins \X Drops : won[a[1]] = a[2]},
    paid    <- mailed \cup {s \in Spins : tx[s] = "landed"}
PrizeLedgerSpec == Ledger!Spec

\* Every spin is answered or fails, even when its transfer never lands.
SpinTerminates == \A s \in Spins :
    pc[s] # "idle" ~> pc[s] \in {"done", "failed"}
=============================================================================
