---------------------------- MODULE Wheel_proofs ----------------------------
(* Theorems about the wheel, for any users, spins, drops and reward types. *)
EXTENDS Wheel, TLAPS

\* The wheel opens in a typed state.
LEMMA InitTypeOK == Init => TypeOK
  BY WheelAssumption DEF Init, TypeOK, PC

\* Every step of the wheel, its clients and the chain keeps the types.
LEMMA NextTypeOK == TypeOK /\ [Next]_vars => TypeOK'
  <1> SUFFICES ASSUME TypeOK, [Next]_vars PROVE TypeOK'
    OBVIOUS
  <1> USE WheelAssumption DEF TypeOK, dbVars, chainVars, spinVars, Goto, Forget,
               PC, Running, Receipt
  <1>1. CASE UNCHANGED vars
    BY <1>1 DEF vars
  <1>2. CASE Tick \/ UpdateWheel
    <2>1. now' \in 0..MaxTime
      BY <1>2 DEF Tick, UpdateWheel
    <2>2. open' \in BOOLEAN
      BY <1>2, Zenon DEF Tick, UpdateWheel
    <2> QED BY <1>2, <2>1, <2>2 DEF Tick, UpdateWheel
  <1>3. CASE AddDrops
    BY <1>3 DEF AddDrops
  <1>4. CASE MoveAsset
    <2>1. PICK i \in Assets, to \in {Vault, Outside} :
            holder' = [holder EXCEPT ![i] = to]
      BY <1>4 DEF MoveAsset
    <2>2. i \in Items
      BY DEF Assets
    <2>3. holder' \in [Items -> Users \cup {Vault, Outside}]
      BY <2>1, <2>2
    <2> QED BY <1>4, <2>3 DEF MoveAsset
  <1>5. ASSUME NEW s \in Spins, Begin(s) PROVE TypeOK'
    <2>1. {r.spin : r \in receipts} \subseteq Spins
      BY DEF Receipt
    <2> QED BY <1>5, <2>1 DEF Begin
  <1>6. ASSUME NEW s \in Spins, ReadWheel(s) PROVE TypeOK'
    <2>1. Lookbacks \subseteq Int /\ DropPool \subseteq Drops
      BY DEF Lookbacks, Cooldown, Day, DropPool
    <2> QED BY <1>6, <2>1 DEF ReadWheel
  <1>7. ASSUME NEW s \in Spins, CheckCooldown(s) PROVE TypeOK'
    <2>1. \A r \in CooldownReceipts(s) : r.spin \in Spins
      BY DEF CooldownReceipts
    <2> QED BY <1>7, <2>1 DEF CheckCooldown
  <1>8. ASSUME NEW s \in Spins, FindDrop(s) \/ UpdateDrop(s) PROVE TypeOK'
    BY <1>8 DEF FindDrop, UpdateDrop
  <1>9. ASSUME NEW s \in Spins, Deliver(s) PROVE TypeOK'
    <2>1. CASE DeliverNothing(s) \/ SendClaimEmail(s)
      BY <2>1 DEF DeliverNothing, SendClaimEmail
    <2>2. CASE CheckFungible(s)
      BY <2>2 DEF CheckFungible
    <2>3. CASE FetchAsset(s)
      BY <2>3 DEF FetchAsset
    <2> QED BY <1>9, <2>1, <2>2, <2>3 DEF Deliver
  <1>10. ASSUME NEW s \in Spins, SendTransfer(s) \/ Confirm(s) PROVE TypeOK'
    BY <1>10 DEF SendTransfer, Confirm
  <1>11. ASSUME NEW s \in Spins,
                CreateReceipt(s) \/ CreateReceiptForNoReward(s)
         PROVE  TypeOK'
    BY <1>11 DEF CreateReceipt, CreateReceiptForNoReward
  <1>12. ASSUME NEW s \in Spins, SyncOwner(s) \/ Fail(s) PROVE TypeOK'
    BY <1>12, SMTT(60) DEF SyncOwner, Fail
  <1>13. ASSUME NEW s \in Spins, Land(s) PROVE TypeOK'
    BY <1>13 DEF Land, Covered
  <1>14. ASSUME NEW s \in Spins, Expire(s) PROVE TypeOK'
    BY <1>14 DEF Expire
  <1> QED
    BY <1>1, <1>2, <1>3, <1>4, <1>5, <1>6, <1>7, <1>8, <1>9, <1>10, <1>11,
       <1>12, <1>13, <1>14 DEF Next, Handler, Chain

\* Every variable keeps its type, for any constants the assumption allows.
THEOREM TypeCorrect == Spec => []TypeOK
  <1> QED BY InitTypeOK, NextTypeOK, PTL DEF Spec

-----------------------------------------------------------------------------

\* Before any spin there is no award, no payment and no receipt.
LEMMA InitIInv == Init => IInv
  BY WheelAssumption
  DEF Init, IInv, Stage, HasReceipt, Unpaid, AwardedOnce, ReceiptTellsOutcome

\* Each step of each spin keeps the inductive invariant.
LEMMA NextIInv == TypeOK /\ IInv /\ [Next]_vars => IInv'
  <1> SUFFICES ASSUME TypeOK, IInv, [Next]_vars PROVE IInv'
    OBVIOUS
  <1> USE WheelAssumption
      DEF TypeOK, dbVars, chainVars, spinVars, Goto, Forget, PC, Running,
          Receipt, IInv, Stage, HasReceipt, Unpaid, AwardedOnce,
          ReceiptTellsOutcome, RewardTypes, OnChain
  <1>1. CASE UNCHANGED vars
    BY <1>1 DEF vars
  <1>2. CASE Tick \/ UpdateWheel \/ MoveAsset
    BY <1>2 DEF Tick, UpdateWheel, MoveAsset
  <1>3. CASE AddDrops
    BY <1>3 DEF AddDrops
  <1>4. ASSUME NEW s \in Spins, Begin(s) \/ ReadWheel(s) PROVE IInv'
    BY <1>4 DEF Begin, ReadWheel
  <1>5. ASSUME NEW s \in Spins, CheckCooldown(s) PROVE IInv'
    BY <1>5 DEF CheckCooldown
  <1>6. ASSUME NEW s \in Spins, FindDrop(s) PROVE IInv'
    BY <1>6, SMTT(60) DEF FindDrop
  <1>7. ASSUME NEW s \in Spins, UpdateDrop(s) PROVE IInv'
    <2>1. CASE Claimable(s)
      <3>1. /\ drop' = [drop EXCEPT ![pick[s]] = "taken"]
            /\ won' = [won EXCEPT ![s] = pick[s]]
            /\ won[s] = NoDrop /\ Unpaid(s) /\ ~HasReceipt(s)
            /\ drop[pick[s]] = "active" /\ pick[s] \in Drops
            /\ pc[s] = "update" /\ pc' = [pc EXCEPT ![s] = "deliver"]
            /\ UNCHANGED <<receipts, tx, mailed>>
        BY <1>7, <2>1 DEF UpdateDrop, Claimable
      <3>2. \A t \in Spins : won[t] # pick[s]
        BY <3>1
      <3>3. AwardedOnce' /\ ReceiptTellsOutcome'
        BY <3>1, <3>2
      <3>4. \A t \in Spins : won'[t] # NoDrop => drop'[won'[t]] = "taken"
        BY <3>1, <3>2
      <3>5. \A t \in Spins : Stage(t)'
        BY <1>7, <3>1 DEF UpdateDrop
      <3> QED BY <3>3, <3>4, <3>5
    <2>2. CASE ~Claimable(s)
      BY <1>7, <2>2 DEF UpdateDrop
    <2> QED BY <2>1, <2>2
  <1>8. ASSUME NEW s \in Spins, DeliverNothing(s) \/ SendClaimEmail(s)
        PROVE IInv'
    BY <1>8 DEF DeliverNothing, SendClaimEmail, Wins
  <1>9. ASSUME NEW s \in Spins, CheckFungible(s) \/ FetchAsset(s) PROVE IInv'
    BY <1>9 DEF CheckFungible, FetchAsset, Wins
  <1>10. ASSUME NEW s \in Spins, SendTransfer(s) PROVE IInv'
    BY <1>10, SMTT(60) DEF SendTransfer
  <1>11. ASSUME NEW s \in Spins, Confirm(s) PROVE IInv'
    BY <1>11 DEF Confirm, Confirmed
  <1>12. ASSUME NEW s \in Spins, CreateReceipt(s) PROVE IInv'
    BY <1>12 DEF CreateReceipt
  <1>13. ASSUME NEW s \in Spins, CreateReceiptForNoReward(s) PROVE IInv'
    BY <1>13, SMTT(60) DEF CreateReceiptForNoReward
  <1>14. ASSUME NEW s \in Spins, SyncOwner(s) \/ Fail(s) PROVE IInv'
    BY <1>14 DEF SyncOwner, Fail
  <1>15. ASSUME NEW s \in Spins, Land(s) \/ Expire(s) PROVE IInv'
    BY <1>15 DEF Land, Expire
  <1> QED
    BY <1>1, <1>2, <1>3, <1>4, <1>5, <1>6, <1>7, <1>8, <1>9, <1>10, <1>11,
       <1>12, <1>13, <1>14, <1>15 DEF Next, Handler, Deliver, Chain

\* The inductive invariant: where a handler stands, what it won, what was paid
\* and which receipts exist agree, however the spins interleave.
THEOREM Invariance == Spec => []IInv
  <1> QED BY InitTypeOK, NextTypeOK, InitIInv, NextIInv, PTL DEF Spec

\* No drop is awarded twice, however the spins interleave.
THEOREM AwardedOnceAlways == Spec => []AwardedOnce
  <1> IInv => AwardedOnce
    BY DEF IInv
  <1> QED BY Invariance, PTL

\* A receipt tells what became of its spin.
THEOREM ReceiptTellsOutcomeAlways == Spec => []ReceiptTellsOutcome
  <1> IInv => ReceiptTellsOutcome
    BY DEF IInv
  <1> QED BY Invariance, PTL

-----------------------------------------------------------------------------
(* The cooldown between spins that do not overlap.                         *)

\* A cooldown is a natural number of clock units.
LEMMA CooldownNat == Cooldown \in Nat
  BY WheelAssumption DEF Cooldown, Day

\* No query looks back less than a cooldown.
LEMMA LookbacksLong == \A back \in Lookbacks : back \in Nat /\ back >= Cooldown
  BY WheelAssumption DEF Lookbacks, Cooldown, Day

\* Each step keeps a spin that passed the cooldown query later than the
\* receipts it began after.
LEMMA NextCooldownInv ==
    TypeOK /\ TypeOK' /\ IInv /\ CooldownInv /\ [Next]_vars => CooldownInv'
  <1> SUFFICES ASSUME TypeOK, TypeOK', IInv, CooldownInv, [Next]_vars
               PROVE  CooldownInv'
    OBVIOUS
  <1> USE WheelAssumption, CooldownNat
      DEF TypeOK, dbVars, chainVars, spinVars, Goto, Forget, PC, Running,
          Receipt, CooldownInv, CooldownBetweenSequentialSpins, HasReceipt,
          PastCooldown
  <1>1. CASE UNCHANGED vars
    BY <1>1 DEF vars
  <1>2. CASE Tick
    BY <1>2 DEF Tick
  <1>3. CASE UpdateWheel \/ AddDrops \/ MoveAsset
    BY <1>3 DEF UpdateWheel, AddDrops, MoveAsset
  <1>4. ASSUME NEW s \in Spins, Begin(s) PROVE CooldownInv'
    BY <1>4 DEF Begin, IInv, Stage
  <1>5. ASSUME NEW s \in Spins, ReadWheel(s) PROVE CooldownInv'
    BY <1>5, LookbacksLong, SMTT(60) DEF ReadWheel
  <1>6. ASSUME NEW s \in Spins, CheckCooldown(s) PROVE CooldownInv'
    BY <1>6, SMTT(60) DEF CheckCooldown, CooldownReceipts
  <1>7. ASSUME NEW s \in Spins, FindDrop(s) \/ UpdateDrop(s) PROVE CooldownInv'
    BY <1>7 DEF FindDrop, UpdateDrop
  <1>8. ASSUME NEW s \in Spins, Deliver(s) PROVE CooldownInv'
    BY <1>8 DEF Deliver, DeliverNothing, SendClaimEmail, CheckFungible, FetchAsset, Wins
  <1>9. ASSUME NEW s \in Spins, SendTransfer(s) \/ Confirm(s) PROVE CooldownInv'
    BY <1>9 DEF SendTransfer, Confirm
  <1>10. ASSUME NEW s \in Spins, CreateReceipt(s) \/ CreateReceiptForNoReward(s)
         PROVE  CooldownInv'
    <2>1. PICK d \in Drops \cup {NoDrop} :
            receipts' = receipts \cup {[spin |-> s, drop |-> d, at |-> now]}
      BY <1>10 DEF CreateReceipt, CreateReceiptForNoReward
    <2>2. /\ pc[s] \in {"receipt", "noReward"}
          /\ pc' = [pc EXCEPT ![s] = pc'[s]]
          /\ pc'[s] \in {"syncOwner", "done"}
          /\ UNCHANGED <<now, since, prior>>
      BY <1>10 DEF CreateReceipt, CreateReceiptForNoReward
    <2>3. \A r \in receipts : r.spin # s
      BY <2>2, SMTT(60) DEF IInv, Stage
    <2>4. \A t \in Spins : s \notin prior[t]
      BY <2>3
    <2> QED BY <2>1, <2>2, <2>3, <2>4
  <1>11. ASSUME NEW s \in Spins, SyncOwner(s) \/ Fail(s) PROVE CooldownInv'
    BY <1>11 DEF SyncOwner, Fail
  <1>12. ASSUME NEW s \in Spins, Chain(s) PROVE CooldownInv'
    BY <1>12 DEF Chain, Land, Expire
  <1> QED
    BY <1>1, <1>2, <1>3, <1>4, <1>5, <1>6, <1>7, <1>8, <1>9, <1>10, <1>11,
       <1>12 DEF Next, Handler

\* Of two spins of a user that do not overlap, the later leaves its receipt
\* more than a cooldown after the earlier.
THEOREM CooldownAlways == Spec => []CooldownBetweenSequentialSpins
  <1>1. Init => CooldownInv
    BY WheelAssumption
    DEF Init, CooldownInv, CooldownBetweenSequentialSpins, PastCooldown
  <1>2. CooldownInv => CooldownBetweenSequentialSpins
    BY DEF CooldownInv
  <1> QED BY <1>1, <1>2, NextCooldownInv, TypeCorrect, Invariance, PTL DEF Spec

-----------------------------------------------------------------------------
(* The announced time of the next spin.                                    *)

\* Each step keeps a refused spin inside the window of its receipt.
LEMMA NextRefusalInv ==
    TypeOK /\ IInv /\ RefusalInv /\ [Next]_vars => RefusalInv'
  <1> SUFFICES ASSUME TypeOK, IInv, RefusalInv, [Next]_vars
               PROVE  RefusalInv'
    OBVIOUS
  <1> USE WheelAssumption
      DEF TypeOK, dbVars, chainVars, spinVars, Goto, Forget, PC, Running,
          Receipt, RefusalInv, HasReceipt
  <1>1. CASE UNCHANGED vars
    BY <1>1 DEF vars
  <1>2. CASE Tick \/ UpdateWheel \/ AddDrops \/ MoveAsset
    BY <1>2 DEF Tick, UpdateWheel, AddDrops, MoveAsset
  <1>3. ASSUME NEW s \in Spins, Begin(s) \/ ReadWheel(s) PROVE RefusalInv'
    BY <1>3 DEF Begin, ReadWheel
  <1>4. ASSUME NEW s \in Spins, CheckCooldown(s) PROVE RefusalInv'
    BY <1>4 DEF CheckCooldown, CooldownReceipts, IInv, AwardedOnce
  <1>5. ASSUME NEW s \in Spins,
               FindDrop(s) \/ UpdateDrop(s) \/ SendTransfer(s) \/ Confirm(s)
        PROVE  RefusalInv'
    BY <1>5 DEF FindDrop, UpdateDrop, SendTransfer, Confirm
  <1>6. ASSUME NEW s \in Spins, Deliver(s) PROVE RefusalInv'
    BY <1>6 DEF Deliver, DeliverNothing, SendClaimEmail, CheckFungible, FetchAsset, Wins
  <1>7. ASSUME NEW s \in Spins, CreateReceipt(s) \/ CreateReceiptForNoReward(s)
        PROVE  RefusalInv'
    <2>1. \A r \in receipts : r.spin # s
      BY <1>7 DEF CreateReceipt, CreateReceiptForNoReward, IInv, Stage
    <2> QED BY <1>7, <2>1 DEF CreateReceipt, CreateReceiptForNoReward
  <1>8. ASSUME NEW s \in Spins, SyncOwner(s) \/ Fail(s) PROVE RefusalInv'
    BY <1>8 DEF SyncOwner, Fail
  <1>9. ASSUME NEW s \in Spins, Chain(s) PROVE RefusalInv'
    BY <1>9 DEF Chain, Land, Expire
  <1> QED
    BY <1>1, <1>2, <1>3, <1>4, <1>5, <1>6, <1>7, <1>8, <1>9
    DEF Next, Handler

\* On a daily wheel no spin is refused later than the time announced.
THEOREM AnnouncedDaily ==
    ASSUME WheelType = "Daily"
    PROVE  Spec => []RefusedOnlyBeforeAnnounced
  <1>1. Init => RefusalInv
    BY DEF Init, RefusalInv
  <1>2. Cooldown = Day /\ Day \in Nat
    BY DEF Cooldown, Day
  <1>3. TypeOK /\ RefusalInv => RefusedOnlyBeforeAnnounced
    BY <1>2, WheelAssumption
    DEF TypeOK, Receipt, RefusalInv, RefusedOnlyBeforeAnnounced
  <1> QED BY <1>1, <1>3, NextRefusalInv, TypeCorrect, Invariance, PTL DEF Spec

-----------------------------------------------------------------------------
(* The wheel implements the ledger of prizes.                              *)

\* An open wheel is a ledger without awards.
LEMMA InitLedger == Init => Ledger!Init
  BY WheelAssumption DEF Init, Ledger!Init

\* Every step of the wheel is a step of the ledger or leaves it alone.
LEMMA NextLedger == TypeOK /\ IInv /\ [Next]_vars => [Ledger!Next]_(Ledger!vars)
  <1> SUFFICES ASSUME TypeOK, IInv, [Next]_vars
               PROVE  [Ledger!Next]_(Ledger!vars)
    OBVIOUS
  <1> USE WheelAssumption
      DEF TypeOK, dbVars, chainVars, spinVars, Goto, Forget, Ledger!vars
  <1>1. CASE UNCHANGED vars
    BY <1>1 DEF vars
  <1>2. CASE Tick \/ UpdateWheel \/ MoveAsset
    BY <1>2 DEF Tick, UpdateWheel, MoveAsset
  <1>3. CASE AddDrops
    <2>1. PICK new \in SUBSET {d \in Drops : drop[d] = "absent"} :
            drop' = [d \in Drops |-> IF d \in new THEN "active" ELSE drop[d]]
      BY <1>3 DEF AddDrops
    <2>2. \A a \in Spins \X Drops : won[a[1]] = a[2] => a[2] \notin new
      BY DEF IInv
    <2>3. {d \in Drops : drop'[d] = "active"}
            = {d \in Drops : drop[d] = "active"} \cup new
      BY <2>1
    <2>4. new \in SUBSET (Drops \ ({d \in Drops : drop[d] = "active"}
                                     \cup Ledger!Awarded))
      BY <2>2 DEF Ledger!Awarded
    <2>5. UNCHANGED <<won, tx, mailed>>
      BY <1>3 DEF AddDrops
    <2>6. Ledger!Offer
      BY <2>3, <2>4, <2>5 DEF Ledger!Offer
    <2> QED BY <2>6 DEF Ledger!Next
  <1>4. ASSUME NEW s \in Spins, UpdateDrop(s) PROVE [Ledger!Next]_(Ledger!vars)
    <2>1. CASE Claimable(s)
      <3>1. PICK d \in Drops :
              /\ drop' = [drop EXCEPT ![d] = "taken"]
              /\ won' = [won EXCEPT ![s] = d]
              /\ won[s] = NoDrop /\ drop[d] = "active"
              /\ UNCHANGED <<tx, mailed>>
        BY <1>4, <2>1 DEF UpdateDrop, Claimable, IInv, Stage
      <3>2. {e \in Drops : drop'[e] = "active"}
              = {e \in Drops : drop[e] = "active"} \ {d}
        BY <3>1
      <3>3. {a \in Spins \X Drops : won'[a[1]] = a[2]}
              = {a \in Spins \X Drops : won[a[1]] = a[2]} \cup {<<s, d>>}
        BY <3>1
      <3>4. Ledger!Award(s, d)
        BY <3>1, <3>2, <3>3 DEF Ledger!Award, Ledger!Winners
      <3> QED BY <3>4 DEF Ledger!Next
    <2>2. CASE ~Claimable(s)
      BY <1>4, <2>2 DEF UpdateDrop
    <2> QED BY <2>1, <2>2
  <1>5. ASSUME NEW s \in Spins, SendClaimEmail(s) \/ Land(s)
        PROVE  [Ledger!Next]_(Ledger!vars)
    <2> DEFINE Paid == mailed \cup {t \in Spins : tx[t] = "landed"}
    <2>1. UNCHANGED <<drop, won>>
      BY <1>5 DEF SendClaimEmail, Land
    <2>2. s \notin Paid /\ won[s] \in Drops
      BY <1>5 DEF SendClaimEmail, Wins, Land, IInv, Stage, Unpaid,
                  RewardTypes, OnChain
    <2>3. Paid' = Paid \/ Paid' = Paid \cup {s}
      BY <1>5 DEF SendClaimEmail, Land
    <2>4. s \in {a[1] : a \in {b \in Spins \X Drops : won[b[1]] = b[2]}}
      <3>1. <<s, won[s]>> \in {b \in Spins \X Drops : won[b[1]] = b[2]}
        BY <2>2
      <3> QED BY <3>1
    <2>5. CASE Paid' = Paid \cup {s}
      <3>1. Ledger!Pay(s)
        BY <2>1, <2>2, <2>4, <2>5 DEF Ledger!Pay, Ledger!Winners
      <3> QED BY <3>1 DEF Ledger!Next
    <2>6. CASE Paid' = Paid
      BY <2>1, <2>6
    <2> QED BY <2>3, <2>5, <2>6
  <1>6. ASSUME NEW s \in Spins,
               \/ Begin(s) \/ ReadWheel(s) \/ CheckCooldown(s) \/ FindDrop(s)
               \/ DeliverNothing(s) \/ CheckFungible(s) \/ FetchAsset(s)
               \/ Confirm(s)
               \/ CreateReceipt(s) \/ SyncOwner(s)
               \/ CreateReceiptForNoReward(s) \/ Fail(s)
        PROVE  [Ledger!Next]_(Ledger!vars)
    BY <1>6 DEF Begin, ReadWheel, CheckCooldown, FindDrop, DeliverNothing,
                CheckFungible, FetchAsset, Confirm, CreateReceipt, SyncOwner,
                CreateReceiptForNoReward, Fail
  <1>7. ASSUME NEW s \in Spins, SendTransfer(s) \/ Expire(s)
        PROVE  [Ledger!Next]_(Ledger!vars)
    <2>1. \A t \in Spins : tx'[t] = "landed" <=> tx[t] = "landed"
      BY <1>7 DEF SendTransfer, Expire, IInv, Stage, Unpaid
    <2> QED BY <1>7, <2>1 DEF SendTransfer, Expire
  <1> QED
    BY <1>1, <1>2, <1>3, <1>4, <1>5, <1>6, <1>7
    DEF Next, Handler, Deliver, Chain

\* Every behaviour of the wheel is one of the ledger: no drop goes to two
\* spins, none comes back, and only winners are paid, once.
THEOREM WheelImplementsLedger == Spec => PrizeLedgerSpec
  <1> QED BY InitLedger, NextLedger, TypeCorrect, Invariance, PTL
          DEF Spec, PrizeLedgerSpec, Ledger!Spec
=============================================================================
