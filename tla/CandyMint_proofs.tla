-------------------------- MODULE CandyMint_proofs --------------------------
(* Theorems about minting, for any mints, coupons, wallets and users, any    *)
(* number of submissions and any number of webhook calls.                    *)
EXTENDS CandyMint, FiniteSetTheorems, TLAPS

\* A send is a submission of a mint, a delivery is a call about one.
LEMMA PairsOfMints ==
    /\ \A s \in Sends : s[1] \in Mints /\ s \in Mints \X Nat
    /\ \A d \in Deliveries : d[1] \in Mints
  BY MintAssumption DEF Sends, Deliveries

\* The machine starts in a typed state.
LEMMA InitTypeOK == Init => TypeOK
  BY MintAssumption DEF Init, TypeOK

\* A whitelist query answers yes or no.
LEMMA AnswerType ==
    ASSUME TypeOK, NEW m \in Mints, LooksUp(m)
    PROVE  Listing(m) \in Listings /\ Answer(Listing(m)) \in {"no", "yes"}
  <1>1. Listing(m) \in Listings
    BY MintAssumption DEF LooksUp, Listing, Listings, PublicMint
  <1> QED BY <1>1 DEF TypeOK, Answer

\* Every step of a request, a send, the chain, a webhook and the job keeps the
\* types.
LEMMA NextTypeOK == TypeOK /\ [Next]_vars => TypeOK'
  <1> SUFFICES ASSUME TypeOK, [Next]_vars PROVE TypeOK'
    OBVIOUS
  <1> USE DEF requestVars, sendVars, receiptVars, chainVars, hookVars,
              Goto, Step, Release, Misrecord, Hook, Job
  <1>1. CASE UNCHANGED vars
    BY <1>1 DEF vars, TypeOK
  <1>2. CASE AddWhitelisted
    BY <1>2 DEF AddWhitelisted, TypeOK
  <1>3. CASE CacheExpires
    BY <1>3 DEF CacheExpires, TypeOK
  <1>4. CASE SyncReceipts
    BY <1>4 DEF SyncReceipts, TypeOK
  <1>5. ASSUME NEW c \in Coupons, CouponStarts(c) PROVE TypeOK'
    BY <1>5 DEF CouponStarts, TypeOK
  <1>6. ASSUME NEW m \in Mints, Request(m) PROVE TypeOK'
    <2>1. CASE ValidateCouponDates(m)
      BY <2>1 DEF ValidateCouponDates, TypeOK
    <2>2. CASE ValidateMintEligibility(m)
      BY <2>2, AnswerType DEF ValidateMintEligibility, TypeOK
    <2>3. CASE ValidateMintLimit(m)
      BY <2>3 DEF ValidateMintLimit, TypeOK
    <2>4. CASE RefuseMint(m)
      BY <2>4 DEF RefuseMint, TypeOK
    <2> QED BY <1>6, <2>1, <2>2, <2>3, <2>4 DEF Request
  <1>7. ASSUME NEW m \in Mints, Chain(m) PROVE TypeOK'
    <2>1. CASE Execute(m)
      <3>1. PICK k \in 0..Mintable(m) :
               /\ minted' = [minted EXCEPT ![m] = k]
               /\ redeemed' = redeemed + k
        BY <2>1 DEF Execute
      <3>2. k \in Nat /\ redeemed + k \in 0..Supply
        <4>1. /\ ItemsOf[m] \in Nat /\ Supply \in Nat
              /\ redeemed \in 0..Supply
          BY MintAssumption DEF TypeOK
        <4>2. Mintable(m) \in Nat /\ redeemed + Mintable(m) <= Supply
          BY <4>1 DEF Mintable
        <4> QED BY <3>1, <4>1, <4>2
      <3> QED BY <2>1, <3>1, <3>2 DEF Execute, TypeOK
    <2>2. CASE Miss(m)
      BY <2>2 DEF Miss, TypeOK
    <2> QED BY <1>7, <2>1, <2>2 DEF Chain
  <1>8. ASSUME NEW s \in Sends, Send(s) PROVE TypeOK'
    <2>a. s[1] \in Mints
      BY PairsOfMints
    <2>1. CASE BeginSend(s)
      BY <2>1, <2>a DEF BeginSend, TypeOK
    <2>2. CASE SendTransaction(s)
      BY <2>2 DEF SendTransaction, TypeOK
    <2>3. CASE CreateReceipt(s)
      BY <2>3 DEF CreateReceipt, TypeOK
    <2>4. CASE FailSend(s)
      <3>1. misrecorded' \subseteq Mints
        BY <2>4, <2>a DEF FailSend, TypeOK
      <3>2. spc' \in [Sends -> {"idle", "send", "record", "done"}]
        BY <2>4 DEF FailSend, TypeOK
      <3>3. lock' \in [Wallets -> Sends \cup {NoSend}]
        BY <2>4 DEF FailSend, TypeOK
      <3> QED BY <2>4, <3>1, <3>2, <3>3 DEF FailSend, TypeOK
    <2> QED BY <1>8, <2>1, <2>2, <2>3, <2>4 DEF Send
  <1>9. ASSUME NEW s \in Sends, Sync(s) PROVE TypeOK'
    <2>1. CASE LookUp(s)
      BY <2>1 DEF LookUp, TypeOK
    <2>2. CASE SettleReceipt(s)
      BY <2>2, PairsOfMints DEF SettleReceipt, TypeOK
    <2>3. CASE FailSync(s)
      BY <2>3 DEF FailSync, TypeOK
    <2> QED BY <1>9, <2>1, <2>2, <2>3 DEF Sync
  <1>10. ASSUME NEW d \in Deliveries, Webhook(d) PROVE TypeOK'
    <2>1. CASE Deliver(d)
      BY <2>1 DEF Deliver, TypeOK
    <2>2. CASE ConfirmReceipt(d)
      <3>1. OwnerOf[WalletOf[d[1]]] \in Users \cup {NoUser}
        BY MintAssumption, PairsOfMints
      <3>2. buyer' \in [Sends -> Users \cup {NoUser}]
        BY <2>2, <3>1 DEF ConfirmReceipt, TypeOK
      <3>3. misrecorded' \subseteq Mints
        BY <2>2, PairsOfMints DEF ConfirmReceipt, TypeOK
      <3> QED BY <2>2, <3>2, <3>3 DEF ConfirmReceipt, TypeOK
    <2>3. CASE FetchCandyMachine(d)
      BY <2>3, MintAssumption DEF FetchCandyMachine, TypeOK
    <2>4. CASE CountItems(d)
      BY <2>4 DEF CountItems, TypeOK
    <2>5. CASE FailHook(d)
      BY <2>5 DEF FailHook, TypeOK
    <2> QED BY <1>10, <2>1, <2>2, <2>3, <2>4, <2>5 DEF Webhook
  <1> QED
    BY <1>1, <1>2, <1>3, <1>4, <1>5, <1>6, <1>7, <1>8, <1>9, <1>10 DEF Next

\* Every variable keeps its type, and no more items are redeemed than the
\* candy machine holds.
THEOREM TypeCorrect == Spec => []TypeOK
  <1> QED BY InitTypeOK, NextTypeOK, PTL DEF Spec

-----------------------------------------------------------------------------

\* Each variable of the requests and of the chain is written by few actions.
\* A send, the job and a webhook call change neither who was vetted nor what
\* was minted; a send alone sets a transaction on its way.
LEMMA NextVettedInv == TypeOK /\ VettedInv /\ [Next]_vars => VettedInv'
  <1> SUFFICES ASSUME TypeOK, VettedInv, [Next]_vars PROVE VettedInv'
    OBVIOUS
  <1> USE DEF requestVars, sendVars, receiptVars, chainVars, hookVars,
              Goto, Step, Release, Misrecord, Hook, Job
  \* what most actions leave alone
  <1>a. ASSUME UNCHANGED <<listed, cached, started, pc, minted, tx, spc>>
        PROVE  VettedInv'
    BY <1>a DEF VettedInv, Vetted, Listing
  <1>1. CASE UNCHANGED vars
    BY <1>1, <1>a DEF vars
  <1>2. CASE AddWhitelisted
    <2>1. listed \subseteq listed'
      BY <1>2 DEF AddWhitelisted
    <2> QED BY <1>2, <2>1 DEF AddWhitelisted, VettedInv, Vetted, Listing
  <1>3. CASE CacheExpires
    BY <1>3 DEF CacheExpires, VettedInv, Vetted, Listing, TypeOK
  <1>4. CASE SyncReceipts
    BY <1>4, <1>a DEF SyncReceipts
  <1>5. ASSUME NEW c \in Coupons, CouponStarts(c) PROVE VettedInv'
    BY <1>5 DEF CouponStarts, VettedInv, Vetted, Listing
  <1>6. ASSUME NEW m \in Mints, Request(m) PROVE VettedInv'
    <2>1. CASE ValidateCouponDates(m)
      <3>1. /\ UNCHANGED <<listed, cached, started, minted, tx, spc>>
            /\ \A p \in Mints : p # m => pc'[p] = pc[p]
            /\ pc[m] = "idle" /\ pc'[m] \in {"eligibility", "refused"}
            /\ pc'[m] = "eligibility" => CouponOf[m] \in started
        BY <2>1 DEF ValidateCouponDates, TypeOK
      <3>2. \A p \in Mints : Vetted(p) => Vetted(p)'
        BY <3>1 DEF Vetted, Listing
      <3> QED BY <3>1, <3>2, PairsOfMints DEF VettedInv
    <2>2. CASE ValidateMintEligibility(m)
      <3>1. \A l \in Listings : cached'[l] = "yes" => l \in listed
        BY <2>2, AnswerType
           DEF ValidateMintEligibility, VettedInv, TypeOK, Answer
      <3>2. Eligible(m) => Vetted(m)
        <4>1. CASE TypeOf[CouponOf[m]] \in {"PublicUser", "RegisteredUser"}
          BY <4>1 DEF Eligible, Vetted
        <4>2. CASE TypeOf[CouponOf[m]] \in {"WhitelistedUser", "WhitelistedWallet"}
          <5> SUFFICES ASSUME Eligible(m) PROVE Listing(m) \in listed
            BY <4>2 DEF Vetted
          <5>1. LooksUp(m) /\ Answer(Listing(m)) = "yes"
            BY <4>2 DEF Eligible, LooksUp
          <5>2. Listing(m) \in Listings
            BY <5>1, AnswerType
          <5> QED BY <5>1, <5>2 DEF Answer, VettedInv
        <4>3. TypeOf[CouponOf[m]] \in CouponTypes
          BY MintAssumption
        <4> QED BY <4>1, <4>2, <4>3 DEF CouponTypes
      <3>3. /\ UNCHANGED <<listed, started, minted, tx, spc>>
            /\ \A p \in Mints : p # m => pc'[p] = pc[p]
            /\ pc[m] = "eligibility" /\ pc'[m] \in {"limit", "refused"}
            /\ pc'[m] = "limit" => Eligible(m)
        BY <2>2 DEF ValidateMintEligibility, TypeOK
      <3>4. \A p \in Mints : Vetted(p) => Vetted(p)'
        BY <3>3 DEF Vetted, Listing
      <3> QED BY <3>1, <3>2, <3>3, <3>4, PairsOfMints DEF VettedInv
    <2>3. CASE ValidateMintLimit(m)
      <3>1. /\ UNCHANGED <<listed, cached, started, minted, tx, spc>>
            /\ \A p \in Mints : p # m => pc'[p] = pc[p]
            /\ pc[m] = "limit" /\ pc'[m] \in {"signed", "refused"}
        BY <2>3 DEF ValidateMintLimit, TypeOK
      <3>2. \A p \in Mints : Vetted(p) => Vetted(p)'
        BY <3>1 DEF Vetted, Listing
      <3> QED BY <3>1, <3>2, PairsOfMints DEF VettedInv
    <2>4. CASE RefuseMint(m)
      <3>1. /\ UNCHANGED <<listed, cached, started, minted, tx, spc>>
            /\ \A p \in Mints : p # m => pc'[p] = pc[p]
            /\ pc[m] # "signed" /\ pc'[m] = "refused"
        BY <2>4 DEF RefuseMint, TypeOK
      <3>2. \A p \in Mints : Vetted(p) => Vetted(p)'
        BY <3>1 DEF Vetted, Listing
      <3> QED BY <3>1, <3>2, PairsOfMints DEF VettedInv
    <2> QED BY <1>6, <2>1, <2>2, <2>3, <2>4 DEF Request
  <1>7. ASSUME NEW m \in Mints, Chain(m) PROVE VettedInv'
    BY <1>7 DEF Chain, Execute, Miss, VettedInv, Vetted, Listing, TypeOK
  <1>8. ASSUME NEW s \in Sends, Send(s) PROVE VettedInv'
    <2>0. s[1] \in Mints
      BY PairsOfMints
    <2>1. CASE BeginSend(s)
      BY <2>1 DEF BeginSend, VettedInv, Vetted, Listing, TypeOK
    <2>2. CASE SendTransaction(s)
      <3>1. UNCHANGED <<listed, cached, started, minted, pc>>
        BY <2>2 DEF SendTransaction
      <3>2. /\ pc[s[1]] = "signed"
            /\ \A p \in Mints : p # s[1] => tx'[p] = tx[p]
            /\ tx'[s[1]] # "none"
        BY <2>0, <2>2 DEF SendTransaction, VettedInv, TypeOK
      <3>3. \A r \in Sends : spc'[r] # "idle" => pc[r[1]] = "signed"
        BY <2>2 DEF SendTransaction, VettedInv, TypeOK
      <3>4. \A p \in Mints : Vetted(p) => Vetted(p)'
        BY <3>1 DEF Vetted, Listing
      <3> QED BY <2>0, <3>1, <3>2, <3>3, <3>4 DEF VettedInv
    <2>3. CASE CreateReceipt(s) \/ FailSend(s)
      BY <2>3 DEF CreateReceipt, FailSend, VettedInv, Vetted, Listing, TypeOK
    <2> QED BY <1>8, <2>1, <2>2, <2>3 DEF Send
  <1>9. ASSUME NEW s \in Sends, Sync(s) PROVE VettedInv'
    BY <1>9, <1>a DEF Sync, LookUp, SettleReceipt, FailSync
  <1>10. ASSUME NEW d \in Deliveries, Webhook(d) PROVE VettedInv'
    BY <1>10, <1>a DEF Webhook, Deliver, ConfirmReceipt, FetchCandyMachine,
                       CountItems, FailHook
  <1> QED
    BY <1>1, <1>2, <1>3, <1>4, <1>5, <1>6, <1>7, <1>8, <1>9, <1>10 DEF Next

\* Whatever is minted belongs to a request that was vetted.
THEOREM MintedWasVettedAlways == Spec => []MintedWasVetted
  <1>1. Init => VettedInv
    BY PairsOfMints DEF Init, VettedInv
  <1>2. VettedInv => MintedWasVetted
    BY DEF VettedInv, MintedWasVetted
  <1> QED BY <1>1, <1>2, NextVettedInv, TypeCorrect, PTL DEF Spec

-----------------------------------------------------------------------------

\* A transaction in a block stays in it, and whoever is about to confirm a
\* receipt has seen it there: a webhook call because it is about it, the job
\* because it asked.
LEMMA NextBlockInv == TypeOK /\ BlockInv /\ [Next]_vars => BlockInv'
  <1> SUFFICES ASSUME TypeOK, BlockInv, [Next]_vars PROVE BlockInv'
    OBVIOUS
  <1> USE DEF requestVars, sendVars, receiptVars, chainVars, hookVars,
              Goto, Step, Release, Misrecord, Hook, Job
  <1>a. ASSUME UNCHANGED <<status, tx, hook, hookSend, job>> PROVE BlockInv'
    BY <1>a DEF BlockInv, ConfirmedInBlock, InBlock
  <1>1. CASE UNCHANGED vars
    BY <1>1, <1>a DEF vars
  <1>2. CASE AddWhitelisted \/ CacheExpires
    BY <1>2, <1>a DEF AddWhitelisted, CacheExpires
  <1>3. CASE SyncReceipts
    BY <1>3 DEF SyncReceipts, BlockInv, ConfirmedInBlock, InBlock
  <1>4. ASSUME NEW c \in Coupons, CouponStarts(c) PROVE BlockInv'
    BY <1>4, <1>a DEF CouponStarts
  <1>5. ASSUME NEW m \in Mints, Request(m) PROVE BlockInv'
    BY <1>5, <1>a DEF Request, ValidateCouponDates, ValidateMintEligibility,
                      ValidateMintLimit, RefuseMint
  <1>6. ASSUME NEW m \in Mints, Chain(m) PROVE BlockInv'
    <2>1. /\ UNCHANGED <<status, hook, hookSend, job>>
          /\ \A p \in Mints : InBlock(p) => InBlock(p)'
      BY <1>6 DEF Chain, Execute, Miss, InBlock, TypeOK
    <2> QED BY <2>1, PairsOfMints DEF BlockInv, ConfirmedInBlock
  <1>7. ASSUME NEW s \in Sends, Send(s) PROVE BlockInv'
    <2>1. CASE BeginSend(s)
      BY <2>1, <1>a DEF BeginSend
    <2>2. CASE SendTransaction(s)
      <3>1. /\ UNCHANGED <<status, hook, hookSend, job>>
            /\ \A p \in Mints : InBlock(p) => InBlock(p)'
        BY <2>2, PairsOfMints DEF SendTransaction, InBlock, TypeOK
      <3> QED BY <3>1, PairsOfMints DEF BlockInv, ConfirmedInBlock
    <2>3. CASE CreateReceipt(s)
      BY <2>3 DEF CreateReceipt, BlockInv, ConfirmedInBlock, InBlock, TypeOK
    <2>4. CASE FailSend(s)
      BY <2>4, <1>a DEF FailSend
    <2> QED BY <1>7, <2>1, <2>2, <2>3, <2>4 DEF Send
  <1>8. ASSUME NEW s \in Sends, Sync(s) PROVE BlockInv'
    <2>1. CASE LookUp(s)
      BY <2>1, PairsOfMints DEF LookUp, BlockInv, ConfirmedInBlock, InBlock, TypeOK
    <2>2. CASE SettleReceipt(s)
      BY <2>2 DEF SettleReceipt, BlockInv, ConfirmedInBlock, InBlock, TypeOK
    <2>3. CASE FailSync(s)
      BY <2>3 DEF FailSync, BlockInv, ConfirmedInBlock, InBlock, TypeOK
    <2> QED BY <1>8, <2>1, <2>2, <2>3 DEF Sync
  <1>9. ASSUME NEW d \in Deliveries, Webhook(d) PROVE BlockInv'
    <2>1. CASE Deliver(d)
      BY <2>1, PairsOfMints DEF Deliver, BlockInv, ConfirmedInBlock, InBlock, TypeOK
    <2>2. CASE ConfirmReceipt(d)
      BY <2>2 DEF ConfirmReceipt, BlockInv, ConfirmedInBlock, InBlock, TypeOK
    <2>3. CASE FetchCandyMachine(d)
      BY <2>3 DEF FetchCandyMachine, BlockInv, ConfirmedInBlock, InBlock, TypeOK
    <2>4. CASE CountItems(d)
      BY <2>4 DEF CountItems, BlockInv, ConfirmedInBlock, InBlock, TypeOK
    <2>5. CASE FailHook(d)
      BY <2>5 DEF FailHook, BlockInv, ConfirmedInBlock, InBlock, TypeOK
    <2> QED BY <1>9, <2>1, <2>2, <2>3, <2>4, <2>5 DEF Webhook
  <1> QED
    BY <1>1, <1>2, <1>3, <1>4, <1>5, <1>6, <1>7, <1>8, <1>9 DEF Next

\* A Confirmed receipt has its transaction in a block.
THEOREM ConfirmedInBlockAlways == Spec => []ConfirmedInBlock
  <1>1. Init => BlockInv
    BY DEF Init, BlockInv, ConfirmedInBlock
  <1>2. BlockInv => ConfirmedInBlock
    BY DEF BlockInv
  <1> QED BY <1>1, <1>2, NextBlockInv, TypeCorrect, PTL DEF Spec

-----------------------------------------------------------------------------

\* The chain's count only grows, so a count read from it, however old when it
\* is written, is never ahead of it.
LEMMA NextCountInv == TypeOK /\ CountInv /\ [Next]_vars => CountInv'
  <1> SUFFICES ASSUME TypeOK, CountInv, [Next]_vars PROVE CountInv'
    OBVIOUS
  <1> USE DEF requestVars, sendVars, receiptVars, chainVars, hookVars,
              Goto, Step, Release, Misrecord, Hook, Job
  <1>0. redeemed \in Nat /\ itemsMinted \in Nat
    BY MintAssumption DEF TypeOK
  <1>a. ASSUME UNCHANGED <<redeemed, itemsMinted, hookRead>> PROVE CountInv'
    BY <1>a DEF CountInv, CountersNeverAhead
  <1>1. CASE UNCHANGED vars
    BY <1>1, <1>a DEF vars
  <1>2. CASE AddWhitelisted \/ CacheExpires \/ SyncReceipts
    BY <1>2, <1>a DEF AddWhitelisted, CacheExpires, SyncReceipts
  <1>3. ASSUME NEW c \in Coupons, CouponStarts(c) PROVE CountInv'
    BY <1>3, <1>a DEF CouponStarts
  <1>4. ASSUME NEW m \in Mints, Request(m) PROVE CountInv'
    BY <1>4, <1>a DEF Request, ValidateCouponDates, ValidateMintEligibility,
                      ValidateMintLimit, RefuseMint
  <1>5. ASSUME NEW m \in Mints, Chain(m) PROVE CountInv'
    <2>1. CASE Execute(m)
      <3>1. PICK k \in 0..Mintable(m) : redeemed' = redeemed + k
        BY <2>1 DEF Execute
      <3>2. Mintable(m) \in Int
        BY <1>0, MintAssumption DEF Mintable
      <3>3. redeemed' \in Nat /\ redeemed <= redeemed'
        BY <1>0, <3>1, <3>2
      <3>4. UNCHANGED <<itemsMinted, hookRead>>
        BY <2>1 DEF Execute
      <3> QED BY <1>0, <3>3, <3>4 DEF CountInv, CountersNeverAhead, TypeOK
    <2>2. CASE Miss(m)
      BY <2>2, <1>a DEF Miss
    <2> QED BY <1>5, <2>1, <2>2 DEF Chain
  <1>6. ASSUME NEW s \in Sends, Send(s) PROVE CountInv'
    BY <1>6, <1>a DEF Send, BeginSend, SendTransaction, CreateReceipt, FailSend
  <1>7. ASSUME NEW s \in Sends, Sync(s) PROVE CountInv'
    BY <1>7, <1>a DEF Sync, LookUp, SettleReceipt, FailSync
  <1>8. ASSUME NEW d \in Deliveries, Webhook(d) PROVE CountInv'
    <2>1. CASE Deliver(d) \/ ConfirmReceipt(d)
      BY <2>1, <1>a DEF Deliver, ConfirmReceipt
    <2>2. CASE FetchCandyMachine(d)
      BY <1>0, <2>2 DEF FetchCandyMachine, CountInv, CountersNeverAhead, TypeOK
    <2>3. CASE CountItems(d)
      BY <1>0, <2>3 DEF CountItems, CountInv, CountersNeverAhead, TypeOK
    <2>4. CASE FailHook(d)
      BY <1>0, <2>4 DEF FailHook, CountInv, CountersNeverAhead, TypeOK
    <2> QED BY <1>8, <2>1, <2>2, <2>3, <2>4 DEF Webhook
  <1> QED
    BY <1>1, <1>2, <1>3, <1>4, <1>5, <1>6, <1>7, <1>8 DEF Next

\* The database never announces more minted items than the chain has minted.
THEOREM CountersNeverAheadAlways == Spec => []CountersNeverAhead
  <1>1. Init => CountInv
    BY DEF Init, CountInv, CountersNeverAhead
  <1>2. CountInv => CountersNeverAhead
    BY DEF CountInv
  <1> QED BY <1>1, <1>2, NextCountInv, TypeCorrect, PTL DEF Spec

-----------------------------------------------------------------------------

\* Finitely many times finitely many items are finitely many items.
LEMMA PairsFinite ==
    ASSUME NEW S, IsFiniteSet(S), NEW n, \A x \in S : n[x] \in Int
    PROVE  IsFiniteSet(UNION {{x} \X (1..n[x]) : x \in S})
  <1> DEFINE sets == {{x} \X (1..n[x]) : x \in S}
  <1> DEFINE itemsOf == [x \in S |-> {x} \X (1..n[x])]
  <1>1. itemsOf \in Surjection(S, sets)
    BY DEF Surjection
  <1>2. IsFiniteSet(sets)
    BY <1>1, FS_Surjection
  <1>3. ASSUME NEW x \in S PROVE IsFiniteSet({x} \X (1..n[x]))
    <2>1. IsFiniteSet(1..n[x])
      <3>1. n[x] \in Int /\ 1 \in Int
        OBVIOUS
      <3> QED BY <3>1, FS_Interval
    <2>2. IsFiniteSet({x})
      BY FS_Singleton
    <2> QED BY <2>1, <2>2, FS_Product
  <1>4. \A T \in sets : IsFiniteSet(T)
    BY <1>3
  <1> QED BY <1>2, <1>4, FS_UNION

\* There are finitely many sends.
LEMMA SendsFinite == IsFiniteSet(Sends)
  <1>1. IsFiniteSet(Mints) /\ \A m \in Mints : MaxSends[m] \in Int
    BY MintAssumption
  <1> QED BY <1>1, PairsFinite DEF Sends

\* The items of one mint are as many as it has.
LEMMA OwnItems ==
    ASSUME NEW x, NEW k \in Nat
    PROVE  IsFiniteSet({x} \X (1..k)) /\ Cardinality({x} \X (1..k)) = k
  <1> DEFINE one == {x} upTo == 1..k
  <1>1. IsFiniteSet(upTo) /\ Cardinality(upTo) = k
    <2>1. 1 \in Int /\ k \in Int
      OBVIOUS
    <2>2. Cardinality(1..k) = IF 1 > k THEN 0 ELSE k - 1 + 1
      BY <2>1, FS_Interval
    <2>3. IsFiniteSet(1..k)
      BY <2>1, FS_Interval
    <2> QED BY <2>2, <2>3
  <1>2. IsFiniteSet(one) /\ Cardinality(one) = 1
    BY FS_Singleton
  <1> HIDE DEF one, upTo
  <1>3. /\ IsFiniteSet(one \X upTo)
        /\ Cardinality(one \X upTo) = Cardinality(one) * Cardinality(upTo)
    BY <1>1, <1>2, FS_Product
  <1> QED BY <1>1, <1>2, <1>3 DEF one, upTo

\* A request that passed the limit query is within the limit together with any
\* mints the query counted, however many receipts each of them had.
LEMMA CountedWithinLimit ==
    ASSUME TypeOK, NEW m \in Mints, NEW S,
           \A p \in S : \E s \in CountedSends(m) : s[1] = p,
           WithinLimit(m), Limit[CouponOf[m]] # NoLimit, m \notin S
    PROVE  ItemsAsked(S \cup {m}) <= Limit[CouponOf[m]]
  <1> DEFINE sends == {s \in CountedSends(m) : s[1] \in S}
             all == UNION {{s} \X (1..ItemsOf[s[1]]) : s \in CountedSends(m)}
             bySend == UNION {{s} \X (1..ItemsOf[s[1]]) : s \in sends}
             byMint == UNION {{p} \X (1..ItemsOf[p]) : p \in S}
             own == {m} \X (1..ItemsOf[m])
             mintOf == [x \in bySend |-> <<x[1][1], x[2]>>]
  <1>1. CountedSends(m) \subseteq Sends /\ IsFiniteSet(CountedSends(m))
    BY SendsFinite, FS_Subset DEF CountedSends
  <1>2. \A s \in CountedSends(m) : s[1] \in Mints /\ ItemsOf[s[1]] \in Nat
    BY <1>1, PairsOfMints, MintAssumption
  <1>a. IsFiniteSet(all)
    <2> DEFINE n == [s \in CountedSends(m) |-> ItemsOf[s[1]]]
    <2>1. \A s \in CountedSends(m) : n[s] = ItemsOf[s[1]] /\ n[s] \in Int
      BY <1>2
    <2>2. all = UNION {{s} \X (1..n[s]) : s \in CountedSends(m)}
      BY <2>1
    <2> HIDE DEF n, all
    <2> QED BY <1>1, <2>1, <2>2, PairsFinite
  <1>b. bySend \subseteq all
    OBVIOUS
  <1>3. IsFiniteSet(bySend) /\ Cardinality(bySend) <= Cardinality(all)
    <2> HIDE DEF bySend, all
    <2> QED BY <1>a, <1>b, FS_Subset
  <1>4. mintOf \in Surjection(bySend, byMint)
    <2>1. ASSUME NEW x \in bySend PROVE <<x[1][1], x[2]>> \in byMint
      <3>1. PICK s \in sends : x \in {s} \X (1..ItemsOf[s[1]])
        OBVIOUS
      <3>2. s[1] \in S
        OBVIOUS
      <3> QED BY <3>1, <3>2
    <2>2. ASSUME NEW y \in byMint PROVE \E x \in bySend : mintOf[x] = y
      <3>1. PICK p \in S : y \in {p} \X (1..ItemsOf[p])
        OBVIOUS
      <3>2. PICK s \in CountedSends(m) : s[1] = p
        BY <3>1
      <3>3. <<s, y[2]>> \in {s} \X (1..ItemsOf[s[1]])
        BY <3>1, <3>2
      <3>4. <<s, y[2]>> \in bySend
        BY <3>2, <3>3
      <3>5. mintOf[<<s, y[2]>>] = <<s[1], y[2]>>
        BY <3>4
      <3>6. y = <<p, y[2]>>
        BY <3>1
      <3> QED BY <3>2, <3>4, <3>5, <3>6
    <2> HIDE DEF bySend, byMint
    <2>3. mintOf \in [bySend -> byMint]
      BY <2>1
    <2> HIDE DEF mintOf
    <2> QED BY <2>2, <2>3 DEF Surjection
  <1>5. /\ IsFiniteSet(byMint)
        /\ Cardinality(byMint) <= Cardinality(bySend)
    <2> HIDE DEF bySend, byMint, mintOf
    <2> QED BY <1>3, <1>4, FS_Surjection
  <1>6. IsFiniteSet(own) /\ Cardinality(own) = ItemsOf[m]
    BY OwnItems, MintAssumption
  <1>7. byMint \cap own = {}
    OBVIOUS
  <1>8. UNION {{p} \X (1..ItemsOf[p]) : p \in S \cup {m}} = byMint \cup own
    OBVIOUS
  <1>9. Cardinality(byMint \cup own) = Cardinality(byMint) + ItemsOf[m]
    <2> HIDE DEF byMint, own
    <2>1. Cardinality(byMint) \in Nat
      BY <1>5, FS_CardinalityType
    <2>2. Cardinality(byMint \cap own) = 0
      BY <1>7, FS_EmptySet
    <2>3. Cardinality(byMint \cup own)
            = Cardinality(byMint) + Cardinality(own) - Cardinality(byMint \cap own)
      BY <1>5, <1>6, FS_Union
    <2>4. ItemsOf[m] \in Nat
      BY MintAssumption
    <2> QED BY <1>6, <2>1, <2>2, <2>3, <2>4
  <1>10. Cardinality(all) + ItemsOf[m] <= Limit[CouponOf[m]]
    BY DEF WithinLimit, ItemsOfSends
  <1>11. /\ Cardinality(bySend) \in Nat /\ Cardinality(byMint) \in Nat
         /\ Cardinality(all) \in Nat
    <2> HIDE DEF bySend, byMint, all
    <2> QED BY <1>3, <1>5, <1>a, FS_CardinalityType
  <1>12. Limit[CouponOf[m]] \in Nat /\ ItemsOf[m] \in Nat
    BY MintAssumption
  <1>13. ItemsAsked(S \cup {m}) = Cardinality(byMint) + ItemsOf[m]
    BY <1>8, <1>9 DEF ItemsAsked
  <1> HIDE DEF bySend, byMint, all
  <1> QED BY <1>3, <1>5, <1>10, <1>11, <1>12, <1>13

\* The chain mints no more of some mints than were asked for by them and others.
LEMMA MintedAtMostAsked ==
    ASSUME TypeOK, NEW S \in SUBSET Mints, NEW T \in SUBSET Mints, S \subseteq T,
           \A m \in S : minted[m] <= ItemsOf[m]
    PROVE  /\ ItemsOfMints(S) \in Nat /\ ItemsAsked(T) \in Nat
           /\ ItemsOfMints(S) <= ItemsAsked(T)
  <1> DEFINE got == UNION {{m} \X (1..minted[m]) : m \in S}
             asked == UNION {{m} \X (1..ItemsOf[m]) : m \in T}
  <1>1. IsFiniteSet(T)
    BY MintAssumption, FS_Subset
  <1>2. \A m \in T : ItemsOf[m] \in Int
    BY MintAssumption
  <1>3. IsFiniteSet(asked)
    BY <1>1, <1>2, PairsFinite
  <1>4. got \subseteq asked
    <2> SUFFICES ASSUME NEW m \in S, NEW x \in {m} \X (1..minted[m])
                 PROVE  x \in {m} \X (1..ItemsOf[m])
      OBVIOUS
    <2>1. minted[m] \in Nat /\ ItemsOf[m] \in Nat
      BY MintAssumption DEF TypeOK
    <2>2. minted[m] <= ItemsOf[m]
      OBVIOUS
    <2>3. 1..minted[m] \subseteq 1..ItemsOf[m]
      BY <2>1, <2>2
    <2> QED BY <2>3
  <1> HIDE DEF got, asked
  <1>5. /\ Cardinality(got) \in Nat /\ Cardinality(asked) \in Nat
        /\ Cardinality(got) <= Cardinality(asked)
    BY <1>3, <1>4, FS_Subset, FS_CardinalityType
  <1> QED BY <1>5 DEF ItemsOfMints, ItemsAsked, got, asked

\* Fewer mints ask for fewer items.
LEMMA AskedMonotone ==
    ASSUME NEW T \in SUBSET Mints, NEW S \in SUBSET T
    PROVE  /\ ItemsAsked(S) \in Nat /\ ItemsAsked(T) \in Nat
           /\ ItemsAsked(S) <= ItemsAsked(T)
  <1> DEFINE few == UNION {{m} \X (1..ItemsOf[m]) : m \in S}
             more == UNION {{m} \X (1..ItemsOf[m]) : m \in T}
  <1>1. IsFiniteSet(T)
    BY MintAssumption, FS_Subset
  <1>2. \A m \in T : ItemsOf[m] \in Int
    BY MintAssumption
  <1>3. IsFiniteSet(more)
    BY <1>1, <1>2, PairsFinite
  <1>4. few \subseteq more
    OBVIOUS
  <1> HIDE DEF few, more
  <1>5. /\ Cardinality(few) \in Nat /\ Cardinality(more) \in Nat
        /\ Cardinality(few) <= Cardinality(more)
    BY <1>3, <1>4, FS_Subset, FS_CardinalityType
  <1> QED BY <1>5 DEF ItemsAsked, few, more

\* While no more mints are signed, and more receipts may have gone wrong, the
\* limit stays as it was.
LEMMA LimitKept ==
    ASSUME TypeOK, LimitInv, Signed' = Signed, apart' = apart,
           misrecorded \subseteq misrecorded',
           \A m \in Mints : minted'[m] <= ItemsOf[m]
    PROVE  LimitInv'
  <1>1. \A S : Sequential(S)' <=> Sequential(S)
    BY DEF Sequential
  <1>2. \A m \in Mints : apart'[m] \subseteq Signed'
    BY DEF LimitInv
  <1>3. ASSUME NEW m \in Signed', Limit[CouponOf[m]] # NoLimit
        PROVE  ItemsAsked(Earlier(m)' \cup {m}) <= Limit[CouponOf[m]]
    <2>1. m \in Signed /\ m \in Mints /\ Limit[CouponOf[m]] \in Nat
      BY <1>3, MintAssumption DEF Signed
    <2>2. /\ Earlier(m)' \cup {m} \subseteq Earlier(m) \cup {m}
          /\ Earlier(m) \cup {m} \subseteq Mints
      BY <2>1 DEF Earlier, Alike, TypeOK
    <2>3. ItemsAsked(Earlier(m) \cup {m}) <= Limit[CouponOf[m]]
      BY <1>3, <2>1 DEF LimitInv
    <2> DEFINE now == Earlier(m)' \cup {m}
               before == Earlier(m) \cup {m}
    <2> HIDE DEF now, before
    <2>4. /\ ItemsAsked(now) \in Nat /\ ItemsAsked(before) \in Nat
          /\ ItemsAsked(now) <= ItemsAsked(before)
      BY <2>2, AskedMonotone DEF now, before
    <2> QED BY <2>1, <2>3, <2>4 DEF now, before
  <1>4. \A S \in SUBSET Signed' :
          S # {} /\ Sequential(S)' => \E m \in S : S \ {m} \subseteq apart'[m]
    BY <1>1 DEF LimitInv
  <1> QED BY <1>2, <1>3, <1>4 DEF LimitInv, ItemsAsked

\* A mint that is over, and that nothing went wrong for, has a receipt that the
\* limit query of a like one counts.
LEMMA OverIsCounted ==
    ASSUME TypeOK, RecordInv, NEW m \in Mints, NEW p \in Mints \ misrecorded,
           Over(p), Alike(p, m)
    PROVE  \E s \in CountedSends(m) : s[1] = p
  <1>1. tx[p] = "executed" /\ Recorded(p)
    BY DEF Over, RecordInv
  <1>2. PICK s \in Sends : s[1] = p /\ (spc[s] = "record" \/ status[s] # "none")
    BY <1>1 DEF Recorded
  <1>3. spc[s] # "record" /\ status[s] # "Processing"
    BY <1>2 DEF Over
  <1>4. status[s] # "none" /\ status[s] # "Failed"
    BY <1>1, <1>2, <1>3 DEF Recorded
  <1>5. status[s] = "Confirmed"
    BY <1>3, <1>4 DEF TypeOK
  <1>6. RightBuyer(p, buyer[s])
    BY <1>1, <1>2, <1>4 DEF Recorded
  <1> QED BY <1>2, <1>5, <1>6 DEF CountedSends, RightBuyer, Alike

\* When the limit query lets a mint through, the mint fits the limit with what
\* was over before it, and of any mints signed by then it is the last.
LEMMA QueryKeepsLimit ==
    ASSUME TypeOK, VettedInv, RecordInv, LimitInv,
           NEW m \in Mints, ValidateMintLimit(m)
    PROVE  LimitInv'
  <1>1. /\ pc[m] = "limit" /\ m \notin Signed
        /\ UNCHANGED <<minted, misrecorded>>
        /\ \A p \in Mints : p # m => apart'[p] = apart[p]
        /\ apart'[m] = {p \in Mints : Over(p)}
    BY DEF ValidateMintLimit, Signed, TypeOK, receiptVars, chainVars
  <1>2. /\ Signed' = IF WithinLimit(m) THEN Signed \cup {m} ELSE Signed
        /\ Signed' \subseteq Signed \cup {m} /\ Signed \subseteq Signed'
    BY DEF ValidateMintLimit, Goto, Signed, TypeOK
  <1>3. apart'[m] \subseteq Signed
    BY <1>1 DEF Over, VettedInv, Signed
  <1>4. Signed \subseteq Mints
    BY DEF Signed
  <1>6. \A p \in Mints : apart'[p] \subseteq Signed' /\ minted'[p] <= ItemsOf[p]
    BY <1>1, <1>2, <1>3 DEF LimitInv
  <1>7. ASSUME NEW p \in Signed', Limit[CouponOf[p]] # NoLimit
        PROVE  ItemsAsked(Earlier(p)' \cup {p}) <= Limit[CouponOf[p]]
    <2>1. CASE p = m
      <3>1. WithinLimit(m)
        BY <1>1, <1>2, <2>1
      <3>2. \A q \in Earlier(m)' : q \in Mints \ misrecorded /\ Over(q) /\ Alike(q, m)
        BY <1>1 DEF Earlier, Alike
      <3>3. \A q \in Earlier(m)' : \E s \in CountedSends(m) : s[1] = q
        BY <3>2, OverIsCounted
      <3>4. m \notin Earlier(m)'
        BY <1>1, <1>3 DEF Earlier
      <3> DEFINE W == Earlier(m)'
      <3> HIDE DEF W
      <3>5. ItemsAsked(W \cup {m}) <= Limit[CouponOf[m]]
        BY <1>7, <2>1, <3>1, <3>3, <3>4, CountedWithinLimit DEF W
      <3> QED BY <2>1, <3>5 DEF W
    <2>2. CASE p # m
      <3>1. p \in Signed /\ Earlier(p)' = Earlier(p)
        BY <1>1, <1>2, <1>4, <2>2 DEF Earlier, Alike
      <3> QED BY <1>7, <3>1 DEF LimitInv
    <2> QED BY <2>1, <2>2
  <1>8. ASSUME NEW S \in SUBSET Signed', S # {}, Sequential(S)'
        PROVE  \E p \in S : S \ {p} \subseteq apart'[p]
    <2>1. CASE m \in S
      <3>1. ASSUME NEW p \in S, p # m PROVE p \in apart'[m]
        <4>1. p \in Signed /\ apart'[p] = apart[p]
          BY <1>1, <1>2, <1>4, <3>1
        <4>2. m \notin apart'[p]
          BY <1>1, <1>4, <4>1 DEF LimitInv
        <4> QED BY <1>8, <2>1, <3>1, <4>2 DEF Sequential
      <3> QED BY <2>1, <3>1
    <2>2. CASE m \notin S
      <3>1. S \in SUBSET Signed /\ \A p \in S : apart'[p] = apart[p]
        BY <1>1, <1>2, <1>4, <2>2
      <3>2. Sequential(S)
        BY <1>8, <3>1 DEF Sequential
      <3>3. PICK p \in S : S \ {p} \subseteq apart[p]
        BY <1>8, <3>1, <3>2 DEF LimitInv
      <3> QED BY <3>1, <3>3
    <2> QED BY <2>1, <2>2
  <1> QED BY <1>6, <1>7, <1>8 DEF LimitInv, ItemsAsked

\* A request, a submission, the chain, the job and a webhook call keep the
\* limit: the query is the one step that signs, and no step mints more than was
\* asked for or forgets that a receipt went wrong.
LEMMA NextLimitInv ==
    TypeOK /\ VettedInv /\ RecordInv /\ LimitInv /\ [Next]_vars => LimitInv'
  <1> SUFFICES ASSUME TypeOK, VettedInv, RecordInv, LimitInv, [Next]_vars
               PROVE  LimitInv'
    OBVIOUS
  <1> USE DEF requestVars, sendVars, receiptVars, chainVars, hookVars,
              Goto, Step, Release, Misrecord, Hook, Job
  <1>a. \A m \in Mints : minted[m] <= ItemsOf[m]
    BY DEF LimitInv
  <1>b. ASSUME UNCHANGED <<pc, apart, minted>>, misrecorded \subseteq misrecorded'
        PROVE  LimitInv'
    BY <1>a, <1>b, LimitKept DEF Signed
  <1>1. CASE UNCHANGED vars
    BY <1>1, <1>b DEF vars
  <1>2. CASE AddWhitelisted \/ CacheExpires \/ SyncReceipts
    BY <1>2, <1>b DEF AddWhitelisted, CacheExpires, SyncReceipts
  <1>4. ASSUME NEW c \in Coupons, CouponStarts(c) PROVE LimitInv'
    BY <1>4, <1>b DEF CouponStarts
  <1>5. ASSUME NEW m \in Mints, Request(m) PROVE LimitInv'
    <2>1. CASE ValidateMintLimit(m)
      BY <2>1, QueryKeepsLimit
    <2>2. CASE ValidateCouponDates(m) \/ ValidateMintEligibility(m) \/ RefuseMint(m)
      <3>1. /\ UNCHANGED <<apart, minted, misrecorded>>
            /\ pc[m] # "signed" /\ pc'[m] # "signed"
            /\ \A p \in Mints : p # m => pc'[p] = pc[p]
        BY <2>2 DEF ValidateCouponDates, ValidateMintEligibility, RefuseMint, TypeOK
      <3>2. Signed' = Signed
        BY <3>1 DEF Signed
      <3> QED BY <1>a, <3>1, <3>2, LimitKept
    <2> QED BY <1>5, <2>1, <2>2 DEF Request
  <1>6. ASSUME NEW m \in Mints, Chain(m) PROVE LimitInv'
    <2>1. CASE Execute(m)
      <3>1. UNCHANGED <<pc, apart, misrecorded>>
        BY <2>1 DEF Execute
      <3>2. PICK k \in 0..Mintable(m) : minted' = [minted EXCEPT ![m] = k]
        BY <2>1 DEF Execute
      <3>3. Mintable(m) \in Int /\ Mintable(m) <= ItemsOf[m] /\ ItemsOf[m] \in Nat
        BY MintAssumption DEF Mintable, TypeOK
      <3>4. k <= ItemsOf[m]
        BY <3>2, <3>3
      <3>5. \A p \in Mints : minted'[p] <= ItemsOf[p]
        BY <1>a, <3>2, <3>4 DEF TypeOK
      <3>6. Signed' = Signed
        BY <3>1 DEF Signed
      <3> QED BY <1>a, <3>1, <3>5, <3>6, LimitKept
    <2>2. CASE Miss(m)
      BY <2>2, <1>b DEF Miss
    <2> QED BY <1>6, <2>1, <2>2 DEF Chain
  <1>7. ASSUME NEW s \in Sends, Send(s) PROVE LimitInv'
    <2>1. UNCHANGED <<pc, apart, minted>> /\ misrecorded \subseteq misrecorded'
      BY <1>7 DEF Send, BeginSend, SendTransaction, CreateReceipt, FailSend
    <2> QED BY <2>1, <1>b
  <1>8. ASSUME NEW s \in Sends, Sync(s) PROVE LimitInv'
    <2>1. UNCHANGED <<pc, apart, minted>> /\ misrecorded \subseteq misrecorded'
      BY <1>8 DEF Sync, LookUp, SettleReceipt, FailSync
    <2> QED BY <2>1, <1>b
  <1>9. ASSUME NEW d \in Deliveries, Webhook(d) PROVE LimitInv'
    <2>1. UNCHANGED <<pc, apart, minted>> /\ misrecorded \subseteq misrecorded'
      BY <1>9 DEF Webhook, Deliver, ConfirmReceipt, FetchCandyMachine,
                  CountItems, FailHook
    <2> QED BY <2>1, <1>b
  <1> QED
    BY <1>1, <1>2, <1>4, <1>5, <1>6, <1>7, <1>8, <1>9 DEF Next

\* What a step leaves of the receipts of a mint it does not touch.
LEMMA RecordKept ==
    ASSUME RecordInv, misrecorded \subseteq misrecorded',
           UNCHANGED <<tx, status, buyer>>,
           \A s \in Sends : spc'[s] = spc[s] \/ s[1] \in misrecorded'
    PROVE  \A m \in Mints \ misrecorded' : Recorded(m)'
  BY DEF RecordInv, Recorded, RightBuyer

\* A submission records its mint as it should, unless it says it went wrong.
LEMMA SendRecords ==
    ASSUME TypeOK, BlockInv, RecordInv, NEW s \in Sends, Send(s) PROVE RecordInv'
  <1> USE DEF requestVars, sendVars, receiptVars, chainVars, hookVars,
              Goto, Step, Release, Misrecord, Hook, Job
  <1>1. /\ UNCHANGED <<job, hook, hookSend>> /\ misrecorded \subseteq misrecorded'
        /\ \A r \in Sends : r # s => UNCHANGED <<spc[r], status[r], buyer[r]>>
        /\ status'[s] # "none" \/ status'[s] = status[s]
        /\ status'[s] = "Failed" => status[s] = "Failed"
    BY DEF Send, BeginSend, SendTransaction, CreateReceipt, FailSend, TypeOK
  <1>2. \A r \in Sends : job'[r] # "none" => status'[r] # "none"
    BY <1>1 DEF RecordInv
  <1>3. \A d \in Deliveries : hook'[d] = "index" => status'[hookSend'[d]] # "none"
    <2> SUFFICES ASSUME NEW d \in Deliveries, hook'[d] = "index"
                 PROVE  status'[hookSend'[d]] # "none"
      OBVIOUS
    <2>1. hookSend'[d] = hookSend[d] /\ status[hookSend[d]] # "none"
      BY <1>1 DEF RecordInv
    <2>2. hookSend[d] \in Sends
      BY <1>1 DEF BlockInv
    <2> QED BY <1>1, <2>1, <2>2
  <1>4. ASSUME NEW m \in Mints \ misrecorded' PROVE Recorded(m)'
    <2>1. Recorded(m) /\ m \in Mints
      BY <1>1 DEF RecordInv
    <2>2. \A r \in Sends : r[1] = m /\ status'[r] = "Failed" => tx'[m] = "errored"
      <3>1. tx[m] = "errored" => tx'[m] = "errored"
        BY <2>1 DEF Send, BeginSend, SendTransaction, CreateReceipt, FailSend, TypeOK
      <3> QED BY <1>1, <2>1, <3>1 DEF Recorded
    <2>3. ASSUME NEW r \in Sends, r[1] = m,
                 status'[r] # "none" \/ spc'[r] \in {"send", "record"}
          PROVE  RightBuyer(m, buyer'[r])
      <3>1. CASE r # s
        BY <1>1, <2>1, <2>3, <3>1 DEF Recorded
      <3>2. CASE r = s /\ BeginSend(s)
        BY <1>4, <2>1, <2>3, <3>2 DEF BeginSend, TypeOK, Recorded
      <3>3. CASE r = s /\ (SendTransaction(s) \/ CreateReceipt(s) \/ FailSend(s))
        <4>1. buyer' = buyer /\ spc[s] \in {"send", "record"}
          BY <3>3 DEF SendTransaction, CreateReceipt, FailSend
        <4> QED BY <2>1, <2>3, <3>3, <4>1 DEF Recorded
      <3> QED BY <3>1, <3>2, <3>3 DEF Send
    <2>4. ASSUME tx'[m] # "none"
          PROVE  \E r \in Sends :
                   r[1] = m /\ (spc'[r] = "record" \/ status'[r] # "none")
      <3>1. CASE SendTransaction(s) /\ s[1] = m
        BY <3>1 DEF SendTransaction, TypeOK
      <3>2. CASE ~(SendTransaction(s) /\ s[1] = m)
        <4>1. tx[m] # "none"
          BY <2>1, <2>4, <3>2 DEF Send, BeginSend, SendTransaction, CreateReceipt,
                                  FailSend, TypeOK
        <4>2. PICK r \in Sends :
                r[1] = m /\ (spc[r] = "record" \/ status[r] # "none")
          BY <2>1, <4>1 DEF Recorded
        <4>3. CASE r # s
          BY <1>1, <4>2, <4>3
        <4>4. CASE r = s
          BY <1>4, <3>2, <4>2, <4>4
             DEF Send, BeginSend, SendTransaction, CreateReceipt, FailSend, TypeOK
        <4> QED BY <4>3, <4>4
      <3> QED BY <3>1, <3>2
    <2> QED BY <2>2, <2>3, <2>4 DEF Recorded, RightBuyer
  <1> QED BY <1>2, <1>3, <1>4 DEF RecordInv

\* The job fails a receipt whose transaction failed, or goes wrong; the webhook
\* confirms a receipt, and gives it to another user only when it goes wrong.
LEMMA NextRecordInv ==
    TypeOK /\ BlockInv /\ RecordInv /\ [Next]_vars => RecordInv'
  <1> SUFFICES ASSUME TypeOK, BlockInv, RecordInv, [Next]_vars
               PROVE  RecordInv'
    OBVIOUS
  <1> USE DEF requestVars, sendVars, receiptVars, chainVars, hookVars,
              Goto, Step, Release, Misrecord, Hook, Job
  <1>a. ASSUME UNCHANGED <<tx, status, buyer, spc, job, hook, hookSend, misrecorded>>
        PROVE  RecordInv'
    BY <1>a, RecordKept DEF RecordInv
  <1>b. ASSUME UNCHANGED <<tx, status, buyer, spc, misrecorded>>,
               \A s \in Sends : job'[s] # "none" => status[s] # "none",
               \A d \in Deliveries : hook'[d] = "index" => status[hookSend'[d]] # "none"
        PROVE  RecordInv'
    BY <1>b, RecordKept DEF RecordInv
  <1>1. CASE UNCHANGED vars
    BY <1>1, <1>a DEF vars
  <1>2. CASE AddWhitelisted \/ CacheExpires
    BY <1>2, <1>a DEF AddWhitelisted, CacheExpires
  <1>3. CASE SyncReceipts
    <2>1. \A s \in Sends : job'[s] # "none" => status[s] # "none"
      BY <1>3 DEF SyncReceipts
    <2> QED BY <1>3, <1>b, <2>1 DEF SyncReceipts, RecordInv
  <1>4. ASSUME NEW c \in Coupons, CouponStarts(c) PROVE RecordInv'
    BY <1>4, <1>a DEF CouponStarts
  <1>5. ASSUME NEW m \in Mints, Request(m) PROVE RecordInv'
    BY <1>5, <1>a DEF Request, ValidateCouponDates, ValidateMintEligibility,
                      ValidateMintLimit, RefuseMint
  <1>6. ASSUME NEW m \in Mints, Chain(m) PROVE RecordInv'
    <2>1. /\ UNCHANGED <<status, buyer, spc, job, hook, hookSend, misrecorded>>
          /\ tx[m] = "sent" /\ \A p \in Mints : p # m => tx'[p] = tx[p]
      BY <1>6 DEF Chain, Execute, Miss, TypeOK
    <2> QED BY <2>1 DEF RecordInv, Recorded, RightBuyer
  <1>7. ASSUME NEW s \in Sends, Send(s) PROVE RecordInv'
    BY <1>7, SendRecords
  <1>8. ASSUME NEW s \in Sends, Sync(s) PROVE RecordInv'
    <2>1. CASE LookUp(s) \/ FailSync(s)
      <3>1. \A r \in Sends : job'[r] # "none" => status[r] # "none"
        BY <2>1 DEF LookUp, FailSync, TypeOK, RecordInv
      <3> QED BY <2>1, <3>1, <1>b DEF LookUp, FailSync, RecordInv
    <2>2. CASE SettleReceipt(s)
      <3>1. /\ UNCHANGED <<tx, buyer, spc, hook, hookSend>>
            /\ misrecorded \subseteq misrecorded' /\ status[s] # "none"
            /\ job[s] \in {"fail", "confirm"}
            /\ status' = [status EXCEPT ![s] =
                            IF job[s] = "confirm" THEN "Confirmed" ELSE "Failed"]
            /\ \A r \in Sends : r # s => status'[r] = status[r] /\ job'[r] = job[r]
            /\ status'[s] # "none"
            /\ status'[s] = "Failed" => tx[s[1]] = "errored" \/ s[1] \in misrecorded'
        BY <2>2 DEF SettleReceipt, TypeOK, RecordInv
      <3>2. \A r \in Sends : job'[r] # "none" => status'[r] # "none"
        BY <3>1 DEF RecordInv
      <3>3. \A d \in Deliveries : hook'[d] = "index" => status'[hookSend'[d]] # "none"
        BY <3>1, <2>2 DEF RecordInv, TypeOK
      <3>4. ASSUME NEW m \in Mints \ misrecorded' PROVE Recorded(m)'
        <4>1. Recorded(m)
          BY <3>1 DEF RecordInv
        <4> QED BY <3>1, <4>1 DEF Recorded, RightBuyer
      <3> QED BY <3>2, <3>3, <3>4 DEF RecordInv
    <2> QED BY <1>8, <2>1, <2>2 DEF Sync
  <1>9. ASSUME NEW d \in Deliveries, Webhook(d) PROVE RecordInv'
    <2>1. CASE Deliver(d)
      <3>1. \A e \in Deliveries : hook'[e] = "index" => status[hookSend'[e]] # "none"
        BY <2>1 DEF Deliver, TypeOK, RecordInv
      <3> QED BY <2>1, <3>1, <1>b DEF Deliver, RecordInv
    <2>2. CASE FetchCandyMachine(d) \/ CountItems(d) \/ FailHook(d)
      <3>1. \A e \in Deliveries : hook'[e] = "index" => status[hookSend'[e]] # "none"
        BY <2>2 DEF FetchCandyMachine, CountItems, FailHook, TypeOK, RecordInv
      <3> QED BY <2>2, <3>1, <1>b DEF FetchCandyMachine, CountItems, FailHook, RecordInv
    <2>3. CASE ConfirmReceipt(d)
      <3> DEFINE s == hookSend[d]
      <3>1. s \in Sends /\ s[1] = d[1] /\ status[s] # "none"
        BY <2>3 DEF ConfirmReceipt, BlockInv, RecordInv
      <3> HIDE DEF s
      <3>2. /\ UNCHANGED <<tx, spc, job>> /\ misrecorded \subseteq misrecorded'
            /\ status' = [status EXCEPT ![s] = "Confirmed"]
            /\ \A r \in Sends : r # s => buyer'[r] = buyer[r] /\ status'[r] = status[r]
            /\ status'[s] = "Confirmed"
            /\ \/ buyer'[s] = buyer[s]
               \/ RightBuyer(d[1], buyer'[s]) \/ d[1] \in misrecorded'
        BY <2>3, <3>1 DEF ConfirmReceipt, TypeOK, s
      <3>3. \A r \in Sends : job'[r] # "none" => status'[r] # "none"
        BY <3>2 DEF RecordInv
      <3>4. \A e \in Deliveries : hook'[e] = "index" => status'[hookSend'[e]] # "none"
        BY <2>3, <3>2 DEF ConfirmReceipt, TypeOK, RecordInv
      <3>5. ASSUME NEW m \in Mints \ misrecorded' PROVE Recorded(m)'
        <4>1. Recorded(m)
          BY <3>2 DEF RecordInv
        <4>2. \A r \in Sends : r[1] = m /\ (status'[r] # "none"
                                            \/ spc'[r] \in {"send", "record"})
                => RightBuyer(m, buyer'[r])
          BY <3>1, <3>2, <4>1, <3>5 DEF Recorded
        <4>3. \A r \in Sends : status[r] # "none" => status'[r] # "none"
          BY <3>1, <3>2
        <4> QED BY <3>1, <3>2, <4>1, <4>2, <4>3 DEF Recorded, RightBuyer
      <3> QED BY <3>3, <3>4, <3>5 DEF RecordInv
    <2> QED BY <1>9, <2>1, <2>2, <2>3 DEF Webhook
  <1> QED
    BY <1>1, <1>2, <1>3, <1>4, <1>5, <1>6, <1>7, <1>8, <1>9 DEF Next

\* Of a wallet's or user's mints of a coupon, each two of which one was over
\* before the other was requested, the chain mints no more items than the coupon
\* allows, unless a receipt of one of them went wrong.
THEOREM SequentialMintLimitAlways == Spec => []SequentialMintLimit
  <1>1. Init => VettedInv /\ BlockInv /\ RecordInv /\ LimitInv
    <2> SUFFICES ASSUME Init PROVE VettedInv /\ BlockInv /\ RecordInv /\ LimitInv
      OBVIOUS
    <2>1. VettedInv
      BY PairsOfMints DEF Init, VettedInv
    <2>2. BlockInv
      BY DEF Init, BlockInv, ConfirmedInBlock
    <2>3. Signed = {}
      BY DEF Init, Signed
    <2>4. LimitInv
      BY <2>3, MintAssumption DEF Init, LimitInv
    <2>5. RecordInv
      BY DEF Init, RecordInv, Recorded
    <2> QED BY <2>1, <2>2, <2>4, <2>5
  <1>2. TypeOK /\ VettedInv /\ LimitInv => SequentialMintLimit
    <2> SUFFICES ASSUME TypeOK, VettedInv, LimitInv,
                        NEW S \in SUBSET {p \in Mints :
                                            minted[p] > 0 /\ p \notin misrecorded},
                        Sequential(S), \A p, q \in S : Alike(p, q),
                        NEW m \in S, Limit[CouponOf[m]] # NoLimit
                 PROVE  ItemsOfMints(S) <= Limit[CouponOf[m]]
      BY DEF SequentialMintLimit
    <2>1. S \in SUBSET Signed
      BY DEF VettedInv, Signed
    <2>2. PICK last \in S : S \ {last} \subseteq apart[last]
      BY <2>1 DEF LimitInv
    <2>3. CouponOf[last] = CouponOf[m]
      BY DEF Alike
    <2> DEFINE T == Earlier(last) \cup {last}
    <2>4. ItemsAsked(T) <= Limit[CouponOf[m]]
      BY <2>1, <2>3 DEF LimitInv
    <2>5. S \subseteq T
      BY <2>2 DEF Earlier
    <2>6. /\ T \in SUBSET Mints /\ S \in SUBSET Mints
          /\ \A p \in S : minted[p] <= ItemsOf[p]
      BY <2>1 DEF LimitInv, Signed, Earlier, TypeOK
    <2>7. Limit[CouponOf[m]] \in Nat
      BY <2>6, MintAssumption
    <2> HIDE DEF T
    <2>8. /\ ItemsOfMints(S) \in Nat /\ ItemsAsked(T) \in Nat
          /\ ItemsOfMints(S) <= ItemsAsked(T)
      BY <2>5, <2>6, MintedAtMostAsked
    <2> QED BY <2>4, <2>7, <2>8
  <1> QED
    BY <1>1, <1>2, TypeCorrect, NextVettedInv, NextBlockInv, NextRecordInv,
       NextLimitInv, PTL DEF Spec
=============================================================================
