------------------------ MODULE Subscriptions_proofs ------------------------
(* Theorems about the webhook's list, for any addresses and any number of      *)
(* calls, jobs and commands.                                                   *)
EXTENDS Subscriptions, TLAPS

Busy == {r \in Subscribers : spc[r] \notin {"idle", "done"}}

\* Whoever is not a command is about an address, and reads the list; only commands
\* collect it.
Placed ==
    \A r \in Busy :
        /\ sop[r] # "sync" => about[r] \in Addresses
        /\ sop[r] # "none"
        /\ spc[r] = "machines" => sop[r] = "sync"
        /\ spc[r] \in {"row", "read"} => sop[r] # "sync"

\* What is removed from the list is finished.
RemovedFinished ==
    \A r \in Subscribers : spc[r] \in {"read", "write"} /\ Removes(r) => about[r] \in finished

\* What a list that was read or collected no longer knows is finished, or known to be
\* a newcomer to it; machines are still to be collected.
ListsKnow ==
    \A r \in Subscribers : spc[r] \in {"write", "machines"} =>
        \A a \in accountAddresses :
            \/ a \in collected[r] \cup newcomers[r] \cup finished
            \/ spc[r] = "machines" /\ a \in MachineAddresses \cap recorded

\* A one of one is subscribed to before its row exists.
SubscribedFirst ==
    \A r \in Subscribers : spc[r] = "row" /\ sop[r] = "collection" =>
        about[r] \in accountAddresses \cup unheard \cup finished

\* A request that recorded an address and is about to add it to the list
Adds(r, a) ==
    about[r] = a /\ sop[r] \in {"index", "mint"} /\ spc[r] \in {"read", "write"}

\* An address nobody hears of is one that somebody is about to add.
AddressesHeard ==
    \A a \in recorded \ finished :
        a \in accountAddresses \cup unheard \/ \E r \in Subscribers : Adds(r, a)

ListInv ==
    SubscriptionsTypeOK /\ Placed /\ RemovedFinished /\ ListsKnow /\ SubscribedFirst /\ AddressesHeard

-----------------------------------------------------------------------------
\* Every step keeps the types and the place of each subscriber.
LEMMA NextSubscriptionsType ==
    ASSUME ListInv, [SubscriptionsNext]_subscriptionVars
    PROVE  SubscriptionsTypeOK' /\ Placed'
  <1> USE DEF ListInv, SubscriptionsTypeOK, Placed, Busy, Reaches, Begins, Arrive, Addresses
  <1>1. CASE UNCHANGED subscriptionVars
    BY <1>1 DEF subscriptionVars
  <1>2. ASSUME NEW r \in Subscribers, SubscriberStep(r)
        PROVE  SubscriptionsTypeOK' /\ Placed'
    <2> USE SubscriptionsAssumption
    <2>1. CASE MachineCreated(r)
      BY <2>1 DEF MachineCreated
    <2>2. CASE AssetIndexed(r)
      BY <2>2 DEF AssetIndexed
    <2>3. CASE OneOfOneCreated(r)
      BY <2>3 DEF OneOfOneCreated
    <2>4. CASE AssetBurned(r)
      BY <2>4 DEF AssetBurned
    <2>5. CASE SoldOut(r)
      BY <2>5 DEF SoldOut
    <2>6. CASE SyncWebhook(r)
      BY <2>6 DEF SyncWebhook
    <2>7. CASE CollectMachines(r)
      BY <2>7 DEF CollectMachines
    <2>8. CASE RecordRow(r)
      BY <2>8 DEF RecordRow, Removes
    <2>9. CASE RowFails(r)
      BY <2>9 DEF RowFails
    <2>10. CASE ReadList(r)
      BY <2>10 DEF ReadList
    <2>11. CASE WriteList(r)
      BY <2>11 DEF WriteList, ListToWrite, Removes
    <2>12. CASE HeliusFails(r)
      BY <2>12 DEF HeliusFails
    <2>13. CASE RemovalRejected(r)
      BY <2>13 DEF RemovalRejected, Removes
    <2> QED BY <1>2, <2>1, <2>2, <2>3, <2>4, <2>5, <2>6, <2>7, <2>8, <2>9, <2>10,
              <2>11, <2>12, <2>13 DEF SubscriberStep
  <1> QED BY <1>1, <1>2 DEF SubscriptionsNext

\* Every step keeps that an address nobody hears of is about to be added.
LEMMA NextHeard ==
    ASSUME ListInv, [SubscriptionsNext]_subscriptionVars, SubscriptionsTypeOK'
    PROVE  RemovedFinished' /\ ListsKnow' /\ SubscribedFirst' /\ AddressesHeard'
  <1> DEFINE Kept == RemovedFinished /\ ListsKnow /\ SubscribedFirst /\ AddressesHeard
  <1> USE DEF ListInv, SubscriptionsTypeOK, Placed, Busy, RemovedFinished, ListsKnow,
              SubscribedFirst, AddressesHeard, Adds, Reaches, Begins, Arrive, Removes
  <1>1. CASE UNCHANGED subscriptionVars
    BY <1>1 DEF subscriptionVars
  <1>2. ASSUME NEW r \in Subscribers, SubscriberStep(r) PROVE Kept'
    <2>1. CASE MachineCreated(r)
      BY <2>1 DEF MachineCreated
    <2>2. CASE AssetIndexed(r)
      BY <2>2 DEF AssetIndexed
    <2>3. CASE OneOfOneCreated(r)
      BY <2>3 DEF OneOfOneCreated
    <2>4. CASE AssetBurned(r)
      BY <2>4 DEF AssetBurned
    <2>5. CASE SoldOut(r)
      BY <2>5 DEF SoldOut
    <2>6. CASE SyncWebhook(r)
      BY <2>6, SubscriptionsAssumption DEF SyncWebhook, Addresses
    <2>7. CASE CollectMachines(r)
      BY <2>7 DEF CollectMachines
    <2>8. CASE RecordRow(r)
      BY <2>8 DEF RecordRow
    <2>9. CASE RowFails(r)
      BY <2>9 DEF RowFails
    <2>10. CASE ReadList(r)
      BY <2>10 DEF ReadList
    <2>11. CASE WriteList(r)
      BY <2>11 DEF WriteList, ListToWrite
    <2>12. CASE HeliusFails(r)
      BY <2>12 DEF HeliusFails
    <2>13. CASE RemovalRejected(r)
      BY <2>13 DEF RemovalRejected
    <2> QED BY <1>2, <2>1, <2>2, <2>3, <2>4, <2>5, <2>6, <2>7, <2>8, <2>9, <2>10,
              <2>11, <2>12, <2>13 DEF SubscriberStep
  <1> QED BY <1>1, <1>2 DEF SubscriptionsNext

LEMMA SubscriptionsInitInv == SubscriptionsInit => ListInv
  BY SubscriptionsAssumption DEF SubscriptionsInit, ListInv, SubscriptionsTypeOK, Placed, Busy,
     RemovedFinished, ListsKnow, SubscribedFirst, AddressesHeard, Adds, Removes, Addresses

\* The inductive invariant of the list.
THEOREM ListInvariance == SubscriptionsSpec => []ListInv
  <1>1. ListInv /\ [SubscriptionsNext]_subscriptionVars => ListInv'
    BY NextSubscriptionsType, NextHeard DEF ListInv
  <1> QED BY SubscriptionsInitInv, <1>1, PTL DEF SubscriptionsSpec

\* Lists, rows and subscribers are well typed.
THEOREM SubscriptionsTypeCorrect == SubscriptionsSpec => []SubscriptionsTypeOK
  BY ListInvariance, PTL DEF ListInv

\* With no subscriber at work, Helius calls back about every asset that exists and every
\* machine that sells, but for those a fault or a lost update explains.
THEOREM ListeningAlways == SubscriptionsSpec => []Listening
  <1>1. ListInv => Listening
    BY DEF ListInv, AddressesHeard, Adds, Listening
  <1> QED BY ListInvariance, <1>1, PTL
=============================================================================
