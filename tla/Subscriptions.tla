--------------------------- MODULE Subscriptions ---------------------------
(***************************************************************************)
(* The addresses Helius calls back about.  The list is kept by Helius:     *)
(* whoever adds or removes an address reads the whole list and writes it   *)
(* back, and the sync-webhook command writes the list it collected from    *)
(* the database.  An action is the code between two awaits.                *)
(***************************************************************************)
EXTENDS Integers

CONSTANTS
    Subscribers,        \* bound: the calls, jobs and commands of a behaviour
    MachineAddresses,
    AssetAddresses,
    NoAddress

Addresses == MachineAddresses \cup AssetAddresses

ASSUME SubscriptionsAssumption ==
    NoAddress \notin Addresses /\ MachineAddresses \cap AssetAddresses = {}

VARIABLES
    accountAddresses,   \* the list of the webhook
    recorded,           \* addresses with a row
    finished,           \* burned assets and sold out machines
    sop,                \* what each subscriber does
    spc,                \* where it is
    about,              \* the address it is about
    collected,          \* the list it read, or collected
    newcomers,          \* history: addresses recorded or listed since then
    unheard             \* history: addresses dropped, or never added, by a fault or a race

subscriptionVars == <<accountAddresses, recorded, finished, sop, spc, about, collected,
                      newcomers, unheard>>

SubscriptionsTypeOK ==
    /\ accountAddresses \subseteq Addresses
    /\ recorded \subseteq Addresses /\ finished \subseteq recorded
    /\ sop \in [Subscribers -> {"none", "index", "mint", "collection", "burn", "soldOut", "sync"}]
    /\ spc \in [Subscribers -> {"idle", "row", "read", "write", "machines", "done"}]
    /\ about \in [Subscribers -> Addresses \cup {NoAddress}]
    /\ collected \in [Subscribers -> SUBSET Addresses]
    /\ newcomers \in [Subscribers -> SUBSET Addresses]
    /\ unheard \subseteq Addresses

SubscriptionsInit ==
    /\ recorded \in SUBSET MachineAddresses
    /\ accountAddresses = recorded
    /\ finished = {} /\ unheard = {}
    /\ sop = [r \in Subscribers |-> "none"]
    /\ spc = [r \in Subscribers |-> "idle"]
    /\ about = [r \in Subscribers |-> NoAddress]
    /\ collected = [r \in Subscribers |-> {}]
    /\ newcomers = [r \in Subscribers |-> {}]

\* addresses that everyone who already read the list does not know of
Arrive(addresses) ==
    newcomers' = [q \in Subscribers |-> IF spc[q] \in {"write", "machines"}
                                          THEN newcomers[q] \cup addresses ELSE {}]

Reaches(r, stage) == spc' = [spc EXCEPT ![r] = stage]

Begins(r, kind, a, stage) ==
    /\ spc[r] = "idle"
    /\ sop' = [sop EXCEPT ![r] = kind]
    /\ about' = [about EXCEPT ![r] = a]
    /\ Reaches(r, stage)
    /\ UNCHANGED <<accountAddresses, recorded, finished, collected, newcomers, unheard>>

-----------------------------------------------------------------------------
\* createComicIssueCM, once per machine
MachineCreated(r) == \E a \in MachineAddresses \ recorded : Begins(r, "mint", a, "row")

\* indexCoreAssets, reIndexAsset, wallet and cron syncs: again for an asset that
\* already has a row
AssetIndexed(r) == \E a \in AssetAddresses : Begins(r, "index", a, "row")

\* createOneOfOneCollectionAsset and the other one of ones subscribe first
OneOfOneCreated(r) ==
    \E a \in AssetAddresses \ recorded : Begins(r, "collection", a, "read")

\* handleAssetBurn
AssetBurned(r) == \E a \in AssetAddresses \cap recorded : Begins(r, "burn", a, "row")

\* handleCoreCollectibleComicMintEvent and indexCoreAsset, no item remaining
SoldOut(r) == \E a \in MachineAddresses \cap recorded : Begins(r, "soldOut", a, "row")

\* collectAddresses: the assets that are not burned are found first
SyncWebhook(r) ==
    /\ spc[r] = "idle"
    /\ sop' = [sop EXCEPT ![r] = "sync"]
    /\ collected' = [collected EXCEPT ![r] = (recorded \ finished) \cap AssetAddresses]
    /\ newcomers' = [newcomers EXCEPT ![r] = accountAddresses \ recorded]
    /\ Reaches(r, "machines")
    /\ UNCHANGED <<accountAddresses, recorded, finished, about, unheard>>

\* ... then the machines with items remaining.
CollectMachines(r) ==
    /\ spc[r] = "machines"
    /\ collected' = [collected EXCEPT ![r] =
                       @ \cup ((recorded \ finished) \cap MachineAddresses)]
    /\ Reaches(r, "write")
    /\ UNCHANGED <<accountAddresses, recorded, finished, sop, about, newcomers, unheard>>

-----------------------------------------------------------------------------
Removes(r) == sop[r] \in {"burn", "soldOut"}

RecordRow(r) ==
    /\ spc[r] = "row"
    /\ recorded' = recorded \cup {about[r]}
    /\ finished' = IF Removes(r) THEN finished \cup {about[r]} ELSE finished
    /\ Arrive({about[r]} \ recorded)
    /\ Reaches(r, IF sop[r] = "collection" THEN "done" ELSE "read")
    /\ UNCHANGED <<accountAddresses, sop, about, collected, unheard>>

RowFails(r) ==
    /\ spc[r] = "row"
    /\ Reaches(r, "done")
    /\ UNCHANGED <<accountAddresses, recorded, finished, sop, about, collected, newcomers, unheard>>

\* findOne
ReadList(r) ==
    /\ spc[r] = "read"
    /\ collected' = [collected EXCEPT ![r] = accountAddresses]
    /\ Reaches(r, "write")
    /\ UNCHANGED <<accountAddresses, recorded, finished, sop, about, newcomers, unheard>>

\* Mutant: the new address is written alone.
ListToWriteOwn(r) ==
    CASE sop[r] = "sync" -> collected[r]
      [] Removes(r) -> collected[r] \ {about[r]}
      [] OTHER -> {about[r]}

\* What subscribeTo, removeSubscription and the command write.
ListToWrite(r) ==
    CASE sop[r] = "sync" -> collected[r]
      [] Removes(r) -> collected[r] \ {about[r]}
      [] OTHER -> collected[r] \cup {about[r]}

\* updateWebhook
WriteList(r) ==
    /\ spc[r] = "write"
    /\ accountAddresses' = ListToWrite(r)
    /\ unheard' = (unheard \cup newcomers[r]) \ ListToWrite(r)
    /\ Arrive(ListToWrite(r) \ accountAddresses)
    /\ Reaches(r, IF sop[r] = "collection" THEN "row" ELSE "done")
    /\ UNCHANGED <<recorded, finished, sop, about, collected>>

\* Helius does not answer, and an error is logged ...
HeliusFails(r) ==
    /\ spc[r] \in {"read", "write"} /\ sop[r] # "soldOut"
    /\ unheard' = IF sop[r] \in {"sync", "burn"} THEN unheard
                  ELSE unheard \cup ({about[r]} \ accountAddresses)
    /\ Reaches(r, IF sop[r] = "collection" THEN "row" ELSE "done")
    /\ UNCHANGED <<accountAddresses, recorded, finished, sop, about, collected, newcomers>>

\* ... but nobody awaits the removal of a machine: its rejection ends the process,
\* and with it what the other subscribers were about to do.  A command has a
\* process of its own.
RemovalRejected(r) ==
    /\ spc[r] \in {"read", "write"} /\ sop[r] = "soldOut"
    /\ \E dead \in SUBSET {q \in Subscribers : spc[q] \notin {"idle", "done"}} :
         /\ r \in dead
         /\ \A q \in Subscribers : sop[q] # "sync" /\ spc[q] \notin {"idle", "done"} => q \in dead
         /\ spc' = [q \in Subscribers |-> IF q \in dead THEN "done" ELSE spc[q]]
         /\ unheard' = unheard \cup ({about[q] : q \in {p \in dead :
                          ~Removes(p) /\ sop[p] # "sync"}} \ accountAddresses)
    /\ UNCHANGED <<accountAddresses, recorded, finished, sop, about, collected, newcomers>>

SubscriberStep(r) ==
    \/ MachineCreated(r) \/ AssetIndexed(r) \/ OneOfOneCreated(r) \/ AssetBurned(r)
    \/ SoldOut(r) \/ SyncWebhook(r) \/ CollectMachines(r)
    \/ RecordRow(r) \/ RowFails(r) \/ ReadList(r) \/ WriteList(r)
    \/ HeliusFails(r) \/ RemovalRejected(r)

SubscriptionsNext == \E r \in Subscribers : SubscriberStep(r)

SubscriptionsSpec == SubscriptionsInit /\ [][SubscriptionsNext]_subscriptionVars

-----------------------------------------------------------------------------
\* With no subscriber at work, Helius calls back about every asset that exists and
\* every machine that sells, but for addresses whose own subscription failed and
\* those dropped by a write of a list read before they were added.
Listening ==
    (\A r \in Subscribers : spc[r] \in {"idle", "done"})
        => recorded \ finished \subseteq accountAddresses \cup unheard
=============================================================================
