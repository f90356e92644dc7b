---------------------------- MODULE Collectibles ----------------------------
(***************************************************************************)
(* One comic asset on chain and its rows: the owner, and whether the comic *)
(* is used (unwrapped) and signed, which on chain is the uri of one of     *)
(* four metadata.  Owners transfer and unwrap it, its creator signs it     *)
(* from Discord, the webhook reports what happened, and jobs and commands  *)
(* copy what the chain says.                                               *)
(*                                                                         *)
(* An action is the code between two awaits.  Transactions and webhooks    *)
(* arrive in any order; a webhook may come twice or not at all.            *)
(***************************************************************************)
EXTENDS Integers, FiniteSets

CONSTANTS
    AssetRequests,  \* bound: the requests of a behaviour
    Holders,        \* wallets of users, one each
    MaxEvents,      \* bound: changes of the asset on chain
    NoRow           \* no rows, no snapshot

Uris == [used : BOOLEAN, signed : BOOLEAN]
AssetState == [owner : Holders, uri : Uris]

ASSUME CollectiblesAssumption ==
    MaxEvents \in Nat /\ Holders # {} /\ NoRow \notin AssetState

VARIABLES
    asset,      \* on chain: see AssetState
    assetRow,   \* rows DigitalAsset and CollectibleComic: the same, or NoRow
    locked,     \* the collection is one of LOCKED_COLLECTIONS
    inFlight,   \* transactions sent: [base, uri], base the uri they were built on
    webhooks,   \* events sent and not answered: [id, kind, value]
    events,     \* history: changes of the asset on chain
    heard,      \* history: the last of them a webhook reported to the row
    ajob,       \* requests and handlers: what each does, where it is, what it read
    strayed,    \* history: something happened the code does not order; see RowAgrees
    gained,     \* history: the traits the asset has had
    clobbered   \* history: a transaction landed on another uri than it was built on

assetVars == <<asset, assetRow, locked, inFlight, webhooks, events, heard, ajob, strayed,
               gained, clobbered>>

Plain == [used |-> FALSE, signed |-> FALSE]
TraitsOf(uri) == {t \in {"used", "signed"} : uri[t]}

\* alone: nothing else has happened to the asset or its rows since the request began.
Resting == [stage |-> "idle", kind |-> "none", holder |-> NoRow, read |-> NoRow, alone |-> TRUE]

CollectiblesTypeOK ==
    /\ asset \in AssetState /\ assetRow \in AssetState \cup {NoRow}
    /\ {locked, strayed, clobbered} \subseteq BOOLEAN
    /\ events \in 0..MaxEvents /\ heard \in 0..events
    /\ inFlight \subseteq [base : Uris, uri : Uris]
    /\ \A w \in webhooks : w.id \in 0..events /\ w.kind \in {"mint", "transfer", "state"}
    /\ \A r \in AssetRequests :
         /\ ajob[r].stage \in {"idle", "row", "chain", "write", "send", "index", "done"}
         /\ ajob[r].read \in AssetState \cup {NoRow}
    /\ gained \subseteq {"used", "signed"}

\* Just minted, the webhook of the mint on its way: or some time later, all of it told.
CollectiblesInit ==
    /\ \E h \in Holders, uri \in Uris : asset = [owner |-> h, uri |-> uri]
    /\ \/ assetRow = asset /\ webhooks = {}
       \/ /\ assetRow = NoRow /\ asset.uri = Plain
          /\ webhooks = {[id |-> 0, kind |-> "mint", value |-> NoRow]}
    /\ locked \in BOOLEAN
    /\ inFlight = {} /\ events = 0 /\ heard = 0
    /\ ajob = [r \in AssetRequests |-> Resting]
    /\ strayed = FALSE /\ gained = TraitsOf(asset.uri) /\ clobbered = FALSE

-----------------------------------------------------------------------------
(* What a step does to the requests under way, and to the histories.        *)

Going(r) == ajob[r].stage \notin {"idle", "done"}
Quiet == webhooks = {} /\ inFlight = {} /\ \A r \in AssetRequests : ~Going(r)

\* Every other request stops being alone.
Disturbed(jobs, r) ==
    [q \in AssetRequests |-> IF q = r THEN jobs[q] ELSE [jobs[q] EXCEPT !.alone = FALSE]]
Step(r, job) == ajob' = [ajob EXCEPT ![r] = job]
StepAndWrite(r, job) == ajob' = Disturbed([ajob EXCEPT ![r] = job], r)
Finished(r) == [ajob[r] EXCEPT !.stage = "done"]

Begin(r, kind, holder, stage, read) ==
    /\ ajob[r].stage = "idle"
    /\ StepAndWrite(r, [stage |-> stage, kind |-> kind, holder |-> holder, read |-> read,
                        alone |-> Quiet])

\* The row as a request leaves it.  One that was not alone may have written
\* over what it did not see.
RowBecomes(r, row) ==
    /\ assetRow' = row
    /\ strayed' = (strayed \/ (~ajob[r].alone /\ row # assetRow))

-----------------------------------------------------------------------------
(* The chain.                                                               *)

ChainChange(kind, state, value) ==
    /\ events < MaxEvents
    /\ events' = events + 1
    /\ asset' = state
    /\ gained' = gained \cup TraitsOf(state.uri)
    /\ webhooks' = webhooks \cup {[id |-> events + 1, kind |-> kind, value |-> value]}
    /\ ajob' = [r \in AssetRequests |-> [ajob[r] EXCEPT !.alone = FALSE]]

\* An owner sends the asset to another wallet, on any application.
TransferAsset(h) ==
    /\ h # asset.owner
    /\ ChainChange("transfer", [asset EXCEPT !.owner = h], h)
    /\ UNCHANGED <<assetRow, locked, inFlight, heard, strayed, clobbered>>

\* The update authority writes the uri whatever the asset has by then.
Land(tx) ==
    /\ tx \in inFlight
    /\ inFlight' = inFlight \ {tx}
    /\ ChainChange("state", [asset EXCEPT !.uri = tx.uri], tx.uri)
    /\ clobbered' = (clobbered \/ tx.base # asset.uri)
    /\ UNCHANGED <<assetRow, locked, heard, strayed>>

\* The block hash or the nonce is no longer good.
Expire(tx) ==
    /\ tx \in inFlight
    /\ inFlight' = inFlight \ {tx}
    /\ strayed' = TRUE
    /\ UNCHANGED <<asset, assetRow, locked, webhooks, events, heard, ajob, gained, clobbered>>

-----------------------------------------------------------------------------
(* The webhook.                                                             *)

\* A transfer told as if it were a listing: the owner stays.
ReportedState(row, w) ==
    IF row = NoRow \/ w.kind = "transfer" THEN row ELSE [row EXCEPT !.uri = w.value]

\* handleAssetTransfer and handleChangeCoreCollectibleComicState write what
\* the instruction says; without a row the update throws, and is caught.
Reported(row, w) ==
    IF row = NoRow THEN row
    ELSE IF w.kind = "transfer" THEN [row EXCEPT !.owner = w.value]
    ELSE [row EXCEPT !.uri = w.value]

HandleEvent(w, again) ==
    /\ w \in webhooks /\ w.kind # "mint"
    /\ assetRow' = Reported(assetRow, w)
    /\ heard' = IF w.id > heard THEN w.id ELSE heard
    /\ strayed' = (strayed \/ assetRow = NoRow \/ w.id \notin {heard, heard + 1})
    /\ webhooks' = IF again THEN webhooks ELSE webhooks \ {w}
    /\ ajob' = [r \in AssetRequests |-> [ajob[r] EXCEPT !.alone = FALSE]]
    /\ UNCHANGED <<asset, locked, inFlight, events, gained, clobbered>>

LoseEvent(w) ==
    /\ w \in webhooks
    /\ webhooks' = webhooks \ {w}
    /\ strayed' = TRUE
    /\ UNCHANGED <<asset, assetRow, locked, inFlight, events, heard, ajob, gained, clobbered>>

\* handleCoreCollectibleComicMintEvent: indexCoreAssets reads the asset, then
\* writes what it read.  The handler is taken by a request of its own.
HandleMint(r, w) ==
    /\ w \in webhooks /\ w.kind = "mint"
    /\ ajob[r].stage = "idle"
    /\ webhooks' = webhooks \ {w}
    /\ ajob' = Disturbed([ajob EXCEPT ![r] =
                   [stage |-> "index", kind |-> "mint", holder |-> NoRow, read |-> asset,
                    alone |-> webhooks = {w} /\ inFlight = {}
                              /\ \A q \in AssetRequests : ~Going(q)]], r)
    /\ UNCHANGED <<asset, assetRow, locked, inFlight, events, heard, strayed, gained, clobbered>>

\* indexCoreAssets: an update leaves the owner, only a new row has one.
IndexMinted(r) ==
    /\ ajob[r].stage = "index" /\ ajob[r].kind = "mint"
    /\ RowBecomes(r, IF assetRow = NoRow THEN ajob[r].read
                     ELSE [assetRow EXCEPT !.uri = ajob[r].read.uri])
    /\ StepAndWrite(r, Finished(r))
    /\ UNCHANGED <<asset, locked, inFlight, webhooks, events, heard, gained, clobbered>>

-----------------------------------------------------------------------------
(* Unwrapping.                                                              *)

\* unwrapComic of the user of wallet h: the row and its owner.
unwrapComic(r, h) ==
    /\ assetRow # NoRow
    /\ Begin(r, "unwrap", h, "chain", assetRow)
    /\ UNCHANGED <<asset, assetRow, locked, inFlight, webhooks, events, heard, strayed,
                   gained, clobbered>>

\* The caller owns the row and the chain agrees; the row's traits are not looked at.
MayUnwrap(r) == ajob[r].read.owner = ajob[r].holder /\ asset.owner = ajob[r].read.owner

FetchToUnwrap(r) ==
    /\ ajob[r].stage = "chain" /\ ajob[r].kind = "unwrap"
    /\ IF MayUnwrap(r)
       THEN Step(r, [ajob[r] EXCEPT !.stage = "write", !.read = asset])
       ELSE Step(r, Finished(r))
    /\ UNCHANGED <<asset, assetRow, locked, inFlight, webhooks, events, heard, strayed,
                   gained, clobbered>>

\* The metadata of an unwrapped comic, never a signed one.
UnwrappedPlain(r) == [used |-> TRUE, signed |-> FALSE]

\* The metadata that is used and as signed as the chain said.
UnwrappedUri(r) == [ajob[r].read.uri EXCEPT !.used = TRUE]

\* The row says unwrapped before the transaction is sent.
WriteUnwrapped(r) ==
    /\ ajob[r].stage = "write" /\ ajob[r].kind = "unwrap"
    /\ RowBecomes(r, [assetRow EXCEPT !.uri = UnwrappedUri(r)])
    /\ StepAndWrite(r, [ajob[r] EXCEPT !.stage = "send"])
    /\ UNCHANGED <<asset, locked, inFlight, webhooks, events, heard, gained, clobbered>>

\* What a request sends, and what it becomes.  The send may throw.
Send(r, uri) ==
    /\ StepAndWrite(r, Finished(r))
    /\ \/ inFlight' = inFlight \cup {[base |-> ajob[r].read.uri, uri |-> uri]}
          /\ UNCHANGED strayed
       \/ inFlight' = inFlight /\ strayed' = TRUE
    /\ UNCHANGED <<asset, assetRow, locked, webhooks, events, heard, gained, clobbered>>

SendUnwrapped(r) ==
    /\ ajob[r].stage = "send" /\ ajob[r].kind = "unwrap"
    /\ Send(r, UnwrappedUri(r))

-----------------------------------------------------------------------------
(* Signing: the creator of the comic presses the button.                    *)

\* onSignButtonClicked: refused when the row is signed; in a locked collection
\* only the row is written, in another step; else signComic reads the chain.
onSignButtonClicked(r) ==
    /\ assetRow # NoRow /\ ~assetRow.uri.signed
    /\ Begin(r, "sign", NoRow, IF locked THEN "write" ELSE "chain", assetRow)
    /\ UNCHANGED <<asset, assetRow, locked, inFlight, webhooks, events, heard, strayed,
                   gained, clobbered>>

SignedUri(r) == [ajob[r].read.uri EXCEPT !.signed = TRUE]

\* From here the row is not what the chain says, and is not meant to be.
SignLocked(r) ==
    /\ ajob[r].stage = "write" /\ ajob[r].kind = "sign"
    /\ assetRow' = [assetRow EXCEPT !.uri = SignedUri(r)]
    /\ strayed' = TRUE
    /\ StepAndWrite(r, Finished(r))
    /\ UNCHANGED <<asset, locked, inFlight, webhooks, events, heard, gained, clobbered>>

\* signComic: COMIC_ALREADY_SIGNED, or the transaction for the creator's key.
signComic(r) ==
    /\ ajob[r].stage = "chain" /\ ajob[r].kind = "sign"
    /\ IF asset.uri.signed
       THEN Step(r, Finished(r))
       ELSE Step(r, [ajob[r] EXCEPT !.stage = "send", !.read = asset])
    /\ UNCHANGED <<asset, assetRow, locked, inFlight, webhooks, events, heard, strayed,
                   gained, clobbered>>

SendSigned(r) ==
    /\ ajob[r].stage = "send" /\ ajob[r].kind = "sign"
    /\ Send(r, SignedUri(r))

-----------------------------------------------------------------------------
(* Copying what the chain says.                                             *)

\* The weekly job and sync-core-assets read a page of the collection; /wallet
\* sync reads what wallet h owns, which need not be this asset.
getAssets(r, kind, h) ==
    /\ kind = "wallet" => asset.owner = h
    /\ Begin(r, kind, h, IF kind = "wallet" THEN "index" ELSE "row", asset)
    /\ UNCHANGED <<asset, assetRow, locked, inFlight, webhooks, events, heard, strayed,
                   gained, clobbered>>

\* fetchAssetsAndSync: the rows of the collection, against the page read before.
CompareRow(r) ==
    /\ ajob[r].stage = "row"
    /\ Step(r, IF assetRow = ajob[r].read THEN Finished(r)
               ELSE [ajob[r] EXCEPT !.stage = "index"])
    /\ UNCHANGED <<asset, assetRow, locked, inFlight, webhooks, events, heard, strayed,
                   gained, clobbered>>

\* reIndexAsset: the row becomes what was read, owner and metadata.
Indexed(row, read) == read

\* One that was alone makes up for all that went wrong before it.
reIndexAsset(r) ==
    /\ ajob[r].stage = "index" /\ ajob[r].kind \in {"collection", "wallet"}
    /\ assetRow' = Indexed(assetRow, ajob[r].read)
    /\ IF ajob[r].alone
       THEN strayed' = FALSE /\ heard' = events
       ELSE strayed' = (strayed \/ assetRow' # assetRow) /\ heard' = heard
    /\ StepAndWrite(r, Finished(r))
    /\ UNCHANGED <<asset, locked, inFlight, webhooks, events, gained, clobbered>>

-----------------------------------------------------------------------------
CollectiblesNext ==
    \/ \E h \in Holders : TransferAsset(h)
    \/ \E tx \in inFlight : Land(tx) \/ Expire(tx)
    \/ \E w \in webhooks : LoseEvent(w) \/ \E again \in BOOLEAN : HandleEvent(w, again)
    \/ \E r \in AssetRequests :
         \/ \E w \in webhooks : HandleMint(r, w)
         \/ \E h \in Holders :
              \/ unwrapComic(r, h)
              \/ \E kind \in {"collection", "wallet"} : getAssets(r, kind, h)
         \/ IndexMinted(r)
         \/ FetchToUnwrap(r) \/ WriteUnwrapped(r) \/ SendUnwrapped(r)
         \/ onSignButtonClicked(r) \/ SignLocked(r) \/ signComic(r) \/ SendSigned(r)
         \/ CompareRow(r) \/ reIndexAsset(r)

CollectiblesSpec == CollectiblesInit /\ [][CollectiblesNext]_assetVars

-----------------------------------------------------------------------------
(* When nothing is on its way and nothing went astray, the rows say what    *)
(* the chain says.  What goes astray: a webhook lost, late or told before   *)
(* the row is there, a transaction that never lands, two requests whose     *)
(* steps interleave, and a signature in a locked collection.  One sync that *)
(* nothing interrupts is enough to agree again.                             *)
RowAgrees == Quiet /\ ~strayed /\ assetRow # NoRow => assetRow = asset

(* A comic stays used and stays signed on chain, unless a transaction lands *)
(* on another uri than the one it was built from: unwrapping and signing at *)
(* the same time loses one of the two.                                      *)
TraitsKept == ~clobbered => gained = TraitsOf(asset.uri)
=============================================================================
