--------------------------- MODULE DurableNonces ---------------------------
(***************************************************************************)
(* The pool of durable nonce accounts.  A row says whether an account is   *)
(* free and the value it last had on chain.  A request takes a free one,   *)
(* signs a transaction with its value, and somebody returns it: the        *)
(* request itself once the transaction is confirmed, the webhook of the    *)
(* transaction, or an operator.                                            *)
(*                                                                         *)
(* A transaction signed with a nonce never expires: it may land as long as *)
(* the account has the value it was signed with, and landing advances it.  *)
(* An action is the code between two awaits.                               *)
(***************************************************************************)
EXTENDS Integers

CONSTANTS
    NonceRequests,      \* bound: the requests, commands and calls of a behaviour
    Nonces,             \* nonce accounts
    NoNonce,
    MaxNonceValue       \* bound: how often an account is advanced

ASSUME NoncesAssumption == NoNonce \notin Nonces /\ MaxNonceValue \in Nat

VARIABLES
    chainNonce,     \* the value of each account on chain
    nonceRow,       \* rows DurableNonce: [status, nonce]
    nop,            \* what each request does
    npc,            \* where it is
    held,           \* the nonce it found, took or returns
    known,          \* the value it read
    sent,           \* transactions that may still land: [by, address, nonce]
    landed,         \* values of unwrap transactions that landed: the webhook's calls
    early           \* history: accounts returned while still in somebody's hands

nonceVars == <<chainNonce, nonceRow, nop, npc, held, known, sent, landed, early>>

Values == 0..MaxNonceValue
NonceUses == {"none", "publish", "insert", "retry", "unwrap", "notice", "sweep", "create"}
NonceStages == {"idle", "find", "take", "send", "confirm", "fetch", "write", "done"}

\* An account whose creation has not finished has no row.
NonceStatus == {"Available", "InUse", "absent"}

NoncesTypeOK ==
    /\ chainNonce \in [Nonces -> Values]
    /\ nonceRow \in [Nonces -> [status : NonceStatus, nonce : Values]]
    /\ nop \in [NonceRequests -> NonceUses]
    /\ npc \in [NonceRequests -> NonceStages]
    /\ held \in [NonceRequests -> Nonces \cup {NoNonce}]
    /\ known \in [NonceRequests -> Values]
    /\ sent \subseteq [by : NonceRequests, use : NonceUses, address : Nonces,
                   nonce : Values]
    /\ landed \subseteq [address : Nonces, nonce : Values]
    /\ early \subseteq Nonces

NoncesInit ==
    /\ chainNonce = [n \in Nonces |-> 0]
    /\ nonceRow \in [Nonces -> [status : {"Available", "absent"}, nonce : {0}]]
    /\ nop = [r \in NonceRequests |-> "none"]
    /\ npc = [r \in NonceRequests |-> "idle"]
    /\ held = [r \in NonceRequests |-> NoNonce]
    /\ known = [r \in NonceRequests |-> 0]
    /\ sent = {} /\ landed = {} /\ early = {}

NonceGoes(r, stage) == npc' = [npc EXCEPT ![r] = stage]

\* The request ends, and its nonce is out of its hands.
NonceEnds(r) ==
    /\ NonceGoes(r, "done")
    /\ held' = [held EXCEPT ![r] = NoNonce]
    /\ known' = [known EXCEPT ![r] = 0]
    /\ nop' = [nop EXCEPT ![r] = "none"]

\* A request still able to sign with n, and a transaction still able to land.
Signing(r, n) == held[r] = n /\ npc[r] = "send"
Outstanding(n) == {t \in sent : t.address = n /\ t.nonce = chainNonce[n]}

-----------------------------------------------------------------------------
(* Starting                                                                *)

\* getOrCreateComicIssueCollection and createComicIssueCM, insert-items,
\* unwrapComic
AsksForNonce(r) ==
    /\ npc[r] = "idle"
    /\ \E kind \in {"publish", "insert", "unwrap"} : nop' = [nop EXCEPT ![r] = kind]
    /\ NonceGoes(r, "find")
    /\ UNCHANGED <<chainNonce, nonceRow, held, known, sent, landed, early>>

\* handleChangeCoreCollectibleComicState, once or more per transaction: the row
\* is found by the value the transaction was signed with.
handleChangeState(r) ==
    /\ npc[r] = "idle"
    /\ \E t \in landed : nonceRow[t.address].nonce = t.nonce
          /\ nonceRow[t.address].status # "absent"
          /\ held' = [held EXCEPT ![r] = t.address]
    /\ nop' = [nop EXCEPT ![r] = "notice"]
    /\ NonceGoes(r, "fetch")
    /\ UNCHANGED <<chainNonce, nonceRow, known, sent, landed, early>>

\* The update-nonce command: a row of the chosen status not touched for ten
\* minutes, which any row may be.
updateNonceCommand(r) ==
    /\ npc[r] = "idle"
    /\ \E n \in Nonces : nonceRow[n].status # "absent"
                         /\ held' = [held EXCEPT ![r] = n]
    /\ nop' = [nop EXCEPT ![r] = "sweep"]
    /\ NonceGoes(r, "fetch")
    /\ UNCHANGED <<chainNonce, nonceRow, known, sent, landed, early>>

\* create: the account is made and its value fetched, then the batch of rows is
\* inserted; a failure of one account, which is swallowed, refuses the batch.
create(r) ==
    /\ npc[r] = "idle"
    /\ nop' = [nop EXCEPT ![r] = "create"]
    /\ \E n \in Nonces :
         /\ nonceRow[n].status = "absent"
         /\ \A q \in NonceRequests : held[q] # n
         /\ held' = [held EXCEPT ![r] = n]
         /\ known' = [known EXCEPT ![r] = chainNonce[n]]
    /\ NonceGoes(r, "write")
    /\ UNCHANGED <<chainNonce, nonceRow, sent, landed, early>>

-----------------------------------------------------------------------------
(* getNonce                                                                *)

FindAvailable(r) ==
    /\ npc[r] = "find"
    /\ \E n \in Nonces :
         /\ nonceRow[n].status = "Available"
         /\ held' = [held EXCEPT ![r] = n]
    /\ NonceGoes(r, "take")
    /\ UNCHANGED <<chainNonce, nonceRow, nop, known, sent, landed, early>>

\* None is free: the transaction is sent without a nonce, or insert-items fails.
NoneAvailable(r) ==
    /\ npc[r] = "find"
    /\ \A n \in Nonces : nonceRow[n].status # "Available"
    /\ NonceEnds(r)
    /\ UNCHANGED <<chainNonce, nonceRow, sent, landed, early>>

\* A mutant: the update does not name the status it read.
getNonceUnguarded(r) ==
    /\ npc[r] = "take"
    /\ nonceRow' = [nonceRow EXCEPT ![held[r]].status = "InUse"]
    /\ known' = [known EXCEPT ![r] = nonceRow[held[r]].nonce]
    /\ NonceGoes(r, "send")
    /\ UNCHANGED <<chainNonce, nop, held, sent, landed, early>>

\* The update names the status it read, and throws when it has changed.
getNonce(r) ==
    /\ npc[r] = "take"
    /\ LET n == held[r]
       IN  IF nonceRow[n].status = "Available"
             THEN /\ nonceRow' = [nonceRow EXCEPT ![n].status = "InUse"]
                  /\ known' = [known EXCEPT ![r] = nonceRow[n].nonce]
                  /\ NonceGoes(r, "send") /\ UNCHANGED <<nop, held>>
             ELSE NonceEnds(r) /\ UNCHANGED nonceRow
    /\ UNCHANGED <<chainNonce, sent, landed, early>>

-----------------------------------------------------------------------------
(* The transaction                                                         *)

SignedWith(r) == [by |-> r, use |-> nop[r], address |-> held[r], nonce |-> known[r]]

\* unwrapComic does not wait for its transaction.
SendTransaction(r) ==
    /\ npc[r] = "send"
    /\ sent' = IF known[r] = chainNonce[held[r]] THEN sent \cup {SignedWith(r)} ELSE sent
    /\ IF nop[r] = "unwrap" THEN NonceEnds(r)
                            ELSE NonceGoes(r, "confirm") /\ UNCHANGED <<nop, held, known>>
    /\ UNCHANGED <<chainNonce, nonceRow, landed, early>>

\* Building, signing or sending throws, or the process stops: nobody returns
\* the nonce.
SendThrows(r) ==
    /\ npc[r] = "send"
    /\ NonceEnds(r)
    /\ UNCHANGED <<chainNonce, nonceRow, sent, landed, early>>

Lands(t) ==
    /\ t \in sent /\ chainNonce[t.address] < MaxNonceValue
    /\ chainNonce' = [chainNonce EXCEPT ![t.address] = @ + 1]
    /\ sent' = {u \in sent : u.address # t.address}
    /\ landed' = IF t.use = "unwrap"
                   THEN landed \cup {[address |-> t.address, nonce |-> t.nonce]}
                   ELSE landed
    /\ UNCHANGED <<nonceRow, nop, npc, held, known, early>>

HasLanded(r) == SignedWith(r) \notin sent

\* sendAndConfirm returns
Confirmed(r) ==
    /\ npc[r] = "confirm"
    /\ HasLanded(r)
    /\ NonceGoes(r, "fetch")
    /\ UNCHANGED <<chainNonce, nonceRow, nop, held, known, sent, landed, early>>

\* sendAndConfirm throws, whether or not the transaction will land; insert-items
\* gives up after thirty attempts, returns the nonce and tries with another.
GivesUp(r) ==
    /\ npc[r] = "confirm"
    /\ IF nop[r] = "insert"
         THEN /\ nop' = [nop EXCEPT ![r] = "retry"]
              /\ NonceGoes(r, "fetch") /\ UNCHANGED <<held, known>>
         ELSE NonceEnds(r)
    /\ UNCHANGED <<chainNonce, nonceRow, sent, landed, early>>

-----------------------------------------------------------------------------
(* updateNonce                                                             *)

fetchNonceAccount(r) ==
    /\ npc[r] = "fetch"
    /\ known' = [known EXCEPT ![r] = chainNonce[held[r]]]
    /\ NonceGoes(r, "write")
    /\ UNCHANGED <<chainNonce, nonceRow, nop, held, sent, landed, early>>

\* Returned while another request may sign with it or a transaction may land, or
\* with a value that has been spent since it was fetched.
Premature(r) ==
    \/ \E q \in NonceRequests : q # r /\ Signing(q, held[r])
    \/ Outstanding(held[r]) # {}
    \/ known[r] # chainNonce[held[r]]

\* A mutant of updateNonce: the row is freed with its old value.
updateNonceStatus(r) ==
    /\ npc[r] = "write"
    /\ nonceRow' = [nonceRow EXCEPT ![held[r]].status = "Available"]
    /\ NonceEnds(r)
    /\ UNCHANGED <<chainNonce, sent, landed, early>>
updateNonce(r) ==
    /\ npc[r] = "write"
    /\ nonceRow' = [nonceRow EXCEPT ![held[r]] =
                      [status |-> "Available", nonce |-> known[r]]]
    /\ early' = IF Premature(r) THEN early \cup {held[r]} ELSE early
    /\ IF nop[r] = "retry"
         THEN /\ nop' = [nop EXCEPT ![r] = "insert"]
              /\ NonceGoes(r, "find") /\ UNCHANGED <<held, known>>
         ELSE NonceEnds(r)
    /\ UNCHANGED <<chainNonce, sent, landed>>

\* The account cannot be fetched or the row not written.
UpdateThrows(r) ==
    /\ npc[r] \in {"fetch", "write"}
    /\ NonceEnds(r)
    /\ UNCHANGED <<chainNonce, nonceRow, sent, landed, early>>

NonceStep(r) ==
    \/ AsksForNonce(r) \/ handleChangeState(r) \/ updateNonceCommand(r) \/ create(r)
    \/ FindAvailable(r) \/ NoneAvailable(r) \/ getNonce(r)
    \/ SendTransaction(r) \/ SendThrows(r) \/ Confirmed(r) \/ GivesUp(r)
    \/ fetchNonceAccount(r) \/ updateNonce(r) \/ UpdateThrows(r)

NoncesNext ==
    \/ \E r \in NonceRequests : NonceStep(r)
    \/ \E t \in sent : Lands(t)

NoncesSpec == NoncesInit /\ [][NoncesNext]_nonceVars

-----------------------------------------------------------------------------
\* No two transactions are signed with one value of a nonce, so that the chain
\* refuses none of them for it, unless the account was returned early: by an
\* operator, by insert-items after it gave up, or by a second call of a webhook.
NoncesExclusive ==
    \A n \in Nonces \ early :
        /\ \A t, u \in Outstanding(n) : t = u
        /\ \A q, r \in NonceRequests : Signing(q, n) /\ Signing(r, n) => q = r
        /\ \A r \in NonceRequests : Signing(r, n) => Outstanding(n) = {}

\* A free nonce is good to sign with: its row has the value of the chain, unless
\* the account was returned early.
NoncesFresh ==
    \A n \in Nonces \ early :
        nonceRow[n].status = "Available" => nonceRow[n].nonce = chainNonce[n]
=============================================================================
