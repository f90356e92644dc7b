----------------------------- MODULE MCRecords -----------------------------
(* An instance for TLC of six parts whose requests read rows, wait for the    *)
(* chain or the database, and write: coupons, nonces, the webhook's           *)
(* addresses, the publication of an issue, accounts, and the sync of wallets. *)
(* They share no variable, so a property of one cannot depend on another's steps: a run     *)
(* explores each alone, the others in a first state, and not their product.   *)
EXTENDS Coupons, DurableNonces, Subscriptions, Publication, Accounts, WalletSync, TLC

CONSTANTS r1, r2, r3, a1, a2, w1, w2

VARIABLE scene

MCSymmetry == Permutations({r1, r2, r3})

\* Two spellings of one word, and another word
MCNames == {<<"n", 1>>, <<"n", 2>>, <<"m", 1>>}
MCEmails == {<<"e", 1>>, <<"f", 1>>}

\* Two assets, the second of either standard; one of the mints was not told.  Wallets
\* are alike: the first asset may as well be in one of them.
FewAssets ==
    /\ holder[1] = w1
    /\ standing \in {<<"core", "core">>, <<"core", "legacy">>}
    /\ ~couponed => standing[2] = "legacy"
    /\ Cardinality(untold) <= 1
    /\ scene # "sync" => couponed /\ standing[2] = "core" /\ untold = {} /\ row[1] # NoRow
                         /\ row[2] # NoRow /\ holder[2] = w1

\* Two syncs, of them one at most of a collection; one event, or two syncs.
FewSyncs ==
    LET begun == {r \in SyncRequests : sjob'[r].stage # "idle"}
        toldNow == {s \in receipts' : s.of = "mint" /\ s.comic \in untold'}
    IN  /\ moves' + Cardinality(toldNow) <= 1
        /\ moves' + Cardinality(begun) <= 2
        /\ Cardinality({r \in SyncRequests : sjob'[r].kind # "wallet"}) <= 1

\* Four items are asked for, in two publications of two or in three.
FewItems == MapThenSumSet(LAMBDA r : eop'[r].supply, Editors) <= 4

\* Referrers are looked up whatever the spelling of their name: one is enough.
OneSpelling == \A r \in AccountRequests : job'[r].ref # <<"n", 2>>

Scenes == {"coupons", "nonces", "addresses", "issue", "accounts", "sync"}

\* Each part starts in few states, and in one when the scene is another's.  The tokens
\* are alike: the first coupons may as well be in one of them.
MCInit ==
    /\ scene \in Scenes
    /\ CouponsInit /\ (\A s \in settings : s.token = "sol")
    /\ scene # "coupons" => disturbed = {}
    /\ NoncesInit /\ (scene # "nonces" => \A n \in Nonces : nonceRow[n].status = "Available")
    /\ SubscriptionsInit /\ (scene # "addresses" => recorded = {})
    /\ PublicationInit /\ (scene # "issue" => issue = NoIssue)
    /\ AccountsInit /\ (scene # "accounts" => account[FirstUser].left = Allowance)
    /\ account[FirstUser].name = <<"n", 1>> /\ account[FirstUser].email = <<"e", 1>>
    /\ SyncInit /\ FewAssets

MCNext ==
    /\ UNCHANGED scene
    /\ \/ /\ scene = "coupons" /\ CouponsNext
          /\ UNCHANGED <<nonceVars, subscriptionVars, publicationVars, accountVars, syncVars>>
       \/ /\ scene = "nonces" /\ NoncesNext
          /\ UNCHANGED <<couponVars, subscriptionVars, publicationVars, accountVars, syncVars>>
       \/ /\ scene = "addresses" /\ SubscriptionsNext
          /\ UNCHANGED <<couponVars, nonceVars, publicationVars, accountVars, syncVars>>
       \/ /\ scene = "issue" /\ PublicationNext /\ FewItems
          /\ UNCHANGED <<couponVars, nonceVars, subscriptionVars, accountVars, syncVars>>
       \/ /\ scene = "accounts" /\ AccountsNext /\ OneSpelling
          /\ UNCHANGED <<couponVars, nonceVars, subscriptionVars, publicationVars, syncVars>>
       \/ /\ scene = "sync" /\ SyncNext /\ FewSyncs
          /\ UNCHANGED <<couponVars, nonceVars, subscriptionVars, publicationVars, accountVars>>

MCSpec == MCInit /\ [][MCNext]_<<scene, couponVars, nonceVars, subscriptionVars,
                                 publicationVars, accountVars, syncVars>>

\* Every variable of the parts stays in its range: labels, nonces, addresses, the
\* issue and its machines, users, the owners' rows, and the place of each request.
RecordsTypeOK ==
    /\ scene = "coupons" => CouponsTypeOK
    /\ scene = "nonces" => NoncesTypeOK
    /\ scene = "addresses" => SubscriptionsTypeOK
    /\ scene = "issue" => PublicationTypeOK
    /\ scene = "accounts" => AccountsTypeOK
    /\ scene = "sync" => SyncTypeOK
=============================================================================
