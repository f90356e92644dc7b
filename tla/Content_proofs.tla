--------------------------- MODULE Content_proofs ---------------------------
(* Theorems about one collectible, about the snapshots of a creator's audience, *)
(* about works that are sold as prints, about the answers that readers are      *)
(* served from the cache and about the files that rows name: for any wallets,   *)
(* readers, issues and prints, any number of requests at once and of changes    *)
(* on chain.                                                                    *)
EXTENDS MCContent, Routes_proofs, FiniteSetTheorems, TLAPS

AssetStages == {"idle", "row", "chain", "write", "send", "index", "done"}
AssetJobs ==
    [stage : AssetStages,
     kind : {"none", "mint", "unwrap", "sign", "collection", "wallet"},
     holder : Holders \cup {NoRow}, read : AssetState \cup {NoRow}, alone : BOOLEAN]

\* A state webhook has a uri, a transfer a wallet; ids are those of the changes.
Events ==
    [id : {0}, kind : {"mint"}, value : {NoRow}]
        \cup [id : Nat, kind : {"transfer"}, value : Holders]
        \cup [id : Nat, kind : {"state"}, value : Uris]

AssetTyped ==
    /\ asset \in AssetState /\ assetRow \in AssetState \cup {NoRow}
    /\ inFlight \subseteq [base : Uris, uri : Uris]
    /\ webhooks \subseteq Events
    /\ {strayed, clobbered} \subseteq BOOLEAN
    /\ events \in Nat /\ heard \in 0..events
    /\ ajob \in [AssetRequests -> AssetJobs]

\* What a request holds; one that unwraps or signs found a row, and rows stay.
AssetJobsSound ==
    \A r \in AssetRequests : Going(r) =>
        /\ ajob[r].read \in AssetState
        /\ ajob[r].stage \in {"chain", "write", "send"} => assetRow # NoRow

\* While a request is alone nothing is on its way, and what it copies is the chain's.
AloneSound ==
    \A r \in AssetRequests : Going(r) /\ ajob[r].alone =>
        /\ webhooks = {} /\ inFlight = {}
        /\ \A q \in AssetRequests : Going(q) => q = r
        /\ ajob[r].stage \in {"row", "index"} => ajob[r].read = asset

\* One webhook of each change
EventsSound ==
    /\ \A w \in webhooks : w.id <= events
    /\ \A v, w \in webhooks : v.id = w.id => v = w

\* What the row has yet to be told
Pending(kind) == {w \in webhooks : w.kind = kind /\ w.id > heard}
Last(w) == \A v \in Pending(w.kind) : v.id <= w.id

\* The last webhook on its way tells what the chain says.
LastTells(kind, said) == \A w \in Pending(kind) : Last(w) => w.value = said

OwnerTold ==
    /\ LastTells("transfer", asset.owner)
    /\ Pending("transfer") = {} => assetRow.owner = asset.owner

\* A uri is written before its transaction is sent.
Sending == inFlight # {} \/ \E r \in AssetRequests : ajob[r].stage = "send"
UriTold ==
    /\ LastTells("state", asset.uri)
    /\ Pending("state") = {} /\ ~Sending => assetRow.uri = asset.uri

\* A webhook that comes again changes nothing.
Repeats == \A w \in webhooks : w.id = heard => Reported(assetRow, w) = assetRow

RowTold == ~strayed /\ assetRow # NoRow => OwnerTold /\ UriTold /\ Repeats

\* A transaction adds a trait to those of the uri it was built on.
FlightsAdd == \A tx \in inFlight : TraitsOf(tx.base) \subseteq TraitsOf(tx.uri)

AssetInv ==
    AssetTyped /\ AssetJobsSound /\ AloneSound /\ EventsSound /\ RowTold /\ FlightsAdd /\ TraitsKept

-----------------------------------------------------------------------------
(* Requests                                                                *)

IsGoing(j) == j.stage \notin {"idle", "done"}

\* One request goes on, and no other is alone any more.
JobsMoved(r, j) ==
    /\ ajob' \in [AssetRequests -> AssetJobs] /\ ajob'[r] = j
    /\ \A q \in AssetRequests \ {r} :
         /\ ajob'[q].stage = ajob[q].stage /\ ajob'[q].read = ajob[q].read
         /\ IsGoing(ajob'[q]) => ~ajob'[q].alone

LEMMA NoLongerAlone ==
    ASSUME NEW j \in AssetJobs
    PROVE  LET k == [j EXCEPT !.alone = FALSE]
           IN  k \in AssetJobs /\ ~k.alone /\ k.stage = j.stage /\ k.read = j.read
  BY DEF AssetJobs

LEMMA WritingMoves ==
    ASSUME AssetTyped, NEW r \in AssetRequests, NEW j \in AssetJobs, StepAndWrite(r, j)
    PROVE  JobsMoved(r, j)
  <1>1. PICK f : f = [ajob EXCEPT ![r] = j]
    OBVIOUS
  <1>2. f \in [AssetRequests -> AssetJobs] /\ f[r] = j
        /\ \A q \in AssetRequests \ {r} : f[q] = ajob[q]
    BY <1>1 DEF AssetTyped
  <1>3. ajob' = [q \in AssetRequests |-> IF q = r THEN f[q] ELSE [f[q] EXCEPT !.alone = FALSE]]
    BY <1>1 DEF StepAndWrite, Disturbed
  <1>4. ajob' \in [AssetRequests -> AssetJobs] /\ ajob'[r] = j
    BY <1>2, <1>3, NoLongerAlone
  <1>5. ASSUME NEW q \in AssetRequests \ {r}
        PROVE  /\ ajob'[q].stage = ajob[q].stage /\ ajob'[q].read = ajob[q].read
               /\ ~ajob'[q].alone
    <2>1. ajob'[q] = [ajob[q] EXCEPT !.alone = FALSE] /\ ajob[q] \in AssetJobs
      BY <1>2, <1>3 DEF AssetTyped
    <2> QED BY <2>1, NoLongerAlone
  <1> QED BY <1>4, <1>5 DEF JobsMoved

LEMMA SteppingMoves ==
    ASSUME AssetTyped, AloneSound, NEW r \in AssetRequests, Going(r), NEW j \in AssetJobs,
           Step(r, j)
    PROVE  JobsMoved(r, j)
  <1>1. /\ ajob' \in [AssetRequests -> AssetJobs] /\ ajob'[r] = j
        /\ \A q \in AssetRequests \ {r} : ajob'[q] = ajob[q]
    BY DEF AssetTyped, Step
  <1>2. \A q \in AssetRequests \ {r} : IsGoing(ajob[q]) => ~ajob[q].alone
    BY DEF AloneSound, Going, IsGoing
  <1> QED BY <1>1, <1>2 DEF JobsMoved

LEMMA AllDisturbed ==
    ASSUME AssetTyped, ajob' = [r \in AssetRequests |-> [ajob[r] EXCEPT !.alone = FALSE]]
    PROVE  /\ ajob' \in [AssetRequests -> AssetJobs]
           /\ \A r \in AssetRequests : /\ ajob'[r].stage = ajob[r].stage
                                       /\ ajob'[r].read = ajob[r].read /\ ~ajob'[r].alone
  <1>1. \A r \in AssetRequests : ajob[r] \in AssetJobs
    BY DEF AssetTyped
  <1>2. ajob' \in [AssetRequests -> AssetJobs]
    BY <1>1, NoLongerAlone
  <1>3. ASSUME NEW r \in AssetRequests
        PROVE  /\ ajob'[r].stage = ajob[r].stage
               /\ ajob'[r].read = ajob[r].read /\ ~ajob'[r].alone
    <2>1. ajob'[r] = [ajob[r] EXCEPT !.alone = FALSE]
      OBVIOUS
    <2> QED BY <1>1, <2>1, NoLongerAlone
  <1> QED BY <1>2, <1>3

\* A request that goes to another stage, or that reads the asset and does
LEMMA JobGoes ==
    ASSUME AssetTyped, NEW r \in AssetRequests, NEW stage \in AssetStages
    PROVE  LET j == [ajob[r] EXCEPT !.stage = stage]
               k == [ajob[r] EXCEPT !.stage = stage, !.read = asset]
           IN  /\ j \in AssetJobs /\ j.stage = stage /\ j.read = ajob[r].read
               /\ j.alone => ajob[r].alone
               /\ k \in AssetJobs /\ k.stage = stage /\ k.read = asset
               /\ k.alone => ajob[r].alone
  <1>1. ajob[r] \in AssetJobs /\ asset \in AssetState
    BY DEF AssetTyped
  <1> QED BY <1>1 DEF AssetJobs

LEMMA JobFinished ==
    ASSUME AssetTyped, NEW r \in AssetRequests
    PROVE  Finished(r) \in AssetJobs /\ ~IsGoing(Finished(r)) /\ Finished(r).stage = "done"
  BY JobGoes DEF Finished, AssetStages, IsGoing

\* What a request is after a step
Fits(j) ==
    IsGoing(j) =>
        /\ j.read \in AssetState
        /\ j.stage \in {"chain", "write", "send"} => assetRow # NoRow
Lonely(r, j) ==
    IsGoing(j) /\ j.alone =>
        /\ webhooks = {} /\ inFlight = {}
        /\ \A q \in AssetRequests \ {r} : ~Going(q)
        /\ j.stage \in {"row", "index"} => j.read = asset

LEMMA JobsKept ==
    ASSUME AssetTyped, AssetJobsSound, NEW r \in AssetRequests, NEW j \in AssetJobs, JobsMoved(r, j),
           assetRow # NoRow => assetRow' # NoRow, Fits(j)', Lonely(r, j)'
    PROVE  AssetJobsSound' /\ AloneSound'
  <1>1. AssetJobsSound'
    BY DEF AssetJobsSound, JobsMoved, Fits, Going, IsGoing
  <1>2. AloneSound'
    BY DEF AloneSound, JobsMoved, Lonely, Going, IsGoing
  <1> QED BY <1>1, <1>2

-----------------------------------------------------------------------------
(* Steps                                                                   *)

theRest == <<asset, assetRow, locked, inFlight, webhooks, events, heard, strayed, gained,
             clobbered>>

\* A request that only reads goes on to what it fits.
LEMMA ReadingKeeps ==
    ASSUME AssetInv, UNCHANGED theRest, NEW r \in AssetRequests, NEW j \in AssetJobs,
           JobsMoved(r, j), Fits(j), Lonely(r, j), ajob[r].stage # "send"
    PROVE  AssetInv'
  <1> USE DEF AssetInv, theRest
  <1>1. AssetTyped'
    BY DEF AssetTyped, JobsMoved
  <1>2. Fits(j)'
    BY DEF Fits
  <1>3. \A q \in AssetRequests \ {r} : Going(q)' <=> Going(q)
    BY DEF JobsMoved, Going
  <1>4. Lonely(r, j)'
    BY <1>3 DEF Lonely
  <1>5. AssetJobsSound' /\ AloneSound'
    BY <1>2, <1>4, JobsKept
  <1>6. EventsSound' /\ FlightsAdd' /\ TraitsKept'
    BY DEF EventsSound, FlightsAdd, TraitsKept
  <1>7. Sending => Sending'
    BY DEF Sending, JobsMoved
  <1>8. RowTold'
    BY <1>7 DEF RowTold, OwnerTold, UriTold, Repeats, LastTells, Last, Pending, Reported
  <1> QED BY <1>1, <1>5, <1>6, <1>8

\* A request that begins is alone when nothing else is under way.
LEMMA BeginningKeeps ==
    ASSUME AssetInv, UNCHANGED theRest, NEW r \in AssetRequests,
           NEW kind \in {"unwrap", "sign", "collection", "wallet"},
           NEW holder \in Holders \cup {NoRow},
           NEW stage \in {"row", "index", "chain", "write"},
           NEW read \in AssetState, Begin(r, kind, holder, stage, read),
           stage \in {"chain", "write"} => assetRow # NoRow,
           stage \in {"row", "index"} => read = asset
    PROVE  AssetInv'
  <1>1. PICK j : j = [stage |-> stage, kind |-> kind, holder |-> holder, read |-> read,
                      alone |-> Quiet]
    OBVIOUS
  <1>2. /\ j \in AssetJobs /\ j.stage = stage /\ j.read = read /\ IsGoing(j)
        /\ j.alone => Quiet
    <2>1. j.stage = stage /\ j.read = read /\ IsGoing(j)
      BY <1>1 DEF IsGoing
    <2>2. j.alone = Quiet
      BY <1>1
    <2>3. j.alone => Quiet
      BY <2>2
    <2>4. Quiet \in BOOLEAN
      BY DEF Quiet
    <2>5. j \in AssetJobs
      BY <1>1, <2>4 DEF AssetJobs, AssetStages
    <2> QED BY <2>1, <2>3, <2>5
  <1>3. StepAndWrite(r, j) /\ ajob[r].stage = "idle"
    BY <1>1 DEF Begin
  <1>4. JobsMoved(r, j)
    BY <1>2, <1>3, WritingMoves DEF AssetInv
  <1>5. Fits(j) /\ Lonely(r, j)
    BY <1>2 DEF Fits, Lonely, Quiet
  <1> QED BY <1>2, <1>3, <1>4, <1>5, ReadingKeeps

\* One that is under way goes on, or ends.
LEMMA GoingKeeps ==
    ASSUME AssetInv, UNCHANGED theRest, NEW r \in AssetRequests,
           Going(r), ajob[r].stage # "send",
           \/ Step(r, Finished(r))
           \/ /\ ajob[r].stage = "row" /\ Step(r, [ajob[r] EXCEPT !.stage = "index"])
           \/ \E s \in {"write", "send"} :
                ajob[r].stage = "chain" /\ Step(r, [ajob[r] EXCEPT !.stage = s, !.read = asset])
    PROVE  AssetInv'
  <1>1. Fits(ajob[r]) /\ Lonely(r, ajob[r]) /\ ajob[r].read \in AssetState /\ asset \in AssetState
    BY DEF AssetInv, AssetJobsSound, AloneSound, AssetTyped, Fits, Lonely, Going, IsGoing
  <1>2. SUFFICES ASSUME NEW j \in AssetJobs, Step(r, j), Fits(j), Lonely(r, j)
                 PROVE  AssetInv'
    <2>1. CASE Step(r, Finished(r))
      BY <2>1, <1>2, JobFinished, ZenonT(60) DEF Fits, Lonely, AssetInv
    <2>2. CASE ajob[r].stage = "row" /\ Step(r, [ajob[r] EXCEPT !.stage = "index"])
      <3>1. PICK j : j = [ajob[r] EXCEPT !.stage = "index"]
        OBVIOUS
      <3>2. j \in AssetJobs /\ j.stage = "index" /\ j.read = ajob[r].read
            /\ (j.alone => ajob[r].alone)
        BY <3>1, JobGoes DEF AssetInv, AssetStages
      <3>3. Fits(j) /\ Lonely(r, j)
        BY <1>1, <2>2, <3>2 DEF Fits, Lonely, IsGoing
      <3> QED BY <1>2, <2>2, <3>1, <3>2, <3>3
    <2>3. ASSUME NEW s \in {"write", "send"}, ajob[r].stage = "chain",
                 Step(r, [ajob[r] EXCEPT !.stage = s, !.read = asset])
          PROVE  AssetInv'
      <3>1. PICK j : j = [ajob[r] EXCEPT !.stage = s, !.read = asset]
        OBVIOUS
      <3>2. j \in AssetJobs /\ j.stage = s /\ j.read = asset /\ (j.alone => ajob[r].alone)
        <4>1. s \in AssetStages
          BY DEF AssetStages
        <4>2. AssetTyped
          BY DEF AssetInv
        <4> QED BY ONLY <4>1, <4>2, <3>1, JobGoes, r \in AssetRequests, ZenonT(60)
      <3>3. Fits(j) /\ Lonely(r, j)
        BY <1>1, <2>3, <3>2 DEF Fits, Lonely, IsGoing
      <3> QED BY <1>2, <2>3, <3>1, <3>2, <3>3
    <2> QED BY <2>1, <2>2, <2>3
  <1>3. JobsMoved(r, j)
    BY <1>2, SteppingMoves DEF AssetInv
  <1> QED BY <1>2, <1>3, ReadingKeeps

\* The actions that only read
LEMMA ReadingSteps ==
    ASSUME AssetInv, NEW r \in AssetRequests, NEW h \in Holders,
           \/ unwrapComic(r, h) \/ getAssets(r, "collection", h) \/ getAssets(r, "wallet", h)
           \/ onSignButtonClicked(r)
           \/ FetchToUnwrap(r) \/ signComic(r) \/ CompareRow(r)
    PROVE  AssetInv'
  <1>1. asset \in AssetState /\ (assetRow # NoRow => assetRow \in AssetState)
    BY DEF AssetInv, AssetTyped
  <1>2. CASE unwrapComic(r, h)
    BY <1>1, <1>2, BeginningKeeps DEF unwrapComic, theRest
  <1>3. CASE getAssets(r, "collection", h) \/ getAssets(r, "wallet", h)
    BY <1>1, <1>3, BeginningKeeps DEF getAssets, theRest
  <1>4. CASE onSignButtonClicked(r)
    BY <1>1, <1>4, BeginningKeeps DEF onSignButtonClicked, theRest
  <1>5. CASE FetchToUnwrap(r)
    BY <1>5, GoingKeeps, ZenonT(60) DEF FetchToUnwrap, theRest, Going
  <1>6. CASE signComic(r)
    BY <1>6, GoingKeeps, ZenonT(60) DEF signComic, theRest, Going
  <1>7. CASE CompareRow(r)
    BY <1>7, GoingKeeps, ZenonT(60) DEF CompareRow, theRest, Going
  <1> QED BY <1>2, <1>3, <1>4, <1>5, <1>6, <1>7

\* A transaction or a webhook is lost.
LEMMA LosingKeeps ==
    ASSUME AssetInv,
           \/ \E tx \in inFlight : Expire(tx)
           \/ \E w \in webhooks : LoseEvent(w)
    PROVE  AssetInv'
  <1> USE DEF AssetInv
  <1>1. /\ UNCHANGED <<asset, assetRow, events, heard, ajob, gained, clobbered>> /\ strayed'
        /\ strayed' \in BOOLEAN
        /\ webhooks' \subseteq webhooks /\ inFlight' \subseteq inFlight
        /\ webhooks # {} \/ inFlight # {}
    BY DEF Expire, LoseEvent
  <1>2. AssetTyped'
    BY <1>1 DEF AssetTyped
  <1>3. AssetJobsSound' /\ AloneSound'
    BY <1>1 DEF AssetJobsSound, AloneSound, Going
  <1>4. EventsSound' /\ FlightsAdd' /\ TraitsKept'
    BY <1>1 DEF EventsSound, FlightsAdd, TraitsKept
  <1>5. RowTold'
    BY <1>1 DEF RowTold
  <1> QED BY <1>2, <1>3, <1>4, <1>5

\* A change on chain is the last, and its webhook is on its way.
LEMMA ChangePending ==
    ASSUME AssetTyped, EventsSound, NEW k \in {"transfer", "state"}, NEW w \in Events,
           w.id = events + 1, w.kind = k, webhooks' = webhooks \cup {w},
           events' = events + 1, UNCHANGED heard, NEW other, other # k
    PROVE  /\ EventsSound'
           /\ LastTells(k, w.value)' /\ Pending(k)' # {}
           /\ Pending(other)' = Pending(other)
           /\ \A said : LastTells(other, said) => LastTells(other, said)'
           /\ w.id # heard
  <1>1. /\ events \in Nat /\ heard \in Int /\ heard <= events
        /\ \A v \in webhooks : v.id \in Int /\ v.id <= events
    BY DEF AssetTyped, EventsSound, Events
  <1>2. EventsSound'
    BY <1>1 DEF EventsSound
  <1>3. w \in Pending(k)' /\ w.id # heard
    BY <1>1 DEF Pending
  <1>4. LastTells(k, w.value)'
    <2> SUFFICES ASSUME NEW v \in Pending(k)', Last(v)'
                 PROVE  v = w
      BY DEF LastTells
    <2>1. v.kind = k /\ (v \in webhooks \/ v = w)
      BY DEF Pending
    <2>2. w.id <= v.id
      BY <1>3, <2>1 DEF Last
    <2> QED BY <1>1, <2>1, <2>2
  <1>5. Pending(other)' = Pending(other)
    BY DEF Pending
  <1>6. ASSUME NEW said, LastTells(other, said)
        PROVE  LastTells(other, said)'
    <2>1. \A v \in Pending(other) : Last(v)' <=> Last(v)
      BY <1>5 DEF Last, Pending
    <2> QED BY <1>5, <1>6, <2>1 DEF LastTells
  <1> QED BY <1>2, <1>3, <1>4, <1>5, <1>6

LEMMA ChangingKeeps ==
    ASSUME AssetInv, NEW k \in {"transfer", "state"}, NEW state \in AssetState,
           NEW value \in Holders \cup Uris,
           ChainChange(k, state, value), UNCHANGED <<assetRow, heard, strayed>>,
           clobbered' \in BOOLEAN, inFlight' \subseteq inFlight,
           k = "transfer" => /\ value \in Holders /\ value = state.owner
                             /\ state.uri = asset.uri /\ UNCHANGED <<inFlight, clobbered>>,
           k = "state" => /\ value \in Uris /\ value = state.uri /\ state.owner = asset.owner
                          /\ ~clobbered' => /\ ~clobbered
                                            /\ TraitsOf(asset.uri) \subseteq TraitsOf(state.uri)
    PROVE  AssetInv'
  <1> USE DEF AssetInv
  <1>1. /\ events' = events + 1 /\ asset' = state /\ gained' = gained \cup TraitsOf(state.uri)
        /\ ajob' = [r \in AssetRequests |-> [ajob[r] EXCEPT !.alone = FALSE]]
    BY DEF ChainChange
  <1>2. PICK w \in Events : /\ w.id = events + 1 /\ w.kind = k /\ w.value = value
                            /\ webhooks' = webhooks \cup {w}
    <2>1. PICK w : w = [id |-> events + 1, kind |-> k, value |-> value]
      OBVIOUS
    <2>2. events + 1 \in Nat
      BY DEF AssetTyped
    <2>3. w \in Events
      BY <2>1, <2>2 DEF Events
    <2> QED BY <2>1, <2>3 DEF ChainChange
  <1>3. /\ ajob' \in [AssetRequests -> AssetJobs]
        /\ \A r \in AssetRequests : /\ ajob'[r].stage = ajob[r].stage
                                    /\ ajob'[r].read = ajob[r].read /\ ~ajob'[r].alone
    BY <1>1, AllDisturbed
  <1>4. AssetTyped'
    BY <1>1, <1>2, <1>3 DEF AssetTyped
  <1>5. AssetJobsSound' /\ AloneSound'
    BY <1>3 DEF AssetJobsSound, AloneSound, Going
  <1>6. FlightsAdd'
    BY DEF FlightsAdd
  <1>7. TraitsKept'
    BY <1>1 DEF TraitsKept
  <1>8. EventsSound'
    BY <1>1, <1>2, ChangePending
  <1>9. ASSUME ~strayed', assetRow' # NoRow
        PROVE  OwnerTold' /\ UriTold' /\ Repeats'
    <2>1. OwnerTold /\ UriTold /\ Repeats
      BY <1>9 DEF RowTold
    <2>2. Repeats'
      BY <1>1, <1>2, <2>1, ChangePending DEF Repeats, Reported
    <2>3. CASE k = "transfer"
      <3>1. /\ LastTells("transfer", value)' /\ Pending("transfer")' # {}
            /\ Pending("state")' = Pending("state")
            /\ LastTells("state", asset.uri) => LastTells("state", asset.uri)'
        BY <1>1, <1>2, <2>3, ChangePending
      <3>2. OwnerTold'
        BY <1>1, <2>3, <3>1 DEF OwnerTold, LastTells
      <3>3. Sending' <=> Sending
        BY <1>3, <2>3 DEF Sending
      <3>4. UriTold'
        BY <1>1, <2>1, <2>3, <3>1, <3>3 DEF UriTold, LastTells
      <3> QED BY <2>2, <3>2, <3>4
    <2>4. CASE k = "state"
      <3>1. /\ LastTells("state", value)' /\ Pending("state")' # {}
            /\ Pending("transfer")' = Pending("transfer")
            /\ LastTells("transfer", asset.owner) => LastTells("transfer", asset.owner)'
        BY <1>1, <1>2, <2>4, ChangePending
      <3>2. OwnerTold'
        BY <1>1, <2>1, <2>4, <3>1 DEF OwnerTold, LastTells
      <3>3. UriTold'
        BY <1>1, <2>4, <3>1 DEF UriTold, LastTells
      <3> QED BY <2>2, <3>2, <3>3
    <2> QED BY <2>3, <2>4
  <1> QED BY <1>4, <1>5, <1>6, <1>7, <1>8, <1>9 DEF RowTold

LEMMA ChainSteps ==
    ASSUME AssetInv,
           \/ \E h \in Holders : TransferAsset(h)
           \/ \E tx \in inFlight : Land(tx)
    PROVE  AssetInv'
  <1>1. /\ asset \in AssetState /\ inFlight \subseteq [base : Uris, uri : Uris]
        /\ {strayed, clobbered} \subseteq BOOLEAN
        /\ \A tx \in inFlight : TraitsOf(tx.base) \subseteq TraitsOf(tx.uri)
    BY DEF AssetInv, AssetTyped, FlightsAdd
  <1>2. ASSUME NEW h \in Holders, TransferAsset(h)
        PROVE  AssetInv'
    <2>1. PICK state : state = [asset EXCEPT !.owner = h]
      OBVIOUS
    <2>2. state \in AssetState /\ state.owner = h /\ state.uri = asset.uri
      BY <1>1, <2>1 DEF AssetState
    <2> QED BY <1>1, <1>2, <2>1, <2>2, ChangingKeeps DEF TransferAsset
  <1>3. ASSUME NEW tx \in inFlight, Land(tx)
        PROVE  AssetInv'
    <2>1. PICK state : state = [asset EXCEPT !.uri = tx.uri]
      OBVIOUS
    <2>2. /\ state \in AssetState /\ state.uri = tx.uri /\ state.owner = asset.owner
          /\ tx.uri \in Uris
      BY <1>1, <2>1 DEF AssetState
    <2>3. /\ clobbered' \in BOOLEAN /\ inFlight' \subseteq inFlight
          /\ ~clobbered' => ~clobbered /\ tx.base = asset.uri
      BY <1>3 DEF Land
    <2> QED BY <1>1, <1>3, <2>1, <2>2, <2>3, ChangingKeeps DEF Land
  <1> QED BY <1>2, <1>3

\* A webhook is answered, once or again.
LEMMA AnsweringKeeps ==
    ASSUME AssetInv, NEW w \in webhooks, NEW again \in BOOLEAN, HandleEvent(w, again)
    PROVE  AssetInv'
  <1> USE DEF AssetInv
  <1>1. /\ w.kind \in {"transfer", "state"} /\ w \in Events
        /\ w.kind = "transfer" => w.value \in Holders
        /\ w.kind = "state" => w.value \in Uris
        /\ w.id \in Nat /\ w.id <= events
    BY DEF HandleEvent, AssetTyped, Events, EventsSound
  <1>2. /\ assetRow' = Reported(assetRow, w)
        /\ heard' = IF w.id > heard THEN w.id ELSE heard
        /\ strayed' = (strayed \/ assetRow = NoRow \/ w.id \notin {heard, heard + 1})
        /\ webhooks' \subseteq webhooks /\ webhooks \ {w} \subseteq webhooks'
        /\ UNCHANGED <<asset, inFlight, events, gained, clobbered>>
    BY DEF HandleEvent
  <1>3. /\ ajob' \in [AssetRequests -> AssetJobs]
        /\ \A r \in AssetRequests : /\ ajob'[r].stage = ajob[r].stage
                                    /\ ajob'[r].read = ajob[r].read /\ ~ajob'[r].alone
    BY AllDisturbed DEF HandleEvent
  <1>4. /\ assetRow' \in AssetState \cup {NoRow}
        /\ assetRow # NoRow => assetRow' # NoRow
        /\ assetRow # NoRow /\ w.kind = "transfer" =>
             assetRow'.owner = w.value /\ assetRow'.uri = assetRow.uri
        /\ assetRow # NoRow /\ w.kind = "state" =>
             assetRow'.uri = w.value /\ assetRow'.owner = assetRow.owner
        /\ assetRow # NoRow => Reported(assetRow', w) = assetRow'
    BY <1>1, <1>2, CollectiblesAssumption DEF Reported, AssetTyped, AssetState
  <1>5. AssetTyped'
    <2>1. heard' \in 0..events
      BY <1>1, <1>2 DEF AssetTyped
    <2> QED BY <1>2, <1>3, <1>4, <2>1 DEF AssetTyped
  <1>6. AssetJobsSound' /\ AloneSound'
    BY <1>3, <1>4 DEF AssetJobsSound, AloneSound, Going
  <1>7. EventsSound' /\ FlightsAdd' /\ TraitsKept'
    BY <1>2 DEF EventsSound, FlightsAdd, TraitsKept
  <1>8. Sending' <=> Sending
    BY <1>2, <1>3 DEF Sending
  <1>9. ASSUME ~strayed'
        PROVE  OwnerTold' /\ UriTold' /\ Repeats'
    <2>1. /\ OwnerTold /\ UriTold /\ Repeats /\ assetRow # NoRow
          /\ w.id = heard \/ w.id = heard + 1
      BY <1>2, <1>9 DEF RowTold
    <2>2. heard \in Int /\ \A v \in webhooks : v.id \in Int /\ (v.id = w.id => v = w)
      BY DEF AssetTyped, Events, EventsSound
    <2>3. CASE w.id = heard
      <3>1. assetRow' = assetRow /\ heard' = heard
        BY <1>2, <2>1, <2>2, <2>3 DEF Repeats
      <3>2. \A k : Pending(k)' = Pending(k)
        BY <1>2, <2>2, <2>3, <3>1 DEF Pending
      <3>3. \A v \in webhooks : Last(v)' <=> Last(v)
        BY <3>2 DEF Last
      <3>4. \A k : Pending(k) \subseteq webhooks
        BY DEF Pending
      <3>5. OwnerTold' /\ UriTold'
        BY <1>2, <1>8, <2>1, <3>1, <3>2, <3>3, <3>4 DEF OwnerTold, UriTold, LastTells
      <3>6. Repeats'
        BY <1>2, <2>1, <3>1 DEF Repeats
      <3> QED BY <3>5, <3>6
    <2>4. CASE w.id = heard + 1
      <3>1. heard' = w.id
        BY <1>2, <2>2, <2>4
      <3>2. \A k : Pending(k)' = Pending(k) \ {w}
        BY <1>2, <2>2, <2>4, <3>1 DEF Pending
      <3>3. \A k : \A v \in Pending(k)' : Last(v)' => Last(v)
        <4>1. \A k : \A v \in Pending(k) : v.kind = k /\ v.id \in Int /\ w.id <= v.id
          BY <2>2, <2>4 DEF Pending
        <4> QED BY <3>2, <4>1 DEF Last
      <3>4. \A k, said : LastTells(k, said) => LastTells(k, said)'
        BY <3>2, <3>3 DEF LastTells
      <3>5. ASSUME NEW said, LastTells(w.kind, said), Pending(w.kind)' = {}
            PROVE  w.value = said
        <4>1. w \in Pending(w.kind)
          BY <2>2, <2>4 DEF Pending
        <4>2. Pending(w.kind) = {w}
          BY <3>2, <3>5, <4>1
        <4>3. Last(w)
          BY <2>2, <4>2 DEF Last
        <4> QED BY <3>5, <4>1, <4>3 DEF LastTells
      <3>6. ASSUME NEW k, k # w.kind
            PROVE  Pending(k)' = Pending(k)
        BY <3>2, <3>6 DEF Pending
      <3>7. OwnerTold'
        <4>1. LastTells("transfer", asset.owner)'
          BY <1>2, <2>1, <3>4 DEF OwnerTold
        <4>2. Pending("transfer")' = {} => assetRow'.owner = asset.owner
          BY <1>1, <1>4, <2>1, <3>5, <3>6 DEF OwnerTold
        <4> QED BY <1>2, <4>1, <4>2 DEF OwnerTold
      <3>8. UriTold'
        <4>1. LastTells("state", asset.uri)'
          BY <1>2, <2>1, <3>4 DEF UriTold
        <4>2. Pending("state")' = {} /\ ~Sending => assetRow'.uri = asset.uri
          BY <1>1, <1>4, <2>1, <3>5, <3>6 DEF UriTold
        <4> QED BY <1>2, <1>8, <4>1, <4>2 DEF UriTold
      <3>9. Repeats'
        BY <1>2, <1>4, <2>1, <2>2, <3>1 DEF Repeats
      <3> QED BY <3>7, <3>8, <3>9
    <2> QED BY <2>1, <2>3, <2>4
  <1> QED BY <1>5, <1>6, <1>7, <1>9 DEF RowTold

\* The webhook of a mint is taken by a request, and so is what it has to report.
LEMMA MintingKeeps ==
    ASSUME AssetInv, NEW r \in AssetRequests, NEW w \in webhooks, HandleMint(r, w)
    PROVE  AssetInv'
  <1> USE DEF AssetInv
  <1>1. PICK alone \in BOOLEAN :
            alone = (webhooks = {w} /\ inFlight = {} /\ \A q \in AssetRequests : ~Going(q))
    OBVIOUS
  <1>2. PICK j : j = [stage |-> "index", kind |-> "mint", holder |-> NoRow, read |-> asset,
                      alone |-> alone]
    OBVIOUS
  <1>3. /\ j \in AssetJobs /\ j.stage = "index" /\ j.read = asset /\ asset \in AssetState
        /\ j.alone = alone
    BY <1>1, <1>2 DEF AssetJobs, AssetStages, AssetTyped
  <1>4. StepAndWrite(r, j)
    BY <1>1, <1>2 DEF HandleMint, StepAndWrite
  <1>5. JobsMoved(r, j)
    BY <1>3, <1>4, WritingMoves
  <1>6. /\ webhooks' = webhooks \ {w} /\ w.kind = "mint" /\ ajob[r].stage = "idle"
        /\ UNCHANGED <<asset, assetRow, inFlight, events, heard, strayed, gained, clobbered>>
    BY DEF HandleMint
  <1>7. AssetTyped'
    BY <1>5, <1>6 DEF AssetTyped, JobsMoved
  <1>8. Fits(j)' /\ Lonely(r, j)'
    <2>1. \A q \in AssetRequests \ {r} : Going(q)' <=> Going(q)
      BY <1>5 DEF JobsMoved, Going
    <2> QED BY <1>1, <1>3, <1>6, <2>1 DEF Fits, Lonely
  <1>9. AssetJobsSound' /\ AloneSound'
    BY <1>3, <1>5, <1>6, <1>8, JobsKept
  <1>10. EventsSound' /\ FlightsAdd' /\ TraitsKept'
    BY <1>6 DEF EventsSound, FlightsAdd, TraitsKept
  <1>11. Sending => Sending'
    BY <1>5, <1>6 DEF Sending, JobsMoved
  <1>12. /\ Pending("transfer")' = Pending("transfer")
         /\ Pending("state")' = Pending("state")
    BY <1>6 DEF Pending
  <1>13. /\ \A v \in Pending("transfer") : v.kind = "transfer" /\ (Last(v)' <=> Last(v))
         /\ \A v \in Pending("state") : v.kind = "state" /\ (Last(v)' <=> Last(v))
    BY <1>12 DEF Last, Pending
  <1>14. RowTold'
    BY <1>6, <1>11, <1>12, <1>13 DEF RowTold, OwnerTold, UriTold, Repeats, LastTells, Reported
  <1> QED BY <1>7, <1>9, <1>10, <1>14

\* A request writes the row: what was told stays told when it was alone, or when the
\* row does not change.
LEMMA WritingKeeps ==
    ASSUME AssetInv, NEW r \in AssetRequests, NEW j \in AssetJobs, JobsMoved(r, j),
           UNCHANGED <<asset, inFlight, webhooks, events, gained, clobbered>>,
           ajob[r].stage # "send", assetRow' \in AssetState, heard' \in {heard, events},
           strayed' \in BOOLEAN, Fits(j)', Lonely(r, j)',
           ~strayed' =>
              \/ ~strayed /\ UNCHANGED <<assetRow, heard>>
              \/ /\ webhooks = {} /\ assetRow'.owner = asset.owner
                 /\ assetRow'.uri = asset.uri \/ j.stage = "send"
    PROVE  AssetInv'
  <1> USE DEF AssetInv
  <1>1. AssetTyped'
    <2>1. heard' \in 0..events
      BY DEF AssetTyped
    <2> QED BY <2>1 DEF AssetTyped, JobsMoved
  <1>2. AssetJobsSound' /\ AloneSound'
    BY JobsKept, CollectiblesAssumption
  <1>3. EventsSound' /\ FlightsAdd' /\ TraitsKept'
    BY DEF EventsSound, FlightsAdd, TraitsKept
  <1>4. RowTold'
    <2>1. CASE ~strayed /\ UNCHANGED <<assetRow, heard>>
      <3>1. Sending => Sending'
        BY DEF Sending, JobsMoved
      <3> QED BY <2>1, <3>1 DEF RowTold, OwnerTold, UriTold, Repeats, LastTells, Last, Pending,
                 Reported
    <2>2. CASE /\ webhooks = {} /\ assetRow'.owner = asset.owner
               /\ assetRow'.uri = asset.uri \/ j.stage = "send"
      <3>1. \A k : Pending(k)' = {}
        BY <2>2 DEF Pending
      <3>2. j.stage = "send" => Sending'
        BY DEF Sending, JobsMoved
      <3> QED BY <2>2, <3>1, <3>2 DEF RowTold, OwnerTold, UriTold, Repeats, LastTells
    <2> QED BY <2>1, <2>2 DEF RowTold
  <1> QED BY <1>1, <1>2, <1>3, <1>4

\* What a request may rely on while it is alone
LEMMA AloneKnows ==
    ASSUME AssetInv, NEW r \in AssetRequests, Going(r)
    PROVE  /\ ajob[r].read \in AssetState
           /\ ajob[r].alone => /\ webhooks = {}
                               /\ ajob[r].stage = "index" => ajob[r].read = asset
                               /\ ~strayed /\ assetRow # NoRow => assetRow.owner = asset.owner
  BY DEF AssetInv, AssetJobsSound, AloneSound, RowTold, OwnerTold, Pending

\* The row becomes what a request that has no more to do writes.
LEMMA LastWriteKeeps ==
    ASSUME AssetInv, NEW r \in AssetRequests, Going(r), ajob[r].stage # "send",
           StepAndWrite(r, Finished(r)),
           UNCHANGED <<asset, inFlight, webhooks, events, gained, clobbered>>,
           assetRow' \in AssetState, heard' \in {heard, events}, strayed' \in BOOLEAN,
           ~strayed' =>
              \/ ~strayed /\ UNCHANGED <<assetRow, heard>>
              \/ webhooks = {} /\ assetRow'.owner = asset.owner /\ assetRow'.uri = asset.uri
    PROVE  AssetInv'
  <1>1. PICK j : j = Finished(r) /\ j \in AssetJobs /\ ~IsGoing(j)
    BY JobFinished DEF AssetInv
  <1>2. JobsMoved(r, j)
    BY <1>1, WritingMoves DEF AssetInv
  <1>3. Fits(j)' /\ Lonely(r, j)'
    BY <1>1 DEF Fits, Lonely
  <1> QED BY <1>1, <1>2, <1>3, WritingKeeps

LEMMA WritingSteps ==
    ASSUME AssetInv, NEW r \in AssetRequests,
           IndexMinted(r) \/ WriteUnwrapped(r) \/ SignLocked(r) \/ reIndexAsset(r)
    PROVE  AssetInv'
  <1>1. /\ assetRow # NoRow => assetRow \in AssetState
        /\ asset \in AssetState /\ {strayed} \subseteq BOOLEAN
        /\ \A before \in AssetState, read \in AssetState :
             LET new == [before EXCEPT !.uri = read.uri]
             IN  new \in AssetState /\ new.owner = before.owner /\ new.uri = read.uri
    BY DEF AssetInv, AssetTyped, AssetState
  <1>2. CASE IndexMinted(r)
    <2>1. /\ Going(r) /\ ajob[r].stage = "index"
          /\ assetRow' = IF assetRow = NoRow THEN ajob[r].read
                         ELSE [assetRow EXCEPT !.uri = ajob[r].read.uri]
          /\ strayed' = (strayed \/ (~ajob[r].alone /\ assetRow' # assetRow))
      BY <1>2 DEF IndexMinted, RowBecomes, Going
    <2>2. assetRow' \in AssetState
      BY <1>1, <2>1, AloneKnows
    <2>3. ~strayed' => \/ ~strayed /\ UNCHANGED <<assetRow, heard>>
                       \/ /\ webhooks = {} /\ assetRow'.owner = asset.owner
                          /\ assetRow'.uri = asset.uri
      <3>1. heard' = heard
        BY <1>2 DEF IndexMinted
      <3>2. CASE ~ajob[r].alone
        BY <2>1, <3>1, <3>2
      <3>3. CASE ajob[r].alone
        <4>1. /\ webhooks = {} /\ ajob[r].read = asset
              /\ ~strayed /\ assetRow # NoRow => assetRow.owner = asset.owner
          BY <2>1, <3>3, AloneKnows
        <4>2. CASE assetRow = NoRow
          BY <2>1, <4>1, <4>2
        <4>3. CASE assetRow # NoRow
          <5>1. assetRow'.owner = assetRow.owner /\ assetRow'.uri = asset.uri
            BY <1>1, <2>1, <4>1, <4>3
          <5> QED BY <2>1, <4>1, <4>3, <5>1
        <4> QED BY <4>2, <4>3
      <3> QED BY <3>2, <3>3
    <2> QED BY <1>2, <2>1, <2>2, <2>3, LastWriteKeeps DEF IndexMinted
  <1>3. CASE reIndexAsset(r)
    <2>1. /\ Going(r) /\ ajob[r].stage = "index" /\ assetRow' = ajob[r].read
          /\ IF ajob[r].alone
             THEN ~strayed' /\ strayed' \in BOOLEAN /\ heard' = events
             ELSE strayed' = (strayed \/ assetRow' # assetRow) /\ heard' = heard
      BY <1>3 DEF reIndexAsset, Indexed, Going
    <2>2. assetRow' \in AssetState
      BY <2>1, AloneKnows
    <2>3. ~strayed' => \/ ~strayed /\ UNCHANGED <<assetRow, heard>>
                       \/ /\ webhooks = {} /\ assetRow'.owner = asset.owner
                          /\ assetRow'.uri = asset.uri
      BY <2>1, AloneKnows
    <2> QED BY <1>3, <2>1, <2>2, <2>3, LastWriteKeeps DEF reIndexAsset
  <1>4. CASE SignLocked(r)
    <2>1. Going(r) /\ ajob[r].stage = "write" /\ assetRow # NoRow
      BY <1>4 DEF SignLocked, Going, AssetInv, AssetJobsSound
    <2>2. assetRow' \in AssetState
      <3>1. SignedUri(r) \in Uris
        BY <2>1, AloneKnows DEF SignedUri, AssetState, Uris
      <3> QED BY <1>1, <1>4, <2>1, <3>1 DEF SignLocked, AssetState
    <2> QED BY <1>4, <2>1, <2>2, LastWriteKeeps DEF SignLocked
  <1>5. CASE WriteUnwrapped(r)
    <2>1. /\ Going(r) /\ ajob[r].stage = "write" /\ assetRow # NoRow
          /\ ajob[r].read \in AssetState
      BY <1>5 DEF WriteUnwrapped, Going, AssetInv, AssetJobsSound
    <2>2. UnwrappedUri(r) \in Uris
      BY <2>1 DEF UnwrappedUri, AssetState, Uris
    <2>3. assetRow' \in AssetState /\ assetRow'.owner = assetRow.owner
      BY <1>1, <1>5, <2>1, <2>2 DEF WriteUnwrapped, RowBecomes, AssetState
    <2>4. PICK j : j = [ajob[r] EXCEPT !.stage = "send"]
      OBVIOUS
    <2>5. /\ j \in AssetJobs /\ j.stage = "send" /\ j.read = ajob[r].read
          /\ j.alone => ajob[r].alone
      BY <2>4, JobGoes DEF AssetInv, AssetStages
    <2>6. JobsMoved(r, j)
      BY <1>5, <2>4, <2>5, WritingMoves DEF WriteUnwrapped, AssetInv
    <2>7. strayed' = (strayed \/ (~ajob[r].alone /\ assetRow' # assetRow))
      BY <1>5 DEF WriteUnwrapped, RowBecomes
    <2>8. /\ UNCHANGED <<asset, inFlight, webhooks, events, heard, gained, clobbered>>
      BY <1>5 DEF WriteUnwrapped
    <2>9. Fits(j)'
      BY <2>1, <2>3, <2>5, CollectiblesAssumption DEF Fits
    <2>10. Lonely(r, j)'
      <3>1. \A q \in AssetRequests \ {r} : Going(q)' <=> Going(q)
        BY <2>6 DEF JobsMoved, Going
      <3> QED BY <2>1, <2>5, <2>8, <3>1 DEF Lonely, AssetInv, AloneSound
    <2>11. ~strayed' => \/ ~strayed /\ UNCHANGED <<assetRow, heard>>
                        \/ webhooks = {} /\ assetRow'.owner = asset.owner
      BY <2>1, <2>3, <2>7, <2>8, AloneKnows
    <2>12. strayed' \in BOOLEAN
      BY <2>7
    <2> QED BY <2>1, <2>3, <2>5, <2>6, <2>8, <2>9, <2>10, <2>11, <2>12, WritingKeeps
  <1> QED BY <1>2, <1>3, <1>4, <1>5

LEMMA TraitsAdded ==
    ASSUME NEW uri \in Uris, NEW t \in {"used", "signed"}
    PROVE  LET new == [uri EXCEPT ![t] = TRUE]
           IN  new \in Uris /\ TraitsOf(uri) \subseteq TraitsOf(new)
  BY DEF Uris, TraitsOf

\* A transaction is sent, or its sending throws.
LEMMA SendingKeeps ==
    ASSUME AssetInv, NEW r \in AssetRequests, SendUnwrapped(r) \/ SendSigned(r)
    PROVE  AssetInv'
  <1> USE DEF AssetInv
  <1>1. Going(r) /\ ajob[r].read \in AssetState
    BY AloneKnows DEF SendUnwrapped, SendSigned, Going
  <1>2. PICK uri \in Uris : TraitsOf(ajob[r].read.uri) \subseteq TraitsOf(uri) /\ Send(r, uri)
    <2>1. ajob[r].read.uri \in Uris
      BY <1>1 DEF AssetState
    <2>2. /\ UnwrappedUri(r) = [ajob[r].read.uri EXCEPT !["used"] = TRUE]
          /\ SignedUri(r) = [ajob[r].read.uri EXCEPT !["signed"] = TRUE]
      BY DEF UnwrappedUri, SignedUri
    <2> QED BY <2>1, <2>2, TraitsAdded DEF SendUnwrapped, SendSigned
  <1>3. PICK tx \in [base : Uris, uri : Uris] :
          tx = [base |-> ajob[r].read.uri, uri |-> uri]
    BY <1>1, <1>2 DEF AssetState
  <1>4. /\ UNCHANGED <<asset, assetRow, webhooks, events, heard, gained, clobbered>>
        /\ \/ inFlight' = inFlight \cup {tx} /\ UNCHANGED strayed
           \/ inFlight' = inFlight /\ strayed' = TRUE
    BY <1>2, <1>3 DEF Send
  <1>5. PICK j : j = Finished(r) /\ j \in AssetJobs /\ ~IsGoing(j)
    BY JobFinished
  <1>6. JobsMoved(r, j)
    BY <1>2, <1>5, WritingMoves DEF Send
  <1>7. AssetTyped'
    BY <1>4, <1>6 DEF AssetTyped, JobsMoved
  <1>8. AssetJobsSound' /\ AloneSound'
    BY <1>4, <1>5, <1>6, JobsKept DEF Fits, Lonely
  <1>9. EventsSound' /\ TraitsKept'
    BY <1>4 DEF EventsSound, TraitsKept
  <1>10. FlightsAdd'
    BY <1>2, <1>3, <1>4 DEF FlightsAdd
  <1>11. ~strayed' => Sending' /\ ~strayed
    BY <1>4 DEF Sending
  <1>12. RowTold'
    BY <1>4, <1>11 DEF RowTold, OwnerTold, UriTold, Repeats, LastTells, Last, Pending, Reported
  <1> QED BY <1>7, <1>8, <1>9, <1>10, <1>12

-----------------------------------------------------------------------------
LEMMA CollectiblesInitInv == CollectiblesInit => AssetInv
  <1> SUFFICES ASSUME CollectiblesInit
               PROVE  AssetInv
    OBVIOUS
  <1>1. asset \in AssetState
    BY DEF CollectiblesInit, AssetState
  <1>2. \/ assetRow = asset /\ webhooks = {}
        \/ assetRow = NoRow /\ webhooks = {[id |-> 0, kind |-> "mint", value |-> NoRow]}
    BY DEF CollectiblesInit
  <1>3. Resting \in AssetJobs /\ Resting.stage = "idle"
    BY DEF Resting, AssetJobs, AssetStages
  <1>4. /\ inFlight = {} /\ events = 0 /\ heard = 0 /\ strayed = FALSE /\ clobbered = FALSE
        /\ gained = TraitsOf(asset.uri)
        /\ ajob = [r \in AssetRequests |-> Resting]
    BY DEF CollectiblesInit
  <1>5. AssetTyped
    <2>1. webhooks \subseteq Events
      BY <1>2 DEF Events
    <2>2. ajob \in [AssetRequests -> AssetJobs]
      BY <1>3, <1>4
    <2>3. assetRow \in AssetState \cup {NoRow}
      BY <1>1, <1>2
    <2>4. heard \in 0..events /\ events \in Nat
      BY <1>4
    <2> QED BY <1>1, <1>4, <2>1, <2>2, <2>3, <2>4 DEF AssetTyped
  <1>6. AssetJobsSound /\ AloneSound
    BY <1>3, <1>4 DEF AssetJobsSound, AloneSound, Going
  <1>7. EventsSound /\ FlightsAdd /\ TraitsKept
    BY <1>2, <1>4 DEF EventsSound, FlightsAdd, TraitsKept
  <1>8. RowTold
    BY <1>2 DEF RowTold, OwnerTold, UriTold, Repeats, LastTells, Pending
  <1> QED BY <1>5, <1>6, <1>7, <1>8 DEF AssetInv

LEMMA CollectiblesNextInv == AssetInv /\ [CollectiblesNext]_assetVars => AssetInv'
  <1> SUFFICES ASSUME AssetInv, [CollectiblesNext]_assetVars
               PROVE  AssetInv'
    OBVIOUS
  <1>1. CASE CollectiblesNext
    BY <1>1, ChainSteps, LosingKeeps, AnsweringKeeps, MintingKeeps, ReadingSteps, WritingSteps,
       SendingKeeps, CollectiblesAssumption DEF CollectiblesNext
  <1>2. CASE UNCHANGED assetVars
    BY <1>2 DEF assetVars, AssetInv, AssetTyped, AssetJobsSound, AloneSound, Going, EventsSound,
       RowTold, OwnerTold, UriTold, Sending, Repeats, Reported, LastTells, Last, Pending, FlightsAdd,
       TraitsKept
  <1> QED BY <1>1, <1>2

\* What is on its way to the row, and what requests hold, makes up for what it lacks.
THEOREM AssetInvariance == CollectiblesSpec => []AssetInv
  <1> QED BY CollectiblesInitInv, CollectiblesNextInv, PTL DEF CollectiblesSpec

\* At rest the rows say what the chain says, however many transfers, signatures,
\* webhooks and syncs there were, if none of them went astray since the last sync.
THEOREM RowAgreesAlways == CollectiblesSpec => []RowAgrees
  <1>1. ASSUME AssetInv, Quiet, ~strayed, assetRow # NoRow
        PROVE  assetRow = asset
    <2>1. OwnerTold /\ UriTold /\ webhooks = {} /\ inFlight = {}
      BY <1>1 DEF AssetInv, RowTold, Quiet
    <2>2. ~Sending
      BY <1>1 DEF Sending, Quiet, Going
    <2>3. assetRow.owner = asset.owner /\ assetRow.uri = asset.uri
      BY <2>1, <2>2 DEF OwnerTold, UriTold, Pending
    <2> QED BY <1>1, <2>3 DEF AssetInv, AssetTyped, AssetState
  <1>2. AssetInv => RowAgrees
    BY <1>1 DEF RowAgrees
  <1> QED BY <1>2, AssetInvariance, PTL

\* No trait is lost but by a transaction built on another uri.
THEOREM TraitsKeptAlways == CollectiblesSpec => []TraitsKept
  <1>1. AssetInv => TraitsKept
    BY DEF AssetInv
  <1> QED BY <1>1, AssetInvariance, PTL

-----------------------------------------------------------------------------
(* The audience: what a snapshot counts                                    *)

Whats == Dated \cup (Issues \X {"opened", "rated"}) \cup {<<Comic, "rated">>}
Times == Nat \cup {Never}
Upserts == [reader : Readers, what : Whats, at : Times]

IsTake(t) ==
    /\ t = [stage |-> t.stage, date |-> t.date, day |-> t.day, dataDay |-> t.dataDay,
            left |-> t.left, followers |-> t.followers, likes |-> t.likes,
            readers |-> t.readers, views |-> t.views, lost |-> t.lost]
    /\ t.date \in Times /\ t.day \in Int /\ t.dataDay \in Int /\ t.lost \in BOOLEAN

AudienceTyped ==
    /\ moment \in Nat
    /\ dates \in [Readers \X Dated -> Times]
    /\ pending \in [AudienceRequests -> [served : BOOLEAN, upserts : SUBSET Upserts]]
    /\ take = [s \in Takes |-> take[s]]
    /\ \A s \in Takes : IsTake(take[s])

\* What has been counted of the parts a snapshot has done with
CountedSoFar(s) ==
    \A u \in Readers, d \in Dated :
        /\ d = Followed \/ d[1] \notin take[s].left
        /\ OfDay(dates[<<u, d>>], take[s].day) /\ <<u, d, dates[<<u, d>>]>> \notin tardy
        => \E c \in counted : c.take = s /\ c.reader = u /\ c.what = d /\ c.at = dates[<<u, d>>]

IsMidnight(t) == t \in Int /\ t % Day = 0

TakeSound(s) ==
    /\ take[s].stage \in {"creators", "counting"} => IsMidnight(take[s].day)
    /\ take[s].stage = "creators" => take[s].left = Issues \cup {Comic}
    /\ take[s].stage = "counting" => IsMidnight(take[s].dataDay)
    /\ take[s].stage = "done" => take[s].left = {}
    /\ take[s].stage \in {"counting", "done"} /\ ~take[s].lost /\ ~Crossed(s) => CountedSoFar(s)
TakesSound == \A s \in Takes : TakeSound(s)

\* A date is counted for the day it is of, which ends at a midnight.
CountsSound == \A c \in counted : c.at \in Int /\ IsMidnight(c.day) /\ OfDay(c.at, c.day)

AudienceInv == AudienceTyped /\ TakesSound /\ CountsSound

LEMMA StartsOfDays ==
    ASSUME NEW t \in Nat
    PROVE  IsMidnight(startOfDay(t))
  BY DEF IsMidnight, startOfDay, Day

\* A moment is of one day.
LEMMA OneDay ==
    ASSUME NEW t \in Int, NEW a, NEW b, IsMidnight(a), IsMidnight(b), OfDay(t, a), OfDay(t, b)
    PROVE  a = b
  BY DEF IsMidnight, OfDay, Day

LEMMA MomentsPast == Moments \subseteq Nat /\ FirstMoment \in Nat
  BY AudienceAssumption DEF Moments, FirstMoment, Day

\* Readers: what they write for a day that was begun is tardy.
LEMMA ReadingKeepsCounts ==
    ASSUME AudienceInv, NEW u \in Readers, NEW d \in Dated, NEW at \in Times,
           WriteDate(u, d, at) \/ UNCHANGED <<dates, tardy>>, UNCHANGED <<take, counted>>
    PROVE  dates' \in [Readers \X Dated -> Times] /\ TakesSound' /\ CountsSound'
  <1>1. dates' \in [Readers \X Dated -> Times]
    BY DEF AudienceInv, AudienceTyped, WriteDate
  <1>2. CountsSound'
    BY DEF AudienceInv, CountsSound
  <1>3. ASSUME NEW s \in Takes, CountedSoFar(s), take[s].stage # "idle"
        PROVE  CountedSoFar(s)'
    <2>1. CASE UNCHANGED <<dates, tardy>>
      BY <1>3, <2>1, ZenonT(60) DEF CountedSoFar
    <2>2. CASE WriteDate(u, d, at)
      <3>1. /\ dates'[<<u, d>>] = at
            /\ \A v \in Readers, e \in Dated : <<v, e>> # <<u, d>> => dates'[<<v, e>>] = dates[<<v, e>>]
            /\ tardy \subseteq tardy'
            /\ OfDay(at, take[s].day) => <<u, d, at>> \in tardy'
        BY <1>3, <2>2 DEF WriteDate, AudienceInv, AudienceTyped
      <3> SUFFICES ASSUME NEW v \in Readers, NEW e \in Dated,
                          e = Followed \/ e[1] \notin take[s].left,
                          OfDay(dates'[<<v, e>>], take[s].day), <<v, e, dates'[<<v, e>>]>> \notin tardy'
                   PROVE  \E c \in counted : /\ c.take = s /\ c.reader = v /\ c.what = e
                                             /\ c.at = dates'[<<v, e>>]
        BY DEF CountedSoFar
      <3>2. <<v, e>> # <<u, d>>
        BY <3>1
      <3> QED BY <1>3, <3>1, <3>2 DEF CountedSoFar
    <2> QED BY <2>1, <2>2
  <1>4. TakesSound'
    BY <1>3 DEF AudienceInv, TakesSound, TakeSound, Crossed
  <1> QED BY <1>1, <1>2, <1>4

LEMMA AsksKeep ==
    ASSUME AudienceInv, NEW r \in AudienceRequests, NEW upserts \in SUBSET Upserts,
           Asked(r, upserts)
    PROVE  AudienceInv'
  <1>1. AudienceTyped'
    BY DEF AudienceInv, AudienceTyped, Asked, rowVars
  <1>2. TakesSound' /\ CountsSound'
    BY DEF AudienceInv, TakesSound, TakeSound, Crossed, CountedSoFar, CountsSound, Asked, rowVars
  <1> QED BY <1>1, <1>2 DEF AudienceInv

LEMMA ReadersStep ==
    ASSUME AudienceInv, NEW r \in AudienceRequests, RequestStep(r)
    PROVE  AudienceInv'
  <1>1. /\ moment \in Times /\ Never \in Times
        /\ \A i \in Issues : /\ {<<i, "favourited">>, <<i, "read">>, <<i, "viewed">>} \subseteq Dated
                             /\ {<<i, "opened">>, <<i, "rated">>} \subseteq Whats
        /\ {<<Comic, "viewed">>, <<Comic, "favourited">>, <<Comic, "bookmarked">>, Followed}
             \subseteq Dated
        /\ <<Comic, "rated">> \in Whats /\ Dated \subseteq Whats
    BY DEF AudienceInv, AudienceTyped, Times, Whats, Dated, OfIssue, OfComic, Followed
  <1>2. \A u \in Readers, d \in Whats, at \in Times : Upsert(u, d, at) \in Upserts
    BY DEF Upsert, Upserts
  <1>3. \A u \in Readers, d \in Dated : toggleDate(u, d) \in Upserts
    BY <1>1, <1>2 DEF toggleDate
  <1>4. CASE favourite(r) \/ favouritise(r) \/ bookmark(r) \/ follow(r)
    BY <1>1, <1>3, <1>4, AsksKeep DEF favourite, favouritise, bookmark, follow
  <1>5. CASE getUserStats(r) \/ getAndUpdateUserStats(r) \/ getPages(r) \/ rate(r) \/ rateComic(r)
    BY <1>1, <1>2, <1>5, AsksKeep, ZenonT(60) DEF getUserStats, getAndUpdateUserStats, getPages, rate,
       rateComic, Opening
  <1>6. ASSUME NEW w \in pending[r].upserts
        PROVE  w.reader \in Readers /\ w.what \in Whats /\ w.at \in Times
    BY <1>6 DEF AudienceInv, AudienceTyped, Upserts
  <1>7. ASSUME NEW w \in pending[r].upserts, NEW next \in SUBSET Upserts, Settled(r, w, next)
        PROVE  pending' \in [AudienceRequests -> [served : BOOLEAN, upserts : SUBSET Upserts]]
    BY <1>7 DEF AudienceInv, AudienceTyped, Settled
  <1>8. NoUpsert \in SUBSET Upserts
    BY DEF NoUpsert
  <1>9. CASE Write(r)
    <2>1. PICK w \in pending[r].upserts :
            /\ w.what \in Dated /\ WriteDate(w.reader, w.what, w.at) /\ Settled(r, w, NoUpsert)
            /\ UNCHANGED <<moment, take, counted>>
      BY <1>9 DEF Write
    <2> QED BY <1>6, <1>7, <1>8, <2>1, ReadingKeepsCounts DEF AudienceInv, AudienceTyped
  <1>10. CASE WriteOpening(r)
    <2>1. PICK w \in pending[r].upserts :
            /\ w.what[2] = "opened"
            /\ \E what \in {"read", "viewed"} : WriteDate(w.reader, <<w.what[1], what>>, w.at)
            /\ Settled(r, w, {Upsert(w.reader, <<Comic, "viewed">>, moment)})
            /\ UNCHANGED <<moment, take, counted>>
      BY <1>10 DEF WriteOpening
    <2>2. w.what[1] \in Issues
      BY <1>6, <2>1 DEF Whats, Dated, OfIssue, OfComic, Followed
    <2>3. {Upsert(w.reader, <<Comic, "viewed">>, moment)} \in SUBSET Upserts
      BY <1>1, <1>2, <1>6
    <2>4. PICK d \in Dated : WriteDate(w.reader, d, w.at)
      BY <1>1, <2>1, <2>2
    <2> QED BY <1>6, <1>7, <2>1, <2>3, <2>4, ReadingKeepsCounts DEF AudienceInv, AudienceTyped
  <1>11. CASE WriteRating(r) \/ WriteRefused(r)
    <2>1. PICK w \in pending[r].upserts :
            Settled(r, w, NoUpsert) /\ UNCHANGED <<moment, dates, take, counted, tardy>>
      BY <1>11 DEF WriteRating, WriteRefused
    <2>2. AudienceTyped'
      BY <1>7, <1>8, <2>1 DEF AudienceInv, AudienceTyped
    <2>3. TakesSound' /\ CountsSound'
      BY <2>1 DEF AudienceInv, TakesSound, TakeSound, Crossed, CountedSoFar, CountsSound
    <2> QED BY <2>2, <2>3 DEF AudienceInv
  <1> QED BY <1>4, <1>5, <1>9, <1>10, <1>11 DEF RequestStep

\* One snapshot goes on, and what was counted stays.
LEMMA TakeKeeps ==
    ASSUME AudienceInv, NEW s \in Takes, NEW t, IsTake(t), take' = [take EXCEPT ![s] = t],
           counted \subseteq counted', CountsSound', UNCHANGED <<moment, dates, pending, tardy>>,
           TakeSound(s)'
    PROVE  AudienceInv'
  <1>1. take' = [q \in Takes |-> take'[q]] /\ take'[s] = t
        /\ \A q \in Takes \ {s} : take'[q] = take[q]
    BY DEF AudienceInv, AudienceTyped
  <1>2. AudienceTyped'
    <2>1. \A q \in Takes : IsTake(take'[q])
      BY <1>1 DEF AudienceInv, AudienceTyped
    <2> QED BY <1>1, <2>1 DEF AudienceInv, AudienceTyped, IsTake
  <1>3. ASSUME NEW q \in Takes \ {s}
        PROVE  TakeSound(q)'
    <2>1. /\ take'[q] = take[q] /\ counted \subseteq counted' /\ dates' = dates
          /\ tardy' = tardy
      BY <1>1
    <2>2. CountedSoFar(q) => CountedSoFar(q)'
      <3> SUFFICES ASSUME CountedSoFar(q), NEW u \in Readers, NEW d \in Dated,
                          d = Followed \/ d[1] \notin take'[q].left,
                          OfDay(dates'[<<u, d>>], take'[q].day), <<u, d, dates'[<<u, d>>]>> \notin tardy'
                   PROVE  \E c \in counted' : /\ c.take = q /\ c.reader = u /\ c.what = d
                                              /\ c.at = dates'[<<u, d>>]
        BY ZenonT(60) DEF CountedSoFar
      <3>0. d = Followed \/ d[1] \notin take[q].left
        BY <2>1
      <3>1. OfDay(dates[<<u, d>>], take[q].day) /\ <<u, d, dates[<<u, d>>]>> \notin tardy
        BY <2>1
      <3>2. PICK c \in counted : c.take = q /\ c.reader = u /\ c.what = d /\ c.at = dates[<<u, d>>]
        BY <3>0, <3>1 DEF CountedSoFar
      <3> QED BY <2>1, <3>2
    <2> QED BY <2>1, <2>2 DEF AudienceInv, TakesSound, TakeSound, Crossed
  <1>4. TakesSound'
    BY <1>3 DEF TakesSound
  <1> QED BY <1>2, <1>4 DEF AudienceInv

\* What a snapshot notes of some columns is what they hold of the day.
LEMMA NotedCounts ==
    ASSUME AudienceInv, NEW s \in Takes, NEW whats \in SUBSET Dated, NEW midnight,
           IsMidnight(midnight), Noted(s, whats, midnight)
    PROVE  /\ counted \subseteq counted' /\ CountsSound'
           /\ \A u \in Readers, d \in whats : OfDay(dates[<<u, d>>], midnight) =>
                \E c \in counted' : /\ c.take = s /\ c.reader = u /\ c.what = d
                                    /\ c.at = dates[<<u, d>>]
  <1>1. \A u \in Readers, d \in Dated : dates[<<u, d>>] \in Int
    BY DEF AudienceInv, AudienceTyped, Times, Never
  <1> DEFINE entry(u, d) ==
        [take |-> s, day |-> midnight, reader |-> u, what |-> d, at |-> dates[<<u, d>>]]
  <1>2. counted \subseteq counted'
    BY DEF Noted
  <1>3. \A u \in Readers, d \in whats : OfDay(dates[<<u, d>>], midnight) => entry(u, d) \in counted'
    BY DEF Noted, CountedBy
  <1>4. ASSUME NEW c \in counted'
        PROVE  c.at \in Int /\ IsMidnight(c.day) /\ OfDay(c.at, c.day)
    <2>1. CASE c \in counted
      BY <2>1 DEF AudienceInv, CountsSound
    <2>2. CASE c \notin counted
      <3>1. PICK d \in whats : \E u \in CountedBy(d, midnight) : c = entry(u, d)
        BY <1>4, <2>2 DEF Noted
      <3>2. PICK u \in CountedBy(d, midnight) : c = entry(u, d)
        BY <3>1
      <3>3. u \in Readers /\ OfDay(dates[<<u, d>>], midnight)
        BY DEF CountedBy
      <3>4. c.at = dates[<<u, d>>] /\ c.day = midnight
        BY <3>2
      <3>5. dates[<<u, d>>] \in Int
        BY <1>1, <3>3
      <3> QED BY <3>3, <3>4, <3>5
    <2> QED BY <2>1, <2>2
  <1>5. CountsSound'
    BY <1>4 DEF CountsSound
  <1> QED BY <1>2, <1>3, <1>5

LEMMA AddedKeeps ==
    ASSUME AudienceInv, NEW s \in Takes, NEW part, NEW likes, NEW readers, NEW views,
           NEW lost \in BOOLEAN, NEW whats \in SUBSET Dated, take[s].stage = "counting",
           Added(s, part, likes, readers, views, lost), Noted(s, whats, take[s].dataDay),
           \A d \in Dated : d[1] = part => d \in whats \/ d = Followed,
           UNCHANGED readerVars
    PROVE  AudienceInv'
  <1>1. take'[s] = [take[s] EXCEPT !.left = take[s].left \ {part},
                                   !.likes = take[s].likes + likes,
                                   !.readers = take[s].readers + readers,
                                   !.views = take[s].views + views,
                                   !.lost = take[s].lost \/ lost]
    BY DEF Added, AudienceInv, AudienceTyped
  <1>2. take' = [take EXCEPT ![s] = take'[s]]
    BY <1>1 DEF Added
  <1>3. IsTake(take[s])
    BY DEF AudienceInv, AudienceTyped
  <1>4. PICK before : before = take[s]
    OBVIOUS
  <1>5. PICK t : t = take'[s]
    OBVIOUS
  <1>6. /\ IsTake(t) /\ t.stage = before.stage /\ t.day = before.day /\ t.dataDay = before.dataDay
        /\ t.left = before.left \ {part} /\ (before.lost => t.lost)
    BY <1>1, <1>3, <1>4, <1>5 DEF IsTake
  <1>7. TakeSound(s) /\ IsMidnight(before.dataDay) /\ IsMidnight(before.day)
    BY <1>4 DEF AudienceInv, TakesSound, TakeSound
  <1>8. /\ counted \subseteq counted' /\ CountsSound'
        /\ \A u \in Readers, d \in whats : OfDay(dates[<<u, d>>], before.dataDay) =>
             \E c \in counted' : /\ c.take = s /\ c.reader = u /\ c.what = d
                                 /\ c.at = dates[<<u, d>>]
    BY <1>4, <1>7, NotedCounts
  <1>9. UNCHANGED <<moment, dates, pending, tardy>>
    BY DEF readerVars
  <1>10. ASSUME CountedSoFar(s), before.dataDay = before.day
         PROVE  CountedSoFar(s)'
    <2> SUFFICES ASSUME NEW u \in Readers, NEW d \in Dated,
                        d = Followed \/ d[1] \notin take'[s].left,
                        OfDay(dates'[<<u, d>>], take'[s].day), <<u, d, dates'[<<u, d>>]>> \notin tardy'
                 PROVE  \E c \in counted' : /\ c.take = s /\ c.reader = u /\ c.what = d
                                            /\ c.at = dates'[<<u, d>>]
      BY DEF CountedSoFar
    <2>3. /\ d = Followed \/ d[1] \notin before.left \/ d[1] = part
          /\ OfDay(dates[<<u, d>>], before.day) /\ <<u, d, dates[<<u, d>>]>> \notin tardy
          /\ dates' = dates
      BY <1>5, <1>6, <1>9
    <2>1. CASE d \in whats
      BY <1>8, <1>10, <2>1, <2>3
    <2>2. CASE d = Followed \/ d[1] \notin before.left
      <3>1. PICK c \in counted : c.take = s /\ c.reader = u /\ c.what = d /\ c.at = dates[<<u, d>>]
        BY <1>4, <1>10, <2>2, <2>3 DEF CountedSoFar
      <3> QED BY <1>8, <2>3, <3>1
    <2> QED BY <2>1, <2>2, <2>3
  <1>11. TakeSound(s)'
    BY <1>4, <1>5, <1>6, <1>7, <1>10 DEF TakeSound, Crossed
  <1> QED BY <1>2, <1>5, <1>6, <1>8, <1>9, <1>11, TakeKeeps

\* A snapshot that is finished, or begun, or given up
LEMMA TakeMoves ==
    ASSUME AudienceInv, NEW s \in Takes, NEW t, IsTake(t), take' = [take EXCEPT ![s] = t],
           UNCHANGED <<counted, readerVars>>,
           \/ t.stage = "creators" /\ IsMidnight(t.day) /\ t.left = Issues \cup {Comic}
           \/ t.stage = "done" /\ t.left = {} /\ t.lost
           \/ /\ t.stage = "done" /\ t.left = {} /\ t.day = take[s].day
              /\ t.dataDay = take[s].dataDay /\ (take[s].lost => t.lost)
              /\ take[s].stage = "counting" /\ take[s].left = {}
    PROVE  AudienceInv'
  <1>1. take'[s] = t /\ CountsSound' /\ UNCHANGED <<moment, dates, pending, tardy>>
    BY DEF AudienceInv, AudienceTyped, CountsSound, readerVars
  <1>2. TakeSound(s)
    BY DEF AudienceInv, TakesSound
  <1>3. TakeSound(s)'
    BY <1>1, <1>2 DEF TakeSound, CountedSoFar, Crossed
  <1> QED BY <1>1, <1>3, TakeKeeps

LEMMA SnapshotsStep ==
    ASSUME AudienceInv, NEW s \in Takes, TakeStep(s)
    PROVE  AudienceInv'
  <1>1. IsTake(take[s]) /\ moment \in Nat /\ TakeSound(s)
    BY DEF AudienceInv, AudienceTyped, TakesSound
  <1>2. CASE snapshot(s)
    <2>1. PICK date \in {Never} \cup Noons :
            take' = [take EXCEPT ![s] =
               Take("creators", date, startOfDay(IF date # Never THEN date ELSE moment),
                    Never, Issues \cup {Comic}, FALSE)]
      BY <1>2 DEF snapshot
    <2>2. date \in Times /\ (date # Never => date \in Nat) /\ Never \in Int
      BY MomentsPast DEF Noons, Times, Never
    <2>3. PICK day : /\ day = startOfDay(IF date # Never THEN date ELSE moment)
                     /\ IsMidnight(day)
      BY <1>1, <2>2, StartsOfDays
    <2>4. PICK t : t = Take("creators", date, day, Never, Issues \cup {Comic}, FALSE)
      OBVIOUS
    <2>5. IsTake(t) /\ t.stage = "creators" /\ t.day = day /\ t.left = Issues \cup {Comic}
      BY <2>2, <2>3, <2>4 DEF IsMidnight, Take, IsTake
    <2>6. take' = [take EXCEPT ![s] = t]
      BY <2>1, <2>3, <2>4
    <2> QED BY <1>2, <2>3, <2>5, <2>6, TakeMoves DEF snapshot
  <1>3. CASE StartCreator(s)
    <2>1. PICK n : n = CountOf(Followed, take[s].day)
      OBVIOUS
    <2>2. PICK day : day = DayOf(s) /\ IsMidnight(day)
      BY <1>1, StartsOfDays DEF DayOf, IsTake, Times
    <2>3. PICK t : t = [take[s] EXCEPT !.stage = "counting", !.dataDay = day, !.followers = n]
      OBVIOUS
    <2>4. take' = [take EXCEPT ![s] = t] /\ take[s].stage = "creators"
      BY <1>3, <2>1, <2>2, <2>3 DEF StartCreator
    <2>5. IsTake(t) /\ t.stage = "counting" /\ t.day = take[s].day /\ t.dataDay = day
          /\ t.left = take[s].left
      BY <1>1, <2>2, <2>3 DEF IsTake, IsMidnight
    <2>6. IsMidnight(take[s].day) /\ Followed \in Dated /\ t.left = Issues \cup {Comic}
      BY <1>1, <2>4, <2>5 DEF TakeSound, Dated
    <2>7. /\ counted \subseteq counted' /\ CountsSound'
          /\ \A u \in Readers, d \in {Followed} : OfDay(dates[<<u, d>>], take[s].day) =>
               \E c \in counted' : /\ c.take = s /\ c.reader = u /\ c.what = d
                                   /\ c.at = dates[<<u, d>>]
      BY <1>3, <2>6, NotedCounts DEF StartCreator
    <2>8. take'[s] = t
      BY <2>4 DEF AudienceInv, AudienceTyped
    <2>9. \A d \in Dated : d = Followed \/ d[1] \in Issues \cup {Comic}
      BY DEF Dated, OfIssue, OfComic
    <2>10. UNCHANGED <<moment, dates, pending, tardy>>
      BY <1>3 DEF StartCreator, readerVars
    <2>11. CountedSoFar(s)'
      <3> SUFFICES ASSUME NEW u \in Readers, OfDay(dates[<<u, Followed>>], take[s].day)
                   PROVE  \E c \in counted' : /\ c.take = s /\ c.reader = u /\ c.what = Followed
                                              /\ c.at = dates[<<u, Followed>>]
        BY <2>5, <2>6, <2>8, <2>9, <2>10 DEF CountedSoFar
      <3> QED BY <2>7
    <2>12. TakeSound(s)'
      BY <2>2, <2>5, <2>6, <2>8, <2>11 DEF TakeSound
    <2> QED BY <2>4, <2>5, <2>7, <2>10, <2>12, TakeKeeps
  <1>4. CASE getComicIssueData(s)
    <2>1. MayLose \subseteq BOOLEAN
      BY DEF MayLose
    <2>2. PICK i \in Issues : \E lost \in BOOLEAN : \E likes, readers, views :
              /\ Added(s, i, likes, readers, views, lost)
              /\ Noted(s, {i} \X {"favourited", "read", "viewed"}, take[s].dataDay)
      BY <1>4, <2>1 DEF getComicIssueData
    <2>3. PICK whats \in SUBSET Dated : whats = {i} \X {"favourited", "read", "viewed"}
      BY <2>2 DEF Dated, OfIssue
    <2>4. \A d \in Dated : d[1] = i => d \in whats \/ d = Followed
      BY <2>2, <2>3, AudienceAssumption DEF Dated, OfIssue, OfComic, Comic
    <2> QED BY <1>4, <2>2, <2>3, <2>4, AddedKeeps DEF getComicIssueData
  <1>5. CASE getComicData(s)
    <2>1. PICK lost \in BOOLEAN : \E likes, readers, views :
              /\ Added(s, Comic, likes, readers, views, lost)
              /\ Noted(s, OfComic, take[s].dataDay)
      BY <1>5 DEF getComicData, MayLose
    <2>2. /\ OfComic \in SUBSET Dated
          /\ \A d \in Dated : d[1] = Comic => d \in OfComic \/ d = Followed
      BY AudienceAssumption DEF Dated, OfIssue, OfComic, Comic
    <2> QED BY <1>5, <2>1, <2>2, AddedKeeps DEF getComicData
  <1>6. CASE WriteCreator(s) \/ TakeFails(s)
    <2>1. PICK lost \in BOOLEAN : /\ take' = [take EXCEPT ![s] = Done(take[s], lost)]
                                  /\ \/ take[s].stage = "counting" /\ take[s].left = {}
                                     \/ lost
                                  /\ take[s].lost => lost
      BY <1>1, <1>6 DEF WriteCreator, TakeFails, IsTake, MayLose
    <2>2. PICK t : t = Done(take[s], lost)
      OBVIOUS
    <2>3. /\ IsTake(t) /\ t.stage = "done" /\ t.left = {} /\ t.day = take[s].day
          /\ t.dataDay = take[s].dataDay /\ t.lost = lost
      BY <1>1, <2>2 DEF Done, Take, IsTake, Times
    <2>4. take' = [take EXCEPT ![s] = t] /\ UNCHANGED <<counted, readerVars>>
      BY <1>6, <2>1, <2>2 DEF WriteCreator, TakeFails
    <2> QED BY <2>1, <2>3, <2>4, TakeMoves
  <1> QED BY <1>2, <1>3, <1>4, <1>5, <1>6 DEF TakeStep

LEMMA AudienceStarts == AudienceInit => AudienceInv
  <1> SUFFICES ASSUME AudienceInit PROVE AudienceInv
    OBVIOUS
  <1>1. /\ moment \in Nat /\ take = [s \in Takes |-> take[s]]
        /\ pending \in [AudienceRequests -> [served : BOOLEAN, upserts : SUBSET Upserts]]
    BY MomentsPast DEF AudienceInit, NoUpsert
  <1>2. dates \in [Readers \X Dated -> Times]
    BY MomentsPast DEF AudienceInit, Times
  <1>3. ASSUME NEW s \in Takes
        PROVE  IsTake(take[s]) /\ take[s].stage = "idle"
    <2>1. take[s] = Take("idle", Never, Never, Never, {}, FALSE)
      BY DEF AudienceInit
    <2> QED BY <2>1 DEF Take, IsTake, Times, Never
  <1>4. TakesSound
    BY <1>3 DEF TakesSound, TakeSound
  <1>5. CountsSound
    BY DEF AudienceInit, CountsSound
  <1> QED BY <1>1, <1>2, <1>3, <1>4, <1>5 DEF AudienceInv, AudienceTyped

\* The dates and the snapshots stay as described.
THEOREM AudienceInvariance == AudienceSpec => []AudienceInv
  <1>1. ASSUME AudienceInv, AudienceNext
        PROVE  AudienceInv'
    <2>1. CASE Tick
      <3>1. AudienceTyped'
        BY <1>1, <2>1 DEF Tick, AudienceInv, AudienceTyped, Moments, FirstMoment
      <3>2. TakesSound' /\ CountsSound'
        BY <1>1, <2>1 DEF Tick, AudienceInv, TakesSound, TakeSound, Crossed, CountedSoFar,
           CountsSound
      <3> QED BY <3>1, <3>2 DEF AudienceInv
    <2> QED BY <1>1, <2>1, ReadersStep, SnapshotsStep DEF AudienceNext
  <1>2. ASSUME AudienceInv, UNCHANGED audienceVars
        PROVE  AudienceInv'
    BY <1>2 DEF audienceVars, rowVars, AudienceInv, AudienceTyped, TakesSound, TakeSound, Crossed,
       CountedSoFar, CountsSound
  <1> QED BY <1>1, <1>2, AudienceStarts, PTL DEF AudienceSpec

\* getComicIssueData, getComicData and their callers: what a reader did counts for one
\* day only, its own, and everything of a day is counted that was there in time.
THEOREM DaysCountedAlways == AudienceSpec => []DaysCounted
  <1>1. ASSUME AudienceInv
        PROVE  DaysCounted
    <2>1. ASSUME NEW c \in counted, NEW e \in counted, c.at = e.at
          PROVE  c.day = e.day
      BY <1>1, <2>1, OneDay DEF AudienceInv, CountsSound
    <2>2. ASSUME NEW s \in Takes, take[s].stage = "done", ~take[s].lost, ~Crossed(s)
          PROVE  CountedSoFar(s) /\ take[s].left = {}
      BY <1>1, <2>2 DEF AudienceInv, TakesSound, TakeSound
    <2> QED BY <2>1, <2>2 DEF DaysCounted, CountedSoFar
  <1> QED BY <1>1, AudienceInvariance, PTL

-----------------------------------------------------------------------------
(* Works and prints: what webhooks have yet to tell                        *)

SaleRows == [terms : Terms, minted : Nat]

\* What is told of a sale, of a purchase and of a work that changed hands
Tidings ==
    [id : Nat, kind : {"init"}, work : {"collection"}, value : Terms]
        \cup [id : Nat, kind : {"buy"}, work : Prints, value : Buyers]
        \cup [id : Nat, kind : {"transfer"}, work : Prints \cup {"single"}, value : Buyers]

EditionJobs ==
    [stage : EditionStages, what : Registered \cup {"none", "buy", "autograph"},
     wallet : Buyers \cup {NoWork}, read : WorkState \cup {NoWork}]

EditionsTyped ==
    /\ happened \in Nat /\ adrift \in BOOLEAN
    /\ work \in [Works -> WorkState \cup {NoWork}]
    /\ workRow \in [Works -> WorkState \cup {NoWork}]
    /\ sale \in Terms \cup {NoSale} /\ saleRow \in SaleRows \cup {NoSale}
    /\ told \subseteq Tidings
    /\ ejob \in [EditionRequests -> EditionJobs]

\* One webhook of each change, of what is on chain; the purchase is a print's first.
ToldSound ==
    /\ \A e \in told : /\ e.id <= happened
                       /\ e.kind = "init" => e.value = sale
                       /\ e.kind # "init" => work[e.work] # NoWork
    /\ \A e, d \in told : e.id = d.id => e = d
    /\ \A e, d \in told : e.kind = "buy" /\ d.work = e.work => e.id <= d.id

\* Who owns a work is said by the last of these, and by its row when there is none.
Owning(w) == {e \in told : e.work = w /\ e.kind # "init"}
LastOwns(w) ==
    ~adrift => \A e \in Owning(w) : (\A d \in Owning(w) : d.id <= e.id) => e.value = work[w].owner

RowSound(w) ==
    /\ workRow[w] # NoWork => work[w] # NoWork /\ workRow[w].number = work[w].number
    /\ workRow[w] # NoWork /\ ~adrift /\ Owning(w) = {} => workRow[w].owner = work[w].owner
    /\ w \in Prints /\ work[w] # NoWork /\ workRow[w] = NoWork /\ ~adrift =>
         \E e \in told : e.kind = "buy" /\ e.work = w
    /\ workRow[w] # NoWork /\ ~adrift =>
         \A e \in told : e.kind = "buy" /\ e.work = w => workRow[w].owner = e.value

\* What a registration has fetched, and who signs a purchase
EditionJobSound(r) ==
    /\ Doing(r, "buy", "sign") => ejob[r].wallet \in Buyers
    /\ \A w \in Registered : Doing(r, w, "create") =>
         /\ work[w] # NoWork /\ ejob[r].read # NoWork /\ ejob[r].read.number = work[w].number
         /\ workRow[w] = NoWork /\ ~adrift /\ Owning(w) = {} => ejob[r].read.owner = work[w].owner

SaleSound ==
    /\ saleRow # NoSale => sale # NoSale /\ saleRow.terms = sale
    /\ sale # NoSale /\ saleRow = NoSale /\ ~adrift => \E e \in told : e.kind = "init"

EditionsInv ==
    /\ EditionsTyped /\ ToldSound /\ SaleSound
    /\ \A w \in Works : LastOwns(w) /\ RowSound(w)
    /\ \A r \in EditionRequests : EditionJobSound(r)

LEMMA TidingsAre ==
    ASSUME NEW e \in Tidings
    PROVE  /\ e.id \in Nat /\ e.work \in Works
           /\ \/ e.kind = "init" /\ e.work = "collection" /\ e.value \in Terms
              \/ e.kind = "buy" /\ e.work \in Prints /\ e.value \in Buyers
              \/ e.kind = "transfer" /\ e.work \in Prints \cup {"single"} /\ e.value \in Buyers
  BY DEF Tidings, Works, Registered

\* Requests that read, wait or give up
LEMMA RequestsKeep ==
    ASSUME EditionsInv, UNCHANGED <<work, workRow, sale, saleRow, told, happened, adrift>>,
           ejob' \in [EditionRequests -> EditionJobs], \A r \in EditionRequests : EditionJobSound(r)'
    PROVE  EditionsInv'
  <1>1. EditionsTyped' /\ ToldSound' /\ SaleSound'
    BY DEF EditionsInv, EditionsTyped, ToldSound, SaleSound
  <1>2. \A w \in Works : LastOwns(w)' /\ RowSound(w)'
    BY DEF EditionsInv, LastOwns, RowSound, Owning
  <1> QED BY <1>1, <1>2 DEF EditionsInv

\* A request that changes its own job
LEMMA OneJob ==
    ASSUME EditionsInv, NEW r \in EditionRequests, NEW j \in EditionJobs, Become(r, j),
           UNCHANGED <<work, workRow, told, adrift>>,
           j.what = "buy" => j.wallet \in Buyers,
           j.stage = "create" =>
             \A w \in Registered : j.what = w =>
               /\ work[w] # NoWork /\ j.read # NoWork /\ j.read.number = work[w].number
               /\ ~adrift /\ Owning(w) = {} => j.read.owner = work[w].owner
    PROVE  /\ ejob' \in [EditionRequests -> EditionJobs]
           /\ \A q \in EditionRequests : EditionJobSound(q)'
  <1>1. /\ ejob' \in [EditionRequests -> EditionJobs] /\ ejob'[r] = j
        /\ \A q \in EditionRequests \ {r} : ejob'[q] = ejob[q]
    BY DEF Become, EditionsInv, EditionsTyped
  <1>2. EditionJobSound(r)'
    BY <1>1 DEF EditionJobSound, Doing, Owning
  <1>3. ASSUME NEW q \in EditionRequests \ {r}
        PROVE  EditionJobSound(q)'
    BY <1>1, SMTT(60) DEF EditionsInv, EditionJobSound, Doing, Owning
  <1> QED BY <1>1, <1>2, <1>3

LEMMA Jobs ==
    ASSUME EditionsInv, NEW r \in EditionRequests
    PROVE  /\ Still \in EditionJobs /\ ejob[r] \in EditionJobs
           /\ [Still EXCEPT !.stage = "done"] \in EditionJobs
           /\ [Still EXCEPT !.stage = "done"].stage = "done"
           /\ [Still EXCEPT !.stage = "done"].what = "none"
           /\ \A stage \in EditionStages : [ejob[r] EXCEPT !.stage = stage] \in EditionJobs
           /\ \A what \in Registered \cup {"buy", "autograph"}, stage \in EditionStages,
                 wallet \in Buyers \cup {NoWork} :
                [Still EXCEPT !.what = what, !.stage = stage, !.wallet = wallet] \in EditionJobs
  BY DEF EditionsInv, EditionsTyped, EditionJobs, EditionStages, Still

LEMMA LeavingKeeps ==
    ASSUME EditionsInv, NEW r \in EditionRequests, Leave(r),
           UNCHANGED <<work, workRow, told, adrift>>
    PROVE  /\ ejob' \in [EditionRequests -> EditionJobs]
           /\ \A q \in EditionRequests : EditionJobSound(q)'
  BY Jobs, OneJob DEF Leave

LEMMA RequestSteps ==
    ASSUME EditionsInv, NEW r \in EditionRequests,
           \/ \E w \in Registered : register(r, w) \/ fetchWork(r, w)
           \/ \E wallet \in Buyers : buyPrintEdition(r, wallet)
           \/ AbandonPurchase(r)
           \/ requestCollectibleComicSignature(r) \/ upsertRequest(r) \/ requestAutograph(r)
    PROVE  EditionsInv'
  <1>1. ASSUME NEW what \in Registered \cup {"buy", "autograph"}, NEW stage \in EditionStages,
               NEW wallet \in Buyers \cup {NoWork}, BeginRequest(r, what, stage, wallet),
               stage # "create", what = "buy" => wallet \in Buyers,
               UNCHANGED <<work, workRow, sale, saleRow, told, happened, adrift>>
        PROVE  EditionsInv'
    <2>1. PICK j : j = [Still EXCEPT !.what = what, !.stage = stage, !.wallet = wallet]
      OBVIOUS
    <2>2. j \in EditionJobs /\ j.what = what /\ j.stage = stage /\ j.wallet = wallet
      BY <2>1, Jobs DEF Still
    <2> QED BY <1>1, <2>1, <2>2, OneJob, RequestsKeep DEF BeginRequest
  <1>2. ASSUME NEW w \in Registered, register(r, w)
        PROVE  EditionsInv'
    BY <1>1, <1>2 DEF register, EditionStages, Registered
  <1>3. ASSUME NEW w \in Registered, fetchWork(r, w)
        PROVE  EditionsInv'
    <2>1. CASE work[w] = NoWork
      BY <1>3, <2>1, LeavingKeeps, RequestsKeep DEF fetchWork
    <2>2. CASE work[w] # NoWork
      <3>1. PICK j : j = [ejob[r] EXCEPT !.stage = "create", !.read = work[w]]
        OBVIOUS
      <3>2. work[w] \in WorkState /\ ejob[r] \in EditionJobs
        BY <2>2 DEF EditionsInv, EditionsTyped, Works
      <3>3. /\ j \in EditionJobs /\ j.stage = "create" /\ j.what = ejob[r].what
            /\ j.read = work[w] /\ j.wallet = ejob[r].wallet
        BY <3>1, <3>2 DEF EditionJobs, EditionStages
      <3>4. j.what = w /\ Become(r, j)
        BY <1>3, <2>2, <3>1, <3>3 DEF fetchWork, Doing
      <3>5. w # "buy"
        BY DEF Registered
      <3> QED BY <1>3, <2>2, <3>3, <3>4, <3>5, OneJob, RequestsKeep DEF fetchWork
    <2> QED BY <2>1, <2>2
  <1>4. ASSUME NEW wallet \in Buyers, buyPrintEdition(r, wallet)
        PROVE  EditionsInv'
    BY <1>1, <1>4 DEF buyPrintEdition, EditionStages
  <1>5. CASE AbandonPurchase(r)
    BY <1>5, LeavingKeeps, RequestsKeep DEF AbandonPurchase
  <1>6. CASE requestCollectibleComicSignature(r)
    BY <1>1, <1>6 DEF requestCollectibleComicSignature, EditionStages
  <1>7. CASE upsertRequest(r)
    <2>1. PICK j : j = [ejob[r] EXCEPT !.stage = "message"]
      OBVIOUS
    <2>2. j \in EditionJobs /\ j.stage = "message" /\ j.what = "autograph"
      BY <1>7, <2>1 DEF upsertRequest, Doing, EditionsInv, EditionsTyped, EditionJobs, EditionStages
    <2> QED BY <1>7, <2>1, <2>2, OneJob, RequestsKeep DEF upsertRequest
  <1>8. CASE requestAutograph(r)
    BY <1>8, LeavingKeeps, RequestsKeep DEF requestAutograph
  <1> QED BY <1>2, <1>3, <1>4, <1>5, <1>6, <1>7, <1>8

\* The row is written from what was fetched, if no other is there by now.
LEMMA RegisteringKeeps ==
    ASSUME EditionsInv, NEW r \in EditionRequests, NEW w \in Registered, NEW linked,
           CreateRow(r, w, linked)
    PROVE  EditionsInv'
  <1>1. /\ w \in Works /\ w \notin Prints
        /\ \A e \in told : e.kind = "buy" => e.work # w
    BY EditionsAssumption, TidingsAre DEF Works, EditionsInv, EditionsTyped
  <1>2. /\ UNCHANGED <<work, sale, saleRow, told, happened, adrift>> /\ Leave(r)
        /\ Doing(r, w, "create")
        /\ workRow' = workRow \/ (workRow' = [workRow EXCEPT ![w] = ejob[r].read]
                                  /\ workRow[w] = NoWork)
    BY DEF CreateRow
  <1>3. CASE workRow' = workRow
    BY <1>2, <1>3, LeavingKeeps, RequestsKeep
  <1>4. CASE workRow' = [workRow EXCEPT ![w] = ejob[r].read] /\ workRow[w] = NoWork
    <2>1. /\ ejob[r].read \in WorkState /\ ejob[r].read.number = work[w].number
          /\ work[w] # NoWork /\ ejob[r].read # NoWork
          /\ ~adrift /\ Owning(w) = {} => ejob[r].read.owner = work[w].owner
      BY <1>2, <1>4 DEF EditionsInv, EditionJobSound, EditionsTyped, EditionJobs
    <2>2. /\ workRow' \in [Works -> WorkState \cup {NoWork}] /\ workRow'[w] = ejob[r].read
          /\ \A v \in Works \ {w} : workRow'[v] = workRow[v]
      BY <1>1, <1>4, <2>1 DEF EditionsInv, EditionsTyped
    <2>3. /\ ejob' \in [EditionRequests -> EditionJobs] /\ ejob'[r].stage = "done"
          /\ \A q \in EditionRequests \ {r} : ejob'[q] = ejob[q]
      BY <1>2, Jobs DEF Leave, Become, EditionsInv, EditionsTyped
    <2>4. EditionsTyped' /\ ToldSound' /\ SaleSound'
      BY <1>2, <2>2, <2>3 DEF EditionsInv, EditionsTyped, ToldSound, SaleSound
    <2>5. ASSUME NEW v \in Works
          PROVE  LastOwns(v)' /\ RowSound(v)'
      <3>1. LastOwns(v)'
        BY <1>2 DEF EditionsInv, LastOwns, Owning
      <3>2. CASE v = w
        BY <1>1, <1>2, <2>1, <2>2, <3>1, <3>2 DEF RowSound, Owning
      <3>3. CASE v # w
        BY <1>2, <2>2, <3>1, <3>3 DEF EditionsInv, RowSound, Owning
      <3> QED BY <3>1, <3>2, <3>3
    <2>6. ASSUME NEW q \in EditionRequests
          PROVE  EditionJobSound(q)'
      <3>1. CASE q = r
        BY <2>3, <3>1 DEF EditionJobSound, Doing
      <3>2. CASE q # r
        <4>1. ejob'[q] = ejob[q] /\ EditionJobSound(q)
          BY <2>3, <3>2 DEF EditionsInv
        <4>2. \A v \in Registered : workRow'[v] = NoWork => workRow[v] = NoWork
          BY <1>4, <2>2 DEF Works
        <4> QED BY <1>2, <4>1, <4>2 DEF EditionJobSound, Doing, Owning
      <3> QED BY <3>1, <3>2
    <2> QED BY <2>4, <2>5, <2>6 DEF EditionsInv
  <1> QED BY <1>2, <1>3, <1>4

\* A change of owner is told after all others.
LEMMA TellingKeeps ==
    ASSUME EditionsInv, NEW e \in Tidings, e.kind # "init", e.id = happened + 1,
           happened' = happened + 1, told' = told \cup {e},
           NEW x \in WorkState, x.owner = e.value, work' = [work EXCEPT ![e.work] = x],
           UNCHANGED <<workRow, sale, saleRow, adrift>>,
           \/ e.kind = "transfer" /\ work[e.work] # NoWork /\ x.number = work[e.work].number
           \/ e.kind = "buy" /\ work[e.work] = NoWork,
           ejob' \in [EditionRequests -> EditionJobs],
           \A r \in EditionRequests : ejob'[r] = ejob[r] \/ ejob'[r].stage = "done"
    PROVE  EditionsInv'
  <1>1. /\ e.work \in Works /\ e.id \in Nat /\ happened \in Nat /\ x # NoWork
        /\ e.kind = "buy" => e.work \in Prints
    BY TidingsAre, EditionsAssumption DEF EditionsInv, EditionsTyped
  <1>2. /\ work' \in [Works -> WorkState \cup {NoWork}] /\ work'[e.work] = x
        /\ \A w \in Works \ {e.work} : work'[w] = work[w]
    BY <1>1 DEF EditionsInv, EditionsTyped
  <1>3. \A d \in told : /\ d.id < e.id /\ d \in Tidings /\ d.work \in Works
                        /\ d.kind \in {"init", "buy", "transfer"}
    BY <1>1, TidingsAre DEF EditionsInv, EditionsTyped, ToldSound
  <1>4. e.kind = "buy" => Owning(e.work) = {}
    BY DEF EditionsInv, ToldSound, Owning
  <1>5. EditionsTyped'
    BY <1>1, <1>2 DEF EditionsInv, EditionsTyped
  <1>6. ToldSound'
    <2>1. ASSUME NEW d \in told'
          PROVE  /\ d.id <= happened'
                 /\ d.kind = "init" => d.value = sale'
                 /\ d.kind # "init" => work'[d.work] # NoWork
      <3>1. CASE d \in told
        <4>1. /\ d.id <= happened /\ d.id \in Nat /\ (d.kind = "init" => d.value = sale)
              /\ d.kind # "init" => work[d.work] # NoWork
          BY <1>3, <3>1, TidingsAre DEF EditionsInv, ToldSound
        <4>2. work[d.work] # NoWork => work'[d.work] # NoWork
          BY <1>1, <1>2, <1>3, <3>1
        <4> QED BY <1>1, <4>1, <4>2
      <3>2. CASE d = e
        BY <1>1, <1>2, <3>2
      <3> QED BY <3>1, <3>2
    <2>2. \A d, c \in told' : d.id = c.id => d = c
      BY <1>1, <1>3 DEF EditionsInv, ToldSound
    <2>3. ASSUME NEW d \in told', NEW c \in told', d.kind = "buy", c.work = d.work
          PROVE  d.id <= c.id
      <3>1. CASE d \in told
        BY <1>1, <1>3, <2>3, <3>1, TidingsAre DEF EditionsInv, ToldSound
      <3>2. CASE d = e
        <4>1. c.kind = "init" => c.work = "collection"
          BY <1>3, <2>3, TidingsAre
        <4>2. "collection" \notin Prints
          BY EditionsAssumption DEF Registered
        <4>3. c = e
          BY <1>1, <1>4, <2>3, <3>2, <4>1, <4>2 DEF Owning
        <4> QED BY <1>1, <3>2, <4>3
      <3> QED BY <2>3, <3>1, <3>2
    <2> QED BY <2>1, <2>2, <2>3 DEF ToldSound
  <1>7. SaleSound'
    BY DEF EditionsInv, SaleSound
  <1>8. \A w \in Works : /\ Owning(w) \subseteq Owning(w)' /\ (Owning(w)' = {} => w # e.work)
                         /\ w # e.work => Owning(w)' = Owning(w)
    BY DEF Owning
  <1>9. ASSUME NEW w \in Works
        PROVE  LastOwns(w)'
    <2>1. CASE w = e.work
      <3>1. e \in Owning(w)'
        BY <2>1 DEF Owning
      <3>2. \A d \in Owning(w)' : d \in told \/ d = e
        BY DEF Owning
      <3>3. ASSUME NEW d \in Owning(w)', \A c \in Owning(w)' : c.id <= d.id
            PROVE  d.value = work'[w].owner
        <4>1. e.id <= d.id
          BY <3>1, <3>3
        <4>2. d \notin told
          BY <1>1, <1>3, <4>1, TidingsAre
        <4>3. d = e
          BY <3>2, <3>3, <4>2
        <4> QED BY <1>2, <2>1, <4>3
      <3> QED BY <3>3 DEF LastOwns
    <2>2. CASE w # e.work
      BY <1>2, <1>8, <2>2 DEF EditionsInv, LastOwns
    <2> QED BY <2>1, <2>2
  <1>10. ASSUME NEW w \in Works
         PROVE  RowSound(w)'
    <2>1. CASE w # e.work
      BY <1>2, <1>8, <2>1 DEF EditionsInv, RowSound
    <2>2. CASE w = e.work /\ e.kind = "buy"
      <3>1. workRow'[w] = NoWork /\ e \in told'
        BY <2>2 DEF EditionsInv, RowSound
      <3> QED BY <2>2, <3>1 DEF RowSound
    <2>3. CASE w = e.work /\ e.kind = "transfer"
      <3>1. /\ work'[w] = x /\ work[w] # NoWork /\ x.number = work[w].number
            /\ Owning(w)' # {} /\ workRow' = workRow /\ adrift' = adrift
        BY <1>2, <1>8, <2>3
      <3>2. \A d : d \in told' /\ d.kind = "buy" <=> d \in told /\ d.kind = "buy"
        BY <2>3
      <3>3. /\ workRow'[w] # NoWork => workRow'[w].number = work'[w].number
            /\ workRow'[w] # NoWork /\ ~adrift' =>
                 \A d \in told' : d.kind = "buy" /\ d.work = w => workRow'[w].owner = d.value
        BY <3>1, <3>2 DEF EditionsInv, RowSound
      <3>4. w \in Prints /\ workRow'[w] = NoWork /\ ~adrift' =>
              \E d \in told' : d.kind = "buy" /\ d.work = w
        BY <3>1, <3>2 DEF EditionsInv, RowSound
      <3> QED BY <1>1, <3>1, <3>3, <3>4 DEF RowSound
    <2> QED BY <2>1, <2>2, <2>3
  <1>11. ASSUME NEW r \in EditionRequests
         PROVE  EditionJobSound(r)'
    <2>1. CASE ejob'[r].stage = "done"
      BY <2>1 DEF EditionJobSound, Doing
    <2>2. CASE ejob'[r] = ejob[r]
      <3>1. \A w \in Registered : /\ Owning(w)' = {} => Owning(w) = {} /\ work'[w] = work[w]
                                  /\ work[w] # NoWork => /\ work'[w] # NoWork
                                                         /\ work'[w].number = work[w].number
        BY <1>1, <1>2, <1>8 DEF Works
      <3> QED BY <2>2, <3>1 DEF EditionsInv, EditionJobSound, Doing
    <2> QED BY <2>1, <2>2
  <1> QED BY <1>5, <1>6, <1>7, <1>9, <1>10, <1>11 DEF EditionsInv

LEMMA PuttingKeeps ==
    ASSUME EditionsInv, NEW w \in Registered, NEW wallet \in Buyers, PutOnChain(w, wallet)
    PROVE  EditionsInv'
  <1>1. PICK x : x = [owner |-> wallet, number |-> 0]
    OBVIOUS
  <1>2. x \in WorkState /\ x # NoWork /\ w \in Works /\ w \notin Prints /\ work[w] = NoWork
    BY <1>1, EditionsAssumption DEF WorkState, Works, PutOnChain
  <1>3. /\ work' \in [Works -> WorkState \cup {NoWork}] /\ work'[w] = x
        /\ \A v \in Works \ {w} : work'[v] = work[v]
        /\ UNCHANGED <<workRow, sale, saleRow, told, happened, ejob, adrift>>
    BY <1>1, <1>2 DEF PutOnChain, EditionsInv, EditionsTyped
  <1>4. /\ workRow[w] = NoWork /\ Owning(w) = {}
        /\ \A r \in EditionRequests : ~Doing(r, w, "create")
    BY <1>2 DEF EditionsInv, RowSound, ToldSound, Owning, EditionJobSound
  <1>5. EditionsTyped' /\ ToldSound' /\ SaleSound'
    BY <1>2, <1>3, TidingsAre DEF EditionsInv, EditionsTyped, ToldSound, SaleSound
  <1>6. ASSUME NEW v \in Works
        PROVE  LastOwns(v)' /\ RowSound(v)'
    <2>1. CASE v = w
      BY <1>2, <1>3, <1>4, <2>1 DEF LastOwns, RowSound, Owning
    <2>2. CASE v # w
      BY <1>3, <2>2 DEF EditionsInv, LastOwns, RowSound, Owning
    <2> QED BY <2>1, <2>2
  <1>7. ASSUME NEW r \in EditionRequests
        PROVE  EditionJobSound(r)'
    BY <1>3, <1>4 DEF EditionsInv, EditionJobSound, Doing, Owning, Works
  <1> QED BY <1>5, <1>6, <1>7 DEF EditionsInv

LEMMA GivingKeeps ==
    ASSUME EditionsInv, NEW w \in Works, NEW wallet \in Buyers, GiveWork(w, wallet)
    PROVE  EditionsInv'
  <1>1. PICK e : e = [id |-> happened + 1, kind |-> "transfer", work |-> w, value |-> wallet]
    OBVIOUS
  <1>2. PICK x : x = [work[w] EXCEPT !.owner = wallet]
    OBVIOUS
  <1>3. work[w] \in WorkState /\ happened \in Nat /\ w \in Prints \cup {"single"}
    BY DEF GiveWork, EditionsInv, EditionsTyped
  <1>4. /\ e \in Tidings /\ e.kind = "transfer" /\ e.id = happened + 1 /\ e.work = w
        /\ e.value = wallet
    BY <1>1, <1>3 DEF Tidings
  <1>5. x \in WorkState /\ x.owner = wallet /\ x.number = work[w].number
    BY <1>2, <1>3 DEF WorkState
  <1>6. work' = [work EXCEPT ![w] = x]
    BY <1>2 DEF GiveWork
  <1>7. /\ happened' = happened + 1 /\ told' = told \cup {e} /\ work[w] # NoWork
        /\ UNCHANGED <<workRow, sale, saleRow, adrift, ejob>>
    BY <1>1 DEF GiveWork, Tell
  <1>8. ejob' \in [EditionRequests -> EditionJobs]
    BY <1>7 DEF EditionsInv, EditionsTyped
  <1> QED BY <1>4, <1>5, <1>6, <1>7, <1>8, TellingKeeps

LEMMA LandingKeeps ==
    ASSUME EditionsInv, NEW r \in EditionRequests, NEW p \in Prints, LandPurchase(r, p)
    PROVE  EditionsInv'
  <1>1. CASE UNCHANGED <<work, told, happened>>
    BY <1>1, LeavingKeeps, RequestsKeep DEF LandPurchase
  <1>2. CASE /\ Cardinality(Printed) < MaxSupply
             /\ work' = [work EXCEPT ![p] = [owner |-> ejob[r].wallet,
                                             number |-> Cardinality(Printed) + 1]]
             /\ Tell("buy", p, ejob[r].wallet)
    <2>1. PICK e : e = [id |-> happened + 1, kind |-> "buy", work |-> p, value |-> ejob[r].wallet]
      OBVIOUS
    <2>2. PICK x : x = [owner |-> ejob[r].wallet, number |-> Cardinality(Printed) + 1]
      OBVIOUS
    <2>3. Cardinality(Printed) \in Nat
      BY EditionsAssumption, FS_Subset, FS_CardinalityType DEF Printed
    <2>4. ejob[r].wallet \in Buyers /\ happened \in Nat /\ work[p] = NoWork
      BY DEF LandPurchase, EditionsInv, EditionsTyped, EditionJobSound
    <2>5. /\ e \in Tidings /\ e.kind = "buy" /\ e.id = happened + 1 /\ e.work = p
          /\ e.value = ejob[r].wallet
      BY <2>1, <2>4 DEF Tidings
    <2>6. x \in WorkState /\ x.owner = ejob[r].wallet
      BY <1>2, <2>2, <2>3, <2>4, EditionsAssumption DEF WorkState
    <2>7. /\ happened' = happened + 1 /\ told' = told \cup {e}
          /\ UNCHANGED <<workRow, sale, saleRow, adrift>> /\ work' = [work EXCEPT ![p] = x]
      BY <1>2, <2>1, <2>2 DEF LandPurchase, Tell
    <2>8. /\ ejob' \in [EditionRequests -> EditionJobs]
          /\ \A q \in EditionRequests : ejob'[q] = ejob[q] \/ ejob'[q].stage = "done"
      BY Jobs DEF LandPurchase, Leave, Become, EditionsInv, EditionsTyped
    <2> QED BY <2>4, <2>5, <2>6, <2>7, <2>8, TellingKeeps
  <1> QED BY <1>1, <1>2 DEF LandPurchase

LEMMA SellingKeeps ==
    ASSUME EditionsInv, NEW terms \in Terms, initializePrintEditionSale(terms)
    PROVE  EditionsInv'
  <1>1. PICK e : e = [id |-> happened + 1, kind |-> "init", work |-> "collection", value |-> terms]
    OBVIOUS
  <1>2. happened \in Nat
    BY DEF EditionsInv, EditionsTyped
  <1>3. /\ e \in Tidings /\ e.kind = "init" /\ e.id = happened + 1 /\ e.work = "collection"
        /\ e.value = terms
    BY <1>1, <1>2 DEF Tidings
  <1>4. /\ sale = NoSale /\ sale' = terms /\ terms # NoSale
        /\ happened' = happened + 1 /\ told' = told \cup {e}
        /\ UNCHANGED <<work, workRow, saleRow, ejob, adrift>>
    BY <1>1, EditionsAssumption DEF initializePrintEditionSale, Tell
  <1>5. \A d \in told : /\ d.id < e.id /\ d \in Tidings /\ d.id \in Nat
                        /\ d.kind \in {"buy", "transfer"}
    BY <1>2, <1>3, <1>4, EditionsAssumption, TidingsAre DEF EditionsInv, EditionsTyped, ToldSound
  <1>6. EditionsTyped'
    BY <1>2, <1>3, <1>4 DEF EditionsInv, EditionsTyped
  <1>7. ToldSound'
    <2>1. \A d \in told' : /\ d.id <= happened'
                           /\ d.kind = "init" => d.value = sale'
                           /\ d.kind # "init" => work'[d.work] # NoWork
      BY <1>2, <1>3, <1>4, <1>5 DEF EditionsInv, ToldSound
    <2>2. \A d, c \in told' : d.id = c.id => d = c
      BY <1>2, <1>3, <1>4, <1>5 DEF EditionsInv, ToldSound
    <2>3. \A d, c \in told' : d.kind = "buy" /\ c.work = d.work => d.id <= c.id
      BY <1>2, <1>3, <1>4, <1>5 DEF EditionsInv, ToldSound
    <2> QED BY <2>1, <2>2, <2>3 DEF ToldSound
  <1>8. SaleSound'
    BY <1>3, <1>4 DEF EditionsInv, SaleSound
  <1>9. \A w \in Works : Owning(w)' = Owning(w)
    BY <1>3, <1>4 DEF Owning
  <1>10. \A w \in Works : LastOwns(w)'
    BY <1>4, <1>9 DEF EditionsInv, LastOwns
  <1>11. ASSUME NEW w \in Works
         PROVE  RowSound(w)'
    <2>1. \A d : d \in told' /\ d.kind = "buy" <=> d \in told /\ d.kind = "buy"
      BY <1>3, <1>4
    <2> QED BY <1>4, <1>9, <2>1 DEF EditionsInv, RowSound
  <1>12. \A r \in EditionRequests : EditionJobSound(r)'
    BY <1>4, <1>9 DEF EditionsInv, EditionJobSound, Doing, Works
  <1> QED BY <1>6, <1>7, <1>8, <1>10, <1>11, <1>12 DEF EditionsInv

\* What was told stays sound when some of it is gone.
LEMMA LessTold ==
    ASSUME EditionsInv, told' \subseteq told, UNCHANGED <<work, sale, happened>>
    PROVE  ToldSound'
  <1>1. \A e \in told' : e \in told
    OBVIOUS
  <1> QED BY <1>1 DEF EditionsInv, ToldSound

LEMMA LosingTidingsKeeps ==
    ASSUME EditionsInv, NEW e \in told, LoseTold(e)
    PROVE  EditionsInv'
  <1>1. /\ told' \subseteq told /\ adrift' = TRUE
        /\ UNCHANGED <<work, workRow, sale, saleRow, happened, ejob>>
    BY DEF LoseTold
  <1>2. EditionsTyped' /\ ToldSound' /\ SaleSound'
    BY <1>1, LessTold DEF EditionsInv, EditionsTyped, SaleSound
  <1>3. \A w \in Works : LastOwns(w)' /\ RowSound(w)'
    BY <1>1 DEF EditionsInv, LastOwns, RowSound
  <1>4. \A r \in EditionRequests : EditionJobSound(r)'
    BY <1>1 DEF EditionsInv, EditionJobSound, Doing
  <1> QED BY <1>2, <1>3, <1>4 DEF EditionsInv

\* A webhook told in its turn says who owned the work then; the last one, who owns it.
LEMMA HandlingKeeps ==
    ASSUME EditionsInv, NEW e \in told, NEW again \in BOOLEAN, HandleTold(e, again)
    PROVE  EditionsInv'
  <1>1. /\ e \in Tidings /\ e.id \in Nat /\ e.work \in Works
        /\ \/ e.kind = "init" /\ e.work = "collection" /\ e.value \in Terms
           \/ e.kind = "buy" /\ e.work \in Prints /\ e.value \in Buyers
           \/ e.kind = "transfer" /\ e.work \in Prints \cup {"single"} /\ e.value \in Buyers
    BY TidingsAre DEF EditionsInv, EditionsTyped
  <1>2. /\ told' \subseteq told /\ told \subseteq told' \cup {e}
        /\ UNCHANGED <<work, sale, happened, ejob>>
        /\ adrift' \in BOOLEAN /\ (~adrift' => ~adrift /\ InOrder(e) /\ ~ToldTooSoon(e))
    BY DEF HandleTold, EditionsInv, EditionsTyped
  <1>3. /\ \A w \in Works \ {e.work} : workRow'[w] = workRow[w]
        /\ e.kind = "buy" => workRow'[e.work] = BoughtRow(e)
        /\ e.kind = "transfer" => workRow'[e.work] = TransferredRow(e)
        /\ e.kind = "init" => workRow'[e.work] = workRow[e.work]
        /\ workRow' = [w \in Works |-> workRow'[w]]
    BY <1>1 DEF HandleTold, EditionsInv, EditionsTyped
  <1>4. e.kind # "init" => work[e.work] \in WorkState
    BY <1>1 DEF EditionsInv, EditionsTyped, ToldSound
  <1>5. e.kind = "buy" => /\ workRow'[e.work] \in WorkState /\ workRow'[e.work] # NoWork
                          /\ workRow[e.work] = NoWork =>
                               /\ workRow'[e.work].owner = e.value
                               /\ workRow'[e.work].number = work[e.work].number
                          /\ workRow[e.work] # NoWork => workRow'[e.work] = workRow[e.work]
    BY <1>1, <1>3, <1>4, EditionsAssumption DEF BoughtRow, WorkState, EditionsInv, EditionsTyped
  <1>6. e.kind = "transfer" =>
          /\ workRow[e.work] = NoWork => workRow'[e.work] = NoWork
          /\ workRow[e.work] # NoWork =>
               /\ workRow'[e.work] \in WorkState /\ workRow'[e.work] # NoWork
               /\ workRow'[e.work].owner = e.value
               /\ workRow'[e.work].number = workRow[e.work].number
    BY <1>1, <1>3, <1>4, EditionsAssumption DEF TransferredRow, WorkState, EditionsInv, EditionsTyped
  <1>7. saleRow' \in SaleRows \cup {NoSale} /\ SaleSound'
    <2>1. CASE e.kind = "init"
      <3>1. saleRow' = StartedSale(e) /\ e.value = sale /\ sale # NoSale /\ e.value \in Terms
        BY <1>1, <2>1, EditionsAssumption DEF HandleTold, EditionsInv, ToldSound
      <3>2. saleRow' \in SaleRows /\ saleRow'.terms = e.value
        BY <3>1 DEF StartedSale, SaleRows, EditionsInv, EditionsTyped
      <3>3. saleRow' # NoSale
        BY <3>2, EditionsAssumption DEF SaleRows
      <3> QED BY <1>2, <3>1, <3>2, <3>3 DEF SaleSound
    <2>2. CASE e.kind # "init"
      <3>1. saleRow' = saleRow /\ (adrift' \/ ~adrift)
        BY <1>2, <2>2 DEF HandleTold
      <3>2. \A d \in told : d.kind = "init" => d \in told'
        BY <1>2, <2>2
      <3> QED BY <1>2, <3>1, <3>2 DEF EditionsInv, EditionsTyped, SaleSound
    <2> QED BY <2>1, <2>2
  <1>8. EditionsTyped'
    <2>1. \A w \in Works : workRow'[w] \in WorkState \cup {NoWork}
      BY <1>1, <1>3, <1>5, <1>6 DEF EditionsInv, EditionsTyped
    <2>2. workRow' \in [Works -> WorkState \cup {NoWork}]
      BY <1>3, <2>1
    <2> QED BY <1>2, <1>7, <2>2 DEF EditionsInv, EditionsTyped
  <1>9. ToldSound'
    BY <1>2, LessTold
  \* In its turn the webhook is the first of its work, and maybe the last as well.
  <1>10. \A w \in Works : /\ Owning(w)' \subseteq Owning(w)
                          /\ \A d \in Owning(w) : d = e \/ d \in Owning(w)'
    BY <1>2 DEF Owning
  <1>11. \A w \in Works : w # e.work \/ e.kind = "init" => Owning(w)' = Owning(w)
    BY <1>2 DEF Owning
  <1>12. ~adrift' => \A d \in told : d.work = e.work => d.id >= e.id
    BY <1>2 DEF InOrder
  <1>13. \A d \in told : d.id \in Nat
    BY TidingsAre DEF EditionsInv, EditionsTyped
  <1>14. ASSUME NEW w \in Works, w = e.work, e.kind # "init", ~adrift', Owning(w)' = {}
         PROVE  e.value = work[w].owner
    <2>1. e \in Owning(w) /\ \A d \in Owning(w) : d = e
      BY <1>10, <1>14 DEF Owning
    <2> QED BY <1>1, <1>2, <1>14, <2>1 DEF EditionsInv, LastOwns
  <1>15. ASSUME NEW w \in Works
         PROVE  LastOwns(w)'
    <2>1. CASE w # e.work \/ e.kind = "init"
      BY <1>2, <1>11, <2>1 DEF EditionsInv, LastOwns
    <2>2. CASE w = e.work /\ e.kind # "init"
      <3> SUFFICES ASSUME ~adrift', NEW d \in Owning(w)', \A c \in Owning(w)' : c.id <= d.id
                   PROVE  d.value = work'[w].owner
        BY DEF LastOwns
      <3>1. d \in Owning(w) /\ d.id >= e.id
        BY <1>10, <1>12, <2>2 DEF Owning
      <3>2. \A c \in Owning(w) : c.id <= d.id
        BY <1>10, <3>1
      <3> QED BY <1>2, <3>1, <3>2 DEF EditionsInv, LastOwns
    <2> QED BY <2>1, <2>2
  <1>16. ASSUME NEW w \in Works
         PROVE  RowSound(w)'
    <2>1. CASE w # e.work \/ e.kind = "init"
      <3>1. workRow'[w] = workRow[w] /\ Owning(w)' = Owning(w)
        BY <1>3, <1>11, <2>1
      <3>2. \A d : d \in told' /\ d.kind = "buy" /\ d.work = w <=>
                   d \in told /\ d.kind = "buy" /\ d.work = w
        BY <1>2, <2>1
      <3> QED BY <1>2, <3>1, <3>2 DEF EditionsInv, RowSound
    <2>2. CASE w = e.work /\ e.kind = "buy"
      <3>1. /\ workRow'[w] # NoWork /\ work[w] # NoWork /\ workRow'[w].number = work[w].number
            /\ ~adrift' => workRow'[w].owner = e.value
        BY <1>2, <1>4, <1>5, <2>2, EditionsAssumption DEF EditionsInv, RowSound
      <3>2. \A d \in told' : d.kind = "buy" /\ d.work = w => d = e
        <4>1. ASSUME NEW d \in told', d.kind = "buy", d.work = w
              PROVE  d.id <= e.id /\ e.id <= d.id
          BY <1>2, <2>2, <4>1 DEF EditionsInv, ToldSound
        <4>2. \A d \in told : d.id = e.id => d = e
          BY DEF EditionsInv, ToldSound
        <4> QED BY <1>1, <1>2, <1>13, <4>1, <4>2
      <3> QED BY <1>2, <1>14, <2>2, <3>1, <3>2 DEF RowSound
    <2>3. CASE w = e.work /\ e.kind = "transfer"
      <3>1. workRow[w] = NoWork /\ w \in Prints => adrift'
        BY <1>2, <2>3 DEF ToldTooSoon
      <3>2. ~adrift' => \A d \in told' : ~(d.kind = "buy" /\ d.work = w)
        <4>1. ASSUME ~adrift', NEW d \in told', d.kind = "buy", d.work = w
              PROVE  FALSE
          <5>1. d.id <= e.id /\ e.id <= d.id
            BY <1>2, <1>12, <2>3, <4>1 DEF EditionsInv, ToldSound
          <5>2. d = e
            BY <1>1, <1>2, <1>13, <5>1 DEF EditionsInv, ToldSound
          <5> QED BY <2>3, <4>1, <5>2
        <4> QED BY <4>1
      <3>3. workRow'[w] # NoWork =>
              /\ work[w] # NoWork /\ workRow'[w].number = work[w].number
              /\ workRow'[w].owner = e.value /\ workRow[w] # NoWork
        BY <1>6, <2>3 DEF EditionsInv, RowSound
      <3>4. workRow'[w] = NoWork => workRow[w] = NoWork
        BY <1>6, <2>3
      <3> QED BY <1>2, <1>14, <2>3, <3>1, <3>2, <3>3, <3>4 DEF RowSound
    <2> QED BY <1>1, <2>1, <2>2, <2>3
  <1>17. ASSUME NEW r \in EditionRequests
         PROVE  EditionJobSound(r)'
    <2>1. EditionJobSound(r)
      BY DEF EditionsInv
    <2>2. ASSUME NEW w \in Registered, Doing(r, w, "create"), workRow'[w] = NoWork, ~adrift'
          PROVE  workRow[w] = NoWork /\ Owning(w)' = Owning(w)
      <3>1. CASE w # e.work \/ e.kind = "init"
        BY <1>3, <1>11, <2>2, <3>1 DEF Works
      <3>2. CASE w = e.work /\ e.kind = "buy"
        BY <1>5, <2>2, <3>2
      <3>3. CASE w = e.work /\ e.kind = "transfer"
        BY <1>2, <1>6, <2>2, <3>3 DEF ToldTooSoon
      <3> QED BY <1>1, <3>1, <3>2, <3>3
    <2> QED BY <1>2, <2>1, <2>2 DEF EditionJobSound, Doing
  <1> QED BY <1>7, <1>8, <1>9, <1>15, <1>16, <1>17 DEF EditionsInv

LEMMA EditionsStart == EditionsInit => EditionsInv
  <1> SUFFICES ASSUME EditionsInit PROVE EditionsInv
    OBVIOUS
  <1>1. EditionsTyped
    BY DEF EditionsInit, EditionsTyped, EditionJobs, EditionStages, Still
  <1>2. ToldSound /\ SaleSound
    BY DEF EditionsInit, ToldSound, SaleSound
  <1>3. \A w \in Works : LastOwns(w) /\ RowSound(w)
    BY DEF EditionsInit, LastOwns, RowSound, Owning
  <1>4. \A r \in EditionRequests : EditionJobSound(r)
    BY DEF EditionsInit, EditionJobSound, Doing, Still
  <1> QED BY <1>1, <1>2, <1>3, <1>4 DEF EditionsInv

\* What is still told makes up for what the rows lack.
THEOREM EditionsInvariance == EditionsSpec => []EditionsInv
  <1>1. ASSUME EditionsInv, EditionsNext
        PROVE  EditionsInv'
    <2>1. CASE vet \/ tick
      <3>1. /\ UNCHANGED <<work, workRow, sale, saleRow, told, happened, adrift, ejob>>
        BY <2>1 DEF vet, tick
      <3>2. /\ ejob' \in [EditionRequests -> EditionJobs]
            /\ \A r \in EditionRequests : EditionJobSound(r)'
        BY <1>1, <3>1 DEF EditionsInv, EditionsTyped, EditionJobSound, Doing, Owning
      <3> QED BY <1>1, <3>1, <3>2, RequestsKeep
    <2>2. CASE \E wallet \in Buyers :
                 \/ createOneOfOneCollectionTransaction(wallet) \/ createOneOfOneTransaction(wallet)
                 \/ createPrintEditionCollectionTransaction(wallet)
      BY <1>1, <2>2, PuttingKeeps DEF createOneOfOneCollectionTransaction, Registered,
         createOneOfOneTransaction, createPrintEditionCollectionTransaction
    <2>3. ASSUME NEW r \in EditionRequests, EditionStep(r)
          PROVE  EditionsInv'
      <3>1. CASE createOneOfOneCollection(r) \/ createOneOfOne(r) \/ createPrintEditionCollection(r)
        BY <1>1, <3>1, RegisteringKeeps DEF createOneOfOneCollection, createOneOfOne,
           createPrintEditionCollection, Registered
      <3> QED BY <1>1, <2>3, <3>1, RequestSteps, LandingKeeps DEF EditionStep
    <2> QED BY <1>1, <2>1, <2>2, <2>3, GivingKeeps, SellingKeeps, LosingTidingsKeeps, HandlingKeeps
         DEF EditionsNext
  <1>2. ASSUME EditionsInv, UNCHANGED editionVars
        PROVE  EditionsInv'
    <2>1. UNCHANGED <<work, workRow, sale, saleRow, told, happened, adrift, ejob>>
      BY <1>2 DEF editionVars
    <2>2. /\ ejob' \in [EditionRequests -> EditionJobs]
          /\ \A r \in EditionRequests : EditionJobSound(r)'
      BY <1>2, <2>1 DEF EditionsInv, EditionsTyped, EditionJobSound, Doing, Owning
    <2> QED BY <1>2, <2>1, <2>2, RequestsKeep
  <1> QED BY <1>1, <1>2, EditionsStart, PTL DEF EditionsSpec

\* handleBuyEdition, handleAssetTransfer, handleInitEditionSale and the registrations: at
\* rest the rows agree with the chain, unless a webhook was lost or told out of its turn.
THEOREM EditionsAgreeAlways == EditionsSpec => []EditionsAgree
  <1>1. ASSUME EditionsInv, told = {}, ~adrift
        PROVE  /\ \A w \in Works : /\ workRow[w] # NoWork => workRow[w] = work[w]
                                   /\ w \in Prints => workRow[w] = work[w]
               /\ sale # NoSale => saleRow # NoSale /\ saleRow.terms = sale
    <2>1. ASSUME NEW w \in Works
          PROVE  /\ workRow[w] # NoWork => workRow[w] = work[w]
                 /\ w \in Prints => workRow[w] = work[w]
      <3>1. workRow[w] # NoWork => /\ workRow[w].owner = work[w].owner
                                   /\ workRow[w].number = work[w].number /\ work[w] # NoWork
        BY <1>1 DEF EditionsInv, RowSound, Owning
      <3>2. workRow[w] # NoWork => workRow[w] = work[w]
        BY <1>1, <3>1 DEF EditionsInv, EditionsTyped, WorkState
      <3>3. w \in Prints /\ workRow[w] = NoWork => work[w] = NoWork
        BY <1>1 DEF EditionsInv, RowSound
      <3> QED BY <3>2, <3>3
    <2> QED BY <1>1, <2>1 DEF EditionsInv, SaleSound
  <1>2. EditionsInv => EditionsAgree
    BY <1>1 DEF EditionsAgree
  <1> QED BY <1>2, EditionsInvariance, PTL

-----------------------------------------------------------------------------
(* Shelf: the cache of answers, and the writes of the row they are made of  *)

\* A request is a record of these fields, of a form that is known.
AskingFields(q) ==
    q = [stage |-> q.stage, form |-> q.form, writer |-> q.writer, read |-> q.read,
         seen |-> q.seen, answer |-> q.answer, keys |-> q.keys]
IsAsking(q) ==
    /\ AskingFields(q)
    /\ q.form \in Forms /\ q.seen \in 0..edition

ShelfTyped ==
    /\ shelf \in Shelves /\ edition \in Nat
    /\ cache = [f \in Forms |-> cache[f]] /\ settled \in [Forms -> 0..edition]
    /\ asking = [r \in ShelfRequests |-> asking[r]]
    /\ \A r \in ShelfRequests : IsAsking(asking[r])

\* What was read from the rows as they are now is what they give now.
StillCurrent(content, form, seen) == seen = edition => content = Answer(form)

\* An entry is not older than the writes that dropped its key, unless it was late.
EntrySound(f) ==
    cache[f] # NoEntry =>
        /\ cache[f].seen \in 0..edition
        /\ StillCurrent(cache[f].answer, f, cache[f].seen)
        /\ ~cache[f].late => cache[f].seen >= settled[f]

\* An entry that a writer's list of keys lacks was stored after its write.
StoredSince(q) ==
    \A f \in q.writer.drops \ q.keys :
        f \in Forms /\ cache[f] # NoEntry /\ ~cache[f].late => cache[f].seen >= q.seen
WriterSound(q) == q.stage = "delete" => StoredSince(q)

AnswerSound(q) == q.stage = "store" => StillCurrent(q.answer, q.form, q.seen)

ShelfInv ==
    /\ ShelfTyped
    /\ \A f \in Forms : EntrySound(f)
    /\ \A r \in ShelfRequests : WriterSound(asking[r]) /\ AnswerSound(asking[r])

\* An answer changes with the rows it is made of only.
LEMMA AnswerStays ==
    ASSUME UNCHANGED <<shelf, row, edition, around>>, NEW f \in Forms
    PROVE  Answer(f)' = Answer(f)
<1>1. ComicAnswer(f)' = ComicAnswer(f)
    BY Zenon DEF ComicAnswer, ComicList, RawComicList, ComicSearch, ComicPage, RawComicPage,
           OwnedComics, FavoriteComics, InComics, InRawComics, ComicStats, ToldIf, Told
<1>2. IssueAnswer(f)' = IssueAnswer(f)
    BY Zenon DEF IssueAnswer, IssueList, RawIssueList, IssuePublic, IssueSearch, IssuePage,
           RawIssuePage, OwnedIssues, InIssues, InRawIssues, Price, ActiveMachine,
           CollectibleInfo, IssueStats, ToldIf, Told
<1>3. ChannelAnswer(f)' = ChannelAnswer(f) /\ GenreAnswer' = GenreAnswer
    BY Zenon DEF ChannelAnswer, ChannelList, ChannelSearch, ChannelPage, RawChannels, InChannels,
           ChannelStats, GenreAnswer, InGenres, ToldIf, Told
<1>4. SlideAnswer(f)' = SlideAnswer(f)
    BY Zenon DEF SlideAnswer, SlideList, InSlides, Tags, ComicTags, ChannelTags, IssueTags,
           ActiveMachine, ToldIf, Told
<1> QED
    BY <1>1, <1>2, <1>3, <1>4 DEF Answer

\* A request that has ended
LEMMA UnaskedIs ==
    ASSUME edition \in Nat
    PROVE  IsAsking(Unasked) /\ Unasked.stage = "done"
<1>1. PICK none : none = [verified |-> FALSE, published |-> FALSE, gone |-> FALSE]
    OBVIOUS
<1>2. PICK q : q = Asking("done", "query", NoWriter)
    OBVIOUS
<1>3. q = [stage |-> "done", form |-> "query", writer |-> NoWriter, read |-> row,
           seen |-> edition, answer |-> {}, keys |-> {}]
    BY <1>2 DEF Asking
<1>4. IsAsking(q) /\ q.stage = "done"
    BY <1>3 DEF IsAsking, AskingFields, Forms
<1>5. PICK p : p = [q EXCEPT !.seen = 0, !.read = none]
    OBVIOUS
<1>6. p = Unasked
    BY <1>1, <1>2, <1>5 DEF Unasked
<1>7. AskingFields(p)
    BY <1>4, <1>5 DEF IsAsking, AskingFields
<1>8. p.stage = "done" /\ p.form = q.form /\ p.seen = 0
    BY <1>4, <1>5 DEF IsAsking, AskingFields
<1> QED
    BY <1>4, <1>6, <1>7, <1>8 DEF IsAsking, AskingFields

\* Nothing is cached at first.
LEMMA ShelfInitial == ShelfInit => ShelfInv
<1> SUFFICES ASSUME ShelfInit PROVE ShelfInv
    OBVIOUS
<1>1. ShelfTyped
  <2>1. IsAsking([Unasked EXCEPT !.stage = "idle"])
    BY UnaskedIs DEF ShelfInit, IsAsking, AskingFields
  <2> QED
    BY <2>1 DEF ShelfInit, ShelfTyped
<1>2. \A f \in Forms : EntrySound(f)
    BY DEF ShelfInit, EntrySound
<1>3. \A r \in ShelfRequests : WriterSound(asking[r]) /\ AnswerSound(asking[r])
    BY UnaskedIs DEF ShelfInit, WriterSound, AnswerSound, IsAsking, AskingFields
<1> QED
    BY <1>1, <1>2, <1>3 DEF ShelfInv

\* A request goes on with what it has read; the rows and the cache stay.
LEMMA AskingMovesOn ==
    ASSUME ShelfInv, NEW r \in ShelfRequests, NEW q, NEW stage, Move(r, q, stage),
           stage # "done" => IsAsking(q),
           stage = "store" => StillCurrent(q.answer, q.form, q.seen),
           stage = "delete" => StoredSince(q),
           UNCHANGED <<shelf, row, edition, around, cache, settled>>
    PROVE  ShelfInv'
<1> DEFINE q1 == asking'[r]
<1>0. ShelfTyped /\ edition \in Nat
    BY DEF ShelfInv, ShelfTyped
<1>1. asking' = [p \in ShelfRequests |-> asking'[p]]
      /\ \A p \in ShelfRequests \ {r} : asking'[p] = asking[p]
    BY <1>0 DEF ShelfTyped, Move
<1>2. q1 = IF stage = "done" THEN Unasked ELSE [q EXCEPT !.stage = stage]
    BY <1>0 DEF ShelfTyped, Move
<1>3. IsAsking(q1)
  <2>1. CASE stage = "done"
    BY <2>1, <1>2, <1>0, UnaskedIs
  <2>2. CASE stage # "done"
    BY <2>2, <1>2 DEF IsAsking, AskingFields
  <2> QED
    BY <2>1, <2>2
<1>4. WriterSound(q1) /\ AnswerSound(q1)
  <2>1. CASE stage = "done"
    BY <2>1, <1>0, <1>2, UnaskedIs DEF WriterSound, AnswerSound
  <2>2. CASE stage # "done"
    BY <2>2, <1>2 DEF IsAsking, AskingFields, WriterSound, StoredSince, AnswerSound
  <2> QED
    BY <2>1, <2>2
<1>5. ShelfTyped'
    BY <1>0, <1>1, <1>3 DEF ShelfTyped, IsAsking, AskingFields
<1>6. ASSUME NEW f \in Forms PROVE EntrySound(f)'
    BY AnswerStays DEF ShelfInv, EntrySound, StillCurrent
<1>7. ASSUME NEW p \in ShelfRequests PROVE WriterSound(asking[p])' /\ AnswerSound(asking[p])'
  <2>1. CASE p = r
    BY <2>1, <1>3, <1>4, AnswerStays DEF WriterSound, StoredSince, AnswerSound, StillCurrent, IsAsking, AskingFields
  <2>2. CASE p # r
    BY <2>2, <1>0, <1>1, AnswerStays
       DEF ShelfInv, ShelfTyped, WriterSound, StoredSince, AnswerSound, StillCurrent, IsAsking, AskingFields
  <2> QED
    BY <2>1, <2>2
<1> QED
    BY <1>5, <1>6, <1>7 DEF ShelfInv

\* The steps of a request that write nothing
LEMMA AskingMoves ==
    ASSUME ShelfInv, NEW r \in ShelfRequests,
           request(r) \/ intercept(r) \/ handle(r) \/ toggleRead(r) \/ listKeys(r)
    PROVE  ShelfInv'
<1> DEFINE q == asking[r]
<1>0. IsAsking(q) /\ edition \in Nat /\ \A f \in Forms : EntrySound(f)
    BY DEF ShelfInv, ShelfTyped
<1>1. CASE request(r)
  <2>1. ASSUME NEW form \in Forms, NEW w PROVE IsAsking(Asking("idle", form, w))
    BY <1>0 DEF Asking, IsAsking, AskingFields
  <2>2. FormsOf[shelf] \subseteq Forms /\ "query" \in Forms
    BY DEF ShelfInv, ShelfTyped, Shelves, FormsOf, Forms
  <2>3. \E form \in Forms : \E w : \E stage \in {"lookup", "handle", "read", "write"} :
          Move(r, Asking("idle", form, w), stage)
    BY <1>1, <2>2 DEF request
  <2> QED
    BY <1>1, <2>1, <2>3, AskingMovesOn DEF request
<1>2. CASE intercept(r)
    BY <1>2, <1>0, AskingMovesOn DEF intercept
<1>3. CASE handle(r)
  <2>4. PICK p : p = [q EXCEPT !.seen = edition, !.answer = Answer(q.form)]
    OBVIOUS
  <2>5. AskingFields(p)
    BY <2>4, <1>0 DEF IsAsking, AskingFields
  <2>6. p.form = q.form /\ p.seen = edition /\ p.answer = Answer(q.form)
    BY <2>4, <1>0 DEF IsAsking, AskingFields
  <2>1. IsAsking(p) /\ p.answer = Answer(p.form) /\ p.seen = edition
    BY <2>5, <2>6, <1>0 DEF IsAsking, AskingFields
  <2>2. StillCurrent(p.answer, p.form, p.seen)
    BY <2>1 DEF StillCurrent
  <2>3. PICK stage \in {"store", "done"} : Move(r, p, stage)
    BY <1>3, <2>4 DEF handle
  <2> QED
    BY <1>3, <2>1, <2>2, <2>3, AskingMovesOn DEF handle
<1>4. CASE toggleRead(r)
  <2> DEFINE p == [q EXCEPT !.read = row]
  <2>1. IsAsking(p)
    BY <1>0 DEF IsAsking, AskingFields
  <2>2. Move(r, p, "write")
    BY <1>4 DEF toggleRead
  <2> HIDE DEF p
  <2> QED
    BY <1>4, <2>1, <2>2, AskingMovesOn DEF toggleRead
<1>5. CASE listKeys(r)
  <2> DEFINE p == [q EXCEPT !.keys = MatchingKeys(q.writer.drops)]
  <2>1. IsAsking(p) /\ p.writer = q.writer /\ p.keys = MatchingKeys(q.writer.drops)
    BY <1>0 DEF IsAsking, AskingFields
  <2>2. StoredSince(p)
    BY <2>1 DEF StoredSince, MatchingKeys
  <2>3. Move(r, p, "delete")
    BY <1>5 DEF listKeys
  <2> HIDE DEF p
  <2> QED
    BY <1>5, <2>1, <2>2, <2>3, AskingMovesOn DEF listKeys
<1> QED
    BY <1>1, <1>2, <1>3, <1>4, <1>5

\* A request ends, the others stay where they are.
LEMMA AskingEnds ==
    ASSUME ShelfInv, NEW r \in ShelfRequests, NEW q, Move(r, q, "done")
    PROVE  /\ asking' = [p \in ShelfRequests |-> asking'[p]]
           /\ IsAsking(asking'[r]) /\ asking'[r].stage = "done"
           /\ \A p \in ShelfRequests \ {r} : asking'[p] = asking[p] /\ IsAsking(asking[p])
<1>1. asking = [p \in ShelfRequests |-> asking[p]] /\ edition \in Nat
      /\ \A p \in ShelfRequests : IsAsking(asking[p])
    BY DEF ShelfInv, ShelfTyped
<1>2. asking' = [asking EXCEPT ![r] = Unasked]
    BY DEF Move
<1> QED
    BY <1>1, <1>2, UnaskedIs

\* store: an entry that is stored after a write is late, or was read after it.
LEMMA StoreKeeps ==
    ASSUME ShelfInv, NEW r \in ShelfRequests, store(r)
    PROVE  ShelfInv'
<1> DEFINE q == asking[r]
<1>0. ShelfTyped /\ IsAsking(q) /\ q.stage = "store" /\ StillCurrent(q.answer, q.form, q.seen)
    BY DEF ShelfInv, ShelfTyped, store, Is, AnswerSound
<1>1. cache' = [cache EXCEPT ![q.form] = Entry(q)] /\ Move(r, q, "done")
      /\ UNCHANGED <<shelf, row, edition, around, settled>>
    BY DEF store
<1>2. /\ asking' = [p \in ShelfRequests |-> asking'[p]]
      /\ IsAsking(asking'[r]) /\ asking'[r].stage = "done"
      /\ \A p \in ShelfRequests \ {r} : asking'[p] = asking[p] /\ IsAsking(asking[p])
    BY <1>1, AskingEnds
<1>3. /\ q.form \in Forms
      /\ \A f \in Forms \ {q.form} : cache'[f] = cache[f]
      /\ edition \in Nat /\ q.seen \in 0..edition /\ \A f \in Forms : settled[f] \in 0..edition
    BY <1>0, <1>1 DEF ShelfTyped, IsAsking
<1>8. PICK e : e = Entry(q)
    OBVIOUS
<1>9. cache'[q.form] = e
    BY <1>0, <1>1, <1>3, <1>8 DEF ShelfTyped
<1>10. /\ e.seen = q.seen /\ e.answer = q.answer
       /\ ~e.late => q.seen = edition
    BY <1>8 DEF Entry
<1>4. ShelfTyped'
  <2>1. cache' = [f \in Forms |-> cache'[f]]
    BY <1>0, <1>1 DEF ShelfTyped
  <2>2. \A p \in ShelfRequests : IsAsking(asking[p])'
    BY <1>1, <1>2 DEF IsAsking, AskingFields
  <2> QED
    BY <2>1, <2>2, <1>0, <1>1, <1>2 DEF ShelfTyped
<1>5. ASSUME NEW f \in Forms PROVE EntrySound(f)'
  <2>1. CASE f = q.form
    <3>1. q.seen = edition => q.answer = Answer(f)
      BY <2>1, <1>0 DEF StillCurrent
    <3>2. Answer(f)' = Answer(f) /\ edition' = edition /\ settled'[f] = settled[f]
      BY <1>1, AnswerStays
    <3>3. ~e.late => e.seen >= settled[f]
      BY <1>3, <1>10
    <3> QED
      BY <2>1, <3>1, <3>2, <3>3, <1>3, <1>9, <1>10 DEF EntrySound, StillCurrent
  <2>2. CASE f # q.form
    BY <2>2, <1>1, <1>3, AnswerStays DEF ShelfInv, EntrySound, StillCurrent
  <2> QED
    BY <2>1, <2>2
<1>6. ASSUME NEW p \in ShelfRequests PROVE WriterSound(asking[p])'
  <2>1. CASE p = r
    BY <2>1, <1>2 DEF WriterSound
  <2>2. CASE p # r
    <3>1. WriterSound(asking[p]) /\ asking'[p] = asking[p] /\ asking[p].seen \in 0..edition
      BY <2>2, <1>2 DEF ShelfInv, IsAsking
    <3>2. ~e.late => e.seen >= asking[p].seen
      BY <3>1, <1>3, <1>10
    <3>3. SUFFICES ASSUME asking[p].stage = "delete",
                          NEW f \in asking[p].writer.drops \ asking[p].keys, f \in Forms,
                          cache'[f] # NoEntry, ~cache'[f].late
                   PROVE  cache'[f].seen >= asking[p].seen
      BY <3>1 DEF WriterSound, StoredSince
    <3>4. CASE f = q.form
      BY <3>2, <3>3, <3>4, <1>9
    <3>5. CASE f # q.form
      BY <3>1, <3>3, <3>5, <1>3 DEF WriterSound, StoredSince
    <3> QED
      BY <3>4, <3>5
  <2> QED
    BY <2>1, <2>2
<1>7. ASSUME NEW p \in ShelfRequests PROVE AnswerSound(asking[p])'
  <2>1. CASE p = r
    BY <2>1, <1>2 DEF AnswerSound
  <2>2. CASE p # r
    BY <2>2, <1>1, <1>2, AnswerStays DEF ShelfInv, AnswerSound, StillCurrent, IsAsking
  <2> QED
    BY <2>1, <2>2
<1> QED
    BY <1>4, <1>5, <1>6, <1>7 DEF ShelfInv

\* expire and reset: keys go that no writer deletes; none of the entries that stay changes.
LEMMA KeysGo ==
    ASSUME ShelfInv, (\E form \in Forms : expire(form)) \/ reset
    PROVE  ShelfInv'
<1>1. /\ cache' = [f \in Forms |-> cache'[f]]
      /\ \A f \in Forms : cache'[f] \in {NoEntry, cache[f]}
      /\ UNCHANGED <<shelf, row, edition, around, settled, asking>>
    BY DEF ShelfInv, ShelfTyped, expire, reset
<1>2. ShelfTyped'
    BY <1>1 DEF ShelfInv, ShelfTyped, IsAsking, AskingFields
<1>3. ASSUME NEW f \in Forms PROVE EntrySound(f)'
    BY <1>1, AnswerStays DEF ShelfInv, EntrySound, StillCurrent
<1>4. ASSUME NEW p \in ShelfRequests PROVE WriterSound(asking[p])'
  <2>1. WriterSound(asking[p])
    BY DEF ShelfInv
  <2> QED
    BY <2>1, <1>1 DEF WriterSound, StoredSince
<1>5. ASSUME NEW p \in ShelfRequests PROVE AnswerSound(asking[p])'
    BY <1>1, AnswerStays DEF ShelfInv, ShelfTyped, AnswerSound, StillCurrent, IsAsking
<1> QED
    BY <1>2, <1>3, <1>4, <1>5 DEF ShelfInv

\* write: what was read before is old.
LEMMA WriteKeeps ==
    ASSUME ShelfInv, NEW r \in ShelfRequests, write(r)
    PROVE  ShelfInv'
<1> DEFINE q == asking[r]
<1>0. ShelfTyped /\ IsAsking(q) /\ edition \in Nat /\ edition' = edition + 1
      /\ UNCHANGED <<shelf, around, cache, settled>>
    BY DEF ShelfInv, ShelfTyped, write
<1>1. PICK p : p = [q EXCEPT !.seen = edition']
    OBVIOUS
<1>2. AskingFields(p) /\ p.form = q.form /\ p.seen = edition'
    BY <1>0, <1>1 DEF IsAsking, AskingFields
<1>3. PICK stage \in {"list", "done"} : Move(r, p, stage)
    BY <1>1 DEF write
<1>4. /\ asking' = [s \in ShelfRequests |-> asking'[s]]
      /\ asking'[r] = IF stage = "done" THEN Unasked ELSE [p EXCEPT !.stage = stage]
      /\ \A s \in ShelfRequests \ {r} : asking'[s] = asking[s]
    BY <1>0, <1>3 DEF ShelfTyped, Move
<1>5. PICK t : t = asking'[r]
    OBVIOUS
<1>6. AskingFields(t) /\ t.form \in Forms /\ t.seen \in 0..edition' /\ t.stage \in {"list", "done"}
  <2>1. CASE stage = "done"
    BY <2>1, <1>0, <1>4, <1>5, UnaskedIs DEF IsAsking
  <2>2. CASE stage = "list"
    <3>1. t = [p EXCEPT !.stage = stage]
      BY <2>2, <1>4, <1>5
    <3>2. AskingFields(t)
      BY <3>1, <1>2 DEF AskingFields
    <3>3. t.form = p.form /\ t.seen = p.seen /\ t.stage = stage
      BY <3>1, <1>2 DEF AskingFields
    <3> QED
      BY <3>2, <3>3, <2>2, <1>0, <1>2 DEF IsAsking
  <2> QED
    BY <2>1, <2>2
<1>7. ShelfTyped'
  <2>1. settled' \in [Forms -> 0..edition']
    BY <1>0 DEF ShelfTyped
  <2>2. \A s \in ShelfRequests : IsAsking(asking[s])'
    <3>1. ASSUME NEW s \in ShelfRequests \ {r} PROVE IsAsking(asking[s])'
      <4>1. IsAsking(asking[s]) /\ asking'[s] = asking[s]
        BY <1>0, <1>4 DEF ShelfTyped
      <4> QED
        BY <4>1, <1>0 DEF IsAsking, AskingFields
    <3>2. IsAsking(asking[r])'
      BY <1>5, <1>6 DEF IsAsking, AskingFields
    <3> QED
      BY <3>1, <3>2
  <2> QED
    BY <2>1, <2>2, <1>0, <1>4 DEF ShelfTyped
<1>8. ASSUME NEW f \in Forms PROVE EntrySound(f)'
  <2>1. settled[f] \in 0..edition
    BY <1>0 DEF ShelfTyped
  <2> QED
    BY <2>1, <1>0 DEF ShelfInv, EntrySound, StillCurrent
<1>9. ASSUME NEW s \in ShelfRequests PROVE WriterSound(asking[s])' /\ AnswerSound(asking[s])'
  <2>1. CASE s = r
    BY <2>1, <1>5, <1>6 DEF WriterSound, AnswerSound
  <2>2. CASE s # r
    <3>1. /\ WriterSound(asking[s]) /\ asking'[s] = asking[s]
          /\ asking[s].seen \in 0..edition
      BY <2>2, <1>0, <1>4 DEF ShelfInv, ShelfTyped, IsAsking
    <3> QED
      BY <3>1, <1>0 DEF WriterSound, StoredSince, AnswerSound, StillCurrent
  <2> QED
    BY <2>1, <2>2
<1> QED
    BY <1>7, <1>8, <1>9 DEF ShelfInv

\* deleteKeys: the keys of its list go; the entries its list lacks are from after its write.
LEMMA DeleteKeeps ==
    ASSUME ShelfInv, NEW r \in ShelfRequests, deleteKeys(r)
    PROVE  ShelfInv'
<1> DEFINE q == asking[r]
<1>0. ShelfTyped /\ IsAsking(q) /\ q.stage = "delete" /\ StoredSince(q) /\ edition \in Nat
    BY DEF ShelfInv, ShelfTyped, deleteKeys, Is, WriterSound
<1>1. /\ cache' = [f \in Forms |-> IF f \in q.keys THEN NoEntry ELSE cache[f]]
      /\ settled' = [f \in Forms |-> IF f \in q.writer.drops /\ settled[f] < q.seen
                                     THEN q.seen ELSE settled[f]]
      /\ Move(r, q, "done") /\ UNCHANGED <<shelf, row, edition, around>>
    BY DEF deleteKeys
<1>2. /\ asking' = [p \in ShelfRequests |-> asking'[p]]
      /\ IsAsking(asking'[r]) /\ asking'[r].stage = "done"
      /\ \A p \in ShelfRequests \ {r} : asking'[p] = asking[p] /\ IsAsking(asking[p])
    BY <1>1, AskingEnds
<1>3. q.seen \in 0..edition /\ \A f \in Forms : settled[f] \in 0..edition
    BY <1>0 DEF ShelfTyped, IsAsking
<1>4. ShelfTyped'
  <2>1. cache' = [f \in Forms |-> cache'[f]]
    BY <1>1
  <2>2. settled' \in [Forms -> 0..edition']
    BY <1>1, <1>3
  <2>3. \A p \in ShelfRequests : IsAsking(asking[p])'
    BY <1>1, <1>2 DEF IsAsking, AskingFields
  <2> QED
    BY <2>1, <2>2, <2>3, <1>0, <1>1, <1>2 DEF ShelfTyped
<1>5. ASSUME NEW f \in Forms PROVE EntrySound(f)'
  <2>1. CASE f \in q.keys
    BY <2>1, <1>1 DEF EntrySound
  <2>2. CASE f \notin q.keys
    <3>1. cache'[f] = cache[f] /\ EntrySound(f)
      BY <2>2, <1>1 DEF ShelfInv
    <3>2. settled'[f] = settled[f] \/ (f \in q.writer.drops /\ settled'[f] = q.seen)
      BY <1>1
    <3>3. settled'[f] = q.seen /\ f \in q.writer.drops =>
            (cache[f] # NoEntry /\ ~cache[f].late => cache[f].seen >= q.seen)
      BY <2>2, <1>0 DEF StoredSince
    <3> QED
      BY <3>1, <3>2, <3>3, <1>1, AnswerStays DEF EntrySound, StillCurrent
  <2> QED
    BY <2>1, <2>2
<1>6. ASSUME NEW p \in ShelfRequests PROVE WriterSound(asking[p])'
  <2>1. CASE p = r
    BY <2>1, <1>2 DEF WriterSound
  <2>2. CASE p # r
    <3>1. WriterSound(asking[p]) /\ asking'[p] = asking[p]
      BY <2>2, <1>2 DEF ShelfInv
    <3> QED
      BY <3>1, <1>1 DEF WriterSound, StoredSince
  <2> QED
    BY <2>1, <2>2
<1>7. ASSUME NEW p \in ShelfRequests PROVE AnswerSound(asking[p])'
  <2>1. CASE p = r
    BY <2>1, <1>2 DEF AnswerSound
  <2>2. CASE p # r
    BY <2>2, <1>1, <1>2, AnswerStays DEF ShelfInv, AnswerSound, StillCurrent, IsAsking
  <2> QED
    BY <2>1, <2>2
<1> QED
    BY <1>4, <1>5, <1>6, <1>7 DEF ShelfInv

\* An entry that is not late was read after the writes that dropped its key.
THEOREM ShelfInvariance == ShelfSpec => []ShelfInv
<1>1. ShelfInit => ShelfInv
    BY ShelfInitial
<1>2. ShelfInv /\ [ShelfNext]_shelfVars => ShelfInv'
  <2> SUFFICES ASSUME ShelfInv, [ShelfNext]_shelfVars PROVE ShelfInv'
    OBVIOUS
  <2>1. CASE UNCHANGED shelfVars
    <3>1. UNCHANGED <<shelf, row, edition, around, cache, settled, asking>>
      BY <2>1 DEF shelfVars
    <3>2. ASSUME NEW f \in Forms PROVE EntrySound(f)'
      BY <3>1, AnswerStays DEF ShelfInv, EntrySound, StillCurrent
    <3>3. ASSUME NEW p \in ShelfRequests PROVE WriterSound(asking[p])' /\ AnswerSound(asking[p])'
      BY <3>1, AnswerStays
         DEF ShelfInv, ShelfTyped, WriterSound, StoredSince, AnswerSound, StillCurrent, IsAsking
    <3>4. ShelfTyped'
      BY <3>1 DEF ShelfInv, ShelfTyped, IsAsking, AskingFields
    <3> QED
      BY <3>2, <3>3, <3>4 DEF ShelfInv
  <2>2. CASE (\E form \in Forms : expire(form)) \/ reset
    BY <2>2, KeysGo
  <2>3. ASSUME NEW r \in ShelfRequests, ShelfStep(r) PROVE ShelfInv'
    BY <2>3, AskingMoves, StoreKeeps, WriteKeeps, DeleteKeeps DEF ShelfStep
  <2> QED
    BY <2>1, <2>2, <2>3 DEF ShelfNext
<1> QED
    BY <1>1, <1>2, PTL DEF ShelfSpec

\* The interceptor, deleteByPattern and every writer that drops keys: once a writer has
\* returned, no answer from before its write is served from a key it drops, unless it was
\* on its way when the row was written; for any requests and writers at once.
THEOREM AnswersFreshAlways == ShelfSpec => []AnswersFresh
<1>1. ShelfInv => AnswersFresh
    BY DEF ShelfInv, ShelfTyped, EntrySound, StillCurrent, AnswersFresh
<1> QED
    BY <1>1, ShelfInvariance, PTL

-----------------------------------------------------------------------------
(* StoredFiles: rows that name files, and the bucket                       *)

\* A key is that of its slot.
KeysAt(s) == ((FileRequests \cup {Seed}) \X {s}) \cup {NoKey}
SlotKeys == {f \in [Slots -> Keys \cup {NoKey}] : \A s \in Slots : f[s] \in KeysAt(s)}

Operations ==
    [kind : Kinds, row : Rows, new : SUBSET Slots, kept : SUBSET StatelessSlots]
FileStages == {"idle", "read", "upload", "write", "collect", "rollback", "list", "done"}

FilesTyped ==
    /\ objects \subseteq Keys /\ field \in SlotKeys
    /\ rows \subseteq Rows /\ onChain \in BOOLEAN
    /\ fop \in [FileRequests -> Operations]
    /\ fpc \in [FileRequests -> FileStages]
    /\ old \in [FileRequests -> SlotKeys]
    /\ done \in [FileRequests -> SUBSET Slots]
    /\ spoiled \subseteq Slots /\ leaked \subseteq Keys

\* What a request rewrites are slots of its row; a cover is sent with an image or kept.
OpSound(op) ==
    /\ op.new \subseteq Rewritten(op) /\ Rewritten(op) \subseteq SlotsOf(op.row)
    /\ op.kept \subseteq Rewritten(op) \ op.new
    /\ op.kind # "stateless" => op.kept = {}
    /\ op.kind = "create" => op.row = "slide" /\ op.new = SlotsOf("slide")
    /\ op.kind = "genre" => op.row = "genre"
    /\ op.kind = "delete" => op.row \in {"comic", "issue", "genre"}

\* Rows that never come back
Gone == {"comic", "issue"} \ rows

\* How far a request is
Way(r) ==
    /\ OpSound(fop[r]) /\ done[r] \subseteq Sent(fop[r])
    /\ fpc[r] \in {"idle", "read"} => done[r] = {}
    /\ fpc[r] = "write" => done[r] = Sent(fop[r])
    /\ fpc[r] \in {"idle", "read"} \/ fop[r].kind = "genre" => \A s \in Slots : old[r][s] = NoKey
    /\ fpc[r] = "list" => fop[r].row \in {"comic", "issue"} /\ Deleted(fop[r].row) \cap rows = {}

\* Before its write nobody names the keys of a request, and it never reads them.
Early(r) == fpc[r] \in {"idle", "read", "upload", "write"}
Unnamed(r) ==
    \A s \in Slots :
        /\ old[r][s] # <<r, s>>
        /\ Early(r) => field[s] # <<r, s>> /\ \A q \in FileRequests : old[q][s] # <<r, s>>
        /\ s \notin spoiled /\ field[s] = <<r, s>> => s \in fop[r].new

\* What was uploaded is there when the row is about to name it.
Uploaded(r) ==
    fpc[r] \in {"upload", "write"} =>
        \A s \in done[r] : s[1] \notin Gone => <<r, s>> \in objects

\* What a request is about to delete is named by no row.
Idle(r) ==
    \A s \in Slots \ spoiled :
        /\ fpc[r] = "collect" => field[s] \notin Collected(r)
        /\ fpc[r] = "rollback" => field[s] # <<r, s>>

\* The files that a request has yet to name or to delete
Held(r) ==
    {k \in Keys :
        \/ fpc[r] \in {"upload", "write", "rollback"} /\ \E s \in done[r] \cap fop[r].new : k = <<r, s>>
        \/ fpc[r] = "collect" /\ k \in Collected(r)
        \/ fpc[r] = "list" /\ k[2][1] \in Deleted(fop[r].row)}

RowsFirst == \A s \in Slots : s[1] \notin rows => field[s] = NoKey
Accounted == \A k \in objects : k \in Named \/ k \in leaked \/ \E r \in FileRequests : k \in Held(r)

FilesInv ==
    /\ FilesTyped /\ RowsFirst
    /\ \A r \in FileRequests : Way(r) /\ Unnamed(r) /\ Uploaded(r) /\ Idle(r)
    /\ NamesStored /\ Accounted

\* The key of a slot, the rows of slots
LEMMA SlotKeysAre ==
    /\ NoKey \notin Keys
    /\ \A r \in FileRequests, s \in Slots : <<r, s>> \in Keys /\ <<r, s>> \in KeysAt(s) /\ <<r, s>> # NoKey
    /\ \A s \in Slots : \A k \in KeysAt(s) : k # NoKey => k \in Keys /\ k[2] = s
    /\ \A s \in Slots : NoKey \in KeysAt(s)
    /\ \A q, r \in FileRequests, s, t \in Slots : <<q, s>> = <<r, t>> => q = r /\ s = t
<1>1. NoKey \notin Keys
    BY FilesAssumption
<1>2. \A r \in FileRequests, s \in Slots : <<r, s>> \in Keys /\ <<r, s>> \in KeysAt(s)
    BY DEF Keys, KeysAt
<1>3. \A s \in Slots : \A k \in KeysAt(s) : k # NoKey => k \in Keys /\ k[2] = s
    BY DEF Keys, KeysAt
<1> QED
    BY <1>1, <1>2, <1>3 DEF KeysAt

\* The slots of rows
LEMMA SlotRows ==
    /\ \A s \in Slots : s[1] \in Rows
    /\ \A where \in Rows : SlotsOf(where) = {s \in Slots : s[1] = where}
    /\ StatelessSlots \subseteq SlotsOf("issue") /\ StatefulSlots \subseteq SlotsOf("issue")
    /\ PageSlots \subseteq SlotsOf("issue") /\ <<"issue", "pdf">> \in SlotsOf("issue")
    /\ {"comic", "issue", "genre", "slide", "user", "channel", "campaign"} \subseteq Rows
<1>1. \A s \in Slots : s[1] \in Rows
    BY DEF Rows
<1>2. \A where \in Rows : SlotsOf(where) = {s \in Slots : s[1] = where}
    BY DEF SlotsOf
<1>3. StatelessSlots \subseteq SlotsOf("issue") /\ StatefulSlots \subseteq SlotsOf("issue")
    BY DEF SlotsOf, Slots, StatelessSlots, StatefulSlots
<1>4. PageSlots \subseteq SlotsOf("issue") /\ <<"issue", "pdf">> \in SlotsOf("issue")
    BY DEF SlotsOf, Slots, PageSlots, FieldSlots
<1>5. {"comic", "issue", "genre", "slide"} \subseteq Rows
  <2>1. {<<"comic", "cover">>, <<"issue", "pdf">>, <<"genre", "icon">>, <<"slide", "image">>} \subseteq Slots
    BY DEF Slots, FieldSlots
  <2> QED
    BY <2>1 DEF Rows
<1>6. {"user", "channel", "campaign"} \subseteq Rows
  <2>1. {<<"user", "avatar">>, <<"channel", "banner">>, <<"campaign", "cover">>} \subseteq Slots
    BY DEF Slots, FieldSlots
  <2> QED
    BY <2>1 DEF Rows
<1> QED
    BY <1>1, <1>2, <1>3, <1>4, <1>5, <1>6

\* What the requests of the routes do is of their row.
LEMMA Requested ==
    ASSUME NEW r \in FileRequests, FilesStart(r)
    PROVE  \E op \in Operations : OpSound(op) /\ Request(r, op)
<1>1. ASSUME NEW kind \in {"files", "file"}, NEW where \in Rows, NEW new \in SUBSET SlotsOf(where)
      PROVE  Op(kind, where, new, {}) \in Operations /\ OpSound(Op(kind, where, new, {}))
    BY DEF Op, Operations, OpSound, Kinds, SlotsOf, Rewritten
<1>2. Op("remove", "user", {}, {}) \in Operations /\ OpSound(Op("remove", "user", {}, {}))
    BY SlotRows DEF Op, Operations, OpSound, Kinds, Rewritten
<1>3. ASSUME NEW where \in {"issue", "comic", "genre"}
      PROVE  Op("delete", where, {}, {}) \in Operations /\ OpSound(Op("delete", where, {}, {}))
    BY SlotRows DEF Op, Operations, OpSound, Kinds, Rewritten
<1>4. /\ Op("create", "slide", SlotsOf("slide"), {}) \in Operations
      /\ OpSound(Op("create", "slide", SlotsOf("slide"), {}))
    BY SlotRows DEF Op, Operations, OpSound, Kinds, Rewritten
<1>5. /\ Op("genre", "genre", SlotsOf("genre"), {}) \in Operations
      /\ OpSound(Op("genre", "genre", SlotsOf("genre"), {}))
    BY SlotRows DEF Op, Operations, OpSound, Kinds, Rewritten
<1>6. ASSUME NEW new \in SUBSET StatelessSlots, NEW kept \in SUBSET StatelessSlots, new \cap kept = {}
      PROVE  Op("stateless", "issue", new, kept) \in Operations /\ OpSound(Op("stateless", "issue", new, kept))
    BY <1>6, SlotRows DEF Op, Operations, OpSound, Kinds, Rewritten
<1>7. ASSUME NEW new \in SUBSET SlotsOf("issue"), new = StatefulSlots \/ new \subseteq PageSlots
      PROVE  Op("replace", "issue", new, {}) \in Operations /\ OpSound(Op("replace", "issue", new, {}))
    BY <1>7, SlotRows DEF Op, Operations, OpSound, Kinds, Rewritten
<1>8. CASE ComicUpdateFiles(r) \/ ComicUpdateFile(r)
    BY <1>8, <1>1, SlotRows DEF ComicUpdateFiles, ComicUpdateFile, SomeOf
<1>9. CASE CreatorUpdateFiles(r) \/ CreatorUpdateFile(r)
    BY <1>9, <1>1, SlotRows DEF CreatorUpdateFiles, CreatorUpdateFile, SomeOf
<1>10. CASE CampaignUpdateFiles(r) \/ CampaignUpdateFile(r)
    BY <1>10, <1>1, SlotRows DEF CampaignUpdateFiles, CampaignUpdateFile, SomeOf
<1>11. CASE SlideUpdateFile(r) \/ GenreUpdateFile(r) \/ UserUpdateFile(r)
    BY <1>11, <1>1, SlotRows DEF SlideUpdateFile, GenreUpdateFile, UserUpdateFile
<1>12. CASE removeAvatar(r) \/ DeleteRow(r) \/ CarouselCreate(r) \/ GenreCreate(r)
    BY <1>12, <1>2, <1>3, <1>4, <1>5 DEF removeAvatar, DeleteRow, CarouselCreate, GenreCreate
<1>13. CASE IssueUpdateFiles(r) \/ IssueUpdateFile(r)
    BY <1>13, <1>1, SlotRows DEF IssueUpdateFiles, IssueUpdateFile
<1>14. CASE updateStatelessCovers(r)
    BY <1>14, <1>6 DEF updateStatelessCovers, SomeOf
<1>15. CASE updateStatefulCovers(r) \/ updateManyPages(r)
    BY <1>15, <1>7, SlotRows DEF updateStatefulCovers, updateManyPages, SomeOf
<1> QED
    BY <1>8, <1>9, <1>10, <1>11, <1>12, <1>13, <1>14, <1>15 DEF FilesStart

\* What a request collects are keys it read in slots it rewrites and does not keep.
LEMMA CollectedAre ==
    ASSUME FilesInv, NEW r \in FileRequests
    PROVE  /\ \A k \in Collected(r) : /\ k \in Keys
                                      /\ \E s \in Rewritten(fop[r]) \ fop[r].kept : k = old[r][s]
           /\ \A s \in Rewritten(fop[r]) \ fop[r].kept :
                old[r][s] # NoKey /\ (fop[r].kind = "stateless" => s \in fop[r].new)
                    => old[r][s] \in Collected(r)
<1> DEFINE op == fop[r]
<1>1. /\ op.new \subseteq Rewritten(op) /\ Rewritten(op) \subseteq Slots
      /\ op.kept \subseteq Rewritten(op) \ op.new /\ (op.kind # "stateless" => op.kept = {})
      /\ op.kind = "genre" => \A s \in Slots : old[r][s] = NoKey
    BY DEF FilesInv, Way, OpSound, SlotsOf
<1>2. \A s \in Slots : old[r][s] \in KeysAt(s) /\ old[r][s] # NoKey => old[r][s] \in Keys
    BY SlotKeysAre DEF FilesInv, FilesTyped, SlotKeys
<1>3. old[r] \in SlotKeys /\ \A s \in Slots : old[r][s] # NoKey => old[r][s] \in Keys
    BY <1>2 DEF FilesInv, FilesTyped, SlotKeys
<1>4. \A s \in Slots : old[r][s] \notin NewKeys(r)
  <2>1. ASSUME NEW s \in Slots, NEW t \in done[r], old[r][s] = <<r, t>> PROVE FALSE
    <3>1. t \in Slots /\ old[r][s] \in KeysAt(s) /\ old[r][s] # <<r, s>>
      BY <1>3 DEF FilesInv, FilesTyped, SlotKeys, Unnamed
    <3> QED
      BY <2>1, <3>1, SlotKeysAre
  <2> QED
    BY <2>1 DEF NewKeys
<1> HIDE DEF op
<1>5. CASE op.kind = "stateless"
  <2>1. Collected(r) = garbageCollectOldFiles({}, ReadKeys(r, op.new))
    BY <1>5 DEF Collected, op
  <2> QED
    BY <2>1, <1>1, <1>3, <1>5 DEF garbageCollectOldFiles, ReadKeys, op
<1>6. CASE op.kind = "replace"
  <2>1. Collected(r) = garbageCollectOldFiles({}, ReadKeys(r, Rewritten(op)))
    BY <1>6 DEF Collected, op
  <2> QED
    BY <2>1, <1>1, <1>3, <1>6 DEF garbageCollectOldFiles, ReadKeys, op
<1>7. CASE op.kind = "genre"
  <2>1. Collected(r) = {}
    BY <1>7 DEF Collected, op
  <2> QED
    BY <2>1, <1>1, <1>7 DEF op
<1>8. CASE op.kind \notin {"stateless", "replace", "genre"}
  <2>1. Collected(r) = garbageCollectOldFiles(NewKeys(r), ReadKeys(r, Rewritten(op)))
    BY <1>8 DEF Collected, op
  <2> QED
    BY <2>1, <1>1, <1>3, <1>4, <1>8 DEF garbageCollectOldFiles, ReadKeys, op
<1> QED
    BY <1>5, <1>6, <1>7, <1>8

\* A request goes on, and the rows stay.
LEMMA FilesGoOn ==
    ASSUME FilesInv, NEW r \in FileRequests, NEW stage \in FileStages, To(r, stage),
           stage \in {"idle", "read", "upload", "write"} => Early(r),
           UNCHANGED <<field, rows, onChain, fop, old>>,
           objects' \subseteq Keys, leaked \subseteq leaked', leaked' \subseteq Keys,
           spoiled \subseteq spoiled', spoiled' \subseteq Slots,
           done' \in [FileRequests -> SUBSET Slots],
           \A q \in FileRequests \ {r} : done'[q] = done[q],
           Way(r)', Uploaded(r)', Idle(r)',
           \A k \in objects \ objects' :
               /\ \A s \in Slots \ spoiled' : field[s] # k
               /\ \A q \in FileRequests \ {r}, s \in Slots :
                    k = <<q, s>> => s[1] \in Gone \/ ~Early(q),
           \A k \in objects' : k \in objects \cup leaked' \/ k \in Held(r)',
           \A k \in Held(r) \cap objects' : k \in leaked' \/ k \in Held(r)'
    PROVE  FilesInv'
<1>1. FilesTyped'
    BY DEF FilesInv, FilesTyped, To
<1>2. fpc'[r] = stage /\ \A q \in FileRequests \ {r} : fpc'[q] = fpc[q]
    BY DEF FilesInv, FilesTyped, To
<1>3. RowsFirst'
    BY DEF FilesInv, RowsFirst
<1>4. ASSUME NEW q \in FileRequests PROVE Way(q)'
  <2>1. CASE q = r
    BY <2>1
  <2>2. CASE q # r
    <3>1. fpc'[q] = fpc[q] /\ done'[q] = done[q] /\ Way(q)
      BY <2>2, <1>2 DEF FilesInv
    <3> QED
      BY <3>1 DEF Way, OpSound
  <2> QED
    BY <2>1, <2>2
<1>5. ASSUME NEW q \in FileRequests PROVE Unnamed(q)'
  <2>1. Early(q)' => Early(q)
    BY <1>2 DEF Early
  <2> QED
    BY <2>1 DEF FilesInv, Unnamed
<1>6. ASSUME NEW q \in FileRequests PROVE Uploaded(q)'
  <2>1. CASE q = r
    BY <2>1
  <2>2. CASE q # r
    <3>1. fpc'[q] = fpc[q] /\ done'[q] = done[q] /\ Uploaded(q) /\ done[q] \subseteq Slots /\ Gone' = Gone
      BY <2>2, <1>2 DEF FilesInv, FilesTyped, Gone
    <3> QED
      BY <3>1, <2>2 DEF Uploaded, Early
  <2> QED
    BY <2>1, <2>2
<1>7. ASSUME NEW q \in FileRequests PROVE Idle(q)'
  <2>1. CASE q = r
    BY <2>1
  <2>2. CASE q # r
    <3>1. fpc'[q] = fpc[q] /\ Idle(q) /\ Collected(q)' = Collected(q)
      BY <2>2, <1>2 DEF FilesInv, Collected, ReadKeys, NewKeys
    <3> QED
      BY <3>1 DEF Idle
  <2> QED
    BY <2>1, <2>2
<1>8. NamesStored'
  <2> SUFFICES ASSUME NEW s \in Slots \ spoiled', s[1] \in rows, field[s] # NoKey
               PROVE  field[s] \in objects'
    BY DEF NamesStored
  <2>1. field[s] \in objects
    BY DEF FilesInv, NamesStored
  <2> QED
    BY <2>1
<1>9. Accounted'
  <2> SUFFICES ASSUME NEW k \in objects'
               PROVE  k \in Named' \/ k \in leaked' \/ \E q \in FileRequests : k \in Held(q)'
    BY DEF Accounted
  <2>1. CASE k \in leaked' \/ k \in Held(r)'
    BY <2>1
  <2>2. CASE k \in objects /\ k \notin leaked'
    <3>1. CASE k \in Named
      BY <3>1 DEF Named
    <3>2. CASE \E q \in FileRequests : k \in Held(q)
      <4>1. PICK q \in FileRequests : k \in Held(q)
        BY <3>2
      <4>2. CASE q = r
        BY <4>1, <4>2, <2>2
      <4>3. CASE q # r
        <5>1. fpc'[q] = fpc[q] /\ done'[q] = done[q] /\ Collected(q)' = Collected(q)
          BY <4>3, <1>2 DEF Collected, ReadKeys, NewKeys
        <5> QED
          BY <5>1, <4>1 DEF Held
      <4> QED
        BY <4>2, <4>3
    <3> QED
      BY <3>1, <3>2, <2>2 DEF FilesInv, Accounted
  <2> QED
    BY <2>1, <2>2
<1> QED
    BY <1>1, <1>3, <1>4, <1>5, <1>6, <1>7, <1>8, <1>9 DEF FilesInv

\* uploadFile
LEMMA UploadGoes ==
    ASSUME FilesInv, NEW r \in FileRequests, uploadFile(r)
    PROVE  FilesInv'
<1> DEFINE op == fop[r]
<1>0. FilesTyped /\ Way(r) /\ Unnamed(r) /\ Uploaded(r) /\ fpc[r] = "upload"
    BY DEF FilesInv, uploadFile
<1>1. PICK s \in Sent(op) \ done[r] :
        /\ done' = [done EXCEPT ![r] = @ \cup {s}] /\ objects' = objects \cup {<<r, s>>}
        /\ leaked' = IF s \in op.kept THEN leaked \cup {<<r, s>>} ELSE leaked
        /\ To(r, IF Sent(op) = done'[r] THEN "write" ELSE "upload")
        /\ UNCHANGED <<field, rows, onChain, fop, old, spoiled>>
    BY DEF uploadFile
<1>2. s \in Slots /\ Sent(op) \subseteq Slots
    BY <1>0 DEF Way, OpSound, Sent, SlotsOf
<1>3. done'[r] = done[r] \cup {s} /\ done' \in [FileRequests -> SUBSET Slots]
      /\ \A q \in FileRequests \ {r} : done'[q] = done[q]
    BY <1>0, <1>1, <1>2 DEF FilesTyped
<1>4. PICK stage \in {"write", "upload"} : /\ To(r, stage) /\ fpc'[r] = stage
                                           /\ stage = "write" => done'[r] = Sent(op)
    BY <1>0, <1>1 DEF To, FilesTyped
<1>5. Way(r)'
    BY <1>0, <1>1, <1>3, <1>4 DEF Way, OpSound, Sent
<1>6. Uploaded(r)'
    BY <1>0, <1>1, <1>3, <1>4 DEF Uploaded, Gone
<1>7. Idle(r)'
    BY <1>4 DEF Idle
<1>8. objects' \subseteq Keys /\ leaked' \subseteq Keys /\ leaked \subseteq leaked' /\ spoiled' \subseteq Slots
    BY <1>0, <1>1, <1>2, SlotKeysAre DEF FilesTyped
<1>9. \A k \in objects' : k \in objects \cup leaked' \/ k \in Held(r)'
    BY <1>1, <1>2, <1>3, <1>4, SlotKeysAre DEF Held, Sent
<1>10. \A k \in Held(r) \cap objects' : k \in leaked' \/ k \in Held(r)'
    BY <1>0, <1>1, <1>3, <1>4 DEF Held
<1> QED
    BY <1>0, <1>1, <1>3, <1>4, <1>5, <1>6, <1>7, <1>8, <1>9, <1>10, FilesGoOn DEF Early, FileStages

\* What a request held is deleted, or stays and is known.
LEMMA Collects ==
    ASSUME FilesInv, NEW r \in FileRequests, CollectOld(r) \/ CollectFails(r)
    PROVE  FilesInv'
<1>0. FilesTyped /\ Way(r) /\ Unnamed(r) /\ Idle(r) /\ fpc[r] = "collect"
    BY DEF FilesInv, CollectOld, CollectFails
<1>1. PICK left \in SUBSET Collected(r), stage \in FileStages :
        /\ objects' = objects \ (Collected(r) \ left) /\ leaked' = leaked \cup left
        /\ To(r, stage) /\ stage \in {"rollback", "done"}
        /\ stage = "rollback" => spoiled' = spoiled \cup {s \in fop[r].new : field[s] = <<r, s>>}
        /\ stage = "done" => spoiled' = spoiled
        /\ UNCHANGED <<field, rows, onChain, fop, old, done>>
  <2>1. CASE CollectOld(r)
    <3>1. objects' = objects \ (Collected(r) \ {}) /\ leaked' = leaked \cup {}
      BY <2>1 DEF CollectOld
    <3> QED
      BY <2>1, <3>1 DEF CollectOld, FileStages
  <2>2. CASE CollectFails(r)
    BY <2>2 DEF CollectFails, SomeOf, FileStages
  <2> QED
    BY <2>1, <2>2
<1>2. fpc'[r] = stage
    BY <1>0, <1>1 DEF To, FilesTyped
<1>3. fop[r].new \subseteq Slots /\ \A k \in Collected(r) : k \in Keys /\ \E s \in Slots : k = old[r][s]
    BY <1>0, CollectedAre DEF Way, OpSound, SlotsOf
<1>4. Way(r)'
    BY <1>0, <1>1, <1>2 DEF Way, OpSound
<1>5. Uploaded(r)'
    BY <1>1, <1>2 DEF Uploaded
<1>6. Idle(r)'
    BY <1>0, <1>1, <1>2 DEF Idle, Unnamed
<1>7. objects' \subseteq Keys /\ leaked' \subseteq Keys /\ leaked \subseteq leaked'
      /\ spoiled \subseteq spoiled' /\ spoiled' \subseteq Slots
    BY <1>0, <1>1, <1>3 DEF FilesTyped
<1>8. \A k \in objects \ objects' :
        /\ \A s \in Slots \ spoiled' : field[s] # k
        /\ \A q \in FileRequests \ {r}, s \in Slots : k = <<q, s>> => s[1] \in Gone \/ ~Early(q)
  <2> SUFFICES ASSUME NEW k \in Collected(r)
               PROVE  /\ \A s \in Slots \ spoiled' : field[s] # k
                      /\ \A q \in FileRequests \ {r}, s \in Slots : k = <<q, s>> => ~Early(q)
    BY <1>1
  <2>1. \A s \in Slots \ spoiled : field[s] # k
    BY <1>0 DEF Idle
  <2>2. ASSUME NEW q \in FileRequests, NEW s \in Slots, k = <<q, s>> PROVE ~Early(q)
    <3>1. PICK t \in Slots : k = old[r][t]
      BY <1>3
    <3>2. k \in KeysAt(t)
      BY <3>1, <1>0 DEF FilesTyped, SlotKeys
    <3>3. t = s
      BY <3>2, <2>2, SlotKeysAre
    <3> QED
      BY <3>1, <3>3, <2>2 DEF FilesInv, Unnamed
  <2> QED
    BY <2>1, <2>2, <1>7
<1>9. \A k \in Held(r) \cap objects' : k \in leaked' \/ k \in Held(r)'
    BY <1>0, <1>1 DEF Held
<1> QED
    BY <1>0, <1>1, <1>2, <1>4, <1>5, <1>6, <1>7, <1>8, <1>9, FilesGoOn DEF FilesTyped, FileStages

\* garbageCollectNewFiles
LEMMA RollsBack ==
    ASSUME FilesInv, NEW r \in FileRequests, CollectNew(r) \/ RollbackFails(r)
    PROVE  FilesInv'
<1>0. FilesTyped /\ Way(r) /\ Idle(r) /\ fpc[r] = "rollback"
    BY DEF FilesInv, CollectNew, RollbackFails
<1>1. /\ objects' \subseteq objects /\ leaked \subseteq leaked' /\ leaked' \subseteq leaked \cup NewKeys(r)
      /\ \A k \in objects \ objects' : k \in NewKeys(r)
      /\ \A k \in objects' : k \in leaked' \/ \A s \in done[r] \cap fop[r].new : k # <<r, s>>
      /\ To(r, "done") /\ UNCHANGED <<field, rows, onChain, fop, old, done, spoiled>>
  <2>1. CASE CollectNew(r)
    BY <2>1 DEF CollectNew, NewKeys
  <2>2. CASE RollbackFails(r)
    BY <2>2 DEF RollbackFails, NewKeys, SomeOf
  <2> QED
    BY <2>1, <2>2
<1>2. fpc'[r] = "done"
    BY <1>0, <1>1 DEF To, FilesTyped
<1>3. NewKeys(r) \subseteq Keys /\ done[r] \subseteq Slots
    BY <1>0, SlotKeysAre DEF FilesTyped, NewKeys
<1>4. Way(r)'
    BY <1>0, <1>1, <1>2 DEF Way, OpSound
<1>5. Uploaded(r)' /\ Idle(r)'
    BY <1>1, <1>2 DEF Uploaded, Idle
<1>6. \A k \in objects \ objects' :
        /\ \A s \in Slots \ spoiled' : field[s] # k
        /\ \A q \in FileRequests \ {r}, s \in Slots : k = <<q, s>> => s[1] \in Gone \/ ~Early(q)
  <2> SUFFICES ASSUME NEW t \in done[r]
               PROVE  /\ \A s \in Slots \ spoiled' : field[s] # <<r, t>>
                      /\ \A q \in FileRequests \ {r}, s \in Slots : <<r, t>> # <<q, s>>
    BY <1>1 DEF NewKeys
  <2>1. ASSUME NEW s \in Slots \ spoiled, field[s] = <<r, t>> PROVE FALSE
    <3>1. field[s] \in KeysAt(s) /\ field[s] # <<r, s>>
      BY <1>0 DEF FilesTyped, SlotKeys, Idle
    <3> QED
      BY <3>1, <2>1, <1>3, SlotKeysAre
  <2> QED
    BY <2>1, <1>1
<1>7. \A k \in Held(r) \cap objects' : k \in leaked' \/ k \in Held(r)'
    BY <1>0, <1>1 DEF Held
<1>8. objects' \subseteq Keys /\ leaked' \subseteq Keys
    BY <1>0, <1>1, <1>3 DEF FilesTyped
<1> QED
    BY <1>0, <1>1, <1>2, <1>4, <1>5, <1>6, <1>7, <1>8, FilesGoOn DEF FilesTyped, FileStages

\* deleteFolder: the row of the folder is gone, and nobody names what is in it.
LEMMA FolderGoes ==
    ASSUME FilesInv, NEW r \in FileRequests, deleteFolder(r) \/ DeleteFolderFails(r)
    PROVE  FilesInv'
<1> DEFINE where == fop[r].row
<1>0. FilesTyped /\ Way(r) /\ RowsFirst /\ fpc[r] = "list"
    BY DEF FilesInv, deleteFolder, DeleteFolderFails
<1>1. /\ \/ objects' = objects \ Folder(where) /\ leaked' = leaked
         \/ objects' = objects /\ leaked' = leaked \cup Folder(where)
      /\ To(r, "done") /\ UNCHANGED <<field, rows, onChain, fop, old, done, spoiled>>
    BY DEF deleteFolder, DeleteFolderFails
<1>2. fpc'[r] = "done"
    BY <1>0, <1>1 DEF To, FilesTyped
<1>3. where \in {"comic", "issue"} /\ Deleted(where) \subseteq Gone
    BY <1>0 DEF Way, Deleted, Gone
<1>4. Folder(where) = {k \in objects : k[2][1] \in Deleted(where)}
    BY <1>3 DEF Folder, Deleted
<1>5. Way(r)'
    BY <1>0, <1>1, <1>2 DEF Way, OpSound
<1>6. Uploaded(r)' /\ Idle(r)'
    BY <1>1, <1>2 DEF Uploaded, Idle
<1>7. \A k \in objects \ objects' :
        /\ \A s \in Slots \ spoiled' : field[s] # k
        /\ \A q \in FileRequests \ {r}, s \in Slots : k = <<q, s>> => s[1] \in Gone \/ ~Early(q)
  <2> SUFFICES ASSUME NEW k \in objects, k[2][1] \in Gone
               PROVE  /\ \A s \in Slots : field[s] # k
                      /\ \A q \in FileRequests, s \in Slots : k = <<q, s>> => s[1] \in Gone
    BY <1>1, <1>3, <1>4
  <2>1. ASSUME NEW s \in Slots, field[s] = k PROVE FALSE
    <3>1. k # NoKey /\ k[2] = s
      BY <1>0, <2>1, SlotKeysAre DEF FilesTyped, SlotKeys
    <3> QED
      BY <3>1, <2>1, <1>0 DEF RowsFirst, Gone
  <2> QED
    BY <2>1
<1>8. \A k \in Held(r) \cap objects' : k \in leaked' \/ k \in Held(r)'
    BY <1>0, <1>1, <1>4 DEF Held
<1>9. objects' \subseteq Keys /\ leaked' \subseteq Keys /\ leaked \subseteq leaked'
    BY <1>0, <1>1, <1>4 DEF FilesTyped
<1>10. done' \in [FileRequests -> SUBSET Slots] /\ spoiled' \subseteq Slots /\ "done" \in FileStages
       /\ objects' \subseteq objects
    BY <1>0, <1>1 DEF FilesTyped, FileStages
<1> QED
    BY <1>0, <1>1, <1>2, <1>5, <1>6, <1>7, <1>8, <1>9, <1>10, FilesGoOn DEF FileStages

\* A request that is refused leaves its row alone.
LEMMA RefusalKeepsFiles ==
    ASSUME FilesInv, NEW r \in FileRequests, WriteFails(r) \/ DeleteRefused(r)
    PROVE  FilesInv'
<1>0. FilesTyped /\ Way(r) /\ Unnamed(r) /\ fpc[r] \in {"read", "write"}
    BY DEF FilesInv, WriteFails, DeleteRefused
<1>1. PICK stage \in {"done", "rollback"} :
        /\ To(r, stage)
        /\ leaked' = leaked \/ leaked' = leaked \cup NewKeys(r)
        /\ fpc[r] = "write" /\ stage = "done" => leaked' = leaked \cup NewKeys(r)
        /\ UNCHANGED <<objects, field, rows, onChain, fop, old, done, spoiled>>
    BY DEF WriteFails, DeleteRefused
<1>2. fpc'[r] = stage
    BY <1>0, <1>1 DEF To, FilesTyped
<1>3. NewKeys(r) \subseteq Keys
    BY <1>0, SlotKeysAre DEF FilesTyped, NewKeys
<1>4. Way(r)'
    BY <1>0, <1>1, <1>2 DEF Way, OpSound
<1>5. Uploaded(r)' /\ Idle(r)'
    BY <1>0, <1>1, <1>2 DEF Uploaded, Idle, Unnamed, Early
<1>6. \A k \in Held(r) \cap objects' : k \in leaked' \/ k \in Held(r)'
    BY <1>0, <1>1, <1>2 DEF Held, NewKeys
<1>7. objects' \subseteq Keys /\ leaked' \subseteq Keys /\ leaked \subseteq leaked'
    BY <1>0, <1>1, <1>3 DEF FilesTyped
<1> QED
    BY <1>0, <1>1, <1>2, <1>4, <1>5, <1>6, <1>7, FilesGoOn DEF FilesTyped, FileStages

\* Uploads beside the one that fails
LEMMA UploadStops ==
    ASSUME FilesInv, NEW r \in FileRequests, UploadFails(r), fop[r].kind # "genre"
    PROVE  FilesInv'
<1>0. FilesTyped /\ Way(r) /\ Unnamed(r) /\ Uploaded(r) /\ fpc[r] = "upload"
    BY DEF FilesInv, UploadFails
<1>1. PICK late \in SUBSET (Sent(fop[r]) \ done[r]), stage \in {"done", "rollback"} :
        /\ done' = [done EXCEPT ![r] = @ \cup late]
        /\ objects' = objects \cup {<<r, s>> : s \in late}
        /\ leaked' = leaked \cup IF stage = "done" THEN {<<r, s>> : s \in done'[r]} ELSE {}
        /\ stage = "rollback" => late = {}
        /\ To(r, stage) /\ UNCHANGED <<field, rows, onChain, fop, old, spoiled>>
  <2>1. CASE fop[r].kind = "files"
    <3>1. done' = [done EXCEPT ![r] = @ \cup {}] /\ objects' = objects \cup {<<r, s>> : s \in {}}
          /\ leaked' = leaked \cup {}
      BY <2>1, <1>0 DEF UploadFails, FilesTyped
    <3>2. To(r, "rollback") /\ UNCHANGED <<field, rows, onChain, fop, old, spoiled>>
      BY <2>1 DEF UploadFails
    <3>3. {} \subseteq Sent(fop[r]) \ done[r]
      OBVIOUS
    <3> QED
      BY <3>1, <3>2, <3>3
  <2>2. CASE fop[r].kind # "files"
    BY <2>2 DEF UploadFails
  <2> QED
    BY <2>1, <2>2
<1>2. fpc'[r] = stage
    BY <1>0, <1>1 DEF To, FilesTyped
<1>3. late \subseteq Slots
    BY <1>0, <1>1 DEF Way, OpSound, Sent, SlotsOf
<1>4. /\ done' \in [FileRequests -> SUBSET Slots] /\ done'[r] = done[r] \cup late
      /\ \A q \in FileRequests \ {r} : done'[q] = done[q]
    BY <1>0, <1>1, <1>3 DEF FilesTyped
<1>5. Way(r)'
    BY <1>0, <1>1, <1>2, <1>4 DEF Way, OpSound, Sent
<1>6. Uploaded(r)' /\ Idle(r)'
    BY <1>0, <1>1, <1>2 DEF Uploaded, Idle, Unnamed, Early
<1>7. /\ \A k \in Held(r) \cap objects' : k \in leaked' \/ k \in Held(r)'
      /\ \A k \in objects' : k \in objects \cup leaked'
    BY <1>0, <1>1, <1>2, <1>4 DEF Held
<1>8. objects' \subseteq Keys /\ leaked' \subseteq Keys /\ leaked \subseteq leaked'
  <2>1. done'[r] \subseteq Slots
    BY <1>4
  <2> QED
    BY <2>1, <1>0, <1>1, <1>3, SlotKeysAre DEF FilesTyped
<1> QED
    BY <1>0, <1>1, <1>2, <1>4, <1>5, <1>6, <1>7, <1>8, FilesGoOn DEF FilesTyped, FileStages

\* A request comes, and reads the keys that its row names.
LEMMA FilesBegin ==
    ASSUME FilesInv, NEW r \in FileRequests, fpc[r] \in {"idle", "read"},
           NEW stage \in {"read", "upload", "write", "done"}, To(r, stage),
           NEW op \in Operations, fop' = [fop EXCEPT ![r] = op],
           NEW keys \in {old[r], field}, old' = [old EXCEPT ![r] = keys],
           UNCHANGED <<objects, field, rows, onChain, done, spoiled, leaked>>,
           Way(r)'
    PROVE  FilesInv'
<1>0. FilesTyped /\ Unnamed(r) /\ Early(r)
    BY DEF FilesInv, Early
<1>1. /\ fpc'[r] = stage /\ fop'[r] = op /\ old'[r] = keys
      /\ \A q \in FileRequests \ {r} : fpc'[q] = fpc[q] /\ fop'[q] = fop[q] /\ old'[q] = old[q]
    BY <1>0 DEF To, FilesTyped
<1>2. FilesTyped'
    BY <1>0 DEF FilesTyped, To, FileStages
<1>3. ASSUME NEW q \in FileRequests \ {r}
      PROVE  /\ Way(q)' /\ Uploaded(q)' /\ Idle(q)' /\ Held(q)' = Held(q)
  <2>1. Collected(q)' = Collected(q)
    BY <1>1 DEF Collected, ReadKeys, NewKeys
  <2>2. Way(q)'
    BY <1>1 DEF FilesInv, Way
  <2>3. Uploaded(q)' /\ Idle(q)'
    BY <1>1, <2>1 DEF FilesInv, Uploaded, Idle, Gone
  <2>4. Held(q)' = Held(q)
    BY <1>1, <2>1 DEF Held
  <2> QED
    BY <2>2, <2>3, <2>4
<1>4. ASSUME NEW q \in FileRequests PROVE Unnamed(q)'
  <2>1. Early(q)' => Early(q)
    BY <1>0, <1>1 DEF Early
  <2>2. ASSUME NEW s \in Slots PROVE keys[s] = old[r][s] \/ keys[s] = field[s]
    OBVIOUS
  <2>3. CASE q = r
    BY <2>3, <2>2, <1>0, <1>1 DEF FilesInv, Unnamed
  <2>4. CASE q # r
    BY <2>4, <2>1, <2>2, <1>1 DEF FilesInv, Unnamed
  <2> QED
    BY <2>3, <2>4
<1>5. Uploaded(r)'
  <2>1. done'[r] = {}
    BY DEF FilesInv, Way
  <2> QED
    BY <2>1 DEF Uploaded
<1>6. Idle(r)'
    BY <1>1 DEF Idle
<1>7. Accounted'
    BY <1>3 DEF FilesInv, Accounted, Named, Held
<1>8. RowsFirst' /\ NamesStored'
    BY DEF FilesInv, RowsFirst, NamesStored
<1> QED
    BY <1>2, <1>3, <1>4, <1>5, <1>6, <1>7, <1>8 DEF FilesInv

\* The routes, and FindRow
LEMMA Begins ==
    ASSUME FilesInv, NEW r \in FileRequests, FilesStart(r) \/ FindRow(r)
    PROVE  FilesInv'
<1>0. FilesTyped /\ Way(r)
    BY DEF FilesInv
<1>1. CASE FilesStart(r)
  <2>1. PICK op \in Operations : OpSound(op) /\ Request(r, op)
    BY <1>1, Requested
  <2>2. fpc'[r] = "read" /\ fop'[r] = op
    BY <1>0, <2>1 DEF Request, To, FilesTyped
  <2>3. Way(r)'
    BY <1>0, <2>1, <2>2 DEF Request, Way, OpSound
  <2>4. old' = [old EXCEPT ![r] = old[r]]
    BY <1>0, <2>1 DEF Request, FilesTyped
  <2> QED
    BY <2>1, <2>3, <2>4, FilesBegin DEF Request
<1>2. CASE FindRow(r)
  <2>1. fop' = [fop EXCEPT ![r] = fop[r]] /\ fop[r] \in Operations
    BY <1>0, <1>2 DEF FindRow, FilesTyped
  <2>2. PICK keys \in {old[r], field}, stage \in {"upload", "write", "done"} :
          /\ old' = [old EXCEPT ![r] = keys] /\ To(r, stage)
          /\ stage = "write" => Sent(fop[r]) = {}
    BY <1>0, <1>2 DEF FindRow, FilesTyped
  <2>3. fpc'[r] = stage /\ done[r] = {}
    BY <1>0, <1>2, <2>2 DEF FindRow, To, FilesTyped, Way
  <2>4. Way(r)'
    BY <1>0, <1>2, <2>2, <2>3 DEF FindRow, Way, OpSound
  <2> QED
    BY <1>2, <2>1, <2>2, <2>4, FilesBegin DEF FindRow
<1> QED
    BY <1>1, <1>2

\* genre.create: a row that nobody has named a file of
LEMMA GenreComes ==
    ASSUME FilesInv, NEW r \in FileRequests, InsertGenre(r)
    PROVE  FilesInv'
<1>0. FilesTyped /\ Way(r) /\ fpc[r] = "read"
    BY DEF FilesInv, InsertGenre
<1>1. /\ rows' = rows \/ rows' = rows \cup {"genre"}
      /\ UNCHANGED <<objects, field, onChain, fop, old, done, spoiled, leaked>>
      /\ \E stage \in {"upload", "done"} : To(r, stage)
    BY DEF InsertGenre
<1>2. /\ fpc'[r] \in {"upload", "done"} /\ fpc' \in [FileRequests -> FileStages]
      /\ \A q \in FileRequests \ {r} : fpc'[q] = fpc[q]
    BY <1>0, <1>1 DEF To, FilesTyped, FileStages
<1>3. FilesTyped'
    BY <1>0, <1>1, <1>2, SlotRows DEF FilesTyped
<1>4. Gone' = Gone /\ RowsFirst'
    BY <1>1 DEF FilesInv, Gone, RowsFirst
<1>5. ASSUME NEW q \in FileRequests
      PROVE  Way(q)' /\ Unnamed(q)' /\ Uploaded(q)' /\ Idle(q)' /\ Held(q) \subseteq Held(q)'
  <2>0. q # r => fpc'[q] = fpc[q]
    BY <1>2
  <2>1. Collected(q)' = Collected(q)
    BY <1>1 DEF Collected, ReadKeys, NewKeys
  <2>2. Way(q)'
    BY <1>0, <1>1, <1>2, <2>0 DEF FilesInv, Way, OpSound, Deleted
  <2>3. Unnamed(q)'
    BY <1>0, <1>1, <1>2, <2>0 DEF FilesInv, Unnamed, Early
  <2>4. Uploaded(q)'
    BY <1>0, <1>1, <1>4, <2>0 DEF FilesInv, Way, Uploaded
  <2>5. Idle(q)'
    BY <1>1, <1>2, <2>0, <2>1 DEF FilesInv, Idle
  <2>6. Held(q) \subseteq Held(q)'
    BY <1>0, <1>1, <1>2, <2>0, <2>1 DEF Held
  <2> QED
    BY <2>2, <2>3, <2>4, <2>5, <2>6
<1>6. NamesStored'
    BY <1>1 DEF FilesInv, NamesStored, RowsFirst
<1>7. Accounted'
    BY <1>1, <1>5 DEF FilesInv, Accounted, Named
<1> QED
    BY <1>3, <1>4, <1>5, <1>6, <1>7 DEF FilesInv

\* A row names what a request uploaded; what it named before is kept, is about to be
\* collected, or is known to be left.
LEMMA RowNames ==
    ASSUME FilesInv, NEW r \in FileRequests, fpc[r] = "write", field' = Written(r),
           fop[r].row \in rows \/ fop[r].row = "slide", rows' = rows \cup {fop[r].row},
           NEW stage \in {"collect", "done"}, To(r, stage),
           spoiled' \subseteq Slots, leaked \subseteq leaked', leaked' \subseteq Keys,
           \A s \in Slots \ spoiled' :
               /\ s \notin Rewritten(fop[r]) => s \notin spoiled
               /\ s \in fop[r].kept => s \notin spoiled /\ field[s] = old[r][s],
           \A s \in Rewritten(fop[r]) : s[1] \in rows /\ field[s] # NoKey =>
               \/ field[s] \in leaked' \/ field'[s] = field[s]
               \/ stage = "collect" /\ field[s] \in Collected(r),
           UNCHANGED <<objects, onChain, fop, old, done>>
    PROVE  FilesInv'
<1> DEFINE op == fop[r]
           rewritten == Rewritten(op)
<1>0. FilesTyped /\ Way(r) /\ Unnamed(r) /\ Uploaded(r) /\ Early(r)
    BY DEF FilesInv, Early
<1>1. /\ fpc'[r] = stage /\ fpc' \in [FileRequests -> FileStages]
      /\ \A q \in FileRequests \ {r} : fpc'[q] = fpc[q]
    BY <1>0 DEF To, FilesTyped, FileStages
<1>2. /\ op \in Operations /\ rewritten \subseteq Slots /\ \A s \in rewritten : s[1] = op.row
      /\ op.new \subseteq rewritten /\ op.kept \subseteq rewritten \ op.new
      /\ done[r] = op.new \cup op.kept
    BY <1>0 DEF FilesTyped, Way, OpSound, SlotsOf, Sent
<1>3. /\ op.row \in Rows /\ Gone' = Gone /\ op.row \notin Gone
    BY <1>2 DEF Operations, Gone
<1> HIDE DEF rewritten
<1>4. /\ field' = [s \in Slots |-> field'[s]]
      /\ \A s \in Slots \ rewritten : field'[s] = field[s]
      /\ \A s \in op.new : field'[s] = <<r, s>>
      /\ \A s \in op.kept : field'[s] = old[r][s]
      /\ \A s \in rewritten \ (op.new \cup op.kept) : field'[s] = NoKey
    BY <1>2 DEF Written, rewritten
<1> HIDE DEF op
<1>5. ASSUME NEW s \in Slots
      PROVE  /\ field'[s] \in {field[s], <<r, s>>, old[r][s], NoKey}
             /\ s \in op.kept \/ field'[s] \in {field[s], <<r, s>>, NoKey}
             /\ s \in rewritten => field'[s] \in {<<r, s>>, old[r][s], NoKey}
             /\ s \in rewritten \ op.kept => field'[s] \in {<<r, s>>, NoKey}
    BY <1>2, <1>4
<1>6. field' \in SlotKeys
  <2>1. ASSUME NEW s \in Slots PROVE field'[s] \in Keys \cup {NoKey} /\ field'[s] \in KeysAt(s)
    BY <1>0, <1>5, SlotKeysAre DEF FilesTyped, SlotKeys
  <2> QED
    BY <2>1, <1>4 DEF SlotKeys
<1>7. FilesTyped'
    BY <1>0, <1>1, <1>3, <1>6 DEF FilesTyped, op
<1>8. RowsFirst'
    BY <1>2, <1>4 DEF FilesInv, RowsFirst, op
<1>9. ASSUME NEW q \in FileRequests PROVE Collected(q)' = Collected(q)
    BY DEF Collected, ReadKeys, NewKeys
<1>10. ASSUME NEW q \in FileRequests PROVE Way(q)'
  <2>1. Way(q)
    BY DEF FilesInv
  <2>2. q # r => fpc'[q] = fpc[q]
    BY <1>1
  <2>3. op.row \in rows \/ op.row \notin {"comic", "issue"}
    BY DEF op
  <2> QED
    BY <2>1, <2>2, <2>3, <1>0, <1>1 DEF Way, OpSound, Deleted, op
<1>11. ASSUME NEW q \in FileRequests PROVE Unnamed(q)'
  <2>1. q # r => fpc'[q] = fpc[q]
    BY <1>1
  <2>2. ASSUME NEW s \in Slots, Early(q)' PROVE field'[s] # <<q, s>>
    <3>1. q # r /\ Early(q)
      BY <1>1, <2>1, <2>2 DEF Early
    <3>2. field[s] # <<q, s>> /\ old[r][s] # <<q, s>> /\ <<q, s>> # NoKey
      BY <3>1, SlotKeysAre DEF FilesInv, Unnamed
    <3>3. <<r, s>> # <<q, s>>
      BY <3>1, SlotKeysAre
    <3>4. field'[s] \in {field[s], <<r, s>>, old[r][s], NoKey}
      BY <1>5
    <3> QED
      BY <3>2, <3>3, <3>4
  <2>3. ASSUME NEW s \in Slots \ spoiled', field'[s] = <<q, s>> PROVE s \in fop[q].new
    <3>1. CASE s \notin rewritten
      BY <3>1, <2>3, <1>4 DEF FilesInv, Unnamed, rewritten, op
    <3>2. CASE s \in op.new
      BY <3>2, <2>3, <1>4, SlotKeysAre DEF op
    <3>3. CASE s \in op.kept
      BY <3>3, <2>3, <1>4 DEF FilesInv, Unnamed, op
    <3>4. CASE s \in rewritten \ (op.new \cup op.kept)
      <4>1. field'[s] = NoKey /\ <<q, s>> # NoKey
        BY <3>4, <1>4, SlotKeysAre
      <4> QED
        BY <4>1, <2>3
    <3> QED
      BY <3>1, <3>2, <3>3, <3>4
  <2>4. Early(q)' => Early(q)
    BY <1>0, <2>1 DEF Early
  <2> QED
    BY <2>2, <2>3, <2>4 DEF FilesInv, Unnamed
<1>12. ASSUME NEW q \in FileRequests PROVE Uploaded(q)'
  <2>1. q # r => fpc'[q] = fpc[q]
    BY <1>1
  <2> QED
    BY <2>1, <1>1, <1>3 DEF FilesInv, Uploaded
<1>13. ASSUME NEW q \in FileRequests PROVE Idle(q)'
  <2>1. ASSUME NEW s \in Slots, NEW k \in Collected(q), k = <<r, s>> PROVE FALSE
    <3>1. PICK t \in Slots : k = old[q][t]
      BY CollectedAre DEF FilesInv, Way, OpSound, SlotsOf
    <3>2. k \in KeysAt(t)
      BY <3>1 DEF FilesInv, FilesTyped, SlotKeys
    <3>3. t = s
      BY <2>1, <3>2, SlotKeysAre
    <3> QED
      BY <2>1, <3>1, <3>3, <1>0 DEF Unnamed
  <2>2. NoKey \notin Collected(q)
    BY CollectedAre, SlotKeysAre
  <2>3. CASE q = r
    <3>1. ASSUME NEW s \in Slots, fpc'[r] = "collect", field'[s] \in Collected(r) PROVE FALSE
      <4>1. PICK t \in rewritten \ op.kept : field'[s] = old[r][t]
        BY <3>1, CollectedAre DEF rewritten, op
      <4>2. field'[s] # NoKey /\ t \in Slots
        BY <2>2, <2>3, <3>1, <1>2, <4>1
      <4>3. s = t
        BY <4>1, <4>2, <1>0, <1>6, SlotKeysAre DEF FilesTyped, SlotKeys
      <4>4. field'[s] = <<r, s>>
        BY <4>1, <4>2, <4>3, <1>5
      <4> QED
        BY <4>4, <2>1, <2>3, <3>1
    <3> QED
      BY <2>3, <3>1, <1>1, <1>9 DEF Idle
  <2>4. CASE q # r
    <3>1. fpc'[q] = fpc[q] /\ Idle(q)
      BY <2>4, <1>1 DEF FilesInv
    <3>2. ASSUME NEW s \in Slots \ spoiled'
          PROVE  field'[s] = NoKey \/ field'[s] = <<r, s>> \/ (s \notin spoiled /\ field'[s] = field[s])
      BY <1>4, <1>2 DEF rewritten, op
    <3>3. ASSUME NEW s \in Slots PROVE <<q, s>> # NoKey /\ <<q, s>> # <<r, s>>
      BY <2>4, SlotKeysAre
    <3> QED
      BY <3>1, <3>2, <3>3, <2>1, <2>2, <1>9 DEF Idle
  <2> QED
    BY <2>3, <2>4
<1>14. NamesStored'
  <2> SUFFICES ASSUME NEW s \in Slots \ spoiled', s[1] \in rows', field'[s] # NoKey
               PROVE  field'[s] \in objects
    BY DEF NamesStored
  <2>1. ASSUME s \notin spoiled, field[s] # NoKey PROVE field[s] \in objects
    BY <2>1 DEF FilesInv, NamesStored, RowsFirst
  <2>2. CASE s \notin rewritten
    BY <2>2, <2>1, <1>4 DEF rewritten, op
  <2>3. CASE s \in op.new
    <3>1. s \in done[r] /\ s[1] \notin Gone /\ field'[s] = <<r, s>>
      BY <2>3, <1>2, <1>3, <1>4
    <3> QED
      BY <3>1, <1>0 DEF Uploaded
  <2>4. CASE s \in op.kept
    BY <2>4, <2>1, <1>4 DEF op
  <2> QED
    BY <2>2, <2>3, <2>4, <1>4
<1>15. Accounted'
  <2> SUFFICES ASSUME NEW k \in objects
               PROVE  k \in Named' \/ k \in leaked' \/ \E q \in FileRequests : k \in Held(q)'
    BY DEF Accounted
  <2>0. ASSUME NEW s \in Slots, s[1] \in rows', field'[s] = k PROVE k \in Named'
    BY <2>0, <1>0, SlotKeysAre DEF Named, FilesTyped
  <2>1. CASE k \in Named
    <3>1. PICK s \in Slots : s[1] \in rows /\ field[s] = k /\ k # NoKey
      BY <2>1 DEF Named
    <3>2. CASE s \notin rewritten
      BY <3>1, <3>2, <1>4, <2>0
    <3>3. CASE s \in rewritten
      <4>1. \/ k \in leaked' \/ field'[s] = k
            \/ stage = "collect" /\ k \in Collected(r)
        BY <3>1, <3>3 DEF rewritten, op
      <4>2. k \in Keys
        BY <1>0 DEF FilesTyped
      <4>3. stage = "collect" /\ k \in Collected(r) => k \in Held(r)'
        BY <4>2, <1>1, <1>9 DEF Held
      <4> QED
        BY <4>1, <4>3, <3>1, <2>0
    <3> QED
      BY <3>2, <3>3
  <2>2. ASSUME NEW q \in FileRequests, k \in Held(q) PROVE k \in Named' \/ k \in Held(q)'
    <3>1. CASE q = r
      <4>1. PICK s \in op.new : k = <<r, s>>
        BY <2>2, <3>1 DEF Held, op
      <4> QED
        BY <4>1, <1>2, <1>4, <2>0 DEF op
    <3>2. CASE q # r
      <4>1. fpc'[q] = fpc[q]
        BY <3>2, <1>1
      <4> QED
        BY <2>2, <4>1, <1>9 DEF Held
    <3> QED
      BY <3>1, <3>2
  <2> QED
    BY <2>1, <2>2 DEF FilesInv, Accounted
<1> QED
    BY <1>7, <1>8, <1>10, <1>11, <1>12, <1>13, <1>14, <1>15 DEF FilesInv

\* WriteRow: the files a row named are kept, collected or accounted for as leaked.
LEMMA WriteNames ==
    ASSUME FilesInv, NEW r \in FileRequests, WriteRow(r)
    PROVE  FilesInv'
<1> DEFINE op == fop[r]
<1>0. FilesTyped /\ Way(r) /\ fpc[r] = "write" /\ op.row \in rows /\ op \in Operations
    BY DEF FilesInv, FilesTyped, WriteRow
<1>1. /\ field' = Written(r)
      /\ spoiled' = (spoiled \ Rewritten(op)) \cup {s \in op.kept : field[s] # old[r][s] \/ s \in spoiled}
      /\ leaked' = leaked \cup ({field[s] : s \in Overtaken(r) \cup Dropped(op)} \ {NoKey})
      /\ UNCHANGED <<objects, rows, onChain, fop, old, done>>
    BY DEF WriteRow
<1>2. PICK stage \in {"collect", "done"} : To(r, stage) /\ (Collected(r) # {} => stage = "collect")
    BY DEF WriteRow
<1>3. /\ op.new \subseteq Rewritten(op) /\ Rewritten(op) \subseteq Slots
      /\ op.kept \subseteq Rewritten(op) \ op.new
    BY <1>0 DEF Way, OpSound, SlotsOf
<1>4. ASSUME NEW s \in Rewritten(op), field[s] # NoKey
      PROVE  \/ field[s] \in leaked' \/ field'[s] = field[s]
             \/ stage = "collect" /\ field[s] \in Collected(r)
  <2>1. CASE field[s] # old[r][s]
    BY <2>1, <1>1, <1>4 DEF Overtaken
  <2>2. CASE field[s] = old[r][s] /\ s \in op.kept
    BY <2>2, <1>1, <1>3 DEF Written
  <2>3. CASE field[s] = old[r][s] /\ s \notin op.kept
    <3>1. CASE op.kind = "stateless" /\ s \notin op.new
      <4>1. s \in Dropped(op)
        BY <2>3, <3>1 DEF Dropped, Sent, Rewritten
      <4> QED
        BY <4>1, <1>1, <1>4
    <3>2. CASE op.kind = "stateless" => s \in op.new
      BY <3>2, <2>3, <1>2, <1>4, CollectedAre
    <3> QED
      BY <3>1, <3>2
  <2> QED
    BY <2>1, <2>2, <2>3
<1>5. leaked \subseteq leaked' /\ leaked' \subseteq Keys /\ spoiled' \subseteq Slots
  <2>1. Overtaken(r) \cup Dropped(op) \subseteq Slots
    BY <1>3, SlotRows DEF Overtaken, Dropped, SlotsOf
  <2>2. \A s \in Slots : field[s] \in Keys \cup {NoKey}
    BY <1>0 DEF FilesTyped, SlotKeys
  <2> QED
    BY <2>1, <2>2, <1>0, <1>1, <1>3 DEF FilesTyped
<1>6. \A s \in Slots \ spoiled' :
        /\ s \notin Rewritten(op) => s \notin spoiled
        /\ s \in op.kept => s \notin spoiled /\ field[s] = old[r][s]
    BY <1>1
<1>7. rows' = rows \cup {op.row}
    BY <1>0, <1>1
<1> QED
    BY <1>0, <1>1, <1>2, <1>4, <1>5, <1>6, <1>7, RowNames

\* carousel.create: the slide is made, or refused and its image left.
LEMMA SlideComes ==
    ASSUME FilesInv, NEW r \in FileRequests, CreateSlide(r)
    PROVE  FilesInv'
<1> DEFINE op == fop[r]
<1>0. FilesTyped /\ Way(r) /\ RowsFirst /\ Unnamed(r) /\ fpc[r] = "write" /\ op \in Operations
      /\ op.row = "slide" /\ op.kept = {} /\ To(r, "done")
    BY DEF FilesInv, FilesTyped, CreateSlide, Way, OpSound
<1>1. CASE "slide" \notin rows /\ rows' = rows \cup {"slide"} /\ field' = Written(r) /\ leaked' = leaked
  <2>1. /\ rows' = rows \cup {op.row}
        /\ UNCHANGED <<objects, onChain, fop, old, done, spoiled, leaked>>
    BY <1>0, <1>1 DEF CreateSlide
  <2>2. \A s \in Rewritten(op) : s[1] = "slide"
    BY <1>0 DEF Way, OpSound, SlotsOf
  <2>3. leaked' \subseteq Keys /\ spoiled' \subseteq Slots
    BY <1>0, <2>1 DEF FilesTyped
  <2> QED
    BY <1>0, <1>1, <2>1, <2>2, <2>3, RowNames
<1>2. CASE leaked' = leaked \cup NewKeys(r) /\ UNCHANGED <<rows, field>>
  <2>1. leaked' = leaked \cup NewKeys(r)
        /\ UNCHANGED <<objects, field, rows, onChain, fop, old, done, spoiled>>
    BY <1>2 DEF CreateSlide
  <2>2. fpc'[r] = "done"
    BY <1>0 DEF To, FilesTyped
  <2>3. NewKeys(r) \subseteq Keys
    BY <1>0, SlotKeysAre DEF FilesTyped, NewKeys
  <2>4. Way(r)' /\ Uploaded(r)' /\ Idle(r)'
    BY <1>0, <2>1, <2>2 DEF Way, OpSound, Uploaded, Idle
  <2>5. \A k \in Held(r) \cap objects' : k \in leaked' \/ k \in Held(r)'
    BY <1>0, <2>1 DEF Held, NewKeys
  <2>6. objects' \subseteq Keys /\ leaked' \subseteq Keys /\ leaked \subseteq leaked'
    BY <1>0, <2>1, <2>3 DEF FilesTyped
  <2> QED
    BY <1>0, <2>1, <2>2, <2>4, <2>5, <2>6, FilesGoOn DEF FilesTyped, FileStages
<1> QED
    BY <1>1, <1>2 DEF CreateSlide

\* Rows go, and the keys they named are listed or leaked.
LEMMA RowsGo ==
    ASSUME FilesInv, NEW r \in FileRequests, fpc[r] \in {"read", "upload"},
           rows' \subseteq rows, field' = [s \in Slots |-> IF s[1] \in rows' THEN field[s] ELSE NoKey],
           NEW stage \in {"list", "done"}, To(r, stage),
           objects \subseteq objects', objects' \subseteq Keys,
           leaked \subseteq leaked', leaked' \subseteq Keys, spoiled' \subseteq spoiled,
           \A s \in spoiled \ spoiled' : s[1] \notin rows',
           done' \in [FileRequests -> SUBSET Slots], \A q \in FileRequests \ {r} : done'[q] = done[q],
           UNCHANGED <<onChain, fop, old>>, Way(r)',
           \A s \in Slots : s[1] \in rows \ rows' /\ field[s] # NoKey =>
               field[s] \in leaked' \/ field[s] \in Held(r)',
           \A k \in objects' : k \in objects \cup leaked',
           \A k \in Held(r) : k \in leaked' \/ k \in Held(r)'
    PROVE  FilesInv'
<1>0. FilesTyped
    BY DEF FilesInv
<1>1. /\ fpc'[r] = stage /\ fpc' \in [FileRequests -> FileStages]
      /\ \A q \in FileRequests \ {r} : fpc'[q] = fpc[q]
    BY <1>0 DEF To, FilesTyped, FileStages
<1>2. \A s \in Slots : field'[s] = IF s[1] \in rows' THEN field[s] ELSE NoKey
    OBVIOUS
<1>3. field' \in SlotKeys
  <2>1. ASSUME NEW s \in Slots PROVE field'[s] \in Keys \cup {NoKey} /\ field'[s] \in KeysAt(s)
    BY <1>0, <1>2, SlotKeysAre DEF FilesTyped, SlotKeys
  <2> QED
    BY <2>1 DEF SlotKeys
<1>4. FilesTyped'
    BY <1>0, <1>1, <1>3 DEF FilesTyped
<1>5. Gone \subseteq Gone' /\ RowsFirst'
    BY <1>2 DEF Gone, RowsFirst
<1>6. ASSUME NEW q \in FileRequests \ {r}
      PROVE  Way(q)' /\ Uploaded(q)' /\ Idle(q)' /\ Held(q)' = Held(q)
  <2>1. fpc'[q] = fpc[q] /\ done'[q] = done[q]
    BY <1>1
  <2>2. Collected(q)' = Collected(q)
    BY <2>1 DEF Collected, ReadKeys, NewKeys
  <2>3. NoKey \notin Collected(q)
    BY CollectedAre, SlotKeysAre
  <2>4. Way(q)'
    BY <2>1 DEF FilesInv, Way, OpSound
  <2>5. Uploaded(q)'
    BY <2>1, <1>0, <1>5 DEF FilesInv, FilesTyped, Uploaded
  <2>6. Idle(q)'
    <3>1. ASSUME NEW s \in Slots \ spoiled' PROVE field'[s] = NoKey \/ (s \notin spoiled /\ field'[s] = field[s])
      BY <1>2
    <3>2. Idle(q) /\ \A s \in Slots : <<q, s>> # NoKey
      BY SlotKeysAre DEF FilesInv
    <3> QED
      BY <2>1, <2>2, <2>3, <3>1, <3>2 DEF Idle
  <2>7. Held(q)' = Held(q)
    BY <2>1, <2>2 DEF Held
  <2> QED
    BY <2>4, <2>5, <2>6, <2>7
<1>7. ASSUME NEW q \in FileRequests PROVE Unnamed(q)'
  <2>1. Early(q)' => Early(q)
    BY <1>1 DEF Early
  <2>2. \A s \in Slots : <<q, s>> # NoKey
    BY SlotKeysAre
  <2>3. \A s \in Slots \ spoiled' : field'[s] = NoKey \/ (s \notin spoiled /\ field'[s] = field[s])
    BY <1>2
  <2>4. \A s \in Slots : field'[s] = NoKey \/ field'[s] = field[s]
    BY <1>2
  <2>5. Unnamed(q)
    BY DEF FilesInv
  <2>6. ASSUME NEW s \in Slots
        PROVE  /\ old'[q][s] # <<q, s>>
               /\ Early(q)' => field'[s] # <<q, s>> /\ \A p \in FileRequests : old'[p][s] # <<q, s>>
    BY <2>1, <2>2, <2>4, <2>5 DEF Unnamed
  <2>7. ASSUME NEW s \in Slots \ spoiled', field'[s] = <<q, s>> PROVE s \in fop'[q].new
    BY <2>2, <2>3, <2>5, <2>7 DEF Unnamed
  <2> QED
    BY <2>6, <2>7 DEF Unnamed
<1>8. Uploaded(r)' /\ Idle(r)'
    BY <1>1 DEF Uploaded, Idle
<1>9. NamesStored'
  <2> SUFFICES ASSUME NEW s \in Slots \ spoiled', s[1] \in rows', field'[s] # NoKey
               PROVE  field'[s] \in objects'
    BY DEF NamesStored
  <2>1. s \notin spoiled /\ field'[s] = field[s] /\ s[1] \in rows
    BY <1>2
  <2> QED
    BY <2>1 DEF FilesInv, NamesStored
<1>10. Accounted'
  <2> SUFFICES ASSUME NEW k \in objects, k \notin leaked'
               PROVE  k \in Named' \/ \E q \in FileRequests : k \in Held(q)'
    BY DEF Accounted
  <2>1. CASE k \in Named
    <3>1. PICK s \in Slots : s[1] \in rows /\ field[s] = k /\ k # NoKey
      BY <2>1 DEF Named
    <3>2. CASE s[1] \in rows'
      BY <3>1, <3>2, <1>2 DEF Named
    <3>3. CASE s[1] \notin rows'
      BY <3>1, <3>3
    <3> QED
      BY <3>2, <3>3
  <2>2. ASSUME NEW q \in FileRequests, k \in Held(q) PROVE k \in Held(q)'
    BY <2>2, <1>6
  <2> QED
    BY <2>1, <2>2 DEF FilesInv, Accounted
<1> QED
    BY <1>4, <1>5, <1>6, <1>7, <1>8, <1>9, <1>10 DEF FilesInv

\* The rows of issues, comics and genres are deleted.
LEMMA DeleteGoes ==
    ASSUME FilesInv, NEW r \in FileRequests, DeleteFromTable(r)
    PROVE  FilesInv'
<1> DEFINE where == fop[r].row
<1>0. FilesTyped /\ Way(r) /\ fpc[r] = "read"
    BY DEF FilesInv, DeleteFromTable
<1>1. /\ rows' = rows \ Deleted(where)
      /\ field' = [s \in Slots |-> IF s[1] \in rows' THEN field[s] ELSE NoKey]
      /\ spoiled' = {s \in spoiled : s[1] \in rows'}
      /\ leaked' = leaked \cup IF where = "genre" THEN Icons ELSE {}
      /\ UNCHANGED <<objects, onChain, fop, old, done>>
    BY DEF DeleteFromTable
<1>2. PICK stage \in {"list", "done"} : To(r, stage) /\ stage = IF where = "genre" THEN "done" ELSE "list"
    BY DEF DeleteFromTable
<1>3. fpc'[r] = stage
    BY <1>0, <1>2 DEF To, FilesTyped
<1>4. where \in {"comic", "issue", "genre"}
    BY DEF DeleteFromTable, FilesInv, Way, OpSound
<1>5. Way(r)'
    BY <1>0, <1>1, <1>2, <1>3, <1>4 DEF Way, OpSound
<1>6. leaked' \subseteq Keys
    BY <1>0, <1>1 DEF FilesTyped, SlotKeys, Icons, SlotsOf
<1>7. ASSUME NEW s \in Slots, s[1] \in rows \ rows', field[s] # NoKey
      PROVE  field[s] \in leaked' \/ field[s] \in Held(r)'
  <2>1. s[1] \in Deleted(where)
    BY <1>1, <1>7
  <2>2. CASE where = "genre"
    BY <2>1, <2>2, <1>1, <1>7 DEF Deleted, Icons, SlotsOf
  <2>3. CASE where # "genre"
    <3>1. field[s] \in Keys /\ field[s][2] = s
      BY <1>0, <1>7, SlotKeysAre DEF FilesTyped, SlotKeys
    <3> QED
      BY <2>1, <2>3, <3>1, <1>1, <1>2, <1>3 DEF Held
  <2> QED
    BY <2>2, <2>3
<1>8. \A k \in Held(r) : FALSE
    BY <1>0 DEF Held
<1>9. /\ objects' = objects /\ objects \subseteq Keys /\ leaked \subseteq leaked' /\ spoiled' \subseteq spoiled
      /\ \A s \in spoiled \ spoiled' : s[1] \notin rows'
      /\ done' = done /\ done \in [FileRequests -> SUBSET Slots] /\ rows' \subseteq rows
    BY <1>0, <1>1 DEF FilesTyped
<1> QED
    BY <1>0, <1>1, <1>2, <1>5, <1>6, <1>7, <1>8, <1>9, RowsGo

\* genre.create: its icon is refused, and its row is deleted with what others named in it.
LEMMA GenreGoes ==
    ASSUME FilesInv, NEW r \in FileRequests, UploadFails(r), fop[r].kind = "genre"
    PROVE  FilesInv'
<1>0. FilesTyped /\ Way(r) /\ Uploaded(r) /\ RowsFirst /\ fpc[r] = "upload"
    BY DEF FilesInv, UploadFails
<1>1. PICK late \in SUBSET (Sent(fop[r]) \ done[r]) :
        /\ done' = [done EXCEPT ![r] = @ \cup late]
        /\ objects' = objects \cup {<<r, s>> : s \in late}
        /\ leaked' = leaked \cup {<<r, s>> : s \in done'[r]} \cup Icons
        /\ To(r, "done") /\ GenreGone /\ UNCHANGED <<onChain, fop, old, spoiled>>
    BY DEF UploadFails
<1>2. fpc'[r] = "done"
    BY <1>0, <1>1 DEF To, FilesTyped
<1>3. late \subseteq Slots
    BY <1>0, <1>1 DEF Way, OpSound, Sent, SlotsOf
<1>4. /\ done' \in [FileRequests -> SUBSET Slots] /\ done'[r] = done[r] \cup late
      /\ \A q \in FileRequests \ {r} : done'[q] = done[q]
    BY <1>0, <1>1, <1>3 DEF FilesTyped
<1>5. Way(r)'
    BY <1>0, <1>1, <1>2, <1>4 DEF Way, OpSound, Sent
<1>6. field' = [s \in Slots |-> IF s[1] \in rows' THEN field[s] ELSE NoKey]
  <2>0. rows' = rows \ {"genre"}
    BY <1>1 DEF GenreGone
  <2>1. ASSUME NEW s \in Slots
        PROVE  (IF s \in SlotsOf("genre") THEN NoKey ELSE field[s])
                   = IF s[1] \in rows' THEN field[s] ELSE NoKey
    <3>1. CASE s[1] = "genre"
      BY <2>0, <3>1 DEF SlotsOf
    <3>2. CASE s[1] # "genre" /\ s[1] \in rows
      BY <2>0, <3>2 DEF SlotsOf
    <3>3. CASE s[1] \notin rows
      BY <1>0, <2>0, <3>3 DEF RowsFirst
    <3> QED
      BY <3>1, <3>2, <3>3
  <2> QED
    BY <2>1, <1>1 DEF GenreGone
<1>7. objects' \subseteq Keys /\ leaked' \subseteq Keys /\ leaked \subseteq leaked' /\ objects \subseteq objects'
  <2>1. done'[r] \subseteq Slots /\ {<<r, s>> : s \in late} \subseteq Keys
    BY <1>3, <1>4, SlotKeysAre
  <2>2. {<<r, s>> : s \in done'[r]} \subseteq Keys
    BY <2>1, SlotKeysAre
  <2>3. Icons \subseteq Keys
    BY <1>0 DEF FilesTyped, SlotKeys, Icons, SlotsOf
  <2> QED
    BY <2>1, <2>2, <2>3, <1>0, <1>1 DEF FilesTyped
<1>8. \A s \in Slots : s[1] \in rows \ rows' /\ field[s] # NoKey => field[s] \in leaked'
    BY <1>1 DEF GenreGone, Icons, SlotsOf
<1>9. \A k \in objects' : k \in objects \cup leaked'
    BY <1>1, <1>4
<1>10. \A k \in Held(r) : k \in leaked'
    BY <1>0, <1>1, <1>4 DEF Held
<1>11. rows' \subseteq rows
    BY <1>1 DEF GenreGone
<1> QED
    BY <1>0, <1>1, <1>4, <1>5, <1>6, <1>7, <1>8, <1>9, <1>10, <1>11, RowsGo

\* Every row names the files that are there.
LEMMA FilesInitial == FilesInit => FilesInv
<1> SUFFICES ASSUME FilesInit PROVE FilesInv
    OBVIOUS
<1>1. \A s \in Slots : SeedKey(s) \in Keys /\ SeedKey(s) \in KeysAt(s) /\ SeedKey(s) # NoKey
  <2>1. \A s \in Slots : SeedKey(s) \in Keys /\ SeedKey(s) \in KeysAt(s)
    BY DEF SeedKey, Keys, KeysAt
  <2> QED
    BY <2>1, SlotKeysAre
<1>2. \A s \in Slots : /\ field[s] \in {NoKey, SeedKey(s)}
                       /\ s[1] \notin rows => field[s] = NoKey
    BY DEF FilesInit
<1>3. field \in SlotKeys
    BY <1>1, <1>2, SlotKeysAre DEF FilesInit, SlotKeys
<1>4. [s \in Slots |-> NoKey] \in SlotKeys
    BY SlotKeysAre DEF SlotKeys
<1>5. NoOp \in Operations /\ OpSound(NoOp)
    BY SlotRows DEF NoOp, Op, Operations, Kinds, OpSound, Rewritten
<1>6. objects \subseteq Keys
    BY <1>1 DEF FilesInit
<1>7. FilesTyped
    BY <1>3, <1>4, <1>5, <1>6 DEF FilesInit, FilesTyped, FileStages
<1>8. RowsFirst
    BY <1>2 DEF RowsFirst
<1>9. ASSUME NEW r \in FileRequests PROVE Way(r) /\ Uploaded(r) /\ Idle(r)
    BY <1>5 DEF FilesInit, Way, Uploaded, Idle
<1>10. ASSUME NEW r \in FileRequests PROVE Unnamed(r)
  <2>1. ASSUME NEW s \in Slots PROVE <<r, s>> # SeedKey(s) /\ <<r, s>> # NoKey
    BY SlotKeysAre, FilesAssumption DEF SeedKey
  <2>2. ASSUME NEW s \in Slots, NEW q \in FileRequests PROVE old[q][s] = NoKey
    BY DEF FilesInit
  <2> QED
    BY <2>1, <2>2, <1>2 DEF Unnamed
<1>11. NamesStored
    BY <1>2 DEF FilesInit, NamesStored
<1>12. Accounted
  <2> SUFFICES ASSUME NEW s \in Slots, field[s] # NoKey PROVE SeedKey(s) \in Named
    BY DEF FilesInit, Accounted
  <2>1. s[1] \in rows /\ field[s] = SeedKey(s)
    BY <1>2
  <2> QED
    BY <2>1, <1>1 DEF Named
<1> QED
    BY <1>7, <1>8, <1>9, <1>10, <1>11, <1>12 DEF FilesInv

\* What requests have yet to name, to collect or to sweep makes up for what the rows and
\* the bucket lack.
THEOREM FilesInvariance == FilesSpec => []FilesInv
<1>1. FilesInit => FilesInv
    BY FilesInitial
<1>2. FilesInv /\ [FilesNext]_fileVars => FilesInv'
  <2> SUFFICES ASSUME FilesInv, [FilesNext]_fileVars PROVE FilesInv'
    OBVIOUS
  <2>1. CASE UNCHANGED fileVars \/ PublishedOnChain
    <3>1. UNCHANGED <<objects, field, rows, fop, fpc, old, done, spoiled, leaked>> /\ onChain' \in BOOLEAN
      BY <2>1 DEF fileVars, PublishedOnChain, FilesInv, FilesTyped
    <3>2. FilesTyped' /\ RowsFirst' /\ NamesStored'
      BY <3>1 DEF FilesInv, FilesTyped, RowsFirst, NamesStored
    <3>3. ASSUME NEW r \in FileRequests
          PROVE  Way(r)' /\ Unnamed(r)' /\ Uploaded(r)' /\ Idle(r)' /\ Held(r)' = Held(r)
      <4>1. Collected(r)' = Collected(r)
        BY <3>1 DEF Collected, ReadKeys, NewKeys
      <4>2. Way(r)' /\ Unnamed(r)'
        BY <3>1 DEF FilesInv, Way, Unnamed, Early
      <4>3. Uploaded(r)' /\ Idle(r)'
        BY <3>1, <4>1 DEF FilesInv, Uploaded, Idle, Gone
      <4>4. Held(r)' = Held(r)
        BY <3>1, <4>1 DEF Held
      <4> QED
        BY <4>2, <4>3, <4>4
    <3>4. Accounted'
      BY <3>1, <3>3 DEF FilesInv, Accounted, Named
    <3> QED
      BY <3>2, <3>3, <3>4 DEF FilesInv
  <2>2. ASSUME NEW r \in FileRequests, FilesStart(r) \/ FilesStep(r) PROVE FilesInv'
    <3>1. CASE FilesStart(r) \/ FindRow(r) \/ InsertGenre(r)
      BY <3>1, Begins, GenreComes
    <3>2. CASE uploadFile(r) \/ UploadFails(r)
      BY <3>2, UploadGoes, UploadStops, GenreGoes
    <3>3. CASE WriteRow(r) \/ WriteFails(r) \/ CreateSlide(r)
      BY <3>3, WriteNames, RefusalKeepsFiles, SlideComes
    <3>4. CASE CollectOld(r) \/ CollectFails(r) \/ CollectNew(r) \/ RollbackFails(r)
      BY <3>4, Collects, RollsBack
    <3>5. CASE DeleteRefused(r) \/ DeleteFromTable(r) \/ deleteFolder(r) \/ DeleteFolderFails(r)
      BY <3>5, RefusalKeepsFiles, DeleteGoes, FolderGoes
    <3> QED
      BY <2>2, <3>1, <3>2, <3>3, <3>4, <3>5 DEF FilesStep
  <2> QED
    BY <2>1, <2>2 DEF FilesNext
<1> QED
    BY <1>1, <1>2, PTL DEF FilesSpec

\* s3.service and the services that replace and delete files: every file a row names is in
\* the bucket, but where a fault or a stale read spoiled the slot, and a file that nobody
\* names at rest was left by a fault, a race or an omission; for any requests at once.
THEOREM FilesAgreeAlways == FilesSpec => []FilesAgree
<1>1. FilesInv => FilesAgree
  <2> SUFFICES ASSUME FilesInv PROVE FilesAgree
    OBVIOUS
  <2>1. ASSUME \A r \in FileRequests : fpc[r] \in {"idle", "done"} PROVE objects \subseteq Named \cup leaked
    <3>1. \A r \in FileRequests : Held(r) = {}
      BY <2>1 DEF Held
    <3> QED
      BY <3>1 DEF FilesInv, Accounted
  <2> QED
    BY <2>1 DEF FilesInv, FilesAgree, OrphansExplained
<1> QED
    BY <1>1, FilesInvariance, PTL

-----------------------------------------------------------------------------
(* The ranges of the parts                                                 *)

\* The files of the rows: keys are those of slots, operations those of the routes.
THEOREM FilesTypeOKAlways == FilesSpec => []FilesTypeOK
  <1>1. ASSUME FilesTyped PROVE FilesTypeOK
    <2>1. field \in [Slots -> Keys \cup {NoKey}] /\ old \in [FileRequests -> [Slots -> Keys \cup {NoKey}]]
      BY <1>1 DEF FilesTyped, SlotKeys
    <2>2. \A r \in FileRequests :
            /\ fop[r].kind \in Kinds /\ fop[r].row \in Rows
            /\ fop[r].new \subseteq Slots /\ fop[r].kept \subseteq StatelessSlots
      BY <1>1 DEF FilesTyped, Operations
    <2> QED BY <1>1, <2>1, <2>2 DEF FilesTyped, FilesTypeOK, FileStages
  <1>2. FilesInv => FilesTypeOK
    BY <1>1 DEF FilesInv
  <1> QED BY <1>2, FilesInvariance, PTL

\* What no invariant of the comic's owner needs: the collection that is locked, the bound
\* of the changes, the traits there were
AssetRanges == locked \in BOOLEAN /\ events \in 0..MaxEvents /\ gained \subseteq {"used", "signed"}

LEMMA AssetRangesKept ==
    ASSUME AssetInv, AssetRanges, [CollectiblesNext]_assetVars
    PROVE  AssetRanges'
  <1>1. CASE UNCHANGED <<locked, events, gained>>
    BY <1>1 DEF AssetRanges
  <1>2. ASSUME NEW kind, NEW state, NEW value, ChainChange(kind, state, value), UNCHANGED locked
        PROVE  AssetRanges'
    <2>1. events' \in 0..MaxEvents
      BY <1>2, CollectiblesAssumption DEF ChainChange, AssetRanges
    <2>2. gained' \subseteq {"used", "signed"}
      BY <1>2 DEF ChainChange, AssetRanges, TraitsOf
    <2> QED BY <1>2, <2>1, <2>2 DEF AssetRanges
  <1>3. CASE \E h \in Holders : TransferAsset(h)
    BY <1>2, <1>3 DEF TransferAsset
  <1>4. CASE \E tx \in inFlight : Land(tx)
    BY <1>2, <1>4 DEF Land
  <1>5. CASE \E tx \in inFlight : Expire(tx)
    BY <1>1, <1>5 DEF Expire
  <1>6. CASE \E w \in webhooks : LoseEvent(w) \/ \E again \in BOOLEAN : HandleEvent(w, again)
    BY <1>1, <1>6 DEF LoseEvent, HandleEvent
  <1>7. ASSUME NEW r \in AssetRequests,
               \/ \E w \in webhooks : HandleMint(r, w)
               \/ \E h \in Holders :
                    \/ unwrapComic(r, h)
                    \/ \E kind \in {"collection", "wallet"} : getAssets(r, kind, h)
               \/ IndexMinted(r) \/ FetchToUnwrap(r) \/ WriteUnwrapped(r) \/ SendUnwrapped(r)
               \/ onSignButtonClicked(r) \/ SignLocked(r) \/ signComic(r) \/ SendSigned(r)
               \/ CompareRow(r) \/ reIndexAsset(r)
        PROVE  UNCHANGED <<locked, events, gained>>
    BY <1>7 DEF HandleMint, unwrapComic, getAssets, IndexMinted, FetchToUnwrap, WriteUnwrapped,
       SendUnwrapped, Send, onSignButtonClicked, SignLocked, signComic, SendSigned, CompareRow,
       reIndexAsset
  <1>8. CASE UNCHANGED assetVars
    BY <1>1, <1>8 DEF assetVars
  <1> QED BY <1>1, <1>3, <1>4, <1>5, <1>6, <1>7, <1>8 DEF CollectiblesNext

\* One comic: its rows, the webhooks and the transactions on their way.
THEOREM CollectiblesTypeOKAlways == CollectiblesSpec => []CollectiblesTypeOK
  <1>1. CollectiblesInit => AssetRanges
    BY CollectiblesAssumption DEF CollectiblesInit, AssetRanges, TraitsOf
  <1>2. AssetInv /\ AssetRanges /\ [CollectiblesNext]_assetVars => AssetRanges'
    BY AssetRangesKept
  <1>3. ASSUME AssetInv, AssetRanges PROVE CollectiblesTypeOK
    <2>1. ASSUME NEW w \in webhooks PROVE w.id \in 0..events /\ w.kind \in {"mint", "transfer", "state"}
      <3>1. w.id \in Nat /\ w.kind \in {"mint", "transfer", "state"}
        BY <1>3 DEF AssetInv, AssetTyped, Events
      <3>2. w.id <= events /\ events \in Nat
        BY <1>3 DEF AssetInv, EventsSound, AssetTyped
      <3> QED BY <3>1, <3>2
    <2>2. ASSUME NEW r \in AssetRequests
          PROVE  ajob[r].stage \in AssetStages /\ ajob[r].read \in AssetState \cup {NoRow}
      BY <1>3 DEF AssetInv, AssetTyped, AssetJobs
    <2> QED BY <1>3, <2>1, <2>2 DEF AssetInv, AssetTyped, AssetRanges, AssetStages, CollectiblesTypeOK
  <1> QED BY <1>1, <1>2, <1>3, AssetInvariance, PTL DEF CollectiblesSpec

\* The shelf: how many writes there are, and what an answer on its way is.
Wrote == {"list", "delete", "done"}
Writers == {r \in ShelfRequests : asking[r].stage \in Wrote}

AskingRanged(q) ==
    /\ q.stage \in ShelfStages /\ q.read \in Row
    /\ q.writer.drops \subseteq Forms /\ q.keys \subseteq Forms
    /\ q.stage # "store" => q.answer = {}

ShelfRanges ==
    /\ row \in Row /\ around \in Around
    /\ edition <= Cardinality(Writers)
    /\ \A f \in Forms : cache[f] # NoEntry => cache[f].late \in BOOLEAN
    /\ \A r \in ShelfRequests : AskingRanged(asking[r])

LEMMA WritersFinite ==
    IsFiniteSet(Writers) /\ Cardinality(Writers) \in Nat
      /\ Cardinality(Writers) <= Cardinality(ShelfRequests) /\ Cardinality(ShelfRequests) \in Nat
  <1>1. Writers \subseteq ShelfRequests /\ IsFiniteSet(ShelfRequests)
    BY ShelfAssumption DEF Writers
  <1> QED BY <1>1, FS_Subset, FS_CardinalityType

\* What a request that has ended is
LEMMA UnaskedRanged ==
    ASSUME edition \in Nat
    PROVE  AskingRanged(Unasked) /\ AskingRanged([Unasked EXCEPT !.stage = "idle"])
  <1>1. PICK none : none = [verified |-> FALSE, published |-> FALSE, gone |-> FALSE]
    OBVIOUS
  <1>2. none \in Row
    BY <1>1 DEF Row
  <1>3. PICK q : q = Asking("done", "query", NoWriter)
    OBVIOUS
  <1>4. AskingFields(q) /\ q.stage = "done" /\ q.writer = NoWriter /\ q.answer = {} /\ q.keys = {}
    <2>1. q = [stage |-> "done", form |-> "query", writer |-> NoWriter, read |-> row,
               seen |-> edition, answer |-> {}, keys |-> {}]
      BY <1>3 DEF Asking
    <2> QED BY <2>1 DEF AskingFields
  <1>5. PICK p : p = [q EXCEPT !.seen = 0, !.read = none]
    OBVIOUS
  <1>6. p = Unasked
    BY <1>1, <1>3, <1>5 DEF Unasked
  <1>7. AskingFields(p)
    BY <1>4, <1>5 DEF AskingFields
  <1>8. p.stage = "done" /\ p.writer = NoWriter /\ p.read = none /\ p.answer = {} /\ p.keys = {}
    BY <1>4, <1>5 DEF AskingFields
  <1>9. NoWriter.drops = {}
    BY DEF NoWriter, Writer
  <1>10. AskingRanged(p)
    BY <1>2, <1>8, <1>9 DEF AskingRanged, ShelfStages
  <1>11. PICK i : i = [p EXCEPT !.stage = "idle"]
    OBVIOUS
  <1>12. i.stage = "idle" /\ i.writer = p.writer /\ i.read = p.read /\ i.answer = p.answer /\ i.keys = p.keys
    BY <1>7, <1>11 DEF AskingFields
  <1>13. AskingRanged(i)
    BY <1>10, <1>8, <1>12 DEF AskingRanged, ShelfStages
  <1> QED BY <1>6, <1>10, <1>11, <1>13

\* A request goes to another stage with what it knows.
LEMMA MoveRanged ==
    ASSUME ShelfInv, ShelfRanges, NEW r \in ShelfRequests, NEW q, NEW stage \in ShelfStages,
           Move(r, q, stage),
           stage # "done" =>
             /\ AskingFields(q) /\ q.read \in Row /\ q.writer.drops \subseteq Forms
             /\ q.keys \subseteq Forms /\ (stage # "store" => q.answer = {})
    PROVE  /\ \A p \in ShelfRequests : AskingRanged(asking'[p])
           /\ asking'[r].stage = stage
           /\ \A p \in ShelfRequests \ {r} : asking'[p] = asking[p]
  <1>1. ShelfTyped /\ edition \in Nat
    BY DEF ShelfInv, ShelfTyped
  <1>2. \A p \in ShelfRequests \ {r} : asking'[p] = asking[p]
    BY <1>1 DEF ShelfTyped, Move
  <1>3. asking'[r] = IF stage = "done" THEN Unasked ELSE [q EXCEPT !.stage = stage]
    BY <1>1 DEF ShelfTyped, Move
  <1>4. AskingRanged(asking'[r]) /\ asking'[r].stage = stage
    <2>1. CASE stage = "done"
      BY <2>1, <1>1, <1>3, UnaskedRanged, UnaskedIs
    <2>2. CASE stage # "done"
      <3>1. PICK p : p = [q EXCEPT !.stage = stage]
        OBVIOUS
      <3>2. p.stage = stage /\ p.writer = q.writer /\ p.read = q.read /\ p.answer = q.answer /\ p.keys = q.keys
        BY <2>2, <3>1 DEF AskingFields
      <3>3. asking'[r] = p
        BY <1>3, <2>2, <3>1
      <3> QED BY <2>2, <3>2, <3>3 DEF AskingRanged
    <2> QED BY <2>1, <2>2
  <1> QED BY <1>2, <1>4 DEF ShelfRanges

\* Who has written stays among those who have.
LEMMA WritersStay ==
    ASSUME ShelfRanges, NEW r \in ShelfRequests, asking[r].stage \in Wrote => asking'[r].stage \in Wrote,
           \A p \in ShelfRequests \ {r} : asking'[p] = asking[p]
    PROVE  Writers \subseteq Writers' /\ Cardinality(Writers) <= Cardinality(Writers')
  <1>1. Writers \subseteq Writers'
    BY DEF Writers
  <1>2. IsFiniteSet(Writers')
    <2>1. Writers' \subseteq ShelfRequests /\ IsFiniteSet(ShelfRequests)
      BY ShelfAssumption DEF Writers
    <2> QED BY <2>1, FS_Subset
  <1> QED BY <1>1, <1>2, FS_Subset

\* Steps of requests that leave the rows as they are
LEMMA AskingKeepsRanges ==
    ASSUME ShelfInv, ShelfRanges, NEW r \in ShelfRequests, NEW q, NEW stage \in ShelfStages,
           Move(r, q, stage),
           stage # "done" =>
             /\ AskingFields(q) /\ q.read \in Row /\ q.writer.drops \subseteq Forms
             /\ q.keys \subseteq Forms /\ (stage # "store" => q.answer = {}),
           asking[r].stage \in Wrote => stage \in Wrote,
           UNCHANGED <<row, edition, around>>,
           \A f \in Forms : cache'[f] # NoEntry => cache'[f].late \in BOOLEAN
    PROVE  ShelfRanges'
  <1>1. /\ \A p \in ShelfRequests : AskingRanged(asking'[p])
        /\ asking'[r].stage = stage
        /\ \A p \in ShelfRequests \ {r} : asking'[p] = asking[p]
    BY MoveRanged
  <1>2. Cardinality(Writers) <= Cardinality(Writers')
    BY <1>1, WritersStay
  <1>3. edition' <= Cardinality(Writers')
    <2>1. Cardinality(Writers) \in Nat /\ Cardinality(Writers') \in Nat /\ edition \in Nat
      <3>1. Writers' \subseteq ShelfRequests /\ IsFiniteSet(ShelfRequests)
        BY ShelfAssumption DEF Writers
      <3>2. Cardinality(Writers') \in Nat
        BY <3>1, FS_Subset, FS_CardinalityType
      <3> QED BY <3>2, WritersFinite DEF ShelfInv, ShelfTyped
    <2> QED BY <1>2, <2>1 DEF ShelfRanges
  <1>4. \A p \in ShelfRequests : AskingRanged(asking[p])'
    BY <1>1 DEF AskingRanged
  <1> QED BY <1>3, <1>4 DEF ShelfRanges

LEMMA AskingStepsRanged ==
    ASSUME ShelfInv, ShelfRanges, NEW r \in ShelfRequests,
           \/ request(r) \/ intercept(r) \/ handle(r) \/ store(r) \/ toggleRead(r)
           \/ listKeys(r) \/ deleteKeys(r)
    PROVE  ShelfRanges'
  <1> DEFINE q == asking[r]
  <1>1. /\ AskingFields(q) /\ AskingRanged(q) /\ row \in Row
        /\ \A f \in Forms : cache[f] # NoEntry => cache[f].late \in BOOLEAN
    BY DEF ShelfInv, ShelfTyped, IsAsking, ShelfRanges
  <1> HIDE DEF q
  <1>2. q.read \in Row /\ q.writer.drops \subseteq Forms /\ q.keys \subseteq Forms
    BY <1>1 DEF AskingRanged
  <1>3. CASE request(r)
    <2>1. ASSUME NEW w, w.drops \subseteq Forms, NEW form
          PROVE  LET a == Asking("idle", form, w)
                 IN  /\ AskingFields(a) /\ a.read \in Row /\ a.writer.drops \subseteq Forms
                     /\ a.keys \subseteq Forms /\ a.answer = {}
      BY <1>1, <2>1 DEF Asking, AskingFields
    <2>2. \A s \in Shelves : \A w \in WritersOf[s] : w.drops \subseteq Forms
      BY DEF Shelves, WritersOf, ComicWriters, IssueWriters, ChannelWriters, GenreWriters, SlideWriters,
         Writer, Forms
    <2>3. shelf \in Shelves /\ NoWriter.drops \subseteq Forms
      BY DEF ShelfInv, ShelfTyped, NoWriter, Writer
    <2>4. q.stage = "idle" /\ UNCHANGED <<row, edition, around, cache>>
      BY <1>3 DEF request, Is, q
    <2>5. \E form, w : \E stage \in ShelfStages :
            w.drops \subseteq Forms /\ stage # "store" /\ Move(r, Asking("idle", form, w), stage)
      <3>1. CASE \E form \in FormsOf[shelf] :
                   Move(r, Asking("idle", form, NoWriter), IF form \in CachedForms[shelf] THEN "lookup" ELSE "handle")
        BY <2>3, <3>1 DEF ShelfStages
      <3>2. CASE \E w \in WritersOf[shelf] :
                   Move(r, Asking("idle", "query", w), IF w.column \in ToggledColumns THEN "read" ELSE "write")
        BY <2>2, <2>3, <3>2 DEF ShelfStages
      <3> QED BY <1>3, <3>1, <3>2 DEF request
    <2>6. PICK form, w : \E stage \in ShelfStages :
            w.drops \subseteq Forms /\ stage # "store" /\ Move(r, Asking("idle", form, w), stage)
      BY <2>5
    <2>7. PICK stage \in ShelfStages :
            w.drops \subseteq Forms /\ stage # "store" /\ Move(r, Asking("idle", form, w), stage)
      BY <2>6
    <2>8. PICK a : a = Asking("idle", form, w)
      OBVIOUS
    <2>9. /\ AskingFields(a) /\ a.read \in Row /\ a.writer.drops \subseteq Forms
          /\ a.keys \subseteq Forms /\ a.answer = {}
      BY <2>1, <2>7, <2>8
    <2>10. asking[r].stage \notin Wrote /\ Move(r, a, stage)
      BY <2>4, <2>7, <2>8 DEF Wrote, q
    <2> QED BY <1>1, <2>4, <2>9, <2>10, AskingKeepsRanges
  <1>4. CASE intercept(r)
    <2>1. q.stage = "lookup" /\ UNCHANGED <<row, edition, around, cache>>
      BY <1>4 DEF intercept, Is, q
    <2>2. PICK stage \in {"done", "handle"} : Move(r, q, stage)
      BY <1>4 DEF intercept, q
    <2>3. q.answer = {} /\ asking[r].stage \notin Wrote /\ stage \in ShelfStages
      BY <1>1, <2>1, <2>2 DEF AskingRanged, Wrote, ShelfStages, q
    <2> QED BY <1>1, <1>2, <2>1, <2>2, <2>3, AskingKeepsRanges
  <1>5. CASE handle(r)
    <2>1. PICK p : p = [q EXCEPT !.seen = edition, !.answer = Answer(q.form)]
      OBVIOUS
    <2>2. q.stage = "handle" /\ UNCHANGED <<row, edition, around, cache>>
      BY <1>5 DEF handle, Is, q
    <2>3. PICK stage \in {"store", "done"} : Move(r, p, stage)
      BY <1>5, <2>1 DEF handle, q
    <2>4. AskingFields(p)
      BY <1>1, <2>1 DEF AskingFields
    <2>5. p.read = q.read /\ p.writer = q.writer /\ p.keys = q.keys
      BY <1>1, <2>1 DEF AskingFields
    <2>6. asking[r].stage \notin Wrote /\ stage \in ShelfStages
      BY <2>2, <2>3 DEF Wrote, ShelfStages, q
    <2> QED BY <1>1, <1>2, <2>2, <2>3, <2>4, <2>5, <2>6, AskingKeepsRanges
  <1>6. CASE store(r)
    <2>1. /\ q.stage = "store" /\ UNCHANGED <<row, edition, around>> /\ Move(r, q, "done")
          /\ cache' = [cache EXCEPT ![q.form] = Entry(q)]
      BY <1>6 DEF store, Is, q
    <2>2. PICK e : e = Entry(q)
      OBVIOUS
    <2>3. e.late \in BOOLEAN
      BY <2>2 DEF Entry
    <2>4. \A f \in Forms : cache'[f] = cache[f] \/ cache'[f] = e
      BY <2>1, <2>2 DEF ShelfInv, ShelfTyped
    <2>5. \A f \in Forms : cache'[f] # NoEntry => cache'[f].late \in BOOLEAN
      BY <1>1, <2>3, <2>4
    <2>6. asking[r].stage \notin Wrote /\ "done" \in ShelfStages
      BY <2>1 DEF Wrote, ShelfStages, q
    <2> QED BY <2>1, <2>5, <2>6, AskingKeepsRanges
  <1>7. CASE toggleRead(r)
    <2>1. PICK p : p = [q EXCEPT !.read = row]
      OBVIOUS
    <2>2. q.stage = "read" /\ UNCHANGED <<row, edition, around, cache>> /\ Move(r, p, "write")
      BY <1>7, <2>1 DEF toggleRead, Is, q
    <2>3. AskingFields(p)
      BY <1>1, <2>1 DEF AskingFields
    <2>4. p.read = row /\ p.writer = q.writer /\ p.keys = q.keys /\ p.answer = q.answer
      BY <1>1, <2>1 DEF AskingFields
    <2>5. q.answer = {} /\ asking[r].stage \notin Wrote /\ "write" \in ShelfStages
      BY <1>1, <2>2 DEF AskingRanged, Wrote, ShelfStages, q
    <2> QED BY <1>1, <1>2, <2>2, <2>3, <2>4, <2>5, AskingKeepsRanges
  <1>8. CASE listKeys(r)
    <2>1. PICK p : p = [q EXCEPT !.keys = MatchingKeys(q.writer.drops)]
      OBVIOUS
    <2>2. q.stage = "list" /\ UNCHANGED <<row, edition, around, cache>> /\ Move(r, p, "delete")
      BY <1>8, <2>1 DEF listKeys, Is, q
    <2>3. AskingFields(p)
      BY <1>1, <2>1 DEF AskingFields
    <2>4. p.read = q.read /\ p.writer = q.writer /\ p.keys = MatchingKeys(q.writer.drops) /\ p.answer = q.answer
      BY <1>1, <2>1 DEF AskingFields
    <2>5. p.keys \subseteq Forms
      BY <1>2, <2>4 DEF MatchingKeys
    <2>6. q.answer = {} /\ "delete" \in Wrote /\ "delete" \in ShelfStages
      BY <1>1, <2>2 DEF AskingRanged, Wrote, ShelfStages
    <2> QED BY <1>1, <1>2, <2>2, <2>3, <2>4, <2>5, <2>6, AskingKeepsRanges
  <1>9. CASE deleteKeys(r)
    <2>1. /\ UNCHANGED <<row, edition, around>> /\ Move(r, q, "done")
          /\ \A f \in Forms : cache'[f] \in {NoEntry, cache[f]}
      BY <1>9 DEF deleteKeys, q
    <2>2. \A f \in Forms : cache'[f] # NoEntry => cache'[f].late \in BOOLEAN
      BY <1>1, <2>1
    <2>3. "done" \in Wrote /\ "done" \in ShelfStages
      BY DEF Wrote, ShelfStages
    <2> QED BY <2>1, <2>2, <2>3, AskingKeepsRanges
  <1> QED BY <1>3, <1>4, <1>5, <1>6, <1>7, <1>8, <1>9

\* A write makes one edition more, and one request more that has written.
LEMMA WriteRanged ==
    ASSUME ShelfInv, ShelfRanges, NEW r \in ShelfRequests, write(r)
    PROVE  ShelfRanges'
  <1> DEFINE q == asking[r]
  <1>1. /\ AskingFields(q) /\ AskingRanged(q) /\ row \in Row /\ edition \in Nat
    BY DEF ShelfInv, ShelfTyped, IsAsking, ShelfRanges
  <1>2. /\ q.stage = "write" /\ edition' = edition + 1 /\ UNCHANGED <<around, cache>>
        /\ row' = NewRow(q.writer.column, q.read)
    BY DEF write, Is
  <1> HIDE DEF q
  <1>3. PICK p : p = [q EXCEPT !.seen = edition']
    OBVIOUS
  <1>4. PICK stage \in {"list", "done"} : Move(r, p, stage)
    BY <1>3 DEF write, q
  <1>5. AskingFields(p)
    BY <1>1, <1>3 DEF AskingFields
  <1>6. p.read = q.read /\ p.writer = q.writer /\ p.keys = q.keys /\ p.answer = q.answer
    BY <1>1, <1>3 DEF AskingFields
  <1>7. /\ p.read \in Row /\ p.writer.drops \subseteq Forms /\ p.keys \subseteq Forms /\ p.answer = {}
        /\ stage \in ShelfStages
    BY <1>1, <1>2, <1>4, <1>6 DEF AskingRanged, ShelfStages
  <1>8. /\ \A s \in ShelfRequests : AskingRanged(asking'[s])
        /\ asking'[r].stage = stage
        /\ \A s \in ShelfRequests \ {r} : asking'[s] = asking[s]
    BY <1>4, <1>5, <1>7, MoveRanged
  <1>9. row' \in Row
    <2>1. q.read \in Row
      BY <1>1 DEF AskingRanged
    <2>2. \A x \in Row : [row EXCEPT !.verified = ~x.verified] \in Row
                            /\ [row EXCEPT !.published = ~x.published] \in Row
                            /\ [row EXCEPT !.published = TRUE] \in Row
                            /\ [row EXCEPT !.gone = TRUE] \in Row
                            /\ [row EXCEPT !.gone = FALSE] \in Row
      BY <1>1 DEF Row
    <2> QED BY <1>1, <1>2, <2>1, <2>2 DEF NewRow
  <1>10. edition' <= Cardinality(Writers')
    <2>1. r \notin Writers /\ IsFiniteSet(Writers) /\ Cardinality(Writers) \in Nat
      BY <1>2, WritersFinite DEF Writers, Wrote, q
    <2>2. Writers' = Writers \cup {r}
      BY <1>4, <1>8 DEF Writers, Wrote
    <2>3. Cardinality(Writers \cup {r}) = Cardinality(Writers) + 1
      BY <2>1, FS_AddElement
    <2> QED BY <1>1, <1>2, <2>1, <2>2, <2>3 DEF ShelfRanges
  <1>11. \A s \in ShelfRequests : AskingRanged(asking[s])'
    BY <1>8 DEF AskingRanged
  <1> QED BY <1>2, <1>9, <1>10, <1>11 DEF ShelfRanges

\* The rows of the shelf, its cache and its requests: the row is not written more often
\* than there are requests, and only what is about to be stored has an answer.
THEOREM ShelfTypeOKAlways == ShelfSpec => []ShelfTypeOK
  <1>1. ASSUME ShelfInit PROVE ShelfRanges
    <2>1. edition = 0 /\ edition \in Nat /\ row \in Row /\ around \in Around
      BY <1>1 DEF ShelfInit, Row
    <2>2. \A f \in Forms : cache[f] = NoEntry
      BY <1>1 DEF ShelfInit
    <2>3. \A r \in ShelfRequests : AskingRanged(asking[r])
      BY <1>1, <2>1, UnaskedRanged DEF ShelfInit
    <2>4. 0 <= Cardinality(Writers)
      BY WritersFinite
    <2> QED BY <2>1, <2>2, <2>3, <2>4 DEF ShelfRanges
  <1>2. ASSUME ShelfInv, ShelfRanges, [ShelfNext]_shelfVars PROVE ShelfRanges'
    <2>1. CASE UNCHANGED <<row, edition, around, asking>>
               /\ \A f \in Forms : cache'[f] \in {NoEntry, cache[f]}
      <3>1. Writers' = Writers
        BY <2>1 DEF Writers
      <3> QED BY <1>2, <2>1, <3>1 DEF ShelfRanges, AskingRanged
    <2>2. CASE UNCHANGED shelfVars
      BY <2>1, <2>2 DEF shelfVars
    <2>3. CASE (\E form \in Forms : expire(form)) \/ reset
      BY <1>2, <2>1, <2>3 DEF expire, reset, ShelfInv, ShelfTyped
    <2>4. ASSUME NEW r \in ShelfRequests, ShelfStep(r) PROVE ShelfRanges'
      BY <1>2, <2>4, AskingStepsRanged, WriteRanged DEF ShelfStep
    <2> QED BY <1>2, <2>2, <2>3, <2>4 DEF ShelfNext
  <1>3. ASSUME ShelfInv, ShelfRanges PROVE ShelfTypeOK
    <2>1. shelf \in Shelves /\ edition \in Nat /\ settled \in [Forms -> 0..edition]
      BY <1>3 DEF ShelfInv, ShelfTyped
    <2>2. edition \in 0..Cardinality(ShelfRequests)
      BY <1>3, <2>1, WritersFinite DEF ShelfRanges
    <2>3. ASSUME NEW f \in Forms
          PROVE  /\ cache[f] = NoEntry \/ (cache[f].late \in BOOLEAN /\ cache[f].seen \in 0..edition)
                 /\ settled[f] \in 0..edition
      BY <1>3, <2>1 DEF ShelfInv, EntrySound, ShelfRanges
    <2>4. ASSUME NEW r \in ShelfRequests
          PROVE  /\ asking[r].stage \in ShelfStages /\ asking[r].form \in Forms
                 /\ asking[r].keys \subseteq Forms /\ asking[r].seen \in 0..edition
                 /\ asking[r].stage # "store" => asking[r].answer = {}
      BY <1>3 DEF ShelfInv, ShelfTyped, IsAsking, ShelfRanges, AskingRanged
    <2> QED BY <1>3, <2>1, <2>2, <2>3, <2>4 DEF ShelfTypeOK, ShelfRanges
  <1> QED BY <1>1, <1>2, <1>3, ShelfInvariance, PTL DEF ShelfSpec

-----------------------------------------------------------------------------
(* The audience: dates and counts in range                                 *)

Dates == Moments \cup {Never}
Parts == Issues \cup {Comic}

\* A part that was counted adds at most one for each reader.
Most(left) == Cardinality(Readers) * Cardinality(Parts \ left)

TakeRanged(t) ==
    /\ t.stage \in {"idle", "creators", "counting", "done"}
    /\ t.date \in Dates /\ {t.day, t.dataDay} \subseteq Midnights \cup {Never}
    /\ t.stage \in {"creators", "counting"} => t.day \in Midnights
    /\ t.left \subseteq Parts
    /\ t.followers \in 0..Cardinality(Readers)
    /\ t.likes \in 0..Most(t.left) /\ t.readers \in 0..Most(t.left) /\ t.views \in 0..Most(t.left)

AudienceRanges ==
    /\ moment \in Moments
    /\ dates \in [Readers \X Dated -> Dates]
    /\ issueUsers \subseteq Readers \X Issues
    /\ \A r \in AudienceRequests : \A w \in pending[r].upserts : w.at \in Dates
    /\ \A s \in Takes : TakeRanged(take[s])
    /\ \A x \in creatorSnapshots : x.day \in Midnights /\ x.like \in CountRange
    /\ sold \subseteq Moments

LEMMA MomentsRanged ==
    /\ Moments \subseteq Nat /\ FirstMoment \in Moments /\ Never \notin Moments
    /\ \A t \in Moments : startOfDay(t) \in Midnights
    /\ Midnights \subseteq Int
  <1>1. Moments \subseteq Nat /\ FirstMoment \in Moments /\ Never \notin Moments
    BY AudienceAssumption DEF Moments, FirstMoment, Day, Never
  <1>2. \A t \in Moments : startOfDay(t) \in Midnights
    BY DEF Midnights
  <1>3. \A t \in Moments : startOfDay(t) \in Int
    BY <1>1 DEF startOfDay, Day
  <1> QED BY <1>1, <1>2, <1>3 DEF Midnights

LEMMA CountsBounded ==
    /\ Cardinality(Readers) \in Nat
    /\ \A what, midnight : CountOf(what, midnight) \in 0..Cardinality(Readers)
  <1>1. Cardinality(Readers) \in Nat
    BY AudienceAssumption, FS_CardinalityType
  <1>2. ASSUME NEW what, NEW midnight
        PROVE  CountOf(what, midnight) \in 0..Cardinality(Readers)
    <2>1. CountedBy(what, midnight) \subseteq Readers
      BY DEF CountedBy
    <2>2. /\ IsFiniteSet(CountedBy(what, midnight))
          /\ Cardinality(CountedBy(what, midnight)) <= Cardinality(Readers)
      BY <2>1, AudienceAssumption, FS_Subset
    <2>3. Cardinality(CountedBy(what, midnight)) \in Nat
      BY <2>2, FS_CardinalityType
    <2> QED BY <1>1, <2>2, <2>3 DEF CountOf
  <1> QED BY <1>1, <1>2

LEMMA PartsFinite ==
    /\ IsFiniteSet(Parts) /\ Cardinality(Parts) = Cardinality(Issues) + 1
    /\ \A left : IsFiniteSet(Parts \ left) /\ Cardinality(Parts \ left) \in 0..Cardinality(Parts)
  <1>1. IsFiniteSet(Parts) /\ Cardinality(Parts) = Cardinality(Issues) + 1
    BY AudienceAssumption, FS_AddElement DEF Parts, Comic
  <1>2. ASSUME NEW left
        PROVE  IsFiniteSet(Parts \ left) /\ Cardinality(Parts \ left) \in 0..Cardinality(Parts)
    <2>1. Parts \ left \subseteq Parts
      OBVIOUS
    <2>2. IsFiniteSet(Parts \ left) /\ Cardinality(Parts \ left) <= Cardinality(Parts)
      BY <1>1, <2>1, FS_Subset
    <2>3. Cardinality(Parts \ left) \in Nat /\ Cardinality(Parts) \in Nat
      BY <1>1, <2>2, FS_CardinalityType
    <2> QED BY <2>2, <2>3
  <1> QED BY <1>1, <1>2

LEMMA ProductGrows ==
    ASSUME NEW a \in Nat, NEW k \in Nat, NEW n \in Nat
    PROVE  a * k \in Nat /\ a * (k + 1) = a * k + a /\ (k <= n => a * k <= a * n)
  <1>1. a * k \in Nat /\ a * (k + 1) = a * k + a
    OBVIOUS
  <1>2. ASSUME k <= n PROVE a * k <= a * n
    <2>1. PICK d \in Nat : n = k + d
      <3>1. n - k \in Nat /\ n = k + (n - k)
        BY <1>2
      <3> QED BY <3>1
    <2>2. a * n = a * k + a * d /\ a * d \in Nat
      BY <2>1
    <2> QED BY <1>1, <2>2
  <1> QED BY <1>1, <1>2

\* What is left bounds what was added up, and every sum is in range.
LEMMA SumsBounded ==
    ASSUME NEW left
    PROVE  /\ Most(left) \in Nat /\ 0..Most(left) \subseteq CountRange
           /\ 0..Cardinality(Readers) \subseteq CountRange
           /\ \A part \in left \cap Parts : \A sum \in 0..Most(left), n \in 0..Cardinality(Readers) :
                sum + n \in 0..Most(left \ {part})
  <1> DEFINE k == Cardinality(Readers)
             c == Cardinality(Parts \ left)
             n1 == Cardinality(Parts)
  <1>1. k \in Nat /\ c \in Nat /\ n1 \in Nat /\ c <= n1 /\ n1 = Cardinality(Issues) + 1
        /\ Cardinality(Issues) \in Nat
    <2>1. k \in Nat
      BY CountsBounded
    <2>2. Cardinality(Issues) \in Nat
      BY AudienceAssumption, FS_CardinalityType
    <2>3. n1 = Cardinality(Issues) + 1 /\ c \in 0..n1
      BY PartsFinite
    <2> HIDE DEF k, c, n1
    <2> QED BY <2>1, <2>2, <2>3
  <1>2. Most(left) = k * c /\ CountRange = 0..(k * n1)
    BY <1>1 DEF Most, CountRange
  <1>3. k * c \in Nat /\ k * n1 \in Nat /\ k * c <= k * n1
    BY <1>1, ProductGrows
  <1>4. k <= k * n1
    <2>1. k * n1 = k * Cardinality(Issues) + k /\ k * Cardinality(Issues) \in Nat
      BY <1>1, ProductGrows
    <2> QED BY <1>1, <2>1
  <1>5. ASSUME NEW part \in left \cap Parts, NEW sum \in 0..Most(left), NEW n \in 0..k
        PROVE  sum + n \in 0..Most(left \ {part})
    <2>1. Parts \ (left \ {part}) = (Parts \ left) \cup {part} /\ part \notin Parts \ left
          /\ IsFiniteSet(Parts \ left)
      BY <1>5, PartsFinite
    <2>2. Cardinality((Parts \ left) \cup {part}) = c + 1
      BY <2>1, FS_AddElement
    <2>3. Most(left \ {part}) = k * (c + 1)
      BY <2>1, <2>2 DEF Most
    <2>4. k * (c + 1) = k * c + k
      BY <1>1, ProductGrows
    <2> HIDE DEF k, c
    <2>5. sum \in 0..(k * c)
      BY <1>2
    <2> QED BY <1>1, <1>3, <1>5, <2>3, <2>4, <2>5
  <1> HIDE DEF k, c, n1
  <1>6. 0..Most(left) \subseteq CountRange /\ 0..k \subseteq CountRange
    BY <1>1, <1>2, <1>3, <1>4
  <1> QED BY <1>2, <1>3, <1>5, <1>6 DEF k

\* Readers write the moment they were asked at, or none.
LEMMA UpsertsRanged ==
    ASSUME AudienceInv, AudienceRanges, NEW r \in AudienceRequests, RequestStep(r)
    PROVE  AudienceRanges'
  <1>1. /\ moment \in Dates /\ Never \in Dates
        /\ \A u, d, at : Upsert(u, d, at).at = at
        /\ \A u, d : toggleDate(u, d).at \in Dates
    BY DEF AudienceRanges, Dates, Upsert, toggleDate
  <1>2. ASSUME NEW w \in pending[r].upserts
        PROVE  w.reader \in Readers /\ w.what \in Whats /\ w.at \in Dates
    BY <1>2 DEF AudienceInv, AudienceTyped, Upserts, AudienceRanges
  <1>3. ASSUME NEW upserts, \A w \in upserts : w.at \in Dates, Asked(r, upserts)
        PROVE  AudienceRanges'
    <2>1. \A q \in AudienceRequests : \A w \in pending'[q].upserts : w.at \in Dates
      BY <1>3 DEF AudienceInv, AudienceTyped, Asked, AudienceRanges
    <2>2. UNCHANGED <<moment, dates, issueUsers, take, creatorSnapshots, sold>>
      BY <1>3 DEF Asked, rowVars
    <2> QED BY <2>1, <2>2 DEF AudienceRanges
  <1>4. CASE favourite(r) \/ favouritise(r) \/ bookmark(r) \/ follow(r)
    BY <1>1, <1>3, <1>4 DEF favourite, favouritise, bookmark, follow
  <1>5. CASE getUserStats(r) \/ getAndUpdateUserStats(r) \/ rate(r) \/ rateComic(r)
    <2>1. PICK u, d : Asked(r, {Upsert(u, d, moment)})
      BY <1>5 DEF getUserStats, getAndUpdateUserStats, rate, rateComic, Opening
    <2> QED BY <1>1, <1>3, <2>1
  <1>12. CASE getPages(r)
    <2>1. PICK u \in Readers, i \in Issues :
            Asked(r, {Upsert(u, <<i, "opened">>, moment), Upsert(u, <<i, "read">>, moment)})
      BY <1>12 DEF getPages, Opening
    <2> QED BY <1>1, <1>3, <2>1
  <1>6. ASSUME NEW w \in pending[r].upserts, NEW next, \A v \in next : v.at \in Dates,
               Settled(r, w, next)
        PROVE  \A q \in AudienceRequests : \A v \in pending'[q].upserts : v.at \in Dates
    BY <1>6 DEF AudienceInv, AudienceTyped, AudienceRanges, Settled
  <1>7. ASSUME NEW u \in Readers, NEW d \in Dated, NEW at \in Dates, WriteDate(u, d, at)
        PROVE  dates' \in [Readers \X Dated -> Dates]
    BY <1>7 DEF AudienceRanges, WriteDate
  <1>8. ASSUME NEW w \in pending[r].upserts
        PROVE  RowOf(w.reader, w.what) \subseteq Readers \X Issues
    BY <1>2, <1>8 DEF RowOf, AudienceRanges
  <1>9. CASE Write(r)
    <2>1. PICK w \in pending[r].upserts :
            /\ w.what \in Dated /\ WriteDate(w.reader, w.what, w.at) /\ Settled(r, w, NoUpsert)
            /\ issueUsers' = RowOf(w.reader, w.what)
            /\ UNCHANGED <<moment, take, creatorSnapshots, sold>>
      BY <1>9 DEF Write, rowVars
    <2>2. dates' \in [Readers \X Dated -> Dates] /\ issueUsers' \subseteq Readers \X Issues
      BY <1>2, <1>7, <1>8, <2>1
    <2>3. \A q \in AudienceRequests : \A v \in pending'[q].upserts : v.at \in Dates
      BY <1>6, <2>1 DEF NoUpsert
    <2> QED BY <2>1, <2>2, <2>3 DEF AudienceRanges
  <1>10. CASE WriteOpening(r)
    <2>1. PICK w \in pending[r].upserts :
            /\ w.what[2] = "opened"
            /\ \E what \in {"read", "viewed"} : WriteDate(w.reader, <<w.what[1], what>>, w.at)
            /\ Settled(r, w, {Upsert(w.reader, <<Comic, "viewed">>, moment)})
            /\ issueUsers' = RowOf(w.reader, w.what)
            /\ UNCHANGED <<moment, take, creatorSnapshots, sold>>
      BY <1>10 DEF WriteOpening, rowVars
    <2>2. w.what[1] \in Issues
      BY <1>2, <2>1 DEF Whats, Dated, OfIssue, OfComic, Followed
    <2>3. PICK d \in Dated : WriteDate(w.reader, d, w.at)
      BY <2>1, <2>2 DEF Dated, OfIssue
    <2>4. dates' \in [Readers \X Dated -> Dates] /\ issueUsers' \subseteq Readers \X Issues
      BY <1>2, <1>7, <1>8, <2>1, <2>3
    <2>5. \A q \in AudienceRequests : \A v \in pending'[q].upserts : v.at \in Dates
      BY <1>1, <1>6, <2>1
    <2> QED BY <2>1, <2>4, <2>5 DEF AudienceRanges
  <1>11. CASE WriteRating(r) \/ WriteRefused(r)
    <2>1. PICK w \in pending[r].upserts :
            /\ Settled(r, w, NoUpsert) /\ UNCHANGED <<moment, dates, take, creatorSnapshots, sold>>
            /\ issueUsers' \in {issueUsers, RowOf(w.reader, w.what)}
      BY <1>11 DEF WriteRating, WriteRefused, rowVars
    <2>2. issueUsers' \subseteq Readers \X Issues
      BY <1>8, <2>1 DEF AudienceRanges
    <2>3. \A q \in AudienceRequests : \A v \in pending'[q].upserts : v.at \in Dates
      BY <1>6, <2>1 DEF NoUpsert
    <2> QED BY <2>1, <2>2, <2>3 DEF AudienceRanges
  <1> QED BY <1>4, <1>5, <1>9, <1>10, <1>11, <1>12 DEF RequestStep

\* One snapshot goes on.
LEMMA TakeStaysRanged ==
    ASSUME AudienceInv, AudienceRanges, NEW s \in Takes, NEW t, TakeRanged(t),
           take' = [take EXCEPT ![s] = t], UNCHANGED <<readerVars, sold>>,
           \A x \in creatorSnapshots' \ creatorSnapshots : x.day \in Midnights /\ x.like \in CountRange
    PROVE  AudienceRanges'
  <1>1. \A q \in Takes : take'[q] = IF q = s THEN t ELSE take[q]
    BY DEF AudienceInv, AudienceTyped
  <1>2. UNCHANGED <<moment, dates, issueUsers, pending, sold>>
    BY DEF readerVars
  <1>3. \A q \in Takes : TakeRanged(take'[q])
    BY <1>1 DEF AudienceRanges
  <1>4. \A x \in creatorSnapshots' : x.day \in Midnights /\ x.like \in CountRange
    BY DEF AudienceRanges
  <1> QED BY <1>2, <1>3, <1>4 DEF AudienceRanges, TakeRanged

LEMMA DoneRanged ==
    ASSUME NEW t, TakeRanged(t), NEW lost
    PROVE  TakeRanged(Done(t, lost))
  <1>1. PICK d : d = Done(t, lost)
    OBVIOUS
  <1>2. /\ d.stage = "done" /\ d.date = Never /\ d.day = t.day /\ d.dataDay = t.dataDay
        /\ d.left = {} /\ d.followers = 0 /\ d.likes = 0 /\ d.readers = 0 /\ d.views = 0
    BY <1>1 DEF Done, Take
  <1>3. Most({}) \in Nat /\ Cardinality(Readers) \in Nat
    BY SumsBounded, CountsBounded
  <1> QED BY <1>1, <1>2, <1>3 DEF TakeRanged, Dates

LEMMA AddedRanged ==
    ASSUME AudienceInv, AudienceRanges, NEW s \in Takes, take[s].stage = "counting",
           NEW part \in take[s].left, NEW lost,
           NEW likes \in 0..Cardinality(Readers), NEW readers \in 0..Cardinality(Readers),
           NEW views \in 0..Cardinality(Readers),
           Added(s, part, likes, readers, views, lost),
           UNCHANGED <<readerVars, sold, creatorSnapshots>>
    PROVE  AudienceRanges'
  <1>1. PICK before : before = take[s]
    OBVIOUS
  <1>2. TakeRanged(before) /\ IsTake(before)
    BY <1>1 DEF AudienceRanges, AudienceInv, AudienceTyped
  <1>3. PICK t : t = [before EXCEPT !.left = before.left \ {part}, !.likes = before.likes + likes,
                                    !.readers = before.readers + readers,
                                    !.views = before.views + views, !.lost = before.lost \/ lost]
    OBVIOUS
  <1>4. /\ t.stage = before.stage /\ t.date = before.date /\ t.day = before.day
        /\ t.dataDay = before.dataDay /\ t.followers = before.followers
        /\ t.left = before.left \ {part} /\ t.likes = before.likes + likes
        /\ t.readers = before.readers + readers /\ t.views = before.views + views
    BY <1>2, <1>3 DEF IsTake
  <1>5. part \in before.left \cap Parts
    BY <1>1, <1>2 DEF TakeRanged
  <1>6. /\ t.likes \in 0..Most(t.left) /\ t.readers \in 0..Most(t.left)
        /\ t.views \in 0..Most(t.left)
    <2>1. \A sum \in 0..Most(before.left), n \in 0..Cardinality(Readers) :
            sum + n \in 0..Most(before.left \ {part})
      BY <1>5, SumsBounded
    <2> QED BY <1>2, <1>4, <2>1 DEF TakeRanged
  <1>7. TakeRanged(t)
    BY <1>2, <1>4, <1>6 DEF TakeRanged
  <1>8. take' = [take EXCEPT ![s] = t]
    BY <1>1, <1>3 DEF Added
  <1> QED BY <1>7, <1>8, TakeStaysRanged

LEMMA SnapshotRanged ==
    ASSUME AudienceInv, AudienceRanges, NEW s \in Takes, TakeStep(s)
    PROVE  AudienceRanges'
  <1>1. TakeRanged(take[s]) /\ IsTake(take[s]) /\ moment \in Moments
    BY DEF AudienceRanges, AudienceInv, AudienceTyped
  <1>2. CASE snapshot(s)
    <2>1. PICK date \in {Never} \cup Noons :
            take' = [take EXCEPT ![s] =
               Take("creators", date, startOfDay(IF date # Never THEN date ELSE moment),
                    Never, Issues \cup {Comic}, FALSE)]
      BY <1>2 DEF snapshot
    <2>2. date \in Dates /\ (date # Never => date \in Moments)
      BY DEF Noons, Dates
    <2>3. PICK day \in Midnights : day = startOfDay(IF date # Never THEN date ELSE moment)
      BY <1>1, <2>2, MomentsRanged
    <2>4. PICK t : t = Take("creators", date, day, Never, Issues \cup {Comic}, FALSE)
      OBVIOUS
    <2>5. /\ t.stage = "creators" /\ t.date = date /\ t.day = day /\ t.dataDay = Never
          /\ t.left = Parts /\ t.followers = 0 /\ t.likes = 0 /\ t.readers = 0 /\ t.views = 0
      BY <2>4 DEF Take, Parts
    <2>6. Most(t.left) \in Nat /\ Cardinality(Readers) \in Nat
      BY SumsBounded, CountsBounded
    <2>7. TakeRanged(t)
      BY <2>2, <2>5, <2>6 DEF TakeRanged
    <2>8. take' = [take EXCEPT ![s] = t] /\ UNCHANGED <<readerVars, sold, creatorSnapshots>>
      BY <1>2, <2>1, <2>3, <2>4 DEF snapshot, rowVars
    <2> QED BY <2>7, <2>8, TakeStaysRanged
  <1>3. CASE StartCreator(s)
    <2>1. PICK n \in 0..Cardinality(Readers) : n = CountOf(Followed, take[s].day)
      BY CountsBounded
    <2>2. PICK day \in Midnights : day = DayOf(s)
      BY <1>1, MomentsRanged DEF DayOf, TakeRanged, Dates
    <2>3. PICK t : t = [take[s] EXCEPT !.stage = "counting", !.dataDay = day, !.followers = n]
      OBVIOUS
    <2>4. take' = [take EXCEPT ![s] = t] /\ take[s].stage = "creators"
          /\ UNCHANGED <<readerVars, sold, creatorSnapshots>>
      BY <1>3, <2>1, <2>2, <2>3 DEF StartCreator, rowVars
    <2>5. /\ t.stage = "counting" /\ t.day = take[s].day /\ t.dataDay = day /\ t.date = take[s].date
          /\ t.left = take[s].left /\ t.followers = n /\ t.likes = take[s].likes
          /\ t.readers = take[s].readers /\ t.views = take[s].views
      BY <1>1, <2>3 DEF IsTake
    <2>6. TakeRanged(t)
      BY <1>1, <2>4, <2>5 DEF TakeRanged
    <2> QED BY <2>4, <2>6, TakeStaysRanged
  <1>4. CASE getComicIssueData(s)
    <2>1. PICK i \in take[s].left, lost \in MayLose :
            \E likes, readers, views \in 0..Cardinality(Readers) :
              Added(s, i, likes, readers, views, lost)
      BY <1>4, CountsBounded DEF getComicIssueData
    <2> QED BY <1>4, <2>1, AddedRanged DEF getComicIssueData
  <1>5. CASE getComicData(s)
    <2>1. PICK lost \in MayLose : \E likes, views \in 0..Cardinality(Readers) :
              Added(s, Comic, likes, 0, views, lost)
      BY <1>5, CountsBounded DEF getComicData
    <2>2. 0 \in 0..Cardinality(Readers)
      BY CountsBounded
    <2> QED BY <1>5, <2>1, <2>2, AddedRanged DEF getComicData
  <1>6. CASE WriteCreator(s) \/ TakeFails(s)
    <2>1. /\ \E lost : take' = [take EXCEPT ![s] = Done(take[s], lost)]
          /\ take[s].stage \in {"creators", "counting"}
          /\ creatorSnapshots' \subseteq creatorSnapshots \cup {CreatorRow(s)}
          /\ UNCHANGED <<readerVars, sold>>
      BY <1>1, <1>6 DEF WriteCreator, TakeFails, rowVars
    <2>2. CreatorRow(s).day = take[s].day /\ CreatorRow(s).like = take[s].likes
      BY DEF CreatorRow
    <2>3. CreatorRow(s).day \in Midnights /\ CreatorRow(s).like \in CountRange
      BY <1>1, <2>1, <2>2, SumsBounded DEF TakeRanged
    <2> QED BY <1>1, <2>1, <2>3, DoneRanged, TakeStaysRanged
  <1> QED BY <1>2, <1>3, <1>4, <1>5, <1>6 DEF TakeStep

\* Every date is a moment, every snapshot is of a midnight, and no count is above one for
\* each reader of each part.
THEOREM AudienceTypeOKAlways == AudienceSpec => []AudienceTypeOK
  <1>1. ASSUME AudienceInit PROVE AudienceRanges
    <2>1. dates \in [Readers \X Dated -> Dates] /\ moment \in Moments /\ sold \subseteq Moments
      BY <1>1, MomentsRanged DEF AudienceInit, Dates
    <2>2. issueUsers \subseteq Readers \X Issues
      <3>1. PICK liked \in SUBSET (Readers \X Toggled) :
              issueUsers = {<<x[1], x[2][1]>> : x \in {y \in liked : y[2] \in OfIssue}}
        BY <1>1 DEF AudienceInit
      <3> QED BY <3>1 DEF OfIssue
    <2>3. \A r \in AudienceRequests : pending[r].upserts = {}
      BY <1>1 DEF AudienceInit, NoUpsert
    <2>4. ASSUME NEW s \in Takes PROVE TakeRanged(take[s])
      <3>1. take[s] = Take("idle", Never, Never, Never, {}, FALSE)
        BY <1>1 DEF AudienceInit
      <3>2. Most({}) \in Nat /\ Cardinality(Readers) \in Nat
        BY SumsBounded, CountsBounded
      <3> QED BY <3>1, <3>2 DEF Take, TakeRanged, Dates
    <2>5. creatorSnapshots = {}
      BY <1>1 DEF AudienceInit
    <2> QED BY <2>1, <2>2, <2>3, <2>4, <2>5 DEF AudienceRanges
  <1>2. ASSUME AudienceInv, AudienceRanges, [AudienceNext]_audienceVars
        PROVE  AudienceRanges'
    <2>1. CASE Tick
      <3>1. UNCHANGED <<dates, issueUsers, pending, take, creatorSnapshots, sold>>
            /\ moment' \in Moments
        BY <2>1 DEF Tick, rowVars
      <3> QED BY <1>2, <3>1 DEF AudienceRanges, TakeRanged
    <2>2. CASE UNCHANGED audienceVars
      BY <1>2, <2>2 DEF audienceVars, AudienceRanges, TakeRanged
    <2> QED BY <1>2, <2>1, <2>2, UpsertsRanged, SnapshotRanged DEF AudienceNext
  <1>3. ASSUME AudienceInv, AudienceRanges PROVE AudienceTypeOK
    <2>1. ASSUME NEW s \in Takes
          PROVE  /\ take[s].stage \in {"idle", "creators", "counting", "done"}
                 /\ {take[s].followers, take[s].likes, take[s].readers, take[s].views}
                      \subseteq CountRange
                 /\ {take[s].day, take[s].dataDay} \subseteq Midnights \cup {Never}
      <3>1. TakeRanged(take[s])
        BY <1>3 DEF AudienceRanges
      <3> QED BY <3>1, SumsBounded DEF TakeRanged
    <2>2. \A r \in AudienceRequests : \A w \in pending[r].upserts :
            w.reader \in Readers /\ w.at \in Moments \cup {Never}
      BY <1>3 DEF AudienceInv, AudienceTyped, Upserts, AudienceRanges, Dates
    <2> QED BY <1>3, <2>1, <2>2 DEF AudienceRanges, AudienceTypeOK, Dates
  <1> QED BY <1>1, <1>2, <1>3, AudienceInvariance, PTL DEF AudienceSpec

-----------------------------------------------------------------------------
(* Works and prints: times, numbers and what is told in range              *)

\* What a sale has minted is counted nowhere.
EditionRanges ==
    /\ now \in 0..MaxNow /\ happened \in 0..MaxTold /\ vetted \in BOOLEAN
    /\ saleRow # NoSale => saleRow.minted = 0
    /\ \A e \in told : e.id >= 1
    /\ signature \in 0..MaxNow \cup {NoRequest}

LEMMA BoundsNatural == MaxSupply \in Nat /\ MaxNow \in Nat /\ MaxTold \in Nat
  BY EditionsAssumption

LEMMA EditionRangesKept ==
    ASSUME EditionsTyped, EditionRanges, [EditionsNext]_editionVars
    PROVE  EditionRanges'
  <1>1. CASE UNCHANGED editionVars
    BY <1>1 DEF editionVars, EditionRanges
  <1>2. ASSUME NEW kind, NEW w, NEW value, Tell(kind, w, value)
        PROVE  happened' \in 0..MaxTold /\ \A e \in told' : e.id >= 1
    BY <1>2, BoundsNatural DEF Tell, EditionRanges
  <1>3. ASSUME NEW w, NEW wallet, PutOnChain(w, wallet)
        PROVE  EditionRanges'
    BY <1>3 DEF PutOnChain, EditionRanges
  <1>4. ASSUME NEW wallet, \/ createOneOfOneCollectionTransaction(wallet)
                           \/ createOneOfOneTransaction(wallet)
                           \/ createPrintEditionCollectionTransaction(wallet)
        PROVE  EditionRanges'
    BY <1>3, <1>4 DEF createOneOfOneCollectionTransaction, createOneOfOneTransaction,
       createPrintEditionCollectionTransaction
  <1>5. ASSUME NEW w, NEW wallet, GiveWork(w, wallet)
        PROVE  EditionRanges'
    <2>1. UNCHANGED <<now, vetted, saleRow, signature>> /\ Tell("transfer", w, wallet)
      BY <1>5 DEF GiveWork
    <2> QED BY <1>2, <2>1 DEF EditionRanges
  <1>6. CASE vet
    BY <1>6 DEF vet, EditionRanges
  <1>12. CASE tick
    <2>1. now < MaxNow /\ now' = now + 1 /\ now \in 0..MaxNow /\ MaxNow \in Nat
      BY <1>12, BoundsNatural DEF tick, EditionRanges
    <2>2. now' \in 0..MaxNow
      BY <2>1
    <2> QED BY <1>12, <2>2 DEF tick, EditionRanges
  <1>7. ASSUME NEW terms, initializePrintEditionSale(terms)
        PROVE  EditionRanges'
    <2>1. UNCHANGED <<now, vetted, saleRow, signature>> /\ Tell("init", "collection", terms)
      BY <1>7 DEF initializePrintEditionSale
    <2> QED BY <1>2, <2>1 DEF EditionRanges
  <1>8. ASSUME NEW e \in told, LoseTold(e)
        PROVE  EditionRanges'
    BY <1>8 DEF LoseTold, EditionRanges
  <1>9. ASSUME NEW e \in told, NEW again \in BOOLEAN, HandleTold(e, again)
        PROVE  EditionRanges'
    <2>1. UNCHANGED <<now, vetted, happened, signature>> /\ told' \subseteq told
          /\ saleRow' \in {saleRow, StartedSale(e)}
      BY <1>9 DEF HandleTold
    <2>2. StartedSale(e).minted = 0
      BY DEF StartedSale, EditionRanges
    <2> QED BY <2>1, <2>2 DEF EditionRanges
  <1>10. ASSUME NEW r \in EditionRequests, NEW p, LandPurchase(r, p)
         PROVE  EditionRanges'
    <2>1. UNCHANGED <<now, vetted, saleRow, signature>>
      BY <1>10 DEF LandPurchase
    <2>2. UNCHANGED <<told, happened>> \/ Tell("buy", p, ejob[r].wallet)
      BY <1>10 DEF LandPurchase
    <2> QED BY <1>2, <2>1, <2>2 DEF EditionRanges
  <1>11. ASSUME NEW r \in EditionRequests, EditionStep(r)
         PROVE  EditionRanges'
    <2>1. CASE upsertRequest(r)
      BY <2>1 DEF upsertRequest, EditionRanges
    <2>2. ASSUME UNCHANGED <<now, vetted, saleRow, told, happened, signature>>
          PROVE  EditionRanges'
      BY <2>2 DEF EditionRanges
    <2>3. CASE \/ \E w \in Registered : register(r, w) \/ fetchWork(r, w)
               \/ \E wallet \in Buyers : buyPrintEdition(r, wallet)
      BY <2>2, <2>3 DEF register, fetchWork, buyPrintEdition
    <2>4. CASE \/ createOneOfOneCollection(r) \/ createOneOfOne(r)
               \/ createPrintEditionCollection(r)
      BY <2>2, <2>4 DEF createOneOfOneCollection, createOneOfOne, createPrintEditionCollection,
         CreateRow
    <2>5. CASE AbandonPurchase(r) \/ requestCollectibleComicSignature(r) \/ requestAutograph(r)
      BY <2>2, <2>5 DEF AbandonPurchase, requestCollectibleComicSignature, requestAutograph
    <2> QED BY <1>10, <1>11, <2>1, <2>3, <2>4, <2>5 DEF EditionStep
  <1> QED BY <1>1, <1>4, <1>5, <1>6, <1>7, <1>8, <1>9, <1>11, <1>12 DEF EditionsNext

\* Works, prints, sales and requests stay in range: no print has a number above the supply,
\* and every webhook is of a change that happened.
THEOREM EditionsTypeOKAlways == EditionsSpec => []EditionsTypeOK
  <1>1. EditionsInit => EditionRanges
    <2>1. 0 \in 0..MaxNow /\ 0 \in 0..MaxTold
      BY BoundsNatural
    <2>2. EditionsInit => /\ now = 0 /\ happened = 0 /\ vetted = FALSE /\ saleRow = NoSale
                          /\ told = {} /\ signature = NoRequest
      BY DEF EditionsInit
    <2> QED BY <2>1, <2>2 DEF EditionRanges
  <1>2. EditionsInv /\ EditionRanges /\ [EditionsNext]_editionVars => EditionRanges'
    BY EditionRangesKept DEF EditionsInv
  <1>3. ASSUME EditionsInv, EditionRanges PROVE EditionsTypeOK
    <2>1. EditionsTyped /\ ToldSound
      BY <1>3 DEF EditionsInv
    <2>2. /\ {vetted, adrift} \subseteq BOOLEAN /\ sale \in Terms \cup {NoSale}
          /\ now \in 0..MaxNow /\ happened \in 0..MaxTold /\ signature \in 0..MaxNow \cup {NoRequest}
      BY <1>3, <2>1 DEF EditionsTyped, EditionRanges
    <2>3. \A w \in Works : /\ work[w] \in WorkState \cup {NoWork}
                           /\ workRow[w] \in WorkState \cup {NoWork}
      BY <2>1 DEF EditionsTyped
    <2>4. saleRow = NoSale \/ (saleRow.terms \in Terms /\ saleRow.minted \in 0..MaxSupply)
      BY <1>3, <2>1, BoundsNatural DEF EditionsTyped, EditionRanges, SaleRows
    <2>5. \A e \in told : e.id \in 1..happened /\ e.kind \in ToldKinds
      <3> SUFFICES ASSUME NEW e \in told PROVE e.id \in 1..happened /\ e.kind \in ToldKinds
        OBVIOUS
      <3>1. e \in Tidings
        BY <2>1 DEF EditionsTyped
      <3>2. e.id \in Nat /\ e.kind \in ToldKinds
        BY <3>1, TidingsAre DEF ToldKinds
      <3> QED BY <1>3, <2>1, <3>2 DEF EditionsTyped, ToldSound, EditionRanges
    <2>6. \A r \in EditionRequests : ejob[r].stage \in EditionStages
      BY <2>1 DEF EditionsTyped, EditionJobs
    <2> QED BY <2>2, <2>3, <2>4, <2>5, <2>6 DEF EditionsTypeOK
  <1> QED BY <1>1, <1>2, <1>3, EditionsInvariance, PTL DEF EditionsSpec

-----------------------------------------------------------------------------
(* The parts together                                                      *)

contentVars == <<scene, fileVars, shelfVars, routeVars, audienceVars, assetVars, editionVars>>

\* A scene takes its part's steps, and the others stay as they are.
LEMMA ScenesApart ==
    ASSUME [MCNext]_contentVars
    PROVE  /\ [FilesNext]_fileVars /\ [ShelfNext]_shelfVars /\ [RoutesNext]_routeVars
           /\ [AudienceNext]_audienceVars /\ [CollectiblesNext]_assetVars
           /\ [EditionsNext]_editionVars
  <1>1. CASE UNCHANGED contentVars
    BY <1>1, Zenon DEF contentVars
  <1>2. CASE scene = "files" /\ FilesNext /\ TwoOperations /\ GenreFirst
             /\ UNCHANGED <<shelfVars, routeVars, audienceVars, assetVars, editionVars>>
    BY <1>2, Zenon
  <1>3. CASE scene = "shelf" /\ ShelfNext /\ OneUncached
             /\ UNCHANGED <<fileVars, routeVars, audienceVars, assetVars, editionVars>>
    BY <1>3, Zenon
  <1>4. CASE scene = "routes" /\ RoutesNext /\ TwoVisits
             /\ UNCHANGED <<fileVars, shelfVars, audienceVars, assetVars, editionVars>>
    BY <1>4, Zenon
  <1>5. CASE scene = "audience" /\ AudienceNext /\ TwoTakes
             /\ UNCHANGED <<fileVars, shelfVars, routeVars, assetVars, editionVars>>
    BY <1>5, Zenon
  <1>6. CASE scene = "collectibles" /\ CollectiblesNext /\ TwoHandlers
             /\ UNCHANGED <<fileVars, shelfVars, routeVars, audienceVars, editionVars>>
    BY <1>6, Zenon
  <1>7. CASE scene = "editions" /\ EditionsNext /\ FewWorks
             /\ UNCHANGED <<fileVars, shelfVars, routeVars, audienceVars, assetVars>>
    BY <1>7, Zenon
  <1>8. CASE /\ scene = "autographs" /\ EditionsNext /\ work' = work
             /\ \A r \in EditionRequests : ejob'[r].what \in {"none", "autograph"}
             /\ UNCHANGED <<fileVars, shelfVars, routeVars, audienceVars, assetVars>>
    BY <1>8, Zenon
  <1> QED BY <1>1, <1>2, <1>3, <1>4, <1>5, <1>6, <1>7, <1>8, Zenon DEF MCNext

\* Files, cached answers, routes, the audience, collectibles, works and prints: in a system
\* of all of them every variable keeps its range, whatever the parts do.
THEOREM ContentTypeOKAlways == MCSpec => []ContentTypeOK
  <1>1. MCInit => /\ FilesInit /\ ShelfInit /\ RoutesInit /\ AudienceInit
                  /\ CollectiblesInit /\ EditionsInit
    BY Zenon DEF MCInit
  <1>2. [MCNext]_contentVars =>
          /\ [FilesNext]_fileVars /\ [ShelfNext]_shelfVars /\ [RoutesNext]_routeVars
          /\ [AudienceNext]_audienceVars /\ [CollectiblesNext]_assetVars
          /\ [EditionsNext]_editionVars
    BY ScenesApart
  <1>3. MCSpec => /\ FilesSpec /\ ShelfSpec /\ RoutesSpec /\ AudienceSpec
                  /\ CollectiblesSpec /\ EditionsSpec
    BY <1>1, <1>2, PTL DEF MCSpec, contentVars, FilesSpec, ShelfSpec, RoutesSpec,
       AudienceSpec, CollectiblesSpec, EditionsSpec
  <1>4. FilesTypeOK /\ ShelfTypeOK /\ RoutesTypeOK /\ AudienceTypeOK
          /\ CollectiblesTypeOK /\ EditionsTypeOK => ContentTypeOK
    BY Zenon DEF ContentTypeOK
  <1> QED BY <1>3, <1>4, FilesTypeOKAlways, ShelfTypeOKAlways, RoutesTypeOKAlways,
             AudienceTypeOKAlways, CollectiblesTypeOKAlways, EditionsTypeOKAlways, PTL
=============================================================================
