------------------------ MODULE DurableNonces_proofs ------------------------
(* Theorems about durable nonces, for any accounts and any number of requests, *)
(* commands, webhook calls and advances.                                       *)
EXTENDS DurableNonces, TLAPS

\* A request between finding a nonce and letting it go knows which one it is.
Holding ==
    \A r \in NonceRequests :
        npc[r] \in {"take", "send", "confirm", "fetch", "write"} => held[r] \in Nonces

\* A transaction whose value was spent can never land, and is forgotten.
SentCurrent == \A t \in sent : t.nonce = chainNonce[t.address]

\* What is free is nobody's: no request may still sign with it and nothing signed
\* with it may still land.
Free ==
    \A n \in Nonces \ early :
        nonceRow[n].status = "Available" =>
            /\ nonceRow[n].nonce = chainNonce[n]
            /\ Outstanding(n) = {}
            /\ \A r \in NonceRequests : ~Signing(r, n)

\* What holds while a nonce is taken, returned and taken again.
NonceInv == NoncesTypeOK /\ Holding /\ SentCurrent /\ Free /\ NoncesExclusive

-----------------------------------------------------------------------------
\* Every step keeps the types, and a request that needs its nonce has one.
LEMMA NextNoncesType ==
    ASSUME NoncesTypeOK, Holding, [NoncesNext]_nonceVars
    PROVE  NoncesTypeOK' /\ Holding'
  <1> USE DEF NoncesTypeOK, Holding, NonceGoes, NonceEnds, NonceUses, NonceStages, NonceStatus
  <1>1. CASE UNCHANGED nonceVars
    BY <1>1 DEF nonceVars
  <1>2. ASSUME NEW t \in sent, Lands(t) PROVE NoncesTypeOK' /\ Holding'
    <2>1. chainNonce[t.address] + 1 \in Values
      BY <1>2, NoncesAssumption DEF Lands, Values
    <2>2. t.address \in Nonces /\ t.nonce \in Values
      BY <1>2
    <2> QED BY <1>2, <2>1, <2>2 DEF Lands
  <1>3. ASSUME NEW r \in NonceRequests, NonceStep(r) PROVE NoncesTypeOK' /\ Holding'
    <2> USE NoncesAssumption
    <2>0. 0 \in Values
      BY DEF Values
    <2>1. CASE AsksForNonce(r)
      BY <2>1 DEF AsksForNonce
    <2>2. CASE handleChangeState(r)
      BY <2>2 DEF handleChangeState
    <2>3. CASE updateNonceCommand(r)
      BY <2>3 DEF updateNonceCommand
    <2>4. CASE create(r)
      BY <2>4 DEF create
    <2>5. CASE FindAvailable(r)
      BY <2>5 DEF FindAvailable
    <2>6. CASE NoneAvailable(r)
      BY <2>6, <2>0 DEF NoneAvailable
    <2>7. CASE getNonce(r)
      <3>1. held[r] \in Nonces
        BY <2>7 DEF getNonce
      <3>2. CASE nonceRow[held[r]].status = "Available"
        <4>1. nonceRow' = [nonceRow EXCEPT ![held[r]].status = "InUse"]
          BY <2>7, <3>2 DEF getNonce
        <4>2. nonceRow' \in [Nonces -> [status : NonceStatus, nonce : Values]]
          BY <4>1, <3>1
        <4>3. nonceRow[held[r]].nonce \in Values
          BY <3>1
        <4> QED BY <2>7, <3>1, <3>2, <4>2, <4>3 DEF getNonce
      <3>3. CASE nonceRow[held[r]].status # "Available"
        BY <2>7, <3>3, <2>0 DEF getNonce
      <3> QED BY <3>2, <3>3
    <2>8. CASE SendTransaction(r)
      BY <2>8, <2>0, SMTT(60) DEF SendTransaction, SignedWith
    <2>9. CASE SendThrows(r)
      BY <2>9, <2>0 DEF SendThrows
    <2>10. CASE Confirmed(r)
      BY <2>10 DEF Confirmed
    <2>11. CASE GivesUp(r)
      BY <2>11, <2>0, SMTT(60) DEF GivesUp
    <2>12. CASE fetchNonceAccount(r)
      BY <2>12 DEF fetchNonceAccount
    <2>13. CASE updateNonce(r)
      <3>1. held[r] \in Nonces /\ known[r] \in Values
        BY <2>13 DEF updateNonce
      <3>2. nonceRow' \in [Nonces -> [status : NonceStatus, nonce : Values]]
        BY <2>13, <3>1 DEF updateNonce
      <3>3. early' \subseteq Nonces
        BY <2>13, <3>1 DEF updateNonce
      <3>4. CASE nop[r] = "retry"
        BY <2>13, <3>1, <3>2, <3>3, <3>4 DEF updateNonce
      <3>5. CASE nop[r] # "retry"
        <4>1. NonceEnds(r) /\ UNCHANGED <<chainNonce, sent, landed>>
          BY <2>13, <3>5 DEF updateNonce
        <4> QED BY <4>1, <2>0, <3>2, <3>3
      <3> QED BY <3>4, <3>5
    <2>14. CASE UpdateThrows(r)
      BY <2>14, <2>0 DEF UpdateThrows
    <2> QED BY <1>3, <2>1, <2>2, <2>3, <2>4, <2>5, <2>6, <2>7, <2>8, <2>9, <2>10,
              <2>11, <2>12, <2>13, <2>14 DEF NonceStep
  <1> QED BY <1>1, <1>2, <1>3 DEF NoncesNext

\* Taking, sending with and returning a nonce keep it exclusive: a step that makes
\* one signable finds it free, and a step that frees one finds it nobody's.
LEMMA NextExclusive ==
    ASSUME NonceInv, [NoncesNext]_nonceVars, NoncesTypeOK'
    PROVE  SentCurrent' /\ Free' /\ NoncesExclusive'
  <1> USE DEF NonceInv, NoncesTypeOK, Holding, SentCurrent, Free, NoncesExclusive,
              Signing, Outstanding, NonceGoes, NonceEnds
  <1>1. CASE UNCHANGED nonceVars
    BY <1>1 DEF nonceVars
  <1>2. ASSUME NEW t \in sent, Lands(t) PROVE SentCurrent' /\ Free' /\ NoncesExclusive'
    <2>1. /\ t.address \in Nonces /\ \A u \in sent' : u \in sent /\ u.address # t.address
          /\ t \in Outstanding(t.address)
      BY <1>2 DEF Lands
    <2>2. \A n \in Nonces : n # t.address => chainNonce'[n] = chainNonce[n]
      BY <1>2 DEF Lands
    <2>3. SentCurrent'
      BY <1>2, <2>1, <2>2 DEF Lands
    <2>4. Free'
      BY <1>2, <2>1, <2>2 DEF Lands
    <2>5. NoncesExclusive'
      BY <1>2, <2>1, <2>2 DEF Lands
    <2> QED BY <2>3, <2>4, <2>5
  <1>3. ASSUME NEW r \in NonceRequests, NonceStep(r)
        PROVE  SentCurrent' /\ Free' /\ NoncesExclusive'
    <2>1. CASE AsksForNonce(r)
      BY <2>1 DEF AsksForNonce
    <2>2. CASE handleChangeState(r)
      BY <2>2 DEF handleChangeState
    <2>3. CASE updateNonceCommand(r)
      BY <2>3 DEF updateNonceCommand
    <2>4. CASE create(r)
      BY <2>4 DEF create
    <2>5. CASE FindAvailable(r)
      BY <2>5 DEF FindAvailable
    <2>6. CASE NoneAvailable(r)
      BY <2>6 DEF NoneAvailable
    <2>7. CASE getNonce(r)
      <3> DEFINE n0 == held[r]
      <3>1. /\ UNCHANGED <<chainNonce, sent, early>> /\ n0 \in Nonces
            /\ ~Signing(r, n0)
        BY <2>7 DEF getNonce
      <3>2. CASE nonceRow[n0].status = "Available"
        <4>1. /\ nonceRow' = [nonceRow EXCEPT ![n0].status = "InUse"]
              /\ npc' = [npc EXCEPT ![r] = "send"] /\ held' = held
          BY <2>7, <3>2 DEF getNonce
        <4>2. \A n \in Nonces : nonceRow'[n].status = "Available" =>
                 n # n0 /\ nonceRow'[n] = nonceRow[n]
          BY <4>1, <3>1
        <4>3. \A q \in NonceRequests, n \in Nonces :
                 Signing(q, n)' => Signing(q, n) \/ (q = r /\ n = n0)
          BY <4>1
        <4>4. \A n \in Nonces : Outstanding(n)' = Outstanding(n)
          BY <3>1
        <4>5. SentCurrent'
          BY <3>1
        <4>6. Free'
          BY <3>1, <4>2, <4>3, <4>4
        <4>7. NoncesExclusive'
          <5> SUFFICES ASSUME NEW n \in Nonces \ early'
                       PROVE  /\ \A t, u \in Outstanding(n)' : t = u
                              /\ \A p, q \in NonceRequests :
                                   Signing(p, n)' /\ Signing(q, n)' => p = q
                              /\ \A q \in NonceRequests : Signing(q, n)' => Outstanding(n)' = {}
            BY DEF NoncesExclusive
          <5>1. n \in Nonces \ early /\ Outstanding(n)' = Outstanding(n)
            BY <3>1, <4>4
          <5>2. \A t, u \in Outstanding(n) : t = u
            BY <5>1
          <5>3. CASE n = n0
            <6>1. Outstanding(n) = {} /\ \A q \in NonceRequests : ~Signing(q, n)
              BY <3>2, <5>1, <5>3
            <6>2. \A q \in NonceRequests : Signing(q, n)' => q = r
              BY <4>3, <6>1
            <6> QED BY ONLY <5>1, <6>1, <6>2
          <5>4. CASE n # n0
            <6>1. \A q \in NonceRequests : Signing(q, n)' => Signing(q, n)
              BY <4>3, <5>4
            <6>2. /\ \A p, q \in NonceRequests : Signing(p, n) /\ Signing(q, n) => p = q
                  /\ \A q \in NonceRequests : Signing(q, n) => Outstanding(n) = {}
              BY <5>1
            <6> QED BY ONLY <5>1, <5>2, <6>1, <6>2
          <5> QED BY <5>3, <5>4
        <4> QED BY <4>5, <4>6, <4>7
      <3>3. CASE nonceRow[n0].status # "Available"
        BY <2>7, <3>3 DEF getNonce
      <3> QED BY <3>2, <3>3
    <2>8. CASE SendTransaction(r)
      <3> DEFINE n0 == held[r]
      <3>1. /\ UNCHANGED <<chainNonce, nonceRow, early>> /\ n0 \in Nonces
            /\ Signing(r, n0) /\ npc'[r] # "send"
            /\ \A q \in NonceRequests : q # r => npc'[q] = npc[q] /\ held'[q] = held[q]
        BY <2>8 DEF SendTransaction
      <3>2. /\ sent \subseteq sent'
            /\ \A t \in sent' : t \in sent \/ (t = SignedWith(r) /\ t.address = n0
                                             /\ t.nonce = chainNonce[n0])
        BY <2>8, <3>1 DEF SendTransaction, SignedWith
      <3>3. \A q \in NonceRequests, n \in Nonces : Signing(q, n)' => Signing(q, n) /\ q # r
        BY <3>1
      <3>4. \A n \in Nonces : n # n0 => Outstanding(n)' = Outstanding(n)
        BY <3>1, <3>2
      <3>5. \A n \in Nonces : \A t \in Outstanding(n)' : t \in Outstanding(n) \/ t = SignedWith(r)
        BY <3>1, <3>2
      <3>6. SentCurrent'
        BY <3>1, <3>2
      <3>7. Free'
        <4> SUFFICES ASSUME NEW n \in Nonces \ early', nonceRow'[n].status = "Available"
                     PROVE  /\ nonceRow'[n].nonce = chainNonce'[n]
                            /\ Outstanding(n)' = {}
                            /\ \A q \in NonceRequests : ~Signing(q, n)'
          BY DEF Free
        <4>1. n # n0
          BY <3>1
        <4> QED BY <3>1, <3>3, <3>4, <4>1
      <3>8. NoncesExclusive'
        <4> SUFFICES ASSUME NEW n \in Nonces \ early'
                     PROVE  /\ \A t, u \in Outstanding(n)' : t = u
                            /\ \A p, q \in NonceRequests :
                                 Signing(p, n)' /\ Signing(q, n)' => p = q
                            /\ \A q \in NonceRequests : Signing(q, n)' => Outstanding(n)' = {}
          BY DEF NoncesExclusive
        <4>1. /\ \A t, u \in Outstanding(n) : t = u
              /\ \A p, q \in NonceRequests : Signing(p, n) /\ Signing(q, n) => p = q
              /\ \A q \in NonceRequests : Signing(q, n) => Outstanding(n) = {}
          BY <3>1
        <4>2. CASE n = n0
          <5>1. Outstanding(n) = {}
            BY <3>1, <4>1, <4>2
          <5>2. \A q \in NonceRequests : ~Signing(q, n)'
            BY <3>1, <3>3, <4>1, <4>2
          <5>3. \A t, u \in Outstanding(n)' : t = u
            BY <3>5, <5>1
          <5> QED BY ONLY <5>2, <5>3
        <4>3. CASE n # n0
          <5>1. Outstanding(n)' = Outstanding(n)
            BY <3>4, <4>3
          <5> QED BY ONLY <3>3, <4>1, <5>1
        <4> QED BY <4>2, <4>3
      <3> QED BY <3>6, <3>7, <3>8
    <2>9. CASE SendThrows(r)
      BY <2>9 DEF SendThrows
    <2>10. CASE Confirmed(r)
      BY <2>10 DEF Confirmed
    <2>11. CASE GivesUp(r)
      <3>1. \A q \in NonceRequests, n \in Nonces : Signing(q, n)' => Signing(q, n)
        BY <2>11 DEF GivesUp
      <3>2. UNCHANGED <<chainNonce, nonceRow, sent, early>>
        BY <2>11 DEF GivesUp
      <3>3. \A n \in Nonces : Outstanding(n)' = Outstanding(n)
        BY <3>2
      <3> QED BY ONLY <3>1, <3>2, <3>3, NonceInv
              DEF NonceInv, SentCurrent, Free, NoncesExclusive
    <2>12. CASE fetchNonceAccount(r)
      BY <2>12 DEF fetchNonceAccount
    <2>13. CASE updateNonce(r)
      <3> DEFINE n0 == held[r]
      <3>1. /\ UNCHANGED <<chainNonce, sent>> /\ n0 \in Nonces /\ early \subseteq early'
            /\ ~Signing(r, n0) /\ npc'[r] # "send"
            /\ nonceRow' = [nonceRow EXCEPT ![n0] = [status |-> "Available", nonce |-> known[r]]]
            /\ Premature(r) => n0 \in early'
            /\ \A q \in NonceRequests : q # r => npc'[q] = npc[q] /\ held'[q] = held[q]
        BY <2>13 DEF updateNonce
      <3>2. \A q \in NonceRequests, n \in Nonces : Signing(q, n)' => Signing(q, n) /\ q # r
        BY <3>1
      <3>3. \A n \in Nonces : Outstanding(n)' = Outstanding(n)
        BY <3>1
      <3>4. /\ nonceRow'[n0].nonce = known[r]
            /\ \A n \in Nonces : n # n0 => nonceRow'[n] = nonceRow[n]
        BY <3>1
      <3>5. SentCurrent'
        BY <3>1
      <3>6. Free'
        BY ONLY <3>1, <3>2, <3>3, <3>4, NonceInv DEF NonceInv, Free, Premature
      <3>7. NoncesExclusive'
        BY ONLY <3>1, <3>2, <3>3, NonceInv DEF NonceInv, NoncesExclusive
      <3> QED BY <3>5, <3>6, <3>7
    <2>14. CASE UpdateThrows(r)
      BY <2>14 DEF UpdateThrows
    <2> QED BY <1>3, <2>1, <2>2, <2>3, <2>4, <2>5, <2>6, <2>7, <2>8, <2>9, <2>10,
              <2>11, <2>12, <2>13, <2>14 DEF NonceStep
  <1> QED BY <1>1, <1>2, <1>3 DEF NoncesNext

LEMMA NoncesInitInv == NoncesInit => NonceInv
  BY NoncesAssumption DEF NoncesInit, NonceInv, NoncesTypeOK, Holding, SentCurrent, Free,
     NoncesExclusive, Signing, Outstanding, Values, NonceUses, NonceStages, NonceStatus

\* The inductive invariant of the pool.
THEOREM NonceInvariance == NoncesSpec => []NonceInv
  <1>1. NonceInv /\ [NoncesNext]_nonceVars => NonceInv'
    BY NextNoncesType, NextExclusive DEF NonceInv
  <1> QED BY NoncesInitInv, <1>1, PTL DEF NoncesSpec

\* Rows, requests and transactions of the pool are well typed.
THEOREM NoncesTypeCorrect == NoncesSpec => []NoncesTypeOK
  BY NonceInvariance, PTL DEF NonceInv

\* No two transactions are signed with one value of a nonce, whatever interleaves and
\* fails, as long as nobody returned the account while it was in use.
THEOREM NoncesExclusiveAlways == NoncesSpec => []NoncesExclusive
  BY NonceInvariance, PTL DEF NonceInv

\* A row that says Available has the value of the chain.
THEOREM NoncesFreshAlways == NoncesSpec => []NoncesFresh
  <1>1. NonceInv => NoncesFresh
    BY DEF NonceInv, Free, NoncesFresh
  <1> QED BY NonceInvariance, <1>1, PTL
=============================================================================
