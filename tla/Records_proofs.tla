--------------------------- MODULE Records_proofs ---------------------------
(* Theorems about users, about the coupons of a candy machine, about the      *)
(* publication of an issue and about the sync of a wallet, for any number of  *)
(* them and of requests at once, and about the system of all of them.         *)
EXTENDS MCRecords, DurableNonces_proofs, Subscriptions_proofs, FiniteSetTheorems,
        WellFoundedInduction, TLAPS

UserRows ==
    [name : Names, email : Emails, verified : BOOLEAN, referrer : Users \cup {Nobody},
     left : Int, granted : Int, role : {"User", "Creator"}]

\* The first ids, and referrers among them
UsersSound ==
    /\ \E n \in Users : account \in [1..n -> UserRows]
    /\ \A u \in Known : account[u].referrer \in Known \cup {Nobody}

LinksSound == links \subseteq [user : Known, email : Emails]

IsJob(j) ==
    j = [stage |-> j.stage, kind |-> j.kind, user |-> j.user, name |-> j.name,
         email |-> j.email, ref |-> j.ref, found |-> j.found, old |-> j.old,
         number |-> j.number]

\* What a request knows where it is.  A link or Google vouches for the email a request
\* is about to write as verified.
JobSound(j) ==
    /\ IsJob(j)
    /\ j.stage \in {"check", "insert"} => j.name \in Names /\ j.email \in Emails
    /\ j.stage \in {"find", "refer", "emailCheck", "emailWrite", "nameCheck", "nameWrite",
                    "verify", "google", "channel", "role"} => j.user \in Known
    /\ j.stage = "refer" =>
         /\ j.found \in Known /\ j.found # j.user
         /\ j.number \in Int /\ (j.number > 0 \/ j.found \in overdrawn)
    /\ j.stage \in {"emailCheck", "emailWrite", "verify"} => j.email \in Emails
    /\ j.stage \in {"emailCheck", "emailWrite"} /\ j.kind = "update" =>
         j.old \in Emails /\ j.name \in Names \cup {Nobody}
    /\ j.stage \in {"nameCheck", "nameWrite"} => j.name \in Names
    /\ j.stage = "verify" \/ (j.stage = "emailCheck" /\ j.kind # "update") =>
         <<j.user, j.email>> \in proven
    /\ j.stage = "emailWrite" => j.kind = "update"
    /\ j.stage = "google" => <<j.user, j.email>> \in proven

JobsSound ==
    /\ job = [r \in AccountRequests |-> job[r]]
    /\ \A r \in AccountRequests : JobSound(job[r])

\* One request at most refers a user, who has no referrer before.
Refers(r) == job[r].stage \in {"find", "refer"}
Referring ==
    \A r \in AccountRequests : Refers(r) =>
        /\ account[job[r].user].referrer = Nobody
        /\ \A s \in AccountRequests : Refers(s) /\ job[s].user = job[r].user => s = r

AccountsInv ==
    /\ UsersSound /\ LinksSound /\ JobsSound /\ Referring
    /\ NamesDistinct /\ VerifiedProven /\ ReferralsCounted

-----------------------------------------------------------------------------
(* Requests                                                                *)

\* What was known, proven and overdrawn stays so.
Grows == Known \subseteq Known' /\ proven \subseteq proven' /\ overdrawn \subseteq overdrawn'

\* As many numbers from one on as the last one says
LEMMA UpTo ==
    ASSUME NEW k \in Nat
    PROVE  IsFiniteSet(1..k) /\ Cardinality(1..k) = k
  <1>1. 1 \in Int /\ k \in Int /\ k - 1 + 1 = k /\ (1 > k => k = 0)
    OBVIOUS
  <1>2. /\ IsFiniteSet(1..k)
        /\ Cardinality(1..k) = IF 1 > k THEN 0 ELSE k - 1 + 1
    BY <1>1, FS_Interval, Zenon
  <1> QED BY <1>1, <1>2

LEMMA JobKept ==
    ASSUME NEW j, JobSound(j), Grows
    PROVE  JobSound(j)'
  BY DEF JobSound, Grows, IsJob

LEMMA JobMoves ==
    ASSUME JobsSound, Grows, NEW r \in AccountRequests, NEW j, JobSound(j)',
           job' = [job EXCEPT ![r] = j]
    PROVE  JobsSound'
  <1>1. job' = [q \in AccountRequests |-> job'[q]] /\ job'[r] = j
    BY DEF JobsSound
  <1>2. ASSUME NEW q \in AccountRequests, q # r
        PROVE  JobSound(job[q])'
    <2>1. PICK k : k = job[q] /\ k = job'[q]
      BY <1>2 DEF JobsSound
    <2>2. JobSound(k)
      BY <2>1 DEF JobsSound
    <2>3. JobSound(k)'
      BY <2>2, JobKept
    <2> QED BY <2>1, <2>3
  <1> QED BY <1>1, <1>2 DEF JobsSound

LEMMA DoneSound == JobSound(Without("done"))
  BY DEF JobSound, IsJob, Without, Job

\* A request that has no more to do than its last stage
LEMMA JobEnds ==
    ASSUME JobsSound, Grows, NEW r \in AccountRequests, Becomes(r, "done")
    PROVE  JobsSound' /\ ~Refers(r)'
  <1>1. PICK j : j = Without("done") /\ JobSound(j)
    BY DoneSound
  <1>2. job' = [job EXCEPT ![r] = j]
    BY <1>1 DEF Becomes, Having
  <1>3. JobSound(j)'
    BY <1>1, JobKept
  <1>4. JobsSound'
    BY <1>2, <1>3, JobMoves
  <1> QED BY <1>1, <1>2, <1>4 DEF JobsSound, Refers, Without, Job

-----------------------------------------------------------------------------
(* Steps                                                                   *)

WritesAccount(r) ==
    \/ InsertUser(r) \/ ApplyReferral(r) \/ WriteEmail(r) \/ WriteName(r) \/ WriteVerified(r)
    \/ WriteGoogle(r) \/ processUserEmailVerification(r) \/ WriteRole(r)

\* The steps that only read users; an answer from a mailbox adds to what is proven.
LEMMA StepReads ==
    ASSUME NEW r \in AccountRequests, AccountStep(r), ~WritesAccount(r)
    PROVE  UNCHANGED <<account, twins, mistaken, overdrawn>> /\ proven \subseteq proven'
  <1>1. CASE register(r) \/ CheckRegistration(r) \/ InsertRefused(r) \/ FindReferrer(r)
    BY <1>1 DEF register, CheckRegistration, InsertRefused, FindReferrer, histories
  <1>2. CASE update(r) \/ CheckEmail(r) \/ CheckName(r) \/ requestEmailVerification(r)
             \/ requestEmailChange(r) \/ verifyEmail(r) \/ handleGoogleSignIn(r)
    BY <1>2 DEF update, CheckEmail, CheckName, requestEmailVerification, requestEmailChange,
       verifyEmail, handleGoogleSignIn, histories
  <1>3. CASE createChannel(r) \/ InsertChannel(r) \/ RoleLost(r) \/ expressUserInterest(r)
             \/ FindCampaignReferrer(r) \/ ApplyCampaignReferral(r)
    BY <1>3 DEF createChannel, InsertChannel, RoleLost, expressUserInterest,
       FindCampaignReferrer, ApplyCampaignReferral, histories
  <1> QED BY <1>1, <1>2, <1>3 DEF AccountStep, WritesAccount

\* One row is written, and of its columns not the referrals.
WritesRow(u, new) ==
    /\ account' = [account EXCEPT ![u] = new]
    /\ new.referrer = account[u].referrer /\ new.left = account[u].left
    /\ new.granted = account[u].granted

LEMMA RowsTyped ==
    ASSUME UsersSound
    PROVE  \A u \in Known : account[u] \in UserRows
  BY DEF UsersSound, Known

LEMMA RowWritten ==
    ASSUME UsersSound, JobsSound, NEW r \in AccountRequests, WritesAccount(r),
           ~InsertUser(r), ~ApplyReferral(r)
    PROVE  \E u \in Known, new \in UserRows :
             WritesRow(u, new) /\ (new.name = account[u].name \/ WriteName(r))
  <1> USE DEF WritesRow, UserRows, JobsSound, JobSound
  <1>1. ASSUME NEW u \in Known, UNCHANGED account
        PROVE  WritesRow(u, account[u])
    BY <1>1 DEF UsersSound, Known
  <1>2. CASE WriteEmail(r)
    <2>1. job[r].user \in Known /\ job[r].email \in Emails
      BY <1>2 DEF WriteEmail
    <2> DEFINE u == job[r].user
               new == [account[u] EXCEPT !.email = job[r].email, !.verified = FALSE]
    <2>2. new \in UserRows /\ new.name = account[u].name /\ account[u] \in UserRows
      BY <2>1, RowsTyped
    <2>3. account' = [account EXCEPT ![u] = new] \/ UNCHANGED account
      BY <1>2 DEF WriteEmail
    <2> QED BY <1>1, <2>1, <2>2, <2>3
  <1>3. CASE WriteName(r)
    <2>1. job[r].user \in Known /\ job[r].name \in Names
      BY <1>3 DEF WriteName
    <2> DEFINE u == job[r].user
               new == [account[u] EXCEPT !.name = job[r].name]
    <2>2. new \in UserRows /\ account[u] \in UserRows
      BY <2>1, RowsTyped
    <2>3. account' = [account EXCEPT ![u] = new] \/ UNCHANGED account
      BY <1>3 DEF WriteName
    <2> QED BY <1>1, <1>3, <2>1, <2>2, <2>3
  <1>4. CASE WriteVerified(r)
    <2>1. job[r].user \in Known /\ job[r].email \in Emails
      BY <1>4 DEF WriteVerified
    <2> DEFINE u == job[r].user
               new == [account[u] EXCEPT !.email = job[r].email, !.verified = TRUE]
    <2>2. new \in UserRows /\ new.name = account[u].name /\ account[u] \in UserRows
      BY <2>1, RowsTyped
    <2>3. account' = [account EXCEPT ![u] = new] \/ UNCHANGED account
      BY <1>4 DEF WriteVerified
    <2> QED BY <1>1, <2>1, <2>2, <2>3
  <1>5. ASSUME NEW u \in Known, account' = [account EXCEPT ![u].verified = TRUE]
        PROVE  \E new \in UserRows : WritesRow(u, new) /\ new.name = account[u].name
    <2> DEFINE new == [account[u] EXCEPT !.verified = TRUE]
    <2>1. new \in UserRows /\ new.name = account[u].name
      BY RowsTyped
    <2>2. account' = [account EXCEPT ![u] = new]
      BY <1>5
    <2> QED BY <2>1, <2>2, RowsTyped
  <1>6. CASE WriteGoogle(r)
    <2>1. PICK u \in Known : account' = [account EXCEPT ![u].verified = TRUE]
      BY <1>6 DEF WriteGoogle
    <2> QED BY ONLY <1>5, <2>1
  <1>7. CASE processUserEmailVerification(r)
    <2>1. PICK u \in Known : account' = [account EXCEPT ![u].verified = TRUE]
      BY <1>7 DEF processUserEmailVerification
    <2> QED BY ONLY <1>5, <2>1
  <1>8. CASE WriteRole(r)
    <2>1. job[r].user \in Known
      BY <1>8 DEF WriteRole
    <2> DEFINE u == job[r].user
               new == [account[u] EXCEPT !.role = "Creator"]
    <2>2. new \in UserRows /\ new.name = account[u].name /\ account[u] \in UserRows
      BY <2>1, RowsTyped
    <2>3. account' = [account EXCEPT ![u] = new]
      BY <1>8 DEF WriteRole
    <2> QED BY <2>1, <2>2, <2>3
  <1> QED BY <1>2, <1>3, <1>4, <1>6, <1>7, <1>8 DEF WritesAccount

\* Columns that a step leaves alone
LEMMA KnownSame ==
    ASSUME UsersSound, JobsSound, NEW r \in AccountRequests, AccountStep(r), ~InsertUser(r)
    PROVE  /\ Known' = Known
           /\ \A v \in Known : /\ account'[v].granted = account[v].granted
                               /\ ~ApplyReferral(r) => /\ account'[v].referrer = account[v].referrer
                                                       /\ account'[v].left = account[v].left
                               /\ ~WriteName(r) => account'[v].name = account[v].name
  <1>1. CASE ApplyReferral(r)
    BY <1>1, RowsTyped, SMTT(60) DEF ApplyReferral, UserRows, UsersSound, Known
  <1>2. CASE WritesAccount(r) /\ ~ApplyReferral(r)
    BY <1>2, RowWritten, RowsTyped DEF WritesRow, UsersSound, Known
  <1>3. CASE ~WritesAccount(r)
    BY <1>3, StepReads DEF Known
  <1> QED BY <1>1, <1>2, <1>3, ZenonT(60)

\* The next id is not known.
LEMMA NextIdIs ==
    ASSUME UsersSound
    PROVE  /\ NextId \notin Known /\ IsFiniteSet(Known)
           /\ \A n \in Users : Known = 1..n => NextId = n + 1
  <1>1. PICK n \in Users : Known = 1..n
    BY DEF UsersSound, Known
  <1>2. n \in Nat /\ n >= 1
    BY AccountsAssumption DEF Users
  <1>3. IsFiniteSet(1..n) /\ Cardinality(1..n) = n
    BY <1>2, UpTo
  <1>4. ASSUME NEW m \in Users, Known = 1..m
        PROVE  m = n
    BY <1>1, <1>2, <1>4, AccountsAssumption DEF Users
  <1> QED BY <1>1, <1>2, <1>3, <1>4 DEF NextId

LEMMA Inserted ==
    ASSUME UsersSound, JobsSound, NEW r \in AccountRequests, InsertUser(r)
    PROVE  /\ Known' = Known \cup {NextId} /\ NextId \in Users
           /\ \A v \in Known : account'[v] = account[v]
           /\ \E google \in BOOLEAN :
                /\ account'[NextId] = UserRow(job[r].name, job[r].email, google, 0)
                /\ google => <<NextId, job[r].email>> \in proven'
           /\ job[r].name \in Names /\ job[r].email \in Emails
           /\ proven \subseteq proven'
  <1>1. job[r].name \in Names /\ job[r].email \in Emails
    BY DEF InsertUser, JobsSound, JobSound
  <1>2. NextId \notin Known
    BY NextIdIs
  <1> QED BY <1>1, <1>2 DEF InsertUser, Known

LEMMA GrowsAlways ==
    ASSUME UsersSound, JobsSound, NEW r \in AccountRequests, AccountStep(r)
    PROVE  Grows
  <1>1. CASE InsertUser(r)
    BY <1>1, Inserted DEF InsertUser, Grows
  <1>2. CASE WritesAccount(r) /\ ~InsertUser(r)
    BY <1>2, KnownSame DEF WritesAccount, Grows, ApplyReferral, WriteEmail, WriteName,
       WriteVerified, WriteGoogle, processUserEmailVerification, WriteRole, histories
  <1>3. CASE ~WritesAccount(r)
    BY <1>3, StepReads DEF Grows, Known
  <1> QED BY <1>1, <1>2, <1>3

LEMMA UsersStep ==
    ASSUME UsersSound, JobsSound, NEW r \in AccountRequests, AccountStep(r)
    PROVE  UsersSound'
  <1>1. PICK n \in Users : account \in [1..n -> UserRows]
    BY DEF UsersSound
  <1>2. Known = 1..n /\ \A u \in Known : account[u] \in UserRows
    BY <1>1 DEF Known
  <1> USE DEF JobsSound, JobSound
  <1>4. CASE InsertUser(r)
    <2>1. NextId = n + 1
      BY <1>2, NextIdIs
    <2>8. n \in Nat /\ n >= 1 /\ Known' = Known \cup {n + 1}
      <3>1. n \in Nat /\ n >= 1
        BY AccountsAssumption DEF Users
      <3> QED BY <1>4, <2>1, <3>1, Inserted
    <2>2. Known' = 1..NextId
      <3>1. 1..(n + 1) = 1..n \cup {n + 1}
        BY <2>8
      <3> QED BY <1>2, <2>1, <2>8, <3>1
    <2>9. job[r].name \in Names /\ job[r].email \in Emails
      BY <1>4, Inserted
    <2>3. PICK google \in BOOLEAN :
            account'[NextId] = UserRow(job[r].name, job[r].email, google, 0)
      BY <1>4, Inserted
    <2>4. account'[NextId] \in UserRows /\ account'[NextId].referrer = Nobody
      BY <2>3, <2>9 DEF UserRow, UserRows
    <2>5. account' = [u \in Known' |-> account'[u]]
      BY <1>4 DEF InsertUser, Known
    <2>6. \A u \in Known' : account'[u] \in UserRows
      BY <1>2, <1>4, <2>4, Inserted
    <2>7. account' \in [1..NextId -> UserRows]
      BY <2>2, <2>5, <2>6
    <2> QED BY <1>4, <2>4, <2>7, Inserted DEF UsersSound
  <1>5. CASE ApplyReferral(r)
    <2>1. job[r].user \in Known /\ job[r].found \in Known /\ job[r].found # job[r].user
      BY <1>5 DEF ApplyReferral
    <2>2. account' = [account EXCEPT ![job[r].user].referrer = job[r].found,
                                     ![job[r].found].left = @ - 1]
      BY <1>5 DEF ApplyReferral
    <2>3. Known' = Known
      BY <2>2 DEF Known
    <2>4. ASSUME NEW v \in Known
          PROVE  account'[v] \in UserRows /\ account'[v].referrer \in Known \cup {Nobody}
      <3>1. account[v] \in UserRows /\ account[v].referrer \in Known \cup {Nobody}
        BY <1>2 DEF UsersSound
      <3>2. v \in DOMAIN account
        BY DEF Known
      <3>3. CASE v = job[r].user
        <4>1. account'[v] = [account[v] EXCEPT !.referrer = job[r].found]
          BY <2>1, <2>2, <3>2, <3>3 DEF Known
        <4>2. job[r].found \in Users
          BY <1>2, <2>1, AccountsAssumption DEF Users
        <4> QED BY <2>1, <3>1, <4>1, <4>2 DEF UserRows
      <3>4. CASE v = job[r].found
        <4>1. account'[v] = [account[v] EXCEPT !.left = account[v].left - 1]
          BY <2>1, <2>2, <3>2, <3>4 DEF Known
        <4> QED BY <3>1, <4>1 DEF UserRows
      <3>5. CASE v # job[r].user /\ v # job[r].found
        BY <2>2, <3>1, <3>2, <3>5
      <3> QED BY <3>3, <3>4, <3>5
    <2> QED BY <1>1, <1>2, <2>2, <2>3, <2>4 DEF UsersSound
  <1>6. CASE WritesAccount(r) /\ ~InsertUser(r) /\ ~ApplyReferral(r)
    <2>1. PICK u \in Known, new \in UserRows : WritesRow(u, new)
      BY <1>6, RowWritten
    <2>2. account' = [account EXCEPT ![u] = new] /\ new.referrer = account[u].referrer
      BY <2>1 DEF WritesRow
    <2>3. account' \in [1..n -> UserRows] /\ Known' = Known
      BY <1>1, <2>2 DEF Known
    <2>4. \A v \in Known : account'[v].referrer = account[v].referrer
      BY <1>1, <1>2, <2>2
    <2> QED BY <2>3, <2>4 DEF UsersSound
  <1>7. CASE ~WritesAccount(r)
    BY <1>7, StepReads DEF UsersSound, Known
  <1> QED BY <1>4, <1>5, <1>6, <1>7

-----------------------------------------------------------------------------
(* What a request goes on with                                             *)

LEMMA JobGoes ==
    ASSUME JobsSound, Grows, NEW r \in AccountRequests, NEW j, NEW stage, Having(r, j, stage),
           stage = "done" \/ JobSound([j EXCEPT !.stage = stage])'
    PROVE  JobsSound'
  <1>1. PICK k : k = IF stage = "done" THEN Without("done") ELSE [j EXCEPT !.stage = stage]
    OBVIOUS
  <1>2. job' = [job EXCEPT ![r] = k]
    BY <1>1 DEF Having
  <1>3. JobSound(k)'
    BY <1>1, DoneSound, JobKept
  <1> QED BY <1>2, <1>3, JobMoves

LEMMA JobsStep ==
    ASSUME AccountsInv, NEW r \in AccountRequests, AccountStep(r)
    PROVE  JobsSound'
  <1> USE DEF Becomes, Asks
  <1>1. JobsSound /\ Grows /\ UsersSound /\ LinksSound
    BY GrowsAlways DEF AccountsInv
  <1>2. JobSound(job[r])
    BY <1>1 DEF JobsSound
  <1>3. PICK j : j = job[r] /\ JobSound(j)
    BY <1>2
  <1>4. CASE Becomes(r, "done")
    BY <1>1, <1>4, JobEnds
  <1>5. CASE register(r)
    <2>1. PICK n \in Names, e \in Emails, ref \in Names \cup {Nobody},
               kind \in {"register", "registerGoogle"} :
            Having(r, Job("idle", kind, Nobody, n, e, ref), "check")
      BY <1>5 DEF register
    <2>2. PICK k : k = Job("idle", kind, Nobody, n, e, ref)
      OBVIOUS
    <2>3. JobSound([k EXCEPT !.stage = "check"])'
      BY <2>2 DEF Job, JobSound, IsJob
    <2> QED BY <1>1, <2>1, <2>2, <2>3, JobGoes
  <1>6. CASE CheckRegistration(r) /\ ~Becomes(r, "done")
    <2>1. JobSound([j EXCEPT !.stage = "insert"])'
      BY <1>3, <1>6 DEF CheckRegistration, JobSound, IsJob
    <2> QED BY <1>1, <1>3, <1>6, <2>1, JobGoes DEF CheckRegistration
  <1>7. CASE InsertUser(r)
    <2>1. NextId \in Known'
      BY <1>1, <1>7, Inserted
    <2>2. PICK k : k = [j EXCEPT !.user = NextId]
      OBVIOUS
    <2>3. IsJob(k) /\ k.user = NextId
      BY <1>3, <2>2 DEF JobSound, IsJob
    <2>4. JobSound([k EXCEPT !.stage = "find"])'
      BY <2>1, <2>3 DEF JobSound, IsJob
    <2> QED BY <1>1, <1>3, <1>7, <2>2, <2>4, JobGoes DEF InsertUser
  <1>8. CASE FindReferrer(r) /\ ~Becomes(r, "done")
    <2>1. PICK u \in ByName(job[r].ref) :
            /\ u # job[r].user /\ account[u].left # 0
            /\ Having(r, [job[r] EXCEPT !.found = u, !.number = account[u].left], "refer")
      BY <1>8 DEF FindReferrer
    <2>2. u \in Known /\ account[u].left \in Int
      BY <1>1, RowsTyped DEF ByName, UserRows
    <2>3. account[u].left > 0 \/ u \in overdrawn
      <3>1. account[u].left >= 0 \/ u \in overdrawn
        BY <2>2 DEF AccountsInv, ReferralsCounted
      <3> QED BY <2>1, <2>2, <3>1
    <2>4. PICK k : k = [j EXCEPT !.found = u, !.number = account[u].left]
      OBVIOUS
    <2>5. j.user \in Known /\ j.user # u
      BY <1>3, <1>8, <2>1 DEF FindReferrer, JobSound
    <2>6. /\ IsJob(k) /\ k.found = u /\ k.number = account[u].left /\ k.user = j.user
      BY <1>3, <2>4 DEF JobSound, IsJob
    <2>7. JobSound([k EXCEPT !.stage = "refer"])
      BY <2>2, <2>3, <2>5, <2>6 DEF JobSound, IsJob
    <2>8. JobSound([k EXCEPT !.stage = "refer"])'
      BY <1>1, <2>7, JobKept
    <2> QED BY <1>1, <1>3, <2>1, <2>4, <2>8, JobGoes
  <1>9. CASE update(r)
    <2>1. PICK u \in Known, email \in Emails \cup {Nobody}, name \in Names \cup {Nobody} :
            /\ email # Nobody \/ name # Nobody
            /\ Having(r, [Job("idle", "update", u, name, email, Nobody)
                            EXCEPT !.old = account[u].email],
                      IF email # Nobody THEN "emailCheck" ELSE "nameCheck")
      BY <1>9, SMTT(60) DEF update, OrNobody
    <2>2. PICK k : k = [Job("idle", "update", u, name, email, Nobody)
                          EXCEPT !.old = account[u].email]
      OBVIOUS
    <2>3. account[u].email \in Emails
      BY <1>1, RowsTyped DEF UserRows
    <2>4. /\ IsJob(k) /\ k.kind = "update" /\ k.user = u /\ k.name = name /\ k.email = email
          /\ k.old = account[u].email
      BY <2>2 DEF Job, IsJob
    <2>5. email # Nobody => JobSound([k EXCEPT !.stage = "emailCheck"])'
      BY <1>1, <2>3, <2>4 DEF JobSound, IsJob, Grows
    <2>6. email = Nobody => JobSound([k EXCEPT !.stage = "nameCheck"])'
      BY <1>1, <2>1, <2>3, <2>4 DEF JobSound, IsJob, Grows
    <2> QED BY <1>1, <2>1, <2>2, <2>5, <2>6, JobGoes
  <1>10. CASE CheckEmail(r) /\ ~Becomes(r, "done")
    <2>1. j.kind = "update" => JobSound([j EXCEPT !.stage = "emailWrite"])'
      BY <1>1, <1>3, <1>10 DEF CheckEmail, JobSound, IsJob, Grows
    <2>2. j.kind # "update" => JobSound([j EXCEPT !.stage = "verify"])'
      BY <1>1, <1>3, <1>10 DEF CheckEmail, JobSound, IsJob, Grows
    <2> QED BY <1>1, <1>3, <1>10, <2>1, <2>2, JobGoes DEF CheckEmail
  <1>11. CASE WriteEmail(r) /\ ~Becomes(r, "done")
    <2>1. j.name # Nobody => JobSound([j EXCEPT !.stage = "nameCheck"])'
      BY <1>1, <1>3, <1>11 DEF WriteEmail, JobSound, IsJob, Grows
    <2> QED BY <1>1, <1>3, <1>11, <2>1, JobGoes DEF WriteEmail
  <1>12. CASE CheckName(r) /\ ~Becomes(r, "done")
    <2>1. JobSound([j EXCEPT !.stage = "nameWrite"])'
      BY <1>1, <1>3, <1>12 DEF CheckName, JobSound, IsJob, Grows
    <2> QED BY <1>1, <1>3, <1>12, <2>1, JobGoes DEF CheckName
  <1>13. CASE requestEmailVerification(r) \/ requestEmailChange(r)
              \/ processUserEmailVerification(r)
    <2>1. \E k : Having(r, k, "done")
      BY <1>13 DEF requestEmailVerification, requestEmailChange, processUserEmailVerification
    <2> QED BY <1>1, <2>1, JobGoes
  <1>14. CASE verifyEmail(r)
    <2>1. PICK l \in links, stage \in {"emailCheck", "done", "verify"} :
            /\ Having(r, Job("idle", "verify", l.user, Nobody, l.email, Nobody), stage)
            /\ proven' = proven \cup {<<l.user, l.email>>}
      BY <1>14 DEF verifyEmail
    <2>2. PICK k : k = Job("idle", "verify", l.user, Nobody, l.email, Nobody)
      OBVIOUS
    <2>3. l.user \in Known' /\ l.email \in Emails
      BY <1>1 DEF LinksSound, Grows
    <2>4. stage # "done" => JobSound([k EXCEPT !.stage = stage])'
      BY <2>1, <2>2, <2>3 DEF Job, JobSound, IsJob
    <2> QED BY <1>1, <2>1, <2>2, <2>4, JobGoes
  <1>15. CASE handleGoogleSignIn(r)
    <2>1. PICK u \in Known, stage \in {"google", "done"} :
            /\ Having(r, Job("idle", "google", u, Nobody, account[u].email, Nobody), stage)
            /\ proven' = proven \cup {<<u, account[u].email>>}
      BY <1>15 DEF handleGoogleSignIn, ByEmail
    <2>2. PICK k : k = Job("idle", "google", u, Nobody, account[u].email, Nobody)
      OBVIOUS
    <2>3. stage # "done" => JobSound([k EXCEPT !.stage = stage])'
      BY <1>1, <2>1, <2>2 DEF Job, JobSound, IsJob, Grows
    <2> QED BY <1>1, <2>1, <2>2, <2>3, JobGoes
  <1>16. CASE createChannel(r)
    <2>1. PICK u \in Known :
            Having(r, [Job("idle", "channel", u, Nobody, Nobody, Nobody)
                         EXCEPT !.number = createUniqueHandle], "channel")
      BY <1>16 DEF createChannel
    <2>2. PICK k : k = [Job("idle", "channel", u, Nobody, Nobody, Nobody)
                          EXCEPT !.number = createUniqueHandle]
      OBVIOUS
    <2>3. IsJob(k) /\ k.user = u
      BY <2>2 DEF Job, IsJob
    <2>4. JobSound([k EXCEPT !.stage = "channel"])'
      BY <1>1, <2>3 DEF JobSound, IsJob, Grows
    <2> QED BY <1>1, <2>1, <2>2, <2>4, JobGoes
  <1>17. CASE InsertChannel(r) /\ ~Becomes(r, "done")
    <2>1. JobSound([j EXCEPT !.stage = "role"])'
      BY <1>1, <1>3, <1>17 DEF InsertChannel, JobSound, IsJob, Grows
    <2> QED BY <1>1, <1>3, <1>17, <2>1, JobGoes DEF InsertChannel
  <1>18. CASE expressUserInterest(r)
    <2>1. PICK u \in Known, ref \in Names \cup {Nobody}, stage \in {"interest", "done"} :
            Having(r, Job("idle", "interest", u, Nobody, Nobody, ref), stage)
      BY <1>18 DEF expressUserInterest, OrNobody
    <2>2. PICK k : k = Job("idle", "interest", u, Nobody, Nobody, ref)
      OBVIOUS
    <2>3. stage # "done" => JobSound([k EXCEPT !.stage = stage])'
      BY <2>2 DEF Job, JobSound, IsJob
    <2> QED BY <1>1, <2>1, <2>2, <2>3, JobGoes
  <1>19. CASE FindCampaignReferrer(r) /\ ~Becomes(r, "done")
    <2>1. PICK u : Having(r, [job[r] EXCEPT !.found = u], "campaign")
      BY <1>19 DEF FindCampaignReferrer
    <2>2. PICK k : k = [j EXCEPT !.found = u]
      OBVIOUS
    <2>3. IsJob(k)
      BY <1>3, <2>2 DEF JobSound, IsJob
    <2>4. JobSound([k EXCEPT !.stage = "campaign"])'
      BY <2>3 DEF JobSound, IsJob
    <2> QED BY <1>1, <1>3, <2>1, <2>2, <2>4, JobGoes
  <1>20. CASE InsertRefused(r) \/ ApplyReferral(r) \/ WriteName(r) \/ WriteVerified(r)
              \/ WriteGoogle(r) \/ WriteRole(r) \/ RoleLost(r) \/ ApplyCampaignReferral(r)
    BY <1>4, <1>20, ZenonT(60) DEF InsertRefused, ApplyReferral, WriteName, WriteVerified, WriteGoogle,
       WriteRole, RoleLost, ApplyCampaignReferral
  <1> QED
    BY <1>4, <1>5, <1>6, <1>7, <1>8, <1>9, <1>10, <1>11, <1>12, <1>13, <1>14, <1>15, <1>16,
       <1>17, <1>18, <1>19, <1>20 DEF AccountStep

-----------------------------------------------------------------------------
(* Links and referrals                                                     *)

LEMMA LinksStep ==
    ASSUME AccountsInv, NEW r \in AccountRequests, AccountStep(r)
    PROVE  LinksSound'
  <1>1. LinksSound /\ Known \subseteq Known' /\ JobSound(job[r])
    BY GrowsAlways DEF AccountsInv, Grows, JobsSound
  <1>2. ASSUME NEW u \in Known', NEW e \in Emails,
               links' \subseteq links \cup {[user |-> u, email |-> e]}
        PROVE  LinksSound'
    BY <1>1, <1>2 DEF LinksSound
  <1>3. \A u \in Known : account[u].email \in Emails
    BY RowsTyped DEF AccountsInv, UserRows
  <1>4. CASE InsertUser(r)
    <2>1. NextId \in Known' /\ job[r].email \in Emails
      BY <1>4, Inserted DEF AccountsInv
    <2> QED BY <1>2, <1>4, <2>1 DEF InsertUser
  <1>5. CASE WriteEmail(r)
    <2>1. job[r].user \in Known' /\ job[r].old \in Emails
      BY <1>1, <1>5 DEF WriteEmail, JobSound
    <2> QED BY <1>1, <1>2, <1>5, <2>1 DEF WriteEmail, LinksSound
  <1>6. CASE requestEmailVerification(r)
    BY <1>1, <1>2, <1>3, <1>6 DEF requestEmailVerification
  <1>7. CASE requestEmailChange(r)
    BY <1>1, <1>2, <1>7 DEF requestEmailChange
  <1>8. CASE UNCHANGED links
    BY <1>1, <1>8 DEF LinksSound
  <1> QED
    BY <1>4, <1>5, <1>6, <1>7, <1>8 DEF AccountStep, register, CheckRegistration, InsertRefused,
       FindReferrer, ApplyReferral, update, CheckEmail, CheckName, WriteName, verifyEmail,
       WriteVerified, handleGoogleSignIn, WriteGoogle, processUserEmailVerification,
       createChannel, InsertChannel, WriteRole, RoleLost, expressUserInterest,
       FindCampaignReferrer, ApplyCampaignReferral

LEMMA HavingIs ==
    ASSUME JobsSound, NEW r \in AccountRequests, NEW j, IsJob(j), NEW stage, Having(r, j, stage)
    PROVE  /\ job'[r].stage = stage /\ (stage # "done" => job'[r].user = j.user)
           /\ \A s \in AccountRequests \ {r} : job'[s] = job[s]
  <1>1. r \in DOMAIN job
    BY DEF JobsSound
  <1>2. Without("done").stage = "done"
    BY DEF Without, Job
  <1>3. [j EXCEPT !.stage = stage].stage = stage /\ [j EXCEPT !.stage = stage].user = j.user
    BY DEF IsJob
  <1> QED BY <1>1, <1>2, <1>3 DEF Having, JobsSound

\* Only a new user begins to be referred.
LEMMA RefersOnly ==
    ASSUME JobsSound, NEW r \in AccountRequests, AccountStep(r)
    PROVE  /\ \A s \in AccountRequests \ {r} : job'[s] = job[s]
           /\ Refers(r)' => \/ InsertUser(r) /\ job'[r].user = NextId
                            \/ FindReferrer(r) /\ job'[r].user = job[r].user
  <1> USE DEF Becomes, Asks, Refers
  <1>1. IsJob(job[r])
    BY DEF JobsSound, JobSound
  <1>2. ASSUME NEW j, IsJob(j), NEW stage, Having(r, j, stage), stage \notin {"find", "refer"}
        PROVE  (\A s \in AccountRequests \ {r} : job'[s] = job[s]) /\ ~Refers(r)'
    BY <1>2, HavingIs
  <1>3. \A kind, user, name, email, ref : IsJob(Job("idle", kind, user, name, email, ref))
    BY DEF IsJob, Job
  <1>4. CASE InsertUser(r)
    <2>1. IsJob([job[r] EXCEPT !.user = NextId]) /\ [job[r] EXCEPT !.user = NextId].user = NextId
      BY <1>1 DEF IsJob
    <2>2. PICK j : j = [job[r] EXCEPT !.user = NextId]
      OBVIOUS
    <2>3. PICK stage \in {"done", "find"} : Having(r, j, stage)
      BY <1>4, <2>2 DEF InsertUser
    <2> QED BY <1>4, <2>1, <2>2, <2>3, HavingIs
  <1>5. CASE FindReferrer(r)
    <2>1. CASE Having(r, job[r], "done")
      BY <1>1, <1>2, <2>1
    <2>2. CASE ~Having(r, job[r], "done")
      <3>1. PICK u : Having(r, [job[r] EXCEPT !.found = u, !.number = account[u].left], "refer")
        BY <1>5, <2>2 DEF FindReferrer
      <3>2. PICK j : j = [job[r] EXCEPT !.found = u, !.number = account[u].left]
        OBVIOUS
      <3>3. IsJob(j) /\ j.user = job[r].user
        BY <1>1, <3>2 DEF IsJob
      <3> QED BY <1>5, <3>1, <3>2, <3>3, HavingIs
    <2> QED BY <2>1, <2>2
  <1>6. CASE register(r) \/ requestEmailVerification(r) \/ requestEmailChange(r) \/ verifyEmail(r)
             \/ handleGoogleSignIn(r) \/ processUserEmailVerification(r) \/ expressUserInterest(r)
    <2>1. PICK j, stage : IsJob(j) /\ Having(r, j, stage) /\ stage \notin {"find", "refer"}
      BY <1>3, <1>6 DEF register, requestEmailVerification, requestEmailChange, verifyEmail,
         handleGoogleSignIn, processUserEmailVerification, expressUserInterest
    <2> QED BY <1>2, <2>1
  <1>7. CASE CheckRegistration(r) \/ InsertRefused(r) \/ ApplyReferral(r) \/ CheckEmail(r)
             \/ WriteEmail(r) \/ CheckName(r) \/ WriteName(r) \/ WriteVerified(r)
             \/ WriteGoogle(r) \/ InsertChannel(r) \/ WriteRole(r) \/ RoleLost(r)
             \/ ApplyCampaignReferral(r)
    <2>1. PICK stage : Having(r, job[r], stage) /\ stage \notin {"find", "refer"}
      BY <1>7, SMTT(60) DEF CheckRegistration, InsertRefused, ApplyReferral, CheckEmail, WriteEmail,
         CheckName, WriteName, WriteVerified, WriteGoogle, InsertChannel, WriteRole, RoleLost,
         ApplyCampaignReferral
    <2> QED BY <1>1, <1>2, <2>1, SMTT(60)
  <1>8. CASE update(r)
    <2>1. PICK u \in Known, name \in OrNobody(Names), email \in OrNobody(Emails),
               stage \in {"emailCheck", "nameCheck"} :
            Having(r, [Job("idle", "update", u, name, email, Nobody)
                         EXCEPT !.old = account[u].email], stage)
      BY <1>8 DEF update, OrNobody
    <2>2. PICK j : j = [Job("idle", "update", u, name, email, Nobody)
                          EXCEPT !.old = account[u].email]
      OBVIOUS
    <2>3. IsJob(j)
      BY <2>2 DEF IsJob, Job
    <2> QED BY <1>2, <2>1, <2>2, <2>3
  <1>9. CASE createChannel(r)
    <2>1. PICK u : Having(r, [Job("idle", "channel", u, Nobody, Nobody, Nobody)
                                EXCEPT !.number = createUniqueHandle], "channel")
      BY <1>9 DEF createChannel
    <2>2. PICK j : j = [Job("idle", "channel", u, Nobody, Nobody, Nobody)
                          EXCEPT !.number = createUniqueHandle]
      OBVIOUS
    <2>3. IsJob(j)
      BY <2>2 DEF IsJob, Job
    <2> QED BY <1>2, <2>1, <2>2, <2>3
  <1>10. CASE FindCampaignReferrer(r)
    <2>1. CASE Having(r, job[r], "done")
      BY <1>1, <1>2, <2>1
    <2>2. CASE ~Having(r, job[r], "done")
      <3>1. PICK u : Having(r, [job[r] EXCEPT !.found = u], "campaign")
        BY <1>10, <2>2 DEF FindCampaignReferrer
      <3>2. PICK j : j = [job[r] EXCEPT !.found = u]
        OBVIOUS
      <3>3. IsJob(j)
        BY <1>1, <3>2 DEF IsJob
      <3> QED BY <1>2, <3>1, <3>2, <3>3
    <2> QED BY <2>1, <2>2
  <1> QED BY <1>4, <1>5, <1>6, <1>7, <1>8, <1>9, <1>10 DEF AccountStep

LEMMA ReferringStep ==
    ASSUME AccountsInv, NEW r \in AccountRequests, AccountStep(r)
    PROVE  Referring'
  <1>1. UsersSound /\ JobsSound /\ Referring
    BY DEF AccountsInv
  <1>2. \A s \in AccountRequests : Refers(s) => job[s].user \in Known
    BY <1>1 DEF Refers, JobsSound, JobSound
  <1>3. CASE InsertUser(r)
    <2>1. \A v \in Known : account'[v] = account[v] /\ v # NextId
      BY <1>1, <1>3, Inserted, NextIdIs
    <2>2. PICK google \in BOOLEAN :
            account'[NextId] = UserRow(job[r].name, job[r].email, google, 0)
      BY <1>1, <1>3, Inserted
    <2>3. account'[NextId].referrer = Nobody
      BY <2>2 DEF UserRow
    <2>4. ~FindReferrer(r)
      BY <1>3 DEF InsertUser, FindReferrer
    <2>5. ASSUME NEW s \in AccountRequests, Refers(s)'
          PROVE  \/ s = r /\ job'[s].user = NextId
                 \/ s # r /\ job'[s].user = job[s].user /\ Refers(s)
      BY <1>1, <2>4, <2>5, RefersOnly DEF Refers
    <2> QED BY <1>1, <1>2, <2>1, <2>3, <2>5 DEF Referring
  <1>4. CASE ApplyReferral(r)
    <2>1. /\ job[r].stage = "refer"
          /\ account' = [account EXCEPT ![job[r].user].referrer = job[r].found,
                                        ![job[r].found].left = @ - 1]
      BY <1>4 DEF ApplyReferral
    <2>2. \A v \in Known : v # job[r].user => account'[v].referrer = account[v].referrer
      BY <1>1, <2>1, RowsTyped, ZenonT(60) DEF UserRows, UsersSound, Known
    <2>3. ~Refers(r)'
      BY <1>1, <1>4, <2>1, RefersOnly DEF InsertUser, FindReferrer
    <2>4. ASSUME NEW s \in AccountRequests, Refers(s)'
          PROVE  s # r /\ job'[s].user = job[s].user /\ Refers(s) /\ Refers(r)
      BY <1>1, <2>1, <2>3, <2>4, RefersOnly DEF Refers
    <2> QED BY <1>1, <1>2, <2>2, <2>4 DEF Referring
  <1>5. CASE ~InsertUser(r) /\ ~ApplyReferral(r)
    <2>1. \A v \in Known : account'[v].referrer = account[v].referrer
      BY <1>1, <1>5, KnownSame
    <2>2. \A s \in AccountRequests : Refers(s)' => Refers(s) /\ job'[s].user = job[s].user
      BY <1>1, <1>5, RefersOnly DEF Refers, FindReferrer
    <2> QED BY <1>1, <1>2, <2>1, <2>2 DEF Referring
  <1> QED BY <1>3, <1>4, <1>5

-----------------------------------------------------------------------------
(* The properties                                                          *)

LEMMA NamesStep ==
    ASSUME AccountsInv, NEW r \in AccountRequests, AccountStep(r)
    PROVE  NamesDistinct'
  <1>1. UsersSound /\ JobsSound /\ NamesDistinct
    BY DEF AccountsInv
  <1> USE DEF NamesDistinct, insensitive, ByName, NameTaken
  <1>2. CASE InsertUser(r)
    <2>1. PICK google \in BOOLEAN :
            account'[NextId] = UserRow(job[r].name, job[r].email, google, 0)
      BY <1>1, <1>2, Inserted
    <2>3. account'[NextId].name = job[r].name
      BY <2>1 DEF UserRow
    <2>4. Known' = Known \cup {NextId} /\ \A v \in Known : account'[v] = account[v]
      BY <1>1, <1>2, Inserted
    <2>2. twins' = IF NameTaken(job[r].name) THEN twins \cup {NextId} ELSE twins
      BY <1>2 DEF InsertUser
    <2> QED BY <1>1, <2>2, <2>3, <2>4
  <1>3. CASE WriteName(r)
    <2>1. Known' = Known /\ job[r].user \in Known
      BY <1>1, <1>3, KnownSame DEF WriteName, InsertUser, AccountStep, JobsSound, JobSound
    <2>2. CASE UNCHANGED <<account, twins>>
      BY <1>1, <2>1, <2>2
    <2> DEFINE u == job[r].user
    <2>3. CASE ~UNCHANGED <<account, twins>>
      <3>1. /\ account' = [account EXCEPT ![u].name = job[r].name]
            /\ twins' = IF ByName(job[r].name) \subseteq {u} THEN twins \ {u} ELSE twins \cup {u}
        BY <1>3, <2>3 DEF WriteName
      <3>2. /\ account'[u].name = job[r].name
            /\ \A v \in Known \ {u} : account'[v].name = account[v].name
        BY <1>1, <2>1, <3>1, RowsTyped DEF UserRows, UsersSound, Known
      <3> HIDE DEF u
      <3> QED BY <1>1, <2>1, <3>1, <3>2
    <2> QED BY <2>2, <2>3, ZenonT(60)
  <1>4. CASE ~InsertUser(r) /\ ~WriteName(r)
    <2>1. Known' = Known /\ \A v \in Known : account'[v].name = account[v].name
      BY <1>1, <1>4, KnownSame
    <2>2. UNCHANGED twins
      BY <1>4, StepReads DEF WritesAccount, ApplyReferral, WriteEmail, WriteVerified,
         WriteGoogle, processUserEmailVerification, WriteRole, histories
    <2> QED BY <1>1, <2>1, <2>2
  <1> QED BY <1>2, <1>3, <1>4

LEMMA ProvenStep ==
    ASSUME AccountsInv, NEW r \in AccountRequests, AccountStep(r)
    PROVE  VerifiedProven'
  <1>1. UsersSound /\ JobsSound /\ VerifiedProven /\ proven \subseteq proven'
    BY GrowsAlways DEF AccountsInv, Grows
  <1>2. JobSound(job[r])
    BY <1>1 DEF JobsSound
  <1>3. \A v \in Known : account[v] \in UserRows
    BY <1>1, RowsTyped
  <1> USE DEF VerifiedProven
  <1>4. CASE InsertUser(r)
    <2>1. PICK google \in BOOLEAN :
            /\ account'[NextId] = UserRow(job[r].name, job[r].email, google, 0)
            /\ google => <<NextId, job[r].email>> \in proven'
      BY <1>1, <1>4, Inserted
    <2>2. account'[NextId].verified = google /\ account'[NextId].email = job[r].email
      BY <2>1 DEF UserRow
    <2> QED BY <1>1, <1>4, <2>1, <2>2, Inserted DEF InsertUser
  <1>5. ASSUME ~InsertUser(r), UNCHANGED mistaken,
               \A v \in Known : \/ ~account'[v].verified
                                \/ <<v, account'[v].email>> \in proven'
                                \/ /\ account'[v].verified = account[v].verified
                                   /\ account'[v].email = account[v].email
        PROVE  VerifiedProven'
    BY <1>1, <1>5, KnownSame
  <1>6. CASE ApplyReferral(r) \/ WriteName(r) \/ WriteRole(r)
    <2>1. \A v \in Known : /\ account'[v].verified = account[v].verified
                           /\ account'[v].email = account[v].email
      <3>1. CASE ApplyReferral(r)
        <4> DEFINE w == job[r].user
                   x == job[r].found
        <4>1. account' = [account EXCEPT ![w].referrer = x, ![x].left = @ - 1]
          BY <3>1 DEF ApplyReferral
        <4> HIDE DEF w, x
        <4> QED BY <1>1, <1>3, <4>1 DEF UserRows, UsersSound, Known
      <3>2. CASE WriteName(r)
        <4> DEFINE w == job[r].user
        <4>1. \/ account' = account
              \/ account' = [account EXCEPT ![w].name = job[r].name]
          BY <3>2 DEF WriteName
        <4> HIDE DEF w
        <4>2. CASE account' = account
          BY <4>2
        <4>3. CASE account' = [account EXCEPT ![w].name = job[r].name]
          BY <1>1, <1>3, <4>3 DEF UserRows, UsersSound, Known
        <4> QED BY <4>1, <4>2, <4>3
      <3>3. CASE WriteRole(r)
        <4> DEFINE w == job[r].user
        <4>1. account' = [account EXCEPT ![w].role = "Creator"]
          BY <3>3 DEF WriteRole
        <4> HIDE DEF w
        <4> QED BY <1>1, <1>3, <4>1 DEF UserRows, UsersSound, Known
      <3> QED BY <1>6, <3>1, <3>2, <3>3
    <2>2. ~InsertUser(r)
      BY <1>6 DEF ApplyReferral, WriteName, WriteRole, InsertUser
    <2> QED BY <1>5, <1>6, <2>1, <2>2 DEF ApplyReferral, WriteName, WriteRole, histories
  <1>7. CASE WriteEmail(r)
    <2>1. \A v \in Known : \/ ~account'[v].verified
                           \/ /\ account'[v].verified = account[v].verified
                              /\ account'[v].email = account[v].email
      <3> DEFINE w == job[r].user
      <3>1. \/ account' = account
            \/ account' = [account EXCEPT ![w].email = job[r].email, ![w].verified = FALSE]
        BY <1>7 DEF WriteEmail
      <3> HIDE DEF w
      <3> QED BY <1>1, <1>3, <3>1, ZenonT(60) DEF UserRows, UsersSound, Known
    <2> QED BY <1>5, <1>7, <2>1 DEF WriteEmail, InsertUser, histories
  <1>8. CASE WriteVerified(r)
    <2>1. <<job[r].user, job[r].email>> \in proven'
      BY <1>1, <1>2, <1>8 DEF WriteVerified, JobSound
    <2>2. \A v \in Known : \/ <<v, account'[v].email>> \in proven'
                           \/ /\ account'[v].verified = account[v].verified
                              /\ account'[v].email = account[v].email
      BY <1>1, <1>3, <1>8, <2>1 DEF WriteVerified, UserRows, UsersSound, Known
    <2> QED BY <1>5, <1>8, <2>2 DEF WriteVerified, InsertUser, histories
  <1>9. CASE WriteGoogle(r)
    <2>1. /\ account' = [account EXCEPT ![job[r].user].verified = TRUE]
          /\ mistaken' = IF account[job[r].user].email # job[r].email
                           THEN mistaken \cup {job[r].user} ELSE mistaken
          /\ <<job[r].user, job[r].email>> \in proven'
      BY <1>1, <1>2, <1>9 DEF WriteGoogle, JobSound
    <2>2. \A v \in Known : /\ account'[v].email = account[v].email
                           /\ v # job[r].user => account'[v].verified = account[v].verified
      BY <1>1, <1>3, <2>1 DEF UserRows, UsersSound, Known
    <2>3. Known' = Known
      BY <2>1 DEF Known
    <2> QED BY <1>1, <2>1, <2>2, <2>3
  <1>10. CASE processUserEmailVerification(r)
    <2>1. PICK u \in Known : /\ account' = [account EXCEPT ![u].verified = TRUE]
                             /\ proven' = proven \cup {<<u, account[u].email>>}
      BY <1>10 DEF processUserEmailVerification
    <2>2. \A v \in Known : /\ account'[v].email = account[v].email
                           /\ v # u => account'[v].verified = account[v].verified
      BY <1>1, <1>3, <2>1 DEF UserRows, UsersSound, Known
    <2>3. Known' = Known
      BY <2>1 DEF Known
    <2> QED BY <1>1, <1>10, <2>1, <2>2, <2>3 DEF processUserEmailVerification
  <1>11. CASE ~WritesAccount(r)
    BY <1>1, <1>11, StepReads DEF Known
  <1> QED BY <1>4, <1>6, <1>7, <1>8, <1>9, <1>10, <1>11 DEF WritesAccount

\* The users that name u
Referees(u) == {v \in Known : account[v].referrer = u}

LEMMA RefereesCounted ==
    ASSUME UsersSound, NEW u
    PROVE  IsFiniteSet(Referees(u)) /\ Cardinality(Referees(u)) \in Nat
  <1>1. IsFiniteSet(Known) /\ Referees(u) \subseteq Known
    BY NextIdIs DEF Referees
  <1> QED BY <1>1, FS_Subset, FS_CardinalityType

LEMMA ReferralsStep ==
    ASSUME AccountsInv, NEW r \in AccountRequests, AccountStep(r)
    PROVE  ReferralsCounted'
  <1>1. UsersSound /\ JobsSound /\ Referring /\ Grows
    BY GrowsAlways DEF AccountsInv
  <1>2. \A u \in Known : /\ account[u].granted - account[u].left = Cardinality(Referees(u))
                         /\ account[u].left >= 0 \/ u \in overdrawn
    BY DEF AccountsInv, ReferralsCounted, Referees
  <1>3. \A v \in Known : account[v] \in UserRows
    BY <1>1, RowsTyped
  <1> SUFFICES ASSUME NEW u \in Known'
               PROVE  /\ account'[u].granted - account'[u].left = Cardinality(Referees(u)')
                      /\ account'[u].left >= 0 \/ u \in overdrawn'
    BY DEF ReferralsCounted, Referees
  <1>4. CASE InsertUser(r)
    <2>1. PICK google \in BOOLEAN :
            account'[NextId] = UserRow(job[r].name, job[r].email, google, 0)
      BY <1>1, <1>4, Inserted
    <2>2. /\ account'[NextId].referrer = Nobody /\ account'[NextId].granted = 0
          /\ account'[NextId].left = 0
      BY <2>1 DEF UserRow
    <2>3. u # Nobody
      BY <1>1, UsersStep, AccountsAssumption DEF UsersSound, Known, Users
    <2>4. CASE u \in Known
      <3>1. Referees(u)' = Referees(u)
        BY <1>1, <1>4, <2>2, <2>3, Inserted, NextIdIs DEF Referees
      <3> QED BY <1>1, <1>2, <1>4, <2>4, <3>1, Inserted DEF Grows
    <2>5. CASE u = NextId
      <3>1. Referees(u)' = {}
        BY <1>1, <1>4, <2>2, <2>3, <2>5, Inserted, NextIdIs DEF Referees, UsersSound
      <3> QED BY <2>2, <2>5, <3>1, FS_EmptySet
    <2> QED BY <1>1, <1>4, <2>4, <2>5, Inserted
  <1>5. CASE ApplyReferral(r)
    <2> DEFINE w == job[r].user
               x == job[r].found
    <2>1. /\ account' = [account EXCEPT ![w].referrer = x, ![x].left = @ - 1]
          /\ overdrawn' = IF account[x].left < job[r].number THEN overdrawn \cup {x}
                          ELSE overdrawn
      BY <1>5 DEF ApplyReferral
    <2>2. /\ w \in Known /\ x \in Known /\ x # w /\ job[r].number \in Int
          /\ job[r].number > 0 \/ x \in overdrawn
      BY <1>1, <1>5 DEF ApplyReferral, JobsSound, JobSound
    <2>3. account[w].referrer = Nobody
      BY <1>1, <1>5 DEF ApplyReferral, Referring, Refers
    <2> HIDE DEF w, x
    <2>4. Known' = Known
      BY <2>1 DEF Known
    <2>5. /\ account'[w].referrer = x
          /\ \A v \in Known : /\ v # w => account'[v].referrer = account[v].referrer
                              /\ v # x => account'[v].left = account[v].left
                              /\ account'[v].granted = account[v].granted
          /\ account'[x].left = account[x].left - 1
      <3>1. \A v \in Known : account'[v] =
              IF v = w THEN [account[v] EXCEPT !.referrer = x]
              ELSE IF v = x THEN [account[v] EXCEPT !.left = @ - 1] ELSE account[v]
        BY <1>1, <1>3, <2>1, <2>2 DEF UserRows, UsersSound, Known
      <3> QED BY <1>3, <2>2, <3>1 DEF UserRows
    <2>6. u # Nobody /\ u \in Known
      BY <1>1, <2>4, AccountsAssumption DEF UsersSound, Known, Users
    <2>7. CASE u = x
      <3>1. Referees(u)' = Referees(u) \cup {w} /\ w \notin Referees(u)
        BY <2>2, <2>3, <2>4, <2>5, <2>6, <2>7 DEF Referees
      <3>2. Cardinality(Referees(u) \cup {w}) = Cardinality(Referees(u)) + 1
        BY <1>1, <3>1, RefereesCounted, FS_AddElement
      <3>3. account[u].left \in Int /\ account[u].granted \in Int
        BY <1>3, <2>6 DEF UserRows
      <3>4. account'[u].granted - account'[u].left = Cardinality(Referees(u)')
        BY <1>1, <1>2, <2>5, <2>6, <2>7, <3>1, <3>2, <3>3, RefereesCounted
      <3>5. account'[u].left >= 0 \/ u \in overdrawn'
        BY <1>2, <2>1, <2>2, <2>5, <2>7, <3>3
      <3> QED BY <3>4, <3>5
    <2>8. CASE u # x
      <3>1. Referees(u)' = Referees(u)
        BY <2>2, <2>3, <2>4, <2>5, <2>6, <2>8 DEF Referees
      <3> QED BY <1>1, <1>2, <2>5, <2>6, <2>8, <3>1 DEF Grows
    <2> QED BY <2>7, <2>8
  <1>6. CASE ~InsertUser(r) /\ ~ApplyReferral(r)
    <2>1. /\ Known' = Known
          /\ \A v \in Known : /\ account'[v].granted = account[v].granted
                              /\ account'[v].left = account[v].left
                              /\ account'[v].referrer = account[v].referrer
      BY <1>1, <1>6, KnownSame
    <2>2. Referees(u)' = Referees(u)
      BY <2>1 DEF Referees
    <2> QED BY <1>1, <1>2, <2>1, <2>2 DEF Grows
  <1> QED BY <1>4, <1>5, <1>6

LEMMA AccountsInitInv == AccountsInit => AccountsInv
  <1> SUFFICES ASSUME AccountsInit
               PROVE  AccountsInv
    OBVIOUS
  <1>1. PICK n \in Names, e \in Emails, allowance \in 0..Allowance :
          account = [u \in {FirstUser} |-> UserRow(n, e, TRUE, allowance)]
    BY DEF AccountsInit
  <1>2. /\ Known = {1} /\ account[1] = UserRow(n, e, TRUE, allowance) /\ FirstUser = 1
        /\ 1 \in Users /\ 1..1 = {1} /\ allowance \in Int /\ allowance >= 0
    BY <1>1, AccountsAssumption DEF Known, FirstUser, Users
  <1>3. account[1] \in UserRows /\ account[1].referrer = Nobody
    BY <1>2 DEF UserRow, UserRows
  <1>4. account \in [1..1 -> UserRows]
    BY <1>1, <1>2, <1>3
  <1>5. UsersSound
    BY <1>2, <1>3, <1>4 DEF UsersSound
  <1>6. JobsSound /\ Referring
    BY DEF AccountsInit, JobsSound, Referring, Refers, JobSound, IsJob, Without, Job
  <1>7. LinksSound /\ NamesDistinct /\ VerifiedProven
    BY <1>2 DEF AccountsInit, LinksSound, NamesDistinct, VerifiedProven
  <1>8. ReferralsCounted
    <2>1. {v \in Known : account[v].referrer = 1} = {}
      BY <1>2, <1>3, AccountsAssumption
    <2>2. account[1].granted = allowance /\ account[1].left = allowance
      BY <1>2 DEF UserRow
    <2>3. Cardinality({v \in Known : account[v].referrer = 1}) = 0
      BY <2>1, FS_EmptySet
    <2>4. account[1].granted - account[1].left = 0 /\ account[1].left >= 0
      <3>1. allowance \in Int /\ allowance >= 0 /\ allowance - allowance = 0
        BY <1>2
      <3> QED BY ONLY <2>2, <3>1
    <2> QED BY ONLY <1>2, <2>3, <2>4 DEF ReferralsCounted
  <1> QED BY <1>5, <1>6, <1>7, <1>8 DEF AccountsInv

LEMMA AccountsNextInv == AccountsInv /\ [AccountsNext]_accountVars => AccountsInv'
  <1> SUFFICES ASSUME AccountsInv, [AccountsNext]_accountVars
               PROVE  AccountsInv'
    OBVIOUS
  <1>1. CASE AccountsNext
    <2>1. PICK r \in AccountRequests : AccountStep(r)
      BY <1>1 DEF AccountsNext
    <2>2. UsersSound'
      BY <2>1, UsersStep DEF AccountsInv
    <2> QED BY <2>1, <2>2, LinksStep, JobsStep, ReferringStep, NamesStep, ProvenStep,
               ReferralsStep DEF AccountsInv
  <1>2. CASE UNCHANGED accountVars
    BY <1>2 DEF accountVars, AccountsInv, UsersSound, LinksSound, JobsSound, JobSound, Referring,
       Refers, NamesDistinct, VerifiedProven, ReferralsCounted, Known
  <1> QED BY <1>1, <1>2

\* Requests know what they were given and what they read, and one refers a user at most.
THEOREM AccountsInvariance == AccountsSpec => []AccountsInv
  <1> QED BY AccountsInitInv, AccountsNextInv, PTL DEF AccountsSpec

\* Names differ by more than case, unless two requests named users at once.
THEOREM NamesDistinctAlways == AccountsSpec => []NamesDistinct
  <1>1. AccountsInv => NamesDistinct
    BY DEF AccountsInv
  <1> QED BY <1>1, AccountsInvariance, PTL

\* A verified email was answered for, but for one changed under a Google sign-in.
THEOREM VerifiedProvenAlways == AccountsSpec => []VerifiedProven
  <1>1. AccountsInv => VerifiedProven
    BY DEF AccountsInv
  <1> QED BY <1>1, AccountsInvariance, PTL

\* Referrals given are the users referred, and no more than the allowance unless they overlap.
THEOREM ReferralsCountedAlways == AccountsSpec => []ReferralsCounted
  <1>1. AccountsInv => ReferralsCounted
    BY DEF AccountsInv
  <1> QED BY <1>1, AccountsInvariance, PTL

-----------------------------------------------------------------------------
(* Coupons: each group on chain and the row under its label               *)

Labelled(l) == {g \in groups : g.label = l}
OneGroup(l, price) == \E c \in BOOLEAN : Labelled(l) = {Group(l, price, c)}
HasRow(l) == \E s \in settings : s.label = l

\* Between the chain and the rows
Adding(r) == cpc[r] = "write" /\ cop[r].kind # "price"
Repricing(r) == cpc[r] = "write" /\ cop[r].kind = "price"

IsSetting(s) ==
    s = [label |-> s.label, coupon |-> s.coupon, token |-> s.token, price |-> s.price]

CouponsTyped ==
    /\ \A s \in settings : IsSetting(s)
    /\ cpc = [r \in CouponRequests |-> cpc[r]]
    /\ cop = [r \in CouponRequests |-> cop[r]]
    /\ label = [r \in CouponRequests |-> label[r]]
    /\ fetched = [r \in CouponRequests |-> fetched[r]]

\* A setting's group has its price, or one a command is about to write to it.
SettingSound(s) ==
    \/ s.label \in disturbed
    \/ OneGroup(s.label, s.price)
    \/ \E q \in CouponRequests : Repricing(q) /\ label[q] = s.label /\ OneGroup(s.label, q)

\* A label that was written to the chain has a row, is about to, or never will.
Accounted(l) ==
    \/ l \in orphaned \/ HasRow(l)
    \/ \E q \in CouponRequests : Adding(q) /\ label[q] = l

\* A group that awaits its row is the only one of its label, and its row the first.
RequestSound(r) ==
    /\ cpc[r] = "count" => cop[r].kind # "price"
    /\ cop[r].kind = "price" => HasRow(label[r])
    /\ cpc[r] = "send" => \A g \in fetched[r] : Accounted(g.label)
    /\ cpc[r] = "send" /\ cop[r].kind # "price" => \A g \in fetched[r] : g.label # label[r]
    /\ Adding(r) => \/ label[r] \in disturbed
                    \/ OneGroup(label[r], r) /\ ~HasRow(label[r])

SettingsSound == \A s \in settings : SettingSound(s)
GroupsAccounted == \A g \in groups : Accounted(g.label)
RequestsSound == \A r \in CouponRequests : RequestSound(r)

CouponsInv == CouponsTyped /\ SettingsSound /\ GroupsAccounted /\ RequestsSound

LEMMA GroupsDiffer ==
    ASSUME NEW l, NEW p, NEW c
    PROVE  Group(l, p, c).label = l /\ Group(l, p, c).price = p
  BY DEF Group

\* One group of a label: there is one, and all have its price.
LEMMA OneGroupIs ==
    ASSUME NEW l, NEW p, OneGroup(l, p)
    PROVE  /\ \E g \in groups : g.label = l /\ g.price = p
           /\ \A g \in groups : g.label = l => g.price = p
  <1>1. PICK c \in BOOLEAN : Labelled(l) = {Group(l, p, c)}
    BY DEF OneGroup
  <1>2. \A g : g \in Labelled(l) <=> g = Group(l, p, c)
    BY <1>1
  <1>3. \A g : g \in Labelled(l) <=> g \in groups /\ g.label = l
    BY DEF Labelled
  <1> QED BY <1>2, <1>3, GroupsDiffer

\* One request goes on, and neither chain nor rows change.
LEMMA OneMoves ==
    ASSUME CouponsInv, NEW r \in CouponRequests, ~Adding(r), ~Repricing(r),
           UNCHANGED <<groups, settings, disturbed, orphaned>>,
           cpc' = [cpc EXCEPT ![r] = cpc'[r]], cop' = [cop EXCEPT ![r] = cop'[r]],
           label' = [label EXCEPT ![r] = label'[r]], fetched' = [fetched EXCEPT ![r] = fetched'[r]],
           RequestSound(r)'
    PROVE  CouponsInv'
  <1>1. \A q \in CouponRequests \ {r} :
          cpc'[q] = cpc[q] /\ cop'[q] = cop[q] /\ label'[q] = label[q] /\ fetched'[q] = fetched[q]
    BY DEF CouponsInv, CouponsTyped
  <1>2. CouponsTyped'
    BY DEF CouponsInv, CouponsTyped, IsSetting
  <1>3. \A l : HasRow(l)' <=> HasRow(l)
    BY DEF HasRow
  <1>4. \A l : Accounted(l) => Accounted(l)'
    BY <1>1, <1>3 DEF Accounted, Adding
  <1>5. \A l, p : OneGroup(l, p)' <=> OneGroup(l, p)
    BY DEF OneGroup, Labelled
  <1>6. \A q \in CouponRequests : Repricing(q) => Repricing(q)' /\ label'[q] = label[q]
    BY <1>1 DEF Repricing
  <1>7. SettingsSound'
    <2> SUFFICES ASSUME NEW s \in settings PROVE SettingSound(s)'
      BY DEF SettingsSound
    <2>1. SettingSound(s)
      BY DEF CouponsInv, SettingsSound
    <2> QED BY <1>5, <1>6, <2>1 DEF SettingSound
  <1>8. GroupsAccounted'
    BY <1>4 DEF CouponsInv, GroupsAccounted
  <1>9. ASSUME NEW q \in CouponRequests \ {r}
        PROVE  RequestSound(q)'
    <2>1. RequestSound(q)
      BY DEF CouponsInv, RequestsSound
    <2>2. Adding(q)' <=> Adding(q)
      BY <1>1 DEF Adding
    <2> QED BY <1>1, <1>3, <1>4, <1>5, <2>1, <2>2 DEF RequestSound
  <1> QED BY <1>2, <1>7, <1>8, <1>9 DEF CouponsInv, RequestsSound

LEMMA ArrivingKeeps ==
    ASSUME CouponsInv, NEW r \in CouponRequests,
           addCandyMachineCoupon(r) \/ addCandyMachineCouponCurrency(r) \/ updatePrice(r)
    PROVE  CouponsInv'
  <1>1. PICK kind, type, coupon, token, where :
          /\ Arrives(r, kind, type, coupon, token) /\ At(r, where)
          /\ \/ kind \in {"coupon", "currency"} /\ where = "count" /\ UNCHANGED label
             \/ /\ kind = "price" /\ where = "fetch"
                /\ \E s \in settings : label' = [label EXCEPT ![r] = s.label]
    BY DEF addCandyMachineCoupon, addCandyMachineCouponCurrency, updatePrice
  <1>2. /\ cpc'[r] = where /\ cop'[r].kind = kind /\ cpc[r] = "idle"
        /\ UNCHANGED <<groups, settings, disturbed, orphaned, fetched>>
        /\ label' = label \/ \E s \in settings : label' = [label EXCEPT ![r] = s.label]
    BY <1>1 DEF Arrives, At, CouponsInv, CouponsTyped
  <1>3. /\ cpc' = [cpc EXCEPT ![r] = cpc'[r]] /\ cop' = [cop EXCEPT ![r] = cop'[r]]
        /\ label' = [label EXCEPT ![r] = label'[r]]
        /\ fetched' = [fetched EXCEPT ![r] = fetched'[r]]
    BY <1>1, <1>2 DEF Arrives, At, CouponsInv, CouponsTyped
  <1>4. kind = "price" => HasRow(label'[r])
    BY <1>1 DEF HasRow, CouponsInv, CouponsTyped
  <1>5. RequestSound(r)'
    BY <1>1, <1>2, <1>4 DEF RequestSound, Adding, HasRow
  <1>6. ~Adding(r) /\ ~Repricing(r)
    BY <1>2 DEF Adding, Repricing
  <1> QED BY <1>2, <1>3, <1>5, <1>6, OneMoves

LEMMA CountingKeeps ==
    ASSUME CouponsInv, NEW r \in CouponRequests, CountForLabel(r)
    PROVE  CouponsInv'
  <1>1. /\ cpc[r] = "count" /\ cpc'[r] = "fetch" /\ cop' = cop /\ cop[r].kind # "price"
        /\ UNCHANGED <<groups, settings, disturbed, orphaned, fetched>>
    BY DEF CountForLabel, At, CouponsInv, CouponsTyped, RequestsSound, RequestSound
  <1>2. /\ cpc' = [cpc EXCEPT ![r] = cpc'[r]] /\ cop' = [cop EXCEPT ![r] = cop'[r]]
        /\ label' = [label EXCEPT ![r] = label'[r]]
        /\ fetched' = [fetched EXCEPT ![r] = fetched'[r]]
    BY <1>1 DEF CountForLabel, At, CouponsInv, CouponsTyped
  <1>3. RequestSound(r)' /\ ~Adding(r) /\ ~Repricing(r)
    BY <1>1 DEF RequestSound, Adding, Repricing
  <1> QED BY <1>1, <1>2, <1>3, OneMoves

LEMMA FetchingKeeps ==
    ASSUME CouponsInv, NEW r \in CouponRequests, FetchGroups(r)
    PROVE  CouponsInv'
  <1>1. /\ cpc[r] = "fetch" /\ cop' = cop /\ label' = label
        /\ UNCHANGED <<groups, settings, disturbed, orphaned>>
        /\ \/ cpc'[r] = "done"
           \/ /\ cpc'[r] = "send" /\ fetched'[r] = groups
              /\ cop[r].kind # "price" => \A g \in groups : g.label # label[r]
    BY DEF FetchGroups, At, CouponsInv, CouponsTyped
  <1>2. /\ cpc' = [cpc EXCEPT ![r] = cpc'[r]] /\ cop' = [cop EXCEPT ![r] = cop'[r]]
        /\ label' = [label EXCEPT ![r] = label'[r]]
        /\ fetched' = [fetched EXCEPT ![r] = fetched'[r]]
    BY <1>1 DEF FetchGroups, At, CouponsInv, CouponsTyped
  <1>3. ~Adding(r) /\ ~Repricing(r)
    BY <1>1 DEF Adding, Repricing
  <1>4. \A l : Accounted(l) => Accounted(l)'
    <2>1. \A q \in CouponRequests : Adding(q) => Adding(q)' /\ label'[q] = label[q]
      <3>1. \A q \in CouponRequests \ {r} : cpc'[q] = cpc[q]
        BY <1>2 DEF CouponsInv, CouponsTyped
      <3> QED BY <1>1, <1>3, <3>1 DEF Adding
    <2> QED BY <1>1, <2>1 DEF Accounted, HasRow
  <1>5. cpc'[r] = "send" => \A g \in fetched'[r] : Accounted(g.label)'
    BY <1>1, <1>4 DEF CouponsInv, GroupsAccounted
  <1>6. cop[r].kind = "price" => HasRow(label[r])'
    BY <1>1 DEF HasRow, CouponsInv, RequestsSound, RequestSound
  <1>7. RequestSound(r)'
    BY <1>1, <1>5, <1>6 DEF RequestSound, Adding
  <1> QED BY <1>1, <1>2, <1>3, <1>7, OneMoves

\* Groups that were there when they were fetched, and are still, are written as they are.
LEMMA LabelsWritten ==
    ASSUME NEW r \in CouponRequests, groups' = ResolvedGroups(r), NEW l
    PROVE  /\ l # label[r] /\ l \notin Overwritten(r) => Labelled(l)' = Labelled(l)
           /\ l = label[r] => Labelled(l)' = {Group(l, r, cop[r].kind # "price")}
  <1>1. ASSUME l # label[r], l \notin Overwritten(r)
        PROVE  Labelled(l)' = Labelled(l)
    <2>1. \A g : g.label = l => (g \in groups <=> g \in fetched[r])
      BY <1>1 DEF Overwritten
    <2>2. \A g : g.label = l => (g \in groups' <=> g \in fetched[r])
      BY <1>1, GroupsDiffer DEF ResolvedGroups
    <2> QED BY <2>1, <2>2 DEF Labelled
  <1>2. ASSUME l = label[r]
        PROVE  Labelled(l)' = {Group(l, r, cop[r].kind # "price")}
    <2>1. \A g : g \in groups' /\ g.label = l <=> g = Group(l, r, cop[r].kind # "price")
      BY <1>2, GroupsDiffer DEF ResolvedGroups
    <2> QED BY <2>1 DEF Labelled
  <1> QED BY <1>1, <1>2

\* A label that nobody disturbs keeps its group.
LEMMA OneGroupStays ==
    ASSUME NEW r \in CouponRequests, groups' = ResolvedGroups(r),
           disturbed' = disturbed \cup Overwritten(r), NEW l, NEW p, OneGroup(l, p),
           l # label[r]
    PROVE  l \in disturbed' \/ OneGroup(l, p)'
  <1>1. CASE l \in Overwritten(r)
    BY <1>1
  <1>2. CASE l \notin Overwritten(r)
    BY <1>2, LabelsWritten DEF OneGroup
  <1> QED BY <1>1, <1>2

\* The writer of a new label disturbs it, if another put a group there.
LEMMA NewLabelDisturbs ==
    ASSUME CouponsInv, NEW r \in CouponRequests, cpc[r] = "send", cop[r].kind # "price",
           NEW p, OneGroup(label[r], p)
    PROVE  label[r] \in Overwritten(r)
  <1>1. PICK g \in groups : g.label = label[r]
    BY OneGroupIs
  <1>2. g \notin fetched[r]
    BY <1>1 DEF CouponsInv, RequestsSound, RequestSound
  <1> QED BY <1>1, <1>2 DEF Overwritten

\* The write lands: whatever it undoes is disturbed.
LEMMA LandingKeeps ==
    ASSUME CouponsInv, NEW r \in CouponRequests, updateCoreCandyMachine(r)
    PROVE  CouponsInv'
  <1>1. /\ cpc[r] = "send" /\ cpc'[r] = "write" /\ groups' = ResolvedGroups(r)
        /\ disturbed' = disturbed \cup Overwritten(r)
        /\ UNCHANGED <<coupons, settings, cop, label, fetched, orphaned>>
        /\ \A q \in CouponRequests \ {r} : cpc'[q] = cpc[q]
        /\ cpc' = [q \in CouponRequests |-> cpc'[q]]
    BY DEF updateCoreCandyMachine, At, CouponsInv, CouponsTyped
  <1>2. CouponsTyped'
    BY <1>1 DEF CouponsInv, CouponsTyped, IsSetting
  <1>3. RequestSound(r)
    BY DEF CouponsInv, RequestsSound
  <1>4. PICK m : m = label[r] /\ OneGroup(m, r)'
    <2>1. PICK m : m = label[r]
      OBVIOUS
    <2> QED BY <1>1, <2>1, LabelsWritten DEF OneGroup
  <1>5. /\ Adding(r)' <=> cop[r].kind # "price"
        /\ Repricing(r)' <=> cop[r].kind = "price"
        /\ ~Adding(r) /\ ~Repricing(r)
        /\ \A q \in CouponRequests \ {r} : /\ Adding(q)' <=> Adding(q)
                                           /\ Repricing(q)' <=> Repricing(q)
    BY <1>1 DEF Adding, Repricing
  <1>6. \A l : HasRow(l)' <=> HasRow(l)
    BY <1>1 DEF HasRow
  <1>7. \A l : Accounted(l) => Accounted(l)'
    BY <1>1, <1>5, <1>6 DEF Accounted
  <1>8. GroupsAccounted'
    <2> SUFFICES ASSUME NEW g \in groups' PROVE Accounted(g.label)'
      BY DEF GroupsAccounted
    <2>1. CASE g \in fetched[r]
      BY <1>1, <1>3, <1>7, <2>1 DEF RequestSound
    <2>2. CASE g.label = label[r]
      BY <1>1, <1>3, <1>5, <1>6, <2>2 DEF RequestSound, Accounted
    <2> QED BY <1>1, <2>1, <2>2, GroupsDiffer DEF ResolvedGroups
  <1>9. ASSUME NEW s \in settings'
        PROVE  SettingSound(s)'
    <2>1. SettingSound(s) /\ HasRow(s.label)
      BY <1>1 DEF CouponsInv, SettingsSound, HasRow
    <2>2. CASE s.label # label[r]
      <3>1. CASE OneGroup(s.label, s.price)
        BY <1>1, <2>2, <3>1, OneGroupStays DEF SettingSound
      <3>2. ASSUME NEW q \in CouponRequests, Repricing(q), label[q] = s.label, OneGroup(s.label, q)
            PROVE  SettingSound(s)'
        <4>1. q # r
          BY <2>2, <3>2
        <4>2. s.label \in disturbed' \/ OneGroup(s.label, q)'
          BY <1>1, <2>2, <3>2, OneGroupStays
        <4>3. Repricing(q)' /\ label'[q] = s.label
          BY <1>1, <1>5, <3>2, <4>1
        <4> QED BY <4>2, <4>3 DEF SettingSound
      <3> QED BY <1>1, <2>1, <3>1, <3>2 DEF SettingSound
    <2>3. CASE s.label = label[r] /\ cop[r].kind = "price"
      BY <1>1, <1>4, <1>5, <2>3 DEF SettingSound
    <2>4. CASE s.label = label[r] /\ cop[r].kind # "price"
      <3>1. s.label \in disturbed \/ s.label \in Overwritten(r)
        BY <1>1, <2>1, <2>4, NewLabelDisturbs DEF SettingSound
      <3> QED BY <1>1, <3>1 DEF SettingSound
    <2> QED BY <2>2, <2>3, <2>4
  <1>10. ASSUME NEW q \in CouponRequests
         PROVE  RequestSound(q)'
    <2>1. RequestSound(q)
      BY DEF CouponsInv, RequestsSound
    <2>2. PICK l : l = label[q]
      OBVIOUS
    <2>3. ASSUME Adding(q)', l \notin disturbed'
          PROVE  OneGroup(l, q)' /\ ~HasRow(l)
      <3>1. CASE q = r
        <4>1. ~HasRow(l)
          <5> SUFFICES ASSUME NEW s \in settings, s.label = l PROVE FALSE
            BY DEF HasRow
          <5>1. SettingSound(s) /\ l = label[r] /\ l \notin disturbed /\ l \notin Overwritten(r)
            BY <1>1, <2>2, <2>3, <3>1 DEF CouponsInv, SettingsSound
          <5>2. PICK p : OneGroup(label[r], p)
            BY <5>1 DEF SettingSound
          <5> QED BY <1>1, <1>5, <2>3, <3>1, <5>1, <5>2, NewLabelDisturbs
        <4> QED BY <1>4, <2>2, <3>1, <4>1
      <3>2. CASE q # r
        <4>1. OneGroup(l, q) /\ ~HasRow(l) /\ l \notin Overwritten(r)
          BY <1>1, <1>5, <2>1, <2>2, <2>3, <3>2 DEF RequestSound
        <4>2. l # label[r]
          BY <1>1, <1>3, <4>1, NewLabelDisturbs DEF RequestSound
        <4> QED BY <1>1, <2>3, <4>1, <4>2, OneGroupStays
      <3> QED BY <3>1, <3>2
    <2>4. (Adding(q) => \/ label[q] \in disturbed
                        \/ OneGroup(label[q], q) /\ ~HasRow(label[q]))'
      <3>1. label'[q] = l /\ (HasRow(l)' => HasRow(l))
        BY <1>1, <1>6, <2>2
      <3>2. ASSUME Adding(q)', l \notin disturbed'
            PROVE  OneGroup(label[q], q)' /\ ~HasRow(label[q])'
        <4>1. OneGroup(l, q)' /\ ~HasRow(l)'
          BY <2>3, <3>1, <3>2
        <4> QED BY <3>1, <4>1 DEF OneGroup, Labelled, HasRow
      <3> QED BY <3>1, <3>2
    <2>5. /\ cpc'[q] = "send" => cpc[q] = "send"
          /\ cpc'[q] = "count" => cpc[q] = "count"
      BY <1>1
    <2>6. (/\ cpc[q] = "count" => cop[q].kind # "price"
           /\ cop[q].kind = "price" => HasRow(label[q])
           /\ cpc[q] = "send" => \A g \in fetched[q] : Accounted(g.label)
           /\ cpc[q] = "send" /\ cop[q].kind # "price" => \A g \in fetched[q] : g.label # label[q])'
      BY <1>1, <1>6, <1>7, <2>1, <2>5 DEF RequestSound
    <2> QED BY <2>4, <2>6 DEF RequestSound
  <1> QED BY <1>2, <1>8, <1>9, <1>10 DEF CouponsInv, SettingsSound, RequestsSound

\* The write does not land: its label is disturbed.
LEMMA LosingKeeps ==
    ASSUME CouponsInv, NEW r \in CouponRequests, UpdateLost(r)
    PROVE  CouponsInv'
  <1>1. /\ cpc[r] = "send" /\ cpc'[r] = "write" /\ disturbed' = disturbed \cup {label[r]}
        /\ UNCHANGED <<groups, settings, cop, label, fetched, orphaned>>
        /\ \A q \in CouponRequests \ {r} : cpc'[q] = cpc[q]
        /\ cpc' = [q \in CouponRequests |-> cpc'[q]]
    BY DEF UpdateLost, At, CouponsInv, CouponsTyped
  <1>2. CouponsTyped'
    BY <1>1 DEF CouponsInv, CouponsTyped, IsSetting
  <1>3. \A q \in CouponRequests : /\ Adding(q) => Adding(q)'
                                  /\ Repricing(q) => Repricing(q)'
                                  /\ q # r => (Adding(q)' <=> Adding(q))
    BY <1>1 DEF Adding, Repricing
  <1>4. \A l : HasRow(l)' <=> HasRow(l)
    BY <1>1 DEF HasRow
  <1>5. \A l, p : OneGroup(l, p)' <=> OneGroup(l, p)
    BY <1>1 DEF OneGroup, Labelled
  <1>6. \A l : Accounted(l) => Accounted(l)'
    BY <1>1, <1>3, <1>4 DEF Accounted
  <1>7. SettingsSound'
    <2> SUFFICES ASSUME NEW s \in settings PROVE SettingSound(s)'
      BY <1>1 DEF SettingsSound
    <2>1. SettingSound(s)
      BY DEF CouponsInv, SettingsSound
    <2> QED BY <1>1, <1>3, <1>5, <2>1 DEF SettingSound
  <1>8. GroupsAccounted'
    BY <1>1, <1>6 DEF CouponsInv, GroupsAccounted
  <1>9. ASSUME NEW q \in CouponRequests
        PROVE  RequestSound(q)'
    <2>1. RequestSound(q)
      BY DEF CouponsInv, RequestsSound
    <2>2. CASE q = r
      BY <1>1, <1>4, <2>1, <2>2 DEF RequestSound
    <2>3. CASE q # r
      BY <1>1, <1>3, <1>4, <1>5, <1>6, <2>1, <2>3 DEF RequestSound
    <2> QED BY <2>2, <2>3
  <1> QED BY <1>2, <1>7, <1>8, <1>9 DEF CouponsInv, RequestsSound

\* The rows are written, or refused; a label that waits for its own row loses none.
LEMMA WritingKeeps ==
    ASSUME CouponsInv, NEW r \in CouponRequests, WriteRows(r)
    PROVE  CouponsInv'
  <1>1. /\ Adding(r) /\ cpc'[r] = "done" /\ cop[r].kind # "price"
        /\ UNCHANGED <<groups, disturbed, cop, label, fetched>>
        /\ \A q \in CouponRequests \ {r} : cpc'[q] = cpc[q]
        /\ cpc' = [q \in CouponRequests |-> cpc'[q]]
        /\ \/ orphaned' = orphaned \cup {label[r]} /\ settings' = settings
           \/ settings' = settings \cup {NewSetting(r)} /\ orphaned' = orphaned
    BY DEF WriteRows, Adding, At, CouponsInv, CouponsTyped
  <1>2. IsSetting(NewSetting(r)) /\ NewSetting(r).label = label[r] /\ NewSetting(r).price = r
    BY DEF NewSetting, Setting, IsSetting
  <1>3. CouponsTyped'
    BY <1>1, <1>2 DEF CouponsInv, CouponsTyped, IsSetting
  <1>4. PICK m : m = label[r]
    OBVIOUS
  <1>5. m \in disturbed \/ (OneGroup(m, r) /\ ~HasRow(m))
    BY <1>1, <1>4 DEF CouponsInv, RequestsSound, RequestSound
  <1>6. \A l : /\ HasRow(l) => HasRow(l)'
               /\ l # m => (HasRow(l)' => HasRow(l))
    BY <1>1, <1>2, <1>4 DEF HasRow
  <1>7. m \in orphaned' \/ HasRow(m)'
    BY <1>1, <1>2, <1>4 DEF HasRow
  <1>8. \A q \in CouponRequests : /\ q # r => (Adding(q)' <=> Adding(q))
                                  /\ Repricing(q) => Repricing(q)'
    BY <1>1 DEF Adding, Repricing
  <1>9. ~Adding(r)'
    BY <1>1 DEF Adding
  <1>10. ASSUME NEW l, Accounted(l)
         PROVE  Accounted(l)'
    <2>1. CASE l = m
      BY <1>7, <2>1 DEF Accounted
    <2>2. CASE l # m
      BY <1>1, <1>4, <1>6, <1>8, <1>10, <2>2 DEF Accounted
    <2> QED BY <2>1, <2>2
  <1>11. \A l, p : OneGroup(l, p)' <=> OneGroup(l, p)
    BY <1>1 DEF OneGroup, Labelled
  <1>12. ASSUME NEW s \in settings'
         PROVE  SettingSound(s)'
    <2>1. CASE s \in settings
      BY <1>1, <1>8, <1>11, <2>1 DEF CouponsInv, SettingsSound, SettingSound
    <2>2. CASE s = NewSetting(r)
      BY <1>1, <1>2, <1>4, <1>5, <1>11, <2>2 DEF SettingSound
    <2> QED BY <1>1, <1>12, <2>1, <2>2
  <1>13. GroupsAccounted'
    BY <1>1, <1>10 DEF CouponsInv, GroupsAccounted
  <1>14. ASSUME NEW q \in CouponRequests
         PROVE  RequestSound(q)'
    <2>1. RequestSound(q)
      BY DEF CouponsInv, RequestsSound
    <2>2. CASE q = r
      BY <1>1, <1>9, <2>2 DEF RequestSound
    <2>3. CASE q # r
      <3>1. PICK l : l = label[q]
        OBVIOUS
      <3>2. ASSUME Adding(q), l \notin disturbed
            PROVE  ~HasRow(l)'
        <4>1. OneGroup(l, q) /\ ~HasRow(l)
          BY <2>1, <3>1, <3>2 DEF RequestSound
        <4>2. l # m
          BY <1>5, <2>3, <3>2, <4>1, OneGroupIs
        <4> QED BY <1>6, <4>1, <4>2
      <3>3. (Adding(q) => label[q] \in disturbed \/ (OneGroup(label[q], q) /\ ~HasRow(label[q])))'
        <4>1. label'[q] = l /\ disturbed' = disturbed /\ (Adding(q)' => Adding(q))
          BY <1>1, <1>8, <2>3, <3>1
        <4>2. Adding(q) /\ l \notin disturbed => OneGroup(label[q], q)' /\ ~HasRow(label[q])'
          <5>1. Adding(q) /\ l \notin disturbed => OneGroup(l, q)' /\ ~HasRow(l)'
            BY <1>11, <2>1, <3>1, <3>2 DEF RequestSound
          <5> QED BY <4>1, <5>1 DEF OneGroup, Labelled, HasRow
        <4> QED BY <4>1, <4>2
      <3>4. (/\ cpc[q] = "count" => cop[q].kind # "price"
             /\ cop[q].kind = "price" => HasRow(label[q])
             /\ cpc[q] = "send" => \A g \in fetched[q] : Accounted(g.label)
             /\ cpc[q] = "send" /\ cop[q].kind # "price" =>
                  \A g \in fetched[q] : g.label # label[q])'
        BY <1>1, <1>6, <1>10, <2>1, <2>3 DEF RequestSound
      <3> QED BY <3>3, <3>4 DEF RequestSound
    <2> QED BY <2>2, <2>3
  <1> QED BY <1>3, <1>12, <1>13, <1>14 DEF CouponsInv, SettingsSound, RequestsSound

\* The price is written; a group that has another one by then is disturbed.
LEMMA PricingKeeps ==
    ASSUME CouponsInv, NEW r \in CouponRequests, WritePrice(r)
    PROVE  CouponsInv'
  <1> DEFINE Priced(s) == IF s.label = label[r] THEN [s EXCEPT !.price = r] ELSE s
  <1>1. /\ Repricing(r) /\ cpc'[r] = "done" /\ settings' = {Priced(s) : s \in settings}
        /\ UNCHANGED <<groups, orphaned, cop, label, fetched>>
        /\ \A q \in CouponRequests \ {r} : cpc'[q] = cpc[q]
        /\ cpc' = [q \in CouponRequests |-> cpc'[q]]
        /\ disturbed \subseteq disturbed'
        /\ (\E g \in groups : g.label = label[r] /\ g.price # r) => label[r] \in disturbed'
    BY DEF WritePrice, Repricing, At, CouponsInv, CouponsTyped
  <1>2. ASSUME NEW s \in settings
        PROVE  /\ IsSetting(Priced(s)) /\ Priced(s).label = s.label
               /\ s.label = label[r] => Priced(s).price = r
               /\ s.label # label[r] => Priced(s).price = s.price
    BY DEF CouponsInv, CouponsTyped, IsSetting
  <1> HIDE DEF Priced
  <1>3. CouponsTyped'
    BY <1>1, <1>2 DEF CouponsInv, CouponsTyped, IsSetting
  <1>4. \A l : HasRow(l)' <=> HasRow(l)
    BY <1>1, <1>2 DEF HasRow
  <1>5. \A l, p : OneGroup(l, p)' <=> OneGroup(l, p)
    BY <1>1 DEF OneGroup, Labelled
  <1>6. \A q \in CouponRequests : /\ Adding(q)' <=> Adding(q)
                                  /\ q # r => (Repricing(q)' <=> Repricing(q))
    BY <1>1 DEF Adding, Repricing
  <1>7. \A l : Accounted(l) => Accounted(l)'
    BY <1>1, <1>4, <1>6 DEF Accounted
  <1>8. ASSUME NEW t \in settings'
        PROVE  SettingSound(t)'
    <2>1. PICK s \in settings : t = Priced(s)
      BY <1>1
    <2>2. SettingSound(s) /\ t.label = s.label
      BY <1>2, <2>1 DEF CouponsInv, SettingsSound
    <2>3. CASE s.label # label[r]
      <3>1. t.price = s.price
        BY <1>2, <2>1, <2>3
      <3>2. \A q \in CouponRequests : Repricing(q) /\ label[q] = s.label =>
              Repricing(q)' /\ label'[q] = s.label
        BY <1>1, <1>6, <2>3
      <3> QED BY <1>1, <1>5, <2>2, <3>1, <3>2 DEF SettingSound
    <2>4. CASE s.label = label[r]
      <3>1. t.price = r
        BY <1>2, <2>1, <2>4
      <3>2. s.label \in disturbed \/ \E p : OneGroup(s.label, p)
        BY <2>2 DEF SettingSound
      <3>3. ASSUME NEW p, OneGroup(s.label, p)
            PROVE  p = r \/ s.label \in disturbed'
        BY <1>1, <2>4, <3>3, OneGroupIs
      <3>4. s.label \in disturbed' \/ OneGroup(s.label, r)'
        BY <1>1, <1>5, <3>2, <3>3
      <3> QED BY <2>2, <3>1, <3>4 DEF SettingSound
    <2> QED BY <2>3, <2>4
  <1>9. GroupsAccounted'
    BY <1>1, <1>7 DEF CouponsInv, GroupsAccounted
  <1>10. ASSUME NEW q \in CouponRequests
         PROVE  RequestSound(q)'
    <2>1. RequestSound(q)
      BY DEF CouponsInv, RequestsSound
    <2>2. /\ cpc'[q] = "send" => cpc[q] = "send"
          /\ cpc'[q] = "count" => cpc[q] = "count"
      BY <1>1
    <2>3. \A l \in disturbed : l \in disturbed'
      BY <1>1
    <2>4. (Adding(q) => label[q] \in disturbed \/ (OneGroup(label[q], q) /\ ~HasRow(label[q])))'
      <3>1. PICK l : l = label[q] /\ label'[q] = l
        BY <1>1
      <3>2. Adding(q)' => l \in disturbed' \/ (OneGroup(l, q)' /\ ~HasRow(l)')
        BY <1>4, <1>5, <1>6, <2>1, <2>3, <3>1 DEF RequestSound
      <3> QED BY <3>1, <3>2 DEF OneGroup, Labelled, HasRow
    <2>5. (/\ cpc[q] = "count" => cop[q].kind # "price"
           /\ cop[q].kind = "price" => HasRow(label[q])
           /\ cpc[q] = "send" => \A g \in fetched[q] : Accounted(g.label)
           /\ cpc[q] = "send" /\ cop[q].kind # "price" =>
                \A g \in fetched[q] : g.label # label[q])'
      BY <1>1, <1>4, <1>7, <2>1, <2>2 DEF RequestSound
    <2> QED BY <2>4, <2>5 DEF RequestSound
  <1> QED BY <1>3, <1>8, <1>9, <1>10 DEF CouponsInv, SettingsSound, RequestsSound

LEMMA FailingKeeps ==
    ASSUME CouponsInv, NEW r \in CouponRequests, RowsLost(r)
    PROVE  CouponsInv'
  <1>1. /\ cpc[r] = "write" /\ cpc'[r] = "done"
        /\ UNCHANGED <<groups, settings, cop, label, fetched>>
        /\ \A q \in CouponRequests \ {r} : cpc'[q] = cpc[q]
        /\ cpc' = [q \in CouponRequests |-> cpc'[q]]
        /\ disturbed \subseteq disturbed' /\ orphaned \subseteq orphaned'
        /\ Repricing(r) => label[r] \in disturbed'
        /\ Adding(r) => label[r] \in orphaned'
    BY DEF RowsLost, Adding, Repricing, At, CouponsInv, CouponsTyped
  <1>2. CouponsTyped'
    BY <1>1 DEF CouponsInv, CouponsTyped, IsSetting
  <1>3. \A l : HasRow(l)' <=> HasRow(l)
    BY <1>1 DEF HasRow
  <1>4. \A l, p : OneGroup(l, p)' <=> OneGroup(l, p)
    BY <1>1 DEF OneGroup, Labelled
  <1>5. \A q \in CouponRequests \ {r} : /\ Adding(q)' <=> Adding(q)
                                        /\ Repricing(q)' <=> Repricing(q)
    BY <1>1 DEF Adding, Repricing
  <1>6. ~Adding(r)'
    BY <1>1 DEF Adding
  <1>7. \A l : Accounted(l) => Accounted(l)'
    BY <1>1, <1>3, <1>5 DEF Accounted
  <1>8. ASSUME NEW s \in settings
        PROVE  SettingSound(s)'
    <2>1. SettingSound(s)
      BY DEF CouponsInv, SettingsSound
    <2>2. \A q \in CouponRequests : Repricing(q) /\ label[q] = s.label =>
            s.label \in disturbed' \/ (Repricing(q)' /\ label'[q] = s.label)
      BY <1>1, <1>5
    <2> QED BY <1>1, <1>4, <2>1, <2>2 DEF SettingSound
  <1>9. GroupsAccounted'
    BY <1>1, <1>7 DEF CouponsInv, GroupsAccounted
  <1>10. ASSUME NEW q \in CouponRequests
         PROVE  RequestSound(q)'
    <2>1. RequestSound(q)
      BY DEF CouponsInv, RequestsSound
    <2>2. CASE q = r
      BY <1>1, <1>3, <1>6, <2>1, <2>2 DEF RequestSound
    <2>3. CASE q # r
      BY <1>1, <1>3, <1>4, <1>5, <1>7, <2>1, <2>3 DEF RequestSound
    <2> QED BY <2>2, <2>3
  <1> QED BY <1>1, <1>2, <1>8, <1>9, <1>10 DEF CouponsInv, SettingsSound, RequestsSound

LEMMA ClosingKeeps ==
    ASSUME CouponsInv, deleteCoreCandyMachine
    PROVE  CouponsInv'
  <1>1. /\ groups' = {} /\ disturbed' = disturbed \cup {g.label : g \in groups}
        /\ UNCHANGED <<settings, cop, cpc, label, fetched, orphaned>>
    BY DEF deleteCoreCandyMachine
  <1>2. CouponsTyped' /\ GroupsAccounted'
    BY <1>1 DEF CouponsInv, CouponsTyped, IsSetting, GroupsAccounted
  <1>3. \A l, p : OneGroup(l, p) => l \in disturbed'
    BY <1>1, OneGroupIs
  <1>4. ASSUME NEW s \in settings
        PROVE  SettingSound(s)'
    BY <1>1, <1>3 DEF CouponsInv, SettingsSound, SettingSound
  <1>5. ASSUME NEW q \in CouponRequests
        PROVE  RequestSound(q)'
    <2>1. RequestSound(q)
      BY DEF CouponsInv, RequestsSound
    <2>2. \A l : (HasRow(l)' <=> HasRow(l)) /\ (Accounted(l)' <=> Accounted(l))
      BY <1>1 DEF HasRow, Accounted, Adding
    <2>3. Adding(q)' <=> Adding(q)
      BY <1>1 DEF Adding
    <2> QED BY <1>1, <1>3, <2>1, <2>2, <2>3 DEF RequestSound
  <1> QED BY <1>1, <1>2, <1>4, <1>5 DEF CouponsInv, SettingsSound, RequestsSound

LEMMA CouponsStart == CouponsInit => CouponsInv
  <1> SUFFICES ASSUME CouponsInit PROVE CouponsInv
    OBVIOUS
  <1>1. /\ cpc = [r \in CouponRequests |-> "idle"] /\ cop = [r \in CouponRequests |-> NoWork]
        /\ label = [r \in CouponRequests |-> NoLabel]
        /\ fetched = [r \in CouponRequests |-> {}]
    BY DEF CouponsInit
  <1>2. PICK token : settings = {Setting(getCouponLabel(t, 0, 0), t, token, First) : t \in Types}
    BY DEF CouponsInit
  <1>3. \A s \in settings : IsSetting(s) /\ s.price = First /\ s.label \in getCouponsWithLabels
    BY <1>2 DEF Setting, IsSetting, getCouponsWithLabels
  <1>4. CouponsTyped
    BY <1>1, <1>3 DEF CouponsTyped
  <1>5. \A r \in CouponRequests : RequestSound(r)
    BY <1>1 DEF RequestSound, Adding, NoWork
  <1>6. ASSUME NEW g \in groups
        PROVE  Accounted(g.label)
    <2>1. PICK l \in getCouponsWithLabels : g.label = l
      <3>1. groups = toUmiGroups
        BY <1>6 DEF CouponsInit
      <3>2. PICK l \in getCouponsWithLabels : g = Group(l, First, TRUE)
        BY <1>6, <3>1 DEF toUmiGroups
      <3> QED BY <3>2 DEF Group
    <2>2. HasRow(l)
      <3>1. PICK t \in Types : l = getCouponLabel(t, 0, 0)
        BY DEF getCouponsWithLabels
      <3>2. PICK s : s = Setting(l, t, token, First)
        OBVIOUS
      <3>3. s \in settings /\ s.label = l
        BY <1>2, <3>1, <3>2 DEF Setting
      <3> QED BY <3>3 DEF HasRow
    <2> QED BY <2>1, <2>2 DEF Accounted
  <1>7. ASSUME NEW s \in settings
        PROVE  SettingSound(s)
    <2>1. CASE groups = toUmiGroups
      <3>1. PICK l \in getCouponsWithLabels : l = s.label
        BY <1>3
      <3>2. \A g : g \in groups <=> \E k \in getCouponsWithLabels : g = Group(k, First, TRUE)
        BY <2>1 DEF toUmiGroups
      <3>3. \A g : g \in groups /\ g.label = l <=> g = Group(l, First, TRUE)
        <4>1. Group(l, First, TRUE) \in groups /\ Group(l, First, TRUE).label = l
          BY <3>2 DEF Group
        <4>2. ASSUME NEW g \in groups, g.label = l
              PROVE  g = Group(l, First, TRUE)
          <5>1. PICK k \in getCouponsWithLabels : g = Group(k, First, TRUE)
            BY <3>2
          <5>2. g.label = k
            BY <5>1 DEF Group
          <5> QED BY <4>2, <5>1, <5>2
        <4> QED BY <4>1, <4>2
      <3>4. Labelled(l) = {Group(l, First, TRUE)}
        <4>1. \A g : g \in Labelled(l) <=> g \in groups /\ g.label = l
          BY DEF Labelled
        <4> QED BY <3>3, <4>1
      <3> QED BY <1>3, <3>1, <3>4 DEF SettingSound, OneGroup
    <2>2. CASE disturbed = getCouponsWithLabels
      BY <1>3, <2>2 DEF SettingSound
    <2> QED BY <2>1, <2>2 DEF CouponsInit
  <1> QED BY <1>4, <1>5, <1>6, <1>7 DEF CouponsInv, SettingsSound, GroupsAccounted, RequestsSound

\* Groups and rows stay in step, but for what is disturbed or orphaned.
THEOREM CouponsInvariance == CouponsSpec => []CouponsInv
  <1>1. CouponsInv /\ CouponsNext => CouponsInv'
    BY ArrivingKeeps, CountingKeeps, FetchingKeeps, LandingKeeps, LosingKeeps, WritingKeeps,
       PricingKeeps, FailingKeeps, ClosingKeeps DEF CouponsNext
  <1>2. CouponsInv /\ UNCHANGED couponVars => CouponsInv'
    BY DEF couponVars, CouponsInv, CouponsTyped, IsSetting, SettingsSound, SettingSound,
       GroupsAccounted, Accounted, RequestsSound, RequestSound, Adding, Repricing, HasRow,
       OneGroup, Labelled
  <1> QED BY <1>1, <1>2, CouponsStart, PTL DEF CouponsSpec

\* addCandyMachineCoupon, addCandyMachineCouponCurrency and the price command: with none
\* of them under way a buyer is shown what the chain charges, but for the labels that a
\* failed or a stale write touched; and a group without a row is left by a failure only.
THEOREM GroupsAgreeAlways == CouponsSpec => []GroupsAgree
  <1>1. ASSUME CouponsInv, CouponsIdle
        PROVE  /\ \A s \in settings : \/ s.label \in disturbed
                                      \/ {g \in groups : g.label = s.label} \in
                                            {{Group(s.label, s.price, c)} : c \in BOOLEAN}
               /\ \A g \in groups : g.label \in orphaned \/ \E s \in settings : s.label = g.label
    <2>1. \A r \in CouponRequests : ~Adding(r) /\ ~Repricing(r)
      BY <1>1 DEF CouponsIdle, Adding, Repricing
    <2>2. \A s \in settings : s.label \in disturbed \/ OneGroup(s.label, s.price)
      BY <1>1, <2>1 DEF CouponsInv, SettingsSound, SettingSound
    <2>3. \A g \in groups : g.label \in orphaned \/ HasRow(g.label)
      BY <1>1, <2>1 DEF CouponsInv, GroupsAccounted, Accounted
    <2> QED BY <2>2, <2>3 DEF OneGroup, Labelled, HasRow
  <1>2. CouponsInv => GroupsAgree
    BY <1>1 DEF GroupsAgree
  <1> QED BY <1>2, CouponsInvariance, PTL

-----------------------------------------------------------------------------
(* The publication of an issue                                            *)

IssueRows == [id : Authors, title : Authors, publishedAt : BOOLEAN]
CollectionRows == [issue : Authors, title : Authors]
MachineRows == [address : Editors, supply : Supplies]
EditorKinds == {"none", "create", "update", "offChain", "onChain", "toggle", "delete",
                "deleteComic", "insert"}

EditorOps == [kind : EditorKinds, supply : Supplies \cup {0}]
Reads == [id : Authors, title : Authors, base : Nat, machines : SUBSET MachineRows]

\* A publication from its second await on
Underway == {"publishing", "collection", "newCollection", "machine", "metadata", "items"}

\* A request is where requests of its kind go.
Fits(r) ==
    /\ epc[r] \in Underway => eop[r].kind = "onChain"
    /\ epc[r] # "idle" /\ eop[r].kind = "onChain" => eop[r].supply \in Supplies
    /\ epc[r] = "write" => eop[r].kind # "onChain"

PublicationTyped ==
    /\ issue \in IssueRows \cup {NoIssue}
    /\ collection \in CollectionRows \cup {NoCollection}
    /\ machines \subseteq MachineRows /\ IsFiniteSet(machines)
    /\ eop \in [Editors -> EditorOps]
    /\ epc \in [Editors -> EditorStages]
    /\ seen \in [Editors -> Reads]
    /\ \A r \in Editors : IsFiniteSet(seen[r].machines) /\ Fits(r)

LEMMA ItemsFinite ==
    ASSUME NEW some, some \subseteq MachineRows, IsFiniteSet(some)
    PROVE  IsFiniteSet(Items(some)) /\ Cardinality(Items(some)) \in Nat
  <1> DEFINE sets == {{m.address} \X MachineLines(m) : m \in some}
  <1>1. IsFiniteSet(sets)
    <2> DEFINE itemsOf == [m \in some |-> {m.address} \X MachineLines(m)]
    <2>1. sets = {itemsOf[m] : m \in some}
      OBVIOUS
    <2>2. itemsOf \in Surjection(some, {itemsOf[m] : m \in some})
      BY DEF Surjection
    <2> QED BY <2>1, <2>2, FS_Surjection
  <1>2. \A s \in sets : IsFiniteSet(s)
    <2> SUFFICES ASSUME NEW m \in some PROVE IsFiniteSet({m.address} \X MachineLines(m))
      OBVIOUS
    <2>1. m.supply \in Nat
      BY PublicationAssumption DEF MachineRows
    <2>2. IsFiniteSet(1..m.supply)
      BY <2>1, UpTo
    <2> QED BY <2>2, FS_Singleton, FS_Product DEF MachineLines
  <1>3. IsFiniteSet(UNION sets)
    BY <1>1, <1>2, FS_UNION
  <1> QED BY <1>3, FS_CardinalityType DEF Items

LEMMA PublicationStartsTyped == PublicationInit => PublicationTyped
  <1> SUFFICES ASSUME PublicationInit PROVE PublicationTyped
    OBVIOUS
  <1>1. issue \in IssueRows \cup {NoIssue}
    <2>1. [id |-> Original, title |-> Original, publishedAt |-> FALSE] \in IssueRows
      BY DEF IssueRows, Authors
    <2> QED BY <2>1 DEF PublicationInit
  <1>2. eop \in [Editors -> EditorOps] /\ epc \in [Editors -> EditorStages]
    BY DEF PublicationInit, EditorOps, EditorKinds, EditorStages
  <1>3. NothingSeen \in Reads
    BY DEF NothingSeen, Reads, Authors
  <1>4. \A r \in Editors : IsFiniteSet(seen[r].machines) /\ Fits(r)
    BY FS_EmptySet DEF PublicationInit, NothingSeen, Fits, Underway
  <1> QED BY <1>1, <1>2, <1>3, <1>4, FS_EmptySet DEF PublicationInit, PublicationTyped

\* Where a request goes, the others staying
LEMMA EditorMoves ==
    ASSUME PublicationTyped, NEW r \in Editors, NEW stage \in EditorStages, Moves(r, stage)
    PROVE  /\ epc' \in [Editors -> EditorStages] /\ epc'[r] = stage
           /\ \A q \in Editors \ {r} : epc'[q] = epc[q]
  BY DEF PublicationTyped, Moves

LEMMA IssueRead ==
    ASSUME PublicationTyped, NEW r \in Editors, issue # NoIssue, ReadsIssue(r)
    PROVE  /\ seen' \in [Editors -> Reads]
           /\ seen'[r] = [seen[r] EXCEPT !.id = issue.id, !.title = issue.title]
           /\ seen'[r].machines = seen[r].machines
           /\ \A q \in Editors \ {r} : seen'[q] = seen[q]
  <1>1. issue.id \in Authors /\ issue.title \in Authors
    BY DEF PublicationTyped, IssueRows
  <1> DEFINE read == [seen[r] EXCEPT !.id = issue.id, !.title = issue.title]
  <1>2. read \in Reads /\ read.machines = seen[r].machines
    BY <1>1 DEF PublicationTyped, Reads
  <1>3. seen' = [seen EXCEPT ![r] = read]
    BY DEF ReadsIssue
  <1> QED BY <1>2, <1>3 DEF PublicationTyped

\* What keeps the rows and what requests read typed keeps everything typed.
LEMMA TypedStays ==
    ASSUME PublicationTyped, NEW r \in Editors, NEW stage \in EditorStages,
           Moves(r, stage), UNCHANGED eop, epc[r] # "idle",
           stage \in Underway => eop[r].kind = "onChain",
           stage = "write" => eop[r].kind # "onChain",
           (issue \in IssueRows \cup {NoIssue})',
           (collection \in CollectionRows \cup {NoCollection})',
           (machines \subseteq MachineRows /\ IsFiniteSet(machines))',
           (seen \in [Editors -> Reads])',
           \A q \in Editors : IsFiniteSet(seen'[q].machines)
    PROVE  PublicationTyped'
  <1>1. \A q \in Editors : Fits(q)'
    <2> TAKE q \in Editors
    <2>1. Fits(q)
      BY DEF PublicationTyped
    <2>2. CASE q = r
      BY <2>1, <2>2, EditorMoves DEF Fits
    <2>3. CASE q # r
      BY <2>1, <2>3, EditorMoves DEF Fits
    <2> QED BY <2>2, <2>3
  <1> QED BY <1>1, EditorMoves DEF PublicationTyped

\* The issue keeps its id and gets another title or date.
LEMMA IssueRowIs ==
    ASSUME PublicationTyped, issue # NoIssue
    PROVE  /\ issue = [id |-> issue.id, title |-> issue.title, publishedAt |-> issue.publishedAt]
           /\ issue.id \in Authors /\ issue.title \in Authors /\ issue.publishedAt \in BOOLEAN
  BY DEF PublicationTyped, IssueRows

\* The requests that read and write the row of the issue
IssueStep(r) ==
    \/ CheckTaken(r) \/ CreateIssue(r) \/ CheckOnChain(r) \/ UpdateIssue(r)
    \/ CheckPublished(r) \/ PublishOffChain(r) \/ ReadDate(r) \/ ToggleDate(r)
    \/ CheckDeletable(r) \/ DeleteIssue(r) \/ ValidatePublication(r)

\* What they read
LEMMA IssueStepReads ==
    ASSUME PublicationTyped, NEW r \in Editors, IssueStep(r)
    PROVE  /\ seen' \in [Editors -> Reads]
           /\ seen'[r].machines = seen[r].machines
           /\ eop[r].kind = "onChain" => seen'[r].base = seen[r].base
           /\ \A q \in Editors \ {r} : seen'[q] = seen[q]
           /\ seen' # seen => issue # NoIssue /\ seen'[r].id = issue.id
  <1>1. CASE UNCHANGED seen
    BY <1>1 DEF PublicationTyped, Reads
  <1>2. CASE issue # NoIssue /\ ReadsIssue(r)
    <2>1. /\ [seen[r] EXCEPT !.id = issue.id, !.title = issue.title].id = issue.id
          /\ [seen[r] EXCEPT !.id = issue.id, !.title = issue.title].base = seen[r].base
      BY DEF PublicationTyped, Reads
    <2> QED BY <1>2, <2>1, IssueRead
  <1>3. CASE seen' # seen /\ ReadDate(r)
    <2> DEFINE read == [seen[r] EXCEPT !.id = issue.id,
                                       !.base = IF issue.publishedAt THEN 1 ELSE 0]
    <2>1. seen' = [seen EXCEPT ![r] = read] /\ issue # NoIssue /\ eop[r].kind # "onChain"
      BY <1>3 DEF ReadDate, Refused, AtCheck
    <2>2. read \in Reads /\ read.machines = seen[r].machines /\ read.id = issue.id
      BY <2>1, IssueRowIs DEF PublicationTyped, Reads
    <2> QED BY <2>1, <2>2 DEF PublicationTyped
  <1> QED BY <1>1, <1>2, <1>3 DEF IssueStep, CheckTaken, CreateIssue, CheckOnChain, UpdateIssue,
             CheckPublished, PublishOffChain, ToggleDate, CheckDeletable, DeleteIssue,
             ValidatePublication, Refused

\* What they write
LEMMA IssueStepWrites ==
    ASSUME PublicationTyped, NEW r \in Editors, IssueStep(r)
    PROVE  /\ (issue \in IssueRows \cup {NoIssue})'
           /\ UNCHANGED <<collection, machines, metadata, lines, flying, index, eop,
                          overlapped, faulted, halted, renumbered, lost>>
  <1>1. CASE UNCHANGED issue
    BY <1>1 DEF PublicationTyped, IssueStep, CheckTaken, CreateIssue, CheckOnChain, UpdateIssue,
             CheckPublished, PublishOffChain, ReadDate, ToggleDate, CheckDeletable, DeleteIssue,
             ValidatePublication, issueRows, itemVars, pubHistory
  <1>2. CASE CreateIssue(r)
    <2>1. [id |-> r, title |-> r, publishedAt |-> FALSE] \in IssueRows
      BY DEF IssueRows, Authors
    <2> QED BY <1>2, <2>1 DEF CreateIssue, PublicationTyped, itemVars, pubHistory
  <1>3. CASE UpdateIssue(r)
    <2>1. SameIssue(r) => [issue EXCEPT !.title = r] \in IssueRows
      BY IssueRowIs DEF SameIssue, IssueRows, Authors
    <2> QED BY <1>3, <2>1 DEF UpdateIssue, PublicationTyped, itemVars
  <1>4. CASE PublishOffChain(r) \/ ToggleDate(r)
    <2>1. \A b \in BOOLEAN : SameIssue(r) => [issue EXCEPT !.publishedAt = b] \in IssueRows
      BY IssueRowIs DEF SameIssue, IssueRows
    <2> QED BY <1>4, <2>1 DEF PublishOffChain, ToggleDate, PublicationTyped, itemVars, pubHistory
  <1>5. CASE DeleteIssue(r)
    BY <1>5 DEF DeleteIssue, PublicationTyped, itemVars, pubHistory
  <1> QED BY <1>1, <1>2, <1>3, <1>4, <1>5 DEF IssueStep, CheckTaken, CheckOnChain, CheckPublished,
             ReadDate, CheckDeletable, ValidatePublication, issueRows

\* Where they go
LEMMA IssueStepMoves ==
    ASSUME NEW r \in Editors, IssueStep(r)
    PROVE  /\ epc[r] \in {"check", "write"}
           /\ \/ Moves(r, "done") \/ (Moves(r, "write") /\ eop[r].kind # "onChain")
              \/ (Moves(r, "publishing") /\ eop[r].kind = "onChain")
  <1>1. CASE CheckTaken(r) \/ CreateIssue(r) \/ CheckOnChain(r) \/ UpdateIssue(r)
    BY <1>1 DEF CheckTaken, CreateIssue, CheckOnChain, UpdateIssue, AtCheck, Refused
  <1>2. CASE CheckPublished(r) \/ PublishOffChain(r) \/ ReadDate(r) \/ ToggleDate(r)
    BY <1>2 DEF CheckPublished, PublishOffChain, ReadDate, ToggleDate, AtCheck, Refused
  <1>3. CASE CheckDeletable(r)
    BY <1>3, Zenon DEF CheckDeletable, Refused
  <1>4. CASE DeleteIssue(r)
    BY <1>4 DEF DeleteIssue
  <1>5. CASE ValidatePublication(r)
    BY <1>5 DEF ValidatePublication, AtCheck, Refused
  <1> QED BY <1>1, <1>2, <1>3, <1>4, <1>5 DEF IssueStep

LEMMA IssueStepTyped ==
    ASSUME PublicationTyped, NEW r \in Editors, IssueStep(r)
    PROVE  PublicationTyped'
  <1>1. \A q \in Editors : IsFiniteSet(seen'[q].machines)
    BY IssueStepReads DEF PublicationTyped
  <1>2. (collection \in CollectionRows \cup {NoCollection})'
        /\ (machines \subseteq MachineRows /\ IsFiniteSet(machines))'
    BY IssueStepWrites DEF PublicationTyped
  <1>3. PICK stage \in {"write", "done", "publishing"} :
          /\ Moves(r, stage) /\ (stage = "write" => eop[r].kind # "onChain")
          /\ stage = "publishing" => eop[r].kind = "onChain"
    <2>1. CASE Moves(r, "done")
      BY <2>1
    <2>2. CASE Moves(r, "write") /\ eop[r].kind # "onChain"
      BY <2>2
    <2>3. CASE Moves(r, "publishing") /\ eop[r].kind = "onChain"
      BY <2>3
    <2> QED BY <2>1, <2>2, <2>3, IssueStepMoves
  <1>4. stage \in EditorStages /\ epc[r] # "idle"
        /\ (stage \in Underway => eop[r].kind = "onChain")
    BY <1>3, IssueStepMoves DEF EditorStages, Underway
  <1> QED BY <1>1, <1>2, <1>3, <1>4, TypedStays, IssueStepReads, IssueStepWrites

\* The steps of a publication, and of the command
PublishingStep(r) ==
    \/ PublicationThrows(r) \/ MarkPublished(r) \/ FindCollection(r) \/ CreateCollection(r)
    \/ CreateMachine(r) \/ FindMetadata(r) \/ MetadataFails(r) \/ BatchInsertItems(r)
    \/ InsertFails(r) \/ InsertItemsCommand(r)

LEMMA MarkPublishedReads ==
    ASSUME PublicationTyped, NEW r \in Editors, MarkPublished(r)
    PROVE  /\ seen' \in [Editors -> Reads] /\ (issue \in IssueRows \cup {NoIssue})'
           /\ seen'[r].id = seen[r].id
           /\ seen'[r].machines = seen[r].machines /\ seen'[r].base = seen[r].base
           /\ \A q \in Editors \ {r} : seen'[q] = seen[q]
           /\ SameIssue(r) => /\ seen'[r].title = issue.title /\ epc' = [epc EXCEPT ![r] = "collection"]
                              /\ issue' = [issue EXCEPT !.publishedAt = TRUE]
           /\ ~SameIssue(r) => epc' = [epc EXCEPT ![r] = "done"] /\ UNCHANGED issue
  <1>1. CASE ~SameIssue(r)
    BY <1>1 DEF MarkPublished, Refused, Moves, PublicationTyped
  <1>2. CASE SameIssue(r)
    <2> DEFINE read == [seen[r] EXCEPT !.title = issue.title]
    <2>1. seen' = [seen EXCEPT ![r] = read]
      BY <1>2 DEF MarkPublished
    <2>2. read \in Reads /\ read.machines = seen[r].machines /\ read.base = seen[r].base
          /\ read.id = seen[r].id /\ read.title = issue.title
      BY <1>2, IssueRowIs DEF PublicationTyped, Reads, SameIssue
    <2>3. [issue EXCEPT !.publishedAt = TRUE] \in IssueRows
      BY <1>2, IssueRowIs DEF SameIssue, IssueRows
    <2> QED BY <1>2, <2>1, <2>2, <2>3 DEF MarkPublished, Moves, PublicationTyped
  <1> QED BY <1>1, <1>2

LEMMA FindCollectionReads ==
    ASSUME PublicationTyped, NEW r \in Editors, FindCollection(r)
    PROVE  /\ seen' \in [Editors -> Reads] /\ \A q \in Editors : IsFiniteSet(seen'[q].machines)
           /\ seen'[r].id = seen[r].id /\ seen'[r].title = seen[r].title
           /\ \A q \in Editors \ {r} : seen'[q] = seen[q]
           /\ \/ /\ collection # NoCollection /\ epc' = [epc EXCEPT ![r] = "machine"]
                 /\ seen'[r].machines = machines
                 /\ seen'[r].base = Cardinality(Items(machines))
                 /\ \/ r \in overlapped'
                    \/ \A q \in Editors \ {r} : ~Publishing(q)
                 /\ overlapped' \subseteq overlapped \cup {r}
              \/ epc' = [epc EXCEPT ![r] = "newCollection"] /\ UNCHANGED <<seen, overlapped>>
           /\ overlapped \subseteq overlapped'
  <1>1. CASE ~(collection # NoCollection /\ collection.issue = seen[r].id)
    BY <1>1 DEF FindCollection, Moves, PublicationTyped
  <1>2. CASE collection # NoCollection /\ collection.issue = seen[r].id
    <2> DEFINE read == [seen[r] EXCEPT !.base = CurrentSupply, !.machines = machines]
    <2>1. seen' = [seen EXCEPT ![r] = read]
      BY <1>2 DEF FindCollection
    <2>2. CurrentSupply \in Nat
      BY ItemsFinite DEF CurrentSupply, PublicationTyped
    <2>3. read \in Reads /\ read.id = seen[r].id /\ read.title = seen[r].title
          /\ read.machines = machines /\ read.base = CurrentSupply
      BY <2>2 DEF PublicationTyped, Reads
    <2> QED BY <1>2, <2>1, <2>3 DEF FindCollection, Moves, PublicationTyped, CurrentSupply
  <1> QED BY <1>1, <1>2

LEMMA PublishingStepTyped ==
    ASSUME PublicationTyped, NEW r \in Editors, PublishingStep(r)
    PROVE  PublicationTyped'
  <1> DEFINE RowsSame == /\ issue' = issue /\ collection' = collection /\ machines' = machines
                         /\ seen' = seen /\ eop' = eop
  <1>0. ASSUME NEW stage \in EditorStages, RowsSame, Moves(r, stage), epc[r] # "idle",
               stage # "write", stage \in Underway => eop[r].kind = "onChain"
        PROVE  PublicationTyped'
    <2>1. /\ (issue \in IssueRows \cup {NoIssue})' /\ (collection \in CollectionRows \cup {NoCollection})'
          /\ (machines \subseteq MachineRows /\ IsFiniteSet(machines))'
          /\ (seen \in [Editors -> Reads])' /\ \A q \in Editors : IsFiniteSet(seen'[q].machines)
      BY <1>0 DEF PublicationTyped
    <2> QED BY <1>0, <2>1, TypedStays
  <1>1. CASE PublicationThrows(r)
    BY <1>0, <1>1 DEF PublicationThrows, issueRows, EditorStages, Underway
  <1>2. CASE MarkPublished(r)
    <2>1. (collection \in CollectionRows \cup {NoCollection})'
          /\ (machines \subseteq MachineRows /\ IsFiniteSet(machines))'
      BY <1>2 DEF MarkPublished, PublicationTyped
    <2>2. \A q \in Editors : IsFiniteSet(seen'[q].machines)
      BY <1>2, MarkPublishedReads DEF PublicationTyped
    <2>3. PICK stage \in {"collection", "done"} : Moves(r, stage)
      BY <1>2, MarkPublishedReads DEF Moves
    <2>4. eop[r].kind = "onChain" /\ epc[r] = "publishing" /\ UNCHANGED eop
      BY <1>2 DEF MarkPublished, PublicationTyped, Fits, Underway
    <2> QED BY <1>2, <2>1, <2>2, <2>3, <2>4, MarkPublishedReads, TypedStays DEF EditorStages
  <1>3. CASE FindCollection(r)
    <2>1. /\ (issue \in IssueRows \cup {NoIssue})' /\ (collection \in CollectionRows \cup {NoCollection})'
          /\ (machines \subseteq MachineRows /\ IsFiniteSet(machines))'
      BY <1>3 DEF FindCollection, PublicationTyped, issueRows
    <2>2. PICK stage \in {"machine", "newCollection"} : Moves(r, stage)
      BY <1>3, FindCollectionReads DEF Moves
    <2>3. eop[r].kind = "onChain" /\ epc[r] = "collection" /\ UNCHANGED eop
      BY <1>3 DEF FindCollection, PublicationTyped, Fits, Underway
    <2> QED BY <1>3, <2>1, <2>2, <2>3, FindCollectionReads, TypedStays DEF EditorStages
  <1>4. CASE CreateCollection(r)
    <2>1. SameIssue(r) => [issue |-> seen[r].id, title |-> seen[r].title] \in CollectionRows
      BY DEF CollectionRows, PublicationTyped, Reads
    <2>2. /\ (issue \in IssueRows \cup {NoIssue})' /\ (collection \in CollectionRows \cup {NoCollection})'
          /\ (machines \subseteq MachineRows /\ IsFiniteSet(machines))'
          /\ (seen \in [Editors -> Reads])' /\ \A q \in Editors : IsFiniteSet(seen'[q].machines)
      BY <1>4, <2>1 DEF CreateCollection, PublicationTyped
    <2>3. PICK stage \in {"machine", "done"} : Moves(r, stage)
      BY <1>4 DEF CreateCollection
    <2>4. eop[r].kind = "onChain" /\ epc[r] = "newCollection" /\ UNCHANGED eop
      BY <1>4 DEF CreateCollection, PublicationTyped, Fits, Underway
    <2> QED BY <2>2, <2>3, <2>4, TypedStays DEF EditorStages
  <1>5. CASE CreateMachine(r)
    <2>0. eop[r].kind = "onChain" /\ epc[r] = "machine" /\ UNCHANGED eop /\ eop[r].supply \in Supplies
      BY <1>5 DEF CreateMachine, PublicationTyped, Fits, Underway
    <2>1. [address |-> r, supply |-> eop[r].supply] \in MachineRows
      BY <2>0 DEF MachineRows
    <2>2. machines' \subseteq MachineRows /\ IsFiniteSet(machines')
      BY <1>5, <2>1, FS_AddElement DEF CreateMachine, PublicationTyped
    <2>3. /\ (issue \in IssueRows \cup {NoIssue})' /\ (collection \in CollectionRows \cup {NoCollection})'
          /\ (seen \in [Editors -> Reads])' /\ \A q \in Editors : IsFiniteSet(seen'[q].machines)
      BY <1>5 DEF CreateMachine, PublicationTyped
    <2>4. Moves(r, "metadata")
      BY <1>5 DEF CreateMachine
    <2> QED BY <2>0, <2>2, <2>3, <2>4, TypedStays DEF EditorStages
  <1>6. CASE FindMetadata(r)
    <2>1. PICK stage \in {"items", "done"} : Moves(r, stage)
      BY <1>6 DEF FindMetadata
    <2>2. eop[r].kind = "onChain" /\ epc[r] = "metadata" /\ RowsSame
      BY <1>6 DEF FindMetadata, PublicationTyped, Fits, Underway
    <2> QED BY <1>0, <2>1, <2>2 DEF EditorStages
  <1>7. CASE MetadataFails(r) \/ InsertFails(r)
    BY <1>0, <1>7 DEF MetadataFails, InsertFails, issueRows, EditorStages, Underway
  <1>8. CASE BatchInsertItems(r)
    <2>1. PICK stage \in {"items", "done"} : Moves(r, stage)
      BY <1>8 DEF BatchInsertItems, Advances
    <2>2. eop[r].kind = "onChain" /\ epc[r] = "items" /\ RowsSame
      BY <1>8 DEF BatchInsertItems, issueRows, PublicationTyped, Fits, Underway
    <2> QED BY <1>0, <2>1, <2>2 DEF EditorStages
  <1>9. CASE InsertItemsCommand(r)
    BY <1>0, <1>9 DEF InsertItemsCommand, AtCheck, issueRows, EditorStages, Underway
  <1> QED BY <1>1, <1>2, <1>3, <1>4, <1>5, <1>6, <1>7, <1>8, <1>9 DEF PublishingStep

LEMMA EditorRequestTyped ==
    ASSUME PublicationTyped, NEW r \in Editors, EditorRequest(r)
    PROVE  /\ PublicationTyped' /\ epc[r] = "idle" /\ epc'[r] = "check" /\ epc' = [epc EXCEPT ![r] = "check"]
           /\ eop' = [eop EXCEPT ![r] = eop'[r]]
           /\ UNCHANGED <<issueRows, itemVars, seen, pubHistory>>
  <1>1. PICK kind \in EditorKinds, supply \in Supplies \cup {0} :
          Starts(r, kind, supply) /\ (kind = "onChain" => supply \in Supplies)
    <2>1. CASE \E supply \in Supplies : Starts(r, "onChain", supply)
      BY <2>1 DEF EditorKinds
    <2>2. CASE \E kind \in {"create", "update", "offChain", "toggle", "delete", "deleteComic", "insert"} :
                 Starts(r, kind, 0)
      <3>1. PICK kind \in {"create", "update", "offChain", "toggle", "delete", "deleteComic", "insert"} :
              Starts(r, kind, 0)
        BY <2>2
      <3>2. kind \in EditorKinds /\ kind # "onChain" /\ 0 \in Supplies \cup {0}
        BY <3>1 DEF EditorKinds
      <3> QED BY <3>1, <3>2
    <2> QED BY <2>1, <2>2 DEF EditorRequest
  <1>2. PICK op : op = [kind |-> kind, supply |-> supply]
    OBVIOUS
  <1>3. op \in EditorOps /\ op.kind = kind /\ op.supply = supply
    BY <1>2 DEF EditorOps
  <1>4. /\ eop' = [eop EXCEPT ![r] = op] /\ epc' = [epc EXCEPT ![r] = "check"] /\ epc[r] = "idle"
        /\ UNCHANGED <<issueRows, itemVars, seen, pubHistory>>
    BY <1>1, <1>2 DEF Starts, Moves
  <1>5. /\ eop' \in [Editors -> EditorOps] /\ epc' \in [Editors -> EditorStages]
        /\ eop'[r] = op /\ epc'[r] = "check"
        /\ \A q \in Editors \ {r} : eop'[q] = eop[q] /\ epc'[q] = epc[q]
    BY <1>3, <1>4 DEF PublicationTyped, EditorStages
  <1>6. \A q \in Editors : Fits(q)'
    <2> TAKE q \in Editors
    <2>1. CASE q = r
      BY <1>1, <1>3, <1>5, <2>1 DEF Fits, Underway
    <2>2. CASE q # r
      BY <1>5, <2>2 DEF Fits, PublicationTyped
    <2> QED BY <2>1, <2>2
  <1> QED BY <1>4, <1>5, <1>6 DEF PublicationTyped, issueRows

LEMMA PublicationStepTyped ==
    ASSUME PublicationTyped, [PublicationNext]_publicationVars
    PROVE  PublicationTyped'
  <1>1. ASSUME NEW r \in Editors, EditorStep(r) PROVE PublicationTyped'
    <2>1. EditorRequest(r) \/ IssueStep(r) \/ PublishingStep(r)
      BY <1>1, Zenon DEF EditorStep, IssueStep, PublishingStep
    <2> QED BY <2>1, EditorRequestTyped, IssueStepTyped, PublishingStepTyped
  <1>2. ASSUME NEW l \in flying, ItemsLand(l) \/ ItemsLost(l) PROVE PublicationTyped'
    BY <1>2 DEF ItemsLand, ItemsLost, PublicationTyped, Fits, issueRows
  <1>3. CASE UNCHANGED publicationVars
    BY <1>3 DEF publicationVars, PublicationTyped, Fits
  <1> QED BY <1>1, <1>2, <1>3 DEF PublicationNext

-----------------------------------------------------------------------------
(* The title on chain                                                      *)

\* An issue's id is the request that made it, and that has ended.
Ended(a) == a = Original \/ (a \in Editors /\ epc[a] = "done")

IdsEnded ==
    /\ issue # NoIssue => Ended(issue.id)
    /\ \A r \in Editors : Ended(seen[r].id)

CollectionNamed == collection # NoCollection => issue # NoIssue /\ issue.id = collection.issue

\* Who writes a title was let in before there was a collection.
WritesLetIn == \A r \in Editors : epc[r] = "write" /\ eop[r].kind = "update" => r \in letIn

\* A publication that will make the collection has the title, or one is late.
TitleAsRead(r) ==
    epc[r] \in {"collection", "newCollection"} /\ SameIssue(r) =>
        issue.title = seen[r].title \/ issue.title \in late

TitleInv ==
    /\ PublicationTyped /\ IdsEnded /\ CollectionNamed /\ WritesLetIn
    /\ (\A r \in Editors : TitleAsRead(r)) /\ TitleAgrees

LEMMA EndedStays ==
    ASSUME NEW r \in Editors, epc[r] # "done", \A q \in Editors \ {r} : epc'[q] = epc[q],
           NEW a, Ended(a)
    PROVE  Ended(a)' /\ (a # r \/ a = Original)
  BY PublicationAssumption DEF Ended

\* Steps that leave id and title of the issue
LEMMA TitleStays ==
    ASSUME TitleInv, PublicationTyped', NEW r \in Editors, epc[r] # "done",
           \A q \in Editors \ {r} : epc'[q] = epc[q] /\ seen'[q] = seen[q] /\ eop'[q] = eop[q],
           UNCHANGED collection, letIn \subseteq letIn', late \subseteq late',
           (issue' = NoIssue) <=> (issue = NoIssue),
           issue # NoIssue => issue'.id = issue.id /\ issue'.title = issue.title,
           Ended(seen'[r].id),
           epc'[r] = "write" /\ eop'[r].kind = "update" => r \in letIn',
           TitleAsRead(r)'
    PROVE  TitleInv'
  <1>1. IdsEnded'
    BY EndedStays, PublicationAssumption DEF TitleInv, IdsEnded, Ended
  <1>2. CollectionNamed'
    BY DEF TitleInv, CollectionNamed
  <1>3. WritesLetIn'
    BY DEF TitleInv, WritesLetIn
  <1>4. \A q \in Editors : TitleAsRead(q)'
    <2> SUFFICES ASSUME NEW q \in Editors \ {r} PROVE TitleAsRead(q)'
      OBVIOUS
    <2>1. TitleAsRead(q)
      BY DEF TitleInv
    <2> QED BY <2>1 DEF TitleAsRead, SameIssue
  <1>5. TitleAgrees'
    BY DEF TitleInv, TitleAgrees
  <1> QED BY <1>1, <1>2, <1>3, <1>4, <1>5 DEF TitleInv

\* Requests that read the issue or set its date
LEMMA DateStepsTitle ==
    ASSUME TitleInv, NEW r \in Editors,
           \/ CheckTaken(r) \/ CheckPublished(r) \/ PublishOffChain(r) \/ ReadDate(r)
           \/ ToggleDate(r) \/ CheckDeletable(r) \/ ValidatePublication(r)
    PROVE  TitleInv'
  <1>1. IssueStep(r) /\ PublicationTyped
    BY DEF IssueStep, TitleInv
  <1>2. /\ PublicationTyped' /\ epc[r] # "done"
        /\ \A q \in Editors \ {r} : epc'[q] = epc[q] /\ seen'[q] = seen[q] /\ eop'[q] = eop[q]
        /\ UNCHANGED <<collection, eop>>
        /\ epc'[r] \notin {"collection", "newCollection"}
    BY <1>1, IssueStepTyped, IssueStepMoves, IssueStepReads, IssueStepWrites, EditorMoves
       DEF EditorStages
  <1>3. UNCHANGED <<letIn, late>> /\ eop[r].kind # "update"
    BY DEF CheckTaken, CheckPublished, PublishOffChain, ReadDate, ToggleDate, CheckDeletable,
           ValidatePublication, AtCheck, pubHistory
  <1>4. /\ (issue' = NoIssue) <=> (issue = NoIssue)
        /\ issue # NoIssue => issue'.id = issue.id /\ issue'.title = issue.title
    <2>1. CASE UNCHANGED issue
      BY <2>1
    <2>2. CASE \E b \in BOOLEAN : SameIssue(r) /\ issue' = [issue EXCEPT !.publishedAt = b]
      <3>1. PICK b \in BOOLEAN : SameIssue(r) /\ issue' = [issue EXCEPT !.publishedAt = b]
        BY <2>2
      <3>2. issue # NoIssue /\ issue' \in IssueRows /\ issue'.id = issue.id /\ issue'.title = issue.title
        BY <1>1, <3>1, IssueRowIs DEF SameIssue, IssueRows
      <3> QED BY <3>2, PublicationAssumption DEF IssueRows
    <2>3. PublishOffChain(r) \/ ToggleDate(r) =>
            UNCHANGED issue \/ \E b \in BOOLEAN : SameIssue(r) /\ issue' = [issue EXCEPT !.publishedAt = b]
      BY DEF PublishOffChain, ToggleDate
    <2> QED BY <2>1, <2>2, <2>3 DEF CheckTaken, CheckPublished, ReadDate, CheckDeletable,
               ValidatePublication, issueRows
  <1>5. Ended(seen'[r].id)
    BY <1>1, IssueStepReads DEF TitleInv, IdsEnded
  <1>6. TitleAsRead(r)'
    BY <1>2 DEF TitleAsRead
  <1> QED BY <1>2, <1>3, <1>4, <1>5, <1>6, TitleStays

\* An update is let in only while there is no collection of this issue.
LEMMA CheckOnChainTitle ==
    ASSUME TitleInv, NEW r \in Editors, CheckOnChain(r)
    PROVE  TitleInv'
  <1>1. IssueStep(r) /\ PublicationTyped
    BY DEF IssueStep, TitleInv
  <1>2. /\ PublicationTyped' /\ epc[r] # "done"
        /\ \A q \in Editors \ {r} : epc'[q] = epc[q] /\ seen'[q] = seen[q] /\ eop'[q] = eop[q]
        /\ UNCHANGED <<collection, eop>>
        /\ epc'[r] \notin {"collection", "newCollection"}
    BY <1>1, IssueStepTyped, IssueStepMoves, IssueStepReads, IssueStepWrites, EditorMoves
       DEF EditorStages
  <1>3. UNCHANGED <<issue, late>> /\ letIn \subseteq letIn'
    BY DEF CheckOnChain, issueRows
  <1>4. epc'[r] = "write" => r \in letIn'
    <2>1. epc'[r] = "done" \/ collection = NoCollection
      BY <1>1, EditorMoves DEF CheckOnChain, Refused, TitleInv, CollectionNamed, EditorStages
    <2> QED BY <2>1 DEF CheckOnChain
  <1>5. Ended(seen'[r].id)
    BY <1>1, IssueStepReads DEF TitleInv, IdsEnded
  <1>6. TitleAsRead(r)'
    BY <1>2 DEF TitleAsRead
  <1> QED BY <1>2, <1>3, <1>4, <1>5, <1>6, TitleStays

\* A new issue has no collection, and no publication has read it.
LEMMA CreateIssueTitle ==
    ASSUME TitleInv, NEW r \in Editors, CreateIssue(r)
    PROVE  TitleInv'
  <1>1. IssueStep(r) /\ PublicationTyped
    BY DEF IssueStep, TitleInv
  <1>2. /\ PublicationTyped' /\ epc[r] = "write" /\ epc'[r] = "done"
        /\ \A q \in Editors \ {r} : epc'[q] = epc[q]
        /\ UNCHANGED <<collection, eop, seen, letIn, late>>
    BY <1>1, IssueStepTyped, EditorMoves DEF CreateIssue, EditorStages, pubHistory
  <1>3. CASE issue # NoIssue
    <2>1. UNCHANGED issue
      BY <1>3 DEF CreateIssue
    <2>2. Ended(seen'[r].id) /\ TitleAsRead(r)'
      BY <1>2 DEF TitleInv, IdsEnded, TitleAsRead
    <2> QED BY <1>2, <2>1, <2>2, TitleStays
  <1>4. CASE issue = NoIssue
    <2>1. issue' # NoIssue /\ issue'.id = r /\ issue'.title = r /\ collection = NoCollection
      <3>1. [id |-> r, title |-> r, publishedAt |-> FALSE] \in IssueRows
        BY DEF IssueRows, Authors
      <3>2. issue' = [id |-> r, title |-> r, publishedAt |-> FALSE]
        BY <1>4 DEF CreateIssue
      <3> QED BY <1>4, <3>1, <3>2, PublicationAssumption DEF IssueRows, TitleInv, CollectionNamed
    <2>2. \A q \in Editors : seen[q].id # r
      BY <1>2, PublicationAssumption DEF TitleInv, IdsEnded, Ended
    <2>3. IdsEnded'
      BY <1>2, <2>1, EndedStays, PublicationAssumption DEF TitleInv, IdsEnded, Ended
    <2>4. \A q \in Editors : TitleAsRead(q)'
      BY <1>2, <2>1, <2>2 DEF TitleAsRead, SameIssue
    <2>5. CollectionNamed' /\ TitleAgrees' /\ WritesLetIn'
      BY <1>2, <2>1 DEF CollectionNamed, TitleAgrees, TitleInv, WritesLetIn
    <2> QED BY <1>2, <2>3, <2>4, <2>5 DEF TitleInv
  <1> QED BY <1>3, <1>4

\* A title written after the row was read for the collection is late.
LEMMA UpdateIssueTitle ==
    ASSUME TitleInv, NEW r \in Editors, UpdateIssue(r)
    PROVE  TitleInv'
  <1>1. IssueStep(r) /\ PublicationTyped
    BY DEF IssueStep, TitleInv
  <1>2. /\ PublicationTyped' /\ epc[r] = "write" /\ epc'[r] = "done" /\ eop[r].kind = "update"
        /\ \A q \in Editors \ {r} : epc'[q] = epc[q]
        /\ UNCHANGED <<collection, eop, seen, letIn>>
    BY <1>1, IssueStepTyped, EditorMoves DEF UpdateIssue, EditorStages
  <1>3. CASE ~SameIssue(r)
    <2>1. UNCHANGED <<issue, late>>
      BY <1>3 DEF UpdateIssue
    <2>2. Ended(seen'[r].id) /\ TitleAsRead(r)'
      BY <1>2 DEF TitleInv, IdsEnded, TitleAsRead
    <2> QED BY <1>2, <2>1, <2>2, TitleStays
  <1>4. CASE SameIssue(r)
    <2>1. issue # NoIssue /\ issue' # NoIssue /\ issue'.id = issue.id /\ issue'.title = r
      <3>1. issue' = [issue EXCEPT !.title = r]
        BY <1>4 DEF UpdateIssue
      <3>2. issue # NoIssue /\ issue' \in IssueRows /\ issue'.id = issue.id /\ issue'.title = r
        BY <1>1, <1>4, <3>1, IssueRowIs DEF SameIssue, IssueRows, Authors
      <3> QED BY <3>2, PublicationAssumption DEF IssueRows
    <2>2. TitleRead => r \in late'
      BY <1>2, <1>4 DEF UpdateIssue, TitleInv, WritesLetIn
    <2>3. IdsEnded'
      BY <1>2, <2>1, EndedStays, PublicationAssumption DEF TitleInv, IdsEnded, Ended
    <2>4. \A q \in Editors : TitleAsRead(q)'
      BY <1>2, <2>1, <2>2 DEF TitleAsRead, SameIssue, TitleRead
    <2>5. CollectionNamed' /\ TitleAgrees' /\ WritesLetIn'
      BY <1>2, <2>1, <2>2 DEF CollectionNamed, TitleAgrees, TitleInv, WritesLetIn, TitleRead
    <2> QED BY <1>2, <2>3, <2>4, <2>5 DEF TitleInv
  <1> QED BY <1>3, <1>4

\* An issue with a collection is not deleted.
LEMMA DeleteIssueTitle ==
    ASSUME TitleInv, NEW r \in Editors, DeleteIssue(r)
    PROVE  TitleInv'
  <1>1. IssueStep(r) /\ PublicationTyped
    BY DEF IssueStep, TitleInv
  <1>2. /\ PublicationTyped' /\ epc[r] = "write" /\ epc'[r] = "done"
        /\ \A q \in Editors \ {r} : epc'[q] = epc[q]
        /\ UNCHANGED <<collection, eop, seen, letIn, late>>
    BY <1>1, IssueStepTyped, EditorMoves DEF DeleteIssue, EditorStages, pubHistory
  <1>3. issue' = issue \/ (issue' = NoIssue /\ collection = NoCollection)
    BY DEF DeleteIssue, TitleInv, CollectionNamed
  <1>4. IdsEnded'
    BY <1>2, <1>3, EndedStays, PublicationAssumption DEF TitleInv, IdsEnded, Ended
  <1>5. \A q \in Editors : TitleAsRead(q)'
    BY <1>2, <1>3 DEF TitleAsRead, SameIssue, TitleInv
  <1>6. CollectionNamed' /\ TitleAgrees' /\ WritesLetIn'
    BY <1>2, <1>3 DEF CollectionNamed, TitleAgrees, TitleInv, WritesLetIn
  <1> QED BY <1>2, <1>4, <1>5, <1>6 DEF TitleInv

\* The collection takes the title that was read.
LEMMA CreateCollectionTitle ==
    ASSUME TitleInv, NEW r \in Editors, CreateCollection(r)
    PROVE  TitleInv'
  <1>1. PublishingStep(r) /\ PublicationTyped
    BY DEF PublishingStep, TitleInv
  <1>2. /\ PublicationTyped' /\ epc[r] = "newCollection" /\ epc'[r] \in {"machine", "done"}
        /\ \A q \in Editors \ {r} : epc'[q] = epc[q]
        /\ UNCHANGED <<issue, eop, seen, letIn, late>>
    BY <1>1, PublishingStepTyped, EditorMoves DEF CreateCollection, EditorStages, pubHistory
  <1>3. IdsEnded' /\ WritesLetIn' /\ \A q \in Editors : TitleAsRead(q)'
    BY <1>2, EndedStays, PublicationAssumption
       DEF TitleInv, IdsEnded, Ended, WritesLetIn, TitleAsRead, SameIssue
  <1>4. CASE UNCHANGED collection
    BY <1>2, <1>3, <1>4 DEF TitleInv, CollectionNamed, TitleAgrees
  <1>5. CASE SameIssue(r) /\ collection' = [issue |-> seen[r].id, title |-> seen[r].title]
    BY <1>2, <1>3, <1>5 DEF TitleInv, CollectionNamed, TitleAgrees, TitleAsRead, SameIssue
  <1> QED BY <1>4, <1>5 DEF CreateCollection

\* The other steps of a publication
LEMMA PublishingTitle ==
    ASSUME TitleInv, NEW r \in Editors, PublishingStep(r), ~CreateCollection(r)
    PROVE  TitleInv'
  <1>1. PublicationTyped /\ PublicationTyped'
    BY PublishingStepTyped DEF TitleInv
  <1>2. CASE MarkPublished(r)
    <2>1. /\ epc[r] = "publishing" /\ eop[r].kind = "onChain"
          /\ UNCHANGED <<collection, eop, letIn, late>>
      BY <1>1, <1>2 DEF MarkPublished, pubHistory, PublicationTyped, Fits, Underway
    <2>2. \A q \in Editors \ {r} : epc'[q] = epc[q] /\ seen'[q] = seen[q] /\ eop'[q] = eop[q]
      BY <1>1, <1>2, <2>1, MarkPublishedReads DEF PublicationTyped
    <2>3. Ended(seen'[r].id)
      BY <1>1, <1>2, MarkPublishedReads DEF TitleInv, IdsEnded
    <2>4. CASE ~SameIssue(r)
      <3>1. epc'[r] = "done" /\ UNCHANGED issue
        BY <1>1, <1>2, <2>4, MarkPublishedReads DEF PublicationTyped
      <3>2. TitleAsRead(r)'
        BY <3>1 DEF TitleAsRead
      <3> QED BY <1>1, <2>1, <2>2, <2>3, <3>1, <3>2, TitleStays
    <2>5. CASE SameIssue(r)
      <3>1. /\ issue' = [issue EXCEPT !.publishedAt = TRUE] /\ seen'[r].title = issue.title
            /\ epc'[r] = "collection"
        BY <1>1, <1>2, <2>5, MarkPublishedReads DEF PublicationTyped
      <3>2. issue # NoIssue /\ issue' \in IssueRows /\ issue'.id = issue.id /\ issue'.title = issue.title
        BY <1>1, <2>5, <3>1, IssueRowIs DEF SameIssue, IssueRows
      <3>3. issue' # NoIssue
        BY <3>2, PublicationAssumption DEF IssueRows
      <3>4. TitleAsRead(r)'
        BY <3>1, <3>2 DEF TitleAsRead
      <3> QED BY <1>1, <2>1, <2>2, <2>3, <3>1, <3>2, <3>3, <3>4, TitleStays
    <2> QED BY <2>4, <2>5
  <1>3. CASE FindCollection(r)
    <2>1. epc[r] = "collection" /\ UNCHANGED <<issue, collection, eop, letIn, late>>
      BY <1>3 DEF FindCollection, issueRows
    <2>2. /\ \A q \in Editors \ {r} : epc'[q] = epc[q] /\ seen'[q] = seen[q] /\ eop'[q] = eop[q]
          /\ seen'[r].id = seen[r].id /\ seen'[r].title = seen[r].title
          /\ epc'[r] # "write"
      BY <1>1, <1>3, <2>1, FindCollectionReads DEF PublicationTyped
    <2>3. Ended(seen'[r].id) /\ TitleAsRead(r)'
      BY <2>1, <2>2 DEF TitleInv, IdsEnded, TitleAsRead, SameIssue
    <2> QED BY <1>1, <2>1, <2>2, <2>3, TitleStays
  <1>4. CASE PublicationThrows(r) \/ CreateMachine(r) \/ FindMetadata(r) \/ MetadataFails(r)
             \/ BatchInsertItems(r) \/ InsertFails(r) \/ InsertItemsCommand(r)
    <2>1. UNCHANGED <<issue, collection, eop, seen, letIn, late>> /\ epc[r] # "done"
      BY <1>4 DEF PublicationThrows, CreateMachine, FindMetadata, MetadataFails, BatchInsertItems,
             InsertFails, InsertItemsCommand, issueRows, AtCheck, pubHistory
    <2>2. \E stage \in {"done", "metadata", "items"} : Moves(r, stage)
      BY <1>4 DEF PublicationThrows, CreateMachine, FindMetadata, MetadataFails, BatchInsertItems,
             Advances, InsertFails, InsertItemsCommand
    <2>3. /\ epc'[r] \notin {"write", "collection", "newCollection"}
          /\ \A q \in Editors \ {r} : epc'[q] = epc[q]
      BY <1>1, <2>2, EditorMoves DEF EditorStages
    <2>4. Ended(seen'[r].id) /\ TitleAsRead(r)'
      BY <2>1, <2>3 DEF TitleInv, IdsEnded, TitleAsRead
    <2> QED BY <1>1, <2>1, <2>3, <2>4, TitleStays
  <1> QED BY <1>2, <1>3, <1>4 DEF PublishingStep

LEMMA TitleStarts == PublicationInit => TitleInv
  <1> SUFFICES ASSUME PublicationInit PROVE TitleInv
    OBVIOUS
  <1>1. PublicationTyped
    BY PublicationStartsTyped
  <1>2. IdsEnded
    BY PublicationAssumption DEF PublicationInit, IdsEnded, Ended, NothingSeen
  <1> QED BY <1>1, <1>2 DEF PublicationInit, TitleInv, CollectionNamed, WritesLetIn, TitleAsRead,
             TitleAgrees

\* Ids, titles and the collection stay as described.
THEOREM TitleInvariance == PublicationSpec => []TitleInv
  <1>1. ASSUME TitleInv, NEW r \in Editors, EditorStep(r)
        PROVE  TitleInv'
    <2>1. CASE EditorRequest(r)
      <3>1. PublicationTyped /\ PublicationTyped' /\ epc[r] = "idle" /\ epc'[r] = "check"
        BY <1>1, <2>1, EditorRequestTyped DEF TitleInv
      <3>2. UNCHANGED <<issue, collection, seen, letIn, late>>
        BY <1>1, <2>1, EditorRequestTyped DEF TitleInv, issueRows, pubHistory
      <3>3. \A q \in Editors \ {r} : epc'[q] = epc[q] /\ eop'[q] = eop[q]
        BY <1>1, <2>1, EditorRequestTyped DEF TitleInv, PublicationTyped
      <3>4. Ended(seen'[r].id) /\ TitleAsRead(r)'
        BY <1>1, <3>1, <3>2 DEF TitleInv, IdsEnded, TitleAsRead
      <3> QED BY <1>1, <3>1, <3>2, <3>3, <3>4, TitleStays
    <2>2. CASE CreateCollection(r) \/ PublishingStep(r)
      BY <1>1, <2>2, CreateCollectionTitle, PublishingTitle
    <2>3. CASE CreateIssue(r) \/ CheckOnChain(r) \/ UpdateIssue(r) \/ DeleteIssue(r)
      BY <1>1, <2>3, CreateIssueTitle, CheckOnChainTitle, UpdateIssueTitle, DeleteIssueTitle
    <2>4. CASE CheckTaken(r) \/ CheckPublished(r) \/ PublishOffChain(r) \/ ReadDate(r)
               \/ ToggleDate(r) \/ CheckDeletable(r) \/ ValidatePublication(r)
      BY <1>1, <2>4, DateStepsTitle
    <2> QED BY <1>1, <2>1, <2>2, <2>3, <2>4, Zenon DEF EditorStep, PublishingStep
  <1>2. ASSUME TitleInv, (\E l \in flying : ItemsLand(l) \/ ItemsLost(l)) \/ UNCHANGED publicationVars
        PROVE  TitleInv'
    <2>1. PublicationTyped'
      BY <1>2, PublicationStepTyped DEF TitleInv, PublicationNext
    <2>2. UNCHANGED <<issue, collection, epc, eop, seen, letIn, late>>
      BY <1>2 DEF ItemsLand, ItemsLost, issueRows, pubHistory, publicationVars
    <2> QED BY <1>2, <2>1, <2>2 DEF TitleInv, IdsEnded, Ended, CollectionNamed, WritesLetIn,
               TitleAsRead, SameIssue, TitleAgrees
  <1>3. TitleInv /\ [PublicationNext]_publicationVars => TitleInv'
    BY <1>1, <1>2 DEF PublicationNext
  <1> QED BY <1>3, TitleStarts, PTL DEF PublicationSpec

\* update, throwIfComicIsPublishedOnChain and getOrCreateComicIssueCollection: the title on
\* chain is the issue's, but for edits let in before and written after it was read.
THEOREM TitleAgreesAlways == PublicationSpec => []TitleAgrees
  <1>1. TitleInv => TitleAgrees
    BY DEF TitleInv
  <1> QED BY <1>1, TitleInvariance, PTL

-----------------------------------------------------------------------------
(* The machines of the collection, one after the other                     *)

Unmade == {"idle", "check", "publishing", "collection", "newCollection"}
Making == {"machine", "metadata", "items"}
Made == {"metadata", "items", "done"}

OnChain(r) == eop[r].kind = "onChain"

\* A publication numbers its items after those of the machines it found.
SupplyFound(r) ==
    /\ OnChain(r) => seen[r].base = Cardinality(Items(seen[r].machines))
    /\ epc[r] \in Unmade => seen[r].machines = {} /\ seen[r].base = 0
    /\ seen[r].machines \subseteq machines

MachineSound(m) ==
    /\ OnChain(m.address) /\ m.supply = eop[m.address].supply
    /\ epc[m.address] \in Made
    /\ \A k \in seen[m.address].machines : k.address # m.address

HasCollection ==
    machines # {} \/ (\E r \in Editors : epc[r] \in Making) => collection # NoCollection

\* Who found a machine found what its publication had found.
FoundAll ==
    \A r \in Editors : \A m \in seen[r].machines : seen[m.address].machines \subseteq seen[r].machines

OneOverlaps(a, b) == a = b \/ a \in overlapped \/ b \in overlapped

\* Two publications that make something at once overlap, and the one that does not has
\* found the less.
Alone ==
    \A a, b \in Editors : epc[a] \in Making /\ epc[b] \in Making =>
        /\ OneOverlaps(a, b)
        /\ a \notin overlapped => seen[a].machines \subseteq seen[b].machines

\* Nothing was made since a publication looked, but by one that overlaps.
UpToDate ==
    \A r \in Editors : epc[r] = "machine" /\ r \notin overlapped =>
        \A m \in machines : m \in seen[r].machines \/ m.address \in overlapped

InTurn ==
    \A m, k \in machines : \/ OneOverlaps(m.address, k.address)
                           \/ m \in seen[k.address].machines \/ k \in seen[m.address].machines

TurnsInv ==
    /\ \A r \in Editors : SupplyFound(r)
    /\ \A m \in machines : MachineSound(m)
    /\ HasCollection /\ FoundAll /\ Alone /\ UpToDate /\ InTurn

LEMMA NoItems == Items({}) = {} /\ Cardinality(Items({})) = 0
  BY FS_EmptySet DEF Items

\* Steps of requests that have no machine yet and are not about to make one
LEMMA TurnsStay ==
    ASSUME PublicationTyped, PublicationTyped', TurnsInv, NEW r \in Editors,
           epc[r] \notin Made, epc'[r] \notin Making,
           \A q \in Editors \ {r} : epc'[q] = epc[q] /\ seen'[q] = seen[q] /\ eop'[q] = eop[q],
           UNCHANGED <<machines, overlapped>>,
           collection # NoCollection => collection' # NoCollection,
           seen'[r].machines = seen[r].machines,
           epc[r] = "write" => epc'[r] \notin Unmade,
           OnChain(r)' \/ epc'[r] \in Unmade => seen'[r].base = seen[r].base,
           OnChain(r)' => OnChain(r) \/ epc[r] \in Unmade,
           epc'[r] \in Unmade => epc[r] \in Unmade
    PROVE  TurnsInv' /\ \A m \in machines : m.address # r
  <1>1. \A m \in machines : m.address \in Editors /\ m.address # r
    BY DEF TurnsInv, MachineSound, PublicationTyped, MachineRows
  <1>2. \A q \in Editors : SupplyFound(q)'
    <2> TAKE q \in Editors
    <2>1. SupplyFound(q)
      BY DEF TurnsInv
    <2>2. CASE q # r
      BY <2>1, <2>2 DEF SupplyFound, OnChain
    <2>3. CASE q = r
      BY <2>1, <2>3, NoItems DEF SupplyFound, OnChain
    <2> QED BY <2>2, <2>3
  <1>3. \A m \in machines' : MachineSound(m)'
    BY <1>1 DEF TurnsInv, MachineSound, OnChain
  <1>4. HasCollection'
    BY DEF TurnsInv, HasCollection
  <1>5. FoundAll'
    <2> SUFFICES ASSUME NEW q \in Editors, NEW m \in seen'[q].machines
                 PROVE  seen'[m.address].machines \subseteq seen'[q].machines
      BY DEF FoundAll
    <2>1. seen'[q].machines = seen[q].machines
      OBVIOUS
    <2>2. m \in machines
      BY <2>1 DEF TurnsInv, SupplyFound
    <2> QED BY <1>1, <2>1, <2>2 DEF TurnsInv, FoundAll
  <1>6. Alone'
    BY DEF TurnsInv, Alone, OneOverlaps
  <1>7. UpToDate'
    BY DEF TurnsInv, UpToDate, Making
  <1>8. InTurn'
    BY <1>1 DEF TurnsInv, InTurn, OneOverlaps
  <1> QED BY <1>1, <1>2, <1>3, <1>4, <1>5, <1>6, <1>7, <1>8 DEF TurnsInv

\* Steps after the machine is made
LEMMA TurnsGo ==
    ASSUME PublicationTyped, PublicationTyped', TurnsInv, NEW r \in Editors,
           epc[r] \in {"metadata", "items"}, epc'[r] \in {"items", "done"},
           \A q \in Editors \ {r} : epc'[q] = epc[q],
           UNCHANGED <<machines, overlapped, collection, seen, eop>>
    PROVE  TurnsInv'
  <1>2. \A q \in Editors : SupplyFound(q)'
    BY DEF TurnsInv, SupplyFound, OnChain, Unmade
  <1>3. \A m \in machines' : MachineSound(m)'
    BY DEF TurnsInv, MachineSound, OnChain, Made, PublicationTyped, MachineRows
  <1>4. HasCollection'
    BY DEF TurnsInv, HasCollection, Making
  <1>5. FoundAll'
    BY DEF TurnsInv, FoundAll
  <1>6. Alone'
    BY DEF TurnsInv, Alone, OneOverlaps, Making
  <1>7. UpToDate'
    BY DEF TurnsInv, UpToDate
  <1>8. InTurn'
    BY DEF TurnsInv, InTurn, OneOverlaps
  <1> QED BY <1>2, <1>3, <1>4, <1>5, <1>6, <1>7, <1>8 DEF TurnsInv

\* A publication finds what there is; if another is under way, it overlaps.
LEMMA FindCollectionTurns ==
    ASSUME PublicationTyped, TurnsInv, NEW r \in Editors, FindCollection(r)
    PROVE  TurnsInv'
  <1>1. /\ PublicationTyped' /\ epc[r] = "collection" /\ OnChain(r)
        /\ UNCHANGED <<machines, collection, eop>>
    <2>1. PublicationTyped'
      BY PublishingStepTyped DEF PublishingStep
    <2> QED BY <2>1 DEF FindCollection, PublicationTyped, Fits, Underway, OnChain, issueRows
  <1>2. \A q \in Editors \ {r} : epc'[q] = epc[q] /\ seen'[q] = seen[q] /\ eop'[q] = eop[q]
    BY <1>1, FindCollectionReads DEF PublicationTyped
  <1>3. CASE epc' = [epc EXCEPT ![r] = "newCollection"] /\ UNCHANGED <<seen, overlapped>>
    <2>1. epc'[r] = "newCollection"
      BY <1>3 DEF PublicationTyped
    <2> QED BY <1>1, <1>2, <1>3, <2>1, TurnsStay DEF Made, Making, Unmade, OnChain
  <1>4. CASE /\ collection # NoCollection /\ epc' = [epc EXCEPT ![r] = "machine"]
             /\ seen'[r].machines = machines
             /\ seen'[r].base = Cardinality(Items(machines))
             /\ r \in overlapped' \/ \A q \in Editors \ {r} : ~Publishing(q)
             /\ overlapped' \subseteq overlapped \cup {r} /\ overlapped \subseteq overlapped'
    <2>1. epc'[r] = "machine"
      BY <1>4 DEF PublicationTyped
    <2>2. \A m \in machines : m.address \in Editors /\ m.address # r /\ seen[m.address].machines \subseteq machines
      BY <1>1 DEF TurnsInv, MachineSound, PublicationTyped, MachineRows, Made, SupplyFound
    <2>3. \A q \in Editors \ {r} : epc[q] \in Making => Publishing(q)
      BY DEF Making, Publishing, PublicationTyped, Fits, Underway
    <2>4. \A q \in Editors : SupplyFound(q)'
      BY <1>1, <1>2, <1>4, <2>1 DEF TurnsInv, SupplyFound, OnChain, Unmade
    <2>5. \A m \in machines' : MachineSound(m)'
      BY <1>1, <1>2, <2>2 DEF TurnsInv, MachineSound, OnChain
    <2>6. HasCollection'
      BY <1>1, <1>4 DEF HasCollection
    <2>7. FoundAll'
      <3> SUFFICES ASSUME NEW q \in Editors, NEW m \in seen'[q].machines
                   PROVE  seen'[m.address].machines \subseteq seen'[q].machines
        BY DEF FoundAll
      <3>1. CASE q = r
        BY <1>2, <1>4, <2>2, <3>1
      <3>2. CASE q # r
        <4>1. m \in seen[q].machines /\ m \in machines
          BY <1>2, <3>2 DEF TurnsInv, SupplyFound
        <4> QED BY <1>2, <2>2, <3>2, <4>1 DEF TurnsInv, FoundAll
      <3> QED BY <3>1, <3>2
    <2>8. Alone'
      <3> SUFFICES ASSUME NEW a \in Editors, NEW b \in Editors, epc'[a] \in Making, epc'[b] \in Making
                   PROVE  /\ OneOverlaps(a, b)'
                          /\ a \notin overlapped' => seen'[a].machines \subseteq seen'[b].machines
        BY DEF Alone
      <3>1. CASE a = b
        BY <3>1 DEF OneOverlaps
      <3>2. CASE a # b /\ a = r
        BY <1>2, <1>4, <2>3, <3>2 DEF OneOverlaps
      <3>3. CASE a # b /\ b = r
        BY <1>2, <1>4, <2>3, <3>3 DEF OneOverlaps, TurnsInv, SupplyFound
      <3>4. CASE a # r /\ b # r
        BY <1>2, <1>4, <3>4 DEF TurnsInv, Alone, OneOverlaps
      <3> QED BY <3>1, <3>2, <3>3, <3>4
    <2>9. UpToDate'
      BY <1>1, <1>2, <1>4 DEF TurnsInv, UpToDate
    <2>10. InTurn'
      BY <1>1, <1>2, <1>4, <2>2 DEF TurnsInv, InTurn, OneOverlaps
    <2> QED BY <2>4, <2>5, <2>6, <2>7, <2>8, <2>9, <2>10 DEF TurnsInv
  <1> QED BY <1>3, <1>4, FindCollectionReads

\* A new collection has no machines, and nobody makes any.
LEMMA CreateCollectionTurns ==
    ASSUME PublicationTyped, TurnsInv, NEW r \in Editors, CreateCollection(r)
    PROVE  TurnsInv'
  <1>1. /\ PublicationTyped' /\ epc[r] = "newCollection" /\ OnChain(r)
        /\ UNCHANGED <<machines, overlapped, seen, eop>>
    <2>1. PublicationTyped'
      BY PublishingStepTyped DEF PublishingStep
    <2> QED BY <2>1 DEF CreateCollection, PublicationTyped, Fits, Underway, OnChain, pubHistory
  <1>2. \A q \in Editors \ {r} : epc'[q] = epc[q]
    BY DEF CreateCollection, Moves, PublicationTyped
  <1>3. CASE UNCHANGED collection /\ Moves(r, "done")
    <2>1. epc'[r] = "done"
      BY <1>3 DEF Moves, PublicationTyped
    <2> QED BY <1>1, <1>2, <1>3, <2>1, TurnsStay DEF Made, Making, Unmade, OnChain
  <1>4. CASE collection = NoCollection /\ Moves(r, "machine")
             /\ collection' = [issue |-> seen[r].id, title |-> seen[r].title] /\ SameIssue(r)
    <2>1. epc'[r] = "machine"
      BY <1>4 DEF Moves, PublicationTyped
    <2>2. collection' # NoCollection
      BY <1>4, PublicationAssumption DEF CollectionRows, PublicationTyped, Reads
    <2>3. machines = {} /\ \A q \in Editors : epc[q] \notin Making /\ seen[q].machines = {}
      BY <1>4 DEF TurnsInv, HasCollection, SupplyFound
    <2>4. \A q \in Editors : SupplyFound(q)'
      BY <1>1, <1>2, <2>1 DEF TurnsInv, SupplyFound, OnChain, Unmade
    <2>5. HasCollection' /\ FoundAll' /\ Alone' /\ UpToDate' /\ InTurn'
      BY <1>1, <1>2, <2>1, <2>2, <2>3 DEF HasCollection, FoundAll, Alone, UpToDate, InTurn, OneOverlaps
    <2> QED BY <1>1, <2>3, <2>4, <2>5 DEF TurnsInv
  <1> QED BY <1>3, <1>4 DEF CreateCollection

\* The machine comes after those that were found.
LEMMA CreateMachineTurns ==
    ASSUME PublicationTyped, TurnsInv, NEW r \in Editors, CreateMachine(r)
    PROVE  TurnsInv' /\ \A m \in machines : m.address # r
  <1>1. /\ PublicationTyped' /\ epc[r] = "machine" /\ OnChain(r)
        /\ UNCHANGED <<collection, overlapped, seen, eop>>
    <2>1. PublicationTyped'
      BY PublishingStepTyped DEF PublishingStep
    <2> QED BY <2>1 DEF CreateMachine, PublicationTyped, Fits, Underway, OnChain, pubHistory
  <1>2. epc'[r] = "metadata" /\ \A q \in Editors \ {r} : epc'[q] = epc[q]
    BY DEF CreateMachine, Moves, PublicationTyped
  <1>3. PICK n : n = [address |-> r, supply |-> eop[r].supply]
    OBVIOUS
  <1>4. n.address = r /\ n.supply = eop[r].supply /\ machines' = machines \cup {n}
    BY <1>3 DEF CreateMachine
  <1>5. \A m \in machines : m.address \in Editors /\ m.address # r
    BY <1>1 DEF TurnsInv, MachineSound, PublicationTyped, MachineRows, Made
  <1>6. \A q \in Editors : SupplyFound(q)'
    BY <1>1, <1>2, <1>4 DEF TurnsInv, SupplyFound, OnChain, Unmade
  <1>7. \A m \in machines' : MachineSound(m)'
    <2>1. MachineSound(n)'
      BY <1>1, <1>2, <1>4, <1>5 DEF MachineSound, OnChain, Made, TurnsInv, SupplyFound
    <2>2. \A m \in machines : MachineSound(m)'
      BY <1>1, <1>2, <1>5 DEF TurnsInv, MachineSound, OnChain
    <2> QED BY <1>4, <2>1, <2>2
  <1>8. HasCollection' /\ FoundAll'
    BY <1>1 DEF TurnsInv, HasCollection, FoundAll, Making
  <1>9. Alone'
    BY <1>1, <1>2 DEF TurnsInv, Alone, OneOverlaps, Making
  <1>10. UpToDate'
    <2> SUFFICES ASSUME NEW q \in Editors, epc'[q] = "machine", q \notin overlapped', NEW m \in machines'
                 PROVE  m \in seen'[q].machines \/ m.address \in overlapped'
      BY DEF UpToDate
    <2>1. q # r /\ epc[q] = "machine"
      BY <1>2
    <2>2. r \in overlapped
      BY <1>1, <2>1 DEF TurnsInv, Alone, OneOverlaps, Making
    <2> QED BY <1>1, <1>4, <2>1, <2>2 DEF TurnsInv, UpToDate
  <1>11. InTurn'
    <2> SUFFICES ASSUME NEW m \in machines', NEW k \in machines'
                 PROVE  \/ OneOverlaps(m.address, k.address)'
                        \/ m \in seen'[k.address].machines \/ k \in seen'[m.address].machines
      BY DEF InTurn
    <2>1. CASE m \in machines /\ k \in machines
      BY <1>1, <2>1 DEF TurnsInv, InTurn, OneOverlaps
    <2>2. \A j \in machines : r \in overlapped \/ j \in seen[r].machines \/ j.address \in overlapped
      BY <1>1 DEF TurnsInv, UpToDate
    <2> QED BY <1>1, <1>4, <2>1, <2>2 DEF OneOverlaps
  <1> QED BY <1>5, <1>6, <1>7, <1>8, <1>9, <1>10, <1>11 DEF TurnsInv

\* A collection with machines has its metadata, or the first publication is about to
\* insert it.
Uploaded ==
    machines # {} /\ faulted = {} =>
        metadata \/ \E m \in machines : /\ epc[m.address] = "metadata"
                                        /\ seen[m.address].machines = {}

\* Items are named after the supply their publication found.
Numbered ==
    \A k \in Namings :
        \/ k[1] \in renumbered
        \/ \E m \in machines : \E i \in MachineLines(m) :
             k = <<m.address, i, seen[m.address].base + i>>

HasMachine == \A r \in Editors : epc[r] \in {"metadata", "items"} => \E m \in machines : m.address = r

\* A line of a machine is sent.
Sent(r, i) == <<r, i>> \in lost \/ \E l \in Namings : l[1] = r /\ l[2] = i

\* A publication counts the lines it has sent, and no other but the command sends any.
Counts ==
    \A r \in Editors :
        /\ \A i \in 1..index[r] : Sent(r, i)
        /\ r \notin renumbered => \A i \in Nat : Sent(r, i) => i \in 1..index[r]

\* It has a machine to send them to, and sends no more than it asked for.
CountsFit ==
    /\ index \in [Editors -> Nat]
    /\ \A r \in Editors : index[r] # 0 => \E m \in machines : m.address = r
    /\ \A m \in machines : index[m.address] <= m.supply

\* A publication that is over has sent as many as it asked for.
SentAll ==
    \A m \in machines :
        /\ epc[m.address] = "done" /\ m.address \notin overlapped
        /\ faulted = {} /\ m.address \notin halted
        => index[m.address] = m.supply

ItemsInv == Uploaded /\ Numbered /\ HasMachine /\ Counts /\ CountsFit /\ SentAll

\* Steps of requests without a machine
LEMMA ItemsStay ==
    ASSUME ItemsInv, NEW r \in Editors, epc'[r] \notin {"metadata", "items"},
           \A m \in machines : m.address \in Editors /\ m.address # r,
           \A q \in Editors \ {r} : epc'[q] = epc[q] /\ seen'[q] = seen[q],
           UNCHANGED <<machines, metadata, lines, index, faulted, halted, lost>>,
           flying \subseteq flying', \A k \in flying' : k \in flying \/ k[1] \in renumbered',
           overlapped \subseteq overlapped', renumbered \subseteq renumbered'
    PROVE  ItemsInv'
  <1>1. Uploaded'
    BY DEF ItemsInv, Uploaded
  <1>2. Numbered'
    BY DEF ItemsInv, Numbered, Namings, MachineLines
  <1>3. HasMachine'
    BY DEF ItemsInv, HasMachine
  <1>4. Counts'
    BY DEF ItemsInv, Counts, Sent, Namings
  <1>5. CountsFit' /\ SentAll'
    BY DEF ItemsInv, CountsFit, SentAll
  <1> QED BY <1>1, <1>2, <1>3, <1>4, <1>5 DEF ItemsInv

LEMMA CreateMachineItems ==
    ASSUME PublicationTyped, TurnsInv, ItemsInv, NEW r \in Editors, CreateMachine(r)
    PROVE  ItemsInv'
  <1>1. UNCHANGED <<metadata, lines, flying, index, seen, overlapped, faulted, halted, renumbered, lost>>
    BY DEF CreateMachine, itemVars, pubHistory
  <1>2. epc'[r] = "metadata" /\ \A q \in Editors \ {r} : epc'[q] = epc[q]
    BY DEF CreateMachine, Moves, PublicationTyped
  <1>3. PICK n : n = [address |-> r, supply |-> eop[r].supply]
    OBVIOUS
  <1>4. n.address = r /\ machines' = machines \cup {n}
    BY <1>3 DEF CreateMachine
  <1>5. \A m \in machines : m.address \in Editors /\ m.address # r
    BY CreateMachineTurns DEF PublicationTyped, MachineRows
  <1>6. Uploaded'
    <2>1. CASE machines = {}
      BY <1>1, <1>2, <1>4, <2>1 DEF Uploaded, TurnsInv, SupplyFound
    <2>2. CASE machines # {}
      BY <1>1, <1>2, <1>4, <1>5, <2>2 DEF Uploaded, ItemsInv
    <2> QED BY <2>1, <2>2
  <1>7. Numbered'
    BY <1>1, <1>4 DEF ItemsInv, Numbered, Namings, MachineLines
  <1>8. HasMachine'
    BY <1>2, <1>4 DEF ItemsInv, HasMachine
  <1>9. Counts' /\ SentAll'
    BY <1>1, <1>2, <1>4, <1>5 DEF ItemsInv, Counts, Sent, Namings, SentAll
  <1>10. CountsFit'
    <2>1. n.supply \in Nat
      BY <1>3, CreateMachineTurns, PublicationAssumption DEF CreateMachine, PublicationTyped, Fits,
         Underway
    <2> QED BY <1>1, <1>4, <1>5, <2>1 DEF ItemsInv, CountsFit
  <1> QED BY <1>6, <1>7, <1>8, <1>9, <1>10 DEF ItemsInv

\* Who finds no metadata, though there are machines, overlaps the first publication.
LEMMA FindMetadataItems ==
    ASSUME PublicationTyped, TurnsInv, ItemsInv, NEW r \in Editors, FindMetadata(r)
    PROVE  ItemsInv' /\ TurnsInv'
  <1>1. /\ UNCHANGED <<collection, machines, eop, lines, flying, index, seen, overlapped, faulted,
                       halted, renumbered, lost>>
        /\ PublicationTyped' /\ epc[r] = "metadata" /\ OnChain(r)
    <2>1. PublicationTyped'
      BY PublishingStepTyped DEF PublishingStep
    <2> QED BY <2>1 DEF FindMetadata, itemVars, pubHistory, PublicationTyped, Fits, Underway, OnChain
  <1>2. /\ epc'[r] \in {"items", "done"} /\ \A q \in Editors \ {r} : epc'[q] = epc[q]
        /\ \/ seen[r].base = 0 /\ metadata' = TRUE /\ epc'[r] = "items"
           \/ seen[r].base # 0 /\ metadata = TRUE /\ metadata' = metadata /\ epc'[r] = "items"
           \/ seen[r].base # 0 /\ ~metadata /\ metadata' = metadata /\ epc'[r] = "done"
    BY DEF FindMetadata, Moves, PublicationTyped
  <1>3. TurnsInv'
    BY <1>1, <1>2, TurnsGo
  <1>4. Numbered'
    BY <1>1 DEF ItemsInv, Numbered, Namings, MachineLines
  <1>5. HasMachine'
    BY <1>1, <1>2 DEF ItemsInv, HasMachine
  <1>8. Counts' /\ CountsFit'
    BY <1>1 DEF ItemsInv, Counts, Sent, Namings, CountsFit
  <1>6. CASE epc'[r] = "items"
    <2>1. Uploaded'
      BY <1>1, <1>2, <1>6 DEF Uploaded
    <2>2. SentAll'
      BY <1>1, <1>2, <1>6 DEF ItemsInv, SentAll, PublicationTyped, MachineRows
    <2> QED BY <1>3, <1>4, <1>5, <1>8, <2>1, <2>2 DEF ItemsInv
  <1>7. CASE seen[r].base # 0 /\ ~metadata /\ metadata' = metadata /\ epc'[r] = "done"
    <2>1. seen[r].machines # {}
      BY <1>1, <1>7, NoItems DEF TurnsInv, SupplyFound
    <2>2. \A m \in machines : m.address \in Editors
      BY DEF PublicationTyped, MachineRows
    <2>3. faulted = {} /\ machines # {} =>
            \E m \in machines : /\ epc[m.address] = "metadata" /\ seen[m.address].machines = {}
                                /\ m.address # r /\ r \in overlapped
      <3> SUFFICES ASSUME faulted = {}, machines # {}
                   PROVE  \E m \in machines : /\ epc[m.address] = "metadata" /\ seen[m.address].machines = {}
                                              /\ m.address # r /\ r \in overlapped
        OBVIOUS
      <3>1. PICK m \in machines : epc[m.address] = "metadata" /\ seen[m.address].machines = {}
        BY <1>7 DEF ItemsInv, Uploaded
      <3>2. r \in overlapped
        BY <1>1, <2>1, <2>2, <3>1 DEF TurnsInv, Alone, Making
      <3> QED BY <2>1, <3>1, <3>2
    <2>4. Uploaded'
      BY <1>1, <1>2, <1>7, <2>2, <2>3 DEF Uploaded
    <2>5. SentAll'
      <3> SUFFICES ASSUME NEW m \in machines, epc'[m.address] = "done", m.address \notin overlapped,
                          faulted = {}, m.address \notin halted
                   PROVE  index[m.address] = m.supply
        BY <1>1 DEF SentAll
      <3>1. m.address # r /\ epc[m.address] = "done"
        BY <1>2, <2>2, <2>3
      <3> QED BY <3>1 DEF ItemsInv, SentAll
    <2> QED BY <1>3, <1>4, <1>5, <1>8, <2>4, <2>5 DEF ItemsInv
  <1> QED BY <1>2, <1>6, <1>7

\* The upload or the insertion fails, and what is left is on record.
LEMMA LoadingFailsItems ==
    ASSUME PublicationTyped, TurnsInv, ItemsInv, NEW r \in Editors, MetadataFails(r) \/ InsertFails(r)
    PROVE  ItemsInv' /\ TurnsInv'
  <1>1. /\ UNCHANGED <<collection, machines, metadata, eop, lines, flying, index, seen, overlapped,
                       renumbered, lost>>
        /\ PublicationTyped' /\ faulted \subseteq faulted' /\ halted \subseteq halted'
        /\ \/ epc[r] = "metadata" /\ r \in faulted'
           \/ epc[r] = "items" /\ r \in halted'
    <2>1. PublicationTyped'
      BY PublishingStepTyped DEF PublishingStep
    <2> QED BY <2>1 DEF MetadataFails, InsertFails, itemVars, issueRows
  <1>2. epc'[r] = "done" /\ \A q \in Editors \ {r} : epc'[q] = epc[q]
    BY DEF MetadataFails, InsertFails, Moves, PublicationTyped
  <1>3. TurnsInv'
    BY <1>1, <1>2, TurnsGo
  <1>4. Numbered' /\ HasMachine'
    BY <1>1, <1>2 DEF ItemsInv, Numbered, Namings, MachineLines, HasMachine
  <1>5. Counts' /\ CountsFit'
    BY <1>1 DEF ItemsInv, Counts, Sent, Namings, CountsFit
  <1>6. Uploaded' /\ SentAll'
    BY <1>1, <1>2 DEF ItemsInv, Uploaded, SentAll, PublicationTyped, MachineRows
  <1> QED BY <1>3, <1>4, <1>5, <1>6 DEF ItemsInv

\* A batch is the next lines of the machine, numbered after the supply that was found.
LEMMA BatchInsertItemsItems ==
    ASSUME PublicationTyped, TurnsInv, ItemsInv, NEW r \in Editors, BatchInsertItems(r)
    PROVE  ItemsInv' /\ TurnsInv'
  <1>1. /\ UNCHANGED <<collection, machines, metadata, eop, lines, seen, overlapped, faulted, halted,
                       renumbered, lost>>
        /\ PublicationTyped' /\ epc[r] = "items"
    <2>1. PublicationTyped'
      BY PublishingStepTyped DEF PublishingStep
    <2> QED BY <2>1 DEF BatchInsertItems, pubHistory, issueRows
  <1>2. PICK upto \in Batch(r, eop[r].supply) :
          /\ flying' = flying \cup {<<r, i, seen[r].base + i>> : i \in Batch(r, upto)}
          /\ Advances(r, upto)
    BY DEF BatchInsertItems
  <1>3. /\ epc'[r] \in {"items", "done"} /\ (epc'[r] = "done" => upto = eop[r].supply)
        /\ \A q \in Editors \ {r} : epc'[q] = epc[q]
    BY <1>2 DEF Advances, Moves, PublicationTyped
  <1>4. TurnsInv'
    BY <1>1, <1>3, TurnsGo
  <1>5. \A m \in machines : m.address \in Editors /\ (m.address = r => m.supply = eop[r].supply)
    BY DEF PublicationTyped, MachineRows, TurnsInv, MachineSound
  <1>6. PICK n \in machines : n.address = r
    BY <1>1 DEF ItemsInv, HasMachine
  <1>7. index[r] \in Nat /\ eop[r].supply \in Nat /\ upto \in (index[r] + 1)..eop[r].supply
    <2>1. n.supply \in Nat
      BY PublicationAssumption DEF PublicationTyped, MachineRows
    <2> QED BY <1>2, <1>5, <1>6, <2>1 DEF ItemsInv, CountsFit, Batch
  <1>8. index' \in [Editors -> Nat] /\ index'[r] = upto /\ \A q \in Editors \ {r} : index'[q] = index[q]
    BY <1>2, <1>7 DEF ItemsInv, CountsFit, Advances
  <1>9. Uploaded' /\ HasMachine'
    BY <1>1, <1>3, <1>5 DEF ItemsInv, Uploaded, HasMachine
  <1>10. Numbered'
    <2>1. \A i \in Batch(r, upto) : i \in MachineLines(n)
      BY <1>5, <1>6, <1>7 DEF Batch, MachineLines
    <2>2. \A k \in {<<r, i, seen[r].base + i>> : i \in Batch(r, upto)} :
            \E i \in MachineLines(n) : k = <<n.address, i, seen[n.address].base + i>>
      BY <1>6, <2>1
    <2> QED BY <1>1, <1>2, <1>6, <2>2 DEF ItemsInv, Numbered, Namings, MachineLines
  <1>11. Counts'
    <2> SUFFICES ASSUME NEW q \in Editors
                 PROVE  /\ \A i \in 1..index'[q] : Sent(q, i)'
                        /\ q \notin renumbered => \A i \in Nat : Sent(q, i)' => i \in 1..index'[q]
      BY <1>1 DEF Counts
    <2>1. Namings' = Namings \cup {<<r, i, seen[r].base + i>> : i \in Batch(r, upto)} /\ lost' = lost
      BY <1>1, <1>2 DEF Namings
    <2>2. \A i : Sent(q, i)' <=> Sent(q, i) \/ (q = r /\ i \in Batch(r, upto))
      <3> TAKE i
      <3>1. Sent(q, i) => Sent(q, i)'
        BY <2>1 DEF Sent
      <3>2. ASSUME q = r, i \in Batch(r, upto) PROVE Sent(q, i)'
        <4>1. <<r, i, seen[r].base + i>> \in Namings'
          BY <2>1, <3>2
        <4> QED BY <3>2, <4>1 DEF Sent
      <3>3. Sent(q, i)' => Sent(q, i) \/ (q = r /\ i \in Batch(r, upto))
        BY <2>1 DEF Sent
      <3> QED BY <3>1, <3>2, <3>3
    <2>3. /\ \A i \in 1..index[q] : Sent(q, i)
          /\ q \notin renumbered => \A i \in Nat : Sent(q, i) => i \in 1..index[q]
      BY DEF ItemsInv, Counts
    <2>4. CASE q # r
      BY <1>8, <2>2, <2>3, <2>4
    <2>5. CASE q = r
      <3>1. \A i \in Nat : i \in 1..upto <=> i \in 1..index[r] \/ i \in Batch(r, upto)
        BY <1>7 DEF Batch
      <3>2. \A i \in 1..upto : i \in Nat
        BY <1>7
      <3> QED BY <1>8, <2>2, <2>3, <2>5, <3>1, <3>2
    <2> QED BY <2>4, <2>5
  <1>12. CountsFit'
    BY <1>1, <1>5, <1>6, <1>7, <1>8 DEF ItemsInv, CountsFit
  <1>13. SentAll'
    BY <1>1, <1>3, <1>5, <1>8 DEF ItemsInv, SentAll
  <1> QED BY <1>4, <1>9, <1>10, <1>11, <1>12, <1>13 DEF ItemsInv

\* The command renumbers a machine and is none of its requests.
LEMMA InsertItemsCommandItems ==
    ASSUME PublicationTyped, TurnsInv, ItemsInv, NEW r \in Editors, InsertItemsCommand(r)
    PROVE  ItemsInv' /\ TurnsInv'
  <1>1. /\ UNCHANGED <<issue, collection, machines, metadata, eop, lines, index, seen, overlapped,
                       faulted, halted, lost>>
        /\ PublicationTyped' /\ epc[r] = "check" /\ eop[r].kind = "insert"
    <2>1. PublicationTyped'
      BY PublishingStepTyped DEF PublishingStep
    <2> QED BY <2>1 DEF InsertItemsCommand, issueRows, AtCheck
  <1>2. epc'[r] = "done" /\ \A q \in Editors \ {r} : epc'[q] = epc[q]
    BY DEF InsertItemsCommand, Moves, PublicationTyped
  <1>3. TurnsInv' /\ \A m \in machines : m.address # r
    BY <1>1, <1>2, TurnsStay DEF Made, Making, Unmade, OnChain
  <1>4. /\ flying \subseteq flying' /\ renumbered \subseteq renumbered'
        /\ \A k \in flying' : k \in flying \/ k[1] \in renumbered'
    <2>1. CASE UNCHANGED <<flying, renumbered>>
      BY <2>1
    <2>2. CASE \E m \in machines : \E upto \in MachineLines(m) :
                 /\ flying' = flying \cup {<<m.address, i, i>> : i \in 1..upto}
                 /\ renumbered' = renumbered \cup {m.address}
      BY <2>2
    <2> QED BY <2>1, <2>2 DEF InsertItemsCommand
  <1>5. \A m \in machines : m.address \in Editors
    BY DEF PublicationTyped, MachineRows
  <1>6. ItemsInv'
    BY <1>1, <1>2, <1>3, <1>4, <1>5, ItemsStay
  <1> QED BY <1>3, <1>6

\* A line that lands replaces the one with its number; a line that is lost is on record.
LEMMA LinesItems ==
    ASSUME PublicationTyped, TurnsInv, ItemsInv, NEW l \in flying, ItemsLand(l) \/ ItemsLost(l)
    PROVE  ItemsInv' /\ TurnsInv'
  <1>1. UNCHANGED <<collection, machines, metadata, index, epc, eop, seen, overlapped, faulted,
                    halted, renumbered>>
    BY DEF ItemsLand, ItemsLost, issueRows, pubHistory
  <1>2. TurnsInv'
    BY <1>1 DEF TurnsInv, SupplyFound, MachineSound, OnChain, HasCollection, FoundAll, Alone,
       OneOverlaps, UpToDate, InTurn
  <1>3. Namings' \subseteq Namings /\ lost \subseteq lost'
    BY DEF ItemsLand, ItemsLost, Namings, issueRows, pubHistory
  <1>4. \A k \in Namings : \/ \E j \in Namings' : j[1] = k[1] /\ j[2] = k[2]
                           \/ <<k[1], k[2]>> \in lost'
    <2>1. CASE ItemsLand(l)
      <3>1. l \in Namings' /\ \A k \in Namings : k \in Namings' \/ <<k[1], k[2]>> = <<l[1], l[2]>> \/ k = l
        BY <2>1 DEF ItemsLand, Namings
      <3> QED BY <3>1
    <2>2. CASE ItemsLost(l)
      <3>1. <<l[1], l[2]>> \in lost' /\ \A k \in Namings : k \in Namings' \/ k = l
        BY <2>2 DEF ItemsLost, Namings
      <3> QED BY <3>1
    <2> QED BY <2>1, <2>2
  <1>5. Uploaded' /\ HasMachine'
    BY <1>1 DEF ItemsInv, Uploaded, HasMachine
  <1>6. Numbered'
    BY <1>1, <1>3 DEF ItemsInv, Numbered, MachineLines
  <1>7. \A r, i : Sent(r, i)' <=> Sent(r, i)
    <2> TAKE r, i
    <2>1. Sent(r, i) => Sent(r, i)'
      BY <1>3, <1>4 DEF Sent
    <2>2. lost' = lost \/ (lost' = lost \cup {<<l[1], l[2]>>} /\ l \in Namings)
      BY DEF ItemsLand, ItemsLost, pubHistory, Namings
    <2>3. Sent(r, i)' => Sent(r, i)
      BY <1>3, <2>2 DEF Sent
    <2> QED BY <2>1, <2>3
  <1>8. Counts' /\ CountsFit' /\ SentAll'
    BY <1>1, <1>7 DEF ItemsInv, Counts, CountsFit, SentAll
  <1> QED BY <1>2, <1>5, <1>6, <1>8 DEF ItemsInv

LEMMA ItemsStart == PublicationInit => TurnsInv /\ ItemsInv
  <1> SUFFICES ASSUME PublicationInit PROVE TurnsInv /\ ItemsInv
    OBVIOUS
  <1>1. \A r \in Editors : SupplyFound(r)
    BY DEF PublicationInit, SupplyFound, OnChain, NothingSeen
  <1>2. HasCollection /\ FoundAll /\ Alone /\ UpToDate /\ InTurn
    BY DEF PublicationInit, HasCollection, FoundAll, Alone, UpToDate, InTurn, Making, NothingSeen
  <1>3. ItemsInv
    BY DEF PublicationInit, ItemsInv, Uploaded, Numbered, Namings, HasMachine, Counts, Sent, CountsFit, SentAll
  <1> QED BY <1>1, <1>2, <1>3 DEF PublicationInit, TurnsInv

\* Requests without a machine
LEMMA UnmadeItems ==
    ASSUME PublicationTyped, TurnsInv, ItemsInv, NEW r \in Editors,
           \/ EditorRequest(r) \/ IssueStep(r) \/ PublicationThrows(r) \/ MarkPublished(r)
    PROVE  ItemsInv' /\ TurnsInv'
  <1>1. PublicationTyped'
    BY EditorRequestTyped, IssueStepTyped, PublishingStepTyped DEF PublishingStep
  <1>2. UNCHANGED <<collection, machines, metadata, lines, flying, index, overlapped, faulted, halted,
                    renumbered, lost>>
    BY EditorRequestTyped, IssueStepWrites DEF PublicationThrows, MarkPublished, issueRows, itemVars, pubHistory
  <1>3. \A q \in Editors \ {r} : epc'[q] = epc[q] /\ seen'[q] = seen[q] /\ eop'[q] = eop[q]
    <2>1. CASE EditorRequest(r)
      BY <2>1, EditorRequestTyped DEF PublicationTyped
    <2>2. CASE IssueStep(r)
      BY <2>2, IssueStepMoves, IssueStepReads, IssueStepWrites, EditorMoves DEF EditorStages
    <2>3. CASE PublicationThrows(r)
      BY <2>3 DEF PublicationThrows, Moves, PublicationTyped
    <2>4. CASE MarkPublished(r)
      BY <2>4, MarkPublishedReads DEF MarkPublished, PublicationTyped
    <2> QED BY <2>1, <2>2, <2>3, <2>4
  <1>4. /\ epc[r] \notin Made /\ epc'[r] \notin Making
        /\ epc[r] = "write" => epc'[r] \notin Unmade
        /\ epc'[r] \in Unmade => epc[r] \in Unmade
        /\ seen'[r].machines = seen[r].machines
        /\ OnChain(r)' \/ epc'[r] \in Unmade => seen'[r].base = seen[r].base
        /\ OnChain(r)' => OnChain(r) \/ epc[r] \in Unmade
    <2>1. CASE EditorRequest(r)
      BY <2>1, EditorRequestTyped DEF Made, Making, Unmade
    <2>2. CASE IssueStep(r)
      <3>1. epc[r] \in {"check", "write"} /\ (epc[r] = "write" => eop[r].kind # "onChain") /\ eop' = eop
        BY <2>2, IssueStepMoves, IssueStepWrites DEF PublicationTyped, Fits
      <3>2. epc'[r] \in {"write", "done"} \/ (epc'[r] = "publishing" /\ OnChain(r))
        BY <2>2, IssueStepMoves, EditorMoves DEF EditorStages, OnChain
      <3> QED BY <2>2, <3>1, <3>2, IssueStepReads DEF Made, Making, Unmade, OnChain
    <2>3. CASE PublicationThrows(r)
      BY <2>3 DEF PublicationThrows, Moves, PublicationTyped, Made, Making, Unmade, OnChain
    <2>4. CASE MarkPublished(r)
      BY <2>4, MarkPublishedReads DEF MarkPublished, PublicationTyped, Made, Making, Unmade, OnChain
    <2> QED BY <2>1, <2>2, <2>3, <2>4
  <1>5. TurnsInv' /\ \A m \in machines : m.address # r
    BY <1>1, <1>2, <1>3, <1>4, TurnsStay
  <1>6. \A m \in machines : m.address \in Editors
    BY DEF PublicationTyped, MachineRows
  <1>7. epc'[r] \notin {"metadata", "items"}
    BY <1>4 DEF Making
  <1> QED BY <1>2, <1>3, <1>5, <1>6, <1>7, ItemsStay

\* Looking for the collection, and making it
LEMMA CollectingItems ==
    ASSUME PublicationTyped, TurnsInv, ItemsInv, NEW r \in Editors, FindCollection(r) \/ CreateCollection(r)
    PROVE  ItemsInv' /\ TurnsInv'
  <1>1. TurnsInv'
    BY FindCollectionTurns, CreateCollectionTurns
  <1>2. /\ UNCHANGED <<machines, metadata, lines, flying, index, faulted, halted, renumbered, lost>>
        /\ epc[r] \in {"collection", "newCollection"}
    BY DEF FindCollection, CreateCollection, issueRows, itemVars, pubHistory
  <1>3. /\ \A q \in Editors \ {r} : epc'[q] = epc[q] /\ seen'[q] = seen[q]
        /\ epc'[r] \notin {"metadata", "items"} /\ overlapped \subseteq overlapped'
    <2>1. CASE FindCollection(r)
      BY <2>1, FindCollectionReads DEF PublicationTyped
    <2>2. CASE CreateCollection(r)
      BY <2>2 DEF CreateCollection, Moves, PublicationTyped, pubHistory
    <2> QED BY <2>1, <2>2
  <1>4. \A m \in machines : m.address \in Editors /\ m.address # r
    BY <1>2 DEF PublicationTyped, MachineRows, TurnsInv, MachineSound, Made
  <1> QED BY <1>1, <1>2, <1>3, <1>4, ItemsStay

\* Publications make machines in turn, and name items after the supply they found.
THEOREM PublicationInvariance == PublicationSpec => [](PublicationTyped /\ TurnsInv /\ ItemsInv)
  <1> DEFINE Inv == PublicationTyped /\ TurnsInv /\ ItemsInv
  <1>1. PublicationInit => Inv
    BY PublicationStartsTyped, ItemsStart
  <1>2. ASSUME Inv, NEW r \in Editors, EditorStep(r)
        PROVE  TurnsInv' /\ ItemsInv'
    <2>1. CASE EditorRequest(r) \/ IssueStep(r) \/ PublicationThrows(r) \/ MarkPublished(r)
      BY <1>2, <2>1, UnmadeItems
    <2>2. CASE FindCollection(r) \/ CreateCollection(r)
      BY <1>2, <2>2, CollectingItems
    <2>3. CASE CreateMachine(r)
      BY <1>2, <2>3, CreateMachineTurns, CreateMachineItems
    <2>4. CASE FindMetadata(r) \/ MetadataFails(r) \/ InsertFails(r)
      BY <1>2, <2>4, FindMetadataItems, LoadingFailsItems
    <2>5. CASE BatchInsertItems(r) \/ InsertItemsCommand(r)
      BY <1>2, <2>5, BatchInsertItemsItems, InsertItemsCommandItems
    <2> QED BY <1>2, <2>1, <2>2, <2>3, <2>4, <2>5, Zenon DEF EditorStep, IssueStep
  <1>3. ASSUME Inv, UNCHANGED publicationVars
        PROVE  TurnsInv' /\ ItemsInv'
    <2>1. TurnsInv'
      BY <1>3 DEF publicationVars, TurnsInv, SupplyFound, MachineSound, OnChain, HasCollection, FoundAll,
         Alone, OneOverlaps, UpToDate, InTurn
    <2>2. Uploaded' /\ HasMachine' /\ Counts' /\ CountsFit' /\ SentAll'
      BY <1>3 DEF publicationVars, ItemsInv, Uploaded, HasMachine, Counts, Sent, Namings, CountsFit,
         SentAll
    <2>3. Numbered'
      BY <1>3 DEF publicationVars, ItemsInv, Numbered, Namings, MachineLines
    <2> QED BY <2>1, <2>2, <2>3 DEF ItemsInv
  <1>4. Inv /\ [PublicationNext]_publicationVars => Inv'
    BY <1>2, <1>3, LinesItems, PublicationStepTyped DEF PublicationNext
  <1> QED BY <1>1, <1>4, PTL DEF PublicationSpec

\* createComicIssueCM and batchInsertCoreItems: a machine that is shown as loaded has had
\* all its lines sent, and one whose insertion failed a first part of them and no line
\* after it, unless an upload failed or publications overlapped.
THEOREM ItemsSentAlways == PublicationSpec => []ItemsSent
  <1>1. ASSUME PublicationTyped, ItemsInv, NEW m \in machines, epc[m.address] = "done",
               m.address \notin overlapped, faulted = {}
        PROVE  \E k \in 0..m.supply :
                 /\ m.address \notin halted => k = m.supply
                 /\ 1..k \subseteq SentLines(m)
                 /\ m.address \notin renumbered => SentLines(m) = 1..k
    <2>1. m.address \in Editors /\ m.supply \in Nat /\ index[m.address] \in 0..m.supply
      BY <1>1, PublicationAssumption DEF PublicationTyped, MachineRows, ItemsInv, CountsFit
    <2>2. SentLines(m) = {i \in MachineLines(m) : Sent(m.address, i)}
      BY DEF SentLines, Sent
    <2>3. 1..index[m.address] \subseteq SentLines(m)
      BY <1>1, <2>1, <2>2 DEF ItemsInv, Counts, MachineLines
    <2>4. m.address \notin renumbered => SentLines(m) \subseteq 1..index[m.address]
      BY <1>1, <2>1, <2>2 DEF ItemsInv, Counts, MachineLines
    <2>5. m.address \notin halted => index[m.address] = m.supply
      BY <1>1 DEF ItemsInv, SentAll
    <2> QED BY <2>1, <2>3, <2>4, <2>5
  <1>2. PublicationTyped /\ ItemsInv => ItemsSent
    BY <1>1 DEF ItemsSent
  <1> QED BY <1>2, PublicationInvariance, PTL

\* Who found a machine numbers its items after those of that machine.
LEMMA NumbersAfter ==
    ASSUME PublicationTyped, TurnsInv, NEW m \in machines, NEW n \in machines,
           m \in seen[n.address].machines
    PROVE  seen[n.address].base >= seen[m.address].base + m.supply
  <1> DEFINE before == seen[m.address].machines
             found == seen[n.address].machines
             own == {m.address} \X MachineLines(m)
  <1>1. /\ m.address \in Editors /\ n.address \in Editors /\ m.supply \in Nat
        /\ before \subseteq MachineRows /\ found \subseteq MachineRows
        /\ IsFiniteSet(before) /\ IsFiniteSet(found)
    BY PublicationAssumption DEF PublicationTyped, MachineRows, Reads
  <1>2. /\ before \subseteq found /\ \A k \in before : k.address # m.address
        /\ seen[m.address].base = Cardinality(Items(before))
        /\ seen[n.address].base = Cardinality(Items(found))
    BY <1>1 DEF TurnsInv, FoundAll, MachineSound, SupplyFound
  <1>3. IsFiniteSet(own) /\ Cardinality(own) = m.supply
    <2>1. IsFiniteSet(1..m.supply) /\ Cardinality(1..m.supply) = m.supply
      <3>1. m.supply \in Nat
        BY <1>1
      <3> QED BY ONLY <3>1, UpTo
    <2>2. IsFiniteSet({m.address}) /\ Cardinality({m.address}) = 1
      BY FS_Singleton
    <2>3. IsFiniteSet({m.address} \X (1..m.supply))
          /\ Cardinality({m.address} \X (1..m.supply)) = Cardinality({m.address}) * Cardinality(1..m.supply)
      BY <2>1, <2>2, FS_Product
    <2>4. 1 * m.supply = m.supply
      BY <1>1
    <2> QED BY <2>1, <2>2, <2>3, <2>4 DEF MachineLines
  <1>4. Items(before) \cap own = {}
    BY <1>2 DEF Items
  <1>5. Items(before) \cup own \subseteq Items(found)
    BY <1>2 DEF Items
  <1>6. /\ IsFiniteSet(Items(before)) /\ Cardinality(Items(before)) \in Nat
        /\ IsFiniteSet(Items(found)) /\ Cardinality(Items(found)) \in Nat
    BY <1>1, ItemsFinite
  <1>7. Cardinality(Items(before) \cup own) = Cardinality(Items(before)) + m.supply
    <2>1. Cardinality(Items(before) \cap own) = 0
      BY <1>4, FS_EmptySet
    <2> HIDE DEF own, before
    <2>2. Cardinality(Items(before) \cup own)
            = Cardinality(Items(before)) + Cardinality(own) - Cardinality(Items(before) \cap own)
      BY <1>3, <1>6, FS_Union
    <2> QED BY <1>1, <1>3, <1>6, <2>1, <2>2
  <1>8. Cardinality(Items(before) \cup own) <= Cardinality(Items(found))
    BY <1>5, <1>6, FS_Subset
  <1> QED BY <1>1, <1>2, <1>6, <1>7, <1>8

\* getOrCreateComicIssueCollection and insertCoreItems: no two items of a collection get
\* one name, unless publications overlapped or the command filled a machine.
THEOREM NumbersDistinctAlways == PublicationSpec => []NumbersDistinct
  <1>1. ASSUME PublicationTyped, TurnsInv, ItemsInv
        PROVE  NumbersDistinct
    <2> SUFFICES ASSUME NEW k \in Namings, NEW l \in Namings, k[3] = l[3],
                        {k[1], l[1]} \cap (overlapped \cup renumbered) = {}
                 PROVE  k = l
      BY DEF NumbersDistinct
    <2>1. PICK m \in machines : \E i \in MachineLines(m) :
            k = <<m.address, i, seen[m.address].base + i>>
      BY <1>1 DEF ItemsInv, Numbered
    <2>2. PICK n \in machines : \E i \in MachineLines(n) :
            l = <<n.address, i, seen[n.address].base + i>>
      BY <1>1 DEF ItemsInv, Numbered
    <2>3. PICK i \in MachineLines(m) : k = <<m.address, i, seen[m.address].base + i>>
      BY <2>1
    <2>4. PICK j \in MachineLines(n) : l = <<n.address, j, seen[n.address].base + j>>
      BY <2>2
    <2>5. /\ m.supply \in Nat /\ n.supply \in Nat /\ i \in 1..m.supply /\ j \in 1..n.supply
          /\ seen[m.address].base \in Nat /\ seen[n.address].base \in Nat
      BY <1>1, PublicationAssumption DEF PublicationTyped, MachineRows, Reads, MachineLines
    <2>6. k[1] = m.address /\ l[1] = n.address
          /\ seen[m.address].base + i = seen[n.address].base + j
      BY <2>3, <2>4
    <2>7. m.address \notin overlapped /\ n.address \notin overlapped
      BY <2>6
    <2>8. CASE m.address = n.address
      BY <2>3, <2>4, <2>5, <2>6, <2>8
    <2>9. CASE m \in seen[n.address].machines
      BY <1>1, <2>5, <2>6, <2>9, NumbersAfter
    <2>10. CASE n \in seen[m.address].machines
      BY <1>1, <2>5, <2>6, <2>10, NumbersAfter
    <2> QED BY <1>1, <2>7, <2>8, <2>9, <2>10 DEF TurnsInv, InTurn, OneOverlaps
  <1> QED BY <1>1, PublicationInvariance, PTL

-----------------------------------------------------------------------------
(* Wallets: every page of what a wallet holds, the row and the receipt of      *)
(* each asset                                                                  *)

\* Division
LEMMA Divided ==
    ASSUME NEW n \in Nat, NEW k \in Nat \ {0}
    PROVE  /\ n \div k \in Nat
           /\ (n + 1) \div k <= (n \div k) + 1
           /\ 0 \div k = 0
    OBVIOUS

\* Where a set of numbers is not empty it has a least one.
Before(assets, c) == {d \in assets : d < c}

LEMMA Least ==
    ASSUME NEW n \in Nat, NEW T \in SUBSET (1..n), T # {}
    PROVE  \E x \in T : \A y \in T : x <= y
<1> DEFINE B == {Before(T, x) : x \in T}
<1>1. IsFiniteSet(T)
    BY UpTo, FS_Subset
<1>2. IsWellFoundedOn(StrictSubsetOrdering(T), SUBSET T)
  <2>1. FiniteSubsetsOf(T) = SUBSET T
    BY <1>1, FS_FiniteSubsetsOfFinite
  <2> QED
    BY <2>1, FS_StrictSubsetOrderingWellFounded
<1>3. B \subseteq SUBSET T /\ B # {}
    BY DEF Before
<1> HIDE DEF B
<1>4. PICK b \in B : \A a \in B : <<a, b>> \notin StrictSubsetOrdering(T)
    BY <1>2, <1>3, WFMin
<1>5. PICK x \in T : b = Before(T, x)
    BY DEF B
<1>6. ASSUME NEW y \in T, y < x PROVE FALSE
  <2>1. Before(T, y) \in B
    BY DEF B
  <2>2. Before(T, y) \subseteq b /\ Before(T, y) # b
    <3>1. \A d \in T : d < y => d < x
      BY <1>6
    <3>2. ~(y < y)
      OBVIOUS
    <3>3. y \in Before(T, x) /\ y \notin Before(T, y)
      BY <1>6, <3>2 DEF Before
    <3> QED
      BY <1>5, <3>1, <3>3 DEF Before
  <2>3. <<Before(T, y), b>> \in StrictSubsetOrdering(T)
    BY <2>1, <2>2, <1>3 DEF StrictSubsetOrdering
  <2> QED
    BY <2>1, <2>3, <1>4
<1> QED
    BY <1>6

LEMMA Greatest ==
    ASSUME NEW n \in Nat, NEW T \in SUBSET (1..n), T # {}
    PROVE  \E x \in T : \A y \in T : y <= x
<1> DEFINE S == {n + 1 - y : y \in T}
<1>1. S \in SUBSET (1..n)
  <2>1. ASSUME NEW y \in T PROVE n + 1 - y \in 1..n
    OBVIOUS
  <2> QED
    BY <2>1
<1>2. S # {}
    OBVIOUS
<1> HIDE DEF S
<1>3. PICK s \in S : \A t \in S : s <= t
    BY <1>1, <1>2, Least
<1>4. PICK x \in T : s = n + 1 - x
    BY DEF S
<1>5. ASSUME NEW y \in T PROVE y <= x
  <2>1. n + 1 - y \in S
    BY DEF S
  <2> QED
    BY <2>1, <1>3, <1>4
<1> QED
    BY <1>5

LEMMA LastBefore ==
    ASSUME NEW d \in Int, NEW e \in Int, NEW m \in Int, e < m, d < m => d <= e
    PROVE  (d < m) <=> (d < e \/ d = e)
  OBVIOUS

\* A list without an asset on this page has none on a later one.
LEMMA LastPage ==
    ASSUME NEW n \in Nat, NEW L \in SUBSET (1..n), NEW k \in Nat \ {0}, NEW p \in Nat \ {0},
           \A c \in L : Cardinality(Before(L, c)) \div k # p - 1
    PROVE  \A c \in L : Cardinality(Before(L, c)) \div k < p - 1
<1> DEFINE Rank(c) == Cardinality(Before(L, c))
           T == {c \in L : Rank(c) \div k >= p - 1}
<1>1. ASSUME NEW c \in L PROVE IsFiniteSet(Before(L, c)) /\ Rank(c) \in Nat /\ Rank(c) \div k \in Nat
  <2>1. IsFiniteSet(1..n) /\ Before(L, c) \subseteq 1..n
    BY UpTo DEF Before
  <2>2. IsFiniteSet(Before(L, c))
    BY <2>1, FS_Subset
  <2>3. Rank(c) \in Nat
    BY <2>2, FS_CardinalityType
  <2> HIDE DEF Rank
  <2>4. Rank(c) \div k \in Nat
    BY <2>3
  <2> QED
    BY <2>2, <2>3, <2>4 DEF Rank
<1>2. SUFFICES ASSUME T # {} PROVE FALSE
  <2>1. ASSUME NEW c \in L, c \notin T PROVE Rank(c) \div k < p - 1
    BY <2>1, <1>1
  <2> QED
    BY <2>1
<1>3. PICK m \in T : \A y \in T : m <= y
  <2>1. T \in SUBSET (1..n)
    OBVIOUS
  <2> HIDE DEF T
  <2> QED
    BY <1>2, <2>1, Least
<1>4. Rank(m) \div k > p - 1
  <2>1. Rank(m) \div k \in Nat /\ Rank(m) \div k >= p - 1 /\ Rank(m) \div k # p - 1
    BY <1>1
  <2> QED
    BY <2>1
<1>5. CASE Before(L, m) = {}
  <2>1. Rank(m) = 0
    BY <1>5, FS_EmptySet
  <2>2. 0 \div k = 0
    BY Divided
  <2> QED
    BY <2>1, <2>2, <1>4
<1>6. CASE Before(L, m) # {}
  <2>1. PICK e \in Before(L, m) : \A y \in Before(L, m) : y <= e
    <3>1. Before(L, m) \in SUBSET (1..n)
      BY DEF Before
    <3> QED
      BY <3>1, <1>6, Greatest
  <2>2. e \in L /\ e < m /\ e \notin Before(L, e) /\ Before(L, m) = Before(L, e) \cup {e}
    <3>1. e \in L /\ e < m /\ m \in Int /\ L \subseteq Int
      BY <2>1 DEF Before
    <3>2. ASSUME NEW d \in L PROVE (d < m) <=> (d < e \/ d = e)
      <4>1. d \in Int /\ e \in Int /\ m \in Int
        BY <3>1
      <4>2. d < m => d <= e
        BY <2>1 DEF Before
      <4> QED
        BY <3>1, <4>1, <4>2, LastBefore
    <3>3. ~(e < e)
      BY <3>1
    <3>4. e \notin Before(L, e)
      BY <3>3 DEF Before
    <3>5. Before(L, m) = Before(L, e) \cup {e}
      <4>1. \A d \in L : (d < m) <=> (d < e \/ d = e)
        BY <3>2
      <4> HIDE DEF T, Rank
      <4> QED
        BY <3>1, <4>1, Zenon DEF Before
    <3> QED
      BY <3>1, <3>4, <3>5
  <2>3. Rank(m) = Rank(e) + 1
    BY <2>2, <1>1, FS_AddElement
  <2>4. e \notin T
    BY <2>2, <1>3
  <2>5. Rank(e) \in Nat /\ Rank(e) \div k \in Nat /\ Rank(e) \div k < p - 1
    BY <2>2, <2>4, <1>1
  <2>6. Rank(m) \div k \in Nat /\ Rank(m) \in Nat
    BY <1>1
  <2> HIDE DEF Rank, T
  <2>7. Rank(m) \div k <= (Rank(e) \div k) + 1
    BY <2>3, <2>5, Divided
  <2> QED
    BY <2>5, <2>6, <2>7, <1>4
<1> QED
    BY <1>5, <1>6

-----------------------------------------------------------------------------
(* What the syncs keep                                                     *)

AssetRows == [owner : Purses, receipt : Receipts \cup {NoReceipt}]

Minted(c) == [comic |-> c, of |-> "mint"]

RowsSound ==
    /\ row \in [Comics -> AssetRows \cup {NoRow}]
    /\ receipts \subseteq Receipts
    /\ \A c \in Comics : row[c] # NoRow => row[c].receipt \in receipts \cup {NoReceipt}
    /\ untold \subseteq Comics /\ \A c \in untold : Minted(c) \in receipts

WorldTyped ==
    /\ holder \in [Comics -> Purses] /\ standing \in [Comics -> Standings]
    /\ verified \subseteq Comics /\ couponed \in BOOLEAN /\ crossed \in BOOLEAN
    /\ moves \in 0..MaxMoves

IsSyncJob(j) ==
    j = [stage |-> j.stage, kind |-> j.kind, purse |-> j.purse, complete |-> j.complete,
         page |-> j.page, assets |-> j.assets, owners |-> j.owners, todo |-> j.todo,
         item |-> j.item, found |-> j.found, alone |-> j.alone, missed |-> j.missed]

\* What a sync knows where it is
SyncJobSound(j) ==
    /\ IsSyncJob(j) /\ j.stage \in SyncStages /\ j.kind \in SyncKinds
    /\ j.complete \subseteq Comics /\ j.page \in Nat
    /\ j.assets \subseteq Comics /\ j.todo \subseteq j.assets
    /\ j.stage \in {"next", "look", "index", "receipt"} => j.owners \in [Comics -> Purses]
    /\ j.stage \in {"look", "index", "receipt"} => j.item \in Comics
    /\ j.stage \in {"look", "receipt"} => row[j.item] # NoRow
    /\ j.stage \in {"idle", "page", "moved", "done"} => j.todo = {}
    /\ j.stage \in {"page", "next", "look", "index", "receipt"} => j.page # 0
    /\ j.stage = "moved" => j.assets = {}

SyncsSound ==
    /\ sjob = [r \in SyncRequests |-> sjob[r]]
    /\ \A r \in SyncRequests : SyncJobSound(sjob[r])

SyncTyped == WorldTyped /\ RowsSound /\ SyncsSound

\* No two syncs at once; a receipt is made where none was; and before the first sync a
\* mint not told has no row.
OneSync ==
    ~crossed => \A p, q \in SyncRequests : Under(p) /\ Under(q) => p = q

ReceiptWanted ==
    ~crossed => \A r \in SyncRequests :
        sjob[r].stage = "receipt" \/ (sjob[r].stage = "index" /\ ~sjob[r].found) =>
            ~HasReceipt(sjob[r].item)

UntoldRowless ==
    (\A r \in SyncRequests : sjob[r].stage = "idle") => \A c \in untold : row[c] = NoRow

ReceiptsInv == SyncTyped /\ OneSync /\ ReceiptWanted /\ UntoldRowless

-----------------------------------------------------------------------------
(* Rows                                                                    *)

RowsStay == \A c \in Comics : row[c] # NoRow => row'[c] # NoRow

LEMMA RowOwned ==
    ASSUME NEW a \in AssetRows, NEW w \in Purses
    PROVE  LET b == [a EXCEPT !.owner = w]
           IN  b \in AssetRows /\ b # NoRow /\ b.owner = w /\ b.receipt = a.receipt
  BY WalletSyncAssumption DEF AssetRows

LEMMA RowReceipted ==
    ASSUME NEW a \in AssetRows, NEW x \in Receipts
    PROVE  LET b == [a EXCEPT !.receipt = x]
           IN  b \in AssetRows /\ b # NoRow /\ b.owner = a.owner /\ b.receipt = x
  BY WalletSyncAssumption DEF AssetRows

LEMMA RowMade ==
    ASSUME NEW w \in Purses, NEW x \in Receipts \cup {NoReceipt}
    PROVE  LET b == [owner |-> w, receipt |-> x]
           IN  b \in AssetRows /\ b # NoRow /\ b.owner = w /\ b.receipt = x
  BY WalletSyncAssumption DEF AssetRows

\* One row is written, with a receipt that is there.
LEMMA RowPut ==
    ASSUME RowsSound, NEW c \in Comics, NEW b \in AssetRows, b # NoRow,
           row' = [row EXCEPT ![c] = b], receipts \subseteq receipts', receipts' \subseteq Receipts,
           b.receipt \in receipts' \cup {NoReceipt}, untold' \subseteq untold
    PROVE  RowsSound' /\ RowsStay /\ row'[c] = b
  BY DEF RowsSound, RowsStay

LEMMA RowsSame ==
    ASSUME RowsSound, UNCHANGED <<row, receipts, untold>>
    PROVE  RowsSound' /\ RowsStay
  BY DEF RowsSound, RowsStay, Minted

\* Indexing makes a row without a receipt, or leaves the one it has.
LEMMA RowIndexed ==
    ASSUME RowsSound, NEW j, NEW c \in Comics, j.owners \in [Comics -> Purses],
           row' = Indexed(j, c), UNCHANGED <<receipts, untold>>
    PROVE  /\ RowsSound' /\ RowsStay
           /\ \A d \in Comics \ {c} : row'[d] = row[d]
           /\ row'[c] # NoRow /\ row'[c].owner = j.owners[c]
           /\ row[c] # NoRow => row'[c].receipt = row[c].receipt
           /\ row[c] = NoRow => row'[c].receipt = NoReceipt
<1>1. PICK b : b = IF row[c] = NoRow THEN [owner |-> j.owners[c], receipt |-> NoReceipt]
                   ELSE [row[c] EXCEPT !.owner = j.owners[c]]
    OBVIOUS
<1>2. row' = [row EXCEPT ![c] = b]
    BY <1>1 DEF Indexed
<1>3. j.owners[c] \in Purses
    OBVIOUS
<1>4. /\ b \in AssetRows /\ b # NoRow /\ b.owner = j.owners[c]
      /\ row[c] # NoRow => b.receipt = row[c].receipt
      /\ row[c] = NoRow => b.receipt = NoReceipt
  <2>1. CASE row[c] = NoRow
    BY <1>1, <1>3, <2>1, RowMade
  <2>2. CASE row[c] # NoRow
    <3>1. row[c] \in AssetRows
      BY <2>2 DEF RowsSound
    <3> QED
      BY <1>1, <1>3, <2>2, <3>1, RowOwned
  <2> QED
    BY <2>1, <2>2
<1>5. b.receipt \in receipts' \cup {NoReceipt}
    BY <1>4 DEF RowsSound
<1>6. RowsSound' /\ RowsStay /\ row'[c] = b
    BY <1>2, <1>4, <1>5, RowPut DEF RowsSound
<1>7. \A d \in Comics \ {c} : row'[d] = row[d]
    BY <1>2 DEF RowsSound
<1> QED
    BY <1>4, <1>6, <1>7

LEMMA TransferRows ==
    ASSUME RowsSound, NEW c \in Comics, NEW w \in Purses, NEW told \in BOOLEAN,
           Transfer(c, w, told)
    PROVE  /\ RowsSound' /\ RowsStay
           /\ \A d \in Comics : row[d] = NoRow => row'[d] = NoRow
           /\ \A d \in Comics : row[d] # NoRow => row'[d].receipt = row[d].receipt
<1>1. row' = [row EXCEPT ![c] = Heard(c, w, told)] /\ UNCHANGED <<receipts, untold>>
    BY DEF Transfer
<1>2. CASE told /\ row[c] # NoRow
  <2>1. PICK b : b = [row[c] EXCEPT !.owner = w]
    OBVIOUS
  <2>2. row' = [row EXCEPT ![c] = b] /\ row[c] \in AssetRows
    BY <1>1, <1>2, <2>1 DEF Heard, RowsSound
  <2>3. b \in AssetRows /\ b # NoRow /\ b.receipt = row[c].receipt
    BY <2>1, <2>2, RowOwned
  <2>4. b.receipt \in receipts' \cup {NoReceipt}
    BY <1>1, <1>2, <2>3 DEF RowsSound
  <2>5. RowsSound' /\ RowsStay /\ row'[c] = b
    BY <1>1, <2>2, <2>3, <2>4, RowPut DEF RowsSound
  <2> QED
    BY <1>2, <2>2, <2>3, <2>5 DEF RowsSound
<1>3. CASE ~(told /\ row[c] # NoRow)
  <2>1. row' = row
    BY <1>1, <1>3 DEF Heard, RowsSound
  <2> QED
    BY <1>1, <2>1, RowsSame
<1> QED
    BY <1>2, <1>3

LEMMA TellMintRows ==
    ASSUME RowsSound, WorldTyped, NEW c \in Comics, TellMint(c)
    PROVE  /\ RowsSound' /\ RowsStay
           /\ \A d \in Comics \ {c} : row'[d] = row[d]
           /\ row'[c].receipt # NoReceipt
<1>1. PICK b : b = IF row[c] = NoRow THEN [owner |-> holder[c], receipt |-> Minted(c)]
                   ELSE [row[c] EXCEPT !.receipt = Minted(c)]
    OBVIOUS
<1>2. row' = [row EXCEPT ![c] = b] /\ UNCHANGED receipts /\ untold' \subseteq untold
    BY <1>1 DEF TellMint, Minted
<1>3. holder[c] \in Purses /\ Minted(c) \in receipts /\ Minted(c) \in Receipts
    BY DEF WorldTyped, TellMint, RowsSound
<1>4. b \in AssetRows /\ b # NoRow /\ b.receipt = Minted(c)
  <2>1. CASE row[c] = NoRow
    BY <1>1, <1>3, <2>1, RowMade
  <2>2. CASE row[c] # NoRow
    <3>1. row[c] \in AssetRows
      BY <2>2 DEF RowsSound
    <3> QED
      BY <1>1, <1>3, <2>2, <3>1, RowReceipted
  <2> QED
    BY <2>1, <2>2
<1>5. RowsSound' /\ RowsStay /\ row'[c] = b
    BY <1>2, <1>3, <1>4, RowPut DEF RowsSound
<1>6. Minted(c) # NoReceipt
    BY <1>3, WalletSyncAssumption
<1> QED
    BY <1>2, <1>4, <1>5, <1>6 DEF RowsSound

LEMMA CreateReceiptRows ==
    ASSUME RowsSound, SyncsSound, NEW r \in SyncRequests, createReceipt(r)
    PROVE  /\ RowsSound' /\ RowsStay
           /\ \A d \in Comics \ {sjob[r].item} : row'[d] = row[d]
           /\ couponed => /\ row'[sjob[r].item] # NoRow
                          /\ row'[sjob[r].item].owner = row[sjob[r].item].owner
                          /\ row'[sjob[r].item].receipt # NoReceipt
           /\ ~couponed => UNCHANGED row
<1>1. PICK c : c = sjob[r].item
    OBVIOUS
<1>2. c \in Comics /\ row[c] # NoRow /\ row[c] \in AssetRows
    BY <1>1 DEF createReceipt, SyncsSound, SyncJobSound, RowsSound
<1>3. CASE couponed
  <2>1. PICK x : x = [comic |-> c, of |-> r]
    OBVIOUS
  <2>2. x \in Receipts /\ x # NoReceipt
    BY <1>2, <2>1, WalletSyncAssumption DEF Receipts
  <2>3. PICK b : b = [row[c] EXCEPT !.receipt = x]
    OBVIOUS
  <2>4. row' = [row EXCEPT ![c] = b] /\ receipts' = receipts \cup {x} /\ UNCHANGED untold
    BY <1>1, <1>3, <2>1, <2>3 DEF createReceipt
  <2>5. b \in AssetRows /\ b # NoRow /\ b.owner = row[c].owner /\ b.receipt = x
    BY <1>2, <2>2, <2>3, RowReceipted
  <2>6. RowsSound' /\ RowsStay /\ row'[c] = b
    <3>1. receipts \subseteq receipts' /\ receipts' \subseteq Receipts
      BY <2>2, <2>4 DEF RowsSound
    <3> QED
      BY <1>2, <2>4, <2>5, <3>1, RowPut
  <2>7. \A d \in Comics \ {c} : row'[d] = row[d]
    BY <2>4 DEF RowsSound
  <2> QED
    BY <1>1, <1>3, <2>2, <2>5, <2>6, <2>7
<1>4. CASE ~couponed
  <2>1. UNCHANGED <<row, receipts, untold>>
    BY <1>4 DEF createReceipt
  <2> QED
    BY <1>4, <2>1, RowsSame
<1> QED
    BY <1>3, <1>4

\* The last page is empty, and no row is of it.
LEMMA NewOwnersNone ==
    ASSUME RowsSound, SyncsSound, NEW r \in SyncRequests, updateNewOwners(r)
    PROVE  row' = row
<1>1. NftsWithNewOwner(r) = {}
    BY DEF updateNewOwners, NftsWithNewOwner, SyncsSound, SyncJobSound
<1>2. row' = [c \in Comics |-> row[c]]
    BY <1>1 DEF updateNewOwners
<1> QED
    BY <1>2 DEF RowsSound

-----------------------------------------------------------------------------
(* Where a sync goes                                                       *)

\* What a sync is about, and what it read at first
SameSync(j, k) ==
    /\ IsSyncJob(k) /\ k.kind = j.kind /\ k.purse = j.purse /\ k.alone = j.alone
    /\ k.complete = j.complete

\* ... and of its page
SamePage(j, k) ==
    SameSync(j, k) /\ k.page = j.page /\ k.assets = j.assets /\ k.owners = j.owners

OtherSyncs(r) == \A q \in SyncRequests \ {r} : sjob'[q] = sjob[q]

LEMMA SyncJobKept ==
    ASSUME NEW j, SyncJobSound(j), RowsStay
    PROVE  SyncJobSound(j)'
  BY DEF SyncJobSound, IsSyncJob, RowsStay

LEMMA SyncGoes ==
    ASSUME SyncsSound, NEW r \in SyncRequests, NEW j, Go(r, j)
    PROVE  /\ sjob' = [q \in SyncRequests |-> sjob'[q]]
           /\ sjob'[r] = j /\ OtherSyncs(r)
  BY DEF SyncsSound, Go, OtherSyncs

LEMMA SyncGoesTo ==
    ASSUME SyncsSound, NEW r \in SyncRequests, NEW stage, GoTo(r, stage)
    PROVE  /\ sjob' = [q \in SyncRequests |-> sjob'[q]] /\ OtherSyncs(r)
           /\ SamePage(sjob[r], sjob'[r]) /\ sjob'[r].stage = stage
           /\ sjob'[r].todo = sjob[r].todo /\ sjob'[r].item = sjob[r].item
           /\ sjob'[r].found = sjob[r].found /\ sjob'[r].missed = sjob[r].missed
<1>1. PICK j : j = [sjob[r] EXCEPT !.stage = stage]
    OBVIOUS
<1>2. sjob' = [q \in SyncRequests |-> sjob'[q]] /\ sjob'[r] = j /\ OtherSyncs(r)
    BY <1>1, SyncGoes DEF GoTo
<1>3. IsSyncJob(sjob[r])
    BY DEF SyncsSound, SyncJobSound
<1>4. /\ SamePage(sjob[r], j) /\ j.stage = stage
      /\ j.todo = sjob[r].todo /\ j.item = sjob[r].item
      /\ j.found = sjob[r].found /\ j.missed = sjob[r].missed
    BY <1>1, <1>3 DEF IsSyncJob, SamePage, SameSync
<1> QED
    BY <1>2, <1>4

\* A sync that goes on knows what it has to.
LEMMA SyncMoves ==
    ASSUME SyncsSound, RowsStay, NEW r \in SyncRequests, OtherSyncs(r),
           sjob' = [q \in SyncRequests |-> sjob'[q]], SyncJobSound(sjob[r])'
    PROVE  SyncsSound'
<1>1. ASSUME NEW q \in SyncRequests, q # r PROVE SyncJobSound(sjob[q])'
  <2>1. PICK j : j = sjob[q] /\ j = sjob'[q]
    BY <1>1 DEF OtherSyncs
  <2>2. SyncJobSound(j)'
    BY <2>1, SyncJobKept DEF SyncsSound
  <2> QED
    BY <2>1, <2>2
<1> QED
    BY <1>1 DEF SyncsSound

\* What disturbs a sync changes nothing of it.
LEMMA SyncJobDisturbed ==
    ASSUME NEW j, IsSyncJob(j)
    PROVE  LET k == [j EXCEPT !.alone = FALSE] IN
           /\ IsSyncJob(k) /\ k.stage = j.stage /\ k.kind = j.kind /\ k.purse = j.purse
           /\ k.complete = j.complete /\ k.page = j.page /\ k.assets = j.assets
           /\ k.owners = j.owners /\ k.todo = j.todo /\ k.item = j.item
           /\ k.found = j.found /\ k.missed = j.missed /\ k.alone = FALSE
<1>1. PICK k : k = [j EXCEPT !.alone = FALSE]
    OBVIOUS
<1>2. /\ IsSyncJob(k) /\ k.stage = j.stage /\ k.kind = j.kind /\ k.purse = j.purse
      /\ k.complete = j.complete /\ k.page = j.page /\ k.assets = j.assets
      /\ k.owners = j.owners /\ k.todo = j.todo /\ k.item = j.item
      /\ k.found = j.found /\ k.missed = j.missed /\ k.alone = FALSE
    BY <1>1 DEF IsSyncJob
<1> QED
    BY <1>1, <1>2

SyncDisturbed(r) ==
    /\ sjob'[r].stage = sjob[r].stage /\ sjob'[r].kind = sjob[r].kind
    /\ sjob'[r].purse = sjob[r].purse /\ sjob'[r].item = sjob[r].item
    /\ sjob'[r].found = sjob[r].found /\ sjob'[r].missed = sjob[r].missed
    /\ sjob'[r].alone = FALSE

LEMMA DisturbedSound ==
    ASSUME SyncsSound, RowsStay, NEW r \in SyncRequests,
           sjob'[r] = [sjob[r] EXCEPT !.alone = FALSE]
    PROVE  SyncJobSound(sjob[r])' /\ SyncDisturbed(r)
<1>1. PICK j : j = sjob[r] /\ SyncJobSound(j) /\ IsSyncJob(j)
    BY DEF SyncsSound, SyncJobSound
<1>2. PICK k : k = [j EXCEPT !.alone = FALSE]
    OBVIOUS
<1>3. /\ IsSyncJob(k) /\ k.stage = j.stage /\ k.kind = j.kind /\ k.purse = j.purse
      /\ k.complete = j.complete /\ k.page = j.page /\ k.assets = j.assets
      /\ k.owners = j.owners /\ k.todo = j.todo /\ k.item = j.item
      /\ k.found = j.found /\ k.missed = j.missed /\ k.alone = FALSE
    BY <1>1, <1>2, SyncJobDisturbed
<1>4. SyncJobSound(k)
    BY <1>1, <1>3 DEF SyncJobSound
<1>5. SyncJobSound(k)'
    BY <1>4, SyncJobKept
<1>6. k = sjob'[r]
    BY <1>1, <1>2
<1> QED
    BY <1>1, <1>3, <1>5, <1>6 DEF SyncDisturbed

LEMMA OutsideSound ==
    ASSUME SyncsSound, RowsStay, Outside
    PROVE  SyncsSound' /\ \A r \in SyncRequests : SyncDisturbed(r)
<1>1. sjob' = [q \in SyncRequests |-> sjob'[q]]
    BY DEF Outside
<1>2. ASSUME NEW r \in SyncRequests PROVE SyncJobSound(sjob[r])' /\ SyncDisturbed(r)
    BY DisturbedSound DEF Outside
<1> QED
    BY <1>1, <1>2 DEF SyncsSound

LEMMA SyncBegins ==
    ASSUME SyncsSound, NEW r \in SyncRequests, NEW kind \in SyncKinds,
           NEW w \in Purses \cup {NoPurse}, syncWallet(r, kind, w)
    PROVE  LET k == sjob'[r] IN
           /\ sjob' = [q \in SyncRequests |-> sjob'[q]]
           /\ \A q \in SyncRequests \ {r} : sjob'[q] = [sjob[q] EXCEPT !.alone = FALSE]
           /\ IsSyncJob(k) /\ k.stage = "page" /\ k.kind = kind /\ k.purse = w
           /\ k.complete = Complete(kind, w) /\ k.page = 1 /\ k.assets = {} /\ k.todo = {}
           /\ k.missed = FALSE /\ k.alone = (\A q \in SyncRequests : ~Under(q))
<1>1. PICK a \in BOOLEAN : a = (\A q \in SyncRequests : ~Under(q))
    OBVIOUS
<1>2. PICK k : k = [Resting EXCEPT !.stage = "page", !.kind = kind, !.purse = w,
                        !.complete = Complete(kind, w), !.page = 1, !.alone = a]
    OBVIOUS
<1>3. sjob' = [q \in SyncRequests |-> IF q = r THEN k ELSE [sjob[q] EXCEPT !.alone = FALSE]]
    BY <1>1, <1>2 DEF syncWallet
<1>4. /\ IsSyncJob(k) /\ k.stage = "page" /\ k.kind = kind /\ k.purse = w
      /\ k.complete = Complete(kind, w) /\ k.page = 1 /\ k.assets = {} /\ k.todo = {}
      /\ k.missed = FALSE /\ k.alone = a
    BY <1>2 DEF IsSyncJob, Resting
<1>5. sjob'[r] = k /\ \A q \in SyncRequests \ {r} : sjob'[q] = [sjob[q] EXCEPT !.alone = FALSE]
    BY <1>3
<1>6. sjob' = [q \in SyncRequests |-> sjob'[q]]
    BY <1>3
<1> QED
    BY <1>1, <1>4, <1>5, <1>6

LEMMA SyncReads ==
    ASSUME SyncsSound, NEW r \in SyncRequests, getAssets(r)
    PROVE  LET j == sjob[r]
               k == sjob'[r]
               page == PageOf(Listed(j.kind, j.purse), j.page)
           IN  /\ sjob' = [q \in SyncRequests |-> sjob'[q]] /\ OtherSyncs(r)
               /\ SameSync(j, k) /\ k.missed = j.missed
               /\ k.assets = page /\ k.owners = holder /\ k.todo = Unsynced(j, page)
               /\ k.page = j.page + 1 /\ k.stage = IF page = {} THEN "moved" ELSE "next"
<1>1. PICK j : j = sjob[r] /\ IsSyncJob(j)
    BY DEF SyncsSound, SyncJobSound
<1>2. PICK page : page = PageOf(Listed(j.kind, j.purse), j.page)
    OBVIOUS
<1>3. PICK todo : todo = Unsynced(j, page)
    OBVIOUS
<1>4. PICK k : k = [j EXCEPT !.assets = page, !.owners = holder, !.todo = todo,
                        !.page = @ + 1, !.stage = IF page = {} THEN "moved" ELSE "next"]
    OBVIOUS
<1>5. Go(r, k)
    BY <1>1, <1>2, <1>3, <1>4 DEF getAssets
<1>6. sjob' = [q \in SyncRequests |-> sjob'[q]] /\ sjob'[r] = k /\ OtherSyncs(r)
    BY <1>5, SyncGoes
<1>7. /\ SameSync(j, k) /\ k.missed = j.missed
      /\ k.assets = page /\ k.owners = holder /\ k.todo = todo
      /\ k.page = j.page + 1 /\ k.stage = IF page = {} THEN "moved" ELSE "next"
    BY <1>1, <1>4 DEF IsSyncJob, SameSync
<1> QED
    BY <1>1, <1>2, <1>3, <1>6, <1>7

LEMMA SyncGivesUp ==
    ASSUME SyncsSound, NEW r \in SyncRequests, NEW c \in Comics, GiveUp(r, c)
    PROVE  LET j == sjob[r]
               k == sjob'[r]
           IN  /\ sjob' = [q \in SyncRequests |-> sjob'[q]] /\ OtherSyncs(r)
               /\ SamePage(j, k) /\ k.missed = TRUE
               /\ k.stage \in {"done", "next"} /\ k.todo \subseteq j.todo
               /\ k.stage = "done" => k.todo = {}
<1>1. PICK j : j = sjob[r] /\ IsSyncJob(j)
    BY DEF SyncsSound, SyncJobSound
<1>2. CASE j.kind = "core collection"
  <2>1. PICK k : k = [j EXCEPT !.stage = "done", !.todo = {}, !.missed = TRUE]
    OBVIOUS
  <2>2. Go(r, k)
    BY <1>1, <1>2, <2>1 DEF GiveUp
  <2>3. sjob' = [q \in SyncRequests |-> sjob'[q]] /\ sjob'[r] = k /\ OtherSyncs(r)
    BY <2>2, SyncGoes
  <2>4. SamePage(j, k) /\ k.missed = TRUE /\ k.stage = "done" /\ k.todo = {}
    BY <1>1, <2>1 DEF IsSyncJob, SamePage, SameSync
  <2> QED
    BY <1>1, <2>3, <2>4
<1>3. CASE j.kind # "core collection"
  <2>1. PICK todo : todo = {d \in j.todo : standing[d] # standing[c]}
    OBVIOUS
  <2>2. PICK k : k = [j EXCEPT !.stage = "next", !.item = c, !.missed = TRUE, !.todo = todo]
    OBVIOUS
  <2>3. Go(r, k)
    BY <1>1, <1>3, <2>1, <2>2 DEF GiveUp
  <2>4. sjob' = [q \in SyncRequests |-> sjob'[q]] /\ sjob'[r] = k /\ OtherSyncs(r)
    BY <2>3, SyncGoes
  <2>5. SamePage(j, k) /\ k.missed = TRUE /\ k.stage = "next" /\ k.todo = todo
    BY <1>1, <2>2 DEF IsSyncJob, SamePage, SameSync
  <2>6. k.todo \subseteq j.todo
    BY <2>1, <2>5
  <2> QED
    BY <1>1, <2>4, <2>5, <2>6
<1> QED
    BY <1>2, <1>3

\* One asset of the page is taken, and the sync goes to look for its receipt.
LegacyTaken(r, c) ==
    Go(r, [sjob[r] EXCEPT !.item = c, !.todo = @ \ {c}, !.stage = "look"])

CoreTaken(r, c, found) ==
    Go(r, [sjob[r] EXCEPT !.item = c, !.todo = @ \ {c}, !.found = found, !.stage = "index"])

LEMMA LegacyTakenIs ==
    ASSUME NEW r \in SyncRequests, indexLegacy(r)
    PROVE  \E c \in Legacy(sjob[r].todo) :
             \/ /\ row' = Indexed(sjob[r], c) /\ verified' \in {verified, verified \cup {c}}
                /\ LegacyTaken(r, c)
             \/ GiveUp(r, c) /\ UNCHANGED <<row, verified>>
  BY Zenon DEF indexLegacy, LegacyTaken

LEMMA CoreTakenIs ==
    ASSUME NEW r \in SyncRequests, findCoreReceipt(r)
    PROVE  \E c \in sjob[r].todo : \E found \in {HasReceipt(c)} : CoreTaken(r, c, found)
  BY Zenon DEF findCoreReceipt, CoreTaken

\* One asset of the page is taken: what it takes the sync to.
LEMMA TakesLegacy ==
    ASSUME SyncsSound, NEW r \in SyncRequests, NEW c, LegacyTaken(r, c)
    PROVE  /\ sjob' = [q \in SyncRequests |-> sjob'[q]] /\ OtherSyncs(r)
           /\ SamePage(sjob[r], sjob'[r]) /\ sjob'[r].missed = sjob[r].missed
           /\ sjob'[r].item = c /\ sjob'[r].todo = sjob[r].todo \ {c}
           /\ sjob'[r].stage = "look"
<1>1. PICK k : k = [sjob[r] EXCEPT !.item = c, !.todo = @ \ {c}, !.stage = "look"]
    OBVIOUS
<1>2. sjob' = [q \in SyncRequests |-> sjob'[q]] /\ sjob'[r] = k /\ OtherSyncs(r)
    BY <1>1, SyncGoes DEF LegacyTaken
<1>3. PICK j : j = sjob[r] /\ IsSyncJob(j)
    BY DEF SyncsSound, SyncJobSound
<1>4. /\ SamePage(j, k) /\ k.missed = j.missed
      /\ k.item = c /\ k.todo = j.todo \ {c} /\ k.stage = "look"
    BY <1>1, <1>3 DEF IsSyncJob, SamePage, SameSync
<1> QED
    BY <1>2, <1>3, <1>4

LEMMA TakesCore ==
    ASSUME SyncsSound, NEW r \in SyncRequests, NEW c, NEW found,
           CoreTaken(r, c, found)
    PROVE  /\ sjob' = [q \in SyncRequests |-> sjob'[q]] /\ OtherSyncs(r)
           /\ SamePage(sjob[r], sjob'[r]) /\ sjob'[r].missed = sjob[r].missed
           /\ sjob'[r].item = c /\ sjob'[r].todo = sjob[r].todo \ {c}
           /\ sjob'[r].found = found /\ sjob'[r].stage = "index"
<1>1. PICK k : k = [sjob[r] EXCEPT !.item = c, !.todo = @ \ {c}, !.found = found,
                        !.stage = "index"]
    OBVIOUS
<1>2. sjob' = [q \in SyncRequests |-> sjob'[q]] /\ sjob'[r] = k /\ OtherSyncs(r)
    BY <1>1, SyncGoes DEF CoreTaken
<1>3. PICK j : j = sjob[r] /\ IsSyncJob(j)
    BY DEF SyncsSound, SyncJobSound
<1>4. /\ SamePage(j, k) /\ k.missed = j.missed
      /\ k.item = c /\ k.todo = j.todo \ {c} /\ k.found = found /\ k.stage = "index"
    BY <1>1, <1>3 DEF IsSyncJob, SamePage, SameSync
<1> QED
    BY <1>2, <1>3, <1>4

LEMMA SyncEnds ==
    ASSUME SyncsSound, NEW r \in SyncRequests, updateNewOwners(r)
    PROVE  LET j == sjob[r]
               k == sjob'[r]
           IN  /\ sjob' = [q \in SyncRequests |-> sjob'[q]] /\ OtherSyncs(r)
               /\ IsSyncJob(k) /\ k.stage = "done" /\ k.complete = {} /\ k.assets = {}
               /\ k.page = 0 /\ k.todo = j.todo /\ k.kind = j.kind /\ k.purse = j.purse
               /\ k.alone = j.alone /\ k.missed = j.missed
<1>1. PICK j : j = sjob[r] /\ IsSyncJob(j)
    BY DEF SyncsSound, SyncJobSound
<1>2. PICK k : k = [j EXCEPT !.stage = "done", !.complete = {}, !.assets = {}, !.item = 0,
                        !.owners = NoPurse, !.found = FALSE, !.page = 0]
    OBVIOUS
<1>3. sjob' = [q \in SyncRequests |-> sjob'[q]] /\ sjob'[r] = k /\ OtherSyncs(r)
    BY <1>1, <1>2, SyncGoes DEF updateNewOwners
<1>4. /\ IsSyncJob(k) /\ k.stage = "done" /\ k.complete = {} /\ k.assets = {}
      /\ k.page = 0 /\ k.todo = j.todo /\ k.kind = j.kind /\ k.purse = j.purse
      /\ k.alone = j.alone /\ k.missed = j.missed
    BY <1>1, <1>2 DEF IsSyncJob
<1> QED
    BY <1>1, <1>3, <1>4

-----------------------------------------------------------------------------
(* Types                                                                   *)

LEMMA PageTyped ==
    ASSUME NEW kind, NEW w, NEW j, NEW p
    PROVE  LET page == PageOf(Listed(kind, w), p)
           IN  page \subseteq Comics /\ Unsynced(j, page) \subseteq page
  BY DEF PageOf, Listed, Unsynced

LEMMA WorldTypedStep ==
    ASSUME WorldTyped, SyncsSound, SyncNext
    PROVE  WorldTyped'
<1>1. ASSUME NEW c \in Comics, NEW w \in Purses, NEW told \in BOOLEAN, Transfer(c, w, told)
      PROVE  WorldTyped'
  <2>1. moves' \in 0..MaxMoves
    BY <1>1, WalletSyncAssumption DEF Transfer, WorldTyped
  <2>2. holder' \in [Comics -> Purses]
    BY <1>1 DEF Transfer, WorldTyped
  <2> QED
    BY <1>1, <2>1, <2>2 DEF Transfer, WorldTyped
<1>2. ASSUME NEW c \in Comics, TellMint(c) PROVE WorldTyped'
    BY <1>2 DEF TellMint, WorldTyped
<1>3. ASSUME NEW r \in SyncRequests, SyncStep(r) PROVE WorldTyped'
  <2>1. CASE \E kind \in SyncKinds, w \in Purses \cup {NoPurse} : syncWallet(r, kind, w)
    BY <2>1 DEF syncWallet, WorldTyped
  <2>2. CASE getAssets(r) \/ endPage(r) \/ findLegacyReceipt(r) \/ findCoreReceipt(r)
             \/ indexCore(r) \/ createReceipt(r) \/ updateNewOwners(r)
    BY <2>2 DEF getAssets, endPage, findLegacyReceipt, findCoreReceipt, indexCore,
       createReceipt, updateNewOwners, WorldTyped
  <2>3. CASE indexLegacy(r)
    <3>1. Legacy(sjob[r].todo) \subseteq Comics
      BY <1>3 DEF Legacy, SyncsSound, SyncJobSound
    <3>2. verified' \subseteq Comics
      BY <2>3, <3>1 DEF indexLegacy, WorldTyped
    <3> QED
      BY <2>3, <3>2 DEF indexLegacy, WorldTyped
  <2> QED
    BY <1>3, <2>1, <2>2, <2>3 DEF SyncStep
<1> QED
    BY <1>1, <1>2, <1>3 DEF SyncNext

LEMMA SyncBeginsTyped ==
    ASSUME SyncTyped, NEW r \in SyncRequests, NEW kind \in SyncKinds,
           NEW w \in Purses \cup {NoPurse}, syncWallet(r, kind, w)
    PROVE  RowsSound' /\ RowsStay /\ SyncsSound'
           /\ \A q \in SyncRequests \ {r} : SyncDisturbed(q)
<1>1. RowsSound' /\ RowsStay
    BY RowsSame DEF SyncTyped, syncWallet
<1>2. SyncsSound
    BY DEF SyncTyped
<1>3. PICK k : k = sjob'[r] /\ IsSyncJob(k) /\ k.stage = "page" /\ k.kind = kind
               /\ k.complete = Complete(kind, w) /\ k.page = 1 /\ k.assets = {} /\ k.todo = {}
    BY <1>2, SyncBegins
<1>4. SyncJobSound(k)'
    BY <1>3 DEF SyncJobSound, SyncStages, Complete
<1>5. ASSUME NEW q \in SyncRequests, q # r PROVE SyncJobSound(sjob[q])' /\ SyncDisturbed(q)
    BY <1>1, <1>2, <1>5, SyncBegins, DisturbedSound
<1>6. sjob' = [q \in SyncRequests |-> sjob'[q]]
    BY <1>2, SyncBegins
<1>7. SyncJobSound(sjob[r])'
    BY <1>3, <1>4
<1> QED
    BY <1>1, <1>5, <1>6, <1>7 DEF SyncsSound

LEMMA SyncReadsTyped ==
    ASSUME SyncTyped, NEW r \in SyncRequests, getAssets(r)
    PROVE  RowsSound' /\ RowsStay /\ SyncsSound'
<1>1. RowsSound' /\ RowsStay
    BY RowsSame DEF SyncTyped, getAssets
<1>2. SyncsSound /\ WorldTyped
    BY DEF SyncTyped
<1>3. PICK j : j = sjob[r] /\ SyncJobSound(j) /\ j.stage = "page"
    BY <1>2 DEF SyncsSound, getAssets
<1>4. PICK page : page = PageOf(Listed(j.kind, j.purse), j.page)
    OBVIOUS
<1>5. PICK k : /\ k = sjob'[r] /\ SameSync(j, k)
               /\ k.assets = page /\ k.owners = holder /\ k.todo = Unsynced(j, page)
               /\ k.page = j.page + 1 /\ k.stage = IF page = {} THEN "moved" ELSE "next"
    BY <1>2, <1>3, <1>4, SyncReads
<1>6. page \subseteq Comics /\ k.todo \subseteq page
    BY <1>4, <1>5, PageTyped
<1>7. SyncJobSound(k)'
    BY <1>2, <1>3, <1>5, <1>6 DEF SyncJobSound, SameSync, SyncStages, WorldTyped
<1> QED
    BY <1>1, <1>2, <1>5, <1>7, SyncReads, SyncMoves

LEMMA GivesUpTyped ==
    ASSUME SyncTyped, NEW r \in SyncRequests, NEW c \in Comics, GiveUp(r, c),
           sjob[r].stage \in {"next", "index", "receipt"}, RowsStay
    PROVE  SyncsSound'
<1>1. SyncsSound
    BY DEF SyncTyped
<1>2. PICK j : j = sjob[r] /\ SyncJobSound(j)
    BY <1>1 DEF SyncsSound
<1>3. PICK k : /\ k = sjob'[r] /\ SamePage(j, k)
               /\ k.stage \in {"done", "next"} /\ k.todo \subseteq j.todo
               /\ k.stage = "done" => k.todo = {}
    BY <1>1, <1>2, SyncGivesUp
<1>4. SyncJobSound(k)'
    BY <1>2, <1>3 DEF SyncJobSound, SamePage, SameSync, SyncStages
<1> QED
    BY <1>1, <1>3, <1>4, SyncGivesUp, SyncMoves

\* From one stage of an asset to another
LEMMA SyncGoesTyped ==
    ASSUME SyncTyped, RowsStay, NEW r \in SyncRequests, NEW stage, GoTo(r, stage),
           \/ sjob[r].stage = "next" /\ sjob[r].todo = {} /\ sjob[r].page # 0 /\ stage = "page"
           \/ sjob[r].stage \in {"look", "index", "receipt"} /\ stage = "next"
           \/ sjob[r].stage \in {"look", "index"} /\ stage = "receipt"
              /\ row'[sjob[r].item] # NoRow
    PROVE  SyncsSound'
<1>1. SyncsSound
    BY DEF SyncTyped
<1>2. PICK j : j = sjob[r] /\ SyncJobSound(j)
    BY <1>1 DEF SyncsSound
<1>3. PICK k : /\ k = sjob'[r] /\ SamePage(j, k) /\ k.stage = stage
               /\ k.todo = j.todo /\ k.item = j.item
    BY <1>1, <1>2, SyncGoesTo
<1>4. SyncJobSound(k)'
  <2>1. CASE j.stage = "next" /\ j.todo = {} /\ j.page # 0 /\ stage = "page"
    BY <1>2, <1>3, <2>1 DEF SyncJobSound, SamePage, SameSync, SyncStages
  <2>2. CASE j.stage \in {"look", "index", "receipt"} /\ stage = "next"
    BY <1>2, <1>3, <2>2 DEF SyncJobSound, SamePage, SameSync, SyncStages
  <2>3. CASE j.stage \in {"look", "index"} /\ stage = "receipt" /\ row'[j.item] # NoRow
    BY <1>2, <1>3, <2>3 DEF SyncJobSound, SamePage, SameSync, SyncStages
  <2> QED
    BY <1>2, <2>1, <2>2, <2>3
<1> QED
    BY <1>1, <1>3, <1>4, SyncGoesTo, SyncMoves

\* What is still to do of a page are assets.
LEMMA TodoAssets ==
    ASSUME SyncTyped, NEW r \in SyncRequests
    PROVE  sjob[r].todo \subseteq Comics /\ Legacy(sjob[r].todo) \subseteq sjob[r].todo
  BY DEF SyncTyped, SyncsSound, SyncJobSound, Legacy

LEMMA IndexLegacyTyped ==
    ASSUME SyncTyped, NEW r \in SyncRequests, indexLegacy(r)
    PROVE  RowsSound' /\ RowsStay /\ SyncsSound'
<1>1. SyncsSound /\ RowsSound /\ UNCHANGED <<receipts, untold>> /\ sjob[r].stage = "next"
    BY DEF SyncTyped, indexLegacy
<1>2. PICK c \in Legacy(sjob[r].todo) :
         \/ /\ row' = Indexed(sjob[r], c) /\ LegacyTaken(r, c)
         \/ GiveUp(r, c) /\ UNCHANGED row
    BY LegacyTakenIs
<1>3. c \in Comics
    BY <1>2, TodoAssets
<1>4. CASE GiveUp(r, c) /\ UNCHANGED row
    BY <1>1, <1>3, <1>4, RowsSame, GivesUpTyped
<1>5. CASE /\ row' = Indexed(sjob[r], c) /\ LegacyTaken(r, c)
  <2>1. PICK j : j = sjob[r] /\ SyncJobSound(j) /\ j.stage = "next"
    BY <1>1 DEF SyncsSound
  <2>2. RowsSound' /\ RowsStay /\ row'[c] # NoRow
    BY <1>1, <1>3, <1>5, <2>1, RowIndexed DEF SyncJobSound
  <2>3. /\ sjob' = [q \in SyncRequests |-> sjob'[q]] /\ OtherSyncs(r)
        /\ SamePage(sjob[r], sjob'[r]) /\ sjob'[r].item = c
        /\ sjob'[r].todo = sjob[r].todo \ {c} /\ sjob'[r].stage = "look"
    BY <1>1, <1>5, TakesLegacy
  <2>4. PICK k : /\ k = sjob'[r] /\ SamePage(j, k) /\ k.item = c /\ k.todo = j.todo \ {c}
                 /\ k.stage = "look"
    BY <2>1, <2>3
  <2>5. SyncJobSound(k)'
    BY <1>3, <2>1, <2>2, <2>4 DEF SyncJobSound, SamePage, SameSync, SyncStages
  <2> QED
    BY <1>1, <2>2, <2>3, <2>4, <2>5, SyncMoves
<1> QED
    BY <1>2, <1>4, <1>5

LEMMA FindCoreTyped ==
    ASSUME SyncTyped, NEW r \in SyncRequests, findCoreReceipt(r)
    PROVE  RowsSound' /\ RowsStay /\ SyncsSound'
<1>1. /\ SyncsSound /\ RowsSound /\ UNCHANGED <<row, receipts, untold>>
      /\ sjob[r].stage = "next"
    BY DEF SyncTyped, findCoreReceipt
<1>2. RowsSound' /\ RowsStay
    BY <1>1, RowsSame
<1>3. PICK c \in sjob[r].todo : \E found \in {HasReceipt(c)} : CoreTaken(r, c, found)
    BY CoreTakenIs
<1>4. c \in Comics
    BY <1>3, TodoAssets
<1>5. PICK j : j = sjob[r] /\ SyncJobSound(j) /\ j.stage = "next"
    BY <1>1 DEF SyncsSound
<1>6. PICK found : CoreTaken(r, c, found)
    BY <1>3
<1>7. PICK k : /\ k = sjob'[r] /\ SamePage(j, k) /\ k.item = c /\ k.todo = j.todo \ {c}
               /\ k.stage = "index"
    BY <1>1, <1>5, <1>6, TakesCore
<1>8. SyncJobSound(k)'
    BY <1>4, <1>5, <1>7 DEF SyncJobSound, SamePage, SameSync, SyncStages
<1>9. sjob' = [q \in SyncRequests |-> sjob'[q]] /\ OtherSyncs(r)
    BY <1>1, <1>6, TakesCore
<1> QED
    BY <1>1, <1>2, <1>7, <1>8, <1>9, SyncMoves

LEMMA IndexCoreTyped ==
    ASSUME SyncTyped, NEW r \in SyncRequests, indexCore(r)
    PROVE  RowsSound' /\ RowsStay /\ SyncsSound'
<1>1. SyncsSound /\ RowsSound /\ UNCHANGED <<receipts, untold>> /\ sjob[r].stage = "index"
    BY DEF SyncTyped, indexCore
<1>2. PICK j : j = sjob[r] /\ SyncJobSound(j) /\ j.stage = "index"
    BY <1>1 DEF SyncsSound
<1>3. j.item \in Comics /\ j.owners \in [Comics -> Purses]
    BY <1>2 DEF SyncJobSound
<1>4. CASE GiveUp(r, j.item) /\ UNCHANGED row
    BY <1>1, <1>2, <1>3, <1>4, RowsSame, GivesUpTyped
<1>5. CASE row' = Indexed(j, j.item) /\ GoTo(r, IF j.found THEN "next" ELSE "receipt")
  <2>1. RowsSound' /\ RowsStay /\ row'[j.item] # NoRow
    BY <1>1, <1>3, <1>5, RowIndexed
  <2>2. SyncsSound'
    BY <1>1, <1>2, <1>5, <2>1, SyncGoesTyped
  <2> QED
    BY <2>1, <2>2
<1> QED
    BY <1>2, <1>4, <1>5 DEF indexCore

LEMMA CreateReceiptTyped ==
    ASSUME SyncTyped, NEW r \in SyncRequests, createReceipt(r)
    PROVE  RowsSound' /\ RowsStay /\ SyncsSound'
<1>1. SyncsSound /\ RowsSound /\ sjob[r].stage = "receipt" /\ sjob[r].item \in Comics
    BY DEF SyncTyped, createReceipt, SyncsSound, SyncJobSound
<1>2. RowsSound' /\ RowsStay
    BY <1>1, CreateReceiptRows
<1>3. CASE GoTo(r, "next")
    BY <1>1, <1>2, <1>3, SyncGoesTyped
<1>4. CASE GiveUp(r, sjob[r].item)
    BY <1>1, <1>2, <1>4, GivesUpTyped
<1> QED
    BY <1>2, <1>3, <1>4 DEF createReceipt

LEMMA SyncEndsTyped ==
    ASSUME SyncTyped, NEW r \in SyncRequests, updateNewOwners(r)
    PROVE  RowsSound' /\ RowsStay /\ SyncsSound' /\ row' = row
<1>1. SyncsSound /\ RowsSound
    BY DEF SyncTyped
<1>2. row' = row
    BY <1>1, NewOwnersNone
<1>3. RowsSound' /\ RowsStay
    BY <1>1, <1>2, RowsSame DEF updateNewOwners
<1>4. PICK j : j = sjob[r] /\ SyncJobSound(j) /\ j.stage = "moved"
    BY <1>1 DEF SyncsSound, updateNewOwners
<1>5. PICK k : /\ k = sjob'[r] /\ IsSyncJob(k) /\ k.stage = "done" /\ k.complete = {}
               /\ k.assets = {} /\ k.page = 0 /\ k.todo = j.todo /\ k.kind = j.kind
    BY <1>1, <1>4, SyncEnds
<1>6. SyncJobSound(k)'
    BY <1>4, <1>5 DEF SyncJobSound, SyncStages
<1> QED
    BY <1>1, <1>2, <1>3, <1>5, <1>6, SyncEnds, SyncMoves

LEMMA SyncStaysTyped ==
    ASSUME SyncTyped, NEW r \in SyncRequests, endPage(r) \/ findLegacyReceipt(r)
    PROVE  RowsSound' /\ RowsStay /\ SyncsSound' /\ row' = row
<1>1. SyncsSound /\ RowsSound /\ UNCHANGED <<row, receipts, untold>>
    BY DEF SyncTyped, endPage, findLegacyReceipt
<1>2. RowsSound' /\ RowsStay
    BY <1>1, RowsSame
<1>3. SyncJobSound(sjob[r])
    BY <1>1 DEF SyncsSound
<1>4. CASE endPage(r)
  <2>1. sjob[r].page # 0
    BY <1>3, <1>4 DEF endPage, SyncJobSound
  <2> QED
    BY <1>1, <1>2, <1>4, <2>1, SyncGoesTyped DEF endPage
<1>5. CASE findLegacyReceipt(r)
  <2>1. row'[sjob[r].item] # NoRow
    BY <1>1, <1>3, <1>5 DEF findLegacyReceipt, SyncJobSound
  <2> QED
    BY <1>1, <1>2, <1>5, <2>1, SyncGoesTyped DEF findLegacyReceipt
<1> QED
    BY <1>4, <1>5

LEMMA SyncTypedStep ==
    ASSUME SyncTyped, SyncNext
    PROVE  SyncTyped' /\ RowsStay
<1>1. WorldTyped' /\ SyncsSound /\ RowsSound /\ WorldTyped
    BY WorldTypedStep DEF SyncTyped
<1>2. ASSUME NEW c \in Comics, NEW w \in Purses, NEW told \in BOOLEAN, Transfer(c, w, told)
      PROVE  RowsSound' /\ RowsStay /\ SyncsSound'
  <2>1. Outside
    BY <1>2 DEF Transfer
  <2> QED
    BY <1>1, <1>2, <2>1, TransferRows, OutsideSound
<1>3. ASSUME NEW c \in Comics, TellMint(c) PROVE RowsSound' /\ RowsStay /\ SyncsSound'
  <2>1. Outside
    BY <1>3 DEF TellMint
  <2> QED
    BY <1>1, <1>3, <2>1, TellMintRows, OutsideSound
<1>4. ASSUME NEW r \in SyncRequests, SyncStep(r) PROVE RowsSound' /\ RowsStay /\ SyncsSound'
    BY <1>4, SyncBeginsTyped, SyncReadsTyped, IndexLegacyTyped, FindCoreTyped, IndexCoreTyped,
       CreateReceiptTyped, SyncEndsTyped, SyncStaysTyped DEF SyncStep
<1> QED
    BY <1>1, <1>2, <1>3, <1>4 DEF SyncNext, SyncTyped

LEMMA SyncStarts == SyncInit => ReceiptsInv
<1>1. SUFFICES ASSUME SyncInit PROVE ReceiptsInv
    OBVIOUS
<1>2. PICK told \in SUBSET Comics, minted \in SUBSET Comics :
         /\ told \subseteq minted /\ receipts = {Minted(c) : c \in minted}
         /\ row = [c \in Comics |-> IF c \in told
                                    THEN [owner |-> holder[c], receipt |-> Minted(c)]
                                    ELSE NoRow]
         /\ untold = {c \in minted \ told : standing[c] = "core"}
         /\ verified = {c \in told : standing[c] = "legacy"}
    BY <1>1 DEF SyncInit, Minted
<1>3. WorldTyped
  <2>1. moves \in 0..MaxMoves
    BY <1>1, WalletSyncAssumption DEF SyncInit
  <2>2. verified \subseteq Comics
    BY <1>2
  <2> QED
    BY <1>1, <2>1, <2>2 DEF WorldTyped, SyncInit
<1>4. ASSUME NEW c \in told
      PROVE  row[c] \in AssetRows /\ row[c].receipt = Minted(c)
  <2>1. holder[c] \in Purses /\ Minted(c) \in Receipts
    BY <1>3 DEF WorldTyped, Minted, Receipts
  <2>2. row[c] = [owner |-> holder[c], receipt |-> Minted(c)]
    BY <1>2
  <2> QED
    BY <2>1, <2>2, RowMade
<1>5. RowsSound
  <2>1. \A c \in Comics : row[c] \in AssetRows \cup {NoRow}
    BY <1>2, <1>4
  <2>2. receipts \subseteq Receipts
    BY <1>2 DEF Minted, Receipts
  <2>3. \A c \in Comics : row[c] # NoRow => row[c].receipt \in receipts
    BY <1>2, <1>4
  <2>4. untold \subseteq Comics /\ \A c \in untold : Minted(c) \in receipts
    BY <1>2
  <2> QED
    BY <1>2, <2>1, <2>2, <2>3, <2>4 DEF RowsSound
<1>6. SyncsSound
  <2>1. SyncJobSound(Resting)
    BY DEF SyncJobSound, IsSyncJob, Resting, SyncStages, SyncKinds
  <2>2. sjob = [r \in SyncRequests |-> Resting]
    BY <1>1 DEF SyncInit
  <2> QED
    BY <2>1, <2>2 DEF SyncsSound
<1>7. \A r \in SyncRequests : sjob[r].stage = "idle"
    BY <1>1 DEF SyncInit, Resting
<1>8. OneSync /\ ReceiptWanted
    BY <1>7 DEF OneSync, ReceiptWanted, Under
<1>9. UntoldRowless
    BY <1>2 DEF UntoldRowless
<1> QED
    BY <1>3, <1>5, <1>6, <1>8, <1>9 DEF ReceiptsInv, SyncTyped

LEMMA SyncTypedTypeOK == SyncTyped => SyncTypeOK
<1>1. SUFFICES ASSUME SyncTyped PROVE SyncTypeOK
    OBVIOUS
<1>2. WorldTyped /\ RowsSound /\ SyncsSound
    BY <1>1 DEF SyncTyped
<1>3. \A c \in Comics : row[c] # NoRow => /\ row[c].owner \in Purses
                                          /\ row[c].receipt \in receipts \cup {NoReceipt}
    BY <1>2 DEF RowsSound, AssetRows
<1>4. \A r \in SyncRequests : /\ sjob[r].stage \in SyncStages /\ sjob[r].kind \in SyncKinds
                              /\ sjob[r].todo \subseteq sjob[r].assets
                              /\ sjob[r].assets \subseteq Comics
    BY <1>2 DEF SyncsSound, SyncJobSound
<1> QED
    BY <1>2, <1>3, <1>4 DEF SyncTypeOK, WorldTyped, RowsSound

-----------------------------------------------------------------------------
(* Receipts                                                                *)

\* A row keeps the receipt it has.
ReceiptsStay == \A c \in Comics : row[c] # NoRow => row[c].receipt \in {NoReceipt, row'[c].receipt}

\* The steps of a sync that has begun
SyncGoesOn(r) ==
    \/ getAssets(r) \/ endPage(r) \/ indexLegacy(r) \/ findLegacyReceipt(r)
    \/ findCoreReceipt(r) \/ indexCore(r) \/ createReceipt(r) \/ updateNewOwners(r)

LEMMA SyncGoesOnUnder ==
    ASSUME NEW r \in SyncRequests, SyncGoesOn(r)
    PROVE  Under(r) /\ UNCHANGED <<holder, standing, couponed, untold, crossed>>
<1>1. CASE getAssets(r)
    BY <1>1, Zenon DEF getAssets, Under
<1>2. CASE endPage(r) \/ findLegacyReceipt(r) \/ updateNewOwners(r)
    BY <1>2, Zenon DEF endPage, findLegacyReceipt, updateNewOwners, Under
<1>3. CASE indexLegacy(r) \/ findCoreReceipt(r)
    BY <1>3, Zenon DEF indexLegacy, findCoreReceipt, Under
<1>4. CASE indexCore(r)
    BY <1>4, Zenon DEF indexCore, Under
<1>5. CASE createReceipt(r)
    BY <1>5, Zenon DEF createReceipt, Under
<1> QED
    BY <1>1, <1>2, <1>3, <1>4, <1>5 DEF SyncGoesOn

LEMMA SyncGoesOnAlone ==
    ASSUME SyncTyped, NEW r \in SyncRequests, SyncGoesOn(r)
    PROVE  /\ Under(r) /\ OtherSyncs(r) /\ crossed' = crossed /\ sjob'[r].stage # "idle"
           /\ sjob'[r].alone = sjob[r].alone /\ sjob'[r].kind = sjob[r].kind
           /\ sjob'[r].purse = sjob[r].purse
           /\ UNCHANGED <<holder, standing, couponed, untold>>
<1>1. SyncsSound /\ Under(r) /\ UNCHANGED <<holder, standing, couponed, untold, crossed>>
    BY SyncGoesOnUnder DEF SyncTyped
<1>2. CASE getAssets(r)
    BY <1>1, <1>2, SyncReads DEF SameSync
<1>3. CASE endPage(r)
  <2>1. GoTo(r, "page")
    BY <1>3 DEF endPage
  <2> QED
    BY <1>1, <1>3, <2>1, SyncGoesTo DEF SamePage, SameSync
<1>4. CASE indexLegacy(r)
  <2>1. PICK c \in Legacy(sjob[r].todo) : LegacyTaken(r, c) \/ GiveUp(r, c)
    BY <1>4, LegacyTakenIs
  <2>2. c \in Comics
    BY <2>1, TodoAssets
  <2>3. CASE LegacyTaken(r, c)
    <3>1. OtherSyncs(r) /\ SamePage(sjob[r], sjob'[r]) /\ sjob'[r].stage = "look"
      BY <1>1, <2>3, TakesLegacy
    <3> QED
      BY <1>1, <3>1 DEF SamePage, SameSync
  <2>4. CASE GiveUp(r, c)
    <3>1. OtherSyncs(r) /\ SamePage(sjob[r], sjob'[r]) /\ sjob'[r].stage # "idle"
      BY <1>1, <2>2, <2>4, SyncGivesUp
    <3> QED
      BY <1>1, <3>1 DEF SamePage, SameSync
  <2> QED
    BY <2>1, <2>3, <2>4
<1>5. CASE findLegacyReceipt(r)
  <2>1. PICK stage \in {"next", "receipt"} : GoTo(r, stage)
    BY <1>5 DEF findLegacyReceipt
  <2> QED
    BY <1>1, <1>5, <2>1, SyncGoesTo DEF SamePage, SameSync
<1>6. CASE findCoreReceipt(r)
  <2>1. PICK c, found : CoreTaken(r, c, found)
    BY <1>6, CoreTakenIs
  <2>2. OtherSyncs(r) /\ SamePage(sjob[r], sjob'[r]) /\ sjob'[r].stage = "index"
    BY <1>1, <2>1, TakesCore
  <2> QED
    BY <1>1, <2>2 DEF SamePage, SameSync
<1>7. CASE indexCore(r)
  <2>1. sjob[r].item \in Comics
    BY <1>1, <1>7 DEF indexCore, SyncsSound, SyncJobSound
  <2>2. CASE GiveUp(r, sjob[r].item)
    <3>1. OtherSyncs(r) /\ SamePage(sjob[r], sjob'[r]) /\ sjob'[r].stage # "idle"
      BY <1>1, <2>1, <2>2, SyncGivesUp
    <3> QED
      BY <1>1, <3>1 DEF SamePage, SameSync
  <2>3. CASE ~GiveUp(r, sjob[r].item)
    <3>1. PICK stage \in {"next", "receipt"} : GoTo(r, stage)
      BY <1>7, <2>3 DEF indexCore
    <3> QED
      BY <1>1, <1>7, <3>1, SyncGoesTo DEF SamePage, SameSync
  <2> QED
    BY <2>2, <2>3
<1>8. CASE createReceipt(r)
  <2>1. sjob[r].item \in Comics
    BY <1>1, <1>8 DEF createReceipt, SyncsSound, SyncJobSound
  <2>2. CASE GiveUp(r, sjob[r].item)
    <3>1. OtherSyncs(r) /\ SamePage(sjob[r], sjob'[r]) /\ sjob'[r].stage # "idle"
      BY <1>1, <2>1, <2>2, SyncGivesUp
    <3> QED
      BY <1>1, <3>1 DEF SamePage, SameSync
  <2>3. CASE ~GiveUp(r, sjob[r].item)
    <3>1. GoTo(r, "next")
      BY <1>8, <2>3 DEF createReceipt
    <3>2. OtherSyncs(r) /\ SamePage(sjob[r], sjob'[r]) /\ sjob'[r].stage = "next"
      BY <1>1, <3>1, SyncGoesTo
    <3> QED
      BY <1>1, <3>2 DEF SamePage, SameSync
  <2> QED
    BY <2>2, <2>3
<1>9. CASE updateNewOwners(r)
    BY <1>1, <1>9, SyncEnds
<1> QED
    BY <1>2, <1>3, <1>4, <1>5, <1>6, <1>7, <1>8, <1>9 DEF SyncGoesOn

LEMMA SyncStepKinds ==
    ASSUME SyncNext
    PROVE  \/ \E c \in Comics, w \in Purses, told \in BOOLEAN : Transfer(c, w, told)
           \/ \E c \in Comics : TellMint(c)
           \/ \E r \in SyncRequests : \E kind \in SyncKinds, w \in Purses \cup {NoPurse} :
                 syncWallet(r, kind, w)
           \/ \E r \in SyncRequests : SyncGoesOn(r)
  BY DEF SyncNext, SyncStep, SyncGoesOn

\* Outside events leave every sync where it is; after a mint none has begun, or syncs
\* are crossed.
LEMMA OutsideMoves ==
    ASSUME SyncTyped, NEW c \in Comics,
           TellMint(c) \/ \E w \in Purses, told \in BOOLEAN : Transfer(c, w, told)
    PROVE  /\ \A r \in SyncRequests : SyncDisturbed(r)
           /\ crossed => crossed'
           /\ TellMint(c) /\ ~crossed' => \A r \in SyncRequests : sjob[r].stage = "idle"
<1>1. SyncsSound /\ RowsSound /\ WorldTyped
    BY DEF SyncTyped
<1>2. Outside
    BY DEF TellMint, Transfer
<1>3. RowsStay
    BY <1>1, TellMintRows, TransferRows
<1>4. \A r \in SyncRequests : SyncDisturbed(r)
    BY <1>1, <1>2, <1>3, OutsideSound
<1>5. crossed => crossed'
    BY DEF TellMint, Transfer
<1>6. TellMint(c) /\ ~crossed' => \A r \in SyncRequests : sjob[r].stage = "idle"
    BY DEF TellMint
<1> QED
    BY <1>4, <1>5, <1>6

LEMMA SyncBeginsMoves ==
    ASSUME SyncTyped, NEW r \in SyncRequests, NEW kind \in SyncKinds,
           NEW w \in Purses \cup {NoPurse}, syncWallet(r, kind, w)
    PROVE  /\ sjob'[r].stage = "page" /\ UNCHANGED row
           /\ \A q \in SyncRequests \ {r} : SyncDisturbed(q)
           /\ crossed => crossed'
           /\ ~crossed' => \A q \in SyncRequests : ~Under(q)
<1>1. sjob'[r].stage = "page"
    BY SyncBegins DEF SyncTyped
<1>2. \A q \in SyncRequests \ {r} : SyncDisturbed(q)
    BY SyncBeginsTyped
<1>3. UNCHANGED row /\ (crossed => crossed')
      /\ (~crossed' => \A q \in SyncRequests : ~Under(q))
    BY Zenon DEF syncWallet
<1> QED
    BY <1>1, <1>2, <1>3

LEMMA OneSyncStep ==
    ASSUME SyncTyped, OneSync, SyncNext
    PROVE  OneSync'
<1>1. ASSUME NEW c \in Comics,
             TellMint(c) \/ \E w \in Purses, told \in BOOLEAN : Transfer(c, w, told)
      PROVE  OneSync'
    BY <1>1, OutsideMoves DEF OneSync, Under, SyncDisturbed
<1>2. ASSUME NEW r \in SyncRequests, NEW kind \in SyncKinds,
             NEW w \in Purses \cup {NoPurse}, syncWallet(r, kind, w)
      PROVE  OneSync'
  <2>1. ~crossed' => \A q \in SyncRequests \ {r} : ~Under(q)'
    BY <1>2, SyncBeginsMoves DEF Under, SyncDisturbed
  <2> QED
    BY <2>1 DEF OneSync
<1>3. ASSUME NEW r \in SyncRequests, SyncGoesOn(r) PROVE OneSync'
  <2>1. Under(r) /\ OtherSyncs(r) /\ crossed' = crossed
    BY <1>3, SyncGoesOnAlone
  <2>2. ~crossed => \A q \in SyncRequests \ {r} : ~Under(q)
    BY <2>1 DEF OneSync
  <2>3. ~crossed' => \A q \in SyncRequests \ {r} : ~Under(q)'
    BY <2>1, <2>2 DEF Under, OtherSyncs
  <2> QED
    BY <2>3 DEF OneSync
<1> QED
    BY <1>1, <1>2, <1>3, SyncStepKinds

LEMMA UntoldStep ==
    ASSUME SyncTyped, UntoldRowless, SyncNext
    PROVE  UntoldRowless'
<1>1. RowsSound /\ WorldTyped
    BY DEF SyncTyped
<1>2. ASSUME NEW c \in Comics, TellMint(c) PROVE UntoldRowless'
  <2>1. \A r \in SyncRequests : sjob'[r].stage = sjob[r].stage
    BY <1>2, OutsideMoves DEF SyncDisturbed
  <2>2. \A d \in Comics \ {c} : row'[d] = row[d]
    BY <1>1, <1>2, TellMintRows
  <2>3. untold' = untold \ {c} /\ untold \subseteq Comics
    BY <1>1, <1>2 DEF TellMint, RowsSound
  <2> QED
    BY <2>1, <2>2, <2>3 DEF UntoldRowless
<1>3. ASSUME NEW c \in Comics, NEW w \in Purses, NEW told \in BOOLEAN, Transfer(c, w, told)
      PROVE  UntoldRowless'
  <2>1. \A r \in SyncRequests : sjob'[r].stage = sjob[r].stage
    BY <1>3, OutsideMoves DEF SyncDisturbed
  <2>2. \A d \in Comics : row[d] = NoRow => row'[d] = NoRow
    BY <1>1, <1>3, TransferRows
  <2>3. untold' = untold /\ untold \subseteq Comics
    BY <1>1, <1>3 DEF Transfer, RowsSound
  <2> QED
    BY <2>1, <2>2, <2>3 DEF UntoldRowless
<1>4. ASSUME NEW r \in SyncRequests, NEW kind \in SyncKinds,
             NEW w \in Purses \cup {NoPurse}, syncWallet(r, kind, w)
      PROVE  UntoldRowless'
    BY <1>4, SyncBeginsMoves DEF UntoldRowless
<1>5. ASSUME NEW r \in SyncRequests, SyncGoesOn(r) PROVE UntoldRowless'
    BY <1>5, SyncGoesOnAlone DEF UntoldRowless
<1> QED
    BY <1>2, <1>3, <1>4, <1>5, SyncStepKinds

WantsReceipt(r) ==
    sjob[r].stage = "receipt" \/ (sjob[r].stage = "index" /\ ~sjob[r].found)

\* The sync that goes on looks before it makes a receipt.
LEMMA SyncGoesOnWanted ==
    ASSUME SyncTyped, NEW r \in SyncRequests, SyncGoesOn(r), WantsReceipt(r)',
           WantsReceipt(r) => ~HasReceipt(sjob[r].item)
    PROVE  ~HasReceipt(sjob[r].item)'
<1>1. SyncsSound /\ RowsSound
    BY DEF SyncTyped
<1>2. ~getAssets(r)
    BY <1>1, SyncReads DEF WantsReceipt
<1>3. ~endPage(r)
    BY <1>1, SyncGoesTo DEF WantsReceipt, endPage
<1>4. ~updateNewOwners(r)
    BY <1>1, SyncEnds DEF WantsReceipt
<1>5. ASSUME NEW c \in Comics PROVE ~GiveUp(r, c)
    BY <1>1, SyncGivesUp DEF WantsReceipt
<1>6. ~indexLegacy(r)
  <2>1. SUFFICES ASSUME indexLegacy(r) PROVE FALSE
    OBVIOUS
  <2>2. PICK c \in Legacy(sjob[r].todo) : LegacyTaken(r, c) \/ GiveUp(r, c)
    BY <2>1, LegacyTakenIs
  <2>3. c \in Comics
    BY <2>2, TodoAssets
  <2>4. LegacyTaken(r, c)
    BY <1>5, <2>2, <2>3
  <2>5. sjob'[r].stage = "look"
    BY <1>1, <2>4, TakesLegacy
  <2> QED
    BY <2>5 DEF WantsReceipt
<1>7. ~createReceipt(r)
  <2>1. SUFFICES ASSUME createReceipt(r) PROVE FALSE
    OBVIOUS
  <2>2. sjob[r].item \in Comics
    BY <1>1, <2>1 DEF createReceipt, SyncsSound, SyncJobSound
  <2>3. GoTo(r, "next")
    BY <1>5, <2>1, <2>2 DEF createReceipt
  <2> QED
    BY <1>1, <2>3, SyncGoesTo DEF WantsReceipt
<1>8. CASE findLegacyReceipt(r)
  <2>1. GoTo(r, IF HasReceipt(sjob[r].item) THEN "next" ELSE "receipt") /\ UNCHANGED row
    BY <1>8 DEF findLegacyReceipt
  <2>2. PICK stage : stage = IF HasReceipt(sjob[r].item) THEN "next" ELSE "receipt"
    OBVIOUS
  <2>3. sjob'[r].stage = stage /\ sjob'[r].item = sjob[r].item
    BY <1>1, <2>1, <2>2, SyncGoesTo
  <2> QED
    BY <2>1, <2>2, <2>3 DEF WantsReceipt, HasReceipt
<1>9. CASE findCoreReceipt(r)
  <2>1. PICK c \in sjob[r].todo : \E found \in {HasReceipt(c)} : CoreTaken(r, c, found)
    BY <1>9, CoreTakenIs
  <2>2. PICK found \in {HasReceipt(c)} : CoreTaken(r, c, found)
    BY <2>1
  <2>3. sjob'[r].item = c /\ sjob'[r].found = found /\ sjob'[r].stage = "index"
    BY <1>1, <2>2, TakesCore
  <2>4. UNCHANGED row
    BY <1>9 DEF findCoreReceipt
  <2> QED
    BY <2>2, <2>3, <2>4 DEF WantsReceipt, HasReceipt
<1>10. CASE indexCore(r)
  <2>1. PICK j : j = sjob[r] /\ SyncJobSound(j) /\ j.stage = "index"
    BY <1>1, <1>10 DEF SyncsSound, indexCore
  <2>2. j.item \in Comics /\ j.owners \in [Comics -> Purses]
    BY <2>1 DEF SyncJobSound
  <2>3. /\ row' = Indexed(j, j.item) /\ GoTo(r, IF j.found THEN "next" ELSE "receipt")
        /\ UNCHANGED <<receipts, untold>>
    BY <1>5, <1>10, <2>1, <2>2 DEF indexCore
  <2>4. PICK stage : stage = IF j.found THEN "next" ELSE "receipt"
    OBVIOUS
  <2>5. sjob'[r].stage = stage /\ sjob'[r].item = j.item
    BY <1>1, <2>1, <2>3, <2>4, SyncGoesTo
  <2>6. ~j.found /\ ~HasReceipt(j.item)
    BY <2>1, <2>4, <2>5 DEF WantsReceipt
  <2>7. row'[j.item].receipt = NoReceipt
    BY <1>1, <2>2, <2>3, <2>6, RowIndexed DEF HasReceipt
  <2> QED
    BY <2>5, <2>7 DEF HasReceipt
<1> QED
    BY <1>2, <1>3, <1>4, <1>6, <1>7, <1>8, <1>9, <1>10 DEF SyncGoesOn

LEMMA WantedStep ==
    ASSUME SyncTyped, OneSync, ReceiptWanted, SyncNext
    PROVE  ReceiptWanted'
<1>1. SyncsSound /\ RowsSound /\ WorldTyped
    BY DEF SyncTyped
<1>2. ASSUME NEW c \in Comics, TellMint(c) PROVE ReceiptWanted'
    BY <1>2, OutsideMoves DEF ReceiptWanted, SyncDisturbed
<1>3. ASSUME NEW c \in Comics, NEW w \in Purses, NEW told \in BOOLEAN, Transfer(c, w, told)
      PROVE  ReceiptWanted'
  <2>1. \A r \in SyncRequests : SyncDisturbed(r)
    BY <1>3, OutsideMoves
  <2>2. \A d \in Comics : ~HasReceipt(d) => ~HasReceipt(d)'
    <3>1. \A d \in Comics : row[d] = NoRow => row'[d] = NoRow
      BY <1>1, <1>3, TransferRows
    <3>2. \A d \in Comics : row[d] # NoRow => row'[d].receipt = row[d].receipt
      BY <1>1, <1>3, TransferRows
    <3> QED
      BY <3>1, <3>2 DEF HasReceipt
  <2>3. crossed => crossed'
    BY <1>3, OutsideMoves
  <2>4. \A r \in SyncRequests : sjob[r].stage \in {"index", "receipt"} => sjob[r].item \in Comics
    BY <1>1 DEF SyncsSound, SyncJobSound
  <2>5. ASSUME NEW r \in SyncRequests, ~crossed', WantsReceipt(r)'
        PROVE  ~HasReceipt(sjob[r].item)'
    <3>1. WantsReceipt(r) /\ sjob'[r].item = sjob[r].item /\ sjob[r].item \in Comics
      BY <2>1, <2>4, <2>5 DEF SyncDisturbed, WantsReceipt
    <3>2. ~HasReceipt(sjob[r].item)
      BY <2>3, <2>5, <3>1 DEF ReceiptWanted, WantsReceipt
    <3> QED
      BY <2>2, <3>1, <3>2 DEF HasReceipt
  <2> QED
    BY <2>5 DEF ReceiptWanted, WantsReceipt
<1>4. ASSUME NEW r \in SyncRequests, NEW kind \in SyncKinds,
             NEW w \in Purses \cup {NoPurse}, syncWallet(r, kind, w)
      PROVE  ReceiptWanted'
  <2>1. ~crossed' => \A q \in SyncRequests : ~WantsReceipt(q)'
    BY <1>4, SyncBeginsMoves DEF Under, SyncDisturbed, WantsReceipt
  <2> QED
    BY <2>1 DEF ReceiptWanted, WantsReceipt
<1>5. ASSUME NEW r \in SyncRequests, SyncGoesOn(r) PROVE ReceiptWanted'
  <2>1. Under(r) /\ OtherSyncs(r) /\ crossed' = crossed
    BY <1>5, SyncGoesOnAlone
  <2>2. ASSUME NEW q \in SyncRequests, ~crossed', WantsReceipt(q)'
        PROVE  ~HasReceipt(sjob[q].item)'
    <3>1. q = r
      BY <2>1, <2>2 DEF OneSync, Under, OtherSyncs, WantsReceipt
    <3>2. WantsReceipt(r) => ~HasReceipt(sjob[r].item)
      BY <2>1, <2>2 DEF ReceiptWanted, WantsReceipt
    <3> QED
      BY <1>5, <2>2, <3>1, <3>2, SyncGoesOnWanted
  <2> QED
    BY <2>2 DEF ReceiptWanted, WantsReceipt
<1> QED
    BY <1>2, <1>3, <1>4, <1>5, SyncStepKinds

LEMMA ReceiptsStep ==
    ASSUME ReceiptsInv, [SyncNext]_syncVars
    PROVE  ReceiptsInv'
<1>1. CASE SyncNext
    BY <1>1, SyncTypedStep, OneSyncStep, WantedStep, UntoldStep DEF ReceiptsInv
<1>2. CASE UNCHANGED syncVars
    BY <1>2 DEF syncVars, ReceiptsInv, SyncTyped, WorldTyped, RowsSound, SyncsSound,
       SyncJobSound, IsSyncJob, OneSync, Under, ReceiptWanted, HasReceipt, UntoldRowless
<1> QED
    BY <1>1, <1>2

LEMMA ReceiptsStayStep ==
    ASSUME ReceiptsInv, SyncNext, ~crossed'
    PROVE  ReceiptsStay
<1>1. SyncTyped /\ SyncsSound /\ RowsSound /\ WorldTyped
    BY DEF ReceiptsInv, SyncTyped
<1>2. ASSUME NEW c \in Comics, TellMint(c) PROVE ReceiptsStay
  <2>1. \A d \in Comics \ {c} : row'[d] = row[d]
    BY <1>1, <1>2, TellMintRows
  <2>2. \A r \in SyncRequests : sjob[r].stage = "idle"
    BY <1>1, <1>2, OutsideMoves
  <2>3. row[c] = NoRow
    BY <1>2, <2>2 DEF ReceiptsInv, UntoldRowless, TellMint
  <2> QED
    BY <2>1, <2>3 DEF ReceiptsStay
<1>3. ASSUME NEW c \in Comics, NEW w \in Purses, NEW told \in BOOLEAN, Transfer(c, w, told)
      PROVE  ReceiptsStay
    BY <1>1, <1>3, TransferRows DEF ReceiptsStay
<1>4. CASE UNCHANGED row
    BY <1>4 DEF ReceiptsStay
<1>5. ASSUME NEW r \in SyncRequests, NEW kind \in SyncKinds,
             NEW w \in Purses \cup {NoPurse}, syncWallet(r, kind, w)
      PROVE  ReceiptsStay
    BY <1>4, <1>5 DEF syncWallet
<1>6. ASSUME NEW r \in SyncRequests, SyncGoesOn(r) PROVE ReceiptsStay
  <2>1. PICK j : j = sjob[r] /\ SyncJobSound(j)
    BY <1>1 DEF SyncsSound
  <2>2. ASSUME NEW c \in Comics, row' = Indexed(j, c), j.stage \in {"next", "index"},
               UNCHANGED <<receipts, untold>>
        PROVE  ReceiptsStay
    <3>1. j.owners \in [Comics -> Purses]
      BY <2>1, <2>2 DEF SyncJobSound
    <3>2. \A d \in Comics \ {c} : row'[d] = row[d]
      BY <1>1, <2>2, <3>1, RowIndexed
    <3>3. row[c] # NoRow => row'[c].receipt = row[c].receipt
      BY <1>1, <2>2, <3>1, RowIndexed
    <3> QED
      BY <3>2, <3>3 DEF ReceiptsStay
  <2>3. CASE getAssets(r) \/ endPage(r) \/ findLegacyReceipt(r) \/ findCoreReceipt(r)
    BY <1>4, <2>3 DEF getAssets, endPage, findLegacyReceipt, findCoreReceipt
  <2>4. CASE updateNewOwners(r)
    BY <1>1, <1>4, <2>4, SyncEndsTyped
  <2>5. CASE indexLegacy(r)
    <3>1. PICK c \in Legacy(sjob[r].todo) : row' = Indexed(j, c) \/ UNCHANGED row
      BY <2>1, <2>5 DEF indexLegacy
    <3>2. c \in Comics
      BY <1>1, <3>1, TodoAssets
    <3> QED
      BY <1>4, <2>1, <2>2, <2>5, <3>1, <3>2 DEF indexLegacy
  <2>6. CASE indexCore(r)
    <3>1. j.item \in Comics /\ j.stage = "index"
      BY <2>1, <2>6 DEF indexCore, SyncJobSound
    <3>2. row' = Indexed(j, j.item) \/ UNCHANGED row
      BY <2>1, <2>6 DEF indexCore
    <3> QED
      BY <1>4, <2>1, <2>2, <2>6, <3>1, <3>2 DEF indexCore
  <2>7. CASE createReceipt(r)
    <3>1. j.item \in Comics /\ j.stage = "receipt"
      BY <2>1, <2>7 DEF createReceipt, SyncJobSound
    <3>2. \A d \in Comics \ {j.item} : row'[d] = row[d]
      BY <1>1, <2>1, <2>7, CreateReceiptRows
    <3>3. ~crossed
      BY <2>7 DEF createReceipt
    <3>4. ~HasReceipt(j.item)
      BY <2>1, <3>1, <3>3 DEF ReceiptsInv, ReceiptWanted
    <3> QED
      BY <3>1, <3>2, <3>4 DEF ReceiptsStay, HasReceipt
  <2> QED
    BY <1>6, <2>3, <2>4, <2>5, <2>6, <2>7 DEF SyncGoesOn
<1> QED
    BY <1>2, <1>3, <1>5, <1>6, SyncStepKinds

\* A sync reads a page, then index and rows, and writes rows and receipts: what it knows
\* at each await, and that there is one at a time or syncs are crossed, always holds.
THEOREM ReceiptsInvariance == SyncSpec => []ReceiptsInv
<1>1. SyncInit => ReceiptsInv
    BY SyncStarts
<1>2. ReceiptsInv /\ [SyncNext]_syncVars => ReceiptsInv'
    BY ReceiptsStep
<1> QED
    BY <1>1, <1>2, PTL DEF SyncSpec

\* The rows, the receipts and the place of each sync stay in their ranges.
THEOREM SyncTypeOKAlways == SyncSpec => []SyncTypeOK
<1>1. ReceiptsInv => SyncTypeOK
    BY SyncTypedTypeOK DEF ReceiptsInv
<1> QED
    BY <1>1, ReceiptsInvariance, PTL

\* An asset keeps the receipt it has, whoever syncs and however often, unless two
\* syncs ran at once or its webhook came after a sync: a sale is not counted twice.
THEOREM ReceiptsKeptAlways == SyncSpec => ReceiptsKept
<1>1. ReceiptsInv /\ [SyncNext]_syncVars =>
        [~crossed' => \A c \in Comics :
            row[c] # NoRow => row[c].receipt \in {NoReceipt, row'[c].receipt}]_syncVars
  <2>1. ASSUME ReceiptsInv, SyncNext, ~crossed' PROVE ReceiptsStay
    BY <2>1, ReceiptsStayStep
  <2> QED
    BY <2>1 DEF ReceiptsStay
<1> QED
    BY <1>1, ReceiptsInvariance, PTL DEF SyncSpec, ReceiptsKept

-----------------------------------------------------------------------------
(* What a wallet holds                                                     *)

\* A sync nothing disturbs is the only one at work.
AloneOnly ==
    \A r \in SyncRequests : sjob[r].alone /\ sjob[r].stage # "idle" =>
        \A q \in SyncRequests \ {r} : ~Under(q)

\* An asset that is verified has its row and, where there is a coupon, its receipt, or
\* a sync is about to see to it.
SeenTo(c) == \E q \in SyncRequests : sjob[q].stage \in {"look", "receipt"} /\ sjob[q].item = c

VerifiedSound ==
    \A c \in verified : /\ row[c] # NoRow
                        /\ couponed => row[c].receipt # NoReceipt \/ SeenTo(c)

\* The page of an asset, from zero
Rank(L, c) == Cardinality(Before(L, c)) \div PageLimit

SyncedRow(w, c) ==
    row[c] # NoRow /\ row[c].owner = w /\ (couponed => row[c].receipt # NoReceipt)

AtHand(j) == j.stage \in {"look", "index", "receipt"}
OnPages(j) == j.stage \in {"page", "next"} \/ AtHand(j)

\* Of the assets L of a wallet a sync has done those on the pages it read, but for the
\* ones that are still to do.
HoldingJob(j, L) ==
    /\ j.stage = "next" \/ AtHand(j) => j.owners = holder
    /\ j.todo \subseteq L /\ (AtHand(j) => j.item \in L)
    /\ j.stage \in {"look", "receipt"} => row[j.item].owner = j.purse
    /\ j.stage = "index" /\ j.found => HasReceipt(j.item)
    /\ \A c \in j.complete : row[c] # NoRow /\ row[c].owner = j.purse
    /\ OnPages(j) => \A c \in L : standing[c] # "other" /\ Rank(L, c) < j.page - 1 =>
         SyncedRow(j.purse, c) \/ c \in j.todo \/ (AtHand(j) /\ c = j.item)
    /\ j.stage \in {"moved", "done"} => \A c \in L : standing[c] # "other" =>
         SyncedRow(j.purse, c)

Undisturbed(j) == j.alone /\ ~j.missed /\ j.kind = "wallet" /\ j.stage # "idle"

HoldingsSound ==
    \A r \in SyncRequests : Undisturbed(sjob[r]) =>
        HoldingJob(sjob[r], Listed("wallet", sjob[r].purse))

HoldingsInv == SyncTyped /\ AloneOnly /\ VerifiedSound /\ HoldingsSound

LEMMA ListedSame ==
    ASSUME NEW w, UNCHANGED holder
    PROVE  Listed("wallet", w)' = Listed("wallet", w)
  BY DEF Listed

LEMMA ListedHolds ==
    ASSUME NEW w
    PROVE  /\ Listed("wallet", w) \subseteq Comics
           /\ \A c \in Listed("wallet", w) : holder[c] = w
           /\ \A c \in Comics : holder[c] = w => c \in Listed("wallet", w)
  BY DEF Listed

LEMMA RankTyped ==
    ASSUME NEW L \in SUBSET Comics, NEW c \in L
    PROVE  Rank(L, c) \in Nat
<1>1. NumComics \in Nat /\ PageLimit \in Nat \ {0}
    BY WalletSyncAssumption
<1>2. IsFiniteSet(1..NumComics) /\ Before(L, c) \subseteq 1..NumComics
    BY <1>1, UpTo DEF Before, Comics
<1>3. Cardinality(Before(L, c)) \in Nat
    BY <1>2, FS_Subset, FS_CardinalityType
<1> QED
    BY <1>1, <1>3, Divided DEF Rank

LEMMA AloneOnlyStep ==
    ASSUME SyncTyped, AloneOnly, SyncNext
    PROVE  AloneOnly'
<1>1. ASSUME NEW c \in Comics,
             TellMint(c) \/ \E w \in Purses, told \in BOOLEAN : Transfer(c, w, told)
      PROVE  AloneOnly'
    BY <1>1, OutsideMoves DEF AloneOnly, SyncDisturbed
<1>2. ASSUME NEW r \in SyncRequests, NEW kind \in SyncKinds,
             NEW w \in Purses \cup {NoPurse}, syncWallet(r, kind, w)
      PROVE  AloneOnly'
  <2>1. \A q \in SyncRequests \ {r} : SyncDisturbed(q)
    BY <1>2, SyncBeginsMoves
  <2>2. sjob'[r].alone => \A q \in SyncRequests : ~Under(q)
    BY <1>2, SyncBegins DEF SyncTyped
  <2>3. sjob'[r].alone => \A q \in SyncRequests \ {r} : ~Under(q)'
    BY <2>1, <2>2 DEF Under, SyncDisturbed
  <2> QED
    BY <2>1, <2>3 DEF AloneOnly, SyncDisturbed
<1>3. ASSUME NEW r \in SyncRequests, SyncGoesOn(r) PROVE AloneOnly'
  <2>1. Under(r) /\ OtherSyncs(r) /\ sjob'[r].alone = sjob[r].alone
    BY <1>3, SyncGoesOnAlone
  <2>2. ASSUME NEW q \in SyncRequests, sjob'[q].alone, sjob'[q].stage # "idle",
               NEW p \in SyncRequests, p # q
        PROVE  ~Under(p)'
    <3>1. CASE q = r
      BY <2>1, <2>2, <3>1 DEF AloneOnly, Under, OtherSyncs
    <3>2. CASE q # r
      <4>1. sjob[q].alone /\ sjob[q].stage # "idle"
        BY <2>1, <2>2, <3>2 DEF OtherSyncs
      <4> QED
        BY <2>1, <3>2, <4>1 DEF AloneOnly
    <3> QED
      BY <3>1, <3>2
  <2> QED
    BY <2>2 DEF AloneOnly
<1> QED
    BY <1>1, <1>2, <1>3, SyncStepKinds

\* What remains seen to: while the sync that saw to an asset stays at it
LEMMA VerifiedStays ==
    ASSUME RowsSound, VerifiedSound, verified' = verified, verified \subseteq Comics,
           UNCHANGED couponed, RowsStay,
           \A c \in Comics : row[c] # NoRow /\ row[c].receipt # NoReceipt =>
               row'[c].receipt # NoReceipt,
           couponed => \A c \in Comics : SeenTo(c) => SeenTo(c)' \/ row'[c].receipt # NoReceipt
    PROVE  VerifiedSound'
  BY DEF VerifiedSound, RowsStay

LEMMA VerifiedStep ==
    ASSUME SyncTyped, VerifiedSound, SyncNext
    PROVE  VerifiedSound'
<1>1. /\ SyncsSound /\ RowsSound /\ WorldTyped /\ verified \subseteq Comics /\ RowsStay
    BY SyncTypedStep DEF SyncTyped, WorldTyped
<1>2. ASSUME NEW c \in Comics, TellMint(c) PROVE VerifiedSound'
  <2>1. \A d \in Comics : SeenTo(d) => SeenTo(d)'
    BY <1>2, OutsideMoves DEF SeenTo, SyncDisturbed
  <2>2. \A d \in Comics : row[d] # NoRow /\ row[d].receipt # NoReceipt =>
          row'[d].receipt # NoReceipt
    BY <1>1, <1>2, TellMintRows
  <2> QED
    BY <1>1, <1>2, <2>1, <2>2, VerifiedStays DEF TellMint
<1>3. ASSUME NEW c \in Comics, NEW w \in Purses, NEW told \in BOOLEAN, Transfer(c, w, told)
      PROVE  VerifiedSound'
  <2>1. \A d \in Comics : SeenTo(d) => SeenTo(d)'
    BY <1>3, OutsideMoves DEF SeenTo, SyncDisturbed
  <2>2. \A d \in Comics : row[d] # NoRow /\ row[d].receipt # NoReceipt =>
          row'[d].receipt # NoReceipt
    BY <1>1, <1>3, TransferRows
  <2> QED
    BY <1>1, <1>3, <2>1, <2>2, VerifiedStays DEF Transfer
<1>4. ASSUME NEW r \in SyncRequests, NEW kind \in SyncKinds,
             NEW w \in Purses \cup {NoPurse}, syncWallet(r, kind, w)
      PROVE  VerifiedSound'
  <2>1. \A q \in SyncRequests \ {r} : SyncDisturbed(q)
    BY <1>4, SyncBeginsMoves
  <2>2. sjob[r].stage = "idle" /\ UNCHANGED <<row, verified, couponed>>
    BY <1>4 DEF syncWallet
  <2>3. \A d \in Comics : SeenTo(d) => SeenTo(d)'
    BY <2>1, <2>2 DEF SeenTo, SyncDisturbed
  <2> QED
    BY <1>1, <2>2, <2>3, VerifiedStays
<1>5. ASSUME NEW r \in SyncRequests, SyncGoesOn(r) PROVE VerifiedSound'
  <2>1. OtherSyncs(r) /\ UNCHANGED couponed
    BY <1>5, SyncGoesOnAlone
  <2>2. PICK j : j = sjob[r] /\ SyncJobSound(j)
    BY <1>1 DEF SyncsSound
  <2>3. ASSUME j.stage \notin {"look", "receipt"}, UNCHANGED <<row, verified>>
        PROVE  VerifiedSound'
    <3>1. \A d \in Comics : SeenTo(d) => SeenTo(d)'
      BY <2>1, <2>2, <2>3 DEF SeenTo, OtherSyncs
    <3> QED
      BY <1>1, <2>1, <2>3, <3>1, VerifiedStays
  <2>4. CASE getAssets(r) \/ endPage(r) \/ findCoreReceipt(r)
    BY <2>2, <2>3, <2>4 DEF getAssets, endPage, findCoreReceipt
  <2>5. CASE updateNewOwners(r)
    BY <1>1, <2>2, <2>3, <2>5, SyncEndsTyped DEF updateNewOwners
  <2>6. CASE findLegacyReceipt(r)
    <3>1. j.stage = "look" /\ j.item \in Comics /\ row[j.item] # NoRow
      BY <2>2, <2>6 DEF findLegacyReceipt, SyncJobSound
    <3>2. PICK stage : stage = IF HasReceipt(j.item) THEN "next" ELSE "receipt"
      OBVIOUS
    <3>3. GoTo(r, stage) /\ UNCHANGED <<row, verified>>
      BY <2>2, <2>6, <3>2 DEF findLegacyReceipt
    <3>4. sjob'[r].stage = stage /\ sjob'[r].item = j.item
      BY <1>1, <2>2, <3>3, SyncGoesTo
    <3>5. ASSUME NEW d \in Comics, SeenTo(d) PROVE SeenTo(d)' \/ row'[d].receipt # NoReceipt
      <4>1. PICK q \in SyncRequests : sjob[q].stage \in {"look", "receipt"} /\ sjob[q].item = d
        BY <3>5 DEF SeenTo
      <4>2. CASE q # r
        BY <2>1, <4>1, <4>2 DEF SeenTo, OtherSyncs
      <4>3. CASE q = r
        BY <2>2, <3>2, <3>3, <3>4, <4>1, <4>3 DEF SeenTo, HasReceipt
      <4> QED
        BY <4>2, <4>3
    <3> QED
      BY <1>1, <2>1, <3>3, <3>5, VerifiedStays
  <2>7. CASE indexCore(r)
    <3>1. j.stage = "index" /\ j.item \in Comics /\ j.owners \in [Comics -> Purses]
      BY <2>2, <2>7 DEF indexCore, SyncJobSound
    <3>2. \A d \in Comics : SeenTo(d) => SeenTo(d)'
      BY <2>1, <2>2, <3>1 DEF SeenTo, OtherSyncs
    <3>3. CASE UNCHANGED row
      BY <2>2, <2>3, <2>7, <3>1, <3>3 DEF indexCore
    <3>4. CASE row' = Indexed(j, j.item)
      <4>1. \A d \in Comics : row[d] # NoRow => row'[d].receipt = row[d].receipt
        BY <1>1, <2>7, <3>1, <3>4, RowIndexed DEF indexCore
      <4> QED
        BY <1>1, <2>1, <2>7, <3>2, <4>1, VerifiedStays DEF indexCore
    <3> QED
      BY <2>2, <2>7, <3>3, <3>4 DEF indexCore
  <2>8. CASE indexLegacy(r)
    <3>1. j.stage = "next" /\ j.owners \in [Comics -> Purses] /\ UNCHANGED <<receipts, untold>>
      BY <2>2, <2>8 DEF indexLegacy, SyncJobSound
    <3>2. PICK c \in Legacy(sjob[r].todo) :
             \/ /\ row' = Indexed(j, c) /\ verified' \in {verified, verified \cup {c}}
                /\ LegacyTaken(r, c)
             \/ UNCHANGED <<row, verified>>
      BY <2>2, <2>8, LegacyTakenIs
    <3>3. CASE UNCHANGED <<row, verified>>
      BY <2>3, <3>1, <3>3
    <3>4. CASE /\ row' = Indexed(j, c) /\ verified' \in {verified, verified \cup {c}}
               /\ LegacyTaken(r, c)
      <4>1. c \in Comics
        BY TodoAssets
      <4>2. \A d \in Comics : row[d] # NoRow => row'[d].receipt = row[d].receipt
        BY <1>1, <3>1, <3>4, <4>1, RowIndexed
      <4>3. row'[c] # NoRow
        BY <1>1, <3>1, <3>4, <4>1, RowIndexed
      <4>4. sjob'[r].item = c /\ sjob'[r].stage = "look"
        BY <1>1, <3>4, TakesLegacy
      <4>5. SeenTo(c)'
        BY <4>4 DEF SeenTo
      <4>6. \A d \in Comics : SeenTo(d) => SeenTo(d)'
        BY <2>1, <2>2, <3>1 DEF SeenTo, OtherSyncs
      <4>7. ASSUME NEW d \in verified, d # c
            PROVE  row'[d] # NoRow /\ (couponed => row'[d].receipt # NoReceipt \/ SeenTo(d)')
        BY <1>1, <4>2, <4>6, <4>7 DEF VerifiedSound, RowsStay
      <4> QED
        BY <2>1, <3>4, <4>3, <4>5, <4>7 DEF VerifiedSound
    <3> QED
      BY <3>2, <3>3, <3>4
  <2>9. CASE createReceipt(r)
    <3>1. j.stage = "receipt" /\ j.item \in Comics
      BY <2>2, <2>9 DEF createReceipt, SyncJobSound
    <3>2. \A d \in Comics \ {j.item} : row'[d] = row[d]
      BY <1>1, <2>2, <2>9, CreateReceiptRows
    <3>3. couponed => row'[j.item].receipt # NoReceipt
      BY <1>1, <2>2, <2>9, CreateReceiptRows
    <3>4. ~couponed => UNCHANGED row
      BY <1>1, <2>9, CreateReceiptRows
    <3>5. ASSUME couponed, NEW d \in Comics, SeenTo(d)
          PROVE  SeenTo(d)' \/ row'[d].receipt # NoReceipt
      <4>1. PICK q \in SyncRequests : sjob[q].stage \in {"look", "receipt"} /\ sjob[q].item = d
        BY <3>5 DEF SeenTo
      <4>2. CASE q # r
        BY <2>1, <4>1, <4>2 DEF SeenTo, OtherSyncs
      <4>3. CASE q = r
        BY <2>2, <3>3, <3>5, <4>1, <4>3
      <4> QED
        BY <4>2, <4>3
    <3>6. \A d \in Comics : row[d] # NoRow /\ row[d].receipt # NoReceipt =>
            row'[d].receipt # NoReceipt
      BY <3>2, <3>3, <3>4
    <3>7. verified' = verified
      BY <2>9 DEF createReceipt
    <3> QED
      BY <1>1, <2>1, <3>5, <3>6, <3>7, VerifiedStays
  <2> QED
    BY <1>5, <2>4, <2>5, <2>6, <2>7, <2>8, <2>9 DEF SyncGoesOn
<1> QED
    BY <1>2, <1>3, <1>4, <1>5, SyncStepKinds

\* The steps that leave rows alone
LEMMA HoldingReads ==
    ASSUME SyncTyped, VerifiedSound, AloneOnly, NEW r \in SyncRequests, getAssets(r),
           Undisturbed(sjob[r]), NEW L, L = Listed("wallet", sjob[r].purse),
           HoldingJob(sjob[r], L)
    PROVE  HoldingJob(sjob[r], L)'
<1>1. SyncsSound /\ WorldTyped
    BY DEF SyncTyped
<1>2. PICK j : j = sjob[r] /\ SyncJobSound(j) /\ j.stage = "page" /\ j.kind = "wallet"
               /\ HoldingJob(j, L) /\ j.alone
    BY <1>1 DEF SyncsSound, getAssets, Undisturbed
<1>3. PICK page : page = PageOf(L, j.page)
    OBVIOUS
<1>4. PICK k : /\ k = sjob'[r] /\ SameSync(j, k)
               /\ k.owners = holder /\ k.todo = Unsynced(j, page)
               /\ k.page = j.page + 1 /\ k.stage = IF page = {} THEN "moved" ELSE "next"
    BY <1>1, <1>2, <1>3, SyncReads
<1>5. L \in SUBSET Comics /\ page \subseteq L /\ Unsynced(j, page) \subseteq page
    BY <1>3, ListedHolds DEF PageOf, Unsynced
<1>6. \A c \in L : c \in page <=> Rank(L, c) = j.page - 1
    BY <1>3 DEF PageOf, Rank, Before
<1>7. \A c \in L : standing[c] # "other" /\ Rank(L, c) < j.page - 1 => SyncedRow(j.purse, c)
    BY <1>2 DEF HoldingJob, SyncJobSound, OnPages, AtHand
<1>8. ASSUME NEW c \in page, standing[c] # "other", c \notin Unsynced(j, page)
      PROVE  SyncedRow(j.purse, c)
  <2>1. standing[c] \in Standings
    BY <1>1, <1>5 DEF WorldTyped
  <2>2. c \in j.complete /\ c \in verified
    BY <1>2, <1>8, <2>1 DEF Standings, Unsynced, IndexedCorrectly
  <2>3. row[c] # NoRow /\ row[c].owner = j.purse
    BY <1>2, <2>2 DEF HoldingJob
  <2>4. ~SeenTo(c)
    BY <1>2 DEF SeenTo, AloneOnly, Under
  <2> QED
    BY <2>2, <2>3, <2>4 DEF VerifiedSound, SyncedRow
<1>9. j.page \in Nat \ {0} /\ \A c \in L : Rank(L, c) \in Nat
    BY <1>2, <1>5, RankTyped DEF SyncJobSound
<1>10. ASSUME NEW c \in L, standing[c] # "other", Rank(L, c) < k.page - 1
       PROVE  SyncedRow(j.purse, c) \/ c \in k.todo
  <2>1. Rank(L, c) < j.page - 1 \/ Rank(L, c) = j.page - 1
    BY <1>4, <1>9, <1>10
  <2> QED
    BY <1>4, <1>6, <1>7, <1>8, <1>10, <2>1
<1>11. page = {} => \A c \in L : standing[c] # "other" => SyncedRow(j.purse, c)
  <2>1. SUFFICES ASSUME page = {} PROVE \A c \in L : Rank(L, c) < j.page - 1
    BY <1>7
  <2>2. \A c \in L : Rank(L, c) # j.page - 1
    BY <1>6, <2>1
  <2>3. NumComics \in Nat /\ PageLimit \in Nat \ {0} /\ L \in SUBSET (1..NumComics)
    BY <1>5, WalletSyncAssumption DEF Comics
  <2> QED
    BY <1>9, <2>2, <2>3, LastPage DEF Rank
<1>12. UNCHANGED <<holder, standing, couponed, row>>
    BY DEF getAssets
<1>13. HoldingJob(k, L)
  <2>1. k.stage \in {"next", "moved"} /\ (k.stage = "moved" => page = {})
    BY <1>4
  <2>2. k.todo \subseteq L
    BY <1>4, <1>5
  <2>3. \A c \in k.complete : row[c] # NoRow /\ row[c].owner = k.purse
    BY <1>2, <1>4 DEF HoldingJob, SameSync
  <2>4. k.purse = j.purse
    BY <1>4 DEF SameSync
  <2> QED
    BY <1>4, <1>10, <1>11, <2>1, <2>2, <2>3, <2>4 DEF HoldingJob, AtHand, OnPages
<1>14. HoldingJob(k, L)'
    BY <1>12, <1>13 DEF HoldingJob, SyncedRow, HasReceipt
<1> QED
    BY <1>4, <1>14

LEMMA HoldingMoves ==
    ASSUME SyncTyped, NEW r \in SyncRequests, endPage(r) \/ findLegacyReceipt(r)
                                             \/ findCoreReceipt(r) \/ updateNewOwners(r),
           NEW L, HoldingJob(sjob[r], L)
    PROVE  HoldingJob(sjob[r], L)'
<1>1. SyncsSound
    BY DEF SyncTyped
<1>2. PICK j : j = sjob[r] /\ SyncJobSound(j) /\ HoldingJob(j, L)
    BY <1>1 DEF SyncsSound
<1>3. UNCHANGED <<holder, standing, couponed, row>>
    BY SyncEndsTyped DEF endPage, findLegacyReceipt, findCoreReceipt, updateNewOwners
<1>4. SUFFICES ASSUME NEW k, k = sjob'[r] PROVE HoldingJob(k, L)
  <2>1. PICK k : k = sjob'[r]
    OBVIOUS
  <2>2. HoldingJob(k, L) => HoldingJob(k, L)'
    BY <1>3 DEF HoldingJob, SyncedRow, HasReceipt
  <2> QED
    BY <1>4, <2>1, <2>2
<1>5. CASE endPage(r)
  <2>1. GoTo(r, "page") /\ j.stage = "next" /\ j.todo = {}
    BY <1>2, <1>5 DEF endPage
  <2>2. SamePage(j, k) /\ k.stage = "page" /\ k.todo = j.todo
    BY <1>1, <1>2, <1>4, <2>1, SyncGoesTo
  <2> QED
    BY <1>2, <2>1, <2>2 DEF HoldingJob, AtHand, OnPages, SamePage, SameSync
<1>6. CASE findLegacyReceipt(r)
  <2>1. PICK stage : stage = IF HasReceipt(j.item) THEN "next" ELSE "receipt"
    OBVIOUS
  <2>2. GoTo(r, stage) /\ j.stage = "look"
    BY <1>2, <1>6, <2>1 DEF findLegacyReceipt
  <2>3. SamePage(j, k) /\ k.stage = stage /\ k.todo = j.todo /\ k.item = j.item
    BY <1>1, <1>2, <1>4, <2>2, SyncGoesTo
  <2>4. row[j.item] # NoRow /\ row[j.item].owner = j.purse
    BY <1>2, <2>2 DEF SyncJobSound, HoldingJob
  <2>5. CASE stage = "next"
    <3>1. SyncedRow(j.purse, j.item)
      BY <2>1, <2>4, <2>5 DEF SyncedRow, HasReceipt
    <3> QED
      BY <1>2, <2>2, <2>3, <2>5, <3>1 DEF HoldingJob, AtHand, OnPages, SamePage, SameSync
  <2>6. CASE stage = "receipt"
    BY <1>2, <2>2, <2>3, <2>4, <2>6 DEF HoldingJob, AtHand, OnPages, SamePage, SameSync
  <2> QED
    BY <2>1, <2>5, <2>6
<1>7. CASE findCoreReceipt(r)
  <2>1. PICK c \in sjob[r].todo : \E found \in {HasReceipt(c)} : CoreTaken(r, c, found)
    BY <1>7, CoreTakenIs
  <2>2. PICK found \in {HasReceipt(c)} : CoreTaken(r, c, found)
    BY <2>1
  <2>3. /\ SamePage(sjob[r], sjob'[r]) /\ sjob'[r].item = c
        /\ sjob'[r].todo = sjob[r].todo \ {c}
        /\ sjob'[r].found = found /\ sjob'[r].stage = "index"
    BY <1>1, <2>2, TakesCore
  <2>4. /\ SamePage(j, k) /\ k.item = c /\ k.todo = j.todo \ {c} /\ k.found = found
        /\ k.stage = "index" /\ j.stage = "next" /\ c \in j.todo
    BY <1>2, <1>4, <1>7, <2>1, <2>3 DEF findCoreReceipt
  <2>5. k.found => HasReceipt(k.item)
    BY <2>2, <2>4
  <2> QED
    BY <1>2, <2>4, <2>5 DEF HoldingJob, AtHand, OnPages, SamePage, SameSync
<1>8. CASE updateNewOwners(r)
  <2>1. j.stage = "moved" /\ j.todo = {}
    BY <1>2, <1>8 DEF updateNewOwners, SyncJobSound
  <2>2. k.stage = "done" /\ k.complete = {} /\ k.todo = {} /\ k.purse = j.purse
    BY <1>1, <1>2, <1>4, <1>8, <2>1, SyncEnds
  <2> QED
    BY <1>2, <2>1, <2>2 DEF HoldingJob, AtHand, OnPages
<1> QED
    BY <1>5, <1>6, <1>7, <1>8

\* The steps that write the row of one asset of the wallet, and give none up
WritesOne(j, k, c) ==
    /\ \A d \in Comics \ {c} : row'[d] = row[d]
    /\ row'[c] # NoRow /\ row'[c].owner = j.purse
    /\ SamePage(j, k) /\ UNCHANGED <<holder, standing, couponed>>

LEMMA HoldingWrites ==
    ASSUME SyncTyped, NEW j, SyncJobSound(j), NEW L \in SUBSET Comics, HoldingJob(j, L),
           NEW k, NEW c \in L, WritesOne(j, k, c),
           \/ /\ j.stage = "next" /\ c \in j.todo
              /\ k.stage = "look" /\ k.item = c /\ k.todo = j.todo \ {c}
           \/ /\ j.stage \in {"index", "receipt"} /\ c = j.item /\ k.todo = j.todo
              /\ \/ k.stage = "receipt" /\ k.item = c
                 \/ k.stage = "next" /\ (couponed => row'[c].receipt # NoReceipt)
    PROVE  HoldingJob(k, L)'
<1>1. /\ k.kind = j.kind /\ k.purse = j.purse /\ k.complete = j.complete /\ k.page = j.page
      /\ k.owners = j.owners
    BY DEF WritesOne, SamePage, SameSync
<1>2. AtHand(j) \/ j.stage = "next"
    BY DEF AtHand
<1>3. /\ j.owners = holder /\ j.todo \subseteq L /\ UNCHANGED <<holder, standing, couponed>>
    BY <1>2 DEF HoldingJob, WritesOne
<1>4. \A d \in L \ {c} : SyncedRow(j.purse, d) => SyncedRow(j.purse, d)'
    BY DEF WritesOne, SyncedRow
<1>5. ASSUME NEW d \in j.complete PROVE row'[d] # NoRow /\ row'[d].owner = j.purse
  <2>1. d \in Comics
    BY DEF SyncJobSound
  <2> QED
    BY <2>1 DEF HoldingJob, WritesOne
<1>6. OnPages(j)
    BY <1>2 DEF OnPages
<1>7. CASE k.stage = "next"
  <2>1. SyncedRow(j.purse, c)'
    BY <1>7 DEF WritesOne, SyncedRow
  <2>2. k.todo = j.todo /\ c = j.item
    BY <1>7
  <2>3. ASSUME NEW d \in L, standing[d] # "other", Rank(L, d) < j.page - 1
        PROVE  SyncedRow(j.purse, d)' \/ d \in k.todo
    BY <1>4, <1>6, <2>1, <2>2, <2>3 DEF HoldingJob
  <2> QED
    BY <1>1, <1>3, <1>5, <1>7, <2>2, <2>3 DEF HoldingJob, AtHand, OnPages
<1>8. CASE k.stage \in {"look", "receipt"}
  <2>1. k.item = c /\ k.todo \subseteq j.todo /\ \A d \in j.todo : d \in k.todo \/ d = c
    BY <1>8
  <2>2. AtHand(j) => j.item = c
    BY DEF AtHand
  <2>3. ASSUME NEW d \in L, standing[d] # "other", Rank(L, d) < j.page - 1
        PROVE  SyncedRow(j.purse, d)' \/ d \in k.todo \/ d = c
    BY <1>4, <1>6, <2>1, <2>2, <2>3 DEF HoldingJob
  <2>4. row'[k.item].owner = j.purse
    BY <2>1 DEF WritesOne
  <2> QED
    BY <1>1, <1>3, <1>5, <1>8, <2>1, <2>3, <2>4 DEF HoldingJob, AtHand, OnPages
<1> QED
    BY <1>7, <1>8

LEMMA HoldingWritten ==
    ASSUME SyncTyped, NEW r \in SyncRequests,
           indexLegacy(r) \/ indexCore(r) \/ createReceipt(r),
           Undisturbed(sjob[r]), Undisturbed(sjob'[r]),
           NEW L, L = Listed("wallet", sjob[r].purse), HoldingJob(sjob[r], L)
    PROVE  HoldingJob(sjob[r], L)'
<1>1. SyncsSound /\ RowsSound
    BY DEF SyncTyped
<1>2. PICK j : j = sjob[r] /\ SyncJobSound(j) /\ HoldingJob(j, L) /\ j.kind = "wallet"
    BY <1>1 DEF SyncsSound, Undisturbed
<1>3. L \in SUBSET Comics /\ \A c \in L : holder[c] = j.purse
    BY <1>2, ListedHolds
<1>4. ASSUME NEW c \in Comics PROVE ~GiveUp(r, c)
    BY <1>1, SyncGivesUp DEF Undisturbed
<1>5. PICK k : k = sjob'[r]
    OBVIOUS
<1>6. SUFFICES HoldingJob(k, L)'
    BY <1>5
<1>7. CASE indexLegacy(r)
  <2>1. /\ j.stage = "next" /\ j.owners = holder /\ j.owners \in [Comics -> Purses]
        /\ UNCHANGED <<receipts, untold, holder, standing, couponed>>
    BY <1>2, <1>7 DEF indexLegacy, HoldingJob, SyncJobSound
  <2>2. PICK c \in Legacy(sjob[r].todo) :
           \/ /\ row' = Indexed(j, c) /\ LegacyTaken(r, c)
           \/ GiveUp(r, c)
    BY <1>2, <1>7, LegacyTakenIs
  <2>3. c \in Comics /\ c \in j.todo /\ c \in L
    BY <1>2, <2>2, TodoAssets DEF HoldingJob
  <2>4. /\ row' = Indexed(j, c) /\ LegacyTaken(r, c)
    BY <1>4, <2>2, <2>3
  <2>5. /\ SamePage(sjob[r], sjob'[r]) /\ sjob'[r].item = c
        /\ sjob'[r].todo = sjob[r].todo \ {c} /\ sjob'[r].stage = "look"
    BY <1>1, <2>4, TakesLegacy
  <2>6. SamePage(j, k) /\ k.item = c /\ k.todo = j.todo \ {c} /\ k.stage = "look"
    BY <1>2, <1>5, <2>5
  <2>7. WritesOne(j, k, c)
    BY <1>1, <1>3, <2>1, <2>3, <2>4, <2>6, RowIndexed DEF WritesOne
  <2> QED
    BY <1>2, <1>3, <2>1, <2>3, <2>6, <2>7, HoldingWrites
<1>8. CASE indexCore(r)
  <2>1. /\ j.stage = "index" /\ j.owners = holder /\ j.owners \in [Comics -> Purses]
        /\ j.item \in L
        /\ UNCHANGED <<receipts, untold, holder, standing, couponed>>
    BY <1>2, <1>8 DEF indexCore, HoldingJob, SyncJobSound, AtHand
  <2>2. PICK c : c = j.item /\ c \in L /\ c \in Comics
    BY <1>3, <2>1
  <2>3. row' = Indexed(j, c) /\ GoTo(r, IF j.found THEN "next" ELSE "receipt")
    BY <1>2, <1>4, <1>8, <2>2 DEF indexCore
  <2>4. PICK stage : stage = IF j.found THEN "next" ELSE "receipt"
    OBVIOUS
  <2>5. SamePage(j, k) /\ k.stage = stage /\ k.todo = j.todo /\ k.item = c
    BY <1>1, <1>2, <1>5, <2>2, <2>3, <2>4, SyncGoesTo
  <2>6. WritesOne(j, k, c)
    BY <1>1, <1>3, <2>1, <2>2, <2>3, <2>5, RowIndexed DEF WritesOne
  <2>7. stage = "next" => row'[c].receipt # NoReceipt
    <3>1. stage = "next" => row[c] # NoRow /\ row[c].receipt # NoReceipt
      BY <1>2, <2>1, <2>2, <2>4 DEF HoldingJob, HasReceipt
    <3> QED
      BY <1>1, <2>1, <2>2, <2>3, <3>1, RowIndexed
  <2> QED
    BY <1>2, <1>3, <2>1, <2>2, <2>4, <2>5, <2>6, <2>7, HoldingWrites
<1>9. CASE createReceipt(r)
  <2>1. j.stage = "receipt" /\ j.item \in L /\ row[j.item].owner = j.purse
    BY <1>2, <1>9 DEF createReceipt, HoldingJob, AtHand
  <2>2. PICK c : c = j.item /\ c \in L /\ c \in Comics
    BY <1>3, <2>1
  <2>3. couponed /\ GoTo(r, "next")
    BY <1>2, <1>4, <1>9, <2>2 DEF createReceipt
  <2>4. SamePage(j, k) /\ k.stage = "next" /\ k.todo = j.todo
    BY <1>1, <1>2, <1>5, <2>3, SyncGoesTo
  <2>5. /\ \A d \in Comics \ {c} : row'[d] = row[d]
        /\ row'[c] # NoRow /\ row'[c].owner = row[c].owner /\ row'[c].receipt # NoReceipt
    BY <1>1, <1>2, <1>9, <2>2, <2>3, CreateReceiptRows
  <2>6. WritesOne(j, k, c)
    BY <1>9, <2>1, <2>2, <2>4, <2>5 DEF WritesOne, createReceipt
  <2> QED
    BY <1>2, <1>3, <2>1, <2>2, <2>4, <2>5, <2>6, HoldingWrites
<1> QED
    BY <1>7, <1>8, <1>9

\* A sync that gave an asset up has given it up.
LEMMA MissedStays ==
    ASSUME SyncTyped, NEW r \in SyncRequests, SyncGoesOn(r), Undisturbed(sjob'[r])
    PROVE  Undisturbed(sjob[r])
<1>1. SyncsSound
    BY DEF SyncTyped
<1>2. /\ sjob[r].stage # "idle" /\ sjob[r].alone /\ sjob[r].kind = "wallet"
    BY SyncGoesOnAlone DEF Undisturbed, Under
<1>3. ~sjob'[r].missed
    BY DEF Undisturbed
<1>4. ASSUME NEW c \in Comics PROVE ~GiveUp(r, c)
    BY <1>1, <1>3, SyncGivesUp
<1>5. CASE getAssets(r)
    BY <1>1, <1>2, <1>3, <1>5, SyncReads DEF Undisturbed
<1>6. CASE endPage(r)
  <2>1. GoTo(r, "page")
    BY <1>6 DEF endPage
  <2> QED
    BY <1>1, <1>2, <1>3, <2>1, SyncGoesTo DEF Undisturbed
<1>7. CASE indexLegacy(r)
  <2>1. PICK c \in Legacy(sjob[r].todo) : LegacyTaken(r, c) \/ GiveUp(r, c)
    BY <1>7, LegacyTakenIs
  <2>2. LegacyTaken(r, c)
    BY <1>4, <2>1, TodoAssets
  <2>3. sjob'[r].missed = sjob[r].missed
    BY <1>1, <2>2, TakesLegacy
  <2> QED
    BY <1>2, <1>3, <2>3 DEF Undisturbed
<1>8. CASE findLegacyReceipt(r)
  <2>1. PICK stage : GoTo(r, stage)
    BY <1>8 DEF findLegacyReceipt
  <2> QED
    BY <1>1, <1>2, <1>3, <2>1, SyncGoesTo DEF Undisturbed
<1>9. CASE findCoreReceipt(r)
  <2>1. PICK c, found : CoreTaken(r, c, found)
    BY <1>9, CoreTakenIs
  <2>2. sjob'[r].missed = sjob[r].missed
    BY <1>1, <2>1, TakesCore
  <2> QED
    BY <1>2, <1>3, <2>2 DEF Undisturbed
<1>10. CASE indexCore(r)
  <2>1. sjob[r].item \in Comics
    BY <1>1, <1>10 DEF indexCore, SyncsSound, SyncJobSound
  <2>2. PICK stage : GoTo(r, stage)
    BY <1>4, <1>10, <2>1 DEF indexCore
  <2> QED
    BY <1>1, <1>2, <1>3, <2>2, SyncGoesTo DEF Undisturbed
<1>11. CASE createReceipt(r)
  <2>1. sjob[r].item \in Comics
    BY <1>1, <1>11 DEF createReceipt, SyncsSound, SyncJobSound
  <2>2. GoTo(r, "next")
    BY <1>4, <1>11, <2>1 DEF createReceipt
  <2> QED
    BY <1>1, <1>2, <1>3, <2>2, SyncGoesTo DEF Undisturbed
<1>12. CASE updateNewOwners(r)
    BY <1>1, <1>2, <1>3, <1>12, SyncEnds DEF Undisturbed
<1> QED
    BY <1>5, <1>6, <1>7, <1>8, <1>9, <1>10, <1>11, <1>12 DEF SyncGoesOn

LEMMA HoldingsStep ==
    ASSUME HoldingsInv, SyncNext
    PROVE  HoldingsSound'
<1>1. SyncTyped /\ AloneOnly /\ VerifiedSound /\ HoldingsSound /\ SyncsSound
    BY DEF HoldingsInv, SyncTyped
<1>2. ASSUME NEW c \in Comics,
             TellMint(c) \/ \E w \in Purses, told \in BOOLEAN : Transfer(c, w, told)
      PROVE  HoldingsSound'
    BY <1>1, <1>2, OutsideMoves DEF HoldingsSound, Undisturbed, SyncDisturbed
<1>3. ASSUME NEW r \in SyncRequests, NEW kind \in SyncKinds,
             NEW w \in Purses \cup {NoPurse}, syncWallet(r, kind, w)
      PROVE  HoldingsSound'
  <2>1. \A q \in SyncRequests \ {r} : ~Undisturbed(sjob'[q])
    BY <1>1, <1>3, SyncBeginsMoves DEF SyncDisturbed, Undisturbed
  <2>2. PICK k : /\ k = sjob'[r] /\ k.stage = "page" /\ k.kind = kind /\ k.purse = w
                 /\ k.complete = Complete(kind, w) /\ k.page = 1 /\ k.todo = {}
    BY <1>1, <1>3, SyncBegins
  <2>3. ASSUME kind = "wallet", NEW L, L = Listed("wallet", w) PROVE HoldingJob(k, L)'
    <3>1. L \in SUBSET Comics
      BY <2>3, ListedHolds
    <3>2. \A c \in L : ~(Rank(L, c) < 1 - 1)
      <4>1. \A c \in L : Rank(L, c) \in Nat
        BY <3>1, RankTyped
      <4> QED
        BY <4>1
    <3>3. \A c \in k.complete : row[c] # NoRow /\ row[c].owner = w
      BY <2>2, <2>3 DEF Complete
    <3>4. HoldingJob(k, L)
      BY <2>2, <3>2, <3>3 DEF HoldingJob, AtHand, OnPages
    <3> QED
      BY <1>3, <3>4 DEF HoldingJob, SyncedRow, HasReceipt, syncWallet
  <2>4. Undisturbed(k) => HoldingJob(k, Listed("wallet", k.purse))'
    <3>1. UNCHANGED holder
      BY <1>3 DEF syncWallet
    <3>2. PICK L : L = Listed("wallet", w) /\ L = Listed("wallet", w)'
      BY <3>1, ListedSame
    <3> QED
      BY <2>2, <2>3, <3>2 DEF Undisturbed
  <2> QED
    BY <2>1, <2>2, <2>4 DEF HoldingsSound
<1>4. ASSUME NEW r \in SyncRequests, SyncGoesOn(r) PROVE HoldingsSound'
  <2>1. /\ Under(r) /\ OtherSyncs(r) /\ UNCHANGED holder
        /\ sjob'[r].purse = sjob[r].purse
    BY <1>1, <1>4, SyncGoesOnAlone
  <2>2. \A q \in SyncRequests \ {r} : ~Undisturbed(sjob'[q])
    BY <1>1, <2>1 DEF AloneOnly, OtherSyncs, Undisturbed
  <2>3. PICK L : L = Listed("wallet", sjob[r].purse) /\ L = Listed("wallet", sjob[r].purse)'
    <3>1. PICK w : w = sjob[r].purse /\ w = sjob'[r].purse
      BY <2>1
    <3>2. Listed("wallet", w)' = Listed("wallet", w)
      BY <2>1, ListedSame
    <3> QED
      BY <3>1, <3>2
  <2>4. ASSUME Undisturbed(sjob'[r]) PROVE HoldingJob(sjob[r], L)'
    <3>1. Undisturbed(sjob[r])
      BY <1>1, <1>4, <2>4, MissedStays
    <3>2. HoldingJob(sjob[r], L)
      BY <1>1, <2>3, <3>1 DEF HoldingsSound
    <3>3. CASE getAssets(r)
      BY <1>1, <2>3, <3>1, <3>2, <3>3, HoldingReads
    <3>4. CASE endPage(r) \/ findLegacyReceipt(r) \/ findCoreReceipt(r) \/ updateNewOwners(r)
      BY <1>1, <3>2, <3>4, HoldingMoves
    <3>5. CASE indexLegacy(r) \/ indexCore(r) \/ createReceipt(r)
      BY <1>1, <2>3, <2>4, <3>1, <3>2, <3>5, HoldingWritten
    <3> QED
      BY <1>4, <3>3, <3>4, <3>5 DEF SyncGoesOn
  <2>5. Undisturbed(sjob'[r]) => HoldingJob(sjob[r], Listed("wallet", sjob[r].purse))'
    BY <2>3, <2>4
  <2> QED
    BY <2>2, <2>5 DEF HoldingsSound
<1> QED
    BY <1>2, <1>3, <1>4, SyncStepKinds

LEMMA HoldingsStart == SyncInit => HoldingsInv
<1>1. SUFFICES ASSUME SyncInit PROVE HoldingsInv
    OBVIOUS
<1>2. SyncTyped
    BY <1>1, SyncStarts DEF ReceiptsInv
<1>3. \A r \in SyncRequests : sjob[r].stage = "idle"
    BY <1>1 DEF SyncInit, Resting
<1>4. AloneOnly /\ HoldingsSound
    BY <1>3 DEF AloneOnly, HoldingsSound, Undisturbed
<1>5. VerifiedSound
  <2>1. PICK told \in SUBSET Comics, minted \in SUBSET Comics :
           /\ told \subseteq minted
           /\ row = [c \in Comics |-> IF c \in told
                                      THEN [owner |-> holder[c], receipt |-> Minted(c)]
                                      ELSE NoRow]
           /\ verified = {c \in told : standing[c] = "legacy"}
    BY <1>1 DEF SyncInit, Minted
  <2>2. ASSUME NEW c \in told PROVE row[c] # NoRow /\ row[c].receipt # NoReceipt
    <3>1. Minted(c) \in Receipts /\ holder[c] \in Purses
      BY <1>2 DEF Minted, Receipts, SyncTyped, WorldTyped
    <3>2. row[c] = [owner |-> holder[c], receipt |-> Minted(c)]
      BY <2>1
    <3> QED
      BY <3>1, <3>2, RowMade, WalletSyncAssumption
  <2> QED
    BY <2>1, <2>2 DEF VerifiedSound
<1> QED
    BY <1>2, <1>4, <1>5 DEF HoldingsInv

LEMMA HoldingsHeld == HoldingsInv => HoldingsSynced
<1>1. SUFFICES ASSUME HoldingsInv, NEW r \in SyncRequests, sjob[r].stage = "done",
                      sjob[r].kind = "wallet", sjob[r].alone, ~sjob[r].missed,
                      NEW c \in Comics, holder[c] = sjob[r].purse, standing[c] # "other"
               PROVE  /\ row[c] # NoRow /\ row[c].owner = sjob[r].purse
                      /\ couponed => row[c].receipt # NoReceipt
    BY DEF HoldingsSynced
<1>2. HoldingJob(sjob[r], Listed("wallet", sjob[r].purse))
    BY <1>1 DEF HoldingsInv, HoldingsSound, Undisturbed
<1>3. c \in Listed("wallet", sjob[r].purse)
    BY <1>1, ListedHolds
<1> QED
    BY <1>1, <1>2, <1>3 DEF HoldingJob, SyncedRow

\* What a sync has done of the assets of its wallet, page by page, always holds while
\* nothing else happens.
THEOREM HoldingsInvariance == SyncSpec => []HoldingsInv
<1>1. SyncInit => HoldingsInv
    BY HoldingsStart
<1>2. HoldingsInv /\ [SyncNext]_syncVars => HoldingsInv'
  <2>1. ASSUME HoldingsInv, SyncNext PROVE HoldingsInv'
    BY <2>1, SyncTypedStep, AloneOnlyStep, VerifiedStep, HoldingsStep DEF HoldingsInv
  <2>2. ASSUME HoldingsInv, UNCHANGED syncVars PROVE HoldingsInv'
    <3>1. SyncTyped'
      BY <2>2 DEF syncVars, HoldingsInv, SyncTyped, WorldTyped, RowsSound, SyncsSound,
         SyncJobSound, IsSyncJob
    <3>2. AloneOnly' /\ VerifiedSound'
      BY <2>2 DEF syncVars, HoldingsInv, AloneOnly, Under, VerifiedSound, SeenTo
    <3>3. HoldingsSound'
      <4>1. ASSUME NEW r \in SyncRequests, Undisturbed(sjob[r])'
            PROVE  HoldingJob(sjob[r], Listed("wallet", sjob[r].purse))'
        <5>1. PICK L, j : L = Listed("wallet", j.purse) /\ j = sjob[r]
          OBVIOUS
        <5>2. j = sjob'[r] /\ Listed("wallet", j.purse)' = L
          BY <2>2, <5>1, ListedSame DEF syncVars
        <5>3. HoldingJob(j, L)
          BY <2>2, <4>1, <5>1, <5>2 DEF HoldingsInv, HoldingsSound
        <5>4. HoldingJob(j, L)'
          BY <2>2, <5>3 DEF syncVars, HoldingJob, SyncedRow, HasReceipt
        <5> QED
          BY <5>2, <5>4
      <4> QED
        BY <4>1 DEF HoldingsSound
    <3> QED
      BY <3>1, <3>2, <3>3 DEF HoldingsInv
  <2> QED
    BY <2>1, <2>2
<1> QED
    BY <1>1, <1>2, PTL DEF SyncSpec

\* A sync of a wallet that nothing disturbs and that gives up no asset leaves a row
\* with its owner and a receipt for every asset of ours the wallet holds, however
\* many pages they take.
THEOREM HoldingsSyncedAlways == SyncSpec => []HoldingsSynced
<1>1. HoldingsInv => HoldingsSynced
    BY HoldingsHeld
<1> QED
    BY <1>1, HoldingsInvariance, PTL
-----------------------------------------------------------------------------
(* The ranges of the columns of users, channels and interests             *)

\* The requests that inserted a channel, or ended
Inserters == {r \in AccountRequests : job[r].stage \in {"role", "done"}}

ChannelsCounted ==
    /\ channels \subseteq [user : Users, number : ChannelNumbers]
    /\ IsFiniteSet(channels) /\ Cardinality(channels) <= Cardinality(Inserters)

\* The ids of interests are the first numbers, in the order of insertion.
InterestsCounted ==
    /\ IsFiniteSet(interests)
    /\ \A i \in interests :
          i = [id |-> i.id, user |-> i.user, referrer |-> i.referrer]
          /\ i.id \in 1..Cardinality(interests)
    /\ \A i, j \in interests : i.user = j.user \/ i.id = j.id => i = j

JobRanged(j) ==
    /\ j.stage \in AccountStages
    /\ j.stage = "channel" => j.number \in ChannelNumbers
    /\ j.stage = "interest" => j.user \in Users

AccountRanges ==
    /\ \A r \in AccountRequests : JobRanged(job[r])
    /\ ChannelsCounted /\ InterestsCounted
    /\ \A u \in Known : account[u].granted \in 0..Allowance
    /\ proven \subseteq Users \X Emails /\ asked \subseteq Users \X Users

LEMMA SmallestIs ==
    ASSUME NEW n \in Nat, NEW T \in SUBSET (1..n), T # {}
    PROVE  Min(T) \in T /\ \A y \in T : Min(T) <= y
  <1>1. \E x \in T : \A y \in T : x <= y
    BY Least
  <1> QED BY <1>1 DEF Min

\* A number is free for a new channel as long as a request has yet to insert one.
LEMMA HandleIs ==
    ASSUME ChannelsCounted, NEW r \in AccountRequests, job[r].stage = "idle"
    PROVE  createUniqueHandle \in ChannelNumbers
  <1> DEFINE C == Cardinality(AccountRequests)
             T == TakenNumbers
  <1>1. C \in Nat /\ IsFiniteSet(AccountRequests)
    BY AccountsAssumption, FS_CardinalityType
  <1>2. Cardinality(Inserters) < C
    <2>1. Inserters \subseteq AccountRequests /\ r \notin Inserters
      BY DEF Inserters
    <2>2. Cardinality(Inserters) <= C /\ Cardinality(Inserters) # C /\ IsFiniteSet(Inserters)
      BY <1>1, <2>1, FS_Subset
    <2>3. Cardinality(Inserters) \in Nat
      BY <2>2, FS_CardinalityType
    <2> QED BY <1>1, <2>2, <2>3
  <1>3. IsFiniteSet(T) /\ Cardinality(T) <= Cardinality(channels)
    <2> DEFINE f == [c \in channels |-> c.number]
    <2>1. f \in Surjection(channels, T)
      BY DEF Surjection, TakenNumbers
    <2> QED BY <2>1, FS_Surjection DEF ChannelsCounted
  <1>4. PICK n \in 1..C : n \notin T
    <2>1. Cardinality(1..C) = C
      BY <1>1, UpTo
    <2>2. CASE 1..C \subseteq T
      <3>1. Cardinality(1..C) <= Cardinality(T)
        BY <1>3, <2>2, FS_Subset
      <3>2. Cardinality(channels) \in Nat /\ Cardinality(T) \in Nat /\ IsFiniteSet(Inserters)
        BY <1>1, <1>3, FS_CardinalityType, FS_Subset DEF ChannelsCounted, Inserters
      <3>3. Cardinality(channels) <= Cardinality(Inserters) /\ Cardinality(Inserters) \in Nat
        BY <3>2, FS_CardinalityType DEF ChannelsCounted
      <3> QED BY <1>1, <1>2, <1>3, <2>1, <3>1, <3>2, <3>3
    <2> QED BY <2>2
  <1> DEFINE F == {m \in ChannelNumbers \cup {C + 1} : m > 0 /\ m \notin T}
  <1>5. F \in SUBSET (1..(C + 1)) /\ n \in F
    BY <1>1, <1>4 DEF ChannelNumbers
  <1>6. Min(F) \in F /\ Min(F) <= n
    <2> HIDE DEF F
    <2>1. C + 1 \in Nat
      BY <1>1
    <2> QED BY <1>5, <2>1, SmallestIs
  <1>7. Min(F) \in ChannelNumbers
    BY <1>1, <1>4, <1>6 DEF ChannelNumbers
  <1>8. createUniqueHandle = IF T = {} THEN 0 ELSE Min(F)
    BY DEF createUniqueHandle
  <1>9. 0 \in ChannelNumbers
    BY <1>1 DEF ChannelNumbers
  <1> QED BY <1>7, <1>8, <1>9

LEMMA KnownUsers ==
    ASSUME UsersSound
    PROVE  Known \subseteq Users
  <1>1. PICK n \in Users : Known = 1..n
    BY DEF UsersSound, Known
  <1> QED BY <1>1, AccountsAssumption DEF Users

-----------------------------------------------------------------------------
(* Where a request is                                                      *)

LEMMA RangedHaving ==
    ASSUME JobsSound, \A q \in AccountRequests : JobRanged(job[q]),
           NEW r \in AccountRequests, NEW j, IsJob(j),
           NEW stage \in AccountStages, Having(r, j, stage),
           stage = "channel" => j.number \in ChannelNumbers,
           stage = "interest" => j.user \in Users
    PROVE  \A q \in AccountRequests : JobRanged(job'[q])
  <1>1. r \in DOMAIN job
    BY DEF JobsSound
  <1>2. JobRanged(Without("done"))
    BY DEF Without, Job, JobRanged, AccountStages
  <1>3. JobRanged([j EXCEPT !.stage = stage])
    BY DEF IsJob, JobRanged
  <1>4. job' = [job EXCEPT ![r] = job'[r]] /\ JobRanged(job'[r])
    BY <1>1, <1>2, <1>3 DEF Having
  <1> QED BY <1>4 DEF JobsSound

LEMMA RangedStep ==
    ASSUME AccountsInv, AccountRanges, NEW r \in AccountRequests, AccountStep(r)
    PROVE  \A q \in AccountRequests : JobRanged(job'[q])
  <1> USE DEF Becomes, Asks
  <1>1. JobsSound /\ IsJob(job[r]) /\ Known \subseteq Users
    BY KnownUsers DEF AccountsInv, JobsSound, JobSound
  <1>2. \A q \in AccountRequests : JobRanged(job[q])
    BY DEF AccountRanges
  <1> DEFINE Plain == AccountStages \ {"channel", "interest"}
  <1>3. ASSUME NEW j, IsJob(j), NEW stage \in Plain, Having(r, j, stage)
        PROVE  \A q \in AccountRequests : JobRanged(job'[q])
    BY <1>1, <1>2, <1>3, RangedHaving
  <1>4. \A kind, user, name, email, ref : IsJob(Job("idle", kind, user, name, email, ref))
    BY DEF IsJob, Job
  <1>5. CASE InsertUser(r)
    <2>1. PICK j : j = [job[r] EXCEPT !.user = NextId]
      OBVIOUS
    <2>2. PICK stage \in {"done", "find"} : Having(r, j, stage)
      BY <1>5, <2>1 DEF InsertUser
    <2>3. IsJob(j) /\ stage \in Plain
      BY <1>1, <2>1 DEF IsJob, AccountStages
    <2> QED BY <1>3, <2>2, <2>3
  <1>6. CASE Having(r, job[r], "done")
    BY <1>1, <1>3, <1>6 DEF AccountStages
  <1>7. CASE FindReferrer(r) /\ ~Having(r, job[r], "done")
    <2>1. PICK u : Having(r, [job[r] EXCEPT !.found = u, !.number = account[u].left], "refer")
      BY <1>7 DEF FindReferrer
    <2>2. PICK j : j = [job[r] EXCEPT !.found = u, !.number = account[u].left]
      OBVIOUS
    <2>3. IsJob(j) /\ "refer" \in Plain
      BY <1>1, <2>2 DEF IsJob, AccountStages
    <2> QED BY <1>3, <2>1, <2>2, <2>3
  <1>8. CASE register(r) \/ requestEmailVerification(r) \/ requestEmailChange(r) \/ verifyEmail(r)
             \/ handleGoogleSignIn(r) \/ processUserEmailVerification(r)
    <2>1. PICK j, stage : IsJob(j) /\ Having(r, j, stage)
                          /\ stage \in {"check", "done", "emailCheck", "verify", "google"}
      BY <1>4, <1>8 DEF register, requestEmailVerification, requestEmailChange, verifyEmail,
         handleGoogleSignIn, processUserEmailVerification
    <2>2. stage \in Plain
      BY <2>1 DEF AccountStages
    <2> QED BY <1>3, <2>1, <2>2
  <1>9. CASE \/ CheckRegistration(r) \/ CheckEmail(r) \/ WriteEmail(r) \/ CheckName(r)
             \/ InsertChannel(r)
    <2>1. PICK stage : /\ Having(r, job[r], stage)
                       /\ stage \in {"done", "insert", "emailWrite", "verify", "nameCheck",
                                     "nameWrite", "role"}
      BY <1>9, SMTT(60) DEF CheckRegistration, CheckEmail, WriteEmail, CheckName, InsertChannel
    <2>2. stage \in Plain
      BY <2>1 DEF AccountStages
    <2> QED BY <1>1, <1>3, <2>1, <2>2
  <1>10. CASE InsertRefused(r) \/ ApplyReferral(r) \/ WriteName(r) \/ WriteVerified(r)
              \/ WriteGoogle(r) \/ WriteRole(r) \/ RoleLost(r) \/ ApplyCampaignReferral(r)
    BY <1>6, <1>10, ZenonT(60) DEF InsertRefused, ApplyReferral, WriteName, WriteVerified, WriteGoogle,
       WriteRole, RoleLost, ApplyCampaignReferral
  <1>11. CASE update(r)
    <2>1. PICK u \in Known, name \in OrNobody(Names), email \in OrNobody(Emails),
               stage \in {"emailCheck", "nameCheck"} :
            Having(r, [Job("idle", "update", u, name, email, Nobody)
                         EXCEPT !.old = account[u].email], stage)
      BY <1>11 DEF update, OrNobody
    <2>2. PICK j : j = [Job("idle", "update", u, name, email, Nobody)
                          EXCEPT !.old = account[u].email]
      OBVIOUS
    <2>3. IsJob(j) /\ stage \in Plain
      BY <2>2 DEF IsJob, Job, AccountStages
    <2> QED BY <1>3, <2>1, <2>2, <2>3
  <1>12. CASE createChannel(r)
    <2>1. PICK u \in Known :
            /\ job[r].stage = "idle"
            /\ Having(r, [Job("idle", "channel", u, Nobody, Nobody, Nobody)
                            EXCEPT !.number = createUniqueHandle], "channel")
      BY <1>12 DEF createChannel
    <2>2. PICK j : j = [Job("idle", "channel", u, Nobody, Nobody, Nobody)
                          EXCEPT !.number = createUniqueHandle]
      OBVIOUS
    <2>3. IsJob(j) /\ j.number = createUniqueHandle /\ "channel" \in AccountStages
      BY <2>2 DEF IsJob, Job, AccountStages
    <2>4. createUniqueHandle \in ChannelNumbers
      BY <2>1, HandleIs DEF AccountRanges
    <2> QED BY <1>1, <1>2, <2>1, <2>2, <2>3, <2>4, RangedHaving
  <1>13. CASE expressUserInterest(r)
    <2>1. PICK u \in Known, ref \in Names \cup {Nobody}, stage \in {"interest", "done"} :
            Having(r, Job("idle", "interest", u, Nobody, Nobody, ref), stage)
      BY <1>13 DEF expressUserInterest, OrNobody
    <2>2. PICK j : j = Job("idle", "interest", u, Nobody, Nobody, ref)
      OBVIOUS
    <2>3. IsJob(j) /\ j.user \in Users /\ stage \in AccountStages
      BY <1>1, <2>2 DEF IsJob, Job, AccountStages
    <2> QED BY <1>1, <1>2, <2>1, <2>2, <2>3, RangedHaving
  <1>14. CASE FindCampaignReferrer(r) /\ ~Having(r, job[r], "done")
    <2>1. PICK u : Having(r, [job[r] EXCEPT !.found = u], "campaign")
      BY <1>14 DEF FindCampaignReferrer
    <2>2. PICK j : j = [job[r] EXCEPT !.found = u]
      OBVIOUS
    <2>3. IsJob(j) /\ "campaign" \in Plain
      BY <1>1, <2>2 DEF IsJob, AccountStages
    <2> QED BY <1>3, <2>1, <2>2, <2>3
  <1> QED BY <1>5, <1>6, <1>7, <1>8, <1>9, <1>10, <1>11, <1>12, <1>13, <1>14 DEF AccountStep

\* Whoever inserted a channel, or ended, did so for good.
LEMMA InsertersStay ==
    ASSUME JobsSound, NEW r \in AccountRequests, AccountStep(r)
    PROVE  Inserters \subseteq Inserters'
  <1>1. \A q \in AccountRequests \ {r} : job'[q] = job[q]
    BY RefersOnly
  <1>2. ASSUME job[r].stage \in {"role", "done"}
        PROVE  job'[r].stage = "done"
    <2>1. WriteRole(r) \/ RoleLost(r)
      BY <1>2, ZenonT(60) DEF AccountStep, register, CheckRegistration, InsertUser, InsertRefused, FindReferrer,
         ApplyReferral, update, CheckEmail, WriteEmail, CheckName, WriteName,
         requestEmailVerification, requestEmailChange, verifyEmail, WriteVerified,
         handleGoogleSignIn, WriteGoogle, processUserEmailVerification, createChannel,
         InsertChannel, expressUserInterest, FindCampaignReferrer, ApplyCampaignReferral, Asks
    <2>2. Having(r, job[r], "done") /\ IsJob(job[r])
      BY <2>1 DEF WriteRole, RoleLost, Becomes, JobsSound, JobSound
    <2> QED BY <2>2, HavingIs
  <1> QED BY <1>1, <1>2 DEF Inserters

LEMMA ChannelsStep ==
    ASSUME AccountsInv, AccountRanges, NEW r \in AccountRequests, AccountStep(r)
    PROVE  ChannelsCounted'
  <1>1. JobsSound /\ Known \subseteq Users /\ IsJob(job[r])
    BY KnownUsers DEF AccountsInv, JobsSound, JobSound
  <1>2. IsFiniteSet(Inserters) /\ IsFiniteSet(Inserters')
    <2>1. IsFiniteSet(AccountRequests) /\ Inserters \subseteq AccountRequests
          /\ Inserters' \subseteq AccountRequests
      BY AccountsAssumption DEF Inserters
    <2> QED BY <2>1, FS_Subset
  <1>3. /\ Inserters \subseteq Inserters'
        /\ Cardinality(Inserters) <= Cardinality(Inserters')
        /\ Cardinality(Inserters) \in Nat /\ Cardinality(Inserters') \in Nat
        /\ Cardinality(Inserters) = Cardinality(Inserters') => Inserters = Inserters'
    BY <1>1, <1>2, InsertersStay, FS_Subset, FS_CardinalityType
  <1>4. /\ ChannelsCounted /\ Cardinality(channels) \in Nat
    BY FS_CardinalityType DEF AccountRanges, ChannelsCounted
  <1>5. CASE UNCHANGED channels
    BY <1>3, <1>4, <1>5 DEF ChannelsCounted, ChannelNumbers
  <1>6. CASE InsertChannel(r) /\ ~UNCHANGED channels
    <2>1. /\ job[r].stage = "channel" /\ Having(r, job[r], "role")
          /\ channels' = channels \cup {[user |-> job[r].user, number |-> job[r].number]}
      BY <1>6 DEF InsertChannel, Becomes
    <2>2. job[r].user \in Users /\ job[r].number \in ChannelNumbers
      <3>1. JobRanged(job[r]) /\ JobSound(job[r])
        BY <1>1 DEF AccountRanges, JobsSound
      <3> QED BY <1>1, <2>1, <3>1 DEF JobRanged, JobSound
    <2>3. r \in Inserters' /\ r \notin Inserters
      BY <1>1, <2>1, HavingIs DEF Inserters
    <2>4. Cardinality(Inserters) + 1 <= Cardinality(Inserters')
      BY <1>3, <2>3
    <2>5. PICK c : c = [user |-> job[r].user, number |-> job[r].number]
      OBVIOUS
    <2>6. /\ IsFiniteSet(channels \cup {c})
          /\ Cardinality(channels \cup {c}) <= Cardinality(channels) + 1
      <3>1. IsFiniteSet(channels)
        BY <1>4 DEF ChannelsCounted
      <3>2. /\ IsFiniteSet(channels \cup {c})
            /\ \/ Cardinality(channels \cup {c}) = Cardinality(channels)
               \/ Cardinality(channels \cup {c}) = Cardinality(channels) + 1
        BY <3>1, FS_AddElement
      <3> QED BY <1>4, <3>2
    <2>7. IsFiniteSet(channels') /\ Cardinality(channels') <= Cardinality(channels) + 1
          /\ Cardinality(channels') \in Nat
      BY <2>1, <2>5, <2>6, FS_CardinalityType
    <2>8. Cardinality(channels') <= Cardinality(Inserters')
      BY <1>3, <1>4, <2>4, <2>7 DEF ChannelsCounted
    <2>9. channels' \subseteq [user : Users, number : ChannelNumbers]
      BY <1>4, <2>1, <2>2 DEF ChannelsCounted
    <2> QED BY <2>7, <2>8, <2>9 DEF ChannelsCounted, ChannelNumbers
  <1> QED
    BY <1>5, <1>6 DEF AccountStep, register, CheckRegistration, InsertUser, InsertRefused,
       FindReferrer, ApplyReferral, update, CheckEmail, WriteEmail, CheckName, WriteName,
       requestEmailVerification, requestEmailChange, verifyEmail, WriteVerified,
       handleGoogleSignIn, WriteGoogle, processUserEmailVerification, createChannel, WriteRole,
       RoleLost, expressUserInterest, FindCampaignReferrer, ApplyCampaignReferral, asideFromUsers

LEMMA InterestsStep ==
    ASSUME AccountRanges, NEW r \in AccountRequests, AccountStep(r)
    PROVE  InterestsCounted'
  <1>1. InterestsCounted /\ Cardinality(interests) \in Nat
    BY FS_CardinalityType DEF AccountRanges, InterestsCounted
  <1>2. CASE UNCHANGED interests
    BY <1>1, <1>2 DEF InterestsCounted
  <1>3. CASE expressUserInterest(r) /\ ~UNCHANGED interests
    <2>1. PICK u \in Known :
            /\ \A i \in interests : i.user # u
            /\ interests' = interests \cup {[id |-> Cardinality(interests) + 1,
                                             user |-> u, referrer |-> Nobody]}
      BY <1>3 DEF expressUserInterest
    <2>2. PICK new : new = [id |-> Cardinality(interests) + 1, user |-> u, referrer |-> Nobody]
      OBVIOUS
    <2>3. /\ new = [id |-> new.id, user |-> new.user, referrer |-> new.referrer]
          /\ new.id = Cardinality(interests) + 1 /\ new.user = u
      BY <2>2
    <2>4. \A i \in interests : i.id \in 1..Cardinality(interests)
      BY <1>1 DEF InterestsCounted
    <2>5. \A i \in interests : i.id # new.id
      BY <1>1, <2>3, <2>4
    <2>6. new \notin interests
      BY <2>5
    <2>7. IsFiniteSet(interests') /\ Cardinality(interests') = Cardinality(interests) + 1
      <3>1. IsFiniteSet(interests) /\ interests' = interests \cup {new}
        BY <1>1, <2>1, <2>2 DEF InterestsCounted
      <3> QED BY <2>6, <3>1, FS_AddElement
    <2>8. ASSUME NEW i \in interests'
          PROVE  i = [id |-> i.id, user |-> i.user, referrer |-> i.referrer]
                 /\ i.id \in 1..Cardinality(interests')
      <3>1. CASE i = new
        BY <1>1, <2>3, <2>7, <3>1
      <3>2. CASE i \in interests
        BY <1>1, <2>4, <2>7, <3>2 DEF InterestsCounted
      <3> QED BY <2>1, <2>2, <3>1, <3>2
    <2>9. \A i, j \in interests' : i.user = j.user \/ i.id = j.id => i = j
      BY <1>1, <2>1, <2>2, <2>3, <2>5 DEF InterestsCounted
    <2> QED BY <2>7, <2>8, <2>9 DEF InterestsCounted
  <1>4. CASE ApplyCampaignReferral(r)
    <2>1. PICK f : f = [i \in interests |-> IF i.id = job[r].user
                                             THEN [i EXCEPT !.referrer = job[r].found] ELSE i]
      OBVIOUS
    <2>2. interests' = {f[i] : i \in interests} /\ f = [i \in interests |-> f[i]]
      BY <1>4, <2>1 DEF ApplyCampaignReferral
    <2>3. ASSUME NEW i \in interests
          PROVE  /\ f[i].id = i.id /\ f[i].user = i.user
                 /\ f[i] = [id |-> f[i].id, user |-> f[i].user, referrer |-> f[i].referrer]
      <3>1. i = [id |-> i.id, user |-> i.user, referrer |-> i.referrer]
        BY <1>1 DEF InterestsCounted
      <3> QED BY <2>1, <3>1
    <2>4. f \in Surjection(interests, interests') /\ f \in Injection(interests, interests')
      <3>1. ASSUME NEW i \in interests, NEW j \in interests, f[i] = f[j]
            PROVE  i = j
        <4>1. f[i].id = i.id /\ f[j].id = j.id
          BY <2>3
        <4> QED BY <1>1, <3>1, <4>1 DEF InterestsCounted
      <3>2. f \in [interests -> interests']
        BY <2>2
      <3>3. \A k \in interests' : \E i \in interests : f[i] = k
        BY <2>2
      <3>4. f \in Surjection(interests, interests')
        BY <3>2, <3>3 DEF Surjection
      <3>5. f \in Injection(interests, interests')
        BY <3>1, <3>2 DEF Injection, IsInjective
      <3> QED BY <3>4, <3>5
    <2>5. IsFiniteSet(interests') /\ Cardinality(interests') = Cardinality(interests)
      <3>1. IsFiniteSet(interests)
        BY <1>1 DEF InterestsCounted
      <3> QED BY <2>4, <3>1, FS_Surjection
    <2>6. \A i \in interests : i.id \in 1..Cardinality(interests')
      BY <1>1, <2>5 DEF InterestsCounted
    <2>7. \A i \in interests' :
            i = [id |-> i.id, user |-> i.user, referrer |-> i.referrer]
            /\ i.id \in 1..Cardinality(interests')
      BY <2>2, <2>3, <2>6
    <2>8. \A i, j \in interests' : i.user = j.user \/ i.id = j.id => i = j
      <3>1. \A i, j \in interests : i.user = j.user \/ i.id = j.id => i = j
        BY <1>1 DEF InterestsCounted
      <3> QED BY <2>2, <2>3, <3>1
    <2> QED BY <2>5, <2>7, <2>8 DEF InterestsCounted
  <1> QED
    BY <1>2, <1>3, <1>4 DEF AccountStep, register, CheckRegistration, InsertUser, InsertRefused,
       FindReferrer, ApplyReferral, update, CheckEmail, WriteEmail, CheckName, WriteName,
       requestEmailVerification, requestEmailChange, verifyEmail, WriteVerified,
       handleGoogleSignIn, WriteGoogle, processUserEmailVerification, createChannel, InsertChannel,
       WriteRole, RoleLost, FindCampaignReferrer, asideFromUsers

\* What was proven and asked for is of users.
LEMMA AnswersRanged ==
    ASSUME AccountsInv, AccountRanges, NEW r \in AccountRequests, AccountStep(r)
    PROVE  proven' \subseteq Users \X Emails /\ asked' \subseteq Users \X Users
  <1>1. /\ UsersSound /\ LinksSound /\ JobsSound /\ Known \subseteq Users
        /\ proven \subseteq Users \X Emails /\ asked \subseteq Users \X Users
    BY KnownUsers DEF AccountsInv, AccountRanges
  <1>2. \A u \in Known : account[u].email \in Emails
    BY <1>1, RowsTyped DEF UserRows
  <1>3. CASE InsertUser(r)
    <2>1. NextId \in Users /\ job[r].email \in Emails
      BY <1>1, <1>3, Inserted
    <2> QED BY <1>1, <1>3, <2>1 DEF InsertUser
  <1>4. CASE verifyEmail(r)
    BY <1>1, <1>4 DEF verifyEmail, LinksSound
  <1>5. CASE handleGoogleSignIn(r)
    BY <1>1, <1>2, <1>5 DEF handleGoogleSignIn, ByEmail
  <1>6. CASE processUserEmailVerification(r)
    BY <1>1, <1>2, <1>6 DEF processUserEmailVerification
  <1>7. CASE FindCampaignReferrer(r)
    <2>1. job[r].user \in Users
      BY <1>7 DEF AccountRanges, JobRanged, FindCampaignReferrer
    <2>2. \/ UNCHANGED asked
          \/ \E u \in Known : asked' = asked \cup {<<job[r].user, u>>}
      BY <1>7 DEF FindCampaignReferrer, ByName
    <2>3. UNCHANGED proven
      BY <1>7 DEF FindCampaignReferrer
    <2> QED BY <1>1, <2>1, <2>2, <2>3
  <1>8. CASE UNCHANGED <<proven, asked>>
    BY <1>1, <1>8
  <1> QED
    BY <1>3, <1>4, <1>5, <1>6, <1>7, <1>8 DEF AccountStep, register, CheckRegistration,
       InsertRefused, FindReferrer, ApplyReferral, update, CheckEmail, WriteEmail, CheckName,
       WriteName, requestEmailVerification, requestEmailChange, WriteVerified, WriteGoogle,
       createChannel, InsertChannel, WriteRole, RoleLost, expressUserInterest,
       ApplyCampaignReferral, histories

LEMMA AllowancesStep ==
    ASSUME AccountsInv, AccountRanges, NEW r \in AccountRequests, AccountStep(r)
    PROVE  \A u \in Known' : account'[u].granted \in 0..Allowance
  <1>1. UsersSound /\ JobsSound /\ \A u \in Known : account[u].granted \in 0..Allowance
    BY DEF AccountsInv, AccountRanges
  <1>2. CASE InsertUser(r)
    <2>1. PICK google \in BOOLEAN :
            account'[NextId] = UserRow(job[r].name, job[r].email, google, 0)
      BY <1>1, <1>2, Inserted
    <2>2. account'[NextId].granted \in 0..Allowance
      BY <2>1, AccountsAssumption DEF UserRow
    <2> QED BY <1>1, <1>2, <2>2, Inserted
  <1>3. CASE ~InsertUser(r)
    BY <1>1, <1>3, KnownSame
  <1> QED BY <1>2, <1>3

LEMMA AccountRangesStart == AccountsInit => AccountRanges
  <1> SUFFICES ASSUME AccountsInit
               PROVE  AccountRanges
    OBVIOUS
  <1>1. PICK n \in Names, e \in Emails, allowance \in 0..Allowance :
          account = [u \in {FirstUser} |-> UserRow(n, e, TRUE, allowance)]
    BY DEF AccountsInit
  <1>2. /\ Known = {1} /\ account[1] = UserRow(n, e, TRUE, allowance) /\ FirstUser = 1
        /\ 1 \in Users
    BY <1>1, AccountsAssumption DEF Known, FirstUser, Users
  <1>3. account[1].granted \in 0..Allowance /\ account[1].email \in Emails
    BY <1>2 DEF UserRow
  <1>4. proven \subseteq Users \X Emails /\ asked \subseteq Users \X Users
    <2>1. proven = {<<1, account[1].email>>} /\ asked = {}
      BY <1>2 DEF AccountsInit
    <2>2. <<1, account[1].email>> \in Users \X Emails
      BY <1>2, <1>3
    <2> QED BY <2>1, <2>2
  <1>5. \A r \in AccountRequests : JobRanged(job[r])
    BY DEF AccountsInit, Without, Job, JobRanged, AccountStages
  <1>6. ChannelsCounted /\ InterestsCounted
    <2>1. channels = {} /\ interests = {} /\ Cardinality(channels) = 0 /\ IsFiniteSet({})
      BY FS_EmptySet DEF AccountsInit
    <2>2. IsFiniteSet(Inserters)
      BY AccountsAssumption, FS_Subset DEF Inserters
    <2>3. Cardinality(Inserters) >= 0
      BY <2>2, FS_CardinalityType
    <2> QED BY <2>1, <2>3 DEF ChannelsCounted, InterestsCounted
  <1> QED BY <1>2, <1>3, <1>4, <1>5, <1>6 DEF AccountRanges

LEMMA AccountRangesKept ==
    AccountsInv /\ AccountRanges /\ [AccountsNext]_accountVars => AccountRanges'
  <1> SUFFICES ASSUME AccountsInv, AccountRanges, [AccountsNext]_accountVars
               PROVE  AccountRanges'
    OBVIOUS
  <1>1. CASE AccountsNext
    <2>1. PICK r \in AccountRequests : AccountStep(r)
      BY <1>1 DEF AccountsNext
    <2>2. \A q \in AccountRequests : JobRanged(job[q])'
      BY <2>1, RangedStep DEF JobRanged, ChannelNumbers
    <2> QED BY <2>1, <2>2, ChannelsStep, InterestsStep, AnswersRanged, AllowancesStep
            DEF AccountRanges
  <1>2. CASE UNCHANGED accountVars
    BY <1>2 DEF accountVars, AccountRanges, JobRanged, ChannelsCounted, Inserters,
       InterestsCounted, Known, ChannelNumbers
  <1> QED BY <1>1, <1>2

\* What was given of an allowance, and what is left of it, are within bounds.
LEMMA AccountsTyped == AccountsInv /\ AccountRanges => AccountsTypeOK
  <1> SUFFICES ASSUME AccountsInv, AccountRanges
               PROVE  AccountsTypeOK
    OBVIOUS
  <1>1. UsersSound /\ LinksSound /\ ReferralsCounted /\ Known \subseteq Users
    BY KnownUsers DEF AccountsInv
  <1>2. Known \in {1..n : n \in Users}
    BY <1>1 DEF UsersSound, Known
  <1>3. ASSUME NEW u \in Known
        PROVE  account[u].left \in (0 - MaxUsers)..Allowance
    <2>1. /\ account[u].granted \in 0..Allowance /\ account[u].left \in Int
          /\ account[u].granted - account[u].left = Cardinality(Referees(u))
      BY <1>1, RowsTyped DEF AccountRanges, ReferralsCounted, Referees, UserRows
    <2>2. Cardinality(Referees(u)) \in 0..MaxUsers
      <3>1. IsFiniteSet(Users) /\ Cardinality(Users) = MaxUsers
        BY UpTo, AccountsAssumption DEF Users
      <3>2. Referees(u) \subseteq Users
        BY <1>1 DEF Referees
      <3>3. Cardinality(Referees(u)) <= MaxUsers /\ Cardinality(Referees(u)) \in Nat
        BY <1>1, <3>1, <3>2, FS_Subset, RefereesCounted
      <3> QED BY <3>3, AccountsAssumption
    <2> QED BY <2>1, <2>2, AccountsAssumption
  <1>4. ASSUME NEW u \in Known
        PROVE  account[u] \in [name : Names, email : Emails, verified : BOOLEAN,
                               referrer : Users \cup {Nobody},
                               left : (0 - MaxUsers)..Allowance,
                               granted : 0..Allowance, role : {"User", "Creator"}]
    <2>1. account[u] \in UserRows /\ account[u].granted \in 0..Allowance
      BY <1>1, RowsTyped DEF AccountRanges
    <2> QED BY <1>3, <2>1 DEF UserRows
  <1>5. links \subseteq [user : Users, email : Emails]
    BY <1>1 DEF LinksSound
  <1> QED BY <1>2, <1>4, <1>5 DEF AccountsTypeOK, AccountRanges, ChannelsCounted, JobRanged, InterestsCounted

\* Users, channels, interests and links are well typed: no number of a handle exceeds the
\* number of requests, and allowances stay within their bounds.
THEOREM AccountsTypeOKAlways == AccountsSpec => []AccountsTypeOK
  <1>1. AccountsInit => AccountsInv /\ AccountRanges
    BY AccountsInitInv, AccountRangesStart
  <1>2. AccountsInv /\ AccountRanges /\ [AccountsNext]_accountVars
          => (AccountsInv /\ AccountRanges)'
    BY AccountsNextInv, AccountRangesKept
  <1> QED BY <1>1, <1>2, AccountsTyped, PTL DEF AccountsSpec

-----------------------------------------------------------------------------
(* The ranges of labels, groups and settings                               *)

GroupRows == [label : Labels, price : Prices, capped : BOOLEAN]
SettingRows == [label : Labels, coupon : CouponIds, token : Tokens, price : Prices]
CouponStages == {"idle", "count", "fetch", "send", "write", "done"}

\* The requests that wrote their rows, or gave up
Finished == {r \in CouponRequests : cpc[r] = "done"}

\* A coupon has one setting at first, and one more for each request that ended at most.
SettingsCounted ==
    \A id \in CouponIds : /\ IsFiniteSet(OfCoupon(id))
                          /\ Cardinality(OfCoupon(id)) <= Cardinality(Finished) + 1

\* What a request works on.
WorkRanged(r) ==
    /\ cpc[r] \in {"count", "send", "write"} \/ cpc[r] = "fetch" =>
         /\ cop[r].coupon \in CouponIds /\ cop[r].token \in Tokens
         /\ cop[r].kind # "price" => cop[r].type \in Types
    /\ cpc[r] \in {"fetch", "send", "write"} => label[r] \in Labels

RowsRanged ==
    /\ coupons \subseteq [id : CouponIds, type : Types]
    /\ \A c \in coupons : c.id \in CouponRequests \cup {c.type}
    /\ settings \subseteq SettingRows

ChainRanged ==
    /\ groups \subseteq GroupRows /\ closed \in BOOLEAN
    /\ disturbed \subseteq Labels /\ orphaned \subseteq Labels

PlacesRanged ==
    /\ cpc \in [CouponRequests -> CouponStages]
    /\ label \in [CouponRequests -> Labels \cup {NoLabel}]
    /\ fetched \in [CouponRequests -> SUBSET GroupRows]
    /\ cop = [r \in CouponRequests |-> cop[r]]
    /\ \A r \in CouponRequests : WorkRanged(r)

CouponRanges == RowsRanged /\ ChainRanged /\ PlacesRanged /\ SettingsCounted

\* The iterations of a label are not more than the requests and one.
LEMMA IterationIs ==
    ASSUME NEW S, IsFiniteSet(S), Cardinality(S) <= Cardinality(CouponRequests) + 1
    PROVE  Cardinality(S) \in Iterations /\ 0 \in Iterations
  <1>1. Cardinality(S) \in Nat /\ Cardinality(CouponRequests) \in Nat
    BY CouponsAssumption, FS_CardinalityType
  <1> QED BY <1>1 DEF Iterations

LEMMA FinishedCounted ==
    /\ IsFiniteSet(Finished) /\ Cardinality(Finished) \in Nat
    /\ Cardinality(Finished) <= Cardinality(CouponRequests)
    /\ Cardinality(CouponRequests) \in Nat
  <1>1. IsFiniteSet(CouponRequests) /\ Finished \subseteq CouponRequests
    BY CouponsAssumption DEF Finished
  <1> QED BY <1>1, FS_Subset, FS_CardinalityType

LEMMA OfTypeCounted ==
    ASSUME RowsRanged, NEW t
    PROVE  Cardinality(OfType(t)) \in Iterations
  <1> DEFINE ids == CouponRequests \cup {t}
             f == [i \in ids |-> [id |-> i, type |-> t]]
             all == {f[i] : i \in ids}
  <1>1. IsFiniteSet(ids) /\ Cardinality(ids) <= Cardinality(CouponRequests) + 1
    <2>1. /\ IsFiniteSet(ids)
          /\ \/ Cardinality(ids) = Cardinality(CouponRequests)
             \/ Cardinality(ids) = Cardinality(CouponRequests) + 1
      BY CouponsAssumption, FS_AddElement
    <2> QED BY <2>1, FinishedCounted
  <1>2. f \in Surjection(ids, all)
    BY DEF Surjection
  <1>3. IsFiniteSet(all) /\ Cardinality(all) <= Cardinality(ids)
    BY <1>1, <1>2, FS_Surjection
  <1>4. OfType(t) \subseteq all
    <2> SUFFICES ASSUME NEW c \in coupons, c.type = t
                 PROVE  c \in all
      BY DEF OfType
    <2>1. c.id \in ids /\ c = [id |-> c.id, type |-> t]
      BY DEF RowsRanged
    <2> QED BY <2>1
  <1>5. /\ IsFiniteSet(OfType(t)) /\ Cardinality(OfType(t)) <= Cardinality(all)
    BY <1>3, <1>4, FS_Subset
  <1>6. Cardinality(OfType(t)) <= Cardinality(CouponRequests) + 1
    <2>1. /\ Cardinality(OfType(t)) \in Nat /\ Cardinality(all) \in Nat
          /\ Cardinality(ids) \in Nat /\ Cardinality(CouponRequests) \in Nat
      BY <1>1, <1>3, <1>5, FS_CardinalityType, FinishedCounted
    <2> HIDE DEF all, ids
    <2> QED BY <1>1, <1>3, <1>5, <2>1
  <1> QED BY <1>5, <1>6, IterationIs

LEMMA OfCouponCounted ==
    ASSUME SettingsCounted, NEW id \in CouponIds
    PROVE  Cardinality(OfCoupon(id)) \in Iterations
  <1>1. IsFiniteSet(OfCoupon(id)) /\ Cardinality(OfCoupon(id)) <= Cardinality(Finished) + 1
    BY DEF SettingsCounted
  <1>2. Cardinality(OfCoupon(id)) \in Nat
    BY <1>1, FS_CardinalityType
  <1>3. Cardinality(OfCoupon(id)) <= Cardinality(CouponRequests) + 1
    BY <1>1, <1>2, FinishedCounted
  <1> QED BY <1>1, <1>3, IterationIs

\* Requests that ended did so for good.
LEMMA FinishedStays ==
    ASSUME PlacesRanged, NEW r \in CouponRequests, cpc[r] # "done",
           NEW where, cpc' = [cpc EXCEPT ![r] = where]
    PROVE  /\ Cardinality(Finished) <= Cardinality(Finished') /\ Cardinality(Finished') \in Nat
           /\ where = "done" => Cardinality(Finished') = Cardinality(Finished) + 1
  <1>0. \A q \in CouponRequests : cpc'[q] = IF q = r THEN where ELSE cpc[q]
    BY DEF PlacesRanged
  <1>1. Finished \subseteq Finished' /\ (where = "done" => Finished' = Finished \cup {r}) /\ r \notin Finished
    BY <1>0 DEF Finished
  <1>2. IsFiniteSet(Finished')
    <2>1. Finished' \subseteq CouponRequests
      BY DEF Finished
    <2> QED BY <2>1, CouponsAssumption, FS_Subset
  <1>3. Cardinality(Finished) <= Cardinality(Finished') /\ Cardinality(Finished') \in Nat
    BY <1>1, <1>2, FS_Subset, FS_CardinalityType
  <1>4. ASSUME where = "done"
        PROVE  Cardinality(Finished') = Cardinality(Finished) + 1
    BY <1>1, <1>4, FinishedCounted, FS_AddElement
  <1> QED BY <1>3, <1>4

\* While no setting is written they are counted.
LEMMA SettingsStay ==
    ASSUME CouponRanges, NEW r \in CouponRequests, cpc[r] # "done",
           NEW where, At(r, where), UNCHANGED settings
    PROVE  SettingsCounted'
  <1>1. Cardinality(Finished) <= Cardinality(Finished') /\ Cardinality(Finished') \in Nat
    <2>1. PlacesRanged /\ cpc' = [cpc EXCEPT ![r] = where]
      BY DEF At, CouponRanges
    <2> QED BY <2>1, FinishedStays
  <1>2. ASSUME NEW id \in CouponIds
        PROVE  /\ IsFiniteSet(OfCoupon(id)')
               /\ Cardinality(OfCoupon(id)') <= Cardinality(Finished') + 1
    <2>1. OfCoupon(id)' = OfCoupon(id)
      BY DEF OfCoupon
    <2>2. IsFiniteSet(OfCoupon(id)) /\ Cardinality(OfCoupon(id)) <= Cardinality(Finished) + 1
      BY DEF CouponRanges, SettingsCounted
    <2> QED BY <1>1, <2>1, <2>2, FinishedCounted, FS_CardinalityType
  <1> QED BY <1>2 DEF SettingsCounted, CouponIds

\* One request goes on.
LEMMA OneRanged ==
    ASSUME CouponRanges, NEW r \in CouponRequests,
           cpc' = [cpc EXCEPT ![r] = cpc'[r]], cpc'[r] \in CouponStages,
           label' = [label EXCEPT ![r] = label'[r]], label'[r] \in Labels \cup {NoLabel},
           fetched' = [fetched EXCEPT ![r] = fetched'[r]], fetched'[r] \subseteq GroupRows,
           cop' = [cop EXCEPT ![r] = cop'[r]], WorkRanged(r)'
    PROVE  PlacesRanged'
  <1>1. cpc' \in [CouponRequests -> CouponStages] /\ label' \in [CouponRequests -> Labels \cup {NoLabel}]
        /\ fetched' \in [CouponRequests -> SUBSET GroupRows]
    BY DEF CouponRanges, PlacesRanged
  <1>2. ASSUME NEW q \in CouponRequests, q # r
        PROVE  WorkRanged(q)'
    <2>1. WorkRanged(q) /\ cpc'[q] = cpc[q] /\ label'[q] = label[q] /\ cop'[q] = cop[q]
      BY <1>2 DEF CouponRanges, PlacesRanged
    <2> QED BY <2>1 DEF WorkRanged
  <1>3. cop' = [q \in CouponRequests |-> cop'[q]]
    BY DEF CouponRanges, PlacesRanged
  <1> QED BY <1>1, <1>2, <1>3 DEF PlacesRanged, Labels, Iterations, NoLabel, GroupRows, Prices

LEMMA ArrivingRanged ==
    ASSUME CouponRanges, NEW r \in CouponRequests,
           addCandyMachineCoupon(r) \/ addCandyMachineCouponCurrency(r) \/ updatePrice(r)
    PROVE  CouponRanges'
  <1>a. \E kind, type : \E coupon \in CouponIds, token \in Tokens, where \in {"count", "fetch"} :
          /\ Arrives(r, kind, type, coupon, token) /\ At(r, where)
          /\ kind # "price" => type \in Types
          /\ \/ where = "count" /\ UNCHANGED label
             \/ \E s \in settings : label' = [label EXCEPT ![r] = s.label]
    <2>1. CASE addCandyMachineCoupon(r)
      BY <2>1 DEF addCandyMachineCoupon, CouponIds
    <2>2. CASE addCandyMachineCouponCurrency(r)
      BY <2>2 DEF addCandyMachineCouponCurrency, CouponRanges, RowsRanged
    <2>3. CASE updatePrice(r)
      <3>1. PICK s \in settings :
              /\ Arrives(r, "price", "", s.coupon, s.token) /\ At(r, "fetch")
              /\ label' = [label EXCEPT ![r] = s.label]
        BY <2>3 DEF updatePrice
      <3>2. s.coupon \in CouponIds /\ s.token \in Tokens
        BY DEF CouponRanges, RowsRanged, SettingRows
      <3> QED BY <3>1, <3>2
    <2> QED BY <2>1, <2>2, <2>3
  <1>b. PICK kind, type : \E c \in CouponIds, t \in Tokens, where \in {"count", "fetch"} :
          /\ Arrives(r, kind, type, c, t) /\ At(r, where)
          /\ kind # "price" => type \in Types
          /\ \/ where = "count" /\ UNCHANGED label
             \/ \E s \in settings : label' = [label EXCEPT ![r] = s.label]
    BY <1>a
  <1>1. PICK coupon \in CouponIds, token \in Tokens, where \in {"count", "fetch"} :
          /\ Arrives(r, kind, type, coupon, token) /\ At(r, where)
          /\ kind # "price" => type \in Types
          /\ \/ where = "count" /\ UNCHANGED label
             \/ \E s \in settings : label' = [label EXCEPT ![r] = s.label]
    BY <1>b
  <1>2. /\ PlacesRanged /\ cpc[r] = "idle"
        /\ UNCHANGED <<groups, closed, coupons, settings, fetched, disturbed, orphaned>>
    BY <1>1 DEF CouponRanges, Arrives
  <1>3. RowsRanged' /\ ChainRanged'
    BY <1>2 DEF CouponRanges, RowsRanged, ChainRanged
  <1>4. SettingsCounted'
    BY <1>1, <1>2, SettingsStay
  <1>5. /\ cpc' = [cpc EXCEPT ![r] = where] /\ cpc'[r] = where
        /\ cop' = [cop EXCEPT ![r] = cop'[r]]
        /\ cop'[r].coupon = coupon /\ cop'[r].token = token /\ cop'[r].kind = kind
        /\ cop'[r].type = type
    BY <1>1, <1>2 DEF Arrives, At, PlacesRanged
  <1>6. /\ label' = [label EXCEPT ![r] = label'[r]] /\ label'[r] \in Labels \cup {NoLabel}
        /\ where = "fetch" => label'[r] \in Labels
    <2>1. \A s \in settings : s.label \in Labels
      BY DEF CouponRanges, RowsRanged, SettingRows
    <2>2. CASE where = "count" /\ UNCHANGED label
      BY <1>2, <2>2 DEF PlacesRanged
    <2>3. CASE \E s \in settings : label' = [label EXCEPT ![r] = s.label]
      BY <1>2, <2>1, <2>3 DEF PlacesRanged
    <2> QED BY <1>1, <2>2, <2>3
  <1>7. fetched' = [fetched EXCEPT ![r] = fetched'[r]] /\ fetched'[r] \subseteq GroupRows
    BY <1>2 DEF PlacesRanged
  <1>8. WorkRanged(r)'
    BY <1>1, <1>5, <1>6 DEF WorkRanged
  <1>9. where \in CouponStages
    BY <1>1 DEF CouponStages
  <1> QED BY <1>3, <1>4, <1>5, <1>6, <1>7, <1>8, <1>9, OneRanged DEF CouponRanges

LEMMA CountingRanged ==
    ASSUME CouponRanges, NEW r \in CouponRequests, CountForLabel(r), cop[r].kind # "price"
    PROVE  CouponRanges'
  <1>1. /\ PlacesRanged /\ RowsRanged /\ SettingsCounted /\ cpc[r] = "count" /\ WorkRanged(r)
        /\ UNCHANGED <<groups, closed, coupons, settings, cop, fetched, disturbed, orphaned>>
        /\ At(r, "fetch")
    BY DEF CountForLabel, CouponRanges, PlacesRanged
  <1>2. RowsRanged' /\ ChainRanged' /\ SettingsCounted'
    BY <1>1, SettingsStay DEF CouponRanges, RowsRanged, ChainRanged
  <1>3. /\ cpc' = [cpc EXCEPT ![r] = "fetch"] /\ cpc'[r] = "fetch"
        /\ cop' = [cop EXCEPT ![r] = cop'[r]]
        /\ fetched' = [fetched EXCEPT ![r] = fetched'[r]] /\ fetched'[r] \subseteq GroupRows
    BY <1>1 DEF At, PlacesRanged
  <1>4. PICK k \in Iterations :
          label' = [label EXCEPT ![r] = getCouponLabel(cop[r].type,
                                                       Cardinality(OfType(cop[r].type)), k)]
    <2>1. cop[r].coupon \in CouponIds
      BY <1>1 DEF WorkRanged
    <2>2. 0 \in Iterations /\ Cardinality(OfCoupon(cop[r].coupon)) \in Iterations
      BY <1>1, <2>1, OfCouponCounted, FinishedCounted DEF Iterations
    <2> QED BY <2>2 DEF CountForLabel
  <1>5. /\ label' = [label EXCEPT ![r] = label'[r]] /\ label'[r] \in Labels
    <2>1. cop[r].type \in Types /\ Cardinality(OfType(cop[r].type)) \in Iterations
      BY <1>1, OfTypeCounted DEF WorkRanged
    <2>2. getCouponLabel(cop[r].type, Cardinality(OfType(cop[r].type)), k) \in Labels
      BY <2>1 DEF getCouponLabel, Labels
    <2> QED BY <1>1, <1>4, <2>2 DEF PlacesRanged
  <1>6. WorkRanged(r)'
    BY <1>1, <1>3, <1>5 DEF WorkRanged
  <1>7. "fetch" \in CouponStages
    BY DEF CouponStages
  <1> QED BY <1>2, <1>3, <1>5, <1>6, <1>7, OneRanged DEF CouponRanges

LEMMA FetchingRanged ==
    ASSUME CouponRanges, NEW r \in CouponRequests, FetchGroups(r)
    PROVE  CouponRanges'
  <1>1. /\ PlacesRanged /\ ChainRanged /\ WorkRanged(r) /\ cpc[r] = "fetch"
        /\ UNCHANGED <<groups, closed, coupons, settings, cop, label, disturbed, orphaned>>
    BY DEF FetchGroups, CouponRanges, PlacesRanged
  <1>2. PICK where \in {"send", "done"} :
          At(r, where) /\ (UNCHANGED fetched \/ fetched' = [fetched EXCEPT ![r] = groups])
    BY DEF FetchGroups
  <1>3. RowsRanged' /\ ChainRanged' /\ SettingsCounted'
    BY <1>1, <1>2, SettingsStay DEF CouponRanges, RowsRanged, ChainRanged
  <1>4. /\ cpc' = [cpc EXCEPT ![r] = where] /\ cpc'[r] = where
        /\ cop' = [cop EXCEPT ![r] = cop'[r]]
        /\ label' = [label EXCEPT ![r] = label'[r]] /\ label'[r] \in Labels \cup {NoLabel}
        /\ fetched' = [fetched EXCEPT ![r] = fetched'[r]] /\ fetched'[r] \subseteq GroupRows
    BY <1>1, <1>2 DEF At, PlacesRanged, ChainRanged
  <1>5. WorkRanged(r)'
    BY <1>1, <1>4 DEF WorkRanged
  <1>6. where \in CouponStages
    BY DEF CouponStages
  <1> QED BY <1>3, <1>4, <1>5, <1>6, OneRanged DEF CouponRanges

\* Whatever a request writes to the chain, or fails to, is of a label.
LEMMA SendingRanged ==
    ASSUME CouponRanges, NEW r \in CouponRequests,
           updateCoreCandyMachine(r) \/ UpdateLost(r) \/ RowsLost(r)
    PROVE  CouponRanges'
  <1>1. /\ PlacesRanged /\ ChainRanged /\ WorkRanged(r) /\ cpc[r] \in {"send", "write"}
        /\ UNCHANGED <<closed, coupons, settings, cop, label, fetched>>
    BY DEF updateCoreCandyMachine, UpdateLost, RowsLost, CouponRanges, PlacesRanged
  <1>2. PICK where \in {"write", "done"} : At(r, where)
    BY DEF updateCoreCandyMachine, UpdateLost, RowsLost
  <1>3. label[r] \in Labels /\ fetched[r] \subseteq GroupRows
    BY <1>1 DEF WorkRanged, PlacesRanged
  <1>4. /\ ResolvedGroups(r) \subseteq GroupRows /\ Overwritten(r) \subseteq Labels
    <2>1. Group(label[r], r, cop[r].kind # "price") \in GroupRows
      BY <1>3 DEF Group, GroupRows, Prices
    <2>2. ResolvedGroups(r) \subseteq GroupRows
      BY <1>3, <2>1 DEF ResolvedGroups
    <2>3. \A g \in groups \cup fetched[r] : g.label \in Labels
      BY <1>1, <1>3 DEF GroupRows, ChainRanged
    <2> QED BY <2>2, <2>3 DEF Overwritten
  <1>5. RowsRanged' /\ SettingsCounted'
    BY <1>1, <1>2, SettingsStay DEF CouponRanges, RowsRanged
  <1>6. ChainRanged'
    <2>1. CASE updateCoreCandyMachine(r)
      BY <1>1, <1>4, <2>1 DEF updateCoreCandyMachine, ChainRanged
    <2>2. CASE UpdateLost(r) \/ RowsLost(r)
      BY <1>1, <1>3, <2>2 DEF UpdateLost, RowsLost, ChainRanged
    <2> QED BY <2>1, <2>2
  <1>7. /\ cpc' = [cpc EXCEPT ![r] = where] /\ cpc'[r] = where
        /\ cop' = [cop EXCEPT ![r] = cop'[r]]
        /\ label' = [label EXCEPT ![r] = label'[r]] /\ label'[r] \in Labels \cup {NoLabel}
        /\ fetched' = [fetched EXCEPT ![r] = fetched'[r]] /\ fetched'[r] \subseteq GroupRows
    BY <1>1, <1>2 DEF At, PlacesRanged
  <1>8. WorkRanged(r)'
    BY <1>1, <1>7 DEF WorkRanged
  <1>9. where \in CouponStages
    BY DEF CouponStages
  <1> QED BY <1>5, <1>6, <1>7, <1>8, <1>9, OneRanged DEF CouponRanges

\* A setting is written when its request ends.
LEMMA WritingRanged ==
    ASSUME CouponRanges, NEW r \in CouponRequests, WriteRows(r)
    PROVE  CouponRanges'
  <1>1. /\ PlacesRanged /\ ChainRanged /\ RowsRanged /\ WorkRanged(r)
        /\ cpc[r] = "write" /\ cop[r].kind # "price" /\ At(r, "done")
        /\ UNCHANGED <<groups, closed, cop, label, fetched, disturbed>>
    BY DEF WriteRows, CouponRanges, PlacesRanged
  <1>2. /\ label[r] \in Labels /\ cop[r].coupon \in CouponIds /\ cop[r].token \in Tokens
        /\ cop[r].type \in Types
    BY <1>1 DEF WorkRanged
  <1>3. ChainRanged'
    BY <1>1, <1>2 DEF WriteRows, ChainRanged
  <1>4. \/ UNCHANGED settings /\ UNCHANGED coupons
        \/ /\ settings' = settings \cup {NewSetting(r)}
           /\ coupons' \in {coupons, coupons \cup {[id |-> r, type |-> cop[r].type]}}
    BY DEF WriteRows
  <1>5. RowsRanged'
    <2>1. NewSetting(r) \in SettingRows
      BY <1>2 DEF NewSetting, Setting, SettingRows, Prices
    <2>2. PICK c : c = [id |-> r, type |-> cop[r].type]
      OBVIOUS
    <2>3. c \in [id : CouponIds, type : Types] /\ c.id \in CouponRequests
      BY <1>2, <2>2 DEF CouponIds
    <2> QED BY <1>1, <1>4, <2>1, <2>2, <2>3 DEF RowsRanged
  <1>6. /\ Cardinality(Finished') = Cardinality(Finished) + 1
        /\ Cardinality(Finished') \in Nat
    <2>1. cpc[r] # "done" /\ cpc' = [cpc EXCEPT ![r] = "done"]
      BY <1>1 DEF At
    <2> QED BY <1>1, <2>1, FinishedStays
  <1>7. SettingsCounted'
    <2>1. ASSUME NEW id \in CouponIds
          PROVE  /\ IsFiniteSet(OfCoupon(id)')
                 /\ Cardinality(OfCoupon(id)') <= Cardinality(Finished') + 1
      <3>1. PICK s : s = NewSetting(r)
        OBVIOUS
      <3>2. OfCoupon(id)' = OfCoupon(id) \/ OfCoupon(id)' = OfCoupon(id) \cup {s}
        BY <1>4, <3>1 DEF OfCoupon
      <3>3. IsFiniteSet(OfCoupon(id)) /\ Cardinality(OfCoupon(id)) <= Cardinality(Finished) + 1
            /\ Cardinality(OfCoupon(id)) \in Nat
        BY FS_CardinalityType DEF CouponRanges, SettingsCounted
      <3>4. /\ IsFiniteSet(OfCoupon(id) \cup {s})
            /\ \/ Cardinality(OfCoupon(id) \cup {s}) = Cardinality(OfCoupon(id))
               \/ Cardinality(OfCoupon(id) \cup {s}) = Cardinality(OfCoupon(id)) + 1
        BY <3>3, FS_AddElement
      <3>5. Cardinality(Finished) \in Nat
        BY FinishedCounted
      <3>6. CASE OfCoupon(id)' = OfCoupon(id)
        BY <1>6, <3>3, <3>5, <3>6
      <3>7. CASE OfCoupon(id)' = OfCoupon(id) \cup {s}
        BY <1>6, <3>3, <3>4, <3>5, <3>7
      <3> QED BY <3>2, <3>6, <3>7
    <2> QED BY <2>1 DEF SettingsCounted, CouponIds
  <1>8. /\ cpc' = [cpc EXCEPT ![r] = "done"] /\ cpc'[r] = "done"
        /\ cop' = [cop EXCEPT ![r] = cop'[r]]
        /\ label' = [label EXCEPT ![r] = label'[r]] /\ label'[r] \in Labels \cup {NoLabel}
        /\ fetched' = [fetched EXCEPT ![r] = fetched'[r]] /\ fetched'[r] \subseteq GroupRows
    BY <1>1 DEF At, PlacesRanged
  <1>9. WorkRanged(r)' /\ "done" \in CouponStages
    BY <1>8 DEF WorkRanged, CouponStages
  <1> QED BY <1>3, <1>5, <1>7, <1>8, <1>9, OneRanged DEF CouponRanges

\* A price is written to the settings, which stay as many.
LEMMA PricingRanged ==
    ASSUME CouponRanges, NEW r \in CouponRequests, WritePrice(r)
    PROVE  CouponRanges'
  <1>1. /\ PlacesRanged /\ ChainRanged /\ RowsRanged /\ WorkRanged(r)
        /\ cpc[r] = "write" /\ At(r, "done")
        /\ UNCHANGED <<groups, closed, coupons, cop, label, fetched, orphaned>>
    BY DEF WritePrice, CouponRanges, PlacesRanged
  <1>2. label[r] \in Labels
    BY <1>1 DEF WorkRanged
  <1>3. ChainRanged'
    BY <1>1, <1>2 DEF WritePrice, ChainRanged
  <1>4. PICK f : f = [s \in settings |-> IF s.label = label[r] THEN [s EXCEPT !.price = r] ELSE s]
    OBVIOUS
  <1>5. settings' = {f[s] : s \in settings}
    BY <1>4 DEF WritePrice
  <1>6. \A s \in settings : f[s] \in SettingRows /\ f[s].coupon = s.coupon
    <2> SUFFICES ASSUME NEW s \in settings
                 PROVE  f[s] \in SettingRows /\ f[s].coupon = s.coupon
      OBVIOUS
    <2>1. s \in SettingRows /\ r \in Prices
      BY <1>1 DEF RowsRanged, Prices
    <2> QED BY <1>4, <2>1 DEF SettingRows
  <1>7. RowsRanged'
    BY <1>1, <1>5, <1>6 DEF RowsRanged
  <1>8. /\ Cardinality(Finished) <= Cardinality(Finished') /\ Cardinality(Finished') \in Nat
    <2>1. cpc[r] # "done" /\ cpc' = [cpc EXCEPT ![r] = "done"]
      BY <1>1 DEF At
    <2> QED BY <1>1, <2>1, FinishedStays
  <1>9. SettingsCounted'
    <2>1. ASSUME NEW id \in CouponIds
          PROVE  /\ IsFiniteSet(OfCoupon(id)')
                 /\ Cardinality(OfCoupon(id)') <= Cardinality(Finished') + 1
      <3>1. PICK g : g = [s \in OfCoupon(id) |-> f[s]]
        OBVIOUS
      <3>2. g \in Surjection(OfCoupon(id), OfCoupon(id)')
        <4>1. OfCoupon(id)' = {f[s] : s \in OfCoupon(id)}
          BY <1>5, <1>6 DEF OfCoupon
        <4>2. g \in [OfCoupon(id) -> OfCoupon(id)']
          BY <3>1, <4>1
        <4>3. \A t \in OfCoupon(id)' : \E s \in OfCoupon(id) : g[s] = t
          BY <3>1, <4>1
        <4> QED BY <4>2, <4>3 DEF Surjection
      <3>3. IsFiniteSet(OfCoupon(id)) /\ Cardinality(OfCoupon(id)) <= Cardinality(Finished) + 1
            /\ Cardinality(OfCoupon(id)) \in Nat
        BY FS_CardinalityType DEF CouponRanges, SettingsCounted
      <3>4. IsFiniteSet(OfCoupon(id)') /\ Cardinality(OfCoupon(id)') <= Cardinality(OfCoupon(id))
        BY <3>2, <3>3, FS_Surjection
      <3>5. Cardinality(OfCoupon(id)') \in Nat
        BY <3>4, FS_CardinalityType
      <3> QED BY <1>8, <3>3, <3>4, <3>5, FinishedCounted
    <2> QED BY <2>1 DEF SettingsCounted, CouponIds
  <1>10. /\ cpc' = [cpc EXCEPT ![r] = "done"] /\ cpc'[r] = "done"
         /\ cop' = [cop EXCEPT ![r] = cop'[r]]
         /\ label' = [label EXCEPT ![r] = label'[r]] /\ label'[r] \in Labels \cup {NoLabel}
         /\ fetched' = [fetched EXCEPT ![r] = fetched'[r]] /\ fetched'[r] \subseteq GroupRows
    BY <1>1 DEF At, PlacesRanged
  <1>11. WorkRanged(r)' /\ "done" \in CouponStages
    BY <1>10 DEF WorkRanged, CouponStages
  <1> QED BY <1>3, <1>7, <1>9, <1>10, <1>11, OneRanged DEF CouponRanges

LEMMA ClosingRanged ==
    ASSUME CouponRanges, deleteCoreCandyMachine
    PROVE  CouponRanges'
  <1>1. /\ groups' = {} /\ closed' = TRUE /\ disturbed' = disturbed \cup {g.label : g \in groups}
        /\ UNCHANGED <<coupons, settings, cop, cpc, label, fetched, orphaned>>
    BY DEF deleteCoreCandyMachine
  <1>2. ChainRanged'
    BY <1>1 DEF CouponRanges, ChainRanged, GroupRows
  <1> QED
    BY <1>1, <1>2 DEF CouponRanges, RowsRanged, PlacesRanged, WorkRanged, SettingsCounted, Finished,
       OfCoupon, GroupRows, Labels, Iterations, Prices

LEMMA CouponsStartRanged == CouponsInit => CouponRanges
  <1> SUFFICES ASSUME CouponsInit PROVE CouponRanges
    OBVIOUS
  <1>1. PICK token \in Tokens :
          settings = {Setting(getCouponLabel(t, 0, 0), t, token, First) : t \in Types}
    BY DEF CouponsInit
  <1>2. ASSUME NEW t \in Types
        PROVE  getCouponLabel(t, 0, 0) \in Labels
    BY FinishedCounted DEF getCouponLabel, Labels, Iterations
  <1>3. getCouponsWithLabels \subseteq Labels /\ toUmiGroups \subseteq GroupRows
    <2>1. getCouponsWithLabels \subseteq Labels
      BY <1>2 DEF getCouponsWithLabels
    <2>2. ASSUME NEW l \in getCouponsWithLabels
          PROVE  Group(l, First, TRUE) \in GroupRows
      BY <2>1 DEF Group, GroupRows, Prices
    <2> QED BY <2>1, <2>2 DEF toUmiGroups
  <1>4. ChainRanged
    BY <1>3 DEF CouponsInit, ChainRanged
  <1>5. RowsRanged
    <2>1. settings \subseteq SettingRows
      BY <1>1, <1>2 DEF Setting, SettingRows, CouponIds, Prices
    <2>2. coupons \subseteq [id : CouponIds, type : Types] /\ \A c \in coupons : c.id = c.type
      BY DEF CouponsInit, CouponIds
    <2> QED BY <2>1, <2>2 DEF RowsRanged
  <1>6. PlacesRanged
    BY DEF CouponsInit, PlacesRanged, WorkRanged, CouponStages
  <1>7. ASSUME NEW id \in CouponIds
        PROVE  IsFiniteSet(OfCoupon(id)) /\ Cardinality(OfCoupon(id)) <= Cardinality(Finished) + 1
    <2>1. PICK one : one = Setting(getCouponLabel(id, 0, 0), id, token, First)
      OBVIOUS
    <2>2. OfCoupon(id) \subseteq {one}
      BY <1>1, <2>1 DEF OfCoupon, Setting
    <2>3. IsFiniteSet({one}) /\ Cardinality({one}) = 1
      BY FS_Singleton
    <2>4. IsFiniteSet(OfCoupon(id)) /\ Cardinality(OfCoupon(id)) <= 1
      BY <2>2, <2>3, FS_Subset
    <2> QED BY <2>4, FinishedCounted, FS_CardinalityType
  <1> QED BY <1>4, <1>5, <1>6, <1>7 DEF CouponRanges, SettingsCounted

\* Groups, coupons, settings and labels are well typed: no iteration of a label exceeds the
\* number of requests by more than one.
THEOREM CouponsTypeOKAlways == CouponsSpec => []CouponsTypeOK
  <1>1. CouponsInv /\ CouponRanges /\ CouponsNext => CouponRanges'
    <2> SUFFICES ASSUME CouponsInv, CouponRanges, CouponsNext PROVE CouponRanges'
      OBVIOUS
    <2>1. ASSUME NEW r \in CouponRequests, CountForLabel(r)
          PROVE  cop[r].kind # "price"
      BY <2>1 DEF CountForLabel, CouponsInv, RequestsSound, RequestSound
    <2> QED BY <2>1, ArrivingRanged, CountingRanged, FetchingRanged, SendingRanged, WritingRanged,
               PricingRanged, ClosingRanged DEF CouponsNext
  <1>2. CouponRanges /\ UNCHANGED couponVars => CouponRanges'
    BY DEF couponVars, CouponRanges, ChainRanged, RowsRanged, PlacesRanged, WorkRanged,
       SettingsCounted, Finished, OfCoupon, GroupRows, Labels, Iterations, Prices
  <1>3. CouponRanges => CouponsTypeOK
    BY DEF CouponRanges, ChainRanged, RowsRanged, PlacesRanged, GroupRows, SettingRows, CouponStages,
       CouponsTypeOK
  <1> QED BY <1>1, <1>2, <1>3, CouponsStartRanged, CouponsInvariance, PTL DEF CouponsSpec

-----------------------------------------------------------------------------
(* The numbers of config lines, and what the history of a publication keeps *)

PublicationRanges ==
    /\ metadata \in BOOLEAN
    /\ lines \subseteq ConfigLines /\ flying \subseteq ConfigLines
    /\ index \in [Editors -> {0} \cup (1..Max(Supplies))]
    /\ overlapped \subseteq Editors /\ faulted \subseteq Editors /\ halted \subseteq Editors
    /\ letIn \subseteq Editors /\ late \subseteq letIn /\ renumbered \subseteq Editors
    /\ lost \subseteq Editors \X (1..Max(Supplies))

Above(counts, s) == {t \in counts : t > s}

\* Of a finite set of numbers one is the greatest.
LEMMA Topmost ==
    ASSUME NEW T \in SUBSET Nat, IsFiniteSet(T), T # {}
    PROVE  Max(T) \in T /\ \A y \in T : y <= Max(T)
  <1> DEFINE B == {Above(T, x) : x \in T}
  <1>1. IsWellFoundedOn(StrictSubsetOrdering(T), SUBSET T)
    <2>1. FiniteSubsetsOf(T) = SUBSET T
      BY FS_FiniteSubsetsOfFinite
    <2> QED BY <2>1, FS_StrictSubsetOrderingWellFounded
  <1>2. B \subseteq SUBSET T /\ B # {}
    BY DEF Above
  <1> HIDE DEF B
  <1>3. PICK b \in B : \A a \in B : <<a, b>> \notin StrictSubsetOrdering(T)
    BY <1>1, <1>2, WFMin
  <1>4. PICK x \in T : b = Above(T, x)
    BY DEF B
  <1>5. ASSUME NEW y \in T, y > x PROVE FALSE
    <2>1. Above(T, y) \in B
      BY DEF B
    <2>2. Above(T, y) \subseteq b /\ Above(T, y) # b
      <3>1. \A d \in T : d > y => d > x
        BY <1>5
      <3>2. ~(y > y)
        OBVIOUS
      <3>3. y \in Above(T, x) /\ y \notin Above(T, y)
        BY <1>5, <3>2 DEF Above
      <3> QED BY <1>4, <3>1, <3>3 DEF Above
    <2>3. <<Above(T, y), b>> \in StrictSubsetOrdering(T)
      BY <2>1, <2>2, <1>2 DEF StrictSubsetOrdering
    <2> QED BY <2>1, <2>3, <1>3
  <1>6. \A y \in T : x >= y
    BY <1>5
  <1>7. Max(T) \in T /\ \A y \in T : Max(T) >= y
    BY <1>6 DEF Max
  <1> QED BY <1>7

LEMMA LargestSupply ==
    ASSUME NEW s \in Supplies
    PROVE  /\ Max(Supplies) \in Nat \ {0} /\ s \in Nat \ {0} /\ s <= Max(Supplies)
           /\ 1..s \subseteq 1..Max(Supplies)
  <1>1. Supplies \subseteq Nat \ {0} /\ IsFiniteSet(Supplies) /\ Supplies # {}
    BY PublicationAssumption
  <1>2. Max(Supplies) \in Supplies /\ \A y \in Supplies : y <= Max(Supplies)
    BY <1>1, Topmost
  <1> HIDE DEF Max
  <1>3. Max(Supplies) \in Nat \ {0} /\ s \in Nat \ {0} /\ s <= Max(Supplies)
    BY <1>1, <1>2
  <1> QED BY <1>3

LEMMA OneMore ==
    ASSUME NEW e \in Nat \ {0}, NEW k \in Nat \ {0}, NEW s \in Nat, NEW base \in Nat,
           s <= k, base <= (e - 1) * k
    PROVE  base + s <= e * k
  <1>1. (e - 1) * k + k = e * k
    BY (e - 1) * k = e * k - k
  <1>2. (e - 1) * k \in Int /\ e * k \in Int
    OBVIOUS
  <1> QED BY <1>1, <1>2

LEMMA AtLeastOne ==
    ASSUME NEW e \in Nat \ {0}, NEW k \in Nat \ {0}
    PROVE  k <= e * k
  OBVIOUS

\* The machines a publication found have other requests' addresses: their items and its
\* own fit.
LEMMA NumbersFit ==
    ASSUME PublicationTyped, NEW r \in Editors, NEW found, found \subseteq MachineRows,
           IsFiniteSet(found), \A k \in found : k.address # r, NEW s \in Supplies
    PROVE  /\ Cardinality(Items(found)) \in Nat
           /\ Cardinality(Items(found)) + s <= MaxNumber
           /\ MaxNumber \in Nat
  <1> DEFINE others == Editors \ {r}
             e == Cardinality(Editors)
             k == Max(Supplies)
  <1>1. k \in Nat \ {0} /\ s \in Nat \ {0} /\ s <= k
    BY LargestSupply
  <1>2. /\ IsFiniteSet(Editors) /\ e \in Nat /\ IsFiniteSet(others)
        /\ Cardinality(others) = e - 1 /\ e \in Nat \ {0}
    <2>1. IsFiniteSet(Editors) /\ e \in Nat
      BY PublicationAssumption, FS_CardinalityType
    <2>2. IsFiniteSet(others) /\ Cardinality(others) = e - 1
      BY <2>1, FS_RemoveElement
    <2>3. Cardinality(others) \in Nat
      BY <2>2, FS_CardinalityType
    <2> HIDE DEF e, others
    <2> QED BY <2>1, <2>2, <2>3
  <1>3. Items(found) \subseteq others \X (1..k)
    <2>1. ASSUME NEW m \in found PROVE {m.address} \X MachineLines(m) \subseteq others \X (1..k)
      <3>1. m \in MachineRows /\ m.address # r
        OBVIOUS
      <3>2. m.address \in others /\ m.supply \in Supplies
        BY <3>1 DEF MachineRows
      <3>3. 1..m.supply \subseteq 1..k
        BY <3>2, LargestSupply
      <3> HIDE DEF others, k
      <3> QED BY <3>2, <3>3 DEF MachineLines
    <2> QED BY <2>1 DEF Items
  <1> HIDE DEF others, e, k
  <1>4. IsFiniteSet(others \X (1..k)) /\ Cardinality(others \X (1..k)) = (e - 1) * k
    <2>1. IsFiniteSet(1..k) /\ Cardinality(1..k) = k
      BY ONLY <1>1, UpTo
    <2> QED BY <1>2, <2>1, FS_Product
  <1>5. Cardinality(Items(found)) <= (e - 1) * k /\ Cardinality(Items(found)) \in Nat
    <2>1. Cardinality(Items(found)) <= Cardinality(others \X (1..k))
      BY <1>3, <1>4, FS_Subset
    <2> QED BY <1>4, <2>1, ItemsFinite
  <1>6. Cardinality(Items(found)) + s <= e * k
    BY <1>1, <1>2, <1>5, OneMore
  <1>7. e * k \in Nat
    BY <1>1, <1>2
  <1> QED BY <1>5, <1>6, <1>7 DEF MaxNumber, e, k

\* The lines of one machine, numbered from one, are in range.
LEMMA SuppliesFit ==
    ASSUME NEW s \in Supplies, NEW r \in Editors
    PROVE  1..s \subseteq Numbers
  <1> DEFINE e == Cardinality(Editors)
             k == Max(Supplies)
  <1>1. k \in Nat \ {0} /\ s \in Nat \ {0} /\ s <= k
    BY LargestSupply
  <1>2. e \in Nat \ {0}
    <2>1. IsFiniteSet(Editors) /\ e \in Nat
      BY PublicationAssumption, FS_CardinalityType
    <2>2. Editors # {}
      OBVIOUS
    <2>3. e # 0
      BY <2>1, <2>2, FS_EmptySet
    <2> QED BY <2>1, <2>3
  <1> HIDE DEF e, k
  <1>3. k <= e * k /\ e * k \in Nat
    BY <1>1, <1>2, AtLeastOne
  <1>4. \A i \in 1..s : i \in 1..(e * k)
    BY <1>1, <1>3
  <1> QED BY <1>4 DEF Numbers, MaxNumber, e, k

LEMMA LineInRange ==
    ASSUME NEW a \in Editors, NEW s \in Supplies, NEW i \in 1..s, NEW n \in Numbers
    PROVE  <<a, i, n>> \in ConfigLines
  <1>1. i \in 1..Max(Supplies)
    BY LargestSupply
  <1> HIDE DEF Max
  <1> QED BY <1>1 DEF ConfigLines

\* Who writes a title was let in; nobody else is late.
LEMMA IssueStepRanges ==
    ASSUME PublicationTyped, PublicationRanges, NEW r \in Editors, IssueStep(r)
    PROVE  letIn' \subseteq Editors /\ late' \subseteq letIn'
  <1>1. CASE CheckOnChain(r)
    BY <1>1 DEF CheckOnChain, PublicationRanges
  <1>2. CASE UpdateIssue(r)
    BY <1>2 DEF UpdateIssue, PublicationRanges
  <1>3. CASE UNCHANGED pubHistory
    BY <1>3 DEF pubHistory, PublicationRanges
  <1> QED BY <1>1, <1>2, <1>3 DEF IssueStep, CheckTaken, CreateIssue, CheckPublished,
             PublishOffChain, ReadDate, ToggleDate, CheckDeletable, DeleteIssue, ValidatePublication

LEMMA BatchInsertItemsRanges ==
    ASSUME PublicationTyped, TurnsInv, ItemsInv, PublicationRanges, NEW r \in Editors,
           BatchInsertItems(r)
    PROVE  /\ flying' \subseteq ConfigLines
           /\ index' \in [Editors -> {0} \cup (1..Max(Supplies))]
  <1>1. epc[r] = "items" /\ OnChain(r) /\ eop[r].supply \in Supplies
    BY DEF BatchInsertItems, PublicationTyped, Fits, Underway, OnChain
  <1>2. PICK m \in machines : m.address = r
    BY <1>1 DEF ItemsInv, HasMachine
  <1> DEFINE found == seen[r].machines
             base == seen[r].base
             s == eop[r].supply
  <1>3. \A k \in found : k.address # r
    BY <1>2 DEF TurnsInv, MachineSound
  <1>4. found \subseteq MachineRows /\ IsFiniteSet(found) /\ base = Cardinality(Items(found))
    BY <1>1 DEF PublicationTyped, Reads, TurnsInv, SupplyFound
  <1> HIDE DEF found, base, s
  <1>5. base \in Nat /\ base + s <= MaxNumber /\ MaxNumber \in Nat /\ s \in Supplies
    BY <1>1, <1>3, <1>4, NumbersFit DEF s
  <1>6. s \in Nat \ {0}
    BY <1>5, LargestSupply
  <1>7. ASSUME NEW i \in 1..s PROVE <<r, i, base + i>> \in ConfigLines
    <2>1. base + i \in Numbers
      BY <1>5, <1>6 DEF Numbers
    <2> QED BY <1>5, <2>1, LineInRange
  <1>8. PICK upto \in Batch(r, s) :
          /\ flying' = flying \cup {<<r, i, base + i>> : i \in Batch(r, upto)}
          /\ index' = [index EXCEPT ![r] = upto]
    BY DEF BatchInsertItems, Advances, base, s
  <1>9. upto \in 1..s /\ \A i \in Batch(r, upto) : i \in 1..s
    BY <1>6 DEF ItemsInv, CountsFit, Batch
  <1>10. upto \in 1..Max(Supplies)
    BY <1>5, <1>9, LargestSupply
  <1> HIDE DEF Max
  <1>11. index' \in [Editors -> {0} \cup (1..Max(Supplies))]
    BY <1>8, <1>10 DEF PublicationRanges
  <1> QED BY <1>7, <1>8, <1>9, <1>11 DEF PublicationRanges

LEMMA InsertItemsCommandRanges ==
    ASSUME PublicationTyped, PublicationRanges, NEW r \in Editors, InsertItemsCommand(r)
    PROVE  flying' \subseteq ConfigLines /\ renumbered' \subseteq Editors
  <1>1. CASE UNCHANGED <<flying, renumbered>>
    BY <1>1 DEF PublicationRanges
  <1>2. ASSUME NEW m \in machines, NEW upto \in MachineLines(m),
               flying' = flying \cup {<<m.address, i, i>> : i \in 1..upto},
               renumbered' = renumbered \cup {m.address}
        PROVE  flying' \subseteq ConfigLines /\ renumbered' \subseteq Editors
    <2>1. m.address \in Editors /\ m.supply \in Supplies
      BY DEF PublicationTyped, MachineRows
    <2>2. ASSUME NEW i \in 1..m.supply PROVE <<m.address, i, i>> \in ConfigLines
      <3>1. i \in Numbers
        BY <2>1, SuppliesFit
      <3> QED BY <2>1, <3>1, LineInRange
    <2>3. \A i \in 1..upto : i \in 1..m.supply
      <3>1. m.supply \in Nat
        BY <2>1, PublicationAssumption
      <3>2. upto \in 1..m.supply
        BY DEF MachineLines
      <3> QED BY ONLY <3>1, <3>2
    <2> QED BY <1>2, <2>1, <2>2, <2>3 DEF PublicationRanges
  <1> QED BY <1>1, <1>2 DEF InsertItemsCommand

LEMMA PublishingStepRanges ==
    ASSUME PublicationTyped, TurnsInv, ItemsInv, PublicationRanges, NEW r \in Editors,
           PublishingStep(r)
    PROVE  PublicationRanges'
  <1>1. CASE PublicationThrows(r) \/ MarkPublished(r) \/ CreateCollection(r) \/ CreateMachine(r)
    BY <1>1 DEF PublicationThrows, MarkPublished, CreateCollection, CreateMachine, issueRows,
       itemVars, pubHistory, PublicationRanges
  <1>2. CASE FindCollection(r)
    BY <1>2 DEF FindCollection, issueRows, itemVars, PublicationRanges
  <1>3. CASE FindMetadata(r)
    BY <1>3 DEF FindMetadata, itemVars, pubHistory, PublicationRanges
  <1>4. CASE MetadataFails(r) \/ InsertFails(r)
    BY <1>4 DEF MetadataFails, InsertFails, issueRows, itemVars, PublicationRanges
  <1>5. CASE BatchInsertItems(r)
    <2>1. UNCHANGED <<metadata, lines, overlapped, faulted, halted, letIn, late, renumbered, lost>>
      BY <1>5 DEF BatchInsertItems, issueRows, pubHistory
    <2> QED BY <1>5, <2>1, BatchInsertItemsRanges DEF PublicationRanges
  <1>6. CASE InsertItemsCommand(r)
    <2>1. UNCHANGED <<metadata, lines, index, overlapped, faulted, halted, letIn, late, lost>>
      BY <1>6 DEF InsertItemsCommand, issueRows
    <2> QED BY <1>6, <2>1, InsertItemsCommandRanges DEF PublicationRanges
  <1> QED BY <1>1, <1>2, <1>3, <1>4, <1>5, <1>6 DEF PublishingStep

LEMMA LinesRanges ==
    ASSUME PublicationRanges, NEW l \in flying, ItemsLand(l) \/ ItemsLost(l)
    PROVE  PublicationRanges'
  <1>1. l \in ConfigLines
    BY DEF PublicationRanges
  <1>2. <<l[1], l[2]>> \in Editors \X (1..Max(Supplies))
    BY <1>1 DEF ConfigLines
  <1>3. CASE ItemsLand(l)
    BY <1>1, <1>3 DEF ItemsLand, issueRows, pubHistory, PublicationRanges
  <1>4. CASE ItemsLost(l)
    BY <1>2, <1>4 DEF ItemsLost, issueRows, PublicationRanges
  <1> QED BY <1>3, <1>4

LEMMA PublicationRangesKept ==
    ASSUME PublicationTyped, TurnsInv, ItemsInv, PublicationRanges,
           [PublicationNext]_publicationVars
    PROVE  PublicationRanges'
  <1>1. ASSUME NEW r \in Editors, EditorStep(r) PROVE PublicationRanges'
    <2>1. CASE EditorRequest(r)
      BY <2>1, EditorRequestTyped DEF issueRows, itemVars, pubHistory, PublicationRanges
    <2>2. CASE IssueStep(r)
      BY <2>2, IssueStepWrites, IssueStepRanges DEF PublicationRanges
    <2>3. CASE PublishingStep(r)
      BY <2>3, PublishingStepRanges
    <2> QED BY <1>1, <2>1, <2>2, <2>3, Zenon DEF EditorStep, IssueStep, PublishingStep
  <1>2. CASE UNCHANGED publicationVars
    BY <1>2 DEF publicationVars, PublicationRanges
  <1> QED BY <1>1, <1>2, LinesRanges DEF PublicationNext

\* The issue, its collection and machines, and every config line stay in range: no item's
\* number exceeds the supply of one machine for each request.
THEOREM PublicationTypeOKAlways == PublicationSpec => []PublicationTypeOK
  <1>1. PublicationInit => PublicationRanges
    BY DEF PublicationInit, PublicationRanges
  <1>2. PublicationTyped /\ TurnsInv /\ ItemsInv /\ PublicationRanges /\ [PublicationNext]_publicationVars
          => PublicationRanges'
    BY PublicationRangesKept
  <1>3. PublicationTyped /\ PublicationRanges => PublicationTypeOK
    BY DEF PublicationTyped, PublicationRanges, PublicationTypeOK, IssueRows, CollectionRows,
       MachineRows, EditorOps, EditorKinds
  <1> QED BY <1>1, <1>2, <1>3, PublicationInvariance, PTL DEF PublicationSpec

-----------------------------------------------------------------------------
(* The parts together                                                      *)

recordVars == <<scene, couponVars, nonceVars, subscriptionVars, publicationVars, accountVars,
                syncVars>>

\* A scene takes its part's steps, and the others stay as they are.
LEMMA ScenesApart ==
    ASSUME [MCNext]_recordVars
    PROVE  /\ [CouponsNext]_couponVars /\ [NoncesNext]_nonceVars
           /\ [SubscriptionsNext]_subscriptionVars /\ [PublicationNext]_publicationVars
           /\ [AccountsNext]_accountVars /\ [SyncNext]_syncVars
  <1>1. CASE UNCHANGED recordVars
    BY <1>1, Zenon DEF recordVars
  <1>2. CASE scene = "coupons" /\ CouponsNext
             /\ UNCHANGED <<nonceVars, subscriptionVars, publicationVars, accountVars, syncVars>>
    BY <1>2, Zenon
  <1>3. CASE scene = "nonces" /\ NoncesNext
             /\ UNCHANGED <<couponVars, subscriptionVars, publicationVars, accountVars, syncVars>>
    BY <1>3, Zenon
  <1>4. CASE scene = "addresses" /\ SubscriptionsNext
             /\ UNCHANGED <<couponVars, nonceVars, publicationVars, accountVars, syncVars>>
    BY <1>4, Zenon
  <1>5. CASE scene = "issue" /\ PublicationNext /\ FewItems
             /\ UNCHANGED <<couponVars, nonceVars, subscriptionVars, accountVars, syncVars>>
    BY <1>5, Zenon
  <1>6. CASE scene = "accounts" /\ AccountsNext /\ OneSpelling
             /\ UNCHANGED <<couponVars, nonceVars, subscriptionVars, publicationVars, syncVars>>
    BY <1>6, Zenon
  <1>7. CASE scene = "sync" /\ SyncNext /\ FewSyncs
             /\ UNCHANGED <<couponVars, nonceVars, subscriptionVars, publicationVars, accountVars>>
    BY <1>7, Zenon
  <1> QED BY <1>1, <1>2, <1>3, <1>4, <1>5, <1>6, <1>7, Zenon DEF MCNext

\* Coupons, nonces, the webhook's addresses, an issue's publication, accounts and the sync:
\* in a system of all of them every variable keeps its range, whatever the parts do.
THEOREM RecordsTypeOKAlways == MCSpec => []RecordsTypeOK
  <1>1. MCInit => /\ CouponsInit /\ NoncesInit /\ SubscriptionsInit /\ PublicationInit
                  /\ AccountsInit /\ SyncInit
    BY Zenon DEF MCInit
  <1>2. [MCNext]_recordVars =>
          /\ [CouponsNext]_couponVars /\ [NoncesNext]_nonceVars
          /\ [SubscriptionsNext]_subscriptionVars /\ [PublicationNext]_publicationVars
          /\ [AccountsNext]_accountVars /\ [SyncNext]_syncVars
    BY ScenesApart
  <1>3. MCSpec => /\ CouponsSpec /\ NoncesSpec /\ SubscriptionsSpec /\ PublicationSpec
                  /\ AccountsSpec /\ SyncSpec
    BY <1>1, <1>2, PTL DEF MCSpec, recordVars, CouponsSpec, NoncesSpec, SubscriptionsSpec,
       PublicationSpec, AccountsSpec, SyncSpec
  <1>4. CouponsTypeOK /\ NoncesTypeOK /\ SubscriptionsTypeOK /\ PublicationTypeOK
          /\ AccountsTypeOK /\ SyncTypeOK => RecordsTypeOK
    BY Zenon DEF RecordsTypeOK
  <1> QED BY <1>3, <1>4, CouponsTypeOKAlways, NoncesTypeCorrect, SubscriptionsTypeCorrect,
             PublicationTypeOKAlways, AccountsTypeOKAlways, SyncTypeOKAlways, PTL
=============================================================================
