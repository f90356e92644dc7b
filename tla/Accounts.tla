------------------------------ MODULE Accounts ------------------------------
(***************************************************************************)
(* Users: registration, names and emails, their verification, referrals,   *)
(* the creator's channel, and the interest in one campaign with its own    *)
(* referrals.                                                              *)
(*                                                                         *)
(* An action is the code between two awaits; look-ups a request makes at   *)
(* once are one step.  A name or an email is a word and a spelling, since  *)
(* look-ups ignore case and the unique indexes do not.                     *)
(***************************************************************************)
EXTENDS Integers, FiniteSets, FiniteSetsExt

CONSTANTS
    AccountRequests,    \* bound: the requests of a behaviour
    MaxUsers,           \* bound: ids of users
    Names, Emails,      \* pairs of a word and a spelling
    Allowance,          \* the most referrals the first user has
    Nobody

Users == 1..MaxUsers
FirstUser == 1

ASSUME AccountsAssumption ==
    /\ MaxUsers \in Nat \ {0} /\ Allowance \in Nat
    /\ Nobody \notin Users /\ Nobody \notin Names /\ Nobody \notin Emails
    /\ IsFiniteSet(AccountRequests)

VARIABLES
    account,    \* rows User: the first ids; granted is the allowance it began with
    channels,   \* rows CreatorChannel: [user, number], the number of its handle
    interests,  \* rows UserCampaignInterest: [id, user, referrer]
    links,      \* verification links mailed: [user, email]
    job,        \* what each request does, where it is and what it read: see Job
    proven,     \* history: <<user, email>> whose mailbox answered
    asked,      \* history: <<user, referrer>> of campaign referrals asked for
    twins,      \* history: users named while another took the name
    mistaken,   \* history: users whose email changed under a Google sign-in
    overdrawn   \* history: referrers two referrals of whom overlapped

accountVars == <<account, channels, interests, links, job, proven, asked, twins,
                 mistaken, overdrawn>>

UserRow(name, email, verified, allowance) ==
    [name |-> name, email |-> email, verified |-> verified, referrer |-> Nobody,
     left |-> allowance, granted |-> allowance, role |-> "User"]

\* Its kind, the user it is about or made, the name, email and referrer it was
\* given; the user, the email and the number it read.
Job(stage, kind, user, name, email, ref) ==
    [stage |-> stage, kind |-> kind, user |-> user, name |-> name, email |-> email,
     ref |-> ref, found |-> Nobody, old |-> Nobody, number |-> 0]
Without(stage) == Job(stage, "none", Nobody, Nobody, Nobody, Nobody)

AccountStages == {"idle", "check", "insert", "find", "refer", "emailCheck", "emailWrite",
                  "nameCheck", "nameWrite", "verify", "google", "channel", "role",
                  "interest", "campaign", "done"}

Known == DOMAIN account
ChannelNumbers == 0..Cardinality(AccountRequests)

AccountsTypeOK ==
    /\ Known \in {1..n : n \in Users}
    /\ \A u \in Known :
         account[u] \in [name : Names, email : Emails, verified : BOOLEAN,
                         referrer : Users \cup {Nobody},
                         left : (0 - MaxUsers)..Allowance,
                         granted : 0..Allowance, role : {"User", "Creator"}]
    /\ channels \subseteq [user : Users, number : ChannelNumbers]
    /\ \A i, j \in interests : i.user = j.user \/ i.id = j.id => i = j
    /\ links \subseteq [user : Users, email : Emails]
    /\ \A r \in AccountRequests : job[r].stage \in AccountStages
    /\ proven \subseteq Users \X Emails
    /\ asked \subseteq Users \X Users

AccountsInit ==
    /\ \E n \in Names, e \in Emails, allowance \in 0..Allowance :
         account = [u \in {FirstUser} |-> UserRow(n, e, TRUE, allowance)]
    /\ channels = {} /\ interests = {} /\ links = {}
    /\ job = [r \in AccountRequests |-> Without("idle")]
    /\ proven = {<<FirstUser, account[FirstUser].email>>}
    /\ asked = {} /\ twins = {} /\ mistaken = {} /\ overdrawn = {}

-----------------------------------------------------------------------------
Having(r, j, stage) ==
    job' = [job EXCEPT ![r] = IF stage = "done" THEN Without("done")
                              ELSE [j EXCEPT !.stage = stage]]
Becomes(r, stage) == Having(r, job[r], stage)

Asks(r, kind, user, name, email, ref, stage) ==
    /\ job[r].stage = "idle"
    /\ Having(r, Job("idle", kind, user, name, email, ref), stage)

\* insensitive
insensitive(a, b) == a[1] = b[1]
ByName(name) == {u \in Known : insensitive(account[u].name, name)}
ByEmail(email) == {u \in Known : insensitive(account[u].email, email)}

\* A mutant of NameTaken: spelling counts.
NameTakenExact(name) == \E u \in Known : account[u].name = name

\* throwIfNameTaken, throwIfEmailTaken
NameTaken(name) == ByName(name) # {}
EmailTaken(email) == ByEmail(email) # {}

\* The unique indexes of User.
SameName(name) == \E u \in Known : account[u].name = name
SameEmail(email, but) == \E u \in Known \ {but} : account[u].email = email

asideFromUsers == <<channels, interests>>
histories == <<proven, asked, twins, mistaken, overdrawn>>

-----------------------------------------------------------------------------
(* register                                                                *)

register(r) ==
    \E n \in Names, e \in Emails, ref \in Names \cup {Nobody},
       kind \in {"register", "registerGoogle"} :
        /\ Asks(r, kind, Nobody, n, e, ref, "check")
        /\ UNCHANGED <<account, asideFromUsers, links, histories>>

CheckRegistration(r) ==
    /\ job[r].stage = "check"
    /\ Becomes(r, IF NameTaken(job[r].name) \/ EmailTaken(job[r].email)
                    THEN "done" ELSE "insert")
    /\ UNCHANGED <<account, asideFromUsers, links, histories>>

NextId == Cardinality(Known) + 1

\* Without a password the email is Google's word; the mail has a link.
InsertUser(r) ==
    /\ job[r].stage = "insert" /\ NextId \in Users
    /\ ~SameName(job[r].name) /\ ~SameEmail(job[r].email, Nobody)
    /\ LET google == job[r].kind = "registerGoogle"
       IN  /\ account' = [u \in Known \cup {NextId} |->
                            IF u \in Known THEN account[u]
                            ELSE UserRow(job[r].name, job[r].email, google, 0)]
           /\ proven' = IF google THEN proven \cup {<<NextId, job[r].email>>} ELSE proven
    /\ links' = links \cup {[user |-> NextId, email |-> job[r].email]}
    /\ twins' = IF NameTaken(job[r].name) THEN twins \cup {NextId} ELSE twins
    /\ Having(r, [job[r] EXCEPT !.user = NextId],
              IF job[r].ref = Nobody THEN "done" ELSE "find")
    /\ UNCHANGED <<asideFromUsers, asked, mistaken, overdrawn>>

InsertRefused(r) ==
    /\ job[r].stage = "insert"
    /\ SameName(job[r].name) \/ SameEmail(job[r].email, Nobody)
    /\ Becomes(r, "done")
    /\ UNCHANGED <<account, asideFromUsers, links, histories>>

-----------------------------------------------------------------------------
(* redeemReferral, which register does not wait for                        *)

\* A mutant of FindReferrer: whether any referral is left is not looked at.
FindReferrerEmpty(r) ==
    /\ job[r].stage = "find"
    /\ IF ByName(job[r].ref) = {} THEN Becomes(r, "done")
       ELSE \E u \in ByName(job[r].ref) :
              IF u = job[r].user THEN Becomes(r, "done")
                ELSE Having(r, [job[r] EXCEPT !.found = u, !.number = account[u].left], "refer")
    /\ UNCHANGED <<account, asideFromUsers, links, histories>>

FindReferrer(r) ==
    /\ job[r].stage = "find"
    /\ IF ByName(job[r].ref) = {} THEN Becomes(r, "done")
       ELSE \E u \in ByName(job[r].ref) :
              IF u = job[r].user \/ account[u].left = 0
                THEN Becomes(r, "done")
                ELSE Having(r, [job[r] EXCEPT !.found = u, !.number = account[u].left], "refer")
    /\ UNCHANGED <<account, asideFromUsers, links, histories>>

\* The referee is new, and has not been referred.
ApplyReferral(r) ==
    /\ job[r].stage = "refer"
    /\ LET u == job[r].found IN
         /\ account' = [account EXCEPT ![job[r].user].referrer = u, ![u].left = @ - 1]
         /\ overdrawn' = IF account[u].left < job[r].number THEN overdrawn \cup {u} ELSE overdrawn
    /\ Becomes(r, "done")
    /\ UNCHANGED <<asideFromUsers, links, proven, asked, twins, mistaken>>

-----------------------------------------------------------------------------
(* update                                                                  *)

OrNobody(S) == S \cup {Nobody}

\* findOne, then what is new
update(r) ==
    \E u \in Known, n \in OrNobody(Names), e \in OrNobody(Emails) :
        LET email == IF e = account[u].email THEN Nobody ELSE e
            name == IF n = account[u].name THEN Nobody ELSE n
        IN  /\ email # Nobody \/ name # Nobody
            /\ job[r].stage = "idle"
            /\ Having(r, [Job("idle", "update", u, name, email, Nobody)
                            EXCEPT !.old = account[u].email],
                      IF email # Nobody THEN "emailCheck" ELSE "nameCheck")
            /\ UNCHANGED <<account, asideFromUsers, links, histories>>

\* for update and for verifyEmail
CheckEmail(r) ==
    /\ job[r].stage = "emailCheck"
    /\ Becomes(r, IF EmailTaken(job[r].email) THEN "done"
                  ELSE IF job[r].kind = "update" THEN "emailWrite" ELSE "verify")
    /\ UNCHANGED <<account, asideFromUsers, links, histories>>

\* A mutant of WriteEmail: the new address keeps the old one's verification.
WriteEmailVerified(r) ==
    /\ job[r].stage = "emailWrite"
    /\ LET u == job[r].user IN
         IF SameEmail(job[r].email, u)
           THEN Becomes(r, "done") /\ UNCHANGED <<account, links>>
           ELSE /\ account' = [account EXCEPT ![u].email = job[r].email]
                /\ links' = links \cup {[user |-> u, email |-> job[r].old]}
                /\ Becomes(r, IF job[r].name = Nobody THEN "done" ELSE "nameCheck")
    /\ UNCHANGED <<asideFromUsers, histories>>

\* The mail goes out with the row as it was read.
WriteEmail(r) ==
    /\ job[r].stage = "emailWrite"
    /\ LET u == job[r].user IN
         IF SameEmail(job[r].email, u)
           THEN Becomes(r, "done") /\ UNCHANGED <<account, links>>
           ELSE /\ account' = [account EXCEPT ![u].email = job[r].email,
                                              ![u].verified = FALSE]
                /\ links' = links \cup {[user |-> u, email |-> job[r].old]}
                /\ Becomes(r, IF job[r].name = Nobody THEN "done" ELSE "nameCheck")
    /\ UNCHANGED <<asideFromUsers, histories>>

CheckName(r) ==
    /\ job[r].stage = "nameCheck"
    /\ Becomes(r, IF NameTaken(job[r].name) THEN "done" ELSE "nameWrite")
    /\ UNCHANGED <<account, asideFromUsers, links, histories>>

WriteName(r) ==
    /\ job[r].stage = "nameWrite"
    /\ LET u == job[r].user IN
         IF SameName(job[r].name) /\ account[u].name # job[r].name
           THEN UNCHANGED <<account, twins>>
           ELSE /\ account' = [account EXCEPT ![u].name = job[r].name]
                /\ twins' = IF ByName(job[r].name) \subseteq {u}
                              THEN twins \ {u} ELSE twins \cup {u}
    /\ Becomes(r, "done")
    /\ UNCHANGED <<asideFromUsers, links, proven, asked, mistaken, overdrawn>>

-----------------------------------------------------------------------------
(* Verifying an email                                                      *)

\* requestEmailVerification, and the noon job for users of three days
requestEmailVerification(r) ==
    \E u \in Known :
        /\ ~account[u].verified
        /\ Asks(r, "mail", u, Nobody, account[u].email, Nobody, "done")
        /\ links' = links \cup {[user |-> u, email |-> account[u].email]}
        /\ UNCHANGED <<account, asideFromUsers, histories>>

requestEmailChange(r) ==
    \E u \in Known, e \in Emails :
        /\ e # account[u].email /\ ~EmailTaken(e)
        /\ Asks(r, "mail", u, Nobody, e, Nobody, "done")
        /\ links' = links \cup {[user |-> u, email |-> e]}
        /\ UNCHANGED <<account, asideFromUsers, histories>>

\* A link is followed from the mailbox it was sent to.
verifyEmail(r) ==
    \E l \in links :
        /\ Asks(r, "verify", l.user, Nobody, l.email, Nobody,
                IF account[l.user].email # l.email THEN "emailCheck"
                ELSE IF account[l.user].verified THEN "done" ELSE "verify")
        /\ proven' = proven \cup {<<l.user, l.email>>}
        /\ UNCHANGED <<account, asideFromUsers, links, asked, twins, mistaken, overdrawn>>

WriteVerified(r) ==
    /\ job[r].stage = "verify"
    /\ LET u == job[r].user IN
         account' = IF SameEmail(job[r].email, u) THEN account
                    ELSE [account EXCEPT ![u].email = job[r].email, ![u].verified = TRUE]
    /\ Becomes(r, "done")
    /\ UNCHANGED <<asideFromUsers, links, histories>>

\* handleGoogleSignIn: the user of the email Google vouches for
handleGoogleSignIn(r) ==
    \E e \in Emails : \E u \in ByEmail(e) :
        /\ Asks(r, "google", u, Nobody, account[u].email, Nobody,
                IF account[u].verified THEN "done" ELSE "google")
        /\ proven' = proven \cup {<<u, account[u].email>>}
        /\ UNCHANGED <<account, asideFromUsers, links, asked, twins, mistaken, overdrawn>>

\* The row is written by its id, whatever its email is by now.
WriteGoogle(r) ==
    /\ job[r].stage = "google"
    /\ LET u == job[r].user IN
         /\ account' = [account EXCEPT ![u].verified = TRUE]
         /\ mistaken' = IF account[u].email # job[r].email
                          THEN mistaken \cup {u} ELSE mistaken
    /\ Becomes(r, "done")
    /\ UNCHANGED <<asideFromUsers, links, proven, asked, twins, overdrawn>>

\* processUserEmailVerification of Privy: the email itself names the row.
processUserEmailVerification(r) ==
    \E u \in Known :
        /\ ~account[u].verified
        /\ Asks(r, "privy", u, Nobody, account[u].email, Nobody, "done")
        /\ account' = [account EXCEPT ![u].verified = TRUE]
        /\ proven' = proven \cup {<<u, account[u].email>>}
        /\ UNCHANGED <<asideFromUsers, links, asked, twins, mistaken, overdrawn>>

-----------------------------------------------------------------------------
(* The channel of a creator; all are of one display name.                  *)

TakenNumbers == {c.number : c \in channels}

\* createUniqueHandle: the name itself, or the first free number after it
createUniqueHandle ==
    IF TakenNumbers = {} THEN 0
    ELSE Min({n \in ChannelNumbers \cup {Cardinality(AccountRequests) + 1} :
                n > 0 /\ n \notin TakenNumbers})

createChannel(r) ==
    \E u \in Known :
        /\ \A c \in channels : c.user # u
        /\ job[r].stage = "idle"
        /\ Having(r, [Job("idle", "channel", u, Nobody, Nobody, Nobody)
                        EXCEPT !.number = createUniqueHandle], "channel")
        /\ UNCHANGED <<account, asideFromUsers, links, histories>>

\* The unique indexes of CreatorChannel.
InsertChannel(r) ==
    /\ job[r].stage = "channel"
    /\ IF \E c \in channels : c.user = job[r].user \/ c.number = job[r].number
         THEN Becomes(r, "done") /\ UNCHANGED channels
         ELSE /\ channels' = channels \cup {[user |-> job[r].user,
                                             number |-> job[r].number]}
              /\ Becomes(r, "role")
    /\ UNCHANGED <<account, interests, links, histories>>

WriteRole(r) ==
    /\ job[r].stage = "role"
    /\ account' = [account EXCEPT ![job[r].user].role = "Creator"]
    /\ Becomes(r, "done")
    /\ UNCHANGED <<asideFromUsers, links, histories>>

\* The process stops or the database fails: a second try finds the channel.
RoleLost(r) ==
    /\ job[r].stage = "role"
    /\ Becomes(r, "done")
    /\ UNCHANGED <<account, asideFromUsers, links, proven, asked, twins, mistaken, overdrawn>>

-----------------------------------------------------------------------------
(* Campaign: expressUserInterest, and its redeemReferral                   *)

expressUserInterest(r) ==
    \E u \in Known, ref \in OrNobody(Names) :
        /\ Asks(r, "interest", u, Nobody, Nobody, ref,
                IF ref = Nobody THEN "done" ELSE "interest")
        /\ interests' = IF \E i \in interests : i.user = u THEN interests
                        ELSE interests \cup {[id |-> Cardinality(interests) + 1,
                                              user |-> u, referrer |-> Nobody]}
        /\ UNCHANGED <<account, channels, links, histories>>

FindCampaignReferrer(r) ==
    /\ job[r].stage = "interest"
    /\ \/ /\ ByName(job[r].ref) = {} \/ job[r].user \in ByName(job[r].ref)
          /\ Becomes(r, "done") /\ UNCHANGED asked
       \/ \E u \in ByName(job[r].ref) \ {job[r].user} :
            /\ Having(r, [job[r] EXCEPT !.found = u], "campaign")
            /\ asked' = asked \cup {<<job[r].user, u>>}
    /\ UNCHANGED <<account, asideFromUsers, links, proven, twins, mistaken, overdrawn>>

\* The row is named by the id of the user, and the update throws without one.
ApplyCampaignReferral(r) ==
    /\ job[r].stage = "campaign"
    /\ interests' = {IF i.id = job[r].user THEN [i EXCEPT !.referrer = job[r].found]
                     ELSE i : i \in interests}
    /\ Becomes(r, "done")
    /\ UNCHANGED <<account, channels, links, histories>>

AccountStep(r) ==
    \/ register(r) \/ CheckRegistration(r) \/ InsertUser(r) \/ InsertRefused(r)
    \/ FindReferrer(r) \/ ApplyReferral(r)
    \/ update(r) \/ CheckEmail(r) \/ WriteEmail(r) \/ CheckName(r) \/ WriteName(r)
    \/ requestEmailVerification(r) \/ requestEmailChange(r) \/ verifyEmail(r)
    \/ WriteVerified(r) \/ handleGoogleSignIn(r) \/ WriteGoogle(r)
    \/ processUserEmailVerification(r)
    \/ createChannel(r) \/ InsertChannel(r) \/ WriteRole(r) \/ RoleLost(r)
    \/ expressUserInterest(r) \/ FindCampaignReferrer(r) \/ ApplyCampaignReferral(r)

AccountsNext == \E r \in AccountRequests : AccountStep(r)

AccountsSpec == AccountsInit /\ [][AccountsNext]_accountVars

-----------------------------------------------------------------------------
AccountsIdle == \A r \in AccountRequests : job[r].stage \in {"idle", "done"}

\* Two users have names that differ by more than case, so that a login by name
\* finds its user, unless one was named while a request of another ran.
NamesDistinct ==
    \A u, v \in Known \ twins :
        insensitive(account[u].name, account[v].name) => u = v

\* A verified email is one whose mailbox, or Google or Privy, answered for this
\* user, whatever order changes and links come in, unless the email changed
\* while a Google sign-in was under way.
VerifiedProven ==
    \A u \in Known \ mistaken :
        account[u].verified => <<u, account[u].email>> \in proven

\* What a user has given of the allowance is the users that name it as referrer,
\* and it gives no more than the allowance unless referrals overlapped.
ReferralsCounted ==
    \A u \in Known :
        LET given == account[u].granted - account[u].left
        IN  /\ given = Cardinality({v \in Known : account[v].referrer = u})
            /\ account[u].left >= 0 \/ u \in overdrawn

\* "find the referrer", "if it's all good so far, apply the referral": the
\* referrer of an interest is one its own user named.
InterestReferred ==
    \A i \in interests :
        i.referrer # Nobody => <<i.user, i.referrer>> \in asked
=============================================================================
