------------------------------ MODULE Coupons ------------------------------
(***************************************************************************)
(* The coupons of one candy machine.  Each currency of a coupon is a guard *)
(* group on chain, under a label, and a row of settings under the same     *)
(* label.  An administrator adds coupons and currencies over HTTP; the     *)
(* update-cm-group-price and delete-candy-machine commands run beside it.  *)
(* Every change fetches all the groups and writes all of them back.        *)
(*                                                                         *)
(* An action is the code between two awaits.  The price a request sets is  *)
(* told apart by the request that set it.                                  *)
(***************************************************************************)
EXTENDS Integers, FiniteSets, FiniteSetsExt

CONSTANTS
    CouponRequests,     \* bound: the requests of a behaviour
    Types,              \* coupon types used
    Tokens,             \* supported SPL tokens
    First               \* who set the prices of the machine's creation

ASSUME CouponsAssumption ==
    First \notin CouponRequests /\ Types # {} /\ IsFiniteSet(CouponRequests)

VARIABLES
    groups,     \* guard groups on chain: [label, price, capped]
    closed,     \* the candy machine was deleted from the chain
    coupons,    \* rows CandyMachineCoupon: [id, type]
    settings,   \* rows CandyMachineCouponCurrencySetting
    cop,        \* what each request does
    cpc,        \* where it is
    label,      \* the label it works on
    fetched,    \* the groups it fetched
    disturbed,  \* history: labels whose group a failed or a stale write touched
    orphaned    \* history: labels whose group was written and its row was not

couponVars == <<groups, closed, coupons, settings, cop, cpc, label, fetched,
                disturbed, orphaned>>

\* Labels are <<type, iteration, currency iteration>>; a request raises one of
\* the two iterations by one, so the sum is bounded by their number.
Iterations == 0..(Cardinality(CouponRequests) + 1)
Labels == Types \X Iterations \X Iterations
NoLabel == <<>>

\* getCouponLabel
getCouponLabel(type, iteration, currencyIteration) ==
    <<type, iteration, currencyIteration>>

Group(l, price, capped) == [label |-> l, price |-> price, capped |-> capped]
Setting(l, coupon, token, price) ==
    [label |-> l, coupon |-> coupon, token |-> token, price |-> price]

Prices == CouponRequests \cup {First}
CouponIds == CouponRequests \cup Types   \* the first coupons are one per type

CouponsTypeOK ==
    /\ groups \subseteq [label : Labels, price : Prices, capped : BOOLEAN]
    /\ closed \in BOOLEAN
    /\ coupons \subseteq [id : CouponIds, type : Types]
    /\ settings \subseteq [label : Labels, coupon : CouponIds, token : Tokens,
                           price : Prices]
    /\ cpc \in [CouponRequests ->
                  {"idle", "count", "fetch", "send", "write", "done"}]
    /\ label \in [CouponRequests -> Labels \cup {NoLabel}]
    /\ fetched \in [CouponRequests ->
                      SUBSET [label : Labels, price : Prices, capped : BOOLEAN]]
    /\ disturbed \subseteq Labels /\ orphaned \subseteq Labels

-----------------------------------------------------------------------------
(* createCoreCandyMachine: its rows come with the machine; the transaction *)
(* that sets the groups may fail, and the failure is only logged.          *)

\* getCouponsWithLabels: with one coupon of each type and one currency each,
\* both iterations count down to zero.
getCouponsWithLabels == {getCouponLabel(t, 0, 0) : t \in Types}

\* toUmiGroups
toUmiGroups == {Group(l, First, TRUE) : l \in getCouponsWithLabels}

NoWork == [kind |-> "none", type |-> "", coupon |-> "", token |-> ""]

CouponsInit ==
    /\ \/ groups = toUmiGroups /\ disturbed = {}
       \/ groups = {} /\ disturbed = getCouponsWithLabels
    /\ closed = FALSE
    /\ coupons = {[id |-> t, type |-> t] : t \in Types}
    /\ \E token \in Tokens :
         settings = {Setting(getCouponLabel(t, 0, 0), t, token, First) : t \in Types}
    /\ cop = [r \in CouponRequests |-> NoWork]
    /\ cpc = [r \in CouponRequests |-> "idle"]
    /\ label = [r \in CouponRequests |-> NoLabel]
    /\ fetched = [r \in CouponRequests |-> {}]
    /\ orphaned = {}

-----------------------------------------------------------------------------
At(r, where) == cpc' = [cpc EXCEPT ![r] = where]

Arrives(r, kind, type, coupon, token) ==
    /\ cpc[r] = "idle"
    /\ cop' = [cop EXCEPT ![r] = [kind |-> kind, type |-> type,
                                  coupon |-> coupon, token |-> token]]
    /\ UNCHANGED <<groups, closed, coupons, settings, fetched, disturbed, orphaned>>

\* addCandyMachineCoupon
addCandyMachineCoupon(r) ==
    \E t \in Types, token \in Tokens :
        /\ Arrives(r, "coupon", t, r, token)
        /\ At(r, "count") /\ UNCHANGED label

\* addCandyMachineCouponCurrency: the coupon is found first
addCandyMachineCouponCurrency(r) ==
    \E c \in coupons, token \in Tokens :
        /\ Arrives(r, "currency", c.type, c.id, token)
        /\ At(r, "count") /\ UNCHANGED label

\* updatePrice of the update-cm-group-price command; the operator names a label
\* and the token of its coupon
updatePrice(r) ==
    \E s \in settings :
        /\ Arrives(r, "price", "", s.coupon, s.token)
        /\ label' = [label EXCEPT ![r] = s.label]
        /\ At(r, "fetch")

OfType(t) == {c \in coupons : c.type = t}
OfCoupon(id) == {s \in settings : s.coupon = id}

\* A coupon is numbered after those of its type; a currency after those of its
\* coupon, next to the number of coupons of the type.
CountForLabel(r) ==
    /\ cpc[r] = "count"
    /\ LET n == Cardinality(OfType(cop[r].type))
           k == IF cop[r].kind = "coupon" THEN 0
                ELSE Cardinality(OfCoupon(cop[r].coupon))
       IN  label' = [label EXCEPT ![r] = getCouponLabel(cop[r].type, n, k)]
    /\ At(r, "fetch")
    /\ UNCHANGED <<groups, closed, coupons, settings, cop, fetched, disturbed, orphaned>>

\* fetchCandyGuard; addCoreCandyMachineGroupOnChain refuses a label in use
FetchGroups(r) ==
    /\ cpc[r] = "fetch"
    /\ IF closed \/ (cop[r].kind # "price" /\ \E g \in groups : g.label = label[r])
         THEN At(r, "done") /\ UNCHANGED fetched
         ELSE At(r, "send") /\ fetched' = [fetched EXCEPT ![r] = groups]
    /\ UNCHANGED <<groups, closed, coupons, settings, cop, label, disturbed, orphaned>>

\* Mutant: the write sends the changed group alone.
ResolvedGroupsOwn(r) == {Group(label[r], r, cop[r].kind # "price")}

\* A new group is capped by redeemedAmount; the price command leaves the cap out.
ResolvedGroups(r) ==
    {g \in fetched[r] : g.label # label[r]}
        \cup {Group(label[r], r, cop[r].kind # "price")}

\* What the write undoes because it was not there when the groups were fetched.
Overwritten(r) == {g.label : g \in (groups \ fetched[r]) \cup (fetched[r] \ groups)}

\* updateCoreCandyMachine: the transaction lands ...
updateCoreCandyMachine(r) ==
    /\ cpc[r] = "send"
    /\ ~closed
    /\ groups' = ResolvedGroups(r)
    /\ disturbed' = disturbed \cup Overwritten(r)
    /\ At(r, "write")
    /\ UNCHANGED <<closed, coupons, settings, cop, label, fetched, orphaned>>

\* ... or does not, and the failure is only logged
UpdateLost(r) ==
    /\ cpc[r] = "send"
    /\ disturbed' = disturbed \cup {label[r]}
    /\ At(r, "write")
    /\ UNCHANGED <<groups, closed, coupons, settings, cop, label, fetched, orphaned>>

\* The unique pairs (label, machine) and (token, coupon).
SettingTaken(r) ==
    \E s \in settings : \/ s.label = label[r]
                        \/ s.coupon = cop[r].coupon /\ s.token = cop[r].token

\* Mutant: the coupon and the token swapped.
NewSettingSwapped(r) == Setting(label[r], cop[r].token, cop[r].coupon, r)

NewSetting(r) == Setting(label[r], cop[r].coupon, cop[r].token, r)

WriteRows(r) ==
    /\ cpc[r] = "write" /\ cop[r].kind # "price"
    /\ IF SettingTaken(r)
         THEN /\ orphaned' = orphaned \cup {label[r]}
              /\ UNCHANGED <<coupons, settings>>
         ELSE /\ settings' = settings \cup {NewSetting(r)}
              /\ coupons' = IF cop[r].kind = "coupon"
                              THEN coupons \cup {[id |-> r, type |-> cop[r].type]}
                              ELSE coupons
              /\ UNCHANGED orphaned
    /\ At(r, "done")
    /\ UNCHANGED <<groups, closed, cop, label, fetched, disturbed>>

\* The row's price is written over that of a command that reached the chain
\* later.
WritePrice(r) ==
    /\ cpc[r] = "write" /\ cop[r].kind = "price"
    /\ settings' = {IF s.label = label[r] THEN [s EXCEPT !.price = r] ELSE s
                      : s \in settings}
    /\ disturbed' = IF \E g \in groups : g.label = label[r] /\ g.price # r
                      THEN disturbed \cup {label[r]} ELSE disturbed
    /\ At(r, "done")
    /\ UNCHANGED <<groups, closed, coupons, cop, label, fetched, orphaned>>

\* The process or the database fails between the chain and the rows.
RowsLost(r) ==
    /\ cpc[r] = "write"
    /\ IF cop[r].kind = "price"
         THEN disturbed' = disturbed \cup {label[r]} /\ UNCHANGED orphaned
         ELSE orphaned' = orphaned \cup {label[r]} /\ UNCHANGED disturbed
    /\ At(r, "done")
    /\ UNCHANGED <<groups, closed, coupons, settings, cop, label, fetched>>

\* deleteCandyMachine: the machine and its guard leave the chain, the rows stay.
deleteCoreCandyMachine ==
    /\ ~closed
    /\ closed' = TRUE /\ groups' = {}
    /\ disturbed' = disturbed \cup {g.label : g \in groups}
    /\ UNCHANGED <<coupons, settings, cop, cpc, label, fetched, orphaned>>

CouponsNext ==
    \/ \E r \in CouponRequests :
         \/ addCandyMachineCoupon(r) \/ addCandyMachineCouponCurrency(r)
         \/ updatePrice(r) \/ CountForLabel(r) \/ FetchGroups(r)
         \/ updateCoreCandyMachine(r) \/ UpdateLost(r)
         \/ WriteRows(r) \/ WritePrice(r) \/ RowsLost(r)
    \/ deleteCoreCandyMachine

CouponsSpec == CouponsInit /\ [][CouponsNext]_couponVars

-----------------------------------------------------------------------------
CouponsIdle == \A r \in CouponRequests : cpc[r] \in {"idle", "done"}

\* With no change under way, coupons and groups agree.  Each setting's label has one
\* group, at its price, so that a buyer is shown what the chain charges, unless a
\* write to that label failed, was made from groups fetched too early, or reached the
\* row after a later one had reached the chain; and a group nobody can choose, for
\* want of a row under its label, is left by a failure between the chain and the
\* database.
GroupsAgree ==
    CouponsIdle =>
        /\ \A s \in settings :
             \/ s.label \in disturbed
             \/ {g \in groups : g.label = s.label} \in
                   {{Group(s.label, s.price, c)} : c \in BOOLEAN}
        /\ \A g \in groups :
             g.label \in orphaned \/ \E s \in settings : s.label = g.label
=============================================================================
