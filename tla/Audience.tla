------------------------------ MODULE Audience ------------------------------
(***************************************************************************)
(* What readers do with the issues and the comic of a creator, kept as     *)
(* dates in rows, and the nightly snapshots that count them.               *)
(*                                                                         *)
(* A day has two moments: midnight, which is even, and the rest of it.  An *)
(* upsert is built with the time of that moment and reaches the database   *)
(* later; the rows of a snapshot are written without waiting.              *)
(***************************************************************************)
EXTENDS Integers, FiniteSets, FiniteSetsExt

CONSTANTS
    Readers, Issues,    \* of one comic of one verified creator
    AudienceRequests,   \* bound: the requests of a behaviour
    Takes,              \* bound: the snapshots taken, nightly or by an admin
    Days                \* bound: the midnights, the first of which starts

ASSUME AudienceAssumption ==
    /\ Days \in Nat \ {0} /\ "comic" \notin Issues
    /\ IsFiniteSet(Readers) /\ IsFiniteSet(Issues)

VARIABLES
    moment,     \* the time
    dates,      \* columns of dates of UserComicIssue, UserComic, UserCreator
    issueUsers, \* rows UserComicIssue: <<reader, issue>>
    pending,    \* the upserts each request has not finished: see Upserts
    take,       \* what each snapshot is about, where it is, what it has added up
    issueSnapshots, comicSnapshots, creatorSnapshots,   \* rows of each kind
    sold,       \* receipts of the comic's candy machine: moments of the first day
    counted,    \* history: [take, day, date counted: reader, what, at]
    tardy        \* history: <<reader, what, at>> written after its day was counted

audienceVars == <<moment, dates, issueUsers, pending, take, issueSnapshots, comicSnapshots,
                  creatorSnapshots, sold, counted, tardy>>
readerVars == <<moment, dates, issueUsers, pending, tardy>>
rowVars == <<issueSnapshots, comicSnapshots, creatorSnapshots>>

Never == -1
Day == 2
FirstMoment == Day
Moments == FirstMoment..(Day * Days)
startOfDay(t) == t - (t % Day)
Midnights == {startOfDay(t) : t \in Moments}

\* gt: lastSnapshotMidnight, lte: snapshotMidnight
OfDay(t, midnight) == midnight - Day < t /\ t <= midnight

Comic == "comic"
Channel == "channel"
OfIssue == Issues \X {"viewed", "read", "favourited"}
OfComic == {Comic} \X {"viewed", "favourited", "bookmarked"}
Followed == <<Channel, "followed">>
Dated == OfIssue \cup OfComic \cup {Followed}
Toggled == {d \in Dated : d[2] \in {"favourited", "bookmarked", "followed"}}

NoUpsert == {}
Upsert(reader, what, at) == [reader |-> reader, what |-> what, at |-> at]

\* What a snapshot was asked for, its day and that of its data, what is left to
\* count and the sums so far
Take(stage, date, day, dataDay, left, lost) ==
    [stage |-> stage, date |-> date, day |-> day, dataDay |-> dataDay, left |-> left,
     followers |-> 0, likes |-> 0, readers |-> 0, views |-> 0, lost |-> lost]
Done(t, lost) == Take("done", Never, t.day, t.dataDay, {}, lost)

CountRange == 0..(Cardinality(Readers) * (Cardinality(Issues) + 1))

AudienceTypeOK ==
    /\ moment \in Moments
    /\ dates \in [Readers \X Dated -> Moments \cup {Never}]
    /\ issueUsers \subseteq Readers \X Issues
    /\ \A r \in AudienceRequests : \A w \in pending[r].upserts :
         w.reader \in Readers /\ w.at \in Moments \cup {Never}
    /\ \A s \in Takes :
         /\ take[s].stage \in {"idle", "creators", "counting", "done"}
         /\ {take[s].followers, take[s].likes, take[s].readers, take[s].views} \subseteq CountRange
         /\ {take[s].day, take[s].dataDay} \subseteq Midnights \cup {Never}
    /\ \A x \in creatorSnapshots : x.day \in Midnights /\ x.like \in CountRange
    /\ sold \subseteq Moments

AudienceInit ==
    /\ moment = FirstMoment
    /\ \E liked \in SUBSET (Readers \X Toggled) :
         /\ dates = [x \in Readers \X Dated |-> IF x \in liked THEN FirstMoment ELSE Never]
         /\ issueUsers = {<<x[1], x[2][1]>> : x \in {y \in liked : y[2] \in OfIssue}}
    /\ pending = [r \in AudienceRequests |-> [served |-> FALSE, upserts |-> NoUpsert]]
    /\ take = [s \in Takes |-> Take("idle", Never, Never, Never, {}, FALSE)]
    /\ issueSnapshots = {} /\ comicSnapshots = {} /\ creatorSnapshots = {}
    /\ sold \in SUBSET {FirstMoment} /\ counted = {} /\ tardy = {}

Tick ==
    /\ moment + 1 \in Moments
    /\ moment' = moment + 1
    /\ UNCHANGED <<dates, issueUsers, pending, take, rowVars, sold, counted, tardy>>

-----------------------------------------------------------------------------
(* Readers                                                                 *)

Asked(r, upserts) ==
    /\ ~pending[r].served
    /\ pending' = [pending EXCEPT ![r] = [served |-> TRUE, upserts |-> upserts]]
    /\ UNCHANGED <<moment, dates, issueUsers, take, rowVars, sold, counted, tardy>>

\* A mutant of toggleDate: a date is removed by the epoch, not by null.
toggleDateEpoch(u, d) == Upsert(u, d, IF dates[<<u, d>>] # Never THEN 0 ELSE moment)

\* A date there is removed, otherwise a new date is added, by what this look-up saw.
toggleDate(u, d) == Upsert(u, d, IF dates[<<u, d>>] # Never THEN Never ELSE moment)

favourite(r) ==
    \E u \in Readers, i \in Issues : Asked(r, {toggleDate(u, <<i, "favourited">>)})
favouritise(r) == \E u \in Readers : Asked(r, {toggleDate(u, <<Comic, "favourited">>)})
bookmark(r) == \E u \in Readers : Asked(r, {toggleDate(u, <<Comic, "bookmarked">>)})
follow(r) == \E u \in Readers : Asked(r, {toggleDate(u, Followed)})

\* getUserStats, when a comic is opened
getUserStats(r) ==
    \E u \in Readers : Asked(r, {Upsert(u, <<Comic, "viewed">>, moment)})

\* getAndUpdateUserStats, when an issue is opened
Opening(u, i) == Upsert(u, <<i, "opened">>, moment)
getAndUpdateUserStats(r) ==
    \E u \in Readers, i \in Issues : Asked(r, {Opening(u, i)})

\* getPages: the two upserts at once
getPages(r) ==
    \E u \in Readers, i \in Issues :
        Asked(r, {Opening(u, i), Upsert(u, <<i, "read">>, moment)})

\* rate, which dates nothing and may make the row
rate(r) ==
    \E u \in Readers, i \in Issues : Asked(r, {Upsert(u, <<i, "rated">>, moment)})
rateComic(r) == \E u \in Readers : Asked(r, {Upsert(u, <<Comic, "rated">>, moment)})

WriteDate(u, d, at) ==
    /\ dates' = [dates EXCEPT ![<<u, d>>] = at]
    /\ tardy' = IF \E s \in Takes : take[s].stage # "idle" /\ OfDay(at, take[s].day)
                 THEN tardy \cup {<<u, d, at>>} ELSE tardy

Settled(r, w, next) == pending' = [pending EXCEPT ![r].upserts = (@ \ {w}) \cup next]
RowOf(u, d) == IF d[1] \in Issues THEN issueUsers \cup {<<u, d[1]>>} ELSE issueUsers

Write(r) ==
    \E w \in pending[r].upserts :
        /\ w.what \in Dated
        /\ WriteDate(w.reader, w.what, w.at)
        /\ issueUsers' = RowOf(w.reader, w.what)
        /\ Settled(r, w, NoUpsert)
        /\ UNCHANGED <<moment, take, rowVars, sold, counted>>

\* The first opening dates the view, a later one the reading; then the comic is
\* viewed.
WriteOpening(r) ==
    \E w \in pending[r].upserts :
        /\ w.what[2] = "opened"
        /\ LET i == w.what[1]
               opened == <<w.reader, i>> \in issueUsers
           IN  WriteDate(w.reader, <<i, IF opened THEN "read" ELSE "viewed">>, w.at)
        /\ issueUsers' = RowOf(w.reader, w.what)
        /\ Settled(r, w, {Upsert(w.reader, <<Comic, "viewed">>, moment)})
        /\ UNCHANGED <<moment, take, rowVars, sold, counted>>

WriteRating(r) ==
    \E w \in pending[r].upserts :
        /\ w.what[2] = "rated"
        /\ issueUsers' = RowOf(w.reader, w.what)
        /\ Settled(r, w, NoUpsert)
        /\ UNCHANGED <<moment, dates, take, rowVars, sold, counted, tardy>>

\* Of two upserts that insert one row the database may refuse one.
WriteRefused(r) ==
    \E w \in pending[r].upserts :
        /\ Settled(r, w, NoUpsert)
        /\ UNCHANGED <<moment, dates, issueUsers, take, rowVars, sold, counted, tardy>>

-----------------------------------------------------------------------------
(* The snapshot of a day                                                   *)

\* date || new Date(), which each part works out for itself
DayOf(s) == startOfDay(IF take[s].date # Never THEN take[s].date ELSE moment)

\* A mutant of CountedBy: lt in place of lte
CountedByBefore(what, midnight) ==
    {u \in Readers : dates[<<u, what>>] < midnight /\ OfDay(dates[<<u, what>>], midnight)}

CountedBy(what, midnight) == {u \in Readers : OfDay(dates[<<u, what>>], midnight)}
CountOf(what, midnight) == Cardinality(CountedBy(what, midnight))
Noted(s, whats, midnight) ==
    counted' = counted \cup
      UNION {{[take |-> s, day |-> midnight, reader |-> u, what |-> d, at |-> dates[<<u, d>>]] :
                u \in CountedBy(d, midnight)} : d \in whats}

\* The job at midnight gives no date; an admin may give any.  Bound: one after
\* another, as two do not read what the other writes.
Noons == {t \in Moments : t # startOfDay(t)}
snapshot(s) ==
    /\ take[s].stage = "idle"
    /\ \A t \in Takes : take[t].stage \in {"idle", "done"}
    /\ \E date \in {Never} \cup Noons :
         take' = [take EXCEPT ![s] =
           Take("creators", date, startOfDay(IF date # Never THEN date ELSE moment),
                Never, Issues \cup {Comic}, FALSE)]
    /\ UNCHANGED <<readerVars, rowVars, sold, counted>>

\* Next the creator: its followers, and the day of its issues and its comic, which
\* are looked up first.
StartCreator(s) ==
    /\ take[s].stage = "creators"
    /\ take' = [take EXCEPT ![s] =
         [@ EXCEPT !.stage = "counting", !.dataDay = DayOf(s),
                   !.followers = CountOf(Followed, take[s].day)]]
    /\ Noted(s, {Followed}, take[s].day)
    /\ UNCHANGED <<readerVars, rowVars, sold>>

\* Its rows are written without waiting, and may be lost.  Bound: those of one
\* statement are.
MayLose == IF \E s \in Takes : take[s].lost THEN {FALSE} ELSE BOOLEAN

Added(s, part, likes, readers, views, lost) ==
    LET t == take[s]
    IN  take' = [take EXCEPT ![s] =
          [t EXCEPT !.left = t.left \ {part}, !.likes = t.likes + likes,
                    !.readers = t.readers + readers, !.views = t.views + views,
                    !.lost = t.lost \/ lost]]

\* getComicIssueData, one issue after another
getComicIssueData(s) ==
    /\ take[s].stage = "counting"
    /\ \E i \in take[s].left \cap Issues, lost \in MayLose :
         LET day == take[s].dataDay
             row == [take |-> s, issue |-> i, day |-> day,
                     like |-> CountOf(<<i, "favourited">>, day),
                     reader |-> CountOf(<<i, "read">>, day),
                     view |-> CountOf(<<i, "viewed">>, day)]
         IN  /\ Added(s, i, row.like, row.reader, row.view, lost)
             /\ issueSnapshots' = IF lost THEN issueSnapshots ELSE issueSnapshots \cup {row}
             /\ Noted(s, {i} \X {"favourited", "read", "viewed"}, day)
    /\ UNCHANGED <<readerVars, comicSnapshots, creatorSnapshots, sold>>

getComicData(s) ==
    /\ take[s].stage = "counting" /\ Comic \in take[s].left
    /\ \E lost \in MayLose :
         LET day == take[s].dataDay
             row == [take |-> s, day |-> day,
                     like |-> CountOf(<<Comic, "favourited">>, day),
                     bookmark |-> CountOf(<<Comic, "bookmarked">>, day),
                     view |-> CountOf(<<Comic, "viewed">>, day)]
         IN  /\ Added(s, Comic, row.like, 0, row.view, lost)
             /\ comicSnapshots' = IF lost THEN comicSnapshots ELSE comicSnapshots \cup {row}
             /\ Noted(s, OfComic, day)
    /\ UNCHANGED <<readerVars, issueSnapshots, creatorSnapshots, sold>>

\* Nothing writes deletedAt of a candy machine, and in SQL no comparison holds of
\* a column that is null.
DeletedAt == Never
DeletedSince(t) == DeletedAt # Never /\ DeletedAt >= t

getPrimarySale(day) ==
    IF DeletedSince(day - Day) THEN Cardinality({t \in sold : OfDay(t, day)}) ELSE 0

CreatorRow(s) ==
    [take |-> s, day |-> take[s].day, follower |-> take[s].followers,
     like |-> take[s].likes, reader |-> take[s].readers, view |-> take[s].views,
     sale |-> getPrimarySale(DayOf(s))]

WriteCreator(s) ==
    /\ take[s].stage = "counting" /\ take[s].left = {}
    /\ \E lost \in MayLose :
         /\ creatorSnapshots' = IF lost THEN creatorSnapshots
                                ELSE creatorSnapshots \cup {CreatorRow(s)}
         /\ take' = [take EXCEPT ![s] = Done(@, @.lost \/ lost)]
    /\ UNCHANGED <<readerVars, issueSnapshots, comicSnapshots, sold, counted>>

\* A look-up fails or the process stops: nothing takes the day up again.
TakeFails(s) ==
    /\ take[s].stage \in {"creators", "counting"} /\ TRUE \in MayLose
    /\ take' = [take EXCEPT ![s] = Done(@, TRUE)]
    /\ UNCHANGED <<readerVars, rowVars, sold, counted>>

RequestStep(r) ==
    \/ favourite(r) \/ favouritise(r) \/ bookmark(r) \/ follow(r)
    \/ getUserStats(r) \/ getAndUpdateUserStats(r) \/ getPages(r)
    \/ rate(r) \/ rateComic(r)
    \/ Write(r) \/ WriteOpening(r) \/ WriteRating(r) \/ WriteRefused(r)

TakeStep(s) ==
    \/ snapshot(s) \/ StartCreator(s)
    \/ getComicIssueData(s) \/ getComicData(s) \/ WriteCreator(s) \/ TakeFails(s)

AudienceNext ==
    \/ Tick
    \/ \E r \in AudienceRequests : RequestStep(r)
    \/ \E s \in Takes : TakeStep(s)

AudienceSpec == AudienceInit /\ [][AudienceNext]_audienceVars

-----------------------------------------------------------------------------
Crossed(s) == take[s].dataDay # take[s].day

\* What a reader did counts for one day only, and for the day it was done: a date
\* of a day that was counted is in the count, unless it was written later.
DaysCounted ==
    /\ \A c, e \in counted :
         c.reader = e.reader /\ c.what = e.what /\ c.at = e.at => c.day = e.day
    /\ \A s \in Takes : take[s].stage = "done" /\ ~take[s].lost /\ ~Crossed(s) =>
         \A u \in Readers, d \in Dated :
           OfDay(dates[<<u, d>>], take[s].day) /\ <<u, d, dates[<<u, d>>]>> \notin tardy =>
             \E c \in counted : /\ c.take = s /\ c.reader = u /\ c.what = d
                                /\ c.at = dates[<<u, d>>]
=============================================================================
