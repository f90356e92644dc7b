------------------------------- MODULE Shelf -------------------------------
(***************************************************************************)
(* What readers are shown: the lists and pages of comics, issues, channels, *)
(* genres and slides, the cache of answers before them, and the writers    *)
(* that drop keys of that cache.                                           *)
(*                                                                         *)
(* A request looks its key up, reads rows, and stores its answer, in three *)
(* steps.  A writer changes the row, lists the keys and deletes those that *)
(* match one by one.  Whoever read before the write may store after the    *)
(* deletion.                                                               *)
(***************************************************************************)
EXTENDS Integers, FiniteSets

CONSTANTS
    ShelfRequests,  \* bound: the requests of a behaviour
    NoEntry         \* a key that is not in the cache

ASSUME ShelfAssumption == NoEntry \notin BOOLEAN /\ IsFiniteSet(ShelfRequests)

VARIABLES
    shelf,      \* bound: the kind of row the requests of a behaviour are about
    row,        \* that row: dates verifiedAt and publishedAt, deletedAt or expiredAt
    edition,    \* history: writes of the row so far
    around,     \* other rows an answer is made of: see Around
    cache,      \* the cached answer of each key: see Entry
    settled,    \* history: the last write whose deletion of a key's pattern ended
    asking        \* where each request is and what it read: see Asking

shelfVars == <<shelf, row, edition, around, cache, settled, asking>>

Shelves == {"comic", "issue", "channel", "genre", "slide"}

\* The forms of a url: a list with and without a query string, a page, a search ...
Forms == {"query", "plain", "public", "raw", "search", "one", "rawOne", "owned", "bookmarked"}
FormsOf ==
    [comic |-> {"query", "raw", "search", "one", "rawOne", "owned", "bookmarked"},
     issue |-> {"query", "public", "raw", "search", "one", "rawOne", "owned"},
     channel |-> {"query", "raw", "search", "one", "rawOne"},
     genre |-> {"query", "plain", "one"},
     slide |-> {"query", "plain", "one"}]

\* The routes that CacheInterceptor stands before
CachedForms ==
    [comic |-> {"query"}, issue |-> {"query", "public"}, channel |-> {},
     genre |-> {"query", "plain"}, slide |-> {"query", "plain"}]

-----------------------------------------------------------------------------
(* Answers                                                                 *)

Row == [verified : BOOLEAN, published : BOOLEAN, gone : BOOLEAN]

\* The issues of the comic, or channel, that are shown; whether the row is what the
\* reader searches and filters for, owns or bookmarked; whether the issue has covers,
\* is free, on chain, and the coupons of its machine; what the slide shows, and
\* whether that is a month old.
Around ==
    [shown : 0..1, chosen : BOOLEAN, owned : BOOLEAN, bookmarked : BOOLEAN,
     covered : BOOLEAN, free : BOOLEAN, onChain : BOOLEAN,
     sale : {"none", "upcoming", "open", "undated"},
     about : {"link", "comic", "channel", "issue"}, recent : BOOLEAN]

\* The row, with what is counted beside it; no row.
Told(beside) == {[edition |-> edition, beside |-> beside]}
ToldIf(shown, beside) == IF shown THEN Told(beside) ELSE {}

\* Comics
InComics == row.verified /\ row.published /\ around.chosen
InRawComics == around.chosen
ComicStats == around.shown
ComicList == ToldIf(InComics, around.shown)
RawComicList == ToldIf(InRawComics, around.shown)
ComicSearch == ToldIf(around.chosen, around.shown)
ComicPage == Told(ComicStats)
RawComicPage == Told(ComicStats)
OwnedComics == ToldIf(around.owned, around.shown)
FavoriteComics == ToldIf(around.bookmarked, around.shown)

ComicAnswer(form) ==
    CASE form = "query" -> ComicList
      [] form = "raw" -> RawComicList
      [] form = "search" -> ComicSearch
      [] form = "one" -> ComicPage
      [] form = "rawOne" -> RawComicPage
      [] form = "owned" -> OwnedComics
      [] OTHER -> FavoriteComics

\* Issues.  The list joins the covers; the comic of an issue may be hidden.
InIssues == row.published /\ row.verified /\ around.covered /\ around.chosen
InRawIssues == around.chosen
\* The price of an issue is that of its machine, else the lowest listing's.
Price == IF around.sale # "none" THEN "mint" ELSE "floor"
ActiveMachine == around.sale # "none"
CollectibleInfo == IF around.onChain THEN {ActiveMachine} ELSE {}
IssueStats == <<around.shown, Price>>
IssueList == ToldIf(InIssues, IssueStats)
RawIssueList == ToldIf(InRawIssues, around.covered)
IssuePublic == Told(<<0, CollectibleInfo>>)
IssueSearch == ToldIf(around.chosen, around.covered)
IssuePage == Told(<<IssueStats, CollectibleInfo>>)
RawIssuePage == Told(IssueStats)
OwnedIssues == ToldIf(around.owned, around.covered)

IssueAnswer(form) ==
    CASE form = "query" -> IssueList
      [] form = "public" -> IssuePublic
      [] form = "raw" -> RawIssueList
      [] form = "search" -> IssueSearch
      [] form = "one" -> IssuePage
      [] form = "rawOne" -> RawIssuePage
      [] OTHER -> OwnedIssues

\* Channels; verified stands for the channel and for its user's address.
InChannels == ~row.gone /\ row.verified /\ around.chosen
ChannelStats == around.shown
ChannelList == ToldIf(InChannels, 0)
ChannelSearch == ToldIf(around.chosen, around.shown)
ChannelPage == Told(ChannelStats)
RawChannels == ToldIf(around.chosen, 0)

ChannelAnswer(form) ==
    CASE form = "query" -> ChannelList
      [] form = "search" -> ChannelSearch
      [] form = "one" -> ChannelPage
      [] form = "raw" -> RawChannels
      [] OTHER -> Told(0)

InGenres == ~row.gone
GenreAnswer == ToldIf(InGenres, 0)

\* The tags of a slide.  An issue neither free nor on chain has no machine to read
\* the coupons of, and the list of all slides fails.
ComicTags == {"explore"} \cup IF around.recent THEN {"newComic"} ELSE {}
ChannelTags == {"explore"} \cup IF around.recent THEN {"newCreator"} ELSE {}
IssueTags ==
    IF ~around.onChain /\ around.free THEN {"free", "explore"}
    ELSE IF around.onChain /\ ~ActiveMachine THEN {"sold", "tensor"}
    ELSE IF around.sale = "undated" THEN {}
    ELSE {"launchpad", IF around.sale = "upcoming" THEN "upcomingMint" ELSE "minting"}
TagsFail == around.about = "issue" /\ ~around.onChain /\ ~around.free

Tags ==
    CASE around.about = "link" -> {"highlighted", "explore"}
      [] around.about = "comic" -> ComicTags
      [] around.about = "channel" -> ChannelTags
      [] around.about = "issue" -> IssueTags

InSlides == row.published /\ ~row.gone
SlideList == ToldIf(InSlides, Tags)

SlideAnswer(form) == IF form = "one" THEN Told({}) ELSE SlideList

Answer(form) ==
    CASE shelf = "comic" -> ComicAnswer(form)
      [] shelf = "issue" -> IssueAnswer(form)
      [] shelf = "channel" -> ChannelAnswer(form)
      [] shelf = "genre" -> GenreAnswer
      [] shelf = "slide" -> SlideAnswer(form)

AnswerFails(form) ==
    \/ shelf = "slide" /\ form # "one" /\ InSlides /\ TagsFail
    \/ shelf = "genre" /\ form = "one" /\ row.gone

-----------------------------------------------------------------------------
(* Writers: what each changes in the row, and the keys it drops            *)

Writer(column, drops) == [column |-> column, drops |-> drops]

\* publish and toggleDate; toggles read the date first.  Other columns: "rest"
ComicWriters ==
    {Writer("publish", {"query"}), Writer("verified", {"query"}),
     Writer("published", {"query"}), Writer("rest", {})}
\* An update drops the key of the page, a toggle the keys of lists.
IssueWriters ==
    {Writer("rest", {"public"}), Writer("verified", {"query"}),
     Writer("published", {"query"}), Writer("publish", {})}
\* A channel's keys are dropped only if it is verified then.
ChannelWriters ==
    {Writer("verified", {"query"}), Writer("rest", {}), Writer("delete", {}),
     Writer("recover", {})}
GenreWriters ==
    {Writer("rest", {"query"}), Writer("file", {}), Writer("delete", {})}
SlideWriters ==
    {Writer("rest", {"query"}), Writer("file", {}), Writer("delete", {})}

WritersOf ==
    [comic |-> ComicWriters, issue |-> IssueWriters, channel |-> ChannelWriters,
     genre |-> GenreWriters, slide |-> SlideWriters]

ToggledColumns == {"verified", "published"}

\* A toggle writes the other value than the one it read.
NewRow(column, read) ==
    CASE column = "verified" -> [row EXCEPT !.verified = ~read.verified]
      [] column = "published" -> [row EXCEPT !.published = ~read.published]
      [] column = "publish" -> [row EXCEPT !.published = TRUE]
      [] column = "delete" -> [row EXCEPT !.gone = TRUE]
      [] column = "recover" -> [row EXCEPT !.gone = FALSE]
      [] OTHER -> row

-----------------------------------------------------------------------------
\* A cached answer, the edition it was read from, and whether the row had been
\* written again before the answer was stored
Entry(q) == [answer |-> q.answer, seen |-> q.seen, late |-> q.seen # edition]

Asking(stage, form, writer) ==
    [stage |-> stage, form |-> form, writer |-> writer, read |-> row, seen |-> edition,
     answer |-> {}, keys |-> {}]
NoWriter == Writer("rest", {})
Unasked == [Asking("done", "query", NoWriter) EXCEPT !.seen = 0, !.read =
               [verified |-> FALSE, published |-> FALSE, gone |-> FALSE]]

ShelfStages == {"idle", "lookup", "handle", "store", "read", "write", "list", "delete", "done"}

ShelfTypeOK ==
    /\ shelf \in Shelves /\ row \in Row /\ around \in Around
    /\ edition \in 0..Cardinality(ShelfRequests)
    /\ \A f \in Forms : /\ cache[f] = NoEntry \/ (cache[f].late \in BOOLEAN
                                                   /\ cache[f].seen \in 0..edition)
                        /\ settled[f] \in 0..edition
    /\ \A r \in ShelfRequests :
         /\ asking[r].stage \in ShelfStages /\ asking[r].form \in Forms
         /\ asking[r].keys \subseteq Forms /\ asking[r].seen \in 0..edition
         /\ asking[r].stage # "store" => asking[r].answer = {}

ShelfInit ==
    /\ shelf \in Shelves
    /\ row \in [verified : BOOLEAN, published : BOOLEAN, gone : {FALSE}]
    /\ shelf \in {"genre", "slide"} => row.verified /\ row.published
    /\ edition = 0
    /\ around \in Around
    /\ cache = [f \in Forms |-> NoEntry] /\ settled = [f \in Forms |-> 0]
    /\ asking = [r \in ShelfRequests |-> [Unasked EXCEPT !.stage = "idle"]]

Is(r, stage) == asking[r].stage = stage
Move(r, q, stage) ==
    asking' = [asking EXCEPT ![r] = IF stage = "done" THEN Unasked ELSE [q EXCEPT !.stage = stage]]

\* The interceptor stands before some routes; a search is let by.
request(r) ==
    /\ Is(r, "idle")
    /\ \/ \E form \in FormsOf[shelf] :
            Move(r, Asking("idle", form, NoWriter),
                 IF form \in CachedForms[shelf] THEN "lookup" ELSE "handle")
       \/ \E w \in WritersOf[shelf] :
            Move(r, Asking("idle", "query", w), IF w.column \in ToggledColumns THEN "read" ELSE "write")
    /\ UNCHANGED <<shelf, row, edition, around, cache, settled>>

intercept(r) ==
    /\ Is(r, "lookup")
    /\ Move(r, asking[r], IF cache[asking[r].form] # NoEntry THEN "done" ELSE "handle")
    /\ UNCHANGED <<shelf, row, edition, around, cache, settled>>

\* An error is passed on, and nothing stored.
handle(r) ==
    LET form == asking[r].form IN
    /\ Is(r, "handle")
    /\ Move(r, [asking[r] EXCEPT !.seen = edition, !.answer = Answer(form)],
            IF form \in CachedForms[shelf] /\ ~AnswerFails(form) THEN "store" ELSE "done")
    /\ UNCHANGED <<shelf, row, edition, around, cache, settled>>

store(r) ==
    /\ Is(r, "store")
    /\ cache' = [cache EXCEPT ![asking[r].form] = Entry(asking[r])]
    /\ Move(r, asking[r], "done")
    /\ UNCHANGED <<shelf, row, edition, around, settled>>

\* A key is kept for a time.
expire(form) ==
    /\ cache[form] # NoEntry
    /\ cache' = [cache EXCEPT ![form] = NoEntry]
    /\ UNCHANGED <<shelf, row, edition, around, settled, asking>>

toggleRead(r) ==
    /\ Is(r, "read")
    /\ Move(r, [asking[r] EXCEPT !.read = row], "write")
    /\ UNCHANGED <<shelf, row, edition, around, cache, settled>>

write(r) ==
    LET w == asking[r].writer
        new == NewRow(w.column, asking[r].read)
        drops == w.drops # {} /\ (shelf = "channel" => new.verified)
    IN  /\ Is(r, "write")
        /\ row' = new /\ edition' = edition + 1
        /\ Move(r, [asking[r] EXCEPT !.seen = edition'], IF drops THEN "list" ELSE "done")
        /\ UNCHANGED <<shelf, around, cache, settled>>

\* A mutant of MatchingKeys: the path alone, which an exact key has.
MatchingKeysExact(drops) == {f \in drops \ {"query"} : cache[f] # NoEntry}

\* deleteByPattern: '/comic/get?' is part of the keys with a query string only.
MatchingKeys(drops) == {f \in drops : cache[f] # NoEntry}

listKeys(r) ==
    LET keys == MatchingKeys(asking[r].writer.drops) IN
    /\ Is(r, "list")
    /\ Move(r, [asking[r] EXCEPT !.keys = keys], "delete")
    /\ UNCHANGED <<shelf, row, edition, around, cache, settled>>

\* The keys of one form go one by one, which is one step here.
deleteKeys(r) ==
    LET q == asking[r] IN
    /\ Is(r, "delete")
    /\ cache' = [f \in Forms |-> IF f \in q.keys THEN NoEntry ELSE cache[f]]
    /\ settled' = [f \in Forms |-> IF f \in q.writer.drops /\ settled[f] < q.seen
                                   THEN q.seen ELSE settled[f]]
    /\ Move(r, q, "done")
    /\ UNCHANGED <<shelf, row, edition, around>>

\* An administrator empties the cache.
reset ==
    /\ \E f \in Forms : cache[f] # NoEntry
    /\ cache' = [f \in Forms |-> NoEntry]
    /\ UNCHANGED <<shelf, row, edition, around, settled, asking>>

ShelfStep(r) ==
    \/ request(r) \/ intercept(r) \/ handle(r) \/ store(r)
    \/ toggleRead(r) \/ write(r) \/ listKeys(r) \/ deleteKeys(r)

ShelfNext ==
    \/ \E r \in ShelfRequests : ShelfStep(r)
    \/ \E form \in Forms : expire(form)
    \/ reset

ShelfSpec == ShelfInit /\ [][ShelfNext]_shelfVars

-----------------------------------------------------------------------------
\* Once a writer that drops a key has returned, no answer from before its write is
\* served from that key, and while no other writes it is the answer the rows give now:
\* nothing hidden by that write is shown.  But for an answer on its way when the row
\* was written, which is stored after the deletion and kept its full time.
AnswersFresh ==
    \A f \in Forms : cache[f] # NoEntry /\ ~cache[f].late =>
        /\ cache[f].seen >= settled[f]
        /\ settled[f] = edition => cache[f].answer = Answer(f)
=============================================================================
