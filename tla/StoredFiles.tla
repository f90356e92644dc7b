---------------------------- MODULE StoredFiles ----------------------------
(***************************************************************************)
(* Files of comics, issues, channels, campaigns, slides, genres and users: *)
(* the database row names S3 keys, requests upload new files, rewrite the  *)
(* row and collect the files it named before.                              *)
(*                                                                         *)
(* An action is the code between two awaits.  The key a request uploads    *)
(* for a slot carries a timestamp, so it is the pair <<request, slot>>; an *)
(* object lives in the folder of its slot's row.                           *)
(***************************************************************************)
EXTENDS Integers, FiniteSets

CONSTANTS
    FileRequests,   \* bound: the requests of a behaviour, each served once
    Seed,           \* the request that left the files of the initial state
    NoKey

FieldSlots ==
    {<<"comic", "cover">>, <<"comic", "banner">>, <<"channel", "banner">>,
     <<"channel", "avatar">>, <<"campaign", "cover">>, <<"campaign", "info">>,
     <<"slide", "image">>, <<"genre", "icon">>, <<"user", "avatar">>,
     <<"issue", "pdf">>}
StatelessSlots == {<<"issue", "Common">>, <<"issue", "Rare">>}
StatefulSlots == {<<"issue", "Signed">>}
PageSlots == {<<"issue", "page-1">>, <<"issue", "page-2">>}
Slots == FieldSlots \cup StatelessSlots \cup StatefulSlots \cup PageSlots
Rows == {s[1] : s \in Slots}

Keys == (FileRequests \cup {Seed}) \X Slots

ASSUME FilesAssumption ==
    Seed \notin FileRequests /\ NoKey \notin Keys

VARIABLES
    objects,    \* keys of the bucket
    field,      \* the key each slot of a row names, or NoKey
    rows,       \* rows of the database
    onChain,    \* whether the issue has a collection
    fop,        \* what each request does: see Op
    fpc,        \* where it is
    old,        \* the keys the request read in its row's slots
    done,       \* slots it has uploaded
    spoiled,    \* history: slots a fault or a race left naming a lost file
    leaked      \* history: keys a fault, a race or an omission abandoned

fileVars == <<objects, field, rows, onChain, fop, fpc, old, done, spoiled, leaked>>

Kinds == {"none", "files", "file", "stateless", "replace", "delete",
          "remove", "create", "genre"}

\* kind, row, the slots with a new file, and the covers resent without one
Op(kind, row, new, kept) ==
    [kind |-> kind, row |-> row, new |-> new, kept |-> kept]

NoOp == Op("none", "issue", {}, {})

FilesTypeOK ==
    /\ objects \subseteq Keys
    /\ field \in [Slots -> Keys \cup {NoKey}]
    /\ rows \subseteq Rows
    /\ onChain \in BOOLEAN
    /\ \A r \in FileRequests :
         /\ fop[r].kind \in Kinds /\ fop[r].row \in Rows
         /\ fop[r].new \subseteq Slots /\ fop[r].kept \subseteq StatelessSlots
    /\ fpc \in [FileRequests ->
                  {"idle", "read", "upload", "write", "collect", "rollback",
                   "list", "done"}]
    /\ old \in [FileRequests -> [Slots -> Keys \cup {NoKey}]]
    /\ done \in [FileRequests -> SUBSET Slots]
    /\ spoiled \subseteq Slots
    /\ leaked \subseteq Keys

SeedKey(s) == <<Seed, s>>

\* The issue has no second page yet and the carousel no slide; the genre is there or not.
FilesInit ==
    /\ rows \in {Rows \ {"slide"}, Rows \ {"slide", "genre"}}
    /\ field = [s \in Slots |->
                  IF s[1] \in rows /\ s # <<"issue", "page-2">> THEN SeedKey(s) ELSE NoKey]
    /\ objects = {SeedKey(s) : s \in {t \in Slots : field[t] # NoKey}}
    /\ onChain = FALSE
    /\ fop = [r \in FileRequests |-> NoOp]
    /\ fpc = [r \in FileRequests |-> "idle"]
    /\ old = [r \in FileRequests |-> [s \in Slots |-> NoKey]]
    /\ done = [r \in FileRequests |-> {}]
    /\ spoiled = {} /\ leaked = {}

-----------------------------------------------------------------------------
(* s3.service                                                              *)

SlotsOf(row) == {s \in Slots : s[1] = row}

\* The folder of a comic holds the folders of its issues.
Folder(row) ==
    {k \in objects : \/ k[2][1] = row
                     \/ row = "comic" /\ k[2][1] = "issue"}

Named == {field[s] : s \in {t \in Slots : t[1] \in rows}} \ {NoKey}

garbageCollectNewFiles(new, before) == {k \in new : k # NoKey /\ k \notin before}
garbageCollectOldFiles(new, before) == {k \in before : k # NoKey /\ k \notin new}

NewKeys(r) == {<<r, s>> : s \in done[r]}
ReadKeys(r, slots) == {old[r][s] : s \in slots}

To(r, where) == fpc' = [fpc EXCEPT ![r] = where]

-----------------------------------------------------------------------------
(* Requests: the route's guard, then the row is read                       *)

Request(r, op) ==
    /\ fpc[r] = "idle"
    /\ fop' = [fop EXCEPT ![r] = op]
    /\ To(r, "read")
    /\ UNCHANGED <<objects, field, rows, onChain, old, done, spoiled, leaked>>

SomeOf(slots) == (SUBSET slots) \ {{}}

\* comic.updateFiles, updateFile
ComicUpdateFiles(r) == \E new \in SomeOf(SlotsOf("comic")) :
                         Request(r, Op("files", "comic", new, {}))
ComicUpdateFile(r) == \E s \in SlotsOf("comic") :
                        Request(r, Op("file", "comic", {s}, {}))

\* creator.updateFiles, updateFile
CreatorUpdateFiles(r) == \E new \in SomeOf(SlotsOf("channel")) :
                           Request(r, Op("files", "channel", new, {}))
CreatorUpdateFile(r) == \E s \in SlotsOf("channel") :
                          Request(r, Op("file", "channel", {s}, {}))

\* campaign.updateFiles, updateFile
CampaignUpdateFiles(r) == \E new \in SomeOf(SlotsOf("campaign")) :
                            Request(r, Op("files", "campaign", new, {}))
CampaignUpdateFile(r) == \E s \in SlotsOf("campaign") :
                           Request(r, Op("file", "campaign", {s}, {}))

\* carousel, genre and user updateFile
SlideUpdateFile(r) == Request(r, Op("file", "slide", SlotsOf("slide"), {}))
GenreUpdateFile(r) == Request(r, Op("file", "genre", SlotsOf("genre"), {}))
UserUpdateFile(r) == Request(r, Op("file", "user", SlotsOf("user"), {}))
removeAvatar(r) == Request(r, Op("remove", "user", {}, {}))

\* throwIfComicIsPublishedOnChain, then the row
IssueUpdateFiles(r) ==
    ~onChain /\ Request(r, Op("files", "issue", {<<"issue", "pdf">>}, {}))
IssueUpdateFile(r) ==
    ~onChain /\ Request(r, Op("file", "issue", {<<"issue", "pdf">>}, {}))

\* updateStatelessCovers: a cover may be sent without an image
updateStatelessCovers(r) ==
    \E sent \in SomeOf(StatelessSlots) : \E kept \in SUBSET sent :
        Request(r, Op("stateless", "issue", sent \ kept, kept))

\* updateStatefulCovers, comicPage.updateMany
updateStatefulCovers(r) == Request(r, Op("replace", "issue", StatefulSlots, {}))
updateManyPages(r) == \E new \in SomeOf(PageSlots) :
                        Request(r, Op("replace", "issue", new, {}))

\* delete of an issue, a comic or a genre
DeleteRow(r) == \E row \in {"issue", "comic", "genre"} :
                  Request(r, Op("delete", row, {}, {}))

\* carousel.create: the image is uploaded, then the row is made
CarouselCreate(r) ==
    /\ "slide" \notin rows
    /\ Request(r, Op("create", "slide", SlotsOf("slide"), {}))

\* genre.create: the row is made, then its icon is uploaded and named
GenreCreate(r) ==
    /\ "genre" \notin rows
    /\ Request(r, Op("genre", "genre", SlotsOf("genre"), {}))

\* publishOnChain creates the collection of the issue.
PublishedOnChain ==
    /\ ~onChain /\ "issue" \in rows
    /\ onChain' = TRUE
    /\ UNCHANGED <<objects, field, rows, fop, fpc, old, done, spoiled, leaked>>

-----------------------------------------------------------------------------
(* Reading and uploading                                                   *)

Sent(op) == op.new \cup op.kept

FindRow(r) ==
    /\ fpc[r] = "read"
    /\ fop[r].kind \notin {"delete", "genre"}
    /\ IF fop[r].row \in rows \/ fop[r].kind = "create"
         THEN /\ old' = [old EXCEPT ![r] = field]
              /\ To(r, IF Sent(fop[r]) = {} THEN "write" ELSE "upload")
         ELSE To(r, "done") /\ UNCHANGED old
    /\ UNCHANGED <<objects, field, rows, onChain, fop, done, spoiled, leaked>>

\* The slug of the genre is its key.
InsertGenre(r) ==
    /\ fpc[r] = "read" /\ fop[r].kind = "genre"
    /\ IF "genre" \in rows THEN To(r, "done") /\ UNCHANGED rows
                           ELSE To(r, "upload") /\ rows' = rows \cup {"genre"}
    /\ UNCHANGED <<objects, field, onChain, fop, old, done, spoiled, leaked>>

\* uploadFile; a cover without an image is uploaded too, as an empty object.
uploadFile(r) ==
    /\ fpc[r] = "upload"
    /\ \E s \in Sent(fop[r]) \ done[r] :
         /\ done' = [done EXCEPT ![r] = @ \cup {s}]
         /\ objects' = objects \cup {<<r, s>>}
         /\ leaked' = IF s \in fop[r].kept THEN leaked \cup {<<r, s>>} ELSE leaked
         /\ To(r, IF Sent(fop[r]) = done'[r] THEN "write" ELSE "upload")
    /\ UNCHANGED <<field, rows, onChain, fop, old, spoiled>>

\* A genre loses its row, and nobody names the icon another request gave it.
GenreGone ==
    /\ rows' = rows \ {"genre"}
    /\ field' = [s \in Slots |-> IF s \in SlotsOf("genre") THEN NoKey ELSE field[s]]
Icons == {field[s] : s \in SlotsOf("genre")} \ {NoKey}

\* An upload is refused: updateFiles collects what it uploaded; the covers and
\* pages go up in parallel, and nobody collects those that made it; genre.create
\* deletes the row.
UploadFails(r) ==
    /\ fpc[r] = "upload"
    /\ IF fop[r].kind = "files"
         THEN To(r, "rollback") /\ UNCHANGED <<objects, done, leaked>>
         ELSE \E late \in SUBSET (Sent(fop[r]) \ done[r]) :
                /\ late # Sent(fop[r]) \ done[r]
                /\ done' = [done EXCEPT ![r] = @ \cup late]
                /\ objects' = objects \cup {<<r, s>> : s \in late}
                /\ leaked' = leaked \cup {<<r, s>> : s \in done'[r]}
                                     \cup IF fop[r].kind = "genre" THEN Icons ELSE {}
                /\ To(r, "done")
    /\ IF fop[r].kind = "genre" THEN GenreGone ELSE UNCHANGED <<rows, field>>
    /\ UNCHANGED <<onChain, fop, old, spoiled>>

-----------------------------------------------------------------------------
(* Writing the row                                                         *)

\* The slots a write sets or clears, and what it leaves in them.
Rewritten(op) ==
    CASE op.kind = "stateless" -> StatelessSlots
      [] op.kind = "replace" /\ op.new \subseteq PageSlots -> PageSlots
      [] op.kind = "remove" -> SlotsOf("user")
      [] OTHER -> op.new

Written(r) ==
    [s \in Slots |->
       IF s \notin Rewritten(fop[r]) THEN field[s]
       ELSE IF s \in fop[r].new THEN <<r, s>>
       ELSE IF s \in fop[r].kept THEN old[r][s]
       ELSE NoKey]

\* A mutant of Collected: the old covers go whether or not one was sent.
CollectedAll(r) ==
    IF fop[r].kind = "genre" THEN {}
    ELSE garbageCollectOldFiles({}, ReadKeys(r, Rewritten(fop[r])))

\* What the request collects once the row is written.
Collected(r) ==
    CASE fop[r].kind = "stateless" ->
           garbageCollectOldFiles({}, ReadKeys(r, fop[r].new))
      [] fop[r].kind = "replace" ->
           garbageCollectOldFiles({}, ReadKeys(r, Rewritten(fop[r])))
      [] fop[r].kind = "genre" -> {}
      [] OTHER -> garbageCollectOldFiles(NewKeys(r), ReadKeys(r, Rewritten(fop[r])))

\* No old image to keep: the request stops before the write.
KeepsNothing(r) == \E s \in fop[r].kept : old[r][s] = NoKey

\* Covers are created without deleting any when none was found, and meet the
\* unique pair of issue and rarity of those created meanwhile.
CoversTaken(r) ==
    /\ fop[r].kind = "stateless"
    /\ \A s \in StatelessSlots : old[r][s] = NoKey
    /\ \E s \in Sent(fop[r]) : field[s] # NoKey

\* Slots another request rewrote since this one read them, and covers whose
\* rarity is not sent any more: nobody collects the file they name.
Overtaken(r) == {s \in Rewritten(fop[r]) : field[s] # old[r][s]}
Dropped(op) == IF op.kind = "stateless" THEN StatelessSlots \ Sent(op) ELSE {}

WriteRow(r) ==
    /\ fpc[r] = "write"
    /\ fop[r].row \in rows /\ fop[r].kind # "create"
    /\ ~KeepsNothing(r) /\ ~CoversTaken(r)
    /\ field' = Written(r)
    /\ spoiled' = (spoiled \ Rewritten(fop[r]))
                    \cup {s \in fop[r].kept : field[s] # old[r][s] \/ s \in spoiled}
    /\ leaked' = leaked \cup
         ({field[s] : s \in Overtaken(r) \cup Dropped(fop[r])} \ {NoKey})
    /\ To(r, IF Collected(r) = {} THEN "done" ELSE "collect")
    /\ UNCHANGED <<objects, rows, onChain, fop, old, done>>

\* The row is gone or refuses: updateFiles and create leave their new files.
WriteFails(r) ==
    /\ fpc[r] = "write"
    /\ fop[r].kind # "create"
    /\ fop[r].row \notin rows \/ KeepsNothing(r) \/ CoversTaken(r)
    /\ IF fop[r].kind \in {"files", "remove", "genre"} \/ KeepsNothing(r)
         THEN leaked' = leaked \cup NewKeys(r) /\ To(r, "done")
         ELSE To(r, "rollback") /\ UNCHANGED leaked
    /\ UNCHANGED <<objects, field, rows, onChain, fop, old, done, spoiled>>

\* carousel.create: the insert succeeds or is refused for its data.
CreateSlide(r) ==
    /\ fpc[r] = "write" /\ fop[r].kind = "create"
    /\ \/ /\ "slide" \notin rows
          /\ rows' = rows \cup {"slide"} /\ field' = Written(r)
          /\ UNCHANGED leaked
       \/ leaked' = leaked \cup NewKeys(r) /\ UNCHANGED <<rows, field>>
    /\ To(r, "done")
    /\ UNCHANGED <<objects, onChain, fop, old, done, spoiled>>

-----------------------------------------------------------------------------
(* Collecting                                                              *)

CollectOld(r) ==
    /\ fpc[r] = "collect"
    /\ objects' = objects \ Collected(r)
    /\ To(r, "done")
    /\ UNCHANGED <<field, rows, onChain, fop, old, done, spoiled, leaked>>

\* S3 refuses the deletion.  The issue's updateFile does it inside its try: its
\* handler then deletes the new file, which the row already names.
CollectFails(r) ==
    /\ fpc[r] = "collect"
    /\ \E left \in SomeOf(Collected(r)) :
         /\ leaked' = leaked \cup left
         /\ objects' = objects \ (Collected(r) \ left)
    /\ IF fop[r].kind = "file" /\ fop[r].row = "issue"
         THEN /\ To(r, "rollback")
              /\ spoiled' = spoiled \cup {s \in fop[r].new : field[s] = <<r, s>>}
         ELSE To(r, "done") /\ UNCHANGED spoiled
    /\ UNCHANGED <<field, rows, onChain, fop, old, done>>

\* garbageCollectNewFile(s), or deleteObjects of the covers sent with an image
CollectNew(r) ==
    /\ fpc[r] = "rollback"
    /\ objects' = objects \ {k \in NewKeys(r) : k[2] \in fop[r].new}
    /\ To(r, "done")
    /\ UNCHANGED <<field, rows, onChain, fop, old, done, spoiled, leaked>>

RollbackFails(r) ==
    /\ fpc[r] = "rollback"
    /\ \E left \in SomeOf(NewKeys(r)) :
         /\ leaked' = leaked \cup left
         /\ objects' = objects \ (NewKeys(r) \ left)
    /\ To(r, "done")
    /\ UNCHANGED <<field, rows, onChain, fop, old, done, spoiled>>

-----------------------------------------------------------------------------
(* Deleting a row, and the issues of a comic with it; then the folder is   *)
(* listed and swept.                                                       *)

Deleted(row) == IF row = "comic" THEN {"comic", "issue"} ELSE {row}

\* What is published, or a genre in use, is refused; a collection refuses the
\* deletion of its issue, and so of the comic.  The genre's delete names the
\* slug instead of the icon.
DeleteRefused(r) ==
    /\ fpc[r] = "read" /\ fop[r].kind = "delete"
    /\ To(r, "done")
    /\ UNCHANGED <<objects, field, rows, onChain, fop, old, done, spoiled, leaked>>

DeleteFromTable(r) ==
    /\ fpc[r] = "read" /\ fop[r].kind = "delete"
    /\ fop[r].row \in rows
    /\ ~(onChain /\ "issue" \in Deleted(fop[r].row))
    /\ rows' = rows \ Deleted(fop[r].row)
    /\ field' = [s \in Slots |-> IF s[1] \in rows' THEN field[s] ELSE NoKey]
    /\ spoiled' = {s \in spoiled : s[1] \in rows'}
    /\ leaked' = leaked \cup IF fop[r].row = "genre" THEN Icons ELSE {}
    /\ To(r, IF fop[r].row = "genre" THEN "done" ELSE "list")
    /\ UNCHANGED <<objects, onChain, fop, old, done>>

\* deleteFolder: a request that still writes to the folder is not seen.
deleteFolder(r) ==
    /\ fpc[r] = "list"
    /\ objects' = objects \ Folder(fop[r].row)
    /\ To(r, "done")
    /\ UNCHANGED <<field, rows, onChain, fop, old, done, spoiled, leaked>>

DeleteFolderFails(r) ==
    /\ fpc[r] = "list"
    /\ leaked' = leaked \cup Folder(fop[r].row)
    /\ To(r, "done")
    /\ UNCHANGED <<objects, field, rows, onChain, fop, old, done, spoiled>>

FilesStart(r) ==
    \/ ComicUpdateFiles(r) \/ ComicUpdateFile(r)
    \/ CreatorUpdateFiles(r) \/ CreatorUpdateFile(r)
    \/ CampaignUpdateFiles(r) \/ CampaignUpdateFile(r)
    \/ SlideUpdateFile(r) \/ GenreUpdateFile(r) \/ UserUpdateFile(r)
    \/ removeAvatar(r) \/ IssueUpdateFiles(r) \/ IssueUpdateFile(r)
    \/ updateStatelessCovers(r) \/ updateStatefulCovers(r)
    \/ updateManyPages(r) \/ DeleteRow(r) \/ CarouselCreate(r) \/ GenreCreate(r)

FilesStep(r) ==
    \/ FindRow(r) \/ InsertGenre(r) \/ uploadFile(r) \/ UploadFails(r)
    \/ WriteRow(r) \/ WriteFails(r) \/ CreateSlide(r)
    \/ CollectOld(r) \/ CollectFails(r) \/ CollectNew(r) \/ RollbackFails(r)
    \/ DeleteRefused(r) \/ DeleteFromTable(r) \/ deleteFolder(r) \/ DeleteFolderFails(r)

FilesNext ==
    \/ \E r \in FileRequests : FilesStart(r) \/ FilesStep(r)
    \/ PublishedOnChain

FilesSpec == FilesInit /\ [][FilesNext]_fileVars

-----------------------------------------------------------------------------
\* Every file a row names is in the bucket, whatever requests overlap and
\* whichever fail, but for a cover kept from a read that was already stale and
\* for a pdf whose predecessor S3 would not delete.
NamesStored ==
    \A s \in Slots \ spoiled :
        s[1] \in rows /\ field[s] # NoKey => field[s] \in objects

\* When no request is in flight, a file nobody names was abandoned by a fault, a
\* race or an omission that the actions name; all the others were collected.
OrphansExplained ==
    (\A r \in FileRequests : fpc[r] \in {"idle", "done"})
        => objects \subseteq Named \cup leaked

\* The rows and the bucket agree: every file a row names is there, and of the others
\* only those a fault, a race or an omission left, whatever requests of creators
\* replace and delete the files of a row at once.
FilesAgree == NamesStored /\ OrphansExplained
=============================================================================
