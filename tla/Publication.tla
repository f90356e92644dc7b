---------------------------- MODULE Publication ----------------------------
(***************************************************************************)
(* One comic issue from its creation to its candy machines: creating,      *)
(* editing, publishing off and on chain, again and again, deleting, and    *)
(* the insert-items command.  Publishing on chain makes the collection, a  *)
(* machine, the metadata of its items and the items, with a row after each.*)
(*                                                                         *)
(* An action is the code between two awaits.  The id and the title of an   *)
(* issue are the request that set them, a machine's address the            *)
(* publication that made it.  Nonces and the webhook's list have modules   *)
(* of their own; here taking a nonce is a way for a step to fail.          *)
(***************************************************************************)
EXTENDS Integers, FiniteSets, FiniteSetsExt

CONSTANTS
    Editors,        \* bound: the requests and commands of a behaviour
    Original,       \* who made the issue of the initial state
    NoIssue, NoCollection,
    Supplies        \* supplies a publication asks for

Authors == Editors \cup {Original}

ASSUME PublicationAssumption ==
    /\ Original \notin Editors /\ IsFiniteSet(Editors)
    /\ Supplies \subseteq Nat \ {0} /\ IsFiniteSet(Supplies)
    /\ NoIssue \notin [id : Authors, title : Authors, publishedAt : BOOLEAN]
    /\ NoCollection \notin [issue : Authors, title : Authors]

VARIABLES
    issue,          \* row ComicIssue: [id, title, publishedAt]
    collection,     \* row CollectibleComicCollection: [issue, title]
    machines,       \* rows CandyMachine: [address, supply]
    metadata,       \* the collection has its CollectibleComicMetadata rows
    lines,          \* config lines on chain: <<machine, line, number>>
    flying,         \* those sent and not landed
    index,          \* how many each publication has sent
    eop,            \* what each request does
    epc,            \* where it is
    seen,           \* what it read: [id, title, number of items, machines]
    overlapped,     \* history: publications that read what another was changing
    faulted,        \* history: publications whose upload of metadata failed
    halted,         \* history: those that failed between two batches of items
    letIn,          \* history: edits let in before there was a collection
    late,           \* history: those written after a publication read the row
    renumbered,     \* history: machines insert-items filled
    lost            \* history: config lines <<machine, line>> whose transaction was dropped

publicationVars == <<issue, collection, machines, metadata, lines, flying, index, eop, epc,
                     seen, overlapped, faulted, halted, letIn, late, renumbered, lost>>

MaxNumber == Cardinality(Editors) * Max(Supplies)
Numbers == 1..MaxNumber
ConfigLines == Editors \X (1..Max(Supplies)) \X Numbers

NothingSeen == [id |-> Original, title |-> Original, base |-> 0, machines |-> {}]

EditorStages == {"idle", "check", "publishing", "collection", "newCollection",
                 "machine", "metadata", "items", "write", "done"}

PublicationTypeOK ==
    /\ issue \in [id : Authors, title : Authors, publishedAt : BOOLEAN] \cup {NoIssue}
    /\ collection \in [issue : Authors, title : Authors] \cup {NoCollection}
    /\ machines \subseteq [address : Editors, supply : Supplies]
    /\ metadata \in BOOLEAN
    /\ lines \subseteq ConfigLines /\ flying \subseteq ConfigLines
    /\ index \in [Editors -> {0} \cup (1..Max(Supplies))]
    /\ eop \in [Editors -> [kind : {"none", "create", "update", "offChain", "onChain",
                                    "toggle", "delete", "deleteComic", "insert"},
                            supply : Supplies \cup {0}]]
    /\ epc \in [Editors -> EditorStages]
    /\ overlapped \subseteq Editors /\ faulted \subseteq Editors /\ halted \subseteq Editors
    /\ letIn \subseteq Editors /\ late \subseteq letIn /\ renumbered \subseteq Editors
    /\ lost \subseteq Editors \X (1..Max(Supplies))

PublicationInit ==
    /\ issue \in {[id |-> Original, title |-> Original, publishedAt |-> FALSE], NoIssue}
    /\ collection = NoCollection
    /\ machines = {} /\ metadata = FALSE
    /\ lines = {} /\ flying = {} /\ index = [r \in Editors |-> 0]
    /\ eop = [r \in Editors |-> [kind |-> "none", supply |-> 0]]
    /\ epc = [r \in Editors |-> "idle"]
    /\ seen = [r \in Editors |-> NothingSeen]
    /\ overlapped = {} /\ faulted = {} /\ halted = {} /\ letIn = {} /\ late = {}
    /\ renumbered = {} /\ lost = {}

issueRows == <<issue, collection, machines, metadata>>
itemVars == <<lines, flying, index>>
pubHistory == <<overlapped, faulted, halted, letIn, late, renumbered, lost>>

Moves(r, stage) == epc' = [epc EXCEPT ![r] = stage]

Starts(r, kind, supply) ==
    /\ epc[r] = "idle"
    /\ eop' = [eop EXCEPT ![r] = [kind |-> kind, supply |-> supply]]
    /\ Moves(r, "check")
    /\ UNCHANGED <<issueRows, itemVars, seen, pubHistory>>

EditorRequest(r) ==
    \/ \E kind \in {"create", "update", "offChain", "toggle", "delete", "deleteComic",
                    "insert"} : Starts(r, kind, 0)
    \/ \E supply \in Supplies : Starts(r, "onChain", supply)

AtCheck(r, kind) == epc[r] = "check" /\ eop[r].kind = kind

Refused(r) == Moves(r, "done") /\ UNCHANGED seen

ReadsIssue(r) ==
    seen' = [seen EXCEPT ![r].id = issue.id, ![r].title = issue.title]

-----------------------------------------------------------------------------
(* Creating and editing                                                    *)

\* create: the number, slug and title are looked up, then inserted.
CheckTaken(r) ==
    /\ AtCheck(r, "create")
    /\ Moves(r, IF issue = NoIssue THEN "write" ELSE "done")
    /\ UNCHANGED <<issueRows, itemVars, eop, seen, pubHistory>>

\* The unique pairs with the comic's slug refuse a second row.
CreateIssue(r) ==
    /\ epc[r] = "write" /\ eop[r].kind = "create"
    /\ issue' = IF issue = NoIssue
                  THEN [id |-> r, title |-> r, publishedAt |-> FALSE] ELSE issue
    /\ Moves(r, "done")
    /\ UNCHANGED <<collection, machines, metadata, itemVars, eop, seen, pubHistory>>

\* A mutant of CheckOnChain: the collection is not looked for.
CheckOnChainOff(r) ==
    /\ AtCheck(r, "update")
    /\ IF issue = NoIssue THEN Refused(r) ELSE ReadsIssue(r) /\ Moves(r, "write")
    /\ letIn' = IF collection = NoCollection THEN letIn \cup {r} ELSE letIn
    /\ UNCHANGED <<issueRows, itemVars, eop, overlapped, faulted, halted, late, renumbered,
                   lost>>

\* throwIfComicIsPublishedOnChain, then the row is found.
CheckOnChain(r) ==
    /\ AtCheck(r, "update")
    /\ IF issue = NoIssue THEN Refused(r)
       ELSE IF collection # NoCollection /\ collection.issue = issue.id THEN Refused(r)
       ELSE ReadsIssue(r) /\ Moves(r, "write")
    /\ letIn' = IF collection = NoCollection THEN letIn \cup {r} ELSE letIn
    /\ UNCHANGED <<issueRows, itemVars, eop, overlapped, faulted, halted, late, renumbered,
                   lost>>

SameIssue(r) == issue # NoIssue /\ issue.id = seen[r].id

\* The row has been read for the collection.
TitleRead ==
    \/ collection # NoCollection
    \/ \E p \in Editors : epc[p] \in {"collection", "newCollection"}

\* update: a publication that has read the row and makes the collection will not
\* see this title.
UpdateIssue(r) ==
    /\ epc[r] = "write" /\ eop[r].kind = "update"
    /\ IF SameIssue(r)
         THEN /\ issue' = [issue EXCEPT !.title = r]
              /\ late' = IF r \in letIn /\ TitleRead THEN late \cup {r} ELSE late
         ELSE UNCHANGED <<issue, late>>
    /\ Moves(r, "done")
    /\ UNCHANGED <<collection, machines, metadata, itemVars, eop, seen,
                   overlapped, faulted, halted, letIn, renumbered, lost>>

\* publishOffChain
CheckPublished(r) ==
    /\ AtCheck(r, "offChain")
    /\ IF issue = NoIssue THEN Refused(r)
       ELSE IF issue.publishedAt THEN Refused(r)
       ELSE ReadsIssue(r) /\ Moves(r, "write")
    /\ UNCHANGED <<issueRows, itemVars, eop, pubHistory>>

PublishOffChain(r) ==
    /\ epc[r] = "write" /\ eop[r].kind = "offChain"
    /\ issue' = IF SameIssue(r) THEN [issue EXCEPT !.publishedAt = TRUE] ELSE issue
    /\ Moves(r, "done")
    /\ UNCHANGED <<collection, machines, metadata, itemVars, eop, seen, pubHistory>>

\* toggleDate of publishedAt: the new value is that of the row it read.
ReadDate(r) ==
    /\ AtCheck(r, "toggle")
    /\ IF issue = NoIssue THEN Refused(r)
       ELSE /\ seen' = [seen EXCEPT ![r].id = issue.id,
                                    ![r].base = IF issue.publishedAt THEN 1 ELSE 0]
            /\ Moves(r, "write")
    /\ UNCHANGED <<issueRows, itemVars, eop, pubHistory>>

ToggleDate(r) ==
    /\ epc[r] = "write" /\ eop[r].kind = "toggle"
    /\ issue' = IF SameIssue(r)
                  THEN [issue EXCEPT !.publishedAt = (seen[r].base = 0)] ELSE issue
    /\ Moves(r, "done")
    /\ UNCHANGED <<collection, machines, metadata, itemVars, eop, seen, pubHistory>>

\* delete of the issue looks at its publishedAt; that of the comic, which has its
\* own, does not.
CheckDeletable(r) ==
    /\ epc[r] = "check" /\ eop[r].kind \in {"delete", "deleteComic"}
    /\ IF issue = NoIssue THEN Refused(r)
       ELSE IF issue.publishedAt /\ eop[r].kind = "delete" THEN Refused(r)
       ELSE ReadsIssue(r) /\ Moves(r, "write")
    /\ UNCHANGED <<issueRows, itemVars, eop, pubHistory>>

\* A collection keeps its issue's row from being deleted.
DeleteIssue(r) ==
    /\ epc[r] = "write" /\ eop[r].kind \in {"delete", "deleteComic"}
    /\ issue' = IF issue = NoIssue THEN issue
                ELSE IF collection # NoCollection /\ collection.issue = issue.id THEN issue
                ELSE IF eop[r].kind = "delete" /\ ~SameIssue(r) THEN issue
                ELSE NoIssue
    /\ Moves(r, "done")
    /\ UNCHANGED <<collection, machines, metadata, itemVars, eop, seen, pubHistory>>

-----------------------------------------------------------------------------
(* Publishing on chain                                                     *)

\* The covers, the supply and the royalty fields are validated.
ValidatePublication(r) ==
    /\ AtCheck(r, "onChain")
    /\ IF issue = NoIssue THEN Refused(r)
       ELSE ReadsIssue(r) /\ Moves(r, "publishing")
    /\ UNCHANGED <<issueRows, itemVars, eop, pubHistory>>

\* A publication is refused, or fails at any await: publishedAt is not reverted,
\* nor is what was made on chain.
PublicationThrows(r) ==
    /\ eop[r].kind = "onChain"
    /\ epc[r] \in {"check", "publishing", "collection", "newCollection",
                   "machine"}
    /\ Moves(r, "done")
    /\ UNCHANGED <<issueRows, itemVars, eop, seen, pubHistory>>

MarkPublished(r) ==
    /\ epc[r] = "publishing"
    /\ IF SameIssue(r)
         THEN /\ issue' = [issue EXCEPT !.publishedAt = TRUE]
              /\ seen' = [seen EXCEPT ![r].title = issue.title]
              /\ Moves(r, "collection")
         ELSE Refused(r) /\ UNCHANGED issue
    /\ UNCHANGED <<collection, machines, metadata, itemVars, eop, pubHistory>>

MachineLines(m) == 1..m.supply

Items(some) == UNION {{m.address} \X MachineLines(m) : m \in some}

\* The supply of the collection's machines, as far as they have rows: the number of
\* their items.
CurrentSupply == Cardinality(Items(machines))

Publishing(r) == eop[r].kind = "onChain" /\ epc[r] \notin {"idle", "check", "publishing", "done"}

\* getOrCreateComicIssueCollection: one that exists is continued.
FindCollection(r) ==
    /\ epc[r] = "collection"
    /\ IF collection # NoCollection /\ collection.issue = seen[r].id
         THEN /\ seen' = [seen EXCEPT ![r].base = CurrentSupply, ![r].machines = machines]
              /\ Moves(r, "machine")
              /\ overlapped' = IF \E q \in Editors \ {r} : Publishing(q)
                                 THEN overlapped \cup {r} ELSE overlapped
         ELSE Moves(r, "newCollection") /\ UNCHANGED <<seen, overlapped>>
    /\ UNCHANGED <<issueRows, itemVars, eop, faulted, halted, letIn, late, renumbered, lost>>

\* The collection is on chain; its row names an issue that has no other.
CreateCollection(r) ==
    /\ epc[r] = "newCollection"
    /\ IF collection = NoCollection /\ SameIssue(r)
         THEN /\ collection' = [issue |-> seen[r].id, title |-> seen[r].title]
              /\ Moves(r, "machine")
         ELSE Moves(r, "done") /\ UNCHANGED collection
    /\ UNCHANGED <<issue, machines, metadata, itemVars, eop, seen, pubHistory>>

\* createCoreCandyMachine: what is on chain has no row until now.
CreateMachine(r) ==
    /\ epc[r] = "machine"
    /\ machines' = machines \cup {[address |-> r, supply |-> eop[r].supply]}
    /\ Moves(r, "metadata")
    /\ UNCHANGED <<issue, collection, metadata, itemVars, eop, seen, pubHistory>>

\* A collection with machines has its metadata rows found, another has them
\* uploaded and inserted but for duplicates.  No rows found is an error.
FindMetadata(r) ==
    /\ epc[r] = "metadata"
    /\ IF seen[r].base = 0
         THEN metadata' = TRUE /\ Moves(r, "items")
         ELSE Moves(r, IF metadata THEN "items" ELSE "done") /\ UNCHANGED metadata
    /\ UNCHANGED <<issue, collection, machines, itemVars, eop, seen, pubHistory>>

\* The upload fails, and the failure is only logged.
MetadataFails(r) ==
    /\ epc[r] = "metadata"
    /\ faulted' = faulted \cup {r}
    /\ Moves(r, "done")
    /\ UNCHANGED <<issueRows, itemVars, eop, seen, overlapped, halted, letIn, late, renumbered,
                   lost>>

\* A batch of items of one rarity: lines after those already sent.
Batch(r, upto) == (index[r] + 1)..upto

\* batchInsertCoreItems goes on until all items are sent.
Advances(r, upto) ==
    /\ index' = [index EXCEPT ![r] = upto]
    /\ Moves(r, IF upto = eop[r].supply THEN "done" ELSE "items")

\* A mutant of BatchInsertItems: each batch begins at the first line.
BatchInsertItemsRestart(r) ==
    /\ epc[r] = "items"
    /\ \E upto \in Batch(r, eop[r].supply) :
         /\ flying' = flying \cup {<<r, i, seen[r].base + i>> : i \in 1..(upto - index[r])}
         /\ Advances(r, upto)
    /\ UNCHANGED <<issueRows, lines, eop, seen, pubHistory>>

\* A mutant of BatchInsertItems: the items are numbered within their batch.
BatchInsertItemsLocal(r) ==
    /\ epc[r] = "items"
    /\ \E upto \in Batch(r, eop[r].supply) :
         /\ flying' = flying \cup {<<r, i, seen[r].base + i - index[r]>> : i \in Batch(r, upto)}
         /\ Advances(r, upto)
    /\ UNCHANGED <<issueRows, lines, eop, seen, pubHistory>>

\* insertCoreItems: a batch is numbered after the current supply and the items
\* before it.  Its chunks are built one after the other, then all sent and not
\* awaited.
BatchInsertItems(r) ==
    /\ epc[r] = "items"
    /\ \E upto \in Batch(r, eop[r].supply) :
         /\ flying' = flying \cup {<<r, i, seen[r].base + i>> : i \in Batch(r, upto)}
         /\ Advances(r, upto)
    /\ UNCHANGED <<issueRows, lines, eop, seen, pubHistory>>

\* A chunk cannot be built, or the process stops: the error is only logged, and the
\* machine keeps its row.
InsertFails(r) ==
    /\ epc[r] = "items"
    /\ halted' = halted \cup {r}
    /\ Moves(r, "done")
    /\ UNCHANGED <<issueRows, itemVars, eop, seen, overlapped, faulted, letIn, late,
                   renumbered, lost>>

\* The insert-items command finds the machine and the metadata of its collection,
\* and numbers the lines from one.  It stops at the first transaction that throws.
InsertItemsCommand(r) ==
    /\ AtCheck(r, "insert")
    /\ \/ /\ metadata
          /\ \E m \in machines : \E upto \in MachineLines(m) :
                /\ flying' = flying \cup {<<m.address, i, i>> : i \in 1..upto}
                /\ renumbered' = renumbered \cup {m.address}
       \/ UNCHANGED <<flying, renumbered>>
    /\ Moves(r, "done")
    /\ UNCHANGED <<issueRows, lines, index, eop, seen, overlapped, faulted, halted, letIn,
                   late, lost>>

ItemsLand(l) ==
    /\ flying' = flying \ {l}
    /\ lines' = {k \in lines : <<k[1], k[2]>> # <<l[1], l[2]>>} \cup {l}
    /\ UNCHANGED <<issueRows, index, eop, epc, seen, pubHistory>>

ItemsLost(l) ==
    /\ flying' = flying \ {l}
    /\ lost' = lost \cup {<<l[1], l[2]>>}
    /\ UNCHANGED <<issueRows, lines, index, eop, epc, seen, overlapped, faulted, halted, letIn,
                   late, renumbered>>

EditorStep(r) ==
    \/ EditorRequest(r)
    \/ CheckTaken(r) \/ CreateIssue(r) \/ CheckOnChain(r) \/ UpdateIssue(r)
    \/ CheckPublished(r) \/ PublishOffChain(r) \/ ReadDate(r) \/ ToggleDate(r)
    \/ CheckDeletable(r) \/ DeleteIssue(r)
    \/ ValidatePublication(r) \/ PublicationThrows(r) \/ MarkPublished(r)
    \/ FindCollection(r) \/ CreateCollection(r) \/ CreateMachine(r)
    \/ FindMetadata(r) \/ MetadataFails(r) \/ BatchInsertItems(r) \/ InsertFails(r)
    \/ InsertItemsCommand(r)

PublicationNext ==
    \/ \E r \in Editors : EditorStep(r)
    \/ \E l \in flying : ItemsLand(l) \/ ItemsLost(l)

PublicationSpec == PublicationInit /\ [][PublicationNext]_publicationVars

-----------------------------------------------------------------------------
\* What each item is named, on chain or in a transaction on its way
Namings == lines \cup flying

\* No two items of the collection get one name, however often it is published and
\* whatever fails, unless two publications overlapped or insert-items filled the
\* machine, which numbers from one.
NumbersDistinct ==
    \A k, l \in Namings :
        /\ k[3] = l[3]
        /\ {k[1], l[1]} \cap (overlapped \cup renumbered) = {}
        => k = l

\* The title on chain is the issue's: it cannot be edited once the collection is
\* made, unless the edit had been let in before and was written after the
\* publication read the row.
TitleAgrees ==
    collection # NoCollection /\ issue # NoIssue =>
        issue.title = collection.title \/ issue.title \in late

\* The lines of a machine that were sent, those whose transaction was dropped too
SentLines(m) ==
    {i \in MachineLines(m) :
        <<m.address, i>> \in lost \/ \E l \in Namings : l[1] = m.address /\ l[2] = i}

\* A machine whose publication is over, which its row shows as fully loaded, has had
\* the lines of all its items sent.  When the insertion failed between two batches
\* it has had a first part of them sent and, unless the command fills it, nothing
\* after that part, so that no line is missing in between.  This leaves out
\* publications that overlapped, and a collection whose upload of metadata failed.
ItemsSent ==
    \A m \in machines :
        epc[m.address] = "done" /\ m.address \notin overlapped /\ faulted = {} =>
            \E k \in 0..m.supply :
                /\ m.address \notin halted => k = m.supply
                /\ 1..k \subseteq SentLines(m)
                /\ m.address \notin renumbered => SentLines(m) = 1..k
=============================================================================
