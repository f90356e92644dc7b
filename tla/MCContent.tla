----------------------------- MODULE MCContent -----------------------------
(* An instance for TLC of what creators publish and readers see: the files of *)
(* the rows, the answers that are cached, the routes to the rows of owners,   *)
(* the audience, one collectible, and works that are sold as prints.  They    *)
(* share no variable: a run explores each alone, the others in a first state. *)
EXTENDS StoredFiles, Shelf, Routes, Audience, Collectibles, Editions, TLC

CONSTANTS r1, r2, r3, s1, s2

VARIABLE scene

\* Requests are alike.
MCSymmetry == Permutations({r1, r2, r3})

Scenes == {"files", "shelf", "routes", "audience", "collectibles", "editions",
           "autographs"}

\* Some rows of each kind are enough for the routes: members are alike, slugs too.
FewRows ==
    /\ roles[1] = "Creator" /\ owners[1] = 1
    /\ scene # "routes" => subject = "site"
    /\ subject # "wallet" => walletUser = Unknown
    /\ subject = "site" => roles[2] = "Admin"
    /\ subject = "comic" => roles[2] = "Creator"
    /\ subject = "issue" => roles[2] # "User"
    /\ subject # "issue" => drafts = {}
    /\ \A c \in comics : c.id = 1 => c.slug = s1
    /\ IF subject = "issue" /\ roles[2] = "Creator"
       THEN Cardinality(comics) = 2 /\ (\A d \in drafts : ~d.verified)
       ELSE Cardinality(comics) = 1

\* What is around a row is the same for all requests, and a row starts with both of
\* its dates or none.
FewSurroundings ==
    /\ around.owned /\ around.bookmarked /\ around.covered /\ around.shown = 1
    /\ around.onChain = (around.sale # "none") /\ around.sale \in {"none", "open"}
    /\ around.recent /\ around.chosen
    /\ around.about = IF shelf = "slide" THEN "issue" ELSE "link"
    /\ shelf # "slide" => around.free /\ around.onChain = (shelf = "issue")
    /\ row.verified = row.published
    /\ scene # "shelf" => shelf = "comic" /\ row.verified

\* Each part starts in few states, and in one when the scene is another's.
MCInit ==
    /\ scene \in Scenes
    /\ FilesInit /\ (scene # "files" => "genre" \in rows)
    /\ ShelfInit /\ FewSurroundings
    /\ RoutesInit /\ FewRows
    /\ AudienceInit /\ sold = {FirstMoment}
    /\ \A u \in Readers, d \in Toggled :
         dates[u, d] # Never <=> scene = "audience" /\ d \in OfIssue
    /\ CollectiblesInit /\ asset.owner = CHOOSE h \in Holders : TRUE
    /\ scene # "collectibles" => assetRow = NoRow /\ ~locked
    /\ locked => asset.uri = Plain /\ assetRow # NoRow
    /\ EditionsInit

\* Where three requests add nothing, two of them are made; of files, about one row or
\* about a comic and its issue, since no other two rows share a file.
Two(requests) == Cardinality(requests) <= 2
RowsAtWork == {fop'[r].row : r \in {q \in FileRequests : fpc'[q] # "idle"}}
TwoOperations ==
    /\ Two({r \in FileRequests : fpc'[r] # "idle"})
    /\ RowsAtWork \subseteq {"comic", "issue"} \/ Cardinality(RowsAtWork) <= 1
\* The genre is missing at first only where the first request is about it.
GenreFirst ==
    "genre" \notin rows /\ (\A r \in FileRequests : fpc[r] = "idle") =>
        \A r \in FileRequests : fpc'[r] # "idle" => fop'[r].row = "genre"
TwoTakes == Two({t \in Takes : take'[t].stage # "idle"})
\* Of comics, one at a time that leaves the rows as they are: no other visit can tell.
TwoVisits ==
    /\ subject \notin {"comic", "wallet"} => Two({r \in Visits : visit'[r].stage # "idle"})
    /\ subject = "comic" =>
         Cardinality({r \in Visits : /\ visit'[r].stage \notin {"idle", "done"}
                                     /\ visit'[r].does \in {"raw", "edit", "answer"}}) <= 1
TwoHandlers == Two({r \in AssetRequests : ajob'[r].stage # "idle"})

\* Answers that are not cached are made one at a time.
OneUncached ==
    Cardinality({r \in ShelfRequests : /\ asking'[r].stage = "handle"
                                       /\ asking'[r].form \notin CachedForms[shelf]}) <= 1

\* One sale, of one collection or of single works; autographs are a scene of their own.
FewWorks ==
    /\ now' <= 2 /\ (sale = NoSale => now' = now)
    /\ NoWork \in {work'["folder"], work'["collection"]}
    /\ sale' \in {NoSale, [starts |-> 0, ends |-> 2], [starts |-> 1, ends |-> 2]}
    /\ \A r \in EditionRequests :
          /\ ejob'[r].what # "autograph"
          /\ ejob'[r].what \in Registered => work'[ejob'[r].what] # NoWork

MCNext ==
    /\ UNCHANGED scene
    /\ \/ scene = "files" /\ FilesNext /\ TwoOperations /\ GenreFirst
          /\ UNCHANGED <<shelfVars, routeVars, audienceVars, assetVars,
                         editionVars>>
       \/ scene = "shelf" /\ ShelfNext /\ OneUncached
          /\ UNCHANGED <<fileVars, routeVars, audienceVars, assetVars,
                         editionVars>>
       \/ scene = "routes" /\ RoutesNext /\ TwoVisits
          /\ UNCHANGED <<fileVars, shelfVars, audienceVars, assetVars,
                         editionVars>>
       \/ scene = "audience" /\ AudienceNext /\ TwoTakes
          /\ UNCHANGED <<fileVars, shelfVars, routeVars, assetVars,
                         editionVars>>
       \/ scene = "collectibles" /\ CollectiblesNext /\ TwoHandlers
          /\ UNCHANGED <<fileVars, shelfVars, routeVars, audienceVars,
                         editionVars>>
       \/ scene = "editions" /\ EditionsNext /\ FewWorks
          /\ UNCHANGED <<fileVars, shelfVars, routeVars, audienceVars,
                         assetVars>>
       \/ /\ scene = "autographs" /\ EditionsNext /\ work' = work
          /\ \A r \in EditionRequests : ejob'[r].what \in {"none", "autograph"}
          /\ UNCHANGED <<fileVars, shelfVars, routeVars, audienceVars,
                         assetVars>>

MCSpec ==
    MCInit /\ [][MCNext]_<<scene, fileVars, shelfVars, routeVars,
                           audienceVars, assetVars, editionVars>>

\* Every variable of the parts stays in its range: keys and rows, dates and counts,
\* answers, roles, assets, works and requests.
ContentTypeOK ==
    /\ scene = "files" => FilesTypeOK
    /\ scene = "shelf" => ShelfTypeOK
    /\ scene = "routes" => RoutesTypeOK
    /\ scene = "audience" => AudienceTypeOK
    /\ scene = "collectibles" => CollectiblesTypeOK
    /\ scene \in {"editions", "autographs"} => EditionsTypeOK
=============================================================================
