---------------------------- MODULE MovieCatalog ----------------------------
(***************************************************************************)
(* MovieService.create, update and remove against MongoDB.  create writes  *)
(* a detail and a movie in one transaction, after checks made outside it;  *)
(* update opens a transaction but passes its session to no operation, so   *)
(* its writes take effect one by one; remove deletes the movie and then    *)
(* the detail.  Any await lets other requests run, any call to MongoDB may *)
(* be rejected, whether or not a write was carried out, and the process    *)
(* may exit at any of them.                                                *)
(*                                                                         *)
(* A create request's movie and detail have _ids of their own that nothing *)
(* reuses; both are named here by the request.                             *)
(***************************************************************************)
EXTENDS Naturals, Sequences, FiniteSets

CONSTANTS
  Requests,
  Titles, Texts, Directors, Genres,
  CreateBodies,   \* the bodies POST /movie may carry
  UpdateBodies,   \* the bodies PATCH /movie/:id may carry
  Null

CreateMovieDto ==
  [title : Titles, detail : Texts, directorId : Directors, genreIds : Seq(Genres)]
UpdateMovieDto ==
  [title : Titles \cup {Null}, detail : Texts \cup {Null},
   directorId : Directors \cup {Null}, genreIds : Seq(Genres) \cup {Null}]
Movie == [title : Titles, director : Directors, genres : SUBSET Genres]

ASSUME BodiesAssumption ==
  CreateBodies \subseteq CreateMovieDto /\ UpdateBodies \subseteq UpdateMovieDto
ASSUME NullAssumption ==
  /\ Null \notin Requests \cup Titles \cup Texts \cup Directors \cup Movie
  /\ Null \notin [title : Titles, director : Directors, genres : SUBSET Genres, detail : Texts]
  /\ \A b \in CreateBodies : b.genreIds # Null

VARIABLES
  movies,      \* the movie collection
  details,     \* the moviedetail collection
  directors,   \* per director: not there yet, here, or gone
  genres,      \* the same per genre
  pc,          \* where each request is, or how it was answered
  op,          \* create, update or remove
  id,          \* the movie it is about
  body,        \* its DTO
  sawDetail,   \* populate('detail') found the detail
  held,        \* open transactions that hold a new movie and its title
  wrote,       \* history: updates that wrote the detail
  made         \* history: creates that committed

vars == <<movies, details, directors, genres, pc, op, id, body, sawDetail, held, wrote, made>>

Running  == {"find", "populate", "director", "genres", "detail", "movie", "commit",
             "reread", "deleteMovie", "deleteDetail"}
Answered == {"ok", "notFound", "serverError", "undefined"}

To(r, where) == pc' = [pc EXCEPT ![r] = where]

TakenBy(m, t) == movies[m] # Null /\ movies[m].title = t
Holds(r, t)   == r \in held /\ body[r].title = t

-----------------------------------------------------------------------------
Init ==
  /\ movies    = [m \in Requests |-> Null]
  /\ details   = [m \in Requests |-> Null]
  /\ directors \in [Directors -> {"new", "here"}]
  /\ genres    \in [Genres -> {"new", "here"}]
  /\ pc        = [r \in Requests |-> "idle"]
  /\ op        = [r \in Requests |-> "none"]
  /\ id        = [r \in Requests |-> Null]
  /\ body      = [r \in Requests |-> Null]
  /\ sawDetail = [r \in Requests |-> FALSE]
  /\ held      = {}
  /\ wrote     = {}
  /\ made      = {}

Arrive(r, o, m, b, where) ==
  /\ pc[r] = "idle"
  /\ op'   = [op EXCEPT ![r] = o]
  /\ id'   = [id EXCEPT ![r] = m]
  /\ body' = [body EXCEPT ![r] = b]
  /\ To(r, where)
  /\ UNCHANGED <<movies, details, directors, genres, sawDetail, held, wrote, made>>

Post(r)      == \E b \in CreateBodies : Arrive(r, "create", r, b, "director")
Patch(r, m)  == \E b \in UpdateBodies : Arrive(r, "update", m, b, "find")
Delete(r, m) == Arrive(r, "remove", m, Null, "find")

(* create's catch block answers 500 whatever was thrown, as Nest does for  *)
(* remove, which has none; update's swallows it: 200 with nothing.         *)
Failed(r) == IF op[r] = "update" THEN "undefined" ELSE "serverError"

-----------------------------------------------------------------------------
(* findById(id).populate('detail'): two queries.                           *)
Find(r) ==
  /\ pc[r] = "find"
  /\ To(r, IF movies[id[r]] # Null THEN "populate"
           ELSE IF op[r] = "update" THEN Failed(r) ELSE "notFound")
  /\ UNCHANGED <<movies, details, directors, genres, op, id, body, sawDetail, held, wrote, made>>

(* The next thing an update or a create waits for.                         *)
AfterGenres(b)   == IF b.detail # Null THEN "detail" ELSE "movie"
AfterDirector(b) == IF b.genreIds # Null THEN "genres" ELSE AfterGenres(b)
AfterPopulate(b) == IF b.directorId # Null THEN "director" ELSE AfterDirector(b)

Populate(r) ==
  /\ pc[r] = "populate"
  /\ sawDetail' = [sawDetail EXCEPT ![r] = details[id[r]] # Null]
  /\ To(r, IF op[r] = "remove" THEN "deleteMovie" ELSE AfterPopulate(body[r]))
  /\ UNCHANGED <<movies, details, directors, genres, op, id, body, held, wrote, made>>

(* A bug the checks must notice: nobody looks whether the director exists. *)
FindDirectorUnchecked(r) ==
  /\ pc[r] = "director"
  /\ To(r, AfterDirector(body[r]))
  /\ UNCHANGED <<movies, details, directors, genres, op, id, body, sawDetail, held, wrote, made>>

FindDirector(r) ==
  /\ pc[r] = "director"
  /\ To(r, IF directors[body[r].directorId] = "here" THEN AfterDirector(body[r]) ELSE Failed(r))
  /\ UNCHANGED <<movies, details, directors, genres, op, id, body, sawDetail, held, wrote, made>>

GenreSet(ids) == {ids[i] : i \in DOMAIN ids}

(* As many genres found as ids given: a repeated id fails too.             *)
FindGenres(r) ==
  /\ pc[r] = "genres"
  /\ LET found == {g \in GenreSet(body[r].genreIds) : genres[g] = "here"}
     IN  To(r, IF Cardinality(found) = Len(body[r].genreIds)
               THEN AfterGenres(body[r]) ELSE Failed(r))
  /\ UNCHANGED <<movies, details, directors, genres, op, id, body, sawDetail, held, wrote, made>>

-----------------------------------------------------------------------------
(* Bugs the checks must notice: the session is forgotten on the detail;    *)
(* open transactions are not asked for the title.                          *)
CreateDetailNoSession(r) ==
  /\ op[r] = "create" /\ pc[r] = "detail"
  /\ details' = [details EXCEPT ![r] = body[r].detail]
  /\ To(r, "movie")
  /\ UNCHANGED <<movies, directors, genres, op, id, body, sawDetail, held, wrote, made>>

CreateMovieUnheld(r) ==
  /\ op[r] = "create" /\ pc[r] = "movie"
  /\ IF \E q \in Requests : TakenBy(q, body[r].title)
     THEN To(r, Failed(r)) /\ UNCHANGED held
     ELSE To(r, "commit") /\ held' = held \cup {r}
  /\ UNCHANGED <<movies, details, directors, genres, op, id, body, sawDetail, wrote, made>>

(* create: both inserts are invisible until the commit, but the title is   *)
(* refused when a movie has it or another open transaction holds it.       *)
CreateDetail(r) ==
  /\ op[r] = "create" /\ pc[r] = "detail"
  /\ To(r, "movie")
  /\ UNCHANGED <<movies, details, directors, genres, op, id, body, sawDetail, held, wrote, made>>

CreateMovie(r) ==
  /\ op[r] = "create" /\ pc[r] = "movie"
  /\ IF \E q \in Requests : TakenBy(q, body[r].title) \/ Holds(q, body[r].title)
     THEN To(r, Failed(r)) /\ UNCHANGED held
     ELSE To(r, "commit") /\ held' = held \cup {r}
  /\ UNCHANGED <<movies, details, directors, genres, op, id, body, sawDetail, wrote, made>>

Publish(r) ==
  /\ movies' = [movies EXCEPT ![r] =
                  [title |-> body[r].title, director |-> body[r].directorId,
                   genres |-> GenreSet(body[r].genreIds)]]
  /\ details' = [details EXCEPT ![r] = body[r].detail]
  /\ held' = held \ {r}
  /\ made' = made \cup {r}
  /\ UNCHANGED <<directors, genres, op, id, body, sawDetail, wrote>>

CommitTransaction(r) ==
  /\ pc[r] = "commit"
  /\ Publish(r)
  /\ To(r, "reread")

(* The commit takes effect but its acknowledgement does not arrive.        *)
CommitUnacknowledged(r) ==
  /\ pc[r] = "commit"
  /\ Publish(r)
  /\ To(r, Failed(r))

(* A bug the checks must notice: a failed transaction is left open.        *)
AbortLeftOpen(r) ==
  /\ op[r] = "create" /\ pc[r] \in {"detail", "movie", "commit"}
  /\ To(r, Failed(r))
  /\ UNCHANGED <<movies, details, directors, genres, op, id, body, sawDetail, held, wrote, made>>

(* The server may abort a transaction at any of its operations.            *)
AbortTransaction(r) ==
  /\ op[r] = "create" /\ pc[r] \in {"detail", "movie", "commit"}
  /\ To(r, Failed(r))
  /\ held' = held \ {r}
  /\ UNCHANGED <<movies, details, directors, genres, op, id, body, sawDetail, wrote, made>>

-----------------------------------------------------------------------------
(* update: no session is passed, so each write is a transaction of its own *)
(* and the abort of the catch block undoes nothing.                        *)
EditDetail(r) ==
  /\ details' = [details EXCEPT ![id[r]] = IF @ = Null THEN Null ELSE body[r].detail]
  /\ wrote' = IF details[id[r]] = Null THEN wrote ELSE wrote \cup {r}
  /\ UNCHANGED movies

UpdateDetail(r) ==
  /\ op[r] = "update" /\ pc[r] = "detail"
  /\ IF sawDetail[r]
     THEN EditDetail(r) /\ To(r, "movie")
     ELSE To(r, Failed(r)) /\ UNCHANGED <<movies, details, wrote>>     \* null._id
  /\ UNCHANGED <<directors, genres, op, id, body, sawDetail, held, made>>

Patched(v, b) ==
  [title    |-> IF b.title # Null THEN b.title ELSE v.title,
   director |-> IF b.directorId # Null THEN b.directorId ELSE v.director,
   genres   |-> IF b.genreIds # Null THEN GenreSet(b.genreIds) ELSE v.genres]

(* A bug the checks must notice: upsert brings back a movie removed since. *)
UpdateMovieUpserts(r) ==
  /\ op[r] = "update" /\ pc[r] = "movie"
  /\ ~ \E q \in Requests \ {id[r]} : TakenBy(q, body[r].title) \/ Holds(q, body[r].title)
  /\ movies' = [movies EXCEPT ![id[r]] =
                  IF @ # Null THEN Patched(@, body[r])
                  ELSE [title |-> body[r].title, director |-> body[r].directorId, genres |-> {}]]
  /\ To(r, "reread")
  /\ UNCHANGED <<details, directors, genres, op, id, body, sawDetail, held, wrote, made>>

(* A write outside transactions waits for one that holds its key.          *)
EditMovie(r) ==
  /\ movies[id[r]] # Null
  /\ ~ \E q \in Requests \ {id[r]} : TakenBy(q, body[r].title)
  /\ ~ \E q \in Requests : Holds(q, body[r].title)
  /\ movies' = [movies EXCEPT ![id[r]] = Patched(movies[id[r]], body[r])]

UpdateMovie(r) ==
  /\ op[r] = "update" /\ pc[r] = "movie"
  /\ \/ /\ movies[id[r]] = Null
        /\ To(r, "reread") /\ UNCHANGED movies
     \/ /\ movies[id[r]] # Null
        /\ \E q \in Requests \ {id[r]} : TakenBy(q, body[r].title)
        /\ To(r, Failed(r)) /\ UNCHANGED movies
     \/ EditMovie(r) /\ To(r, "reread")
  /\ UNCHANGED <<details, directors, genres, op, id, body, sawDetail, held, wrote, made>>

Reread(r) ==
  /\ pc[r] = "reread"
  /\ To(r, "ok")
  /\ UNCHANGED <<movies, details, directors, genres, op, id, body, sawDetail, held, wrote, made>>

-----------------------------------------------------------------------------
DeleteMovie(r) ==
  /\ pc[r] = "deleteMovie"
  /\ movies' = [movies EXCEPT ![id[r]] = Null]
  /\ To(r, IF sawDetail[r] THEN "deleteDetail" ELSE "serverError")     \* null._id
  /\ UNCHANGED <<details, directors, genres, op, id, body, sawDetail, held, wrote, made>>

DeleteDetail(r) ==
  /\ pc[r] = "deleteDetail"
  /\ details' = [details EXCEPT ![id[r]] = Null]
  /\ To(r, "ok")
  /\ UNCHANGED <<movies, directors, genres, op, id, body, sawDetail, held, wrote, made>>

-----------------------------------------------------------------------------
(* A read is rejected.  The last one of create and of update is returned,  *)
(* not awaited, so that no catch block meets its rejection: Nest does.     *)
ReadFails(r) ==
  /\ pc[r] \in {"find", "populate", "director", "genres", "reread"}
  /\ To(r, IF pc[r] = "reread" THEN "serverError" ELSE Failed(r))
  /\ UNCHANGED <<movies, details, directors, genres, op, id, body, sawDetail, held, wrote, made>>

(* A write outside transactions is rejected, carried out or not. *)
WriteRejected(r) ==
  /\ \/ /\ op[r] = "update" /\ pc[r] = "detail" /\ sawDetail[r]
        /\ EditDetail(r) \/ UNCHANGED <<movies, details, wrote>>
     \/ /\ op[r] = "update" /\ pc[r] = "movie"
        /\ EditMovie(r) \/ UNCHANGED movies
        /\ UNCHANGED <<details, wrote>>
     \/ /\ pc[r] = "deleteMovie"
        /\ movies' \in {movies, [movies EXCEPT ![id[r]] = Null]}
        /\ UNCHANGED <<details, wrote>>
     \/ /\ pc[r] = "deleteDetail"
        /\ details' \in {details, [details EXCEPT ![id[r]] = Null]}
        /\ UNCHANGED <<movies, wrote>>
  /\ To(r, Failed(r))
  /\ UNCHANGED <<directors, genres, op, id, body, sawDetail, held, made>>

(* The process exits and is started again: its requests are lost and the   *)
(* server drops the transactions they left open.                           *)
Crash ==
  /\ \E r \in Requests : pc[r] \in Running
  /\ pc' = [r \in Requests |-> IF pc[r] \in Running THEN "lost" ELSE pc[r]]
  /\ held' = {}
  /\ UNCHANGED <<movies, details, directors, genres, op, id, body, sawDetail, wrote, made>>

(* DirectorService and GenreService look for no movie before they delete.  *)
Pass(state) == CASE state = "new" -> "here" [] state = "here" -> "gone" [] OTHER -> "gone"

DirectorChanges(d) ==
  /\ directors[d] # "gone"
  /\ directors' = [directors EXCEPT ![d] = Pass(@)]
  /\ UNCHANGED <<movies, details, genres, pc, op, id, body, sawDetail, held, wrote, made>>

GenreChanges(g) ==
  /\ genres[g] # "gone"
  /\ genres' = [genres EXCEPT ![g] = Pass(@)]
  /\ UNCHANGED <<movies, details, directors, pc, op, id, body, sawDetail, held, wrote, made>>

Works(r) ==
  \/ Find(r) \/ Populate(r) \/ FindDirector(r) \/ FindGenres(r)
  \/ CreateDetail(r) \/ CreateMovie(r)
  \/ CommitTransaction(r) \/ CommitUnacknowledged(r) \/ AbortTransaction(r)
  \/ UpdateDetail(r) \/ UpdateMovie(r) \/ Reread(r)
  \/ DeleteMovie(r) \/ DeleteDetail(r)

Fails(r) == ReadFails(r) \/ WriteRejected(r)

Step(r) == Works(r) \/ Fails(r)

Next ==
  \/ \E r \in Requests : Post(r) \/ Step(r)
  \/ \E r, m \in Requests : Patch(r, m) \/ Delete(r, m)
  \/ Crash
  \/ \E d \in Directors : DirectorChanges(d)
  \/ \E g \in Genres : GenreChanges(g)

Spec == Init /\ [][Next]_vars

(* MongoDB answers every operation that is not rejected before, and the    *)
(* event loop runs what follows.                                           *)
FairSpec == Spec /\ \A r \in Requests : WF_vars(Works(r))

-----------------------------------------------------------------------------
(* Every variable stays in its range.                                      *)
TypeOK ==
  /\ movies \in [Requests -> Movie \cup {Null}]
  /\ details \in [Requests -> Texts \cup {Null}]
  /\ directors \in [Directors -> {"new", "here", "gone"}]
  /\ genres \in [Genres -> {"new", "here", "gone"}]
  /\ pc \in [Requests -> Running \cup Answered \cup {"idle", "lost"}]
  /\ op \in [Requests -> {"none", "create", "update", "remove"}]
  /\ id \in [Requests -> Requests \cup {Null}]
  /\ body \in [Requests -> CreateBodies \cup UpdateBodies \cup {Null}]
  /\ sawDetail \in [Requests -> BOOLEAN]
  /\ held \subseteq Requests /\ wrote \subseteq Requests /\ made \subseteq Requests

(* What each request may rely on where it is: its DTO is of its kind, and  *)
(* a movie it found was made (504-568, 768-805).                           *)
PlacesAgree ==
  \A r \in Requests :
    /\ op[r] = "create" => body[r] \in CreateBodies
    /\ op[r] = "update" => body[r] \in UpdateBodies /\ id[r] \in Requests
    /\ op[r] = "remove" => id[r] \in Requests
    /\ pc[r] \in {"idle", "find", "populate", "deleteMovie", "deleteDetail"} => op[r] # "create"
    /\ pc[r] = "commit" => op[r] = "create"
    /\ pc[r] \in {"director", "genres", "detail", "movie"} => op[r] \in {"create", "update"}
    /\ pc[r] \in {"find", "populate"} => op[r] \in {"update", "remove"}
    /\ pc[r] \in {"deleteMovie", "deleteDetail"} => op[r] = "remove"
    /\ pc[r] = "idle" => op[r] = "none"
    /\ pc[r] = "director" => body[r].directorId # Null
    /\ pc[r] = "genres" => body[r].genreIds # Null
    /\ pc[r] = "detail" => body[r].detail # Null
    /\ op[r] = "create" /\ pc[r] \in Running \ {"reread"} => r \notin made
    /\ op[r] = "none" => pc[r] = "idle" /\ r \notin made

(* Movies and details exist only once made, a movie always has its detail, *)
(* and a removal deletes the detail of a movie that is gone.               *)
DetailOutlivesMovie ==
  /\ \A m \in Requests :
       /\ details[m] # Null => m \in made
       /\ movies[m] # Null => details[m] # Null
  /\ \A r \in Requests :
       /\ pc[r] = "deleteDetail" => movies[id[r]] = Null /\ id[r] \in made
       /\ pc[r] = "populate" => id[r] \in made
       /\ pc[r] = "deleteMovie" => id[r] \in made /\ (sawDetail[r] \/ details[id[r]] = Null)

(* No two movies share a title, nor does one share it with a transaction   *)
(* about to commit, nor do two of those (the unique index on title).       *)
TitlesApart ==
  /\ \A m, n \in Requests :
       m # n /\ movies[m] # Null /\ movies[n] # Null => movies[m].title # movies[n].title
  /\ \A r \in Requests : pc[r] = "commit" <=> r \in held
  /\ \A r \in held, q \in Requests :
       ~ TakenBy(q, body[r].title) /\ (Holds(q, body[r].title) => q = r)

(* Past its checks, a request names a director and genres that were there. *)
ChecksStand ==
  \A r \in Requests :
    /\ pc[r] \in {"genres", "detail", "movie", "commit"} /\ body[r].directorId # Null
         => directors[body[r].directorId] # "new"
    /\ pc[r] \in {"detail", "movie", "commit"} /\ body[r].genreIds # Null
         => \A g \in GenreSet(body[r].genreIds) : genres[g] # "new"

CatalogInv == PlacesAgree /\ DetailOutlivesMovie /\ TitlesApart /\ ChecksStand

(* A detail without its movie is one that a removal is about to delete, or *)
(* that a removal left behind when MongoDB failed one of its deletes or    *)
(* its process exited (789-790); a create that fails, and an update that   *)
(* comes late, leave none (336-376, 551-557).                              *)
OrphansAreRemovals ==
  \A m \in Requests : details[m] # Null /\ movies[m] = Null =>
    \E r \in Requests : op[r] = "remove" /\ id[r] = m /\ pc[r] \in {"deleteDetail", "serverError", "lost"}

(* A movie never refers to a director or a genre that was not there when   *)
(* the request looked, however late its write is; that they are still      *)
(* there is not promised (322-334, 529-549).                               *)
ReferencesWereReal ==
  \A m \in Requests : movies[m] # Null =>
    /\ directors[movies[m].director] # "new"
    /\ \A g \in movies[m].genres : genres[g] # "new"

(* A request is answered or lost, the update that waits for a title too:   *)
(* none runs in the end, for each is made only once.                       *)
RequestsEnd == []<>(\A r \in Requests : pc[r] \notin Running)

(* What the two collections hold of movies at any one moment appears and   *)
(* vanishes whole; a reader's populate is a second query and may miss it.  *)
EntryOf(m) ==
  IF movies[m] = Null THEN Null
  ELSE [title |-> movies[m].title, director |-> movies[m].director,
        genres |-> movies[m].genres, detail |-> details[m]]

ShelfBar == [m \in Requests |-> EntryOf(m)]

Shelf == INSTANCE MovieShelf WITH Ids <- Requests, shelf <- ShelfBar

ImplementsShelf == Shelf!Spec

-----------------------------------------------------------------------------
(* movie.service.spec.ts "should rollback transaction and rethrow error on *)
(* failure": an update that fails has written nothing.                     *)
FailedUpdateWritesNothing ==
  \A r \in Requests : op[r] = "update" /\ pc[r] = "undefined" => r \notin wrote
=============================================================================
