----------------------------- MODULE MovieLike -----------------------------
(***************************************************************************)
(* MovieService.toggleMovieLike as one Node process runs it against        *)
(* MongoDB: each await is a point where other presses run, any call to     *)
(* MongoDB may be rejected, whether or not a write was or will be carried  *)
(* out, and the save of a changed record is started and not awaited, so    *)
(* that its rejection is unhandled and ends the process.                   *)
(***************************************************************************)
EXTENDS Naturals, FiniteSets

CONSTANTS
  Requests,     \* presses: POST /movie/:id/like and /movie/:id/dislike
  Movies,       \* movie ids a press may name
  Users,        \* user ids a valid token may carry
  Registered,   \* those of them with a user document
  MaxFailures,  \* bound: calls that MongoDB or the network fails
  Null          \* JavaScript's null

LikeDoc == [movie : Movies, user : Users, isLike : BOOLEAN]

ASSUME RegisteredAssumption == Registered \subseteq Users
ASSUME MaxFailuresAssumption == MaxFailures \in Nat
ASSUME NullAssumption ==
  /\ Null \notin BOOLEAN \cup LikeDoc \cup Requests
  /\ \A b \in Movies \X Users, s \in [by : Requests, isLike : BOOLEAN] \cup {Null},
        v \in BOOLEAN : Null # [button |-> b, saw |-> s, isLike |-> v]
  /\ Null \notin [by : Requests, isLike : BOOLEAN]

VARIABLES
  up,       \* the Node process is running
  movies,   \* the movie collection
  likes,    \* the movieuserlike collection: a document's _id is its creator
  pc,       \* where each press is, or how it was answered
  press,    \* its movie, user and isLike
  write,    \* the write it decided on
  found,    \* the _id of the record it read
  sent,     \* presses whose write is on its way to MongoDB
  stray,    \* those whose write is, but nobody waits for it any more
  result,   \* the isLike of the answer
  start,    \* history: what the button showed when the press arrived
  alone,    \* history: no other press of the button overlapped it
  failed    \* history: the calls, one read and one write per press, that failed

vars == <<up, movies, likes, pc, press, write, found, sent, stray, result, start, alone, failed>>

Running  == {"findMovie", "findUser", "findLike", "write", "findResult"}
Answered == {"ok", "badRequest", "unauthorized", "serverError"}

(* The button a press is about, and the documents stored for a button. *)
ButtonOf(r) == <<press[r].movie, press[r].user>>
Stored(d, b) == likes[d] # Null /\ <<likes[d].movie, likes[d].user>> = b
Shown(b) ==
  IF \E d \in Requests : Stored(d, b)
  THEN likes[CHOOSE d \in Requests : Stored(d, b)].isLike
  ELSE Null

OnItsWay == sent \cup stray

Active(r) == pc[r] \in Running \/ r \in OnItsWay

-----------------------------------------------------------------------------
Init ==
  /\ up = TRUE
  /\ movies \in SUBSET Movies
  /\ likes  = [r \in Requests |-> Null]
  /\ pc     = [r \in Requests |-> "idle"]
  /\ press  = [r \in Requests |-> Null]
  /\ write  = [r \in Requests |-> "none"]
  /\ found  = [r \in Requests |-> Null]
  /\ sent   = {}
  /\ stray  = {}
  /\ result = [r \in Requests |-> Null]
  /\ start  = [r \in Requests |-> Null]
  /\ alone  = [r \in Requests |-> TRUE]
  /\ failed = {}

(* The controller's createMovieLike (v) and createMovieDislike (~v). *)
Press(r, m, u, v) ==
  /\ up /\ pc[r] = "idle"
  /\ LET rivals == {q \in Requests \ {r} : Active(q) /\ ButtonOf(q) = <<m, u>>}
     IN  alone' = [q \in Requests |->
                     IF q \in rivals \/ (q = r /\ rivals # {}) THEN FALSE ELSE alone[q]]
  /\ press' = [press EXCEPT ![r] = [movie |-> m, user |-> u, isLike |-> v]]
  /\ start' = [start EXCEPT ![r] = Shown(<<m, u>>)]
  /\ pc' = [pc EXCEPT ![r] = "findMovie"]
  /\ UNCHANGED <<up, movies, likes, write, found, sent, stray, result, failed>>

FindMovie(r) ==
  /\ pc[r] = "findMovie"
  /\ pc' = [pc EXCEPT ![r] = IF press[r].movie \in movies THEN "findUser" ELSE "badRequest"]
  /\ UNCHANGED <<up, movies, likes, press, write, found, sent, stray, result, start, alone, failed>>

FindUser(r) ==
  /\ pc[r] = "findUser"
  /\ pc' = [pc EXCEPT ![r] =
              IF press[r].user \in Registered THEN "findLike" ELSE "unauthorized"]
  /\ UNCHANGED <<up, movies, likes, press, write, found, sent, stray, result, start, alone, failed>>

(* findOne reads the record; what follows runs up to the next await: the   *)
(* create and the delete are awaited, the save is only started.            *)
Send(r, op, next) ==
  /\ write' = [write EXCEPT ![r] = op]
  /\ sent' = sent \cup {r}
  /\ pc' = [pc EXCEPT ![r] = next]
  /\ UNCHANGED <<up, movies, likes, press, stray, result, start, alone, failed>>

(* A bug the checks must notice: the create is started but not awaited.    *)
FindNoLikeNoAwait(r) ==
  /\ pc[r] = "findLike"
  /\ ~ \E d \in Requests : Stored(d, ButtonOf(r))
  /\ Send(r, "create", "findResult")
  /\ UNCHANGED found

FindNoLike(r) ==
  /\ pc[r] = "findLike"
  /\ ~ \E d \in Requests : Stored(d, ButtonOf(r))
  /\ Send(r, "create", "write")
  /\ UNCHANGED found

(* A bug the checks must notice: a second press saves instead of deleting. *)
FindSameLikeSaves(r) ==
  /\ pc[r] = "findLike"
  /\ \E d \in Requests :
       /\ Stored(d, ButtonOf(r))
       /\ likes[d].isLike = press[r].isLike
       /\ found' = [found EXCEPT ![r] = d]
  /\ Send(r, "save", "findResult")

FindSameLike(r) ==
  /\ pc[r] = "findLike"
  /\ \E d \in Requests :
       /\ Stored(d, ButtonOf(r))
       /\ likes[d].isLike = press[r].isLike
       /\ found' = [found EXCEPT ![r] = d]
  /\ Send(r, "delete", "write")

FindOtherLike(r) ==
  /\ pc[r] = "findLike"
  /\ \E d \in Requests :
       /\ Stored(d, ButtonOf(r))
       /\ likes[d].isLike # press[r].isLike
       /\ found' = [found EXCEPT ![r] = d]
  /\ Send(r, "save", "findResult")

(* The writes.  One that outlives its process may still be carried out;    *)
(* nobody waits for its outcome.                                           *)
Arrive(r) == sent' = sent \ {r} /\ stray' = stray \ {r}
Resume(r, next) ==
  pc' = IF pc[r] = "write" THEN [pc EXCEPT ![r] = next] ELSE pc

(* Bugs the checks must notice: no unique index; an error nobody answers.  *)
CreateUnindexed(r) ==
  /\ r \in OnItsWay /\ write[r] = "create"
  /\ Arrive(r)
  /\ Resume(r, "findResult") /\ likes' = [likes EXCEPT ![r] = press[r]]
  /\ UNCHANGED <<up, movies, press, write, found, result, start, alone, failed>>

CreateHangs(r) ==
  /\ r \in OnItsWay /\ write[r] = "create"
  /\ ~ \E d \in Requests : Stored(d, ButtonOf(r))
  /\ Arrive(r)
  /\ Resume(r, "findResult") /\ likes' = [likes EXCEPT ![r] = press[r]]
  /\ UNCHANGED <<up, movies, press, write, found, result, start, alone, failed>>

Create(r) ==
  /\ r \in OnItsWay /\ write[r] = "create"
  /\ Arrive(r)
  /\ IF \E d \in Requests : Stored(d, ButtonOf(r))
     THEN Resume(r, "serverError") /\ UNCHANGED likes      \* E11000, unique index
     ELSE Resume(r, "findResult") /\ likes' = [likes EXCEPT ![r] = press[r]]
  /\ UNCHANGED <<up, movies, press, write, found, result, start, alone, failed>>

FindByIdAndDelete(r) ==
  /\ r \in OnItsWay /\ write[r] = "delete"
  /\ Arrive(r)
  /\ likes' = [likes EXCEPT ![found[r]] = Null]
  /\ Resume(r, "findResult")
  /\ UNCHANGED <<up, movies, press, write, found, result, start, alone, failed>>

(* save() updates isLike of the document with this _id. *)
Save(r) ==
  /\ r \in OnItsWay /\ write[r] = "save"
  /\ likes[found[r]] # Null
  /\ likes' = [likes EXCEPT ![found[r]].isLike = press[r].isLike]
  /\ Arrive(r)
  /\ UNCHANGED <<up, movies, pc, press, write, found, result, start, alone, failed>>

(* An unhandled rejection ends the process: running presses are lost, and  *)
(* so are the writes that had not yet left it, all but those in S.         *)
Exit(S) ==
  /\ up' = FALSE
  /\ pc' = [q \in Requests |-> IF pc[q] \in Running THEN "lost" ELSE pc[q]]
  /\ sent' = {}
  /\ stray' = stray \cup S

(* The document is gone: save() rejects with DocumentNotFoundError, and    *)
(* nobody has a handler for that in the process that started it.           *)
SaveFails(r) ==
  /\ r \in OnItsWay /\ write[r] = "save"
  /\ likes[found[r]] = Null
  /\ IF r \in stray
     THEN Arrive(r) /\ UNCHANGED <<up, pc>>
     ELSE \E S \in SUBSET (sent \ {r}) : Exit(S)
  /\ UNCHANGED <<movies, likes, press, write, found, result, start, alone, failed>>

(* MongoDB or the network fails a call; no press has more than one failing *)
(* read, since that ends it, and one write.                                *)
Fail(r, call) ==
  /\ Cardinality(failed) < MaxFailures
  /\ failed' = failed \cup {<<r, call>>}

(* An awaited read is rejected: Nest answers 500. *)
ReadFails(r) ==
  /\ pc[r] \in {"findMovie", "findUser", "findLike", "findResult"}
  /\ Fail(r, "read")
  /\ pc' = [pc EXCEPT ![r] = "serverError"]
  /\ UNCHANGED <<up, movies, likes, press, write, found, sent, stray, result, start, alone>>

(* So does an awaited write; it may have been carried out all the same, or *)
(* still be.                                                               *)
WriteRejected(r) ==
  /\ r \in sent /\ write[r] \in {"create", "delete"}
  /\ Fail(r, "write")
  /\ sent' = sent \ {r}
  /\ stray' \in {stray, stray \cup {r}}
  /\ Resume(r, "serverError")
  /\ UNCHANGED <<up, movies, likes, press, write, found, result, start, alone>>

(* Nobody handles the rejection of a save, whatever became of it. *)
SaveRejected(r) ==
  /\ r \in sent /\ write[r] = "save"
  /\ Fail(r, "write")
  /\ \E S \in SUBSET sent : Exit(S)
  /\ UNCHANGED <<movies, likes, press, write, found, result, start, alone>>

FindResult(r) ==
  /\ pc[r] = "findResult"
  /\ result' = [result EXCEPT ![r] = Shown(ButtonOf(r))]
  /\ pc' = [pc EXCEPT ![r] = "ok"]
  /\ UNCHANGED <<up, movies, likes, press, write, found, sent, stray, start, alone, failed>>

(* The platform starts the process again. *)
Restart ==
  /\ ~up
  /\ up' = TRUE
  /\ UNCHANGED <<movies, likes, pc, press, write, found, sent, stray, result, start, alone, failed>>

(* A bug the checks must notice: likes vanish under presses still running. *)
RemoveMovieAndLikes(m) ==
  /\ up /\ m \in movies
  /\ movies' = movies \ {m}
  /\ likes' = [d \in Requests |->
                 IF likes[d] # Null /\ likes[d].movie = m THEN Null ELSE likes[d]]
  /\ UNCHANGED <<up, pc, press, write, found, sent, stray, result, start, alone, failed>>

(* MovieService.remove: the likes of the movie stay. *)
RemoveMovie(m) ==
  /\ up /\ m \in movies
  /\ movies' = movies \ {m}
  /\ UNCHANGED <<up, likes, pc, press, write, found, sent, stray, result, start, alone, failed>>

-----------------------------------------------------------------------------
Works(r) ==
  \/ FindMovie(r) \/ FindUser(r)
  \/ FindNoLike(r) \/ FindSameLike(r) \/ FindOtherLike(r)
  \/ Create(r) \/ FindByIdAndDelete(r) \/ Save(r) \/ SaveFails(r)
  \/ FindResult(r)

Fails(r) == ReadFails(r) \/ WriteRejected(r) \/ SaveRejected(r)

Step(r) == Works(r) \/ Fails(r)

Next ==
  \/ \E r \in Requests, m \in Movies, u \in Users, v \in BOOLEAN : Press(r, m, u, v)
  \/ \E r \in Requests : Step(r)
  \/ \E m \in Movies : RemoveMovie(m)
  \/ Restart

Spec == Init /\ [][Next]_vars

(* The event loop runs every continuation, MongoDB answers every command   *)
(* whose call is not rejected before, one that nobody waits for included,  *)
(* and the platform restarts the process; nobody has to press a button.    *)
FairSpec == Spec /\ \A r \in Requests : WF_vars(Works(r)) /\ WF_vars(Restart)

-----------------------------------------------------------------------------
(* Every variable stays in its range, and a running press has a process.   *)
TypeOK ==
  /\ up \in BOOLEAN
  /\ movies \subseteq Movies
  /\ likes \in [Requests -> LikeDoc \cup {Null}]
  /\ pc \in [Requests -> Running \cup Answered \cup {"idle", "lost"}]
  /\ press \in [Requests -> LikeDoc \cup {Null}]
  /\ write \in [Requests -> {"none", "create", "delete", "save"}]
  /\ found \in [Requests -> Requests \cup {Null}]
  /\ sent \subseteq Requests
  /\ stray \subseteq Requests
  /\ result \in [Requests -> BOOLEAN \cup {Null}]
  /\ start \in [Requests -> BOOLEAN \cup {Null}]
  /\ alone \in [Requests -> BOOLEAN]
  /\ failed \subseteq Requests \X {"read", "write"}

(* Why presses cannot confuse records: a button has one record at most; a  *)
(* record was created for the button its _id stands for, by a write that   *)
(* has arrived; a press decides on its write once and keeps to the record  *)
(* of its own button, alive or not (851, 864, 876, and the unique index).  *)
OneRecordPerButton ==
  \A c, d \in Requests :
    likes[c] # Null /\ likes[d] # Null
      /\ <<likes[c].movie, likes[c].user>> = <<likes[d].movie, likes[d].user>>
    => c = d

Created(d, b) == write[d] = "create" /\ d \notin OnItsWay /\ ButtonOf(d) = b

RecordsKeepTheirButton ==
  \A d \in Requests :
    likes[d] # Null => Created(d, <<likes[d].movie, likes[d].user>>)

WritesKeepTheirRecord ==
  \A r \in Requests : write[r] \in {"delete", "save"} =>
    found[r] \in Requests /\ Created(found[r], ButtonOf(r))

OneWritePerPress ==
  \A r \in Requests :
    /\ pc[r] # "idle" => press[r] # Null
    /\ pc[r] \in {"idle", "findMovie", "findUser", "findLike"} => write[r] = "none"
    /\ write[r] = "none" => r \notin OnItsWay

LikeInv ==
  OneRecordPerButton /\ RecordsKeepTheirButton /\ WritesKeepTheirRecord /\ OneWritePerPress

(* What the buttons make of a press: off if they showed it, else it.       *)
Toggled(r) == IF start[r] = press[r].isLike THEN Null ELSE press[r].isLike

Exits == up /\ ~up'

(* A press no other press of the button overlaps, counting writes still on *)
(* their way, leaves the button toggled once its own write has arrived,    *)
(* unless the process exits then (817-929).                                *)
AlonePressToggles ==
  [][\A r \in Requests :
       Active(r) /\ ~Active(r)' /\ pc'[r] = "ok" /\ alone[r] /\ ~Exits
         => Shown(ButtonOf(r))' = Toggled(r)]_vars

(* Such a press never meets the unique index: it is answered with an error *)
(* only when MongoDB failed a call of its own, and with the toggled button *)
(* when it created or deleted the record (896, 915-928).                   *)
AlonePressAnswered ==
  \A r \in Requests : alone[r] =>
    /\ pc[r] = "serverError" => \E call \in {"read", "write"} : <<r, call>> \in failed
    /\ pc[r] = "ok" /\ write[r] # "save" => result[r] = Toggled(r)

(* Presses end the process only by a save (876): one that MongoDB has just *)
(* failed, or one of a record that a delete took, decided on the same      *)
(* reading of it (863) by another press; and those two overlapped.         *)
ExitNeedsRace ==
  [][Exits => \E r \in sent :
       /\ write[r] = "save"
       /\ \/ <<r, "write">> \in failed' \ failed
          \/ \E q \in Requests : /\ write[q] = "delete" /\ found[q] = found[r]
                                 /\ ~alone[q] /\ ~alone[r]]_vars

(* A press and its write come to an end: answered, or lost with a process. *)
PressSettles == \A r \in Requests : Active(r) ~> ~Active(r)

(* The abstract buttons: what a press saw follows from what it decided.    *)
LitAt(b) ==
  IF \E d \in Requests : Stored(d, b)
  THEN LET d == CHOOSE d \in Requests : Stored(d, b)
       IN  [by |-> d, isLike |-> likes[d].isLike]
  ELSE Null

PlanOf(r) ==
  IF write[r] = "none" THEN Null
  ELSE [button |-> ButtonOf(r),
        saw    |-> IF write[r] = "create" THEN Null
                   ELSE [by |-> found[r], isLike |-> (write[r] = "delete") = press[r].isLike],
        isLike |-> press[r].isLike]

LikeBar  == [b \in Movies \X Users |-> LitAt(b)]
PlanBar  == [r \in Requests |-> PlanOf(r)]
ActedBar == {r \in Requests : write[r] # "none" /\ r \notin OnItsWay}

Buttons == INSTANCE LikeButtons WITH like <- LikeBar, plan <- PlanBar, acted <- ActedBar

(* However presses overlap, get lost or outlive their process, each acts   *)
(* at most once, on what it saw, and never on a button switched meanwhile. *)
ImplementsLikeButtons == Buttons!Spec

(* What the buttons promise of every answer (movie.controller.ts:140-143): *)
(* a press alone on its button is answered with the button it leaves.      *)
AnswerShowsPress ==
  \A r \in Requests : alone[r] /\ pc[r] = "ok" => result[r] = Toggled(r)
=============================================================================
