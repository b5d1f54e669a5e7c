------------------------------ MODULE Records ------------------------------
(***************************************************************************)
(* The users, genres and directors, and logging in: UserService,           *)
(* GenreService and DirectorService, who each look a record up before they *)
(* change it and read it again afterwards, with no transaction around      *)
(* these, and AuthService.register, authenticate and login.  Every await   *)
(* of a request is a point where others may run.                           *)
(***************************************************************************)
EXTENDS Integers, FiniteSets

CONSTANTS
  Requests,   \* requests, numbered as they come; a record bears the number of
              \*   the request that made it
  Names,      \* e-mails of users, names of genres and directors
  Secrets,    \* passwords
  Empty,      \* the empty one
  Roles,      \* roles a user may be given
  Asks,       \* what is asked: [service, op, name, secret]
  Null

VARIABLES
  service,   \* the service looked at: what they keep is kept apart
  docs,      \* its records in the database
  pc,        \* where each request is, or how it was answered
  ask,       \* what it asks
  id,        \* the record it is about
  found,     \* what login has read
  result,    \* what it answered: a record with its id
  touched,   \* history: records changed after they were made
  known,     \* history: the users there have been since each login came
  together   \* history: pairs of requests that ran together

vars    == <<service, docs, pc, ask, id, found, result, touched, known, together>>
history == <<touched, known, together>>

Services == {"user", "genre", "director"}
Unique   == {"user", "genre"}   \* e-mail and name have a unique index
User     == 2                   \* Role.user, the default

Doc == [name : Names, secret : Secrets \cup {Null}, role : Roles \cup {Null}]
Ask == [service : Services, op : {"create", "update", "remove", "findOne", "login"},
        name : Names \cup {Null}, secret : Secrets \cup {Null}]

ASSUME NumberAssumption == Requests \subseteq Nat
ASSUME RoleAssumption == Roles \subseteq Nat /\ User \in Roles
ASSUME AskAssumption ==
  /\ Asks \subseteq Ask
  /\ \A a \in Asks : a.op \in {"create", "login"} => a.name # Null
  /\ \A a \in Asks : a.service = "user" /\ a.op \in {"create", "login"} => a.secret # Null
  /\ \A a \in Asks : a.op = "login" => a.service = "user"
  /\ \A a \in Asks : a.service # "user" => a.secret = Null
ASSUME NullAssumption ==
  /\ Null \notin Requests \cup Names \cup Secrets \cup Doc \cup Ask \cup Roles
  /\ Null \notin Requests \X Doc

Running  == {"find", "write", "reread", "compare"}
Answered == {"done", "taken", "missing", "denied", "conflict", "failed"}

By(r, op) == ask[r].op = op

Stored   == {d \in Requests : docs[d] # Null}
Named(n) == {d \in Stored : docs[d].name = n}
Shown(d) == <<d, docs[d]>>

(* The unique index: the write is refused with E11000.                     *)
TakenByOther(d, n) == service \in Unique /\ Named(n) \ {d} # {}

TypeOK ==
  /\ service \in Services
  /\ docs \in [Requests -> Doc \cup {Null}]
  /\ pc \in [Requests -> {"idle"} \cup Running \cup Answered]
  /\ ask \in [Requests -> Asks \cup {Null}]
  /\ id \in [Requests -> Requests \cup {Null}]
  /\ found \in [Requests -> (Requests \X Doc) \cup {Null}]
  /\ result \in [Requests -> (Requests \X (Doc \cup {Null})) \cup {Null}]
  /\ touched \subseteq Requests
  /\ known \in [Requests -> SUBSET (Requests \X Doc)]
  /\ together \subseteq SUBSET Requests
  /\ \A r \in Requests : pc[r] # "idle" => ask[r] \in Asks /\ id[r] \in Requests
  /\ \A r \in Requests : pc[r] = "compare" => found[r] # Null

Init ==
  /\ service \in Services
  /\ docs = [r \in Requests |-> Null]
  /\ pc = [r \in Requests |-> "idle"]
  /\ ask = [r \in Requests |-> Null] /\ id = [r \in Requests |-> Null]
  /\ found = [r \in Requests |-> Null] /\ result = [r \in Requests |-> Null]
  /\ touched = {} /\ known = [r \in Requests |-> {}] /\ together = {}

(* A request that creates is about the record it is to make; others name   *)
(* the id of a record there is, or of none: their own.  Only a user is     *)
(* looked up before it is made.                                            *)
Arrive(r, a, d) ==
  /\ pc[r] = "idle" /\ a.service = service
  /\ \A q \in Requests : q < r => pc[q] # "idle"
  /\ d = r \/ (a.op \in {"update", "remove", "findOne"} /\ docs[d] # Null)
  /\ pc' = [pc EXCEPT ![r] = IF a.op = "create" /\ a.service # "user" THEN "write" ELSE "find"]
  /\ ask' = [ask EXCEPT ![r] = a]
  /\ id' = [id EXCEPT ![r] = d]
  /\ known' = [known EXCEPT ![r] = IF a.op = "login" THEN {Shown(x) : x \in Stored} ELSE {}]
  /\ together' = together \cup {{r, q} : q \in {x \in Requests : pc[x] \in Running}}
  /\ UNCHANGED <<docs, found, result, touched>>

Go(r, step) == pc' = [pc EXCEPT ![r] = step]

Answer(r, how, what) ==
  /\ Go(r, how)
  /\ result' = [result EXCEPT ![r] = what]

Reading == UNCHANGED <<docs, ask, id, history>>

(* What a write to record d leaves; the logins that run may see it.        *)
Change(d, doc) ==
  /\ docs' = [docs EXCEPT ![d] = doc]
  /\ known' = [r \in Requests |-> IF doc # Null /\ pc[r] \in Running /\ By(r, "login")
                                  THEN known[r] \cup {<<d, doc>>} ELSE known[r]]
  /\ touched' = IF docs[d] = Null THEN touched ELSE touched \cup {d}
  /\ UNCHANGED <<ask, id, together>>

(***************************************************************************)
(* Creating.                                                               *)
(***************************************************************************)
(* A bug the checks must notice: the e-mail is not looked up.              *)
FindEmailUnchecked(r) ==
  /\ pc[r] = "find" /\ By(r, "create")
  /\ Go(r, "write")
  /\ UNCHANGED <<found, result>> /\ Reading

FindEmail(r) ==
  /\ pc[r] = "find" /\ By(r, "create")
  /\ Go(r, IF Named(ask[r].name) # {} THEN "taken" ELSE "write")
  /\ UNCHANGED <<found, result>> /\ Reading

(* bcrypt.hash comes first, for a user.                                    *)
New(r) == [name |-> ask[r].name, secret |-> ask[r].secret,
           role |-> IF service = "user" THEN User ELSE Null]

Create(r) ==
  /\ pc[r] = "write" /\ By(r, "create")
  /\ ~TakenByOther(r, ask[r].name)
  /\ Change(r, New(r))
  /\ IF service = "user" THEN Go(r, "reread") /\ UNCHANGED result
                      ELSE Answer(r, "done", <<r, New(r)>>)
  /\ UNCHANGED found

(* A bug the checks must notice: any user is read again.                   *)
RereadAny(r) ==
  /\ pc[r] = "reread" /\ By(r, "create")
  /\ \/ \E d \in Stored : Answer(r, "done", Shown(d))
     \/ Stored = {} /\ Answer(r, "done", <<r, Null>>)
  /\ UNCHANGED found /\ Reading

(* By e-mail, not by id.                                                   *)
RereadEmail(r) ==
  /\ pc[r] = "reread" /\ By(r, "create")
  /\ \/ \E d \in Named(ask[r].name) : Answer(r, "done", Shown(d))
     \/ Named(ask[r].name) = {} /\ Answer(r, "done", <<r, Null>>)
  /\ UNCHANGED found /\ Reading

(***************************************************************************)
(* Updating, removing and reading one.                                     *)
(***************************************************************************)
(* A bug the checks must notice: the record is not missed.                 *)
FindByIdUnchecked(r) ==
  /\ pc[r] = "find" /\ ask[r].op \in {"update", "remove"}
  /\ Go(r, "write")
  /\ UNCHANGED <<found, result>> /\ Reading

FindById(r) ==
  /\ pc[r] = "find" /\ ask[r].op \in {"update", "remove"}
  /\ Go(r, IF id[r] \in Stored THEN "write" ELSE "missing")
  /\ UNCHANGED <<found, result>> /\ Reading

(* DirectorService.findOne answers null where the others answer 404.       *)
FindOne(r) ==
  /\ pc[r] = "find" /\ By(r, "findOne")
  /\ \/ (id[r] \in Stored \/ service = "director") /\ Answer(r, "done", Shown(id[r]))
     \/ ~(id[r] \in Stored \/ service = "director") /\ Answer(r, "missing", Null)
  /\ UNCHANGED found /\ Reading

(* The fields that are given; an empty password is not hashed, and nothing *)
(* compares equal to what is no hash.                                      *)
Given(r, d) ==
  [docs[d] EXCEPT !.name   = IF ask[r].name = Null THEN @ ELSE ask[r].name,
                  !.secret = CASE ask[r].secret = Null -> @
                               [] ask[r].secret = Empty -> Null
                               [] OTHER -> ask[r].secret]

FindByIdAndUpdate(r) ==
  /\ pc[r] = "write" /\ By(r, "update")
  /\ docs[id[r]] # Null
  /\ ~TakenByOther(id[r], Given(r, id[r]).name)
  /\ Change(id[r], Given(r, id[r]))
  /\ Go(r, "reread")
  /\ UNCHANGED <<found, result>>

(* A bug the checks must notice: upsert.                                   *)
UpdateUpserts(r) ==
  /\ pc[r] = "write" /\ By(r, "update")
  /\ docs[id[r]] = Null
  /\ ask[r].name # Null /\ ~TakenByOther(id[r], ask[r].name)
  /\ Change(id[r], New(r))
  /\ Go(r, "reread")
  /\ UNCHANGED <<found, result>>

(* A record that has gone meanwhile is not missed.                         *)
UpdateNothing(r) ==
  /\ pc[r] = "write" /\ By(r, "update")
  /\ docs[id[r]] = Null
  /\ Go(r, "reread")
  /\ UNCHANGED <<found, result>> /\ Reading

RereadId(r) ==
  /\ pc[r] = "reread" /\ By(r, "update")
  /\ Answer(r, "done", Shown(id[r]))
  /\ UNCHANGED found /\ Reading

FindByIdAndDelete(r) ==
  /\ pc[r] = "write" /\ By(r, "remove")
  /\ Change(id[r], Null)
  /\ Answer(r, "done", <<id[r], Null>>)
  /\ UNCHANGED found

Conflict(r) ==
  /\ pc[r] = "write"
  /\ \/ By(r, "create") /\ TakenByOther(r, ask[r].name)
     \/ /\ By(r, "update") /\ docs[id[r]] # Null
        /\ TakenByOther(id[r], Given(r, id[r]).name)
  /\ Answer(r, "conflict", Null)
  /\ UNCHANGED found /\ Reading

(***************************************************************************)
(* Logging in: password and role are read, then the password compared and  *)
(* two tokens signed with that role.                                       *)
(***************************************************************************)
FindAccount(r) ==
  /\ pc[r] = "find" /\ By(r, "login")
  /\ \/ /\ Named(ask[r].name) = {}
        /\ Go(r, "denied") /\ UNCHANGED found
     \/ \E d \in Named(ask[r].name) :
          found' = [found EXCEPT ![r] = Shown(d)] /\ Go(r, "compare")
  /\ UNCHANGED result /\ Reading

(* A bug the checks must notice: the role is read after the comparison.    *)
CompareThenRole(r) ==
  /\ pc[r] = "compare"
  /\ LET d == found[r][1]
     IN IF docs[d] # Null /\ found[r][2].secret = ask[r].secret
        THEN Answer(r, "done", <<d, [found[r][2] EXCEPT !.role = docs[d].role]>>)
        ELSE Answer(r, "denied", Null)
  /\ UNCHANGED found /\ Reading

Compare(r) ==
  /\ pc[r] = "compare"
  /\ IF found[r][2].secret = ask[r].secret
     THEN Answer(r, "done", found[r])
     ELSE Answer(r, "denied", Null)
  /\ UNCHANGED found /\ Reading

(* The database may fail any call; what was written stays.                 *)
DatabaseFails(r) ==
  /\ pc[r] \in Running \ {"compare"}
  /\ Answer(r, "failed", Null)
  /\ UNCHANGED found /\ Reading

(* Roles are changed in the database.                                      *)
ChangeRole(d, role) ==
  /\ service = "user" /\ d \in Stored
  /\ Change(d, [docs[d] EXCEPT !.role = role])
  /\ UNCHANGED <<pc, found, result>>

UserService(r) ==
  /\ service = "user"
  /\ \/ FindEmail(r) \/ Create(r) \/ RereadEmail(r) \/ FindById(r) \/ FindOne(r)
     \/ FindByIdAndUpdate(r) \/ UpdateNothing(r) \/ RereadId(r) \/ FindByIdAndDelete(r)
     \/ Conflict(r) \/ FindAccount(r) \/ Compare(r)

GenreService(r) ==
  /\ service = "genre"
  /\ \/ Create(r) \/ FindById(r) \/ FindOne(r) \/ FindByIdAndUpdate(r) \/ UpdateNothing(r)
     \/ RereadId(r) \/ FindByIdAndDelete(r) \/ Conflict(r)

DirectorService(r) ==
  /\ service = "director"
  /\ \/ Create(r) \/ FindById(r) \/ FindOne(r) \/ FindByIdAndUpdate(r) \/ UpdateNothing(r)
     \/ RereadId(r) \/ FindByIdAndDelete(r)

Serve(r) == UserService(r) \/ GenreService(r) \/ DirectorService(r)

Step ==
  \/ \E r \in Requests :
       \/ \E a \in Asks, d \in Requests : Arrive(r, a, d)
       \/ Serve(r)
       \/ DatabaseFails(r)
  \/ \E d \in Requests, role \in Roles : ChangeRole(d, role)

Next == Step /\ UNCHANGED service

Spec == Init /\ [][Next]_vars

(***************************************************************************)
(* Properties.                                                             *)
(***************************************************************************)
Overlap(r, q) == r # q /\ {r, q} \in together

(* A registration is answered with the account it made, unless that one    *)
(* has been changed since: the account is read again by its e-mail, after  *)
(* a slow hash and an insert others may overtake (user.service.ts 27-88).  *)
RegistrationAnswersOwn ==
  \A r \in Requests : pc[r] = "done" /\ By(r, "create")
    => result[r] = <<r, New(r)>> \/ r \in touched

(* A registration fails on the index, with a 500 instead of the 400 for a  *)
(* taken e-mail, only if a request for the same e-mail ran at the same     *)
(* time (user.service.ts 30-58).                                           *)
ConflictNeedsRace ==
  \A r \in Requests : pc[r] = "conflict" /\ By(r, "create") /\ service = "user"
    => \E q \in Requests : Overlap(r, q) /\ ask[q].name = ask[r].name
                           /\ ask[q].op \in {"create", "update"}

(* Whoever logs in gets the role that went with this e-mail and this       *)
(* password at one moment while his login ran, however long the comparison *)
(* takes and whatever is changed meanwhile (auth.service.ts 126-186).      *)
LoginIsSnapshot ==
  \A r \in Requests : pc[r] = "done" /\ By(r, "login")
    => /\ result[r] \in known[r]
       /\ result[r][2].name = ask[r].name /\ result[r][2].secret = ask[r].secret

(* An update is answered with nothing only if a removal of the record ran  *)
(* at the same time, and without its name only if another update of the    *)
(* record did (user.service.ts 152-168, genre.service.ts 90-117,           *)
(* director.service.ts 66-97).                                             *)
UpdateAnswerShowsIt ==
  \A r \in Requests : pc[r] = "done" /\ By(r, "update")
    => IF result[r][2] = Null
       THEN \E q \in Requests : Overlap(r, q) /\ By(q, "remove") /\ id[q] = id[r]
       ELSE \/ ask[r].name \in {Null, result[r][2].name}
            \/ \E q \in Requests : Overlap(r, q) /\ By(q, "update") /\ id[q] = id[r]

(* What a removal has answered is gone for good, though updates that found *)
(* the record before go on (user.service.ts 152 and 199).                  *)
RemovedIsGone ==
  \A r \in Requests : pc[r] = "done" /\ By(r, "remove") => docs[id[r]] = Null
=============================================================================
