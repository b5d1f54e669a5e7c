--------------------------- MODULE RecordsProofs ---------------------------
(***************************************************************************)
(* Proofs about Records, for any requests, names and passwords: types, and *)
(* the invariant behind every safety property the run checks.  It says     *)
(* what a request that is under way knows of a record which others may     *)
(* change: of a record looked up, that it is there unless a removal ran    *)
(* together with it; of a name that was free, that whoever has it ran      *)
(* together with the request; of what a login has read, that it was so.    *)
(***************************************************************************)
EXTENDS Records, TLAPS

(* A request that has been answered, or is past what it looked up.         *)
Past(r) == pc[r] \notin {"idle", "find", "write"}

(* A record is that of a create that is past its insert.                   *)
DocsWereMade == \A d \in Requests : docs[d] # Null => Past(d) /\ By(d, "create")

(* A request is about its own number or about a record there was; only a   *)
(* login compares.                                                         *)
IdsAgree ==
  \A r \in Requests :
    /\ pc[r] = "idle" => ask[r] = Null
    /\ pc[r] = "compare" => By(r, "login")
    /\ pc[r] # "idle" /\ ask[r].op = "create" => id[r] = r
    /\ pc[r] # "idle" /\ ask[r].op # "create" =>
         id[r] = r \/ (Past(id[r]) /\ By(id[r], "create"))

(* The unique index.                                                       *)
NamesApart ==
  service \in Unique =>
    \A d, e \in Stored : docs[d].name = docs[e].name => d = e

(* Requests that run at the same time have run together, and only those    *)
(* that have come.                                                         *)
RunnersMet ==
  \A r, q \in Requests : r # q =>
    /\ pc[r] \in Running /\ pc[q] \in Running => {r, q} \in together
    /\ {r, q} \in together => pc[r] # "idle"

(* The account a registration has made is as it made it, or was changed.   *)
OwnIsFresh ==
  \A r \in Requests : pc[r] = "reread" /\ By(r, "create")
    => service = "user" /\ (docs[r] = New(r) \/ r \in touched)

(* Whoever has the name a registration found free ran together with it.    *)
Rival(r) ==
  \E q \in Requests : Overlap(r, q) /\ ask[q].name = ask[r].name
                      /\ ask[q].op \in {"create", "update"}
TakersMet ==
  \A r \in Requests :
    service = "user" /\ pc[r] = "write" /\ By(r, "create") /\ Named(ask[r].name) \ {r} # {} => Rival(r)

(* What a login may know, and what it has read.                            *)
LoginsKnow ==
  \A r \in Requests : pc[r] \in Running /\ By(r, "login") =>
    /\ service = "user"
    /\ {Shown(d) : d \in Stored} \subseteq known[r]
    /\ pc[r] = "compare" => found[r] \in known[r] /\ found[r][2].name = ask[r].name

(* The record an update has found, and what it has left there.             *)
RemoverMet(r) == \E q \in Requests : Overlap(r, q) /\ By(q, "remove") /\ id[q] = id[r]
UpdaterMet(r) == \E q \in Requests : Overlap(r, q) /\ By(q, "update") /\ id[q] = id[r]
UpdatesShow ==
  \A r \in Requests : pc[r] \in {"write", "reread"} /\ By(r, "update") =>
    /\ docs[id[r]] # Null \/ RemoverMet(r)
    /\ pc[r] = "reread" /\ docs[id[r]] # Null
         => ask[r].name \in {Null, docs[id[r]].name} \/ UpdaterMet(r)

IInv == /\ TypeOK /\ DocsWereMade /\ IdsAgree /\ NamesApart /\ RunnersMet /\ OwnIsFresh
        /\ TakersMet /\ LoginsKnow /\ UpdatesShow
        /\ RegistrationAnswersOwn /\ ConflictNeedsRace /\ LoginIsSnapshot
        /\ UpdateAnswerShowsIt /\ RemovedIsGone

-----------------------------------------------------------------------------
(* The steps that write nothing.                                           *)
Reads(r) ==
  \/ FindEmail(r) \/ RereadEmail(r) \/ FindById(r) \/ FindOne(r) \/ UpdateNothing(r)
  \/ RereadId(r) \/ Conflict(r) \/ FindAccount(r) \/ Compare(r) \/ DatabaseFails(r)

(* The steps, none of which leaves the service that was picked.            *)
LEMMA StepCases ==
  ASSUME [Next]_vars
  PROVE  \/ UNCHANGED vars
         \/ /\ service' = service
            /\ \/ \E r \in Requests :
                    \/ \E a \in Asks, d \in Requests : Arrive(r, a, d)
                    \/ Reads(r) \/ Create(r) \/ FindByIdAndUpdate(r) \/ FindByIdAndDelete(r)
               \/ \E d \in Requests, role \in Roles : ChangeRole(d, role)
BY DEF Next, Step, Serve, UserService, GenreService, DirectorService, Reads, vars

(* They leave all but the request alone, and lead on.                      *)
LEMMA ReadsFrame ==
  ASSUME TypeOK, IdsAgree, NEW r \in Requests, Reads(r)
  PROVE  /\ UNCHANGED <<docs, ask, id, touched, known, together>>
         /\ pc[r] \in Running
         /\ pc'[r] \in Running \cup Answered
         /\ pc'[r] # "find"
         /\ pc'[r] = "write" => pc[r] = "find"
         /\ By(r, "create") => pc'[r] # "reread"
         /\ By(r, "remove") => pc'[r] # "done"
         /\ pc' = [pc EXCEPT ![r] = pc'[r]]
         /\ \A q \in Requests \ {r} :
              pc'[q] = pc[q] /\ found'[q] = found[q] /\ result'[q] = result[q]
<1> USE DEF TypeOK, Running, Answered, Reading, history, Go, Answer, By
<1>1. CASE FindEmail(r)
  BY <1>1 DEF FindEmail
<1>2. CASE RereadEmail(r)
  BY <1>2 DEF RereadEmail
<1>3. CASE FindById(r)
  BY <1>3 DEF FindById
<1>4. CASE FindOne(r)
  BY <1>4 DEF FindOne
<1>5. CASE UpdateNothing(r)
  BY <1>5 DEF UpdateNothing
<1>6. CASE RereadId(r)
  BY <1>6 DEF RereadId
<1>7. CASE Conflict(r)
  BY <1>7 DEF Conflict
<1>8. CASE FindAccount(r)
  BY <1>8 DEF FindAccount
<1>9. CASE Compare(r)
  BY <1>9 DEF Compare, IdsAgree
<1>10. CASE DatabaseFails(r)
  BY <1>10 DEF DatabaseFails
<1> QED
  BY <1>1, <1>2, <1>3, <1>4, <1>5, <1>6, <1>7, <1>8, <1>9, <1>10 DEF Reads

-----------------------------------------------------------------------------
(* Types.                                                                  *)
LEMMA NewType ==
  ASSUME TypeOK, NEW r \in Requests, pc[r] # "idle", By(r, "create")
  PROVE  New(r) \in Doc /\ New(r) # Null
<1>1. ask[r] \in Asks /\ ask[r] \in Ask /\ ask[r].name # Null
  BY AskAssumption DEF TypeOK, By
<1>2. New(r) \in Doc
  BY <1>1, RoleAssumption DEF New, Doc, Ask
<1> QED
  BY <1>2, NullAssumption

(* What an update gives is a record.                                       *)
LEMMA GivenType ==
  ASSUME TypeOK, NEW r \in Requests, pc[r] # "idle", docs[id[r]] # Null
  PROVE  Given(r, id[r]) \in Doc /\ Given(r, id[r]) # Null
<1>1. ask[r] \in Ask /\ id[r] \in Requests /\ docs[id[r]] \in Doc
  BY AskAssumption DEF TypeOK
<1>2. Given(r, id[r]) \in Doc
  BY <1>1 DEF Given, Doc, Ask
<1> QED
  BY <1>2, NullAssumption

(* A write leaves a record or nothing, and keeps the types.                *)
LEMMA ChangeType ==
  ASSUME TypeOK, NEW d \in Requests, NEW doc \in Doc \cup {Null}, Change(d, doc)
  PROVE  /\ docs' \in [Requests -> Doc \cup {Null}]
         /\ known' \in [Requests -> SUBSET (Requests \X Doc)]
         /\ touched' \subseteq Requests
         /\ UNCHANGED <<ask, id, together>>
<1>1. doc # Null => <<d, doc>> \in Requests \X Doc
  OBVIOUS
<1> QED
  BY <1>1 DEF TypeOK, Change

(* What is read is a record with its id, or its id alone.                  *)
LEMMA ShownType ==
  ASSUME TypeOK, NEW d \in Requests
  PROVE  /\ Shown(d) \in Requests \X (Doc \cup {Null})
         /\ docs[d] # Null => Shown(d) \in Requests \X Doc /\ Shown(d) # Null
<1>1. Shown(d) \in Requests \X (Doc \cup {Null})
  BY DEF TypeOK, Shown
<1>2. ASSUME docs[d] # Null
      PROVE  Shown(d) \in Requests \X Doc
  BY <1>2 DEF TypeOK, Shown
<1> QED
  BY <1>1, <1>2, NullAssumption

(* Every step keeps every variable in its range.                           *)
LEMMA TypeStep ==
  ASSUME TypeOK, IdsAgree, [Next]_vars
  PROVE  TypeOK'
<1> USE DEF TypeOK, Running, Answered, Go, Answer, Reading, history
<1>1. CASE UNCHANGED vars
  BY <1>1 DEF vars
<1>2. ASSUME NEW r \in Requests, NEW a \in Asks, NEW d \in Requests, Arrive(r, a, d),
             service' = service
      PROVE  TypeOK'
  <2>1. {Shown(x) : x \in Stored} \subseteq Requests \X Doc
    BY ShownType DEF Stored
  <2>2. together' \subseteq SUBSET Requests
    BY <1>2 DEF Arrive
  <2>3. known' \in [Requests -> SUBSET (Requests \X Doc)]
    BY <1>2, <2>1 DEF Arrive
  <2> QED
    BY <1>2, <2>2, <2>3 DEF Arrive
<1>3. ASSUME NEW r \in Requests, Reads(r), service' = service
      PROVE  TypeOK'
  <2>0. pc[r] \in Running /\ id[r] \in Requests /\ ask[r] \in Asks
    BY <1>3, ReadsFrame
  <2>1. CASE FindEmail(r) \/ FindById(r) \/ UpdateNothing(r) \/ Conflict(r) \/ DatabaseFails(r)
    BY <1>3, <2>0, <2>1 DEF FindEmail, FindById, UpdateNothing, Conflict, DatabaseFails
  <2>2. CASE RereadEmail(r)
    <3>1. PICK x \in Requests \X (Doc \cup {Null}) : Answer(r, "done", x)
      BY <2>2, ShownType DEF RereadEmail, Named, Stored
    <3> QED
      BY <1>3, <2>2, <3>1 DEF RereadEmail
  <2>3. CASE FindOne(r) \/ RereadId(r)
    <3>1. PICK x \in (Requests \X (Doc \cup {Null})) \cup {Null} : result' = [result EXCEPT ![r] = x]
      BY <2>0, <2>3, ShownType DEF FindOne, RereadId
    <3> HIDE DEF Answer
    <3>2. pc' = [pc EXCEPT ![r] = pc'[r]] /\ pc'[r] \in Answered /\ found' = found /\ Reading
      BY <2>3 DEF FindOne, RereadId, Answer
    <3> QED
      BY <1>3, <2>0, <3>1, <3>2
  <2>4. CASE FindAccount(r)
    <3>1. CASE Named(ask[r].name) = {} /\ Go(r, "denied") /\ UNCHANGED found
      BY <1>3, <2>0, <2>4, <3>1 DEF FindAccount
    <3>2. ASSUME NEW d \in Named(ask[r].name),
                 found' = [found EXCEPT ![r] = Shown(d)], Go(r, "compare")
          PROVE  TypeOK'
      <4>1. Shown(d) \in Requests \X Doc /\ Shown(d) # Null
        BY <3>2, ShownType DEF Named, Stored
      <4> QED
        BY <1>3, <2>0, <2>4, <3>2, <4>1 DEF FindAccount
    <3> QED
      BY <2>4, <3>1, <3>2 DEF FindAccount
  <2>5. CASE Compare(r)
    <3>1. found[r] \in Requests \X (Doc \cup {Null})
      BY <2>5 DEF Compare
    <3> QED
      BY <1>3, <2>0, <2>5, <3>1 DEF Compare
  <2> QED
    BY <1>3, <2>1, <2>2, <2>3, <2>4, <2>5 DEF Reads
<1>4. ASSUME NEW r \in Requests, Create(r), service' = service
      PROVE  TypeOK'
  <2>1. New(r) \in Doc /\ New(r) # Null
    BY <1>4, NewType DEF Create
  <2>2. <<r, New(r)>> \in Requests \X (Doc \cup {Null})
    BY <2>1
  <2> HIDE DEF TypeOK
  <2>3. /\ docs' \in [Requests -> Doc \cup {Null}]
        /\ known' \in [Requests -> SUBSET (Requests \X Doc)]
        /\ touched' \subseteq Requests
        /\ UNCHANGED <<ask, id, together>>
    BY <1>4, <2>1, ChangeType DEF Create
  <2> QED
    BY <1>4, <2>1, <2>2, <2>3 DEF Create, TypeOK
<1>5. ASSUME NEW r \in Requests, FindByIdAndUpdate(r), service' = service
      PROVE  TypeOK'
  <2>1. Given(r, id[r]) \in Doc
    BY <1>5, GivenType DEF FindByIdAndUpdate
  <2>2. id[r] \in Requests
    BY <1>5 DEF FindByIdAndUpdate
  <2> HIDE DEF TypeOK
  <2>3. /\ docs' \in [Requests -> Doc \cup {Null}]
        /\ known' \in [Requests -> SUBSET (Requests \X Doc)]
        /\ touched' \subseteq Requests
        /\ UNCHANGED <<ask, id, together>>
    BY <1>5, <2>1, <2>2, ChangeType DEF FindByIdAndUpdate
  <2> QED
    BY <1>5, <2>3 DEF FindByIdAndUpdate, TypeOK
<1>6. ASSUME NEW r \in Requests, FindByIdAndDelete(r), service' = service
      PROVE  TypeOK'
  <2>1. id[r] \in Requests
    BY <1>6 DEF FindByIdAndDelete
  <2> HIDE DEF TypeOK
  <2>2. /\ docs' \in [Requests -> Doc \cup {Null}]
        /\ known' \in [Requests -> SUBSET (Requests \X Doc)]
        /\ touched' \subseteq Requests
        /\ UNCHANGED <<ask, id, together>>
    BY <1>6, <2>1, ChangeType DEF FindByIdAndDelete
  <2>3. <<id[r], Null>> \in Requests \X (Doc \cup {Null})
    BY <2>1
  <2> QED
    BY <1>6, <2>2, <2>3 DEF FindByIdAndDelete, TypeOK
<1>7. ASSUME NEW d \in Requests, NEW role \in Roles, ChangeRole(d, role), service' = service
      PROVE  TypeOK'
  <2>1. [docs[d] EXCEPT !.role = role] \in Doc
    BY <1>7 DEF ChangeRole, Stored, Doc
  <2> HIDE DEF TypeOK
  <2>2. /\ docs' \in [Requests -> Doc \cup {Null}]
        /\ known' \in [Requests -> SUBSET (Requests \X Doc)]
        /\ touched' \subseteq Requests
        /\ UNCHANGED <<ask, id, together>>
    BY <1>7, <2>1, ChangeType DEF ChangeRole
  <2> QED
    BY <1>7, <2>2 DEF ChangeRole, TypeOK
<1> HIDE DEF TypeOK
<1> QED
  BY <1>1, <1>2, <1>3, <1>4, <1>5, <1>6, <1>7, StepCases

-----------------------------------------------------------------------------
(* The parts of the invariant, each with the steps that could disturb it.  *)
LEMMA DocsWereMadeStep ==
  ASSUME TypeOK, IdsAgree, DocsWereMade, [Next]_vars
  PROVE  DocsWereMade'
<1> USE DEF TypeOK, DocsWereMade, Past, By, Go, Answer
<1>1. CASE UNCHANGED vars
  BY <1>1 DEF vars
<1>2. ASSUME NEW r \in Requests, NEW a \in Asks, NEW d \in Requests, Arrive(r, a, d)
      PROVE  DocsWereMade'
  BY <1>2 DEF Arrive
<1>3. ASSUME NEW r \in Requests, Reads(r)
      PROVE  DocsWereMade'
  BY <1>3, ReadsFrame DEF Running, Answered
<1>4. ASSUME NEW r \in Requests, Create(r)
      PROVE  DocsWereMade'
  BY <1>4 DEF Create, Change
<1>5. ASSUME NEW r \in Requests, FindByIdAndUpdate(r) \/ FindByIdAndDelete(r)
      PROVE  DocsWereMade'
  BY <1>5 DEF FindByIdAndUpdate, FindByIdAndDelete, Change
<1>6. ASSUME NEW d \in Requests, NEW role \in Roles, ChangeRole(d, role)
      PROVE  DocsWereMade'
  BY <1>6 DEF ChangeRole, Change, Stored
<1> QED
  BY <1>1, <1>2, <1>3, <1>4, <1>5, <1>6, StepCases

(* A request names a record that was made, and a create itself.            *)
LEMMA IdsAgreeStep ==
  ASSUME TypeOK, DocsWereMade, IdsAgree, [Next]_vars
  PROVE  IdsAgree'
<1> USE DEF TypeOK, IdsAgree, Past, By, Go, Answer
<1>1. CASE UNCHANGED vars
  BY <1>1 DEF vars
<1>2. ASSUME NEW r \in Requests, NEW a \in Asks, NEW d \in Requests, Arrive(r, a, d)
      PROVE  IdsAgree'
  <2>1. a \in Ask
    BY AskAssumption
  <2>2. d = r \/ (a.op # "create" /\ d # r /\ Past(d) /\ By(d, "create"))
    BY <1>2 DEF Arrive, DocsWereMade
  <2> QED
    BY <1>2, <2>1, <2>2 DEF Arrive
<1>3. ASSUME NEW r \in Requests, Reads(r)
      PROVE  IdsAgree'
  <2>1. pc'[r] = "compare" => By(r, "login")
    BY <1>3 DEF Reads, FindEmail, RereadEmail, FindById, FindOne, UpdateNothing, RereadId,
                Conflict, FindAccount, Compare, DatabaseFails
  <2> QED
    BY <1>3, <2>1, ReadsFrame DEF Running, Answered
<1>4. ASSUME NEW r \in Requests, Create(r)
      PROVE  IdsAgree'
  BY <1>4 DEF Create, Change
<1>5. ASSUME NEW r \in Requests, FindByIdAndUpdate(r) \/ FindByIdAndDelete(r)
      PROVE  IdsAgree'
  BY <1>5 DEF FindByIdAndUpdate, FindByIdAndDelete, Change
<1>6. ASSUME NEW d \in Requests, NEW role \in Roles, ChangeRole(d, role)
      PROVE  IdsAgree'
  BY <1>6 DEF ChangeRole, Change
<1> QED
  BY <1>1, <1>2, <1>3, <1>4, <1>5, <1>6, StepCases

(* The unique index keeps names apart, through updates as well.            *)
LEMMA NamesApartStep ==
  ASSUME TypeOK, IdsAgree, NamesApart, [Next]_vars
  PROVE  NamesApart'
<1> USE DEF TypeOK, NamesApart, Stored
<1>1. CASE UNCHANGED vars
  BY <1>1 DEF vars
<1>2. ASSUME service' = service, docs' = docs
      PROVE  NamesApart'
  BY <1>2
<1>3. ASSUME NEW d \in Requests, NEW doc \in Doc, Change(d, doc), service' = service,
             (doc.name = docs[d].name /\ docs[d] # Null) \/ ~TakenByOther(d, doc.name)
      PROVE  NamesApart'
  BY <1>3 DEF Change, TakenByOther, Named
<1>4. ASSUME NEW r \in Requests, Create(r), service' = service
      PROVE  NamesApart'
  <2>1. New(r) \in Doc /\ New(r).name = ask[r].name
    BY <1>4, NewType DEF Create, New
  <2> QED
    BY <1>3, <1>4, <2>1 DEF Create
<1>5. ASSUME NEW r \in Requests, FindByIdAndUpdate(r), service' = service
      PROVE  NamesApart'
  <2>1. Given(r, id[r]) \in Doc /\ id[r] \in Requests
    BY <1>5, GivenType DEF FindByIdAndUpdate
  <2> QED
    BY <1>3, <1>5, <2>1 DEF FindByIdAndUpdate
<1>6. ASSUME NEW r \in Requests, FindByIdAndDelete(r), service' = service
      PROVE  NamesApart'
  BY <1>6 DEF FindByIdAndDelete, Change
<1>7. ASSUME NEW d \in Requests, NEW role \in Roles, ChangeRole(d, role), service' = service
      PROVE  NamesApart'
  <2> DEFINE doc == [docs[d] EXCEPT !.role = role]
  <2>1. doc \in Doc /\ doc.name = docs[d].name /\ docs[d] # Null
    BY <1>7 DEF ChangeRole, Doc
  <2> QED
    BY <1>3, <1>7, <2>1 DEF ChangeRole
<1> QED
  BY <1>1, <1>2, <1>4, <1>5, <1>6, <1>7, StepCases, ReadsFrame DEF Arrive

(* Requests that run together have met.                                    *)
LEMMA RunnersMetStep ==
  ASSUME TypeOK, IdsAgree, RunnersMet, [Next]_vars
  PROVE  RunnersMet'
<1> USE DEF TypeOK, RunnersMet, Go, Answer
<1>1. CASE UNCHANGED vars
  BY <1>1 DEF vars
<1>2. ASSUME NEW r \in Requests, NEW a \in Asks, NEW d \in Requests, Arrive(r, a, d)
      PROVE  RunnersMet'
  <2>1. \A x \in Requests : pc[x] \in Running => {r, x} \in together'
    BY <1>2 DEF Arrive
  <2>2. \A x, y \in Requests : {x, y} = {y, x}
    OBVIOUS
  <2>3. \A x, y \in Requests : {x, y} \in together' =>
          {x, y} \in together \/ \E z \in Requests : pc[z] \in Running /\ {x, y} = {r, z}
    BY <1>2 DEF Arrive
  <2>4. pc' = [pc EXCEPT ![r] = pc'[r]] /\ pc'[r] # "idle" /\ pc[r] = "idle"
    BY <1>2 DEF Arrive
  <2>5. together \subseteq together'
    BY <1>2 DEF Arrive
  <2>6. ASSUME NEW x \in Requests, NEW y \in Requests, x # y, {x, y} \in together'
        PROVE  pc'[x] # "idle"
    <3>1. \A z \in Requests : {x, y} = {r, z} => x = r \/ x = z
      OBVIOUS
    <3>2. CASE {x, y} \in together
      BY <2>4, <2>6, <3>2 DEF Running
    <3>3. ASSUME NEW z \in Requests, pc[z] \in Running, {x, y} = {r, z}
          PROVE  pc[x] # "idle" \/ x = r
      <4>1. x = r \/ x = z
        BY <3>1, <3>3
      <4> QED
        BY <3>3, <4>1 DEF Running
    <3>4. pc[x] # "idle" \/ x = r
      BY <2>3, <2>6, <3>2, <3>3
    <3> QED
      BY <2>4, <3>4
  <2>7. \A x, y \in Requests : x # y /\ pc'[x] \in Running /\ pc'[y] \in Running => {x, y} \in together'
    BY <2>1, <2>2, <2>4, <2>5
  <2> QED
    BY <2>6, <2>7
<1>3. ASSUME NEW r \in Requests, Reads(r)
      PROVE  RunnersMet'
  BY <1>3, ReadsFrame DEF Running, Answered
<1>4. ASSUME NEW r \in Requests, Create(r) \/ FindByIdAndUpdate(r) \/ FindByIdAndDelete(r)
      PROVE  RunnersMet'
  BY <1>4 DEF Create, FindByIdAndUpdate, FindByIdAndDelete, Change, Running
<1>5. ASSUME NEW d \in Requests, NEW role \in Roles, ChangeRole(d, role)
      PROVE  RunnersMet'
  BY <1>5 DEF ChangeRole, Change
<1> QED
  BY <1>1, <1>2, <1>3, <1>4, <1>5, StepCases

(* A record that was removed is not made again: whoever names it names a   *)
(* create that is past its insert.                                         *)
LEMMA RemovedIsGoneStep ==
  ASSUME TypeOK, IdsAgree, RemovedIsGone, [Next]_vars
  PROVE  RemovedIsGone'
<1> USE DEF TypeOK, RemovedIsGone, By, Go, Answer
<1>1. CASE UNCHANGED vars
  BY <1>1 DEF vars
<1>2. ASSUME NEW r \in Requests, NEW a \in Asks, NEW d \in Requests, Arrive(r, a, d)
      PROVE  RemovedIsGone'
  BY <1>2 DEF Arrive
<1>3. ASSUME NEW r \in Requests, Reads(r)
      PROVE  RemovedIsGone'
  BY <1>3, ReadsFrame
<1>4. ASSUME NEW r \in Requests, Create(r)
      PROVE  RemovedIsGone'
  <2>1. \A q \in Requests : pc[q] = "done" /\ By(q, "remove") => id[q] # r
    BY <1>4 DEF Create, IdsAgree, Past
  <2> QED
    BY <1>4, <2>1 DEF Create, Change
<1>5. ASSUME NEW r \in Requests, FindByIdAndUpdate(r) \/ FindByIdAndDelete(r)
      PROVE  RemovedIsGone'
  BY <1>5 DEF FindByIdAndUpdate, FindByIdAndDelete, Change
<1>6. ASSUME NEW d \in Requests, NEW role \in Roles, ChangeRole(d, role)
      PROVE  RemovedIsGone'
  BY <1>6 DEF ChangeRole, Change, Stored
<1> QED
  BY <1>1, <1>2, <1>3, <1>4, <1>5, <1>6, StepCases

-----------------------------------------------------------------------------
(* A write changes the record of a registration only if it says so.        *)
LEMMA ChangeTouches ==
  ASSUME TypeOK, NEW d \in Requests, NEW doc \in Doc \cup {Null}, Change(d, doc),
         NEW q \in Requests, docs[q] # Null \/ q # d
  PROVE  docs'[q] = docs[q] \/ q \in touched'
BY DEF TypeOK, Change

(* What a create made is as it made it, or was touched since.              *)
LEMMA OwnIsFreshStep ==
  ASSUME TypeOK, IdsAgree, OwnIsFresh, [Next]_vars
  PROVE  OwnIsFresh'
<1> USE DEF TypeOK, OwnIsFresh, By, Go, Answer, New
<1>1. CASE UNCHANGED vars
  BY <1>1 DEF vars
<1>2. ASSUME NEW r \in Requests, NEW a \in Asks, NEW d \in Requests, Arrive(r, a, d),
             service' = service
      PROVE  OwnIsFresh'
  BY <1>2 DEF Arrive
<1>3. ASSUME NEW r \in Requests, Reads(r), service' = service
      PROVE  OwnIsFresh'
  BY <1>3, ReadsFrame
<1>4. ASSUME NEW r \in Requests, Create(r), service' = service
      PROVE  OwnIsFresh'
  BY <1>4 DEF Create, Change
<1>5. ASSUME NEW d \in Requests, NEW doc \in Doc \cup {Null}, Change(d, doc), service' = service,
             \A q \in Requests : pc'[q] = "reread" /\ By(q, "create") => pc[q] = "reread"
      PROVE  OwnIsFresh'
  <2>1. UNCHANGED <<ask>> /\ touched \subseteq touched'
    BY <1>5 DEF Change
  <2>2. \A q \in Requests : docs'[q] = docs[q] \/ q \in touched' \/ docs[q] = Null
    BY <1>5, ChangeTouches
  <2>3. \A q \in Requests : pc[q] = "reread" /\ By(q, "create") => New(q) # Null
    BY NewType
  <2> QED
    BY <1>5, <2>1, <2>2, <2>3
<1>6. ASSUME NEW r \in Requests, FindByIdAndUpdate(r), service' = service
      PROVE  OwnIsFresh'
  <2>1. Given(r, id[r]) \in Doc /\ id[r] \in Requests
    BY <1>6, GivenType DEF FindByIdAndUpdate
  <2> QED
    BY <1>5, <1>6, <2>1 DEF FindByIdAndUpdate
<1>7. ASSUME NEW r \in Requests, FindByIdAndDelete(r), service' = service
      PROVE  OwnIsFresh'
  <2>1. id[r] \in Requests
    BY <1>7 DEF FindByIdAndDelete
  <2> QED
    BY <1>5, <1>7, <2>1 DEF FindByIdAndDelete
<1>8. ASSUME NEW d \in Requests, NEW role \in Roles, ChangeRole(d, role), service' = service
      PROVE  OwnIsFresh'
  <2>1. [docs[d] EXCEPT !.role = role] \in Doc
    BY <1>8 DEF ChangeRole, Stored, Doc
  <2> QED
    BY <1>5, <1>8, <2>1 DEF ChangeRole
<1> QED
  BY <1>1, <1>2, <1>3, <1>4, <1>6, <1>7, <1>8, StepCases

(* With the index, the e-mail leads back to the account, or to nothing.    *)
LEMMA AnswersOwnStep ==
  ASSUME TypeOK, IdsAgree, NamesApart, OwnIsFresh, RegistrationAnswersOwn, [Next]_vars
  PROVE  RegistrationAnswersOwn'
<1> USE DEF TypeOK, RegistrationAnswersOwn, By, Go, New
<1>1. CASE UNCHANGED vars
  BY <1>1 DEF vars
<1>2. ASSUME NEW r \in Requests, NEW a \in Asks, NEW d \in Requests, Arrive(r, a, d),
             service' = service
      PROVE  RegistrationAnswersOwn'
  BY <1>2 DEF Arrive
<1>3. ASSUME NEW r \in Requests, Reads(r), service' = service
      PROVE  RegistrationAnswersOwn'
  <2>1. ASSUME RereadEmail(r), r \notin touched
        PROVE  result'[r] = <<r, New(r)>>
    <3>1. service = "user" /\ docs[r] = New(r) /\ New(r) # Null
      BY <2>1, NewType DEF RereadEmail, OwnIsFresh
    <3>2. Named(ask[r].name) = {r}
      BY <3>1 DEF NamesApart, Unique, Named, Stored
    <3>3. result'[r] = Shown(r)
      BY <2>1, <3>2 DEF RereadEmail, Answer
    <3> QED
      BY <3>1, <3>3 DEF Shown
  <2>2. ASSUME ~RereadEmail(r), By(r, "create")
        PROVE  pc'[r] # "done"
    BY <1>3, <2>2 DEF Reads, FindEmail, FindById, FindOne, UpdateNothing, RereadId, Conflict,
                      FindAccount, Compare, DatabaseFails, Answer, IdsAgree
  <2>3. touched' = touched /\ ask' = ask /\ \A q \in Requests \ {r} : pc'[q] = pc[q] /\ result'[q] = result[q]
    BY <1>3, ReadsFrame
  <2> QED
    BY <1>3, <2>1, <2>2, <2>3
<1>4. ASSUME NEW r \in Requests, Create(r), service' = service
      PROVE  RegistrationAnswersOwn'
  <2>1. CASE service = "user"
    BY <1>4, <2>1 DEF Create, Change
  <2>2. CASE service # "user"
    BY <1>4, <2>2 DEF Create, Change, Answer
  <2> QED
    BY <2>1, <2>2
<1>5. ASSUME NEW r \in Requests, FindByIdAndUpdate(r) \/ FindByIdAndDelete(r), service' = service
      PROVE  RegistrationAnswersOwn'
  BY <1>5 DEF FindByIdAndUpdate, FindByIdAndDelete, Change, Answer
<1>6. ASSUME NEW d \in Requests, NEW role \in Roles, ChangeRole(d, role), service' = service
      PROVE  RegistrationAnswersOwn'
  BY <1>6 DEF ChangeRole, Change
<1> QED
  BY <1>1, <1>2, <1>3, <1>4, <1>5, <1>6, StepCases

-----------------------------------------------------------------------------
(* Rivals stay rivals.                                                     *)
LEMMA RivalStays ==
  ASSUME TypeOK, IdsAgree, RunnersMet, [Next]_vars, NEW q \in Requests, pc[q] # "idle", Rival(q)
  PROVE  Rival(q)'
<1> USE DEF Rival, Overlap
<1>1. PICK x \in Requests : Overlap(q, x) /\ ask[x].name = ask[q].name
                            /\ ask[x].op \in {"create", "update"}
  OBVIOUS
<1>2. {x, q} = {q, x}
  OBVIOUS
<1>3. pc[x] # "idle"
  BY <1>1, <1>2 DEF RunnersMet
<1>4. together \subseteq together' /\ ask'[q] = ask[q] /\ ask'[x] = ask[x]
  <2>1. ASSUME NEW r \in Requests, NEW a \in Asks, NEW d \in Requests, Arrive(r, a, d)
        PROVE  together \subseteq together' /\ ask'[q] = ask[q] /\ ask'[x] = ask[x]
    BY <1>3, <2>1 DEF Arrive, TypeOK
  <2> QED
    BY <2>1, ReadsFrame, StepCases
       DEF vars, Create, FindByIdAndUpdate, FindByIdAndDelete, ChangeRole, Change
<1> QED
  BY <1>1, <1>4

(* A name gets taken by a create or an update that runs.                   *)
LEMMA TakersMetStep ==
  ASSUME TypeOK, IdsAgree, RunnersMet, TakersMet, [Next]_vars
  PROVE  TakersMet'
<1> DEFINE Looking(q) == service = "user" /\ pc[q] = "write" /\ By(q, "create")
<1> SUFFICES ASSUME NEW q \in Requests, Looking(q)', (Named(ask[q].name) \ {q} # {})'
             PROVE  Rival(q)'
  BY DEF TakersMet
<1> USE DEF TypeOK, By, Go, Answer
<1>0. ASSUME Looking(q), ask'[q] = ask[q], Named(ask[q].name) \ {q} # {}
      PROVE  Rival(q)'
  BY <1>0, RivalStays DEF TakersMet
<1>1. CASE UNCHANGED vars
  BY <1>0, <1>1 DEF vars, Named, Stored
<1>2. ASSUME NEW r \in Requests, NEW a \in Asks, NEW d \in Requests, Arrive(r, a, d),
             service' = service
      PROVE  Rival(q)'
  <2>1. q # r /\ docs' = docs /\ ask'[q] = ask[q] /\ pc'[q] = pc[q]
    BY <1>2, AskAssumption DEF Arrive
  <2> QED
    BY <1>0, <1>2, <2>1 DEF Named, Stored
<1>3. ASSUME NEW r \in Requests, Reads(r), service' = service
      PROVE  Rival(q)'
  <2>1. docs' = docs /\ ask' = ask
    BY <1>3, ReadsFrame
  <2>2. Named(ask[q].name)' = Named(ask[q].name)
    BY <2>1 DEF Named, Stored
  <2>3. CASE q # r
    BY <1>0, <1>3, <2>1, <2>2, <2>3, ReadsFrame
  <2>4. CASE q = r
    <3>1. FindEmail(r)
      BY <1>3, <2>1, <2>4 DEF Reads, RereadEmail, FindById, FindOne, UpdateNothing, RereadId, Conflict,
                         FindAccount, Compare, DatabaseFails, Running
    <3> QED
      BY <2>2, <2>4, <3>1 DEF FindEmail
  <2> QED
    BY <2>3, <2>4
<1>4. ASSUME NEW r \in Requests, NEW d \in Requests, NEW doc \in Doc \cup {Null}, Change(d, doc),
             service' = service, pc' = [pc EXCEPT ![r] = pc'[r]], pc[r] = "write", pc'[r] # "write",
             doc # Null => \/ docs[d] # Null /\ doc.name = docs[d].name
                           \/ ask[r].op \in {"create", "update"} /\ doc.name = ask[r].name
      PROVE  Rival(q)'
  <2>1. ask' = ask /\ together' = together /\ q # r /\ pc[q] = "write"
    BY <1>4 DEF Change
  <2>2. CASE Named(ask[q].name) \ {q} # {}
    BY <1>0, <1>4, <2>1, <2>2
  <2>3. CASE Named(ask[q].name) \ {q} = {}
    <3>1. doc # Null /\ doc.name = ask[q].name /\ d # q
      BY <1>4, <2>1, <2>3 DEF Change, Named, Stored
    <3>2. ask[r].op \in {"create", "update"} /\ ask[r].name = ask[q].name
      BY <1>4, <2>1, <2>3, <3>1 DEF Named, Stored
    <3>3. {q, r} \in together
      BY <1>4, <2>1 DEF RunnersMet, Running
    <3> QED
      BY <2>1, <3>2, <3>3 DEF Rival, Overlap
  <2> QED
    BY <2>2, <2>3
<1>5. ASSUME NEW r \in Requests, Create(r), service' = service
      PROVE  Rival(q)'
  <2>1. New(r) \in Doc /\ New(r).name = ask[r].name
    BY <1>5, NewType DEF Create, New
  <2>2. pc' = [pc EXCEPT ![r] = pc'[r]] /\ pc'[r] # "write"
    BY <1>5 DEF Create
  <2> QED
    BY <1>4, <1>5, <2>1, <2>2 DEF Create
<1>6. ASSUME NEW r \in Requests, FindByIdAndUpdate(r), service' = service
      PROVE  Rival(q)'
  <2>1. Given(r, id[r]) \in Doc /\ id[r] \in Requests
    BY <1>6, GivenType DEF FindByIdAndUpdate
  <2>2. Given(r, id[r]).name = docs[id[r]].name \/ Given(r, id[r]).name = ask[r].name
    <3>1. docs[id[r]] \in Doc
      BY <1>6, <2>1 DEF FindByIdAndUpdate
    <3> QED
      BY <3>1 DEF Given, Doc
  <2>3. pc' = [pc EXCEPT ![r] = pc'[r]] /\ pc'[r] # "write"
    BY <1>6 DEF FindByIdAndUpdate
  <2> QED
    BY <1>4, <1>6, <2>1, <2>2, <2>3 DEF FindByIdAndUpdate
<1>7. ASSUME NEW r \in Requests, FindByIdAndDelete(r), service' = service
      PROVE  Rival(q)'
  <2>1. id[r] \in Requests /\ pc' = [pc EXCEPT ![r] = pc'[r]] /\ pc'[r] # "write"
    BY <1>7 DEF FindByIdAndDelete
  <2> QED
    BY <1>4, <1>7, <2>1 DEF FindByIdAndDelete
<1>8. ASSUME NEW d \in Requests, NEW role \in Roles, ChangeRole(d, role), service' = service
      PROVE  Rival(q)'
  <2>1. [docs[d] EXCEPT !.role = role].name = docs[d].name /\ docs[d] # Null
    BY <1>8 DEF ChangeRole, Stored, Doc
  <2>2. docs' = [docs EXCEPT ![d] = [docs[d] EXCEPT !.role = role]] /\ ask' = ask /\ pc' = pc
    BY <1>8 DEF ChangeRole, Change
  <2>3. (Named(ask[q].name))' \subseteq Named(ask[q].name)
    BY <2>1, <2>2 DEF Named, Stored
  <2> QED
    BY <1>0, <1>8, <2>2, <2>3
<1> QED
  BY <1>1, <1>2, <1>3, <1>5, <1>6, <1>7, <1>8, StepCases

(* A name taken between the look-up and the insert was taken by a request  *)
(* that the create met.                                                    *)
LEMMA ConflictNeedsRaceStep ==
  ASSUME TypeOK, IdsAgree, RunnersMet, TakersMet, ConflictNeedsRace, [Next]_vars
  PROVE  ConflictNeedsRace'
<1> USE DEF TypeOK, By, Go, Answer
<1> SUFFICES ASSUME NEW r \in Requests, (pc[r] = "conflict" /\ By(r, "create") /\ service = "user")'
             PROVE  Rival(r)'
  BY DEF ConflictNeedsRace, Rival
<1>1. ASSUME pc[r] = "conflict", ask'[r] = ask[r], service' = service
      PROVE  Rival(r)'
  <2>1. Rival(r)
    BY <1>1 DEF ConflictNeedsRace, Rival
  <2> QED
    BY <1>1, <2>1, RivalStays
<1>2. CASE UNCHANGED vars
  BY <1>1, <1>2 DEF vars
<1>3. ASSUME NEW q \in Requests, NEW a \in Asks, NEW d \in Requests, Arrive(q, a, d), service' = service
      PROVE  Rival(r)'
  BY <1>1, <1>3 DEF Arrive
<1>4. ASSUME NEW q \in Requests, Reads(q), service' = service
      PROVE  Rival(r)'
  <2>1. ask' = ask
    BY <1>4, ReadsFrame
  <2>2. CASE q # r
    BY <1>1, <1>4, <2>1, <2>2, ReadsFrame
  <2>3. CASE q = r
    <3>1. Conflict(r)
      BY <1>4, <2>1, <2>3 DEF Reads, FindEmail, RereadEmail, FindById, FindOne, UpdateNothing,
                         RereadId, FindAccount, Compare, DatabaseFails
    <3>2. Rival(r)
      BY <1>4, <2>1, <3>1 DEF Conflict, TakersMet, TakenByOther
    <3> QED
      BY <3>1, <3>2, RivalStays DEF Conflict
  <2> QED
    BY <2>2, <2>3
<1>5. ASSUME NEW q \in Requests, Create(q) \/ FindByIdAndUpdate(q) \/ FindByIdAndDelete(q),
             service' = service
      PROVE  Rival(r)'
  <2>1. pc[r] = "conflict" /\ ask'[r] = ask[r]
    BY <1>5 DEF Create, FindByIdAndUpdate, FindByIdAndDelete, Change
  <2> QED
    BY <1>1, <1>5, <2>1
<1>6. ASSUME NEW d \in Requests, NEW role \in Roles, ChangeRole(d, role), service' = service
      PROVE  Rival(r)'
  BY <1>1, <1>6 DEF ChangeRole, Change
<1> QED
  BY <1>2, <1>3, <1>4, <1>5, <1>6, StepCases

-----------------------------------------------------------------------------
(* What a login knows grows, and a write adds what it leaves.              *)
LEMMA KnownGrows ==
  ASSUME TypeOK, LoginsKnow, NEW d \in Requests, NEW doc \in Doc \cup {Null}, Change(d, doc),
         NEW r \in Requests
  PROVE  /\ known[r] \subseteq known'[r]
         /\ ~(pc[r] \in Running /\ By(r, "login")) => known'[r] = known[r]
         /\ pc[r] \in Running /\ By(r, "login") =>
              {Shown(x) : x \in Stored}' \subseteq known'[r]
<1>1. \A x \in Stored' : ((Shown(x))' = Shown(x) /\ x \in Stored) \/ ((Shown(x))' = <<d, doc>> /\ doc # Null)
  <2>1. ASSUME NEW x \in Stored'
        PROVE  ((Shown(x))' = Shown(x) /\ x \in Stored) \/ ((Shown(x))' = <<d, doc>> /\ doc # Null)
    <3>1. x \in Requests /\ docs'[x] # Null /\ docs'[x] = IF x = d THEN doc ELSE docs[x]
      BY <2>1 DEF TypeOK, Change, Stored
    <3> QED
      BY <3>1 DEF Stored, Shown
  <2> QED
    BY <2>1
<1>2. known'[r] = IF doc # Null /\ pc[r] \in Running /\ By(r, "login")
                  THEN known[r] \cup {<<d, doc>>} ELSE known[r]
  BY DEF Change
<1>3. ASSUME pc[r] \in Running, By(r, "login"), NEW x \in Stored'
      PROVE  (Shown(x))' \in known'[r]
  BY <1>1, <1>2, <1>3 DEF LoginsKnow
<1> QED
  BY <1>2, <1>3

(* What a login has read was in the collection while it ran.               *)
LEMMA LoginsKnowStep ==
  ASSUME TypeOK, IdsAgree, LoginsKnow, [Next]_vars
  PROVE  LoginsKnow'
<1> USE DEF TypeOK, By, Go, Answer
<1> DEFINE Docs == {Shown(d) : d \in Stored}
<1> SUFFICES ASSUME NEW r \in Requests, (pc[r] \in Running /\ By(r, "login"))'
             PROVE  /\ service' = "user"
                    /\ Docs' \subseteq known'[r]
                    /\ pc'[r] = "compare" => found'[r] \in known'[r] /\ found'[r][2].name = ask'[r].name
  BY DEF LoginsKnow
<1>1. CASE UNCHANGED vars
  BY <1>1 DEF vars, LoginsKnow, Stored, Shown
<1>2. ASSUME docs' = docs
      PROVE  Docs' = Docs
  BY <1>2 DEF Stored, Shown
<1>3. ASSUME NEW q \in Requests, NEW a \in Asks, NEW d \in Requests, Arrive(q, a, d), service' = service
      PROVE  /\ service' = "user"
             /\ Docs' \subseteq known'[r]
             /\ pc'[r] = "compare" => found'[r] \in known'[r] /\ found'[r][2].name = ask'[r].name
  <2>1. CASE q = r
    BY <1>2, <1>3, <2>1, AskAssumption DEF Arrive
  <2>2. CASE q # r
    BY <1>2, <1>3, <2>2 DEF Arrive, LoginsKnow
  <2> QED
    BY <2>1, <2>2
<1>4. ASSUME NEW q \in Requests, Reads(q), service' = service
      PROVE  /\ service' = "user"
             /\ Docs' \subseteq known'[r]
             /\ pc'[r] = "compare" => found'[r] \in known'[r] /\ found'[r][2].name = ask'[r].name
  <2>1. UNCHANGED <<docs, ask, known>> /\ pc[r] \in Running
    BY <1>4, ReadsFrame
  <2>2. service = "user" /\ Docs \subseteq known[r]
    BY <2>1 DEF LoginsKnow
  <2>3. ASSUME pc'[r] = "compare"
        PROVE  found'[r] \in known[r] /\ found'[r][2].name = ask[r].name
    <3>1. CASE q # r
      BY <1>4, <2>1, <2>3, <3>1, ReadsFrame DEF LoginsKnow
    <3>2. CASE q = r
      <4>1. FindAccount(r)
        BY <1>4, <2>3, <3>2 DEF Reads, FindEmail, RereadEmail, FindById, FindOne, UpdateNothing, RereadId,
                             Conflict, Compare, DatabaseFails
      <4>2. PICK d \in Named(ask[r].name) : found' = [found EXCEPT ![r] = Shown(d)]
        BY <2>3, <4>1 DEF FindAccount
      <4>3. found'[r] = Shown(d) /\ d \in Stored /\ docs[d].name = ask[r].name
        BY <4>2 DEF Named
      <4> QED
        BY <2>2, <4>3 DEF Shown
    <3> QED
      BY <3>1, <3>2
  <2> QED
    BY <1>2, <1>4, <2>1, <2>2, <2>3
<1>5. ASSUME NEW d \in Requests, NEW doc \in Doc \cup {Null}, Change(d, doc), service' = service,
             pc[r] \in Running, pc'[r] = "compare" => pc[r] = "compare", found' = found
      PROVE  /\ service' = "user"
             /\ Docs' \subseteq known'[r]
             /\ pc'[r] = "compare" => found'[r] \in known'[r] /\ found'[r][2].name = ask'[r].name
  <2>1. ask' = ask
    BY <1>5 DEF Change
  <2> QED
    BY <1>5, <2>1, KnownGrows DEF LoginsKnow
<1>6. ASSUME NEW q \in Requests, Create(q), service' = service
      PROVE  /\ service' = "user"
             /\ Docs' \subseteq known'[r]
             /\ pc'[r] = "compare" => found'[r] \in known'[r] /\ found'[r][2].name = ask'[r].name
  <2>1. New(q) \in Doc
    BY <1>6, NewType DEF Create
  <2>2. found' = found /\ pc[r] \in Running /\ (pc'[r] = "compare" => pc[r] = "compare")
    BY <1>6 DEF Create, Running
  <2> QED
    BY <1>5, <1>6, <2>1, <2>2 DEF Create
<1>7. ASSUME NEW q \in Requests, FindByIdAndUpdate(q), service' = service
      PROVE  /\ service' = "user"
             /\ Docs' \subseteq known'[r]
             /\ pc'[r] = "compare" => found'[r] \in known'[r] /\ found'[r][2].name = ask'[r].name
  <2>1. Given(q, id[q]) \in Doc /\ id[q] \in Requests
    BY <1>7, GivenType DEF FindByIdAndUpdate
  <2>2. found' = found /\ pc[r] \in Running /\ (pc'[r] = "compare" => pc[r] = "compare")
    BY <1>7 DEF FindByIdAndUpdate, Running
  <2> QED
    BY <1>5, <1>7, <2>1, <2>2 DEF FindByIdAndUpdate
<1>8. ASSUME NEW q \in Requests, FindByIdAndDelete(q), service' = service
      PROVE  /\ service' = "user"
             /\ Docs' \subseteq known'[r]
             /\ pc'[r] = "compare" => found'[r] \in known'[r] /\ found'[r][2].name = ask'[r].name
  <2>1. id[q] \in Requests /\ found' = found /\ pc[r] \in Running /\ (pc'[r] = "compare" => pc[r] = "compare")
    BY <1>8 DEF FindByIdAndDelete, Running
  <2> QED
    BY <1>5, <1>8, <2>1 DEF FindByIdAndDelete
<1>9. ASSUME NEW d \in Requests, NEW role \in Roles, ChangeRole(d, role), service' = service
      PROVE  /\ service' = "user"
             /\ Docs' \subseteq known'[r]
             /\ pc'[r] = "compare" => found'[r] \in known'[r] /\ found'[r][2].name = ask'[r].name
  <2>1. [docs[d] EXCEPT !.role = role] \in Doc
    BY <1>9 DEF ChangeRole, Stored, Doc
  <2>2. found' = found /\ pc' = pc
    BY <1>9 DEF ChangeRole
  <2> QED
    BY <1>5, <1>9, <2>1, <2>2 DEF ChangeRole
<1> QED
  BY <1>1, <1>3, <1>4, <1>6, <1>7, <1>8, <1>9, StepCases

(* A login answers with what it has read.                                  *)
LEMMA LoginIsSnapshotStep ==
  ASSUME TypeOK, IdsAgree, LoginsKnow, LoginIsSnapshot, [Next]_vars
  PROVE  LoginIsSnapshot'
<1> USE DEF TypeOK, By, Go
<1> SUFFICES ASSUME NEW r \in Requests, (pc[r] = "done" /\ By(r, "login"))'
             PROVE  /\ result'[r] \in known'[r]
                    /\ result'[r][2].name = ask'[r].name /\ result'[r][2].secret = ask'[r].secret
  BY DEF LoginIsSnapshot
<1>1. ASSUME pc[r] = "done", ask'[r] = ask[r], known'[r] = known[r], result'[r] = result[r]
      PROVE  /\ result'[r] \in known'[r]
             /\ result'[r][2].name = ask'[r].name /\ result'[r][2].secret = ask'[r].secret
  BY <1>1 DEF LoginIsSnapshot
<1>2. CASE UNCHANGED vars
  BY <1>1, <1>2 DEF vars
<1>3. ASSUME NEW q \in Requests, NEW a \in Asks, NEW d \in Requests, Arrive(q, a, d)
      PROVE  pc[r] = "done" /\ ask'[r] = ask[r] /\ known'[r] = known[r] /\ result'[r] = result[r]
  BY <1>3 DEF Arrive
<1>4. ASSUME NEW q \in Requests, Reads(q)
      PROVE  /\ result'[r] \in known'[r]
             /\ result'[r][2].name = ask'[r].name /\ result'[r][2].secret = ask'[r].secret
  <2>1. UNCHANGED <<ask, known>>
    BY <1>4, ReadsFrame
  <2>2. CASE q # r
    BY <1>1, <1>4, <2>1, <2>2, ReadsFrame
  <2>3. CASE q = r
    <3>1. Compare(r)
      BY <1>4, <2>1, <2>3 DEF Reads, FindEmail, RereadEmail, FindById, FindOne, UpdateNothing, RereadId,
                              Conflict, FindAccount, DatabaseFails, Answer
    <3>2. result'[r] = found[r] /\ found[r][2].secret = ask[r].secret /\ pc[r] = "compare"
      BY <2>1, <3>1 DEF Compare, Answer
    <3> QED
      BY <2>1, <3>2 DEF LoginsKnow, Running
  <2> QED
    BY <2>2, <2>3
<1>5. ASSUME NEW q \in Requests, Create(q) \/ FindByIdAndUpdate(q) \/ FindByIdAndDelete(q)
      PROVE  pc[r] = "done" /\ ask'[r] = ask[r] /\ known'[r] = known[r] /\ result'[r] = result[r]
  <2>1. ask' = ask /\ pc[r] = "done" /\ result'[r] = result[r]
    BY <1>5 DEF Create, FindByIdAndUpdate, FindByIdAndDelete, Change, Answer
  <2> QED
    BY <1>5, <2>1 DEF Create, FindByIdAndUpdate, FindByIdAndDelete, Change, Running
<1>6. ASSUME NEW d \in Requests, NEW role \in Roles, ChangeRole(d, role)
      PROVE  pc[r] = "done" /\ ask'[r] = ask[r] /\ known'[r] = known[r] /\ result'[r] = result[r]
  BY <1>6 DEF ChangeRole, Change, Running
<1> QED
  BY <1>1, <1>2, <1>3, <1>4, <1>5, <1>6, StepCases

-----------------------------------------------------------------------------
(* Whoever an update met it has met for good.                              *)
LEMMA MetStays ==
  ASSUME TypeOK, IdsAgree, RunnersMet, [Next]_vars, NEW r \in Requests, pc[r] # "idle"
  PROVE  /\ ask'[r] = ask[r] /\ id'[r] = id[r]
         /\ RemoverMet(r) => RemoverMet(r)'
         /\ UpdaterMet(r) => UpdaterMet(r)'
<1> USE DEF RemoverMet, UpdaterMet, Overlap, By
<1>1. ASSUME NEW x \in Requests, pc[x] # "idle"
      PROVE  together \subseteq together' /\ ask'[x] = ask[x] /\ id'[x] = id[x]
  <2>1. ASSUME NEW q \in Requests, NEW a \in Asks, NEW d \in Requests, Arrive(q, a, d)
        PROVE  together \subseteq together' /\ ask'[x] = ask[x] /\ id'[x] = id[x]
    BY <1>1, <2>1 DEF Arrive, TypeOK
  <2> QED
    BY <2>1, ReadsFrame, StepCases
       DEF vars, Create, FindByIdAndUpdate, FindByIdAndDelete, ChangeRole, Change
<1>2. ASSUME NEW x \in Requests, Overlap(r, x)
      PROVE  pc[x] # "idle"
  <2>1. {x, r} = {r, x}
    OBVIOUS
  <2> QED
    BY <1>2, <2>1 DEF RunnersMet
<1>3. ASSUME RemoverMet(r)
      PROVE  RemoverMet(r)'
  <2>1. PICK x \in Requests : Overlap(r, x) /\ By(x, "remove") /\ id[x] = id[r]
    BY <1>3
  <2> QED
    BY <1>1, <1>2, <2>1
<1>4. ASSUME UpdaterMet(r)
      PROVE  UpdaterMet(r)'
  <2>1. PICK x \in Requests : Overlap(r, x) /\ By(x, "update") /\ id[x] = id[r]
    BY <1>4
  <2> QED
    BY <1>1, <1>2, <2>1
<1> QED
  BY <1>1, <1>3, <1>4

(* While an update is past its lookup, only a removal takes the record     *)
(* away, and only another update its name.                                 *)
LEMMA UpdatesShowStep ==
  ASSUME TypeOK, DocsWereMade, IdsAgree, RunnersMet, UpdatesShow, [Next]_vars
  PROVE  UpdatesShow'
<1> USE DEF TypeOK, By, Go, Answer
<1> DEFINE Kept(r) == docs[id[r]] # Null \/ RemoverMet(r)
           Named1(r) == docs[id[r]] # Null
                        => ask[r].name \in {Null, docs[id[r]].name} \/ UpdaterMet(r)
<1> SUFFICES ASSUME NEW r \in Requests, (pc[r] \in {"write", "reread"} /\ By(r, "update"))'
             PROVE  Kept(r)' /\ (pc'[r] = "reread" => Named1(r)')
  BY DEF UpdatesShow
<1>1. ASSUME pc'[r] = pc[r], docs'[id[r]] = docs[id[r]]
      PROVE  Kept(r)' /\ (pc'[r] = "reread" => Named1(r)')
  BY <1>1, MetStays DEF UpdatesShow
<1>2. CASE UNCHANGED vars
  BY <1>1, <1>2 DEF vars
<1>3. ASSUME NEW q \in Requests, NEW a \in Asks, NEW d \in Requests, Arrive(q, a, d)
      PROVE  pc'[r] = pc[r] /\ docs' = docs
  BY <1>3 DEF Arrive
<1>4. ASSUME NEW q \in Requests, Reads(q)
      PROVE  Kept(r)' /\ (pc'[r] = "reread" => Named1(r)')
  <2>1. UNCHANGED <<docs, ask, id, together>> /\ pc[q] \in Running
    BY <1>4, ReadsFrame
  <2>2. CASE q # r
    BY <1>1, <1>4, <2>1, <2>2, ReadsFrame
  <2>3. CASE q = r
    <3>1. FindById(r) \/ UpdateNothing(r)
      BY <1>4, <2>1, <2>3 DEF Reads, FindEmail, RereadEmail, FindOne, RereadId,
                              Conflict, FindAccount, Compare, DatabaseFails
    <3>2. CASE FindById(r)
      BY <2>1, <3>2 DEF FindById, Stored
    <3>3. CASE UpdateNothing(r)
      BY <2>1, <3>3, MetStays DEF UpdateNothing, UpdatesShow
    <3> QED
      BY <3>1, <3>2, <3>3
  <2> QED
    BY <2>2, <2>3
<1>5. ASSUME NEW q \in Requests, Create(q)
      PROVE  Kept(r)' /\ (pc'[r] = "reread" => Named1(r)')
  <2>1. r # q /\ pc'[r] = pc[r] /\ docs' = [docs EXCEPT ![q] = New(q)]
    BY <1>5 DEF Create, Change
  <2>2. id[r] # q
    BY <1>5, <2>1 DEF Create, Change, IdsAgree, Past
  <2> QED
    BY <1>1, <2>1, <2>2
<1>6. ASSUME NEW q \in Requests, FindByIdAndUpdate(q)
      PROVE  Kept(r)' /\ (pc'[r] = "reread" => Named1(r)')
  <2>1. /\ id[q] \in Requests /\ docs[id[q]] # Null /\ docs[id[q]] \in Doc
        /\ docs' = [docs EXCEPT ![id[q]] = Given(q, id[q])]
        /\ pc' = [pc EXCEPT ![q] = "reread"] /\ pc[q] = "write"
        /\ Given(q, id[q]) # Null
        /\ By(q, "update") /\ UNCHANGED <<ask, id, together>>
    BY <1>6, GivenType DEF FindByIdAndUpdate, Change
  <2>2. CASE q = r
    <3>1. Given(r, id[r]).name = IF ask[r].name = Null THEN docs[id[r]].name ELSE ask[r].name
      BY <2>1, <2>2 DEF Given, Doc
    <3> QED
      BY <2>1, <2>2, <3>1
  <2>3. CASE q # r /\ id[q] # id[r]
    BY <1>1, <2>1, <2>3
  <2>4. CASE q # r /\ id[q] = id[r]
    <3>1. pc[r] \in Running /\ pc[q] \in Running
      BY <2>1, <2>4 DEF Running
    <3>2. UpdaterMet(r)
      BY <2>1, <2>4, <3>1 DEF RunnersMet, UpdaterMet, Overlap
    <3> QED
      BY <2>1, <2>4, <3>1, <3>2, MetStays DEF Running
  <2> QED
    BY <2>2, <2>3, <2>4
<1>7. ASSUME NEW q \in Requests, FindByIdAndDelete(q)
      PROVE  Kept(r)' /\ (pc'[r] = "reread" => Named1(r)')
  <2>1. /\ id[q] \in Requests /\ docs' = [docs EXCEPT ![id[q]] = Null]
        /\ pc' = [pc EXCEPT ![q] = "done"] /\ pc[q] = "write"
        /\ By(q, "remove") /\ UNCHANGED <<ask, id, together>>
    BY <1>7 DEF FindByIdAndDelete, Change
  <2>2. q # r /\ pc'[r] = pc[r]
    BY <2>1
  <2>3. CASE id[q] # id[r]
    BY <1>1, <2>1, <2>2, <2>3
  <2>4. CASE id[q] = id[r]
    <3>1. pc[r] \in Running /\ pc[q] \in Running
      BY <2>1, <2>2 DEF Running
    <3>2. RemoverMet(r)
      BY <2>1, <2>2, <2>4, <3>1 DEF RunnersMet, RemoverMet, Overlap
    <3>3. docs'[id'[r]] = Null
      BY <2>1, <2>4
    <3> QED
      BY <3>1, <3>2, <3>3, MetStays DEF Running
  <2> QED
    BY <2>3, <2>4
<1>8. ASSUME NEW d \in Requests, NEW role \in Roles, ChangeRole(d, role)
      PROVE  Kept(r)' /\ (pc'[r] = "reread" => Named1(r)')
  <2> DEFINE doc == [docs[d] EXCEPT !.role = role]
  <2>1. /\ docs[d] \in Doc /\ docs[d] # Null /\ docs' = [docs EXCEPT ![d] = doc]
        /\ UNCHANGED <<pc, ask, id, together>>
    BY <1>8 DEF ChangeRole, Change, Stored
  <2>2. doc \in Doc /\ doc.name = docs[d].name
    BY <2>1 DEF Doc
  <2>3. doc # Null
    BY <2>2, NullAssumption
  <2> HIDE DEF doc
  <2>4. CASE id[r] # d
    BY <1>1, <2>1, <2>4
  <2>5. CASE id[r] = d
    BY <2>1, <2>2, <2>3, <2>5, MetStays DEF UpdatesShow
  <2> QED
    BY <2>4, <2>5
<1> QED
  BY <1>1, <1>2, <1>3, <1>4, <1>5, <1>6, <1>7, <1>8, StepCases

(* So what an update answers shows its name, or whoever it has met.        *)
LEMMA UpdateAnswerShowsItStep ==
  ASSUME TypeOK, IdsAgree, RunnersMet, UpdatesShow, UpdateAnswerShowsIt, [Next]_vars
  PROVE  UpdateAnswerShowsIt'
<1> USE DEF TypeOK, By, Go, Answer
<1> DEFINE Showing(r) == IF result[r][2] = Null THEN RemoverMet(r)
                         ELSE ask[r].name \in {Null, result[r][2].name} \/ UpdaterMet(r)
<1> SUFFICES ASSUME NEW r \in Requests, (pc[r] = "done" /\ By(r, "update"))'
             PROVE  Showing(r)'
  BY DEF UpdateAnswerShowsIt, RemoverMet, UpdaterMet
<1>1. ASSUME pc[r] = "done", result'[r] = result[r]
      PROVE  Showing(r)'
  <2>1. ask'[r] = ask[r] /\ By(r, "update")
    BY <1>1, MetStays
  <2>2. Showing(r)
    BY <1>1, <2>1 DEF UpdateAnswerShowsIt, RemoverMet, UpdaterMet
  <2> QED
    BY <1>1, <2>1, <2>2, MetStays
<1>2. CASE UNCHANGED vars
  BY <1>1, <1>2 DEF vars
<1>3. ASSUME NEW q \in Requests, NEW a \in Asks, NEW d \in Requests, Arrive(q, a, d)
      PROVE  Showing(r)'
  BY <1>1, <1>3 DEF Arrive
<1>4. ASSUME NEW q \in Requests, Reads(q)
      PROVE  Showing(r)'
  <2>1. UNCHANGED <<docs, ask, id, together>> /\ pc[q] \in Running
    BY <1>4, ReadsFrame
  <2>2. CASE q # r
    BY <1>1, <1>4, <2>2, ReadsFrame
  <2>3. CASE q = r
    <3>1. RereadId(r)
      BY <1>4, <2>1, <2>3 DEF Reads, FindEmail, RereadEmail, FindById, FindOne, UpdateNothing,
                              Conflict, FindAccount, Compare, DatabaseFails, IdsAgree
    <3>2. pc[r] = "reread" /\ By(r, "update") /\ result'[r] = <<id[r], docs[id[r]]>>
      BY <3>1 DEF RereadId, Shown
    <3>3. /\ docs[id[r]] # Null \/ RemoverMet(r)
          /\ docs[id[r]] # Null => ask[r].name \in {Null, docs[id[r]].name} \/ UpdaterMet(r)
      BY <3>2 DEF UpdatesShow
    <3> QED
      BY <2>1, <3>2, <3>3, MetStays
  <2> QED
    BY <2>2, <2>3
<1>5. ASSUME NEW q \in Requests, Create(q) \/ FindByIdAndUpdate(q) \/ FindByIdAndDelete(q)
      PROVE  Showing(r)'
  <2>1. q # r
    BY <1>5 DEF Create, FindByIdAndUpdate, FindByIdAndDelete, Change
  <2> QED
    BY <1>1, <1>5, <2>1 DEF Create, FindByIdAndUpdate, FindByIdAndDelete
<1>6. ASSUME NEW d \in Requests, NEW role \in Roles, ChangeRole(d, role)
      PROVE  Showing(r)'
  BY <1>1, <1>6 DEF ChangeRole
<1> QED
  BY <1>2, <1>3, <1>4, <1>5, <1>6, StepCases

-----------------------------------------------------------------------------
(* Nothing is stored and nothing runs at first.                            *)
LEMMA InitInv ==
  ASSUME Init
  PROVE  IInv
<1> USE DEF Init
<1>1. TypeOK
  BY DEF TypeOK, Services
<1>2. DocsWereMade /\ IdsAgree /\ NamesApart
  BY DEF DocsWereMade, IdsAgree, NamesApart, Stored
<1>3. RunnersMet /\ OwnIsFresh /\ TakersMet /\ LoginsKnow /\ UpdatesShow
  BY DEF RunnersMet, OwnIsFresh, TakersMet, LoginsKnow, UpdatesShow, Running
<1>4. /\ RegistrationAnswersOwn /\ ConflictNeedsRace /\ LoginIsSnapshot
      /\ UpdateAnswerShowsIt /\ RemovedIsGone
  BY DEF RegistrationAnswersOwn, ConflictNeedsRace, LoginIsSnapshot,
         UpdateAnswerShowsIt, RemovedIsGone
<1> QED
  BY <1>1, <1>2, <1>3, <1>4 DEF IInv

(* IInv is kept by every step of users, genres, directors and logins.      *)
THEOREM Invariance == Spec => []IInv
<1>1. Init => IInv
  BY InitInv
<1>2. IInv /\ [Next]_vars => IInv'
  <2> SUFFICES ASSUME IInv, [Next]_vars
               PROVE  IInv'
    OBVIOUS
  <2>1. /\ TypeOK /\ DocsWereMade /\ IdsAgree /\ NamesApart /\ RunnersMet /\ OwnIsFresh
        /\ TakersMet /\ LoginsKnow /\ UpdatesShow
        /\ RegistrationAnswersOwn /\ ConflictNeedsRace /\ LoginIsSnapshot
        /\ UpdateAnswerShowsIt /\ RemovedIsGone
    BY DEF IInv
  <2>2. TypeOK' /\ DocsWereMade' /\ IdsAgree' /\ NamesApart' /\ RunnersMet'
    BY <2>1, TypeStep, DocsWereMadeStep, IdsAgreeStep, NamesApartStep, RunnersMetStep
  <2>3. OwnIsFresh' /\ TakersMet' /\ LoginsKnow' /\ UpdatesShow'
    BY <2>1, OwnIsFreshStep, TakersMetStep, LoginsKnowStep, UpdatesShowStep
  <2>4. /\ RegistrationAnswersOwn' /\ ConflictNeedsRace' /\ LoginIsSnapshot'
        /\ UpdateAnswerShowsIt' /\ RemovedIsGone'
    BY <2>1, AnswersOwnStep, ConflictNeedsRaceStep, LoginIsSnapshotStep,
       UpdateAnswerShowsItStep, RemovedIsGoneStep
  <2> QED
    BY <2>2, <2>3, <2>4 DEF IInv
<1> QED
  BY <1>1, <1>2, PTL DEF Spec

(* Every variable keeps its range, and a password that is compared is that *)
(* of an account that was found (auth.service.ts 126-161).                 *)
THEOREM RecordsTypeOK == Spec => []TypeOK
BY Invariance, PTL DEF IInv

(* A registration answers the account it made, or one that was changed     *)
(* since, for any number of registrations (user.service.ts 27-88).         *)
THEOREM RegistrationAnswersOwnHolds == Spec => []RegistrationAnswersOwn
BY Invariance, PTL DEF IInv

(* A registration breaks the index only if a request for the same e-mail   *)
(* ran at the same time (user.service.ts 30-58).                           *)
THEOREM ConflictNeedsRaceHolds == Spec => []ConflictNeedsRace
BY Invariance, PTL DEF IInv

(* A login answers a role that went with its e-mail and password while it  *)
(* ran (auth.service.ts 126-186).                                          *)
THEOREM LoginIsSnapshotHolds == Spec => []LoginIsSnapshot
BY Invariance, PTL DEF IInv

(* An update answers nothing, or another name, only beside a removal or    *)
(* another update of its record (user.service.ts 119-180).                 *)
THEOREM UpdateAnswerShowsItHolds == Spec => []UpdateAnswerShowsIt
BY Invariance, PTL DEF IInv

(* Nothing brings back what a removal has answered, and no id is used      *)
(* again (user.service.ts 182-208).                                        *)
THEOREM RemovedIsGoneHolds == Spec => []RemovedIsGone
BY Invariance, PTL DEF IInv
=============================================================================
