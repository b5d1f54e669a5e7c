-------------------------- MODULE MovieLikeProofs --------------------------
(***************************************************************************)
(* Proofs about MovieLike, for any sets of presses, movies and users: its  *)
(* types, the invariant that keeps records, buttons and writes apart, that *)
(* overlapping presses implement the abstract buttons, that a press alone  *)
(* on its button toggles it and is answered, what it takes to end the      *)
(* process, and that no press waits for another or goes back.              *)
(***************************************************************************)
EXTENDS MovieLike, TLAPS

IInv == TypeOK /\ LikeInv

(* What a button shows is a boolean or null.                               *)
LEMMA ShownType ==
  ASSUME TypeOK, NEW b
  PROVE  Shown(b) \in BOOLEAN \cup {Null}
<1> DEFINE d == CHOOSE d \in Requests : Stored(d, b)
<1>1. CASE \E c \in Requests : Stored(c, b)
  <2>1. d \in Requests /\ Stored(d, b)
    BY <1>1
  <2>2. likes[d] \in LikeDoc
    BY <2>1 DEF TypeOK, Stored
  <2>3. likes[d].isLike \in BOOLEAN
    BY <2>2 DEF LikeDoc
  <2> QED
    BY <1>1, <2>3 DEF Shown
<1>2. CASE ~ \E c \in Requests : Stored(c, b)
  BY <1>2 DEF Shown
<1> QED
  BY <1>1, <1>2

(* Every step keeps the types.                                             *)
LEMMA TypeStep ==
  ASSUME TypeOK, LikeInv, [Next]_vars
  PROVE  TypeOK'
<1> USE RegisteredAssumption DEF TypeOK, Running, Answered
<1>1. CASE UNCHANGED vars
  BY <1>1 DEF vars
<1>2. ASSUME NEW r \in Requests, NEW m \in Movies, NEW u \in Users, NEW v \in BOOLEAN,
             Press(r, m, u, v)
      PROVE  TypeOK'
  <2>1. [movie |-> m, user |-> u, isLike |-> v] \in LikeDoc
    BY DEF LikeDoc
  <2>2. Shown(<<m, u>>) \in BOOLEAN \cup {Null}
    BY ShownType
  <2>3. alone' \in [Requests -> BOOLEAN]
    BY <1>2 DEF Press
  <2> QED
    BY <1>2, <2>1, <2>2, <2>3 DEF Press
<1>3. ASSUME NEW r \in Requests, Step(r)
      PROVE  TypeOK'
  <2>1. CASE FindMovie(r)
    BY <2>1 DEF FindMovie
  <2>2. CASE FindUser(r)
    BY <2>2 DEF FindUser
  <2>3. CASE FindNoLike(r)
    BY <2>3 DEF FindNoLike, Send
  <2>4. CASE FindSameLike(r)
    BY <2>4 DEF FindSameLike, Send
  <2>5. CASE FindOtherLike(r)
    BY <2>5 DEF FindOtherLike, Send
  <2>6. CASE Create(r)
    BY <2>6 DEF Create, Arrive, Resume, OnItsWay
  <2>7. CASE FindByIdAndDelete(r)
    BY <2>7 DEF FindByIdAndDelete, Arrive, Resume, OnItsWay
  <2>8. CASE Save(r)
    <3>1. found[r] \in Requests /\ press[r] # Null
      BY <2>8 DEF Save, LikeInv, WritesKeepTheirRecord, OneWritePerPress
    <3>2. likes[found[r]] \in LikeDoc /\ press[r] \in LikeDoc
      BY <2>8, <3>1 DEF Save
    <3>3. [likes[found[r]] EXCEPT !.isLike = press[r].isLike] \in LikeDoc
      BY <3>2 DEF LikeDoc
    <3> QED
      BY <2>8, <3>1, <3>3 DEF Save, Arrive, OnItsWay
  <2>9. CASE SaveFails(r)
    BY <2>9 DEF SaveFails, Exit, Arrive, OnItsWay
  <2>10. CASE FindResult(r)
    <3>1. Shown(ButtonOf(r)) \in BOOLEAN \cup {Null}
      BY ShownType
    <3> QED
      BY <2>10, <3>1 DEF FindResult
  <2>11. CASE ReadFails(r)
    BY <2>11 DEF ReadFails, Fail
  <2>12. CASE WriteRejected(r)
    BY <2>12 DEF WriteRejected, Fail, Resume
  <2>13. CASE SaveRejected(r)
    <3>1. up' = FALSE /\ sent' = {} /\ stray' \subseteq Requests
      BY <2>13 DEF SaveRejected, Exit
    <3>2. pc' \in [Requests -> Running \cup Answered \cup {"idle", "lost"}]
      BY <2>13 DEF SaveRejected, Exit
    <3>3. failed' \subseteq Requests \X {"read", "write"}
      BY <2>13 DEF SaveRejected, Fail
    <3> QED
      BY <2>13, <3>1, <3>2, <3>3 DEF SaveRejected
  <2> QED
    BY <1>3, <2>1, <2>2, <2>3, <2>4, <2>5, <2>6, <2>7, <2>8, <2>9, <2>10, <2>11, <2>12, <2>13
    DEF Step, Works, Fails
<1>4. ASSUME NEW m \in Movies, RemoveMovie(m)
      PROVE  TypeOK'
  BY <1>4 DEF RemoveMovie
<1>5. CASE Restart
  BY <1>5 DEF Restart
<1> QED
  BY <1>1, <1>2, <1>3, <1>4, <1>5 DEF Next

(* No step of any press disturbs the invariant: one step per action.       *)
LEMMA InvStep ==
  ASSUME TypeOK, LikeInv, [Next]_vars
  PROVE  LikeInv'
<1> USE DEF TypeOK, LikeInv, OneRecordPerButton, RecordsKeepTheirButton,
            WritesKeepTheirRecord, OneWritePerPress, Created, OnItsWay, ButtonOf
<1>1. CASE UNCHANGED vars
  BY <1>1 DEF vars
<1>2. ASSUME NEW r \in Requests, NEW m \in Movies, NEW u \in Users, NEW v \in BOOLEAN,
             Press(r, m, u, v)
      PROVE  LikeInv'
  <2>1. [movie |-> m, user |-> u, isLike |-> v] # Null
    BY NullAssumption DEF LikeDoc
  <2>2. press' = [press EXCEPT ![r] = [movie |-> m, user |-> u, isLike |-> v]]
        /\ pc[r] = "idle" /\ pc' = [pc EXCEPT ![r] = "findMovie"]
        /\ UNCHANGED <<likes, write, found, sent, stray>>
    BY <1>2 DEF Press
  <2> QED
    BY <2>1, <2>2
<1>3. ASSUME NEW r \in Requests, Step(r)
      PROVE  LikeInv'
  <2>1. CASE FindMovie(r)
    BY <2>1 DEF FindMovie, Running
  <2>2. CASE FindUser(r)
    BY <2>2 DEF FindUser, Running
  <2>3. CASE FindNoLike(r)
    BY <2>3 DEF FindNoLike, Send, Stored, Running
  <2>4. CASE FindSameLike(r)
    BY <2>4 DEF FindSameLike, Send, Stored, Running
  <2>5. CASE FindOtherLike(r)
    BY <2>5 DEF FindOtherLike, Send, Stored, Running
  <2>6. CASE Create(r)
    BY <2>6 DEF Create, Arrive, Resume, Stored, Running
  <2>7. CASE FindByIdAndDelete(r)
    BY <2>7 DEF FindByIdAndDelete, Arrive, Resume, Running
  <2>8. CASE Save(r)
    BY <2>8 DEF Save, Arrive, Running
  <2>9. CASE SaveFails(r)
    BY <2>9 DEF SaveFails, Exit, Arrive, Running
  <2>10. CASE FindResult(r)
    BY <2>10 DEF FindResult, Running
  <2>11. CASE ReadFails(r)
    BY <2>11 DEF ReadFails, Running
  <2>12. CASE WriteRejected(r)
    BY <2>12 DEF WriteRejected, Resume, Running
  <2>13. CASE SaveRejected(r)
    BY <2>13 DEF SaveRejected, Exit, Running
  <2> QED
    BY <1>3, <2>1, <2>2, <2>3, <2>4, <2>5, <2>6, <2>7, <2>8, <2>9, <2>10, <2>11, <2>12, <2>13
    DEF Step, Works, Fails
<1>4. ASSUME NEW m \in Movies, RemoveMovie(m)
      PROVE  LikeInv'
  BY <1>4 DEF RemoveMovie
<1>5. CASE Restart
  BY <1>5 DEF Restart
<1> QED
  BY <1>1, <1>2, <1>3, <1>4, <1>5 DEF Next

(* The invariant holds before the first press.                             *)
LEMMA InitHolds == Init => IInv
<1> SUFFICES ASSUME Init PROVE IInv
  OBVIOUS
<1> USE DEF Init, OnItsWay
<1>1. TypeOK
  BY DEF TypeOK, Running, Answered
<1>2. LikeInv
  BY DEF LikeInv, OneRecordPerButton, RecordsKeepTheirButton,
         WritesKeepTheirRecord, OneWritePerPress
<1> QED
  BY <1>1, <1>2 DEF IInv

(* Types and invariant hold together: each needs the other to be kept.     *)
LEMMA Invariance == Spec => []IInv
<1>1. Init => IInv
  BY InitHolds
<1>2. IInv /\ [Next]_vars => IInv'
  BY TypeStep, InvStep DEF IInv
<1> QED
  BY <1>1, <1>2, PTL DEF Spec

(* Every variable of the toggle keeps its range (817-929).                 *)
THEOREM TypeCorrect == Spec => []TypeOK
BY Invariance, PTL DEF IInv

(* A button never has two records, records keep their button, and a press  *)
(* decides on one write and keeps to the record it read (851-900).         *)
THEOREM RecordsStayApart == Spec => []LikeInv
BY Invariance, PTL DEF IInv

-----------------------------------------------------------------------------
(* What a button shows is its only record's state, before and after a step. *)
LEMMA LitNow ==
  ASSUME OneRecordPerButton, NEW b, NEW d \in Requests, Stored(d, b)
  PROVE  LitAt(b) = [by |-> d, isLike |-> likes[d].isLike]
<1> DEFINE c == CHOOSE c \in Requests : Stored(c, b)
<1>1. c \in Requests /\ Stored(c, b)
  OBVIOUS
<1>2. c = d
  BY <1>1 DEF OneRecordPerButton, Stored
<1> QED
  BY <1>2 DEF LitAt

(* A button with a record after a step is lit by that record.              *)
LEMMA LitNext ==
  ASSUME OneRecordPerButton', NEW b, NEW d \in Requests,
         likes'[d] # Null, <<likes'[d].movie, likes'[d].user>> = b
  PROVE  LitAt(b)' = [by |-> d, isLike |-> likes'[d].isLike]
<1> DEFINE c == CHOOSE c \in Requests :
                  likes'[c] # Null /\ <<likes'[c].movie, likes'[c].user>> = b
<1>1. c \in Requests /\ likes'[c] # Null /\ <<likes'[c].movie, likes'[c].user>> = b
  OBVIOUS
<1>2. c = d
  BY <1>1 DEF OneRecordPerButton
<1> QED
  BY <1>2 DEF LitAt, Stored

(* A button is lit as before when its records were not touched.            *)
LEMMA LitUnchanged ==
  ASSUME OneRecordPerButton, OneRecordPerButton', NEW b,
         \A d \in Requests :
           \/ likes'[d] = likes[d]
           \/ <<likes'[d].movie, likes'[d].user>> # b /\ ~ Stored(d, b)
           \/ likes'[d] = Null /\ ~ Stored(d, b)
  PROVE  LitAt(b)' = LitAt(b)
<1>1. CASE \E d \in Requests : Stored(d, b)
  <2>1. PICK d \in Requests : Stored(d, b)
    BY <1>1
  <2> QED
    BY <2>1, LitNow, LitNext DEF Stored
<1>2. CASE ~ \E d \in Requests : Stored(d, b)
  BY <1>2 DEF LitAt, Stored
<1> QED
  BY <1>1, <1>2

(* Steps that touch no record, decision or write stutter on the buttons.   *)
LEMMA StutterStep ==
  ASSUME IInv, IInv', UNCHANGED <<likes, write, found, sent, stray>>,
         \A r \in Requests : write[r] # "none" => press'[r] = press[r]
  PROVE  UNCHANGED <<LikeBar, PlanBar, ActedBar>>
<1>1. LikeBar' = LikeBar
  BY LitUnchanged DEF LikeBar, Stored, IInv, LikeInv
<1>2. PlanBar' = PlanBar
  BY DEF PlanBar, PlanOf, ButtonOf
<1>3. ActedBar' = ActedBar
  BY DEF ActedBar, OnItsWay
<1> QED
  BY <1>1, <1>2, <1>3

(* Reading the record and deciding is a look at the button.                *)
LEMMA LookStep ==
  ASSUME IInv, IInv', NEW r \in Requests,
         FindNoLike(r) \/ FindSameLike(r) \/ FindOtherLike(r)
  PROVE  Buttons!Look(r)
<1> DEFINE b == ButtonOf(r)
<1>1. /\ pc[r] = "findLike" /\ write[r] = "none"
      /\ write' = [write EXCEPT ![r] = write'[r]] /\ write'[r] # "none"
      /\ sent' = sent \cup {r} /\ UNCHANGED <<likes, press, stray>>
      /\ \E x : found' = [found EXCEPT ![r] = x]
  BY DEF FindNoLike, FindSameLike, FindOtherLike, Send, IInv, TypeOK, LikeInv,
         OneWritePerPress
<1>2. press[r] \in LikeDoc
  BY <1>1 DEF IInv, TypeOK, LikeInv, OneWritePerPress
<1>3. b \in Movies \X Users /\ press[r].isLike \in BOOLEAN
  BY <1>2 DEF ButtonOf, LikeDoc
<1>4. LikeBar' = LikeBar
  BY <1>1, LitUnchanged DEF LikeBar, Stored, IInv, LikeInv
<1>5. ActedBar' = ActedBar
  BY <1>1 DEF ActedBar, OnItsWay, IInv, TypeOK
<1>6. PlanOf(r)' = [button |-> b, saw |-> LitAt(b), isLike |-> press[r].isLike]
  <2>1. CASE FindNoLike(r)
    <3>1. LitAt(b) = Null
      BY <2>1 DEF FindNoLike, LitAt
    <3>2. write'[r] = "create"
      BY <2>1 DEF FindNoLike, Send, IInv, TypeOK
    <3> QED
      BY <1>1, <3>1, <3>2 DEF PlanOf, ButtonOf
  <2>2. CASE FindSameLike(r)
    <3>1. PICK d \in Requests : /\ Stored(d, b)
                                /\ likes[d].isLike = press[r].isLike
                                /\ found'[r] = d
      BY <2>2 DEF FindSameLike, IInv, TypeOK
    <3>2. LitAt(b) = [by |-> d, isLike |-> press[r].isLike]
      BY <3>1, LitNow DEF IInv, LikeInv
    <3>3. write'[r] = "delete"
      BY <2>2 DEF FindSameLike, Send, IInv, TypeOK
    <3> QED
      BY <1>1, <1>3, <3>1, <3>2, <3>3 DEF PlanOf, ButtonOf
  <2>3. CASE FindOtherLike(r)
    <3>1. PICK d \in Requests : /\ Stored(d, b)
                                /\ likes[d].isLike # press[r].isLike
                                /\ found'[r] = d
      BY <2>3 DEF FindOtherLike, IInv, TypeOK
    <3>2. likes[d].isLike \in BOOLEAN
      BY <3>1 DEF Stored, IInv, TypeOK, LikeDoc
    <3>3. LitAt(b) = [by |-> d, isLike |-> likes[d].isLike]
      BY <3>1, LitNow DEF IInv, LikeInv
    <3>4. write'[r] = "save"
      BY <2>3 DEF FindOtherLike, Send, IInv, TypeOK
    <3>5. likes[d].isLike = (FALSE = press[r].isLike)
      BY <1>3, <3>1, <3>2
    <3> QED
      BY <1>1, <1>3, <3>1, <3>3, <3>4, <3>5 DEF PlanOf, ButtonOf
  <2> QED
    BY <2>1, <2>2, <2>3
<1>7. PlanBar' = [PlanBar EXCEPT ![r] = PlanOf(r)']
  <2>1. \A q \in Requests \ {r} : PlanOf(q)' = PlanOf(q)
    BY <1>1 DEF PlanOf, ButtonOf, IInv, TypeOK
  <2> QED
    BY <2>1 DEF PlanBar
<1>8. PlanBar[r] = Null
  BY <1>1 DEF PlanBar, PlanOf
<1>9. LikeBar[b] = LitAt(b)
  BY <1>3 DEF LikeBar
<1> QED
  BY <1>3, <1>4, <1>5, <1>6, <1>7, <1>8, <1>9 DEF Buttons!Look, Buttons!Button

(* A plan of the abstract buttons is never null.                           *)
LEMMA PlanExists ==
  ASSUME IInv, NEW r \in Requests, write[r] # "none"
  PROVE  /\ press[r] \in LikeDoc
         /\ PlanOf(r) # Null /\ PlanOf(r).button = ButtonOf(r)
         /\ PlanOf(r).isLike = press[r].isLike
<1>1. press[r] \in LikeDoc
  BY DEF IInv, TypeOK, LikeInv, OneWritePerPress
<1>2. ButtonOf(r) \in Movies \X Users /\ press[r].isLike \in BOOLEAN
  BY <1>1 DEF ButtonOf, LikeDoc
<1> DEFINE s == IF write[r] = "create" THEN Null
                ELSE [by |-> found[r], isLike |-> (write[r] = "delete") = press[r].isLike]
<1>3. s \in [by : Requests, isLike : BOOLEAN] \cup {Null}
  <2>1. CASE write[r] = "create"
    BY <2>1
  <2>2. CASE write[r] # "create"
    <3>1. found[r] \in Requests
      BY <2>2 DEF IInv, TypeOK, LikeInv, WritesKeepTheirRecord
    <3>2. ((write[r] = "delete") = press[r].isLike) \in BOOLEAN
      OBVIOUS
    <3> QED
      BY <2>2, <3>1, <3>2
  <2> QED
    BY <2>1, <2>2
<1>4. PlanOf(r) = [button |-> ButtonOf(r), saw |-> s, isLike |-> press[r].isLike]
  BY DEF PlanOf
<1> HIDE DEF s
<1>5. PlanOf(r) # Null
  BY <1>2, <1>3, <1>4, NullAssumption
<1> QED
  BY <1>1, <1>4, <1>5

(* A press whose write arrives has acted; its plan and every other stand.  *)
LEMMA ArriveStep ==
  ASSUME IInv, NEW r \in Requests, Arrive(r), r \in OnItsWay, UNCHANGED <<write, found, press>>
  PROVE  /\ PlanBar' = PlanBar
         /\ ActedBar' = ActedBar \cup {r}
         /\ Buttons!May(r)
         /\ PlanBar[r] = PlanOf(r) /\ press[r] \in LikeDoc
<1>1. write[r] # "none" /\ press[r] # Null
  BY DEF IInv, LikeInv, OneWritePerPress
<1>2. press[r] \in LikeDoc
  BY <1>1 DEF IInv, TypeOK
<1>3. PlanBar' = PlanBar
  BY DEF PlanBar, PlanOf, ButtonOf
<1>4. ActedBar' = ActedBar \cup {r}
  BY <1>1 DEF ActedBar, OnItsWay, Arrive
<1>5. PlanBar[r] = PlanOf(r)
  BY DEF PlanBar
<1>6. PlanOf(r) # Null
  BY <1>1, PlanExists
<1>7. r \notin ActedBar
  BY DEF ActedBar
<1> QED
  BY <1>2, <1>3, <1>4, <1>5, <1>6, <1>7 DEF Buttons!May

(* An arriving create lights the button, or misses one lit meanwhile.      *)
LEMMA CreateStep ==
  ASSUME IInv, IInv', NEW r \in Requests, Create(r)
  PROVE  Buttons!Light(r) \/ Buttons!Miss({r})
<1> PICK b : b = ButtonOf(r)
  OBVIOUS
<1>1. r \in OnItsWay /\ Arrive(r) /\ write[r] = "create" /\ UNCHANGED <<press, write, found>>
  BY DEF Create
<1>2. /\ PlanBar' = PlanBar /\ ActedBar' = ActedBar \cup {r} /\ Buttons!May(r)
      /\ PlanBar[r] = PlanOf(r) /\ press[r] \in LikeDoc
  BY <1>1, ArriveStep
<1>3. CASE \E d \in Requests : Stored(d, b)
  <2>1. likes' = likes
    BY <1>3 DEF Create
  <2>2. LikeBar' = LikeBar
    BY <2>1, LitUnchanged DEF LikeBar, Stored, IInv, LikeInv
  <2> QED
    BY <1>2, <2>2 DEF Buttons!Miss, Buttons!May
<1>4. CASE ~ \E d \in Requests : Stored(d, b)
  <2>1. likes' = [likes EXCEPT ![r] = press[r]]
    BY <1>4 DEF Create
  <2>2. likes'[r] = press[r] /\ press[r] # Null
    BY <1>2, <2>1, NullAssumption DEF IInv, TypeOK
  <2>3. b = <<press[r].movie, press[r].user>> /\ b \in Movies \X Users
    BY <1>2 DEF ButtonOf, LikeDoc
  <2>4. LitAt(b)' = [by |-> r, isLike |-> press[r].isLike]
    BY <2>2, <2>3, LitNext DEF IInv, LikeInv
  <2>5. likes[r] = Null
    BY <1>1 DEF IInv, LikeInv, RecordsKeepTheirButton, Created
  <2>6. ASSUME NEW c \in Movies \X Users, c # b
        PROVE  LitAt(c)' = LitAt(c)
    <3>1. ASSUME NEW d \in Requests
          PROVE  \/ likes'[d] = likes[d]
                 \/ <<likes'[d].movie, likes'[d].user>> # c /\ ~ Stored(d, c)
      BY <2>1, <2>2, <2>3, <2>5, <2>6 DEF Stored, IInv, TypeOK
    <3> QED
      BY <3>1, LitUnchanged DEF IInv, LikeInv
  <2>7. LikeBar' = [LikeBar EXCEPT ![b] = [by |-> r, isLike |-> press[r].isLike]]
    BY <2>4, <2>6 DEF LikeBar
  <2>8. LikeBar[b] = Null
    BY <1>4, <2>3 DEF LikeBar, LitAt
  <2>9. PlanOf(r).button = b /\ PlanOf(r).saw = Null /\ PlanOf(r).isLike = press[r].isLike
    BY <1>1 DEF PlanOf
  <2> QED
    BY <1>2, <2>7, <2>8, <2>9 DEF Buttons!Light
<1> QED
  BY <1>3, <1>4

(* An arriving delete or save of the record that was read switches the     *)
(* button; a save of a record that is gone, or a delete of it, misses.     *)
LEMMA SwitchStep ==
  ASSUME IInv, IInv', NEW r \in Requests, FindByIdAndDelete(r) \/ Save(r)
  PROVE  Buttons!Switch(r) \/ Buttons!Miss({r})
<1> PICK b : b = ButtonOf(r)
  OBVIOUS
<1> PICK d : d = found[r]
  OBVIOUS
<1>1. /\ r \in OnItsWay /\ Arrive(r) /\ UNCHANGED <<press, write, found>>
      /\ \/ write[r] = "delete" /\ FindByIdAndDelete(r)
         \/ write[r] = "save" /\ Save(r)
  BY DEF FindByIdAndDelete, Save
<1>2. /\ PlanBar' = PlanBar /\ ActedBar' = ActedBar \cup {r} /\ Buttons!May(r)
      /\ PlanBar[r] = PlanOf(r) /\ press[r] \in LikeDoc
  BY <1>1, ArriveStep
<1>3. d \in Requests /\ Created(d, b)
  BY <1>1 DEF IInv, LikeInv, WritesKeepTheirRecord
<1>4. b = <<press[r].movie, press[r].user>> /\ b \in Movies \X Users
  BY <1>2 DEF ButtonOf, LikeDoc
<1>5. /\ PlanOf(r).button = b /\ PlanOf(r).isLike = press[r].isLike
      /\ PlanOf(r).saw = [by |-> d, isLike |-> (write[r] = "delete") = press[r].isLike]
  BY <1>1 DEF PlanOf
<1>6. PlanOf(r).saw # Null
  <2>1. PICK v \in BOOLEAN : v = ((write[r] = "delete") = press[r].isLike)
    OBVIOUS
  <2>2. [by |-> d, isLike |-> v] \in [by : Requests, isLike : BOOLEAN]
    BY <1>3
  <2> QED
    BY <1>5, <2>1, <2>2, NullAssumption
<1>7. CASE likes[d] = Null
  <2>1. likes' = likes
    BY <1>1, <1>7 DEF FindByIdAndDelete, Save, IInv, TypeOK
  <2>2. LikeBar' = LikeBar
    BY <2>1, LitUnchanged DEF LikeBar, Stored, IInv, LikeInv
  <2> QED
    BY <1>2, <2>2 DEF Buttons!Miss, Buttons!May
<1>8. CASE likes[d] # Null
  <2>1. Stored(d, b)
    BY <1>3, <1>8 DEF Stored, Created, IInv, LikeInv, RecordsKeepTheirButton
  <2>2. LikeBar[b] = [by |-> d, isLike |-> likes[d].isLike]
    BY <1>3, <1>4, <2>1, LitNow DEF LikeBar, IInv, LikeInv
  <2>3. LikeBar[b] # Null /\ LikeBar[b].by = d
    <3>1. likes[d].isLike \in BOOLEAN
      BY <1>3, <1>8 DEF IInv, TypeOK, LikeDoc
    <3> QED
      BY <1>3, <2>2, <3>1, NullAssumption
  <2>4. ASSUME NEW c \in Movies \X Users, c # b
        PROVE  LitAt(c)' = LitAt(c)
    <3>1. ASSUME NEW e \in Requests
          PROVE  \/ likes'[e] = likes[e]
                 \/ likes'[e] = Null /\ ~ Stored(e, c)
                 \/ <<likes'[e].movie, likes'[e].user>> # c /\ ~ Stored(e, c)
      <4>1. CASE e # d
        BY <1>1, <4>1 DEF FindByIdAndDelete, Save, IInv, TypeOK
      <4>2. CASE e = d /\ Save(r)
        <5>1. <<likes[d].movie, likes[d].user>> = b /\ likes[d] \in LikeDoc
          BY <1>3, <2>1 DEF Stored, IInv, TypeOK
        <5>2. likes'[d] = [likes[d] EXCEPT !.isLike = press[r].isLike]
          BY <1>3, <4>2 DEF Save, IInv, TypeOK
        <5>3. likes'[d].movie = likes[d].movie /\ likes'[d].user = likes[d].user
          BY <5>1, <5>2 DEF LikeDoc
        <5> QED
          BY <2>4, <4>2, <5>1, <5>3 DEF Stored
      <4>3. CASE e = d /\ FindByIdAndDelete(r)
        BY <1>3, <2>1, <2>4, <4>3 DEF FindByIdAndDelete, Stored, IInv, TypeOK
      <4> QED
        BY <1>1, <4>1, <4>2, <4>3
    <3> QED
      BY <3>1, LitUnchanged DEF IInv, LikeInv
  <2>5. CASE write[r] = "delete" /\ FindByIdAndDelete(r)
    <3>1. likes' = [likes EXCEPT ![d] = Null]
      BY <2>5 DEF FindByIdAndDelete
    <3>2. \A e \in Requests : ~(likes'[e] # Null /\ <<likes'[e].movie, likes'[e].user>> = b)
      BY <1>3, <2>1, <3>1 DEF Stored, OneRecordPerButton, IInv, LikeInv, TypeOK
    <3>3. LitAt(b)' = Null
      BY <3>2 DEF LitAt, Stored
    <3>4. LikeBar' = [LikeBar EXCEPT ![b] = Null]
      BY <2>4, <3>3 DEF LikeBar
    <3>5. PlanOf(r).saw.isLike = PlanOf(r).isLike
      BY <1>2, <1>5, <2>5 DEF LikeDoc
    <3> QED
      BY <1>2, <1>4, <1>5, <1>6, <2>3, <3>4, <3>5 DEF Buttons!Switch
  <2>6. CASE write[r] = "save" /\ Save(r)
    <3>1. likes'[d] = [likes[d] EXCEPT !.isLike = press[r].isLike] /\ likes[d] \in LikeDoc
      BY <1>3, <1>8, <2>6 DEF Save, IInv, TypeOK
    <3>2. /\ likes'[d].movie = likes[d].movie /\ likes'[d].user = likes[d].user
          /\ likes'[d].isLike = press[r].isLike /\ likes'[d] \in LikeDoc
      BY <1>2, <3>1 DEF LikeDoc
    <3>3. LitAt(b)' = [by |-> d, isLike |-> press[r].isLike]
      BY <1>3, <2>1, <3>2, LitNext, NullAssumption DEF Stored, IInv, LikeInv
    <3>4. LikeBar' = [LikeBar EXCEPT ![b] = [by |-> d, isLike |-> press[r].isLike]]
      BY <2>4, <3>3 DEF LikeBar
    <3>5. PlanOf(r).saw.isLike # PlanOf(r).isLike /\ PlanOf(r).saw.by = d
      BY <1>2, <1>5, <2>6 DEF LikeDoc
    <3> QED
      BY <1>2, <1>4, <1>5, <1>6, <2>3, <3>4, <3>5 DEF Buttons!Switch
  <2> QED
    BY <1>1, <2>5, <2>6
<1> QED
  BY <1>7, <1>8

(* A failed write, and those its process takes along, have no effect.      *)
LEMMA MissStep ==
  ASSUME IInv, IInv', NEW r \in Requests,
         SaveFails(r) \/ WriteRejected(r) \/ SaveRejected(r)
  PROVE  \E S \in SUBSET Requests : Buttons!Miss(S)
<1>1. likes' = likes /\ UNCHANGED <<press, write, found>>
  BY DEF SaveFails, WriteRejected, SaveRejected
<1>2. LikeBar' = LikeBar
  BY <1>1, LitUnchanged DEF LikeBar, Stored, IInv, LikeInv
<1>3. PlanBar' = PlanBar
  BY <1>1 DEF PlanBar, PlanOf, ButtonOf
<1>4. OnItsWay' \subseteq OnItsWay /\ OnItsWay \subseteq Requests
  BY DEF SaveFails, WriteRejected, SaveRejected, Exit, Arrive, OnItsWay, IInv, TypeOK
<1> DEFINE S == OnItsWay \ OnItsWay'
<1>5. ActedBar' = ActedBar \cup S
  BY <1>1, <1>4 DEF ActedBar, IInv, LikeInv, OneWritePerPress
<1>6. ASSUME NEW p \in S
      PROVE  Buttons!May(p)
  <2>1. p \in Requests /\ p \in OnItsWay /\ write[p] # "none"
    BY <1>4, <1>6 DEF IInv, LikeInv, OneWritePerPress
  <2>2. PlanBar[p] # Null
    BY <2>1, PlanExists DEF PlanBar
  <2> QED
    BY <2>1, <2>2 DEF Buttons!May, ActedBar
<1> HIDE DEF S
<1>7. S \subseteq Requests
  BY <1>4 DEF S
<1> QED
  BY <1>2, <1>3, <1>5, <1>6, <1>7 DEF Buttons!Miss

(* Every step of the handlers is a step of the buttons or leaves them.     *)
LEMMA RefinementStep ==
  ASSUME IInv, IInv', [Next]_vars
  PROVE  [Buttons!Next]_(Buttons!vars)
<1> USE DEF Buttons!Next, Buttons!vars
<1>1. CASE UNCHANGED vars
  BY <1>1, StutterStep DEF vars
<1>2. ASSUME NEW r \in Requests, NEW m \in Movies, NEW u \in Users, NEW v \in BOOLEAN,
             Press(r, m, u, v)
      PROVE  UNCHANGED <<LikeBar, PlanBar, ActedBar>>
  <2>1. \A q \in Requests : write[q] # "none" => press'[q] = press[q]
    BY <1>2 DEF Press, IInv, TypeOK, LikeInv, OneWritePerPress
  <2> QED
    BY <1>2, <2>1, StutterStep DEF Press
<1>3. ASSUME NEW r \in Requests, Step(r)
      PROVE  [Buttons!Next]_(Buttons!vars)
  <2>1. CASE FindMovie(r) \/ FindUser(r) \/ FindResult(r) \/ ReadFails(r)
    <3>1. UNCHANGED <<likes, write, found, sent, stray, press>>
      BY <2>1 DEF FindMovie, FindUser, FindResult, ReadFails
    <3> QED
      BY <3>1, StutterStep
  <2>2. CASE FindNoLike(r) \/ FindSameLike(r) \/ FindOtherLike(r)
    BY <2>2, LookStep
  <2>3. CASE Create(r)
    BY <2>3, CreateStep
  <2>4. CASE FindByIdAndDelete(r) \/ Save(r)
    BY <2>4, SwitchStep
  <2>5. CASE SaveFails(r) \/ WriteRejected(r) \/ SaveRejected(r)
    BY <2>5, MissStep
  <2> QED
    BY <1>3, <2>1, <2>2, <2>3, <2>4, <2>5 DEF Step, Works, Fails
<1>4. ASSUME NEW m \in Movies, RemoveMovie(m)
      PROVE  UNCHANGED <<LikeBar, PlanBar, ActedBar>>
  BY <1>4, StutterStep DEF RemoveMovie
<1>5. CASE Restart
  BY <1>5, StutterStep DEF Restart
<1> QED
  BY <1>1, <1>2, <1>3, <1>4, <1>5 DEF Next

(* Presses of any number of buttons, however they overlap and whenever the *)
(* process exits, act as the abstract buttons do (817-929).                *)
THEOREM PressesImplementButtons == Spec => ImplementsLikeButtons
<1>1. Init => Buttons!Init
  <2> SUFFICES ASSUME Init PROVE Buttons!Init
    OBVIOUS
  <2>1. \A b : LitAt(b) = Null
    BY DEF Init, LitAt, Stored
  <2>2. LikeBar = [b \in Buttons!Button |-> Null]
    BY <2>1 DEF LikeBar, Buttons!Button
  <2>3. PlanBar = [p \in Requests |-> Null]
    BY DEF Init, PlanBar, PlanOf
  <2>4. ActedBar = {}
    BY DEF Init, ActedBar
  <2> QED
    BY <2>2, <2>3, <2>4 DEF Buttons!Init
<1>2. IInv /\ IInv' /\ [Next]_vars => [Buttons!Next]_(Buttons!vars)
  BY RefinementStep
<1> QED
  BY <1>1, <1>2, Invariance, PTL DEF Spec, ImplementsLikeButtons, Buttons!Spec

-----------------------------------------------------------------------------
(* Where a running press is, what it has sent and whether the process that *)
(* runs it is up fit together.                                             *)
SentOrStray == sent \cap stray = {}

ProcessAgrees ==
  /\ SentOrStray
  /\ ~ up => sent = {} /\ \A r \in Requests : pc[r] \notin Running
  /\ \A r \in stray : pc[r] \notin Running
  /\ \A r \in Requests :
       /\ pc[r] = "write" => r \in sent /\ write[r] # "save"
       /\ pc[r] \in {"findResult", "ok"} => write[r] # "none"
       /\ pc[r] \in {"findResult", "ok"} /\ r \in sent => write[r] = "save"

(* A write that failed is no longer waited for.                            *)
FailedIsOver ==
  \A r \in Requests : <<r, "write">> \in failed => write[r] # "none" /\ r \notin sent

(* What alone stands for: a press that still is, is by itself.             *)
AloneOnButton ==
  \A r, q \in Requests :
    alone[r] /\ Active(r) /\ Active(q) /\ q # r => ButtonOf(q) # ButtonOf(r)

(* Such a press reads what the button showed when it arrived, and decides  *)
(* accordingly; until its write arrives the button goes on showing it.     *)
AloneDecidesOnStart ==
  \A r \in Requests : alone[r] =>
    /\ write[r] = "create" => start[r] = Null
    /\ write[r] = "delete" => start[r] = press[r].isLike
    /\ write[r] = "save"   => start[r] # Null /\ start[r] # press[r].isLike

AloneIsShown ==
  \A r \in Requests : alone[r] /\ Active(r) =>
    Shown(ButtonOf(r)) =
      IF write[r] = "none" \/ r \in OnItsWay THEN start[r] ELSE Toggled(r)

(* A write on its way to a record that is gone was raced by a delete.      *)
GoneByRace ==
  \A r \in OnItsWay : write[r] \in {"delete", "save"} /\ likes[found[r]] = Null =>
    \E q \in Requests : /\ write[q] = "delete" /\ found[q] = found[r]
                        /\ ~ alone[q] /\ ~ alone[r]

AInv == /\ IInv /\ ProcessAgrees /\ FailedIsOver /\ AloneOnButton /\ AloneDecidesOnStart
        /\ AloneIsShown /\ GoneByRace

(* What a button shows is the isLike of the record stored for it, if any.  *)
LEMMA ShownNow ==
  ASSUME OneRecordPerButton, NEW b, NEW d \in Requests, Stored(d, b)
  PROVE  Shown(b) = likes[d].isLike
<1> DEFINE c == CHOOSE c \in Requests : Stored(c, b)
<1>1. c \in Requests /\ Stored(c, b)
  OBVIOUS
<1>2. c = d
  BY <1>1 DEF OneRecordPerButton, Stored
<1> QED
  BY <1>2 DEF Shown

(* A button with a record after a step shows what that record says.        *)
LEMMA ShownNext ==
  ASSUME OneRecordPerButton', NEW b, NEW d \in Requests,
         likes'[d] # Null, <<likes'[d].movie, likes'[d].user>> = b
  PROVE  Shown(b)' = likes'[d].isLike
<1> DEFINE c == CHOOSE c \in Requests :
                  likes'[c] # Null /\ <<likes'[c].movie, likes'[c].user>> = b
<1>1. c \in Requests /\ likes'[c] # Null /\ <<likes'[c].movie, likes'[c].user>> = b
  OBVIOUS
<1>2. c = d
  BY <1>1 DEF OneRecordPerButton
<1> QED
  BY <1>2 DEF Shown, Stored

(* It is null when there is none, since isLike never is.                   *)
LEMMA ShownNull ==
  ASSUME IInv, NEW b
  PROVE  Shown(b) = Null <=> ~ \E d \in Requests : Stored(d, b)
<1>1. CASE \E d \in Requests : Stored(d, b)
  <2>1. PICK d \in Requests : Stored(d, b)
    BY <1>1
  <2>2. likes[d].isLike \in BOOLEAN
    BY <2>1 DEF Stored, IInv, TypeOK, LikeDoc
  <2>3. Shown(b) = likes[d].isLike
    BY <2>1, ShownNow DEF IInv, LikeInv
  <2> QED
    BY <2>1, <2>2, <2>3, NullAssumption
<1>2. CASE ~ \E d \in Requests : Stored(d, b)
  BY <1>2 DEF Shown
<1> QED
  BY <1>1, <1>2

(* A step that touches no record of a button leaves what it shows.         *)
LEMMA ShownUnchanged ==
  ASSUME OneRecordPerButton, OneRecordPerButton', NEW b,
         \A d \in Requests :
           \/ likes'[d] = likes[d]
           \/ <<likes'[d].movie, likes'[d].user>> # b /\ ~ Stored(d, b)
           \/ likes'[d] = Null /\ ~ Stored(d, b)
  PROVE  Shown(b)' = Shown(b)
<1>1. CASE \E d \in Requests : Stored(d, b)
  <2>1. PICK d \in Requests : Stored(d, b)
    BY <1>1
  <2> QED
    BY <2>1, ShownNow, ShownNext DEF Stored
<1>2. CASE ~ \E d \in Requests : Stored(d, b)
  BY <1>2 DEF Shown, Stored
<1> QED
  BY <1>1, <1>2

(* A step of a handler changes no press, and none becomes active by it.    *)
LEMMA StepKeeps ==
  ASSUME IInv, NEW r \in Requests, Step(r)
  PROVE  /\ UNCHANGED <<press, start, alone>> /\ Active(r)
         /\ \A q \in Requests : q # r => write'[q] = write[q] /\ found'[q] = found[q]
         /\ \A q \in Requests : Active(q)' => Active(q)
         /\ \A q \in Requests : q # r =>
              /\ q \in OnItsWay' => q \in OnItsWay
              /\ q \in OnItsWay /\ Active(q)' => q \in OnItsWay'
<1> USE DEF Active, OnItsWay, IInv, TypeOK, Running
<1>1. CASE FindMovie(r)
  BY <1>1 DEF FindMovie
<1>2. CASE FindUser(r)
  BY <1>2 DEF FindUser
<1>3. CASE FindNoLike(r)
  BY <1>3 DEF FindNoLike, Send
<1>4. CASE FindSameLike(r)
  BY <1>4 DEF FindSameLike, Send
<1>5. CASE FindOtherLike(r)
  BY <1>5 DEF FindOtherLike, Send
<1>6. CASE Create(r)
  BY <1>6 DEF Create, Arrive, Resume
<1>7. CASE FindByIdAndDelete(r)
  BY <1>7 DEF FindByIdAndDelete, Arrive, Resume
<1>8. CASE Save(r)
  BY <1>8 DEF Save, Arrive
<1>9. CASE SaveFails(r)
  BY <1>9 DEF SaveFails, Exit, Arrive
<1>10. CASE FindResult(r)
  BY <1>10 DEF FindResult
<1>11. CASE ReadFails(r)
  BY <1>11 DEF ReadFails
<1>12. CASE WriteRejected(r)
  BY <1>12 DEF WriteRejected, Resume
<1>13. CASE SaveRejected(r)
  BY <1>13 DEF SaveRejected, Exit
<1> QED
  BY <1>1, <1>2, <1>3, <1>4, <1>5, <1>6, <1>7, <1>8, <1>9, <1>10, <1>11, <1>12, <1>13 DEF Step, Works, Fails

(* The steps of a handler, by what they do to the process.             *)
LEMMA ProcessStep ==
  ASSUME IInv, ProcessAgrees, [Next]_vars
  PROVE  ProcessAgrees'
<1> USE DEF ProcessAgrees, SentOrStray, IInv, TypeOK, Running, Answered, LikeInv,
            OneWritePerPress
<1>1. CASE UNCHANGED vars
  BY <1>1 DEF vars
<1>2. ASSUME NEW r \in Requests, NEW m \in Movies, NEW u \in Users, NEW v \in BOOLEAN,
             Press(r, m, u, v)
      PROVE  ProcessAgrees'
  <2>1. /\ up /\ pc[r] = "idle" /\ pc' = [pc EXCEPT ![r] = "findMovie"]
        /\ UNCHANGED <<up, write, sent, stray>>
    BY <1>2 DEF Press
  <2>2. r \notin sent /\ r \notin stray
    BY <2>1 DEF OnItsWay
  <2> QED
    BY <2>1, <2>2
<1>3. ASSUME NEW r \in Requests, Step(r)
      PROVE  ProcessAgrees'
  <2>1. CASE FindMovie(r)
    BY <2>1 DEF FindMovie
  <2>2. CASE FindUser(r)
    BY <2>2 DEF FindUser
  <2>3. CASE FindNoLike(r)
    BY <2>3 DEF FindNoLike, Send
  <2>4. CASE FindSameLike(r)
    BY <2>4 DEF FindSameLike, Send
  <2>5. CASE FindOtherLike(r)
    BY <2>5 DEF FindOtherLike, Send
  <2>6. CASE Create(r)
    BY <2>6 DEF Create, Arrive, Resume, OnItsWay
  <2>7. CASE FindByIdAndDelete(r)
    BY <2>7 DEF FindByIdAndDelete, Arrive, Resume, OnItsWay
  <2>8. CASE Save(r)
    <3>1. UNCHANGED <<up, pc, write>> /\ sent' = sent \ {r} /\ stray' = stray \ {r}
      BY <2>8 DEF Save, Arrive
    <3>2. pc[r] # "write"
      BY <2>8 DEF Save, ProcessAgrees
    <3> QED
      BY <3>1, <3>2
  <2>9. CASE SaveFails(r)
    BY <2>9 DEF SaveFails, Exit, Arrive, OnItsWay
  <2>10. CASE FindResult(r)
    BY <2>10 DEF FindResult
  <2>11. CASE ReadFails(r)
    BY <2>11 DEF ReadFails
  <2>12. CASE WriteRejected(r)
    <3>1. pc[r] # "findResult"
      BY <2>12 DEF WriteRejected
    <3> QED
      BY <2>12, <3>1 DEF WriteRejected, Resume
  <2>13. CASE SaveRejected(r)
    BY <2>13 DEF SaveRejected, Exit
  <2> QED
    BY <1>3, <2>1, <2>2, <2>3, <2>4, <2>5, <2>6, <2>7, <2>8, <2>9, <2>10, <2>11, <2>12, <2>13
    DEF Step, Works, Fails
<1>4. ASSUME NEW m \in Movies, RemoveMovie(m)
      PROVE  ProcessAgrees'
  BY <1>4 DEF RemoveMovie
<1>5. CASE Restart
  BY <1>5 DEF Restart
<1> QED
  BY <1>1, <1>2, <1>3, <1>4, <1>5 DEF Next

(* A write fails only while it is waited for, and then no longer is.       *)
LEMMA FailedStep ==
  ASSUME IInv, ProcessAgrees, FailedIsOver, [Next]_vars
  PROVE  FailedIsOver'
<1> SUFFICES ASSUME NEW p \in Requests, <<p, "write">> \in failed'
             PROVE  write'[p] # "none" /\ p \notin sent'
  BY DEF FailedIsOver
<1> USE DEF IInv, TypeOK
<1>1. CASE UNCHANGED <<failed, write, sent>>
  BY <1>1 DEF FailedIsOver
<1>2. ASSUME NEW r \in Requests, Step(r)
      PROVE  write'[p] # "none" /\ p \notin sent'
  <2>1. CASE FindMovie(r) \/ FindUser(r) \/ FindResult(r)
    BY <2>1 DEF FindMovie, FindUser, FindResult, FailedIsOver
  <2>2. CASE FindNoLike(r) \/ FindSameLike(r) \/ FindOtherLike(r)
    <3>1. <<p, "write">> \in failed /\ write[r] = "none"
      BY <2>2 DEF FindNoLike, FindSameLike, FindOtherLike, Send, LikeInv, OneWritePerPress
    <3>2. p # r
      BY <3>1 DEF FailedIsOver
    <3> QED
      BY <2>2, <3>1, <3>2 DEF FindNoLike, FindSameLike, FindOtherLike, Send, FailedIsOver
  <2>3. CASE Create(r) \/ FindByIdAndDelete(r) \/ Save(r)
    BY <2>3 DEF Create, FindByIdAndDelete, Save, Arrive, FailedIsOver
  <2>4. CASE SaveFails(r)
    BY <2>4 DEF SaveFails, Exit, Arrive, FailedIsOver
  <2>5. CASE ReadFails(r)
    <3>1. failed' = failed \cup {<<r, "read">>} /\ UNCHANGED <<write, sent>>
      BY <2>5 DEF ReadFails, Fail
    <3> QED
      BY <3>1 DEF FailedIsOver
  <2>6. CASE WriteRejected(r) \/ SaveRejected(r)
    <3>1. /\ failed' = failed \cup {<<r, "write">>} /\ write' = write
          /\ sent' \subseteq sent \ {r} /\ write[r] # "none"
      BY <2>6 DEF WriteRejected, SaveRejected, Fail, Exit
    <3> QED
      BY <3>1 DEF FailedIsOver
  <2> QED
    BY <1>2, <2>1, <2>2, <2>3, <2>4, <2>5, <2>6 DEF Step, Works, Fails
<1> QED
  BY <1>1, <1>2 DEF Next, vars, Press, RemoveMovie, Restart

(* What arriving does: the new press is the only one that becomes active,  *)
(* and it is alone only if no other press of its button is.                *)
LEMMA PressKeeps ==
  ASSUME IInv, NEW r \in Requests, NEW m \in Movies, NEW u \in Users, NEW v \in BOOLEAN,
         Press(r, m, u, v)
  PROVE  /\ ~ Active(r) /\ write[r] = "none" /\ r \notin OnItsWay /\ pc[r] = "idle"
         /\ pc'[r] = "findMovie" /\ ButtonOf(r)' = <<m, u>> /\ start'[r] = Shown(<<m, u>>)
         /\ UNCHANGED <<likes, write, found, OnItsWay, result>>
         /\ \A q \in Requests : q # r =>
              /\ press'[q] = press[q] /\ start'[q] = start[q] /\ pc'[q] = pc[q]
              /\ Active(q)' = Active(q)
              /\ alone'[q] => alone[q]
              /\ Active(q) /\ ButtonOf(q) = <<m, u>> => ~ alone'[q] /\ ~ alone'[r]
<1>1. /\ pc[r] = "idle" /\ pc' = [pc EXCEPT ![r] = "findMovie"]
      /\ press' = [press EXCEPT ![r] = [movie |-> m, user |-> u, isLike |-> v]]
      /\ start' = [start EXCEPT ![r] = Shown(<<m, u>>)]
      /\ UNCHANGED <<likes, write, found, sent, stray, result>>
  BY DEF Press
<1>2. write[r] = "none" /\ r \notin OnItsWay
  BY <1>1 DEF IInv, LikeInv, OneWritePerPress
<1>3. ~ Active(r)
  BY <1>1, <1>2 DEF Active, Running
<1>4. ButtonOf(r)' = <<m, u>>
  BY <1>1 DEF ButtonOf, IInv, TypeOK
<1>5. UNCHANGED OnItsWay
  BY <1>1 DEF OnItsWay
<1>6. ASSUME NEW q \in Requests, q # r
      PROVE  /\ press'[q] = press[q] /\ start'[q] = start[q] /\ pc'[q] = pc[q]
             /\ Active(q)' = Active(q)
  BY <1>1, <1>6 DEF Active, OnItsWay, IInv, TypeOK
<1>7. ASSUME NEW q \in Requests, q # r
      PROVE  alone'[q] => alone[q]
  BY <1>7 DEF Press
<1>8. ASSUME NEW q \in Requests, q # r, Active(q), ButtonOf(q) = <<m, u>>
      PROVE  ~ alone'[q] /\ ~ alone'[r]
  BY <1>8 DEF Press
<1> QED
  BY <1>1, <1>2, <1>3, <1>4, <1>5, <1>6, <1>7, <1>8 DEF IInv, TypeOK

(* A press is alone only as long as no other of its button is active.      *)
LEMMA AloneStep ==
  ASSUME IInv, AloneOnButton, [Next]_vars
  PROVE  AloneOnButton'
<1>1. CASE UNCHANGED vars \/ Restart \/ \E m \in Movies : RemoveMovie(m)
  <2>1. UNCHANGED <<pc, press, sent, stray, alone>>
    BY <1>1 DEF vars, Restart, RemoveMovie
  <2> QED
    BY <2>1 DEF AloneOnButton, Active, OnItsWay, ButtonOf
<1>2. ASSUME NEW r \in Requests, NEW m \in Movies, NEW u \in Users, NEW v \in BOOLEAN,
             Press(r, m, u, v)
      PROVE  AloneOnButton'
  <2> SUFFICES ASSUME NEW p \in Requests, NEW q \in Requests, q # p,
                      alone'[p], Active(p)', Active(q)'
               PROVE  ButtonOf(q)' # ButtonOf(p)'
    BY DEF AloneOnButton
  <2>1. CASE p # r /\ q # r
    <3>1. alone[p] /\ Active(p) /\ Active(q) /\ press'[p] = press[p] /\ press'[q] = press[q]
      BY <1>2, <2>1, PressKeeps
    <3> QED
      BY <3>1 DEF AloneOnButton, ButtonOf
  <2>2. CASE p = r
    <3>1. Active(q) /\ press'[q] = press[q] /\ ButtonOf(r)' = <<m, u>>
      BY <1>2, <2>2, PressKeeps
    <3>2. ButtonOf(q) # <<m, u>>
      BY <1>2, <2>2, <3>1, PressKeeps
    <3> QED
      BY <2>2, <3>1, <3>2 DEF ButtonOf
  <2>3. CASE q = r
    <3>1. Active(p) /\ press'[p] = press[p] /\ ButtonOf(r)' = <<m, u>>
      BY <1>2, <2>3, PressKeeps
    <3>2. ButtonOf(p) # <<m, u>>
      BY <1>2, <2>3, <3>1, PressKeeps
    <3> QED
      BY <2>3, <3>1, <3>2 DEF ButtonOf
  <2> QED
    BY <2>1, <2>2, <2>3
<1>3. ASSUME NEW r \in Requests, Step(r)
      PROVE  AloneOnButton'
  BY <1>3, StepKeeps DEF AloneOnButton, ButtonOf
<1> QED
  BY <1>1, <1>2, <1>3 DEF Next

(* Others, too, switch only buttons of their own.                          *)
LEMMA OthersShown ==
  ASSUME AInv, IInv', NEW r \in Requests, Step(r),
         NEW p \in Requests, p # r, alone[p], Active(p)
  PROVE  Shown(ButtonOf(p))' = Shown(ButtonOf(p))
<1> PICK b : b = ButtonOf(p)
  OBVIOUS
<1>1. ButtonOf(r) # b /\ press' = press
  BY StepKeeps DEF AInv, AloneOnButton
<1>2. ASSUME NEW d \in Requests
      PROVE  \/ likes'[d] = likes[d]
             \/ <<likes'[d].movie, likes'[d].user>> # b /\ ~ Stored(d, b)
             \/ likes'[d] = Null /\ ~ Stored(d, b)
  <2>1. CASE likes' = likes
    BY <2>1
  <2>2. CASE Create(r)
    <3>1. likes[r] = Null
      BY <2>2 DEF Create, AInv, IInv, LikeInv, RecordsKeepTheirButton, Created
    <3> QED
      BY <1>1, <2>2, <3>1 DEF Create, ButtonOf, Stored, AInv, IInv, TypeOK
  <2>3. CASE FindByIdAndDelete(r) \/ Save(r)
    <3>1. found[r] \in Requests /\ Created(found[r], ButtonOf(r))
      BY <2>3 DEF FindByIdAndDelete, Save, AInv, IInv, LikeInv, WritesKeepTheirRecord
    <3>2. ~ Stored(found[r], b)
      BY <1>1, <3>1 DEF Stored, Created, AInv, IInv, LikeInv, RecordsKeepTheirButton
    <3>3. CASE FindByIdAndDelete(r)
      BY <3>1, <3>2, <3>3 DEF FindByIdAndDelete, AInv, IInv, TypeOK
    <3>4. CASE Save(r)
      <4>1. likes[found[r]] \in LikeDoc /\ likes[found[r]] # Null
        BY <3>1, <3>4 DEF Save, AInv, IInv, TypeOK
      <4>2. likes' = [likes EXCEPT ![found[r]] =
                        [likes[found[r]] EXCEPT !.isLike = press[r].isLike]]
        BY <3>1, <3>4 DEF Save
      <4>3. CASE d = found[r]
        <5>1. likes'[d] = [likes[d] EXCEPT !.isLike = press[r].isLike]
          BY <4>2, <4>3 DEF AInv, IInv, TypeOK
        <5>2. likes'[d].movie = likes[d].movie /\ likes'[d].user = likes[d].user
          BY <4>1, <4>3, <5>1 DEF LikeDoc
        <5> QED
          BY <3>2, <4>1, <4>3, <5>2 DEF Stored
      <4>4. CASE d # found[r]
        BY <4>2, <4>4 DEF AInv, IInv, TypeOK
      <4> QED
        BY <4>3, <4>4
    <3> QED
      BY <2>3, <3>3, <3>4
  <2> QED
    BY <2>1, <2>2, <2>3
    DEF Step, Works, Fails, FindMovie, FindUser, FindNoLike, FindSameLike, FindOtherLike, Send,
        SaveFails, FindResult, ReadFails, WriteRejected, SaveRejected
<1>3. Shown(b)' = Shown(b)
  BY <1>2, ShownUnchanged DEF AInv, IInv, LikeInv
<1> QED
  BY <1>1, <1>3 DEF ButtonOf

(* A press without a write yet decides on one by looking at its button.    *)
LEMMA LookDecides ==
  ASSUME AInv, IInv', NEW r \in Requests, alone[r],
         FindNoLike(r) \/ FindSameLike(r) \/ FindOtherLike(r)
  PROVE  /\ likes' = likes /\ press' = press /\ start' = start
         /\ r \in OnItsWay' /\ write'[r] # "none"
         /\ Shown(ButtonOf(r)) = start[r]
         /\ write'[r] = "create" => start[r] = Null
         /\ write'[r] = "delete" => start[r] = press[r].isLike
         /\ write'[r] = "save"   => start[r] # Null /\ start[r] # press[r].isLike
<1> PICK b : b = ButtonOf(r)
  OBVIOUS
<1>1. /\ pc[r] = "findLike" /\ likes' = likes /\ press' = press /\ start' = start
      /\ r \in OnItsWay'
  BY DEF FindNoLike, FindSameLike, FindOtherLike, Send, OnItsWay
<1>2. Shown(b) = start[r]
  BY <1>1 DEF AInv, AloneIsShown, Active, Running, IInv, LikeInv, OneWritePerPress
<1>3. CASE FindNoLike(r)
  <2>1. write'[r] = "create"
    BY <1>3 DEF FindNoLike, Send, AInv, IInv, TypeOK
  <2>2. Shown(b) = Null
    BY <1>3 DEF FindNoLike, Shown
  <2> QED
    BY <1>1, <1>2, <2>1, <2>2
<1>4. CASE FindSameLike(r)
  <2>1. write'[r] = "delete"
    BY <1>4 DEF FindSameLike, Send, AInv, IInv, TypeOK
  <2>2. PICK d \in Requests : Stored(d, b) /\ likes[d].isLike = press[r].isLike
    BY <1>4 DEF FindSameLike
  <2>3. Shown(b) = likes[d].isLike
    BY <2>2, ShownNow DEF AInv, IInv, LikeInv
  <2> QED
    BY <1>1, <1>2, <2>1, <2>2, <2>3
<1>5. CASE FindOtherLike(r)
  <2>1. write'[r] = "save"
    BY <1>5 DEF FindOtherLike, Send, AInv, IInv, TypeOK
  <2>2. PICK d \in Requests : Stored(d, b) /\ likes[d].isLike # press[r].isLike
    BY <1>5 DEF FindOtherLike
  <2>3. Shown(b) = likes[d].isLike
    BY <2>2, ShownNow DEF AInv, IInv, LikeInv
  <2>4. Shown(b) # Null
    BY <2>2, ShownNull DEF AInv
  <2> QED
    BY <1>1, <1>2, <2>1, <2>2, <2>3, <2>4
<1> QED
  BY <1>3, <1>4, <1>5

(* Only looking decides: other steps of a handler keep its write.          *)
LEMMA WriteKept ==
  ASSUME NEW r \in Requests, Step(r),
         ~ (FindNoLike(r) \/ FindSameLike(r) \/ FindOtherLike(r))
  PROVE  UNCHANGED <<write, found>>
BY DEF Step, Works, Fails, FindMovie, FindUser, Create, FindByIdAndDelete, Save, SaveFails, FindResult,
   ReadFails, WriteRejected, SaveRejected

(* What a press that is alone has decided on keeps fitting the button it   *)
(* found: it decides once, on the record that was there when it came.      *)
LEMMA DecidesStep ==
  ASSUME AInv, IInv', [Next]_vars
  PROVE  AloneDecidesOnStart'
<1> SUFFICES ASSUME NEW p \in Requests, alone'[p]
             PROVE  /\ write'[p] = "create" => start'[p] = Null
                    /\ write'[p] = "delete" => start'[p] = press'[p].isLike
                    /\ write'[p] = "save"   => start'[p] # Null
                                               /\ start'[p] # press'[p].isLike
  BY DEF AloneDecidesOnStart
<1>1. CASE UNCHANGED <<write, press, start, alone>>
  BY <1>1 DEF AInv, AloneDecidesOnStart
<1>2. ASSUME NEW r \in Requests, NEW m \in Movies, NEW u \in Users, NEW v \in BOOLEAN,
             Press(r, m, u, v)
      PROVE  /\ write'[p] = "create" => start'[p] = Null
             /\ write'[p] = "delete" => start'[p] = press'[p].isLike
             /\ write'[p] = "save"   => start'[p] # Null /\ start'[p] # press'[p].isLike
  <2>1. CASE p = r
    <3>1. write'[p] = "none"
      BY <1>2, <2>1, PressKeeps DEF AInv
    <3> QED
      BY <3>1
  <2>2. CASE p # r
    <3>1. /\ alone[p] /\ write'[p] = write[p] /\ press'[p] = press[p]
          /\ start'[p] = start[p]
      BY <1>2, <2>2, PressKeeps DEF AInv
    <3> QED
      BY <3>1 DEF AInv, AloneDecidesOnStart
  <2> QED
    BY <2>1, <2>2
<1>3. ASSUME NEW r \in Requests, Step(r)
      PROVE  /\ write'[p] = "create" => start'[p] = Null
             /\ write'[p] = "delete" => start'[p] = press'[p].isLike
             /\ write'[p] = "save"   => start'[p] # Null /\ start'[p] # press'[p].isLike
  <2>1. UNCHANGED <<press, start, alone>> /\ (p # r => write'[p] = write[p])
    BY <1>3, StepKeeps DEF AInv
  <2>2. CASE p = r /\ (FindNoLike(r) \/ FindSameLike(r) \/ FindOtherLike(r))
    BY <2>1, <2>2, LookDecides
  <2>3. CASE p # r \/ ~ (FindNoLike(r) \/ FindSameLike(r) \/ FindOtherLike(r))
    <3>1. write'[p] = write[p]
      BY <1>3, <2>1, <2>3, WriteKept
    <3> QED
      BY <2>1, <3>1 DEF AInv, AloneDecidesOnStart
  <2> QED
    BY <2>2, <2>3
<1> QED
  BY <1>1, <1>2, <1>3 DEF Next, vars, RemoveMovie, Restart

(* The write of a press alone on its button toggles the button; it finds   *)
(* the record it read, or none, as it did when it looked.                  *)
LEMMA WriteToggles ==
  ASSUME AInv, IInv', NEW r \in Requests, alone[r],
         Create(r) \/ FindByIdAndDelete(r) \/ Save(r)
  PROVE  /\ Shown(ButtonOf(r))' = Toggled(r) /\ Toggled(r)' = Toggled(r)
         /\ r \notin OnItsWay' /\ write' = write
         /\ pc'[r] # "serverError" \/ pc[r] = "serverError"
<1> PICK b : b = ButtonOf(r)
  OBVIOUS
<1>1. /\ r \in OnItsWay /\ r \notin OnItsWay' /\ UNCHANGED <<press, start, write>>
  BY DEF Create, FindByIdAndDelete, Save, Arrive, OnItsWay
<1>2. Toggled(r)' = Toggled(r) /\ ButtonOf(r)' = b
  BY <1>1 DEF Toggled, ButtonOf
<1>3. Shown(b) = start[r] /\ write[r] # "none" /\ press[r] # Null
  BY <1>1 DEF AInv, AloneIsShown, Active, IInv, LikeInv, OneWritePerPress
<1>4. press[r] \in LikeDoc
  BY <1>3 DEF AInv, IInv, TypeOK
<1>5. b = <<press[r].movie, press[r].user>> /\ press[r].isLike \in BOOLEAN
  BY <1>4 DEF ButtonOf, LikeDoc
<1>6. CASE Create(r)
  <2>1. start[r] = Null
    BY <1>6 DEF Create, AInv, AloneDecidesOnStart
  <2>2. ~ \E d \in Requests : Stored(d, b)
    BY <1>3, <2>1, ShownNull DEF AInv
  <2>3. likes' = [likes EXCEPT ![r] = press[r]] /\ Resume(r, "findResult")
    BY <1>6, <2>2 DEF Create
  <2>4. Shown(b)' = press[r].isLike
    BY <1>4, <1>5, <2>3, ShownNext, NullAssumption DEF AInv, IInv, TypeOK, LikeInv
  <2>5. Toggled(r) = press[r].isLike
    BY <1>5, <2>1, NullAssumption DEF Toggled
  <2> QED
    BY <1>1, <1>2, <2>3, <2>4, <2>5 DEF Resume, AInv, IInv, TypeOK
<1>7. CASE FindByIdAndDelete(r) \/ Save(r)
  <2> PICK d : d = found[r]
    OBVIOUS
  <2>1. d \in Requests /\ Created(d, b) /\ write[r] \in {"delete", "save"}
    BY <1>7 DEF FindByIdAndDelete, Save, AInv, IInv, LikeInv, WritesKeepTheirRecord
  <2>2. likes[d] # Null
    BY <1>1, <2>1 DEF AInv, GoneByRace
  <2>3. Stored(d, b)
    BY <2>1, <2>2 DEF Stored, Created, AInv, IInv, LikeInv, RecordsKeepTheirButton
  <2>4. CASE FindByIdAndDelete(r)
    <3>1. likes' = [likes EXCEPT ![d] = Null] /\ Resume(r, "findResult")
      BY <2>4 DEF FindByIdAndDelete
    <3>2. \A e \in Requests : ~ (likes'[e] # Null /\ <<likes'[e].movie, likes'[e].user>> = b)
      BY <2>1, <2>3, <3>1 DEF Stored, OneRecordPerButton, AInv, IInv, LikeInv, TypeOK
    <3>3. Shown(b)' = Null
      BY <3>2 DEF Shown, Stored
    <3>4. Toggled(r) = Null
      BY <2>4 DEF Toggled, FindByIdAndDelete, AInv, AloneDecidesOnStart
    <3> QED
      BY <1>1, <1>2, <3>1, <3>3, <3>4 DEF Resume, AInv, IInv, TypeOK
  <2>5. CASE Save(r)
    <3>1. likes'[d] = [likes[d] EXCEPT !.isLike = press[r].isLike] /\ likes[d] \in LikeDoc
      BY <2>1, <2>2, <2>5 DEF Save, AInv, IInv, TypeOK
    <3>2. /\ likes'[d].movie = likes[d].movie /\ likes'[d].user = likes[d].user
          /\ likes'[d].isLike = press[r].isLike /\ likes'[d] \in LikeDoc
      BY <1>5, <3>1 DEF LikeDoc
    <3>3. Shown(b)' = press[r].isLike
      BY <2>1, <2>3, <3>2, ShownNext, NullAssumption DEF Stored, IInv, LikeInv
    <3>4. Toggled(r) = press[r].isLike
      BY <2>5 DEF Toggled, Save, AInv, AloneDecidesOnStart
    <3> QED
      BY <1>1, <1>2, <2>5, <3>3, <3>4 DEF Save
  <2> QED
    BY <1>7, <2>4, <2>5
<1> QED
  BY <1>6, <1>7

(* A press whose write is rejected ends there, unless it is carried out    *)
(* late: then it is not over until it is.                                  *)
LEMMA RejectedIsOver ==
  ASSUME IInv, ProcessAgrees, NEW r \in Requests, WriteRejected(r) \/ SaveRejected(r)
  PROVE  /\ UNCHANGED <<likes, write, result>> /\ r \in OnItsWay
         /\ Active(r)' => r \in OnItsWay'
<1> USE DEF IInv, TypeOK, Active, OnItsWay, Running
<1>1. CASE WriteRejected(r)
  <2>1. pc[r] \notin Running \ {"write"}
    BY <1>1 DEF WriteRejected, ProcessAgrees, LikeInv, OneWritePerPress
  <2> QED
    BY <1>1, <2>1 DEF WriteRejected, Resume
<1>2. CASE SaveRejected(r)
  BY <1>2 DEF SaveRejected, Exit
<1> QED
  BY <1>1, <1>2

(* The button of a press that is alone shows what it did at the start      *)
(* until the write has arrived, and is toggled from then on.               *)
LEMMA ShownStep ==
  ASSUME AInv, IInv', [Next]_vars
  PROVE  AloneIsShown'
<1> SUFFICES ASSUME NEW p \in Requests, alone'[p], Active(p)'
             PROVE  Shown(ButtonOf(p))' =
                      IF write'[p] = "none" \/ p \in OnItsWay' THEN start'[p] ELSE Toggled(p)'
  BY DEF AloneIsShown
<1> DEFINE Goal == Shown(ButtonOf(p))' =
                     IF write'[p] = "none" \/ p \in OnItsWay' THEN start'[p] ELSE Toggled(p)'
<1>1. CASE UNCHANGED <<likes, pc, write, press, start, alone, sent, stray>>
  BY <1>1 DEF AInv, AloneIsShown, Active, OnItsWay, Shown, Stored, ButtonOf, Toggled
<1>2. ASSUME NEW r \in Requests, NEW m \in Movies, NEW u \in Users, NEW v \in BOOLEAN,
             Press(r, m, u, v)
      PROVE  Goal
  <2>1. UNCHANGED <<likes, write, OnItsWay>>
    BY <1>2, PressKeeps DEF AInv
  <2>2. CASE p = r
    <3>1. write'[p] = "none" /\ ButtonOf(p)' = <<m, u>> /\ start'[p] = Shown(<<m, u>>)
      BY <1>2, <2>2, PressKeeps DEF AInv
    <3>2. Shown(ButtonOf(p))' = Shown(<<m, u>>)
      BY <2>1, <3>1 DEF Shown, Stored
    <3> QED
      BY <3>1, <3>2
  <2>3. CASE p # r
    <3>1. /\ alone[p] /\ Active(p) /\ press'[p] = press[p] /\ start'[p] = start[p]
      BY <1>2, <2>3, PressKeeps DEF AInv
    <3>2. ButtonOf(p)' = ButtonOf(p) /\ Toggled(p)' = Toggled(p)
      BY <3>1 DEF ButtonOf, Toggled
    <3>3. Shown(ButtonOf(p))' = Shown(ButtonOf(p))
      BY <2>1, <3>2 DEF Shown, Stored
    <3> QED
      BY <2>1, <3>1, <3>2, <3>3 DEF AInv, AloneIsShown
  <2> QED
    BY <2>2, <2>3
<1>3. ASSUME NEW r \in Requests, Step(r)
      PROVE  Goal
  <2>1. /\ UNCHANGED <<press, start, alone>> /\ Active(p)
        /\ p # r => write'[p] = write[p] /\ (p \in OnItsWay' <=> p \in OnItsWay)
    BY <1>3, StepKeeps DEF AInv
  <2>2. ButtonOf(p)' = ButtonOf(p) /\ Toggled(p)' = Toggled(p)
    BY <2>1 DEF ButtonOf, Toggled
  <2>3. CASE p # r
    <3>1. Shown(ButtonOf(p))' = Shown(ButtonOf(p))
      BY <1>3, <2>1, <2>3, OthersShown
    <3> QED
      BY <2>1, <2>2, <2>3, <3>1 DEF AInv, AloneIsShown
  <2>4. CASE p = r /\ (FindNoLike(r) \/ FindSameLike(r) \/ FindOtherLike(r))
    <3>1. /\ likes' = likes /\ p \in OnItsWay'
          /\ Shown(ButtonOf(p)) = start[p]
      BY <2>1, <2>4, LookDecides
    <3>2. Shown(ButtonOf(p))' = Shown(ButtonOf(p))
      BY <2>2, <3>1 DEF Shown, Stored
    <3> QED
      BY <2>1, <3>1, <3>2
  <2>5. CASE p = r /\ (Create(r) \/ FindByIdAndDelete(r) \/ Save(r))
    <3>1. /\ Shown(ButtonOf(p))' = Toggled(p) /\ p \notin OnItsWay' /\ write' = write
      BY <2>1, <2>5, WriteToggles
    <3>2. write[p] # "none"
      BY <2>5 DEF Create, FindByIdAndDelete, Save
    <3> QED
      BY <2>2, <3>1, <3>2
  <2>6. CASE p = r /\ SaveFails(r)
    <3>1. r \in OnItsWay /\ write[r] = "save" /\ likes[found[r]] = Null /\ alone[r]
      BY <2>1, <2>6 DEF SaveFails
    <3> QED
      BY <3>1 DEF AInv, GoneByRace
  <2>7. CASE p = r /\ (FindMovie(r) \/ FindUser(r) \/ FindResult(r) \/ ReadFails(r))
    <3>1. UNCHANGED <<likes, write, sent, stray>>
      BY <2>7 DEF FindMovie, FindUser, FindResult, ReadFails
    <3>2. Shown(ButtonOf(p))' = Shown(ButtonOf(p))
      BY <2>2, <3>1 DEF Shown, Stored
    <3> QED
      BY <2>1, <2>2, <3>1, <3>2 DEF AInv, AloneIsShown, OnItsWay
  <2>8. CASE p = r /\ (WriteRejected(r) \/ SaveRejected(r))
    <3>1. UNCHANGED <<likes, write>> /\ p \in OnItsWay /\ p \in OnItsWay'
      BY <2>8, RejectedIsOver DEF AInv
    <3>2. Shown(ButtonOf(p))' = Shown(ButtonOf(p))
      BY <2>2, <3>1 DEF Shown, Stored
    <3> QED
      BY <2>1, <2>2, <3>1, <3>2 DEF AInv, AloneIsShown
  <2> QED
    BY <1>3, <2>3, <2>4, <2>5, <2>6, <2>7, <2>8 DEF Step, Works, Fails
<1> QED
  BY <1>1, <1>2, <1>3 DEF Next, vars, RemoveMovie, Restart

(* Only a delete takes a record, and whoever had read it too overlaps it.  *)
LEMMA GoneStep ==
  ASSUME AInv, IInv', [Next]_vars
  PROVE  GoneByRace'
<1> SUFFICES ASSUME NEW p \in OnItsWay', write'[p] \in {"delete", "save"},
                    likes'[found'[p]] = Null
             PROVE  \E q \in Requests : /\ write'[q] = "delete" /\ found'[q] = found'[p]
                                        /\ ~ alone'[q] /\ ~ alone'[p]
  BY DEF GoneByRace
<1>0. p \in Requests
  BY DEF OnItsWay, IInv, TypeOK
<1>1. CASE UNCHANGED <<likes, write, found, alone, sent, stray>>
  BY <1>1 DEF AInv, GoneByRace, OnItsWay
<1>2. ASSUME NEW r \in Requests, NEW m \in Movies, NEW u \in Users, NEW v \in BOOLEAN,
             Press(r, m, u, v)
      PROVE  \E q \in Requests : /\ write'[q] = "delete" /\ found'[q] = found'[p]
                                 /\ ~ alone'[q] /\ ~ alone'[p]
  <2>1. /\ write[r] = "none" /\ UNCHANGED <<likes, write, found, OnItsWay>>
        /\ \A q \in Requests \ {r} : alone'[q] => alone[q]
    BY <1>2, PressKeeps DEF AInv
  <2>2. PICK q \in Requests : /\ write[q] = "delete" /\ found[q] = found[p]
                              /\ ~ alone[q] /\ ~ alone[p]
    BY <2>1 DEF AInv, GoneByRace
  <2> QED
    BY <1>0, <2>1, <2>2
<1>3. ASSUME NEW r \in Requests, Step(r)
      PROVE  \E q \in Requests : /\ write'[q] = "delete" /\ found'[q] = found'[p]
                                 /\ ~ alone'[q] /\ ~ alone'[p]
  <2>1. /\ UNCHANGED alone /\ Active(r)
        /\ \A q \in Requests \ {r} : write'[q] = write[q] /\ found'[q] = found[q]
        /\ p # r => p \in OnItsWay
    BY <1>0, <1>3, StepKeeps DEF AInv
  <2>2. CASE FindNoLike(r) \/ FindSameLike(r) \/ FindOtherLike(r)
    <3>1. likes' = likes /\ write[r] = "none"
      BY <2>2 DEF FindNoLike, FindSameLike, FindOtherLike, Send, AInv, IInv, LikeInv,
                  OneWritePerPress
    <3>2. p # r
      <4>1. CASE FindNoLike(r)
        BY <4>1 DEF FindNoLike, Send, AInv, IInv, TypeOK
      <4>2. CASE FindSameLike(r) \/ FindOtherLike(r)
        BY <4>2 DEF FindSameLike, FindOtherLike, Send, Stored, AInv, IInv, TypeOK
      <4> QED
        BY <2>2, <4>1, <4>2
    <3>3. PICK q \in Requests : /\ write[q] = "delete" /\ found[q] = found[p]
                                /\ ~ alone[q] /\ ~ alone[p]
      BY <1>0, <2>1, <3>1, <3>2 DEF AInv, GoneByRace
    <3> QED
      BY <1>0, <2>1, <3>1, <3>2, <3>3
  <2>3. CASE ~ (FindNoLike(r) \/ FindSameLike(r) \/ FindOtherLike(r))
    <3>1. UNCHANGED <<write, found>>
      BY <1>3, <2>3, WriteKept
    <3>2. p \in OnItsWay
      BY <1>3, <2>1, <2>3
      DEF Step, Works, Fails, FindMovie, FindUser, Create, FindByIdAndDelete, Save, SaveFails, Exit,
          FindResult, ReadFails, WriteRejected, SaveRejected, OnItsWay, Arrive
    <3>3. CASE likes[found[p]] = Null
      BY <2>1, <3>1, <3>2, <3>3 DEF AInv, GoneByRace
    <3>4. CASE likes[found[p]] # Null
      <4>1. /\ found[p] \in Requests /\ Created(found[p], ButtonOf(p))
        BY <1>0, <3>1 DEF AInv, IInv, LikeInv, WritesKeepTheirRecord
      <4>2. likes[found[p]] \in LikeDoc
        BY <3>4, <4>1 DEF AInv, IInv, TypeOK
      <4>3. CASE FindByIdAndDelete(r)
        <5>1. write[r] = "delete" /\ likes' = [likes EXCEPT ![found[r]] = Null]
              /\ r \notin OnItsWay'
          BY <4>3 DEF FindByIdAndDelete, Arrive, OnItsWay
        <5>2. found[r] = found[p] /\ p # r
          BY <3>1, <3>4, <4>1, <5>1 DEF AInv, IInv, TypeOK
        <5>3. Created(found[r], ButtonOf(r))
          BY <5>1 DEF AInv, IInv, LikeInv, WritesKeepTheirRecord
        <5>4. ButtonOf(r) = ButtonOf(p)
          BY <4>1, <5>2, <5>3 DEF Created
        <5>5. ~ alone[r] /\ ~ alone[p]
          BY <1>0, <2>1, <3>2, <5>2, <5>4 DEF AInv, AloneOnButton, Active
        <5> QED
          BY <2>1, <3>1, <5>1, <5>2, <5>5
      <4>4. CASE Create(r)
        <5>1. r \in OnItsWay /\ (likes' = likes \/ likes' = [likes EXCEPT ![r] = press[r]])
          BY <4>4 DEF Create
        <5>2. found[p] # r
          BY <4>1, <5>1 DEF Created
        <5> QED
          BY <3>1, <3>4, <4>1, <5>1, <5>2 DEF AInv, IInv, TypeOK
      <4>5. CASE Save(r)
        <5>1. found[r] \in Requests /\ likes[found[r]] \in LikeDoc /\ press[r] \in LikeDoc
          BY <4>5 DEF Save, AInv, IInv, LikeInv, WritesKeepTheirRecord, OneWritePerPress,
                      TypeOK
        <5>2. PICK l : l = [likes[found[r]] EXCEPT !.isLike = press[r].isLike]
          OBVIOUS
        <5>3. l \in LikeDoc
          BY <5>1, <5>2 DEF LikeDoc
        <5>4. likes' = [likes EXCEPT ![found[r]] = l]
          BY <4>5, <5>2 DEF Save
        <5> QED
          BY <3>1, <3>4, <4>1, <5>1, <5>3, <5>4, NullAssumption DEF AInv, IInv, TypeOK
      <4>6. CASE likes' = likes
        BY <3>1, <3>4, <4>6
      <4> QED
        BY <1>3, <2>3, <4>3, <4>4, <4>5, <4>6
        DEF Step, Works, Fails, FindMovie, FindUser, SaveFails, FindResult, ReadFails, WriteRejected,
            SaveRejected
    <3> QED
      BY <3>3, <3>4
  <2> QED
    BY <2>2, <2>3
<1> QED
  BY <1>1, <1>2, <1>3 DEF Next, vars, RemoveMovie, Restart

(* An error is answered only to a press that MongoDB failed a call of.     *)
LEMMA AnswerStep ==
  ASSUME AInv, AlonePressAnswered, IInv', [Next]_vars
  PROVE  AlonePressAnswered'
<1> SUFFICES ASSUME NEW p \in Requests, alone'[p]
             PROVE  /\ pc'[p] = "serverError"
                         => \E call \in {"read", "write"} : <<p, call>> \in failed'
                    /\ pc'[p] = "ok" /\ write'[p] # "save" => result'[p] = Toggled(p)'
  BY DEF AlonePressAnswered
<1> DEFINE Goal == /\ pc'[p] = "serverError"
                        => \E call \in {"read", "write"} : <<p, call>> \in failed'
                   /\ pc'[p] = "ok" /\ write'[p] # "save" => result'[p] = Toggled(p)'
<1>1. CASE UNCHANGED <<pc, write, result, press, start, alone, failed>>
  BY <1>1 DEF AlonePressAnswered, Toggled
<1>2. ASSUME NEW r \in Requests, NEW m \in Movies, NEW u \in Users, NEW v \in BOOLEAN,
             Press(r, m, u, v)
      PROVE  Goal
  <2>1. CASE p = r
    BY <1>2, <2>1, PressKeeps DEF AInv
  <2>2. CASE p # r
    <3>1. /\ alone[p] /\ pc'[p] = pc[p] /\ press'[p] = press[p] /\ start'[p] = start[p]
          /\ UNCHANGED <<write, result, failed>>
      BY <1>2, <2>2, PressKeeps DEF AInv, Press
    <3> QED
      BY <3>1 DEF AlonePressAnswered, Toggled
  <2> QED
    BY <2>1, <2>2
<1>3. ASSUME NEW r \in Requests, Step(r)
      PROVE  Goal
  <2>1. /\ UNCHANGED <<press, start, alone>>
        /\ p # r => write'[p] = write[p]
    BY <1>3, StepKeeps DEF AInv
  <2>2. Toggled(p)' = Toggled(p)
    BY <2>1 DEF Toggled
  <2>3. CASE FindResult(r) /\ p = r
    <3>1. /\ pc[p] = "findResult" /\ pc'[p] = "ok" /\ write' = write
          /\ result'[p] = Shown(ButtonOf(p))
      BY <2>3 DEF FindResult, AInv, IInv, TypeOK
    <3>2. Active(p)
      BY <3>1 DEF Active, Running
    <3>3. write[p] # "none" /\ (write[p] # "save" => p \notin OnItsWay)
      BY <3>1 DEF AInv, ProcessAgrees, OnItsWay, Running
    <3>4. write[p] # "save" => Shown(ButtonOf(p)) = Toggled(p)
      BY <2>1, <3>2, <3>3 DEF AInv, AloneIsShown
    <3> QED
      BY <2>2, <3>1, <3>4
  <2>4. CASE p = r /\ (Create(r) \/ FindByIdAndDelete(r) \/ Save(r))
    <3>1. /\ pc'[p] # "serverError" \/ pc[p] = "serverError"
          /\ write' = write
      BY <2>1, <2>4, WriteToggles
    <3>2. UNCHANGED <<result, failed>> /\ (pc'[p] = "ok" => pc[p] = "ok")
      BY <2>4 DEF Create, FindByIdAndDelete, Save, Resume, AInv, IInv, TypeOK
    <3> QED
      BY <2>1, <2>2, <3>1, <3>2 DEF AlonePressAnswered
  <2>5. CASE /\ p = r
             /\ \/ FindMovie(r) \/ FindUser(r) \/ SaveFails(r)
                \/ FindNoLike(r) \/ FindSameLike(r) \/ FindOtherLike(r)
    <3>1. pc'[p] \notin {"ok", "serverError"} \/ (pc'[p] = pc[p] /\ UNCHANGED <<write, result, failed>>)
      BY <2>5 DEF FindMovie, FindUser, SaveFails, FindNoLike, FindSameLike, FindOtherLike,
                  Exit, Send, AInv, IInv, TypeOK
    <3> QED
      BY <2>1, <2>2, <3>1 DEF AlonePressAnswered
  <2>6. CASE p # r
    <3>1. result'[p] = result[p] /\ (pc'[p] = pc[p] \/ pc'[p] = "lost") /\ failed \subseteq failed'
      BY <1>3, <2>6
      DEF Step, Works, Fails, FindMovie, FindUser, FindNoLike, FindSameLike, FindOtherLike, Send, Create,
          FindByIdAndDelete, Save, SaveFails, Exit, FindResult, ReadFails, WriteRejected,
          SaveRejected, Fail, Resume, AInv, IInv, TypeOK
    <3> QED
      BY <2>1, <2>2, <2>6, <3>1 DEF AlonePressAnswered
  <2>7. CASE p = r /\ (ReadFails(r) \/ WriteRejected(r))
    <3>1. \E call \in {"read", "write"} : <<p, call>> \in failed'
      BY <2>7 DEF ReadFails, WriteRejected, Fail
    <3>2. pc'[p] = "serverError" \/ pc'[p] = pc[p]
      BY <2>7 DEF ReadFails, WriteRejected, Resume, AInv, IInv, TypeOK
    <3>3. UNCHANGED <<write, result>>
      BY <2>7 DEF ReadFails, WriteRejected
    <3> QED
      BY <2>1, <2>2, <3>1, <3>2, <3>3 DEF AlonePressAnswered
  <2>8. CASE p = r /\ SaveRejected(r)
    <3>1. UNCHANGED <<write, result>> /\ pc'[p] \in {pc[p], "lost"} /\ failed \subseteq failed'
      BY <2>8 DEF SaveRejected, Exit, Fail, AInv, IInv, TypeOK
    <3> QED
      BY <2>1, <2>2, <3>1 DEF AlonePressAnswered
  <2> QED
    BY <1>3, <2>3, <2>4, <2>5, <2>6, <2>7, <2>8 DEF Step, Works, Fails
<1> QED
  BY <1>1, <1>2, <1>3 DEF Next, vars, RemoveMovie, Restart

(* What is known of presses alone on their button is inductive, and gives  *)
(* their answers.                                                          *)
LEMMA AloneInvariance == Spec => [](AInv /\ AlonePressAnswered)
<1>1. Init => AInv /\ AlonePressAnswered
  <2> SUFFICES ASSUME Init PROVE AInv /\ AlonePressAnswered
    OBVIOUS
  <2>1. IInv
    BY InitHolds
  <2>2. \A r \in Requests : ~ Active(r) /\ pc[r] = "idle" /\ write[r] = "none"
    BY DEF Init, Active, OnItsWay, Running
  <2>3. up /\ OnItsWay = {} /\ stray = {}
    BY DEF Init, OnItsWay
  <2>4. ProcessAgrees /\ FailedIsOver
    BY <2>2, <2>3 DEF Init, ProcessAgrees, SentOrStray, FailedIsOver, Running, OnItsWay
  <2> QED
    BY <2>1, <2>2, <2>3, <2>4
    DEF AInv, AloneOnButton, AloneDecidesOnStart, AloneIsShown, GoneByRace, AlonePressAnswered
<1>2. IInv /\ [Next]_vars => IInv'
  BY TypeStep, InvStep DEF IInv
<1>3. AInv /\ AlonePressAnswered /\ [Next]_vars => (AInv /\ AlonePressAnswered)'
  BY <1>2, ProcessStep, FailedStep, AloneStep, DecidesStep, ShownStep, GoneStep, AnswerStep DEF AInv
<1> QED
  BY <1>1, <1>3, PTL DEF Spec

(* A press no other press of its button overlaps is answered with an error *)
(* only when MongoDB failed one of its calls, and with the toggled button  *)
(* if it created or deleted the record (896, 915-928).                     *)
THEOREM AlonePressIsAnswered == Spec => []AlonePressAnswered
BY AloneInvariance, PTL

(* A press alone on its button ends by toggling it, whichever of its steps *)
(* is the last.                                                            *)
LEMMA ToggleStep ==
  ASSUME AInv, IInv', [Next]_vars,
         NEW p \in Requests, Active(p), ~Active(p)', pc'[p] = "ok", alone[p], ~Exits
  PROVE  Shown(ButtonOf(p))' = Toggled(p)
<1>1. ~ UNCHANGED <<pc, sent, stray>>
  BY DEF Active, OnItsWay
<1>2. ASSUME NEW r \in Requests, NEW m \in Movies, NEW u \in Users, NEW v \in BOOLEAN,
             Press(r, m, u, v)
      PROVE  FALSE
  BY <1>2, PressKeeps DEF AInv
<1>3. PICK r \in Requests : Step(r)
  BY <1>1, <1>2 DEF Next, vars, RemoveMovie, Restart
<1>9. CASE WriteRejected(r)
  <2>1. p = r
    BY <1>9 DEF WriteRejected, Resume, Active, OnItsWay, AInv, IInv, TypeOK
  <2>2. pc[r] = "ok"
    BY <1>9, <2>1 DEF WriteRejected, Resume, AInv, IInv, TypeOK
  <2>3. r \in OnItsWay /\ write[r] # "save" /\ r \in sent
    BY <1>9 DEF WriteRejected, OnItsWay
  <2> QED
    BY <2>2, <2>3 DEF AInv, ProcessAgrees
<1>10. CASE SaveRejected(r)
  <2>1. r \in sent /\ ~ up'
    BY <1>10 DEF SaveRejected, Exit
  <2>2. up
    BY <2>1 DEF AInv, ProcessAgrees, IInv, TypeOK
  <2> QED
    BY <2>1, <2>2 DEF Exits
<1>4. CASE SaveFails(r)
  <2>1. CASE r \in stray
    <3>1. pc' = pc /\ sent' = sent \ {r} /\ stray' = stray \ {r}
      BY <1>4, <2>1 DEF SaveFails, Arrive
    <3>2. p = r
      BY <3>1 DEF Active, OnItsWay
    <3> QED
      BY <1>4, <3>2 DEF SaveFails, AInv, GoneByRace
  <2>2. CASE r \notin stray
    <3>1. r \in sent /\ ~ up'
      BY <1>4, <2>2 DEF SaveFails, Exit, OnItsWay
    <3>2. up
      BY <3>1 DEF AInv, ProcessAgrees, IInv, TypeOK
    <3> QED
      BY <3>1, <3>2 DEF Exits
  <2> QED
    BY <2>1, <2>2
<1>5. CASE ~ SaveFails(r) /\ ~ WriteRejected(r) /\ ~ SaveRejected(r) /\ p # r
  <2>1. pc'[p] = pc[p] /\ (p \in OnItsWay => p \in OnItsWay')
    BY <1>3, <1>5
    DEF Step, Works, Fails, FindMovie, FindUser, FindNoLike, FindSameLike, FindOtherLike, Send, Create,
        FindByIdAndDelete, Save, FindResult, ReadFails, Resume, Arrive, OnItsWay,
        AInv, IInv, TypeOK
  <2> QED
    BY <2>1 DEF Active
<1>6. CASE p = r /\ (Create(r) \/ FindByIdAndDelete(r) \/ Save(r))
  BY <1>6, WriteToggles DEF ButtonOf, Create, FindByIdAndDelete, Save
<1>7. CASE p = r /\ FindResult(r)
  <2>1. pc[p] = "findResult" /\ UNCHANGED <<likes, press, sent, stray>>
    BY <1>7 DEF FindResult
  <2>2. p \notin OnItsWay /\ write[p] # "none"
    BY <2>1 DEF Active, OnItsWay, AInv, ProcessAgrees
  <2>3. Shown(ButtonOf(p)) = Toggled(p)
    BY <2>2 DEF AInv, AloneIsShown
  <2>4. Shown(ButtonOf(p))' = Shown(ButtonOf(p))
    BY <2>1 DEF Shown, Stored, ButtonOf
  <2> QED
    BY <2>3, <2>4
<1>8. CASE /\ p = r
           /\ \/ FindMovie(r) \/ FindUser(r) \/ ReadFails(r)
              \/ FindNoLike(r) \/ FindSameLike(r) \/ FindOtherLike(r)
  <2>1. pc'[p] # "ok"
    BY <1>8 DEF FindMovie, FindUser, ReadFails, FindNoLike, FindSameLike, FindOtherLike, Send,
                AInv, IInv, TypeOK
  <2> QED
    BY <2>1
<1> QED
  BY <1>3, <1>4, <1>5, <1>6, <1>7, <1>8, <1>9, <1>10 DEF Step, Works, Fails

(* It leaves the button toggled when its write arrives, unless the process *)
(* exits then (817-929).                                                   *)
THEOREM AlonePressDoesToggle == Spec => AlonePressToggles
<1> DEFINE Toggles ==
      \A r \in Requests :
        Active(r) /\ ~Active(r)' /\ pc'[r] = "ok" /\ alone[r] /\ ~Exits
          => Shown(ButtonOf(r))' = Toggled(r)
<1>1. AInv /\ IInv' /\ [Next]_vars => [Toggles]_vars
  BY ToggleStep
<1>2. Spec => [][Toggles]_vars
  BY <1>1, AloneInvariance, PTL DEF Spec, AInv
<1> QED
  BY <1>2 DEF AlonePressToggles

(* The process exits only for a save: one that MongoDB or the network just *)
(* failed, or one whose record a delete took, and then both were presses   *)
(* that overlapped another of their button (863, 876).                     *)
THEOREM ExitHasRace == Spec => ExitNeedsRace
<1> DEFINE Reason ==
      Exits => \E r \in sent :
        /\ write[r] = "save"
        /\ \/ <<r, "write">> \in failed' \ failed
           \/ \E q \in Requests : /\ write[q] = "delete" /\ found[q] = found[r]
                                  /\ ~alone[q] /\ ~alone[r]
<1>1. AInv /\ [Next]_vars => [Reason]_vars
  <2> SUFFICES ASSUME AInv, Next, Exits PROVE Reason
    BY DEF Exits, vars
  <2>1. PICK r \in Requests : (SaveFails(r) /\ r \notin stray) \/ SaveRejected(r)
    BY DEF Exits, Next, Step, Works, Fails, Press, FindMovie, FindUser, FindNoLike,
           FindSameLike, FindOtherLike, Send, Create, FindByIdAndDelete, Save, SaveFails,
           FindResult, ReadFails, WriteRejected, RemoveMovie, Restart
  <2>2. CASE SaveFails(r) /\ r \notin stray
    <3>1. r \in sent /\ r \in OnItsWay /\ write[r] = "save" /\ likes[found[r]] = Null
      BY <2>2 DEF SaveFails, OnItsWay
    <3> QED
      BY <3>1 DEF AInv, GoneByRace
  <2>3. CASE SaveRejected(r)
    <3>1. r \in sent /\ write[r] = "save" /\ <<r, "write">> \in failed'
      BY <2>3 DEF SaveRejected, Fail
    <3>2. <<r, "write">> \notin failed
      BY <3>1 DEF AInv, FailedIsOver, IInv, TypeOK
    <3> QED
      BY <3>1, <3>2
  <2> QED
    BY <2>1, <2>2, <2>3
<1>2. Spec => [][Reason]_vars
  BY <1>1, AloneInvariance, PTL DEF Spec
<1> QED
  BY <1>2 DEF ExitNeedsRace

-----------------------------------------------------------------------------
(* What keeps a press from waiting on another: while its handler runs or   *)
(* its write is on its way, the guard of one of its own steps holds.       *)
Reading(r) ==
  /\ pc[r] = "findLike"
  /\ \/ ~ \E d \in Requests : Stored(d, ButtonOf(r))
     \/ \E d \in Requests : Stored(d, ButtonOf(r)) /\ likes[d].isLike = press[r].isLike
     \/ \E d \in Requests : Stored(d, ButtonOf(r)) /\ likes[d].isLike # press[r].isLike

Writing(r) ==
  /\ r \in OnItsWay
  /\ \/ write[r] \in {"create", "delete"}
     \/ write[r] = "save" /\ likes[found[r]] # Null
     \/ write[r] = "save" /\ likes[found[r]] = Null

MayGoOn(r) == pc[r] \in {"findMovie", "findUser", "findResult"} \/ Reading(r) \/ Writing(r)

NoPressWaits == \A r \in Requests : Active(r) => MayGoOn(r)

(* How far the handler of a press is, and how far its write.               *)
HandlerAt(r) ==
  CASE pc[r] = "idle" -> 0
    [] pc[r] = "findMovie" -> 1
    [] pc[r] = "findUser" -> 2
    [] pc[r] = "findLike" -> 3
    [] pc[r] = "write" -> 4
    [] pc[r] = "findResult" -> 5
    [] OTHER -> 6

WriteAt(r) ==
  IF write[r] = "none" THEN 0
  ELSE IF r \in sent THEN 1 ELSE IF r \in stray THEN 2 ELSE 3

Progress(r) == HandlerAt(r) + WriteAt(r)

PressesAdvance ==
  [][\A r \in Requests : Progress(r) <= Progress(r)' /\ (Step(r) => Progress(r) < Progress(r)')]_vars

(* The guards of a press's steps are no more than MayGoOn says.            *)
LEMMA StepMayGoOn ==
  ASSUME NEW r \in Requests, Step(r)
  PROVE  MayGoOn(r)
BY DEF Step, Works, Fails, FindMovie, FindUser, FindNoLike, FindSameLike, FindOtherLike, Create,
   FindByIdAndDelete, Save, SaveFails, FindResult, ReadFails, WriteRejected, SaveRejected,
   MayGoOn, Reading, Writing, OnItsWay

(* A press that waits for its write has one on its way, since whoever took *)
(* the write took the place along; so no press waits for another, nor for  *)
(* a process to start again (817-929).                                     *)
THEOREM PressesNeverWait == Spec => []NoPressWaits
<1>1. AInv => NoPressWaits
  <2> SUFFICES ASSUME AInv, NEW r \in Requests, Active(r)
               PROVE  MayGoOn(r)
    BY DEF NoPressWaits
  <2>1. CASE pc[r] = "findLike"
    BY <2>1 DEF MayGoOn, Reading
  <2>2. CASE r \in OnItsWay
    <3>1. write[r] \in {"create", "delete", "save"}
      BY <2>2 DEF AInv, IInv, TypeOK, LikeInv, OneWritePerPress
    <3> QED
      BY <2>2, <3>1 DEF MayGoOn, Writing
  <2>3. CASE pc[r] = "write"
    BY <2>2, <2>3 DEF AInv, ProcessAgrees, OnItsWay
  <2> QED
    BY <2>1, <2>2, <2>3 DEF Active, Running, MayGoOn
<1> QED
  BY <1>1, AloneInvariance, PTL

(* The measure has ten values.                                             *)
LEMMA ProgressType ==
  \A r \in Requests : /\ HandlerAt(r) \in 0 .. 6 /\ WriteAt(r) \in 0 .. 3
                      /\ HandlerAt(r)' \in 0 .. 6 /\ WriteAt(r)' \in 0 .. 3
                      /\ pc'[r] = pc[r] => HandlerAt(r)' = HandlerAt(r)
                      /\ pc'[r] = "lost" => HandlerAt(r)' = 6
                      /\ pc[r] = "idle" => HandlerAt(r) = 0
BY DEF HandlerAt, WriteAt

(* A write goes from none to one that is waited for to one that no longer  *)
(* is to one that arrived or is dropped, and never back.                   *)
LEMMA WriteGoesOn ==
  ASSUME TypeOK, OneWritePerPress, SentOrStray, [Next]_vars, NEW r \in Requests
  PROVE  WriteAt(r) <= WriteAt(r)'
<1> USE DEF WriteAt, OnItsWay, SentOrStray, TypeOK
<1>1. ASSUME NEW q \in Requests, Step(q)
      PROVE  WriteAt(r) <= WriteAt(r)'
  <2>1. CASE FindMovie(q) \/ FindUser(q) \/ FindResult(q)
    BY <2>1 DEF FindMovie, FindUser, FindResult
  <2>2. CASE FindNoLike(q) \/ FindSameLike(q) \/ FindOtherLike(q)
    <3>1. write[q] = "none" /\ q \notin OnItsWay
      BY <2>2 DEF FindNoLike, FindSameLike, FindOtherLike, OneWritePerPress
    <3> QED
      BY <2>2, <3>1 DEF FindNoLike, FindSameLike, FindOtherLike, Send
  <2>3. CASE Create(q) \/ FindByIdAndDelete(q) \/ Save(q)
    BY <2>3 DEF Create, FindByIdAndDelete, Save, Arrive
  <2>4. CASE SaveFails(q) \/ SaveRejected(q)
    <3>1. \/ sent' = sent \ {q} /\ stray' = stray \ {q}
          \/ sent' = {} /\ stray \subseteq stray' /\ stray' \subseteq stray \cup sent
      BY <2>4 DEF SaveFails, SaveRejected, Exit, Arrive
    <3>2. write' = write
      BY <2>4 DEF SaveFails, SaveRejected
    <3>3. CASE sent' = sent \ {q} /\ stray' = stray \ {q}
      BY <3>2, <3>3
    <3>4. CASE sent' = {} /\ stray \subseteq stray' /\ stray' \subseteq stray \cup sent
      <4>1. write[r] # "none" /\ r \notin OnItsWay => r \notin sent' /\ r \notin stray'
        BY <3>4
      <4>2. r \in stray => r \notin sent
        OBVIOUS
      <4> QED
        BY <3>2, <3>4, <4>1, <4>2
    <3> QED
      BY <3>1, <3>3, <3>4
  <2>5. CASE ReadFails(q)
    BY <2>5 DEF ReadFails
  <2>6. CASE WriteRejected(q)
    BY <2>6 DEF WriteRejected
  <2> QED
    BY <1>1, <2>1, <2>2, <2>3, <2>4, <2>5, <2>6 DEF Step, Works, Fails
<1>2. ASSUME NEW q \in Requests, NEW m \in Movies, NEW u \in Users, NEW v \in BOOLEAN,
             Press(q, m, u, v)
      PROVE  WriteAt(r) <= WriteAt(r)'
  BY <1>2 DEF Press
<1>3. ASSUME NEW m \in Movies, RemoveMovie(m)
      PROVE  WriteAt(r) <= WriteAt(r)'
  BY <1>3 DEF RemoveMovie
<1>4. CASE Restart
  BY <1>4 DEF Restart
<1>5. CASE UNCHANGED vars
  BY <1>5 DEF vars
<1> QED
  BY <1>1, <1>2, <1>3, <1>4, <1>5 DEF Next

(* No handler goes back, whoever steps.                                    *)
LEMMA HandlerGoesOn ==
  ASSUME TypeOK, [Next]_vars, NEW r \in Requests
  PROVE  HandlerAt(r) <= HandlerAt(r)'
<1>1. ASSUME NEW q \in Requests, Step(q)
      PROVE  HandlerAt(r) <= HandlerAt(r)'
  <2>1. CASE q = r /\ ~ SaveFails(q) /\ ~ SaveRejected(q)
    BY <1>1, <2>1 DEF TypeOK, HandlerAt, Step, Works, Fails, FindMovie, FindUser, FindNoLike,
       FindSameLike, FindOtherLike, Send, Create, FindByIdAndDelete, Resume, Save, FindResult,
       ReadFails, WriteRejected
  <2>2. CASE q # r /\ ~ SaveFails(q) /\ ~ SaveRejected(q)
    <3>1. pc'[r] = pc[r]
      BY <1>1, <2>2 DEF TypeOK, Step, Works, Fails, FindMovie, FindUser, FindNoLike,
         FindSameLike, FindOtherLike, Send, Create, FindByIdAndDelete, Resume, Save, FindResult,
         ReadFails, WriteRejected
    <3> QED
      BY <3>1, ProgressType
  <2>3. CASE SaveFails(q) \/ SaveRejected(q)
    <3>1. pc'[r] = pc[r] \/ pc'[r] = "lost"
      BY <2>3 DEF SaveFails, SaveRejected, Exit, TypeOK
    <3> QED
      BY <3>1, ProgressType
  <2> QED
    BY <2>1, <2>2, <2>3
<1>2. ASSUME NEW q \in Requests, NEW m \in Movies, NEW u \in Users, NEW v \in BOOLEAN,
             Press(q, m, u, v)
      PROVE  HandlerAt(r) <= HandlerAt(r)'
  <2>1. pc'[r] = pc[r] \/ pc[r] = "idle"
    BY <1>2 DEF Press, TypeOK
  <2> QED
    BY <2>1, ProgressType
<1>3. CASE \/ \E m \in Movies : RemoveMovie(m)
           \/ Restart
           \/ UNCHANGED vars
  <2>1. pc' = pc
    BY <1>3 DEF RemoveMovie, Restart, vars
  <2> QED
    BY <2>1, ProgressType
<1> QED
  BY <1>1, <1>2, <1>3 DEF Next

(* A step of a press moves its handler or its write.                       *)
LEMMA StepMoves ==
  ASSUME TypeOK, OneWritePerPress, SentOrStray, NEW r \in Requests, Step(r)
  PROVE  HandlerAt(r) < HandlerAt(r)' \/ WriteAt(r) < WriteAt(r)'
<1> USE DEF TypeOK, OnItsWay, SentOrStray, WriteAt
<1>1. CASE FindMovie(r) \/ FindUser(r) \/ FindResult(r)
  BY <1>1 DEF FindMovie, FindUser, FindResult, HandlerAt
<1>2. CASE FindNoLike(r) \/ FindSameLike(r) \/ FindOtherLike(r)
  BY <1>2 DEF FindNoLike, FindSameLike, FindOtherLike, Send, HandlerAt
<1>3. CASE Create(r) \/ FindByIdAndDelete(r) \/ Save(r)
  BY <1>3 DEF Create, FindByIdAndDelete, Save, Arrive
<1>4. CASE SaveFails(r)
  BY <1>4 DEF SaveFails, Exit, Arrive
<1>5. CASE ReadFails(r)
  BY <1>5 DEF ReadFails, HandlerAt
<1>6. CASE WriteRejected(r)
  BY <1>6 DEF WriteRejected
<1>7. CASE SaveRejected(r)
  BY <1>7 DEF SaveRejected, Exit
<1> QED
  BY <1>1, <1>2, <1>3, <1>4, <1>5, <1>6, <1>7 DEF Step, Works, Fails

(* A press makes at most eight steps and none twice, whatever the others   *)
(* do; with PressesNeverWait, this is why it and its write end once each   *)
(* step that may be made is (817-929).                                     *)
THEOREM PressesDoAdvance == Spec => PressesAdvance
<1>1. AInv /\ [Next]_vars
      => [\A r \in Requests :
            Progress(r) <= Progress(r)' /\ (Step(r) => Progress(r) < Progress(r)')]_vars
  <2> SUFFICES ASSUME TypeOK, OneWritePerPress, SentOrStray, [Next]_vars, NEW r \in Requests
               PROVE  Progress(r) <= Progress(r)' /\ (Step(r) => Progress(r) < Progress(r)')
    BY DEF AInv, IInv, LikeInv, ProcessAgrees
  <2>1. HandlerAt(r) <= HandlerAt(r)' /\ WriteAt(r) <= WriteAt(r)'
    BY HandlerGoesOn, WriteGoesOn
  <2>2. Step(r) => HandlerAt(r) < HandlerAt(r)' \/ WriteAt(r) < WriteAt(r)'
    BY StepMoves
  <2> QED
    BY <2>1, <2>2, ProgressType DEF Progress
<1> QED
  BY <1>1, AloneInvariance, PTL DEF Spec, PressesAdvance

=============================================================================
