-------------------------- MODULE MovieViewsProofs --------------------------
(***************************************************************************)
(* Proofs about MovieViews, for any requests, clients and changes: types,  *)
(* and the three safety properties the run checks.  The invariant orders   *)
(* the places a list passes through, from the request that has fetched it  *)
(* over the entry of the service and that of the route to the answers; and *)
(* it compares a session that a request has loaded with the views made.    *)
(***************************************************************************)
EXTENDS MovieViews, TLAPS

(* Where a request is tells its route, and that it holds no list yet.      *)
PlacesAgree ==
  \A r \in Requests :
    /\ pc[r] \in {"outer", "inner", "find", "set", "put"} => route[r] = "recent"
    /\ pc[r] = "movie" => route[r] = "movie"
    /\ pc[r] \in {"idle", "outer", "inner", "find", "movie"} => list[r] = Null

(* No list is newer than the movies.                                       *)
NothingAhead ==
  /\ floor <= version /\ newest <= version
  /\ recent # Null => recent <= version
  /\ routed # Null => routed <= version
  /\ \A r \in Requests : list[r] # Null => list[r] <= version
  /\ \A r \in Requests : latest[r] <= newest

(* A session that is loaded may miss views of others, and has one more     *)
(* than were counted once its own is.                                      *)
Own(r) == IF pc[r] = "end" /\ route[r] = "movie" THEN 1 ELSE 0
SessionsAgree ==
  /\ \A r \in Asking : loaded[r] <= views[client[r]] + Own(r)
  /\ \A r \in Asking : client[r] \notin crowded =>
       /\ loaded[r] = views[client[r]] + Own(r)
       /\ \A q \in Asking : client[q] = client[r] => q = r

(* Without a race, lists pass from the only request that holds one to the  *)
(* entry of the service, to that of the route, and to those who answer     *)
(* them: none is older than one further on.                                *)
Answering == {r \in Requests : pc[r] = "end" /\ list[r] # Null}
Beyond(v) == newest <= v /\ \A r \in Answering : list[r] <= v
InOrder ==
  /\ \A r, q \in Holding : r = q
  /\ routed # Null => Beyond(routed)
  /\ recent # Null => Beyond(recent) /\ (routed # Null => routed <= recent)
  /\ \A r \in Holding :
       /\ pc[r] \in {"set", "put"} => Beyond(list[r]) /\ (routed # Null => routed <= list[r])
       /\ recent # Null => pc[r] = "put" /\ recent = list[r]
ListsInOrder == ~raced => InOrder

IInv == /\ TypeOK /\ PlacesAgree /\ NothingAhead /\ SessionsAgree /\ ListsInOrder
        /\ ListsGoForward /\ NothingOutlivesTheCache /\ ViewsAreCounted

-----------------------------------------------------------------------------
(* The steps, with the history each of them notes.                         *)
LEMMA StepCases ==
  ASSUME [Next]_vars
  PROVE  \/ UNCHANGED vars
         \/ Note /\ \E r \in Requests : Serve(r)
         \/ Note /\ \E r \in Requests, k \in {"recent", "movie"}, c \in Clients : Arrive(r, k, c)
         \/ Note /\ (Change \/ Drop \/ Restart)
BY DEF Next, Step

(* The awaits of a request.                                                *)
LEMMA ServeCases ==
  ASSUME NEW r \in Requests, Serve(r)
  PROVE  \/ GetRouted(r) \/ GetRecent(r) \/ Find(r) \/ FindFails(r) \/ SetRecent(r)
         \/ PutRouted(r) \/ ViewMovie(r) \/ End(r)
BY DEF Serve

-----------------------------------------------------------------------------
(* Types.                                                                  *)
LEMMA NoteType ==
  ASSUME TypeOK, version' \in Versions, Note
  PROVE  floor' \in Versions /\ raced' \in BOOLEAN
BY DEF TypeOK, Note

(* Every step keeps the types.                                             *)
LEMMA TypeStep ==
  ASSUME TypeOK, PlacesAgree, NothingAhead, [Next]_vars
  PROVE  TypeOK'
<1> USE BoundAssumption, NullAssumption
    DEF TypeOK, Versions, Counts, Running, Go, Still, asked, noted
<1>1. CASE UNCHANGED vars
  BY <1>1 DEF vars
<1>2. ASSUME Note, NEW r \in Requests, Serve(r)
      PROVE  TypeOK'
  <2>0. version' \in Versions
    BY <1>2 DEF Serve, GetRouted, GetRecent, Find, FindFails, SetRecent, PutRouted, ViewMovie, End, Ended
  <2>1. floor' \in Versions /\ raced' \in BOOLEAN
    BY <1>2, <2>0, NoteType
  <2>2. CASE GetRouted(r)
    BY <2>1, <2>2 DEF GetRouted
  <2>3. CASE GetRecent(r)
    BY <2>1, <2>3 DEF GetRecent
  <2>4. CASE Find(r)
    BY <2>1, <2>4 DEF Find
  <2>5. CASE FindFails(r)
    BY <2>1, <2>5 DEF FindFails
  <2>6. CASE SetRecent(r)
    BY <2>1, <2>6 DEF SetRecent
  <2>7. CASE PutRouted(r)
    BY <2>1, <2>7 DEF PutRouted
  <2>8. CASE ViewMovie(r)
    BY <2>1, <2>8 DEF ViewMovie
  <2>9. CASE End(r)
    BY <2>1, <2>9 DEF End, Ended, Leave
  <2> QED
    BY <1>2, <2>2, <2>3, <2>4, <2>5, <2>6, <2>7, <2>8, <2>9, ServeCases
<1>3. ASSUME Note, NEW r \in Requests, NEW k \in {"recent", "movie"}, NEW c \in Clients,
             Arrive(r, k, c)
      PROVE  TypeOK'
  <2>1. floor' \in Versions /\ raced' \in BOOLEAN
    BY <1>3, NoteType DEF Arrive
  <2> QED
    BY <1>3, <2>1 DEF Arrive
<1>4. ASSUME Note, Change
      PROVE  TypeOK'
  <2>1. version' \in Versions
    BY <1>4 DEF Change
  <2>2. floor' \in Versions /\ raced' \in BOOLEAN
    BY <1>4, <2>1, NoteType
  <2> QED
    BY <1>4, <2>1, <2>2 DEF Change
<1>5. ASSUME Note, Drop
      PROVE  TypeOK'
  <2>1. floor' \in Versions /\ raced' \in BOOLEAN
    BY <1>5, NoteType DEF Drop
  <2> QED
    BY <1>5, <2>1 DEF Drop
<1>6. ASSUME Note, Restart
      PROVE  TypeOK'
  <2>1. floor' \in Versions /\ raced' \in BOOLEAN
    BY <1>6, NoteType DEF Restart
  <2> QED
    BY <1>6, <2>1 DEF Restart, Leave, Asking
<1> QED
  BY <1>1, <1>2, <1>3, <1>4, <1>5, <1>6, StepCases

(* What a request holds fits the place it is at.                           *)
LEMMA PlacesAgreeStep ==
  ASSUME TypeOK, PlacesAgree, [Next]_vars
  PROVE  PlacesAgree'
<1> USE DEF TypeOK, PlacesAgree, Running, Go, Still, asked, noted
<1>1. CASE UNCHANGED vars
  BY <1>1 DEF vars
<1>2. ASSUME NEW r \in Requests, Serve(r)
      PROVE  PlacesAgree'
  <2>1. CASE GetRouted(r)
    BY <2>1 DEF GetRouted
  <2>2. CASE GetRecent(r)
    BY <2>2 DEF GetRecent
  <2>3. CASE Find(r)
    BY <2>3 DEF Find
  <2>4. CASE FindFails(r) \/ SetRecent(r) \/ PutRouted(r)
    BY <2>4 DEF FindFails, SetRecent, PutRouted
  <2>5. CASE ViewMovie(r)
    BY <2>5 DEF ViewMovie
  <2>6. CASE End(r)
    BY <2>6 DEF End, Ended, Leave
  <2> QED
    BY <1>2, <2>1, <2>2, <2>3, <2>4, <2>5, <2>6, ServeCases
<1>3. ASSUME NEW r \in Requests, NEW k \in {"recent", "movie"}, NEW c \in Clients, Arrive(r, k, c)
      PROVE  PlacesAgree'
  BY <1>3 DEF Arrive
<1>4. CASE Change \/ Drop
  BY <1>4 DEF Change, Drop
<1>5. CASE Restart
  BY <1>5 DEF Restart, Leave, Asking
<1> QED
  BY <1>1, <1>2, <1>3, <1>4, <1>5, StepCases

(* Lists are made from the movies as they are, and only passed on.         *)
LEMMA NothingAheadStep ==
  ASSUME TypeOK, NothingAhead, [Next]_vars
  PROVE  NothingAhead'
<1> USE NullAssumption DEF TypeOK, Versions, NothingAhead, Go, Still, asked, noted, Note
<1>1. CASE UNCHANGED vars
  BY <1>1 DEF vars
<1>2. ASSUME Note, NEW r \in Requests, Serve(r)
      PROVE  NothingAhead'
  <2>1. CASE GetRouted(r)
    BY <1>2, <2>1 DEF GetRouted
  <2>2. CASE GetRecent(r)
    BY <1>2, <2>2 DEF GetRecent
  <2>3. CASE Find(r)
    BY <1>2, <2>3 DEF Find
  <2>4. CASE FindFails(r) \/ SetRecent(r) \/ PutRouted(r) \/ ViewMovie(r)
    BY <1>2, <2>4 DEF FindFails, SetRecent, PutRouted, ViewMovie
  <2>5. CASE End(r)
    BY <1>2, <2>5 DEF End, Ended, Leave
  <2> QED
    BY <1>2, <2>1, <2>2, <2>3, <2>4, <2>5, ServeCases
<1>3. ASSUME Note, NEW r \in Requests, NEW k \in {"recent", "movie"}, NEW c \in Clients,
             Arrive(r, k, c)
      PROVE  NothingAhead'
  BY <1>3 DEF Arrive
<1>4. ASSUME Note, Change \/ Drop
      PROVE  NothingAhead'
  BY <1>4 DEF Change, Drop
<1>5. ASSUME Note, Restart
      PROVE  NothingAhead'
  BY <1>5 DEF Restart, Leave, Asking
<1> QED
  BY <1>1, <1>2, <1>3, <1>4, <1>5, StepCases

-----------------------------------------------------------------------------
(* Whoever loads a session of one request at a time loads all its views,   *)
(* and saves one more.                                                     *)
LEMMA SessionsAgreeStep ==
  ASSUME TypeOK, PlacesAgree, SessionsAgree, ViewsAreCounted, [Next]_vars
  PROVE  SessionsAgree' /\ ViewsAreCounted'
<1> USE DEF TypeOK, Counts, SessionsAgree, ViewsAreCounted, Own, Asking, Running, Go, Still,
            asked, noted
<1>1. CASE UNCHANGED vars
  BY <1>1 DEF vars
<1>2. ASSUME NEW r \in Requests, Serve(r)
      PROVE  SessionsAgree' /\ ViewsAreCounted'
  <2>1. ASSUME UNCHANGED <<counts, asked, loaded, noted>>, NEW step \in Running,
               pc[r] \in Running, pc' = [pc EXCEPT ![r] = step],
               route[r] = "recent"
        PROVE  SessionsAgree' /\ ViewsAreCounted'
    BY <2>1
  <2>2. CASE GetRouted(r)
    BY <2>1, <2>2 DEF GetRouted, PlacesAgree
  <2>3. CASE GetRecent(r)
    BY <2>1, <2>3 DEF GetRecent, PlacesAgree
  <2>4. CASE Find(r)
    BY <2>1, <2>4 DEF Find, PlacesAgree
  <2>5. CASE FindFails(r) \/ SetRecent(r) \/ PutRouted(r)
    BY <2>1, <2>5 DEF FindFails, SetRecent, PutRouted, PlacesAgree
  <2>6. CASE ViewMovie(r)
    BY <2>6 DEF ViewMovie, PlacesAgree
  <2>7. CASE End(r)
    <3> DEFINE c == client[r]
    <3>1. /\ c \in Clients /\ r \in Asking
          /\ counts' = [counts EXCEPT ![c] = loaded[r]]
          /\ views' = [views EXCEPT ![c] = @ + Own(r)]
          /\ crowded' = crowded
      <4>1. /\ pc[r] = "end" /\ c \in Clients
            /\ views' = [views EXCEPT ![c] = IF route[r] = "movie" THEN views[c] + 1 ELSE views[c]]
        BY <2>7 DEF End, Ended
      <4>2. views[c] + Own(r) = IF route[r] = "movie" THEN views[c] + 1 ELSE views[c]
        BY <4>1
      <4> QED
        BY <2>7, <4>1, <4>2 DEF End, Ended
    <3>2. /\ pc' = [pc EXCEPT ![r] = "done"] /\ r \notin Asking'
          /\ \A q \in Requests \ {r} :
               /\ pc'[q] = pc[q] /\ client'[q] = client[q] /\ route'[q] = route[q]
               /\ loaded'[q] = loaded[q]
      BY <2>7 DEF End, Ended, Leave
    <3>3. \A q \in Asking' : q \in Asking /\ q # r /\ Own(q)' = Own(q)
      BY <3>2
    <3>4. \A d \in Clients : views[d] <= views'[d]
      BY <3>1
    <3>5. ASSUME NEW d \in Clients
          PROVE  counts'[d] <= views'[d] /\ (d \notin crowded' => counts'[d] = views'[d])
      BY <3>1
    <3>6. ASSUME NEW q \in Asking'
          PROVE  loaded'[q] <= views'[client'[q]] + Own(q)'
      BY <3>1, <3>2, <3>3, <3>4
    <3>7. ASSUME NEW q \in Asking', client'[q] \notin crowded'
          PROVE  /\ loaded'[q] = views'[client'[q]] + Own(q)'
                 /\ \A p \in Asking' : client'[p] = client'[q] => p = q
      <4>1. q \in Asking /\ q # r /\ client'[q] = client[q] /\ client[q] \notin crowded
        BY <3>1, <3>2, <3>3, <3>7
      <4>2. client[q] # c
        BY <3>1, <4>1
      <4> QED
        BY <3>1, <3>2, <3>3, <4>1, <4>2
    <3> QED
      BY <3>5, <3>6, <3>7
  <2> QED
    BY <1>2, <2>2, <2>3, <2>4, <2>5, <2>6, <2>7, ServeCases
<1>3. ASSUME NEW r \in Requests, NEW k \in {"recent", "movie"}, NEW c \in Clients, Arrive(r, k, c)
      PROVE  SessionsAgree' /\ ViewsAreCounted'
  BY <1>3 DEF Arrive
<1>4. CASE Change \/ Drop
  BY <1>4 DEF Change, Drop
<1>5. CASE Restart
  BY <1>5 DEF Restart, Leave
<1> QED
  BY <1>1, <1>2, <1>3, <1>4, <1>5, StepCases

-----------------------------------------------------------------------------
(* When nothing is remembered the floor rises; until then no list is older.*)
LEMMA FloorStep ==
  ASSUME TypeOK, PlacesAgree, NothingAhead, NothingOutlivesTheCache, [Next]_vars
  PROVE  NothingOutlivesTheCache'
<1> USE NullAssumption
    DEF TypeOK, Versions, NothingAhead, NothingOutlivesTheCache, Go, Still, asked, noted
<1>1. CASE UNCHANGED vars
  BY <1>1 DEF vars
<1>2. ASSUME Note, Forgotten'
      PROVE  NothingOutlivesTheCache'
  BY <1>2 DEF Forgotten, Holding
<1>3. ASSUME Note, ~Forgotten'
      PROVE  floor' = floor
  BY <1>3 DEF Note
<1>4. ASSUME floor' = floor, NEW r \in Requests, Serve(r)
      PROVE  NothingOutlivesTheCache'
  <2>1. CASE GetRouted(r)
    BY <1>4, <2>1 DEF GetRouted
  <2>2. CASE GetRecent(r)
    BY <1>4, <2>2 DEF GetRecent
  <2>3. CASE Find(r)
    BY <1>4, <2>3 DEF Find
  <2>4. CASE FindFails(r) \/ SetRecent(r) \/ PutRouted(r) \/ ViewMovie(r)
    BY <1>4, <2>4 DEF FindFails, SetRecent, PutRouted, ViewMovie
  <2>5. CASE End(r)
    BY <1>4, <2>5 DEF End, Ended, Leave
  <2> QED
    BY <1>4, <2>1, <2>2, <2>3, <2>4, <2>5, ServeCases
<1>5. ASSUME floor' = floor, NEW r \in Requests, NEW k \in {"recent", "movie"}, NEW c \in Clients,
             Arrive(r, k, c)
      PROVE  NothingOutlivesTheCache'
  BY <1>5 DEF Arrive
<1>6. ASSUME floor' = floor, Change \/ Drop
      PROVE  NothingOutlivesTheCache'
  BY <1>6 DEF Change, Drop
<1>7. ASSUME floor' = floor, Restart
      PROVE  NothingOutlivesTheCache'
  BY <1>7 DEF Restart, Leave, Asking, Running
<1> QED
  BY <1>1, <1>2, <1>3, <1>4, <1>5, <1>6, <1>7, StepCases

-----------------------------------------------------------------------------
(* What a race leaves is forgotten before there is none again.             *)
LEMMA RaceEnds ==
  ASSUME TypeOK, Note, ~raced'
  PROVE  \/ Forgotten' /\ Asking' = {}
         \/ ~raced /\ (\A r, q \in Holding' : r = q)
BY DEF Note, TypeOK

(* Where no list is kept or held none is out of order.                     *)
LEMMA NothingIsInOrder ==
  ASSUME Forgotten', Asking' = {}
  PROVE  InOrder' /\ ListsGoForward'
<1>1. /\ recent' = Null /\ routed' = Null /\ Holding' = {}
      /\ \A r \in Requests : pc'[r] # "end"
  BY DEF Forgotten, Asking, Running
<1> QED
  BY <1>1 DEF InOrder, ListsGoForward

(* The only request that holds a list cannot overtake anybody.             *)
LEMMA ServesInOrder ==
  ASSUME TypeOK, PlacesAgree, NothingAhead, InOrder, ListsGoForward, ~raced,
         NEW r \in Requests, Serve(r), \A p, q \in Holding' : p = q
  PROVE  InOrder' /\ ListsGoForward'
<1> USE NullAssumption
    DEF TypeOK, Versions, InOrder, ListsGoForward, Beyond, Answering, Holding, NothingAhead,
        Go, Still, asked, noted
<1>1. CASE GetRouted(r)
  <2>1. /\ list' = [list EXCEPT ![r] = routed] /\ list[r] = Null
        /\ pc[r] = "outer"
        /\ pc' = [pc EXCEPT ![r] = IF routed = Null THEN "inner" ELSE "end"]
        /\ UNCHANGED <<recent, routed, newest, latest>>
    BY <1>1 DEF GetRouted, PlacesAgree
  <2>2. Holding' = Holding
    BY <2>1
  <2>3. /\ \A q \in Answering' :
             \/ list'[q] = list[q] /\ q \in Answering
             \/ routed # Null /\ list'[q] = routed
        /\ \A q \in Holding : list'[q] = list[q] /\ pc'[q] = pc[q]
    BY <2>1
  <2>4. InOrder'
    BY <2>1, <2>2, <2>3
  <2>5. ListsGoForward'
    BY <2>1
  <2> QED
    BY <2>4, <2>5
<1>2. CASE GetRecent(r)
  <2>1. /\ list' = [list EXCEPT ![r] = recent] /\ list[r] = Null /\ pc[r] = "inner"
        /\ pc' = [pc EXCEPT ![r] = IF recent = Null THEN "find" ELSE "put"]
        /\ UNCHANGED <<recent, routed, newest, latest>>
    BY <1>2 DEF GetRecent, PlacesAgree
  <2>2. Answering' = Answering /\ Holding' = {r} /\ \A q \in Answering : list'[q] = list[q]
    BY <2>1
  <2>3. InOrder'
    BY <2>1, <2>2
  <2>4. ListsGoForward'
    BY <2>1
  <2> QED
    BY <2>3, <2>4
<1>3. CASE Find(r)
  <2>1. /\ list' = [list EXCEPT ![r] = version] /\ pc[r] = "find"
        /\ pc' = [pc EXCEPT ![r] = "set"]
        /\ UNCHANGED <<recent, routed, newest, latest>>
    BY <1>3 DEF Find
  <2>2. Answering' = Answering /\ Holding' = {r} /\ \A q \in Answering : list'[q] = list[q]
    BY <2>1
  <2>3. InOrder'
    BY <2>1, <2>2
  <2>4. ListsGoForward'
    BY <2>1
  <2> QED
    BY <2>3, <2>4
<1>4. CASE FindFails(r)
  BY <1>4 DEF FindFails, PlacesAgree
<1>5. CASE SetRecent(r)
  <2>1. /\ recent' = list[r] /\ pc[r] = "set" /\ list[r] # Null
        /\ pc' = [pc EXCEPT ![r] = "put"]
        /\ UNCHANGED <<routed, list, newest, latest>>
    BY <1>5 DEF SetRecent
  <2>2. Answering' = Answering /\ Holding' = {r}
    BY <2>1
  <2> QED
    BY <2>1, <2>2
<1>6. CASE PutRouted(r)
  <2>1. /\ routed' = list[r] /\ pc[r] = "put" /\ list[r] # Null
        /\ pc' = [pc EXCEPT ![r] = "end"]
        /\ UNCHANGED <<recent, list, newest, latest>>
    BY <1>6 DEF PutRouted
  <2>2. Answering' = Answering \cup {r} /\ Holding' = {}
    BY <2>1
  <2> QED
    BY <2>1, <2>2
<1>7. CASE ViewMovie(r)
  BY <1>7 DEF ViewMovie, PlacesAgree
<1>8. CASE End(r)
  <2>1. /\ pc[r] = "end" /\ UNCHANGED <<recent, routed>>
        /\ newest' = IF list[r] # Null /\ list[r] > newest THEN list[r] ELSE newest
        /\ pc'[r] = "done"
        /\ \A q \in Requests \ {r} : pc'[q] = pc[q] /\ list'[q] = list[q] /\ latest'[q] = latest[q]
    BY <1>8 DEF End, Ended, Leave
  <2>2. Answering' \subseteq Answering \ {r} /\ Holding' = Holding /\ r \notin Holding
    BY <2>1
  <2>3. InOrder'
    BY <2>1, <2>2
  <2>4. ListsGoForward'
    BY <2>1
  <2> QED
    BY <2>3, <2>4
<1> QED
  BY <1>1, <1>2, <1>3, <1>4, <1>5, <1>6, <1>7, <1>8, ServeCases

(* A list that is passed on finds none newer where it goes, unless a race  *)
(* is noted.                                                               *)
LEMMA ListsInOrderStep ==
  ASSUME TypeOK, PlacesAgree, NothingAhead, ListsInOrder, ListsGoForward, [Next]_vars
  PROVE  ListsInOrder' /\ ListsGoForward'
<1> USE DEF ListsInOrder
<1>1. CASE UNCHANGED vars
  BY <1>1 DEF vars, asked, noted, InOrder, ListsGoForward, Holding, Answering, Beyond
<1>2. CASE raced'
  BY <1>2 DEF ListsGoForward
<1>3. ASSUME ~raced', Note
      PROVE  \/ InOrder' /\ ListsGoForward'
             \/ ~raced /\ InOrder /\ \A p, q \in Holding' : p = q
  BY <1>3, RaceEnds, NothingIsInOrder
<1>4. ASSUME ~raced, InOrder, NEW r \in Requests, NEW k \in {"recent", "movie"}, NEW c \in Clients,
             Arrive(r, k, c)
      PROVE  InOrder' /\ ListsGoForward'
  BY <1>4 DEF Arrive, TypeOK, PlacesAgree, InOrder, ListsGoForward, Holding, Answering, Beyond
<1>5. ASSUME ~raced, InOrder, Change \/ Drop
      PROVE  InOrder' /\ ListsGoForward'
  BY <1>5 DEF Change, Drop, asked, noted, InOrder, ListsGoForward, Holding, Answering, Beyond
<1>6. ASSUME Restart
      PROVE  InOrder' /\ ListsGoForward'
  <2>1. /\ recent' = Null /\ routed' = Null
        /\ \A r \in Requests : pc'[r] \notin Running
    BY <1>6 DEF Restart, Leave, Asking, Running
  <2> QED
    BY <2>1 DEF InOrder, ListsGoForward, Holding, Running
<1> QED
  BY <1>1, <1>2, <1>3, <1>4, <1>5, <1>6, ServesInOrder, StepCases

-----------------------------------------------------------------------------
(* A process that starts has no lists and no sessions.                     *)
LEMMA InitInv ==
  ASSUME Init
  PROVE  IInv
<1> USE BoundAssumption, NullAssumption DEF Init
<1>1. TypeOK
  <2>1. raced \in BOOLEAN
    OBVIOUS
  <2> QED
    BY <2>1 DEF TypeOK, Versions, Counts, Running
<1>2. PlacesAgree /\ NothingAhead /\ SessionsAgree
  BY DEF PlacesAgree, NothingAhead, SessionsAgree, Asking, Running
<1>3. ListsInOrder /\ ListsGoForward /\ NothingOutlivesTheCache /\ ViewsAreCounted
  BY DEF ListsInOrder, InOrder, Holding, ListsGoForward, NothingOutlivesTheCache, ViewsAreCounted
<1> QED
  BY <1>1, <1>2, <1>3 DEF IInv

(* IInv is kept by every step of the two routes.                           *)
THEOREM Invariance == Spec => []IInv
<1>1. Init => IInv
  BY InitInv
<1>2. IInv /\ [Next]_vars => IInv'
  BY TypeStep, PlacesAgreeStep, NothingAheadStep, SessionsAgreeStep, FloorStep, ListsInOrderStep
     DEF IInv
<1> QED
  BY <1>1, <1>2, PTL DEF Spec

(* Every variable keeps its range; a list that is set or put is there      *)
(* (movie.service.ts 66-97).                                               *)
THEOREM ViewsTypeOK == Spec => []TypeOK
BY Invariance, PTL DEF IInv

(* Unless lists raced, nobody is answered an older list than was answered  *)
(* before he asked, for any number of requests (movie.service.ts 66-97).   *)
THEOREM ListsGoForwardHolds == Spec => []ListsGoForward
BY Invariance, PTL DEF IInv

(* No list outlives the two entries (movie.service.ts 66-97,               *)
(* movie.controller.ts 57-61).                                             *)
THEOREM NothingOutlivesTheCacheHolds == Spec => []NothingOutlivesTheCache
BY Invariance, PTL DEF IInv

(* The session of a client who makes one request at a time counts each of  *)
(* his views, that of any other no more (movie.controller.ts 71-78).       *)
THEOREM ViewsAreCountedHolds == Spec => []ViewsAreCounted
BY Invariance, PTL DEF IInv
=============================================================================
