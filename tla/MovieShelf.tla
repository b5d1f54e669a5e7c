---------------------------- MODULE MovieShelf -----------------------------
(***************************************************************************)
(* What the movie and detail collections, looked at together at any one    *)
(* moment, promise: a movie appears whole, once, under a title no other    *)
(* movie has; it is edited in its detail or in the rest, never in an entry *)
(* that is not there; it vanishes whole and never comes back.              *)
(***************************************************************************)

CONSTANTS Ids, Titles, Texts, Directors, Genres, Null

VARIABLES
  shelf,     \* the entry of each movie, detail included
  made       \* the movies that were ever put on the shelf

vars == <<shelf, made>>

Entry == [title : Titles, director : Directors, genres : SUBSET Genres, detail : Texts]

TitleFree(m, t) == \A n \in Ids \ {m} : shelf[n] = Null \/ shelf[n].title # t

Init ==
  /\ shelf = [m \in Ids |-> Null]
  /\ made = {}

Publish(m) ==
  /\ m \notin made
  /\ \E e \in Entry :
       /\ TitleFree(m, e.title)
       /\ shelf' = [shelf EXCEPT ![m] = e]
  /\ made' = made \cup {m}

Edit(m) ==
  /\ shelf[m] # Null
  /\ \E e \in Entry :
       /\ TitleFree(m, e.title)
       /\ \/ e.detail = shelf[m].detail
          \/ /\ e.title = shelf[m].title
             /\ e.director = shelf[m].director
             /\ e.genres = shelf[m].genres
       /\ shelf' = [shelf EXCEPT ![m] = e]
  /\ UNCHANGED made

Retire(m) ==
  /\ shelf' = [shelf EXCEPT ![m] = Null]
  /\ UNCHANGED made

Next == \E m \in Ids : Publish(m) \/ Edit(m) \/ Retire(m)

Spec == Init /\ [][Next]_vars
=============================================================================
