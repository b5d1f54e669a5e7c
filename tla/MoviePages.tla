----------------------------- MODULE MoviePages -----------------------------
(***************************************************************************)
(* MovieService.findAll as its clients use it: a walk asks for page after  *)
(* page, each with the cursor of the one before, while movies are created  *)
(* and removed between any two queries.  An _id is a number; movies need   *)
(* not appear in the order of theirs, which they get before the commit.    *)
(***************************************************************************)
EXTENDS Naturals, FiniteSets

CONSTANTS
  MaxId,    \* bound: the _ids of movies are 1 .. MaxId
  Walks,    \* clients walking through the catalogue
  Orders,   \* the orders they ask for, among id_DESC and id_ASC
  Takes,    \* the page sizes they ask for
  Liked     \* the movies the user of a walk has pressed a button of

Ids == 1 .. MaxId

ASSUME BoundAssumption == MaxId \in Nat
ASSUME OrderAssumption == Orders \subseteq {"id_DESC", "id_ASC"}
ASSUME TakeAssumption  == Takes \subseteq Nat
ASSUME LikedAssumption == Liked \subseteq Ids

VARIABLES
  shelf,    \* the movie collection
  used,     \* the _ids movies have had so far
  pc,       \* where each walk is
  dto,      \* its order, page size and cursor, 0 for none, and whether it
            \*   carries a user's token
  page,     \* the movies of the page being answered
  next,     \* its nextCursor, 0 for null
  met,      \* history: the movies of the walk's pages so far
  twice,    \* history: those it met more than once
  stayed    \* history: those in the collection ever since the walk began

vars == <<shelf, used, pc, dto, page, next, met, twice, stayed>>

Dto == [order : {"id_DESC", "id_ASC"}, take : Nat, cursor : 0 .. MaxId, user : BOOLEAN]

(* A bug the checks must notice: the direction is dropped.                 *)
BeforeAscending(order, m, n) == m < n

Before(order, m, n) == IF order = "id_DESC" THEN m > n ELSE m < n

(* A bug the checks must notice: the movie read ahead is not popped.       *)
FirstUnpopped(S, order, n) ==
  {m \in S : Cardinality({x \in S : Before(order, x, m)}) <= n}

(* What sort and limit leave of a set of movies.                           *)
First(S, order, n) == {m \in S : Cardinality({x \in S : Before(order, x, m)}) < n}
Last(S, order) == CHOOSE m \in S : \A x \in S \ {m} : Before(order, x, m)

(* A bug the checks must notice: the cursor's movie is on the next page.   *)
BeyondOrAt(d) == {m \in shelf : d.cursor # 0 => m <= d.cursor}

(* A bug the checks must notice: the comparison is the wrong way round.    *)
BeyondUpward(d) == {m \in shelf : d.cursor # 0 => m > d.cursor}

(* query.lt('_id', cursor), whatever the order.                            *)
Beyond(d) == {m \in shelf : d.cursor # 0 => m < d.cursor}

-----------------------------------------------------------------------------
Init ==
  /\ shelf \in SUBSET Ids
  /\ used = shelf
  /\ pc = [w \in Walks |-> "idle"]
  /\ dto \in [Walks -> [order : Orders, take : Takes, cursor : {0}, user : BOOLEAN]]
  /\ page = [w \in Walks |-> {}]
  /\ next = [w \in Walks |-> 0]
  /\ met = [w \in Walks |-> {}]
  /\ twice = [w \in Walks |-> {}]
  /\ stayed = [w \in Walks |-> {}]

Begin(w) ==
  /\ pc[w] = "idle"
  /\ pc' = [pc EXCEPT ![w] = "find"]
  /\ stayed' = [stayed EXCEPT ![w] = shelf]
  /\ UNCHANGED <<shelf, used, dto, page, next, met, twice>>

(* The answer reaches the client, who asks on while there is a cursor.     *)
Answer(w, movies, cursor) ==
  /\ twice' = [twice EXCEPT ![w] = @ \cup (met[w] \cap movies)]
  /\ met' = [met EXCEPT ![w] = @ \cup movies]
  /\ dto' = [dto EXCEPT ![w].cursor = cursor]
  /\ pc' = [pc EXCEPT ![w] = IF cursor = 0 THEN "done" ELSE "find"]
  /\ page' = [page EXCEPT ![w] = {}]
  /\ next' = [next EXCEPT ![w] = 0]
  /\ UNCHANGED <<shelf, used, stayed>>

Fail(w) ==
  /\ pc' = [pc EXCEPT ![w] = "failed"]
  /\ UNCHANGED <<shelf, used, dto, page, next, met, twice, stayed>>

(* find, sort and limit read one movie more than the page holds; it tells  *)
(* whether there is a next page.  Popping it off a page of size 0 leaves   *)
(* none to take the cursor from.                                           *)
FindMovies(w) ==
  /\ pc[w] = "find"
  /\ LET d      == dto[w]
         movies == First(Beyond(d), d.order, d.take)
         more   == Cardinality(Beyond(d)) > d.take
         cursor == IF more THEN Last(movies, d.order) ELSE 0
     IN  IF more /\ d.take = 0 THEN Fail(w)
         ELSE IF ~ d.user \/ movies = {} THEN Answer(w, movies, cursor)
         ELSE /\ page' = [page EXCEPT ![w] = movies]
              /\ next' = [next EXCEPT ![w] = cursor]
              /\ pc' = [pc EXCEPT ![w] = "findLikes"]
              /\ UNCHANGED <<shelf, used, dto, met, twice, stayed>>

(* A bug the checks must notice: the likes are not limited to the page.    *)
FindLikesOfUser(w) ==
  /\ pc[w] = "findLikes"
  /\ IF used \cap Liked \subseteq shelf THEN Answer(w, page[w], next[w]) ELSE Fail(w)

(* The likes of the page's movies, each populated with its movie: a like   *)
(* outlives its movie, and is then populated with null.                    *)
FindLikes(w) ==
  /\ pc[w] = "findLikes"
  /\ IF page[w] \cap Liked \subseteq shelf THEN Answer(w, page[w], next[w]) ELSE Fail(w)

CreateMovie(m) ==
  /\ m \notin used
  /\ used' = used \cup {m}
  /\ shelf' = shelf \cup {m}
  /\ UNCHANGED <<pc, dto, page, next, met, twice, stayed>>

RemoveMovie(m) ==
  /\ m \in shelf
  /\ shelf' = shelf \ {m}
  /\ stayed' = [w \in Walks |-> stayed[w] \ {m}]
  /\ UNCHANGED <<used, pc, dto, page, next, met, twice>>

Step(w) == FindMovies(w) \/ FindLikes(w)

Next ==
  \/ \E w \in Walks : Begin(w) \/ Step(w)
  \/ \E m \in Ids : CreateMovie(m) \/ RemoveMovie(m)

Spec == Init /\ [][Next]_vars

(* MongoDB answers its queries, and a client asks on.                      *)
Fairness == \A w \in Walks : WF_vars(Step(w))
FairSpec == Spec /\ Fairness

-----------------------------------------------------------------------------
(* Every variable keeps its range, and a page its size.                    *)
TypeOK ==
  /\ used \in SUBSET Ids /\ shelf \in SUBSET used
  /\ pc \in [Walks -> {"idle", "find", "findLikes", "done", "failed"}]
  /\ dto \in [Walks -> Dto]
  /\ page \in [Walks -> SUBSET Ids]
  /\ \A w \in Walks : Cardinality(page[w]) <= dto[w].take
  /\ next \in [Walks -> 0 .. MaxId]
  /\ met \in [Walks -> SUBSET Ids] /\ twice \in [Walks -> SUBSET Ids]
  /\ stayed \in [Walks -> SUBSET Ids]

Complete(w) == stayed[w] \subseteq met[w] /\ twice[w] = {}

(* A walk in the default order, whatever is created and removed meanwhile, *)
(* meets every movie that stays exactly once and none twice                *)
(* (movie.service.ts:144-168).                                             *)
DefaultWalkIsComplete ==
  \A w \in Walks : pc[w] = "done" /\ dto[w].order = "id_DESC" => Complete(w)

(* A page fails only when a movie of it that the user has pressed a button *)
(* of was removed since it was read, or when a page of none is asked for   *)
(* (movie.service.ts:166-168, 205-208).                                    *)
FailsOnRemovalOnly ==
  \A w \in Walks : pc[w] = "failed" =>
    dto[w].take = 0 \/ ~ page[w] \cap Liked \subseteq shelf

(* From page to page a cursor only falls, in either order: what a walk has *)
(* left behind it never asks for again (movie.service.ts:151-168).         *)
CursorsFall ==
  [][\A w \in Walks :
       dto'[w].cursor # dto[w].cursor /\ dto'[w].cursor # 0 /\ dto[w].cursor # 0 =>
         dto'[w].cursor < dto[w].cursor]_vars

(* Every walk comes to an end, its pages never leading back.               *)
WalkEnds == \A w \in Walks : pc[w] = "find" ~> pc[w] \in {"done", "failed"}
=============================================================================
