-------------------------- MODULE MoviePagesProofs --------------------------
(***************************************************************************)
(* Proofs about MoviePages, for any number of movies and of walks: types,  *)
(* that a walk in the default order meets every movie that stays once,     *)
(* that all its pages but the last are full, that a page fails for a       *)
(* removed movie only, that cursors fall, and what becomes of ascending    *)
(* walks. The invariant behind the second says what a cursor stands for:   *)
(* what stayed and is not beyond it was met, and nothing that was met is.  *)
(***************************************************************************)
EXTENDS MoviePages, FiniteSetTheorems, TLAPS

(* The movies of a set that come before one of them in an order.           *)
Ahead(S, order, m) == {x \in S : Before(order, x, m)}

Default(w) == dto[w].order = "id_DESC"
Under(m, cursor) == cursor # 0 => m < cursor

(* Movies on a page have had their _id, and what stayed is still there.    *)
MoviesAreKnown == \A w \in Walks : page[w] \subseteq used /\ stayed[w] \subseteq shelf

(* Nothing under the cursor was met yet, and what stayed and is not under  *)
(* it was.                                                                 *)
CursorIsExact(w) ==
  /\ \A m \in met[w] : ~ Under(m, dto[w].cursor)
  /\ \A m \in stayed[w] : ~ Under(m, dto[w].cursor) => m \in met[w]

(* A page that goes on from the cursor to the next one, leaving out no     *)
(* movie that stayed.                                                      *)
PageIsExact(w, movies, cursor) ==
  /\ \A m \in movies : Under(m, dto[w].cursor)
  /\ cursor # 0 => cursor \in movies /\ \A m \in movies : cursor <= m
  /\ \A m \in stayed[w] : Under(m, dto[w].cursor) /\ cursor <= m => m \in movies

WalkInv(w) ==
  /\ twice[w] = {}
  /\ pc[w] = "idle" => dto[w].cursor = 0
  /\ pc[w] \in {"idle", "find", "findLikes"} => CursorIsExact(w)
  /\ pc[w] = "findLikes" => PageIsExact(w, page[w], next[w])
  /\ pc[w] = "done" => Complete(w)

DefaultWalks == \A w \in Walks : Default(w) => WalkInv(w)

IInv == TypeOK /\ MoviesAreKnown /\ DefaultWalks /\ FailsOnRemovalOnly

-----------------------------------------------------------------------------
(* _ids are numbers, and every set of movies is finite.                    *)
LEMMA IdsType ==
  /\ IsFiniteSet(Ids)
  /\ \A m \in Ids : m \in Nat /\ m # 0 /\ m \in 0 .. MaxId
BY BoundAssumption, FS_Interval DEF Ids

(* Sets of movies are finite.                                              *)
LEMMA MoviesFinite ==
  ASSUME NEW S \in SUBSET Ids
  PROVE  IsFiniteSet(S) /\ Cardinality(S) \in Nat
BY IdsType, FS_Subset, FS_CardinalityType

(* Either order is a strict order of the movies.                           *)
LEMMA BeforeOrders ==
  ASSUME NEW order, NEW l \in Ids, NEW m \in Ids, NEW n \in Ids
  PROVE  /\ ~ Before(order, m, m)
         /\ Before(order, l, m) /\ Before(order, m, n) => Before(order, l, n)
         /\ l # m => Before(order, l, m) \/ Before(order, m, l)
BY IdsType DEF Before

(* Opposite orders compare two movies the other way round.                 *)
LEMMA BeforeFlips ==
  ASSUME NEW order, NEW m \in Ids, NEW n \in Ids
  PROVE  Before(IF order = "id_DESC" THEN "id_ASC" ELSE "id_DESC", m, n) = Before(order, n, m)
BY DEF Before

(* Fewer movies come before a movie than before one behind it.             *)
LEMMA AheadGrows ==
  ASSUME NEW S \in SUBSET Ids, NEW order, NEW m \in S, NEW n \in S, Before(order, m, n)
  PROVE  /\ Ahead(S, order, m) \subseteq Ahead(S, order, n)
         /\ Ahead(S, order, m) # Ahead(S, order, n)
         /\ Cardinality(Ahead(S, order, m)) < Cardinality(Ahead(S, order, n))
<1>1. Ahead(S, order, m) \subseteq Ahead(S, order, n)
  BY BeforeOrders DEF Ahead
<1>2. m \in Ahead(S, order, n) /\ m \notin Ahead(S, order, m)
  BY BeforeOrders DEF Ahead
<1>3. Ahead(S, order, m) \in SUBSET Ids /\ Ahead(S, order, n) \in SUBSET Ids
  BY DEF Ahead
<1>4. /\ IsFiniteSet(Ahead(S, order, n)) /\ Cardinality(Ahead(S, order, n)) \in Nat
      /\ Cardinality(Ahead(S, order, m)) \in Nat
  BY <1>3, MoviesFinite
<1>5. /\ Cardinality(Ahead(S, order, m)) <= Cardinality(Ahead(S, order, n))
      /\ Cardinality(Ahead(S, order, m)) # Cardinality(Ahead(S, order, n))
  BY <1>1, <1>2, <1>4, FS_Subset
<1> QED
  BY <1>1, <1>2, <1>4, <1>5

(* A set of movies has one that comes before all others: the sets of those *)
(* ahead of a movie are finite, so one of them is the smallest.            *)
LEMMA HasFirst ==
  ASSUME NEW S \in SUBSET Ids, S # {}, NEW order
  PROVE  \E m \in S : \A x \in S \ {m} : Before(order, m, x)
<1> DEFINE T == {Ahead(S, order, m) : m \in S}
<1>1. IsWellFoundedOn(StrictSubsetOrdering(Ids), SUBSET Ids)
  BY IdsType, FS_FiniteSubsetsOfFinite, FS_StrictSubsetOrderingWellFounded
<1>2. T \subseteq SUBSET Ids /\ T # {}
  BY DEF Ahead
<1>3. PICK A \in T : \A B \in T : ~ (<<B, A>> \in StrictSubsetOrdering(Ids))
  <2> HIDE DEF T
  <2> QED
    BY <1>1, <1>2, WFMin
<1>4. PICK m \in S : A = Ahead(S, order, m)
  BY <1>3
<1>5. ASSUME NEW x \in S, Before(order, x, m)
      PROVE  FALSE
  <2>1. Ahead(S, order, x) \subseteq A /\ Ahead(S, order, x) # A
    BY <1>4, <1>5, AheadGrows
  <2>2. Ahead(S, order, x) \in T /\ Ahead(S, order, x) \in SUBSET Ids /\ A \in SUBSET Ids
    BY <1>2, <1>3
  <2> QED
    BY <1>3, <2>1, <2>2 DEF StrictSubsetOrdering
<1> QED
  BY <1>5, BeforeOrders

(* The last movie of a set in an order is the first in the other.          *)
LEMMA HasLast ==
  ASSUME NEW S \in SUBSET Ids, S # {}, NEW order
  PROVE  /\ Last(S, order) \in S
         /\ \A x \in S \ {Last(S, order)} : Before(order, x, Last(S, order))
<1>1. PICK m \in S : \A x \in S \ {m} :
        Before(IF order = "id_DESC" THEN "id_ASC" ELSE "id_DESC", m, x)
  BY HasFirst
<1>2. \A x \in S \ {m} : Before(order, x, m)
  BY <1>1, BeforeFlips
<1> QED
  BY <1>2 DEF Last

(* Sort and limit leave no more movies than the limit: each has another    *)
(* number of movies ahead of it, and all less than that.                   *)
LEMMA FirstSize ==
  ASSUME NEW S \in SUBSET Ids, NEW order, NEW n \in Nat
  PROVE  First(S, order, n) \in SUBSET S /\ Cardinality(First(S, order, n)) <= n
<1> DEFINE F == First(S, order, n)
           f == [m \in F |-> Cardinality(Ahead(S, order, m))]
<1>1. F \in SUBSET S
  BY DEF First
<1>2. ASSUME NEW m \in F
      PROVE  Cardinality(Ahead(S, order, m)) \in 0 .. n - 1
  <2>1. Ahead(S, order, m) \in SUBSET Ids
    BY DEF Ahead
  <2>2. Cardinality(Ahead(S, order, m)) \in Nat
    BY <2>1, MoviesFinite
  <2>3. Cardinality(Ahead(S, order, m)) < n
    BY DEF First, Ahead
  <2> QED
    BY <2>2, <2>3
<1>3. f \in [F -> 0 .. n - 1]
  BY <1>2
<1>4. ASSUME NEW l \in F, NEW m \in F, f[l] = f[m]
      PROVE  l = m
  <2>1. f[l] \in Nat /\ f[m] \in Nat /\ ~ f[l] < f[m] /\ ~ f[m] < f[l]
    BY <1>2, <1>4
  <2>2. ~ Before(order, l, m) /\ ~ Before(order, m, l)
    BY <1>1, <2>1, AheadGrows
  <2> QED
    BY <1>1, <2>2, BeforeOrders
<1>5. f \in Injection(F, 0 .. n - 1)
  BY <1>3, <1>4 DEF Injection, IsInjective
<1>6. IsFiniteSet(0 .. n - 1) /\ Cardinality(0 .. n - 1) = n
  BY FS_Interval
<1>7. Cardinality(F) <= Cardinality(0 .. n - 1)
  <2> HIDE DEF f, F
  <2> QED
    BY <1>5, <1>6, FS_Injection
<1> QED
  BY <1>1, <1>6, <1>7

(* A limit no smaller than the set leaves all of it.                       *)
LEMMA FirstIsAll ==
  ASSUME NEW S \in SUBSET Ids, NEW order, NEW n \in Nat, Cardinality(S) <= n
  PROVE  First(S, order, n) = S
<1> SUFFICES ASSUME NEW m \in S PROVE Cardinality(Ahead(S, order, m)) < n
  BY DEF First, Ahead
<1>1. Ahead(S, order, m) \in SUBSET S /\ m \notin Ahead(S, order, m)
  BY BeforeOrders DEF Ahead
<1>2. /\ IsFiniteSet(S) /\ Cardinality(S) \in Nat /\ Cardinality(Ahead(S, order, m)) \in Nat
  BY <1>1, MoviesFinite
<1>3. /\ Cardinality(Ahead(S, order, m)) <= Cardinality(S)
      /\ Cardinality(Ahead(S, order, m)) # Cardinality(S)
  BY <1>1, <1>2, FS_Subset
<1> QED
  BY <1>2, <1>3

(* What comes before a movie that is left is left, too.                    *)
LEMMA FirstIsUpward ==
  ASSUME NEW S \in SUBSET Ids, NEW order, NEW n \in Nat,
         NEW m \in First(S, order, n), NEW x \in S, Before(order, x, m)
  PROVE  x \in First(S, order, n)
<1>1. m \in S /\ Cardinality(Ahead(S, order, m)) < n
  BY DEF First, Ahead
<1>2. Cardinality(Ahead(S, order, x)) < Cardinality(Ahead(S, order, m))
  BY <1>1, AheadGrows
<1>3. Ahead(S, order, x) \in SUBSET Ids /\ Ahead(S, order, m) \in SUBSET Ids
  BY DEF Ahead
<1>4. Cardinality(Ahead(S, order, x)) < n
  BY <1>1, <1>2, <1>3, MoviesFinite
<1> QED
  BY <1>4 DEF First, Ahead

(* A limit other than 0 leaves a movie, if there is one.                   *)
LEMMA FirstIsSome ==
  ASSUME NEW S \in SUBSET Ids, S # {}, NEW order, NEW n \in Nat, n # 0
  PROVE  First(S, order, n) # {}
<1>1. PICK m \in S : \A x \in S \ {m} : Before(order, m, x)
  BY HasFirst
<1>2. Ahead(S, order, m) = {}
  <2> SUFFICES ASSUME NEW x \in S, Before(order, x, m) PROVE FALSE
    BY DEF Ahead
  <2>1. x # m /\ Before(order, m, x)
    BY <1>1, BeforeOrders
  <2> QED
    BY <2>1, BeforeOrders
<1>3. Cardinality(Ahead(S, order, m)) < n
  BY <1>2, FS_EmptySet
<1> QED
  BY <1>3 DEF First, Ahead

-----------------------------------------------------------------------------
(* What a query for a page reads: its movies, whether there are more, and  *)
(* the cursor it hands on.                                                 *)
Movies(w) == First(Beyond(dto[w]), dto[w].order, dto[w].take)
More(w)   == Cardinality(Beyond(dto[w])) > dto[w].take
Cursor(w) == IF More(w) THEN Last(Movies(w), dto[w].order) ELSE 0

(* The page waits for the likes of its movies.                             *)
Hold(w) ==
  /\ page' = [page EXCEPT ![w] = Movies(w)]
  /\ next' = [next EXCEPT ![w] = Cursor(w)]
  /\ pc' = [pc EXCEPT ![w] = "findLikes"]
  /\ UNCHANGED <<shelf, used, dto, met, twice, stayed>>

(* A query fails, is answered with its page, or holds it.                  *)
LEMMA FindCases ==
  ASSUME NEW w \in Walks, FindMovies(w)
  PROVE  /\ pc[w] = "find"
         /\ \/ More(w) /\ dto[w].take = 0 /\ Fail(w)
            \/ ~ (More(w) /\ dto[w].take = 0) /\ Answer(w, Movies(w), Cursor(w))
            \/ ~ (More(w) /\ dto[w].take = 0) /\ Hold(w)
BY Zenon DEF FindMovies, Movies, More, Cursor, Hold

(* The types of what belongs to one walk.                                  *)
LEMMA WalkType ==
  ASSUME TypeOK, NEW w \in Walks
  PROVE  /\ dto[w] \in Dto /\ dto[w].take \in Nat /\ dto[w].cursor \in 0 .. MaxId
         /\ dto[w].cursor \in Nat
         /\ page[w] \in SUBSET Ids /\ met[w] \in SUBSET Ids /\ stayed[w] \in SUBSET Ids
         /\ next[w] \in 0 .. MaxId
         /\ Beyond(dto[w]) \in SUBSET shelf /\ Beyond(dto[w]) \in SUBSET Ids
BY BoundAssumption DEF TypeOK, Dto, Beyond

(* The movies of a page are in the collection, no more of them than asked  *)
(* for; a cursor is the last of them, and there is one if there is more.   *)
LEMMA MoviesType ==
  ASSUME TypeOK, NEW w \in Walks
  PROVE  /\ Movies(w) \in SUBSET Beyond(dto[w]) /\ Movies(w) \in SUBSET Ids
         /\ Cardinality(Movies(w)) <= dto[w].take
         /\ ~ More(w) => Movies(w) = Beyond(dto[w]) /\ Cursor(w) = 0
         /\ More(w) /\ dto[w].take # 0 =>
              /\ Cursor(w) \in Movies(w)
              /\ \A m \in Movies(w) \ {Cursor(w)} : Before(dto[w].order, m, Cursor(w))
<1>1. dto[w].take \in Nat /\ Beyond(dto[w]) \in SUBSET Ids
  BY WalkType
<1>2. Movies(w) \in SUBSET Beyond(dto[w]) /\ Cardinality(Movies(w)) <= dto[w].take
  BY <1>1, FirstSize DEF Movies
<1>3. Cardinality(Beyond(dto[w])) \in Nat
  BY <1>1, MoviesFinite
<1>4. ASSUME ~ More(w)
      PROVE  Movies(w) = Beyond(dto[w]) /\ Cursor(w) = 0
  <2>1. Cardinality(Beyond(dto[w])) <= dto[w].take
    BY <1>1, <1>3, <1>4 DEF More
  <2> QED
    BY <1>1, <1>4, <2>1, FirstIsAll DEF Movies, Cursor
<1>5. ASSUME More(w), dto[w].take # 0
      PROVE  /\ Cursor(w) \in Movies(w)
             /\ \A m \in Movies(w) \ {Cursor(w)} : Before(dto[w].order, m, Cursor(w))
  <2>1. Beyond(dto[w]) # {}
    <3> SUFFICES ASSUME Beyond(dto[w]) = {} PROVE FALSE
      OBVIOUS
    <3>1. Cardinality(Beyond(dto[w])) = 0
      BY FS_EmptySet
    <3> QED
      BY <1>1, <1>5, <3>1 DEF More
  <2>2. Movies(w) # {}
    BY <1>1, <1>5, <2>1, FirstIsSome DEF Movies
  <2> QED
    BY <1>1, <1>2, <1>5, <2>2, HasLast DEF Cursor
<1> QED
  BY <1>1, <1>2, <1>4, <1>5

(* A cursor is the id of a movie if there are more, and 0 otherwise.       *)
LEMMA CursorType ==
  ASSUME TypeOK, NEW w \in Walks, ~ (More(w) /\ dto[w].take = 0)
  PROVE  Cursor(w) \in 0 .. MaxId /\ (Cursor(w) = 0 <=> ~ More(w))
<1>1. CASE More(w)
  <2>1. Cursor(w) \in Ids
    BY <1>1, MoviesType
  <2> QED
    BY <1>1, <2>1, IdsType
<1>2. CASE ~ More(w)
  BY <1>2, MoviesType, BoundAssumption
<1> QED
  BY <1>1, <1>2

(* A page of the default order leaves out nothing that stayed between its  *)
(* cursor and the next one.                                                *)
LEMMA MoviesAreExact ==
  ASSUME TypeOK, MoviesAreKnown, NEW w \in Walks, Default(w), ~ (More(w) /\ dto[w].take = 0)
  PROVE  PageIsExact(w, Movies(w), Cursor(w))
<1> DEFINE S == Beyond(dto[w])
<1>1. /\ S \in SUBSET Ids /\ Movies(w) \in SUBSET S /\ dto[w].take \in Nat
      /\ stayed[w] \in SUBSET Ids /\ Cursor(w) \in Nat
  BY WalkType, MoviesType, CursorType
<1>2. \A m \in Movies(w) : Under(m, dto[w].cursor)
  BY <1>1 DEF Beyond, Under
<1>3. ASSUME Cursor(w) # 0
      PROVE  Cursor(w) \in Movies(w) /\ \A m \in Movies(w) : Cursor(w) <= m
  <2>1. More(w) /\ dto[w].take # 0
    BY <1>3, CursorType
  <2>2. /\ Cursor(w) \in Movies(w)
        /\ \A m \in Movies(w) \ {Cursor(w)} : Before("id_DESC", m, Cursor(w))
    BY <2>1, MoviesType DEF Default
  <2>3. \A m \in Movies(w) \ {Cursor(w)} : m > Cursor(w) /\ m \in Nat
    BY <1>1, <2>2, IdsType DEF Before
  <2> QED
    BY <1>1, <2>2, <2>3
<1>4. ASSUME NEW m \in stayed[w], Under(m, dto[w].cursor), Cursor(w) <= m
      PROVE  m \in Movies(w)
  <2>1. m \in S /\ m \in Nat
    BY <1>1, <1>4, IdsType DEF Beyond, Under, MoviesAreKnown
  <2>2. CASE Cursor(w) = 0
    BY <2>1, <2>2, CursorType, MoviesType
  <2>3. CASE m = Cursor(w)
    BY <1>1, <2>1, <1>3, <2>2, <2>3
  <2>4. CASE Cursor(w) # 0 /\ m # Cursor(w)
    <3>1. Cursor(w) \in First(S, dto[w].order, dto[w].take)
      BY <1>3, <2>4 DEF Movies
    <3>2. Before(dto[w].order, m, Cursor(w))
      BY <1>1, <1>4, <2>1, <2>4 DEF Before, Default
    <3>3. m \in First(S, dto[w].order, dto[w].take)
      <4> HIDE DEF S
      <4> QED
        BY <1>1, <2>1, <3>1, <3>2, FirstIsUpward
    <3> QED
      BY <3>3 DEF Movies
  <2> QED
    BY <2>2, <2>3, <2>4
<1> QED
  BY <1>2, <1>3, <1>4 DEF PageIsExact

-----------------------------------------------------------------------------
(* What an answer changes of a walk, and that it changes no other.         *)
LEMMA AnswerEffect ==
  ASSUME TypeOK, NEW w \in Walks, NEW movies \in SUBSET Ids, NEW cursor \in 0 .. MaxId,
         Answer(w, movies, cursor)
  PROVE  /\ dto' \in [Walks -> Dto]
         /\ dto'[w].order = dto[w].order /\ dto'[w].take = dto[w].take
         /\ dto'[w].cursor = cursor
         /\ \A v \in Walks \ {w} : dto'[v] = dto[v]
         /\ twice'[w] = twice[w] \cup (met[w] \cap movies) /\ met'[w] = met[w] \cup movies
         /\ pc'[w] = IF cursor = 0 THEN "done" ELSE "find"
         /\ page'[w] = {} /\ next'[w] = 0
<1>1. /\ dto[w] \in Dto /\ dto' = [dto EXCEPT ![w].cursor = cursor]
      /\ dto \in [Walks -> Dto]
  BY DEF Answer, TypeOK
<1>2. /\ dto'[w] = [dto[w] EXCEPT !.cursor = cursor] /\ \A v \in Walks \ {w} : dto'[v] = dto[v]
      /\ DOMAIN dto' = Walks /\ dto' = [v \in Walks |-> dto'[v]]
  BY <1>1
<1>3. /\ [dto[w] EXCEPT !.cursor = cursor] \in Dto
      /\ dto'[w].order = dto[w].order /\ dto'[w].take = dto[w].take /\ dto'[w].cursor = cursor
  BY <1>1, <1>2 DEF Dto
<1>4. dto' \in [Walks -> Dto]
  BY <1>1, <1>2, <1>3
<1>5. /\ twice'[w] = twice[w] \cup (met[w] \cap movies) /\ met'[w] = met[w] \cup movies
      /\ pc'[w] = IF cursor = 0 THEN "done" ELSE "find"
      /\ page'[w] = {} /\ next'[w] = 0
  BY DEF Answer, TypeOK
<1> QED
  BY <1>2, <1>3, <1>4, <1>5

(* An answer keeps the types.                                              *)
LEMMA AnswerKeepsType ==
  ASSUME TypeOK, NEW w \in Walks, NEW movies \in SUBSET Ids, NEW cursor \in 0 .. MaxId,
         Answer(w, movies, cursor)
  PROVE  TypeOK'
<1>1. /\ dto' \in [Walks -> Dto]
      /\ \A v \in Walks : dto'[v].take = dto[v].take
  BY AnswerEffect
<1>2. /\ twice' \in [Walks -> SUBSET Ids] /\ met' \in [Walks -> SUBSET Ids]
      /\ pc' \in [Walks -> {"idle", "find", "findLikes", "done", "failed"}]
      /\ page' \in [Walks -> SUBSET Ids] /\ next' \in [Walks -> 0 .. MaxId]
      /\ UNCHANGED <<shelf, used, stayed>>
  BY BoundAssumption DEF Answer, TypeOK
<1>3. ASSUME NEW v \in Walks
      PROVE  Cardinality(page'[v]) <= dto'[v].take
  <2>1. page'[v] = page[v] \/ page'[v] = {}
    BY DEF Answer, TypeOK
  <2>2. dto[v].take \in Nat /\ Cardinality({}) = 0
    BY WalkType, FS_EmptySet
  <2>3. Cardinality(page[v]) <= dto[v].take
    BY DEF TypeOK
  <2>4. Cardinality(page'[v]) = Cardinality(page[v]) \/ Cardinality(page'[v]) = 0
    BY <2>1, <2>2
  <2>5. dto'[v].take = dto[v].take
    BY <1>1
  <2> QED
    BY <2>2, <2>3, <2>4, <2>5
<1> QED
  BY <1>1, <1>2, <1>3 DEF TypeOK

(* Every step keeps the types.                                             *)
LEMMA TypeStep ==
  ASSUME TypeOK, [Next]_vars
  PROVE  TypeOK'
<1>1. ASSUME NEW w \in Walks, Begin(w)
      PROVE  TypeOK'
  BY <1>1 DEF TypeOK, Begin
<1>2. ASSUME NEW w \in Walks, Fail(w)
      PROVE  TypeOK'
  BY <1>2 DEF TypeOK, Fail
<1>3. ASSUME NEW w \in Walks, FindMovies(w)
      PROVE  TypeOK'
  <2>1. CASE Fail(w)
    BY <1>2, <2>1
  <2>2. ASSUME ~ (More(w) /\ dto[w].take = 0)
        PROVE  /\ Movies(w) \in SUBSET Ids /\ Cursor(w) \in 0 .. MaxId
               /\ Cardinality(Movies(w)) <= dto[w].take
    BY <2>2, MoviesType, CursorType
  <2>3. CASE ~ (More(w) /\ dto[w].take = 0) /\ Answer(w, Movies(w), Cursor(w))
    BY <2>2, <2>3, AnswerKeepsType
  <2>4. CASE ~ (More(w) /\ dto[w].take = 0) /\ Hold(w)
    <3>1. /\ page' = [page EXCEPT ![w] = Movies(w)]
          /\ next' = [next EXCEPT ![w] = Cursor(w)]
          /\ pc' = [pc EXCEPT ![w] = "findLikes"]
          /\ UNCHANGED <<shelf, used, dto, met, twice, stayed>>
      BY <2>4 DEF Hold
    <3>2. page' \in [Walks -> SUBSET Ids] /\ next' \in [Walks -> 0 .. MaxId]
      BY <2>2, <2>4, <3>1 DEF TypeOK
    <3>3. \A v \in Walks : Cardinality(page'[v]) <= dto[v].take
      BY <2>2, <2>4, <3>1 DEF TypeOK
    <3> QED
      BY <3>1, <3>2, <3>3 DEF TypeOK
  <2> QED
    BY <1>3, <2>1, <2>3, <2>4, FindCases
<1>4. ASSUME NEW w \in Walks, FindLikes(w)
      PROVE  TypeOK'
  <2>1. CASE Fail(w)
    BY <1>2, <2>1
  <2>2. CASE Answer(w, page[w], next[w])
    BY <2>2, WalkType, AnswerKeepsType
  <2> QED
    BY <1>4, <2>1, <2>2 DEF FindLikes
<1>5. ASSUME NEW m \in Ids, CreateMovie(m)
      PROVE  TypeOK'
  BY <1>5 DEF TypeOK, CreateMovie
<1>6. ASSUME NEW m \in Ids, RemoveMovie(m)
      PROVE  TypeOK'
  BY <1>6 DEF TypeOK, RemoveMovie
<1>7. CASE UNCHANGED vars
  BY <1>7 DEF TypeOK, vars
<1> QED
  BY <1>1, <1>3, <1>4, <1>5, <1>6, <1>7 DEF Next, Step

(* Pages hold movies that have had an _id, and what stayed is there.       *)
LEMMA KnownStep ==
  ASSUME TypeOK, MoviesAreKnown, [Next]_vars
  PROVE  MoviesAreKnown'
<1>1. ASSUME NEW w \in Walks, Begin(w)
      PROVE  MoviesAreKnown'
  BY <1>1 DEF TypeOK, MoviesAreKnown, Begin
<1>2. ASSUME NEW w \in Walks, Fail(w)
      PROVE  MoviesAreKnown'
  BY <1>2 DEF MoviesAreKnown, Fail
<1>3. ASSUME NEW w \in Walks, NEW movies, NEW cursor, Answer(w, movies, cursor)
      PROVE  MoviesAreKnown'
  BY <1>3 DEF TypeOK, MoviesAreKnown, Answer
<1>4. ASSUME NEW w \in Walks, Hold(w)
      PROVE  MoviesAreKnown'
  <2>1. Movies(w) \subseteq used
    BY WalkType, MoviesType DEF TypeOK
  <2> QED
    BY <1>4, <2>1 DEF TypeOK, MoviesAreKnown, Hold
<1>5. ASSUME NEW w \in Walks, FindMovies(w) \/ FindLikes(w)
      PROVE  MoviesAreKnown'
  <2>1. CASE FindMovies(w)
    BY <1>2, <1>3, <1>4, <2>1, FindCases
  <2>2. CASE FindLikes(w)
    BY <1>2, <1>3, <2>2 DEF FindLikes
  <2> QED
    BY <1>5, <2>1, <2>2
<1>6. ASSUME NEW m \in Ids, CreateMovie(m)
      PROVE  MoviesAreKnown'
  BY <1>6 DEF MoviesAreKnown, CreateMovie
<1>7. ASSUME NEW m \in Ids, RemoveMovie(m)
      PROVE  MoviesAreKnown'
  BY <1>7 DEF MoviesAreKnown, RemoveMovie
<1>8. CASE UNCHANGED vars
  BY <1>8 DEF MoviesAreKnown, vars
<1> QED
  BY <1>1, <1>5, <1>6, <1>7, <1>8 DEF Next, Step

-----------------------------------------------------------------------------
(* A walk keeps its invariant when it stands still, even if movies it had  *)
(* to meet are removed.                                                    *)
LEMMA WalkKept ==
  ASSUME NEW w \in Walks, WalkInv(w),
         pc'[w] = pc[w], dto'[w] = dto[w], page'[w] = page[w], next'[w] = next[w],
         met'[w] = met[w], twice'[w] = twice[w], stayed'[w] \subseteq stayed[w]
  PROVE  WalkInv(w)'
BY DEF WalkInv, CursorIsExact, PageIsExact, Complete, Under

(* An answer with a page that goes on from the cursor takes the walk to    *)
(* the next cursor, or to its end.                                         *)
LEMMA AnswerKeepsWalk ==
  ASSUME TypeOK, NEW w \in Walks, NEW movies \in SUBSET Ids, NEW cursor \in 0 .. MaxId,
         twice[w] = {}, CursorIsExact(w), PageIsExact(w, movies, cursor),
         Answer(w, movies, cursor)
  PROVE  WalkInv(w)'
<1> DEFINE c == dto[w].cursor
<1>1. /\ dto'[w].cursor = cursor /\ stayed' = stayed
      /\ twice'[w] = twice[w] \cup (met[w] \cap movies) /\ met'[w] = met[w] \cup movies
      /\ pc'[w] = IF cursor = 0 THEN "done" ELSE "find"
  BY AnswerEffect DEF Answer
<1>2. /\ c \in Nat /\ cursor \in Nat /\ stayed[w] \subseteq Nat \ {0}
      /\ met[w] \subseteq Nat \ {0} /\ movies \subseteq Nat \ {0}
  BY BoundAssumption, WalkType, IdsType
<1>3. twice'[w] = {}
  BY <1>1 DEF CursorIsExact, PageIsExact
<1>4. ASSUME NEW m \in stayed[w], cursor <= m
      PROVE  m \in met'[w]
  BY <1>1, <1>4 DEF CursorIsExact, PageIsExact
<1>5. CASE cursor = 0
  <2>1. stayed[w] \subseteq met'[w]
    BY <1>2, <1>4, <1>5
  <2> QED
    BY <1>1, <1>3, <1>5, <2>1 DEF WalkInv, Complete
<1>6. CASE cursor # 0
  <2>1. \A m \in movies : cursor <= m
    BY <1>6 DEF PageIsExact
  <2>2. ASSUME NEW m \in met[w]
        PROVE  cursor <= m
    <3>1. c # 0 /\ ~ m < c /\ m \in Nat
      BY <1>2 DEF CursorIsExact, Under
    <3>2. cursor < c
      BY <1>6, <3>1 DEF PageIsExact, Under
    <3> QED
      BY <1>2, <3>1, <3>2
  <2>3. \A m \in met'[w] : ~ Under(m, cursor)
    <3> SUFFICES ASSUME NEW m \in met'[w] PROVE ~ m < cursor
      BY <1>6 DEF Under
    <3>1. m \in Nat /\ cursor <= m
      BY <1>1, <1>2, <2>1, <2>2
    <3> QED
      BY <1>2, <3>1
  <2>4. \A m \in stayed[w] : ~ Under(m, cursor) => m \in met'[w]
    BY <1>2, <1>4 DEF Under
  <2>5. CursorIsExact(w)'
    BY <1>1, <2>3, <2>4 DEF CursorIsExact
  <2> QED
    BY <1>1, <1>3, <1>6, <2>5 DEF WalkInv
<1> QED
  BY <1>5, <1>6

(* A walk that fails keeps it, having nothing left to keep.                *)
LEMMA FailKeepsWalk ==
  ASSUME TypeOK, NEW w \in Walks, WalkInv(w), Fail(w)
  PROVE  WalkInv(w)'
BY DEF TypeOK, WalkInv, Fail

(* Reading a page in the default order keeps the invariant of the walk.    *)
LEMMA FindKeepsWalk ==
  ASSUME TypeOK, MoviesAreKnown, NEW w \in Walks, Default(w), WalkInv(w), FindMovies(w)
  PROVE  WalkInv(w)'
<1>1. pc[w] = "find" /\ twice[w] = {} /\ CursorIsExact(w)
  BY FindCases DEF WalkInv
<1>2. CASE Fail(w)
  BY <1>2, FailKeepsWalk
<1>3. CASE ~ (More(w) /\ dto[w].take = 0) /\ Answer(w, Movies(w), Cursor(w))
  BY <1>1, <1>3, MoviesAreExact, MoviesType, CursorType, AnswerKeepsWalk
<1>4. CASE ~ (More(w) /\ dto[w].take = 0) /\ Hold(w)
  <2>1. PageIsExact(w, Movies(w), Cursor(w))
    BY <1>4, MoviesAreExact
  <2>2. /\ pc'[w] = "findLikes" /\ page'[w] = Movies(w) /\ next'[w] = Cursor(w)
        /\ UNCHANGED <<dto, met, twice, stayed>>
    BY <1>4 DEF Hold, TypeOK
  <2>3. CursorIsExact(w)'
    BY <1>1, <2>2 DEF CursorIsExact
  <2>4. PageIsExact(w, page[w], next[w])'
    BY <2>1, <2>2 DEF PageIsExact
  <2> QED
    BY <1>1, <2>2, <2>3, <2>4 DEF WalkInv
<1> QED
  BY <1>2, <1>3, <1>4, FindCases

(* So does reading its likes, which answers with the page it held.         *)
LEMMA LikesKeepWalk ==
  ASSUME TypeOK, NEW w \in Walks, WalkInv(w), FindLikes(w)
  PROVE  WalkInv(w)'
<1>1. /\ pc[w] = "findLikes" /\ twice[w] = {} /\ CursorIsExact(w)
      /\ PageIsExact(w, page[w], next[w])
  BY DEF FindLikes, WalkInv
<1>2. CASE Fail(w)
  BY <1>2, FailKeepsWalk
<1>3. CASE Answer(w, page[w], next[w])
  BY <1>1, <1>3, WalkType, AnswerKeepsWalk
<1> QED
  BY <1>2, <1>3 DEF FindLikes

(* No step of a walk touches another walk.                                 *)
LEMMA OthersStand ==
  ASSUME TypeOK, NEW w \in Walks, NEW v \in Walks \ {w},
         Begin(w) \/ FindMovies(w) \/ FindLikes(w)
  PROVE  /\ pc'[v] = pc[v] /\ dto'[v] = dto[v] /\ page'[v] = page[v] /\ next'[v] = next[v]
         /\ met'[v] = met[v] /\ twice'[v] = twice[v] /\ stayed'[v] = stayed[v]
<1>1. CASE Begin(w)
  BY <1>1 DEF Begin, TypeOK
<1>2. CASE Fail(w)
  BY <1>2 DEF Fail, TypeOK
<1>3. ASSUME NEW movies, NEW cursor, Answer(w, movies, cursor)
      PROVE  /\ pc'[v] = pc[v] /\ dto'[v] = dto[v] /\ page'[v] = page[v] /\ next'[v] = next[v]
             /\ met'[v] = met[v] /\ twice'[v] = twice[v] /\ stayed'[v] = stayed[v]
  BY <1>3 DEF Answer, TypeOK
<1>4. CASE Hold(w)
  BY <1>4 DEF Hold, TypeOK
<1>5. CASE FindMovies(w)
  BY <1>2, <1>3, <1>4, <1>5, FindCases
<1>6. CASE FindLikes(w)
  BY <1>2, <1>3, <1>6 DEF FindLikes
<1> QED
  BY <1>1, <1>5, <1>6

(* A walk keeps its order and page size.                                   *)
LEMMA OrderStands ==
  ASSUME TypeOK, NEW w \in Walks, [Next]_vars
  PROVE  dto'[w].order = dto[w].order /\ dto'[w].take = dto[w].take
<1>1. ASSUME NEW v \in Walks, NEW movies, NEW cursor, Answer(v, movies, cursor)
      PROVE  dto'[w].order = dto[w].order /\ dto'[w].take = dto[w].take
  <2>1. dto' = [dto EXCEPT ![v].cursor = cursor] /\ dto \in [Walks -> Dto]
    BY <1>1 DEF Answer, TypeOK
  <2>2. dto'[w] = IF w = v THEN [dto[w] EXCEPT !.cursor = cursor] ELSE dto[w]
    BY <2>1
  <2>3. dto[w] \in Dto
    BY <2>1
  <2> QED
    BY <2>2, <2>3 DEF Dto
<1>2. ASSUME NEW v \in Walks, FindMovies(v)
      PROVE  dto'[w].order = dto[w].order /\ dto'[w].take = dto[w].take
  BY <1>1, <1>2, FindCases DEF Fail, Hold
<1>3. ASSUME NEW v \in Walks, FindLikes(v)
      PROVE  dto'[w].order = dto[w].order /\ dto'[w].take = dto[w].take
  BY <1>1, <1>3 DEF Fail, FindLikes
<1>4. CASE \/ \E v \in Walks : Begin(v)
           \/ \E m \in Ids : CreateMovie(m) \/ RemoveMovie(m)
           \/ UNCHANGED vars
  BY <1>4 DEF Begin, CreateMovie, RemoveMovie, vars
<1> QED
  BY <1>2, <1>3, <1>4 DEF Next, Step

(* Walks in the default order keep the invariant, whatever is created and  *)
(* removed.                                                                *)
LEMMA DefaultStep ==
  ASSUME TypeOK, MoviesAreKnown, DefaultWalks, [Next]_vars
  PROVE  DefaultWalks'
<1> SUFFICES ASSUME NEW w \in Walks, Default(w)'
             PROVE  WalkInv(w)'
  BY DEF DefaultWalks
<1>1. Default(w) /\ WalkInv(w)
  BY OrderStands DEF Default, DefaultWalks
<1>2. CASE Begin(w)
  <2>1. /\ pc[w] = "idle" /\ pc'[w] = "find" /\ stayed'[w] = shelf
        /\ UNCHANGED <<dto, met, twice>>
    BY <1>2 DEF Begin, TypeOK
  <2>2. twice[w] = {} /\ CursorIsExact(w) /\ dto[w].cursor = 0
    BY <1>1, <2>1 DEF WalkInv
  <2> QED
    BY <2>1, <2>2 DEF WalkInv, CursorIsExact, Under
<1>3. CASE FindMovies(w)
  BY <1>1, <1>3, FindKeepsWalk
<1>4. CASE FindLikes(w)
  BY <1>1, <1>4, LikesKeepWalk
<1>5. ASSUME NEW v \in Walks \ {w}, Begin(v) \/ FindMovies(v) \/ FindLikes(v)
      PROVE  WalkInv(w)'
  BY <1>1, <1>5, OthersStand, WalkKept
<1>6. CASE \E m \in Ids : CreateMovie(m) \/ RemoveMovie(m)
  <2>1. stayed'[w] \subseteq stayed[w] /\ UNCHANGED <<pc, dto, page, next, met, twice>>
    BY <1>6 DEF CreateMovie, RemoveMovie
  <2> QED
    BY <1>1, <2>1, WalkKept
<1>7. CASE UNCHANGED vars
  BY <1>1, <1>7, WalkKept DEF vars
<1> QED
  BY <1>2, <1>3, <1>4, <1>5, <1>6, <1>7 DEF Next, Step

(* A failed walk stays where it failed, its movie gone for good.           *)
LEMMA FailStep ==
  ASSUME TypeOK, MoviesAreKnown, FailsOnRemovalOnly, [Next]_vars
  PROVE  FailsOnRemovalOnly'
<1> SUFFICES ASSUME NEW w \in Walks, pc'[w] = "failed"
             PROVE  dto'[w].take = 0 \/ ~ page'[w] \cap Liked \subseteq shelf'
  BY DEF FailsOnRemovalOnly
<1>1. dto'[w].take = dto[w].take
  BY OrderStands
<1>2. CASE pc[w] = "failed"
  <2>1. dto[w].take = 0 \/ ~ page[w] \cap Liked \subseteq shelf
    BY <1>2 DEF FailsOnRemovalOnly
  <2>2. ASSUME NEW v \in Walks, Begin(v) \/ FindMovies(v) \/ FindLikes(v)
        PROVE  page'[w] = page[w] /\ shelf' = shelf
    <3>1. w # v
      BY <1>2, <2>2 DEF Begin, FindMovies, FindLikes
    <3>2. page'[w] = page[w]
      BY <2>2, <3>1, OthersStand
    <3>3. CASE FindMovies(v)
      BY <3>2, <3>3, FindCases DEF Fail, Answer, Hold
    <3>4. CASE FindLikes(v) \/ Begin(v)
      BY <3>2, <3>4 DEF FindLikes, Begin, Fail, Answer
    <3> QED
      BY <2>2, <3>3, <3>4
  <2>3. ASSUME NEW m \in Ids, CreateMovie(m)
        PROVE  page'[w] = page[w] /\ shelf' \cap page[w] = shelf \cap page[w]
    BY <2>3 DEF CreateMovie, MoviesAreKnown
  <2>4. ASSUME NEW m \in Ids, RemoveMovie(m)
        PROVE  page'[w] = page[w] /\ shelf' \subseteq shelf
    BY <2>4 DEF RemoveMovie
  <2>5. CASE UNCHANGED vars
    BY <1>1, <2>1, <2>5 DEF vars
  <2> QED
    BY <1>1, <2>1, <2>2, <2>3, <2>4, <2>5 DEF Next, Step
<1>3. CASE pc[w] # "failed"
  <2>1. ASSUME NEW v \in Walks, NEW movies, NEW cursor, Answer(v, movies, cursor)
        PROVE  FALSE
    BY <1>3, <2>1 DEF Answer, TypeOK
  <2>2. CASE FindMovies(w) /\ Fail(w) /\ More(w) /\ dto[w].take = 0
    BY <1>1, <2>2
  <2>3. CASE FindLikes(w)
    BY <2>1, <2>3 DEF FindLikes, Fail
  <2>4. CASE FindMovies(w)
    <3>1. ~ Hold(w)
      BY <1>3 DEF Hold, TypeOK
    <3> QED
      BY <2>1, <2>2, <2>4, <3>1, FindCases
  <2>5. ASSUME NEW v \in Walks, Begin(v) \/ ((FindMovies(v) \/ FindLikes(v)) /\ v # w)
        PROVE  FALSE
    <3>1. CASE v = w
      BY <1>3, <2>5, <3>1 DEF Begin, TypeOK
    <3>2. CASE v # w
      BY <1>3, <2>5, <3>2, OthersStand
    <3> QED
      BY <3>1, <3>2
  <2>6. pc' # pc
    BY <1>3
  <2> QED
    BY <2>3, <2>4, <2>5, <2>6 DEF Next, Step, CreateMovie, RemoveMovie, vars
<1> QED
  BY <1>2, <1>3

(* The invariant is inductive.                                             *)
LEMMA Invariance == Spec => []IInv
<1>1. Init => IInv
  <2> SUFFICES ASSUME Init PROVE IInv
    OBVIOUS
  <2>1. /\ page = [w \in Walks |-> {}] /\ next = [w \in Walks |-> 0]
        /\ met = [w \in Walks |-> {}] /\ twice = [w \in Walks |-> {}]
        /\ stayed = [w \in Walks |-> {}] /\ pc = [w \in Walks |-> "idle"]
        /\ shelf \in SUBSET Ids /\ used = shelf
        /\ dto \in [Walks -> [order : Orders, take : Takes, cursor : {0}, user : BOOLEAN]]
    BY DEF Init
  <2>2. dto \in [Walks -> Dto]
    <3>1. [order : Orders, take : Takes, cursor : {0}, user : BOOLEAN] \subseteq Dto
      <4> SUFFICES ASSUME NEW d \in [order : Orders, take : Takes, cursor : {0}, user : BOOLEAN]
                   PROVE  d \in Dto
        OBVIOUS
      <4>1. d.order \in {"id_DESC", "id_ASC"} /\ d.take \in Nat /\ d.cursor \in 0 .. MaxId
        <5>1. d.order \in Orders /\ d.take \in Takes /\ d.cursor = 0
          OBVIOUS
        <5>2. d.order \in {"id_DESC", "id_ASC"} /\ d.take \in Nat
          BY <5>1, OrderAssumption, TakeAssumption
        <5> QED
          BY <5>1, <5>2, BoundAssumption
      <4>2. /\ d = [order |-> d.order, take |-> d.take, cursor |-> d.cursor, user |-> d.user]
            /\ d.user \in BOOLEAN
        OBVIOUS
      <4> QED
        BY <4>1, <4>2 DEF Dto
    <3> QED
      BY <2>1, <3>1
  <2>3. \A w \in Walks : Cardinality(page[w]) <= dto[w].take
    <3> SUFFICES ASSUME NEW w \in Walks PROVE Cardinality(page[w]) <= dto[w].take
      OBVIOUS
    <3>1. Cardinality(page[w]) = 0
      BY <2>1, FS_EmptySet
    <3>2. dto[w].take \in Nat
      BY <2>2 DEF Dto
    <3> QED
      BY <3>1, <3>2
  <2>4. TypeOK
    BY <2>1, <2>2, <2>3, BoundAssumption DEF TypeOK
  <2>5. MoviesAreKnown /\ FailsOnRemovalOnly
    BY <2>1 DEF MoviesAreKnown, FailsOnRemovalOnly
  <2>6. DefaultWalks
    <3>1. \A w \in Walks : dto[w].cursor = 0
      BY <2>1
    <3> QED
      BY <2>1, <3>1 DEF DefaultWalks, WalkInv, CursorIsExact
  <2> QED
    BY <2>4, <2>5, <2>6 DEF IInv
<1>2. IInv /\ [Next]_vars => IInv'
  BY TypeStep, KnownStep, DefaultStep, FailStep DEF IInv
<1> QED
  BY <1>1, <1>2, PTL DEF Spec

(* Every variable keeps its range, and a page is never larger than asked   *)
(* for (movie.service.ts:144-168).                                         *)
THEOREM TypeCorrect == Spec => []TypeOK
BY Invariance, PTL DEF IInv

(* For any movies, page sizes and walks, one in the default order meets    *)
(* every movie that stays exactly once and none twice, whatever is created *)
(* and removed meanwhile (movie.service.ts:144-168).                       *)
THEOREM DefaultWalksAreComplete == Spec => []DefaultWalkIsComplete
<1>1. IInv => DefaultWalkIsComplete
  BY DEF IInv, DefaultWalks, Default, WalkInv, DefaultWalkIsComplete
<1> QED
  BY <1>1, Invariance, PTL

(* A page fails for a removed movie its user has pressed a button of, or   *)
(* because a page of none is asked for, and for nothing else               *)
(* (movie.service.ts:166-168, 205-208).                                    *)
THEOREM FailuresMeanRemovals == Spec => []FailsOnRemovalOnly
BY Invariance, PTL DEF IInv

-----------------------------------------------------------------------------
(* In either order a page is under its cursor, and hands on one of its own *)
(* movies.                                                                 *)
PagesAreUnder ==
  \A w \in Walks : pc[w] = "findLikes" =>
    /\ \A m \in page[w] : Under(m, dto[w].cursor)
    /\ next[w] # 0 => next[w] \in page[w]

(* A page is read under its cursor and held until it is answered.          *)
LEMMA UnderStep ==
  ASSUME TypeOK, PagesAreUnder, [Next]_vars
  PROVE  PagesAreUnder'
<1> SUFFICES ASSUME NEW w \in Walks, pc'[w] = "findLikes"
             PROVE  /\ \A m \in page'[w] : Under(m, dto'[w].cursor)
                    /\ next'[w] # 0 => next'[w] \in page'[w]
  BY DEF PagesAreUnder, Under
<1>1. ASSUME NEW v \in Walks, ~ (More(v) /\ dto[v].take = 0), Hold(v), v = w
      PROVE  /\ \A m \in page'[w] : Under(m, dto'[w].cursor)
             /\ next'[w] # 0 => next'[w] \in page'[w]
  <2>1. page'[w] = Movies(w) /\ next'[w] = Cursor(w) /\ dto' = dto
    BY <1>1 DEF Hold, TypeOK
  <2>2. \A m \in Movies(w) : Under(m, dto[w].cursor)
    BY MoviesType DEF Beyond, Under
  <2>3. Cursor(w) # 0 => Cursor(w) \in Movies(w)
    BY <1>1, CursorType, MoviesType
  <2> QED
    BY <2>1, <2>2, <2>3
<1>2. ASSUME pc[w] = pc'[w], page'[w] = page[w], next'[w] = next[w], dto'[w] = dto[w]
      PROVE  /\ \A m \in page'[w] : Under(m, dto'[w].cursor)
             /\ next'[w] # 0 => next'[w] \in page'[w]
  BY <1>2 DEF PagesAreUnder
<1>3. ASSUME Begin(w) \/ FindLikes(w)
      PROVE  FALSE
  BY <1>3 DEF Begin, FindLikes, Fail, Answer, TypeOK
<1>4. CASE FindMovies(w)
  <2>1. ~ Fail(w) /\ ~ Answer(w, Movies(w), Cursor(w))
    BY DEF Fail, Answer, TypeOK
  <2> QED
    BY <1>1, <1>4, <2>1, FindCases
<1>5. ASSUME NEW v \in Walks \ {w}, Begin(v) \/ FindMovies(v) \/ FindLikes(v)
      PROVE  pc[w] = pc'[w] /\ page'[w] = page[w] /\ next'[w] = next[w] /\ dto'[w] = dto[w]
  BY <1>5, OthersStand
<1>6. CASE (\E m \in Ids : CreateMovie(m) \/ RemoveMovie(m)) \/ UNCHANGED vars
  BY <1>2, <1>6 DEF CreateMovie, RemoveMovie, vars
<1> QED
  BY <1>2, <1>3, <1>4, <1>5, <1>6 DEF Next, Step

(* A cursor that is replaced by another one is replaced by a smaller one.  *)
LEMMA CursorFalls ==
  ASSUME TypeOK, PagesAreUnder, [Next]_vars, NEW w \in Walks,
         dto'[w].cursor # dto[w].cursor, dto'[w].cursor # 0, dto[w].cursor # 0
  PROVE  dto'[w].cursor < dto[w].cursor
<1>1. CASE FindMovies(w)
  <2>1. /\ ~ (More(w) /\ dto[w].take = 0)
        /\ Answer(w, Movies(w), Cursor(w))
    BY <1>1, FindCases DEF Fail, Hold
  <2>2. dto'[w].cursor = Cursor(w)
    BY <2>1, MoviesType, CursorType, AnswerEffect
  <2>3. Cursor(w) \in Movies(w)
    BY <2>1, <2>2, MoviesType, CursorType
  <2> QED
    BY <2>2, <2>3, MoviesType DEF Beyond
<1>2. CASE FindLikes(w)
  <2>1. pc[w] = "findLikes" /\ Answer(w, page[w], next[w])
    BY <1>2 DEF FindLikes, Fail
  <2>2. dto'[w].cursor = next[w]
    BY <2>1, WalkType, AnswerEffect
  <2> QED
    BY <2>1, <2>2 DEF PagesAreUnder, Under
<1>3. ASSUME NEW v \in Walks, Begin(v) \/ ((FindMovies(v) \/ FindLikes(v)) /\ v # w)
      PROVE  FALSE
  <2>1. CASE Begin(v)
    BY <2>1 DEF Begin
  <2>2. CASE (FindMovies(v) \/ FindLikes(v)) /\ v # w
    BY <2>2, OthersStand
  <2> QED
    BY <1>3, <2>1, <2>2
<1>4. dto' # dto
  OBVIOUS
<1> QED
  BY <1>1, <1>2, <1>3, <1>4 DEF Next, Step, CreateMovie, RemoveMovie, vars

(* For any page size and order, the cursors of a walk fall: the reason no  *)
(* walk goes round in circles (movie.service.ts:151-168).                  *)
THEOREM CursorsDoFall == Spec => CursorsFall
<1>1. Init => PagesAreUnder
  BY DEF Init, PagesAreUnder
<1>2. TypeOK /\ PagesAreUnder /\ [Next]_vars => PagesAreUnder'
  BY UnderStep
<1>3. /\ TypeOK /\ PagesAreUnder
      /\ [Next]_vars
      => [\A w \in Walks :
            dto'[w].cursor # dto[w].cursor /\ dto'[w].cursor # 0 /\ dto[w].cursor # 0 =>
              dto'[w].cursor < dto[w].cursor]_vars
  BY CursorFalls
<1> QED
  BY <1>1, <1>2, <1>3, TypeCorrect, PTL DEF Spec, CursorsFall

-----------------------------------------------------------------------------
(* A limit no larger than the set is reached: the numbers of movies ahead  *)
(* of its movies are all those below its size, each once.                  *)
LEMMA FirstIsFull ==
  ASSUME NEW S \in SUBSET Ids, NEW order, NEW n \in Nat, n <= Cardinality(S)
  PROVE  Cardinality(First(S, order, n)) = n
<1> DEFINE k == Cardinality(S)
           f == [m \in S |-> Cardinality(Ahead(S, order, m))]
           F == First(S, order, n)
           g == [m \in F |-> f[m]]
<1>1. k \in Nat /\ IsFiniteSet(S)
  BY MoviesFinite
<1>2. ASSUME NEW m \in S
      PROVE  f[m] \in 0 .. k - 1
  <2>1. Ahead(S, order, m) \in SUBSET S /\ m \notin Ahead(S, order, m)
    BY BeforeOrders DEF Ahead
  <2>2. Cardinality(Ahead(S, order, m)) \in Nat
    BY <2>1, MoviesFinite
  <2>3. /\ Cardinality(Ahead(S, order, m)) <= k
        /\ Cardinality(Ahead(S, order, m)) # k
    BY <1>1, <2>1, FS_Subset
  <2> QED
    BY <1>1, <2>2, <2>3
<1>3. ASSUME NEW l \in S, NEW m \in S, f[l] = f[m]
      PROVE  l = m
  <2>1. f[l] \in Nat /\ f[m] \in Nat /\ ~ f[l] < f[m] /\ ~ f[m] < f[l]
    BY <1>1, <1>2, <1>3
  <2>2. ~ Before(order, l, m) /\ ~ Before(order, m, l)
    BY <2>1, AheadGrows
  <2> QED
    BY <2>2, BeforeOrders
<1>4. f \in Injection(S, 0 .. k - 1)
  BY <1>2, <1>3 DEF Injection, IsInjective
<1>5. IsFiniteSet(0 .. k - 1) /\ Cardinality(0 .. k - 1) = k
  <2>1. PICK j \in Int : j = k - 1
    BY <1>1
  <2>2. IsFiniteSet(0 .. j) /\ Cardinality(0 .. j) = IF 0 > j THEN 0 ELSE j - 0 + 1
    BY FS_Interval
  <2> QED
    BY <1>1, <2>1, <2>2
<1>6. f \in Surjection(S, 0 .. k - 1)
  <2> HIDE DEF f
  <2> QED
    BY <1>4, <1>5, FS_Injection
<1>7. F = {m \in S : f[m] < n}
  BY DEF First, Ahead
<1>8. ASSUME NEW m \in F
      PROVE  g[m] \in 0 .. n - 1
  BY <1>1, <1>2, <1>7
<1>9. ASSUME NEW i \in 0 .. n - 1
      PROVE  \E m \in F : g[m] = i
  <2>1. i \in 0 .. k - 1
    BY <1>1
  <2>2. PICK m \in S : f[m] = i
    BY <1>6, <2>1 DEF Surjection
  <2> QED
    BY <1>7, <2>2
<1>10. g \in Bijection(F, 0 .. n - 1)
  <2>1. F \subseteq S
    BY <1>7
  <2>2. g \in Injection(F, 0 .. n - 1)
    BY <1>3, <1>8, <2>1 DEF Injection, IsInjective
  <2>3. g \in Surjection(F, 0 .. n - 1)
    BY <1>8, <1>9 DEF Surjection
  <2> QED
    BY <2>2, <2>3 DEF Bijection
<1>11. IsFiniteSet(0 .. n - 1) /\ Cardinality(0 .. n - 1) = n
  BY FS_Interval
<1>12. F \in SUBSET Ids
  BY <1>7
<1> HIDE DEF g, F
<1>13. IsFiniteSet(F) /\ ExistsBijection(F, 0 .. n - 1)
  BY <1>10, <1>12, MoviesFinite DEF ExistsBijection
<1>14. Cardinality(0 .. n - 1) = Cardinality(F)
  BY <1>13, FS_Bijection
<1> QED
  BY <1>11, <1>14 DEF F

(* A page that hands on a cursor has as many movies as were asked for.     *)
HeldPagesAreFull ==
  \A w \in Walks : pc[w] = "findLikes" /\ next[w] # 0 => Cardinality(page[w]) = dto[w].take

(* The walk is answered and goes on to another page.                       *)
AsksOn(w) == dto'[w].cursor # dto[w].cursor /\ dto'[w].cursor # 0

(* Every page of a walk in the default order but the last one brings as    *)
(* many movies as were asked for, all of them new.                         *)
PagesAreFull ==
  [][\A w \in Walks : Default(w) /\ AsksOn(w) =>
       Cardinality(met'[w]) = Cardinality(met[w]) + dto[w].take]_vars

(* A cursor is a movie the walk has met.                                   *)
CursorsAreMet == \A w \in Walks : dto[w].cursor # 0 => dto[w].cursor \in met[w]

(* From its second page on a walk meets no movie above those it has met.   *)
WalksGoDown ==
  [][\A w \in Walks : dto[w].cursor # 0 => \A m \in met'[w] : \E t \in met[w] : m <= t]_vars

-----------------------------------------------------------------------------
(* What reading a page means for its cursor and its size.                  *)
LEMMA MoviesAreFull ==
  ASSUME TypeOK, NEW w \in Walks, ~ (More(w) /\ dto[w].take = 0), Cursor(w) # 0
  PROVE  Cursor(w) \in Movies(w) /\ Cardinality(Movies(w)) = dto[w].take
<1>1. More(w) /\ dto[w].take # 0
  BY CursorType
<1>2. dto[w].take \in Nat /\ Beyond(dto[w]) \in SUBSET Ids
  BY WalkType
<1>3. dto[w].take <= Cardinality(Beyond(dto[w]))
  BY <1>1, <1>2, MoviesFinite DEF More
<1> QED
  BY <1>1, <1>2, <1>3, FirstIsFull, MoviesType DEF Movies

(* A walk that moves is answered with a page under its cursor, full if it  *)
(* goes on, or is not answered.                                            *)
LEMMA WalkMoves ==
  ASSUME TypeOK, PagesAreUnder, HeldPagesAreFull, [Next]_vars, NEW w \in Walks
  PROVE  \/ met'[w] = met[w] /\ dto'[w] = dto[w]
         \/ \E movies \in SUBSET Ids, cursor \in 0 .. MaxId :
              /\ met'[w] = met[w] \cup movies /\ dto'[w].cursor = cursor
              /\ \A m \in movies : Under(m, dto[w].cursor)
              /\ cursor # 0 => cursor \in movies /\ Cardinality(movies) = dto[w].take
              /\ Default(w) /\ DefaultWalks /\ MoviesAreKnown => movies \cap met[w] = {}
<1>1. CASE FindMovies(w)
  <2>1. CASE Fail(w) \/ Hold(w)
    BY <2>1 DEF Fail, Hold
  <2>2. CASE ~ (More(w) /\ dto[w].take = 0) /\ Answer(w, Movies(w), Cursor(w))
    <3>1. Movies(w) \in SUBSET Ids /\ Cursor(w) \in 0 .. MaxId
      BY <2>2, MoviesType, CursorType
    <3>2. \A m \in Movies(w) : Under(m, dto[w].cursor)
      BY MoviesType DEF Beyond, Under
    <3>3. Cursor(w) # 0 => Cursor(w) \in Movies(w) /\ Cardinality(Movies(w)) = dto[w].take
      BY <2>2, MoviesAreFull
    <3>4. Default(w) /\ DefaultWalks => Movies(w) \cap met[w] = {}
      BY <1>1, <3>2, FindCases DEF DefaultWalks, WalkInv, CursorIsExact
    <3>5. met'[w] = met[w] \cup Movies(w) /\ dto'[w].cursor = Cursor(w)
      BY <2>2, <3>1, AnswerEffect
    <3> QED
      BY <3>1, <3>2, <3>3, <3>4, <3>5
  <2> QED
    BY <1>1, <2>1, <2>2, FindCases
<1>2. CASE FindLikes(w)
  <2>1. CASE Fail(w)
    BY <2>1 DEF Fail
  <2>2. CASE Answer(w, page[w], next[w])
    <3>1. page[w] \in SUBSET Ids /\ next[w] \in 0 .. MaxId /\ pc[w] = "findLikes"
      BY <1>2, WalkType DEF FindLikes
    <3>2. /\ \A m \in page[w] : Under(m, dto[w].cursor)
          /\ next[w] # 0 => next[w] \in page[w] /\ Cardinality(page[w]) = dto[w].take
      BY <3>1 DEF PagesAreUnder, HeldPagesAreFull
    <3>3. Default(w) /\ DefaultWalks => page[w] \cap met[w] = {}
      BY <3>1, <3>2 DEF DefaultWalks, WalkInv, CursorIsExact
    <3>4. dto'[w].cursor = next[w]
      <4>1. dto' = [dto EXCEPT ![w].cursor = next[w]] /\ dto \in [Walks -> Dto]
        BY <2>2 DEF Answer, TypeOK
      <4>2. dto'[w] = [dto[w] EXCEPT !.cursor = next[w]] /\ dto[w] \in Dto
        BY <4>1
      <4> QED
        BY <4>2 DEF Dto
    <3>5. met'[w] = met[w] \cup page[w]
      BY <2>2 DEF Answer, TypeOK
    <3> QED
      BY <3>1, <3>2, <3>3, <3>4, <3>5
  <2> QED
    BY <1>2, <2>1, <2>2 DEF FindLikes
<1>3. CASE Begin(w)
  BY <1>3 DEF Begin
<1>4. ASSUME NEW v \in Walks \ {w}, Begin(v) \/ FindMovies(v) \/ FindLikes(v)
      PROVE  met'[w] = met[w] /\ dto'[w] = dto[w]
  BY <1>4, OthersStand
<1>5. CASE (\E m \in Ids : CreateMovie(m) \/ RemoveMovie(m)) \/ UNCHANGED vars
  BY <1>5 DEF CreateMovie, RemoveMovie, vars
<1> QED
  BY <1>1, <1>2, <1>3, <1>4, <1>5 DEF Next, Step

(* Only a query for a page that is then held takes a walk to where it is.  *)
LEMMA HeldStep ==
  ASSUME TypeOK, HeldPagesAreFull, [Next]_vars
  PROVE  HeldPagesAreFull'
<1> SUFFICES ASSUME NEW w \in Walks, pc'[w] = "findLikes", next'[w] # 0
             PROVE  Cardinality(page'[w]) = dto'[w].take
  BY DEF HeldPagesAreFull
<1>1. ASSUME ~ (More(w) /\ dto[w].take = 0), Hold(w)
      PROVE  Cardinality(page'[w]) = dto'[w].take
  <2>1. page'[w] = Movies(w) /\ next'[w] = Cursor(w) /\ dto' = dto
    BY <1>1 DEF Hold, TypeOK
  <2> QED
    BY <1>1, <2>1, MoviesAreFull
<1>2. ASSUME pc[w] = pc'[w], page'[w] = page[w], next'[w] = next[w], dto'[w] = dto[w]
      PROVE  Cardinality(page'[w]) = dto'[w].take
  BY <1>2 DEF HeldPagesAreFull
<1>3. ASSUME Begin(w) \/ FindLikes(w)
      PROVE  FALSE
  BY <1>3 DEF Begin, FindLikes, Fail, Answer, TypeOK
<1>4. CASE FindMovies(w)
  <2>1. ~ Fail(w) /\ ~ Answer(w, Movies(w), Cursor(w))
    BY DEF Fail, Answer, TypeOK
  <2> QED
    BY <1>1, <1>4, <2>1, FindCases
<1>5. ASSUME NEW v \in Walks \ {w}, Begin(v) \/ FindMovies(v) \/ FindLikes(v)
      PROVE  pc[w] = pc'[w] /\ page'[w] = page[w] /\ next'[w] = next[w] /\ dto'[w] = dto[w]
  BY <1>5, OthersStand
<1>6. CASE (\E m \in Ids : CreateMovie(m) \/ RemoveMovie(m)) \/ UNCHANGED vars
  BY <1>2, <1>6 DEF CreateMovie, RemoveMovie, vars
<1> QED
  BY <1>2, <1>3, <1>4, <1>5, <1>6 DEF Next, Step

(* A cursor comes from a page that has been answered.                      *)
LEMMA CursorsMetStep ==
  ASSUME TypeOK, PagesAreUnder, HeldPagesAreFull, CursorsAreMet, [Next]_vars
  PROVE  CursorsAreMet'
<1> SUFFICES ASSUME NEW w \in Walks, dto'[w].cursor # 0
             PROVE  dto'[w].cursor \in met'[w]
  BY DEF CursorsAreMet
<1>1. CASE met'[w] = met[w] /\ dto'[w] = dto[w]
  BY <1>1 DEF CursorsAreMet
<1>2. ASSUME NEW movies, NEW cursor, met'[w] = met[w] \cup movies, dto'[w].cursor = cursor,
             cursor # 0 => cursor \in movies
      PROVE  dto'[w].cursor \in met'[w]
  BY <1>2
<1> QED
  BY <1>1, <1>2, WalkMoves

(* A page in the default order adds as many movies as it holds.            *)
LEMMA FullStep ==
  ASSUME IInv, PagesAreUnder, HeldPagesAreFull, [Next]_vars,
         NEW w \in Walks, Default(w), AsksOn(w)
  PROVE  Cardinality(met'[w]) = Cardinality(met[w]) + dto[w].take
<1>1. PICK movies \in SUBSET Ids, cursor \in 0 .. MaxId :
        /\ met'[w] = met[w] \cup movies
        /\ Cardinality(movies) = dto[w].take
        /\ movies \cap met[w] = {}
  BY WalkMoves DEF AsksOn, IInv
<1>2. /\ IsFiniteSet(met[w]) /\ IsFiniteSet(movies)
      /\ Cardinality(met[w]) \in Nat /\ Cardinality(movies) \in Nat
  BY WalkType, MoviesFinite DEF IInv
<1>3. Cardinality(met[w] \cup movies)
        = Cardinality(met[w]) + Cardinality(movies) - Cardinality(met[w] \cap movies)
  BY <1>2, FS_Union
<1>4. met[w] \cap movies = {} /\ Cardinality({}) = 0
  BY <1>1, FS_EmptySet
<1>5. Cardinality(met[w] \cap movies) = 0
  BY <1>4
<1> QED
  BY <1>1, <1>2, <1>3, <1>5

(* What a page brings is under the cursor, which the walk has met.         *)
LEMMA DownStep ==
  ASSUME TypeOK, PagesAreUnder, HeldPagesAreFull, CursorsAreMet, [Next]_vars,
         NEW w \in Walks, dto[w].cursor # 0, NEW m \in met'[w]
  PROVE  \E t \in met[w] : m <= t
<1>1. dto[w].cursor \in met[w] /\ dto[w].cursor \in Nat
  BY WalkType DEF CursorsAreMet
<1>2. CASE m \in met[w]
  <2>1. m \in Nat
    BY <1>2, WalkType, IdsType
  <2>2. m <= m
    BY <2>1
  <2> QED
    BY <1>2, <2>2
<1>3. ASSUME NEW movies \in SUBSET Ids, met'[w] = met[w] \cup movies,
             \A x \in movies : Under(x, dto[w].cursor), m \notin met[w]
      PROVE  \E t \in met[w] : m <= t
  <2>1. m \in movies
    BY <1>3
  <2>2. m < dto[w].cursor /\ m \in Nat
    BY <1>3, <2>1, IdsType DEF Under
  <2>3. m <= dto[w].cursor
    BY <1>1, <2>2
  <2> QED
    BY <1>1, <2>3
<1> QED
  BY <1>2, <1>3, WalkMoves

(* Pages are read under their cursor, held pages are full, and cursors are *)
(* movies that were met.                                                   *)
LEMMA PagesInvariance == Spec => [](PagesAreUnder /\ HeldPagesAreFull /\ CursorsAreMet)
<1>1. Init => PagesAreUnder /\ HeldPagesAreFull /\ CursorsAreMet
  BY DEF Init, PagesAreUnder, HeldPagesAreFull, CursorsAreMet
<1>2. /\ TypeOK /\ PagesAreUnder /\ HeldPagesAreFull /\ CursorsAreMet
      /\ [Next]_vars
      => (PagesAreUnder /\ HeldPagesAreFull /\ CursorsAreMet)'
  BY UnderStep, HeldStep, CursorsMetStep
<1> QED
  BY <1>1, <1>2, TypeCorrect, PTL DEF Spec

(* Whatever is created and removed meanwhile, every page of a walk in the  *)
(* default order that is not its last has as many movies as the client     *)
(* asked for, and it has met none of them before: reading one movie ahead  *)
(* and popping it costs no movie and repeats none                          *)
(* (movie.service.ts:144-168).                                             *)
THEOREM DefaultPagesAreFull == Spec => PagesAreFull
<1>1. /\ IInv /\ PagesAreUnder /\ HeldPagesAreFull /\ CursorsAreMet
      /\ [Next]_vars
      => [\A w \in Walks : Default(w) /\ AsksOn(w) =>
            Cardinality(met'[w]) = Cardinality(met[w]) + dto[w].take]_vars
  BY FullStep
<1> QED
  BY <1>1, Invariance, PagesInvariance, PTL DEF Spec, PagesAreFull

(* In either order a walk that has a cursor meets nothing above what it    *)
(* has met: since the cursor is compared with lt whatever the order, the   *)
(* pages after the first of an ascending walk never get past that one      *)
(* (movie.service.ts:144-160).                                             *)
THEOREM WalksOnlyGoDown == Spec => WalksGoDown
<1>1. /\ TypeOK /\ PagesAreUnder /\ HeldPagesAreFull /\ CursorsAreMet
      /\ [Next]_vars
      => [\A w \in Walks : dto[w].cursor # 0 => \A m \in met'[w] : \E t \in met[w] : m <= t]_vars
  BY DownStep
<1> QED
  BY <1>1, TypeCorrect, PagesInvariance, PTL DEF Spec, WalksGoDown

(* A page in ascending order after which there is more.                    *)
AscendingAndMore(w) == dto[w].order = "id_ASC" /\ More(w) /\ dto[w].take # 0

(* It leaves out a movie of the collection above all it shows.             *)
LEMMA AscendingLeaves ==
  ASSUME TypeOK, NEW w \in Walks, AscendingAndMore(w)
  PROVE  \E m \in shelf \ Movies(w) : \A x \in Movies(w) : x < m
<1>1. /\ Movies(w) \in SUBSET Beyond(dto[w]) /\ Beyond(dto[w]) \in SUBSET Ids
      /\ Beyond(dto[w]) \in SUBSET shelf /\ dto[w].take \in Nat
  BY WalkType, MoviesType
<1>2. Movies(w) # Beyond(dto[w])
  <2>1. /\ Cardinality(Movies(w)) <= dto[w].take /\ Cardinality(Beyond(dto[w])) > dto[w].take
        /\ Cardinality(Beyond(dto[w])) \in Nat
    BY <1>1, MoviesType, MoviesFinite DEF AscendingAndMore, More
  <2> QED
    BY <1>1, <2>1
<1>3. PICK m \in Beyond(dto[w]) : m \notin Movies(w)
  BY <1>1, <1>2
<1>4. ASSUME NEW x \in Movies(w), ~ x < m
      PROVE  FALSE
  <2>1. x \in Nat /\ m \in Nat /\ x # m
    BY <1>1, <1>3, IdsType
  <2>2. Before(dto[w].order, m, x)
    BY <1>4, <2>1 DEF Before, AscendingAndMore
  <2>3. x \in First(Beyond(dto[w]), dto[w].order, dto[w].take)
    BY DEF Movies
  <2> QED
    BY <1>1, <1>3, <2>2, <2>3, FirstIsUpward DEF Movies
<1> QED
  BY <1>1, <1>3, <1>4

(* Above every such page there is a movie that is not on it.               *)
AscendingPagesLeaveMovies ==
  \A w \in Walks : AscendingAndMore(w) =>
    \E m \in shelf \ Movies(w) : \A x \in Movies(w) : x < m

(* Whenever an ascending walk is handed a cursor the collection has a      *)
(* movie above its page.  After the first page nothing above is met any    *)
(* more (WalksOnlyGoDown): an ascending walk asks on because of movies it  *)
(* will not meet (movie.service.ts:144-168).                               *)
THEOREM AscendingLeavesMovies == Spec => []AscendingPagesLeaveMovies
<1>1. TypeOK => AscendingPagesLeaveMovies
  BY AscendingLeaves DEF AscendingPagesLeaveMovies
<1> QED
  BY <1>1, TypeCorrect, PTL

=============================================================================
