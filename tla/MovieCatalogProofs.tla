------------------------- MODULE MovieCatalogProofs -------------------------
(***************************************************************************)
(* Proofs about MovieCatalog, for any requests, bodies, directors and      *)
(* genres: types, the invariant that keeps a detail under every movie, a   *)
(* title to one movie and references real, the refinement of the shelf     *)
(* of movies, what answers stand for, that removals are for good, and      *)
(* that requests wait in no circle and never go back.                      *)
(***************************************************************************)
EXTENDS MovieCatalog, FunctionTheorems, FiniteSetTheorems, TLAPS

(* The members of a body are what its DTO declares.                        *)
LEMMA BodyType ==
  /\ \A b \in CreateBodies :
       b.title \in Titles /\ b.detail \in Texts /\ b.directorId \in Directors /\ b.genreIds \in Seq(Genres)
  /\ \A b \in UpdateBodies :
       /\ b.title \in Titles \cup {Null} /\ b.detail \in Texts \cup {Null}
       /\ b.directorId \in Directors \cup {Null} /\ b.genreIds \in Seq(Genres) \cup {Null}
BY BodiesAssumption DEF CreateMovieDto, UpdateMovieDto

(* The genres of a body are genres.                                        *)
LEMMA GenreSetType ==
  ASSUME NEW ids \in Seq(Genres)
  PROVE  GenreSet(ids) \in SUBSET Genres
BY DEF GenreSet

(* Only a list without repetitions, all of whose genres are found, passes  *)
(* the comparison of lengths (332).                                        *)
LEMMA AllGenresFound ==
  ASSUME NEW ids \in Seq(Genres), NEW found \in SUBSET GenreSet(ids),
         Cardinality(found) = Len(ids)
  PROVE  found = GenreSet(ids)
<1> DEFINE D == 1 .. Len(ids)
<1>1. IsFiniteSet(D) /\ Cardinality(D) = Len(ids)
  <2>1. PICK n \in Nat : n = Len(ids)
    OBVIOUS
  <2>2. 1 \in Int /\ n \in Int
    OBVIOUS
  <2>3. IsFiniteSet(1 .. n) /\ Cardinality(1 .. n) = IF 1 > n THEN 0 ELSE n - 1 + 1
    BY <2>2, FS_Interval, Zenon
  <2> QED
    BY <2>1, <2>3
<1>2. ids \in Surjection(D, GenreSet(ids))
  BY DEF Surjection, GenreSet
<1>3. IsFiniteSet(GenreSet(ids)) /\ Cardinality(GenreSet(ids)) <= Len(ids)
  BY <1>1, <1>2, FS_Surjection
<1>4. Cardinality(found) <= Cardinality(GenreSet(ids))
  BY <1>3, FS_Subset
<1>5. Cardinality(found) = Cardinality(GenreSet(ids))
  BY <1>3, <1>4, FS_CardinalityType
<1> QED
  BY <1>3, <1>5, FS_Subset

(* What a create inserts and what an update leaves are movies, never null. *)
LEMMA InsertedType ==
  ASSUME NEW b \in CreateBodies
  PROVE  LET v == [title |-> b.title, director |-> b.directorId, genres |-> GenreSet(b.genreIds)]
         IN  v \in Movie /\ v # Null
<1>1. GenreSet(b.genreIds) \in SUBSET Genres
  BY BodyType, GenreSetType
<1> QED
  BY <1>1, BodyType, NullAssumption DEF Movie

(* A movie edited with what a body gives is a movie.                       *)
LEMMA PatchedType ==
  ASSUME NEW v \in Movie, NEW b \in UpdateBodies
  PROVE  Patched(v, b) \in Movie /\ Patched(v, b) # Null
<1>1. b.genreIds # Null => GenreSet(b.genreIds) \in SUBSET Genres
  BY BodyType, GenreSetType
<1>2. Patched(v, b) \in Movie
  BY <1>1, BodyType DEF Patched, Movie
<1> QED
  BY <1>2, NullAssumption

(* Every step keeps every variable in its range.                           *)
LEMMA TypeStep ==
  ASSUME TypeOK, PlacesAgree, DetailOutlivesMovie, [Next]_vars
  PROVE  TypeOK'
<1> USE DEF TypeOK, Running, Answered
<1>1. CASE UNCHANGED vars
  BY <1>1 DEF vars
<1>2. ASSUME NEW r \in Requests, Post(r)
      PROVE  TypeOK'
  BY <1>2 DEF Post, Arrive, To
<1>3. ASSUME NEW r \in Requests, NEW m \in Requests, Patch(r, m) \/ Delete(r, m)
      PROVE  TypeOK'
  BY <1>3 DEF Patch, Delete, Arrive, To
<1>4. ASSUME NEW r \in Requests, Step(r)
      PROVE  TypeOK'
  <2>1. CASE Find(r)
    BY <2>1 DEF Find, To, Failed
  <2>2. CASE Populate(r)
    BY <2>2 DEF Populate, To, Failed, AfterPopulate, AfterDirector, AfterGenres
  <2>3. CASE FindDirector(r)
    BY <2>3 DEF FindDirector, To, Failed, AfterDirector, AfterGenres
  <2>4. CASE FindGenres(r)
    BY <2>4 DEF FindGenres, To, Failed, AfterGenres
  <2>5. CASE CreateDetail(r)
    BY <2>5 DEF CreateDetail, To, Failed
  <2>6. CASE CreateMovie(r)
    BY <2>6 DEF CreateMovie, To, Failed
  <2>7. CASE CommitTransaction(r)
    <3>1. body[r] \in CreateBodies
      BY <2>7 DEF CommitTransaction, PlacesAgree
    <3> QED
      BY <2>7, <3>1, InsertedType, BodyType DEF CommitTransaction, Publish, To, Failed
  <2>8. CASE CommitUnacknowledged(r)
    <3>1. body[r] \in CreateBodies
      BY <2>8 DEF CommitUnacknowledged, PlacesAgree
    <3> QED
      BY <2>8, <3>1, InsertedType, BodyType DEF CommitUnacknowledged, Publish, To, Failed
  <2>9. CASE AbortTransaction(r)
    BY <2>9 DEF AbortTransaction, To, Failed
  <2>10. CASE UpdateDetail(r)
    <3>1. body[r] \in UpdateBodies /\ id[r] \in Requests
      BY <2>10 DEF UpdateDetail, PlacesAgree
    <3>2. body[r].detail \in Texts \cup {Null}
      BY <3>1, BodyType
    <3> QED
      BY <2>10, <3>1, <3>2 DEF UpdateDetail, EditDetail, To, Failed
  <2>11. CASE UpdateMovie(r)
    <3>1. body[r] \in UpdateBodies /\ id[r] \in Requests
      BY <2>11 DEF UpdateMovie, PlacesAgree
    <3>2. ASSUME movies[id[r]] # Null
          PROVE  Patched(movies[id[r]], body[r]) \in Movie
      <4>1. movies[id[r]] \in Movie
        BY <3>1, <3>2
      <4> QED
        BY <3>1, <4>1, PatchedType
    <3> QED
      BY <2>11, <3>1, <3>2 DEF UpdateMovie, EditMovie, To, Failed
  <2>12. CASE Reread(r)
    BY <2>12 DEF Reread, To, Failed
  <2>13. CASE DeleteMovie(r)
    BY <2>13 DEF DeleteMovie, To, Failed
  <2>14. CASE DeleteDetail(r)
    BY <2>14 DEF DeleteDetail, To, Failed
  <2>15. CASE ReadFails(r)
    BY <2>15 DEF ReadFails, To, Failed
  <2>16. CASE WriteRejected(r)
    <3>1. To(r, Failed(r)) /\ UNCHANGED <<directors, genres, op, id, body, sawDetail, held, made>>
      BY <2>16 DEF WriteRejected
    <3>2. CASE UNCHANGED <<movies, details, wrote>>
      BY <2>16, <3>1, <3>2 DEF WriteRejected, To, Failed
    <3>3. CASE op[r] = "update" /\ pc[r] = "detail" /\ EditDetail(r)
      <4>1. body[r] \in UpdateBodies /\ id[r] \in Requests
        BY <3>3 DEF PlacesAgree
      <4>2. body[r].detail \in Texts \cup {Null}
        BY <4>1, BodyType
      <4> QED
        BY <3>1, <3>3, <4>1, <4>2 DEF EditDetail, To, Failed
    <3>4. CASE op[r] = "update" /\ pc[r] = "movie" /\ EditMovie(r) /\ UNCHANGED <<details, wrote>>
      <4>1. body[r] \in UpdateBodies /\ id[r] \in Requests
        BY <3>4 DEF PlacesAgree
      <4>2. movies[id[r]] \in Movie
        BY <3>4, <4>1 DEF EditMovie
      <4>3. Patched(movies[id[r]], body[r]) \in Movie
        BY <4>1, <4>2, PatchedType
      <4> QED
        BY <3>1, <3>4, <4>1, <4>3 DEF EditMovie, To, Failed
    <3>5. CASE /\ pc[r] = "deleteMovie" /\ UNCHANGED <<details, wrote>>
               /\ movies' = [movies EXCEPT ![id[r]] = Null]
      BY <3>1, <3>5 DEF To, Failed
    <3>6. CASE /\ pc[r] = "deleteDetail" /\ UNCHANGED <<movies, wrote>>
               /\ details' = [details EXCEPT ![id[r]] = Null]
      BY <3>1, <3>6 DEF To, Failed
    <3> QED
      BY <2>16, <3>2, <3>3, <3>4, <3>5, <3>6 DEF WriteRejected
  <2> QED
    BY <1>4, <2>1, <2>2, <2>3, <2>4, <2>5, <2>6, <2>7, <2>8, <2>9, <2>10, <2>11, <2>12, <2>13, <2>14,
       <2>15, <2>16 DEF Step, Works, Fails
<1>5. CASE Crash
  BY <1>5 DEF Crash
<1>6. ASSUME NEW d \in Directors, DirectorChanges(d)
      PROVE  TypeOK'
  BY <1>6 DEF DirectorChanges, Pass
<1>7. ASSUME NEW g \in Genres, GenreChanges(g)
      PROVE  TypeOK'
  BY <1>7 DEF GenreChanges, Pass
<1> QED
  BY <1>1, <1>2, <1>3, <1>4, <1>5, <1>6, <1>7 DEF Next

(* Requests stay where their kind belongs.                                 *)
LEMMA PlacesStep ==
  ASSUME TypeOK, PlacesAgree, DetailOutlivesMovie, TitlesApart, [Next]_vars
  PROVE  PlacesAgree'
<1> USE DEF TypeOK, PlacesAgree, DetailOutlivesMovie, TitlesApart, Running
<1>1. CASE UNCHANGED vars
  BY <1>1 DEF vars
<1>2. ASSUME NEW r \in Requests, Post(r)
      PROVE  PlacesAgree'
  BY <1>2, BodyType, NullAssumption DEF Post, Arrive, To
<1>3. ASSUME NEW r \in Requests, NEW m \in Requests, Patch(r, m) \/ Delete(r, m)
      PROVE  PlacesAgree'
  BY <1>3 DEF Patch, Delete, Arrive, To
<1>4. ASSUME NEW r \in Requests, Step(r)
      PROVE  PlacesAgree'
  <2>1. CASE Find(r)
    BY <2>1 DEF Find, To, Failed
  <2>2. CASE Populate(r)
    BY <2>2 DEF Populate, To, Failed, AfterPopulate, AfterDirector, AfterGenres
  <2>3. CASE FindDirector(r)
    BY <2>3 DEF FindDirector, To, Failed, AfterDirector, AfterGenres
  <2>4. CASE FindGenres(r)
    BY <2>4 DEF FindGenres, To, Failed, AfterGenres
  <2>5. CASE CreateDetail(r)
    BY <2>5 DEF CreateDetail, To, Failed
  <2>6. CASE CreateMovie(r)
    BY <2>6 DEF CreateMovie, To, Failed
  <2>7. CASE CommitTransaction(r)
    BY <2>7 DEF CommitTransaction, To, Failed, Publish
  <2>8. CASE CommitUnacknowledged(r)
    BY <2>8 DEF CommitUnacknowledged, To, Failed, Publish
  <2>9. CASE AbortTransaction(r)
    BY <2>9 DEF AbortTransaction, To, Failed
  <2>10. CASE UpdateDetail(r)
    BY <2>10 DEF UpdateDetail, EditDetail, To, Failed
  <2>11. CASE UpdateMovie(r)
    BY <2>11 DEF UpdateMovie, EditMovie, To, Failed
  <2>12. CASE Reread(r)
    BY <2>12 DEF Reread, To, Failed
  <2>13. CASE DeleteMovie(r)
    BY <2>13 DEF DeleteMovie, To, Failed
  <2>14. CASE DeleteDetail(r)
    BY <2>14 DEF DeleteDetail, To, Failed
  <2>15. CASE ReadFails(r)
    BY <2>15 DEF ReadFails, To, Failed
  <2>16. CASE WriteRejected(r)
    BY <2>16 DEF WriteRejected, EditDetail, EditMovie, To, Failed
  <2> QED
    BY <1>4, <2>1, <2>2, <2>3, <2>4, <2>5, <2>6, <2>7, <2>8, <2>9, <2>10, <2>11, <2>12, <2>13, <2>14,
       <2>15, <2>16 DEF Step, Works, Fails
<1>5. CASE Crash
  BY <1>5 DEF Crash
<1>6. ASSUME NEW d \in Directors, DirectorChanges(d)
      PROVE  PlacesAgree'
  BY <1>6 DEF DirectorChanges, Pass
<1>7. ASSUME NEW g \in Genres, GenreChanges(g)
      PROVE  PlacesAgree'
  BY <1>7 DEF GenreChanges, Pass
<1> QED
  BY <1>1, <1>2, <1>3, <1>4, <1>5, <1>6, <1>7 DEF Next

(* No step takes the detail from under a movie.                            *)
LEMMA DetailStep ==
  ASSUME TypeOK, PlacesAgree, DetailOutlivesMovie, TitlesApart, [Next]_vars
  PROVE  DetailOutlivesMovie'
<1> USE DEF TypeOK, PlacesAgree, DetailOutlivesMovie, Running
<1>1. CASE UNCHANGED vars
  BY <1>1 DEF vars
<1>2. ASSUME NEW r \in Requests, Post(r)
      PROVE  DetailOutlivesMovie'
  BY <1>2 DEF Post, Arrive, To
<1>3. ASSUME NEW r \in Requests, NEW m \in Requests, Patch(r, m) \/ Delete(r, m)
      PROVE  DetailOutlivesMovie'
  BY <1>3 DEF Patch, Delete, Arrive, To
<1>4. ASSUME NEW r \in Requests, Step(r)
      PROVE  DetailOutlivesMovie'
  <2>1. CASE Find(r)
    BY <2>1 DEF Find, To, Failed
  <2>2. CASE Populate(r)
    BY <2>2 DEF Populate, To, Failed, AfterPopulate, AfterDirector, AfterGenres
  <2>3. CASE FindDirector(r)
    BY <2>3 DEF FindDirector, To, Failed, AfterDirector, AfterGenres
  <2>4. CASE FindGenres(r)
    BY <2>4 DEF FindGenres, To, Failed, AfterGenres
  <2>5. CASE CreateDetail(r)
    BY <2>5 DEF CreateDetail, To, Failed
  <2>6. CASE CreateMovie(r)
    BY <2>6 DEF CreateMovie, To, Failed
  <2>7. CASE CommitTransaction(r)
    <3>1. body[r].detail # Null
      BY <2>7, BodyType, NullAssumption DEF CommitTransaction
    <3> QED
      BY <2>7, <3>1 DEF CommitTransaction, Publish, To, Failed
  <2>8. CASE CommitUnacknowledged(r)
    <3>1. body[r].detail # Null
      BY <2>8, BodyType, NullAssumption DEF CommitUnacknowledged
    <3> QED
      BY <2>8, <3>1 DEF CommitUnacknowledged, Publish, To, Failed
  <2>9. CASE AbortTransaction(r)
    BY <2>9 DEF AbortTransaction, To, Failed
  <2>10. CASE UpdateDetail(r)
    BY <2>10 DEF UpdateDetail, EditDetail, To, Failed
  <2>11. CASE UpdateMovie(r)
    BY <2>11 DEF UpdateMovie, EditMovie, To, Failed
  <2>12. CASE Reread(r)
    BY <2>12 DEF Reread, To, Failed
  <2>13. CASE DeleteMovie(r)
    BY <2>13 DEF DeleteMovie, To, Failed
  <2>14. CASE DeleteDetail(r)
    BY <2>14 DEF DeleteDetail, To, Failed
  <2>15. CASE ReadFails(r)
    BY <2>15 DEF ReadFails, To, Failed
  <2>16. CASE WriteRejected(r)
    BY <2>16 DEF WriteRejected, EditDetail, EditMovie, To, Failed
  <2> QED
    BY <1>4, <2>1, <2>2, <2>3, <2>4, <2>5, <2>6, <2>7, <2>8, <2>9, <2>10, <2>11, <2>12, <2>13, <2>14,
       <2>15, <2>16 DEF Step, Works, Fails
<1>5. CASE Crash
  BY <1>5 DEF Crash
<1>6. ASSUME NEW d \in Directors, DirectorChanges(d)
      PROVE  DetailOutlivesMovie'
  BY <1>6 DEF DirectorChanges, Pass
<1>7. ASSUME NEW g \in Genres, GenreChanges(g)
      PROVE  DetailOutlivesMovie'
  BY <1>7 DEF GenreChanges, Pass
<1> QED
  BY <1>1, <1>2, <1>3, <1>4, <1>5, <1>6, <1>7 DEF Next

(* No step gives one title to two movies.                                  *)
LEMMA TitlesStep ==
  ASSUME TypeOK, PlacesAgree, DetailOutlivesMovie, TitlesApart, [Next]_vars
  PROVE  TitlesApart'
<1> USE DEF TypeOK, PlacesAgree, TitlesApart, TakenBy, Holds, Running
<1>1. CASE UNCHANGED vars
  BY <1>1 DEF vars
<1>2. ASSUME NEW r \in Requests, Post(r)
      PROVE  TitlesApart'
  BY <1>2 DEF Post, Arrive, To
<1>3. ASSUME NEW r \in Requests, NEW m \in Requests, Patch(r, m) \/ Delete(r, m)
      PROVE  TitlesApart'
  BY <1>3 DEF Patch, Delete, Arrive, To
<1>4. ASSUME NEW r \in Requests, Step(r)
      PROVE  TitlesApart'
  <2>1. CASE Find(r)
    BY <2>1 DEF Find, To, Failed
  <2>2. CASE Populate(r)
    BY <2>2 DEF Populate, To, Failed, AfterPopulate, AfterDirector, AfterGenres
  <2>3. CASE FindDirector(r)
    BY <2>3 DEF FindDirector, To, Failed, AfterDirector, AfterGenres
  <2>4. CASE FindGenres(r)
    BY <2>4 DEF FindGenres, To, Failed, AfterGenres
  <2>5. CASE CreateDetail(r)
    BY <2>5 DEF CreateDetail, To, Failed
  <2>6. CASE CreateMovie(r)
    BY <2>6 DEF CreateMovie, To, Failed
  <2>7. CASE CommitTransaction(r)
    BY <2>7 DEF CommitTransaction, To, Failed, Publish
  <2>8. CASE CommitUnacknowledged(r)
    BY <2>8 DEF CommitUnacknowledged, To, Failed, Publish
  <2>9. CASE AbortTransaction(r)
    BY <2>9 DEF AbortTransaction, To, Failed
  <2>10. CASE UpdateDetail(r)
    BY <2>10 DEF UpdateDetail, EditDetail, To, Failed
  <2>11. CASE UpdateMovie(r)
    BY <2>11 DEF UpdateMovie, EditMovie, To, Failed, Patched
  <2>12. CASE Reread(r)
    BY <2>12 DEF Reread, To, Failed
  <2>13. CASE DeleteMovie(r)
    BY <2>13 DEF DeleteMovie, To, Failed
  <2>14. CASE DeleteDetail(r)
    BY <2>14 DEF DeleteDetail, To, Failed
  <2>15. CASE ReadFails(r)
    BY <2>15 DEF ReadFails, To, Failed
  <2>16. CASE WriteRejected(r)
    <3>1. To(r, Failed(r)) /\ UNCHANGED <<directors, genres, op, id, body, sawDetail, held, made>>
      BY <2>16 DEF WriteRejected
    <3>2. CASE UNCHANGED <<movies, details, wrote>>
      BY <2>16, <3>1, <3>2 DEF WriteRejected, To, Failed
    <3>3. CASE op[r] = "update" /\ pc[r] = "detail" /\ EditDetail(r)
      BY <3>1, <3>3 DEF EditDetail, To, Failed
    <3>4. CASE op[r] = "update" /\ pc[r] = "movie" /\ EditMovie(r) /\ UNCHANGED <<details, wrote>>
      BY <3>1, <3>4 DEF EditMovie, To, Failed, Patched
    <3>5. CASE /\ pc[r] = "deleteMovie" /\ UNCHANGED <<details, wrote>>
               /\ movies' = [movies EXCEPT ![id[r]] = Null]
      BY <3>1, <3>5 DEF To, Failed
    <3>6. CASE /\ pc[r] = "deleteDetail" /\ UNCHANGED <<movies, wrote>>
               /\ details' = [details EXCEPT ![id[r]] = Null]
      BY <3>1, <3>6 DEF To, Failed
    <3> QED
      BY <2>16, <3>2, <3>3, <3>4, <3>5, <3>6 DEF WriteRejected
  <2> QED
    BY <1>4, <2>1, <2>2, <2>3, <2>4, <2>5, <2>6, <2>7, <2>8, <2>9, <2>10, <2>11, <2>12, <2>13, <2>14,
       <2>15, <2>16 DEF Step, Works, Fails
<1>5. CASE Crash
  BY <1>5 DEF Crash
<1>6. ASSUME NEW d \in Directors, DirectorChanges(d)
      PROVE  TitlesApart'
  BY <1>6 DEF DirectorChanges, Pass
<1>7. ASSUME NEW g \in Genres, GenreChanges(g)
      PROVE  TitlesApart'
  BY <1>7 DEF GenreChanges, Pass
<1> QED
  BY <1>1, <1>2, <1>3, <1>4, <1>5, <1>6, <1>7 DEF Next

(* What a request has checked was there, and nothing becomes new again.    *)
LEMMA ChecksStep ==
  ASSUME TypeOK, PlacesAgree, ChecksStand, [Next]_vars
  PROVE  ChecksStand'
<1> USE DEF TypeOK, PlacesAgree, ChecksStand, Running
<1>1. CASE UNCHANGED vars
  BY <1>1 DEF vars
<1>2. ASSUME NEW r \in Requests, Post(r)
      PROVE  ChecksStand'
  BY <1>2 DEF Post, Arrive, To
<1>3. ASSUME NEW r \in Requests, NEW m \in Requests, Patch(r, m) \/ Delete(r, m)
      PROVE  ChecksStand'
  BY <1>3 DEF Patch, Delete, Arrive, To
<1>4. ASSUME NEW r \in Requests, Step(r)
      PROVE  ChecksStand'
  <2>1. CASE Find(r)
    BY <2>1 DEF Find, To, Failed
  <2>2. CASE Populate(r)
    BY <2>2 DEF Populate, To, AfterPopulate, AfterDirector, AfterGenres
  <2>3. CASE FindDirector(r)
    <3>1. body[r].directorId \in Directors
      BY <2>3, BodyType DEF FindDirector
    <3> QED
      BY <2>3, <3>1 DEF FindDirector, To, AfterDirector, AfterGenres, Failed
  <2>4. CASE FindGenres(r)
    <3> DEFINE found == {g \in GenreSet(body[r].genreIds) : genres[g] = "here"}
    <3>1. body[r].genreIds \in Seq(Genres)
      BY <2>4, BodyType DEF FindGenres
    <3>2. CASE Cardinality(found) = Len(body[r].genreIds)
      <4>1. found \in SUBSET GenreSet(body[r].genreIds)
        OBVIOUS
      <4>2. found = GenreSet(body[r].genreIds)
        BY <3>1, <3>2, <4>1, AllGenresFound
      <4>3. \A g \in GenreSet(body[r].genreIds) : genres[g] # "new"
        BY <4>2
      <4> QED
        BY <2>4, <4>3 DEF FindGenres, To, AfterGenres, Failed
    <3>3. CASE Cardinality(found) # Len(body[r].genreIds)
      BY <2>4, <3>3 DEF FindGenres, To, Failed
    <3> QED
      BY <3>2, <3>3
  <2>5. CASE CreateDetail(r)
    BY <2>5 DEF CreateDetail, To, Failed
  <2>6. CASE CreateMovie(r)
    BY <2>6 DEF CreateMovie, To, Failed
  <2>7. CASE CommitTransaction(r)
    BY <2>7 DEF CommitTransaction, To, Failed, Publish
  <2>8. CASE CommitUnacknowledged(r)
    BY <2>8 DEF CommitUnacknowledged, To, Failed, Publish
  <2>9. CASE AbortTransaction(r)
    BY <2>9 DEF AbortTransaction, To, Failed
  <2>10. CASE UpdateDetail(r)
    BY <2>10 DEF UpdateDetail, EditDetail, To, Failed
  <2>11. CASE UpdateMovie(r)
    BY <2>11 DEF UpdateMovie, EditMovie, To, Failed
  <2>12. CASE Reread(r)
    BY <2>12 DEF Reread, To, Failed
  <2>13. CASE DeleteMovie(r)
    BY <2>13 DEF DeleteMovie, To, Failed
  <2>14. CASE DeleteDetail(r)
    BY <2>14 DEF DeleteDetail, To, Failed
  <2>15. CASE ReadFails(r)
    BY <2>15 DEF ReadFails, To, Failed
  <2>16. CASE WriteRejected(r)
    BY <2>16 DEF WriteRejected, EditDetail, EditMovie, To, Failed
  <2> QED
    BY <1>4, <2>1, <2>2, <2>3, <2>4, <2>5, <2>6, <2>7, <2>8, <2>9, <2>10, <2>11, <2>12, <2>13, <2>14,
       <2>15, <2>16 DEF Step, Works, Fails
<1>5. CASE Crash
  BY <1>5 DEF Crash
<1>6. ASSUME NEW d \in Directors, DirectorChanges(d)
      PROVE  ChecksStand'
  <2>1. directors'[d] # "new" /\ \A e \in Directors \ {d} : directors'[e] = directors[e]
    BY <1>6 DEF DirectorChanges, Pass
  <2>2. \A r \in Requests : body[r].directorId \in Directors \cup {Null} \/ body[r] = Null
    BY BodyType
  <2> QED
    BY <1>6, <2>1, <2>2, BodyType DEF DirectorChanges
<1>7. ASSUME NEW g \in Genres, GenreChanges(g)
      PROVE  ChecksStand'
  <2>1. genres'[g] # "new" /\ \A e \in Genres \ {g} : genres'[e] = genres[e]
    BY <1>7 DEF GenreChanges, Pass
  <2>2. ASSUME NEW r \in Requests, pc[r] \in {"detail", "movie", "commit"},
               body[r].genreIds # Null
        PROVE  GenreSet(body[r].genreIds) \subseteq Genres
    <3>1. body[r].genreIds \in Seq(Genres)
      BY <2>2, BodyType
    <3> QED
      BY <3>1, GenreSetType
  <2> QED
    BY <1>7, <2>1, <2>2 DEF GenreChanges
<1> QED
  BY <1>1, <1>2, <1>3, <1>4, <1>5, <1>6, <1>7 DEF Next

(* A movie written refers to what was checked.                             *)
LEMMA ReferencesStep ==
  ASSUME TypeOK, PlacesAgree, ChecksStand, ReferencesWereReal, [Next]_vars
  PROVE  ReferencesWereReal'
<1> USE DEF TypeOK, PlacesAgree, ChecksStand, ReferencesWereReal, Running
<1>1. CASE UNCHANGED vars
  BY <1>1 DEF vars
<1>2. ASSUME NEW r \in Requests, Post(r)
      PROVE  ReferencesWereReal'
  BY <1>2 DEF Post, Arrive, To
<1>3. ASSUME NEW r \in Requests, NEW m \in Requests, Patch(r, m) \/ Delete(r, m)
      PROVE  ReferencesWereReal'
  BY <1>3 DEF Patch, Delete, Arrive, To
<1>4. ASSUME NEW r \in Requests, Step(r)
      PROVE  ReferencesWereReal'
  <2>1. CASE Find(r)
    BY <2>1 DEF Find, To, Failed
  <2>2. CASE Populate(r)
    BY <2>2 DEF Populate, To, Failed, AfterPopulate, AfterDirector, AfterGenres
  <2>3. CASE FindDirector(r)
    BY <2>3 DEF FindDirector, To, Failed, AfterDirector, AfterGenres
  <2>4. CASE FindGenres(r)
    BY <2>4 DEF FindGenres, To, Failed, AfterGenres
  <2>5. CASE CreateDetail(r)
    BY <2>5 DEF CreateDetail, To, Failed
  <2>6. CASE CreateMovie(r)
    BY <2>6 DEF CreateMovie, To, Failed
  <2>7. CASE CommitTransaction(r)
    <3>1. body[r] \in CreateBodies /\ body[r].genreIds # Null /\ body[r].directorId # Null
      BY <2>7, BodyType, NullAssumption DEF CommitTransaction
    <3> QED
      BY <2>7, <3>1 DEF CommitTransaction, Publish, To, Movie
  <2>8. CASE CommitUnacknowledged(r)
    <3>1. body[r] \in CreateBodies /\ body[r].genreIds # Null /\ body[r].directorId # Null
      BY <2>8, BodyType, NullAssumption DEF CommitUnacknowledged
    <3> QED
      BY <2>8, <3>1 DEF CommitUnacknowledged, Publish, To, Movie
  <2>9. CASE AbortTransaction(r)
    BY <2>9 DEF AbortTransaction, To, Failed
  <2>10. CASE UpdateDetail(r)
    BY <2>10 DEF UpdateDetail, EditDetail, To, Failed
  <2>11. CASE UpdateMovie(r)
    BY <2>11, BodyType DEF UpdateMovie, EditMovie, Patched, Movie
  <2>12. CASE Reread(r)
    BY <2>12 DEF Reread, To, Failed
  <2>13. CASE DeleteMovie(r)
    BY <2>13 DEF DeleteMovie, To, Failed
  <2>14. CASE DeleteDetail(r)
    BY <2>14 DEF DeleteDetail, To, Failed
  <2>15. CASE ReadFails(r)
    BY <2>15 DEF ReadFails, To, Failed
  <2>16. CASE WriteRejected(r)
    <3>1. To(r, Failed(r)) /\ UNCHANGED <<directors, genres, op, id, body, sawDetail, held, made>>
      BY <2>16 DEF WriteRejected
    <3>2. CASE UNCHANGED <<movies, details, wrote>>
      BY <2>16, <3>1, <3>2 DEF WriteRejected, To, Failed
    <3>3. CASE op[r] = "update" /\ pc[r] = "detail" /\ EditDetail(r)
      BY <3>1, <3>3 DEF EditDetail, To, Failed
    <3>4. CASE op[r] = "update" /\ pc[r] = "movie" /\ EditMovie(r) /\ UNCHANGED <<details, wrote>>
      BY <3>1, <3>4, BodyType DEF EditMovie, To, Failed, Patched, Movie
    <3>5. CASE /\ pc[r] = "deleteMovie" /\ UNCHANGED <<details, wrote>>
               /\ movies' = [movies EXCEPT ![id[r]] = Null]
      BY <3>1, <3>5 DEF To, Failed
    <3>6. CASE /\ pc[r] = "deleteDetail" /\ UNCHANGED <<movies, wrote>>
               /\ details' = [details EXCEPT ![id[r]] = Null]
      BY <3>1, <3>6 DEF To, Failed
    <3> QED
      BY <2>16, <3>2, <3>3, <3>4, <3>5, <3>6 DEF WriteRejected
  <2> QED
    BY <1>4, <2>1, <2>2, <2>3, <2>4, <2>5, <2>6, <2>7, <2>8, <2>9, <2>10, <2>11, <2>12, <2>13, <2>14,
       <2>15, <2>16 DEF Step, Works, Fails
<1>5. CASE Crash
  BY <1>5 DEF Crash
<1>6. ASSUME NEW d \in Directors, DirectorChanges(d)
      PROVE  ReferencesWereReal'
  <2>1. directors'[d] # "new" /\ \A e \in Directors \ {d} : directors'[e] = directors[e]
    BY <1>6 DEF DirectorChanges, Pass
  <2> QED
    BY <1>6, <2>1 DEF DirectorChanges, Movie
<1>7. ASSUME NEW g \in Genres, GenreChanges(g)
      PROVE  ReferencesWereReal'
  <2>1. genres'[g] # "new" /\ \A e \in Genres \ {g} : genres'[e] = genres[e]
    BY <1>7 DEF GenreChanges, Pass
  <2> QED
    BY <1>7, <2>1 DEF GenreChanges, Movie
<1> QED
  BY <1>1, <1>2, <1>3, <1>4, <1>5, <1>6, <1>7 DEF Next

(* Only a removal, running, failed or lost, leaves a detail without a      *)
(* movie.                                                                  *)
LEMMA OrphansStep ==
  ASSUME TypeOK, PlacesAgree, DetailOutlivesMovie, OrphansAreRemovals, [Next]_vars
  PROVE  OrphansAreRemovals'
<1> USE DEF TypeOK, PlacesAgree, DetailOutlivesMovie, OrphansAreRemovals, Running
<1>1. CASE UNCHANGED vars
  BY <1>1 DEF vars
<1>2. ASSUME NEW r \in Requests, Post(r)
      PROVE  OrphansAreRemovals'
  BY <1>2 DEF Post, Arrive, To
<1>3. ASSUME NEW r \in Requests, NEW m \in Requests, Patch(r, m) \/ Delete(r, m)
      PROVE  OrphansAreRemovals'
  BY <1>3 DEF Patch, Delete, Arrive, To
<1>4. ASSUME NEW r \in Requests, Step(r)
      PROVE  OrphansAreRemovals'
  <2>1. CASE Find(r)
    BY <2>1 DEF Find, To, Failed
  <2>2. CASE Populate(r)
    BY <2>2 DEF Populate, To, Failed, AfterPopulate, AfterDirector, AfterGenres
  <2>3. CASE FindDirector(r)
    BY <2>3 DEF FindDirector, To, Failed, AfterDirector, AfterGenres
  <2>4. CASE FindGenres(r)
    BY <2>4 DEF FindGenres, To, Failed, AfterGenres
  <2>5. CASE CreateDetail(r)
    BY <2>5 DEF CreateDetail, To, Failed
  <2>6. CASE CreateMovie(r)
    BY <2>6 DEF CreateMovie, To, Failed
  <2>7. CASE CommitTransaction(r)
    <3>1. body[r] \in CreateBodies
      BY <2>7 DEF CommitTransaction
    <3>2. movies'[r] # Null
      BY <2>7, <3>1, InsertedType DEF CommitTransaction, Publish
    <3> QED
      BY <2>7, <3>2 DEF CommitTransaction, Publish, To, Failed
  <2>8. CASE CommitUnacknowledged(r)
    <3>1. body[r] \in CreateBodies
      BY <2>8 DEF CommitUnacknowledged
    <3>2. movies'[r] # Null
      BY <2>8, <3>1, InsertedType DEF CommitUnacknowledged, Publish
    <3> QED
      BY <2>8, <3>2 DEF CommitUnacknowledged, Publish, To, Failed
  <2>9. CASE AbortTransaction(r)
    BY <2>9 DEF AbortTransaction, To, Failed
  <2>10. CASE UpdateDetail(r)
    BY <2>10 DEF UpdateDetail, EditDetail, To, Failed
  <2>11. CASE UpdateMovie(r)
    <3>1. body[r] \in UpdateBodies /\ id[r] \in Requests
      BY <2>11 DEF UpdateMovie, EditMovie
    <3>2. movies[id[r]] # Null => movies'[id[r]] # Null
      BY <2>11, <3>1, PatchedType DEF UpdateMovie, EditMovie
    <3> QED
      BY <2>11, <3>1, <3>2 DEF UpdateMovie, EditMovie, To, Failed
  <2>12. CASE Reread(r)
    BY <2>12 DEF Reread, To, Failed
  <2>13. CASE DeleteMovie(r)
    BY <2>13 DEF DeleteMovie, To, Failed
  <2>14. CASE DeleteDetail(r)
    BY <2>14 DEF DeleteDetail, To, Failed
  <2>15. CASE ReadFails(r)
    BY <2>15 DEF ReadFails, To, Failed
  <2>16. CASE WriteRejected(r)
    <3>1. To(r, Failed(r)) /\ UNCHANGED <<directors, genres, op, id, body, sawDetail, held, made>>
      BY <2>16 DEF WriteRejected
    <3>2. CASE UNCHANGED <<movies, details, wrote>>
      BY <2>16, <3>1, <3>2 DEF WriteRejected, To, Failed
    <3>3. CASE op[r] = "update" /\ pc[r] = "detail" /\ EditDetail(r)
      BY <3>1, <3>3 DEF EditDetail, To, Failed
    <3>4. CASE op[r] = "update" /\ pc[r] = "movie" /\ EditMovie(r) /\ UNCHANGED <<details, wrote>>
      <4>1. body[r] \in UpdateBodies /\ id[r] \in Requests
        BY <3>4 DEF PlacesAgree
      <4>2. movies'[id[r]] # Null
        BY <3>4, <4>1, PatchedType DEF EditMovie
      <4> QED
        BY <3>1, <3>4, <4>1, <4>2 DEF EditMovie, To, Failed
    <3>5. CASE /\ pc[r] = "deleteMovie" /\ UNCHANGED <<details, wrote>>
               /\ movies' = [movies EXCEPT ![id[r]] = Null]
      BY <3>1, <3>5 DEF To, Failed
    <3>6. CASE /\ pc[r] = "deleteDetail" /\ UNCHANGED <<movies, wrote>>
               /\ details' = [details EXCEPT ![id[r]] = Null]
      BY <3>1, <3>6 DEF To, Failed
    <3> QED
      BY <2>16, <3>2, <3>3, <3>4, <3>5, <3>6 DEF WriteRejected
  <2> QED
    BY <1>4, <2>1, <2>2, <2>3, <2>4, <2>5, <2>6, <2>7, <2>8, <2>9, <2>10, <2>11, <2>12, <2>13, <2>14,
       <2>15, <2>16 DEF Step, Works, Fails
<1>5. CASE Crash
  BY <1>5 DEF Crash
<1>6. ASSUME NEW d \in Directors, DirectorChanges(d)
      PROVE  OrphansAreRemovals'
  BY <1>6 DEF DirectorChanges, Pass
<1>7. ASSUME NEW g \in Genres, GenreChanges(g)
      PROVE  OrphansAreRemovals'
  BY <1>7 DEF GenreChanges, Pass
<1> QED
  BY <1>1, <1>2, <1>3, <1>4, <1>5, <1>6, <1>7 DEF Next

-----------------------------------------------------------------------------
IInv == TypeOK /\ CatalogInv /\ ReferencesWereReal /\ OrphansAreRemovals

(* All the parts hold together, from the empty collections on.             *)
LEMMA Invariance == Spec => []IInv
<1>1. Init => IInv
  <2> SUFFICES ASSUME Init PROVE IInv
    OBVIOUS
  <2>1. TypeOK
    BY DEF Init, TypeOK, Running, Answered
  <2>2. CatalogInv
    BY DEF Init, CatalogInv, PlacesAgree, DetailOutlivesMovie, TitlesApart, ChecksStand, Running
  <2>3. ReferencesWereReal /\ OrphansAreRemovals
    BY DEF Init, ReferencesWereReal, OrphansAreRemovals
  <2> QED
    BY <2>1, <2>2, <2>3 DEF IInv
<1>2. IInv /\ [Next]_vars => IInv'
  <2> SUFFICES ASSUME IInv, [Next]_vars PROVE IInv'
    OBVIOUS
  <2> USE DEF IInv, CatalogInv
  <2>1. TypeOK' /\ PlacesAgree' /\ DetailOutlivesMovie' /\ TitlesApart'
    BY TypeStep, PlacesStep, DetailStep, TitlesStep
  <2>2. ChecksStand' /\ ReferencesWereReal' /\ OrphansAreRemovals'
    BY ChecksStep, ReferencesStep, OrphansStep
  <2> QED
    BY <2>1, <2>2
<1> QED
  BY <1>1, <1>2, PTL DEF Spec

(* The three operations keep every variable in its range.                  *)
THEOREM TypeCorrect == Spec => []TypeOK
BY Invariance, PTL DEF IInv

(* Every movie has its detail and a title of its own, whatever requests    *)
(* overlap and wherever the process exits (316-376, 504-568, 768-805).     *)
THEOREM CatalogHolds == Spec => []CatalogInv
BY Invariance, PTL DEF IInv

(* Whatever MongoDB rejects and wherever the process exits, only removals  *)
(* leave details behind, at 789-790, never a failed create (336-376) nor a *)
(* late update (551-557).                                                  *)
THEOREM NoOtherOrphans == Spec => []OrphansAreRemovals
BY Invariance, PTL DEF IInv

(* No movie refers to a director or genre that never was (322-334).        *)
THEOREM ReferencesAreReal == Spec => []ReferencesWereReal
BY Invariance, PTL DEF IInv

-----------------------------------------------------------------------------
(* Writing one movie changes one place of the shelf.                       *)
LEMMA OneEntryChanges ==
  ASSUME NEW m \in Requests,
         \A n \in Requests \ {m} : movies'[n] = movies[n] /\ details'[n] = details[n]
  PROVE  ShelfBar' = [ShelfBar EXCEPT ![m] = EntryOf(m)']
<1>1. \A n \in Requests \ {m} : EntryOf(n)' = EntryOf(n)
  BY DEF EntryOf
<1> QED
  BY <1>1 DEF ShelfBar

(* Committing a create publishes a new entry under a free title.           *)
LEMMA PublishStep ==
  ASSUME IInv, NEW r \in Requests, pc[r] = "commit", Publish(r)
  PROVE  Shelf!Publish(r)
<1> USE DEF IInv, CatalogInv, TypeOK
<1> DEFINE b == body[r]
           e == [title |-> b.title, director |-> b.directorId,
                 genres |-> GenreSet(b.genreIds), detail |-> b.detail]
<1>1. b \in CreateBodies /\ r \notin made /\ r \in held
  BY DEF PlacesAgree, TitlesApart, Running
<1>2. e \in Shelf!Entry
  BY <1>1, BodyType, GenreSetType DEF Shelf!Entry
<1>3. /\ movies' = [movies EXCEPT ![r] = [title |-> b.title, director |-> b.directorId,
                                           genres |-> GenreSet(b.genreIds)]]
      /\ details' = [details EXCEPT ![r] = b.detail]
      /\ made' = made \cup {r}
  BY DEF Publish
<1>4. EntryOf(r)' = e
  BY <1>1, <1>3, InsertedType DEF EntryOf
<1>5. ShelfBar' = [ShelfBar EXCEPT ![r] = e]
  BY <1>3, <1>4, OneEntryChanges
<1>6. Shelf!TitleFree(r, e.title)
  BY <1>1 DEF Shelf!TitleFree, ShelfBar, EntryOf, TitlesApart, TakenBy
<1> QED
  BY <1>1, <1>2, <1>3, <1>5, <1>6 DEF Shelf!Publish

(* An update's first write is an edit, or nothing where the movie is gone. *)
LEMMA EditDetailStep ==
  ASSUME IInv, NEW r \in Requests, op[r] = "update", pc[r] = "detail",
         EditDetail(r), made' = made
  PROVE  Shelf!Edit(id[r]) \/ UNCHANGED <<ShelfBar, made>>
<1> USE DEF IInv, CatalogInv, TypeOK
<1> PICK m : m = id[r]
  OBVIOUS
<1>1. m \in Requests /\ body[r] \in UpdateBodies /\ body[r].detail # Null
  BY DEF PlacesAgree
<1>2. movies' = movies /\ made' = made
  BY DEF EditDetail
<1>3. \A n \in Requests \ {m} : details'[n] = details[n]
  BY DEF EditDetail
<1>4. ShelfBar' = [ShelfBar EXCEPT ![m] = EntryOf(m)']
  BY <1>1, <1>2, <1>3, OneEntryChanges
<1>5. CASE movies[m] = Null \/ details' = details
  <2>1. EntryOf(m)' = EntryOf(m)
    BY <1>2, <1>5 DEF EntryOf
  <2>2. \A n \in Requests : EntryOf(n)' = EntryOf(n)
    BY <1>2, <1>3, <2>1 DEF EntryOf
  <2>3. ShelfBar' = ShelfBar
    BY <2>2 DEF ShelfBar
  <2> QED
    BY <1>2, <2>3
<1>6. CASE movies[m] # Null /\ details' # details
  <2> DEFINE e == [title |-> movies[m].title, director |-> movies[m].director,
                   genres |-> movies[m].genres, detail |-> body[r].detail]
             o == [title |-> movies[m].title, director |-> movies[m].director,
                   genres |-> movies[m].genres, detail |-> details[m]]
  <2>1. movies[m] \in Movie /\ details[m] \in Texts
    BY <1>1, <1>6, NullAssumption DEF DetailOutlivesMovie
  <2>2. details'[m] = body[r].detail
    BY <1>1, <1>6, <2>1, NullAssumption DEF EditDetail
  <2>3. EntryOf(m)' = e /\ ShelfBar[m] = o
    BY <1>1, <1>2, <1>6, <2>2 DEF EntryOf, ShelfBar
  <2>4. o \in Shelf!Entry /\ e \in Shelf!Entry
    BY <1>1, <2>1, BodyType DEF Movie, Shelf!Entry
  <2>5. ShelfBar[m] # Null
    BY <2>3, <2>4, NullAssumption DEF Shelf!Entry
  <2>6. Shelf!TitleFree(m, e.title)
    BY <1>1, <1>6 DEF Shelf!TitleFree, ShelfBar, EntryOf, TitlesApart
  <2>7. ShelfBar' = [ShelfBar EXCEPT ![m] = e]
    BY <1>4, <2>3
  <2>8. /\ e.title = ShelfBar[m].title /\ e.director = ShelfBar[m].director
        /\ e.genres = ShelfBar[m].genres
    BY <2>3
  <2> HIDE DEF e, o
  <2> QED
    BY <1>2, <2>4, <2>5, <2>6, <2>7, <2>8 DEF Shelf!Edit
<1> QED
  BY <1>5, <1>6

(* The second write of an update edits the movie on the shelf.             *)
LEMMA EditMovieStep ==
  ASSUME IInv, NEW r \in Requests, op[r] = "update", pc[r] = "movie",
         EditMovie(r), details' = details, made' = made
  PROVE  Shelf!Edit(id[r])
<1> USE DEF IInv, CatalogInv, TypeOK
<1> PICK m : m = id[r]
  OBVIOUS
<1> PICK b : b = body[r]
  OBVIOUS
<1>0. m \in Requests /\ b \in UpdateBodies
  BY DEF PlacesAgree
<1>1. /\ movies[m] # Null /\ movies' = [movies EXCEPT ![m] = Patched(movies[m], b)]
      /\ \A q \in Requests \ {m} : ~ TakenBy(q, b.title)
  BY DEF EditMovie
<1> DEFINE v == Patched(movies[m], b)
           e == [title |-> v.title, director |-> v.director,
                 genres |-> v.genres, detail |-> details[m]]
           o == [title |-> movies[m].title, director |-> movies[m].director,
                 genres |-> movies[m].genres, detail |-> details[m]]
<1>2. movies[m] \in Movie /\ details[m] \in Texts
  BY <1>0, <1>1, NullAssumption DEF DetailOutlivesMovie
<1>3. v \in Movie /\ v # Null
  BY <1>0, <1>2, PatchedType
<1>4. movies'[m] = v
  BY <1>0, <1>1
<1>5. EntryOf(m)' = e /\ ShelfBar[m] = o
  BY <1>0, <1>1, <1>3, <1>4 DEF EntryOf, ShelfBar
<1>6. ShelfBar' = [ShelfBar EXCEPT ![m] = e]
  BY <1>0, <1>1, <1>5, OneEntryChanges
<1>7. o \in Shelf!Entry /\ e \in Shelf!Entry
  BY <1>2, <1>3 DEF Movie, Shelf!Entry
<1>8. ShelfBar[m] # Null
  BY <1>5, <1>7, NullAssumption DEF Shelf!Entry
<1>9. Shelf!TitleFree(m, e.title)
  <2>1. v.title = b.title \/ v.title = movies[m].title
    BY DEF Patched
  <2>2. ASSUME NEW n \in Requests \ {m}, movies[n] # Null
        PROVE  movies[n].title # v.title
    BY <1>0, <1>1, <2>1, <2>2 DEF TitlesApart, TakenBy
  <2> QED
    BY <2>2 DEF Shelf!TitleFree, ShelfBar, EntryOf
<1>10. e.detail = ShelfBar[m].detail
  BY <1>5
<1> HIDE DEF v, e, o
<1> QED
  BY <1>0, <1>6, <1>7, <1>8, <1>9, <1>10 DEF Shelf!Edit

(* Deleting the movie takes the entry away, deleting the detail nothing.   *)
LEMMA RemoveStep ==
  ASSUME IInv, NEW r \in Requests, made' = made,
         \/ /\ pc[r] = "deleteMovie" /\ details' = details
            /\ movies' = [movies EXCEPT ![id[r]] = Null]
         \/ /\ pc[r] = "deleteDetail" /\ movies' = movies
            /\ details' = [details EXCEPT ![id[r]] = Null]
  PROVE  Shelf!Retire(id[r])
<1> USE DEF IInv, CatalogInv, TypeOK
<1> PICK m : m = id[r]
  OBVIOUS
<1>1. m \in Requests /\ made' = made
  BY DEF PlacesAgree
<1>2. /\ movies'[m] = Null
      /\ \A n \in Requests \ {m} : movies'[n] = movies[n] /\ details'[n] = details[n]
  BY <1>1 DEF DetailOutlivesMovie
<1>3. ShelfBar' = [ShelfBar EXCEPT ![m] = Null]
  <2>1. EntryOf(m)' = Null
    BY <1>2 DEF EntryOf
  <2> QED
    BY <1>1, <1>2, <2>1, OneEntryChanges
<1> QED
  BY <1>1, <1>3 DEF Shelf!Retire

(* Every step of the handlers moves the shelf as it may, or leaves it.     *)
LEMMA RefinementStep ==
  ASSUME IInv, [Next]_vars
  PROVE  [Shelf!Next]_(Shelf!vars)
<1> USE DEF Shelf!Next, Shelf!vars
<1>1. ASSUME UNCHANGED <<movies, details, made>>
      PROVE  UNCHANGED <<ShelfBar, made>>
  BY <1>1 DEF ShelfBar, EntryOf
<1>2. CASE UNCHANGED vars
  BY <1>1, <1>2 DEF vars
<1>3. ASSUME NEW r \in Requests, Post(r)
      PROVE  UNCHANGED <<ShelfBar, made>>
  BY <1>1, <1>3 DEF Post, Arrive
<1>4. ASSUME NEW r \in Requests, NEW m \in Requests, Patch(r, m) \/ Delete(r, m)
      PROVE  UNCHANGED <<ShelfBar, made>>
  BY <1>1, <1>4 DEF Patch, Delete, Arrive
<1>5. ASSUME NEW r \in Requests, Step(r)
      PROVE  [Shelf!Next]_(Shelf!vars)
  <2>1. CASE \/ Find(r) \/ Populate(r) \/ FindDirector(r) \/ FindGenres(r) \/ Reread(r)
             \/ CreateDetail(r) \/ CreateMovie(r) \/ AbortTransaction(r) \/ ReadFails(r)
    <3>1. UNCHANGED <<movies, details, made>>
      BY <2>1 DEF Find, Populate, FindDirector, FindGenres, Reread,
                  CreateDetail, CreateMovie, AbortTransaction, ReadFails
    <3> QED
      BY <1>1, <3>1
  <2>2. CASE CommitTransaction(r) \/ CommitUnacknowledged(r)
    BY <2>2, PublishStep DEF CommitTransaction, CommitUnacknowledged
  <2>3. CASE op[r] = "update" /\ pc[r] = "detail" /\ EditDetail(r) /\ made' = made
    <3>1. id[r] \in Requests
      BY <2>3 DEF IInv, CatalogInv, PlacesAgree
    <3> QED
      BY <2>3, <3>1, EditDetailStep
  <2>4. CASE /\ op[r] = "update" /\ pc[r] = "movie" /\ EditMovie(r)
             /\ details' = details /\ made' = made
    <3>1. id[r] \in Requests
      BY <2>4 DEF IInv, CatalogInv, PlacesAgree
    <3> QED
      BY <2>4, <3>1, EditMovieStep
  <2>5. CASE /\ made' = made
             /\ \/ /\ pc[r] = "deleteMovie" /\ details' = details
                   /\ movies' = [movies EXCEPT ![id[r]] = Null]
                \/ /\ pc[r] = "deleteDetail" /\ movies' = movies
                   /\ details' = [details EXCEPT ![id[r]] = Null]
    <3>1. id[r] \in Requests
      BY <2>5 DEF IInv, CatalogInv, PlacesAgree
    <3> QED
      BY <2>5, <3>1, RemoveStep
  <2>6. CASE UpdateDetail(r)
    BY <1>1, <2>3, <2>6 DEF UpdateDetail
  <2>7. CASE UpdateMovie(r)
    BY <1>1, <2>4, <2>7 DEF UpdateMovie
  <2>8. CASE DeleteMovie(r) \/ DeleteDetail(r)
    BY <2>5, <2>8 DEF DeleteMovie, DeleteDetail
  <2>9. CASE WriteRejected(r)
    BY <1>1, <2>3, <2>4, <2>5, <2>9 DEF WriteRejected
  <2> QED
    BY <1>5, <2>1, <2>2, <2>6, <2>7, <2>8, <2>9 DEF Step, Works, Fails
<1>6. CASE Crash
  BY <1>1, <1>6 DEF Crash
<1>7. ASSUME NEW d \in Directors, DirectorChanges(d)
      PROVE  UNCHANGED <<ShelfBar, made>>
  BY <1>1, <1>7 DEF DirectorChanges
<1>8. ASSUME NEW g \in Genres, GenreChanges(g)
      PROVE  UNCHANGED <<ShelfBar, made>>
  BY <1>1, <1>8 DEF GenreChanges
<1> QED
  BY <1>2, <1>3, <1>4, <1>5, <1>6, <1>7, <1>8 DEF Next

(* Movies appear in the collections whole, once and under a free title,    *)
(* are edited only while they are there, and vanish from them for good.    *)
THEOREM CatalogImplementsShelf == Spec => ImplementsShelf
<1>1. Init => Shelf!Init
  BY DEF Init, Shelf!Init, ShelfBar, EntryOf
<1>2. IInv /\ [Next]_vars => [Shelf!Next]_(Shelf!vars)
  BY RefinementStep
<1> QED
  BY <1>1, <1>2, Invariance, PTL DEF Spec, ImplementsShelf, Shelf!Spec

-----------------------------------------------------------------------------
(* A movie or a detail that is gone is gone for good: nothing is written   *)
(* where a commit has been, but over what is there.                        *)
LEMMA GoneStays ==
  ASSUME TypeOK, PlacesAgree, [Next]_vars, NEW m \in made
  PROVE  /\ m \in Requests /\ m \in made'
         /\ movies[m] = Null => movies'[m] = Null
         /\ details[m] = Null => details'[m] = Null
<1> USE DEF TypeOK
<1>1. CASE UNCHANGED vars
  BY <1>1 DEF vars
<1>2. ASSUME NEW r \in Requests, NEW o, NEW n, NEW b, NEW where, Arrive(r, o, n, b, where)
      PROVE  made' = made /\ movies' = movies /\ details' = details
  BY <1>2 DEF Arrive
<1>3. ASSUME NEW r \in Requests, Step(r)
      PROVE  /\ m \in made'
             /\ movies[m] = Null => movies'[m] = Null
             /\ details[m] = Null => details'[m] = Null
  <2>1. CASE Find(r) \/ Populate(r) \/ FindDirector(r) \/ FindGenres(r) \/ Reread(r)
    BY <2>1 DEF Find, Populate, FindDirector, FindGenres, Reread
  <2>2. CASE CreateDetail(r) \/ CreateMovie(r) \/ AbortTransaction(r)
    BY <2>2 DEF CreateDetail, CreateMovie, AbortTransaction
  <2>3. CASE CommitTransaction(r) \/ CommitUnacknowledged(r)
    <3>1. pc[r] = "commit" /\ Publish(r)
      BY <2>3 DEF CommitTransaction, CommitUnacknowledged
    <3>2. r # m
      BY <3>1 DEF PlacesAgree, Running
    <3> QED
      BY <3>1, <3>2 DEF Publish
  <2>4. CASE UpdateDetail(r)
    BY <2>4 DEF UpdateDetail, EditDetail
  <2>5. CASE UpdateMovie(r)
    BY <2>5 DEF UpdateMovie, EditMovie
  <2>6. CASE DeleteMovie(r) \/ DeleteDetail(r)
    BY <2>6 DEF DeleteMovie, DeleteDetail
  <2>7. CASE ReadFails(r) \/ WriteRejected(r)
    BY <2>7 DEF ReadFails, WriteRejected, EditDetail, EditMovie
  <2> QED
    BY <1>3, <2>1, <2>2, <2>3, <2>4, <2>5, <2>6, <2>7 DEF Step, Works, Fails
<1>4. CASE Crash \/ (\E d \in Directors : DirectorChanges(d)) \/ (\E g \in Genres : GenreChanges(g))
  BY <1>4 DEF Crash, DirectorChanges, GenreChanges
<1> QED
  BY <1>1, <1>2, <1>3, <1>4 DEF Next, Post, Patch, Delete

(* A request that has come keeps what it asks for.                         *)
LEMMA AskedStays ==
  ASSUME TypeOK, PlacesAgree, [Next]_vars, NEW r \in Requests, pc[r] # "idle"
  PROVE  op'[r] = op[r] /\ id'[r] = id[r] /\ body'[r] = body[r] /\ pc'[r] # "idle"
<1> USE DEF TypeOK
<1>1. CASE UNCHANGED vars
  BY <1>1 DEF vars
<1>2. ASSUME NEW q \in Requests, NEW o, NEW n, NEW b, NEW where, where # "idle",
             Arrive(q, o, n, b, where)
      PROVE  op'[r] = op[r] /\ id'[r] = id[r] /\ body'[r] = body[r] /\ pc'[r] # "idle"
  BY <1>2 DEF Arrive, To
<1>3. ASSUME NEW q \in Requests, Step(q)
      PROVE  op' = op /\ id' = id /\ body' = body /\ pc'[r] # "idle"
  <2> USE DEF To, Failed
  <2>1. CASE Find(q) \/ Reread(q) \/ FindDirector(q) \/ FindGenres(q) \/ Populate(q)
    BY <2>1 DEF Find, Reread, FindDirector, FindGenres, Populate, AfterPopulate, AfterDirector,
                AfterGenres
  <2>2. CASE CreateDetail(q) \/ CreateMovie(q) \/ AbortTransaction(q)
    BY <2>2 DEF CreateDetail, CreateMovie, AbortTransaction
  <2>3. CASE CommitTransaction(q) \/ CommitUnacknowledged(q)
    BY <2>3 DEF CommitTransaction, CommitUnacknowledged, Publish
  <2>4. CASE UpdateDetail(q) \/ UpdateMovie(q)
    BY <2>4 DEF UpdateDetail, EditDetail, UpdateMovie, EditMovie
  <2>5. CASE DeleteMovie(q) \/ DeleteDetail(q)
    BY <2>5 DEF DeleteMovie, DeleteDetail
  <2>6. CASE ReadFails(q) \/ WriteRejected(q)
    BY <2>6 DEF ReadFails, WriteRejected
  <2> QED
    BY <1>3, <2>1, <2>2, <2>3, <2>4, <2>5, <2>6 DEF Step, Works, Fails
<1>4. CASE Crash \/ (\E d \in Directors : DirectorChanges(d)) \/ (\E g \in Genres : GenreChanges(g))
  BY <1>4 DEF Crash, DirectorChanges, GenreChanges
<1> QED
  BY <1>1, <1>2, <1>3, <1>4 DEF Next, Post, Patch, Delete

(* What an answer tells of the movie it is about: a create that is         *)
(* answered with the movie has committed; a removal that is answered with  *)
(* the id has removed the movie and its detail.  A 500 promises nothing:   *)
(* the movie of such a create may be there, that of such a removal may be  *)
(* there too, or gone with its detail left.                                *)
AnswersAreTrue ==
  \A r \in Requests :
    /\ op[r] = "create" /\ pc[r] \in {"reread", "ok"} => r \in made
    /\ op[r] = "remove" => pc[r] # "reread"
    /\ op[r] = "remove" /\ pc[r] \in {"deleteDetail", "ok"} =>
         id[r] \in made /\ movies[id[r]] = Null
    /\ op[r] = "remove" /\ pc[r] = "ok" => details[id[r]] = Null

(* A movie is never back after it was gone, and where a movie is going to  *)
(* be there is none.                                                       *)
RemovedForGood ==
  [][\A m \in made : /\ movies[m] = Null => movies'[m] = Null
                     /\ details[m] = Null => details'[m] = Null]_vars

-----------------------------------------------------------------------------
(* An update that waits for a transaction to let go of its title.          *)
Waits(r, q) ==
  /\ op[r] = "update" /\ pc[r] = "movie"
  /\ movies[id[r]] # Null
  /\ ~ \E p \in Requests \ {id[r]} : TakenBy(p, body[r].title)
  /\ Holds(q, body[r].title)

(* It waits for one create only, which waits for nobody.                   *)
NoCircle ==
  \A r, q \in Requests : Waits(r, q) =>
    /\ op[q] = "create" /\ pc[q] = "commit"
    /\ \A p \in Requests : ~ Waits(q, p) /\ (Waits(r, p) => p = q)

(* When the transaction it waits for ends, the title is a movie's, not     *)
(* that of the update, or nobody's.                                        *)
WaitIsDecided ==
  [][\A r, q \in Requests : Waits(r, q) /\ q \notin held' =>
       IF q \in made' THEN q # id[r] /\ TakenBy(q, body[r].title)'
       ELSE ~ \E p \in Requests : Holds(p, body[r].title)']_vars

-----------------------------------------------------------------------------
(* How far a request has come.                                             *)
Place(r) ==
  CASE pc[r] = "idle" -> 0
    [] pc[r] = "find" -> 1
    [] pc[r] = "populate" -> 2
    [] pc[r] = "director" -> 3
    [] pc[r] = "genres" -> 4
    [] pc[r] = "detail" -> 5
    [] pc[r] = "movie" -> 6
    [] pc[r] = "commit" -> 7
    [] pc[r] = "reread" -> 8
    [] pc[r] = "deleteMovie" -> 9
    [] pc[r] = "deleteDetail" -> 10
    [] OTHER -> 11

(* No request goes back, and each of its own steps takes it further.       *)
RequestsAdvance ==
  [][\A r \in Requests : Place(r) <= Place(r)' /\ (Step(r) => Place(r) < Place(r)')]_vars

-----------------------------------------------------------------------------
(* An answer stays true: what it tells of is gone for good, or made.       *)
LEMMA AnswersStep ==
  ASSUME TypeOK, PlacesAgree, DetailOutlivesMovie, AnswersAreTrue, [Next]_vars
  PROVE  AnswersAreTrue'
<1> SUFFICES ASSUME NEW r \in Requests
             PROVE  /\ op'[r] = "create" /\ pc'[r] \in {"reread", "ok"} => r \in made'
                    /\ op'[r] = "remove" => pc'[r] # "reread"
                    /\ op'[r] = "remove" /\ pc'[r] \in {"deleteDetail", "ok"} =>
                         id'[r] \in made' /\ movies'[id'[r]] = Null
                    /\ op'[r] = "remove" /\ pc'[r] = "ok" => details'[id'[r]] = Null
  BY DEF AnswersAreTrue
<1>1. CASE pc'[r] = pc[r] /\ pc[r] # "idle"
  <2>1. op'[r] = op[r] /\ id'[r] = id[r]
    BY <1>1, AskedStays
  <2>2. \A m \in made : m \in made' /\ (movies[m] = Null => movies'[m] = Null)
                        /\ (details[m] = Null => details'[m] = Null)
    BY GoneStays
  <2> QED
    BY <1>1, <2>1, <2>2 DEF AnswersAreTrue
<1>2. ASSUME Step(r)
      PROVE  /\ op' = op /\ id' = id
             /\ op[r] = "create" /\ pc'[r] \in {"reread", "ok"} => r \in made'
             /\ op[r] = "remove" => pc'[r] # "reread"
             /\ op[r] = "remove" /\ pc'[r] \in {"deleteDetail", "ok"} =>
                  id[r] \in made' /\ movies'[id[r]] = Null
             /\ op[r] = "remove" /\ pc'[r] = "ok" => details'[id[r]] = Null
  <2> USE DEF To, Failed, TypeOK, PlacesAgree
  <2>1. CASE Find(r) \/ FindDirector(r) \/ FindGenres(r) \/ Populate(r)
    BY <2>1 DEF Find, FindDirector, FindGenres, Populate, AfterPopulate, AfterDirector, AfterGenres
  <2>2. CASE CreateDetail(r) \/ CreateMovie(r) \/ AbortTransaction(r)
    BY <2>2 DEF CreateDetail, CreateMovie, AbortTransaction
  <2>3. CASE CommitTransaction(r) \/ CommitUnacknowledged(r)
    BY <2>3 DEF CommitTransaction, CommitUnacknowledged, Publish
  <2>4. CASE UpdateDetail(r) \/ UpdateMovie(r)
    BY <2>4 DEF UpdateDetail, EditDetail, UpdateMovie, EditMovie
  <2>5. CASE Reread(r)
    BY <2>5 DEF Reread, AnswersAreTrue
  <2>6. CASE DeleteMovie(r)
    BY <2>6 DEF DeleteMovie, DetailOutlivesMovie
  <2>7. CASE DeleteDetail(r)
    BY <2>7 DEF DeleteDetail, DetailOutlivesMovie
  <2>8. CASE ReadFails(r) \/ WriteRejected(r)
    BY <2>8 DEF ReadFails, WriteRejected
  <2> QED
    BY <1>2, <2>1, <2>2, <2>3, <2>4, <2>5, <2>6, <2>7, <2>8 DEF Step, Works, Fails
<1>3. ASSUME NEW o, NEW n, NEW b, NEW where, Arrive(r, o, n, b, where),
             where \in {"director", "find"}
      PROVE  pc'[r] \in {"director", "find"}
  BY <1>3 DEF Arrive, To, TypeOK
<1>4. ASSUME NEW q \in Requests \ {r}, Post(q) \/ Step(q) \/ \E m \in Requests : Patch(q, m) \/ Delete(q, m)
      PROVE  pc'[r] = pc[r] /\ op'[r] = op[r]
  BY <1>4 DEF Post, Patch, Delete, Arrive, To, TypeOK, Step, Works, Fails, Find, Populate, FindDirector,
     FindGenres, CreateDetail, CreateMovie, CommitTransaction, CommitUnacknowledged, Publish,
     AbortTransaction, UpdateDetail, UpdateMovie, Reread, DeleteMovie, DeleteDetail, ReadFails,
     WriteRejected
<1>5. ASSUME \/ Crash \/ \E d \in Directors : DirectorChanges(d)
             \/ \E g \in Genres : GenreChanges(g)
             \/ UNCHANGED vars
      PROVE  op'[r] = op[r] /\ (pc'[r] = pc[r] \/ pc'[r] = "lost")
  BY <1>5 DEF Crash, DirectorChanges, GenreChanges, vars, TypeOK
<1>6. pc[r] = "idle" => op[r] = "none"
  BY DEF PlacesAgree
<1> QED
  BY <1>1, <1>2, <1>3, <1>4, <1>5, <1>6 DEF Next, Post, Patch, Delete

(* For any requests and bodies, what a create or a removal answers with    *)
(* 200 or 201 is true and stays so, whatever other requests do, whatever   *)
(* MongoDB rejects and whenever the process exits (316-376, 768-805).      *)
THEOREM AnswersDoHold == Spec => []AnswersAreTrue
<1>1. Init => AnswersAreTrue
  BY DEF Init, AnswersAreTrue
<1>2. IInv /\ AnswersAreTrue /\ [Next]_vars => AnswersAreTrue'
  BY AnswersStep DEF IInv, CatalogInv
<1> QED
  BY <1>1, <1>2, Invariance, PTL DEF Spec

(* No update that was under way brings back a movie or a detail that was   *)
(* removed meanwhile (504-568, 768-805).                                   *)
THEOREM RemovalsAreForGood == Spec => RemovedForGood
<1>1. IInv /\ [Next]_vars
      => [\A m \in made : /\ movies[m] = Null => movies'[m] = Null
                          /\ details[m] = Null => details'[m] = Null]_vars
  BY GoneStays DEF IInv, CatalogInv
<1> QED
  BY <1>1, Invariance, PTL DEF Spec, RemovedForGood

-----------------------------------------------------------------------------
(* Of the requests of the catalogue only updates wait for another one,     *)
(* each for a single create about to commit, which waits for none: they    *)
(* never wait in a circle (336-376, 551-563).                              *)
THEOREM NobodyWaitsInACircle == Spec => []NoCircle
<1>1. IInv => NoCircle
  BY DEF IInv, CatalogInv, TypeOK, TitlesApart, PlacesAgree, NoCircle, Waits, Holds
<1> QED
  BY <1>1, Invariance, PTL

(* An update waits for a create to commit, and then its title is taken, or *)
(* for it to fail, and then the title is free.                             *)
LEMMA WaitStep ==
  ASSUME IInv, [Next]_vars, NEW r \in Requests, NEW q \in Requests, Waits(r, q), q \notin held'
  PROVE  IF q \in made' THEN q # id[r] /\ TakenBy(q, body[r].title)'
         ELSE ~ \E p \in Requests : Holds(p, body[r].title)'
<1> USE DEF IInv, CatalogInv, TypeOK
<1>1. /\ q \in held /\ pc[q] = "commit" /\ op[q] = "create" /\ q \notin made
      /\ body[q].title = body[r].title /\ body[q] \in CreateBodies /\ q # r
      /\ id[r] \in made /\ pc[r] = "movie"
  BY DEF Waits, Holds, TitlesApart, PlacesAgree, DetailOutlivesMovie, Running
<1>2. \A p \in Requests \ {q} : ~ Holds(p, body[r].title)
  BY <1>1 DEF TitlesApart
<1>3. ASSUME Publish(q)
      PROVE  q \in made' /\ q # id[r] /\ TakenBy(q, body[r].title)'
  <2>1. /\ movies'[q] = [title |-> body[q].title, director |-> body[q].directorId,
                         genres |-> GenreSet(body[q].genreIds)]
        /\ q \in made' /\ body' = body
    BY <1>3 DEF Publish
  <2>2. movies'[q] # Null /\ movies'[q].title = body[r].title
    BY <1>1, <2>1, InsertedType
  <2> QED
    BY <1>1, <2>1, <2>2 DEF TakenBy
<1>4. CASE AbortTransaction(q)
  <2>1. held' = held \ {q} /\ body' = body /\ made' = made
    BY <1>4 DEF AbortTransaction
  <2> QED
    BY <1>1, <1>2, <2>1 DEF Holds
<1>5. CASE Crash
  <2>1. held' = {} /\ made' = made
    BY <1>5 DEF Crash
  <2> QED
    BY <1>1, <2>1 DEF Holds
<1>6. ASSUME NEW p \in Requests, Step(p), ~ Publish(q), ~ AbortTransaction(q)
      PROVE  FALSE
  BY <1>1, <1>6 DEF Step, Works, Fails, Find, Populate, FindDirector, FindGenres, CreateDetail,
     CreateMovie, CommitTransaction, CommitUnacknowledged, Publish, AbortTransaction, UpdateDetail,
     UpdateMovie, Reread, DeleteMovie, DeleteDetail, ReadFails, WriteRejected
<1>7. ASSUME \/ \E p \in Requests : Post(p)
             \/ \E p, m \in Requests : Patch(p, m) \/ Delete(p, m)
             \/ \E d \in Directors : DirectorChanges(d)
             \/ \E g \in Genres : GenreChanges(g)
             \/ UNCHANGED vars
      PROVE  FALSE
  BY <1>1, <1>7 DEF Post, Patch, Delete, Arrive, DirectorChanges, GenreChanges, vars
<1> QED
  BY <1>3, <1>4, <1>5, <1>6, <1>7 DEF Next

(* An update that waited is decided by the create it waited for: if that   *)
(* commits the title is another movie's, and unless that is removed first  *)
(* the duplicate key stops the update, whose caller is told nothing of it; *)
(* otherwise nobody holds the title (336-376, 551-568).                    *)
THEOREM WaitsAreDecided == Spec => WaitIsDecided
<1>1. IInv /\ [Next]_vars
      => [\A r, q \in Requests : Waits(r, q) /\ q \notin held' =>
            IF q \in made' THEN q # id[r] /\ TakenBy(q, body[r].title)'
            ELSE ~ \E p \in Requests : Holds(p, body[r].title)']_vars
  BY WaitStep
<1> QED
  BY <1>1, Invariance, PTL DEF Spec, WaitIsDecided

-----------------------------------------------------------------------------
(* Places are numbers, told by pc alone.                                   *)
LEMMA PlacesType ==
  \A r \in Requests : /\ Place(r) \in 0 .. 11 /\ Place(r)' \in 0 .. 11
                      /\ pc'[r] = pc[r] => Place(r)' = Place(r)
BY DEF Place

(* A step of a request takes it to a later place.                          *)
LEMMA StepAdvances ==
  ASSUME TypeOK, NEW r \in Requests, Step(r)
  PROVE  Place(r) < Place(r)' /\ \A q \in Requests \ {r} : pc'[q] = pc[q]
<1> USE DEF TypeOK, Place, To, Failed
<1>1. CASE Find(r)
  BY <1>1 DEF Find
<1>2. CASE Populate(r)
  BY <1>2 DEF Populate, AfterPopulate, AfterDirector, AfterGenres
<1>3. CASE FindDirector(r)
  BY <1>3 DEF FindDirector, AfterDirector, AfterGenres
<1>4. CASE FindGenres(r)
  BY <1>4 DEF FindGenres, AfterGenres
<1>5. CASE CreateDetail(r)
  BY <1>5 DEF CreateDetail
<1>6. CASE CreateMovie(r)
  BY <1>6 DEF CreateMovie
<1>7. CASE CommitTransaction(r)
  BY <1>7 DEF CommitTransaction
<1>8. CASE CommitUnacknowledged(r)
  BY <1>8 DEF CommitUnacknowledged
<1>9. CASE AbortTransaction(r)
  BY <1>9 DEF AbortTransaction
<1>10. CASE UpdateDetail(r)
  BY <1>10 DEF UpdateDetail, EditDetail
<1>11. CASE UpdateMovie(r)
  BY <1>11 DEF UpdateMovie, EditMovie
<1>12. CASE Reread(r)
  BY <1>12 DEF Reread
<1>13. CASE DeleteMovie(r)
  BY <1>13 DEF DeleteMovie
<1>14. CASE DeleteDetail(r)
  BY <1>14 DEF DeleteDetail
<1>15. CASE ReadFails(r)
  BY <1>15 DEF ReadFails
<1>16. CASE WriteRejected(r)
  BY <1>16 DEF WriteRejected
<1> QED
  BY <1>1, <1>2, <1>3, <1>4, <1>5, <1>6, <1>7, <1>8, <1>9, <1>10, <1>11, <1>12, <1>13, <1>14,
     <1>15, <1>16 DEF Step, Works, Fails

(* No step of anybody takes a request back.                                *)
LEMMA AdvanceStep ==
  ASSUME TypeOK, [Next]_vars, NEW r \in Requests
  PROVE  Place(r) <= Place(r)' /\ (Step(r) => Place(r) < Place(r)')
<1> SUFFICES Place(r) <= Place(r)'
  BY StepAdvances
<1>1. ASSUME NEW q \in Requests, NEW o, NEW n, NEW b, NEW where, Arrive(q, o, n, b, where)
      PROVE  Place(r) <= Place(r)'
  <2>1. pc'[r] = pc[r] \/ pc[r] = "idle"
    BY <1>1 DEF Arrive, To, TypeOK
  <2>2. pc[r] = "idle" => Place(r) = 0
    BY DEF Place
  <2> QED
    BY <2>1, <2>2, PlacesType
<1>2. ASSUME NEW q \in Requests, Step(q)
      PROVE  Place(r) <= Place(r)'
  BY <1>2, StepAdvances, PlacesType
<1>3. CASE Crash
  <2>1. pc'[r] = pc[r] \/ pc'[r] = "lost"
    BY <1>3 DEF Crash, TypeOK
  <2>2. pc'[r] = "lost" => Place(r)' = 11
    BY DEF Place
  <2> QED
    BY <2>1, <2>2, PlacesType
<1>4. CASE \/ \E d \in Directors : DirectorChanges(d)
           \/ \E g \in Genres : GenreChanges(g)
           \/ UNCHANGED vars
  <2>1. pc' = pc
    BY <1>4 DEF DirectorChanges, GenreChanges, vars
  <2> QED
    BY <2>1, PlacesType
<1> QED
  BY <1>1, <1>2, <1>3, <1>4 DEF Next, Post, Patch, Delete

(* A request has a few steps to make and makes none twice, whatever the    *)
(* others do: with NobodyWaitsInACircle, this is why each ends once every  *)
(* one of its steps that may be made is (316-376, 504-568, 768-805).       *)
THEOREM RequestsDoAdvance == Spec => RequestsAdvance
<1>1. TypeOK /\ [Next]_vars
      => [\A r \in Requests : Place(r) <= Place(r)' /\ (Step(r) => Place(r) < Place(r)')]_vars
  BY AdvanceStep
<1> QED
  BY <1>1, TypeCorrect, PTL DEF Spec, RequestsAdvance

=============================================================================
