-------------------------- MODULE MCMovieCatalog --------------------------
(* Instances of MovieCatalog for TLC: a few bodies that reach every check, *)
(* the repeated genre id and the contested title included.                 *)
EXTENDS MovieCatalog, TLC

CONSTANTS t1, t2, x1, x2, d1, g1

MCCreateBodies ==
  { [title |-> t1, detail |-> x1, directorId |-> d1, genreIds |-> <<g1>>],
    [title |-> t2, detail |-> x1, directorId |-> d1, genreIds |-> <<g1>>],
    [title |-> t2, detail |-> x1, directorId |-> d1, genreIds |-> <<g1, g1>>] }

MCUpdateBodies ==
  { [title |-> t1, detail |-> x2, directorId |-> Null, genreIds |-> Null],
    [title |-> t2, detail |-> Null, directorId |-> Null, genreIds |-> Null],
    [title |-> Null, detail |-> Null, directorId |-> d1, genreIds |-> <<g1>>] }

(* Fewer updates, for the run that also checks liveness.                   *)
MCFewUpdateBodies ==
  { [title |-> t2, detail |-> x2, directorId |-> Null, genreIds |-> Null],
    [title |-> Null, detail |-> Null, directorId |-> d1, genreIds |-> <<g1>>] }

RequestSymmetry == Permutations(Requests)
=============================================================================
