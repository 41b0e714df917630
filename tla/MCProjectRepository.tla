------------------------ MODULE MCProjectRepository ------------------------
(***************************************************************************)
(* TLC instance of ProjectRepository: two tabs race over two revision ids, *)
(* two possible documents per id and three tokens.                         *)
(***************************************************************************)
EXTENDS ProjectRepository, TLC

Symmetric == Permutations(Clients) \cup Permutations(RevisionIds)
                 \cup Permutations(Contents) \cup Permutations(Tokens)
=============================================================================
