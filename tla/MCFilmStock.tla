----------------------------- MODULE MCFilmStock -----------------------------
(* FilmStock for TLC: requests are interchangeable. *)
EXTENDS FilmStock, TLC

CallSymmetry == Permutations(Calls)
=============================================================================
