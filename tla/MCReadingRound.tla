--------------------------- MODULE MCReadingRound ---------------------------
(* Instances of ReadingRound for TLC.                                      *)
EXTENDS ReadingRound, TLC

Symmetry == Permutations(Users) \cup Permutations(Books)
                \cup Permutations(RoundIds) \cup Permutations(Reqs)
=============================================================================
