--------------------------- MODULE MCWinnersPage ---------------------------
EXTENDS WinnersPage, TLC

CONSTANTS c1, m1

\* Rivals in one category, from one movie.
MCCategoryOf == [n \in Nominees |-> c1]
MCMovieOf == [n \in Nominees |-> m1]

Symmetry == Permutations(Nominees) \cup Permutations(Slots)
=============================================================================
