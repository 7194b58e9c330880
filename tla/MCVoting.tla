------------------------------ MODULE MCVoting ------------------------------
EXTENDS Voting, TLC

CONSTANTS u1, u2, n1, n2, n3, c1, c2

\* Two nominees compete in one category, the third is in the other category.
MCCategoryOf == n1 :> c1 @@ n2 :> c1 @@ n3 :> c2
MCCategoryOf1 == n1 :> c1 @@ n2 :> c1

Symmetry == Permutations(Requests) \cup Permutations({n1, n2}) \cup Permutations(Users)
=============================================================================
