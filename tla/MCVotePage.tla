----------------------------- MODULE MCVotePage -----------------------------
EXTENDS VotePage, TLC

Symmetry == Permutations(Nominees) \cup Permutations(Slots)
=============================================================================
