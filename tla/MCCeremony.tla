----------------------------- MODULE MCCeremony -----------------------------
EXTENDS Ceremony, TLC

CONSTANTS n1, n2, n3, picture, actor

\* Two rivals for Best Picture, one nominee for another category.
MCCategoryOf == n1 :> picture @@ n2 :> picture @@ n3 :> actor
MCNameOf == picture :> "Best Picture" @@ actor :> "Actor in a Leading Role"

Symmetry == Permutations(Voters) \cup Permutations(Admins) \cup Permutations(WinnerIds)
              \cup Permutations({n1, n2})
=============================================================================
