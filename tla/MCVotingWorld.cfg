CONSTANTS
    u1 = u1
    u2 = u2
    n1 = n1
    n2 = n2
    n3 = n3
    c1 = c1
    c2 = c2
    None = None
    Users = {u1, u2}
    Nominees = {n1, n2, n3}
    Categories = {c1, c2}
    CategoryOf <- MCCategoryOf
    Requests = {r1, r2}
    MaxVoteId = 2
SPECIFICATION Spec
SYMMETRY Symmetry
INVARIANTS VotesStand ReceiptsAgree
PROPERTIES RowsPersist
