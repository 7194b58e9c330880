CONSTANTS
    u1 = u1
    u2 = u2
    n1 = n1
    n2 = n2
    n3 = n3
    c1 = c1
    c2 = c2
    None = None
    Users = {u1}
    Nominees = {n1, n2}
    Categories = {c1}
    CategoryOf <- MCCategoryOf1
    Requests = {r1, r2}
    MaxVoteId = 3
SPECIFICATION FairSpec
INVARIANTS TypeOK OneVotePerCategory
PROPERTIES BoxSpec TallyFreezes LateWritersShrink RequestsEnd
