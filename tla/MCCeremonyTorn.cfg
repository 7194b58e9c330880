CONSTANTS
    n1 = n1
    n2 = n2
    n3 = n3
    picture = picture
    actor = actor
    None = None
    Voters = {u1, u2}
    Nominees = {n1, n2, n3}
    Categories = {picture, actor}
    CategoryOf <- MCCategoryOf
    NameOf <- MCNameOf
    Admins = {a1}
    Readers = {s1}
    WinnerIds = {w1}
SPECIFICATION Spec
INVARIANT ScoreWithin
