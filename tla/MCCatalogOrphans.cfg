CONSTANTS
    c1 = c1
    d1 = d1
    d2 = d2
    d3 = d3
    d4 = d4
    None = None
    Empty = Empty
    Requests = {r1, r2}
    Bodies <- MCBodies
    Ids <- MCIds
    Names = {"a", "b"}
    Seeds <- MCSeeds
SPECIFICATION Spec
INVARIANT NoOrphanMovies

