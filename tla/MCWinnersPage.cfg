CONSTANTS
    c1 = c1
    m1 = m1
    None = None
    Categories = {c1}
    Movies = {m1}
    Nominees = {n1, n2, n3}
    CategoryOf <- MCCategoryOf
    MovieOf <- MCMovieOf
    Limit = 2
    WinnerIds = {w1, w2}
    Slots = {s1, s2}
SPECIFICATION Spec
SYMMETRY Symmetry
INVARIANTS TypeOK StableListed NewestListed TitlesKnown CardsExact
PROPERTIES OthersStand
