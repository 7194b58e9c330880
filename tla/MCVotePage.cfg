CONSTANTS
    None = None
    Ids = {u1, u2}
    Emails = {e1}
    Nominees = {n1, n2}
    Slots = {s1, s2}
SPECIFICATION Spec
SYMMETRY Symmetry
INVARIANTS TypeOK OwnSession LastClickWins
