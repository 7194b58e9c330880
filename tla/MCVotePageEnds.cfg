CONSTANTS
    None = None
    Ids = {u1, u2}
    Emails = {e1}
    Nominees = {n1, n2}
    Slots = {s1}
SPECIFICATION FairSpec
PROPERTIES Quiesces NoEndlessLogin
