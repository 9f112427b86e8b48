CONSTANTS
    a = a  b = b  c = c
    t1 = t1  t2 = t2  t3 = t3
    u1 = u1  u2 = u2
    None = None
    Rest = {a, b}
    Sse = {c}
    Tokens = {t1}
    Saved = {t1}
    Subjects = {u1}
SPECIFICATION FairSpec
PROPERTIES
    EveryRequestEnds
