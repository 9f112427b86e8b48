CONSTANTS
    p = p  q = q
    s1 = s1  s2 = s2  s3 = s3
    None = None
    Convs = {p, q}
    Rest = {p}
    Careful = {}
    Slots = {s1}
    Catalog = {"auth", "hitl"}
    MaxFails = 0
SPECIFICATION Spec
INVARIANTS
    ChallengeReachesCaller
