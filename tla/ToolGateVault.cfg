CONSTANTS
    p = p  q = q
    s1 = s1  s2 = s2  s3 = s3
    None = None
    Convs = {p, q}
    Rest = {p}
    Careful = {q}
    Slots = {s1, s2}
    Catalog = {"auth", "hitl"}
    MaxFails = 1
SPECIFICATION Spec
SYMMETRY Symmetry
INVARIANTS
    TokenOutlivesCheck
    MetadataSuffices
