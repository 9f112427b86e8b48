CONSTANTS
    p = p  q = q
    s1 = s1  s2 = s2  s3 = s3
    None = None
    Convs = {p}
    Rest = {p}
    Careful = {}
    Slots = {s1, s2, s3}
    Catalog = {"free", "plain", "auth", "hitl"}
    MaxFails = 2
SPECIFICATION Spec
SYMMETRY Symmetry
INVARIANTS
    TypeOK
    HumanConsent
    AnswersAreFinal
PROPERTIES
    ImplementsConsent
