CONSTANTS
    rest = rest
    sse = sse
    s1 = s1
    s2 = s2
    s3 = s3
    None = None
    Requests = {rest, sse}
    Streams = {sse}
    Spans = {s1, s2, s3}
SYMMETRY SpanSymmetry
SPECIFICATION Spec
INVARIANTS TypeOK Attributed InItsTrace EndedAsTheOriginal
