CONSTANTS
    k1 = k1
    k2 = k2
    None = None
    Calls = {k1, k2}
    MaxStreams = 3
    MaxNested = 1
SPECIFICATION FairSpec
INVARIANTS TypeOK NumberedInOrder ResultsNamed InvocationsApart OneCheckpoint
PROPERTIES ImplementsFeed ConversationEnds
