CONSTANTS
    r1 = r1
    r2 = r2
    r3 = r3
    plain = plain
    elevated = elevated
    None = None
    Requests = {r1, r2, r3}
    Streams = {r2, r3}
    Roles = {plain, elevated}
    Catalog <- SmallCatalog
    McpTools <- SmallMcpTools
SPECIFICATION FairSpec
INVARIANTS TypeOK OneConnection HandedAllConnected ServersByOwnRoles SubagentsAddNothing AllCleanedUp
PROPERTIES EveryCreateEnds ImplementsPool
