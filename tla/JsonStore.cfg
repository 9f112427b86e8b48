CONSTANTS
    p1 = p1
    p2 = p2
    bob_chat = bob_chat
    bob = bob
    chat_work = chat_work
    work = work
    None = None
    Runs = {p1, p2}
    Owners = {bob_chat, bob}
    SessionIds = {chat_work, work}
    KeyOf <- CollidingKeys
    MaxItems = 4
    MaxLimit = 2
SPECIFICATION Spec
INVARIANTS TypeOK OwnersApart InOrderOnce
PROPERTIES NewestWithinLimit ImplementsHistory
