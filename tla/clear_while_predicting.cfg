CONSTANTS
    Chats = {c1, c2}
    AIs = {a1, a2}
    NoAI = NoAI
    MaxRequests = 2
    MaxQueue = 1
    SendWhileBusy = TRUE
    UseRag = FALSE
    ContextFills = FALSE
SPECIFICATION Spec
SYMMETRY Symmetry
INVARIANTS
    ClearedStaysCleared
