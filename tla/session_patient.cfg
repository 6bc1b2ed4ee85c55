CONSTANTS
    Chats = {c1, c2}
    AIs = {a1, a2}
    NoAI = NoAI
    MaxRequests = 2
    MaxQueue = 2
    SendWhileBusy = FALSE
    UseRag = TRUE
    ContextFills = TRUE
SPECIFICATION Spec
SYMMETRY Symmetry
INVARIANTS
    ContextNotShared
    StopReachesTurn
    EachRequestOnce
    ClearedStaysCleared
    NothingLeftRunning
PROPERTIES
    TranscriptKept
