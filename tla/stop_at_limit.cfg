CONSTANTS
    Chats = {c1, c2}
    AIs = {a1, a2}
    NoAI = NoAI
    MaxRequests = 1
    MaxQueue = 2
    SendWhileBusy = FALSE
    UseRag = FALSE
    ContextFills = TRUE
SPECIFICATION FairSpec
PROPERTIES
    StopHonoured
