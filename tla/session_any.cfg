CONSTANTS
    Chats = {c1, c2}
    AIs = {a1, a2}
    NoAI = NoAI
    MaxRequests = 2
    MaxQueue = 1
    SendWhileBusy = TRUE
    UseRag = FALSE
    ContextFills = TRUE
SPECIFICATION Spec
VIEW View
SYMMETRY Symmetry
INVARIANTS
    TypeOK
    LoadingHasLoad
    PredictingHasTurn
    PredictingIsHere
    IdleIsSaved
