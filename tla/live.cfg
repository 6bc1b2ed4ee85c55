CONSTANTS
    Chats = {c1, c2}
    AIs = {a1, a2}
    NoAI = NoAI
    MaxRequests = 1
    MaxQueue = 2
    SendWhileBusy = FALSE
    UseRag = TRUE
    ContextFills = FALSE
    Urls <- MCUrls
    BadUrl = "bad"
    NameOf <- MCNameOf
    DefaultName = "model.gguf"
    MaxDownloads = 3
    Setups <- AllSetups
SPECIFICATION MCSpec
INVARIANTS
    SavedOnce
    RightDownload
PROPERTIES
    LoadEnds
    StopHonoured
    Settles
    EveryFailureShown
\* All questions are asked, or all downloads made.
CHECK_DEADLOCK FALSE
