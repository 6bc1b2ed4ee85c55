CONSTANTS
    Hurry = FALSE
    MaxTime = 2
    MaxTitle = 1
    MaxMade = 3
    Chats = {c1, c2}
    NoChat = NoChat
    Models = {m1, m2, m3}
    NoModel = NoModel
    MaxExchanges = 3
    MaxEdits = 2
    Room <- RoomSmallLarge
    Setups <- AllSetups
SPECIFICATION MCSpec
SYMMETRY MCSymmetry
INVARIANTS
    FilesTypeOK
    BelongingsAreOwn
    ListedUnlessTorn
    ParamsCorrect
    DialogCorrect
PROPERTIES
    NothingReplaced
    SessionKeepsDialog
    HistoryOnlyGrows
