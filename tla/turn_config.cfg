SPECIFICATION Spec
CONSTANTS
    Chats = {c1, c2}
    NoChat = NoChat
    Models = {m1, m2}
    NoModel = NoModel
    MaxExchanges = 2
    MaxEdits = 0
    Room <- RoomSmallLarge
    Setups <- PlainSetup
SYMMETRY MCSymmetry
INVARIANTS
    TurnUsesItsConfiguration
