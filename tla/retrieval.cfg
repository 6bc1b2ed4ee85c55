CONSTANTS
    c1 = c1
    c2 = c2
    m1 = m1
    m2 = m2
    f1 = f1
    f2 = f2
    Chats = {c1, c2}
    Files = {f1, f2}
    Model <- TwoModels
    Default = m1
    Slots = {s1}
    Objects = {o1, o2, o3}
    Nil = Nil
    Setups <- AllSetups
    ChunkSizes = {0, 1, 2, 3, 4}
    WordCounts = {0, 1, 2, 3, 5}
    Overlaps = {0, 1, 2, 4}
    MaxWords = 12
    MaxTokens = 6
    MaxLength = 6
    MaxGrowth = 2
    Scores = {1, 2}
    NaN = NaN
    Counts = {0, 1, 2, 3}
    Lengths = {0, 2, 9, 20, 30}
    ItemTexts = {t1, t2, t3}
    Pools = {1, 3}
    None = None
    t1 = t1
    t2 = t2
    t3 = t3
SPECIFICATION MCSpec
INVARIANTS
    StoresCorrect
    IndexMatchesDocs
    RetrievalCorrect
    CharactersCorrect
    TokensCorrect
    RecursiveCorrect
    RankingCorrect
    InsertionCorrect
PROPERTIES
    FollowsDocs
    EventuallyIndexed
    CallsEnd
\* A call returns.
CHECK_DEADLOCK FALSE
