CONSTANTS
    Size = 16
    Context = 16
    Batch = 8
    UBatch = 8
    Keep = 1
    Tokens = {t1}
    Blank = Blank
    SystemLengths = {0}
    PromptLengths = {1, 5, 8}
    ImageLengths = {0}
    Setups = {{}}
SPECIFICATION Spec
INVARIANTS
    AlwaysRoom
