CONSTANTS
    Size = 6
    Context = 6
    Batch = 2
    UBatch = 2
    Keep = 1
    Tokens = {t1, t2}
    Blank = Blank
    SystemLengths = {0, 3}
    PromptLengths = {0, 2}
    ImageLengths = {0, 2}
    Setups = {{}, {"images"}, {"faults"}}
SPECIFICATION Spec
SYMMETRY Symmetry
INVARIANTS
    CountersAgree
PROPERTIES
    WindowSpec
