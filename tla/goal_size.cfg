CONSTANTS
    Sizes = {3}
    MaxLength = 6
SPECIFICATION Spec
INVARIANTS
    FitsGoal
