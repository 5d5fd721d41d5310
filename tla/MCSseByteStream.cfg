CONSTANTS
    NL = NL
    Texts <- SomeTexts
    MaxBytes = 6
SPECIFICATION Spec
INVARIANT CompleteEventsDrained
CHECK_DEADLOCK FALSE
