SPECIFICATION Spec
CONSTANTS
    RawRequests = TRUE
    NullSets <- NullSome
    Variants = 5
INVARIANTS
    
    AllowIsExact
    ArgumentsArrive
    AnswersParsed
