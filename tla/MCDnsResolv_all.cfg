SPECIFICATION FairSpec
CONSTANTS
    Names = {"a", "b"}
    RequestMax = 3
    Cycles = 3
    Params <- Many
    Null = Null
INVARIANTS
    CalledOnce
    RightAnswer
PROPERTY Answered
\* Nothing is left to do when all requests are answered.
CHECK_DEADLOCK FALSE
