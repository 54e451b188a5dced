SPECIFICATION Spec
CONSTANTS
    Session <- MCSession
    Code <- MCCode
    Decoder <- MCDecoder
    BitPattern <- MCBitPattern
    WordPattern <- MCWordPattern
    Near <- MCNear
CHECK_DEADLOCK FALSE
INVARIANTS
    TypeOK
    RequestArrives
    AnswerArrives
    ForeignAnswerFits
    FrameIsTakenWhole
    DamageIsDetected
    CrcIsRemainder
    EveryObjectOnce
PROPERTIES
    ForeignRequestIsExact
    WalkEnds
