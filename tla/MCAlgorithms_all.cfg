SPECIFICATION Spec
CONSTANTS
    BN_DIGIT_BITS = 4
    BN_CC_MULL_DIV = FALSE
    BYTE_BITS = 2
    BN_MAX_DIGITS = 16
    EC_PROJ_ADD_MIX = TRUE
    EC_PROJ_REPEAT_DOUBLE = TRUE
    Fill = {0, 15}
    NONE = NONE
PROPERTIES
    NumbersRight
    SignaturesVerify
    DigestsAndCiphersRight
    PacketsRight
