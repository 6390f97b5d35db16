SPECIFICATION TextSpec
CONSTANTS
    Calls <- MCCalls
    Numbers <- MCNumbers
    NTOA_BUFFER_SIZE = 5
    CHAR = 8
    SHORT = 16
    INT = 32
    LONG = 1024
    POINTER_DIGITS = 3
    SIZE_MAX = 1000
    DECIMAL_BUFF = 5
    HEX_BUFF = 6
INVARIANTS
    NumberFitsBuffer
CHECK_DEADLOCK FALSE
