SPECIFICATION Spec
CONSTANTS
    Exceptions = {0, 13, 14}
    Irqs = {1, 8}
    ErrorCodes = {0, 5}
    StubAddress <- MCStubAddress
    HALF = 8
    STACK = 50
    RED_ZONE = 3
    MaxDepth = 2
INVARIANTS
    InterruptedKeepsItsLocals
