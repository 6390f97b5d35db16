SPECIFICATION FairSpec
CONSTANTS
    MAX_COLS = 4
    MAX_ROWS = 2
    TAB_CELLS = 2
    BYTE = 4
    Glyph <- MCGlyph
    NL = "nl"
    TAB = "tab"
    Requested <- MCRequested
    MainScript <- WholeScript
    Handlers <- AllHandlers
    MaxInterrupts = 2
INVARIANTS
    TypeOK
    BeyondScreenUntouched
PROPERTIES
    HandlerCursorExact
    ImplementsTerminal
    HandlerReturns
    MainFinishes
