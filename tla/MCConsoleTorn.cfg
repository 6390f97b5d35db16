SPECIFICATION FairSpec
CONSTANTS
    MAX_COLS = 2
    MAX_ROWS = 2
    TAB_CELLS = 1
    BYTE = 3
    Glyph <- MCGlyph
    NL = "nl"
    TAB = "tab"
    Requested <- MCRequested
    MainScript <- Script
    Handlers <- MCHandlers
    MaxInterrupts = 1
PROPERTIES
    CursorFollowsOffset
