CONSTANTS
    LCD_LINE_CYCLES = 8
    PPU_MODE_2_OAM_CYCLES = 3
    PPU_MODE_3_VRAM_MIN_CYCLES = 2
    PPU_MODE_3_VRAM_MAX_CYCLES = 3
    Scrolls = {0}
    WindowCost = 1
    SpriteCost = 0
    LCD_HEIGHT = 2
    LCD_VERT_LINES = 4
    OnCount = 1
    TIMA_SIZE = 4
    DIV_CYCLES = 2
    DIV_SIZE = 2
    Shifts = {2, 3}
    InputBit <- MCInputBit
    SERIAL_CYCLES = 3
    Batches = {1, 2}
    MIN_SLEEP = 2
    COUNT_SIZE = 24
    Programs = {{"lcd"}, {"timer"}, {"serial"}}
    Selections = {{}, {"hblank", "lyc"}, {"vblank", "oam"}}
    Compared = {0, 1, 3}
    Bytes = {0, 1, 51, 136}
    MaxWrites = 2
    MaxLength = 1
SPECIFICATION Spec
INVARIANT FramesAreWhole
INVARIANT StatIsTrue
INVARIANT ClocksKeepUp
