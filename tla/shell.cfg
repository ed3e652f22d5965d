CONSTANTS
    Char = {"x", " "}
    KeyboardBufferSize = 2
    MaxLine = 2
    MaxLines = 3
    Byte = {"0", "x"}
    Zero = "0"
    MAX_OPEN_FILES = 2
    Ramdisk <- MCRamdisk
    BootFiles <- MCBootFiles
    MaxSize = 1
    Path = {}
    Width = 4
    LineBuf = 2
    White = {" "}
    ExitCommand <- MCExitCommand
SPECIFICATION ShellSpec
INVARIANTS
    CommandsAsTyped
PROPERTIES
    LinesConsumed
CHECK_DEADLOCK FALSE
