CONSTANTS
    Char = {"x"}
    KeyboardBufferSize = 1
    MaxLine = 0
    MaxLines = 0
    Byte = {"0", "x"}
    Zero = "0"
    MAX_OPEN_FILES = 2
    Ramdisk <- MCRamdisk
    BootFiles <- MCBootFiles
    MaxSize = 2
    Path = {"init"}
    Width = 4
SPECIFICATION Spec
INVARIANTS
    TypeOK
    DescriptorsResolve
    ReadsAreContiguous
PROPERTIES
    GrowsOnly
