SPECIFICATION Spec
CONSTANTS
    Char = {"a", "b", "e"}
    KeyboardBufferSize = 1
    MaxLine = 1
    MaxLines = 1
    Width = 5
    Height = 7
    Pitch = 6
    FontWidth = 2
    FontHeight = 2
    GlyphCount = 2
    CodePoint <- MCCodePoint
    Outputs <- MCOutputs
INVARIANTS
    TypeOK
    NoRemains
PROPERTY
    ImplementsTerminal
