CONSTANTS
    HeapSize = 12
    NodeSize = 2
    BlockSizes <- MCBlockSizes
    Layouts <- MCLayouts
SPECIFICATION Spec
INVARIANTS
    TypeOK
    RegionsHoldNodes
    NoOverlap
    Suitable
PROPERTIES
    ReusedAtOnce
