SPECIFICATION Spec
CONSTANTS
    PageSize <- MCPage
    Radix <- MCRadix
    Half <- MCHalf
    MaxAddress = 1000000
    LowMemoryCutoff = 16
    DescSize = 1
    DescAlign = 2
    EhdrSize = 2
    PhdrSize = 1
    NameField = 2
    SizeField = 2
    Base = 8
    FrameCount = 180
    ScratchPages = 16
    DirectPages = 36
    PHYSICAL_MEMORY_OFFSET <- MCHigherHalf
    HIGHER_HALF <- MCHigherHalf
    RAMDISK_VIRTUAL_BASE <- MCRamdisk
    KERNEL_REGION <- MCKernel
    USER_STACK <- MCUserStack
    UserStackPages = 2
    KERNEL_STACK_REGION_BASE <- MCStacks
    STACK_PAGES = 2
    GUARD_PAGES = 1
    HEAP_START <- MCHeap
    HEAP_SIZE = 8
    Scenarios <- MCScenarios
    NameOf <- MCNameOf
    KernelTasks = 3
    MaxProcesses = 0
INVARIANT KernelNeverFaults
CHECK_DEADLOCK FALSE
