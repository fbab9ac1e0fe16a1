CONSTANTS
    MaxInterrupts = 3
    MaxDepth = 2
    Vectors = {0, 14}
    Calls = {0, 59, 60, 158, 400}
SPECIFICATION Spec
INVARIANTS
    UserSeesOwnContext
    KernelSeesKernelContext
    ShellGetsBack
CHECK_DEADLOCK FALSE
