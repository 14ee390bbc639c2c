SPECIFICATION Spec
CONSTANTS
    Versions <- SomeVersions
    Buffers = {0, 1}
    Kernels <- AllKernels
INVARIANTS
    AskedProtocol
    StartsClean
