SPECIFICATION Spec
CONSTANTS
    Blocks = {b0, b1}
    Zero = Zero
    Contents = {c1}
    MaxWrites = 3
    MaxSeq = 3
    MaxCycles = 3
    MaxPasses = 2
    Scenarios <- Failures
CONSTRAINT ThirdRotation
SYMMETRY Symmetric
INVARIANTS ReadsReturnLastWrite EvictedIsInS3 DrainsAreExact
CHECK_DEADLOCK FALSE
