SPECIFICATION Spec
CONSTANTS
    MaxBlocks = 3
    MaxArgs = 2
    Bounds <- MCBounds
INVARIANT TextBeforeFailure
