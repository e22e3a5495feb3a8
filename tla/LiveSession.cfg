SPECIFICATION Spec
CONSTANTS
    MaxDown = 1
INVARIANT FrozenIsHalted
CHECK_DEADLOCK FALSE
