SPECIFICATION Spec
CONSTANTS
    N = 1
    MayCrash = {}
    MayFail = FALSE
INVARIANT StatusZeroIsSuccess
CHECK_DEADLOCK FALSE
