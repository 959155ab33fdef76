CONSTANTS
    Cores = {1, 2}
    MaxIdentifiers = 2
SPECIFICATION UpdSpec
INVARIANT SwapCrashSafe
CHECK_DEADLOCK FALSE
