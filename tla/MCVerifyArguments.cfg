\* What a value that is not a number leads to (README, line 40).
SPECIFICATION Spec
CONSTANTS
    CommandLines <- MCCommandLines
    MaxDevices = 2
    DefaultTimeout = 3
    DefaultFrames = 2
    Wait = 2
INVARIANT InvalidArgumentsExitOne
CHECK_DEADLOCK FALSE
