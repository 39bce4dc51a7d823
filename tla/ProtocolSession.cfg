\* Two files, one crash, two frames; see MCConfigs.
SPECIFICATION PSpec
CONSTANTS
    Configs <- MCConfigs
    Names = {"s", "d"}
    Missing = Missing
    MaxCrashes = 1
    MaxEntries = 3
    Burst = 1
    MaxFrames = 2
INVARIANTS
    PTypeOK
    RunningIsComplete
    UnusableFilesWereInterrupted
    NumbersIncrease
    NumbersAreAccountedFor
PROPERTIES
    LogonsAreAnswered
    ImplementsNumberedChannels
CHECK_DEADLOCK FALSE
