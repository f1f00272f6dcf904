SPECIFICATION PlotterSpec
CONSTANTS
    MaxCuts = 2
    Transports = {"classic", "usb"}
    Chunks = 2
    MaxBreaks = 1
    MaxResets = 1
INVARIANTS ChargedIsCut StoppedNotCharged
PROPERTIES CutsReported
CHECK_DEADLOCK FALSE
