SPECIFICATION Spec
CONSTANTS
    Workers <- MCWorkers
    Entries <- MCEntries
    Regular <- MCRegular
    Ranges <- MCRanges
    Cmdlines <- MCCmdlines
    Images <- MCImages
INVARIANT ExitZeroMeansAllWasRead
