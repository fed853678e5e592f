SPECIFICATION Spec
CONSTANTS
    Workers <- MCWorkers
    Entries <- MCEntries
    Regular <- MCRegular
    Ranges <- MCRanges
    Cmdlines <- MCCmdlines
    Images <- MCImages
INVARIANTS
    TypeOK
    OutputLinesAreWhole
    NoticedFailuresFailTheRun
PROPERTIES
    ImplementsChecksumList
    DwarfsckTerminates
