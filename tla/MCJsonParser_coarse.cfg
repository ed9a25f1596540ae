CONSTANTS
    Files <- MCFiles
    RegularFiles <- MCRegularFiles
    JsonFiles <- MCJsonFiles
    Docs <- MCDocs
    MaxMtime = 2
    WriteTicks = {0, 1}
    NoFile = NoFile
SPECIFICATION Spec
PROPERTY SkippedRequestIsCurrent
