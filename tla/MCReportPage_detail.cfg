CONSTANTS
    Files <- MCFiles
    RegularFiles <- MCFiles
    JsonFiles <- MCFiles
    Docs <- MCDocs
    MaxMtime = 2
    WriteTicks = {1}
    NoFile = NoFile
    MaxConns = 3
SPECIFICATION PageSpec
PROPERTY SubcaseDetailSafe
