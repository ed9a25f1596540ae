CONSTANTS
    Files <- MCFiles
    RegularFiles <- MCRegularFiles
    JsonFiles <- MCJsonFiles
    Docs <- MCDocs
    MaxMtime = 2
    WriteTicks = {1}
    NoFile = NoFile
SPECIFICATION Spec
INVARIANT TypeOK
INVARIANT RequestServesCurrentFile
PROPERTY ImplementsService
