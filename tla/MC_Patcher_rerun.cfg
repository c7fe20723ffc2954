\* Two finalize runs over one module of every shape, its NOBITS section named .bss or .noinit, found or not in the search path, each ending in success or any exception.
CONSTANTS
    NumModules = 1
    MaxRuns = 2
    WordBits = 16
    UldListing <- MC_UldListing
    FsTable <- MC_FsTable
    ElfFiles <- MC_ElfFilesNoinit
    SearchDirs <- MC_SearchDirsAll
SPECIFICATION Spec
INVARIANT FixupWordsLinkedOrFinal
INVARIANT NobitsPointersKept
