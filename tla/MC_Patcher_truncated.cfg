\* One finalize run over one module of every shape whose NOBITS section has a name readelf -S cuts short.
CONSTANTS
    NumModules = 1
    MaxRuns = 1
    WordBits = 16
    UldListing <- MC_UldListing
    FsTable <- MC_FsTable
    ElfFiles <- MC_ElfFilesLongNobits
    SearchDirs <- MC_SearchDirs
SPECIFICATION Spec
INVARIANT NobitsPointersKept
