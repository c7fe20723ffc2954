\* An image whose checksums all match must be the finalized image, across reruns.
CONSTANTS
    NumModules = 1
    MaxRuns = 2
    WordBits = 16
    UldListing <- MC_UldListing
    FsTable <- MC_FsTable
    ElfFiles <- MC_ElfFiles
    SearchDirs <- MC_SearchDirs
SPECIFICATION Spec
INVARIANT VerifiedImpliesFinalized
