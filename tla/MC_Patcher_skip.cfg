\* A fixup whose value lies in no file-backed section (.bss) must be skipped.
CONSTANTS
    NumModules = 1
    MaxRuns = 1
    WordBits = 16
    UldListing <- MC_UldListing
    FsTable <- MC_FsTable
    ElfFiles <- MC_ElfFiles
    SearchDirs <- MC_SearchDirs
SPECIFICATION Spec
INVARIANT UnresolvedValueSkipped
