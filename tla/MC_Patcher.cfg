\* Finalize run over one module of every fixup list and PLT/GOT shape.
CONSTANTS
    NumModules = 2
    MaxRuns = 1
    WordBits = 16
    UldListing <- MC_UldListing
    FsTable <- MC_FsTable
    ElfFiles <- MC_ElfFiles
    SearchDirs <- MC_SearchDirs
SPECIFICATION Spec
PROPERTY RefinesFinalize
INVARIANT ChecksumsStayCurrent
