\* A --elf-search-path directory may hold another build of a module than the one embedded.
CONSTANTS
    NumModules = 1
    MaxRuns = 1
    WordBits = 16
    UldListing <- MC_UldListing
    FsTable <- MC_FsTable
    ElfFiles <- MC_ElfFiles
    SearchDirs <- MC_SearchDirsStale
SPECIFICATION Spec
PROPERTY RefinesFinalize
