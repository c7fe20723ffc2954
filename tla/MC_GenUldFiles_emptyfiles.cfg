\* A link that keeps .files even when no file is embedded: the empty table.
CONSTANTS
    InputLists <- MC_InputLists
    FwListing <- MC_FwListingKeepFiles
    FileAlign = 3
    TableSize = 52
    FilesLma = 256
    TableLma = 512
    WordBits = 16
    Faults = {}
SPECIFICATION Spec
INVARIANTS
    FsTableRoundTrip
