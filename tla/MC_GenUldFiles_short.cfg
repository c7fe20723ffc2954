\* A header write that stores only part of the table (disk full).
CONSTANTS
    InputLists <- MC_InputLists
    FwListing <- MC_FwListing
    FileAlign = 3
    TableSize = 52
    FilesLma = 256
    TableLma = 512
    WordBits = 16
    Faults = {"short_write"}
SPECIFICATION Spec
INVARIANTS
    BuildComplete
