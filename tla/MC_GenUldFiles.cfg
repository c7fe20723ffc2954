\* Every fault but a short write of the header: the build's guarantees.
CONSTANTS
    InputLists <- MC_InputLists
    FwListing <- MC_FwListing
    FileAlign = 3
    TableSize = 52
    FilesLma = 256
    TableLma = 512
    WordBits = 16
    Faults = {"open_obj", "open_in", "objcopy", "open_hdr", "write_hdr", "rename", "kill"}
SPECIFICATION Spec
INVARIANTS
    
    OutputsTouchedOnlyAfterTableBuilt
    BuildComplete
    FsTableRoundTrip
