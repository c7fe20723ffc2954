\* os.rename fails (EXDEV: the temporary file is on another file system).
CONSTANTS
    InputLists <- MC_InputLists
    FwListing <- MC_FwListing
    FileAlign = 3
    TableSize = 52
    FilesLma = 256
    TableLma = 512
    WordBits = 16
    Faults = {"rename"}
SPECIFICATION Spec
INVARIANTS
    FailureLeavesOutputs
