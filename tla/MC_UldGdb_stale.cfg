\* uld qemu commands after the program exits and GDB reconnects.
CONSTANTS
    HasEvents = TRUE
    MonitorFails = TRUE
    MaxConnects = 1
    Prog <- MC_Prog
    ExampleArgs <- MC_ExampleArgs
SPECIFICATION Spec
PROPERTY UldCommandsAdvance
