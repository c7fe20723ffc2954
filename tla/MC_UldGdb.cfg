\* One GDB session: check, commands, example set, the program exiting and a reconnection to either stub.
CONSTANTS
    HasEvents = TRUE
    MonitorFails = TRUE
    MaxConnects = 1
    Prog <- MC_Prog
    ExampleArgs <- MC_ExampleArgs
SPECIFICATION Spec
INVARIANT TypeOK
INVARIANT HandlerRegisteredOnce
