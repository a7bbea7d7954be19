SPECIFICATION FairSpec
CONSTANTS
    App = App
    Lib = Lib
    Ghost = Ghost
    Plugin <- MCPlugin
    Builtin <- BuiltinNames
    Required <- BuiltinRequires
    NeededFor <- BuiltinNeededFor
    Self = "self"
    UserLists <- MCUserLists
INVARIANTS
    TypeOK
    RequiredFirst
    SourceUsed
    UnmetIsCircular
PROPERTY
    BootEnds
CHECK_DEADLOCK FALSE
