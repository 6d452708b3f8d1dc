SPECIFICATION Spec
CONSTANTS
    Width = 3
    BufSize = 4
    InputSize = 4
INVARIANTS
    TypeOK
    InputTerminated
    EchoMatches
PROPERTY LineEditorContract
