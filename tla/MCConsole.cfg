SPECIFICATION Spec
CONSTANTS
    Width = 3
    BufSize = 16
    InputSize = 4
    Program <- MCProgram
    Typeable = {"KeyA", "KeyM", "KeyBracket", "Backspace", "Enter"}
    MaxKeys = 2
INVARIANTS
    TypeOK
    DrawsOnRow
    HealsTheConsole
CHECK_DEADLOCK FALSE
