SPECIFICATION Spec
CONSTANTS
    Width = 3
    BufSize = 16
    InputSize = 4
    Program <- MCProgram
    Typeable = {"KeyA", "KeyM", "KeyBracket", "Backspace", "Enter"}
    MaxKeys = 1
PROPERTY CompleteIsRecognised
CHECK_DEADLOCK FALSE
