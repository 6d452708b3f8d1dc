SPECIFICATION Spec
CONSTANTS
    Block = 4
    MaxHeaders = 4
    Archives <- MCArchives
    Wanted <- MCWanted
PROPERTY StrcmpSaysSame
