CONSTANTS
    s1 = s1
    s2 = s2
    Session = {s1}
    InitFiles = {1, 2, 3}
    Utf8Files = {1, 2, 3}
    EMPTY = ""
    USERNAME = "user"
    PASSWORD = "pass"
    Numeral <- MCNumeral
    Commands <- MCCommandsWellFormed
    MaxBatch = 2
SPECIFICATION Spec
PROPERTIES
    MarksFrozenAfterQuit
