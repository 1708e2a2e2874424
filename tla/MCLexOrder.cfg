CONSTANTS
    s1 = s1
    s2 = s2
    Session = {s1}
    InitFiles = {1, 2, 10}
    Utf8Files = {1, 2, 10}
    EMPTY = ""
    USERNAME = "user"
    PASSWORD = "pass"
    Numeral <- MCNumeral
    Commands <- MCCommandsWellFormed
    MaxBatch = 1
SPECIFICATION Spec
PROPERTIES
    RemovesOnlyMarked
