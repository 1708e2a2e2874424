CONSTANTS
    s1 = s1
    s2 = s2
    Session = {s1, s2}
    InitFiles = {1, 2, 3}
    Utf8Files = {1, 2, 3}
    EMPTY = ""
    USERNAME = "user"
    PASSWORD = "pass"
    Numeral <- MCNumeral
    Commands <- MCCommandsTwo
    MaxBatch = 1
SPECIFICATION Spec
INVARIANTS
    NoCommitAbort
