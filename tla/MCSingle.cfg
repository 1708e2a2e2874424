CONSTANTS
    s1 = s1
    s2 = s2
    Session = {s1}
    InitFiles = {1, 2, 3, 4}
    Utf8Files = {1, 2, 4}
    EMPTY = ""
    USERNAME = "user"
    PASSWORD = "pass"
    Numeral <- MCNumeral
    Commands <- MCCommandsFull
    MaxBatch = 1
SPECIFICATION Spec
INVARIANTS
    TypeOK
    AuthBeforeTransaction
    ReplyConsistent
PROPERTIES
    MailboxSpec
    QuitLeadsToCommit
