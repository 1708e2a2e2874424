CONSTANTS
    Session = {c1}
    Users = {u1, u2}
    Addresses = {a1, a2}
    NONE = NONE
    BadToken = BadToken
    NotB64 = NotB64
    BadArg = BadArg
    MaxTime = 1
    MaxMsgs = 2
    MaxBuf = 3
SPECIFICATION Spec
INVARIANT AcceptedStored
