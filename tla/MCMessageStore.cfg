\* Two workers, the messages between two users; one call may fail.
SPECIFICATION Spec
CONSTANTS
    w1 = w1  w2 = w2
    a = a  b = b
    Worker = {w1, w2}
    User = {a, b}
    NoUser = NoUser
    BadId = 99
    MaxRequest = 4
    MaxFault = 1
SYMMETRY MCSymmetry
INVARIANTS
    StoredIsFound
    MessageIdsUnique
    OneSession
    UnreadIsListed
CHECK_DEADLOCK FALSE
