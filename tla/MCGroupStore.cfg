\* Two workers, a group of two founders; two calls may fail.
SPECIFICATION Spec
CONSTANTS
    w1 = w1  w2 = w2
    a = a  b = b  c = c
    Worker = {w1, w2}
    User = {a, b, c}
    Founder = {a, b}
    NoUser = NoUser
    BadId = 99
    MaxRequest = 4
    MaxFault = 2
SYMMETRY MCSymmetry
INVARIANTS
    CountNeverAhead
    MessageIdsUnique
    TotalIsStored
    CopyIsExact
    VersionCoversMembers
    AnswersFitTable
PROPERTIES
    ReadStaysRead
CHECK_DEADLOCK FALSE
