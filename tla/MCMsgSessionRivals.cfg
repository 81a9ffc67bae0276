CONSTANTS
    c1 = c1  c2 = c2  c3 = c3
    n1 = n1  n2 = n2  n3 = n3
    u1 = u1  u2 = u2
    o1 = o1  o2 = o2  o3 = o3
    Conn = {c1, c2, c3}
    Handle = {1, 2, 3}
    Name = {n1}
    Uid = {u1}
    UserObj = {o1}
    PC = PC
    Mobile = Mobile
    Class = {PC, Mobile}
    UidOf <- MCUidOf
    NoConn = NoConn
    NoHandle = NoHandle
    NoName = NoName
    NoUid = NoUid
    NoUser = NoUser
    NoClass = NoClass
    MaxValidating = 2
SPECIFICATION Spec
SYMMETRY MCSymmetry
INVARIANTS
    OneClientPerClass
