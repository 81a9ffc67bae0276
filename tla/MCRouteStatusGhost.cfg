CONSTANTS
    s1 = s1  s2 = s2  u1 = u1  win = win  mac = mac  ios = ios
    Server = {s1, s2}
    Uid = {u1}
    Type = {win, mac, ios}
    PCType = {win, mac}
    MaxClients = 1
    MaxQueue = 2
    MaxBreaks = 1
SPECIFICATION Spec
SYMMETRY MCSymmetry
INVARIANTS
    OnlineIsReal
