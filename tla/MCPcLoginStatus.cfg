CONSTANTS
    s1 = s1  s2 = s2  u1 = u1  win = win  mac = mac  ios = ios
    Server = {s1, s2}
    Uid = {u1}
    Type = {win, ios}
    PCType = {win}
    MaxClients = 1
    MaxQueue = 2
    MaxBreaks = 2
    MaxNotices = 2
SPECIFICATION PcSpec
SYMMETRY MCSymmetry
INVARIANTS
    TableIsSafe
    ExactWithoutBreaks
    PushIsRight
