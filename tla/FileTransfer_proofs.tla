------------------------ MODULE FileTransfer_proofs ------------------------
\* Proofs of the safety properties of FileTransfer, for receivers that come
\* when nobody is at an offline task.
EXTENDS FileTransfer, TLAPS

\* What state, connections, index and file of an offline task say of each other.
OfflineOK(k, d) ==
    /\ k.state \in {"Ready", "WaitingUpload", "Uploading", "WaitingDownload", "Downloading"}
    /\ k.at["Sender"] # NoConn => k.state \in {"WaitingUpload", "Uploading"}
    /\ k.at["Receiver"] # NoConn => k.state \in {"WaitingDownload", "Downloading"}
    /\ (k.at["Sender"] = NoConn /\ k.at["Receiver"] = NoConn) =>
            k.state \in {"Ready", "WaitingUpload"}
    /\ k.state \in {"Ready", "WaitingUpload"} => k.idx = 0
    /\ k.state = "Uploading" => k.idx < Blocks /\ 0 <= d /\ d <= k.idx
    /\ k.state \in {"WaitingDownload", "Downloading"} => d = Blocks

\* What state and connections of an online task say of each other.
OnlineOK(k) ==
    /\ k.state \in {"Invalid", "Ready", "WaitingSender", "WaitingReceiver"} \cup Relaying
    /\ (k.at["Sender"] = NoConn /\ k.at["Receiver"] = NoConn) <=> k.state = "Ready"
    /\ k.state = "WaitingSender" => k.at["Receiver"] # NoConn
    /\ k.state = "WaitingReceiver" => k.at["Sender"] # NoConn
    /\ k.state \in Relaying => k.at["Sender"] # NoConn /\ k.at["Receiver"] # NoConn

TaskOK(t, k, d) == IF t \in OnlineTask THEN OnlineOK(k) ELSE OfflineOK(k, d)

\* Live tasks are in order, a connection's task points back to it, and what a
\* task points to works on it.
TasksOK == \A t \in Task : task[t].live => t \in created /\ TaskOK(t, task[t], disk[t])
ConnsOK == \A c \in Conn : conn[c].task # NoTask =>
    conn[c].up /\ task[conn[c].task].live /\ task[conn[c].task].at[conn[c].role] = c

\* The inductive invariant.
IInv == TypeOK /\ TasksOK /\ ConnsOK /\ TaskConnIsOpen

LEMMA NewTaskType ==
    ASSUME NEW s \in State
    PROVE  /\ NewTask(s) \in TaskType /\ NewTask(s).live
           /\ NewTask(s).state = s /\ NewTask(s).idx = 0
           /\ NewTask(s).at["Sender"] = NoConn /\ NewTask(s).at["Receiver"] = NoConn
           /\ \A r \in Role : NewTask(s).at[r] = NoConn
<1>1. 0 \in 0..Blocks
    BY BlocksAssumption
<1>2. [r \in Role |-> NoConn] \in [Role -> Conn \cup {NoConn}]
    OBVIOUS
<1>. QED BY <1>1, <1>2 DEF NewTask, TaskType, Role

LEMMA GoneType == Gone \in TaskType /\ ~Gone.live /\ \A r \in Role : Gone.at[r] = NoConn
<1>1. "Invalid" \in State
    BY DEF State
<1>. QED BY <1>1, NewTaskType DEF Gone, TaskType

LEMMA FreeConnType == FreeConn \in ConnType /\ FreeConn.task = NoTask
BY BlocksAssumption DEF FreeConn, ConnType, Role, NoReq

LEMMA InitIInv == Init => IInv
<1>. SUFFICES ASSUME Init PROVE IInv
    OBVIOUS
<1>1. TypeOK
    BY GoneType, FreeConnType, BlocksAssumption DEF Init, TypeOK
<1>2. \A t \in Task : ~task[t].live /\ \A r \in Role : task[t].at[r] = NoConn
    BY GoneType DEF Init
<1>3. \A c \in Conn : conn[c].task = NoTask
    BY FreeConnType DEF Init
<1>. QED BY <1>1, <1>2, <1>3 DEF IInv, TasksOK, ConnsOK, TaskConnIsOpen

\* A step that gives one task and one connection new values, which keep to each
\* other, keeps the invariant.
LEMMA OneTaskOneConn ==
    ASSUME IInv, TypeOK', NEW t \in Task, NEW c \in Conn,
           conn[c].task \in {NoTask, t}, created' = created,
           \A s \in Task : s # t => task'[s] = task[s] /\ disk'[s] = disk[s],
           \A d \in Conn : d # c => conn'[d] = conn[d],
           task'[t].live => t \in created /\ TaskOK(t, task'[t], disk'[t]),
           conn'[c].task # NoTask => conn'[c].task = t /\ conn'[c].up /\ task'[t].live
                                     /\ task'[t].at[conn'[c].role] = c,
           \A r \in Role : task'[t].at[r] # NoConn => task'[t].live,
           \A r \in Role : task'[t].at[r] = c =>
                conn'[c].task = t /\ conn'[c].up /\ conn'[c].role = r,
           \A r \in Role : task'[t].at[r] \notin {NoConn, c} => task'[t].at[r] = task[t].at[r],
           \A r \in Role : task[t].at[r] \notin {NoConn, c} => task'[t].at[r] = task[t].at[r]
    PROVE  IInv'
<1>. DEFINE k == task'[t]
            e == conn'[c]
<1>1. /\ task' \in [Task -> TaskType] /\ task'[t] = k
      /\ \A s \in Task : s # t => task'[s] = task[s]
    BY DEF TypeOK
<1>2. /\ conn' \in [Conn -> ConnType] /\ conn'[c] = e
      /\ \A d \in Conn : d # c => conn'[d] = conn[d]
    BY DEF TypeOK
<1>3. TypeOK'
    OBVIOUS
<1>4. TasksOK'
    BY <1>1 DEF IInv, TasksOK, TaskOK
<1>5. ConnsOK'
    <2>. SUFFICES ASSUME NEW d \in Conn, conn'[d].task # NoTask
         PROVE /\ conn'[d].up /\ task'[conn'[d].task].live
               /\ task'[conn'[d].task].at[conn'[d].role] = d
        BY DEF ConnsOK
    <2>1. CASE d = c
        BY <1>1, <1>2, <2>1
    <2>2. CASE d # c
        <3>1. /\ conn'[d] = conn[d] /\ conn[d].task \in Task /\ conn[d].role \in Role
              /\ conn[d].up /\ task[conn[d].task].live
              /\ task[conn[d].task].at[conn[d].role] = d
            BY <1>2, <2>2 DEF IInv, TypeOK, ConnType, ConnsOK
        <3>2. CASE conn[d].task = t
            <4>1. k.at[conn[d].role] = d
                BY <2>2, <3>1, <3>2, NullAssumption
            <4>2. k.live
                BY <3>1, <4>1, NullAssumption
            <4>. QED BY <1>1, <3>1, <3>2, <4>1, <4>2
        <3>3. CASE conn[d].task # t
            BY <1>1, <3>1, <3>3
        <3>. QED BY <3>2, <3>3
    <2>. QED BY <2>1, <2>2
<1>6. TaskConnIsOpen'
    <2>. SUFFICES ASSUME NEW s \in Task, NEW r \in Role, task'[s].at[r] # NoConn
         PROVE /\ task'[s].live /\ conn'[task'[s].at[r]].up
               /\ conn'[task'[s].at[r]].task = s /\ conn'[task'[s].at[r]].role = r
        BY DEF TaskConnIsOpen
    <2>1. CASE s = t /\ k.at[r] = c
        BY <1>1, <1>2, <2>1, NullAssumption
    <2>2. CASE s = t /\ k.at[r] # c
        <3>1. /\ k.at[r] = task[t].at[r] /\ k.live /\ k.at[r] \in Conn
            BY <1>1, <2>2 DEF TaskType
        <3>2. conn[k.at[r]].up /\ conn[k.at[r]].task = t /\ conn[k.at[r]].role = r
            BY <1>1, <2>2, <3>1 DEF IInv, TaskConnIsOpen
        <3>. QED BY <1>1, <1>2, <2>2, <3>1, <3>2
    <2>3. CASE s # t
        <3>1. task'[s] = task[s] /\ task[s].at[r] \in Conn
            BY <1>1, <2>3 DEF IInv, TypeOK, TaskType
        <3>2. /\ task[s].live /\ conn[task[s].at[r]].up
              /\ conn[task[s].at[r]].task = s /\ conn[task[s].at[r]].role = r
            BY <3>1 DEF IInv, TaskConnIsOpen
        <3>3. task[s].at[r] # c
            BY <2>3, <3>2, NullAssumption
        <3>. QED BY <1>2, <3>1, <3>2, <3>3
    <2>. QED BY <2>1, <2>2, <2>3
<1>. QED BY <1>3, <1>4, <1>5, <1>6 DEF IInv

\* What a connection with a task and the task say of each other.
LEMMA AtTask ==
    ASSUME IInv, NEW c \in Conn, conn[c].task # NoTask
    PROVE  /\ conn[c].task \in Task /\ conn[c].role \in Role /\ conn[c].up
           /\ conn[c] \in ConnType /\ task[conn[c].task] \in TaskType
           /\ task[conn[c].task].live /\ task[conn[c].task].at[conn[c].role] = c
           /\ conn[c].task \in created
           /\ TaskOK(conn[c].task, task[conn[c].task], disk[conn[c].task])
           /\ \A r \in Role : task[conn[c].task].at[r] = c => conn[c].role = r
<1>1. /\ conn[c].task \in Task /\ conn[c].role \in Role /\ conn[c].up
      /\ conn[c] \in ConnType /\ task[conn[c].task] \in TaskType
      /\ task[conn[c].task].live /\ task[conn[c].task].at[conn[c].role] = c
    BY DEF IInv, TypeOK, ConnType, ConnsOK
<1>. QED BY <1>1, NullAssumption DEF IInv, TasksOK, TaskConnIsOpen

\* A step that leaves to every task its connections and to every connection its
\* task keeps the invariant if the tasks stay in order.
LEMMA SameConns ==
    ASSUME IInv, TypeOK', TasksOK',
           \A d \in Conn : conn'[d].up = conn[d].up /\ conn'[d].task = conn[d].task
                           /\ conn'[d].role = conn[d].role,
           \A s \in Task : task'[s].live = task[s].live /\ task'[s].at = task[s].at
    PROVE  IInv'
<1>1. ConnsOK'
    BY DEF IInv, TypeOK, ConnType, ConnsOK
<1>2. TaskConnIsOpen'
    <2>. SUFFICES ASSUME NEW s \in Task, NEW r \in Role, task'[s].at[r] # NoConn
         PROVE /\ task'[s].live /\ conn'[task'[s].at[r]].up
               /\ conn'[task'[s].at[r]].task = s /\ conn'[task'[s].at[r]].role = r
        BY DEF TaskConnIsOpen
    <2>1. task'[s].at[r] = task[s].at[r] /\ task[s].at[r] \in Conn
        BY DEF IInv, TypeOK, TaskType
    <2>2. /\ task[s].live /\ conn[task[s].at[r]].up
          /\ conn[task[s].at[r]].task = s /\ conn[task[s].at[r]].role = r
        BY <2>1 DEF IInv, TaskConnIsOpen
    <2>. QED BY <2>1, <2>2
<1>. QED BY <1>1, <1>2 DEF IInv

\* A step that gives one connection without a task a new value without a task
\* keeps the invariant.
LEMMA OneFreeConn ==
    ASSUME IInv, NEW c \in Conn, conn[c].task = NoTask, NEW e \in ConnType, e.task = NoTask,
           conn' = [conn EXCEPT ![c] = e], UNCHANGED <<task, disk, created>>
    PROVE  IInv'
<1>1. /\ conn' \in [Conn -> ConnType] /\ conn'[c] = e
      /\ \A d \in Conn : d # c => conn'[d] = conn[d]
    BY DEF IInv, TypeOK
<1>2. TypeOK' /\ TasksOK'
    BY <1>1 DEF IInv, TypeOK, TasksOK, TaskOK
<1>3. ConnsOK'
    BY <1>1 DEF IInv, ConnsOK
<1>4. TaskConnIsOpen'
    <2>1. \A t \in Task, r \in Role : task[t].at[r] # NoConn =>
            task[t].at[r] \in Conn /\ task[t].at[r] # c
        BY NullAssumption DEF IInv, TypeOK, TaskType, TaskConnIsOpen
    <2>. QED BY <1>1, <2>1 DEF IInv, TaskConnIsOpen
<1>. QED BY <1>2, <1>3, <1>4 DEF IInv

\* A connection that leaves its task keeps the invariant, also when it is the
\* last block of an offline file that ends it.
LEMMA CloseKeeps ==
    ASSUME IInv, NEW c \in Conn, conn[c].task # NoTask,
           NEW k \in TaskType, k.live, k.at = task[conn[c].task].at,
           k = task[conn[c].task] \/ (conn[c].task \notin OnlineTask /\ k.state = "UploadEnd"),
           CloseWith(c, k), created' = created, disk' \in [Task -> -1..Blocks],
           \A s \in Task : s # conn[c].task => disk'[s] = disk[s]
    PROVE  IInv'
<1>. DEFINE t == conn[c].task
            r == conn[c].role
            left == Left(t, k, r)
            new == IF Deleted(t, left) THEN Gone ELSE left
<1>1. /\ t \in Task /\ r \in Role /\ task[t] \in TaskType /\ task[t].live
      /\ task[t].at[r] = c /\ t \in created /\ TaskOK(t, task[t], disk[t])
      /\ \A q \in Role : task[t].at[q] = c => r = q
    BY AtTask
<1>2. /\ left \in TaskType /\ left.live /\ left.at[r] = NoConn /\ left.idx = k.idx
      /\ \A q \in Role : q # r => left.at[q] = task[t].at[q]
      /\ t \in OnlineTask => left.state = "Invalid"
      /\ t \notin OnlineTask /\ left.state = "WaitingUpload" => k.state = "WaitingUpload"
    BY <1>1 DEF Left, TaskType, State, Role
<1>3. new \in TaskType
    BY <1>2, GoneType
<1>4. ~Deleted(t, left) => TaskOK(t, left, disk'[t])
    <2>1. CASE t \in OnlineTask
        BY <1>2, <2>1 DEF Deleted, TaskOK, OnlineOK, Role, Relaying
    <2>2. CASE t \notin OnlineTask
        <3>. SUFFICES ASSUME left.state = "WaitingUpload" PROVE OfflineOK(left, disk'[t])
            BY <2>2 DEF Deleted, TaskOK
        <3>1. k = task[t] /\ k.state = "WaitingUpload"
            BY <1>2, <2>2
        <3>2. OfflineOK(task[t], disk[t])
            BY <1>1, <2>2 DEF TaskOK
        <3>3. left.idx = 0 /\ task[t].at["Receiver"] = NoConn
            BY <1>2, <3>1, <3>2 DEF OfflineOK
        <3>4. left.at["Receiver"] = NoConn
            BY <1>2, <3>3 DEF Role
        <3>. QED BY <3>3, <3>4 DEF OfflineOK
    <2>. QED BY <2>1, <2>2
<1>5. \A q \in Role : new.at[q] # NoConn => new.live /\ new.at[q] = task[t].at[q] /\ q # r
    BY <1>2, GoneType
<1>6. \A q \in Role : task[t].at[q] \notin {NoConn, c} => new.at[q] = task[t].at[q]
    <2>. SUFFICES ASSUME NEW q \in Role, task[t].at[q] \notin {NoConn, c}
         PROVE ~Deleted(t, left) /\ q # r
        BY <1>2
    <2>1. q # r /\ left.at[q] # NoConn
        BY <1>1, <1>2
    <2>2. CASE t \in OnlineTask
        BY <2>1, <2>2 DEF Deleted
    <2>3. CASE t \notin OnlineTask
        <3>1. OfflineOK(task[t], disk[t])
            BY <1>1, <2>3 DEF TaskOK
        <3>2. task[t].at["Sender"] = NoConn \/ task[t].at["Receiver"] = NoConn
            BY <3>1 DEF OfflineOK
        <3>3. task[t].at[r] # NoConn /\ task[t].at[q] # NoConn
            BY <1>1, NullAssumption
        <3>. QED BY <1>1, <2>1, <3>2, <3>3 DEF Role
    <2>. QED BY <2>1, <2>2, <2>3
<1>7. /\ task' = [task EXCEPT ![t] = new] /\ conn' = [conn EXCEPT ![c] = FreeConn]
    BY DEF CloseWith
<1>8. new.live => t \in created /\ TaskOK(t, new, disk'[t])
    BY <1>1, <1>4, GoneType
<1>9. \A q \in Role : new.at[q] # c
    BY <1>1, <1>5, NullAssumption
<1>10. /\ \A q \in Role : new.at[q] \notin {NoConn, c} => new.at[q] = task[t].at[q]
       /\ \A q \in Role : new.at[q] # NoConn => new.live
    BY <1>5
<1>11. /\ t \in Task /\ conn[c].task \in {NoTask, t}
       /\ \A s \in Task : s # t => task'[s] = task[s] /\ disk'[s] = disk[s]
       /\ \A d \in Conn : d # c => conn'[d] = conn[d]
       /\ task'[t] = new /\ conn'[c] = FreeConn
    BY <1>1, <1>7 DEF IInv, TypeOK
<1>. HIDE DEF new, left
<1>12. TypeOK'
    BY <1>1, <1>3, <1>7, FreeConnType DEF IInv, TypeOK
<1>. HIDE DEF r, t
<1>. QED BY <1>6, <1>8, <1>9, <1>10, <1>11, <1>12, FreeConnType, OneTaskOneConn

LEMMA AnyClose ==
    ASSUME IInv, NEW c \in Conn, Close(c), UNCHANGED <<disk, created>>
    PROVE  IInv'
<1>1. CASE conn[c].task = NoTask
    BY <1>1, FreeConnType, OneFreeConn DEF Close
<1>2. CASE conn[c].task # NoTask
    <2>1. CloseWith(c, task[conn[c].task])
        BY <1>2 DEF Close
    <2>2. task[conn[c].task] \in TaskType /\ task[conn[c].task].live
        BY <1>2, AtTask
    <2>3. disk' \in [Task -> -1..Blocks]
        BY DEF IInv, TypeOK
    <2>. QED BY <1>2, <2>1, <2>2, <2>3, CloseKeeps
<1>. QED BY <1>1, <1>2

LEMMA CreateKeeps ==
    ASSUME IInv, NEW t \in Task, HandleMsgFileTransferReq(t)
    PROVE  IInv'
<1>1. "Ready" \in State
    BY DEF State
<1>2. ~task[t].live /\ \A r \in Role : task[t].at[r] = NoConn
    BY DEF HandleMsgFileTransferReq, IInv, TasksOK, TaskConnIsOpen
<1>3. /\ task' \in [Task -> TaskType] /\ task'[t] = NewTask("Ready")
      /\ \A s \in Task : s # t => task'[s] = task[s]
      /\ created' = created \cup {t} /\ conn' = conn /\ disk' = disk
    BY <1>1, NewTaskType DEF HandleMsgFileTransferReq, IInv, TypeOK
<1>4. TypeOK'
    BY <1>3 DEF IInv, TypeOK
<1>5. TaskOK(t, NewTask("Ready"), disk'[t])
    BY <1>1, NewTaskType DEF TaskOK, OnlineOK, OfflineOK, Relaying
<1>6. TasksOK'
    BY <1>3, <1>5 DEF IInv, TasksOK, TaskOK
<1>7. ConnsOK'
    BY <1>2, <1>3 DEF IInv, ConnsOK, TypeOK, ConnType
<1>8. TaskConnIsOpen'
    BY <1>1, <1>3, NewTaskType DEF IInv, TaskConnIsOpen
<1>. QED BY <1>4, <1>6, <1>7, <1>8 DEF IInv

LEMMA ConnectKeeps ==
    ASSUME IInv, NEW c \in Conn, OnConnect(c)
    PROVE  IInv'
<1>1. conn[c].task = NoTask
    BY DEF IInv, ConnsOK, OnConnect
<1>2. [FreeConn EXCEPT !.up = TRUE] \in ConnType /\ [FreeConn EXCEPT !.up = TRUE].task = NoTask
    BY FreeConnType DEF ConnType
<1>. QED BY <1>1, <1>2, OneFreeConn DEF OnConnect

\* Who logs in finds its own place free, and its task in a state for it.
LEMMA LoginKeeps ==
    ASSUME ~Early, IInv, NEW c \in Conn, NEW t \in Task, NEW r \in Role, Login(c, t, r)
    PROVE  IInv'
<1>. DEFINE k == IF task[t].live THEN task[t] ELSE NewTask("WaitingDownload")
            s == PullState(t, k.state, r)
            joined == [k EXCEPT !.state = s, !.at[r] = c]
<1>1. /\ conn[c].up /\ conn[c].task = NoTask /\ task[t] \in TaskType /\ conn[c] \in ConnType
      /\ task[t].at[r] = NoConn /\ t \in created /\ disk[t] \in -1..Blocks
      /\ task[t].live => TaskOK(t, task[t], disk[t])
    BY DEF Login, Comes, IInv, TypeOK, TasksOK
<1>2. "WaitingDownload" \in State
    BY DEF State
<1>3. /\ k \in TaskType /\ k.live /\ k.at[r] = NoConn
      /\ \A q \in Role : k.at[q] = task[t].at[q]
    BY <1>1, <1>2, NewTaskType DEF IInv, TaskConnIsOpen
<1>4. s \in State
    BY <1>3 DEF PullState, OnlinePullState, OfflinePullState, State, TaskType
<1>5. /\ joined \in TaskType /\ joined.live /\ joined.state = s /\ joined.idx = k.idx
      /\ joined.at[r] = c /\ \A q \in Role : q # r => joined.at[q] = task[t].at[q]
    BY <1>3, <1>4 DEF TaskType
<1>6. TaskOK(t, joined, disk[t])
    <2>1. CASE ~task[t].live
        <3>1. t \notin OnlineTask /\ r = "Receiver" /\ disk[t] = Blocks
            BY <2>1 DEF Login, Loadable
        <3>2. s = "WaitingDownload"
            BY <1>2, <2>1, <3>1, NewTaskType DEF PullState, OfflinePullState
        <3>3. joined.at["Sender"] = NoConn
            BY <1>2, <1>3, <1>5, <2>1, <3>1, NewTaskType DEF Role
        <3>4. joined.at["Receiver"] # NoConn
            BY <1>5, <3>1, NullAssumption
        <3>. QED BY <1>5, <3>1, <3>2, <3>3, <3>4 DEF TaskOK, OfflineOK
    <2>2. CASE task[t].live /\ t \in OnlineTask
        <3>1. OnlineOK(task[t]) /\ k = task[t] /\ c # NoConn
            BY <1>1, <2>2, NullAssumption DEF TaskOK
        <3>2. CASE r = "Sender"
            <4>1. joined.at["Sender"] # NoConn /\ joined.at["Receiver"] = task[t].at["Receiver"]
                BY <1>5, <3>1, <3>2 DEF Role
            <4>2. OnlineOK(joined)
                BY <1>1, <1>5, <2>2, <3>1, <3>2, <4>1
                DEF PullState, OnlinePullState, OnlineOK, Relaying
            <4>. QED BY <2>2, <4>2 DEF TaskOK
        <3>3. CASE r = "Receiver"
            <4>1. joined.at["Receiver"] # NoConn /\ joined.at["Sender"] = task[t].at["Sender"]
                BY <1>5, <3>1, <3>3 DEF Role
            <4>2. OnlineOK(joined)
                BY <1>1, <1>5, <2>2, <3>1, <3>3, <4>1
                DEF PullState, OnlinePullState, OnlineOK, Relaying
            <4>. QED BY <2>2, <4>2 DEF TaskOK
        <3>. QED BY <3>2, <3>3 DEF Role
    <2>3. CASE task[t].live /\ t \notin OnlineTask
        <3>1. OfflineOK(task[t], disk[t]) /\ k = task[t] /\ c # NoConn
            BY <1>1, <2>3, NullAssumption DEF TaskOK
        <3>2. r = "Sender" /\ disk[t] < Blocks
            BY <2>3 DEF Login, Comes, Role
        <3>3. disk[t] # Blocks
            BY <1>1, <3>2, BlocksAssumption
        <3>4. task[t].state \in {"Ready", "WaitingUpload"} /\ task[t].at["Receiver"] = NoConn
            BY <1>1, <3>1, <3>2, <3>3 DEF OfflineOK
        <3>5. s = "WaitingUpload"
            BY <2>3, <3>1, <3>2, <3>4 DEF PullState, OfflinePullState
        <3>6. joined.at["Receiver"] = NoConn /\ joined.at["Sender"] # NoConn /\ joined.idx = 0
            BY <1>5, <3>1, <3>2, <3>4 DEF Role, OfflineOK
        <3>. QED BY <1>5, <2>3, <3>5, <3>6 DEF TaskOK, OfflineOK
    <2>. QED BY <2>1, <2>2, <2>3
<1>7. /\ task' \in [Task -> TaskType] /\ task'[t] = joined
      /\ \A u \in Task : u # t => task'[u] = task[u]
      /\ disk' = disk /\ created' = created
    BY <1>5 DEF Login, IInv, TypeOK
<1>8. /\ conn' \in [Conn -> ConnType] /\ \A d \in Conn : d # c => conn'[d] = conn[d]
      /\ conn'[c].task = t /\ conn'[c].up /\ conn'[c].role = r
    <2>. DEFINE req == IF r = "Sender" /\ s = "WaitingUpload" THEN 0 ELSE NoReq
                e == [conn[c] EXCEPT !.task = t, !.role = r, !.req = req]
    <2>1. conn' = [conn EXCEPT ![c].task = t, ![c].role = r, ![c].req = req]
        BY DEF Login
    <2>2. req \in NoReq..Blocks - 1
        BY BlocksAssumption DEF NoReq
    <2>. HIDE DEF req
    <2>3. e \in ConnType /\ e.task = t /\ e.up /\ e.role = r
        BY <1>1, <2>2 DEF ConnType
    <2>4. conn' = [conn EXCEPT ![c] = e]
        BY <2>1 DEF IInv, TypeOK, ConnType
    <2>. HIDE DEF e
    <2>. QED BY <2>3, <2>4 DEF IInv, TypeOK
<1>. HIDE DEF joined, s, k
<1>9. TypeOK'
    BY <1>7, <1>8 DEF IInv, TypeOK
<1>10. \A q \in Role : joined.at[q] \notin {NoConn, c} => joined.at[q] = task[t].at[q]
    BY <1>5
<1>11. \A q \in Role : task[t].at[q] \notin {NoConn, c} => joined.at[q] = task[t].at[q]
    BY <1>1, <1>5
<1>12. \A q \in Role : joined.at[q] = c => q = r
    <2>1. \A q \in Role : task[t].at[q] # c
        BY <1>1, NullAssumption DEF IInv, TaskConnIsOpen
    <2>. QED BY <1>5, <2>1
<1>. QED BY <1>1, <1>5, <1>6, <1>7, <1>8, <1>9, <1>10, <1>11, <1>12, OneTaskOneConn

\* The task of one connection goes on with the connections it has.
LEMMA GoesOn ==
    ASSUME IInv, NEW t \in Task, task[t].live, NEW st \in State, NEW i \in 0..Blocks,
           task' = [task EXCEPT ![t] = [task[t] EXCEPT !.state = st, !.idx = i]],
           disk' \in [Task -> -1..Blocks], \A s \in Task : s # t => disk'[s] = disk[s],
           TaskOK(t, [task[t] EXCEPT !.state = st, !.idx = i], disk'[t]),
           created' = created, conn' \in [Conn -> ConnType],
           \A d \in Conn : conn'[d].up = conn[d].up /\ conn'[d].task = conn[d].task
                           /\ conn'[d].role = conn[d].role
    PROVE  IInv'
<1>. DEFINE k == [task[t] EXCEPT !.state = st, !.idx = i]
<1>1. task[t] \in TaskType /\ t \in created
    BY DEF IInv, TypeOK, TasksOK
<1>2. k \in TaskType /\ k.live /\ k.at = task[t].at
    BY <1>1 DEF TaskType
<1>. HIDE DEF k
<1>3. /\ task' \in [Task -> TaskType] /\ task'[t] = k
      /\ \A s \in Task : s # t => task'[s] = task[s]
    BY <1>2 DEF IInv, TypeOK, k
<1>4. TypeOK'
    BY <1>3 DEF IInv, TypeOK
<1>5. TaskOK(t, k, disk'[t])
    BY DEF k
<1>6. TasksOK'
    BY <1>1, <1>3, <1>5 DEF IInv, TasksOK, TaskOK
<1>7. \A s \in Task : task'[s].live = task[s].live /\ task'[s].at = task[s].at
    BY <1>2, <1>3
<1>. QED BY <1>4, <1>6, <1>7, SameConns

LEMMA PullOnlineKeeps ==
    ASSUME IInv, NEW c \in Conn, PullOnline(c)
    PROVE  IInv'
<1>1. PICK t \in OnlineTask :
        /\ Pulls(c, t) /\ task[t].state \in Relaying
        /\ task' = [task EXCEPT ![t].state = "Transfering"]
        /\ conn' = [d \in Conn |-> IF d \in {c, task[t].at["Sender"]}
                                    THEN [conn[d] EXCEPT !.req = conn[c].got] ELSE conn[d]]
        /\ UNCHANGED <<disk, created>>
    BY DEF PullOnline
<1>2. t \in Task /\ conn[c].task = t /\ conn[c].got \in 0..Blocks /\ conn[c].got < Blocks
    BY <1>1, SetAssumption DEF Pulls, IInv, TypeOK, ConnType
<1>3. /\ task[t].live /\ task[t] \in TaskType /\ OnlineOK(task[t])
    BY <1>1, <1>2, NullAssumption, AtTask DEF TaskOK
<1>4. conn[c].got \in NoReq..Blocks - 1
    BY <1>2, BlocksAssumption DEF NoReq
<1>5. \A d \in Conn : [conn[d] EXCEPT !.req = conn[c].got] \in ConnType
    BY <1>4 DEF IInv, TypeOK, ConnType
<1>6. conn' \in [Conn -> ConnType]
    BY <1>1, <1>5 DEF IInv, TypeOK
<1>7. \A d \in Conn : conn'[d].up = conn[d].up /\ conn'[d].task = conn[d].task
                       /\ conn'[d].role = conn[d].role
    BY <1>1 DEF IInv, TypeOK, ConnType
<1>8. /\ "Transfering" \in State /\ task[t].idx \in 0..Blocks
      /\ task' = [task EXCEPT ![t] = [task[t] EXCEPT !.state = "Transfering", !.idx = task[t].idx]]
    BY <1>1, <1>2, <1>3 DEF State, TaskType, IInv, TypeOK
<1>9. TaskOK(t, [task[t] EXCEPT !.state = "Transfering", !.idx = task[t].idx], disk'[t])
    BY <1>1, <1>3 DEF TaskOK, OnlineOK, TaskType, Relaying
<1>10. disk' \in [Task -> -1..Blocks] /\ disk' = disk /\ created' = created
    BY <1>1 DEF IInv, TypeOK
<1>. QED BY <1>2, <1>3, <1>6, <1>7, <1>8, <1>9, <1>10, GoesOn

LEMMA DataOnlineKeeps ==
    ASSUME IInv, NEW c \in Conn, DataOnline(c)
    PROVE  IInv'
<1>1. PICK t \in OnlineTask :
        /\ Answers(c, t) /\ task[t].state \in Relaying
        /\ task' = [task EXCEPT ![t].state = "Transfering"]
        /\ conn' = [d \in Conn |->
                IF d = c THEN [conn[c] EXCEPT !.req = NoReq]
                ELSE IF d = task[t].at["Receiver"]
                THEN [conn[d] EXCEPT !.req = NoReq, !.got = conn[c].req + 1]
                ELSE conn[d]]
        /\ UNCHANGED <<disk, created>>
    BY DEF DataOnline
<1>2. /\ t \in Task /\ conn[c].task = t
      /\ conn[c].req \in NoReq..Blocks - 1 /\ conn[c].req # NoReq
    BY <1>1, SetAssumption DEF Answers, IInv, TypeOK, ConnType
<1>3. /\ task[t].live /\ task[t] \in TaskType /\ OnlineOK(task[t])
    BY <1>1, <1>2, NullAssumption, AtTask DEF TaskOK
<1>4. conn[c].req + 1 \in 0..Blocks /\ NoReq \in NoReq..Blocks - 1
    BY <1>2, BlocksAssumption DEF NoReq
<1>5. \A d \in Conn : /\ [conn[d] EXCEPT !.req = NoReq] \in ConnType
                       /\ [conn[d] EXCEPT !.req = NoReq, !.got = conn[c].req + 1] \in ConnType
    BY <1>4 DEF IInv, TypeOK, ConnType
<1>6. conn' \in [Conn -> ConnType]
    BY <1>1, <1>5 DEF IInv, TypeOK
<1>7. \A d \in Conn : conn'[d].up = conn[d].up /\ conn'[d].task = conn[d].task
                       /\ conn'[d].role = conn[d].role
    BY <1>1 DEF IInv, TypeOK, ConnType
<1>8. /\ "Transfering" \in State /\ task[t].idx \in 0..Blocks
      /\ task' = [task EXCEPT ![t] = [task[t] EXCEPT !.state = "Transfering", !.idx = task[t].idx]]
    BY <1>1, <1>2, <1>3 DEF State, TaskType, IInv, TypeOK
<1>9. TaskOK(t, [task[t] EXCEPT !.state = "Transfering", !.idx = task[t].idx], disk'[t])
    BY <1>1, <1>3 DEF TaskOK, OnlineOK, TaskType, Relaying
<1>10. disk' \in [Task -> -1..Blocks] /\ disk' = disk /\ created' = created
    BY <1>1 DEF IInv, TypeOK
<1>. QED BY <1>2, <1>3, <1>6, <1>7, <1>8, <1>9, <1>10, GoesOn

LEMMA PullOfflineKeeps ==
    ASSUME IInv, NEW c \in Conn, PullOffline(c)
    PROVE  IInv'
<1>. PICK t \in Task \ OnlineTask :
        LET k    == task[t]
            idx  == IF k.state = "WaitingDownload" THEN 0 ELSE k.idx
            read == [k EXCEPT !.state = "Downloading", !.idx = idx + 1]
        IN  /\ Pulls(c, t) /\ k.state \in Expecting(t, "Receiver")
            /\ conn[c].got = idx /\ idx < disk[t]
            /\ IF LastBlock(idx + 1)
               THEN CloseWith(c, [read EXCEPT !.state = "UploadEnd"])
               ELSE /\ task' = [task EXCEPT ![t] = read]
                    /\ conn' = [conn EXCEPT ![c].got = idx + 1]
            /\ UNCHANGED <<disk, created>>
    BY DEF PullOffline
<1>. DEFINE idx  == IF task[t].state = "WaitingDownload" THEN 0 ELSE task[t].idx
            read == [task[t] EXCEPT !.state = "Downloading", !.idx = idx + 1]
<1>1. /\ conn[c].task = t /\ conn[c] \in ConnType /\ disk[t] \in -1..Blocks
      /\ task[t].state \in {"WaitingDownload", "Downloading"} /\ idx < disk[t]
      /\ disk' = disk /\ created' = created /\ disk' \in [Task -> -1..Blocks]
    BY DEF Pulls, Expecting, IInv, TypeOK
<1>2. /\ task[t].live /\ task[t] \in TaskType /\ OfflineOK(task[t], disk[t])
    BY <1>1, NullAssumption, AtTask DEF TaskOK
<1>3. idx + 1 \in 0..Blocks
    BY <1>1, <1>2, BlocksAssumption DEF TaskType
<1>4. CASE idx + 1 = Blocks
    <2>. DEFINE k == [read EXCEPT !.state = "UploadEnd"]
    <2>1. CloseWith(c, k)
        BY <1>4 DEF LastBlock
    <2>2. k \in TaskType /\ k.live /\ k.at = task[t].at /\ k.state = "UploadEnd"
        BY <1>2, <1>3 DEF TaskType, State
    <2>. HIDE DEF k
    <2>. QED BY <1>1, <2>1, <2>2, NullAssumption, CloseKeeps
<1>5. CASE idx + 1 # Blocks
    <2>1. task' = [task EXCEPT ![t] = read] /\ conn' = [conn EXCEPT ![c].got = idx + 1]
        BY <1>5 DEF LastBlock
    <2>2. conn' \in [Conn -> ConnType]
        BY <1>3, <2>1 DEF IInv, TypeOK, ConnType
    <2>3. \A d \in Conn : conn'[d].up = conn[d].up /\ conn'[d].task = conn[d].task
                           /\ conn'[d].role = conn[d].role
        BY <2>1 DEF IInv, TypeOK, ConnType
    <2>4. "Downloading" \in State
        BY DEF State
    <2>5. TaskOK(t, read, disk'[t])
        BY <1>1, <1>2 DEF TaskOK, OfflineOK, TaskType
    <2>. HIDE DEF idx
    <2>. QED BY <1>1, <1>2, <1>3, <2>1, <2>2, <2>3, <2>4, <2>5, GoesOn
<1>. QED BY <1>4, <1>5

LEMMA DataOfflineKeeps ==
    ASSUME IInv, NEW c \in Conn, DataOffline(c)
    PROVE  IInv'
<1>. PICK t \in Task \ OnlineTask, n \in {0, 1} :
        LET k == task[t]
            written == [k EXCEPT !.state = "Uploading", !.idx = @ + 1]
        IN  /\ Answers(c, t) /\ k.state \in Expecting(t, "Sender")
            /\ conn[c].req = k.idx
            /\ disk' = [disk EXCEPT ![t] = (IF k.state = "WaitingUpload" THEN 0 ELSE @) + n]
            /\ IF LastBlock(k.idx + 1)
               THEN CloseWith(c, [written EXCEPT !.state = "UploadEnd"])
               ELSE /\ task' = [task EXCEPT ![t] = written]
                    /\ conn' = [conn EXCEPT ![c].req = k.idx + 1]
            /\ UNCHANGED created
    BY DEF DataOffline
<1>. DEFINE idx     == task[t].idx
            size    == (IF task[t].state = "WaitingUpload" THEN 0 ELSE disk[t]) + n
            written == [task[t] EXCEPT !.state = "Uploading", !.idx = idx + 1]
<1>1. /\ conn[c].task = t /\ disk[t] \in -1..Blocks /\ created' = created
      /\ task[t].state \in {"WaitingUpload", "Uploading"}
      /\ disk' = [disk EXCEPT ![t] = size]
    BY DEF Answers, Expecting, IInv, TypeOK
<1>2. /\ task[t].live /\ task[t] \in TaskType /\ OfflineOK(task[t], disk[t])
    BY <1>1, NullAssumption, AtTask DEF TaskOK
<1>3. idx \in 0..Blocks /\ idx < Blocks /\ idx + 1 \in 0..Blocks
    BY <1>1, <1>2, BlocksAssumption DEF TaskType, OfflineOK
<1>4. size \in Int /\ 0 <= size /\ size <= idx + 1
    BY <1>1, <1>2, <1>3 DEF OfflineOK
<1>5. /\ disk' \in [Task -> -1..Blocks] /\ disk'[t] = size
      /\ \A s \in Task : s # t => disk'[s] = disk[s]
    <2>1. size \in -1..Blocks
        BY <1>3, <1>4, BlocksAssumption
    <2>. HIDE DEF size
    <2>. QED BY <1>1, <2>1 DEF IInv, TypeOK
<1>6. CASE idx + 1 = Blocks
    <2>. DEFINE k == [written EXCEPT !.state = "UploadEnd"]
    <2>1. CloseWith(c, k)
        BY <1>6 DEF LastBlock
    <2>2. k \in TaskType /\ k.live /\ k.at = task[t].at /\ k.state = "UploadEnd"
        BY <1>2, <1>3 DEF TaskType, State
    <2>. HIDE DEF k
    <2>. QED BY <1>1, <1>5, <2>1, <2>2, NullAssumption, CloseKeeps
<1>7. CASE idx + 1 # Blocks
    <2>1. task' = [task EXCEPT ![t] = written] /\ conn' = [conn EXCEPT ![c].req = idx + 1]
        BY <1>7 DEF LastBlock
    <2>2. idx + 1 \in NoReq..Blocks - 1
        BY <1>3, <1>7, BlocksAssumption DEF NoReq
    <2>3. conn' \in [Conn -> ConnType]
        BY <2>1, <2>2 DEF IInv, TypeOK, ConnType
    <2>4. \A d \in Conn : conn'[d].up = conn[d].up /\ conn'[d].task = conn[d].task
                           /\ conn'[d].role = conn[d].role
        BY <2>1 DEF IInv, TypeOK, ConnType
    <2>5. "Uploading" \in State
        BY DEF State
    <2>6. TaskOK(t, written, disk'[t])
        <3>1. /\ written.state = "Uploading" /\ written.idx = idx + 1
              /\ written.at = task[t].at
            BY <1>2 DEF TaskType
        <3>2. idx + 1 < Blocks
            BY <1>3, <1>7, BlocksAssumption
        <3>3. task[t].at["Receiver"] = NoConn /\ task[t].at["Sender"] # NoConn
            BY <1>1, <1>2, NullAssumption, AtTask DEF OfflineOK, Role
        <3>. HIDE DEF written, size
        <3>. QED BY <1>4, <1>5, <3>1, <3>2, <3>3 DEF TaskOK, OfflineOK
    <2>. HIDE DEF size
    <2>. QED BY <1>1, <1>2, <1>3, <1>5, <2>1, <2>3, <2>4, <2>5, <2>6, GoesOn
<1>. QED BY <1>6, <1>7

\* No task is ever in the state the task timer looks for: the timer does nothing.
LEMMA TimerKeeps ==
    ASSUME IInv, TaskTimer
    PROVE  IInv'
<1>1. \A t \in Task : ~(task[t].live /\ task[t].state = "TransferDone")
    BY DEF IInv, TasksOK, TaskOK, OnlineOK, OfflineOK, Relaying
<1>2. task' = task /\ conn' = conn /\ disk' = disk /\ created' = created
    BY <1>1 DEF TaskTimer, IInv, TypeOK
<1>. QED BY <1>2 DEF IInv, TypeOK, TasksOK, TaskOK, ConnsOK, TaskConnIsOpen

LEMMA RestartKeeps ==
    ASSUME IInv, Restart
    PROVE  IInv'
<1>1. TypeOK'
    BY GoneType, FreeConnType DEF Restart, IInv, TypeOK
<1>2. \A t \in Task : ~task'[t].live /\ \A r \in Role : task'[t].at[r] = NoConn
    BY GoneType DEF Restart
<1>3. \A c \in Conn : conn'[c].task = NoTask
    BY FreeConnType DEF Restart
<1>. QED BY <1>1, <1>2, <1>3 DEF IInv, TasksOK, ConnsOK, TaskConnIsOpen

\* Each step keeps the invariant.
LEMMA NextIInv == ~Early /\ IInv /\ [Next]_vars => IInv'
<1>. SUFFICES ASSUME ~Early, IInv, [Next]_vars PROVE IInv'
    OBVIOUS
<1>1. CASE UNCHANGED vars
    BY <1>1 DEF vars, IInv, TypeOK, TasksOK, TaskOK, ConnsOK, TaskConnIsOpen
<1>2. ASSUME NEW t \in Task, HandleMsgFileTransferReq(t) PROVE IInv'
    BY <1>2, CreateKeeps
<1>3. ASSUME NEW c \in Conn, OnConnect(c) PROVE IInv'
    BY <1>3, ConnectKeeps
<1>4. ASSUME NEW c \in Conn,
             \/ OnClose(c) \/ OnTimer(c) \/ HandleClientFileStates(c)
             \/ PullRefused(c) \/ DataRefused(c)
             \/ \E t \in Task, r \in Role : RefuseLogin(c, t, r)
      PROVE  IInv'
    <2>1. Close(c) /\ UNCHANGED <<disk, created>>
        BY <1>4 DEF OnClose, OnTimer, HandleClientFileStates, PullRefused, DataRefused, RefuseLogin
    <2>. QED BY <2>1, AnyClose
<1>5. ASSUME NEW c \in Conn, NEW t \in Task, NEW r \in Role, Login(c, t, r) PROVE IInv'
    BY <1>5, LoginKeeps
<1>6. ASSUME NEW c \in Conn, PullOnline(c) PROVE IInv'
    BY <1>6, PullOnlineKeeps
<1>7. ASSUME NEW c \in Conn, PullOffline(c) PROVE IInv'
    BY <1>7, PullOfflineKeeps
<1>8. ASSUME NEW c \in Conn, DataOnline(c) PROVE IInv'
    BY <1>8, DataOnlineKeeps
<1>9. ASSUME NEW c \in Conn, DataOffline(c) PROVE IInv'
    BY <1>9, DataOfflineKeeps
<1>10. CASE TaskTimer
    BY <1>10, TimerKeeps
<1>11. CASE Restart
    BY <1>11, RestartKeeps
<1>. QED BY <1>1, <1>2, <1>3, <1>4, <1>5, <1>6, <1>7, <1>8, <1>9, <1>10, <1>11 DEF Next

\* What the invariant says of the properties.
LEMMA IInvImplies ==
    IInv => /\ TypeOK /\ CachedTaskIsAlive /\ TaskConnIsOpen
            /\ NoTaskLeftBehind /\ RelayHasBothPeers /\ DownloadsAreWhole
<1>. SUFFICES ASSUME IInv
     PROVE  /\ TypeOK /\ CachedTaskIsAlive /\ TaskConnIsOpen
            /\ NoTaskLeftBehind /\ RelayHasBothPeers /\ DownloadsAreWhole
    OBVIOUS
<1>1. TypeOK /\ TaskConnIsOpen /\ CachedTaskIsAlive
    BY DEF IInv, ConnsOK, CachedTaskIsAlive
<1>2. \A t \in Task : task[t].live => TaskOK(t, task[t], disk[t])
    BY DEF IInv, TasksOK
<1>3. NoTaskLeftBehind
    BY <1>2 DEF NoTaskLeftBehind, TaskOK, OnlineOK, OfflineOK, Role
<1>4. RelayHasBothPeers
    BY <1>2, SetAssumption DEF RelayHasBothPeers, TaskOK, OnlineOK, Role
<1>5. DownloadsAreWhole
    BY <1>2 DEF DownloadsAreWhole, TaskOK, OnlineOK, OfflineOK, Relaying
<1>. QED BY <1>1, <1>3, <1>4, <1>5

\* With receivers that come when nobody is at an offline task, the inductive
\* invariant holds of every behaviour of the file_server.
THEOREM Invariance == ~Early => (Spec => []IInv)
<1>. SUFFICES ASSUME ~Early PROVE Spec => []IInv
    OBVIOUS
<1>1. IInv /\ [Next]_vars => IInv'
    BY NextIInv
<1>. QED BY <1>1, InitIInv, PTL DEF Spec

\* Every variable keeps its type: no index runs past the blocks of a file.
THEOREM TypeCorrect == ~Early => (Spec => []TypeOK)
<1>. SUFFICES ASSUME ~Early PROVE Spec => []TypeOK
    OBVIOUS
<1>. QED BY Invariance, IInvImplies, PTL

\* The task a connection caches (file_client_conn.h:65) is never a deleted one,
\* for any number of connections, tasks and blocks.
THEOREM CachedTaskStaysAlive == ~Early => (Spec => []CachedTaskIsAlive)
<1>. SUFFICES ASSUME ~Early PROVE Spec => []CachedTaskIsAlive
    OBVIOUS
<1>. QED BY Invariance, IInvImplies, PTL

\* What a task relays or notifies through goes to an open connection of its own.
THEOREM TaskConnStaysOpen == ~Early => (Spec => []TaskConnIsOpen)
<1>. SUFFICES ASSUME ~Early PROVE Spec => []TaskConnIsOpen
    OBVIOUS
<1>. QED BY Invariance, IInvImplies, PTL

\* No task that began is left without a connection.
THEOREM TasksEnd == ~Early => (Spec => []NoTaskLeftBehind)
<1>. SUFFICES ASSUME ~Early PROVE Spec => []NoTaskLeftBehind
    OBVIOUS
<1>. QED BY Invariance, IInvImplies, PTL

\* Blocks are relayed only while both peers are there.
THEOREM RelaysHaveBothPeers == ~Early => (Spec => []RelayHasBothPeers)
<1>. SUFFICES ASSUME ~Early PROVE Spec => []RelayHasBothPeers
    OBVIOUS
<1>. QED BY Invariance, IInvImplies, PTL

\* A file that is handed out is on disk to its last block, whatever was cut off,
\* restarted or written short before.
THEOREM DownloadsStayWhole == ~Early => (Spec => []DownloadsAreWhole)
<1>. SUFFICES ASSUME ~Early PROVE Spec => []DownloadsAreWhole
    OBVIOUS
<1>. QED BY Invariance, IInvImplies, PTL
=============================================================================
