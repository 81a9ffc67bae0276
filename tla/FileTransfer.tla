---------------------------- MODULE FileTransfer ----------------------------
\* The transfer tasks of a file_server and the client connections that work
\* on them (file_server/transfer_task.cpp, transfer_task_manager.cpp,
\* file_client_conn.cpp, file_msg_server_conn.cpp).
\*
\* An online task relays the blocks a receiver pulls from the sender; an
\* offline task is uploaded to disk and downloaded from there later.  A
\* connection caches a pointer to its task (transfer_task_), a task pointers to
\* the connections of its two users (from_conn_, to_conn_), and a task is
\* deleted by the closing of a connection.  A callback is one step.
\*
\* The clients are those of the repository: they log in once on a connection,
\* answer every pull and pull the next block when they have the last.
EXTENDS Integers, FiniteSets

CONSTANTS
    Conn,        \* connections of clients (FileClientConn)
    Task,        \* task ids: a UUID is never given twice
    OnlineTask,  \* those asked for with FILE_TYPE_ONLINE
    Blocks,      \* sengment_size_, the number of blocks of a file
    Early,       \* whether receivers of offline files are online themselves
    NoConn, NoTask

ASSUME SetAssumption == OnlineTask \subseteq Task
ASSUME BlocksAssumption == Blocks \in Nat \ {0}
ASSUME EarlyAssumption == Early \in BOOLEAN
ASSUME NullAssumption == NoConn \notin Conn /\ NoTask \notin Task

VARIABLES
    task,     \* transfer_tasks_: the task under each id
    conn,     \* g_file_client_conn_map
    disk,     \* blocks in the offline file of each task; -1 without a file
    created   \* the ids given so far

vars == <<task, conn, disk, created>>

Role == {"Sender", "Receiver"}

\* enum TransferTaskState; kTransferTaskStateDownloadEnd and Error are never set.
State == {"Invalid", "Ready", "WaitingSender", "WaitingReceiver", "WaitingTransfer",
          "Transfering", "TransferDone", "WaitingUpload", "Uploading", "UploadEnd",
          "WaitingDownload", "Downloading"}

\* at: from_conn_ and to_conn_;  idx: transfered_idx_.
TaskType == [live : BOOLEAN, state : State, at : [Role -> Conn \cup {NoConn}], idx : 0..Blocks]

NoReq == -1

\* task: transfer_task_;  got: blocks its client has received;  req: the block
\* asked of its client (sender) or by it (receiver), not answered yet.
ConnType == [up : BOOLEAN, task : Task \cup {NoTask}, role : Role,
             got : 0..Blocks, req : NoReq..Blocks - 1]

NewTask(s) == [live |-> TRUE, state |-> s, at |-> [r \in Role |-> NoConn], idx |-> 0]
Gone       == [NewTask("Invalid") EXCEPT !.live = FALSE]
FreeConn   == [up |-> FALSE, task |-> NoTask, role |-> "Sender", got |-> 0, req |-> NoReq]

Init ==
    /\ task = [t \in Task |-> Gone]
    /\ conn = [c \in Conn |-> FreeConn]
    /\ disk = [t \in Task |-> -1]
    /\ created = {}

-----------------------------------------------------------------------------
\* FileClientConn::Close

\* Mutant: the closing connection stays in the task.
LeftPointed(t, k, r) ==
    [k EXCEPT !.state = IF t \in OnlineTask THEN "Invalid"
                        ELSE IF k.state \in {"UploadEnd", "WaitingDownload", "Downloading"}
                        THEN "WaitingDownload" ELSE @]

\* Mutant: an online task stays as it was when one side leaves.
LeftRelaying(t, k, r) ==
    [k EXCEPT !.state = IF t \in OnlineTask THEN @
                        ELSE IF k.state \in {"UploadEnd", "WaitingDownload", "Downloading"}
                        THEN "WaitingDownload" ELSE @,
              !.at[r] = NoConn]

\* The task without the closing connection of role r.
Left(t, k, r) ==
    [k EXCEPT !.state = IF t \in OnlineTask THEN "Invalid"
                        ELSE IF k.state \in {"UploadEnd", "WaitingDownload", "Downloading"}
                        THEN "WaitingDownload" ELSE @,
              !.at[r] = NoConn]

\* Mutant: an online task is deleted with its first connection.
DeletedByFirst(t, k) == t \in OnlineTask \/ k.state # "WaitingUpload"

\* Mutant: an interrupted upload is kept.
DeletedWhenEnded(t, k) ==
    IF t \in OnlineTask THEN \A r \in Role : k.at[r] = NoConn
    ELSE k.state \notin {"WaitingUpload", "Uploading"}

\* What DeleteTransferTaskByConnClose deletes.
Deleted(t, k) ==
    IF t \in OnlineTask THEN \A r \in Role : k.at[r] = NoConn
    ELSE k.state # "WaitingUpload"

\* The connection closes; k is its task as the handler leaves it.
CloseWith(c, k) ==
    LET t    == conn[c].task
        left == Left(t, k, conn[c].role)
    IN  /\ task' = [task EXCEPT ![t] = IF Deleted(t, left) THEN Gone ELSE left]
        /\ conn' = [conn EXCEPT ![c] = FreeConn]

Close(c) ==
    IF conn[c].task = NoTask
    THEN conn' = [conn EXCEPT ![c] = FreeConn] /\ UNCHANGED task
    ELSE CloseWith(c, task[conn[c].task])

-----------------------------------------------------------------------------
\* Requests of msg_servers, and logins

\* FileMsgServerConn::_HandleMsgFileTransferReq
HandleMsgFileTransferReq(t) ==
    /\ t \notin created
    /\ created' = created \cup {t}
    /\ task' = [task EXCEPT ![t] = NewTask("Ready")]
    /\ UNCHANGED <<conn, disk>>

OnConnect(c) ==
    /\ ~conn[c].up
    /\ conn' = [conn EXCEPT ![c] = [FreeConn EXCEPT !.up = TRUE]]
    /\ UNCHANGED <<task, disk, created>>

\* What clients do: each user logs in with one connection at a time; a sender
\* does not come back to an upload that is complete; the receiver of an offline
\* file who was offline when it was announced comes when nobody is at it.
Comes(t, r) ==
    /\ t \in created
    /\ task[t].at[r] = NoConn
    /\ t \notin OnlineTask =>
        IF r = "Sender" THEN disk[t] < Blocks ELSE Early \/ ~task[t].live

\* ChangePullState of either kind of task: the state after a login.  In a state
\* that does not expect the role it only logs: rv is true already when it breaks.
OnlinePullState(s, r) ==
    CASE s = "Ready" -> IF r = "Sender" THEN "WaitingReceiver" ELSE "WaitingSender"
      [] s = "WaitingReceiver" /\ r = "Receiver" -> "WaitingTransfer"
      [] s = "WaitingSender" /\ r = "Sender" -> "WaitingTransfer"
      [] OTHER -> s

OfflinePullState(s, r) ==
    CASE s = "Ready" /\ r = "Sender" -> "WaitingUpload"
      [] s = "UploadEnd" /\ r = "Receiver" -> "WaitingDownload"
      [] OTHER -> s

PullState(t, s, r) ==
    IF t \in OnlineTask THEN OnlinePullState(s, r) ELSE OfflinePullState(s, r)

\* Mutant: the size of the file on disk is not compared with the header's.
LoadableAnySize(t, r) == t \notin OnlineTask /\ r = "Receiver" /\ disk[t] >= 0

\* A download of an unknown task loads it from disk, if the file is whole.
Loadable(t, r) == t \notin OnlineTask /\ r = "Receiver" /\ disk[t] = Blocks

\* _HandleClientFileLoginReq, accepted.  An uploader is asked for the first
\* block at once.
Login(c, t, r) ==
    LET k == IF task[t].live THEN task[t] ELSE NewTask("WaitingDownload")
        s == PullState(t, k.state, r)
        joined == [k EXCEPT !.state = s, !.at[r] = c]
    IN  /\ conn[c].up /\ conn[c].task = NoTask
        /\ Comes(t, r)
        /\ task[t].live \/ Loadable(t, r)
        /\ task' = [task EXCEPT ![t] = joined]
        /\ conn' = [conn EXCEPT ![c].task = t, ![c].role = r,
                                ![c].req = IF r = "Sender" /\ s = "WaitingUpload"
                                           THEN 0 ELSE NoReq]
        /\ UNCHANGED <<disk, created>>

\* _HandleClientFileLoginReq, refused: no such task, or its file is not whole
\* or cannot be opened.
RefuseLogin(c, t, r) ==
    /\ conn[c].up /\ conn[c].task = NoTask
    /\ Comes(t, r)
    /\ ~task[t].live
    /\ Close(c)
    /\ UNCHANGED <<disk, created>>

-----------------------------------------------------------------------------
\* Data

Relaying == {"WaitingTransfer", "Transfering"}

\* The states DoPullFileRequest and DoRecvData serve a receiver and a sender in.
Expecting(t, r) ==
    IF t \in OnlineTask THEN Relaying
    ELSE IF r = "Receiver" THEN {"WaitingDownload", "Downloading"}
    ELSE {"WaitingUpload", "Uploading"}

\* transfered_idx_ == sengment_size_
LastBlock(i) == i = Blocks

\* The client of c pulls its next block, or has the one it was asked for.
Pulls(c, t) == /\ conn[c].task = t /\ conn[c].role = "Receiver"
               /\ conn[c].req = NoReq /\ conn[c].got < Blocks
Answers(c, t) == conn[c].task = t /\ conn[c].role = "Sender" /\ conn[c].req # NoReq

\* _HandleClientFilePullFileReq of an online task: forwarded to the sender.
PullOnline(c) ==
    \E t \in OnlineTask :
        LET k == task[t]
            offset == conn[c].got
        IN  /\ Pulls(c, t) /\ k.state \in Relaying
            /\ task' = [task EXCEPT ![t].state = "Transfering"]
            /\ conn' = [d \in Conn |-> IF d \in {c, k.at["Sender"]}
                                       THEN [conn[d] EXCEPT !.req = offset] ELSE conn[d]]
            /\ UNCHANGED <<disk, created>>

\* The same of an offline task: the block is read and sent back, and the task
\* ends with the last one.
PullOffline(c) ==
    \E t \in Task \ OnlineTask :
        LET k    == task[t]
            idx  == IF k.state = "WaitingDownload" THEN 0 ELSE k.idx
            read == [k EXCEPT !.state = "Downloading", !.idx = idx + 1]
        IN  /\ Pulls(c, t) /\ k.state \in Expecting(t, "Receiver")
            /\ conn[c].got = idx /\ idx < disk[t]
            /\ IF LastBlock(idx + 1)
               THEN CloseWith(c, [read EXCEPT !.state = "UploadEnd"])
               ELSE /\ task' = [task EXCEPT ![t] = read]
                    /\ conn' = [conn EXCEPT ![c].got = idx + 1]
            /\ UNCHANGED <<disk, created>>

\* The same when the state forbids it, or the file cannot be read.
PullRefused(c) ==
    \E t \in Task :
        /\ Pulls(c, t)
        /\ t \notin OnlineTask \/ task[t].state \notin Relaying
        /\ Close(c)
        /\ UNCHANGED <<disk, created>>

\* _HandleClientFilePullFileRsp of an online task: forwarded to the receiver.
DataOnline(c) ==
    \E t \in OnlineTask :
        LET k == task[t]
            to == k.at["Receiver"]
        IN  /\ Answers(c, t) /\ k.state \in Relaying
            /\ task' = [task EXCEPT ![t].state = "Transfering"]
            /\ conn' = [d \in Conn |->
                    IF d = c THEN [conn[c] EXCEPT !.req = NoReq]
                    ELSE IF d = to THEN [conn[d] EXCEPT !.req = NoReq, !.got = conn[c].req + 1]
                    ELSE conn[d]]
            /\ UNCHANGED <<disk, created>>

\* The same of an offline task: the block is appended to the file, behind a
\* header when it is the first; what fwrite returns is not looked at, so it may
\* not all be written.
DataOffline(c) ==
    \E t \in Task \ OnlineTask :
        LET k == task[t]
            written == [k EXCEPT !.state = "Uploading", !.idx = @ + 1]
        IN  /\ Answers(c, t) /\ k.state \in Expecting(t, "Sender")
            /\ conn[c].req = k.idx
            /\ \E n \in {0, 1} :
                disk' = [disk EXCEPT ![t] = (IF k.state = "WaitingUpload" THEN 0 ELSE @) + n]
            /\ IF LastBlock(k.idx + 1)
               THEN CloseWith(c, [written EXCEPT !.state = "UploadEnd"])
               ELSE /\ task' = [task EXCEPT ![t] = written]
                    /\ conn' = [conn EXCEPT ![c].req = k.idx + 1]
            /\ UNCHANGED created

\* The same when the state forbids it, or the file cannot be opened.
DataRefused(c) ==
    \E t \in Task :
        /\ Answers(c, t)
        /\ \/ task[t].state \notin Expecting(t, "Sender")
           \/ t \notin OnlineTask /\ task[t].state = "WaitingUpload"
        /\ Close(c)
        /\ UNCHANGED <<disk, created>>

-----------------------------------------------------------------------------
\* Ends

\* _HandleClientFileStates: cancelled, refused or done; the peer is told and
\* the connection closed.
HandleClientFileStates(c) ==
    /\ conn[c].task # NoTask
    /\ Close(c)
    /\ UNCHANGED <<disk, created>>

\* The client hangs up, or is silent for CLIENT_TIMEOUT.
OnClose(c) ==
    /\ conn[c].up
    /\ Close(c)
    /\ UNCHANGED <<disk, created>>

\* Mutant: the timer closes the connections of receivers only.
OnTimerOfReceiver(c) ==
    /\ conn[c].task \in OnlineTask /\ conn[c].role = "Receiver"
    /\ task[conn[c].task].state = "Invalid"
    /\ Close(c)
    /\ UNCHANGED <<disk, created>>

\* FileClientConn::OnTimer: the peer has left an online task.
OnTimer(c) ==
    /\ conn[c].task \in OnlineTask
    /\ task[conn[c].task].state = "Invalid"
    /\ Close(c)
    /\ UNCHANGED <<disk, created>>

\* TransferTaskManager::OnTimer deletes the tasks in TransferDone that are older
\* than TaskTimeout.
TaskTimer ==
    LET old == {t \in Task : task[t].live /\ task[t].state = "TransferDone"}
    IN  /\ task' = [t \in Task |-> IF t \in old THEN Gone ELSE task[t]]
        /\ conn' = [c \in Conn |-> IF \E t \in old, r \in Role : task[t].at[r] = c
                                   THEN [conn[c] EXCEPT !.task = NoTask] ELSE conn[c]]
        /\ UNCHANGED <<disk, created>>

\* The process ends and is started again: the files stay.
Restart ==
    /\ task' = [t \in Task |-> Gone]
    /\ conn' = [c \in Conn |-> FreeConn]
    /\ UNCHANGED <<disk, created>>

Next ==
    \/ \E t \in Task : HandleMsgFileTransferReq(t)
    \/ \E c \in Conn : OnConnect(c) \/ OnClose(c) \/ OnTimer(c)
    \/ \E c \in Conn, t \in Task, r \in Role : Login(c, t, r) \/ RefuseLogin(c, t, r)
    \/ \E c \in Conn : PullOnline(c) \/ PullOffline(c) \/ PullRefused(c)
    \/ \E c \in Conn : DataOnline(c) \/ DataOffline(c) \/ DataRefused(c)
    \/ \E c \in Conn : HandleClientFileStates(c)
    \/ TaskTimer
    \/ Restart

Spec == Init /\ [][Next]_vars

\* The two timers are registered with the event loop for good.
FairSpec == Spec /\ WF_vars(TaskTimer) /\ \A c \in Conn : WF_vars(OnTimer(c))

-----------------------------------------------------------------------------
\* Properties

\* Every variable keeps its type.
TypeOK ==
    /\ task \in [Task -> TaskType]
    /\ conn \in [Conn -> ConnType]
    /\ disk \in [Task -> -1..Blocks]
    /\ created \in SUBSET Task

\* file_client_conn.h:65 caches the task in the connection, as each connection
\* has one task.  The cached task has not been deleted, and it knows this
\* connection as that of its user.
CachedTaskIsAlive ==
    \A c \in Conn : conn[c].task # NoTask =>
        task[conn[c].task].live /\ task[conn[c].task].at[conn[c].role] = c

\* No task points to a connection that is closed or works on another task: what
\* is relayed or notified through from_conn_ and to_conn_ reaches the peer.
TaskConnIsOpen ==
    \A t \in Task, r \in Role : LET c == task[t].at[r] IN c # NoConn =>
        task[t].live /\ conn[c].up /\ conn[c].task = t /\ conn[c].role = r

\* A task that began is not left behind: only a task nobody has come to, or
\* whose upload was asked for and has not begun, exists without a connection.
NoTaskLeftBehind ==
    \A t \in Task : task[t].live /\ (\A r \in Role : task[t].at[r] = NoConn) =>
        task[t].state \in {"Ready", "WaitingUpload"}

\* Blocks are relayed only between two peers that are both there, so that the
\* case "to_conn is close, close me" of a login is never met.
RelayHasBothPeers ==
    \A t \in OnlineTask : task[t].live /\ task[t].state \in Relaying =>
        \A r \in Role : task[t].at[r] # NoConn

\* A file is handed out only when every block of it is on disk, also after an
\* upload that was cut off, a restart in the midst of it, or a short write.
DownloadsAreWhole ==
    \A t \in Task : task[t].live /\ task[t].state \in {"WaitingDownload", "Downloading"} =>
        disk[t] = Blocks

\* When one side of an online transfer has left, the other is closed too.
PeerIsClosed ==
    \A c \in Conn, t \in OnlineTask :
        (conn[c].task = t /\ task[t].state = "Invalid") ~> conn[c].task # t
=============================================================================
