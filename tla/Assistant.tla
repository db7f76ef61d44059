----------------------------- MODULE Assistant -----------------------------
(***************************************************************************)
(* The scheduler of MaaCore: the queue of tasks, the worker thread that    *)
(* runs them (working_proc), the API calls that any number of client       *)
(* threads make, and, through CallbackQueue, the thread that raises the    *)
(* callbacks.                                                              *)
(*                                                                         *)
(* m_mutex guards the list of tasks, but m_thread_idle and m_thread_exit   *)
(* are plain bools that stop(), start(), the destructor, the worker and    *)
(* the running task also read and write without it: every such access is   *)
(* a step of its own.  A critical section in which no thread blocks is one *)
(* step; only connect() keeps m_mutex over several steps.                  *)
(***************************************************************************)
EXTENDS Integers, Sequences

CONSTANTS
  Client,       \* the threads that call the API
  Nobody,       \* "no thread", not a client
  NoMessage,    \* "no message"
  MaxTasks,     \* bound on the tasks appended
  MaxConnects   \* bound on the connects that begin, synchronous or not

ASSUME ClientAssumption == Client # {} /\ Nobody \notin Client
ASSUME BoundAssumption == MaxTasks \in Nat /\ MaxConnects \in Nat

VARIABLES
  idle,       \* m_thread_idle; need_exit() of every task and of the Controller
  tasks,      \* m_tasks_list, the ids only
  taskId,     \* m_task_id, the latest id given
  mutex,      \* the client that holds m_mutex in connect(), or Nobody
  inited,     \* m_ctrler->inited()
  wpc,        \* where working_proc is
  cur,        \* id, the chain working_proc copied from the front of the list
  ret,        \* what task_ptr->run() returned
  finished,   \* finished_tasks
  cpc,        \* where each client is in its call
  connects    \* connects begun so far, not counting those refused

VARIABLES queue, mpc, inflight, last, exit, dpc   \* see CallbackQueue
VARIABLE view   \* what the user can tell from the callbacks raised so far

workerVars == <<wpc, cur, ret, finished>>
clientVars == <<cpc, connects, mutex, inited>>
msgVars == <<queue, mpc, inflight, last, view>>
vars == <<idle, tasks, taskId, workerVars, clientVars, msgVars, exit, dpc>>

\* How a chain ends, and the messages that come from Assistant itself.  The
\* messages of the tasks go through the same queue and are left out.
ChainEnd == {"TaskChainCompleted", "TaskChainError", "TaskChainStopped"}
ChainMsg == ChainEnd \cup {"TaskChainStart", "AllTasksCompleted"}
AsstMsg == ChainMsg \cup {"ConnectionInfo", "AsyncCallInfo"}

Message == [msg : AsstMsg, id : Nat]

\* AsstMsg's operator<< has an entry for every message but AsyncCallInfo.
Loggable == [msg : AsstMsg \ {"AsyncCallInfo"}, id : Nat]

CQ == INSTANCE CallbackQueue WITH MaxQueue <- 1

WorkerPc == {"check", "lock", "starting", "running", "ran", "popped", "reported",
             "unstopped", "allDone", "pause", "pausing", "waiting", "exited"}
ClientPc == {"out", "start", "stop", "connect", "asyncConnect", "asyncReport"}
DtorPc == {"alive", "exitSet", "idleSet", "exiting", "joining", "destroyed"}

Init ==
  /\ idle = TRUE
  /\ tasks = <<>>
  /\ taskId = 0
  /\ mutex = Nobody
  /\ inited = FALSE
  /\ wpc = "check"
  /\ cur = 0
  /\ ret = FALSE
  /\ finished = <<>>
  /\ cpc = [c \in Client |-> "out"]
  /\ connects = 0
  /\ CQ!ThreadInit
  /\ view = [phase |-> "none", chain |-> 0, tick |-> 0]
  /\ exit = FALSE
  /\ dpc = "alive"

\* async_callback: the message goes to the callback queue.  Its stop(false) is for
\* InternalError and InitFailed, which nothing in MaaCore raises.
Post(kind, id) ==
  /\ CQ!AppendCallback([msg |-> kind, id |-> id])
  /\ UNCHANGED view

-----------------------------------------------------------------------------
(***************************************************************************)
(* The worker thread: working_proc.                                        *)
(***************************************************************************)
WorkerGoes(from, to) == wpc = from /\ wpc' = to

\* while (!m_thread_exit), without the lock.
WorkerCheck ==
  /\ WorkerGoes("check", IF exit THEN "exited" ELSE "lock")
  /\ UNCHANGED <<idle, tasks, taskId, cur, ret, finished, clientVars, msgVars, exit, dpc>>

\* There is something to run: copy the front of the list and unlock.
WorkerPick ==
  /\ WorkerGoes("lock", "starting")
  /\ mutex = Nobody
  /\ ~idle /\ tasks # <<>>
  /\ cur' = Head(tasks)
  /\ UNCHANGED <<idle, tasks, taskId, ret, finished, clientVars, msgVars, exit, dpc>>

\* Fault: the worker goes to sleep without becoming idle.
WorkerSleepBusy ==
  /\ WorkerGoes("lock", "waiting")
  /\ mutex = Nobody
  /\ idle \/ tasks = <<>>
  /\ finished' = <<>>
  /\ UNCHANGED <<idle, tasks, taskId, cur, ret, clientVars, msgVars, exit, dpc>>

\* Fault: the worker goes to sleep without clearing finished_tasks.
WorkerSleepKeeps ==
  /\ WorkerGoes("lock", "waiting")
  /\ mutex = Nobody
  /\ idle \/ tasks = <<>>
  /\ idle' = TRUE
  /\ UNCHANGED <<tasks, taskId, cur, ret, finished, clientVars, msgVars, exit, dpc>>

\* There is nothing to run: become idle, forget the batch and wait for start(),
\* which releases the lock.
WorkerSleep ==
  /\ WorkerGoes("lock", "waiting")
  /\ mutex = Nobody
  /\ idle \/ tasks = <<>>
  /\ idle' = TRUE
  /\ finished' = <<>>
  /\ UNCHANGED <<tasks, taskId, cur, ret, clientVars, msgVars, exit, dpc>>

WorkerAnnounce ==
  /\ WorkerGoes("starting", "running")
  /\ Post("TaskChainStart", cur)
  /\ UNCHANGED <<idle, tasks, taskId, cur, ret, finished, clientVars, exit, dpc>>

\* task_ptr->run() returns: the task came to its end, well or badly ...
TaskReturns ==
  /\ WorkerGoes("running", "ran")
  /\ ret' \in BOOLEAN
  /\ finished' = Append(finished, cur)
  /\ UNCHANGED <<idle, tasks, taskId, cur, clientVars, msgVars, exit, dpc>>

\* ... or it saw need_exit() and gave up.
TaskGivesUp ==
  /\ WorkerGoes("running", "ran")
  /\ idle
  /\ ret' = FALSE
  /\ finished' = Append(finished, cur)
  /\ UNCHANGED <<idle, tasks, taskId, cur, clientVars, msgVars, exit, dpc>>

\* The Controller loses the device under a running task and cannot reconnect.
TaskLosesDevice ==
  /\ wpc = "running"
  /\ inited
  /\ inited' = FALSE
  /\ Post("ConnectionInfo", 0)
  /\ UNCHANGED <<idle, tasks, taskId, workerVars, cpc, connects, mutex, exit, dpc>>

\* Fault: the back of the list is popped instead of the front.
PopBack == tasks' = IF tasks = <<>> THEN tasks ELSE SubSeq(tasks, 1, Len(tasks) - 1)

\* Under the lock: if (!m_tasks_list.empty()) m_tasks_list.pop_front().
PopFront == tasks' = IF tasks = <<>> THEN tasks ELSE Tail(tasks)

WorkerPop ==
  /\ WorkerGoes("ran", "popped")
  /\ mutex = Nobody
  /\ PopFront
  /\ UNCHANGED <<idle, taskId, cur, ret, finished, clientVars, msgVars, exit, dpc>>

\* Fault: only a chain that completes or is stopped is reported.
WorkerReportNoError ==
  /\ WorkerGoes("popped", "reported")
  /\ IF idle \/ ret THEN Post(IF idle THEN "TaskChainStopped" ELSE "TaskChainCompleted", cur)
                    ELSE UNCHANGED msgVars
  /\ UNCHANGED <<idle, tasks, taskId, cur, ret, finished, clientVars, exit, dpc>>

WorkerReport ==
  /\ WorkerGoes("popped", "reported")
  /\ Post(IF idle THEN "TaskChainStopped"
          ELSE IF ret THEN "TaskChainCompleted" ELSE "TaskChainError", cur)
  /\ UNCHANGED <<idle, tasks, taskId, cur, ret, finished, clientVars, exit, dpc>>

\* if (m_thread_idle) { finished_tasks.clear(); continue; }
WorkerStopped ==
  /\ WorkerGoes("reported", "check")
  /\ idle
  /\ finished' = <<>>
  /\ UNCHANGED <<idle, tasks, taskId, cur, ret, clientVars, msgVars, exit, dpc>>

WorkerNotStopped ==
  /\ WorkerGoes("reported", "unstopped")
  /\ ~idle
  /\ UNCHANGED <<idle, tasks, taskId, cur, ret, finished, clientVars, msgVars, exit, dpc>>

\* if (m_tasks_list.empty()), without the lock.
WorkerLooksForMore ==
  /\ WorkerGoes("unstopped", IF tasks = <<>> THEN "allDone" ELSE "pause")
  /\ UNCHANGED <<idle, tasks, taskId, cur, ret, finished, clientVars, msgVars, exit, dpc>>

WorkerAllDone ==
  /\ WorkerGoes("allDone", "pause")
  /\ Post("AllTasksCompleted", cur)
  /\ finished' = <<>>
  /\ UNCHANGED <<idle, tasks, taskId, cur, ret, clientVars, exit, dpc>>

\* Lock, and wait_for(delay, [] { return m_thread_idle; }): no wait if a stop
\* is already there.
WorkerPause ==
  /\ WorkerGoes("pause", "pausing")
  /\ mutex = Nobody
  /\ UNCHANGED <<idle, tasks, taskId, cur, ret, finished, clientVars, msgVars, exit, dpc>>

\* The wait is over (the delay has passed, or a wakeup finds the predicate
\* true) with the lock taken again; a stop meanwhile is reported under it.
WorkerResumes ==
  /\ WorkerGoes("pausing", "check")
  /\ mutex = Nobody
  /\ IF idle THEN Post("TaskChainStopped", cur) ELSE UNCHANGED msgVars
  /\ UNCHANGED <<idle, tasks, taskId, cur, ret, finished, clientVars, exit, dpc>>

\* m_condvar.wait(lock) has no predicate and may return unnotified.
WorkerSpurious ==
  /\ WorkerGoes("waiting", "check")
  /\ UNCHANGED <<idle, tasks, taskId, cur, ret, finished, clientVars, msgVars, exit, dpc>>

\* What the worker does by itself; a task may well run for ever if nobody stops
\* it, so TaskReturns is not among these steps.
WorkerStep ==
  \/ WorkerCheck \/ WorkerPick \/ WorkerSleep \/ WorkerAnnounce \/ TaskGivesUp
  \/ WorkerPop \/ WorkerReport \/ WorkerStopped \/ WorkerNotStopped
  \/ WorkerLooksForMore \/ WorkerAllDone \/ WorkerPause \/ WorkerResumes

Worker == WorkerStep \/ TaskReturns \/ TaskLosesDevice \/ WorkerSpurious

-----------------------------------------------------------------------------
(***************************************************************************)
(* The API, called by the client threads.  Each call begins in "out".      *)
(***************************************************************************)
ClientGoes(c, from, to) ==
  /\ cpc[c] = from
  /\ cpc' = [cpc EXCEPT ![c] = to]

\* Fault: the task gets the id before the increment.
AppendTaskOldId(c) ==
  /\ dpc = "alive"
  /\ cpc[c] = "out"
  /\ mutex = Nobody
  /\ taskId < MaxTasks
  /\ taskId' = taskId + 1
  /\ tasks' = Append(tasks, taskId)
  /\ UNCHANGED <<idle, workerVars, clientVars, msgVars, exit, dpc>>

AppendTask(c) ==
  /\ dpc = "alive"
  /\ cpc[c] = "out"
  /\ mutex = Nobody
  /\ taskId < MaxTasks
  /\ taskId' = taskId + 1
  /\ tasks' = Append(tasks, taskId')
  /\ UNCHANGED <<idle, workerVars, clientVars, msgVars, exit, dpc>>

\* start(): the guard is tested without the lock; when it fails nothing changes.
StartCheck(c) ==
  /\ dpc = "alive"
  /\ ClientGoes(c, "out", "start")
  /\ idle /\ inited
  /\ UNCHANGED <<idle, tasks, taskId, workerVars, connects, mutex, inited, msgVars, exit, dpc>>

\* Fault: start() does not notify the worker.
StartSilently(c) ==
  /\ ClientGoes(c, "start", "out")
  /\ mutex = Nobody
  /\ idle' = FALSE
  /\ UNCHANGED <<tasks, taskId, workerVars, connects, mutex, inited, msgVars, exit, dpc>>

\* start(), under the lock: not idle any more, and notify_one.
StartNow(c) ==
  /\ ClientGoes(c, "start", "out")
  /\ mutex = Nobody
  /\ idle' = FALSE
  /\ wpc' = IF wpc = "waiting" THEN "check" ELSE wpc
  /\ UNCHANGED <<tasks, taskId, cur, ret, finished, connects, mutex, inited, msgVars, exit, dpc>>

\* Fault: stop() clears the list and lets the task run on.
StopLeavesRunning(c) ==
  /\ dpc = "alive"
  /\ ClientGoes(c, "out", "stop")
  /\ UNCHANGED <<idle, tasks, taskId, workerVars, connects, mutex, inited, msgVars, exit, dpc>>

\* stop(): idle at once, without the lock ...
StopIdle(c) ==
  /\ dpc = "alive"
  /\ ClientGoes(c, "out", "stop")
  /\ idle' = TRUE
  /\ UNCHANGED <<tasks, taskId, workerVars, connects, mutex, inited, msgVars, exit, dpc>>

\* ... then, under the lock, the list and the caches of Status are cleared.
StopClear(c) ==
  /\ ClientGoes(c, "stop", "out")
  /\ mutex = Nobody
  /\ tasks' = <<>>
  /\ UNCHANGED <<idle, taskId, workerVars, connects, mutex, inited, msgVars, exit, dpc>>

\* Fault: connect() does not look whether the instance is idle.
ConnectUnchecked(c) ==
  /\ dpc = "alive"
  /\ mutex = Nobody
  /\ connects < MaxConnects
  /\ connects' = connects + 1
  /\ \/ ClientGoes(c, "out", "connect")
     \/ ClientGoes(c, "out", "asyncConnect")
  /\ mutex' = c
  /\ idle' = FALSE
  /\ inited' = FALSE
  /\ UNCHANGED <<tasks, taskId, workerVars, msgVars, exit, dpc>>

\* connect() keeps m_mutex and is "not idle" while the Controller connects; the
\* Controller begins by forgetting the device it had.
ConnectBegin(c) ==
  /\ dpc = "alive"
  /\ mutex = Nobody
  /\ idle
  /\ connects < MaxConnects
  /\ connects' = connects + 1
  /\ \/ ClientGoes(c, "out", "connect")
     \/ ClientGoes(c, "out", "asyncConnect")
  /\ mutex' = c
  /\ idle' = FALSE
  /\ inited' = FALSE
  /\ UNCHANGED <<tasks, taskId, workerVars, msgVars, exit, dpc>>

\* An asynchronous connect that finds m_thread_idle false has only to report.
ConnectRefused(c) ==
  /\ dpc = "alive"
  /\ mutex = Nobody
  /\ ~idle
  /\ ClientGoes(c, "out", "asyncReport")
  /\ UNCHANGED <<idle, tasks, taskId, workerVars, connects, mutex, inited, msgVars, exit, dpc>>

\* The Controller has connected, or not, and says so.
ConnectEnd(c) ==
  /\ \/ ClientGoes(c, "connect", "out")
     \/ ClientGoes(c, "asyncConnect", "asyncReport")
  /\ mutex = c
  /\ inited' \in BOOLEAN
  /\ Post("ConnectionInfo", 0)
  /\ mutex' = Nobody
  /\ idle' = TRUE
  /\ UNCHANGED <<tasks, taskId, workerVars, connects, exit, dpc>>

\* async_call: the thread of the call reports its result and ends.
AsyncReport(c) ==
  /\ ClientGoes(c, "asyncReport", "out")
  /\ Post("AsyncCallInfo", 0)
  /\ UNCHANGED <<idle, tasks, taskId, workerVars, connects, mutex, inited, exit, dpc>>

\* The part of a call that ends it whatever the callers do next.
Returns(c) == StartNow(c) \/ StopClear(c) \/ ConnectEnd(c) \/ AsyncReport(c)

ApiCall(c) ==
  \/ AppendTask(c) \/ StartCheck(c) \/ StopIdle(c) \/ ConnectBegin(c) \/ ConnectRefused(c)

-----------------------------------------------------------------------------
(***************************************************************************)
(* ~Assistant.  No API call may be in progress, but the thread of an       *)
(* asynchronous one may: its future is a member and outlives the body.     *)
(***************************************************************************)
DtorExit ==
  /\ dpc = "alive"
  /\ \A c \in Client : cpc[c] \in {"out", "asyncConnect", "asyncReport"}
  /\ exit' = TRUE
  /\ dpc' = "exitSet"
  /\ UNCHANGED <<idle, tasks, taskId, workerVars, clientVars, msgVars>>

DtorIdle ==
  /\ dpc = "exitSet"
  /\ idle' = TRUE
  /\ dpc' = "idleSet"
  /\ UNCHANGED <<tasks, taskId, workerVars, clientVars, msgVars, exit>>

DtorWakeWorker ==
  /\ dpc = "idleSet"
  /\ mutex = Nobody
  /\ wpc' = IF wpc = "waiting" THEN "check" ELSE wpc
  /\ dpc' = "exiting"
  /\ UNCHANGED <<idle, tasks, taskId, cur, ret, finished, clientVars, msgVars, exit>>

DtorWakeMsgThread ==
  /\ CQ!WakeMsgThread
  /\ UNCHANGED <<idle, tasks, taskId, workerVars, clientVars, view>>

DtorJoin ==
  /\ wpc = "exited"
  /\ CQ!JoinMsgThread
  /\ UNCHANGED <<idle, tasks, taskId, workerVars, clientVars, view>>

DtorGoesOn == DtorIdle \/ DtorWakeWorker \/ DtorWakeMsgThread \/ DtorJoin

-----------------------------------------------------------------------------
(***************************************************************************)
(* The callback thread and what the user learns from a callback.           *)
(***************************************************************************)
Observe(v, m) ==
  IF m.msg \notin ChainMsg THEN v
  ELSE [phase |-> CASE m.msg = "TaskChainStart" -> "running"
                    [] m.msg = "TaskChainStopped" /\ v.phase # "running" -> "none"
                    [] m.msg = "AllTasksCompleted" -> "allDone"
                    [] OTHER -> "ended",
        chain |-> m.id,
        tick |-> 1 - v.tick]

MsgThread ==
  /\ CQ!MsgCheck \/ CQ!MsgTake \/ CQ!MsgSleep
  /\ UNCHANGED <<idle, tasks, taskId, workerVars, clientVars, view, exit, dpc>>

Callback ==
  /\ CQ!MsgCall
  /\ view' = Observe(view, inflight)
  /\ UNCHANGED <<idle, tasks, taskId, workerVars, clientVars, exit, dpc>>

MsgSpurious ==
  /\ CQ!MsgSpurious
  /\ UNCHANGED <<idle, tasks, taskId, workerVars, clientVars, view, exit, dpc>>

-----------------------------------------------------------------------------
Next ==
  \/ Worker
  \/ MsgThread \/ Callback \/ MsgSpurious
  \/ \E c \in Client : ApiCall(c) \/ Returns(c)
  \/ DtorExit \/ DtorGoesOn

\* The threads are scheduled: the worker, the callback thread, an API call and
\* a destructor that have begun go on.  Nobody has to call the API, and a task
\* that nobody stops need not end.
Fairness ==
  /\ WF_vars(WorkerStep)
  /\ WF_vars(MsgThread \/ Callback)
  /\ \A c \in Client : WF_vars(Returns(c))
  /\ WF_vars(DtorGoesOn)

Spec == Init /\ [][Next]_vars /\ Fairness

-----------------------------------------------------------------------------
(***************************************************************************)
(* Properties.                                                             *)
(***************************************************************************)
TypeOK ==
  /\ idle \in BOOLEAN /\ exit \in BOOLEAN /\ inited \in BOOLEAN /\ ret \in BOOLEAN
  /\ taskId \in Nat /\ cur \in Nat /\ connects \in Nat
  /\ tasks \in Seq(Nat)
  /\ finished \in Seq(Nat)
  /\ mutex \in Client \cup {Nobody}
  /\ wpc \in WorkerPc
  /\ cpc \in [Client -> ClientPc]
  /\ dpc \in DtorPc
  /\ queue \in Seq(Loggable)
  /\ mpc \in CQ!MsgPc
  /\ inflight \in Loggable \cup {NoMessage}
  /\ last \in Loggable \cup {NoMessage}
  /\ view \in [phase : {"none", "running", "ended", "allDone"}, chain : Nat, tick : {0, 1}]

\* No start() is lost: whenever the worker sleeps, the instance is idle or a
\* connect() is in progress (which ends by making it idle).
NoLostStart == wpc = "waiting" => idle \/ mutex # Nobody

\* The worker is on a chain from the copy of its task to the pop.
OnChain == wpc \in {"starting", "running", "ran"}

\* The list holds ids in the order they were given, and only tasks that have
\* not been run: whatever stop() and append_task() do while a task runs, its pop
\* never leaves behind a task that the worker has had.
IdsInOrder ==
  /\ \A i, j \in 1..Len(tasks) : i < j => tasks[i] < tasks[j]
  /\ \A i \in 1..Len(tasks) :
       /\ tasks[i] <= taskId
       /\ IF OnChain THEN cur <= tasks[i] ELSE cur < tasks[i]
  /\ cur <= taskId

\* Tasks are run in the order in which they were appended and none is run
\* twice, whatever stop() and append_task() do to the list while one runs.
RunsForward == [][WorkerPick => cur' > cur]_vars

\* What the user sees of the chains follows the protocol, through the queue of
\* messages and whatever the clients do.
Protocol == INSTANCE TaskChainProtocol WITH
  phase <- view.phase, chain <- view.chain, tick <- view.tick
FollowsProtocol == Protocol!Spec

\* A started instance with a task in its list gets to run one, unless it is
\* stopped first.
StartedQueueMoves ==
  (~idle /\ mutex = Nobody /\ tasks # <<>>)
    ~> (wpc \in {"starting", "running"} \/ idle \/ tasks = <<>>)

-----------------------------------------------------------------------------
\* The list of tasks as a caller thinks of it: the running task is not pending.
Queue == INSTANCE TaskQueue WITH
  NoTask <- 0,
  newest <- taskId,
  running <- IF OnChain THEN cur ELSE 0,
  pending <- IF OnChain /\ tasks # <<>> /\ Head(tasks) = cur THEN Tail(tasks) ELSE tasks

\* start() runs the queue of tasks and stop() clears it (Assistant.h:33-36):
\* a task leaves the list by being run or by a stop.
IsTaskQueue == Queue!Spec

\* connect() needs the tasks to be stopped first (Assistant.cpp:120): the
\* Controller is not connected while a task is using it.
NoConnectUnderTask == mutex # Nobody => wpc # "running"

\* AsstDestroy returns.
DestroyReturns == (dpc = "joining") ~> (dpc = "destroyed")

\* An asynchronous call is answered by an AsyncCallInfo callback, unless the
\* instance is destroyed first.
AsyncCallAnswered ==
  \A c \in Client :
    (cpc[c] = "asyncReport") ~> (exit \/ (last # NoMessage /\ last.msg = "AsyncCallInfo"))
=============================================================================
