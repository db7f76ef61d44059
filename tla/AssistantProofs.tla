--------------------------- MODULE AssistantProofs ---------------------------
(***************************************************************************)
(* The scheduler keeps its types, loses no start() and runs the tasks in   *)
(* the order of their ids, for any number of client threads, tasks and     *)
(* connects.                                                               *)
(***************************************************************************)
EXTENDS Assistant, TLAPS

\* msg_proc has a posted message in hand while it calls the user's callback.
InHand == mpc = "calling" => inflight \in Loggable

IInv == TypeOK /\ InHand /\ NoLostStart /\ CQ!NoSleepOnMessage /\ IdsInOrder

-----------------------------------------------------------------------------
(***************************************************************************)
(* What single operations do.                                              *)
(***************************************************************************)
MsgTypeOK ==
  /\ queue \in Seq(Loggable)
  /\ mpc \in CQ!MsgPc
  /\ inflight \in Loggable \cup {NoMessage}
  /\ last \in Loggable \cup {NoMessage}

MsgInv == MsgTypeOK /\ InHand /\ CQ!NoSleepOnMessage

\* Posting any message keeps the invariant of the callback queue.
LEMMA PostKeepsMsgInv ==
  ASSUME MsgInv, NEW kind, NEW id, Post(kind, id)
  PROVE  MsgInv' /\ UNCHANGED view
BY DEF MsgInv, MsgTypeOK, InHand, CQ!NoSleepOnMessage, Post,
       CQ!AppendCallback, CQ!Notify, CQ!MsgPc

\* The callback thread keeps the invariant of its own queue.
LEMMA MsgThreadKeepsMsgInv ==
  ASSUME MsgInv, CQ!MsgCheck \/ CQ!MsgTake \/ CQ!MsgSleep \/ CQ!MsgSpurious
  PROVE  MsgInv'
BY DEF MsgInv, MsgTypeOK, InHand, CQ!NoSleepOnMessage, CQ!MsgPc,
       CQ!MsgCheck, CQ!MsgTake, CQ!MsgSleep, CQ!MsgSpurious

\* What the user sees stays well-formed.
LEMMA ObserveType ==
  ASSUME NEW v \in [phase : {"none", "running", "ended", "allDone"}, chain : Nat, tick : {0, 1}],
         NEW m \in Loggable
  PROVE  Observe(v, m) \in [phase : {"none", "running", "ended", "allDone"}, chain : Nat, tick : {0, 1}]
<1>1. m.msg \in AsstMsg /\ m.id \in Nat
  BY DEF Loggable
<1>2. CASE m.msg \notin ChainMsg
  BY <1>2 DEF Observe
<1>3. CASE m.msg \in ChainMsg
  <2> DEFINE phase == CASE m.msg = "TaskChainStart" -> "running"
                        [] m.msg = "TaskChainStopped" /\ v.phase # "running" -> "none"
                        [] m.msg = "AllTasksCompleted" -> "allDone"
                        [] OTHER -> "ended"
  <2>1. Observe(v, m) = [phase |-> phase, chain |-> m.id, tick |-> 1 - v.tick]
    BY <1>3 DEF Observe
  <2>2. phase \in {"none", "running", "ended", "allDone"}
    OBVIOUS
  <2>3. 1 - v.tick \in {0, 1}
    OBVIOUS
  <2> HIDE DEF phase
  <2> QED
    BY <1>1, <2>1, <2>2, <2>3
<1> QED
  BY <1>2, <1>3

\* Popping the front of the list keeps the order, and what is left has not
\* been run.
LEMMA PopKeepsOrder ==
  ASSUME TypeOK, IdsInOrder, wpc = "ran", wpc' = "popped", PopFront,
         UNCHANGED <<taskId, cur>>
  PROVE  tasks' \in Seq(Nat) /\ IdsInOrder'
<1>1. CASE tasks = <<>>
  BY <1>1 DEF TypeOK, IdsInOrder, OnChain, PopFront
<1>2. CASE tasks # <<>>
  <2>1. /\ tasks' \in Seq(Nat)
        /\ Len(tasks') = Len(tasks) - 1
        /\ \A i \in 1..Len(tasks') : tasks'[i] = tasks[i + 1] /\ i + 1 \in 2..Len(tasks)
    BY <1>2 DEF TypeOK, PopFront
  <2>2. 1 \in 1..Len(tasks) /\ cur <= tasks[1]
    BY <1>2 DEF TypeOK, IdsInOrder, OnChain
  <2>3. \A i \in 2..Len(tasks) : cur < tasks[i] /\ tasks[i] <= taskId
    <3> SUFFICES ASSUME NEW i \in 2..Len(tasks) PROVE cur < tasks[i] /\ tasks[i] <= taskId
      OBVIOUS
    <3>1. tasks[1] < tasks[i] /\ tasks[i] <= taskId
      BY <2>2 DEF TypeOK, IdsInOrder
    <3>2. tasks[1] \in Nat /\ tasks[i] \in Nat /\ cur \in Nat
      BY <2>2 DEF TypeOK
    <3> QED
      BY <2>2, <3>1, <3>2
  <2>4. ASSUME NEW i \in 1..Len(tasks'), NEW j \in 1..Len(tasks'), i < j
        PROVE  tasks'[i] < tasks'[j]
    <3>1. i + 1 \in 1..Len(tasks) /\ j + 1 \in 1..Len(tasks) /\ i + 1 < j + 1
      BY <2>1, <2>4 DEF TypeOK
    <3> QED
      BY <2>1, <2>4, <3>1 DEF IdsInOrder
  <2> QED
    BY <2>1, <2>3, <2>4 DEF IdsInOrder, OnChain
<1> QED
  BY <1>1, <1>2

\* A task that is appended gets the largest id, at the end of the list.
LEMMA AppendKeepsOrder ==
  ASSUME TypeOK, IdsInOrder, taskId' = taskId + 1, tasks' = Append(tasks, taskId'),
         UNCHANGED <<wpc, cur>>
  PROVE  tasks' \in Seq(Nat) /\ IdsInOrder'
<1>1. /\ tasks' \in Seq(Nat)
      /\ Len(tasks') = Len(tasks) + 1
      /\ \A i \in 1..Len(tasks) : tasks'[i] = tasks[i]
      /\ tasks'[Len(tasks')] = taskId + 1
  BY DEF TypeOK
<1>2. Len(tasks) \in Nat /\ cur \in Nat /\ taskId \in Nat
      /\ \A i \in 1..Len(tasks) : tasks[i] \in Nat
  BY DEF TypeOK
<1>3. \A i \in 1..Len(tasks') : i \in 1..Len(tasks) \/ i = Len(tasks')
  BY <1>1, <1>2
<1>4. \A i, j \in 1..Len(tasks') : i < j => tasks'[i] < tasks'[j]
  BY <1>1, <1>2, <1>3 DEF IdsInOrder
<1>5. \A i \in 1..Len(tasks') :
        /\ tasks'[i] <= taskId'
        /\ IF OnChain' THEN cur' <= tasks'[i] ELSE cur' < tasks'[i]
  BY <1>1, <1>2, <1>3 DEF IdsInOrder, OnChain
<1> QED
  BY <1>1, <1>2, <1>4, <1>5 DEF IdsInOrder

-----------------------------------------------------------------------------
\* The constructor establishes the invariant.
LEMMA InitIInv == Init => IInv
<1> SUFFICES ASSUME Init PROVE IInv
  OBVIOUS
<1> USE DEF Init, CQ!ThreadInit
<1>1. TypeOK
  <2>1. tasks \in Seq(Nat) /\ finished \in Seq(Nat) /\ queue \in Seq(Loggable)
    OBVIOUS
  <2>2. idle \in BOOLEAN /\ exit \in BOOLEAN /\ inited \in BOOLEAN /\ ret \in BOOLEAN
    OBVIOUS
  <2>3. cpc \in [Client -> ClientPc]
    BY DEF ClientPc
  <2>4. view \in [phase : {"none", "running", "ended", "allDone"}, chain : Nat, tick : {0, 1}]
    OBVIOUS
  <2> QED
    BY <2>1, <2>2, <2>3, <2>4 DEF TypeOK, WorkerPc, DtorPc, CQ!MsgPc
<1>2. InHand /\ NoLostStart /\ CQ!NoSleepOnMessage
  BY DEF InHand, NoLostStart, CQ!NoSleepOnMessage
<1>3. IdsInOrder
  BY DEF IdsInOrder, OnChain
<1> QED
  BY <1>1, <1>2, <1>3 DEF IInv

\* The worker's steps keep the invariant.
LEMMA WorkerKeepsIInv ==
  ASSUME IInv, Worker PROVE IInv'
<1> USE DEF IInv, TypeOK, WorkerPc, ClientPc, DtorPc, InHand, NoLostStart, CQ!NoSleepOnMessage,
            IdsInOrder, OnChain, workerVars, clientVars, msgVars
<1> MsgInv
  BY DEF MsgInv, MsgTypeOK
<1> USE DEF WorkerGoes
<1>1. CASE WorkerCheck
  BY <1>1 DEF WorkerCheck
<1>2. CASE WorkerPick
  BY <1>2 DEF WorkerPick
<1>3. CASE WorkerSleep
  BY <1>3 DEF WorkerSleep
<1>4. CASE WorkerAnnounce
  <2>1. MsgInv' /\ UNCHANGED view
    BY <1>4, PostKeepsMsgInv DEF WorkerAnnounce
  <2> QED
    BY <1>4, <2>1 DEF WorkerAnnounce, MsgInv, MsgTypeOK
<1>5. CASE TaskReturns
  <2>1. finished' \in Seq(Nat)
    BY <1>5 DEF TaskReturns
  <2> QED
    BY <1>5, <2>1 DEF TaskReturns
<1>6. CASE TaskGivesUp
  <2>1. finished' \in Seq(Nat)
    BY <1>6 DEF TaskGivesUp
  <2>2. ret' \in BOOLEAN
    BY <1>6 DEF TaskGivesUp
  <2> QED
    BY <1>6, <2>1, <2>2 DEF TaskGivesUp
<1>7. CASE TaskLosesDevice
  <2>1. MsgInv' /\ UNCHANGED view
    BY <1>7, PostKeepsMsgInv DEF TaskLosesDevice
  <2> QED
    BY <1>7, <2>1 DEF TaskLosesDevice, MsgInv, MsgTypeOK
<1>8. CASE WorkerPop
  <2>1. tasks' \in Seq(Nat) /\ IdsInOrder'
    <3> HIDE DEF IdsInOrder
    <3> QED
      BY <1>8, PopKeepsOrder DEF WorkerPop
  <2> QED
    BY <1>8, <2>1 DEF WorkerPop
<1>9. CASE WorkerReport
  <2>1. MsgInv' /\ UNCHANGED view
    BY <1>9, PostKeepsMsgInv DEF WorkerReport
  <2> QED
    BY <1>9, <2>1 DEF WorkerReport, MsgInv, MsgTypeOK
<1>10. CASE WorkerStopped
  BY <1>10 DEF WorkerStopped
<1>11. CASE WorkerNotStopped
  BY <1>11 DEF WorkerNotStopped
<1>12. CASE WorkerLooksForMore
  BY <1>12 DEF WorkerLooksForMore
<1>13. CASE WorkerAllDone
  <2>1. MsgInv' /\ UNCHANGED view
    BY <1>13, PostKeepsMsgInv DEF WorkerAllDone
  <2> QED
    BY <1>13, <2>1 DEF WorkerAllDone, MsgInv, MsgTypeOK
<1>14. CASE WorkerPause
  BY <1>14 DEF WorkerPause
<1>15. CASE WorkerResumes
  <2>1. MsgInv' /\ UNCHANGED view
    <3>1. CASE idle
      BY <1>15, <3>1, PostKeepsMsgInv DEF WorkerResumes
    <3>2. CASE ~idle
      BY <1>15, <3>2 DEF WorkerResumes, MsgInv, MsgTypeOK
    <3> QED
      BY <3>1, <3>2
  <2> QED
    BY <1>15, <2>1 DEF WorkerResumes, MsgInv, MsgTypeOK
<1>16. CASE WorkerSpurious
  BY <1>16 DEF WorkerSpurious
<1> QED
  BY <1>1, <1>2, <1>3, <1>4, <1>5, <1>6, <1>7, <1>8, <1>9, <1>10, <1>11, <1>12, <1>13, <1>14, <1>15, <1>16 DEF Worker, WorkerStep

\* The API calls keep the invariant.
LEMMA ClientKeepsIInv ==
  ASSUME IInv, NEW c \in Client, ApiCall(c) \/ Returns(c) PROVE IInv'
<1> USE DEF IInv, TypeOK, WorkerPc, ClientPc, DtorPc, InHand, NoLostStart, CQ!NoSleepOnMessage,
            IdsInOrder, OnChain, workerVars, clientVars, msgVars
<1> MsgInv
  BY DEF MsgInv, MsgTypeOK
<1> USE ClientAssumption DEF ClientGoes
<1>1. CASE AppendTask(c)
  <2>1. tasks' \in Seq(Nat) /\ IdsInOrder'
    <3> HIDE DEF IdsInOrder
    <3> QED
      BY <1>1, AppendKeepsOrder DEF AppendTask
  <2> QED
    BY <1>1, <2>1 DEF AppendTask
<1>2. CASE StartCheck(c)
  BY <1>2 DEF StartCheck
<1>3. CASE StartNow(c)
  <2>1. idle' \in BOOLEAN /\ wpc' \in WorkerPc /\ wpc' # "waiting"
    BY <1>3 DEF StartNow
  <2>2. IdsInOrder'
    BY <1>3 DEF StartNow
  <2>3. cpc' \in [Client -> ClientPc]
    BY <1>3 DEF StartNow
  <2> QED
    BY <1>3, <2>1, <2>2, <2>3 DEF StartNow
<1>4. CASE StopIdle(c)
  BY <1>4 DEF StopIdle
<1>5. CASE StopClear(c)
  <2>1. tasks' \in Seq(Nat) /\ Len(tasks') = 0
    BY <1>5 DEF StopClear
  <2> QED
    BY <1>5, <2>1 DEF StopClear
<1>6. CASE ConnectBegin(c)
  <2>1. /\ idle' \in BOOLEAN /\ inited' \in BOOLEAN
        /\ mutex' \in Client \cup {Nobody} /\ connects' \in Nat
    <3>1. idle' \in BOOLEAN /\ inited' \in BOOLEAN
      BY <1>6 DEF ConnectBegin
    <3>2. mutex' \in Client \cup {Nobody} /\ connects' \in Nat
      BY <1>6 DEF ConnectBegin
    <3> QED
      BY <3>1, <3>2
  <2>2. cpc' \in [Client -> ClientPc]
    BY <1>6 DEF ConnectBegin
  <2>3. NoLostStart'
    BY <1>6 DEF ConnectBegin
  <2> QED
    BY <1>6, <2>1, <2>2, <2>3 DEF ConnectBegin
<1>7. CASE ConnectRefused(c)
  BY <1>7 DEF ConnectRefused
<1>8. CASE ConnectEnd(c)
  <2>1. MsgInv' /\ UNCHANGED view
    BY <1>8, PostKeepsMsgInv DEF ConnectEnd
  <2>2. /\ idle' \in BOOLEAN /\ inited' \in BOOLEAN /\ mutex' \in Client \cup {Nobody}
        /\ cpc' \in [Client -> ClientPc]
    BY <1>8 DEF ConnectEnd
  <2>3. NoLostStart'
    BY <1>8 DEF ConnectEnd
  <2> QED
    BY <1>8, <2>1, <2>2, <2>3 DEF ConnectEnd, MsgInv, MsgTypeOK
<1>9. CASE AsyncReport(c)
  <2>1. MsgInv' /\ UNCHANGED view
    BY <1>9, PostKeepsMsgInv DEF AsyncReport
  <2> QED
    BY <1>9, <2>1 DEF AsyncReport, MsgInv, MsgTypeOK
<1> QED
  BY <1>1, <1>2, <1>3, <1>4, <1>5, <1>6, <1>7, <1>8, <1>9 DEF ApiCall, Returns

\* The destructor keeps the invariant.
LEMMA DtorKeepsIInv ==
  ASSUME IInv, DtorExit \/ DtorGoesOn PROVE IInv'
<1> USE DEF IInv, TypeOK, WorkerPc, ClientPc, DtorPc, InHand, NoLostStart, CQ!NoSleepOnMessage,
            IdsInOrder, OnChain, workerVars, clientVars, msgVars
<1> MsgInv
  BY DEF MsgInv, MsgTypeOK
<1>1. CASE DtorExit
  BY <1>1 DEF DtorExit
<1>2. CASE DtorIdle
  BY <1>2 DEF DtorIdle
<1>3. CASE DtorWakeWorker
  BY <1>3 DEF DtorWakeWorker
<1>4. CASE DtorWakeMsgThread
  BY <1>4 DEF DtorWakeMsgThread, CQ!WakeMsgThread, CQ!Notify, CQ!MsgPc
<1>5. CASE DtorJoin
  BY <1>5 DEF DtorJoin, CQ!JoinMsgThread, CQ!threadVars
<1> QED
  BY <1>1, <1>2, <1>3, <1>4, <1>5 DEF DtorGoesOn

\* The thread of the callbacks keeps the invariant.
LEMMA MsgThreadKeepsIInv ==
  ASSUME IInv, MsgThread \/ Callback \/ MsgSpurious PROVE IInv'
<1> USE DEF IInv, TypeOK, WorkerPc, ClientPc, DtorPc, InHand, NoLostStart, CQ!NoSleepOnMessage,
            IdsInOrder, OnChain, workerVars, clientVars, msgVars
<1> MsgInv
  BY DEF MsgInv, MsgTypeOK
<1>1. CASE MsgThread \/ MsgSpurious
  <2>1. MsgInv'
    BY <1>1, MsgThreadKeepsMsgInv DEF MsgThread, MsgSpurious
  <2>2. UNCHANGED <<idle, tasks, taskId, workerVars, clientVars, view, exit, dpc>>
    BY <1>1 DEF MsgThread, MsgSpurious
  <2> QED
    BY <2>1, <2>2 DEF MsgInv, MsgTypeOK
<1>2. CASE Callback
  <2>1. view' \in [phase : {"none", "running", "ended", "allDone"}, chain : Nat, tick : {0, 1}]
    BY <1>2, ObserveType DEF Callback, CQ!MsgCall
  <2> QED
    BY <1>2, <2>1 DEF Callback, CQ!MsgCall, CQ!MsgPc
<1> QED
  BY <1>1, <1>2

\* The invariant is inductive.
LEMMA NextIInv == IInv /\ [Next]_vars => IInv'
<1>1. ASSUME IInv, UNCHANGED vars PROVE IInv'
  BY <1>1 DEF IInv, TypeOK, InHand, NoLostStart, CQ!NoSleepOnMessage,
     IdsInOrder, OnChain, vars, workerVars, clientVars, msgVars
<1> QED
  BY <1>1, WorkerKeepsIInv, ClientKeepsIInv, DtorKeepsIInv, MsgThreadKeepsIInv DEF Next

\* So it holds in every reachable state, of any number of clients.
THEOREM Invariance == Spec => []IInv
BY InitIInv, NextIInv, PTL DEF Spec

-----------------------------------------------------------------------------
\* Every variable of the scheduler keeps its type.
THEOREM TypeCorrect == Spec => []TypeOK
<1>1. IInv => TypeOK
  BY DEF IInv
<1> QED
  BY <1>1, Invariance, PTL

\* The worker never sleeps on a start(): m_condvar.wait has no predicate, but
\* start() and the worker's test of m_thread_idle are under one lock.
THEOREM NoStartIsLost == Spec => []NoLostStart
<1>1. IInv => NoLostStart
  BY DEF IInv
<1> QED
  BY <1>1, Invariance, PTL

\* The list is in the order of the ids and holds only tasks not yet run.
THEOREM ListInOrder == Spec => []IdsInOrder
<1>1. IInv => IdsInOrder
  BY DEF IInv
<1> QED
  BY <1>1, Invariance, PTL

\* Tasks are run in the order of appending, none twice.
THEOREM ChainsRunForward == Spec => RunsForward
<1>1. IInv /\ [Next]_vars => [WorkerPick => cur' > cur]_vars
  <2> SUFFICES ASSUME IInv, WorkerPick PROVE cur' > cur
    OBVIOUS
  <2>1. cur' = Head(tasks) /\ tasks # <<>> /\ ~OnChain
    BY DEF WorkerPick, WorkerGoes, OnChain
  <2>2. 1 \in 1..Len(tasks) /\ Head(tasks) = tasks[1] /\ tasks[1] \in Nat /\ cur \in Nat
    BY <2>1 DEF IInv, TypeOK
  <2> QED
    BY <2>1, <2>2 DEF IInv, IdsInOrder
<1> QED
  BY <1>1, Invariance, PTL DEF Spec, RunsForward

-----------------------------------------------------------------------------
(***************************************************************************)
(* The protocol of the callbacks.  What the user sees lags behind what the *)
(* worker has posted, by the message in hand and those queued.             *)
(*                                                                         *)
(* A value that is kept over a step is named with PICK: in its place a     *)
(* definition would be primed with the formula around it.                  *)
(***************************************************************************)
View == [phase : {"none", "running", "ended", "allDone"}, chain : Nat, tick : {0, 1}]

Pending == IF mpc = "calling" THEN <<inflight>> \o queue ELSE queue

\* Message m may come next for a user who sees v.
Fits(v, m) ==
  m.msg \in ChainMsg =>
    \/ m.msg = "TaskChainStart" /\ v.phase # "running" /\ v.chain < m.id
    \/ m.msg \in ChainEnd /\ v.phase = "running" /\ m.id = v.chain
    \/ m.msg = "TaskChainStopped" /\ v.phase \in {"ended", "allDone"} /\ m.id = v.chain
    \/ m.msg = "AllTasksCompleted" /\ v.phase = "ended" /\ m.id = v.chain

\* s[i] is what the user will see after i more callbacks.
WillSee(s) ==
  /\ s \in [0..Len(Pending) -> View]
  /\ s[0] = view
  /\ \A i \in 1..Len(Pending) : Fits(s[i - 1], Pending[i]) /\ s[i] = Observe(s[i - 1], Pending[i])

\* Where the worker is when the user has seen everything.
Told(v) ==
  /\ v.phase = "running" <=> wpc \in {"running", "ran", "popped"}
  /\ wpc \in {"reported", "unstopped", "allDone"} => v.phase = "ended"
  /\ wpc \in {"pause", "pausing"} => v.phase \in {"ended", "allDone"}
  /\ IF wpc = "starting" THEN v.chain < cur ELSE v.chain = cur

\* The user will be told a story that fits, up to where the worker is.
InStep == \E s : WillSee(s) /\ Told(s[Len(Pending)])

\* The messages not yet seen are those in hand and those in the queue.
LEMMA PendingItems ==
  ASSUME MsgTypeOK, InHand
  PROVE  /\ Pending \in Seq(Loggable)
         /\ mpc # "calling" => Pending = queue
         /\ mpc = "calling" => /\ Len(Pending) = Len(queue) + 1 /\ Pending[1] = inflight
                               /\ \A i \in 1..Len(queue) : Pending[i + 1] = queue[i]
BY DEF MsgTypeOK, InHand, Pending

\* A message that fits is posted: the story is longer by one callback.
LEMMA PostGoesOn ==
  ASSUME MsgInv, NEW kind, NEW id, Post(kind, id), [msg |-> kind, id |-> id] \in Loggable,
         NEW s, WillSee(s), Fits(s[Len(Pending)], [msg |-> kind, id |-> id])
  PROVE  \E t : WillSee(t)' /\ t[Len(Pending')] = Observe(s[Len(Pending)], [msg |-> kind, id |-> id])
<1> DEFINE m == [msg |-> kind, id |-> id]
<1>0. PICK n : n = Len(Pending)
  OBVIOUS
<1> DEFINE t == [i \in 0..(n + 1) |-> IF i = n + 1 THEN Observe(s[n], m) ELSE s[i]]
<1>1. /\ queue' = Append(queue, m) /\ UNCHANGED <<inflight, view>>
      /\ (mpc' = "calling" <=> mpc = "calling")
  BY DEF Post, CQ!AppendCallback, CQ!Notify
<1>2. MsgTypeOK /\ InHand /\ MsgTypeOK' /\ InHand'
  BY PostKeepsMsgInv DEF MsgInv
<1>3. n \in Nat /\ Pending \in Seq(Loggable)
  BY <1>0, <1>2, PendingItems
<1>4. Pending' = Append(Pending, m)
  <2> HIDE DEF m
  <2> QED
    BY <1>1, <1>2 DEF Pending, MsgTypeOK, InHand
<1>5. Len(Pending') = n + 1 /\ Pending'[n + 1] = m /\ \A i \in 1..n : Pending'[i] = Pending[i]
  <2> HIDE DEF m
  <2> QED
    BY <1>0, <1>3, <1>4
<1>6. s \in [0..n -> View] /\ s[n] \in View
  BY <1>0, <1>3 DEF WillSee
<1>7. Observe(s[n], m) \in View
  BY <1>6, ObserveType DEF View
<1>8. t \in [0..(n + 1) -> View]
  <2> HIDE DEF m
  <2> QED
    BY <1>3, <1>6, <1>7
<1>9. t[0] = view' /\ t[n + 1] = Observe(s[n], m) /\ \A i \in 0..n : t[i] = s[i]
  <2>1. s[0] = view
    BY DEF WillSee
  <2> HIDE DEF m
  <2> QED
    BY <1>1, <1>3, <2>1
<1>10. ASSUME NEW i \in 1..(n + 1)
       PROVE  Fits(t[i - 1], Pending'[i]) /\ t[i] = Observe(t[i - 1], Pending'[i])
  <2> HIDE DEF t, m
  <2>1. CASE i = n + 1
    <3>1. t[i - 1] = s[n] /\ Pending'[i] = m /\ t[i] = Observe(s[n], m)
      BY <1>3, <1>5, <1>9, <2>1
    <3>2. Fits(s[n], m)
      BY <1>0 DEF m
    <3> QED
      BY <3>1, <3>2
  <2>2. CASE i \in 1..n
    <3>1. t[i - 1] = s[i - 1] /\ t[i] = s[i] /\ Pending'[i] = Pending[i]
      BY <1>3, <1>5, <1>9, <2>2
    <3>2. Fits(s[i - 1], Pending[i]) /\ s[i] = Observe(s[i - 1], Pending[i])
      BY <1>0, <2>2 DEF WillSee
    <3> QED
      BY <3>1, <3>2
  <2> QED
    BY <1>3, <2>1, <2>2
<1>11. WillSee(t)' /\ t[Len(Pending')] = Observe(s[n], m)
  <2> HIDE DEF t, m
  <2> QED
    BY <1>5, <1>8, <1>9, <1>10 DEF WillSee
<1> HIDE DEF t
<1> QED
  BY <1>0, <1>11

\* Where nothing is posted or called, the story is the same.
LEMMA SameStory ==
  ASSUME Pending' = Pending, view' = view, NEW s, WillSee(s)
  PROVE  WillSee(s)' /\ Len(Pending') = Len(Pending)
BY DEF WillSee

\* A callback tells the first part of it, which is a step of the protocol.
LEMMA CallbackTells ==
  ASSUME TypeOK, InHand, Callback, InStep
  PROVE  InStep' /\ [Protocol!Next]_<<view.phase, view.chain, view.tick>>
<1>1. PICK s : WillSee(s) /\ Told(s[Len(Pending)])
  BY DEF InStep
<1>0. PICK n : n = Len(queue)
  OBVIOUS
<1> DEFINE t == [i \in 0..n |-> s[i + 1]]
<1>2. /\ mpc = "calling" /\ mpc' = "check" /\ queue' = queue /\ view' = Observe(view, inflight)
      /\ UNCHANGED workerVars
  BY DEF Callback, CQ!MsgCall
<1>3. /\ Len(Pending) = n + 1 /\ n \in Nat /\ Pending[1] = inflight /\ inflight \in Loggable
      /\ \A i \in 1..n : Pending[i + 1] = queue[i]
  BY <1>0, <1>2, PendingItems DEF TypeOK, MsgTypeOK, InHand
<1>4. Pending' = queue
  BY <1>2 DEF Pending
<1>5. /\ s \in [0..(n + 1) -> View] /\ s[0] = view
      /\ \A i \in 1..(n + 1) : Fits(s[i - 1], Pending[i]) /\ s[i] = Observe(s[i - 1], Pending[i])
  BY <1>1, <1>3 DEF WillSee
<1>6. Fits(view, inflight) /\ s[1] = view'
  <2>1. 1 \in 1..(n + 1) /\ 1 - 1 = 0
    BY <1>3
  <2> QED
    BY <1>2, <1>3, <1>5, <2>1
<1>7. t \in [0..n -> View] /\ t[0] = view' /\ t[n] = s[n + 1] /\ \A i \in 0..n : t[i] = s[i + 1]
  BY <1>3, <1>5, <1>6
<1>8. ASSUME NEW i \in 1..n PROVE Fits(t[i - 1], queue[i]) /\ t[i] = Observe(t[i - 1], queue[i])
  <2>1. i + 1 \in 1..(n + 1) /\ (i + 1) - 1 = i /\ t[i - 1] = s[i] /\ t[i] = s[i + 1]
    <3> HIDE DEF t
    <3> QED
      BY <1>3, <1>7
  <2>2. Fits(s[i], Pending[i + 1]) /\ s[i + 1] = Observe(s[i], Pending[i + 1])
    BY <1>5, <2>1
  <2> HIDE DEF t
  <2> QED
    BY <1>3, <2>1, <2>2
<1>9. InStep'
  <2>1. WillSee(t)'
    <3> HIDE DEF t
    <3> QED
      BY <1>0, <1>2, <1>4, <1>7, <1>8 DEF WillSee
  <2>2. Told(s[n + 1])'
    BY <1>1, <1>2, <1>3 DEF Told, workerVars
  <2> HIDE DEF t
  <2> QED
    BY <1>0, <1>2, <1>4, <1>7, <2>1, <2>2 DEF InStep
<1>10. [Protocol!Next]_<<view.phase, view.chain, view.tick>>
  <2>1. CASE inflight.msg \notin ChainMsg
    BY <1>2, <2>1 DEF Observe
  <2>2. CASE inflight.msg \in ChainMsg
    <3>1. /\ view'.chain = inflight.id /\ view'.tick = 1 - view.tick
          /\ view'.phase = (CASE inflight.msg = "TaskChainStart" -> "running"
                    [] inflight.msg = "TaskChainStopped" /\ view.phase # "running" -> "none"
                    [] inflight.msg = "AllTasksCompleted" -> "allDone"
                    [] OTHER -> "ended")
      BY <1>2, <2>2 DEF Observe
    <3>2. view.chain \in Nat /\ inflight.id \in Nat
      BY <1>3 DEF TypeOK, Loggable
    <3> QED
      BY <1>6, <2>2, <3>1, <3>2
         DEF Fits, ChainEnd, ChainMsg, Protocol!Next, Protocol!Start, Protocol!Ends
  <2> QED
    BY <2>1, <2>2
<1> QED
  BY <1>9, <1>10

\* The worker posts what fits where it is.
LEMMA WorkerTells ==
  ASSUME IInv, InStep, Worker PROVE InStep'
<1>1. PICK s : WillSee(s) /\ Told(s[Len(Pending)])
  BY DEF InStep
<1>v. PICK v : v = s[Len(Pending)]
  OBVIOUS
<1>c. PICK c : c = cur
  OBVIOUS
<1>2. MsgInv
  BY DEF IInv, TypeOK, MsgInv, MsgTypeOK
<1>3. v \in View
  <2>1. Len(Pending) \in Nat
    BY <1>2, PendingItems DEF MsgInv
  <2> QED
    BY <1>v, <1>1, <2>1 DEF WillSee
<1>4. cur \in Nat /\ Told(v)
  BY <1>v, <1>1 DEF IInv, TypeOK
<1>5. ASSUME UNCHANGED msgVars, \A w \in View : Told(w) => Told(w)' PROVE InStep'
  <2>1. Pending' = Pending /\ view' = view
    BY <1>5 DEF msgVars, Pending
  <2>2. WillSee(s)' /\ Len(Pending') = Len(Pending)
    BY <1>1, <2>1, SameStory
  <2>3. Told(s[Len(Pending)])'
    BY <1>v, <1>3, <1>4, <1>5, <2>2
  <2> QED
    BY <2>2, <2>3 DEF InStep
<1>6. ASSUME NEW kind, NEW id, NEW w, Post(kind, id), [msg |-> kind, id |-> id] \in Loggable,
             Fits(v, [msg |-> kind, id |-> id]), w = Observe(v, [msg |-> kind, id |-> id]), Told(w)'
      PROVE  InStep'
  <2>1. PICK t : WillSee(t)' /\ t[Len(Pending')] = w
    BY <1>v, <1>1, <1>2, <1>6, PostGoesOn
  <2>2. Told(t[Len(Pending)])'
    BY <1>6, <2>1
  <2> QED
    BY <2>1, <2>2 DEF InStep
<1>7. CASE WorkerCheck \/ WorkerSleep \/ TaskReturns \/ TaskGivesUp \/ WorkerPop \/ WorkerStopped
           \/ WorkerNotStopped \/ WorkerLooksForMore \/ WorkerPause \/ WorkerSpurious
  BY <1>5, <1>7 DEF WorkerCheck, WorkerSleep, TaskReturns, TaskGivesUp, WorkerPop, WorkerStopped,
     WorkerNotStopped, WorkerLooksForMore, WorkerPause, WorkerSpurious, WorkerGoes, Told
<1>8. CASE WorkerPick
  <2>1. cur' > cur /\ cur' \in Nat
    <3>1. cur' = Head(tasks) /\ tasks # <<>> /\ ~OnChain
      BY <1>8 DEF WorkerPick, WorkerGoes, OnChain
    <3>2. 1 \in 1..Len(tasks) /\ Head(tasks) = tasks[1] /\ tasks[1] \in Nat
      BY <3>1 DEF IInv, TypeOK
    <3> QED
      BY <1>4, <3>1, <3>2 DEF IInv, IdsInOrder
  <2> QED
    BY <1>4, <1>5, <1>8, <2>1 DEF WorkerPick, WorkerGoes, Told, View
<1>9. CASE WorkerAnnounce
  <2>1. Post("TaskChainStart", c) /\ wpc = "starting" /\ wpc' = "running" /\ cur = c /\ cur' = c
    BY <1>9, <1>c DEF WorkerAnnounce, WorkerGoes
  <2> DEFINE m == [msg |-> "TaskChainStart", id |-> c]
  <2>2. m \in Loggable /\ m.msg \in ChainMsg
    BY <1>4, <1>c DEF Loggable, AsstMsg, ChainMsg
  <2>3. Fits(v, m)
    BY <1>4, <2>1 DEF Fits, Told
  <2> DEFINE w == [phase |-> "running", chain |-> c, tick |-> 1 - v.tick]
  <2>4. w = Observe(v, m)
    BY <2>2 DEF Observe
  <2>5. Told(w)'
    BY <2>1, <2>4 DEF Told
  <2> QED
    BY <1>6, <2>1, <2>2, <2>3, <2>4, <2>5
<1>10. CASE TaskLosesDevice
  <2>1. Post("ConnectionInfo", 0) /\ UNCHANGED <<wpc, cur>>
    BY <1>10 DEF TaskLosesDevice, workerVars
  <2> DEFINE m == [msg |-> "ConnectionInfo", id |-> 0]
  <2>2. m \in Loggable /\ m.msg \notin ChainMsg
    BY DEF Loggable, AsstMsg, ChainMsg, ChainEnd
  <2>3. Fits(v, m) /\ v = Observe(v, m)
    BY <2>2 DEF Fits, Observe
  <2>4. Told(v)'
    BY <1>4, <2>1, <2>3 DEF Told
  <2> QED
    BY <1>6, <2>1, <2>2, <2>3, <2>4
<1>11. CASE WorkerReport
  <2>1. PICK kind \in ChainEnd : Post(kind, c)
    BY <1>11, <1>c DEF WorkerReport, ChainEnd
  <2>2. wpc = "popped" /\ wpc' = "reported" /\ cur = c /\ cur' = c
    BY <1>11, <1>c DEF WorkerReport, WorkerGoes
  <2> DEFINE m == [msg |-> kind, id |-> c]
  <2>3. m \in Loggable /\ m.msg \in ChainMsg
    BY <1>4, <1>c DEF Loggable, AsstMsg, ChainMsg, ChainEnd
  <2>4. v.phase = "running" /\ v.chain = c
    BY <1>4, <2>2 DEF Told
  <2>5. Fits(v, m)
    BY <2>4 DEF Fits
  <2> DEFINE w == [phase |-> "ended", chain |-> c, tick |-> 1 - v.tick]
  <2>6. w = Observe(v, m)
    BY <2>3, <2>4 DEF Observe, ChainEnd
  <2>7. Told(w)'
    BY <2>2, <2>6 DEF Told
  <2> QED
    BY <1>6, <2>1, <2>3, <2>5, <2>6, <2>7
<1>12. CASE WorkerAllDone
  <2>1. Post("AllTasksCompleted", c) /\ wpc = "allDone" /\ wpc' = "pause" /\ cur = c /\ cur' = c
    BY <1>12, <1>c DEF WorkerAllDone, WorkerGoes
  <2> DEFINE m == [msg |-> "AllTasksCompleted", id |-> c]
  <2>2. m \in Loggable /\ m.msg \in ChainMsg
    BY <1>4, <1>c DEF Loggable, AsstMsg, ChainMsg
  <2>3. Fits(v, m)
    BY <1>4, <2>1 DEF Fits, Told
  <2> DEFINE w == [phase |-> "allDone", chain |-> c, tick |-> 1 - v.tick]
  <2>4. w = Observe(v, m)
    BY <2>2 DEF Observe
  <2>5. Told(w)'
    BY <2>1, <2>4 DEF Told
  <2> QED
    BY <1>6, <2>1, <2>2, <2>3, <2>4, <2>5
<1>13. CASE WorkerResumes
  <2>1. wpc = "pausing" /\ wpc' = "check" /\ cur = c /\ cur' = c
    BY <1>13, <1>c DEF WorkerResumes, WorkerGoes
  <2>2. CASE ~idle
    <3>1. UNCHANGED msgVars
      BY <1>13, <2>2 DEF WorkerResumes
    <3> QED
      BY <1>5, <2>1, <3>1 DEF Told
  <2>3. CASE idle
    <3>1. Post("TaskChainStopped", c)
      BY <1>13, <2>3, <1>c DEF WorkerResumes
    <3> DEFINE m == [msg |-> "TaskChainStopped", id |-> c]
    <3>2. m \in Loggable /\ m.msg \in ChainMsg
      BY <1>4, <1>c DEF Loggable, AsstMsg, ChainMsg, ChainEnd
    <3>3. v.phase \in {"ended", "allDone"} /\ v.chain = c
      BY <1>4, <2>1 DEF Told
    <3>4. Fits(v, m)
      BY <3>3 DEF Fits
    <3> DEFINE w == [phase |-> "none", chain |-> c, tick |-> 1 - v.tick]
    <3>5. w = Observe(v, m)
      BY <3>2, <3>3 DEF Observe
    <3>6. Told(w)'
      BY <2>1, <3>5 DEF Told
    <3> QED
      BY <1>6, <3>1, <3>2, <3>4, <3>5, <3>6
  <2> QED
    BY <2>2, <2>3
<1> QED
  BY <1>7, <1>8, <1>9, <1>10, <1>11, <1>12, <1>13 DEF Worker, WorkerStep

\* The other threads post nothing about chains.
LEMMA OthersTell ==
  ASSUME IInv, InStep,
         \/ MsgThread \/ MsgSpurious \/ DtorExit \/ DtorGoesOn \/ UNCHANGED vars
         \/ \E c \in Client : ApiCall(c) \/ Returns(c)
  PROVE  InStep'
<1>1. PICK s : WillSee(s) /\ Told(s[Len(Pending)])
  BY DEF InStep
<1>v. PICK v : v = s[Len(Pending)]
  OBVIOUS
<1>2. MsgInv
  BY DEF IInv, TypeOK, MsgInv, MsgTypeOK
<1>3. ASSUME Pending' = Pending, view' = view, cur' = cur, wpc' = wpc \/ (wpc = "waiting" /\ wpc' = "check")
      PROVE  InStep'
  <2>1. WillSee(s)' /\ Len(Pending') = Len(Pending)
    BY <1>1, <1>3, SameStory
  <2>2. Told(s[Len(Pending)])'
    BY <1>1, <1>3 DEF Told
  <2> QED
    BY <2>1, <2>2 DEF InStep
<1>4. CASE MsgThread \/ MsgSpurious
  <2>1. UNCHANGED <<cur, wpc, view>>
    BY <1>4 DEF MsgThread, MsgSpurious, workerVars
  <2>2. Pending' = Pending
    <3>1. CASE CQ!MsgTake
      BY <1>2, <3>1 DEF CQ!MsgTake, Pending, MsgInv, MsgTypeOK
    <3>2. CASE CQ!MsgCheck \/ CQ!MsgSleep \/ CQ!MsgSpurious
      BY <3>2 DEF CQ!MsgCheck, CQ!MsgSleep, CQ!MsgSpurious, Pending
    <3> QED
      BY <1>4, <3>1, <3>2 DEF MsgThread, MsgSpurious
  <2> QED
    BY <1>3, <2>1, <2>2
<1>5. CASE DtorExit \/ DtorGoesOn \/ UNCHANGED vars
  BY <1>3, <1>5 DEF DtorExit, DtorGoesOn, DtorIdle, DtorWakeWorker, DtorWakeMsgThread, DtorJoin,
     CQ!WakeMsgThread, CQ!JoinMsgThread, CQ!Notify, CQ!threadVars, vars, workerVars, msgVars, Pending
<1>6. ASSUME NEW c \in Client, ApiCall(c) \/ Returns(c) PROVE InStep'
  <2>1. CASE ApiCall(c) \/ StartNow(c) \/ StopClear(c)
    BY <1>3, <2>1 DEF ApiCall, AppendTask, StartCheck, StopIdle, ConnectBegin, ConnectRefused,
       StartNow, StopClear, workerVars, msgVars, Pending
  <2>2. CASE AsyncReport(c)
    <3>1. Post("AsyncCallInfo", 0) /\ UNCHANGED workerVars
      BY <2>2 DEF AsyncReport
    <3>2. [msg |-> "AsyncCallInfo", id |-> 0] \notin Loggable
      BY DEF Loggable
    <3>3. UNCHANGED <<queue, mpc, inflight, view>>
      BY <3>1, <3>2 DEF Post, CQ!AppendCallback
    <3> QED
      BY <1>3, <3>1, <3>3 DEF workerVars, Pending
  <2>3. CASE ConnectEnd(c)
    <3>1. Post("ConnectionInfo", 0) /\ UNCHANGED <<wpc, cur>>
      BY <2>3 DEF ConnectEnd, workerVars
    <3> DEFINE m == [msg |-> "ConnectionInfo", id |-> 0]
    <3>2. m \in Loggable /\ m.msg \notin ChainMsg
      BY DEF Loggable, AsstMsg, ChainMsg, ChainEnd
    <3>3. Fits(s[Len(Pending)], m) /\ Observe(s[Len(Pending)], m) = s[Len(Pending)]
      BY <3>2 DEF Fits, Observe
    <3>4. PICK t : WillSee(t)' /\ t[Len(Pending')] = v
      BY <1>v, <1>1, <1>2, <3>1, <3>2, <3>3, PostGoesOn
    <3>5. Told(v)'
      BY <1>v, <1>1, <3>1 DEF Told
    <3> QED
      BY <3>4, <3>5 DEF InStep
  <2> QED
    BY <1>6, <2>1, <2>2, <2>3 DEF Returns
<1> QED
  BY <1>4, <1>5, <1>6

\* Nothing has been said yet when the Assistant is made.
LEMMA InitInStep == Init => InStep /\ Protocol!Init
<1> SUFFICES ASSUME Init PROVE InStep /\ Protocol!Init
  OBVIOUS
<1>1. Pending = <<>> /\ view = [phase |-> "none", chain |-> 0, tick |-> 0] /\ wpc = "check" /\ cur = 0
  BY DEF Init, CQ!ThreadInit, Pending
<1> DEFINE s == [i \in 0..0 |-> view]
<1>2. s \in [0..0 -> View] /\ s[0] = view
  BY <1>1 DEF View
<1>3. Len(Pending) = 0
  BY <1>1
<1>4. WillSee(s)
  <2> HIDE DEF s
  <2> QED
    BY <1>2, <1>3 DEF WillSee
<1>5. Told(s[Len(Pending)])
  BY <1>1, <1>2, <1>3 DEF Told
<1> HIDE DEF s
<1> QED
  BY <1>1, <1>4, <1>5 DEF InStep, Protocol!Init

\* What the user is told of the chains follows the protocol, whatever any number
\* of clients do and however far the callbacks lag behind.
THEOREM CallbacksFollowProtocol == Spec => FollowsProtocol
<1>1. IInv /\ InStep /\ [Next]_vars => InStep' /\ [Protocol!Next]_<<view.phase, view.chain, view.tick>>
  <2> SUFFICES ASSUME IInv, InStep, [Next]_vars
               PROVE  InStep' /\ [Protocol!Next]_<<view.phase, view.chain, view.tick>>
    OBVIOUS
  <2>1. CASE Callback
    BY <2>1, CallbackTells DEF IInv
  <2>2. CASE Worker
    <3>1. view' = view
      BY <2>2 DEF Worker, WorkerStep, WorkerCheck, WorkerPick, WorkerSleep, WorkerAnnounce, TaskGivesUp,
         WorkerPop, WorkerReport, WorkerStopped, WorkerNotStopped, WorkerLooksForMore, WorkerAllDone,
         WorkerPause, WorkerResumes, TaskReturns, TaskLosesDevice, WorkerSpurious, Post, msgVars
    <3> QED
      BY <2>2, <3>1, WorkerTells
  <2>3. CASE MsgThread \/ MsgSpurious \/ DtorExit \/ DtorGoesOn \/ UNCHANGED vars
             \/ \E c \in Client : ApiCall(c) \/ Returns(c)
    <3>1. view' = view
      <4>1. CASE MsgThread \/ MsgSpurious \/ DtorExit \/ DtorGoesOn \/ UNCHANGED vars
        BY <4>1 DEF MsgThread, MsgSpurious, DtorExit, DtorGoesOn, DtorIdle, DtorWakeWorker,
           DtorWakeMsgThread, DtorJoin, vars, msgVars
      <4>2. CASE \E c \in Client : ApiCall(c) \/ Returns(c)
        BY <4>2 DEF ApiCall, Returns, AppendTask, StartCheck, StopIdle, ConnectBegin, ConnectRefused,
           StartNow, StopClear, ConnectEnd, AsyncReport, Post, msgVars
      <4> QED
        BY <2>3, <4>1, <4>2
    <3> QED
      BY <2>3, <3>1, OthersTell
  <2> QED
    BY <2>1, <2>2, <2>3 DEF Next
<1> QED
  BY <1>1, InitInStep, Invariance, PTL DEF Spec, FollowsProtocol, Protocol!Spec
=============================================================================
