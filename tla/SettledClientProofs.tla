------------------------- MODULE SettledClientProofs -------------------------
(***************************************************************************)
(* Clients that let a stop settle never connect under a running task, and  *)
(* see the list of tasks as the queue TaskQueue describes, for any number  *)
(* of clients, tasks and connects.                                         *)
(***************************************************************************)
EXTENDS SettledClient, AssistantProofs

\* No task runs, nor is about to, while a connect holds the lock or while the
\* instance is idle and no stop is settling.
Quiet ==
  mutex # Nobody \/ (idle = TRUE /\ stopping = FALSE) => wpc \notin {"starting", "running"}

\* A stop that is not over is settling.
StopSettles == \A c \in Client : cpc[c] = "stop" => stopping = TRUE

\* The task that runs is at the front of the list until a stop clears it.
HeadRuns ==
  OnChain => /\ cur > 0
             /\ \/ tasks # <<>> /\ Head(tasks) = cur
                \/ tasks = <<>> /\ stopping = TRUE

SInv == Quiet /\ StopSettles /\ HeadRuns

-----------------------------------------------------------------------------
\* A step of settled clients is a step of the Assistant or leaves it alone.
LEMMA SettledIsAssistant == [SettledNext]_settledVars => [Next]_vars
BY DEF SettledNext, settledVars, stopVars, Unaware, SetStopped, LinkStart, Stop, Next, ApiCall

\* So the invariant of the Assistant holds under settled clients.
LEMMA SettledInvariance == SettledSpec => []IInv
<1>1. SettledInit => IInv
  BY InitIInv DEF SettledInit
<1>2. IInv /\ [SettledNext]_settledVars => IInv'
  BY SettledIsAssistant, NextIInv
<1> QED
  BY <1>1, <1>2, PTL DEF SettledSpec

\* Neither the callback thread nor the worker touches what the clients hold.
LEMMA WorkerKeepsSInv ==
  ASSUME IInv, SInv, Worker, UNCHANGED stopping PROVE SInv'
<1> USE DEF IInv, TypeOK, SInv, Quiet, StopSettles, HeadRuns, OnChain, WorkerGoes,
            workerVars, clientVars
<1>1. CASE WorkerPick
  <2>1. cur' > 0
    <3>1. 1 \in 1..Len(tasks) /\ Head(tasks) = tasks[1] /\ tasks[1] \in Nat
      BY <1>1 DEF WorkerPick
    <3>2. cur < tasks[1]
      BY <1>1, <3>1 DEF WorkerPick, IdsInOrder
    <3> QED
      BY <1>1, <3>1, <3>2 DEF WorkerPick
  <2> QED
    BY <1>1, <2>1 DEF WorkerPick
<1>2. CASE Worker /\ ~WorkerPick
  <2>1. UNCHANGED <<cpc, mutex>>
    BY <1>2 DEF Worker, WorkerStep, WorkerCheck, WorkerSleep, WorkerAnnounce, TaskReturns,
       TaskGivesUp, TaskLosesDevice, WorkerPop, WorkerReport, WorkerStopped, WorkerNotStopped,
       WorkerLooksForMore, WorkerAllDone, WorkerPause, WorkerResumes, WorkerSpurious
  <2>2. \/ wpc' \notin {"starting", "running", "ran"}
        \/ OnChain /\ wpc' \in {"running", "ran"} /\ UNCHANGED <<cur, tasks, idle>>
           /\ (wpc' = "running" => wpc \in {"starting", "running"})
    BY <1>2 DEF Worker, WorkerStep, WorkerCheck, WorkerSleep, WorkerAnnounce, TaskReturns,
       TaskGivesUp, TaskLosesDevice, WorkerPop, WorkerReport, WorkerStopped, WorkerNotStopped,
       WorkerLooksForMore, WorkerAllDone, WorkerPause, WorkerResumes, WorkerSpurious
  <2> QED
    BY <2>1, <2>2
<1> QED
  BY <1>1, <1>2

\* Nor does the callback thread touch what the clients hold.
LEMMA OthersKeepSInv ==
  ASSUME IInv, SInv, MsgThread \/ Callback \/ MsgSpurious, UNCHANGED stopping PROVE SInv'
BY DEF SInv, Quiet, StopSettles, HeadRuns, OnChain, MsgThread, Callback, MsgSpurious,
   workerVars, clientVars

\* Appending to the list leaves its front alone.
LEMMA AppendAfterHead ==
  ASSUME NEW S, NEW q \in Seq(S), NEW n \in S, q # <<>>
  PROVE  /\ Append(q, n) # <<>> /\ Head(Append(q, n)) = Head(q)
         /\ Tail(Append(q, n)) = Append(Tail(q), n)
OBVIOUS

\* A task appended leaves the task that runs at the front.
LEMMA AppendToList ==
  ASSUME TypeOK, NEW c \in Client, AppendTask(c), tasks # <<>>
  PROVE  /\ tasks' # <<>> /\ Head(tasks') = Head(tasks)
         /\ Tail(tasks') = Append(Tail(tasks), taskId')
<1>1. tasks \in Seq(Nat) /\ taskId' \in Nat /\ tasks' = Append(tasks, taskId')
  BY DEF TypeOK, AppendTask
<1> HIDE DEF AppendTask
<1> QED
  BY <1>1, AppendAfterHead

\* The calls of settled clients keep their discipline.
LEMMA ClientKeepsSInv ==
  ASSUME IInv, SInv, NEW c \in Client,
         \/ Returns(c) /\ UNCHANGED stopping
         \/ LinkStart(c) \/ Stop(c)
  PROVE  SInv'
<1> USE DEF IInv, TypeOK, SInv, Quiet, StopSettles, HeadRuns, OnChain, ClientGoes,
            workerVars, clientVars
<1>1. CASE AppendTask(c) /\ ~stopping /\ UNCHANGED stopping
  <2>1. CASE tasks # <<>>
    <3>1. tasks' # <<>> /\ Head(tasks') = Head(tasks)
      BY <1>1, <2>1, AppendToList
    <3> QED
      BY <1>1, <2>1, <3>1 DEF AppendTask
  <2>2. CASE tasks = <<>>
    BY <1>1, <2>2 DEF AppendTask
  <2> QED
    BY <2>1, <2>2
<1>2. CASE StartCheck(c) /\ ~stopping /\ UNCHANGED stopping
  BY <1>2 DEF StartCheck
<1>3. CASE ConnectBegin(c) /\ ~stopping /\ UNCHANGED stopping
  BY <1>3, ClientAssumption DEF ConnectBegin
<1>4. CASE ConnectRefused(c) /\ ~stopping /\ UNCHANGED stopping
  BY <1>4 DEF ConnectRefused
<1>5. CASE Stop(c)
  BY <1>5 DEF Stop, StopIdle
<1>6. CASE StartNow(c) /\ UNCHANGED stopping
  BY <1>6 DEF StartNow
<1>7. CASE StopClear(c) /\ UNCHANGED stopping
  BY <1>7 DEF StopClear
<1>8. CASE ConnectEnd(c) /\ UNCHANGED stopping
  BY <1>8, ClientAssumption DEF ConnectEnd
<1>9. CASE AsyncReport(c) /\ UNCHANGED stopping
  BY <1>9 DEF AsyncReport
<1> QED
  BY <1>1, <1>2, <1>3, <1>4, <1>5, <1>6, <1>7, <1>8, <1>9 DEF LinkStart, Returns, Stop, stopVars

\* The invariant of settled clients is inductive.
LEMMA NextSInv == IInv /\ SInv /\ [SettledNext]_settledVars => SInv'
<1> SUFFICES ASSUME IInv, SInv, [SettledNext]_settledVars PROVE SInv'
  OBVIOUS
<1>1. CASE SetStopped
  BY <1>1 DEF SetStopped, SInv, Quiet, StopSettles, HeadRuns, OnChain, vars, workerVars, clientVars
<1>2. CASE UNCHANGED settledVars
  BY <1>2 DEF settledVars, stopVars, SInv, Quiet, StopSettles, HeadRuns, OnChain, vars, workerVars, clientVars
<1> QED
  BY <1>1, <1>2, WorkerKeepsSInv, OthersKeepSInv, ClientKeepsSInv DEF SettledNext, Unaware, stopVars

\* So both invariants hold in every reachable state.
LEMMA SettledSInv == SettledSpec => [](IInv /\ SInv)
<1>1. SettledInit => SInv
  BY DEF SettledInit, Init, SInv, Quiet, StopSettles, HeadRuns, OnChain
<1> QED
  BY <1>1, NextSInv, SettledInvariance, PTL DEF SettledSpec

\* A connect is never begun while a task uses the Controller.
THEOREM ConnectsApart == SettledSpec => []NoConnectUnderTask
<1>1. SInv => NoConnectUnderTask
  BY DEF SInv, Quiet, NoConnectUnderTask
<1> QED
  BY <1>1, SettledSInv, PTL

-----------------------------------------------------------------------------
Running == IF OnChain THEN cur ELSE 0
Waiting == IF OnChain /\ tasks # <<>> /\ Head(tasks) = cur THEN Tail(tasks) ELSE tasks
QueueVars == <<Waiting, Running, taskId>>

\* append_task of the Assistant appends to the abstract queue.
LEMMA AppendIsAppend ==
  ASSUME IInv, SInv, NEW c \in Client, AppendTask(c), stopping = FALSE
  PROVE  Queue!AppendTask
<1> USE DEF IInv, TypeOK, AppendTask, workerVars, OnChain
<1>1. Running' = Running /\ taskId' = taskId + 1
  BY DEF Running
<1>2. Waiting' = Append(Waiting, taskId')
  <2>1. CASE OnChain
    <3>1. tasks # <<>> /\ Head(tasks) = cur
      BY <2>1 DEF SInv, HeadRuns
    <3>2. tasks' # <<>> /\ Head(tasks') = cur /\ Tail(tasks') = Append(Tail(tasks), taskId')
      BY <3>1, AppendToList
    <3> QED
      BY <2>1, <3>1, <3>2 DEF Waiting
  <2>2. CASE ~OnChain
    BY <2>2 DEF Waiting
  <2> QED
    BY <2>1, <2>2
<1> QED
  BY <1>1, <1>2 DEF Queue!AppendTask, Running, Waiting

\* The worker takes from the abstract queue only the task it has run.
LEMMA WorkerIsQueue ==
  ASSUME IInv, SInv, Worker, UNCHANGED taskId
  PROVE  Queue!Begin \/ Queue!End \/ UNCHANGED <<Waiting, Running>>
<1> USE DEF IInv, TypeOK, WorkerGoes, OnChain, workerVars, Running, Waiting
<1>1. CASE WorkerPick
  <2>1. Head(tasks) = cur' /\ tasks' = tasks /\ tasks # <<>> /\ wpc = "lock" /\ wpc' = "starting"
    BY <1>1 DEF WorkerPick
  <2> QED
    BY <2>1 DEF Queue!Begin
<1>2. CASE WorkerPop
  <2>1. wpc = "ran" /\ wpc' = "popped" /\ cur > 0
    BY <1>2 DEF WorkerPop, SInv, HeadRuns
  <2>2. CASE tasks = <<>>
    BY <1>2, <2>1, <2>2 DEF WorkerPop, PopFront, Queue!End
  <2>3. CASE tasks # <<>>
    BY <1>2, <2>1, <2>3 DEF WorkerPop, PopFront, Queue!End, SInv, HeadRuns
  <2> QED
    BY <2>2, <2>3
<1>3. CASE Worker /\ ~WorkerPick /\ ~WorkerPop
  <2>1. UNCHANGED <<tasks, cur>> /\ OnChain' = OnChain
    BY <1>3 DEF Worker, WorkerStep, WorkerCheck, WorkerSleep, WorkerAnnounce, TaskReturns,
       TaskGivesUp, TaskLosesDevice, WorkerReport, WorkerStopped, WorkerNotStopped,
       WorkerLooksForMore, WorkerAllDone, WorkerPause, WorkerResumes, WorkerSpurious
  <2> QED
    BY <2>1
<1> QED
  BY <1>1, <1>2, <1>3

\* Every step is a step of the abstract queue or leaves it alone.
LEMMA QueueStep == IInv /\ SInv /\ [SettledNext]_settledVars => [Queue!Next]_QueueVars
<1> SUFFICES ASSUME IInv, SInv, [SettledNext]_settledVars PROVE [Queue!Next]_QueueVars
  OBVIOUS
<1> USE DEF QueueVars
<1>1. CASE Worker
  <2>1. UNCHANGED taskId
    BY <1>1 DEF Worker, WorkerStep, WorkerCheck, WorkerPick, WorkerSleep, WorkerAnnounce,
       TaskReturns, TaskGivesUp, TaskLosesDevice, WorkerPop, WorkerReport, WorkerStopped,
       WorkerNotStopped, WorkerLooksForMore, WorkerAllDone, WorkerPause, WorkerResumes,
       WorkerSpurious
  <2> QED
    BY <1>1, <2>1, WorkerIsQueue DEF Queue!Next
<1>2. CASE MsgThread \/ Callback \/ MsgSpurious \/ UNCHANGED vars
  BY <1>2 DEF MsgThread, Callback, MsgSpurious, vars, workerVars, Waiting, Running, OnChain
<1>3. ASSUME NEW c \in Client, Returns(c) PROVE [Queue!Next]_QueueVars
  <2>1. CASE StopClear(c)
    BY <2>1 DEF StopClear, workerVars, Waiting, Running, OnChain, Queue!Next, Queue!Clear
  <2>2. CASE StartNow(c)
    BY <2>2 DEF StartNow, Waiting, Running, OnChain
  <2>3. CASE ConnectEnd(c) \/ AsyncReport(c)
    BY <2>3 DEF ConnectEnd, AsyncReport, workerVars, Waiting, Running, OnChain
  <2> QED
    BY <1>3, <2>1, <2>2, <2>3 DEF Returns
<1>4. ASSUME NEW c \in Client, LinkStart(c) PROVE [Queue!Next]_QueueVars
  <2>1. CASE AppendTask(c)
    <3>1. stopping = FALSE
      BY <1>4 DEF LinkStart, TypeOK
    <3> QED
      BY <2>1, <3>1, AppendIsAppend DEF Queue!Next
  <2>2. CASE StartCheck(c) \/ ConnectBegin(c) \/ ConnectRefused(c)
    BY <2>2 DEF StartCheck, ConnectBegin, ConnectRefused, workerVars, Waiting, Running, OnChain
  <2> QED
    BY <1>4, <2>1, <2>2 DEF LinkStart
<1>5. ASSUME NEW c \in Client, Stop(c) PROVE [Queue!Next]_QueueVars
  BY <1>5 DEF Stop, StopIdle, workerVars, Waiting, Running, OnChain
<1> QED
  BY <1>1, <1>2, <1>3, <1>4, <1>5 DEF SettledNext, Unaware, SetStopped, settledVars

\* With clients that let a stop settle, a task leaves the list only by being
\* run or by a stop: append, start and stop are those of a queue.
THEOREM ImplementsTaskQueue == SettledSpec => IsTaskQueue
<1>1. SettledInit => Queue!Init
  BY DEF SettledInit, Init, Queue!Init, OnChain
<1>2. IInv /\ SInv /\ [SettledNext]_settledVars => [Queue!Next]_QueueVars
  BY QueueStep
<1> QED
  BY <1>1, <1>2, SettledSInv, PTL
     DEF SettledSpec, IsTaskQueue, Queue!Spec, QueueVars, Waiting, Running

-----------------------------------------------------------------------------
Above(q, n) == \A i \in 1..Len(q) : q[i] > n

\* A stop that is settling has cleared the list once its call has returned.
StopClears == stopping = TRUE /\ (\A c \in Client : cpc[c] # "stop") => tasks = <<>>

\* What is to be run, and what has been run, is of the batch after the last stop.
BatchApart ==
  /\ before \in Nat /\ before <= taskId
  /\ Above(tasks, before) /\ Above(finished, before)
  /\ OnChain => cur > before
  /\ wpc = "waiting" => finished = <<>>

BInv == StopClears /\ BatchApart

\* Nothing in the empty list is not above any id.
LEMMA AboveEmpty == ASSUME NEW n PROVE Above(<<>>, n)
BY DEF Above

\* A list stays above an id if one above it is appended ...
LEMMA AboveAppend ==
  ASSUME NEW n \in Nat, NEW q \in Seq(Nat), Above(q, n), NEW e \in Nat, e > n
  PROVE  Above(Append(q, e), n)
BY DEF Above

\* ... or the first one is taken, which is above it too.
LEMMA AboveTail ==
  ASSUME NEW n \in Nat, NEW q \in Seq(Nat), Above(q, n), q # <<>>
  PROVE  Above(Tail(q), n) /\ Head(q) > n
BY DEF Above

\* The worker takes its tasks from the list, and forgets the batch when it sleeps.
LEMMA WorkerKeepsBInv ==
  ASSUME IInv, BInv, Worker, UNCHANGED <<stopping, before>> PROVE BInv'
<1> USE DEF IInv, TypeOK, BInv, StopClears, BatchApart, OnChain, WorkerGoes, workerVars, clientVars
<1>1. CASE WorkerPick
  <2>1. cur' > before
    BY <1>1, AboveTail DEF WorkerPick
  <2> QED
    BY <1>1, <2>1 DEF WorkerPick
<1>2. CASE TaskReturns \/ TaskGivesUp
  <2>1. finished' = Append(finished, cur) /\ cur > before
    BY <1>2 DEF TaskReturns, TaskGivesUp
  <2>2. Above(finished', before)
    BY <2>1, AboveAppend
  <2> QED
    BY <1>2, <2>2 DEF TaskReturns, TaskGivesUp
<1>3. CASE WorkerPop
  <2>1. Above(tasks', before)
    BY <1>3, AboveTail, AboveEmpty DEF WorkerPop, PopFront
  <2>2. tasks = <<>> => tasks' = <<>>
    BY <1>3 DEF WorkerPop, PopFront
  <2> QED
    BY <1>3, <2>1, <2>2 DEF WorkerPop
<1>4. CASE WorkerSleep \/ WorkerStopped \/ WorkerAllDone
  <2>1. finished' = <<>> /\ ~OnChain'
    BY <1>4 DEF WorkerSleep, WorkerStopped, WorkerAllDone
  <2>2. Above(finished', before)
    BY <2>1, AboveEmpty
  <2> QED
    BY <1>4, <2>1, <2>2 DEF WorkerSleep, WorkerStopped, WorkerAllDone
<1>5. CASE \/ WorkerCheck \/ WorkerAnnounce \/ TaskLosesDevice \/ WorkerReport \/ WorkerNotStopped
           \/ WorkerLooksForMore \/ WorkerPause \/ WorkerResumes \/ WorkerSpurious
  BY <1>5 DEF WorkerCheck, WorkerAnnounce, TaskLosesDevice, WorkerReport, WorkerNotStopped,
     WorkerLooksForMore, WorkerPause, WorkerResumes, WorkerSpurious
<1> QED
  BY <1>1, <1>2, <1>3, <1>4, <1>5 DEF Worker, WorkerStep

\* What is appended has a later id; a stop clears the list before its call returns.
LEMMA ClientKeepsBInv ==
  ASSUME IInv, SInv, BInv, NEW c \in Client, UNCHANGED before,
         \/ Returns(c) /\ UNCHANGED stopping
         \/ LinkStart(c) \/ Stop(c)
  PROVE  BInv'
<1> USE DEF IInv, TypeOK, BInv, StopClears, BatchApart, OnChain, ClientGoes, workerVars, clientVars
<1>1. CASE AppendTask(c) /\ ~stopping /\ UNCHANGED stopping
  <2>1. Above(tasks', before)
    BY <1>1, AboveAppend DEF AppendTask
  <2> QED
    BY <1>1, <2>1 DEF AppendTask
<1>2. CASE StartCheck(c) /\ ~stopping /\ UNCHANGED stopping
  BY <1>2 DEF StartCheck
<1>3. CASE (ConnectBegin(c) \/ ConnectRefused(c)) /\ ~stopping /\ UNCHANGED stopping
  BY <1>3 DEF ConnectBegin, ConnectRefused
<1>4. CASE Stop(c)
  BY <1>4 DEF Stop, StopIdle
<1>5. CASE StartNow(c) /\ UNCHANGED stopping
  BY <1>5 DEF StartNow
<1>6. CASE StopClear(c) /\ UNCHANGED stopping
  BY <1>6, AboveEmpty DEF StopClear
<1>7. CASE (ConnectEnd(c) \/ AsyncReport(c)) /\ UNCHANGED stopping
  BY <1>7 DEF ConnectEnd, AsyncReport
<1> QED
  BY <1>1, <1>2, <1>3, <1>4, <1>5, <1>6, <1>7 DEF LinkStart, Returns, Stop, stopVars

\* When a stop has settled nothing is left of what came before it.
LEMMA NextBInv == IInv /\ SInv /\ BInv /\ [SettledNext]_settledVars => BInv'
<1> SUFFICES ASSUME IInv, SInv, BInv, [SettledNext]_settledVars PROVE BInv'
  OBVIOUS
<1> USE DEF BInv, StopClears, BatchApart, OnChain, workerVars, clientVars
<1>1. CASE SetStopped
  <2>1. tasks = <<>> /\ finished = <<>> /\ UNCHANGED vars /\ before' = taskId /\ stopping' = FALSE /\ ~OnChain
    BY <1>1 DEF SetStopped, IInv, TypeOK
  <2>2. Above(tasks', before') /\ Above(finished', before')
    BY <2>1, AboveEmpty DEF vars
  <2> QED
    BY <2>1, <2>2 DEF vars, IInv, TypeOK
<1>2. CASE UNCHANGED settledVars
  BY <1>2 DEF settledVars, stopVars, vars
<1>3. CASE (MsgThread \/ Callback \/ MsgSpurious) /\ UNCHANGED stopVars
  BY <1>3 DEF MsgThread, Callback, MsgSpurious, stopVars
<1>4. CASE Worker /\ UNCHANGED stopVars
  BY <1>4, WorkerKeepsBInv DEF stopVars
<1>5. ASSUME NEW c \in Client, \/ Returns(c) /\ UNCHANGED stopVars
                               \/ LinkStart(c) \/ Stop(c)
      PROVE  BInv'
  <2>1. UNCHANGED before
    BY <1>5 DEF LinkStart, Stop, stopVars
  <2> QED
    BY <1>5, <2>1, ClientKeepsBInv DEF stopVars
<1> QED
  BY <1>1, <1>2, <1>3, <1>4, <1>5 DEF SettledNext, Unaware

\* AllTasksCompleted reports the tasks of one batch: what was run before a stop that
\* has settled is never among them.
THEOREM BatchesApart == SettledSpec => []FinishedIsOneBatch
<1>1. SettledInit => BInv
  BY AboveEmpty DEF SettledInit, Init, BInv, StopClears, BatchApart, OnChain
<1>2. BInv => FinishedIsOneBatch
  BY DEF BInv, BatchApart, Above, FinishedIsOneBatch
<1> QED
  BY <1>1, <1>2, NextBInv, SettledSInv, PTL DEF SettledSpec
=============================================================================
