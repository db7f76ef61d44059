--------------------------- MODULE SettledClient ---------------------------
(***************************************************************************)
(* The Assistant under clients that let a stop settle: after a stop they   *)
(* append, start and connect nothing until the worker thread is asleep     *)
(* again.  It is how the main window is used (TaskQueueViewModel: Stop     *)
(* sets Stopping, LinkStart and Stop are refused while it is set, and the  *)
(* next LinkStart is a click away), with the time a stop takes to settle   *)
(* as an assumption: the API has no call to wait for it.  Callers in the   *)
(* repository that do not wait are what Assistant!Spec is for.             *)
(***************************************************************************)
EXTENDS Assistant

CONSTANTS
  Linker,    \* the clients that LinkStart: connect, append and start
  Stopper    \* the clients that Stop; one client may do both

VARIABLES
  stopping,   \* Stopping: a stop has been asked for and has not settled
  before,     \* (history) the latest id given before the last stop settled
  overlap     \* (history) a start was past its check when the last stop began

stopVars == <<stopping, before, overlap>>
settledVars == <<vars, stopVars>>

SettledInit == Init /\ stopping = FALSE /\ before = 0 /\ overlap = FALSE

\* LinkStart: connect, append the tasks that are ticked, start.
LinkStart(c) ==
  /\ c \in Linker
  /\ ~stopping
  /\ AppendTask(c) \/ StartCheck(c) \/ ConnectBegin(c) \/ ConnectRefused(c)
  /\ UNCHANGED stopVars

\* Stop: Stopping = true, then AsstStop.  Another client's start() may be between
\* its unlocked test of m_thread_idle and its lock: it goes on after the stop.
Stop(c) ==
  /\ c \in Stopper
  /\ ~stopping
  /\ StopIdle(c)
  /\ stopping' = TRUE
  /\ overlap' = \E d \in Client : cpc[d] = "start"
  /\ UNCHANGED before

\* SetStopped, once the worker sleeps and no call is under way.
SetStopped ==
  /\ stopping
  /\ wpc = "waiting"
  /\ \A c \in Client : cpc[c] = "out"
  /\ stopping' = FALSE
  /\ before' = taskId
  /\ overlap' = FALSE
  /\ UNCHANGED vars

Unaware ==
  /\ \/ Worker
     \/ MsgThread \/ Callback \/ MsgSpurious
     \/ \E c \in Client : Returns(c)
  /\ UNCHANGED stopVars

SettledNext ==
  \/ Unaware
  \/ SetStopped
  \/ \E c \in Client : LinkStart(c) \/ Stop(c)

SettledFairness ==
  /\ WF_settledVars(WorkerStep /\ UNCHANGED stopVars)
  /\ WF_settledVars((MsgThread \/ Callback) /\ UNCHANGED stopVars)
  /\ \A c \in Client : WF_settledVars(Returns(c) /\ UNCHANGED stopVars)

SettledSpec == SettledInit /\ [][SettledNext]_settledVars /\ SettledFairness

-----------------------------------------------------------------------------
\* A stop ends the chain that runs, whatever appends and connects of the other
\* clients it overlaps.  The one exception is a start() that had passed its test of
\* m_thread_idle before the stop set it: the lock it then gets lets the chain run on.
StopEndsChain == (stopping /\ OnChain) ~> (~OnChain \/ overlap)

\* finished_tasks, which AllTasksCompleted reports, never holds a task of
\* before a stop that has settled.
FinishedIsOneBatch ==
  \A i \in 1..Len(finished) : finished[i] > before
=============================================================================
