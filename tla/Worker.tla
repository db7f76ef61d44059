------------------------------- MODULE Worker -------------------------------
(***************************************************************************)
(* What the tasks of the other modules have in common: the loop of         *)
(* AbstractTask::run around their _run, and a client that may stop them.   *)
(* The worker thread of Assistant runs one task at a time; task says which *)
(* and at how far it is.  The state of its own each task keeps in one      *)
(* record, a variable of its module.                                       *)
(***************************************************************************)
EXTENDS Integers, Sequences

VARIABLES
  task,      \* the task that runs
  at,        \* where it is: "run" is the head of _run
  retry,     \* m_cur_retry
  stopped    \* need_exit()

worker == <<task, at, retry, stopped>>

\* "thrown": an exception left run(); nobody catches it and the process ends.
Over == {"succeeded", "failed", "thrown"}

WorkerInit(t) == task = t /\ at = "run" /\ retry = 0 /\ stopped = FALSE

Goes(place) == at' = place /\ UNCHANGED <<task, retry, stopped>>

Stays == UNCHANGED worker

\* _run has returned false: again, unless a stop was seen or it was the last time.
RunFails(times) ==
  /\ UNCHANGED <<task, stopped>>
  /\ IF ~stopped /\ retry < times THEN at' = "run" /\ retry' = retry + 1
                                  ELSE at' = "failed" /\ UNCHANGED retry

\* A ProcessTask that is run as a part of the task succeeds or not, and a stop
\* makes it fail.
Sub(ok) == ok \in BOOLEAN /\ (stopped => ~ok)

\* Assistant::stop, at any moment
StopWorker ==
  /\ at \notin Over /\ ~stopped
  /\ stopped' = TRUE
  /\ UNCHANGED <<task, at, retry>>
=============================================================================
