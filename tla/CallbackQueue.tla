---------------------------- MODULE CallbackQueue ----------------------------
(***************************************************************************)
(* The callback message queue of Assistant: append_callback puts a message *)
(* in m_msg_queue under m_msg_mutex and notifies m_msg_condvar; the thread *)
(* running msg_proc takes the messages out and raises the user's callback  *)
(* outside of the lock; the destructor asks the thread to leave.           *)
(*                                                                         *)
(* No thread blocks while it holds m_msg_mutex, so one critical section is *)
(* one step.  What msg_proc does outside of the lock (the test of          *)
(* m_thread_exit, the callback) are steps of their own.                    *)
(***************************************************************************)
EXTENDS Naturals, Sequences

CONSTANTS Message,    \* what can be posted
          Loggable,   \* the messages AsstMsg's operator<< has a name for
          NoMessage,  \* "no message"
          MaxQueue    \* bound on the queue in Spec, for TLC

ASSUME MessageAssumption ==
  /\ Loggable \subseteq Message
  /\ NoMessage \notin Message
ASSUME MaxQueueAssumption == MaxQueue \in Nat \ {0}

VARIABLES
  queue,     \* m_msg_queue
  mpc,       \* where the thread of msg_proc is
  inflight,  \* the message msg_proc has popped and not yet raised
  last,      \* the message of the latest callback the user saw
  exit,      \* m_thread_exit
  dpc        \* where the destructor is

threadVars == <<queue, mpc, inflight, last>>
vars == <<queue, mpc, inflight, last, exit, dpc>>

MsgPc == {"check", "lock", "calling", "waiting", "exited"}
DtorPc == {"alive", "exiting", "joining", "destroyed"}

TypeOK ==
  /\ queue \in Seq(Loggable)
  /\ mpc \in MsgPc
  /\ inflight \in Loggable \cup {NoMessage}
  /\ last \in Loggable \cup {NoMessage}
  /\ exit \in BOOLEAN
  /\ dpc \in DtorPc

ThreadInit ==
  /\ queue = <<>>
  /\ mpc = "check"
  /\ inflight = NoMessage
  /\ last = NoMessage

Init ==
  /\ ThreadInit
  /\ exit = FALSE
  /\ dpc = "alive"

-----------------------------------------------------------------------------
\* Fault: the notification is forgotten.
NotifyForgotten == UNCHANGED mpc

\* notify_one and notify_all on m_msg_condvar: one thread ever waits on it.
Notify == mpc' = IF mpc = "waiting" THEN "check" ELSE mpc

\* Fault: the log is written by a thread of its own, so any message is queued.
AppendCallbackUnlogged(m) ==
  /\ queue' = Append(queue, m) /\ mpc' = IF mpc = "waiting" THEN "check" ELSE mpc
  /\ UNCHANGED <<inflight, last>>

\* append_callback.  It writes the message to the log before it takes the lock,
\* and logging a message without a name throws: nothing is queued then.
AppendCallback(m) ==
  /\ IF m \in Loggable THEN queue' = Append(queue, m) /\ Notify
                       ELSE UNCHANGED <<queue, mpc>>
  /\ UNCHANGED <<inflight, last>>

\* while (!m_thread_exit), read without the lock.
MsgCheck ==
  /\ mpc = "check"
  /\ mpc' = IF exit THEN "exited" ELSE "lock"
  /\ UNCHANGED <<queue, inflight, last>>

\* Fault: the front message is copied and never popped.
MsgTakeKeeps ==
  /\ mpc = "lock"
  /\ queue # <<>>
  /\ inflight' = Head(queue)
  /\ mpc' = "calling"
  /\ UNCHANGED <<queue, last>>

\* Under the lock: move the front message out and release the lock.
MsgTake ==
  /\ mpc = "lock"
  /\ queue # <<>>
  /\ inflight' = Head(queue)
  /\ queue' = Tail(queue)
  /\ mpc' = "calling"
  /\ UNCHANGED last

\* Fault: msg_proc waits before it looks at the queue.
MsgSleepBlindly ==
  /\ mpc = "lock"
  /\ mpc' = "waiting"
  /\ UNCHANGED <<queue, inflight, last>>

\* Under the lock: nothing to take, so wait, which releases the lock.
MsgSleep ==
  /\ mpc = "lock"
  /\ queue = <<>>
  /\ mpc' = "waiting"
  /\ UNCHANGED <<queue, inflight, last>>

\* m_callback(msg, detail, arg), without the lock.
MsgCall ==
  /\ mpc = "calling"
  /\ last' = inflight
  /\ inflight' = NoMessage
  /\ mpc' = "check"
  /\ UNCHANGED queue

\* m_msg_condvar.wait(lock) has no predicate: it may also return unnotified.
MsgSpurious ==
  /\ mpc = "waiting"
  /\ mpc' = "check"
  /\ UNCHANGED <<queue, inflight, last>>

\* The steps msg_proc takes by itself.
MsgStep == MsgCheck \/ MsgTake \/ MsgSleep \/ MsgCall

-----------------------------------------------------------------------------
\* ~Assistant: m_thread_exit = true without a lock, then notify_all under it,
\* then join.
SetExit ==
  /\ dpc = "alive"
  /\ exit' = TRUE
  /\ dpc' = "exiting"
  /\ UNCHANGED threadVars

WakeMsgThread ==
  /\ dpc = "exiting"
  /\ Notify
  /\ dpc' = "joining"
  /\ UNCHANGED <<queue, inflight, last, exit>>

JoinMsgThread ==
  /\ dpc = "joining"
  /\ mpc = "exited"
  /\ dpc' = "destroyed"
  /\ UNCHANGED <<threadVars, exit>>

\* A task, a plugin or an API thread posts a message; none does once the
\* instance is gone.
Post ==
  /\ dpc # "destroyed"
  /\ Len(queue) < MaxQueue
  /\ \E m \in Message : AppendCallback(m)
  /\ UNCHANGED <<exit, dpc>>

MsgThread == (MsgStep \/ MsgSpurious) /\ UNCHANGED <<exit, dpc>>

Next == Post \/ MsgThread \/ SetExit \/ WakeMsgThread \/ JoinMsgThread

\* The message thread and a destructor that has begun keep running; nobody has
\* to post, to destroy the instance, or to be woken without a notification.
Fairness ==
  /\ WF_vars(MsgStep /\ UNCHANGED <<exit, dpc>>)
  /\ WF_vars(WakeMsgThread)
  /\ WF_vars(JoinMsgThread)

Spec == Init /\ [][Next]_vars /\ Fairness

-----------------------------------------------------------------------------
\* The message thread never sleeps on a message: it waits on m_msg_condvar only
\* while m_msg_queue is empty (no wakeup by append_callback is lost).
NoSleepOnMessage == mpc = "waiting" => queue = <<>>

\* append_callback and msg_proc together implement a FIFO channel: every
\* message is raised exactly once and in the order of the posts.
Channel == INSTANCE FifoChannel WITH
  chan <- IF inflight = NoMessage THEN queue ELSE <<inflight>> \o queue,
  Message <- Loggable
IsFifoChannel == Channel!Spec

\* A queued message is eventually raised unless the instance is being destroyed.
QueuedIsDelivered ==
  \A m \in Loggable : (\E i \in DOMAIN queue : queue[i] = m) ~> (last = m \/ exit)
=============================================================================
