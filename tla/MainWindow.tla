----------------------------- MODULE MainWindow -----------------------------
(***************************************************************************)
(* The pages of the main window that use the library: the task queue, the  *)
(* copilot page and the recruit calculator.  A click starts a coroutine    *)
(* that connects on a pool thread and goes on in the thread of the window; *)
(* the callbacks of the library are executed there too, one after the      *)
(* other.  Between two steps of a coroutine anything else may happen.      *)
(*                                                                         *)
(* The library is what Assistant says, without its locks: a list of tasks, *)
(* m_thread_idle, a worker, and the queue of the callbacks.                *)
(***************************************************************************)
EXTENDS Integers, Sequences, FiniteSets

CONSTANTS
  MaxEvents,  \* bound on what the user and the timer do and on the losses of the device, and on closing the game
  MaxMsgs     \* bound on the callbacks that wait while more are told by the worker

VARIABLES
  page,   \* the window's flags and what it remembers
  flow,   \* the coroutines
  lib,    \* the library
  msgs,   \* callbacks that are not executed yet
  past    \* history and bounds

window == <<page, flow, lib, msgs, past>>

\* Two LinkStarts may overlap, though the page is not made for it.
Links == {"link", "relink"}
Flow == Links \cup {"copilot", "calc"}

\* One task of the queue stands for all of its kinds.
SideTask == {"Copilot", "RecruitCalc", "CloseDown"}
Task == {"Fight"} \cup SideTask

\* Nobody looks for the ids of the main queue; one stands for them.
MainId == -1
Nothing == <<0, "Fight">>
NoTasks == [t \in Task |-> 0]

WindowInit ==
  /\ page = [idle |-> TRUE, stopping |-> FALSE, copilot |-> TRUE, connected |-> FALSE, latest |-> NoTasks,
             retry |-> FALSE, stops |-> 0]
  /\ flow = [f \in Flow |-> "none"]
  /\ lib = [idle |-> TRUE, inited |-> FALSE, at |-> "sleep", list |-> <<>>, cur |-> Nothing, finished |-> <<>>]
  /\ msgs = <<>>
  /\ past = [events |-> 0, missed |-> FALSE, wiped |-> {}, wrong |-> FALSE]

\* The tasks whose end is still to be told.
InLib == {lib.list[i][1] : i \in DOMAIN lib.list} \cup {lib.finished[i][1] : i \in DOMAIN lib.finished}
         \cup (IF lib.cur = Nothing THEN {} ELSE {lib.cur[1]})
         \cup UNION {{msgs[m].finished[i][1] : i \in DOMAIN msgs[m].finished} : m \in DOMAIN msgs}

\* The window's thread is in none of its functions.
Free == \A f \in Flow : flow[f] # "start"

Event == past.events < MaxEvents /\ past' = [past EXCEPT !.events = @ + 1, !.wiped = @ \cap InLib]

Goes(f, from, to) == flow[f] = from /\ flow' = [flow EXCEPT ![f] = to]

-----------------------------------------------------------------------------
(* The library's calls *)

\* The worker has announced a chain and will tell how it ended, to a page that listens.
OnChain == lib.at \in {"run", "pause"} /\ lib.cur[2] # "CloseDown"
LinkPending == \E f \in Links : flow[f] \notin {"none", "start"}

LibStopped == [lib EXCEPT !.idle = TRUE, !.list = <<>>]

\* A stop and the Clear of _latestTaskId that follows it, in a state of the page and
\* of the history; it may come when there is nothing that could answer it.
Cleared(p) == [p EXCEPT !.latest = NoTasks]
Forgets(h, tasks) == [h EXCEPT !.wiped = (@ \cup {page.latest[t] : t \in tasks}) \cap InLib]

\* An id is new; one that nobody holds any more stands for it.
NewId == LET used == InLib \cup past.wiped \cup {page.latest[t] : t \in Task}
         IN  CHOOSE id \in 1..(Cardinality(used) + 1) : id \notin used

Wipes(h) == Forgets(h, SideTask)

\* Something is done after completion, and only another page has asked for anything.
Completes(h, finished, acts) ==
  [Wipes(h) EXCEPT !.wrong = @ \/ (/\ acts /\ Len(finished) = 1
                                   /\ finished[1][2] \in SideTask /\ finished[1][1] \notin h.wiped)]
StopMissed(h) == [h EXCEPT !.missed = @ \/ ~(OnChain \/ LinkPending)]

Appended(l, t) == [l EXCEPT !.list = Append(@, <<IF t = "Fight" THEN MainId ELSE NewId, t>>)]
Startable(l) == l.idle /\ l.inited
Begun(l) == IF Startable(l) THEN [l EXCEPT !.idle = FALSE] ELSE l

Msg(what, task, finished) == [what |-> what, task |-> task, finished |-> finished]

\* AsstConnect on a pool thread: nothing is done if the page holds it for connected,
\* with the settings it had; it fails under a task; "Connected" is told before it may
\* still fail.
AsstConnect(f, from, yes, no) ==
  \/ /\ page.connected
     /\ Goes(f, from, yes) /\ UNCHANGED <<lib, msgs>>
  \/ /\ ~page.connected /\ ~lib.idle
     /\ Goes(f, from, no) /\ UNCHANGED <<lib, msgs>>
  \/ /\ ~page.connected /\ lib.idle
     /\ \E ok, told \in BOOLEAN :
          /\ ok => told
          /\ Goes(f, from, IF ok THEN yes ELSE no)
          /\ lib' = [lib EXCEPT !.inited = ok]
          /\ msgs' = IF told /\ (msgs = <<>> \/ msgs[Len(msgs)].what # "Connected")
                     THEN Append(msgs, Msg("Connected", "Fight", <<>>)) ELSE msgs

Connects(f) ==
  /\ \/ AsstConnect(f, "connect", "yes", "no")
     \/ AsstConnect(f, "again", "sure", "failed")
  /\ UNCHANGED <<page, past>>

-----------------------------------------------------------------------------
(* TaskQueueViewModel *)

\* SetStopped
Settled(p) == [p EXCEPT !.stopping = FALSE, !.idle = TRUE]
SettledPast(h) == [h EXCEPT !.missed = FALSE]

FreeLink == CHOOSE f \in Links : flow[f] = "none"

\* LinkStart by the button or the timer, which does not look at Stopping.
LinkStart ==
  /\ Free /\ page.idle /\ \E f \in Links : flow[f] = "none"
  /\ Event
  /\ page' = [page EXCEPT !.idle = FALSE]
  /\ flow' = [flow EXCEPT ![FreeLink] = "connect"]
  /\ UNCHANGED <<lib, msgs>>

\* After the connection: the ticked tasks are appended.
LinkConnected(f) ==
  /\ Free /\ f \in Links /\ ~page.stopping
  /\ Goes(f, "yes", "start") \/ Goes(f, "sure", "start")
  /\ lib' = Appended(lib, "Fight")
  /\ UNCHANGED <<page, past, msgs>>

\* The same call goes on to AsstStart; if that is refused the page stays as it is.
LinkStarts(f) ==
  /\ f \in Links /\ Goes(f, "start", "none")
  /\ lib' = Begun(lib)
  /\ UNCHANGED <<page, msgs, past>>

LinkTriesEmulator(f) ==
  /\ Free /\ f \in Links /\ ~page.stopping
  /\ Goes(f, "no", "again")
  /\ UNCHANGED <<page, lib, msgs, past>>

\* Stopped meanwhile, no device, or nothing is ticked.
LinkEnds(f) ==
  /\ Free /\ f \in Links
  /\ \/ page.stopping /\ \E r \in {"yes", "no", "sure"} : Goes(f, r, "none")
     \/ Goes(f, "failed", "none") \/ Goes(f, "yes", "none") \/ Goes(f, "sure", "none")
  /\ page' = Settled(page)
  /\ past' = SettledPast(past)
  /\ UNCHANGED <<lib, msgs>>

\* Stop: the button is there while the page is not idle, and dead while Stopping.
Stop ==
  /\ Free /\ ~page.idle /\ ~page.stopping
  /\ Event
  /\ page' = [page EXCEPT !.stopping = TRUE, !.stops = @ + 1]
  /\ UNCHANGED <<flow, lib, msgs>>

\* AsstStop, on a pool thread.
AsstStop ==
  /\ page.stops > 0
  /\ page' = Cleared([page EXCEPT !.stops = @ - 1])
  /\ lib' = LibStopped
  /\ past' = Wipes(IF page.stopping THEN StopMissed(past) ELSE past)
  /\ UNCHANGED <<flow, msgs>>

-----------------------------------------------------------------------------
(* The other pages: what they ask for is started at once *)

CopilotStart ==
  /\ Free /\ page.copilot /\ flow["copilot"] = "none"
  /\ Event
  /\ page' = [page EXCEPT !.copilot = FALSE]
  /\ flow' = [flow EXCEPT !["copilot"] = "connect"]
  /\ UNCHANGED <<lib, msgs>>

StartCalc ==
  /\ Free /\ flow["calc"] = "none"
  /\ Event
  /\ flow' = [flow EXCEPT !["calc"] = "connect"]
  /\ UNCHANGED <<page, lib, msgs>>

\* AsstStartCopilot, AsstStartRecruitCalc
SideConnected(f, t) ==
  /\ Free /\ Goes(f, "yes", "none")
  /\ lib' = Begun(Appended(lib, t))
  /\ page' = [page EXCEPT !.latest[t] = NewId, !.copilot = IF t = "Copilot" /\ ~Startable(lib) THEN TRUE ELSE @]
  /\ past' = [Forgets(past, {t}) EXCEPT !.missed = @ \/ page.stopping]
  /\ UNCHANGED msgs

\* There is no file of that name, so there is no task; or no device.
SideFails(f, t) ==
  /\ Free
  /\ \/ Goes(f, "no", "none") /\ UNCHANGED <<page, past>>
     \/ /\ Goes(f, "yes", "none")
        /\ page' = [page EXCEPT !.latest[t] = 0, !.copilot = IF t = "Copilot" THEN TRUE ELSE @]
        /\ past' = Forgets(past, {t})
  /\ UNCHANGED <<lib, msgs>>

CopilotStop ==
  /\ Free /\ ~page.copilot
  /\ past.events < MaxEvents
  /\ page' = Cleared([page EXCEPT !.copilot = TRUE])
  /\ lib' = LibStopped
  /\ past' = Wipes([past EXCEPT !.events = @ + 1])
  /\ UNCHANGED <<flow, msgs>>

-----------------------------------------------------------------------------
(* The worker *)

Tells(what, finished) == Len(msgs) < MaxMsgs /\ msgs' = Append(msgs, Msg(what, lib.cur[2], finished))

WorkerBegins ==
  /\ lib.at = "sleep" /\ ~lib.idle /\ lib.list # <<>>
  /\ lib' = [lib EXCEPT !.at = "run", !.cur = Head(lib.list)]
  /\ UNCHANGED <<page, flow, msgs, past>>

WorkerSleeps ==
  /\ lib.at = "sleep" /\ ~lib.idle /\ lib.list = <<>>
  /\ lib' = [lib EXCEPT !.idle = TRUE, !.finished = <<>>]
  /\ UNCHANGED <<page, flow, msgs, past>>

\* The chain is over; the front of the list is dropped, whatever it is.  What is only
\* shown (that a chain begins, that one of the queue ends) is left out of the messages.
ChainEnds ==
  /\ lib.at = "run"
  /\ lib' = [lib EXCEPT !.at = "ended", !.finished = Append(@, lib.cur),
                        !.list = IF @ = <<>> THEN @ ELSE Tail(@)]
  /\ IF lib.idle THEN Tells("Stopped", <<>>)
     ELSE IF lib.cur[2] = "Copilot" THEN Tells("Ended", <<>>) ELSE UNCHANGED msgs
  /\ UNCHANGED <<page, flow, past>>

\* All are finished, or the next one waits, or a stop is seen.
WorkerLooks ==
  /\ lib.at = "ended"
  /\ IF lib.idle
     THEN lib' = [lib EXCEPT !.at = "sleep", !.finished = <<>>, !.cur = Nothing] /\ UNCHANGED msgs
     ELSE IF lib.list = <<>>
     THEN lib' = [lib EXCEPT !.at = "pause", !.finished = <<>>] /\ Tells("AllCompleted", lib.finished)
     ELSE lib' = [lib EXCEPT !.at = "pause"] /\ UNCHANGED msgs
  /\ UNCHANGED <<page, flow, past>>

PauseEnds ==
  /\ lib.at = "pause"
  /\ lib' = [lib EXCEPT !.at = "sleep", !.cur = Nothing]
  /\ IF lib.idle THEN Tells("Stopped", <<>>) ELSE UNCHANGED msgs
  /\ UNCHANGED <<page, flow, past>>

\* The device is lost for good while a task runs.
Disconnects ==
  /\ lib.at = "run" /\ lib.inited /\ Event
  /\ lib' = [lib EXCEPT !.inited = FALSE]
  /\ Tells("Disconnect", <<>>)
  /\ UNCHANGED <<page, flow>>

-----------------------------------------------------------------------------
(* ProcMsg, in the thread of the window *)

Take(what) == Free /\ msgs # <<>> /\ Head(msgs).what = what /\ msgs' = Tail(msgs)

Connected ==
  /\ Take("Connected")
  /\ page' = [page EXCEPT !.connected = TRUE]
  /\ UNCHANGED <<flow, lib, past>>

\* Fault: the page waits for all tasks to end.
TaskChainStoppedShows ==
  /\ Take("Stopped")
  /\ page' = [page EXCEPT !.copilot = @ \/ Head(msgs).task = "Copilot"]
  /\ UNCHANGED <<flow, lib, past>>

\* The end of CloseDown is not listened to.
TaskChainStopped ==
  /\ Take("Stopped")
  /\ IF Head(msgs).task = "CloseDown" THEN UNCHANGED <<page, past>>
     ELSE /\ page' = Settled([page EXCEPT !.copilot = @ \/ Head(msgs).task = "Copilot"])
          /\ past' = SettledPast(past)
  /\ UNCHANGED <<flow, lib>>

TaskChainEnds ==
  /\ Take("Ended")
  /\ page' = [page EXCEPT !.copilot = TRUE]
  /\ UNCHANGED <<flow, lib, past>>

\* Not the main queue: the only task that is finished is the latest of another page.
IsMain(finished, p) == ~(Len(finished) = 1 /\ \E t \in SideTask : p.latest[t] = finished[1][1])

AllDone(p) == Cleared([p EXCEPT !.idle = TRUE, !.copilot = TRUE])

\* Fault: the ids are forgotten before they are looked at.
AllTasksCompletedForgets ==
  /\ Take("AllCompleted")
  /\ LET finished == Head(msgs).finished
         acts == Head(msgs).task # "CloseDown" /\ IsMain(finished, Cleared(page))
     IN  /\ page' = AllDone(page)
         /\ past' = Completes(past, finished, acts)
  /\ UNCHANGED <<flow, lib>>

\* CheckAfterCompleted is for the main queue only; one of its actions is a task again.
AllTasksCompleted ==
  /\ Take("AllCompleted")
  /\ IF Head(msgs).task = "CloseDown" THEN UNCHANGED <<page, lib, past>>
     ELSE LET finished == Head(msgs).finished
              acts == IsMain(finished, page)
          IN  \/ /\ page' = AllDone(page) /\ UNCHANGED lib
                 /\ past' = Completes(past, finished, acts)
              \/ /\ acts
                 /\ lib' = Begun(Appended(LibStopped, "CloseDown"))
                 /\ page' = [AllDone(page) EXCEPT !.latest["CloseDown"] = NewId]
                 /\ past.events < MaxEvents
                 /\ past' = [Completes(past, finished, acts) EXCEPT !.missed = @ \/ page.stopping, !.events = @ + 1]
  /\ UNCHANGED flow

\* ProcConnectInfo: what runs is stopped at once; a new LinkStart comes later, if the
\* user has asked for that.
Disconnected ==
  /\ Take("Disconnect")
  /\ IF page.idle
     THEN page' = [page EXCEPT !.connected = FALSE] /\ UNCHANGED <<lib, past>>
     ELSE /\ page' \in {Cleared([page EXCEPT !.connected = FALSE, !.retry = r]) : r \in {page.retry, TRUE}}
          /\ lib' = LibStopped
          /\ past' = Wipes(past)
  /\ UNCHANGED flow

\* Stop, SetStopped and LinkStart in one go; the AsstStop of the first is still to come.
RetryOnDisconnected ==
  /\ Free /\ page.retry /\ \E f \in Links : flow[f] = "none"
  /\ page' = [page EXCEPT !.retry = FALSE, !.stopping = FALSE, !.idle = FALSE, !.stops = @ + 1]
  /\ flow' = [flow EXCEPT ![FreeLink] = "connect"]
  /\ past' = SettledPast(past)
  /\ UNCHANGED <<lib, msgs>>

-----------------------------------------------------------------------------
Executes ==
  \/ Connected \/ TaskChainStopped \/ TaskChainEnds \/ AllTasksCompleted \/ Disconnected
GoesOn(f) ==
  \/ Connects(f) \/ LinkConnected(f) \/ LinkStarts(f) \/ LinkTriesEmulator(f) \/ LinkEnds(f)
SideGoesOn(f, t) == Connects(f) \/ SideConnected(f, t) \/ SideFails(f, t)
Works == WorkerBegins \/ WorkerSleeps \/ ChainEnds \/ WorkerLooks \/ PauseEnds

\* What the user and the device do.
Events == LinkStart \/ Stop \/ CopilotStart \/ StartCalc \/ CopilotStop \/ Disconnects

\* Some coroutine, the pool, the worker or the window's thread goes on; it is fair, and
\* as each comes to its end, none of them waits for ever.
GoesOnByItself ==
  \/ (\E f \in Links : GoesOn(f)) \/ SideGoesOn("copilot", "Copilot") \/ SideGoesOn("calc", "RecruitCalc")
  \/ AsstStop \/ Works \/ Executes \/ RetryOnDisconnected

WindowNext == Events \/ GoesOnByItself

-----------------------------------------------------------------------------
\* A Stop that finds a LinkStart on its way, or a chain whose end is listened to, is
\* settled: the page can be used again.
StopSettles == []<>(~page.stopping \/ past.missed)

\* What is done when all is completed (the computer may be shut down) is not done for
\* a copilot or a calculation on its own, unless its id was forgotten while it was on
\* its way, or there were two of them.
ActsForMainTasks == ~past.wrong
=============================================================================
