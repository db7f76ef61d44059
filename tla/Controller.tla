----------------------------- MODULE Controller -----------------------------
(***************************************************************************)
(* The connections of several Assistants of one process to their devices.  *)
(* Each has a Controller of its own, used by one thread at a time; they    *)
(* share the count of those that are connected (m_instance_count) and the  *)
(* command that is owed to the adb daemon (m_adb_release), both static and *)
(* without a lock.                                                         *)
(*                                                                         *)
(* The device and adb are the environment: a command succeeds, fails, or   *)
(* cannot be run.  The count is read and written in two steps, as ++ and   *)
(* -- of an int are; races counts how often two threads overlapped there.  *)
(***************************************************************************)
EXTENDS Integers, FiniteSets

CONSTANTS
  Instance,        \* the Assistants of the process
  ReconnectTimes,  \* ReconnectTimes, 5 in the code
  MaxTryCount,     \* MaxTryCount of get_image, 20 in the code
  MaxRaces,        \* bound on the overlaps
  Windows          \* it runs on Windows

ASSUME ControllerAssumption ==
  /\ IsFiniteSet(Instance)
  /\ ReconnectTimes \in Nat /\ MaxTryCount \in Nat /\ MaxRaces \in Nat
  /\ Windows \in BOOLEAN

VARIABLES
  pc, back,      \* where the thread of an instance is, where make_instance_inited returns to
  inited,        \* m_inited
  releasable,    \* m_adb.release is set
  method,        \* m_adb.screencap_method is known
  minitouch,     \* m_minitouch_available
  child,         \* m_child is not 0; on Windows, which does not ask, always
  needExit,      \* need_exit()
  tries,         \* the loops of call_command and get_image
  waiting,       \* the client was told "Reconnecting", and not yet how it ended
  reg,           \* m_instance_count as read
  count,         \* m_instance_count
  owed,          \* m_adb_release is not empty
  daemon,        \* the adb daemon runs
  races          \* (history) updates of the count that overlapped

own == <<releasable, method, minitouch, child>>
shared == <<count, owed, daemon>>
vars == <<pc, back, inited, own, needExit, tries, waiting, reg, shared, races>>

Pc == {"idle", "clear", "connect", "identify", "setup", "touch", "capture", "shoot", "loop",
       "sleep", "reconnect", "recall", "drop", "dropped", "count", "write", "release",
       "kill", "destroyed"}

Init ==
  /\ pc = [i \in Instance |-> "idle"] /\ back = [i \in Instance |-> "idle"]
  /\ inited = [i \in Instance |-> FALSE]
  /\ releasable = [i \in Instance |-> FALSE]
  /\ method = [i \in Instance |-> FALSE]
  /\ minitouch = [i \in Instance |-> FALSE]
  /\ child = [i \in Instance |-> Windows]
  /\ needExit = [i \in Instance |-> FALSE]
  /\ tries = [i \in Instance |-> 0]
  /\ waiting = [i \in Instance |-> FALSE]
  /\ reg = [i \in Instance |-> 0]
  /\ count = 0
  /\ owed = FALSE
  /\ daemon = FALSE
  /\ races = 0

-----------------------------------------------------------------------------
Goes(i, from, to) == pc[i] = from /\ pc' = [pc EXCEPT ![i] = to]
GoesTo(i, to) == pc' = [pc EXCEPT ![i] = to]
Put(f, i, v) == [f EXCEPT ![i] = v]

\* make_instance_inited(v), then on to next; nothing happens if v is no news.
MakeInited(i, v, next) ==
  /\ inited' = Put(inited, i, v)
  /\ IF inited[i] = v THEN GoesTo(i, next) /\ UNCHANGED back
                      ELSE GoesTo(i, "count") /\ back' = Put(back, i, next)

\* It returns; back is only meant for calls of it.
Returns(i) == GoesTo(i, back[i]) /\ back' = Put(back, i, "idle")

\* The threads that have read the count and not written it yet.
Between == {i \in Instance : pc[i] = "write"}

CountRead(i) ==
  /\ Goes(i, "count", "write")
  /\ reg' = Put(reg, i, count)
  /\ races' = IF Between = {} THEN races ELSE races + 1
  /\ races' <= MaxRaces
  /\ UNCHANGED <<back, inited, own, needExit, tries, waiting, shared>>

\* The count that CountWrite leaves.
Updated(i) == IF inited[i] THEN reg[i] + 1 ELSE reg[i] - 1

\* Fault: release() by whoever leaves, and not by the last one only.
CountWriteReleases(i) ==
  /\ pc[i] = "write"
  /\ count' = Updated(i)
  /\ IF ~inited[i] THEN GoesTo(i, "release") /\ UNCHANGED back ELSE Returns(i)
  /\ reg' = Put(reg, i, 0)
  /\ UNCHANGED <<inited, own, needExit, tries, waiting, owed, daemon, races>>

\* The last one to leave releases the daemon.
CountWrite(i) ==
  /\ pc[i] = "write"
  /\ count' = Updated(i)
  /\ IF ~inited[i] /\ Updated(i) = 0 THEN GoesTo(i, "release") /\ UNCHANGED back ELSE Returns(i)
  /\ reg' = Put(reg, i, 0)
  /\ UNCHANGED <<inited, own, needExit, tries, waiting, owed, daemon, races>>

\* release(): adb kill-server, and nothing is owed any more; but not from a process
\* that has forked for no command of this instance.
Release(i) ==
  /\ pc[i] = "release"
  /\ Returns(i)
  /\ IF child[i] /\ releasable[i] THEN owed' = FALSE /\ daemon' = FALSE ELSE UNCHANGED <<owed, daemon>>
  /\ UNCHANGED <<inited, own, needExit, tries, waiting, reg, count, races>>

-----------------------------------------------------------------------------
(* connect *)

\* A command is run by a process that is forked for it, unless adb-lite, which may be
\* switched on and off at any time, runs it.
RunsCommand(i) == child' \in {child, Put(child, i, TRUE)}

\* adb-lite cannot start the daemon.
StartsDaemon(i) ==
  /\ daemon' = TRUE
  /\ IF daemon THEN RunsCommand(i) ELSE child' = Put(child, i, TRUE)

\* release_minitouch and clear_info, up to make_instance_inited(false).
Connect(i) ==
  /\ pc[i] = "idle"
  /\ MakeInited(i, FALSE, "clear")
  /\ needExit' = Put(needExit, i, FALSE)
  /\ minitouch' = Put(minitouch, i, FALSE)
  /\ UNCHANGED <<releasable, method, child, tries, waiting, reg, shared, races>>

\* The rest of clear_info, and the config: there is none of that name, or the
\* commands begin.
Clear(i) ==
  /\ \/ Goes(i, "clear", "idle")
     \/ Goes(i, "clear", "connect") /\ ~needExit[i]
  /\ releasable' = Put(releasable, i, FALSE)
  /\ method' = Put(method, i, FALSE)
  /\ UNCHANGED <<back, inited, minitouch, child, needExit, tries, waiting, reg, shared, races>>

\* Any stage may fail, and does when a stop has been seen.
Fails(i) ==
  /\ pc[i] \in {"connect", "identify", "touch", "capture"}
  /\ GoesTo(i, "idle")
  /\ \/ UNCHANGED daemon /\ RunsCommand(i)
     \/ pc[i] = "connect" /\ StartsDaemon(i)
  /\ UNCHANGED <<back, inited, releasable, method, minitouch, needExit, tries, waiting, reg, count, owed, races>>

\* "adb connect" starts the daemon if there is none; whoever started it owes a
\* kill-server, even if the device could not be reached.
ConnectCommand(i) ==
  /\ pc[i] = "connect"
  /\ ~needExit[i]
  /\ owed' = (owed \/ ~daemon)
  /\ StartsDaemon(i)
  /\ GoesTo(i, "identify") \/ GoesTo(i, "idle")
  /\ UNCHANGED <<back, inited, releasable, method, minitouch, needExit, tries, waiting, reg, count, races>>

\* The uuid, the display and its resolution are what is needed: "Connected".
Identify(i) ==
  /\ Goes(i, "identify", "setup")
  /\ ~needExit[i]
  /\ RunsCommand(i)
  /\ UNCHANGED <<back, inited, releasable, method, minitouch, needExit, tries, waiting, reg, shared, races>>

Setup(i) ==
  /\ Goes(i, "setup", "touch")
  /\ releasable' = Put(releasable, i, TRUE)
  /\ owed' = TRUE
  /\ UNCHANGED <<back, inited, method, minitouch, child, needExit, tries, waiting, reg, count, daemon, races>>

\* call_and_hup_minitouch: minitouch is started and tells its properties, or not.
HupMinitouch(i) == \E available \in BOOLEAN : minitouch' = Put(minitouch, i, available)

\* Fault: the instance counts as connected before a way to take pictures is found.
TouchInits(i) ==
  /\ pc[i] = "touch"
  /\ ~needExit[i]
  /\ HupMinitouch(i)
  /\ MakeInited(i, TRUE, "capture")
  /\ RunsCommand(i)
  /\ UNCHANGED <<releasable, method, needExit, tries, waiting, reg, shared, races>>

\* Either minitouch is not enabled, or it has to be available.
Touch(i) ==
  /\ Goes(i, "touch", "capture")
  /\ ~needExit[i]
  /\ HupMinitouch(i)
  /\ RunsCommand(i)
  /\ UNCHANGED <<back, inited, releasable, method, needExit, tries, waiting, reg, shared, races>>

\* screencap() with the method UnknownYet: one that works is found.
FindMethod(i) ==
  /\ pc[i] = "capture"
  /\ ~needExit[i]
  /\ method' = Put(method, i, TRUE)
  /\ MakeInited(i, TRUE, "idle")
  /\ RunsCommand(i)
  /\ UNCHANGED <<releasable, minitouch, needExit, tries, waiting, reg, shared, races>>

-----------------------------------------------------------------------------
(* A task uses the device *)

\* Assistant::start and stop
StartTask(i) ==
  /\ pc[i] = "idle" /\ needExit[i] /\ inited[i]
  /\ needExit' = Put(needExit, i, FALSE)
  /\ UNCHANGED <<pc, back, inited, own, tries, waiting, reg, shared, races>>

Stop(i) ==
  /\ pc[i] \notin {"kill", "destroyed"}
  /\ ~needExit[i]
  /\ needExit' = Put(needExit, i, TRUE)
  /\ UNCHANGED <<pc, back, inited, own, tries, waiting, reg, shared, races>>

\* get_image: pictures without a reconnect first, while the device is there.
GetImage(i) ==
  /\ Goes(i, "idle", "shoot")
  /\ ~needExit[i] /\ method[i]
  /\ tries' = Put(tries, i, 0)
  /\ UNCHANGED <<back, inited, own, needExit, waiting, reg, shared, races>>

\* It worked, or a stop was seen: the last picture is returned.
Shot(i) ==
  /\ Goes(i, "shoot", "idle")
  /\ tries' = Put(tries, i, 0)
  /\ RunsCommand(i)
  /\ UNCHANGED <<back, inited, releasable, method, minitouch, needExit, waiting, reg, shared, races>>

MissShot(i) ==
  /\ pc[i] = "shoot"
  /\ ~needExit[i] /\ inited[i] /\ tries[i] < MaxTryCount
  /\ tries' = Put(tries, i, tries[i] + 1)
  /\ RunsCommand(i)
  /\ UNCHANGED <<pc, back, inited, releasable, method, minitouch, needExit, waiting, reg, shared, races>>

\* screencap(true), which may reconnect; a click, a swipe or any other command
\* without minitouch may as well.
CallFails(i) ==
  /\ \/ Goes(i, "idle", "loop") /\ ~minitouch[i]
     \/ Goes(i, "shoot", "loop") /\ tries[i] >= MaxTryCount
  /\ ~needExit[i] /\ inited[i]
  /\ tries' = Put(tries, i, 0)
  /\ RunsCommand(i)
  /\ UNCHANGED <<back, inited, releasable, method, minitouch, needExit, waiting, reg, shared, races>>

\* No reconnect without a connection: a picture of nothing is returned.
Blank(i) ==
  /\ Goes(i, "shoot", "idle")
  /\ ~needExit[i] /\ ~inited[i]
  /\ UNCHANGED <<back, inited, own, needExit, tries, waiting, reg, shared, races>>

\* Fault: the last of the reconnects is one too many.
TryToReconnectOnceMore(i) ==
  /\ pc[i] = "loop"
  /\ IF needExit[i] \/ tries[i] > ReconnectTimes
       THEN GoesTo(i, "drop") /\ UNCHANGED waiting
       ELSE GoesTo(i, "sleep") /\ waiting' = Put(waiting, i, TRUE)
  /\ UNCHANGED <<back, inited, own, needExit, tries, reg, shared, races>>

\* The head of the loop of call_command.
TryToReconnect(i) ==
  /\ pc[i] = "loop"
  /\ IF needExit[i] \/ tries[i] >= ReconnectTimes
       THEN GoesTo(i, "drop") /\ UNCHANGED waiting
       ELSE GoesTo(i, "sleep") /\ waiting' = Put(waiting, i, TRUE)
  /\ UNCHANGED <<back, inited, own, needExit, tries, reg, shared, races>>

Sleep(i) ==
  /\ Goes(i, "sleep", IF needExit[i] THEN "drop" ELSE "reconnect")
  /\ UNCHANGED <<back, inited, own, needExit, tries, waiting, reg, shared, races>>

\* Fault: a stop in the loop returns at once.
ReconnectReturns(i) ==
  /\ pc[i] = "reconnect"
  /\ StartsDaemon(i)
  /\ \/ needExit[i] /\ GoesTo(i, "idle") /\ UNCHANGED <<tries, minitouch>>
     \/ /\ ~needExit[i] /\ GoesTo(i, "loop")
        /\ tries' = Put(tries, i, tries[i] + 1)
        /\ UNCHANGED minitouch
     \/ /\ ~needExit[i] /\ GoesTo(i, "recall")
        /\ HupMinitouch(i)
        /\ UNCHANGED tries
  /\ UNCHANGED <<back, inited, releasable, method, needExit, waiting, reg, count, owed, races>>

\* "adb connect" again; on success minitouch is called again, if it is enabled.
Reconnect(i) ==
  /\ pc[i] = "reconnect"
  /\ StartsDaemon(i)
  /\ \/ needExit[i] /\ GoesTo(i, "drop") /\ UNCHANGED <<tries, minitouch>>
     \/ /\ ~needExit[i] /\ GoesTo(i, "loop")
        /\ tries' = Put(tries, i, tries[i] + 1)
        /\ UNCHANGED minitouch
     \/ /\ ~needExit[i] /\ GoesTo(i, "recall")
        /\ HupMinitouch(i)
        /\ UNCHANGED tries
  /\ UNCHANGED <<back, inited, releasable, method, needExit, waiting, reg, count, owed, races>>

\* The command that had failed, once more.
Recall(i) ==
  /\ \/ /\ ~needExit[i] /\ Goes(i, "recall", "idle")
        /\ waiting' = Put(waiting, i, FALSE)
        /\ tries' = Put(tries, i, 0)
     \/ /\ Goes(i, "recall", "loop")
        /\ tries' = Put(tries, i, tries[i] + 1)
        /\ UNCHANGED waiting
  /\ RunsCommand(i)
  /\ UNCHANGED <<back, inited, releasable, method, minitouch, needExit, reg, shared, races>>

Drop(i) ==
  /\ pc[i] = "drop"
  /\ MakeInited(i, FALSE, "dropped")
  /\ UNCHANGED <<own, needExit, tries, waiting, reg, shared, races>>

\* The picture that needed the command is blank, which get_image tells too; the
\* last thing told is taken to be the disconnect.
Dropped(i) ==
  /\ Goes(i, "dropped", "idle")
  /\ waiting' = Put(waiting, i, FALSE)
  /\ tries' = Put(tries, i, 0)
  /\ UNCHANGED <<back, inited, own, needExit, reg, shared, races>>

\* Fault: the destructor does not call kill_adb_daemon.
DestroyOnly(i) ==
  /\ pc[i] = "idle"
  /\ MakeInited(i, FALSE, "destroyed")
  /\ minitouch' = Put(minitouch, i, FALSE)
  /\ UNCHANGED <<releasable, method, child, needExit, tries, waiting, reg, shared, races>>

-----------------------------------------------------------------------------
\* ~Controller
Destroy(i) ==
  /\ pc[i] = "idle"
  /\ MakeInited(i, FALSE, "kill")
  /\ minitouch' = Put(minitouch, i, FALSE)
  /\ UNCHANGED <<releasable, method, child, needExit, tries, waiting, reg, shared, races>>

\* kill_adb_daemon, with the same condition
KillAdbDaemon(i) ==
  /\ Goes(i, "kill", "destroyed")
  /\ IF count = 0 /\ child[i] /\ owed THEN owed' = FALSE /\ daemon' = FALSE
                                     ELSE UNCHANGED <<owed, daemon>>
  /\ UNCHANGED <<back, inited, own, needExit, tries, waiting, reg, count, races>>

-----------------------------------------------------------------------------
\* What the thread does by itself once something has been asked for.
Proceeds(i) ==
  \/ CountRead(i) \/ CountWrite(i) \/ Release(i)
  \/ Clear(i) \/ Fails(i) \/ ConnectCommand(i) \/ Identify(i) \/ Setup(i) \/ Touch(i)
  \/ FindMethod(i)
  \/ Shot(i) \/ MissShot(i) \/ Blank(i)
  \/ TryToReconnect(i) \/ Sleep(i) \/ Reconnect(i) \/ Recall(i) \/ Drop(i) \/ Dropped(i)
  \/ KillAdbDaemon(i)

Asked(i) == Connect(i) \/ StartTask(i) \/ Stop(i) \/ GetImage(i) \/ CallFails(i) \/ Destroy(i)

Next == \E i \in Instance : Proceeds(i) \/ Asked(i)

\* A command returns, if only by its timeout.  It is strong fairness because the bound
\* on the overlaps may keep a thread from the count again and again, which the code
\* does not.
Fairness == \A i \in Instance : SF_vars(Proceeds(i))

Spec == Init /\ [][Next]_vars /\ Fairness

-----------------------------------------------------------------------------
\* Those the count stands for: the flag leads, the count follows.
Counted == {i \in Instance : inited[i] = (pc[i] \notin {"count", "write"})}

\* As long as no two updates overlap, m_instance_count is the number of the
\* instances that have been counted in and not yet out; and when all the Assistants
\* are gone, no kill-server is owed to the daemon, though some were destroyed while
\* others were connecting, connected or failing.  Only where there is a fork, an
\* instance for which adb-lite has run every command (or which has run none) leaves
\* what is owed, if it is the last to go.
SharedKept ==
  races = 0 =>
    /\ count = Cardinality(Counted)
    /\ (\A i \in Instance : pc[i] = "destroyed" /\ child[i]) => ~owed

\* "All instances are released, run the final release": then only, as long as no
\* two updates of the count overlap.
ReleasedByTheLast ==
  [][races' = 0 =>
      \A i \in Instance : pc[i] # "release" /\ pc'[i] = "release" => Counted' = {}]_vars

\* A device that counts as connected can be looked at, so that a task never
\* searches for a way to take pictures.
InitedCanCapture == \A i \in Instance : inited[i] => method[i]

\* A connection is given up by a connect, by the destructor, or after all the
\* reconnects or a stop seen between them; a stop by itself never costs it.
DroppedForAReason ==
  [][\A i \in Instance : inited[i] /\ ~inited'[i] =>
        \/ pc[i] = "idle"
        \/ pc[i] = "drop" /\ (tries[i] = ReconnectTimes \/ needExit[i])]_vars

\* Whoever was told of a reconnect is told how it ended; a stop in between does not
\* swallow the answer.
ReconnectIsSettled ==
  \A i \in Instance : []<>~waiting[i]
=============================================================================
