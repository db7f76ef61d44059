# Verification of MaaAssistantArknights

TLA+ models of MaaAssistantArknights (an assistant that plays the repetitive parts of a mobile
game through adb and pattern recognition): of MaaCore, its C++ core, of its main window and of the
program that makes its resources; the TLC configurations that check them, and theorems about
them that TLAPS proves. Paths below are relative to the root of the repository; `MaaCore/` is
short for `src/MaaCore/`.

1. [The system](#1-the-system)
2. [Modules](#2-modules)
3. [Runs](#3-runs)
4. [Proofs](#4-proofs)
5. [What the code does not keep](#5-what-the-code-does-not-keep)
6. [Not modelled](#6-not-modelled)
7. [Plan](#7-plan)

## 1. The system

A user of MaaCore creates an `Assistant` through the C API (`AsstCreate`), connects it to an
emulator, appends tasks (a *chain*: fight, recruit, infrastructure, ...), starts and stops them,
and learns what happens from callbacks.

| Part | State | Operations | Interacts with |
|---|---|---|---|
| **Scheduler** (`Assistant.cpp`) | `m_tasks_list`, `m_task_id`, `m_thread_idle`, `m_thread_exit`, `m_mutex`, the local `finished_tasks` | `append_task`, `start`, `stop`, `connect`, `async_connect`, `working_proc`, the destructor | runs tasks; posts to the callback queue; connects the Controller |
| **Callback queue** (`Assistant.cpp`) | `m_msg_queue`, `m_msg_mutex`, `m_msg_condvar` | `append_callback`, `msg_proc`, the destructor | filled by every thread, drained into the user's callback by its own |
| **C API** (`AsstCaller.cpp`) | none | checks and forwards | client threads |
| **Task framework** (`Task/AbstractTask`, `PackageTask`, plugins) | enabled, retries, the list of subtasks, plugins | `run`, `_run`, `on_run_fails`, `callback` | runs on the worker; reads `need_exit()`; plugins run inside its callbacks |
| **Params** (`Task/Interface/*`) | what each subtask is set to, `m_running` | `set_params` at `append_task` and `set_task_params` | called by clients, while the worker may run the task |
| **ProcessTask** | the names to look for, the task recognised last, counters, limits, retries | `run`, `_run`, `on_run_fails`, `set_tasks`, `set_times_limit` | interprets `resource/tasks.json`; `set_task_params` changes it from another thread |
| **Fight** (`FightTask`, plugins, `tasks.json`) | limits of battles, medicines, stones; drops | `set_params`, the graph from `FightBegin`, `StageDropsTaskPlugin`, `ReportDataTask` | ProcessTask, the game, the statistics (by threads of its own) |
| **Recruit** (`AutoRecruitTask`) | times, slots that failed or were skipped, tags reported | the loop over slots, the analysis with refreshes, confirm, speed-up | ProcessTask, the statistics |
| **Infrastructure** (`Task/Infrast`) | the plan of the user, operators seen, the best combination | production, power, control, office, dormitories, reception | ProcessTask, Status |
| **Battle** (`BattleHelper`, `BattleProcessTask`, `RoguelikeBattleTaskPlugin`) | the deck, who stands where, homes that wait | deploy, retreat, skills, bullet time | the game, whose clock runs on |
| **Squad** (`BattleFormationTask`, `Algorithm.hpp`) | groups still to serve; the exact cover | select operators; allocate them to groups | the plan (`Copilot`) |
| **Roguelike, SSS, Reclamation** | expeditions, investments, what Status holds; tries of stages; badges and gold | one expedition, stage or round after the other | ProcessTask and its plugins, Status |
| **Mall, Depot** | lists of goods, the credit; items counted | shop in three rounds; read page after page while swiping | ProcessTask |
| **Controller** | the connection, commands, the count of inited instances | `connect`, `call_command`, `screencap`, `release` | adb, minitouch |
| **Task data** (`Config/TaskData`) | the tasks of `tasks.json`, expanded on demand | `parse`, `get`, `expend_sharp_task`, `generate_task_and_its_base` | read by all tasks |
| **Resources** (`Config/ResourceLoader`) | the other configs, `m_loaded` | `load`, with three threads | read by all tasks |
| **Main window** (`MaaWpfGui`) | `Idle`, `Stopping`, the ids of tasks it remembers | `LinkStart`, `Stop`, the copilot and the calculation page, the callbacks | a client of the C API |
| **Update** (`VersionUpdateViewModel`) | files on disk, packages, `gui.json` | check, download, replace at the next start | the process that it restarts |
| **ResourceUpdater** (`tools/`) | the files of `resource/` | pull two repositories, write one file after the other | maintainers run it by hand |

What is hard in it:

- **Interleaving.** `m_thread_idle` and `m_thread_exit` are plain booleans, read and written with
  and without `m_mutex` by clients, the worker, the running task and the destructor. The worker
  copies the front of the list, runs it without the lock and pops *the front* afterwards. Both
  condition variables are (mostly) waited on without a predicate.
- **Ordering.** Messages of all threads reach the user through one queue and another thread;
  the window executes them between the steps of its coroutines.
- **Failure.** The device is lost under a running task; a log that has no name for a message
  throws; sub tasks fail; the game loses clicks and connections and fails battles.
- **Counting.** ProcessTask compares, increments and gives back counters in three places, across
  retries, fallbacks and changes of parameters. Medicines and stones are spent by it.
- **Termination.** A fallback (`on_error_next`) starts the interpreter again, without a bound; the
  wait for a battle is a cycle of tasks; every task has loops of its own inside the retries.
- **Belief.** A task knows the game from pictures only. It remembers what it clicked (who stands
  where, who is selected, what was bought), and a lost click or a misread name makes that wrong.
- **State that outlives its use.** Task objects live through retries and new params; Status and
  the configurations are shared by all tasks of an instance.
- **Crash.** The program replaces its own files at its next start; the maintainers' tool rewrites
  a file that it also reads.

`PROJECT.json` lists the hazards one by one, each at its line, with the properties that cover it.

What makes each part correct:

- callback queue: no message is lost, doubled or overtaken; its thread never sleeps on one;
- scheduler: the list is a queue (a task leaves it by being run or by a stop), tasks run in the
  order of their ids and at most once, no start is lost, a stop ends the chain, no connect
  happens under a task, destruction returns, and the callbacks of chains follow a protocol;
- ProcessTask: limits are kept, a stop ends it, its counters stay sane;
- Fight: never spends more than allowed, never fights more often than asked, ends, and reports
  success only if it did what it was asked to;
- Recruit: confirms no more often than asked, reports no tags twice;
- Infrastructure: rooms get whom the plan names or the best combination, dormitories are full and
  take nobody from his work, clues are in their places and not given away;
- Battle: what is believed of the field is so, no home is forgotten;
- Squad: one operator for each group;
- Roguelike, SSS: an expedition lives on nothing an earlier one has left, limits hold, the best
  recruit is taken, a stage is tried as often as planned;
- Params: the last accepted params are in force, and a running task keeps the way it began with;
- Mall: money is spent as the lists say; Depot, drops, Reclamation: what is reported is true;
- all tasks: they return when their loops are bounded, and a stop ends them;
- Controller: reconnects are bounded and answered, the daemon is killed by the last instance only;
- Task data, Resources: what is in force is what the files say;
- Update, ResourceUpdater: what a process leaves on disk can be used, and is of one version;
- Main window: it comes out of Stopping, and shuts nothing down after another page's task.

## 2. Modules

```
FifoChannel     TaskQueue   TaskChainProtocol       the abstract specifications
     ^               ^             ^
CallbackQueue <- Assistant --------'                implementations
     ^               ^
     |          SettledClient                       the Assistant under a disciplined client
     |               ^
CallbackQueueProofs  AssistantProofs <- SettledClientProofs

ProcessTask <- Fight                                the interpreter, and the fight against the game
     ^             ^
ProcessTaskProofs  FightProofs

Worker <- AutoRecruit, InfrastShift, InfrastStaff, InfrastDorm, InfrastReception,
          BattleHelper <- BattleProcess, RoguelikeBattle;
          RoguelikeRecruit, RoguelikeRun, SSSStages, Reclamation,
          BattleFormation, DropReports, TaskParams, Mall, Depot
             ^
           Tasks <- TasksProofs <- RecordsProofs    every task under one worker, with a stop

Controller (extended) and Resources, MainWindow, Updater, ResourceUpdater (instances)
     ^
  Around <- AroundProofs                            what is around the worker, a part at a time
     ^
  MCHost                                            the same, and TaskData
```

Two modules put many parts into one run each. The parts of `Tasks` share the worker and the stop
(`Worker`: AbstractTask::run with its retries; `at` is the place in the code, `retry` is
`m_cur_retry`, `stopped` is `need_exit()`); each keeps its own state in one or two records, one
for the task and one for the game it plays against, and those of tasks that do not run are `Idle`.
The parts of `Around` share nothing; MCHost adds TaskData, whose recursive operators the prover
cannot reach, to them. In both, one part runs in one behaviour: MaaCore has one
worker, and no property is about two tasks at once.

**FifoChannel, CallbackQueue.** `append_callback`, `msg_proc` and the destructor's part in it. No
thread blocks while it holds `m_msg_mutex`, so a critical section is one step; the test of
`m_thread_exit` and the user's callback are steps of their own. `append_callback` logs the
message before it queues it, and the log throws for a message that has no name; `Loggable` is
the set of those that have one. `MaxQueue` bounds the queue in TLC only. FifoChannel says what a
user is promised.

**Assistant.** The worker, any number of client threads (`Client`) and the destructor, over
CallbackQueue (`CQ == INSTANCE`). `wpc` is the place of `working_proc`, `cpc[c]` of client `c`,
`dpc` of the destructor. Every access to `m_thread_idle` or `m_thread_exit` without the lock is a
step; so are the copy of a task, its return, the pop, the report, the two tests after it and the
pause. Only `connect()` holds the lock over several steps (`mutex`), and asynchronous calls
report on a thread of their own. A task returns when it likes, but it must return if it sees
`need_exit()`. `view` is what the user can tell from the callbacks raised so far. Both condition
variables may wake up unnotified. `MaxTasks` and `MaxConnects` bound the calls.

**TaskQueue, TaskChainProtocol.** The list of tasks as a caller thinks of it (the running task is
no longer pending), and the order of the chain callbacks a user may rely on. The protocol is
as strict as the code allows: a `TaskChainStopped` may follow the end of a chain when the stop falls
into the pause between two chains, and a stop that found no task may be silent.

**SettledClient.** The Assistant under clients that, after a stop, call nothing until the worker
sleeps again. It is the discipline of the main window (`TaskQueueViewModel.cs`: `Stopping`), with
one assumption made explicit: the API has no call that waits for a stop to settle, so the model
takes the moment from the worker. `Linker` are the clients that link (connect, append, start) and `Stopper`
those that stop, on threads of their own or the same: a stop may overlap any call of another client.
`overlap` notes the one such call that a stop does not end, a `start()` that had passed its test of
`m_thread_idle`. Properties that hold only under this discipline are stated
here, and their failure without it is a run of its own.

**ProcessTask.** One `ProcessTask` object over its life, for any graph of tasks (`Info`), any names
(`Base` gives the names "C@B@A", "B@A", "A" that `calc_time_limit` looks up) and any table of limits
(`GivenFirst`, and `Settable` for the calls of `set_times_limit` that may come at any moment).
`pc` is the place in `run()`/`_run()`; the screen is an argument of `Look`: any set of tasks may be
visible. `Recognise` takes the first name that is visible or needs no screen; `Exceeded` and
`ExceededLate` are the two kinds of limits; `Act` is the click followed by `reduceOtherTimes`;
`OnErrorNext` starts again from the fallback. A sub task is run by a new object; it is an outcome
here (`SubDone`, `SubFails`), since whatever holds of one object holds of it too. The flag
`needExit` is the Assistant's `m_thread_idle`: a stop sets it, a start clears it. The object is
taken to be enabled (`m_enable`). `acted` and `highest` are history: how often each task has acted,
and the highest limit it has had. Only counters that some limit can apply to are kept (`Counted`);
a counter that is never compared cannot be told apart from none. `MaxExec` bounds them in TLC.

**Fight.** ProcessTask (`PT == INSTANCE`) with the graph of `tasks.json` from `FightBegin`, the limits
`FightTask::set_params` gives it and the stop of `StageDropsTaskPlugin`, against a model of the
game. `NextOf`, `ExceededNextOf`, `OnErrorNextOf` and `ReducesOf` are the lists of the tasks after
the expansion of templates and virtual tasks (`Fight@...`, `StartUpThemes#next`); tasks that differ
only in the picture they look for are one. The game (external, modelled from what the tasks look
for and click) shows a screen, opens the page that fits the sanity and the items left, and counts
what is spent and won on its own side. It may lose a click or a look, fail a battle or lose the
connection, at most `MaxFaults` times. A battle that is cut off costs nothing.

**AutoRecruit** (`AutoRecruitTask.cpp`). The slot loop with its three counters (times confirmed, slots
that failed, slots skipped), the analysis of one slot with its refreshes, confirm and speed-up, and
`set_params` of the running task, with any number of times (`SetRecruit`). The
hall is the game: slots that are free, busy or done, whether tags are new, and what was confirmed; and the
history of the calls: whether the times were set below the count (`overtaken`), or a calculation turned into a
recruitment (`turned`).

**InfrastShift, InfrastStaff, InfrastDorm, InfrastReception** (`Task/Infrast`). InfrastShift is the way of
the production tasks from room to room, with the user's plan, which is consumed while it is carried
out, and the drones. InfrastStaff is how the best operators are found: `opers_detect` through the pages
of the list, `optimal_calc` (combinations with necessary and optional members, limits of equal
skills), `opers_choose` (page after page, with clicks that may be lost and the review at the end), and the
same in the loops of the power plants, the control centre and the office; `Recognized` is how the level of a skill is told from pictures that contain each other.
InfrastDorm fills dormitories in four steps (the plan, the tired, those without full trust, anybody); the review
passes over those whose names it cannot read (`unread`) before it looks whether they work.
InfrastReception places, unlocks, receives and sends clues and sets the product.

**BattleHelper, BattleProcess, RoguelikeBattle.** BattleHelper has the three maps of the code and, on the
game's side, who really stands where and who cools down; `doubt` are those of whom a click or a swipe
was lost. BattleProcess carries out a plan (of a copilot, or of SSS with its strategies);
RoguelikeBattle fights without one: homes that wait for a blocker and a medic, urgent homes, the
timeout and the retreat. Costs, skills, directions and scores are free choices.

**BattleFormation.** Groups of a plan and the list of operators, where a second click
lets somebody go again; and the exact cover by dancing links, as a nondeterministic search whose
failed branches the code undoes.

**RoguelikeRun, RoguelikeRecruit, SSSStages, Reclamation.** RoguelikeRun is the expedition as far as
something is counted, bought or left in Status, with `set_params` of the running task (`SetTrip`), of which
`stop_when_investment_full` puts a limit of its own in place of the one asked for (`InvestLimit`); RoguelikeRecruit is one recruitment, page by page, with
the support of a friend; SSSStages is the stage manager with the rewards, the cards and the give-up;
Reclamation is both modes of the control task with its battle and its report plugin.

**DropReports.** `StageDropsTaskPlugin` and the uploads of `ReportDataTask`, each on a thread of its own that
reads the body and the headers when it comes to it, with their retries and the second address.

**TaskParams.** The `set_params` of the interface tasks as one operator per kind from a task and
params to a task and a verdict, what is done with it by `append_task` and by `set_task_params`, and
the worker that may begin the task between the look at `m_running` and what follows from it.

**Mall, Depot.** The subtasks of `MallTask` and the three rounds of `CreditShoppingTask`; the pages of the
depot, which `DepotImageAnalyzer` reads while another thread already swipes.

**Controller.** Several instances with the count and the owed command they share. `connect` in its ten
steps, `make_instance_inited` and `release` with the count read and written apart, `call_command` with
its reconnects, `get_image` with its tries, destruction. A command succeeds, fails or cannot be run. Where there is a
fork (`Windows = FALSE`), `release` and `kill_adb_daemon` ask for the process that was forked last (`child`), which is
none as long as adb-lite runs the commands.

**TaskData, Resources.** TaskData is `parse` over one or two files in their order, with bases, templates
by prefix (`A@B`), lists of other tasks (`B#next`) and lookups that generate tasks; `Meant` is the
reference definition, what a file says without regard to any order. Resources is one `load` after
the other with its three threads, `m_loaded`, and for each config what its parse does with what is
there already (keep, override, replace, append).

**MainWindow.** `LinkStart` (twice, since two may overlap), the copilot and the calculation page as
coroutines, the callbacks of the library executed between their steps, the ids the window
remembers, what is done when all is completed; the library is what Assistant says, without its locks.

**Updater, ResourceUpdater.** Files on disk and the processes that change them; each may be ended
between any two steps. The updater has the running program and the one that has started it, which
goes on with its own check for a while: `clash` notes that it has written over a package while that was put
in place, or that the package was forgotten then. `gui.json` is cut and written in place by every setting that is
saved, so a crash there (`CrashInSave`) loses what it said. In ResourceUpdater `out` has every file, of the Chinese
data (`InChina`) or of a region; a write that fails cuts the file, and nobody looks at it (`short`).

## 3. Runs

All runs switch the check for deadlocks off: every system here may stop for good (a destroyed
instance, a task that has returned, bounded calls that are used up).

| Run | Module, cfg | What it checks and shows |
|---|---|---|
| `callback_queue` | CallbackQueue | `NoSleepOnMessage`, refinement `IsFifoChannel`, `QueuedIsDelivered` (liveness). Three messages, one without a name; queue of three. |
| `assistant` | MCAssistant | Two clients that call what they like, two tasks, one connect: `NoLostStart`, `IdsInOrder`, `RunsForward`, and refinement `FollowsProtocol`. Clients are symmetric (no liveness here). |
| `settled_client` | SettledClient, MCSettledClient | With settled clients: `IsTaskQueue` (refinement), `NoConnectUnderTask`, `FinishedIsOneBatch`, and the liveness `StartedQueueMoves` and `StopEndsChain`. Two clients, one that links and one that stops, two tasks, two connects (950,145 states); the first three are proved for any clients. |
| `pops_unrun_task` | MCAssistantTaskQueue | violation: see section 5. |
| `connect_under_task` | MCAssistantNoConnect | violation. |
| `destroy_hangs` | MCAssistantDestroy | violation (under fairness). |
| `async_call_unanswered` | MCAssistantAsync | violation (under fairness). |
| `process_task` | MCProcessTask | `LimitKept`, `ReturnsOnStop` (liveness) on a graph that has every kind of list, limit and fallback, against any screens, changes of limits, stops and restarts. |
| `fight` | Fight, MCFight | `SpendsWithinParams`, `TimesKept`, `SuccessIsEarned`, `NoBattleAfterDrops` (no battle is entered once the plugin has found enough drops, at whatever counters), `FightEnds` (liveness), against a game with up to two faults. |
| `battle_given_back_twice` | Fight, MCFightTimes | violation, with a single fault. |
| `tasks` | MCTasks | Seventeen kinds of tasks, each with its retries, against a game that answers as it likes, a stop at any moment, and other params for a recruitment or an expedition that runs. The properties below. |
| `host` | MCHost | Two connections; definitions of tasks loaded twice; resources; the update and the tool with crashes; the main window. The properties below. |

| Property | It says | Of |
|---|---|---|
| `RecruitsAsAsked` | confirmed no more often than last asked, through all retries, unless the times were set below the count; no tags reported twice, unless a refresh failed unseen or a calculation was turned into a recruitment | AutoRecruit |
| `InfrastIsManned` | rooms a plan skips stay as they are and drones are used once; dormitories are full and take nobody from work whose name is read; clues are in their places and none that is needed is given away; a selection that began empty and passed its review has exactly the skills that were worked out, and nobody tired; the level of a skill is told | InfrastShift, InfrastDorm, InfrastReception, InfrastStaff |
| `BattlesAreKnown` | who stands where is known, but for lost clicks; a home that waits for nobody has somebody, or his loss was not seen yet | BattleHelper, RoguelikeBattle |
| `SquadsAreAsked` | one operator of each group and nobody else; the allocation is an exact cover; the most wanted operator of the pages that are looked at is recruited | BattleFormation, RoguelikeRecruit |
| `BestIsTaken` | the combination of a room is at least as good as the best single operators, fits the room, and can be found again | InfrastStaff |
| `RecordsAreTrue` | drops are counted once and no battle follows when there are enough; gold and badges are what happened; no more expeditions or investments than asked (999, where the box is to be filled), and nothing of an earlier expedition counts; stages are tried as often as planned, and settled for a reason; the depot is what was shown | DropReports, Reclamation, RoguelikeRun, SSSStages, Depot |
| `ParamsAreMeant` | a waiting task is as its last accepted params alone would make it; a running one keeps its subtasks; credit is spent in the order and within the lists | TaskParams, Mall |
| `TaskReturns` | whatever the game shows, every task comes to an end by itself, but for the five with a loop that waits for the game or pages without a bound | Tasks |
| `StopEndsTask` | a stop ends every task | Tasks |
| `SharedKept`, `ReleasedByTheLast` | the count is the number of those connected, nothing is owed in the end if adb was started for a command of each, and only the last releases, while no two updates overlap | Controller |
| `InitedCanCapture`, `DroppedForAReason`, `ReconnectIsSettled` | a device is usable while it counts as connected, is given up for a reason, and whoever hears of a reconnect hears its end | Controller |
| `ResourcesAreMeant` | tasks mean what the files say whatever the order of names, and the table holds what an expansion would give; each config has what its directory says, and is empty only if its file is missing (or, of the operators' pictures, that of the operators) | TaskData, Resources |
| `FilesAreWhole` | a program that runs has all files of its version, no package is put over another version, and an announced update happens, unless the package was replaced or forgotten while it was put in place, or gui.json was cut; data that a run of the tool reports as done is of one version, but for files whose write failed unseen, and notes made by hand are kept | Updater, ResourceUpdater |
| `ActsForMainTasks`, `StopSettles` | what follows the main queue's last task is not done after another page's, unless its id was forgotten on the way; a Stop that finds something to stop is settled, and the page can be used again | MainWindow |

Where the code keeps a property only as long as the game does (no click lost, no name misread), the
property says so by a flag that the model sets at that very moment (`doubt`, `lost`, `unsure`, `blind`,
`sharp`, ...); section 5 says what happens otherwise. A page or a name is misread only where the code
reads one.

The bounds, and why they are enough:

- *Clients 2, tasks 2, connects 1* (2 in `settled_client`, so that the second may meet a task). Each hazard of the scheduler is a race of one client call, or of
  a stop, an append and a start, with one pass of the worker: two clients can be inside two calls
  while the worker is inside a pass, and two tasks give a pass a successor. The safety results
  are also proved for any numbers (section 4). In `settled_client` one client links and the other
  stops, for the time the liveness takes; two that do both (3,321,522 states) keep the safety properties too.
- *Queue 3.* An order can only be confused between a message in hand, one queued and one posted.
- *RetryTimes 1* instead of 20: the loop is tried, retried and left. A fight may do in one retry
  what it does in twenty, only with fewer of the faults, which are bounded anyway.
- *MaxExec 3* (process_task): one more than the largest limit that stays (2), and the one that
  a changed limit allows (3). *MaxExec 8* (fight) is above what any limit allows; it is there
  for the counters that are given back.
- *Fight:* two battles asked for; one medicine, one expiring medicine and one stone allowed. The
  player has no sanity or more than enough, no medicine or one more than allowed, likewise
  stones. So each limit is exceeded in some behaviour, each page appears, and each of
  `times`, the items and the sanity is what ends the fight in some behaviour. Failed missions are
  retried once (three times in `tasks.json`). Two faults are enough for a fault during the recovery
  from a fault. What is spent and how often is fought is proved without any of these bounds.

- *Tasks:* each part has the smallest instance in which its hazard occurs: two slots and two times
  for the loop over slots (one is done and one is free); two rooms, since a plan is consumed in one
  and a retry re-enters it; two homes and two operators, of which only one blocks; three operators
  and two groups, so that the allocation has something to choose and to leave over; three pages, one
  more than is looked at; two battles and two ends of each, so that a report overlaps the next one;
  two expeditions, and for them and a recruitment one call of `set_params` while they run, with params of every kind;
  towers of two stages; three goods and three materials to a page. Retries are 0 or
  1 where the code has 3 to 20: the loop is left by its counter and by success in both.
- *Host:* two instances, since the count is about the last and the last but one; one reconnect and
  one overlap of updates; three names that may be made of each other (all cycles of up to three)
  and two that only a lookup asks for; three versions, so that a package may be superseded; two crashes
  of the update, so that the start after the first may be cut off as well; two runs of the tool with two
  failures; three events in the window, which are two starts and a stop; two loads, the second over
  the first; two regions besides China, of which one is checked. The connections are those of a system with a fork,
  where the guards are the weaker ones; the proofs are about both.

Fairness, and why the code justifies it:

- the worker, the callback thread and an API call or a destructor once begun are threads of the
  system and go on (weak fairness of their steps). Nobody has to call the API.
- A task need not return unless it sees a stop; `TaskReturns` is not fair, `TaskGivesUp` is: all
  loops of the tasks test `need_exit()`.
- Nobody has to be woken without a notification.
- The worker runs ProcessTask to its end; in Fight, a battle of the game comes to an end.
- In Tasks, the worker goes on with its code (weak fairness of `Progress`; `RecruitWorks` and `TripWorks` are what it
  does in the two tasks whose params a client may change, which it need not), the game's clock goes on in
  a battle, and the clock of eight and ten minutes runs out. A turn of a loop that waits for something
  that is there already is no progress, so that the fairness does not hide an endless wait.
- `TaskReturns` leaves out the five tasks that may go on for ever without a stop: the dormitories and
  the choice of operators (pages without a bound), the formation (an operator that is not owned), the
  Reclamation Algorithm (rounds without an end) and SSS (the wait for the page after a battle).
- Each connection goes on, since a command ends by its timeout at the latest. The fairness is strong, as the bound on the
  overlaps in the count may keep a thread from it again and again, which the code does not.
- In the window, coroutines, the pool, the worker and the thread of the window go on; the user need
  not click.

`FightEnds` rests on the bound of the faults: a game that loses the connection for ever keeps the
fight going for ever, as it should.

Each property of a passing run has a mutant in `PROJECT.json`: a bug one might make in that code,
written next to the definition it replaces ("Fault: ..."), under which TLC finds the property
violated.

## 4. Proofs

TLAPS proves, for every value of the constants that meets their assumptions:

| Module | Theorem | States |
|---|---|---|
| CallbackQueueProofs | `TypeCorrect`, `NoLostWakeup` | `TypeOK`, `NoSleepOnMessage` |
| | `ImplementsChannel` | the queue implements FifoChannel |
| AssistantProofs | `TypeCorrect`, `NoStartIsLost` | `TypeOK`, `NoLostStart` |
| | `ListInOrder`, `ChainsRunForward` | `IdsInOrder`, and the action property `RunsForward` |
| | `CallbacksFollowProtocol` | `FollowsProtocol`: what the user is told of the chains implements TaskChainProtocol, for any number of clients |
| SettledClientProofs | `ConnectsApart` | `NoConnectUnderTask` with settled clients |
| | `ImplementsTaskQueue` | with settled clients the list implements TaskQueue |
| | `BatchesApart` | `FinishedIsOneBatch` with settled clients |
| ProcessTaskProofs | `ProcessTaskTypeOK`, `LimitsAreKept` | `TypeOK` and `LimitKept`, for any graph of tasks and any table of limits |
| FightProofs | `SpendingIsBounded`, `BattlesAreBounded` | `SpendsWithinParams`, `TimesKept`: any params, any stock, any number of faults |
| | `DropsEndTheFight` | `NoBattleAfterDrops`, for any counters at which the plugin sets the limits |
| | `SuccessIsDeserved` | `SuccessIsEarned`: without a stop and without a fault, a fight that reports success has reached a limit or has nothing left to pay with |
| AroundProofs | `ConnectedCanCapture`, `CountIsShared` | `InitedCanCapture`, `SharedKept`, for any number of instances, with a fork or without |
| | `LastReleases`, `DropsAreReasoned` | the action properties `ReleasedByTheLast` and `DroppedForAReason` |
| | `UpdatesLeaveWholeFiles` | `FilesAreWhole`, for any number of versions, crashes, runs, regions and skills |
| | `OnlyTheMainQueueActs` | `ActsForMainTasks`, for any number of events and callbacks |
| | `LoadsAreWhole` | `ResourcesAreWhole`, the half of `ResourcesAreMeant` about Resources, for any loads and files |
| TasksProofs | `BattlesFollowTheNotes` | `BattlesAreKnown`, for any operators, tiles and homes |
| | `ParamsDecide` | `ParamsAreMeant`: every kind of task with any params, and any store, lists and credit |
| | `RoomsAreManned` | `InfrastIsManned`, for any plan, rooms, people, clues, pages and skills |
| | `RecruitsOnlyAsAsked` | `RecruitsAsAsked`, for any number of slots, times and tries, and any params set meanwhile |
| RecordsProofs | `SquadsAreOfThePlan` | `SquadsAreAsked`, for any groups, operators and tries, and any list, team and wishes |
| | `RecordsOfWhatHappened` | `RecordsAreTrue`, for any number of battles, rounds, expeditions and tries, any tower and plan, any materials and contents of the depot |

The inductive invariants and why they are needed:

- *CallbackQueue:* `TypeOK`, `NoSleepOnMessage`, and `InHand` (a message is in hand exactly while the
  callback is being called): without it the channel that `queue` and `inflight` stand for cannot be
  related to a step of `MsgCall`.
- *Assistant:* `TypeOK /\ InHand /\ NoLostStart /\ CQ!NoSleepOnMessage /\ IdsInOrder`. `IdsInOrder` is what makes
  `RunsForward` true although the pop may take the wrong task: the worker's task is never behind
  the front of the list, and once popped it is strictly before it. The callback queue's part is
  proved once (`PostKeepsMsgInv`) and cited by every action that posts.
- *The protocol:* what the user sees lags behind the worker by the message in hand and those queued.
  `InStep` says that there is a story, one view for each of them, in which every message fits what the
  user will have seen before it (`WillSee`), and whose end is where the worker is (`Told`). A post makes
  the story longer at its end (`PostGoesOn`), a callback tells its first part (`CallbackTells`).
- *SettledClient:* `Quiet` (no task runs while a connect holds the lock, or while the instance is idle
  and no stop is settling), `StopSettles`, and `HeadRuns` (the running task is at the front of the list
  until a stop clears it), which is the fact that makes the pop right. `BInv` adds that a batch is apart
  from the one before: the ids of the list, and of what is finished, are beyond those of the last batch.
- *ProcessTask:* `ActedIsCounted` (a limited task that nothing gives back was counted whenever it
  acted, or is just about to act), `HighestIsHighest` (no limit in force is above the highest),
  `CountedWithinLimit`, and `RetriesLeft`. `FirstEntryIsEntry` shows by well-founded choice that
  `calc_time_limit` finds the first entry.
- *Fight:* `FInv`. Each cost is bounded by a counter, each counter by a limit (`LimitsHeld`), and between the
  counting and the click the task must not be somewhere else: a confirmation stands alone in its list
  (`Listed`), is looked for on the page it is meant for (`PagesMatch`), and what was recognised is still
  there when it is clicked (`StillThere`). All three confirmations have the same template, so it is only
  the order of the pages that keeps a stone from being paid for a medicine. `BattlesCounted` keeps the
  account of what may still be given back: a battle that failed gives back one; a lost connection two, the
  second of them on the title page; and a click lost on the title one more. That last one came out of the
  attempt to prove the bound: the instance of the run, with its two faults, is too small to show it, and with four battles and three
  faults TLC finds it.
  `NoBattle` is why the plugin's end of the fight holds: the start buttons' limits are 0, no counter is below 0, so
  neither button can be chosen, and none was chosen already, since the plugin is called between two turns of the loop.
- *A fight without a fault:* `Course` says where such a fight is: `OnCourse` (the lists it can be in, and on which
  screen), `Exact` (the counters are not only within the limits but are what was fought and spent), and `InOrder`
  (expiring medicines come after the others, and `CloseStonePage` and `Stop` are reached only by a fight that has
  earned its end). `SuccessIsEarned` alone says nothing before the last step.
- *AutoRecruit:* `RecruitInv`: every press of Confirm was counted, but for a last one that failed
  (`PressesAreCounted`); a slot is open only while there is something left to do (`OpenToDo`); a slot that is
  free and not dirty has tags that nobody has seen, unless a refresh was lost (`CleanIsFresh`). When the times are set anew
  is compared with where the count comes to if what is under way succeeds (`Reached`).
- *Controller:* `CInv` (where a thread has no connection, and how often it has tried) is each instance's own.
  `CountIsRight`, `Apart` and `NothingOwed` are about all of them: as long as no two updates overlap, at most one
  instance is between reading the count and writing it, and what it has read is the count. Nothing is owed once an
  instance with a process of its own (`child`) has been the last.
- *The update:* `UpdateInv`. Without a clash the state of the files is one of few for each place in the start
  (`FilesAt`): whole, or so far cut off that the same package can be put over them again (`Cut`). What the window knows
  of versions and packages is bound to the files (`GuiKnows`), and whatever was promised to the user is still what the tag
  or a later one says (`PromiseIsKept`).
- *The tool:* `ToolInv`: what is pulled only grows (`DataGrows`), what was written by hand is lost only with the file
  (`HandIsKept`), and each file behind the place of the run is made from its data, also when another run had cut
  it (`BaseIsMade`, `RegionsAreMade`; each of the loops over the regions by `EachIsMade`).
- *The window:* `WindowInv`. Every pair of an id and a task that the library or a callback holds is one the window
  knows: the main queue's (`MainId`, or none), the latest of its page, or one forgotten (`TasksAreKnown`). So an id that is
  not known is never taken for the main queue's.
- *The loads:* `LoaderInv`. Each thread that has not failed has read rightly up to its place (`ConfigsAreRead`,
  `TilesAreRead`, `OcrIsRead`); for a region, all was there before (`NotEmpty`); what is missing is the one odd file
  (`OneIsOdd`); and `m_loaded` stands for the threads that were waited for (`AllAreAwaited`), however early it was set.

- *Tasks:* `TaskKept` (no step puts another task under the worker) makes the invariant of the whole the
  conjunction of one invariant for each task, which only the steps of that task and a stop can disturb.
  - Squad: `FormInv` says of each group whether it is still to be served, and that then nobody of it is selected
    (`FirstTry`). `AllocInv` says that the rows of the answer share no column with each other or with a row that is
    left, and that what is left of the columns is what they do not cover (`AnswerIsApart`); so an answer without
    columns left is an exact cover. `HireInv` says what a recruitment knows while it reads the list: after so many
    swipes it is on that page, or on the last one (`PagesAreRead`), and has found those worth something on the pages
    so far, each with a page he is on (`Listing`). On the way back there is a page with the chosen one ahead, no
    further than the swipes that are left, and each page up to it differs from the one before (`WayIsKnown`), so that
    the loop, which gives up on two equal pages, does not give up too early.
  - Battles: `BattleInv` adds the opposite direction to `FieldIsKnown`: of whoever is back, or was seen
    cooling down, there is no note (`NotesAreTrue`), and nobody both stands and cools. `RogueInv` adds that the
    notes of operators, of places and of blockers agree (`Agree`), with a free place blocking for no home.
  - Params: `ParamsInv` says that a waiting task is as a fresh one with the last params would be, field by field as far
    as its kind sets it (`AsFresh`), and what the caller's thread saw of `m_running` is not stale, or that is noted
    (`late`). `MallInv` keeps the list of the pass in order and of what is not yet bought (`ListRight`), what was
    bought in the order of the passes (`BoughtRight`, `BoughtBefore`), and the credit as it was last read.
  - Records: `DropInv` says for each report where its thread can be and which keys the shared body has
    (`Report`): only the last report's keys are in the body, unless two overlapped. `ReclaimInv` relates the place in
    the dialogue to what was bought (`InDialogue`), `TripInv` the counters of the task to those of the game. `ClimbInv`
    is the account of a tower: tries left and battles fought are the plan together (`TriesAreLeft`, `TriesAreExact`), and
    whoever settles for a stage has a reason (`SettlesFor`). `DepotInv` follows the two offsets of a page, the one it
    was photographed at and the one the other thread has swiped to meanwhile: the swipe leaves no gap (`TakenAt`), and
    all items before the picture are reported (`ReadTo`); and the item the page before ended with is not the last one
    of this page unless it is the last page (`EndedBefore`), which is what makes the test for the end right. That a page is
    read rightly (`AnalyzePage`) needs the solution of a recursive function: `SeenHere` says outright which material each
    item is, `IsSeen` that it solves the equations of `SeenFrom`, and the first place where another solution would differ
    does not exist, by well-foundedness of the numbers (so without induction over an operator). Items are
    found because few materials that look like one come before it (`MaterialIsMatched`).
  - Rooms: `PlanInv` relates the plan that is left to the plan as it was given (`PlanKept`) and to the room
    that is entered (`RoomIsOfPlan`); `DormInv` what is reviewed to what is confirmed; `ClueInv` which places were
    looked at since which clue came. `StaffInv` counts clicks: each is for another combination (`Got`), those who are
    selected are never more than the clicks, and if they are as many, no click was lost and they have the skills of these
    combinations (`ClicksAreCounted`); so the review, which only compares two numbers, is enough. It rests on `HereIsRight`:
    nobody on the page at hand is tired, is there twice, or was selected since the page was read.

Five statements turned out to be wrong when their proofs failed. `FieldIsKnown` was true in the instance of the run
only because of its bound on the actions: with six instead of one TLC finds an operator deployed by a list that still
showed him as cooling down. The code can really lose sight of him so, and he is now one of those in `doubt`. And a
dialogue of the Reclamation Algorithm without any option is left without buying: the four of `BuyWaterProcedure`
(`resource/tasks.json:10914`) are not none, which is now an assumption. `UpdatesAreWhole` held for one crash only;
with two, and a program that was left and downloads the package again that is being put in place, TLC finds files that
no start makes whole (section 5). A skill that the game takes back would stay in `infrast.json`, perhaps without its
picture; that it takes none back is an assumption. And the pictures of the operators are empty without being missed
when the file of the operators is the one that is missing: the instance had no such file, and has it now.

Two definitions are written the way they are for the sake of tlapm 1.4.5, which expands an `@` inside the value of
another EXCEPT to the wrong function: `SelectSkills` of RoguelikeRun and `NotAnswered` of DropReports. It does not
read `![a, b]`, nor take a string with a space to Z3, nor CASE inside an expression; hence `![<<a, b>>]`, names like
`recruitRegions`, and the record in `Parse` of Resources. Nor does it know `@@`, hence `Merged` of Depot. And InfrastStaff
keeps what is still to be found as a set of places of the combination, of which the next one is the least, where the
code erases from a copy of the list: the same order, without the shifting of indices.

Assumptions: there is a client and `Nobody` is none; the bounds are numbers; `Loggable` is part of
`Message`; `Info`, `Base`, `GivenFirst` and `Settable` are well-typed; the params of the fight are numbers
and `NotGiven` is no limit; the limit of what is unlimited is positive and `NoTask` is no task; there are finitely
many instances, operators, people, clues and commodities; prices are positive and none is above the credit that
may be kept; groups and operators of a plan are apart; nowhere is no tile and nobody no operator; a
dialogue has an option; the data of the game loses no skill, China is no other region, and the regions that are checked are
regions. A list for recruits has a page, and if it has several, none is empty and none is the same as the one before; `NoHand`
is nobody; there is at least one swipe, and there are more looks on the way back than swipes. The materials of the depot are
distinct, the game shows them in their order, fewer look like one and come before it than are looked at, and nothing
looks like what is new. An operator is shown at most once on a page of the base. TLC evaluates all of them.

Only model-checked:

- liveness (`QueuedIsDelivered`, `StartedQueueMoves`, `StopEndsChain`, `ReturnsOnStop`, `FightEnds`, `TaskReturns`,
  `StopEndsTask`, `ReconnectIsSettled`, `StopSettles`), which is beyond this prover;
- `BestIsTaken`: the combination is made by folds over the operators and the groups, and compared by a sum, about which
  the prover would need an induction it cannot instantiate; what is selected of it is proved (`RoomsAreManned`);
- `ResourcesAreMeant` as a whole: its half about TaskData is about recursive operators, which the prover cannot reach;
  the other half is `LoadsAreWhole`.

## 5. What the code does not keep

Five of these are runs that TLC ends with a counterexample, since a comment, a test or an assertion of
the repository says otherwise:

- **A task may be dropped without being run** (`Assistant.cpp:350`, run `pops_unrun_task`). A stop
  clears the list while the task still runs; a task appended now is at the front when the worker pops
  "its" task. Holds with settled clients.
- **A connect may happen under a running task** (`Assistant.cpp:121`, `connect_under_task`):
  `m_thread_idle` is true from the stop on, not from the moment the task has returned. Holds with settled
  clients.
- **Destruction may hang** (`Assistant.cpp:333`, `destroy_hangs`): `m_thread_exit` is tested before the
  lock is taken under which the worker then waits.
- **An asynchronous call is never answered** (`Assistant.cpp:434`, `async_call_unanswered`):
  `AsyncCallInfo` has no name in `AsstMsg`'s `operator<<`, whose `at()` throws before the message is
  queued.
- **One lost connection is given back twice** (`resource/tasks.json:2366`, `battle_given_back_twice`):
  `OfflineConfirm` and then `GameStart` each take one off the counters of the start buttons, so the
  task may fight once more than asked for every lost connection. `TimesKept` is the bound that does
  hold: two per lost connection, and one for each click on the title that is lost.

The following came up while modelling. There is no run of its own for them; the models contain the behaviour,
and where a property would otherwise fail it names the exception.

- **Scheduler.** A `start()` that had passed its unlocked test of `m_thread_idle` when another thread's `stop()` sets it
  clears it again under the task that was to be stopped (`Assistant.cpp:287-295`), and the chain runs on (`overlap`).
- **Main window.** A Stop that reaches the library while no chain runs is never answered, and Stopping stays
  set. An `AsstStart` that is refused leaves `Idle` false. `AllTasksCompleted` sets `Idle`, but not Stopping. An id
  that is forgotten while another page's task is on its way makes the end of that task count as that of the
  main queue, which may shut the computer down. Two starts can overlap through another page's end.
- **Update.** Closing the news removes the tag of a package that was downloaded since. A crash between the
  move of the old program and that of the new one leaves none that can start. `.old` is deleted at every
  start. The length of a download is not compared. The program that was left for the updated one still finishes its own
  check, and may write over the package that is being put in place; if that is then cut off, the files stay
  of two versions. `gui.json` is cut and written in place (`ViewStatusStorage.cs:156-167`), and `Load` takes the
  copy beside it only for a file of two characters at most, so a crash in between loses all keys: the package that was
  announced is not put in place, and one that is half in place is not gone on with.
- **Controller.** A stop during `adb connect` leaves a daemon started without one that owes its end; an instance
  that is released while another connects can clear the owed command; the count is no atomic. On Linux and macOS
  `release` and `kill_adb_daemon` do nothing without `m_child` (`Controller.cpp:1251`, `1266`), which only a fork sets:
  with adb-lite, which is on by default (`Controller.h:137`), the kill-server stays owed when all instances are gone,
  unless the last of them has had a command run by a process of its own, as that which starts the daemon is.
- **Task data.** Tasks generated by a lookup before a second file is loaded stay as they were. An explicit `A@B`
  keeps the old `B` when only `B` is overridden. An override that does not mention the picture (`template`)
  resets it to the one named after the task. A base that fails drops those made of it silently. `get` writes to a table that
  all instances share, without a lock.
- **Resources.** `m_loaded` is set while the threads still read it, so a late one may take a missing file for
  loaded. Some configs keep the first load's values, some are replaced, some overridden. A load that fails
  keeps what it has read.
- **ResourceUpdater.** A process that ends while it writes `infrast.json` leaves a file that no later run can
  read, and the notes in it are lost. Writes are not looked at (`main.cpp:289`, `462`, `488`): one that fails leaves a cut
  file, and the run reports success. The two repositories may be pulled at different versions.
- **Params.** A Fight that is refused for its stage has changed its way and its drops; absent keys keep what an
  earlier call said; the rounds of a copilot multiply at each call; the configuration of a copilot is one
  for all tasks, and any task of the mall replaces it.
- **Recruit.** A slot that was skipped counts as one of the times; one refresh more than `refresh_limit` may be
  made. Times that are set below the count of a running task (or negative ones) are passed by the
  `!=` of `AutoRecruitTask.cpp:207`: it confirms on until the slots are used up, and with expedited plans for ever. Params
  that turn a calculation into a recruitment while it runs make it report tags of a slot that it takes for slot 0.
- **Infrastructure.** A retry enters the first room again with a plan that is partly used up; an index past the
  operators throws when there are too few and others are allowed; a name that cannot be read keeps a loop turning that
  looks at no stop (`InfrastProductionTask.cpp:452`); operators just placed in one room may be seen as free for the
  next; the review of a dormitory passes over a name it cannot read before it looks whether he works
  (`InfrastAbstractTask.cpp:281-283`), so that he may be taken from his work; a clue that has just come may be sent
  before it is placed; the levels of skills are compared as texts.
- **Battles.** The condition at `BattleProcessTask.cpp:345` lets a plan that ends with BulletTime run past its end;
  bullet time stays on when an action fails; a blocker who retreats at the timeout leaves his home blocked.
- **Squad.** A retry of the formation parses the groups again and lets operators go; an operator in two groups is
  deselected; the allocation is cut off at the first operator who is left over (`Algorithm.hpp:244`).
- **Roguelike.** `stop_when_investment_full` replaces the asked number of investments by 999
  (`RoguelikeTask.cpp:92-97`); the limit of one mode stays in the next, and so it is when params are set while the
  task runs; investments that were disabled are never enabled again; a click on the start without effect counts as a
  start; the roles of the team are never known, since the role is asked by an operator's name.
- **SSS.** Tries are spent on battles that never began; the manager succeeds even when it was stopped.
- **Reclamation.** A give-up that is clicked again adds its badges again; gold counts before it is made.
- **Drops.** Reports share one body among threads: two that overlap may send one battle twice and another never.
- **Mall.** An entry of a list stands for every name that contains it; a credit that cannot be read counts as
  not overflowing.
- **Depot.** An item that the resources do not know cuts off all that follow, and a lost swipe ends the
  reading, both with `done` reported.

## 6. Not modelled

- *Recognition:* what a picture holds is an input of every model; how it is found (matching, OCR, scores) is
  numerical. Exceptions are how the level of a skill is told (`InfrastStaff`) and how the items of a depot are
  told apart by their order (`Depot`), which are algorithms.
- *Battles:* which tile and direction are best, skills, costs, dice, drones and the scores of formations are
  free choices.
- *Params of a running task:* in Tasks those of a recruitment and an expedition are set in one step each, though the code sets
  them one after another without a lock; an expedition does not change its theme. Those of the other tasks are in
  TaskParams and, for the fight, in ProcessTask.
- *What is read of a picture:* a place or a clue of the reception that is not recognised is passed over
  (`InfrastReceptionTask.cpp:110`, `124`), an operator without a name is dropped from the deck
  (`BattleHelper.cpp:218`), the list of recruits ends by a count of equal names (`RoguelikeRecruitTaskPlugin.cpp:241`; here
  it is found, or not, as `sharp` says), offsets of a priority with the threshold 0 (`:204`) do not occur,
  and a stage of a tower that is misread is taken for none of the plan, not for another one
  (`SSSStageManagerTask.cpp:80`).
- *Infrastructure:* combinations whose efficiency is a formula are one number; the names of optional members that
  are lost when such a group is rebuilt (`InfrastProductionTask.cpp:429`) are not.
- *Controller:* the debug build's device that is connected at once (`Controller.cpp:906-911`), sockets of the raw channel, conversion of line ends, clicks and swipes, the calls of the platform.
- *Small tasks* (awards, start-up, close-down, video recognition, gacha, custom): chains of ProcessTask with a loop
  each; their params are in TaskParams.
- *The rest of the scheduler:* the instance options do not touch the queue; asynchronous click and screencap are
  the same `async_call` as connect; two instances sharing the static `m_task_id` are a data race.
- *`stop(false)`*, without the lock, in `async_callback` (`Assistant.cpp:422`): it is for `InternalError` and
  `InitFailed`, which nothing in MaaCore raises.
- *Undefined behaviour:* `async_call` captures arguments by reference that are gone when a call that does
  not block returns; the allocation's code (`BattleFormation`) indexes a vector it has cleared when there is nothing to cover.
  Any outcome is possible, so nothing is claimed.
- *ResourceUpdater:* a file that cannot be opened at all, which stays as it was; the run goes on as after a write that fails.
- *Fight:* the popup with a red button that may cover the page of a failed battle, with `OfflineConfirmAfterBattle`, which
  confirms it (`tasks.json:3178-3199`) and gives back nothing; the way to the stage, annihilation stages, loading pages, announcements, `DrGrandet` (a wait)
  and the restart plugin, which never runs (`verify` returns false).
- *Main window:* settings, views, logs, the pages that do not use the library, timers beyond their start of a
  queue.
- *Language bindings, other tools, utilities:* forwarding, I/O and formatting.

`PROJECT.json` gives the status of every component.

## 7. Plan

Done: the callback queue, the scheduler, settled clients, ProcessTask, Fight, the Controller, the tasks, task
data and resources, the main window with its updates, the tool, and the proofs of section 4. Left:

1. **TaskData without recursive operators**, as functions over the finitely many names, so that what a single parse
   keeps (though not its expansions) can be proved.
2. **Recruit's abstract specification.** A slot machine that confirms at most so many times, with
   `AutoRecruit` shown to implement it.
3. **Two tasks of one chain.** Status and the copilot configuration are carried from one task to the next; a
   composition of two parts of Tasks in sequence would show what is carried.
