------------------------------ MODULE TaskParams ------------------------------
(***************************************************************************)
(* The params of a task.  append_task makes the task and gives it its      *)
(* first params; set_task_params may give it others while it waits, and    *)
(* while it runs.  What a set_params does not mention stays, and one that  *)
(* is refused may have done a part of its work.  The client holds the      *)
(* mutex of the list, but the worker runs the task without it: between the *)
(* look at m_running and what follows from it the task may begin.          *)
(***************************************************************************)
EXTENDS Worker, FiniteSets

CONSTANTS
  Absent,     \* a key that is not in the params
  MaxSets     \* how often the client calls set_task_params

ASSUME ParamsAssumption == MaxSets \in Nat

VARIABLES
  given,    \* the InterfaceTask: its kind, and what its subtasks are set to
  asked     \* the client's last call, and what its thread knows in the middle of it

paramsVars == <<worker, given, asked>>

InterfaceKinds == {"Fight", "Mall", "Recruit", "Infrast", "Copilot", "SSSCopilot", "Roguelike", "StartUp", "Reclamation", "SingleStep", "Award"}

\* What the params of each kind may say.
ParamsOf(kind) ==
  CASE kind = "Fight" -> [stage : {"", "CE-6", "1-7", "unknown"}, times : {1, 2}, drops : {Absent, 1}]
    [] kind = "Mall" -> [shopping : BOOLEAN, first : {Absent, "some"}, black : {Absent, 1}, force : BOOLEAN, credit : BOOLEAN]
    [] kind = "Recruit" -> [levels : {"wrong", "4", "5"}]
    [] kind = "Infrast" -> [facility : {Absent, <<"Mfg">>, <<"Dorm", "Mfg">>, <<"Mfg", "unknown">>}, custom : BOOLEAN, drones : {1, 2},
                            plan : {"no file", "Mfg", "Fiammetta"}]
    [] kind = "Copilot" -> [file : {Absent, "wrong", "other", "A", "B"}, formation : BOOLEAN, loops : {1, 2}]
    [] kind = "SSSCopilot" -> [file : {Absent, "wrong", "A", "B"}, loops : {1, 2}]
    [] kind = "Roguelike" -> [theme : {"Phantom", "unknown"}, mode : {0, 1, 2, 9}, starts : {1, 2}, invest : BOOLEAN, core : {Absent, 1}]
    [] kind = "StartUp" -> [start : BOOLEAN]
    [] kind = "Reclamation" -> [mode : {0, 1, 9}]
    [] kind = "SingleStep" -> [type : {"stage", "start", "action", "wrong action", "unknown"}]
    [] OTHER -> [none : {0}]

\* The constructors
NewFight == [way |-> "none", nav |-> FALSE, stage |-> "", times |-> 0, drops |-> 0]
NewMall == [first |-> FALSE, shop |-> FALSE, black |-> 0, force |-> FALSE, credit |-> TRUE]
NewInfrast == [subs |-> <<"begin">>, drones |-> 0, plans |-> [f \in {"Mfg", "Dorm"} |-> "none"]]
NewCopilot == [data |-> "none", formation |-> TRUE, rounds |-> 1, stop |-> FALSE]
NewSSSCopilot == [data |-> "none", formation |-> TRUE, rounds |-> 1]
NewRoguelike == [theme |-> "", debug |-> TRUE, leave |-> FALSE, cancel |-> FALSE, starts |-> 0, invest |-> TRUE, core |-> 0]

NewTask(kind) ==
  CASE kind = "Fight" -> NewFight
    [] kind = "Mall" -> NewMall
    [] kind = "Recruit" -> [levels |-> "none"]
    [] kind = "Infrast" -> NewInfrast
    [] kind = "Copilot" -> NewCopilot
    [] kind = "SSSCopilot" -> NewSSSCopilot
    [] kind = "Roguelike" -> NewRoguelike
    [] kind = "StartUp" -> [start |-> TRUE]
    [] kind = "Reclamation" -> [mode |-> 0]
    [] kind = "SingleStep" -> [subs |-> 0, stage |-> FALSE]
    [] OTHER -> [none |-> 0]

-----------------------------------------------------------------------------
\* What each set_params makes of the task c: whether it accepts p, and the task then.
\* running: m_running as it was read.
Accepts(c) == [ok |-> TRUE, task |-> c]
Refuses(c) == [ok |-> FALSE, task |-> c]
OrOld(x, old) == IF x = Absent THEN old ELSE x

\* The way to the stage is set before the stage is looked up.
FightParams(c, p, running) ==
  LET d == [c EXCEPT !.drops = OrOld(p.drops, @)]
      limits(x) == [x EXCEPT !.times = p.times]
  IN  IF running THEN Accepts(limits(d))
      ELSE IF p.stage = "" THEN Accepts(limits([d EXCEPT !.way = "last", !.nav = FALSE]))
      ELSE IF p.stage = "unknown" THEN Refuses([d EXCEPT !.way = "stage", !.stage = ""])
      ELSE Accepts(limits([d EXCEPT !.way = "stage", !.nav = TRUE, !.stage = p.stage]))

\* Fault: what buys when the credit is full stays as it was.
MallParamsKeepForce(c, p, running) ==
  LET s == IF p.shopping
           THEN [c EXCEPT !.first = (p.first = "some"), !.black = OrOld(p.black, @), !.shop = TRUE, !.force = @ \/ p.force]
           ELSE [c EXCEPT !.first = FALSE, !.shop = FALSE]
  IN  Accepts(IF running THEN s ELSE [s EXCEPT !.credit = p.credit])

MallParams(c, p, running) ==
  LET s == IF p.shopping
           THEN [c EXCEPT !.first = (p.first = "some"), !.black = OrOld(p.black, @), !.shop = TRUE, !.force = p.force]
           ELSE [c EXCEPT !.first = FALSE, !.shop = FALSE, !.force = FALSE]
  IN  Accepts(IF running THEN s ELSE [s EXCEPT !.credit = p.credit])

\* After each facility the way leads back to the start of the base.
Visits(fs) == IF Len(fs) = 1 THEN <<"begin", "info", fs[1], "begin">> ELSE <<"begin", "info", fs[1], "begin", fs[2], "begin">>

\* parse_and_set_custom_config: of the facilities that are in the plan; two more visits of
\* the dormitory for Fiammetta.
CustomPlan(c, p) ==
  CASE p.plan = "no file" -> Refuses(c)
    [] p.plan = "Fiammetta" -> Accepts([c EXCEPT !.subs = <<"begin", "target", "Fiammetta">> \o @])
    [] OTHER -> Accepts([c EXCEPT !.plans[p.plan] = "custom"])

InfrastParams(c, p, running) ==
  IF ~running /\ p.facility = Absent THEN Refuses(c)
  ELSE IF ~running /\ p.facility[Len(p.facility)] = "unknown" THEN Refuses([c EXCEPT !.subs = <<"begin">>])
  ELSE LET v == IF running THEN c ELSE [c EXCEPT !.subs = Visits(p.facility)]
           d == IF p.custom THEN v ELSE [v EXCEPT !.drones = p.drones]
       IN  IF p.custom /\ ~running THEN CustomPlan(d, p) ELSE Accepts(d)

\* All subtasks so many times: of those there are after the calls before.
CopilotParams(c, p, running) ==
  IF running \/ p.file \in {Absent, "wrong"} THEN Refuses(c)
  ELSE IF p.file = "other" THEN Refuses([c EXCEPT !.data = p.file])
  ELSE Accepts([c EXCEPT !.data = p.file, !.formation = p.formation, !.rounds = @ * p.loops, !.stop = p.loops > 1])

SSSCopilotParams(c, p, running) ==
  IF running \/ p.file \in {Absent, "wrong"} THEN Refuses(c)
  ELSE Accepts([c EXCEPT !.data = p.file, !.formation = FALSE, !.rounds = @ * p.loops])

\* The limits that end an expedition after the shop or the money box, or leave the box alone, are
\* set and never lifted.
RoguelikeParams(c, p) ==
  LET t == [c EXCEPT !.theme = p.theme]
      m == CASE p.mode = 0 -> [t EXCEPT !.debug = TRUE]
             [] p.mode = 1 -> [t EXCEPT !.debug = FALSE, !.leave = TRUE]
             [] OTHER -> [t EXCEPT !.debug = TRUE, !.cancel = TRUE]
  IN  IF p.theme = "unknown" THEN Refuses(c) ELSE IF p.mode = 9 THEN Refuses(t)
      ELSE Accepts([m EXCEPT !.starts = p.starts, !.invest = @ /\ p.invest, !.core = OrOld(p.core, @)])

\* Each call that is accepted adds a step, or tells the stage.
SingleStepParams(c, p) ==
  CASE p.type = "stage" -> Accepts([c EXCEPT !.stage = TRUE])
    [] p.type \in {"start", "action"} -> Accepts([c EXCEPT !.subs = @ + 1])
    [] OTHER -> Refuses(c)

RecruitParams(c, p) == IF p.levels = "wrong" THEN Refuses(c) ELSE Accepts([c EXCEPT !.levels = p.levels])
StartUpParams(c, p) == Accepts([c EXCEPT !.start = p.start])
ReclamationParams(c, p) == IF p.mode = 9 THEN Refuses(c) ELSE Accepts([c EXCEPT !.mode = p.mode])

SetParams(kind, c, p, running) ==
  CASE kind = "Fight" -> FightParams(c, p, running)
    [] kind = "Mall" -> MallParams(c, p, running)
    [] kind = "Recruit" -> RecruitParams(c, p)
    [] kind = "Infrast" -> InfrastParams(c, p, running)
    [] kind = "Copilot" -> CopilotParams(c, p, running)
    [] kind = "SSSCopilot" -> SSSCopilotParams(c, p, running)
    [] kind = "Roguelike" -> RoguelikeParams(c, p)
    [] kind = "StartUp" -> StartUpParams(c, p)
    [] kind = "Reclamation" -> ReclamationParams(c, p)
    [] kind = "SingleStep" -> SingleStepParams(c, p)
    [] OTHER -> Accepts(c)

-----------------------------------------------------------------------------
ParamsInit ==
  /\ \E kind \in InterfaceKinds : given = [kind |-> kind, set |-> NewTask(kind), enable |-> TRUE, running |-> FALSE, begun |-> Absent]
  /\ asked = [p |-> Absent, ok |-> FALSE, calls |-> 0, inside |-> FALSE, saw |-> FALSE, late |-> FALSE]

\* append_task: a task that refuses its params is not in the list.
AppendTask ==
  /\ at = "run"
  /\ \E p \in ParamsOf(given.kind), enable \in BOOLEAN :
       LET s == SetParams(given.kind, given.set, p, FALSE)
       IN  /\ given' = [given EXCEPT !.set = s.task, !.enable = enable]
           /\ asked' = [asked EXCEPT !.p = p, !.ok = s.ok]
           /\ Goes(IF s.ok THEN "listed" ELSE "failed")

\* set_task_params, up to the look at m_running
SetTaskParams ==
  /\ at \in {"listed", "runs"} /\ ~stopped /\ ~asked.inside /\ asked.calls < MaxSets
  /\ \E p \in ParamsOf(given.kind), enable \in BOOLEAN :
       /\ asked' = [asked EXCEPT !.p = p, !.calls = @ + 1, !.inside = TRUE, !.saw = given.running]
       /\ given' = [given EXCEPT !.enable = enable]
  /\ Stays

ParamsAreSet ==
  /\ asked.inside
  /\ LET s == SetParams(given.kind, given.set, asked.p, asked.saw)
     IN  /\ given' = [given EXCEPT !.set = s.task]
         /\ asked' = [asked EXCEPT !.ok = s.ok, !.inside = FALSE, !.p = IF given.running THEN Absent ELSE @, !.late = @ \/ (given.running /\ ~asked.saw)]
  /\ Stays

\* PackageTask::run; a task that is not enabled is passed over.
TaskBegins ==
  /\ at = "listed" /\ ~stopped
  /\ IF given.enable THEN Goes("runs") /\ given' = [given EXCEPT !.running = TRUE, !.begun = given.set]
     ELSE Goes("runs") /\ UNCHANGED given
  /\ asked' = [asked EXCEPT !.p = IF asked.inside THEN @ ELSE Absent]

\* Popped from the list under the mutex, once no call is in the middle; a stop empties it.
TaskIsOver == (at = "runs" \/ (at = "listed" /\ stopped)) /\ ~asked.inside /\ Goes("succeeded") /\ UNCHANGED <<given, asked>>

ParamsNext == AppendTask \/ SetTaskParams \/ ParamsAreSet \/ TaskBegins \/ TaskIsOver
-----------------------------------------------------------------------------
\* Of the record of a task: what is decided by what its subtasks are
WayOf(kind, c) ==
  CASE kind = "Fight" -> <<c.way, c.nav, c.stage>>
    [] kind \in {"Infrast", "SingleStep"} -> c.subs
    [] kind \in {"Copilot", "SSSCopilot"} -> <<c.data, c.rounds, c.formation>>
    [] kind = "Mall" -> c.credit
    [] OTHER -> 0

\* A task that waits is as its last accepted params alone would have made it, whatever
\* was accepted or refused before and as far as all keys are given; only the limits of
\* an expedition, the plans of facilities, the rounds and the single steps add up.
ParamsAreLast ==
  LET fresh == SetParams(given.kind, NewTask(given.kind), asked.p, FALSE).task
      whole == \A k \in DOMAIN asked.p : asked.p[k] # Absent
  IN  task = "params" /\ at = "listed" /\ asked.ok /\ ~asked.inside /\ whole =>
        CASE given.kind = "Infrast" -> given.set.subs = fresh.subs
          [] given.kind = "Fight" -> \A k \in DOMAIN fresh : k # "stage" \/ given.set.nav => given.set[k] = fresh[k]
          [] given.kind = "Mall" -> \A k \in DOMAIN fresh : k # "black" \/ given.set.shop => given.set[k] = fresh[k]
          [] given.kind \in {"Copilot", "SSSCopilot", "Roguelike", "SingleStep"} -> TRUE
          [] OTHER -> given.set = fresh

\* A task that runs keeps the subtasks it has begun with, unless a call looked whether it
\* runs before it began and is carried out after.
RunningKeepsWay ==
  task = "params" /\ given.running /\ ~asked.late /\ given.kind # "SingleStep" => WayOf(given.kind, given.set) = WayOf(given.kind, given.begun)
=============================================================================
