-------------------------------- MODULE Tasks --------------------------------
(***************************************************************************)
(* The worker thread runs one task, whichever it is, and the client may    *)
(* stop it at any moment.  Each kind of task is a module of its own; here  *)
(* they are put under the same worker, and what holds for all of them is   *)
(* stated once.                                                            *)
(***************************************************************************)
EXTENDS AutoRecruit, InfrastShift, InfrastDorm, BattleProcess, RoguelikeBattle, RoguelikeRecruit, RoguelikeRun, BattleFormation,
        DropReports, TaskParams, Reclamation, InfrastStaff, InfrastReception, SSSStages, Mall, Depot

CONSTANT Idle   \* the state of a task that does not run

Kinds == {"recruit", "infrast", "dorm", "copilot", "roguelike", "formation", "allocate", "hire", "explore", "drops",
          "params", "reclaim", "staff", "reception", "climb", "mall", "depot"}

Own == <<recruit, hall, plan, shift, house, dorm, rooms, combat, rogue, form, squad, alloc, hire, list, trip, quest,
         drops, sender, server, given, asked, reclaim, camp, staff, desk, visit, board, climb, tower, mall, store, depot, chest>>

vars == <<worker, Own, battle>>

Fights == task \in {"copilot", "roguelike"}

Init ==
  /\ \E t \in Kinds : WorkerInit(t)
  /\ IF task = "recruit" THEN RecruitInit ELSE recruit = Idle /\ hall = Idle
  /\ IF task = "infrast" THEN InfrastInit ELSE plan = Idle /\ shift = Idle /\ house = Idle
  /\ IF task = "dorm" THEN DormInit ELSE dorm = Idle /\ rooms = Idle
  /\ IF task = "copilot" THEN CombatInit ELSE combat = Idle
  /\ IF task = "roguelike" THEN RogueInit ELSE rogue = Idle
  /\ IF Fights THEN TRUE ELSE field = Idle /\ war = Idle
  /\ IF task = "formation" THEN FormInit ELSE form = Idle /\ squad = Idle
  /\ IF task = "allocate" THEN AllocInit ELSE alloc = Idle
  /\ IF task = "hire" THEN HireInit ELSE hire = Idle /\ list = Idle
  /\ IF task = "explore" THEN TripInit ELSE trip = Idle /\ quest = Idle
  /\ IF task = "drops" THEN DropInit ELSE drops = Idle /\ sender = Idle /\ server = Idle
  /\ IF task = "params" THEN ParamsInit ELSE given = Idle /\ asked = Idle
  /\ IF task = "reclaim" THEN ReclaimInit ELSE reclaim = Idle /\ camp = Idle
  /\ IF task = "staff" THEN StaffInit ELSE staff = Idle /\ desk = Idle
  /\ IF task = "reception" THEN ReceptionInit ELSE visit = Idle /\ board = Idle
  /\ IF task = "climb" THEN ClimbInit ELSE climb = Idle /\ tower = Idle
  /\ IF task = "mall" THEN MallInit ELSE mall = Idle /\ store = Idle
  /\ IF task = "depot" THEN DepotInit ELSE depot = Idle /\ chest = Idle

\* The others stay as they are.
Only(t) ==
  /\ task = t
  /\ t # "recruit" => UNCHANGED <<recruit, hall>>
  /\ t # "infrast" => UNCHANGED <<plan, shift, house>>
  /\ t # "dorm" => UNCHANGED <<dorm, rooms>>
  /\ t # "copilot" => UNCHANGED combat
  /\ t # "roguelike" => UNCHANGED rogue
  /\ t \notin {"copilot", "roguelike"} => UNCHANGED battle
  /\ t # "formation" => UNCHANGED <<form, squad>>
  /\ t # "allocate" => UNCHANGED alloc
  /\ t # "hire" => UNCHANGED <<hire, list>>
  /\ t # "explore" => UNCHANGED <<trip, quest>>
  /\ t # "drops" => UNCHANGED <<drops, sender, server>>
  /\ t # "params" => UNCHANGED <<given, asked>>
  /\ t # "reclaim" => UNCHANGED <<reclaim, camp>>
  /\ t # "staff" => UNCHANGED <<staff, desk>>
  /\ t # "reception" => UNCHANGED <<visit, board>>
  /\ t # "climb" => UNCHANGED <<climb, tower>>
  /\ t # "mall" => UNCHANGED <<mall, store>>
  /\ t # "depot" => UNCHANGED <<depot, chest>>

Running == at \notin Over

Next ==
  \/ Running /\ Only("recruit") /\ RecruitNext
  \/ Running /\ Only("infrast") /\ InfrastNext
  \/ Running /\ Only("dorm") /\ DormNext
  \/ Running /\ Only("copilot") /\ CombatNext
  \/ Running /\ Only("roguelike") /\ RogueNext
  \/ Running /\ Only("formation") /\ FormNext
  \/ Running /\ Only("allocate") /\ AllocNext
  \/ Running /\ Only("hire") /\ HireNext
  \/ Running /\ Only("explore") /\ TripNext
  \/ Running /\ Only("drops") /\ DropNext
  \/ Running /\ Only("params") /\ ParamsNext
  \/ Running /\ Only("reclaim") /\ ReclaimNext
  \/ Running /\ Only("staff") /\ StaffNext
  \/ Running /\ Only("reception") /\ ReceptionNext
  \/ Running /\ Only("climb") /\ ClimbNext
  \/ Running /\ Only("mall") /\ MallNext
  \/ Running /\ Only("depot") /\ DepotNext
  \/ StopWorker /\ UNCHANGED <<Own, battle>>

\* A battle starts and ends; the clock runs in the one without a plan, too.
TimePasses ==
  \/ Running /\ Only("copilot") /\ GameGoesOn(at \notin {"run", "begin"}) /\ UNCHANGED combat
  \/ Running /\ Only("roguelike") /\ GameGoesOn(at \notin {"run", "first"}) /\ UNCHANGED rogue

\* The worker goes on with its code, and does not turn in a loop that waits for
\* something that is there already.
Progress ==
  \/ Running /\ Only("recruit") /\ RecruitWorks
  \/ Running /\ Only("infrast") /\ InfrastNext
  \/ Running /\ Only("dorm") /\ DormNext
  \/ Running /\ Only("copilot") /\ CombatTask /\ ~WaitOn
  \/ Running /\ Only("roguelike") /\ RogueTask /\ ~OnceWaits
  \/ Running /\ Only("formation") /\ FormNext
  \/ Running /\ Only("allocate") /\ AllocNext
  \/ Running /\ Only("hire") /\ HireNext
  \/ Running /\ Only("explore") /\ TripWorks
  \/ Running /\ Only("drops") /\ DropNext
  \/ Running /\ Only("params") /\ ParamsNext
  \/ Running /\ Only("reclaim") /\ ReclaimNext
  \/ Running /\ Only("staff") /\ StaffNext
  \/ Running /\ Only("reception") /\ ReceptionNext
  \/ Running /\ Only("climb") /\ ClimbNext
  \/ Running /\ Only("mall") /\ MallNext
  \/ Running /\ Only("depot") /\ DepotNext

Fairness ==
  /\ WF_vars(Progress)
  /\ WF_vars(TimePasses)
  /\ WF_vars(Only("roguelike") /\ RogueTimeout)
  /\ WF_vars(Only("roguelike") /\ RogueAbandons)

Spec == Init /\ [][Next]_vars /\ Fairness
-----------------------------------------------------------------------------
\* What a battle's code takes for the field is there, and no home stays blocked by
\* somebody who is gone (see BattleHelper and RoguelikeBattle).
BattlesAreKnown == FieldIsKnown /\ NoHomeForgotten

\* The squad that is confirmed has one of each group, the groups are given distinct
\* operators whenever that is possible, and of a list that is looked through page by page
\* the best is hired (see BattleFormation and RoguelikeRecruit).
SquadsAreAsked == OneOfEachGroup /\ AllocationIsExact /\ RogueHiresBest

\* The rooms of the base hold those whom the plan, their mood or what was worked out for
\* the room puts there, the reception room the clues it has, and a level of a skill is told
\* from the lower ones (see InfrastShift, InfrastDorm, InfrastReception and InfrastStaff).
InfrastIsManned == PlanIsFollowed /\ DormsAreFilled /\ CluesArePlaced /\ StaffIsSelected /\ LevelsAreTold

\* What is worked out for a room is the best of those who are there (see InfrastStaff).
BestIsTaken == RoomsGetTheBest

\* What is kept in a record is what has happened: the drops that are reported, the gold
\* and the badges of the Reclamation Algorithm, the expeditions, investments and members
\* of Integrated Strategies, how often a stage was tried and with which recruits, and what
\* the depot holds (see DropReports, Reclamation, RoguelikeRun, SSSStages and Depot).
RecordsAreTrue == DropsAreReported /\ ReclamationIsTrue /\ ExpeditionIsOwn /\ StagesAreTried /\ DepotIsReported

\* The last params that were accepted are those of the task, one that runs keeps the way
\* it has begun with, and the credit is spent as they say (see TaskParams and Mall).
ParamsAreMeant == ParamsAreLast /\ RunningKeepsWay /\ CreditsAreSpentAsAsked

\* Whatever the game shows, a task whose loops are bounded by counters, by what is
\* left to do or by the clock comes to an end by itself, through all its retries; a
\* recruitment need not whose times are set below what it has counted.
TaskReturns ==
  []<>(task \in {"dorm", "formation", "reclaim", "staff", "climb"} \/ (task = "recruit" /\ hall.overtaken) \/ at \in Over)

\* A stop ends every task, those with unbounded loops over pages too; the one loop that
\* looks at no stop is that over a name that cannot be read.
StopEndsTask == []<>(~stopped \/ at \in Over \/ Hangs)
=============================================================================
