----------------------------- MODULE TasksProofs -----------------------------
(***************************************************************************)
(* What is proved of the tasks under the worker (see Tasks), for every     *)
(* value of their constants: that a battle's notes are true, that params   *)
(* decide, those of the credit store too, that rooms are manned, and that  *)
(* no more is recruited than was asked for; squads and records are in      *)
(* RecordsProofs.  Since the task under the worker stays (TaskKept), each  *)
(* of the invariants is one of the actions of one task, and of a stop.     *)
(* Where something is said of all pages or numbers, the least that would   *)
(* contradict it is looked at (LeastOf).                                   *)
(***************************************************************************)
EXTENDS Tasks, FiniteSetTheorems, NaturalsInduction, WellFoundedInduction, SequenceTheorems, TLAPS

\* None of the actions of a task puts another one under the worker: first the recruitment,
LEMMA RecruitKeepsTask == RecruitNext => task' = task
BY Zenon DEF RecruitNext, RecruitWorks, SetRecruit, RecruitBegin, LeaveSlots, NoStartButton, Misread, SeesStop, OpenSlot, Refresh, RefreshRefused, Calculated, LeaveSlot,
   Confirm, ConfirmFails, SpeedUp, HireAgain, NoSpeedUp, CalcFails, SlotDone, RunFails, Goes, Stays, worker

\* then the shift of a facility,
LEMMA InfrastKeepsTask == InfrastNext => task' = task
BY Zenon DEF InfrastNext, EnterFacility, NextTab, OpenRoom, EnterOperators, SelectCustom, SelectBest, SelectStops, SelectGivesUp,
   ConfirmRoom, LeaveRoom, NextRoom, InfrastFails, TryAgain, RunFails, Goes, Stays, worker

\* the dormitories,
LEMMA DormKeepsTask == DormNext => task' = task
BY Zenon DEF DormNext, EnterDorm, SelectNames, ReadPage, PageEnds, ReviewDorm, ConfirmDorm, FillWith, RestInDorm, SeeRested, ReadTrust,
   DormFails, RunFails, Goes, Stays, worker

\* the battles, with a plan and without,
LEMMA BattleKeepsTask == CombatNext \/ RogueNext => task' = task
BY Zenon DEF CombatNext, CombatTask, BattleBegins, FirstLook, PlanEnds, NextAction, WaitOn, WaitFails, WaitDone, StrategyCore, StrategyMan,
   ActDeploy, ActRetreat, ActUseSkill, ActBulletTime, ActMoveCamera, WaitForEnd, ActOther, Acted, GameNext,
   RogueNext, RogueTask, RogueBegins, RogueFirstLook, RogueEnds, OnceFails, OnceWaits, OnceIsFull, OnceDeploys, RogueTimeout,
   RogueAbandons, RunFails, Goes, Stays, worker

\* the squads,
LEMMA FormKeepsTask == FormNext \/ AllocNext => task' = task
BY Zenon DEF FormNext, FormBegins, ConfirmSquad, PickOper, AllocNext, Dance, DeadEnd, Covered, RunFails, Goes, Stays, worker

\* a hire of the expedition,
LEMMA HireKeepsTask == HireNext => task' = task
BY Zenon DEF HireNext, HireBegins, OpenSupport, FriendFound, FriendMissing, ToFirstPage, SeeStopInList, ReadNothing, ReadEnough, RecruitRandom,
   ReadLastPage, ReadPageAndSwipe, HireFound, NotOnThisPage, Choose, NotFound, Listed, RunFails, Goes, Stays, worker

\* the expedition itself,
LEMMA TripKeepsTask == TripNext => task' = task
BY Zenon DEF TripNext, TripWorks, SetTrip, GivesUp, InvestCancel, NextRun, GraphEnds, StartExplore, ContinueExplore, HijackCoreChar, RecruitOne, EnterNode, SelectSkills, FightBattle,
   Invest, InvestNoMore, Buy, BoughtOrNot, LeaveShop, LimitReached, EndsRun, RunFails, Goes, Stays, worker

\* the reports of drops,
LEMMA DropKeepsTask == DropNext => task' = task
BY Zenon DEF DropNext, StartBattle, EndFight, EndOfAction, NextBattle, ReadFails, ReadDrops, SetBody, SetExtraParam, RunReport, CloseReports,
   Sends, AddKey, Answered, NotAnswered, Refused, RunFails, Goes, Stays, worker

\* the params,
LEMMA ParamsKeepsTask == ParamsNext => task' = task
BY Zenon DEF ParamsNext, AppendTask, SetTaskParams, ParamsAreSet, TaskBegins, TaskIsOver, RunFails, Goes, Stays, worker

\* the Reclamation Algorithm,
LEMMA ReclaimKeepsTask == ReclaimNext => task' = task
BY Zenon DEF ReclaimNext, NextRound, NavigateHome, GiveUpLast, StartAlgorithm, WaitBetweenDay, SkipReport, CampDay, EnterBattle, ToMarket,
   MapBegins, TalkTo, ClickOption, OptionMissing, SkipDialogue, DialogueStopped, DialogueOver, Quit, LevelComplete, NextDay,
   CommandCenter, ForgePage, ForgeGold, ToBack, RoundEnds, MustDo, MayDo, Dialogue, NoDialogue, QuitFails, RunFails, Goes, Stays, worker

\* the choice of the best for a room,
LEMMA StaffKeepsTask == StaffNext => task' = task
BY Zenon DEF StaffNext, EnterProduction, EnterPower, EnterControl, EnterOffice, ClearStaff, DetectStaff, DetectFails, OptimalCalc, LookAtPage,
   PickForComb, PageDone, ReviewStaff, ConfirmStaff, EntersOr, StaffFails, ChooseFails, RunFails, Goes, Stays, worker

\* the reception room,
LEMMA ReceptionKeepsTask == ReceptionNext => task' = task
BY Zenon DEF ReceptionNext, EnterReception, PlaceClue, UnlockClueExchange, SetClueProduct, GetClue, SendClue, ClueGot, ShiftReception,
   ReceptionFails, RunFails, Goes, Stays, worker

\* the stages of the Stationary Security Service,
LEMMA ClimbKeepsTask == ClimbNext => task' = task
BY Zenon DEF ClimbNext, ClimbBegins, ClimbStopped, ConfirmBattleComplete, AnalyzeStage, StageMissed, Settle, OfferDrops, DropRewards, ClickStart,
   DrawCard, CheckAndGetDrops, CheckIfStartOver, FightStage, Misses, EndBattle, InFight, RunFails, Goes, Stays, worker

\* the credit store,
LEMMA MallKeepsTask == MallNext => task' = task
BY Zenon DEF MallNext, Visit, CreditFight, ToMall, NextPass, SkipPass, CreditShopping, BuyIt, NoMoney, CreditOcr, PassOver, PassFails, Shop,
   RunFails, Goes, Stays, worker

\* and the depot.
LEMMA DepotKeepsTask == DepotNext => task' = task
BY Zenon DEF DepotNext, EnterDepot, TakePicture, Swipe, AnalyzePage, NextPage, DepotDone, RunFails, Goes, Stays, worker

\* The worker has one task for as long as a behaviour lasts; the invariants below say of each
\* what holds while it is the one.
LEMMA TaskKept == [Next]_vars => task' = task
<1>1. Next => task' = task
  BY Zenon, RecruitKeepsTask, InfrastKeepsTask, DormKeepsTask, BattleKeepsTask, FormKeepsTask, HireKeepsTask, TripKeepsTask, DropKeepsTask,
     ParamsKeepsTask, ReclaimKeepsTask, StaffKeepsTask, ReceptionKeepsTask, ClimbKeepsTask, MallKeepsTask, DepotKeepsTask
  DEF Next, StopWorker
<1> QED
  BY Zenon, <1>1 DEF vars, worker

\* A set of numbers that is not empty has a least one.
LEMMA LeastOf ==
  ASSUME NEW S \in SUBSET Nat, S # {}
  PROVE  Min(S) \in S /\ \A i \in S : Min(S) <= i
<1> DEFINE Less == {ss \in Nat \X Nat : ss[1] < ss[2]}
<1>1. IsWellFoundedOn(Less, Nat)
  BY NatLessThanWellFounded DEF OpToRel
<1>2. PICK i \in S : \A j \in S : <<j, i>> \notin Less
  BY <1>1, WFMin
<1>3. ASSUME NEW j \in S PROVE i <= j
  <2>1. i \in Nat /\ j \in Nat
    OBVIOUS
  <2>2. ~(j < i)
    BY <1>2, <2>1
  <2> HIDE DEF Less
  <2> QED
    BY <2>1, <2>2
<1> QED
  BY <1>3 DEF Min
-----------------------------------------------------------------------------

\* A set of numbers up to n that is not empty has a greatest one.
LEMMA GreatestOf ==
  ASSUME NEW n \in Nat, NEW S \in SUBSET (0..n), S # {}
  PROVE  Max(S) \in S /\ \A i \in S : i <= Max(S)
<1> DEFINE T == {n - i : i \in S}
<1>1. T \in SUBSET Nat /\ T # {}
  <2>1. \A i \in S : i \in Nat /\ i <= n
    OBVIOUS
  <2>2. \A i \in S : n - i \in Nat
    BY <2>1
  <2> QED
    BY <2>2
<1>2. PICK t \in T : \A u \in T : t <= u
  <2> HIDE DEF T
  <2> QED
    BY <1>1, LeastOf
<1>3. PICK i \in S : t = n - i
  BY <1>2
<1>4. \A j \in S : j <= i
  BY <1>2, <1>3
<1> QED
  BY <1>4 DEF Max

-----------------------------------------------------------------------------
OfField == {"inBattle", "deck", "opers", "used"}
OfWar == {"phase", "stands", "cooling", "doubt"}

FieldTypeOK(f) ==
  /\ DOMAIN f = OfField
  /\ f.deck \in [Oper -> {"absent", "ready", "cooling"}]
  /\ f.opers \in [Oper -> Tile \cup {Nowhere}]
  /\ f.used \in [Tile -> Oper \cup {Nobody}]

WarTypeOK ==
  /\ DOMAIN war = OfWar
  /\ war.stands \in [Oper -> Tile \cup {Nowhere}]
  /\ war.cooling \in SUBSET Oper /\ war.doubt \in SUBSET Oper

\* Whoever stands on the field does not cool down; before the battle nobody does either.
StandsOrCools ==
  /\ \A o \in Oper : Stands(o) => o \notin war.cooling
  /\ at = "run" => war.cooling = {} /\ \A o \in Oper : ~Stands(o)

\* Of everybody whose history is known there is a note if he stands somewhere, and none
\* if he is back, or was seen cooling down.
NotesAreTrue(f) ==
  \A o \in Oper \ war.doubt :
    /\ Stands(o) => f.opers[o] = war.stands[o] /\ f.deck[o] # "cooling"
    /\ ~Stands(o) /\ (o \in war.cooling => f.deck[o] = "cooling") => f.opers[o] = Nowhere

BattleInv == FieldTypeOK(field) /\ WarTypeOK /\ StandsOrCools /\ NotesAreTrue(field)

\* A battle that was not begun.
LEMMA FieldStarts ==
  ASSUME FieldInit PROVE BattleInv
<1>1. /\ DOMAIN war = OfWar /\ war.cooling = {} /\ war.doubt = {} /\ war.stands = [o \in Oper |-> Nowhere]
  BY DEF FieldInit, OfWar
<1>2. WarTypeOK /\ \A o \in Oper : ~Stands(o)
  BY <1>1 DEF WarTypeOK, Stands
<1>3. FieldTypeOK(field) /\ \A o \in Oper : field.opers[o] = Nowhere
  BY DEF FieldInit, Cleared0, FieldTypeOK, OfField
<1> QED
  BY <1>1, <1>2, <1>3 DEF BattleInv, StandsOrCools, NotesAreTrue

\* The notes that are thrown away at the beginning
LEMMA ClearedNotes ==
  /\ FieldTypeOK(Cleared0)
  /\ \A o \in Oper : Cleared0.opers[o] = Nowhere
  /\ \A t \in Tile : Cleared0.used[t] = Nobody
BY DEF Cleared0, FieldTypeOK, OfField

\* What a look at the list leaves of the notes.
LEMMA NotesAfterLook ==
  ASSUME BattleInv
  PROVE  /\ FieldTypeOK(WithoutCooling) /\ NotesAreTrue(WithoutCooling)
         /\ \A o \in Oper : WithoutCooling.deck[o] = Reading[o]
         /\ \A o \in Oper : WithoutCooling.opers[o] = IF o \in war.cooling THEN Nowhere ELSE field.opers[o]
         /\ \A t \in Tile : WithoutCooling.used[t] =
              IF \E o \in war.cooling : field.opers[o] # Nowhere /\ field.opers[o] = t THEN Nobody ELSE field.used[t]
<1> DEFINE gone == {o \in war.cooling : field.opers[o] # Nowhere}
<1>1. /\ DOMAIN WithoutCooling = OfField
      /\ WithoutCooling.deck = Reading
      /\ WithoutCooling.opers = [o \in Oper |-> IF o \in gone THEN Nowhere ELSE field.opers[o]]
      /\ WithoutCooling.used = [t \in Tile |-> IF \E o \in gone : field.opers[o] = t THEN Nobody ELSE field.used[t]]
  BY DEF WithoutCooling, BattleInv, FieldTypeOK, OfField
<1>2. Reading \in [Oper -> {"absent", "ready", "cooling"}]
  BY DEF Reading
<1>3. FieldTypeOK(WithoutCooling)
  BY <1>1, <1>2 DEF BattleInv, FieldTypeOK
<1>4. \A o \in Oper : WithoutCooling.deck[o] = Reading[o]
  BY <1>1
<1>5. \A o \in Oper : WithoutCooling.opers[o] = IF o \in war.cooling THEN Nowhere ELSE field.opers[o]
  BY <1>1
<1>6. \A t \in Tile : WithoutCooling.used[t] =
        IF \E o \in war.cooling : field.opers[o] # Nowhere /\ field.opers[o] = t THEN Nobody ELSE field.used[t]
  BY <1>1
<1>7. NotesAreTrue(WithoutCooling)
  <2> SUFFICES ASSUME NEW o \in Oper \ war.doubt
               PROVE  /\ Stands(o) => WithoutCooling.opers[o] = war.stands[o] /\ WithoutCooling.deck[o] # "cooling"
                      /\ ~Stands(o) /\ (o \in war.cooling => WithoutCooling.deck[o] = "cooling") => WithoutCooling.opers[o] = Nowhere
    BY DEF NotesAreTrue
  <2>1. ASSUME Stands(o) PROVE WithoutCooling.opers[o] = war.stands[o] /\ WithoutCooling.deck[o] # "cooling"
    BY <1>4, <1>5, <2>1 DEF BattleInv, StandsOrCools, NotesAreTrue, Reading
  <2>2. ASSUME ~Stands(o) PROVE WithoutCooling.opers[o] = Nowhere
    BY <1>5, <2>2 DEF BattleInv, NotesAreTrue
  <2> QED
    BY <2>1, <2>2
<1> QED
  BY <1>3, <1>4, <1>5, <1>6, <1>7

\* What is believed of the battle is not a note.
LEMMA BeliefIsNoNote ==
  ASSUME NEW f, NEW b, FieldTypeOK(f)
  PROVE  /\ FieldTypeOK([f EXCEPT !.inBattle = b])
         /\ [f EXCEPT !.inBattle = b].opers = f.opers /\ [f EXCEPT !.inBattle = b].deck = f.deck /\ [f EXCEPT !.inBattle = b].used = f.used
         /\ NotesAreTrue(f) => NotesAreTrue([f EXCEPT !.inBattle = b])
BY DEF FieldTypeOK, OfField, NotesAreTrue

\* A look leaves the notes as they are, or as the list corrects them.
LEMMA LookKeeps ==
  ASSUME BattleInv, NEW in, UpdateDeployment(in), at' # "run"
  PROVE  BattleInv' /\ war' = war
         /\ \/ field'.opers = field.opers /\ field'.deck = field.deck /\ field'.used = field.used
            \/ field'.opers = WithoutCooling.opers /\ field'.deck = WithoutCooling.deck /\ field'.used = WithoutCooling.used
<1>1. war' = war /\ \/ \E b : field' = [field EXCEPT !.inBattle = b]
                    \/ field' = [WithoutCooling EXCEPT !.inBattle = in]
  BY DEF UpdateDeployment
<1>2. /\ FieldTypeOK(field')
      /\ \/ field'.opers = field.opers /\ field'.deck = field.deck /\ field'.used = field.used
         \/ field'.opers = WithoutCooling.opers /\ field'.deck = WithoutCooling.deck /\ field'.used = WithoutCooling.used
      /\ NotesAreTrue(field')
  <2>1. CASE \E b : field' = [field EXCEPT !.inBattle = b]
    <3>1. PICK b : field' = [field EXCEPT !.inBattle = b]
      BY <2>1
    <3> QED
      BY <3>1, BeliefIsNoNote DEF BattleInv
  <2>2. CASE field' = [WithoutCooling EXCEPT !.inBattle = in]
    <3>1. FieldTypeOK(WithoutCooling) /\ NotesAreTrue(WithoutCooling)
      BY NotesAfterLook
    <3> HIDE DEF WithoutCooling
    <3> QED
      BY <2>2, <3>1, BeliefIsNoNote
  <2> QED
    BY <1>1, <2>1, <2>2
<1> QED
  BY <1>1, <1>2 DEF BattleInv, WarTypeOK, StandsOrCools, Stands, FieldTypeOK, NotesAreTrue

\* The notes may change but for the belief; nobody leaves or comes.
LEMMA SameNotesKept ==
  ASSUME BattleInv, NEW b, field' = [field EXCEPT !.inBattle = b] \/ field' = field, war' = war, at' # "run" \/ at = "run"
  PROVE  BattleInv'
<1>1. FieldTypeOK(field') /\ NotesAreTrue(field')
  BY BeliefIsNoNote DEF BattleInv
<1> QED
  BY <1>1 DEF BattleInv, WarTypeOK, StandsOrCools, Stands, FieldTypeOK, NotesAreTrue

\* A deployment is noted, and if the game took it for somebody the list had as cooling
\* down, or lost it, he is in doubt.
LEMMA DeployKeeps ==
  ASSUME NEW f, FieldTypeOK(f), NotesAreTrue(f), WarTypeOK, StandsOrCools, NEW o \in Oper, NEW t \in Tile,
         DeployOper(f, o, t), at # "run", at' # "run"
  PROVE  BattleInv'
<1>1. /\ DOMAIN field' = OfField /\ field'.deck = f.deck
      /\ field'.opers = [f.opers EXCEPT ![o] = IF @ = Nowhere THEN t ELSE @]
      /\ field'.used = [f.used EXCEPT ![t] = IF @ = Nobody THEN o ELSE @]
  BY DEF DeployOper, FieldTypeOK, OfField
<1>2. \/ /\ DOMAIN war' = OfWar /\ war'.stands = war.stands /\ war'.cooling = war.cooling
         /\ war'.doubt = war.doubt \cup {o}
      \/ /\ DOMAIN war' = OfWar /\ ~Stands(o) /\ o \notin war.cooling /\ war'.cooling = war.cooling
         /\ war'.stands = [war.stands EXCEPT ![o] = t]
         /\ war'.doubt = IF f.deck[o] = "cooling" THEN war.doubt \cup {o} ELSE war.doubt
  BY DEF DeployOper, WarTypeOK, OfWar
<1>3. FieldTypeOK(field')
  BY <1>1 DEF FieldTypeOK
<1>4. WarTypeOK'
  BY <1>2 DEF WarTypeOK
<1>5. StandsOrCools'
  BY <1>2 DEF StandsOrCools, Stands, WarTypeOK
<1>6. NotesAreTrue(field)'
  BY <1>1, <1>2 DEF NotesAreTrue, Stands, WarTypeOK, FieldTypeOK
<1> QED
  BY <1>3, <1>4, <1>5, <1>6 DEF BattleInv, FieldTypeOK

\* Of those who stand, os are sent away, or nothing happens; the notes of others who
\* stand stay, and no note is new.
LEMMA LeavesKeeps ==
  ASSUME BattleInv, NEW os \in SUBSET Oper, Leaves(os), at # "run", at' # "run",
         \A o \in os : Stands(o), FieldTypeOK(field'), field'.deck = field.deck,
         \A o \in Oper : field'.opers[o] = field.opers[o] \/ field'.opers[o] = Nowhere,
         \A o \in Oper \ (os \cup war.doubt) : Stands(o) => field'.opers[o] = field.opers[o]
  PROVE  BattleInv'
<1>1. \/ /\ DOMAIN war' = OfWar /\ war'.stands = war.stands /\ war'.cooling = war.cooling
         /\ war'.doubt = war.doubt \cup os
      \/ /\ DOMAIN war' = OfWar /\ war'.cooling = war.cooling \cup os /\ war'.doubt = war.doubt
         /\ war'.stands = [o \in Oper |-> IF o \in os THEN Nowhere ELSE war.stands[o]]
  BY DEF Leaves, BattleInv, WarTypeOK, OfWar
<1>2. WarTypeOK'
  BY <1>1 DEF BattleInv, WarTypeOK
<1>3. StandsOrCools'
  BY <1>1 DEF BattleInv, StandsOrCools, Stands, WarTypeOK
<1>4. NotesAreTrue(field)'
  BY <1>1 DEF BattleInv, NotesAreTrue, StandsOrCools, Stands, WarTypeOK
<1> QED
  BY <1>2, <1>3, <1>4 DEF BattleInv, FieldTypeOK

\* What the enemy and the clock do.
LEMMA GameKeeps ==
  ASSUME BattleInv, NEW seen, GameNext(seen)
  PROVE  BattleInv'
<1>1. field' = field /\ at' = at
  BY DEF GameNext, worker
<1>2. CASE BattleStarts \/ BattleEnds(seen)
  <2>1. /\ DOMAIN war' = OfWar /\ war'.stands = war.stands /\ war'.cooling = war.cooling /\ war'.doubt = war.doubt
    BY <1>2 DEF BattleStarts, BattleEnds, BattleInv, WarTypeOK, OfWar
  <2> QED
    BY <1>1, <2>1 DEF BattleInv, WarTypeOK, StandsOrCools, Stands, FieldTypeOK, NotesAreTrue
<1>3. ASSUME NEW o \in Oper, Falls(o) PROVE BattleInv'
  <2>1. /\ DOMAIN war' = OfWar /\ war'.stands = [war.stands EXCEPT ![o] = Nowhere] /\ war'.cooling = war.cooling \cup {o}
        /\ war'.doubt = war.doubt /\ Stands(o)
    BY <1>3 DEF Falls, BattleInv, WarTypeOK, OfWar
  <2>2. WarTypeOK'
    BY <2>1 DEF BattleInv, WarTypeOK
  <2>3. StandsOrCools'
    BY <1>1, <2>1 DEF BattleInv, WarTypeOK, StandsOrCools, Stands
  <2>4. NotesAreTrue(field)'
    BY <1>1, <2>1 DEF BattleInv, WarTypeOK, StandsOrCools, Stands, NotesAreTrue
  <2> QED
    BY <1>1, <2>2, <2>3, <2>4 DEF BattleInv, FieldTypeOK
<1>4. ASSUME NEW o \in Oper, CoolingEnds(o) PROVE BattleInv'
  <2>1. /\ DOMAIN war' = OfWar /\ war'.stands = war.stands /\ war'.cooling = war.cooling \ {o} /\ o \in war.cooling
        /\ war'.doubt = IF field.deck[o] # "cooling" THEN war.doubt \cup {o} ELSE war.doubt
    BY <1>4 DEF CoolingEnds, BattleInv, WarTypeOK, OfWar
  <2>2. WarTypeOK'
    BY <2>1 DEF BattleInv, WarTypeOK
  <2>3. StandsOrCools'
    BY <1>1, <2>1 DEF BattleInv, WarTypeOK, StandsOrCools, Stands
  <2>4. NotesAreTrue(field)'
    BY <1>1, <2>1 DEF BattleInv, WarTypeOK, StandsOrCools, Stands, NotesAreTrue
  <2> QED
    BY <1>1, <2>2, <2>3, <2>4 DEF BattleInv, FieldTypeOK
<1> QED
  BY <1>2, <1>3, <1>4 DEF GameNext

\* Before the battle there is nobody on the field: the notes are thrown away, or nothing
\* happens.
LEMMA BeginKeeps ==
  ASSUME BattleInv, at = "run", war' = war, field' = field \/ field' = Cleared0
  PROVE  BattleInv'
<1>1. FieldTypeOK(field') /\ NotesAreTrue(field')
  BY ClearedNotes DEF BattleInv, NotesAreTrue, StandsOrCools
<1> QED
  BY <1>1 DEF BattleInv, WarTypeOK, StandsOrCools, Stands, FieldTypeOK, NotesAreTrue
-----------------------------------------------------------------------------
OfCombat == {"left", "action", "bullet", "sss", "core", "men", "tile"}

CombatTypeOK ==
  /\ DOMAIN combat = OfCombat
  /\ combat.action \in Acting \cup {NoAction} /\ combat.core \in Oper \cup {Nobody} /\ combat.tile \in Tile

CombatInv == BattleInv /\ CombatTypeOK

\* A battle with a plan starts with true notes.
LEMMA CombatStarts == ASSUME CombatInit PROVE CombatInv
<1>1. /\ FieldInit
      /\ combat \in [left : {MaxActions}, action : {NoAction}, bullet : {FALSE}, sss : BOOLEAN,
                     core : Oper \cup {Nobody}, men : 0..ToolMen, tile : Tile]
  BY DEF CombatInit
<1>2. CombatTypeOK
  BY <1>1 DEF CombatTypeOK, OfCombat
<1> QED
  BY <1>1, <1>2, FieldStarts DEF CombatInv

\* Only the action, the core and the counters of a plan change.
LEMMA PlanIsTyped == ASSUME CombatTypeOK, CombatNext PROVE CombatTypeOK'
<1> USE DEF CombatTypeOK, OfCombat
<1>1. CASE UNCHANGED combat
  BY <1>1
<1>2. ASSUME NEW a \in Acting, NextAction(a) PROVE CombatTypeOK'
  BY <1>2 DEF NextAction
<1>3. ASSUME NEW b, Acted(b) PROVE CombatTypeOK'
  BY <1>3 DEF Acted
<1>4. CASE StrategyCore
  BY <1>4 DEF StrategyCore
<1>5. ASSUME NEW o \in Oper, StrategyMan(o) PROVE CombatTypeOK'
  BY <1>5 DEF StrategyMan
<1> HIDE DEF CombatTypeOK
<1> QED
  BY Zenon, <1>1, <1>2, <1>3, <1>4, <1>5 DEF CombatNext, CombatTask, BattleBegins, FirstLook, PlanEnds, WaitOn, WaitFails, WaitDone,
     ActDeploy, ActRetreat, ActUseSkill, ActBulletTime, ActMoveCamera, WaitForEnd, ActOther

\* What an action of the plan names.
LEMMA ActingIsTyped ==
  ASSUME CombatTypeOK
  PROVE  /\ combat.action.type = "Deploy" => combat.action.oper \in Oper /\ combat.action.tile \in Tile
         /\ combat.action.type = "Retreat" => IF "oper" \in DOMAIN combat.action THEN combat.action.oper \in Oper
                                                                                ELSE combat.action.tile \in Tile
<1> DEFINE a == combat.action
<1>1. a \in Acting \cup {NoAction}
  BY DEF CombatTypeOK
<1> HIDE DEF a
<1>2. ASSUME a.type = "Deploy" PROVE a.oper \in Oper /\ a.tile \in Tile
  BY <1>1, <1>2 DEF Acting, NoAction
<1>3. ASSUME a.type = "Retreat" PROVE IF "oper" \in DOMAIN a THEN a.oper \in Oper ELSE a.tile \in Tile
  BY <1>1, <1>3 DEF Acting, NoAction
<1> QED
  BY <1>2, <1>3 DEF a

\* A retreat takes the operator off the field and off the notes alike, if both know the tile.
LEMMA RetreatKeeps == ASSUME CombatInv, ActRetreat PROVE BattleInv'
<1>1. at # "run" /\ at' # "run" /\ combat.action.type = "Retreat"
  BY DEF ActRetreat, Act, Acted, Goes
<1>2. CASE Same
  BY <1>1, <1>2, SameNotesKept DEF Same, battle, CombatInv
<1>3. ASSUME NEW o \in Oper, Leaves({o} \cap {p \in Oper : Stands(p)}), UNCHANGED field PROVE BattleInv'
  <2>1. PICK os : os = {o} \cap {p \in Oper : Stands(p)}
    OBVIOUS
  <2>2. os \in SUBSET Oper /\ \A p \in os : Stands(p)
    BY <2>1
  <2>3. Leaves(os) /\ FieldTypeOK(field')
    BY <1>3, <2>1 DEF CombatInv, BattleInv
  <2> QED
    BY <1>1, <1>3, <2>2, <2>3, LeavesKeeps DEF CombatInv
<1>4. ASSUME NEW o \in Oper, RetreatOper(o) PROVE BattleInv'
  <2>1. PICK t : t = field.opers[o]
    OBVIOUS
  <2>2. t \in Tile /\ Leaves(On(t)) /\ field' = [field EXCEPT !.opers[o] = Nowhere, !.used[t] = Nobody]
    BY <1>4, <2>1 DEF RetreatOper, CombatInv, BattleInv, FieldTypeOK
  <2>3. /\ DOMAIN field' = OfField /\ field'.deck = field.deck
        /\ field'.opers = [field.opers EXCEPT ![o] = Nowhere] /\ field'.used = [field.used EXCEPT ![t] = Nobody]
    BY <2>2 DEF CombatInv, BattleInv, FieldTypeOK, OfField
  <2>4. FieldTypeOK(field')
    BY <2>3 DEF CombatInv, BattleInv, FieldTypeOK
  <2>5. \A p \in Oper : field'.opers[p] = IF p = o THEN Nowhere ELSE field.opers[p]
    BY <2>3 DEF CombatInv, BattleInv, FieldTypeOK
  <2>6. \A p \in Oper \ (On(t) \cup war.doubt) : Stands(p) => p # o
    BY <2>1 DEF CombatInv, BattleInv, NotesAreTrue, On
  <2>7. On(t) \in SUBSET Oper /\ \A p \in On(t) : Stands(p)
    BY <2>2, BattleAssumption DEF On, Stands
  <2> QED
    BY <1>1, <2>2, <2>3, <2>4, <2>5, <2>6, <2>7, LeavesKeeps DEF CombatInv
<1>5. ASSUME NEW t \in Tile, RetreatFrom(t) PROVE BattleInv'
  <2>1. /\ DOMAIN field' = OfField /\ field'.deck = field.deck
        /\ field'.opers = [o \in Oper |-> IF field.opers[o] = t THEN Nowhere ELSE field.opers[o]]
        /\ field'.used = [field.used EXCEPT ![t] = Nobody]
    BY <1>5 DEF RetreatFrom, CombatInv, BattleInv, FieldTypeOK, OfField
  <2>2. FieldTypeOK(field') /\ Leaves(On(t))
    BY <1>5, <2>1 DEF CombatInv, BattleInv, FieldTypeOK, RetreatFrom
  <2>3. \A p \in Oper \ (On(t) \cup war.doubt) : Stands(p) => field.opers[p] # t
    BY DEF CombatInv, BattleInv, NotesAreTrue, On
  <2>4. On(t) \in SUBSET Oper /\ \A p \in On(t) : Stands(p)
    BY BattleAssumption DEF On, Stands
  <2> QED
    BY <1>1, <2>1, <2>2, <2>3, <2>4, LeavesKeeps DEF CombatInv
<1> QED
  BY <1>2, <1>3, <1>4, <1>5, ActingIsTyped, Zenon DEF ActRetreat, Act, CombatInv

\* All that happens in a battle with a plan leaves the notes true.
LEMMA CombatKeeps == ASSUME CombatInv, CombatNext PROVE CombatInv'
<1> USE DEF CombatInv
<1>1. CASE BattleBegins
  BY <1>1, BeginKeeps, PlanIsTyped DEF BattleBegins
<1>2. CASE at # "run" /\ at' # "run" /\ \E in \in BOOLEAN : UpdateDeployment(in)
  BY <1>2, LookKeeps, PlanIsTyped
<1>3. CASE at # "run" /\ war' = war /\ (field' = field \/ field' = [field EXCEPT !.inBattle = FALSE]) /\ at' # "run"
  BY <1>3, SameNotesKept, PlanIsTyped
<1>4. ASSUME NEW o \in Oper, at # "run", at' # "run", DeployOper(WithoutCooling, o, combat.tile) PROVE BattleInv'
  <2>1. FieldTypeOK(WithoutCooling) /\ NotesAreTrue(WithoutCooling)
    BY NotesAfterLook
  <2> HIDE DEF WithoutCooling
  <2> QED
    BY <1>4, <2>1, DeployKeeps DEF BattleInv, CombatTypeOK
<1>5. CASE ActDeploy
  <2>1. at # "run" /\ at' # "run" /\ combat.action.oper \in Oper /\ combat.action.tile \in Tile
    BY <1>5, ActingIsTyped DEF ActDeploy, Act, Acted, Goes
  <2>2. CASE Same
    BY <2>1, <2>2, SameNotesKept, PlanIsTyped DEF Same, battle
  <2>3. CASE DeployOper(field, combat.action.oper, combat.action.tile)
    BY <2>1, <2>3, DeployKeeps, PlanIsTyped DEF BattleInv
  <2> QED
    BY <1>5, <2>2, <2>3 DEF ActDeploy
<1>6. CASE ActRetreat
  BY <1>6, RetreatKeeps, PlanIsTyped
<1>7. ASSUME GameNext(at \notin {"run", "begin"}) PROVE CombatInv'
  BY <1>7, GameKeeps, PlanIsTyped
<1>8. CASE StrategyCore
  <2>1. combat.core \in Oper /\ at # "run" /\ at' # "run"
    BY <1>8 DEF StrategyCore, CombatTypeOK, Waits, Stays, worker
  <2> QED
    BY <1>4, <1>8, <2>1, PlanIsTyped DEF StrategyCore
<1>9. ASSUME NEW o \in Oper, StrategyMan(o) PROVE CombatInv'
  <2>1. at # "run" /\ at' # "run"
    BY <1>9 DEF StrategyMan, Waits, Stays, worker
  <2> QED
    BY <1>4, <1>9, <2>1, PlanIsTyped DEF StrategyMan
<1>10. CASE PlanEnds \/ (\E a \in Acting : NextAction(a)) \/ WaitDone \/ ActUseSkill \/ ActBulletTime \/ WaitForEnd \/ ActOther
  BY <1>3, <1>10 DEF PlanEnds, NextAction, WaitDone, ActUseSkill, ActBulletTime, WaitForEnd, ActOther, Same, SameGame, battle, Act, Acted,
     Goes, WaitUntilEnd
<1>11. CASE FirstLook \/ WaitOn \/ WaitFails \/ ActMoveCamera
  BY <1>2, <1>11 DEF FirstLook, WaitOn, WaitFails, ActMoveCamera, Act, Acted, Goes, Stays, worker
<1> QED
  BY Zenon, <1>1, <1>5, <1>6, <1>7, <1>8, <1>9, <1>10, <1>11 DEF CombatNext, CombatTask
-----------------------------------------------------------------------------
OfRogue == {"cur", "first", "meleeFull", "rangedFull", "wait", "waitMedic", "blockers", "medics", "urgent", "timeout", "blind"}

RogueTypeOK(r) ==
  /\ DOMAIN r = OfRogue
  /\ r.wait \in [Home -> BOOLEAN] /\ DOMAIN r.blockers = Tile
  /\ r.timeout \in BOOLEAN /\ r.blind \in BOOLEAN

\* Before the first look there are no notes.
NothingNoted ==
  at \in {"run", "first"} =>
    /\ \A o \in Oper : field.opers[o] = Nowhere /\ ~Stands(o)
    /\ \A t \in Tile : field.used[t] = Nobody
    /\ rogue = RogueStart

\* The two notes of who stands where agree; a place that is free blocks for no home; and a
\* home that does not wait has its blocker.
Agree(f, r) ==
  /\ \A o \in Oper : f.opers[o] # Nowhere => f.used[f.opers[o]] = o
  /\ \A t \in Tile : f.used[t] = Nobody => r.blockers[t] = {}
  /\ \A h \in Home : ~r.wait[h] => \E t \in Tile : h \in r.blockers[t] /\ f.used[t] # Nobody

NotesAgree == Sighted => Agree(field, rogue)

RogueInv == BattleInv /\ RogueTypeOK(rogue) /\ NothingNoted /\ NotesAgree

\* The homes and the blockers of q are those of r.
SameHomes(q, r) ==
  /\ DOMAIN q = OfRogue /\ q.wait = r.wait /\ q.blockers = r.blockers
  /\ q.timeout = r.timeout /\ q.blind = r.blind

\* Where nothing is noted the two sets of notes agree.
LEMMA EmptyAgrees ==
  ASSUME NEW f, \A o \in Oper : f.opers[o] = Nowhere
  PROVE  RogueTypeOK(RogueStart) /\ Agree(f, RogueStart)
BY DEF RogueTypeOK, RogueStart, OfRogue, Agree

\* A battle without a plan starts with nothing noted.
LEMMA RogueStarts == ASSUME RogueInit PROVE RogueInv
<1>1. FieldInit /\ rogue = RogueStart
  BY DEF RogueInit
<1>2. /\ \A o \in Oper : field.opers[o] = Nowhere /\ ~Stands(o)
      /\ \A t \in Tile : field.used[t] = Nobody
  BY <1>1 DEF FieldInit, Cleared0, Stands
<1> QED
  BY <1>1, <1>2, FieldStarts, EmptyAgrees DEF RogueInv, NothingNoted, NotesAgree

\* To turn to the next home changes nothing of what is noted of homes,
LEMMA ToHomeKeeps == ASSUME NEW r, RogueTypeOK(r) PROVE SameHomes(ToHome(r), r)
BY DEF RogueTypeOK, ToHome, SameHomes, OfRogue

\* nor does the note that there is no room.
LEMMA SetFullKeeps == ASSUME NEW r, RogueTypeOK(r), NEW ts, NEW full PROVE SameHomes(SetFull(r, ts, full), r)
BY DEF RogueTypeOK, SetFull, SameHomes, OfRogue

\* What leaves the notes of homes alone leaves them in agreement.
LEMMA SameHomesAgree ==
  ASSUME NEW q, NEW r, RogueTypeOK(r), SameHomes(q, r), NEW f
  PROVE  RogueTypeOK(q) /\ (Agree(f, r) => Agree(f, q))
BY DEF RogueTypeOK, SameHomes, Agree

\* What those who left the field change for the homes.
LEMMA UrgentHomes ==
  ASSUME RogueTypeOK(rogue)
  PROVE  /\ RogueTypeOK(CheckUrgent)
         /\ CheckUrgent.timeout = rogue.timeout /\ CheckUrgent.blind = rogue.blind
         /\ \A h \in Home : CheckUrgent.wait[h] = (rogue.wait[h] \/ \E t \in Left : h \in rogue.blockers[t])
         /\ \A t \in Tile : CheckUrgent.blockers[t] = IF t \in Left THEN {} ELSE rogue.blockers[t]
<1> DEFINE homes == UNION {rogue.blockers[t] : t \in Left}
           medics == UNION {rogue.medics[t] : t \in {s \in Left : rogue.blockers[s] = {}}}
           new == homes \ {rogue.urgent[i] : i \in DOMAIN rogue.urgent}
           r == [rogue EXCEPT
                   !.wait = [h \in Home |-> @[h] \/ h \in homes],
                   !.waitMedic = [h \in Home |-> @[h] \/ h \in medics],
                   !.medics = [t \in Tile |-> IF t \in Left /\ rogue.blockers[t] = {} THEN {} ELSE @[t]],
                   !.blockers = [t \in Tile |-> IF t \in Left THEN {} ELSE @[t]],
                   !.urgent = @ \o Sorted(new)]
<1>1. CheckUrgent = SetFull(r, Left, FALSE)
  BY DEF CheckUrgent
<1>2. /\ DOMAIN r = OfRogue /\ r.timeout = rogue.timeout /\ r.blind = rogue.blind
      /\ r.wait = [h \in Home |-> rogue.wait[h] \/ h \in homes]
      /\ r.blockers = [t \in Tile |-> IF t \in Left THEN {} ELSE rogue.blockers[t]]
  BY DEF RogueTypeOK, OfRogue
<1> HIDE DEF r
<1>3. RogueTypeOK(r)
  BY <1>2 DEF RogueTypeOK
<1>4. SameHomes(CheckUrgent, r)
  BY <1>1, <1>3, SetFullKeeps
<1>5. RogueTypeOK(CheckUrgent)
  BY <1>3, <1>4, SameHomesAgree
<1>6. \A h \in Home : CheckUrgent.wait[h] = (rogue.wait[h] \/ \E t \in Left : h \in rogue.blockers[t])
  <2>1. \A h \in Home : CheckUrgent.wait[h] = (rogue.wait[h] \/ h \in homes)
    BY <1>2, <1>4 DEF SameHomes
  <2>2. \A h : h \in homes <=> \E t \in Left : h \in rogue.blockers[t]
    OBVIOUS
  <2> HIDE DEF homes
  <2> QED
    BY Zenon, <2>1, <2>2
<1> QED
  BY <1>2, <1>4, <1>5, <1>6 DEF SameHomes

\* After a look the notes of the homes agree with those of the field.
LEMMA LookAgrees ==
  ASSUME RogueInv, Sighted
  PROVE  Agree(WithoutCooling, CheckUrgent)
<1>1. Agree(field, rogue) /\ war.doubt = {} /\ FieldTypeOK(field)
  BY DEF RogueInv, NotesAgree, Sighted, BattleInv
<1>2. \A o \in war.cooling : field.opers[o] # Nowhere => field.opers[o] \in Left
  BY <1>1 DEF RogueInv, BattleInv, NotesAreTrue, StandsOrCools, WarTypeOK, Left
<1>3. \A o \in Oper : WithoutCooling.opers[o] = IF o \in war.cooling THEN Nowhere ELSE field.opers[o]
  BY NotesAfterLook DEF RogueInv
<1>4. \A t \in Tile : WithoutCooling.used[t] =
        IF \E o \in war.cooling : field.opers[o] # Nowhere /\ field.opers[o] = t THEN Nobody ELSE field.used[t]
  BY NotesAfterLook DEF RogueInv
<1>5. \A h \in Home : CheckUrgent.wait[h] = (rogue.wait[h] \/ \E t \in Left : h \in rogue.blockers[t])
  BY UrgentHomes DEF RogueInv
<1>6. \A t \in Tile : CheckUrgent.blockers[t] = IF t \in Left THEN {} ELSE rogue.blockers[t]
  BY UrgentHomes DEF RogueInv
<1>7. war.cooling \subseteq Oper /\ rogue.wait \in [Home -> BOOLEAN]
  BY DEF RogueInv, BattleInv, WarTypeOK, RogueTypeOK
<1> HIDE DEF WithoutCooling, CheckUrgent, Left
<1>8. \A o \in Oper : WithoutCooling.opers[o] # Nowhere => WithoutCooling.used[WithoutCooling.opers[o]] = o
  BY <1>1, <1>3, <1>4, <1>7 DEF Agree, FieldTypeOK
<1>9. \A t \in Tile : WithoutCooling.used[t] = Nobody => CheckUrgent.blockers[t] = {}
  BY <1>1, <1>2, <1>4, <1>6 DEF Agree
<1>10. \A h \in Home : ~CheckUrgent.wait[h] => \E t \in Tile : h \in CheckUrgent.blockers[t] /\ WithoutCooling.used[t] # Nobody
  <2> SUFFICES ASSUME NEW h \in Home, ~CheckUrgent.wait[h]
               PROVE  \E t \in Tile : h \in CheckUrgent.blockers[t] /\ WithoutCooling.used[t] # Nobody
    OBVIOUS
  <2>1. ~rogue.wait[h] /\ \A t \in Left : h \notin rogue.blockers[t]
    BY <1>5, <1>7
  <2>2. PICK t \in Tile : h \in rogue.blockers[t] /\ field.used[t] # Nobody
    BY <1>1, <2>1 DEF Agree
  <2>3. t \notin Left
    BY <2>1, <2>2
  <2>4. WithoutCooling.used[t] = field.used[t]
    BY <1>2, <1>4, <2>3
  <2> QED
    BY <1>6, <2>2, <2>3, <2>4
<1> QED
  BY <1>8, <1>9, <1>10 DEF Agree

\* A look that fails and takes nobody's fall for granted leaves the notes.
LEMMA FailedLookAgrees ==
  ASSUME RogueInv, UpdateDeployment(FALSE), war.doubt = {}, Agree(field, rogue),
         ~\E o \in Oper : field'.deck[o] = "cooling" /\ field.deck[o] # "cooling"
  PROVE  Agree(field', rogue)
<1>1. CASE field'.opers = field.opers /\ field'.used = field.used
  BY <1>1 DEF Agree
<1>2. CASE field'.opers = WithoutCooling.opers /\ field'.deck = WithoutCooling.deck /\ field'.used = WithoutCooling.used
  <2>1. \A o \in war.cooling : field.opers[o] = Nowhere
    <3> SUFFICES ASSUME NEW o \in war.cooling PROVE field.opers[o] = Nowhere
      OBVIOUS
    <3>1. o \in Oper /\ ~Stands(o)
      BY DEF RogueInv, BattleInv, WarTypeOK, StandsOrCools
    <3>2. WithoutCooling.deck[o] = "cooling"
      BY <3>1, NotesAfterLook DEF RogueInv, Reading
    <3>3. field.deck[o] = "cooling"
      BY <1>2, <3>1, <3>2
    <3> QED
      BY <3>1, <3>3 DEF RogueInv, BattleInv, NotesAreTrue
  <2>2. \A o \in Oper : field'.opers[o] = field.opers[o]
    BY <1>2, <2>1, NotesAfterLook DEF RogueInv
  <2>3. \A t \in Tile : field'.used[t] = field.used[t]
    BY <1>2, <2>1, NotesAfterLook DEF RogueInv
  <2>4. \A o \in Oper : field.opers[o] # Nowhere => field.opers[o] \in Tile
    BY DEF RogueInv, BattleInv, FieldTypeOK
  <2> HIDE DEF WithoutCooling
  <2> QED
    BY <2>2, <2>3, <2>4 DEF Agree
<1> QED
  <2>1. \/ \E b : field' = [field EXCEPT !.inBattle = b]
        \/ field' = [WithoutCooling EXCEPT !.inBattle = FALSE]
    BY DEF UpdateDeployment
  <2>2. ASSUME NEW b, field' = [field EXCEPT !.inBattle = b] PROVE field'.opers = field.opers /\ field'.used = field.used
    BY <2>2, BeliefIsNoNote DEF RogueInv, BattleInv
  <2>3. FieldTypeOK(WithoutCooling)
    BY NotesAfterLook DEF RogueInv
  <2> HIDE DEF WithoutCooling
  <2>4. CASE field' = [WithoutCooling EXCEPT !.inBattle = FALSE]
    BY <1>2, <2>3, <2>4, BeliefIsNoNote
  <2> QED
    BY <1>1, <2>1, <2>2, <2>4

\* What a deployment tells the homes
LEMMA PostprocTyped ==
  ASSUME NEW r, NEW o, NEW t, NEW range, RogueTypeOK(r)
  PROVE  /\ RogueTypeOK(Postproc(r, o, t, range))
         /\ Postproc(r, o, t, range).timeout = r.timeout /\ Postproc(r, o, t, range).blind = r.blind
         /\ \A s \in Tile \ {t} : Postproc(r, o, t, range).blockers[s] = r.blockers[s]
BY DEF Postproc, RogueTypeOK, OfRogue

\* What is done after an operator was deployed or has gone blocks and frees its home.
LEMMA PostprocHomes ==
  ASSUME NEW r, NEW o, NEW t \in Tile, NEW range, RogueTypeOK(r), r.blockers[t] = {}, NEW h \in Home, r.wait[h],
         ~Postproc(r, o, t, range).wait[h]
  PROVE  Postproc(r, o, t, range).blockers[t] = {h}
<1>1. CASE o \in Blocking
  <2>1. /\ Postproc(r, o, t, range).blockers = [r.blockers EXCEPT ![t] = IF r.wait[r.cur] /\ @ = {} THEN {r.cur} ELSE @]
        /\ Postproc(r, o, t, range).wait = [r.wait EXCEPT ![r.cur] = FALSE]
    BY <1>1 DEF Postproc, RogueTypeOK, OfRogue
  <2>2. h = r.cur
    BY <2>1 DEF RogueTypeOK
  <2> QED
    BY <2>1, <2>2 DEF RogueTypeOK
<1>2. CASE o \notin Blocking
  <2>1. Postproc(r, o, t, range).wait = r.wait
    BY <1>2 DEF Postproc, RogueTypeOK, OfRogue
  <2> QED
    BY <2>1
<1> QED
  BY <1>1, <1>2

\* Somebody is deployed where nobody is noted, and the homes are told.
LEMMA DeployAgrees ==
  ASSUME NEW f, NEW r, NEW o \in Oper, NEW t \in Tile, NEW range, FieldTypeOK(f), NotesAreTrue(f), WarTypeOK,
         war.doubt = {} => Agree(f, r), RogueTypeOK(r), DeployOper(f, o, t), f.used[t] = Nobody
  PROVE  war'.doubt = {} => Agree(field', Postproc(r, o, t, range))
<1> DEFINE q == Postproc(r, o, t, range)
<1>1. \A p \in Tile \ {t} : q.blockers[p] = r.blockers[p]
  BY PostprocTyped
<1>2. ASSUME r.blockers[t] = {} PROVE \A h \in Home : r.wait[h] /\ ~q.wait[h] => q.blockers[t] = {h}
  BY <1>2, PostprocHomes
<1> HIDE DEF q
<1>3. ASSUME war'.doubt = {} PROVE Agree(field', q)
  <2>1. /\ field'.opers = [f.opers EXCEPT ![o] = IF @ = Nowhere THEN t ELSE @]
        /\ field'.used = [f.used EXCEPT ![t] = IF @ = Nobody THEN o ELSE @]
    BY DEF DeployOper, FieldTypeOK, OfField
  <2>2. /\ war.doubt = {} /\ ~Stands(o) /\ o \notin war.cooling
    <3>1. \/ war'.doubt = war.doubt \cup {o}
          \/ ~Stands(o) /\ o \notin war.cooling /\ war'.doubt = IF f.deck[o] = "cooling" THEN war.doubt \cup {o} ELSE war.doubt
      BY DEF DeployOper, WarTypeOK, OfWar
    <3> QED
      BY <1>3, <3>1
  <2>3. f.opers[o] = Nowhere /\ Agree(f, r)
    BY <2>2 DEF NotesAreTrue
  <2>4. /\ \A p \in Oper : field'.opers[p] = IF p = o THEN t ELSE f.opers[p]
        /\ \A s \in Tile : field'.used[s] = IF s = t THEN o ELSE f.used[s]
    BY <2>1, <2>3 DEF FieldTypeOK
  <2>5. r.blockers[t] = {}
    BY <2>3 DEF Agree
  <2>7. \A p \in Oper : field'.opers[p] # Nowhere => field'.used[field'.opers[p]] = p
    BY <2>3, <2>4, BattleAssumption DEF Agree, FieldTypeOK
  <2>8. \A s \in Tile : field'.used[s] = Nobody => q.blockers[s] = {}
    BY <1>1, <2>3, <2>4, BattleAssumption DEF Agree
  <2>9. \A h \in Home : ~q.wait[h] => \E s \in Tile : h \in q.blockers[s] /\ field'.used[s] # Nobody
    <3> SUFFICES ASSUME NEW h \in Home, ~q.wait[h]
                 PROVE  \E s \in Tile : h \in q.blockers[s] /\ field'.used[s] # Nobody
      OBVIOUS
    <3>1. CASE ~r.wait[h]
      <4>1. PICK s \in Tile : h \in r.blockers[s] /\ f.used[s] # Nobody
        BY <2>3, <3>1 DEF Agree
      <4> QED
        BY <1>1, <2>4, <2>5, <4>1
    <3>2. CASE r.wait[h]
      BY <1>2, <2>4, <2>5, <3>2, BattleAssumption
    <3> QED
      BY <3>1, <3>2
  <2> QED
    BY <2>7, <2>8, <2>9 DEF Agree
<1> QED
  BY <1>3 DEF q

\* What the game does leaves the notes, and brings nobody on the field.
LEMMA GameAgrees ==
  ASSUME BattleInv, NEW seen, GameNext(seen)
  PROVE  field' = field /\ war.doubt \subseteq war'.doubt /\ \A o \in Oper : ~Stands(o) => ~Stands(o)'
<1>1. CASE BattleStarts \/ BattleEnds(seen)
  BY <1>1 DEF GameNext, BattleStarts, BattleEnds, BattleInv, WarTypeOK, OfWar, Stands
<1>2. ASSUME NEW o \in Oper, Falls(o)
      PROVE  field' = field /\ war.doubt \subseteq war'.doubt /\ \A p \in Oper : ~Stands(p) => ~Stands(p)'
  <2>1. war'.doubt = war.doubt /\ war'.stands = [war.stands EXCEPT ![o] = Nowhere]
    BY <1>2 DEF Falls, BattleInv, WarTypeOK, OfWar
  <2> QED
    BY <2>1 DEF GameNext, BattleInv, WarTypeOK, Stands
<1>3. ASSUME NEW o \in Oper, CoolingEnds(o)
      PROVE  field' = field /\ war.doubt \subseteq war'.doubt /\ \A p \in Oper : ~Stands(p) => ~Stands(p)'
  <2>1. war'.stands = war.stands /\ (war'.doubt = war.doubt \cup {o} \/ war'.doubt = war.doubt)
    BY <1>3 DEF CoolingEnds, BattleInv, WarTypeOK, OfWar
  <2> QED
    BY <2>1 DEF GameNext, Stands
<1> QED
  BY <1>1, <1>2, <1>3 DEF GameNext

\* A look that succeeds, and the notes of the homes with it
LEMMA OnceLooks ==
  ASSUME RogueInv, task = "roguelike", NEW q, SameHomes(q, CheckUrgent), at = "once", at' = "once", task' = task, war.phase = "on",
         field' = [WithoutCooling EXCEPT !.inBattle = TRUE], war' = war, rogue' = q
  PROVE  RogueInv'
<1>1. BattleInv'
  <2>1. UpdateDeployment(TRUE)
    BY DEF UpdateDeployment, SeesBattle
  <2> QED
    BY <2>1, LookKeeps DEF RogueInv
<1>2. RogueTypeOK(CheckUrgent) /\ CheckUrgent.timeout = rogue.timeout /\ CheckUrgent.blind = rogue.blind
  BY UrgentHomes DEF RogueInv
<1>3. /\ RogueTypeOK(q) /\ q.timeout = rogue.timeout /\ q.blind = rogue.blind
      /\ Agree(WithoutCooling, CheckUrgent) => Agree(WithoutCooling, q)
  <2> HIDE DEF CheckUrgent, WithoutCooling
  <2> QED
    BY <1>2, SameHomesAgree DEF SameHomes
<1>4. field'.opers = WithoutCooling.opers /\ field'.used = WithoutCooling.used
  <2>1. FieldTypeOK(WithoutCooling)
    BY NotesAfterLook DEF RogueInv
  <2> HIDE DEF WithoutCooling
  <2> QED
    BY <2>1, BeliefIsNoNote
<1>5. ASSUME Sighted' PROVE Agree(field, rogue)'
  <2>1. Sighted
    BY <1>3, <1>5 DEF Sighted
  <2>2. Agree(WithoutCooling, q)
    BY <1>3, <2>1, LookAgrees
  <2> HIDE DEF WithoutCooling
  <2> QED
    BY <1>4, <2>2 DEF Agree
<1> QED
  BY <1>1, <1>3, <1>5 DEF RogueInv, NothingNoted, NotesAgree, RogueTypeOK

\* The battle begins: all notes of the last one are dropped,
LEMMA BegunKeeps == ASSUME RogueInv, RogueBegins PROVE RogueInv'
<1>1. at = "run" /\ war' = war /\ (field' = field \/ field' = Cleared0)
  BY DEF RogueBegins
<1>2. BattleInv'
  BY <1>1, BeginKeeps DEF RogueInv
<1>3. rogue = RogueStart /\ rogue' = RogueStart
  BY DEF RogueInv, NothingNoted, RogueBegins
<1>4. /\ \A o \in Oper : field'.opers[o] = Nowhere /\ ~Stands(o)
      /\ \A t \in Tile : field'.used[t] = Nobody
  BY <1>1, ClearedNotes DEF RogueInv, NothingNoted
<1>5. RogueTypeOK(rogue)' /\ Agree(field, rogue)' /\ \A o \in Oper : ~Stands(o)'
  BY <1>1, <1>3, <1>4, EmptyAgrees DEF Stands, RogueTypeOK, Agree
<1> QED
  BY <1>2, <1>3, <1>4, <1>5 DEF RogueInv, NothingNoted, NotesAgree, Stands

\* and the first look has everybody in the hand.
LEMMA FirstLookKeeps == ASSUME RogueInv, RogueFirstLook PROVE RogueInv'
<1>1. PICK in : UpdateDeployment(in)
  BY DEF RogueFirstLook
<1>2. at = "first" /\ at' = "once" /\ rogue' = rogue
  BY DEF RogueFirstLook, Goes
<1>3. /\ BattleInv'
      /\ \/ field'.opers = field.opers
         \/ field'.opers = WithoutCooling.opers
  BY <1>1, <1>2, LookKeeps DEF RogueInv
<1>4. rogue = RogueStart /\ \A o \in Oper : field.opers[o] = Nowhere
  BY <1>2 DEF RogueInv, NothingNoted
<1>5. \A o \in Oper : WithoutCooling.opers[o] = Nowhere
  BY <1>4, NotesAfterLook DEF RogueInv
<1>6. \A o \in Oper : field'.opers[o] = Nowhere
  BY <1>3, <1>4, <1>5
<1>7. RogueTypeOK(rogue') /\ Agree(field', rogue')
  BY <1>2, <1>4, <1>6, EmptyAgrees
<1> QED
  BY <1>2, <1>3, <1>7 DEF RogueInv, NothingNoted, NotesAgree, RogueTypeOK, Agree

\* A look that finds no list changes nothing.
LEMMA OnceFailsKeeps == ASSUME RogueInv, OnceFails PROVE RogueInv'
<1>1. at = "once" /\ at' \notin {"run", "first"} /\ task' = task
  BY DEF OnceFails, Goes, Stays, worker
<1>2. BattleInv' /\ war' = war
  BY <1>1, LookKeeps DEF RogueInv, OnceFails
<1>3. /\ DOMAIN rogue' = OfRogue /\ rogue'.wait = rogue.wait /\ rogue'.blockers = rogue.blockers /\ rogue'.timeout = rogue.timeout
      /\ rogue'.blind = (rogue.blind \/ \E o \in Oper : field'.deck[o] = "cooling" /\ field.deck[o] # "cooling")
  BY DEF OnceFails, RogueInv, RogueTypeOK, OfRogue
<1>4. RogueTypeOK(rogue')
  BY <1>3 DEF RogueInv, RogueTypeOK
<1>5. ASSUME Sighted' PROVE Agree(field', rogue')
  <2>1. Sighted /\ ~\E o \in Oper : field'.deck[o] = "cooling" /\ field.deck[o] # "cooling"
    BY <1>1, <1>2, <1>3, <1>5 DEF Sighted, RogueInv, RogueTypeOK
  <2>2. Agree(field', rogue)
    BY <2>1, FailedLookAgrees DEF OnceFails, RogueInv, NotesAgree, Sighted
  <2> QED
    BY <1>3, <2>2 DEF Agree
<1> QED
  BY <1>1, <1>2, <1>4, <1>5 DEF RogueInv, NothingNoted, NotesAgree, RogueTypeOK, Agree

\* A deployment is noted with the home it blocks.
LEMMA OnceDeploysKeeps ==
  ASSUME RogueInv, task = "roguelike", NEW o \in Oper, NEW t \in Tile, OnceDeploys(o, t)
  PROVE  RogueInv'
<1>1. PICK r : r = ToHome(CheckUrgent)
  OBVIOUS
<1>2. PICK f : f = [WithoutCooling EXCEPT !.inBattle = TRUE]
  OBVIOUS
<1>3. at = "once" /\ at' = "once" /\ task' = task /\ DeployOper(f, o, t) /\ WithoutCooling.used[t] = Nobody
  BY <1>2 DEF OnceDeploys, FreeFor, Stays, worker
<1>4. PICK range, home : rogue' = [Postproc(r, o, t, range) EXCEPT !.first = FALSE, !.cur = home, !.urgent = IF @ = << >> THEN @ ELSE Tail(@)]
  <2> HIDE DEF CheckUrgent, Postproc, DeployOper
  <2> QED
    BY <1>1 DEF OnceDeploys
<1>5. RogueTypeOK(CheckUrgent) /\ CheckUrgent.timeout = rogue.timeout /\ CheckUrgent.blind = rogue.blind
  BY UrgentHomes DEF RogueInv
<1>6. /\ RogueTypeOK(r) /\ r.timeout = rogue.timeout /\ r.blind = rogue.blind
      /\ Agree(WithoutCooling, CheckUrgent) => Agree(WithoutCooling, r)
  <2> HIDE DEF CheckUrgent, WithoutCooling
  <2> QED
    BY <1>1, <1>5, ToHomeKeeps, SameHomesAgree DEF SameHomes
<1>7. FieldTypeOK(WithoutCooling) /\ NotesAreTrue(WithoutCooling)
  BY NotesAfterLook DEF RogueInv
<1>8. FieldTypeOK(f) /\ NotesAreTrue(f) /\ f.opers = WithoutCooling.opers /\ f.used = WithoutCooling.used
  <2> HIDE DEF WithoutCooling
  <2> QED
    BY <1>2, <1>7, BeliefIsNoNote
<1>9. BattleInv'
  BY <1>3, <1>8, DeployKeeps DEF RogueInv, BattleInv
<1>10. PICK q : q = Postproc(r, o, t, range)
  OBVIOUS
<1>11. ASSUME ~rogue.timeout, ~rogue.blind, war.doubt = {} PROVE Agree(f, r)
  <2>1. Agree(WithoutCooling, r)
    BY <1>6, <1>11, LookAgrees DEF Sighted
  <2> HIDE DEF WithoutCooling
  <2> QED
    BY <1>8, <2>1 DEF Agree
<1>12. RogueTypeOK(q) /\ q.timeout = rogue.timeout /\ q.blind = rogue.blind
  BY <1>6, <1>10, PostprocTyped
<1>13. SameHomes(rogue', q)
  BY <1>4, <1>10, <1>12 DEF SameHomes, RogueTypeOK, OfRogue
<1>14. RogueTypeOK(rogue') /\ (Agree(field', q) => Agree(field', rogue'))
  BY <1>12, <1>13, SameHomesAgree
<1>15. ASSUME Sighted' PROVE Agree(field', rogue')
  <2>1. ~rogue.timeout /\ ~rogue.blind /\ war'.doubt = {}
    BY <1>12, <1>13, <1>15 DEF Sighted, SameHomes
  <2>2. war.doubt = {} => Agree(f, r)
    BY <1>11, <2>1
  <2>3. f.used[t] = Nobody /\ WarTypeOK
    BY <1>3, <1>8 DEF RogueInv, BattleInv
  <2>4. Agree(field', q)
    BY <1>3, <1>6, <1>8, <1>10, <2>1, <2>2, <2>3, DeployAgrees
  <2> QED
    BY <1>14, <2>4
<1> QED
  BY <1>3, <1>9, <1>14, <1>15 DEF RogueInv, NothingNoted, NotesAgree, RogueTypeOK, Agree

\* After a while without a deployment all are called back, or urged to.
LEMMA TimeoutKeeps == ASSUME RogueInv, RogueTimeout PROVE RogueInv'
<1>1. PICK ts : ts = {t \in Melee : field.used[t] # Nobody}
  OBVIOUS
<1>2. PICK os : os = UNION {On(t) : t \in ts}
  OBVIOUS
<1>3. at = "once" /\ at' = "once" /\ Leaves(os)
  BY <1>1, <1>2 DEF RogueTimeout, Stays, worker
<1>4. ts \subseteq Tile
  BY <1>1, RogueAssumption
<1>5. os \in SUBSET Oper /\ \A o \in os : Stands(o)
  BY <1>2, <1>4, BattleAssumption DEF On, Stands
<1>6. /\ DOMAIN field' = OfField /\ field'.deck = field.deck
      /\ field'.opers = [o \in Oper |-> IF field.opers[o] \in ts THEN Nowhere ELSE field.opers[o]]
      /\ field'.used = [t \in Tile |-> IF t \in ts THEN Nobody ELSE field.used[t]]
  BY <1>1 DEF RogueTimeout, RogueInv, BattleInv, FieldTypeOK, OfField
<1>7. FieldTypeOK(field')
  BY <1>6 DEF RogueInv, BattleInv, FieldTypeOK
<1>8. \A o \in Oper \ (os \cup war.doubt) : Stands(o) => field.opers[o] \notin ts
  BY <1>2 DEF RogueInv, BattleInv, NotesAreTrue, On
<1>9. BattleInv'
  BY <1>3, <1>5, <1>6, <1>7, <1>8, LeavesKeeps DEF RogueInv
<1>10. /\ DOMAIN rogue' = OfRogue /\ rogue'.timeout = TRUE /\ rogue'.wait = rogue.wait /\ rogue'.blockers = rogue.blockers
       /\ rogue'.blind = rogue.blind
  BY DEF RogueTimeout, RogueInv, RogueTypeOK, OfRogue
<1> QED
  BY <1>3, <1>9, <1>10 DEF RogueInv, RogueTypeOK, NothingNoted, NotesAgree, Sighted

\* Whoever falls is noted to stand until the next look.
LEMMA RogueGameKeeps ==
  ASSUME RogueInv, NEW seen, GameNext(seen), UNCHANGED rogue
  PROVE  RogueInv'
<1>1. BattleInv' /\ at' = at /\ task' = task /\ rogue' = rogue
  BY GameKeeps DEF RogueInv, GameNext, worker
<1>2. field' = field /\ war.doubt \subseteq war'.doubt /\ \A o \in Oper : ~Stands(o) => ~Stands(o)'
  BY GameAgrees DEF RogueInv
<1> QED
  BY <1>1, <1>2 DEF RogueInv, RogueTypeOK, NothingNoted, NotesAgree, Sighted, Agree

\* All that happens in a battle without a plan leaves the notes in agreement.
LEMMA RogueKeeps == ASSUME RogueInv, task = "roguelike", RogueNext PROVE RogueInv'
<1>1. CASE OnceWaits
  <2>1. at = "once" /\ at' = "once" /\ task' = task /\ war' = war /\ war.phase = "on"
    BY <1>1 DEF OnceWaits, Stays, worker
  <2>2. CASE UNCHANGED <<field, rogue>>
    <3>1. BattleInv'
      BY <2>1, <2>2, SameNotesKept DEF RogueInv
    <3> QED
      BY <2>1, <2>2, <3>1 DEF RogueInv, RogueTypeOK, NothingNoted, NotesAgree, Sighted, Agree
  <2>3. CASE field' = [WithoutCooling EXCEPT !.inBattle = TRUE] /\ rogue' = ToHome(CheckUrgent)
    <3>1. SameHomes(ToHome(CheckUrgent), CheckUrgent)
      BY UrgentHomes, ToHomeKeeps DEF RogueInv
    <3> QED
      BY <2>1, <2>3, <3>1, OnceLooks
  <2> QED
    BY <1>1, <2>2, <2>3 DEF OnceWaits
<1>2. ASSUME NEW o \in Oper, OnceIsFull(o) PROVE RogueInv'
  <2>1. PICK r, ts : r = ToHome(CheckUrgent) /\ rogue' = SetFull(r, ts, TRUE)
    BY <1>2 DEF OnceIsFull
  <2>2. RogueTypeOK(CheckUrgent) /\ SameHomes(r, CheckUrgent)
    BY <2>1, UrgentHomes, ToHomeKeeps DEF RogueInv
  <2>3. SameHomes(rogue', r)
    BY <2>1, <2>2, SameHomesAgree, SetFullKeeps
  <2>4. SameHomes(rogue', CheckUrgent)
    BY <2>2, <2>3 DEF SameHomes
  <2> QED
    BY <1>2, <2>4, OnceLooks DEF OnceIsFull, Stays, worker
<1>3. CASE RogueEnds \/ RogueAbandons
  <2>1. at = "once" /\ at' = "succeeded" /\ task' = task /\ field' = field /\ war' = war /\ rogue' = rogue
    BY <1>3 DEF RogueEnds, RogueAbandons, Goes, battle
  <2>2. BattleInv'
    BY <2>1, SameNotesKept DEF RogueInv
  <2> QED
    BY <2>1, <2>2 DEF RogueInv, RogueTypeOK, NothingNoted, NotesAgree, Sighted, Agree
<1> QED
  BY Zenon, <1>1, <1>2, <1>3, BegunKeeps, FirstLookKeeps, OnceFailsKeeps, OnceDeploysKeeps, TimeoutKeeps, RogueGameKeeps
     DEF RogueNext, RogueTask

\* Nobody stands where the notes do not say so; in Integrated Strategies no home is left
\* without its blocker.
LEMMA BattleIsKnown == BattleInv => FieldIsKnown
BY DEF BattleInv, NotesAreTrue, FieldIsKnown

\* A home is blocked by one who stands there, as far as the worker has looked.
LEMMA HomesAreKnown == RogueInv => NoHomeForgotten
<1> SUFFICES ASSUME RogueInv, Sighted PROVE NoHomeForgotten
  BY DEF NoHomeForgotten
<1>1. Agree(field, rogue) /\ \A o \in Oper : Stands(o) => field.opers[o] = war.stands[o]
  BY DEF RogueInv, NotesAgree, BattleInv, NotesAreTrue, Sighted
<1> QED
  BY <1>1 DEF NoHomeForgotten, Agree, Stands

\* Of all steps a battle can take part in its own and a stop.
LEMMA StepOfCombat ==
  ASSUME [Next]_vars, task = "copilot"
  PROVE  CombatNext \/ (UNCHANGED <<field, war, combat>> /\ at' = at)
BY Zenon DEF Next, Only, vars, Own, StopWorker, worker, battle

\* The same without a plan
LEMMA StepOfRogue ==
  ASSUME [Next]_vars, task = "roguelike"
  PROVE  RogueNext \/ (UNCHANGED <<field, war, rogue>> /\ at' = at)
BY Zenon DEF Next, Only, vars, Own, StopWorker, worker, battle

KnownInv ==
  /\ task = "copilot" => CombatInv
  /\ task = "roguelike" => RogueInv

\* The tasks that fight know where their operators stand, although they learn only from
\* the list that somebody fell, and no home is forgotten (BattleHelper, BattleProcessTask,
\* RoguelikeBattleTaskPlugin).
THEOREM BattlesFollowTheNotes == Spec => []BattlesAreKnown
<1>1. Init => KnownInv
  BY CombatStarts, RogueStarts DEF Init, WorkerInit, KnownInv
<1>2. KnownInv /\ [Next]_vars => KnownInv'
  <2> SUFFICES ASSUME KnownInv, [Next]_vars PROVE KnownInv'
    OBVIOUS
  <2>1. task' = task
    BY TaskKept
  <2>2. ASSUME task = "copilot" PROVE CombatInv'
    <3>1. CASE CombatNext
      BY <2>2, <3>1, CombatKeeps DEF KnownInv
    <3>2. CASE UNCHANGED <<field, war, combat>> /\ at' = at
      BY <2>2, <3>2 DEF KnownInv, CombatInv, CombatTypeOK, BattleInv, FieldTypeOK, WarTypeOK, StandsOrCools, NotesAreTrue, Stands
    <3> QED
      BY <2>2, <3>1, <3>2, StepOfCombat
  <2>3. ASSUME task = "roguelike" PROVE RogueInv'
    <3>1. CASE RogueNext
      BY <2>3, <3>1, RogueKeeps DEF KnownInv
    <3>2. CASE UNCHANGED <<field, war, rogue>> /\ at' = at
      BY <2>1, <2>3, <3>2 DEF KnownInv, RogueInv, RogueTypeOK, NothingNoted, NotesAgree, Sighted, Agree, BattleInv, FieldTypeOK, WarTypeOK,
         StandsOrCools, NotesAreTrue, Stands
    <3> QED
      BY <2>3, <3>1, <3>2, StepOfRogue
  <2> QED
    BY <2>1, <2>2, <2>3 DEF KnownInv
<1>3. KnownInv => BattlesAreKnown
  BY BattleIsKnown, HomesAreKnown DEF KnownInv, CombatInv, RogueInv, BattlesAreKnown, FieldIsKnown, NoHomeForgotten, Sighted
<1> QED
  BY <1>1, <1>2, <1>3, PTL DEF Spec
-----------------------------------------------------------------------------
OfMall == {"params", "pass", "list", "again"}
OfStore == {"credit", "sold", "page", "bought", "doubt"}
OnSale == DOMAIN Commodities
Purchase == [good : OnSale, pass : {"first", "list", "force"}, credit : Int]
Buying == {"buy", "bought", "no money"}

MallTypeOK ==
  /\ mall.params \in Shoppings /\ mall.pass \in 1..4 /\ mall.list \in Seq(OnSale)
  /\ store.credit \in Int /\ store.sold \in SUBSET OnSale /\ store.page \in BOOLEAN /\ store.bought \in Seq(Purchase)
  /\ at \in {"run", "fight", "mall"} => mall.pass = 1 /\ store.bought = <<>> /\ store.page
  /\ at \in {"shop"} \cup Buying => mall.pass # 4
  /\ at = "succeeded" => mall.pass = 4

First(good) == EntryOf(good, mall.params.first)

BoughtRight ==
  \A k \in DOMAIN store.bought :
    /\ store.bought[k].pass = "first" =>
         /\ First(store.bought[k].good) # 0
         /\ \A l \in 1..k - 1 : store.bought[l].pass = "first" => First(store.bought[l].good) <= First(store.bought[k].good)
    /\ store.bought[k].pass = "list" => EntryOf(store.bought[k].good, mall.params.black) = 0
    /\ store.bought[k].pass = "force" => store.bought[k].credit > MaxCredit

\* Before a pass shops for the first time nothing is bought that counts for it.
BoughtBefore ==
  \A k \in DOMAIN store.bought :
    store.bought[k].pass = "first" => mall.pass > 1 \/ at \in Buying

\* What is still to be bought in a pass is what it is for, and in the first one it comes
\* after what was bought.
ListRight ==
  at \in Buying =>
    /\ \A j \in DOMAIN mall.list :
         /\ mall.pass = 1 =>
              /\ First(mall.list[j]) # 0
              /\ \A i \in DOMAIN mall.list : i < j => First(mall.list[i]) <= First(mall.list[j])
              /\ \A k \in DOMAIN store.bought : store.bought[k].pass = "first" => First(store.bought[k].good) <= First(mall.list[j])
         /\ mall.pass = 2 => EntryOf(mall.list[j], mall.params.black) = 0
    /\ mall.pass = 3 /\ at # "no money" => \A g \in OnSale : g \in store.sold \/ \E j \in DOMAIN mall.list : mall.list[j] = g

\* There is too much credit while the last pass buys; what is too dear costs no more than
\* that.
CreditIsKnown ==
  /\ mall.pass = 3 /\ at = "buy" => store.credit > MaxCredit
  /\ ~store.page \/ at = "no money" => store.credit <= MaxCredit
  /\ mall.pass = 4 /\ mall.params.force /\ ~stopped => store.credit <= MaxCredit \/ store.sold = OnSale

MallInv ==
  /\ DOMAIN mall = OfMall /\ DOMAIN store = OfStore
  /\ ~store.doubt => MallTypeOK /\ BoughtRight /\ BoughtBefore /\ ListRight /\ CreditIsKnown

\* The three CreditShoppingTasks
LEMMA PassesAre == Passes[1] = "first" /\ Passes[2] = "list" /\ Passes[3] = "force" /\ Len(Passes) = 3
BY DEF Passes

\* Nothing is bought before the first pass.
LEMMA MallStarts == ASSUME WorkerInit("mall"), MallInit PROVE MallInv
<1>1. at = "run"
  BY DEF WorkerInit
<1>2. /\ DOMAIN mall = OfMall /\ mall.params \in Shoppings /\ mall.pass = 1 /\ mall.list = <<>>
      /\ DOMAIN store = OfStore /\ store.credit \in Int /\ store.sold = {} /\ store.page = TRUE /\ store.bought = <<>>
  BY MallAssumption DEF MallInit, OfMall, OfStore
<1>3. MallTypeOK
  <2>1. <<>> \in Seq(OnSale) /\ <<>> \in Seq(Purchase) /\ {} \in SUBSET OnSale
    OBVIOUS
  <2>2. mall.list \in Seq(OnSale) /\ store.bought \in Seq(Purchase) /\ mall.pass \in 1..4
    BY <1>2, <2>1
  <2>3. store.page /\ store.page \in BOOLEAN
    BY <1>2, Zenon
  <2> QED
    BY <1>1, <1>2, <2>1, <2>2, <2>3 DEF MallTypeOK, Buying
<1>4. BoughtRight /\ BoughtBefore
  BY <1>2 DEF BoughtRight, BoughtBefore
<1>5. ListRight /\ CreditIsKnown
  BY <1>1, <1>2 DEF ListRight, CreditIsKnown, Buying
<1> QED
  BY <1>2, <1>3, <1>4, <1>5 DEF MallInv

\* The orders in which s may be bought contain all of s and nothing else.
LEMMA OrdersAreWhole ==
  ASSUME NEW s \in SUBSET OnSale, NEW o \in SetToSeqs(s)
  PROVE  o \in Seq(OnSale) /\ DOMAIN o = 1..Len(o) /\ (\A i \in DOMAIN o : o[i] \in s) /\ \A g \in s : \E i \in DOMAIN o : o[i] = g
<1>1. IsFiniteSet(s)
  BY FS_Subset, MallAssumption DEF OnSale
<1>2. PICK n \in Nat : n = Cardinality(s)
  BY <1>1, FS_CardinalityType
<1>3. o \in [1..n -> s] /\ \A i, j \in 1..n : i # j => o[i] # o[j]
  BY <1>2 DEF SetToSeqs
<1>4. o \in Seq(OnSale) /\ Len(o) = n
  BY <1>3
<1>5. o \in Injection(1..n, s)
  BY <1>3 DEF Injection, IsInjective
<1>6. Cardinality(1..n) = n
  BY FS_Interval
<1>7. o \in Surjection(1..n, s)
  BY <1>1, <1>2, <1>5, <1>6, FS_Injection
<1>8. \A g \in s : \E i \in 1..n : o[i] = g
  BY <1>7 DEF Surjection
<1> QED
  BY <1>3, <1>4, <1>8

\* What stays if nothing is bought and no pass begins or ends
LEMMA MallRests ==
  ASSUME MallInv, mall' = mall, DOMAIN store' = OfStore, store'.doubt = store.doubt, store'.sold = store.sold, store'.page = store.page,
         store'.bought = store.bought, store'.credit \in Int, store'.credit = store.credit \/ at \in {"run", "fight"},
         stopped => stopped',
         \/ at' = at
         \/ at \notin Buying /\ at' \in {"fight", "mall", "pass", "shop", "failed", "succeeded"}
         \/ at = "bought" /\ at' = "buy" /\ (mall.pass = 3 => store.credit > MaxCredit),
         at' \in {"fight", "mall"} => at \in {"run", "fight", "mall"},
         at' = "shop" => mall.pass # 4,
         at' = "succeeded" => mall.pass = 4
  PROVE  MallInv'
<1> SUFFICES ASSUME ~store'.doubt PROVE (MallTypeOK /\ BoughtRight /\ BoughtBefore /\ ListRight /\ CreditIsKnown)'
  BY DEF MallInv
<1>1. MallTypeOK /\ BoughtRight /\ BoughtBefore /\ ListRight /\ CreditIsKnown
  BY DEF MallInv
<1>2. MallTypeOK'
  BY <1>1 DEF MallTypeOK, Buying
<1>3. BoughtRight' /\ BoughtBefore'
  BY <1>1 DEF BoughtRight, BoughtBefore, Buying, First, MallTypeOK
<1>4. ListRight'
  BY <1>1 DEF ListRight, Buying, First
<1>5. CreditIsKnown'
  <2>1. CASE store'.credit = store.credit
    BY <1>1, <2>1 DEF CreditIsKnown
  <2>2. CASE at \in {"run", "fight"}
    <3>1. mall.pass = 1
      BY Zenon, <1>1, <2>2 DEF MallTypeOK
    <3>2. mall.pass # 3 /\ mall.pass # 4
      <4>1. 1 # 3 /\ 1 # 4
        OBVIOUS
      <4> QED
        BY Zenon, <3>1, <4>1
    <3>3. at' # "no money"
      BY <2>2 DEF Buying
    <3>4. store.page
      BY Zenon, <1>1, <2>2 DEF MallTypeOK
    <3> QED
      BY Zenon, <3>2, <3>3, <3>4 DEF CreditIsKnown
  <2> QED
    BY <2>1, <2>2
<1> QED
  BY <1>2, <1>3, <1>4, <1>5

\* A pass that is over: the last one, if it was in force, has left not too much credit.
LEMMA PassOverKeeps ==
  ASSUME MallInv, PassOver, store' = store, mall.pass # 4, at \in {"shop"} \cup Buying,
         mall.pass = 3 /\ mall.params.force /\ ~stopped => store.credit <= MaxCredit \/ store.sold = OnSale
  PROVE  MallInv'
<1>1. /\ DOMAIN mall' = OfMall /\ mall'.params = mall.params /\ mall'.pass = mall.pass + 1 /\ mall'.list = <<>>
      /\ at' = "pass" /\ stopped' = stopped
  BY DEF PassOver, Goes, MallInv, OfMall
<1> SUFFICES ASSUME ~store.doubt PROVE (MallTypeOK /\ BoughtRight /\ BoughtBefore /\ ListRight /\ CreditIsKnown)'
  BY <1>1 DEF MallInv
<1>2. MallTypeOK /\ BoughtRight /\ BoughtBefore /\ CreditIsKnown
  BY DEF MallInv
<1>3. MallTypeOK'
  <2>1. mall'.pass \in 1..4 /\ mall'.list \in Seq(OnSale)
    BY <1>1, <1>2 DEF MallTypeOK
  <2> QED
    BY <1>1, <1>2, <2>1 DEF MallTypeOK, Buying
<1>4. BoughtRight' /\ BoughtBefore'
  BY <1>1, <1>2 DEF BoughtRight, BoughtBefore, First, MallTypeOK
<1>5. ListRight'
  BY <1>1 DEF ListRight, Buying
<1>6. CreditIsKnown'
  <2>1. ~store.page => store.credit <= MaxCredit
    BY <1>2 DEF CreditIsKnown
  <2>2. mall'.pass = 4 => mall.pass = 3
    BY <1>1, <1>2 DEF MallTypeOK
  <2> QED
    BY <1>1, <2>1, <2>2 DEF CreditIsKnown
<1> QED
  BY <1>3, <1>4, <1>5, <1>6

\* A pass that fails is over, or is tried once more with an empty list.
LEMMA PassFailsKeeps ==
  ASSUME MallInv, PassFails, store' = store, mall.pass # 4, at \in {"shop"} \cup Buying, at # "shop" => stopped,
         mall.pass = 3 /\ mall.params.force /\ ~stopped => store.credit <= MaxCredit \/ store.sold = OnSale
  PROVE  MallInv'
<1>1. CASE PassOver
  BY <1>1, PassOverKeeps
<1>2. CASE at = "shop" /\ mall' = [mall EXCEPT !.again = 1, !.list = <<>>] /\ Goes("shop")
  <2>1. /\ DOMAIN mall' = OfMall /\ mall'.params = mall.params /\ mall'.pass = mall.pass /\ mall'.list = <<>>
        /\ at' = "shop" /\ stopped' = stopped
    BY <1>2 DEF Goes, MallInv, OfMall
  <2> SUFFICES ASSUME ~store.doubt PROVE (MallTypeOK /\ BoughtRight /\ BoughtBefore /\ ListRight /\ CreditIsKnown)'
    BY <2>1 DEF MallInv
  <2>2. MallTypeOK /\ BoughtRight /\ BoughtBefore /\ CreditIsKnown
    BY DEF MallInv
  <2>3. MallTypeOK'
    BY <1>2, <2>1, <2>2 DEF MallTypeOK, Buying
  <2>4. BoughtRight' /\ BoughtBefore'
    BY <1>2, <2>1, <2>2 DEF BoughtRight, BoughtBefore, First, MallTypeOK, Buying
  <2>5. ListRight'
    BY <2>1 DEF ListRight, Buying
  <2>6. CreditIsKnown'
    BY <1>2, <2>1, <2>2 DEF CreditIsKnown, MallTypeOK
  <2> QED
    BY <2>3, <2>4, <2>5, <2>6
<1> QED
  BY <1>1, <1>2 DEF PassFails

\* The goods are looked at, and those wanted are listed, unless the pass is over.
LEMMA ShoppingKeeps == ASSUME MallInv, CreditShopping PROVE MallInv'
<1> USE PassesAre
<1> DEFINE all == {i \in DOMAIN Commodities : ToBuy(i)}
<1>1. at = "shop" /\ stopped' = stopped /\ DOMAIN mall' = OfMall /\ DOMAIN store' = OfStore
  BY DEF CreditShopping, Shop, PassOver, PassFails, Goes, MallInv, OfMall, OfStore
<1>2. CASE store' = [store EXCEPT !.doubt = TRUE]
  BY <1>1, <1>2 DEF MallInv, OfStore
<1>3. CASE store.doubt /\ store' = store
  BY <1>1, <1>3 DEF MallInv
<1>4. CASE Shop(store.credit, all) /\ store' = store /\ ~store.doubt
  <2>1. MallTypeOK /\ BoughtRight /\ BoughtBefore /\ CreditIsKnown /\ mall.pass \in 1..3
    BY <1>1, <1>4 DEF MallInv, MallTypeOK, Buying
  <2>2. all \in SUBSET OnSale /\ (mall.pass = 3 => all = OnSale)
    BY <2>1 DEF OnSale, ToBuy
  <2>3. CASE Passes[mall.pass] = "force" /\ ~Overflows(store.credit) /\ PassOver
    <3>1. store.credit <= MaxCredit
      BY <2>1, <2>3, MallAssumption DEF MallTypeOK, Overflows
    <3> QED
      BY <1>1, <1>4, <2>1, <2>3, <3>1, PassOverKeeps
  <2>4. CASE (~CommoditiesInSight \/ all \subseteq SoldOut) /\ PassFails
    <3>1. mall.pass = 3 => store.credit <= MaxCredit \/ store.sold = OnSale
      <4>1. CASE ~store.page
        BY <2>1, <4>1 DEF CreditIsKnown
      <4>2. CASE all \subseteq store.sold
        BY <2>1, <2>2, <4>2 DEF MallTypeOK
      <4> HIDE DEF all
      <4> QED
        BY <2>4, <4>1, <4>2 DEF CommoditiesInSight, SoldOut
    <3> QED
      BY <1>1, <1>4, <2>1, <2>4, <3>1, PassFailsKeeps
  <2>5. ASSUME NEW order \in ShelfOrders(all \ SoldOut), mall' = [mall EXCEPT !.list = order], Goes("buy"),
               ~(Passes[mall.pass] = "force" /\ ~Overflows(store.credit))
        PROVE  MallInv'
    <3>1. /\ mall'.params = mall.params /\ mall'.pass = mall.pass /\ mall'.list = order /\ at' = "buy"
      BY <2>5 DEF MallInv, OfMall, Goes
    <3>2. order \in SetToSeqs(all \ SoldOut) /\ all \ SoldOut \in SUBSET OnSale
      BY <2>2, <2>5 DEF ShelfOrders
    <3>3. /\ order \in Seq(OnSale) /\ DOMAIN order = 1..Len(order) /\ (\A i \in DOMAIN order : order[i] \in all \ SoldOut)
          /\ \A g \in all \ SoldOut : \E i \in DOMAIN order : order[i] = g
      BY <3>2, OrdersAreWhole
    <3>4. mall.pass = 1 => \A i, j \in DOMAIN order : i < j => First(order[i]) <= First(order[j])
      BY <2>5 DEF ShelfOrders, First
    <3>5. \A j \in DOMAIN order : /\ mall.pass = 1 => First(order[j]) # 0
                                  /\ mall.pass = 2 => EntryOf(order[j], mall.params.black) = 0
      BY <3>3 DEF ToBuy, First
    <3>6. mall.pass = 3 => store.credit > MaxCredit
      BY <2>5 DEF Overflows
    <3>7. MallTypeOK'
      <4>1. /\ mall'.params \in Shoppings /\ mall'.pass \in 1..4 /\ mall'.pass # 4 /\ mall'.list \in Seq(OnSale)
            /\ store'.credit \in Int /\ store'.sold \in SUBSET OnSale /\ store'.page \in BOOLEAN /\ store'.bought \in Seq(Purchase)
        BY <1>4, <2>1, <3>1, <3>3 DEF MallTypeOK
      <4>2. at' \notin {"run", "fight", "mall", "succeeded"}
        BY <3>1
      <4> QED
        BY Zenon, <4>1, <4>2 DEF MallTypeOK
    <3>8. BoughtRight' /\ BoughtBefore'
      BY <1>4, <2>1, <3>1 DEF BoughtRight, BoughtBefore, First, Buying
    <3>9. ListRight'
      <4>1. mall.pass = 1 => \A k \in DOMAIN store.bought : store.bought[k].pass # "first"
        BY <1>1, <2>1 DEF BoughtBefore, Buying
      <4>2. mall.pass = 3 => \A g \in OnSale : g \in store.sold \/ \E j \in DOMAIN order : order[j] = g
        BY <2>2, <3>3 DEF SoldOut
      <4>3. \A i \in DOMAIN order : First(order[i])' = First(order[i])
        BY <3>1 DEF First
      <4> QED
        BY <1>4, <3>1, <3>4, <3>5, <4>1, <4>2, <4>3 DEF ListRight, First
    <3>10. CreditIsKnown'
      <4>1. ~store.page => store.credit <= MaxCredit
        BY <2>1 DEF CreditIsKnown
      <4>2. mall.pass # 4
        BY <2>1
      <4>3. at' # "no money"
        BY <3>1
      <4> QED
        BY Zenon, <1>4, <3>1, <3>6, <4>1, <4>2, <4>3 DEF CreditIsKnown
    <3> QED
      BY <1>1, <3>7, <3>8, <3>9, <3>10 DEF MallInv
  <2> HIDE DEF all
  <2> QED
    BY Zenon, <1>4, <2>3, <2>4, <2>5 DEF Shop
<1> QED
  BY Zenon, <1>2, <1>3, <1>4 DEF CreditShopping

\* What a sequence is without its head, and with one more at its end
Follows(rest, s) == \A j \in DOMAIN rest : j \in Nat /\ j + 1 \in DOMAIN s /\ rest[j] = s[j + 1]
Covers(rest, s) == \A j \in DOMAIN s : s[j] = s[1] \/ \E m \in DOMAIN rest : rest[m] = s[j]

\* The head of a sequence and what is left of it
LEMMA Rest ==
  ASSUME NEW S, NEW s \in Seq(S), s # <<>>
  PROVE  /\ Head(s) \in S /\ Tail(s) \in Seq(S) /\ Head(s) = s[1] /\ 1 \in DOMAIN s
         /\ Follows(Tail(s), s) /\ Covers(Tail(s), s)
<1>1. Head(s) \in S /\ Tail(s) \in Seq(S) /\ Head(s) = s[1] /\ 1 \in DOMAIN s
  OBVIOUS
<1>2. \A j \in DOMAIN Tail(s) : j \in Nat /\ j + 1 \in DOMAIN s /\ Tail(s)[j] = s[j + 1]
  OBVIOUS
<1>3. \A j \in DOMAIN s : j # 1 => j - 1 \in DOMAIN Tail(s) /\ Tail(s)[j - 1] = s[j]
  OBVIOUS
<1>4. Covers(Tail(s), s)
  BY <1>3 DEF Covers
<1> QED
  BY <1>1, <1>2, <1>4 DEF Follows

\* A sequence and what it is with one more at its end
LEMMA OneMore ==
  ASSUME NEW S, NEW s \in Seq(S), NEW e \in S
  PROVE  /\ Append(s, e) \in Seq(S)
         /\ \E n \in Nat : /\ DOMAIN s = 1..n /\ DOMAIN Append(s, e) = 1..n + 1 /\ Append(s, e)[n + 1] = e
                           /\ \A k \in 1..n : Append(s, e)[k] = s[k]
<1>1. PICK n \in Nat : n = Len(s)
  OBVIOUS
<1>2. DOMAIN s = 1..n /\ DOMAIN Append(s, e) = 1..n + 1 /\ Append(s, e)[n + 1] = e /\ \A k \in 1..n : Append(s, e)[k] = s[k]
  BY <1>1
<1> QED
  BY <1>2

\* What was doubted stays in doubt.
LEMMA DoubtStays ==
  ASSUME DOMAIN store = OfStore, store.doubt, NEW i, store' = store \/ store' = [store EXCEPT !.doubt = TRUE] \/ Pay(i)
  PROVE  DOMAIN store' = OfStore /\ store'.doubt
<1>1. CASE store' = store
  BY <1>1
<1>2. CASE store' = [store EXCEPT !.doubt = TRUE]
  BY <1>2 DEF OfStore
<1>3. CASE Pay(i)
  <2>1. DOMAIN store' = OfStore /\ store'.doubt = store.doubt
    BY <1>3 DEF Pay, OfStore
  <2> QED
    BY Zenon, <2>1
<1> QED
  BY <1>1, <1>2, <1>3

\* What is paid for is sold; what is too dear is not, and may hide the page.
IsPaid(i, b, n) ==
  /\ store.credit >= Price[i] /\ at' = "bought"
  /\ store'.page = store.page /\ store'.credit = store.credit - Price[i] /\ store'.sold = store.sold \cup {i}
  /\ DOMAIN store'.bought = 1..n + 1 /\ store'.bought \in Seq(Purchase)
  /\ (\A k \in 1..n : store'.bought[k] = store.bought[k]) /\ store'.bought[n + 1] = b

IsTooDear(i) ==
  /\ ~(store.credit >= Price[i]) /\ at' = "no money"
  /\ store'.page \in BOOLEAN /\ store'.credit = store.credit /\ store'.sold = store.sold /\ store'.bought = store.bought

\* A purchase, or an attempt at one
LEMMA PaidKeeps ==
  ASSUME MallInv, ~store.doubt, at = "buy", NEW i \in OnSale, NEW rest \in Seq(OnSale), i = mall.list[1], 1 \in DOMAIN mall.list,
         Follows(rest, mall.list), Covers(rest, mall.list),
         DOMAIN mall' = OfMall, mall'.params = mall.params, mall'.pass = mall.pass, mall'.list = rest, stopped' = stopped,
         DOMAIN store' = OfStore, store'.doubt = store.doubt, NEW b, NEW n \in Nat, DOMAIN store.bought = 1..n,
         b.good = i, b.pass = Passes[mall.pass], b.credit = store.credit, IsPaid(i, b, n) \/ IsTooDear(i)
  PROVE  MallInv'
<1>1. MallTypeOK /\ BoughtRight /\ BoughtBefore /\ ListRight /\ CreditIsKnown
  BY DEF MallInv
<1>2. mall.pass \in 1..3
  BY <1>1 DEF MallTypeOK, Buying
<1>4. Price[i] \in 1..MaxCredit
  BY MallAssumption DEF OnSale
<1>6. CASE IsPaid(i, b, n)
  <2>1. store'.sold = store.sold \cup {i} /\ store'.page = store.page /\ at' = "bought" /\ store'.bought \in Seq(Purchase)
    BY <1>6 DEF IsPaid
  <2>2. store.credit >= Price[i] /\ store'.credit = store.credit - Price[i]
    BY <1>6 DEF IsPaid
  <2>3. /\ DOMAIN store'.bought = 1..n + 1 /\ store'.bought[n + 1] = b
        /\ \A k \in 1..n : store'.bought[k] = store.bought[k]
    BY <1>6 DEF IsPaid
  <2>6. \A g : First(g)' = First(g)
    BY DEF First
  <2>7. MallTypeOK'
    <3>1. /\ mall'.params \in Shoppings /\ mall'.pass \in 1..4 /\ mall'.pass # 4 /\ mall'.list \in Seq(OnSale)
          /\ store'.credit \in Int /\ store'.sold \in SUBSET OnSale /\ store'.page \in BOOLEAN
      BY <1>1, <1>2, <1>4, <2>1, <2>2, MallAssumption DEF MallTypeOK
    <3>2. at' \notin {"run", "fight", "mall", "succeeded"}
      BY <2>1
    <3> QED
      BY Zenon, <2>1, <3>1, <3>2 DEF MallTypeOK
  <2>8. BoughtRight'
    <3>1. mall.pass = 1 => /\ First(i) # 0
                           /\ \A k \in 1..n : store.bought[k].pass = "first" => First(store.bought[k].good) <= First(i)
      BY <1>1, <1>2 DEF ListRight, Buying
    <3>2. mall.pass = 2 => EntryOf(i, mall.params.black) = 0
      BY <1>1, <1>2 DEF ListRight, Buying
    <3>3. mall.pass = 3 => store.credit > MaxCredit
      BY <1>1 DEF CreditIsKnown
    <3>4. /\ b.pass = "first" => mall.pass = 1
          /\ b.pass = "list" => mall.pass = 2
          /\ b.pass = "force" => mall.pass = 3
      <4>1. CASE mall.pass = 1
        BY <4>1, PassesAre
      <4>2. CASE mall.pass = 2
        BY <4>2, PassesAre
      <4>3. CASE mall.pass = 3
        BY <4>3, PassesAre
      <4> QED
        BY <1>2, <4>1, <4>2, <4>3
    <3> SUFFICES ASSUME NEW k \in 1..n + 1
                 PROVE  /\ store'.bought[k].pass = "first" =>
                             /\ First(store'.bought[k].good) # 0
                             /\ \A l \in 1..k - 1 : store'.bought[l].pass = "first" => First(store'.bought[l].good) <= First(store'.bought[k].good)
                        /\ store'.bought[k].pass = "list" => EntryOf(store'.bought[k].good, mall.params.black) = 0
                        /\ store'.bought[k].pass = "force" => store'.bought[k].credit > MaxCredit
      BY <2>3, <2>6 DEF BoughtRight
    <3>5. CASE k = n + 1
      BY <2>3, <3>1, <3>2, <3>3, <3>4, <3>5
    <3>6. CASE k \in 1..n
      <4>1. \A l \in 1..k - 1 : l \in 1..n
        BY <3>6
      <4> QED
        BY <1>1, <2>3, <3>6, <4>1 DEF BoughtRight
    <3> QED
      BY <3>5, <3>6
  <2>9. BoughtBefore'
    BY <2>1 DEF BoughtBefore, Buying
  <2>10. ListRight'
    <3>1. ASSUME NEW j \in DOMAIN rest, mall.pass = 1
          PROVE  /\ First(rest[j]) # 0
                 /\ \A m \in DOMAIN rest : m < j => First(rest[m]) <= First(rest[j])
                 /\ \A k \in 1..n + 1 : store'.bought[k].pass = "first" => First(store'.bought[k].good) <= First(rest[j])
      <4>1. First(rest[j]) # 0 /\ First(i) <= First(rest[j])
        BY <1>1, <1>2, <3>1 DEF ListRight, Buying, Follows
      <4>2. \A m \in DOMAIN rest : m < j => First(rest[m]) <= First(rest[j])
        BY <1>1, <1>2, <3>1 DEF ListRight, Buying, Follows
      <4>3. \A k \in 1..n : store.bought[k].pass = "first" => First(store.bought[k].good) <= First(rest[j])
        BY <1>1, <1>2, <2>1, <3>1 DEF ListRight, Buying, Follows
      <4> QED
        BY <2>3, <4>1, <4>2, <4>3
    <3>2. ASSUME NEW j \in DOMAIN rest, mall.pass = 2 PROVE EntryOf(rest[j], mall.params.black) = 0
      BY <1>1, <1>2, <3>2 DEF ListRight, Buying, Follows
    <3>3. ASSUME NEW g \in OnSale, mall.pass = 3 PROVE g \in store'.sold \/ \E j \in DOMAIN rest : rest[j] = g
      <4>1. CASE g \in store.sold
        BY <2>1, <4>1
      <4>2. CASE g \notin store.sold
        <5>1. PICK j \in DOMAIN mall.list : mall.list[j] = g
          BY <1>1, <1>2, <3>3, <4>2 DEF ListRight, Buying
        <5> QED
          BY <2>1, <5>1 DEF Covers
      <4> QED
        BY <4>1, <4>2
    <3> QED
      BY <2>1, <2>3, <2>6, <3>1, <3>2, <3>3 DEF ListRight
  <2>11. CreditIsKnown'
    <3>1. ~store.page => store.credit <= MaxCredit
      BY <1>1 DEF CreditIsKnown
    <3>2. ~store'.page => store'.credit <= MaxCredit
      BY <1>1, <1>4, <2>1, <2>2, <3>1, MallAssumption DEF MallTypeOK
    <3>3. mall'.pass # 4 /\ at' # "buy" /\ at' # "no money"
      BY <1>2, <2>1
    <3> QED
      BY Zenon, <3>2, <3>3 DEF CreditIsKnown
  <2> QED
    BY <2>7, <2>8, <2>9, <2>10, <2>11 DEF MallInv
<1>7. CASE IsTooDear(i)
  <2>1. store'.page \in BOOLEAN /\ store'.credit = store.credit /\ store'.sold = store.sold /\ store'.bought = store.bought
    BY <1>7 DEF IsTooDear
  <2>2. at' = "no money" /\ \A g : First(g)' = First(g)
    BY <1>7 DEF First, IsTooDear
  <2>3. store.credit <= MaxCredit
    <3>1. store.credit \in Int /\ MaxCredit \in Nat
      BY <1>1, MallAssumption DEF MallTypeOK
    <3>2. ~(store.credit >= Price[i])
      BY <1>7 DEF IsTooDear
    <3> QED
      BY <1>4, <3>1, <3>2
  <2>4. MallTypeOK'
    <3>1. /\ mall'.params \in Shoppings /\ mall'.pass \in 1..4 /\ mall'.pass # 4 /\ mall'.list \in Seq(OnSale)
          /\ store'.credit \in Int /\ store'.sold \in SUBSET OnSale /\ store'.bought \in Seq(Purchase)
      BY <1>1, <1>2, <2>1 DEF MallTypeOK
    <3>2. at' \notin {"run", "fight", "mall", "succeeded"}
      BY <2>2
    <3> QED
      BY Zenon, <2>1, <3>1, <3>2 DEF MallTypeOK
  <2>5. BoughtRight' /\ BoughtBefore'
    BY <1>1, <1>2, <2>1, <2>2 DEF BoughtRight, BoughtBefore, Buying
  <2>6. ListRight'
    <3>1. ASSUME NEW j \in DOMAIN rest, mall.pass = 1
          PROVE  /\ First(rest[j]) # 0
                 /\ \A m \in DOMAIN rest : m < j => First(rest[m]) <= First(rest[j])
                 /\ \A k \in DOMAIN store.bought : store.bought[k].pass = "first" => First(store.bought[k].good) <= First(rest[j])
      BY <1>1, <1>2, <3>1 DEF ListRight, Buying, Follows
    <3>2. ASSUME NEW j \in DOMAIN rest, mall.pass = 2 PROVE EntryOf(rest[j], mall.params.black) = 0
      BY <1>1, <1>2, <3>2 DEF ListRight, Buying, Follows
    <3> QED
      BY <2>1, <2>2, <3>1, <3>2 DEF ListRight
  <2>7. CreditIsKnown'
    <3>1. mall'.pass # 4
      BY <1>2
    <3>2. at' # "buy"
      BY <2>2
    <3>3. store'.credit <= MaxCredit
      BY <2>1, <2>3
    <3> QED
      BY Zenon, <3>1, <3>2, <3>3 DEF CreditIsKnown
  <2> QED
    BY <2>1, <2>4, <2>5, <2>6, <2>7 DEF MallInv
<1> QED
  BY <1>6, <1>7

\* The next of the list is paid, too dear, or lost; an empty list ends the pass.
LEMMA BuyItKeeps == ASSUME MallInv, BuyIt PROVE MallInv'
<1>1. at = "buy" /\ stopped' = stopped
  BY DEF BuyIt, PassOver, PassFails, Goes
<1>2. CASE store.doubt
  <2>1. DOMAIN mall' = OfMall /\ DOMAIN store' = OfStore /\ store'.doubt
    <3>1. DOMAIN mall' = OfMall
      BY DEF BuyIt, PassOver, PassFails, MallInv, OfMall
    <3>2. store' = store \/ store' = [store EXCEPT !.doubt = TRUE] \/ Pay(Head(mall.list))
      BY DEF BuyIt
    <3>3. DOMAIN store' = OfStore /\ store'.doubt
      BY Zenon, <1>2, <3>2, DoubtStays DEF MallInv
    <3> QED
      BY <3>1, <3>3
  <2> QED
    BY <2>1 DEF MallInv
<1>3. CASE ~store.doubt
  <2>1. MallTypeOK /\ ListRight /\ CreditIsKnown
    BY <1>3 DEF MallInv
  <2>2. mall.pass # 4
    BY <1>1, <2>1 DEF MallTypeOK, Buying
  <2>3. CASE mall.list = <<>> /\ PassOver /\ store' = store
    <3>1. ASSUME mall.pass = 3 PROVE store.sold = OnSale
      <4>1. \A g \in OnSale : g \in store.sold \/ \E j \in DOMAIN mall.list : mall.list[j] = g
        BY <1>1, <2>1, <3>1 DEF ListRight, Buying
      <4>2. DOMAIN mall.list = {}
        BY <2>3
      <4>3. store.sold \subseteq OnSale
        BY <2>1 DEF MallTypeOK
      <4> QED
        BY <4>1, <4>2, <4>3
    <3> QED
      BY <1>1, <2>2, <2>3, <3>1, PassOverKeeps DEF Buying
  <2>4. CASE stopped /\ PassFails /\ store' = store
    BY <1>1, <2>2, <2>4, PassFailsKeeps DEF Buying
  <2>5. CASE mall.list # <<>> /\ mall' = [mall EXCEPT !.list = Tail(@)] /\ store' = [store EXCEPT !.doubt = TRUE]
    <3>1. DOMAIN mall' = OfMall /\ DOMAIN store' = OfStore /\ store'.doubt
      BY <2>5 DEF MallInv, OfMall, OfStore
    <3> QED
      BY <3>1 DEF MallInv
  <2>6. CASE /\ mall.list # <<>> /\ mall' = [mall EXCEPT !.list = Tail(@)] /\ Pay(Head(mall.list))
             /\ Goes(IF store.credit >= Price[Head(mall.list)] THEN "bought" ELSE "no money")
    <3>1. PICK i, rest : i = Head(mall.list) /\ rest = Tail(mall.list)
      OBVIOUS
    <3>2. /\ i \in OnSale /\ rest \in Seq(OnSale) /\ i = mall.list[1] /\ 1 \in DOMAIN mall.list
          /\ Follows(rest, mall.list) /\ Covers(rest, mall.list)
      <4>1. mall.list \in Seq(OnSale)
        BY <2>1 DEF MallTypeOK
      <4> QED
        BY <2>6, <3>1, <4>1, Rest
    <3>3. DOMAIN mall' = OfMall /\ mall'.params = mall.params /\ mall'.pass = mall.pass /\ mall'.list = rest
      BY <2>6, <3>1 DEF MallInv, OfMall
    <3>4. PICK b : b = [good |-> i, pass |-> Passes[mall.pass], credit |-> store.credit]
      OBVIOUS
    <3>5. b \in Purchase /\ b.good = i /\ b.pass = Passes[mall.pass] /\ b.credit = store.credit
      <4>1. Passes[mall.pass] \in {"first", "list", "force"}
        BY <2>1, <2>2, PassesAre DEF MallTypeOK
      <4>2. store.credit \in Int
        BY <2>1 DEF MallTypeOK
      <4> QED
        BY <3>2, <3>4, <4>1, <4>2 DEF Purchase
    <3>6. PICK n \in Nat : /\ DOMAIN store.bought = 1..n
                           /\ DOMAIN Append(store.bought, b) = 1..n + 1 /\ Append(store.bought, b)[n + 1] = b
                           /\ \A k \in 1..n : Append(store.bought, b)[k] = store.bought[k]
      BY <2>1, <3>5, OneMore DEF MallTypeOK
    <3>7. DOMAIN store' = OfStore /\ store'.doubt = store.doubt
      BY <2>6 DEF Pay, MallInv, OfStore
    <3>8. IsPaid(i, b, n) \/ IsTooDear(i)
      <4>1. CASE store.credit >= Price[i]
        <5>1. Append(store.bought, b) \in Seq(Purchase)
          BY <2>1, <3>5, OneMore DEF MallTypeOK
        <5>2. /\ store'.page = store.page /\ store'.credit = store.credit - Price[i] /\ store'.sold = store.sold \cup {i}
              /\ store'.bought = Append(store.bought, b) /\ at' = "bought"
          BY <2>6, <3>1, <3>4, <4>1 DEF Pay, Goes, MallInv, OfStore
        <5> QED
          BY <3>6, <4>1, <5>1, <5>2 DEF IsPaid
      <4>2. CASE ~(store.credit >= Price[i])
        BY <2>6, <3>1, <4>2 DEF Pay, Goes, MallInv, OfStore, IsTooDear
      <4> QED
        BY <4>1, <4>2
    <3> QED
      BY <1>1, <1>3, <3>2, <3>3, <3>5, <3>6, <3>7, <3>8, PaidKeeps
  <2> QED
    BY Zenon, <2>3, <2>4, <2>5, <2>6 DEF BuyIt
<1> QED
  BY <1>2, <1>3

\* The passes are skipped, ended and begun.
LEMMA PassStepKeeps == ASSUME MallInv, NextPass \/ SkipPass \/ NoMoney PROVE MallInv'
<1>1. store' = store /\ stopped' = stopped /\ DOMAIN mall' = OfMall
  BY DEF NextPass, SkipPass, NoMoney, PassOver, PassFails, Goes, MallInv, OfMall
<1>2. CASE store.doubt
  BY <1>1, <1>2 DEF MallInv
<1>3. CASE ~store.doubt
  <2>1. MallTypeOK /\ CreditIsKnown
    BY <1>3 DEF MallInv
  <2>2. CASE NextPass
    <3>1. at = "pass" /\ mall' = mall /\ at' \in {"succeeded", "failed", "shop"} /\ mall.pass \in 1..4
      BY <2>1, <2>2 DEF NextPass, Goes, MallTypeOK
    <3>2. (at' = "succeeded" => mall.pass = 4) /\ (at' = "shop" => mall.pass # 4)
      BY <2>2, <3>1, PassesAre DEF NextPass, Goes
    <3>3. DOMAIN store = OfStore /\ store.credit \in Int
      BY <2>1 DEF MallInv, MallTypeOK
    <3>4. at \notin Buying /\ at' \in {"fight", "mall", "pass", "shop", "failed", "succeeded"} /\ at' \notin {"fight", "mall"}
      BY <3>1 DEF Buying
    <3>5. /\ store'.doubt = store.doubt /\ store'.sold = store.sold /\ store'.page = store.page
          /\ store'.bought = store.bought /\ store'.credit = store.credit
      BY Zenon, <1>1
    <3>6. store'.credit \in Int /\ DOMAIN store' = OfStore
      BY Zenon, <1>1, <3>3
    <3>7. stopped => stopped'
      BY Zenon, <1>1
    <3> QED
      BY Zenon, <3>1, <3>2, <3>4, <3>5, <3>6, <3>7, MallRests
  <2>3. CASE SkipPass
    <3>1. at = "shop" /\ PassOver /\ mall.pass # 4
      BY <2>1, <2>3 DEF SkipPass, MallTypeOK
    <3>2. ~(mall.pass = 3 /\ mall.params.force)
      BY <2>3, PassesAre DEF SkipPass, Enabled
    <3> QED
      BY Zenon, <1>1, <3>1, <3>2, PassOverKeeps
  <2>4. CASE NoMoney
    <3>1. at = "no money" /\ at \in Buying /\ mall.pass # 4 /\ store.credit <= MaxCredit
      BY <2>1, <2>4 DEF NoMoney, MallTypeOK, CreditIsKnown, Buying
    <3>2. PassOver \/ (stopped /\ PassFails)
      <4>1. IF stopped THEN PassFails ELSE PassOver
        BY Zenon, <2>4 DEF NoMoney
      <4> QED
        BY Zenon, <4>1
    <3> QED
      BY Zenon, <1>1, <3>1, <3>2, PassOverKeeps, PassFailsKeeps
  <2> QED
    BY Zenon, <2>2, <2>3, <2>4
<1> QED
  BY <1>2, <1>3

\* After a purchase
LEMMA CreditOcrKeeps == ASSUME MallInv, CreditOcr PROVE MallInv'
<1>1. at = "bought" /\ stopped' = stopped /\ DOMAIN mall' = OfMall /\ DOMAIN store' = OfStore
  BY DEF CreditOcr, PassOver, PassFails, Goes, MallInv, OfMall, OfStore
<1>2. CASE store' = [store EXCEPT !.doubt = TRUE]
  BY <1>1, <1>2 DEF MallInv, OfStore
<1>3. CASE store' = store /\ store.doubt
  BY <1>1, <1>3 DEF MallInv
<1>4. CASE store' = store /\ ~store.doubt /\ store' # [store EXCEPT !.doubt = TRUE]
  <2>1. MallTypeOK /\ at \in Buying /\ mall.pass \in 1..3 /\ mall.pass # 4
    BY <1>1, <1>4 DEF MallInv, MallTypeOK, Buying
  <2>2. CASE PassFails /\ stopped
    BY Zenon, <1>4, <2>1, <2>2, PassFailsKeeps
  <2>3. CASE PassOver /\ ~Overflows(store.credit)
    <3>1. store.credit <= MaxCredit
      BY <2>1, <2>3, MallAssumption DEF Overflows, MallTypeOK
    <3> QED
      BY Zenon, <1>4, <2>1, <2>3, <3>1, PassOverKeeps
  <2>4. CASE mall' = mall /\ Goes("buy") /\ (Passes[mall.pass] = "force" => Overflows(store.credit))
    <3>1. at' = "buy" /\ at' \notin {"fight", "mall"} /\ at' # "shop" /\ at' # "succeeded"
      BY <2>4 DEF Goes
    <3>2. mall.pass = 3 => store.credit > MaxCredit
      BY <2>4, PassesAre DEF Overflows
    <3>3. DOMAIN store' = OfStore /\ store'.credit \in Int
      BY <1>4, <2>1 DEF MallInv, MallTypeOK
    <3>4. /\ store'.doubt = store.doubt /\ store'.sold = store.sold /\ store'.page = store.page
          /\ store'.bought = store.bought /\ store'.credit = store.credit
      BY Zenon, <1>4
    <3>5. stopped => stopped'
      BY Zenon, <1>1
    <3> QED
      BY Zenon, <1>1, <2>4, <3>1, <3>2, <3>3, <3>4, <3>5, MallRests
  <2> QED
    BY Zenon, <1>4, <2>2, <2>3, <2>4 DEF CreditOcr
<1> QED
  BY Zenon, <1>2, <1>3, <1>4 DEF CreditOcr

\* Friends are visited, credit is fought for, and the store is gone to.
LEMMA MallOpensKeeps == ASSUME MallInv, Visit \/ CreditFight \/ ToMall PROVE MallInv'
<1>1. mall' = mall /\ stopped' \in {stopped, TRUE} /\ at \in {"run", "fight", "mall"}
  BY DEF Visit, CreditFight, ToMall, Goes, Sub
<1>2. at' \in {"fight", "mall", "pass", "failed"} /\ at' # "shop" /\ at' # "succeeded" /\ at \notin Buying
  BY <1>1 DEF Visit, CreditFight, ToMall, Goes, Buying
<1>3. store' = store \/ (at \in {"run", "fight"} /\ \E gain \in {0, 1} : store' = [store EXCEPT !.credit = @ + gain])
  BY DEF Visit, CreditFight, ToMall
<1>4. DOMAIN store' = OfStore /\ store'.doubt = store.doubt
  BY <1>3 DEF MallInv, OfStore
<1>5. CASE store.doubt
  <2>1. store'.doubt
    BY Zenon, <1>4, <1>5
  <2> QED
    BY <1>1, <1>4, <2>1 DEF MallInv
<1>6. CASE ~store.doubt
  <2>1. MallTypeOK
    BY <1>6 DEF MallInv
  <2>2. /\ store'.sold = store.sold /\ store'.page = store.page
        /\ store'.bought = store.bought /\ store'.credit \in Int /\ (store'.credit = store.credit \/ at \in {"run", "fight"})
    BY <1>3, <2>1 DEF MallTypeOK, MallInv, OfStore
  <2>3. stopped => stopped'
    BY <1>1
  <2>4. at' \in {"fight", "mall", "pass", "shop", "failed", "succeeded"}
    BY <1>2
  <2> QED
    BY Zenon, <1>1, <1>2, <1>4, <2>2, <2>3, <2>4, MallRests
<1> QED
  BY <1>5, <1>6

\* All that the credit store does
LEMMA MallKeeps == ASSUME MallInv, MallNext PROVE MallInv'
BY Zenon, MallOpensKeeps, PassStepKeeps, CreditOcrKeeps, BuyItKeeps, ShoppingKeeps DEF MallNext

\* Of all steps the credit store can take part in its own and a stop.
LEMMA StepOfMall ==
  ASSUME [Next]_vars, task = "mall"
  PROVE  MallNext \/ (UNCHANGED <<at, mall, store>> /\ (stopped => stopped'))
BY Zenon DEF Next, Only, vars, Own, StopWorker, worker

\* A client that stops the task
LEMMA MallStops == ASSUME MallInv, UNCHANGED <<at, mall, store>>, stopped => stopped' PROVE MallInv'
BY DEF MallInv, MallTypeOK, BoughtRight, BoughtBefore, ListRight, CreditIsKnown, First, Buying

\* What MallInv says is at least what the property asks.
LEMMA MallIsRight == MallInv /\ task = "mall" => CreditsAreSpentAsAsked
<1> SUFFICES ASSUME MallInv, ~store.doubt PROVE CreditsAreSpentAsAsked
  BY DEF CreditsAreSpentAsAsked
<1>1. MallTypeOK /\ BoughtRight /\ CreditIsKnown
  BY DEF MallInv
<1>2. \A g : First(g) = EntryOf(g, mall.params.first)
  BY DEF First
<1>3. at = "succeeded" /\ mall.params.force /\ ~stopped => store.credit <= MaxCredit \/ store.sold = DOMAIN Commodities
  BY <1>1 DEF MallTypeOK, CreditIsKnown, OnSale
<1> QED
  BY <1>1, <1>2, <1>3 DEF BoughtRight, CreditsAreSpentAsAsked
-----------------------------------------------------------------------------
OfGiven == {"kind", "set", "enable", "running", "begun"}
OfAsked == {"p", "ok", "calls", "inside", "saw", "late"}

\* c is the record of a task of this kind; that of an award has nothing to set.
IsOf(kind, c) == DOMAIN c = DOMAIN NewTask(kind) /\ (kind = "Award" => c = NewTask(kind))

Whole(p) == \A k \in DOMAIN p : p[k] # Absent

\* What ParamsAreLast says of the task c and of one that was set for the first time
AsFresh(kind, c, fresh) ==
  CASE kind = "Infrast" -> c.subs = fresh.subs
    [] kind = "Fight" -> \A k \in DOMAIN fresh : k # "stage" \/ c.nav => c[k] = fresh[k]
    [] kind = "Mall" -> \A k \in DOMAIN fresh : k # "black" \/ c.shop => c[k] = fresh[k]
    [] kind \in {"Copilot", "SSSCopilot", "Roguelike", "SingleStep"} -> TRUE
    [] OTHER -> c = fresh

ParamsInv ==
  /\ DOMAIN given = OfGiven /\ DOMAIN asked = OfAsked /\ given.kind \in InterfaceKinds /\ IsOf(given.kind, given.set)
  /\ given.running \in BOOLEAN /\ asked.saw \in BOOLEAN
  /\ at = "run" => ~asked.inside
  /\ at \in {"run", "listed"} => ~given.running
  /\ asked.saw => given.running
  /\ at = "listed" \/ asked.inside => asked.p \in ParamsOf(given.kind)
  /\ given.running /\ ~asked.late /\ given.kind # "SingleStep" => WayOf(given.kind, given.set) = WayOf(given.kind, given.begun)
  /\ at = "listed" /\ asked.ok /\ ~asked.inside /\ Whole(asked.p) =>
       AsFresh(given.kind, given.set, SetParams(given.kind, NewTask(given.kind), asked.p, FALSE).task)

\* What each kind is set by
LEMMA SetParamsOf ==
  ASSUME NEW c, NEW p, NEW running
  PROVE  /\ SetParams("Fight", c, p, running) = FightParams(c, p, running)
         /\ SetParams("Mall", c, p, running) = MallParams(c, p, running)
         /\ SetParams("Recruit", c, p, running) = RecruitParams(c, p)
         /\ SetParams("Infrast", c, p, running) = InfrastParams(c, p, running)
         /\ SetParams("Copilot", c, p, running) = CopilotParams(c, p, running)
         /\ SetParams("SSSCopilot", c, p, running) = SSSCopilotParams(c, p, running)
         /\ SetParams("Roguelike", c, p, running) = RoguelikeParams(c, p)
         /\ SetParams("StartUp", c, p, running) = StartUpParams(c, p)
         /\ SetParams("Reclamation", c, p, running) = ReclamationParams(c, p)
         /\ SetParams("SingleStep", c, p, running) = SingleStepParams(c, p)
         /\ SetParams("Award", c, p, running) = Accepts(c)
BY DEF SetParams

\* And what it is made with
LEMMA FieldsOf ==
  /\ DOMAIN NewTask("Fight") = {"way", "nav", "stage", "times", "drops"}
  /\ DOMAIN NewTask("Mall") = {"first", "shop", "black", "force", "credit"}
  /\ DOMAIN NewTask("Recruit") = {"levels"}
  /\ DOMAIN NewTask("Infrast") = {"subs", "drones", "plans"}
  /\ DOMAIN NewTask("Copilot") = {"data", "formation", "rounds", "stop"}
  /\ DOMAIN NewTask("SSSCopilot") = {"data", "formation", "rounds"}
  /\ DOMAIN NewTask("Roguelike") = {"theme", "debug", "leave", "cancel", "starts", "invest", "core"}
  /\ DOMAIN NewTask("StartUp") = {"start"}
  /\ DOMAIN NewTask("Reclamation") = {"mode"}
  /\ DOMAIN NewTask("SingleStep") = {"subs", "stage"}
BY DEF NewTask, NewFight, NewMall, NewInfrast, NewCopilot, NewSSSCopilot, NewRoguelike

\* No set_params adds a field or takes one away.
LEMMA FieldsStay ==
  ASSUME NEW c, NEW p, NEW running
  PROVE  /\ DOMAIN FightParams(c, p, running).task = DOMAIN c /\ DOMAIN MallParams(c, p, running).task = DOMAIN c
         /\ DOMAIN RecruitParams(c, p).task = DOMAIN c /\ DOMAIN InfrastParams(c, p, running).task = DOMAIN c
         /\ DOMAIN CopilotParams(c, p, running).task = DOMAIN c /\ DOMAIN SSSCopilotParams(c, p, running).task = DOMAIN c
         /\ DOMAIN RoguelikeParams(c, p).task = DOMAIN c /\ DOMAIN StartUpParams(c, p).task = DOMAIN c
         /\ DOMAIN ReclamationParams(c, p).task = DOMAIN c /\ DOMAIN SingleStepParams(c, p).task = DOMAIN c
<1>1. DOMAIN FightParams(c, p, running).task = DOMAIN c
  BY DEF FightParams, Accepts, Refuses
<1>2. DOMAIN MallParams(c, p, running).task = DOMAIN c
  BY DEF MallParams, Accepts, Refuses
<1>3. DOMAIN RecruitParams(c, p).task = DOMAIN c /\ DOMAIN StartUpParams(c, p).task = DOMAIN c
  BY DEF RecruitParams, StartUpParams, Accepts, Refuses
<1>4. DOMAIN InfrastParams(c, p, running).task = DOMAIN c
  BY DEF InfrastParams, CustomPlan, Accepts, Refuses
<1>5. DOMAIN CopilotParams(c, p, running).task = DOMAIN c
  BY DEF CopilotParams, Accepts, Refuses
<1>6. DOMAIN SSSCopilotParams(c, p, running).task = DOMAIN c
  BY DEF SSSCopilotParams, Accepts, Refuses
<1>7. DOMAIN RoguelikeParams(c, p).task = DOMAIN c
  BY DEF RoguelikeParams, Accepts, Refuses
<1>8. DOMAIN ReclamationParams(c, p).task = DOMAIN c /\ DOMAIN SingleStepParams(c, p).task = DOMAIN c
  BY DEF ReclamationParams, SingleStepParams, Accepts, Refuses
<1> QED
  BY <1>1, <1>2, <1>3, <1>4, <1>5, <1>6, <1>7, <1>8

\* A task stays one of its kind.
LEMMA StaysOfKind ==
  ASSUME NEW kind \in InterfaceKinds, NEW c, IsOf(kind, c), NEW p, NEW running
  PROVE  IsOf(kind, SetParams(kind, c, p, running).task)
<1>1. CASE kind = "Award"
  <2>1. SetParams(kind, c, p, running).task = c
    BY <1>1, SetParamsOf DEF Accepts
  <2> QED
    BY <2>1
<1>2. CASE kind # "Award"
  <2>1. DOMAIN SetParams(kind, c, p, running).task = DOMAIN c
    BY <1>2, SetParamsOf, FieldsStay DEF InterfaceKinds
  <2> QED
    BY <1>2, <2>1 DEF IsOf
<1> QED
  BY <1>1, <1>2

\* A call that saw the task run leaves its way alone.
LEMMA WayStays ==
  ASSUME NEW kind \in InterfaceKinds, kind # "SingleStep", NEW c, IsOf(kind, c), NEW p
  PROVE  WayOf(kind, SetParams(kind, c, p, TRUE).task) = WayOf(kind, c)
<1>1. CASE kind = "Fight"
  <2>1. PICK d : d = FightParams(c, p, TRUE).task
    OBVIOUS
  <2>2. d.way = c.way /\ d.nav = c.nav /\ d.stage = c.stage
    BY <1>1, <2>1, FieldsOf DEF IsOf, FightParams, Accepts, Refuses
  <2> QED
    BY <1>1, <2>1, <2>2, SetParamsOf DEF WayOf
<1>2. CASE kind = "Mall"
  <2>1. PICK d : d = MallParams(c, p, TRUE).task
    OBVIOUS
  <2>2. d.credit = c.credit
    BY <1>2, <2>1, FieldsOf DEF IsOf, MallParams, Accepts, Refuses
  <2>3. SetParams(kind, c, p, TRUE).task = d
    BY <1>2, <2>1, SetParamsOf
  <2> QED
    BY <1>2, <2>2, <2>3 DEF WayOf
<1>3. CASE kind = "Infrast"
  <2>1. InfrastParams(c, p, TRUE).task.subs = c.subs
    BY <1>3, FieldsOf DEF IsOf, InfrastParams, Accepts, Refuses
  <2> QED
    BY <1>3, <2>1, SetParamsOf DEF WayOf
<1>4. CASE kind \in {"Copilot", "SSSCopilot"}
  <2>1. CopilotParams(c, p, TRUE).task = c /\ SSSCopilotParams(c, p, TRUE).task = c
    BY DEF CopilotParams, SSSCopilotParams, Accepts, Refuses
  <2>2. SetParams(kind, c, p, TRUE) = CopilotParams(c, p, TRUE) \/ SetParams(kind, c, p, TRUE) = SSSCopilotParams(c, p, TRUE)
    BY <1>4 DEF SetParams
  <2> QED
    BY <2>1, <2>2
<1>5. CASE kind \in {"Recruit", "Roguelike", "StartUp", "Reclamation", "Award"}
  BY <1>5 DEF WayOf
<1> QED
  BY <1>1, <1>2, <1>3, <1>4, <1>5 DEF InterfaceKinds

\* Params that are accepted and give every key make of any task what they make of a new one.
LEMMA FightAlone ==
  ASSUME NEW c, NEW n, DOMAIN c = {"way", "nav", "stage", "times", "drops"}, DOMAIN n = DOMAIN c, NEW p, p.drops # Absent,
         FightParams(c, p, FALSE).ok
  PROVE  AsFresh("Fight", FightParams(c, p, FALSE).task, FightParams(n, p, FALSE).task)
<1>1. PICK d, fresh : d = FightParams(c, p, FALSE).task /\ fresh = FightParams(n, p, FALSE).task
  OBVIOUS
<1>2. \A k \in DOMAIN fresh : k # "stage" \/ d.nav => d[k] = fresh[k]
  BY <1>1 DEF FightParams, Accepts, Refuses, OrOld
<1> QED
  BY <1>1, <1>2 DEF AsFresh

\* For the credit store, too; the black list counts only if it shops.
LEMMA MallAlone ==
  ASSUME NEW c, NEW n, DOMAIN c = {"first", "shop", "black", "force", "credit"}, DOMAIN n = DOMAIN c, NEW p, p.black # Absent
  PROVE  AsFresh("Mall", MallParams(c, p, FALSE).task, MallParams(n, p, FALSE).task)
<1>1. PICK d, fresh : d = MallParams(c, p, FALSE).task /\ fresh = MallParams(n, p, FALSE).task
  OBVIOUS
<1>2. \A k \in DOMAIN fresh : k # "black" \/ d.shop => d[k] = fresh[k]
  BY <1>1 DEF MallParams, Accepts, Refuses, OrOld
<1> QED
  BY <1>1, <1>2 DEF AsFresh

\* Those with one field are equal.
LEMMA OtherAlone ==
  ASSUME NEW c, NEW n, DOMAIN n = DOMAIN c, NEW p
  PROVE  /\ DOMAIN c = {"levels"} /\ RecruitParams(c, p).ok => RecruitParams(c, p).task = RecruitParams(n, p).task
         /\ DOMAIN c = {"start"} => StartUpParams(c, p).task = StartUpParams(n, p).task
         /\ DOMAIN c = {"mode"} /\ ReclamationParams(c, p).ok => ReclamationParams(c, p).task = ReclamationParams(n, p).task
<1>1. ASSUME DOMAIN c = {"levels"}, RecruitParams(c, p).ok PROVE RecruitParams(c, p).task = RecruitParams(n, p).task
  BY <1>1 DEF RecruitParams, Accepts, Refuses
<1>2. ASSUME DOMAIN c = {"start"} PROVE StartUpParams(c, p).task = StartUpParams(n, p).task
  BY <1>2 DEF StartUpParams, Accepts
<1>3. ASSUME DOMAIN c = {"mode"}, ReclamationParams(c, p).ok PROVE ReclamationParams(c, p).task = ReclamationParams(n, p).task
  BY <1>3 DEF ReclamationParams, Accepts, Refuses
<1> QED
  BY <1>1, <1>2, <1>3

\* All kinds together
LEMMA LastAlone ==
  ASSUME NEW kind \in InterfaceKinds, NEW c, IsOf(kind, c), NEW p \in ParamsOf(kind), Whole(p), SetParams(kind, c, p, FALSE).ok
  PROVE  AsFresh(kind, SetParams(kind, c, p, FALSE).task, SetParams(kind, NewTask(kind), p, FALSE).task)
<1>1. DOMAIN NewTask(kind) = DOMAIN c
  BY DEF IsOf
<1>2. CASE kind = "Fight"
  <2>1. p.drops # Absent
    BY <1>2 DEF ParamsOf, Whole
  <2>2. SetParams(kind, c, p, FALSE) = FightParams(c, p, FALSE)
    BY <1>2 DEF SetParams
  <2>4. DOMAIN c = {"way", "nav", "stage", "times", "drops"} /\ FightParams(c, p, FALSE).ok
    BY <1>1, <1>2, <2>2, FieldsOf
  <2>3. AsFresh("Fight", FightParams(c, p, FALSE).task, FightParams(NewTask("Fight"), p, FALSE).task)
    BY <1>1, <1>2, <2>1, <2>4, FightAlone
  <2> QED
    BY <1>2, <2>3, SetParamsOf
<1>3. CASE kind = "Mall"
  <2>1. p.black # Absent
    BY <1>3 DEF ParamsOf, Whole
  <2>2. DOMAIN c = {"first", "shop", "black", "force", "credit"}
    BY <1>1, <1>3, FieldsOf
  <2>3. AsFresh("Mall", MallParams(c, p, FALSE).task, MallParams(NewTask("Mall"), p, FALSE).task)
    BY <1>1, <1>3, <2>1, <2>2, MallAlone
  <2> QED
    BY <1>3, <2>3, SetParamsOf
<1>4. CASE kind = "Infrast"
  <2>1. p.plan \in {"no file", "Mfg", "Fiammetta"}
    BY <1>4 DEF ParamsOf
  <2>2. SetParams(kind, c, p, FALSE) = InfrastParams(c, p, FALSE)
    BY <1>4 DEF SetParams
  <2>3. SetParams(kind, NewTask(kind), p, FALSE) = InfrastParams(NewTask(kind), p, FALSE)
    BY <1>4 DEF SetParams
  <2>4. DOMAIN c = {"subs", "drones", "plans"} /\ InfrastParams(c, p, FALSE).ok
    BY <1>1, <1>4, <2>2, FieldsOf
  <2>5. InfrastParams(c, p, FALSE).task.subs = InfrastParams(NewTask(kind), p, FALSE).task.subs
    BY <1>1, <2>1, <2>4 DEF InfrastParams, CustomPlan, Accepts, Refuses
  <2> QED
    BY <1>4, <2>2, <2>3, <2>5 DEF AsFresh
<1>5. CASE kind \in {"Copilot", "SSSCopilot", "Roguelike", "SingleStep"}
  BY <1>5 DEF AsFresh
<1>6. CASE kind \in {"Recruit", "StartUp", "Reclamation"}
  <2> SUFFICES SetParams(kind, c, p, FALSE).task = SetParams(kind, NewTask(kind), p, FALSE).task
    BY <1>6 DEF AsFresh
  <2>1. CASE kind = "Recruit"
    <3>1. SetParams(kind, c, p, FALSE) = RecruitParams(c, p) /\ SetParams(kind, NewTask(kind), p, FALSE) = RecruitParams(NewTask(kind), p)
      BY <2>1 DEF SetParams
    <3>2. DOMAIN c = {"levels"}
      BY <1>1, <2>1, FieldsOf
    <3> QED
      BY <1>1, <3>1, <3>2, OtherAlone
  <2>2. CASE kind = "StartUp"
    <3>1. SetParams(kind, c, p, FALSE) = StartUpParams(c, p) /\ SetParams(kind, NewTask(kind), p, FALSE) = StartUpParams(NewTask(kind), p)
      BY <2>2 DEF SetParams
    <3>2. DOMAIN c = {"start"}
      BY <1>1, <2>2, FieldsOf
    <3> QED
      BY <1>1, <3>1, <3>2, OtherAlone
  <2>3. CASE kind = "Reclamation"
    <3>1. SetParams(kind, c, p, FALSE) = ReclamationParams(c, p) /\ SetParams(kind, NewTask(kind), p, FALSE) = ReclamationParams(NewTask(kind), p)
      BY <2>3 DEF SetParams
    <3>2. DOMAIN c = {"mode"}
      BY <1>1, <2>3, FieldsOf
    <3> QED
      BY <1>1, <3>1, <3>2, OtherAlone
  <2> QED
    BY <1>6, <2>1, <2>2, <2>3
<1>7. CASE kind = "Award"
  <2>1. SetParams(kind, c, p, FALSE).task = SetParams(kind, NewTask(kind), p, FALSE).task
    BY <1>7 DEF IsOf
  <2> QED
    BY <1>7, <2>1 DEF AsFresh
<1> QED
  BY <1>2, <1>3, <1>4, <1>5, <1>6, <1>7 DEF InterfaceKinds

\* A task that is made is not in the list, and nobody calls.
LEMMA ParamsStart == ASSUME WorkerInit("params"), ParamsInit PROVE ParamsInv
<1>1. at = "run"
  BY DEF WorkerInit
<1>2. /\ DOMAIN given = OfGiven /\ DOMAIN asked = OfAsked /\ given.kind \in InterfaceKinds /\ given.set = NewTask(given.kind)
      /\ given.running = FALSE /\ asked.inside = FALSE /\ asked.saw = FALSE
  BY DEF ParamsInit, OfGiven, OfAsked
<1>3. IsOf(given.kind, given.set)
  BY <1>2 DEF IsOf
<1>4. /\ ~given.running /\ ~asked.inside /\ ~asked.saw /\ at # "listed"
      /\ given.running \in BOOLEAN /\ asked.saw \in BOOLEAN
  BY <1>1, <1>2
<1> QED
  BY Zenon, <1>2, <1>3, <1>4 DEF ParamsInv

\* append_task
LEMMA AppendTaskKeeps == ASSUME ParamsInv, AppendTask PROVE ParamsInv'
<1>0. PICK p \in ParamsOf(given.kind), enable \in BOOLEAN :
        LET s == SetParams(given.kind, given.set, p, FALSE)
        IN  /\ given' = [given EXCEPT !.set = s.task, !.enable = enable]
            /\ asked' = [asked EXCEPT !.p = p, !.ok = s.ok]
            /\ Goes(IF s.ok THEN "listed" ELSE "failed")
  BY DEF AppendTask
<1>1. PICK s :
        /\ s = SetParams(given.kind, given.set, p, FALSE)
        /\ given' = [given EXCEPT !.set = s.task, !.enable = enable]
        /\ asked' = [asked EXCEPT !.p = p, !.ok = s.ok]
        /\ Goes(IF s.ok THEN "listed" ELSE "failed")
  BY <1>0
<1>2. DOMAIN given = OfGiven /\ DOMAIN asked = OfAsked /\ given.kind \in InterfaceKinds /\ IsOf(given.kind, given.set)
  BY DEF ParamsInv
<1>3. ~given.running /\ ~asked.inside /\ at = "run" /\ (asked.saw => given.running)
  BY DEF ParamsInv, AppendTask
<1>4. /\ DOMAIN given' = OfGiven /\ given'.kind = given.kind /\ given'.set = s.task /\ given'.running = given.running
      /\ DOMAIN asked' = OfAsked /\ asked'.p = p /\ asked'.ok = s.ok /\ asked'.inside = asked.inside /\ asked'.saw = asked.saw
  BY <1>1, <1>2 DEF OfGiven, OfAsked
<1>5. at' # "run" /\ (at' = "listed" => s.ok)
  BY <1>1 DEF Goes
<1>6. IsOf(given.kind, s.task)
  BY <1>1, <1>2, StaysOfKind
<1>7. at' = "listed" /\ Whole(p) => AsFresh(given.kind, s.task, SetParams(given.kind, NewTask(given.kind), p, FALSE).task)
  BY <1>1, <1>2, <1>5, LastAlone
<1>8. ~given'.running /\ ~asked'.saw /\ ~asked'.inside
  BY Zenon, <1>3, <1>4
<1> QED
  BY Zenon, <1>1, <1>2, <1>4, <1>5, <1>6, <1>7, <1>8 DEF ParamsInv

\* set_task_params, up to the look at m_running: the task is not touched,
LEMMA SetTaskParamsKeeps == ASSUME ParamsInv, SetTaskParams PROVE ParamsInv'
<1>1. PICK p \in ParamsOf(given.kind), enable \in BOOLEAN :
        /\ asked' = [asked EXCEPT !.p = p, !.calls = @ + 1, !.inside = TRUE, !.saw = given.running]
        /\ given' = [given EXCEPT !.enable = enable]
  BY DEF SetTaskParams
<1>2. DOMAIN given = OfGiven /\ DOMAIN asked = OfAsked
  BY DEF ParamsInv
<1>3. /\ DOMAIN given' = OfGiven /\ given'.kind = given.kind /\ given'.set = given.set /\ given'.running = given.running
      /\ given'.begun = given.begun
      /\ DOMAIN asked' = OfAsked /\ asked'.p = p /\ asked'.inside = TRUE /\ asked'.saw = given.running /\ asked'.late = asked.late
  BY <1>1, <1>2 DEF OfGiven, OfAsked
<1>4. at' = at /\ at # "run" /\ asked'.inside
  BY <1>3 DEF SetTaskParams, Stays, worker
<1> QED
  BY Zenon, <1>1, <1>3, <1>4 DEF ParamsInv

\* and from there on: what was seen is true, or the call is late.
LEMMA ParamsAreSetKeeps == ASSUME ParamsInv, ParamsAreSet PROVE ParamsInv'
<1>1. PICK s : /\ s = SetParams(given.kind, given.set, asked.p, asked.saw)
               /\ given' = [given EXCEPT !.set = s.task]
               /\ asked' = [asked EXCEPT !.ok = s.ok, !.inside = FALSE, !.p = IF given.running THEN Absent ELSE @,
                                         !.late = @ \/ (given.running /\ ~asked.saw)]
  BY DEF ParamsAreSet
<1>2. DOMAIN given = OfGiven /\ DOMAIN asked = OfAsked /\ given.kind \in InterfaceKinds /\ IsOf(given.kind, given.set)
  BY DEF ParamsInv
<1>3. asked.inside /\ asked.p \in ParamsOf(given.kind)
  BY DEF ParamsInv, ParamsAreSet
<1>4. /\ DOMAIN given' = OfGiven /\ given'.kind = given.kind /\ given'.set = s.task /\ given'.running = given.running
      /\ given'.begun = given.begun
  BY <1>1, <1>2 DEF OfGiven
<1>5. /\ DOMAIN asked' = OfAsked /\ asked'.ok = s.ok /\ asked'.inside = FALSE /\ asked'.saw = asked.saw
      /\ (~given.running => asked'.p = asked.p)
      /\ asked'.late = (asked.late \/ (given.running /\ ~asked.saw))
  BY <1>1, <1>2 DEF OfAsked
<1>6. at' = at
  BY DEF ParamsAreSet, Stays, worker
<1>7. IsOf(given.kind, s.task)
  BY <1>1, <1>2, StaysOfKind
<1>8. ASSUME given.running, ~asked'.late, given.kind # "SingleStep" PROVE WayOf(given.kind, s.task) = WayOf(given.kind, given.begun)
  <2>1. asked.saw /\ ~asked.late
    BY <1>5, <1>8
  <2>4. asked.saw = TRUE
    BY Zenon, <2>1 DEF ParamsInv
  <2>2. s.task = SetParams(given.kind, given.set, asked.p, TRUE).task
    BY <1>1, <2>4
  <2>3. WayOf(given.kind, s.task) = WayOf(given.kind, given.set)
    BY <1>2, <1>8, <2>2, WayStays
  <2> QED
    BY Zenon, <1>8, <2>1, <2>3 DEF ParamsInv
<1>9. ASSUME at = "listed", s.ok, Whole(asked.p)
      PROVE  AsFresh(given.kind, s.task, SetParams(given.kind, NewTask(given.kind), asked.p, FALSE).task)
  <2>1. ~asked.saw
    BY Zenon, <1>9 DEF ParamsInv
  <2>2. asked.saw = FALSE
    BY Zenon, <2>1 DEF ParamsInv
  <2>3. s = SetParams(given.kind, given.set, asked.p, FALSE)
    BY <1>1, <2>2
  <2> QED
    BY <1>2, <1>3, <1>9, <2>3, LastAlone
<1>10. at = "listed" => ~given.running /\ asked'.p = asked.p
  BY Zenon, <1>5 DEF ParamsInv
<1>11. ~asked'.inside
  BY <1>5
<1> QED
  BY Zenon, <1>2, <1>3, <1>4, <1>5, <1>6, <1>7, <1>8, <1>9, <1>10, <1>11 DEF ParamsInv

\* The way a task begins with is the one it has.
LEMMA TaskBeginsKeeps == ASSUME ParamsInv, TaskBegins PROVE ParamsInv'
<1>1. DOMAIN given = OfGiven /\ DOMAIN asked = OfAsked
  BY DEF ParamsInv
<1>2. at = "listed" /\ at' = "runs" /\ at' \notin {"run", "listed"}
  BY DEF TaskBegins, Goes
<1>3. /\ DOMAIN asked' = OfAsked /\ asked'.inside = asked.inside /\ asked'.saw = asked.saw /\ asked'.late = asked.late
      /\ (asked.inside => asked'.p = asked.p)
  BY <1>1 DEF TaskBegins, OfAsked
<1>4. ~given.running /\ ~asked.saw
  BY Zenon, <1>2 DEF ParamsInv
<1>5. CASE given' = given
  BY Zenon, <1>2, <1>3, <1>4, <1>5 DEF ParamsInv
<1>6. CASE given' = [given EXCEPT !.running = TRUE, !.begun = given.set]
  <2>1. DOMAIN given' = OfGiven /\ given'.kind = given.kind /\ given'.set = given.set /\ given'.begun = given.set
    BY <1>1, <1>6 DEF OfGiven
  <2>2. ~asked'.saw /\ at' # "run" /\ at' # "listed"
    BY Zenon, <1>2, <1>3, <1>4
  <2>3. given'.running = TRUE /\ given'.running \in BOOLEAN
    BY <1>1, <1>6 DEF OfGiven
  <2> QED
    BY Zenon, <1>2, <1>3, <2>1, <2>2, <2>3 DEF ParamsInv
<1> QED
  BY <1>5, <1>6 DEF TaskBegins

\* What is over is in nobody's hands.
LEMMA TaskIsOverKeeps == ASSUME ParamsInv, TaskIsOver PROVE ParamsInv'
<1>1. given' = given /\ asked' = asked /\ at' # "run" /\ at' # "listed"
  BY DEF TaskIsOver, Goes
<1> QED
  BY Zenon, <1>1 DEF ParamsInv

\* All that is done with params
LEMMA ParamsKeep == ASSUME ParamsInv, ParamsNext PROVE ParamsInv'
BY Zenon, AppendTaskKeeps, SetTaskParamsKeeps, ParamsAreSetKeeps, TaskBeginsKeeps, TaskIsOverKeeps DEF ParamsNext

\* Of all steps the params can take part in their own and a stop.
LEMMA StepOfParams ==
  ASSUME [Next]_vars, task = "params"
  PROVE  ParamsNext \/ UNCHANGED <<at, given, asked>>
BY Zenon DEF Next, Only, vars, Own, StopWorker, worker

\* What ParamsInv says of a task that waits and of one that runs is what the properties ask.
LEMMA ParamsAreRight == ParamsInv => ParamsAreLast /\ RunningKeepsWay
<1> SUFFICES ASSUME ParamsInv PROVE ParamsAreLast /\ RunningKeepsWay
  OBVIOUS
<1>1. RunningKeepsWay
  BY Zenon DEF ParamsInv, RunningKeepsWay
<1>2. ParamsAreLast
  BY Zenon DEF ParamsInv, ParamsAreLast, Whole, AsFresh
<1> QED
  BY <1>1, <1>2

MeantInv ==
  /\ task = "mall" => MallInv
  /\ task = "params" => ParamsInv

\* What a client has set last is what the task does, one that runs keeps its way, and the
\* credit is spent as it was asked (the tasks of Task/Interface, CreditShoppingTask).
THEOREM ParamsDecide == Spec => []ParamsAreMeant
<1>1. Init => MeantInv
  BY MallStarts, ParamsStart DEF Init, WorkerInit, MeantInv
<1>2. MeantInv /\ [Next]_vars => MeantInv'
  <2> SUFFICES ASSUME MeantInv, [Next]_vars PROVE MeantInv'
    OBVIOUS
  <2>1. task' = task
    BY TaskKept
  <2>2. task = "mall" => MallInv'
    BY StepOfMall, MallKeeps, MallStops DEF MeantInv
  <2>3. ASSUME task = "params" PROVE ParamsInv'
    <3>1. CASE ParamsNext
      BY <2>3, <3>1, ParamsKeep DEF MeantInv
    <3>2. CASE UNCHANGED <<at, given, asked>>
      BY Zenon, <2>3, <3>2 DEF MeantInv, ParamsInv
    <3> QED
      BY <2>3, <3>1, <3>2, StepOfParams
  <2> QED
    BY <2>1, <2>2, <2>3 DEF MeantInv
<1>3. MeantInv => ParamsAreMeant
  BY Zenon, MallIsRight, ParamsAreRight DEF MeantInv, ParamsAreMeant, CreditsAreSpentAsAsked, ParamsAreLast, RunningKeepsWay
<1> QED
  BY <1>1, <1>2, <1>3, PTL DEF Spec
-----------------------------------------------------------------------------
OfPlan == {"custom", "rooms"}
OfShift == {"index", "tries", "drone"}
OfHouse == {"asked", "picked", "held", "changed", "drones", "unsure"}
RoomKept == [names : SUBSET Operator, selected : Nat, skip : BOOLEAN]

\* What is consumed of a plan is neither its length nor what it skips.
PlanTypes ==
  /\ DOMAIN plan = OfPlan /\ DOMAIN shift = OfShift /\ DOMAIN house = OfHouse
  /\ plan.custom \in BOOLEAN /\ house.unsure \in BOOLEAN
  /\ shift.index \in Nat \ {0} /\ house.drones \in Nat
  /\ plan.rooms \in Seq(RoomKept) /\ house.asked \in Seq(RoomKept)

PlanKept ==
  /\ Len(plan.rooms) = Len(house.asked) /\ (plan.custom => Len(plan.rooms) > 0)
  /\ \A r \in 1..Len(plan.rooms) : plan.rooms[r].skip = house.asked[r].skip

\* The room where operators are selected is one of the plan that is not skipped.
RoomIsOfPlan ==
  plan.custom =>
    /\ at \in {"opened", "select", "confirm", "after"} => shift.index <= Len(plan.rooms)
    /\ at \in {"select", "confirm", "after"} => ~plan.rooms[shift.index].skip
    /\ \A r \in house.changed : r <= Len(house.asked) /\ ~house.asked[r].skip

\* The product waits for the drones as long as they were not used.
DronesAreCounted ==
  ~plan.custom =>
    /\ shift.drone \in {"none", "wanted"}
    /\ ~house.unsure => house.drones <= 1 /\ (shift.drone = "wanted" => house.drones = 0)

PlanInv == PlanTypes /\ PlanKept /\ RoomIsOfPlan /\ DronesAreCounted

\* The plan is the one that was given.
LEMMA PlanStarts == ASSUME WorkerInit("infrast"), InfrastInit PROVE PlanInv
<1>1. /\ DOMAIN plan = OfPlan /\ plan.custom \in BOOLEAN
      /\ plan.rooms \in Seq(RoomKept) /\ (plan.custom => Len(plan.rooms) > 0)
  <2>1. CASE plan \in [custom : {FALSE}, rooms : {<< >>}]
    <3>1. DOMAIN plan = OfPlan /\ plan.custom = FALSE /\ plan.rooms = << >>
      BY <2>1 DEF OfPlan
    <3>2. << >> \in Seq(RoomKept)
      OBVIOUS
    <3> QED
      BY Zenon, <3>1, <3>2
  <2>2. CASE plan \in [custom : {TRUE}, rooms : UNION {[1..n -> RoomPlan] : n \in 1..Rooms}]
    <3>1. DOMAIN plan = OfPlan /\ plan.custom = TRUE
      BY <2>2 DEF OfPlan
    <3>2. PICK n \in 1..Rooms : plan.rooms \in [1..n -> RoomPlan]
      BY <2>2
    <3>3. RoomPlan \subseteq RoomKept
      BY DEF RoomPlan, RoomKept
    <3>4. plan.rooms \in [1..n -> RoomKept] /\ n \in Nat
      BY <3>2, <3>3, InfrastAssumption
    <3>5. plan.rooms \in Seq(RoomKept) /\ Len(plan.rooms) = n
      BY <3>4
    <3>6. Len(plan.rooms) > 0
      BY <3>2, <3>5, InfrastAssumption
    <3> QED
      BY Zenon, <3>1, <3>5, <3>6
  <2> QED
    BY Zenon, <2>1, <2>2 DEF InfrastInit
<1>2. /\ DOMAIN shift = OfShift /\ shift.index = 1 /\ shift.drone \in (IF plan.custom THEN {"none", "pre", "post"} ELSE {"none", "wanted"})
  BY DEF InfrastInit, OfShift
<1>3. /\ DOMAIN house = OfHouse /\ house.asked = plan.rooms /\ house.changed = {} /\ house.drones = 0 /\ house.unsure = FALSE
  BY DEF InfrastInit, OfHouse
<1>4. at = "run"
  BY DEF WorkerInit
<1>5. PlanTypes
  <2>1. 0 \in Nat /\ 1 \in Nat \ {0}
    OBVIOUS
  <2> QED
    BY Zenon, <1>1, <1>2, <1>3, <2>1 DEF PlanTypes
<1>6. PlanKept
  BY Zenon, <1>1, <1>3 DEF PlanKept
<1>7. RoomIsOfPlan
  BY <1>3, <1>4 DEF RoomIsOfPlan
<1>8. DronesAreCounted
  <2>1. ~plan.custom => shift.drone \in {"none", "wanted"}
    BY Zenon, <1>2
  <2> QED
    BY <1>3, <2>1 DEF DronesAreCounted
<1> QED
  BY <1>5, <1>6, <1>7, <1>8 DEF PlanInv

\* On the way from room to room nothing is changed but where the task is.
LEMMA WalkKeeps ==
  ASSUME PlanInv, UNCHANGED plan, DOMAIN shift' = OfShift, shift'.index \in Nat \ {0}, shift'.drone = shift.drone,
         DOMAIN house' = OfHouse, house'.asked = house.asked, house'.changed = house.changed,
         house'.drones = house.drones, house'.unsure = house.unsure,
         plan.custom => /\ at' \in {"opened", "select", "confirm", "after"} => shift'.index <= Len(plan.rooms)
                        /\ at' \in {"select", "confirm", "after"} => ~plan.rooms[shift'.index].skip
  PROVE  PlanInv'
BY Zenon DEF PlanInv, PlanTypes, PlanKept, RoomIsOfPlan, DronesAreCounted

\* The drones, in a room that is looked at
LEMMA UseDroneKeeps ==
  ASSUME PlanInv, NEW works \in BOOLEAN, NEW used \in BOOLEAN, UseDrone(works, used), UNCHANGED plan, ~plan.custom => shift.drone = "wanted",
         plan.custom /\ at' \in {"opened", "select", "confirm", "after"} => at' = "opened" /\ shift.index <= Len(plan.rooms)
  PROVE  PlanInv'
<1>1. /\ DOMAIN house' = OfHouse /\ house'.asked = house.asked /\ house'.changed = house.changed
      /\ house'.drones = (IF used THEN house.drones + 1 ELSE house.drones)
      /\ house'.unsure = (house.unsure \/ (used /\ ~works))
  BY DEF UseDrone, PlanInv, PlanTypes, OfHouse
<1>2. /\ DOMAIN shift' = OfShift /\ shift'.index = shift.index
      /\ shift'.drone = IF shift.drone = "wanted" /\ works THEN "none" ELSE shift.drone
  BY DEF UseDrone, PlanInv, PlanTypes, OfShift
<1>3. house'.unsure \in BOOLEAN /\ (~house'.unsure => ~house.unsure /\ (used => works)) /\ (works => used)
  BY Zenon, <1>1 DEF UseDrone
<1>4. house'.drones \in Nat
  BY <1>1 DEF PlanInv, PlanTypes
<1>5. PlanTypes' /\ PlanKept'
  BY Zenon, <1>1, <1>2, <1>3, <1>4 DEF PlanInv, PlanTypes, PlanKept
<1>6. RoomIsOfPlan'
  BY Zenon, <1>1, <1>2 DEF PlanInv, RoomIsOfPlan
<1>7. DronesAreCounted'
  <2> SUFFICES ASSUME ~plan.custom PROVE DronesAreCounted'
    BY DEF DronesAreCounted
  <2>1. shift'.drone \in {"none", "wanted"}
    BY <1>2 DEF PlanInv, DronesAreCounted
  <2>2. ASSUME ~house'.unsure PROVE house'.drones <= 1 /\ (shift'.drone = "wanted" => house'.drones = 0)
    <3>1. ~house.unsure /\ house.drones = 0 /\ used = works
      BY Zenon, <1>3, <2>2 DEF PlanInv, DronesAreCounted
    <3> QED
      BY <1>1, <1>2, <3>1
  <2> QED
    BY Zenon, <2>1, <2>2 DEF DronesAreCounted
<1> QED
  BY <1>5, <1>6, <1>7 DEF PlanInv

\* The names that were found are erased from the plan of the room, or restored.
LEMMA SelectCustomKeeps == ASSUME PlanInv, SelectCustom PROVE PlanInv'
<1>1. PICK seen \in SUBSET Names, kept \in Cleared, passes \in BOOLEAN :
        LET room == plan.rooms[shift.index]
            left == [room EXCEPT !.names = @ \ seen, !.selected = @ + Cardinality(seen)]
            chosen == kept \cup seen
        IN /\ Cardinality(seen) <= RoomSize
           /\ passes => left.names = {} /\ Names \subseteq chosen
           /\ IF passes THEN Goes("confirm") /\ UNCHANGED shift ELSE TryAgain
           /\ plan' = Restored(IF left.names = {} /\ ~passes THEN room ELSE left)
           /\ house' = [house EXCEPT !.picked = chosen]
  BY Zenon DEF SelectCustom
<1> DEFINE room == plan.rooms[shift.index]
<1> DEFINE left == [room EXCEPT !.names = @ \ seen, !.selected = @ + Cardinality(seen)]
<1>2. InPlan(shift.index) /\ plan.custom /\ shift.index \in 1..Len(plan.rooms) /\ at = "select"
  BY DEF SelectCustom, Names, InPlan, PlanInv, PlanTypes
<1>3. room \in RoomKept /\ Names = room.names
  BY <1>2 DEF Names, PlanInv, PlanTypes
<1>4. IsFiniteSet(seen)
  <2>1. seen \subseteq Operator
    BY <1>3 DEF RoomKept
  <2> QED
    BY <2>1, FS_Subset, InfrastAssumption
<1>5. Cardinality(seen) \in Nat
  BY <1>4, FS_CardinalityType
<1>6. left \in RoomKept /\ left.skip = room.skip
  <2> HIDE DEF room
  <2>1. left = [room EXCEPT !.names = room.names \ seen, !.selected = room.selected + Cardinality(seen)]
    OBVIOUS
  <2>2. room.names \ seen \in SUBSET Operator /\ room.selected + Cardinality(seen) \in Nat
    BY <1>3, <1>5 DEF RoomKept
  <2> HIDE DEF left
  <2> QED
    BY <1>3, <2>1, <2>2 DEF RoomKept
<1>7. PICK r \in RoomKept : plan' = [plan EXCEPT !.rooms[shift.index] = r] /\ r.skip = room.skip
  <2>1. plan' = Restored(room) \/ plan' = Restored(left)
    BY Zenon, <1>1
  <2> HIDE DEF left, room
  <2> QED
    BY Zenon, <1>3, <1>6, <2>1 DEF Restored
<1>8. DOMAIN plan' = OfPlan /\ plan'.custom = plan.custom /\ plan'.rooms = [plan.rooms EXCEPT ![shift.index] = r]
  BY <1>7 DEF PlanInv, PlanTypes, OfPlan
<1>9. plan'.rooms \in Seq(RoomKept) /\ Len(plan'.rooms) = Len(plan.rooms)
  BY <1>2, <1>7, <1>8 DEF PlanInv, PlanTypes
<1>10. \A i \in 1..Len(plan.rooms) : plan'.rooms[i].skip = plan.rooms[i].skip
  BY <1>2, <1>7, <1>8 DEF PlanInv, PlanTypes
<1>11. /\ DOMAIN house' = OfHouse /\ house'.asked = house.asked /\ house'.changed = house.changed
       /\ house'.drones = house.drones /\ house'.unsure = house.unsure
  BY <1>1 DEF PlanInv, PlanTypes, OfHouse
<1>12. /\ DOMAIN shift' = OfShift /\ shift'.index = shift.index /\ shift'.drone = shift.drone /\ at' \in {"select", "confirm"}
  <2>1. CASE Goes("confirm") /\ UNCHANGED shift
    BY <2>1 DEF Goes, PlanInv, PlanTypes
  <2>2. CASE TryAgain
    BY <1>2, <2>2 DEF TryAgain, Stays, worker, PlanInv, PlanTypes, OfShift
  <2> QED
    BY Zenon, <1>1, <2>1, <2>2
<1>13. PlanTypes' /\ PlanKept'
  BY Zenon, <1>8, <1>9, <1>10, <1>11, <1>12 DEF PlanInv, PlanTypes, PlanKept
<1>14. RoomIsOfPlan' /\ DronesAreCounted'
  BY Zenon, <1>2, <1>8, <1>9, <1>10, <1>11, <1>12 DEF PlanInv, RoomIsOfPlan, DronesAreCounted
<1> QED
  BY <1>13, <1>14 DEF PlanInv

\* What is confirmed is a room of the plan that is not skipped.
LEMMA ConfirmRoomKeeps == ASSUME PlanInv, ConfirmRoom PROVE PlanInv'
<1>1. at = "confirm" /\ at' = "after" /\ plan' = plan /\ shift' = shift
  BY DEF ConfirmRoom, Goes
<1>2. CASE house' = house
  BY <1>1, <1>2, WalkKeeps DEF PlanInv, PlanTypes, RoomIsOfPlan
<1>3. CASE house' = [house EXCEPT !.held[shift.index] = house.picked, !.changed = @ \cup {shift.index}]
  <2>1. /\ DOMAIN house' = OfHouse /\ house'.asked = house.asked /\ house'.changed = house.changed \cup {shift.index}
        /\ house'.drones = house.drones /\ house'.unsure = house.unsure
    BY <1>3 DEF PlanInv, PlanTypes, OfHouse
  <2>2. PlanTypes' /\ PlanKept' /\ DronesAreCounted'
    BY Zenon, <1>1, <2>1 DEF PlanInv, PlanTypes, PlanKept, DronesAreCounted
  <2>3. plan.custom => shift.index <= Len(house.asked) /\ ~house.asked[shift.index].skip
    <3> SUFFICES ASSUME plan.custom PROVE shift.index <= Len(house.asked) /\ ~house.asked[shift.index].skip
      OBVIOUS
    <3>1. shift.index \in 1..Len(plan.rooms) /\ ~plan.rooms[shift.index].skip
      BY <1>1 DEF PlanInv, PlanTypes, RoomIsOfPlan
    <3>2. shift.index <= Len(house.asked)
      BY <3>1 DEF PlanInv, PlanKept
    <3> QED
      BY Zenon, <3>1, <3>2 DEF PlanInv, PlanKept
  <2>4. RoomIsOfPlan'
    BY <1>1, <2>1, <2>3 DEF PlanInv, RoomIsOfPlan
  <2> QED
    BY <2>2, <2>4 DEF PlanInv
<1> QED
  BY Zenon, <1>2, <1>3 DEF ConfirmRoom

\* All that a shift consists of
LEMMA InfrastKeeps == ASSUME PlanInv, InfrastNext PROVE PlanInv'
<1>1. DOMAIN shift = OfShift /\ DOMAIN house = OfHouse /\ shift.index \in Nat \ {0} /\ plan.rooms \in Seq(RoomKept) /\ plan.custom \in BOOLEAN
  BY DEF PlanInv, PlanTypes
<1>2. InfrastFails => at' \in {"run", "failed"}
  BY DEF InfrastFails, RunFails
<1>3. plan.custom /\ shift.index = 1 => shift.index <= Len(plan.rooms)
  BY <1>1 DEF PlanInv, PlanKept
<1>4. CASE EnterFacility
  <2>1. DOMAIN shift' = OfShift /\ shift'.index \in Nat \ {0} /\ shift'.drone = shift.drone /\ plan' = plan /\ house' = house
        /\ at' \in {"run", "failed", "tab"}
    <3>1. CASE Goes("tab") /\ shift' = [shift EXCEPT !.index = 1]
      BY <1>1, <1>4, <3>1 DEF EnterFacility, Goes, OfShift
    <3>2. CASE InfrastFails /\ UNCHANGED shift
      BY <1>1, <1>2, <1>4, <3>2 DEF EnterFacility
    <3> QED
      BY Zenon, <1>4, <3>1, <3>2 DEF EnterFacility
  <2> QED
    BY <1>1, <2>1, WalkKeeps
<1>5. CASE NextTab
  <2>1. DOMAIN shift' = OfShift /\ shift'.index \in Nat \ {0} /\ shift'.drone = shift.drone /\ plan' = plan /\ house' = house
        /\ at' \in {"run", "failed", "tab", "succeeded"}
    <3>1. CASE shift' = shift
      BY <1>1, <1>2, <1>5, <3>1 DEF NextTab, Goes, Stays, worker
    <3>2. CASE shift' = [shift EXCEPT !.index = @ + 1] /\ Stays
      BY <1>1, <1>5, <3>2 DEF NextTab, Stays, worker, OfShift
    <3> QED
      BY Zenon, <1>5, <3>1, <3>2 DEF NextTab
  <2> QED
    BY <1>1, <2>1, WalkKeeps
<1>6. CASE OpenRoom
  <2>1. plan.custom => shift.index <= Len(plan.rooms)
    BY <1>1, <1>3, <1>6 DEF OpenRoom, InPlan
  <2>2. CASE DronesHere("pre") /\ \E works, used \in BOOLEAN : UseDrone(works, used) /\ Goes("opened")
    <3>1. PICK works \in BOOLEAN, used \in BOOLEAN : UseDrone(works, used) /\ Goes("opened")
      BY Zenon, <2>2
    <3>2. plan.custom
      BY <2>2 DEF DronesHere, PlanInv, DronesAreCounted
    <3> QED
      BY <1>6, <2>1, <3>1, <3>2, UseDroneKeeps DEF OpenRoom, Goes
  <2>3. CASE Goes("opened") /\ UNCHANGED <<shift, house>>
    BY <1>1, <1>6, <2>1, <2>3, WalkKeeps DEF OpenRoom, Goes
  <2> QED
    BY Zenon, <1>6, <2>2, <2>3 DEF OpenRoom
<1>7. CASE EnterOperators
  <2>1. /\ DOMAIN house' = OfHouse /\ house'.asked = house.asked /\ house'.changed = house.changed
        /\ house'.drones = house.drones /\ house'.unsure = house.unsure /\ plan' = plan
    BY <1>1, <1>7 DEF EnterOperators, OfHouse
  <2>2. at = "opened"
    BY <1>7 DEF EnterOperators
  <2>3. CASE Goes("tab") /\ shift' = [shift EXCEPT !.index = @ + 1]
    <3>1. DOMAIN shift' = OfShift /\ shift'.index \in Nat \ {0} /\ shift'.drone = shift.drone /\ at' = "tab"
      BY <1>1, <2>3 DEF Goes, OfShift
    <3> QED
      BY <2>1, <3>1, WalkKeeps
  <2>4. CASE ~Skips /\ Goes("select") /\ shift' = [shift EXCEPT !.tries = 0]
    <3>1. DOMAIN shift' = OfShift /\ shift'.index = shift.index /\ shift'.drone = shift.drone /\ at' = "select"
      BY <1>1, <2>4 DEF Goes, OfShift
    <3>2. plan.custom => shift.index <= Len(plan.rooms)
      BY <2>2 DEF PlanInv, RoomIsOfPlan
    <3>3. plan.custom => ~plan.rooms[shift.index].skip
      BY Zenon, <2>4, <3>2 DEF Skips, InPlan
    <3> QED
      BY Zenon, <1>1, <2>1, <3>1, <3>2, <3>3, WalkKeeps
  <2> QED
    BY Zenon, <1>7, <2>3, <2>4 DEF EnterOperators
<1>8. CASE SelectBest \/ SelectStops \/ SelectGivesUp
  <2>1. /\ DOMAIN house' = OfHouse /\ house'.asked = house.asked /\ house'.changed = house.changed
        /\ house'.drones = house.drones /\ house'.unsure = house.unsure /\ plan' = plan /\ at = "select"
    <3>1. CASE house' = house
      BY <1>1, <1>8, <3>1 DEF SelectBest, SelectStops, SelectGivesUp
    <3>2. CASE SelectBest /\ \E kept \in Cleared : house' = [house EXCEPT !.picked = kept]
      BY <1>1, <3>2 DEF SelectBest, OfHouse
    <3> QED
      BY Zenon, <1>8, <3>1, <3>2 DEF SelectBest, SelectStops, SelectGivesUp
  <2>2. DOMAIN shift' = OfShift /\ shift'.index = shift.index /\ shift'.drone = shift.drone /\ at' \in {"run", "failed", "select", "confirm"}
    <3>1. CASE shift' = shift /\ (InfrastFails \/ Goes("confirm"))
      BY <1>1, <1>2, <3>1 DEF Goes
    <3>2. CASE TryAgain
      BY <1>1, <2>1, <3>2 DEF TryAgain, Stays, worker, OfShift
    <3> QED
      BY Zenon, <1>8, <3>1, <3>2 DEF SelectBest, SelectStops, SelectGivesUp
  <2>3. plan.custom => shift.index <= Len(plan.rooms) /\ ~plan.rooms[shift.index].skip
    BY <2>1 DEF PlanInv, RoomIsOfPlan
  <2> QED
    BY Zenon, <1>1, <2>1, <2>2, <2>3, WalkKeeps
<1>9. CASE LeaveRoom
  <2>1. CASE (DronesHere("post") \/ shift.drone = "wanted") /\ \E works, used \in BOOLEAN : UseDrone(works, used) /\ Goes("next")
    <3>1. PICK works \in BOOLEAN, used \in BOOLEAN : UseDrone(works, used) /\ Goes("next")
      BY Zenon, <2>1
    <3>2. ~plan.custom => shift.drone = "wanted"
      BY <2>1 DEF DronesHere, PlanInv, DronesAreCounted
    <3> QED
      BY <1>9, <3>1, <3>2, UseDroneKeeps DEF LeaveRoom, Goes
  <2>2. CASE Goes("next") /\ UNCHANGED <<shift, house>>
    BY <1>1, <1>9, <2>2, WalkKeeps DEF LeaveRoom, Goes
  <2> QED
    BY Zenon, <1>9, <2>1, <2>2 DEF LeaveRoom
<1>10. CASE NextRoom
  <2>1. DOMAIN shift' = OfShift /\ shift'.index \in Nat \ {0} /\ shift'.drone = shift.drone /\ plan' = plan /\ house' = house /\ at' = "tab"
    BY <1>1, <1>10 DEF NextRoom, Goes, OfShift
  <2> QED
    BY <1>1, <2>1, WalkKeeps
<1> QED
  BY Zenon, <1>4, <1>5, <1>6, <1>7, <1>8, <1>9, <1>10, SelectCustomKeeps, ConfirmRoomKeeps DEF InfrastNext

\* Of all steps a shift can take part in its own and a stop.
LEMMA StepOfInfrast ==
  ASSUME [Next]_vars, task = "infrast"
  PROVE  InfrastNext \/ UNCHANGED <<at, plan, shift, house>>
BY Zenon DEF Next, Only, vars, Own, StopWorker, worker

\* A stop changes nothing of it.
LEMMA InfrastStops == ASSUME PlanInv, UNCHANGED <<at, plan, shift, house>> PROVE PlanInv'
BY Zenon DEF PlanInv, PlanTypes, PlanKept, RoomIsOfPlan, DronesAreCounted

\* The rooms and the drones are what was to be shown.
LEMMA PlanIsRight == PlanInv => PlanIsFollowed
<1>1. PlanInv /\ ~plan.custom => (house.drones > 1 => house.unsure)
  BY DEF PlanInv, PlanTypes, DronesAreCounted
<1> QED
  BY Zenon, <1>1 DEF PlanInv, RoomIsOfPlan, PlanIsFollowed
-----------------------------------------------------------------------------
OfDorm == {"index", "custom", "autofill", "skip", "trust", "names", "selected", "origin", "step", "num", "resting", "trusted", "fill"}
OfRooms == {"picked", "unread", "full", "idle"}

DormTypes ==
  /\ DOMAIN dorm = OfDorm /\ DOMAIN rooms = OfRooms
  /\ dorm.num \in Nat /\ dorm.selected \in Nat /\ dorm.origin.selected \in Nat
  /\ dorm.names \subseteq Person /\ dorm.origin.names \subseteq Person /\ rooms.picked \subseteq Person

\* What is reviewed and confirmed
DormIsLooked ==
  /\ at \in {"review", "confirm"} => dorm.num = 0 \/ dorm.num >= DormSize
  /\ at = "confirm" => DormReview(rooms.unread)
  /\ rooms.full = TRUE /\ rooms.idle = TRUE

DormInv == DormTypes /\ DormIsLooked

\* Nothing was confirmed yet.
LEMMA DormStarts == ASSUME WorkerInit("dorm"), DormInit PROVE DormInv
<1>1. /\ DOMAIN dorm = OfDorm /\ dorm.num = 0 /\ dorm.selected = 0 /\ dorm.names \subseteq Person
      /\ dorm.origin = [names |-> {}, selected |-> 0]
  BY DEF DormInit, OfDorm
<1>2. DOMAIN rooms = OfRooms /\ rooms.picked = {} /\ rooms.full = TRUE /\ rooms.idle = TRUE /\ at = "run"
  BY DEF DormInit, OfRooms, WorkerInit
<1> QED
  BY <1>1, <1>2 DEF DormInv, DormTypes, DormIsLooked

\* So many have been found of those that were named.
LEMMA SeenAreCounted == ASSUME NEW seen \in SUBSET Person PROVE Cardinality(seen) \in Nat
BY FS_Subset, FS_CardinalityType, DormAssumption

\* Away from the confirmation a step only has to keep the count of clicks.
LEMMA DormGoesOn ==
  ASSUME DormInv, DormTypes', rooms'.full = rooms.full, rooms'.idle = rooms.idle, at' # "confirm",
         at' = "review" => dorm'.num = 0 \/ dorm'.num >= DormSize
  PROVE  DormInv'
BY DEF DormInv, DormIsLooked

\* A failure puts the plan back, or not.
LEMMA DormFailsKeeps == ASSUME DormInv, NEW restore \in BOOLEAN, DormFails(restore) PROVE DormInv'
<1>1. at' \in {"run", "failed"} /\ rooms' = rooms
  BY DEF DormFails, RunFails
<1>2. DormTypes'
  <2>1. CASE dorm' = dorm
    BY <1>1, <2>1 DEF DormInv, DormTypes
  <2>2. CASE dorm' = [dorm EXCEPT !.names = dorm.origin.names, !.selected = dorm.origin.selected]
    BY <1>1, <2>2 DEF DormInv, DormTypes, OfDorm
  <2> QED
    BY Zenon, <2>1, <2>2 DEF DormFails
<1> QED
  BY <1>1, <1>2, DormGoesOn

\* A dormitory is entered: its plan is kept for later.
LEMMA EnterDormKeeps == ASSUME DormInv, EnterDorm PROVE DormInv'
<1>1. CASE Goes("succeeded") /\ UNCHANGED <<dorm, rooms>>
  BY <1>1, DormGoesOn DEF Goes, DormInv, DormTypes
<1>2. CASE DormFails(FALSE)
  BY <1>2, DormFailsKeeps
<1>3. CASE at = "run" /\ Stays /\ dorm' = [dorm EXCEPT !.index = @ + 1] /\ UNCHANGED rooms
  <2>1. DormTypes' /\ at' = "run"
    BY <1>3 DEF DormInv, DormTypes, OfDorm, Stays, worker
  <2> QED
    BY <1>3, <2>1, DormGoesOn
<1>4. ASSUME NEW held \in SUBSET Person, rooms' = [rooms EXCEPT !.picked = held], Goes("plan"),
             dorm' = [dorm EXCEPT !.origin = DormPlan, !.num = 0, !.trusted = 0, !.fill = FALSE]
      PROVE  DormInv'
  <2>1. DOMAIN rooms' = OfRooms /\ rooms'.picked = held /\ rooms'.full = rooms.full /\ rooms'.idle = rooms.idle
    BY <1>4 DEF DormInv, DormTypes, OfRooms
  <2>2. DOMAIN dorm' = OfDorm /\ dorm'.num = 0 /\ dorm'.selected = dorm.selected /\ dorm'.names = dorm.names /\ dorm'.origin = DormPlan
    BY <1>4 DEF DormInv, DormTypes, OfDorm
  <2>3. DormPlan.names = dorm.names /\ DormPlan.selected = dorm.selected
    BY DEF DormPlan
  <2>4. DormTypes'
    BY <2>1, <2>2, <2>3 DEF DormInv, DormTypes
  <2> QED
    BY <1>4, <2>1, <2>4, DormGoesOn DEF Goes
<1> QED
  BY Zenon, <1>1, <1>2, <1>3, <1>4 DEF EnterDorm

\* Those who are named are looked for.
LEMMA SelectNamesKeeps == ASSUME DormInv, SelectNames PROVE DormInv'
<1>1. PICK seen \in SUBSET dorm.names, kept \in {{}, rooms.picked} :
        /\ rooms' = [rooms EXCEPT !.picked = kept \cup seen]
        /\ dorm' = [dorm EXCEPT !.names = @ \ seen, !.selected = @ + Cardinality(seen),
                      !.num = IF dorm.custom /\ ~dorm.autofill THEN 0
                              ELSE IF dorm.custom THEN dorm.selected + Cardinality(seen) ELSE 0]
  BY Zenon DEF SelectNames
<1>2. Cardinality(seen) \in Nat
  BY SeenAreCounted DEF DormInv, DormTypes
<1> DEFINE n == IF dorm.custom /\ ~dorm.autofill THEN 0 ELSE IF dorm.custom THEN dorm.selected + Cardinality(seen) ELSE 0
<1>3. n \in Nat /\ (dorm.custom /\ ~dorm.autofill => n = 0)
  BY <1>2 DEF DormInv, DormTypes
<1>4. dorm' = [dorm EXCEPT !.names = dorm.names \ seen, !.selected = dorm.selected + Cardinality(seen), !.num = n]
  BY Zenon, <1>1
<1> HIDE DEF n
<1>5. /\ DOMAIN dorm' = OfDorm /\ dorm'.num = n /\ dorm'.selected = dorm.selected + Cardinality(seen) /\ dorm'.names = dorm.names \ seen
      /\ dorm'.origin = dorm.origin
  BY <1>4 DEF DormInv, DormTypes, OfDorm
<1>6. DOMAIN rooms' = OfRooms /\ rooms'.picked = kept \cup seen /\ rooms'.full = rooms.full /\ rooms'.idle = rooms.idle
  BY <1>1 DEF DormInv, DormTypes, OfRooms
<1>7. DormTypes'
  BY <1>2, <1>3, <1>5, <1>6 DEF DormInv, DormTypes
<1>8. at' = (IF dorm.custom /\ ~dorm.autofill THEN "review" ELSE "page")
  BY DEF SelectNames, Goes
<1>9. at' = "review" => dorm'.num = 0
  BY <1>3, <1>5, <1>8
<1>10. at' # "confirm"
  BY <1>8
<1> QED
  BY <1>6, <1>7, <1>9, <1>10, DormGoesOn

\* A click is counted.
LEMMA PutInDormKeeps ==
  ASSUME DormInv, NEW p \in Person, NEW d, d \in {dorm, [dorm EXCEPT !.fill = TRUE]}, PutInDorm(p, d), at' = "oper"
  PROVE  DormInv'
<1>1. DOMAIN d = OfDorm /\ d.num = dorm.num /\ d.selected = dorm.selected /\ d.names = dorm.names /\ d.origin = dorm.origin
  BY DEF DormInv, DormTypes, OfDorm
<1>2. /\ DOMAIN dorm' = OfDorm /\ dorm'.num = dorm.num + 1 /\ dorm'.selected = dorm.selected /\ dorm'.names = dorm.names
      /\ dorm'.origin = dorm.origin
  BY <1>1 DEF PutInDorm, OfDorm
<1>3. DOMAIN rooms' = OfRooms /\ rooms'.picked = DormClick(p) /\ rooms'.full = rooms.full /\ rooms'.idle = rooms.idle
  BY DEF PutInDorm, DormInv, DormTypes, OfRooms
<1>4. DormTypes'
  BY <1>2, <1>3 DEF DormInv, DormTypes, DormClick
<1> QED
  BY <1>3, <1>4, DormGoesOn

\* The pages of the list
LEMMA PagesKeep ==
  ASSUME DormInv, NEW p \in Person, NEW full \in BOOLEAN,
         FillWith(p) \/ RestInDorm(p) \/ SeeRested(p) \/ ReadTrust(p, full)
  PROVE  DormInv'
<1>1. at = "oper" /\ (Stays => at' = "oper")
  BY Zenon DEF FillWith, RestInDorm, SeeRested, ReadTrust, Stays, worker
<1>2. CASE (PutInDorm(p, dorm) \/ PutInDorm(p, [dorm EXCEPT !.fill = TRUE])) /\ Stays
  BY Zenon, <1>1, <1>2, PutInDormKeeps
<1>3. CASE /\ UNCHANGED rooms /\ (Stays \/ Goes("page"))
           /\ \/ dorm' = [dorm EXCEPT !.trusted = @ + 1, !.step = "Fill", !.fill = TRUE]
              \/ dorm' = [dorm EXCEPT !.trusted = @ + 1]
              \/ dorm' = [dorm EXCEPT !.resting = @ + 1]
              \/ dorm' = [dorm EXCEPT !.resting = 0, !.step = "Trust"]
              \/ dorm' = [dorm EXCEPT !.resting = @ + 1, !.step = "Fill"]
  <2>3. /\ DOMAIN dorm' = OfDorm /\ dorm'.num = dorm.num /\ dorm'.selected = dorm.selected /\ dorm'.names = dorm.names
        /\ dorm'.origin = dorm.origin
    <3>1. DOMAIN dorm = OfDorm
      BY DEF DormInv, DormTypes
    <3>2. CASE dorm' = [dorm EXCEPT !.trusted = @ + 1, !.step = "Fill", !.fill = TRUE]
      BY <3>1, <3>2 DEF OfDorm
    <3>3. CASE dorm' = [dorm EXCEPT !.trusted = @ + 1] \/ dorm' = [dorm EXCEPT !.resting = @ + 1]
      BY <3>1, <3>3 DEF OfDorm
    <3>4. CASE dorm' = [dorm EXCEPT !.resting = 0, !.step = "Trust"]
      BY <3>1, <3>4 DEF OfDorm
    <3>5. CASE dorm' = [dorm EXCEPT !.resting = @ + 1, !.step = "Fill"]
      BY <3>1, <3>5 DEF OfDorm
    <3> QED
      BY Zenon, <1>3, <3>2, <3>3, <3>4, <3>5
  <2>1. DormTypes' /\ rooms' = rooms
    BY Zenon, <1>3, <2>3 DEF DormInv, DormTypes
  <2>2. at' \in {"oper", "page"}
    BY <1>1, <1>3 DEF Goes
  <2> QED
    BY <2>1, <2>2, DormGoesOn
<1> QED
  BY Zenon, <1>2, <1>3 DEF FillWith, RestInDorm, SeeRested, ReadTrust

\* What was reviewed is confirmed: it is as full as was counted.
LEMMA ConfirmDormKeeps == ASSUME DormInv, ConfirmDorm PROVE DormInv'
<1>1. at = "confirm" /\ at' = "run"
  BY DEF ConfirmDorm, Goes
<1>2. Cardinality(rooms.picked) \in Nat
  BY SeenAreCounted DEF DormInv, DormTypes
<1>3. /\ dorm.num > 0 => Cardinality(rooms.picked) >= DormSize
      /\ (rooms.picked \ (dorm.origin.names \cup rooms.unread)) \cap Working = {}
  BY <1>1, <1>2, DormAssumption DEF DormInv, DormIsLooked, DormReview, DormTypes
<1>4. /\ DOMAIN rooms' = OfRooms /\ rooms'.picked = {}
      /\ rooms'.full = (rooms.full /\ (dorm.num > 0 => Cardinality(rooms.picked) >= DormSize))
      /\ rooms'.idle = (rooms.idle /\ (rooms.picked \ (dorm.origin.names \cup rooms.unread)) \cap Working = {})
  BY DEF ConfirmDorm, DormInv, DormTypes, OfRooms
<1>5. rooms'.full = TRUE /\ rooms'.idle = TRUE
  BY Zenon, <1>3, <1>4 DEF DormInv, DormIsLooked
<1>6. DOMAIN dorm' = OfDorm /\ dorm'.num = dorm.num /\ dorm'.selected = dorm.selected /\ dorm'.names = dorm.names /\ dorm'.origin = dorm.origin
  BY DEF ConfirmDorm, DormInv, DormTypes, OfDorm
<1>7. DormTypes'
  BY Zenon, <1>4, <1>6 DEF DormInv, DormTypes
<1> QED
  BY <1>1, <1>5, <1>7 DEF DormInv, DormIsLooked

\* All that is done in the dormitories
LEMMA DormKeeps == ASSUME DormInv, DormNext PROVE DormInv'
<1>1. CASE ReadPage
  <2>1. CASE DormFails(FALSE)
    BY <2>1, DormFailsKeeps
  <2>2. CASE /\ UNCHANGED rooms /\ dorm' = [dorm EXCEPT !.resting = 0]
             /\ ((dorm.num >= DormSize /\ Goes("review")) \/ Goes("oper"))
    <3>1. DormTypes' /\ dorm'.num = dorm.num /\ at' \in {"review", "oper"} /\ (at' = "review" => dorm.num >= DormSize)
      BY <2>2 DEF DormInv, DormTypes, OfDorm, Goes
    <3> QED
      BY <2>2, <3>1, DormGoesOn
  <2> QED
    BY Zenon, <1>1, <2>1, <2>2 DEF ReadPage
<1>2. CASE PageEnds
  BY <1>2, DormGoesOn DEF PageEnds, Goes, DormInv, DormTypes
<1>3. CASE ReviewDorm
  <2>1. CASE DormFails(TRUE)
    BY <2>1, DormFailsKeeps
  <2>2. ASSUME NEW unread, DormReview(unread), Goes("confirm"), rooms' = [rooms EXCEPT !.unread = unread], UNCHANGED dorm
        PROVE  DormInv'
    <3>1. /\ DOMAIN rooms' = OfRooms /\ rooms'.picked = rooms.picked /\ rooms'.unread = unread /\ rooms'.full = rooms.full
          /\ rooms'.idle = rooms.idle
      BY <2>2 DEF DormInv, DormTypes, OfRooms
    <3>2. DormReview(rooms.unread)'
      BY <2>2, <3>1 DEF DormReview
    <3> QED
      BY <1>3, <2>2, <3>1, <3>2 DEF ReviewDorm, Goes, DormInv, DormTypes, DormIsLooked
  <2> QED
    BY Zenon, <1>3, <2>1, <2>2 DEF ReviewDorm
<1> QED
  BY Zenon, <1>1, <1>2, <1>3, EnterDormKeeps, SelectNamesKeeps, PagesKeep, ConfirmDormKeeps DEF DormNext

\* Of all steps the dormitories can take part in their own and a stop.
LEMMA StepOfDorm ==
  ASSUME [Next]_vars, task = "dorm"
  PROVE  DormNext \/ UNCHANGED <<at, dorm, rooms>>
BY Zenon DEF Next, Only, vars, Own, StopWorker, worker

\* A stop changes nothing of it.
LEMMA DormStops == ASSUME DormInv, UNCHANGED <<at, dorm, rooms>> PROVE DormInv'
BY DEF DormInv, DormTypes, DormIsLooked, DormReview
-----------------------------------------------------------------------------
OfVisit == {"use", "left", "again", "product"}
OfBoard == {"vacant", "hand", "exchange", "new", "wasted"}

BoardTypes ==
  /\ DOMAIN visit = OfVisit /\ DOMAIN board = OfBoard
  /\ board.vacant \subseteq Clue /\ board.hand \in [Clue -> Nat] /\ board.new \in Seq(Clue)

\* Which places were looked at, and which clues have come since then
PlacesAreLooked ==
  ~stopped =>
    /\ at = "places" => \A c \in board.vacant \ visit.left : board.hand[c] = 0
    /\ at = "get" => \A c \in board.vacant : board.hand[c] = 0 \/ \E i \in DOMAIN board.new : board.new[i] = c
    /\ at = "shift" => /\ \A c \in board.vacant : board.hand[c] = 0
                       /\ visit.product = General \/ board.vacant = {visit.product}

ClueInv == BoardTypes /\ PlacesAreLooked /\ board.wasted = FALSE

\* Nothing was looked at yet.
LEMMA ReceptionStarts == ASSUME WorkerInit("reception"), ReceptionInit PROVE ClueInv
<1>1. /\ DOMAIN board = OfBoard /\ board.vacant \subseteq Clue /\ board.hand \in [Clue -> 0..HandSize] /\ board.new = <<>> /\ board.wasted = FALSE
  BY DEF ReceptionInit, OfBoard
<1>2. DOMAIN visit = OfVisit /\ at = "run"
  BY DEF ReceptionInit, OfVisit, WorkerInit
<1>3. board.hand \in [Clue -> Nat]
  BY <1>1, ReceptionAssumption
<1> QED
  BY <1>1, <1>2, <1>3 DEF ClueInv, BoardTypes, PlacesAreLooked

\* A clue is put where it is missing, if there is one; or a stop is seen.
LEMMA PlaceClueKeeps == ASSUME ClueInv, PlaceClue PROVE ClueInv'
<1>1. at = "places" /\ at' = "places" /\ stopped' = stopped
  BY DEF PlaceClue, Stays, worker
<1>2. CASE stopped /\ visit' = [visit EXCEPT !.left = {}] /\ UNCHANGED board
  BY <1>1, <1>2 DEF ClueInv, BoardTypes, PlacesAreLooked, OfVisit
<1>3. ASSUME NEW c, visit' = [visit EXCEPT !.left = @ \ {c}],
             IF c \in board.vacant /\ board.hand[c] > 0
                    THEN board' = [board EXCEPT !.vacant = @ \ {c}, !.hand[c] = @ - 1]
                    ELSE UNCHANGED board
      PROVE  ClueInv'
  <2>1. DOMAIN visit' = OfVisit /\ visit'.left = visit.left \ {c}
    BY <1>3 DEF ClueInv, BoardTypes, OfVisit
  <2>2. CASE c \in board.vacant /\ board.hand[c] > 0
    <3>1. /\ DOMAIN board' = OfBoard /\ board'.vacant = board.vacant \ {c} /\ board'.hand = [board.hand EXCEPT ![c] = @ - 1]
          /\ board'.new = board.new /\ board'.wasted = board.wasted
      BY <1>3, <2>2 DEF ClueInv, BoardTypes, OfBoard
    <3>2. board'.hand \in [Clue -> Nat] /\ \A d \in Clue \ {c} : board'.hand[d] = board.hand[d]
      BY <2>2, <3>1 DEF ClueInv, BoardTypes
    <3> QED
      BY <1>1, <2>1, <3>1, <3>2 DEF ClueInv, BoardTypes, PlacesAreLooked
  <2>3. CASE ~(c \in board.vacant /\ board.hand[c] > 0)
    <3>1. board' = board /\ (c \in board.vacant => board.hand[c] = 0)
      BY <1>3, <2>3 DEF ClueInv, BoardTypes
    <3> QED
      BY <1>1, <2>1, <3>1 DEF ClueInv, BoardTypes, PlacesAreLooked
  <2> QED
    BY <2>2, <2>3
<1> QED
  BY Zenon, <1>2, <1>3 DEF PlaceClue

\* What lacks after all places were looked at is the product.
LEMMA SetClueProductKeeps == ASSUME ClueInv, SetClueProduct PROVE ClueInv'
<1>1. at = "places" /\ at' \in {"get", "shift"} /\ stopped' = stopped /\ board' = board /\ visit.left = {}
  BY DEF SetClueProduct, Goes
<1>2. DOMAIN visit' = OfVisit
      /\ visit'.product = IF Cardinality(board.vacant) = 1 THEN CHOOSE c \in board.vacant : TRUE ELSE General
  BY DEF SetClueProduct, ClueInv, BoardTypes, OfVisit
<1>3. IsFiniteSet(board.vacant)
  BY FS_Subset, ReceptionAssumption DEF ClueInv, BoardTypes
<1>4. Cardinality(board.vacant) = 1 => board.vacant = {CHOOSE c \in board.vacant : TRUE}
  <2> SUFFICES ASSUME Cardinality(board.vacant) = 1 PROVE board.vacant = {CHOOSE c \in board.vacant : TRUE}
    OBVIOUS
  <2>1. PICK x : board.vacant = {x}
    BY <1>3, FS_Singleton
  <2> QED
    BY <2>1
<1>5. visit'.product = General \/ board.vacant = {visit'.product}
  BY Zenon, <1>2, <1>4
<1> QED
  BY <1>1, <1>2, <1>5 DEF ClueInv, BoardTypes, PlacesAreLooked

\* A clue that comes is a new one.
LEMMA GetClueKeeps == ASSUME ClueInv, GetClue PROVE ClueInv'
<1>1. PICK c \in Clue : board' = [board EXCEPT !.hand[c] = @ + 1, !.new = Append(@, c)]
  BY DEF GetClue
<1>2. at = "get" /\ at' = "get" /\ stopped' = stopped /\ visit' = visit
  BY DEF GetClue, Stays, worker
<1>3. /\ DOMAIN board' = OfBoard /\ board'.vacant = board.vacant /\ board'.hand = [board.hand EXCEPT ![c] = @ + 1]
      /\ board'.new = Append(board.new, c) /\ board'.wasted = board.wasted
  BY <1>1 DEF ClueInv, BoardTypes, OfBoard
<1>4. board'.hand \in [Clue -> Nat] /\ \A d \in Clue \ {c} : board'.hand[d] = board.hand[d]
  BY <1>3 DEF ClueInv, BoardTypes
<1>5. /\ board'.new \in Seq(Clue)
      /\ \A d \in Clue : d = c \/ (\E i \in DOMAIN board.new : board.new[i] = d) => \E i \in DOMAIN board'.new : board'.new[i] = d
  <2>1. board.new \in Seq(Clue)
    BY DEF ClueInv, BoardTypes
  <2>2. board'.new \in Seq(Clue) /\ DOMAIN board'.new = 1..(Len(board.new) + 1) /\ board'.new[Len(board.new) + 1] = c
        /\ \A i \in 1..Len(board.new) : board'.new[i] = board.new[i]
    BY <1>3, <2>1
  <2>3. DOMAIN board.new = 1..Len(board.new) /\ Len(board.new) \in Nat
    BY <2>1
  <2> QED
    BY <2>2, <2>3
<1> QED
  BY <1>2, <1>3, <1>4, <1>5 DEF ClueInv, BoardTypes, PlacesAreLooked

\* A clue whose place is vacant and that is given away has just come.
LEMMA SendClueKeeps == ASSUME ClueInv, SendClue PROVE ClueInv'
<1>1. PICK c \in InHand(board.hand) :
        board' = [board EXCEPT !.hand[c] = @ - 1,
                               !.wasted = @ \/ (c \in board.vacant /\ \A i \in DOMAIN board.new : board.new[i] # c)]
  BY DEF SendClue
<1>2. at = "get" /\ at' = "get" /\ ~stopped /\ stopped' = stopped /\ visit' = visit
  BY DEF SendClue, Stays, worker
<1>3. /\ DOMAIN board' = OfBoard /\ board'.vacant = board.vacant /\ board'.hand = [board.hand EXCEPT ![c] = @ - 1]
      /\ board'.new = board.new
      /\ board'.wasted = (board.wasted \/ (c \in board.vacant /\ \A i \in DOMAIN board.new : board.new[i] # c))
  BY <1>1 DEF ClueInv, BoardTypes, OfBoard
<1>4. c \in Clue /\ board.hand[c] \in Nat /\ board.hand[c] > 0
  BY DEF InHand, ClueInv, BoardTypes
<1>5. ~(c \in board.vacant /\ \A i \in DOMAIN board.new : board.new[i] # c)
  BY <1>2, <1>4 DEF ClueInv, PlacesAreLooked
<1>6. board'.wasted = FALSE
  BY Zenon, <1>3, <1>5 DEF ClueInv
<1>7. board'.hand \in [Clue -> Nat] /\ \A d \in Clue : board.hand[d] = 0 => board'.hand[d] = 0
  BY <1>3, <1>4 DEF ClueInv, BoardTypes
<1>8. \A d \in board.vacant : board'.hand[d] = 0 \/ \E i \in DOMAIN board.new : board.new[i] = d
  BY <1>2, <1>7 DEF ClueInv, BoardTypes, PlacesAreLooked
<1>9. board'.vacant = board.vacant /\ board'.new = board.new /\ DOMAIN board' = OfBoard
  BY <1>3
<1>10. BoardTypes'
  BY <1>2, <1>7, <1>9 DEF ClueInv, BoardTypes
<1>11. PlacesAreLooked'
  BY Zenon, <1>2, <1>8, <1>9 DEF PlacesAreLooked
<1> QED
  BY <1>6, <1>10, <1>11 DEF ClueInv

\* All that is done in the reception room
LEMMA ReceptionKeeps == ASSUME ClueInv, ReceptionNext PROVE ClueInv'
<1>1. CASE ReceptionFails
  BY <1>1 DEF ReceptionFails, RunFails, ClueInv, BoardTypes, PlacesAreLooked
<1>2. CASE EnterReception /\ Goes("places") /\ visit' = [visit EXCEPT !.left = Clue] /\ UNCHANGED board
  BY <1>2 DEF Goes, ClueInv, BoardTypes, PlacesAreLooked, OfVisit
<1>3. CASE UnlockClueExchange
  <2>1. at' = at /\ at = "places" /\ stopped' = stopped /\ visit.left = {}
    BY <1>3 DEF UnlockClueExchange, Stays, worker
  <2>2. CASE board' = [board EXCEPT !.exchange = TRUE, !.vacant = Clue] /\ visit' = [visit EXCEPT !.left = Clue, !.again = TRUE]
    BY <2>1, <2>2 DEF ClueInv, BoardTypes, PlacesAreLooked, OfVisit, OfBoard
  <2>3. CASE UNCHANGED board /\ visit' = [visit EXCEPT !.again = TRUE]
    BY <2>1, <2>3 DEF ClueInv, BoardTypes, PlacesAreLooked, OfVisit
  <2> QED
    BY Zenon, <1>3, <2>2, <2>3 DEF UnlockClueExchange
<1>4. CASE Goes("places") /\ visit' = [visit EXCEPT !.use = 2, !.left = Clue] /\ UNCHANGED board
  BY <1>4 DEF Goes, ClueInv, BoardTypes, PlacesAreLooked, OfVisit
<1>5. CASE Goes("succeeded") /\ UNCHANGED <<visit, board>>
  BY <1>5 DEF Goes, ClueInv, BoardTypes, PlacesAreLooked
<1> QED
  BY Zenon, <1>1, <1>2, <1>3, <1>4, <1>5, PlaceClueKeeps, SetClueProductKeeps, GetClueKeeps, SendClueKeeps
     DEF ReceptionNext, EnterReception, ClueGot, ShiftReception

\* Of all steps the reception room can take part in its own and a stop.
LEMMA StepOfReception ==
  ASSUME [Next]_vars, task = "reception"
  PROVE  ReceptionNext \/ (UNCHANGED <<at, visit, board>> /\ (stopped => stopped'))
BY Zenon DEF Next, Only, vars, Own, StopWorker, worker

\* After a stop nothing is promised of the places.
LEMMA ReceptionStops == ASSUME ClueInv, UNCHANGED <<at, visit, board>>, stopped => stopped' PROVE ClueInv'
BY Zenon DEF ClueInv, BoardTypes, PlacesAreLooked

\* The clues are where they were to be.
LEMMA CluesAreRight == ClueInv => CluesArePlaced
BY DEF ClueInv, BoardTypes, PlacesAreLooked, CluesArePlaced, InHand

-----------------------------------------------------------------------------
(* The operators of a room: however many clicks are lost, those who are selected after the
   review have the skills that were worked out. *)

\* Of the steps the choice for a room can take part in its own and a stop,
LEMMA StepOfStaff ==
  ASSUME [Next]_vars, task = "staff"
  PROVE  StaffNext \/ (UNCHANGED <<at, staff, desk>>)
BY Zenon DEF Next, Only, vars, Own, StopWorker, worker

OfStaff == {"avail", "todo", "page", "next", "here", "count", "error", "tries", "room"}
OfDesk == {"kind", "tired", "unread", "locked", "number", "endless", "chosen", "cleared", "best", "worked"}

StaffTypeOK ==
  /\ DOMAIN staff = OfStaff /\ DOMAIN desk = OfDesk
  /\ staff.page \in Nat \ {0}
  /\ at # "confirm" => ~desk.worked

\* The combinations somebody was clicked on for, and how many of them have a skill
Got == DOMAIN desk.best \ staff.todo
Served(got, skill) == {i \in got : desk.best[i].skill = skill}

\* Each that was clicked on counts for one combination; those who are selected are no more,
\* and if they are as many, no click was lost and they have the skills of these.
ClicksAreCounted ==
  /\ staff.todo \subseteq DOMAIN desk.best
  /\ IsFiniteSet(Got) /\ Cardinality(Got) = staff.count
  /\ IsFiniteSet(desk.chosen) /\ Cardinality(desk.chosen) <= staff.count
  /\ desk.chosen \cap desk.tired = {}
  /\ Cardinality(desk.chosen) = staff.count => \A skill : Having(desk.chosen, skill) = Cardinality(Served(Got, skill))

\* Of those on the page nobody is tired, and who was not selected is not, up to his click.
HereIsRight ==
  /\ staff.next \subseteq staff.todo
  /\ \A o \in staff.here : o.who \notin desk.tired /\ (~o.selected => o.who \notin desk.chosen)
  /\ \A o, q \in staff.here : o.who = q.who => o = q

StaffPhases ==
  /\ at \in {"detect", "calc"} => desk.chosen = {}
  /\ at \in {"look", "pick", "review"} => ClicksAreCounted
  /\ at = "pick" => HereIsRight
  /\ at = "review" => staff.todo = {}
  /\ at = "confirm" /\ desk.worked => /\ \A skill : Having(desk.chosen, skill) = Asks(desk.best, skill)
                                      /\ desk.chosen \cap desk.tired = {}

StaffInv == StaffTypeOK /\ (desk.cleared => StaffPhases)

LEMMA StaffInvInit == Init /\ task = "staff" => StaffInv
<1> SUFFICES ASSUME Init, task = "staff" PROVE StaffInv
  OBVIOUS
<1>1. StaffInit /\ at = "run"
  BY DEF Init, WorkerInit
<1>2. DOMAIN staff = OfStaff /\ staff.page = 1 /\ DOMAIN desk = OfDesk /\ ~desk.worked
  BY <1>1 DEF StaffInit, OfStaff, OfDesk
<1> QED
  BY <1>1, <1>2 DEF StaffInv, StaffTypeOK, StaffPhases

\* One more in a finite set of those with a property
LEMMA OneMoreOf ==
  ASSUME NEW S, IsFiniteSet(S), NEW x, x \notin S, NEW P, P = S \cup {x}
  PROVE  IsFiniteSet(P) /\ Cardinality(P) = Cardinality(S) + 1 /\ Cardinality(S) \in Nat
BY FS_AddElement, FS_CardinalityType

\* Everybody on a page is on it once, who is tired is left out, and selected is who is
\* selected now.
LEMMA SeenIsRight ==
  ASSUME NEW p \in Nat \ {0}
  PROVE  /\ \A o \in Seen(p) : o.who \notin desk.tired /\ (~o.selected => o.who \notin desk.chosen)
         /\ \A o, q \in Seen(p) : o.who = q.who => o = q
<1>1. \A i, j \in DOMAIN Page(p) : Page(p)[i] = Page(p)[j] => i = j
  <2>1. Len(StaffPages) \in Nat \ {0} /\ DOMAIN StaffPages = 1..Len(StaffPages)
    BY StaffAssumption
  <2>2. \A n \in DOMAIN StaffPages : \A i, j \in DOMAIN StaffPages[n] : StaffPages[n][i] = StaffPages[n][j] => i = j
    BY StaffAssumption DEF IsInjective
  <2>3. p <= Len(StaffPages) => p \in DOMAIN StaffPages
    BY <2>1
  <2> QED
    BY <2>1, <2>2, <2>3 DEF Page
<1>2. \A o \in Seen(p) : \E i \in DOMAIN Page(p) : o.who = Page(p)[i] /\ o.place = i /\ o.selected = (Page(p)[i] \in desk.chosen) /\ Page(p)[i] \notin desk.tired
  BY DEF Seen, Rested
<1>3. \A o \in Seen(p) : \E i \in DOMAIN Page(p) : o = [place |-> i, who |-> Page(p)[i], selected |-> Page(p)[i] \in desk.chosen]
  BY Zenon DEF Seen
<1>4. ASSUME NEW o \in Seen(p), NEW q \in Seen(p), o.who = q.who PROVE o = q
  <2>1. PICK i \in DOMAIN Page(p) : o = [place |-> i, who |-> Page(p)[i], selected |-> Page(p)[i] \in desk.chosen]
    BY <1>3
  <2>2. PICK j \in DOMAIN Page(p) : q = [place |-> j, who |-> Page(p)[j], selected |-> Page(p)[j] \in desk.chosen]
    BY <1>3
  <2>3. Page(p)[i] = Page(p)[j]
    BY <1>4, <2>1, <2>2
  <2> QED
    BY <1>1, <2>1, <2>2, <2>3, Zenon
<1> QED
  BY <1>2, <1>4

LEMMA StaffEnters ==
  ASSUME StaffInv, EnterProduction \/ EnterPower \/ EnterControl \/ EnterOffice \/ DetectFails \/ ClearStaff \/ DetectStaff \/ OptimalCalc
  PROVE  StaffInv'
<1>0. StaffTypeOK
  BY DEF StaffInv
<1>1. CASE EnterProduction \/ EnterPower \/ EnterControl \/ EnterOffice
  <2>1. staff' = staff /\ desk' = desk /\ at = "run" /\ at' \in {"try", "run", "failed", "succeeded"}
    BY <1>1 DEF EnterProduction, EnterPower, EnterControl, EnterOffice, EntersOr, Goes, RunFails
  <2> QED
    BY <1>0, <2>1 DEF StaffInv, StaffTypeOK, StaffPhases
<1>2. ASSUME StaffFails, at \in {"detect", "try"} PROVE StaffInv'
  <2>1. staff' = staff /\ desk' = desk /\ at' \in {"run", "failed"}
    BY <1>2 DEF StaffFails, RunFails
  <2> QED
    BY <1>0, <1>2, <2>1 DEF StaffInv, StaffTypeOK, StaffPhases
<1>3. CASE DetectFails
  BY <1>2, <1>3 DEF DetectFails
<1>4. CASE ClearStaff
  <2>1. CASE StaffFails
    BY <1>2, <1>4, <2>1 DEF ClearStaff
  <2>2. CASE ~StaffFails
    <3>1. PICK clears \in BOOLEAN : desk' = [desk EXCEPT !.chosen = IF clears THEN {} ELSE @, !.cleared = clears \/ desk.chosen = {}]
      BY <1>4, <2>2, Zenon DEF ClearStaff, ClearsOpers
    <3>2. /\ DOMAIN desk' = OfDesk /\ desk'.worked = desk.worked
          /\ desk'.chosen = IF clears THEN {} ELSE desk.chosen
          /\ desk'.cleared = (clears \/ desk.chosen = {})
      BY <1>0, <3>1, Zenon DEF StaffTypeOK, OfDesk
    <3>3. DOMAIN staff' = OfStaff /\ staff'.page = 1 /\ at = "try" /\ at' = "detect"
      BY <1>0, <1>4, <2>2 DEF ClearStaff, StaffTypeOK, OfStaff, Goes
    <3> QED
      BY <1>0, <3>2, <3>3 DEF StaffInv, StaffTypeOK, StaffPhases
  <2> QED
    BY <2>1, <2>2
<1>5. CASE DetectStaff
  <2>1. desk' = desk /\ at = "detect" /\ at' \in {"detect", "calc"} /\ DOMAIN staff' = OfStaff /\ staff'.page \in Nat \ {0}
    <3>1. desk' = desk /\ at = "detect"
      BY <1>5 DEF DetectStaff
    <3>2. /\ at' \in {"detect", "calc"}
          /\ \E more : staff' \in {[staff EXCEPT !.avail = @ \o more], [staff EXCEPT !.avail = @ \o more, !.page = @ + 1], [staff EXCEPT !.page = 1]}
      BY <1>5, <3>1, Zenon DEF DetectStaff, Goes, Stays, worker
    <3>3. DOMAIN staff' = OfStaff /\ staff'.page \in Nat \ {0}
      <4>1. PICK more : staff' \in {[staff EXCEPT !.avail = @ \o more], [staff EXCEPT !.avail = @ \o more, !.page = @ + 1], [staff EXCEPT !.page = 1]}
        BY <3>2
      <4>2. DOMAIN staff' = OfStaff /\ staff'.page \in {staff.page, staff.page + 1, 1}
        BY <1>0, <4>1, Zenon DEF StaffTypeOK, OfStaff
      <4> QED
        BY <1>0, <4>2 DEF StaffTypeOK
    <3> QED
      BY <3>1, <3>2, <3>3
  <2> QED
    BY <1>0, <2>1 DEF StaffInv, StaffTypeOK, StaffPhases
<1>6. CASE OptimalCalc
  <2>1. PICK o \in Optimal : /\ at' \in {"look", "hangs", "thrown"}
                             /\ staff' = [staff EXCEPT !.todo = DOMAIN o.made.combs, !.page = 1, !.count = 0, !.error = FALSE]
                             /\ desk' = [desk EXCEPT !.best = o.made.combs]
    BY <1>6, Zenon DEF OptimalCalc, Goes
  <2>2. /\ at = "calc" /\ DOMAIN staff' = OfStaff /\ staff'.page = 1 /\ staff'.todo = DOMAIN o.made.combs /\ staff'.count = 0
        /\ DOMAIN desk' = OfDesk /\ desk'.worked = desk.worked /\ desk'.cleared = desk.cleared /\ desk'.chosen = desk.chosen
        /\ desk'.best = o.made.combs
    BY <1>0, <1>6, <2>1 DEF OptimalCalc, StaffTypeOK, OfStaff, OfDesk
  <2>3. ASSUME desk.cleared PROVE ClicksAreCounted'
    <3>1. desk'.chosen = {} /\ Got' = {}
      BY <2>2, <2>3 DEF StaffInv, StaffPhases, Got
    <3>2. \A skill : Having({}, skill) = 0 /\ Served(Got, skill)' = {}
      BY <3>1, FS_EmptySet DEF Having, Served
    <3> QED
      BY <2>2, <3>1, <3>2, FS_EmptySet DEF ClicksAreCounted
  <2>4. StaffTypeOK'
    BY <1>0, <1>6, <2>1, <2>2 DEF StaffTypeOK
  <2>5. desk'.cleared => StaffPhases'
    BY <2>1, <2>2, <2>3 DEF StaffPhases
  <2> QED
    BY <2>4, <2>5 DEF StaffInv
<1> QED
  BY <1>1, <1>3, <1>4, <1>5, <1>6

\* What is counted stays so while the selection, the count and what is still to be found do.
CountsKept == /\ desk' = desk /\ staff'.todo = staff.todo /\ staff'.count = staff.count

LEMMA ClicksKept == CountsKept => (ClicksAreCounted <=> ClicksAreCounted')
<1> SUFFICES ASSUME CountsKept PROVE ClicksAreCounted <=> ClicksAreCounted'
  OBVIOUS
<1>1. desk' = desk /\ staff'.todo = staff.todo /\ staff'.count = staff.count
  BY DEF CountsKept
<1>2. Got' = Got
  BY <1>1 DEF Got
<1>3. \A skill : Served(Got, skill)' = Served(Got, skill)
  BY <1>1, <1>2, Zenon DEF Served
<1> QED
  BY <1>1, <1>2, <1>3, Zenon DEF ClicksAreCounted

LEMMA StaffLooks ==
  ASSUME StaffInv, LookAtPage \/ PageDone \/ ReviewStaff \/ ConfirmStaff
  PROVE  StaffInv'
<1>0. StaffTypeOK
  BY DEF StaffInv
<1>1. ASSUME ChooseFails, at \in {"look", "review"} PROVE StaffInv'
  <2>1. desk' = desk /\ at' \in {"try", "confirm"} /\ DOMAIN staff' = OfStaff /\ staff'.page = staff.page
    BY <1>0, <1>1 DEF ChooseFails, Goes, StaffTypeOK, OfStaff
  <2> QED
    BY <1>0, <1>1, <2>1 DEF StaffInv, StaffTypeOK, StaffPhases
<1>2. CASE LookAtPage
  <2>1. CASE ChooseFails
    BY <1>1, <1>2, <2>1 DEF LookAtPage
  <2>2. CASE at' = "look" /\ desk' = desk /\ staff' = [staff EXCEPT !.error = TRUE, !.page = 1]
    <3>1. DOMAIN staff' = OfStaff /\ staff'.page = 1 /\ CountsKept /\ at = "look"
      BY <1>0, <1>2, <2>2 DEF LookAtPage, StaffTypeOK, OfStaff, CountsKept
    <3> QED
      BY <1>0, <2>2, <3>1, ClicksKept DEF StaffInv, StaffTypeOK, StaffPhases
  <2>3. CASE at' = "pick" /\ desk' = desk /\ staff' = [staff EXCEPT !.next = staff.todo, !.here = Seen(staff.page)]
    <3>1. /\ DOMAIN staff' = OfStaff /\ staff'.page = staff.page /\ CountsKept /\ at = "look"
          /\ staff'.next = staff.todo /\ staff'.here = Seen(staff.page)
      BY <1>0, <1>2, <2>3 DEF LookAtPage, StaffTypeOK, OfStaff, CountsKept
    <3>2. PICK page \in Nat \ {0} : page = staff.page
      BY <1>0 DEF StaffTypeOK
    <3>3. HereIsRight'
      <4>1. /\ \A o \in staff'.here : o.who \notin desk.tired /\ (~o.selected => o.who \notin desk.chosen)
            /\ \A o, q \in staff'.here : o.who = q.who => o = q
        <5>1. /\ \A o \in Seen(page) : o.who \notin desk.tired /\ (~o.selected => o.who \notin desk.chosen)
              /\ \A o, q \in Seen(page) : o.who = q.who => o = q
          BY SeenIsRight
        <5>2. staff'.here = Seen(page)
          BY <3>1, <3>2
        <5> QED
          BY <5>1, <5>2, Zenon
      <4> QED
        BY <2>3, <3>1, <4>1, Zenon DEF HereIsRight, CountsKept
    <3> QED
      BY <1>0, <2>3, <3>1, <3>3, ClicksKept DEF StaffInv, StaffTypeOK, StaffPhases
  <2> QED
    BY <1>2, <2>1, <2>2, <2>3, Zenon DEF LookAtPage, Goes, Stays, worker
<1>3. CASE PageDone
  <2>1. desk' = desk /\ at = "pick" /\ at' \in {"look", "review"} /\ (at' = "review" => staff.todo = {})
    BY <1>3 DEF PageDone, Goes
  <2>2. CountsKept /\ DOMAIN staff' = OfStaff /\ staff'.page \in Nat \ {0}
    BY <1>0, <1>3 DEF PageDone, StaffTypeOK, OfStaff, CountsKept
  <2> QED
    BY <1>0, <2>1, <2>2, ClicksKept DEF StaffInv, StaffTypeOK, StaffPhases, CountsKept
<1>4. CASE ReviewStaff
  <2>1. CASE Cardinality(desk.chosen) < staff.count
    BY <1>1, <1>4, <2>1 DEF ReviewStaff
  <2>2. CASE ~(Cardinality(desk.chosen) < staff.count)
    <3>1. /\ at = "review" /\ at' = "confirm" /\ staff' = staff
          /\ DOMAIN desk' = OfDesk /\ desk'.worked = TRUE /\ desk'.cleared = desk.cleared /\ desk'.chosen = desk.chosen
          /\ desk'.best = desk.best /\ desk'.tired = desk.tired
      BY <1>0, <1>4, <2>2 DEF ReviewStaff, Goes, StaffTypeOK, OfDesk
    <3>2. ASSUME desk.cleared PROVE (\A skill : Having(desk.chosen, skill) = Asks(desk.best, skill)) /\ desk.chosen \cap desk.tired = {}
      <4>1. ClicksAreCounted /\ staff.todo = {}
        BY <3>1, <3>2 DEF StaffInv, StaffPhases
      <4>2. Cardinality(desk.chosen) = staff.count /\ desk.chosen \cap desk.tired = {}
        BY <2>2, <4>1, FS_CardinalityType DEF ClicksAreCounted
      <4>3. \A skill : Having(desk.chosen, skill) = Cardinality(Served(Got, skill))
        BY <4>1, <4>2, Zenon DEF ClicksAreCounted
      <4>4. Got = DOMAIN desk.best
        BY <4>1 DEF Got
      <4>5. \A skill : Asks(desk.best, skill) = Cardinality(Served(Got, skill))
        BY <4>4, Zenon DEF Asks, Served
      <4> QED
        BY <4>2, <4>3, <4>5
    <3> QED
      BY <1>0, <3>1, <3>2 DEF StaffInv, StaffTypeOK, StaffPhases
  <2> QED
    BY <2>1, <2>2
<1>5. CASE ConfirmStaff
  <2>1. PICK before \in Before : desk' = [desk EXCEPT !.chosen = before, !.worked = FALSE, !.cleared = TRUE, !.best = <<>>]
    BY <1>5 DEF ConfirmStaff
  <2>2. DOMAIN desk' = OfDesk /\ desk'.worked = FALSE
    BY <1>0, <2>1 DEF StaffTypeOK, OfDesk
  <2>3. at' \in {"succeeded", "run"} /\ DOMAIN staff' = OfStaff /\ staff'.page = staff.page
    BY <1>0, <1>5 DEF ConfirmStaff, Goes, StaffTypeOK, OfStaff
  <2> QED
    BY <1>0, <2>2, <2>3 DEF StaffInv, StaffTypeOK, StaffPhases
<1> QED
  BY <1>2, <1>3, <1>4, <1>5

\* Somebody is clicked on for a combination, and the click may be lost.
LEMMA ClickIsCounted ==
  ASSUME StaffTypeOK, ClicksAreCounted, HereIsRight, NEW i \in staff.next, NEW o \in staff.here, FitsComb(o, desk.best[i]),
         staff' = [staff EXCEPT !.here = @ \ {o}, !.avail = Remove(@, o.who), !.count = @ + 1, !.todo = @ \ {i}, !.next = @ \ {i}],
         desk'.best = desk.best, desk'.tired = desk.tired,
         desk'.chosen = desk.chosen \/ (~o.selected /\ desk'.chosen = desk.chosen \cup {o.who})
  PROVE  ClicksAreCounted' /\ HereIsRight'
<1>1. /\ staff'.here = staff.here \ {o} /\ staff'.count = staff.count + 1
      /\ staff'.todo = staff.todo \ {i} /\ staff'.next = staff.next \ {i}
  BY DEF StaffTypeOK, OfStaff
<1>2. desk'.best = desk.best /\ desk'.tired = desk.tired /\ desk'.chosen \in {desk.chosen, desk.chosen \cup {o.who}}
  OBVIOUS
<1>3. desk'.chosen = desk.chosen \/ (o.who \notin desk.chosen /\ desk'.chosen = desk.chosen \cup {o.who})
  BY DEF HereIsRight
<1>4. i \in staff.todo /\ i \in DOMAIN desk.best /\ i \notin Got /\ Got' = Got \cup {i} /\ SkillOf[o.who] = desk.best[i].skill
  BY <1>1, <1>2 DEF HereIsRight, ClicksAreCounted, Got, FitsComb
<1>5. IsFiniteSet(Got)' /\ Cardinality(Got)' = staff'.count /\ staff.count \in Nat
  <2>1. IsFiniteSet(Got) /\ Cardinality(Got) = staff.count
    BY DEF ClicksAreCounted
  <2> QED
    BY <1>1, <1>4, <2>1, OneMoreOf
<1>6. CASE desk'.chosen = desk.chosen
  <2>1. /\ IsFiniteSet(desk'.chosen) /\ Cardinality(desk'.chosen) < staff'.count /\ desk'.chosen \cap desk'.tired = {}
        /\ Cardinality(desk'.chosen) \in Nat
    BY <1>1, <1>2, <1>5, <1>6, FS_CardinalityType DEF ClicksAreCounted
  <2>2. staff'.todo \subseteq DOMAIN desk'.best
    BY <1>1, <1>2 DEF ClicksAreCounted
  <2>3. Cardinality(desk'.chosen) <= staff'.count /\ Cardinality(desk'.chosen) # staff'.count
    BY <1>1, <1>5, <2>1
  <2>4. ClicksAreCounted'
    BY <1>5, <2>1, <2>2, <2>3, Zenon DEF ClicksAreCounted
  <2>5. HereIsRight'
    BY <1>1, <1>2, <1>6 DEF HereIsRight
  <2> QED
    BY <2>4, <2>5
<1>7. CASE o.who \notin desk.chosen /\ desk'.chosen = desk.chosen \cup {o.who}
  <2>1. IsFiniteSet(desk.chosen) /\ Cardinality(desk.chosen) <= staff.count /\ desk.chosen \cap desk.tired = {}
    BY DEF ClicksAreCounted
  <2>2. IsFiniteSet(desk'.chosen) /\ Cardinality(desk'.chosen) = Cardinality(desk.chosen) + 1 /\ Cardinality(desk.chosen) \in Nat
    BY <1>7, <2>1, OneMoreOf
  <2>3. desk'.chosen \cap desk'.tired = {}
    BY <1>2, <1>7, <2>1 DEF HereIsRight
  <2>4. staff'.todo \subseteq DOMAIN desk'.best
    BY <1>1, <1>2 DEF ClicksAreCounted
  <2>5. Cardinality(desk'.chosen) <= staff'.count /\ (Cardinality(desk'.chosen) = staff'.count => Cardinality(desk.chosen) = staff.count)
    BY <1>1, <1>5, <2>1, <2>2
  <2>6. ASSUME Cardinality(desk'.chosen) = staff'.count, NEW skill PROVE Having(desk'.chosen, skill) = Cardinality(Served(Got, skill))'
    <3> DEFINE having == {s \in desk.chosen : SkillOf[s] = skill}
               served == {j \in Got : desk.best[j].skill = skill}
               having2 == {s \in desk.chosen \cup {o.who} : SkillOf[s] = skill}
               served2 == {j \in Got \cup {i} : desk.best[j].skill = skill}
    <3>1. Cardinality(having) = Cardinality(served)
      BY <2>5, <2>6, Zenon DEF ClicksAreCounted, Having, Served
    <3>2. Having(desk'.chosen, skill) = Cardinality(having2) /\ Cardinality(Served(Got, skill))' = Cardinality(served2)
      BY <1>2, <1>4, <1>7, Zenon DEF Having, Served
    <3>3. IsFiniteSet(having) /\ IsFiniteSet(served)
      BY <2>1, FS_Subset DEF ClicksAreCounted
    <3>4. CASE SkillOf[o.who] = skill
      <4>1. having2 = having \cup {o.who} /\ o.who \notin having /\ served2 = served \cup {i} /\ i \notin served
        BY <1>4, <1>7, <3>4
      <4> HIDE DEF having, having2, served, served2
      <4> QED
        BY <3>1, <3>2, <3>3, <4>1, OneMoreOf
    <3>5. CASE SkillOf[o.who] # skill
      <4>1. having2 = having /\ served2 = served
        BY <1>4, <1>7, <3>5
      <4> QED
        BY <3>1, <3>2, <4>1
    <3> QED
      BY <3>4, <3>5
  <2>7. ClicksAreCounted'
    BY <1>5, <2>2, <2>3, <2>4, <2>5, <2>6, Zenon DEF ClicksAreCounted
  <2>8. HereIsRight'
    BY <1>1, <1>2, <1>7 DEF HereIsRight
  <2> QED
    BY <2>7, <2>8
<1> QED
  BY <1>3, <1>6, <1>7

LEMMA StaffPicks ==
  ASSUME StaffInv, PickForComb
  PROVE  StaffInv'
<1>0. StaffTypeOK /\ at = "pick" /\ at' = "pick"
  BY DEF StaffInv, PickForComb, Stays, worker
<1>1. PICK i \in staff.next :
        \/ staff' = [staff EXCEPT !.next = @ \ {i}] /\ desk' = desk
        \/ \E o \in staff.here : staff' = [staff EXCEPT !.here = @ \ {o}] /\ desk' = desk
        \/ \E o \in staff.here :
             /\ FitsComb(o, desk.best[i])
             /\ staff' = [staff EXCEPT !.here = @ \ {o}, !.avail = Remove(@, o.who), !.count = @ + 1, !.todo = @ \ {i}, !.next = @ \ {i}]
             /\ \/ desk' = desk
                \/ ~o.selected /\ \E clicked \in BOOLEAN :
                     desk' = [desk EXCEPT !.chosen = IF clicked /\ Cardinality(@) < Free(desk) THEN @ \cup {o.who} ELSE @]
  BY Zenon DEF PickForComb
<1>2. CASE staff' = [staff EXCEPT !.next = @ \ {i}] /\ desk' = desk
  <2>1. DOMAIN staff' = OfStaff /\ staff'.page = staff.page /\ CountsKept /\ staff'.next = staff.next \ {i} /\ staff'.here = staff.here
    BY <1>0, <1>2 DEF StaffTypeOK, OfStaff, CountsKept
  <2>2. HereIsRight => HereIsRight'
    BY <2>1 DEF HereIsRight, CountsKept
  <2> QED
    BY <1>0, <2>1, <2>2, ClicksKept DEF StaffInv, StaffTypeOK, StaffPhases, CountsKept
<1>3. ASSUME NEW o \in staff.here, staff' = [staff EXCEPT !.here = @ \ {o}], desk' = desk PROVE StaffInv'
  <2>1. DOMAIN staff' = OfStaff /\ staff'.page = staff.page /\ CountsKept /\ staff'.next = staff.next /\ staff'.here = staff.here \ {o}
    BY <1>0, <1>3 DEF StaffTypeOK, OfStaff, CountsKept
  <2>2. HereIsRight => HereIsRight'
    BY <2>1 DEF HereIsRight, CountsKept
  <2> QED
    BY <1>0, <2>1, <2>2, ClicksKept DEF StaffInv, StaffTypeOK, StaffPhases, CountsKept
<1>4. ASSUME NEW o \in staff.here, FitsComb(o, desk.best[i]),
             staff' = [staff EXCEPT !.here = @ \ {o}, !.avail = Remove(@, o.who), !.count = @ + 1, !.todo = @ \ {i}, !.next = @ \ {i}],
             \/ desk' = desk
             \/ ~o.selected /\ \E clicked \in BOOLEAN :
                  desk' = [desk EXCEPT !.chosen = IF clicked /\ Cardinality(@) < Free(desk) THEN @ \cup {o.who} ELSE @]
      PROVE  StaffInv'
  <2>1. /\ DOMAIN desk' = OfDesk /\ desk'.cleared = desk.cleared /\ desk'.worked = desk.worked
        /\ desk'.best = desk.best /\ desk'.tired = desk.tired
        /\ desk'.chosen = desk.chosen \/ (~o.selected /\ desk'.chosen = desk.chosen \cup {o.who})
    <3>1. CASE desk' = desk
      BY <1>0, <3>1 DEF StaffTypeOK
    <3>2. ASSUME ~o.selected, NEW clicked \in BOOLEAN,
                 desk' = [desk EXCEPT !.chosen = IF clicked /\ Cardinality(@) < Free(desk) THEN @ \cup {o.who} ELSE @]
          PROVE  <2>1
      BY <1>0, <3>2 DEF StaffTypeOK, OfDesk
    <3> QED
      BY <1>4, <3>1, <3>2
  <2>2. DOMAIN staff' = OfStaff /\ staff'.page = staff.page
    BY <1>0, <1>4 DEF StaffTypeOK, OfStaff
  <2>4. ASSUME desk.cleared PROVE ClicksAreCounted' /\ HereIsRight'
    <3>1. ClicksAreCounted /\ HereIsRight
      BY <1>0, <2>4 DEF StaffInv, StaffPhases
    <3> QED
      BY <1>0, <1>4, <2>1, <3>1, ClickIsCounted, Zenon
  <2> QED
    BY <1>0, <2>1, <2>2, <2>4 DEF StaffInv, StaffTypeOK, StaffPhases
<1> QED
  BY <1>1, <1>2, <1>3, <1>4

LEMMA StaffInvStep ==
  ASSUME StaffInv, [Next]_vars, task = "staff"
  PROVE  StaffInv'
<1>1. CASE StaffNext
  BY <1>1, StaffEnters, StaffLooks, StaffPicks DEF StaffNext
<1>2. CASE UNCHANGED <<at, staff, desk>>
  <2>1. CountsKept /\ at' = at /\ staff' = staff /\ desk' = desk
    BY <1>2 DEF CountsKept
  <2>2. HereIsRight <=> HereIsRight'
    BY <2>1 DEF HereIsRight
  <2> QED
    BY <2>1, <2>2, ClicksKept, Zenon DEF StaffInv, StaffTypeOK, StaffPhases
<1> QED
  BY <1>1, <1>2, StepOfStaff

LEMMA StaffIsRight == StaffInv => StaffIsSelected
BY DEF StaffInv, StaffPhases, StaffIsSelected

\* A level of a skill is told by the last suffix of those that are close, if nothing else is
\* close: the one with the best score is close, so it is a level, too.
LEMMA LevelsTold == LevelsAreTold
<1> SUFFICES ASSUME NEW level \in Levels, NEW known \in SUBSET (DOMAIN Suffix \ {k \in Levels : k > level}), NEW found \in [known -> 0..3],
                    level \in Close(found), Close(found) \subseteq Levels
             PROVE  Recognized(found) = {level}
  BY DEF LevelsAreTold
<1>1. Levels \subseteq Nat /\ DOMAIN found = known
  BY DEF Levels, Suffix
<1>2. \A k \in Close(found) : k <= level
  <2>1. \A k \in Close(found) : k \in known
    BY <1>1 DEF Close
  <2> QED
    BY <1>1, <2>1
<1>3. BestScored(found) \subseteq Close(found)
  <2>1. \A k, l \in DOMAIN found : found[l] <= found[k] => found[l] - found[k] <= 1
    BY <1>1
  <2> QED
    BY <2>1 DEF BestScored, Close
<1>4. \A b \in BestScored(found) : b \in Levels
  BY <1>3
<1>5. (CHOOSE k \in Close(found) : \A l \in Close(found) : l <= k) = level
  <2>1. \A k \in Close(found) : (\A l \in Close(found) : l <= k) => k = level
    BY <1>1, <1>2
  <2> QED
    BY <1>2, <2>1
<1>6. BestScored(found) # {}
  <2> DEFINE scores == {found[k] : k \in known}
  <2>1. scores \in SUBSET (0..3) /\ scores # {}
    BY <1>1 DEF Close
  <2>2. PICK s : s = Max(scores)
    OBVIOUS
  <2>3. s \in scores /\ \A i \in scores : i <= s
    <3> HIDE DEF scores
    <3> QED
      BY <2>1, <2>2, GreatestOf
  <2> QED
    BY <1>1, <2>3 DEF BestScored
<1> QED
  BY <1>4, <1>5, <1>6 DEF Recognized

MannedInv ==
  /\ task = "infrast" => PlanInv
  /\ task = "dorm" => DormInv
  /\ task = "reception" => ClueInv
  /\ task = "staff" => StaffInv

\* The rooms of the base hold those whom the plan, their mood or what was worked out for the
\* room puts there, the drones are used once, the reception room has the clues it can have,
\* and a level of a skill is told from the lower ones (the Infrast* tasks).
THEOREM RoomsAreManned == Spec => []InfrastIsManned
<1>1. Init => MannedInv
  <2>1. Init => (task = "infrast" => PlanInv) /\ (task = "dorm" => DormInv) /\ (task = "reception" => ClueInv)
    BY PlanStarts, DormStarts, ReceptionStarts DEF Init, WorkerInit
  <2> QED
    BY <2>1, StaffInvInit, Zenon DEF MannedInv
<1>2. MannedInv /\ [Next]_vars => MannedInv'
  <2> SUFFICES ASSUME MannedInv, [Next]_vars PROVE MannedInv'
    OBVIOUS
  <2>1. task' = task
    BY TaskKept
  <2>2. task = "infrast" => PlanInv'
    BY StepOfInfrast, InfrastKeeps, InfrastStops DEF MannedInv
  <2>3. task = "dorm" => DormInv'
    BY StepOfDorm, DormKeeps, DormStops DEF MannedInv
  <2>4. task = "reception" => ClueInv'
    BY StepOfReception, ReceptionKeeps, ReceptionStops DEF MannedInv
  <2>5. task = "staff" => StaffInv'
    BY StaffInvStep DEF MannedInv
  <2> QED
    BY <2>1, <2>2, <2>3, <2>4, <2>5 DEF MannedInv
<1>3. DormInv => DormsAreFilled
  BY Zenon DEF DormInv, DormIsLooked, DormsAreFilled
<1>4. MannedInv => InfrastIsManned
  <2>1. task # "staff" => StaffIsSelected
    BY Zenon DEF StaffIsSelected
  <2>2. MannedInv => StaffIsSelected
    BY Zenon, <2>1, StaffIsRight DEF MannedInv
  <2>3. MannedInv => PlanIsFollowed /\ DormsAreFilled /\ CluesArePlaced
    BY Zenon, <1>3, PlanIsRight, CluesAreRight DEF MannedInv, PlanIsFollowed, DormsAreFilled, CluesArePlaced
  <2> QED
    BY Zenon, <2>2, <2>3, LevelsTold DEF InfrastIsManned
<1> QED
  BY <1>1, <1>2, <1>4, PTL DEF Spec
-----------------------------------------------------------------------------
(* A recruitment: whatever the game answers, presses are counted and tags are
   reported once. *)

OfRecruit == {"times", "refresh", "speedUp", "confirms", "cur", "fails", "skipped", "discard", "dirty", "trySpeed", "slot",
              "refreshed", "analyzed", "direct"}
OfHall == {"slots", "fresh", "confirmed", "lost", "stale", "sets", "overtaken", "turned"}

\* Of the records only what the argument needs.
RecruitTypeOK ==
  /\ DOMAIN recruit = OfRecruit
  /\ recruit.times \in Int /\ recruit.cur \in Nat /\ recruit.discard \in BOOLEAN /\ recruit.direct \in BOOLEAN
  /\ recruit.confirms \in BOOLEAN
  /\ DOMAIN hall = OfHall
  /\ hall.slots \in [Slot -> {"free", "busy", "done"}] /\ hall.confirmed \in Nat
  /\ hall.lost \in BOOLEAN /\ hall.stale \in BOOLEAN /\ hall.overtaken \in BOOLEAN /\ hall.turned \in BOOLEAN

\* Confirm was pressed no more often than was counted, but for a last press that failed,
\* and no more is counted than asked for, unless the times were set below that.
PressesAreCounted ==
  /\ recruit.discard = FALSE => hall.confirmed <= recruit.cur
  /\ recruit.discard = TRUE => hall.confirmed <= recruit.cur + 1
  /\ hall.overtaken = FALSE => recruit.cur <= recruit.times /\ (recruit.discard = TRUE => recruit.cur < recruit.times)

\* A slot is open only while there is something left to do.
OpenToDo ==
  /\ at \in {"analyze", "confirm"} => recruit.discard = FALSE
  /\ recruit.direct = TRUE => at \in {"run", "analyze"} \cup Over
  /\ (at = "analyze" /\ recruit.direct = FALSE) \/ at = "confirm" =>
       /\ recruit.slot \in Slot /\ hall.slots[recruit.slot] = "free"
       /\ hall.overtaken = FALSE => recruit.cur < recruit.times

\* A slot that is free and counts as clean has tags nobody has seen.
CleanIsFresh ==
  at \notin {"run"} \cup Over /\ ~(at = "analyze" /\ recruit.direct = TRUE) /\ hall.lost = FALSE =>
    \A s \in Slot : hall.slots[s] = "free" /\ s \notin recruit.dirty => s \in hall.fresh

\* What was reported again is known to be so, a direct calculation that reports as well.
StaleIsLost ==
  /\ hall.stale = TRUE => hall.lost = TRUE \/ hall.turned = TRUE
  /\ at = "analyze" /\ recruit.direct = TRUE /\ ~CalcOnly => hall.turned = TRUE

-----------------------------------------------------------------------------
\* What a report leaves of the hall.
LEMMA ReportedFields ==
  ASSUME RecruitTypeOK
  PROVE  /\ DOMAIN Reported = OfHall
         /\ Reported.slots = hall.slots /\ Reported.confirmed = hall.confirmed /\ Reported.lost = hall.lost
         /\ Reported.overtaken = hall.overtaken /\ Reported.turned = hall.turned
         /\ Reported.fresh = (IF Reports THEN hall.fresh \ {recruit.slot} ELSE hall.fresh)
         /\ Reported.stale = (hall.stale \/ (Reports /\ recruit.slot \notin hall.fresh))
BY DEF RecruitTypeOK, Reported, OfHall

\* What it leaves of the task.
LEMMA MarkedFields ==
  ASSUME RecruitTypeOK
  PROVE  /\ DOMAIN Marked = OfRecruit
         /\ Marked.times = recruit.times /\ Marked.cur = recruit.cur /\ Marked.discard = recruit.discard
         /\ Marked.confirms = recruit.confirms /\ Marked.direct = recruit.direct /\ Marked.slot = recruit.slot
         /\ Marked.dirty = (IF Reports THEN recruit.dirty \cup {recruit.slot} ELSE recruit.dirty)
BY DEF RecruitTypeOK, Marked, OfRecruit

\* Skipping a slot changes nothing else.
LEMMA SkipFields ==
  ASSUME NEW r, DOMAIN r = OfRecruit
  PROVE  /\ DOMAIN Skip(r) = OfRecruit
         /\ Skip(r).times = r.times /\ Skip(r).cur = r.cur /\ Skip(r).discard = r.discard
         /\ Skip(r).confirms = r.confirms /\ Skip(r).direct = r.direct /\ Skip(r).dirty = r.dirty
BY DEF Skip, OfRecruit

\* Back in the loop, one more time is counted.
LEMMA CountedFields ==
  ASSUME NEW r, DOMAIN r = OfRecruit, SlotDone(r, TRUE)
  PROVE  /\ DOMAIN recruit' = OfRecruit
         /\ recruit'.times = r.times /\ recruit'.discard = r.discard /\ recruit'.dirty = r.dirty
         /\ recruit'.confirms = r.confirms /\ recruit'.direct = r.direct
         /\ recruit'.cur = r.cur + 1
         /\ at' \in {"run", "failed", "speed", "slots"}
<1>1. at' \in {"run", "failed", "speed", "slots"}
  BY DEF SlotDone, RunFails, Goes
<1>2. recruit' = [r EXCEPT !.slot = 0, !.refreshed = 0, !.analyzed = 0, !.cur = @ + 1, !.fails = @]
  BY DEF SlotDone
<1> QED
  BY <1>1, <1>2 DEF OfRecruit

\* Back in the loop, one more failure is counted.
LEMMA UncountedFields ==
  ASSUME NEW r, DOMAIN r = OfRecruit, SlotDone(r, FALSE)
  PROVE  /\ DOMAIN recruit' = OfRecruit
         /\ recruit'.times = r.times /\ recruit'.discard = r.discard /\ recruit'.dirty = r.dirty
         /\ recruit'.confirms = r.confirms /\ recruit'.direct = r.direct
         /\ recruit'.cur = r.cur
         /\ at' \in {"run", "failed", "speed", "slots"}
<1>1. at' \in {"run", "failed", "speed", "slots"}
  BY DEF SlotDone, RunFails, Goes
<1>2. recruit' = [r EXCEPT !.slot = 0, !.refreshed = 0, !.analyzed = 0, !.cur = @, !.fails = @ + 1]
  BY DEF SlotDone
<1> QED
  BY <1>1, <1>2 DEF OfRecruit

\* A calculation that has failed counts nothing.
LEMMA CalcFailsFields ==
  ASSUME RecruitTypeOK, NEW r, DOMAIN r = OfRecruit, r.times = recruit.times, r.cur = recruit.cur, r.discard = recruit.discard,
         r.confirms = recruit.confirms /\ r.direct = recruit.direct, CalcFails(r)
  PROVE  /\ DOMAIN recruit' = OfRecruit
         /\ recruit'.times = recruit.times /\ recruit'.cur = recruit.cur /\ recruit'.discard = recruit.discard
         /\ recruit'.confirms = recruit.confirms /\ recruit'.direct = recruit.direct
         /\ recruit'.dirty = r.dirty
         /\ at' \in {"run", "failed", "speed", "slots"} /\ (recruit.direct = TRUE => at' \in {"run", "failed"})
<1>1. CASE recruit.direct = TRUE
  BY <1>1 DEF CalcFails, RunFails, RecruitTypeOK
<1>2. CASE recruit.direct = FALSE
  <2>1. SlotDone(Skip(r), FALSE)
    BY <1>2 DEF CalcFails
  <2> QED
    BY <1>2, <2>1, SkipFields, UncountedFields
<1> QED
  BY <1>1, <1>2 DEF RecruitTypeOK

\* A press that is taken fills the slot.
LEMMA TakenFields ==
  ASSUME RecruitTypeOK
  PROVE  /\ DOMAIN Taken = OfHall
         /\ Taken.slots = [hall.slots EXCEPT ![recruit.slot] = "busy"] /\ Taken.confirmed = hall.confirmed + 1
         /\ Taken.lost = hall.lost
         /\ Taken.overtaken = hall.overtaken /\ Taken.turned = hall.turned /\ Taken.stale = hall.stale /\ Taken.fresh = hall.fresh \ {recruit.slot}
BY DEF RecruitTypeOK, Taken, OfHall

\* The slots that are seen count as clean, and those that are hired are free.
LEMMA HireFields ==
  ASSUME RecruitTypeOK, NEW seen \in SUBSET Slot, NEW hired \in SUBSET Slot, NEW dirty, Hire(seen, hired, dirty)
  PROVE  /\ DOMAIN recruit' = OfRecruit /\ DOMAIN hall' = OfHall
         /\ recruit'.times = recruit.times /\ recruit'.cur = recruit.cur /\ recruit'.discard = recruit.discard
         /\ recruit'.confirms = recruit.confirms /\ recruit'.direct = FALSE /\ recruit'.dirty = dirty \ seen
         /\ hall'.slots = [s \in Slot |-> IF s \in hired THEN "free" ELSE hall.slots[s]] /\ hall'.fresh = hall.fresh \cup hired
         /\ hall'.confirmed = hall.confirmed /\ hall'.lost = hall.lost
         /\ hall'.overtaken = hall.overtaken /\ hall'.turned = hall.turned /\ hall'.stale = hall.stale
         /\ \A s \in seen \cup hired : hall.slots[s] = "done"
<1>1. /\ recruit' = [recruit EXCEPT !.dirty = dirty \ seen, !.direct = FALSE, !.trySpeed = IF at = "run" THEN recruit.speedUp ELSE @]
      /\ hall' = [hall EXCEPT !.slots = [s \in Slot |-> IF s \in hired THEN "free" ELSE @[s]], !.fresh = @ \cup hired]
      /\ seen \cup hired \subseteq AreIn("done")
  BY DEF Hire
<1> QED
  BY <1>1 DEF RecruitTypeOK, OfRecruit, OfHall, AreIn

RecruitInv == RecruitTypeOK /\ PressesAreCounted /\ OpenToDo /\ CleanIsFresh /\ StaleIsLost

-----------------------------------------------------------------------------
\* The slots that are seen count as clean, and only those that are hired are free.
LEMMA BeginStep ==
  ASSUME RecruitInv, RecruitBegin
  PROVE  RecruitInv'
<1>0. RecruitTypeOK
  BY DEF RecruitInv
<1> USE DEF RecruitInv, RecruitTypeOK, PressesAreCounted, OpenToDo, CleanIsFresh, StaleIsLost, Over
<1>1. CASE UNCHANGED <<recruit, hall>> /\ RunFails(RecruitRetries)
  BY <1>1 DEF RunFails, CalcOnly
<1>2. CASE ~recruit.discard /\ CalcOnly /\ Goes("analyze") /\ UNCHANGED hall
           /\ recruit' = [recruit EXCEPT !.refreshed = 0, !.analyzed = 0, !.direct = TRUE]
  BY <1>2 DEF Goes, CalcOnly, OfRecruit
<1>3. ASSUME NEW seen \in SUBSET Slot, NEW hired \in SUBSET Slot, Hire(seen, hired, Slot), ~recruit.discard,
             Goes("slots") \/ RunFails(RecruitRetries)
      PROVE  RecruitInv'
  <2>1. at' \in {"run", "failed", "slots"}
    BY <1>3 DEF Goes, RunFails
  <2>2. /\ DOMAIN recruit' = OfRecruit /\ DOMAIN hall' = OfHall
        /\ recruit'.times = recruit.times /\ recruit'.cur = recruit.cur /\ recruit'.discard = recruit.discard
        /\ recruit'.confirms = recruit.confirms /\ recruit'.direct = FALSE /\ recruit'.dirty = Slot \ seen
        /\ hall'.slots = [s \in Slot |-> IF s \in hired THEN "free" ELSE hall.slots[s]] /\ hall'.fresh = hall.fresh \cup hired
        /\ hall'.confirmed = hall.confirmed /\ hall'.lost = hall.lost
        /\ hall'.overtaken = hall.overtaken /\ hall'.turned = hall.turned /\ hall'.stale = hall.stale
        /\ \A s \in seen \cup hired : hall.slots[s] = "done"
    BY ONLY Zenon, <1>0, <1>3, HireFields
  <2>3. CalcOnly' = CalcOnly
    BY <2>2 DEF CalcOnly
  <2>5. RecruitTypeOK'
    <3>1. hall'.slots \in [Slot -> {"free", "busy", "done"}]
      BY <1>3, <2>1, <2>2, <2>3
    <3>2. recruit'.confirms \in BOOLEAN /\ recruit'.direct \in BOOLEAN
      BY <1>3, <2>1, <2>2, <2>3
    <3> QED
      BY <1>3, <2>1, <2>2, <2>3, <3>1, <3>2
  <2>6. PressesAreCounted'
    BY <1>3, <2>1, <2>2, <2>3
  <2>7. OpenToDo'
    BY <1>3, <2>1, <2>2, <2>3
  <2>8. CleanIsFresh'
    <3> SUFFICES ASSUME NEW s \in Slot, hall'.slots[s] = "free", s \notin recruit'.dirty
                 PROVE  s \in hall'.fresh
      OBVIOUS
    <3>1. s \in seen
      BY <2>2
    <3>2. s \in hired
      BY <2>2, <3>1
    <3> QED
      BY <2>2, <3>2
  <2>9. StaleIsLost'
    BY <1>3, <2>1, <2>2, <2>3
  <2> QED
    BY <2>5, <2>6, <2>7, <2>8, <2>9
<1> QED
  BY <1>1, <1>2, <1>3 DEF RecruitBegin

\* A slot is opened while there is something to do.
LEMMA OpenStep ==
  ASSUME RecruitInv, NEW s \in Slot, OpenSlot(s)
  PROVE  RecruitInv'
<1> USE RecruitAssumption DEF RecruitInv, RecruitTypeOK, OpenToDo, CalcOnly, Slot, Over
<1>5. RecruitTypeOK'
  BY DEF OpenSlot, AreIn, OfRecruit, Goes, RunFails, Sub, Stays, worker
<1>6. PressesAreCounted'
  BY DEF OpenSlot, AreIn, OfRecruit, Goes, RunFails, Sub, Stays, worker, PressesAreCounted
<1>7. OpenToDo'
  BY DEF OpenSlot, AreIn, OfRecruit, Goes, RunFails, Sub, Stays, worker, PressesAreCounted
<1>8. CleanIsFresh'
  BY DEF OpenSlot, AreIn, OfRecruit, Goes, RunFails, Sub, Stays, worker, CleanIsFresh
<1>9. StaleIsLost'
  BY DEF OpenSlot, AreIn, OfRecruit, Goes, RunFails, Sub, Stays, worker, CleanIsFresh, StaleIsLost
<1> QED
  BY <1>5, <1>6, <1>7, <1>8, <1>9 DEF RecruitInv

\* The loop is left, or nothing happens in it.
LEMMA LeaveStep ==
  ASSUME RecruitInv, LeaveSlots \/ NoStartButton
  PROVE  RecruitInv'
<1> USE RecruitAssumption DEF RecruitInv, RecruitTypeOK, OpenToDo, CalcOnly, Slot, Over
<1>5. RecruitTypeOK'
  BY DEF LeaveSlots, NoStartButton, Goes, RunFails, Sub, Stays, worker
<1>6. PressesAreCounted'
  BY DEF LeaveSlots, NoStartButton, Goes, RunFails, Sub, Stays, worker, PressesAreCounted
<1>7. OpenToDo'
  BY DEF LeaveSlots, NoStartButton, Goes, RunFails, Sub, Stays, worker, PressesAreCounted
<1>8. CleanIsFresh'
  BY DEF LeaveSlots, NoStartButton, Goes, RunFails, Sub, Stays, worker, CleanIsFresh
<1>9. StaleIsLost'
  BY DEF LeaveSlots, NoStartButton, Goes, RunFails, Sub, Stays, worker, CleanIsFresh, StaleIsLost
<1> QED
  BY <1>5, <1>6, <1>7, <1>8, <1>9 DEF RecruitInv

\* After a speed-up more slots may be hired.
LEMMA AgainStep ==
  ASSUME RecruitInv, HireAgain
  PROVE  RecruitInv'
<1>0. RecruitTypeOK
  BY DEF RecruitInv
<1> USE DEF RecruitInv, RecruitTypeOK, PressesAreCounted, OpenToDo, CleanIsFresh, StaleIsLost, Over
<1>1. PICK seen \in SUBSET Slot, hired \in SUBSET Slot : Hire(seen, hired, recruit.dirty)
  BY DEF HireAgain
<1>2. at = "hire" /\ at' = "slots"
  BY DEF HireAgain, Goes
<1>2a. /\ DOMAIN recruit' = OfRecruit /\ DOMAIN hall' = OfHall
      /\ recruit'.times = recruit.times /\ recruit'.cur = recruit.cur /\ recruit'.discard = recruit.discard
      /\ recruit'.confirms = recruit.confirms /\ recruit'.direct = FALSE /\ recruit'.dirty = recruit.dirty \ seen
      /\ hall'.slots = [s \in Slot |-> IF s \in hired THEN "free" ELSE hall.slots[s]] /\ hall'.fresh = hall.fresh \cup hired
      /\ hall'.confirmed = hall.confirmed /\ hall'.lost = hall.lost
      /\ hall'.overtaken = hall.overtaken /\ hall'.turned = hall.turned /\ hall'.stale = hall.stale
      /\ \A s \in seen \cup hired : hall.slots[s] = "done"
  <2>1. PICK d : d = recruit.dirty
    OBVIOUS
  <2>2. Hire(seen, hired, d)
    BY Zenon, <1>1, <2>1 DEF Hire
  <2>3. recruit'.dirty = d \ seen
    <3>1. recruit' = [recruit EXCEPT !.dirty = d \ seen, !.direct = FALSE, !.trySpeed = IF at = "run" THEN recruit.speedUp ELSE @]
      BY <2>2 DEF Hire
    <3> QED
      BY <3>1 DEF OfRecruit
  <2>4. recruit'.dirty = recruit.dirty \ seen
    BY ONLY <2>1, <2>3
  <2> QED
    BY ONLY Zenon, <1>0, <1>1, <2>2, <2>4, HireFields
<1>4. CalcOnly' = CalcOnly
  BY <1>2a DEF CalcOnly
<1>5. RecruitTypeOK'
  <2>1. hall'.slots \in [Slot -> {"free", "busy", "done"}]
    BY <1>2, <1>2a, <1>4
  <2>2. recruit'.confirms \in BOOLEAN /\ recruit'.direct \in BOOLEAN
    BY <1>2, <1>2a, <1>4
  <2> QED
    BY <1>2, <1>2a, <1>4, <2>1, <2>2
<1>6. PressesAreCounted'
  BY <1>2, <1>2a, <1>4
<1>7. OpenToDo'
  BY <1>2, <1>2a, <1>4
<1>8. CleanIsFresh'
  <2> SUFFICES ASSUME hall.lost = FALSE, NEW s \in Slot, hall'.slots[s] = "free", s \notin recruit'.dirty
               PROVE  s \in hall'.fresh
    BY <1>2a
  <2>1. CASE s \in hired
    BY <1>2a, <2>1
  <2>2. CASE s \notin hired
    <3>1. hall.slots[s] = "free" /\ s \notin seen
      BY <1>2a, <2>2
    <3> QED
      BY <1>2, <1>2a, <3>1
  <2> QED
    BY <2>1, <2>2
<1>9. StaleIsLost'
  BY <1>2, <1>2a, <1>4
<1> QED
  BY <1>5, <1>6, <1>7, <1>8, <1>9

\* What is busy is sped up, or not.
LEMMA SpeedStep ==
  ASSUME RecruitInv, SpeedUp \/ NoSpeedUp
  PROVE  RecruitInv'
<1> USE DEF RecruitInv, RecruitTypeOK, PressesAreCounted, OpenToDo, CleanIsFresh, StaleIsLost, Over
<1>1. CASE SpeedUp
  <2>1. PICK s \in AreIn("busy") : hall' = [hall EXCEPT !.slots[s] = "done"]
    BY <1>1 DEF SpeedUp
  <2>2. /\ DOMAIN hall' = OfHall /\ hall'.slots = [hall.slots EXCEPT ![s] = "done"] /\ hall'.fresh = hall.fresh
        /\ hall'.confirmed = hall.confirmed /\ hall'.lost = hall.lost
        /\ hall'.overtaken = hall.overtaken /\ hall'.turned = hall.turned /\ hall'.stale = hall.stale
    BY <2>1 DEF OfHall
  <2>3. s \in Slot /\ at = "speed" /\ at' = "hire" /\ UNCHANGED recruit
    BY <1>1 DEF SpeedUp, AreIn, Goes
  <2>5. RecruitTypeOK'
    BY <2>2, <2>3 DEF CalcOnly
  <2>6. PressesAreCounted'
    BY <2>2, <2>3 DEF CalcOnly
  <2>7. OpenToDo'
    BY <2>2, <2>3 DEF CalcOnly
  <2>8. CleanIsFresh'
    BY <2>2, <2>3 DEF CalcOnly
  <2>9. StaleIsLost'
    BY <2>2, <2>3 DEF CalcOnly
  <2> QED
    BY <2>5, <2>6, <2>7, <2>8, <2>9
<1>2. CASE NoSpeedUp
  <2>1. at = "speed" /\ at' \in {"slots", "run", "failed"} /\ UNCHANGED hall
        /\ (recruit' = recruit \/ recruit' = [recruit EXCEPT !.trySpeed = FALSE])
    BY <1>2 DEF NoSpeedUp, Goes, RunFails
  <2>2. DOMAIN recruit' = OfRecruit /\ recruit'.times = recruit.times /\ recruit'.cur = recruit.cur
        /\ recruit'.discard = recruit.discard /\ recruit'.dirty = recruit.dirty /\ recruit'.confirms = recruit.confirms
        /\ recruit'.direct = recruit.direct
    BY <2>1 DEF OfRecruit
  <2>5. RecruitTypeOK'
    BY <2>1, <2>2 DEF CalcOnly
  <2>6. PressesAreCounted'
    BY <2>1, <2>2 DEF CalcOnly
  <2>7. OpenToDo'
    BY <2>1, <2>2 DEF CalcOnly
  <2>8. CleanIsFresh'
    BY <2>1, <2>2 DEF CalcOnly
  <2>9. StaleIsLost'
    BY <2>1, <2>2 DEF CalcOnly
  <2> QED
    BY <2>5, <2>6, <2>7, <2>8, <2>9
<1> QED
  BY <1>1, <1>2

\* A press is counted, or the task gives up.
LEMMA ConfirmStep ==
  ASSUME RecruitInv, LeaveSlot \/ Confirm \/ ConfirmFails
  PROVE  RecruitInv'
<1> USE DEF RecruitInv, RecruitTypeOK, PressesAreCounted, OpenToDo, CleanIsFresh, StaleIsLost, Over
<1>1. at = "confirm" /\ recruit.slot \in Slot /\ recruit.discard = FALSE /\ recruit.direct = FALSE
      /\ (hall.overtaken = FALSE => recruit.cur < recruit.times)
  BY DEF LeaveSlot, Confirm, ConfirmFails
<1>2. CASE LeaveSlot
  <2>1. SlotDone(recruit, FALSE) /\ UNCHANGED hall
    BY <1>2 DEF LeaveSlot
  <2>2. /\ DOMAIN recruit' = OfRecruit /\ recruit'.times = recruit.times /\ recruit'.cur = recruit.cur
        /\ recruit'.discard = FALSE /\ recruit'.confirms = recruit.confirms
        /\ recruit'.direct = recruit.direct /\ recruit'.dirty = recruit.dirty
        /\ at' \in {"run", "failed", "speed", "slots"}
    BY <1>1, <2>1, UncountedFields
  <2>3. CalcOnly' = CalcOnly
    BY <2>2 DEF CalcOnly
  <2>5. RecruitTypeOK'
    <3>1. hall'.slots \in [Slot -> {"free", "busy", "done"}]
      BY <1>1, <2>1, <2>2, <2>3
    <3>2. recruit'.confirms \in BOOLEAN /\ recruit'.direct \in BOOLEAN
      BY <1>1, <2>1, <2>2, <2>3
    <3> QED
      BY <1>1, <2>1, <2>2, <2>3, <3>1, <3>2
  <2>6. PressesAreCounted'
    BY <1>1, <2>1, <2>2, <2>3
  <2>7. OpenToDo'
    BY <1>1, <2>1, <2>2, <2>3
  <2>8. CleanIsFresh'
    BY <1>1, <2>1, <2>2, <2>3
  <2>9. StaleIsLost'
    BY <1>1, <2>1, <2>2, <2>3
  <2> QED
    BY <2>5, <2>6, <2>7, <2>8, <2>9
<1>3. CASE Confirm
  <2>0. SlotDone(recruit, TRUE) /\ hall' = Taken
    BY <1>3 DEF Confirm
  <2>2. /\ DOMAIN recruit' = OfRecruit /\ recruit'.times = recruit.times /\ recruit'.cur = recruit.cur + 1
        /\ recruit'.discard = FALSE /\ recruit'.confirms = recruit.confirms
        /\ recruit'.direct = recruit.direct /\ recruit'.dirty = recruit.dirty
        /\ at' \in {"run", "failed", "speed", "slots"}
    BY <1>1, <2>0, CountedFields
  <2>3. CalcOnly' = CalcOnly
    BY <2>2 DEF CalcOnly
  <2>4. hall' = Taken => /\ DOMAIN hall' = OfHall
                         /\ hall'.slots = [hall.slots EXCEPT ![recruit.slot] = "busy"] /\ hall'.confirmed = hall.confirmed + 1
                         /\ hall'.lost = hall.lost
                         /\ hall'.overtaken = hall.overtaken /\ hall'.turned = hall.turned /\ hall'.stale = hall.stale /\ hall'.fresh = hall.fresh \ {recruit.slot}
    BY TakenFields
  <2>5. RecruitTypeOK'
    <3>1. hall'.slots \in [Slot -> {"free", "busy", "done"}]
      BY <1>1, <2>0, <2>2, <2>3, <2>4
    <3>2. recruit'.confirms \in BOOLEAN /\ recruit'.direct \in BOOLEAN
      BY <2>2
    <3>3. DOMAIN hall' = OfHall /\ hall'.confirmed \in Nat
      BY <2>0, <2>4
    <3>4. hall'.lost \in BOOLEAN /\ hall'.stale \in BOOLEAN /\ hall'.overtaken \in BOOLEAN /\ hall'.turned \in BOOLEAN
      BY <2>0, <2>4
    <3>5. recruit'.discard \in BOOLEAN
      BY <2>2
    <3>6. recruit'.times \in Int /\ recruit'.cur \in Nat
      <4>1. recruit.times \in Int /\ recruit.cur \in Nat
        BY DEF RecruitInv, RecruitTypeOK
      <4> QED
        BY <2>2, <4>1
    <3> QED
      BY <2>2, <3>1, <3>2, <3>3, <3>4, <3>5, <3>6
  <2>6. PressesAreCounted'
    BY <1>1, <2>0, <2>2, <2>3, <2>4
  <2>7. OpenToDo'
    BY <1>1, <2>0, <2>2, <2>3, <2>4
  <2>8. CleanIsFresh'
    BY <1>1, <2>0, <2>2, <2>3, <2>4
  <2>9. StaleIsLost'
    BY <1>1, <2>0, <2>2, <2>3, <2>4
  <2> QED
    BY <2>5, <2>6, <2>7, <2>8, <2>9
<1>4. CASE ConfirmFails
  <2> DEFINE r == [recruit EXCEPT !.discard = TRUE]
  <2>0. SlotDone(r, FALSE) /\ (hall' = hall \/ hall' = Taken)
    BY <1>4 DEF ConfirmFails
  <2>1. DOMAIN r = OfRecruit /\ r.times = recruit.times /\ r.cur = recruit.cur /\ r.discard = TRUE /\ r.confirms = recruit.confirms
                             /\ r.direct = recruit.direct
        /\ r.dirty = recruit.dirty
    BY DEF OfRecruit
  <2> HIDE DEF r
  <2>2. /\ DOMAIN recruit' = OfRecruit /\ recruit'.times = recruit.times /\ recruit'.cur = recruit.cur
        /\ recruit'.discard = TRUE /\ recruit'.confirms = recruit.confirms
        /\ recruit'.direct = recruit.direct /\ recruit'.dirty = recruit.dirty
        /\ at' \in {"run", "failed", "speed", "slots"}
    BY <2>0, <2>1, UncountedFields
  <2>3. CalcOnly' = CalcOnly
    BY <2>2 DEF CalcOnly
  <2>4. hall' = Taken => /\ DOMAIN hall' = OfHall
                         /\ hall'.slots = [hall.slots EXCEPT ![recruit.slot] = "busy"] /\ hall'.confirmed = hall.confirmed + 1
                         /\ hall'.lost = hall.lost
                         /\ hall'.overtaken = hall.overtaken /\ hall'.turned = hall.turned /\ hall'.stale = hall.stale /\ hall'.fresh = hall.fresh \ {recruit.slot}
    BY TakenFields
  <2>5. RecruitTypeOK'
    <3>1. hall'.slots \in [Slot -> {"free", "busy", "done"}]
      BY <1>1, <2>0, <2>2, <2>3, <2>4
    <3>2. recruit'.confirms \in BOOLEAN /\ recruit'.direct \in BOOLEAN
      BY <2>2
    <3>3. DOMAIN hall' = OfHall /\ hall'.confirmed \in Nat
      BY <2>0, <2>4
    <3>4. hall'.lost \in BOOLEAN /\ hall'.stale \in BOOLEAN /\ hall'.overtaken \in BOOLEAN /\ hall'.turned \in BOOLEAN
      BY <2>0, <2>4
    <3>5. recruit'.discard \in BOOLEAN
      BY <2>2
    <3>6. recruit'.times \in Int /\ recruit'.cur \in Nat
      <4>1. recruit.times \in Int /\ recruit.cur \in Nat
        BY DEF RecruitInv, RecruitTypeOK
      <4> QED
        BY <2>2, <4>1
    <3> QED
      BY <2>2, <3>1, <3>2, <3>3, <3>4, <3>5, <3>6
  <2>6. PressesAreCounted'
    BY <1>1, <2>0, <2>2, <2>3, <2>4
  <2>7. OpenToDo'
    BY <1>1, <2>0, <2>2, <2>3, <2>4
  <2>8. CleanIsFresh'
    BY <1>1, <2>0, <2>2, <2>3, <2>4
  <2>9. StaleIsLost'
    BY <1>1, <2>0, <2>2, <2>3, <2>4
  <2> QED
    BY <2>5, <2>6, <2>7, <2>8, <2>9
<1> QED
  BY <1>2, <1>3, <1>4

\* A slot is looked at: its tags are reported if they are new.
LEMMA AnalyzeStep ==
  ASSUME RecruitInv, Misread \/ SeesStop \/ RefreshRefused \/ Calculated
  PROVE  RecruitInv'
<1> USE DEF RecruitInv, RecruitTypeOK, PressesAreCounted, OpenToDo, CleanIsFresh, StaleIsLost, Over
<1>1. at = "analyze" /\ recruit.discard = FALSE
  BY DEF Misread, SeesStop, RefreshRefused, Calculated, Reads
<1>2. CASE Misread /\ recruit.analyzed < AnalyzeLimit
  <2>1. /\ recruit' = [recruit EXCEPT !.analyzed = @ + 1] /\ UNCHANGED <<at, hall>>
    BY <1>2 DEF Misread, Stays, worker
  <2>2. /\ DOMAIN recruit' = OfRecruit /\ recruit'.times = recruit.times /\ recruit'.cur = recruit.cur
        /\ recruit'.discard = recruit.discard /\ recruit'.dirty = recruit.dirty /\ recruit'.confirms = recruit.confirms
        /\ recruit'.direct = recruit.direct
        /\ recruit'.slot = recruit.slot
    BY <2>1 DEF OfRecruit
  <2>5. RecruitTypeOK'
    BY <1>1, <2>1, <2>2 DEF CalcOnly
  <2>6. PressesAreCounted'
    BY <1>1, <2>1, <2>2 DEF CalcOnly
  <2>7. OpenToDo'
    BY <1>1, <2>1, <2>2 DEF CalcOnly
  <2>8. CleanIsFresh'
    BY <1>1, <2>1, <2>2 DEF CalcOnly
  <2>9. StaleIsLost'
    BY <1>1, <2>1, <2>2 DEF CalcOnly
  <2> QED
    BY <2>5, <2>6, <2>7, <2>8, <2>9
<1>3. CASE Misread /\ ~(recruit.analyzed < AnalyzeLimit)
  <2>1. CalcFails(recruit) /\ UNCHANGED hall
    BY <1>3 DEF Misread
  <2>5. RecruitTypeOK'
    BY <1>1, <2>1, CalcFailsFields DEF CalcOnly
  <2>6. PressesAreCounted'
    BY <1>1, <2>1, CalcFailsFields DEF CalcOnly
  <2>7. OpenToDo'
    BY <1>1, <2>1, CalcFailsFields DEF CalcOnly
  <2>8. CleanIsFresh'
    BY <1>1, <2>1, CalcFailsFields DEF CalcOnly
  <2>9. StaleIsLost'
    BY <1>1, <2>1, CalcFailsFields DEF CalcOnly
  <2> QED
    BY <2>5, <2>6, <2>7, <2>8, <2>9
<1>4. ASSUME hall' = Reported, CalcFails(Marked)
      PROVE  RecruitInv'
  <2>1. Reports => ~CalcOnly /\ recruit.slot \notin recruit.dirty
    BY DEF Reports
  <2>2. DOMAIN recruit' = OfRecruit /\ recruit'.times = recruit.times /\ recruit'.cur = recruit.cur
        /\ recruit'.discard = recruit.discard /\ recruit'.confirms = recruit.confirms /\ recruit'.direct = recruit.direct
        /\ recruit'.dirty = Marked.dirty /\ at' \in {"run", "failed", "speed", "slots"}
        /\ (recruit.direct = TRUE => at' \in {"run", "failed"})
    BY <1>4, MarkedFields, CalcFailsFields
  <2>3. CalcOnly' = CalcOnly
    BY <2>2 DEF CalcOnly
  <2>5. RecruitTypeOK'
    BY <1>1, <1>4, <2>1, <2>2, <2>3, ReportedFields, MarkedFields
  <2>6. PressesAreCounted'
    BY <1>1, <1>4, <2>1, <2>2, <2>3, ReportedFields, MarkedFields
  <2>7. OpenToDo'
    BY <1>1, <1>4, <2>1, <2>2, <2>3, ReportedFields, MarkedFields
  <2>8. CleanIsFresh'
    BY <1>1, <1>4, <2>1, <2>2, <2>3, ReportedFields, MarkedFields
  <2>9. StaleIsLost'
    BY <1>1, <1>4, <2>1, <2>2, <2>3, ReportedFields, MarkedFields
  <2> QED
    BY <2>5, <2>6, <2>7, <2>8, <2>9
<1>5. CASE Calculated
  <2>0. hall' = Reported
    BY <1>5 DEF Calculated
  <2>a. Reports => ~CalcOnly /\ recruit.slot \notin recruit.dirty
    BY DEF Reports
  <2>1. CASE recruit.direct = TRUE /\ Goes("succeeded") /\ recruit' = Marked
    <3>5. RecruitTypeOK'
      BY <1>1, <2>0, <2>a, <2>1, ReportedFields, MarkedFields DEF CalcOnly, Goes
    <3>6. PressesAreCounted'
      BY <1>1, <2>0, <2>a, <2>1, ReportedFields, MarkedFields DEF CalcOnly, Goes
    <3>7. OpenToDo'
      BY <1>1, <2>0, <2>a, <2>1, ReportedFields, MarkedFields DEF CalcOnly, Goes
    <3>8. CleanIsFresh'
      BY <1>1, <2>0, <2>a, <2>1, ReportedFields, MarkedFields DEF CalcOnly, Goes
    <3>9. StaleIsLost'
      BY <1>1, <2>0, <2>a, <2>1, ReportedFields, MarkedFields DEF CalcOnly, Goes
    <3> QED
      BY <3>5, <3>6, <3>7, <3>8, <3>9
  <2>2. CASE recruit.direct = FALSE /\ SlotDone(Skip(Marked), TRUE)
    <3>1. DOMAIN recruit' = OfRecruit /\ recruit'.times = recruit.times /\ recruit'.cur = recruit.cur + 1
          /\ recruit'.discard = recruit.discard /\ recruit'.confirms = recruit.confirms /\ recruit'.direct = recruit.direct
          /\ recruit'.dirty = Marked.dirty /\ at' \in {"run", "failed", "speed", "slots"}
      <4>1. DOMAIN Marked = OfRecruit /\ Marked.times = recruit.times /\ Marked.cur = recruit.cur /\ Marked.discard = recruit.discard
            /\ Marked.confirms = recruit.confirms /\ Marked.direct = recruit.direct
        BY MarkedFields
      <4> DEFINE r == Skip(Marked)
      <4>2. DOMAIN r = OfRecruit /\ r.times = recruit.times /\ r.cur = recruit.cur /\ r.discard = recruit.discard
            /\ r.confirms = recruit.confirms /\ r.direct = recruit.direct /\ r.dirty = Marked.dirty
        BY <4>1, SkipFields
      <4>3. SlotDone(r, TRUE)
        BY <2>2
      <4> HIDE DEF r
      <4>4. /\ DOMAIN recruit' = OfRecruit
            /\ recruit'.times = r.times /\ recruit'.discard = r.discard /\ recruit'.dirty = r.dirty
         /\ recruit'.confirms = r.confirms /\ recruit'.direct = r.direct
            /\ recruit'.cur = r.cur + 1
            /\ at' \in {"run", "failed", "speed", "slots"}
        BY Zenon, <4>2, <4>3, CountedFields
      <4> QED
        BY Zenon, <4>2, <4>4
    <3>2. (hall.overtaken = FALSE => recruit.cur < recruit.times) /\ recruit.slot \in Slot /\ hall.slots[recruit.slot] = "free"
      BY <1>1, <2>2
    <3>5. RecruitTypeOK'
      BY <1>1, <2>0, <2>a, <2>2, <3>1, <3>2, ReportedFields, MarkedFields
    <3>6. PressesAreCounted'
      BY <1>1, <2>0, <2>a, <2>2, <3>1, <3>2, ReportedFields, MarkedFields
    <3>7. OpenToDo'
      BY <1>1, <2>0, <2>a, <2>2, <3>1, <3>2, ReportedFields, MarkedFields
    <3>8. CleanIsFresh'
      BY <1>1, <2>0, <2>a, <2>2, <3>1, <3>2, ReportedFields, MarkedFields
    <3>9. StaleIsLost'
      BY <1>1, <2>0, <2>a, <2>2, <3>1, <3>2, ReportedFields, MarkedFields
    <3> QED
      BY <3>5, <3>6, <3>7, <3>8, <3>9
  <2>3. CASE recruit.direct = FALSE /\ Goes("confirm") /\ recruit' = Marked
    <3>1. (hall.overtaken = FALSE => recruit.cur < recruit.times) /\ recruit.slot \in Slot /\ hall.slots[recruit.slot] = "free"
      BY <1>1, <2>3
    <3>2. at' = "confirm"
      BY <2>3 DEF Goes
    <3>5. RecruitTypeOK'
      BY <1>1, <2>0, <2>a, <2>3, <3>1, <3>2, ReportedFields, MarkedFields
    <3>6. PressesAreCounted'
      BY <1>1, <2>0, <2>a, <2>3, <3>1, <3>2, ReportedFields, MarkedFields
    <3>7. OpenToDo'
      BY <1>1, <2>0, <2>a, <2>3, <3>1, <3>2, ReportedFields, MarkedFields
    <3>8. CleanIsFresh'
      BY <1>1, <2>0, <2>a, <2>3, <3>1, <3>2, ReportedFields, MarkedFields
    <3>9. StaleIsLost'
      BY <1>1, <2>0, <2>a, <2>3, <3>1, <3>2, ReportedFields, MarkedFields
    <3> QED
      BY <3>5, <3>6, <3>7, <3>8, <3>9
  <2> QED
    BY <1>5, <2>1, <2>2, <2>3, MarkedFields DEF Calculated
<1> QED
  BY <1>2, <1>3, <1>4, <1>5 DEF Misread, SeesStop, RefreshRefused

\* After a refresh the slot counts as clean; that it may have failed is known to the hall.
LEMMA RefreshStep ==
  ASSUME RecruitInv, NEW works \in BOOLEAN, Refresh(works)
  PROVE  RecruitInv'
<1> USE DEF RecruitInv, RecruitTypeOK, PressesAreCounted, OpenToDo, CleanIsFresh, StaleIsLost, Over
<1>1. at = "analyze" /\ UNCHANGED at
  BY DEF Refresh, Reads, Stays, worker
<1>2. recruit' = [recruit EXCEPT !.refreshed = @ + 1, !.dirty = @ \ {recruit.slot}]
  BY DEF Refresh
<1>3. /\ DOMAIN recruit' = OfRecruit /\ recruit'.times = recruit.times /\ recruit'.cur = recruit.cur
      /\ recruit'.discard = recruit.discard /\ recruit'.confirms = recruit.confirms
      /\ recruit'.direct = recruit.direct /\ recruit'.slot = recruit.slot
      /\ recruit'.dirty = recruit.dirty \ {recruit.slot}
  BY <1>2 DEF OfRecruit
<1>4. hall' = [Reported EXCEPT !.fresh = IF works THEN @ \cup {recruit.slot} ELSE @, !.lost = @ \/ ~works]
  BY DEF Refresh
<1>5a. Reports => ~CalcOnly /\ recruit.slot \notin recruit.dirty
  BY DEF Reports
<1>6a. /\ DOMAIN hall' = OfHall /\ hall'.slots = hall.slots /\ hall'.confirmed = hall.confirmed
       /\ hall'.fresh = (IF works THEN Reported.fresh \cup {recruit.slot} ELSE Reported.fresh)
       /\ hall'.lost = (hall.lost \/ ~works) /\ hall'.stale = Reported.stale
       /\ hall'.overtaken = hall.overtaken /\ hall'.turned = hall.turned
  BY <1>4, ReportedFields DEF OfHall
<1>7a. CalcOnly' = CalcOnly
  BY <1>3 DEF CalcOnly
<1>5. RecruitTypeOK'
  <2>1. recruit'.confirms \in BOOLEAN /\ recruit'.direct \in BOOLEAN
    BY <1>3
  <2>2. hall'.lost \in BOOLEAN /\ hall'.stale \in BOOLEAN
    BY <1>6a, ReportedFields
  <2> QED
    BY <1>3, <1>6a, <2>1, <2>2
<1>6. PressesAreCounted'
  BY <1>1, <1>3, <1>5a, <1>6a, <1>7a, ReportedFields
<1>7. OpenToDo'
  BY <1>1, <1>3, <1>5a, <1>6a, <1>7a, ReportedFields
<1>8. CleanIsFresh'
  BY <1>1, <1>3, <1>5a, <1>6a, <1>7a, ReportedFields
<1>9. StaleIsLost'
  BY <1>1, <1>3, <1>5a, <1>6a, <1>7a, ReportedFields
<1> QED
  BY <1>5, <1>6, <1>7, <1>8, <1>9

-----------------------------------------------------------------------------
\* A new task has done nothing, and all slots are to be looked at.
LEMMA RecruitStarts ==
  ASSUME WorkerInit("recruit"), RecruitInit
  PROVE  RecruitInv
<1> USE RecruitAssumption
<1>1. PICK a \in RecruitAsks :
        recruit = [times |-> a.times, refresh |-> a.refresh, speedUp |-> a.speedUp, confirms |-> a.confirms,
                   cur |-> 0, fails |-> 0, skipped |-> {}, discard |-> FALSE, dirty |-> Slot,
                   trySpeed |-> FALSE, slot |-> 0, refreshed |-> 0, analyzed |-> 0, direct |-> FALSE]
  BY DEF RecruitInit
<1>2. a.times \in Int /\ a.confirms \in BOOLEAN
  BY DEF RecruitAssumption
<1>3. /\ DOMAIN recruit = OfRecruit /\ recruit.times \in Int /\ recruit.cur = 0 /\ recruit.discard = FALSE /\ recruit.direct = FALSE
      /\ recruit.confirms \in BOOLEAN
  BY <1>1, <1>2 DEF OfRecruit
<1>4. /\ DOMAIN hall = OfHall /\ hall.slots \in [Slot -> {"free", "done"}] /\ hall.fresh = {} /\ hall.confirmed = 0
      /\ hall.lost = FALSE /\ hall.stale = FALSE /\ hall.overtaken = (recruit.times < 0) /\ hall.turned = FALSE
  BY DEF RecruitInit, OfHall
<1>5. hall.slots \in [Slot -> {"free", "busy", "done"}]
  BY <1>4
<1>6. at = "run"
  BY DEF WorkerInit
<1>7. RecruitTypeOK
  <2>1. recruit.times \in Int /\ recruit.cur \in Nat /\ hall.confirmed \in Nat
    BY <1>3, <1>4
  <2>2. recruit.discard \in BOOLEAN /\ recruit.direct \in BOOLEAN /\ hall.lost \in BOOLEAN /\ hall.stale \in BOOLEAN
    BY <1>3, <1>4
  <2>3. hall.overtaken \in BOOLEAN
    BY <1>4
  <2>4. hall.turned \in BOOLEAN
    BY <1>4
  <2> QED
    BY <1>3, <1>4, <1>5, <2>1, <2>2, <2>3, <2>4 DEF RecruitTypeOK
<1>8. PressesAreCounted
  <2>1. hall.overtaken = FALSE => ~(recruit.times < 0)
    BY Zenon, <1>4
  <2>2. recruit.times \in Int /\ recruit.cur = 0 /\ recruit.discard = FALSE /\ hall.confirmed = 0
    BY <1>3, <1>4
  <2> QED
    BY ONLY <2>1, <2>2 DEF PressesAreCounted
<1>9. OpenToDo /\ CleanIsFresh /\ StaleIsLost
  BY <1>3, <1>4, <1>6 DEF OpenToDo, CleanIsFresh, StaleIsLost
<1> QED
  BY <1>7, <1>8, <1>9 DEF RecruitInv

\* Other params: less than was counted is known, and so is a calculation that reports.
LEMMA SetStep ==
  ASSUME RecruitInv, NEW a \in RecruitAsks, SetRecruit(a)
  PROVE  RecruitInv'
<1> USE DEF RecruitInv, RecruitTypeOK, PressesAreCounted, OpenToDo, CleanIsFresh, StaleIsLost, Over
<1>1. a.times \in Int /\ a.confirms \in BOOLEAN
  BY RecruitAssumption DEF RecruitAssumption
<1>2. UNCHANGED at
  BY DEF SetRecruit, Stays, worker
<1>3. recruit' = [recruit EXCEPT !.times = a.times, !.refresh = a.refresh, !.speedUp = a.speedUp, !.confirms = a.confirms]
  BY DEF SetRecruit
<1>4. /\ DOMAIN recruit' = OfRecruit /\ recruit'.times = a.times /\ recruit'.confirms = a.confirms
      /\ recruit'.cur = recruit.cur /\ recruit'.discard = recruit.discard /\ recruit'.direct = recruit.direct
      /\ recruit'.dirty = recruit.dirty /\ recruit'.slot = recruit.slot
  BY <1>3 DEF OfRecruit
<1>5. /\ DOMAIN hall' = OfHall /\ hall'.slots = hall.slots /\ hall'.fresh = hall.fresh /\ hall'.confirmed = hall.confirmed
      /\ hall'.lost = hall.lost /\ hall'.stale = hall.stale /\ hall'.overtaken = (a.times < Reached)
      /\ hall'.turned = (hall.turned \/ (at = "analyze" /\ recruit.direct /\ ~CalcOnly'))
  BY Zenon DEF SetRecruit, OfHall
<1>6. RecruitTypeOK'
  <2>1. hall'.overtaken \in BOOLEAN /\ hall'.turned \in BOOLEAN
    BY <1>5
  <2> QED
    BY <1>1, <1>4, <1>5, <2>1
<1>7. hall'.overtaken = FALSE => recruit.cur <= a.times
                              /\ (at = "confirm" \/ (at = "analyze" /\ recruit.direct = FALSE) \/ recruit.discard = TRUE
                                    => recruit.cur < a.times)
  <2> DEFINE more == at = "confirm" \/ (at = "analyze" /\ recruit.direct = FALSE) \/ recruit.discard = TRUE
  <2>1. Reached = recruit.cur + (IF more THEN 1 ELSE 0)
    <3>1. more <=> at = "confirm" \/ (at = "analyze" /\ ~recruit.direct) \/ recruit.discard
      OBVIOUS
    <3> QED
      BY Zenon, <3>1 DEF Reached
  <2>2. recruit.cur \in Nat /\ (hall'.overtaken = FALSE => ~(a.times < Reached))
    BY <1>5
  <2> HIDE DEF more
  <2>3. CASE more
    <3>1. Reached = recruit.cur + 1
      BY <2>1, <2>3
    <3> QED
      BY ONLY <1>1, <2>2, <3>1
  <2>4. CASE ~more
    <3>1. Reached = recruit.cur + 0
      BY <2>1, <2>4
    <3>2. hall'.overtaken = FALSE => recruit.cur <= a.times
      BY ONLY <1>1, <2>2, <3>1
    <3> QED
      BY <2>4, <3>2 DEF more
  <2> QED
    BY <2>3, <2>4
<1>8. PressesAreCounted'
  BY <1>4, <1>5, <1>7
<1>9. OpenToDo'
  BY <1>2, <1>4, <1>5, <1>7
<1>10. CleanIsFresh'
  BY <1>2, <1>4, <1>5
<1>11. StaleIsLost'
  BY <1>2, <1>4, <1>5
<1> QED
  BY <1>6, <1>8, <1>9, <1>10, <1>11

\* Whatever the task does, its client or nobody.
LEMMA RecruitGoesOn ==
  ASSUME RecruitInv, [RecruitNext \/ (StopWorker /\ UNCHANGED <<recruit, hall>>)]_recruitVars
  PROVE  RecruitInv'
<1>1. CASE UNCHANGED <<at, recruit, hall>>
  BY <1>1 DEF RecruitInv, RecruitTypeOK, PressesAreCounted, OpenToDo, CleanIsFresh, StaleIsLost, CalcOnly
<1>2. CASE RecruitNext
  BY <1>2, BeginStep, OpenStep, LeaveStep, AgainStep, SpeedStep, ConfirmStep, AnalyzeStep, RefreshStep, SetStep
     DEF RecruitNext, RecruitWorks
<1> QED
  BY <1>1, <1>2 DEF StopWorker, recruitVars, worker

\* Of all steps the recruitment can take part in its own and a stop.
LEMMA StepOfRecruit ==
  ASSUME [Next]_vars, task = "recruit"
  PROVE  [RecruitNext \/ (StopWorker /\ UNCHANGED <<recruit, hall>>)]_recruitVars
BY Zenon DEF Next, Only, vars, Own, recruitVars

RecruitKept == task = "recruit" => RecruitInv

\* Confirm is pressed no more often than asked for last, through all retries and whatever
\* params come meanwhile, unless they ask for less than was counted; and what is reported
\* was not reported before, unless a refresh did nothing or a calculation was turned into
\* a recruitment on its way (AutoRecruitTask).
THEOREM RecruitsOnlyAsAsked == Spec => []RecruitsAsAsked
<1>1. Init => RecruitKept
  BY RecruitStarts DEF Init, WorkerInit, RecruitKept
<1>2. RecruitKept /\ [Next]_vars => RecruitKept'
  <2> SUFFICES ASSUME RecruitKept, [Next]_vars PROVE RecruitKept'
    OBVIOUS
  <2>1. task = "recruit" => RecruitInv'
    BY StepOfRecruit, RecruitGoesOn DEF RecruitKept
  <2> QED
    BY Zenon, <2>1, TaskKept DEF RecruitKept
<1>3. RecruitKept => RecruitsAsAsked
  BY DEF RecruitKept, RecruitInv, RecruitTypeOK, PressesAreCounted, StaleIsLost, RecruitsAsAsked
<1> QED
  BY <1>1, <1>2, <1>3, PTL DEF Spec
=============================================================================
