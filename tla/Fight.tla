------------------------------- MODULE Fight -------------------------------
(***************************************************************************)
(* The fight task: ProcessTask running the tasks of tasks.json that begin  *)
(* at FightBegin, with the limits of FightTask::set_params and the plugin  *)
(* StageDropsTaskPlugin that may end it, against the game.                 *)
(*                                                                         *)
(* The game is the environment.  It shows one screen at a time; it answers *)
(* a click, or loses it; battles end, fail or are cut off by a lost        *)
(* connection; battles, medicines and stones are counted where the game    *)
(* counts them, on its side.                                               *)
(*                                                                         *)
(* Tasks that are told apart only by a template are one: PRTS stands for   *)
(* PRTS, PRTS2 and PRTS3, UsePrts for its variants, GameStart for all of   *)
(* StartUpThemes.  Left out are the pages that only delay (loading,        *)
(* announcements), annihilation stages and the event stage without a       *)
(* return button.                                                          *)
(***************************************************************************)
EXTENDS Integers, Sequences

CONSTANTS
  Times, Medicine, Expiring, Stone,   \* the params of the fight task
  FailureLimit,                       \* maxTimes of FightMissionFailed
  Sanity,                             \* the battles the sanity suffices for, if there is any
  Stock, OldStock, Stones,            \* medicines, expiring ones and stones the player may have
  MaxFaults,                          \* bound on the faults of the game
  RetryTimes, MaxExec, Unlimited, NoTask, NotGiven

ASSUME ParamsAssumption ==
  /\ Times \in Nat /\ Medicine \in Nat /\ Expiring \in Nat /\ Stone \in Nat
  /\ FailureLimit \in Nat /\ Sanity \in Nat
  /\ Stock \in Nat /\ OldStock \in Nat /\ Stones \in Nat
  /\ MaxFaults \in Nat
ASSUME UnlimitedAssumption == Unlimited \in Nat \ {0}
ASSUME NotGivenAssumption == NotGiven \notin [times : Nat, type : {"Pre", "Post"}]

VARIABLES
  pc, raw, names, cur, retry, exec, given, allowed, subs, result, needExit, acted, highest,
  screen,     \* what the game shows
  sanity, stock, oldStock, stones,
  spent,      \* what of these was spent
  finished,   \* battles won
  drops, lost, errors,   \* connections lost, clicks or looks lost, battles failed
  enough      \* (history) the plugin has ended the task

taskVars == <<pc, raw, names, cur, retry, exec, given, allowed, subs, result, needExit,
              acted, highest>>
purse == <<sanity, stock, oldStock, stones, spent>>
faults == <<drops, lost, errors>>
gameVars == <<screen, purse, finished, faults>>
vars == <<taskVars, gameVars, enough>>

-----------------------------------------------------------------------------
(* tasks.json *)

Task ==
  {"FightBegin", "UsePrts", "StartButton1", "StartButton2", "PRTS", "WaitAfterPRTS",
   "ClickCornerAfterPRTS_1", "ClickCornerAfterPRTS_2", "EndOfAction", "ClickCorner",
   "UseMedicine", "MedicineConfirm", "ExpiringMedicineCheck", "ExpiringMedicineConfirm",
   "UseStone", "StoneConfirm", "NoStone", "CloseStonePage", "PrtsErrorConfirm",
   "AbandonAction", "FightMissionFailed", "FightMissionFailedAndStop", "OfflineConfirm",
   "OfflineConfirmImpl", "GameStart", "Fight", "GoLastBattle", "ReturnTo",
   "RestartGameAndContinue", "Stop"}

ASSUME NoTaskAssumption == NoTask \notin Task

\* "algorithm": "JustReturn"
JustReturn ==
  {"FightBegin", "WaitAfterPRTS", "ClickCornerAfterPRTS_1", "ClickCornerAfterPRTS_2",
   "ClickCorner", "CloseStonePage", "RestartGameAndContinue", "Stop"}

Themes == <<"GameStart", "Fight", "OfflineConfirm">>
Battle == <<"PRTS", "EndOfAction", "PrtsErrorConfirm", "OfflineConfirm", "WaitAfterPRTS">>
Pages == <<"StartButton1", "StartButton2", "UseMedicine", "UseStone", "NoStone">>

NextOfBattle(t) ==
  CASE t = "FightBegin"    -> <<"UsePrts", "StartButton1", "PRTS", "EndOfAction">>
    [] t = "UsePrts"       -> <<"StartButton1">>
    [] t = "StartButton1"  -> <<"StartButton2", "UseMedicine", "UseStone", "NoStone",
                                "OfflineConfirm">>
    [] t = "StartButton2"  -> <<"PRTS", "EndOfAction", "StartButton2", "PrtsErrorConfirm",
                                "OfflineConfirm", "WaitAfterPRTS">>
    [] t = "PRTS"          -> Battle
    [] t = "WaitAfterPRTS" -> <<"PRTS", "EndOfAction", "ClickCornerAfterPRTS_1">>
    [] t = "EndOfAction"   -> <<"ClickCorner">>
    [] t = "ClickCorner"   -> Append(Pages, "EndOfAction")

NextOfSanity(t) ==
  CASE t = "UseMedicine"           -> <<"MedicineConfirm">>
    [] t = "ExpiringMedicineCheck" -> <<"ExpiringMedicineConfirm">>
    [] t = "UseStone"              -> <<"StoneConfirm">>
    [] t \in {"MedicineConfirm", "ExpiringMedicineConfirm", "StoneConfirm"} ->
         <<"StartButton1", "OfflineConfirm">>
    [] t = "NoStone"               -> <<"CloseStonePage">>
    [] t = "CloseStonePage"        -> <<"Stop">>

\* Without OfflineConfirmAfterBattle, for a popup that the game below does not show.
NextOfErrors(t) ==
  CASE t = "PrtsErrorConfirm"       -> <<"AbandonAction">>
    [] t = "AbandonAction"          -> <<"FightMissionFailed", "EndOfAction">> \o Themes
                                       \o <<"StartButton1">>
    [] t = "FightMissionFailed"     -> <<"EndOfAction">> \o Themes \o <<"StartButton1">>
    [] t = "OfflineConfirm"         -> <<"OfflineConfirmImpl">>
    [] t = "OfflineConfirmImpl"     -> <<"OfflineConfirmImpl">> \o Themes
    [] t = "GameStart"              -> Themes
    [] t = "Fight"                  -> <<"GoLastBattle", "Fight", "Stop">>
    [] t = "GoLastBattle"           -> <<"UsePrts", "StartButton1">>
    [] t = "ReturnTo"               -> <<"Fight", "ReturnTo">>
    [] t = "ClickCornerAfterPRTS_1" -> <<"EndOfAction">> \o Pages \o Themes
                                       \o <<"ClickCornerAfterPRTS_2">>
    [] t = "ClickCornerAfterPRTS_2" -> <<"EndOfAction">> \o Pages \o Themes
    [] t = "RestartGameAndContinue" -> Append(Themes, "ReturnTo")
    [] t \in {"FightMissionFailedAndStop", "Stop"} -> <<>>

TaskOfBattle ==
  {"FightBegin", "UsePrts", "StartButton1", "StartButton2", "PRTS", "WaitAfterPRTS",
   "EndOfAction", "ClickCorner"}
TaskOfSanity ==
  {"UseMedicine", "MedicineConfirm", "ExpiringMedicineCheck", "ExpiringMedicineConfirm",
   "UseStone", "StoneConfirm", "NoStone", "CloseStonePage"}

NextOf(t) ==
  IF t \in TaskOfBattle THEN NextOfBattle(t)
  ELSE IF t \in TaskOfSanity THEN NextOfSanity(t)
  ELSE NextOfErrors(t)

ExceededNextOf(t) ==
  CASE t = "StartButton1"       -> <<"Stop">>
    [] t = "MedicineConfirm"    -> <<"ExpiringMedicineCheck", "CloseStonePage">>
    [] t \in {"ExpiringMedicineConfirm", "StoneConfirm"} -> <<"CloseStonePage">>
    [] t = "FightMissionFailed" -> <<"FightMissionFailedAndStop">>
    [] OTHER                    -> <<>>

\* Fault: a restart that fails is tried again and again.
OnErrorNextForEver(t) ==
  CASE t \in {"ClickCorner", "ClickCornerAfterPRTS_2", "RestartGameAndContinue"} ->
         <<"RestartGameAndContinue">>
    [] t = "FightMissionFailed" -> <<"ClickCornerAfterPRTS_1">>
    [] OTHER                    -> <<>>

OnErrorNextOf(t) ==
  CASE t \in {"ClickCorner", "ClickCornerAfterPRTS_2"} -> <<"RestartGameAndContinue">>
    [] t = "FightMissionFailed" -> <<"ClickCornerAfterPRTS_1">>
    [] OTHER                    -> <<>>

\* Fault: a lost connection gives the medicine back too.
ReducesMedicine(t) ==
  IF t \in {"AbandonAction", "OfflineConfirm", "GameStart"}
    THEN {"StartButton1", "StartButton2", "MedicineConfirm"}
    ELSE IF t \in {"MedicineConfirm", "ExpiringMedicineConfirm", "StoneConfirm"}
      THEN {"StartButton1"} ELSE {}

\* Fault: a battle that was won is given back.
ReducesWon(t) ==
  CASE t \in {"MedicineConfirm", "ExpiringMedicineConfirm", "StoneConfirm"} -> {"StartButton1"}
    [] t \in {"AbandonAction", "OfflineConfirm", "GameStart", "EndOfAction"} ->
         {"StartButton1", "StartButton2"}
    [] OTHER -> {}

\* Fault: a click that led to the medicine page counts as a battle.
ReducesNoMedicine(t) ==
  CASE t \in {"AbandonAction", "OfflineConfirm", "GameStart"} -> {"StartButton1", "StartButton2"}
    [] t = "EndOfAction" -> {"FightMissionFailed"}
    [] OTHER             -> {}

\* "reduceOtherTimes": the click that led here was not a battle after all.
ReducesOf(t) ==
  CASE t \in {"MedicineConfirm", "ExpiringMedicineConfirm", "StoneConfirm"} -> {"StartButton1"}
    [] t \in {"AbandonAction", "OfflineConfirm", "GameStart"} -> {"StartButton1", "StartButton2"}
    [] t = "EndOfAction" -> {"FightMissionFailed"}
    [] OTHER             -> {}

Info == [t \in Task |->
  [just |-> t \in JustReturn, stop |-> t = "Stop", ignored |-> FALSE,
   maxTimes |-> CASE t \in {"MedicineConfirm", "ExpiringMedicineConfirm", "StoneConfirm"} -> 0
                  [] t = "FightMissionFailed" -> FailureLimit
                  [] OTHER -> Unlimited,
   next |-> NextOf(t), exceededNext |-> ExceededNextOf(t), onErrorNext |-> OnErrorNextOf(t),
   sub |-> <<>>, reduces |-> ReducesOf(t)]]

Pre(n) == [times |-> n, type |-> "Pre"]

\* FightTask::set_params
Params == [t \in Task |->
  CASE t = "MedicineConfirm"         -> Pre(Medicine)
    [] t = "ExpiringMedicineConfirm" -> Pre(Expiring)
    [] t = "StoneConfirm"            -> Pre(Stone)
    [] t \in {"StartButton1", "StartButton2"} -> Pre(Times)
    [] OTHER                         -> NotGiven]

\* StageDropsTaskPlugin::stop_task
Ended == {"StartButton1", "StartButton2", "MedicineConfirm", "StoneConfirm"}

PT == INSTANCE ProcessTask WITH
  Name <- Task, Base <- [t \in Task |-> <<t>>], First <- <<"FightBegin">>,
  GivenFirst <- Params, Settable <- Ended \X {Pre(0)}

-----------------------------------------------------------------------------
(* The game *)

Screen ==
  {"unticked", "stage", "formation", "battle", "result", "medicine", "stone", "noStone",
   "prtsError", "failed", "offline", "title", "lobby", "terminal"}

\* MedicineConfirm.png is the template of all three confirmations.
Confirm == {"MedicineConfirm", "ExpiringMedicineConfirm", "StoneConfirm"}

\* The tasks whose template or text is on the screen.
Visible ==
  CASE screen = "unticked"  -> {"UsePrts", "StartButton1", "ReturnTo"}
    [] screen = "stage"     -> {"StartButton1", "ReturnTo"}
    [] screen = "formation" -> {"StartButton2", "ReturnTo"}
    [] screen = "battle"    -> {"PRTS"}
    [] screen = "result"    -> {"EndOfAction"}
    [] screen = "medicine"  -> {"UseMedicine"} \cup Confirm
                               \cup (IF oldStock > 0 THEN {"ExpiringMedicineCheck"} ELSE {})
    [] screen = "stone"     -> {"UseStone"} \cup Confirm
    [] screen = "noStone"   -> {"NoStone"}
    [] screen = "prtsError" -> {"PrtsErrorConfirm", "AbandonAction"}
    [] screen = "failed"    -> {"FightMissionFailed", "FightMissionFailedAndStop"}
    [] screen = "offline"   -> {"OfflineConfirm", "OfflineConfirmImpl"}
    [] screen = "title"     -> {"GameStart"}
    [] screen = "lobby"     -> {"Fight"}
    [] screen = "terminal"  -> {"GoLastBattle", "ReturnTo"}

MayFail == drops + lost + errors < MaxFaults

\* What the blue button opens.
Entrance ==
  IF sanity > 0 THEN "formation"
  ELSE IF stock + oldStock > 0 THEN "medicine"
  ELSE IF stones > 0 THEN "stone"
  ELSE "noStone"

\* The screen after a click of t, the same one if there is nothing to click.
Leads(t) ==
  CASE screen = "unticked" /\ t = "UsePrts"                        -> "stage"
    [] screen \in {"unticked", "stage"} /\ t = "StartButton1"      -> Entrance
    [] screen \in {"unticked", "stage", "terminal"} /\ t = "ReturnTo" -> "lobby"
    [] screen = "formation" /\ t = "ReturnTo"                      -> "stage"
    [] screen = "formation" /\ t = "StartButton2"                  -> "battle"
    [] screen \in {"medicine", "stone"} /\ t \in Confirm           -> "stage"
    [] screen \in {"medicine", "stone", "noStone"} /\ t = "CloseStonePage" -> "stage"
    [] screen = "result" /\ t \in {"ClickCorner", "ClickCornerAfterPRTS_1",
                                   "ClickCornerAfterPRTS_2"}       -> "stage"
    [] screen = "prtsError" /\ t = "AbandonAction"                 -> "failed"
    [] screen = "failed" /\ t \in {"FightMissionFailed", "FightMissionFailedAndStop"} -> "stage"
    [] screen = "offline" /\ t = "OfflineConfirmImpl"              -> "title"
    [] screen = "title" /\ t = "GameStart"                         -> "lobby"
    [] screen = "lobby" /\ t = "Fight"                             -> "terminal"
    [] screen = "terminal" /\ t = "GoLastBattle"                   -> "stage"
    [] OTHER                                                       -> screen

\* A confirmed page costs a medicine, the oldest first, or a stone.
Pays(t) ==
  IF t \in Confirm /\ screen \in {"medicine", "stone"}
    THEN /\ sanity' = sanity + 1
         /\ \/ /\ screen = "medicine" /\ oldStock > 0
               /\ oldStock' = oldStock - 1
               /\ spent' = [spent EXCEPT !.oldStock = @ + 1]
               /\ UNCHANGED <<stock, stones>>
            \/ /\ screen = "medicine" /\ oldStock = 0
               /\ stock' = stock - 1
               /\ spent' = [spent EXCEPT !.stock = @ + 1]
               /\ UNCHANGED <<oldStock, stones>>
            \/ /\ screen = "stone"
               /\ stones' = stones - 1
               /\ spent' = [spent EXCEPT !.stones = @ + 1]
               /\ UNCHANGED <<stock, oldStock>>
    ELSE UNCHANGED purse

TakesClick(t) ==
  /\ screen' = Leads(t)
  /\ Pays(t)
  /\ UNCHANGED <<finished, faults>>

LosesClick(t) ==
  /\ Leads(t) # screen
  /\ MayFail
  /\ lost' = lost + 1
  /\ UNCHANGED <<screen, purse, finished, drops, errors>>

BattleEnds ==
  /\ screen = "battle"
  /\ screen' = "result"
  /\ sanity' = sanity - 1
  /\ finished' = finished + 1
  /\ UNCHANGED <<taskVars, stock, oldStock, stones, spent, faults, enough>>

BattleErrors ==
  /\ screen = "battle"
  /\ MayFail
  /\ screen' = "prtsError"
  /\ errors' = errors + 1
  /\ UNCHANGED <<taskVars, purse, finished, drops, lost, enough>>

\* A battle that is cut off is lost and costs nothing.
Disconnects ==
  /\ screen \notin {"offline", "title"}
  /\ MayFail
  /\ screen' = "offline"
  /\ drops' = drops + 1
  /\ UNCHANGED <<taskVars, purse, finished, lost, errors, enough>>

-----------------------------------------------------------------------------
(* The task and the game *)

Init ==
  /\ PT!Init
  /\ screen \in {"unticked", "stage"}
  /\ sanity \in {0, Sanity}
  /\ stock \in {0, Stock} /\ oldStock \in {0, OldStock} /\ stones \in {0, Stones}
  /\ spent = [stock |-> 0, oldStock |-> 0, stones |-> 0]
  /\ finished = 0
  /\ drops = 0 /\ lost = 0 /\ errors = 0
  /\ enough = FALSE

Decide == PT!Decide /\ UNCHANGED <<gameVars, enough>>

\* get_image and the recognition: the screen as it is, or too blurred to tell.
Look ==
  /\ UNCHANGED <<screen, purse, finished, drops, errors, enough>>
  /\ \/ PT!Look(Visible) /\ UNCHANGED lost
     \/ PT!Look({}) /\ Visible # {} /\ MayFail /\ lost' = lost + 1

Act == PT!Act /\ (TakesClick(cur) \/ LosesClick(cur)) /\ UNCHANGED enough

\* StageDropsTaskPlugin, when EndOfAction is completed: the drops asked for are
\* there, or the stage is not the one asked for.
StopTask ==
  /\ pc = "subs" /\ cur = "EndOfAction"
  /\ ~needExit /\ ~enough
  /\ given' = [t \in Task |-> IF t \in Ended THEN Pre(0) ELSE given[t]]
  /\ enough' = TRUE
  /\ UNCHANGED <<pc, raw, names, cur, retry, exec, allowed, subs, result, needExit, acted,
                 highest, gameVars>>

UserStops == ~needExit /\ PT!StopOrStart /\ UNCHANGED <<gameVars, enough>>

TaskStep == Decide \/ Look \/ Act

Next ==
  \/ TaskStep \/ StopTask \/ UserStops
  \/ BattleEnds \/ BattleErrors \/ Disconnects

\* The worker goes on with the task, and a battle comes to an end.
Spec == Init /\ [][Next]_vars /\ WF_vars(TaskStep) /\ WF_vars(BattleEnds)

-----------------------------------------------------------------------------
TypeOK ==
  /\ PT!TypeOK
  /\ screen \in Screen
  /\ sanity \in Nat /\ stock \in Nat /\ oldStock \in Nat /\ stones \in Nat
  /\ spent \in [stock : Nat, oldStock : Nat, stones : Nat]
  /\ finished \in Nat
  /\ drops \in Nat /\ lost \in Nat /\ errors \in Nat /\ drops + lost + errors <= MaxFaults
  /\ enough \in BOOLEAN

\* The task never spends more medicines or stones than it was allowed to, and
\* beyond the medicines it was allowed only such as are about to expire.
SpendsWithinParams ==
  /\ spent.stones <= Stone
  /\ spent.stock <= Medicine
  /\ spent.stock + spent.oldStock <= Medicine + Expiring

\* A lost connection gives back two battles at most, those of OfflineConfirm and
\* of GameStart, and each click lost on the title one more; nothing else makes the
\* task fight more often than asked.
TimesKept == finished <= Times + 2 * drops + lost

\* A lost connection gives back one battle, the one it cut off.
GivenBackOnce == finished <= Times + drops

\* What the params allow to spend next is spent, or the player has none.
NothingToSpend ==
  /\ sanity = 0
  /\ IF stock + oldStock > 0
       THEN /\ spent.stock + spent.oldStock >= Medicine
            /\ oldStock = 0 \/ spent.stock + spent.oldStock >= Medicine + Expiring
       ELSE stones = 0 \/ spent.stones = Stone

\* Without faults of the game, success means that the task fought as often as it
\* was asked to, was ended by the plugin, or has nothing left to spend.
SuccessIsEarned ==
  pc = "returned" /\ result = TRUE /\ drops = 0 /\ lost = 0 /\ errors = 0
    => finished = Times \/ enough \/ NothingToSpend

\* Once the plugin has ended the task no battle follows, however the counters
\* stand then and whatever a lost connection or an error gives back to them later.
NoBattleAfterDrops == enough => screen # "battle"

\* Every fight comes to an end.
FightEnds == <>(pc = "returned")
=============================================================================
