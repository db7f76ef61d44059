----------------------------- MODULE Reclamation -----------------------------
(***************************************************************************)
(* Reclamation Algorithm, one round after the other until a stop: give up  *)
(* what was begun, begin again, and either go into battles only to leave   *)
(* them, or buy water of the liaison and forge gold as long as there is    *)
(* material.  Each part of a round is a ProcessTask; one that must succeed *)
(* and does not ends the round.                                            *)
(***************************************************************************)
EXTENDS Worker

CONSTANTS
  Rounds,         \* the rounds that are looked at
  Npcs,           \* how many skills are ready in the market
  Options,        \* the options of a dialogue, and its "Skip"
  DialogTries,    \* max_retry of do_dialog_procedure, 5 in the code
  QuitTries,      \* the limit of retry in quit_action, 5 in the code
  BattleTries,    \* retry_times of ReclamationBattlePlugin when it gives up
  Material        \* how much gold the material is for

ASSUME ReclamationAssumption ==
  {Rounds, Npcs, DialogTries, QuitTries, BattleTries, Material} \subseteq Nat /\ Options \in Seq({"option", "Skip"}) \ {<<>>}

VARIABLES
  reclaim,   \* ReclamationControlTask, its battle and its report plugin
  camp       \* the game

reclaimVars == <<worker, reclaim, camp>>

ReclaimInit ==
  /\ reclaim \in [mode : {"giveup", "gold"}, sharp : BOOLEAN,      \* sharp: an option is seen if and only if it is there
                  times : {0}, gold : {0}, badges : {0}, bought : {FALSE}, flag : {FALSE},
                  order : {1}, i : {0}, tries : {0}, run : {0}, done : {FALSE}]
  /\ camp = [on |-> FALSE, battle |-> FALSE, dialog |-> 0, water |-> FALSE, left |-> 0, made |-> 0, closed |-> 0, again |-> 0, vain |-> 0]

RoundEnds == Goes("run") /\ UNCHANGED camp
MustDo(step, next) == at = step /\ \E ok \in BOOLEAN : Sub(ok) /\ IF ok THEN Goes(next) ELSE Goes("run")
MayDo(step, yes, no) == at = step /\ \E ok \in BOOLEAN : Sub(ok) /\ IF ok THEN Goes(yes) ELSE Goes(no)
CampSame == UNCHANGED <<reclaim, camp>>

\* _run, which never succeeds
NextRound ==
  /\ at = "run" /\ UNCHANGED camp
  /\ IF stopped THEN Goes("failed") /\ UNCHANGED reclaim
     ELSE reclaim.times < Rounds /\ Goes("home") /\ reclaim' = [reclaim EXCEPT !.times = @ + 1, !.bought = FALSE]

NavigateHome == MustDo("home", "give up") /\ CampSame

\* give_up_last_algorithm_if: whether it succeeds is not looked at.  The report is read
\* each time GiveupSkipConfirm starts, and its click may have no effect.
GiveUpLast ==
  /\ at = "give up"
  /\ \/ Goes("start") /\ CampSame
     \/ /\ camp.on /\ ~stopped
        /\ \E read \in 0..1 : reclaim' = [reclaim EXCEPT !.badges = @ + read]
        /\ \/ Goes("start") /\ camp' = [camp EXCEPT !.on = FALSE, !.closed = @ + 1]
           \/ camp.again = 0 /\ Stays /\ camp' = [camp EXCEPT !.again = @ + 1]

StartAlgorithm ==
  /\ at = "start"
  /\ \/ /\ ~camp.on /\ ~stopped /\ Goes("between")
        /\ camp' = [camp EXCEPT !.on = TRUE, !.water = FALSE, !.left = Material, !.battle = FALSE]
     \/ RoundEnds
  /\ reclaim' = [reclaim EXCEPT !.flag = FALSE]

\* wait_between_day: the sign has come and gone, or the report of the day is there.
WaitBetweenDay ==
  /\ at = "between" /\ UNCHANGED camp
  /\ IF stopped THEN Goes("run") /\ UNCHANGED reclaim
     ELSE \/ reclaim' = [reclaim EXCEPT !.flag = TRUE] /\ Stays
          \/ Goes("skip") /\ UNCHANGED reclaim
          \/ UNCHANGED reclaim /\ (IF reclaim.flag THEN Goes("skip") ELSE Stays)

SkipReport == MayDo("skip", IF reclaim.mode = "gold" THEN "market" ELSE "day", IF reclaim.mode = "gold" THEN "market" ELSE "day") /\ CampSame

\* A day of the first mode: no emergency, so into a battle.
CampDay ==
  /\ at = "day" /\ CampSame
  /\ \/ Goes("back")
     \/ ~stopped /\ Goes("enter")

EnterBattle == MustDo("enter", "battle") /\ camp' = [camp EXCEPT !.battle = (at' = "battle")] /\ reclaim' = [reclaim EXCEPT !.run = 0]

\* To the black market, until the water is bought.
ToMarket ==
  /\ at = "market" /\ CampSame
  /\ Goes(IF stopped \/ reclaim.bought THEN "command" ELSE "enter")

\* ReclamationBattlePlugin::_run, once the battle has begun
MapBegins ==
  /\ at = "battle" /\ UNCHANGED camp
  /\ reclaim' = [reclaim EXCEPT !.tries = 0, !.order = 1, !.i = 0]
  /\ Goes(IF reclaim.mode = "gold" THEN "talk" ELSE "quit")

-----------------------------------------------------------------------------
\* communicate_with: from the top, then from the bottom; the map may move under it.
Dialogue == reclaim' = [reclaim EXCEPT !.i = 1, !.tries = 0, !.done = FALSE] /\ camp' = [camp EXCEPT !.dialog = 1] /\ Goes("dialog")
NoDialogue == reclaim' = [reclaim EXCEPT !.bought = FALSE, !.tries = 0] /\ UNCHANGED camp /\ Goes("quit")

TalkTo ==
  /\ at = "talk"
  /\ \/ reclaim.i < Npcs /\ ~stopped /\ Dialogue
     \/ reclaim.i < Npcs /\ reclaim' = [reclaim EXCEPT !.i = @ + 1] /\ UNCHANGED camp /\ Stays   \* it is another one
     \/ /\ reclaim.order = 1                                                                    \* nobody, or the map has moved
        /\ reclaim' = [reclaim EXCEPT !.order = 2, !.i = 0] /\ UNCHANGED camp /\ Stays
     \/ reclaim.order = 2 /\ NoDialogue

\* The option i of the dialogue is shown when those before it have been taken.
Sees(shown) == IF reclaim.sharp THEN shown = (camp.dialog = reclaim.i) ELSE shown \in BOOLEAN
NextOption == [reclaim EXCEPT !.i = @ + 1, !.tries = 0, !.done = FALSE]

\* A click may have no effect; with the last option the water is bought.
OptionTaken == IF camp.dialog = reclaim.i THEN [camp EXCEPT !.dialog = @ + 1, !.water = @ \/ camp.dialog = Len(Options)] ELSE camp

\* Fault: one click is enough.
ClickOptionOnce ==
  /\ at = "dialog" /\ reclaim.i <= Len(Options) /\ Options[reclaim.i] = "option" /\ ~stopped /\ Sees(TRUE)
  /\ reclaim' = NextOption
  /\ camp' \in {camp, OptionTaken} /\ Stays

ClickOption ==
  /\ at = "dialog" /\ reclaim.i <= Len(Options) /\ Options[reclaim.i] = "option" /\ ~stopped /\ Sees(TRUE)
  /\ reclaim' = [reclaim EXCEPT !.done = TRUE]
  /\ camp' \in {camp, OptionTaken} /\ Stays

OptionMissing ==
  /\ at = "dialog" /\ reclaim.i <= Len(Options) /\ Options[reclaim.i] = "option" /\ ~stopped /\ Sees(FALSE)
  /\ IF reclaim.done THEN reclaim' = NextOption /\ UNCHANGED camp /\ Stays
     ELSE IF reclaim.tries + 1 < DialogTries THEN reclaim' = [reclaim EXCEPT !.tries = @ + 1] /\ UNCHANGED camp /\ Stays
     ELSE NoDialogue

SkipDialogue ==
  /\ at = "dialog" /\ reclaim.i <= Len(Options) /\ Options[reclaim.i] = "Skip"
  /\ reclaim' = NextOption /\ Stays
  /\ camp' = IF reclaim.sharp /\ ~stopped THEN OptionTaken ELSE camp

\* With a stop the loop over an option ends as if it had been taken.
DialogueStopped == at = "dialog" /\ reclaim.i <= Len(Options) /\ stopped /\ reclaim' = NextOption /\ UNCHANGED camp /\ Stays

DialogueOver ==
  /\ at = "dialog" /\ reclaim.i > Len(Options)
  /\ reclaim' = [reclaim EXCEPT !.bought = TRUE, !.tries = 0] /\ UNCHANGED camp /\ Goes("quit")

-----------------------------------------------------------------------------
\* quit_action gives up; of the battle that was to be left only, it is run again.
QuitFails ==
  /\ UNCHANGED camp
  /\ IF reclaim.mode = "gold" THEN Goes("complete") /\ UNCHANGED reclaim
     ELSE IF ~stopped /\ reclaim.run < BattleTries THEN Goes("battle") /\ reclaim' = [reclaim EXCEPT !.run = @ + 1]
     ELSE Goes("run") /\ UNCHANGED reclaim

Quit ==
  /\ at = "quit"
  /\ IF stopped THEN Goes("complete") /\ CampSame
     ELSE \/ QuitFails                                                                   \* neither click
          \/ IF reclaim.tries < QuitTries THEN Stays /\ reclaim' = [reclaim EXCEPT !.tries = @ + 1] /\ UNCHANGED camp
             ELSE QuitFails
          \/ Goes("complete") /\ camp' = [camp EXCEPT !.battle = FALSE] /\ UNCHANGED reclaim
          \/ Stays /\ reclaim' = [reclaim EXCEPT !.tries = 0] /\ UNCHANGED camp             \* still in the battle

LevelComplete ==
  /\ MustDo("complete", IF reclaim.mode = "gold" THEN "market" ELSE "next day")
  /\ camp' = [camp EXCEPT !.battle = @ /\ at' = "run"] /\ UNCHANGED reclaim

NextDay == MayDo("next day", "between", "day") /\ reclaim' = [reclaim EXCEPT !.flag = FALSE] /\ UNCHANGED camp

CommandCenter == MustDo("command", "forge page") /\ CampSame

\* check_manufacture_status: no material, enough, or another page
ForgePage == at = "forge page" /\ CampSame /\ (Goes("run") \/ (~stopped /\ Goes("forge")))

\* It is counted before it is made; whether it is made is not looked at.
ForgeGold ==
  /\ at = "forge"
  /\ \/ Goes("back") /\ CampSame
     \/ /\ camp.left > 0 /\ ~stopped /\ Stays
        /\ reclaim' = [reclaim EXCEPT !.gold = @ + 1]
        /\ \/ camp' = [camp EXCEPT !.left = @ - 1, !.made = @ + 1]
           \/ camp.vain = 0 /\ camp' = [camp EXCEPT !.vain = @ + 1]

ToBack == at = "back" /\ Goes("run") /\ CampSame

ReclaimNext ==
  \/ NextRound \/ NavigateHome \/ GiveUpLast \/ StartAlgorithm \/ WaitBetweenDay \/ SkipReport \/ CampDay \/ EnterBattle \/ ToMarket
  \/ MapBegins \/ TalkTo \/ ClickOption \/ OptionMissing \/ SkipDialogue \/ DialogueStopped \/ DialogueOver \/ Quit
  \/ LevelComplete \/ NextDay \/ CommandCenter \/ ForgePage \/ ForgeGold \/ ToBack
-----------------------------------------------------------------------------
\* If options are seen as they are, nothing is forged before the water of this round is
\* bought, however often the market has to be entered and however a dialogue breaks off,
\* and no new battle begins under one that has not been left; the gold that is reported
\* is what was made and what was tried in vain, and a report is read once for each
\* expedition that is closed and for each click without effect.
ReclamationIsTrue ==
  task = "reclaim" =>
    /\ reclaim.sharp /\ at \in {"forge page", "forge"} => camp.water /\ ~camp.battle
    /\ at \in {"day", "market"} => ~camp.battle
    /\ reclaim.gold = camp.made + camp.vain
    /\ reclaim.badges <= camp.closed + camp.again
=============================================================================
